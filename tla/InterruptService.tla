-------------------------- MODULE InterruptService --------------------------
(***************************************************************************)
(* What a program and its devices may count on: the processor grants one   *)
(* level, above its priority; one device of that level takes the grant,    *)
(* and the trap that follows is that device's.  Every grant ends that way, *)
(* every device that takes one interrupts once, and the priority stays as  *)
(* it is in between.  No requests, no vectors, no arbiters and no clock.   *)
(***************************************************************************)
EXTENDS Integers

CONSTANTS
    Devices,    \* the device controllers
    Level,      \* the level each of them interrupts at
    Levels      \* the levels there are

VARIABLES
    ipl,        \* the processor's priority
    granted,    \* the levels being granted
    takers,     \* the devices that have taken the grant
    trapping    \* the processor is in a trap

vars == <<ipl, granted, takers, trapping>>

Init ==
    /\ ipl = 0
    /\ granted = {}
    /\ takers = {}
    /\ trapping = FALSE

(* An instruction, or a trap on its way to its handler.                    *)
Run ==
    /\ granted = {}
    /\ ipl' \in 0..7
    /\ trapping' \in BOOLEAN
    /\ UNCHANGED <<granted, takers>>

Grant ==
    /\ granted = {} /\ ~trapping
    /\ \E l \in Levels : l > ipl /\ granted' = {l}
    /\ UNCHANGED <<ipl, takers, trapping>>

Take ==
    /\ takers = {}
    /\ \E d \in Devices : Level[d] \in granted /\ takers' = {d}
    /\ UNCHANGED <<ipl, granted, trapping>>

Interrupt ==
    /\ \E d \in Devices : takers = {d}
    /\ granted' = {}
    /\ takers' = {}
    /\ trapping' = TRUE
    /\ UNCHANGED ipl

Next == Run \/ Grant \/ Take \/ Interrupt

Spec == Init /\ [][Next]_vars
=============================================================================
