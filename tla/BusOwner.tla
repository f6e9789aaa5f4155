------------------------------ MODULE BusOwner ------------------------------
(***************************************************************************)
(* Who owns the bus: what the processor, the bus masters and the memory    *)
(* behind the bus may count on.  The processor lends the bus, one master   *)
(* borrows it, keeps it until it is through with its burst and hands it    *)
(* back; the next master has to wait until the processor has had the bus   *)
(* again.  Only a reset takes the bus away.  No requests, no grant lines,  *)
(* no chain and no clock.                                                  *)
(***************************************************************************)
CONSTANT Masters

VARIABLES
    bus,      \* "cpu": the processor's; "lent": a master may take it;
              \* "held": a master's; "back": on its way to the processor;
              \* "reset": nobody's
    holders,  \* the masters that own the bus
    moving    \* the masters in the middle of a burst

vars == <<bus, holders, moving>>

Init ==
    /\ bus = "reset"
    /\ holders = {}
    /\ moving = {}

(* The processor lends the bus; by then the request may be gone.           *)
Lend ==
    /\ bus = "cpu"
    /\ bus' \in {"lent", "back"}
    /\ UNCHANGED <<holders, moving>>

Take ==
    /\ bus = "lent"
    /\ bus' = "held"
    /\ \E m \in Masters : holders' = {m}
    /\ UNCHANGED moving

(* The master that asked does not want the bus any more.                   *)
Forgo ==
    /\ bus = "lent"
    /\ bus' = "back"
    /\ UNCHANGED <<holders, moving>>

(* The words of a burst go over the bus while its master owns it.          *)
Move ==
    /\ bus = "held"
    /\ moving' \in SUBSET holders
    /\ UNCHANGED <<bus, holders>>

(* A master hands the bus back after its burst, never in the middle.       *)
HandBack ==
    /\ bus = "held"
    /\ moving = {}
    /\ bus' = "back"
    /\ holders' = {}
    /\ UNCHANGED moving

Return ==
    /\ bus = "back"
    /\ bus' = "cpu"
    /\ UNCHANGED <<holders, moving>>

(* A reset takes the bus away.  A burst it cuts off ends before the        *)
(* processor starts again.                                                 *)
Reset ==
    /\ bus' = "reset"
    /\ holders' = {}
    /\ moving' \in SUBSET (holders \cup moving)

Start ==
    /\ bus = "reset"
    /\ bus' = "cpu"
    /\ moving' = {}
    /\ UNCHANGED holders

Next == Lend \/ Take \/ Forgo \/ Move \/ HandBack \/ Return \/ Reset \/ Start

Spec == Init /\ [][Next]_vars
=============================================================================
