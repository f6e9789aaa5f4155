----------------------------- MODULE SectorStore -----------------------------
(***************************************************************************)
(* What a disk promises its program: a command moves whole sectors, one    *)
(* after the other, between the disk and memory, and counts a sector when  *)
(* it is there.  One sector at a time is on its way to the disk, and what  *)
(* a command leaves there when it ends early arrives before any other      *)
(* sector moves, or never.  No registers, no buffers, no handshakes.       *)
(***************************************************************************)
EXTENDS Integers

CONSTANTS
    LastBlock,    \* the blocks of the disk are 0..LastBlock
    LastCommand   \* the commands are numbered 1..LastCommand

VARIABLES
    disk,     \* the sector in every block: the block it was written for,
              \* and the command that wrote it
    mem,      \* the sector in every buffer of the program
    cmd,      \* the command: in progress, its function, its next block
    flight    \* the sector on its way to the disk

vars == <<disk, mem, cmd, flight>>

Blocks == 0..LastBlock
None   == [blk |-> -1, gen |-> 0]

Init ==
    /\ disk = [b \in Blocks |-> [blk |-> b, gen |-> 0]]
    /\ mem = [b \in Blocks |-> None]
    /\ cmd = [on |-> FALSE, fnc |-> "read", blk |-> 0, gen |-> 0]
    /\ flight = None

(* The program starts a command, while there is none.                      *)
Issue ==
    /\ ~cmd.on
    /\ cmd.gen < LastCommand
    /\ \E f \in {"read", "write", "check"}, b \in Blocks :
          cmd' = [on |-> TRUE, fnc |-> f, blk |-> b, gen |-> cmd.gen + 1]
    /\ UNCHANGED <<disk, mem, flight>>

(* A write sends its sector off, after the one before it has arrived.      *)
Send ==
    /\ cmd.on /\ cmd.fnc = "write"
    /\ cmd.blk \in Blocks
    /\ flight = None
    /\ flight' = [blk |-> cmd.blk, gen |-> cmd.gen]
    /\ UNCHANGED <<disk, mem, cmd>>

(* The sector gets to the disk, and is no longer on its way.               *)
Land ==
    /\ flight # None
    /\ disk' = [disk EXCEPT ![flight.blk] = flight]
    /\ UNCHANGED <<mem, cmd, flight>>
Settle ==
    /\ flight # None
    /\ disk[flight.blk] = flight
    /\ flight' = None
    /\ UNCHANGED <<disk, mem, cmd>>

(* A read gets a sector from the disk, none being on its way there.        *)
Fetch ==
    /\ cmd.on /\ cmd.fnc = "read"
    /\ cmd.blk \in Blocks
    /\ flight = None
    /\ mem' = [mem EXCEPT ![cmd.blk] = disk[cmd.blk]]
    /\ UNCHANGED <<disk, cmd, flight>>

(* A sector is counted when it is there; the last one ends the command.    *)
Count ==
    /\ cmd.on
    /\ cmd.blk \in Blocks
    /\ flight = None
    /\ cmd.fnc = "write" => disk[cmd.blk] = [blk |-> cmd.blk, gen |-> cmd.gen]
    /\ cmd.fnc = "read"  => mem[cmd.blk] = disk[cmd.blk]
    /\ \E on \in BOOLEAN : cmd' = [cmd EXCEPT !.on = on, !.blk = @ + 1]
    /\ UNCHANGED <<disk, mem, flight>>

(* The command ends early, by an error, a clear or INIT.  Its sector, if   *)
(* one is on its way, goes on or is lost.                                  *)
End ==
    /\ \E f \in {cmd.fnc, "read"}, b \in {cmd.blk, 0} :
          cmd' = [cmd EXCEPT !.on = FALSE, !.fnc = f, !.blk = b]
    /\ flight' \in {flight, None}
    /\ UNCHANGED <<disk, mem>>

Next == Issue \/ Send \/ Land \/ Settle \/ Fetch \/ Count \/ End

Spec == Init /\ [][Next]_vars
=============================================================================
