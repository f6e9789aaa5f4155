----------------------------- MODULE RhTransfer -----------------------------
(***************************************************************************)
(* The block transfers of the RH11, rtl/rh11.vhd, over its block device:   *)
(* the registers and the command interpreter, clocked on nclk; the engine  *)
(* busmaster_state, clocked on clk; and BlkDev.  What is modelled is how   *)
(* the three hand a sector over, and what happens when the program clears  *)
(* the controller, or INIT the bus, with a sector in flight.               *)
(***************************************************************************)
EXTENDS BlkDev

CONSTANTS
    MaxSectors,   \* the most sectors of one command
    Unruly        \* what an undisciplined program does: see Ruly

ASSUME MaxSectorsAssumption == MaxSectors \in Nat
ASSUME UnrulyAssumption     == Unruly \subseteq {"clear_start", "select"}

VARIABLES
    ctl,     \* the registers
    eng,     \* the engine
    npg,     \* the bus is granted to the engine
    reset,   \* INIT
    fetch,   \* the program's last cycle was just now: the next is a fetch
    mem,     \* the program's buffers: the sector held at each bus address
    edge     \* the clock edge that comes next

vars == <<blkVars, ctl, eng, npg, reset, fetch, mem, edge>>

(* The program keeps the buffer of block b at the bus address b, so one    *)
(* register, blk, stands for rmdc, rmda_ta and rmda_sa and for rmbae and   *)
(* rmba; LastBlock + 1 is past the end of the disk.  left stands for wcp,  *)
(* lat for sd_addr_lat, err for the errors of sc_but_pge and ned for a     *)
(* unit other than 0; pack is what a new command finds in the drive: a     *)
(* medium, none (rh_online), or one whose volume is not valid (rmds_vv).   *)
Registers ==
    [go : BOOLEAN, fnc : {"read", "write", "check"}, rdy : BOOLEAN,
     rdyset : BOOLEAN, err : BOOLEAN, ned : BOOLEAN, clr : BOOLEAN,
     read_start : BOOLEAN, write_start : BOOLEAN, orphan : BOOLEAN,
     pack : {"valid", "offline", "invalid"},
     blk : 0..(LastBlock + 1), left : 0..MaxSectors,
     gen : 0..LastCommand, lat : Blocks]

EngineStates == {"idle", "read", "read_done", "write", "write_wait", "write_done"}

(* Type correctness; a register holds a block of the image or the first    *)
(* one past it (v_iae), and sd_addr_lat always one of the image.           *)
TypeOK ==
    /\ BlkTypeOK
    /\ ctl \in Registers
    /\ eng \in [state : EngineStates, npr : BOOLEAN, read_ack : BOOLEAN,
                write_ack : BOOLEAN, write_start : BOOLEAN, nxm : BOOLEAN,
                bar : 0..(LastBlock + 1)]
    /\ npg \in BOOLEAN
    /\ reset \in BOOLEAN
    /\ fetch \in BOOLEAN
    /\ mem \in [Blocks -> Sectors \cup {Empty}]
    /\ edge \in {"clk", "nclk"}

EngineReset ==
    [state |-> "idle", npr |-> FALSE, read_ack |-> FALSE, write_ack |-> FALSE,
     write_start |-> FALSE, nxm |-> FALSE, bar |-> 0]

Init ==
    /\ BlkInit
    /\ ctl = [go |-> FALSE, fnc |-> "read", rdy |-> TRUE, rdyset |-> FALSE,
              err |-> FALSE, ned |-> FALSE, clr |-> TRUE,
              read_start |-> FALSE, write_start |-> FALSE, orphan |-> FALSE,
              pack |-> "valid", blk |-> 0, left |-> 0, gen |-> 0, lat |-> 0]
    /\ eng = EngineReset
    /\ npg = FALSE
    /\ reset = TRUE
    /\ fetch = TRUE
    /\ mem = [b \in Blocks |-> Empty]
    /\ edge = "clk"

(* What the block device sees of the controller.                           *)
Lines ==
    [read_start |-> ctl.read_start, read_ack |-> eng.read_ack,
     write_start |-> eng.write_start, write_ack |-> eng.write_ack,
     reset |-> reset, addr |-> ctl.lat]

-----------------------------------------------------------------------------
(* The edge of nclk.  Every part of the process reads the registers as     *)
(* they were, and the last assignment to one stands: each operator below   *)
(* changes c, the registers as the parts before it leave them.             *)

(* The program's cycle, when it has the bus: it writes CS1 with GO, having *)
(* loaded the address and count registers, CS2 with CLR, or CS2 with a     *)
(* unit number, or nothing; between two of them it fetches an instruction. *)
(* Where a command would go that is dropped for want of a medium or of a   *)
(* valid volume does not matter.                                           *)
Accesses ==
    [op : {"go"}, fnc : {"read", "write", "check"}, blk : Blocks, left : 1..MaxSectors,
     pack : {"valid"}]
    \cup [op : {"go"}, fnc : {"read", "write"}, blk : {0}, left : 1..MaxSectors,
          pack : {"offline", "invalid"}]
    \cup [op : {"clear", "none"}] \cup [op : {"select"}, ned : BOOLEAN]

(* A transfer is refused while the controller is busy or, after an error,  *)
(* until the controller is cleared; a refused one changes nothing here.    *)
Accepts == ctl.rdy /\ ~ctl.go /\ ~ctl.err /\ ~ctl.ned /\ ctl.gen < LastCommand

Access(a, c) ==
    CASE a.op = "go" /\ Accepts ->
            [c EXCEPT !.go = TRUE, !.fnc = a.fnc, !.blk = a.blk, !.left = a.left,
                      !.gen = @ + 1, !.rdyset = FALSE, !.pack = a.pack]
      [] a.op = "clear"  -> [c EXCEPT !.clr = TRUE]
      [] a.op = "select" -> [c EXCEPT !.ned = a.ned]
      [] OTHER           -> c

Ready(c) == IF ctl.rdyset THEN [c EXCEPT !.rdy = TRUE, !.rdyset = FALSE] ELSE c

ReadTaken  == ctl.read_start /\ eng.read_ack /\ ~sdcard_read_done
WriteTaken == ctl.write_start /\ eng.write_ack /\ ~sdcard_write_done

(* Mutant of Orphan: the handshake of an abandoned write is not finished.  *)
OrphanReadsOnly(c) ==
    IF ~ctl.orphan THEN c
    ELSE [c EXCEPT !.read_start = @ /\ ~ReadTaken,
                   !.orphan = (ctl.read_start /\ ~ReadTaken) \/ ctl.write_start]

(* The handshake of a block abandoned by a clear is finished here.         *)
Orphan(c) ==
    IF ~ctl.orphan THEN c
    ELSE [c EXCEPT !.read_start = @ /\ ~ReadTaken,
                   !.write_start = @ /\ (ctl.read_start \/ ~WriteTaken),
                   !.orphan = \/ ctl.read_start /\ ~ReadTaken
                              \/ ~ctl.read_start /\ ctl.write_start /\ ~WriteTaken]

Finish(c) == [c EXCEPT !.go = FALSE, !.rdyset = TRUE]

(* Mutant of Start: the range of the sector counter is not checked.        *)
StartUnchecked(c) ==
    [c EXCEPT !.lat = ctl.blk,
              !.read_start = @ \/ ctl.fnc # "write",
              !.write_start = @ \/ ctl.fnc = "write"]

(* The next block, unless it is past the end of the disk.                  *)
Start(c) ==
    IF ctl.blk \notin Blocks THEN [Finish(c) EXCEPT !.err = TRUE]
    ELSE [c EXCEPT !.lat = ctl.blk,
                   !.read_start = @ \/ ctl.fnc # "write",
                   !.write_start = @ \/ ctl.fnc = "write"]

(* A block was handed over: on to the next one, or the command is done.    *)
Advance(c) ==
    IF eng.nxm THEN [Finish(c) EXCEPT !.err = TRUE]
    ELSE LET d == [c EXCEPT !.blk = ctl.blk + 1]
         IN  IF ctl.left > 1 THEN [d EXCEPT !.left = ctl.left - 1]
             ELSE [Finish(d) EXCEPT !.left = 0]

Transfer(c) ==
    CASE ctl.orphan -> c
      [] ~ctl.orphan /\ ctl.fnc = "write" ->
            IF sdcard_idle /\ ~ctl.write_start THEN Start(c)
            ELSE IF WriteTaken THEN Advance([c EXCEPT !.write_start = FALSE])
            ELSE c
      [] ~ctl.orphan /\ ctl.fnc # "write" ->
            IF sdcard_idle /\ ~ctl.read_start /\ ~sdcard_read_done THEN Start(c)
            ELSE IF ReadTaken THEN Advance([c EXCEPT !.read_start = FALSE])
            ELSE c

(* A command to a drive without a medium, or to another unit, is dropped;  *)
(* so is one to an invalid volume, which is an error.                      *)
Command(c) ==
    CASE ~ctl.go -> c
      [] ctl.go /\ ctl.pack # "valid" ->
            [c EXCEPT !.go = FALSE, !.err = @ \/ ctl.pack = "invalid", !.pack = "valid"]
      [] ctl.go /\ ctl.pack = "valid" /\ ctl.ned -> [c EXCEPT !.go = FALSE]
      [] OTHER -> Transfer([c EXCEPT !.rdy = FALSE])

(* Mutant of Clear: a block in flight is not marked as abandoned.          *)
ClearForgets(c) ==
    IF ~ctl.clr THEN c
    ELSE [c EXCEPT !.clr = FALSE, !.rdy = TRUE, !.go = FALSE, !.fnc = "read",
                   !.err = FALSE, !.ned = FALSE, !.blk = 0, !.left = 0]

(* The clear asked for at an earlier edge.                                 *)
Clear(c) ==
    IF ~ctl.clr THEN c
    ELSE [c EXCEPT !.orphan = @ \/ ctl.write_start \/ ctl.read_start,
                   !.clr = FALSE, !.rdy = TRUE, !.go = FALSE, !.fnc = "read",
                   !.err = FALSE, !.ned = FALSE, !.blk = 0, !.left = 0]

RegisterReset ==
    [ctl EXCEPT !.clr = TRUE, !.rdyset = FALSE, !.read_start = FALSE,
                !.write_start = FALSE, !.orphan = FALSE, !.rdy = TRUE]

(* The registers c set the start of a block at the next edge of nclk.      *)
StartsNext(c) ==
    /\ c.go /\ c.pack = "valid" /\ ~c.ned /\ ~c.orphan
    /\ pipe["s"].idle
    /\ IF c.fnc = "write" THEN ~c.write_start ELSE ~c.read_start /\ ~pipe["s"].read_done

(* A disciplined program selects no other unit, and its clear does not     *)
(* meet the start of a block, one edge later.                              *)
Ruly(a, c) ==
    /\ a.op = "select" => "select" \in Unruly
    /\ a.op = "clear"  => "clear_start" \in Unruly \/ ~StartsNext(c)

NclkEdge ==
    /\ edge = "nclk"
    /\ Settled(Lines)
    /\ IF reset THEN ctl' = RegisterReset /\ fetch' = TRUE
       ELSE \E a \in Accesses :
               /\ npg \/ fetch => a.op = "none"
               /\ fetch' = (a.op # "none")
               /\ a.op = "go" => Accepts
               /\ ctl' = Clear(Command(Orphan(Ready(Access(a, ctl)))))
               /\ Ruly(a, ctl')
    /\ edge' = "clk"
    /\ UNCHANGED <<blkVars, eng, npg, reset, mem>>

-----------------------------------------------------------------------------
(* The edge of clk: the engine.                                            *)

(* Mutant of EngineIdle: the engine of before xfer_orphan.                 *)
EngineIdleNoOrphan ==
    /\ eng.state = "idle"
    /\ LET asks == ctl.write_start \/ sdcard_read_done
       IN  eng' = [eng EXCEPT !.nxm = FALSE, !.npr = @ \/ asks,
                              !.bar = IF asks /\ npg THEN ctl.blk ELSE @,
                              !.state = IF asks /\ npg
                                        THEN IF ctl.write_start THEN "write" ELSE "read"
                                        ELSE "idle"]
    /\ UNCHANGED <<wsector, mem>>

(* A block of a command waits for the bus; an abandoned one goes straight  *)
(* to its handshake (with npr left as it is).                              *)
EngineIdle ==
    /\ eng.state = "idle"
    /\ LET asks == ctl.write_start \/ sdcard_read_done
       IN  eng' = [eng EXCEPT
                      !.nxm = FALSE,
                      !.npr = @ \/ (asks /\ ~ctl.orphan),
                      !.bar = IF asks /\ ~ctl.orphan /\ npg THEN ctl.blk ELSE @,
                      !.state =
                         CASE ~asks \/ ~(ctl.orphan \/ npg) -> "idle"
                           [] asks /\ ctl.orphan -> IF ctl.write_start THEN "write_done" ELSE "read_done"
                           [] OTHER              -> IF ctl.write_start THEN "write" ELSE "read"]
    /\ UNCHANGED <<wsector, mem>>

(* The words of rsector go to memory, unless the command is a write check, *)
(* or memory ends before they do.                                          *)
EngineRead ==
    /\ eng.state = "read"
    /\ \E nxm \in BOOLEAN :
          /\ eng' = [eng EXCEPT !.state = "read_done", !.nxm = nxm]
          /\ mem' = IF nxm \/ ctl.fnc = "check" \/ ctl.left = 0 \/ eng.bar \notin Blocks THEN mem
                    ELSE [mem EXCEPT ![eng.bar] = rsector]
    /\ UNCHANGED wsector

EngineReadDone ==
    /\ eng.state = "read_done"
    /\ eng' = IF eng.read_ack /\ ~sdcard_read_done
              THEN [eng EXCEPT !.npr = FALSE, !.read_ack = FALSE, !.state = "idle"]
              ELSE [eng EXCEPT !.npr = FALSE, !.read_ack = TRUE]
    /\ UNCHANGED <<wsector, mem>>

(* The words of memory go to wsector, zeros after the last of them.        *)
EngineWrite ==
    /\ eng.state = "write"
    /\ eng' = [eng EXCEPT !.state = "write_wait", !.npr = FALSE]
    /\ wsector' = IF ctl.left = 0 THEN Empty ELSE [blk |-> eng.bar, gen |-> ctl.gen]
    /\ UNCHANGED mem

EngineWriteWait ==
    /\ eng.state = "write_wait"
    /\ eng' = IF sdcard_write_done
              THEN [eng EXCEPT !.state = "write_done", !.write_start = FALSE]
              ELSE [eng EXCEPT !.write_start = TRUE]
    /\ UNCHANGED <<wsector, mem>>

EngineWriteDone ==
    /\ eng.state = "write_done"
    /\ eng' = IF eng.write_ack /\ ~sdcard_write_done
              THEN [eng EXCEPT !.write_ack = FALSE, !.state = "idle"]
              ELSE [eng EXCEPT !.write_ack = TRUE]
    /\ UNCHANGED <<wsector, mem>>

EngineStep ==
    \/ EngineIdle
    \/ EngineRead \/ EngineReadDone
    \/ EngineWrite \/ EngineWriteWait \/ EngineWriteDone

ClkEdge ==
    /\ edge = "clk"
    /\ Settled(Lines)
    /\ IF reset THEN eng' = EngineReset /\ UNCHANGED <<wsector, mem>>
       ELSE EngineStep
    /\ Synchronise(reset)
    /\ npg' = (npg /\ eng'.npr)
    /\ edge' = "nclk"
    /\ UNCHANGED <<hps, rsector, main, disk, ctl, reset, fetch>>

-----------------------------------------------------------------------------
(* The bus: the grant, which the processor gives on clk, so that the       *)
(* program's last cycle is over (see NprArbiter for the arbiter itself),   *)
(* and INIT, which outlasts everything on its way through the flops.       *)

Grant ==
    /\ edge = "nclk"
    /\ eng.npr /\ ~npg
    /\ npg' = TRUE
    /\ UNCHANGED <<blkVars, ctl, eng, reset, fetch, mem, edge>>

BusInit ==
    /\ ~reset
    /\ edge = "nclk"
    /\ reset' = TRUE
    /\ UNCHANGED <<blkVars, ctl, eng, npg, fetch, mem, edge>>

BusInitEnd ==
    /\ reset
    /\ edge = "nclk"
    /\ Settled(Lines)
    /\ ctl = RegisterReset
    /\ eng = EngineReset
    /\ \A i \in {"m", "s", "q"} : pipe[i] = NoAnswer
    /\ reset' = FALSE
    /\ UNCHANGED <<blkVars, ctl, eng, npg, fetch, mem, edge>>

HpsSide ==
    /\ HpsEdge(Lines) \/ MainNext(Lines)
    /\ UNCHANGED <<ctl, eng, npg, reset, fetch, mem, edge>>

Next == NclkEdge \/ ClkEdge \/ Grant \/ BusInit \/ BusInitEnd \/ HpsSide

Spec == Init /\ [][Next]_vars

(* The clocks run, Main serves the slot, and the arbiter, which grants the *)
(* bus at one of the two edges only, at last grants it to the RH11.        *)
FairSpec ==
    /\ Spec
    /\ WF_vars(NclkEdge) /\ WF_vars(ClkEdge) /\ WF_vars(BusInitEnd)
    /\ SF_vars(Grant)
    /\ WF_vars(HpsEdge(Lines) /\ UNCHANGED <<ctl, eng, npg, reset, fetch, mem, edge>>)
    /\ WF_vars(MainPoll(Lines) /\ UNCHANGED <<ctl, eng, npg, reset, fetch, mem, edge>>)
    /\ WF_vars(MainAck(Lines) /\ UNCHANGED <<ctl, eng, npg, reset, fetch, mem, edge>>)
    /\ WF_vars(MainMove(Lines) /\ UNCHANGED <<ctl, eng, npg, reset, fetch, mem, edge>>)
    /\ WF_vars(MainEnd(Lines) /\ UNCHANGED <<ctl, eng, npg, reset, fetch, mem, edge>>)

-----------------------------------------------------------------------------
(* A sector is only ever where it belongs: whatever is cleared, reset or   *)
(* retried on the way, a block of the disk holds data written for that     *)
(* block and a buffer data read from its block.                            *)
DataInPlace ==
    \A b \in Blocks : disk[b].blk = b /\ mem[b].blk \in {b, -1}

(* A sector buffer is touched by one side at a time (mister_blkdev.vhd:17):*)
(* the engine reads rsector when Main no longer fills it, and fills wsector*)
(* when Main holds no request to write, not even one of before an INIT.    *)
BufferExclusive ==
    /\ eng.state = "read"  => hps.state # "read_xfer"
    /\ eng.state = "write" => ~(main.phase # "idle" /\ main.wr)

(* The controller counts a sector of a command only when that sector is    *)
(* there: on the disk as this command wrote it, or in memory as the disk   *)
(* has it.                                                                 *)
Counts == ctl.go /\ ~ctl.clr /\ ctl'.blk = ctl.blk + 1
SectorDone ==
    [][Counts => CASE ctl.fnc = "write" -> disk[ctl.blk] = [blk |-> ctl.blk, gen |-> ctl.gen]
                   [] ctl.fnc = "read"  -> mem[ctl.blk] = disk[ctl.blk]
                   [] OTHER             -> TRUE]_vars

(* Data of an earlier command never replaces data of a later one on the    *)
(* disk: no write left over from before a clear or an INIT comes late.     *)
NeverOlder == [][\A b \in Blocks : disk'[b].gen >= disk[b].gen]_vars

(* The engine moves words only for a command in progress and in its        *)
(* direction, a write check stores nothing, and an abandoned block moves   *)
(* nothing (rh11.vhd:904).                                                 *)
Moving == eng.state \in {"read", "write"} /\ eng'.state # eng.state /\ ~reset
NoStrayDma ==
    [][/\ Moving => /\ ctl.go /\ ~ctl.orphan
                    /\ (eng.state = "write") = (ctl.fnc = "write")
       /\ mem' # mem => ctl.fnc = "read"]_vars

(* A sector is on its way to the disk from when the engine has filled      *)
(* wsector until Main is through with it, or INIT comes before it asked.   *)
InFlight ==
    \/ eng.state = "write_wait" /\ ~hps.write_done /\ ~reset
    \/ hps.wr
    \/ main.phase # "idle" /\ main.wr

cmd    == [on |-> ctl.go /\ ~ctl.clr /\ ~reset, fnc |-> ctl.fnc, blk |-> ctl.blk, gen |-> ctl.gen]
flight == IF InFlight THEN wsector ELSE Empty

Store == INSTANCE SectorStore

(* Registers, engine, bridge and host together do what a disk promises:    *)
(* whatever is cleared, reset or retried, one sector at a time is on its   *)
(* way, it arrives whole and before any other moves, and a sector counted  *)
(* is there.                                                               *)
ImplementsStore == Store!Spec

(* A command ends, and so does an abandoned block: the controller comes    *)
(* back to ready, able to start another.                                   *)
TransferEnds == []<>(ctl.rdy /\ ~ctl.orphan)
=============================================================================
