------------------------------- MODULE BlkDev -------------------------------
(***************************************************************************)
(* The block device of a disk or tape controller, rtl/mister_blkdev.vhd:   *)
(* the state machine hps_state on clk_sys, which turns the controller's    *)
(* start/done/ack handshakes into requests on one hps_io slot; the flops   *)
(* that bring its answers back to the controller's clock; the two sector   *)
(* buffers; and the program that serves the slot, Main, which is not part  *)
(* of the repository and is taken from its testbench sim/tb_rh11_reboot.   *)
(*                                                                         *)
(* Half a cycle of the controller is at least six edges of clk_sys, so the *)
(* lines of the controller are settled, and hps_state has reacted to them, *)
(* before its next edge (Settled below).                                   *)
(***************************************************************************)
EXTENDS Integers

CONSTANTS
    LastBlock,    \* the blocks of the image are 0..LastBlock
    LastCommand   \* the data written is stamped with the command, 0..LastCommand

ASSUME LastBlockAssumption   == LastBlock \in Nat
ASSUME LastCommandAssumption == LastCommand \in Nat

Blocks == 0..LastBlock

(* A sector's words: what command gen wrote for block blk; gen 0 is what   *)
(* the image held at first.                                                *)
Sectors == [blk : Blocks, gen : 0..LastCommand]

(* No data: zeros, or a buffer that was never filled.                      *)
Empty == [blk |-> -1, gen |-> 0]

VARIABLES
    hps,       \* hps_state, rd_r, wr_r, lba_r, idle, read_done, write_done
    pipe,      \* idle, read_done, write_done on their way to the controller
    rsector,   \* filled by Main, read by the controller
    wsector,   \* filled by the controller, read by Main
    main,      \* what Main is doing with the slot
    disk       \* the mounted image

blkVars == <<hps, pipe, rsector, wsector, main, disk>>

HpsStates == {"drain", "quiesce", "idle", "read_req", "read_xfer", "write_req", "write_xfer"}
Answers   == [idle : BOOLEAN, read_done : BOOLEAN, write_done : BOOLEAN]
NoAnswer  == [idle |-> FALSE, read_done |-> FALSE, write_done |-> FALSE]

BlkTypeOK ==
    /\ hps \in [state : HpsStates, rd : BOOLEAN, wr : BOOLEAN, lba : Blocks,
                idle : BOOLEAN, read_done : BOOLEAN, write_done : BOOLEAN]
    /\ pipe \in [{"m", "s", "q"} -> Answers]
    /\ rsector \in Sectors \cup {Empty}
    /\ wsector \in Sectors \cup {Empty}
    /\ main \in [phase : {"idle", "latched", "acked"}, lba : Blocks,
                 wr : BOOLEAN, moved : BOOLEAN]
    /\ disk \in [Blocks -> Sectors \cup {Empty}]

BlkInit ==
    /\ hps = [state |-> "quiesce", rd |-> FALSE, wr |-> FALSE, lba |-> 0,
              idle |-> FALSE, read_done |-> FALSE, write_done |-> FALSE]
    /\ pipe = [i \in {"m", "s", "q"} |-> NoAnswer]
    /\ rsector = Empty
    /\ wsector = Empty
    /\ main = [phase |-> "idle", lba |-> 0, wr |-> FALSE, moved |-> FALSE]
    /\ disk = [b \in Blocks |-> [blk |-> b, gen |-> 0]]

-----------------------------------------------------------------------------
(* One edge of clk_sys.  The controller's lines: read_start, read_ack,     *)
(* write_start, write_ack, reset and the block addr.                       *)

sd_ack == main.phase = "acked"

(* Main may have taken the request already: it is held until acked, and    *)
(* the transfer that follows is discarded.                                 *)
Drain ==
    IF sd_ack
    THEN [hps EXCEPT !.rd = FALSE, !.wr = FALSE, !.state = "quiesce"]
    ELSE [hps EXCEPT !.state = "drain"]

(* Mutant of HpsReset: the request is withdrawn at once.                   *)
HpsResetWithdraws ==
    [hps EXCEPT !.state = "quiesce", !.rd = FALSE, !.wr = FALSE,
                !.idle = FALSE, !.read_done = FALSE, !.write_done = FALSE]

HpsReset ==
    [IF hps.state \in {"read_req", "write_req", "drain"} THEN Drain
     ELSE [hps EXCEPT !.state = "quiesce", !.rd = FALSE, !.wr = FALSE]
     EXCEPT !.idle = FALSE, !.read_done = FALSE, !.write_done = FALSE]

(* Mutant of HpsIdle: an answer is withdrawn without waiting for its       *)
(* acknowledgement.                                                        *)
HpsIdleForgets(l) ==
    IF ~l.read_ack /\ ~l.write_ack /\ (l.read_start \/ l.write_start)
    THEN [hps EXCEPT !.idle = FALSE, !.lba = l.addr,
                     !.read_done = FALSE, !.write_done = FALSE,
                     !.rd = l.read_start, !.wr = ~l.read_start,
                     !.state = IF l.read_start THEN "read_req" ELSE "write_req"]
    ELSE [hps EXCEPT !.idle = TRUE, !.read_done = FALSE, !.write_done = FALSE]

(* A new request is taken once the last answer was acknowledged and both   *)
(* acks are down again.                                                    *)
HpsIdle(l) ==
    IF /\ ~hps.read_done /\ ~hps.write_done
       /\ ~l.read_ack /\ ~l.write_ack
       /\ l.read_start \/ l.write_start
    THEN [hps EXCEPT !.idle = FALSE, !.lba = l.addr,
                     !.rd = l.read_start, !.wr = ~l.read_start,
                     !.state = IF l.read_start THEN "read_req" ELSE "write_req"]
    ELSE [hps EXCEPT !.idle = TRUE,
                     !.read_done = @ /\ ~l.read_ack,
                     !.write_done = @ /\ ~l.write_ack]

(* Mutant of HpsBusy: a read is done as soon as Main answers.              *)
HpsBusyEarly ==
    CASE hps.state = "read_req" /\ sd_ack   -> [hps EXCEPT !.rd = FALSE, !.read_done = TRUE, !.state = "idle"]
      [] hps.state = "write_req" /\ sd_ack  -> [hps EXCEPT !.wr = FALSE, !.state = "write_xfer"]
      [] hps.state = "write_xfer" /\ ~sd_ack -> [hps EXCEPT !.write_done = TRUE, !.state = "idle"]
      [] OTHER -> hps

(* A request is up until Main acknowledges it; the transfer lasts as long  *)
(* as sd_ack.                                                              *)
HpsBusy ==
    CASE hps.state = "read_req" /\ sd_ack    -> [hps EXCEPT !.rd = FALSE, !.state = "read_xfer"]
      [] hps.state = "read_xfer" /\ ~sd_ack  -> [hps EXCEPT !.read_done = TRUE, !.state = "idle"]
      [] hps.state = "write_req" /\ sd_ack   -> [hps EXCEPT !.wr = FALSE, !.state = "write_xfer"]
      [] hps.state = "write_xfer" /\ ~sd_ack -> [hps EXCEPT !.write_done = TRUE, !.state = "idle"]
      [] OTHER -> hps

HpsStep(l) ==
    IF l.reset THEN HpsReset
    ELSE CASE hps.state = "drain"   -> Drain
           [] hps.state = "quiesce" -> [hps EXCEPT !.state = IF sd_ack THEN "quiesce" ELSE "idle"]
           [] hps.state = "idle"    -> HpsIdle(l)
           [] OTHER                 -> HpsBusy

Settled(l) == HpsStep(l) = hps

HpsEdge(l) ==
    /\ ~Settled(l)
    /\ hps' = HpsStep(l)
    /\ UNCHANGED <<pipe, rsector, wsector, main, disk>>

-----------------------------------------------------------------------------
(* The rising edge of the controller's clock moves the answers on.         *)
Synchronise(reset) ==
    pipe' = [m |-> [idle |-> hps.idle, read_done |-> hps.read_done, write_done |-> hps.write_done],
             s |-> pipe["m"],
             q |-> IF reset THEN NoAnswer ELSE pipe["s"]]

sdcard_idle       == pipe["q"].idle
sdcard_read_done  == pipe["q"].read_done
sdcard_write_done == pipe["q"].write_done

-----------------------------------------------------------------------------
(* Main polls the slot now and then, latches a request, serves it later    *)
(* whatever sd_rd and sd_wr do, and moves the words while sd_ack is up.    *)

MainPoll(l) ==
    /\ main.phase = "idle"
    /\ hps.rd \/ hps.wr
    /\ Settled(l)
    /\ main' = [phase |-> "latched", lba |-> hps.lba, wr |-> hps.wr, moved |-> FALSE]
    /\ UNCHANGED <<hps, pipe, rsector, wsector, disk>>

MainAck(l) ==
    /\ main.phase = "latched"
    /\ Settled(l)
    /\ main' = [main EXCEPT !.phase = "acked"]
    /\ UNCHANGED <<hps, pipe, rsector, wsector, disk>>

(* The words are moved one after the other, so what a buffer holds at any  *)
(* moment of the transfer may be what arrives.                             *)
MainMove(l) ==
    /\ sd_ack
    /\ Settled(l)
    /\ main' = [main EXCEPT !.moved = TRUE]
    /\ disk' = IF main.wr THEN [disk EXCEPT ![main.lba] = wsector] ELSE disk
    /\ rsector' = IF ~main.wr /\ hps.state = "read_xfer" THEN disk[main.lba] ELSE rsector
    /\ UNCHANGED <<hps, pipe, wsector>>

MainEnd(l) ==
    /\ sd_ack
    /\ main.moved
    /\ Settled(l)
    /\ main' = [main EXCEPT !.phase = "idle", !.lba = 0, !.wr = FALSE, !.moved = FALSE]
    /\ UNCHANGED <<hps, pipe, rsector, wsector, disk>>

MainNext(l) == MainPoll(l) \/ MainAck(l) \/ MainMove(l) \/ MainEnd(l)

=============================================================================
