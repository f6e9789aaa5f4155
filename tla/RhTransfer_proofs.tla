-------------------------- MODULE RhTransfer_proofs --------------------------
(***************************************************************************)
(* Proofs about the block transfers of the RH11: with a disciplined        *)
(* program, for a disk, a command and a history of commands of any length, *)
(* the registers, the engine, the bridge and Main stay in step, whatever   *)
(* is cleared or reset on the way.                                         *)
(***************************************************************************)
EXTENDS RhTransfer, TLAPS

(* The program selects no other unit while a block is in flight, and does  *)
(* not clear the controller at the edge that starts one: see Ruly.         *)
Discipline == Unruly = {}

-----------------------------------------------------------------------------
(* The inductive invariant, from the bridge to the registers.              *)

(* Main holds only what the bridge asks for, or asked for before an INIT,  *)
(* and the bridge asks for nothing else until Main is through with it.     *)
Asked ==
    /\ hps.rd => ~hps.wr /\ hps.state \in {"read_req", "drain"}
    /\ hps.wr => hps.state \in {"write_req", "drain"}
    /\ hps.state \in {"read_req", "write_req", "drain"} => hps.rd \/ hps.wr
    /\ main.phase # "idle" => main.lba = hps.lba
    /\ (hps.rd \/ hps.wr) /\ main.phase # "idle" => main.wr = hps.wr /\ ~main.moved
    /\ ~hps.rd /\ ~hps.wr => main.phase # "latched"
    /\ hps.state = "read_xfer" => ~main.wr
    /\ hps.state = "write_xfer" /\ main.phase # "idle" => main.wr
    /\ hps.state = "idle" => main.phase = "idle"
    /\ hps.idle \/ hps.read_done \/ hps.write_done => hps.state = "idle"

(* Main is through with the sector of a transfer.                          *)
Through == main.phase = "idle" \/ main.moved

(* What a transfer carries is the sector of its block, and it has arrived  *)
(* when Main is through, so also when the bridge says it is done.          *)
Carried ==
    /\ hps.wr \/ hps.state = "write_xfer" \/ (main.phase # "idle" /\ main.wr)
          => wsector.blk = hps.lba
    /\ hps.read_done \/ (hps.state = "read_xfer" /\ Through) => rsector = disk[hps.lba]
    /\ hps.write_done \/ (hps.state = "write_xfer" /\ Through) => disk[hps.lba] = wsector
    /\ main.phase # "idle" /\ main.wr /\ main.moved => disk[hps.lba] = wsector
    /\ \A b \in Blocks : disk[b].gen <= wsector.gen
    /\ wsector.gen <= ctl.gen

(* A block under way that is not abandoned is the command's current one.   *)
Current ==
    /\ ~ctl.ned
    /\ ctl.go => ctl.left > 0
    /\ ~(ctl.read_start /\ ctl.write_start)
    /\ (ctl.read_start \/ ctl.write_start) /\ ~ctl.orphan =>
          /\ ctl.go /\ ctl.pack = "valid"
          /\ ctl.blk = ctl.lat /\ ctl.write_start = (ctl.fnc = "write")

(* The program fetches after a clear.  Its clear does not meet the start   *)
(* of a block, and, as it gets no cycle while the engine has the bus, no   *)
(* words on the move either.                                               *)
StartsAt(i) ==
    /\ ctl.go /\ ctl.pack = "valid" /\ ~ctl.orphan /\ pipe[i].idle
    /\ IF ctl.fnc = "write" THEN ~ctl.write_start ELSE ~ctl.read_start /\ ~pipe[i].read_done
ClearMeets ==
    /\ ctl.clr => fetch
    /\ ctl.clr /\ ~reset =>
          /\ edge = "clk" => ~npg /\ ~StartsAt("s")
          /\ edge = "nclk" => ~StartsAt("q")

(* The lines of the engine go with its states.                             *)
EngineLines ==
    /\ eng.read_ack => eng.state = "read_done"
    /\ eng.write_ack => eng.state = "write_done"
    /\ eng.write_start => eng.state = "write_wait"

(* An answer of the bridge on its way through the flops: all of them, none *)
(* of them, the first of them and the last of them have it.                *)
Up(a, m, s, q)      == a /\ m /\ s /\ q
Down(a, m, s, q)    == ~a /\ ~m /\ ~s /\ ~q
Rising(a, m, s, q)  == (q => s) /\ (s => m) /\ (m => a)
Falling(a, m, s, q) == (a => m) /\ (m => s) /\ (s => q)

(* No block under way: the engine is idle, or about to be, and an idle on  *)
(* its way to the registers is true.                                       *)
NoBlock ==
    ~ctl.read_start /\ ~ctl.write_start =>
       /\ eng.state = "idle" \/ (edge = "clk" /\ (eng.read_ack \/ eng.write_ack))
       /\ pipe["m"].idle \/ pipe["s"].idle \/ pipe["q"].idle => hps.state = "idle"

ReadUp      == Up(hps.read_done, pipe["m"].read_done, pipe["s"].read_done, pipe["q"].read_done)
ReadDown    == Down(hps.read_done, pipe["m"].read_done, pipe["s"].read_done, pipe["q"].read_done)
ReadRising  == Rising(hps.read_done, pipe["m"].read_done, pipe["s"].read_done, pipe["q"].read_done)
ReadFalling == Falling(hps.read_done, pipe["m"].read_done, pipe["s"].read_done, pipe["q"].read_done)

(* A read: the bridge reads, its answer rises, the engine takes the sector *)
(* and acknowledges, the answer falls.                                     *)
Reading ==
    /\ ~ctl.read_start =>
          /\ ReadDown
          /\ hps.state \notin {"read_req", "read_xfer"}
          /\ eng.state # "read"
          /\ eng.state = "read_done" => ~ctl.write_start /\ eng.read_ack /\ edge = "clk"
    /\ ctl.read_start =>
          /\ hps.state \in {"idle", "read_req", "read_xfer"}
          /\ eng.state \in {"idle", "read", "read_done"}
          /\ eng.state # "idle" => hps.state = "idle"
          /\ hps.state # "idle" \/ hps.read_done => hps.lba = ctl.lat
          /\ eng.state = "idle" => ReadRising
          /\ eng.state = "read" => ReadUp
          /\ eng.state = "read_done" /\ ~eng.read_ack => ReadUp
          /\ eng.read_ack => ReadFalling /\ (edge = "clk" => pipe["q"].read_done)

WriteUp      == Up(hps.write_done, pipe["m"].write_done, pipe["s"].write_done, pipe["q"].write_done)
WriteDown    == Down(hps.write_done, pipe["m"].write_done, pipe["s"].write_done, pipe["q"].write_done)
WriteRising  == Rising(hps.write_done, pipe["m"].write_done, pipe["s"].write_done, pipe["q"].write_done)
WriteFalling == Falling(hps.write_done, pipe["m"].write_done, pipe["s"].write_done, pipe["q"].write_done)

(* A write: the engine fills the buffer, the bridge writes it, its answer  *)
(* rises, the engine acknowledges, the answer falls; or, abandoned before  *)
(* it had the bus, the block goes straight to the acknowledgement.         *)
Writing ==
    /\ ~ctl.write_start =>
          /\ WriteDown
          /\ hps.state \notin {"write_req", "write_xfer"}
          /\ eng.state \notin {"write", "write_wait"}
          /\ eng.state = "write_done" => ~ctl.read_start /\ eng.write_ack /\ edge = "clk"
    /\ ctl.write_start =>
          /\ hps.state \in {"idle", "write_req", "write_xfer"}
          /\ eng.state \in {"idle", "write", "write_wait", "write_done"}
          /\ ~eng.write_start => hps.state = "idle"
          /\ hps.state # "idle" \/ hps.write_done => hps.lba = ctl.lat
          /\ eng.state \in {"idle", "write"} => WriteDown
          /\ eng.state = "write_wait" => WriteRising /\ (~eng.write_start => WriteDown)
          /\ eng.state = "write_done" /\ ~eng.write_ack =>
                WriteUp \/ (WriteDown /\ ctl.orphan)
          /\ eng.write_ack => WriteFalling /\ (edge = "clk" => pipe["q"].write_done)

(* The engine moves words only with the bus, for a block not abandoned.    *)
OnBus ==
    eng.state \in {"read", "write"} =>
       npg /\ eng.npr /\ ~ctl.orphan /\ ~ctl.clr /\ eng.bar = ctl.lat

(* Where the sector of the block under way is.                             *)
Sector ==
    /\ ctl.read_start /\ eng.state = "read_done" =>
          ctl.orphan \/ eng.nxm \/ ctl.fnc # "read" \/ mem[ctl.lat] = disk[ctl.lat]
    /\ ctl.write_start /\ eng.state = "write_wait" =>
          wsector.blk = ctl.lat /\ (~ctl.orphan => wsector.gen = ctl.gen)
    /\ ctl.write_start /\ eng.state = "write_done" =>
          ctl.orphan \/ (disk[ctl.lat] = wsector /\ wsector = [blk |-> ctl.lat, gen |-> ctl.gen])

(* INIT stops the engine where it stands: nothing is in its buffers' way.  *)
Stopped ==
    eng.state \in {"read", "write"} => main.phase = "idle" /\ hps.state \in {"idle", "quiesce"}

IInv ==
    /\ TypeOK /\ Asked /\ Carried /\ Current /\ ClearMeets /\ EngineLines
    /\ reset => Stopped
    /\ ~reset => NoBlock /\ Reading /\ Writing /\ OnBus /\ Sector
    /\ DataInPlace

-----------------------------------------------------------------------------
(* The bridge and Main.                                                    *)

(* The registers of the bridge stay of their types, whatever its lines.    *)
LEMMA HpsType ==
    ASSUME BlkTypeOK, NEW l, l.addr \in Blocks, l.read_start \in BOOLEAN
    PROVE  HpsStep(l) \in [state : HpsStates, rd : BOOLEAN, wr : BOOLEAN, lba : Blocks,
                           idle : BOOLEAN, read_done : BOOLEAN, write_done : BOOLEAN]
    <1> DEFINE H == [state : HpsStates, rd : BOOLEAN, wr : BOOLEAN, lba : Blocks,
                     idle : BOOLEAN, read_done : BOOLEAN, write_done : BOOLEAN]
    <1>1. hps \in H
        BY DEF BlkTypeOK
    <1>2. Drain \in H
        BY <1>1 DEF Drain, HpsStates
    <1>3. HpsReset \in H
        <2>1. PICK g : g = IF hps.state \in {"read_req", "write_req", "drain"} THEN Drain
                           ELSE [hps EXCEPT !.state = "quiesce", !.rd = FALSE, !.wr = FALSE]
            OBVIOUS
        <2>2. [hps EXCEPT !.state = "quiesce", !.rd = FALSE, !.wr = FALSE] \in H
            BY <1>1 DEF HpsStates
        <2>3. g \in H
            BY <1>2, <2>1, <2>2
        <2>4. HpsReset = [g EXCEPT !.idle = FALSE, !.read_done = FALSE, !.write_done = FALSE]
            BY <2>1 DEF HpsReset
        <2> QED BY <2>3, <2>4
    <1>4. HpsIdle(l) \in H
        <2>1. CASE /\ ~hps.read_done /\ ~hps.write_done
                   /\ ~l.read_ack /\ ~l.write_ack
                   /\ l.read_start \/ l.write_start
            <3>1. PICK g : g = [hps EXCEPT !.idle = FALSE, !.lba = l.addr]
                OBVIOUS
            <3>2. g \in H
                BY <1>1, <3>1
            <3>3. PICK s \in HpsStates : s = IF l.read_start THEN "read_req" ELSE "write_req"
                BY DEF HpsStates
            <3>4. HpsIdle(l) = [g EXCEPT !.rd = l.read_start, !.wr = ~l.read_start, !.state = s]
                BY <1>1, <2>1, <3>1, <3>3 DEF HpsIdle
            <3> QED BY <3>2, <3>3, <3>4
        <2>2. CASE ~(/\ ~hps.read_done /\ ~hps.write_done
                     /\ ~l.read_ack /\ ~l.write_ack
                     /\ l.read_start \/ l.write_start)
            <3>1. HpsIdle(l) = [hps EXCEPT !.idle = TRUE,
                                           !.read_done = hps.read_done /\ ~l.read_ack,
                                           !.write_done = hps.write_done /\ ~l.write_ack]
                BY <1>1, <2>2 DEF HpsIdle
            <3> QED BY <1>1, <3>1
        <2> QED BY <2>1, <2>2
    <1>5. HpsBusy \in H
        <2>1. /\ [hps EXCEPT !.rd = FALSE, !.state = "read_xfer"] \in H
              /\ [hps EXCEPT !.read_done = TRUE, !.state = "idle"] \in H
            BY <1>1 DEF HpsStates
        <2>2. /\ [hps EXCEPT !.wr = FALSE, !.state = "write_xfer"] \in H
              /\ [hps EXCEPT !.write_done = TRUE, !.state = "idle"] \in H
            BY <1>1 DEF HpsStates
        <2> HIDE DEF H
        <2> QED BY <1>1, <2>1, <2>2 DEF HpsBusy
    <1>6. [hps EXCEPT !.state = IF sd_ack THEN "quiesce" ELSE "idle"] \in H
        BY <1>1 DEF HpsStates
    <1> HIDE DEF H
    <1>7. HpsStep(l) \in H
        BY <1>2, <1>3, <1>4, <1>5, <1>6 DEF HpsStep
    <1> QED BY <1>7 DEF H

(* The answers move on by one flop.                                        *)
LEMMA FlopsType ==
    ASSUME BlkTypeOK, Synchronise(reset)
    PROVE  /\ pipe' \in [{"m", "s", "q"} -> Answers]
           /\ pipe'["m"].idle = hps.idle
           /\ pipe'["m"].read_done = hps.read_done
           /\ pipe'["m"].write_done = hps.write_done
           /\ pipe'["s"] = pipe["m"]
           /\ pipe'["q"] = IF reset THEN NoAnswer ELSE pipe["s"]
<1> DEFINE mm == [idle |-> hps.idle, read_done |-> hps.read_done, write_done |-> hps.write_done]
           qq == IF reset THEN NoAnswer ELSE pipe["s"]
<1>1. mm \in Answers
  BY DEF BlkTypeOK, Answers
<1>2. qq \in Answers
  BY DEF BlkTypeOK, Answers, NoAnswer
<1>3. pipe["m"] \in Answers
  BY DEF BlkTypeOK
<1>4. pipe' = [m |-> mm, s |-> pipe["m"], q |-> qq]
  BY DEF Synchronise
<1> HIDE DEF mm, qq
<1>5. pipe' \in [{"m", "s", "q"} -> Answers]
  BY <1>1, <1>2, <1>3, <1>4
<1>6. pipe'["m"] = mm /\ pipe'["s"] = pipe["m"] /\ pipe'["q"] = qq
  BY <1>4
<1> QED BY <1>5, <1>6 DEF mm, qq

(* The lines of the controller are of their types.                         *)
LEMMA LinesType ==
    ASSUME TypeOK
    PROVE  /\ Lines.addr = ctl.lat /\ Lines.addr \in Blocks
           /\ Lines.read_start = ctl.read_start /\ Lines.read_start \in BOOLEAN
           /\ Lines.read_ack = eng.read_ack /\ Lines.write_ack = eng.write_ack
           /\ Lines.write_start = eng.write_start
           /\ Lines.reset = reset
BY DEF TypeOK, Registers, Lines

LEMMA HpsAsked ==
    ASSUME BlkTypeOK, Asked, NEW l, l.addr \in Blocks, l.read_start \in BOOLEAN,
           l.write_start \in BOOLEAN, HpsEdge(l)
    PROVE  Asked'
<1>1. main' = main
  BY DEF HpsEdge
<1>2. hps' = HpsStep(l)
  BY DEF HpsEdge
<1> QED
  BY <1>1, <1>2, ZenonT(60) DEF BlkTypeOK, Asked, HpsStep, HpsReset, Drain, HpsIdle, HpsBusy, HpsStates, sd_ack

LEMMA MainAsked ==
    ASSUME BlkTypeOK, Asked, NEW l, MainNext(l)
    PROVE  Asked' /\ main' \in [phase : {"idle", "latched", "acked"}, lba : Blocks,
                                wr : BOOLEAN, moved : BOOLEAN]
<1>1. CASE MainPoll(l)
  BY <1>1 DEF MainPoll, BlkTypeOK, Asked, HpsStates
<1>2. CASE MainAck(l)
  BY <1>2 DEF MainAck, BlkTypeOK, Asked, HpsStates
<1>3. CASE MainMove(l)
  BY <1>3 DEF MainMove, sd_ack, Settled, HpsStep, HpsReset, Drain, HpsBusy, BlkTypeOK, Asked, HpsStates
<1>4. CASE MainEnd(l)
  <2> DEFINE M == [phase : {"idle", "latched", "acked"}, lba : Blocks, wr : BOOLEAN, moved : BOOLEAN]
  <2>1. PICK t : t = [main EXCEPT !.phase = "idle", !.lba = 0]
    OBVIOUS
  <2>0. 0 \in Blocks
    BY LastBlockAssumption DEF Blocks
  <2>2. t \in M /\ t.phase = "idle"
    BY <2>0, <2>1 DEF BlkTypeOK
  <2>3. main' = [t EXCEPT !.wr = FALSE, !.moved = FALSE]
    BY <1>4, <2>1 DEF MainEnd, BlkTypeOK
  <2>4. main' \in M /\ main'.phase = "idle" /\ ~main'.wr
    BY <2>2, <2>3
  <2>5. hps' = hps /\ main.phase = "acked" /\ main.moved
    BY <1>4 DEF MainEnd, sd_ack
  <2> QED BY <2>4, <2>5 DEF Asked, BlkTypeOK, HpsStates
<1> QED BY <1>1, <1>2, <1>3, <1>4 DEF MainNext

LEMMA HpsSideType ==
    ASSUME IInv, HpsSide
    PROVE  TypeOK'
<1>1. UNCHANGED <<ctl, eng, npg, reset, fetch, mem, edge>>
  BY DEF HpsSide
<1>2. CASE HpsEdge(Lines)
  <2>1. hps' = HpsStep(Lines) /\ UNCHANGED <<pipe, rsector, wsector, main, disk>>
    BY <1>2 DEF HpsEdge
  <2> QED BY <1>1, <2>1, HpsType, LinesType DEF IInv, TypeOK, BlkTypeOK
<1>3. CASE MainNext(Lines)
  <2>1. UNCHANGED <<hps, pipe, wsector>>
    BY <1>3 DEF MainNext, MainPoll, MainAck, MainMove, MainEnd
  <2>2. rsector' \in Sectors \cup {Empty} /\ disk' \in [Blocks -> Sectors \cup {Empty}]
    BY <1>3 DEF MainNext, MainPoll, MainAck, MainMove, MainEnd, IInv, TypeOK, BlkTypeOK
  <2> QED BY <1>1, <1>3, <2>1, <2>2, MainAsked DEF IInv, TypeOK, BlkTypeOK
<1> QED BY <1>2, <1>3 DEF HpsSide

LEMMA HpsCarried ==
    ASSUME IInv, NEW l, l.addr \in Blocks, l.read_start \in BOOLEAN,
           l.write_start \in BOOLEAN, HpsEdge(l), ctl' = ctl,
           l.write_start /\ ~l.reset /\ hps.state = "idle" /\ ~hps.write_done
              => wsector.blk = l.addr
    PROVE  Carried'
<1>1. UNCHANGED <<pipe, rsector, wsector, main, disk>> /\ hps' = HpsStep(l)
  BY DEF HpsEdge
<1>2. BlkTypeOK /\ Asked /\ Carried
  BY DEF IInv, TypeOK
<1>3. CASE hps.state = "idle"
  BY <1>1, <1>2, <1>3 DEF BlkTypeOK, Asked, Carried, Through, HpsStep, HpsReset, HpsIdle, HpsStates, sd_ack
<1>4. CASE hps.state # "idle"
  BY <1>1, <1>2, <1>4 DEF BlkTypeOK, Asked, Carried, Through, HpsStep, HpsReset, Drain, HpsBusy, HpsStates, sd_ack
<1> QED BY <1>3, <1>4

LEMMA MainCarried ==
    ASSUME IInv, NEW l, MainNext(l), ctl' = ctl
    PROVE  Carried'
<1>1. UNCHANGED <<hps, pipe, wsector>>
  BY DEF MainNext, MainPoll, MainAck, MainMove, MainEnd
<1>2. BlkTypeOK /\ Asked /\ Carried
  BY DEF IInv, TypeOK
<1>3. CASE MainPoll(l) \/ MainAck(l)
  BY <1>1, <1>2, <1>3 DEF MainPoll, MainAck, BlkTypeOK, Asked, Carried, Through, HpsStates
<1>4. CASE MainMove(l)
  <2>1. /\ main.phase = "acked" /\ main'.phase = "acked" /\ main'.wr = main.wr
        /\ main.lba = hps.lba /\ hps.lba \in Blocks
        /\ hps.state # "idle" /\ ~hps.read_done /\ ~hps.write_done
    BY <1>2, <1>4 DEF MainMove, sd_ack, BlkTypeOK, Asked
  <2>2. CASE main.wr
    <3>1. disk' = [disk EXCEPT ![hps.lba] = wsector] /\ rsector' = rsector
      BY <1>4, <2>1, <2>2 DEF MainMove
    <3>2. disk'[hps.lba] = wsector /\ \A b \in Blocks : disk'[b].gen <= wsector.gen
      BY <1>2, <2>1, <3>1 DEF BlkTypeOK, Carried, Sectors, Empty
    <3> QED BY <1>1, <1>2, <2>1, <2>2, <3>2 DEF Asked, Carried, Through
  <2>3. CASE ~main.wr
    <3>1. disk' = disk /\ (hps.state = "read_xfer" => rsector' = disk[hps.lba])
      BY <1>4, <2>1, <2>3 DEF MainMove
    <3> QED BY <1>1, <1>2, <2>1, <2>3, <3>1 DEF Asked, Carried, Through
  <2> QED BY <2>2, <2>3
<1>5. CASE MainEnd(l)
  BY <1>1, <1>2, <1>5 DEF MainEnd, sd_ack, BlkTypeOK, Asked, Carried, Through, HpsStates
<1> QED BY <1>3, <1>4, <1>5 DEF MainNext

(* The bridge keeps in step with the registers and the engine.             *)
LEMMA HpsKeeps ==
    ASSUME IInv, HpsSide
    PROVE  IInv'
<1>1. UNCHANGED <<ctl, eng, npg, reset, fetch, mem, edge, pipe, wsector>>
  BY DEF HpsSide, HpsEdge, MainNext, MainPoll, MainAck, MainMove, MainEnd
<1>2. TypeOK'
  BY HpsSideType
<1>3. Current' /\ ClearMeets' /\ EngineLines'
  BY <1>1 DEF IInv, Current, ClearMeets, StartsAt, EngineLines
<1>4. TypeOK /\ BlkTypeOK /\ Asked /\ Carried /\ Current /\ EngineLines
      /\ (reset => Stopped) /\ (~reset => NoBlock /\ Reading /\ Writing /\ OnBus /\ Sector)
      /\ DataInPlace
  BY DEF IInv, TypeOK
<1>5. /\ Lines.addr = ctl.lat /\ ctl.lat \in Blocks
      /\ Lines.read_start = ctl.read_start /\ ctl.read_start \in BOOLEAN
      /\ Lines.read_ack = eng.read_ack /\ Lines.write_ack = eng.write_ack
      /\ Lines.write_start = eng.write_start /\ eng.write_start \in BOOLEAN
      /\ Lines.reset = reset
  BY LinesType, <1>4 DEF TypeOK
<1>6. CASE HpsEdge(Lines)
  <2>1. hps' = HpsStep(Lines) /\ UNCHANGED <<rsector, main, disk>>
    BY <1>6 DEF HpsEdge
  <2>2. Asked'
    BY <1>4, <1>5, <1>6, HpsAsked
  <2>3. Carried'
    <3>1. eng.write_start /\ ~reset => wsector.blk = ctl.lat
      BY <1>4 DEF EngineLines, Writing, Sector
    <3> QED BY <1>1, <1>5, <1>6, <3>1, HpsCarried
  <2>4. DataInPlace'
    BY <1>1, <1>4, <2>1 DEF DataInPlace
  <2>5. ASSUME reset PROVE Stopped'
    BY <1>1, <1>4, <1>5, <2>1, <2>5
       DEF Stopped, HpsStep, HpsReset, Drain, BlkTypeOK
  <2>6. ASSUME ~reset PROVE NoBlock'
    BY <1>1, <1>4, <1>5, <2>1, <2>6
       DEF NoBlock, EngineLines, Writing, HpsStep, HpsIdle, BlkTypeOK
  <2>7. ASSUME ~reset PROVE Reading'
    BY <1>1, <1>4, <1>5, <2>1, <2>7
       DEF Reading, Writing, ReadUp, ReadDown, ReadRising, ReadFalling, Up, Down, Rising, Falling,
           EngineLines, Current, Asked, HpsStep, HpsIdle, HpsBusy, Drain, sd_ack, BlkTypeOK, HpsStates
  <2>8. ASSUME ~reset PROVE Writing'
    BY <1>1, <1>4, <1>5, <2>1, <2>8
       DEF Reading, Writing, WriteUp, WriteDown, WriteRising, WriteFalling, Up, Down, Rising, Falling,
           EngineLines, Current, Asked, HpsStep, HpsIdle, HpsBusy, Drain, sd_ack, BlkTypeOK, HpsStates
  <2>9. ASSUME ~reset PROVE OnBus' /\ Sector'
    BY <1>1, <1>4, <2>1, <2>9 DEF OnBus, Sector
  <2> QED BY <1>1, <1>2, <1>3, <2>2, <2>3, <2>4, <2>5, <2>6, <2>7, <2>8, <2>9 DEF IInv
<1>7. CASE MainNext(Lines)
  <2>1. hps' = hps
    BY <1>7 DEF MainNext, MainPoll, MainAck, MainMove, MainEnd
  <2>2. Asked' /\ Carried'
    BY <1>1, <1>4, <1>7, MainAsked, MainCarried
  <2>3. disk' = disk \/ (hps.state # "idle" /\ disk' = [disk EXCEPT ![hps.lba] = wsector]
                        /\ wsector.blk = hps.lba /\ hps.lba \in Blocks)
    BY <1>4, <1>7 DEF MainNext, MainPoll, MainAck, MainMove, MainEnd, sd_ack, Asked, Carried, BlkTypeOK
  <2>4. DataInPlace'
    BY <1>1, <1>4, <2>3 DEF DataInPlace, BlkTypeOK
  <2>5. ASSUME reset PROVE Stopped'
    BY <1>1, <1>4, <1>7, <2>1, <2>5
       DEF Stopped, Asked, MainNext, MainPoll, MainAck, MainMove, MainEnd, sd_ack
  <2>6. ASSUME ~reset PROVE NoBlock' /\ Reading' /\ Writing' /\ OnBus'
    BY <1>1, <1>4, <2>1, <2>6
       DEF NoBlock, Reading, Writing, OnBus, ReadUp, ReadDown, ReadRising, ReadFalling,
           WriteUp, WriteDown, WriteRising, WriteFalling
  <2>7. ASSUME ~reset PROVE Sector'
    BY <1>1, <1>4, <2>3, <2>7 DEF Sector, Reading, Writing, EngineLines
  <2> QED BY <1>1, <1>2, <1>3, <2>2, <2>4, <2>5, <2>6, <2>7 DEF IInv
<1> QED BY <1>6, <1>7 DEF HpsSide

-----------------------------------------------------------------------------
(* The edge of clk.                                                        *)

LEMMA ZeroBlock == 0 \in Blocks /\ 0 \in 0..(LastBlock + 1) /\ Blocks \subseteq 0..(LastBlock + 1)
BY LastBlockAssumption DEF Blocks

Engine == [state : EngineStates, npr : BOOLEAN, read_ack : BOOLEAN, write_ack : BOOLEAN,
           write_start : BOOLEAN, nxm : BOOLEAN, bar : 0..(LastBlock + 1)]

(* What the engine writes to its buffer and to memory is a sector.         *)
LEMMA EngineType ==
    ASSUME IInv, ~reset, EngineStep
    PROVE  /\ eng' \in Engine
           /\ wsector' \in Sectors \cup {Empty}
           /\ mem' \in [Blocks -> Sectors \cup {Empty}]
<1>1. /\ eng \in Engine /\ ctl \in Registers
      /\ rsector \in Sectors \cup {Empty} /\ wsector \in Sectors \cup {Empty}
      /\ mem \in [Blocks -> Sectors \cup {Empty}]
  BY DEF IInv, TypeOK, BlkTypeOK, Engine
<1>2. ctl.blk \in 0..(LastBlock + 1) /\ ctl.lat \in Blocks /\ ctl.gen \in 0..LastCommand
  BY <1>1 DEF Registers
<1>3. CASE EngineIdle
  <2>1. PICK t : t = [eng EXCEPT !.nxm = FALSE,
                        !.npr = @ \/ ((ctl.write_start \/ sdcard_read_done) /\ ~ctl.orphan)]
    OBVIOUS
  <2>2. t \in Engine
    BY <1>1, <2>1 DEF Engine
  <2>3. PICK b, st : eng' = [t EXCEPT !.bar = b, !.state = st]
                     /\ b \in 0..(LastBlock + 1) /\ st \in EngineStates
    BY <1>1, <1>2, <1>3, <2>1 DEF EngineIdle, Engine, EngineStates
  <2>4. eng' \in Engine
    BY <2>2, <2>3 DEF Engine
  <2> QED BY <1>1, <1>3, <2>4 DEF EngineIdle
<1>4. CASE EngineRead
  BY <1>1, <1>4, ZenonT(60) DEF EngineRead, Engine, EngineStates
<1>5. CASE EngineReadDone
  BY <1>1, <1>5 DEF EngineReadDone, Engine, EngineStates
<1>6. CASE EngineWrite
  <2>1. eng.bar = ctl.lat
    BY <1>6 DEF IInv, OnBus, EngineWrite
  <2> QED BY <1>1, <1>2, <1>6, <2>1 DEF EngineWrite, Engine, EngineStates, Sectors
<1>7. CASE EngineWriteWait
  BY <1>1, <1>7 DEF EngineWriteWait, Engine, EngineStates
<1>8. CASE EngineWriteDone
  BY <1>1, <1>8 DEF EngineWriteDone, Engine, EngineStates
<1> QED BY <1>3, <1>4, <1>5, <1>6, <1>7, <1>8 DEF EngineStep

LEMMA ClkType ==
    ASSUME IInv, ClkEdge
    PROVE  TypeOK'
<1>1. EngineReset \in Engine
  BY ZeroBlock DEF EngineReset, Engine, EngineStates
<1>2. eng' \in Engine /\ wsector' \in Sectors \cup {Empty} /\ mem' \in [Blocks -> Sectors \cup {Empty}]
  BY <1>1, EngineType DEF ClkEdge, IInv, TypeOK, BlkTypeOK
<1>3. pipe' \in [{"m", "s", "q"} -> Answers]
  BY FlopsType DEF ClkEdge, IInv, TypeOK
<1>4. npg' \in BOOLEAN
  BY DEF ClkEdge
<1> QED BY <1>2, <1>3, <1>4 DEF ClkEdge, IInv, TypeOK, BlkTypeOK, Engine

(* What the edge of clk leaves alone, and the answers a flop further on.   *)
LEMMA ClkFlops ==
    ASSUME IInv, ClkEdge
    PROVE  /\ UNCHANGED <<hps, rsector, main, disk, ctl, reset, fetch>>
           /\ edge = "clk" /\ edge' = "nclk"
           /\ npg' = (npg /\ eng'.npr)
           /\ pipe'["m"].idle = hps.idle
           /\ pipe'["m"].read_done = hps.read_done
           /\ pipe'["m"].write_done = hps.write_done
           /\ pipe'["s"] = pipe["m"]
           /\ ~reset => pipe'["q"] = pipe["s"]
BY FlopsType DEF ClkEdge, IInv, TypeOK

LEMMA ClkReset ==
    ASSUME IInv, ClkEdge, reset
    PROVE  IInv'
<1>1. TypeOK'
  BY ClkType
<1>2. /\ UNCHANGED <<hps, rsector, wsector, main, disk, ctl, reset, fetch, mem>>
      /\ eng' = EngineReset
  BY DEF ClkEdge
<1> QED
  BY <1>1, <1>2 DEF IInv, Asked, Carried, Through, Current, ClearMeets, EngineLines, EngineReset,
                    Stopped, DataInPlace

LEMMA EngineCarried ==
    ASSUME IInv, ClkEdge, ~reset
    PROVE  Carried' /\ DataInPlace' /\ EngineLines'
<1>1. EngineStep /\ UNCHANGED <<hps, rsector, main, disk, ctl, reset>>
  BY DEF ClkEdge
<1>2. /\ TypeOK /\ BlkTypeOK /\ Asked /\ Carried /\ Current /\ EngineLines
      /\ Reading /\ Writing /\ OnBus /\ Sector /\ DataInPlace
  BY DEF IInv, TypeOK
<1>3. CASE EngineWrite
  <2>1. ctl.write_start /\ hps.state = "idle" /\ ~hps.write_done /\ ~hps.wr /\ main.phase = "idle"
    BY <1>2, <1>3 DEF EngineWrite, Writing, EngineLines, WriteDown, Down, Asked
  <2>2. ctl.left > 0 /\ eng.bar = ctl.lat
    BY <1>2, <1>3, <2>1 DEF EngineWrite, OnBus, Current
  <2>3. wsector' = [blk |-> ctl.lat, gen |-> ctl.gen] /\ mem' = mem
    BY <1>3, <2>2 DEF EngineWrite
  <2>4. wsector.gen <= wsector'.gen
    BY <1>2, <2>3 DEF Carried
  <2>5. \A b \in Blocks : disk[b].gen <= wsector'.gen
    BY <1>2, <2>3, <2>4 DEF Carried, BlkTypeOK, TypeOK, Sectors, Empty, Registers
  <2>6. wsector'.gen <= ctl'.gen
    BY <1>1, <1>2, <2>3 DEF TypeOK, Registers
  <2>7. EngineLines'
    BY <1>2, <1>3 DEF EngineWrite, EngineLines, TypeOK
  <2> QED BY <1>1, <1>2, <2>1, <2>3, <2>5, <2>6, <2>7 DEF Carried, Through, DataInPlace
<1>4. CASE ~EngineWrite
  <2>1. wsector' = wsector
    BY <1>1, <1>4 DEF EngineStep, EngineIdle, EngineRead, EngineReadDone, EngineWriteWait, EngineWriteDone
  <2>2. EngineLines'
    BY <1>1, <1>2, <1>4, ZenonT(60) DEF EngineStep, EngineIdle, EngineRead, EngineReadDone, EngineWriteWait,
         EngineWriteDone, EngineLines, TypeOK, EngineStates
  <2>3. DataInPlace'
    <3>1. CASE mem' = mem
      BY <1>1, <1>2, <3>1 DEF DataInPlace
    <3>2. CASE mem' # mem
      <4>1. EngineRead
        BY <1>1, <1>4, <3>2 DEF EngineStep, EngineIdle, EngineReadDone, EngineWriteWait, EngineWriteDone
      <4>2. eng.bar = ctl.lat /\ hps.read_done /\ hps.lba = ctl.lat /\ ctl.lat \in Blocks
        BY <1>2, <4>1 DEF EngineRead, OnBus, Reading, ReadUp, Up, TypeOK, Registers
      <4>3. mem' = [mem EXCEPT ![ctl.lat] = rsector] /\ rsector = disk[ctl.lat]
        BY <1>2, <3>2, <4>1, <4>2 DEF EngineRead, Carried
      <4> QED BY <1>1, <1>2, <4>2, <4>3 DEF DataInPlace, TypeOK
    <3> QED BY <3>1, <3>2
  <2> QED BY <1>1, <1>2, <2>1, <2>2, <2>3 DEF Carried, Through
<1> QED BY <1>3, <1>4

(* The engine keeps in step with the registers and the bridge.             *)
LEMMA EngineKeeps ==
    ASSUME IInv, ClkEdge, ~reset
    PROVE  NoBlock' /\ Reading' /\ Writing' /\ OnBus' /\ Sector'
<1>1. /\ EngineStep
      /\ UNCHANGED <<hps, rsector, main, disk, ctl, reset>>
      /\ edge = "clk" /\ edge' = "nclk"
      /\ npg' = (npg /\ eng'.npr)
      /\ pipe'["m"].idle = hps.idle
      /\ pipe'["m"].read_done = hps.read_done
      /\ pipe'["m"].write_done = hps.write_done
      /\ pipe'["s"] = pipe["m"]
      /\ pipe'["q"] = pipe["s"]
  BY ClkFlops DEF ClkEdge
<1>2. /\ TypeOK /\ Asked /\ Carried /\ Current /\ ClearMeets /\ EngineLines
      /\ NoBlock /\ Reading /\ Writing /\ OnBus /\ Sector
  BY DEF IInv
<1>3. /\ eng \in Engine /\ ctl \in Registers /\ npg \in BOOLEAN
      /\ hps.idle \in BOOLEAN /\ hps.read_done \in BOOLEAN /\ hps.write_done \in BOOLEAN
      /\ pipe["m"] \in Answers /\ pipe["s"] \in Answers /\ pipe["q"] \in Answers
  BY <1>2 DEF TypeOK, BlkTypeOK, Engine
<1>4. NoBlock'
  BY <1>1, <1>2, <1>3
     DEF NoBlock, Asked, Reading, Writing, EngineLines, EngineStep, EngineIdle, EngineRead, EngineReadDone,
         EngineWrite, EngineWriteWait, EngineWriteDone, sdcard_read_done, sdcard_write_done, ReadDown,
         WriteDown, Down, Engine
<1>5. Reading'
  <2>1. CASE EngineIdle
    <3>1. ctl.read_start => ~ctl.write_start
      BY <1>2 DEF Current
    <3>2. CASE ~ctl.read_start
      <4>1. ~pipe["q"].read_done /\ ReadDown'
        BY <1>1, <1>2, <3>2 DEF Reading, ReadDown, Down
      <4>2. eng'.state \in {"idle", "write", "write_done"}
        BY <1>1, <1>2, <1>3, <2>1, <4>1 DEF EngineIdle, Engine, sdcard_read_done
      <4> QED BY <1>1, <1>2, <3>2, <4>1, <4>2 DEF Reading
    <3>3. CASE ctl.read_start
      <4>1. ReadRising' /\ (pipe["q"].read_done => ReadUp' /\ hps.state = "idle")
        BY <1>1, <1>2, <1>3, <2>1, <3>3
           DEF Reading, ReadUp, ReadRising, Up, Rising, EngineIdle, Answers, Asked
      <4>2. /\ eng'.state \in {"idle", "read", "read_done"} /\ ~eng'.read_ack
            /\ eng'.state # "idle" => pipe["q"].read_done
        BY <1>2, <1>3, <2>1, <3>1, <3>3 DEF EngineIdle, EngineLines, Engine, sdcard_read_done
      <4> QED BY <1>1, <1>2, <3>3, <4>1, <4>2 DEF Reading
    <3> QED BY <3>2, <3>3
  <2>2. CASE EngineRead
    BY <1>1, <1>2, <1>3, <2>2
       DEF EngineRead, Reading, Current, EngineLines, ReadUp, ReadDown, ReadRising, ReadFalling,
           Up, Down, Rising, Falling, sdcard_read_done, Engine, Answers
  <2>3. CASE EngineReadDone
    BY <1>1, <1>2, <1>3, <2>3
       DEF EngineReadDone, Reading, Current, EngineLines, ReadUp, ReadDown, ReadRising, ReadFalling,
           Up, Down, Rising, Falling, sdcard_read_done, Engine, Answers
  <2>4. CASE EngineWrite
    BY <1>1, <1>2, <1>3, <2>4
       DEF EngineWrite, Reading, Current, EngineLines, ReadUp, ReadDown, ReadRising, ReadFalling,
           Up, Down, Rising, Falling, sdcard_read_done, Engine, Answers
  <2>5. CASE EngineWriteWait
    BY <1>1, <1>2, <1>3, <2>5
       DEF EngineWriteWait, Reading, Current, EngineLines, ReadUp, ReadDown, ReadRising, ReadFalling,
           Up, Down, Rising, Falling, sdcard_read_done, Engine, Answers
  <2>6. CASE EngineWriteDone
    BY <1>1, <1>2, <1>3, <2>6
       DEF EngineWriteDone, Reading, Current, EngineLines, ReadUp, ReadDown, ReadRising, ReadFalling,
           Up, Down, Rising, Falling, sdcard_read_done, Engine, Answers
  <2> QED BY <1>1, <2>1, <2>2, <2>3, <2>4, <2>5, <2>6 DEF EngineStep
<1>6. Writing'
  <2>1. CASE EngineIdle
    BY <1>1, <1>2, <1>3, <2>1
       DEF EngineIdle, Writing, Current, EngineLines, Reading, WriteUp, WriteDown, WriteRising, WriteFalling,
           ReadDown, Up, Down, Rising, Falling, sdcard_read_done, sdcard_write_done, Engine, Answers
  <2>2. CASE EngineRead
    BY <1>1, <1>2, <1>3, <2>2
       DEF EngineRead, Writing, Current, EngineLines, Reading, WriteUp, WriteDown, WriteRising, WriteFalling,
           ReadDown, Up, Down, Rising, Falling, sdcard_read_done, sdcard_write_done, Engine, Answers
  <2>3. CASE EngineReadDone
    BY <1>1, <1>2, <1>3, <2>3
       DEF EngineReadDone, Writing, Current, EngineLines, Reading, WriteUp, WriteDown, WriteRising, WriteFalling,
           ReadDown, Up, Down, Rising, Falling, sdcard_read_done, sdcard_write_done, Engine, Answers
  <2>4. CASE EngineWrite
    BY <1>1, <1>2, <1>3, <2>4
       DEF EngineWrite, Writing, Current, EngineLines, Reading, WriteUp, WriteDown, WriteRising, WriteFalling,
           ReadDown, Up, Down, Rising, Falling, sdcard_read_done, sdcard_write_done, Engine, Answers
  <2>5. CASE EngineWriteWait
    <3>1. /\ eng.state = "write_wait" /\ ctl.write_start /\ WriteRising /\ ~eng.write_ack
          /\ sdcard_write_done => WriteUp /\ hps.state = "idle"
      BY <1>2, <1>3, <2>5 DEF EngineWriteWait, EngineLines, Writing, WriteRising, WriteUp, Rising, Up,
           Asked, sdcard_write_done, Answers
    <3>2. WriteRising' /\ (sdcard_write_done => WriteUp')
      BY <1>1, <1>3, <3>1 DEF WriteRising, WriteUp, Rising, Up, Answers
    <3>3. /\ ~eng'.write_ack
          /\ \/ eng'.state = "write_done" /\ ~eng'.write_start /\ sdcard_write_done
             \/ eng'.state = "write_wait" /\ eng'.write_start
      BY <1>3, <2>5, <3>1 DEF EngineWriteWait, Engine
    <3> QED BY <1>1, <1>2, <3>1, <3>2, <3>3 DEF Writing
  <2>6. CASE EngineWriteDone
    BY <1>1, <1>2, <1>3, <2>6
       DEF EngineWriteDone, Writing, Current, EngineLines, Reading, WriteUp, WriteDown, WriteRising, WriteFalling,
           ReadDown, Up, Down, Rising, Falling, sdcard_read_done, sdcard_write_done, Engine, Answers
  <2> QED BY <1>1, <2>1, <2>2, <2>3, <2>4, <2>5, <2>6 DEF EngineStep
<1>7. OnBus'
  BY <1>1, <1>2, <1>3, ZenonT(60)
     DEF OnBus, ClearMeets, Current, Reading, ReadDown, Down, EngineStep, EngineIdle, EngineRead, EngineReadDone,
         EngineWrite, EngineWriteWait, EngineWriteDone, sdcard_read_done, Engine
<1>8. Sector'
  <2>1. CASE EngineIdle
    BY <1>1, <1>2, <1>3, <2>1
       DEF EngineIdle, Sector, OnBus, Carried, Current, Reading, Writing, EngineLines, ReadUp, WriteUp, WriteDown,
           WriteRising, Up, Down, Rising, sdcard_read_done, sdcard_write_done, Engine, Registers
  <2>2. CASE EngineRead
    <3>1. /\ eng.state = "read" /\ ctl.read_start /\ ~ctl.write_start /\ ctl.left > 0
          /\ eng.bar = ctl.lat /\ ctl.lat \in Blocks /\ hps.read_done /\ hps.lba = ctl.lat
      BY <1>2, <1>3, <2>2 DEF EngineRead, Reading, OnBus, Current, ReadUp, Up, Registers
    <3>2. eng'.state = "read_done"
      BY <1>3, <2>2 DEF EngineRead, Engine
    <3>3. eng'.nxm \/ ctl.fnc # "read" \/ mem' = [mem EXCEPT ![ctl.lat] = disk[ctl.lat]]
      <4>1. PICK nxm \in BOOLEAN :
               /\ eng' = [eng EXCEPT !.state = "read_done", !.nxm = nxm]
               /\ mem' = IF nxm \/ ctl.fnc = "check" \/ ctl.left = 0 \/ eng.bar \notin Blocks THEN mem
                         ELSE [mem EXCEPT ![eng.bar] = rsector]
        BY <2>2 DEF EngineRead
      <4>2. eng'.nxm = nxm
        BY <1>3, <4>1 DEF Engine
      <4>3. rsector = disk[ctl.lat]
        BY <1>2, <3>1 DEF Carried
      <4>4. ctl.left # 0
        BY <1>3, <3>1 DEF Registers
      <4> QED BY <3>1, <4>1, <4>2, <4>3, <4>4
    <3> QED BY <1>1, <1>2, <3>1, <3>2, <3>3 DEF Sector, TypeOK
  <2>3. CASE EngineReadDone
    BY <1>1, <1>2, <1>3, <2>3
       DEF EngineReadDone, Sector, OnBus, Carried, Current, Reading, Writing, EngineLines, ReadUp, WriteUp, WriteDown,
           WriteRising, Up, Down, Rising, sdcard_read_done, sdcard_write_done, Engine, Registers
  <2>4. CASE EngineWrite
    BY <1>1, <1>2, <1>3, <2>4
       DEF EngineWrite, Sector, OnBus, Carried, Current, Reading, Writing, EngineLines, ReadUp, WriteUp, WriteDown,
           WriteRising, Up, Down, Rising, sdcard_read_done, sdcard_write_done, Engine, Registers
  <2>5. CASE EngineWriteWait
    <3>1. /\ eng.state = "write_wait" /\ ctl.write_start /\ ~ctl.read_start
          /\ wsector.blk = ctl.lat /\ (~ctl.orphan => wsector.gen = ctl.gen)
          /\ sdcard_write_done => hps.write_done /\ hps.lba = ctl.lat
      BY <1>2, <1>3, <2>5 DEF EngineWriteWait, Writing, Sector, Current, WriteRising, Rising,
           sdcard_write_done, Answers
    <3>2. wsector' = wsector /\ wsector = [blk |-> wsector.blk, gen |-> wsector.gen]
      BY <1>2, <2>5 DEF EngineWriteWait, TypeOK, BlkTypeOK, Sectors, Empty
    <3>3. eng'.state = "write_wait" \/ (eng'.state = "write_done" /\ sdcard_write_done)
      BY <1>3, <2>5, <3>1 DEF EngineWriteWait, Engine
    <3>4. sdcard_write_done => disk[ctl.lat] = wsector
      BY <1>2, <3>1 DEF Carried
    <3> QED BY <1>1, <3>1, <3>2, <3>3, <3>4 DEF Sector
  <2>6. CASE EngineWriteDone
    BY <1>1, <1>2, <1>3, <2>6
       DEF EngineWriteDone, Sector, OnBus, Carried, Current, Reading, Writing, EngineLines, ReadUp, WriteUp, WriteDown,
           WriteRising, Up, Down, Rising, sdcard_read_done, sdcard_write_done, Engine, Registers
  <2> QED BY <1>1, <2>1, <2>2, <2>3, <2>4, <2>5, <2>6 DEF EngineStep
<1> QED BY <1>4, <1>5, <1>6, <1>7, <1>8

LEMMA ClkKeeps ==
    ASSUME IInv, ClkEdge
    PROVE  IInv'
<1>1. CASE reset
  BY <1>1, ClkReset
<1>2. CASE ~reset
  <2>1. /\ UNCHANGED <<hps, main, ctl, reset, fetch>>
        /\ edge = "clk" /\ edge' = "nclk"
        /\ pipe'["q"] = pipe["s"]
    BY <1>2, ClkFlops
  <2>2. Asked' /\ Current'
    BY <2>1 DEF IInv, Asked, Current
  <2>3. ClearMeets'
    BY <1>2, <2>1 DEF IInv, ClearMeets, StartsAt
  <2> QED BY <1>2, <2>1, <2>2, <2>3, ClkType, EngineCarried, EngineKeeps DEF IInv
<1> QED BY <1>1, <1>2

-----------------------------------------------------------------------------
(* The bus.                                                                *)

(* What INIT leaves in the registers.                                      *)
LEMMA ResetShape ==
    ASSUME TypeOK
    PROVE  LET d == RegisterReset IN
           /\ d \in Registers
           /\ ~d.read_start /\ ~d.write_start /\ ~d.orphan /\ d.clr
           /\ d.go = ctl.go /\ d.left = ctl.left /\ d.ned = ctl.ned /\ d.gen = ctl.gen
           /\ d.blk = ctl.blk /\ d.fnc = ctl.fnc
<1>1. ctl \in Registers
  BY DEF TypeOK
<1>2. PICK t : t = [ctl EXCEPT !.clr = TRUE, !.rdyset = FALSE]
  OBVIOUS
<1>3. t \in Registers /\ t.clr /\ t.go = ctl.go /\ t.left = ctl.left /\ t.ned = ctl.ned
      /\ t.gen = ctl.gen /\ t.blk = ctl.blk /\ t.fnc = ctl.fnc
  BY <1>1, <1>2 DEF Registers
<1>4. PICK u : u = [t EXCEPT !.read_start = FALSE, !.write_start = FALSE]
  OBVIOUS
<1>5. u \in Registers /\ u.clr /\ u.go = ctl.go /\ u.left = ctl.left /\ u.ned = ctl.ned
      /\ u.gen = ctl.gen /\ u.blk = ctl.blk /\ u.fnc = ctl.fnc /\ ~u.read_start /\ ~u.write_start
  BY <1>3, <1>4 DEF Registers
<1>6. RegisterReset = [u EXCEPT !.orphan = FALSE, !.rdy = TRUE]
  BY <1>1, <1>2, <1>4 DEF RegisterReset, Registers
<1> QED BY <1>5, <1>6 DEF Registers

LEMMA GrantKeeps ==
    ASSUME IInv, Grant
    PROVE  IInv'
<1>1. /\ UNCHANGED <<hps, pipe, rsector, wsector, main, disk, ctl, eng, reset, fetch, mem, edge>>
      /\ npg' = TRUE /\ edge = "nclk"
  BY DEF Grant, blkVars
<1>2. TypeOK' /\ Asked' /\ Carried' /\ Current' /\ EngineLines' /\ DataInPlace'
  BY <1>1 DEF IInv, TypeOK, BlkTypeOK, Asked, Carried, Through, Current, EngineLines, DataInPlace
<1>3. ClearMeets' /\ (reset => Stopped')
  BY <1>1 DEF IInv, ClearMeets, StartsAt, Stopped
<1>4. ~reset => NoBlock' /\ Reading' /\ Writing' /\ OnBus' /\ Sector'
  BY <1>1 DEF IInv, NoBlock, Reading, Writing, OnBus, Sector, ReadUp, ReadDown, ReadRising, ReadFalling,
              WriteUp, WriteDown, WriteRising, WriteFalling
<1> QED BY <1>1, <1>2, <1>3, <1>4 DEF IInv

(* INIT comes: the engine has not begun to move words to or from Main.     *)
LEMMA BusInitKeeps ==
    ASSUME IInv, BusInit
    PROVE  IInv'
<1>1. /\ UNCHANGED <<hps, pipe, rsector, wsector, main, disk, ctl, eng, npg, fetch, mem, edge>>
      /\ reset' = TRUE /\ ~reset
  BY DEF BusInit, blkVars
<1>2. TypeOK' /\ Asked' /\ Carried' /\ Current' /\ EngineLines' /\ DataInPlace'
  BY <1>1 DEF IInv, TypeOK, BlkTypeOK, Asked, Carried, Through, Current, EngineLines, DataInPlace
<1>3. ClearMeets'
  BY <1>1 DEF IInv, ClearMeets
<1>4. Stopped'
  BY <1>1 DEF IInv, Stopped, Reading, Writing, EngineLines, Asked
<1> QED BY <1>1, <1>2, <1>3, <1>4 DEF IInv

(* INIT ends: everything of before it is gone, but what Main may hold.     *)
LEMMA BusInitEndKeeps ==
    ASSUME IInv, BusInitEnd
    PROVE  IInv'
<1>1. /\ UNCHANGED <<hps, pipe, rsector, wsector, main, disk, ctl, eng, npg, fetch, mem, edge>>
      /\ reset /\ reset' = FALSE /\ edge = "nclk"
      /\ pipe["m"] = NoAnswer /\ pipe["s"] = NoAnswer /\ pipe["q"] = NoAnswer
      /\ eng = EngineReset
      /\ HpsReset = hps
  BY DEF BusInitEnd, blkVars, Settled, HpsStep, Lines
<1>2. TypeOK' /\ Asked' /\ Carried' /\ Current' /\ EngineLines' /\ DataInPlace'
  <2>1. UNCHANGED <<hps, pipe, rsector, wsector, main, disk, ctl, eng, npg, fetch, mem, edge>>
        /\ reset' \in BOOLEAN
    BY <1>1
  <2> QED BY <2>1 DEF IInv, TypeOK, BlkTypeOK, Asked, Carried, Through, Current, EngineLines, DataInPlace
<1>3. ~ctl.read_start /\ ~ctl.write_start /\ eng.state = "idle"
      /\ ~eng.read_ack /\ ~eng.write_ack /\ ~eng.write_start
  BY <1>1, ResetShape DEF BusInitEnd, EngineReset, IInv
<1>4. ~hps.idle /\ ~hps.read_done /\ ~hps.write_done /\ hps.state \in {"drain", "quiesce"}
  BY <1>1 DEF HpsReset, Drain, IInv, TypeOK, BlkTypeOK, HpsStates
<1>5. ClearMeets'
  BY <1>1 DEF IInv, ClearMeets, StartsAt, NoAnswer
<1>6. NoBlock' /\ Reading' /\ Writing' /\ OnBus' /\ Sector'
  BY <1>1, <1>3, <1>4 DEF NoBlock, Reading, Writing, OnBus, Sector, NoAnswer, ReadDown, WriteDown, Down
<1> QED BY <1>1, <1>2, <1>5, <1>6 DEF IInv

-----------------------------------------------------------------------------
(* The edge of nclk: the parts of the process, one after the other.        *)

SameBlock(c, d) ==
    /\ d.read_start = c.read_start /\ d.write_start = c.write_start
    /\ d.lat = c.lat /\ d.orphan = c.orphan
SameCommand(c, d) ==
    /\ d.go = c.go /\ d.pack = c.pack
    /\ d.fnc = c.fnc /\ d.blk = c.blk /\ d.left = c.left /\ d.gen = c.gen

(* A new command, on a block of the disk.                                  *)
Issued(d) ==
    /\ ~ctl.go /\ d.go
    /\ ctl.gen < LastCommand /\ d.gen = ctl.gen + 1
    /\ d.fnc \in {"read", "write", "check"} /\ d.blk \in Blocks

(* The program's cycle: a new command only while there is none.            *)
LEMMA AccessShape ==
    ASSUME TypeOK, NEW a \in Accesses, a.op = "go" => Accepts, a.op # "select",
           NEW c, c = Access(a, ctl)
    PROVE  /\ c \in Registers /\ SameBlock(ctl, c) /\ c.ned = ctl.ned
           /\ c.clr = (ctl.clr \/ a.op = "clear")
           /\ ctl.go => SameCommand(ctl, c)
           /\ c.go /\ ~ctl.go => c.left > 0
           /\ ctl.gen <= c.gen
           /\ IF a.op = "go" THEN Issued(c) ELSE SameCommand(ctl, c)
<1>1. ctl \in Registers
  BY DEF TypeOK
<1>2. CASE a.op = "go"
  <2>1. ~ctl.go /\ ctl.gen < LastCommand
    BY <1>2 DEF Accepts
  <2>2. a.fnc \in {"read", "write", "check"} /\ a.blk \in 0..(LastBlock + 1)
        /\ a.left \in 0..MaxSectors /\ a.left > 0 /\ a.blk \in Blocks
        /\ a.pack \in {"valid", "offline", "invalid"}
    <3> DEFINE Taken   == [op : {"go"}, fnc : {"read", "write", "check"}, blk : Blocks,
                           left : 1..MaxSectors, pack : {"valid"}]
               Wasted  == [op : {"go"}, fnc : {"read", "write"}, blk : {0},
                           left : 1..MaxSectors, pack : {"offline", "invalid"}]
    <3>1. a \in Taken \/ a \in Wasted
      BY <1>2, Zenon DEF Accesses
    <3>2. a.left \in 1..MaxSectors /\ a.blk \in Blocks
          /\ a.fnc \in {"read", "write", "check"} /\ a.pack \in {"valid", "offline", "invalid"}
      BY <3>1, ZeroBlock
    <3>3. a.blk \in 0..(LastBlock + 1)
      BY <3>2, ZeroBlock, Zenon
    <3>4. a.left \in 0..MaxSectors /\ a.left > 0
      BY <3>2, MaxSectorsAssumption
    <3> QED BY <3>2, <3>3, <3>4
  <2>3. PICK t : t = [ctl EXCEPT !.go = TRUE, !.fnc = a.fnc, !.pack = a.pack]
    OBVIOUS
  <2>4. t \in Registers /\ SameBlock(ctl, t) /\ t.ned = ctl.ned /\ t.clr = ctl.clr /\ t.gen = ctl.gen
        /\ t.go /\ t.fnc = a.fnc
    BY <1>1, <2>2, <2>3 DEF Registers, SameBlock
  <2>5. PICK u : u = [t EXCEPT !.blk = a.blk, !.left = a.left]
    OBVIOUS
  <2>6. u \in Registers /\ SameBlock(ctl, u) /\ u.ned = ctl.ned /\ u.clr = ctl.clr /\ u.gen = ctl.gen
        /\ u.left > 0 /\ u.go /\ u.fnc = a.fnc /\ u.blk = a.blk
    BY <2>2, <2>4, <2>5 DEF Registers, SameBlock
  <2>7. c = [u EXCEPT !.gen = @ + 1, !.rdyset = FALSE]
    BY <1>1, <1>2, <2>3, <2>5 DEF Access, Accepts, Registers
  <2>8. ctl.gen + 1 \in 0..LastCommand /\ ctl.gen <= ctl.gen + 1
    BY <1>1, <2>1, LastCommandAssumption DEF Registers
  <2>9. c \in Registers /\ SameBlock(ctl, c) /\ c.ned = ctl.ned /\ c.clr = ctl.clr
        /\ c.gen = ctl.gen + 1 /\ c.left > 0 /\ c.go /\ c.fnc = a.fnc /\ c.blk = a.blk
    <3>1. PICK g : g = ctl.gen + 1
      OBVIOUS
    <3>2. c = [u EXCEPT !.gen = g, !.rdyset = FALSE] /\ g \in 0..LastCommand
      BY <2>6, <2>7, <2>8, <3>1
    <3>3. c \in Registers /\ c.gen = g
      BY <2>6, <3>2 DEF Registers
    <3>4. SameBlock(ctl, c) /\ c.ned = ctl.ned /\ c.clr = ctl.clr /\ c.left > 0
         /\ c.go /\ c.fnc = a.fnc /\ c.blk = a.blk
      BY <2>6, <3>2 DEF Registers, SameBlock
    <3> QED BY <3>1, <3>3, <3>4
  <2> QED BY <1>1, <1>2, <2>1, <2>2, <2>8, <2>9 DEF Registers, Issued
<1>3. ctl.gen <= ctl.gen /\ ctl.clr \in BOOLEAN
  BY <1>1, LastCommandAssumption DEF Registers
<1>4. CASE a.op = "clear"
  <2>1. c = [ctl EXCEPT !.clr = TRUE]
    BY <1>4 DEF Access
  <2> QED BY <1>1, <1>3, <1>4, <2>1 DEF Registers, SameBlock, SameCommand
<1>5. CASE a.op \notin {"go", "clear"}
  <2>1. c = ctl
    BY <1>5 DEF Access
  <2> QED BY <1>1, <1>3, <1>5, <2>1 DEF SameBlock, SameCommand
<1> QED BY <1>2, <1>4, <1>5

LEMMA ReadyShape ==
    ASSUME NEW c \in Registers, NEW d, d = Ready(c)
    PROVE  /\ d \in Registers /\ SameBlock(c, d) /\ SameCommand(c, d)
           /\ d.ned = c.ned /\ d.clr = c.clr
BY DEF Ready, Registers, SameBlock, SameCommand

(* The handshake of an abandoned block.                                    *)
LEMMA OrphanShape ==
    ASSUME TypeOK, Current, NEW c \in Registers, SameBlock(ctl, c), NEW d, d = Orphan(c)
    PROVE  /\ d \in Registers /\ SameCommand(c, d)
           /\ d.ned = c.ned /\ d.clr = c.clr /\ d.lat = ctl.lat
           /\ ~ctl.orphan => SameBlock(ctl, d)
           /\ ctl.orphan =>
                 /\ d.read_start = (ctl.read_start /\ ~ReadTaken)
                 /\ d.write_start = (ctl.write_start /\ ~WriteTaken)
                 /\ d.orphan = (d.read_start \/ d.write_start)
<1>1. CASE ~ctl.orphan
  BY <1>1 DEF Orphan, SameBlock, SameCommand
<1>2. CASE ctl.orphan
  <2> DEFINE rs == ctl.read_start /\ ~ReadTaken
             ws == ctl.write_start /\ (ctl.read_start \/ ~WriteTaken)
             oo == \/ ctl.read_start /\ ~ReadTaken
                   \/ ~ctl.read_start /\ ctl.write_start /\ ~WriteTaken
  <2>1. rs \in BOOLEAN /\ ws \in BOOLEAN /\ oo \in BOOLEAN
    OBVIOUS
  <2>2. ctl.read_start \in BOOLEAN /\ ctl.write_start \in BOOLEAN
    BY DEF TypeOK, Registers
  <2>3. ws = (ctl.write_start /\ ~WriteTaken) /\ oo = (rs \/ ws)
    BY <2>2 DEF Current, ReadTaken, WriteTaken
  <2>4. d = [c EXCEPT !.read_start = rs, !.write_start = ws, !.orphan = oo]
    BY <1>2 DEF Orphan, SameBlock
  <2> HIDE DEF rs, ws, oo
  <2>5. d \in Registers /\ SameCommand(c, d) /\ d.ned = c.ned /\ d.clr = c.clr /\ d.lat = c.lat
        /\ d.read_start = rs /\ d.write_start = ws /\ d.orphan = oo
    BY <2>1, <2>4 DEF Registers, SameCommand
  <2> QED BY <1>2, <2>3, <2>5 DEF rs, SameBlock
<1> QED BY <1>1, <1>2

(* What becomes of the block of a command at an edge: it begins, there is  *)
(* none left on the disk, it was handed over, or it goes on.               *)
Idles(d) == ~d.read_start /\ ~d.write_start
Begun(d) ==
    /\ StartsAt("q") /\ Idles(ctl) /\ SameCommand(ctl, d)
    /\ d.lat = ctl.blk /\ ~d.orphan
    /\ d.read_start = (ctl.fnc # "write") /\ d.write_start = (ctl.fnc = "write")
Ended(d) ==
    ~d.go /\ d.fnc = ctl.fnc /\ d.blk = ctl.blk /\ d.gen = ctl.gen
Counted(d) ==
    /\ ctl.go /\ ~ctl.orphan /\ ~eng.nxm
    /\ IF ctl.fnc = "write" THEN WriteTaken ELSE ReadTaken
    /\ d.fnc = ctl.fnc /\ d.blk = ctl.blk + 1 /\ d.gen = ctl.gen
Refused(d) ==
    Ended(d) /\ SameBlock(ctl, d) /\ Idles(ctl)
Handed(d) ==
    /\ ctl.go /\ ~ctl.orphan /\ Idles(d) /\ d.lat = ctl.lat /\ d.gen = ctl.gen
    /\ IF ctl.fnc = "write" THEN WriteTaken ELSE ReadTaken
    /\ d.go => d.left > 0
    /\ IF eng.nxm THEN Ended(d) ELSE Counted(d)
Waited(d) ==
    /\ SameCommand(ctl, d) /\ SameBlock(ctl, d)
    /\ ~ctl.orphan => IF ctl.fnc = "write" THEN ~WriteTaken ELSE ~ReadTaken

(* A command to a drive without a valid volume: a block under way, which   *)
(* is then an abandoned one, goes on.                                      *)
Dropped(c, d) ==
    /\ d \in Registers /\ SameBlock(c, d)
    /\ ~d.go /\ d.fnc = c.fnc /\ d.blk = c.blk /\ d.gen = c.gen

LEMMA CommandDrops ==
    ASSUME ctl.go, ctl.pack # "valid", NEW c \in Registers, NEW d, d = Command(c)
    PROVE  d.clr = c.clr /\ d.ned = c.ned /\ Dropped(c, d)
<1>1. PICK e \in BOOLEAN : e = (c.err \/ ctl.pack = "invalid")
  BY DEF Registers
<1>2. d = [c EXCEPT !.go = FALSE, !.err = e, !.pack = "valid"]
  BY <1>1 DEF Command, Registers
<1>3. "valid" \in {"valid", "offline", "invalid"}
  OBVIOUS
<1> QED BY <1>2, <1>3 DEF Dropped, Registers, SameBlock

LEMMA CommandShape ==
    ASSUME TypeOK, Current, ctl.go, ~ctl.orphan,
           NEW c \in Registers, SameBlock(ctl, c), SameCommand(ctl, c), c.ned = ctl.ned,
           NEW d, d = Command(c)
    PROVE  /\ d \in Registers /\ d.clr = c.clr /\ d.ned = c.ned
           /\ Begun(d) \/ Refused(d) \/ Handed(d) \/ Waited(d)
<1>1. ctl \in Registers /\ ~ctl.ned /\ sdcard_idle \in BOOLEAN /\ sdcard_read_done \in BOOLEAN
      /\ sdcard_write_done \in BOOLEAN
  BY DEF TypeOK, BlkTypeOK, Answers, Current, sdcard_idle, sdcard_read_done, sdcard_write_done
<1>2. PICK e : e = [c EXCEPT !.rdy = FALSE]
  OBVIOUS
<1>3. e \in Registers /\ SameBlock(ctl, e) /\ SameCommand(ctl, e) /\ e.clr = c.clr /\ e.ned = c.ned
  BY <1>2 DEF Registers, SameBlock, SameCommand
<1>4. ASSUME ctl.pack = "valid" PROVE d = Transfer(e)
  BY <1>1, <1>2, <1>4 DEF Command
<1>5. ctl.read_start => ctl.fnc # "write" /\ ctl.blk \in Blocks
  BY <1>1 DEF Current, Registers
<1>6. ctl.write_start => ctl.fnc = "write" /\ ctl.blk \in Blocks
  BY <1>1 DEF Current, Registers
<1>7. CASE StartsAt("q")
  <2>1. d = Start(e)
    BY <1>1, <1>4, <1>7 DEF Transfer, StartsAt, sdcard_idle, sdcard_read_done, Registers
  <2>2. Idles(ctl)
    BY <1>1, <1>5, <1>6, <1>7 DEF StartsAt, Idles
  <2>3. CASE ctl.blk \in Blocks
    <3> DEFINE rs == e.read_start \/ ctl.fnc # "write"
               ws == e.write_start \/ ctl.fnc = "write"
    <3>1. rs = (ctl.fnc # "write") /\ ws = (ctl.fnc = "write") /\ rs \in BOOLEAN /\ ws \in BOOLEAN
      BY <1>3, <2>2 DEF Idles, SameBlock, Registers
    <3>2. d = [e EXCEPT !.lat = ctl.blk, !.read_start = rs, !.write_start = ws]
      BY <2>1, <2>3 DEF Start
    <3> HIDE DEF rs, ws
    <3>3. d \in Registers /\ SameCommand(e, d) /\ d.clr = e.clr /\ d.ned = e.ned /\ d.orphan = e.orphan
          /\ d.lat = ctl.blk /\ d.read_start = rs /\ d.write_start = ws
      BY <1>3, <2>3, <3>1, <3>2, ZenonT(60) DEF Registers, SameCommand
    <3> QED BY <1>3, <1>7, <2>2, <3>1, <3>3 DEF Begun, SameBlock, SameCommand
  <2>4. CASE ctl.blk \notin Blocks
    <3>1. d = [e EXCEPT !.go = FALSE, !.rdyset = TRUE, !.err = TRUE]
      BY <1>3, <2>1, <2>4 DEF Start, Finish, Registers
    <3>2. PICK f : f = [e EXCEPT !.go = FALSE]
      OBVIOUS
    <3>3. f \in Registers /\ d = [f EXCEPT !.rdyset = TRUE, !.err = TRUE]
      BY <1>3, <3>1, <3>2 DEF Registers
    <3>4. ~f.go /\ f.blk = e.blk /\ f.gen = e.gen /\ f.fnc = e.fnc
          /\ SameBlock(e, f) /\ f.clr = e.clr /\ f.ned = e.ned
      BY <1>3, <3>2 DEF Registers, SameBlock
    <3>5. d \in Registers /\ d.go = f.go /\ d.blk = f.blk /\ d.gen = f.gen /\ d.fnc = f.fnc
          /\ SameBlock(f, d) /\ d.clr = f.clr /\ d.ned = f.ned
      BY <3>3 DEF Registers, SameBlock
    <3>6. d \in Registers /\ ~d.go /\ d.blk = e.blk /\ d.gen = e.gen /\ d.fnc = e.fnc
          /\ SameBlock(e, d) /\ d.clr = e.clr /\ d.ned = e.ned
      BY <3>4, <3>5 DEF SameBlock
    <3> QED BY <1>3, <2>2, <3>6 DEF Refused, Ended, SameBlock, SameCommand
  <2> QED BY <2>3, <2>4
<1>8. CASE /\ ctl.pack = "valid" /\ ~StartsAt("q")
           /\ IF ctl.fnc = "write" THEN WriteTaken ELSE ReadTaken
  <2>1. PICK f : /\ f = IF ctl.fnc = "write" THEN [e EXCEPT !.write_start = FALSE]
                         ELSE [e EXCEPT !.read_start = FALSE]
                 /\ d = Advance(f)
    BY <1>1, <1>4, <1>8 DEF Transfer, StartsAt, sdcard_idle, sdcard_read_done, Registers
  <2>2. f \in Registers /\ SameCommand(ctl, f) /\ Idles(f) /\ f.lat = ctl.lat /\ f.clr = e.clr
        /\ f.ned = e.ned
    BY <1>1, <1>3, <1>5, <1>6, <2>1, ZenonT(60) DEF Registers, SameCommand, SameBlock, Idles
  <2>3. ctl.blk \in Blocks /\ ctl.blk + 1 \in 0..(LastBlock + 1)
    BY <1>5, <1>6, <1>8, LastBlockAssumption DEF ReadTaken, WriteTaken, Blocks
  <2>4. CASE eng.nxm
    <3>1. d = [f EXCEPT !.go = FALSE, !.rdyset = TRUE, !.err = TRUE]
      BY <2>1, <2>2, <2>4 DEF Advance, Finish, Registers
    <3>2. d \in Registers /\ ~d.go /\ d.blk = f.blk /\ d.gen = f.gen /\ d.fnc = f.fnc
          /\ SameBlock(f, d) /\ d.clr = f.clr /\ d.ned = f.ned
      BY <2>2, <3>1, ZenonT(60) DEF Registers, SameBlock
    <3> QED BY <1>3, <1>8, <2>2, <2>4, <3>2 DEF Handed, Ended, SameBlock, SameCommand, Idles
  <2>5. CASE ~eng.nxm
    <3>1. PICK g : g = [f EXCEPT !.blk = ctl.blk + 1]
      OBVIOUS
    <3>2. g \in Registers /\ g.gen = ctl.gen /\ g.fnc = ctl.fnc /\ g.blk = ctl.blk + 1
          /\ SameBlock(f, g) /\ g.clr = f.clr /\ g.ned = f.ned
      BY <2>2, <2>3, <3>1 DEF Registers, SameBlock, SameCommand
    <3>3. CASE ctl.left > 1
      <4>1. d = [g EXCEPT !.left = ctl.left - 1]
        BY <2>1, <2>5, <3>1, <3>3 DEF Advance
      <4>2. ctl.left - 1 \in 0..MaxSectors /\ ctl.left - 1 > 0
        BY <1>1, <3>3, MaxSectorsAssumption DEF Registers
      <4>3. d \in Registers /\ d.left > 0 /\ d.gen = g.gen /\ d.fnc = g.fnc /\ d.blk = g.blk
            /\ SameBlock(g, d) /\ d.clr = g.clr /\ d.ned = g.ned
        BY <3>2, <4>1, <4>2 DEF Registers, SameBlock
      <4> QED BY <1>3, <1>8, <2>2, <2>5, <3>2, <4>3 DEF Handed, Counted, SameBlock, Idles
    <3>4. CASE ~(ctl.left > 1)
      <4>1. d = [g EXCEPT !.go = FALSE, !.rdyset = TRUE, !.left = 0]
        BY <2>1, <2>5, <3>1, <3>2, <3>4 DEF Advance, Finish, Registers
      <4>2. 0 \in 0..MaxSectors
        BY MaxSectorsAssumption
      <4>3. d \in Registers /\ ~d.go /\ d.gen = g.gen /\ d.fnc = g.fnc /\ d.blk = g.blk
            /\ SameBlock(g, d) /\ d.clr = g.clr /\ d.ned = g.ned
        BY <3>2, <4>1, <4>2, ZenonT(60) DEF Registers, SameBlock
      <4> QED BY <1>3, <1>8, <2>2, <2>5, <3>2, <4>3 DEF Handed, Counted, SameBlock, Idles
    <3> QED BY <3>3, <3>4
  <2> QED BY <2>4, <2>5
<1>9. CASE /\ ctl.pack = "valid" /\ ~StartsAt("q")
           /\ ~IF ctl.fnc = "write" THEN WriteTaken ELSE ReadTaken
  <2>1. d = e
    BY <1>1, <1>4, <1>9 DEF Transfer, StartsAt, sdcard_idle, sdcard_read_done, Registers
  <2> QED BY <1>3, <1>9, <2>1 DEF Waited
<1>10. CASE ctl.pack # "valid"
  <2>1. d.clr = c.clr /\ d.ned = c.ned /\ Dropped(c, d)
    BY <1>10, CommandDrops
  <2>2. Idles(ctl)
    BY <1>1, <1>10 DEF Current, Idles, Registers
  <2> QED BY <2>1, <2>2 DEF Dropped, Refused, Ended, SameBlock, SameCommand
<1> QED BY <1>7, <1>8, <1>9, <1>10 DEF StartsAt

(* A clear ends the command and marks its block as abandoned.              *)
LEMMA ClearShape ==
    ASSUME NEW c \in Registers, ctl.clr, ctl.read_start \in BOOLEAN, ctl.write_start \in BOOLEAN,
           NEW d, d = Clear(c)
    PROVE  /\ d \in Registers
           /\ ~d.clr /\ ~d.go /\ ~d.ned
           /\ d.orphan = (c.orphan \/ ctl.write_start \/ ctl.read_start)
           /\ d.read_start = c.read_start /\ d.write_start = c.write_start
           /\ d.lat = c.lat /\ d.gen = c.gen /\ d.fnc = "read" /\ d.blk = 0
<1>1. PICK t : t = [c EXCEPT !.orphan = @ \/ ctl.write_start \/ ctl.read_start, !.clr = FALSE]
  OBVIOUS
<1>2. /\ t \in Registers /\ ~t.clr /\ t.orphan = (c.orphan \/ ctl.write_start \/ ctl.read_start)
      /\ t.read_start = c.read_start /\ t.write_start = c.write_start
      /\ t.lat = c.lat /\ t.gen = c.gen
  BY <1>1 DEF Registers
<1>3. PICK u : u = [t EXCEPT !.rdy = TRUE, !.go = FALSE, !.fnc = "read"]
  OBVIOUS
<1>4. /\ u \in Registers /\ ~u.clr /\ ~u.go /\ u.orphan = t.orphan /\ u.fnc = "read"
      /\ u.read_start = c.read_start /\ u.write_start = c.write_start
      /\ u.lat = c.lat /\ u.gen = c.gen
  BY <1>2, <1>3 DEF Registers
<1>5. PICK v : v = [u EXCEPT !.err = FALSE, !.ned = FALSE]
  OBVIOUS
<1>6. /\ v \in Registers /\ ~v.clr /\ ~v.go /\ ~v.ned /\ v.orphan = t.orphan /\ v.fnc = "read"
      /\ v.read_start = c.read_start /\ v.write_start = c.write_start
      /\ v.lat = c.lat /\ v.gen = c.gen
  BY <1>4, <1>5 DEF Registers
<1>7. d = [v EXCEPT !.blk = 0, !.left = 0]
  BY <1>1, <1>3, <1>5 DEF Clear, Registers
<1>8. 0 \in 0..(LastBlock + 1) /\ 0 \in 0..MaxSectors
  BY ZeroBlock, MaxSectorsAssumption
<1>9. PICK w : w = [v EXCEPT !.blk = 0]
  OBVIOUS
<1>10. /\ w \in Registers /\ ~w.clr /\ ~w.go /\ ~w.ned /\ w.orphan = v.orphan
       /\ w.read_start = v.read_start /\ w.write_start = v.write_start
       /\ w.lat = v.lat /\ w.gen = v.gen /\ w.fnc = "read" /\ w.blk = 0
  BY <1>6, <1>8, <1>9 DEF Registers
<1>11. d = [w EXCEPT !.left = 0]
  BY <1>6, <1>7, <1>9 DEF Registers
<1>12. /\ d \in Registers /\ ~d.clr /\ ~d.go /\ ~d.ned /\ d.orphan = w.orphan
       /\ d.read_start = w.read_start /\ d.write_start = w.write_start
       /\ d.lat = w.lat /\ d.gen = w.gen /\ d.fnc = "read" /\ d.blk = 0
  BY <1>8, <1>10, <1>11 DEF Registers
<1> QED BY <1>2, <1>6, <1>10, <1>12, Zenon

(* The same for the edge as a whole: a block, if there is one, goes on,    *)
(* perhaps abandoned by a clear; it is over; or one begins.                *)
Onward(d) ==
    /\ d.read_start = ctl.read_start /\ d.write_start = ctl.write_start /\ d.lat = ctl.lat
    /\ ~ReadTaken /\ ~WriteTaken
    /\ ~Idles(ctl) => d.orphan = (ctl.orphan \/ (ctl.clr /\ ~d.clr))
    /\ ~Idles(ctl) /\ ~d.orphan => SameCommand(ctl, d)
    /\ ctl.go /\ (~ctl.clr \/ d.clr) => d.blk = ctl.blk
Over(d) ==
    /\ ReadTaken \/ WriteTaken
    /\ Idles(d)
    /\ ctl.go /\ (~ctl.clr \/ d.clr) /\ d.blk # ctl.blk =>
          ~ctl.orphan /\ ~eng.nxm /\ IF ctl.fnc = "write" THEN WriteTaken ELSE ReadTaken

LEMMA CommandOrNone ==
    ASSUME TypeOK, Current, NEW a \in Accesses, a.op = "go" => Accepts, a.op # "select",
           NEW d, d = Command(Orphan(Ready(Access(a, ctl))))
    PROVE  /\ d \in Registers /\ ~d.ned /\ d.clr = (ctl.clr \/ a.op = "clear")
           /\ d.go => d.left > 0
           /\ ctl.gen <= d.gen
           /\ Onward(d) \/ Over(d) \/ Begun(d)
           /\ a.op = "go" => Issued(d)
           /\ a.op # "go" => SameCommand(ctl, d) \/ Ended(d) \/ Counted(d)
<1>1. PICK b : b = Access(a, ctl)
  OBVIOUS
<1>2. /\ b \in Registers /\ SameBlock(ctl, b) /\ b.ned = ctl.ned
      /\ b.clr = (ctl.clr \/ a.op = "clear")
      /\ ctl.go => SameCommand(ctl, b)
      /\ b.go /\ ~ctl.go => b.left > 0
      /\ ctl.gen <= b.gen
      /\ IF a.op = "go" THEN Issued(b) ELSE SameCommand(ctl, b)
  BY <1>1, AccessShape
<1>3. PICK r : r = Ready(b)
  OBVIOUS
<1>4. /\ r \in Registers /\ SameBlock(b, r) /\ SameCommand(b, r) /\ r.ned = b.ned /\ r.clr = b.clr
  BY <1>2, <1>3, ReadyShape
<1>5. PICK c : c = Orphan(r)
  OBVIOUS
<1>6. SameBlock(ctl, r)
  BY <1>2, <1>4 DEF SameBlock
<1>7. /\ c \in Registers /\ SameCommand(r, c) /\ c.ned = r.ned /\ c.clr = r.clr /\ c.lat = ctl.lat
      /\ ~ctl.orphan => SameBlock(ctl, c)
      /\ ctl.orphan =>
            /\ c.read_start = (ctl.read_start /\ ~ReadTaken)
            /\ c.write_start = (ctl.write_start /\ ~WriteTaken)
            /\ c.orphan = (c.read_start \/ c.write_start)
  BY <1>4, <1>5, <1>6, OrphanShape
<1>8. /\ ~c.ned /\ c.ned = ctl.ned /\ c.clr = (ctl.clr \/ a.op = "clear")
      /\ ctl.go => SameCommand(ctl, c)
      /\ c.go => c.left > 0
      /\ ctl.gen <= c.gen
      /\ IF a.op = "go" THEN Issued(c) ELSE SameCommand(ctl, c)
  BY <1>2, <1>4, <1>7 DEF SameCommand, Issued, Current
<1>9. d = Command(c)
  BY <1>1, <1>3, <1>5
<1>10. ctl \in Registers /\ ~ctl.ned
  BY DEF TypeOK, Current
<1>11. CASE ~ctl.orphan /\ ctl.go
  <2>1. d \in Registers /\ d.clr = c.clr /\ d.ned = c.ned
        /\ (Begun(d) \/ Refused(d) \/ Handed(d) \/ Waited(d))
    BY <1>7, <1>8, <1>9, <1>10, <1>11, CommandShape
  <2>2. d.gen = ctl.gen /\ (d.go => d.left > 0)
    BY <1>8, <1>11, <2>1 DEF Begun, Refused, Ended, Handed, Waited, SameCommand
  <2>3. ctl.gen <= d.gen
    BY <1>8, <1>11, <2>2 DEF SameCommand
  <2>4. ASSUME Refused(d) \/ Waited(d) PROVE Onward(d)
    <3>1. ~ReadTaken /\ ~WriteTaken
      BY <1>10, <1>11, <2>4 DEF Refused, Waited, Idles, ReadTaken, WriteTaken, Current
    <3>2. d.orphan = ctl.orphan /\ (~Idles(ctl) => SameCommand(ctl, d)) /\ d.blk = ctl.blk
      BY <2>4 DEF Refused, Ended, Waited, SameBlock, SameCommand
    <3>3. ctl.clr /\ ~d.clr => FALSE
      BY <1>8, <2>1
    <3> QED BY <1>10, <1>11, <2>4, <3>1, <3>2, <3>3 DEF Onward, Refused, Waited, SameBlock, Registers
  <2>5. ASSUME Handed(d) PROVE Over(d)
    BY <2>5 DEF Handed, Ended, Over
  <2>6. a.op # "go" /\ (SameCommand(ctl, d) \/ Ended(d) \/ Counted(d))
    BY <1>8, <1>11, <2>1 DEF Issued, Begun, Refused, Handed, Waited
  <2> QED BY <1>8, <2>1, <2>2, <2>3, <2>4, <2>5, <2>6
<1>12. CASE ctl.orphan /\ ctl.go /\ ctl.pack # "valid"
  <2>1. d.clr = c.clr /\ d.ned = c.ned /\ Dropped(c, d)
    BY <1>7, <1>9, <1>12, CommandDrops
  <2>2. /\ d \in Registers /\ SameBlock(c, d) /\ ~d.go
        /\ a.op # "go" /\ d.blk = ctl.blk /\ d.fnc = ctl.fnc /\ d.gen = ctl.gen
    BY <1>8, <1>12, <2>1 DEF Dropped, SameCommand, Issued
  <2>3. Ended(d) /\ ctl.gen <= d.gen
    BY <1>8, <1>12, <2>2 DEF Ended, SameCommand
  <2>4. CASE ReadTaken \/ WriteTaken
    <3>1. Idles(d)
      BY <1>7, <1>12, <2>2, <2>4 DEF Idles, SameBlock, ReadTaken, WriteTaken, Current
    <3>2. Over(d)
      BY <2>2, <2>4, <3>1 DEF Over
    <3> QED BY <1>8, <2>1, <2>2, <2>3, <3>2
  <2>5. CASE ~ReadTaken /\ ~WriteTaken
    <3>1. d.read_start = ctl.read_start /\ d.write_start = ctl.write_start /\ d.lat = ctl.lat
          /\ (~Idles(ctl) => d.orphan)
      BY <1>7, <1>10, <1>12, <2>2, <2>5 DEF SameBlock, Idles, Registers
    <3>2. ctl.clr => d.clr
      BY <1>8, <2>1
    <3>3. Onward(d)
      BY <1>10, <1>12, <2>2, <2>5, <3>1, <3>2 DEF Onward, Registers
    <3> QED BY <1>8, <2>1, <2>2, <2>3, <3>3
  <2> QED BY <2>4, <2>5
<1>13. CASE ~ctl.go \/ (ctl.orphan /\ ctl.pack = "valid")
  <2>1. /\ d \in Registers /\ SameBlock(c, d) /\ SameCommand(c, d) /\ d.ned = c.ned /\ d.clr = c.clr
    <3>1. CASE ~ctl.go
      BY <1>7, <1>9, <3>1 DEF Command, SameBlock, SameCommand
    <3>2. CASE ctl.go
      <4>1. d = [c EXCEPT !.rdy = FALSE]
        BY <1>9, <1>10, <1>13, <3>2 DEF Command, Transfer
      <4> QED BY <1>7, <4>1 DEF Registers, SameBlock, SameCommand
    <3> QED BY <3>1, <3>2
  <2>2. /\ ctl.go => d.blk = ctl.blk
        /\ IF a.op = "go" THEN Issued(d) ELSE SameCommand(ctl, d)
    BY <1>8, <2>1 DEF SameCommand, Issued
  <2>3. ctl.clr => d.clr
    BY <1>8, <2>1
  <2>4. CASE ctl.orphan
    <3>1. CASE ReadTaken \/ WriteTaken
      <4>1. Idles(d)
        BY <1>7, <2>1, <2>4, <3>1 DEF Idles, SameBlock, ReadTaken, WriteTaken, Current
      <4>2. Over(d)
        BY <1>8, <2>1, <2>2, <3>1, <4>1 DEF Over, SameCommand
      <4> QED BY <1>8, <2>1, <2>2, <4>2 DEF SameCommand
    <3>2. CASE ~ReadTaken /\ ~WriteTaken
      <4>1. d.read_start = ctl.read_start /\ d.write_start = ctl.write_start /\ d.lat = ctl.lat
            /\ (~Idles(ctl) => d.orphan)
        BY <1>7, <1>10, <2>1, <2>4, <3>2 DEF SameBlock, Idles, Registers
      <4>2. Onward(d)
        BY <1>10, <2>1, <2>2, <2>3, <2>4, <3>2, <4>1 DEF Onward, Registers
      <4> QED BY <1>8, <2>1, <2>2, <4>2 DEF SameCommand
    <3> QED BY <3>1, <3>2
  <2>5. CASE ~ctl.orphan
    <3>1. Idles(ctl) /\ ~ReadTaken /\ ~WriteTaken
      BY <1>13, <2>5 DEF Current, Idles, ReadTaken, WriteTaken
    <3>2. Onward(d)
      BY <1>7, <2>1, <2>2, <2>5, <3>1 DEF Onward, SameBlock
    <3> QED BY <1>8, <2>1, <2>2, <3>2 DEF SameCommand
  <2> QED BY <2>4, <2>5
<1> QED BY <1>11, <1>12, <1>13

(* What a clear leaves of a command.                                       *)
Ceased(d) == ~d.go /\ d.fnc = "read" /\ d.blk = 0 /\ d.gen = ctl.gen

LEMMA NclkShape ==
    ASSUME IInv, NclkEdge, ~reset, Discipline
    PROVE  /\ ctl' \in Registers /\ ~ctl'.ned
           /\ ctl'.go => ctl'.left > 0
           /\ ctl.gen <= ctl'.gen
           /\ ctl'.clr => fetch' /\ ~npg /\ ~StartsNext(ctl')
           /\ ctl.clr => ~ctl'.clr
           /\ Onward(ctl') \/ Over(ctl') \/ (Begun(ctl') /\ ~ctl.clr)
           /\ ctl.clr => Ceased(ctl')
           /\ ~ctl.clr => \/ SameCommand(ctl, ctl') \/ Ended(ctl') \/ Counted(ctl')
                          \/ Issued(ctl') /\ ~ctl'.clr
<1>1. PICK a \in Accesses :
         /\ npg \/ fetch => a.op = "none"
         /\ fetch' = (a.op # "none")
         /\ a.op = "go" => Accepts
         /\ ctl' = Clear(Command(Orphan(Ready(Access(a, ctl)))))
         /\ Ruly(a, ctl')
  BY DEF NclkEdge
<1>2. TypeOK /\ Current /\ ClearMeets /\ ctl \in Registers /\ edge = "nclk"
  BY DEF IInv, TypeOK, NclkEdge
<1>3. a.op # "select" /\ (a.op = "clear" => fetch' /\ ~npg /\ ~StartsNext(ctl'))
  BY <1>1 DEF Ruly, Discipline
<1>4. PICK d : d = Command(Orphan(Ready(Access(a, ctl))))
  OBVIOUS
<1>5. /\ d \in Registers /\ ~d.ned /\ d.clr = (ctl.clr \/ a.op = "clear")
      /\ d.go => d.left > 0
      /\ ctl.gen <= d.gen
      /\ Onward(d) \/ Over(d) \/ Begun(d)
      /\ a.op = "go" => Issued(d)
      /\ a.op # "go" => SameCommand(ctl, d) \/ Ended(d) \/ Counted(d)
  BY <1>1, <1>2, <1>3, <1>4, CommandOrNone
<1>6. ctl' = Clear(d)
  BY <1>1, <1>4
<1>7. CASE ~ctl.clr
  <2>1. ctl' = d
    BY <1>6, <1>7 DEF Clear
  <2> QED BY <1>3, <1>5, <1>7, <2>1
<1>8. CASE ctl.clr
  <2>1. /\ ctl' \in Registers /\ ~ctl'.clr /\ ~ctl'.go /\ ~ctl'.ned
        /\ ctl'.orphan = (d.orphan \/ ctl.write_start \/ ctl.read_start)
        /\ ctl'.read_start = d.read_start /\ ctl'.write_start = d.write_start
        /\ ctl'.lat = d.lat /\ ctl'.gen = d.gen /\ ctl'.fnc = "read" /\ ctl'.blk = 0
    BY <1>2, <1>5, <1>6, <1>8, ClearShape DEF Registers
  <2>2. ~Begun(d)
    BY <1>2, <1>8 DEF ClearMeets, Begun, IInv, NclkEdge
  <2>3. ASSUME Onward(d) PROVE Onward(ctl')
    BY <1>2, <1>5, <1>8, <2>1, <2>3 DEF Onward, Idles, Registers
  <2>4. ASSUME Over(d) PROVE Over(ctl')
    BY <1>8, <2>1, <2>4 DEF Over, Idles
  <2>5. d.gen = ctl.gen
    BY <1>1, <1>2, <1>5, <1>8 DEF ClearMeets, SameCommand, Ended, Counted
  <2> QED BY <1>5, <1>8, <2>1, <2>2, <2>3, <2>4, <2>5 DEF Ceased
<1> QED BY <1>7, <1>8

LEMMA NclkReset ==
    ASSUME IInv, NclkEdge, reset
    PROVE  IInv'
<1>1. /\ UNCHANGED <<hps, pipe, rsector, wsector, main, disk, eng, npg, reset, mem>>
      /\ ctl' = RegisterReset /\ fetch' = TRUE /\ edge' = "clk"
  BY DEF NclkEdge, blkVars
<1>2. /\ ctl' \in Registers
      /\ ~ctl'.read_start /\ ~ctl'.write_start /\ ~ctl'.orphan
      /\ ctl'.go = ctl.go /\ ctl'.left = ctl.left /\ ctl'.ned = ctl.ned /\ ctl'.gen = ctl.gen
  BY <1>1, ResetShape DEF IInv
<1>3. TypeOK'
  BY <1>1, <1>2 DEF IInv, TypeOK, BlkTypeOK
<1>4. Asked' /\ Carried' /\ Current' /\ ClearMeets' /\ EngineLines' /\ Stopped' /\ DataInPlace'
  BY <1>1, <1>2 DEF IInv, Asked, Carried, Through, Current, ClearMeets, EngineLines, Stopped, DataInPlace
<1> QED BY <1>1, <1>3, <1>4 DEF IInv

(* The registers keep in step with the engine and the bridge.              *)
LEMMA NclkKeeps ==
    ASSUME IInv, NclkEdge, Discipline
    PROVE  IInv'
<1>1. CASE reset
  BY <1>1, NclkReset
<1>2. CASE ~reset
  <2>1. /\ UNCHANGED <<hps, pipe, rsector, wsector, main, disk, eng, npg, reset, mem>>
        /\ fetch' \in BOOLEAN /\ edge = "nclk" /\ edge' = "clk"
    BY <1>2 DEF NclkEdge, blkVars
  <2>2. /\ ctl' \in Registers /\ ~ctl'.ned
        /\ ctl'.go => ctl'.left > 0
        /\ ctl.gen <= ctl'.gen
        /\ ctl'.clr => fetch' /\ ~npg /\ ~StartsNext(ctl')
        /\ ctl.clr => ~ctl'.clr
        /\ Onward(ctl') \/ Over(ctl') \/ (Begun(ctl') /\ ~ctl.clr)
    BY <1>2, NclkShape
  <2>3. /\ TypeOK /\ Asked /\ Carried /\ Current /\ EngineLines /\ DataInPlace
        /\ NoBlock /\ Reading /\ Writing /\ OnBus /\ Sector
    BY <1>2 DEF IInv
  <2>4. /\ eng \in Engine /\ ctl \in Registers
        /\ pipe["q"] \in Answers /\ pipe["s"] \in Answers /\ pipe["m"] \in Answers
    BY <2>3 DEF TypeOK, BlkTypeOK, Engine
  <2>5. TypeOK'
    BY <2>1, <2>2, <2>3 DEF TypeOK, BlkTypeOK
  <2>6. Asked' /\ EngineLines' /\ DataInPlace'
    BY <2>1, <2>3 DEF Asked, EngineLines, DataInPlace
  <2>7. Carried'
    <3>1. wsector.gen <= ctl'.gen
      BY <2>2, <2>3, <2>4, LastCommandAssumption
         DEF Carried, TypeOK, BlkTypeOK, Registers, Sectors, Empty
    <3> QED BY <2>1, <2>3, <3>1 DEF Carried, Through
  <2>8. Current'
    BY <2>2, <2>3, <2>4 DEF Current, Onward, Over, Begun, Idles, SameCommand, StartsAt, Registers
  <2>9. ClearMeets'
    BY <2>1, <2>2 DEF ClearMeets, StartsAt, StartsNext
  <2>10. NoBlock' /\ Reading' /\ Writing' /\ OnBus' /\ Sector'
    <3>1. CASE Onward(ctl')
      <4>1. /\ ctl'.read_start = ctl.read_start /\ ctl'.write_start = ctl.write_start
            /\ ctl'.lat = ctl.lat /\ ~ReadTaken /\ ~WriteTaken
            /\ ~Idles(ctl) => ctl'.orphan = (ctl.orphan \/ (ctl.clr /\ ~ctl'.clr))
            /\ ~Idles(ctl) /\ ~ctl'.orphan => ctl'.fnc = ctl.fnc /\ ctl'.gen = ctl.gen
        BY <3>1 DEF Onward, SameCommand
      <4>2. NoBlock'
        BY <2>1, <2>3, <4>1 DEF NoBlock
      <4>3. Reading'
        BY <2>1, <2>3, <2>4, <4>1
           DEF Reading, NoBlock, EngineLines, ReadUp, ReadDown, ReadRising, ReadFalling,
               ReadTaken, sdcard_read_done
      <4>4. Writing'
        BY <2>1, <2>3, <2>4, <4>1
           DEF Writing, NoBlock, EngineLines, WriteUp, WriteDown, WriteRising, WriteFalling,
               WriteTaken, sdcard_write_done, Idles
      <4>5. OnBus'
        BY <2>1, <2>2, <2>3, <2>4, <4>1 DEF OnBus, Reading, Writing, Idles
      <4>6. Sector'
        BY <2>1, <2>3, <2>4, <4>1 DEF Sector, Idles
      <4> QED BY <4>2, <4>3, <4>4, <4>5, <4>6
    <3>2. CASE Over(ctl')
      <4>1. Idles(ctl')
        BY <3>2 DEF Over
      <4>2. CASE ReadTaken
        <5>1. ctl.read_start /\ ~ctl.write_start /\ eng.read_ack /\ eng.state = "read_done" /\ ~pipe["q"].read_done
          BY <2>3, <4>2 DEF ReadTaken, Current, EngineLines, sdcard_read_done
        <5>2. hps.state = "idle" /\ ReadDown /\ WriteDown
          BY <2>3, <5>1 DEF Reading, Writing, ReadFalling, ReadDown, Falling, Down
        <5> QED BY <2>1, <2>3, <4>1, <5>1, <5>2
                DEF NoBlock, Reading, Writing, OnBus, Sector, Idles, ReadDown, WriteDown
      <4>3. CASE WriteTaken
        <5>1. ctl.write_start /\ ~ctl.read_start /\ eng.write_ack /\ eng.state = "write_done" /\ ~pipe["q"].write_done
          BY <2>3, <4>3 DEF WriteTaken, Current, EngineLines, sdcard_write_done
        <5>2. hps.state = "idle" /\ ReadDown /\ WriteDown
          BY <2>3, <5>1 DEF Reading, Writing, EngineLines, WriteFalling, WriteDown, Falling, Down
        <5> QED BY <2>1, <2>3, <4>1, <5>1, <5>2
                DEF NoBlock, Reading, Writing, OnBus, Sector, Idles, ReadDown, WriteDown
      <4> QED BY <3>2, <4>2, <4>3 DEF Over
    <3>3. CASE Begun(ctl')
      <4>1. /\ ~ctl.read_start /\ ~ctl.write_start /\ pipe["q"].idle
            /\ ctl'.write_start = ~ctl'.read_start
        BY <2>2, <3>3 DEF Begun, Idles, StartsAt, Registers
      <4>2. /\ eng.state = "idle" /\ hps.state = "idle" /\ ReadDown /\ WriteDown
            /\ ~eng.read_ack /\ ~eng.write_ack /\ ~eng.write_start
        BY <2>1, <2>3, <4>1 DEF NoBlock, Reading, Writing, EngineLines
      <4> QED BY <2>1, <4>1, <4>2
              DEF NoBlock, Reading, Writing, OnBus, Sector, ReadDown, ReadRising, WriteDown, Rising, Down
    <3> QED BY <2>2, <3>1, <3>2, <3>3
  <2> QED BY <1>2, <2>1, <2>5, <2>6, <2>7, <2>8, <2>9, <2>10 DEF IInv
<1> QED BY <1>1, <1>2

LEMMA InitHolds ==
    ASSUME Init, Discipline
    PROVE  IInv
<1>1. hps = [state |-> "quiesce", rd |-> FALSE, wr |-> FALSE, lba |-> 0,
             idle |-> FALSE, read_done |-> FALSE, write_done |-> FALSE]
      /\ main = [phase |-> "idle", lba |-> 0, wr |-> FALSE, moved |-> FALSE]
      /\ pipe = [i \in {"m", "s", "q"} |-> NoAnswer]
      /\ rsector = Empty /\ wsector = Empty
      /\ disk = [b \in Blocks |-> [blk |-> b, gen |-> 0]]
  BY DEF Init, BlkInit
<1>2. BlkTypeOK
  BY <1>1, ZeroBlock, LastCommandAssumption DEF BlkTypeOK, HpsStates, Answers, NoAnswer, Sectors
<1>3. ctl = [go |-> FALSE, fnc |-> "read", rdy |-> TRUE, rdyset |-> FALSE,
              err |-> FALSE, ned |-> FALSE, clr |-> TRUE,
              read_start |-> FALSE, write_start |-> FALSE, orphan |-> FALSE,
              pack |-> "valid", blk |-> 0, left |-> 0, gen |-> 0, lat |-> 0]
      /\ eng = EngineReset /\ reset /\ fetch
  BY DEF Init
<1>4. TypeOK
  <2>1. ctl \in Registers
    BY <1>3, ZeroBlock, LastCommandAssumption, MaxSectorsAssumption DEF Registers
  <2>2. eng \in Engine
    BY <1>3, ZeroBlock DEF EngineReset, Engine, EngineStates
  <2>3. mem \in [Blocks -> Sectors \cup {Empty}] /\ npg \in BOOLEAN /\ reset \in BOOLEAN
        /\ fetch \in BOOLEAN /\ edge \in {"clk", "nclk"}
    BY DEF Init
  <2> QED BY <1>2, <2>1, <2>2, <2>3 DEF TypeOK, Engine
<1>5. Asked
  BY <1>1 DEF Asked
<1>6. Carried
  BY <1>1, <1>3 DEF Carried, Empty
<1>7. Current /\ ClearMeets /\ EngineLines /\ Stopped
  BY <1>3 DEF Current, ClearMeets, EngineLines, EngineReset, Stopped
<1>8. DataInPlace
  BY <1>1 DEF DataInPlace, Init, Empty
<1> QED BY <1>3, <1>4, <1>5, <1>6, <1>7, <1>8 DEF IInv

-----------------------------------------------------------------------------
(* The theorems.                                                           *)

LEMMA StutterKeeps ==
    ASSUME IInv, UNCHANGED vars
    PROVE  IInv'
<1>1. UNCHANGED <<hps, pipe, rsector, wsector, main, disk, ctl, eng, npg, reset, fetch, mem, edge>>
  BY DEF vars, blkVars
<1>2. TypeOK' /\ Asked' /\ Carried' /\ Current' /\ EngineLines' /\ DataInPlace'
  BY <1>1 DEF IInv, TypeOK, BlkTypeOK, Asked, Carried, Through, Current, EngineLines, DataInPlace
<1>3. ClearMeets' /\ (reset => Stopped')
  BY <1>1 DEF IInv, ClearMeets, StartsAt, Stopped
<1>4. ~reset => NoBlock' /\ Reading' /\ Writing' /\ OnBus' /\ Sector'
  BY <1>1 DEF IInv, NoBlock, Reading, Writing, OnBus, Sector, ReadUp, ReadDown, ReadRising, ReadFalling,
              WriteUp, WriteDown, WriteRising, WriteFalling
<1> QED BY <1>1, <1>2, <1>3, <1>4 DEF IInv

(* Registers, engine, bridge and Main stay in step: whatever the program   *)
(* starts or clears, the bus resets and the host delays, a handshake is at *)
(* the same point on all sides, and a sector is where that point says.     *)
THEOREM InStep ==
    ASSUME Discipline
    PROVE  Spec => []IInv
<1>1. Init => IInv
  BY InitHolds
<1>2. IInv /\ [Next]_vars => IInv'
  BY NclkKeeps, ClkKeeps, GrantKeeps, BusInitKeeps, BusInitEndKeeps, HpsKeeps, StutterKeeps DEF Next
<1> QED BY <1>1, <1>2, PTL DEF Spec

(* Every register keeps to its range, the sector counter too, which runs   *)
(* one past the last sector of the disk (rh11.vhd:972), and sd_addr holds  *)
(* a block of the image.                                                   *)
THEOREM TypeCorrect ==
    ASSUME Discipline
    PROVE  Spec => []TypeOK
<1>1. IInv => TypeOK
  BY DEF IInv
<1> QED BY <1>1, InStep, PTL

(* A block of the disk holds data written for that block, and a buffer of  *)
(* the program data of its block.                                          *)
THEOREM SectorsStayInPlace ==
    ASSUME Discipline
    PROVE  Spec => []DataInPlace
<1>1. IInv => DataInPlace
  BY DEF IInv
<1> QED BY <1>1, InStep, PTL

(* The engine and Main never touch a sector buffer at the same time        *)
(* (mister_blkdev.vhd:17), although nothing but the handshake keeps them   *)
(* apart.                                                                  *)
THEOREM BuffersAreExclusive ==
    ASSUME Discipline
    PROVE  Spec => []BufferExclusive
<1>1. IInv => BufferExclusive
  BY DEF IInv, BufferExclusive, Stopped, Reading, Writing, EngineLines, Asked
<1> QED BY <1>1, InStep, PTL

(* Of the steps, only a block handed over moves the sector counter on.     *)
LEMMA CountedIsHanded ==
    ASSUME IInv, [Next]_vars, Counts, Discipline
    PROVE  /\ ~reset /\ ~ctl.orphan /\ ~eng.nxm /\ disk' = disk /\ mem' = mem
           /\ IF ctl.fnc = "write" THEN WriteTaken ELSE ReadTaken
<1>1. ctl.blk \in 0..(LastBlock + 1) /\ ctl.blk + 1 # ctl.blk
  BY LastBlockAssumption DEF IInv, TypeOK, Registers
<1>2. ctl'.blk # ctl.blk /\ ctl.go /\ ~ctl.clr
  BY <1>1 DEF Counts
<1>3. NclkEdge
  BY <1>2 DEF Next, vars, ClkEdge, Grant, BusInit, BusInitEnd, HpsSide
<1>4. ~reset
  BY <1>2, <1>3, ResetShape DEF NclkEdge, IInv
<1>5. Onward(ctl') \/ Over(ctl') \/ Begun(ctl')
  BY <1>3, <1>4, NclkShape
<1>6. Over(ctl')
  BY <1>2, <1>5 DEF Onward, Begun, SameCommand
<1> QED BY <1>2, <1>3, <1>4, <1>6 DEF Over, NclkEdge, blkVars

(* A sector is counted only when it is there: on the disk as this command  *)
(* wrote it, or in memory as the disk has it.                              *)
THEOREM SectorsAreDone ==
    ASSUME Discipline
    PROVE  Spec => SectorDone
<1> DEFINE Done == Counts => CASE ctl.fnc = "write" -> disk[ctl.blk] = [blk |-> ctl.blk, gen |-> ctl.gen]
                               [] ctl.fnc = "read"  -> mem[ctl.blk] = disk[ctl.blk]
                               [] OTHER             -> TRUE
<1>1. IInv /\ [Next]_vars => Done
  <2> SUFFICES ASSUME IInv, [Next]_vars, Counts
               PROVE  /\ ctl.fnc = "write" => disk[ctl.blk] = [blk |-> ctl.blk, gen |-> ctl.gen]
                      /\ ctl.fnc = "read"  => mem[ctl.blk] = disk[ctl.blk]
    OBVIOUS
  <2>1. /\ ~reset /\ ~ctl.orphan /\ ~eng.nxm
        /\ IF ctl.fnc = "write" THEN WriteTaken ELSE ReadTaken
    BY CountedIsHanded
  <2>2. EngineLines /\ Current /\ Sector
    BY <2>1 DEF IInv
  <2> QED BY <2>1, <2>2 DEF EngineLines, Current, Sector, ReadTaken, WriteTaken
<1>2. Spec => [][Done]_vars
  BY <1>1, InStep, PTL DEF Spec
<1> QED BY <1>2 DEF SectorDone

(* Data of an earlier command never replaces data of a later one.          *)
THEOREM NothingComesLate ==
    ASSUME Discipline
    PROVE  Spec => NeverOlder
<1> DEFINE Newer == \A b \in Blocks : disk'[b].gen >= disk[b].gen
<1>1. IInv /\ [Next]_vars => Newer
  <2> SUFFICES ASSUME IInv, [Next]_vars, NEW b \in Blocks
               PROVE  disk'[b].gen >= disk[b].gen
    OBVIOUS
  <2>1. disk[b].gen \in Int /\ disk[b].gen <= wsector.gen /\ wsector.gen \in Int
    BY LastCommandAssumption DEF IInv, TypeOK, BlkTypeOK, Carried, Sectors, Empty
  <2>2. disk' = disk \/ disk' = [disk EXCEPT ![main.lba] = wsector]
    BY DEF Next, NclkEdge, ClkEdge, Grant, BusInit, BusInitEnd, HpsSide, HpsEdge, MainNext, MainPoll,
           MainAck, MainMove, MainEnd, vars, blkVars
  <2>3. disk'[b] = disk[b] \/ disk'[b] = wsector
    BY <2>2 DEF IInv, TypeOK, BlkTypeOK
  <2> QED BY <2>1, <2>3
<1>2. Spec => [][Newer]_vars
  BY <1>1, InStep, PTL DEF Spec
<1> QED BY <1>2 DEF NeverOlder

(* The engine moves words only for the command in progress and in its      *)
(* direction, and memory changes only under a read (rh11.vhd:904).         *)
THEOREM DmaIsTheCommands ==
    ASSUME Discipline
    PROVE  Spec => NoStrayDma
<1> DEFINE Own == /\ Moving => /\ ctl.go /\ ~ctl.orphan
                               /\ (eng.state = "write") = (ctl.fnc = "write")
                  /\ mem' # mem => ctl.fnc = "read"
<1>1. IInv /\ [Next]_vars => Own
  <2> SUFFICES ASSUME IInv, [Next]_vars
               PROVE  Own
    OBVIOUS
  <2>1. ASSUME ~reset, eng.state \in {"read", "write"}
        PROVE  ctl.go /\ ~ctl.orphan /\ (eng.state = "write") = (ctl.fnc = "write")
    BY <2>1 DEF IInv, Reading, Writing, OnBus, Current
  <2>2. ASSUME mem' # mem PROVE ctl.fnc = "read"
    <3>1. ~reset /\ EngineRead
      BY <2>2 DEF Next, NclkEdge, ClkEdge, EngineStep, EngineIdle, EngineReadDone, EngineWrite,
         EngineWriteWait, EngineWriteDone, Grant, BusInit, BusInitEnd, HpsSide, vars
    <3>2. ctl.fnc # "check"
      BY <2>2, <3>1 DEF EngineRead
    <3> QED BY <2>1, <3>1, <3>2 DEF EngineRead, IInv, TypeOK, Registers
  <2> QED BY <2>1, <2>2 DEF Moving
<1>2. Spec => [][Own]_vars
  BY <1>1, InStep, PTL DEF Spec
<1> QED BY <1>2 DEF NoStrayDma


-----------------------------------------------------------------------------
(* The RH11 with its block device implements SectorStore: with a           *)
(* disciplined program, every step of the registers, the engine, the       *)
(* bridge and Main is a step of the store, or none.                        *)
StoreStep == Store!Next \/ UNCHANGED Store!vars

(* What is on its way is the engine's buffer, filled for a block.          *)
LEMMA FlightIsSector ==
    ASSUME IInv, InFlight
    PROVE  flight = wsector /\ wsector.blk \in Blocks /\ flight # Store!None
<1>1. wsector.blk \in Blocks
  <2>1. CASE hps.wr \/ (main.phase # "idle" /\ main.wr)
    BY <2>1 DEF IInv, Carried, TypeOK, BlkTypeOK
  <2>2. CASE eng.state = "write_wait" /\ ~reset
    BY <2>2 DEF IInv, Writing, Sector, TypeOK, Registers
  <2> QED BY <2>1, <2>2 DEF InFlight
<1>2. flight = wsector
  BY DEF flight
<1> QED BY <1>1, <1>2, LastBlockAssumption DEF Blocks, Store!None

(* Nothing is on its way while the engine has no sector to hand over and   *)
(* the bridge is idle.                                                     *)
LEMMA NoFlight ==
    ASSUME IInv, eng.state # "write_wait", hps.state = "idle"
    PROVE  ~InFlight /\ flight = Store!None
BY DEF IInv, Asked, InFlight, flight, Empty, Store!None

(* A step that leaves the command, the data and the flight alone.          *)
LEMMA StepStutters ==
    ASSUME disk' = disk, mem' = mem, cmd' = cmd, wsector' = wsector, InFlight' = InFlight
    PROVE  StoreStep
BY DEF StoreStep, Store!vars, flight

LEMMA HpsStores ==
    ASSUME IInv, IInv', HpsSide
    PROVE  StoreStep
<1>1. UNCHANGED <<ctl, eng, npg, reset, fetch, mem, edge, pipe, wsector>>
  BY DEF HpsSide, HpsEdge, MainNext, MainPoll, MainAck, MainMove, MainEnd
<1>2. cmd' = cmd
  BY <1>1 DEF cmd
<1>3. TypeOK /\ BlkTypeOK /\ Asked /\ Carried /\ EngineLines /\ (~reset => Writing)
  BY DEF IInv, TypeOK
(* What was on its way and is no longer has arrived.                       *)
<1>4. ASSUME disk' = disk, InFlight' => InFlight, InFlight /\ ~InFlight' => disk[wsector.blk] = wsector
      PROVE  StoreStep
  <2>1. CASE InFlight' = InFlight
    BY <1>1, <1>2, <1>4, <2>1, StepStutters
  <2>2. CASE InFlight /\ ~InFlight'
    <3>1. flight = wsector /\ flight # Store!None /\ flight' = Store!None
      BY <2>2, FlightIsSector DEF flight, Empty, Store!None
    <3>2. Store!Settle
      BY <1>1, <1>2, <1>4, <2>2, <3>1 DEF Store!Settle
    <3> QED BY <3>2 DEF StoreStep, Store!Next
  <2>3. InFlight \in BOOLEAN /\ InFlight' \in BOOLEAN
    BY DEF InFlight
  <2> QED BY <1>4, <2>1, <2>2, <2>3
<1>5. CASE HpsEdge(Lines)
  <2>1. hps' = HpsStep(Lines) /\ UNCHANGED <<rsector, main, disk>>
    BY <1>5 DEF HpsEdge
  <2>2. /\ Lines.reset = reset /\ Lines.read_ack = eng.read_ack /\ Lines.write_ack = eng.write_ack
        /\ Lines.write_start = eng.write_start /\ Lines.read_start = ctl.read_start
        /\ ctl.read_start \in BOOLEAN /\ eng.write_start \in BOOLEAN
    BY <1>3, LinesType DEF TypeOK
  <2>3. InFlight' => InFlight
    BY <1>1, <1>3, <2>1, <2>2
       DEF InFlight, Writing, EngineLines, HpsStep, HpsReset, Drain, HpsIdle, HpsBusy, BlkTypeOK, HpsStates
  <2>4. InFlight /\ ~InFlight' => hps.state = "write_xfer" /\ hps'.write_done /\ hps'.lba = hps.lba
    BY <1>1, <1>3, <2>1, <2>2
       DEF InFlight, Asked, Writing, EngineLines, HpsStep, HpsReset, Drain, HpsIdle, HpsBusy, BlkTypeOK,
           HpsStates, sd_ack
  <2>5. InFlight /\ ~InFlight' => disk[wsector.blk] = wsector
    BY <1>1, <1>3, <2>1, <2>4 DEF IInv, Carried
  <2> QED BY <1>4, <2>1, <2>3, <2>5
<1>6. CASE MainPoll(Lines) \/ MainAck(Lines)
  <2>1. disk' = disk /\ InFlight' = InFlight
    BY <1>1, <1>3, <1>6 DEF MainPoll, MainAck, InFlight, BlkTypeOK
  <2> QED BY <1>1, <1>2, <2>1, StepStutters
<1>7. CASE MainMove(Lines)
  <2>1. /\ main.phase = "acked" /\ hps' = hps /\ main'.phase = "acked" /\ main'.wr = main.wr
        /\ disk' = IF main.wr THEN [disk EXCEPT ![main.lba] = wsector] ELSE disk
    BY <1>3, <1>7 DEF MainMove, sd_ack, BlkTypeOK
  <2>2. InFlight' = InFlight
    BY <1>1, <2>1 DEF InFlight
  <2>3. CASE main.wr
    <3>1. InFlight /\ wsector.blk = main.lba
      BY <1>3, <2>1, <2>3 DEF InFlight, Asked, Carried
    <3>2. flight = wsector /\ flight # Store!None /\ flight' = flight
      BY <1>1, <2>2, <3>1, FlightIsSector DEF flight
    <3>3. disk' = [disk EXCEPT ![flight.blk] = flight]
      BY <2>1, <2>3, <3>1, <3>2
    <3> QED BY <1>1, <1>2, <3>2, <3>3 DEF StoreStep, Store!Next, Store!Land
  <2>4. CASE ~main.wr
    BY <1>1, <1>2, <2>1, <2>2, <2>4, StepStutters
  <2> QED BY <2>3, <2>4
<1>8. CASE MainEnd(Lines)
  <2>1. /\ main.phase = "acked" /\ main.moved /\ hps' = hps /\ disk' = disk /\ main'.phase = "idle"
    BY <1>8 DEF MainEnd, sd_ack, IInv, TypeOK, BlkTypeOK
  <2>2. (InFlight' => InFlight) /\ (InFlight /\ ~InFlight' => main.wr)
    BY <1>1, <2>1 DEF InFlight
  <2>3. InFlight /\ ~InFlight' => disk[wsector.blk] = wsector
    BY <1>3, <2>1, <2>2 DEF Carried
  <2> QED BY <1>4, <2>1, <2>2, <2>3
<1> QED BY <1>5, <1>6, <1>7, <1>8 DEF HpsSide, MainNext

LEMMA ClkStores ==
    ASSUME IInv, ClkEdge
    PROVE  StoreStep
<1>1. UNCHANGED <<hps, main, disk, ctl, reset>>
  BY DEF ClkEdge
<1>2. cmd' = cmd
  BY <1>1 DEF cmd
<1>3. CASE reset
  BY <1>1, <1>2, <1>3, StepStutters DEF ClkEdge, InFlight
<1>4. CASE ~reset
  <2>1. /\ TypeOK /\ BlkTypeOK /\ Asked /\ Carried /\ Current /\ EngineLines
        /\ Reading /\ Writing /\ OnBus /\ EngineStep
    BY <1>4 DEF IInv, TypeOK, ClkEdge
  <2>2. eng \in Engine /\ ctl \in Registers
    BY <2>1 DEF TypeOK, Engine
  <2>3. ASSUME eng.state \in {"read", "write"}
        PROVE  /\ cmd.on /\ cmd.fnc = ctl.fnc /\ cmd.gen = ctl.gen /\ cmd.blk = ctl.blk
               /\ ctl.blk = ctl.lat /\ eng.bar = ctl.lat /\ ctl.left # 0
               /\ cmd.blk \in Store!Blocks /\ ~InFlight /\ flight = Store!None
               /\ (eng.state = "write") = (ctl.fnc = "write")
    <3>1. /\ ctl.go /\ ~ctl.clr /\ ctl.blk = ctl.lat /\ eng.bar = ctl.lat /\ hps.state = "idle"
          /\ (eng.state = "write") = (ctl.fnc = "write")
      BY <2>1, <2>3 DEF OnBus, Reading, Writing, Current, EngineLines
    <3>2. ctl.left # 0 /\ ctl.lat \in Store!Blocks
      BY <2>1, <2>2, <3>1 DEF Current, Registers, Blocks, Store!Blocks
    <3> QED BY <1>4, <2>3, <3>1, <3>2, NoFlight DEF cmd
  <2>4. CASE EngineWrite
    <3>1. /\ eng.state = "write" /\ eng'.state = "write_wait" /\ mem' = mem
          /\ wsector' = [blk |-> cmd.blk, gen |-> cmd.gen]
      BY <2>2, <2>3, <2>4 DEF EngineWrite, Engine
    <3>2. ~hps.write_done
      BY <2>1, <3>1 DEF Writing, WriteDown, Down
    <3>3. flight' = [blk |-> cmd.blk, gen |-> cmd.gen]
      BY <1>1, <1>4, <3>1, <3>2 DEF flight, InFlight
    <3> QED BY <1>1, <1>2, <2>3, <3>1, <3>3 DEF StoreStep, Store!Next, Store!Send
  <2>5. CASE EngineRead
    <3>1. eng.state = "read" /\ eng'.state = "read_done" /\ wsector' = wsector
      BY <2>2, <2>5 DEF EngineRead, Engine
    <3>2. InFlight' = InFlight
      BY <1>1, <3>1 DEF InFlight
    <3>3. CASE mem' = mem
      BY <1>1, <1>2, <3>1, <3>2, <3>3, StepStutters
    <3>4. CASE mem' # mem
      <4>1. mem' = [mem EXCEPT ![cmd.blk] = rsector] /\ ctl.fnc # "check"
        BY <2>3, <2>5, <3>1, <3>4, ZenonT(60) DEF EngineRead
      <4>2. cmd.fnc = "read"
        BY <2>2, <2>3, <3>1, <4>1 DEF Registers
      <4>3. rsector = disk[cmd.blk]
        BY <2>1, <2>3, <3>1 DEF Carried, Reading, ReadUp, Up
      <4>4. flight' = flight
        BY <3>1, <3>2 DEF flight
      <4> QED BY <1>1, <1>2, <2>3, <3>1, <4>1, <4>2, <4>3, <4>4 DEF StoreStep, Store!Next, Store!Fetch
    <3> QED BY <3>3, <3>4
  <2>6. CASE EngineWriteWait
    <3>1. mem' = mem /\ wsector' = wsector
      BY <2>6 DEF EngineWriteWait
    <3>2. InFlight' = InFlight
      BY <1>1, <2>1, <2>2, <2>6
         DEF EngineWriteWait, Writing, WriteRising, Rising, InFlight, Engine, sdcard_write_done, BlkTypeOK, Answers
    <3> QED BY <1>1, <1>2, <3>1, <3>2, StepStutters
  <2>7. CASE EngineIdle \/ EngineReadDone \/ EngineWriteDone
    <3>1. mem' = mem /\ wsector' = wsector /\ eng.state # "write_wait" /\ eng'.state # "write_wait"
      BY <2>2, <2>7 DEF EngineIdle, EngineReadDone, EngineWriteDone, Engine
    <3>2. InFlight' = InFlight
      BY <1>1, <3>1 DEF InFlight
    <3> QED BY <1>1, <1>2, <3>1, <3>2, StepStutters
  <2> QED BY <2>1, <2>4, <2>5, <2>6, <2>7 DEF EngineStep
<1> QED BY <1>3, <1>4

(* Field by field, what an update of the command makes of it.              *)
LEMMA CommandUpdate ==
    ASSUME NEW p, NEW c
    PROVE  [cmd EXCEPT !.on = p, !.blk = c] = [on |-> p, fnc |-> cmd.fnc, blk |-> c, gen |-> cmd.gen]
<1>1. PICK s : s = [cmd EXCEPT !.on = p]
  OBVIOUS
<1>2. s = [on |-> p, fnc |-> cmd.fnc, blk |-> cmd.blk, gen |-> cmd.gen]
  BY <1>1 DEF cmd
<1>3. [s EXCEPT !.blk = c] = [on |-> p, fnc |-> cmd.fnc, blk |-> c, gen |-> cmd.gen]
  BY <1>2
<1> QED BY <1>1, <1>3

(* The command ends, whatever becomes of its sector.                       *)
LEMMA StepEnds ==
    ASSUME disk' = disk, mem' = mem, flight' \in {flight, Store!None}, ~cmd'.on,
           cmd'.fnc \in {cmd.fnc, "read"}, cmd'.blk \in {cmd.blk, 0}, cmd'.gen = cmd.gen
    PROVE  StoreStep
<1>1. cmd' = [on |-> FALSE, fnc |-> cmd'.fnc, blk |-> cmd'.blk, gen |-> cmd.gen]
  <2>1. cmd'.on = FALSE
    BY DEF cmd
  <2> QED BY <2>1 DEF cmd
<1>2. PICK f, b : f = cmd'.fnc /\ b = cmd'.blk
  OBVIOUS
<1>3. PICK s : s = [cmd EXCEPT !.on = FALSE]
  OBVIOUS
<1>4. s = [on |-> FALSE, fnc |-> cmd.fnc, blk |-> cmd.blk, gen |-> cmd.gen]
  BY <1>3 DEF cmd
<1>5. PICK t : t = [s EXCEPT !.fnc = f]
  OBVIOUS
<1>6. t = [on |-> FALSE, fnc |-> f, blk |-> cmd.blk, gen |-> cmd.gen]
  BY <1>4, <1>5
<1>7. PICK u : u = [t EXCEPT !.blk = b]
  OBVIOUS
<1>8. u = [on |-> FALSE, fnc |-> f, blk |-> b, gen |-> cmd.gen]
  BY <1>6, <1>7
<1>9. cmd' = [cmd EXCEPT !.on = FALSE, !.fnc = f, !.blk = b]
  BY <1>1, <1>2, <1>3, <1>5, <1>7, <1>8
<1> QED BY <1>2, <1>9 DEF StoreStep, Store!Next, Store!End

(* A sector of a block handed over is where it belongs.                    *)
LEMMA CountedIsThere ==
    ASSUME IInv, ~reset, Counted(ctl')
    PROVE  /\ ctl.blk \in Store!Blocks /\ flight = Store!None
           /\ ctl.fnc = "write" => disk[ctl.blk] = [blk |-> ctl.blk, gen |-> ctl.gen]
           /\ ctl.fnc = "read"  => mem[ctl.blk] = disk[ctl.blk]
<1>1. ctl.go /\ ~ctl.orphan /\ ~eng.nxm /\ IF ctl.fnc = "write" THEN WriteTaken ELSE ReadTaken
  BY DEF Counted
<1>2. TypeOK /\ EngineLines /\ Current /\ Sector /\ Reading /\ Writing
  BY DEF IInv
<1>3. ctl.blk = ctl.lat /\ ctl.lat \in Store!Blocks
  BY <1>1, <1>2 DEF Current, ReadTaken, WriteTaken, TypeOK, Registers, Blocks, Store!Blocks
<1>4. eng.state # "write_wait" /\ hps.state = "idle"
  BY <1>1, <1>2 DEF EngineLines, Reading, Writing, ReadTaken, WriteTaken
<1>5. flight = Store!None
  BY <1>4, NoFlight
<1>6. ctl.fnc = "write" => disk[ctl.blk] = [blk |-> ctl.blk, gen |-> ctl.gen]
  BY <1>1, <1>2, <1>3 DEF EngineLines, Sector, WriteTaken
<1>7. ctl.fnc = "read" => mem[ctl.blk] = disk[ctl.blk]
  BY <1>1, <1>2, <1>3 DEF EngineLines, Sector, ReadTaken
<1> QED BY <1>3, <1>5, <1>6, <1>7

LEMMA NclkStores ==
    ASSUME IInv, NclkEdge, Discipline
    PROVE  StoreStep
<1>1. UNCHANGED <<hps, wsector, main, disk, mem, eng, reset>>
  BY DEF NclkEdge, blkVars
<1>2. flight' = flight /\ InFlight' = InFlight
  BY <1>1 DEF flight, InFlight
<1>3. CASE reset
  <2>1. ctl'.fnc = ctl.fnc /\ ctl'.blk = ctl.blk /\ ctl'.gen = ctl.gen
    BY <1>3, ResetShape DEF NclkEdge, IInv
  <2>2. cmd' = cmd
    BY <1>1, <1>3, <2>1 DEF cmd
  <2> QED BY <1>1, <1>2, <2>2, StepStutters
<1>4. CASE ~reset /\ ctl.clr
  <2>1. Ceased(ctl')
    BY <1>4, NclkShape
  <2> QED BY <1>1, <1>2, <1>4, <2>1, StepEnds DEF Ceased, cmd
<1>5. CASE ~reset /\ ~ctl.clr
  <2>1. cmd = [on |-> ctl.go, fnc |-> ctl.fnc, blk |-> ctl.blk, gen |-> ctl.gen]
    BY <1>5 DEF cmd, IInv, TypeOK, Registers
  <2>2. cmd' = [on |-> ctl'.go /\ ~ctl'.clr, fnc |-> ctl'.fnc, blk |-> ctl'.blk, gen |-> ctl'.gen]
    BY <1>1, <1>5 DEF cmd
  <2>3. CASE SameCommand(ctl, ctl') /\ ~ctl'.clr
    <3>1. cmd' = cmd
      BY <1>1, <1>5, <2>3 DEF SameCommand, cmd
    <3> QED BY <1>1, <1>2, <3>1, StepStutters
  <2>4. CASE (SameCommand(ctl, ctl') /\ ctl'.clr) \/ Ended(ctl')
    BY <1>1, <1>2, <2>1, <2>2, <2>4, StepEnds DEF SameCommand, Ended
  <2>5. CASE Counted(ctl')
    <3>1. /\ cmd.blk \in Store!Blocks /\ flight = Store!None /\ cmd.on
          /\ cmd.fnc = "write" => disk[cmd.blk] = [blk |-> cmd.blk, gen |-> cmd.gen]
          /\ cmd.fnc = "read"  => mem[cmd.blk] = disk[cmd.blk]
      BY <1>5, <2>1, <2>5, CountedIsThere DEF Counted
    <3>2. PICK on \in BOOLEAN : on = (ctl'.go /\ ~ctl'.clr)
      OBVIOUS
    <3>3. cmd' = [cmd EXCEPT !.on = on, !.blk = @ + 1]
      <4>1. PICK b : b = ctl.blk + 1
        OBVIOUS
      <4>2. cmd.fnc = ctl.fnc /\ cmd.gen = ctl.gen /\ cmd.blk + 1 = b
        BY <2>1, <4>1
      <4>3. cmd' = [on |-> on, fnc |-> cmd.fnc, blk |-> b, gen |-> cmd.gen]
        BY <2>2, <2>5, <3>2, <4>1, <4>2 DEF Counted
      <4>4. [cmd EXCEPT !.on = on, !.blk = b] = [on |-> on, fnc |-> cmd.fnc, blk |-> b, gen |-> cmd.gen]
        BY CommandUpdate
      <4> QED BY <4>2, <4>3, <4>4
    <3> QED BY <1>1, <1>2, <3>1, <3>3 DEF StoreStep, Store!Next, Store!Count
  <2>6. CASE Issued(ctl') /\ ~ctl'.clr
    <3>1. /\ ~cmd.on /\ cmd.gen < LastCommand
          /\ cmd' = [on |-> TRUE, fnc |-> ctl'.fnc, blk |-> ctl'.blk, gen |-> cmd.gen + 1]
      BY <2>1, <2>2, <2>6, NclkShape, <1>5 DEF Issued, Registers
    <3>2. ctl'.fnc \in {"read", "write", "check"} /\ ctl'.blk \in Store!Blocks
      BY <2>6 DEF Issued, Blocks, Store!Blocks
    <3> QED BY <1>1, <1>2, <3>1, <3>2 DEF StoreStep, Store!Next, Store!Issue
  <2>7. SameCommand(ctl, ctl') \/ Ended(ctl') \/ Counted(ctl') \/ (Issued(ctl') /\ ~ctl'.clr)
    BY <1>5, NclkShape
  <2> QED BY <2>3, <2>4, <2>5, <2>6, <2>7
<1> QED BY <1>3, <1>4, <1>5

LEMMA BusStores ==
    ASSUME IInv, Grant \/ BusInit \/ BusInitEnd
    PROVE  StoreStep
<1>1. UNCHANGED <<hps, wsector, main, disk, mem, eng, ctl>>
  BY DEF Grant, BusInit, BusInitEnd, blkVars
<1>2. CASE Grant
  <2>1. cmd' = cmd /\ InFlight' = InFlight
    BY <1>1, <1>2 DEF Grant, cmd, InFlight
  <2> QED BY <1>1, <2>1, StepStutters
<1>3. CASE BusInit
  <2>1. reset' = TRUE /\ (InFlight' => InFlight)
    BY <1>1, <1>3 DEF BusInit, InFlight
  <2>2. flight' \in {flight, Store!None}
    BY <1>1, <2>1 DEF flight, Empty, Store!None
  <2>3. ~cmd'.on /\ cmd'.fnc = cmd.fnc /\ cmd'.blk = cmd.blk /\ cmd'.gen = cmd.gen
    BY <1>1, <2>1 DEF cmd
  <2> QED BY <1>1, <2>2, <2>3, StepEnds
<1>4. CASE BusInitEnd
  <2>1. reset /\ ctl.clr /\ eng.state = "idle"
    BY <1>4, ResetShape DEF BusInitEnd, EngineReset, IInv
  <2>2. cmd' = cmd /\ InFlight' = InFlight
    BY <1>1, <2>1 DEF cmd, InFlight
  <2> QED BY <1>1, <2>2, StepStutters
<1> QED BY <1>2, <1>3, <1>4

LEMMA InitStores ==
    ASSUME Init
    PROVE  Store!Init
<1>1. disk = [b \in Store!Blocks |-> [blk |-> b, gen |-> 0]]
  BY DEF Init, BlkInit, Blocks, Store!Blocks
<1>2. mem = [b \in Store!Blocks |-> Store!None]
  BY DEF Init, Blocks, Store!Blocks, Empty, Store!None
<1>3. cmd = [on |-> FALSE, fnc |-> "read", blk |-> 0, gen |-> 0]
  BY DEF Init, cmd
<1>4. flight = Store!None
  BY DEF Init, BlkInit, EngineReset, flight, InFlight, Empty, Store!None
<1> QED BY <1>1, <1>2, <1>3, <1>4 DEF Store!Init

(* The controller with its bridge and its host does what a disk promises:  *)
(* whatever is cleared, reset or retried, one sector at a time is on its   *)
(* way to the disk, no other moves before it has arrived or is lost, and a *)
(* sector counted is there.                                                *)
THEOREM StoreImplemented ==
    ASSUME Discipline
    PROVE  Spec => ImplementsStore
<1>1. Init => Store!Init
  BY InitStores
<1>2. IInv /\ IInv' /\ [Next]_vars => [Store!Next]_(Store!vars)
  <2> SUFFICES ASSUME IInv, IInv', [Next]_vars
               PROVE  StoreStep
    BY DEF StoreStep
  <2>1. CASE UNCHANGED vars
    <3>1. UNCHANGED <<disk, mem, wsector, ctl, reset, eng, hps, main>>
      BY <2>1 DEF vars, blkVars
    <3>2. cmd' = cmd /\ InFlight' = InFlight
      BY <3>1 DEF cmd, InFlight
    <3> QED BY <3>1, <3>2, StepStutters
  <2> QED BY <2>1, NclkStores, ClkStores, BusStores, HpsStores DEF Next
<1> QED BY <1>1, <1>2, InStep, PTL DEF Spec, ImplementsStore, Store!Spec
=============================================================================
