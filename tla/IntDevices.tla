----------------------------- MODULE IntDevices -----------------------------
(***************************************************************************)
(* The interrupt half of every device controller on the bus: the state     *)
(* machine i_idle / i_req / i_wait that each of rtl/kw11l.vhd, kl11.vhd,   *)
(* rh11.vhd, xu.vhd, rk11.vhd, rl11.vhd, tm11.vhd, dr11c.vhd, mncad.vhd,   *)
(* mnckw.vhd, mncdi.vhd and mncdo.vhd clocks on the falling edge (nclk).   *)
(*                                                                         *)
(* A device is a record                                                    *)
(*    i    interrupt_state: "idle", "req" or "wait"                        *)
(*    br   the bus request it drives                                       *)
(*    vec  int_vector: 0, 1 (ivec) or 2 (ovec, ivec2, ivec+4)              *)
(*    ie   the sources whose interrupt-enable bit is set                   *)
(*    rdy  the sources whose condition (done, ready, error) is present     *)
(*    trig the sources whose trigger flip-flop is set                      *)
(* and the operators of this module compute the record one edge leaves     *)
(* behind. All of a process's right-hand sides are the old values, and the *)
(* last assignment to a signal wins, as in the VHDL.                       *)
(***************************************************************************)
EXTENDS Naturals, FiniteSets

Kinds == {"kw11l", "kl11", "rh11", "xu", "rk11", "rl11", "tm11", "ts11",
          "dr11c", "mnc", "mncdo"}

(* The interrupt conditions of each kind; "mnc" is the machine that        *)
(* mncad.vhd, mnckw.vhd and mncdi.vhd share.                               *)
Sources == [k \in Kinds |->
    CASE k = "kl11"  -> {"rx", "tx"}
      [] k = "rk11"  -> {"rdy", "scp"}
      [] k = "dr11c" -> {"a", "b"}
      [] k = "mnc"   -> {"done", "err"}
      [] OTHER       -> {"rdy"}]

(* The conditions that a register write (starting a command, writing a     *)
(* buffer or a flag) takes away. The RH11's are one-cycle pulses, and the  *)
(* KW11-L's tick leaves only with its enable.                              *)
Clearable == [k \in Kinds |->
    CASE k \in {"kw11l", "rh11"} -> {}
      [] k = "rk11"              -> {"rdy"}
      [] OTHER                   -> Sources[k]]

(* The conditions that a register read takes away: RBUF, and the converter *)
(* buffer of the MNC analog input.                                         *)
ReadClears == [k \in Kinds |->
    CASE k = "kl11" -> {"rx"}
      [] k = "mnc"  -> {"done"}
      [] OTHER      -> {}]

(* The conditions that have an enable bit of their own: the RK11's one bit *)
(* enables both of its, and a TS11 command carries its own enable.         *)
Enables == [k \in Kinds |->
    CASE k = "rk11" -> {"rdy"}
      [] k = "ts11" -> {}
      [] OTHER      -> Sources[k]]

(* The groups of conditions that share a register: the KL11 has a receiver *)
(* and a transmitter CSR.                                                  *)
Registers == [k \in Kinds |->
    IF k = "kl11" THEN {{"rx"}, {"tx"}} ELSE {Sources[k]}]

DeviceRecord(k) ==
    [i : {"idle", "req", "wait"}, br : BOOLEAN, vec : 0..2,
     ie : SUBSET Sources[k], rdy : SUBSET Sources[k],
     trig : SUBSET Sources[k]]

-----------------------------------------------------------------------------
(* The three moves the machines are made of.                               *)

(* Raise the request for s and set its trigger; a second trigger falls.    *)
Raise(r, s) == [r EXCEPT !.i = "req", !.br = TRUE, !.trig = {s}]

(* Mutant of Take: the request drops before the vector is up.              *)
TakeWithoutVector(r, v) == [r EXCEPT !.i = "wait", !.br = FALSE]

(* Take the grant: put the vector up and drop the request.                 *)
Take(r, v) == [r EXCEPT !.i = "wait", !.br = FALSE, !.vec = v]

(* Mutant of Hold: it does not wait for the end of the grant.              *)
HoldNot(r, bg) == [r EXCEPT !.i = "idle"]

(* Hold until the arbiter has taken the grant away.                        *)
Hold(r, bg) == IF bg THEN r ELSE [r EXCEPT !.i = "idle"]

(* The condition s is present and enabled.                                 *)
Asks(r, s) == s \in r.ie /\ s \in r.rdy

(* A tick is both the condition and the trigger: the grant consumes it.    *)
(* Withdrawing leaves the request up for one more edge.                    *)
KW11L(r, bg) ==
    CASE r.i = "idle" -> IF Asks(r, "rdy")
                         THEN [r EXCEPT !.i = "req", !.br = TRUE]
                         ELSE [r EXCEPT !.br = FALSE]
      [] r.i = "req"  -> IF r.ie = {}
                         THEN [r EXCEPT !.br = TRUE, !.rdy = {}, !.i = "idle"]
                         ELSE IF bg THEN [Take(r, 1) EXCEPT !.rdy = {}]
                         ELSE [r EXCEPT !.br = TRUE]
      [] OTHER        -> Hold(r, bg)

(* The receiver's branch follows the transmitter's, so it wins when both   *)
(* ask; a source that stops asking loses its trigger.                      *)
KL11(r, bg) ==
    LET rises(s) == Asks(r, s) /\ s \notin r.trig
        stays    == {s \in r.trig : Asks(r, s)}
        pulled   == \E s \in r.trig : s \notin r.ie
        dropped  == IF "tx" \in r.trig THEN "tx" ELSE "rx"
    IN CASE r.i = "idle" -> IF rises("rx") THEN Raise(r, "rx")
                            ELSE IF rises("tx")
                            THEN Raise(r, "tx")
                            ELSE [r EXCEPT !.br = FALSE, !.trig = stays]
         [] r.i = "req"  -> IF ~bg /\ pulled
                            THEN [r EXCEPT !.br = FALSE, !.vec = 0, !.i = "idle",
                                           !.trig = @ \ {dropped}]
                            ELSE IF bg /\ r.trig # {}
                            THEN Take(r, IF "rx" \in r.trig THEN 1 ELSE 2)
                            ELSE r
         [] OTHER        -> Hold(r, bg)

(* The vector goes up with the request; a clear of IE withdraws it even    *)
(* under a grant; the end of the grant clears IE.                          *)
RH11(r, bg) ==
    CASE r.i = "idle" -> IF ~Asks(r, "rdy")
                         THEN [r EXCEPT !.br = FALSE, !.trig = {}]
                         ELSE IF r.trig = {} THEN [Raise(r, "rdy") EXCEPT !.vec = 1]
                         ELSE [r EXCEPT !.br = FALSE]
      [] r.i = "req"  -> IF r.ie = {}
                         THEN [r EXCEPT !.br = FALSE, !.vec = 0, !.trig = {},
                                        !.i = "idle"]
                         ELSE IF bg THEN [r EXCEPT !.br = FALSE, !.i = "wait"]
                         ELSE r
      [] OTHER        -> IF bg THEN r ELSE [r EXCEPT !.i = "idle", !.ie = {}]

(* One condition, one trigger: RL11, and the idle state of XU and TM11.    *)
IdleOnce(r) == IF ~Asks(r, "rdy") THEN [r EXCEPT !.br = FALSE, !.trig = {}]
               ELSE IF r.trig = {} THEN Raise(r, "rdy")
               ELSE [r EXCEPT !.br = FALSE]

XU(r, bg) ==
    CASE r.i = "idle" -> IdleOnce(r)
      [] r.i = "req"  -> IF ~Asks(r, "rdy")
                         THEN [r EXCEPT !.br = FALSE, !.vec = 0, !.i = "idle"]
                         ELSE IF bg THEN Take(r, 1) ELSE r
      [] OTHER        -> Hold(r, bg)

RL11(r, bg) ==
    CASE r.i = "idle" -> IdleOnce(r)
      [] r.i = "req"  -> IF bg THEN Take(r, 1) ELSE r
      [] OTHER        -> Hold(r, bg)

(* In TS11 mode the pending flag is the request, and the grant clears it;  *)
(* ts_int is raised only for a command that asked, so it needs no enable.  *)
TS11(r, bg) ==
    CASE r.i = "idle" -> [r EXCEPT !.i = IF r.rdy # {} THEN "req" ELSE "idle",
                                   !.br = r.rdy # {}]
      [] r.i = "req"  -> IF bg THEN [Take(r, 1) EXCEPT !.rdy = {}] ELSE r
      [] OTHER        -> Hold(r, bg)

(* A seek completion (scp) asks once; ready asks on its rise. Withdrawing  *)
(* leaves the request up and the vector as it was.                         *)
RK11(r, bg) ==
    LET enabled == "rdy" \in r.ie
        seek    == enabled /\ "scp" \in r.rdy
        ready   == enabled /\ "rdy" \in r.rdy
        rises   == ready /\ r.trig = {}
    IN CASE r.i = "idle" -> [r EXCEPT !.i   = IF seek \/ rises THEN "req" ELSE "idle",
                                      !.br  = seek \/ rises,
                                      !.rdy = IF seek THEN @ \ {"scp"} ELSE @,
                                      !.trig = IF ready THEN {"rdy"} ELSE {}]
         [] r.i = "req"  -> IF ~enabled THEN [r EXCEPT !.trig = {}, !.i = "idle"]
                            ELSE IF bg THEN Take(r, 1) ELSE r
         [] OTHER        -> Hold(r, bg)

(* Request A is looked at last, so it wins; each keeps its own trigger.    *)
DR11C(r, bg) ==
    LET rises(s) == Asks(r, s) /\ s \notin r.trig
    IN CASE r.i = "idle" -> IF rises("a") THEN Raise(r, "a")
                            ELSE IF rises("b") THEN Raise(r, "b")
                            ELSE [r EXCEPT !.br = FALSE,
                                           !.trig = {s \in @ : Asks(r, s)}]
         [] r.i = "req"  -> IF bg /\ r.trig # {}
                            THEN Take(r, IF "a" \in r.trig THEN 1 ELSE 2)
                            ELSE r
         [] OTHER        -> Hold(r, bg)

(* mncad, mnckw, mncdi: done (or overflow) before error (or ST).           *)
MNC(r, bg) ==
    LET first == IF Asks(r, "done") THEN "done" ELSE "err"
    IN CASE r.i = "idle" -> IF ~Asks(r, first)
                            THEN [r EXCEPT !.br = FALSE, !.trig = {}]
                            ELSE IF first \notin r.trig THEN Raise(r, first)
                            ELSE [r EXCEPT !.br = FALSE]
         [] r.i = "req"  -> IF bg /\ r.trig # {}
                            THEN Take(r, IF "err" \in r.trig THEN 2 ELSE 1)
                            ELSE r
         [] OTHER        -> Hold(r, bg)

(* No trigger: done is cleared when the grant ends. Clearing IE returns to *)
(* idle whatever the grant did in the same edge.                           *)
MNCDO(r, bg) ==
    CASE r.i = "idle" -> [r EXCEPT !.i = IF Asks(r, "rdy") THEN "req" ELSE "idle",
                                   !.br = Asks(r, "rdy")]
      [] r.i = "req"  -> LET taken == IF bg THEN Take(r, 1) ELSE r
                         IN IF r.ie = {} THEN [taken EXCEPT !.i = "idle"] ELSE taken
      [] OTHER        -> IF bg THEN r ELSE [r EXCEPT !.i = "idle", !.rdy = {}]

Machine(k, r, bg) ==
    CASE k = "kw11l" -> KW11L(r, bg) [] k = "kl11"  -> KL11(r, bg)
      [] k = "rh11"  -> RH11(r, bg)  [] k = "xu"    -> XU(r, bg)
      [] k = "rk11"  -> RK11(r, bg)  [] k = "dr11c" -> DR11C(r, bg)
      [] k = "mnc"   -> MNC(r, bg)   [] k = "mncdo" -> MNCDO(r, bg)
      [] k = "ts11"  -> TS11(r, bg)  [] OTHER       -> RL11(r, bg)

-----------------------------------------------------------------------------
(* Register accesses and the device's own progress, applied to what the    *)
(* interrupt machine made of the record r in the same edge.                *)

Writes(k, r) ==
    UNION {{[ie |-> (r.ie \ g) \cup x, clr |-> y] :
              x \in SUBSET (g \cap Enables[k]), y \in SUBSET (g \cap Clearable[k])} :
             g \in Registers[k]}

Reads(k, r) == {[ie |-> r.ie, clr |-> {s}] : s \in ReadClears[k]}

(* The write a takes away what a device may be requesting for.             *)
Withdraws(k, r, a) == r.ie \ a.ie # {} \/ (k = "xu" /\ a.clr # {})

(* An access writes the enables in a.ie and takes the conditions in a.clr  *)
(* away; NoAccess leaves the registers alone.                              *)
Write(k, r, f, a) ==
    LET w == [f EXCEPT !.ie = a.ie, !.rdy = @ \ a.clr]
    IN CASE k = "kw11l" -> [w EXCEPT !.rdy = IF a.ie = {} THEN {} ELSE @]
         [] k = "xu"    -> [w EXCEPT !.trig = {}]
         [] k = "rk11" /\ a.ie # {} /\ a.clr = {} /\ "rdy" \in r.rdy
                        -> [w EXCEPT !.trig = {"rdy"}]
         [] k = "tm11" /\ r.rdy = {} -> f
         [] OTHER       -> w

(* The conditions ev appear. The RH11's pulse lasts one cycle; a tick or a *)
(* seek completion is recorded only while enabled.                         *)
Progress(k, r, f, ev) ==
    CASE k = "rh11"                -> [f EXCEPT !.rdy = ev]
      [] k = "kw11l" /\ r.ie = {}  -> f
      [] k = "rk11"  /\ r.ie = {}  -> [f EXCEPT !.rdy = @ \cup (ev \ {"scp"})]
      [] OTHER                     -> [f EXCEPT !.rdy = @ \cup ev]

(* Device reset, held for as long as init is asserted on the bus. The      *)
(* vector register is not reset.                                           *)
AfterReset(k) == CASE k = "kl11" -> {"tx"}
                   [] k \in {"rk11", "rl11", "tm11"} -> {"rdy"}
                   [] OTHER      -> {}

DeviceReset(k, r) == [r EXCEPT !.i = "idle", !.br = FALSE, !.ie = {},
                               !.rdy = AfterReset(k), !.trig = {}]
=============================================================================
