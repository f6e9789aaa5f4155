------------------------- MODULE Interrupts_proofs -------------------------
(***************************************************************************)
(* Proofs about Interrupts, for any set of controllers of any kind on any  *)
(* of the three lines, any chain of the arbiters and any length of the bus *)
(* reset: the types; and, for a program that withdraws a request only      *)
(* while it masks that level, one grant at a time, no grant without the    *)
(* processor, no trap without the device that put its vector up and no     *)
(* interrupt taken away by a passive release.                              *)
(***************************************************************************)
EXTENDS Interrupts, FiniteSetTheorems, WellFoundedInduction, TLAPS

-----------------------------------------------------------------------------
(* The devices: what one clock edge does to the interrupt half of a        *)
(* controller, for every kind of controller and every record.              *)

(* A request that stands: nothing but a register write by the program can  *)
(* take it back, and a grant turns it into a vector.                       *)
Firm(k, r) ==
    /\ r.i = "req" /\ r.br
    /\ k \in {"kw11l", "rh11", "mncdo"} => r.ie # {}
    /\ k = "rk11" => "rdy" \in r.ie
    /\ k = "xu"   => Asks(r, "rdy")
    /\ k = "kl11" => r.trig \subseteq r.ie
    /\ k \in {"kl11", "dr11c", "mnc"} => r.trig # {}
    /\ k = "rh11" => r.vec # 0

(* The records a controller can be in. A device requests with its line up  *)
(* and its trigger (or its vector, if that goes up with the request) set;  *)
(* it waits with its line down and its vector up. Three of the machines    *)
(* leave the line up for one edge after a withdrawal.                      *)
Shape(k, r) ==
    /\ r.i = "req" => r.br
    /\ r.i = "req" /\ k \in {"kl11", "dr11c", "mnc"} => r.trig # {}
    /\ r.i = "req" /\ k = "rh11" => r.vec # 0
    /\ r.i = "wait" => ~r.br /\ r.vec # 0
    /\ r.i = "idle" /\ r.br => k \in {"kw11l", "rk11", "mncdo"}

(* What the interrupt machine of a controller of kind k makes, of the      *)
(* record r and under the grant line g: the record f.                      *)
Moves(k, r, g, f) ==
    /\ f \in DeviceRecord(k)
    /\ Shape(k, r) => Shape(k, f)
    /\ f.i = "req" => f.ie = r.ie
    /\ r.i = "idle" => \/ f.i = "idle" /\ ~f.br
                       \/ f.i = "req"  /\ Firm(k, f)
    /\ Firm(k, r) /\ ~g => Firm(k, f)
    /\ Firm(k, r) /\ g  => f.i = "wait"
    /\ Shape(k, r) /\ ~Firm(k, r) /\ r.i = "req" /\ ~g => f.i = "idle"
    /\ r.i = "req" /\ f.i = "wait" => g
    /\ r.i = "wait" /\ g  => f = r
    /\ r.i = "wait" /\ ~g => f.i = "idle" /\ f.br = r.br

LEMMA SourcesOfKind ==
    /\ Sources["kl11"]  = {"rx", "tx"}
    /\ Sources["rk11"]  = {"rdy", "scp"}
    /\ Sources["dr11c"] = {"a", "b"}
    /\ Sources["mnc"]   = {"done", "err"}
    /\ \A k \in {"kw11l", "rh11", "xu", "rl11", "tm11", "ts11", "mncdo"} :
          Sources[k] = {"rdy"}
    BY DEF Sources, Kinds

-----------------------------------------------------------------------------
(* The five turns a machine can take, each of them a move.                 *)

LEMMA IdleTurn ==
    ASSUME NEW k, NEW r, NEW g, NEW f \in DeviceRecord(k),
           r.i = "idle", f.ie = r.ie,
           (f.i = "idle" /\ ~f.br) \/ Firm(k, f)
    PROVE  Moves(k, r, g, f)
    BY DEF Moves, Firm, Shape

LEMMA TakeTurn ==
    ASSUME NEW k, NEW r, NEW g, NEW f \in DeviceRecord(k),
           r.i = "req", g, f.i = "wait", ~f.br, Shape(k, r) => f.vec # 0
    PROVE  Moves(k, r, g, f)
    BY DEF Moves, Firm, Shape

LEMMA StayTurn ==
    ASSUME NEW k, NEW r \in DeviceRecord(k), NEW g,
           r.i = "req", Shape(k, r) => Firm(k, r) /\ ~g
    PROVE  Moves(k, r, g, r)
    BY DEF Moves, Firm, Shape

LEMMA WithdrawTurn ==
    ASSUME NEW k, NEW r, NEW g, NEW f \in DeviceRecord(k),
           r.i = "req", f.i = "idle", ~Firm(k, r),
           f.br => k \in {"kw11l", "rk11", "mncdo"}
    PROVE  Moves(k, r, g, f)
    BY DEF Moves, Firm, Shape

LEMMA WaitTurn ==
    ASSUME NEW k, NEW r, NEW g, NEW f \in DeviceRecord(k),
           r.i = "wait",
           IF g THEN f = r ELSE f.i = "idle" /\ f.br = r.br
    PROVE  Moves(k, r, g, f)
    BY DEF Moves, Firm, Shape

(* The three operators the machines are made of.                           *)
LEMMA TakeFields ==
    ASSUME NEW k, NEW r \in DeviceRecord(k), NEW v \in {1, 2}
    PROVE  /\ Take(r, v) \in DeviceRecord(k)
           /\ Take(r, v).i = "wait"
           /\ ~Take(r, v).br
           /\ Take(r, v).vec = v
           /\ Take(r, v).vec # 0
    <1>1. PICK t : t = [r EXCEPT !.i = "wait", !.br = FALSE]
        OBVIOUS
    <1>2. t \in DeviceRecord(k)
        BY <1>1 DEF DeviceRecord
    <1>3. Take(r, v) = [t EXCEPT !.vec = v]
        BY <1>1 DEF Take
    <1>4. Take(r, v) \in DeviceRecord(k)
        BY <1>2, <1>3 DEF DeviceRecord
    <1>5. Take(r, v).i = "wait" /\ ~Take(r, v).br /\ Take(r, v).vec = v
        BY DEF Take, DeviceRecord
    <1> QED BY <1>4, <1>5

LEMMA RaiseFields ==
    ASSUME NEW k, NEW r \in DeviceRecord(k), NEW s \in Sources[k]
    PROVE  /\ Raise(r, s) \in DeviceRecord(k)
           /\ Raise(r, s).i = "req"
           /\ Raise(r, s).br
           /\ Raise(r, s).vec = r.vec
           /\ Raise(r, s).ie = r.ie
           /\ Raise(r, s).rdy = r.rdy
           /\ Raise(r, s).trig = {s}
    BY DEF Raise, DeviceRecord

(* A withdrawal starts with the line and the vector.                       *)
Dropped(r) == [r EXCEPT !.br = FALSE, !.vec = 0]

LEMMA DroppedFields ==
    ASSUME NEW k, NEW r \in DeviceRecord(k)
    PROVE  /\ Dropped(r) \in DeviceRecord(k)
           /\ ~Dropped(r).br
    <1>1. PICK t : t = [r EXCEPT !.br = FALSE]
        OBVIOUS
    <1>2. t \in DeviceRecord(k) /\ ~t.br
        BY <1>1 DEF DeviceRecord
    <1>3. Dropped(r) = [t EXCEPT !.vec = 0]
        BY <1>1 DEF Dropped
    <1> QED BY <1>2, <1>3 DEF DeviceRecord

LEMMA HoldFields ==
    ASSUME NEW k, NEW r \in DeviceRecord(k), NEW g \in BOOLEAN
    PROVE  /\ Hold(r, g) \in DeviceRecord(k)
           /\ IF g THEN Hold(r, g) = r ELSE Hold(r, g).i = "idle" /\ Hold(r, g).br = r.br
    BY DEF Hold, DeviceRecord

(* A machine whose last branch is the wait for the end of the grant.       *)
LEMMA HoldTurn ==
    ASSUME NEW k, NEW r \in DeviceRecord(k), NEW g \in BOOLEAN, r.i = "wait"
    PROVE  Moves(k, r, g, Hold(r, g))
    <1>1. /\ Hold(r, g) \in DeviceRecord(k)
          /\ IF g THEN Hold(r, g) = r ELSE Hold(r, g).i = "idle" /\ Hold(r, g).br = r.br
        BY HoldFields
    <1> QED BY <1>1, WaitTurn

(* What the machine of each kind makes of a record is a move.              *)
LEMMA KW11LMoves ==
    ASSUME NEW r \in DeviceRecord("kw11l"), NEW g \in BOOLEAN,
           NEW f, f = KW11L(r, g)
    PROVE  Moves("kw11l", r, g, f)
    <1>1. CASE r.i = "idle" /\ Asks(r, "rdy")
        <2>1. f = [r EXCEPT !.i = "req", !.br = TRUE]
            BY <1>1 DEF KW11L
        <2>2. f \in DeviceRecord("kw11l") /\ f.ie = r.ie /\ Firm("kw11l", f)
            BY <1>1, <2>1 DEF DeviceRecord, Firm, Asks
        <2> QED BY <1>1, <2>2, IdleTurn
    <1>2. CASE r.i = "idle" /\ ~Asks(r, "rdy")
        <2>1. f = [r EXCEPT !.br = FALSE]
            BY <1>2 DEF KW11L
        <2>2. f \in DeviceRecord("kw11l") /\ f.ie = r.ie /\ f.i = "idle" /\ ~f.br
            BY <1>2, <2>1 DEF DeviceRecord
        <2> QED BY <1>2, <2>2, IdleTurn
    <1>3. CASE r.i = "req" /\ r.ie = {}
        <2>1. f = [r EXCEPT !.br = TRUE, !.rdy = {}, !.i = "idle"]
            BY <1>3 DEF KW11L
        <2>2. f \in DeviceRecord("kw11l") /\ f.i = "idle"
            BY <2>1 DEF DeviceRecord
        <2>3. ~Firm("kw11l", r)
            BY <1>3 DEF Firm
        <2> QED BY <1>3, <2>2, <2>3, WithdrawTurn
    <1>4. CASE r.i = "req" /\ r.ie # {} /\ g
        <2>1. PICK t : t = Take(r, 1)
            OBVIOUS
        <2>2. f = [t EXCEPT !.rdy = {}]
            BY <1>4, <2>1 DEF KW11L
        <2>3. t \in DeviceRecord("kw11l") /\ t.i = "wait" /\ ~t.br /\ t.vec # 0
            BY <2>1, TakeFields
        <2>4. f \in DeviceRecord("kw11l") /\ f.i = "wait" /\ ~f.br /\ f.vec # 0
            BY <2>2, <2>3 DEF DeviceRecord
        <2> QED BY <1>4, <2>4, TakeTurn
    <1>5. CASE r.i = "req" /\ r.ie # {} /\ ~g
        <2>1. f = [r EXCEPT !.br = TRUE]
            BY <1>5 DEF KW11L
        <2>2. /\ f \in DeviceRecord("kw11l") /\ f.i = "req" /\ f.br
              /\ f.vec = r.vec /\ f.ie = r.ie /\ f.rdy = r.rdy /\ f.trig = r.trig
            BY <1>5, <2>1 DEF DeviceRecord
        <2> QED BY <1>5, <2>2 DEF Moves, Firm, Shape
    <1>6. CASE r.i = "wait"
        <2>1. f = Hold(r, g)
            BY <1>6 DEF KW11L
        <2> QED BY <1>6, <2>1, HoldTurn
    <1> QED BY <1>1, <1>2, <1>3, <1>4, <1>5, <1>6 DEF DeviceRecord

LEMMA KL11Moves ==
    ASSUME NEW r \in DeviceRecord("kl11"), NEW g \in BOOLEAN,
           NEW f, f = KL11(r, g)
    PROVE  Moves("kl11", r, g, f)
    <1> DEFINE stays  == {s \in r.trig : Asks(r, s)}
               pulled == \E s \in r.trig : s \notin r.ie
    <1>1. CASE r.i = "idle" /\ \E s \in {"rx", "tx"} : f = Raise(r, s) /\ Asks(r, s)
        <2>1. PICK s \in {"rx", "tx"} : f = Raise(r, s) /\ Asks(r, s)
            BY <1>1
        <2>2. /\ f \in DeviceRecord("kl11") /\ f.i = "req" /\ f.br
              /\ f.ie = r.ie /\ f.trig = {s}
            BY <2>1, RaiseFields, SourcesOfKind
        <2>3. Firm("kl11", f)
            BY <2>1, <2>2 DEF Firm, Asks
        <2> QED BY <1>1, <2>2, <2>3, IdleTurn
    <1>2. CASE r.i = "idle" /\ f = [r EXCEPT !.br = FALSE, !.trig = stays]
        <2>1. stays \in SUBSET Sources["kl11"]
            BY DEF DeviceRecord
        <2>2. f \in DeviceRecord("kl11") /\ f.ie = r.ie /\ f.i = "idle" /\ ~f.br
            BY <1>2, <2>1 DEF DeviceRecord
        <2> QED BY <1>2, <2>2, IdleTurn
    <1>3. CASE r.i = "req" /\ ~g /\ pulled
        <2>1. PICK t : t = r.trig \ {IF "tx" \in r.trig THEN "tx" ELSE "rx"}
            OBVIOUS
        <2>2. PICK q \in DeviceRecord("kl11") : q = Dropped(r) /\ ~q.br
            BY DroppedFields
        <2>3. f = [q EXCEPT !.i = "idle", !.trig = t]
            BY <1>3, <2>1, <2>2 DEF KL11, Dropped
        <2>4. f \in DeviceRecord("kl11") /\ f.i = "idle" /\ ~f.br
            <3>1. t \in SUBSET Sources["kl11"]
                BY <2>1 DEF DeviceRecord
            <3> QED BY <2>2, <2>3, <3>1 DEF DeviceRecord
        <2>5. ~Firm("kl11", r)
            BY <1>3 DEF Firm
        <2> QED BY <1>3, <2>4, <2>5, WithdrawTurn
    <1>4. CASE r.i = "req" /\ g /\ r.trig # {}
        <2>1. PICK v \in {1, 2} : f = Take(r, v)
            BY <1>4 DEF KL11
        <2>2. f \in DeviceRecord("kl11") /\ f.i = "wait" /\ ~f.br /\ f.vec # 0
            BY <2>1, TakeFields
        <2> QED BY <1>4, <2>2, TakeTurn
    <1>5. CASE r.i = "req" /\ ~(~g /\ pulled) /\ ~(g /\ r.trig # {})
        <2>1. f = r
            BY <1>5 DEF KL11
        <2>2. Shape("kl11", r) => Firm("kl11", r) /\ ~g
            BY <1>5 DEF Shape, Firm
        <2> QED BY <1>5, <2>1, <2>2, StayTurn
    <1>6. CASE r.i = "wait"
        <2>1. f = Hold(r, g)
            BY <1>6 DEF KL11
        <2> QED BY <1>6, <2>1, HoldTurn
    <1>7. r.i = "idle" => \/ \E s \in {"rx", "tx"} : f = Raise(r, s) /\ Asks(r, s)
                          \/ f = [r EXCEPT !.br = FALSE, !.trig = stays]
        BY DEF KL11
    <1> QED BY <1>1, <1>2, <1>3, <1>4, <1>5, <1>6, <1>7 DEF DeviceRecord

LEMMA RH11Moves ==
    ASSUME NEW r \in DeviceRecord("rh11"), NEW g \in BOOLEAN,
           NEW f, f = RH11(r, g)
    PROVE  Moves("rh11", r, g, f)
    <1>1. CASE r.i = "idle" /\ Asks(r, "rdy") /\ r.trig = {}
        <2>1. PICK t : t = Raise(r, "rdy")
            OBVIOUS
        <2>2. f = [t EXCEPT !.vec = 1]
            BY <1>1, <2>1 DEF RH11
        <2>3. t \in DeviceRecord("rh11") /\ t.i = "req" /\ t.br /\ t.ie = r.ie
            BY <2>1, RaiseFields, SourcesOfKind
        <2>4. f \in DeviceRecord("rh11") /\ f.i = "req" /\ f.br /\ f.ie = r.ie /\ f.vec = 1
            BY <2>2, <2>3 DEF DeviceRecord
        <2>5. Firm("rh11", f)
            BY <1>1, <2>4 DEF Firm, Asks
        <2> QED BY <1>1, <2>4, <2>5, IdleTurn
    <1>2. CASE r.i = "idle" /\ ~(Asks(r, "rdy") /\ r.trig = {})
        <2>1. \/ f = [r EXCEPT !.br = FALSE, !.trig = {}]
              \/ f = [r EXCEPT !.br = FALSE]
            BY <1>2 DEF RH11
        <2>2. f \in DeviceRecord("rh11") /\ f.ie = r.ie /\ f.i = "idle" /\ ~f.br
            BY <1>2, <2>1 DEF DeviceRecord
        <2> QED BY <1>2, <2>2, IdleTurn
    <1>3. CASE r.i = "req" /\ r.ie = {}
        <2>1. PICK q \in DeviceRecord("rh11") : q = Dropped(r) /\ ~q.br
            BY DroppedFields
        <2>2. f \in DeviceRecord("rh11") /\ f.i = "idle" /\ ~f.br
            <3>1. f = [q EXCEPT !.trig = {}, !.i = "idle"]
                BY <1>3, <2>1 DEF RH11, Dropped
            <3> QED BY <2>1, <3>1 DEF DeviceRecord
        <2>3. ~Firm("rh11", r)
            BY <1>3 DEF Firm
        <2> QED BY <1>3, <2>2, <2>3, WithdrawTurn
    <1>4. CASE r.i = "req" /\ r.ie # {} /\ g
        <2>1. f = [r EXCEPT !.br = FALSE, !.i = "wait"]
            BY <1>4 DEF RH11
        <2>2. f \in DeviceRecord("rh11") /\ f.i = "wait" /\ ~f.br /\ f.vec = r.vec
            BY <2>1 DEF DeviceRecord
        <2>3. Shape("rh11", r) => f.vec # 0
            BY <1>4, <2>2 DEF Shape
        <2> QED BY <1>4, <2>2, <2>3, TakeTurn
    <1>5. CASE r.i = "req" /\ r.ie # {} /\ ~g
        <2>1. f = r
            BY <1>5 DEF RH11
        <2>2. Shape("rh11", r) => Firm("rh11", r)
            BY <1>5 DEF Shape, Firm
        <2> QED BY <1>5, <2>1, <2>2, StayTurn
    <1>6. CASE r.i = "wait"
        <2>1. f = IF g THEN r ELSE [r EXCEPT !.i = "idle", !.ie = {}]
            BY <1>6 DEF RH11
        <2>2. f \in DeviceRecord("rh11") /\ IF g THEN f = r ELSE f.i = "idle" /\ f.br = r.br
            BY <2>1 DEF DeviceRecord
        <2> QED BY <1>6, <2>2, WaitTurn
    <1> QED BY <1>1, <1>2, <1>3, <1>4, <1>5, <1>6 DEF DeviceRecord

LEMMA IdleOnceMoves ==
    ASSUME NEW k \in {"xu", "rl11", "tm11"}, NEW r \in DeviceRecord(k),
           NEW g \in BOOLEAN, NEW f, f = IdleOnce(r), r.i = "idle"
    PROVE  Moves(k, r, g, f)
    <1>1. CASE Asks(r, "rdy") /\ r.trig = {}
        <2>1. f = Raise(r, "rdy")
            BY <1>1 DEF IdleOnce
        <2>2. /\ f \in DeviceRecord(k) /\ f.i = "req" /\ f.br
              /\ f.ie = r.ie /\ f.rdy = r.rdy
            BY <2>1, RaiseFields, SourcesOfKind
        <2>3. Firm(k, f)
            BY <1>1, <2>2 DEF Firm, Asks
        <2> QED BY <2>2, <2>3, IdleTurn
    <1>2. CASE ~(Asks(r, "rdy") /\ r.trig = {})
        <2>1. \/ f = [r EXCEPT !.br = FALSE, !.trig = {}]
              \/ f = [r EXCEPT !.br = FALSE]
            BY <1>2 DEF IdleOnce
        <2>2. f \in DeviceRecord(k) /\ f.ie = r.ie /\ f.i = "idle" /\ ~f.br
            BY <2>1 DEF DeviceRecord
        <2> QED BY <2>2, IdleTurn
    <1> QED BY <1>1, <1>2

LEMMA XUMoves ==
    ASSUME NEW r \in DeviceRecord("xu"), NEW g \in BOOLEAN,
           NEW f, f = XU(r, g)
    PROVE  Moves("xu", r, g, f)
    <1>1. CASE r.i = "idle"
        BY <1>1, IdleOnceMoves DEF XU
    <1>2. CASE r.i = "req" /\ ~Asks(r, "rdy")
        <2>1. PICK q \in DeviceRecord("xu") : q = Dropped(r) /\ ~q.br
            BY DroppedFields
        <2>2. f \in DeviceRecord("xu") /\ f.i = "idle" /\ ~f.br
            <3>1. f = [q EXCEPT !.i = "idle"]
                BY <1>2, <2>1 DEF XU, Dropped
            <3> QED BY <2>1, <3>1 DEF DeviceRecord
        <2>3. ~Firm("xu", r)
            BY <1>2 DEF Firm
        <2> QED BY <1>2, <2>2, <2>3, WithdrawTurn
    <1>3. CASE r.i = "req" /\ Asks(r, "rdy") /\ g
        <2>1. f = Take(r, 1)
            BY <1>3 DEF XU
        <2>2. f \in DeviceRecord("xu") /\ f.i = "wait" /\ ~f.br /\ f.vec # 0
            BY <2>1, TakeFields
        <2> QED BY <1>3, <2>2, TakeTurn
    <1>4. CASE r.i = "req" /\ Asks(r, "rdy") /\ ~g
        <2>1. f = r
            BY <1>4 DEF XU
        <2>2. Shape("xu", r) => Firm("xu", r)
            BY <1>4 DEF Shape, Firm
        <2> QED BY <1>4, <2>1, <2>2, StayTurn
    <1>5. CASE r.i = "wait"
        <2>1. f = Hold(r, g)
            BY <1>5 DEF XU
        <2> QED BY <1>5, <2>1, HoldTurn
    <1> QED BY <1>1, <1>2, <1>3, <1>4, <1>5 DEF DeviceRecord

LEMMA RL11Moves ==
    ASSUME NEW k \in {"rl11", "tm11"}, NEW r \in DeviceRecord(k),
           NEW g \in BOOLEAN, NEW f, f = RL11(r, g)
    PROVE  Moves(k, r, g, f)
    <1>1. CASE r.i = "idle"
        BY <1>1, IdleOnceMoves DEF RL11
    <1>2. CASE r.i = "req" /\ g
        <2>1. f = Take(r, 1)
            BY <1>2 DEF RL11
        <2>2. f \in DeviceRecord(k) /\ f.i = "wait" /\ ~f.br /\ f.vec # 0
            BY <2>1, TakeFields
        <2> QED BY <1>2, <2>2, TakeTurn
    <1>3. CASE r.i = "req" /\ ~g
        <2>1. f = r
            BY <1>3 DEF RL11
        <2>2. Shape(k, r) => Firm(k, r)
            BY <1>3 DEF Shape, Firm
        <2> QED BY <1>3, <2>1, <2>2, StayTurn
    <1>4. CASE r.i = "wait"
        <2>1. f = Hold(r, g)
            BY <1>4 DEF RL11
        <2> QED BY <1>4, <2>1, HoldTurn
    <1> QED BY <1>1, <1>2, <1>3, <1>4 DEF DeviceRecord

LEMMA TS11Moves ==
    ASSUME NEW r \in DeviceRecord("ts11"), NEW g \in BOOLEAN,
           NEW f, f = TS11(r, g)
    PROVE  Moves("ts11", r, g, f)
    <1>1. CASE r.i = "idle"
        <2>1. f = [r EXCEPT !.i = IF r.rdy # {} THEN "req" ELSE "idle",
                            !.br = r.rdy # {}]
            BY <1>1 DEF TS11
        <2>2. /\ f \in DeviceRecord("ts11") /\ f.ie = r.ie
              /\ IF r.rdy # {} THEN f.i = "req" /\ f.br ELSE f.i = "idle" /\ ~f.br
            BY <2>1 DEF DeviceRecord
        <2>3. f.i = "req" => Firm("ts11", f)
            BY <2>2 DEF Firm
        <2> QED BY <1>1, <2>2, <2>3, IdleTurn
    <1>2. CASE r.i = "req" /\ g
        <2>1. PICK t : t = Take(r, 1)
            OBVIOUS
        <2>2. f = [t EXCEPT !.rdy = {}]
            BY <1>2, <2>1 DEF TS11
        <2>3. t \in DeviceRecord("ts11") /\ t.i = "wait" /\ ~t.br /\ t.vec # 0
            BY <2>1, TakeFields
        <2>4. f \in DeviceRecord("ts11") /\ f.i = "wait" /\ ~f.br /\ f.vec # 0
            BY <2>2, <2>3 DEF DeviceRecord
        <2> QED BY <1>2, <2>4, TakeTurn
    <1>3. CASE r.i = "req" /\ ~g
        <2>1. f = r
            BY <1>3 DEF TS11
        <2>2. Shape("ts11", r) => Firm("ts11", r)
            BY <1>3 DEF Shape, Firm
        <2> QED BY <1>3, <2>1, <2>2, StayTurn
    <1>4. CASE r.i = "wait"
        <2>1. f = Hold(r, g)
            BY <1>4 DEF TS11
        <2> QED BY <1>4, <2>1, HoldTurn
    <1> QED BY <1>1, <1>2, <1>3, <1>4 DEF DeviceRecord

LEMMA RK11Moves ==
    ASSUME NEW r \in DeviceRecord("rk11"), NEW g \in BOOLEAN,
           NEW f, f = RK11(r, g)
    PROVE  Moves("rk11", r, g, f)
    <1> DEFINE enabled == "rdy" \in r.ie
               seek    == enabled /\ "scp" \in r.rdy
               ready   == enabled /\ "rdy" \in r.rdy
               asks    == seek \/ (ready /\ r.trig = {})
    <1>1. CASE r.i = "idle"
        <2>1. PICK t : t = [r EXCEPT !.i  = IF asks THEN "req" ELSE "idle",
                                     !.br = asks]
            OBVIOUS
        <2>2. /\ t \in DeviceRecord("rk11") /\ t.ie = r.ie /\ t.rdy = r.rdy
              /\ IF asks THEN t.i = "req" /\ t.br ELSE t.i = "idle" /\ ~t.br
            BY <2>1 DEF DeviceRecord
        <2>3. f = [t EXCEPT !.rdy  = IF seek THEN r.rdy \ {"scp"} ELSE r.rdy,
                            !.trig = IF ready THEN {"rdy"} ELSE {}]
            BY <1>1, <2>1 DEF RK11
        <2>4. /\ (IF seek THEN r.rdy \ {"scp"} ELSE r.rdy) \in SUBSET Sources["rk11"]
              /\ (IF ready THEN {"rdy"} ELSE {}) \in SUBSET Sources["rk11"]
            BY SourcesOfKind DEF DeviceRecord
        <2>5. f \in DeviceRecord("rk11") /\ f.ie = t.ie /\ f.i = t.i /\ f.br = t.br
            <3> HIDE DEF seek, ready
            <3> QED BY <2>2, <2>3, <2>4 DEF DeviceRecord
        <2>6. f.i = "req" => Firm("rk11", f)
            BY <2>2, <2>5 DEF Firm
        <2> QED BY <1>1, <2>2, <2>5, <2>6, IdleTurn
    <1>2. CASE r.i = "req" /\ ~enabled
        <2>1. f = [r EXCEPT !.trig = {}, !.i = "idle"]
            BY <1>2 DEF RK11
        <2>2. f \in DeviceRecord("rk11") /\ f.i = "idle"
            BY <2>1 DEF DeviceRecord
        <2>3. ~Firm("rk11", r)
            BY <1>2 DEF Firm
        <2> QED BY <1>2, <2>2, <2>3, WithdrawTurn
    <1>3. CASE r.i = "req" /\ enabled /\ g
        <2>1. f = Take(r, 1)
            BY <1>3 DEF RK11
        <2>2. f \in DeviceRecord("rk11") /\ f.i = "wait" /\ ~f.br /\ f.vec # 0
            BY <2>1, TakeFields
        <2> QED BY <1>3, <2>2, TakeTurn
    <1>4. CASE r.i = "req" /\ enabled /\ ~g
        <2>1. f = r
            BY <1>4 DEF RK11
        <2>2. Shape("rk11", r) => Firm("rk11", r)
            BY <1>4 DEF Shape, Firm
        <2> QED BY <1>4, <2>1, <2>2, StayTurn
    <1>5. CASE r.i = "wait"
        <2>1. f = Hold(r, g)
            BY <1>5 DEF RK11
        <2> QED BY <1>5, <2>1, HoldTurn
    <1> QED BY <1>1, <1>2, <1>3, <1>4, <1>5 DEF DeviceRecord

(* DR11-C and the MNC modules: a request stands once its trigger is set.   *)
LEMMA TriggerTurn ==
    ASSUME NEW k \in {"dr11c", "mnc"}, NEW r \in DeviceRecord(k), NEW g \in BOOLEAN,
           NEW s \in Sources[k], NEW f, f = Raise(r, s), r.i = "idle"
    PROVE  Moves(k, r, g, f)
    <1>1. /\ f \in DeviceRecord(k) /\ f.i = "req" /\ f.br
          /\ f.ie = r.ie /\ f.trig = {s}
        BY RaiseFields
    <1>2. Firm(k, f)
        BY <1>1 DEF Firm
    <1> QED BY <1>1, <1>2, IdleTurn

LEMMA GrantedTurn ==
    ASSUME NEW k \in {"dr11c", "mnc"}, NEW r \in DeviceRecord(k), NEW g \in BOOLEAN,
           NEW v \in {1, 2}, r.i = "req",
           NEW f, f = IF g /\ r.trig # {} THEN Take(r, v) ELSE r
    PROVE  Moves(k, r, g, f)
    <1>1. CASE g /\ r.trig # {}
        <2>1. f \in DeviceRecord(k) /\ f.i = "wait" /\ ~f.br /\ f.vec # 0
            BY <1>1, TakeFields
        <2> QED BY <1>1, <2>1, TakeTurn
    <1>2. CASE ~(g /\ r.trig # {})
        <2>1. Shape(k, r) => Firm(k, r) /\ ~g
            BY <1>2 DEF Shape, Firm
        <2> QED BY <1>2, <2>1, StayTurn
    <1> QED BY <1>1, <1>2

LEMMA DR11CMoves ==
    ASSUME NEW r \in DeviceRecord("dr11c"), NEW g \in BOOLEAN,
           NEW f, f = DR11C(r, g)
    PROVE  Moves("dr11c", r, g, f)
    <1> DEFINE stays == {s \in r.trig : Asks(r, s)}
    <1>1. CASE r.i = "idle"
        <2>1. \/ \E s \in {"a", "b"} : f = Raise(r, s)
              \/ f = [r EXCEPT !.br = FALSE, !.trig = stays]
            BY <1>1 DEF DR11C
        <2>2. ASSUME f = [r EXCEPT !.br = FALSE, !.trig = stays]
              PROVE  Moves("dr11c", r, g, f)
            <3>1. stays \in SUBSET Sources["dr11c"]
                BY DEF DeviceRecord
            <3>2. f \in DeviceRecord("dr11c") /\ f.ie = r.ie /\ f.i = "idle" /\ ~f.br
                BY <1>1, <2>2, <3>1 DEF DeviceRecord
            <3> QED BY <1>1, <3>2, IdleTurn
        <2> QED BY <1>1, <2>1, <2>2, TriggerTurn, SourcesOfKind
    <1>2. CASE r.i = "req"
        <2>1. \E v \in {1, 2} : f = IF g /\ r.trig # {} THEN Take(r, v) ELSE r
            BY <1>2 DEF DR11C
        <2> QED BY <1>2, <2>1, GrantedTurn
    <1>3. CASE r.i = "wait"
        <2>1. f = Hold(r, g)
            BY <1>3 DEF DR11C
        <2> QED BY <1>3, <2>1, HoldTurn
    <1> QED BY <1>1, <1>2, <1>3 DEF DeviceRecord

LEMMA MNCMoves ==
    ASSUME NEW r \in DeviceRecord("mnc"), NEW g \in BOOLEAN,
           NEW f, f = MNC(r, g)
    PROVE  Moves("mnc", r, g, f)
    <1>1. CASE r.i = "idle"
        <2>1. \/ \E s \in {"done", "err"} : f = Raise(r, s)
              \/ f = [r EXCEPT !.br = FALSE, !.trig = {}]
              \/ f = [r EXCEPT !.br = FALSE]
            BY <1>1 DEF MNC
        <2>2. ASSUME \/ f = [r EXCEPT !.br = FALSE, !.trig = {}]
                     \/ f = [r EXCEPT !.br = FALSE]
              PROVE  Moves("mnc", r, g, f)
            <3>1. f \in DeviceRecord("mnc") /\ f.ie = r.ie /\ f.i = "idle" /\ ~f.br
                BY <1>1, <2>2 DEF DeviceRecord
            <3> QED BY <1>1, <3>1, IdleTurn
        <2> QED BY <1>1, <2>1, <2>2, TriggerTurn, SourcesOfKind
    <1>2. CASE r.i = "req"
        <2>1. \E v \in {1, 2} : f = IF g /\ r.trig # {} THEN Take(r, v) ELSE r
            BY <1>2 DEF MNC
        <2> QED BY <1>2, <2>1, GrantedTurn
    <1>3. CASE r.i = "wait"
        <2>1. f = Hold(r, g)
            BY <1>3 DEF MNC
        <2> QED BY <1>3, <2>1, HoldTurn
    <1> QED BY <1>1, <1>2, <1>3 DEF DeviceRecord

LEMMA MNCDOMoves ==
    ASSUME NEW r \in DeviceRecord("mncdo"), NEW g \in BOOLEAN,
           NEW f, f = MNCDO(r, g)
    PROVE  Moves("mncdo", r, g, f)
    <1>1. CASE r.i = "idle"
        <2>1. f = [r EXCEPT !.i = IF Asks(r, "rdy") THEN "req" ELSE "idle",
                            !.br = Asks(r, "rdy")]
            BY <1>1 DEF MNCDO
        <2>2. /\ f \in DeviceRecord("mncdo") /\ f.ie = r.ie
              /\ IF Asks(r, "rdy") THEN f.i = "req" /\ f.br ELSE f.i = "idle" /\ ~f.br
            BY <2>1 DEF DeviceRecord, Asks
        <2>3. f.i = "req" => Firm("mncdo", f)
            BY <2>2 DEF Firm, Asks
        <2> QED BY <1>1, <2>2, <2>3, IdleTurn
    <1>2. CASE r.i = "req" /\ r.ie = {}
        <2>1. PICK t : t = IF g THEN Take(r, 1) ELSE r
            OBVIOUS
        <2>2. f = [t EXCEPT !.i = "idle"]
            BY <1>2, <2>1 DEF MNCDO
        <2>3. t \in DeviceRecord("mncdo")
            BY <2>1, TakeFields
        <2>4. f \in DeviceRecord("mncdo") /\ f.i = "idle"
            BY <2>2, <2>3 DEF DeviceRecord
        <2>5. ~Firm("mncdo", r)
            BY <1>2 DEF Firm
        <2> QED BY <1>2, <2>4, <2>5, WithdrawTurn
    <1>3. CASE r.i = "req" /\ r.ie # {} /\ g
        <2>1. f = Take(r, 1)
            BY <1>3 DEF MNCDO
        <2>2. f \in DeviceRecord("mncdo") /\ f.i = "wait" /\ ~f.br /\ f.vec # 0
            BY <2>1, TakeFields
        <2> QED BY <1>3, <2>2, TakeTurn
    <1>4. CASE r.i = "req" /\ r.ie # {} /\ ~g
        <2>1. f = r
            BY <1>4 DEF MNCDO
        <2>2. Shape("mncdo", r) => Firm("mncdo", r)
            BY <1>4 DEF Shape, Firm
        <2> QED BY <1>4, <2>1, <2>2, StayTurn
    <1>5. CASE r.i = "wait"
        <2>1. f = IF g THEN r ELSE [r EXCEPT !.i = "idle", !.rdy = {}]
            BY <1>5 DEF MNCDO
        <2>2. f \in DeviceRecord("mncdo") /\ IF g THEN f = r ELSE f.i = "idle" /\ f.br = r.br
            BY <2>1 DEF DeviceRecord
        <2> QED BY <1>5, <2>2, WaitTurn
    <1> QED BY <1>1, <1>2, <1>3, <1>4, <1>5 DEF DeviceRecord

(* One edge of any controller's machine.                                   *)
LEMMA MachineMoves ==
    ASSUME NEW k \in Kinds, NEW r \in DeviceRecord(k), NEW g \in BOOLEAN
    PROVE  Moves(k, r, g, Machine(k, r, g))
    <1> DEFINE f == Machine(k, r, g)
    <1>1. CASE k = "kw11l"
        BY <1>1, KW11LMoves DEF Machine
    <1>2. CASE k = "kl11"
        BY <1>2, KL11Moves DEF Machine
    <1>3. CASE k = "rh11"
        BY <1>3, RH11Moves DEF Machine
    <1>4. CASE k = "xu"
        BY <1>4, XUMoves DEF Machine
    <1>5. CASE k = "rk11"
        BY <1>5, RK11Moves DEF Machine
    <1>6. CASE k = "dr11c"
        BY <1>6, DR11CMoves DEF Machine
    <1>7. CASE k = "mnc"
        BY <1>7, MNCMoves DEF Machine
    <1>8. CASE k = "mncdo"
        BY <1>8, MNCDOMoves DEF Machine
    <1>9. CASE k = "ts11"
        BY <1>9, TS11Moves DEF Machine
    <1>10. CASE k \in {"rl11", "tm11"}
        <2>1. f = RL11(r, g)
            BY <1>10 DEF Machine
        <2> QED BY <1>10, <2>1, RL11Moves
    <1> QED BY <1>1, <1>2, <1>3, <1>4, <1>5, <1>6, <1>7, <1>8, <1>9, <1>10 DEF Kinds

-----------------------------------------------------------------------------
(* The kinds of controller that look at their enable (or their condition)  *)
(* again while they request: the program can withdraw their requests.      *)
Withdrawing == {"kw11l", "kl11", "rh11", "xu", "rk11", "mncdo"}

(* A register access a leaves the state, the line and the vector alone.    *)
Written(k, a, f, w) ==
    /\ w \in DeviceRecord(k)
    /\ w.i = f.i /\ w.br = f.br /\ w.vec = f.vec
    /\ k \in {"kl11", "dr11c", "mnc"} => w.trig = f.trig
    /\ \/ w.ie = f.ie /\ w.rdy = f.rdy
       \/ w.ie = a.ie /\ (k = "xu" => w.rdy = f.rdy \ a.clr)

(* A condition that appears leaves everything but the conditions alone.    *)
Progressed(k, f, p) ==
    /\ p \in DeviceRecord(k)
    /\ p.i = f.i /\ p.br = f.br /\ p.vec = f.vec
    /\ p.ie = f.ie /\ p.trig = f.trig
    /\ k = "xu" => f.rdy \subseteq p.rdy

LEMMA WriteKeeps ==
    ASSUME NEW k \in Kinds, NEW r \in DeviceRecord(k), NEW f \in DeviceRecord(k),
           NEW a, a.ie \in SUBSET Sources[k],
           NEW w, w = Write(k, r, f, a)
    PROVE  Written(k, a, f, w)
    <1>1. PICK b : b = [f EXCEPT !.ie = a.ie, !.rdy = f.rdy \ a.clr]
        OBVIOUS
    <1>2. /\ b \in DeviceRecord(k)
          /\ b.i = f.i /\ b.br = f.br /\ b.vec = f.vec /\ b.trig = f.trig
          /\ b.ie = a.ie /\ b.rdy = f.rdy \ a.clr
        <2>1. f.rdy \ a.clr \in SUBSET Sources[k]
            BY DEF DeviceRecord
        <2> QED BY <1>1, <2>1 DEF DeviceRecord
    <1>3. CASE k = "kw11l"
        <2>1. w = [b EXCEPT !.rdy = IF a.ie = {} THEN {} ELSE b.rdy]
            BY <1>1, <1>3 DEF Write
        <2> QED BY <1>2, <1>3, <2>1 DEF DeviceRecord, Written
    <1>4. CASE k = "xu"
        <2>1. w = [b EXCEPT !.trig = {}]
            BY <1>1, <1>4 DEF Write
        <2> QED BY <1>2, <1>4, <2>1 DEF DeviceRecord, Written
    <1>5. CASE k = "rk11"
        <2>1. w = [b EXCEPT !.trig = {"rdy"}] \/ w = b
            BY <1>1, <1>5 DEF Write
        <2>2. {"rdy"} \in SUBSET Sources[k]
            BY <1>5, SourcesOfKind
        <2> QED BY <1>2, <1>5, <2>1, <2>2 DEF DeviceRecord, Written
    <1>6. CASE k = "tm11"
        <2>1. w = f \/ w = b
            BY <1>1, <1>6 DEF Write
        <2> QED BY <1>2, <1>6, <2>1 DEF Written
    <1>7. CASE k \notin {"kw11l", "xu", "rk11", "tm11"}
        <2>1. w = b
            BY <1>1, <1>7 DEF Write
        <2> QED BY <1>2, <1>7, <2>1 DEF Written
    <1> QED BY <1>3, <1>4, <1>5, <1>6, <1>7

LEMMA ProgressKeeps ==
    ASSUME NEW k \in Kinds, NEW r, NEW f \in DeviceRecord(k),
           NEW ev \in SUBSET Sources[k],
           NEW p, p = Progress(k, r, f, ev)
    PROVE  Progressed(k, f, p)
    <1>1. PICK y : p = [f EXCEPT !.rdy = y] \/ p = f
        BY DEF Progress
    <1>2. CASE p = f
        BY <1>2 DEF Progressed
    <1>3. CASE p # f
        <2>1. \E z \in {ev, f.rdy \cup (ev \ {"scp"}), f.rdy \cup ev} :
                  p = [f EXCEPT !.rdy = z] /\ (k = "xu" => f.rdy \subseteq z)
            BY <1>3 DEF Progress
        <2>2. PICK z \in SUBSET Sources[k] :
                  p = [f EXCEPT !.rdy = z] /\ (k = "xu" => f.rdy \subseteq z)
            BY <2>1 DEF DeviceRecord
        <2> QED BY <2>2 DEF DeviceRecord, Progressed
    <1> QED BY <1>2, <1>3

(* A whole edge: machine, access, conditions. w says that the access takes *)
(* a request back.                                                         *)
Edge(k, r, g, w, f) ==
    /\ f \in DeviceRecord(k)
    /\ Shape(k, r) => Shape(k, f)
    /\ r.i = "idle" => \/ f.i = "idle" /\ ~f.br
                       \/ f.i = "req"  /\ f.br /\ (Firm(k, f) \/ w)
    /\ Firm(k, r) /\ ~g => f.i = "req" /\ f.br /\ (Firm(k, f) \/ w)
    /\ Firm(k, r) /\ g  => f.i = "wait"
    /\ Shape(k, r) /\ ~Firm(k, r) /\ r.i = "req" /\ ~g => f.i = "idle"
    /\ r.i = "req" /\ f.i = "wait" => g
    /\ r.i = "wait" /\ g  => f.i = "wait" /\ f.br = r.br /\ f.vec = r.vec
    /\ r.i = "wait" /\ ~g => f.i = "idle" /\ f.br = r.br

LEMMA MoveIsEdge ==
    ASSUME NEW k \in Kinds, NEW r \in DeviceRecord(k), NEW g \in BOOLEAN,
           NEW m, Moves(k, r, g, m),
           NEW w \in BOOLEAN, NEW f \in DeviceRecord(k),
           f.i = m.i, f.br = m.br, f.vec = m.vec,
           k \in {"kl11", "dr11c", "mnc"} => f.trig = m.trig,
           Firm(k, m) => Firm(k, f) \/ w
    PROVE  Edge(k, r, g, w, f)
    <1>1. Shape(k, r) => Shape(k, f)
        BY DEF Moves, Shape
    <1>2. Firm(k, m) => f.i = "req" /\ f.br
        BY DEF Firm
    <1> QED BY <1>1, <1>2 DEF Moves, Edge

LEMMA DeviceEdge ==
    ASSUME NEW k \in Kinds, NEW r \in DeviceRecord(k), NEW g \in BOOLEAN,
           NEW a, a.ie \in SUBSET Sources[k], NEW ev \in SUBSET Sources[k],
           NEW f, f = Progress(k, r, Write(k, r, Machine(k, r, g), a), ev)
    PROVE  Edge(k, r, g, k \in Withdrawing /\ Withdraws(k, r, a), f)
    <1>1. PICK m : m = Machine(k, r, g)
        OBVIOUS
    <1>2. Moves(k, r, g, m)
        BY <1>1, MachineMoves
    <1>3. m \in DeviceRecord(k)
        BY <1>2 DEF Moves
    <1>4. PICK w : w = Write(k, r, m, a)
        OBVIOUS
    <1>5. Written(k, a, m, w)
        BY <1>3, <1>4, WriteKeeps
    <1>6. Progressed(k, w, f)
        <2>1. w \in DeviceRecord(k)
            BY <1>5 DEF Written
        <2>2. f = Progress(k, r, w, ev)
            BY <1>1, <1>4
        <2> QED BY <2>1, <2>2, ProgressKeeps
    <1>7. ASSUME Firm(k, m), ~(k \in Withdrawing /\ Withdraws(k, r, a))
          PROVE  Firm(k, f)
        <2>1. m.ie = r.ie
            BY <1>2, <1>7 DEF Moves, Firm
        <2>2. k \in Withdrawing => m.ie \subseteq f.ie
            BY <1>5, <1>6, <1>7, <2>1 DEF Withdraws, Written, Progressed
        <2>3. k = "xu" => m.rdy \subseteq f.rdy
            BY <1>5, <1>6, <1>7 DEF Withdraws, Withdrawing, Written, Progressed
        <2>4. /\ f.i = m.i /\ f.br = m.br /\ f.vec = m.vec
              /\ k \in {"kl11", "dr11c", "mnc"} => f.trig = m.trig
            BY <1>5, <1>6 DEF Written, Progressed
        <2> QED BY <1>7, <2>2, <2>3, <2>4 DEF Firm, Asks, Withdrawing
    <1>8. /\ f \in DeviceRecord(k)
          /\ f.i = m.i /\ f.br = m.br /\ f.vec = m.vec
          /\ k \in {"kl11", "dr11c", "mnc"} => f.trig = m.trig
        BY <1>5, <1>6 DEF Written, Progressed
    <1> QED BY <1>2, <1>7, <1>8, MoveIsEdge

(* The edge of a controller no register of which is accessed.              *)
LEMMA QuietEdge ==
    ASSUME NEW k \in Kinds, NEW r \in DeviceRecord(k), NEW g \in BOOLEAN,
           NEW ev \in SUBSET Sources[k],
           NEW f, f = Progress(k, r, Machine(k, r, g), ev)
    PROVE  Edge(k, r, g, FALSE, f)
    <1>1. PICK m : m = Machine(k, r, g)
        OBVIOUS
    <1>2. Moves(k, r, g, m)
        BY <1>1, MachineMoves
    <1>3. m \in DeviceRecord(k)
        BY <1>2 DEF Moves
    <1>4. Progressed(k, m, f)
        BY <1>1, <1>3, ProgressKeeps
    <1>5. Firm(k, m) => Firm(k, f)
        BY <1>4 DEF Firm, Asks, Progressed
    <1>6. /\ f \in DeviceRecord(k)
          /\ f.i = m.i /\ f.br = m.br /\ f.vec = m.vec /\ f.trig = m.trig
        BY <1>4 DEF Progressed
    <1> QED BY <1>2, <1>5, <1>6, MoveIsEdge

(* A reset controller asks for nothing.                                    *)
LEMMA ResetKeeps ==
    ASSUME NEW k \in Kinds, NEW r \in DeviceRecord(k), NEW f, f = DeviceReset(k, r)
    PROVE  f \in DeviceRecord(k) /\ f.i = "idle" /\ ~f.br
    <1>1. AfterReset(k) \in SUBSET Sources[k]
        BY SourcesOfKind DEF AfterReset
    <1>2. PICK q : q = [r EXCEPT !.i = "idle", !.br = FALSE, !.ie = {}]
        OBVIOUS
    <1>3. q \in DeviceRecord(k) /\ q.i = "idle" /\ ~q.br
        BY <1>2 DEF DeviceRecord
    <1>4. f = [q EXCEPT !.rdy = AfterReset(k), !.trig = {}]
        BY <1>2 DEF DeviceReset
    <1> QED BY <1>1, <1>3, <1>4 DEF DeviceRecord

-----------------------------------------------------------------------------
(* Lemmas about the operators of Interrupts.                               *)

LEMMA LevelNames ==
    /\ Br[4] = "br4" /\ Br[5] = "br5" /\ Br[6] = "br6"
    /\ \A l \in Levels : Br[l] \in BrStates
    /\ \A l, m \in Levels : Br[l] = Br[m] => l = m
    BY DEF Br, BrStates, Levels

LEMMA StateNames ==
    /\ \A n \in 1..8 : TrapSequence[n] \in TrapStates
    /\ TrapStates = {"trap", "trapa", "trapb", "trapc", "trapw", "trapd",
                     "trape", "trapf"}
    /\ BrStates = {"br4", "br5", "br6"}
    /\ TrapStates \cup BrStates \subseteq CpuStates
    <1>1. \A n \in 1..8 : n \in {1, 2, 3, 4, 5, 6, 7, 8}
        OBVIOUS
    <1>2. TrapStates = {"trap", "trapa", "trapb", "trapc", "trapw", "trapd",
                        "trape", "trapf"}
        BY <1>1 DEF TrapStates, TrapSequence
    <1>3. BrStates = {"br4", "br5", "br6"}
        BY DEF Br, BrStates, Levels
    <1> QED BY <1>2, <1>3 DEF CpuStates, TrapStates

(* The highest of some requests is one of them.                            *)
LEMMA HighestIsRequest ==
    ASSUME NEW S \in SUBSET (1..7), S # {}
    PROVE  Highest(S) \in S
    <1>1. \A l \in S : l \in {1, 2, 3, 4, 5, 6, 7}
        OBVIOUS
    <1>2. 1 \in S \/ 2 \in S \/ 3 \in S \/ 4 \in S \/ 5 \in S \/ 6 \in S \/ 7 \in S
        BY <1>1
    <1>3. \E l \in S : \A m \in S : m <= l
        <2>1. CASE 7 \in S
            BY <1>1, <2>1
        <2>2. CASE 7 \notin S /\ 6 \in S
            BY <1>1, <2>2
        <2>3. CASE 7 \notin S /\ 6 \notin S /\ 5 \in S
            BY <1>1, <2>3
        <2>4. CASE 7 \notin S /\ 6 \notin S /\ 5 \notin S /\ 4 \in S
            BY <1>1, <2>4
        <2>5. CASE 7 \notin S /\ 6 \notin S /\ 5 \notin S /\ 4 \notin S
            BY <1>1, <1>2, <2>5
        <2> QED BY <2>1, <2>2, <2>3, <2>4, <2>5
    <1> QED BY <1>3 DEF Highest

LEMMA LeastNumber ==
    ASSUME NEW T, T \subseteq Nat, T # {}
    PROVE  \E x \in T : \A y \in T : x <= y
    <1> DEFINE R == {p \in Nat \X Nat : p[1] < p[2]}
    <1>1. IsWellFoundedOn(R, Nat)
        BY NatLessThanWellFounded DEF OpToRel
    <1>2. PICK x \in T : \A y \in T : ~ (<<y, x>> \in R)
        <2> HIDE DEF R
        <2> QED BY <1>1, WFMin
    <1>3. \A y \in T : ~(y < x)
        BY <1>2
    <1> QED BY <1>3

(* The first of some devices in the arbiter's chain is one of them.        *)
LEMMA FirstIsAsking ==
    ASSUME NEW S \in SUBSET Devices, S # {}
    PROVE  First(S) \in S
    <1> DEFINE T == {Rank[d] : d \in S}
    <1>1. T \subseteq Nat /\ T # {}
        <2>1. \A d \in S : Rank[d] \in Nat
            BY RankAssumption
        <2>2. PICK d \in S : TRUE
            OBVIOUS
        <2>3. Rank[d] \in T
            BY <2>2
        <2> QED BY <2>1, <2>3
    <1>2. PICK x \in T : \A y \in T : x <= y
        BY <1>1, LeastNumber
    <1>3. \E d \in S : \A e \in S : Rank[d] <= Rank[e]
        BY <1>2
    <1> QED BY <1>3 DEF First

(* The accesses: the enables written are sources of the device, and a      *)
(* masked device's request is withdrawn only at its level or above.        *)
LEMMA Accesses ==
    ASSUME TypeOK, NEW a \in DeviceAccesses, NEW d \in Devices, a.d = d
    PROVE  /\ a.ie \in SUBSET Sources[Kind[d]]
           /\ Withdraws(Kind[d], dev[d], a) =>
                 cpu = "store" /\ (d \in Masked => ipl >= Level[d])
    <1> DEFINE k == Kind[d]
               r == dev[d]
    <1>1. k \in Kinds /\ r.ie \in SUBSET Sources[k]
        BY KindAssumption DEF TypeOK, DeviceRecord
    <1>2. a # NoAccess
        BY DevicesAssumption DEF NoAccess
    <1>3. PICK e \in have : \E x \in AccessesTo(e) : a = [d |-> e, ie |-> x.ie, clr |-> x.clr]
        BY <1>2 DEF DeviceAccesses
    <1>4. PICK x \in AccessesTo(e) : a = [d |-> e, ie |-> x.ie, clr |-> x.clr]
        BY <1>3
    <1>5. e = d /\ a.ie = x.ie /\ a.clr = x.clr
        BY <1>4
    <1>6. Withdraws(k, r, a) <=> Withdraws(k, r, x)
        BY <1>5 DEF Withdraws
    <1>7. CASE cpu = "store"
        <2>1. x \in Writes(k, r) /\ (d \in Masked /\ Withdraws(k, r, x) => ipl >= Level[d])
            BY <1>5, <1>7 DEF AccessesTo
        <2>2. \E g \in Registers[k] : \E n \in SUBSET (g \cap Enables[k]) : x.ie = (r.ie \ g) \cup n
            BY <2>1, SMTT(60) DEF Writes
        <2>3. Enables[k] \subseteq Sources[k]
            BY <1>1, SourcesOfKind DEF Enables, Kinds
        <2> QED BY <1>1, <1>5, <1>6, <1>7, <2>1, <2>2, <2>3
    <1>8. CASE cpu = "load"
        <2>1. x \in Reads(k, r)
            BY <1>5, <1>8 DEF AccessesTo
        <2>2. PICK s \in ReadClears[k] : x = [ie |-> r.ie, clr |-> {s}]
            BY <2>1 DEF Reads
        <2>3. k # "xu"
            BY <1>1, <2>2 DEF ReadClears
        <2>4. ~Withdraws(k, r, x)
            BY <2>2, <2>3 DEF Withdraws
        <2> QED BY <1>1, <1>5, <1>6, <2>2, <2>4
    <1> QED BY <1>7, <1>8 DEF AccessesTo

(* One falling edge of one device, if it is configured and not reset: w    *)
(* says that the program takes its request back in that edge.              *)
LEMMA NextDevEdge ==
    ASSUME TypeOK, NEW a \in DeviceAccesses, NEW ev \in SUBSET Conditions,
           NEW d \in Devices, NEW f, f = NextDev(d, a, ev)
    PROVE  IF init \/ d \notin have
           THEN f \in DeviceRecord(Kind[d]) /\ f.i = "idle" /\ ~f.br
           ELSE \E w \in BOOLEAN :
                   /\ Edge(Kind[d], dev[d], dev_bg[d], w, f)
                   /\ w => /\ cpu = "store"
                           /\ Kind[d] \in Withdrawing
                           /\ d \in Masked => ipl >= Level[d]
    <1>1. PICK k \in Kinds : k = Kind[d]
        BY KindAssumption
    <1>2. PICK r \in DeviceRecord(k) : r = dev[d]
        BY <1>1 DEF TypeOK
    <1>3. PICK g \in BOOLEAN : g = dev_bg[d]
        BY DEF TypeOK
    <1>4. CASE init \/ d \notin have
        <2>1. f = DeviceReset(k, r)
            BY <1>1, <1>2, <1>4 DEF NextDev
        <2> QED BY <1>1, <1>4, <2>1, ResetKeeps
    <1>5. CASE ~(init \/ d \notin have)
        <2>1. PICK es \in SUBSET Sources[k] : es = {s \in Sources[k] : <<d, s>> \in ev}
            OBVIOUS
        <2>2. CASE a.d = d
            <3>1. f = Progress(k, r, Write(k, r, Machine(k, r, g), a), es)
                BY <1>1, <1>2, <1>3, <1>5, <2>1, <2>2 DEF NextDev
            <3>2. a.ie \in SUBSET Sources[k]
                BY <1>1, <2>2, Accesses
            <3>3. PICK w \in BOOLEAN : w = (k \in Withdrawing /\ Withdraws(k, r, a))
                OBVIOUS
            <3>4. Edge(k, r, g, k \in Withdrawing /\ Withdraws(k, r, a), f)
                BY <3>1, <3>2, DeviceEdge
            <3>5. w => /\ cpu = "store"
                       /\ k \in Withdrawing
                       /\ d \in Masked => ipl >= Level[d]
                BY <1>1, <1>2, <2>2, <3>3, Accesses
            <3>6. Edge(k, r, g, w, f)
                BY <3>3, <3>4
            <3> QED BY <1>1, <1>2, <1>3, <1>5, <3>5, <3>6
        <2>3. CASE a.d # d
            <3>1. f = Progress(k, r, Machine(k, r, g), es)
                BY <1>1, <1>2, <1>3, <1>5, <2>1, <2>3 DEF NextDev
            <3>2. Edge(k, r, g, FALSE, f)
                BY <3>1, QuietEdge
            <3> QED BY <1>1, <1>2, <1>3, <1>5, <3>2
        <2> QED BY <2>2, <2>3
    <1> QED BY <1>4, <1>5

-----------------------------------------------------------------------------
(* Types.                                                                  *)

CpuTypes ==
    /\ cpu \in CpuStates
    /\ ipl \in 0..7
    /\ pir \in SUBSET (1..7)
    /\ ir_wait \in BOOLEAN
    /\ spl_inhibit \in BOOLEAN
    /\ initcycles \in 0..ResetTime
    /\ init \in BOOLEAN
    /\ bg \in [Levels -> BOOLEAN]

BusTypes ==
    /\ cpu_npr \in BOOLEAN
    /\ arb \in [Levels -> Devices \cup {Idle}]
    /\ cpu_br \in [Levels -> BOOLEAN]
    /\ cpu_ivec \in [Levels -> Vectors]
    /\ dev_bg \in [Devices -> BOOLEAN]
    /\ DOMAIN dev = Devices
    /\ \A d \in Devices : dev[d] \in DeviceRecord(Kind[d])

LEMMA TypesSplit ==
    TypeOK <=> have \in Buses /\ edge \in {"clk", "nclk"} /\ CpuTypes /\ BusTypes
    BY DEF TypeOK, CpuTypes, BusTypes

LEMMA InitDevice ==
    ASSUME Init, NEW d \in Devices
    PROVE  dev[d] \in DeviceRecord(Kind[d]) /\ dev[d].i = "idle" /\ ~dev[d].br
    <1>1. PICK k \in Kinds : k = Kind[d]
        BY KindAssumption
    <1>2. PICK r : r = [i |-> "idle", br |-> FALSE, vec |-> 0,
                        ie |-> {}, rdy |-> {}, trig |-> {}]
        OBVIOUS
    <1>3. r \in DeviceRecord(k)
        BY <1>2 DEF DeviceRecord
    <1>4. dev[d] = DeviceReset(k, r)
        BY <1>1, <1>2 DEF Init
    <1> QED BY <1>1, <1>3, <1>4, ResetKeeps

LEMMA InitTypes == Init => TypeOK
    <1> SUFFICES ASSUME Init PROVE TypeOK
        OBVIOUS
    <1>1. CpuTypes
        <2>1. cpu \in CpuStates
            BY DEF Init, CpuStates
        <2>2. initcycles \in 0..ResetTime
            BY ProgramAssumption DEF Init
        <2>3. bg \in [Levels -> BOOLEAN]
            BY DEF Init
        <2>4. ipl \in 0..7 /\ pir \in SUBSET (1..7)
            BY DEF Init
        <2>5. ir_wait \in BOOLEAN /\ spl_inhibit \in BOOLEAN /\ init \in BOOLEAN
            BY DEF Init
        <2> QED BY <2>1, <2>2, <2>3, <2>4, <2>5 DEF CpuTypes
    <1>2. ASSUME NEW d \in Devices PROVE dev[d] \in DeviceRecord(Kind[d])
        BY InitDevice
    <1>3. BusTypes
        BY <1>2 DEF Init, BusTypes, Vectors, NoVector
    <1> QED BY <1>1, <1>3, TypesSplit DEF Init

LEMMA CpuStepTypes ==
    ASSUME CpuTypes, ClkEdge
    PROVE  CpuTypes'
    <1>1. CASE StateInit
        <2>1. cpu' \in CpuStates
            BY <1>1 DEF StateInit, CpuStates
        <2>2. initcycles' \in 0..ResetTime
            BY <1>1, ProgramAssumption DEF StateInit, CpuTypes
        <2> QED BY <1>1, <2>1, <2>2 DEF StateInit, CpuTypes
    <1>2. CASE IfetchNpr
        <2>1. cpu' \in CpuStates
            BY <1>2 DEF IfetchNpr, CpuStates
        <2> QED BY <1>2, <2>1 DEF IfetchNpr, CpuTypes
    <1>3. CASE IfetchHalt
        <2>1. cpu' \in CpuStates
            BY <1>3 DEF IfetchHalt, CpuStates
        <2> QED BY <1>3, <2>1 DEF IfetchHalt, CpuTypes
    <1>4. CASE IfetchTrap
        <2>1. cpu' \in CpuStates
            BY <1>4, StateNames DEF IfetchTrap
        <2> QED BY <1>4, <2>1 DEF IfetchTrap, CpuTypes
    <1>5. CASE IfetchBr
        <2>1. Requests \in SUBSET (1..7)
            BY DEF Requests
        <2>2. PICK l \in Requests : l = Highest(Requests)
            BY <1>5, <2>1, HighestIsRequest DEF IfetchBr
        <2>3. l \in Levels /\ cpu' = Br[l] /\ bg' = [bg EXCEPT ![l] = TRUE]
            BY <1>5, <2>2 DEF IfetchBr, Requests
        <2>4. cpu' \in CpuStates
            BY <2>3, LevelNames, StateNames
        <2> QED BY <1>5, <2>3, <2>4 DEF IfetchBr, CpuTypes
    <1>6. CASE IfetchRun
        <2>1. cpu' \in CpuStates
            BY <1>6 DEF IfetchRun, CpuStates
        <2> QED BY <1>6, <2>1 DEF IfetchRun, CpuTypes
    <1>7. CASE Decode
        <2>1. cpu' \in {"ifetch", "init", "trap", "exec", "load", "store"}
            BY <1>7 DEF Decode
        <2>2. cpu' \in CpuStates
            BY <2>1, StateNames DEF CpuStates
        <2>3. ipl' \in 0..7
            BY <1>7, ProgramAssumption DEF Decode, CpuTypes
        <2>4. initcycles' \in 0..ResetTime
            BY <1>7, ProgramAssumption DEF Decode, CpuTypes
        <2>5. ir_wait' \in BOOLEAN /\ spl_inhibit' \in BOOLEAN
            BY <1>7 DEF Decode, CpuTypes
        <2> QED BY <1>7, <2>2, <2>3, <2>4, <2>5 DEF Decode, CpuTypes
    <1>8. CASE Execute
        <2>1. cpu' \in {"load", "store", "trap", "ifetch"}
            BY <1>8 DEF Execute
        <2>2. cpu' \in CpuStates
            BY <2>1, StateNames DEF CpuStates
        <2>3. ipl' \in 0..7
            BY <1>8, ProgramAssumption DEF Execute, CpuTypes
        <2>4. pir' \in SUBSET (1..7)
            BY <1>8, ProgramAssumption DEF Execute, CpuTypes
        <2> QED BY <1>8, <2>2, <2>3, <2>4 DEF Execute, CpuTypes
    <1>9. CASE StateBr
        <2>1. cpu' \in {"ifetch", "trap"}
            BY <1>9 DEF StateBr
        <2>3. cpu' \in CpuStates
            BY <2>1, StateNames DEF CpuStates
        <2>2. bg' \in [Levels -> BOOLEAN]
            BY <1>9 DEF StateBr, CpuTypes
        <2> QED BY <1>9, <2>3, <2>2 DEF StateBr, CpuTypes
    <1>10. CASE Trap
        <2>1. PICK n \in 1..8 :
                 /\ cpu' = IF n = 8 THEN "ifetch" ELSE TrapSequence[n + 1]
                 /\ spl_inhibit' = IF n = 1 THEN FALSE ELSE spl_inhibit
                 /\ IF n = 2 THEN ipl' \in Ipls ELSE UNCHANGED ipl
            BY <1>10 DEF Trap
        <2>2. cpu' \in CpuStates
            <3>1. CASE n = 8
                BY <2>1, <3>1 DEF CpuStates
            <3>2. CASE n # 8
                <4>1. n + 1 \in 1..8
                    BY <3>2
                <4> QED BY <2>1, <3>2, <4>1, StateNames
            <3> QED BY <3>1, <3>2
        <2>3. ipl' \in 0..7 /\ spl_inhibit' \in BOOLEAN
            BY <2>1, ProgramAssumption DEF CpuTypes
        <2> QED BY <1>10, <2>2, <2>3 DEF Trap, CpuTypes
    <1>11. CASE StateNpg
        <2>1. cpu' \in CpuStates
            BY <1>11 DEF StateNpg, CpuStates
        <2> QED BY <1>11, <2>1 DEF StateNpg, CpuTypes
    <1>12. CASE StateHalt
        <2>1. cpu' \in CpuStates
            BY <1>12 DEF StateHalt, CpuStates
        <2>2. initcycles' \in 0..ResetTime
            BY <1>12, ProgramAssumption DEF StateHalt, CpuTypes
        <2> QED BY <1>12, <2>1, <2>2 DEF StateHalt, CpuTypes
    <1>13. CASE CpuHolds
        BY <1>13 DEF CpuHolds, cpuVars, CpuTypes
    <1> QED BY <1>1, <1>2, <1>3, <1>4, <1>5, <1>6, <1>7, <1>8, <1>9, <1>10,
               <1>11, <1>12, <1>13 DEF ClkEdge

LEMMA ClkTypes == TypeOK /\ ClkEdge => TypeOK'
    <1> SUFFICES ASSUME TypeOK, ClkEdge PROVE TypeOK'
        OBVIOUS
    <1>1. have' \in Buses /\ edge' \in {"clk", "nclk"} /\ BusTypes'
        BY DEF TypeOK, ClkEdge, busVars, BusTypes
    <1>2. CpuTypes'
        BY TypesSplit, CpuStepTypes
    <1> QED BY <1>1, <1>2 DEF TypeOK, CpuTypes, BusTypes

LEMMA NclkTypes == TypeOK /\ NclkEdge => TypeOK'
    <1> SUFFICES ASSUME TypeOK, NclkEdge PROVE TypeOK'
        OBVIOUS
    <1>1. have' \in Buses /\ edge' \in {"clk", "nclk"} /\ CpuTypes'
        BY DEF TypeOK, NclkEdge, cpuVars, CpuTypes
    <1>2. BusTypes
        BY TypesSplit
    <1>3. \A l \in Levels : Asking(l) \in SUBSET Devices
        BY DEF Asking
    <1>4. ASSUME NEW l \in Levels PROVE NextArb(l) \in Devices \cup {Idle}
        BY <1>2, <1>3, FirstIsAsking DEF NextArb, BusTypes
    <1>5. ASSUME NEW l \in Levels PROVE NextCpuBr(l) \in BOOLEAN
        <2>1. cpu_br[l] \in BOOLEAN /\ (Asking(l) # {}) \in BOOLEAN
            BY <1>2 DEF BusTypes
        <2>2. CASE arb[l] = Idle
            BY <2>1, <2>2 DEF NextCpuBr
        <2>3. CASE arb[l] # Idle
            <3>1. PICK d \in Devices : d = arb[l]
                BY <1>2, <2>3 DEF BusTypes
            <3>2. dev[d].br \in BOOLEAN
                BY <1>2, <3>1 DEF BusTypes, DeviceRecord
            <3> QED BY <2>3, <3>1, <3>2 DEF NextCpuBr
        <2> QED BY <2>2, <2>3
    <1>6. ASSUME NEW l \in Levels PROVE NextCpuIvec(l) \in Vectors
        <2>1. CASE arb[l] = Idle
            BY <1>2, <2>1 DEF NextCpuIvec, BusTypes
        <2>2. CASE arb[l] # Idle
            <3>1. PICK d \in Devices : d = arb[l]
                BY <1>2, <2>2 DEF BusTypes
            <3>2. dev[d].vec \in 0..2
                BY <1>2, <3>1 DEF BusTypes, DeviceRecord
            <3>3. NextCpuIvec(l) = <<d, dev[d].vec>>
                BY <2>2, <3>1 DEF NextCpuIvec
            <3> QED BY <3>1, <3>2, <3>3 DEF Vectors
        <2> QED BY <2>1, <2>2
    <1>7. ASSUME NEW d \in Devices PROVE NextDevBg(d) \in BOOLEAN
        <2>1. Level[d] \in Levels
            BY LevelAssumption
        <2> QED BY <1>2, <2>1, TypesSplit DEF NextDevBg, BusTypes, CpuTypes
    <1>8. PICK a \in DeviceAccesses, ev \in SUBSET Conditions :
              dev' = [d \in Devices |-> NextDev(d, a, ev)]
        BY DEF NclkEdge
    <1>9. ASSUME NEW d \in Devices PROVE dev'[d] \in DeviceRecord(Kind[d])
        BY <1>8, NextDevEdge DEF Edge
    <1>10. DOMAIN dev' = Devices
        BY <1>8
    <1>11. BusTypes'
        BY <1>4, <1>5, <1>6, <1>7, <1>9, <1>10, ProgramAssumption DEF NclkEdge, BusTypes
    <1> QED BY <1>1, <1>11 DEF TypeOK, CpuTypes, BusTypes

(* The state stays in the machine: the reset counter in its range, every   *)
(* arbiter on a device of the bus, every controller a record of its kind,  *)
(* whatever the program does.                                              *)
THEOREM TypeCorrect == Spec => []TypeOK
    <1>1. TypeOK /\ UNCHANGED vars => TypeOK'
        BY DEF vars, cpuVars, busVars, TypeOK
    <1>2. TypeOK /\ [Next]_vars => TypeOK'
        BY <1>1, ClkTypes, NclkTypes DEF Next
    <1> QED BY InitTypes, <1>2, PTL DEF Spec

-----------------------------------------------------------------------------
(* The inductive invariant.                                                *)

(* The program withdraws a request only while it masks the request's level.*)
Discipline == \A d \in Devices : Kind[d] \in Withdrawing => d \in Masked

(* The processor's grant lines are its state, and the bus is reset only in *)
(* state_init.                                                             *)
GrantIsState ==
    /\ \A l \in Levels : bg[l] <=> cpu = Br[l]
    /\ init => cpu = "init"

(* An arbiter serves a device of its own level while it shows the          *)
(* processor a request, and a granted device is the one it serves.         *)
ArbiterServes ==
    /\ \A l \in Levels : arb[l] # Idle => Level[arb[l]] = l
    /\ \A l \in Levels : cpu_br[l] => arb[l] # Idle
    /\ \A d \in Devices : dev_bg[d] => arb[Level[d]] = d

SingleGrant == \A c, d \in Devices : dev_bg[c] /\ dev_bg[d] => c = d

(* The controllers are in the shapes their machines leave behind, and the  *)
(* ones that are not configured ask for nothing.                           *)
DeviceShapes ==
    \A d \in Devices : /\ Shape(Kind[d], dev[d])
                       /\ d \notin have => dev[d].i = "idle" /\ ~dev[d].br

(* The processor in state_br4, 5 or 6: the arbiter serves a device whose   *)
(* request stands, granted already or in this very edge, or which has      *)
(* taken the grant; and once the processor sees the request drop, the      *)
(* vector it sees is that device's.                                        *)
Granting ==
    \A l \in Levels : cpu = Br[l] =>
        \E d \in Devices :
            /\ arb[l] = d
            /\ \/ Firm(Kind[d], dev[d]) /\ cpu_br[l] /\ (dev_bg[d] \/ edge = "nclk")
               \/ /\ dev_bg[d] /\ dev[d].i = "wait"
                  /\ ~cpu_br[l] => cpu_ivec[l] = <<d, dev[d].vec>>

(* A device's grant outlives the processor's by half a cycle, the device   *)
(* served and the trap begun.                                              *)
GrantEnds ==
    \A d \in Devices : dev_bg[d] /\ cpu # Br[Level[d]] =>
        edge = "nclk" /\ cpu = "trap" /\ dev[d].i = "wait" /\ ~cpu_br[Level[d]]

(* A device that has taken its grant shows no request unless the processor *)
(* is still giving it.                                                     *)
WaitSeen ==
    \A d \in Devices :
        dev[d].i = "wait" /\ arb[Level[d]] = d /\ cpu_br[Level[d]] => cpu = Br[Level[d]]

(* A request that no longer stands was taken back by a store that has just *)
(* ended, at a priority that masks it;                                     *)
TakenBack(d) ==
    dev[d].i = "req" /\ ~Firm(Kind[d], dev[d]) =>
        /\ ipl >= Level[d]
        /\ edge = "clk"  => cpu = "store"
        /\ edge = "nclk" => cpu \in {"ifetch", "trap"}

(* one edge later its line may still be up;                                *)
LineLingers(d) ==
    dev[d].i = "idle" /\ dev[d].br =>
        /\ ipl >= Level[d]
        /\ edge = "clk"  => cpu \in {"ifetch", "trap"}
        /\ edge = "nclk" => cpu # Br[Level[d]]

(* and one more edge later the processor's view of it.                     *)
Seen(d) == arb[Level[d]] = d /\ cpu_br[Level[d]] /\ ~dev[d].br /\ dev[d].i # "wait"

RequestLingers(d) ==
    Seen(d) =>
        /\ edge = "clk"  => ipl >= Level[d] \/ cpu = "init"
        /\ edge = "nclk" => cpu # Br[Level[d]]

Withdrawals == \A d \in Devices : TakenBack(d) /\ LineLingers(d) /\ RequestLingers(d)

IInv ==
    /\ TypeOK /\ GrantIsState /\ ArbiterServes /\ SingleGrant /\ DeviceShapes
    /\ Granting /\ GrantEnds /\ WaitSeen /\ Withdrawals

LEMMA InitIInv == Init => IInv
    <1> SUFFICES ASSUME Init PROVE IInv
        OBVIOUS
    <1>1. TypeOK
        BY InitTypes
    <1>2. cpu = "init" /\ edge = "nclk" /\ \A l \in Levels : cpu # Br[l]
        BY LevelNames, StateNames DEF Init
    <1>3. \A l \in Levels : ~bg[l] /\ ~cpu_br[l] /\ arb[l] = Idle
        BY DEF Init
    <1>4. \A d \in Devices : ~dev_bg[d]
        BY DEF Init
    <1>5. ASSUME NEW d \in Devices PROVE dev[d].i = "idle" /\ ~dev[d].br
        BY InitDevice
    <1>6. ASSUME NEW d \in Devices PROVE Shape(Kind[d], dev[d])
        BY <1>5 DEF Shape
    <1>7. Withdrawals
        BY <1>3, <1>5, LevelAssumption DEF Withdrawals, TakenBack, LineLingers, RequestLingers, Seen
    <1>8. GrantIsState /\ ArbiterServes /\ SingleGrant /\ Granting /\ GrantEnds
        BY <1>2, <1>3, <1>4 DEF GrantIsState, ArbiterServes, SingleGrant, Granting, GrantEnds
    <1>9. DeviceShapes /\ WaitSeen
        BY <1>5, <1>6 DEF DeviceShapes, WaitSeen
    <1> QED BY <1>1, <1>7, <1>8, <1>9 DEF IInv

-----------------------------------------------------------------------------
(* The rising edge.                                                        *)

(* What a step of the processor does to its grants: it gives one only to a *)
(* request it sees and does not mask, ends it only when the request drops, *)
(* and keeps its priority in a store, in ifetch and in the trap's first    *)
(* state.                                                                  *)
CpuMoves ==
    /\ \A l \in Levels : cpu' = Br[l] =>
          cpu_br[l] /\ (cpu = Br[l] \/ (cpu = "ifetch" /\ ipl < l))
    /\ \A l \in Levels : cpu = Br[l] /\ cpu' # Br[l] =>
          /\ ~cpu_br[l]
          /\ cpu' = IF l # 6 /\ cpu_ivec[l][2] = 0 THEN "ifetch" ELSE "trap"
    /\ cpu = "store" => cpu' \in {"ifetch", "trap"}
    /\ cpu \in {"store", "ifetch", "trap"} => ipl' = ipl
    /\ GrantIsState'

(* Most steps neither start from a grant nor give one.                     *)
LEMMA QuietCpuStep ==
    ASSUME GrantIsState, cpu \notin BrStates, cpu' \notin BrStates, bg' = bg,
           init' => cpu' = "init",
           cpu = "store" => cpu' \in {"ifetch", "trap"},
           cpu \in {"store", "ifetch", "trap"} => ipl' = ipl
    PROVE  CpuMoves
    <1>1. \A l \in Levels : cpu # Br[l] /\ cpu' # Br[l]
        BY LevelNames
    <1> QED BY <1>1 DEF CpuMoves, GrantIsState

LEMMA CpuStep ==
    ASSUME TypeOK, GrantIsState, ClkEdge
    PROVE  CpuMoves
    <1>1. init => cpu = "init"
        BY DEF GrantIsState
    <1>2. CASE StateInit
        BY <1>2, StateNames, QuietCpuStep DEF StateInit
    <1>3. CASE IfetchNpr
        BY <1>1, <1>3, StateNames, QuietCpuStep DEF IfetchNpr
    <1>4. CASE IfetchHalt
        BY <1>1, <1>4, StateNames, QuietCpuStep DEF IfetchHalt
    <1>5. CASE IfetchTrap
        BY <1>1, <1>5, StateNames, QuietCpuStep DEF IfetchTrap
    <1>6. CASE IfetchBr
        <2>1. PICK l \in Requests : l = Highest(Requests)
            BY <1>6, HighestIsRequest DEF IfetchBr, Requests
        <2>2. /\ l \in Levels /\ cpu_br[l] /\ ipl < l
              /\ cpu = "ifetch" /\ cpu' = Br[l] /\ bg' = [bg EXCEPT ![l] = TRUE]
              /\ ipl' = ipl /\ init' = init
            BY <1>6, <2>1 DEF IfetchBr, Requests
        <2>3. bg \in [Levels -> BOOLEAN]
            BY DEF TypeOK
        <2>4. \A m \in Levels : cpu # Br[m] /\ (cpu' = Br[m] <=> m = l)
            BY <2>2, LevelNames, StateNames
        <2>5. \A m \in Levels : bg'[m] <=> cpu' = Br[m]
            BY <2>2, <2>3, <2>4 DEF GrantIsState
        <2>6. ~init'
            BY <1>1, <2>2
        <2> QED BY <2>2, <2>4, <2>5, <2>6 DEF CpuMoves, GrantIsState
    <1>7. CASE IfetchRun
        BY <1>1, <1>7, StateNames, QuietCpuStep DEF IfetchRun
    <1>8. CASE Decode
        <2>1. cpu = "idecode" /\ bg' = bg /\ init' = init
              /\ cpu' \in {"ifetch", "init", "trap", "exec", "load", "store"}
            BY <1>8 DEF Decode
        <2> QED BY <1>1, <2>1, StateNames, QuietCpuStep
    <1>9. CASE Execute
        <2>1. /\ cpu \in {"exec", "load", "store"} /\ bg' = bg /\ init' = init
              /\ cpu' \in {"ifetch", "trap", "load", "store"}
              /\ cpu = "store" => cpu' \in {"ifetch", "trap"} /\ ipl' = ipl
            BY <1>9 DEF Execute
        <2> QED BY <1>1, <2>1, StateNames, QuietCpuStep
    <1>10. CASE StateBr
        <2>1. PICK l \in Levels :
                 /\ cpu = Br[l] /\ ~cpu_br[l] /\ bg' = [bg EXCEPT ![l] = FALSE]
                 /\ cpu' = IF l # 6 /\ cpu_ivec[l][2] = 0 THEN "ifetch" ELSE "trap"
                 /\ init' = init
            BY <1>10 DEF StateBr
        <2>2. bg \in [Levels -> BOOLEAN]
            BY DEF TypeOK
        <2>3. \A m \in Levels : cpu' # Br[m] /\ (cpu = Br[m] <=> m = l)
            BY <2>1, LevelNames, StateNames
        <2>4. \A m \in Levels : bg'[m] <=> cpu' = Br[m]
            BY <2>1, <2>2, <2>3 DEF GrantIsState
        <2>5. cpu \notin {"init", "store", "ifetch", "trap"} /\ ~init'
            BY <1>1, <2>1, LevelNames, StateNames
        <2> QED BY <2>1, <2>3, <2>4, <2>5 DEF CpuMoves, GrantIsState
    <1>11. CASE Trap
        <2>1. PICK n \in 1..8 :
                 /\ cpu = TrapSequence[n]
                 /\ cpu' = IF n = 8 THEN "ifetch" ELSE TrapSequence[n + 1]
                 /\ IF n = 2 THEN ipl' \in Ipls ELSE UNCHANGED ipl
                 /\ bg' = bg /\ init' = init
            BY <1>11 DEF Trap
        <2>2. cpu \in TrapStates
            BY <2>1, StateNames
        <2>3. cpu' \in TrapStates \cup {"ifetch"}
            <3>1. n # 8 => n + 1 \in 1..8
                OBVIOUS
            <3> QED BY <2>1, <3>1, StateNames
        <2>4. cpu = "trap" => n # 2
            BY <2>1 DEF TrapSequence
        <2> QED BY <1>1, <2>1, <2>2, <2>3, <2>4, StateNames, QuietCpuStep
    <1>12. CASE StateNpg
        BY <1>1, <1>12, StateNames, QuietCpuStep DEF StateNpg
    <1>13. CASE StateHalt
        BY <1>1, <1>13, StateNames, QuietCpuStep DEF StateHalt
    <1>14. CASE CpuHolds
        <2>1. /\ cpu' = cpu /\ bg' = bg /\ init' = init /\ ipl' = ipl
              /\ \A l \in Levels : cpu = Br[l] => cpu_br[l]
            BY <1>14, LevelNames, StateNames DEF CpuHolds, cpuVars
        <2>2. cpu # "store"
            BY <1>14, StateNames DEF CpuHolds
        <2> QED BY <2>1, <2>2 DEF CpuMoves, GrantIsState
    <1> QED BY <1>2, <1>3, <1>4, <1>5, <1>6, <1>7, <1>8, <1>9, <1>10, <1>11,
               <1>12, <1>13, <1>14 DEF ClkEdge

(* The rising edge keeps the invariant: a grant starts only on a request   *)
(* that stands, and ends only with the trap of the device that took it.    *)
LEMMA ClkKeeps ==
    ASSUME IInv, ClkEdge
    PROVE  IInv'
    <1>1. TypeOK' /\ CpuMoves
        BY ClkTypes, CpuStep DEF IInv
    <1>2. /\ edge = "clk" /\ edge' = "nclk"
          /\ have' = have /\ arb' = arb /\ cpu_br' = cpu_br /\ cpu_ivec' = cpu_ivec
          /\ dev_bg' = dev_bg /\ dev' = dev
        BY DEF ClkEdge, busVars
    <1>3. ArbiterServes' /\ SingleGrant' /\ DeviceShapes'
        BY <1>2 DEF IInv, ArbiterServes, SingleGrant, DeviceShapes
    <1>4. \A d \in Devices : Level[d] \in Levels
        BY LevelAssumption
    <1>5. ASSUME NEW l \in Levels, cpu' = Br[l], cpu # Br[l]
          PROVE  \E d \in Devices :
                    arb[l] = d /\ Firm(Kind[d], dev[d]) /\ cpu_br[l]
        <2>1. cpu = "ifetch" /\ cpu_br[l] /\ ipl < l
            BY <1>1, <1>5 DEF CpuMoves
        <2>2. PICK d \in Devices : arb[l] = d /\ Level[d] = l
            BY <2>1 DEF IInv, ArbiterServes, TypeOK
        <2>3. ~(ipl >= l)
            BY <2>1 DEF IInv, TypeOK, Levels
        <2>4. dev[d].i # "wait"
            BY <1>5, <2>1, <2>2 DEF IInv, WaitSeen
        <2>5. dev[d].i = "req" => Firm(Kind[d], dev[d])
            BY <2>2, <2>3 DEF IInv, Withdrawals, TakenBack
        <2>6. dev[d].i = "idle" => dev[d].br
            BY <1>2, <2>1, <2>2, <2>3 DEF IInv, Withdrawals, RequestLingers, Seen
        <2>7. dev[d].i = "idle" => ~dev[d].br
            BY <2>2, <2>3 DEF IInv, Withdrawals, LineLingers
        <2>8. dev[d].i \in {"idle", "req", "wait"}
            BY DEF IInv, TypeOK, DeviceRecord
        <2> QED BY <2>1, <2>2, <2>4, <2>5, <2>6, <2>7, <2>8
    <1>6. Granting'
        <2> SUFFICES ASSUME NEW l \in Levels, cpu' = Br[l]
                     PROVE  \E d \in Devices :
                               /\ arb[l] = d
                               /\ \/ Firm(Kind[d], dev[d]) /\ cpu_br[l]
                                  \/ /\ dev_bg[d] /\ dev[d].i = "wait"
                                     /\ ~cpu_br[l] => cpu_ivec[l] = <<d, dev[d].vec>>
            BY <1>2 DEF Granting
        <2>1. CASE cpu = Br[l]
            BY <2>1 DEF IInv, Granting
        <2>2. CASE cpu # Br[l]
            BY <1>5, <2>2
        <2> QED BY <2>1, <2>2
    <1>7. ASSUME NEW d \in Devices, dev_bg[d], cpu' # Br[Level[d]]
          PROVE  cpu' = "trap" /\ dev[d].i = "wait" /\ ~cpu_br[Level[d]]
        <2>1. PICK l \in Levels : l = Level[d]
            BY <1>4
        <2>2. cpu = Br[l] /\ arb[l] = d
            BY <1>2, <1>7, <2>1 DEF IInv, GrantEnds, ArbiterServes
        <2>3. ~cpu_br[l] /\ cpu' = IF l # 6 /\ cpu_ivec[l][2] = 0 THEN "ifetch" ELSE "trap"
            BY <1>1, <1>7, <2>1, <2>2 DEF CpuMoves
        <2>4. dev[d].i = "wait" /\ cpu_ivec[l] = <<d, dev[d].vec>>
            BY <2>2, <2>3 DEF IInv, Granting
        <2>5. dev[d].vec # 0
            BY <2>4 DEF IInv, DeviceShapes, Shape
        <2> QED BY <2>1, <2>3, <2>4, <2>5
    <1>8. GrantEnds'
        BY <1>2, <1>7 DEF GrantEnds
    <1>9. WaitSeen'
        <2> SUFFICES ASSUME NEW d \in Devices, dev[d].i = "wait",
                            arb[Level[d]] = d, cpu_br[Level[d]]
                     PROVE  cpu' = Br[Level[d]]
            BY <1>2 DEF WaitSeen
        <2>1. cpu = Br[Level[d]]
            BY DEF IInv, WaitSeen
        <2> QED BY <1>1, <1>4, <2>1 DEF CpuMoves
    <1>10. ASSUME NEW d \in Devices PROVE TakenBack(d)'
        <2>1. TakenBack(d)
            BY DEF IInv, Withdrawals
        <2> QED BY <1>1, <1>2, <2>1 DEF TakenBack, CpuMoves
    <1>11. ASSUME NEW d \in Devices PROVE LineLingers(d)'
        <2>1. LineLingers(d)
            BY DEF IInv, Withdrawals
        <2>2. ASSUME dev[d].i = "idle", dev[d].br
              PROVE  ipl' >= Level[d] /\ cpu' # Br[Level[d]]
            <3>1. PICK l \in Levels : l = Level[d]
                BY <1>4
            <3>2. cpu \in {"ifetch", "trap"} /\ ipl >= l
                BY <1>2, <2>1, <2>2, <3>1 DEF LineLingers
            <3>3. cpu # Br[l] /\ ~(ipl < l)
                BY <3>2, LevelNames, StateNames DEF IInv, TypeOK, Levels
            <3> QED BY <1>1, <3>1, <3>2, <3>3 DEF CpuMoves
        <2> QED BY <1>2, <2>2 DEF LineLingers
    <1>12. ASSUME NEW d \in Devices PROVE RequestLingers(d)'
        <2>1. ASSUME Seen(d), cpu' = Br[Level[d]]
              PROVE  FALSE
            <3>1. PICK l \in Levels : l = Level[d]
                BY <1>4
            <3>2. arb[l] = d /\ ~dev[d].br /\ dev[d].i # "wait"
                BY <2>1, <3>1 DEF Seen
            <3>3. CASE cpu = Br[l]
                <4>1. Firm(Kind[d], dev[d]) \/ dev[d].i = "wait"
                    BY <3>2, <3>3 DEF IInv, Granting
                <4> QED BY <3>2, <4>1 DEF Firm
            <3>4. CASE cpu # Br[l]
                <4>1. Firm(Kind[d], dev[d])
                    BY <1>5, <2>1, <3>1, <3>2, <3>4
                <4> QED BY <3>2, <4>1 DEF Firm
            <3> QED BY <3>3, <3>4
        <2> QED BY <1>2, <2>1 DEF RequestLingers, Seen
    <1>13. Withdrawals'
        BY <1>10, <1>11, <1>12 DEF Withdrawals
    <1> QED BY <1>1, <1>3, <1>6, <1>8, <1>9, <1>13 DEF IInv, CpuMoves

-----------------------------------------------------------------------------
(* The falling edge.                                                       *)

(* What the falling edge does to one device. A device that is granted has  *)
(* the processor's grant; only a store takes a request back, and it masks  *)
(* the request.                                                            *)
DeviceMoves(d) ==
    \/ dev'[d].i = "idle" /\ ~dev'[d].br /\ (init \/ d \notin have)
    \/ \E w \in BOOLEAN :
          /\ Edge(Kind[d], dev[d], dev_bg[d], w, dev'[d])
          /\ ~init /\ d \in have
          /\ w => cpu = "store" /\ ipl >= Level[d]

LEMMA NclkDevices ==
    ASSUME Discipline, IInv, NclkEdge, NEW d \in Devices
    PROVE  DeviceMoves(d)
    <1>1. PICK a \in DeviceAccesses, ev \in SUBSET Conditions :
              dev' = [c \in Devices |-> NextDev(c, a, ev)]
        BY DEF NclkEdge
    <1>2. dev'[d] = NextDev(d, a, ev) /\ TypeOK
        BY <1>1 DEF IInv
    <1>3. IF init \/ d \notin have
          THEN dev'[d] \in DeviceRecord(Kind[d]) /\ dev'[d].i = "idle" /\ ~dev'[d].br
          ELSE \E w \in BOOLEAN :
                  /\ Edge(Kind[d], dev[d], dev_bg[d], w, dev'[d])
                  /\ w => /\ cpu = "store"
                          /\ Kind[d] \in Withdrawing
                          /\ d \in Masked => ipl >= Level[d]
        BY <1>2, NextDevEdge
    <1> QED BY <1>3 DEF DeviceMoves, Discipline

(* What the falling edge does to an arbiter and its grant line.            *)
LEMMA NclkArbiter ==
    ASSUME TypeOK, ArbiterServes, NclkEdge, NEW l \in Levels
    PROVE  /\ arb'[l] # Idle => /\ arb'[l] \in Devices
                                /\ Level[arb'[l]] = l
                                /\ arb'[l] = arb[l] \/ (arb[l] = Idle /\ dev[arb'[l]].br)
           /\ arb[l] # Idle => /\ cpu_br'[l] = dev[arb[l]].br
                               /\ cpu_ivec'[l] = <<arb[l], dev[arb[l]].vec>>
                               /\ dev[arb[l]].br \/ dev_bg[arb[l]] => arb'[l] = arb[l]
           /\ cpu_br'[l] => arb'[l] # Idle
    <1>1. /\ arb'[l] = NextArb(l) /\ cpu_br'[l] = NextCpuBr(l)
          /\ cpu_ivec'[l] = NextCpuIvec(l)
        BY DEF NclkEdge
    <1>2. arb[l] # Idle => arb[l] \in Devices /\ Level[arb[l]] = l
        BY DEF TypeOK, ArbiterServes
    <1>3. \A d \in Devices : d # Idle
        BY DevicesAssumption
    <1>4. CASE arb[l] = Idle /\ ~BlockedByGrant(l) /\ Asking(l) # {}
        <2>1. Asking(l) \in SUBSET Devices
            BY DEF Asking
        <2>2. PICK d \in Asking(l) : d = First(Asking(l))
            BY <1>4, <2>1, FirstIsAsking
        <2>3. d \in Devices /\ Level[d] = l /\ dev[d].br
            BY DEF Asking
        <2>4. arb'[l] = d
            BY <1>1, <1>4, <2>2 DEF NextArb
        <2> QED BY <1>3, <1>4, <2>3, <2>4
    <1>5. CASE arb[l] = Idle /\ (BlockedByGrant(l) \/ Asking(l) = {})
        <2>1. arb'[l] = Idle
            BY <1>1, <1>5 DEF NextArb
        <2>2. ~cpu_br'[l]
            BY <1>1, <1>5 DEF NextCpuBr, ArbiterServes
        <2> QED BY <1>5, <2>1, <2>2
    <1>6. CASE arb[l] # Idle
        <2>1. PICK d \in Devices : d = arb[l] /\ Level[d] = l
            BY <1>2, <1>6
        <2>2. arb'[l] = IF ~dev[d].br /\ ~dev_bg[d] THEN Idle ELSE d
            BY <1>1, <1>6, <2>1 DEF NextArb
        <2>3. cpu_br'[l] = dev[d].br
            BY <1>1, <1>6, <2>1 DEF NextCpuBr
        <2>4. cpu_ivec'[l] = <<d, dev[d].vec>>
            BY <1>1, <1>6, <2>1 DEF NextCpuIvec
        <2> QED BY <1>3, <1>6, <2>1, <2>2, <2>3, <2>4
    <1> QED BY <1>4, <1>5, <1>6

(* The falling edge keeps the invariant.                                   *)
LEMMA NclkKeeps ==
    ASSUME Discipline, IInv, NclkEdge
    PROVE  IInv'
    <1>1. /\ edge = "nclk" /\ edge' = "clk" /\ have' = have
          /\ cpu' = cpu /\ ipl' = ipl /\ init' = init /\ bg' = bg
        BY DEF NclkEdge, cpuVars
    <1>2. TypeOK /\ TypeOK'
        BY NclkTypes DEF IInv
    <1>3. GrantIsState /\ GrantIsState'
        BY <1>1 DEF IInv, GrantIsState
    <1>4. \A d \in Devices : Level[d] \in Levels /\ d # Idle
        BY LevelAssumption, DevicesAssumption
    <1>5. \A d \in Devices : /\ DeviceMoves(d)
                             /\ Shape(Kind[d], dev[d])
                             /\ dev[d].i \in {"idle", "req", "wait"}
        BY <1>2, NclkDevices DEF IInv, DeviceShapes, TypeOK, DeviceRecord
    <1>6. ASSUME NEW d \in Devices, dev_bg'[d]
          PROVE  arb[Level[d]] = d /\ cpu = Br[Level[d]]
        <2>1. dev_bg'[d] = NextDevBg(d)
            BY DEF NclkEdge
        <2>2. arb[Level[d]] = d
            BY <1>6, <2>1 DEF NextDevBg, IInv, ArbiterServes
        <2> QED BY <1>3, <1>4, <1>6, <2>1, <2>2 DEF NextDevBg, GrantIsState
    <1>7. ASSUME NEW l \in Levels, cpu = Br[l]
          PROVE  \E d \in Devices :
                    /\ arb[l] = d /\ arb'[l] = d /\ Level[d] = l
                    /\ dev_bg'[d]
                    /\ \/ Firm(Kind[d], dev'[d]) /\ cpu_br'[l]
                       \/ /\ dev'[d].i = "wait"
                          /\ ~cpu_br'[l] => cpu_ivec'[l] = <<d, dev'[d].vec>>
        <2>1. PICK d \in Devices :
                 /\ arb[l] = d
                 /\ Firm(Kind[d], dev[d]) \/ (dev_bg[d] /\ dev[d].i = "wait")
            BY <1>7 DEF IInv, Granting
        <2>2. Level[d] = l
            BY <1>4, <2>1 DEF IInv, ArbiterServes
        <2>3. dev[d].br \/ dev_bg[d]
            BY <2>1 DEF Firm
        <2>4. arb'[l] = d /\ cpu_br'[l] = dev[d].br /\ cpu_ivec'[l] = <<d, dev[d].vec>>
            BY <1>2, <1>4, <2>1, <2>3, NclkArbiter DEF IInv
        <2>5. dev_bg'[d]
            BY <1>3, <1>7, <2>1, <2>2 DEF NclkEdge, NextDevBg, GrantIsState
        <2>6. PICK w \in BOOLEAN :
                 /\ Edge(Kind[d], dev[d], dev_bg[d], w, dev'[d])
                 /\ w => cpu = "store"
            <3>1. ~init
                BY <1>3, <1>7, LevelNames, StateNames DEF GrantIsState
            <3>2. d \in have
                BY <2>1 DEF IInv, DeviceShapes, Firm
            <3> QED BY <1>5, <3>1, <3>2 DEF DeviceMoves
        <2>7. ~w
            BY <1>7, <2>6, LevelNames, StateNames
        <2>8. CASE Firm(Kind[d], dev[d]) /\ ~dev_bg[d]
            <3>1. Firm(Kind[d], dev'[d]) /\ cpu_br'[l]
                BY <2>4, <2>6, <2>7, <2>8 DEF Edge, Firm
            <3> QED BY <2>1, <2>2, <2>4, <2>5, <3>1
        <2>9. CASE Firm(Kind[d], dev[d]) /\ dev_bg[d]
            <3>1. dev'[d].i = "wait" /\ cpu_br'[l]
                BY <2>4, <2>6, <2>9 DEF Edge, Firm
            <3> QED BY <2>1, <2>2, <2>4, <2>5, <3>1
        <2>10. CASE dev_bg[d] /\ dev[d].i = "wait"
            <3>1. dev'[d].i = "wait" /\ dev'[d].vec = dev[d].vec
                BY <2>6, <2>10 DEF Edge
            <3> QED BY <2>1, <2>2, <2>4, <2>5, <3>1
        <2> QED BY <2>1, <2>8, <2>9, <2>10
    <1>8. ArbiterServes'
        <2>1. ASSUME NEW l \in Levels
              PROVE  /\ arb'[l] # Idle => Level[arb'[l]] = l
                     /\ cpu_br'[l] => arb'[l] # Idle
            BY <1>2, NclkArbiter DEF IInv
        <2>2. ASSUME NEW d \in Devices, dev_bg'[d]
              PROVE  arb'[Level[d]] = d
            <3>1. PICK l \in Levels : l = Level[d]
                BY <1>4
            <3> QED BY <1>6, <1>7, <2>2, <3>1
        <2> QED BY <2>1, <2>2 DEF ArbiterServes
    <1>9. SingleGrant'
        <2> SUFFICES ASSUME NEW c \in Devices, NEW d \in Devices, dev_bg'[c], dev_bg'[d]
                     PROVE  c = d
            BY DEF SingleGrant
        <2> QED BY <1>4, <1>6, LevelNames
    <1>10. DeviceShapes'
        <2>1. ASSUME NEW d \in Devices
              PROVE  /\ Shape(Kind[d], dev'[d])
                     /\ d \notin have => dev'[d].i = "idle" /\ ~dev'[d].br
            <3>1. CASE init \/ d \notin have
                <4>1. dev'[d].i = "idle" /\ ~dev'[d].br
                    BY <1>5, <3>1 DEF DeviceMoves
                <4> QED BY <4>1 DEF Shape
            <3>2. CASE ~(init \/ d \notin have)
                BY <1>5, <3>2 DEF DeviceMoves, Edge
            <3> QED BY <3>1, <3>2
        <2> QED BY <1>1, <2>1 DEF DeviceShapes
    <1>11. Granting'
        BY <1>1, <1>7 DEF Granting
    <1>12. GrantEnds'
        BY <1>1, <1>6 DEF GrantEnds
    <1>13. WaitSeen'
        <2> SUFFICES ASSUME NEW d \in Devices, dev'[d].i = "wait",
                            arb'[Level[d]] = d, cpu_br'[Level[d]]
                     PROVE  cpu = Br[Level[d]]
            BY <1>1 DEF WaitSeen
        <2>1. PICK l \in Levels : l = Level[d]
            BY <1>4
        <2>2. Edge(Kind[d], dev[d], dev_bg[d], TRUE, dev'[d])
              \/ Edge(Kind[d], dev[d], dev_bg[d], FALSE, dev'[d])
            BY <1>5 DEF DeviceMoves
        <2>3. CASE dev[d].i = "wait"
            <3>1. ~dev[d].br
                BY <1>5, <2>3 DEF Shape
            <3>2. arb[l] = d
                BY <1>2, <1>4, <2>1, <3>1, NclkArbiter DEF IInv
            <3>3. cpu_br'[l] = dev[d].br
                BY <1>2, <1>4, <2>1, <3>2, NclkArbiter DEF IInv
            <3> QED BY <2>1, <3>1, <3>3
        <2>4. CASE dev[d].i = "req"
            <3>1. dev_bg[d]
                BY <2>2, <2>4 DEF Edge
            <3> QED BY <2>4, <3>1 DEF IInv, GrantEnds
        <2>5. CASE dev[d].i = "idle"
            BY <2>2, <2>5 DEF Edge
        <2> QED BY <1>5, <2>3, <2>4, <2>5
    <1>14. ASSUME NEW d \in Devices, dev[d].i = "req", ~Firm(Kind[d], dev[d])
           PROVE  /\ ipl >= Level[d] /\ cpu \in {"ifetch", "trap"}
                  /\ dev'[d].i = "idle"
        <2>1. ipl >= Level[d] /\ cpu \in {"ifetch", "trap"}
            BY <1>1, <1>14 DEF IInv, Withdrawals, TakenBack
        <2>2. ~dev_bg[d]
            <3>1. cpu # Br[Level[d]]
                BY <1>4, <2>1, LevelNames, StateNames
            <3> QED BY <1>14, <3>1 DEF IInv, GrantEnds
        <2> QED BY <1>5, <1>14, <2>1, <2>2 DEF DeviceMoves, Edge
    <1>15. ASSUME NEW d \in Devices, dev'[d].i = "req"
           PROVE  \/ Firm(Kind[d], dev'[d])
                  \/ cpu = "store" /\ ipl >= Level[d]
        BY <1>5, <1>14, <1>15 DEF DeviceMoves, Edge
    <1>16. ASSUME NEW d \in Devices, dev'[d].i = "idle", dev'[d].br
           PROVE  ipl >= Level[d] /\ cpu \in {"ifetch", "trap"}
        BY <1>5, <1>14, <1>16 DEF DeviceMoves, Edge, Shape
    <1>17. ASSUME NEW d \in Devices, Seen(d)'
           PROVE  ipl >= Level[d] \/ cpu = "init"
        <2>1. PICK l \in Levels : l = Level[d]
            BY <1>4
        <2>2. arb'[l] = d /\ cpu_br'[l] /\ ~dev'[d].br /\ dev'[d].i # "wait"
            BY <1>17, <2>1 DEF Seen
        <2>3. dev[d].br
            BY <1>2, <1>4, <2>2, NclkArbiter DEF IInv
        <2>4. CASE dev[d].i = "idle"
            BY <1>1, <2>3, <2>4 DEF IInv, Withdrawals, LineLingers
        <2>5. CASE dev[d].i = "req" /\ ~Firm(Kind[d], dev[d])
            BY <1>14, <2>5
        <2>6. CASE dev[d].i = "req" /\ Firm(Kind[d], dev[d])
            <3>1. d \in have
                BY <2>6 DEF IInv, DeviceShapes
            <3>2. init
                BY <1>5, <2>2, <2>6, <3>1 DEF DeviceMoves, Edge
            <3> QED BY <1>3, <3>2 DEF GrantIsState
        <2>7. dev[d].i # "wait"
            BY <1>5, <2>3 DEF Shape
        <2> QED BY <1>5, <2>4, <2>5, <2>6, <2>7
    <1>18. ASSUME NEW d \in Devices
           PROVE  TakenBack(d)' /\ LineLingers(d)' /\ RequestLingers(d)'
        BY <1>1, <1>15, <1>16, <1>17 DEF TakenBack, LineLingers, RequestLingers
    <1>19. Withdrawals'
        BY <1>18 DEF Withdrawals
    <1> QED BY <1>2, <1>3, <1>8, <1>9, <1>10, <1>11, <1>12, <1>13, <1>19 DEF IInv

-----------------------------------------------------------------------------
(* The theorems. All but TypeCorrect need the program's discipline: a KL11 *)
(* whose enable is cleared under its grant breaks every one of them.       *)

(* The invariant the others follow from.                                   *)
THEOREM GrantInvariant ==
    ASSUME Discipline
    PROVE  Spec => []IInv
    <1>1. IInv /\ UNCHANGED vars => IInv'
        <2> SUFFICES ASSUME IInv, UNCHANGED vars PROVE IInv'
            OBVIOUS
        <2>1. TypeOK' /\ GrantIsState' /\ ArbiterServes' /\ SingleGrant' /\ DeviceShapes'
            BY DEF IInv, vars, cpuVars, busVars, TypeOK, GrantIsState,
                   ArbiterServes, SingleGrant, DeviceShapes
        <2>2. Granting' /\ GrantEnds' /\ WaitSeen'
            BY DEF IInv, vars, cpuVars, busVars, Granting, GrantEnds, WaitSeen
        <2>3. Withdrawals'
            BY DEF IInv, vars, cpuVars, busVars, Withdrawals, TakenBack,
                   LineLingers, RequestLingers, Seen
        <2> QED BY <2>1, <2>2, <2>3 DEF IInv
    <1>2. IInv /\ [Next]_vars => IInv'
        BY <1>1, ClkKeeps, NclkKeeps DEF Next
    <1> QED BY InitIInv, <1>2, PTL DEF Spec

(* One device at a time sees a grant, and no grant of the processor is up  *)
(* outside the state that waits for it.                                    *)
THEOREM OneGrantHolds ==
    ASSUME Discipline
    PROVE  Spec => []OneGrant
    <1>1. IInv => OneGrant
        <2> SUFFICES ASSUME IInv PROVE OneGrant
            OBVIOUS
        <2> DEFINE G == {d \in Devices : dev_bg[d]}
        <2>1. Cardinality(G) <= 1
            <3>1. CASE G = {}
                BY <3>1, FS_EmptySet
            <3>2. CASE G # {}
                <4>1. PICK d \in G : TRUE
                    BY <3>2
                <4>2. G = {d}
                    BY DEF IInv, SingleGrant
                <4>3. Cardinality({d}) = 1
                    BY FS_Singleton
                <4> HIDE DEF G
                <4> QED BY <4>2, <4>3
            <3> QED BY <3>1, <3>2
        <2> QED BY <2>1 DEF OneGrant, IInv, GrantIsState
    <1> QED BY <1>1, GrantInvariant, PTL

(* A device takes a grant only while the processor gives one at its level: *)
(* no grant left over from an earlier handshake is ever consumed.          *)
THEOREM GrantsComeFromCpu ==
    ASSUME Discipline
    PROVE  Spec => GrantComesFromCpu
    <1>1. ASSUME IInv, [Next]_vars, NEW d \in Devices,
                 dev[d].i = "req", dev[d]'.i = "wait"
          PROVE  cpu = Br[Level[d]]
        <2>1. CASE NclkEdge
            <3>1. dev_bg[d]
                BY <1>1, <2>1, NclkDevices DEF DeviceMoves, Edge
            <3> QED BY <1>1, <3>1 DEF IInv, GrantEnds
        <2>2. CASE ClkEdge \/ UNCHANGED vars
            BY <1>1, <2>2 DEF ClkEdge, vars, busVars
        <2> QED BY <1>1, <2>1, <2>2 DEF Next
    <1>2. IInv /\ [Next]_vars =>
             [\A d \in Devices :
                 dev[d].i = "req" /\ dev[d]'.i = "wait" => cpu = Br[Level[d]]]_vars
        BY <1>1
    <1> QED BY <1>2, GrantInvariant, PTL DEF Spec, GrantComesFromCpu

(* How a grant of the processor ends.                                      *)
LEMMA GrantOutcome ==
    ASSUME IInv, [Next]_vars, NEW l \in Levels, cpu = Br[l], cpu' # Br[l]
    PROVE  /\ cpu' = "trap"
           /\ \E d \in Devices : /\ Level[d] = l
                                 /\ dev[d].i = "wait"
                                 /\ dev[d].vec # 0
                                 /\ cpu_ivec[l] = <<d, dev[d].vec>>
    <1>1. ClkEdge
        BY DEF Next, NclkEdge, vars, cpuVars
    <1>2. ~cpu_br[l] /\ cpu' = IF l # 6 /\ cpu_ivec[l][2] = 0 THEN "ifetch" ELSE "trap"
        BY <1>1, CpuStep DEF IInv, CpuMoves
    <1>3. PICK d \in Devices : /\ arb[l] = d
                               /\ dev[d].i = "wait"
                               /\ cpu_ivec[l] = <<d, dev[d].vec>>
        BY <1>2 DEF IInv, Granting
    <1>4. Level[d] = l
        BY <1>3, DevicesAssumption DEF IInv, ArbiterServes
    <1>5. dev[d].vec # 0
        BY <1>3 DEF IInv, DeviceShapes, Shape
    <1> QED BY <1>2, <1>3, <1>4, <1>5

(* The processor traps only through the vector of a device that has taken  *)
(* the grant and put that vector up.                                       *)
THEOREM TrapsAreGranted ==
    ASSUME Discipline
    PROVE  Spec => TrapIsGranted
    <1>1. ASSUME IInv, [Next]_vars, NEW l \in Levels, cpu = Br[l], cpu' = "trap"
          PROVE  \E d \in Devices : /\ Level[d] = l
                                    /\ dev[d].i = "wait"
                                    /\ dev[d].vec # 0
                                    /\ cpu_ivec[l] = <<d, dev[d].vec>>
        <2>1. cpu' # Br[l]
            BY <1>1, LevelNames, StateNames
        <2> QED BY <1>1, <2>1, GrantOutcome
    <1>2. IInv /\ [Next]_vars =>
             [\A l \in Levels :
                 cpu = Br[l] /\ cpu' = "trap" =>
                    \E d \in Devices : /\ Level[d] = l
                                       /\ dev[d].i = "wait"
                                       /\ dev[d].vec # 0
                                       /\ cpu_ivec[l] = <<d, dev[d].vec>>]_vars
        BY <1>1
    <1> QED BY <1>2, GrantInvariant, PTL DEF Spec, TrapIsGranted

(* A passive release takes no interrupt away; under the discipline there   *)
(* is none at all: every grant ends in a trap.                             *)
THEOREM ReleasesLoseNothing ==
    ASSUME Discipline
    PROVE  Spec => /\ ReleaseLosesNothing
                   /\ [][\A l \in Levels : cpu = Br[l] => cpu' \in {Br[l], "trap"}]_vars
    <1>1. ASSUME IInv, [Next]_vars, NEW l \in Levels, cpu = Br[l]
          PROVE  cpu' \in {Br[l], "trap"}
        BY <1>1, GrantOutcome
    <1>2. IInv /\ [Next]_vars =>
             [\A l \in Levels : cpu = Br[l] => cpu' \in {Br[l], "trap"}]_vars
        BY <1>1
    <1>3. ASSUME NEW l \in Levels
          PROVE  "ifetch" \notin {Br[l], "trap"}
        BY LevelNames, StateNames
    <1>4. IInv /\ [Next]_vars =>
             [\A l \in Levels :
                 cpu = Br[l] /\ cpu' = "ifetch" =>
                    \A d \in Devices : Level[d] = l => dev[d].i # "wait"]_vars
        BY <1>1, <1>3
    <1> QED BY <1>2, <1>4, GrantInvariant, PTL DEF Spec, ReleaseLosesNothing

-----------------------------------------------------------------------------
(* With the discipline, every edge of the clock is a step of               *)
(* InterruptService, or none.                                              *)
ServiceStep == Service!Next \/ UNCHANGED Service!vars

(* A device that has been served waits one cycle more, without its grant:  *)
(* while the processor is in the first two states of the trap.             *)
WaitLingers ==
    \A d \in Devices : dev[d].i = "wait" /\ ~dev_bg[d] =>
        /\ edge = "clk"  => cpu = "trap"
        /\ edge = "nclk" => cpu \notin BrStates

LEMMA WaitLingersStep ==
    ASSUME Discipline, IInv, WaitLingers, [Next]_vars
    PROVE  WaitLingers'
    <1>1. CASE ClkEdge
        <2>1. edge = "clk" /\ edge' = "nclk" /\ dev' = dev /\ dev_bg' = dev_bg /\ CpuMoves
            BY <1>1, CpuStep DEF ClkEdge, busVars, IInv
        <2>2. cpu = "trap" => \A l \in Levels : cpu' # Br[l]
            BY <2>1, LevelNames, StateNames DEF CpuMoves
        <2>3. cpu = "trap" => cpu' \notin BrStates
            BY <2>2 DEF BrStates
        <2> QED BY <2>1, <2>3 DEF WaitLingers
    <1>2. CASE NclkEdge
        <2>1. edge = "nclk" /\ edge' = "clk" /\ cpu' = cpu
            BY <1>2 DEF NclkEdge, cpuVars
        <2> SUFFICES ASSUME NEW d \in Devices, dev'[d].i = "wait", ~dev_bg'[d]
                     PROVE  cpu = "trap"
            BY <2>1 DEF WaitLingers
        <2>2. PICK w \in BOOLEAN : Edge(Kind[d], dev[d], dev_bg[d], w, dev'[d])
            BY <1>2, NclkDevices DEF DeviceMoves
        <2>3. dev[d].i \in {"idle", "req", "wait"}
            BY DEF IInv, TypeOK, DeviceRecord
        <2>4. dev_bg[d]
            BY <2>2, <2>3 DEF Edge
        <2>5. dev_bg'[d] = bg[Level[d]]
            <3>1. arb[Level[d]] = d
                BY <2>4 DEF IInv, ArbiterServes
            <3> QED BY <1>2, <3>1 DEF NclkEdge, NextDevBg
        <2>6. cpu # Br[Level[d]]
            BY <2>5, LevelAssumption DEF IInv, GrantIsState
        <2> QED BY <2>4, <2>6 DEF IInv, GrantEnds
    <1>3. CASE UNCHANGED vars
        BY <1>3 DEF vars, cpuVars, busVars, WaitLingers
    <1> QED BY <1>1, <1>2, <1>3 DEF Next

(* The takers are granted, and there is one of them at most; while the     *)
(* processor gives no grant there is none.                                 *)
LEMMA TakersAreGranted ==
    ASSUME IInv, WaitLingers
    PROVE  /\ \A l \in Levels : l \in granted <=> cpu = Br[l]
           /\ \A d \in takers : d \in Devices /\ dev_bg[d] /\ Level[d] \in granted
           /\ \A c, d \in takers : c = d
           /\ granted = {} => takers = {}
    <1>1. \A l \in Levels : l \in granted <=> cpu = Br[l]
        BY DEF granted, IInv, GrantIsState
    <1>2. ASSUME NEW d \in takers
          PROVE  d \in Devices /\ dev_bg[d] /\ Level[d] \in granted
        <2>1. d \in Devices /\ Level[d] \in Levels /\ bg[Level[d]] /\ dev[d].i = "wait"
            BY LevelAssumption DEF takers
        <2>2. cpu \in BrStates /\ cpu # "trap"
            BY <2>1, LevelNames, StateNames DEF IInv, GrantIsState
        <2>3. edge \in {"clk", "nclk"}
            BY DEF IInv, TypeOK
        <2> QED BY <2>1, <2>2, <2>3 DEF WaitLingers, granted
    <1>3. \A c, d \in takers : c = d
        BY <1>2 DEF IInv, SingleGrant
    <1> QED BY <1>1, <1>2, <1>3

(* A device that has taken the grant keeps it while the processor waits.   *)
LEMMA TakerStays ==
    ASSUME Discipline, IInv, WaitLingers, NclkEdge, NEW d \in takers
    PROVE  d \in takers'
    <1>1. d \in Devices /\ dev_bg[d] /\ Level[d] \in Levels /\ bg[Level[d]] /\ dev[d].i = "wait"
        BY TakersAreGranted, LevelAssumption DEF takers
    <1>2. bg' = bg
        BY DEF NclkEdge, cpuVars
    <1>3. ~init
        BY <1>1, LevelNames, StateNames DEF IInv, GrantIsState
    <1>4. d \in have
        BY <1>1 DEF IInv, DeviceShapes
    <1>5. PICK w \in BOOLEAN : Edge(Kind[d], dev[d], dev_bg[d], w, dev'[d])
        BY <1>1, <1>3, <1>4, NclkDevices DEF DeviceMoves
    <1>6. dev'[d].i = "wait"
        BY <1>1, <1>5 DEF Edge
    <1> QED BY <1>1, <1>2, <1>6 DEF takers

LEMMA NclkServes ==
    ASSUME Discipline, IInv, IInv', WaitLingers, WaitLingers', NclkEdge
    PROVE  ServiceStep
    <1>1. cpu' = cpu /\ ipl' = ipl /\ bg' = bg
        BY DEF NclkEdge, cpuVars
    <1>2. granted' = granted /\ trapping' = trapping
        BY <1>1 DEF granted, trapping
    <1>3. /\ \A d \in takers' : d \in Devices /\ Level[d] \in granted
          /\ \A c, d \in takers' : c = d
        <2>1. ASSUME NEW d \in takers'
              PROVE  d \in Devices /\ Level[d] \in granted /\ dev_bg'[d]
            <3>1. /\ d \in Devices /\ Level[d] \in Levels /\ bg[Level[d]]
                  /\ dev'[d].i = "wait"
                BY <1>1, LevelAssumption DEF takers
            <3>2. cpu \in BrStates /\ cpu # "trap"
                BY <3>1, LevelNames, StateNames DEF IInv, GrantIsState
            <3>3. edge' = "clk"
                BY DEF NclkEdge
            <3> QED BY <1>1, <3>1, <3>2, <3>3 DEF WaitLingers, granted
        <2> QED BY <2>1 DEF IInv, SingleGrant
    <1>4. CASE takers = {}
        <2>1. CASE takers' = {}
            BY <1>1, <1>2, <1>4, <2>1 DEF ServiceStep, Service!vars
        <2>2. CASE takers' # {}
            <3>1. PICK d \in takers' : takers' = {d}
                BY <1>3, <2>2
            <3>2. Service!Take
                BY <1>1, <1>2, <1>3, <1>4, <3>1 DEF Service!Take
            <3> QED BY <3>2 DEF ServiceStep, Service!Next
        <2> QED BY <2>1, <2>2
    <1>5. CASE takers # {}
        <2>1. PICK d \in takers : TRUE
            BY <1>5
        <2>2. takers = {d} /\ takers' = {d}
            BY <1>3, <2>1, TakersAreGranted, TakerStays
        <2> QED BY <1>1, <1>2, <2>2 DEF ServiceStep, Service!vars
    <1> QED BY <1>4, <1>5

(* An edge that leaves the processor in the state of a grant, or takes it  *)
(* from there, leaves the priority alone.                                  *)
LEMMA GrantKeepsPriority ==
    ASSUME ClkEdge, NEW l \in Levels, cpu = Br[l]
    PROVE  ipl' = ipl
    <1>1. cpu \in {"br4", "br5", "br6"}
        BY LevelNames, StateNames
    <1>2. ~Trap
        <2>1. ASSUME NEW n \in 1..8, cpu = TrapSequence[n] PROVE FALSE
            BY <1>1, <2>1, StateNames
        <2> QED BY <2>1 DEF Trap
    <1>3. StateBr \/ CpuHolds
        BY <1>1, <1>2 DEF ClkEdge, StateInit, IfetchNpr, IfetchHalt, IfetchTrap, IfetchBr,
           IfetchRun, Decode, Execute, StateNpg, StateHalt
    <1> QED BY <1>3 DEF StateBr, CpuHolds, cpuVars

LEMMA ClkServes ==
    ASSUME Discipline, IInv, IInv', WaitLingers, WaitLingers', ClkEdge
    PROVE  ServiceStep
    <1>1. edge = "clk" /\ dev' = dev /\ dev_bg' = dev_bg /\ CpuMoves
        BY CpuStep DEF ClkEdge, busVars, IInv
    <1>2. /\ \A l \in Levels : l \in granted <=> cpu = Br[l]
          /\ granted \subseteq Levels
          /\ granted = {} => takers = {}
        BY TakersAreGranted DEF granted
    <1>3. /\ \A l \in Levels : l \in granted' <=> cpu' = Br[l]
          /\ granted' \subseteq Levels
        BY <1>1 DEF CpuMoves, GrantIsState, granted
    <1>4. ipl' \in 0..7 /\ trapping' \in BOOLEAN
        BY DEF IInv, TypeOK, trapping
    <1>5. ASSUME granted' = {} PROVE takers' = {}
        BY <1>5, LevelAssumption DEF granted, takers
    <1>6. CASE granted = {} /\ granted' = {}
        <2>1. Service!Run
            BY <1>2, <1>4, <1>5, <1>6 DEF Service!Run
        <2> QED BY <2>1 DEF ServiceStep, Service!Next
    <1>7. CASE granted = {} /\ granted' # {}
        <2>1. PICK l \in Levels : l \in granted'
            BY <1>3, <1>7
        <2>2. granted' = {l}
            BY <1>3, <2>1, LevelNames
        <2>3. cpu' = Br[l] /\ cpu = "ifetch" /\ ipl < l
            BY <1>1, <1>2, <1>3, <1>7, <2>1 DEF CpuMoves
        <2>4. ipl' = ipl
            BY <1>1, <2>3 DEF CpuMoves
        <2>5. ~trapping /\ ~trapping'
            BY <2>3, LevelNames, StateNames DEF trapping
        <2>6. takers' = {}
            <3> SUFFICES ASSUME NEW d \in Devices, dev[d].i = "wait" PROVE FALSE
                BY <1>1 DEF takers
            <3>1. CASE dev_bg[d]
                <4>1. cpu # Br[Level[d]]
                    BY <2>3, LevelAssumption, LevelNames, StateNames
                <4> QED BY <1>1, <3>1, <4>1 DEF IInv, GrantEnds
            <3>2. CASE ~dev_bg[d]
                BY <1>1, <2>3, <3>2 DEF WaitLingers
            <3> QED BY <3>1, <3>2
        <2>7. Service!Grant
            BY <1>2, <1>7, <2>2, <2>3, <2>4, <2>5, <2>6
               DEF Service!Grant, trapping
        <2> QED BY <2>7 DEF ServiceStep, Service!Next
    <1>8. CASE granted # {}
        <2>1. PICK l \in Levels : l \in granted /\ cpu = Br[l]
            BY <1>2, <1>8
        <2>2. ipl' = ipl
            BY <2>1, GrantKeepsPriority
        <2>3. CASE cpu' = Br[l]
            <3>1. granted' = granted
                BY <1>2, <1>3, <2>1, <2>3
            <3>2. takers' = takers
                BY <1>1, <3>1, LevelAssumption DEF granted, takers
            <3>3. trapping' = trapping
                BY <2>1, <2>3 DEF trapping
            <3> QED BY <2>2, <3>1, <3>2, <3>3 DEF ServiceStep, Service!vars
        <2>4. CASE cpu' # Br[l]
            <3>1. /\ cpu' = "trap"
                  /\ \E d \in Devices : Level[d] = l /\ dev[d].i = "wait"
                BY <2>1, <2>4, GrantOutcome DEF Next
            <3>2. PICK d \in Devices : Level[d] = l /\ dev[d].i = "wait"
                BY <3>1
            <3>3. d \in takers
                BY <2>1, <3>2 DEF takers, granted
            <3>4. takers = {d}
                BY <3>3, TakersAreGranted
            <3>5. granted' = {}
                BY <1>3, <3>1, LevelNames, StateNames
            <3>6. trapping'
                BY <3>1, StateNames DEF trapping
            <3>7. Service!Interrupt
                BY <1>5, <2>2, <3>4, <3>5, <3>6 DEF Service!Interrupt, trapping
            <3> QED BY <3>7 DEF ServiceStep, Service!Next
        <2> QED BY <2>3, <2>4
    <1> QED BY <1>6, <1>7, <1>8

(* Under the discipline, devices, arbiters and processor implement         *)
(* InterruptService, for any devices on any levels and chains: each grant  *)
(* is taken by one device, ends in its trap, and is taken only once.       *)
THEOREM ServiceImplemented ==
    ASSUME Discipline
    PROVE  Spec => ImplementsService
    <1>1. Init => Service!Init /\ WaitLingers
        <2> SUFFICES ASSUME Init PROVE Service!Init /\ WaitLingers
            OBVIOUS
        <2>1. \A d \in Devices : dev[d].i = "idle"
            BY InitDevice
        <2>2. ~trapping
            BY StateNames DEF Init, trapping
        <2>3. granted = {} /\ takers = {} /\ ipl = 0
            BY <2>1 DEF Init, granted, takers
        <2> QED BY <2>1, <2>2, <2>3 DEF Service!Init, WaitLingers, trapping
    <1>2. IInv /\ IInv' /\ WaitLingers /\ WaitLingers' /\ [Next]_vars
             => [Service!Next]_(Service!vars)
        <2> SUFFICES ASSUME IInv, IInv', WaitLingers, WaitLingers', [Next]_vars
                     PROVE  ServiceStep
            BY DEF ServiceStep
        <2>1. CASE UNCHANGED vars
            BY <2>1 DEF vars, cpuVars, busVars, ServiceStep, Service!vars, granted, takers,
                        trapping
        <2> QED BY <2>1, ClkServes, NclkServes DEF Next
    <1>3. IInv /\ WaitLingers /\ [Next]_vars => WaitLingers'
        BY WaitLingersStep
    <1> QED BY <1>1, <1>2, <1>3, GrantInvariant, PTL DEF Spec, ImplementsService, Service!Spec
=============================================================================
