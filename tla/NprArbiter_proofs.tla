------------------------- MODULE NprArbiter_proofs -------------------------
(***************************************************************************)
(* Proofs about NprArbiter, for any set of bus masters, any chain, any      *)
(* burst length and any length of the bus reset: the types, one master at a *)
(* time, a burst owns the bus, and no strobe outlives a reset.              *)
(***************************************************************************)
EXTENDS NprArbiter, TLAPS

(* The processor's grant line is its state, and the bus is reset only in   *)
(* state_init.                                                             *)
GrantIsState ==
    /\ cpu_npg <=> cpu = "npg"
    /\ init => cpu = "init"

(* A granted master is the one served. The processor holds the bus for it  *)
(* because it sees the request, or because a reset has just interrupted    *)
(* them both: then the grant lasts until the arbiter leaves its reset, and *)
(* the processor is still in state_init.                                   *)
GrantIsServed ==
    \A d \in Devices : dev_npg[d] =>
        /\ npr_state = d
        /\ \/ cpu = "npg" /\ (cpu_npr \/ reset)
           \/ cpu = "init" /\ init /\ (reset \/ edge = "nclk")

(* An engine that wants the bus or is in its burst keeps its request up,   *)
(* and its strobe is up only in the burst. The block mover ends its burst   *)
(* on a rising edge, with the strobe of the last word perhaps, and takes    *)
(* its request down on the falling one; its strobe outlives a reset by half *)
(* a cycle.                                                                *)
EngineShape ==
    \A d \in Devices :
        /\ engine[d].phase \in {"ask", "own"} => engine[d].npr
        /\ engine[d].strobe =>
              engine[d].phase = "own" \/ (d \in Movers /\ (init \/ engine[d].phase = "done"))
        /\ d \in Movers /\ engine[d].phase = "done" /\ edge = "nclk" => engine[d].npr
        /\ d \in Movers /\ engine[d].phase = "idle" => ~engine[d].npr
        /\ d \in Movers /\ init /\ edge = "clk" => engine[d].phase = "idle"

(* An engine on the bus without a grant is being reset.                    *)
OnBus(d) ==
    \/ engine[d].phase = "own"
    \/ engine[d].strobe
    \/ d \in Movers /\ engine[d].phase = "done" /\ engine[d].npr

EngineOwns == \A d \in Devices : OnBus(d) /\ ~dev_npg[d] => init

IInv == TypeOK /\ GrantIsState /\ GrantIsServed /\ EngineShape /\ EngineOwns

-----------------------------------------------------------------------------
(* One step of a controller's engine keeps its shape, and it is on the bus  *)
(* after the step only if it was or is granted.                            *)
LEMMA ControllerStep ==
    ASSUME NEW d \in Devices, NEW e \in Engines, NEW g \in BOOLEAN,
           NEW m \in Moves, NEW n \in 0..Burst,
           e.phase \in {"ask", "own"} => e.npr,
           e.strobe => e.phase = "own"
    PROVE  LET f == Controller(d, e, g, m, n)
           IN /\ f \in Engines
              /\ f.phase \in {"ask", "own"} => f.npr
              /\ f.strobe => f.phase = "own"
              /\ f.phase = "own" => e.phase = "own" \/ g
    <1> DEFINE f == Controller(d, e, g, m, n)
    <1>1. EngineReset \in Engines
        BY BurstAssumption DEF EngineReset, Engines
    <1>2. CASE m = "drop" /\ d \in Withdraws
        <2>1. f = EngineReset
            BY <1>2 DEF Controller
        <2> QED BY <1>1, <2>1 DEF EngineReset
    <1>3. CASE ~(m = "drop" /\ d \in Withdraws) /\ e.phase = "idle"
        <2>1. f \in {Ask(e, g, n), [e EXCEPT !.phase = "done"], e}
            BY <1>3 DEF Controller
        <2> QED BY <1>3, <2>1, ZenonT(60) DEF Ask, Engines
    <1>4. CASE ~(m = "drop" /\ d \in Withdraws) /\ e.phase = "ask"
        <2>1. f \in {Ask(e, g, n), [e EXCEPT !.phase = "done"]}
            BY <1>4 DEF Controller
        <2> QED BY <1>4, <2>1 DEF Ask, Engines
    <1>5. CASE ~(m = "drop" /\ d \in Withdraws) /\ e.phase = "own"
        <2>1. f \in {[e EXCEPT !.strobe = FALSE], Transfer(e)}
            BY <1>5 DEF Controller
        <2>2. e.left # 0 => e.left - 1 \in 0..Burst
            BY BurstAssumption DEF Engines
        <2> QED BY <1>1, <1>5, <2>1, <2>2 DEF Transfer, Engines, EngineReset
    <1>6. CASE ~(m = "drop" /\ d \in Withdraws) /\ e.phase = "done"
        <2>1. f \in {[e EXCEPT !.phase = "idle"], e}
            BY <1>6 DEF Controller
        <2> QED BY <1>6, <2>1 DEF Engines
    <1> QED BY <1>2, <1>3, <1>4, <1>5, <1>6 DEF Engines

(* One step of the block mover's bus half, outside reset.                  *)
LEMMA MoverStep ==
    ASSUME NEW e \in Engines, NEW g \in BOOLEAN, NEW m \in Moves,
           e.phase \in {"ask", "own"} => e.npr,
           e.phase = "idle" => ~e.npr
    PROVE  LET f == Mover(e, g, m)
           IN /\ f \in Engines
              /\ f.phase = "idle" => ~f.npr
              /\ f.phase \in {"ask", "own"} => f.npr
              /\ f.strobe => f.phase \in {"own", "done"} /\ f.npr /\ g
              /\ f.phase = "own" => e.phase = "own" \/ g
              /\ f.phase = "done" => f.npr /\ ((e.phase = "done" /\ e.npr) \/ g)
    <1> DEFINE f == Mover(e, g, m)
    <1>1. CASE ~e.npr
        BY <1>1, BurstAssumption DEF Mover, Engines, EngineReset
    <1>2. CASE e.npr /\ (~g \/ e.phase = "done")
        <2>1. f = [e EXCEPT !.strobe = FALSE]
            BY <1>2 DEF Mover
        <2> QED BY <1>2, <2>1 DEF Engines
    <1>3. CASE e.npr /\ g /\ e.phase = "ask"
        <2>1. f = [e EXCEPT !.strobe = FALSE, !.phase = IF e.left = 0 THEN "ask" ELSE "own"]
            BY <1>3 DEF Mover
        <2> QED BY <1>3, <2>1 DEF Engines
    <1>4. CASE e.npr /\ g /\ e.phase = "own" /\ e.left = 0
        <2>1. PICK b \in BOOLEAN : b = (m = "go")
            OBVIOUS
        <2>2. f = [e EXCEPT !.strobe = b, !.phase = "done"]
            BY <1>4, <2>1 DEF Mover
        <2> QED BY <1>4, <2>2 DEF Engines
    <1>5. CASE e.npr /\ g /\ e.phase = "own" /\ e.left # 0
        <2>1. PICK b \in BOOLEAN : b = (m = "go")
            OBVIOUS
        <2>2. e.left - 1 \in 0..Burst
            BY <1>5, BurstAssumption DEF Engines
        <2>3. f = [e EXCEPT !.strobe = b, !.left = @ - 1]
            BY <1>5, <2>1 DEF Mover
        <2> QED BY <1>5, <2>2, <2>3 DEF Engines
    <1> QED BY <1>1, <1>2, <1>3, <1>4, <1>5 DEF Engines

(* One step of the block mover's request half.                             *)
LEMMA MoverRequestStep ==
    ASSUME NEW e \in Engines, NEW g \in BOOLEAN, NEW m \in Moves, NEW n \in Lengths,
           init \in BOOLEAN,
           e.phase \in {"ask", "own"} => e.npr,
           e.phase = "idle" => ~e.npr,
           e.strobe => e.phase \in {"own", "done"} \/ init
    PROVE  LET f == MoverAtNclk(e, g, m, n)
           IN /\ f \in Engines
              /\ f.phase = "idle" => ~f.npr
              /\ f.strobe = e.strobe
              /\ f.phase \in {"ask", "own"} => f.npr
              /\ f.strobe => f.phase \in {"own", "done"} \/ init
              /\ init => f.phase = "idle"
              /\ f.phase = "own" => e.phase = "own"
              /\ f.phase = "done" => e.phase = "done"
              /\ f.phase = "done" /\ f.npr => e.npr /\ ~g
    <1> DEFINE f == MoverAtNclk(e, g, m, n)
    <1>1. CASE init
        <2>1. f = [EngineReset EXCEPT !.strobe = e.strobe]
            BY <1>1 DEF MoverAtNclk
        <2>2. f = [phase |-> "idle", npr |-> FALSE, strobe |-> e.strobe, left |-> 0]
            BY <2>1 DEF EngineReset
        <2> HIDE DEF f
        <2>3. e.strobe \in BOOLEAN
            BY DEF Engines
        <2>4. f \in Engines
            BY <2>2, <2>3, BurstAssumption DEF Engines
        <2>5. /\ f.strobe = e.strobe
              /\ f.phase = "idle" /\ ~f.npr
            BY <2>2
        <2> QED BY <1>1, <2>4, <2>5 DEF f
    <1>2. CASE ~init /\ e.phase = "idle" /\ m = "go"
        <2>1. f = [e EXCEPT !.phase = "ask", !.npr = TRUE, !.left = n]
            BY <1>2 DEF MoverAtNclk
        <2>2. n \in 0..Burst
            BY LengthsAssumption
        <2> QED BY <1>2, <2>1, <2>2 DEF Engines
    <1>3. CASE ~init /\ e.phase = "done" /\ g
        <2>1. f = [e EXCEPT !.npr = FALSE]
            BY <1>3 DEF MoverAtNclk
        <2> HIDE DEF f
        <2>2. /\ f \in Engines
              /\ f.strobe = e.strobe
              /\ f.phase = "done"
              /\ ~f.npr
            BY <1>3, <2>1 DEF Engines
        <2> QED BY <1>3, <2>2 DEF f
    <1>4. CASE /\ ~init
               /\ ~(e.phase = "idle" /\ m = "go")
               /\ ~(e.phase = "done" /\ g)
        <2>1. f = e
            BY <1>4 DEF MoverAtNclk
        <2> QED BY <1>4, <2>1
    <1> QED BY <1>1, <1>2, <1>3, <1>4

-----------------------------------------------------------------------------
LEMMA InitInv == Init => IInv
    <1> SUFFICES ASSUME Init PROVE IInv
        OBVIOUS
    <1>1. EngineReset \in Engines
        BY BurstAssumption DEF EngineReset, Engines
    <1>2. engine \in [Devices -> Engines] /\ dev_npg \in [Devices -> BOOLEAN]
        BY <1>1 DEF Init
    <1>3. reset \in BOOLEAN /\ init \in BOOLEAN /\ clr \in BOOLEAN
          /\ cpu_npg \in BOOLEAN /\ cpu_npr \in BOOLEAN
        BY DEF Init
    <1>4. TypeOK
        BY <1>2, <1>3, ResetTimeAssumption DEF Init, TypeOK
    <1> QED BY <1>4 DEF Init, IInv, GrantIsState, GrantIsServed, EngineShape,
                    EngineOwns, OnBus, EngineReset

(* The processor's half of the rising edge.                                *)
LEMMA CpuStepInv ==
    ASSUME IInv, CpuReset \/ (~reset /\ CpuStep), edge = "clk"
    PROVE  /\ cpu' \in {"init", "fetch", "run", "npg", "halt"}
           /\ initcycles' \in 0..ResetTime
           /\ init' \in BOOLEAN
           /\ cpu_npg' \in BOOLEAN
           /\ GrantIsState'
           /\ reset => cpu' = "init" /\ init'
           /\ ~reset /\ cpu = "npg" /\ cpu_npr => cpu' = "npg"
    <1> USE DEF IInv, TypeOK, GrantIsState
    <1> USE ResetTimeAssumption
    <1>1. CASE CpuReset
        <2>1. cpu' = "init" /\ initcycles' = ResetTime /\ reset
            BY <1>1 DEF CpuReset
        <2>2. init' = TRUE /\ cpu_npg' = FALSE
            BY <1>1 DEF CpuReset
        <2>3. GrantIsState'
            BY <2>1, <2>2
        <2>4. initcycles' \in 0..ResetTime
            BY <2>1
        <2>5. init' \in BOOLEAN /\ cpu_npg' \in BOOLEAN /\ init'
            BY <2>2
        <2> QED BY <2>1, <2>3, <2>4, <2>5, Zenon
    <1>2. CASE ~reset /\ StateInit
        <2>1. initcycles # 0 => initcycles - 1 \in 0..ResetTime
            OBVIOUS
        <2> QED BY <1>2, <2>1 DEF StateInit
    <1>3. CASE ~reset /\ IfetchNpr
        BY <1>3 DEF IfetchNpr
    <1>4. CASE ~reset /\ IfetchRun
        BY <1>4 DEF IfetchRun
    <1>5. CASE ~reset /\ Run
        BY <1>5 DEF Run
    <1>6. CASE ~reset /\ StateNpg
        BY <1>6 DEF StateNpg
    <1>7. CASE ~reset /\ StateHalt
        BY <1>7 DEF StateHalt
    <1> QED BY <1>1, <1>2, <1>3, <1>4, <1>5, <1>6, <1>7 DEF CpuStep

(* The engines at a rising edge: one that is on the bus after it was        *)
(* granted the bus before it, and the bus reset stops them all.            *)
LEMMA ClkEngines ==
    ASSUME IInv, ClkEdge, NEW d \in Devices
    PROVE  /\ engine'[d] \in Engines
           /\ engine'[d].phase \in {"ask", "own"} => engine'[d].npr
           /\ engine'[d].strobe =>
                 engine'[d].phase = "own" \/ (d \in Movers /\ engine'[d].phase = "done")
           /\ d \in Movers /\ engine'[d].phase = "done" => engine'[d].npr
           /\ d \in Movers /\ engine'[d].phase = "idle" => ~engine'[d].npr
           /\ OnBus(d)' => dev_npg[d]
           /\ init => engine'[d].phase = "idle"
    <1>1. edge = "clk"
        BY DEF ClkEdge
    <1>2. PICK m \in [Devices -> Moves], n \in 0..Burst :
             engine' = [c \in Devices |-> EngineAtClk(c, m[c], n)]
        BY DEF ClkEdge
    <1> DEFINE e == engine[d]
    <1>3. /\ e \in Engines
          /\ dev_npg[d] \in BOOLEAN
          /\ m[d] \in Moves
          /\ engine'[d] = EngineAtClk(d, m[d], n)
        BY <1>2 DEF IInv, TypeOK
    <1>4. /\ e.phase \in {"ask", "own"} => e.npr
          /\ e.strobe => e.phase = "own" \/ (d \in Movers /\ (init \/ e.phase = "done"))
          /\ d \in Movers /\ e.phase = "idle" => ~e.npr
          /\ d \in Movers /\ init => e.phase = "idle"
          /\ (e.phase = "own" \/ e.strobe) /\ ~dev_npg[d] => init
          /\ d \in Movers /\ e.phase = "done" /\ e.npr /\ ~dev_npg[d] => init
        BY <1>1 DEF IInv, EngineShape, EngineOwns, OnBus
    <1>5. CASE init /\ d \in Movers
        <2>1. engine'[d] = [e EXCEPT !.strobe = FALSE]
            BY <1>3, <1>5 DEF EngineAtClk, EngineAtInit
        <2>2. engine'[d] \in Engines /\ engine'[d].phase = "idle"
              /\ engine'[d].strobe = FALSE /\ engine'[d].npr = e.npr
            BY <1>3, <1>4, <1>5, <2>1 DEF Engines
        <2> QED BY <1>4, <1>5, <2>2 DEF OnBus
    <1>6. CASE init /\ d \notin Movers
        <2>1. engine'[d] = EngineReset
            BY <1>3, <1>6 DEF EngineAtClk, EngineAtInit
        <2> QED BY <1>6, <2>1, BurstAssumption DEF EngineReset, Engines, OnBus
    <1>7. CASE ~init /\ d \in Movers
        <2>1. engine'[d] = Mover(e, dev_npg[d], m[d])
            BY <1>3, <1>7 DEF EngineAtClk
        <2>2. (e.phase = "idle" => ~e.npr) /\ (e.phase = "done" /\ e.npr => dev_npg[d])
              /\ (e.phase = "own" => dev_npg[d])
            BY <1>4, <1>7
        <2> HIDE DEF e
        <2>3. /\ engine'[d] \in Engines
              /\ engine'[d].phase = "idle" => ~engine'[d].npr
              /\ engine'[d].phase \in {"ask", "own"} => engine'[d].npr
              /\ engine'[d].strobe =>
                    engine'[d].phase \in {"own", "done"} /\ engine'[d].npr /\ dev_npg[d]
              /\ engine'[d].phase = "own" => e.phase = "own" \/ dev_npg[d]
              /\ engine'[d].phase = "done" =>
                    engine'[d].npr /\ ((e.phase = "done" /\ e.npr) \/ dev_npg[d])
            BY <1>3, <1>4, <2>1, <2>2, MoverStep
        <2> QED BY <1>7, <2>2, <2>3 DEF OnBus
    <1>8. CASE ~init /\ d \notin Movers
        <2>1. engine'[d] = Controller(d, e, dev_npg[d], m[d], n)
            BY <1>3, <1>8 DEF EngineAtClk
        <2>2. e.strobe => e.phase = "own"
            BY <1>4, <1>8
        <2> HIDE DEF e
        <2>3. /\ engine'[d] \in Engines
              /\ engine'[d].phase \in {"ask", "own"} => engine'[d].npr
              /\ engine'[d].strobe => engine'[d].phase = "own"
              /\ engine'[d].phase = "own" => e.phase = "own" \/ dev_npg[d]
            BY <1>3, <1>4, <2>1, <2>2, ControllerStep
        <2> QED BY <1>4, <1>8, <2>3 DEF OnBus
    <1> QED BY <1>5, <1>6, <1>7, <1>8

(* The rising edge.                                                        *)
LEMMA ClkInv == IInv /\ ClkEdge => IInv'
    <1> SUFFICES ASSUME IInv, ClkEdge PROVE IInv'
        OBVIOUS
    <1>1. /\ edge = "clk" /\ edge' = "nclk"
          /\ reset' \in BOOLEAN
          /\ clr' \in BOOLEAN
          /\ CpuReset \/ (~reset /\ CpuStep)
          /\ UNCHANGED <<cpu_npr, npr_state, dev_npg>>
        BY DEF ClkEdge, arbVars
    <1>2. PICK m \in [Devices -> Moves], n \in 0..Burst :
             engine' = [d \in Devices |-> EngineAtClk(d, m[d], n)]
        BY DEF ClkEdge
    <1>3. /\ cpu' \in {"init", "fetch", "run", "npg", "halt"}
          /\ initcycles' \in 0..ResetTime
          /\ init' \in BOOLEAN
          /\ cpu_npg' \in BOOLEAN
          /\ GrantIsState'
          /\ reset => cpu' = "init" /\ init'
          /\ ~reset /\ cpu = "npg" /\ cpu_npr => cpu' = "npg"
        BY <1>1, CpuStepInv
    <1>4. ASSUME NEW d \in Devices
          PROVE  /\ engine'[d] \in Engines
                 /\ engine'[d].phase \in {"ask", "own"} => engine'[d].npr
                 /\ engine'[d].strobe =>
                       engine'[d].phase = "own" \/ (d \in Movers /\ engine'[d].phase = "done")
                 /\ d \in Movers /\ engine'[d].phase = "done" => engine'[d].npr
                 /\ d \in Movers /\ engine'[d].phase = "idle" => ~engine'[d].npr
                 /\ OnBus(d)' => dev_npg[d]
        BY ClkEngines
    <1>5. engine' \in [Devices -> Engines]
        BY <1>2, <1>4
    <1>6. TypeOK'
        BY <1>1, <1>3, <1>5 DEF IInv, TypeOK
    <1>7. GrantIsServed'
        BY <1>1, <1>3 DEF IInv, GrantIsServed, TypeOK
    <1>8. EngineShape'
        BY <1>1, <1>4 DEF EngineShape
    <1>9. EngineOwns'
        BY <1>1, <1>4 DEF EngineOwns
    <1> QED BY <1>3, <1>6, <1>7, <1>8, <1>9 DEF IInv

(* The arbiter's half of the falling edge.                                 *)
LEMMA ArbiterInv ==
    ASSUME IInv, edge = "nclk",
           IF reset THEN NprReset ELSE NprIdle \/ NprServe
    PROVE  /\ cpu_npr' \in BOOLEAN
           /\ npr_state' \in Devices \cup {Idle}
           /\ dev_npg' \in [Devices -> BOOLEAN]
           /\ \A d \in Devices : dev_npg'[d] =>
                 /\ npr_state' = d
                 /\ \/ cpu = "npg" /\ (cpu_npr' \/ reset)
                    \/ cpu = "init" /\ init /\ reset
           /\ \A d \in Devices : dev_npg[d] /\ ~dev_npg'[d] =>
                 init \/ ~engine[d].npr
           /\ \A d \in Devices : ~dev_npg[d] /\ dev_npg'[d] => cpu = "npg"
    <1> USE DEF IInv, TypeOK, GrantIsState, GrantIsServed
    <1>1. CASE reset
        BY <1>1 DEF NprReset
    <1>2. CASE ~reset /\ NprIdle
        <2>1. npr_state' \in Devices \cup {Idle}
            BY <1>2 DEF NprIdle, Asking, Firsts
        <2>2. \A d \in Devices : ~dev_npg[d] /\ ~dev_npg'[d]
            BY <1>2, DevicesAssumption DEF NprIdle
        <2> QED BY <1>2, <2>1, <2>2 DEF NprIdle
    <1>3. CASE ~reset /\ NprServe
        <2>1. PICK s \in Devices :
                 /\ npr_state = s
                 /\ cpu_npr' = TRUE
                 /\ IF engine[s].npr
                    THEN npr_state' = s /\ dev_npg' = [dev_npg EXCEPT ![s] = cpu_npg]
                    ELSE npr_state' = Idle /\ dev_npg' = [dev_npg EXCEPT ![s] = FALSE]
            BY <1>3 DEF NprServe
        <2>2. \A d \in Devices : d # s => ~dev_npg[d] /\ ~dev_npg'[d]
            BY <2>1
        <2>3. CASE engine[s].npr
            <3>1. dev_npg'[s] = cpu_npg
                BY <2>1, <2>3
            <3>2. dev_npg[s] /\ ~dev_npg'[s] => init
                BY <3>1, <1>3
            <3> QED BY <2>1, <2>2, <2>3, <3>1, <3>2
        <2>4. CASE ~engine[s].npr
            <3>1. dev_npg'[s] = FALSE
                BY <2>1, <2>4
            <3> QED BY <2>1, <2>2, <2>4, <3>1
        <2> QED BY <2>3, <2>4
    <1> QED BY <1>1, <1>2, <1>3

(* The engines at a falling edge: only the block mover moves, and no engine *)
(* gets on the bus.                                                        *)
LEMMA NclkEngines ==
    ASSUME IInv, NclkEdge, NEW d \in Devices
    PROVE  /\ engine'[d] \in Engines
           /\ engine'[d].strobe = engine[d].strobe
           /\ engine'[d].phase \in {"ask", "own"} => engine'[d].npr
           /\ engine'[d].strobe =>
                 engine'[d].phase = "own" \/ (d \in Movers /\ (init \/ engine'[d].phase = "done"))
           /\ d \in Movers /\ engine'[d].phase = "idle" => ~engine'[d].npr
           /\ d \in Movers /\ init => engine'[d].phase = "idle"
           /\ engine'[d].phase = "own" => engine[d].phase = "own"
           /\ OnBus(d)' => OnBus(d) /\ (engine[d].npr \/ init)
    <1>1. edge = "nclk"
        BY DEF NclkEdge
    <1>2. PICK m \in [Movers -> Moves], n \in Lengths :
             engine' = [c \in Devices |-> IF c \in Movers
                                          THEN MoverAtNclk(engine[c], dev_npg[c], m[c], n)
                                          ELSE engine[c]]
        BY DEF NclkEdge
    <1> DEFINE e == engine[d]
    <1>3. /\ e \in Engines
          /\ dev_npg[d] \in BOOLEAN
          /\ init \in BOOLEAN
          /\ e.phase \in {"ask", "own"} => e.npr
          /\ e.strobe => e.phase = "own" \/ (d \in Movers /\ (init \/ e.phase = "done"))
          /\ d \in Movers /\ e.phase = "done" => e.npr
          /\ d \in Movers /\ e.phase = "idle" => ~e.npr
        BY <1>1 DEF IInv, TypeOK, EngineShape
    <1>4. CASE d \in Movers
        <2>1. engine'[d] = MoverAtNclk(e, dev_npg[d], m[d], n) /\ m[d] \in Moves
            BY <1>2, <1>4
        <2>2. /\ e.phase = "idle" => ~e.npr
              /\ e.strobe => e.phase \in {"own", "done"} \/ init
            BY <1>3, <1>4
        <2> HIDE DEF e
        <2>3. /\ engine'[d] \in Engines
              /\ engine'[d].phase = "idle" => ~engine'[d].npr
              /\ engine'[d].strobe = e.strobe
              /\ engine'[d].phase \in {"ask", "own"} => engine'[d].npr
              /\ engine'[d].strobe => engine'[d].phase \in {"own", "done"} \/ init
              /\ init => engine'[d].phase = "idle"
              /\ engine'[d].phase = "own" => e.phase = "own"
              /\ engine'[d].phase = "done" => e.phase = "done"
              /\ engine'[d].phase = "done" /\ engine'[d].npr => e.npr /\ ~dev_npg[d]
            BY <1>3, <2>1, <2>2, MoverRequestStep
        <2>4. OnBus(d)' => OnBus(d) /\ (e.npr \/ init)
            BY <1>3, <1>4, <2>2, <2>3 DEF OnBus, e
        <2> QED BY <1>4, <2>3, <2>4 DEF e
    <1>5. CASE d \notin Movers
        <2>1. engine'[d] = e
            BY <1>2, <1>5
        <2> QED BY <1>3, <1>5, <2>1 DEF OnBus
    <1> QED BY <1>4, <1>5

(* The falling edge.                                                       *)
LEMMA NclkInv == IInv /\ NclkEdge => IInv'
    <1> SUFFICES ASSUME IInv, NclkEdge PROVE IInv'
        OBVIOUS
    <1>1. /\ edge = "nclk" /\ edge' = "clk"
          /\ IF reset THEN NprReset ELSE NprIdle \/ NprServe
          /\ UNCHANGED <<reset, cpu, initcycles, init, clr, cpu_npg>>
        BY DEF NclkEdge, cpuVars
    <1>2. PICK m \in [Movers -> Moves], n \in Lengths :
             engine' = [d \in Devices |-> IF d \in Movers
                                          THEN MoverAtNclk(engine[d], dev_npg[d], m[d], n)
                                          ELSE engine[d]]
        BY DEF NclkEdge
    <1>3. /\ cpu_npr' \in BOOLEAN
          /\ npr_state' \in Devices \cup {Idle}
          /\ dev_npg' \in [Devices -> BOOLEAN]
          /\ \A d \in Devices : dev_npg'[d] =>
                /\ npr_state' = d
                /\ \/ cpu = "npg" /\ (cpu_npr' \/ reset)
                   \/ cpu = "init" /\ init /\ reset
          /\ \A d \in Devices : dev_npg[d] /\ ~dev_npg'[d] =>
                init \/ ~engine[d].npr
        BY <1>1, ArbiterInv
    <1>4. ASSUME NEW d \in Devices
          PROVE  /\ engine'[d] \in Engines
                 /\ engine'[d].strobe = engine[d].strobe
                 /\ engine'[d].phase \in {"ask", "own"} => engine'[d].npr
                 /\ engine'[d].strobe =>
                       engine'[d].phase = "own" \/ (d \in Movers /\ (init \/ engine'[d].phase = "done"))
                 /\ d \in Movers /\ engine'[d].phase = "idle" => ~engine'[d].npr
                 /\ d \in Movers /\ init => engine'[d].phase = "idle"
                 /\ OnBus(d)' => OnBus(d) /\ (engine[d].npr \/ init)
        BY NclkEngines
    <1>5. engine' \in [Devices -> Engines]
        BY <1>2, <1>4
    <1>6. TypeOK'
        BY <1>1, <1>3, <1>5 DEF IInv, TypeOK
    <1>7. GrantIsState'
        BY <1>1 DEF IInv, GrantIsState
    <1>8. GrantIsServed'
        BY <1>1, <1>3 DEF GrantIsServed
    <1>9. EngineShape'
        BY <1>1, <1>4 DEF EngineShape
    <1>10. EngineOwns'
        <2> SUFFICES ASSUME NEW d \in Devices, OnBus(d)', ~dev_npg'[d], ~init
                     PROVE  FALSE
            BY <1>1 DEF EngineOwns
        <2>1. OnBus(d) /\ engine[d].npr
            BY <1>4
        <2>2. dev_npg[d]
            BY <2>1 DEF IInv, EngineOwns
        <2> QED BY <1>3, <2>1, <2>2
    <1> QED BY <1>6, <1>7, <1>8, <1>9, <1>10 DEF IInv

(* The inductive invariant.                                                *)
THEOREM Invariant == Spec => []IInv
    <1>1. IInv /\ UNCHANGED vars => IInv'
        BY DEF vars, cpuVars, arbVars, IInv, TypeOK, GrantIsState, GrantIsServed,
               EngineShape, EngineOwns, OnBus
    <1>2. IInv /\ [Next]_vars => IInv'
        BY <1>1, ClkInv, NclkInv DEF Next
    <1> QED BY <1>2, InitInv, PTL DEF Spec

(* The variables keep their types.                                         *)
THEOREM TypeCorrect == Spec => []TypeOK
    <1>1. IInv => TypeOK
        BY DEF IInv
    <1> QED BY <1>1, Invariant, PTL

(* One master at a time, through every reset, whatever the set of masters. *)
THEOREM Exclusion == Spec => []OneMaster
    <1>1. IInv => OneMaster
        BY DEF IInv, OneMaster, GrantIsServed
    <1> QED BY <1>1, Invariant, PTL

(* An engine in its burst, or with a strobe up, has the bus (or is just    *)
(* being reset): no word is moved while another master's address is on it. *)
BurstOwnsBus ==
    \A d \in Devices :
        engine[d].phase = "own" \/ engine[d].strobe => dev_npg[d] \/ init

(* No engine moves a word without the bus, unless it is being reset.       *)
THEOREM Ownership == Spec => []BurstOwnsBus
    <1>1. IInv => BurstOwnsBus
        BY DEF IInv, BurstOwnsBus, EngineOwns, OnBus
    <1> QED BY <1>1, Invariant, PTL

(* No strobe left from before a reset is replayed on the next grant.       *)
THEOREM StrobesDown == Spec => NoStaleStrobe
    <1> DEFINE Quiet == \A d \in Devices :
                 ~dev_npg[d] /\ dev_npg'[d] => ~engine[d].strobe /\ ~engine'[d].strobe
    <1>1. IInv /\ ClkEdge => Quiet
        BY DEF ClkEdge, arbVars
    <1>2. IInv /\ NclkEdge => Quiet
        <2> SUFFICES ASSUME IInv, NclkEdge, NEW d \in Devices,
                            ~dev_npg[d], dev_npg'[d]
                     PROVE  ~engine[d].strobe /\ ~engine'[d].strobe
            OBVIOUS
        <2>1. edge = "nclk" /\ (IF reset THEN NprReset ELSE NprIdle \/ NprServe)
            BY DEF NclkEdge
        <2>2. cpu = "npg"
            BY <2>1, ArbiterInv
        <2>3. ~init
            BY <2>2 DEF IInv, GrantIsState
        <2>4. ~engine[d].strobe
            BY <2>3 DEF IInv, EngineOwns, OnBus
        <2>5. PICK m \in [Movers -> Moves], n \in Lengths :
                 engine'[d] = IF d \in Movers
                              THEN MoverAtNclk(engine[d], dev_npg[d], m[d], n)
                              ELSE engine[d]
            BY DEF NclkEdge
        <2>6. CASE d \in Movers
            <3>1. engine'[d] \in {engine[d], [engine[d] EXCEPT !.npr = FALSE],
                                  [engine[d] EXCEPT !.phase = "ask", !.npr = TRUE, !.left = n]}
                BY <2>3, <2>5, <2>6 DEF MoverAtNclk
            <3> QED BY <2>4, <3>1 DEF IInv, TypeOK, Engines
        <2>7. CASE d \notin Movers
            BY <2>4, <2>5, <2>7
        <2> QED BY <2>6, <2>7
    <1>3. UNCHANGED vars => Quiet
        BY DEF vars, arbVars
    <1>4. IInv /\ [Next]_vars => [Quiet]_vars
        BY <1>1, <1>2, <1>3 DEF Next
    <1> QED BY <1>4, Invariant, PTL DEF Spec, NoStaleStrobe

-----------------------------------------------------------------------------
(* The arbiter, the processor and the engines implement BusOwner: every    *)
(* edge of the clock is a step of the owners of the bus, or none.          *)
OwnerStep == Owner!Next \/ UNCHANGED Owner!vars

(* Half a cycle after it gave the bus away the processor still saw the     *)
(* request for which it did.                                               *)
LentForRequest == edge = "nclk" /\ cpu = "npg" => cpu_npr

LEMMA LentStep == IInv /\ LentForRequest /\ [Next]_vars => LentForRequest'
    <1> SUFFICES ASSUME IInv, LentForRequest, [Next]_vars PROVE LentForRequest'
        OBVIOUS
    <1>1. CASE NclkEdge
        BY <1>1 DEF NclkEdge, LentForRequest
    <1>2. CASE ClkEdge
        <2>1. cpu_npr' = cpu_npr /\ (CpuReset \/ CpuStep)
            BY <1>2 DEF ClkEdge, arbVars
        <2>2. cpu' = "npg" => cpu_npr
            BY <2>1 DEF CpuReset, CpuStep, StateInit, IfetchNpr, IfetchRun, Run, StateNpg,
                        StateHalt
        <2> QED BY <2>1, <2>2 DEF LentForRequest
    <1>3. CASE UNCHANGED vars
        BY <1>3 DEF vars, cpuVars, arbVars, LentForRequest
    <1> QED BY <1>1, <1>2, <1>3 DEF Next

(* Nobody is on the bus without a grant, except under the bus reset.       *)
LEMMA NobodyMoves ==
    ASSUME IInv, ~init, \A d \in Devices : ~dev_npg[d]
    PROVE  moving = {}
BY DEF IInv, EngineOwns, OnBus, moving

(* The engine that has the bus is the only one on it.                      *)
LEMMA OneHolder ==
    ASSUME IInv, NEW d \in Devices, dev_npg[d], cpu = "npg"
    PROVE  bus = "held" /\ holders = {d} /\ npr_state = d
<1>1. bus = "held"
    BY DEF bus
<1>2. \A c \in Devices : dev_npg[c] => npr_state = c
    BY DEF IInv, GrantIsServed
<1> QED BY <1>1, <1>2 DEF holders

(* Only what has the bus has a holder.                                     *)
LEMMA NoHolder == bus # "held" => holders = {}
BY DEF holders

LEMMA ClkOwner ==
    ASSUME IInv, IInv', ClkEdge
    PROVE  OwnerStep
    <1>1. /\ edge = "clk"
          /\ CpuReset \/ (~reset /\ CpuStep)
          /\ cpu_npr' = cpu_npr /\ npr_state' = npr_state /\ dev_npg' = dev_npg
        BY DEF ClkEdge, arbVars
    <1>2. \A d \in moving' : d \in Devices /\ dev_npg[d] /\ ~init
        <2> SUFFICES ASSUME NEW d \in Devices, engine'[d].phase = "own" \/ engine'[d].strobe
                     PROVE  dev_npg[d] /\ ~init
            BY DEF moving
        <2>1. OnBus(d)' => dev_npg[d]
            BY ClkEngines
        <2>2. init => engine'[d].phase = "idle" /\ ~engine'[d].strobe
            BY ClkEngines
        <2> QED BY <2>1, <2>2 DEF OnBus
    <1>3. \A d \in Devices : dev_npg[d] =>
             (cpu = "npg" /\ (cpu_npr \/ reset)) \/ (cpu = "init" /\ init)
        BY DEF IInv, GrantIsServed
    <1>4. init => cpu = "init"
        BY DEF IInv, GrantIsState
    <1>5. cpu # "npg" => moving' = {}
        BY <1>2, <1>3
    <1>6. cpu \notin {"init", "npg"} => moving = {}
        BY <1>3, <1>4, NobodyMoves
    <1>7. bus # "held" => holders = {}
        BY NoHolder
    <1>8. bus' # "held" => holders' = {}
        BY DEF holders
    <1>9. CASE cpu' = "init"
        <2>1. bus' = "reset"
            BY <1>9 DEF bus
        <2>2. moving' \subseteq holders
            <3> SUFFICES ASSUME NEW d \in moving' PROVE d \in holders
                OBVIOUS
            <3>1. d \in Devices /\ dev_npg[d] /\ cpu = "npg"
                BY <1>2, <1>3
            <3> QED BY <3>1, OneHolder
        <2>3. Owner!Reset
            BY <1>8, <2>1, <2>2 DEF Owner!Reset
        <2> QED BY <2>3 DEF OwnerStep, Owner!Next
    <1>10. CASE cpu' # "init" /\ ~reset /\ StateInit
        <2>1. cpu = "init" /\ cpu' = "fetch"
            BY <1>10 DEF StateInit
        <2>2. bus = "reset" /\ bus' = "cpu"
            BY <2>1 DEF bus
        <2>3. Owner!Start
            BY <1>5, <1>7, <1>8, <2>1, <2>2 DEF Owner!Start
        <2> QED BY <2>3 DEF OwnerStep, Owner!Next
    <1>11. CASE ~reset /\ IfetchNpr
        <2>1. cpu = "fetch" /\ cpu' = "npg" /\ cpu_npr
            BY <1>11 DEF IfetchNpr
        <2>2. bus = "cpu"
            BY <2>1 DEF bus
        <2>3. bus' \in {"lent", "back"}
            BY <1>1, <1>3, <2>1 DEF bus
        <2>4. Owner!Lend
            BY <1>5, <1>6, <1>7, <1>8, <2>1, <2>2, <2>3 DEF Owner!Lend
        <2> QED BY <2>4 DEF OwnerStep, Owner!Next
    <1>12. CASE cpu' # "init" /\ ~reset /\ (IfetchRun \/ Run \/ StateHalt)
        <2>1. cpu \in {"fetch", "run", "halt"} /\ cpu' \in {"fetch", "run", "halt"}
            BY <1>12 DEF IfetchRun, Run, StateHalt
        <2>2. bus = "cpu" /\ bus' = "cpu"
            BY <2>1 DEF bus
        <2> QED BY <1>5, <1>6, <1>7, <1>8, <2>1, <2>2 DEF OwnerStep, Owner!vars
    <1>13. CASE ~reset /\ StateNpg /\ cpu_npr
        <2>1. cpu = "npg" /\ cpu' = "npg"
            BY <1>13 DEF StateNpg
        <2>2. bus' = bus
            BY <1>1, <2>1 DEF bus
        <2>3. holders' = holders
            BY <1>1, <2>2 DEF holders
        <2>4. CASE \E d \in Devices : dev_npg[d]
            <3>1. PICK d \in Devices : dev_npg[d]
                BY <2>4
            <3>2. bus = "held" /\ holders = {d} /\ npr_state = d
                BY <2>1, <3>1, OneHolder
            <3>3. \A c \in Devices : dev_npg[c] => c = d
                BY <3>2 DEF IInv, GrantIsServed
            <3>4. moving' \subseteq holders
                BY <1>2, <3>2, <3>3
            <3>5. Owner!Move
                BY <2>2, <2>3, <3>2, <3>4 DEF Owner!Move
            <3> QED BY <3>5 DEF OwnerStep, Owner!Next
        <2>5. CASE \A d \in Devices : ~dev_npg[d]
            <3>1. moving = {}
                BY <1>4, <2>1, <2>5, NobodyMoves
            <3>2. moving' = {}
                BY <1>2, <2>5
            <3> QED BY <2>2, <2>3, <3>1, <3>2 DEF OwnerStep, Owner!vars
        <2> QED BY <2>4, <2>5
    <1>14. CASE ~reset /\ StateNpg /\ ~cpu_npr
        <2>1. cpu = "npg" /\ cpu' = "fetch"
            BY <1>14 DEF StateNpg
        <2>2. \A d \in Devices : ~dev_npg[d]
            BY <1>3, <1>14, <2>1
        <2>3. bus = "back" /\ bus' = "cpu"
            BY <1>14, <2>1, <2>2 DEF bus
        <2>4. moving = {}
            BY <1>4, <2>1, <2>2, NobodyMoves
        <2>5. moving' = {}
            BY <1>2, <2>2
        <2>6. Owner!Return
            BY <1>7, <1>8, <2>3, <2>4, <2>5 DEF Owner!Return
        <2> QED BY <2>6 DEF OwnerStep, Owner!Next
    <1>15. CpuReset => cpu' = "init"
        BY DEF CpuReset
    <1> QED BY <1>1, <1>9, <1>10, <1>11, <1>12, <1>13, <1>14, <1>15 DEF CpuStep

LEMMA NclkOwner ==
    ASSUME IInv, IInv', LentForRequest, NclkEdge
    PROVE  OwnerStep
    <1>1. /\ edge = "nclk"
          /\ IF reset THEN NprReset ELSE NprIdle \/ NprServe
          /\ cpu' = cpu /\ init' = init /\ cpu_npg' = cpu_npg
        BY DEF NclkEdge, cpuVars
    <1>2. moving' \subseteq moving
        BY NclkEngines DEF moving
    <1>3. init => cpu = "init"
        BY DEF IInv, GrantIsState
    <1>4. bus # "held" => holders = {}
        BY NoHolder
    <1>5. bus' # "held" => holders' = {}
        BY DEF holders
    <1>6. ~init /\ (\A d \in Devices : ~dev_npg[d]) => moving = {} /\ moving' = {}
        BY <1>2, NobodyMoves
    <1>7. CASE cpu = "init"
        <2>1. bus' = "reset"
            BY <1>1, <1>7 DEF bus
        <2>2. Owner!Reset
            BY <1>2, <1>5, <2>1 DEF Owner!Reset
        <2> QED BY <2>2 DEF OwnerStep, Owner!Next
    <1>8. CASE cpu \notin {"init", "npg"}
        <2>1. bus = "cpu" /\ bus' = "cpu"
            BY <1>1, <1>8 DEF bus
        <2>2. \A d \in Devices : ~dev_npg[d]
            BY <1>8 DEF IInv, GrantIsServed
        <2> QED BY <1>3, <1>4, <1>5, <1>6, <1>8, <2>1, <2>2 DEF OwnerStep, Owner!vars
    <1>9. ASSUME cpu = "npg", NEW d \in Devices, dev_npg[d]
          PROVE  OwnerStep
        <2>1. bus = "held" /\ holders = {d} /\ npr_state = d
            BY <1>9, OneHolder
        <2>2. CASE dev_npg'[d]
            <3>1. bus' = "held"
                BY <1>1, <1>9, <2>2 DEF bus
            <3>2. \A c \in Devices : dev_npg'[c] <=> c = d
                BY <2>2 DEF IInv, GrantIsServed
            <3>3. holders' = {d}
                BY <3>1, <3>2 DEF holders
            <3>4. moving \subseteq {d}
                BY <1>3, <1>9, <2>1 DEF moving, IInv, EngineOwns, OnBus, GrantIsServed
            <3>5. Owner!Move
                BY <1>2, <2>1, <3>1, <3>3, <3>4 DEF Owner!Move
            <3> QED BY <3>5 DEF OwnerStep, Owner!Next
        <2>3. CASE ~dev_npg'[d]
            <3>1. ~reset /\ NprServe
                BY <1>1, <1>9, <2>1, <2>3, DevicesAssumption DEF NprReset, NprIdle
            <3>2. cpu_npg
                BY <1>9 DEF IInv, GrantIsState
            <3>3. ~engine[d].npr /\ npr_state' = Idle /\ dev_npg' = [dev_npg EXCEPT ![d] = FALSE]
                BY <2>1, <2>3, <3>1, <3>2 DEF NprServe, IInv, TypeOK
            <3>4. \A c \in Devices : ~dev_npg'[c]
                BY <2>1, <3>3 DEF IInv, TypeOK, GrantIsServed
            <3>5. bus' = "back"
                BY <1>1, <1>9, <3>3, <3>4 DEF bus
            <3>6. engine[d].phase # "own" /\ ~engine[d].strobe
                BY <1>1, <1>3, <1>9, <3>3 DEF IInv, EngineShape
            <3>7. \A c \in Devices : c # d => engine[c].phase # "own" /\ ~engine[c].strobe
                BY <1>3, <1>9, <2>1 DEF IInv, EngineOwns, OnBus, GrantIsServed
            <3>8. moving = {}
                BY <3>6, <3>7 DEF moving
            <3>9. Owner!HandBack
                BY <1>2, <1>5, <2>1, <3>5, <3>8 DEF Owner!HandBack
            <3> QED BY <3>9 DEF OwnerStep, Owner!Next
        <2> QED BY <2>2, <2>3
    <1>10. CASE cpu = "npg" /\ (\A d \in Devices : ~dev_npg[d])
        <2>1. ~init /\ cpu_npr /\ cpu_npg
            BY <1>1, <1>10 DEF LentForRequest, IInv, GrantIsState
        <2>2. moving = {} /\ moving' = {}
            BY <1>6, <1>10, <2>1
        <2>3. bus = IF npr_state # Idle THEN "lent" ELSE "back"
            BY <1>10, <2>1 DEF bus
        <2>4. holders = {}
            BY <1>4, <2>3
        <2>5. CASE bus' = "back"
            <3>1. Owner!Forgo \/ UNCHANGED Owner!vars
                BY <1>5, <2>2, <2>3, <2>4, <2>5 DEF Owner!Forgo, Owner!vars
            <3> QED BY <3>1 DEF OwnerStep, Owner!Next
        <2>6. CASE NprReset \/ NprIdle
            <3>1. cpu_npr' = FALSE /\ (\A d \in Devices : ~dev_npg'[d])
                BY <1>10, <2>6 DEF NprReset, NprIdle
            <3>2. bus' = "back"
                BY <1>1, <1>10, <3>1 DEF bus
            <3> QED BY <2>5, <3>2
        <2>7. CASE NprServe
            <3>1. PICK s \in Devices :
                     /\ npr_state = s
                     /\ IF engine[s].npr
                        THEN dev_npg' = [dev_npg EXCEPT ![s] = cpu_npg]
                        ELSE npr_state' = Idle /\ dev_npg' = [dev_npg EXCEPT ![s] = FALSE]
                BY <2>7 DEF NprServe
            <3>2. CASE engine[s].npr
                <4>1. \A d \in Devices : dev_npg'[d] <=> d = s
                    BY <1>10, <2>1, <3>1, <3>2 DEF IInv, TypeOK
                <4>2. bus' = "held"
                    BY <1>1, <1>10, <4>1 DEF bus
                <4>3. holders' = {s}
                    BY <4>1, <4>2 DEF holders
                <4>4. bus = "lent"
                    BY <2>3, <3>1, DevicesAssumption
                <4>5. Owner!Take
                    BY <2>2, <4>2, <4>3, <4>4 DEF Owner!Take
                <4> QED BY <4>5 DEF OwnerStep, Owner!Next
            <3>3. CASE ~engine[s].npr
                <4>1. npr_state' = Idle /\ (\A d \in Devices : ~dev_npg'[d])
                    BY <1>10, <3>1, <3>3 DEF IInv, TypeOK
                <4>2. bus' = "back"
                    BY <1>1, <1>10, <4>1 DEF bus
                <4> QED BY <2>5, <4>2
            <3> QED BY <3>2, <3>3
        <2> QED BY <1>1, <2>6, <2>7
    <1> QED BY <1>7, <1>8, <1>9, <1>10

(* The bus has one owner, and changes hands by way of the processor: every *)
(* step of the clock is a step of BusOwner under the mapping bus, holders, *)
(* moving, for any set of masters, any chain and any length of burst.      *)
THEOREM OwnerImplemented == Spec => ImplementsOwner
    <1>1. Init => Owner!Init /\ LentForRequest
        BY DEF Init, Owner!Init, LentForRequest, bus, holders, moving, EngineReset
    <1>2. IInv /\ IInv' /\ LentForRequest /\ [Next]_vars => [Owner!Next]_(Owner!vars)
        <2> SUFFICES ASSUME IInv, IInv', LentForRequest, [Next]_vars
                     PROVE  OwnerStep
            BY DEF OwnerStep
        <2>1. CASE UNCHANGED vars
            BY <2>1 DEF vars, cpuVars, arbVars, OwnerStep, Owner!vars, bus, holders, moving
        <2> QED BY <2>1, ClkOwner, NclkOwner DEF Next
    <1> QED BY <1>1, <1>2, LentStep, Invariant, PTL DEF Spec, ImplementsOwner, Owner!Spec
=============================================================================
