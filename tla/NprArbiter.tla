----------------------------- MODULE NprArbiter -----------------------------
(***************************************************************************)
(* Direct memory access: the NPR arbiter of rtl/unibus.vhd (npr_state), the *)
(* part of the processor that gives the bus away (state_ifetch, state_npg,  *)
(* state_init and the reset of rtl/cpu.vhd) and the engines that master the *)
(* bus: busmaster_state of rl11.vhd, rk11.vhd and rh11.vhd, engine_state of *)
(* tm11.vhd and the block mover xubm.vhd of the network interface.          *)
(*                                                                         *)
(* The processor and the engines are clocked on the rising edge of the      *)
(* clock, the arbiter and the requests of xubm.vhd on the falling one.      *)
(***************************************************************************)
EXTENDS Integers, FiniteSets

CONSTANTS
    Devices,    \* the bus masters: rl0, tm0, rk0, rh0, xu0
    Rank,       \* their places in the if-elsif chain of npr_idle
    Movers,     \* those that ask and let go on the falling edge: xu0
    Withdraws,  \* those that may drop a request or a burst at once: tm0
    Abandons,   \* those that may abandon a request with npr up: rh0
    Burst,      \* the most words moved in one burst (256 in the code)
    Lengths,    \* the lengths of the commands the movers are given, in words
    ResetTime   \* the value initcycles is loaded with (7 or initcycles_reset)

Idle == "idle"

ASSUME DevicesAssumption ==
    /\ Idle \notin Devices
    /\ Rank \in [Devices -> Nat]
    /\ Movers \subseteq Devices
    /\ Withdraws \subseteq Devices
    /\ Abandons \subseteq Devices
ASSUME BurstAssumption == Burst \in Nat
ASSUME LengthsAssumption == Lengths # {} /\ Lengths \subseteq 0..Burst
ASSUME ResetTimeAssumption == ResetTime \in Nat

VARIABLES
    edge,        \* the clock edge that comes next
    reset,       \* the machine's reset, synchronous to the rising edge
    cpu,         \* state of the processor's state machine
    initcycles,
    init,        \* the reset line of the bus
    clr,         \* rmcs2_clr: the instruction just ended cleared the RH11
    cpu_npg,     \* the processor has given the bus away
    cpu_npr,     \* some bus master asks for the bus
    npr_state,   \* the master served, or Idle
    dev_npg,     \* the grant line of each master
    engine       \* the engines

cpuVars == <<cpu, initcycles, init, clr, cpu_npg>>
arbVars == <<cpu_npr, npr_state, dev_npg>>
vars    == <<edge, reset, cpuVars, arbVars, engine>>

(* An engine: what it is doing, its npr line, its DATI or DATO strobe, and *)
(* the words left of its burst.                                            *)
Engines == [phase : {"idle", "ask", "own", "done"}, npr : BOOLEAN,
            strobe : BOOLEAN, left : 0..Burst]

TypeOK ==
    /\ edge \in {"clk", "nclk"}
    /\ reset \in BOOLEAN
    /\ cpu \in {"init", "fetch", "run", "npg", "halt"}
    /\ initcycles \in 0..ResetTime
    /\ init \in BOOLEAN
    /\ clr \in BOOLEAN
    /\ cpu_npg \in BOOLEAN
    /\ cpu_npr \in BOOLEAN
    /\ npr_state \in Devices \cup {Idle}
    /\ dev_npg \in [Devices -> BOOLEAN]
    /\ engine \in [Devices -> Engines]

EngineReset == [phase |-> "idle", npr |-> FALSE, strobe |-> FALSE, left |-> 0]

Init ==
    /\ edge = "clk"
    /\ reset = TRUE
    /\ cpu = "init"
    /\ initcycles = ResetTime
    /\ init = TRUE
    /\ clr = FALSE
    /\ cpu_npg = FALSE
    /\ cpu_npr = FALSE
    /\ npr_state = Idle
    /\ dev_npg = [d \in Devices |-> FALSE]
    /\ engine = [d \in Devices |-> EngineReset]

-----------------------------------------------------------------------------
(* The rising edge: the processor.                                         *)

(* The machine's reset, whatever the processor was doing.                  *)
CpuReset ==
    /\ reset
    /\ cpu' = "init"
    /\ initcycles' = ResetTime
    /\ init' = TRUE
    /\ cpu_npg' = FALSE

(* Mutant of StateInit: the counter is tested after it has passed zero.    *)
StateInitPastZero ==
    /\ cpu = "init"
    /\ initcycles' = initcycles - 1
    /\ cpu' = IF initcycles = 0 THEN "fetch" ELSE "init"
    /\ init' = (initcycles # 0)
    /\ UNCHANGED cpu_npg

(* state_init, after a reset, a RESET instruction or START.                *)
StateInit ==
    /\ cpu = "init"
    /\ IF initcycles = 0
       THEN cpu' = "fetch" /\ init' = FALSE /\ UNCHANGED initcycles
       ELSE init' = TRUE /\ initcycles' = initcycles - 1 /\ UNCHANGED cpu
    /\ UNCHANGED cpu_npg

(* A bus master asks: it gets the bus before anything else.                *)
IfetchNpr ==
    /\ cpu = "fetch"
    /\ cpu_npr
    /\ cpu' = "npg"
    /\ cpu_npg' = TRUE
    /\ UNCHANGED <<initcycles, init>>

(* Otherwise the HALT switch, or an instruction, a trap or an interrupt.   *)
IfetchRun ==
    /\ cpu = "fetch"
    /\ ~cpu_npr
    /\ cpu' \in {"run", "halt"}
    /\ UNCHANGED <<initcycles, init, cpu_npg>>

(* The states between two fetches; a RESET instruction ends in state_init. *)
Run ==
    /\ cpu = "run"
    /\ \/ cpu' \in {"run", "fetch"} /\ UNCHANGED initcycles
       \/ cpu' = "init" /\ initcycles' = ResetTime
    /\ UNCHANGED <<init, cpu_npg>>

(* state_npg: the processor stays off the bus until npr drops.             *)
StateNpg ==
    /\ cpu = "npg"
    /\ cpu' = IF cpu_npr THEN "npg" ELSE "fetch"
    /\ cpu_npg' = cpu_npr
    /\ UNCHANGED <<initcycles, init>>

(* state_halt: nothing is granted; CONT goes on, START resets the bus.     *)
StateHalt ==
    /\ cpu = "halt"
    /\ \/ cpu' \in {"halt", "fetch"} /\ UNCHANGED initcycles
       \/ cpu' = "init" /\ initcycles' = ResetTime
    /\ UNCHANGED <<init, cpu_npg>>

CpuStep == StateInit \/ IfetchNpr \/ IfetchRun \/ Run \/ StateNpg \/ StateHalt

-----------------------------------------------------------------------------
(* The rising edge: the engines. A move is what the controller behind the  *)
(* engine asks of it: nothing ("stay"), the next thing ("go"), or to give  *)
(* up ("drop"): a media change in the TM11, or a controller clear in the   *)
(* RH11, which an instruction has to make.                                 *)

Moves == {"stay", "go", "drop"}

(* Take the bus if the grant is there: a burst of n words.                 *)
Ask(e, granted, n) ==
    IF granted THEN [e EXCEPT !.npr = TRUE, !.phase = "own", !.left = n]
               ELSE [e EXCEPT !.npr = TRUE, !.phase = "ask"]

(* One word after the other, then off the bus.                             *)
Transfer(e) ==
    IF e.left = 0 THEN [EngineReset EXCEPT !.phase = "done"]
                  ELSE [e EXCEPT !.strobe = TRUE, !.left = @ - 1]

(* A disk or tape engine. An RH11 whose command was cleared goes through   *)
(* the end of its handshake and leaves npr as it is.                       *)
Controller(d, e, granted, m, n) ==
    IF m = "drop" /\ d \in Withdraws THEN EngineReset
    ELSE IF e.phase \in {"idle", "ask"} /\ m = "drop" /\ d \in Abandons
    THEN [e EXCEPT !.phase = "done"]
    ELSE IF e.phase = "ask" \/ (e.phase = "idle" /\ m = "go") THEN Ask(e, granted, n)
    ELSE IF e.phase = "own" THEN IF e.strobe /\ d \in Withdraws
                                 THEN [e EXCEPT !.strobe = FALSE]   \* eng_rd_w3
                                 ELSE Transfer(e)
    ELSE IF e.phase = "done" /\ m = "go" THEN [e EXCEPT !.phase = "idle"] ELSE e

(* The block mover: a command starts when the grant is there, and one of   *)
(* no words never does (cmd_wait). "go" when the strobe of this edge is on  *)
(* the bus of the processor, not on that of the network interface; the edge *)
(* that ends the burst still writes the last word it has read.             *)
Mover(e, granted, m) ==
    IF ~e.npr THEN EngineReset
    ELSE IF ~granted \/ e.phase = "done" THEN [e EXCEPT !.strobe = FALSE]
    ELSE IF e.phase = "ask"
    THEN [e EXCEPT !.strobe = FALSE, !.phase = IF e.left = 0 THEN "ask" ELSE "own"]
    ELSE IF e.left = 0 THEN [e EXCEPT !.strobe = (m = "go"), !.phase = "done"]
    ELSE [e EXCEPT !.strobe = (m = "go"), !.left = @ - 1]

(* Mutant of EngineAtInit: the bus reset leaves the strobe as it is.       *)
EngineAtInitKeepsStrobe(d, e) ==
    IF d \in Movers THEN [e EXCEPT !.strobe = FALSE]
    ELSE [EngineReset EXCEPT !.strobe = e.strobe]

(* Bus reset: "a strobe left set is replayed on the next grant". The mover *)
(* resets its strobes here and its request on the falling edge.            *)
EngineAtInit(d, e) ==
    IF d \in Movers THEN [e EXCEPT !.strobe = FALSE] ELSE EngineReset

EngineAtClk(d, m, n) ==
    IF init THEN EngineAtInit(d, engine[d])
    ELSE IF d \in Movers THEN Mover(engine[d], dev_npg[d], m)
    ELSE Controller(d, engine[d], dev_npg[d], m, n)

ClkEdge ==
    /\ edge = "clk"
    /\ edge' = "nclk"
    /\ reset' \in BOOLEAN
    /\ CpuReset \/ (~reset /\ CpuStep)
    /\ clr' \in {FALSE, cpu = "run" /\ cpu' = "fetch"}
    /\ \E m \in [Devices -> Moves], n \in 0..Burst :
          /\ \A d \in Abandons : m[d] = "drop" => clr
          /\ engine' = [d \in Devices |-> EngineAtClk(d, m[d], n)]
    /\ UNCHANGED arbVars

-----------------------------------------------------------------------------
(* The falling edge: the arbiter and the requests of the block mover.      *)

Asking == {d \in Devices : engine[d].npr}

Firsts(S) == {d \in S : \A e \in S : Rank[d] <= Rank[e]}

(* Mutant of NprIdle: the request to the processor is left up.             *)
NprIdleSticky ==
    /\ npr_state = Idle
    /\ cpu_npr' = cpu_npr
    /\ dev_npg' = [d \in Devices |-> FALSE]
    /\ IF Asking = {} THEN npr_state' = Idle ELSE npr_state' \in Firsts(Asking)

(* Mutant of NprIdle: the chain is searched from its end.                  *)
NprIdleReversed ==
    /\ npr_state = Idle
    /\ cpu_npr' = FALSE
    /\ dev_npg' = [d \in Devices |-> FALSE]
    /\ IF Asking = {} THEN npr_state' = Idle
       ELSE npr_state' \in {d \in Asking : \A e \in Asking : Rank[e] <= Rank[d]}

(* npr_idle takes every grant away and looks for the next master.          *)
NprIdle ==
    /\ npr_state = Idle
    /\ cpu_npr' = FALSE
    /\ dev_npg' = [d \in Devices |-> FALSE]
    /\ IF Asking = {} THEN npr_state' = Idle ELSE npr_state' \in Firsts(Asking)

(* Mutant of NprServe: the master is granted before the processor grants.  *)
NprServeEarly ==
    \E d \in Devices :
        /\ npr_state = d
        /\ cpu_npr' = TRUE
        /\ IF engine[d].npr
           THEN npr_state' = d /\ dev_npg' = [dev_npg EXCEPT ![d] = TRUE]
           ELSE npr_state' = Idle /\ dev_npg' = [dev_npg EXCEPT ![d] = FALSE]

(* Mutant of NprServe: a master that lets go passes the bus to the next.   *)
NprServeChained ==
    \E d \in Devices :
        /\ npr_state = d
        /\ cpu_npr' = TRUE
        /\ IF engine[d].npr
           THEN npr_state' = d /\ dev_npg' = [dev_npg EXCEPT ![d] = cpu_npg]
           ELSE /\ npr_state' \in IF Asking = {} THEN {Idle} ELSE Firsts(Asking)
                /\ dev_npg' = [dev_npg EXCEPT ![d] = FALSE]

(* npr_rl0 ... npr_xu0: the master sees the processor's grant until it     *)
(* drops its request.                                                      *)
NprServe ==
    \E d \in Devices :
        /\ npr_state = d
        /\ cpu_npr' = TRUE
        /\ IF engine[d].npr
           THEN npr_state' = d /\ dev_npg' = [dev_npg EXCEPT ![d] = cpu_npg]
           ELSE npr_state' = Idle /\ dev_npg' = [dev_npg EXCEPT ![d] = FALSE]

(* Reset clears the request to the processor and freezes the rest.         *)
NprReset ==
    /\ cpu_npr' = FALSE
    /\ UNCHANGED <<npr_state, dev_npg>>

(* xubm: a write of the length register starts a command of n words; ask    *)
(* while there is one, and let go when it is done.                         *)
MoverAtNclk(e, granted, m, n) ==
    IF init THEN [EngineReset EXCEPT !.strobe = e.strobe]
    ELSE IF e.phase = "idle" /\ m = "go"
    THEN [e EXCEPT !.phase = "ask", !.npr = TRUE, !.left = n]
    ELSE IF e.phase = "done" /\ granted THEN [e EXCEPT !.npr = FALSE]
    ELSE e

NclkEdge ==
    /\ edge = "nclk"
    /\ edge' = "clk"
    /\ IF reset THEN NprReset ELSE NprIdle \/ NprServe
    /\ \E m \in [Movers -> Moves], n \in Lengths :
          engine' = [d \in Devices |-> IF d \in Movers
                                       THEN MoverAtNclk(engine[d], dev_npg[d], m[d], n)
                                       ELSE engine[d]]
    /\ UNCHANGED <<reset, cpuVars>>

Next == ClkEdge \/ NclkEdge

Spec == Init /\ [][Next]_vars

(* The clock never stops.                                                  *)
FairSpec == Spec /\ WF_vars(Next)

-----------------------------------------------------------------------------
(* One master at a time: no two engines are granted, and while one is the  *)
(* processor is off the bus, through a reset in the middle of a burst too. *)
OneMaster ==
    /\ \A c, d \in Devices : dev_npg[c] /\ dev_npg[d] => c = d
    /\ \A d \in Devices : dev_npg[d] => cpu \in {"npg", "init"}

(* "a bus INIT must end the DMA cycle too: a strobe left set is replayed   *)
(* on the next grant (stale write)" (rl11.vhd, rk11.vhd, rh11.vhd): an     *)
(* engine that is granted the bus starts with its strobes down.            *)
NoStaleStrobe ==
    [][\A d \in Devices :
          ~dev_npg[d] /\ dev_npg'[d] => ~engine[d].strobe /\ ~engine'[d].strobe]_vars

(* The bus as its users see it: whose it is, from the states of processor  *)
(* and arbiter, and which engines are in a burst or have a strobe up.      *)
bus ==
    IF cpu = "init" THEN "reset"
    ELSE IF cpu # "npg" THEN "cpu"
    ELSE IF \E d \in Devices : dev_npg[d] THEN "held"
    ELSE IF cpu_npr /\ npr_state # Idle THEN "lent" ELSE "back"

holders == {d \in Devices : bus = "held" /\ dev_npg[d]}

moving == {d \in Devices : engine[d].phase = "own" \/ engine[d].strobe}

Owner == INSTANCE BusOwner WITH Masters <- Devices

(* Processor, arbiter and engines, on the two edges of the clock, do what  *)
(* the owners of the bus count on: nobody but a reset takes the bus away   *)
(* from a burst, and from one master it goes to the next only by way of    *)
(* the processor (npr_idle drops cpu_npr before it serves anyone).         *)
ImplementsOwner == Owner!Spec

(* A block mover with a command of no words: it stays in cmd_wait, with its *)
(* request up, until a reset.                                              *)
EmptyMove == \E d \in Movers : engine[d].phase = "ask" /\ engine[d].left = 0

(* The processor gets the bus back ("a write abandoned and followed by a   *)
(* read neither hangs ...", sim/tb_rh11_abort.vhd), unless a block mover   *)
(* was given a command of no words.                                        *)
BusComesBack == cpu = "npg" ~> (cpu # "npg" \/ EmptyMove)

(* A request for the bus is not forgotten: if the processor goes on        *)
(* fetching, the first master of the chain gets its grant (or withdraws).  *)
BusGranted ==
    \A d \in Firsts(Devices) :
        []<>(cpu = "fetch") => (engine[d].phase = "ask" ~> engine[d].phase # "ask")
=============================================================================
