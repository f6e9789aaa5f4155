----------------------------- MODULE Interrupts -----------------------------
(***************************************************************************)
(* Interrupts from request to trap: the device controllers                 *)
(* (IntDevices), the three arbiters BR4, BR5 and BR6 of rtl/unibus.vhd and *)
(* the part of the processor's state machine (rtl/cpu.vhd) that grants     *)
(* them: state_ifetch, state_br4..6, state_npg, the trap sequence,         *)
(* state_init and the steps of an instruction that touch a device or the   *)
(* priority.                                                               *)
(*                                                                         *)
(* The processor is clocked on the rising edge of the clock (ClkEdge) and  *)
(* everything on the bus on the falling one (NclkEdge); the two alternate. *)
(***************************************************************************)
EXTENDS IntDevices

CONSTANTS
    Devices,    \* the device controllers on the bus
    Kind,       \* which controller each of them is
    Level,      \* the BR line it is wired to
    Rank,       \* its place in the arbiter's if-elsif chain
    Ipls,       \* the processor priorities the program uses
    Pirs,       \* the program interrupt requests it makes (sets of levels)
    Insns,      \* which of WAIT, SPL, RESET and the HALT switch it uses
    NprInputs,  \* {FALSE}, or BOOLEAN when other bus masters ask for the bus
    ResetTime,  \* the value initcycles is loaded with (7 or initcycles_reset)
    Buses,      \* the sets of devices that may be configured (have_kl11, ...)
    Masked      \* those whose requests the program withdraws only at their level

Levels == {4, 5, 6}

ASSUME KindAssumption  == Kind \in [Devices -> Kinds]
ASSUME LevelAssumption == Level \in [Devices -> Levels]
ASSUME RankAssumption  ==
    /\ Rank \in [Devices -> Nat]
    /\ \A c, d \in Devices : Rank[c] = Rank[d] => c = d
ASSUME ProgramAssumption ==
    /\ Ipls \subseteq 0..7
    /\ Pirs \subseteq SUBSET (1..7) /\ {} \in Pirs
    /\ NprInputs \subseteq BOOLEAN /\ FALSE \in NprInputs
    /\ Insns \subseteq {"wait", "spl", "reset", "halt"}
    /\ ResetTime \in Nat
    /\ Masked \subseteq Devices
    /\ Buses \subseteq SUBSET Devices

VARIABLES
    have,         \* the devices configured; the others are held idle
    edge,         \* the clock edge that comes next
    cpu,          \* state of the processor's state machine
    ipl,          \* psw(7 downto 5)
    pir,          \* pir_in
    ir_wait,      \* the last instruction was a WAIT
    spl_inhibit,  \* the last instruction was an SPL
    initcycles,
    init,         \* the reset line of the bus
    bg,           \* bg4, bg5, bg6
    cpu_npr,      \* some bus master asks for the bus
    arb,          \* br4_state, br5_state, br6_state: the device served, or Idle
    cpu_br,       \* cpu_br4, cpu_br5, cpu_br6
    cpu_ivec,     \* cpu_int_vector4, 5, 6: <<device, int_vector>>
    dev_bg,       \* the grant line of each device
    dev           \* the device controllers

cpuVars == <<cpu, ipl, pir, ir_wait, spl_inhibit, initcycles, init, bg>>
busVars == <<cpu_npr, arb, cpu_br, cpu_ivec, dev_bg, dev>>
vars    == <<have, edge, cpuVars, busVars>>

Idle == "idle"

ASSUME DevicesAssumption == Idle \notin Devices

Br == [l \in Levels |-> CASE l = 4 -> "br4" [] l = 5 -> "br5" [] l = 6 -> "br6"]

TrapSequence == <<"trap", "trapa", "trapb", "trapc", "trapw", "trapd",
                  "trape", "trapf">>
TrapStates == {TrapSequence[n] : n \in 1..8}
BrStates   == {Br[l] : l \in Levels}
CpuStates  == {"init", "ifetch", "idecode", "exec", "load", "store", "npg",
               "halt"} \cup TrapStates \cup BrStates

NoVector == <<Idle, 0>>

Vectors == {NoVector} \cup (Devices \X (0..2))

TypeOK ==
    /\ have \in Buses
    /\ edge \in {"clk", "nclk"}
    /\ cpu \in CpuStates
    /\ ipl \in 0..7
    /\ pir \in SUBSET (1..7)
    /\ ir_wait \in BOOLEAN
    /\ spl_inhibit \in BOOLEAN
    /\ initcycles \in 0..ResetTime
    /\ init \in BOOLEAN
    /\ bg \in [Levels -> BOOLEAN]
    /\ cpu_npr \in BOOLEAN
    /\ arb \in [Levels -> Devices \cup {Idle}]
    /\ cpu_br \in [Levels -> BOOLEAN]
    /\ cpu_ivec \in [Levels -> Vectors]
    /\ dev_bg \in [Devices -> BOOLEAN]
    /\ DOMAIN dev = Devices
    /\ \A d \in Devices : dev[d] \in DeviceRecord(Kind[d])

(* After the power-up reset: state_init with the bus reset asserted.       *)
Init ==
    /\ have \in Buses
    /\ edge = "nclk"
    /\ cpu = "init"
    /\ ipl = 0
    /\ pir = {}
    /\ ir_wait = FALSE
    /\ spl_inhibit = FALSE
    /\ initcycles = ResetTime
    /\ init = TRUE
    /\ bg = [l \in Levels |-> FALSE]
    /\ cpu_npr = FALSE
    /\ arb = [l \in Levels |-> Idle]
    /\ cpu_br = [l \in Levels |-> FALSE]
    /\ cpu_ivec = [l \in Levels |-> NoVector]
    /\ dev_bg = [d \in Devices |-> FALSE]
    /\ dev = [d \in Devices |->
                 DeviceReset(Kind[d], [i |-> "idle", br |-> FALSE, vec |-> 0,
                                       ie |-> {}, rdy |-> {}, trig |-> {}])]

-----------------------------------------------------------------------------
(* The rising edge: the processor.                                         *)

(* Mutant of StateInit: the counter is tested after it has passed zero.    *)
StateInitPastZero ==
    /\ cpu = "init"
    /\ initcycles' = initcycles - 1
    /\ cpu' = IF initcycles = 0 THEN "ifetch" ELSE "init"
    /\ init' = (initcycles # 0)
    /\ UNCHANGED <<ipl, pir, ir_wait, spl_inhibit, bg>>

(* state_init, after power-up and after a RESET instruction.               *)
StateInit ==
    /\ cpu = "init"
    /\ IF initcycles = 0
       THEN /\ cpu' = "ifetch"
            /\ init' = FALSE
            /\ UNCHANGED initcycles
       ELSE /\ init' = TRUE
            /\ initcycles' = initcycles - 1
            /\ UNCHANGED cpu
    /\ UNCHANGED <<ipl, pir, ir_wait, spl_inhibit, bg>>

(* The requests that the priority lets through. At one level the program   *)
(* interrupt request is looked at before the device.                       *)
Requests == {l \in 1..7 : /\ ~spl_inhibit
                          /\ ipl < l
                          /\ l \in pir \/ (l \in Levels /\ cpu_br[l])}

Highest(S) == CHOOSE l \in S : \A m \in S : m <= l

(* A bus master asks: it gets the bus before anything else.                *)
IfetchNpr ==
    /\ cpu = "ifetch"
    /\ cpu_npr
    /\ cpu' = "npg"
    /\ ir_wait' = FALSE
    /\ UNCHANGED <<ipl, pir, spl_inhibit, initcycles, init, bg>>

(* The operator's HALT switch, looked at before any trap or interrupt.     *)
IfetchHalt ==
    /\ "halt" \in Insns
    /\ cpu = "ifetch"
    /\ ~cpu_npr
    /\ cpu' = "halt"
    /\ ir_wait' = FALSE
    /\ UNCHANGED <<ipl, pir, spl_inhibit, initcycles, init, bg>>

(* A trap the last instruction left behind: memory management, yellow      *)
(* stack or floating point before the interrupts; a program interrupt      *)
(* request in its turn; the T bit after them.                              *)
IfetchTrap ==
    /\ cpu = "ifetch"
    /\ ~cpu_npr
    /\ cpu' = "trap"
    /\ ir_wait' = FALSE
    /\ UNCHANGED <<ipl, pir, spl_inhibit, initcycles, init, bg>>

(* The highest request is a device's: grant it.                            *)
IfetchBr ==
    /\ cpu = "ifetch"
    /\ ~cpu_npr
    /\ Requests # {}
    /\ LET l == Highest(Requests)
       IN /\ l \notin pir
          /\ cpu' = Br[l]
          /\ bg' = [bg EXCEPT ![l] = TRUE]
    /\ ir_wait' = FALSE
    /\ UNCHANGED <<ipl, pir, spl_inhibit, initcycles, init>>

(* Nothing to serve: fetch the next instruction, or go on waiting.         *)
IfetchRun ==
    /\ cpu = "ifetch"
    /\ ~cpu_npr
    /\ Requests = {}
    /\ spl_inhibit' = FALSE
    /\ cpu' = IF ir_wait THEN "ifetch" ELSE "idecode"
    /\ UNCHANGED <<ipl, pir, ir_wait, initcycles, init, bg>>

(* An instruction: WAIT, SPL, RESET, a trap instruction, an abort, or one  *)
(* that goes through the data states exec, load and store.                 *)
Decode ==
    /\ cpu = "idecode"
    /\ \/ /\ cpu' = "ifetch"                                     \* no operand
          /\ UNCHANGED <<ipl, ir_wait, spl_inhibit, initcycles>>
       \/ /\ "wait" \in Insns                                 \* WAIT
          /\ cpu' = "ifetch"
          /\ ir_wait' = TRUE
          /\ UNCHANGED <<ipl, spl_inhibit, initcycles>>
       \/ /\ "spl" \in Insns                                  \* SPL
          /\ cpu' = "ifetch"
          /\ ipl' \in Ipls
          /\ spl_inhibit' = TRUE
          /\ UNCHANGED <<ir_wait, initcycles>>
       \/ /\ "reset" \in Insns                                \* RESET
          /\ cpu' = "init"
          /\ initcycles' = ResetTime
          /\ UNCHANGED <<ipl, ir_wait, spl_inhibit>>
       \/ /\ cpu' \in {"trap", "exec", "load", "store"}
          /\ UNCHANGED <<ipl, ir_wait, spl_inhibit, initcycles>>
    /\ UNCHANGED <<pir, init, bg>>

(* The rest of an instruction. load and store are the reads and writes of  *)
(* device registers and PIR; a store that addresses PS is an exec step. Its *)
(* last step may load a new priority (RTI, RTT, MTPS, a write to PS); any  *)
(* of its steps may be aborted by a trap.                                  *)
Execute ==
    /\ \/ /\ cpu = "exec"
          /\ cpu' \in {"load", "store", "trap"}
          /\ UNCHANGED <<ipl, pir>>
       \/ /\ cpu = "load"
          /\ cpu' \in {"store", "trap", "ifetch"}
          /\ UNCHANGED <<ipl, pir>>
       \/ /\ cpu = "exec"
          /\ cpu' = "ifetch"
          /\ ipl' \in {ipl} \cup Ipls
          /\ UNCHANGED pir
       \/ /\ cpu = "store"
          /\ cpu' \in {"ifetch", "trap"}
          /\ pir' \in {pir} \cup Pirs
          /\ UNCHANGED ipl
    /\ UNCHANGED <<ir_wait, spl_inhibit, initcycles, init, bg>>

(* Mutant of StateBr: it traps without waiting for the request to drop.    *)
StateBrEarly ==
    \E l \in Levels :
        /\ cpu = Br[l]
        /\ bg' = [bg EXCEPT ![l] = FALSE]
        /\ cpu' = IF l # 6 /\ cpu_ivec[l][2] = 0 THEN "ifetch" ELSE "trap"
        /\ UNCHANGED <<ipl, pir, ir_wait, spl_inhibit, initcycles, init>>

(* state_br4, state_br5, state_br6: wait for the request to drop, then     *)
(* trap through the vector on the bus. Vector 0 at levels 4 and 5 is a     *)
(* passive release: no interrupt.                                          *)
StateBr ==
    \E l \in Levels :
        /\ cpu = Br[l]
        /\ ~cpu_br[l]
        /\ bg' = [bg EXCEPT ![l] = FALSE]
        /\ cpu' = IF l # 6 /\ cpu_ivec[l][2] = 0 THEN "ifetch" ELSE "trap"
        /\ UNCHANGED <<ipl, pir, ir_wait, spl_inhibit, initcycles, init>>

(* state_trap to state_trapf; state_trapa loads the PS of the vector.      *)
Trap ==
    \E n \in 1..8 :
        /\ cpu = TrapSequence[n]
        /\ cpu' = IF n = 8 THEN "ifetch" ELSE TrapSequence[n + 1]
        /\ spl_inhibit' = IF n = 1 THEN FALSE ELSE spl_inhibit
        /\ IF n = 2 THEN ipl' \in Ipls ELSE UNCHANGED ipl
        /\ UNCHANGED <<pir, ir_wait, initcycles, init, bg>>

(* state_npg: the bus belongs to another master until npr drops.           *)
StateNpg ==
    /\ cpu = "npg"
    /\ ~cpu_npr
    /\ cpu' = "ifetch"
    /\ UNCHANGED <<ipl, pir, ir_wait, spl_inhibit, initcycles, init, bg>>

(* state_halt: CONT goes back to the program, START resets the machine.    *)
StateHalt ==
    /\ cpu = "halt"
    /\ \/ cpu' = "ifetch" /\ UNCHANGED initcycles
       \/ cpu' = "init" /\ initcycles' = ResetTime
    /\ UNCHANGED <<ipl, pir, ir_wait, spl_inhibit, init, bg>>

(* The states in which an edge can pass without a change.                  *)
CpuHolds ==
    /\ \/ cpu \in BrStates /\ \A l \in Levels : cpu = Br[l] => cpu_br[l]
       \/ cpu = "npg" /\ cpu_npr
       \/ cpu = "halt"
    /\ UNCHANGED cpuVars

ClkEdge ==
    /\ edge = "clk"
    /\ edge' = "nclk"
    /\ \/ StateInit \/ IfetchNpr \/ IfetchHalt \/ IfetchTrap \/ IfetchBr
       \/ IfetchRun \/ Decode \/ Execute \/ StateBr \/ Trap \/ StateNpg
       \/ StateHalt \/ CpuHolds
    /\ UNCHANGED <<have, busVars>>

-----------------------------------------------------------------------------
(* The falling edge: the arbiters and every device.                        *)

Asking(l) == {d \in Devices : Level[d] = l /\ dev[d].br}

First(S) == CHOOSE d \in S : \A e \in S : Rank[d] <= Rank[e]

(* An idle BR4 arbiter hands a grant that is still up to no one.           *)
BlockedByGrant(l) == l = 4 /\ bg[4]

(* Mutant of NextArb: the arbiter leaves a device as soon as its request   *)
(* drops, with the device's grant still up.                                *)
NextArbLeaves(l) ==
    LET d == arb[l]
    IN IF d = Idle
       THEN IF BlockedByGrant(l) \/ Asking(l) = {} THEN Idle ELSE First(Asking(l))
       ELSE IF ~dev[d].br THEN Idle ELSE d

NextArb(l) ==
    LET d == arb[l]
    IN IF d = Idle
       THEN IF BlockedByGrant(l) \/ Asking(l) = {} THEN Idle ELSE First(Asking(l))
       ELSE IF ~dev[d].br /\ ~dev_bg[d] THEN Idle ELSE d

(* Mutant of NextCpuBr: the request stays up for as long as the arbiter    *)
(* serves the device.                                                      *)
NextCpuBrSticky(l) ==
    IF arb[l] # Idle THEN TRUE
    ELSE IF BlockedByGrant(l) THEN cpu_br[l] ELSE Asking(l) # {}

(* Mutant of NextCpuBr: the processor sees the request for one cycle only. *)
NextCpuBrPulse(l) ==
    IF arb[l] # Idle THEN FALSE
    ELSE IF BlockedByGrant(l) THEN cpu_br[l] ELSE Asking(l) # {}

NextCpuBr(l) ==
    LET d == arb[l]
    IN IF d # Idle THEN dev[d].br
       ELSE IF BlockedByGrant(l) THEN cpu_br[l] ELSE Asking(l) # {}

NextCpuIvec(l) ==
    LET d == arb[l] IN IF d # Idle THEN <<d, dev[d].vec>> ELSE cpu_ivec[l]

(* Mutant of NextDevBg: every device of the level sees the grant.          *)
NextDevBgAll(d) == bg[Level[d]]

(* A device's grant line follows the processor only while it is served.    *)
NextDevBg(d) == IF arb[Level[d]] = d THEN bg[Level[d]] ELSE dev_bg[d]

NoAccess == [d |-> Idle, ie |-> {}, clr |-> {}]

(* What the processor may be doing to a register of device d in this edge. *)
AccessesTo(d) ==
    IF cpu = "store"
    THEN {w \in Writes(Kind[d], dev[d]) :
             d \in Masked /\ Withdraws(Kind[d], dev[d], w) => ipl >= Level[d]}
    ELSE IF cpu = "load" THEN Reads(Kind[d], dev[d]) ELSE {}

DeviceAccesses ==
    {NoAccess} \cup
    UNION {{[d |-> d, ie |-> a.ie, clr |-> a.clr] : a \in AccessesTo(d)} : d \in have}

(* One device on one edge: its interrupt machine, then the register access *)
(* a if it is addressed, then the conditions ev that appeared in it.       *)
NextDev(d, a, ev) ==
    LET k == Kind[d]
        f == Machine(k, dev[d], dev_bg[d])
        w == IF a.d = d THEN Write(k, dev[d], f, a) ELSE f
    IN IF init \/ d \notin have THEN DeviceReset(k, dev[d])
       ELSE Progress(k, dev[d], w, {s \in Sources[k] : <<d, s>> \in ev})

Conditions == UNION {{d} \X Sources[Kind[d]] : d \in have}

NclkEdge ==
    /\ edge = "nclk"
    /\ edge' = "clk"
    /\ cpu_npr' \in NprInputs
    /\ arb' = [l \in Levels |-> NextArb(l)]
    /\ cpu_br' = [l \in Levels |-> NextCpuBr(l)]
    /\ cpu_ivec' = [l \in Levels |-> NextCpuIvec(l)]
    /\ dev_bg' = [d \in Devices |-> NextDevBg(d)]
    /\ \E a \in DeviceAccesses, ev \in SUBSET Conditions :
          dev' = [d \in Devices |-> NextDev(d, a, ev)]
    /\ UNCHANGED <<have, cpuVars>>

Next == ClkEdge \/ NclkEdge

Spec == Init /\ [][Next]_vars

(* The clock never stops.                                                  *)
FairSpec == Spec /\ WF_vars(Next)

-----------------------------------------------------------------------------
(* At most one device sees a grant at a time, and no processor grant is up *)
(* outside the state that waits for it. A second grant line would hand one *)
(* acknowledge to two controllers.                                         *)
OneGrant ==
    /\ \A l \in Levels : bg[l] <=> cpu = Br[l]
    /\ Cardinality({d \in Devices : dev_bg[d]}) <= 1

(* A device takes a grant only while the processor is giving one at its    *)
(* level: an acknowledge left over from an earlier handshake ("a grant     *)
(* still up from a withdrawn request: hand it to no one", unibus.vhd) is   *)
(* never consumed.                                                         *)
GrantComesFromCpu ==
    [][\A d \in Devices :
          dev[d].i = "req" /\ dev[d]'.i = "wait" => cpu = Br[Level[d]]]_vars

(* The processor traps through a device's vector only when that device has *)
(* taken the grant and put up that vector: no stray interrupt, and none    *)
(* through another device's vector.                                        *)
TrapIsGranted ==
    [][\A l \in Levels :
          cpu = Br[l] /\ cpu' = "trap" =>
             \E d \in Devices : /\ Level[d] = l
                                /\ dev[d].i = "wait"
                                /\ dev[d].vec # 0
                                /\ cpu_ivec[l] = <<d, dev[d].vec>>]_vars

(* A passive release takes no interrupt away: no device of that level      *)
(* believes it has been served.                                            *)
ReleaseLosesNothing ==
    [][\A l \in Levels :
          cpu = Br[l] /\ cpu' = "ifetch" =>
             \A d \in Devices : Level[d] = l => dev[d].i # "wait"]_vars

(* The handshake as program and devices see it: the levels granted, the    *)
(* devices that took a grant the processor is giving, and the trap.        *)
granted  == {l \in Levels : bg[l]}
takers   == {d \in Devices : bg[Level[d]] /\ dev[d].i = "wait"}
trapping == cpu \in TrapStates

Service == INSTANCE InterruptService

(* While the program masks a level before it withdraws a request of it,    *)
(* processor, arbiters and devices do what InterruptService promises: each *)
(* grant is of a level above the priority and ends in the trap of the one  *)
(* device that took it, and no device interrupts twice for a grant that it *)
(* took, although grant lines and controllers lag behind the processor.    *)
ImplementsService == Service!Spec

(* Neither side hangs in a handshake: the processor comes back from it, and*)
(* a device that took a grant is released and can interrupt again (unless  *)
(* the program pulls its requests back under a grant: see StaleGrant).     *)
HandshakeEnds ==
    /\ cpu \in BrStates ~> cpu \in {"ifetch", "trap"}
    /\ \A d \in Masked : dev[d].i = "wait" ~> dev[d].i # "wait"

(* The clock never stops, and the program is not forever sidetracked by    *)
(* traps of its own when it could take an interrupt.                       *)
LiveSpec == FairSpec /\ SF_vars(ClkEdge /\ IfetchBr)

(* The devices that no other one precedes in the arbiter's chain.          *)
Firsts == {d \in have : \A e \in have : Level[e] = Level[d] => Rank[d] <= Rank[e]}

(* A request is never forgotten: if the program goes on fetching at a      *)
(* priority below the device's, the first device of a chain gets its       *)
(* grant (or withdraws), whatever the devices behind it do.                *)
RequestServed ==
    \A d \in Masked :
        (/\ d \in Firsts
         /\ []<>(cpu = "ifetch" /\ ~cpu_npr /\ ~spl_inhibit /\ ipl < Level[d]))
            => (dev[d].i = "req" ~> dev[d].i # "req")
=============================================================================
