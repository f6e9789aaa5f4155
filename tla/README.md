# PDP2011 on MiSTer: TLA+ models, checks and proofs

PDP2011 is a PDP-11 in VHDL: a processor (`rtl/cpu.vhd`, `rtl/mmu.vhd`), a bus
with its arbiters (`rtl/unibus.vhd`), a dozen device controllers, and the glue
that runs it on a MiSTer board (`rtl/mister_top.vhd`, `rtl/mister_blkdev.vhd`,
`rtl/xu_ddr_bridge.vhd`, `pdp2011.sv`). Its boot ROMs and diagnostics are
assembled by a MACRO-11 of its own and made into memory images by `genblkram`
(`tools/`). This directory holds models of the parts in which several state
machines have to agree - who is granted an interrupt, who owns the bus, which
disk block an answer belongs to - and of the tool chain, from a line of source to
the words of a ROM. All of the source paths below are relative to the repository.

## 1. Inventory

### The clock

`clk` is the processor clock, made by the memory state machine of
`mister_top.vhd`; the processor and the DMA engines step on its rising edge.
`nclk <= not clk` (`unibus.vhd`) clocks the arbiters and the bus side of every
controller. So the machine is a strict alternation of two big synchronous steps,
and every model of the bus has exactly two actions at the top: `ClkEdge` and
`NclkEdge`, with `edge` saying whose turn it is. A VHDL process reads old values
and the last assignment wins; so do the operators here, which compute the new
record of a component from the old one. The hazards are the handshakes between
the two edges: a request is seen half a cycle after it is raised, a grant half a
cycle after it is given, and either may have been taken back by then.

### Components

| Component | State | Operations | Interacts with | Hard part | Correct when |
|---|---|---|---|---|---|
| BR arbiters (`unibus.vhd` 2904-3181) | `br4/5/6_state`, `cpu_br*`, `cpu_int_vector*`, one grant line per device | idle: choose by an if-elsif chain; serve: copy request, grant and vector | processor (`br`, `bg`, vector), devices (`br`, `bg`, `ivec`) | a withdrawal racing the grant; latched grants and vectors | one grant at a time; a trap is the trap of the device that took the grant |
| NPR arbiter (2822-2902) | `npr_state`, `cpu_npr`, one grant line per master | the same for DMA | processor (`npr`, `npg`), engines | reset in a burst, a request abandoned with its line up | one master at a time, the bus comes back |
| Processor control (`cpu.vhd`) | `state`, `psw`, `pir_in`, `ir_wait`, `spl_inhibit`, `initcycles`, `bg*`, `npg` | `state_ifetch` priority encoder, `state_br*`, `state_npg`, trap sequence, `state_init`, `state_halt` | both arbiters, every device through loads and stores | everything meets in one ifetch | no stray trap, no hang |
| Processor datapath | registers, FP11 | about 200 states | mmu, memory | arithmetic and addressing | XXDP diagnostics of `regress/` |
| MMU (`mmu.vhd`) | PAR/PDR, MMR0-3, UNIBUS map | relocate, check, abort and trap handshakes | processor | abort in the middle of an instruction | - |
| Controllers: `kw11l kl11 rh11 rk11 rl11 tm11 dr11c xu mnc*` | interrupt machine `i_idle/i_req/i_wait`, trigger, enable, CSRs | register reads and writes, commands, completion | arbiters, engines, block bridge | enable cleared under a request, completion in the same edge | a condition that is enabled interrupts once |
| DMA engines (`rl11 rk11 rh11 tm11 xubm`) | `busmaster_state`, `npr`, strobes, word count | ask, burst, release | NPR arbiter, block bridge | INIT or controller clear in the middle | strobes only with the bus |
| Block bridge (`mister_blkdev.vhd`) | two clock domains, synchronisers, `hps_state`, two sector buffers | read, write, reset in a request | controller, the HPS framework | an answer to a request of before the reset | an answer belongs to the request made |
| DEUNA port (`xu xubl xubm xufp xu_ddr_bridge`) | PCSRs, local bus grants, frame rings, toggles | port commands, frames in and out | UNIBUS, DDR, host daemon | two buses held at once, toggles across domains | frames neither lost nor doubled |
| Memory and reset (`mister_top.vhd`) | `dram_fsm`, `cpuclk`, `cpuresetlength` | SDRAM cycles, refresh, reset, image mounting | everything through `clk` | stretching a cycle | - |
| MiSTer top (`pdp2011.sv`, `dev_units.sv`) | mounted images, sizes | mounting, drive select | HPS | remount under traffic | - |
| Terminal, panel | `vt vga vgacr ps2 paneldriver panelos paneldb panel_view` | display and keys | KL11 line, console switches | - | - |
| Assembler, files and blocks (`tools/macro11.c`, `stream2.c`) | stack of input streams, conditional blocks, symbol and macro tables, local blocks, sections, location counters | two passes over one file: labels, assignments, macros, repeats, conditions, sections, data | object writer | state that lives through both passes; blocks that end inside others | the second pass sees the first one's file; every reference is resolved to its definition |
| Assembler, lines (`tools/macro11.c`) | DOT, the symbols | parse and simplify expressions, read operands, encode eleven classes of instructions | object writer, linker | what is calculated now and what later | the words mean what was written |
| Object writer (`tools/object.c`, `macro11.c`) | TEXT and RLD buffers, complex accumulator, GSD buffer | stores with relocations, changes of location, directory | its readers | two buffers flushed together; locations implied by the records before | the file is what was stored |
| `genblkram`, `dumpobj` | memory image, last TEXT address, what is wrong | read records, make a ROM or an absolute tape | object writer | damaged records, relocations they do not apply | the image is the program, or there is a warning |
| Other tools | `mlb.c`, `util.c`, `rad50.c`, `sdfmt.c`, `fontconvert.c` | macro libraries, file conversions | assembler | - | - |
| Vendored or generated | `sys/`, `roms/`, PLLs, `regress/`, `sim/` | - | - | - | - |

## 2. Modules

| Module | Models | State and actions |
|---|---|---|
| `IntDevices` | the interrupt machine of eleven kinds of controllers, their enables and conditions | a device is a record `[i, br, vec, ie, rdy, trig]`; one operator per controller (`KW11L` ... `MNCDO`) gives the record after one edge; `Write`, `Reads`, `Progress` apply what the program and the device do in the same edge |
| `Interrupts` | the BR4, BR5 and BR6 arbiters composed with the devices and the processor's control | `ClkEdge` is one processor state (`IfetchBr`, `StateBr`, `Trap`, ...), `NclkEdge` all arbiters (`NextArb`, `NextCpuBr`, `NextCpuIvec`, `NextDevBg`) and all devices (`NextDev`) at once |
| `InterruptService` | what program and devices count on: a level above the priority is granted, one device takes the grant, and its trap follows | `Run`, `Grant`, `Take`, `Interrupt`; no requests, vectors, arbiters or clock. `Interrupts` maps its grant lines (`granted`), waiting devices (`takers`) and trap states (`trapping`) to it |
| `NprArbiter` | the NPR arbiter, the engines and the processor's hand-over of the bus | `ClkEdge`: `CpuReset` or `CpuStep`, and `EngineAtClk` of every engine; `NclkEdge`: `NprIdle`, `NprServe` or `NprReset`, and `MoverAtNclk` |
| `BusOwner` | what the users of the bus count on: it is lent, held until the burst is over, handed back, and returns to the processor before the next master | `Lend`, `Take`, `Forgo`, `Move`, `HandBack`, `Return`, `Reset`, `Start`; no requests, grant lines, chain or clock. `NprArbiter` maps its states (`bus`), grants (`holders`) and engines (`moving`) to it |
| `BlkDev` | the block device bridge `mister_blkdev.vhd`, its flops and buffers, and the host program (Main) that serves its slot | `HpsEdge` is the state machine on `clk_sys` (`HpsReset`, `Drain`, `HpsIdle`, `HpsBusy`); `Synchronise` the flops towards the controller; `MainPoll`, `MainAck`, `MainMove`, `MainEnd` the host |
| `RhTransfer` | the RH11's transfer commands over `BlkDev`: registers, command interpreter, controller clear, engine | `NclkEdge` composes `Access`, `Ready`, `Orphan`, `Command`, `Clear` in the order of the process; `ClkEdge` is one step of the engine (`EngineIdle` ... `EngineWriteDone`); `Grant`, `BusInit`, `BusInitEnd` are the bus |
| `SectorStore` | what a disk promises its program: whole sectors, one at a time, counted when they are there | `Issue`, `Send`, `Land`, `Settle`, `Fetch`, `Count`, `End`; no registers, buffers or handshakes. `RhTransfer` maps its command (`cmd`) and the sector on its way (`flight`) to it |
| `Interrupts_proofs` | theorems about `Interrupts`, after lemmas about `IntDevices`: what one edge makes of each of the eleven machines | inductive invariant `IInv`; the shapes a machine and its lines go through (`Shape`, `Firm`); it implements `InterruptService` |
| `RhTransfer_proofs` | theorems about `RhTransfer` with `BlkDev`; it implements `SectorStore` | inductive invariant `IInv`; one lemma per clock edge and for the host |
| `NprArbiter_proofs` | theorems about `NprArbiter`; it implements `BusOwner` | inductive invariant `IInv`; one lemma per clock edge |
| `ObjImage` | what an object file is for: sections, location counters, bytes, fixups | `Enter`, `Move`, `Put` |
| `ObjectFile` | the object writer: `text_*`, `rld_*`, `gsd_*`, the complex accumulator, `change_dot`, the `store_*` functions | one action per operation of the assembler: a store of each kind, `.LIMIT`, a change of section or of address, the end |
| `ObjectReaders` | `genblkram` and `dumpobj` reading the records one by one, one of them perhaps damaged; and `linked`, what a linker makes of them | `genblkram`, `dumpobj`, `Damage`; extends `ObjectFile` and refines `ObjImage` |
| `ObjectFile_proofs` | theorems about `ObjectFile` | inductive invariant `IInv` |
| `FoldFacts` | lemmas about `FoldLeft`, for the proofs about files | `FoldChain`, `FoldJoined`, `FoldKept`; a proof about a fold instantiates it |
| `ObjectReaders_proofs` | the records implement `ObjImage` | one lemma per way of storing, of what a linker makes of it |
| `ObjectRecords_proofs` | the invariants of `ObjectReaders` | inductive invariants `WInv`, `ReadersInv`; readers and linker compared record by record |
| `Assembler` | `macro11`'s two passes over one file: `stream2.c`'s stack of streams, blocks, macros, symbols, sections | `assemble` reads one line and does what the statement does (`Label`, `Assign`, `If`, `Rept`, `Call`, `Mexit`, ...); `AtEnd`, `SecondPass`, `Finish` |
| `Assembler_proofs` | theorems about `Assembler` | inductive invariants `CallsOK`, `ImageOK` and `PassesOK` |
| `Expressions` | parser, `evaluate`, `complex_tree`, what is stored for an expression, and what a linker does with it | operators only |
| `Instructions` | `get_mode`, `mode_extension`, `check_branch` and every `OC_` class of instruction, in both passes | one action per class of line |
| `MCInterrupts`, `MCNprArbiter`, `MCObjectFile`, `MCAssembler`, `MCInstructions` | the small instances the `.cfg` files use; the last two also say what a source text means, without the assembler's trees and stacks | |

### Correspondence worth knowing

- *Conditions.* A device's `rdy` holds what may make it interrupt (ready, done,
  error, receiver, transmitter); it appears (`Progress`) and is taken away by a
  register access (`Writes`, `Reads`) whenever the environment chooses, at
  most one access per cycle and only while the processor is in a load or a store.
- *Configuration.* `have` is the set of the `have_*` inputs that are 1. A device
  that is not configured holds its request down.
- *Discipline.* `Masked` names the devices whose requests the program takes back
  (by clearing an enable) only at a priority that masks their level. This is what
  operating systems do, since clearing an enable at a lower priority is a race
  on the real machines as well; the code nevertheless claims to handle it
  ("passive release"). Runs that assume the discipline list the device in
  `Masked`; the run `StaleGrant` and part of `Liveness` do not.
- *Processor.* States that touch neither the bus nor the priority are folded into
  `exec`, `load` and `store`; a step of any length is a sequence of these. What a
  store writes to PS or PIR is chosen from `Ipls` and `Pirs`. Only level 6 lacks
  a passive release, as in `state_br6`.
- *Engines.* `phase` `idle`, `ask`, `own`, `done` stand for the engine's wait
  for work, its wait for the grant, its burst, and its handshake with the
  controller behind it. `left` counts the words, `Burst` the longest burst
  (256 in the code); `Lengths` are the commands the block mover is given, up to
  127 words. A command of none stays in `cmd_wait` with its request up (`Mover`,
  `MoverAtNclk`). `Withdraws` is the TM11, which leaves a burst at once when the
  medium changes; `Abandons` the RH11, whose controller clear only an
  instruction can make (`clr`).

- *Sectors.* A sector is one value: the block it was written for and the command
  that wrote it (`gen`). The host moves it in any number of `MainMove` steps while
  `sd_ack` is up, so what a buffer holds at any time of the transfer may be what
  arrives; the engine moves it in one step, since the processor is off the bus
  and the buffer is its own (`BufferExclusive` checks that it is). A read cut
  short by nonexistent memory moves nothing.
- *Clock domains.* Half a cycle of the processor clock is at least six edges of
  `clk_sys`: two for the synchronisers and four for `hps_state`, which makes at
  most three steps before it waits for the host again. So `hps_state` has
  reacted to the controller's lines before the controller's next edge
  (`Settled`); the answers take the three flops of `pipe` back. The host runs at
  any speed.
- *Registers of a transfer.* The program keeps the buffer of block b at address b,
  so that one counter stands for the disk address and the bus address; the
  property that a sector is in place (`DataInPlace`) is then about both. The
  program loads them and starts the command in one access, and fetches at least
  one instruction between two accesses (`fetch`).
- *Drives.* `pack` is what a new command finds in its drive: a valid volume, no
  medium, or a volume not yet acknowledged; `Command` drops the latter two, and
  any command to a unit that does not exist. It is chosen with the command, since the
  code does not expect it to change under one (section 5).
- *Unruly programs.* `Unruly` lets the program do what the run `Transfer` excludes:
  have its clear taken at the edge that starts a block (`clear_start`), or
  select another unit during a transfer (`select`, no run).
- *Words and names of the object file.* A word is a value that is told from the
  others, its low and its high byte; a name is a model value. Sizes of records and
  entries are those of the code, the sizes of the buffers are `TextMax`, `RldMax`,
  `GsdMax`, `AccumMax` (128, 128, 122 and 126 in the code). `rld_offset` goes as far as
  the code writes; past the end of `rld` it would be written over itself, so a
  behaviour ends there (`Overrun`).
- *Statements.* A line of `Assembler` is a record: its operation, a name, a value
  (a symbol and an offset) and a list. Expressions of more than that are the
  business of `Expressions`, characters of neither. The end of the input inside a
  block, and an access before the first element of `conds`, end in the phases
  `crashed` and `undefined`.
- *Scaled integers.* `WordSize` and `HostSize` are 2^12 and 2^15 where the code has
  2^16 and 2^32, so that products stay within TLC's integers; the ranges of
  branches are the real ones. The fields of an instruction word are kept
  apart (`high`, `word`), since the code only ever ORs them together.
- *Pass and symbols.* `Instructions` takes the labels as given: `EarlySymbols` in the
  first pass, `LateSymbols`, with what is defined further down, in the second. An
  undefined symbol stays undefined, as under `.DSABL GBL`; that it becomes a global
  otherwise is in `Assembler`.

The models of the assembler were compared with the program itself, compiled:
2799 generated files for `Assembler` (words, addresses, errors, count of errors,
crashes) and the 26340 programs of the run `Encoding` (words, relocations, errors,
crashes, endless loops), listing and `dumpobj` output against the final state. They
agree, but for the eight programs of `Encoding` whose quotient depends on the scaled
word size.

## 3. Runs

| Run | Instance | Shows |
|---|---|---|
| `Pairs` | KL11+MNC output (BR4), RK11+RL11 and DR11-C+TS11 (BR5), KW11-L+MNC input (BR6); SPL, RESET | `TypeOK`, `OneGrant`, `ImplementsService` (refinement), `TrapIsGranted`, `ReleaseLosesNothing` |
| `Liveness` | RH11+DEUNA; a KL11 alone and an MNC output alone without discipline | `HandshakeEnds`, `RequestServed` |
| `BusyBus` | KW11-L and RL11 with NPR, PIR, WAIT, SPL, RESET, HALT | `TrapIsGranted` |
| `Masters` | RL11, TM11, DEUNA mover, bursts and commands of up to two words, none included | `TypeOK`, `OneMaster`, `NoStaleStrobe`, `ImplementsOwner` (refinement), `BusComesBack`, `BusGranted` |
| `Transfer` | RH11 with a disk of two blocks; three commands of one or two sectors, reads, writes and write checks, a drive without medium or valid volume, clears and INITs at any time | `TypeOK`, `DataInPlace`, `BufferExclusive`, `SectorDone`, `NoStrayDma`, `ImplementsStore` (refinement), `TransferEnds` |
| `ObjectFile` | up to three stores of every kind, two moves, two sections, buffers that hold two or three of them, expressions of which one is longer than an RLD buffer, any record damaged | `TypeOK`, `BuffersFit`, `RldFollowsText`, `SectorsNumbered`, `RomHoldsProgram`, `TapeWithoutWarning`, `ImplementsImage` (refinement) |
| `Assembly` | every nesting of two blocks, every short file of block statements, short files with symbols, local symbols, macros and sections | `TypeOK`, `ReferencesResolved`, `GeneratedOnce`, `PassesAgree`, `DirectoryHolds`, `ExpansionIsNested` |
| `Encoding` | every expression of two operators over a symbol of each kind, brackets and prefixes; every operand, pairs of operands; branches at the ends of their range; lines that are wrong | `TypeOK`, `WordsAsWritten`, `OperandsAsWritten`, `BranchesReach`, `LocationsAgree`, `ConditionsAsWritten` |
| `StaleGrant`, `OrphanHang`, `ClearStart`, `RomImage` | one device, or one kind of store | what the code's comments or tests say and the code does not do, section 5 |

*Bounds.* Two devices on a line are enough for every race of the arbiters: the
if-elsif chain compares a device with those before it and an arm of the
`case` looks only at its own device. `ResetTime = 1` keeps the counter of
`state_init` (7, or `initcycles_reset`) and both of its branches. `Ipls` has a
priority below and one at or above the levels in use. `Burst = 2` and
`Lengths` have bursts and commands of none, one and several words: an engine leaves a burst
after its only word, after its last, or before the first. The mover's command of no words
never ends (section 5); `BusComesBack` excludes that state by name (`EmptyMove`), the
safety properties do not.

`ObjectFile`'s buffers take one or two entries, so that each kind of store
meets a buffer that is full, nearly full and empty; the limits matter through
comparisons with the size of what is added only, and the proofs are for every
size. `AccumMax` exceeds by two bytes what an RLD record of `RldMax` bytes has for an
expression, as 126 does for 128. Of the expressions of the
run one is short, one fills `RldMax` and one fills `AccumMax`: `BuffersFit` excludes the
overrun of the last by name. In `Assembly` blocks nest two deep around a body with an `.MEXIT`, since
every stack is then popped through a block of another kind; the generated
numbers stop at `MaxGenerated`. The files `Ahead` have lines that only the
second pass comes to, `HalfWay` macros that leave a condition half way and more
conditions than there is room for. In `Encoding` the
constants include the neutral and the absorbing ones of every operator, and each
address is linked in two environments that differ in every base and global.
Forms that the code is known to miscalculate (`Miscalculated`, section 5) are
left out of `WordsAsWritten` and `OperandsAsWritten`; every other tree is in.

Three commands are an abandoned one, its retry and one that follows; two blocks
tell a sector from its neighbour and let a command of two sectors run past the
end of the disk.

*Fairness.* In `RhTransfer` every edge of a clock is weakly fair, and so is each
step of the host: Main polls for ever and serves what it has latched
(`sim/tb_rh11_reboot.vhd` 163-219); a host that never answers would stop the
real machine's disk too. `SF_vars(Grant)` assumes that the masters before
the RH11 in the arbiter's chain leave it the bus now and then. The program, the clear and INIT are not fair. Elsewhere
`WF_vars(Next)` says that the clock runs: each model alternates two
edges and the code has no other schedule. `LiveSpec` adds
`SF_vars(ClkEdge /\ IfetchBr)`, an assumption on the program: it is not
forever diverted by traps of its own (`IfetchTrap`) in each ifetch in
which it could take an interrupt. `RequestServed` and `BusGranted` assume in
their statement that the program goes on fetching, and speak of the first device of
a chain only: a fixed-priority chain starves the others by design.

## 4. Proofs

`NprArbiter_proofs` proves, for any set of masters, any ranks, any burst and
reset length, any lengths of the movers' commands, none included, and any choice of `Movers`, `Withdraws` and `Abandons`
(the named assumptions of `NprArbiter`):

- `Invariant`: `Spec => []IInv`. `OneMaster` and `BurstOwnsBus` are not
  inductive: `IInv` adds that the processor's grant line and the bus reset go
  with its state (`GrantIsState`), that a master is granted only while the
  arbiter serves it and the processor holds the bus for it or is being reset
  (`GrantIsServed`), the shape of an engine in each phase (`EngineShape`) and that an engine in a burst holds its
  request and its grant (`EngineOwns`).
- `TypeCorrect`, `Exclusion`, `Ownership`: `TypeOK`, `OneMaster` and
  `BurstOwnsBus` (an engine in its burst has its grant) from it; `StrobesDown`: the action property `NoStaleStrobe`.
- `OwnerImplemented`: `Spec => ImplementsOwner`, every edge is a step of `BusOwner`
  or a stutter. It needs one fact more, `LentForRequest`: half a cycle after the
  processor gave the bus away it still sees the request. Hence a request that
  is gone makes the arbiter's next edge the end of the loan, and a master
  that asks while another lets go waits for a loan of its own.

The proof follows the edges: `CpuStepInv`, `ControllerStep`, `MoverStep` and
`MoverRequestStep` are the lemmas on one component, `ClkEngines` and `NclkEngines`
what an edge makes of an engine; `ClkInv` and `NclkInv` put them together, `ClkOwner`
and `NclkOwner` map the edges to `BusOwner`.

`Interrupts_proofs` proves, for any set of devices of the eleven kinds on any
levels, chains, vectors and priorities (the named assumptions of `Interrupts`),

- `TypeCorrect`: `TypeOK`, without any condition on the program;
- and, if the program masks a level before it withdraws a request of it
  (`Discipline`, the condition under which the code's passive release is not
  needed): `GrantInvariant` (`IInv`), and from it `OneGrantHolds`,
  `GrantsComeFromCpu`, `TrapsAreGranted` and `ReleasesLoseNothing`. The last also
  says that there is then no passive release at all;
- under the same condition `ServiceImplemented`: every edge is a step of
  `InterruptService` or a stutter. Beside `IInv` it takes `WaitLingers`: a controller
  that has been served waits for one cycle more without its grant, and the
  processor is still in its trap then, so that the next grant finds nobody
  waiting (`TakersAreGranted`) and no controller interrupts twice for one grant.

`Discipline` cannot be dropped: with a device that withdraws unmasked, TLC refutes
`GrantComesFromCpu` (the run `StaleGrant`), and `TrapIsGranted`,
`ReleaseLosesNothing` and `ImplementsService` as well. Under it the hard part is time: a request taken back
at a masking priority stays visible for several edges in the arbiter's latched
`cpu_br`, and the program may lower its priority meanwhile. `IInv` says where it
may still be seen (`LineLingers`, `RequestLingers`) and that it is gone before the
processor can look (`TakenBack`); that arbiter, processor and device are at the same
point of a handshake (`Granting`, `GrantEnds`, `ArbiterServes`, `GrantIsState`,
`WaitSeen`, `DeviceShapes`); and that a grant is latched for one device
(`SingleGrant`). The module begins with one lemma per property of a machine, with a
case for each controller, and goes on with one lemma per action of either edge.

`RhTransfer_proofs` proves, for a disk, a command and a history of commands of any
length and for any speed of the host, that the registers, the engine, the bridge, its
flops and Main stay in step (`InStep`, `IInv`), and from it every safety property
of the run `Transfer`: `TypeCorrect`, `SectorsStayInPlace`, `BuffersAreExclusive`,
`SectorsAreDone`, `DmaIsTheCommands`, and `NothingComesLate` (no data of an
earlier command replace those of a later one). Here `Discipline` is
`Unruly = {}`: without it `DataInPlace` is false (the run `ClearStart`). `IInv` has

- what Main holds against what the bridge asks for, or asked for before an INIT
  (`Asked`), and where the sector of a transfer is meanwhile (`Carried`);
- for a read and for a write, which states of engine and bridge go together, and how
  far the answer has come: an answer of the bridge has three flops to go, so it is
  up, down, rising or falling (`Reading`, `Writing`, `NoBlock`);
- that a block under way is the command's, or marked as abandoned (`Current`), that
  words move only with the bus (`OnBus`), that a clear never meets the start of
  a block, which needs both the discipline and the instruction fetched between two
  accesses (`ClearMeets`), and where the sector of the block is (`Sector`);
- how INIT finds things (`Stopped`).

One lemma per action keeps it; for the edge of `nclk` the parts of the process have
a lemma each (`AccessShape`, `ReadyShape`, `OrphanShape`, `CommandShape`,
`ClearShape`) and `NclkShape` sums up what an edge may do to a block and to a
command. The refinement uses that summary: `StoreImplemented` shows that every
step is a step of `SectorStore` or none. An edge of `nclk` issues, counts or ends a
command; the engine sends or fetches; the host lets a sector land; the bridge, or
the host after it, settles it (also when the answer belongs to a command cleared
long ago); INIT ends a command and may lose its sector before the bridge has asked.

Liveness (`BusComesBack`, `BusGranted`, `HandshakeEnds`, `RequestServed`,
`TransferEnds`) is model-checked only: temporal reasoning under fairness is out of
the prover's reach.

`ObjectFile_proofs` proves for any sections, any contents, any complex expressions and any
sizes of the buffers that hold at least one plain store (`TextAssumption`,
`RldAssumption`; `AccumAssumption` asks nothing of the accumulator's size), that

- `BuffersAlwaysFit`: no sequence of stores, jumps and changes of section overruns
  a buffer (`BuffersFit`), but for one expression alone in its record, which goes no
  further than `AccumMax + 4`: two bytes past the end in the code;
- `NothingOverruns`: if every expression with its store has room in an empty RLD buffer
  (`ComplexFits`, a hypothesis of the theorem that the sizes of the code do not give),
  nothing is overrun at all;
- `RldAlwaysFollowsText`: a relocation refers to the TEXT record just before its own
  record (`RldFollowsText`).

`RldFollowsText` speaks of the records written, so `IInv` adds what the buffers will
become: that every pending relocation lies within the pending text, at the place
the flush will give it (`FlushGood`), and that `text_fit` makes the room it is asked
for, if an empty buffer has it (`FitGood`). How far `rld_offset` may go is
`Roof`: `RldMax` under `ComplexFits`, otherwise what the longest expression needs. A
second invariant, `RoomInv`, says what is in a buffer that has been overrun. One lemma per kind of store carries it through
(`TextWordGood`, `RelocatedGood`, `LimitsGood`, `ComplexGood`, `LocationGood`);
`StepGood` puts them together.

*Folds.* What a reader, or a linker, makes of a file is a fold over its records. The
provers know nothing of `FoldLeft` and cannot instantiate a theorem about every
operator, but a module can be instantiated: `FoldFacts` has the operator as a
constant and has the lemmas: `FoldLeft` is the last value of a chain that goes through the
elements (`FoldChain`, from the definition over subsets of the domain). Each
proof below instantiates it with the operator it folds. An induction on the records
is an induction on a set of numbers (`SetInduction`).

`ObjectReaders_proofs` proves the refinement: `ImageImplemented` shows that what a
linker rebuilds from the records and the pending buffers is, after every step,
exactly what the program has stored, a byte and a fixup at a time. The lemmas say
what `linked` makes of a file with one more TEXT record, one more relocation or one
more change of location, that a flush changes nothing, and then, for each kind of
store, that the image gets that store's bytes at its address. The theorem has a hypothesis,
`AccumHolds`: the operations of a complex expression fit in the accumulator. (In an RLD
record they need not: the theorem holds up to an overrun, where the model ends.) The
code drops an operation that does not (`object.c` 679) and `complex_tree` does not
look at the result (`macro11.c` 2602), so that the refinement is false without it;
TLC evaluates it for the instance (`ExprsFit`).

`ObjectRecords_proofs` proves the four invariants of `ObjectReaders`, none of which needs
`AccumHolds`: `ReadersTypeCorrect`, `SectorsAreNumbered`, `RomAlwaysHoldsProgram` and
`TapeAlwaysLoads`, for any sections, globals, stores and sizes of buffers, and
whichever record is damaged.

- A record can be read only as what came before it says: which section a
  TEXT record belongs to is in an earlier RLD record. `Readable` says that each record
  of a file makes sense in the section that the chain of the linker is in when it comes to
  it. It holds of every beginning of a readable file, and damage leaves a beginning
  (`IntactReadable`).
- The writer's invariant `WInv` says that file, buffers and directory are readable at any
  time, and that the section a reader is in after the open buffers is
  `last_dot_section`. The readers' `ReadersInv` says that a reader has not run
  yet, or that its state is the fold over the intact records, and that the file has
  not changed since.
- The directory is itself written by a fold, over the flattened entries of each
  section, into records of bounded size, and read by another: `DirectoryRead` and
  `DirectoryWritten` show that the readers number the sections in the writer's order.
- The linker and a reader then go along the two chains together. `RomAgrees` (the
  image, while all of it is in one section, is in `genblkram`'s memory) and `TapeAgrees` (what
  the tape loads is the image, and without a warning every fixup is of its own
  section and needs nothing) are kept by each record (`RomStep`, `TapeStep`).

The assumptions on constants are named in `ObjectFile`: a TEXT, an RLD and a GSD buffer hold
at least one entry (`TextAssumption`, `RldAssumption`, `GsdAssumption`), the accumulator has a
size and an expression is a sequence (`AccumAssumption`, `ExprsAssumption`), addresses are words
(`OriginsAssumption`), there is a first section (`SectionsAssumption`), and the
shape of the inputs (`TransferAssumption`, `BoundsAssumption`, `PalettesAssumption`).

`Assembler_proofs` proves, for any source files, sections, local symbols and limits
(`ProgramsAssumption`, `NamesAssumption`, `BoundsAssumption`):

- `TypeCorrect`: `TypeOK`. Its work is in the streams: a line that `stack_gets` returns
  is a line of the file or of a body, with arguments in it, and no stream is left
  past its end. One lemma per statement.
- `GeneratedOnceAlways`: `GeneratedOnce`. It speaks of the past, so the invariant
  (`CallsOK`) ties the past to the counters: the numbers of an expansion in the present
  block lie below `last_locsym`, and no expansion is of a later block than `last_lsb`.
- `ReferencesResolvedAlways` and `DirectoryHoldsAlways`: `ReferencesResolved` and
  `DirectoryHolds`, from the invariant `ImageOK`. Its part `SymbolsOK` says of every
  label of the first pass that no assignment made undefined that it is permanent, and
  has been since (`SteadyFixed`); that a label of the second pass without a message is
  where the table has it (`LabelsPlaced`); that a word stored holds what the
  table has (`WordsResolved`), which is true when the table can no longer change; and
  that the directory is the table of the end of the first pass (`GlobalsWritten`). `SizesOK` says that a word
  ends within its section as far as an unsigned can say (`WordsFit`, `WordsNoted`),
  in the first pass too, since the directory is written from there.

- `PassesAgreeAlways`: `PassesAgree`. What a pass does next depends on little: its
  input, blocks, sections and own macros, a record `r`, and on the symbols only through
  what its statements note. `After(r, e)` is the record after a statement that noted
  `e`, and `AssembleFollows` says that every statement goes there (one lemma per
  statement) and notes either what `r` determines (`Noted`) or one of the entries that
  an expression decides. The invariant `PassesOK` says that the first pass is in the
  last of a chain of such records, and that the second pass, until it differs by
  an expression, is in the record of that chain that has as many statements
  (`SecondReads`). Three things had to be added. The macro table still holds the
  first pass's macros, all of a statement not yet reached (`Ordered`, `Remaining`):
  hence none is called too early. `sect_stack` still holds its sections: a
  `.RESTORE` that finds one of the first pass's would have found nothing in
  the first pass, and ended it (`OwnSaved`, `Sound`). And `.ENABL LSB` is on at the
  start of the second pass iff the first one left it on (`LeavesOn`).

`ReferencesResolved` and `DirectoryHolds` were once stated for every label. The proof would not go through:
a label that only the second pass comes to replaces an assigned symbol, with no
message, after words have been stored with the old value (section 5). Hence
`Steady`, and files with such labels in the run (`Ahead`). What a block
of a false condition leaves behind when its expansion ends (`HalfWay`) was
found in the same way.

What stays with TLC:

- liveness (above);
- `ExpansionIsNested`, whose meaning of a nest of blocks is a recursive definition over
  a tree, and with it the invariants of `Instructions`, whose expressions are
  trees: what a recursive definition computes for every input is an induction over
  data, which the provers cannot do;
- that a ROM's relocations are resolved (`RomIsResolved`): it is false, section 5.

## 5. What the code does otherwise than it says

- `StaleGrant`: a KL11 that withdraws as the processor raises BG4 keeps a latched
  grant, which its next request consumes (`unibus.vhd` 3066-3072).
- `ClearStart`: the RH11's clear, taken at the edge that starts a block, does not
  mark it as abandoned (`rh11.vhd` 1229): the disk gets a block of zeros.
- `OrphanHang`: an RH11 write cleared between its request for the bus and the
  grant keeps npr up, and the processor off the bus (`rh11.vhd` 1452-1453).
- `RomImage`: a PC-relative operand in absolute code is left to a linker;
  `genblkram` applies no relocation and does not note this one (`genblkram.c` 489): a
  wrong ROM, exit 0. Its warning (709-713) can never be printed, for `bin` is always NULL.

The models also show the following, without a run of their own. Where a property
excludes one of them, its statement does so by name.

Overruns (`BuffersFit`). A complex expression of 125 or 126 bytes with its store is written
to `rld[128]` after four bytes of headers (`object.c` 276-289, 807-853): `text_fit`
flushes and does not look again, and the record runs over `rld_offset`, which follows. With
`.WORD G0+G1+...+G20` a gcc build loses the relocation and macro11 exits with 0; 20
globals are in order.

Empty commands (`EmptyMove`). A command of no words to the DEUNA's block mover never leaves
`cmd_wait` (`xubm.vhd` 261-271), so that run and npr stay up and the processor stays off the
bus until a reset. Of the firmware's commands only that of `xmitld`
(`roms/xubrt45.mac` 927-973) takes its length from a descriptor unchecked.

Interrupts and disks. An RK11 (KW11-L, MNC output) withdrawn leaves its last vector
up, the processor's test for vector 0 fails and it traps (`rk11.vhd` 452-454); DMA
ends a WAIT (`cpu.vhd` 1288); enabling the RK11's interrupt while ready does not
interrupt (`rk11.vhd` 553-555); writing another unit to CS2 during a transfer, or losing
the medium or the volume (939-948), drops drive 0's command and leaves its block running
(`rh11.vhd` 939-951).

Images. `genblkram -b` writes memory from address 0 on, while the image in the template starts at the
lowest address or the base (`genblkram.c` 821-872): the two differ for a ROM
that starts elsewhere.

Blocks, passes and symbols of the assembler (all seen in the program as well):

- `.RESTORE` pops the section stack before it looks (`macro11.c` 4263); of a section
  never saved, it is a null pointer. An unclosed `.REPT` or `.IRP` at the end of the
  file is one too.
- An `.MEXIT`, or the end of an expansion, drops its conditional blocks and leaves
  `suppressed` counting, so that the rest of the file may be skipped; a later `.ENDC`
  reads before `conds`.
- Options stay on for the second pass: with `.ENABL LSB` left on at the end of a file,
  a reference to a local symbol that is defined further down is stored as 2 instead of
  its address, and the program exits with 0.
- A label that the first pass skips (behind `.IF DF B` with B assigned later) takes
  over a symbol of its name that was assigned before: `A=1`, `.IF DF B`, `A:`, `.ENDC`.
  References before it have the one value, those after it the other, and there is no
  message (`macro11.c` 564-612).
- A local symbol that is not defined becomes a global. Under `.DSABL GBL`, `.WORD Q+2`
  with Q undefined is stored as 2 without a message.
- A label that only the second pass defines replaces the implicit global that was
  referenced. `.MCALL` in pass 2 keeps a later redefinition. `.REPT 0` assembles its
  body once. `.EVEN` and `.ODD` do not tell the object file. Text after `.END` is
  assembled. A redefined label, a branch out of range and an invalid expression are
  reported but not counted, and the program exits with 0.

Expressions (`Miscalculated`):

- `^C` of anything but a constant is a negation (`macro11.c` 1843).
- `-A` is the negative of A's offset with A's section added, and `-G` of a global is
  0 (`macro11.c` 1863): both silent.
- `G-2+5` is stored as G-3: `<A-x>+y` keeps the subtraction its comment
  turns into an addition (`macro11.c` 1944-1956).
- `-1/2` is 177777: constants have 32 bits until they are stored. A division by zero
  ends the assembler with a signal.
- `.IF DF U&Z` with Z an absolute 0 is true and `.IF DF U!Z` false: the operand with
  value 0 disappears before definedness is looked at.

Lines:

- `JMP (R0)` and every other mode of R0 is reported as "JMP Rn is illegal", `JMP R1`
  is not: the test is for the register field (`macro11.c` 5178).
- `.WORD )`, or any text that is no expression, is read for ever (`macro11.c` 3844).
- Text after a complete operand is ignored (`CLR A B`).
- A symbol assigned a register after its use is two words in the first pass and one in
  the second; `SOB R1,F` with F assigned later is none and one. The labels after
  it are reported as redefined and keep their old values; exit 0.
- SOB to another section and RTS of no register free their tree twice
  (`macro11.c` 5348, 5483). FIS instructions take register 4, which is no
  accumulator; operands of EMT, TRAP and MARK are not cut to their field. An odd branch
  target is rounded down without a message.

## 6. Not modelled, and the plan

In order; each gets a module, its runs and, where it says so, theorems.

1. `XuBridge`: `xufp.vhd` and `xu_ddr_bridge.vhd`, toggles and rings, against
   an abstract FIFO (refinement).
2. `XuLocalBus`: `xubl.vhd`, `xubm.vhd`, the two buses held at once.
3. The KL11 receive silo and transmitter; disk and tape commands of RL11, RK11 and
   TM11 over `BlkDev`, as `RhTransfer` has those of the RH11.
4. `Mmu`: relocation, PDR checks, abort and trap handshakes, and the register
   changes MMR1 records for an instruction aborted half way.
5. `mister_top.vhd` memory cycle, reset and mounting.
6. `.MCALL` and the macro libraries (`mlb.c`), `.INCLUDE`, strings and floating
   constants of the assembler.

Left out for good: the processor's datapath and FP11 (data, not control, and
covered by diagnostics), the terminal and the panel (no effect on the bus), the
vendored framework, ROM contents and build files.
