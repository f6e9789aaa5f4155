---------------------------- MODULE Instructions ----------------------------
(***************************************************************************)
(* The instructions of the MACRO-11 assembler, tools/macro11.c: how it     *)
(* reads the operands of a line, which words it stores for them and where, *)
(* in both passes.  A line stores its words at ".", in one section; the    *)
(* first pass only counts them, so that labels have their addresses in the *)
(* second.                                                                 *)
(***************************************************************************)
EXTENDS Expressions, TLC

CONSTANTS
    Programs,      \* the programs: some lines, and where "." is at the first
    Section,       \* the relocatable section they may be in
    EarlySymbols,  \* the symbols when the first pass reads a line
    LateSymbols    \* the symbols when the second pass does, with the labels below

VARIABLES
    program,    \* the lines of a program
    section,    \* the current section, Abs or Section
    enabl_ama,  \* the option .ENABL AMA
    pass,       \* 1 or 2
    at,         \* the line about to be read
    dot,        \* DOT
    before,     \* history: DOT at each line of the first pass
    image,      \* what the second pass stored: [line, addr, store]
    reported,   \* the lines with an error, in the second pass
    state       \* "assembling", "done", "crashed", or "looping"

fixed == <<program, section, enabl_ama>>
vars  == <<program, section, enabl_ama, pass, at, dot, before, image, reported, state>>

(* What a symbol is where "." is here.                                     *)
SymbolTable(here) ==
    ("." :> Sym(".", section, here, FALSE)) @@
    (IF pass = 1 THEN EarlySymbols ELSE LateSymbols)

Expr(text, here) == parse_expr(text, FALSE, SymbolTable(here))

-----------------------------------------------------------------------------
(* Operands.                                                               *)

NO_REG == 511

get_register(t) ==
    CASE IsLit(t) /\ t.lit <= 7 -> t.lit
      [] t.type = "SYM" /\ t.symbol.section = Registers -> t.symbol.value
      [] OTHER -> NO_REG

(* An addressing mode: mode * 8 + register, and the value of the word that *)
(* follows if there is one, relative to the PC if rel.                     *)
Mode(type, offset, rel, rest) ==
    [ok |-> TRUE, type |-> type, offset |-> offset, rel |-> rel, rest |-> rest]

NoOffset == [type |-> "NONE"]
BadMode  == [ok |-> FALSE, type |-> 0, offset |-> NoOffset, rel |-> FALSE, rest |-> <<>>]

(* (Rn), from after the bracket: its register and the text after it.       *)
RegisterAnd(p) ==
    LET r == get_register(p.tree)
    IN [ok |-> r # NO_REG /\ Next1(p.rest) = ")", reg |-> r,
        rest |-> IF p.rest = <<>> THEN <<>> ELSE Tail(p.rest)]
InBrackets(text, here) == RegisterAnd(Expr(text, here))

Bracket(b, ind) ==
    CASE ~b.ok -> BadMode
      [] b.ok /\ Next1(b.rest) = "+" -> Mode(ind + 16 + b.reg, NoOffset, FALSE, Tail(b.rest))
      [] b.ok /\ Next1(b.rest) # "+" /\ ind = 8 -> Mode(56 + b.reg, Lit(0), FALSE, b.rest)
      [] OTHER -> Mode(8 + b.reg, NoOffset, FALSE, b.rest)

(* An operand that is nothing but a register in brackets, or an index.     *)
WithRegister(b, mode, offset) ==
    IF b.ok THEN Mode(mode + b.reg, offset, FALSE, b.rest) ELSE BadMode

(* An expression: an index, a register, or an address, which is absolute   *)
(* with AMA and no @, and else relative to the PC.                         *)
Address(p, ind, here) ==
    CASE Next1(p.rest) = "(" -> WithRegister(InBrackets(Tail(p.rest), here), ind + 48, p.tree)
      [] Next1(p.rest) # "(" /\ p.tree.type = "SYM" /\ p.tree.symbol.section = Registers ->
           Mode(ind + p.tree.symbol.value, NoOffset, FALSE, p.rest)
      [] OTHER -> IF ind = 0 /\ enabl_ama THEN Mode(31, p.tree, FALSE, p.rest)
                  ELSE Mode(ind + 55, p.tree, TRUE, p.rest)

Immediate(p, ind) == Mode(ind + 23, p.tree, FALSE, p.rest)

get_mode(text, here) ==
    LET ind == IF Next1(text) = "@" THEN 8 ELSE 0
        t   == IF ind = 8 THEN Tail(text) ELSE text
    IN IF Next1(t) = "#" THEN Immediate(Expr(Tail(t), here), ind)
       ELSE IF Next1(t) = "-" /\ Next1(Tail(t)) = "("
            THEN WithRegister(InBrackets(Tail(Tail(t)), here), ind + 32, NoOffset)
       ELSE IF Next1(t) = "(" THEN Bracket(InBrackets(Tail(t), here), ind)
       ELSE Address(Expr(t, here), ind, here)

(* The word after the instruction, stored at here.  Within the section the *)
(* distance is known now; the linker finds the others.                     *)
ExtensionWord(mode, here) ==
    LET t == mode.offset
        e == express_sym_offset(t)
        n == e.sym.value + e.offset
    IN IF IsLit(t) THEN [Plain(t.lit) EXCEPT !.displaced = mode.rel]
       ELSE IF ~e.ok THEN store_complex(t, mode.rel)
       ELSE IF e.sym.global THEN OfGlobal(e.sym.label, e.offset, mode.rel)
       ELSE IF mode.rel /\ e.sym.section = section THEN Plain(n - here - 2)
       ELSE OfSection(e.sym.section, n, mode.rel)

(* Mutant of mode_extension: measured from the instruction.                *)
mode_extension_FromInstruction(mode, here) ==
    IF mode.offset = NoOffset THEN <<>> ELSE <<ExtensionWord(mode, here - 2)>>

(* Mutant of mode_extension: nothing is stored for what is not yet known.  *)
mode_extension_KnownOnly(mode, here) ==
    IF mode.offset.type \in {"NONE", "UNDEFINED_SYM"} THEN <<>>
    ELSE <<ExtensionWord(mode, here)>>

mode_extension(mode, here) ==
    IF mode.offset = NoOffset THEN <<>> ELSE <<ExtensionWord(mode, here)>>

-----------------------------------------------------------------------------
(* What a line does: the words it stores from here on, whether it reports  *)
(* an error, and how it ends.                                              *)
Result(here, words, error, ends) ==
    [here |-> here, words |-> words, error |-> error, ends |-> ends]

Stores(here, words) == Result(here, words, FALSE, "well")
Failed(here)        == Result(here, <<>>, TRUE, "well")

(* An instruction word: what its fields hold above and below bit 6.        *)
Code(op, high, low) ==
    [kind |-> "op", base |-> op, word |-> low, high |-> high, displaced |-> FALSE, code |-> <<>>]

Pad == Store("pad", "", 0, FALSE, <<>>)

(* do_word, with no text left to read when it ends; an error that is not   *)
(* at the end of a word is met again and again.                            *)
RECURSIVE do_word(_, _, _), WordThen(_, _, _, _)
do_word(text, here, words) == WordThen(Expr(text, here), text, here, words)

WordThen(p, text, here, words) ==
    LET more == IF Next1(p.rest) = "," THEN Tail(p.rest) ELSE p.rest
        all  == Append(words, store_value(p.tree))
    IN IF p.tree = Trap THEN Result(here, words, FALSE, "trap")
       ELSE IF more = <<>> THEN Stores(here, all)
       ELSE IF more = text THEN Result(here, words, FALSE, "loop")
       ELSE do_word(more, here + 2, all)

DataWords(text, here) ==
    IF here % 2 = 0 THEN [do_word(text, here, <<>>) EXCEPT !.here = here]
    ELSE [do_word(text, here + 1, <<>>) EXCEPT
             !.here = here, !.words = <<Pad>> \o @, !.error = TRUE]

Defined(t, how) == IF how = "DF" THEN eval_defined(t) ELSE eval_undefined(t)

(* .IIF DF expression, .WORD ...                                           *)
ImmediateIf(line, here) ==
    IF Defined(parse_expr(line.text, TRUE, SymbolTable(here)).tree, line.op)
    THEN DataWords(line.then, here)
    ELSE Stores(here, <<>>)

NoOperands(op, here) == Stores(here, <<Code(op, 0, 0)>>)

(* EMT, TRAP, MARK: the operand is put into the word whatever its size.    *)
Unmarked(text) == IF Next1(text) = "#" THEN Tail(text) ELSE text
Mark(op, t, here) ==
    IF IsLit(t) THEN Stores(here, <<Code(op, 0, t.lit)>>)
    ELSE Result(here, <<Code(op, 0, 0)>>, TRUE, "well")

(* A JMP is reported for its register, R0, and not for its mode.           *)
OneGeneral(op, m, here) ==
    IF ~m.ok THEN Failed(here)
    ELSE Result(here, <<Code(op, 0, m.type)>> \o mode_extension(m, here + 2),
                op = "JMP" /\ m.type % 8 = 0, "well")

BothStored(op, l, r, lw, here) ==
    IF ~r.ok THEN Failed(here)
    ELSE Stores(here, <<Code(op, l.type, r.type)>> \o lw
                      \o mode_extension(r, here + 2 + 2 * Len(lw)))

TwoGeneral(op, l, here) ==
    IF ~l.ok \/ Next1(l.rest) # "," THEN Failed(here)
    ELSE BothStored(op, l, get_mode(Tail(l.rest), here), mode_extension(l, here + 2), here)

(* The distance to a target, if it is known in this section: forward, as   *)
(* branches count it, and back, as SOB does.                               *)
Distance(t, here) ==
    LET e == express_sym_offset(t)
    IN IF section = Abs THEN [ok |-> IsLit(t), near |-> IsLit(t),
                              far  |-> IF IsLit(t) THEN t.lit - here - 2 ELSE 0,
                              back |-> IF IsLit(t) THEN here + 2 - t.lit ELSE 0]
       ELSE [ok |-> e.ok, near |-> e.ok /\ e.sym.section = section,
             far  |-> e.offset + e.sym.value - here - 2,
             back |-> e.offset + here + 2 - e.sym.value]

(* Mutant of check_branch: one word too far.                               *)
check_branch_Wider(offset, low, high) ==
    LET w == offset % WordSize
        s == IF w >= WordSize \div 2 THEN w - WordSize ELSE w
    IN s \in low..(high + 2)

check_branch(offset, low, high) ==
    LET w == offset % WordSize
        s == IF w >= WordSize \div 2 THEN w - WordSize ELSE w
    IN s \in low..high

(* Mutant of BranchField: not reduced to its bits.                         *)
BranchField_Unreduced(far) == (far % WordSize) \div 2

(* The offset of a branch in words; what is out of range becomes 0.        *)
BranchField(far) == (far % 512) \div 2

Branch(op, d, here) ==
    LET in == d.near /\ check_branch(d.far, -256, 255)
    IN Result(here, <<Code(op, 0, IF in THEN BranchField(d.far) ELSE 0)>>, ~in, "well")

(* SOB counts back.  A target of another section is reported and its tree  *)
(* is freed twice.                                                         *)
CountedBack(op, reg, d, here) ==
    LET in == d.near /\ check_branch(d.back, 0, 126)
    IN IF section # Abs /\ ~d.ok THEN Failed(here)
       ELSE Result(here, <<Code(op, reg, IF in THEN (d.back % 128) \div 2 ELSE 0)>>, ~in,
                   IF section # Abs /\ ~d.near THEN "freed twice" ELSE "well")

Sob(op, p, here) ==
    IF get_register(p.tree) = NO_REG \/ Next1(p.rest) # "," THEN Failed(here)
    ELSE CountedBack(op, get_register(p.tree),
                     Distance(Expr(Tail(p.rest), here).tree, here), here)

(* An instruction with a register field; what is too large for it is       *)
(* reported and becomes 0.                                                 *)
OfRegister(line, m, reg, here, most) ==
    Result(here, <<Code(line.op, IF reg <= most THEN reg ELSE 0, m.type)>>
                 \o mode_extension(m, here + 2), reg > most, "well")

(* ASH and its kin: an operand, then a register; FIS a register up to 4.   *)
RegisterAfter(line, m, reg, here, most) ==
    IF reg = NO_REG /\ line.class = "ASH" THEN Failed(here)
    ELSE OfRegister(line, m, reg, here, most)

GeneralRegister(line, m, here, most) ==
    IF ~m.ok \/ Next1(m.rest) # "," THEN Failed(here)
    ELSE RegisterAfter(line, m, get_register(Expr(Tail(m.rest), here).tree), here, most)

(* JSR, XOR: a register, then an operand; FIS a register up to 4.          *)
OperandAfter(line, reg, m, here, most) ==
    IF ~m.ok THEN Failed(here) ELSE OfRegister(line, m, reg, here, most)

RegisterGeneral(line, p, here, most) ==
    LET reg == get_register(p.tree)
    IN IF Next1(p.rest) # "," \/ (reg = NO_REG /\ line.class = "JSR") THEN Failed(here)
       ELSE OperandAfter(line, reg, get_mode(Tail(p.rest), here), here, most)

(* RTS: a register; the tree of anything else is freed twice.              *)
OneRegister(op, reg, here) ==
    LET ok == reg # NO_REG
    IN Result(here, <<Code(op, 0, IF ok THEN reg ELSE 0)>>, ~ok,
              IF ok THEN "well" ELSE "freed twice")

-----------------------------------------------------------------------------
Size(store) == IF store.kind = "pad" THEN 1 ELSE 2

(* Every word of a result at its address.                                  *)
RECURSIVE Placed(_, _)
Placed(here, words) ==
    IF words = <<>> THEN <<>>
    ELSE <<[line |-> at, addr |-> here, store |-> Head(words)]>>
         \o Placed(here + Size(Head(words)), Tail(words))

RECURSIVE SizeOf(_)
SizeOf(words) == IF words = <<>> THEN 0 ELSE Size(Head(words)) + SizeOf(Tail(words))

Invalid(words) == \E k \in 1..Len(words) : words[k].kind = "invalid"

(* How a line may end: freeing a tree twice may be noticed or not.         *)
Endings(r) ==
    CASE r.ends = "well" -> {"assembling"}
      [] r.ends = "trap" -> {"crashed"}
      [] r.ends = "loop" -> {"looping"}
      [] r.ends = "freed twice" -> {"assembling", "crashed"}

(* The location counter passes what was stored, and an address skipped.    *)
Does(r) ==
    /\ dot' = r.here + SizeOf(r.words)
    /\ before' = IF pass = 1 THEN Append(before, dot') ELSE before
    /\ image' = IF pass = 2 THEN image \o Placed(r.here, r.words) ELSE image
    /\ reported' = IF pass = 2 /\ (r.error \/ Invalid(r.words)) THEN reported \cup {at}
                   ELSE reported
    /\ state' \in Endings(r)
    /\ at' = at + 1
    /\ UNCHANGED <<program, section, enabl_ama, pass>>

Reads(class) ==
    /\ state = "assembling"
    /\ at <= Len(program)
    /\ program[at].class = class

(* An instruction at an odd address is moved, and reported.                *)
Instruction(r) == Does([r EXCEPT !.error = @ \/ dot % 2 = 1])
Even == dot + (dot % 2)

Text   == program[at].text
Op     == program[at].op
Tree   == Expr(Text, Even).tree
Aimed == Distance(Tree, Even)

Word    == Reads("WORD") /\ Does(DataWords(program[at].text, dot))
Iif     == Reads("IIF")  /\ Does(ImmediateIf(program[at], dot))
None    == Reads("NONE") /\ Instruction(NoOperands(Op, Even))
Emt     == Reads("MARK") /\ Instruction(Mark(Op, Expr(Unmarked(Text), Even).tree, Even))
OneGen  == Reads("1GEN") /\ Instruction(OneGeneral(Op, get_mode(Text, Even), Even))
TwoGen  == Reads("2GEN") /\ Instruction(TwoGeneral(Op, get_mode(Text, Even), Even))
Br      == Reads("BR")   /\ Instruction(Branch(Op, Aimed, Even))
SobLine == Reads("SOB")  /\ Instruction(Sob(Op, Expr(Text, Even), Even))
Ash     == Reads("ASH")  /\ Instruction(GeneralRegister(program[at], get_mode(Text, Even), Even, 7))
Jsr     == Reads("JSR")  /\ Instruction(RegisterGeneral(program[at], Expr(Text, Even), Even, 7))
Rts     == Reads("1REG") /\ Instruction(OneRegister(Op, get_register(Tree), Even))
Fis1    == Reads("1FIS") /\ Instruction(GeneralRegister(program[at], get_mode(Text, Even), Even, 4))
Fis2    == Reads("2FIS") /\ Instruction(RegisterGeneral(program[at], Expr(Text, Even), Even, 4))

SecondPass ==
    /\ state = "assembling" /\ pass = 1 /\ at > Len(program)
    /\ pass' = 2
    /\ at' = 1
    /\ dot' = before[1]
    /\ UNCHANGED <<program, section, enabl_ama, before, image, reported, state>>

Finish ==
    /\ state = "assembling" /\ pass = 2 /\ at > Len(program)
    /\ state' = "done"
    /\ UNCHANGED <<program, section, enabl_ama, pass, at, dot, before, image, reported>>

Init ==
    /\ \E p \in Programs : program = p.lines /\ dot = p.start
    /\ section \in {Abs, Section}
    /\ enabl_ama \in BOOLEAN
    /\ pass = 1 /\ at = 1
    /\ before = <<dot>>
    /\ image = <<>>
    /\ reported = {}
    /\ state = "assembling"

Next ==
    \/ Word \/ Iif
    \/ None \/ Emt \/ OneGen \/ TwoGen \/ Br \/ SobLine
    \/ Ash \/ Jsr \/ Rts \/ Fis1 \/ Fis2
    \/ SecondPass \/ Finish

Spec == Init /\ [][Next]_vars
=============================================================================
