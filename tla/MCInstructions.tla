--------------------------- MODULE MCInstructions ---------------------------
(***************************************************************************)
(* Small programs for Instructions: every short expression over a symbol   *)
(* of each kind, every pair of operands, branches around the ends of their *)
(* range; and what these lines mean, read without the assembler's trees:   *)
(* expressions are calculated from left to right with every symbol at its  *)
(* address, and the stored words are decoded as the processor does.        *)
(***************************************************************************)
EXTENDS Instructions, SequencesExt

-----------------------------------------------------------------------------
(* Lines.                                                                  *)

Line(class, op, text, then, means) ==
    [class |-> class, op |-> op, text |-> text, then |-> then, means |-> means]

(* An operand: how it addresses, its expression and its register.          *)
Operand(how, expr, reg) == [how |-> how, expr |-> expr, reg |-> reg]

RegisterName == <<"R0", "R1", "R2", "R3", "R4", "R5">>
RegisterText(r) == <<RegisterName[r + 1]>>
Brackets(r) == <<"(">> \o RegisterText(r) \o <<")">>

OperandText(o) ==
    CASE o.how = "register"         -> RegisterText(o.reg)
      [] o.how = "deferred"         -> <<"@">> \o RegisterText(o.reg)
      [] o.how = "(register)"       -> Brackets(o.reg)
      [] o.how = "increment"        -> Append(Brackets(o.reg), "+")
      [] o.how = "@increment"       -> <<"@">> \o Append(Brackets(o.reg), "+")
      [] o.how = "decrement"        -> <<"-">> \o Brackets(o.reg)
      [] o.how = "@decrement"       -> <<"@", "-">> \o Brackets(o.reg)
      [] o.how = "@(register)"      -> <<"@">> \o Brackets(o.reg)
      [] o.how = "index"            -> o.expr \o Brackets(o.reg)
      [] o.how = "@index"           -> <<"@">> \o o.expr \o Brackets(o.reg)
      [] o.how = "immediate"        -> <<"#">> \o o.expr
      [] o.how = "absolute"         -> <<"@", "#">> \o o.expr
      [] o.how = "address"          -> o.expr
      [] o.how = "@address"         -> <<"@">> \o o.expr

ByRegister == {"register", "deferred", "(register)", "increment", "@increment",
               "decrement", "@decrement", "@(register)"}
Indexed    == {"index", "@index"}
ByAddress  == {"immediate", "absolute", "address", "@address"}

Operands(exprs, regs) ==
    {Operand(how, <<>>, r) : how \in ByRegister, r \in regs}
    \cup {Operand(how, e, r) : how \in Indexed, e \in exprs, r \in regs}
    \cup {Operand(how, e, 0) : how \in ByAddress, e \in exprs}

WordLine(texts) ==
    Line("WORD", ".WORD", FoldLeft(LAMBDA all, t : all \o <<",">> \o t, Head(texts), Tail(texts)),
         <<>>, texts)
IifLine(how, text) == Line("IIF", how, text, <<"1">>, <<>>)
OneLine(op, o)     == Line("1GEN", op, OperandText(o), <<>>, <<o>>)
TwoLine(op, o, p)  == Line("2GEN", op, OperandText(o) \o <<",">> \o OperandText(p), <<>>, <<o, p>>)
BrLine(text)       == Line("BR", "BR", text, <<>>, <<>>)
SobLineTo(r, text) == Line("SOB", "SOB", RegisterText(r) \o <<",">> \o text, <<>>, text)
AfterRegister(class, op, r, o) ==
    Line(class, op, RegisterText(r) \o <<",">> \o OperandText(o), <<>>, <<r, o>>)
BeforeRegister(class, op, o, r) ==
    Line(class, op, OperandText(o) \o <<",">> \o RegisterText(r), <<>>, <<r, o>>)
RtsLine(text)      == Line("1REG", "RTS", text, <<>>, <<>>)
MarkLine(text)     == Line("MARK", "EMT", text, <<>>, <<>>)
HaltLine           == Line("NONE", "HALT", <<>>, <<>>, <<>>)

-----------------------------------------------------------------------------
(* Symbols: A and B in the section of the code, C in another, K and Z      *)
(* absolute, G global, F defined after its use, U never.                   *)
MCAbs == ".ABS"
MCRegisters == "registers"
MCLiteral == ("0" :> 0) @@ ("1" :> 1) @@ ("2" :> 2) @@ ("5" :> 5)
             @@ ("7777" :> 4095) @@ ("150" :> 150)
MCSymbols == {"A", "B", "C", "K", "Z", "G", "F", "U"}
MCEarly ==
    ("A" :> Sym("A", "MAIN", 4, FALSE)) @@ ("B" :> Sym("B", "MAIN", 262, FALSE))
    @@ ("C" :> Sym("C", "DATA", 6, FALSE)) @@ ("K" :> Sym("K", MCAbs, 6, FALSE))
    @@ ("Z" :> Sym("Z", MCAbs, 0, FALSE)) @@ ("G" :> Sym("G", MCAbs, 0, TRUE))
    @@ [name \in {RegisterName[i] : i \in 1..6} |->
           Sym(name, MCRegisters, (CHOOSE i \in 1..6 : RegisterName[i] = name) - 1, FALSE)]
MCLate == ("F" :> Sym("F", "MAIN", 700, FALSE)) @@ MCEarly

(* Where the linker may put the sections, and what the global may be.      *)
Environments ==
    {(".ABS" :> 0) @@ ("MAIN" :> 0) @@ ("DATA" :> 512) @@ ("G" :> 3),
     (".ABS" :> 0) @@ ("MAIN" :> 1000) @@ ("DATA" :> 64) @@ ("G" :> 4094)}

Address1(label, here, env) ==
    IF label = "." THEN (env[section] + here) % WordSize
    ELSE IF MCLate[label].global THEN env[label]
    ELSE (env[MCLate[label].section] + MCLate[label].value) % WordSize

-----------------------------------------------------------------------------
(* What an expression means: the operators from left to right, on words,   *)
(* an operand being a token after its signs, or a bracket.                 *)
Frame(close) == [acc |-> 0, op |-> "", signs |-> <<>>, close |-> close, needs |-> TRUE]

Signed(v, signs) ==
    FoldRight(LAMBDA s, n : (IF s = "-" THEN -n ELSE WordSize - 1 - n) % WordSize, signs, v)

Combined(op, a, b) ==
    IF op = "" THEN b
    ELSE IF op = "/" /\ b = 0 THEN 0
    ELSE Calculate(op, a, b).lit % WordSize

Taken(f, v) ==
    [f EXCEPT !.acc = Combined(f.op, f.acc, Signed(v, f.signs)), !.signs = <<>>, !.needs = FALSE]

Calculated(text, here, env) ==
    LET Step(frames, t) ==
            LET f == Head(frames)
            IN IF f.needs THEN
                   (CASE t = "+" -> frames
                      [] t \in {"-", "^C"} ->
                            <<[f EXCEPT !.signs = Append(@, t)]>> \o Tail(frames)
                      [] t = "<"  -> <<Frame(">")>> \o frames
                      [] t = "^/" -> <<Frame("/")>> \o frames
                      [] OTHER    ->
                            <<Taken(f, IF t \in DOMAIN Literal THEN Literal[t]
                                       ELSE Address1(t, here, env))>> \o Tail(frames))
               ELSE IF t = f.close
                    THEN <<Taken(frames[2], f.acc)>> \o Tail(Tail(frames))
               ELSE <<[f EXCEPT !.op = t, !.needs = TRUE]>> \o Tail(frames)
    IN Head(FoldLeft(Step, <<Frame("")>>, text)).acc

(* The trees whose meaning the assembler does not keep: a complement that  *)
(* is not calculated at once, a negated symbol, <A-x>+y, and a quotient of *)
(* numbers that are not words.                                             *)
RECURSIVE Miscalculated(_)
Miscalculated(t) ==
    IF t.type \in {"COM", "NEG"} THEN
        LET e == evaluate(t.left, FALSE)
        IN \/ Miscalculated(t.left)
           \/ t.type = "COM" /\ ~IsLit(e)
           \/ t.type = "NEG" /\ IsSym(e)
    ELSE IF t.type \in Operators THEN
        LET l == evaluate(t.left, FALSE)
            r == evaluate(t.right, FALSE)
        IN \/ Miscalculated(t.left)
           \/ Miscalculated(t.right)
           \/ t.type = "+" /\ IsLitNode(l, {"-"}) /\ IsLit(r)
           \/ t.type = "+" /\ IsLitNode(r, {"-"}) /\ IsLit(l)
           \/ t.type = "/" /\ IsLit(l) /\ l.lit >= WordSize
           \/ t.type = "/" /\ IsLit(r) /\ r.lit >= WordSize
    ELSE FALSE

Kept(text, here) ==
    LET t == parse_binary(text, "", 0, ("." :> Sym(".", section, here, FALSE)) @@ MCLate).tree
    IN translates(t) /\ ~Miscalculated(t)

-----------------------------------------------------------------------------
(* What the processor finds: the operand of a mode, with the word after    *)
(* the instruction if it takes one, the PC being just after that word.     *)
HasWord(type) == type \div 8 \in {6, 7} \/ type \in {23, 31}

Found(type, w, pc) ==
    LET mode == type \div 8
        reg  == type % 8
    IN CASE mode = 0 -> <<"register", reg>>
         [] mode = 1 -> <<"at register", reg>>
         [] mode = 2 /\ reg # 7 -> <<"increment", reg>>
         [] mode = 2 /\ reg = 7 -> <<"value", w>>
         [] mode = 3 /\ reg # 7 -> <<"@increment", reg>>
         [] mode = 3 /\ reg = 7 -> <<"at", w>>
         [] mode = 4 -> <<"decrement", reg>>
         [] mode = 5 -> <<"@decrement", reg>>
         [] mode = 6 /\ reg # 7 -> <<"index", reg, w>>
         [] mode = 6 /\ reg = 7 -> <<"at", (w + pc) % WordSize>>
         [] mode = 7 /\ reg # 7 -> <<"@index", reg, w>>
         [] mode = 7 /\ reg = 7 -> <<"at what is at", (w + pc) % WordSize>>

(* What was written, the same operand by its own name.                     *)
Wanted(o, here, env) ==
    LET v == Calculated(o.expr, here, env)
    IN CASE o.how = "register" -> <<"register", o.reg>>
         [] o.how \in {"deferred", "(register)"} -> <<"at register", o.reg>>
         [] o.how \in {"increment", "@increment", "decrement", "@decrement"} -> <<o.how, o.reg>>
         [] o.how = "@(register)" -> <<"@index", o.reg, 0>>
         [] o.how \in Indexed -> <<o.how, o.reg, v>>
         [] o.how = "immediate" -> <<"value", v>>
         [] o.how \in {"absolute", "address"} -> <<"at", v>>
         [] o.how = "@address" -> <<"at what is at", v>>

Of(line) == SelectSeq(image, LAMBDA c : c.line = line)
Relocated(c, env) == (env[section] + c.addr) % WordSize
Content(c, env) == LinkedWord(c.store, Relocated(c, env), env)

(* The operands of the types, one after the other, in the words ws.        *)
RECURSIVE FoundAll(_, _, _)
FoundAll(types, ws, env) ==
    IF types = <<>> THEN <<>>
    ELSE IF HasWord(Head(types))
         THEN <<Found(Head(types), Content(Head(ws), env), Relocated(Head(ws), env) + 2)>>
              \o FoundAll(Tail(types), Tail(ws), env)
    ELSE <<Found(Head(types), 0, 0)>> \o FoundAll(Tail(types), ws, env)

Words(types) == Len(SelectSeq(types, HasWord))

-----------------------------------------------------------------------------
(* The properties are about a program as the second pass leaves it.        *)
Assembled(classes) ==
    {i \in 1..Len(program) :
        state = "done" /\ program[i].class \in classes /\ Of(i) # <<>>}

TypeOK ==
    /\ section \in {Abs, Section} /\ enabl_ama \in BOOLEAN
    /\ pass \in {1, 2} /\ at \in 1..(Len(program) + 1)
    /\ dot \in Nat
    /\ before \in Seq(Nat)
    /\ \A i \in 1..Len(image) :
          /\ image[i].line \in 1..Len(program)
          /\ image[i].addr \in Nat
          /\ image[i].store.word \in 0..255 \/ image[i].store.kind # "op"
          /\ image[i].store.word \in 0..(WordSize - 1)
    /\ reported \subseteq 1..Len(program)
    /\ state \in {"assembling", "done", "crashed", "looping"}

(* Whatever is calculated now and whatever is left to the linker, every    *)
(* word of .WORD becomes what its expression means where the sections and  *)
(* globals end up, but for the trees that are known to be miscalculated    *)
(* (evaluate, store_value, complex_tree).                                  *)
WordsAsWritten ==
    \A i \in Assembled({"WORD"}) : \A k \in 1..Len(program[i].means) :
        LET cells == SelectSeq(Of(i), LAMBDA c : c.store.kind # "pad")
            text  == program[i].means[k]
        IN Kept(text, cells[k].addr) =>
              \A env \in Environments :
                  Content(cells[k], env) = Calculated(text, cells[k].addr, env)

(* The processor, taking the words of an instruction one by one, finds the *)
(* operands that were written, wherever the sections are (get_mode and     *)
(* mode_extension, every class with an operand), and takes all of them.    *)
OperandsAsWritten ==
    \A i \in Assembled({"1GEN", "2GEN", "ASH", "JSR", "1FIS", "2FIS"}) :
        LET cells == Of(i)
            code  == cells[1].store
            two   == program[i].class = "2GEN"
            types == IF two THEN <<code.high, code.word>> ELSE <<code.word>>
            means == program[i].means
            ops   == IF two \/ program[i].class = "1GEN" THEN means ELSE Tail(means)
        IN means # <<>> =>
           /\ Len(cells) = 1 + Words(types)
           /\ ~two /\ program[i].class # "1GEN" /\ i \notin reported => code.high = means[1]
           /\ (\A k \in 1..Len(ops) : ops[k].expr # <<>> => Kept(ops[k].expr, cells[1].addr)) =>
                 \A env \in Environments :
                     FoundAll(types, Tail(cells), env)
                        = [k \in 1..Len(ops) |-> Wanted(ops[k], cells[1].addr, env)]

(* A branch that is not reported reaches the target that was written, if   *)
(* it is an even address, and one is reported only if no offset of its     *)
(* field reaches the target in this section (check_branch).                *)
BranchesReach ==
    \A i \in Assembled({"BR", "SOB"}) :
        LET cell == Of(i)[1]
            text == IF program[i].class = "BR" THEN program[i].text ELSE program[i].means
            Target(env) == Calculated(text, cell.addr, env)
            Reached(n, env) ==
                (Relocated(cell, env) + 2
                    + (IF program[i].class = "SOB" THEN -2 * n
                       ELSE IF n > 127 THEN 2 * (n - 256) ELSE 2 * n)) % WordSize
            fields == IF program[i].class = "SOB" THEN 0..63 ELSE 0..255
        IN IF i \notin reported
           THEN \A env \in Environments :
                    Target(env) % 2 = 0 => Reached(cell.store.word, env) = Target(env)
           ELSE cell.addr = before[i] =>
                ~\E n \in fields : \A env \in Environments : Reached(n, env) = Target(env)

(* Until the second pass reports something, every line is where it was in  *)
(* the first pass, although that did not know the symbols defined later:   *)
(* or the labels would be wrong.                                           *)
LocationsAgree == pass = 2 /\ reported = {} /\ state # "crashed" => dot = before[at]

(* What .IIF DF and NDF answer for symbols joined with & and !: whether    *)
(* they are defined, with a global that is only referenced counting as not *)
(* (eval_defined, eval_undefined).  An absolute symbol of value 0 or       *)
(* 177777 disappears from the expression and is left out here.             *)
IsDefined(name) == name \in DOMAIN MCLate /\ ~MCLate[name].global

Answer(text, how) ==
    LET Holds(name) == IF how = "DF" THEN IsDefined(name) ELSE ~IsDefined(name)
        Rest(k) == SubSeq(text, k, Len(text))
    IN CASE Len(text) = 1 -> Holds(text[1])
         [] Len(text) = 3 /\ text[2] = "&" -> Holds(text[1]) /\ Holds(text[3])
         [] Len(text) = 3 /\ text[2] = "!" -> Holds(text[1]) \/ Holds(text[3])

ConditionsAsWritten ==
    \A i \in 1..Len(program) :
        state = "done" /\ program[i].class = "IIF" =>
            ((Of(i) # <<>>) <=> Answer(program[i].text, program[i].op))

-----------------------------------------------------------------------------
(* The programs.                                                           *)

Ops == {"+", "-", "*", "/", "&", "!"}
Leaves == {"2", "5", "A", "B", "C", "K", "G"}

Simple   == {<<a>> : a \in Leaves \cup {"0", "7777", ".", "F"}}
Joined   == {<<a, op, b>> : a \in Leaves, op \in Ops, b \in Leaves}
Longer   == {<<a, op, b, o, c>> : a \in {"5", "A", "C", "G"}, op \in Ops, b \in {"2", "A", "B", "G"},
                                  o \in Ops, c \in {"1", "5", "A", "G"}}
Nested   == {<<a, op, "<", b, o, c, ">">> : a \in {"5", "A", "G"}, op \in Ops, b \in {"2", "A", "G"},
                                            o \in Ops, c \in {"5", "A", "G"}}
Prefixed == {<<s>> \o t : s \in {"-", "+", "^C"}, t \in {<<a, op, "2">> : a \in Leaves, op \in Ops}}
Odd      == {<<"^/", "A", "+", "2", "/", "-", "1">>, <<"7777", "/", "2">>, <<"-", "1", "/", "2">>,
             <<"5", "/", "0">>, <<"5", ">">>, <<"<", "5">>, <<"1", "+">>, <<"U", "+", "2">>,
             <<"G", "-", "2", "+", "5">>, <<"G", "*", "2", "*", "5">>}

DataPrograms ==
    {<<WordLine(<<t>>)>> : t \in Simple \cup Joined \cup Longer \cup Nested \cup Prefixed \cup Odd}
    \cup {<<WordLine(<<t, <<".">>, <<"A">>>>)>> : t \in Simple}

ConditionPrograms ==
    {<<IifLine(how, t)>> : how \in {"DF", "NDF"},
        t \in {<<a>> : a \in {"A", "K", "U", "G", "C"}}
              \cup {<<a, op, b>> : a \in {"A", "K", "U", "G", "C"}, op \in {"&", "!"},
                                   b \in {"A", "K", "U", "G", "C"}}}

Exprs == {<<"5">>, <<"A">>, <<"A", "+", "2">>, <<"C">>, <<"C", "+", "2">>, <<"G">>, <<"G", "+", "2">>,
          <<"G", "-", "2">>, <<"K">>, <<"F">>, <<".">>, <<".", "+", "5">>, <<"C", "-", "A">>, <<"F", "+", "2">>,
          <<"G", "+", "A">>}
FewExprs == {<<"5">>, <<"A">>, <<"C">>, <<"G", "+", "2">>, <<"F">>, <<".">>}

Fis == {Operand("register", <<>>, 1), Operand("address", <<"A">>, 0), Operand("index", <<"G">>, 2)}

InstructionPrograms ==
    {<<OneLine(op, o)>> : op \in {"CLR", "JMP"}, o \in Operands(Exprs, {0, 5})}
    \cup {<<TwoLine("MOV", o, p)>> : o, p \in Operands(FewExprs, {3})}
    \cup {<<AfterRegister("JSR", "JSR", r, o)>> : r \in {0, 5}, o \in Operands(FewExprs, {1})}
    \cup {<<BeforeRegister("ASH", "ASH", o, r)>> : r \in {0, 5}, o \in Operands(FewExprs, {1})}
    \cup {<<BeforeRegister("1FIS", "LDF", o, r)>> : r \in {0, 3, 4, 5}, o \in Fis}
    \cup {<<AfterRegister("2FIS", "STF", r, o)>> : r \in {0, 3, 4, 5}, o \in Fis}
    \cup {<<RtsLine(t)>> : t \in {<<"R5">>, <<"5">>, <<"A">>}}
    \cup {<<MarkLine(t)>> : t \in {<<"5">>, <<"#", "5">>, <<"K">>, <<"A">>}}

Wrong == {Line("1GEN", "CLR", t, <<>>, <<>>) :
             t \in {<<"(", "A", ")">>, <<"5", "(", "A", ")">>, <<"-", "(", "R1">>, <<>>}}
         \cup {Line("2GEN", "MOV", t, <<>>, <<>>) :
             t \in {<<"R1">>, <<"R1", ",", "(", "C", ")">>, <<"(", "A", ")", ",", "R1">>}}
         \cup {Line("ASH", "ASH", t, <<>>, <<>>) : t \in {<<"R1">>, <<"R1", ",", "A">>}}
         \cup {Line("JSR", "JSR", t, <<>>, <<>>) : t \in {<<"A", ",", "R1">>, <<"R1">>}}
         \cup {Line("2FIS", "STF", t, <<>>, <<>>) : t \in {<<"A", ",", "R1">>, <<"R1">>}}
         \cup {Line("SOB", "SOB", t, <<>>, <<>>) : t \in {<<"R1">>, <<"A", ",", "A">>}}

Targets == {<<"A">>, <<"B">>, <<"C">>, <<"F">>, <<"G">>, <<"K">>, <<"150">>, <<"A", "+", "2">>,
            <<"K", "-", "2">>, <<".">>, <<".", "-", "5">>, <<".", "+", "2">>, <<"A", "-", "K">>}

BranchPrograms ==
    {<<BrLine(t)>> : t \in Targets} \cup {<<SobLineTo(1, t)>> : t \in Targets}

(* Two lines: what the first one takes decides where the second one is.    *)
Pairs == {<<l, m>> : l \in {OneLine("CLR", Operand("address", e, 0)) : e \in {<<"F">>, <<"C">>, <<"U">>}}
                           \cup Wrong \cup {HaltLine, SobLineTo(2, <<"F">>), BrLine(<<"F">>)},
                     m \in {WordLine(<<<<".">>, <<"A">>>>), BrLine(<<"A">>), HaltLine}}

At(starts, programs) == {[start |-> a, lines |-> p] : a \in starts, p \in programs}

MCPrograms ==
    At({0}, DataPrograms \cup ConditionPrograms \cup InstructionPrograms \cup Pairs)
    \cup At({1}, Pairs)
    \cup At({0, 1, 130, 132, 256, 262, 518, 520}, BranchPrograms)
=============================================================================
