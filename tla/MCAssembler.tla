---------------------------- MODULE MCAssembler ----------------------------
(***************************************************************************)
(* Small source files for Assembler: every nesting of blocks to a depth of *)
(* two, every short sequence of block statements whether they match or not,*)
(* and short programs with labels, references, sections and macros.        *)
(***************************************************************************)
EXTENDS Assembler, TLC

MCGeneratedNames == [n \in 1..4 |-> ToString(32767 + n) \o "$"]

LineOf(op, name, sym, off, list) ==
    [op |-> op, name |-> name, val |-> [sym |-> sym, off |-> off], list |-> list, opt |-> {},
     rest |-> <<>>]

Bare(op)            == LineOf(op, "", "", 0, <<>>)
WordOf(sym, off)    == LineOf("word", "", sym, off, <<>>)
Lab(name)           == LineOf("label", name, "", 0, <<>>)
CallOf(name, list)  == LineOf("call", name, "", 0, list)
IfOf(how, sym, off) == LineOf("if", how, sym, off, <<>>)
ReptOf(n)           == LineOf("rept", "", "", n, <<>>)
MacroOf(name, args) == LineOf("macro", name, "", 0, args)
EndmOf(name)        == LineOf("endm", name, "", 0, <<>>)

-----------------------------------------------------------------------------
(* What nested blocks mean, without streams, stacks or counts: a block is a*)
(* record of its parts, and its meaning the words it assembles to, under   *)
(* an environment of arguments, and whether an .MEXIT ended it.            *)

RECURSIVE Means(_, _), MeansAll(_, _), Turns(_, _)

MeansAll(blocks, env) ==
    IF blocks = <<>> THEN [words |-> <<>>, exit |-> FALSE]
    ELSE LET first == Means(Head(blocks), env)
         IN IF first.exit THEN first
            ELSE LET rest == MeansAll(Tail(blocks), env)
                 IN [words |-> first.words \o rest.words, exit |-> rest.exit]

(* A body assembled once under each of the environments, up to an .MEXIT.  *)
Turns(body, envs) ==
    IF envs = <<>> THEN <<>>
    ELSE LET first == MeansAll(body, Head(envs))
         IN first.words \o (IF first.exit THEN <<>> ELSE Turns(body, Tail(envs)))

Means(b, env) ==
    LET Quiet(words) == [words |-> words, exit |-> FALSE]
        Bind(arg, item) == arg :> item @@ env
    IN CASE b.kind = "word"  -> Quiet(<<IF b.arg \in DOMAIN env THEN env[b.arg] ELSE b.arg>>)
         [] b.kind = "mexit" -> [words |-> <<>>, exit |-> TRUE]
         [] b.kind = "if"    -> MeansAll(IF b.holds THEN b.yes \o b.both ELSE b.no \o b.both, env)
         [] b.kind = "rept"  -> Quiet(Turns(b.body, [i \in 1..(IF b.times = 0 THEN 1 ELSE b.times)
                                                       |-> env]))
         [] b.kind = "irp"   -> Quiet(Turns(b.body, [i \in DOMAIN b.items
                                                       |-> Bind(b.arg, b.items[i])]))
         [] b.kind = "macro" -> Quiet(Turns(b.body, <<Bind(b.arg, b.item)>>))

(* The lines of a block.  A macro is defined and called.                   *)
RECURSIVE Lines(_)
AllLines(blocks) == FoldLeft(LAMBDA lines, b : lines \o Lines(b), <<>>, blocks)

Lines(b) ==
    CASE b.kind = "word"  -> <<WordOf(b.arg, 0)>>
      [] b.kind = "mexit" -> <<Bare("mexit")>>
      [] b.kind = "if"    -> <<IfOf(IF b.holds THEN "EQ" ELSE "NE", "", 0)>> \o AllLines(b.yes)
                             \o <<Bare("iff")>> \o AllLines(b.no) \o
                             (IF b.both = <<>> THEN <<>>
                              ELSE <<Bare("iftf")>> \o AllLines(b.both))
                             \o <<Bare("endc")>>
      [] b.kind = "rept"  -> <<ReptOf(b.times)>> \o AllLines(b.body) \o <<Bare("endr")>>
      [] b.kind = "irp"   -> <<LineOf("irp", b.arg, "", 0, b.items)>> \o AllLines(b.body)
                             \o <<Bare("endr")>>
      [] b.kind = "macro" -> <<MacroOf(b.name, <<b.arg>>)>> \o AllLines(b.body)
                             \o <<EndmOf(b.closer), CallOf(b.name, <<b.item>>)>>

W(arg) == [kind |-> "word", arg |-> arg]
Leaves == {W("P"), W("X"), [kind |-> "mexit"]}

(* The blocks around a body; the names differ from level to level.         *)
Around(body, level) ==
    LET name == IF level = 1 THEN "M" ELSE "N"
    IN [kind : {"if"}, holds : BOOLEAN, yes : {body}, no : {<<W("Q")>>}, both : {<<>>}]
       \cup [kind : {"if"}, holds : BOOLEAN, yes : {<<W("Q")>>}, no : {body},
             both : {<<W("X")>>}]
       \cup [kind : {"rept"}, times : {0, 2}, body : {body}]
       \cup [kind : {"irp"}, arg : {"X"}, items : {<<"A", "B">>}, body : {body}]
       \cup [kind : {"macro"}, name : {name}, closer : {"", name}, arg : {"X"}, item : {"A"},
             body : {body}]

Bodies1 == {<<a>> : a \in Leaves} \cup {<<a, b>> : a \in Leaves, b \in Leaves}
Blocks1 == UNION {Around(body, 1) : body \in Bodies1}
Bodies2 == {<<b>> : b \in Blocks1}
           \cup {<<W("P"), b, c>> : b \in Blocks1, c \in {W("X"), [kind |-> "mexit"]}}
Blocks2 == UNION {Around(body, 2) : body \in Bodies2}

Nested == {<<b, W("Q")>> : b \in Blocks2}

-----------------------------------------------------------------------------
(* Files whose blocks need not match: an opening, and any lines after it.  *)
BlockLines == {IfOf("EQ", "", 0), IfOf("NE", "", 0), Bare("iff"), Bare("ift"), Bare("endc"),
               Bare("mexit"), ReptOf(2), Bare("endr"), MacroOf("M", <<>>), Bare("endm"),
               CallOf("M", <<>>), WordOf("", 1)}
Unmatched == {<<a, b, c, d, WordOf("", 2)>> : a \in {MacroOf("M", <<>>), ReptOf(2), IfOf("EQ", "", 0)},
                                             b, c, d \in BlockLines}

(* Files about symbols and sections.                                       *)
SymbolLines == {Lab("A"), [Lab("A") EXCEPT !.opt = {"GLOBAL"}], Lab("1$"), WordOf("A", 0),
                WordOf("1$", 0), WordOf("X", 2), WordOf(".", 0), LineOf("assign", "X", "A", 0, <<>>),
                LineOf("assign", "X", "A", 2, <<>>),
                [LineOf("assign", "X", "", 1, <<>>) EXCEPT !.opt = {"PERMANENT"}],
                LineOf("globl", "A", "", 0, <<>>), LineOf("psect", "S", "", 0, <<>>),
                LineOf("psect", "abs", "", 0, <<>>), LineOf("org", "", ".", 2, <<>>),
                LineOf("org", "", "A", 0, <<>>), LineOf("blkb", "", "", 1, <<>>),
                LineOf("blkb", "", "X", 0, <<>>), Bare("even"), Bare("save"), Bare("restore"),
                IfOf("NDF", "A", 0), IfOf("NE", "X", 0), Bare("endc"), ReptOf(2), Bare("endr"),
                [LineOf("iif", "DF", "X", 0, <<>>) EXCEPT !.rest = <<WordOf("A", 2)>>],
                Bare("enabl"), Bare("dsabl")}
Symbolic == {<<a, b, WordOf("A", 0), c>> : a, b, c \in SymbolLines}
            \cup {<<a, b, c, WordOf("A", 0)>> : a, b \in SymbolLines,
                                               c \in {Lab("A"), Bare("endc"), Bare("endr")}}

(* Files about blocks of local symbols: a macro that makes one of its own, *)
(* one that refers to it ahead, one that starts a block and calls both.    *)
MacroWithLocals(name, body) ==
    <<[MacroOf(name, <<"L">>) EXCEPT !.opt = {"L"}]>> \o body \o <<EndmOf(name)>>
LocalMacros ==
    MacroWithLocals("M", <<Lab("L"), WordOf("L", 0)>>)
    \o MacroWithLocals("N", <<WordOf("L", 2), CallOf("M", <<>>), Lab("L")>>)
    \o MacroWithLocals("K", <<Lab("C"), CallOf("N", <<>>), WordOf("L", 0), Lab("L")>>)
LocalLines == {CallOf("M", <<>>), CallOf("N", <<>>), CallOf("K", <<>>), CallOf("M", <<"1$">>),
               Lab("A"), Lab("B"), Lab("1$"), WordOf("1$", 0), Bare("enabl"), Bare("dsabl"),
               ReptOf(2), Bare("endr")}
Local == {LocalMacros \o <<a, b, c, d>> :
              a, b, c \in LocalLines, d \in {CallOf("M", <<>>), WordOf("1$", 0), Lab("1$")}}

(* Files whose passes differ: lines behind a condition on a symbol that is *)
(* assigned at the end, or ahead of it.                                    *)
AssignOf(name, sym, off) == LineOf("assign", name, sym, off, <<>>)
IifOf(how, sym, stmt)    == [LineOf("iif", how, sym, 0, <<>>) EXCEPT !.rest = <<stmt>>]

AheadLines == {Lab("A"), AssignOf("A", "", 1), LineOf("globl", "A", "", 0, <<>>), WordOf("A", 0),
               Lab("1$"), Bare("enabl"), Bare("dsabl"), LineOf("org", "", ".", -2, <<>>)}
Ahead == {<<a, b, IfOf("DF", "B", 0), c, Bare("endc"), d, AssignOf("B", "", 1)>> :
              a, b, c, d \in AheadLines}

(* Files in which a macro leaves a condition, or is left, half way, and    *)
(* conditions that nest too deep.                                          *)
HalfWay == {<<MacroOf("M", <<>>), a, b, EndmOf("M"), CallOf("M", <<>>), c, d, WordOf("", 5),
              AssignOf("B", "", 1)>> :
                a \in {IfOf("NE", "", 0), IifOf("NDF", "B", Bare("mexit")), IfOf("EQ", "", 0)},
                b \in {WordOf("", 1), IfOf("EQ", "", 0)},
                c \in {Bare("iff"), Bare("ift"), Bare("iftf"), Bare("endc"),
                       IifOf("DF", "C", WordOf("", 7))},
                d \in {Bare("iff"), Bare("endc"), ReptOf(-1), CallOf("M", <<>>)}}
           \cup {[i \in 1..4 |-> IfOf(how, "", 0)] : how \in {"EQ", "NE"}}

Edge == Ahead \cup HalfWay

OtherPrograms == Unmatched \cup Symbolic \cup Local \cup Edge
MCPrograms == {AllLines(blocks) : blocks \in Nested} \cup OtherPrograms

-----------------------------------------------------------------------------
VARIABLE blocks      \* the blocks of which the file is made, if it is

MCInit ==
    /\ \/ blocks \in Nested /\ source = AllLines(blocks)
       \/ blocks = <<>> /\ source \in OtherPrograms
    /\ Start

MCNext == Next /\ UNCHANGED blocks

MCSpec == MCInit /\ [][MCNext]_<<vars, blocks>>

Words(p) == LET words == SelectSeq(traces[p], LAMBDA entry : entry[1] = "word")
            IN [i \in DOMAIN words |-> words[i][2].sym]

(* Blocks nest: whatever blocks are inside whatever blocks, a file of      *)
(* blocks that match assembles to the words that its blocks mean, one by   *)
(* one, and leaves no condition open.  An .MEXIT outside of all expansions *)
(* is an error and says nothing.                                           *)
ExpansionIsNested ==
    AtEnd /\ pass = 0 /\ blocks # <<>> =>
        LET m == MeansAll(blocks, <<>>)
        IN ~m.exit => /\ Words(0) = m.words
                      /\ stack_gets(Input).in.conds = <<>> /\ suppressed = 0
=============================================================================
