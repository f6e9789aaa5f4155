----------------------------- MODULE Assembler -----------------------------
(***************************************************************************)
(* The two passes of the assembler tools/macro11.c over a source file: the *)
(* stack of input streams (the file, macro expansions, repeat blocks), the *)
(* stack of conditional blocks, the symbol table, the local symbol blocks  *)
(* and the program sections.  One step is one statement, assemble().       *)
(*                                                                         *)
(* A source line is a record; text, operands and instructions are reduced  *)
(* to .WORD, and an expression to a symbol and an offset.                  *)
(***************************************************************************)
EXTENDS Integers, Sequences, FiniteSets, SequencesExt

CONSTANTS
    Programs,        \* the source files, sequences of lines
    SectionNames,    \* the sections they use, "" the blank one and "abs"
    UserLocals,      \* the local symbols written in them, as "1$"
    GeneratedNames,  \* the names of those that macros get, "32768$" the first
    HostSize,        \* the values of an unsigned of the host, 2^32
    MaxSaved,        \* the entries of sect_stack, 32
    MaxConds,        \* MAX_CONDS, 256
    MaxStatements,   \* the bound on the statements of a pass (a macro may recurse)
    MaxLines         \* the bound on the lines of a body

Abs == "abs"              \* absolute_section: its symbols are literals
NoSection == "none"
MaxGenerated == Len(GeneratedNames)

(* A line: its operation, its label or name, its expression, its arguments *)
(* (formal or actual), its options (of a macro, the arguments written with *)
(* a "?"), and the statement an .IIF guards.                               *)
Value == [sym : STRING, off : Int]
Statement == [op : STRING, name : STRING, val : Value, list : Seq(STRING), opt : SUBSET STRING,
              rest : {<<>>}]
AnyLine == [op : STRING, name : STRING, val : Value, list : Seq(STRING), opt : SUBSET STRING,
            rest : Seq(Statement)]
Line == {l \in AnyLine : l.op = "iif" => l.rest # <<>>}

ASSUME ProgramsAssumption == \A p \in Programs : p \in Seq(Line)

ASSUME NamesAssumption ==
    /\ SectionNames \subseteq STRING /\ {"", Abs} \subseteq SectionNames
    /\ NoSection \notin SectionNames
    /\ UserLocals \subseteq STRING
    /\ GeneratedNames \in Seq(STRING)
    /\ \A i, j \in DOMAIN GeneratedNames : i # j => GeneratedNames[i] # GeneratedNames[j]

ASSUME BoundsAssumption ==
    /\ HostSize \in Nat /\ HostSize > 2 /\ HostSize % 2 = 0
    /\ MaxSaved \in Nat /\ MaxConds \in Nat
    /\ MaxStatements \in Nat /\ MaxLines \in Nat

VARIABLES
    source,        \* the file
    pass,          \* 0 and 1, as in the code
    phase,         \* "reading", "done", "crashed" on a null pointer, or "undefined"
    stack,         \* the input streams, the top first
    conds,         \* the open conditional blocks, the outermost first: is it satisfied
    suppressed,    \* how many blocks of a false condition are open
    stmtno,        \* the number of the statement
    symbols,       \* the symbol table
    implicit,      \* the undefined symbols that will become global
    macros,        \* the macro table
    lsb,           \* the local symbol block
    last_lsb,      \* the one in which last_locsym was generated
    last_locsym,   \* the number of the next local symbol of a macro
    enabl_lsb,     \* .ENABL LSB: labels start no new block
    current,       \* current_pc->section
    pc,            \* DOT, and the pc of the other sections
    size,          \* the sizes of the sections
    sect_stack,    \* the sections saved
    sect_sp,
    traces,        \* history: what each pass did, statement by statement
    stored,        \* history: the words of the second pass
    directory,     \* what write_globals has written: section sizes, global symbols
    reported,      \* an error was printed (only the second pass prints)
    count          \* the statements in error, for the exit status

inputVars   == <<stack, conds, suppressed>>
symbolVars  == <<symbols, implicit>>
blockVars   == <<lsb, last_lsb, last_locsym, enabl_lsb>>
sectionVars == <<current, pc, size, sect_stack, sect_sp>>
resultVars  == <<stored, reported, count>>
passVars    == <<source, pass, phase, directory>>
vars == <<passVars, inputVars, stmtno, symbolVars, macros, blockVars, sectionVars, traces,
          resultVars>>

DOT == pc[current]

(* Arithmetic on an unsigned of the host; a positive one of an int.        *)
Host(n) == n % HostSize
Positive(n) == n \in 1..(HostSize \div 2 - 1)

(* A table with an entry, added or replaced.                               *)
With(table, key, entry) ==
    [k \in DOMAIN table \cup {key} |-> IF k = key THEN entry ELSE table[k]]

-----------------------------------------------------------------------------
(* Streams: the lines of the present turn, the next one, the turns left (of*)
(* a .REPT) or the items left (of an .IRP), and the depth of conditionals  *)
(* to return to at the end.                                                *)

FileStream(lines) == [kind |-> "file", lines |-> lines, at |-> 1, cond |-> 0]

(* subst_args: the formal arguments of a body replaced by actual ones, in  *)
(* all of a line.                                                          *)
Substituted(l, actual) ==
    LET Actual(n) == IF n \in DOMAIN actual THEN actual[n] ELSE n
    IN [op |-> l.op, name |-> Actual(l.name), val |-> [l.val EXCEPT !.sym = Actual(@)],
        list |-> [i \in DOMAIN l.list |-> Actual(l.list[i])],
        opt |-> {Actual(n) : n \in l.opt}, rest |-> l.rest]

subst_args(lines, actual) ==
    [i \in DOMAIN lines |->
        [Substituted(lines[i], actual) EXCEPT
            !.rest = [j \in DOMAIN @ |-> Substituted(@[j], actual)]]]

(* The gets of a stream at the end of its lines: its next turn, if any.    *)
MoreTurns(s) ==
    \/ (s.kind = "rept" /\ Positive(Host(s.count - 1)))
    \/ (s.kind = "irp" /\ s.items # <<>>)

NextTurn(s) ==
    IF s.kind = "rept" THEN [s EXCEPT !.count = Host(@ - 1), !.at = 1]
    ELSE [s EXCEPT !.lines = subst_args(s.body, [n \in {s.arg} |-> Head(s.items)]), !.at = 1,
                   !.items = Tail(@)]

(* All turns have as many lines: a stream has a line left now, in its next *)
(* turn, or not at all.                                                    *)
HasLine(s) == s.at <= Len(s.lines)
Left(s) == HasLine(s) \/ (MoreTurns(s) /\ HasLine(NextTurn(s)))

(* pop_cond: conditionals deeper than depth are forgotten.                 *)
pop_cond(open, depth) == SubSeq(open, 1, Min({depth, Len(open)}))

(* Mutant of stack_pop: the conditionals a stream opened stay open.        *)
stack_pop_KeepsConds(in, n) == [in EXCEPT !.stack = SubSeq(@, n + 1, Len(@))]

(* stack_pop, and the delete of the stream, for the first n streams: a file*)
(* leaves the conditionals as they are, an expansion unwinds its own.      *)
stack_pop(in, n) ==
    LET depths == {in.stack[i].cond : i \in {j \in 1..n : in.stack[j].kind # "file"}}
    IN [stack |-> SubSeq(in.stack, n + 1, Len(in.stack)),
        conds |-> pop_cond(in.conds, Min(depths \cup {Len(in.conds)}))]

EOF == [op |-> "eof"]

(* stack_gets: the next line, exhausted streams popped on the way.         *)
stack_gets(in) ==
    LET ready == {i \in DOMAIN in.stack : Left(in.stack[i])}
    IN IF ready = {} THEN [line |-> EOF, in |-> stack_pop(in, Len(in.stack))]
       ELSE LET popped == stack_pop(in, Min(ready) - 1)
                top == Head(popped.stack)
                turn == IF HasLine(top) THEN top ELSE NextTurn(top)
            IN [line |-> turn.lines[turn.at],
                in |-> [stack |-> <<[turn EXCEPT !.at = @ + 1]>> \o Tail(popped.stack),
                        conds |-> popped.conds]]

(* read_body: the lines up to the .ENDM or .ENDR that closes the body, from*)
(* whatever streams they come; an .ENDM with the macro's name closes it    *)
(* whatever is open in it.  A body b with what stack_gets has got for it:  *)
Opens == {"macro", "rept", "irp"}
Closes == {"endm", "endr"}

WithLine(b, name, g) ==
    LET named == g.line.op = "endm" /\ name # "" /\ g.line.name = name
        deeper == IF g.line.op \in Opens THEN b.nest + 1
                  ELSE IF g.line.op \in Closes THEN b.nest - 1 ELSE b.nest
    IN IF g.line = EOF THEN [b EXCEPT !.in = g.in, !.ended = TRUE]
       ELSE IF named \/ deeper = 0 THEN [b EXCEPT !.in = g.in, !.ended = TRUE, !.closed = TRUE]
       ELSE [b EXCEPT !.in = g.in, !.nest = deeper, !.body = Append(@, g.line)]

AnotherLine(b, name) == IF b.ended THEN b ELSE WithLine(b, name, stack_gets(b.in))

read_body(in, name) ==
    LET after[n \in 0..MaxLines] ==
            IF n = 0 THEN [in |-> in, nest |-> 1, body |-> <<>>, ended |-> FALSE, closed |-> FALSE]
            ELSE AnotherLine(after[n - 1], name)
    IN after[MaxLines]

-----------------------------------------------------------------------------
(* Symbols.  get_symbol makes a local symbol a name of its block.          *)

IsLocal(name) == name \in UserLocals \cup Range(GeneratedNames)

(* The numbers of the local symbols of macros, and their names.            *)
FirstNumber == 32768
EndNumber == FirstNumber + MaxGenerated
GeneratedName(n) == IF n < EndNumber THEN GeneratedNames[n - FirstNumber + 1] ELSE ""

(* A name that a symbol may have: "." is DOT, and "" a missing argument.   *)
IsName(name) == name \notin {"", "."}

Key(name) == IF IsLocal(name) THEN <<name, lsb>> ELSE <<name>>

(* Mutant of add_sym: a permanent symbol may be given another value.       *)
add_sym_Lenient(key, value, flags, section) ==
    LET had == IF key \in DOMAIN symbols THEN symbols[key].flags ELSE {}
    IN [ok |-> TRUE,
        symbols |-> With(symbols, key, [value |-> value, section |-> section,
                                        flags |-> had \cup flags])]

(* add_sym: an undefined symbol is defined, the same value again is no     *)
(* news, a symbol that is not permanent changes; anything else is refused. *)
add_sym(key, value, flags, section) ==
    LET new == key \notin DOMAIN symbols
        old == symbols[key]
        define == "UNDEFINED" \in old.flags /\ "UNDEFINED" \notin flags
        had == IF define THEN old.flags \ {"PERMANENT", "UNDEFINED"} ELSE old.flags
        same == ~define /\ old.section = section /\ old.value = value
        ok == new \/ same \/ "PERMANENT" \notin had
        entry == [value |-> value, section |-> section,
                  flags |-> IF new THEN flags ELSE had \cup flags]
    IN [ok |-> ok, symbols |-> IF ok THEN With(symbols, key, entry) ELSE symbols]

IsGlobalRef(sym) == "GLOBAL" \in sym.flags /\ "DEFINITION" \notin sym.flags

(* parse_expr and evaluate, for a symbol and an offset: a literal, a place *)
(* in a section, a global of another module, or an undefined symbol.       *)
Evaluate(val) ==
    LET key == Key(val.sym)
        At(section, value) ==
            [type |-> IF section = Abs THEN "lit" ELSE "sym", section |-> section,
             value |-> Host(value)]
    IN IF val.sym = "" THEN At(Abs, val.off)
       ELSE IF val.sym = "." THEN At(current, DOT + val.off)
       ELSE IF key \notin DOMAIN symbols
       THEN [type |-> "undefined", section |-> Abs, value |-> Host(val.off)]
       ELSE IF IsGlobalRef(symbols[key])
       THEN [type |-> "global", section |-> Abs, value |-> Host(symbols[key].value + val.off)]
       ELSE At(symbols[key].section, symbols[key].value + val.off)

(* eval_defined: a global without a definition counts as undefined.        *)
eval_defined(val) ==
    Key(val.sym) \in DOMAIN symbols /\ ~IsGlobalRef(symbols[Key(val.sym)])

(* implicit_gbl: an undefined symbol of the first pass will be a global    *)
(* one; a local one too, as evaluate() has dropped the flag that says so.  *)
implicit_gbl(val) ==
    IF pass = 0 /\ Evaluate(val).type = "undefined"
    THEN implicit \cup {Key(val.sym)} ELSE implicit

-----------------------------------------------------------------------------
(* Statements.  in is the input after the statement's line was taken; the  *)
(* number of the statement is already stmtno'.  Each notes what it did.    *)

Note(entry) == traces' = [traces EXCEPT ![pass] = Append(@, entry)]

(* report prints in the second pass only.                                  *)
Report(wrong) == reported' = (reported \/ (wrong /\ pass = 1))

Fails(wrong) == count' = IF wrong THEN count + 1 ELSE count

Into(in) == stack' = in.stack /\ conds' = in.conds

(* Mutant of change_dot: the size follows "." back.                        *)
change_dot_Last(dot) == size' = [size EXCEPT ![current] = dot]

(* change_dot: a section is as large as its highest location counter.      *)
change_dot(dot) == size' = [size EXCEPT ![current] = IF dot > @ THEN dot ELSE @]

(* A label is a permanent symbol of "." in its section, and starts a block *)
(* of local symbols unless it is a local symbol itself.                    *)
Label(l, in) ==
    LET key == Key(l.name)
        global == l.opt \cap {"GLOBAL"}
        added == add_sym(key, DOT, {"PERMANENT", "DEFINITION"} \cup global, current)
    IN /\ l.op = "label" /\ IsName(l.name)
       /\ symbols' = added.symbols
       /\ lsb' = IF enabl_lsb \/ IsLocal(l.name) THEN lsb ELSE lsb + 1
       /\ Note(<<"label", key, current, DOT>>)
       /\ Report(~added.ok)
       /\ Into(in)
       /\ UNCHANGED <<suppressed, implicit, macros, last_lsb, last_locsym, enabl_lsb,
                      sectionVars, stored, count>>

(* name=val, or name=:val; an expression that is no symbol makes an        *)
(* undefined one, in the first pass.                                       *)
Assign(l, in) ==
    LET v == Evaluate(l.val)
        simple == v.type \in {"lit", "sym"} \/ (v.type = "global" /\ l.val.off = 0)
        added == IF simple
                 THEN add_sym(Key(l.name), v.value,
                              {"DEFINITION"} \cup (l.opt \cap {"PERMANENT"}), v.section)
                 ELSE IF pass = 0 THEN add_sym(Key(l.name), 0, {"UNDEFINED"}, Abs)
                 ELSE [ok |-> FALSE, symbols |-> symbols]
    IN /\ l.op = "assign" /\ IsName(l.name)
       /\ symbols' = added.symbols
       /\ Note(<<"assign", Key(l.name), simple, v.section, v.value>>)
       /\ Report(~simple)
       /\ Fails(~added.ok)
       /\ Into(in)
       /\ UNCHANGED <<suppressed, implicit, macros, blockVars, sectionVars, stored>>

(* .=val: a place in the current section, or a literal in an absolute one. *)
Org(l, in) ==
    LET v == Evaluate(l.val)
        ok == v.type \in {"lit", "sym"} /\ v.section = current
    IN /\ l.op = "org"
       /\ pc' = IF ok THEN [pc EXCEPT ![current] = v.value] ELSE pc
       /\ IF ok THEN change_dot(v.value) ELSE size' = size
       /\ implicit' = IF current = Abs THEN implicit ELSE implicit_gbl(l.val)
       /\ Note(<<"org", ok, v.value>>)
       /\ Report(~ok)
       /\ Fails(~ok /\ current = Abs)
       /\ Into(in)
       /\ UNCHANGED <<suppressed, symbols, macros, blockVars, current, sect_stack, sect_sp,
                      stored>>

(* .BLKB with a literal.                                                   *)
Blkb(l, in) ==
    LET v == Evaluate(l.val)
        ok == v.type = "lit"
        dot == Host(DOT + v.value)
    IN /\ l.op = "blkb"
       /\ pc' = IF ok THEN [pc EXCEPT ![current] = dot] ELSE pc
       /\ IF ok THEN change_dot(dot) ELSE size' = size
       /\ Note(<<"blkb", ok, v.value>>)
       /\ Report(~ok)
       /\ Fails(~ok)
       /\ Into(in)
       /\ UNCHANGED <<suppressed, symbolVars, macros, blockVars, current, sect_stack, sect_sp,
                      stored>>

(* .EVEN moves "." without change_dot: the section does not grow.          *)
Even(l, in) ==
    /\ l.op = "even"
    /\ pc' = [pc EXCEPT ![current] = Host(DOT + (DOT % 2))]
    /\ Note(<<"even">>)
    /\ Into(in)
    /\ UNCHANGED <<suppressed, symbolVars, macros, blockVars, current, size, sect_stack,
                   sect_sp, resultVars>>

(* go_section: the old section keeps its "." for the next time.            *)
Section(l, in) ==
    /\ l.op = "psect" /\ l.name \in SectionNames
    /\ current' = l.name
    /\ Note(<<"psect", l.name>>)
    /\ Into(in)
    /\ UNCHANGED <<suppressed, symbolVars, macros, blockVars, pc, size, sect_stack, sect_sp,
                   resultVars>>

(* Nothing keeps .SAVE from going past the end of sect_stack.              *)
Save(l, in) ==
    /\ l.op = "save"
    /\ IF sect_sp + 1 < MaxSaved
       THEN /\ sect_sp' = sect_sp + 1
            /\ sect_stack' = With(sect_stack, sect_sp', current)
            /\ UNCHANGED phase
       ELSE phase' = "undefined" /\ UNCHANGED <<sect_sp, sect_stack>>
    /\ Note(<<"save">>)
    /\ Into(in)
    /\ UNCHANGED <<suppressed, symbolVars, macros, blockVars, current, pc, size, resultVars>>

(* .RESTORE counts sect_sp up, as .SAVE does: the next one finds what is   *)
(* above, which may be no section at all, or not of sect_stack.            *)
Restore(l, in) ==
    LET saved == IF sect_sp \in DOMAIN sect_stack THEN sect_stack[sect_sp] ELSE NoSection
        found == saved # NoSection
    IN /\ l.op = "restore"
       /\ current' = IF found THEN saved ELSE current
       /\ sect_sp' = IF found THEN sect_sp + 1 ELSE sect_sp
       /\ phase' = IF found \/ sect_sp < 0 THEN phase
                   ELSE IF sect_sp < MaxSaved THEN "crashed" ELSE "undefined"
       /\ Note(<<"restore">>)
       /\ Report(sect_sp < 0)
       /\ Fails(sect_sp < 0)
       /\ Into(in)
       /\ UNCHANGED <<suppressed, symbolVars, macros, blockVars, pc, size, sect_stack, stored>>

(* do_word: a byte of zero if "." is odd, and a word of the value.         *)
Word(val, in) ==
    LET pad == DOT % 2
        at == Host(DOT + pad)
        next == Host(at + 2)
        v == Evaluate([val EXCEPT !.off = IF val.sym = "." THEN @ + pad ELSE @])
        bad == v.type = "undefined" /\ val.off = 0
    IN /\ pc' = [pc EXCEPT ![current] = next]
       /\ change_dot(next)
       /\ implicit' = implicit_gbl(val)
       /\ stored' = IF pass = 0 THEN stored
                    ELSE stored \cup {[key |-> Key(val.sym), off |-> val.off, type |-> v.type,
                                       section |-> v.section, value |-> v.value,
                                       at |-> <<current, at>>]}
       /\ Note(<<"word", val, current, at>>)
       /\ Report(pad = 1 \/ bad)
       /\ Into(in)
       /\ UNCHANGED <<suppressed, symbols, macros, blockVars, current, sect_stack, sect_sp,
                      count>>

(* expandmacro: positional arguments, and for a missing one with a "?" a   *)
(* local symbol of its own, the first with a given number.                 *)
Expansion(mac, actuals, first) ==
    LET Positional(i) == i <= Len(actuals)
        missing == {i \in DOMAIN mac.args : ~Positional(i) /\ mac.args[i] \in mac.local}
        Number(i) == first + Cardinality({j \in missing : j < i})
        Given(i) == IF Positional(i) THEN actuals[i]
                    ELSE IF i \in missing THEN GeneratedName(Number(i)) ELSE ""
        ByName == [n \in Range(mac.args) |-> Given(CHOOSE i \in DOMAIN mac.args : mac.args[i] = n)]
    IN [lines |-> subst_args(mac.body, ByName), first |-> first,
        next |-> first + Cardinality(missing)]

(* Mutant of ExpandedBody: numbers start again in every expansion.         *)
ExpandedBody_Restarts(mac, actuals) == Expansion(mac, actuals, FirstNumber)

(* The numbers start at 32768 in each block.                               *)
ExpandedBody(mac, actuals) ==
    Expansion(mac, actuals, IF last_lsb # lsb THEN FirstNumber ELSE last_locsym)

(* Mutant of Called: a definition further on, from the first pass, counts. *)
Called_Ahead(l) == l.name \in DOMAIN macros

(* A macro that was defined by an earlier statement is called; a name that *)
(* is none, or not yet, is a word (and its arguments, if any, more words:  *)
(* programs give them only to macros that are defined).                    *)
Called(l) == l.name \in DOMAIN macros /\ macros[l.name].stmtno < stmtno'

Call(l, in) ==
    /\ l.op = "call"
    /\ IF Called(l)
       THEN LET e == ExpandedBody(macros[l.name], l.list)
            IN /\ e.next <= EndNumber
               /\ stack' = <<[kind |-> "macro", lines |-> e.lines, at |-> 1,
                              cond |-> Len(in.conds)]>> \o in.stack
               /\ conds' = in.conds
               /\ last_lsb' = lsb /\ last_locsym' = e.next
               /\ Note(<<"call", l.name, lsb, e.first .. e.next - 1>>)
               /\ UNCHANGED <<suppressed, symbolVars, macros, lsb, enabl_lsb, sectionVars,
                              resultVars>>
       ELSE Word([sym |-> l.name, off |-> 0], in)

(* .MEXIT pops the stream it stands in, if that is an expansion.           *)
Mexit(l, in) ==
    LET inside == in.stack # <<>> /\ Head(in.stack).kind # "file"
    IN /\ l.op = "mexit"
       /\ Into(IF inside THEN stack_pop(in, 1) ELSE in)
       /\ Note(<<"mexit">>)
       /\ Report(~inside)
       /\ Fails(~inside)
       /\ UNCHANGED <<suppressed, symbolVars, macros, blockVars, sectionVars, stored>>

(* defmacro: the definition replaces an earlier one.                       *)
Macro(l, in) ==
    LET b == read_body(in, l.name)
    IN /\ l.op = "macro" /\ b.ended
       /\ macros' = With(macros, l.name, [args |-> l.list, local |-> l.opt, body |-> b.body,
                                          stmtno |-> stmtno'])
       /\ Note(<<"macro", l.name>>)
       /\ Report(~b.closed)
       /\ Into(b.in)
       /\ UNCHANGED <<suppressed, symbolVars, blockVars, sectionVars, stored, count>>

(* expand_rept: a count of 0 is a count of 1; without a literal nothing is *)
(* read.  A body that the file does not close leaves no stream to name the *)
(* new one after: the program stops there.                                 *)
Rept(l, in) ==
    LET v == Evaluate(l.val)
        b == read_body(in, "")
    IN /\ l.op = "rept"
       /\ Note(<<"rept", v.type, v.value>>)
       /\ IF v.type # "lit" THEN Into(in) /\ Report(TRUE) /\ Fails(TRUE) /\ UNCHANGED phase
          ELSE /\ b.ended
               /\ IF b.closed
                  THEN stack' = <<[kind |-> "rept", lines |-> b.body, at |-> 1, count |-> v.value,
                                   cond |-> Len(b.in.conds)]>> \o b.in.stack
                  ELSE stack' = b.in.stack
               /\ conds' = b.in.conds
               /\ Report(~b.closed)
               /\ phase' = IF b.closed THEN phase ELSE "crashed"
               /\ UNCHANGED count
       /\ UNCHANGED <<suppressed, symbolVars, macros, blockVars, sectionVars, stored>>

(* expand_irp: the body once for each item.                                *)
Irp(l, in) ==
    LET b == read_body(in, "")
    IN /\ l.op = "irp" /\ b.ended
       /\ IF b.closed
          THEN stack' = <<[kind |-> "irp", lines |-> <<>>, at |-> 1, body |-> b.body,
                           arg |-> l.name, items |-> l.list, cond |-> Len(b.in.conds)]>>
                        \o b.in.stack
          ELSE stack' = b.in.stack
       /\ conds' = b.in.conds
       /\ Note(<<"irp", l.name>>)
       /\ Report(~b.closed)
       /\ phase' = IF b.closed THEN phase ELSE "crashed"
       /\ UNCHANGED <<suppressed, symbolVars, macros, blockVars, sectionVars, stored, count>>

(* The condition of an .IF: of a value, cut to a word, or of a symbol's    *)
(* being defined.                                                          *)
Conditions == {"DF", "NDF", "EQ", "NE"}

Condition(l) ==
    LET v == Evaluate(l.val)
    IN CASE l.name = "DF"  -> eval_defined(l.val)
         [] l.name = "NDF" -> ~eval_defined(l.val)
         [] l.name = "EQ"  -> v.type = "lit" /\ v.value % 65536 = 0
         [] l.name = "NE"  -> v.type = "lit" /\ v.value % 65536 # 0

BadCondition(l) == l.name \in {"EQ", "NE"} /\ Evaluate(l.val).type # "lit"

(* push_cond gives up when there are MAX_CONDS blocks.                     *)
If(l, in) ==
    /\ l.op = "if" /\ l.name \in Conditions
    /\ stack' = in.stack
    /\ IF Len(in.conds) < MaxConds
       THEN conds' = Append(in.conds, Condition(l)) /\ UNCHANGED phase
       ELSE conds' = in.conds /\ phase' = "crashed"
    /\ suppressed' = IF Condition(l) THEN 0 ELSE 1
    /\ Note(<<"if", Condition(l)>>)
    /\ Report(BadCondition(l))
    /\ UNCHANGED <<symbolVars, macros, blockVars, sectionVars, stored, count>>

(* .IIF: the statement on the rest of the line, one statement later.       *)
Iif(l, in) ==
    /\ l.op = "iif" /\ l.name \in Conditions
    /\ IF Condition(l)
       THEN LET rest == l.rest[1]
            IN \/ Call(rest, in) \/ Mexit(rest, in) \/ Assign(rest, in)
               \/ (rest.op = "word" /\ Word(rest.val, in))
       ELSE /\ Into(in)
            /\ Note(<<"iif", FALSE>>)
            /\ Report(BadCondition(l))
            /\ UNCHANGED <<suppressed, symbolVars, macros, blockVars, sectionVars, stored, count>>

(* .IFF, .IFT, .IFTF and .ENDC, in a block that is being assembled.        *)
Part(l, in) ==
    LET none == in.conds = <<>>
    IN /\ l.op \in {"iff", "ift", "iftf"}
       /\ suppressed' = IF none THEN 0
                        ELSE IF Last(in.conds) = (l.op = "iff") /\ l.op # "iftf" THEN 1 ELSE 0
       /\ Note(<<l.op>>)
       /\ Into(in)
       /\ Report(none) /\ Fails(none)
       /\ UNCHANGED <<symbolVars, macros, blockVars, sectionVars, stored>>

Endc(l, in) ==
    LET none == in.conds = <<>>
    IN /\ l.op = "endc"
       /\ stack' = in.stack
       /\ conds' = IF none THEN <<>> ELSE pop_cond(in.conds, Len(in.conds) - 1)
       /\ Note(<<"endc">>)
       /\ Report(none) /\ Fails(none)
       /\ UNCHANGED <<suppressed, symbolVars, macros, blockVars, sectionVars, stored>>

(* .ENABL LSB starts a block, .DSABL LSB does not.                         *)
Enabl(l, in) ==
    /\ l.op \in {"enabl", "dsabl"}
    /\ enabl_lsb' = (l.op = "enabl")
    /\ lsb' = IF l.op = "enabl" THEN lsb + 1 ELSE lsb
    /\ Note(<<l.op>>)
    /\ Into(in)
    /\ UNCHANGED <<suppressed, symbolVars, macros, last_lsb, last_locsym, sectionVars,
                   resultVars>>

(* .GLOBL makes a global symbol of a name, defined or not.                 *)
Globl(l, in) ==
    LET key == <<l.name>>
    IN /\ l.op = "globl" /\ IsName(l.name)
       /\ symbols' = IF key \in DOMAIN symbols
                     THEN [symbols EXCEPT ![key].flags = @ \cup {"GLOBAL"}]
                     ELSE add_sym(key, 0, {"GLOBAL"}, Abs).symbols
       /\ Note(<<"globl", l.name>>)
       /\ Into(in)
       /\ UNCHANGED <<suppressed, implicit, macros, blockVars, sectionVars, resultVars>>

(* A stray .ENDM or .ENDR is ignored.                                      *)
Ignored(l, in) ==
    /\ l.op \in Closes
    /\ Note(<<l.op>>)
    /\ Into(in)
    /\ UNCHANGED <<suppressed, symbolVars, macros, blockVars, sectionVars, resultVars>>

(* How many blocks of a false condition are open after a line under n.     *)
Level(op, n, ok) ==
    CASE op = "if" -> n + 1
      [] op = "endc" -> n - 1
      [] op = "iftf" /\ n = 1 -> 0
      [] op = "iff" /\ n = 1 /\ ~ok -> 0
      [] op = "ift" /\ n = 1 /\ ok -> 0
      [] OTHER -> n

(* Under a false condition only the conditionals count; those nested in it *)
(* are counted, and only the outermost one's parts and end are obeyed.  An *)
(* expansion that ended in a false condition of its own leaves the count   *)
(* up with no block open: what conds[-1] holds is then any value, and      *)
(* popping it is undefined.                                                *)
Suppressed(l, in) ==
    \E ok \in (IF in.conds = <<>> THEN BOOLEAN ELSE {Last(in.conds)}) :
        LET level == Level(l.op, suppressed, ok)
            ends == l.op = "endc" /\ level = 0
            stray == in.conds = <<>> /\ suppressed = 1 /\ l.op \in {"iff", "ift"}
        IN /\ suppressed' = level
           /\ stack' = in.stack
           /\ conds' = IF ends /\ in.conds # <<>> THEN pop_cond(in.conds, Len(in.conds) - 1)
                       ELSE in.conds
           /\ phase' = IF ends /\ in.conds = <<>> THEN "undefined" ELSE phase
           /\ Note(IF stray THEN <<"stray", ok>> ELSE <<"skipped", l.op>>)
           /\ UNCHANGED <<symbolVars, macros, blockVars, sectionVars, resultVars>>

Assembled(l, in) ==
    \/ /\ \/ Label(l, in) \/ Assign(l, in) \/ Org(l, in) \/ Blkb(l, in) \/ Even(l, in)
          \/ Section(l, in)
          \/ l.op = "word" /\ Word(l.val, in)
          \/ Call(l, in) \/ Mexit(l, in) \/ Macro(l, in)
          \/ Iif(l, in) \/ Part(l, in) \/ Endc(l, in)
          \/ Enabl(l, in) \/ Globl(l, in) \/ Ignored(l, in)
       /\ UNCHANGED phase
    \/ Save(l, in) \/ Restore(l, in) \/ Rept(l, in) \/ Irp(l, in) \/ If(l, in)

Input == [stack |-> stack, conds |-> conds]

(* assemble: one line of the input, unless it is at its end.               *)
assemble ==
    LET g == stack_gets(Input)
    IN /\ phase = "reading" /\ stmtno < MaxStatements
       /\ g.line # EOF
       /\ stmtno' = stmtno + (IF suppressed = 0 /\ g.line.op = "iif" THEN 2 ELSE 1)
       /\ IF suppressed > 0 THEN Suppressed(g.line, g.in) ELSE Assembled(g.line, g.in)
       /\ UNCHANGED <<source, pass, directory>>

AtEnd == phase = "reading" /\ stack_gets(Input).line = EOF

(* migrate_implicit, and what write_globals then writes.                   *)
migrate_implicit ==
    [k \in DOMAIN symbols \cup implicit |->
        IF k \in DOMAIN symbols THEN symbols[k]
        ELSE [value |-> 0, section |-> Abs, flags |-> {"GLOBAL"}]]

write_globals(table) ==
    LET globals == {k \in DOMAIN table : "GLOBAL" \in table[k].flags}
    IN [sizes |-> size, globals |-> [k \in globals |-> table[k]]]

(* Mutant of RestartedBlocks: the block of the last macro is kept.         *)
RestartedBlocks_KeepLast == lsb' = 0 /\ UNCHANGED <<last_lsb, last_locsym>>

RestartedBlocks == lsb' = 0 /\ last_lsb' = -1 /\ last_locsym' = FirstNumber - 1

(* main, between the passes: implicit globals go into the symbol table,    *)
(* write_globals writes the directory and clears the pc of the sections,   *)
(* and the second pass starts.  The symbols, the macros and the options    *)
(* stay as the first pass left them.                                       *)
SecondPass ==
    /\ AtEnd /\ pass = 0
    /\ symbols' = migrate_implicit
    /\ directory' = write_globals(symbols')
    /\ pass' = 1
    /\ stack' = <<FileStream(source)>> /\ conds' = <<>> /\ suppressed' = 0
    /\ stmtno' = 0
    /\ RestartedBlocks
    /\ current' = "" /\ pc' = [s \in DOMAIN pc |-> 0]
    /\ sect_sp' = -1
    /\ count' = 0
    /\ UNCHANGED <<source, phase, implicit, macros, enabl_lsb, size, sect_stack, traces, stored,
                   reported>>

(* main, at the end: an open conditional is an error.                      *)
Finish ==
    /\ AtEnd /\ pass = 1
    /\ phase' = "done"
    /\ LET open == stack_gets(Input).in.conds
       IN /\ count' = count + Len(open)
          /\ reported' = (reported \/ open # <<>>)
    /\ stack' = <<>> /\ conds' = <<>>
    /\ UNCHANGED <<source, pass, directory, suppressed, stmtno, symbolVars, macros, blockVars,
                   sectionVars, traces, stored>>

Start ==
    /\ pass = 0 /\ phase = "reading"
    /\ stack = <<FileStream(source)>> /\ conds = <<>> /\ suppressed = 0
    /\ stmtno = 0
    /\ symbols = <<>> /\ implicit = {} /\ macros = <<>>
    /\ lsb = 0 /\ last_lsb = -1 /\ last_locsym = FirstNumber - 1 /\ enabl_lsb = FALSE
    /\ current = ""
    /\ pc = [s \in SectionNames |-> 0] /\ size = [s \in SectionNames |-> 0]
    /\ sect_stack = <<>> /\ sect_sp = -1
    /\ traces = [p \in {0, 1} |-> <<>>]
    /\ stored = {} /\ directory = <<>> /\ reported = FALSE /\ count = 0

Init == source \in Programs /\ Start

Next == assemble \/ SecondPass \/ Finish

Spec == Init /\ [][Next]_vars

-----------------------------------------------------------------------------
(* Type correctness.                                                       *)
Address == 0..(HostSize - 1)
Flags == {"PERMANENT", "DEFINITION", "GLOBAL", "UNDEFINED"}
Symbol == [value : Address, section : SectionNames, flags : SUBSET Flags]
Definition == [args : Seq(STRING), local : SUBSET STRING, body : Seq(Line),
               stmtno : 1..(MaxStatements + 1)]

AnyStream ==
    [kind : {"file", "macro"}, lines : Seq(Line), at : Nat \ {0}, cond : Nat]
    \cup [kind : {"rept"}, lines : Seq(Line), at : Nat \ {0}, count : Address, cond : Nat]
    \cup [kind : {"irp"}, lines : Seq(Line), at : Nat \ {0}, body : Seq(Line), arg : STRING,
          items : Seq(STRING), cond : Nat]
Stream == {s \in AnyStream : s.at <= Len(s.lines) + 1}

TypeOK ==
    /\ phase \in {"reading", "done", "crashed", "undefined"} /\ pass \in {0, 1}
    /\ stack \in Seq(Stream)
    /\ conds \in Seq(BOOLEAN) /\ Len(conds) <= MaxConds /\ suppressed \in Nat
    /\ stmtno \in 0..(MaxStatements + 1)
    /\ \A k \in DOMAIN symbols : symbols[k] \in Symbol
    /\ \A m \in DOMAIN macros : macros[m] \in Definition
    /\ lsb \in Nat
    /\ \/ last_lsb = -1 /\ last_locsym = FirstNumber - 1
       \/ last_lsb \in 0..lsb /\ last_locsym \in FirstNumber..EndNumber
    /\ enabl_lsb \in BOOLEAN
    /\ current \in SectionNames /\ pc \in [SectionNames -> Address]
    /\ size \in [SectionNames -> Address] /\ sect_sp \in -1..MaxSaved
    /\ \A i \in DOMAIN sect_stack : i \in 0..(MaxSaved - 1) /\ sect_stack[i] \in SectionNames
    /\ reported \in BOOLEAN /\ count \in Nat

Entries(p, kind) == {i \in DOMAIN traces[p] : traces[p][i][1] = kind}

(* A label of the first pass, that no assignment of an expression without a*)
(* value may have made undefined after it.                                 *)
Steady(key) ==
    \E i \in Entries(0, "label") :
        /\ traces[0][i][2] = key
        /\ \A j \in Entries(0, "assign") : j > i /\ traces[0][j][2] = key => traces[0][j][3]

(* What no statement reports is right: a second pass without an error has  *)
(* put the address each label turned out to have into every word that      *)
(* refers to it, before the label or after it.  It goes for the labels that*)
(* the first pass knew: one that only the second pass comes to, behind a   *)
(* condition, silently takes the name of a symbol that was assigned, and   *)
(* earlier words keep its value.                                           *)
ReferencesResolved ==
    phase = "done" /\ ~reported =>
        \A w \in stored, i \in Entries(1, "label") :
            LET label == traces[1][i]
            IN Steady(label[2]) /\ w.key = label[2] =>
                   w.section = label[3] /\ w.value = Host(label[4] + w.off)

(* Two expansions of macros never share a generated label: in a pass, the  *)
(* numbers of one block of local symbols are all different.                *)
GeneratedOnce ==
    \A i, j \in Entries(pass, "call") :
        LET a == traces[pass][i]
            b == traces[pass][j]
        IN i # j /\ a[3] = b[3] => a[4] \cap b[4] = {}

(* What a statement does that its expressions decide, or that a condition  *)
(* decides which is no part of the program.                                *)
Decides == {"if", "iif", "rept", "assign", "org", "blkb", "stray"}

Differ(s, t) == {i \in DOMAIN s \cup DOMAIN t :
                    i \notin DOMAIN s \/ i \notin DOMAIN t \/ s[i] # t[i]}

(* Does pass p end with .ENABL LSB on?                                     *)
LeavesOn(p) == \E i \in Entries(p, "enabl") : \A j \in Entries(p, "dsabl") : j < i

(* The two passes read the same program: statement by statement the same   *)
(* lines, expansions, local symbols and addresses, until an expression that*)
(* a statement needs has another value in the second one, because of a     *)
(* symbol defined after it.  An option that the first pass leaves on is on *)
(* in the second from its start; it is supposed to turn it off.            *)
PassesAgree ==
    phase = "done" /\ ~LeavesOn(0) =>
        LET d == Differ(traces[0], traces[1])
        IN d = {} \/ LET i == CHOOSE i \in d : \A j \in d : i <= j
                      IN \E p \in {0, 1} :
                            i \in DOMAIN traces[p] /\ traces[p][i][1] \in Decides

(* The directory that goes out before the second pass holds for it: if it  *)
(* reads the same program, the sections are as large as what is stored in  *)
(* them (as far as an unsigned can say), and without an error the labels   *)
(* are where it says, those at least that the first pass knew.             *)
DirectoryHolds ==
    phase = "done" =>
        /\ traces[0] = traces[1] =>
              \A w \in stored : w.at[2] + 2 < HostSize =>
                  w.at[2] + 2 <= directory.sizes[w.at[1]]
        /\ ~reported =>
              \A i \in Entries(1, "label") :
                  LET label == traces[1][i]
                      written == directory.globals[label[2]]
                  IN Steady(label[2]) /\ label[2] \in DOMAIN directory.globals =>
                         written.section = label[3] /\ written.value = label[4]
=============================================================================
