---------------------------- MODULE Expressions ----------------------------
(***************************************************************************)
(* The expressions of the MACRO-11 assembler, tools/macro11.c: how a text  *)
(* becomes a tree, how the tree is simplified without knowing where the    *)
(* linker will put anything, and what of it is left to the linker.         *)
(*                                                                         *)
(* A text is a sequence of tokens.  The assembler calculates with unsigned *)
(* integers of its host, wider than a word.                                *)
(***************************************************************************)
EXTENDS Integers, Sequences, Bitwise

CONSTANTS
    WordSize,    \* the number of values of a word, 2^16
    HostSize,    \* the number of values of an unsigned int, 2^32
    Literal,     \* the value of a number, character or ^R constant, by token
    Symbols,     \* the tokens that are symbols
    Abs,         \* the absolute section
    Registers    \* the section of the register symbols

ASSUME SizesAssumption ==
    /\ WordSize \in Nat \ {0}
    /\ HostSize % WordSize = 0
    /\ HostSize >= WordSize

Relocatable(section) == section \notin {Abs, Registers}

Sym(label, section, value, global) ==
    [label |-> label, section |-> section, value |-> value, global |-> global]

Lit(n)            == [type |-> "LIT", lit |-> n % HostSize]
SymTree(type, s)  == [type |-> type, symbol |-> s]
TempSym(s, n)     == SymTree("TEMP_SYM", Sym("*TEMP", s, n % HostSize, FALSE))
Unary(type, t)    == [type |-> type, left |-> t]
Binary(type, l, r) == [type |-> type, left |-> l, right |-> r]
Err               == [type |-> "ERR"]
Trap              == [type |-> "TRAP"]     \* the host divided by zero

Operators == {"+", "-", "*", "/", "!", "&"}

Next1(text) == IF text = <<>> THEN "" ELSE Head(text)

-----------------------------------------------------------------------------
(* The parser returns a tree and the text after it; a symbol is looked up  *)
(* in st as it is read.  All operators have the same precedence: depth is  *)
(* 0 at the head of an expression, more for the operand of an operator.    *)

RECURSIVE parse_unary(_, _), parse_binary(_, _, _, _), parse_rest(_, _, _, _)

Parsed(tree, text) == [tree |-> tree, rest |-> text]

Leaf(text, st) ==
    LET t == Next1(text)
    IN IF t \in DOMAIN Literal THEN Parsed(Lit(Literal[t]), Tail(text))
       ELSE IF t \in DOMAIN st THEN Parsed(SymTree("SYM", st[t]), Tail(text))
       ELSE IF t \in Symbols
            THEN Parsed(SymTree("UNDEFINED_SYM", Sym(t, Abs, 0, FALSE)), Tail(text))
       ELSE Parsed(Err, text)

(* <expression>, or ^/expression/ with any other punctuation.              *)
Closed(inner, close) ==
    IF Next1(inner.rest) = close THEN Parsed(inner.tree, Tail(inner.rest))
    ELSE Parsed(Err, inner.rest)

UnaryOf(type, p) == Parsed(Unary(type, p.tree), p.rest)

parse_unary(text, st) ==
    LET t == Next1(text)
    IN CASE t = "-"  -> UnaryOf("NEG", parse_unary(Tail(text), st))
         [] t = "+"  -> parse_unary(Tail(text), st)
         [] t = "^C" -> UnaryOf("COM", parse_unary(Tail(text), st))
         [] t = "^/" -> Closed(parse_binary(Tail(text), "/", 0, st), "/")
         [] t = "<"  -> Closed(parse_binary(Tail(text), ">", 0, st), ">")
         [] OTHER    -> Leaf(text, st)

BinaryOf(op, p, r) == Parsed(Binary(op, p.tree, r.tree), r.rest)

parse_rest(p, term, depth, st) ==
    LET op == Next1(p.rest)
    IN IF p.tree.type = "ERR" \/ op = term \/ op \notin Operators \/ depth >= 1 THEN p
       ELSE parse_rest(BinaryOf(op, p, parse_binary(Tail(p.rest), term, 1, st)), term, depth, st)

parse_binary(text, term, depth, st) == parse_rest(parse_unary(text, st), term, depth, st)

-----------------------------------------------------------------------------
(* evaluate: what can be calculated is, the rest stays a tree.             *)

IsLit(t)   == t.type = "LIT"
IsSym(t)   == t.type \in {"SYM", "TEMP_SYM"}
RELTYPE(t) == IsSym(t) /\ Relocatable(t.symbol.section)
IsLitNode(t, types) == t.type \in types /\ IsLit(t.right)

(* Two literals; the host traps a division by zero.                        *)
Calculate(op, a, b) ==
    CASE op = "+" -> Lit(a + b)
      [] op = "-" -> Lit(a - b)
      [] op = "*" -> Lit(a * b)
      [] op = "/" -> IF b = 0 THEN Trap ELSE Lit(a \div b)
      [] op = "&" -> Lit(a & b)
      [] op = "!" -> Lit(a | b)

(* The literal that leaves the other operand as it is.                     *)
Neutral(op) ==
    CASE op \in {"+", "-", "!"} -> 0
      [] op \in {"*", "/"} -> 1
      [] op = "&" -> WordSize - 1

(* The literal that makes the result itself, whatever the other operand.   *)
Absorbs(op, n) ==
    \/ op \in {"*", "&"} /\ n = 0
    \/ op = "!" /\ n = WordSize - 1

(* <A op x> with its x replaced.                                           *)
WithRight(t, n) == [t EXCEPT !.right = Lit(n)]

(* Mutant of Shuffled: <A-x>-y becomes A-<x-y>.                            *)
Shuffled_Signs(op, l, y) ==
    LET x == l.right.lit
    IN IF op = "+" THEN WithRight(l, IF l.type = "+" THEN x + y ELSE y - x)
       ELSE WithRight(l, x - y)

(* A tree and a literal, both additive: <A+x>+y is A+<x+y>, and so on.     *)
(* <A-x>+y becomes A-<y-x> where the comment means A+<y-x>.                *)
Shuffled(op, l, y) ==
    LET x == l.right.lit
    IN IF op = "+" THEN WithRight(l, IF l.type = "+" THEN x + y ELSE y - x)
       ELSE WithRight(l, IF l.type = "+" THEN x - y ELSE x + y)

(* What else is done with a sum or a difference.                           *)
Additive(op, l, r) ==
    CASE IsLit(r) /\ RELTYPE(l) ->
           TempSym(l.symbol.section, Calculate(op, l.symbol.value, r.lit).lit)
      [] IsLit(r) /\ IsLitNode(l, {"+", "-"}) -> Shuffled(op, l, r.lit)
      [] op = "-" /\ RELTYPE(l) /\ RELTYPE(r) /\ l.symbol.section = r.symbol.section ->
           Lit(l.symbol.value - r.symbol.value)
      [] OTHER -> Binary(op, l, r)

(* <A*x>*y is A*<x*y>.                                                     *)
Multiplied(l, r) ==
    IF IsLit(r) /\ IsLitNode(l, {"*"}) THEN WithRight(l, l.right.lit * r.lit)
    ELSE Binary("*", l, r)

Simplified(op, l, r) ==
    IF IsLit(l) /\ IsLit(r) THEN Calculate(op, l.lit, r.lit)
    ELSE IF IsLit(r) /\ r.lit = Neutral(op) THEN l
    ELSE IF IsLit(r) /\ Absorbs(op, r.lit) THEN r
    ELSE IF op \in {"+", "-"} THEN Additive(op, l, r)
    ELSE IF op = "*" THEN Multiplied(l, r)
    ELSE Binary(op, l, r)

(* A symbol: with undef (.IF DF) a global that is not assigned counts as   *)
(* undefined; an absolute one is a literal; "." is copied as it is now.    *)
Valued(s, undef) ==
    CASE undef /\ s.global -> SymTree("UNDEFINED_SYM", s)
      [] ~s.global /\ s.section = Abs -> Lit(s.value)
      [] s.label = "." -> TempSym(s.section, s.value)
      [] OTHER -> SymTree("SYM", s)

(* Only a literal is complemented: anything else is negated instead.       *)
Complemented(t) == IF IsLit(t) THEN Lit(HostSize - 1 - t.lit) ELSE Unary("NEG", t)

(* A negated symbol becomes one with the negative value in its section.    *)
Negated(t) ==
    CASE IsLit(t) -> Lit(-t.lit)
      [] IsSym(t) -> TempSym(t.symbol.section, -t.symbol.value)
      [] OTHER    -> Unary("NEG", t)

OfOne(type, t) ==
    IF t = Trap THEN Trap ELSE IF type = "COM" THEN Complemented(t) ELSE Negated(t)

(* A literal goes to the right where the order does not matter.            *)
OfTwo(op, left, right) ==
    LET swap == IsLit(left) /\ ~IsLit(right) /\ op \notin {"-", "/"}
    IN IF Trap \in {left, right} THEN Trap
       ELSE IF swap THEN Simplified(op, right, left)
       ELSE Simplified(op, left, right)

RECURSIVE evaluate(_, _)
evaluate(tp, undef) ==
    CASE tp.type = "SYM"           -> Valued(tp.symbol, undef)
      [] tp.type \in {"COM", "NEG"} -> OfOne(tp.type, evaluate(tp.left, undef))
      [] tp.type \in Operators     -> OfTwo(tp.type, evaluate(tp.left, undef),
                                            evaluate(tp.right, undef))
      [] OTHER                     -> tp

Evaluated(p, undef) == Parsed(evaluate(p.tree, undef), p.rest)
parse_expr(text, undef, st) == Evaluated(parse_binary(text, "", 0, st), undef)

(* The conditions DF and NDF of .IF.                                       *)
RECURSIVE eval_defined(_), eval_undefined(_)

(* Mutant of eval_defined: all the symbols of an alternative are needed.   *)
eval_defined_All(t) ==
    CASE t.type \in {"LIT", "SYM"} -> TRUE
      [] t.type \in {"&", "!"} -> eval_defined(t.left) /\ eval_defined(t.right)
      [] OTHER -> FALSE

eval_defined(t) ==
    CASE t.type \in {"LIT", "SYM"} -> TRUE
      [] t.type = "&" -> eval_defined(t.left) /\ eval_defined(t.right)
      [] t.type = "!" -> eval_defined(t.left) \/ eval_defined(t.right)
      [] OTHER -> FALSE

eval_undefined(t) ==
    CASE t.type = "UNDEFINED_SYM" -> TRUE
      [] t.type = "&" -> eval_undefined(t.left) /\ eval_undefined(t.right)
      [] t.type = "!" -> eval_undefined(t.left) \/ eval_undefined(t.right)
      [] OTHER -> FALSE

-----------------------------------------------------------------------------
(* What is stored: a word, and what the linker does with it.  The base     *)
(* names a section or a global to add; a displaced word is relative to     *)
(* the address after it; a complex one is calculated from code.            *)
Store(kind, base, word, displaced, code) ==
    [kind |-> kind, base |-> base, word |-> word % WordSize, displaced |-> displaced,
     code |-> code]

Plain(n)                      == Store("word", "", n, FALSE, <<>>)
OfSection(s, n, displaced)    == Store("section", s, n, displaced, <<>>)
OfGlobal(g, n, displaced)     == Store("global", g, n, displaced, <<>>)

Command(what, name, n) == <<what, name, n % WordSize>>

(* complex_tree: the code of a tree; a tree with an error has none.  An    *)
(* undefined symbol that did not become a global has none either.          *)
RECURSIVE complex_tree(_), translates(_)
translates(t) ==
    CASE t.type \in {"LIT", "SYM", "TEMP_SYM"} -> TRUE
      [] t.type \in {"COM", "NEG"} -> translates(t.left)
      [] t.type \in Operators -> translates(t.left) /\ translates(t.right)
      [] OTHER -> FALSE

complex_tree(t) ==
    CASE IsLit(t) -> <<Command("lit", "", t.lit)>>
      [] IsSym(t) -> <<IF t.symbol.global THEN Command("global", t.symbol.label, 0)
                       ELSE Command("section", t.symbol.section, t.symbol.value)>>
      [] t.type \in {"COM", "NEG"} -> Append(complex_tree(t.left), Command(t.type, "", 0))
      [] OTHER -> Append(complex_tree(t.left) \o complex_tree(t.right), Command(t.type, "", 0))

(* What has no code is reported, and stored as 0.                          *)
store_complex(t, displaced) ==
    IF translates(t) THEN Store("complex", "", 0, displaced, complex_tree(t))
    ELSE Store("invalid", "", 0, FALSE, <<>>)

(* express_sym_offset: a tree that is one symbol and an offset.            *)
IsOffset(t) ==
    t.type \in {"+", "-"} /\ t.left.type \in {"SYM", "UNDEFINED_SYM"} /\ IsLit(t.right)

express_sym_offset(t) ==
    IF IsSym(t) THEN [ok |-> TRUE, sym |-> t.symbol, offset |-> 0]
    ELSE IF IsOffset(t)
         THEN [ok |-> TRUE, sym |-> t.left.symbol,
               offset |-> IF t.type = "+" THEN t.right.lit ELSE -t.right.lit]
    ELSE [ok |-> FALSE, sym |-> Sym("", Abs, 0, FALSE), offset |-> 0]

(* store_value: a word of data in a section.  store_internal_word names    *)
(* the section it is in.                                                   *)
store_value(t) ==
    LET e == express_sym_offset(t)
        n == e.sym.value + e.offset
    IN IF IsLit(t) THEN Plain(t.lit)
       ELSE IF ~e.ok THEN store_complex(t, FALSE)
       ELSE IF e.sym.global THEN OfGlobal(e.sym.label, n, FALSE)
       ELSE OfSection(e.sym.section, n, FALSE)

(* What the linker makes of a stored word: it knows the base of every      *)
(* section and the value of every global.  External.                       *)
LinkerStep(stack, c, env) ==
    LET n   == Len(stack)
        top == stack[n]
        Push(k, v) == Append(SubSeq(stack, 1, n - k), v % WordSize)
    IN CASE c[1] = "lit"     -> Push(0, c[3])
         [] c[1] = "global"  -> Push(0, env[c[2]])
         [] c[1] = "section" -> Push(0, env[c[2]] + c[3])
         [] c[1] = "COM"     -> Push(1, WordSize - 1 - top)
         [] c[1] = "NEG"     -> Push(1, -top)
         [] OTHER            -> LET v == Calculate(c[1], stack[n - 1], top)
                                IN Push(2, IF v = Trap THEN 0 ELSE v.lit)

RECURSIVE RunCode(_, _, _)
RunCode(stack, code, env) ==
    IF code = <<>> THEN Head(stack)
    ELSE RunCode(LinkerStep(stack, Head(code), env), Tail(code), env)

(* at is the address of the word, relocated.                               *)
LinkedWord(s, at, env) ==
    LET value == CASE s.kind \in {"section", "global"} -> env[s.base] + s.word
                   [] s.kind = "complex" -> RunCode(<<>>, s.code, env)
                   [] OTHER -> s.word
    IN (value - (IF s.displaced THEN at + 2 ELSE 0)) % WordSize
=============================================================================
