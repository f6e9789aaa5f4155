-------------------------- MODULE Assembler_proofs --------------------------
(***************************************************************************)
(* Proofs about Assembler, for all programs, names and bounds.             *)
(***************************************************************************)
EXTENDS Assembler, SequenceTheorems, FiniteSetTheorems, WellFoundedInduction, TLAPS

-----------------------------------------------------------------------------
(* The operators on streams and lines.                                     *)

LEMMA HostType ==
    ASSUME NEW n \in Int
    PROVE  Host(n) \in Address
    BY BoundsAssumption, SMTT(30) DEF Host, Address

LEMMA ZeroType == 0 \in Address
    BY BoundsAssumption DEF Address

LEMMA HostSame ==
    ASSUME NEW n \in Address
    PROVE  Host(n) = n
    BY BoundsAssumption, SMTT(30) DEF Host, Address

LEMMA LeastIs ==
    ASSUME NEW S \in SUBSET Int, NEW n \in S, \A m \in S : n <= m
    PROVE  Min(S) = n
    <1>1. \A x \in S : (\A y \in S : x =< y) => x = n
        OBVIOUS
    <1> QED BY <1>1, Zenon DEF Min

(* A non-empty set of numbers from 0 up has a least one.                   *)
LEMMA LeastExists ==
    ASSUME NEW S \in SUBSET Nat, S # {}
    PROVE  Min(S) \in S /\ \A m \in S : Min(S) <= m
    <1>1. \E n \in S : \A m \in S : n <= m
        <2>1. PICK n \in S : \A m \in S : ~(<<m, n>> \in OpToRel(<, Nat))
            BY WFMin, NatLessThanWellFounded
        <2>2. \A m \in S : ~(m < n)
            BY <2>1 DEF OpToRel
        <2> QED BY <2>2
    <1> QED BY <1>1, Zenon DEF Min

LEMMA SeqOfFunction ==
    ASSUME NEW S, NEW n \in Nat, NEW f \in [1..n -> S]
    PROVE  f \in Seq(S) /\ Len(f) = n
    <1>1. f \in Seq(S)
        BY SeqDef
    <1> QED BY <1>1, LenProperties

(* subst_args makes lines of lines, as many.                               *)
LEMMA SubstitutedType ==
    ASSUME NEW actual, \A n \in DOMAIN actual : actual[n] \in STRING, NEW l, NEW S,
           l \in [op : STRING, name : STRING, val : Value, list : Seq(STRING),
                  opt : SUBSET STRING, rest : S]
    PROVE  /\ Substituted(l, actual) \in
                  [op : STRING, name : STRING, val : Value, list : Seq(STRING),
                   opt : SUBSET STRING, rest : S]
           /\ Substituted(l, actual).op = l.op
           /\ Substituted(l, actual).rest = l.rest
    <1> DEFINE Actual(n) == IF n \in DOMAIN actual THEN actual[n] ELSE n
    <1>1. \A n \in STRING : Actual(n) \in STRING
        OBVIOUS
    <1>2. /\ l.op \in STRING /\ l.name \in STRING /\ l.val \in Value
          /\ l.list \in Seq(STRING) /\ l.opt \in SUBSET STRING /\ l.rest \in S
        OBVIOUS
    <1>3. Substituted(l, actual) =
             [op |-> l.op, name |-> Actual(l.name), val |-> [l.val EXCEPT !.sym = Actual(@)],
              list |-> [i \in DOMAIN l.list |-> Actual(l.list[i])],
              opt |-> {Actual(n) : n \in l.opt}, rest |-> l.rest]
        BY Zenon DEF Substituted
    <1> HIDE DEF Actual
    <1>4. [i \in DOMAIN l.list |-> Actual(l.list[i])] \in Seq(STRING)
        <2>1. Len(l.list) \in Nat /\ DOMAIN l.list = 1..Len(l.list)
            BY <1>2, LenProperties
        <2>2. \A i \in 1..Len(l.list) : Actual(l.list[i]) \in STRING
            BY <1>1, <1>2, ElementOfSeq
        <2> DEFINE f == [i \in DOMAIN l.list |-> Actual(l.list[i])]
        <2>3. f \in [1..Len(l.list) -> STRING]
            BY <2>1, <2>2
        <2> HIDE DEF f
        <2>4. f \in Seq(STRING)
            BY <2>1, <2>3, SeqOfFunction
        <2> QED BY <2>4 DEF f
    <1>5. {Actual(n) : n \in l.opt} \in SUBSET STRING
        BY <1>1, <1>2
    <1>6. [l.val EXCEPT !.sym = Actual(@)] \in Value
        BY <1>1, <1>2 DEF Value
    <1>7. Actual(l.name) \in STRING
        BY <1>1, <1>2
    <1> QED BY <1>2, <1>3, <1>4, <1>5, <1>6, <1>7

LEMMA SubstType ==
    ASSUME NEW lines \in Seq(Line), NEW actual, \A n \in DOMAIN actual : actual[n] \in STRING
    PROVE  /\ subst_args(lines, actual) \in Seq(Line)
           /\ Len(subst_args(lines, actual)) = Len(lines)
    <1> DEFINE Whole(l) == [Substituted(l, actual) EXCEPT
                               !.rest = [j \in DOMAIN @ |-> Substituted(@[j], actual)]]
    <1>1. ASSUME NEW l \in Line PROVE Whole(l) \in Line
        <2>1. l \in AnyLine /\ (l.op = "iif" => l.rest # <<>>)
            BY DEF Line
        <2>2. /\ Substituted(l, actual) \in AnyLine
              /\ Substituted(l, actual).op = l.op /\ Substituted(l, actual).rest = l.rest
            <3>1. \A n \in DOMAIN actual : actual[n] \in STRING
                OBVIOUS
            <3> QED BY <2>1, <3>1, SubstitutedType DEF AnyLine
        <2>3. l.rest \in Seq(Statement)
            BY <2>1 DEF AnyLine
        <2>4. Len(l.rest) \in Nat /\ DOMAIN l.rest = 1..Len(l.rest)
            BY <2>3, LenProperties
        <2>5. \A j \in 1..Len(l.rest) : Substituted(l.rest[j], actual) \in Statement
            <3>1. \A n \in DOMAIN actual : actual[n] \in STRING
                OBVIOUS
            <3>2. \A s \in Statement : Substituted(s, actual) \in Statement
                BY <3>1, SubstitutedType DEF Statement
            <3> QED BY <2>3, <3>2, ElementOfSeq
        <2> DEFINE f == [j \in DOMAIN l.rest |-> Substituted(l.rest[j], actual)]
        <2>6. f \in [1..Len(l.rest) -> Statement]
            BY <2>4, <2>5
        <2>7. Whole(l) = [Substituted(l, actual) EXCEPT !.rest = f]
            BY <2>2
        <2> HIDE DEF f, Whole
        <2>8. f \in Seq(Statement) /\ Len(f) = Len(l.rest)
            BY <2>4, <2>6, SeqOfFunction
        <2>9. Whole(l) \in AnyLine /\ Whole(l).op = l.op /\ Whole(l).rest = f
            BY <2>2, <2>7, <2>8 DEF AnyLine
        <2>10. l.op = "iif" => f # <<>>
            BY <2>1, <2>3, <2>8, EmptySeq
        <2> QED BY <2>9, <2>10 DEF Line
    <1>2. Len(lines) \in Nat /\ DOMAIN lines = 1..Len(lines)
        BY LenProperties
    <1>3. \A i \in 1..Len(lines) : lines[i] \in Line
        BY ElementOfSeq
    <1> DEFINE f == [i \in DOMAIN lines |-> Whole(lines[i])]
    <1>4. f = subst_args(lines, actual)
        BY Zenon DEF subst_args
    <1> HIDE DEF Whole
    <1>5. f \in [1..Len(lines) -> Line]
        BY <1>1, <1>2, <1>3
    <1> HIDE DEF f
    <1> QED BY <1>2, <1>4, <1>5, SeqOfFunction

-----------------------------------------------------------------------------
(* Streams.  InputOK: an input, between two lines.                         *)
InputOK(in) ==
    /\ in \in [stack : Seq(Stream), conds : Seq(BOOLEAN)]
    /\ Len(in.conds) <= MaxConds

LEMMA StreamFields ==
    ASSUME NEW s \in Stream
    PROVE  /\ s.lines \in Seq(Line) /\ s.at \in Nat \ {0} /\ s.at <= Len(s.lines) + 1
           /\ s.cond \in Nat /\ Len(s.lines) \in Nat
    <1>1. s.lines \in Seq(Line) /\ s.at \in Nat \ {0} /\ s.at <= Len(s.lines) + 1 /\ s.cond \in Nat
        BY DEF Stream, AnyStream
    <1> QED BY <1>1, LenProperties

LEMMA StreamOfKind ==
    ASSUME NEW s \in Stream
    PROVE  /\ s.kind = "rept" => s \in [kind : {"rept"}, lines : Seq(Line), at : Nat \ {0},
                                        count : Address, cond : Nat]
           /\ s.kind = "irp" => s \in [kind : {"irp"}, lines : Seq(Line), at : Nat \ {0},
                                       body : Seq(Line), arg : STRING, items : Seq(STRING),
                                       cond : Nat]
    BY DEF Stream, AnyStream

(* The next turn of a stream is one, and what is left of a stream after a  *)
(* line of it.                                                             *)
LEMMA NextTurnType ==
    ASSUME NEW s \in Stream, MoreTurns(s)
    PROVE  NextTurn(s) \in Stream
    <1>1. CASE s.kind = "rept"
        <2>1. s \in [kind : {"rept"}, lines : Seq(Line), at : Nat \ {0}, count : Address, cond : Nat]
            BY <1>1, StreamOfKind
        <2>2. s.count - 1 \in Int
            BY <2>1 DEF Address
        <2>3. Host(s.count - 1) \in Address
            BY <2>2, HostType
        <2>4. NextTurn(s) = [s EXCEPT !.count = Host(@ - 1), !.at = 1]
            BY <1>1, Zenon DEF NextTurn
        <2> DEFINE Kind == [kind : {"rept"}, lines : Seq(Line), at : Nat \ {0},
                            count : Address, cond : Nat]
        <2>a. PICK t : t = [s EXCEPT !.count = Host(@ - 1)]
            OBVIOUS
        <2>b. t \in Kind
            BY <2>1, <2>3, <2>a
        <2>c. NextTurn(s) = [t EXCEPT !.at = 1]
            BY <2>4, <2>a
        <2>5. NextTurn(s) \in Kind
            BY <2>b, <2>c
        <2>6. NextTurn(s).at = 1 /\ NextTurn(s).lines = s.lines
            BY <2>1, <2>4
        <2> QED BY <2>5, <2>6, StreamFields DEF Stream, AnyStream
    <1>2. CASE s.kind # "rept"
        <2>1. s.kind = "irp" /\ s.items # <<>>
            BY <1>2 DEF MoreTurns
        <2>2. s \in [kind : {"irp"}, lines : Seq(Line), at : Nat \ {0}, body : Seq(Line),
                     arg : STRING, items : Seq(STRING), cond : Nat]
            BY <2>1, StreamOfKind
        <2>3. Head(s.items) \in STRING /\ Tail(s.items) \in Seq(STRING)
            BY <2>1, <2>2, HeadTailProperties
        <2> DEFINE given == [n \in {s.arg} |-> Head(s.items)]
        <2>4. \A n \in DOMAIN given : given[n] \in STRING
            BY <2>3
        <2>5. NextTurn(s) = [s EXCEPT !.lines = subst_args(s.body, given), !.at = 1,
                                      !.items = Tail(@)]
            BY <1>2, Zenon DEF NextTurn
        <2> HIDE DEF given
        <2>6. PICK turned : turned = subst_args(s.body, given)
            OBVIOUS
        <2>7. turned \in Seq(Line) /\ Len(turned) \in Nat
            BY <2>2, <2>4, <2>6, SubstType, LenProperties
        <2>8. PICK items : items = Tail(s.items)
            OBVIOUS
        <2>9. NextTurn(s) = [s EXCEPT !.lines = turned, !.at = 1, !.items = items]
            BY <2>2, <2>5, <2>6, <2>8
        <2> DEFINE Kind == [kind : {"irp"}, lines : Seq(Line), at : Nat \ {0},
                            body : Seq(Line), arg : STRING, items : Seq(STRING), cond : Nat]
        <2>a. PICK t : t = [s EXCEPT !.lines = turned]
            OBVIOUS
        <2>b. t \in Kind
            BY <2>2, <2>7, <2>a
        <2>c. PICK u : u = [t EXCEPT !.at = 1]
            OBVIOUS
        <2>d. u \in Kind
            BY <2>b, <2>c, SMTT(60)
        <2>e. NextTurn(s) = [u EXCEPT !.items = items]
            BY <2>9, <2>a, <2>c
        <2>10. NextTurn(s) \in Kind
            BY <2>3, <2>8, <2>d, <2>e
        <2>11. NextTurn(s).at = 1 /\ NextTurn(s).lines = turned
            BY <2>2, <2>9
        <2> QED BY <2>7, <2>10, <2>11 DEF Stream, AnyStream
    <1> QED BY <1>1, <1>2

LEMMA AdvancedType ==
    ASSUME NEW s \in Stream, HasLine(s)
    PROVE  [s EXCEPT !.at = @ + 1] \in Stream /\ s.lines[s.at] \in Line
    <1>1. s.at \in 1..Len(s.lines)
        BY StreamFields DEF HasLine
    <1>2. s.lines[s.at] \in Line
        BY <1>1, StreamFields, ElementOfSeq
    <1>3. [s EXCEPT !.at = @ + 1] \in AnyStream
        BY SMTT(60) DEF Stream, AnyStream
    <1>4. [s EXCEPT !.at = @ + 1].at = s.at + 1 /\ [s EXCEPT !.at = @ + 1].lines = s.lines
        BY DEF Stream, AnyStream
    <1>5. s.at + 1 <= Len(s.lines) + 1
        BY <1>1, StreamFields
    <1> QED BY <1>2, <1>3, <1>4, <1>5 DEF Stream

LEMMA PopCondType ==
    ASSUME NEW open \in Seq(BOOLEAN), NEW depth \in Int
    PROVE  /\ pop_cond(open, depth) \in Seq(BOOLEAN)
           /\ Len(pop_cond(open, depth)) <= Len(open)
    <1>1. Len(open) \in Nat
        BY LenProperties
    <1>2. \E least \in {depth, Len(open)} : \A m \in {depth, Len(open)} : least <= m
        BY <1>1
    <1>3. PICK least \in {depth, Len(open)} : \A m \in {depth, Len(open)} : least <= m
        BY <1>2
    <1>4. {depth, Len(open)} \in SUBSET Int
        BY <1>1
    <1>5. Min({depth, Len(open)}) = least
        BY <1>3, <1>4, LeastIs
    <1>6. pop_cond(open, depth) = SubSeq(open, 1, least)
        BY <1>5 DEF pop_cond
    <1>7. least \in Int /\ least <= Len(open)
        BY <1>1, <1>3
    <1>8. \A i \in 1..least : open[i] \in BOOLEAN
        BY <1>1, <1>7, ElementOfSeq
    <1>9. /\ SubSeq(open, 1, least) \in Seq(BOOLEAN)
          /\ Len(SubSeq(open, 1, least)) = IF 1 <= least THEN least - 1 + 1 ELSE 0
        BY <1>7, <1>8, SubSeqProperties
    <1> QED BY <1>1, <1>6, <1>7, <1>9

LEMMA StackPopType ==
    ASSUME NEW in, InputOK(in), NEW n \in 0..Len(in.stack)
    PROVE  /\ InputOK(stack_pop(in, n))
           /\ stack_pop(in, n).stack = SubSeq(in.stack, n + 1, Len(in.stack))
    <1> DEFINE depths == {in.stack[i].cond : i \in {j \in 1..n : in.stack[j].kind # "file"}}
               least == Min(depths \cup {Len(in.conds)})
    <1>1. in.stack \in Seq(Stream) /\ in.conds \in Seq(BOOLEAN) /\ Len(in.conds) <= MaxConds
        BY DEF InputOK
    <1>2. Len(in.stack) \in Nat /\ Len(in.conds) \in Nat
        BY <1>1, LenProperties
    <1>3. depths \cup {Len(in.conds)} \in SUBSET Nat
        <2>1. \A i \in 1..n : in.stack[i].cond \in Nat
            BY <1>1, <1>2, ElementOfSeq, StreamFields
        <2> QED BY <1>2, <2>1
    <1>4. least \in Int
        <2> HIDE DEF depths
        <2>1. depths \cup {Len(in.conds)} # {}
            OBVIOUS
        <2> QED BY <1>3, <2>1, LeastExists
    <1>5. stack_pop(in, n) = [stack |-> SubSeq(in.stack, n + 1, Len(in.stack)),
                              conds |-> pop_cond(in.conds, least)]
        BY Zenon DEF stack_pop
    <1>6. \A i \in (n + 1)..Len(in.stack) : in.stack[i] \in Stream
        BY <1>1, <1>2, ElementOfSeq
    <1>7. n + 1 \in Int
        OBVIOUS
    <1>8. SubSeq(in.stack, n + 1, Len(in.stack)) \in Seq(Stream)
        BY <1>2, <1>6, <1>7, SubSeqProperties
    <1> HIDE DEF least
    <1>9. /\ pop_cond(in.conds, least) \in Seq(BOOLEAN)
          /\ Len(pop_cond(in.conds, least)) <= Len(in.conds)
        BY <1>1, <1>4, PopCondType
    <1>10. Len(pop_cond(in.conds, least)) \in Nat
        BY <1>9, LenProperties
    <1> QED BY <1>1, <1>2, <1>5, <1>8, <1>9, <1>10, BoundsAssumption DEF InputOK

(* The line that is read is a line, and there is input again.              *)
LEMMA StackGetsType ==
    ASSUME NEW in, InputOK(in)
    PROVE  /\ InputOK(stack_gets(in).in)
           /\ stack_gets(in).line # EOF => stack_gets(in).line \in Line
    <1> DEFINE ready == {i \in DOMAIN in.stack : Left(in.stack[i])}
               popped == stack_pop(in, Min(ready) - 1)
               top == Head(popped.stack)
               turn == IF HasLine(top) THEN top ELSE NextTurn(top)
    <1>1. in.stack \in Seq(Stream)
        BY DEF InputOK
    <1>2. Len(in.stack) \in Nat /\ DOMAIN in.stack = 1..Len(in.stack)
        BY <1>1, LenProperties
    <1>3. stack_gets(in) =
            IF ready = {} THEN [line |-> EOF, in |-> stack_pop(in, Len(in.stack))]
            ELSE [line |-> turn.lines[turn.at],
                  in |-> [stack |-> <<[turn EXCEPT !.at = @ + 1]>> \o Tail(popped.stack),
                          conds |-> popped.conds]]
        BY Zenon DEF stack_gets
    <1>4. CASE ready = {}
        <2>1. InputOK(stack_pop(in, Len(in.stack)))
            BY <1>2, StackPopType
        <2> QED BY <1>3, <1>4, <2>1
    <1>5. CASE ready # {}
        <2>1. PICK first : first = Min(ready)
            OBVIOUS
        <2>2. first \in ready
            <3>1. ready \in SUBSET Nat
                BY <1>2
            <3> HIDE DEF ready
            <3> QED BY <1>5, <2>1, <3>1, LeastExists
        <2>3. first \in 1..Len(in.stack) /\ Left(in.stack[first])
            BY <1>2, <2>2
        <2> HIDE DEF ready
        <2>4. first - 1 \in 0..Len(in.stack)
            BY <1>2, <2>3
        <2>5. /\ InputOK(popped)
              /\ popped.stack = SubSeq(in.stack, (first - 1) + 1, Len(in.stack))
            BY <2>1, <2>4, StackPopType
        <2>6. popped.stack = SubSeq(in.stack, first, Len(in.stack))
            BY <2>3, <2>5, SMTT(60)
        <2>7. Head(popped.stack) = in.stack[first]
            BY <1>1, <1>2, <2>3, <2>6, HeadTailOfSubSeq
        <2>8. popped.stack \in Seq(Stream) /\ popped.stack # <<>>
            <3>1. popped.stack \in Seq(Stream)
                BY <2>5 DEF InputOK
            <3>2. Len(SubSeq(in.stack, first, Len(in.stack))) = Len(in.stack) - first + 1
                <4>1. \A i \in first..Len(in.stack) : in.stack[i] \in Stream
                    BY <1>1, <1>2, <2>3, ElementOfSeq
                <4> QED BY <1>2, <2>3, <4>1, SubSeqProperties
            <3>3. Len(popped.stack) # 0
                BY <1>2, <2>3, <2>6, <3>2
            <3> HIDE DEF popped
            <3> QED BY <3>1, <3>3, EmptySeq
        <2>9. Tail(popped.stack) \in Seq(Stream)
            BY <2>8, HeadTailProperties
        <2>10. in.stack[first] \in Stream
            BY <1>1, <2>3, ElementOfSeq
        <2>11. turn \in Stream /\ HasLine(turn)
            BY <2>3, <2>7, <2>10, NextTurnType DEF Left
        <2>12. [turn EXCEPT !.at = @ + 1] \in Stream /\ turn.lines[turn.at] \in Line
            <3> HIDE DEF turn
            <3> QED BY <2>11, AdvancedType
        <2>13. stack_gets(in) =
                  [line |-> turn.lines[turn.at],
                   in |-> [stack |-> <<[turn EXCEPT !.at = @ + 1]>> \o Tail(popped.stack),
                           conds |-> popped.conds]]
            BY <1>3, <1>5
        <2>14. popped.conds \in Seq(BOOLEAN) /\ Len(popped.conds) <= MaxConds
            BY <2>5 DEF InputOK
        <2> HIDE DEF turn, popped
        <2>15. <<[turn EXCEPT !.at = @ + 1]>> \o Tail(popped.stack) \in Seq(Stream)
            BY <2>9, <2>12, ConcatProperties
        <2> QED BY <2>12, <2>13, <2>14, <2>15 DEF InputOK
    <1> QED BY <1>4, <1>5

-----------------------------------------------------------------------------
(* read_body: what its lines have in common.                               *)
LineFacts == INSTANCE FoldFacts WITH Op <- AnotherLine

Unread(in) == [in |-> in, nest |-> 1, body |-> <<>>, ended |-> FALSE, closed |-> FALSE]

Reads(f, in, name) ==
    f = [n \in 0..MaxLines |-> IF n = 0 THEN Unread(in) ELSE AnotherLine(f[n - 1], name)]

(* There is a function as its definition says.                             *)
LEMMA ReadsExists ==
    ASSUME NEW in, NEW name
    PROVE  \E f : Reads(f, in, name)
    <1> DEFINE names == [i \in 1..MaxLines |-> name]
    <1>1. DOMAIN names = 1..MaxLines /\ MaxLines \in Nat
        BY BoundsAssumption
    <1>2. \A i \in 1..MaxLines : names[i] = name
        OBVIOUS
    <1> HIDE DEF names
    <1>3. PICK g : LineFacts!Chain(g, Unread(in), names, MaxLines)
        BY <1>1, LineFacts!FoldChain
    <1>4. g[0] = Unread(in) /\ \A k \in 1..MaxLines : g[k] = AnotherLine(g[k - 1], name)
        BY <1>2, <1>3, Zenon DEF LineFacts!Chain
    <1> DEFINE f == [n \in 0..MaxLines |-> g[n]]
    <1>5. f = [n \in 0..MaxLines |-> IF n = 0 THEN Unread(in) ELSE AnotherLine(f[n - 1], name)]
        <2>1. ASSUME NEW n \in 0..MaxLines
              PROVE  g[n] = IF n = 0 THEN Unread(in) ELSE AnotherLine(f[n - 1], name)
            <3>1. CASE n = 0
                BY <1>4, <3>1
            <3>2. CASE n # 0
                <4>1. n - 1 \in 0..MaxLines /\ n \in 1..MaxLines
                    BY <1>1, <3>2
                <4>2. f[n - 1] = g[n - 1]
                    BY <4>1
                <4> HIDE DEF f
                <4> QED BY <1>4, <3>2, <4>1, <4>2
            <3> QED BY <3>1, <3>2
        <2> QED BY <2>1
    <1> QED BY <1>5 DEF Reads

LEMMA ReadBodyIs ==
    ASSUME NEW in, NEW name
    PROVE  \E f : Reads(f, in, name) /\ read_body(in, name) = f[MaxLines]
    <1> DEFINE f == CHOOSE g : Reads(g, in, name)
    <1>1. Reads(f, in, name)
        BY ReadsExists
    <1>2. read_body(in, name) = f[MaxLines]
        BY Zenon DEF read_body, Reads, Unread
    <1> QED BY <1>1, <1>2

BodyOK(b) ==
    /\ InputOK(b.in) /\ b.nest \in Int /\ b.body \in Seq(Line)
    /\ b.ended \in BOOLEAN /\ b.closed \in BOOLEAN
    /\ b = [in |-> b.in, nest |-> b.nest, body |-> b.body, ended |-> b.ended, closed |-> b.closed]

LEMMA AnotherLineType ==
    ASSUME NEW b, BodyOK(b), NEW name
    PROVE  BodyOK(AnotherLine(b, name))
    <1>1. PICK g : g = stack_gets(b.in)
        OBVIOUS
    <1>2. InputOK(g.in) /\ (g.line # EOF => g.line \in Line)
        BY <1>1, StackGetsType DEF BodyOK
    <1> DEFINE deeper == IF g.line.op \in Opens THEN b.nest + 1
                         ELSE IF g.line.op \in Closes THEN b.nest - 1 ELSE b.nest
               named == g.line.op = "endm" /\ name # "" /\ g.line.name = name
    <1>3. AnotherLine(b, name) =
            IF b.ended THEN b
            ELSE IF g.line = EOF THEN [b EXCEPT !.in = g.in, !.ended = TRUE]
            ELSE IF named \/ deeper = 0
            THEN [b EXCEPT !.in = g.in, !.ended = TRUE, !.closed = TRUE]
            ELSE [b EXCEPT !.in = g.in, !.nest = deeper, !.body = Append(@, g.line)]
        BY <1>1, Zenon DEF AnotherLine, WithLine
    <1>4. deeper \in Int
        BY DEF BodyOK
    <1> HIDE DEF deeper, named
    <1>5. b = [in |-> b.in, nest |-> b.nest, body |-> b.body, ended |-> b.ended,
               closed |-> b.closed]
        BY Zenon DEF BodyOK
    <1>6. CASE b.ended
        BY <1>3, <1>6
    <1>7. CASE ~b.ended /\ g.line = EOF
        <2>1. AnotherLine(b, name) = [in |-> g.in, nest |-> b.nest, body |-> b.body,
                                      ended |-> TRUE, closed |-> b.closed]
            BY <1>3, <1>5, <1>7
        <2> QED BY <1>2, <2>1 DEF BodyOK
    <1>8. CASE ~b.ended /\ g.line # EOF /\ (named \/ deeper = 0)
        <2>1. AnotherLine(b, name) = [in |-> g.in, nest |-> b.nest, body |-> b.body,
                                      ended |-> TRUE, closed |-> TRUE]
            BY <1>3, <1>5, <1>8
        <2> QED BY <1>2, <2>1 DEF BodyOK
    <1>9. CASE ~b.ended /\ g.line # EOF /\ ~(named \/ deeper = 0)
        <2>1. AnotherLine(b, name) = [in |-> g.in, nest |-> deeper, body |-> Append(b.body, g.line),
                                      ended |-> b.ended, closed |-> b.closed]
            BY <1>3, <1>5, <1>9
        <2>2. Append(b.body, g.line) \in Seq(Line)
            BY <1>2, <1>9, AppendProperties DEF BodyOK
        <2> QED BY <1>2, <1>4, <2>1, <2>2 DEF BodyOK
    <1> QED BY <1>6, <1>7, <1>8, <1>9

LEMMA ReadBodyType ==
    ASSUME NEW in, InputOK(in), NEW name
    PROVE  BodyOK(read_body(in, name))
    <1>1. PICK f : Reads(f, in, name) /\ read_body(in, name) = f[MaxLines]
        BY ReadBodyIs
    <1>2. \A n \in 0..MaxLines : f[n] = IF n = 0 THEN Unread(in) ELSE AnotherLine(f[n - 1], name)
        BY <1>1 DEF Reads
    <1> DEFINE S == {n \in Nat : n <= MaxLines => BodyOK(f[n])}
    <1>3. 0 \in S
        <2>1. f[0] = Unread(in)
            BY <1>2, BoundsAssumption
        <2>2. BodyOK(Unread(in))
            BY DEF BodyOK, Unread
        <2> QED BY <2>1, <2>2
    <1>4. ASSUME NEW n \in Nat, n \in S PROVE n + 1 \in S
        <2>1. SUFFICES ASSUME n + 1 <= MaxLines PROVE BodyOK(f[n + 1])
            OBVIOUS
        <2>2. n + 1 \in 0..MaxLines /\ n + 1 # 0 /\ (n + 1) - 1 = n /\ n <= MaxLines
            BY <2>1, BoundsAssumption
        <2>3. f[n + 1] = AnotherLine(f[n], name)
            BY <1>2, <2>2
        <2>4. BodyOK(f[n])
            BY <1>4, <2>2
        <2> QED BY <2>3, <2>4, AnotherLineType
    <1> HIDE DEF S
    <1>5. \A n \in Nat : n \in S
        BY <1>3, <1>4, LineFacts!SetInduction
    <1>6. BodyOK(f[MaxLines])
        BY <1>5, BoundsAssumption DEF S
    <1> QED BY <1>1, <1>6

-----------------------------------------------------------------------------
(* Type correctness, in parts: one for each group of variables that an     *)
(* operation changes or leaves alone.                                      *)
InputType == InputOK([stack |-> stack, conds |-> conds]) /\ suppressed \in Nat

SymbolType == \A k \in DOMAIN symbols : symbols[k] \in Symbol

MacroType == \A m \in DOMAIN macros : macros[m] \in Definition

BlockType ==
    /\ lsb \in Nat
    /\ \/ last_lsb = -1 /\ last_locsym = FirstNumber - 1
       \/ last_lsb \in 0..lsb /\ last_locsym \in FirstNumber..EndNumber
    /\ enabl_lsb \in BOOLEAN

SectionType ==
    /\ current \in SectionNames /\ pc \in [SectionNames -> Address]
    /\ size \in [SectionNames -> Address] /\ sect_sp \in -1..MaxSaved
    /\ \A i \in DOMAIN sect_stack : i \in 0..(MaxSaved - 1) /\ sect_stack[i] \in SectionNames

ResultType ==
    /\ phase \in {"reading", "done", "crashed", "undefined"} /\ pass \in {0, 1}
    /\ stmtno \in 0..(MaxStatements + 1) /\ reported \in BOOLEAN /\ count \in Nat

Types == InputType /\ SymbolType /\ MacroType /\ BlockType /\ SectionType /\ ResultType

LEMMA TypesAreParts == TypeOK <=> Types
    <1>1. InputType <=> /\ stack \in Seq(Stream) /\ conds \in Seq(BOOLEAN)
                        /\ Len(conds) <= MaxConds /\ suppressed \in Nat
        BY DEF InputType, InputOK
    <1> QED BY <1>1 DEF TypeOK, Types, SymbolType, MacroType, BlockType, SectionType, ResultType

(* What an operation leaves alone keeps its type.                          *)
LEMMA Kept ==
    /\ InputType /\ UNCHANGED inputVars => InputType'
    /\ SymbolType /\ UNCHANGED symbols => SymbolType'
    /\ MacroType /\ UNCHANGED macros => MacroType'
    /\ BlockType /\ UNCHANGED blockVars => BlockType'
    /\ SectionType /\ UNCHANGED sectionVars => SectionType'
    <1>1. InputType /\ UNCHANGED inputVars => InputType'
        BY DEF InputType, inputVars
    <1>2. SymbolType /\ UNCHANGED symbols => SymbolType'
        BY DEF SymbolType
    <1>3. MacroType /\ UNCHANGED macros => MacroType'
        BY DEF MacroType
    <1>4. BlockType /\ UNCHANGED blockVars => BlockType'
        BY DEF BlockType, blockVars
    <1>5. SectionType /\ UNCHANGED sectionVars => SectionType'
        BY DEF SectionType, sectionVars
    <1> QED BY <1>1, <1>2, <1>3, <1>4, <1>5

LEMMA IntoType ==
    ASSUME NEW in, InputOK(in), Into(in), InputType, UNCHANGED suppressed
    PROVE  InputType'
    BY DEF InputOK, Into, InputType

LEMMA EvaluateType ==
    ASSUME SymbolType, SectionType, NEW val \in Value
    PROVE  Evaluate(val) \in [type : {"lit", "sym", "global", "undefined"}, section : SectionNames,
                              value : Address]
    <1>1. val.off \in Int
        BY DEF Value
    <1>2. Abs \in SectionNames
        BY NamesAssumption
    <1> DEFINE At(section, value) ==
                   [type |-> IF section = Abs THEN "lit" ELSE "sym", section |-> section,
                    value |-> Host(value)]
               key == Key(val.sym)
    <1>3. Evaluate(val) =
            IF val.sym = "" THEN At(Abs, val.off)
            ELSE IF val.sym = "." THEN At(current, DOT + val.off)
            ELSE IF key \notin DOMAIN symbols
            THEN [type |-> "undefined", section |-> Abs, value |-> Host(val.off)]
            ELSE IF IsGlobalRef(symbols[key])
            THEN [type |-> "global", section |-> Abs,
                  value |-> Host(symbols[key].value + val.off)]
            ELSE At(symbols[key].section, symbols[key].value + val.off)
        BY Zenon DEF Evaluate
    <1> DEFINE R == [type : {"lit", "sym", "global", "undefined"}, section : SectionNames,
                     value : Address]
    <1>4. ASSUME NEW section \in SectionNames, NEW value \in Int PROVE At(section, value) \in R
        BY HostType
    <1>5. current \in SectionNames /\ DOT \in Int
        BY DEF SectionType, DOT, Address
    <1>6. key \in DOMAIN symbols => symbols[key].section \in SectionNames /\ symbols[key].value \in Int
        BY DEF SymbolType, Symbol, Address
    <1> HIDE DEF At, key
    <1>7. CASE val.sym \in {"", "."}
        <2>1. DOT + val.off \in Int
            BY <1>1, <1>5
        <2> QED BY <1>1, <1>2, <1>3, <1>4, <1>5, <1>7, <2>1, ZenonT(60)
    <1>8. CASE val.sym \notin {"", "."} /\ key \notin DOMAIN symbols
        <2>1. Host(val.off) \in Address
            BY <1>1, HostType
        <2>2. Evaluate(val) = [type |-> "undefined", section |-> Abs, value |-> Host(val.off)]
            BY <1>3, <1>8
        <2> QED BY <1>2, <2>1, <2>2
    <1>9. CASE val.sym \notin {"", "."} /\ key \in DOMAIN symbols
        <2>1. PICK v : v = symbols[key].value
            OBVIOUS
        <2>2. v \in Int /\ symbols[key].section \in SectionNames
            BY <1>6, <1>9, <2>1
        <2>3. v + val.off \in Int
            BY <1>1, <2>2
        <2>4. Host(v + val.off) \in Address
            BY <2>3, HostType
        <2>5. At(symbols[key].section, v + val.off) \in R
            BY <1>4, <2>2, <2>3
        <2>6. \/ Evaluate(val) = At(symbols[key].section, v + val.off)
              \/ Evaluate(val) = [type |-> "global", section |-> Abs, value |-> Host(v + val.off)]
            BY <1>3, <1>9, <2>1
        <2> QED BY <1>2, <2>4, <2>5, <2>6
    <1> QED BY <1>7, <1>8, <1>9

LEMMA AddSymType ==
    ASSUME SymbolType, NEW key, NEW value \in Address, NEW flags \in SUBSET Flags,
           NEW section \in SectionNames
    PROVE  \A k \in DOMAIN add_sym(key, value, flags, section).symbols :
              add_sym(key, value, flags, section).symbols[k] \in Symbol
    <1> DEFINE new == key \notin DOMAIN symbols
               old == symbols[key]
               define == "UNDEFINED" \in old.flags /\ "UNDEFINED" \notin flags
               had == IF define THEN old.flags \ {"PERMANENT", "UNDEFINED"} ELSE old.flags
               same == ~define /\ old.section = section /\ old.value = value
               ok == new \/ same \/ "PERMANENT" \notin had
               entry == [value |-> value, section |-> section,
                         flags |-> IF new THEN flags ELSE had \cup flags]
    <1>1. add_sym(key, value, flags, section).symbols =
             IF ok THEN With(symbols, key, entry) ELSE symbols
        BY Zenon DEF add_sym
    <1>2. entry \in Symbol
        BY DEF Symbol, SymbolType
    <1> HIDE DEF entry, ok
    <1>3. \A k \in DOMAIN With(symbols, key, entry) : With(symbols, key, entry)[k] \in Symbol
        BY <1>2 DEF With, SymbolType
    <1> QED BY <1>1, <1>3 DEF SymbolType

-----------------------------------------------------------------------------
(* Every operation keeps the types.  Taken: its line was read.             *)
Taken(l, in) ==
    /\ Types /\ InputOK(in) /\ l \in AnyLine
    /\ stmtno' \in 1..(MaxStatements + 1) /\ pass' = pass

LEMMA LineFields ==
    ASSUME NEW l \in AnyLine
    PROVE  /\ l.op \in STRING /\ l.name \in STRING /\ l.val \in Value /\ l.val.off \in Int
           /\ l.list \in Seq(STRING) /\ l.opt \in SUBSET STRING /\ l.rest \in Seq(Statement)
    BY DEF AnyLine, Value

LEMMA ChangeDotType ==
    ASSUME SectionType, NEW dot \in Address, change_dot(dot)
    PROVE  size' \in [SectionNames -> Address]
    BY DEF SectionType, change_dot

LEMMA LabelTypes ==
    ASSUME NEW l, NEW in, Taken(l, in), Label(l, in), UNCHANGED phase
    PROVE  Types'
    <1>1. InputType'
        BY IntoType DEF Taken, Types, Label
    <1>2. SymbolType'
        <2>1. DOT \in Address /\ current \in SectionNames
            BY DEF Taken, Types, SectionType, DOT
        <2>2. {"PERMANENT", "DEFINITION"} \cup (l.opt \cap {"GLOBAL"}) \in SUBSET Flags
            BY DEF Flags
        <2>3. symbols' = add_sym(Key(l.name), DOT, {"PERMANENT", "DEFINITION"} \cup (l.opt \cap {"GLOBAL"}),
                                 current).symbols
            BY DEF Label
        <2> QED BY <2>1, <2>2, <2>3, AddSymType DEF Taken, Types, SymbolType
    <1>3. MacroType' /\ SectionType'
        BY Kept DEF Taken, Types, Label
    <1>4. BlockType'
        BY DEF Taken, Types, BlockType, Label
    <1>5. ResultType'
        BY DEF Taken, Types, ResultType, Label, Report
    <1> QED BY <1>1, <1>2, <1>3, <1>4, <1>5 DEF Types

LEMMA AssignTypes ==
    ASSUME NEW l, NEW in, Taken(l, in), Assign(l, in), UNCHANGED phase
    PROVE  Types'
    <1>1. InputType'
        BY IntoType DEF Taken, Types, Assign
    <1>2. SymbolType'
        <2>1. PICK v : v = Evaluate(l.val)
            OBVIOUS
        <2>2. v.section \in SectionNames /\ v.value \in Address
            BY <2>1, EvaluateType, LineFields DEF Taken, Types
        <2> DEFINE simple == v.type \in {"lit", "sym"} \/ (v.type = "global" /\ l.val.off = 0)
                   flags == {"DEFINITION"} \cup (l.opt \cap {"PERMANENT"})
        <2>3. flags \in SUBSET Flags /\ {"UNDEFINED"} \in SUBSET Flags
            BY DEF Flags
        <2>4. Abs \in SectionNames /\ 0 \in Address
            BY NamesAssumption, ZeroType
        <2>5. \/ symbols' = add_sym(Key(l.name), v.value, flags, v.section).symbols
              \/ symbols' = add_sym(Key(l.name), 0, {"UNDEFINED"}, Abs).symbols
              \/ symbols' = symbols
            BY <2>1 DEF Assign
        <2> HIDE DEF flags
        <2>6. CASE symbols' = add_sym(Key(l.name), v.value, flags, v.section).symbols
            BY <2>2, <2>3, <2>6, AddSymType DEF Taken, Types, SymbolType
        <2>7. CASE symbols' = add_sym(Key(l.name), 0, {"UNDEFINED"}, Abs).symbols
            BY <2>3, <2>4, <2>7, AddSymType DEF Taken, Types, SymbolType
        <2>8. CASE symbols' = symbols
            BY <2>8, Kept DEF Taken, Types
        <2> QED BY <2>5, <2>6, <2>7, <2>8
    <1>3. MacroType' /\ SectionType' /\ BlockType'
        BY Kept DEF Taken, Types, Assign
    <1>5. ResultType'
        BY DEF Taken, Types, ResultType, Assign, Report, Fails
    <1> QED BY <1>1, <1>2, <1>3, <1>5 DEF Types

LEMMA OrgTypes ==
    ASSUME NEW l, NEW in, Taken(l, in), Org(l, in), UNCHANGED phase
    PROVE  Types'
    <1>1. InputType'
        BY IntoType DEF Taken, Types, Org
    <1>2. SymbolType' /\ MacroType' /\ BlockType'
        BY Kept DEF Taken, Types, Org
    <1>3. SectionType'
        <2>1. PICK v : v = Evaluate(l.val)
            OBVIOUS
        <2>2. v.value \in Address
            BY <2>1, EvaluateType, LineFields DEF Taken, Types
        <2>3. \/ pc' = [pc EXCEPT ![current] = v.value] /\ change_dot(v.value)
              \/ UNCHANGED <<pc, size>>
            BY <2>1 DEF Org
        <2>4. UNCHANGED <<current, sect_stack, sect_sp>>
            BY DEF Org
        <2>5. size' \in [SectionNames -> Address]
            BY <2>2, <2>3, ChangeDotType DEF Taken, Types, SectionType
        <2> QED BY <2>2, <2>3, <2>4, <2>5 DEF Taken, Types, SectionType
    <1>4. ResultType'
        BY DEF Taken, Types, ResultType, Org, Report, Fails
    <1> QED BY <1>1, <1>2, <1>3, <1>4 DEF Types

LEMMA BlkbTypes ==
    ASSUME NEW l, NEW in, Taken(l, in), Blkb(l, in), UNCHANGED phase
    PROVE  Types'
    <1>1. InputType'
        BY IntoType DEF Taken, Types, Blkb
    <1>2. SymbolType' /\ MacroType' /\ BlockType'
        BY Kept DEF Taken, Types, Blkb, symbolVars
    <1>3. SectionType'
        <2>1. PICK v : v = Evaluate(l.val)
            OBVIOUS
        <2>2. v.value \in Address
            BY <2>1, EvaluateType, LineFields DEF Taken, Types
        <2>3. PICK dot : dot = Host(DOT + v.value)
            OBVIOUS
        <2>4. DOT + v.value \in Int
            BY <2>2 DEF Taken, Types, SectionType, DOT, Address
        <2>5. dot \in Address
            BY <2>3, <2>4, HostType
        <2>6. \/ pc' = [pc EXCEPT ![current] = dot] /\ change_dot(dot)
              \/ UNCHANGED <<pc, size>>
            BY <2>1, <2>3 DEF Blkb
        <2>7. UNCHANGED <<current, sect_stack, sect_sp>>
            BY DEF Blkb
        <2>8. size' \in [SectionNames -> Address]
            BY <2>5, <2>6, ChangeDotType DEF Taken, Types, SectionType
        <2> QED BY <2>5, <2>6, <2>7, <2>8 DEF Taken, Types, SectionType
    <1>4. ResultType'
        BY DEF Taken, Types, ResultType, Blkb, Report, Fails
    <1> QED BY <1>1, <1>2, <1>3, <1>4 DEF Types

LEMMA EvenTypes ==
    ASSUME NEW l, NEW in, Taken(l, in), Even(l, in), UNCHANGED phase
    PROVE  Types'
    <1>1. InputType'
        BY IntoType DEF Taken, Types, Even
    <1>2. SymbolType' /\ MacroType' /\ BlockType'
        BY Kept DEF Taken, Types, Even, symbolVars
    <1>3. SectionType'
        <2>1. DOT \in Nat
            BY DEF Taken, Types, SectionType, DOT, Address
        <2>2. DOT + (DOT % 2) \in Int
            BY <2>1
        <2>3. Host(DOT + (DOT % 2)) \in Address
            BY <2>2, HostType
        <2> QED BY <2>3 DEF Taken, Types, SectionType, Even
    <1>4. ResultType'
        BY DEF Taken, Types, ResultType, Even, resultVars
    <1> QED BY <1>1, <1>2, <1>3, <1>4 DEF Types

LEMMA SectionTypes ==
    ASSUME NEW l, NEW in, Taken(l, in), Section(l, in), UNCHANGED phase
    PROVE  Types'
    <1>1. InputType'
        BY IntoType DEF Taken, Types, Section
    <1>2. SymbolType' /\ MacroType' /\ BlockType'
        BY Kept DEF Taken, Types, Section, symbolVars
    <1>3. SectionType'
        BY DEF Taken, Types, SectionType, Section
    <1>4. ResultType'
        BY DEF Taken, Types, ResultType, Section, resultVars
    <1> QED BY <1>1, <1>2, <1>3, <1>4 DEF Types

LEMMA SaveTypes ==
    ASSUME NEW l, NEW in, Taken(l, in), Save(l, in)
    PROVE  Types'
    <1>1. InputType'
        BY IntoType DEF Taken, Types, Save
    <1>2. SymbolType' /\ MacroType' /\ BlockType'
        BY Kept DEF Taken, Types, Save, symbolVars
    <1>3. SectionType'
        <2>1. CASE sect_sp + 1 < MaxSaved
            <3>1. sect_sp' = sect_sp + 1 /\ sect_stack' = With(sect_stack, sect_sp + 1, current)
                BY <2>1 DEF Save
            <3>2. UNCHANGED <<current, pc, size>>
                BY DEF Save
            <3>3. \A i \in DOMAIN sect_stack' :
                     i \in 0..(MaxSaved - 1) /\ sect_stack'[i] \in SectionNames
                BY <2>1, <3>1, BoundsAssumption DEF With, Taken, Types, SectionType
            <3>4. sect_sp' \in -1..MaxSaved
                BY <2>1, <3>1, BoundsAssumption DEF Taken, Types, SectionType
            <3> QED BY <3>2, <3>3, <3>4 DEF Taken, Types, SectionType
        <2>2. CASE ~(sect_sp + 1 < MaxSaved)
            BY <2>2, Kept DEF Taken, Types, Save, sectionVars
        <2> QED BY <2>1, <2>2
    <1>4. ResultType'
        BY DEF Taken, Types, ResultType, Save, resultVars
    <1> QED BY <1>1, <1>2, <1>3, <1>4 DEF Types

LEMMA RestoreTypes ==
    ASSUME NEW l, NEW in, Taken(l, in), Restore(l, in)
    PROVE  Types'
    <1>1. InputType'
        BY IntoType DEF Taken, Types, Restore
    <1>2. SymbolType' /\ MacroType' /\ BlockType'
        BY Kept DEF Taken, Types, Restore, symbolVars
    <1>3. SectionType'
        <2>1. CASE sect_sp \in DOMAIN sect_stack /\ sect_stack[sect_sp] # NoSection
            <3>1. /\ current' = sect_stack[sect_sp] /\ sect_sp' = sect_sp + 1
                  /\ UNCHANGED <<pc, size, sect_stack>>
                BY <2>1 DEF Restore
            <3>2. sect_sp \in 0..(MaxSaved - 1) /\ sect_stack[sect_sp] \in SectionNames
                BY <2>1 DEF Taken, Types, SectionType
            <3>3. sect_sp' \in -1..MaxSaved
                BY <3>1, <3>2, BoundsAssumption
            <3> QED BY <3>1, <3>2, <3>3 DEF Taken, Types, SectionType
        <2>2. CASE ~(sect_sp \in DOMAIN sect_stack /\ sect_stack[sect_sp] # NoSection)
            BY <2>2, Kept DEF Taken, Types, Restore, sectionVars
        <2> QED BY <2>1, <2>2
    <1>4. ResultType'
        BY DEF Taken, Types, ResultType, Restore, Report, Fails
    <1> QED BY <1>1, <1>2, <1>3, <1>4 DEF Types

LEMMA WordTypes ==
    ASSUME NEW l, NEW val \in Value, NEW in, Taken(l, in), Word(val, in), UNCHANGED phase
    PROVE  Types'
    <1>1. InputType'
        BY IntoType DEF Taken, Types, Word
    <1>2. SymbolType' /\ MacroType' /\ BlockType'
        BY Kept DEF Taken, Types, Word
    <1>3. SectionType'
        <2>1. PICK pad : pad = DOT % 2
            OBVIOUS
        <2>2. PICK at : at = Host(DOT + pad)
            OBVIOUS
        <2>3. PICK next : next = Host(at + 2)
            OBVIOUS
        <2>4. DOT \in Nat
            BY DEF Taken, Types, SectionType, DOT, Address
        <2>5. DOT + pad \in Int
            BY <2>1, <2>4
        <2>6. at + 2 \in Int
            BY <2>2, <2>5, HostType DEF Address
        <2>7. next \in Address
            BY <2>3, <2>6, HostType
        <2>8. pc' = [pc EXCEPT ![current] = next] /\ change_dot(next)
            BY <2>1, <2>2, <2>3 DEF Word
        <2>9. size' \in [SectionNames -> Address]
            BY <2>7, <2>8, ChangeDotType DEF Taken, Types
        <2>10. UNCHANGED <<current, sect_stack, sect_sp>>
            BY DEF Word
        <2> QED BY <2>7, <2>8, <2>9, <2>10 DEF Taken, Types, SectionType
    <1>4. ResultType'
        BY DEF Taken, Types, ResultType, Word, Report
    <1> QED BY <1>1, <1>2, <1>3, <1>4 DEF Types

(* The numbers of the local symbols of an expansion, and its lines.        *)
First == IF last_lsb # lsb THEN FirstNumber ELSE last_locsym
Missing(mac, actuals) == {i \in DOMAIN mac.args : ~(i <= Len(actuals)) /\ mac.args[i] \in mac.local}

LEMMA MissingFinite ==
    ASSUME NEW mac \in Definition, NEW actuals \in Seq(STRING)
    PROVE  /\ IsFiniteSet(Missing(mac, actuals)) /\ Cardinality(Missing(mac, actuals)) \in Nat
           /\ \A i : Cardinality({j \in Missing(mac, actuals) : j < i}) \in Nat
    <1>1. mac.args \in Seq(STRING)
        BY DEF Definition
    <1>2. DOMAIN mac.args = 1..Len(mac.args) /\ Len(mac.args) \in Nat
        BY <1>1, LenProperties
    <1>3. IsFiniteSet(1..Len(mac.args))
        BY <1>2, FS_Interval
    <1>4. Missing(mac, actuals) \in SUBSET (1..Len(mac.args))
        BY <1>2 DEF Missing
    <1>5. \A i : {j \in Missing(mac, actuals) : j < i} \in SUBSET (1..Len(mac.args))
        BY <1>4
    <1> QED BY <1>3, <1>4, <1>5, FS_Subset, FS_CardinalityType

LEMMA NoName == "" \in STRING
    BY NamesAssumption, Zenon

LEMMA NumbersType ==
    /\ GeneratedNames \in Seq(STRING) /\ MaxGenerated \in Nat
    /\ MaxGenerated = Len(GeneratedNames) /\ DOMAIN GeneratedNames = 1..MaxGenerated
    /\ FirstNumber \in Nat /\ FirstNumber > 0
    /\ EndNumber \in Nat /\ EndNumber = FirstNumber + MaxGenerated
    <1>1. GeneratedNames \in Seq(STRING)
        BY NamesAssumption
    <1>2. MaxGenerated \in Nat /\ DOMAIN GeneratedNames = 1..MaxGenerated
        BY <1>1, LenProperties DEF MaxGenerated
    <1>3. FirstNumber \in Nat /\ FirstNumber > 0
        BY SMT DEF FirstNumber
    <1> QED BY <1>1, <1>2, <1>3 DEF MaxGenerated, EndNumber

LEMMA FirstType ==
    ASSUME BlockType
    PROVE  First \in FirstNumber..EndNumber
    BY NumbersType DEF BlockType, First

LEMMA GeneratedNameType ==
    ASSUME NEW n \in Nat, n >= FirstNumber
    PROVE  GeneratedName(n) \in STRING
    <1>1. CASE n < EndNumber
        <2>1. n - FirstNumber + 1 \in 1..Len(GeneratedNames)
            BY <1>1, NumbersType
        <2>2. GeneratedNames[n - FirstNumber + 1] \in STRING
            BY <2>1, NumbersType, ElementOfSeq
        <2> QED BY <1>1, <2>2 DEF GeneratedName
    <1>2. CASE ~(n < EndNumber)
        <2>1. GeneratedName(n) = ""
            BY <1>2, Zenon DEF GeneratedName
        <2> QED BY <2>1, NoName, Zenon
    <1> QED BY <1>1, <1>2

LEMMA ExpandedBodyType ==
    ASSUME BlockType, NEW mac \in Definition, NEW actuals \in Seq(STRING)
    PROVE  /\ ExpandedBody(mac, actuals).lines \in Seq(Line)
           /\ ExpandedBody(mac, actuals).first = First
           /\ ExpandedBody(mac, actuals).next = First + Cardinality(Missing(mac, actuals))
           /\ First \in FirstNumber..EndNumber
           /\ Cardinality(Missing(mac, actuals)) \in Nat
    <1> DEFINE Number(i) == First + Cardinality({j \in Missing(mac, actuals) : j < i})
               Given(i) == IF i <= Len(actuals) THEN actuals[i]
                           ELSE IF i \in Missing(mac, actuals) THEN GeneratedName(Number(i)) ELSE ""
               ByName == [n \in Range(mac.args) |->
                             Given(CHOOSE i \in DOMAIN mac.args : mac.args[i] = n)]
    <1>1. ExpandedBody(mac, actuals) =
             [lines |-> subst_args(mac.body, ByName), first |-> First,
              next |-> First + Cardinality(Missing(mac, actuals))]
        BY Zenon DEF ExpandedBody, Expansion, First, Missing
    <1>2. First \in FirstNumber..EndNumber
        BY FirstType
    <1>3. mac.args \in Seq(STRING) /\ mac.body \in Seq(Line)
        BY DEF Definition
    <1>4. DOMAIN mac.args = 1..Len(mac.args) /\ Len(mac.args) \in Nat
        BY <1>3, LenProperties
    <1>5. \A i \in 1..Len(mac.args) : Given(i) \in STRING
        <2> TAKE i \in 1..Len(mac.args)
        <2>1. Len(actuals) \in Nat
            BY LenProperties
        <2>2. CASE i <= Len(actuals)
            <3>1. i \in 1..Len(actuals)
                BY <2>1, <2>2
            <3> QED BY <2>2, <3>1, ElementOfSeq
        <2>3. CASE ~(i <= Len(actuals))
            <3>1. PICK n : n = Cardinality({j \in Missing(mac, actuals) : j < i})
                OBVIOUS
            <3>2. n \in Nat
                BY <3>1, MissingFinite
            <3>3. First + n \in Nat /\ First + n >= FirstNumber
                BY <1>2, <3>2, NumbersType
            <3>4. GeneratedName(Number(i)) \in STRING
                BY <3>1, <3>3, GeneratedNameType
            <3>5. Given(i) = IF i \in Missing(mac, actuals) THEN GeneratedName(Number(i)) ELSE ""
                BY <2>3, Zenon
            <3> HIDE DEF Given, Number
            <3> QED BY <3>4, <3>5, NoName, Zenon
        <2> QED BY <2>2, <2>3
    <1> HIDE DEF Given
    <1>6. \A n \in DOMAIN ByName : ByName[n] \in STRING
        <2> TAKE n \in DOMAIN ByName
        <2>1. \E i \in DOMAIN mac.args : mac.args[i] = n
            BY DEF Range
        <2>2. (CHOOSE i \in DOMAIN mac.args : mac.args[i] = n) \in DOMAIN mac.args
            BY <2>1
        <2> QED BY <1>4, <1>5, <2>2
    <1> HIDE DEF ByName
    <1>7. subst_args(mac.body, ByName) \in Seq(Line)
        BY <1>3, <1>6, SubstType
    <1> QED BY <1>1, <1>2, <1>7, MissingFinite

LEMMA PushedType ==
    ASSUME NEW in, InputOK(in), NEW s \in Stream, stack' = <<s>> \o in.stack, conds' = in.conds,
           InputType, UNCHANGED suppressed
    PROVE  InputType'
    <1>1. <<s>> \o in.stack \in Seq(Stream)
        BY ConcatProperties DEF InputOK
    <1> QED BY <1>1 DEF InputOK, InputType

LEMMA CallTypes ==
    ASSUME NEW l, NEW in, Taken(l, in), Call(l, in), UNCHANGED phase
    PROVE  Types'
    <1>1. CASE Called(l)
        <2>1. PICK mac : mac = macros[l.name]
            OBVIOUS
        <2>2. mac \in Definition
            BY <1>1, <2>1 DEF Called, Taken, Types, MacroType
        <2>3. PICK e : e = ExpandedBody(mac, l.list)
            OBVIOUS
        <2>4. l.list \in Seq(STRING)
            BY LineFields DEF Taken
        <2>5. /\ e.lines \in Seq(Line)
              /\ e.next = First + Cardinality(Missing(mac, l.list))
              /\ First \in FirstNumber..EndNumber
              /\ Cardinality(Missing(mac, l.list)) \in Nat
            BY <2>2, <2>3, <2>4, ExpandedBodyType DEF Taken, Types
        <2>6. /\ e.next <= EndNumber
              /\ stack' = <<[kind |-> "macro", lines |-> e.lines, at |-> 1,
                             cond |-> Len(in.conds)]>> \o in.stack
              /\ conds' = in.conds
              /\ last_lsb' = lsb /\ last_locsym' = e.next
              /\ UNCHANGED <<suppressed, symbolVars, macros, lsb, enabl_lsb, sectionVars, resultVars>>
            BY <1>1, <2>1, <2>3, Zenon DEF Call
        <2>7. Len(in.conds) \in Nat
            BY LenProperties DEF Taken, InputOK
        <2> DEFINE s == [kind |-> "macro", lines |-> e.lines, at |-> 1, cond |-> Len(in.conds)]
        <2>8. s \in Stream
            <3>1. Len(e.lines) \in Nat
                BY <2>5, LenProperties
            <3> QED BY <2>5, <2>7, <3>1 DEF Stream, AnyStream
        <2> HIDE DEF s
        <2>9. InputType'
            BY <2>6, <2>8, PushedType DEF Taken, Types, s
        <2>10. BlockType'
            <3>2. e.next \in FirstNumber..EndNumber
                BY <2>5, <2>6, NumbersType
            <3> QED BY <2>6, <3>2 DEF Taken, Types, BlockType
        <2>11. SymbolType' /\ MacroType' /\ SectionType'
            BY <2>6, Kept DEF Taken, Types, symbolVars
        <2>12. ResultType'
            BY <2>6 DEF Taken, Types, ResultType, resultVars
        <2> QED BY <2>9, <2>10, <2>11, <2>12 DEF Types
    <1>2. CASE ~Called(l)
        <2>1. Word([sym |-> l.name, off |-> 0], in)
            BY <1>2, Zenon DEF Call
        <2>2. [sym |-> l.name, off |-> 0] \in Value
            BY LineFields DEF Taken, Value
        <2> QED BY <2>1, <2>2, WordTypes
    <1> QED BY <1>1, <1>2

LEMMA MexitTypes ==
    ASSUME NEW l, NEW in, Taken(l, in), Mexit(l, in), UNCHANGED phase
    PROVE  Types'
    <1>1. InputType'
        <2>1. PICK to : to = IF in.stack # <<>> /\ Head(in.stack).kind # "file"
                             THEN stack_pop(in, 1) ELSE in
            OBVIOUS
        <2>2. Into(to) /\ UNCHANGED suppressed
            BY <2>1 DEF Mexit
        <2>3. InputOK(to)
            <3>1. CASE in.stack # <<>>
                <4>1. in.stack \in Seq(Stream)
                    BY DEF Taken, InputOK
                <4>2. 1 \in 0..Len(in.stack)
                    BY <3>1, <4>1, EmptySeq
                <4>3. InputOK(stack_pop(in, 1))
                    BY <4>2, StackPopType DEF Taken
                <4> QED BY <2>1, <4>3 DEF Taken
            <3>2. CASE in.stack = <<>>
                BY <2>1, <3>2 DEF Taken
            <3> QED BY <3>1, <3>2
        <2> QED BY <2>2, <2>3, IntoType DEF Taken, Types
    <1>2. SymbolType' /\ MacroType' /\ BlockType' /\ SectionType'
        BY Kept DEF Taken, Types, Mexit, symbolVars
    <1>3. ResultType'
        BY DEF Taken, Types, ResultType, Mexit, Report, Fails
    <1> QED BY <1>1, <1>2, <1>3 DEF Types

LEMMA MacroTypes ==
    ASSUME NEW l, NEW in, Taken(l, in), Macro(l, in), UNCHANGED phase
    PROVE  Types'
    <1>1. PICK b : b = read_body(in, l.name)
        OBVIOUS
    <1>2. BodyOK(b)
        BY <1>1, ReadBodyType DEF Taken
    <1>3. InputType'
        BY <1>1, <1>2, IntoType DEF Taken, Types, Macro, BodyOK
    <1>4. MacroType'
        <2>1. PICK mac : mac = [args |-> l.list, local |-> l.opt, body |-> b.body, stmtno |-> stmtno']
            OBVIOUS
        <2>2. macros' = With(macros, l.name, mac)
            BY <1>1, <2>1 DEF Macro
        <2>3. mac \in Definition
            BY <1>2, <2>1, LineFields DEF Taken, Definition, BodyOK
        <2> QED BY <2>2, <2>3 DEF Taken, Types, MacroType, With
    <1>5. SymbolType' /\ BlockType' /\ SectionType'
        BY Kept DEF Taken, Types, Macro, symbolVars
    <1>6. ResultType'
        BY DEF Taken, Types, ResultType, Macro, Report
    <1> QED BY <1>3, <1>4, <1>5, <1>6 DEF Types

LEMMA ReptTypes ==
    ASSUME NEW l, NEW in, Taken(l, in), Rept(l, in)
    PROVE  Types'
    <1>1. PICK v : v = Evaluate(l.val)
        OBVIOUS
    <1>2. v.value \in Address
        BY <1>1, EvaluateType, LineFields DEF Taken, Types
    <1>3. PICK b : b = read_body(in, "")
        OBVIOUS
    <1>4. BodyOK(b)
        BY <1>3, ReadBodyType DEF Taken
    <1>5. UNCHANGED <<suppressed, symbolVars, macros, blockVars, sectionVars, stored>>
        BY DEF Rept
    <1>6. SymbolType' /\ MacroType' /\ BlockType' /\ SectionType'
        BY <1>5, Kept DEF Taken, Types, symbolVars
    <1>7. CASE v.type # "lit"
        <2>1. Into(in) /\ Report(TRUE) /\ Fails(TRUE) /\ UNCHANGED phase
            BY <1>1, <1>7 DEF Rept
        <2>2. InputType'
            BY <1>5, <2>1, IntoType DEF Taken, Types
        <2>3. ResultType'
            BY <2>1 DEF Taken, Types, ResultType, Report, Fails
        <2> QED BY <1>6, <2>2, <2>3 DEF Types
    <1>8. CASE v.type = "lit"
        <2> DEFINE s == [kind |-> "rept", lines |-> b.body, at |-> 1, count |-> v.value,
                         cond |-> Len(b.in.conds)]
        <2>1. /\ stack' = IF b.closed THEN <<s>> \o b.in.stack ELSE b.in.stack
              /\ conds' = b.in.conds
              /\ Report(~b.closed)
              /\ phase' = IF b.closed THEN phase ELSE "crashed"
              /\ UNCHANGED count
            BY <1>1, <1>3, <1>8 DEF Rept
        <2>2. s \in Stream
            <3>1. Len(b.body) \in Nat /\ Len(b.in.conds) \in Nat
                BY <1>4, LenProperties DEF BodyOK, InputOK
            <3> QED BY <1>2, <1>4, <3>1 DEF Stream, AnyStream, BodyOK
        <2> HIDE DEF s
        <2>3. InputOK(b.in) /\ InputType /\ UNCHANGED suppressed
            BY <1>4, <1>5 DEF BodyOK, Taken, Types
        <2>4. InputType'
            <3>1. CASE b.closed
                BY <2>1, <2>2, <2>3, <3>1, PushedType
            <3>2. CASE ~b.closed
                BY <2>1, <2>3, <3>2, IntoType DEF Into
            <3> QED BY <3>1, <3>2
        <2>5. ResultType'
            BY <2>1 DEF Taken, Types, ResultType, Report
        <2> QED BY <1>6, <2>4, <2>5 DEF Types
    <1> QED BY <1>7, <1>8

LEMMA IrpTypes ==
    ASSUME NEW l, NEW in, Taken(l, in), Irp(l, in)
    PROVE  Types'
    <1>3. PICK b : b = read_body(in, "")
        OBVIOUS
    <1>4. BodyOK(b)
        BY <1>3, ReadBodyType DEF Taken
    <1>5. UNCHANGED <<suppressed, symbolVars, macros, blockVars, sectionVars, stored, count>>
        BY DEF Irp
    <1>6. SymbolType' /\ MacroType' /\ BlockType' /\ SectionType'
        BY <1>5, Kept DEF Taken, Types, symbolVars
    <1> DEFINE s == [kind |-> "irp", lines |-> <<>>, at |-> 1, body |-> b.body, arg |-> l.name,
                     items |-> l.list, cond |-> Len(b.in.conds)]
    <1>7. /\ stack' = IF b.closed THEN <<s>> \o b.in.stack ELSE b.in.stack
          /\ conds' = b.in.conds
          /\ Report(~b.closed)
          /\ phase' = IF b.closed THEN phase ELSE "crashed"
        BY <1>3 DEF Irp
    <1>8. s \in Stream
        <2>1. Len(b.in.conds) \in Nat
            BY <1>4, LenProperties DEF BodyOK, InputOK
        <2>2. <<>> \in Seq(Line) /\ Len(<<>>) = 0
            BY EmptySeq
        <2>3. l.name \in STRING /\ l.list \in Seq(STRING) /\ b.body \in Seq(Line)
            BY <1>4, LineFields DEF BodyOK, Taken
        <2> QED BY <2>1, <2>2, <2>3 DEF Stream, AnyStream
    <1> HIDE DEF s
    <1>9. InputOK(b.in) /\ InputType /\ UNCHANGED suppressed
        BY <1>4, <1>5 DEF BodyOK, Taken, Types
    <1>10. InputType'
        <2>1. CASE b.closed
            BY <1>7, <1>8, <1>9, <2>1, PushedType
        <2>2. CASE ~b.closed
            BY <1>7, <1>9, <2>2, IntoType DEF Into
        <2> QED BY <2>1, <2>2
    <1>11. ResultType'
        BY <1>5, <1>7 DEF Taken, Types, ResultType, Report
    <1> QED BY <1>6, <1>10, <1>11 DEF Types

LEMMA ConditionType ==
    ASSUME NEW l, l.name \in Conditions
    PROVE  Condition(l) \in BOOLEAN
    <1>1. PICK w : w = Evaluate(l.val).value % 65536
        OBVIOUS
    <1>2. Condition(l) = CASE l.name = "DF"  -> eval_defined(l.val)
                           [] l.name = "NDF" -> ~eval_defined(l.val)
                           [] l.name = "EQ"  -> Evaluate(l.val).type = "lit" /\ w = 0
                           [] l.name = "NE"  -> Evaluate(l.val).type = "lit" /\ w # 0
        BY <1>1 DEF Condition
    <1> QED BY <1>2 DEF eval_defined, Conditions

LEMMA IfTypes ==
    ASSUME NEW l, NEW in, Taken(l, in), If(l, in)
    PROVE  Types'
    <1>1. Condition(l) \in BOOLEAN
        BY ConditionType DEF If
    <1>2. PICK c : c = Condition(l)
        OBVIOUS
    <1>3. /\ stack' = in.stack
          /\ IF Len(in.conds) < MaxConds
             THEN conds' = Append(in.conds, c) /\ UNCHANGED phase
             ELSE conds' = in.conds /\ phase' = "crashed"
          /\ suppressed' = IF c THEN 0 ELSE 1
        BY <1>2, Zenon DEF If
    <1>4. in.stack \in Seq(Stream) /\ in.conds \in Seq(BOOLEAN) /\ Len(in.conds) <= MaxConds
        BY DEF Taken, InputOK
    <1>5. Len(in.conds) \in Nat
        BY <1>4, LenProperties
    <1>6. Append(in.conds, c) \in Seq(BOOLEAN) /\ Len(Append(in.conds, c)) = Len(in.conds) + 1
        BY <1>1, <1>2, <1>4, AppendProperties
    <1>7. conds' \in Seq(BOOLEAN) /\ Len(conds') <= MaxConds
        BY <1>3, <1>4, <1>5, <1>6, BoundsAssumption, SMTT(60)
    <1>8. InputType'
        BY <1>3, <1>4, <1>7 DEF InputType, InputOK
    <1>9. SymbolType' /\ MacroType' /\ BlockType' /\ SectionType'
        BY Kept DEF Taken, Types, If, symbolVars
    <1>10. ResultType'
        BY DEF Taken, Types, ResultType, If, Report
    <1> QED BY <1>8, <1>9, <1>10 DEF Types

(* The statement on the rest of a line.                                    *)
LEMMA RestTaken ==
    ASSUME NEW l \in Line, NEW in, Taken(l, in), l.op = "iif"
    PROVE  Taken(l.rest[1], in)
    <1>1. PICK rest : rest = l.rest[1]
        OBVIOUS
    <1>2. rest \in Statement
        <2>1. l.rest \in Seq(Statement) /\ l.rest # <<>>
            BY LineFields DEF Line
        <2>2. 1 \in 1..Len(l.rest)
            BY <2>1, EmptySeq, LenProperties
        <2> QED BY <1>1, <2>1, <2>2, ElementOfSeq
    <1>3. rest \in AnyLine
        <2>1. <<>> \in Seq(Statement)
            BY EmptySeq
        <2> QED BY <1>2, <2>1 DEF Statement, AnyLine
    <1> QED BY <1>1, <1>3 DEF Taken

LEMMA IifTypes ==
    ASSUME NEW l \in Line, NEW in, Taken(l, in), Iif(l, in), UNCHANGED phase
    PROVE  Types'
    <1>1. CASE Condition(l)
        <2>1. PICK rest : rest = l.rest[1]
            OBVIOUS
        <2>2. \/ Call(rest, in) \/ Mexit(rest, in) \/ Assign(rest, in)
              \/ (rest.op = "word" /\ Word(rest.val, in))
            BY <1>1, <2>1 DEF Iif
        <2>5. Taken(rest, in)
            BY <2>1, RestTaken DEF Iif
        <2>6. rest.val \in Value
            BY <2>5, LineFields DEF Taken
        <2> QED BY <2>2, <2>5, <2>6, CallTypes, MexitTypes, AssignTypes, WordTypes
    <1>2. CASE ~Condition(l)
        <2>1. /\ Into(in) /\ Report(BadCondition(l))
              /\ UNCHANGED <<suppressed, symbolVars, macros, blockVars, sectionVars, stored, count>>
            BY <1>2 DEF Iif
        <2>2. InputType'
            BY <2>1, IntoType DEF Taken, Types
        <2>3. SymbolType' /\ MacroType' /\ BlockType' /\ SectionType'
            BY <2>1, Kept DEF Taken, Types, symbolVars
        <2>4. ResultType'
            BY <2>1 DEF Taken, Types, ResultType, Report, BadCondition
        <2> QED BY <2>2, <2>3, <2>4 DEF Types
    <1> QED BY <1>1, <1>2

LEMMA PartTypes ==
    ASSUME NEW l, NEW in, Taken(l, in), Part(l, in), UNCHANGED phase
    PROVE  Types'
    <1>1. InputType'
        <2>1. stack' = in.stack /\ conds' = in.conds /\ suppressed' \in Nat
            BY DEF Part, Into
        <2> QED BY <2>1 DEF Taken, InputType, InputOK
    <1>2. SymbolType' /\ MacroType' /\ BlockType' /\ SectionType'
        BY Kept DEF Taken, Types, Part, symbolVars
    <1>3. ResultType'
        BY DEF Taken, Types, ResultType, Part, Report, Fails
    <1> QED BY <1>1, <1>2, <1>3 DEF Types

LEMMA EndcTypes ==
    ASSUME NEW l, NEW in, Taken(l, in), Endc(l, in), UNCHANGED phase
    PROVE  Types'
    <1>1. in.conds \in Seq(BOOLEAN) /\ Len(in.conds) <= MaxConds /\ in.stack \in Seq(Stream)
        BY DEF Taken, InputOK
    <1>2. Len(in.conds) \in Nat
        BY <1>1, LenProperties
    <1>3. InputType'
        <2>1. /\ pop_cond(in.conds, Len(in.conds) - 1) \in Seq(BOOLEAN)
              /\ Len(pop_cond(in.conds, Len(in.conds) - 1)) <= Len(in.conds)
            BY <1>1, <1>2, PopCondType
        <2>2. Len(pop_cond(in.conds, Len(in.conds) - 1)) \in Nat
            BY <2>1, LenProperties
        <2>3. conds' = <<>> \/ conds' = pop_cond(in.conds, Len(in.conds) - 1)
            BY DEF Endc
        <2>4. conds' \in Seq(BOOLEAN) /\ Len(conds') <= MaxConds
            <3>1. CASE conds' = <<>>
                <4>1. <<>> \in Seq(BOOLEAN) /\ Len(<<>>) = 0
                    BY EmptySeq
                <4> QED BY <3>1, <4>1, BoundsAssumption
            <3>2. CASE conds' = pop_cond(in.conds, Len(in.conds) - 1)
                BY <1>1, <1>2, <2>1, <2>2, <3>2, BoundsAssumption
            <3> QED BY <2>3, <3>1, <3>2
        <2>5. stack' = in.stack /\ suppressed' = suppressed
            BY DEF Endc
        <2> QED BY <1>1, <2>4, <2>5 DEF Taken, Types, InputType, InputOK
    <1>4. SymbolType' /\ MacroType' /\ BlockType' /\ SectionType'
        BY Kept DEF Taken, Types, Endc, symbolVars
    <1>5. ResultType'
        BY DEF Taken, Types, ResultType, Endc, Report, Fails
    <1> QED BY <1>3, <1>4, <1>5 DEF Types

LEMMA EnablTypes ==
    ASSUME NEW l, NEW in, Taken(l, in), Enabl(l, in), UNCHANGED phase
    PROVE  Types'
    <1>1. InputType'
        BY IntoType DEF Taken, Types, Enabl
    <1>2. SymbolType' /\ MacroType' /\ SectionType'
        BY Kept DEF Taken, Types, Enabl, symbolVars
    <1>3. BlockType'
        <2>1. enabl_lsb' \in BOOLEAN
            BY DEF Enabl
        <2>2. lsb' \in {lsb, lsb + 1} /\ UNCHANGED <<last_lsb, last_locsym>>
            BY DEF Enabl
        <2> QED BY <2>1, <2>2 DEF Taken, Types, BlockType
    <1>4. ResultType'
        BY DEF Taken, Types, ResultType, Enabl, resultVars
    <1> QED BY <1>1, <1>2, <1>3, <1>4 DEF Types

LEMMA GloblTypes ==
    ASSUME NEW l, NEW in, Taken(l, in), Globl(l, in), UNCHANGED phase
    PROVE  Types'
    <1>1. InputType'
        BY IntoType DEF Taken, Types, Globl
    <1>2. MacroType' /\ BlockType' /\ SectionType'
        BY Kept DEF Taken, Types, Globl
    <1>3. SymbolType'
        <2>1. SymbolType
            BY DEF Taken, Types
        <2>2. CASE <<l.name>> \in DOMAIN symbols
            <3>1. symbols' = [symbols EXCEPT ![<<l.name>>].flags = @ \cup {"GLOBAL"}]
                BY <2>2 DEF Globl
            <3>2. symbols[<<l.name>>] \in Symbol
                BY <2>1, <2>2 DEF SymbolType
            <3>3. [symbols[<<l.name>>] EXCEPT !.flags = @ \cup {"GLOBAL"}] \in Symbol
                BY <3>2 DEF Symbol, Flags
            <3> QED BY <2>1, <3>1, <3>3 DEF SymbolType
        <2>3. CASE <<l.name>> \notin DOMAIN symbols
            <3>1. symbols' = add_sym(<<l.name>>, 0, {"GLOBAL"}, Abs).symbols
                BY <2>3 DEF Globl
            <3>2. {"GLOBAL"} \in SUBSET Flags
                BY DEF Flags
            <3>3. 0 \in Address /\ Abs \in SectionNames
                BY ZeroType, NamesAssumption
            <3> QED BY <2>1, <3>1, <3>2, <3>3, AddSymType DEF SymbolType
        <2> QED BY <2>2, <2>3
    <1>4. ResultType'
        BY DEF Taken, Types, ResultType, Globl, resultVars
    <1> QED BY <1>1, <1>2, <1>3, <1>4 DEF Types

LEMMA IgnoredTypes ==
    ASSUME NEW l, NEW in, Taken(l, in), Ignored(l, in), UNCHANGED phase
    PROVE  Types'
    <1>1. InputType'
        BY IntoType DEF Taken, Types, Ignored
    <1>2. SymbolType' /\ MacroType' /\ BlockType' /\ SectionType'
        BY Kept DEF Taken, Types, Ignored, symbolVars
    <1>3. ResultType'
        BY DEF Taken, Types, ResultType, Ignored, resultVars
    <1> QED BY <1>1, <1>2, <1>3 DEF Types

LEMMA SuppressedTypes ==
    ASSUME NEW l, NEW in, Taken(l, in), suppressed > 0, Suppressed(l, in)
    PROVE  Types'
    <1>1. in.conds \in Seq(BOOLEAN) /\ Len(in.conds) <= MaxConds /\ in.stack \in Seq(Stream)
        BY DEF Taken, InputOK
    <1>2. Len(in.conds) \in Nat
        BY <1>1, LenProperties
    <1>3. PICK ok : LET level == Level(l.op, suppressed, ok)
                        ends == l.op = "endc" /\ level = 0
                    IN /\ suppressed' = level
                       /\ stack' = in.stack
                       /\ conds' = IF ends /\ in.conds # <<>>
                                   THEN pop_cond(in.conds, Len(in.conds) - 1) ELSE in.conds
                       /\ phase' = IF ends /\ in.conds = <<>> THEN "undefined" ELSE phase
        BY Zenon DEF Suppressed
    <1>4. suppressed' \in {suppressed, suppressed + 1, suppressed - 1, 0}
        BY <1>3 DEF Level
    <1>5. suppressed' \in Nat
        BY <1>4 DEF Taken, Types, InputType
    <1>6. /\ pop_cond(in.conds, Len(in.conds) - 1) \in Seq(BOOLEAN)
          /\ Len(pop_cond(in.conds, Len(in.conds) - 1)) <= Len(in.conds)
        BY <1>1, <1>2, PopCondType
    <1>7. Len(pop_cond(in.conds, Len(in.conds) - 1)) \in Nat
        BY <1>6, LenProperties
    <1>8. /\ stack' = in.stack
          /\ conds' = in.conds \/ conds' = pop_cond(in.conds, Len(in.conds) - 1)
          /\ phase' = phase \/ phase' = "undefined"
        BY <1>3
    <1>9. conds' \in Seq(BOOLEAN) /\ Len(conds') <= MaxConds
        BY <1>1, <1>2, <1>6, <1>7, <1>8, BoundsAssumption
    <1>10. InputType'
        BY <1>1, <1>5, <1>8, <1>9 DEF InputType, InputOK
    <1>11. UNCHANGED <<symbolVars, macros, blockVars, sectionVars, resultVars>>
        BY DEF Suppressed
    <1>12. SymbolType' /\ MacroType' /\ BlockType' /\ SectionType'
        BY <1>11, Kept DEF Taken, Types, symbolVars
    <1>13. ResultType'
        BY <1>8, <1>11 DEF Taken, Types, ResultType, resultVars
    <1> QED BY <1>10, <1>12, <1>13 DEF Types

LEMMA BlankSection == "" \in SectionNames
    BY NamesAssumption, Zenon

LEMMA NoneSaved == -1 \in -1..MaxSaved
    BY BoundsAssumption

LEMMA InitTypes == Init => Types
    <1> SUFFICES ASSUME Init PROVE Types
        OBVIOUS
    <1>1. source \in Seq(Line)
        BY ProgramsAssumption DEF Init
    <1>2. FileStream(source) \in Stream
        <2>1. Len(source) \in Nat
            BY <1>1, LenProperties
        <2> QED BY <1>1, <2>1 DEF FileStream, Stream, AnyStream
    <1>3. InputType
        <2>1. stack = <<FileStream(source)>> /\ conds = <<>> /\ suppressed = 0
            BY DEF Init, Start
        <2>2. <<FileStream(source)>> \in Seq(Stream)
            BY <1>2
        <2>3. <<>> \in Seq(BOOLEAN) /\ Len(<<>>) = 0
            BY EmptySeq
        <2> QED BY <2>1, <2>2, <2>3, BoundsAssumption DEF InputType, InputOK
    <1>4. SymbolType /\ MacroType
        <2>1. symbols = <<>> /\ macros = <<>>
            BY DEF Init, Start
        <2>2. DOMAIN <<>> = {}
            OBVIOUS
        <2>3. DOMAIN symbols = {} /\ DOMAIN macros = {}
            BY <2>1, <2>2, Zenon
        <2> QED BY <2>3, Zenon DEF SymbolType, MacroType
    <1>5. BlockType
        BY DEF Init, Start, BlockType
    <1>6. SectionType
        <2>1. current = "" /\ sect_sp = -1 /\ sect_stack = <<>>
            BY DEF Init, Start
        <2>2. pc = [s \in SectionNames |-> 0] /\ size = [s \in SectionNames |-> 0]
            BY DEF Init, Start
        <2>3. DOMAIN <<>> = {}
            OBVIOUS
        <2>4. current \in SectionNames /\ DOMAIN sect_stack = {}
            BY <2>1, <2>3, BlankSection, Zenon
        <2>5. sect_sp \in -1..MaxSaved
            BY <2>1, NoneSaved, Zenon
        <2>6. pc \in [SectionNames -> Address] /\ size \in [SectionNames -> Address]
            BY <2>2, ZeroType
        <2> QED BY <2>4, <2>5, <2>6, Zenon DEF SectionType
    <1>7. ResultType
        <2>1. /\ pass = 0 /\ phase = "reading" /\ stmtno = 0 /\ reported = FALSE /\ count = 0
            BY DEF Init, Start
        <2>2. 0 \in 0..(MaxStatements + 1) /\ 0 \in Nat
            BY BoundsAssumption
        <2> QED BY <2>1, <2>2, Zenon DEF ResultType
    <1> QED BY <1>3, <1>4, <1>5, <1>6, <1>7 DEF Types

(* A statement: what was read is a line, and it is obeyed.                 *)
LEMMA AssembleTaken ==
    ASSUME Types, assemble
    PROVE  \E l, in :
              /\ l \in Line
              /\ Taken(l, in) /\ l = stack_gets(Input).line /\ in = stack_gets(Input).in
              /\ IF suppressed > 0 THEN Suppressed(l, in) ELSE Assembled(l, in)
              /\ stmtno' = stmtno + (IF suppressed = 0 /\ l.op = "iif" THEN 2 ELSE 1)
    <1>1. PICK g : g = stack_gets(Input)
        OBVIOUS
    <1>2. InputOK(Input)
        BY DEF Types, InputType, Input
    <1>3. InputOK(g.in) /\ (g.line # EOF => g.line \in Line)
        BY <1>1, <1>2, StackGetsType
    <1>4. /\ phase = "reading" /\ stmtno < MaxStatements
          /\ g.line # EOF
          /\ stmtno' = stmtno + (IF suppressed = 0 /\ g.line.op = "iif" THEN 2 ELSE 1)
          /\ IF suppressed > 0 THEN Suppressed(g.line, g.in) ELSE Assembled(g.line, g.in)
          /\ UNCHANGED <<source, pass, directory>>
        BY <1>1, Zenon DEF assemble
    <1>5. stmtno' \in 1..(MaxStatements + 1)
        BY <1>4, BoundsAssumption DEF Types, ResultType
    <1>6. Taken(g.line, g.in)
        BY <1>3, <1>4, <1>5 DEF Taken, Line
    <1> QED BY <1>1, <1>3, <1>4, <1>6

LEMMA AssembleTypes ==
    ASSUME Types, assemble
    PROVE  Types'
    <1>1. PICK l, in :
              /\ l \in Line /\ Taken(l, in)
                                /\ IF suppressed > 0 THEN Suppressed(l, in) ELSE Assembled(l, in)
        BY AssembleTaken
    <1>2. CASE suppressed > 0
        BY <1>1, <1>2, SuppressedTypes
    <1>3. CASE ~(suppressed > 0)
        <2>1. Assembled(l, in)
            BY <1>1, <1>3
        <2>2. l.val \in Value
            BY <1>1, LineFields DEF Line
        <2>3. CASE /\ \/ Label(l, in) \/ Assign(l, in) \/ Org(l, in) \/ Blkb(l, in) \/ Even(l, in)
                      \/ Section(l, in)
                   /\ UNCHANGED phase
            BY <1>1, <2>3, LabelTypes, AssignTypes, OrgTypes, BlkbTypes, EvenTypes, SectionTypes
        <2>4. CASE /\ \/ l.op = "word" /\ Word(l.val, in)
                      \/ Call(l, in) \/ Mexit(l, in) \/ Macro(l, in)
                   /\ UNCHANGED phase
            BY <1>1, <2>2, <2>4, WordTypes, CallTypes, MexitTypes, MacroTypes
        <2>5. CASE /\ \/ Iif(l, in) \/ Part(l, in) \/ Endc(l, in)
                      \/ Enabl(l, in) \/ Globl(l, in) \/ Ignored(l, in)
                   /\ UNCHANGED phase
            BY <1>1, <2>5, IifTypes, PartTypes, EndcTypes, EnablTypes, GloblTypes, IgnoredTypes
        <2>6. CASE Save(l, in) \/ Restore(l, in) \/ Rept(l, in) \/ Irp(l, in) \/ If(l, in)
            BY <1>1, <2>6, SaveTypes, RestoreTypes, ReptTypes, IrpTypes, IfTypes
        <2> QED BY <2>1, <2>3, <2>4, <2>5, <2>6, Zenon DEF Assembled
    <1> QED BY <1>2, <1>3

LEMMA SecondPassTypes ==
    ASSUME Types, SecondPass, source \in Seq(Line)
    PROVE  Types'
    <1>1. FileStream(source) \in Stream
        <2>1. Len(source) \in Nat
            BY LenProperties
        <2> QED BY <2>1 DEF FileStream, Stream, AnyStream
    <1>2. InputType'
        <2>1. stack' = <<FileStream(source)>> /\ conds' = <<>> /\ suppressed' = 0
            BY DEF SecondPass
        <2>2. <<FileStream(source)>> \in Seq(Stream)
            BY <1>1
        <2>3. <<>> \in Seq(BOOLEAN) /\ Len(<<>>) = 0
            BY EmptySeq
        <2> QED BY <2>1, <2>2, <2>3, BoundsAssumption DEF InputType, InputOK
    <1>3. SymbolType'
        <2>1. symbols' = [k \in DOMAIN symbols \cup implicit |->
                             IF k \in DOMAIN symbols THEN symbols[k]
                             ELSE [value |-> 0, section |-> Abs, flags |-> {"GLOBAL"}]]
            BY DEF SecondPass, migrate_implicit
        <2>2. [value |-> 0, section |-> Abs, flags |-> {"GLOBAL"}] \in Symbol
            BY ZeroType, NamesAssumption DEF Symbol, Flags
        <2> QED BY <2>1, <2>2 DEF Types, SymbolType
    <1>4. MacroType'
        BY Kept DEF Types, SecondPass
    <1>5. BlockType'
        BY DEF Types, BlockType, SecondPass, RestartedBlocks
    <1>6. SectionType'
        <2>1. UNCHANGED <<size, sect_stack>> /\ current' = "" /\ sect_sp' = -1
              /\ pc' = [s \in DOMAIN pc |-> 0]
            BY DEF SecondPass
        <2>2. SectionType
            BY DEF Types
        <2>3. DOMAIN pc = SectionNames /\ size \in [SectionNames -> Address]
              /\ \A i \in DOMAIN sect_stack : i \in 0..(MaxSaved - 1)
                                               /\ sect_stack[i] \in SectionNames
            BY <2>2 DEF SectionType
        <2>4. current' \in SectionNames
            BY <2>1, BlankSection, Zenon
        <2>5. sect_sp' \in -1..MaxSaved
            BY <2>1, NoneSaved, Zenon
        <2>6. pc' \in [SectionNames -> Address]
            BY <2>1, <2>3, ZeroType
        <2> QED BY <2>1, <2>3, <2>4, <2>5, <2>6 DEF SectionType
    <1>7. ResultType'
        <2>1. /\ UNCHANGED <<phase, reported>> /\ pass' = 1 /\ stmtno' = 0 /\ count' = 0
            BY DEF SecondPass
        <2>2. 0 \in 0..(MaxStatements + 1) /\ 0 \in Nat
            BY BoundsAssumption
        <2>3. phase \in {"reading", "done", "crashed", "undefined"} /\ reported \in BOOLEAN
            BY DEF Types, ResultType
        <2> QED BY <2>1, <2>2, <2>3, Zenon DEF ResultType
    <1> QED BY <1>2, <1>3, <1>4, <1>5, <1>6, <1>7 DEF Types

LEMMA FinishTypes ==
    ASSUME Types, Finish
    PROVE  Types'
    <1>1. InputType'
        <2>1. stack' = <<>> /\ conds' = <<>> /\ suppressed' = suppressed
            BY DEF Finish
        <2>2. /\ <<>> \in Seq(BOOLEAN) /\ Len(<<>>) = 0
              /\ <<>> \in Seq(Stream)
            BY EmptySeq
        <2> QED BY <2>1, <2>2, BoundsAssumption DEF Types, InputType, InputOK
    <1>2. SymbolType' /\ MacroType' /\ BlockType' /\ SectionType'
        BY Kept DEF Types, Finish, symbolVars
    <1>3. ResultType'
        <2>1. PICK open : open = stack_gets(Input).in.conds
            OBVIOUS
        <2>2. count' = count + Len(open) /\ reported' = (reported \/ open # <<>>)
            BY <2>1 DEF Finish
        <2>3. open \in Seq(BOOLEAN)
            BY <2>1, StackGetsType DEF Types, InputType, Input, InputOK
        <2>4. Len(open) \in Nat
            BY <2>3, LenProperties
        <2>5. phase' = "done" /\ UNCHANGED <<pass, stmtno>>
            BY DEF Finish
        <2> QED BY <2>2, <2>4, <2>5 DEF Types, ResultType
    <1> QED BY <1>1, <1>2, <1>3 DEF Types

LEMMA TypesKept ==
    ASSUME Types, source \in Seq(Line), [Next]_vars
    PROVE  Types'
    <1>1. CASE assemble
        BY <1>1, AssembleTypes
    <1>2. CASE SecondPass
        BY <1>2, SecondPassTypes
    <1>3. CASE Finish
        BY <1>3, FinishTypes
    <1>4. CASE UNCHANGED vars
        <2>1. UNCHANGED <<inputVars, symbolVars, macros, blockVars, sectionVars, resultVars,
                          passVars, stmtno>>
            BY <1>4 DEF vars
        <2>2. UNCHANGED symbols /\ UNCHANGED <<pass, phase, stmtno, reported, count>>
            BY <2>1 DEF symbolVars, passVars, resultVars
        <2> QED BY <2>1, <2>2, Kept DEF Types, ResultType
    <1> QED BY <1>1, <1>2, <1>3, <1>4 DEF Next

SourceOK == source \in Seq(Line)

LEMMA SourceKept == SourceOK /\ [Next]_vars => SourceOK'
    BY DEF SourceOK, Next, assemble, SecondPass, Finish, vars, passVars

(* The state of the assembler is well-typed: all addresses, sizes and      *)
(* values are in an unsigned of the host, all streams stand inside of their*)
(* lines or at their end, and no stack leaves its array.                   *)
THEOREM TypeCorrect == Spec => []TypeOK
    <1>1. Init => Types /\ SourceOK
        BY InitTypes, ProgramsAssumption DEF Init, SourceOK
    <1>2. Types /\ SourceOK /\ [Next]_vars => (Types /\ SourceOK)'
        BY TypesKept, SourceKept DEF SourceOK
    <1>3. Types => TypeOK
        BY TypesAreParts
    <1> QED BY <1>1, <1>2, <1>3, PTL DEF Spec

-----------------------------------------------------------------------------
(* The traces: every statement adds one entry to that of the present pass. *)
IsSeq(s) == s \in Seq({s[i] : i \in DOMAIN s})

LEMMA AppendIs ==
    ASSUME NEW s, IsSeq(s), NEW e
    PROVE  /\ Len(s) \in Nat /\ DOMAIN s = 1..Len(s)
           /\ IsSeq(Append(s, e)) /\ Len(Append(s, e)) = Len(s) + 1
           /\ DOMAIN Append(s, e) = 1..(Len(s) + 1)
           /\ \A i \in 1..Len(s) : Append(s, e)[i] = s[i]
           /\ Append(s, e)[Len(s) + 1] = e
    <1> DEFINE S == {s[i] : i \in DOMAIN s} \cup {e}
    <1>1. s \in Seq({s[i] : i \in DOMAIN s})
        BY DEF IsSeq
    <1>2. Len(s) \in Nat /\ DOMAIN s = 1..Len(s)
        BY <1>1, LenProperties
    <1>3. s \in Seq(S)
        <2>1. s \in [1..Len(s) -> S]
            BY <1>1, <1>2, LenProperties
        <2> QED BY <1>2, <2>1, SeqOfFunction
    <1> HIDE DEF S
    <1>4. e \in S
        BY DEF S
    <1>5. /\ Append(s, e) \in Seq(S) /\ Len(Append(s, e)) = Len(s) + 1
          /\ \A i \in 1..Len(s) : Append(s, e)[i] = s[i]
          /\ Append(s, e)[Len(s) + 1] = e
        BY <1>3, <1>4, AppendProperties
    <1>6. DOMAIN Append(s, e) = 1..(Len(s) + 1)
        BY <1>5, LenProperties
    <1>7. IsSeq(Append(s, e))
        <2> DEFINE t == Append(s, e)
                   T == {t[i] : i \in DOMAIN t}
        <2>1. t \in [1..(Len(s) + 1) -> T]
            <3>1. \A i \in DOMAIN t : t[i] \in T
                OBVIOUS
            <3>2. t = [i \in DOMAIN t |-> t[i]]
                <4>1. t \in [1..Len(t) -> S]
                    BY <1>5, LenProperties
                <4> QED BY <4>1
            <3> HIDE DEF t, T
            <3> QED BY <1>6, <3>1, <3>2 DEF t
        <2>2. Len(s) + 1 \in Nat
            BY <1>2
        <2> HIDE DEF t, T
        <2>3. t \in Seq(T)
            BY <2>1, <2>2, SeqOfFunction
        <2> QED BY <2>3 DEF t, T, IsSeq
    <1> QED BY <1>2, <1>5, <1>6, <1>7

TracesOK ==
    /\ traces = [p \in {0, 1} |-> traces[p]]
    /\ \A p \in {0, 1} : IsSeq(traces[p])
    /\ pass \in {0, 1}
    /\ pass = 0 => traces[1] = <<>>

(* A trace with another entry.                                             *)
LEMMA NoteIs ==
    ASSUME TracesOK, NEW e, Note(e), pass' = pass
    PROVE  /\ TracesOK'
           /\ traces'[pass] = Append(traces[pass], e)
           /\ \A p \in {0, 1} : p # pass => traces'[p] = traces[p]
    <1>1. pass \in {0, 1} /\ IsSeq(traces[pass])
        BY DEF TracesOK
    <1>2. traces'[pass] = Append(traces[pass], e)
        BY <1>1 DEF TracesOK, Note
    <1>3. \A p \in {0, 1} : p # pass => traces'[p] = traces[p]
        BY DEF TracesOK, Note
    <1>4. IsSeq(traces'[pass])
        BY <1>1, <1>2, AppendIs
    <1>5. traces' = [p \in {0, 1} |-> traces'[p]]
        BY DEF TracesOK, Note
    <1>6. \A p \in {0, 1} : IsSeq(traces'[p])
        BY <1>3, <1>4 DEF TracesOK
    <1>7. pass' = 0 => traces'[1] = <<>>
        BY <1>3 DEF TracesOK
    <1> QED BY <1>1, <1>2, <1>3, <1>5, <1>6, <1>7 DEF TracesOK

(* Of the local symbols of macros, a statement other than a call changes   *)
(* the block at most.                                                      *)
Quiet(e) ==
    /\ Note(e) /\ e[1] # "call"
    /\ UNCHANGED <<last_lsb, last_locsym>> /\ lsb' \in {lsb, lsb + 1}

Calls(e) ==
    \E name, n : /\ Note(e) /\ e = <<"call", name, lsb, First .. n - 1>>
                 /\ n \in Nat /\ First <= n
                 /\ last_lsb' = lsb /\ last_locsym' = n /\ lsb' = lsb

LEMMA WordQuiet ==
    ASSUME NEW val, NEW in, Word(val, in)
    PROVE  \E e : Quiet(e)
    <1>1. \E at : Note(<<"word", val, current, at>>)
        BY Zenon DEF Word
    <1>2. PICK at : Note(<<"word", val, current, at>>)
        BY <1>1
    <1>3. UNCHANGED blockVars
        BY DEF Word
    <1>4. Quiet(<<"word", val, current, at>>)
        BY <1>2, <1>3 DEF Quiet, blockVars
    <1> QED BY <1>4

LEMMA CallCalls ==
    ASSUME NEW l, NEW in, Taken(l, in), Call(l, in)
    PROVE  \E e : Quiet(e) \/ Calls(e)
    <1>1. CASE Called(l)
        <2>1. PICK mac : mac = macros[l.name]
            OBVIOUS
        <2>2. mac \in Definition
            BY <1>1, <2>1 DEF Called, Taken, Types, MacroType
        <2>3. PICK e : e = ExpandedBody(mac, l.list)
            OBVIOUS
        <2>4. l.list \in Seq(STRING)
            BY LineFields DEF Taken
        <2>5. /\ e.first = First
              /\ e.next = First + Cardinality(Missing(mac, l.list))
              /\ First \in FirstNumber..EndNumber
              /\ Cardinality(Missing(mac, l.list)) \in Nat
            BY <2>2, <2>3, <2>4, ExpandedBodyType DEF Taken, Types
        <2>6. /\ Note(<<"call", l.name, lsb, e.first .. e.next - 1>>)
              /\ last_lsb' = lsb /\ last_locsym' = e.next /\ lsb' = lsb
            BY <1>1, <2>1, <2>3, Zenon DEF Call
        <2>7. e.next \in Nat /\ First <= e.next
            BY <2>5, NumbersType
        <2>8. Calls(<<"call", l.name, lsb, e.first .. e.next - 1>>)
            BY <2>5, <2>6, <2>7 DEF Calls
        <2> QED BY <2>8
    <1>2. CASE ~Called(l)
        BY <1>2, WordQuiet DEF Call
    <1> QED BY <1>1, <1>2

LEMMA AssembleCalls ==
    ASSUME Types, assemble
    PROVE  \E e : Quiet(e) \/ Calls(e)
    <1> USE DEF Quiet, blockVars, inputVars
    <1>1. PICK l, in :
              /\ l \in Line
              /\ Taken(l, in)
              /\ IF suppressed > 0 THEN Suppressed(l, in) ELSE Assembled(l, in)
        BY AssembleTaken
    <1>2. CASE suppressed > 0
        BY <1>1, <1>2 DEF Suppressed
    <1>3. CASE Label(l, in)
        BY <1>3 DEF Label, Taken, Types, BlockType
    <1>4. CASE Assign(l, in)
        BY <1>4 DEF Assign
    <1>5. CASE Org(l, in)
        BY <1>5 DEF Org
    <1>6. CASE Blkb(l, in)
        BY <1>6 DEF Blkb
    <1>7. CASE Even(l, in)
        BY <1>7 DEF Even
    <1>8. CASE Section(l, in)
        BY <1>8 DEF Section
    <1>9. CASE Word(l.val, in)
        BY <1>9, WordQuiet
    <1>10. CASE Call(l, in)
        BY <1>1, <1>10, CallCalls
    <1>11. CASE Mexit(l, in)
        BY <1>11 DEF Mexit
    <1>12. CASE Macro(l, in)
        BY <1>12 DEF Macro
    <1>13. CASE Iif(l, in)
        <2>1. CASE Condition(l)
            <3>1. PICK rest : rest = l.rest[1]
                OBVIOUS
            <3>2. \/ Call(rest, in) \/ Mexit(rest, in) \/ Assign(rest, in)
                  \/ Word(rest.val, in)
                BY <1>13, <2>1, <3>1 DEF Iif
            <3>3. Taken(rest, in)
                BY <1>1, <1>13, <3>1, RestTaken DEF Iif
            <3>4. CASE Mexit(rest, in)
                BY <3>4 DEF Mexit
            <3>5. CASE Assign(rest, in)
                BY <3>5 DEF Assign
            <3> QED BY <3>2, <3>3, <3>4, <3>5, CallCalls, WordQuiet
        <2>2. CASE ~Condition(l)
            BY <1>13, <2>2 DEF Iif
        <2> QED BY <2>1, <2>2
    <1>14. CASE Part(l, in)
        BY <1>14 DEF Part
    <1>15. CASE Endc(l, in)
        BY <1>15 DEF Endc
    <1>16. CASE Enabl(l, in)
        BY <1>16 DEF Enabl
    <1>17. CASE Globl(l, in)
        BY <1>17 DEF Globl
    <1>18. CASE Ignored(l, in)
        BY <1>18 DEF Ignored, Closes
    <1>19. CASE Save(l, in)
        BY <1>19 DEF Save
    <1>20. CASE Restore(l, in)
        BY <1>20 DEF Restore
    <1>21. CASE Rept(l, in)
        BY <1>21 DEF Rept
    <1>22. CASE Irp(l, in)
        BY <1>22 DEF Irp
    <1>23. CASE If(l, in)
        BY <1>23 DEF If
    <1> QED BY <1>1, <1>2, <1>3, <1>4, <1>5, <1>6, <1>7, <1>8, <1>9, <1>10, <1>11, <1>12, <1>13,
               <1>14, <1>15, <1>16, <1>17, <1>18, <1>19, <1>20, <1>21, <1>22, <1>23, Zenon
            DEF Assembled

(* The blocks of local symbols in the trace of the present pass: the last  *)
(* that a call used is last_lsb, and its numbers stop short of last_locsym.*)
CallsOrdered ==
    \A i \in Entries(pass, "call") :
        LET a == traces[pass][i]
        IN /\ last_lsb \in Nat /\ a[3] \in 0..last_lsb /\ a[4] \in SUBSET Nat
           /\ a[3] = last_lsb => \A n \in a[4] : n < last_locsym

CallsOK == TracesOK /\ CallsOrdered /\ GeneratedOnce

LEMMA AssembleCallsOK ==
    ASSUME Types, CallsOK, assemble
    PROVE  CallsOK'
    <1>1. pass' = pass /\ pass \in {0, 1}
        BY DEF assemble, CallsOK, TracesOK
    <1>2. PICK e : Quiet(e) \/ Calls(e)
        BY AssembleCalls
    <1>3. /\ TracesOK' /\ traces'[pass] = Append(traces[pass], e)
        BY <1>1, <1>2, NoteIs DEF CallsOK, Quiet, Calls
    <1> DEFINE old == traces[pass]
               new == traces'[pass]
    <1>4. /\ Len(old) \in Nat /\ DOMAIN old = 1..Len(old)
          /\ DOMAIN new = 1..(Len(old) + 1)
          /\ \A i \in 1..Len(old) : new[i] = old[i]
          /\ new[Len(old) + 1] = e
        BY <1>1, <1>3, AppendIs DEF CallsOK, TracesOK
    <1>5. Entries(pass, "call") = {i \in 1..Len(old) : old[i][1] = "call"}
        BY <1>4 DEF Entries
    <1>6. Entries(pass, "call")' = {i \in 1..(Len(old) + 1) : new[i][1] = "call"}
        BY <1>1, <1>4 DEF Entries
    <1> HIDE DEF old, new
    <1>7. CASE Quiet(e)
        <2>1. e[1] # "call" /\ UNCHANGED <<last_lsb, last_locsym>>
            BY <1>7 DEF Quiet
        <2>2. Entries(pass, "call")' = Entries(pass, "call")
            <3>1. 1..(Len(old) + 1) = 1..Len(old) \cup {Len(old) + 1}
                BY <1>4
            <3>2. new[Len(old) + 1][1] # "call" /\ Len(old) + 1 \notin 1..Len(old)
                BY <1>4, <2>1
            <3> QED BY <1>4, <1>5, <1>6, <3>1, <3>2, Zenon
        <2>3. \A i \in Entries(pass, "call") : new[i] = old[i]
            BY <1>4, <1>5
        <2>4. CallsOrdered'
            BY <1>1, <2>1, <2>2, <2>3 DEF CallsOK, CallsOrdered, old, new
        <2>5. GeneratedOnce'
            BY <1>1, <2>2, <2>3 DEF CallsOK, GeneratedOnce, old, new
        <2> QED BY <1>3, <2>4, <2>5 DEF CallsOK
    <1>8. CASE Calls(e)
        <2>1. PICK name, n : /\ e = <<"call", name, lsb, First .. n - 1>>
                             /\ n \in Nat /\ First <= n
                             /\ last_lsb' = lsb /\ last_locsym' = n /\ lsb' = lsb
            BY <1>8 DEF Calls
        <2>2. /\ lsb \in Nat /\ First \in FirstNumber..EndNumber /\ FirstNumber \in Nat
              /\ last_lsb = -1 \/ last_lsb \in 0..lsb
            BY FirstType, NumbersType DEF Types, BlockType
        <2>3. e[1] = "call" /\ e[3] = lsb /\ e[4] = First .. n - 1
            BY <2>1
        <2>4. Entries(pass, "call")' = Entries(pass, "call") \cup {Len(old) + 1}
            BY <1>4, <1>5, <1>6, <2>3
        <2>5. \A i \in Entries(pass, "call") : new[i] = old[i] /\ i # Len(old) + 1
            BY <1>4, <1>5
        <2>6. First .. n - 1 \in SUBSET Nat /\ \A m \in First .. n - 1 : First <= m /\ m < n
            BY <2>1, <2>2
        (* An earlier call of the same block used smaller numbers. *)
        <2>7. \A i \in Entries(pass, "call") :
                 /\ old[i][3] \in 0..lsb /\ old[i][4] \in SUBSET Nat
                 /\ old[i][3] = lsb => /\ last_lsb = lsb
                                       /\ \A m \in old[i][4] : m < First
            <3> TAKE i \in Entries(pass, "call")
            <3>1. /\ last_lsb \in Nat /\ old[i][3] \in 0..last_lsb /\ old[i][4] \in SUBSET Nat
                  /\ old[i][3] = last_lsb => \A m \in old[i][4] : m < last_locsym
                BY DEF CallsOK, CallsOrdered, old
            <3>2. old[i][3] = lsb => last_lsb = lsb
                BY <2>2, <3>1
            <3>3. last_lsb = lsb => First = last_locsym
                BY Zenon DEF First
            <3> QED BY <2>2, <3>1, <3>2, <3>3
        <2>8. CallsOrdered'
            <3>1. ASSUME NEW i \in Entries(pass, "call")
                  PROVE  /\ new[i][3] \in 0..lsb /\ new[i][4] \in SUBSET Nat
                         /\ new[i][3] = lsb => \A m \in new[i][4] : m < n
                <4>1. new[i] = old[i]
                    BY <2>5
                <4>2. old[i][3] = lsb => \A m \in old[i][4] : m < First /\ m \in Nat
                    BY <2>7
                <4>3. old[i][3] = lsb => \A m \in old[i][4] : m < n
                    BY <2>1, <2>2, <4>2
                <4> QED BY <2>7, <4>1, <4>3
            <3>2. /\ new[Len(old) + 1][3] \in 0..lsb /\ new[Len(old) + 1][4] \in SUBSET Nat
                  /\ \A m \in new[Len(old) + 1][4] : m < n
                BY <1>4, <2>2, <2>3, <2>6
            <3> QED BY <1>1, <2>1, <2>2, <2>4, <3>1, <3>2 DEF CallsOrdered, new
        <2>9. GeneratedOnce'
            <3>1. ASSUME NEW i \in Entries(pass, "call"), new[i][3] = lsb
                  PROVE  new[i][4] \cap e[4] = {}
                <4>1. new[i] = old[i]
                    BY <2>5
                <4>2. \A m \in old[i][4] : m < First /\ m \in Nat
                    BY <2>7, <3>1, <4>1
                <4>3. \A m \in e[4] : First <= m /\ m \in Nat
                    BY <2>3, <2>6
                <4>4. \A m \in old[i][4] : m \notin e[4]
                    BY <2>2, <4>2, <4>3
                <4> QED BY <4>1, <4>4
            <3>2. ASSUME NEW i \in Entries(pass, "call"), NEW j \in Entries(pass, "call"),
                         i # j, new[i][3] = new[j][3]
                  PROVE  new[i][4] \cap new[j][4] = {}
                BY <2>5, <3>2 DEF CallsOK, GeneratedOnce, old
            <3>3. new[Len(old) + 1] = e /\ e[3] = lsb
                BY <1>4, <2>3
            <3>4. ASSUME NEW i \in Entries(pass, "call") \cup {Len(old) + 1},
                         NEW j \in Entries(pass, "call") \cup {Len(old) + 1},
                         i # j, new[i][3] = new[j][3]
                  PROVE  new[i][4] \cap new[j][4] = {}
                <4>1. CASE i \in Entries(pass, "call") /\ j \in Entries(pass, "call")
                    BY <3>2, <3>4, <4>1
                <4>2. CASE i = Len(old) + 1
                    BY <3>1, <3>3, <3>4, <4>2
                <4>3. CASE j = Len(old) + 1
                    BY <3>1, <3>3, <3>4, <4>3
                <4> QED BY <4>1, <4>2, <4>3
            <3> QED BY <1>1, <2>4, <3>4 DEF GeneratedOnce, new
        <2> QED BY <1>3, <2>8, <2>9 DEF CallsOK
    <1> QED BY <1>2, <1>7, <1>8

LEMMA CallsKept ==
    ASSUME Types, CallsOK, [Next]_vars
    PROVE  CallsOK'
    <1>1. CASE SecondPass
        <2>1. pass = 0 /\ pass' = 1 /\ traces' = traces
            BY <1>1 DEF SecondPass
        <2>2. traces'[1] = <<>>
            BY <2>1 DEF CallsOK, TracesOK
        <2>3. TracesOK'
            BY <2>1 DEF CallsOK, TracesOK
        <2>4. Entries(pass, "call")' = {}
            BY <2>1, <2>2 DEF Entries
        <2> QED BY <2>3, <2>4 DEF CallsOK, CallsOrdered, GeneratedOnce
    <1>2. CASE Finish \/ UNCHANGED vars
        <2>1. UNCHANGED <<pass, traces, last_lsb, last_locsym>>
            BY <1>2 DEF Finish, vars, passVars, blockVars
        <2> QED BY <2>1 DEF CallsOK, TracesOK, CallsOrdered, GeneratedOnce, Entries
    <1> QED BY <1>1, <1>2, AssembleCallsOK DEF Next

LEMMA InitCalls == Init => CallsOK
    <1> SUFFICES ASSUME Init PROVE CallsOK
        OBVIOUS
    <1>1. traces = [p \in {0, 1} |-> <<>>] /\ pass = 0
        BY DEF Init, Start
    <1>2. IsSeq(<<>>)
        BY EmptySeq DEF IsSeq
    <1>3. TracesOK
        BY <1>1, <1>2 DEF TracesOK
    <1>4. Entries(pass, "call") = {}
        BY <1>1 DEF Entries
    <1> QED BY <1>3, <1>4 DEF CallsOK, CallsOrdered, GeneratedOnce

(* No two expansions share a generated label, however macros nest, recurse *)
(* or interleave with labels: the invariant is that the blocks of local    *)
(* symbols only go up, and that the numbers of the last one do.            *)
THEOREM GeneratedOnceAlways == Spec => []GeneratedOnce
    <1> DEFINE I == Types /\ SourceOK /\ CallsOK
    <1>1. Init => I
        BY InitTypes, InitCalls, ProgramsAssumption DEF Init, SourceOK
    <1>2. I /\ [Next]_vars => I'
        BY TypesKept, SourceKept, CallsKept DEF SourceOK
    <1>3. I => GeneratedOnce
        BY DEF CallsOK
    <1> QED BY <1>1, <1>2, <1>3, PTL DEF Spec

-----------------------------------------------------------------------------
(* What statements do to the symbols, the sizes and the words stored.      *)
Adds(key, value, flags, section) == symbols' = add_sym(key, value, flags, section).symbols

Labels(e) ==
    \E name, flags :
        /\ e = <<"label", Key(name), current, DOT>> /\ name \notin {"", "."}
        /\ {"PERMANENT", "DEFINITION"} \subseteq flags /\ flags \in SUBSET Flags
        /\ "UNDEFINED" \notin flags
        /\ Adds(Key(name), DOT, flags, current)
        /\ pass = 1 /\ ~reported' => add_sym(Key(name), DOT, flags, current).ok
        /\ UNCHANGED <<size, stored>>

Assigns(e) ==
    \E key, simple, section, value, flags :
        /\ section \in SectionNames /\ value \in Address
        /\ e = <<"assign", key, simple, section, value>> /\ simple \in BOOLEAN
        /\ "DEFINITION" \in flags /\ "UNDEFINED" \notin flags /\ flags \in SUBSET Flags
        /\ simple => Adds(key, value, flags, section)
        /\ ~simple /\ pass = 0 => Adds(key, 0, {"UNDEFINED"}, Abs)
        /\ ~simple /\ pass = 1 => symbols' = symbols
        /\ UNCHANGED <<size, stored>>

Globals(e) ==
    \E key : /\ e[1] = "globl" /\ UNCHANGED <<size, stored>>
             /\ IF key \in DOMAIN symbols
                THEN symbols' = [symbols EXCEPT ![key].flags = @ \cup {"GLOBAL"}]
                ELSE Adds(key, 0, {"GLOBAL"}, Abs)

Stores(e) ==
    \E val, at, v :
        /\ e = <<"word", val, current, at>> /\ at \in Address
        /\ v = Evaluate([val EXCEPT !.off = IF val.sym = "." THEN @ + (DOT % 2) ELSE @])
        /\ val \in Value
        /\ change_dot(Host(at + 2)) /\ symbols' = symbols
        /\ stored' = IF pass = 0 THEN stored
                     ELSE stored \cup {[key |-> Key(val.sym), off |-> val.off, type |-> v.type,
                                        section |-> v.section, value |-> v.value,
                                        at |-> <<current, at>>]}

Others(e) ==
    /\ e[1] \notin {"label", "assign", "word"} /\ UNCHANGED <<symbols, stored>>
    /\ size' = size \/ \E dot \in Address : change_dot(dot)

Does(e) ==
    /\ Note(e) /\ (reported => reported')
    /\ Labels(e) \/ Assigns(e) \/ Globals(e) \/ Stores(e) \/ Others(e)

LEMMA LabelDoes ==
    ASSUME NEW l, NEW in, Label(l, in)
    PROVE  \E e : Does(e)
    <1> DEFINE flags == {"PERMANENT", "DEFINITION"} \cup (l.opt \cap {"GLOBAL"})
               e == <<"label", Key(l.name), current, DOT>>
    <1>1. /\ IsName(l.name) /\ Note(e)
          /\ Adds(Key(l.name), DOT, flags, current)
          /\ Report(~add_sym(Key(l.name), DOT, flags, current).ok)
          /\ UNCHANGED <<size, stored>>
        BY DEF Label, Adds, sectionVars
    <1>2. {"PERMANENT", "DEFINITION"} \subseteq flags /\ flags \in SUBSET Flags
          /\ "UNDEFINED" \notin flags
        BY DEF Flags
    <1>3. l.name \notin {"", "."}
        BY <1>1, Zenon DEF IsName
    <1>4. reported => reported'
        BY <1>1 DEF Report
    <1>5. pass = 1 /\ ~reported' => add_sym(Key(l.name), DOT, flags, current).ok
        BY <1>1, Zenon DEF Report
    <1> HIDE DEF flags
    <1>6. Labels(e)
        BY <1>1, <1>2, <1>3, <1>5, Zenon DEF Labels
    <1> QED BY <1>1, <1>4, <1>6, Zenon DEF Does

LEMMA AssignDoes ==
    ASSUME NEW l, NEW in, Taken(l, in), Assign(l, in)
    PROVE  \E e : Does(e)
    <1>1. PICK v : v = Evaluate(l.val)
        OBVIOUS
    <1>2. v.section \in SectionNames /\ v.value \in Address
        BY <1>1, EvaluateType, LineFields DEF Taken, Types
    <1> DEFINE simple == v.type \in {"lit", "sym"} \/ (v.type = "global" /\ l.val.off = 0)
               flags == {"DEFINITION"} \cup (l.opt \cap {"PERMANENT"})
               e == <<"assign", Key(l.name), simple, v.section, v.value>>
    <1>3. /\ Note(e) /\ Report(~simple) /\ UNCHANGED <<size, stored>>
          /\ simple => Adds(Key(l.name), v.value, flags, v.section)
          /\ ~simple /\ pass = 0 => Adds(Key(l.name), 0, {"UNDEFINED"}, Abs)
          /\ ~simple /\ pass = 1 => symbols' = symbols
        BY <1>1 DEF Assign, Adds, sectionVars
    <1>4. "DEFINITION" \in flags /\ "UNDEFINED" \notin flags /\ flags \in SUBSET Flags
        BY DEF Flags
    <1>5. simple \in BOOLEAN
        OBVIOUS
    <1>6. reported => reported'
        BY <1>3, Zenon DEF Report
    <1> HIDE DEF flags, simple
    <1>7. Assigns(e)
        <2>1. PICK key, was, section, value, with : /\ key = Key(l.name) /\ was = simple
                 /\ section = v.section /\ value = v.value /\ with = flags
            BY Zenon
        <2>2. section \in SectionNames /\ value \in Address
            BY <1>2, <2>1, Zenon
        <2>3. /\ e = <<"assign", key, was, section, value>> /\ was \in BOOLEAN
              /\ "DEFINITION" \in with /\ "UNDEFINED" \notin with /\ with \in SUBSET Flags
              /\ was => Adds(key, value, with, section)
              /\ ~was /\ pass = 0 => Adds(key, 0, {"UNDEFINED"}, Abs)
              /\ ~was /\ pass = 1 => symbols' = symbols
              /\ UNCHANGED <<size, stored>>
            BY <1>3, <1>4, <1>5, <2>1, Zenon
        <2> HIDE DEF e
        <2> QED BY <2>2, <2>3, Zenon DEF Assigns
    <1> QED BY <1>3, <1>6, <1>7, Zenon DEF Does

LEMMA WordDoes ==
    ASSUME NEW val \in Value, NEW in, Word(val, in), SectionType
    PROVE  \E e : Does(e)
    <1>1. PICK pad : pad = DOT % 2
        OBVIOUS
    <1>2. PICK at : at = Host(DOT + pad)
        OBVIOUS
    <1>3. at \in Address
        <2>1. DOT \in Nat
            BY DEF SectionType, DOT, Address
        <2>2. DOT + pad \in Int
            BY <1>1, <2>1
        <2> QED BY <1>2, <2>2, HostType
    <1>4. PICK v : v = Evaluate([val EXCEPT !.off = IF val.sym = "." THEN @ + (DOT % 2) ELSE @])
        OBVIOUS
    <1>5. /\ Note(<<"word", val, current, at>>)
          /\ change_dot(Host(at + 2)) /\ symbols' = symbols
          /\ \E wrong : Report(wrong)
          /\ stored' = IF pass = 0 THEN stored
                       ELSE stored \cup {[key |-> Key(val.sym), off |-> val.off, type |-> v.type,
                                          section |-> v.section, value |-> v.value,
                                          at |-> <<current, at>>]}
        BY <1>1, <1>2, <1>4, Zenon DEF Word
    <1>6. Stores(<<"word", val, current, at>>)
        <2>1. val \in Value
            OBVIOUS
        <2> QED BY <1>3, <1>4, <1>5, <2>1, Zenon DEF Stores
    <1>7. reported => reported'
        BY <1>5, Zenon DEF Report
    <1> QED BY <1>5, <1>6, <1>7, Zenon DEF Does

LEMMA CallDoes ==
    ASSUME NEW l, NEW in, Taken(l, in), Call(l, in)
    PROVE  \E e : Does(e)
    <1>1. CASE Called(l)
        <2>1. PICK e : e = ExpandedBody(macros[l.name], l.list)
            OBVIOUS
        <2>2. /\ Note(<<"call", l.name, lsb, e.first .. e.next - 1>>)
              /\ UNCHANGED <<symbolVars, sectionVars, resultVars>>
            BY <1>1, <2>1, Zenon DEF Call
        <2> QED BY <2>2 DEF Does, Others, symbolVars, sectionVars, resultVars
    <1>2. CASE ~Called(l)
        <2>1. [sym |-> l.name, off |-> 0] \in Value
            BY LineFields DEF Taken, Value
        <2>2. Word([sym |-> l.name, off |-> 0], in)
            BY <1>2, Zenon DEF Call
        <2> QED BY <2>1, <2>2, WordDoes DEF Taken, Types
    <1> QED BY <1>1, <1>2

LEMMA OrgDoes ==
    ASSUME NEW l, NEW in, Taken(l, in), Org(l, in) \/ Blkb(l, in)
    PROVE  \E e : Does(e)
    <1>1. PICK v : v = Evaluate(l.val)
        OBVIOUS
    <1>2. v.value \in Address /\ v.value \in Int
        BY <1>1, EvaluateType, LineFields DEF Taken, Types, Address
    <1>3. DOT \in Int
        BY DEF Taken, Types, SectionType, DOT, Address
    <1>4. Host(DOT + v.value) \in Address
        <2>1. DOT + v.value \in Int
            BY <1>2, <1>3
        <2> QED BY <2>1, HostType
    <1>5. \/ size' = size \/ change_dot(v.value) \/ change_dot(Host(DOT + v.value))
        BY <1>1 DEF Org, Blkb
    <1>6. size' = size \/ \E dot \in Address : change_dot(dot)
        BY <1>2, <1>4, <1>5, Zenon
    <1>7. /\ \E e : e[1] \in {"org", "blkb"} /\ Note(e)
          /\ UNCHANGED <<symbols, stored>> /\ (reported => reported')
        <2>1. CASE Org(l, in)
            <3>1. /\ \E ok, value : Note(<<"org", ok, value>>)
                  /\ \E wrong : Report(wrong)
                  /\ UNCHANGED <<symbols, stored>>
                BY <2>1, Zenon DEF Org, symbolVars
            <3>2. PICK ok, value : Note(<<"org", ok, value>>)
                BY <3>1, Zenon
            <3>3. PICK e : e = <<"org", ok, value>>
                OBVIOUS
            <3>4. reported => reported'
                BY <3>1, Zenon DEF Report
            <3>5. e[1] \in {"org", "blkb"}
                BY <3>3
            <3>6. Note(e)
                BY <3>2, <3>3, Zenon
            <3> QED BY <3>1, <3>4, <3>5, <3>6
        <2>2. CASE Blkb(l, in)
            <3>1. /\ \E ok, value : Note(<<"blkb", ok, value>>)
                  /\ \E wrong : Report(wrong)
                  /\ UNCHANGED <<symbols, stored>>
                BY <2>2, Zenon DEF Blkb, symbolVars
            <3>2. PICK ok, value : Note(<<"blkb", ok, value>>)
                BY <3>1, Zenon
            <3>3. PICK e : e = <<"blkb", ok, value>>
                OBVIOUS
            <3>4. reported => reported'
                BY <3>1, Zenon DEF Report
            <3>5. e[1] \in {"org", "blkb"}
                BY <3>3
            <3>6. Note(e)
                BY <3>2, <3>3, Zenon
            <3> QED BY <3>1, <3>4, <3>5, <3>6
        <2> QED BY <2>1, <2>2
    <1>8. PICK e : e[1] \in {"org", "blkb"} /\ Note(e)
        BY <1>7
    <1>9. Others(e)
        BY <1>6, <1>7, <1>8 DEF Others
    <1> QED BY <1>7, <1>8, <1>9 DEF Does

LEMMA GloblDoes ==
    ASSUME NEW l, NEW in, Globl(l, in)
    PROVE  \E e : Does(e)
    <1>1. /\ Note(<<"globl", l.name>>) /\ UNCHANGED <<size, stored, reported>>
          /\ IF <<l.name>> \in DOMAIN symbols
             THEN symbols' = [symbols EXCEPT ![<<l.name>>].flags = @ \cup {"GLOBAL"}]
             ELSE Adds(<<l.name>>, 0, {"GLOBAL"}, Abs)
        BY DEF Globl, Adds, sectionVars, resultVars
    <1>2. Globals(<<"globl", l.name>>)
        <2>1. PICK key : key = <<l.name>>
            OBVIOUS
        <2>2. PICK e : e = <<"globl", l.name>>
            OBVIOUS
        <2>3. e[1] = "globl"
            BY <2>2
        <2>4. Globals(e)
            BY <1>1, <2>1, <2>3, Zenon DEF Globals
        <2> QED BY <2>2, <2>4
    <1> QED BY <1>1, <1>2, Zenon DEF Does

LEMMA AssembleDoes ==
    ASSUME Types, assemble
    PROVE  \E e : Does(e)
    <1>1. PICK l, in :
              /\ l \in Line
              /\ Taken(l, in)
              /\ IF suppressed > 0 THEN Suppressed(l, in) ELSE Assembled(l, in)
        BY AssembleTaken
    <1> DEFINE Small == /\ \E e : e[1] \notin {"label", "assign", "word"} /\ Note(e)
                        /\ UNCHANGED <<symbols, stored, size>> /\ (reported => reported')
    <1> USE DEF symbolVars, sectionVars, resultVars, Report
    <1>2. CASE Suppressed(l, in)
        <2>1. Small
            BY <1>2 DEF Suppressed
        <2> QED BY <2>1 DEF Does, Others
    <1>3. CASE Label(l, in)
        BY <1>3, LabelDoes
    <1>4. CASE Assign(l, in)
        BY <1>1, <1>4, AssignDoes
    <1>5. CASE Org(l, in) \/ Blkb(l, in)
        BY <1>1, <1>5, OrgDoes
    <1>6. CASE Even(l, in) \/ Section(l, in) \/ Mexit(l, in) \/ Macro(l, in)
        <2>1. Small
            <3>1. CASE Even(l, in)
                BY <3>1 DEF Even
            <3>2. CASE Section(l, in)
                BY <3>2 DEF Section
            <3>3. CASE Mexit(l, in)
                BY <3>3 DEF Mexit
            <3>4. CASE Macro(l, in)
                BY <3>4 DEF Macro
            <3> QED BY <1>6, <3>1, <3>2, <3>3, <3>4
        <2> QED BY <2>1 DEF Does, Others
    <1>7. CASE Word(l.val, in)
        BY <1>1, <1>7, LineFields, WordDoes DEF Taken, Types
    <1>8. CASE Call(l, in)
        BY <1>1, <1>8, CallDoes
    <1>9. CASE Iif(l, in)
        <2>1. CASE Condition(l)
            <3>1. PICK rest : rest = l.rest[1]
                OBVIOUS
            <3>2. \/ Call(rest, in) \/ Mexit(rest, in) \/ Assign(rest, in)
                  \/ Word(rest.val, in)
                BY <1>9, <2>1, <3>1 DEF Iif
            <3>3. Taken(rest, in)
                BY <1>1, <1>9, <3>1, RestTaken DEF Iif
            <3>4. rest.val \in Value /\ SectionType
                BY <3>3, LineFields DEF Taken, Types
            <3>5. CASE Mexit(rest, in)
                <4>1. Small
                    BY <3>5 DEF Mexit
                <4> QED BY <4>1 DEF Does, Others
            <3> QED BY <3>2, <3>3, <3>4, <3>5, CallDoes, WordDoes, AssignDoes
        <2>2. CASE ~Condition(l)
            <3>1. Small
                BY <1>9, <2>2 DEF Iif
            <3> QED BY <3>1 DEF Does, Others
        <2> QED BY <2>1, <2>2
    <1>10. CASE Part(l, in) \/ Endc(l, in) \/ Enabl(l, in) \/ Ignored(l, in)
        <2>1. Small
            <3>1. CASE Part(l, in)
                BY <3>1 DEF Part
            <3>2. CASE Endc(l, in)
                BY <3>2 DEF Endc
            <3>3. CASE Enabl(l, in)
                BY <3>3 DEF Enabl
            <3>4. CASE Ignored(l, in)
                BY <3>4 DEF Ignored, Closes
            <3> QED BY <1>10, <3>1, <3>2, <3>3, <3>4
        <2> QED BY <2>1 DEF Does, Others
    <1>11. CASE Globl(l, in)
        BY <1>11, GloblDoes
    <1>12. CASE Save(l, in) \/ Restore(l, in) \/ Rept(l, in) \/ Irp(l, in) \/ If(l, in)
        <2>1. Small
            <3>1. CASE Save(l, in)
                BY <3>1 DEF Save
            <3>2. CASE Restore(l, in)
                BY <3>2 DEF Restore
            <3>3. CASE Rept(l, in)
                BY <3>3 DEF Rept
            <3>4. CASE Irp(l, in)
                BY <3>4 DEF Irp
            <3>5. CASE If(l, in)
                BY <3>5 DEF If
            <3> QED BY <1>12, <3>1, <3>2, <3>3, <3>4, <3>5
        <2> QED BY <2>1 DEF Does, Others
    <1> HIDE DEF symbolVars, sectionVars, resultVars, Report
    <1> QED BY <1>1, <1>2, <1>3, <1>4, <1>5, <1>6, <1>7, <1>8, <1>9, <1>10, <1>11, <1>12, Zenon
            DEF Assembled

-----------------------------------------------------------------------------
(* Symbols that cannot change any more: the labels the first pass knew.    *)
Fixed(key) ==
    /\ key \in DOMAIN symbols
    /\ "PERMANENT" \in symbols[key].flags /\ "UNDEFINED" \notin symbols[key].flags

PermanentDefined ==
    \A k \in DOMAIN symbols :
        "PERMANENT" \in symbols[k].flags => "DEFINITION" \in symbols[k].flags

LabelsNamed == \A p \in {0, 1} : \A i \in Entries(p, "label") : traces[p][i][2][1] \notin {"", "."}

SteadyFixed == \A key : Steady(key) => Fixed(key)

(* What the second pass finds, unless it reports an error, and the words   *)
(* that it has stored.                                                     *)
LabelsPlaced ==
    \A k : pass = 1 /\ ~reported /\ Steady(k) =>
        \A i \in Entries(1, "label") :
            traces[1][i][2] = k => /\ symbols[k].section = traces[1][i][3]
                                   /\ symbols[k].value = traces[1][i][4]

WordsResolved ==
    /\ pass = 0 => stored = {}
    /\ \A k : Steady(k) =>
          \A w \in stored : w.key = k => /\ w.section = symbols[k].section
                                         /\ w.value = Host(symbols[k].value + w.off)

GlobalsWritten ==
    \A k : pass = 1 /\ Steady(k) /\ k \in DOMAIN directory.globals =>
              /\ directory.globals[k].section = symbols[k].section
              /\ directory.globals[k].value = symbols[k].value

SymbolsOK == /\ PermanentDefined /\ LabelsNamed /\ SteadyFixed
             /\ LabelsPlaced /\ WordsResolved /\ GlobalsWritten

(* The sizes of the first pass hold its words.                             *)
Sizes == IF pass = 0 THEN size ELSE directory.sizes

Fits(section, at) == at + 2 < HostSize => at + 2 <= Sizes[section]

WordsFit ==
    \A i \in Entries(0, "word") :
        LET word == traces[0][i]
        IN word[3] \in SectionNames /\ word[4] \in Address /\ Fits(word[3], word[4])

WordsNoted ==
    \A w \in stored :
        \E i \in Entries(1, "word") : w.at = <<traces[1][i][3], traces[1][i][4]>>

SizesOK == WordsFit /\ WordsNoted

(* The traces after a statement: n is the place of the new entry.          *)
Entered(e, n) ==
    /\ TracesOK' /\ n \in Nat /\ pass \in {0, 1}
    /\ \A p \in {0, 1} : p # pass => traces'[p] = traces[p]
    /\ \A i \in DOMAIN traces[pass] : traces'[pass][i] = traces[pass][i] /\ i \in Nat /\ i < n
    /\ traces'[pass][n] = e
    /\ DOMAIN traces'[pass] = DOMAIN traces[pass] \cup {n}

LEMMA NoteEnters ==
    ASSUME TracesOK, NEW e, Note(e), pass' = pass
    PROVE  \E n : Entered(e, n)
    <1>1. pass \in {0, 1} /\ IsSeq(traces[pass])
        BY DEF TracesOK
    <1>2. /\ TracesOK' /\ traces'[pass] = Append(traces[pass], e)
          /\ \A p \in {0, 1} : p # pass => traces'[p] = traces[p]
        BY NoteIs
    <1> DEFINE old == traces[pass]
               n == Len(old) + 1
    <1>3. /\ Len(old) \in Nat /\ DOMAIN old = 1..Len(old)
          /\ DOMAIN traces'[pass] = 1..(Len(old) + 1)
          /\ \A i \in 1..Len(old) : traces'[pass][i] = old[i]
          /\ traces'[pass][n] = e
        BY <1>1, <1>2, AppendIs
    <1> HIDE DEF old
    <1>4. 1..n = 1..Len(old) \cup {n} /\ n \in Nat
        BY <1>3
    <1>5. \A i \in 1..Len(old) : i \in Nat /\ i < n
        BY <1>3
    <1>6. DOMAIN traces'[pass] = DOMAIN old \cup {n}
        BY <1>3, <1>4
    <1> HIDE DEF n
    <1>7. Entered(e, n)
        BY <1>1, <1>2, <1>3, <1>4, <1>5, <1>6, Zenon DEF Entered, old
    <1> QED BY <1>7

LEMMA EntriesAre ==
    ASSUME NEW e, NEW n, Entered(e, n), NEW p \in {0, 1}, NEW kind
    PROVE  /\ p # pass => Entries(p, kind)' = Entries(p, kind)
           /\ p = pass => Entries(p, kind)' = Entries(p, kind) \cup (IF e[1] = kind THEN {n} ELSE {})
    <1>1. Entries(p, kind)' = {i \in DOMAIN traces'[p] : traces'[p][i][1] = kind}
        BY DEF Entries
    <1>2. CASE p # pass
        <2>1. traces'[p] = traces[p]
            BY <1>2 DEF Entered
        <2> QED BY <1>1, <1>2, <2>1 DEF Entries
    <1>3. CASE p = pass
        <2>1. /\ DOMAIN traces'[p] = DOMAIN traces[p] \cup {n}
              /\ \A i \in DOMAIN traces[p] : traces'[p][i] = traces[p][i]
              /\ traces'[p][n] = e
              /\ \A i \in DOMAIN traces[p] : i # n
            BY <1>3 DEF Entered
        <2>2. \A i : i \in Entries(p, kind)' <=> \/ i \in Entries(p, kind)
                                                 \/ i = n /\ e[1] = kind
            BY <1>1, <2>1, Zenon DEF Entries
        <2>3. \A i : i \in Entries(p, kind) \cup (IF e[1] = kind THEN {n} ELSE {})
                       <=> \/ i \in Entries(p, kind)
                           \/ i = n /\ e[1] = kind
            BY Zenon
        <2> QED BY <1>3, <2>2, <2>3
    <1> QED BY <1>2, <1>3

LEMMA KindsAre ==
    ASSUME NEW e
    PROVE  /\ Labels(e) => e[1] = "label"
           /\ Assigns(e) => e[1] = "assign"
           /\ Globals(e) => e[1] = "globl"
           /\ Stores(e) => e[1] = "word"
           /\ Others(e) => e[1] \notin {"label", "assign", "word"}
    <1>1. Labels(e) => e[1] = "label"
        <2>1. Labels(e) => \E key, dot : e = <<"label", key, current, dot>>
            BY Zenon DEF Labels
        <2> QED BY <2>1
    <1>2. Assigns(e) => e[1] = "assign"
        <2>1. Assigns(e) => \E key, simple, section, value :
                               e = <<"assign", key, simple, section, value>>
            BY Zenon DEF Assigns
        <2> QED BY <2>1
    <1>3. Globals(e) => e[1] = "globl"
        BY Zenon DEF Globals
    <1>4. Stores(e) => e[1] = "word"
        <2>1. Stores(e) => \E val, at : e = <<"word", val, current, at>>
            BY Zenon DEF Stores
        <2> QED BY <2>1
    <1>5. Others(e) => e[1] \notin {"label", "assign", "word"}
        BY Zenon DEF Others
    <1> QED BY <1>1, <1>2, <1>3, <1>4, <1>5

(* A size never shrinks.                                                   *)
LEMMA SizesGrow ==
    ASSUME SectionType, NEW dot \in Address, size' = size \/ change_dot(dot)
    PROVE  /\ \A s \in SectionNames : size'[s] \in Address /\ size[s] <= size'[s]
           /\ change_dot(dot) => dot <= size'[current]
    <1>1. size \in [SectionNames -> Address] /\ current \in SectionNames
        BY DEF SectionType
    <1>2. dot \in Int /\ \A s \in SectionNames : size[s] \in Int /\ size[s] \in Address
        BY <1>1 DEF Address
    <1>3. CASE size' = size
        <2>1. \A s \in SectionNames : size'[s] \in Address /\ size[s] <= size'[s]
            BY <1>2, <1>3
        <2>2. change_dot(dot) => dot <= size[current]
            BY <1>1, <1>2, <1>3 DEF change_dot
        <2> QED BY <1>3, <2>1, <2>2
    <1>4. CASE change_dot(dot)
        BY <1>1, <1>2, <1>4 DEF change_dot
    <1> QED BY <1>3, <1>4

LEMMA AssembleSizes ==
    ASSUME Types, TracesOK, SizesOK, assemble
    PROVE  SizesOK'
    <1>1. pass' = pass /\ directory' = directory /\ pass \in {0, 1}
        BY DEF assemble, TracesOK
    <1>2. PICK e : Does(e)
        BY AssembleDoes
    <1>3. PICK n : Entered(e, n)
        BY <1>1, <1>2, NoteEnters DEF Does
    <1>4. SectionType
        BY DEF Types
    <1>5. PICK dot \in Address : size' = size \/ change_dot(dot)
        <2>1. CASE size' = size
            BY <2>1, ZeroType
        <2>2. CASE \E dot \in Address : change_dot(dot)
            BY <2>2
        <2>3. CASE Stores(e)
            <3>1. PICK at : at \in Address /\ change_dot(Host(at + 2))
                BY <2>3, Zenon DEF Stores
            <3>2. at + 2 \in Int
                BY <3>1 DEF Address
            <3>3. Host(at + 2) \in Address
                BY <3>2, HostType
            <3> QED BY <3>1, <3>3
        <2>4. Globals(e) \/ Labels(e) \/ Assigns(e) => size' = size
            BY DEF Globals, Labels, Assigns
        <2> QED BY <1>2, <2>1, <2>2, <2>3, <2>4 DEF Does, Others
    <1>6. \A s \in SectionNames : size'[s] \in Address /\ size[s] \in Address /\ size[s] <= size'[s]
        BY <1>4, <1>5, SizesGrow DEF SectionType
    <1>7. WordsFit'
        <2>1. CASE pass = 1
            <3>1. Sizes' = Sizes
                BY <1>1, <2>1 DEF Sizes
            <3>2. traces'[0] = traces[0]
                BY <1>3, <2>1 DEF Entered
            <3>3. Entries(0, "word")' = Entries(0, "word")
                BY <3>2 DEF Entries
            <3> QED BY <3>1, <3>2, <3>3 DEF SizesOK, WordsFit, Fits
        <2>2. CASE pass = 0
            <3>1. Sizes = size /\ Sizes' = size'
                BY <1>1, <2>2 DEF Sizes
            <3>2. ASSUME NEW i \in Entries(0, "word")
                  PROVE  /\ traces'[0][i] = traces[0][i]
                         /\ traces[0][i][3] \in SectionNames /\ traces[0][i][4] \in Address
                         /\ Fits(traces[0][i][3], traces[0][i][4])'
                <4>1. traces'[0][i] = traces[0][i]
                    BY <1>3, <2>2, <3>2 DEF Entered, Entries
                <4>2. PICK s, at : s = traces[0][i][3] /\ at = traces[0][i][4]
                    OBVIOUS
                <4>3. s \in SectionNames /\ at \in Address /\ Fits(s, at)
                    BY <3>2, <4>2 DEF SizesOK, WordsFit
                <4>4. at + 2 < HostSize => at + 2 <= size'[s]
                    <5>1. at \in Int /\ size[s] \in Int /\ size'[s] \in Int /\ size[s] <= size'[s]
                        BY <1>6, <4>3 DEF Address
                    <5>2. at + 2 < HostSize => at + 2 <= size[s]
                        BY <3>1, <4>3 DEF Fits
                    <5> QED BY <5>1, <5>2
                <4> QED BY <3>1, <4>1, <4>2, <4>3, <4>4 DEF Fits
            <3>3. CASE Stores(e)
                <4>1. PICK val, at : /\ e = <<"word", val, current, at>> /\ at \in Address
                                     /\ change_dot(Host(at + 2))
                    BY <3>3, Zenon DEF Stores
                <4>2. at \in Int /\ at + 2 \in Int /\ at >= 0
                    BY <4>1 DEF Address
                <4>3. at + 2 < HostSize => Host(at + 2) = at + 2
                    <5>1. at + 2 < HostSize => at + 2 \in Address
                        BY <4>2, BoundsAssumption DEF Address
                    <5> QED BY <5>1, HostSame
                <4>4. Host(at + 2) \in Address
                    BY <4>2, HostType
                <4>5. Host(at + 2) <= size'[current]
                    BY <1>4, <4>1, <4>4, SizesGrow
                <4>6. at + 2 < HostSize => at + 2 <= size'[current]
                    BY <4>3, <4>5
                <4>7. e[3] = current /\ e[4] = at /\ current \in SectionNames
                    BY <1>4, <4>1 DEF SectionType
                <4>8. traces'[0][n] = e
                    BY <1>3, <2>2 DEF Entered
                <4>9. Entries(0, "word")' = Entries(0, "word") \cup {n}
                    BY <1>3, <2>2, <4>1, EntriesAre
                <4> QED BY <3>1, <3>2, <4>1, <4>6, <4>7, <4>8, <4>9 DEF WordsFit, Fits
            <3>4. CASE ~Stores(e)
                <4>1. e[1] # "word"
                    BY <1>2, <3>4, KindsAre DEF Does
                <4>2. Entries(0, "word")' = Entries(0, "word")
                    BY <1>3, <2>2, <4>1, EntriesAre
                <4> QED BY <3>2, <4>2 DEF WordsFit
            <3> QED BY <3>3, <3>4
        <2> QED BY <1>1, <2>1, <2>2
    <1>8. WordsNoted'
        <2>1. \A i \in Entries(1, "word") :
                 i \in Entries(1, "word")' /\ traces'[1][i] = traces[1][i]
            <3>1. CASE pass = 1
                BY <1>3, <3>1, EntriesAre DEF Entered, Entries
            <3>2. CASE pass = 0
                BY <1>3, <3>2, EntriesAre DEF Entered
            <3> QED BY <1>1, <3>1, <3>2
        <2>2. ASSUME NEW w \in stored
              PROVE  \E i \in Entries(1, "word")' : w.at = <<traces'[1][i][3], traces'[1][i][4]>>
            BY <2>1 DEF SizesOK, WordsNoted
        <2>3. CASE stored' = stored
            BY <2>2, <2>3 DEF WordsNoted
        <2>4. CASE Stores(e) /\ pass = 1
            <3>1. PICK val, at, w : /\ e = <<"word", val, current, at>>
                                    /\ stored' = stored \cup {w} /\ w.at = <<current, at>>
                <4>1. PICK val, at, v :
                          /\ e = <<"word", val, current, at>>
                          /\ stored' = stored \cup {[key |-> Key(val.sym), off |-> val.off,
                                                     type |-> v.type, section |-> v.section,
                                                     value |-> v.value, at |-> <<current, at>>]}
                    <5>1. pass # 0
                        BY <2>4
                    <5> QED BY <2>4, <5>1, Zenon DEF Stores
                <4>2. PICK w : w = [key |-> Key(val.sym), off |-> val.off, type |-> v.type,
                                    section |-> v.section, value |-> v.value,
                                    at |-> <<current, at>>]
                    OBVIOUS
                <4>3. w.at = <<current, at>>
                    BY <4>2
                <4> QED BY <4>1, <4>2, <4>3, Zenon
            <3>2. n \in Entries(1, "word")' /\ traces'[1][n] = e
                BY <1>3, <2>4, <3>1, EntriesAre DEF Entered
            <3>3. w.at = <<traces'[1][n][3], traces'[1][n][4]>>
                BY <3>1, <3>2
            <3> QED BY <2>2, <3>1, <3>2, <3>3 DEF WordsNoted
        <2>5. stored' = stored \/ (Stores(e) /\ pass = 1)
            BY <1>1, <1>2 DEF Does, Labels, Assigns, Globals, Others, Stores
        <2> QED BY <2>3, <2>4, <2>5
    <1> QED BY <1>7, <1>8 DEF SizesOK

(* add_sym refuses, or makes an entry as it was told.                      *)
LEMMA AddIs ==
    ASSUME NEW key, NEW value, NEW flags, NEW section, Adds(key, value, flags, section)
    PROVE  \/ /\ ~add_sym(key, value, flags, section).ok
              /\ symbols' = symbols /\ key \in DOMAIN symbols
              /\ "PERMANENT" \in symbols[key].flags
              /\ "UNDEFINED" \in symbols[key].flags => "UNDEFINED" \in flags
           \/ \E all :
                 /\ symbols' = With(symbols, key, [value |-> value, section |-> section,
                                                   flags |-> all])
                 /\ \A f \in flags : f \in all
                 /\ "UNDEFINED" \notin flags => "UNDEFINED" \notin all
                 /\ "PERMANENT" \in all => \/ "PERMANENT" \in flags
                                           \/ /\ key \in DOMAIN symbols
                                              /\ "PERMANENT" \in symbols[key].flags
                 /\ key \in DOMAIN symbols /\ "DEFINITION" \in symbols[key].flags
                       => "DEFINITION" \in all
                 /\ Fixed(key) => /\ "PERMANENT" \in all
                                  /\ value = symbols[key].value /\ section = symbols[key].section
    <1> DEFINE new == key \notin DOMAIN symbols
               old == symbols[key]
               define == "UNDEFINED" \in old.flags /\ "UNDEFINED" \notin flags
               had == IF define THEN old.flags \ {"PERMANENT", "UNDEFINED"} ELSE old.flags
               same == ~define /\ old.section = section /\ old.value = value
               ok == new \/ same \/ "PERMANENT" \notin had
               all == IF new THEN flags ELSE had \cup flags
               entry == [value |-> value, section |-> section, flags |-> all]
    <1>1. /\ add_sym(key, value, flags, section).ok = ok
          /\ symbols' = IF ok THEN With(symbols, key, entry) ELSE symbols
        BY Zenon DEF Adds, add_sym
    <1>2. CASE ~ok
        <2>1. symbols' = symbols /\ ~add_sym(key, value, flags, section).ok
            BY <1>1, <1>2, Zenon
        <2>2. key \in DOMAIN symbols /\ "PERMANENT" \in had
            BY <1>2
        <2>3. ~define
            BY <2>2
        <2>4. had = old.flags
            BY <2>3
        <2> QED BY <2>1, <2>2, <2>3, <2>4
    <1>3. CASE ok
        <2>1. symbols' = With(symbols, key, entry)
            BY <1>1, <1>3, Zenon
        <2>2. \A f \in flags : f \in all
            OBVIOUS
        <2>3. "UNDEFINED" \notin flags => "UNDEFINED" \notin all
            OBVIOUS
        <2>4. "PERMANENT" \in all => \/ "PERMANENT" \in flags
                                     \/ /\ key \in DOMAIN symbols
                                        /\ "PERMANENT" \in symbols[key].flags
            OBVIOUS
        <2>5. key \in DOMAIN symbols /\ "DEFINITION" \in symbols[key].flags => "DEFINITION" \in all
            OBVIOUS
        <2>6. Fixed(key) => /\ "PERMANENT" \in all
                            /\ value = symbols[key].value /\ section = symbols[key].section
            BY <1>3 DEF Fixed
        <2> HIDE DEF all
        <2> QED BY <2>1, <2>2, <2>3, <2>4, <2>5, <2>6, Zenon
    <1> QED BY <1>2, <1>3

LEMMA WithIs ==
    ASSUME NEW table, NEW key, NEW entry, NEW new, new = With(table, key, entry)
    PROVE  /\ DOMAIN new = DOMAIN table \cup {key} /\ new[key] = entry
           /\ \A k \in DOMAIN table : k # key => new[k] = table[k]
    BY DEF With

(* Nothing but an undefined value for it, in the first pass, changes a     *)
(* symbol that is fixed.                                                   *)
SameSymbol(k) ==
    Fixed(k)' /\ symbols'[k].value = symbols[k].value /\ symbols'[k].section = symbols[k].section

LEMMA AddKeeps ==
    ASSUME NEW key, NEW value, NEW flags, NEW section, Adds(key, value, flags, section),
           NEW k, Fixed(k), k = key => "UNDEFINED" \notin flags
    PROVE  SameSymbol(k)
    <1>1. CASE symbols' = symbols
        BY <1>1 DEF SameSymbol, Fixed
    <1>2. CASE symbols' # symbols
        <2>1. PICK all :
                 /\ symbols' = With(symbols, key, [value |-> value, section |-> section,
                                                   flags |-> all])
                 /\ "UNDEFINED" \notin flags => "UNDEFINED" \notin all
                 /\ Fixed(key) => /\ "PERMANENT" \in all
                                  /\ value = symbols[key].value /\ section = symbols[key].section
            BY <1>2, AddIs, SMTT(60)
        <2>2. PICK entry : entry = [value |-> value, section |-> section, flags |-> all]
            OBVIOUS
        <2>3. /\ DOMAIN symbols' = DOMAIN symbols \cup {key} /\ symbols'[key] = entry
              /\ \A m \in DOMAIN symbols : m # key => symbols'[m] = symbols[m]
            <3>1. symbols' = With(symbols, key, entry)
                BY <2>1, <2>2, Zenon
            <3>2. PICK new : new = symbols'
                OBVIOUS
            <3>3. new = With(symbols, key, entry)
                BY <3>1, <3>2
            <3>4. /\ DOMAIN new = DOMAIN symbols \cup {key} /\ new[key] = entry
                  /\ \A m \in DOMAIN symbols : m # key => new[m] = symbols[m]
                BY <3>3, Zenon DEF With
            <3> QED BY <3>2, <3>4
        <2>4. CASE k = key
            BY <2>1, <2>2, <2>3, <2>4 DEF SameSymbol, Fixed
        <2>5. CASE k # key
            BY <2>3, <2>5 DEF SameSymbol, Fixed
        <2> QED BY <2>4, <2>5
    <1> QED BY <1>1, <1>2

LEMMA DoesKeeps ==
    ASSUME SymbolType, NEW e, Does(e), pass \in {0, 1}, NEW k, Fixed(k),
           ~(pass = 0 /\ e[1] = "assign" /\ e[2] = k /\ ~e[3])
    PROVE  SameSymbol(k)
    <1>1. CASE Labels(e)
        <2>1. PICK name, flags : "UNDEFINED" \notin flags /\ Adds(Key(name), DOT, flags, current)
            BY <1>1, Zenon DEF Labels
        <2> QED BY <2>1, AddKeeps
    <1>2. CASE Assigns(e)
        <2>1. PICK key, simple, section, value, flags :
                /\ e = <<"assign", key, simple, section, value>> /\ simple \in BOOLEAN
                /\ "UNDEFINED" \notin flags
                /\ simple => Adds(key, value, flags, section)
                /\ ~simple /\ pass = 0 => Adds(key, 0, {"UNDEFINED"}, Abs)
                /\ ~simple /\ pass = 1 => symbols' = symbols
            BY <1>2, Zenon DEF Assigns
        <2>2. e[1] = "assign" /\ e[2] = key /\ e[3] = simple
            BY <2>1
        <2>3. CASE simple
            BY <2>1, <2>3, AddKeeps
        <2>4. CASE ~simple /\ pass = 0
            <3>1. k # key
                BY <2>2, <2>4
            <3> QED BY <2>1, <2>4, <3>1, AddKeeps
        <2>5. CASE ~simple /\ pass = 1
            BY <2>1, <2>5 DEF SameSymbol, Fixed
        <2> QED BY <2>1, <2>3, <2>4, <2>5
    <1>3. CASE Globals(e)
        <2>1. PICK key : IF key \in DOMAIN symbols
                         THEN symbols' = [symbols EXCEPT ![key].flags = @ \cup {"GLOBAL"}]
                         ELSE Adds(key, 0, {"GLOBAL"}, Abs)
            BY <1>3, Zenon DEF Globals
        <2>2. CASE key \in DOMAIN symbols
            <3>1. symbols' = [symbols EXCEPT ![key] = [symbols[key] EXCEPT !.flags = @ \cup {"GLOBAL"}]]
                BY <2>1, <2>2
            <3>2. symbols'[k].value = symbols[k].value /\ symbols'[k].section = symbols[k].section
                  /\ symbols'[k].flags \in {symbols[k].flags, symbols[k].flags \cup {"GLOBAL"}}
                  /\ DOMAIN symbols' = DOMAIN symbols
                <4>1. CASE k = key
                    <5>1. symbols'[k] = [symbols[k] EXCEPT !.flags = @ \cup {"GLOBAL"}]
                        BY <2>2, <3>1, <4>1
                    <5>2. "flags" \in DOMAIN symbols[k]
                        BY DEF Fixed, SymbolType, Symbol
                    <5> QED BY <3>1, <5>1, <5>2
                <4>2. CASE k # key
                    BY <3>1, <4>2 DEF Fixed
                <4> QED BY <4>1, <4>2
            <3> QED BY <3>2 DEF SameSymbol, Fixed
        <2>3. CASE key \notin DOMAIN symbols
            <3>1. k # key
                BY <2>3 DEF Fixed
            <3> QED BY <2>1, <2>3, <3>1, AddKeeps
        <2> QED BY <2>2, <2>3
    <1>4. CASE Stores(e)
        <2>1. symbols' = symbols
            BY <1>4, Zenon DEF Stores
        <2> QED BY <2>1 DEF SameSymbol, Fixed
    <1>5. CASE Others(e)
        BY <1>5 DEF SameSymbol, Fixed, Others
    <1> QED BY <1>1, <1>2, <1>3, <1>4, <1>5 DEF Does

LEMMA AddPermanent ==
    ASSUME PermanentDefined, NEW key, NEW value, NEW flags, NEW section,
           Adds(key, value, flags, section), "PERMANENT" \in flags => "DEFINITION" \in flags
    PROVE  PermanentDefined'
    <1>1. CASE symbols' = symbols
        BY <1>1 DEF PermanentDefined
    <1>2. CASE symbols' # symbols
        <2>1. PICK all :
                 /\ symbols' = With(symbols, key, [value |-> value, section |-> section,
                                                   flags |-> all])
                 /\ \A f \in flags : f \in all
                 /\ "PERMANENT" \in all => \/ "PERMANENT" \in flags
                                           \/ /\ key \in DOMAIN symbols
                                              /\ "PERMANENT" \in symbols[key].flags
                 /\ key \in DOMAIN symbols /\ "DEFINITION" \in symbols[key].flags
                       => "DEFINITION" \in all
            BY <1>2, AddIs
        <2>2. "PERMANENT" \in all => "DEFINITION" \in all
            BY <2>1 DEF PermanentDefined
        <2>3. PICK entry : entry = [value |-> value, section |-> section, flags |-> all]
            OBVIOUS
        <2>4. entry.flags = all /\ symbols' = With(symbols, key, entry)
            BY <2>1, <2>3
        <2> QED BY <2>2, <2>4 DEF PermanentDefined, With
    <1> QED BY <1>1, <1>2

LEMMA DoesPermanent ==
    ASSUME SymbolType, PermanentDefined, NEW e, Does(e), pass \in {0, 1}
    PROVE  PermanentDefined'
    <1>1. CASE Labels(e)
        <2>1. PICK name, flags : /\ {"PERMANENT", "DEFINITION"} \subseteq flags
                                 /\ Adds(Key(name), DOT, flags, current)
            BY <1>1, Zenon DEF Labels
        <2> QED BY <2>1, AddPermanent
    <1>2. CASE Assigns(e)
        <2>1. PICK key, simple, section, value, flags :
                /\ "DEFINITION" \in flags /\ simple \in BOOLEAN
                /\ simple => Adds(key, value, flags, section)
                /\ ~simple /\ pass = 0 => Adds(key, 0, {"UNDEFINED"}, Abs)
                /\ ~simple /\ pass = 1 => symbols' = symbols
            BY <1>2, Zenon DEF Assigns
        <2>2. CASE simple
            BY <2>1, <2>2, AddPermanent
        <2>3. CASE ~simple /\ pass = 0
            <3>1. "PERMANENT" \notin {"UNDEFINED"}
                OBVIOUS
            <3> QED BY <2>1, <2>3, <3>1, AddPermanent
        <2>4. CASE ~simple /\ pass = 1
            BY <2>1, <2>4 DEF PermanentDefined
        <2> QED BY <2>1, <2>2, <2>3, <2>4
    <1>3. CASE Globals(e)
        <2>1. PICK key : IF key \in DOMAIN symbols
                         THEN symbols' = [symbols EXCEPT ![key].flags = @ \cup {"GLOBAL"}]
                         ELSE Adds(key, 0, {"GLOBAL"}, Abs)
            BY <1>3, Zenon DEF Globals
        <2>2. CASE key \in DOMAIN symbols
            <3>1. symbols' = [symbols EXCEPT ![key] = [symbols[key] EXCEPT !.flags = @ \cup {"GLOBAL"}]]
                BY <2>1, <2>2
            <3>2. \A k \in DOMAIN symbols : symbols[k] \in Symbol
                BY DEF SymbolType
            <3>3. symbols'[key] = [symbols[key] EXCEPT !.flags = @ \cup {"GLOBAL"}]
                BY <2>2, <3>1
            <3>4. symbols'[key].flags = symbols[key].flags \cup {"GLOBAL"}
                BY <2>2, <3>2, <3>3 DEF Symbol
            <3>5. DOMAIN symbols' = DOMAIN symbols /\ \A k \in DOMAIN symbols : k # key => symbols'[k] = symbols[k]
                BY <3>1
            <3> QED BY <2>2, <3>4, <3>5 DEF PermanentDefined
        <2>3. CASE key \notin DOMAIN symbols
            <3>1. "PERMANENT" \notin {"GLOBAL"}
                OBVIOUS
            <3> QED BY <2>1, <2>3, <3>1, AddPermanent
        <2> QED BY <2>2, <2>3
    <1>4. CASE Stores(e) \/ Others(e)
        <2>1. symbols' = symbols
            BY <1>4, Zenon DEF Stores, Others
        <2> QED BY <2>1 DEF PermanentDefined
    <1> QED BY <1>1, <1>2, <1>3, <1>4 DEF Does

LEMMA KeyName ==
    ASSUME NEW name
    PROVE  Key(name)[1] = name
    BY DEF Key

(* A label makes a symbol fixed; if it is not refused, at "." .            *)
LEMMA LabelFixes ==
    ASSUME NEW key, NEW dot, NEW flags, NEW section, Adds(key, dot, flags, section),
           {"PERMANENT", "DEFINITION"} \subseteq flags, "UNDEFINED" \notin flags
    PROVE  /\ Fixed(key)'
           /\ add_sym(key, dot, flags, section).ok =>
                 symbols'[key].value = dot /\ symbols'[key].section = section
    <1>1. CASE ~add_sym(key, dot, flags, section).ok /\ symbols' = symbols
        <2>1. \/ /\ key \in DOMAIN symbols
                 /\ "PERMANENT" \in symbols[key].flags
                 /\ "UNDEFINED" \in symbols[key].flags => "UNDEFINED" \in flags
              \/ \E all : /\ symbols' = With(symbols, key, [value |-> dot, section |-> section,
                                                            flags |-> all])
                          /\ \A f \in flags : f \in all
                          /\ "UNDEFINED" \notin flags => "UNDEFINED" \notin all
            BY AddIs, SMTT(60)
        <2>2. CASE /\ key \in DOMAIN symbols
                   /\ "PERMANENT" \in symbols[key].flags
                   /\ "UNDEFINED" \in symbols[key].flags => "UNDEFINED" \in flags
            BY <1>1, <2>2 DEF Fixed
        <2>3. CASE \E all : /\ symbols' = With(symbols, key, [value |-> dot, section |-> section,
                                                              flags |-> all])
                            /\ \A f \in flags : f \in all
                            /\ "UNDEFINED" \notin flags => "UNDEFINED" \notin all
            BY <1>1, <2>3 DEF Fixed, With
        <2> QED BY <1>1, <2>1, <2>2, <2>3
    <1>2. CASE ~(~add_sym(key, dot, flags, section).ok /\ symbols' = symbols)
        <2>1. PICK all : /\ symbols' = With(symbols, key, [value |-> dot, section |-> section,
                                                           flags |-> all])
                         /\ \A f \in flags : f \in all
                         /\ "UNDEFINED" \notin flags => "UNDEFINED" \notin all
            BY <1>2, AddIs
        <2>2. PICK entry : entry = [value |-> dot, section |-> section, flags |-> all]
            OBVIOUS
        <2>3. DOMAIN symbols' = DOMAIN symbols \cup {key} /\ symbols'[key] = entry
            BY <2>1, <2>2, Zenon DEF With
        <2>4. entry.value = dot /\ entry.section = section /\ entry.flags = all
            BY <2>2
        <2> QED BY <2>1, <2>3, <2>4 DEF Fixed
    <1> QED BY <1>1, <1>2

(* The labels that are steady after a statement of the first pass; the     *)
(* second one changes nothing about that.                                  *)
LEMMA SteadyAfter ==
    ASSUME NEW e, NEW n, Entered(e, n), NEW k, Steady(k)'
    PROVE  /\ pass = 1 => Steady(k)
           /\ pass = 0 => \/ Steady(k) /\ ~(e[1] = "assign" /\ e[2] = k /\ ~e[3])
                          \/ e[1] = "label" /\ e[2] = k
    <1>1. PICK i \in Entries(0, "label")' :
             /\ traces'[0][i][2] = k
             /\ \A j \in Entries(0, "assign")' : j > i /\ traces'[0][j][2] = k => traces'[0][j][3]
        BY DEF Steady
    <1>2. CASE pass = 1
        <2>1. traces'[0] = traces[0]
            BY <1>2 DEF Entered
        <2>2. Entries(0, "label")' = Entries(0, "label") /\ Entries(0, "assign")' = Entries(0, "assign")
            BY <2>1 DEF Entries
        <2> QED BY <1>1, <1>2, <2>1, <2>2 DEF Steady
    <1>3. CASE pass = 0
        <2>1. /\ DOMAIN traces'[0] = DOMAIN traces[0] \cup {n}
              /\ \A j \in DOMAIN traces[0] : traces'[0][j] = traces[0][j] /\ j < n /\ j \in Nat
              /\ traces'[0][n] = e /\ n \in Nat
            BY <1>3 DEF Entered
        <2>2. CASE i = n
            BY <1>1, <1>3, <2>1, <2>2 DEF Entries
        <2>3. CASE i # n
            <3>1. i \in Entries(0, "label") /\ traces[0][i][2] = k /\ n > i
                BY <1>1, <2>1, <2>3 DEF Entries
            <3>2. \A j \in Entries(0, "assign") :
                     j \in Entries(0, "assign")' /\ traces'[0][j] = traces[0][j]
                BY <2>1 DEF Entries
            <3>3. \A j \in Entries(0, "assign") : j > i /\ traces[0][j][2] = k => traces[0][j][3]
                BY <1>1, <3>2, Zenon
            <3>4. Steady(k)
                BY <3>1, <3>3, Zenon DEF Steady
            <3>5. e[1] = "assign" /\ e[2] = k => e[3]
                <4>1. e[1] = "assign" => n \in Entries(0, "assign")'
                    BY <2>1 DEF Entries
                <4> QED BY <1>1, <2>1, <3>1, <4>1
            <3> QED BY <1>3, <3>4, <3>5
        <2> QED BY <2>2, <2>3
    <1> QED BY <1>2, <1>3 DEF Entered

LEMMA AssembleSymbols ==
    ASSUME Types, TracesOK, SymbolsOK, assemble
    PROVE  SymbolsOK'
    <1>1. pass' = pass /\ directory' = directory /\ pass \in {0, 1}
        BY DEF assemble, TracesOK
    <1>2. PICK e : Does(e)
        BY AssembleDoes
    <1>3. PICK n : Entered(e, n)
        BY <1>1, <1>2, NoteEnters DEF Does
    <1>4. SymbolType /\ SectionType
        BY DEF Types
    <1>5. PermanentDefined'
        BY <1>1, <1>2, <1>4, DoesPermanent DEF SymbolsOK
    (* A label of this statement is fixed, and at its place unless that was*)
    (* refused.                                                            *)
    <1>6. ASSUME e[1] = "label"
          PROVE  /\ Fixed(e[2])' /\ e[2][1] \notin {"", "."}
                 /\ pass = 1 /\ ~reported' => /\ symbols'[e[2]].section = e[3]
                                              /\ symbols'[e[2]].value = e[4]
        <2>1. Labels(e)
            BY <1>2, <1>6, KindsAre DEF Does
        <2>2. PICK name, flags :
                /\ e = <<"label", Key(name), current, DOT>> /\ name \notin {"", "."}
                /\ {"PERMANENT", "DEFINITION"} \subseteq flags
                /\ "UNDEFINED" \notin flags
                /\ Adds(Key(name), DOT, flags, current)
                /\ pass = 1 /\ ~reported' => add_sym(Key(name), DOT, flags, current).ok
            BY <2>1, Zenon DEF Labels
        <2>3. e[2] = Key(name) /\ e[3] = current /\ e[4] = DOT
            BY <2>2
        <2>4. Key(name)[1] = name
            BY KeyName
        <2>5. PICK key, dot : key = Key(name) /\ dot = DOT
            OBVIOUS
        <2>6. /\ Fixed(key)'
              /\ add_sym(key, dot, flags, current).ok =>
                    symbols'[key].value = dot /\ symbols'[key].section = current
            BY <2>2, <2>5, LabelFixes
        <2> QED BY <2>2, <2>3, <2>4, <2>5, <2>6
    <1>7. LabelsNamed'
        <2> SUFFICES ASSUME NEW p \in {0, 1}, NEW i \in Entries(p, "label")'
                     PROVE  traces'[p][i][2][1] \notin {"", "."}
            BY DEF LabelsNamed
        <2>1. CASE p # pass
            <3>1. i \in Entries(p, "label") /\ traces'[p] = traces[p]
                BY <1>3, <2>1, EntriesAre DEF Entered
            <3> QED BY <3>1 DEF SymbolsOK, LabelsNamed
        <2>2. CASE p = pass /\ i = n
            <3>1. traces'[p][i] = e /\ e[1] = "label"
                BY <1>3, <2>2 DEF Entered, Entries
            <3> QED BY <1>6, <3>1
        <2>3. CASE p = pass /\ i # n
            <3>1. i \in Entries(p, "label") /\ traces'[p][i] = traces[p][i]
                BY <1>3, <2>3 DEF Entered, Entries
            <3> QED BY <3>1 DEF SymbolsOK, LabelsNamed
        <2> QED BY <2>1, <2>2, <2>3
    <1>8. ASSUME NEW k, Steady(k)'
          PROVE  /\ Fixed(k)'
                 /\ pass = 1 => Steady(k) /\ SameSymbol(k)
        <2>1. CASE pass = 1
            <3>1. Steady(k)
                BY <1>3, <1>8, <2>1, SteadyAfter
            <3>2. Fixed(k)
                BY <3>1 DEF SymbolsOK, SteadyFixed
            <3>3. SameSymbol(k)
                BY <1>1, <1>2, <1>4, <2>1, <3>2, DoesKeeps
            <3> QED BY <3>1, <3>3 DEF SameSymbol
        <2>2. CASE pass = 0
            <3>1. \/ Steady(k) /\ ~(e[1] = "assign" /\ e[2] = k /\ ~e[3])
                  \/ e[1] = "label" /\ e[2] = k
                BY <1>3, <1>8, <2>2, SteadyAfter
            <3>2. CASE e[1] = "label" /\ e[2] = k
                <4>1. Fixed(e[2])'
                    BY <1>6, <3>2
                <4>2. PICK key : key = e[2]
                    OBVIOUS
                <4>3. Fixed(key)'
                    BY <4>1, <4>2
                <4> QED BY <2>2, <3>2, <4>2, <4>3
            <3>3. CASE Steady(k) /\ ~(e[1] = "assign" /\ e[2] = k /\ ~e[3])
                <4>1. Fixed(k)
                    BY <3>3 DEF SymbolsOK, SteadyFixed
                <4>2. SameSymbol(k)
                    BY <1>1, <1>2, <1>4, <3>3, <4>1, DoesKeeps
                <4> QED BY <2>2, <4>2 DEF SameSymbol
            <3> QED BY <3>1, <3>2, <3>3
        <2> QED BY <1>1, <2>1, <2>2
    <1>9. SteadyFixed'
        BY <1>8 DEF SteadyFixed
    <1>10. LabelsPlaced'
        <2> SUFFICES ASSUME NEW k, pass = 1, ~reported', Steady(k)',
                            NEW i \in Entries(1, "label")', traces'[1][i][2] = k
                     PROVE  /\ symbols'[k].section = traces'[1][i][3]
                            /\ symbols'[k].value = traces'[1][i][4]
            BY <1>1 DEF LabelsPlaced
        <2>1. CASE i = n
            <3>1. traces'[1][i] = e /\ e[1] = "label"
                BY <1>3, <2>1 DEF Entered, Entries
            <3> QED BY <1>6, <3>1
        <2>2. CASE i # n
            <3>1. i \in Entries(1, "label") /\ traces'[1][i] = traces[1][i]
                BY <1>3, <2>2 DEF Entered, Entries
            <3>2. Steady(k) /\ SameSymbol(k)
                BY <1>8
            <3>3. ~reported
                BY <1>2 DEF Does
            <3>4. symbols[k].section = traces[1][i][3] /\ symbols[k].value = traces[1][i][4]
                BY <3>1, <3>2, <3>3 DEF SymbolsOK, LabelsPlaced
            <3> QED BY <3>1, <3>2, <3>4 DEF SameSymbol
        <2> QED BY <2>1, <2>2
    <1>11. WordsResolved'
        <2>1. ASSUME NEW k, Steady(k)', NEW w \in stored, w.key = k
              PROVE  w.section = symbols'[k].section /\ w.value = Host(symbols'[k].value + w.off)
            <3>1. pass = 1
                BY <1>1 DEF SymbolsOK, WordsResolved
            <3>2. Steady(k) /\ SameSymbol(k)
                BY <1>8, <2>1, <3>1
            <3>3. w.section = symbols[k].section /\ w.value = Host(symbols[k].value + w.off)
                BY <2>1, <3>2 DEF SymbolsOK, WordsResolved
            <3> QED BY <3>2, <3>3 DEF SameSymbol
        <2>2. CASE stored' = stored
            <3>1. pass' = 0 => stored' = {}
                BY <1>1, <2>2 DEF SymbolsOK, WordsResolved
            <3> QED BY <2>1, <2>2, <3>1 DEF WordsResolved
        <2>3. CASE stored' # stored
            <3>1. Stores(e) /\ pass = 1
                BY <1>1, <1>2, <2>3 DEF Does, Labels, Assigns, Globals, Others, Stores
            <3>2. pass # 0
                BY <3>1
            <3>3. PICK val, at, v :
                    /\ v = Evaluate([val EXCEPT !.off = IF val.sym = "." THEN @ + (DOT % 2) ELSE @])
                    /\ val \in Value /\ symbols' = symbols
                    /\ stored' = stored \cup {[key |-> Key(val.sym), off |-> val.off, type |-> v.type,
                                               section |-> v.section, value |-> v.value,
                                               at |-> <<current, at>>]}
                BY <3>1, <3>2, Zenon DEF Stores
            <3>4. PICK w : w = [key |-> Key(val.sym), off |-> val.off, type |-> v.type,
                                section |-> v.section, value |-> v.value, at |-> <<current, at>>]
                OBVIOUS
            <3>5. w.key = Key(val.sym) /\ w.off = val.off /\ w.section = v.section /\ w.value = v.value
                BY <3>4
            <3>6. ASSUME NEW k, Steady(k)', k = Key(val.sym)
                  PROVE  v.section = symbols[k].section /\ v.value = Host(symbols[k].value + val.off)
                <4>1. Steady(k)
                    BY <1>8, <3>1, <3>6
                <4>2. Fixed(k)
                    BY <4>1 DEF SymbolsOK, SteadyFixed
                <4>3. val.sym \notin {"", "."}
                    <5>1. PICK i \in Entries(0, "label") : traces[0][i][2] = k
                        BY <4>1 DEF Steady
                    <5>2. k[1] \notin {"", "."}
                        BY <5>1 DEF SymbolsOK, LabelsNamed
                    <5>3. k[1] = val.sym
                        BY <3>6, KeyName
                    <5> QED BY <5>2, <5>3
                <4>4. ~IsGlobalRef(symbols[k])
                    BY <4>2 DEF SymbolsOK, PermanentDefined, Fixed, IsGlobalRef
                <4>5. [val EXCEPT !.off = IF val.sym = "." THEN @ + (DOT % 2) ELSE @] = val
                    BY <3>3, <4>3 DEF Value
                <4>6. Evaluate(val) = [type |-> IF symbols[k].section = Abs THEN "lit" ELSE "sym",
                                       section |-> symbols[k].section,
                                       value |-> Host(symbols[k].value + val.off)]
                    <5>1. val.sym # "" /\ val.sym # "."
                        BY <4>3
                    <5>2. k \in DOMAIN symbols
                        BY <4>2 DEF Fixed
                    <5> QED BY <3>6, <4>4, <5>1, <5>2, Zenon DEF Evaluate
                <4>7. v = Evaluate(val)
                    BY <3>3, <4>5
                <4> QED BY <4>6, <4>7
            <3>7. \A x \in stored' : x \in stored \/ x = w
                BY <3>3, <3>4
            <3>8. ASSUME NEW k, Steady(k)', w.key = k
                  PROVE  w.section = symbols'[k].section /\ w.value = Host(symbols'[k].value + w.off)
                BY <3>3, <3>5, <3>6, <3>8
            <3> QED BY <1>1, <2>1, <3>1, <3>7, <3>8 DEF WordsResolved
        <2> QED BY <2>2, <2>3
    <1>12. GlobalsWritten'
        <2> SUFFICES ASSUME NEW k, pass = 1, k \in DOMAIN directory.globals, Steady(k)'
                     PROVE  /\ directory.globals[k].section = symbols'[k].section
                            /\ directory.globals[k].value = symbols'[k].value
            BY <1>1 DEF GlobalsWritten
        <2>1. Steady(k) /\ SameSymbol(k)
            BY <1>8
        <2> QED BY <2>1 DEF SymbolsOK, GlobalsWritten, SameSymbol
    <1> QED BY <1>5, <1>7, <1>9, <1>10, <1>11, <1>12 DEF SymbolsOK

ImageOK == CallsOK /\ SymbolsOK /\ SizesOK

LEMMA ImageKept ==
    ASSUME Types, ImageOK, [Next]_vars
    PROVE  ImageOK'
    <1>1. CallsOK'
        BY CallsKept DEF ImageOK
    <1>2. TracesOK
        BY DEF ImageOK, CallsOK
    <1>3. CASE assemble
        BY <1>1, <1>2, <1>3, AssembleSymbols, AssembleSizes DEF ImageOK
    <1>4. CASE SecondPass
        <2>1. /\ pass = 0 /\ pass' = 1 /\ UNCHANGED <<traces, stored>>
              /\ symbols' = migrate_implicit /\ directory' = write_globals(symbols')
            BY <1>4 DEF SecondPass
        <2>2. stored = {} /\ traces[1] = <<>>
            BY <1>2, <2>1 DEF ImageOK, SymbolsOK, WordsResolved, TracesOK
        <2>3. \A p, kind : Entries(p, kind)' = Entries(p, kind)
            BY <2>1 DEF Entries
        <2>4. \A k : Steady(k)' <=> Steady(k)
            BY <2>1, <2>3 DEF Steady
        <2>5. Entries(1, "label") = {}
            BY <2>2 DEF Entries
        <2>6. /\ DOMAIN symbols' = DOMAIN symbols \cup implicit
              /\ \A k \in DOMAIN symbols : symbols'[k] = symbols[k]
              /\ \A k \in DOMAIN symbols' : k \in DOMAIN symbols
                                            \/ symbols'[k].flags = {"GLOBAL"}
            BY <2>1 DEF migrate_implicit
        <2>7. PermanentDefined'
            BY <2>6 DEF ImageOK, SymbolsOK, PermanentDefined
        <2>8. LabelsNamed'
            BY <2>1, <2>3 DEF ImageOK, SymbolsOK, LabelsNamed
        <2>9. SteadyFixed'
            BY <2>4, <2>6 DEF ImageOK, SymbolsOK, SteadyFixed, Fixed
        <2>10. LabelsPlaced'
            BY <2>3, <2>5 DEF LabelsPlaced
        <2>11. WordsResolved'
            BY <2>1, <2>2 DEF WordsResolved
        <2>12. GlobalsWritten'
            <3>1. \A k \in DOMAIN directory'.globals : directory'.globals[k] = symbols'[k]
                BY <2>1 DEF write_globals
            <3> QED BY <3>1 DEF GlobalsWritten
        <2>13. WordsFit'
            <3>1. directory'.sizes = size
                BY <2>1 DEF write_globals
            <3>2. Sizes' = Sizes
                BY <2>1, <3>1 DEF Sizes
            <3> QED BY <2>1, <2>3, <3>2 DEF ImageOK, SizesOK, WordsFit, Fits
        <2>14. WordsNoted'
            BY <2>1, <2>2 DEF WordsNoted
        <2> QED BY <1>1, <2>7, <2>8, <2>9, <2>10, <2>11, <2>12, <2>13, <2>14
                DEF ImageOK, SymbolsOK, SizesOK
    <1>5. CASE Finish \/ UNCHANGED vars
        <2>1. UNCHANGED <<pass, traces, stored, symbols, directory, size>> /\ (reported => reported')
            <3>1. CASE Finish
                <4>1. UNCHANGED <<pass, directory, symbolVars, sectionVars, traces, stored>>
                    BY <3>1 DEF Finish
                <4>2. \E open : reported' = (reported \/ open # <<>>)
                    BY <3>1, Zenon DEF Finish
                <4>3. reported => reported'
                    BY <4>2, Zenon
                <4> QED BY <4>1, <4>3 DEF symbolVars, sectionVars
            <3>2. CASE UNCHANGED vars
                BY <3>2 DEF vars, passVars, symbolVars, sectionVars, resultVars
            <3> QED BY <1>5, <3>1, <3>2
        <2>2. \A p, kind : Entries(p, kind)' = Entries(p, kind)
            BY <2>1 DEF Entries
        <2>3. \A k : (Steady(k)' <=> Steady(k)) /\ (Fixed(k)' <=> Fixed(k))
            BY <2>1, <2>2 DEF Steady, Fixed
        <2>4. SymbolsOK'
            BY <2>1, <2>2, <2>3 DEF ImageOK, SymbolsOK, PermanentDefined, LabelsNamed, SteadyFixed,
                                    LabelsPlaced, WordsResolved, GlobalsWritten
        <2>5. SizesOK'
            BY <2>1, <2>2 DEF ImageOK, SizesOK, WordsFit, WordsNoted, Fits, Sizes
        <2> QED BY <1>1, <2>4, <2>5 DEF ImageOK
    <1> QED BY <1>3, <1>4, <1>5 DEF Next

LEMMA InitImage == Init => ImageOK
    <1> SUFFICES ASSUME Init PROVE ImageOK
        OBVIOUS
    <1>1. /\ traces = [p \in {0, 1} |-> <<>>] /\ pass = 0 /\ symbols = <<>> /\ stored = {}
        BY DEF Init, Start
    <1>2. \A kind : \A p \in {0, 1} : Entries(p, kind) = {}
        BY <1>1 DEF Entries
    <1>3. \A k : ~Steady(k)
        BY <1>2 DEF Steady
    <1>4. DOMAIN symbols = {}
        BY <1>1
    <1>5. SymbolsOK
        BY <1>1, <1>2, <1>3, <1>4 DEF SymbolsOK, PermanentDefined, LabelsNamed, SteadyFixed,
                                      LabelsPlaced, WordsResolved, GlobalsWritten
    <1>6. SizesOK
        BY <1>1, <1>2 DEF SizesOK, WordsFit, WordsNoted
    <1> QED BY <1>5, <1>6, InitCalls DEF ImageOK

LEMMA ImageAlways == Spec => [](Types /\ ImageOK)
    <1> DEFINE I == Types /\ SourceOK /\ ImageOK
    <1>1. Init => I
        BY InitTypes, InitImage, ProgramsAssumption DEF Init, SourceOK
    <1>2. I /\ [Next]_vars => I'
        BY TypesKept, SourceKept, ImageKept DEF SourceOK
    <1>3. I => Types /\ ImageOK
        OBVIOUS
    <1> QED BY <1>1, <1>2, <1>3, PTL DEF Spec

(* A second pass without an error has put the address that each label      *)
(* turned out to have into every word that refers to it: the labels of the *)
(* first pass are permanent symbols with a definition, no statement of the *)
(* second moves them, and one that comes out elsewhere is reported.        *)
THEOREM ReferencesResolvedAlways == Spec => []ReferencesResolved
    <1>1. ImageOK => ReferencesResolved
        <2> SUFFICES ASSUME ImageOK, ~reported, NEW w \in stored, NEW i \in Entries(1, "label"),
                            Steady(traces[1][i][2]), w.key = traces[1][i][2]
                     PROVE  w.section = traces[1][i][3] /\ w.value = Host(traces[1][i][4] + w.off)
            BY DEF ReferencesResolved
        <2>1. pass = 1
            BY DEF ImageOK, CallsOK, TracesOK, SymbolsOK, WordsResolved
        <2>2. PICK k : k = w.key
            OBVIOUS
        <2>3. Steady(k) /\ traces[1][i][2] = k
            BY <2>2
        <2>4. w.section = symbols[k].section /\ w.value = Host(symbols[k].value + w.off)
            BY <2>2, <2>3 DEF ImageOK, SymbolsOK, WordsResolved
        <2>5. symbols[k].section = traces[1][i][3] /\ symbols[k].value = traces[1][i][4]
            BY <2>1, <2>3 DEF ImageOK, SymbolsOK, LabelsPlaced
        <2> QED BY <2>4, <2>5
    <1> QED BY <1>1, ImageAlways, PTL

(* The directory that goes out between the passes holds for the second one.*)
THEOREM DirectoryHoldsAlways == Spec => []DirectoryHolds
    <1>1. ImageOK => DirectoryHolds
        <2>1. ASSUME ImageOK, traces[0] = traces[1], NEW w \in stored, w.at[2] + 2 < HostSize
              PROVE  w.at[2] + 2 <= directory.sizes[w.at[1]]
            <3>1. pass = 1
                BY <2>1 DEF ImageOK, CallsOK, TracesOK, SymbolsOK, WordsResolved
            <3>2. PICK i \in Entries(1, "word") : w.at = <<traces[1][i][3], traces[1][i][4]>>
                BY <2>1 DEF ImageOK, SizesOK, WordsNoted
            <3>3. i \in Entries(0, "word") /\ traces[0][i] = traces[1][i]
                BY <2>1, <3>2 DEF Entries
            <3>4. w.at[1] = traces[0][i][3] /\ w.at[2] = traces[0][i][4]
                BY <3>2, <3>3
            <3>5. Fits(w.at[1], w.at[2])
                BY <2>1, <3>3, <3>4 DEF ImageOK, SizesOK, WordsFit
            <3> QED BY <2>1, <3>1, <3>5 DEF Fits, Sizes
        <2>2. ASSUME ImageOK, ~reported, NEW i \in Entries(1, "label"), Steady(traces[1][i][2]),
                     traces[1][i][2] \in DOMAIN directory.globals
              PROVE  /\ directory.globals[traces[1][i][2]].section = traces[1][i][3]
                     /\ directory.globals[traces[1][i][2]].value = traces[1][i][4]
            <3>1. pass = 1
                <4>1. traces[1] # <<>>
                    BY DEF Entries
                <4> QED BY <2>2, <4>1 DEF ImageOK, CallsOK, TracesOK
            <3>2. PICK k : k = traces[1][i][2]
                OBVIOUS
            <3>3. symbols[k].section = traces[1][i][3] /\ symbols[k].value = traces[1][i][4]
                BY <2>2, <3>1, <3>2 DEF ImageOK, SymbolsOK, LabelsPlaced
            <3>4. /\ directory.globals[k].section = symbols[k].section
                  /\ directory.globals[k].value = symbols[k].value
                BY <2>2, <3>1, <3>2 DEF ImageOK, SymbolsOK, GlobalsWritten
            <3> QED BY <3>2, <3>3, <3>4
        <2> QED BY <2>1, <2>2 DEF DirectoryHolds
    <1> QED BY <1>1, ImageAlways, PTL

-----------------------------------------------------------------------------
(* The two passes.  What a pass reads depends on the state r of its input, *)
(* of its own macros, local blocks and sections, and of nothing else: not  *)
(* on the symbols, except through the entry e that a statement leaves in   *)
(* the trace.  saved is the section at the top of sect_stack, if this pass *)
(* has put it there.                                                       *)
Got(r) == stack_gets([stack |-> r.stack, conds |-> r.conds])

Told(r) == IF Got(r).line.op = "iif" THEN Got(r).line.rest[1] ELSE Got(r).line

StmtnoAfter(r) == r.stmtno + (IF r.suppressed = 0 /\ Got(r).line.op = "iif" THEN 2 ELSE 1)

FirstOf(r) == IF r.last_lsb # r.lsb THEN FirstNumber ELSE r.last_locsym

ExpansionOf(r) == Expansion(r.macros[Told(r).name], Told(r).list, FirstOf(r))

BodyOf(r) == read_body(Got(r).in, IF Told(r).op = "macro" THEN Told(r).name ELSE "")

KeyOf(r, name) == IF IsLocal(name) THEN <<name, r.lsb>> ELSE <<name>>

(* What a statement notes that no expression decides.                      *)
WordNoted(r, val) ==
    LET dot == r.pc[r.current] IN <<"word", val, r.current, Host(dot + (dot % 2))>>

CallNoted(r) == <<"call", Told(r).name, r.lsb, FirstOf(r) .. ExpansionOf(r).next - 1>>

Noted(r) ==
    LET l == Told(r)
    IN IF r.suppressed > 0 THEN <<"skipped", Got(r).line.op>>
       ELSE IF l.op = "label" THEN <<"label", KeyOf(r, l.name), r.current, r.pc[r.current]>>
       ELSE IF l.op = "word" THEN WordNoted(r, l.val)
       ELSE IF l.op = "call" /\ l.name \in DOMAIN r.macros THEN CallNoted(r)
       ELSE IF l.op = "call" THEN WordNoted(r, [sym |-> l.name, off |-> 0])
       ELSE IF l.op \in {"psect", "macro", "irp", "globl"} THEN <<l.op, l.name>>
       ELSE <<l.op>>

(* The state after an entry, in parts.                                     *)
Pushed(s, in) == [stack |-> <<s>> \o in.stack, conds |-> in.conds]

Ended(in) == [stack |-> in.stack,
              conds |-> IF in.conds = <<>> THEN <<>> ELSE pop_cond(in.conds, Len(in.conds) - 1)]

InputAfter(r, e) ==
    LET in == Got(r).in
        b == BodyOf(r)
    IN IF e[1] = "call"
       THEN Pushed([kind |-> "macro", lines |-> ExpansionOf(r).lines, at |-> 1,
                    cond |-> Len(in.conds)], in)
       ELSE IF e[1] = "mexit"
       THEN IF in.stack # <<>> /\ Head(in.stack).kind # "file" THEN stack_pop(in, 1) ELSE in
       ELSE IF e[1] = "macro" THEN b.in
       ELSE IF e[1] = "rept" /\ e[2] = "lit"
       THEN Pushed([kind |-> "rept", lines |-> b.body, at |-> 1, count |-> e[3],
                    cond |-> Len(b.in.conds)], b.in)
       ELSE IF e[1] = "irp"
       THEN Pushed([kind |-> "irp", lines |-> <<>>, at |-> 1, body |-> b.body, arg |-> Told(r).name,
                    items |-> Told(r).list, cond |-> Len(b.in.conds)], b.in)
       ELSE IF e[1] = "if" THEN [stack |-> in.stack, conds |-> Append(in.conds, e[2])]
       ELSE IF e[1] = "endc" \/ (e[1] = "skipped" /\ e[2] = "endc" /\ r.suppressed = 1)
       THEN Ended(in)
       ELSE in

SuppressedAfter(r, e) ==
    LET open == Got(r).in.conds
        op == Got(r).line.op
        last == IF open = <<>> THEN FALSE ELSE Last(open)
    IN IF e[1] = "skipped" THEN Level(op, r.suppressed, last)
       ELSE IF e[1] = "stray" THEN Level(op, r.suppressed, e[2])
       ELSE IF e[1] = "if" THEN IF e[2] THEN 0 ELSE 1
       ELSE IF e[1] \in {"iff", "ift"} /\ open # <<>> /\ last = (e[1] = "iff") THEN 1
       ELSE 0

MacrosAfter(r, e) ==
    IF e[1] = "macro"
    THEN With(r.macros, Told(r).name, [args |-> Told(r).list, local |-> Told(r).opt,
                                       body |-> BodyOf(r).body, stmtno |-> StmtnoAfter(r)])
    ELSE r.macros

LsbAfter(r, e) ==
    IF (e[1] = "label" /\ ~r.enabl /\ ~IsLocal(Told(r).name)) \/ e[1] = "enabl"
    THEN r.lsb + 1 ELSE r.lsb

PcAfter(r, e) ==
    LET dot == r.pc[r.current]
    IN IF e[1] = "org" /\ e[2] THEN [r.pc EXCEPT ![r.current] = e[3]]
       ELSE IF e[1] = "blkb" /\ e[2] THEN [r.pc EXCEPT ![r.current] = Host(dot + e[3])]
       ELSE IF e[1] = "even" THEN [r.pc EXCEPT ![r.current] = Host(dot + (dot % 2))]
       ELSE IF e[1] = "word" THEN [r.pc EXCEPT ![r.current] = Host(e[4] + 2)]
       ELSE r.pc

Restores(r, e) == e[1] = "restore" /\ r.saved # NoSection

CurrentAfter(r, e) ==
    IF Restores(r, e) THEN r.saved ELSE IF e[1] = "psect" THEN e[2] ELSE r.current

SpAfter(r, e) == IF e[1] = "save" \/ Restores(r, e) THEN r.sp + 1 ELSE r.sp

SavedAfter(r, e) ==
    IF e[1] = "save" THEN r.current ELSE IF Restores(r, e) THEN NoSection ELSE r.saved

EnablAfter(r, e) ==
    IF e[1] = "enabl" THEN TRUE ELSE IF e[1] = "dsabl" THEN FALSE ELSE r.enabl

After(r, e) ==
    [stack |-> InputAfter(r, e).stack, conds |-> InputAfter(r, e).conds,
     suppressed |-> SuppressedAfter(r, e), stmtno |-> StmtnoAfter(r),
     macros |-> MacrosAfter(r, e), lsb |-> LsbAfter(r, e),
     last_lsb |-> IF e[1] = "call" THEN r.lsb ELSE r.last_lsb,
     last_locsym |-> IF e[1] = "call" THEN ExpansionOf(r).next ELSE r.last_locsym,
     enabl |-> EnablAfter(r, e), current |-> CurrentAfter(r, e), pc |-> PcAfter(r, e),
     sp |-> SpAfter(r, e), saved |-> SavedAfter(r, e)]

Beginning ==
    [stack |-> <<FileStream(source)>>, conds |-> <<>>, suppressed |-> 0, stmtno |-> 0,
     macros |-> <<>>, lsb |-> 0, last_lsb |-> -1, last_locsym |-> FirstNumber - 1, enabl |-> FALSE,
     current |-> "", pc |-> [s \in SectionNames |-> 0], sp |-> -1, saved |-> NoSection]

(* The program is in the state r: the macros of an earlier pass aside.     *)
MacrosAre(r) ==
    \A m \in DOMAIN r.macros :
        m \in DOMAIN macros /\ macros[m] = r.macros[m] /\ r.macros[m].stmtno <= stmtno

SavedIs(r) ==
    r.saved # NoSection => sect_sp \in DOMAIN sect_stack /\ sect_stack[sect_sp] = r.saved

Matches(r) ==
    /\ stack = r.stack /\ conds = r.conds /\ suppressed = r.suppressed /\ stmtno = r.stmtno
    /\ MacrosAre(r)
    /\ lsb = r.lsb /\ last_lsb = r.last_lsb /\ last_locsym = r.last_locsym /\ enabl_lsb = r.enabl
    /\ current = r.current /\ pc = r.pc /\ sect_sp = r.sp /\ SavedIs(r)

(* In the first pass what is saved has been saved by it.                   *)
OwnSaved(r) ==
    /\ r.saved = NoSection => sect_sp \notin DOMAIN sect_stack
    /\ \A i \in DOMAIN sect_stack : i <= sect_sp

(* A .RESTORE that goes on as well in one pass as in the other.            *)
Sound(r, e) == e[1] = "restore" => r.saved # NoSection \/ r.sp < 0

(* What a statement does to the state, in the same parts.                  *)
InputGoes(r, e) == stack' = InputAfter(r, e).stack /\ conds' = InputAfter(r, e).conds

MacrosGo(r, e) ==
    /\ \A m \in DOMAIN MacrosAfter(r, e) :
          m \in DOMAIN macros' /\ macros'[m] = MacrosAfter(r, e)[m]
          /\ MacrosAfter(r, e)[m].stmtno <= stmtno'
    /\ \A m \in DOMAIN macros' : m \in DOMAIN MacrosAfter(r, e)
                                 \/ (m \in DOMAIN macros /\ macros'[m] = macros[m])

BlocksGo(r, e) ==
    /\ lsb' = LsbAfter(r, e) /\ last_lsb' = IF e[1] = "call" THEN r.lsb ELSE r.last_lsb
    /\ last_locsym' = IF e[1] = "call" THEN ExpansionOf(r).next ELSE r.last_locsym
    /\ enabl_lsb' = EnablAfter(r, e)

PlaceGoes(r, e) ==
    /\ current' = CurrentAfter(r, e) /\ pc' = PcAfter(r, e) /\ sect_sp' = SpAfter(r, e)
    /\ SavedAfter(r, e) # NoSection =>
          sect_sp' \in DOMAIN sect_stack' /\ sect_stack'[sect_sp'] = SavedAfter(r, e)

SavedGoes(r, e) ==
    /\ SavedAfter(r, e) = NoSection => sect_sp' \notin DOMAIN sect_stack'
    /\ \A i \in DOMAIN sect_stack' : i <= sect_sp'

Follows(r, e) ==
    /\ Note(e)
    /\ e[1] \in Decides \/ e = Noted(r)
    /\ phase' = "reading" =>
          /\ InputGoes(r, e) /\ suppressed' = SuppressedAfter(r, e)
          /\ MacrosGo(r, e) /\ BlocksGo(r, e)
          /\ Sound(r, e) => PlaceGoes(r, e)
          /\ OwnSaved(r) => Sound(r, e) /\ SavedGoes(r, e)

(* The state in which a statement is assembled: in is the input after its  *)
(* line, and a macro that this pass has not defined is of a later one.     *)
Doing(r, in) ==
    /\ Types /\ InputOK(in) /\ Matches(r) /\ in = Got(r).in
    /\ stmtno' = StmtnoAfter(r) /\ stmtno < stmtno'
    /\ \A m \in DOMAIN macros : m \in DOMAIN r.macros \/ stmtno' <= macros[m].stmtno

Obeys(r, l, in) == Doing(r, in) /\ Taken(l, in) /\ r.suppressed = 0 /\ l = Told(r)

InputKinds == {"call", "mexit", "macro", "rept", "irp", "if", "endc", "skipped"}
LevelKinds == {"skipped", "stray", "if", "iff", "ift"}
BlockKinds == {"label", "call", "enabl", "dsabl"}
PlaceKinds == {"org", "blkb", "even", "word", "psect", "save", "restore"}

LEMMA InputKept ==
    ASSUME NEW r, NEW in, Doing(r, in), NEW e, e[1] \notin InputKinds, Into(in)
    PROVE  InputGoes(r, e)
    <1>1. InputAfter(r, e) = Got(r).in
        BY DEF InputAfter, InputKinds
    <1> QED BY <1>1 DEF InputGoes, Doing, Into

LEMMA MacrosKept ==
    ASSUME NEW r, NEW in, Doing(r, in), NEW e, e[1] # "macro", UNCHANGED macros
    PROVE  MacrosGo(r, e)
    <1>1. MacrosAfter(r, e) = r.macros
        BY DEF MacrosAfter
    <1>2. stmtno \in Int /\ stmtno' \in Int
        BY DEF Doing, Types, ResultType, Matches, StmtnoAfter
    <1>3. \A m \in DOMAIN r.macros : r.macros[m].stmtno \in Int
        BY DEF Doing, Types, MacroType, Matches, MacrosAre, Definition
    <1>4. \A m \in DOMAIN r.macros : r.macros[m].stmtno <= stmtno'
        BY <1>2, <1>3 DEF Doing, Matches, MacrosAre
    <1> QED BY <1>1, <1>4 DEF MacrosGo, Doing, Matches, MacrosAre

LEMMA BlocksKept ==
    ASSUME NEW r, NEW in, Doing(r, in), NEW e, e[1] \notin BlockKinds, UNCHANGED blockVars
    PROVE  BlocksGo(r, e)
    BY DEF BlocksGo, BlockKinds, blockVars, LsbAfter, EnablAfter, Doing, Matches

LEMMA PlaceKept ==
    ASSUME NEW r, NEW in, Doing(r, in), NEW e, e[1] \notin PlaceKinds,
           UNCHANGED <<current, pc, sect_stack, sect_sp>>
    PROVE  Sound(r, e) /\ PlaceGoes(r, e) /\ (OwnSaved(r) => SavedGoes(r, e))
    <1>1. /\ CurrentAfter(r, e) = r.current /\ PcAfter(r, e) = r.pc /\ SpAfter(r, e) = r.sp
          /\ SavedAfter(r, e) = r.saved
        BY DEF PlaceKinds, CurrentAfter, PcAfter, SpAfter, SavedAfter, Restores
    <1>2. Sound(r, e)
        BY DEF Sound, PlaceKinds
    <1>3. PlaceGoes(r, e)
        BY <1>1 DEF PlaceGoes, Doing, Matches, SavedIs
    <1>4. OwnSaved(r) => SavedGoes(r, e)
        BY <1>1 DEF OwnSaved, SavedGoes
    <1> QED BY <1>2, <1>3, <1>4

LEMMA LevelKept ==
    ASSUME NEW r, NEW in, Doing(r, in), r.suppressed = 0, NEW e, e[1] \notin LevelKinds,
           UNCHANGED suppressed
    PROVE  suppressed' = SuppressedAfter(r, e)
    BY DEF LevelKinds, SuppressedAfter, Doing, Matches

LEMMA LabelFollows ==
    ASSUME NEW r, NEW l, NEW in, Obeys(r, l, in), Label(l, in)
    PROVE  \E e : Follows(r, e)
    <1>1. PICK e : e = <<"label", Key(l.name), current, DOT>>
        OBVIOUS
    <1>2. /\ Note(e) /\ Into(in) /\ l.op = "label"
          /\ lsb' = IF enabl_lsb \/ IsLocal(l.name) THEN lsb ELSE lsb + 1
          /\ UNCHANGED <<suppressed, macros, last_lsb, last_locsym, enabl_lsb, sectionVars>>
        BY <1>1, Zenon DEF Label
    <1>3. e[1] = "label" /\ e = <<"label", KeyOf(r, l.name), r.current, r.pc[r.current]>>
        BY <1>1 DEF Obeys, Doing, Matches, Key, KeyOf, DOT
    <1>4. e = Noted(r)
        BY <1>2, <1>3 DEF Noted, Obeys
    <1>5. Doing(r, in) /\ r.suppressed = 0
        BY DEF Obeys
    <1>6. InputGoes(r, e) /\ MacrosGo(r, e) /\ suppressed' = SuppressedAfter(r, e)
        BY <1>2, <1>3, <1>5, InputKept, MacrosKept, LevelKept DEF InputKinds, LevelKinds
    <1>7. Sound(r, e) /\ PlaceGoes(r, e) /\ (OwnSaved(r) => SavedGoes(r, e))
        BY <1>2, <1>3, <1>5, PlaceKept DEF PlaceKinds, sectionVars
    <1>8. BlocksGo(r, e)
        BY <1>2, <1>3 DEF BlocksGo, LsbAfter, EnablAfter, Obeys, Doing, Matches
    <1> QED BY <1>2, <1>4, <1>6, <1>7, <1>8, Zenon DEF Follows

LEMMA AssignFollows ==
    ASSUME NEW r, NEW in, Doing(r, in), r.suppressed = 0, NEW l, Assign(l, in)
    PROVE  \E e : Follows(r, e)
    <1>1. PICK e : /\ e[1] = "assign" /\ Note(e) /\ Into(in)
                   /\ UNCHANGED <<suppressed, macros, blockVars, sectionVars>>
        BY DEF Assign
    <1>2. e[1] \in Decides
        BY <1>1 DEF Decides
    <1>3. InputGoes(r, e) /\ MacrosGo(r, e) /\ suppressed' = SuppressedAfter(r, e)
        BY <1>1, InputKept, MacrosKept, LevelKept DEF InputKinds, LevelKinds
    <1>4. Sound(r, e) /\ PlaceGoes(r, e) /\ (OwnSaved(r) => SavedGoes(r, e))
        BY <1>1, PlaceKept DEF PlaceKinds, sectionVars
    <1>5. BlocksGo(r, e)
        BY <1>1, BlocksKept DEF BlockKinds
    <1> QED BY <1>1, <1>2, <1>3, <1>4, <1>5, Zenon DEF Follows

(* "." moves in the present section.                                       *)
LEMMA DotGoes ==
    ASSUME NEW r, NEW in, Doing(r, in), NEW e, e[1] \in {"org", "blkb", "even", "word"},
           pc' = PcAfter(r, e), UNCHANGED <<current, sect_stack, sect_sp>>
    PROVE  Sound(r, e) /\ PlaceGoes(r, e) /\ (OwnSaved(r) => SavedGoes(r, e))
    <1>1. /\ CurrentAfter(r, e) = r.current /\ SpAfter(r, e) = r.sp
          /\ SavedAfter(r, e) = r.saved
        BY DEF CurrentAfter, SpAfter, SavedAfter, Restores
    <1>2. Sound(r, e)
        BY DEF Sound
    <1>3. PlaceGoes(r, e)
        BY <1>1 DEF PlaceGoes, Doing, Matches, SavedIs
    <1>4. OwnSaved(r) => SavedGoes(r, e)
        BY <1>1 DEF OwnSaved, SavedGoes
    <1> QED BY <1>2, <1>3, <1>4

LEMMA OrgFollows ==
    ASSUME NEW r, NEW in, Doing(r, in), r.suppressed = 0, NEW l, Org(l, in) \/ Blkb(l, in)
    PROVE  \E e : Follows(r, e)
    <1>1. PICK e : /\ e[1] \in {"org", "blkb"} /\ Note(e) /\ Into(in) /\ pc' = PcAfter(r, e)
                   /\ UNCHANGED <<suppressed, macros, blockVars, current, sect_stack, sect_sp>>
        <2>1. CASE Org(l, in)
            <3>1. PICK v : v = Evaluate(l.val)
                OBVIOUS
            <3>2. PICK ok : ok = (v.type \in {"lit", "sym"} /\ v.section = current)
                OBVIOUS
            <3>3. PICK e : e = <<"org", ok, v.value>>
                OBVIOUS
            <3>4. /\ Note(e) /\ Into(in)
                  /\ pc' = IF ok THEN [pc EXCEPT ![current] = v.value] ELSE pc
                  /\ UNCHANGED <<suppressed, macros, blockVars, current, sect_stack, sect_sp>>
                BY <2>1, <3>1, <3>2, <3>3, Zenon DEF Org
            <3>5. e[1] = "org" /\ (e[2] <=> ok) /\ e[3] = v.value
                BY <3>3
            <3>6. pc' = PcAfter(r, e)
                BY <3>4, <3>5 DEF PcAfter, Doing, Matches
            <3> QED BY <3>4, <3>5, <3>6
        <2>2. CASE Blkb(l, in)
            <3>1. PICK v : v = Evaluate(l.val)
                OBVIOUS
            <3>2. PICK ok : ok = (v.type = "lit")
                OBVIOUS
            <3>3. PICK e : e = <<"blkb", ok, v.value>>
                OBVIOUS
            <3>4. /\ Note(e) /\ Into(in)
                  /\ pc' = IF ok THEN [pc EXCEPT ![current] = Host(DOT + v.value)] ELSE pc
                  /\ UNCHANGED <<suppressed, macros, blockVars, current, sect_stack, sect_sp>>
                BY <2>2, <3>1, <3>2, <3>3, Zenon DEF Blkb, symbolVars
            <3>5. e[1] = "blkb" /\ (e[2] <=> ok) /\ e[3] = v.value
                BY <3>3
            <3>6. pc' = PcAfter(r, e)
                BY <3>4, <3>5 DEF PcAfter, Doing, Matches, DOT
            <3> QED BY <3>4, <3>5, <3>6
        <2> QED BY <2>1, <2>2
    <1>2. e[1] \in Decides
        BY <1>1 DEF Decides
    <1>3. InputGoes(r, e) /\ MacrosGo(r, e) /\ suppressed' = SuppressedAfter(r, e)
        BY <1>1, InputKept, MacrosKept, LevelKept DEF InputKinds, LevelKinds
    <1>4. Sound(r, e) /\ PlaceGoes(r, e) /\ (OwnSaved(r) => SavedGoes(r, e))
        BY <1>1, DotGoes
    <1>5. BlocksGo(r, e)
        BY <1>1, BlocksKept DEF BlockKinds
    <1> QED BY <1>1, <1>2, <1>3, <1>4, <1>5, Zenon DEF Follows

LEMMA EvenFollows ==
    ASSUME NEW r, NEW l, NEW in, Obeys(r, l, in), Even(l, in)
    PROVE  \E e : Follows(r, e)
    <1>1. PICK e : e = <<"even">>
        OBVIOUS
    <1>2. /\ Note(e) /\ Into(in) /\ l.op = "even"
          /\ pc' = [pc EXCEPT ![current] = Host(DOT + (DOT % 2))]
          /\ UNCHANGED <<suppressed, macros, blockVars, current, sect_stack, sect_sp>>
        BY <1>1, Zenon DEF Even
    <1>3. e[1] = "even" /\ e = <<l.op>>
        BY <1>1, <1>2
    <1>4. e = Noted(r)
        BY <1>2, <1>3 DEF Noted, Obeys
    <1>5. Doing(r, in) /\ r.suppressed = 0
        BY DEF Obeys
    <1>6. InputGoes(r, e) /\ MacrosGo(r, e) /\ suppressed' = SuppressedAfter(r, e)
        BY <1>2, <1>3, <1>5, InputKept, MacrosKept, LevelKept DEF InputKinds, LevelKinds
    <1>7. pc' = PcAfter(r, e)
        BY <1>2, <1>3, <1>5 DEF PcAfter, Doing, Matches, DOT
    <1>8. Sound(r, e) /\ PlaceGoes(r, e) /\ (OwnSaved(r) => SavedGoes(r, e))
        BY <1>2, <1>3, <1>5, <1>7, DotGoes
    <1>9. BlocksGo(r, e)
        BY <1>2, <1>3, <1>5, BlocksKept DEF BlockKinds
    <1> QED BY <1>2, <1>4, <1>6, <1>8, <1>9, Zenon DEF Follows

(* A word, on its own or for a name that is not called.                    *)
LEMMA WordFollows ==
    ASSUME NEW r, NEW in, Doing(r, in), r.suppressed = 0, NEW val, Word(val, in),
           Noted(r) = WordNoted(r, val)
    PROVE  \E e : Follows(r, e)
    <1>1. PICK at : at = Host(DOT + (DOT % 2))
        OBVIOUS
    <1>2. PICK e : e = <<"word", val, current, at>>
        OBVIOUS
    <1>3. /\ Note(e) /\ Into(in) /\ pc' = [pc EXCEPT ![current] = Host(at + 2)]
          /\ UNCHANGED <<suppressed, macros, blockVars, current, sect_stack, sect_sp>>
        BY <1>1, <1>2, Zenon DEF Word
    <1>4. e[1] = "word" /\ e[4] = at
        BY <1>2
    <1>5. e = Noted(r)
        BY <1>1, <1>2 DEF WordNoted, Doing, Matches, DOT
    <1>6. InputGoes(r, e) /\ MacrosGo(r, e) /\ suppressed' = SuppressedAfter(r, e)
        BY <1>3, <1>4, InputKept, MacrosKept, LevelKept DEF InputKinds, LevelKinds
    <1>7. pc' = PcAfter(r, e)
        BY <1>3, <1>4 DEF PcAfter, Doing, Matches
    <1>8. Sound(r, e) /\ PlaceGoes(r, e) /\ (OwnSaved(r) => SavedGoes(r, e))
        BY <1>3, <1>4, <1>7, DotGoes
    <1>9. BlocksGo(r, e)
        BY <1>3, <1>4, BlocksKept DEF BlockKinds
    <1> QED BY <1>3, <1>5, <1>6, <1>8, <1>9, Zenon DEF Follows

LEMMA SectionFollows ==
    ASSUME NEW r, NEW l, NEW in, Obeys(r, l, in), Section(l, in)
    PROVE  \E e : Follows(r, e)
    <1>1. PICK e : e = <<"psect", l.name>>
        OBVIOUS
    <1>2. /\ Note(e) /\ Into(in) /\ l.op = "psect" /\ current' = l.name
          /\ UNCHANGED <<suppressed, macros, blockVars, pc, sect_stack, sect_sp>>
        BY <1>1, Zenon DEF Section
    <1>3. e[1] = "psect" /\ e[2] = l.name /\ e = <<l.op, l.name>>
        BY <1>1, <1>2
    <1>4. e = Noted(r)
        BY <1>2, <1>3 DEF Noted, Obeys
    <1>5. Doing(r, in) /\ r.suppressed = 0
        BY DEF Obeys
    <1>6. InputGoes(r, e) /\ MacrosGo(r, e) /\ suppressed' = SuppressedAfter(r, e)
        BY <1>2, <1>3, <1>5, InputKept, MacrosKept, LevelKept DEF InputKinds, LevelKinds
    <1>7. /\ CurrentAfter(r, e) = l.name /\ SpAfter(r, e) = r.sp /\ PcAfter(r, e) = r.pc
          /\ SavedAfter(r, e) = r.saved /\ Sound(r, e)
        BY <1>3 DEF CurrentAfter, SpAfter, PcAfter, SavedAfter, Restores, Sound
    <1>8. PlaceGoes(r, e)
        BY <1>2, <1>5, <1>7 DEF PlaceGoes, Doing, Matches, SavedIs
    <1>9. OwnSaved(r) => SavedGoes(r, e)
        BY <1>2, <1>7 DEF OwnSaved, SavedGoes
    <1>10. BlocksGo(r, e)
        BY <1>2, <1>3, <1>5, BlocksKept DEF BlockKinds
    <1> QED BY <1>2, <1>4, <1>6, <1>7, <1>8, <1>9, <1>10, Zenon DEF Follows

LEMMA SaveFollows ==
    ASSUME NEW r, NEW l, NEW in, Obeys(r, l, in), Save(l, in)
    PROVE  \E e : Follows(r, e)
    <1>1. PICK e : e = <<"save">>
        OBVIOUS
    <1>2. /\ Note(e) /\ Into(in) /\ l.op = "save"
          /\ phase' = "reading" => /\ sect_sp' = sect_sp + 1
                                   /\ sect_stack' = With(sect_stack, sect_sp', current)
          /\ UNCHANGED <<suppressed, macros, blockVars, current, pc>>
        <2>1. /\ Note(e) /\ Into(in) /\ l.op = "save"
              /\ UNCHANGED <<suppressed, macros, blockVars, current, pc>>
            BY <1>1, Zenon DEF Save
        <2>2. phase' = "reading" => /\ sect_sp' = sect_sp + 1
                                    /\ sect_stack' = With(sect_stack, sect_sp', current)
            BY DEF Save
        <2> QED BY <2>1, <2>2
    <1>3. e[1] = "save" /\ e = <<l.op>>
        BY <1>1, <1>2
    <1>4. e = Noted(r)
        BY <1>2, <1>3 DEF Noted, Obeys
    <1>5. Doing(r, in) /\ r.suppressed = 0
        BY DEF Obeys
    <1>6. InputGoes(r, e) /\ MacrosGo(r, e) /\ suppressed' = SuppressedAfter(r, e)
        BY <1>2, <1>3, <1>5, InputKept, MacrosKept, LevelKept DEF InputKinds, LevelKinds
    <1>7. /\ CurrentAfter(r, e) = r.current /\ SpAfter(r, e) = r.sp + 1 /\ PcAfter(r, e) = r.pc
          /\ SavedAfter(r, e) = r.current /\ Sound(r, e)
        BY <1>3 DEF CurrentAfter, SpAfter, PcAfter, SavedAfter, Restores, Sound
    <1>8. phase' = "reading" => PlaceGoes(r, e)
        BY <1>2, <1>5, <1>7 DEF PlaceGoes, Doing, Matches, With
    <1>9. phase' = "reading" /\ OwnSaved(r) => SavedGoes(r, e)
        <2> SUFFICES ASSUME phase' = "reading", OwnSaved(r) PROVE SavedGoes(r, e)
            OBVIOUS
        <2>1. r.current # NoSection
            BY <1>5, NamesAssumption DEF Doing, Matches, Types, SectionType
        <2>2. sect_sp \in Int /\ \A i \in DOMAIN sect_stack : i \in Int
            BY <1>5 DEF Doing, Types, SectionType
        <2>3. DOMAIN sect_stack' = DOMAIN sect_stack \cup {sect_sp'}
            BY <1>2 DEF With
        <2>4. \A i \in DOMAIN sect_stack' : i <= sect_sp'
            BY <1>2, <2>2, <2>3 DEF OwnSaved
        <2> QED BY <1>7, <2>1, <2>4 DEF SavedGoes
    <1>10. BlocksGo(r, e)
        BY <1>2, <1>3, <1>5, BlocksKept DEF BlockKinds
    <1> QED BY <1>2, <1>4, <1>6, <1>7, <1>8, <1>9, <1>10, Zenon DEF Follows

LEMMA RestoreFollows ==
    ASSUME NEW r, NEW l, NEW in, Obeys(r, l, in), Restore(l, in)
    PROVE  \E e : Follows(r, e)
    <1>1. PICK e : e = <<"restore">>
        OBVIOUS
    <1>2. PICK saved : saved = (IF sect_sp \in DOMAIN sect_stack THEN sect_stack[sect_sp]
                                ELSE NoSection)
        OBVIOUS
    <1>3. /\ Note(e) /\ Into(in) /\ l.op = "restore"
          /\ current' = IF saved # NoSection THEN saved ELSE current
          /\ sect_sp' = IF saved # NoSection THEN sect_sp + 1 ELSE sect_sp
          /\ phase' = IF saved # NoSection \/ sect_sp < 0 THEN phase
                      ELSE IF sect_sp < MaxSaved THEN "crashed" ELSE "undefined"
          /\ UNCHANGED <<suppressed, macros, blockVars, pc, sect_stack>>
        BY <1>1, <1>2, Zenon DEF Restore, symbolVars
    <1>4. e[1] = "restore" /\ e = <<l.op>>
        BY <1>1, <1>3
    <1>5. e = Noted(r)
        BY <1>3, <1>4 DEF Noted, Obeys
    <1>6. Doing(r, in) /\ r.suppressed = 0 /\ r.sp = sect_sp /\ r.current = current
        BY DEF Obeys, Doing, Matches
    <1>7. InputGoes(r, e) /\ MacrosGo(r, e) /\ suppressed' = SuppressedAfter(r, e)
        BY <1>3, <1>4, <1>6, InputKept, MacrosKept, LevelKept DEF InputKinds, LevelKinds
    <1>8. /\ sect_sp \in Int /\ (sect_sp < 0 => saved = NoSection)
          /\ sect_sp \in DOMAIN sect_stack => saved # NoSection
        <2>1. sect_sp \in Int
            BY <1>6 DEF Doing, Types, SectionType
        <2>2. \A i \in DOMAIN sect_stack : i >= 0 /\ sect_stack[i] \in SectionNames
            BY <1>6, BoundsAssumption DEF Doing, Types, SectionType
        <2>3. sect_sp < 0 => sect_sp \notin DOMAIN sect_stack
            BY <2>1, <2>2
        <2>4. NoSection \notin SectionNames
            BY NamesAssumption
        <2> QED BY <1>2, <2>1, <2>2, <2>3, <2>4
    <1>9. PcAfter(r, e) = r.pc /\ r.pc = pc
        BY <1>4, <1>6 DEF PcAfter, Doing, Matches
    <1>10. r.saved # NoSection => saved = r.saved
        BY <1>2, <1>6 DEF Doing, Matches, SavedIs
    <1>11. CASE r.saved # NoSection
        <2>1. /\ CurrentAfter(r, e) = r.saved /\ SpAfter(r, e) = r.sp + 1
              /\ SavedAfter(r, e) = NoSection /\ Sound(r, e)
            BY <1>4, <1>11 DEF CurrentAfter, SpAfter, SavedAfter, Restores, Sound
        <2>2. PlaceGoes(r, e)
            BY <1>3, <1>6, <1>9, <1>10, <1>11, <2>1 DEF PlaceGoes
        <2>3. OwnSaved(r) => SavedGoes(r, e)
            <3> SUFFICES ASSUME OwnSaved(r) PROVE SavedGoes(r, e)
                OBVIOUS
            <3>1. \A i \in DOMAIN sect_stack : i \in Int /\ i <= sect_sp
                BY <1>6 DEF OwnSaved, Doing, Types, SectionType
            <3>2. sect_sp' = sect_sp + 1 /\ sect_stack' = sect_stack
                BY <1>3, <1>10, <1>11
            <3>3. \A i \in DOMAIN sect_stack : i < sect_sp + 1
                BY <1>8, <3>1
            <3>4. sect_sp + 1 \notin DOMAIN sect_stack
                BY <1>8, <3>3
            <3>5. \A i \in DOMAIN sect_stack : i <= sect_sp + 1
                BY <1>8, <3>1
            <3> QED BY <3>2, <3>4, <3>5 DEF SavedGoes
        <2>4. BlocksGo(r, e)
            BY <1>3, <1>4, <1>6, BlocksKept DEF BlockKinds
        <2> QED BY <1>3, <1>5, <1>7, <2>1, <2>2, <2>3, <2>4, Zenon DEF Follows
    <1>12. CASE r.saved = NoSection
        <2>1. /\ CurrentAfter(r, e) = r.current /\ SpAfter(r, e) = r.sp
              /\ SavedAfter(r, e) = NoSection
            BY <1>4, <1>12 DEF CurrentAfter, SpAfter, SavedAfter, Restores
        <2>2. Sound(r, e) => r.sp < 0
            BY <1>4, <1>12 DEF Sound
        <2>3. Sound(r, e) => PlaceGoes(r, e)
            BY <1>3, <1>6, <1>8, <1>9, <2>1, <2>2 DEF PlaceGoes
        <2>4. phase' = "reading" /\ OwnSaved(r) => Sound(r, e) /\ SavedGoes(r, e)
            <3> SUFFICES ASSUME phase' = "reading", OwnSaved(r)
                         PROVE  Sound(r, e) /\ SavedGoes(r, e)
                OBVIOUS
            <3>1. saved = NoSection /\ sect_sp \notin DOMAIN sect_stack
                BY <1>2, <1>12 DEF OwnSaved
            <3>2. sect_sp < 0 /\ sect_sp' = sect_sp /\ sect_stack' = sect_stack
                BY <1>3, <3>1
            <3> QED BY <1>6, <3>1, <3>2 DEF Sound, SavedGoes, OwnSaved
        <2>5. BlocksGo(r, e)
            BY <1>3, <1>4, <1>6, BlocksKept DEF BlockKinds
        <2> QED BY <1>3, <1>5, <1>7, <2>3, <2>4, <2>5, Zenon DEF Follows
    <1> QED BY <1>11, <1>12

(* A macro is called in a pass if that pass has defined it.                *)
LEMMA CallFollows ==
    ASSUME NEW r, NEW l, NEW in, Obeys(r, l, in), Call(l, in)
    PROVE  \E e : Follows(r, e)
    <1>1. Doing(r, in) /\ r.suppressed = 0 /\ l = Told(r) /\ l.op = "call"
        BY DEF Obeys, Call
    <1>2. Called(l) <=> l.name \in DOMAIN r.macros
        <2>1. /\ stmtno \in Int /\ stmtno' \in Int /\ stmtno < stmtno'
              /\ \A m \in DOMAIN macros : macros[m].stmtno \in Int
            BY <1>1 DEF Doing, Types, ResultType, MacroType, Matches, StmtnoAfter, Definition
        <2>2. CASE l.name \in DOMAIN r.macros
            <3>1. l.name \in DOMAIN macros /\ macros[l.name].stmtno <= stmtno
                BY <1>1, <2>2 DEF Doing, Matches, MacrosAre
            <3> QED BY <2>1, <2>2, <3>1 DEF Called
        <2>3. CASE l.name \notin DOMAIN r.macros
            <3>1. l.name \in DOMAIN macros => stmtno' <= macros[l.name].stmtno
                BY <1>1, <2>3 DEF Doing
            <3> QED BY <2>1, <2>3, <3>1 DEF Called
        <2> QED BY <2>2, <2>3
    <1>3. CASE ~Called(l)
        <2>1. Word([sym |-> l.name, off |-> 0], in)
            BY <1>3, Zenon DEF Call
        <2>2. Noted(r) = WordNoted(r, [sym |-> l.name, off |-> 0])
            BY <1>1, <1>2, <1>3 DEF Noted
        <2> QED BY <1>1, <2>1, <2>2, WordFollows
    <1>4. CASE Called(l)
        <2>1. PICK x : x = ExpandedBody(macros[l.name], l.list)
            OBVIOUS
        <2>2. x = ExpansionOf(r)
            <3>1. macros[l.name] = r.macros[l.name]
                BY <1>1, <1>2, <1>4 DEF Doing, Matches, MacrosAre
            <3>2. FirstOf(r) = First
                BY <1>1 DEF FirstOf, First, Doing, Matches
            <3>3. x = Expansion(macros[l.name], l.list, First)
                BY <2>1, Zenon DEF ExpandedBody, First
            <3> QED BY <1>1, <3>1, <3>2, <3>3, Zenon DEF ExpansionOf
        <2>3. x.first = FirstOf(r)
            BY <2>2, Zenon DEF ExpansionOf, Expansion
        <2>4. PICK e : e = <<"call", l.name, lsb, x.first .. x.next - 1>>
            OBVIOUS
        <2>5. /\ Note(e)
              /\ stack' = <<[kind |-> "macro", lines |-> x.lines, at |-> 1,
                             cond |-> Len(in.conds)]>> \o in.stack
              /\ conds' = in.conds
              /\ last_lsb' = lsb /\ last_locsym' = x.next
              /\ UNCHANGED <<suppressed, macros, lsb, enabl_lsb, sectionVars>>
            BY <1>4, <2>1, <2>4, Zenon DEF Call
        <2>6. e[1] = "call"
            BY <2>4
        <2>7. e = Noted(r)
            <3>1. Noted(r) = CallNoted(r)
                BY <1>1, <1>2, <1>4 DEF Noted
            <3>2. CallNoted(r) = <<"call", l.name, lsb, x.first .. x.next - 1>>
                BY <1>1, <2>2, <2>3 DEF CallNoted, Doing, Matches
            <3> QED BY <2>4, <3>1, <3>2
        <2>8. InputGoes(r, e)
            BY <1>1, <2>2, <2>5, <2>6 DEF InputGoes, InputAfter, Pushed, Doing
        <2>9. MacrosGo(r, e) /\ suppressed' = SuppressedAfter(r, e)
            BY <1>1, <2>5, <2>6, MacrosKept, LevelKept DEF LevelKinds
        <2>10. Sound(r, e) /\ PlaceGoes(r, e) /\ (OwnSaved(r) => SavedGoes(r, e))
            BY <1>1, <2>5, <2>6, PlaceKept DEF PlaceKinds, sectionVars
        <2>11. BlocksGo(r, e)
            BY <1>1, <2>2, <2>5, <2>6 DEF BlocksGo, LsbAfter, EnablAfter, Doing, Matches
        <2> QED BY <2>5, <2>7, <2>8, <2>9, <2>10, <2>11, Zenon DEF Follows
    <1> QED BY <1>3, <1>4

LEMMA MexitFollows ==
    ASSUME NEW r, NEW l, NEW in, Obeys(r, l, in), Mexit(l, in)
    PROVE  \E e : Follows(r, e)
    <1>1. PICK e : e = <<"mexit">>
        OBVIOUS
    <1>2. PICK inside : inside = (in.stack # <<>> /\ Head(in.stack).kind # "file")
        OBVIOUS
    <1>3. PICK out : out = (IF inside THEN stack_pop(in, 1) ELSE in)
        OBVIOUS
    <1>4. /\ Note(e) /\ stack' = out.stack /\ conds' = out.conds /\ l.op = "mexit"
          /\ UNCHANGED <<suppressed, macros, blockVars, sectionVars>>
        BY <1>1, <1>2, <1>3, Zenon DEF Mexit, Into
    <1>5. e[1] = "mexit" /\ e = <<l.op>>
        BY <1>1, <1>4
    <1>6. e = Noted(r)
        BY <1>4, <1>5 DEF Noted, Obeys
    <1>7. Doing(r, in) /\ r.suppressed = 0
        BY DEF Obeys
    <1>8. InputGoes(r, e)
        <2>1. InputAfter(r, e) = out
            BY <1>2, <1>3, <1>5, <1>7 DEF InputAfter, Doing
        <2> QED BY <1>4, <2>1 DEF InputGoes
    <1>9. MacrosGo(r, e) /\ suppressed' = SuppressedAfter(r, e)
        BY <1>4, <1>5, <1>7, MacrosKept, LevelKept DEF LevelKinds
    <1>10. Sound(r, e) /\ PlaceGoes(r, e) /\ (OwnSaved(r) => SavedGoes(r, e))
        BY <1>4, <1>5, <1>7, PlaceKept DEF PlaceKinds, sectionVars
    <1>11. BlocksGo(r, e)
        BY <1>4, <1>5, <1>7, BlocksKept DEF BlockKinds
    <1> QED BY <1>4, <1>6, <1>8, <1>9, <1>10, <1>11, Zenon DEF Follows

LEMMA MacroFollows ==
    ASSUME NEW r, NEW l, NEW in, Obeys(r, l, in), Macro(l, in)
    PROVE  \E e : Follows(r, e)
    <1>1. PICK e : e = <<"macro", l.name>>
        OBVIOUS
    <1>2. PICK b : b = read_body(in, l.name)
        OBVIOUS
    <1>3. PICK d : d = [args |-> l.list, local |-> l.opt, body |-> b.body, stmtno |-> stmtno']
        OBVIOUS
    <1>4. /\ Note(e) /\ stack' = b.in.stack /\ conds' = b.in.conds /\ l.op = "macro"
          /\ macros' = With(macros, l.name, d)
          /\ UNCHANGED <<suppressed, blockVars, sectionVars>>
        BY <1>1, <1>2, <1>3, Zenon DEF Macro, Into
    <1>5. e[1] = "macro" /\ e = <<l.op, l.name>>
        BY <1>1, <1>4
    <1>6. e = Noted(r)
        BY <1>4, <1>5 DEF Noted, Obeys
    <1>7. Doing(r, in) /\ r.suppressed = 0 /\ l = Told(r) /\ BodyOf(r) = b
        BY <1>2, <1>4 DEF Obeys, Doing, BodyOf
    <1>8. InputGoes(r, e)
        <2>1. InputAfter(r, e) = b.in
            BY <1>5, <1>7 DEF InputAfter
        <2> QED BY <1>4, <2>1 DEF InputGoes
    <1>9. MacrosGo(r, e)
        <2>1. MacrosAfter(r, e) = With(r.macros, l.name, d)
            BY <1>3, <1>5, <1>7 DEF MacrosAfter, Doing
        <2>2. /\ d.stmtno = stmtno' /\ stmtno \in Int /\ stmtno' \in Int /\ stmtno < stmtno'
              /\ \A m \in DOMAIN macros : macros[m].stmtno \in Int
            BY <1>3, <1>7 DEF Doing, Types, ResultType, MacroType, Matches, StmtnoAfter, Definition
        <2>3. \A m \in DOMAIN r.macros : /\ m \in DOMAIN macros /\ macros[m] = r.macros[m]
                                         /\ r.macros[m].stmtno <= stmtno
            BY <1>7 DEF Doing, Matches, MacrosAre
        <2>4. \A m \in DOMAIN r.macros : r.macros[m].stmtno <= stmtno'
            BY <2>2, <2>3
        <2>5. stmtno' <= stmtno'
            BY <2>2
        <2> QED BY <1>4, <2>1, <2>2, <2>3, <2>4, <2>5 DEF MacrosGo, With
    <1>10. suppressed' = SuppressedAfter(r, e)
        BY <1>4, <1>5, <1>7, LevelKept DEF LevelKinds
    <1>11. Sound(r, e) /\ PlaceGoes(r, e) /\ (OwnSaved(r) => SavedGoes(r, e))
        BY <1>4, <1>5, <1>7, PlaceKept DEF PlaceKinds, sectionVars
    <1>12. BlocksGo(r, e)
        BY <1>4, <1>5, <1>7, BlocksKept DEF BlockKinds
    <1> QED BY <1>4, <1>6, <1>8, <1>9, <1>10, <1>11, <1>12, Zenon DEF Follows

(* .REPT: its count decides.                                               *)
LEMMA ReptFollows ==
    ASSUME NEW r, NEW l, NEW in, Obeys(r, l, in), Rept(l, in)
    PROVE  \E e : Follows(r, e)
    <1>1. PICK v : v = Evaluate(l.val)
        OBVIOUS
    <1>2. PICK b : b = read_body(in, "")
        OBVIOUS
    <1>3. PICK e : e = <<"rept", v.type, v.value>>
        OBVIOUS
    <1>4. /\ l.op = "rept" /\ Note(e)
          /\ IF v.type # "lit" THEN Into(in)
             ELSE /\ IF b.closed
                     THEN stack' = <<[kind |-> "rept", lines |-> b.body, at |-> 1,
                                      count |-> v.value, cond |-> Len(b.in.conds)]>> \o b.in.stack
                     ELSE stack' = b.in.stack
                  /\ conds' = b.in.conds
                  /\ phase' = IF b.closed THEN phase ELSE "crashed"
          /\ UNCHANGED <<suppressed, macros, blockVars, sectionVars>>
        BY <1>1, <1>2, <1>3, Zenon DEF Rept
    <1>5. e[1] = "rept" /\ e[2] = v.type /\ e[3] = v.value
        BY <1>3
    <1>6. e[1] \in Decides
        BY <1>5 DEF Decides
    <1>7. Doing(r, in) /\ r.suppressed = 0 /\ l = Told(r)
        BY DEF Obeys
    <1>8. BodyOf(r) = b /\ Got(r).in = in
        BY <1>2, <1>4, <1>7 DEF BodyOf, Doing
    <1>9. phase' = "reading" => InputGoes(r, e)
        <2>1. CASE v.type # "lit"
            <3>1. InputAfter(r, e) = in
                BY <1>5, <1>8, <2>1 DEF InputAfter
            <3> QED BY <1>4, <2>1, <3>1 DEF InputGoes, Into
        <2>2. CASE v.type = "lit"
            <3>1. InputAfter(r, e) = Pushed([kind |-> "rept", lines |-> b.body, at |-> 1,
                                             count |-> v.value, cond |-> Len(b.in.conds)], b.in)
                BY <1>5, <1>8, <2>2 DEF InputAfter
            <3>2. phase' = "reading" => b.closed
                BY <1>4, <2>2
            <3> QED BY <1>4, <2>2, <3>1, <3>2 DEF InputGoes, Pushed
        <2> QED BY <2>1, <2>2
    <1>10. MacrosGo(r, e) /\ suppressed' = SuppressedAfter(r, e)
        BY <1>4, <1>5, <1>7, MacrosKept, LevelKept DEF LevelKinds
    <1>11. Sound(r, e) /\ PlaceGoes(r, e) /\ (OwnSaved(r) => SavedGoes(r, e))
        BY <1>4, <1>5, <1>7, PlaceKept DEF PlaceKinds, sectionVars
    <1>12. BlocksGo(r, e)
        BY <1>4, <1>5, <1>7, BlocksKept DEF BlockKinds
    <1> QED BY <1>4, <1>6, <1>9, <1>10, <1>11, <1>12, Zenon DEF Follows

LEMMA IrpFollows ==
    ASSUME NEW r, NEW l, NEW in, Obeys(r, l, in), Irp(l, in)
    PROVE  \E e : Follows(r, e)
    <1>1. PICK b : b = read_body(in, "")
        OBVIOUS
    <1>2. PICK e : e = <<"irp", l.name>>
        OBVIOUS
    <1>3. /\ l.op = "irp" /\ Note(e)
          /\ IF b.closed
             THEN stack' = <<[kind |-> "irp", lines |-> <<>>, at |-> 1, body |-> b.body,
                              arg |-> l.name, items |-> l.list, cond |-> Len(b.in.conds)]>>
                           \o b.in.stack
             ELSE stack' = b.in.stack
          /\ conds' = b.in.conds
          /\ phase' = IF b.closed THEN phase ELSE "crashed"
          /\ UNCHANGED <<suppressed, macros, blockVars, sectionVars>>
        BY <1>1, <1>2, Zenon DEF Irp
    <1>4. e[1] = "irp" /\ e = <<l.op, l.name>>
        BY <1>2, <1>3
    <1>5. e = Noted(r)
        BY <1>3, <1>4 DEF Noted, Obeys
    <1>6. Doing(r, in) /\ r.suppressed = 0 /\ l = Told(r)
        BY DEF Obeys
    <1>7. BodyOf(r) = b /\ Got(r).in = in
        BY <1>1, <1>3, <1>6 DEF BodyOf, Doing
    <1>8. phase' = "reading" => InputGoes(r, e)
        <2>1. InputAfter(r, e) = Pushed([kind |-> "irp", lines |-> <<>>, at |-> 1, body |-> b.body,
                                         arg |-> l.name, items |-> l.list,
                                         cond |-> Len(b.in.conds)], b.in)
            BY <1>4, <1>6, <1>7 DEF InputAfter
        <2>2. phase' = "reading" => b.closed
            BY <1>3
        <2> QED BY <1>3, <2>1, <2>2 DEF InputGoes, Pushed
    <1>9. MacrosGo(r, e) /\ suppressed' = SuppressedAfter(r, e)
        BY <1>3, <1>4, <1>6, MacrosKept, LevelKept DEF LevelKinds
    <1>10. Sound(r, e) /\ PlaceGoes(r, e) /\ (OwnSaved(r) => SavedGoes(r, e))
        BY <1>3, <1>4, <1>6, PlaceKept DEF PlaceKinds, sectionVars
    <1>11. BlocksGo(r, e)
        BY <1>3, <1>4, <1>6, BlocksKept DEF BlockKinds
    <1> QED BY <1>3, <1>5, <1>8, <1>9, <1>10, <1>11, Zenon DEF Follows

LEMMA IfFollows ==
    ASSUME NEW r, NEW l, NEW in, Obeys(r, l, in), If(l, in)
    PROVE  \E e : Follows(r, e)
    <1>1. PICK c : c = Condition(l)
        OBVIOUS
    <1>2. PICK e : e = <<"if", c>>
        OBVIOUS
    <1>3. /\ l.op = "if" /\ Note(e) /\ stack' = in.stack
          /\ IF Len(in.conds) < MaxConds
             THEN conds' = Append(in.conds, c) /\ UNCHANGED phase
             ELSE conds' = in.conds /\ phase' = "crashed"
          /\ suppressed' = IF c THEN 0 ELSE 1
          /\ UNCHANGED <<macros, blockVars, sectionVars>>
        BY <1>1, <1>2, Zenon DEF If
    <1>4. e[1] = "if" /\ e[2] = c
        BY <1>2
    <1>5. e[1] \in Decides
        BY <1>4 DEF Decides
    <1>6. Doing(r, in) /\ r.suppressed = 0 /\ in = Got(r).in
        BY DEF Obeys, Doing
    <1>7. phase' = "reading" => InputGoes(r, e)
        <2>1. InputAfter(r, e) = [stack |-> in.stack, conds |-> Append(in.conds, c)]
            BY <1>4, <1>6 DEF InputAfter
        <2>2. phase' = "reading" => conds' = Append(in.conds, c)
            BY <1>3
        <2> QED BY <1>3, <2>1, <2>2 DEF InputGoes
    <1>8. suppressed' = SuppressedAfter(r, e)
        BY <1>3, <1>4 DEF SuppressedAfter
    <1>9. MacrosGo(r, e)
        BY <1>3, <1>4, <1>6, MacrosKept
    <1>10. Sound(r, e) /\ PlaceGoes(r, e) /\ (OwnSaved(r) => SavedGoes(r, e))
        BY <1>3, <1>4, <1>6, PlaceKept DEF PlaceKinds, sectionVars
    <1>11. BlocksGo(r, e)
        BY <1>3, <1>4, <1>6, BlocksKept DEF BlockKinds
    <1> QED BY <1>3, <1>5, <1>7, <1>8, <1>9, <1>10, <1>11, Zenon DEF Follows

LEMMA PartFollows ==
    ASSUME NEW r, NEW l, NEW in, Obeys(r, l, in), Part(l, in)
    PROVE  \E e : Follows(r, e)
    <1>1. PICK e : e = <<l.op>>
        OBVIOUS
    <1>2. /\ l.op \in {"iff", "ift", "iftf"} /\ Note(e) /\ Into(in)
          /\ suppressed' = IF in.conds = <<>> THEN 0
                           ELSE IF Last(in.conds) = (l.op = "iff") /\ l.op # "iftf" THEN 1 ELSE 0
          /\ UNCHANGED <<macros, blockVars, sectionVars>>
        BY <1>1, Zenon DEF Part
    <1>3. e[1] = l.op
        BY <1>1
    <1>4. e = Noted(r)
        BY <1>1, <1>2 DEF Noted, Obeys
    <1>5. Doing(r, in) /\ r.suppressed = 0 /\ in = Got(r).in
        BY DEF Obeys, Doing
    <1>6. InputGoes(r, e) /\ MacrosGo(r, e)
        BY <1>2, <1>3, <1>5, InputKept, MacrosKept DEF InputKinds
    <1>7. suppressed' = SuppressedAfter(r, e)
        BY <1>2, <1>3, <1>5 DEF SuppressedAfter
    <1>8. Sound(r, e) /\ PlaceGoes(r, e) /\ (OwnSaved(r) => SavedGoes(r, e))
        BY <1>2, <1>3, <1>5, PlaceKept DEF PlaceKinds, sectionVars
    <1>9. BlocksGo(r, e)
        BY <1>2, <1>3, <1>5, BlocksKept DEF BlockKinds
    <1> QED BY <1>2, <1>4, <1>6, <1>7, <1>8, <1>9, Zenon DEF Follows

LEMMA EndcFollows ==
    ASSUME NEW r, NEW l, NEW in, Obeys(r, l, in), Endc(l, in)
    PROVE  \E e : Follows(r, e)
    <1>1. PICK e : e = <<"endc">>
        OBVIOUS
    <1>2. /\ l.op = "endc" /\ Note(e) /\ stack' = in.stack
          /\ conds' = IF in.conds = <<>> THEN <<>> ELSE pop_cond(in.conds, Len(in.conds) - 1)
          /\ UNCHANGED <<suppressed, macros, blockVars, sectionVars>>
        BY <1>1, Zenon DEF Endc
    <1>3. e[1] = "endc" /\ e = <<l.op>>
        BY <1>1, <1>2
    <1>4. e = Noted(r)
        BY <1>2, <1>3 DEF Noted, Obeys
    <1>5. Doing(r, in) /\ r.suppressed = 0 /\ in = Got(r).in
        BY DEF Obeys, Doing
    <1>6. InputGoes(r, e)
        <2>1. InputAfter(r, e) = Ended(in)
            BY <1>3, <1>5 DEF InputAfter
        <2> QED BY <1>2, <2>1 DEF InputGoes, Ended
    <1>7. MacrosGo(r, e) /\ suppressed' = SuppressedAfter(r, e)
        BY <1>2, <1>3, <1>5, MacrosKept, LevelKept DEF LevelKinds
    <1>8. Sound(r, e) /\ PlaceGoes(r, e) /\ (OwnSaved(r) => SavedGoes(r, e))
        BY <1>2, <1>3, <1>5, PlaceKept DEF PlaceKinds, sectionVars
    <1>9. BlocksGo(r, e)
        BY <1>2, <1>3, <1>5, BlocksKept DEF BlockKinds
    <1> QED BY <1>2, <1>4, <1>6, <1>7, <1>8, <1>9, Zenon DEF Follows

LEMMA EnablFollows ==
    ASSUME NEW r, NEW l, NEW in, Obeys(r, l, in), Enabl(l, in)
    PROVE  \E e : Follows(r, e)
    <1>1. PICK e : e = <<l.op>>
        OBVIOUS
    <1>2. /\ l.op \in {"enabl", "dsabl"} /\ Note(e) /\ Into(in)
          /\ enabl_lsb' = (l.op = "enabl")
          /\ lsb' = IF l.op = "enabl" THEN lsb + 1 ELSE lsb
          /\ UNCHANGED <<suppressed, macros, last_lsb, last_locsym, sectionVars>>
        BY <1>1, Zenon DEF Enabl
    <1>3. e[1] = l.op
        BY <1>1
    <1>4. e = Noted(r)
        BY <1>1, <1>2 DEF Noted, Obeys
    <1>5. Doing(r, in) /\ r.suppressed = 0
        BY DEF Obeys
    <1>6. InputGoes(r, e) /\ MacrosGo(r, e) /\ suppressed' = SuppressedAfter(r, e)
        BY <1>2, <1>3, <1>5, InputKept, MacrosKept, LevelKept DEF InputKinds, LevelKinds
    <1>7. Sound(r, e) /\ PlaceGoes(r, e) /\ (OwnSaved(r) => SavedGoes(r, e))
        BY <1>2, <1>3, <1>5, PlaceKept DEF PlaceKinds, sectionVars
    <1>8. BlocksGo(r, e)
        <2>1. EnablAfter(r, e) = (l.op = "enabl")
            BY <1>2, <1>3 DEF EnablAfter
        <2>2. LsbAfter(r, e) = IF l.op = "enabl" THEN r.lsb + 1 ELSE r.lsb
            BY <1>2, <1>3 DEF LsbAfter
        <2> QED BY <1>2, <1>3, <1>5, <2>1, <2>2 DEF BlocksGo, Doing, Matches
    <1> QED BY <1>2, <1>4, <1>6, <1>7, <1>8, Zenon DEF Follows

LEMMA GloblFollows ==
    ASSUME NEW r, NEW l, NEW in, Obeys(r, l, in), Globl(l, in)
    PROVE  \E e : Follows(r, e)
    <1>1. PICK e : e = <<"globl", l.name>>
        OBVIOUS
    <1>2. /\ l.op = "globl" /\ Note(e) /\ Into(in)
          /\ UNCHANGED <<suppressed, macros, blockVars, sectionVars>>
        BY <1>1, Zenon DEF Globl
    <1>3. e[1] = "globl" /\ e = <<l.op, l.name>>
        BY <1>1, <1>2
    <1>4. e = Noted(r)
        BY <1>2, <1>3 DEF Noted, Obeys
    <1>5. Doing(r, in) /\ r.suppressed = 0
        BY DEF Obeys
    <1>6. InputGoes(r, e) /\ MacrosGo(r, e) /\ suppressed' = SuppressedAfter(r, e)
        BY <1>2, <1>3, <1>5, InputKept, MacrosKept, LevelKept DEF InputKinds, LevelKinds
    <1>7. Sound(r, e) /\ PlaceGoes(r, e) /\ (OwnSaved(r) => SavedGoes(r, e))
        BY <1>2, <1>3, <1>5, PlaceKept DEF PlaceKinds, sectionVars
    <1>8. BlocksGo(r, e)
        BY <1>2, <1>3, <1>5, BlocksKept DEF BlockKinds
    <1> QED BY <1>2, <1>4, <1>6, <1>7, <1>8, Zenon DEF Follows

LEMMA IgnoredFollows ==
    ASSUME NEW r, NEW l, NEW in, Obeys(r, l, in), Ignored(l, in)
    PROVE  \E e : Follows(r, e)
    <1>1. PICK e : e = <<l.op>>
        OBVIOUS
    <1>2. /\ l.op \in {"endm", "endr"} /\ Note(e) /\ Into(in)
          /\ UNCHANGED <<suppressed, macros, blockVars, sectionVars>>
        BY <1>1, Zenon DEF Ignored, Closes
    <1>3. e[1] = l.op
        BY <1>1
    <1>4. e = Noted(r)
        BY <1>1, <1>2 DEF Noted, Obeys
    <1>5. Doing(r, in) /\ r.suppressed = 0
        BY DEF Obeys
    <1>6. InputGoes(r, e) /\ MacrosGo(r, e) /\ suppressed' = SuppressedAfter(r, e)
        BY <1>2, <1>3, <1>5, InputKept, MacrosKept, LevelKept DEF InputKinds, LevelKinds
    <1>7. Sound(r, e) /\ PlaceGoes(r, e) /\ (OwnSaved(r) => SavedGoes(r, e))
        BY <1>2, <1>3, <1>5, PlaceKept DEF PlaceKinds, sectionVars
    <1>8. BlocksGo(r, e)
        BY <1>2, <1>3, <1>5, BlocksKept DEF BlockKinds
    <1> QED BY <1>2, <1>4, <1>6, <1>7, <1>8, Zenon DEF Follows

(* An .IIF does what is on the rest of its line, or nothing.               *)
LEMMA IifFollows ==
    ASSUME NEW r, NEW l \in Line, NEW in, Doing(r, in), r.suppressed = 0, Taken(l, in),
           l = Got(r).line, Iif(l, in)
    PROVE  \E e : Follows(r, e)
    <1>1. CASE Condition(l)
        <2>1. PICK rest : rest = l.rest[1]
            OBVIOUS
        <2>2. \/ Call(rest, in) \/ Mexit(rest, in) \/ Assign(rest, in)
              \/ (rest.op = "word" /\ Word(rest.val, in))
            BY <1>1, <2>1 DEF Iif
        <2>3. l.op = "iif"
            BY DEF Iif
        <2>4. Taken(rest, in) /\ rest = Told(r)
            BY <2>1, <2>3, RestTaken DEF Told
        <2>5. Obeys(r, rest, in)
            BY <2>4 DEF Obeys
        <2>6. CASE rest.op = "word" /\ Word(rest.val, in)
            <3>1. Noted(r) = WordNoted(r, rest.val)
                BY <2>4, <2>6 DEF Noted
            <3> QED BY <2>6, <3>1, WordFollows
        <2>7. CASE Assign(rest, in)
            BY <2>7, AssignFollows
        <2> QED BY <2>2, <2>5, <2>6, <2>7, CallFollows, MexitFollows
    <1>2. CASE ~Condition(l)
        <2>1. PICK e : e = <<"iif", FALSE>>
            OBVIOUS
        <2>2. /\ Note(e) /\ Into(in)
              /\ UNCHANGED <<suppressed, macros, blockVars, sectionVars>>
            BY <1>2, <2>1, Zenon DEF Iif
        <2>3. e[1] = "iif"
            BY <2>1
        <2>4. e[1] \in Decides
            BY <2>3 DEF Decides
        <2>5. InputGoes(r, e) /\ MacrosGo(r, e) /\ suppressed' = SuppressedAfter(r, e)
            BY <2>2, <2>3, InputKept, MacrosKept, LevelKept DEF InputKinds, LevelKinds
        <2>6. Sound(r, e) /\ PlaceGoes(r, e) /\ (OwnSaved(r) => SavedGoes(r, e))
            BY <2>2, <2>3, PlaceKept DEF PlaceKinds, sectionVars
        <2>7. BlocksGo(r, e)
            BY <2>2, <2>3, BlocksKept DEF BlockKinds
        <2> QED BY <2>2, <2>4, <2>5, <2>6, <2>7, Zenon DEF Follows
    <1> QED BY <1>1, <1>2

(* Under a false condition.                                                *)
LEMMA SuppressedFollows ==
    ASSUME NEW r, NEW l, NEW in, Doing(r, in), r.suppressed > 0, l = Got(r).line,
           Suppressed(l, in)
    PROVE  \E e : Follows(r, e)
    <1>1. PICK ok \in (IF in.conds = <<>> THEN BOOLEAN ELSE {Last(in.conds)}) :
            LET level == Level(l.op, suppressed, ok)
                ends == l.op = "endc" /\ level = 0
                stray == in.conds = <<>> /\ suppressed = 1 /\ l.op \in {"iff", "ift"}
            IN /\ suppressed' = level
               /\ stack' = in.stack
               /\ conds' = IF ends /\ in.conds # <<>> THEN pop_cond(in.conds, Len(in.conds) - 1)
                           ELSE in.conds
               /\ phase' = IF ends /\ in.conds = <<>> THEN "undefined" ELSE phase
               /\ Note(IF stray THEN <<"stray", ok>> ELSE <<"skipped", l.op>>)
               /\ UNCHANGED <<symbolVars, macros, blockVars, sectionVars, resultVars>>
        BY Zenon DEF Suppressed
    <1> DEFINE ends == l.op = "endc" /\ Level(l.op, suppressed, ok) = 0
               stray == in.conds = <<>> /\ suppressed = 1 /\ l.op \in {"iff", "ift"}
    <1>2. /\ suppressed' = Level(l.op, suppressed, ok) /\ stack' = in.stack
          /\ conds' = IF ends /\ in.conds # <<>> THEN pop_cond(in.conds, Len(in.conds) - 1)
                      ELSE in.conds
          /\ phase' = IF ends /\ in.conds = <<>> THEN "undefined" ELSE phase
          /\ Note(IF stray THEN <<"stray", ok>> ELSE <<"skipped", l.op>>)
          /\ UNCHANGED <<macros, blockVars, sectionVars>>
        BY <1>1, Zenon
    <1>3. suppressed \in Nat /\ suppressed = r.suppressed /\ in = Got(r).in
        BY DEF Doing, Types, InputType, Matches
    <1>4. ends <=> l.op = "endc" /\ r.suppressed = 1
        BY <1>3 DEF Level
    <1>5. in.conds # <<>> => ok = Last(in.conds)
        BY <1>1
    <1> HIDE DEF ends, stray
    <1>6. CASE stray
        <2>1. PICK e : e = <<"stray", ok>>
            OBVIOUS
        <2>2. e[1] = "stray" /\ e[2] = ok /\ Note(e)
            BY <1>2, <1>6, <2>1
        <2>3. e[1] \in Decides
            BY <2>2 DEF Decides
        <2>4. InputGoes(r, e)
            <3>1. InputAfter(r, e) = in
                BY <1>3, <2>2 DEF InputAfter
            <3>2. ~ends
                BY <1>4, <1>6 DEF stray
            <3> QED BY <1>2, <3>1, <3>2 DEF InputGoes
        <2>5. suppressed' = SuppressedAfter(r, e)
            BY <1>2, <1>3, <2>2 DEF SuppressedAfter
        <2>6. MacrosGo(r, e)
            BY <1>2, <2>2, MacrosKept
        <2>7. Sound(r, e) /\ PlaceGoes(r, e) /\ (OwnSaved(r) => SavedGoes(r, e))
            BY <1>2, <2>2, PlaceKept DEF PlaceKinds, sectionVars
        <2>8. BlocksGo(r, e)
            BY <1>2, <2>2, BlocksKept DEF BlockKinds
        <2> QED BY <2>2, <2>3, <2>4, <2>5, <2>6, <2>7, <2>8, Zenon DEF Follows
    <1>7. CASE ~stray
        <2>1. PICK e : e = <<"skipped", l.op>>
            OBVIOUS
        <2>2. e[1] = "skipped" /\ e[2] = l.op /\ Note(e)
            BY <1>2, <1>7, <2>1
        <2>3. e = Noted(r)
            BY <2>1 DEF Noted
        <2>4. phase' = "reading" => InputGoes(r, e)
            <3> SUFFICES ASSUME phase' = "reading" PROVE InputGoes(r, e)
                OBVIOUS
            <3>1. CASE ends
                <4>1. InputAfter(r, e) = Ended(in)
                    BY <1>3, <1>4, <2>2, <3>1 DEF InputAfter
                <4>2. in.conds # <<>>
                    BY <1>2, <3>1
                <4> QED BY <1>2, <3>1, <4>1, <4>2 DEF InputGoes, Ended
            <3>2. CASE ~ends
                <4>1. InputAfter(r, e) = in
                    BY <1>3, <1>4, <2>2, <3>2 DEF InputAfter
                <4> QED BY <1>2, <3>2, <4>1 DEF InputGoes
            <3> QED BY <3>1, <3>2
        <2>5. suppressed' = SuppressedAfter(r, e)
            <3>1. PICK last : last = (IF in.conds = <<>> THEN FALSE ELSE Last(in.conds))
                OBVIOUS
            <3>2. SuppressedAfter(r, e) = Level(l.op, r.suppressed, last)
                BY <1>3, <2>2, <3>1 DEF SuppressedAfter
            <3>3. CASE in.conds # <<>>
                BY <1>2, <1>3, <1>5, <3>1, <3>2, <3>3
            <3>4. CASE in.conds = <<>>
                <4>1. ~(r.suppressed = 1 /\ l.op \in {"iff", "ift"})
                    BY <1>3, <1>7, <3>4 DEF stray
                <4>2. Level(l.op, r.suppressed, last) = Level(l.op, r.suppressed, ok)
                    BY <4>1 DEF Level
                <4> QED BY <1>2, <1>3, <3>2, <4>2
            <3> QED BY <3>3, <3>4
        <2>6. MacrosGo(r, e)
            BY <1>2, <2>2, MacrosKept
        <2>7. Sound(r, e) /\ PlaceGoes(r, e) /\ (OwnSaved(r) => SavedGoes(r, e))
            BY <1>2, <2>2, PlaceKept DEF PlaceKinds, sectionVars
        <2>8. BlocksGo(r, e)
            BY <1>2, <2>2, BlocksKept DEF BlockKinds
        <2> QED BY <2>2, <2>3, <2>4, <2>5, <2>6, <2>7, <2>8, Zenon DEF Follows
    <1> QED BY <1>6, <1>7

(* The macros that this pass has not yet defined are of a later statement. *)
Unmet(r) == \A m \in DOMAIN macros : m \in DOMAIN r.macros \/ StmtnoAfter(r) <= macros[m].stmtno

LEMMA AssembleFollows ==
    ASSUME Types, NEW r, Matches(r), Unmet(r), assemble
    PROVE  /\ Got(r).line # EOF /\ stmtno' = StmtnoAfter(r)
           /\ \E e : Follows(r, e)
    <1>1. stack_gets(Input) = Got(r)
        BY DEF Input, Got, Matches
    <1>2. PICK l, in :
              /\ l \in Line
              /\ Taken(l, in) /\ l = stack_gets(Input).line /\ in = stack_gets(Input).in
              /\ IF suppressed > 0 THEN Suppressed(l, in) ELSE Assembled(l, in)
              /\ stmtno' = stmtno + (IF suppressed = 0 /\ l.op = "iif" THEN 2 ELSE 1)
        BY AssembleTaken
    <1>3. l = Got(r).line /\ in = Got(r).in /\ r.suppressed = suppressed /\ r.stmtno = stmtno
        BY <1>1, <1>2 DEF Matches
    <1>4. Got(r).line # EOF
        BY <1>1, Zenon DEF assemble
    <1>5. stmtno' = StmtnoAfter(r)
        BY <1>2, <1>3 DEF StmtnoAfter
    <1>6. stmtno \in Int /\ suppressed \in Nat
        BY DEF Types, ResultType, InputType
    <1>7. stmtno < stmtno'
        BY <1>2, <1>6
    <1>8. Doing(r, in)
        BY <1>2, <1>3, <1>5, <1>7 DEF Doing, Unmet, Taken
    <1>9. CASE suppressed > 0
        BY <1>2, <1>3, <1>4, <1>5, <1>8, <1>9, SuppressedFollows
    <1>10. CASE ~(suppressed > 0)
        <2>1. Assembled(l, in) /\ r.suppressed = 0
            BY <1>2, <1>3, <1>6, <1>10
        <2>2. CASE Iif(l, in)
            BY <1>2, <1>3, <1>4, <1>5, <1>8, <2>1, <2>2, IifFollows
        <2>3. CASE l.op # "iif"
            <3>1. l = Told(r)
                BY <1>3, <2>3 DEF Told
            <3>2. Obeys(r, l, in)
                BY <1>2, <1>8, <2>1, <3>1 DEF Obeys
            <3>3. CASE Label(l, in) \/ Even(l, in) \/ Section(l, in) \/ Call(l, in) \/ Mexit(l, in)
                       \/ Macro(l, in)
                BY <1>4, <1>5, <3>2, <3>3, LabelFollows, EvenFollows, SectionFollows, CallFollows,
                   MexitFollows, MacroFollows
            <3>4. CASE Part(l, in) \/ Endc(l, in) \/ Enabl(l, in) \/ Globl(l, in) \/ Ignored(l, in)
                BY <1>4, <1>5, <3>2, <3>4, PartFollows, EndcFollows, EnablFollows, GloblFollows,
                   IgnoredFollows
            <3>5. CASE Save(l, in) \/ Restore(l, in) \/ Rept(l, in) \/ Irp(l, in) \/ If(l, in)
                BY <1>4, <1>5, <3>2, <3>5, SaveFollows, RestoreFollows, ReptFollows, IrpFollows,
                   IfFollows
            <3>6. CASE Assign(l, in) \/ Org(l, in) \/ Blkb(l, in)
                BY <1>4, <1>5, <1>8, <2>1, <3>6, AssignFollows, OrgFollows
            <3>7. CASE l.op = "word" /\ Word(l.val, in)
                <4>1. Noted(r) = WordNoted(r, l.val)
                    BY <2>1, <3>1, <3>7 DEF Noted
                <4> QED BY <1>4, <1>5, <1>8, <2>1, <3>7, <4>1, WordFollows
            <3>8. CASE Iif(l, in)
                BY <2>2, <3>8
            <3> QED BY <2>1, <3>3, <3>4, <3>5, <3>6, <3>7, <3>8, Zenon DEF Assembled
        <2>4. l.op = "iif" => Iif(l, in)
            <3> SUFFICES ASSUME l.op = "iif" PROVE Iif(l, in)
                OBVIOUS
            <3>1. ~(Label(l, in) \/ Assign(l, in) \/ Org(l, in) \/ Blkb(l, in) \/ Even(l, in))
                BY DEF Label, Assign, Org, Blkb, Even
            <3>2. ~(Section(l, in) \/ Call(l, in) \/ Mexit(l, in) \/ Macro(l, in))
                BY DEF Section, Call, Mexit, Macro
            <3>3. ~(Part(l, in) \/ Endc(l, in) \/ Enabl(l, in) \/ Globl(l, in) \/ Ignored(l, in))
                BY DEF Part, Endc, Enabl, Globl, Ignored, Closes
            <3>4. ~(Save(l, in) \/ Restore(l, in) \/ Rept(l, in) \/ Irp(l, in) \/ If(l, in))
                BY DEF Save, Restore, Rept, Irp, If
            <3> QED BY <2>1, <3>1, <3>2, <3>3, <3>4 DEF Assembled
        <2> QED BY <2>2, <2>3, <2>4
    <1> QED BY <1>9, <1>10

(* A statement that follows from a state leads to the next one.            *)
LEMMA Goes ==
    ASSUME NEW r, NEW e, Follows(r, e), phase' = "reading", Sound(r, e), stmtno' = StmtnoAfter(r),
           NEW k, k = After(r, e)
    PROVE  Matches(k)' /\ (OwnSaved(r) => OwnSaved(k)')
    <1>1. /\ InputGoes(r, e) /\ suppressed' = SuppressedAfter(r, e)
          /\ MacrosGo(r, e) /\ BlocksGo(r, e) /\ PlaceGoes(r, e)
          /\ OwnSaved(r) => SavedGoes(r, e)
        BY DEF Follows
    <1>2. /\ k.stack = InputAfter(r, e).stack /\ k.conds = InputAfter(r, e).conds
          /\ k.suppressed = SuppressedAfter(r, e) /\ k.stmtno = StmtnoAfter(r)
          /\ k.macros = MacrosAfter(r, e) /\ k.lsb = LsbAfter(r, e)
          /\ k.last_lsb = (IF e[1] = "call" THEN r.lsb ELSE r.last_lsb)
          /\ k.last_locsym = (IF e[1] = "call" THEN ExpansionOf(r).next ELSE r.last_locsym)
          /\ k.enabl = EnablAfter(r, e) /\ k.current = CurrentAfter(r, e) /\ k.pc = PcAfter(r, e)
          /\ k.sp = SpAfter(r, e) /\ k.saved = SavedAfter(r, e)
        BY DEF After
    <1>3. MacrosAre(k)'
        BY <1>1, <1>2 DEF MacrosGo, MacrosAre
    <1>4. SavedIs(k)'
        BY <1>1, <1>2 DEF PlaceGoes, SavedIs
    <1>5. /\ stack' = k.stack /\ conds' = k.conds /\ suppressed' = k.suppressed
          /\ stmtno' = k.stmtno
        BY <1>1, <1>2 DEF InputGoes
    <1>6. /\ lsb' = k.lsb /\ last_lsb' = k.last_lsb /\ last_locsym' = k.last_locsym
          /\ enabl_lsb' = k.enabl
        BY <1>1, <1>2 DEF BlocksGo
    <1>7. current' = k.current /\ pc' = k.pc /\ sect_sp' = k.sp
        BY <1>1, <1>2 DEF PlaceGoes
    <1>8. Matches(k)'
        BY <1>3, <1>4, <1>5, <1>6, <1>7 DEF Matches
    <1>9. OwnSaved(r) => OwnSaved(k)'
        BY <1>1, <1>2 DEF SavedGoes, OwnSaved
    <1> QED BY <1>8, <1>9

-----------------------------------------------------------------------------
(* The states that the first pass has gone through, g[0] the beginning and *)
(* g[k] after its k-th statement; no macro of theirs is of an earlier      *)
(* statement than the one that they come to.                               *)
Step(r, e, s) ==
    /\ s = After(r, e) /\ Got(r).line # EOF /\ Sound(r, e)
    /\ e[1] \in Decides \/ e = Noted(r)

Rising(g, n) == \A k \in 0..n : g[k].stmtno \in Int /\ g[k].stmtno <= g[n].stmtno

Ordered(g, n) ==
    \A k \in 0..n, m \in DOMAIN g[n].macros :
        m \in DOMAIN g[k].macros \/ (k < n /\ g[k + 1].stmtno <= g[n].macros[m].stmtno)

Chained(g, t, b) ==
    /\ g[0] = b
    /\ \A k \in 1..Len(t) : Step(g[k - 1], t[k], g[k])
    /\ Rising(g, Len(t)) /\ Ordered(g, Len(t))

FirstReads ==
    pass = 0 /\ phase = "reading" =>
        \E g, t, b, r :
            /\ t = traces[0] /\ b = Beginning /\ Chained(g, t, b)
            /\ r = g[Len(t)] /\ Matches(r) /\ OwnSaved(r) /\ DOMAIN macros \subseteq DOMAIN r.macros

(* The first place where the passes differ is one that an expression       *)
(* decides.                                                                *)
Diverged ==
    \E i \in DOMAIN traces[0] \cap DOMAIN traces[1] :
        /\ traces[0][i] # traces[1][i]
        /\ traces[0][i][1] \in Decides \/ traces[1][i][1] \in Decides
        /\ \A k \in 1..i - 1 : traces[0][k] = traces[1][k]

(* The second pass goes through the same states, with the macros of the    *)
(* first one that are still to come.                                       *)
Retraces(g, t, s, r, last) ==
    /\ r = g[Len(s)] /\ last = g[Len(t)] /\ Got(last).line = EOF
    /\ Len(s) <= Len(t) /\ \A k \in 1..Len(s) : s[k] = t[k]

Remaining(r, last) ==
    \A m \in DOMAIN macros : \/ m \in DOMAIN r.macros
                             \/ m \in DOMAIN last.macros /\ macros[m] = last.macros[m]

SecondReads ==
    pass = 1 /\ phase \in {"reading", "done"} /\ ~LeavesOn(0) /\ ~Diverged =>
        \E g, t, b, s, r, last :
            /\ t = traces[0] /\ s = traces[1] /\ b = Beginning
            /\ Chained(g, t, b) /\ Retraces(g, t, s, r, last)
            /\ phase = "reading" => Matches(r) /\ Remaining(r, last)
            /\ phase = "done" => Len(s) = Len(t)

PassesOK ==
    /\ phase = "done" => pass = 1
    /\ pass = 0 /\ phase = "reading" => (enabl_lsb <=> LeavesOn(0))
    /\ FirstReads /\ SecondReads

Lengthens(g, t, b, r, e, s, u) ==
    /\ IsSeq(t) /\ Chained(g, t, b) /\ r = g[Len(t)]
    /\ Step(r, e, s) /\ u = Append(t, e)

LEMMA ChainGrows ==
    ASSUME NEW g, NEW t, NEW b, NEW r, NEW e, NEW s, NEW u, Lengthens(g, t, b, r, e, s, u)
    PROVE  \E h : Chained(h, u, b) /\ h[Len(u)] = s
    <1>. IsSeq(t) /\ Chained(g, t, b) /\ r = g[Len(t)] /\ Step(r, e, s) /\ u = Append(t, e)
        BY DEF Lengthens
    <1>1. PICK n : n = Len(t)
        OBVIOUS
    <1>2. /\ n \in Nat /\ Len(u) = n + 1 /\ u[n + 1] = e /\ \A k \in 1..n : u[k] = t[k]
        BY <1>1, AppendIs
    <1>3. PICK h : h = [k \in 0..n + 1 |-> IF k = n + 1 THEN s ELSE g[k]]
        OBVIOUS
    <1>4. h[n + 1] = s /\ \A k \in 0..n : h[k] = g[k]
        BY <1>2, <1>3
    <1>5. /\ g[0] = b /\ \A k \in 1..n : Step(g[k - 1], t[k], g[k])
          /\ Rising(g, n) /\ Ordered(g, n)
        BY <1>1 DEF Chained
    <1>6. h[0] = b
        BY <1>2, <1>4, <1>5
    <1>7. \A k \in 1..n + 1 : Step(h[k - 1], u[k], h[k])
        <2>1. ASSUME NEW k \in 1..n + 1
              PROVE  Step(h[k - 1], u[k], h[k])
            <3>1. CASE k = n + 1
                <4>1. h[k - 1] = r /\ u[k] = e /\ h[k] = s
                    BY <1>1, <1>2, <1>4, <3>1
                <4> QED BY <4>1
            <3>2. CASE k # n + 1
                <4>1. k \in 1..n /\ k - 1 \in 0..n /\ k \in 0..n
                    BY <1>2, <3>2
                <4>2. h[k - 1] = g[k - 1] /\ h[k] = g[k] /\ u[k] = t[k]
                    BY <1>2, <1>4, <4>1
                <4> QED BY <1>5, <4>1, <4>2
            <3> QED BY <3>1, <3>2
        <2> QED BY <2>1
    <1>8. r.stmtno \in Int /\ \A k \in 0..n : g[k].stmtno \in Int /\ g[k].stmtno <= r.stmtno
        BY <1>1, <1>2, <1>5 DEF Rising
    <1>9. s.stmtno \in Int /\ r.stmtno <= s.stmtno
        BY <1>8 DEF Step, After, StmtnoAfter
    <1>10. \A k \in 0..n + 1 : h[k].stmtno \in Int /\ h[k].stmtno <= s.stmtno
        <2>1. ASSUME NEW k \in 0..n + 1
              PROVE  h[k].stmtno \in Int /\ h[k].stmtno <= s.stmtno
            <3>1. CASE k = n + 1
                BY <1>4, <1>9, <3>1
            <3>2. CASE k # n + 1
                <4>1. k \in 0..n
                    BY <1>2, <3>2
                <4>2. h[k] = g[k] /\ g[k].stmtno \in Int /\ g[k].stmtno <= r.stmtno
                    BY <1>4, <1>8, <4>1
                <4>3. g[k].stmtno <= s.stmtno
                    BY <1>8, <1>9, <4>2
                <4> QED BY <4>2, <4>3
            <3> QED BY <3>1, <3>2
        <2> QED BY <2>1
    <1>11. \A m \in DOMAIN s.macros : \/ m \in DOMAIN r.macros /\ s.macros[m] = r.macros[m]
                                      \/ s.macros[m].stmtno = s.stmtno
        BY DEF Step, After, MacrosAfter, With
    <1>12. Ordered(h, n + 1)
        <2>1. ASSUME NEW k \in 0..n + 1, NEW m \in DOMAIN s.macros
              PROVE  \/ m \in DOMAIN h[k].macros
                     \/ k < n + 1 /\ h[k + 1].stmtno <= s.macros[m].stmtno
            <3>1. CASE k = n + 1
                BY <1>4, <2>1, <3>1
            <3>2. CASE k # n + 1
                <4>1. k \in 0..n /\ k < n + 1 /\ k + 1 \in 0..n + 1
                    BY <1>2, <3>2
                <4>2. h[k] = g[k]
                    BY <1>4, <4>1
                <4>3. CASE s.macros[m].stmtno = s.stmtno
                    BY <1>10, <4>1, <4>3
                <4>4. CASE m \in DOMAIN r.macros /\ s.macros[m] = r.macros[m]
                    <5>1. \/ m \in DOMAIN g[k].macros
                          \/ k < n /\ g[k + 1].stmtno <= r.macros[m].stmtno
                        BY <1>1, <1>5, <4>1, <4>4 DEF Ordered
                    <5>2. k < n => h[k + 1] = g[k + 1]
                        BY <1>2, <1>4, <4>1
                    <5> QED BY <4>1, <4>2, <4>4, <5>1, <5>2
                <4> QED BY <1>11, <2>1, <4>3, <4>4
            <3> QED BY <3>1, <3>2
        <2> QED BY <1>4, <2>1 DEF Ordered
    <1>13. Rising(h, n + 1)
        BY <1>4, <1>10 DEF Rising
    <1>14. Chained(h, u, b)
        BY <1>2, <1>6, <1>7, <1>12, <1>13 DEF Chained
    <1> QED BY <1>2, <1>4, <1>14

LEMMA AssembleGoesOn ==
    ASSUME assemble
    PROVE  phase' # "done" /\ source' = source /\ pass' = pass /\ phase = "reading"
    <1>1. PICK l, in : /\ phase = "reading"
                       /\ Suppressed(l, in) \/ Assembled(l, in)
                       /\ UNCHANGED <<source, pass, directory>>
        BY Zenon DEF assemble
    <1>2. CASE Suppressed(l, in)
        <2>1. \E b : phase' = IF b THEN "undefined" ELSE phase
            BY <1>2, Zenon DEF Suppressed
        <2> QED BY <1>1, <2>1
    <1>3. CASE Save(l, in)
        BY <1>1, <1>3 DEF Save
    <1>4. CASE Restore(l, in)
        <2>1. \E a, b : phase' = IF a THEN phase ELSE IF b THEN "crashed" ELSE "undefined"
            BY <1>4, Zenon DEF Restore
        <2> QED BY <1>1, <2>1
    <1>5. CASE Rept(l, in)
        <2>1. UNCHANGED phase \/ \E b : phase' = IF b THEN phase ELSE "crashed"
            BY <1>5, Zenon DEF Rept
        <2> QED BY <1>1, <2>1
    <1>6. CASE Irp(l, in)
        <2>1. \E b : phase' = IF b THEN phase ELSE "crashed"
            BY <1>6, Zenon DEF Irp
        <2> QED BY <1>1, <2>1
    <1>7. CASE If(l, in)
        <2>1. UNCHANGED phase \/ phase' = "crashed"
            BY <1>7, Zenon DEF If
        <2> QED BY <1>1, <2>1
    <1>8. CASE UNCHANGED phase
        BY <1>1, <1>8
    <1>9. Assembled(l, in) => \/ UNCHANGED phase
                              \/ Save(l, in) \/ Restore(l, in) \/ Rept(l, in) \/ Irp(l, in)
                              \/ If(l, in)
        BY Zenon DEF Assembled
    <1> QED BY <1>1, <1>2, <1>3, <1>4, <1>5, <1>6, <1>7, <1>8, <1>9

LEMMA LeavesOnIs ==
    ASSUME NEW e, NEW n, Entered(e, n), pass = 0
    PROVE  LeavesOn(0)' <=> \/ e[1] = "enabl"
                            \/ e[1] # "dsabl" /\ LeavesOn(0)
    <1>1. \A kind : Entries(0, kind)' = Entries(0, kind) \cup (IF e[1] = kind THEN {n} ELSE {})
        BY EntriesAre
    <1>2. \A kind : \A i \in Entries(0, kind) : i \in Nat /\ i < n
        BY DEF Entered, Entries
    <1>3. n \in Nat
        BY DEF Entered
    <1>4. CASE e[1] = "enabl"
        <2>1. n \in Entries(0, "enabl")' /\ Entries(0, "dsabl")' = Entries(0, "dsabl")
            BY <1>1, <1>4
        <2> QED BY <1>2, <1>4, <2>1 DEF LeavesOn
    <1>5. CASE e[1] = "dsabl"
        <2>1. n \in Entries(0, "dsabl")' /\ Entries(0, "enabl")' = Entries(0, "enabl")
            BY <1>1, <1>5
        <2>2. \A i \in Entries(0, "enabl") : ~(n < i)
            BY <1>2, <1>3
        <2> QED BY <1>5, <2>1, <2>2 DEF LeavesOn
    <1>6. CASE e[1] \notin {"enabl", "dsabl"}
        <2>1. Entries(0, "enabl")' = Entries(0, "enabl")
            BY <1>1, <1>6
        <2>2. Entries(0, "dsabl")' = Entries(0, "dsabl")
            BY <1>1, <1>6
        <2> QED BY <1>6, <2>1, <2>2 DEF LeavesOn
    <1> QED BY <1>4, <1>5, <1>6

LEMMA InitPasses == Init => PassesOK
    <1> SUFFICES ASSUME Init PROVE PassesOK
        OBVIOUS
    <1>1. /\ pass = 0 /\ phase = "reading" /\ traces = [p \in {0, 1} |-> <<>>]
          /\ stack = <<FileStream(source)>> /\ conds = <<>> /\ suppressed = 0 /\ stmtno = 0
          /\ macros = <<>> /\ lsb = 0 /\ last_lsb = -1 /\ last_locsym = FirstNumber - 1
          /\ enabl_lsb = FALSE /\ current = "" /\ pc = [s \in SectionNames |-> 0]
          /\ sect_stack = <<>> /\ sect_sp = -1
        BY DEF Init, Start
    <1>2. PICK b : b = Beginning
        OBVIOUS
    <1>3. PICK t : t = traces[0]
        OBVIOUS
    <1>4. t = <<>> /\ Len(t) = 0
        BY <1>1, <1>3, EmptySeq
    <1>5. PICK g : g = [k \in {0} |-> b]
        OBVIOUS
    <1>6. g[0] = b
        BY <1>5
    <1>7. b.stmtno = 0 /\ b.saved = NoSection /\ b.macros = <<>>
        BY <1>2 DEF Beginning
    <1>8. DOMAIN b.macros = {} /\ DOMAIN sect_stack = {} /\ DOMAIN macros = {}
        <2>1. DOMAIN <<>> = {}
            OBVIOUS
        <2>2. macros = <<>> /\ sect_stack = <<>>
            BY <1>1
        <2> QED BY <1>7, <2>1, <2>2, Zenon
    <1>9. Matches(b)
        <2>1. /\ stack = b.stack /\ conds = b.conds /\ suppressed = b.suppressed
              /\ stmtno = b.stmtno
            BY <1>1, <1>2 DEF Beginning
        <2>2. /\ lsb = b.lsb /\ last_lsb = b.last_lsb /\ last_locsym = b.last_locsym
              /\ enabl_lsb = b.enabl /\ current = b.current /\ pc = b.pc /\ sect_sp = b.sp
            BY <1>1, <1>2 DEF Beginning
        <2> QED BY <1>7, <1>8, <2>1, <2>2 DEF Matches, MacrosAre, SavedIs
    <1>10. OwnSaved(b)
        BY <1>8 DEF OwnSaved
    <1>11. Rising(g, 0)
        BY <1>6, <1>7 DEF Rising
    <1>12. Ordered(g, 0)
        BY <1>6, <1>8 DEF Ordered
    <1>13. Chained(g, t, b)
        BY <1>4, <1>6, <1>11, <1>12 DEF Chained
    <1>14. FirstReads
        BY <1>2, <1>3, <1>4, <1>6, <1>8, <1>9, <1>10, <1>13 DEF FirstReads
    <1>15. ~LeavesOn(0)
        <2>1. DOMAIN <<>> = {}
            OBVIOUS
        <2>2. DOMAIN traces[0] = {}
            BY <1>3, <1>4, <2>1, Zenon
        <2> QED BY <2>2, Zenon DEF LeavesOn, Entries
    <1>16. SecondReads
        <2>1. pass = 0
            BY <1>1, Zenon
        <2>2. pass # 1
            BY <2>1
        <2> QED BY <2>2, Zenon DEF SecondReads
    <1> QED BY <1>1, <1>14, <1>15, <1>16 DEF PassesOK

(* A statement of the first pass makes the states that it goes through one *)
(* longer.                                                                 *)
LEMMA FirstPassGoes ==
    ASSUME Types, TracesOK, PassesOK, assemble, pass = 0
    PROVE  PassesOK'
    <1>1. phase' # "done" /\ source' = source /\ pass' = pass /\ phase = "reading"
        BY AssembleGoesOn
    <1>2. PICK g, t, b, r :
              /\ t = traces[0] /\ b = Beginning /\ Chained(g, t, b)
              /\ r = g[Len(t)] /\ Matches(r) /\ OwnSaved(r) /\ DOMAIN macros \subseteq DOMAIN r.macros
        BY <1>1 DEF PassesOK, FirstReads
    <1>3. Unmet(r)
        BY <1>2 DEF Unmet
    <1>4. Got(r).line # EOF /\ stmtno' = StmtnoAfter(r)
        BY <1>2, <1>3, AssembleFollows
    <1>5. PICK e : Follows(r, e)
        BY <1>2, <1>3, AssembleFollows
    <1>6. Note(e)
        BY <1>5 DEF Follows
    <1>7. PICK u : u = Append(t, e)
        OBVIOUS
    <1>8. u = traces'[0] /\ IsSeq(t)
        BY <1>1, <1>2, <1>6, <1>7, NoteIs DEF TracesOK
    <1>9. phase' = "reading" => FirstReads'
        <2> SUFFICES ASSUME phase' = "reading" PROVE FirstReads'
            OBVIOUS
        <2>1. Sound(r, e) /\ MacrosGo(r, e)
            BY <1>2, <1>5 DEF Follows
        <2>2. PICK s : s = After(r, e)
            OBVIOUS
        <2>3. Step(r, e, s)
            BY <1>4, <1>5, <2>1, <2>2 DEF Step, Follows
        <2>4. PICK h : Chained(h, u, b) /\ h[Len(u)] = s
            <3>1. IsSeq(t) /\ Chained(g, t, b) /\ r = g[Len(t)]
                BY <1>2, <1>8
            <3>2. Lengthens(g, t, b, r, e, s, u)
                BY <1>7, <2>3, <3>1, Zenon DEF Lengthens
            <3>3. \E h : Chained(h, u, b) /\ h[Len(u)] = s
                BY <3>2, ChainGrows
            <3> QED BY <3>3
        <2>5. Matches(s)' /\ OwnSaved(s)'
            BY <1>2, <1>4, <1>5, <2>1, <2>2, Goes
        <2>6. DOMAIN macros' \subseteq DOMAIN s.macros
            <3>1. s.macros = MacrosAfter(r, e)
                BY <2>2 DEF After
            <3>2. DOMAIN r.macros \subseteq DOMAIN MacrosAfter(r, e)
                BY DEF MacrosAfter, With
            <3> QED BY <1>2, <2>1, <3>1, <3>2 DEF MacrosGo
        <2>7. b = Beginning'
            BY <1>1, <1>2 DEF Beginning
        <2> QED BY <1>8, <2>4, <2>5, <2>6, <2>7 DEF FirstReads
    <1>10. phase' = "reading" => (enabl_lsb' <=> LeavesOn(0)')
        <2> SUFFICES ASSUME phase' = "reading" PROVE enabl_lsb' <=> LeavesOn(0)'
            OBVIOUS
        <2>1. enabl_lsb' = EnablAfter(r, e)
            BY <1>5 DEF Follows, BlocksGo
        <2>2. enabl_lsb = r.enabl /\ (enabl_lsb <=> LeavesOn(0))
            BY <1>1, <1>2 DEF Matches, PassesOK
        <2>3. PICK n : Entered(e, n)
            BY <1>1, <1>6, NoteEnters
        <2>4. LeavesOn(0)' <=> \/ e[1] = "enabl"
                               \/ e[1] # "dsabl" /\ LeavesOn(0)
            BY <2>3, LeavesOnIs
        <2>5. EnablAfter(r, e) <=> \/ e[1] = "enabl"
                                   \/ e[1] # "dsabl" /\ enabl_lsb
            BY <2>2 DEF EnablAfter
        <2> QED BY <2>1, <2>2, <2>4, <2>5
    <1>11. SecondReads'
        BY <1>1 DEF SecondReads
    <1>12. FirstReads'
        BY <1>9 DEF FirstReads
    <1> QED BY <1>1, <1>10, <1>11, <1>12 DEF PassesOK

(* Between the passes: the first one has come to the end of the input in   *)
(* its last state, and the second one starts where it did.                 *)
LEMMA SecondPassStarts ==
    ASSUME Types, TracesOK, PassesOK, SecondPass
    PROVE  PassesOK'
    <1>1. /\ pass = 0 /\ phase = "reading" /\ stack_gets(Input).line = EOF /\ pass' = 1
          /\ UNCHANGED <<source, phase, macros, enabl_lsb, traces>>
          /\ stack' = <<FileStream(source)>> /\ conds' = <<>> /\ suppressed' = 0 /\ stmtno' = 0
          /\ lsb' = 0 /\ last_lsb' = -1 /\ last_locsym' = FirstNumber - 1
          /\ current' = "" /\ pc' = [s \in DOMAIN pc |-> 0] /\ sect_sp' = -1
        BY DEF SecondPass, AtEnd, RestartedBlocks
    <1>2. PICK g, t, b, r :
              /\ t = traces[0] /\ b = Beginning /\ Chained(g, t, b)
              /\ r = g[Len(t)] /\ Matches(r) /\ OwnSaved(r) /\ DOMAIN macros \subseteq DOMAIN r.macros
        BY <1>1 DEF PassesOK, FirstReads
    <1>3. Got(r).line = EOF
        <2>1. Input = [stack |-> r.stack, conds |-> r.conds]
            BY <1>2 DEF Input, Matches
        <2> QED BY <1>1, <2>1 DEF Got
    <1>4. PICK s : s = traces[1]
        OBVIOUS
    <1>5. Len(s) = 0
        BY <1>1, <1>4, EmptySeq DEF TracesOK
    <1>6. g[0] = b
        BY <1>2 DEF Chained
    <1>7. Len(t) \in Nat
        BY <1>2, AppendIs DEF TracesOK
    <1>8. Retraces(g, t, s, b, r)
        BY <1>2, <1>3, <1>5, <1>6, <1>7 DEF Retraces
    <1>9. b.saved = NoSection /\ b.macros = <<>> /\ DOMAIN b.macros = {}
        <2>1. DOMAIN <<>> = {}
            OBVIOUS
        <2>2. b.saved = NoSection /\ b.macros = <<>>
            BY <1>2 DEF Beginning
        <2> QED BY <2>1, <2>2, Zenon
    <1>10. Remaining(b, r)'
        BY <1>1, <1>2 DEF Remaining, Matches, MacrosAre
    <1>11. LeavesOn(0)' <=> LeavesOn(0)
        BY <1>1 DEF LeavesOn, Entries
    <1>12. ~LeavesOn(0)' => Matches(b)'
        <2> SUFFICES ASSUME ~LeavesOn(0)' PROVE Matches(b)'
            OBVIOUS
        <2>1. enabl_lsb' = FALSE
            BY <1>1, <1>11 DEF PassesOK, Types, BlockType
        <2>2. pc' = [k \in SectionNames |-> 0]
            BY <1>1 DEF Types, SectionType
        <2>3. /\ stack' = b.stack /\ conds' = b.conds /\ suppressed' = b.suppressed
              /\ stmtno' = b.stmtno
            BY <1>1, <1>2 DEF Beginning
        <2>4. /\ lsb' = b.lsb /\ last_lsb' = b.last_lsb /\ last_locsym' = b.last_locsym
              /\ enabl_lsb' = b.enabl /\ current' = b.current /\ pc' = b.pc /\ sect_sp' = b.sp
            BY <1>1, <1>2, <2>1, <2>2 DEF Beginning
        <2> QED BY <1>9, <2>3, <2>4 DEF Matches, MacrosAre, SavedIs
    <1>13. b = Beginning' /\ t = traces'[0] /\ s = traces'[1]
        BY <1>1, <1>2, <1>4 DEF Beginning
    <1>14. SecondReads'
        BY <1>1, <1>2, <1>8, <1>10, <1>12, <1>13 DEF SecondReads
    <1>15. pass' = 1
        BY <1>1, Zenon
    <1>16. pass' # 0
        BY <1>15
    <1>17. FirstReads'
        BY <1>16, Zenon DEF FirstReads
    <1> QED BY <1>14, <1>15, <1>16, <1>17, Zenon DEF PassesOK

LEMMA DivergedStays ==
    ASSUME NEW e, NEW n, Entered(e, n), pass = 1, TracesOK, Diverged
    PROVE  Diverged'
    <1>1. PICK i \in DOMAIN traces[0] \cap DOMAIN traces[1] :
              /\ traces[0][i] # traces[1][i]
              /\ traces[0][i][1] \in Decides \/ traces[1][i][1] \in Decides
              /\ \A k \in 1..i - 1 : traces[0][k] = traces[1][k]
        BY DEF Diverged
    <1>2. /\ traces'[0] = traces[0] /\ DOMAIN traces[1] \subseteq DOMAIN traces'[1]
          /\ \A k \in DOMAIN traces[1] : traces'[1][k] = traces[1][k]
        BY DEF Entered
    <1>3. DOMAIN traces[1] = 1..Len(traces[1]) /\ Len(traces[1]) \in Nat
        BY AppendIs DEF TracesOK
    <1>4. \A k \in 1..i - 1 : k \in DOMAIN traces[1]
        BY <1>1, <1>3
    <1> QED BY <1>1, <1>2, <1>4 DEF Diverged

(* A statement of the second pass is that of the first one in the same     *)
(* place, or one of the two notes what an expression decides.              *)
LEMMA SecondPassGoes ==
    ASSUME Types, TracesOK, PassesOK, assemble, pass = 1
    PROVE  PassesOK'
    <1>1. phase' # "done" /\ source' = source /\ pass' = pass /\ phase = "reading"
        BY AssembleGoesOn
    <1>2. SecondReads'
        <2> SUFFICES ASSUME phase' \in {"reading", "done"}, ~LeavesOn(0)', ~Diverged'
                     PROVE  \E g, t, b, s, r, last :
                                /\ t = traces'[0] /\ s = traces'[1] /\ b = Beginning'
                                /\ Chained(g, t, b) /\ Retraces(g, t, s, r, last)
                                /\ phase' = "reading" => Matches(r)' /\ Remaining(r, last)'
                                /\ phase' = "done" => Len(s) = Len(t)
            BY DEF SecondReads
        <2>1. PICK e0 : Note(e0)
            BY AssembleDoes DEF Does
        <2>2. PICK n0 : Entered(e0, n0)
            BY <1>1, <2>1, NoteEnters
        <2>3. traces'[0] = traces[0]
            BY <2>2 DEF Entered
        <2>4. ~Diverged
            BY <2>2, DivergedStays
        <2>5. ~LeavesOn(0)
            BY <2>3 DEF LeavesOn, Entries
        <2>6. PICK g, t, b, s, r, last :
                  /\ t = traces[0] /\ s = traces[1] /\ b = Beginning
                  /\ Chained(g, t, b) /\ Retraces(g, t, s, r, last)
                  /\ Matches(r) /\ Remaining(r, last)
            BY <1>1, <2>4, <2>5 DEF PassesOK, SecondReads
        <2>7. /\ r = g[Len(s)] /\ last = g[Len(t)] /\ Got(last).line = EOF
              /\ Len(s) <= Len(t) /\ \A k \in 1..Len(s) : s[k] = t[k]
            BY <2>6 DEF Retraces
        <2>8. IsSeq(s) /\ IsSeq(t)
            BY <2>6 DEF TracesOK
        <2>9. Len(s) \in Nat /\ Len(t) \in Nat /\ DOMAIN t = 1..Len(t) /\ DOMAIN s = 1..Len(s)
            BY <2>8, AppendIs
        <2>10. Got(r).line # EOF
            <3>1. Input = [stack |-> r.stack, conds |-> r.conds]
                BY <2>6 DEF Input, Matches
            <3>2. stack_gets(Input).line # EOF
                BY Zenon DEF assemble
            <3> QED BY <3>1, <3>2 DEF Got
        <2>11. Len(s) < Len(t)
            BY <2>7, <2>9, <2>10
        <2>12. PICK j : j = Len(s) + 1
            OBVIOUS
        <2>13. j \in 1..Len(t) /\ j - 1 = Len(s) /\ Len(s) \in 0..Len(t)
            BY <2>9, <2>11, <2>12
        <2>14. Step(r, t[j], g[j])
            BY <2>6, <2>7, <2>13 DEF Chained
        <2>15. Unmet(r)
            <3>1. \A m \in DOMAIN last.macros :
                      m \in DOMAIN r.macros \/ g[j].stmtno <= last.macros[m].stmtno
                BY <2>6, <2>7, <2>12, <2>13 DEF Chained, Ordered
            <3>2. g[j].stmtno = StmtnoAfter(r)
                BY <2>14 DEF Step, After
            <3> QED BY <2>6, <3>1, <3>2 DEF Unmet, Remaining
        <2>16. stmtno' = StmtnoAfter(r)
            BY <2>6, <2>15, AssembleFollows
        <2>17. PICK e : Follows(r, e)
            BY <2>6, <2>15, AssembleFollows
        <2>18. Note(e)
            BY <2>17 DEF Follows
        <2>19. PICK u : u = Append(s, e)
            OBVIOUS
        <2>20. u = traces'[1]
            BY <1>1, <2>6, <2>18, <2>19, NoteIs
        <2>21. /\ Len(u) = j /\ u[j] = e /\ \A k \in 1..Len(s) : u[k] = s[k]
               /\ DOMAIN u = 1..j
            BY <2>8, <2>12, <2>19, AppendIs
        <2>22. e = t[j]
            <3> SUFFICES ASSUME e # t[j] PROVE FALSE
                OBVIOUS
            <3>1. e[1] \in Decides \/ t[j][1] \in Decides
                BY <2>14, <2>17 DEF Step, Follows
            <3>2. \A k \in 1..j - 1 : t[k] = u[k]
                BY <2>7, <2>13, <2>21
            <3>3. j \in DOMAIN t \cap DOMAIN u
                BY <2>9, <2>13, <2>21
            <3>4. t = traces'[0]
                BY <2>3, <2>6
            <3>5. Diverged'
                BY <2>20, <2>21, <3>1, <3>2, <3>3, <3>4 DEF Diverged
            <3> QED BY <3>5
        <2>23. PICK q : q = g[j]
            OBVIOUS
        <2>24. q = After(r, e) /\ Sound(r, e)
            BY <2>14, <2>22, <2>23 DEF Step
        <2>25. Retraces(g, t, u, q, last)
            <3>1. \A k \in 1..j : u[k] = t[k]
                BY <2>7, <2>9, <2>12, <2>21, <2>22
            <3>2. j <= Len(t)
                BY <2>13
            <3> QED BY <2>7, <2>21, <2>23, <3>1, <3>2 DEF Retraces
        <2>26. phase' = "reading"
            BY <1>1
        <2>27. Matches(q)'
            BY <2>16, <2>17, <2>24, <2>26, Goes
        <2>28. Remaining(q, last)'
            <3>1. q.macros = MacrosAfter(r, e)
                BY <2>24 DEF After
            <3>2. DOMAIN r.macros \subseteq DOMAIN MacrosAfter(r, e)
                BY DEF MacrosAfter, With
            <3>3. \A m \in DOMAIN macros' : m \in DOMAIN MacrosAfter(r, e)
                                            \/ (m \in DOMAIN macros /\ macros'[m] = macros[m])
                BY <2>17, <2>26 DEF Follows, MacrosGo
            <3> QED BY <2>6, <3>1, <3>2, <3>3 DEF Remaining
        <2>29. b = Beginning' /\ t = traces'[0]
            BY <1>1, <2>3, <2>6 DEF Beginning
        <2> QED BY <1>1, <2>6, <2>20, <2>25, <2>27, <2>28, <2>29
    <1>3. FirstReads'
        BY <1>1 DEF FirstReads
    <1> QED BY <1>1, <1>2, <1>3 DEF PassesOK

LEMMA SecondPassEnds ==
    ASSUME Types, TracesOK, PassesOK, Finish
    PROVE  PassesOK'
    <1>1. /\ pass = 1 /\ phase = "reading" /\ stack_gets(Input).line = EOF /\ phase' = "done"
          /\ UNCHANGED <<source, pass, traces>>
        BY DEF Finish, AtEnd
    <1>2. SecondReads'
        <2> SUFFICES ASSUME ~LeavesOn(0)', ~Diverged'
                     PROVE  \E g, t, b, s, r, last :
                                /\ t = traces'[0] /\ s = traces'[1] /\ b = Beginning'
                                /\ Chained(g, t, b) /\ Retraces(g, t, s, r, last)
                                /\ phase' = "reading" => Matches(r)' /\ Remaining(r, last)'
                                /\ phase' = "done" => Len(s) = Len(t)
            BY DEF SecondReads
        <2>1. ~LeavesOn(0) /\ ~Diverged
            BY <1>1 DEF LeavesOn, Entries, Diverged
        <2>2. PICK g, t, b, s, r, last :
                  /\ t = traces[0] /\ s = traces[1] /\ b = Beginning
                  /\ Chained(g, t, b) /\ Retraces(g, t, s, r, last) /\ Matches(r)
            BY <1>1, <2>1 DEF PassesOK, SecondReads
        <2>3. Got(r).line = EOF
            <3>1. Input = [stack |-> r.stack, conds |-> r.conds]
                BY <2>2 DEF Input, Matches
            <3> QED BY <1>1, <3>1 DEF Got
        <2>4. r = g[Len(s)] /\ Len(s) <= Len(t) /\ Len(s) \in Nat /\ Len(t) \in Nat
            <3>1. IsSeq(s) /\ IsSeq(t)
                BY <2>2 DEF TracesOK
            <3>2. Len(s) \in Nat /\ Len(t) \in Nat
                BY <3>1, AppendIs
            <3> QED BY <2>2, <3>2 DEF Retraces
        <2>5. Len(s) = Len(t)
            <3> SUFFICES ASSUME Len(s) < Len(t) PROVE FALSE
                BY <2>4
            <3>1. Len(s) + 1 \in 1..Len(t) /\ (Len(s) + 1) - 1 = Len(s)
                BY <2>4
            <3>2. Step(g[Len(s)], t[Len(s) + 1], g[Len(s) + 1])
                BY <2>2, <3>1 DEF Chained
            <3> QED BY <2>3, <2>4, <3>2 DEF Step
        <2>6. b = Beginning' /\ t = traces'[0] /\ s = traces'[1]
            BY <1>1, <2>2 DEF Beginning
        <2> QED BY <1>1, <2>2, <2>5, <2>6
    <1>3. FirstReads'
        BY <1>1 DEF FirstReads
    <1> QED BY <1>1, <1>2, <1>3 DEF PassesOK

LEMMA PassesStay ==
    ASSUME PassesOK, UNCHANGED vars
    PROVE  PassesOK'
    <1>1. UNCHANGED <<source, pass, phase, stack, conds, suppressed, stmtno, macros, traces>>
        BY DEF vars, passVars, inputVars
    <1>2. UNCHANGED <<lsb, last_lsb, last_locsym, enabl_lsb, current, pc, sect_stack, sect_sp>>
        BY DEF vars, blockVars, sectionVars
    <1>3. (LeavesOn(0)' <=> LeavesOn(0)) /\ (Diverged' <=> Diverged)
        BY <1>1 DEF LeavesOn, Entries, Diverged
    <1>4. \A r : (Matches(r)' <=> Matches(r)) /\ (OwnSaved(r)' <=> OwnSaved(r))
        BY <1>1, <1>2 DEF Matches, MacrosAre, SavedIs, OwnSaved
    <1>5. \A r, last : Remaining(r, last)' <=> Remaining(r, last)
        BY <1>1 DEF Remaining
    <1>6. Beginning' = Beginning
        BY <1>1 DEF Beginning
    <1>7. FirstReads'
        BY <1>1, <1>4, <1>6 DEF PassesOK, FirstReads
    <1>8. SecondReads'
        BY <1>1, <1>3, <1>4, <1>5, <1>6 DEF PassesOK, SecondReads
    <1> QED BY <1>1, <1>2, <1>3, <1>7, <1>8 DEF PassesOK

LEMMA PassesKept ==
    ASSUME Types, TracesOK, PassesOK, [Next]_vars
    PROVE  PassesOK'
    <1>1. pass \in {0, 1}
        BY DEF TracesOK
    <1> QED BY <1>1, FirstPassGoes, SecondPassGoes, SecondPassStarts, SecondPassEnds, PassesStay
            DEF Next

LEMMA FirstDifference ==
    ASSUME TracesOK, NEW i \in DOMAIN traces[0] \cap DOMAIN traces[1],
           traces[0][i] # traces[1][i],
           \A k \in 1..i - 1 : traces[0][k] = traces[1][k]
    PROVE  i = CHOOSE f \in Differ(traces[0], traces[1]) :
                   \A k \in Differ(traces[0], traces[1]) : f <= k
    <1>1. /\ DOMAIN traces[0] = 1..Len(traces[0]) /\ Len(traces[0]) \in Nat
          /\ DOMAIN traces[1] = 1..Len(traces[1]) /\ Len(traces[1]) \in Nat
        BY AppendIs DEF TracesOK
    <1>2. PICK d : d = Differ(traces[0], traces[1])
        OBVIOUS
    <1>3. i \in d /\ i \in Nat
        BY <1>1, <1>2 DEF Differ
    <1>4. \A k \in d : k \in Nat /\ k >= 1
        BY <1>1, <1>2 DEF Differ
    <1>5. \A k \in d : i <= k
        <2> SUFFICES ASSUME NEW k \in d, k < i PROVE FALSE
            BY <1>3, <1>4
        <2>1. k \in 1..i - 1
            BY <1>3, <1>4
        <2>2. k \in DOMAIN traces[0] /\ k \in DOMAIN traces[1]
            BY <1>1, <2>1
        <2> QED BY <1>2, <2>1, <2>2 DEF Differ
    <1>6. \A f \in d : (\A k \in d : f <= k) => f = i
        <2> SUFFICES ASSUME NEW f \in d, \A k \in d : f <= k PROVE f = i
            OBVIOUS
        <2>1. f <= i /\ i <= f
            BY <1>3, <1>5
        <2>2. f \in Nat
            BY <1>4
        <2> QED BY <1>3, <2>1, <2>2
    <1>7. i = CHOOSE f \in d : \A k \in d : f <= k
        BY <1>3, <1>5, <1>6
    <1> QED BY <1>2, <1>7

(* The second pass reads the program that the first one read, up to the    *)
(* first expression that decides otherwise: what a pass reads next, which  *)
(* macros it has, where "." is and how local symbols are numbered depends  *)
(* on nothing but what it has read, so the second pass goes through the    *)
(* states of the first.  A macro of the first pass is not called before    *)
(* the statement that defines it, as that has the same number in both; and *)
(* a .RESTORE never finds a section that the other pass has saved.         *)
THEOREM PassesAgreeAlways == Spec => []PassesAgree
    <1> DEFINE I == Types /\ SourceOK /\ CallsOK /\ PassesOK
    <1>1. Init => I
        BY InitTypes, InitCalls, InitPasses, ProgramsAssumption DEF Init, SourceOK
    <1>2. I /\ [Next]_vars => I'
        <2>1. CallsOK => TracesOK
            BY DEF CallsOK
        <2> QED BY <2>1, TypesKept, SourceKept, CallsKept, PassesKept DEF SourceOK
    <1>3. I => PassesAgree
        <2> SUFFICES ASSUME TracesOK, PassesOK, phase = "done", ~LeavesOn(0),
                            Differ(traces[0], traces[1]) # {}
                     PROVE  LET i == CHOOSE i \in Differ(traces[0], traces[1]) :
                                         \A j \in Differ(traces[0], traces[1]) : i <= j
                            IN \E p \in {0, 1} :
                                  i \in DOMAIN traces[p] /\ traces[p][i][1] \in Decides
            BY DEF PassesAgree, CallsOK
        <2>1. pass = 1
            BY DEF PassesOK
        <2>2. CASE Diverged
            <3>1. PICK i \in DOMAIN traces[0] \cap DOMAIN traces[1] :
                      /\ traces[0][i] # traces[1][i]
                      /\ traces[0][i][1] \in Decides \/ traces[1][i][1] \in Decides
                      /\ \A k \in 1..i - 1 : traces[0][k] = traces[1][k]
                BY <2>2 DEF Diverged
            <3>2. i = CHOOSE f \in Differ(traces[0], traces[1]) :
                          \A k \in Differ(traces[0], traces[1]) : f <= k
                BY <3>1, FirstDifference
            <3>3. \E p \in {0, 1} : i \in DOMAIN traces[p] /\ traces[p][i][1] \in Decides
                BY <3>1
            <3> QED BY <3>2, <3>3
        <2>3. CASE ~Diverged
            <3>1. PICK g, t, s, r, last :
                      /\ t = traces[0] /\ s = traces[1] /\ Retraces(g, t, s, r, last)
                      /\ Len(s) = Len(t)
                BY <2>1, <2>3 DEF PassesOK, SecondReads
            <3>2. DOMAIN t = 1..Len(t) /\ DOMAIN s = 1..Len(s)
                BY <3>1, AppendIs DEF TracesOK
            <3>3. \A k \in 1..Len(t) : s[k] = t[k]
                BY <3>1 DEF Retraces
            <3>4. Differ(t, s) = {}
                BY <3>1, <3>2, <3>3 DEF Differ
            <3> QED BY <3>1, <3>4
        <2> QED BY <2>2, <2>3
    <1> QED BY <1>1, <1>2, <1>3, PTL DEF Spec
=============================================================================
