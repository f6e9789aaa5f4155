----------------------------- MODULE FoldFacts -----------------------------
(***************************************************************************)
(* What a fold of a sequence computes, for any operator.  A proof about a  *)
(* fold of its own instantiates this module with the operator it folds:    *)
(* the provers cannot instantiate a theorem that takes an operator, but    *)
(* the substitution for a constant of a module is made before they run.    *)
(***************************************************************************)
EXTENDS Integers, Sequences, SequencesExt, WellFoundedInduction, TLAPS

CONSTANT Op(_, _)

Fold(base, s) == FoldLeft(Op, base, s)

(* Induction on a set of natural numbers instead of on a formula.          *)
LEMMA SetInduction ==
    ASSUME NEW S, 0 \in S, \A n \in Nat : n \in S => n + 1 \in S
    PROVE  \A n \in Nat : n \in S
    <1> DEFINE T == {n \in Nat : n \notin S}
    <1>1. SUFFICES ASSUME T # {} PROVE FALSE
        OBVIOUS
    <1>2. PICK x \in T : \A y \in T : ~(<<y, x>> \in OpToRel(<, Nat))
        BY <1>1, WFMin, NatLessThanWellFounded
    <1>3. x \in Nat /\ x # 0 /\ x - 1 \in Nat /\ x - 1 < x
        OBVIOUS
    <1>4. x - 1 \notin T
        BY <1>2, <1>3 DEF OpToRel
    <1>5. x - 1 \in S
        BY <1>3, <1>4
    <1>6. (x - 1) + 1 \in S
        BY <1>3, <1>5
    <1> QED BY <1>3, <1>6

-----------------------------------------------------------------------------
(* FoldLeft goes through the subsets of the domain: f is the function that *)
(* its definition chooses, over the subsets of 1..n.                       *)
Iterates(f, base, s, n) ==
    f = [t \in SUBSET (1..n) |->
            IF t = {} THEN base ELSE LET x == Max(t) IN Op(f[t \ {x}], s[x])]

Iteration(base, s, n) == CHOOSE f : Iterates(f, base, s, n)

LEMMA GreatestIsMax ==
    ASSUME NEW n \in Nat, NEW t \in SUBSET (1..n), n \in t
    PROVE  Max(t) = n
    <1>1. \A y \in t : n >= y
        OBVIOUS
    <1>2. \A x \in t : (\A y \in t : x >= y) => x = n
        OBVIOUS
    <1> QED BY <1>1, <1>2, Zenon DEF Max

(* There is such a function: one for 1..n gives one for 1..n+1.            *)
LEMMA IterationExists ==
    ASSUME NEW base, NEW s
    PROVE  \A n \in Nat : \E f : Iterates(f, base, s, n)
    <1> DEFINE S == {n \in Nat : \E f : Iterates(f, base, s, n)}
    <1>1. 0 \in S
        <2> DEFINE f == [t \in {{}} |-> base]
        <2>1. SUBSET (1..0) = {{}}
            OBVIOUS
        <2>2. Iterates(f, base, s, 0)
            BY <2>1 DEF Iterates
        <2> QED BY <2>2
    <1>2. ASSUME NEW n \in Nat, n \in S PROVE n + 1 \in S
        <2>1. PICK f : Iterates(f, base, s, n)
            BY <1>2
        <2> DEFINE g == [t \in SUBSET (1..(n + 1)) |->
                            IF n + 1 \in t THEN Op(f[t \ {n + 1}], s[n + 1]) ELSE f[t]]
                   h(t) == IF t = {} THEN base ELSE LET x == Max(t) IN Op(g[t \ {x}], s[x])
        <2>2. ASSUME NEW t \in SUBSET (1..(n + 1)) PROVE g[t] = h(t)
            <3>1. CASE n + 1 \in t
                <4>1. Max(t) = n + 1
                    BY <3>1, GreatestIsMax
                <4>2. t \ {n + 1} \in SUBSET (1..(n + 1)) /\ n + 1 \notin t \ {n + 1}
                    OBVIOUS
                <4> QED BY <3>1, <4>1, <4>2
            <3>2. CASE n + 1 \notin t
                <4>1. t \in SUBSET (1..n)
                    BY <3>2
                <4>2. ASSUME NEW x
                      PROVE  t \ {x} \in SUBSET (1..(n + 1)) /\ n + 1 \notin t \ {x}
                    BY <3>2
                <4>3. f[t] = IF t = {} THEN base
                             ELSE LET x == Max(t) IN Op(f[t \ {x}], s[x])
                    BY <2>1, <4>1 DEF Iterates
                <4>4. g[t] = f[t]
                    BY <3>2
                <4>5. \A x : g[t \ {x}] = f[t \ {x}]
                    BY <4>2
                <4> HIDE DEF g
                <4> QED BY <4>3, <4>4, <4>5
            <3> QED BY <3>1, <3>2
        <2>3. g = [t \in SUBSET (1..(n + 1)) |-> h(t)]
            BY <2>2
        <2>4. Iterates(g, base, s, n + 1)
            BY <2>3 DEF Iterates
        <2> QED BY <2>4
    <1> HIDE DEF S
    <1>3. \A n \in Nat : n \in S
        BY <1>1, <1>2, SetInduction
    <1> QED BY <1>3 DEF S

LEMMA FoldIsIteration ==
    ASSUME NEW base, NEW s, NEW n \in Nat, DOMAIN s = 1..n
    PROVE  Fold(base, s) = Iteration(base, s, n)[1..n]
    BY DEF Fold, FoldLeft, MapThenFoldSet, Iteration, Iterates

(* On an interval it is the fold of a prefix, one element at a time.       *)
LEMMA IterationSteps ==
    ASSUME NEW base, NEW s, NEW n \in Nat, NEW k \in 0..n
    PROVE  Iteration(base, s, n)[1..k] =
              IF k = 0 THEN base ELSE Op(Iteration(base, s, n)[1..(k - 1)], s[k])
    <1> DEFINE f == Iteration(base, s, n)
    <1>1. Iterates(f, base, s, n)
        BY IterationExists DEF Iteration
    <1> HIDE DEF f
    <1>2. \A t \in SUBSET (1..n) :
             f[t] = IF t = {} THEN base ELSE LET x == Max(t) IN Op(f[t \ {x}], s[x])
        BY <1>1 DEF Iterates
    <1>3. 1..k \in SUBSET (1..n)
        OBVIOUS
    <1>4. CASE k = 0
        <2>1. 1..k = {}
            BY <1>4
        <2> QED BY <1>2, <1>3, <1>4, <2>1 DEF f
    <1>5. CASE k # 0
        <2>1. k \in Nat /\ k \in 1..k /\ 1..k \in SUBSET (1..k)
            BY <1>5
        <2>2. Max(1..k) = k
            BY <2>1, GreatestIsMax
        <2>3. (1..k) \ {k} = 1..(k - 1)
            OBVIOUS
        <2>4. 1..k # {}
            BY <2>1
        <2> QED BY <1>2, <1>3, <1>5, <2>2, <2>3, <2>4 DEF f
    <1> QED BY <1>4, <1>5

-----------------------------------------------------------------------------
(* The chain of the values after each element.                             *)
Chain(g, base, s, n) ==
    /\ g[0] = base
    /\ \A k \in 1..n : g[k] = Op(g[k - 1], s[k])

(* A fold is the last value of such a chain.                               *)
LEMMA FoldChain ==
    ASSUME NEW base, NEW s, NEW n \in Nat, DOMAIN s = 1..n
    PROVE  \E g : Chain(g, base, s, n) /\ g[n] = Fold(base, s)
    <1> DEFINE f == Iteration(base, s, n)
               g == [k \in 0..n |-> f[1..k]]
    <1>1. \A k \in 0..n : f[1..k] = IF k = 0 THEN base ELSE Op(f[1..(k - 1)], s[k])
        BY IterationSteps
    <1>2. Fold(base, s) = f[1..n]
        BY FoldIsIteration
    <1> HIDE DEF f
    <1>3. 0 \in 0..n /\ n \in 0..n
        OBVIOUS
    <1>4. g[0] = base
        BY <1>1, <1>3
    <1>5. g[n] = Fold(base, s)
        BY <1>2, <1>3
    <1>6. ASSUME NEW k \in 1..n PROVE g[k] = Op(g[k - 1], s[k])
        <2>1. k \in 0..n /\ k - 1 \in 0..n /\ k # 0
            OBVIOUS
        <2> QED BY <1>1, <2>1
    <1> HIDE DEF g
    <1> QED BY <1>4, <1>5, <1>6 DEF Chain

(* There is only one.                                                      *)
LEMMA ChainsAgree ==
    ASSUME NEW base, NEW s, NEW u, NEW n \in Nat, NEW g, NEW h,
           Chain(g, base, s, n), Chain(h, base, u, n),
           \A k \in 1..n : u[k] = s[k]
    PROVE  g[n] = h[n]
    <1> DEFINE S == {k \in Nat : k <= n => g[k] = h[k]}
    <1>1. 0 \in S
        BY DEF Chain
    <1>2. ASSUME NEW k \in Nat, k \in S PROVE k + 1 \in S
        <2>1. SUFFICES ASSUME k + 1 <= n PROVE g[k + 1] = h[k + 1]
            OBVIOUS
        <2>2. g[k] = h[k] /\ k + 1 \in 1..n /\ (k + 1) - 1 = k
            BY <1>2, <2>1
        <2>3. g[k + 1] = Op(g[k], s[k + 1]) /\ h[k + 1] = Op(h[k], u[k + 1])
            BY <2>2 DEF Chain
        <2> QED BY <2>2, <2>3
    <1> HIDE DEF S
    <1>3. n \in S
        BY <1>1, <1>2, SetInduction
    <1> QED BY <1>3 DEF S

(* u is s and then t.                                                      *)
Joins(u, s, t) ==
    \E n, m \in Nat :
        /\ DOMAIN s = 1..n /\ DOMAIN t = 1..m /\ DOMAIN u = 1..(n + m)
        /\ \A i \in 1..n : u[i] = s[i]
        /\ \A i \in 1..m : u[n + i] = t[i]

(* The fold of nothing is the base.                                        *)
LEMMA FoldEmpty ==
    ASSUME NEW base, NEW s, DOMAIN s = {}
    PROVE  Fold(base, s) = base
    <1>1. DOMAIN s = 1..0 /\ 0 \in Nat
        OBVIOUS
    <1>2. PICK g : Chain(g, base, s, 0) /\ g[0] = Fold(base, s)
        BY <1>1, FoldChain
    <1> QED BY <1>2 DEF Chain

(* The fold of one element is one step.                                    *)
LEMMA FoldOne ==
    ASSUME NEW base, NEW s, DOMAIN s = {1}
    PROVE  Fold(base, s) = Op(base, s[1])
    <1>1. DOMAIN s = 1..1 /\ 1 \in Nat /\ 1 \in 1..1 /\ 1 - 1 = 0
        OBVIOUS
    <1>2. PICK g : Chain(g, base, s, 1) /\ g[1] = Fold(base, s)
        BY <1>1, FoldChain
    <1>3. g[1] = Op(g[1 - 1], s[1])
        BY <1>1, <1>2 DEF Chain
    <1> QED BY <1>1, <1>2, <1>3 DEF Chain

(* The fold of two sequences in a row goes on with the first one's value.  *)
LEMMA FoldJoined ==
    ASSUME NEW base, NEW s, NEW t, NEW u, Joins(u, s, t)
    PROVE  Fold(base, u) = Fold(Fold(base, s), t)
    <1>0. PICK n \in Nat, m \in Nat :
             /\ DOMAIN s = 1..n /\ DOMAIN t = 1..m /\ DOMAIN u = 1..(n + m)
             /\ \A i \in 1..n : u[i] = s[i]
             /\ \A i \in 1..m : u[n + i] = t[i]
        BY DEF Joins
    <1>1. PICK g : Chain(g, base, s, n) /\ g[n] = Fold(base, s)
        BY <1>0, FoldChain
    <1>2. PICK h : Chain(h, Fold(base, s), t, m) /\ h[m] = Fold(Fold(base, s), t)
        BY <1>0, FoldChain
    <1>3. n + m \in Nat
        OBVIOUS
    <1>4. PICK e : Chain(e, base, u, n + m) /\ e[n + m] = Fold(base, u)
        BY <1>0, <1>3, FoldChain
    <1>5. g[n] = e[n]
        <2>1. Chain(e, base, u, n)
            BY <1>0, <1>4 DEF Chain
        <2> QED BY <1>0, <1>1, <2>1, ChainsAgree
    <1> DEFINE d == [k \in 0..m |-> e[n + k]]
    <1>6. d[0] = Fold(base, s) /\ d[m] = Fold(base, u)
        <2>1. 0 \in 0..m /\ m \in 0..m /\ n + 0 = n
            BY <1>0
        <2> QED BY <1>1, <1>4, <1>5, <2>1
    <1>7. ASSUME NEW k \in 1..m PROVE d[k] = Op(d[k - 1], t[k])
        <2>1. /\ k \in 0..m /\ k - 1 \in 0..m /\ n + k \in 1..(n + m)
              /\ n + (k - 1) = (n + k) - 1
            OBVIOUS
        <2>2. e[n + k] = Op(e[(n + k) - 1], u[n + k])
            BY <1>0, <1>4, <2>1 DEF Chain
        <2> QED BY <1>0, <2>1, <2>2
    <1> HIDE DEF d
    <1>8. Chain(d, Fold(base, s), t, m)
        BY <1>6, <1>7 DEF Chain
    <1>9. h[m] = d[m]
        BY <1>2, <1>8, ChainsAgree
    <1> QED BY <1>2, <1>6, <1>9

-----------------------------------------------------------------------------
(* q is r but for the fields in F.                                         *)
Kept(F, r, q) == DOMAIN q = DOMAIN r /\ \A f \in DOMAIN r \ F : q[f] = r[f]

(* No element of s changes a field outside F.                              *)
Keeps(F, s) == \A k \in DOMAIN s : \A r : Kept(F, r, Op(r, s[k]))

(* Fields that no element changes are as they were after the whole fold.   *)
LEMMA FoldKept ==
    ASSUME NEW F, NEW base, NEW s, NEW n \in Nat, DOMAIN s = 1..n, Keeps(F, s)
    PROVE  Kept(F, base, Fold(base, s))
    <1>1. PICK g : Chain(g, base, s, n) /\ g[n] = Fold(base, s)
        BY FoldChain
    <1> DEFINE S == {k \in Nat : k <= n => Kept(F, base, g[k])}
    <1>2. 0 \in S
        BY <1>1 DEF Chain, Kept
    <1>3. ASSUME NEW k \in Nat, k \in S PROVE k + 1 \in S
        <2>1. SUFFICES ASSUME k + 1 <= n PROVE Kept(F, base, g[k + 1])
            OBVIOUS
        <2>2. Kept(F, base, g[k]) /\ k + 1 \in 1..n /\ (k + 1) - 1 = k
            BY <1>3, <2>1
        <2>3. g[k + 1] = Op(g[k], s[k + 1])
            BY <1>1, <2>2 DEF Chain
        <2>4. Kept(F, g[k], g[k + 1])
            BY <2>2, <2>3 DEF Keeps
        <2> QED BY <2>2, <2>4 DEF Kept
    <1> HIDE DEF S
    <1>4. n \in S
        BY <1>2, <1>3, SetInduction
    <1> QED BY <1>1, <1>4 DEF S
=============================================================================
