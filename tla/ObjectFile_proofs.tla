------------------------- MODULE ObjectFile_proofs -------------------------
(***************************************************************************)
(* Proofs about ObjectFile, for buffers of any size that the assumptions   *)
(* allow, any sections, symbols and programs: each relocation refers into  *)
(* the TEXT record before it, and no buffer is overrun but by a complex    *)
(* expression that accum holds and an RLD record does not.                 *)
(***************************************************************************)
EXTENDS ObjectFile, SequenceTheorems, TLAPS

Translating == INSTANCE FoldFacts WITH Op <- text_complex_fit

(* The furthest that rld_offset goes: the end of the buffer, or that of a  *)
(* record with the longest expression that accum holds.                    *)
Roof ==
    IF ComplexFits \/ AccumMax + 4 <= RldMax THEN RldMax ELSE AccumMax + 4

(* A sequence, of whatever.                                                *)
IsSeq(s) == \E S : s \in Seq(S)

Locating(e) == e.code \in {"LOCDEF", "LOCMOD"}

(* Buffers that can be written as a TEXT and an RLD record.                *)
Shape(t) ==
    /\ t.txt_addr \in Nat
    /\ IsSeq(t.text) /\ IsSeq(t.rld)
    /\ t.rld_offset \in Nat /\ t.rld_offset >= 2
    /\ \A i \in DOMAIN t.rld : t.rld[i].disp \in Nat /\ t.rld[i].size \in Nat
    /\ RefersInto(t.rld, t.text)

(* Between two stores there is no change of location among them.           *)
GoodBuffers(t) ==
    /\ Shape(t)
    /\ Len(t.text) + 4 <= TextMax
    /\ t.rld_offset <= Roof
    /\ \A i \in DOMAIN t.rld : ~Locating(t.rld[i])

FollowsText(f, k) ==
    \/ RefersInto(f[k].entries, <<>>)
    \/ /\ k > 1
       /\ f[k - 1].type = "TEXT"
       /\ RefersInto(f[k].entries, f[k - 1].bytes)

GoodFile(f) ==
    /\ IsSeq(f)
    /\ \A k \in DOMAIN f : f[k].type = "RLD" => FollowsText(f, k)

GoodOut(out) == GoodBuffers(out.tr) /\ GoodFile(out.file)

IInv ==
    /\ GoodBuffers(tr) /\ GoodFile(file)
    /\ palette \in Palettes
    /\ current \in ToSet(Sections)
    /\ pc \in [ToSet(Sections) -> Nat]
    /\ stores \in Nat

-----------------------------------------------------------------------------
LEMMA RoofHigh == Roof \in Nat /\ Roof >= RldMax /\ Roof >= 10 /\ RldMax \in Nat
    BY RldAssumption, AccumAssumption DEF Roof

LEMMA OneMore ==
    ASSUME NEW tx, tx.len \in 0..AccumMax, NEW op
    PROVE  text_complex_fit(tx, op).len \in 0..AccumMax
    <1>1. OpSize(op) \in {1, 3, 4, 5}
        BY DEF OpSize
    <1>2. CASE tx.len + OpSize(op) > AccumMax
        BY <1>2 DEF text_complex_fit
    <1>3. CASE ~(tx.len + OpSize(op) > AccumMax)
        <2>1. text_complex_fit(tx, op).len = tx.len + OpSize(op)
            BY <1>3 DEF text_complex_fit
        <2> QED BY <1>1, <1>3, <2>1, AccumAssumption
    <1> QED BY <1>2, <1>3

(* However long an expression, no more of it is kept than accum holds.     *)
LEMMA KeptLength ==
    ASSUME NEW expr \in ComplexExprs
    PROVE  Complex(expr).len \in 0..AccumMax
    <1> DEFINE n == Len(expr)
    <1>1. n \in Nat /\ DOMAIN expr = 1..n
        BY ExprsAssumption
    <1>2. Complex(expr) = Translating!Fold(text_complex_begin, expr)
        BY DEF Complex, FoldLeft, MapThenFoldSet, Max, Translating!Fold,
               Translating!FoldLeft, Translating!MapThenFoldSet, Translating!Max
    <1>3. PICK g : /\ Translating!Chain(g, text_complex_begin, expr, n)
                   /\ g[n] = Translating!Fold(text_complex_begin, expr)
        BY <1>1, Translating!FoldChain
    <1> HIDE DEF n
    <1> DEFINE S == {k \in Nat : k <= n => g[k].len \in 0..AccumMax}
    <1>4. 0 \in S
        <2>1. g[0] = text_complex_begin
            BY <1>3 DEF Translating!Chain
        <2>2. g[0].len = 0
            BY <2>1 DEF text_complex_begin
        <2> QED BY <2>2, AccumAssumption
    <1>5. ASSUME NEW k \in Nat, k \in S PROVE k + 1 \in S
        <2>1. SUFFICES ASSUME k + 1 <= n PROVE g[k + 1].len \in 0..AccumMax
            OBVIOUS
        <2>2. g[k].len \in 0..AccumMax /\ k + 1 \in 1..n /\ (k + 1) - 1 = k
            BY <1>1, <1>5, <2>1
        <2>3. g[k + 1] = text_complex_fit(g[k], expr[k + 1])
            BY <1>3, <2>2 DEF Translating!Chain
        <2> QED BY <2>2, <2>3, OneMore
    <1> HIDE DEF S
    <1>6. n \in S
        BY <1>1, <1>4, <1>5, Translating!SetInduction
    <1> QED BY <1>1, <1>2, <1>3, <1>6 DEF S

LEMMA StoreLength ==
    ASSUME NEW expr \in ComplexExprs, NEW store \in {"STORE", "STORE_DISP"}
    PROVE  LET tx == text_complex_fit(Complex(expr), [op |-> store])
           IN tx.len \in Nat /\ tx.len + 4 <= Roof
    <1> DEFINE tx == text_complex_fit(Complex(expr), [op |-> store])
    <1>1. tx.len \in 0..AccumMax
        BY KeptLength, OneMore
    <1>2. ComplexFits => tx.len + 4 <= RldMax
        BY DEF ComplexFits
    <1> HIDE DEF tx
    <1> QED BY <1>1, <1>2, RldAssumption, AccumAssumption DEF Roof, tx

-----------------------------------------------------------------------------
(* Sequences of whatever, put one after the other.                         *)
LEMMA Joined ==
    ASSUME NEW s, NEW t, IsSeq(s), IsSeq(t)
    PROVE  /\ IsSeq(s \o t)
           /\ Len(s) \in Nat /\ Len(t) \in Nat
           /\ DOMAIN s = 1..Len(s) /\ DOMAIN t = 1..Len(t)
           /\ Len(s \o t) = Len(s) + Len(t)
           /\ DOMAIN (s \o t) = 1..(Len(s) + Len(t))
           /\ \A i \in 1..Len(s) : (s \o t)[i] = s[i]
           /\ \A i \in 1..Len(t) : (s \o t)[Len(s) + i] = t[i]
    <1>1. PICK S : s \in Seq(S)
        BY DEF IsSeq
    <1>2. PICK T : t \in Seq(T)
        BY DEF IsSeq
    <1>3. s \in Seq(S \cup T) /\ t \in Seq(S \cup T)
        BY <1>1, <1>2
    <1>4. s \o t \in Seq(S \cup T)
        BY <1>3
    <1>5. /\ Len(s) \in Nat /\ Len(t) \in Nat
          /\ DOMAIN s = 1..Len(s) /\ DOMAIN t = 1..Len(t)
          /\ Len(s \o t) = Len(s) + Len(t)
        BY <1>3
    <1>6. \A i \in 1..(Len(s) + Len(t)) :
              (s \o t)[i] = IF i <= Len(s) THEN s[i] ELSE t[i - Len(s)]
        BY <1>3
    <1>7. \A i \in 1..Len(s) : (s \o t)[i] = s[i]
        BY <1>5, <1>6
    <1>8. \A i \in 1..Len(t) : (s \o t)[Len(s) + i] = t[i]
        BY <1>5, <1>6
    <1>9. DOMAIN (s \o t) = 1..(Len(s) + Len(t))
        BY <1>4, <1>5
    <1> QED
        BY <1>4, <1>5, <1>7, <1>8, <1>9 DEF IsSeq

LEMMA Short ==
    /\ IsSeq(<<>>) /\ Len(<<>>) = 0
    /\ \A a : IsSeq(<<a>>) /\ Len(<<a>>) = 1 /\ <<a>>[1] = a /\ DOMAIN <<a>> = {1}
    /\ \A a, b : /\ IsSeq(<<a, b>>) /\ Len(<<a, b>>) = 2
                 /\ <<a, b>>[1] = a /\ <<a, b>>[2] = b
    <1>1. <<>> \in Seq({})
        OBVIOUS
    <1>2. ASSUME NEW a PROVE <<a>> \in Seq({a})
        OBVIOUS
    <1>3. ASSUME NEW a, NEW b PROVE <<a, b>> \in Seq({a, b})
        OBVIOUS
    <1>4. \A a : IsSeq(<<a>>) /\ Len(<<a>>) = 1 /\ <<a>>[1] = a /\ DOMAIN <<a>> = {1}
        <2>1. \A a : Len(<<a>>) = 1 /\ <<a>>[1] = a /\ DOMAIN <<a>> = {1}
            OBVIOUS
        <2> QED
            BY <1>2, <2>1 DEF IsSeq
    <1>5. \A a, b : IsSeq(<<a, b>>)
        BY <1>3 DEF IsSeq
    <1>6. \A a, b : Len(<<a, b>>) = 2 /\ <<a, b>>[1] = a /\ <<a, b>>[2] = b
        OBVIOUS
    <1>7. IsSeq(<<>>) /\ Len(<<>>) = 0
        BY <1>1 DEF IsSeq
    <1> QED
        BY <1>4, <1>5, <1>6, <1>7

(* A record after a good file, one that is not an RLD record or one that    *)
(* refers into the record before it.                                       *)
LEMMA RecordAdded ==
    ASSUME NEW f, NEW r, GoodFile(f),
           r.type = "RLD" =>
              \/ RefersInto(r.entries, <<>>)
              \/ /\ Len(f) > 0 /\ f[Len(f)].type = "TEXT"
                 /\ RefersInto(r.entries, f[Len(f)].bytes)
    PROVE  GoodFile(f \o <<r>>)
    <1> DEFINE g == f \o <<r>>
    <1>1. IsSeq(f) /\ IsSeq(<<r>>) /\ Len(<<r>>) = 1 /\ <<r>>[1] = r
        BY Short DEF GoodFile
    <1>2. /\ IsSeq(g) /\ Len(f) \in Nat /\ DOMAIN f = 1..Len(f)
          /\ DOMAIN g = 1..(Len(f) + 1)
          /\ \A i \in 1..Len(f) : g[i] = f[i]
          /\ g[Len(f) + 1] = r
        BY <1>1, Joined
    <1> HIDE DEF g
    <1>3. ASSUME NEW k \in DOMAIN g, g[k].type = "RLD"
          PROVE  FollowsText(g, k)
        <2>1. CASE k \in 1..Len(f)
            <3>1. k - 1 \in 1..Len(f) \/ ~(k > 1)
                BY <1>2, <2>1
            <3>2. FollowsText(f, k) /\ g[k] = f[k]
                BY <1>2, <1>3, <2>1 DEF GoodFile
            <3> QED
                BY <1>2, <3>1, <3>2 DEF FollowsText
        <2>2. CASE k = Len(f) + 1
            <3>1. k - 1 = Len(f)
                BY <1>2, <2>2
            <3>2. Len(f) > 0 => k > 1 /\ g[k - 1] = f[Len(f)]
                BY <1>2, <2>2, <3>1
            <3> QED
                BY <1>2, <1>3, <2>2, <3>2 DEF FollowsText
        <2> QED
            BY <1>2, <1>3, <2>1, <2>2
    <1>4. GoodFile(g)
        BY <1>2, <1>3 DEF GoodFile
    <1> QED
        BY <1>4 DEF g

(* What a flush writes keeps the file good, and the buffers it leaves are  *)
(* empty ones at the given address.                                        *)
LEMMA FlushGood ==
    ASSUME NEW out, NEW addr \in Nat, Shape(out.tr), GoodFile(out.file)
    PROVE  /\ GoodOut(Flush(out, addr))
           /\ Flush(out, addr).tr = text_init(addr)
    <1> DEFINE t == out.tr
               f == out.file
               text == [type |-> "TEXT", addr |-> t.txt_addr, bytes |-> t.text]
               rld == [type |-> "RLD", entries |-> t.rld]
    <1>1. GoodBuffers(text_init(addr))
        BY Short, TextAssumption, RoofHigh
        DEF GoodBuffers, Shape, text_init, RefersInto
    <1>2. GoodFile(f \o text_flush(t))
        <2>1. IsSeq(f) /\ IsSeq(<<text>>) /\ IsSeq(<<rld>>) /\ IsSeq(<<>>)
            BY Short DEF GoodFile
        <2>2. CASE t.text = <<>> /\ t.rld = <<>>
            <3>1. text_flush(t) = <<>>
                BY <2>2 DEF text_flush
            <3>2. f \o <<>> = f
                BY <2>1 DEF IsSeq
            <3> QED
                BY <3>1, <3>2
        <2>3. CASE t.text # <<>> /\ t.rld = <<>>
            <3>1. text_flush(t) = <<text>>
                BY <2>3, <2>1 DEF text_flush
            <3> QED
                BY <3>1, RecordAdded
        <2>4. CASE t.text = <<>> /\ t.rld # <<>>
            <3>1. text_flush(t) = <<rld>>
                BY <2>4 DEF text_flush
            <3>2. RefersInto(rld.entries, <<>>)
                BY <2>4 DEF Shape
            <3> QED
                BY <3>1, <3>2, RecordAdded
        <2>5. CASE t.text # <<>> /\ t.rld # <<>>
            <3> DEFINE g == f \o <<text>>
            <3>1. text_flush(t) = <<text>> \o <<rld>>
                BY <2>5 DEF text_flush
            <3>2. f \o (<<text>> \o <<rld>>) = g \o <<rld>>
                <4>1. PICK S : f \in Seq(S)
                    BY <2>1 DEF IsSeq
                <4>2. /\ f \in Seq(S \cup {text, rld})
                      /\ <<text>> \in Seq(S \cup {text, rld})
                      /\ <<rld>> \in Seq(S \cup {text, rld})
                    BY <4>1
                <4> HIDE DEF text, rld
                <4> QED
                    BY <4>2, ConcatAssociative
            <3>3. GoodFile(g)
                BY RecordAdded
            <3>4. Len(g) > 0 /\ g[Len(g)] = text
                <4>1. /\ Len(f) \in Nat /\ Len(g) = Len(f) + 1
                      /\ g[Len(f) + 1] = text
                    BY <2>1, Short, Joined
                <4> QED
                    BY <4>1
            <3>5. RefersInto(rld.entries, text.bytes)
                BY DEF Shape
            <3>6. GoodFile(g \o <<rld>>)
                <4> HIDE DEF g
                <4> QED
                    BY <3>3, <3>4, <3>5, RecordAdded
            <3> QED
                BY <3>1, <3>2, <3>6
        <2> QED
            BY <2>2, <2>3, <2>4, <2>5
    <1> QED
        BY <1>1, <1>2 DEF Flush, GoodOut

(* text_fit makes the room it is asked for.                                *)
LEMMA FitGood ==
    ASSUME NEW out, GoodOut(out), NEW addr \in Nat, NEW txtsize \in {0, 1, 2, 4},
           NEW rldsize \in Nat, rldsize + 2 <= Roof
    PROVE  LET o == text_fit(out, addr, txtsize, rldsize)
           IN /\ GoodOut(o)
              /\ Len(o.tr.text) + 4 + txtsize <= TextMax
              /\ o.tr.rld_offset + rldsize <= Roof
              /\ txtsize # 0 => o.tr.txt_addr + Len(o.tr.text) = addr
    <1> DEFINE o == text_fit(out, addr, txtsize, rldsize)
               fits == /\ txt_offset(out.tr) + txtsize <= TextMax
                       /\ out.tr.rld_offset + rldsize <= RldMax
                       /\ txtsize = 0 \/ out.tr.txt_addr + Len(out.tr.text) = addr
               Room(x) == /\ GoodOut(x)
                          /\ Len(x.tr.text) + 4 + txtsize <= TextMax
                          /\ x.tr.rld_offset + rldsize <= Roof
                          /\ txtsize # 0 => x.tr.txt_addr + Len(x.tr.text) = addr
    <1>0. Len(out.tr.text) \in Nat
        BY Joined DEF GoodOut, GoodBuffers, Shape
    <1>1. ASSUME fits PROVE Room(o)
        <2>1. o = out
            BY <1>1 DEF text_fit
        <2> QED
            BY <1>0, <1>1, <2>1, RoofHigh DEF txt_offset, GoodOut, GoodBuffers, Shape
    <1>2. ASSUME ~fits PROVE Room(o)
        <2>1. o = Flush(out, addr)
            BY <1>2 DEF text_fit
        <2>2. GoodOut(o) /\ o.tr = text_init(addr)
            BY <2>1, FlushGood, SMTT(60) DEF GoodOut, GoodBuffers
        <2>3. Len(o.tr.text) = 0 /\ o.tr.txt_addr = addr /\ o.tr.rld_offset = 2
            BY <2>2, Short DEF text_init
        <2> HIDE DEF o
        <2> QED
            BY <2>2, <2>3, TextAssumption, RoofHigh
    <1> QED
        BY <1>1, <1>2

-----------------------------------------------------------------------------
(* Bytes and the entries that refer to them, put where there is room.      *)
LEMMA IntoGood ==
    ASSUME NEW out, GoodOut(out), NEW bytes, IsSeq(bytes), NEW entries, IsSeq(entries),
           NEW n \in Nat,
           Len(out.tr.text) + 4 + Len(bytes) <= TextMax,
           out.tr.rld_offset + n <= Roof,
           \A i \in DOMAIN entries :
              /\ ~Locating(entries[i])
              /\ entries[i].disp \in Nat /\ entries[i].size \in Nat
              /\ entries[i].disp >= 4
              /\ entries[i].disp + entries[i].size <= Len(out.tr.text) + Len(bytes) + 4
    PROVE  GoodOut(Into(out, bytes, entries, n))
    <1> DEFINE t == out.tr
               text == t.text \o bytes
               rld == t.rld \o entries
               u == Into(out, bytes, entries, n).tr
    <1>1. /\ u.txt_addr = t.txt_addr /\ u.text = text /\ u.rld = rld
          /\ u.rld_offset = t.rld_offset + n
          /\ Into(out, bytes, entries, n).file = out.file
        BY DEF Into
    <1>2. GoodBuffers(t) /\ GoodFile(out.file)
        BY DEF GoodOut
    <1>3. /\ IsSeq(t.text) /\ IsSeq(t.rld) /\ t.rld_offset \in Nat /\ t.rld_offset >= 2
          /\ t.txt_addr \in Nat
        BY <1>2 DEF GoodBuffers, Shape
    <1>4. /\ IsSeq(text) /\ Len(text) = Len(t.text) + Len(bytes)
          /\ Len(t.text) \in Nat /\ Len(bytes) \in Nat
        BY <1>3, Joined
    <1>5. /\ IsSeq(rld) /\ DOMAIN rld = 1..(Len(t.rld) + Len(entries))
          /\ Len(t.rld) \in Nat /\ Len(entries) \in Nat
          /\ DOMAIN t.rld = 1..Len(t.rld) /\ DOMAIN entries = 1..Len(entries)
          /\ \A i \in 1..Len(t.rld) : rld[i] = t.rld[i]
          /\ \A i \in 1..Len(entries) : rld[Len(t.rld) + i] = entries[i]
        BY <1>3, Joined, SMTT(60)
    <1> HIDE DEF u, text, rld
    <1>6. ASSUME NEW i \in 1..(Len(t.rld) + Len(entries))
          PROVE  /\ ~Locating(rld[i])
                 /\ rld[i].disp \in Nat /\ rld[i].size \in Nat
                 /\ rld[i].disp >= 4
                 /\ rld[i].disp + rld[i].size <= Len(text) + 4
        <2>1. CASE i \in 1..Len(t.rld)
            <3>1. rld[i] = t.rld[i] /\ i \in DOMAIN t.rld
                BY <1>5, <2>1
            <3>2. /\ ~Locating(t.rld[i])
                  /\ t.rld[i].disp \in Nat /\ t.rld[i].size \in Nat
                BY <1>2, <3>1 DEF GoodBuffers, Shape
            <3>3. /\ t.rld[i].disp >= 4
                  /\ t.rld[i].disp + t.rld[i].size <= Len(t.text) + 4
                BY <1>2, <3>1, <3>2 DEF GoodBuffers, Shape, RefersInto, Locating
            <3>4. t.rld[i].disp + t.rld[i].size <= Len(text) + 4
                <4>1. \A a, b, c, d \in Nat : a + b <= c + 4 => a + b <= c + d + 4
                    OBVIOUS
                <4> QED
                    BY <1>4, <3>2, <3>3, <4>1
            <3> QED
                BY <3>1, <3>2, <3>3, <3>4
        <2>2. CASE i \notin 1..Len(t.rld)
            <3>1. i - Len(t.rld) \in 1..Len(entries) /\ i = Len(t.rld) + (i - Len(t.rld))
                BY <1>5, <2>2
            <3>2. rld[i] = entries[i - Len(t.rld)] /\ i - Len(t.rld) \in DOMAIN entries
                BY <1>5, <3>1
            <3> QED
                BY <1>4, <3>2
        <2> QED
            BY <2>1, <2>2
    <1>7. RefersInto(rld, text)
        BY <1>5, <1>6 DEF RefersInto, Locating
    <1>8. GoodBuffers(u)
        <2>1. u.rld_offset \in Nat /\ u.rld_offset >= 2 /\ u.rld_offset <= Roof
            BY <1>1, <1>3
        <2>2. \A i \in DOMAIN rld : /\ ~Locating(rld[i])
                                    /\ rld[i].disp \in Nat /\ rld[i].size \in Nat
            BY <1>5, <1>6
        <2>3. Shape(u)
            BY <1>1, <1>3, <1>4, <1>5, <1>7, <2>1, <2>2 DEF Shape
        <2>4. Len(u.text) + 4 <= TextMax
            BY <1>1, <1>4
        <2>5. \A i \in DOMAIN u.rld : ~Locating(u.rld[i])
            BY <1>1, <2>2
        <2> QED BY <2>1, <2>3, <2>4, <2>5 DEF GoodBuffers
    <1> QED
        BY <1>1, <1>2, <1>8 DEF GoodOut, u

(* The bytes of a word.                                                    *)
LEMMA WordBytes ==
    ASSUME NEW w, NEW size \in {1, 2}
    PROVE  IsSeq(text_word_i(w, size)) /\ Len(text_word_i(w, size)) = size
    <1>1. CASE size = 1
        BY <1>1, Short DEF text_word_i
    <1>2. CASE size = 2
        BY <1>2, Short DEF text_word_i
    <1> QED
        BY <1>1, <1>2

LEMMA TextWordGood ==
    ASSUME NEW out, GoodOut(out), NEW addr \in Nat, NEW size \in {1, 2}, NEW word
    PROVE  GoodOut(text_word(out, addr, size, word))
    <1> DEFINE o == text_fit(out, addr, size, 0)
    <1>1. /\ GoodOut(o) /\ Len(o.tr.text) + 4 + size <= TextMax
          /\ o.tr.rld_offset + 0 <= Roof
        <2>1. size \in {0, 1, 2, 4} /\ 0 \in Nat /\ 0 + 2 <= Roof
            BY RoofHigh
        <2> QED
            BY <2>1, FitGood
    <1>2. IsSeq(text_word_i(word, size)) /\ Len(text_word_i(word, size)) = size
        BY WordBytes
    <1>3. IsSeq(<<>>) /\ DOMAIN <<>> = {}
        BY Short
    <1> HIDE DEF o
    <1>4. GoodOut(Into(o, text_word_i(word, size), <<>>, 0))
        BY <1>1, <1>2, <1>3, IntoGood
    <1> QED
        BY <1>4 DEF text_word, o

(* Room for len bytes and n of relocation: the entry's code is right.      *)
LEMMA EntryRoom ==
    ASSUME NEW out, GoodOut(out), NEW addr \in Nat, NEW len \in {1, 2, 4},
           NEW n \in Nat, n + 2 <= Roof
    PROVE  LET o == text_fit(out, addr, len, n)
           IN /\ GoodOut(o)
              /\ Len(o.tr.text) + 4 + len <= TextMax
              /\ o.tr.rld_offset + n <= Roof
              /\ rld_code(o, addr) = Len(o.tr.text) + 4
    <1> DEFINE o == text_fit(out, addr, len, n)
    <1>1. /\ GoodOut(o) /\ Len(o.tr.text) + 4 + len <= TextMax
          /\ o.tr.rld_offset + n <= Roof
          /\ o.tr.txt_addr + Len(o.tr.text) = addr
        <2>1. len \in {0, 1, 2, 4} /\ len # 0
            OBVIOUS
        <2>2. /\ GoodOut(o) /\ Len(o.tr.text) + 4 + len <= TextMax
              /\ o.tr.rld_offset + n <= Roof
              /\ len # 0 => o.tr.txt_addr + Len(o.tr.text) = addr
            BY <2>1, FitGood, ZenonT(60)
        <2> QED
            BY <2>1, <2>2
    <1>2. rld_code(o, addr) = Len(o.tr.text) + 4
        <2> HIDE DEF o
        <2>1. Len(o.tr.text) \in Nat /\ o.tr.txt_addr \in Nat
            BY <1>1, Joined DEF GoodOut, GoodBuffers, Shape
        <2>2. rld_code(o, addr) = addr - o.tr.txt_addr + 4
            BY DEF rld_code
        <2> QED
            BY <1>1, <2>1, <2>2, SMTT(60)
    <1> QED
        BY <1>1, <1>2

(* One entry for the bytes just put, of a code that is not a location's.   *)
LEMMA OneEntryGood ==
    ASSUME NEW o, GoodOut(o), NEW bytes, IsSeq(bytes), NEW n \in Nat, NEW e,
           Len(o.tr.text) + 4 + Len(bytes) <= TextMax,
           o.tr.rld_offset + n <= Roof,
           Len(bytes) \in {1, 2, 4}, e.size \in {1, 2}, e.size <= Len(bytes),
           ~Locating(e), e.disp = Len(o.tr.text) + 4
    PROVE  GoodOut(Into(o, bytes, <<e>>, n))
    <1>1. Len(o.tr.text) \in Nat
        BY Joined DEF GoodOut, GoodBuffers, Shape
    <1>2. IsSeq(<<e>>) /\ DOMAIN <<e>> = {1} /\ <<e>>[1] = e
        BY Short
    <1>3. /\ e.disp \in Nat /\ e.disp >= 4 /\ e.size \in Nat
          /\ e.disp + e.size <= Len(o.tr.text) + Len(bytes) + 4
        BY <1>1, SMTT(60)
    <1>4. \A i \in DOMAIN <<e>> :
              /\ ~Locating(<<e>>[i])
              /\ <<e>>[i].disp \in Nat /\ <<e>>[i].size \in Nat
              /\ <<e>>[i].disp >= 4
              /\ <<e>>[i].disp + <<e>>[i].size <= Len(o.tr.text) + Len(bytes) + 4
        BY <1>2, <1>3
    <1> QED
        BY <1>2, <1>4, IntoGood

LEMMA RelocatedGood ==
    ASSUME NEW out, GoodOut(out), NEW addr \in Nat, NEW size \in {1, 2}, NEW word,
           NEW code \in DOMAIN RldSize \ {"LOCDEF", "LOCMOD"}, NEW name
    PROVE  GoodOut(Relocated(out, addr, size, word, code, name))
    <1> DEFINE o == text_fit(out, addr, size, RldSize[code])
               e == Entry(code, rld_code(o, addr), size, name, word)
               bytes == text_word_i(word, size)
    <1>1. RldSize[code] \in Nat /\ RldSize[code] + 2 <= Roof
        BY RoofHigh DEF RldSize
    <1>2. IsSeq(bytes) /\ Len(bytes) = size
        BY WordBytes
    <1>3. ~Locating(e) /\ e.disp = rld_code(o, addr) /\ e.size = size
        BY DEF Entry, Locating
    <1>4. GoodOut(Into(o, bytes, <<e>>, RldSize[code]))
        <2>1. /\ GoodOut(o) /\ Len(o.tr.text) + 4 + size <= TextMax
              /\ o.tr.rld_offset + RldSize[code] <= Roof
              /\ e.disp = Len(o.tr.text) + 4
            <3>1. size \in {1, 2, 4}
                OBVIOUS
            <3>2. /\ GoodOut(o) /\ Len(o.tr.text) + 4 + size <= TextMax
                  /\ o.tr.rld_offset + RldSize[code] <= Roof
                  /\ rld_code(o, addr) = Len(o.tr.text) + 4
                BY <1>1, <3>1, EntryRoom, Zenon
            <3> HIDE DEF o, e
            <3> QED
                BY <1>3, <3>2
        <2> HIDE DEF e, bytes, o
        <2>2. /\ Len(o.tr.text) + 4 + Len(bytes) <= TextMax
              /\ Len(bytes) \in {1, 2, 4} /\ e.size \in {1, 2} /\ e.size <= Len(bytes)
            BY <1>2, <1>3, <2>1
        <2> QED
            BY <1>1, <1>2, <1>3, <2>1, <2>2, OneEntryGood, Zenon
    <1> QED
        BY <1>4 DEF Relocated

LEMMA LimitsGood ==
    ASSUME NEW out, GoodOut(out), NEW addr \in Nat
    PROVE  GoodOut(text_limits(out, addr))
    <1> DEFINE o == text_fit(out, addr, 4, RldSize["LIMITS"])
               e == Entry("LIMITS", rld_code(o, addr), 2, NoSection, 0)
               bytes == text_word_i(0, 2) \o text_word_i(0, 2)
    <1>1. 2 \in Nat /\ RldSize["LIMITS"] = 2 /\ 2 + 2 <= Roof
        BY RoofHigh DEF RldSize
    <1>2. IsSeq(bytes) /\ Len(bytes) = 4
        <2>1. IsSeq(text_word_i(0, 2)) /\ Len(text_word_i(0, 2)) = 2
            BY WordBytes
        <2> QED
            BY <2>1, Joined, SMTT(60)
    <1>3. ~Locating(e) /\ e.disp = rld_code(o, addr) /\ e.size = 2
        BY DEF Entry, Locating
    <1>4. GoodOut(Into(o, bytes, <<e>>, RldSize["LIMITS"]))
        <2>1. /\ GoodOut(o) /\ Len(o.tr.text) + 4 + 4 <= TextMax
              /\ o.tr.rld_offset + RldSize["LIMITS"] <= Roof
              /\ e.disp = Len(o.tr.text) + 4
            BY <1>1, <1>3, EntryRoom, ZenonT(60)
        <2> HIDE DEF e, bytes, o
        <2>2. /\ Len(o.tr.text) + 4 + Len(bytes) <= TextMax
              /\ Len(bytes) \in {1, 2, 4} /\ e.size \in {1, 2} /\ e.size <= Len(bytes)
              /\ RldSize["LIMITS"] \in Nat
            BY <1>1, <1>2, <1>3, <2>1
        <2> QED
            BY <1>2, <1>3, <2>1, <2>2, OneEntryGood, Zenon
    <1> QED
        BY <1>4 DEF text_limits

LEMMA ComplexGood ==
    ASSUME NEW out, GoodOut(out), NEW addr \in Nat, NEW size \in {1, 2},
           NEW expr \in ComplexExprs, NEW store \in {"STORE", "STORE_DISP"}
    PROVE  GoodOut(text_complex_commit(out, addr, size, expr, store))
    <1> DEFINE tx == text_complex_fit(Complex(expr), [op |-> store])
               o == text_fit(out, addr, size, tx.len + 2)
               e == [Entry("COMPLEX", rld_code(o, addr), size, NoSection, 0)
                       EXCEPT !.expr = tx.ops]
               bytes == text_word_i(0, size)
    <1>1. tx.len + 2 \in Nat /\ (tx.len + 2) + 2 <= Roof
        <2>1. tx.len \in Nat /\ tx.len + 4 <= Roof
            BY StoreLength
        <2> HIDE DEF tx
        <2> QED
            BY <2>1, RoofHigh
    <1>2. IsSeq(bytes) /\ Len(bytes) = size
        BY WordBytes
    <1>3. ~Locating(e) /\ e.disp = rld_code(o, addr) /\ e.size = size
        <2> HIDE DEF tx, o
        <2> QED
            BY DEF Entry, Locating
    <1>4. GoodOut(Into(o, bytes, <<e>>, tx.len + 2))
        <2>1. /\ GoodOut(o) /\ Len(o.tr.text) + 4 + size <= TextMax
              /\ o.tr.rld_offset + (tx.len + 2) <= Roof
              /\ e.disp = Len(o.tr.text) + 4
            <3> HIDE DEF tx
            <3> QED
                BY <1>1, <1>3, EntryRoom, SMTT(60)
        <2> HIDE DEF e, bytes, o, tx
        <2>2. /\ Len(o.tr.text) + 4 + Len(bytes) <= TextMax
              /\ Len(bytes) \in {1, 2, 4} /\ e.size \in {1, 2} /\ e.size <= Len(bytes)
            BY <1>2, <1>3, <2>1
        <2> QED
            BY <1>1, <1>2, <1>3, <2>1, <2>2, OneEntryGood, Zenon
    <1> QED
        BY <1>4 DEF text_complex_commit

(* A change of location goes out at once, the last entry of its record.    *)
LEMMA LocationGood ==
    ASSUME NEW out, GoodOut(out), NEW addr \in Nat, NEW name,
           NEW code \in {"LOCDEF", "LOCMOD"}, NEW word
    PROVE  LET o == text_fit(out, addr, 0, RldSize[code])
           IN GoodOut(Flush(Into(o, <<>>, <<Entry(code, 0, 2, name, word)>>, RldSize[code]),
                            addr))
    <1> DEFINE o == text_fit(out, addr, 0, RldSize[code])
               n == RldSize[code]
               e == Entry(code, 0, 2, name, word)
               p == Into(o, <<>>, <<e>>, n)
               rld == o.tr.rld \o <<e>>
    <1>1. GoodOut(o)
        <2>1. RldSize[code] \in Nat /\ RldSize[code] + 2 <= Roof /\ 0 \in {0, 1, 2, 4}
            BY RoofHigh DEF RldSize
        <2> QED
            BY <2>1, FitGood
    <1>2. n \in Nat
        BY DEF RldSize
    <1>3. Locating(e) /\ e.disp \in Nat /\ e.size \in Nat
        BY DEF Entry, Locating
    <1> HIDE DEF o, e, n
    <1>4. /\ Shape(o.tr) /\ IsSeq(o.tr.text) /\ IsSeq(o.tr.rld)
          /\ \A i \in DOMAIN o.tr.rld : ~Locating(o.tr.rld[i])
          /\ GoodFile(o.file)
        BY <1>1 DEF GoodOut, GoodBuffers, Shape
    <1>5. o.tr.text \o <<>> = o.tr.text
        BY <1>4 DEF IsSeq
    <1>6. /\ p.tr.txt_addr = o.tr.txt_addr /\ p.tr.text = o.tr.text /\ p.tr.rld = rld
          /\ p.tr.rld_offset = o.tr.rld_offset + n /\ p.file = o.file
        BY <1>5 DEF Into
    <1>7. /\ IsSeq(rld) /\ Len(rld) = Len(o.tr.rld) + 1 /\ Len(o.tr.rld) \in Nat
          /\ DOMAIN rld = 1..(Len(o.tr.rld) + 1) /\ DOMAIN o.tr.rld = 1..Len(o.tr.rld)
          /\ \A i \in 1..Len(o.tr.rld) : rld[i] = o.tr.rld[i]
          /\ rld[Len(o.tr.rld) + 1] = e
        BY <1>4, Short, Joined
    <1> HIDE DEF p, rld
    <1>8. ASSUME NEW i \in 1..(Len(o.tr.rld) + 1)
          PROVE  /\ rld[i].disp \in Nat /\ rld[i].size \in Nat
                 /\ IF Locating(rld[i]) THEN i = Len(rld)
                    ELSE /\ rld[i].disp >= 4
                         /\ rld[i].disp + rld[i].size <= Len(o.tr.text) + 4
        <2>1. CASE i = Len(o.tr.rld) + 1
            BY <1>3, <1>7, <2>1
        <2>2. CASE i # Len(o.tr.rld) + 1
            <3>1. i \in 1..Len(o.tr.rld)
                BY <1>7, <2>2
            <3>2. rld[i] = o.tr.rld[i] /\ i \in DOMAIN o.tr.rld
                BY <1>7, <3>1
            <3>3. ~Locating(o.tr.rld[i])
                BY <1>4, <3>2
            <3>4. /\ o.tr.rld[i].disp \in Nat /\ o.tr.rld[i].size \in Nat
                  /\ o.tr.rld[i].disp >= 4
                  /\ o.tr.rld[i].disp + o.tr.rld[i].size <= Len(o.tr.text) + 4
                BY <1>4, <3>2, <3>3 DEF Shape, RefersInto, Locating
            <3> QED
                BY <3>2, <3>3, <3>4
        <2> QED
            BY <2>1, <2>2
    <1>9. RefersInto(rld, o.tr.text)
        BY <1>7, <1>8 DEF RefersInto, Locating
    <1>10. Shape(p.tr)
        BY <1>2, <1>4, <1>6, <1>7, <1>8, <1>9, SMTT(60) DEF Shape
    <1>11. GoodOut(Flush(p, addr))
        BY <1>4, <1>6, <1>10, FlushGood
    <1> QED
        BY <1>11 DEF p, o, e, n

LEMMA ChangeDotGood ==
    ASSUME NEW out, GoodOut(out), DOT \in Nat
    PROVE  GoodOut(change_dot(out))
    <1>1. CASE last_dot_section # current
        <2>1. GoodOut(text_define_location(out, current, DOT))
            BY LocationGood DEF text_define_location
        <2> QED
            BY <1>1, <2>1 DEF change_dot
    <1>2. CASE last_dot_section = current /\ last_dot_addr # DOT
        <2>1. GoodOut(text_modify_location(out, DOT))
            BY LocationGood DEF text_modify_location
        <2> QED
            BY <1>2, <2>1 DEF change_dot
    <1>3. CASE last_dot_section = current /\ last_dot_addr = DOT
        BY <1>3 DEF change_dot
    <1> QED
        BY <1>1, <1>2, <1>3

(* The word of an expression that is none: the location is told again.     *)
LEMMA InvalidGood ==
    ASSUME NEW out, GoodOut(out), NEW addr \in Nat, NEW size \in {1, 2}
    PROVE  GoodOut(text_word(text_modify_location(out, addr), addr, size, 0))
    <1> DEFINE p == text_modify_location(out, addr)
    <1>1. GoodOut(p)
        BY LocationGood DEF text_modify_location
    <1> HIDE DEF p
    <1>2. GoodOut(text_word(p, addr, size, 0))
        BY <1>1, TextWordGood
    <1> QED BY <1>2 DEF p

LEMMA StoredGood ==
    ASSUME NEW out, GoodOut(out), DOT \in Nat, NEW kind \in Kinds,
           NEW size \in Sizes(kind), NEW word, NEW name, NEW expr \in ExprsOf(kind)
    PROVE  GoodOut(Stored(out, kind, size, word, name, expr))
    <1>1. CASE kind = "limits"
        <2>1. GoodOut(text_limits(out, DOT))
            BY LimitsGood
        <2> QED
            BY <1>1, <2>1 DEF Stored
    <1>2. CASE kind # "limits"
        <2>1. size \in {1, 2}
            BY <1>2 DEF Sizes, Kinds
        <2>2. CASE kind \in {"word", "byte"}
            <3>1. GoodOut(text_word(out, DOT, size, word))
                BY <2>1, TextWordGood
            <3> QED
                BY <2>2, <3>1 DEF Stored
        <2>3. CASE kind \in {"internal", "displaced", "global", "global_displaced", "psect",
                             "psect_displaced"}
            <3>1. ASSUME NEW code \in DOMAIN RldSize \ {"LOCDEF", "LOCMOD"}
                  PROVE  GoodOut(Relocated(out, DOT, size, word, code, name))
                BY <2>1, RelocatedGood
            <3>2. {"INT", "INT_DISP", "GLOBAL", "GLOBAL_DISP", "GLOBAL_OFFSET",
                   "GLOBAL_OFFSET_DISP", "PSECT", "PSECT_DISP", "PSECT_OFFSET",
                   "PSECT_OFFSET_DISP"} \subseteq DOMAIN RldSize \ {"LOCDEF", "LOCMOD"}
                BY DEF RldSize
            <3>3. /\ GoodOut(text_internal_word(out, DOT, size, word, name))
                  /\ GoodOut(text_displaced_word(out, DOT, size, word, name))
                  /\ GoodOut(text_global_offset_word(out, DOT, size, word, name))
                  /\ GoodOut(text_global_displaced_offset_word(out, DOT, size, word, name))
                  /\ GoodOut(text_psect_offset_word(out, DOT, size, word, name))
                  /\ GoodOut(text_psect_displaced_offset_word(out, DOT, size, word, name))
                BY <3>1, <3>2
                DEF text_internal_word, text_displaced_word, text_global_word,
                    text_global_displaced_word, text_global_offset_word,
                    text_global_displaced_offset_word, text_psect_word,
                    text_psect_displaced_word, text_psect_offset_word,
                    text_psect_displaced_offset_word
            <3> QED
                BY <2>3, <3>3 DEF Stored
        <2>4. CASE kind \in {"complex", "complex_displaced"}
            <3>1. expr \in ComplexExprs
                BY <2>4 DEF ExprsOf
            <3>2. /\ GoodOut(text_complex_commit(out, DOT, size, expr, "STORE"))
                  /\ GoodOut(text_complex_commit(out, DOT, size, expr, "STORE_DISP"))
                BY <2>1, <3>1, ComplexGood
            <3> QED
                BY <2>4, <3>2 DEF Stored
        <2>5. CASE kind = "invalid"
            <3>1. GoodOut(text_word(text_modify_location(out, DOT), DOT, size, 0))
                BY <2>1, InvalidGood
            <3> QED
                BY <2>5, <3>1 DEF Stored
        <2> QED
            BY <1>2, <2>2, <2>3, <2>4, <2>5 DEF Kinds
    <1> QED
        BY <1>1, <1>2

-----------------------------------------------------------------------------
(* The writer starts with empty buffers and an empty file.                 *)
LEMMA InitGood == WriterInit /\ current \in ToSet(Sections) => IInv
    <1> SUFFICES ASSUME WriterInit, current \in ToSet(Sections) PROVE IInv
        OBVIOUS
    <1>1. GoodBuffers(text_init(0))
        BY Short, TextAssumption, RoofHigh
        DEF GoodBuffers, Shape, text_init, RefersInto
    <1>2. GoodFile(<<>>)
        BY Short DEF GoodFile
    <1> QED
        BY <1>1, <1>2 DEF WriterInit, IInv

LEMMA StepGood == IInv /\ [WriterStep]_writerVars => IInv'
    <1> SUFFICES ASSUME IInv, [WriterStep]_writerVars PROVE IInv'
        OBVIOUS
    <1> DEFINE out == [tr |-> tr, file |-> file]
    <1>1. /\ GoodOut(out) /\ DOT \in Nat /\ palette \in Palettes
          /\ current \in ToSet(Sections) /\ pc \in [ToSet(Sections) -> Nat]
          /\ stores \in Nat
        BY DEF IInv, GoodOut, DOT
    <1>2. ASSUME write_globals PROVE IInv'
        BY <1>2 DEF write_globals, IInv, GoodBuffers, Shape, GoodFile, FollowsText
    <1>3. ASSUME NEW kind \in palette.kinds, NEW size \in Sizes(kind),
                 NEW word \in WordsOf(kind), NEW name \in Names(kind),
                 NEW expr \in ExprsOf(kind),
                 Store(kind, size, word, name, expr)
          PROVE  IInv'
        <2>1. kind \in Kinds
            BY <1>1, PalettesAssumption
        <2>2. size \in Nat
            BY <2>1 DEF Sizes, Kinds
        <2> DEFINE new == Stored(change_dot(out), kind, size, word, name, expr)
        <2>3. GoodOut(new)
            BY <1>1, <2>1, ChangeDotGood, StoredGood
        <2>4. tr' = new.tr /\ file' = new.file
            BY <1>3 DEF Store
        <2>5. GoodBuffers(tr') /\ GoodFile(file')
            BY <2>3, <2>4 DEF GoodOut
        <2>6. /\ pc' = [pc EXCEPT ![current] = DOT + size]
              /\ stores' = stores + 1
              /\ UNCHANGED <<palette, current>>
            BY <1>3 DEF Store
        <2>7. pc' \in [ToSet(Sections) -> Nat] /\ stores' \in Nat
            BY <1>1, <2>2, <2>6
        <2> QED
            BY <1>1, <2>5, <2>6, <2>7
            DEF IInv, GoodBuffers, Shape, GoodFile, FollowsText
    <1>4. ASSUME NEW a \in Origins, SetDot(a) PROVE IInv'
        <2>1. pc' = [pc EXCEPT ![current] = a] /\ a \in Nat
            BY <1>4, OriginsAssumption DEF SetDot
        <2>2. pc' \in [ToSet(Sections) -> Nat]
            BY <1>1, <2>1
        <2>3. UNCHANGED <<tr, file, palette, current, stores>>
            BY <1>4 DEF SetDot
        <2> QED
            BY <2>2, <2>3 DEF IInv
    <1>5. ASSUME NEW s \in ToSet(Sections), go_section(s) PROVE IInv'
        BY <1>5 DEF go_section, IInv
    <1>6. ASSUME EndModule PROVE IInv'
        <2>1. file' = file \o text_flush(tr) \o <<[type |-> "ENDMOD"]>>
            <3>1. file' = Append(file \o text_flush(tr), [type |-> "ENDMOD"])
                BY <1>6 DEF EndModule
            <3>2. GoodFile(file \o text_flush(tr))
                <4>1. GoodOut(Flush(out, 0))
                    BY <1>1, FlushGood DEF GoodOut, GoodBuffers
                <4> QED
                    BY <4>1 DEF GoodOut, Flush
            <3>3. PICK S : file \o text_flush(tr) \in Seq(S)
                BY <3>2 DEF GoodFile, IsSeq
            <3> QED
                BY <3>1, <3>3
        <2>2. GoodFile(file \o text_flush(tr))
            <3>1. GoodOut(Flush(out, 0))
                BY <1>1, FlushGood DEF GoodOut, GoodBuffers
            <3> QED
                BY <3>1 DEF GoodOut, Flush
        <2>3. GoodFile(file')
            BY <2>1, <2>2, RecordAdded
        <2>4. UNCHANGED <<tr, palette, current, pc, stores>>
            BY <1>6 DEF EndModule
        <2> QED
            BY <2>3, <2>4 DEF IInv
    <1>7. ASSUME UNCHANGED writerVars PROVE IInv'
        BY <1>7 DEF writerVars, IInv
    <1> QED
        BY <1>2, <1>3, <1>4, <1>5, <1>6, <1>7 DEF WriterStep

LEMMA GoodMeans ==
    IInv => /\ txt_offset(tr) <= TextMax /\ tr.rld_offset <= Roof
            /\ RldFollowsText
    BY DEF IInv, GoodBuffers, Shape, GoodFile, FollowsText, RldFollowsText, txt_offset

-----------------------------------------------------------------------------
(* How far the RLD buffer goes, step by step; the rest of it is as above.  *)

Within(t) == t.rld_offset \in Nat /\ t.rld_offset <= RldMax

Alone(t) ==
    /\ t.rld_offset \in Nat /\ t.rld_offset <= AccumMax + 4
    /\ Len(t.rld) = 1
    /\ t.rld[1].code = "COMPLEX"

(* text_fit finds the room, or empties the buffers.                        *)
LEMMA FitOrEmpty ==
    ASSUME NEW out, Within(out.tr), NEW addr, NEW size, NEW n \in Nat
    PROVE  LET o == text_fit(out, addr, size, n)
           IN \/ Within(o.tr) /\ o.tr.rld_offset + n <= RldMax
              \/ o.tr.rld = <<>> /\ o.tr.rld_offset = 2
    <1> DEFINE o == text_fit(out, addr, size, n)
    <1>1. CASE o = out /\ out.tr.rld_offset + n <= RldMax
        BY <1>1
    <1>2. CASE o = Flush(out, addr)
        <2>1. o.tr = text_init(addr)
            BY <1>2 DEF Flush
        <2> QED BY <2>1 DEF text_init
    <1> QED BY <1>1, <1>2 DEF text_fit

(* So what an empty buffer has room for overruns no buffer.                *)
LEMMA IntoWithin ==
    ASSUME NEW out, Within(out.tr), NEW addr, NEW size, NEW n \in Nat, n + 2 <= RldMax,
           NEW bytes, NEW entries
    PROVE  Within(Into(text_fit(out, addr, size, n), bytes, entries, n).tr)
    <1> DEFINE o == text_fit(out, addr, size, n)
    <1>1. o.tr.rld_offset \in Nat /\ o.tr.rld_offset + n <= RldMax
        BY FitOrEmpty, RldAssumption DEF Within
    <1>2. Into(o, bytes, entries, n).tr.rld_offset = o.tr.rld_offset + n
        BY DEF Into
    <1> HIDE DEF o
    <1> QED BY <1>1, <1>2 DEF Within, o

LEMMA EntriesShort ==
    \A code \in DOMAIN RldSize : RldSize[code] \in Nat /\ RldSize[code] + 2 <= RldMax
    BY RldAssumption DEF RldSize

LEMMA MoveWithin ==
    ASSUME NEW out, NEW addr
    PROVE  Within(text_modify_location(out, addr).tr)
    <1>1. text_modify_location(out, addr).tr = text_init(addr)
        BY DEF text_modify_location, Flush
    <1> QED BY <1>1, RldAssumption DEF text_init, Within

LEMMA ChangeWithin ==
    ASSUME NEW out, Within(out.tr)
    PROVE  Within(change_dot(out).tr)
    <1>1. Within(text_define_location(out, current, DOT).tr)
        <2>1. text_define_location(out, current, DOT).tr = text_init(DOT)
            BY DEF text_define_location, Flush
        <2> QED BY <2>1, RldAssumption DEF text_init, Within
    <1>2. Within(text_modify_location(out, DOT).tr)
        BY MoveWithin
    <1> QED BY <1>1, <1>2 DEF change_dot

LEMMA WordWithin ==
    ASSUME NEW out, Within(out.tr), NEW addr, NEW size, NEW word
    PROVE  Within(text_word(out, addr, size, word).tr)
    <1>1. 0 \in Nat /\ 0 + 2 <= RldMax
        BY RldAssumption
    <1> QED BY <1>1, IntoWithin DEF text_word

(* A complex expression is the one store an empty buffer may not hold.     *)
LEMMA ComplexAlone ==
    ASSUME NEW out, Within(out.tr), NEW addr, NEW size, NEW expr \in ComplexExprs,
           NEW store \in {"STORE", "STORE_DISP"}
    PROVE  LET t == text_complex_commit(out, addr, size, expr, store).tr
           IN Within(t) \/ Alone(t)
    <1> DEFINE tx == text_complex_fit(Complex(expr), [op |-> store])
               n == tx.len + 2
               o == text_fit(out, addr, size, n)
               e == [Entry("COMPLEX", rld_code(o, addr), size, NoSection, 0)
                       EXCEPT !.expr = tx.ops]
               t == text_complex_commit(out, addr, size, expr, store).tr
    <1>1. tx.len \in 0..AccumMax
        BY KeptLength, OneMore
    <1>2. n \in Nat /\ n <= AccumMax + 2
        <2> HIDE DEF tx
        <2> QED BY <1>1, AccumAssumption
    <1>3. e.code = "COMPLEX"
        <2> HIDE DEF tx, o
        <2> QED BY DEF Entry
    <1>4. t.rld_offset = o.tr.rld_offset + n /\ t.rld = o.tr.rld \o <<e>>
        <2>1. t = Into(o, text_word_i(0, size), <<e>>, n).tr
            BY DEF text_complex_commit
        <2> HIDE DEF t, e, o, n
        <2> QED BY <2>1 DEF Into
    <1> HIDE DEF n
    <1>5. \/ Within(o.tr) /\ o.tr.rld_offset + n <= RldMax
          \/ o.tr.rld = <<>> /\ o.tr.rld_offset = 2
        BY <1>2, FitOrEmpty
    <1> HIDE DEF tx, o, e, t
    <1>6. ASSUME Within(o.tr), o.tr.rld_offset + n <= RldMax
          PROVE  Within(t)
        BY <1>2, <1>4, <1>6, RldAssumption DEF Within
    <1>7. ASSUME o.tr.rld = <<>>, o.tr.rld_offset = 2
          PROVE  Alone(t)
        <2>1. t.rld = <<e>> /\ Len(t.rld) = 1 /\ t.rld[1] = e
            <3>1. <<>> \o <<e>> = <<e>>
                OBVIOUS
            <3>2. t.rld = <<e>>
                BY <1>4, <1>7, <3>1
            <3> QED BY <3>2
        <2>2. t.rld_offset \in Nat /\ t.rld_offset <= AccumMax + 4
            BY <1>2, <1>4, <1>7, AccumAssumption
        <2> QED BY <1>3, <2>1, <2>2 DEF Alone
    <1> QED BY <1>5, <1>6, <1>7 DEF t

LEMMA StoredWithin ==
    ASSUME NEW out, Within(out.tr), NEW kind \in Kinds, NEW size, NEW word, NEW name,
           NEW expr \in ExprsOf(kind)
    PROVE  LET t == Stored(out, kind, size, word, name, expr).tr
           IN Within(t) \/ Alone(t)
    <1>1. CASE kind \in {"word", "byte"}
        BY <1>1, WordWithin DEF Stored
    <1>2. CASE kind \in {"internal", "displaced", "global", "global_displaced", "psect",
                         "psect_displaced"}
        <2>1. ASSUME NEW code \in DOMAIN RldSize
              PROVE  Within(Relocated(out, DOT, size, word, code, name).tr)
            BY EntriesShort, IntoWithin DEF Relocated
        <2>2. {"INT", "INT_DISP", "GLOBAL", "GLOBAL_DISP", "GLOBAL_OFFSET",
               "GLOBAL_OFFSET_DISP", "PSECT", "PSECT_DISP", "PSECT_OFFSET",
               "PSECT_OFFSET_DISP"} \subseteq DOMAIN RldSize
            BY DEF RldSize
        <2>3. /\ Within(text_internal_word(out, DOT, size, word, name).tr)
              /\ Within(text_displaced_word(out, DOT, size, word, name).tr)
              /\ Within(text_global_offset_word(out, DOT, size, word, name).tr)
              /\ Within(text_global_displaced_offset_word(out, DOT, size, word, name).tr)
              /\ Within(text_psect_offset_word(out, DOT, size, word, name).tr)
              /\ Within(text_psect_displaced_offset_word(out, DOT, size, word, name).tr)
            BY <2>1, <2>2
            DEF text_internal_word, text_displaced_word, text_global_word,
                text_global_displaced_word, text_global_offset_word,
                text_global_displaced_offset_word, text_psect_word,
                text_psect_displaced_word, text_psect_offset_word,
                text_psect_displaced_offset_word
        <2> QED BY <1>2, <2>3 DEF Stored
    <1>3. CASE kind = "limits"
        <2>1. "LIMITS" \in DOMAIN RldSize
            BY DEF RldSize
        <2>2. Within(text_limits(out, DOT).tr)
            BY <2>1, EntriesShort, IntoWithin DEF text_limits
        <2> QED BY <1>3, <2>2 DEF Stored
    <1>4. CASE kind \in {"complex", "complex_displaced"}
        <2>1. expr \in ComplexExprs
            BY <1>4 DEF ExprsOf
        <2>2. ASSUME NEW store \in {"STORE", "STORE_DISP"}
              PROVE  LET t == text_complex_commit(out, DOT, size, expr, store).tr
                     IN Within(t) \/ Alone(t)
            BY <2>1, ComplexAlone
        <2> QED BY <1>4, <2>2 DEF Stored
    <1>5. CASE kind = "invalid"
        <2>1. Within(text_word(text_modify_location(out, DOT), DOT, size, 0).tr)
            BY MoveWithin, WordWithin
        <2> QED BY <1>5, <2>1 DEF Stored
    <1> QED BY <1>1, <1>2, <1>3, <1>4, <1>5 DEF Kinds

RoomInv == Within(tr) \/ Alone(tr)

LEMMA StepRoom ==
    ASSUME RoomInv, [WriterNext]_writerVars, palette \in Palettes
    PROVE  RoomInv'
    <1> DEFINE out == [tr |-> tr, file |-> file]
    <1>1. CASE UNCHANGED tr
        BY <1>1 DEF RoomInv, Within, Alone
    <1>2. ASSUME ~Overrun, NEW kind \in palette.kinds, NEW size \in Sizes(kind),
                 NEW word \in WordsOf(kind), NEW name \in Names(kind),
                 NEW expr \in ExprsOf(kind), Store(kind, size, word, name, expr)
          PROVE  RoomInv'
        <2>1. kind \in Kinds
            BY <1>2, PalettesAssumption
        <2>2. Within(out.tr)
            BY <1>2, RldAssumption DEF Overrun, RoomInv, Within, Alone
        <2> DEFINE new == Stored(change_dot(out), kind, size, word, name, expr)
        <2>3. Within(new.tr) \/ Alone(new.tr)
            BY <2>1, <2>2, ChangeWithin, StoredWithin
        <2>4. tr' = new.tr
            BY <1>2 DEF Store
        <2> HIDE DEF new
        <2> QED BY <2>3, <2>4 DEF RoomInv, Within, Alone
    <1> QED
        BY <1>1, <1>2
        DEF WriterNext, WriterStep, writerVars, write_globals, SetDot, go_section, EndModule

(* text_fit makes the room that is then used.  For any sizes of buffers    *)
(* and accumulator, no sequence of stores, jumps and section changes       *)
(* overruns a buffer, but for one expression alone in its record.          *)
THEOREM BuffersAlwaysFit == WriterSpec => []BuffersFit
    <1>1. WriterInit => IInv
        BY InitGood, SectionsAssumption DEF WriterInit
    <1>2. WriterInit => RoomInv
        BY RldAssumption DEF WriterInit, RoomInv, Within, text_init
    <1>3. IInv /\ RoomInv => BuffersFit
        BY GoodMeans DEF BuffersFit, RoomInv, Within, Alone
    <1>4. IInv /\ RoomInv /\ [WriterNext]_writerVars => IInv' /\ RoomInv'
        BY StepGood, StepRoom DEF WriterNext, IInv
    <1> QED
        BY <1>1, <1>2, <1>3, <1>4, PTL DEF WriterSpec

(* And if every expression, with its store, has room in an empty RLD       *)
(* buffer, there is no exception.                                          *)
NoOverrun == ~Overrun

THEOREM NothingOverruns ==
    ASSUME ComplexFits
    PROVE  WriterSpec => []NoOverrun
    <1>1. WriterInit => IInv
        BY InitGood, SectionsAssumption DEF WriterInit
    <1>2. Roof = RldMax
        BY DEF Roof
    <1>3. IInv => NoOverrun
        BY <1>2, GoodMeans, RldAssumption DEF NoOverrun, Overrun, IInv, GoodBuffers, Shape
    <1>4. IInv /\ [WriterNext]_writerVars => IInv'
        BY StepGood DEF WriterNext
    <1> QED
        BY <1>1, <1>3, <1>4, PTL DEF WriterSpec

(* And wherever the buffers happen to be flushed, each relocation entry is *)
(* in the record right after the text it modifies, at a byte of that text, *)
(* and a change of location ends its record.                               *)
THEOREM RldAlwaysFollowsText == WriterSpec => []RldFollowsText
    <1>1. WriterInit => IInv
        BY InitGood, SectionsAssumption DEF WriterInit
    <1>2. IInv => RldFollowsText
        BY GoodMeans
    <1>3. IInv /\ [WriterNext]_writerVars => IInv'
        BY StepGood DEF WriterNext
    <1> QED
        BY <1>1, <1>2, <1>3, PTL DEF WriterSpec
=============================================================================
