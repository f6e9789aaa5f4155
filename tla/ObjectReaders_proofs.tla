------------------------ MODULE ObjectReaders_proofs ------------------------
EXTENDS ObjectReaders, ObjectFile_proofs

Linking == INSTANCE FoldFacts WITH Op <- LinkRecord
Fixing  == INSTANCE FoldFacts WITH Op <- LinkEntry

NoLink == [section |-> NoSection, last |-> 0, image |-> <<>>, fixups |-> {}]

LEMMA LinkedIsFold == \A rs : LinkedFrom(rs) = Linking!Fold(NoLink, rs)
    BY DEF LinkedFrom, NoLink, FoldLeft, MapThenFoldSet, Max,
           Linking!Fold, Linking!FoldLeft, Linking!MapThenFoldSet, Linking!Max

(* What a TEXT record adds: its bytes, in the current section.             *)
Over(image, section, addr, bytes) ==
    LET here == {section} \X (addr..(addr + Len(bytes) - 1))
    IN [x \in DOMAIN image \cup here |->
           IF x \in here THEN bytes[x[2] - addr + 1] ELSE image[x]]

LEMMA LinkText ==
    \A l, rec : rec.type = "TEXT" =>
        LinkRecord(l, rec) = [l EXCEPT !.last = rec.addr,
                                       !.image = Over(l.image, l.section, rec.addr, rec.bytes)]
    BY DEF LinkRecord, Over

LEMMA LinkRld ==
    \A l, rec : rec.type = "RLD" => LinkRecord(l, rec) = Fixing!Fold(l, rec.entries)
    BY DEF LinkRecord, FoldLeft, MapThenFoldSet, Max,
           Fixing!Fold, Fixing!FoldLeft, Fixing!MapThenFoldSet, Fixing!Max

LEMMA LinkOther ==
    \A l, rec : rec.type \notin {"TEXT", "RLD"} => LinkRecord(l, rec) = l
    BY DEF LinkRecord
-----------------------------------------------------------------------------
(* The linker's state, whatever its fields.                                *)
IsLink(l) ==
    /\ l = [section |-> l.section, last |-> l.last, image |-> l.image, fixups |-> l.fixups]
    /\ l.image = [x \in DOMAIN l.image |-> l.image[x]]

(* Where an entry applies, and what it asks there.                         *)
Fix(section, last, e) ==
    <<section, last + e.disp - 4, Asked(e, IF e.code \in Additive THEN e.word ELSE 0)>>

LEMMA LinkSplit ==
    ASSUME NEW s, NEW a, NEW i, NEW f, i = [x \in DOMAIN i |-> i[x]]
    PROVE  IsLink([section |-> s, last |-> a, image |-> i, fixups |-> f])
    BY DEF IsLink

LEMMA TextLinked ==
    ASSUME NEW l, IsLink(l), NEW rec, rec.type = "TEXT"
    PROVE  LinkRecord(l, rec) =
              [section |-> l.section, last |-> rec.addr,
               image |-> Over(l.image, l.section, rec.addr, rec.bytes), fixups |-> l.fixups]
    <1>1. PICK i : i = Over(l.image, l.section, rec.addr, rec.bytes)
        OBVIOUS
    <1>2. LinkRecord(l, rec) = [l EXCEPT !.last = rec.addr, !.image = i]
        BY <1>1, LinkText
    <1>3. l = [section |-> l.section, last |-> l.last, image |-> l.image, fixups |-> l.fixups]
        BY DEF IsLink
    <1>4. PICK m : m = [l EXCEPT !.last = rec.addr]
        OBVIOUS
    <1>5. m = [section |-> l.section, last |-> rec.addr, image |-> l.image, fixups |-> l.fixups]
        BY <1>3, <1>4
    <1>6. LinkRecord(l, rec) = [m EXCEPT !.image = i]
        BY <1>2, <1>3, <1>4
    <1>7. [m EXCEPT !.image = i] =
              [section |-> l.section, last |-> rec.addr, image |-> i, fixups |-> l.fixups]
        BY <1>5
    <1> QED BY <1>1, <1>6, <1>7

LEMMA EntryLinked ==
    ASSUME NEW l, IsLink(l), NEW e
    PROVE  /\ ~Locating(e) => LinkEntry(l, e) =
                 [section |-> l.section, last |-> l.last, image |-> l.image,
                  fixups |-> l.fixups \cup {Fix(l.section, l.last, e)}]
           /\ e.code = "LOCDEF" => LinkEntry(l, e) =
                 [section |-> e.name, last |-> e.word, image |-> l.image, fixups |-> l.fixups]
           /\ e.code = "LOCMOD" => LinkEntry(l, e) =
                 [section |-> l.section, last |-> e.word, image |-> l.image,
                  fixups |-> l.fixups]
    <1>1. l = [section |-> l.section, last |-> l.last, image |-> l.image, fixups |-> l.fixups]
        BY DEF IsLink
    <1>2. CASE ~Locating(e)
        <2>1. PICK F : F = l.fixups \cup {Fix(l.section, l.last, e)}
            OBVIOUS
        <2>2. LinkEntry(l, e) = [l EXCEPT !.fixups = F]
            BY <1>2, <2>1 DEF LinkEntry, Fix, Locating
        <2>3. [l EXCEPT !.fixups = F] =
                 [section |-> l.section, last |-> l.last, image |-> l.image, fixups |-> F]
            BY <1>1
        <2> QED BY <1>2, <2>1, <2>2, <2>3 DEF Locating
    <1>3. CASE e.code = "LOCDEF"
        <2>1. LinkEntry(l, e) = [l EXCEPT !.section = e.name, !.last = e.word]
            BY <1>3 DEF LinkEntry
        <2> QED BY <1>1, <1>3, <2>1 DEF Locating
    <1>4. CASE e.code = "LOCMOD"
        <2>1. LinkEntry(l, e) = [l EXCEPT !.last = e.word]
            BY <1>4 DEF LinkEntry
        <2> QED BY <1>1, <1>4, <2>1 DEF Locating
    <1> QED BY <1>2, <1>3, <1>4 DEF Locating

(* A record of relocations asks for each of them, in any order.            *)
LEMMA RldLinked ==
    ASSUME NEW l, IsLink(l), NEW r, IsSeq(r), \A i \in DOMAIN r : ~Locating(r[i])
    PROVE  Fixing!Fold(l, r) =
              [section |-> l.section, last |-> l.last, image |-> l.image,
               fixups |-> l.fixups \cup {Fix(l.section, l.last, r[i]) : i \in DOMAIN r}]
    <1>1. Len(r) \in Nat /\ DOMAIN r = 1..Len(r)
        BY Joined
    <1>2. PICK g : Fixing!Chain(g, l, r, Len(r)) /\ g[Len(r)] = Fixing!Fold(l, r)
        BY <1>1, Fixing!FoldChain
    <1> DEFINE F(k) == l.fixups \cup {Fix(l.section, l.last, r[i]) : i \in 1..k}
               M(k) == [section |-> l.section, last |-> l.last, image |-> l.image,
                        fixups |-> F(k)]
               S == {k \in Nat : k <= Len(r) => g[k] = M(k)}
    <1>3. 0 \in S
        <2>1. F(0) = l.fixups
            OBVIOUS
        <2>2. g[0] = l
            BY <1>2 DEF Fixing!Chain
        <2> QED BY <2>1, <2>2 DEF IsLink
    <1>4. ASSUME NEW k \in Nat, k \in S PROVE k + 1 \in S
        <2>1. SUFFICES ASSUME k + 1 <= Len(r) PROVE g[k + 1] = M(k + 1)
            OBVIOUS
        <2>2. g[k] = M(k) /\ k + 1 \in 1..Len(r) /\ (k + 1) - 1 = k
            BY <1>1, <1>4, <2>1
        <2>3. g[k + 1] = LinkEntry(g[k], r[k + 1])
            BY <1>2, <2>2 DEF Fixing!Chain
        <2>4. IsLink(M(k)) /\ ~Locating(r[k + 1])
            <3>1. l.image = [x \in DOMAIN l.image |-> l.image[x]]
                BY DEF IsLink
            <3> QED BY <1>1, <2>2, <3>1, LinkSplit
        <2>5. F(k + 1) = F(k) \cup {Fix(l.section, l.last, r[k + 1])}
            <3>1. 1..(k + 1) = 1..k \cup {k + 1}
                OBVIOUS
            <3> QED BY <3>1
        <2> HIDE DEF F
        <2>6. PICK m : m = M(k)
            OBVIOUS
        <2>7. /\ m.section = l.section /\ m.last = l.last /\ m.image = l.image
              /\ m.fixups = F(k) /\ IsLink(m)
            BY <2>4, <2>6
        <2>8. LinkEntry(m, r[k + 1]) =
                 [section |-> m.section, last |-> m.last, image |-> m.image,
                  fixups |-> m.fixups \cup {Fix(m.section, m.last, r[k + 1])}]
            BY <2>4, <2>7, EntryLinked
        <2> QED BY <2>2, <2>3, <2>5, <2>6, <2>7, <2>8
    <1> HIDE DEF F, M, S
    <1>5. Len(r) \in S
        BY <1>1, <1>3, <1>4, Fixing!SetInduction
    <1>6. g[Len(r)] = M(Len(r))
        BY <1>1, <1>5 DEF S
    <1> QED BY <1>1, <1>2, <1>6 DEF F, M

LEMMA JoinedTwice ==
    ASSUME NEW s, IsSeq(s), NEW t, IsSeq(t), NEW u, IsSeq(u)
    PROVE  s \o (t \o u) = (s \o t) \o u
    <1>1. PICK S : s \in Seq(S)
        BY DEF IsSeq
    <1>2. PICK T : t \in Seq(T)
        BY DEF IsSeq
    <1>3. PICK U : u \in Seq(U)
        BY DEF IsSeq
    <1>4. s \in Seq(S \cup T \cup U) /\ t \in Seq(S \cup T \cup U) /\ u \in Seq(S \cup T \cup U)
        BY <1>1, <1>2, <1>3
    <1> QED BY <1>4, ConcatAssociative

(* One more record, and one more entry.                                    *)
LEMMA RecordLinked ==
    ASSUME NEW f, IsSeq(f), NEW rec
    PROVE  LinkedFrom(f \o <<rec>>) = LinkRecord(LinkedFrom(f), rec)
    <1>1. /\ IsSeq(<<rec>>) /\ Len(<<rec>>) = 1 /\ <<rec>>[1] = rec /\ DOMAIN <<rec>> = {1}
          /\ DOMAIN <<rec>> = 1..1 /\ 1 \in Nat
        BY Short
    <1>2. /\ Len(f) \in Nat /\ DOMAIN f = 1..Len(f) /\ DOMAIN (f \o <<rec>>) = 1..(Len(f) + 1)
          /\ \A i \in 1..Len(f) : (f \o <<rec>>)[i] = f[i]
          /\ \A i \in 1..1 : (f \o <<rec>>)[Len(f) + i] = <<rec>>[i]
        BY <1>1, Joined, SMTT(60)
    <1>5. Linking!Joins(f \o <<rec>>, f, <<rec>>)
        BY <1>1, <1>2 DEF Linking!Joins
    <1>3. Linking!Fold(NoLink, f \o <<rec>>) = Linking!Fold(Linking!Fold(NoLink, f), <<rec>>)
        BY <1>5, Linking!FoldJoined
    <1>4. Linking!Fold(Linking!Fold(NoLink, f), <<rec>>) =
              LinkRecord(Linking!Fold(NoLink, f), <<rec>>[1])
        BY <1>1, Linking!FoldOne
    <1> QED BY <1>1, <1>3, <1>4, LinkedIsFold

LEMMA LastEntryLinked ==
    ASSUME NEW l, NEW r, IsSeq(r), NEW e
    PROVE  Fixing!Fold(l, r \o <<e>>) = LinkEntry(Fixing!Fold(l, r), e)
    <1>1. /\ IsSeq(<<e>>) /\ Len(<<e>>) = 1 /\ <<e>>[1] = e /\ DOMAIN <<e>> = {1}
          /\ DOMAIN <<e>> = 1..1 /\ 1 \in Nat
        BY Short
    <1>2. /\ Len(r) \in Nat /\ DOMAIN r = 1..Len(r) /\ DOMAIN (r \o <<e>>) = 1..(Len(r) + 1)
          /\ \A i \in 1..Len(r) : (r \o <<e>>)[i] = r[i]
          /\ \A i \in 1..1 : (r \o <<e>>)[Len(r) + i] = <<e>>[i]
        BY <1>1, Joined, SMTT(60)
    <1>5. Fixing!Joins(r \o <<e>>, r, <<e>>)
        BY <1>1, <1>2 DEF Fixing!Joins
    <1>3. Fixing!Fold(l, r \o <<e>>) = Fixing!Fold(Fixing!Fold(l, r), <<e>>)
        BY <1>5, Fixing!FoldJoined
    <1>4. Fixing!Fold(Fixing!Fold(l, r), <<e>>) = LinkEntry(Fixing!Fold(l, r), <<e>>[1])
        BY <1>1, Fixing!FoldOne
    <1> QED BY <1>1, <1>3, <1>4

-----------------------------------------------------------------------------
(* Bytes over an image: none change nothing, some and then some more are   *)
(* all of them.                                                            *)
LEMMA OverIsImage ==
    ASSUME NEW i, NEW s, NEW a, NEW b
    PROVE  Over(i, s, a, b) = [x \in DOMAIN Over(i, s, a, b) |-> Over(i, s, a, b)[x]]
    BY DEF Over

LEMMA OverNothing ==
    ASSUME NEW i, i = [x \in DOMAIN i |-> i[x]], NEW s, NEW a \in Nat
    PROVE  Over(i, s, a, <<>>) = i
    <1>1. a..(a + Len(<<>>) - 1) = {}
        BY Short
    <1> DEFINE here == {s} \X (a..(a + Len(<<>>) - 1))
    <1>2. here = {}
        BY <1>1
    <1> HIDE DEF here
    <1>3. Over(i, s, a, <<>>) =
              [x \in DOMAIN i \cup here |-> IF x \in here THEN <<>>[x[2] - a + 1] ELSE i[x]]
        BY DEF Over, here
    <1>4. [x \in DOMAIN i \cup here |-> IF x \in here THEN <<>>[x[2] - a + 1] ELSE i[x]] =
              [x \in DOMAIN i |-> i[x]]
        BY <1>2
    <1> QED BY <1>3, <1>4

LEMMA OverJoined ==
    ASSUME NEW i, NEW s, NEW a \in Nat, NEW b, IsSeq(b), NEW c, IsSeq(c)
    PROVE  Over(i, s, a, b \o c) = Over(Over(i, s, a, b), s, a + Len(b), c)
    <1>1. /\ Len(b) \in Nat /\ Len(c) \in Nat /\ Len(b \o c) = Len(b) + Len(c)
          /\ \A j \in 1..Len(b) : (b \o c)[j] = b[j]
          /\ \A j \in 1..Len(c) : (b \o c)[Len(b) + j] = c[j]
        BY Joined
    <1> DEFINE both == {s} \X (a..(a + Len(b \o c) - 1))
               low  == {s} \X (a..(a + Len(b) - 1))
               high == {s} \X ((a + Len(b))..((a + Len(b)) + Len(c) - 1))
               o == Over(i, s, a, b)
    <1>2. both = low \cup high
        <2>1. a..(a + Len(b \o c) - 1) =
                 (a..(a + Len(b) - 1)) \cup ((a + Len(b))..((a + Len(b)) + Len(c) - 1))
            BY <1>1
        <2> QED BY <2>1
    <1>3. ASSUME NEW x \in high
          PROVE  (b \o c)[x[2] - a + 1] = c[x[2] - (a + Len(b)) + 1]
        <2>1. x[2] \in (a + Len(b))..((a + Len(b)) + Len(c) - 1)
            OBVIOUS
        <2>2. PICK j \in 1..Len(c) : j = x[2] - (a + Len(b)) + 1
            BY <1>1, <2>1
        <2>3. x[2] - a + 1 = Len(b) + j
            BY <1>1, <2>1, <2>2
        <2> QED BY <1>1, <2>2, <2>3, SMTT(60)
    <1>4. ASSUME NEW x \in low
          PROVE  (b \o c)[x[2] - a + 1] = b[x[2] - a + 1] /\ x \notin high
        <2>1. x[2] \in a..(a + Len(b) - 1)
            OBVIOUS
        <2>2. PICK j \in 1..Len(b) : j = x[2] - a + 1
            BY <1>1, <2>1
        <2>3. x[2] \notin (a + Len(b))..((a + Len(b)) + Len(c) - 1)
            BY <1>1, <2>1
        <2> QED BY <1>1, <2>2, <2>3
    <1> HIDE DEF both, low, high
    <1>5. Over(i, s, a, b \o c) =
             [x \in DOMAIN i \cup both |-> IF x \in both THEN (b \o c)[x[2] - a + 1] ELSE i[x]]
        BY DEF Over, both
    <1>6. o = [x \in DOMAIN i \cup low |-> IF x \in low THEN b[x[2] - a + 1] ELSE i[x]]
        BY DEF Over, low
    <1>7. Over(o, s, a + Len(b), c) =
             [x \in DOMAIN o \cup high |->
                 IF x \in high THEN c[x[2] - (a + Len(b)) + 1] ELSE o[x]]
        BY DEF Over, high
    <1> HIDE DEF o
    <1>8. DOMAIN i \cup both = DOMAIN o \cup high
        BY <1>2, <1>6
    <1>9. ASSUME NEW x \in DOMAIN i \cup both
          PROVE  (IF x \in both THEN (b \o c)[x[2] - a + 1] ELSE i[x]) =
                 (IF x \in high THEN c[x[2] - (a + Len(b)) + 1] ELSE o[x])
        <2>1. CASE x \in high
            BY <1>2, <1>3, <2>1
        <2>2. CASE x \in low
            BY <1>2, <1>4, <1>6, <2>2
        <2>3. CASE x \notin both
            <3>1. x \in DOMAIN i /\ x \notin low /\ x \notin high
                BY <1>2, <2>3
            <3> QED BY <1>6, <2>3, <3>1
        <2> QED BY <1>2, <2>1, <2>2, <2>3
    <1>10. Over(i, s, a, b \o c) = Over(o, s, a + Len(b), c)
        BY <1>5, <1>7, <1>8, <1>9
    <1> QED BY <1>10 DEF o

-----------------------------------------------------------------------------
(* What the linker makes of a writer's file and buffers, as a function of  *)
(* the buffers: their bytes over the image, and each of their entries.     *)
Attached(t) == t.text = <<>> => t.rld = <<>>

WellOut(out) == GoodOut(out) /\ Attached(out.tr) /\ IsLink(LinkedFrom(out.file))

Sec(out) == LinkedFrom(out.file).section
Img(out) == Over(LinkedFrom(out.file).image, Sec(out), out.tr.txt_addr, out.tr.text)
Fxs(out) == LinkedFrom(out.file).fixups \cup
               {Fix(Sec(out), out.tr.txt_addr, out.tr.rld[i]) : i \in DOMAIN out.tr.rld}

Sees(l, out) ==
    /\ IsLink(l)
    /\ l.section = Sec(out) /\ l.image = Img(out) /\ l.fixups = Fxs(out)

(* The TEXT record of the buffers, and the entries after it.               *)
LEMMA TextSeen ==
    ASSUME NEW out, WellOut(out), NEW r, IsSeq(r), \A i \in DOMAIN r : ~Locating(r[i]),
           NEW rec, rec = [type |-> "TEXT", addr |-> out.tr.txt_addr, bytes |-> out.tr.text]
    PROVE  LET m == Fixing!Fold(LinkedFrom(out.file \o <<rec>>), r)
           IN /\ IsLink(m) /\ m.section = Sec(out) /\ m.image = Img(out)
              /\ m.fixups = LinkedFrom(out.file).fixups \cup
                               {Fix(Sec(out), out.tr.txt_addr, r[i]) : i \in DOMAIN r}
    <1> DEFINE l == LinkedFrom(out.file)
               d == LinkedFrom(out.file \o <<rec>>)
    <1>1. IsLink(l) /\ IsSeq(out.file)
        BY DEF WellOut, GoodOut, GoodFile
    <1>2. rec.type = "TEXT" /\ rec.addr = out.tr.txt_addr /\ rec.bytes = out.tr.text
        OBVIOUS
    <1>3. d = LinkRecord(l, rec)
        BY <1>1, RecordLinked
    <1>4. LinkRecord(l, rec) =
              [section |-> l.section, last |-> rec.addr,
               image |-> Over(l.image, l.section, rec.addr, rec.bytes), fixups |-> l.fixups]
        BY <1>1, <1>2, TextLinked
    <1>5. Over(l.image, l.section, rec.addr, rec.bytes) = Img(out)
        BY <1>2 DEF Img, Sec
    <1>6. Img(out) = [x \in DOMAIN Img(out) |-> Img(out)[x]]
        BY <1>5, OverIsImage
    <1>7. /\ d.section = Sec(out) /\ d.last = out.tr.txt_addr /\ d.image = Img(out)
          /\ d.fixups = l.fixups
        BY <1>2, <1>3, <1>4, <1>5 DEF Sec
    <1>8. IsLink(d)
        BY <1>2, <1>3, <1>4, <1>5, <1>6, LinkSplit
    <1> HIDE DEF l, d
    <1>9. Fixing!Fold(d, r) =
              [section |-> d.section, last |-> d.last, image |-> d.image,
               fixups |-> d.fixups \cup {Fix(d.section, d.last, r[i]) : i \in DOMAIN r}]
        BY <1>8, RldLinked
    <1>10. IsLink(Fixing!Fold(d, r))
        BY <1>6, <1>7, <1>9, LinkSplit
    <1> QED BY <1>7, <1>9, <1>10 DEF l, d

LEMMA FlushSeen ==
    ASSUME NEW out, WellOut(out)
    PROVE  Sees(LinkedFrom(out.file \o text_flush(out.tr)), out)
    <1> DEFINE f == out.file
               t == out.tr
               rec == [type |-> "TEXT", addr |-> t.txt_addr, bytes |-> t.text]
               rld == [type |-> "RLD", entries |-> t.rld]
               l == LinkedFrom(f)
    <1>1. /\ IsSeq(f) /\ IsLink(l) /\ IsSeq(t.text) /\ IsSeq(t.rld) /\ t.txt_addr \in Nat
          /\ \A i \in DOMAIN t.rld : ~Locating(t.rld[i])
        BY DEF WellOut, GoodOut, GoodFile, GoodBuffers, Shape
    <1>2. IsSeq(<<rec>>) /\ IsSeq(<<rld>>) /\ IsSeq(<<>>)
        BY Short
    <1>3. IsSeq(f \o <<rec>>)
        BY <1>1, <1>2, Joined
    <1>4. CASE t.text = <<>>
        <2>1. t.rld = <<>>
            BY <1>4 DEF WellOut, Attached
        <2>2. text_flush(t) = <<>> /\ f \o <<>> = f
            BY <1>1, <1>4, <2>1 DEF text_flush, IsSeq
        <2>3. Img(out) = l.image
            BY <1>1, <1>4, OverNothing DEF Img, IsLink
        <2>4. DOMAIN t.rld = {}
            BY <2>1, Short
        <2>5. Fxs(out) = l.fixups
            BY <2>4 DEF Fxs
        <2> QED BY <1>1, <2>2, <2>3, <2>5 DEF Sees, Sec
    <1>5. CASE t.text # <<>>
        <2> DEFINE d == LinkedFrom(f \o <<rec>>)
        <2>1. LET m == Fixing!Fold(d, t.rld)
              IN /\ IsLink(m) /\ m.section = Sec(out) /\ m.image = Img(out)
                 /\ m.fixups = Fxs(out)
            BY <1>1, TextSeen DEF Fxs
        <2>2. Sees(Fixing!Fold(d, t.rld), out)
            BY <2>1 DEF Sees
        <2>3. CASE t.rld = <<>>
            <3>1. f \o text_flush(t) = f \o <<rec>>
                <4>1. text_flush(t) = <<rec>> \o <<>>
                    BY <1>5, <2>3 DEF text_flush
                <4>2. <<rec>> \o <<>> = <<rec>>
                    BY <1>2 DEF IsSeq
                <4> QED BY <4>1, <4>2
            <3>2. Fixing!Fold(d, t.rld) = d
                <4>1. DOMAIN t.rld = {}
                    BY <2>3, Short
                <4> QED BY <4>1, Fixing!FoldEmpty
            <3> QED BY <2>2, <3>1, <3>2
        <2>4. CASE t.rld # <<>>
            <3>1. f \o text_flush(t) = (f \o <<rec>>) \o <<rld>>
                <4>1. text_flush(t) = <<rec>> \o <<rld>>
                    BY <1>5, <2>4 DEF text_flush
                <4>2. f \o (<<rec>> \o <<rld>>) = (f \o <<rec>>) \o <<rld>>
                    BY <1>1, <1>2, JoinedTwice, SMTT(60)
                <4> QED BY <4>1, <4>2
            <3>2. LinkedFrom((f \o <<rec>>) \o <<rld>>) = LinkRecord(d, rld)
                BY <1>3, RecordLinked
            <3>3. LinkRecord(d, rld) = Fixing!Fold(d, t.rld)
                <4>1. rld.type = "RLD" /\ rld.entries = t.rld
                    OBVIOUS
                <4> HIDE DEF rld
                <4> QED BY <4>1, LinkRld
            <3> QED BY <2>2, <3>1, <3>2, <3>3
        <2> QED BY <2>3, <2>4
    <1> QED BY <1>4, <1>5

-----------------------------------------------------------------------------
(* A flush in between changes nothing that the linker sees.                *)
SameView(o, p) == Sec(p) = Sec(o) /\ Img(p) = Img(o) /\ Fxs(p) = Fxs(o)

(* Empty buffers add nothing to the file.                                  *)
LEMMA FreshView ==
    ASSUME NEW q, NEW addr \in Nat, q.tr = text_init(addr), NEW l, IsLink(l),
           LinkedFrom(q.file) = l
    PROVE  Attached(q.tr) /\ Sec(q) = l.section /\ Img(q) = l.image /\ Fxs(q) = l.fixups
    <1>1. q.tr.text = <<>> /\ q.tr.rld = <<>> /\ q.tr.txt_addr = addr
        BY DEF text_init
    <1>2. DOMAIN q.tr.rld = {}
        BY <1>1, Short
    <1>3. Img(q) = l.image
        BY <1>1, OverNothing DEF Img, IsLink
    <1>4. Fxs(q) = l.fixups
        BY <1>2 DEF Fxs
    <1> QED BY <1>1, <1>3, <1>4 DEF Attached, Sec

LEMMA FlushView ==
    ASSUME NEW out, WellOut(out), NEW addr \in Nat
    PROVE  WellOut(Flush(out, addr)) /\ SameView(out, Flush(out, addr))
    <1> DEFINE q == Flush(out, addr)
               l == LinkedFrom(out.file \o text_flush(out.tr))
    <1>1. Sees(l, out)
        BY FlushSeen
    <1>2. GoodOut(q) /\ q.tr = text_init(addr)
        <2>1. Shape(out.tr) /\ GoodFile(out.file)
            BY DEF WellOut, GoodOut, GoodBuffers
        <2> QED BY <2>1, FlushGood
    <1>3. LinkedFrom(q.file) = l
        BY DEF Flush
    <1> HIDE DEF q, l
    <1>4. Attached(q.tr) /\ Sec(q) = l.section /\ Img(q) = l.image /\ Fxs(q) = l.fixups
        BY <1>1, <1>2, <1>3, FreshView DEF Sees
    <1>5. WellOut(q) /\ SameView(out, q)
        BY <1>1, <1>2, <1>3, <1>4 DEF Sees, WellOut, SameView
    <1> QED BY <1>5 DEF q

LEMMA FitView ==
    ASSUME NEW out, WellOut(out), NEW addr \in Nat, NEW txtsize, NEW rldsize
    PROVE  LET o == text_fit(out, addr, txtsize, rldsize)
           IN WellOut(o) /\ SameView(out, o)
    <1>1. \/ text_fit(out, addr, txtsize, rldsize) = out
          \/ text_fit(out, addr, txtsize, rldsize) = Flush(out, addr)
        BY DEF text_fit
    <1>2. SameView(out, out)
        BY DEF SameView
    <1> QED BY <1>1, <1>2, FlushView

(* Bytes and entries that are put into the buffers.                        *)
LEMMA IntoView ==
    ASSUME NEW o, WellOut(o), NEW bytes, IsSeq(bytes), Len(bytes) >= 1,
           NEW es, IsSeq(es), NEW n, GoodOut(Into(o, bytes, es, n))
    PROVE  LET q == Into(o, bytes, es, n)
           IN /\ WellOut(q)
              /\ Sec(q) = Sec(o)
              /\ Img(q) = Over(Img(o), Sec(o), o.tr.txt_addr + Len(o.tr.text), bytes)
              /\ Fxs(q) = Fxs(o) \cup {Fix(Sec(o), o.tr.txt_addr, es[i]) : i \in DOMAIN es}
    <1> DEFINE q == Into(o, bytes, es, n)
               t == o.tr
    <1>1. /\ q.file = o.file /\ q.tr.txt_addr = t.txt_addr
          /\ q.tr.text = t.text \o bytes /\ q.tr.rld = t.rld \o es
        BY DEF Into
    <1>2. IsSeq(t.text) /\ IsSeq(t.rld) /\ t.txt_addr \in Nat /\ IsLink(LinkedFrom(o.file))
        BY DEF WellOut, GoodOut, GoodBuffers, Shape
    <1>3. Sec(q) = Sec(o)
        BY <1>1 DEF Sec
    <1>4. Img(q) = Over(Img(o), Sec(o), t.txt_addr + Len(t.text), bytes)
        <2> HIDE DEF q
        <2> QED BY <1>1, <1>2, <1>3, OverJoined, SMTT(60) DEF Img
    <1>5. q.tr.text # <<>>
        <2>1. Len(q.tr.text) = Len(t.text) + Len(bytes) /\ Len(t.text) \in Nat /\ Len(bytes) \in Nat
            BY <1>1, <1>2, Joined
        <2>2. Len(q.tr.text) # 0
            BY <2>1
        <2> QED BY <2>2, Short
    <1>6. Fxs(q) = Fxs(o) \cup {Fix(Sec(o), t.txt_addr, es[i]) : i \in DOMAIN es}
        <2> DEFINE fx(e) == Fix(Sec(o), t.txt_addr, e)
                   r == q.tr.rld
        <2>1. /\ DOMAIN r = 1..(Len(t.rld) + Len(es))
              /\ Len(t.rld) \in Nat /\ Len(es) \in Nat
              /\ DOMAIN t.rld = 1..Len(t.rld) /\ DOMAIN es = 1..Len(es)
              /\ \A i \in 1..Len(t.rld) : r[i] = t.rld[i]
              /\ \A i \in 1..Len(es) : r[Len(t.rld) + i] = es[i]
            BY <1>1, <1>2, Joined
        <2> HIDE DEF fx, r
        <2>2. {fx(r[i]) : i \in DOMAIN r} =
                 {fx(t.rld[i]) : i \in DOMAIN t.rld} \cup {fx(es[i]) : i \in DOMAIN es}
            <3>1. ASSUME NEW i \in DOMAIN r
                  PROVE  fx(r[i]) \in {fx(t.rld[j]) : j \in DOMAIN t.rld}
                                        \cup {fx(es[j]) : j \in DOMAIN es}
                <4>1. CASE i \in 1..Len(t.rld)
                    BY <2>1, <4>1
                <4>2. CASE i \notin 1..Len(t.rld)
                    <5>1. PICK j \in 1..Len(es) : i = Len(t.rld) + j
                        <6>1. \A a, b \in Nat : \A k \in 1..(a + b) : k \notin 1..a =>
                                 k - a \in 1..b /\ k = a + (k - a)
                            OBVIOUS
                        <6> QED BY <2>1, <4>2, <6>1
                    <5> QED BY <2>1, <5>1
                <4> QED BY <4>1, <4>2
            <3>2. ASSUME NEW i \in DOMAIN t.rld PROVE fx(t.rld[i]) \in {fx(r[j]) : j \in DOMAIN r}
                BY <2>1
            <3>3. ASSUME NEW i \in DOMAIN es PROVE fx(es[i]) \in {fx(r[j]) : j \in DOMAIN r}
                <4>1. i \in 1..Len(es)
                    BY <2>1, Zenon
                <4>2. r[Len(t.rld) + i] = es[i]
                    BY <2>1, <4>1, Zenon
                <4>3. \A a, b \in Nat : \A k \in 1..b : a + k \in 1..(a + b)
                    OBVIOUS
                <4>4. Len(t.rld) + i \in DOMAIN r
                    BY <2>1, <4>1, <4>3, Zenon
                <4>5. fx(r[Len(t.rld) + i]) \in {fx(r[j]) : j \in DOMAIN r}
                    BY <4>4, Zenon
                <4> QED BY <4>2, <4>5, Zenon
            <3> QED BY <3>1, <3>2, <3>3
        <2>3. Fxs(q) = LinkedFrom(o.file).fixups \cup {fx(r[i]) : i \in DOMAIN r}
            BY <1>1, <1>3 DEF Fxs, fx, r
        <2>4. Fxs(o) = LinkedFrom(o.file).fixups \cup {fx(t.rld[i]) : i \in DOMAIN t.rld}
            BY DEF Fxs, fx
        <2> QED BY <2>2, <2>3, <2>4 DEF fx
    <1>7. WellOut(q)
        BY <1>1, <1>2, <1>5 DEF WellOut, Attached
    <1> QED BY <1>3, <1>4, <1>6, <1>7, SMTT(60)

-----------------------------------------------------------------------------
(* q is out with the bytes at addr of the current section, and what fs     *)
(* asks there.                                                             *)
Puts(out, q, addr, bytes, fs) ==
    /\ WellOut(q)
    /\ Sec(q) = Sec(out)
    /\ Img(q) = Over(Img(out), Sec(out), addr, bytes)
    /\ Fxs(q) = Fxs(out) \cup {<<Sec(out), addr, f>> : f \in fs}

LEMMA WordPuts ==
    ASSUME NEW out, WellOut(out), NEW addr \in Nat, NEW size \in {1, 2}, NEW word
    PROVE  Puts(out, text_word(out, addr, size, word), addr, text_word_i(word, size), {})
    <1> DEFINE o == text_fit(out, addr, size, 0)
               bytes == text_word_i(word, size)
               q == Into(o, bytes, <<>>, 0)
    <1>1. WellOut(o) /\ SameView(out, o)
        BY FitView
    <1>2. size # 0 => o.tr.txt_addr + Len(o.tr.text) = addr
        <2>1. size \in {0, 1, 2, 4} /\ 0 \in Nat /\ 0 + 2 <= Roof /\ GoodOut(out)
            BY RoofHigh DEF WellOut
        <2>2. /\ GoodOut(o) /\ Len(o.tr.text) + 4 + size <= TextMax
              /\ o.tr.rld_offset + 0 <= Roof
              /\ size # 0 => o.tr.txt_addr + Len(o.tr.text) = addr
            BY <2>1, FitGood, ZenonT(60)
        <2> QED BY <2>2
    <1>3. GoodOut(q)
        <2>1. GoodOut(text_word(out, addr, size, word))
            BY TextWordGood DEF WellOut
        <2> QED BY <2>1 DEF text_word
    <1>4. IsSeq(bytes) /\ Len(bytes) >= 1 /\ IsSeq(<<>>) /\ DOMAIN <<>> = {}
        <2>1. IsSeq(bytes) /\ Len(bytes) = size
            BY WordBytes
        <2> QED BY <2>1, Short
    <1>5. q = text_word(out, addr, size, word)
        BY DEF text_word
    <1> HIDE DEF o, bytes
    <1>6. /\ WellOut(q) /\ Sec(q) = Sec(o)
          /\ Img(q) = Over(Img(o), Sec(o), o.tr.txt_addr + Len(o.tr.text), bytes)
          /\ Fxs(q) = Fxs(o) \cup {Fix(Sec(o), o.tr.txt_addr, <<>>[i]) : i \in DOMAIN <<>>}
        BY <1>1, <1>3, <1>4, IntoView
    <1> HIDE DEF q
    <1>7. Fxs(q) = Fxs(o) /\ {<<Sec(out), addr, f>> : f \in {}} = {}
        BY <1>4, <1>6
    <1>8. o.tr.txt_addr + Len(o.tr.text) = addr
        BY <1>2
    <1>9. Puts(out, q, addr, bytes, {})
        BY <1>1, <1>6, <1>7, <1>8 DEF Puts, SameView
    <1> QED BY <1>5, <1>9 DEF bytes

(* One entry, for the bytes just put.                                      *)
LEMMA EntryPuts ==
    ASSUME NEW out, WellOut(out), NEW addr \in Nat, NEW size \in {1, 2, 4},
           NEW n \in Nat, n + 2 <= Roof, NEW bytes, IsSeq(bytes), Len(bytes) = size,
           NEW e, e.disp = rld_code(text_fit(out, addr, size, n), addr),
           GoodOut(Into(text_fit(out, addr, size, n), bytes, <<e>>, n))
    PROVE  Puts(out, Into(text_fit(out, addr, size, n), bytes, <<e>>, n), addr, bytes,
                {Asked(e, IF e.code \in Additive THEN e.word ELSE 0)})
    <1> DEFINE o == text_fit(out, addr, size, n)
               q == Into(o, bytes, <<e>>, n)
               a == Asked(e, IF e.code \in Additive THEN e.word ELSE 0)
    <1>1. WellOut(o) /\ SameView(out, o)
        BY FitView
    <1>2. o.tr.txt_addr + Len(o.tr.text) = addr /\ e.disp = Len(o.tr.text) + 4
        <2>1. /\ size \in {0, 1, 2, 4} /\ size # 0 /\ GoodOut(out)
            BY DEF WellOut
        <2>2. size # 0 => o.tr.txt_addr + Len(o.tr.text) = addr
            BY <2>1, FitGood, ZenonT(60)
        <2>3. rld_code(o, addr) = Len(o.tr.text) + 4
            BY <2>1, EntryRoom
        <2> QED BY <2>1, <2>2, <2>3
    <1>3. IsSeq(<<e>>) /\ DOMAIN <<e>> = {1} /\ <<e>>[1] = e /\ Len(bytes) >= 1
        BY Short
    <1>4. GoodOut(q)
        OBVIOUS
    <1> HIDE DEF o
    <1>5. /\ WellOut(q) /\ Sec(q) = Sec(o)
          /\ Img(q) = Over(Img(o), Sec(o), o.tr.txt_addr + Len(o.tr.text), bytes)
          /\ Fxs(q) = Fxs(o) \cup {Fix(Sec(o), o.tr.txt_addr, <<e>>[i]) : i \in DOMAIN <<e>>}
        BY <1>1, <1>3, <1>4, IntoView
    <1>6. {Fix(Sec(o), o.tr.txt_addr, <<e>>[i]) : i \in DOMAIN <<e>>} =
              {Fix(Sec(o), o.tr.txt_addr, e)}
        BY <1>3
    <1>7. Fix(Sec(o), o.tr.txt_addr, e) = <<Sec(o), addr, a>>
        <2>1. o.tr.txt_addr \in Nat /\ Len(o.tr.text) \in Nat
            BY <1>1, Joined DEF WellOut, GoodOut, GoodBuffers, Shape
        <2>2. o.tr.txt_addr + e.disp - 4 = addr
            BY <1>2, <2>1
        <2> QED BY <2>2 DEF Fix
    <1> HIDE DEF q, a
    <1>8. {<<Sec(out), addr, f>> : f \in {a}} = {<<Sec(out), addr, a>>}
        OBVIOUS
    <1>9. Puts(out, q, addr, bytes, {a})
        BY <1>1, <1>2, <1>5, <1>6, <1>7, <1>8 DEF Puts, SameView
    <1> QED BY <1>9 DEF q, a, o

(* What a relocation of a kind asks of the linker.                         *)
Ask(name, expr, relative, offset, size) ==
    [what |-> name, expr |-> expr, relative |-> relative, offset |-> offset,
     byte |-> size = 1]

LEMMA RelocatedPuts ==
    ASSUME NEW out, WellOut(out), NEW addr \in Nat, NEW size \in {1, 2}, NEW word, NEW name,
           NEW code \in DOMAIN RldSize \ {"LOCDEF", "LOCMOD"}
    PROVE  Puts(out, Relocated(out, addr, size, word, code, name), addr,
                text_word_i(word, size),
                {Ask(name, <<>>, code \in Relative, IF code \in Additive THEN word ELSE 0,
                     size)})
    <1> DEFINE n == RldSize[code]
               bytes == text_word_i(word, size)
               o == text_fit(out, addr, size, n)
               e == Entry(code, rld_code(o, addr), size, name, word)
    <1>1. n \in Nat /\ n + 2 <= Roof /\ size \in {1, 2, 4}
        BY RoofHigh DEF RldSize
    <1>2. IsSeq(bytes) /\ Len(bytes) = size
        BY WordBytes
    <1>3. /\ e.disp = rld_code(text_fit(out, addr, size, n), addr)
          /\ Asked(e, IF e.code \in Additive THEN e.word ELSE 0) =
                Ask(name, <<>>, code \in Relative, IF code \in Additive THEN word ELSE 0, size)
        BY DEF Entry, Asked, Ask
    <1>4. Relocated(out, addr, size, word, code, name) = Into(o, bytes, <<e>>, n)
        BY DEF Relocated
    <1>5. GoodOut(Into(text_fit(out, addr, size, n), bytes, <<e>>, n))
        <2>1. GoodOut(Relocated(out, addr, size, word, code, name))
            BY RelocatedGood DEF WellOut
        <2> QED BY <1>4, <2>1
    <1> HIDE DEF e, n, bytes
    <1>6. Puts(out, Into(text_fit(out, addr, size, n), bytes, <<e>>, n), addr, bytes,
               {Asked(e, IF e.code \in Additive THEN e.word ELSE 0)})
        BY <1>1, <1>2, <1>3, <1>5, EntryPuts
    <1> QED BY <1>3, <1>4, <1>6 DEF bytes

LEMMA Twice ==
    ASSUME NEW w, IsSeq(w), Len(w) = 2
    PROVE  IsSeq(w \o w) /\ Len(w \o w) = 4
    <1>1. IsSeq(w \o w) /\ Len(w \o w) = Len(w) + Len(w)
        BY Joined, ZenonT(30)
    <1> QED BY <1>1

LEMMA LimitsPuts ==
    ASSUME NEW out, WellOut(out), NEW addr \in Nat
    PROVE  Puts(out, text_limits(out, addr), addr, text_word_i(0, 2) \o text_word_i(0, 2),
                {Ask(NoSection, <<>>, FALSE, 0, 2)})
    <1> DEFINE n == RldSize["LIMITS"]
               bytes == text_word_i(0, 2) \o text_word_i(0, 2)
               o == text_fit(out, addr, 4, n)
               e == Entry("LIMITS", rld_code(o, addr), 2, NoSection, 0)
    <1>1. n \in Nat /\ n + 2 <= Roof
        BY RoofHigh DEF RldSize
    <1>2. IsSeq(bytes) /\ Len(bytes) = 4
        <2>1. PICK w : w = text_word_i(0, 2)
            OBVIOUS
        <2>2. IsSeq(w) /\ Len(w) = 2
            BY <2>1, WordBytes
        <2>3. IsSeq(w \o w) /\ Len(w \o w) = 4
            BY <2>2, Twice
        <2>4. bytes = w \o w
            BY <2>1
        <2> HIDE DEF bytes
        <2> QED BY <2>3, <2>4
    <1>3. /\ e.disp = rld_code(text_fit(out, addr, 4, n), addr)
          /\ Asked(e, IF e.code \in Additive THEN e.word ELSE 0) =
                Ask(NoSection, <<>>, FALSE, 0, 2)
        <2>1. /\ e.disp = rld_code(o, addr) /\ e.name = NoSection /\ e.code = "LIMITS"
              /\ e.size = 2 /\ e.expr = <<>>
            BY DEF Entry
        <2> HIDE DEF e
        <2>2. (e.code \in Relative) = FALSE /\ e.code \notin Additive
            BY <2>1 DEF Additive, Relative
        <2>3. (e.size = 1) = (2 = 1)
            BY <2>1
        <2> QED BY <2>1, <2>2, <2>3 DEF Asked, Ask
    <1>4. text_limits(out, addr) = Into(o, bytes, <<e>>, n)
        BY DEF text_limits
    <1>5. GoodOut(Into(text_fit(out, addr, 4, n), bytes, <<e>>, n))
        <2>1. GoodOut(text_limits(out, addr))
            BY LimitsGood DEF WellOut
        <2> QED BY <1>4, <2>1
    <1>6. 4 \in {1, 2, 4}
        OBVIOUS
    <1> HIDE DEF e, n, bytes
    <1>7. Puts(out, Into(text_fit(out, addr, 4, n), bytes, <<e>>, n), addr, bytes,
               {Asked(e, IF e.code \in Additive THEN e.word ELSE 0)})
        BY <1>1, <1>2, <1>3, <1>5, <1>6, EntryPuts
    <1> QED BY <1>3, <1>4, <1>7 DEF bytes

LEMMA ComplexPuts ==
    ASSUME AccumHolds,
           NEW out, WellOut(out), NEW addr \in Nat, NEW size \in {1, 2},
           NEW expr \in ComplexExprs, NEW store \in {"STORE", "STORE_DISP"}
    PROVE  Puts(out, text_complex_commit(out, addr, size, expr, store), addr,
                text_word_i(0, size),
                {Ask(NoSection, Append(expr, [op |-> store]), FALSE, 0, size)})
    <1> DEFINE tx == text_complex_fit(Complex(expr), [op |-> store])
               n == tx.len + 2
               bytes == text_word_i(0, size)
               o == text_fit(out, addr, size, n)
               e == [Entry("COMPLEX", rld_code(o, addr), size, NoSection, 0)
                       EXCEPT !.expr = tx.ops]
    <1>1. n \in Nat /\ n + 2 <= Roof /\ size \in {1, 2, 4}
        <2>1. tx.len \in Nat /\ tx.len + 4 <= Roof
            BY StoreLength
        <2> HIDE DEF tx
        <2> QED BY <2>1, RoofHigh
    <1>2. IsSeq(bytes) /\ Len(bytes) = size
        BY WordBytes
    <1>3. tx.ops = Append(expr, [op |-> store])
        BY DEF AccumHolds
    <1>4. text_complex_commit(out, addr, size, expr, store) = Into(o, bytes, <<e>>, n)
        BY DEF text_complex_commit
    <1>5. GoodOut(Into(text_fit(out, addr, size, n), bytes, <<e>>, n))
        <2>1. GoodOut(text_complex_commit(out, addr, size, expr, store))
            BY ComplexGood DEF WellOut
        <2> QED BY <1>4, <2>1
    <1> HIDE DEF tx
    <1>6. /\ e.disp = rld_code(text_fit(out, addr, size, n), addr)
          /\ Asked(e, IF e.code \in Additive THEN e.word ELSE 0) =
                Ask(NoSection, Append(expr, [op |-> store]), FALSE, 0, size)
        <2> HIDE DEF o, n
        <2>1. /\ e.disp = rld_code(o, addr) /\ e.name = NoSection /\ e.code = "COMPLEX"
              /\ e.size = size /\ e.expr = tx.ops
            BY DEF Entry
        <2> HIDE DEF e
        <2>2. (e.code \in Relative) = FALSE /\ e.code \notin Additive
            BY <2>1 DEF Additive, Relative
        <2>3. (e.size = 1) = (size = 1)
            BY <2>1
        <2> QED BY <1>3, <2>1, <2>2, <2>3 DEF Asked, Ask, o
    <1> HIDE DEF e, n, bytes
    <1>7. Puts(out, Into(text_fit(out, addr, size, n), bytes, <<e>>, n), addr, bytes,
               {Asked(e, IF e.code \in Additive THEN e.word ELSE 0)})
        BY <1>1, <1>2, <1>5, <1>6, EntryPuts
    <1> QED BY <1>4, <1>6, <1>7 DEF bytes

(* A change of location moves the linker to the section and changes        *)
(* nothing that it has seen.                                               *)
LEMMA LocationView ==
    ASSUME NEW out, WellOut(out), NEW addr \in Nat, NEW name,
           NEW code \in {"LOCDEF", "LOCMOD"}
    PROVE  LET o == text_fit(out, addr, 0, RldSize[code])
               q == Flush(Into(o, <<>>, <<Entry(code, 0, 2, name, addr)>>, RldSize[code]), addr)
           IN /\ WellOut(q)
              /\ Sec(q) = IF code = "LOCDEF" THEN name ELSE Sec(out)
              /\ Img(q) = Img(out) /\ Fxs(q) = Fxs(out)
    <1> DEFINE n == RldSize[code]
               o == text_fit(out, addr, 0, n)
               e == Entry(code, 0, 2, name, addr)
               p == Into(o, <<>>, <<e>>, n)
               q == Flush(p, addr)
               t == o.tr
               rec == [type |-> "TEXT", addr |-> t.txt_addr, bytes |-> t.text]
               rld == [type |-> "RLD", entries |-> t.rld \o <<e>>]
               m == LinkedFrom(q.file)
    <1>1. WellOut(o) /\ SameView(out, o)
        BY FitView
    <1>2. GoodOut(q) /\ q.tr = text_init(addr)
        <2>1. GoodOut(q)
            BY LocationGood DEF WellOut
        <2> QED BY <2>1 DEF Flush
    <1>3. e.code = code /\ e.name = name /\ Locating(e)
        BY DEF Entry, Locating
    <1> HIDE DEF o, e
    <1>4. /\ IsSeq(o.file) /\ IsLink(LinkedFrom(o.file)) /\ IsSeq(t.text) /\ IsSeq(t.rld)
          /\ t.txt_addr \in Nat /\ \A i \in DOMAIN t.rld : ~Locating(t.rld[i])
        BY <1>1 DEF WellOut, GoodOut, GoodFile, GoodBuffers, Shape
    <1>5. /\ IsSeq(<<rec>>) /\ IsSeq(<<rld>>) /\ IsSeq(<<e>>) /\ IsSeq(<<>>)
          /\ Len(<<e>>) = 1
        BY Short
    <1>6. t.rld \o <<e>> # <<>>
        <2>1. Len(t.rld \o <<e>>) = Len(t.rld) + 1 /\ Len(t.rld) \in Nat
            BY <1>4, <1>5, Joined
        <2>2. Len(t.rld \o <<e>>) # 0
            BY <2>1
        <2> QED BY <2>2, Short
    <1>7. q.file = o.file \o text_flush(p.tr) /\ p.tr.text = t.text
          /\ p.tr.rld = t.rld \o <<e>> /\ p.tr.txt_addr = t.txt_addr
        <2>1. t.text \o <<>> = t.text
            BY <1>4 DEF IsSeq
        <2> QED BY <2>1 DEF Flush, Into
    <1> DEFINE s == Fixing!Fold(LinkedFrom(IF t.text = <<>> THEN o.file
                                           ELSE o.file \o <<rec>>), t.rld)
    <1>8. m = LinkEntry(s, e)
        <2> DEFINE before == IF t.text = <<>> THEN o.file ELSE o.file \o <<rec>>
        <2>1. IsSeq(before)
            <3>1. IsSeq(o.file \o <<rec>>)
                BY <1>4, <1>5, Joined, SMTT(60)
            <3> QED BY <1>4, <3>1
        <2>2. q.file = before \o <<rld>>
            <3>1. CASE t.text = <<>>
                <4>1. text_flush(p.tr) = <<>> \o <<rld>>
                    BY <1>6, <1>7, <3>1 DEF text_flush
                <4>2. <<>> \o <<rld>> = <<rld>>
                    BY <1>5 DEF IsSeq
                <4> HIDE DEF p, q, rld
                <4> QED BY <1>7, <3>1, <4>1, <4>2
            <3>2. CASE t.text # <<>>
                <4>1. text_flush(p.tr) = <<rec>> \o <<rld>>
                    BY <1>6, <1>7, <3>2 DEF text_flush
                <4> HIDE DEF p, q, rld, rec
                <4>2. o.file \o (<<rec>> \o <<rld>>) = (o.file \o <<rec>>) \o <<rld>>
                    <5>1. PICK f, a, b : f = o.file /\ a = <<rec>> /\ b = <<rld>>
                        OBVIOUS
                    <5>2. IsSeq(f) /\ IsSeq(a) /\ IsSeq(b)
                        BY <1>4, <1>5, <5>1, Zenon
                    <5>3. f \o (a \o b) = (f \o a) \o b
                        BY <5>2, JoinedTwice
                    <5> QED BY <5>1, <5>3, Zenon
                <4> QED BY <1>7, <3>2, <4>1, <4>2, SMTT(60)
            <3> QED BY <3>1, <3>2
        <2> HIDE DEF before
        <2>3. LinkedFrom(before \o <<rld>>) = LinkRecord(LinkedFrom(before), rld)
            BY <2>1, RecordLinked
        <2>4. LinkRecord(LinkedFrom(before), rld) =
                 Fixing!Fold(LinkedFrom(before), t.rld \o <<e>>)
            <3>1. rld.type = "RLD" /\ rld.entries = t.rld \o <<e>>
                OBVIOUS
            <3> HIDE DEF rld
            <3> QED BY <3>1, LinkRld
        <2>5. Fixing!Fold(LinkedFrom(before), t.rld \o <<e>>) =
                 LinkEntry(Fixing!Fold(LinkedFrom(before), t.rld), e)
            BY <1>4, LastEntryLinked
        <2> HIDE DEF rld, q
        <2> QED BY <2>2, <2>3, <2>4, <2>5 DEF before
    <1>9. IsLink(s) /\ s.section = Sec(out) /\ s.image = Img(out) /\ s.fixups = Fxs(out)
        <2>1. IsLink(s) /\ s.section = Sec(o) /\ s.image = Img(o) /\ s.fixups = Fxs(o)
            <3>1. CASE t.text = <<>>
                <4>1. t.rld = <<>>
                    BY <1>1, <3>1 DEF WellOut, Attached
                <4>2. DOMAIN t.rld = {}
                    BY <4>1, Short
                <4>3. s = LinkedFrom(o.file)
                    BY <3>1, <4>2, Fixing!FoldEmpty
                <4>4. Img(o) = LinkedFrom(o.file).image
                    BY <1>4, <3>1, OverNothing DEF Img, IsLink
                <4>5. Fxs(o) = LinkedFrom(o.file).fixups
                    BY <4>2 DEF Fxs
                <4> HIDE DEF s
                <4> QED BY <1>4, <4>3, <4>4, <4>5 DEF Sec
            <3>2. CASE t.text # <<>>
                <4>1. LET d == Fixing!Fold(LinkedFrom(o.file \o <<rec>>), t.rld)
                      IN /\ IsLink(d) /\ d.section = Sec(o) /\ d.image = Img(o)
                         /\ d.fixups = Fxs(o)
                    BY <1>1, <1>4, TextSeen DEF Fxs
                <4>2. s = Fixing!Fold(LinkedFrom(o.file \o <<rec>>), t.rld)
                    BY <3>2
                <4> HIDE DEF s
                <4> QED BY <4>1, <4>2
            <3> QED BY <3>1, <3>2
        <2> QED BY <1>1, <2>1 DEF SameView
    <1> HIDE DEF s, q
    <1>10. LinkEntry(s, e) =
              [section |-> IF code = "LOCDEF" THEN name ELSE s.section, last |-> e.word,
               image |-> s.image, fixups |-> s.fixups]
        BY <1>3, <1>9, EntryLinked
    <1>11. /\ m.section = (IF code = "LOCDEF" THEN name ELSE Sec(out))
           /\ m.image = Img(out) /\ m.fixups = Fxs(out) /\ IsLink(m)
        <2>1. s.image = [x \in DOMAIN s.image |-> s.image[x]]
            BY <1>9 DEF IsLink
        <2>2. IsLink(LinkEntry(s, e))
            BY <1>10, <2>1, LinkSplit
        <2> HIDE DEF m
        <2> QED BY <1>8, <1>9, <1>10, <2>2
    <1>12. Attached(q.tr) /\ Sec(q) = m.section /\ Img(q) = m.image /\ Fxs(q) = m.fixups
        BY <1>2, <1>11, FreshView
    <1>13. WellOut(q)
        BY <1>2, <1>11, <1>12 DEF WellOut
    <1> QED BY <1>11, <1>12, <1>13 DEF q, o, e

LEMMA ChangeDotView ==
    ASSUME NEW out, WellOut(out), DOT \in Nat, Sec(out) = last_dot_section
    PROVE  LET q == change_dot(out)
           IN /\ WellOut(q) /\ Sec(q) = current
              /\ Img(q) = Img(out) /\ Fxs(q) = Fxs(out)
    <1>1. CASE last_dot_section # current
        <2>1. change_dot(out) = text_define_location(out, current, DOT)
            BY <1>1 DEF change_dot
        <2>2. LET o == text_fit(out, DOT, 0, RldSize["LOCDEF"])
                  q == Flush(Into(o, <<>>, <<Entry("LOCDEF", 0, 2, current, DOT)>>,
                                  RldSize["LOCDEF"]), DOT)
              IN WellOut(q) /\ Sec(q) = current /\ Img(q) = Img(out) /\ Fxs(q) = Fxs(out)
            <3>1. PICK code \in {"LOCDEF", "LOCMOD"} : code = "LOCDEF"
                OBVIOUS
            <3>2. LET o == text_fit(out, DOT, 0, RldSize[code])
                      q == Flush(Into(o, <<>>, <<Entry(code, 0, 2, current, DOT)>>,
                                      RldSize[code]), DOT)
                  IN /\ WellOut(q)
                     /\ Sec(q) = IF code = "LOCDEF" THEN current ELSE Sec(out)
                     /\ Img(q) = Img(out) /\ Fxs(q) = Fxs(out)
                BY LocationView
            <3> QED BY <3>1, <3>2
        <2> QED BY <2>1, <2>2 DEF text_define_location
    <1>2. CASE last_dot_section = current /\ last_dot_addr # DOT
        <2>1. change_dot(out) = text_modify_location(out, DOT)
            BY <1>2 DEF change_dot
        <2>2. LET o == text_fit(out, DOT, 0, RldSize["LOCMOD"])
                  q == Flush(Into(o, <<>>, <<Entry("LOCMOD", 0, 2, NoSection, DOT)>>,
                                  RldSize["LOCMOD"]), DOT)
              IN WellOut(q) /\ Sec(q) = Sec(out) /\ Img(q) = Img(out) /\ Fxs(q) = Fxs(out)
            <3>1. PICK code \in {"LOCDEF", "LOCMOD"} : code = "LOCMOD"
                OBVIOUS
            <3>2. LET o == text_fit(out, DOT, 0, RldSize[code])
                      q == Flush(Into(o, <<>>, <<Entry(code, 0, 2, NoSection, DOT)>>,
                                      RldSize[code]), DOT)
                  IN /\ WellOut(q)
                     /\ Sec(q) = IF code = "LOCDEF" THEN NoSection ELSE Sec(out)
                     /\ Img(q) = Img(out) /\ Fxs(q) = Fxs(out)
                BY LocationView
            <3> QED BY <3>1, <3>2
        <2> QED BY <1>2, <2>1, <2>2 DEF text_modify_location
    <1>3. CASE last_dot_section = current /\ last_dot_addr = DOT
        BY <1>3 DEF change_dot
    <1> QED BY <1>1, <1>2, <1>3

(* A location told again, in the section that the linker is in.            *)
LEMMA ModifyView ==
    ASSUME NEW out, WellOut(out), NEW addr \in Nat
    PROVE  LET q == text_modify_location(out, addr)
           IN /\ WellOut(q) /\ Sec(q) = Sec(out)
              /\ Img(q) = Img(out) /\ Fxs(q) = Fxs(out)
    <1>1. PICK code \in {"LOCDEF", "LOCMOD"} : code = "LOCMOD"
        OBVIOUS
    <1>2. LET o == text_fit(out, addr, 0, RldSize[code])
              q == Flush(Into(o, <<>>, <<Entry(code, 0, 2, NoSection, addr)>>,
                              RldSize[code]), addr)
          IN /\ WellOut(q)
             /\ Sec(q) = IF code = "LOCDEF" THEN NoSection ELSE Sec(out)
             /\ Img(q) = Img(out) /\ Fxs(q) = Fxs(out)
        BY LocationView
    <1> QED BY <1>1, <1>2 DEF text_modify_location

-----------------------------------------------------------------------------
(* What is stored, kind by kind, is what the abstract program puts.        *)
LEMMA RelocatedAsked ==
    ASSUME NEW out, WellOut(out), DOT \in Nat, NEW size \in {1, 2}, NEW word, NEW name,
           name \in {NoSection} \cup ToSet(Sections) \cup GlobalNames,
           NEW code \in DOMAIN RldSize \ {"LOCDEF", "LOCMOD"},
           code \in Additive \/ word = 0
    PROVE  \E b \in Bases :
              Puts(out, Relocated(out, DOT, size, word, code, name), DOT,
                   text_word_i(word, size), {Image!Fixup(b, word, size)})
    <1> DEFINE offset == IF code \in Additive THEN word ELSE 0
               b == [what |-> name, expr |-> <<>>, relative |-> code \in Relative]
    <1>1. b \in Bases
        <2>1. PICK N : N = {NoSection} \cup ToSet(Sections) \cup GlobalNames
            OBVIOUS
        <2>2. name \in N /\ <<>> \in {<<>>} /\ (code \in Relative) \in BOOLEAN
            BY <2>1
        <2>3. b \in [what : N, expr : {<<>>}, relative : BOOLEAN]
            BY <2>2
        <2> HIDE DEF b
        <2> QED BY <2>1, <2>3 DEF Bases
    <1>2. offset = word
        OBVIOUS
    <1>3. Ask(name, <<>>, code \in Relative, offset, size) = Image!Fixup(b, word, size)
        BY <1>2 DEF Ask, Image!Fixup
    <1>4. Puts(out, Relocated(out, DOT, size, word, code, name), DOT, text_word_i(word, size),
               {Ask(name, <<>>, code \in Relative, offset, size)})
        BY RelocatedPuts
    <1> HIDE DEF b, offset
    <1> QED BY <1>1, <1>3, <1>4

LEMMA ComplexAsked ==
    ASSUME AccumHolds, NEW out, WellOut(out), DOT \in Nat, NEW size \in {1, 2},
           NEW expr \in ComplexExprs, NEW store \in {"STORE", "STORE_DISP"}
    PROVE  \E b \in Bases :
              Puts(out, text_complex_commit(out, DOT, size, expr, store), DOT,
                   text_word_i(0, size), {Image!Fixup(b, 0, size)})
    <1> DEFINE x == Append(expr, [op |-> store])
               b == [what |-> NoSection, expr |-> x, relative |-> FALSE]
    <1>1. b \in Bases
        <2>1. x \in StoredExprs
            BY DEF StoredExprs
        <2> HIDE DEF x
        <2> QED BY <2>1 DEF Bases
    <1>2. Ask(NoSection, x, FALSE, 0, size) = Image!Fixup(b, 0, size)
        BY DEF Ask, Image!Fixup
    <1>3. Puts(out, text_complex_commit(out, DOT, size, expr, store), DOT,
               text_word_i(0, size), {Ask(NoSection, x, FALSE, 0, size)})
        BY ComplexPuts
    <1> HIDE DEF b, x
    <1> QED BY <1>1, <1>2, <1>3

LEMMA LimitsAsked ==
    ASSUME NEW out, WellOut(out), DOT \in Nat
    PROVE  \E b \in Bases :
              Puts(out, text_limits(out, DOT), DOT, text_word_i(0, 2) \o text_word_i(0, 2),
                   {Image!Fixup(b, 0, 2)})
    <1> DEFINE b == [what |-> NoSection, expr |-> <<>>, relative |-> FALSE]
    <1>1. b \in Bases
        BY DEF Bases
    <1>2. Ask(NoSection, <<>>, FALSE, 0, 2) = Image!Fixup(b, 0, 2)
        BY DEF Ask, Image!Fixup
    <1>3. Puts(out, text_limits(out, DOT), DOT, text_word_i(0, 2) \o text_word_i(0, 2),
               {Ask(NoSection, <<>>, FALSE, 0, 2)})
        BY LimitsPuts
    <1> HIDE DEF b
    <1> QED BY <1>1, <1>2, <1>3

LEMMA StoredAsked ==
    ASSUME AccumHolds, NEW out, WellOut(out), DOT \in Nat, palette \in Palettes,
           current \in ToSet(Sections),
           NEW kind \in Kinds, NEW size \in Sizes(kind), NEW word \in WordsOf(kind),
           NEW name \in Names(kind), NEW expr \in ExprsOf(kind)
    PROVE  LET q == Stored(out, kind, size, word, name, expr)
           IN \/ size \in {1, 2} /\ Puts(out, q, DOT, text_word_i(word, size), {})
              \/ /\ size \in {1, 2}
                 /\ \E b \in Bases : Puts(out, q, DOT, text_word_i(word, size),
                                          {Image!Fixup(b, word, size)})
              \/ /\ size = 4
                 /\ \E b \in Bases : Puts(out, q, DOT, text_word_i(0, 2) \o text_word_i(0, 2),
                                          {Image!Fixup(b, 0, 2)})
    <1> DEFINE q == Stored(out, kind, size, word, name, expr)
    <1>1. CASE kind \in {"word", "byte"}
        <2>1. size \in {1, 2}
            BY <1>1 DEF Sizes
        <2>2. q = text_word(out, DOT, size, word)
            BY <1>1 DEF Stored
        <2> QED BY <2>1, <2>2, WordPuts
    <1>2. CASE kind \in {"internal", "displaced", "global", "global_displaced", "psect",
                         "psect_displaced"}
        <2>1. size \in {1, 2}
            BY <1>2 DEF Sizes
        <2>2. name \in {NoSection} \cup ToSet(Sections) \cup GlobalNames
            <3>1. name \in {NoSection} \cup ToSet(Sections)
                              \cup {g.name : g \in ToSet(palette.globals)}
                BY <1>2 DEF Names
            <3>2. {g.name : g \in ToSet(palette.globals)} \subseteq GlobalNames
                BY DEF GlobalNames
            <3> QED BY <3>1, <3>2
        <2>3. PICK code \in DOMAIN RldSize \ {"LOCDEF", "LOCMOD"} :
                 /\ code \in Additive \/ word = 0
                 /\ q = Relocated(out, DOT, size, word, code, name)
            <3>1. /\ {"INT", "INT_DISP", "GLOBAL", "GLOBAL_DISP", "GLOBAL_OFFSET",
                      "GLOBAL_OFFSET_DISP", "PSECT", "PSECT_DISP", "PSECT_OFFSET",
                      "PSECT_OFFSET_DISP"} \subseteq DOMAIN RldSize \ {"LOCDEF", "LOCMOD"}
                  /\ {"INT", "INT_DISP", "GLOBAL_OFFSET", "GLOBAL_OFFSET_DISP",
                      "PSECT_OFFSET", "PSECT_OFFSET_DISP"} = Additive
                BY DEF RldSize, Additive
            <3>2. CASE kind = "internal"
                <4>1. q = Relocated(out, DOT, size, word, "INT", name)
                    BY <3>2 DEF Stored, text_internal_word
                <4> HIDE DEF q
                <4> QED BY <3>1, <4>1
            <3>3. CASE kind = "displaced"
                <4>1. q = Relocated(out, DOT, size, word, "INT_DISP", name)
                    BY <3>3 DEF Stored, text_displaced_word
                <4> HIDE DEF q
                <4> QED BY <3>1, <4>1
            <3>4. CASE kind = "global"
                <4>1. q = IF word = 0 THEN Relocated(out, DOT, size, word, "GLOBAL", name)
                          ELSE Relocated(out, DOT, size, word, "GLOBAL_OFFSET", name)
                    BY <3>4 DEF Stored, text_global_offset_word, text_global_word
                <4> HIDE DEF q
                <4> QED BY <3>1, <4>1
            <3>5. CASE kind = "global_displaced"
                <4>1. q = IF word = 0 THEN Relocated(out, DOT, size, word, "GLOBAL_DISP", name)
                          ELSE Relocated(out, DOT, size, word, "GLOBAL_OFFSET_DISP", name)
                    BY <3>5 DEF Stored, text_global_displaced_offset_word,
                                text_global_displaced_word
                <4> HIDE DEF q
                <4> QED BY <3>1, <4>1
            <3>6. CASE kind = "psect"
                <4>1. q = IF word = 0 THEN Relocated(out, DOT, size, word, "PSECT", name)
                          ELSE Relocated(out, DOT, size, word, "PSECT_OFFSET", name)
                    BY <3>6 DEF Stored, text_psect_offset_word, text_psect_word
                <4> HIDE DEF q
                <4> QED BY <3>1, <4>1
            <3>7. CASE kind = "psect_displaced"
                <4>1. q = IF word = 0 THEN Relocated(out, DOT, size, word, "PSECT_DISP", name)
                          ELSE Relocated(out, DOT, size, word, "PSECT_OFFSET_DISP", name)
                    BY <3>7 DEF Stored, text_psect_displaced_offset_word,
                                text_psect_displaced_word
                <4> HIDE DEF q
                <4> QED BY <3>1, <4>1
            <3> HIDE DEF q
            <3> QED BY <1>2, <3>2, <3>3, <3>4, <3>5, <3>6, <3>7
        <2>4. \E b \in Bases : Puts(out, Relocated(out, DOT, size, word, code, name), DOT,
                                    text_word_i(word, size), {Image!Fixup(b, word, size)})
            BY <2>1, <2>2, <2>3, RelocatedAsked
        <2> HIDE DEF q
        <2>5. \E b \in Bases : Puts(out, q, DOT, text_word_i(word, size),
                                    {Image!Fixup(b, word, size)})
            BY <2>3, <2>4
        <2> QED BY <2>1, <2>5 DEF q
    <1>3. CASE kind \in {"complex", "complex_displaced"}
        <2>1. size \in {1, 2} /\ word = 0 /\ expr \in ComplexExprs
            BY <1>3 DEF Sizes, WordsOf, ExprsOf
        <2>2. PICK store \in {"STORE", "STORE_DISP"} :
                 q = text_complex_commit(out, DOT, size, expr, store)
            <3>1. CASE kind = "complex"
                BY <3>1 DEF Stored
            <3>2. CASE kind = "complex_displaced"
                BY <3>2 DEF Stored
            <3> QED BY <1>3, <3>1, <3>2
        <2>3. \E b \in Bases :
                 Puts(out, text_complex_commit(out, DOT, size, expr, store), DOT,
                      text_word_i(0, size), {Image!Fixup(b, 0, size)})
            BY <2>1, ComplexAsked
        <2> HIDE DEF q
        <2>4. \E b \in Bases : Puts(out, q, DOT, text_word_i(word, size),
                                    {Image!Fixup(b, word, size)})
            BY <2>1, <2>2, <2>3
        <2> QED BY <2>1, <2>4 DEF q
    <1>4. CASE kind = "limits"
        <2>1. size = 4
            BY <1>4 DEF Sizes
        <2>2. q = text_limits(out, DOT)
            BY <1>4 DEF Stored
        <2>3. \E b \in Bases : Puts(out, q, DOT, text_word_i(0, 2) \o text_word_i(0, 2),
                                    {Image!Fixup(b, 0, 2)})
            BY <2>2, LimitsAsked
        <2> QED BY <2>1, <2>3
    <1>5. CASE kind = "invalid"
        <2>1. size \in {1, 2} /\ word = 0
            BY <1>5 DEF Sizes, WordsOf
        <2>2. PICK p : p = text_modify_location(out, DOT)
            OBVIOUS
        <2>3. /\ WellOut(p) /\ Sec(p) = Sec(out)
              /\ Img(p) = Img(out) /\ Fxs(p) = Fxs(out)
            BY <2>2, ModifyView
        <2>4. q = text_word(p, DOT, size, 0)
            BY <1>5, <2>2 DEF Stored
        <2>5. Puts(p, q, DOT, text_word_i(0, size), {})
            BY <2>1, <2>3, <2>4, WordPuts
        <2> HIDE DEF q
        <2>6. Puts(out, q, DOT, text_word_i(word, size), {})
            BY <2>1, <2>3, <2>5 DEF Puts
        <2> QED BY <2>1, <2>6 DEF q
    <1> QED BY <1>1, <1>2, <1>3, <1>4, <1>5 DEF Kinds

-----------------------------------------------------------------------------
(* A bounded set of numbers has a greatest one.                            *)
LEMMA GreatestExists ==
    \A n \in Nat : \A T \in SUBSET (0..n) : T # {} => \E m \in T : \A y \in T : m >= y
    <1> DEFINE S == {n \in Nat : \A T \in SUBSET (0..n) :
                        T # {} => \E m \in T : \A y \in T : m >= y}
    <1>1. 0 \in S
        <2>1. SUFFICES ASSUME NEW T \in SUBSET (0..0), T # {}
                       PROVE  \E m \in T : \A y \in T : m >= y
            OBVIOUS
        <2>2. \A x \in T : x = 0
            OBVIOUS
        <2>3. PICK x \in T : TRUE
            BY <2>1
        <2>4. \A y \in T : x >= y
            BY <2>2
        <2> QED BY <2>4
    <1>2. ASSUME NEW n \in Nat, n \in S PROVE n + 1 \in S
        <2>1. SUFFICES ASSUME NEW T \in SUBSET (0..(n + 1)), T # {}
                       PROVE  \E m \in T : \A y \in T : m >= y
            OBVIOUS
        <2>2. CASE n + 1 \in T
            <3>1. \A y \in T : n + 1 >= y
                OBVIOUS
            <3> QED BY <2>2, <3>1
        <2>3. CASE n + 1 \notin T
            <3>1. T \in SUBSET (0..n)
                BY <2>3
            <3> QED BY <1>2, <2>1, <3>1
        <2> QED BY <2>2, <2>3
    <1> HIDE DEF S
    <1>3. \A n \in Nat : n \in S
        BY <1>1, <1>2, Linking!SetInduction
    <1> QED BY <1>3 DEF S

LEMMA OriginBounded ==
    ASSUME NEW a \in Origins
    PROVE  a \in 0..Max(Origins)
    <1>1. PICK n \in Nat : n = 65536
        OBVIOUS
    <1>2. Origins \in SUBSET (0..n)
        <2>1. \A x \in Origins : x \in Nat /\ x < n
            BY <1>1, OriginsAssumption, SMT
        <2> QED BY <2>1
    <1>3. Origins # {}
        OBVIOUS
    <1>4. \E m \in Origins : \A y \in Origins : m >= y
        BY <1>2, <1>3, GreatestExists, Zenon
    <1>5. Max(Origins) \in Origins /\ \A y \in Origins : Max(Origins) >= y
        BY <1>4, Zenon DEF Max
    <1>6. PICK m : m = Max(Origins)
        OBVIOUS
    <1>7. m \in Origins /\ m >= a
        BY <1>5, <1>6
    <1>8. m \in Nat /\ a \in Nat
        BY <1>2, <1>7
    <1>9. a \in 0..m
        BY <1>7, <1>8
    <1> QED BY <1>6, <1>9

-----------------------------------------------------------------------------
(* The writer's buffers and file; the linker sees them before the program  *)
(* is closed, and its current section is the one of the last store.        *)
Out == [tr |-> tr, file |-> file]

RInv ==
    /\ IInv
    /\ linked = LinkedFrom(RecordsSoFar)
    /\ phase # "closed" => WellOut(Out) /\ Sec(Out) = last_dot_section

LEMMA OutParts ==
    ASSUME NEW q, WellOut(q), NEW p, p = [tr |-> q.tr, file |-> q.file]
    PROVE  WellOut(p) /\ SameView(q, p)
    <1>1. p.tr = q.tr /\ p.file = q.file
        OBVIOUS
    <1> QED BY <1>1 DEF WellOut, GoodOut, SameView, Sec, Img, Fxs

LEMMA ReadersStart ==
    ASSUME Init
    PROVE  RInv /\ Image!Init
    <1>1. /\ phase = "gsd" /\ tr = text_init(0) /\ file = <<>> /\ current = Sections[1]
          /\ pc = [s \in ToSet(Sections) |-> 0] /\ last_dot_section = NoSection
          /\ linked = LinkedFrom(RecordsSoFar)
        BY DEF Init, WriterInit
    <1>2. current \in ToSet(Sections)
        BY <1>1, SectionsAssumption
    <1>3. IInv
        BY <1>2, InitGood DEF Init
    <1>4. LinkedFrom(<<>>) = NoLink
        <2>1. DOMAIN <<>> = {}
            BY Short
        <2> QED BY <2>1, LinkedIsFold, Linking!FoldEmpty
    <1>5. RecordsSoFar = <<>>
        <2>1. text_flush(tr) = <<>> \o <<>>
            BY <1>1 DEF text_flush, text_init
        <2>2. <<>> \o <<>> = <<>>
            BY Short DEF IsSeq
        <2> QED BY <1>1, <2>1, <2>2 DEF RecordsSoFar
    <1>6. NoLink.section = NoSection /\ NoLink.image = <<>> /\ NoLink.fixups = {}
        BY DEF NoLink
    <1>7. IsLink(NoLink)
        <2>1. <<>> = [x \in DOMAIN <<>> |-> <<>>[x]]
            OBVIOUS
        <2> QED BY <1>6, <2>1 DEF IsLink, NoLink
    <1>8. Out.tr = text_init(0) /\ Out.file = <<>>
        BY <1>1 DEF Out
    <1>9. Attached(Out.tr) /\ Sec(Out) = NoSection
        <2>1. 0 \in Nat /\ LinkedFrom(Out.file) = NoLink
            BY <1>4, <1>8
        <2> QED BY <1>6, <1>7, <1>8, <2>1, FreshView
    <1>10. WellOut(Out)
        BY <1>1, <1>3, <1>4, <1>7, <1>8, <1>9 DEF WellOut, GoodOut, IInv
    <1>11. RInv
        BY <1>1, <1>3, <1>9, <1>10 DEF RInv
    <1>12. Image!Init
        BY <1>1, <1>2, <1>4, <1>5, <1>6 DEF Image!Init
    <1> QED BY <1>11, <1>12

LEMMA StoreStep ==
    ASSUME AccumHolds, RInv, linked' = LinkedFrom(RecordsSoFar'),
           NEW kind \in palette.kinds, NEW size \in Sizes(kind), NEW word \in WordsOf(kind),
           NEW name \in Names(kind), NEW expr \in ExprsOf(kind),
           Store(kind, size, word, name, expr)
    PROVE  RInv' /\ Image!Next
    <1> DEFINE c == change_dot(Out)
               q == Stored(c, kind, size, word, name, expr)
    <1>1. /\ phase = "text" /\ WellOut(Out) /\ Sec(Out) = last_dot_section
          /\ palette \in Palettes /\ current \in ToSet(Sections) /\ stores \in Nat
          /\ pc \in [ToSet(Sections) -> Nat] /\ DOT \in Nat /\ kind \in Kinds
          /\ linked = LinkedFrom(Out.file \o text_flush(Out.tr))
        BY PalettesAssumption DEF RInv, IInv, Store, DOT, RecordsSoFar, Out
    <1>2. WellOut(c) /\ Sec(c) = current /\ Img(c) = Img(Out) /\ Fxs(c) = Fxs(Out)
        BY <1>1, ChangeDotView
    <1>3. /\ tr' = q.tr /\ file' = q.file /\ phase' = "text" /\ current' = current
          /\ last_dot_section' = current /\ pc' = [pc EXCEPT ![current] = DOT + size]
          /\ stores < MaxStores
        BY <1>1 DEF Store, Out
    <1> HIDE DEF c
    <1>4. \/ size \in {1, 2} /\ Puts(c, q, DOT, text_word_i(word, size), {})
          \/ /\ size \in {1, 2}
             /\ \E b \in Bases : Puts(c, q, DOT, text_word_i(word, size),
                                      {Image!Fixup(b, word, size)})
          \/ /\ size = 4
             /\ \E b \in Bases : Puts(c, q, DOT, text_word_i(0, 2) \o text_word_i(0, 2),
                                      {Image!Fixup(b, 0, 2)})
        BY <1>1, <1>2, StoredAsked
    <1> HIDE DEF q
    <1>5. WellOut(q) /\ Sec(q) = current
        BY <1>2, <1>4 DEF Puts
    <1>6. linked' = LinkedFrom(q.file \o text_flush(q.tr))
        BY <1>3 DEF RecordsSoFar
    <1>7. Sees(linked, Out) /\ Sees(linked', q)
        BY <1>1, <1>5, <1>6, FlushSeen
    <1>8. RInv'
        <2>1. IInv'
            BY StepGood DEF RInv, WriterStep
        <2>2. Out' = [tr |-> q.tr, file |-> q.file]
            BY <1>3 DEF Out
        <2>3. PICK p : p = [tr |-> q.tr, file |-> q.file]
            OBVIOUS
        <2>4. WellOut(p) /\ Sec(p) = current
            BY <1>5, <2>3, OutParts DEF SameView
        <2>5. Out' = p
            BY <2>2, <2>3
        <2>6. WellOut(Out)' /\ Sec(Out)' = last_dot_section'
            BY <1>3, <2>4, <2>5 DEF WellOut, Sec, GoodOut, GoodBuffers, Shape, GoodFile
        <2> QED BY <2>1, <2>6 DEF RInv
    <1>9. ASSUME NEW bs, NEW fs, Puts(c, q, DOT, bs, fs), Len(bs) = size
          PROVE  Image!Put(bs, fs)
        <2>1. linked'.image = Over(linked.image, current, DOT, bs)
            BY <1>2, <1>7, <1>9 DEF Puts, Sees
        <2>2. linked'.fixups = linked.fixups \cup {<<current, DOT, f>> : f \in fs}
            BY <1>2, <1>7, <1>9 DEF Puts, Sees
        <2> QED BY <1>3, <1>9, <2>1, <2>2 DEF Image!Put, Over, DOT
    <1>10. word \in 0..MaxStores
        <2>1. word \in {0, stores + 1}
            BY <1>1 DEF WordsOf, Kinds
        <2> QED BY <1>1, <1>3, <2>1, BoundsAssumption
    <1>11. ASSUME NEW w, NEW s \in {1, 2}
           PROVE  text_word_i(w, s) = Image!Bytes(w, s) /\ Len(text_word_i(w, s)) = s
        BY DEF text_word_i, Image!Bytes
    <1>12. Len(text_word_i(0, 2) \o text_word_i(0, 2)) = 4
        BY DEF text_word_i
    <1>13. Image!Next
        <2>1. CASE size \in {1, 2} /\ Puts(c, q, DOT, text_word_i(word, size), {})
            <3>1. Image!Put(Image!Bytes(word, size), {})
                BY <1>9, <1>11, <2>1
            <3> QED BY <1>10, <2>1, <3>1 DEF Image!Next
        <2>2. CASE /\ size \in {1, 2}
                   /\ \E b \in Bases : Puts(c, q, DOT, text_word_i(word, size),
                                            {Image!Fixup(b, word, size)})
            <3>1. PICK b \in Bases : Image!Put(Image!Bytes(word, size),
                                               {Image!Fixup(b, word, size)})
                BY <1>9, <1>11, <2>2
            <3> QED BY <1>10, <2>2, <3>1 DEF Image!Next
        <2>3. CASE /\ size = 4
                   /\ \E b \in Bases : Puts(c, q, DOT, text_word_i(0, 2) \o text_word_i(0, 2),
                                            {Image!Fixup(b, 0, 2)})
            <3>1. PICK b \in Bases : Image!Put(Image!Bytes(0, 2) \o Image!Bytes(0, 2),
                                               {Image!Fixup(b, 0, 2)})
                BY <1>9, <1>11, <1>12, <2>3
            <3> QED BY <3>1 DEF Image!Next
        <2> QED BY <1>4, <2>1, <2>2, <2>3
    <1> QED BY <1>8, <1>13

(* Assignments and changes of section change neither buffers nor records.  *)
LEMMA QuietStep ==
    ASSUME RInv, linked' = LinkedFrom(RecordsSoFar'), [WriterStep]_writerVars,
           UNCHANGED <<tr, file, last_dot_section>>, phase' = "closed" <=> phase = "closed"
    PROVE  RInv' /\ linked' = linked
    <1>1. IInv'
        BY StepGood DEF RInv
    <1>2. linked' = linked
        BY DEF RInv, RecordsSoFar
    <1>3. PICK p : p = Out
        OBVIOUS
    <1>4. Out' = p
        BY <1>3 DEF Out
    <1>5. phase' # "closed" => WellOut(Out)' /\ Sec(Out)' = last_dot_section'
        BY <1>3, <1>4 DEF RInv, WellOut, Sec, GoodOut, GoodBuffers, Shape, GoodFile
    <1> QED BY <1>1, <1>2, <1>5 DEF RInv

LEMMA CloseStep ==
    ASSUME RInv, linked' = LinkedFrom(RecordsSoFar'), EndModule
    PROVE  RInv' /\ UNCHANGED Image!vars
    <1> DEFINE f == file \o text_flush(tr)
               rec == [type |-> "ENDMOD"]
    <1>1. /\ phase # "closed" /\ phase' = "closed" /\ file' = Append(f, rec)
          /\ UNCHANGED <<current, pc>>
        BY DEF EndModule
    <1>2. IInv'
        BY StepGood DEF RInv, WriterStep
    <1>3. IsSeq(f)
        <2>1. IsSeq(file) /\ IsSeq(text_flush(tr))
            <3>1. IsSeq(file)
                BY DEF RInv, IInv, GoodFile
            <3>2. PICK r, s : text_flush(tr) = r \o s /\ IsSeq(r) /\ IsSeq(s)
                BY Short DEF text_flush
            <3> QED BY <3>1, <3>2, Joined
        <2> QED BY <2>1, Joined
    <1> HIDE DEF f, rec
    <1>4. Append(f, rec) = f \o <<rec>>
        BY <1>3 DEF IsSeq
    <1>5. rec.type \notin {"TEXT", "RLD"}
        BY DEF rec
    <1>6. LinkedFrom(f \o <<rec>>) = LinkedFrom(f)
        BY <1>3, <1>5, RecordLinked, LinkOther
    <1>7. linked' = linked
        BY <1>1, <1>4, <1>6 DEF RInv, RecordsSoFar, f
    <1> QED BY <1>1, <1>2, <1>7 DEF RInv, Image!vars

LEMMA ReadersStep ==
    ASSUME AccumHolds, RInv, [Next]_vars
    PROVE  RInv' /\ [Image!Next]_(Image!vars)
    <1>1. CASE /\ WriterStep /\ linked' = LinkedFrom(RecordsSoFar') /\ UNCHANGED readerVars
        <2>1. ASSUME write_globals PROVE RInv' /\ UNCHANGED Image!vars
            <3>1. /\ UNCHANGED <<tr, file, last_dot_section, current, pc>>
                  /\ phase' = "closed" <=> phase = "closed"
                BY <2>1 DEF write_globals
            <3> QED BY <1>1, <3>1, QuietStep DEF Image!vars
        <2>2. ASSUME NEW kind \in palette.kinds, NEW size \in Sizes(kind),
                     NEW word \in WordsOf(kind), NEW name \in Names(kind),
                     NEW expr \in ExprsOf(kind), Store(kind, size, word, name, expr)
              PROVE  RInv' /\ Image!Next
            BY <1>1, <2>2, StoreStep
        <2>3. ASSUME NEW a \in Origins, SetDot(a) PROVE RInv' /\ Image!Next
            <3>1. /\ UNCHANGED <<tr, file, last_dot_section, current>> /\ phase' = phase
                  /\ pc' = [pc EXCEPT ![current] = a]
                BY <2>3 DEF SetDot
            <3>2. RInv' /\ linked' = linked
                BY <1>1, <3>1, QuietStep
            <3>3. Image!Move(a) /\ a \in 0..Max(Origins)
                BY <3>1, <3>2, OriginBounded DEF Image!Move
            <3> QED BY <3>2, <3>3 DEF Image!Next
        <2>4. ASSUME NEW s \in ToSet(Sections), go_section(s) PROVE RInv' /\ Image!Next
            <3>1. /\ UNCHANGED <<tr, file, last_dot_section, pc>> /\ phase' = phase
                  /\ current' = s
                BY <2>4 DEF go_section
            <3>2. RInv' /\ linked' = linked
                BY <1>1, <3>1, QuietStep
            <3>3. Image!Enter(s)
                BY <3>1, <3>2 DEF Image!Enter
            <3> QED BY <3>2, <3>3 DEF Image!Next
        <2>5. ASSUME EndModule PROVE RInv' /\ UNCHANGED Image!vars
            BY <1>1, <2>5, CloseStep
        <2> QED BY <1>1, <2>1, <2>2, <2>3, <2>4, <2>5 DEF WriterStep
    <1>2. CASE \/ Damage \/ genblkram \/ dumpobj \/ UNCHANGED vars
        <2>1. UNCHANGED <<writerVars, linked>>
            BY <1>2 DEF Damage, genblkram, dumpobj, vars
        <2>2. UNCHANGED writerVars /\ UNCHANGED linked
            BY <2>1
        <2>3. /\ UNCHANGED <<tr, file, last_dot_section, current, pc>> /\ phase' = phase
            BY <2>2 DEF writerVars
        <2>4. linked' = LinkedFrom(RecordsSoFar')
            BY <2>2, <2>3 DEF RInv, RecordsSoFar
        <2>5. RInv'
            BY <2>2, <2>3, <2>4, QuietStep
        <2> QED BY <2>2, <2>3, <2>5 DEF Image!vars
    <1> QED BY <1>1, <1>2 DEF Next, WriterNext

(* For buffers of any size that the assumptions allow, any sections and    *)
(* any programs whose complex expressions fit in accum: a linker rebuilds  *)
(* from the records, after every step, what the program has stored, byte   *)
(* for byte, and each relocation at the byte it is meant for; a flush, a   *)
(* change of section or of "." loses and moves nothing.                    *)
THEOREM ImageImplemented == ASSUME AccumHolds PROVE Spec => ImplementsImage
    <1>1. Init => RInv /\ Image!Init
        BY ReadersStart
    <1>2. RInv /\ [Next]_vars => RInv' /\ [Image!Next]_(Image!vars)
        BY ReadersStep
    <1> QED BY <1>1, <1>2, PTL DEF Spec, ImplementsImage, Image!Spec
=============================================================================
