------------------------- MODULE ObjectRecords_proofs -------------------------
(***************************************************************************)
(* The invariants of the readers.  The records the writer makes can be     *)
(* read: what each reader makes of them, and of as many as are intact,     *)
(* follows what a linker makes of them, record by record.                  *)
(***************************************************************************)
EXTENDS ObjectReaders_proofs

(* Sequences put one after the other, by FlattenSeq.                       *)
Cat(s, t) == s \o t

Flattening == INSTANCE FoldFacts WITH Op <- Cat

LEMMA Flattened ==
    ASSUME NEW n \in Nat, NEW seqs, DOMAIN seqs = 1..n, Len(seqs) = n,
           n = 0 => seqs = <<>>, \A i \in 1..n : IsSeq(seqs[i])
    PROVE  \E g : Flattening!Chain(g, <<>>, seqs, n) /\ FlattenSeq(seqs) = g[n]
    <1>1. PICK g : Flattening!Chain(g, <<>>, seqs, n) /\ g[n] = Flattening!Fold(<<>>, seqs)
        BY Flattening!FoldChain
    <1>2. CASE n = 0
        <2>1. FlattenSeq(seqs) = <<>>
            BY <1>2 DEF FlattenSeq
        <2>2. g[n] = <<>>
            BY <1>1, <1>2 DEF Flattening!Chain
        <2> QED BY <1>1, <2>1, <2>2
    <1>3. CASE n # 0
        <2> DEFINE Flattens(f) ==
                      f = [i \in 1..n |-> IF i = 1 THEN seqs[i] ELSE f[i - 1] \o seqs[i]]
        <2>1. g[1] = seqs[1]
            <3>1. 1 \in 1..n /\ 1 - 1 = 0
                BY <1>3
            <3>2. g[1] = g[1 - 1] \o seqs[1] /\ g[0] = <<>>
                BY <1>1, <3>1 DEF Flattening!Chain, Cat
            <3>3. g[1] = <<>> \o seqs[1]
                BY <3>1, <3>2
            <3>4. <<>> \o seqs[1] = seqs[1]
                BY <3>1 DEF IsSeq
            <3> QED BY <3>3, <3>4
        <2>2. Flattens([i \in 1..n |-> g[i]])
            <3> DEFINE f == [i \in 1..n |-> g[i]]
            <3>1. ASSUME NEW i \in 1..n
                  PROVE  g[i] = IF i = 1 THEN seqs[i] ELSE f[i - 1] \o seqs[i]
                <4>1. CASE i = 1
                    BY <2>1, <4>1
                <4>2. CASE i # 1
                    <5>1. i - 1 \in 1..n
                        BY <4>2
                    <5> QED BY <1>1, <4>2, <5>1 DEF Flattening!Chain, Cat
                <4> QED BY <4>1, <4>2
            <3> QED BY <3>1
        <2>3. Flattens(CHOOSE f : Flattens(f))
            <3>1. \E f : Flattens(f)
                BY <2>2
            <3> HIDE DEF Flattens
            <3> QED BY <3>1
        <2>4. FlattenSeq(seqs) = (CHOOSE f : Flattens(f))[n]
            <3>1. Len(seqs) # 0
                BY <1>3, SMTT(60)
            <3> QED BY <3>1, Zenon DEF FlattenSeq
        <2>5. PICK f : Flattens(f) /\ FlattenSeq(seqs) = f[n]
            BY <2>3, <2>4
        <2> DEFINE h == [i \in 0..n |-> IF i = 0 THEN <<>> ELSE f[i]]
        <2>6. Flattening!Chain(h, <<>>, seqs, n)
            <3>1. h[0] = <<>>
                OBVIOUS
            <3>2. ASSUME NEW i \in 1..n PROVE h[i] = h[i - 1] \o seqs[i]
                <4>1. CASE i = 1
                    <5>1. i - 1 = 0 /\ h[i] = seqs[i]
                        BY <2>5, <4>1
                    <5>2. <<>> \o seqs[i] = seqs[i]
                        BY DEF IsSeq
                    <5> QED BY <3>1, <5>1, <5>2
                <4>2. CASE i # 1
                    <5>1. i - 1 \in 1..n /\ i - 1 # 0 /\ i # 0
                        BY <4>2
                    <5>2. f[i] = f[i - 1] \o seqs[i]
                        BY <2>5, <4>2
                    <5> QED BY <5>1, <5>2
                <4> QED BY <4>1, <4>2
            <3> HIDE DEF h
            <3> QED BY <3>1, <3>2 DEF Flattening!Chain, Cat
        <2>7. h[n] = f[n]
            BY <1>3
        <2> HIDE DEF h, Flattens
        <2> QED BY <2>5, <2>6, <2>7
    <1> QED BY <1>2, <1>3

-----------------------------------------------------------------------------
Gsd == INSTANCE FoldFacts WITH Op <- gsd_entry

LEMMA GsdIsFold == \A r, s : FoldLeft(gsd_entry, r, s) = Gsd!Fold(r, s)
    BY DEF FoldLeft, MapThenFoldSet, Max,
           Gsd!Fold, Gsd!FoldLeft, Gsd!MapThenFoldSet, Gsd!Max

(* An entry, and some entries, of a directory.                             *)
GsdTyped(e) == e.type = "XFER" => e.value \in Nat

LEMMA OneEntryKept ==
    ASSUME NEW r, NEW e
    PROVE  /\ Gsd!Kept({"xferad", "wrong", "psects"}, r, gsd_entry(r, e))
           /\ e.type = "GLOBAL" => Gsd!Kept({"wrong"}, r, gsd_entry(r, e))
           /\ e.type = "XFER" => Gsd!Kept({"xferad"}, r, gsd_entry(r, e))
           /\ e.type = "PSECT" => Gsd!Kept({"psects"}, r, gsd_entry(r, e))
           /\ e.type \notin {"XFER", "GLOBAL", "PSECT"} => gsd_entry(r, e) = r
    <1>1. CASE e.type = "XFER"
        BY <1>1 DEF gsd_entry, Gsd!Kept
    <1>2. CASE e.type = "GLOBAL"
        <2>1. PICK w : w = r.wrong + 1
            OBVIOUS
        <2>2. gsd_entry(r, e) = [r EXCEPT !.wrong = w]
            BY <1>2, <2>1 DEF gsd_entry
        <2> QED BY <1>2, <2>2 DEF Gsd!Kept
    <1>3. CASE e.type = "PSECT"
        <2>1. PICK p : p = Append(r.psects, e.name)
            OBVIOUS
        <2>2. gsd_entry(r, e) = [r EXCEPT !.psects = p]
            BY <1>3, <2>1 DEF gsd_entry
        <2> QED BY <1>3, <2>2 DEF Gsd!Kept
    <1>4. CASE e.type \notin {"XFER", "GLOBAL", "PSECT"}
        BY <1>4 DEF gsd_entry, Gsd!Kept
    <1> QED BY <1>1, <1>2, <1>3, <1>4

LEMMA EntriesKept ==
    ASSUME NEW r, NEW s, IsSeq(s)
    PROVE  /\ Gsd!Kept({"xferad", "wrong", "psects"}, r, Gsd!Fold(r, s))
           /\ (\A i \in DOMAIN s : s[i].type = "GLOBAL") => Gsd!Kept({"wrong"}, r, Gsd!Fold(r, s))
    <1>1. Len(s) \in Nat /\ DOMAIN s = 1..Len(s)
        BY Joined
    <1>2. Gsd!Keeps({"xferad", "wrong", "psects"}, s)
        BY OneEntryKept DEF Gsd!Keeps
    <1>3. (\A i \in DOMAIN s : s[i].type = "GLOBAL") => Gsd!Keeps({"wrong"}, s)
        BY OneEntryKept DEF Gsd!Keeps
    <1> QED BY <1>1, <1>2, <1>3, Gsd!FoldKept

(* One entry after some.                                                   *)
LEMMA GsdThen ==
    ASSUME NEW r, NEW s, IsSeq(s), NEW t, IsSeq(t)
    PROVE  Gsd!Fold(r, s \o t) = Gsd!Fold(Gsd!Fold(r, s), t)
    <1>1. Gsd!Joins(s \o t, s, t)
        <2>1. /\ Len(s) \in Nat /\ Len(t) \in Nat
              /\ DOMAIN s = 1..Len(s) /\ DOMAIN t = 1..Len(t)
              /\ DOMAIN (s \o t) = 1..(Len(s) + Len(t))
              /\ \A i \in 1..Len(s) : (s \o t)[i] = s[i]
              /\ \A i \in 1..Len(t) : (s \o t)[Len(s) + i] = t[i]
            BY Joined
        <2> QED BY <2>1 DEF Gsd!Joins
    <1> QED BY <1>1, Gsd!FoldJoined

LEMMA GsdOne ==
    ASSUME NEW r, NEW e
    PROVE  Gsd!Fold(r, <<e>>) = gsd_entry(r, e)
    <1>1. DOMAIN <<e>> = {1} /\ <<e>>[1] = e
        BY Short
    <1> QED BY <1>1, Gsd!FoldOne

(* The psects of an object are those of its entries, in their order.       *)
LEMMA PsectRead ==
    ASSUME NEW r, "psects" \in DOMAIN r, NEW e
    PROVE  /\ e.type = "PSECT" => gsd_entry(r, e).psects = Append(r.psects, e.name)
           /\ e.type # "PSECT" => gsd_entry(r, e).psects = r.psects
    <1>1. CASE e.type = "PSECT"
        <2>1. PICK p : p = Append(r.psects, e.name)
            OBVIOUS
        <2>2. gsd_entry(r, e) = [r EXCEPT !.psects = p]
            BY <1>1, <2>1 DEF gsd_entry
        <2> QED BY <1>1, <2>1, <2>2
    <1>2. CASE e.type # "PSECT"
        BY <1>2, OneEntryKept DEF Gsd!Kept
    <1> QED BY <1>1, <1>2

(* The entries a program's directory is made of.                           *)
DirEntries(globals) == GsdEntries(globals, Transfer)

GlobalsOf(globals, s) ==
    [i \in DOMAIN globals |-> IF globals[i].section = s
        THEN <<GsdEntry("GLOBAL", globals[i].name, 0)>> ELSE <<>>]

SectionEntries(globals, s) ==
    <<GsdEntry("PSECT", s, 0)>> \o FlattenSeq(GlobalsOf(globals, s))

SectionsEntries(globals) == [k \in DOMAIN Sections |-> SectionEntries(globals, Sections[k])]

LEMMA DirParts ==
    \A globals : DirEntries(globals) =
        (<<GsdEntry("MODNAME", NoSection, 0)>> \o FlattenSeq(SectionsEntries(globals)))
        \o <<GsdEntry("XFER", Sections[1], Transfer)>>
    BY DEF DirEntries, GsdEntries, SectionsEntries, SectionEntries, GlobalsOf

LEMMA SomeGlobals ==
    ASSUME NEW globals, globals \in Seq(ToSet(globals)), NEW s
    PROVE  LET es == FlattenSeq(GlobalsOf(globals, s))
           IN IsSeq(es) /\ \A i \in DOMAIN es : es[i].type = "GLOBAL"
    <1> DEFINE gs == GlobalsOf(globals, s)
               n == Len(globals)
               Fine(es) == IsSeq(es) /\ \A i \in DOMAIN es : es[i].type = "GLOBAL"
    <1>1. n \in Nat /\ DOMAIN globals = 1..n
        OBVIOUS
    <1>2. DOMAIN gs = 1..n /\ Len(gs) = n
        BY <1>1 DEF GlobalsOf
    <1>3. n = 0 => gs = <<>>
        BY <1>1 DEF GlobalsOf
    <1>4. ASSUME NEW i \in 1..n PROVE Fine(gs[i])
        <2>1. PICK e : e = GsdEntry("GLOBAL", globals[i].name, 0)
            OBVIOUS
        <2>2. gs[i] = <<e>> \/ gs[i] = <<>>
            BY <1>1, <2>1 DEF GlobalsOf
        <2>3. e.type = "GLOBAL"
            BY <2>1 DEF GsdEntry
        <2>4. Fine(<<e>>) /\ Fine(<<>>)
            BY <2>3, Short
        <2> QED BY <2>2, <2>4
    <1> HIDE DEF gs, n
    <1>5. PICK g : Flattening!Chain(g, <<>>, gs, n) /\ FlattenSeq(gs) = g[n]
        BY <1>1, <1>2, <1>3, <1>4, Flattened
    <1> DEFINE K == {k \in Nat : k <= n => Fine(g[k])}
    <1>6. 0 \in K
        BY <1>5, Short DEF Flattening!Chain
    <1>7. ASSUME NEW k \in Nat, k \in K PROVE k + 1 \in K
        <2>1. SUFFICES ASSUME k + 1 <= n PROVE Fine(g[k + 1])
            OBVIOUS
        <2>2. k + 1 \in 1..n /\ (k + 1) - 1 = k /\ Fine(g[k])
            BY <1>1, <1>7, <2>1
        <2>3. g[k + 1] = g[k] \o gs[k + 1] /\ Fine(gs[k + 1])
            BY <1>4, <1>5, <2>2 DEF Flattening!Chain, Cat
        <2>4. PICK a, b : a = g[k] /\ b = gs[k + 1]
            OBVIOUS
        <2>5. /\ IsSeq(a \o b) /\ DOMAIN (a \o b) = 1..(Len(a) + Len(b))
              /\ Len(a) \in Nat /\ Len(b) \in Nat /\ DOMAIN a = 1..Len(a) /\ DOMAIN b = 1..Len(b)
              /\ \A i \in 1..Len(a) : (a \o b)[i] = a[i]
              /\ \A i \in 1..Len(b) : (a \o b)[Len(a) + i] = b[i]
            <3>1. IsSeq(a) /\ IsSeq(b)
                BY <2>2, <2>3, <2>4
            <3> QED BY <3>1, Joined
        <2>6. ASSUME NEW i \in 1..(Len(a) + Len(b)) PROVE (a \o b)[i].type = "GLOBAL"
            <3>1. CASE i \in 1..Len(a)
                BY <2>2, <2>4, <2>5, <3>1
            <3>2. CASE i \notin 1..Len(a)
                <4>1. i - Len(a) \in 1..Len(b) /\ i = Len(a) + (i - Len(a))
                    BY <2>5, <3>2
                <4> QED BY <2>3, <2>4, <2>5, <4>1, SMTT(60)
            <3> QED BY <3>1, <3>2
        <2> QED BY <2>3, <2>4, <2>5, <2>6, ZenonT(60)
    <1> HIDE DEF K
    <1>8. n \in K
        BY <1>1, <1>6, <1>7, Gsd!SetInduction
    <1> QED BY <1>1, <1>5, <1>8 DEF K, gs

-----------------------------------------------------------------------------
EntriesTyped(s) == IsSeq(s) /\ \A i \in DOMAIN s : GsdTyped(s[i])

LEMMA TypedJoined ==
    ASSUME NEW s, EntriesTyped(s), NEW t, EntriesTyped(t)
    PROVE  EntriesTyped(s \o t)
    <1>1. IsSeq(s) /\ IsSeq(t)
        BY DEF EntriesTyped
    <1>2. /\ IsSeq(s \o t) /\ DOMAIN (s \o t) = 1..(Len(s) + Len(t))
          /\ Len(s) \in Nat /\ Len(t) \in Nat /\ DOMAIN s = 1..Len(s) /\ DOMAIN t = 1..Len(t)
          /\ \A i \in 1..Len(s) : (s \o t)[i] = s[i]
          /\ \A i \in 1..Len(t) : (s \o t)[Len(s) + i] = t[i]
        BY <1>1, Joined
    <1>3. ASSUME NEW i \in 1..(Len(s) + Len(t)) PROVE GsdTyped((s \o t)[i])
        <2>1. CASE i \in 1..Len(s)
            BY <1>2, <2>1 DEF EntriesTyped
        <2>2. CASE i \notin 1..Len(s)
            <3>1. PICK j \in 1..Len(t) : i = Len(s) + j
                <4>1. i - Len(s) \in 1..Len(t) /\ i = Len(s) + (i - Len(s))
                    BY <1>2, <2>2
                <4> QED BY <4>1
            <3> QED BY <1>2, <3>1 DEF EntriesTyped
        <2> QED BY <2>1, <2>2
    <1> QED BY <1>2, <1>3 DEF EntriesTyped

LEMMA TypedOne ==
    ASSUME NEW e, GsdTyped(e)
    PROVE  EntriesTyped(<<e>>)
    BY Short DEF EntriesTyped

(* The entries of a section: the reader numbers the section.               *)
LEMMA SectionRead ==
    ASSUME NEW globals, globals \in Seq(ToSet(globals)), NEW s,
           NEW r, "psects" \in DOMAIN r
    PROVE  LET es == SectionEntries(globals, s)
           IN /\ EntriesTyped(es)
              /\ Gsd!Fold(r, es).psects = Append(r.psects, s)
    <1>1. PICK gs : gs = FlattenSeq(GlobalsOf(globals, s))
        OBVIOUS
    <1>2. IsSeq(gs) /\ \A i \in DOMAIN gs : gs[i].type = "GLOBAL"
        BY <1>1, SomeGlobals
    <1>3. PICK e : e = GsdEntry("PSECT", s, 0)
        OBVIOUS
    <1>4. e.type = "PSECT" /\ e.name = s
        BY <1>3 DEF GsdEntry
    <1>5. SectionEntries(globals, s) = <<e>> \o gs
        BY <1>1, <1>3 DEF SectionEntries
    <1>6. EntriesTyped(<<e>>) /\ EntriesTyped(gs)
        BY <1>2, <1>4, TypedOne DEF EntriesTyped, GsdTyped
    <1>7. EntriesTyped(<<e>> \o gs)
        BY <1>6, TypedJoined
    <1>8. Gsd!Fold(r, <<e>> \o gs) = Gsd!Fold(gsd_entry(r, e), gs)
        BY <1>2, Short, GsdThen, GsdOne
    <1>9. PICK q : q = gsd_entry(r, e)
        OBVIOUS
    <1>10. q.psects = Append(r.psects, s) /\ "psects" \in DOMAIN q
        <2>1. q.psects = Append(r.psects, s)
            BY <1>4, <1>9, PsectRead
        <2>2. DOMAIN q = DOMAIN r
            BY <1>9, OneEntryKept DEF Gsd!Kept
        <2> QED BY <2>1, <2>2
    <1>11. Gsd!Fold(q, gs).psects = q.psects
        BY <1>2, <1>10, EntriesKept DEF Gsd!Kept
    <1> QED BY <1>5, <1>7, <1>8, <1>9, <1>10, <1>11

(* The entries of all sections: they are numbered in their order.          *)
LEMMA SectionsRead ==
    ASSUME NEW globals, globals \in Seq(ToSet(globals)),
           NEW r, "psects" \in DOMAIN r, r.psects = <<>>
    PROVE  LET es == FlattenSeq(SectionsEntries(globals))
           IN /\ EntriesTyped(es)
              /\ Gsd!Fold(r, es).psects = Sections
    <1> DEFINE n == Len(Sections)
               ss == SectionsEntries(globals)
    <1>1. n \in Nat /\ DOMAIN Sections = 1..n /\ n # 0 /\ Sections \in Seq(ToSet(Sections))
        BY SectionsAssumption
    <1>2. DOMAIN ss = 1..n /\ Len(ss) = n
        BY <1>1 DEF SectionsEntries
    <1>3. ASSUME NEW k \in 1..n, NEW q, "psects" \in DOMAIN q
          PROVE  EntriesTyped(ss[k]) /\ Gsd!Fold(q, ss[k]).psects = Append(q.psects, Sections[k])
        <2>1. ss[k] = SectionEntries(globals, Sections[k])
            BY <1>1 DEF SectionsEntries
        <2> QED BY <1>3, <2>1, SectionRead
    <1>4. ASSUME NEW k \in 1..n PROVE IsSeq(ss[k])
        BY <1>3 DEF EntriesTyped
    <1> HIDE DEF n, ss
    <1>5. PICK g : Flattening!Chain(g, <<>>, ss, n) /\ FlattenSeq(ss) = g[n]
        BY <1>1, <1>2, <1>4, Flattened
    <1> DEFINE Read(k) == [i \in 1..k |-> Sections[i]]
               K == {k \in Nat : k <= n => /\ EntriesTyped(g[k])
                                           /\ Gsd!Fold(r, g[k]).psects = Read(k)}
    <1>6. 0 \in K
        <2>1. g[0] = <<>> /\ DOMAIN <<>> = {}
            BY <1>5, Short DEF Flattening!Chain
        <2>2. EntriesTyped(<<>>)
            BY <2>1, Short DEF EntriesTyped
        <2>3. Gsd!Fold(r, <<>>) = r
            BY <2>1, Gsd!FoldEmpty
        <2>4. Read(0) = <<>>
            OBVIOUS
        <2> QED BY <2>1, <2>2, <2>3, <2>4
    <1>7. ASSUME NEW k \in Nat, k \in K PROVE k + 1 \in K
        <2>1. SUFFICES ASSUME k + 1 <= n
                       PROVE  /\ EntriesTyped(g[k + 1])
                              /\ Gsd!Fold(r, g[k + 1]).psects = Read(k + 1)
            OBVIOUS
        <2>2. /\ k + 1 \in 1..n /\ (k + 1) - 1 = k /\ EntriesTyped(g[k])
              /\ Gsd!Fold(r, g[k]).psects = Read(k)
            BY <1>1, <1>7, <2>1
        <2> HIDE DEF K, Read
        <2>3. g[k + 1] = g[k] \o ss[k + 1] /\ EntriesTyped(ss[k + 1])
            BY <1>3, <1>5, <2>2 DEF Flattening!Chain, Cat
        <2>4. PICK q : q = Gsd!Fold(r, g[k])
            OBVIOUS
        <2>5. "psects" \in DOMAIN q
            BY <2>2, <2>4, EntriesKept DEF Gsd!Kept, EntriesTyped
        <2>6. Gsd!Fold(r, g[k + 1]) = Gsd!Fold(q, ss[k + 1])
            BY <2>2, <2>3, <2>4, GsdThen DEF EntriesTyped
        <2>7. Gsd!Fold(r, g[k + 1]).psects = Append(Read(k), Sections[k + 1])
            BY <1>3, <2>2, <2>4, <2>5, <2>6
        <2>8. Append(Read(k), Sections[k + 1]) = Read(k + 1)
            <3>1. \A i \in 1..(k + 1) : Sections[i] \in ToSet(Sections)
                BY <1>1, <2>2 DEF ToSet
            <3>2. Read(k) \in Seq(ToSet(Sections)) /\ Len(Read(k)) = k
                BY <3>1 DEF Read
            <3> QED BY <3>1, <3>2 DEF Read
        <2> QED BY <2>2, <2>3, <2>7, <2>8, TypedJoined
    <1> HIDE DEF K
    <1>8. n \in K
        BY <1>1, <1>6, <1>7, Gsd!SetInduction
    <1>9. Read(n) = Sections
        BY <1>1 DEF n
    <1> HIDE DEF Read
    <1>10. EntriesTyped(g[n]) /\ Gsd!Fold(r, g[n]).psects = Read(n)
        BY <1>1, <1>8 DEF K
    <1> QED BY <1>5, <1>9, <1>10 DEF ss

LEMMA DirectoryRead ==
    ASSUME NEW globals, globals \in Seq(ToSet(globals)),
           NEW r, "psects" \in DOMAIN r, r.psects = <<>>
    PROVE  /\ EntriesTyped(DirEntries(globals))
           /\ Gsd!Fold(r, DirEntries(globals)).psects = Sections
    <1>1. PICK m : m = GsdEntry("MODNAME", NoSection, 0)
        OBVIOUS
    <1>2. PICK x : x = GsdEntry("XFER", Sections[1], Transfer)
        OBVIOUS
    <1>3. PICK es : es = FlattenSeq(SectionsEntries(globals))
        OBVIOUS
    <1>4. DirEntries(globals) = (<<m>> \o es) \o <<x>>
        BY <1>1, <1>2, <1>3, DirParts
    <1>5. m.type = "MODNAME" /\ x.type = "XFER" /\ x.value \in Nat
        BY <1>1, <1>2, TransferAssumption DEF GsdEntry
    <1>6. EntriesTyped(<<m>>) /\ EntriesTyped(<<x>>)
        BY <1>5, TypedOne DEF GsdTyped
    <1>7. EntriesTyped(es) /\ Gsd!Fold(r, es).psects = Sections
        BY <1>3, SectionsRead
    <1>8. EntriesTyped(<<m>> \o es)
        BY <1>6, <1>7, TypedJoined
    <1>9. EntriesTyped((<<m>> \o es) \o <<x>>)
        BY <1>6, <1>8, TypedJoined
    <1>10. gsd_entry(r, m) = r
        BY <1>5, OneEntryKept
    <1>11. Gsd!Fold(r, <<m>> \o es) = Gsd!Fold(r, es)
        BY <1>6, <1>7, <1>10, GsdThen, GsdOne DEF EntriesTyped
    <1>12. PICK q : q = Gsd!Fold(r, <<m>> \o es)
        OBVIOUS
    <1>13. q.psects = Sections /\ "psects" \in DOMAIN q
        <2>1. DOMAIN q = DOMAIN r
            BY <1>7, <1>11, <1>12, EntriesKept DEF EntriesTyped, Gsd!Kept
        <2> QED BY <1>7, <1>11, <1>12, <2>1
    <1>14. Gsd!Fold(r, (<<m>> \o es) \o <<x>>) = gsd_entry(q, x)
        BY <1>6, <1>8, <1>12, GsdThen, GsdOne DEF EntriesTyped
    <1>15. gsd_entry(q, x).psects = Sections
        BY <1>5, <1>13, PsectRead
    <1> QED BY <1>4, <1>9, <1>14, <1>15

-----------------------------------------------------------------------------
(* The reading of directory records: of nothing but their entries.         *)
DirRecord(r, rec) == IF rec.type = "GSD" THEN Gsd!Fold(r, rec.entries) ELSE r

Dir     == INSTANCE FoldFacts WITH Op <- DirRecord
Writing == INSTANCE FoldFacts WITH Op <- gsd_write

LEMMA WritingIsFold == \A g, s : FoldLeft(gsd_write, g, s) = Writing!Fold(g, s)
    BY DEF FoldLeft, MapThenFoldSet, Max,
           Writing!Fold, Writing!FoldLeft, Writing!MapThenFoldSet, Writing!Max

DirRecordOk(rec) ==
    /\ rec.type \in {"GSD", "ENDGSD"}
    /\ rec.type = "GSD" => EntriesTyped(rec.entries) /\ 2 + 8 * Len(rec.entries) <= GsdMax

DirShape(d) == IsSeq(d) /\ \A j \in DOMAIN d : DirRecordOk(d[j])

LEMMA DirAppend ==
    ASSUME NEW d, DirShape(d), NEW rec, DirRecordOk(rec)
    PROVE  /\ DirShape(Append(d, rec))
           /\ \A r : Dir!Fold(r, Append(d, rec)) = DirRecord(Dir!Fold(r, d), rec)
    <1>1. IsSeq(d) /\ IsSeq(<<rec>>) /\ Len(<<rec>>) = 1 /\ <<rec>>[1] = rec
          /\ DOMAIN <<rec>> = {1} /\ DOMAIN <<rec>> = 1..1 /\ 1 \in Nat
        BY Short DEF DirShape
    <1>2. Append(d, rec) = d \o <<rec>>
        BY <1>1 DEF IsSeq
    <1>3. /\ IsSeq(d \o <<rec>>) /\ Len(d) \in Nat /\ DOMAIN d = 1..Len(d)
          /\ DOMAIN (d \o <<rec>>) = 1..(Len(d) + 1)
          /\ \A i \in 1..Len(d) : (d \o <<rec>>)[i] = d[i]
          /\ \A i \in 1..1 : (d \o <<rec>>)[Len(d) + i] = <<rec>>[i]
        BY <1>1, Joined, SMTT(60)
    <1>4. Dir!Joins(d \o <<rec>>, d, <<rec>>)
        BY <1>1, <1>3 DEF Dir!Joins
    <1>5. ASSUME NEW r
          PROVE  Dir!Fold(r, d \o <<rec>>) = DirRecord(Dir!Fold(r, d), rec)
        <2>1. Dir!Fold(r, d \o <<rec>>) = Dir!Fold(Dir!Fold(r, d), <<rec>>)
            BY <1>4, Dir!FoldJoined
        <2>2. Dir!Fold(Dir!Fold(r, d), <<rec>>) = DirRecord(Dir!Fold(r, d), <<rec>>[1])
            BY <1>1, Dir!FoldOne
        <2> QED BY <1>1, <2>1, <2>2
    <1>6. ASSUME NEW j \in 1..(Len(d) + 1) PROVE DirRecordOk((d \o <<rec>>)[j])
        <2>1. CASE j = Len(d) + 1
            BY <1>1, <1>3, <2>1
        <2>2. CASE j # Len(d) + 1
            <3>1. j \in 1..Len(d)
                BY <1>3, <2>2
            <3> QED BY <1>3, <3>1 DEF DirShape
        <2> QED BY <2>1, <2>2
    <1>7. DirShape(d \o <<rec>>)
        BY <1>3, <1>6 DEF DirShape
    <1> QED BY <1>2, <1>5, <1>7

(* A directory being written: what a reader makes of its records and the   *)
(* entries still in the buffer is what it makes of the entries.            *)
BeingWritten(r, g, c) ==
    /\ DirShape(g.file) /\ EntriesTyped(g.buf) /\ 2 + 8 * Len(g.buf) <= GsdMax
    /\ g = [buf |-> g.buf, file |-> g.file]
    /\ Gsd!Fold(Dir!Fold(r, g.file), g.buf) = c

LEMMA DirFlush ==
    ASSUME NEW r, NEW g, NEW c, BeingWritten(r, g, c)
    PROVE  BeingWritten(r, gsd_flush(g), c) /\ gsd_flush(g).buf = <<>>
    <1>1. CASE g.buf = <<>>
        BY <1>1 DEF gsd_flush
    <1>2. CASE g.buf # <<>>
        <2>1. PICK rec : rec = [type |-> "GSD", entries |-> g.buf]
            OBVIOUS
        <2>2. rec.type = "GSD" /\ rec.entries = g.buf
            BY <2>1
        <2>3. PICK d : d = Append(g.file, rec)
            OBVIOUS
        <2>4. DirRecordOk(rec)
            BY <2>2 DEF DirRecordOk, BeingWritten
        <2>5. DirShape(d) /\ Dir!Fold(r, d) = DirRecord(Dir!Fold(r, g.file), rec)
            BY <2>3, <2>4, DirAppend DEF BeingWritten
        <2>6. Dir!Fold(r, d) = c
            BY <2>2, <2>5 DEF DirRecord, BeingWritten
        <2>7. gsd_flush(g) = [buf |-> <<>>, file |-> d]
            BY <1>2, <2>1, <2>3 DEF gsd_flush
        <2>8. PICK q : q = gsd_flush(g)
            OBVIOUS
        <2>9. q.buf = <<>> /\ q.file = d /\ q = [buf |-> q.buf, file |-> q.file]
            BY <2>7, <2>8
        <2>10. /\ EntriesTyped(<<>>) /\ Len(<<>>) = 0
               /\ Gsd!Fold(c, <<>>) = c
            <3>1. IsSeq(<<>>) /\ Len(<<>>) = 0 /\ DOMAIN <<>> = {}
                BY Short
            <3> QED BY <3>1, Gsd!FoldEmpty DEF EntriesTyped
        <2>11. 2 + 8 * Len(<<>>) <= GsdMax
            BY <2>10, GsdAssumption
        <2>12. BeingWritten(r, q, c)
            BY <2>5, <2>6, <2>9, <2>10, <2>11 DEF BeingWritten
        <2> QED BY <2>8, <2>9, <2>12
    <1> QED BY <1>1, <1>2

LEMMA DirWrite ==
    ASSUME NEW r, NEW g, NEW c, BeingWritten(r, g, c), NEW e, GsdTyped(e)
    PROVE  BeingWritten(r, gsd_write(g, e), gsd_entry(c, e))
    <1>1. Len(g.buf) \in Nat
        BY Joined DEF BeingWritten, EntriesTyped
    <1>2. PICK h : /\ BeingWritten(r, h, c) /\ 2 + 8 * Len(h.buf) <= GsdMax - 8
                   /\ gsd_write(g, e) = [h EXCEPT !.buf = Append(h.buf, e)]
        <2>1. CASE gsd_offset(g) > GsdMax - 8
            <3>1. PICK h : h = gsd_flush(g)
                OBVIOUS
            <3>2. BeingWritten(r, h, c) /\ h.buf = <<>>
                BY <3>1, DirFlush
            <3>3. 2 + 8 * Len(h.buf) <= GsdMax - 8
                BY <3>2, Short, GsdAssumption
            <3>4. gsd_write(g, e) = [h EXCEPT !.buf = Append(h.buf, e)]
                BY <2>1, <3>1 DEF gsd_write
            <3> QED BY <3>2, <3>3, <3>4
        <2>2. CASE ~(gsd_offset(g) > GsdMax - 8)
            <3>1. 2 + 8 * Len(g.buf) <= GsdMax - 8
                BY <1>1, <2>2, GsdAssumption DEF gsd_offset
            <3>2. gsd_write(g, e) = [g EXCEPT !.buf = Append(g.buf, e)]
                BY <2>2 DEF gsd_write
            <3> QED BY <3>1, <3>2
        <2> QED BY <2>1, <2>2
    <1>3. EntriesTyped(h.buf) /\ IsSeq(h.buf) /\ EntriesTyped(<<e>>) /\ IsSeq(<<e>>)
          /\ Len(<<e>>) = 1
        BY <1>2, TypedOne, Short DEF BeingWritten, EntriesTyped
    <1>4. PICK b : b = Append(h.buf, e)
        OBVIOUS
    <1>5. b = h.buf \o <<e>>
        BY <1>3, <1>4 DEF IsSeq
    <1>6. EntriesTyped(b) /\ Len(b) = Len(h.buf) + 1 /\ Len(h.buf) \in Nat
        BY <1>3, <1>5, TypedJoined, Joined
    <1>7. 2 + 8 * Len(b) <= GsdMax
        BY <1>2, <1>6, GsdAssumption
    <1>8. PICK q : q = gsd_write(g, e)
        OBVIOUS
    <1>9. q.buf = b /\ q.file = h.file /\ q = [buf |-> q.buf, file |-> q.file]
        <2>1. h = [buf |-> h.buf, file |-> h.file]
            BY <1>2 DEF BeingWritten
        <2>2. q = [h EXCEPT !.buf = b]
            BY <1>2, <1>4, <1>8
        <2> QED BY <2>1, <2>2
    <1>10. Gsd!Fold(Dir!Fold(r, h.file), b) = gsd_entry(c, e)
        <2>1. Gsd!Fold(Dir!Fold(r, h.file), b)
                 = gsd_entry(Gsd!Fold(Dir!Fold(r, h.file), h.buf), e)
            BY <1>3, <1>5, GsdThen, GsdOne
        <2> QED BY <1>2, <2>1 DEF BeingWritten
    <1>11. BeingWritten(r, q, gsd_entry(c, e))
        BY <1>2, <1>6, <1>7, <1>9, <1>10 DEF BeingWritten
    <1> QED BY <1>8, <1>11

(* The directory that write_globals leaves.                                *)
Directory(globals) ==
    Append(gsd_flush(FoldLeft(gsd_write, [buf |-> <<>>, file |-> <<>>],
                              DirEntries(globals))).file,
           [type |-> "ENDGSD"])

LEMMA DirectoryWritten ==
    ASSUME NEW globals, globals \in Seq(ToSet(globals)),
           NEW r, "psects" \in DOMAIN r, r.psects = <<>>
    PROVE  /\ DirShape(Directory(globals))
           /\ Dir!Fold(r, Directory(globals)).psects = Sections
    <1> DEFINE es == DirEntries(globals)
               n == Len(es)
               start == [buf |-> <<>>, file |-> <<>>]
    <1>1. EntriesTyped(es) /\ Gsd!Fold(r, es).psects = Sections
        BY DirectoryRead
    <1>2. n \in Nat /\ DOMAIN es = 1..n
        BY <1>1, Joined DEF EntriesTyped
    <1> HIDE DEF es, n
    <1>3. PICK h : Writing!Chain(h, start, es, n) /\ h[n] = Writing!Fold(start, es)
        BY <1>2, Writing!FoldChain
    <1>4. PICK c : Gsd!Chain(c, r, es, n) /\ c[n] = Gsd!Fold(r, es)
        BY <1>2, Gsd!FoldChain
    <1> DEFINE K == {k \in Nat : k <= n => BeingWritten(r, h[k], c[k])}
    <1>5. 0 \in K
        <2>1. h[0] = start /\ c[0] = r
            BY <1>3, <1>4 DEF Writing!Chain, Gsd!Chain
        <2>2. IsSeq(<<>>) /\ Len(<<>>) = 0 /\ DOMAIN <<>> = {}
            BY Short
        <2>3. Dir!Fold(r, <<>>) = r /\ Gsd!Fold(r, <<>>) = r
            BY <2>2, Dir!FoldEmpty, Gsd!FoldEmpty
        <2>4. DirShape(<<>>) /\ EntriesTyped(<<>>)
            BY <2>2 DEF DirShape, EntriesTyped
        <2>5. 2 + 8 * Len(<<>>) <= GsdMax
            BY <2>2, GsdAssumption
        <2>6. start.buf = <<>> /\ start.file = <<>>
            OBVIOUS
        <2>7. BeingWritten(r, start, r)
            BY <2>3, <2>4, <2>5, <2>6 DEF BeingWritten
        <2> QED BY <2>1, <2>7
    <1>6. ASSUME NEW k \in Nat, k \in K PROVE k + 1 \in K
        <2>1. SUFFICES ASSUME k + 1 <= n PROVE BeingWritten(r, h[k + 1], c[k + 1])
            OBVIOUS
        <2>2. k + 1 \in 1..n /\ (k + 1) - 1 = k /\ BeingWritten(r, h[k], c[k])
            BY <1>2, <1>6, <2>1
        <2>3. h[k + 1] = gsd_write(h[k], es[k + 1]) /\ c[k + 1] = gsd_entry(c[k], es[k + 1])
            BY <1>3, <1>4, <2>2 DEF Writing!Chain, Gsd!Chain
        <2>4. GsdTyped(es[k + 1])
            BY <1>1, <1>2, <2>2 DEF EntriesTyped
        <2> QED BY <2>2, <2>3, <2>4, DirWrite
    <1> HIDE DEF K
    <1>7. n \in K
        BY <1>2, <1>5, <1>6, Gsd!SetInduction
    <1>8. BeingWritten(r, h[n], c[n])
        BY <1>2, <1>7 DEF K
    <1>9. PICK q : q = gsd_flush(h[n])
        OBVIOUS
    <1>10. BeingWritten(r, q, c[n]) /\ q.buf = <<>>
        BY <1>8, <1>9, DirFlush
    <1>11. Dir!Fold(r, q.file) = c[n] /\ DirShape(q.file)
        <2>1. DOMAIN <<>> = {}
            BY Short
        <2> QED BY <1>10, <2>1, Gsd!FoldEmpty DEF BeingWritten
    <1>12. PICK rec : rec = [type |-> "ENDGSD"]
        OBVIOUS
    <1>13. rec.type = "ENDGSD" /\ DirRecordOk(rec)
        BY <1>12 DEF DirRecordOk
    <1>14. /\ DirShape(Append(q.file, rec))
           /\ Dir!Fold(r, Append(q.file, rec)) = DirRecord(Dir!Fold(r, q.file), rec)
        BY <1>11, <1>13, DirAppend
    <1>15. Dir!Fold(r, Append(q.file, rec)) = c[n]
        BY <1>11, <1>13, <1>14 DEF DirRecord
    <1>16. Directory(globals) = Append(q.file, rec)
        BY <1>3, <1>9, <1>12, WritingIsFold DEF Directory, es
    <1> QED BY <1>1, <1>4, <1>14, <1>15, <1>16

-----------------------------------------------------------------------------
(* An entry that a reader in section s can make sense of.                  *)
EntryOk(e, s) ==
    /\ e.code \in DOMAIN RldSize \cup {"COMPLEX"}
    /\ e.code = "INT" => e.name = s
    /\ e.code = "LIMITS" => e.name = NoSection
    /\ Locating(e) => e.word \in Nat

RecordOk(rec, s) ==
    /\ rec.type \in {"GSD", "ENDGSD", "TEXT", "RLD", "ENDMOD"}
    /\ rec.type = "GSD" => EntriesTyped(rec.entries)
    /\ rec.type = "TEXT" => rec.addr \in Nat /\ IsSeq(rec.bytes)
    /\ rec.type = "RLD" =>
          /\ IsSeq(rec.entries)
          /\ \A i \in DOMAIN rec.entries :
                /\ EntryOk(rec.entries[i], s)
                /\ Locating(rec.entries[i]) => i = Len(rec.entries)

(* Records each of which can be read after the ones before it.             *)
ReadableTo(f, n) ==
    \A g : Linking!Chain(g, NoLink, f, n) => \A k \in 1..n : RecordOk(f[k], g[k - 1].section)

Readable(f) == IsSeq(f) /\ \A n \in 0..Len(f) : ReadableTo(f, n)

LEMMA ReadableEmpty == Readable(<<>>)
    <1>1. IsSeq(<<>>) /\ Len(<<>>) = 0
        BY Short
    <1>2. ReadableTo(<<>>, 0)
        BY DEF ReadableTo
    <1>3. \A n \in 0..0 : n = 0
        OBVIOUS
    <1> QED BY <1>1, <1>2, <1>3 DEF Readable

(* A chain over a sequence is one over each of its beginnings.             *)
LEMMA ReadablePrefix ==
    ASSUME NEW f, Readable(f), NEW m \in 0..Len(f), NEW p, IsSeq(p), Len(p) = m,
           \A k \in 1..m : p[k] = f[k]
    PROVE  Readable(p)
    <1>1. Len(f) \in Nat
        BY Joined DEF Readable
    <1>2. ASSUME NEW n \in 0..m PROVE ReadableTo(p, n)
        <2>1. n \in 0..Len(f) /\ \A k \in 1..n : k \in 1..m
            BY <1>1
        <2>2. \A g : Linking!Chain(g, NoLink, p, n) => Linking!Chain(g, NoLink, f, n)
            BY <2>1 DEF Linking!Chain
        <2>3. ReadableTo(f, n)
            BY <2>1 DEF Readable
        <2> QED BY <2>1, <2>2, <2>3 DEF ReadableTo
    <1> QED BY <1>2 DEF Readable

LEMMA ReadableAdded ==
    ASSUME NEW f, Readable(f), NEW rec, RecordOk(rec, LinkedFrom(f).section)
    PROVE  Readable(f \o <<rec>>)
    <1>1. IsSeq(f) /\ IsSeq(<<rec>>) /\ Len(<<rec>>) = 1 /\ <<rec>>[1] = rec
        BY Short DEF Readable
    <1>2. PICK u : u = f \o <<rec>>
        OBVIOUS
    <1>3. PICK n : n = Len(f)
        OBVIOUS
    <1>4. /\ n \in Nat /\ DOMAIN f = 1..n /\ IsSeq(u) /\ Len(u) = n + 1
          /\ \A i \in 1..n : u[i] = f[i]
          /\ \A i \in 1..1 : u[n + i] = <<rec>>[i]
        BY <1>1, <1>2, <1>3, Joined
    <1>5. u[n + 1] = rec
        BY <1>1, <1>4
    <1>6. PICK h : Linking!Chain(h, NoLink, f, n) /\ h[n] = LinkedFrom(f)
        <2>1. PICK h : Linking!Chain(h, NoLink, f, n) /\ h[n] = Linking!Fold(NoLink, f)
            BY <1>4, Linking!FoldChain
        <2> QED BY <2>1, LinkedIsFold
    <1>7. ASSUME NEW m \in 0..(n + 1) PROVE ReadableTo(u, m)
        <2>1. SUFFICES ASSUME NEW g, Linking!Chain(g, NoLink, u, m), NEW k \in 1..m
                       PROVE  RecordOk(u[k], g[k - 1].section)
            BY DEF ReadableTo
        <2>2. CASE k = n + 1
            <3>1. m = n + 1
                BY <1>4, <2>2
            <3>2. Linking!Chain(g, NoLink, u, n)
                BY <1>4, <2>1, <3>1 DEF Linking!Chain
            <3>3. g[n] = h[n]
                BY <1>4, <1>6, <3>2, Linking!ChainsAgree
            <3>4. k - 1 = n
                BY <1>4, <2>2
            <3> QED BY <1>5, <1>6, <2>2, <3>3, <3>4
        <2>3. CASE k # n + 1
            <3>1. PICK j \in 0..n : k \in 1..j /\ j <= m
                <4>1. k \in 0..n /\ k \in 1..k /\ k <= m
                    BY <1>4, <2>3
                <4> QED BY <4>1
            <3>2. Linking!Chain(g, NoLink, f, j)
                <4>1. \A i \in 1..j : i \in 1..n /\ i \in 1..m
                    BY <1>4, <3>1
                <4> QED BY <1>4, <2>1, <4>1 DEF Linking!Chain
            <3>3. RecordOk(f[k], g[k - 1].section)
                BY <1>3, <3>1, <3>2 DEF Readable, ReadableTo
            <3>4. k \in 1..n
                BY <1>4, <3>1
            <3> QED BY <1>4, <3>3, <3>4
        <2> QED BY <2>2, <2>3
    <1>8. Readable(u)
        BY <1>4, <1>7 DEF Readable
    <1> QED BY <1>2, <1>8

(* Records that link to nothing, and then a file.                          *)
LEMMA ReadableJoined ==
    ASSUME NEW d, Readable(d), NEW f, Readable(f),
           \A k \in DOMAIN d : d[k].type \notin {"TEXT", "RLD"}
    PROVE  Readable(d \o f)
    <1>1. IsSeq(d) /\ IsSeq(f)
        BY DEF Readable
    <1>2. PICK u : u = d \o f
        OBVIOUS
    <1>3. PICK a, n : a = Len(d) /\ n = Len(f)
        OBVIOUS
    <1>4. /\ a \in Nat /\ n \in Nat /\ DOMAIN d = 1..a /\ IsSeq(u) /\ Len(u) = a + n
          /\ \A i \in 1..a : u[i] = d[i]
          /\ \A i \in 1..n : u[a + i] = f[i]
        BY <1>1, <1>2, <1>3, Joined
    <1>5. ASSUME NEW m \in 0..(a + n) PROVE ReadableTo(u, m)
        <2>1. SUFFICES ASSUME NEW g, Linking!Chain(g, NoLink, u, m), NEW k \in 1..m
                       PROVE  RecordOk(u[k], g[k - 1].section)
            BY DEF ReadableTo
        <2>2. CASE k \in 1..a
            <3>1. Linking!Chain(g, NoLink, d, k)
                <4>1. \A i \in 1..k : i \in 1..a /\ i \in 1..m
                    BY <1>4, <2>2
                <4> QED BY <1>4, <2>1, <4>1 DEF Linking!Chain
            <3>2. k \in 0..a /\ k \in 1..k
                BY <2>2
            <3> QED BY <1>3, <1>4, <2>2, <3>1, <3>2 DEF Readable, ReadableTo
        <2>3. CASE k \notin 1..a
            <3>1. PICK j \in 1..n : k = a + j /\ a + j <= m
                <4>1. k - a \in 1..n /\ k = a + (k - a)
                    BY <1>4, <2>3
                <4> QED BY <4>1
            <3> DEFINE A == {i \in Nat : i <= a => g[i] = NoLink}
            <3>2. 0 \in A
                BY <2>1 DEF Linking!Chain
            <3>3. ASSUME NEW i \in Nat, i \in A PROVE i + 1 \in A
                <4>1. SUFFICES ASSUME i + 1 <= a PROVE g[i + 1] = NoLink
                    OBVIOUS
                <4>2. i + 1 \in 1..a /\ i + 1 \in 1..m /\ (i + 1) - 1 = i /\ g[i] = NoLink
                    BY <1>4, <3>1, <3>3, <4>1
                <4>3. g[i + 1] = LinkRecord(g[i], d[i + 1])
                    BY <1>4, <2>1, <4>2 DEF Linking!Chain
                <4> QED BY <1>4, <4>2, <4>3, LinkOther
            <3> HIDE DEF A
            <3>4. a \in A
                BY <1>4, <3>2, <3>3, Linking!SetInduction
            <3>5. g[a] = NoLink
                BY <1>4, <3>4 DEF A
            <3> DEFINE h == [i \in 0..j |-> g[a + i]]
            <3>6. Linking!Chain(h, NoLink, f, j)
                <4>1. h[0] = NoLink
                    <5>1. 0 \in 0..j /\ a + 0 = a
                        BY <1>4
                    <5> QED BY <3>5, <5>1
                <4>2. ASSUME NEW i \in 1..j PROVE h[i] = LinkRecord(h[i - 1], f[i])
                    <5>1. /\ i \in 0..j /\ i - 1 \in 0..j /\ a + i \in 1..m /\ i \in 1..n
                          /\ a + (i - 1) = (a + i) - 1
                        BY <1>4, <3>1
                    <5>2. g[a + i] = LinkRecord(g[(a + i) - 1], u[a + i])
                        BY <2>1, <5>1 DEF Linking!Chain
                    <5> QED BY <1>4, <5>1, <5>2
                <4> HIDE DEF h
                <4> QED BY <4>1, <4>2 DEF Linking!Chain
            <3>7. RecordOk(f[j], h[j - 1].section)
                <4>1. j \in 0..n /\ j \in 1..j
                    OBVIOUS
                <4> HIDE DEF h
                <4> QED BY <1>3, <3>6, <4>1 DEF Readable, ReadableTo
            <3>8. h[j - 1] = g[k - 1]
                <4>1. j - 1 \in 0..j /\ a + (j - 1) = k - 1
                    BY <1>4, <3>1
                <4> QED BY <4>1
            <3> QED BY <1>4, <3>1, <3>7, <3>8
        <2> QED BY <2>2, <2>3
    <1>6. Readable(u)
        BY <1>4, <1>5 DEF Readable
    <1> QED BY <1>2, <1>6

LEMMA DirReadable ==
    ASSUME NEW d, DirShape(d)
    PROVE  Readable(d)
    <1>1. IsSeq(d) /\ DOMAIN d = 1..Len(d) /\ Len(d) \in Nat
        BY Joined DEF DirShape
    <1>2. ASSUME NEW k \in DOMAIN d, NEW s PROVE RecordOk(d[k], s)
        BY DEF DirShape, DirRecordOk, RecordOk
    <1>3. ASSUME NEW n \in 0..Len(d), NEW k \in 1..n PROVE k \in DOMAIN d
        BY <1>1
    <1> QED BY <1>1, <1>2, <1>3 DEF Readable, ReadableTo

-----------------------------------------------------------------------------
(* The file, which has no record of the directory.                         *)
FileOk(f) == Readable(f) /\ \A k \in DOMAIN f : f[k].type # "GSD"

EntriesOk(es, s) == IsSeq(es) /\ \A i \in DOMAIN es : EntryOk(es[i], s)

LEMMA FileAdded ==
    ASSUME NEW f, FileOk(f), NEW rec, RecordOk(rec, LinkedFrom(f).section), rec.type # "GSD"
    PROVE  FileOk(f \o <<rec>>)
    <1>1. Readable(f \o <<rec>>)
        BY ReadableAdded DEF FileOk
    <1>2. IsSeq(f) /\ IsSeq(<<rec>>) /\ Len(<<rec>>) = 1 /\ <<rec>>[1] = rec
        BY Short DEF FileOk, Readable
    <1>3. /\ Len(f) \in Nat /\ DOMAIN f = 1..Len(f) /\ DOMAIN (f \o <<rec>>) = 1..(Len(f) + 1)
          /\ \A i \in 1..Len(f) : (f \o <<rec>>)[i] = f[i]
          /\ \A i \in 1..1 : (f \o <<rec>>)[Len(f) + i] = <<rec>>[i]
        BY <1>2, Joined
    <1>4. ASSUME NEW k \in 1..(Len(f) + 1) PROVE (f \o <<rec>>)[k].type # "GSD"
        <2>1. CASE k = Len(f) + 1
            BY <1>2, <1>3, <2>1
        <2>2. CASE k # Len(f) + 1
            <3>1. k \in 1..Len(f)
                BY <1>3, <2>2
            <3> QED BY <1>3, <3>1 DEF FileOk
        <2> QED BY <2>1, <2>2
    <1> QED BY <1>1, <1>3, <1>4 DEF FileOk

(* What a flush writes: the bytes, and entries of which the last may be a   *)
(* change of location.                                                     *)
LEMMA FlushOk ==
    ASSUME NEW f, FileOk(f), IsLink(LinkedFrom(f)), NEW s, s = LinkedFrom(f).section,
           NEW t, t.txt_addr \in Nat, IsSeq(t.text), EntriesOk(t.rld, s),
           \A i \in DOMAIN t.rld : Locating(t.rld[i]) => i = Len(t.rld)
    PROVE  FileOk(f \o text_flush(t))
    <1> DEFINE text == [type |-> "TEXT", addr |-> t.txt_addr, bytes |-> t.text]
               rld == [type |-> "RLD", entries |-> t.rld]
    <1>1. IsSeq(f) /\ IsSeq(<<text>>) /\ IsSeq(<<rld>>) /\ IsSeq(<<>>)
        BY Short DEF FileOk, Readable
    <1>2. rld.type = "RLD" /\ RecordOk(rld, s)
        BY DEF RecordOk, EntriesOk
    <1>3. text.type = "TEXT" /\ \A x : RecordOk(text, x)
        BY DEF RecordOk
    <1>4. FileOk(f \o <<text>>) /\ LinkedFrom(f \o <<text>>).section = s
        <2>1. FileOk(f \o <<text>>)
            <3> HIDE DEF text
            <3> QED BY <1>3, FileAdded
        <2>2. PICK rec : rec = text
            OBVIOUS
        <2>3. LinkedFrom(f \o <<rec>>) = LinkRecord(LinkedFrom(f), rec)
            BY <1>1, RecordLinked
        <2>4. LinkRecord(LinkedFrom(f), rec).section = s
            <3>1. PICK l : l = LinkedFrom(f)
                OBVIOUS
            <3>2. rec.type = "TEXT"
                BY <1>3, <2>2
            <3>3. LinkRecord(l, rec) =
                     [section |-> l.section, last |-> rec.addr,
                      image |-> Over(l.image, l.section, rec.addr, rec.bytes),
                      fixups |-> l.fixups]
                BY <3>1, <3>2, TextLinked
            <3> QED BY <3>1, <3>3
        <2> QED BY <2>1, <2>2, <2>3, <2>4
    <1> HIDE DEF text, rld
    <1>5. CASE t.text = <<>> /\ t.rld = <<>>
        <2>1. text_flush(t) = <<>> \o <<>>
            BY <1>5 DEF text_flush
        <2>2. <<>> \o <<>> = <<>> /\ f \o <<>> = f
            BY <1>1 DEF IsSeq
        <2> QED BY <2>1, <2>2
    <1>6. CASE t.text # <<>> /\ t.rld = <<>>
        <2>1. text_flush(t) = <<text>> \o <<>>
            BY <1>6 DEF text_flush, text
        <2>2. <<text>> \o <<>> = <<text>>
            BY <1>1 DEF IsSeq
        <2> QED BY <1>4, <2>1, <2>2
    <1>7. CASE t.text = <<>> /\ t.rld # <<>>
        <2>1. text_flush(t) = <<>> \o <<rld>>
            BY <1>7 DEF text_flush, rld
        <2>2. <<>> \o <<rld>> = <<rld>>
            BY <1>1 DEF IsSeq
        <2>3. FileOk(f \o <<rld>>)
            BY <1>2, FileAdded
        <2> QED BY <2>1, <2>2, <2>3
    <1>8. CASE t.text # <<>> /\ t.rld # <<>>
        <2>1. text_flush(t) = <<text>> \o <<rld>>
            BY <1>8 DEF text_flush, text, rld
        <2>2. f \o (<<text>> \o <<rld>>) = (f \o <<text>>) \o <<rld>>
            BY <1>1, JoinedTwice
        <2>3. FileOk((f \o <<text>>) \o <<rld>>)
            BY <1>2, <1>4, FileAdded
        <2> QED BY <2>1, <2>2, <2>3
    <1> QED BY <1>5, <1>6, <1>7, <1>8

-----------------------------------------------------------------------------
(* The writer: its file can be read, and its buffers once they are written.*)
PlacedOut(out) ==
    WellOut(out) /\ FileOk(out.file) /\ EntriesOk(out.tr.rld, Sec(out))

LEMMA PlacedFlush ==
    ASSUME NEW out, PlacedOut(out), NEW addr \in Nat
    PROVE  PlacedOut(Flush(out, addr)) /\ FileOk(out.file \o text_flush(out.tr))
    <1>1. /\ out.tr.txt_addr \in Nat /\ IsSeq(out.tr.text) /\ IsLink(LinkedFrom(out.file))
          /\ FileOk(out.file) /\ EntriesOk(out.tr.rld, LinkedFrom(out.file).section)
          /\ \A i \in DOMAIN out.tr.rld : ~Locating(out.tr.rld[i])
        BY DEF PlacedOut, WellOut, GoodOut, GoodBuffers, Shape, Sec
    <1>2. FileOk(out.file \o text_flush(out.tr))
        BY <1>1, FlushOk
    <1>3. PICK q : q = Flush(out, addr)
        OBVIOUS
    <1>4. WellOut(q)
        BY <1>3, FlushView DEF PlacedOut
    <1>5. q.file = out.file \o text_flush(out.tr) /\ q.tr.rld = <<>>
        BY <1>3 DEF Flush, text_init
    <1>6. EntriesOk(q.tr.rld, Sec(q))
        BY <1>5, Short DEF EntriesOk
    <1> QED BY <1>2, <1>3, <1>4, <1>5, <1>6 DEF PlacedOut

LEMMA PlacedFit ==
    ASSUME NEW out, PlacedOut(out), NEW addr \in Nat, NEW txtsize, NEW rldsize
    PROVE  LET o == text_fit(out, addr, txtsize, rldsize)
           IN PlacedOut(o) /\ Sec(o) = Sec(out)
    <1>1. \/ text_fit(out, addr, txtsize, rldsize) = out
          \/ text_fit(out, addr, txtsize, rldsize) = Flush(out, addr)
        BY DEF text_fit
    <1>2. PlacedOut(Flush(out, addr))
        BY PlacedFlush
    <1>3. Sec(Flush(out, addr)) = Sec(out)
        BY FlushView DEF PlacedOut, SameView
    <1> QED BY <1>1, <1>2, <1>3

LEMMA EntriesJoined ==
    ASSUME NEW s, NEW a, EntriesOk(a, s), NEW b, EntriesOk(b, s)
    PROVE  EntriesOk(a \o b, s)
    <1>1. IsSeq(a) /\ IsSeq(b)
        BY DEF EntriesOk
    <1>2. /\ IsSeq(a \o b) /\ DOMAIN (a \o b) = 1..(Len(a) + Len(b))
          /\ Len(a) \in Nat /\ Len(b) \in Nat /\ DOMAIN a = 1..Len(a) /\ DOMAIN b = 1..Len(b)
          /\ \A i \in 1..Len(a) : (a \o b)[i] = a[i]
          /\ \A i \in 1..Len(b) : (a \o b)[Len(a) + i] = b[i]
        BY <1>1, Joined
    <1>3. ASSUME NEW i \in 1..(Len(a) + Len(b)) PROVE EntryOk((a \o b)[i], s)
        <2>1. CASE i \in 1..Len(a)
            BY <1>2, <2>1 DEF EntriesOk
        <2>2. CASE i \notin 1..Len(a)
            <3>1. PICK j \in 1..Len(b) : i = Len(a) + j
                <4>1. i - Len(a) \in 1..Len(b) /\ i = Len(a) + (i - Len(a))
                    BY <1>2, <2>2
                <4> QED BY <4>1
            <3> QED BY <1>2, <3>1 DEF EntriesOk
        <2> QED BY <2>1, <2>2
    <1> QED BY <1>2, <1>3 DEF EntriesOk

(* Entries put into the buffers: they can be read in the section there.    *)
LEMMA PlacedInto ==
    ASSUME NEW o, PlacedOut(o), NEW bytes, NEW es, EntriesOk(es, Sec(o)), NEW n,
           WellOut(Into(o, bytes, es, n))
    PROVE  PlacedOut(Into(o, bytes, es, n))
    <1>1. PICK q : q = Into(o, bytes, es, n)
        OBVIOUS
    <1>2. q.file = o.file /\ q.tr.rld = o.tr.rld \o es
        BY <1>1 DEF Into
    <1>3. Sec(q) = Sec(o)
        BY <1>2 DEF Sec
    <1>4. EntriesOk(q.tr.rld, Sec(q))
        BY <1>2, <1>3, EntriesJoined DEF PlacedOut
    <1> QED BY <1>1, <1>2, <1>4 DEF PlacedOut

-----------------------------------------------------------------------------
(* What is stored can be read, kind by kind.                               *)
LEMMA PlacedWord ==
    ASSUME NEW out, PlacedOut(out), NEW addr \in Nat, NEW size \in {1, 2}, NEW word
    PROVE  LET q == text_word(out, addr, size, word)
           IN PlacedOut(q) /\ Sec(q) = Sec(out)
    <1> DEFINE o == text_fit(out, addr, size, 0)
    <1>1. PlacedOut(o) /\ Sec(o) = Sec(out)
        BY PlacedFit
    <1>2. PICK q : q = text_word(out, addr, size, word)
        OBVIOUS
    <1>3. WellOut(q) /\ Sec(q) = Sec(out)
        BY <1>2, WordPuts DEF PlacedOut, Puts
    <1>4. q = Into(o, text_word_i(word, size), <<>>, 0)
        BY <1>2 DEF text_word
    <1>5. EntriesOk(<<>>, Sec(o))
        BY Short DEF EntriesOk
    <1> HIDE DEF o
    <1>6. PlacedOut(q)
        BY <1>1, <1>3, <1>4, <1>5, PlacedInto
    <1> QED BY <1>2, <1>3, <1>6

LEMMA OneEntryOk ==
    ASSUME NEW e, NEW s, EntryOk(e, s)
    PROVE  EntriesOk(<<e>>, s)
    <1>1. IsSeq(<<e>>) /\ DOMAIN <<e>> = {1} /\ <<e>>[1] = e
        BY Short
    <1> QED BY <1>1 DEF EntriesOk

LEMMA PlacedRelocated ==
    ASSUME NEW out, PlacedOut(out), NEW addr \in Nat, NEW size \in {1, 2}, NEW word, NEW name,
           NEW code \in DOMAIN RldSize \ {"LOCDEF", "LOCMOD", "LIMITS"},
           code = "INT" => name = Sec(out)
    PROVE  LET q == Relocated(out, addr, size, word, code, name)
           IN PlacedOut(q) /\ Sec(q) = Sec(out)
    <1> DEFINE n == RldSize[code]
               o == text_fit(out, addr, size, n)
               e == Entry(code, rld_code(o, addr), size, name, word)
    <1>1. PlacedOut(o) /\ Sec(o) = Sec(out)
        BY PlacedFit
    <1>2. PICK q : q = Relocated(out, addr, size, word, code, name)
        OBVIOUS
    <1>3. WellOut(q) /\ Sec(q) = Sec(out)
        BY <1>2, RelocatedPuts DEF PlacedOut, Puts
    <1>4. q = Into(o, text_word_i(word, size), <<e>>, n)
        BY <1>2 DEF Relocated
    <1>5. e.code = code /\ e.name = name
        BY DEF Entry
    <1> HIDE DEF o, e, n
    <1>6. EntriesOk(<<e>>, Sec(o))
        <2>1. EntryOk(e, Sec(o))
            BY <1>1, <1>5 DEF EntryOk, Locating
        <2> QED BY <2>1, OneEntryOk
    <1>7. PlacedOut(q)
        BY <1>1, <1>3, <1>4, <1>6, PlacedInto
    <1> QED BY <1>2, <1>3, <1>7

LEMMA PlacedLimits ==
    ASSUME NEW out, PlacedOut(out), NEW addr \in Nat
    PROVE  LET q == text_limits(out, addr)
           IN PlacedOut(q) /\ Sec(q) = Sec(out)
    <1> DEFINE n == RldSize["LIMITS"]
               o == text_fit(out, addr, 4, n)
               e == Entry("LIMITS", rld_code(o, addr), 2, NoSection, 0)
    <1>1. PlacedOut(o) /\ Sec(o) = Sec(out)
        BY PlacedFit
    <1>2. PICK q : q = text_limits(out, addr)
        OBVIOUS
    <1>3. WellOut(q) /\ Sec(q) = Sec(out)
        BY <1>2, LimitsPuts DEF PlacedOut, Puts
    <1>4. q = Into(o, text_word_i(0, 2) \o text_word_i(0, 2), <<e>>, n)
        BY <1>2 DEF text_limits
    <1>5. e.code = "LIMITS" /\ e.name = NoSection /\ "LIMITS" \in DOMAIN RldSize
        BY DEF Entry, RldSize
    <1> HIDE DEF o, e, n
    <1>6. EntriesOk(<<e>>, Sec(o))
        <2>1. EntryOk(e, Sec(o))
            BY <1>1, <1>5 DEF EntryOk, Locating
        <2> QED BY <2>1, OneEntryOk
    <1>7. PlacedOut(q)
        BY <1>1, <1>3, <1>4, <1>6, PlacedInto
    <1> QED BY <1>2, <1>3, <1>7

(* Whether accum has held the expression or not.                           *)
LEMMA PlacedComplex ==
    ASSUME NEW out, PlacedOut(out), NEW addr \in Nat, NEW size \in {1, 2},
           NEW expr \in ComplexExprs, NEW store \in {"STORE", "STORE_DISP"}
    PROVE  LET q == text_complex_commit(out, addr, size, expr, store)
           IN PlacedOut(q) /\ Sec(q) = Sec(out)
    <1> DEFINE tx == text_complex_fit(Complex(expr), [op |-> store])
               n == tx.len + 2
               bytes == text_word_i(0, size)
               o == text_fit(out, addr, size, n)
               e == [Entry("COMPLEX", rld_code(o, addr), size, NoSection, 0)
                       EXCEPT !.expr = tx.ops]
    <1>1. n \in Nat /\ n + 2 <= Roof /\ size \in {1, 2, 4}
        <2>1. tx.len \in Nat /\ tx.len + 4 <= Roof
            BY StoreLength
        <2> HIDE DEF tx
        <2> QED BY <2>1, RoofHigh
    <1>2. IsSeq(bytes) /\ Len(bytes) = size
        BY WordBytes
    <1>3. PICK q : q = text_complex_commit(out, addr, size, expr, store)
        OBVIOUS
    <1>4. q = Into(o, bytes, <<e>>, n)
        BY <1>3 DEF text_complex_commit
    <1>5. GoodOut(Into(text_fit(out, addr, size, n), bytes, <<e>>, n))
        <2>1. GoodOut(text_complex_commit(out, addr, size, expr, store))
            BY ComplexGood DEF PlacedOut, WellOut
        <2> QED BY <1>3, <1>4, <2>1
    <1> HIDE DEF tx
    <1>6. e.disp = rld_code(text_fit(out, addr, size, n), addr) /\ e.code = "COMPLEX"
        <2> HIDE DEF o, n
        <2> QED BY DEF Entry, o
    <1> HIDE DEF e, n, bytes
    <1>7. Puts(out, Into(text_fit(out, addr, size, n), bytes, <<e>>, n), addr, bytes,
               {Asked(e, IF e.code \in Additive THEN e.word ELSE 0)})
        <2>1. WellOut(out)
            BY DEF PlacedOut
        <2> QED BY <1>1, <1>2, <1>5, <1>6, <2>1, EntryPuts
    <1>8. WellOut(q) /\ Sec(q) = Sec(out)
        BY <1>4, <1>7 DEF Puts
    <1>9. PlacedOut(o) /\ Sec(o) = Sec(out)
        BY PlacedFit
    <1> HIDE DEF o
    <1>10. EntriesOk(<<e>>, Sec(o))
        <2>1. EntryOk(e, Sec(o))
            BY <1>6 DEF EntryOk, Locating
        <2> QED BY <2>1, OneEntryOk
    <1>11. PlacedOut(q)
        BY <1>4, <1>8, <1>9, <1>10, PlacedInto
    <1> QED BY <1>3, <1>8, <1>11

-----------------------------------------------------------------------------
LEMMA PlacedLocation ==
    ASSUME NEW out, PlacedOut(out), NEW addr \in Nat, NEW name,
           NEW code \in {"LOCDEF", "LOCMOD"}
    PROVE  LET o == text_fit(out, addr, 0, RldSize[code])
               q == Flush(Into(o, <<>>, <<Entry(code, 0, 2, name, addr)>>, RldSize[code]), addr)
           IN PlacedOut(q) /\ Sec(q) = IF code = "LOCDEF" THEN name ELSE Sec(out)
    <1> DEFINE n == RldSize[code]
               o == text_fit(out, addr, 0, n)
               e == Entry(code, 0, 2, name, addr)
               p == Into(o, <<>>, <<e>>, n)
    <1>1. PlacedOut(o) /\ Sec(o) = Sec(out)
        BY PlacedFit
    <1>2. PICK q : q = Flush(p, addr)
        OBVIOUS
    <1>3. WellOut(q) /\ Sec(q) = IF code = "LOCDEF" THEN name ELSE Sec(out)
        BY <1>2, LocationView, ZenonT(60) DEF PlacedOut
    <1>4. e.code = code /\ e.word = addr
        BY DEF Entry
    <1> HIDE DEF o, e, n
    <1>5. PICK t : t = p.tr
        OBVIOUS
    <1>6. /\ t.txt_addr = o.tr.txt_addr /\ t.text = o.tr.text \o <<>>
          /\ t.rld = o.tr.rld \o <<e>> /\ p.file = o.file
        BY <1>5 DEF Into
    <1> HIDE DEF p
    <1>7. PICK s : s = LinkedFrom(o.file).section
        OBVIOUS
    <1>8. /\ o.tr.txt_addr \in Nat /\ IsSeq(o.tr.text) /\ IsLink(LinkedFrom(o.file))
          /\ FileOk(o.file) /\ EntriesOk(o.tr.rld, s) /\ IsSeq(o.tr.rld)
          /\ \A i \in DOMAIN o.tr.rld : ~Locating(o.tr.rld[i])
        BY <1>1, <1>7 DEF PlacedOut, WellOut, GoodOut, GoodBuffers, Shape, Sec
    <1>9. EntriesOk(t.rld, s)
        <2>1. EntryOk(e, s)
            BY <1>4 DEF EntryOk, RldSize
        <2>2. EntriesOk(<<e>>, s)
            BY <2>1, OneEntryOk
        <2> QED BY <1>6, <1>8, <2>2, EntriesJoined
    <1>10. ASSUME NEW i \in DOMAIN t.rld, Locating(t.rld[i]) PROVE i = Len(t.rld)
        <2>1. PICK r : r = o.tr.rld
            OBVIOUS
        <2>2. IsSeq(r) /\ IsSeq(<<e>>) /\ Len(<<e>>) = 1
            BY <1>8, <2>1, Short
        <2>3. /\ Len(r) \in Nat /\ DOMAIN r = 1..Len(r) /\ Len(r \o <<e>>) = Len(r) + 1
              /\ DOMAIN (r \o <<e>>) = 1..(Len(r) + 1)
              /\ \A j \in 1..Len(r) : (r \o <<e>>)[j] = r[j]
            BY <2>2, Joined
        <2>4. i \in 1..(Len(r) + 1) /\ i \notin 1..Len(r)
            BY <1>6, <1>8, <1>10, <2>1, <2>3
        <2>5. i = Len(r) + 1
            BY <2>3, <2>4
        <2> QED BY <1>6, <2>1, <2>3, <2>5
    <1>11. IsSeq(t.text) /\ t.txt_addr \in Nat
        BY <1>6, <1>8 DEF IsSeq
    <1>12. FileOk(o.file \o text_flush(t))
        BY <1>7, <1>8, <1>9, <1>10, <1>11, FlushOk
    <1>13. q.file = o.file \o text_flush(t) /\ q.tr.rld = <<>>
        BY <1>2, <1>5, <1>6 DEF Flush, text_init
    <1>14. EntriesOk(q.tr.rld, Sec(q))
        BY <1>13, Short DEF EntriesOk
    <1>15. PlacedOut(q)
        BY <1>3, <1>12, <1>13, <1>14 DEF PlacedOut
    <1> QED BY <1>2, <1>3, <1>15 DEF p, o, e, n

LEMMA PlacedChange ==
    ASSUME NEW out, PlacedOut(out), DOT \in Nat, Sec(out) = last_dot_section
    PROVE  PlacedOut(change_dot(out)) /\ Sec(change_dot(out)) = current
    <1>1. CASE last_dot_section # current
        <2>1. change_dot(out) = text_define_location(out, current, DOT)
            BY <1>1 DEF change_dot
        <2>2. PICK code \in {"LOCDEF", "LOCMOD"} : code = "LOCDEF"
            OBVIOUS
        <2>3. LET o == text_fit(out, DOT, 0, RldSize[code])
                  q == Flush(Into(o, <<>>, <<Entry(code, 0, 2, current, DOT)>>,
                                  RldSize[code]), DOT)
              IN PlacedOut(q) /\ Sec(q) = IF code = "LOCDEF" THEN current ELSE Sec(out)
            BY PlacedLocation
        <2>4. LET o == text_fit(out, DOT, 0, RldSize["LOCDEF"])
                  q == Flush(Into(o, <<>>, <<Entry("LOCDEF", 0, 2, current, DOT)>>,
                                  RldSize["LOCDEF"]), DOT)
              IN PlacedOut(q) /\ Sec(q) = current
            BY <2>2, <2>3
        <2> QED BY <2>1, <2>4 DEF text_define_location
    <1>2. CASE last_dot_section = current /\ last_dot_addr # DOT
        <2>1. change_dot(out) = text_modify_location(out, DOT)
            BY <1>2 DEF change_dot
        <2>2. PICK code \in {"LOCDEF", "LOCMOD"} : code = "LOCMOD"
            OBVIOUS
        <2>3. LET o == text_fit(out, DOT, 0, RldSize[code])
                  q == Flush(Into(o, <<>>, <<Entry(code, 0, 2, NoSection, DOT)>>,
                                  RldSize[code]), DOT)
              IN PlacedOut(q) /\ Sec(q) = IF code = "LOCDEF" THEN NoSection ELSE Sec(out)
            BY PlacedLocation
        <2>4. LET o == text_fit(out, DOT, 0, RldSize["LOCMOD"])
                  q == Flush(Into(o, <<>>, <<Entry("LOCMOD", 0, 2, NoSection, DOT)>>,
                                  RldSize["LOCMOD"]), DOT)
              IN PlacedOut(q) /\ Sec(q) = Sec(out)
            BY <2>2, <2>3
        <2> QED BY <1>2, <2>1, <2>4 DEF text_modify_location
    <1>3. CASE last_dot_section = current /\ last_dot_addr = DOT
        BY <1>3 DEF change_dot
    <1> QED BY <1>1, <1>2, <1>3

LEMMA PlacedModify ==
    ASSUME NEW out, PlacedOut(out), NEW addr \in Nat
    PROVE  LET q == text_modify_location(out, addr)
           IN PlacedOut(q) /\ Sec(q) = Sec(out)
    <1>1. PICK code \in {"LOCDEF", "LOCMOD"} : code = "LOCMOD"
        OBVIOUS
    <1>2. LET o == text_fit(out, addr, 0, RldSize[code])
              q == Flush(Into(o, <<>>, <<Entry(code, 0, 2, NoSection, addr)>>,
                              RldSize[code]), addr)
          IN PlacedOut(q) /\ Sec(q) = IF code = "LOCDEF" THEN NoSection ELSE Sec(out)
        BY PlacedLocation
    <1> QED BY <1>1, <1>2 DEF text_modify_location

LEMMA PlacedStored ==
    ASSUME NEW out, PlacedOut(out), DOT \in Nat, Sec(out) = current,
           NEW kind \in Kinds, NEW size \in Sizes(kind), NEW word,
           NEW name \in Names(kind), NEW expr \in ExprsOf(kind)
    PROVE  LET q == Stored(out, kind, size, word, name, expr)
           IN PlacedOut(q) /\ Sec(q) = current
    <1> DEFINE q == Stored(out, kind, size, word, name, expr)
    <1>1. CASE kind \in {"word", "byte"}
        <2>1. size \in {1, 2}
            BY <1>1 DEF Sizes
        <2>2. q = text_word(out, DOT, size, word)
            BY <1>1 DEF Stored
        <2> QED BY <2>1, <2>2, PlacedWord
    <1>2. CASE kind \in {"internal", "displaced", "global", "global_displaced", "psect",
                         "psect_displaced"}
        <2>1. size \in {1, 2}
            BY <1>2 DEF Sizes
        <2>2. {"INT_DISP", "GLOBAL", "GLOBAL_DISP", "GLOBAL_OFFSET",
               "GLOBAL_OFFSET_DISP", "PSECT", "PSECT_DISP", "PSECT_OFFSET",
               "PSECT_OFFSET_DISP"} \subseteq
                  DOMAIN RldSize \ {"LOCDEF", "LOCMOD", "LIMITS", "INT"}
            BY DEF RldSize
        <2>3. PICK code \in DOMAIN RldSize \ {"LOCDEF", "LOCMOD", "LIMITS"} :
                 /\ code = "INT" => name = current
                 /\ q = Relocated(out, DOT, size, word, code, name)
            <3>2. CASE kind = "internal"
                <4>1. q = Relocated(out, DOT, size, word, "INT", name)
                    BY <3>2 DEF Stored, text_internal_word
                <4>2. "INT" \in DOMAIN RldSize \ {"LOCDEF", "LOCMOD", "LIMITS"}
                    BY DEF RldSize
                <4>3. name = current
                    BY <3>2 DEF Names
                <4> HIDE DEF q
                <4> QED BY <4>1, <4>2, <4>3
            <3>3. CASE kind = "displaced"
                <4>1. q = Relocated(out, DOT, size, word, "INT_DISP", name)
                    BY <3>3 DEF Stored, text_displaced_word
                <4> HIDE DEF q
                <4> QED BY <2>2, <4>1
            <3>4. CASE kind = "global"
                <4>1. q = IF word = 0 THEN Relocated(out, DOT, size, word, "GLOBAL", name)
                          ELSE Relocated(out, DOT, size, word, "GLOBAL_OFFSET", name)
                    BY <3>4 DEF Stored, text_global_offset_word, text_global_word
                <4> HIDE DEF q
                <4> QED BY <2>2, <4>1
            <3>5. CASE kind = "global_displaced"
                <4>1. q = IF word = 0 THEN Relocated(out, DOT, size, word, "GLOBAL_DISP", name)
                          ELSE Relocated(out, DOT, size, word, "GLOBAL_OFFSET_DISP", name)
                    BY <3>5 DEF Stored, text_global_displaced_offset_word,
                                text_global_displaced_word
                <4> HIDE DEF q
                <4> QED BY <2>2, <4>1
            <3>6. CASE kind = "psect"
                <4>1. q = IF word = 0 THEN Relocated(out, DOT, size, word, "PSECT", name)
                          ELSE Relocated(out, DOT, size, word, "PSECT_OFFSET", name)
                    BY <3>6 DEF Stored, text_psect_offset_word, text_psect_word
                <4> HIDE DEF q
                <4> QED BY <2>2, <4>1
            <3>7. CASE kind = "psect_displaced"
                <4>1. q = IF word = 0 THEN Relocated(out, DOT, size, word, "PSECT_DISP", name)
                          ELSE Relocated(out, DOT, size, word, "PSECT_OFFSET_DISP", name)
                    BY <3>7 DEF Stored, text_psect_displaced_offset_word,
                                text_psect_displaced_word
                <4> HIDE DEF q
                <4> QED BY <2>2, <4>1
            <3> HIDE DEF q
            <3> QED BY <1>2, <3>2, <3>3, <3>4, <3>5, <3>6, <3>7
        <2>4. LET p == Relocated(out, DOT, size, word, code, name)
              IN PlacedOut(p) /\ Sec(p) = Sec(out)
            BY <2>1, <2>3, PlacedRelocated
        <2> HIDE DEF q
        <2> QED BY <2>3, <2>4 DEF q
    <1>3. CASE kind \in {"complex", "complex_displaced"}
        <2>1. size \in {1, 2} /\ expr \in ComplexExprs
            BY <1>3 DEF Sizes, ExprsOf
        <2>2. PICK store \in {"STORE", "STORE_DISP"} :
                 q = text_complex_commit(out, DOT, size, expr, store)
            <3>1. CASE kind = "complex"
                BY <3>1 DEF Stored
            <3>2. CASE kind = "complex_displaced"
                BY <3>2 DEF Stored
            <3> QED BY <1>3, <3>1, <3>2
        <2> HIDE DEF q
        <2> QED BY <2>1, <2>2, PlacedComplex DEF q
    <1>4. CASE kind = "limits"
        <2>1. q = text_limits(out, DOT)
            BY <1>4 DEF Stored
        <2> QED BY <2>1, PlacedLimits
    <1>5. CASE kind = "invalid"
        <2>1. size \in {1, 2}
            BY <1>5 DEF Sizes
        <2>2. PICK p : p = text_modify_location(out, DOT)
            OBVIOUS
        <2>3. PlacedOut(p) /\ Sec(p) = Sec(out)
            BY <2>2, PlacedModify
        <2>4. q = text_word(p, DOT, size, 0)
            BY <1>5, <2>2 DEF Stored
        <2>5. PlacedOut(q) /\ Sec(q) = Sec(p)
            BY <2>1, <2>3, <2>4, PlacedWord
        <2> QED BY <2>3, <2>5
    <1> QED BY <1>1, <1>2, <1>3, <1>4, <1>5 DEF Kinds

(* Once the buffers are written the records can be read.                   *)
LEMMA OutPlaced ==
    ASSUME NEW q, PlacedOut(q), NEW p, p = [tr |-> q.tr, file |-> q.file]
    PROVE  PlacedOut(p) /\ Sec(p) = Sec(q)
    <1>1. p.tr = q.tr /\ p.file = q.file
        OBVIOUS
    <1> QED BY <1>1 DEF PlacedOut, WellOut, GoodOut, Sec

-----------------------------------------------------------------------------
(* The readers' folds, over records and over the entries of one.           *)
Gen     == INSTANCE FoldFacts WITH Op <- gen_process
Dump    == INSTANCE FoldFacts WITH Op <- dump_process
GenRld  == INSTANCE FoldFacts WITH Op <- gen_rld_entry
DumpRld == INSTANCE FoldFacts WITH Op <- dump_rld_entry

LEMMA GenIsFold == \A r, s : FoldLeft(gen_process, r, s) = Gen!Fold(r, s)
    BY DEF FoldLeft, MapThenFoldSet, Max,
           Gen!Fold, Gen!FoldLeft, Gen!MapThenFoldSet, Gen!Max

LEMMA DumpIsFold == \A r, s : FoldLeft(dump_process, r, s) = Dump!Fold(r, s)
    BY DEF FoldLeft, MapThenFoldSet, Max,
           Dump!Fold, Dump!FoldLeft, Dump!MapThenFoldSet, Dump!Max

LEMMA GenRldIsFold == \A r, s : FoldLeft(gen_rld_entry, r, s) = GenRld!Fold(r, s)
    BY DEF FoldLeft, MapThenFoldSet, Max,
           GenRld!Fold, GenRld!FoldLeft, GenRld!MapThenFoldSet, GenRld!Max

LEMMA DumpRldIsFold == \A r, s : FoldLeft(dump_rld_entry, r, s) = DumpRld!Fold(r, s)
    BY DEF FoldLeft, MapThenFoldSet, Max,
           DumpRld!Fold, DumpRld!FoldLeft, DumpRld!MapThenFoldSet, DumpRld!Max

(* q is r but for the fields in F.                                         *)
Same(F, r, q) == DOMAIN q = DOMAIN r /\ \A f \in DOMAIN r \ F : q[f] = r[f]

LEMMA SameIsKept ==
    ASSUME NEW F, NEW r, NEW q
    PROVE  /\ Same(F, r, q) <=> Gen!Kept(F, r, q)
           /\ Same(F, r, q) <=> Dump!Kept(F, r, q)
           /\ Same(F, r, q) <=> GenRld!Kept(F, r, q)
           /\ Same(F, r, q) <=> DumpRld!Kept(F, r, q)
           /\ Same(F, r, q) <=> Gsd!Kept(F, r, q)
    BY DEF Same, Gen!Kept, Dump!Kept, GenRld!Kept, DumpRld!Kept, Gsd!Kept

LEMMA SameMore ==
    ASSUME NEW F, NEW r, NEW q, Same(F, r, q), NEW E, F \subseteq E
    PROVE  Same(E, r, q)
    BY DEF Same

RldFields  == {"last_text_addr", "lowestloc", "wrong", "badbin"}
GenFields  == RldFields \cup {"psects", "xferad", "blkram"}
DumpFields == RldFields \cup {"psects", "xferad", "bin"}

LEMMA GenEntrySame == \A r, e : Same(RldFields, r, gen_rld_entry(r, e))
    <1>1. SUFFICES ASSUME NEW r, NEW e PROVE Same(RldFields, r, gen_rld_entry(r, e))
        OBVIOUS
    <1>2. CASE e.code \in {"LOCDEF", "LOCMOD"}
        <2>1. PICK w, v : gen_rld_entry(r, e) = [r EXCEPT !.last_text_addr = w, !.lowestloc = v]
            BY <1>2 DEF gen_rld_entry, Located
        <2> QED BY <2>1 DEF Same, RldFields
    <1>3. CASE e.code \notin {"LOCDEF", "LOCMOD"}
        <2>1. PICK w, v : gen_rld_entry(r, e) = [r EXCEPT !.wrong = w, !.badbin = v]
            BY <1>3 DEF gen_rld_entry
        <2> QED BY <2>1 DEF Same, RldFields
    <1> QED BY <1>2, <1>3

LEMMA DumpEntrySame == \A r, e : Same(RldFields, r, dump_rld_entry(r, e))
    <1>1. SUFFICES ASSUME NEW r, NEW e PROVE Same(RldFields, r, dump_rld_entry(r, e))
        OBVIOUS
    <1>2. CASE e.code \in {"LOCDEF", "LOCMOD"}
        <2>1. PICK w : dump_rld_entry(r, e) = [r EXCEPT !.last_text_addr = w]
            BY <1>2 DEF dump_rld_entry
        <2> QED BY <2>1 DEF Same, RldFields
    <1>3. CASE e.code \notin {"LOCDEF", "LOCMOD"}
        <2>1. PICK v : dump_rld_entry(r, e) = [r EXCEPT !.badbin = v]
            BY <1>3 DEF dump_rld_entry
        <2> QED BY <2>1 DEF Same, RldFields
    <1> QED BY <1>2, <1>3

LEMMA GsdSame ==
    ASSUME NEW r, NEW s, IsSeq(s)
    PROVE  Same({"psects", "xferad", "wrong"}, r, Gsd!Fold(r, s))
    <1>1. Gsd!Kept({"xferad", "wrong", "psects"}, r, Gsd!Fold(r, s))
        BY EntriesKept
    <1> QED BY <1>1 DEF Same, Gsd!Kept

(* What one record changes; only one of the directory numbers sections.    *)
LEMMA GenRecordSame ==
    ASSUME NEW rec, NEW s, RecordOk(rec, s), NEW r
    PROVE  /\ Same(GenFields, r, gen_process(r, rec))
           /\ rec.type # "GSD" => Same(GenFields \ {"psects"}, r, gen_process(r, rec))
    <1>1. CASE rec.type = "GSD"
        <2>1. gen_process(r, rec) = Gsd!Fold(r, rec.entries)
            BY <1>1, GsdIsFold DEF gen_process, got_gsd
        <2>2. IsSeq(rec.entries)
            BY <1>1 DEF RecordOk, EntriesTyped
        <2>3. Same({"psects", "xferad", "wrong"}, r, gen_process(r, rec))
            BY <2>1, <2>2, GsdSame
        <2> QED BY <1>1, <2>3, SameMore DEF GenFields, RldFields
    <1>2. CASE rec.type = "TEXT"
        <2>1. PICK w, v : gen_process(r, rec) = [r EXCEPT !.last_text_addr = w, !.blkram = v]
            BY <1>2 DEF gen_process, gen_got_text
        <2>2. Same({"last_text_addr", "blkram"}, r, gen_process(r, rec))
            BY <2>1 DEF Same
        <2> QED BY <2>2, SameMore DEF GenFields, RldFields
    <1>3. CASE rec.type = "RLD"
        <2>1. gen_process(r, rec) = GenRld!Fold(r, rec.entries)
            BY <1>3, GenRldIsFold DEF gen_process, gen_got_rld
        <2>2. IsSeq(rec.entries)
            BY <1>3 DEF RecordOk
        <2>3. DOMAIN rec.entries = 1..Len(rec.entries) /\ Len(rec.entries) \in Nat
            BY <2>2, Joined
        <2>4. GenRld!Keeps(RldFields, rec.entries)
            BY GenEntrySame, SameIsKept DEF GenRld!Keeps
        <2>5. GenRld!Kept(RldFields, r, GenRld!Fold(r, rec.entries))
            BY <2>3, <2>4, GenRld!FoldKept
        <2>6. Same(RldFields, r, gen_process(r, rec))
            BY <2>1, <2>5, SameIsKept
        <2> QED BY <2>6, SameMore DEF GenFields, RldFields
    <1>4. CASE rec.type \notin {"GSD", "TEXT", "RLD"}
        <2>1. gen_process(r, rec) = r
            BY <1>4 DEF gen_process
        <2> QED BY <2>1 DEF Same
    <1> QED BY <1>1, <1>2, <1>3, <1>4

LEMMA DumpRecordSame ==
    ASSUME NEW rec, NEW s, RecordOk(rec, s), NEW r
    PROVE  /\ Same(DumpFields, r, dump_process(r, rec))
           /\ rec.type # "GSD" => Same(DumpFields \ {"psects", "xferad"}, r, dump_process(r, rec))
    <1>1. CASE rec.type = "GSD"
        <2>1. dump_process(r, rec) = Gsd!Fold(r, rec.entries)
            BY <1>1, GsdIsFold DEF dump_process, got_gsd
        <2>2. IsSeq(rec.entries)
            BY <1>1 DEF RecordOk, EntriesTyped
        <2>3. Same({"psects", "xferad", "wrong"}, r, dump_process(r, rec))
            BY <2>1, <2>2, GsdSame
        <2> QED BY <1>1, <2>3, SameMore DEF DumpFields, RldFields
    <1>2. CASE rec.type = "TEXT"
        <2>1. PICK w : w = [r EXCEPT !.last_text_addr = rec.addr]
            OBVIOUS
        <2>2. PICK v : dump_process(r, rec) = [w EXCEPT !.bin = v]
            BY <1>2, <2>1 DEF dump_process, dump_got_text, dump_bin
        <2>3. Same({"last_text_addr", "bin"}, r, dump_process(r, rec))
            BY <2>1, <2>2 DEF Same
        <2> QED BY <2>3, SameMore DEF DumpFields, RldFields
    <1>3. CASE rec.type = "RLD"
        <2>1. dump_process(r, rec) = DumpRld!Fold(r, rec.entries)
            BY <1>3, DumpRldIsFold DEF dump_process, dump_got_rld
        <2>2. IsSeq(rec.entries)
            BY <1>3 DEF RecordOk
        <2>3. DOMAIN rec.entries = 1..Len(rec.entries) /\ Len(rec.entries) \in Nat
            BY <2>2, Joined
        <2>4. DumpRld!Keeps(RldFields, rec.entries)
            BY DumpEntrySame, SameIsKept DEF DumpRld!Keeps
        <2>5. DumpRld!Kept(RldFields, r, DumpRld!Fold(r, rec.entries))
            BY <2>3, <2>4, DumpRld!FoldKept
        <2>6. Same(RldFields, r, dump_process(r, rec))
            BY <2>1, <2>5, SameIsKept
        <2> QED BY <2>6, SameMore DEF DumpFields, RldFields
    <1>4. CASE rec.type \notin {"GSD", "TEXT", "RLD"}
        <2>1. dump_process(r, rec) = r
            BY <1>4 DEF dump_process
        <2> QED BY <2>1 DEF Same
    <1> QED BY <1>1, <1>2, <1>3, <1>4

LEMMA ReadableRecords ==
    ASSUME NEW f, Readable(f)
    PROVE  \A k \in DOMAIN f : \E s : RecordOk(f[k], s)
    <1>1. PICK n : n = Len(f)
        OBVIOUS
    <1>2. n \in Nat /\ DOMAIN f = 1..n /\ n \in 0..n
        BY <1>1, Joined DEF Readable
    <1>3. PICK g : Linking!Chain(g, NoLink, f, n)
        BY <1>2, Linking!FoldChain
    <1>4. ReadableTo(f, n)
        BY <1>1, <1>2 DEF Readable
    <1> QED BY <1>2, <1>3, <1>4 DEF ReadableTo

-----------------------------------------------------------------------------
LEMMA GenSame ==
    ASSUME NEW f, Readable(f), NEW r
    PROVE  Same(GenFields, r, Gen!Fold(r, f))
    <1>1. DOMAIN f = 1..Len(f) /\ Len(f) \in Nat
        BY Joined DEF Readable
    <1>2. Gen!Keeps(GenFields, f)
        BY ReadableRecords, GenRecordSame, SameIsKept DEF Gen!Keeps
    <1>3. Gen!Kept(GenFields, r, Gen!Fold(r, f))
        BY <1>1, <1>2, Gen!FoldKept
    <1> QED BY <1>3, SameIsKept

LEMMA GenFileSame ==
    ASSUME NEW f, FileOk(f), NEW r
    PROVE  Same(GenFields \ {"psects"}, r, Gen!Fold(r, f))
    <1>1. DOMAIN f = 1..Len(f) /\ Len(f) \in Nat
        BY Joined DEF Readable, FileOk
    <1>2. ASSUME NEW k \in DOMAIN f, NEW q
          PROVE  Same(GenFields \ {"psects"}, q, gen_process(q, f[k]))
        BY ReadableRecords, GenRecordSame DEF FileOk
    <1>3. Gen!Keeps(GenFields \ {"psects"}, f)
        BY <1>2, SameIsKept DEF Gen!Keeps
    <1>4. Gen!Kept(GenFields \ {"psects"}, r, Gen!Fold(r, f))
        BY <1>1, <1>3, Gen!FoldKept
    <1> QED BY <1>4, SameIsKept

LEMMA DumpSame ==
    ASSUME NEW f, Readable(f), NEW r
    PROVE  Same(DumpFields, r, Dump!Fold(r, f))
    <1>1. DOMAIN f = 1..Len(f) /\ Len(f) \in Nat
        BY Joined DEF Readable
    <1>2. Dump!Keeps(DumpFields, f)
        BY ReadableRecords, DumpRecordSame, SameIsKept DEF Dump!Keeps
    <1>3. Dump!Kept(DumpFields, r, Dump!Fold(r, f))
        BY <1>1, <1>2, Dump!FoldKept
    <1> QED BY <1>3, SameIsKept

LEMMA DumpFileSame ==
    ASSUME NEW f, FileOk(f), NEW r
    PROVE  Same(DumpFields \ {"psects"}, r, Dump!Fold(r, f))
    <1>1. DOMAIN f = 1..Len(f) /\ Len(f) \in Nat
        BY Joined DEF Readable, FileOk
    <1>2. ASSUME NEW k \in DOMAIN f, NEW q
          PROVE  Same(DumpFields \ {"psects"}, q, dump_process(q, f[k]))
        <2>1. (DumpFields \ {"psects", "xferad"}) \subseteq DumpFields \ {"psects"}
            OBVIOUS
        <2> QED BY <2>1, ReadableRecords, DumpRecordSame, SameMore DEF FileOk
    <1>3. Dump!Keeps(DumpFields \ {"psects"}, f)
        BY <1>2, SameIsKept DEF Dump!Keeps
    <1>4. Dump!Kept(DumpFields \ {"psects"}, r, Dump!Fold(r, f))
        BY <1>1, <1>3, Dump!FoldKept
    <1> QED BY <1>4, SameIsKept

(* Both read a directory as it is read above.                              *)
LEMMA DirectoryFolds ==
    ASSUME NEW d, DirShape(d), NEW r
    PROVE  Gen!Fold(r, d) = Dir!Fold(r, d) /\ Dump!Fold(r, d) = Dir!Fold(r, d)
    <1>1. PICK n : n = Len(d)
        OBVIOUS
    <1>2. n \in Nat /\ DOMAIN d = 1..n
        BY <1>1, Joined DEF DirShape
    <1>3. PICK g : Gen!Chain(g, r, d, n) /\ g[n] = Gen!Fold(r, d)
        BY <1>2, Gen!FoldChain
    <1>4. PICK h : Dump!Chain(h, r, d, n) /\ h[n] = Dump!Fold(r, d)
        BY <1>2, Dump!FoldChain
    <1>5. PICK c : Dir!Chain(c, r, d, n) /\ c[n] = Dir!Fold(r, d)
        BY <1>2, Dir!FoldChain
    <1>6. ASSUME NEW k \in 1..n, NEW q
          PROVE  gen_process(q, d[k]) = DirRecord(q, d[k]) /\ dump_process(q, d[k]) = DirRecord(q, d[k])
        <2>1. d[k].type \in {"GSD", "ENDGSD"}
            BY <1>2 DEF DirShape, DirRecordOk
        <2> QED BY <2>1, GsdIsFold DEF gen_process, dump_process, got_gsd, DirRecord
    <1>7. Dir!Chain(g, r, d, n)
        BY <1>3, <1>6 DEF Gen!Chain, Dir!Chain
    <1>8. Dir!Chain(h, r, d, n)
        BY <1>4, <1>6 DEF Dump!Chain, Dir!Chain
    <1> QED BY <1>2, <1>3, <1>4, <1>5, <1>7, <1>8, Dir!ChainsAgree

LEMMA SequencesJoin ==
    ASSUME NEW s, IsSeq(s), NEW t, IsSeq(t)
    PROVE  Gen!Joins(s \o t, s, t) /\ Dump!Joins(s \o t, s, t)
    <1>1. PICK n, m : n = Len(s) /\ m = Len(t)
        OBVIOUS
    <1>2. /\ n \in Nat /\ m \in Nat /\ DOMAIN s = 1..n /\ DOMAIN t = 1..m
          /\ DOMAIN (s \o t) = 1..(n + m)
          /\ \A i \in 1..n : (s \o t)[i] = s[i]
          /\ \A i \in 1..m : (s \o t)[n + i] = t[i]
        BY <1>1, Joined
    <1> QED BY <1>2 DEF Gen!Joins, Dump!Joins

(* What the readers know of the sections when they have read a file.       *)
LEMMA SectionsNumbered ==
    ASSUME NEW globals, globals \in Seq(ToSet(globals)), NEW d, d = Directory(globals),
           NEW f, FileOk(f), NEW r, "psects" \in DOMAIN r, r.psects = <<>>
    PROVE  /\ Gen!Fold(r, d \o f).psects = Sections
           /\ Dump!Fold(r, d \o f).psects = Sections
    <1>1. DirShape(d) /\ Dir!Fold(r, d).psects = Sections
        BY DirectoryWritten
    <1>2. IsSeq(d) /\ IsSeq(f) /\ Readable(d)
        BY <1>1, DirReadable DEF DirShape, FileOk, Readable
    <1>3. /\ Gen!Fold(r, d \o f) = Gen!Fold(Gen!Fold(r, d), f)
          /\ Dump!Fold(r, d \o f) = Dump!Fold(Dump!Fold(r, d), f)
        BY <1>2, SequencesJoin, Gen!FoldJoined, Dump!FoldJoined
    <1>4. PICK q : q = Gen!Fold(r, d)
        OBVIOUS
    <1>5. PICK p : p = Dump!Fold(r, d)
        OBVIOUS
    <1>6. q.psects = Sections /\ p.psects = Sections
        BY <1>1, <1>4, <1>5, DirectoryFolds
    <1>7. "psects" \in DOMAIN q /\ "psects" \in DOMAIN p
        BY <1>2, <1>4, <1>5, GenSame, DumpSame DEF Same
    <1>8. Gen!Fold(q, f).psects = q.psects
        BY <1>7, GenFileSame DEF Same
    <1>9. Dump!Fold(p, f).psects = p.psects
        BY <1>7, DumpFileSame DEF Same
    <1> QED BY <1>3, <1>4, <1>5, <1>6, <1>8, <1>9

-----------------------------------------------------------------------------
(* What the writer has made can be read: the buffers while they are open,  *)
(* the directory and the file.                                             *)
WInv ==
    /\ IInv
    /\ phase \in {"gsd", "text", "closed"}
    /\ phase # "closed" => PlacedOut(Out) /\ Sec(Out) = last_dot_section
    /\ FileOk(file)
    /\ directory = IF phase = "gsd" THEN <<>> ELSE Directory(palette.globals)
    /\ last_dot_section \in ToSet(Sections) \cup {NoSection}
    /\ last_dot_addr \in Nat
    /\ stores \in 0..MaxStores /\ moves \in 0..MaxMoves

LEMMA PlacedPrimed ==
    ASSUME NEW p, Out' = p, PlacedOut(p), Sec(p) = last_dot_section'
    PROVE  PlacedOut(Out)' /\ Sec(Out)' = last_dot_section'
    BY DEF PlacedOut, WellOut, Sec, GoodOut, GoodBuffers, Shape, GoodFile

LEMMA PlacedStart ==
    ASSUME WriterInit
    PROVE  WInv
    <1>1. /\ phase = "gsd" /\ tr = text_init(0) /\ file = <<>> /\ current = Sections[1]
          /\ directory = <<>> /\ last_dot_section = NoSection
          /\ last_dot_addr = 0 /\ stores = 0 /\ moves = 0
        BY DEF WriterInit
    <1>2. current \in ToSet(Sections)
        BY <1>1, SectionsAssumption
    <1>3. IInv
        BY <1>2, InitGood
    <1>4. LinkedFrom(<<>>) = NoLink
        <2>1. DOMAIN <<>> = {}
            BY Short
        <2> QED BY <2>1, LinkedIsFold, Linking!FoldEmpty
    <1>5. NoLink.section = NoSection /\ NoLink.image = <<>> /\ NoLink.fixups = {}
        BY DEF NoLink
    <1>6. IsLink(NoLink)
        <2>1. <<>> = [x \in DOMAIN <<>> |-> <<>>[x]]
            OBVIOUS
        <2> QED BY <1>5, <2>1 DEF IsLink, NoLink
    <1>7. Out.tr = text_init(0) /\ Out.file = <<>>
        BY <1>1 DEF Out
    <1>8. Attached(Out.tr) /\ Sec(Out) = NoSection
        <2>1. 0 \in Nat /\ LinkedFrom(Out.file) = NoLink
            BY <1>4, <1>7
        <2> QED BY <1>5, <1>6, <1>7, <2>1, FreshView
    <1>9. WellOut(Out)
        BY <1>1, <1>3, <1>4, <1>6, <1>7, <1>8 DEF WellOut, GoodOut, IInv
    <1>10. FileOk(<<>>)
        <2>1. DOMAIN <<>> = {}
            BY Short
        <2> QED BY <2>1, ReadableEmpty DEF FileOk
    <1>11. EntriesOk(Out.tr.rld, Sec(Out))
        BY <1>7, Short DEF EntriesOk, text_init
    <1>12. PlacedOut(Out)
        BY <1>7, <1>9, <1>10, <1>11 DEF PlacedOut
    <1>13. 0 \in 0..MaxStores /\ 0 \in 0..MaxMoves /\ 0 \in Nat
        BY BoundsAssumption
    <1> QED BY <1>1, <1>3, <1>8, <1>10, <1>12, <1>13 DEF WInv

LEMMA PlacedStoreStep ==
    ASSUME WInv, NEW kind \in palette.kinds, NEW size \in Sizes(kind),
           NEW word \in WordsOf(kind), NEW name \in Names(kind), NEW expr \in ExprsOf(kind),
           Store(kind, size, word, name, expr)
    PROVE  WInv'
    <1> DEFINE c == change_dot(Out)
               q == Stored(c, kind, size, word, name, expr)
    <1>1. /\ phase = "text" /\ PlacedOut(Out) /\ Sec(Out) = last_dot_section
          /\ current \in ToSet(Sections) /\ stores \in 0..MaxStores
          /\ pc \in [ToSet(Sections) -> Nat] /\ DOT \in Nat /\ kind \in Kinds
        BY PalettesAssumption DEF WInv, IInv, Store, DOT
    <1>2. PlacedOut(c) /\ Sec(c) = current
        BY <1>1, PlacedChange
    <1>3. /\ tr' = q.tr /\ file' = q.file /\ phase' = "text"
          /\ last_dot_section' = current /\ last_dot_addr' = DOT + size
          /\ stores < MaxStores /\ stores' = stores + 1 /\ moves' = moves
          /\ directory' = directory /\ palette' = palette
        BY <1>1 DEF Store, Out
    <1> HIDE DEF c
    <1>4. PlacedOut(q) /\ Sec(q) = current
        BY <1>1, <1>2, PlacedStored
    <1> HIDE DEF q
    <1>6. PICK p : p = [tr |-> q.tr, file |-> q.file]
        OBVIOUS
    <1>7. PlacedOut(p) /\ Sec(p) = current
        BY <1>4, <1>6, OutPlaced
    <1>8. Out' = p
        BY <1>3, <1>6 DEF Out
    <1>9. PlacedOut(Out)' /\ Sec(Out)' = last_dot_section'
        BY <1>3, <1>7, <1>8, PlacedPrimed
    <1>10. IInv'
        BY StepGood DEF WInv, WriterStep
    <1>11. last_dot_addr' \in Nat /\ stores' \in 0..MaxStores
        <2>1. size \in {1, 2, 4}
            BY <1>1 DEF Sizes, Kinds
        <2> QED BY <1>1, <1>3, <2>1, BoundsAssumption
    <1>12. FileOk(file')
        BY <1>3, <1>4 DEF PlacedOut
    <1> QED BY <1>1, <1>3, <1>9, <1>10, <1>11, <1>12 DEF WInv, FileOk, Readable, ReadableTo

-----------------------------------------------------------------------------
(* The operations that write nothing.                                      *)
LEMMA PlacedQuietStep ==
    ASSUME WInv, [WriterStep]_writerVars, UNCHANGED <<tr, file, last_dot_section, palette>>,
           last_dot_addr' = last_dot_addr, stores' = stores, moves' \in 0..MaxMoves,
           phase' \in {"gsd", "text", "closed"}, phase # "closed",
           directory' = IF phase' = "gsd" THEN <<>> ELSE Directory(palette.globals)
    PROVE  WInv'
    <1>1. IInv'
        BY StepGood DEF WInv
    <1>2. PICK p : p = Out
        OBVIOUS
    <1>3. Out' = p
        BY <1>2 DEF Out
    <1>4. PlacedOut(Out)' /\ Sec(Out)' = last_dot_section'
        BY <1>2, <1>3, PlacedPrimed DEF WInv
    <1>5. FileOk(file)'
        BY DEF WInv, FileOk, Readable, ReadableTo
    <1> QED BY <1>1, <1>4, <1>5 DEF WInv

LEMMA PlacedCloseStep ==
    ASSUME WInv, EndModule
    PROVE  WInv'
    <1> DEFINE f == file \o text_flush(tr)
               rec == [type |-> "ENDMOD"]
    <1>1. /\ phase = "text" /\ phase' = "closed" /\ file' = Append(f, rec)
          /\ UNCHANGED <<palette, directory, last_dot_section, last_dot_addr, stores, moves>>
        BY DEF EndModule
    <1>2. IInv'
        BY StepGood DEF WInv, WriterStep
    <1>3. FileOk(f)
        <2>1. PlacedOut(Out) /\ Out.file = file /\ Out.tr = tr /\ 0 \in Nat
            BY <1>1 DEF WInv, Out
        <2> QED BY <2>1, PlacedFlush
    <1> HIDE DEF f, rec
    <1>4. Append(f, rec) = f \o <<rec>>
        BY <1>3 DEF IsSeq, FileOk, Readable
    <1>5. rec.type = "ENDMOD"
        BY DEF rec
    <1>6. FileOk(f \o <<rec>>)
        <2>1. RecordOk(rec, LinkedFrom(f).section)
            BY <1>5 DEF RecordOk
        <2> QED BY <1>3, <1>5, <2>1, FileAdded
    <1>7. PICK g : g = f \o <<rec>>
        OBVIOUS
    <1>8. file' = g /\ FileOk(g)
        BY <1>1, <1>4, <1>6, <1>7
    <1>9. FileOk(file)'
        BY <1>8 DEF FileOk, Readable, ReadableTo
    <1> QED BY <1>1, <1>2, <1>9 DEF WInv

LEMMA WriterPlaced ==
    ASSUME WInv, [WriterStep]_writerVars
    PROVE  WInv'
    <1>1. ASSUME write_globals PROVE WInv'
        <2>1. /\ phase = "gsd" /\ phase' = "text"
              /\ UNCHANGED <<tr, file, last_dot_section, palette>>
              /\ last_dot_addr' = last_dot_addr /\ stores' = stores /\ moves' = moves
            BY <1>1 DEF write_globals
        <2>2. directory' = Directory(palette.globals)
            BY <1>1 DEF write_globals, Directory, DirEntries
        <2>3. moves' \in 0..MaxMoves /\ phase' \in {"gsd", "text", "closed"}
            BY <2>1 DEF WInv
        <2> QED BY <2>1, <2>2, <2>3, PlacedQuietStep
    <1>2. ASSUME NEW kind \in palette.kinds, NEW size \in Sizes(kind),
                 NEW word \in WordsOf(kind), NEW name \in Names(kind),
                 NEW expr \in ExprsOf(kind), Store(kind, size, word, name, expr)
          PROVE  WInv'
        BY <1>2, PlacedStoreStep
    <1>3. ASSUME NEW a \in Origins, SetDot(a) PROVE WInv'
        <2>1. /\ phase = "text" /\ phase' = "text" /\ moves < MaxMoves /\ moves' = moves + 1
              /\ UNCHANGED <<tr, file, last_dot_section, palette>>
              /\ last_dot_addr' = last_dot_addr /\ stores' = stores /\ directory' = directory
            BY <1>3 DEF SetDot
        <2>2. moves' \in 0..MaxMoves
            BY <2>1, BoundsAssumption DEF WInv
        <2>3. directory' = Directory(palette.globals) /\ phase' \in {"gsd", "text", "closed"}
            BY <2>1 DEF WInv
        <2> QED BY <2>1, <2>2, <2>3, PlacedQuietStep
    <1>4. ASSUME NEW s \in ToSet(Sections), go_section(s) PROVE WInv'
        <2>1. /\ phase = "text" /\ phase' = "text" /\ moves < MaxMoves /\ moves' = moves + 1
              /\ UNCHANGED <<tr, file, last_dot_section, palette>>
              /\ last_dot_addr' = last_dot_addr /\ stores' = stores /\ directory' = directory
            BY <1>4 DEF go_section
        <2>2. moves' \in 0..MaxMoves
            BY <2>1, BoundsAssumption DEF WInv
        <2>3. directory' = Directory(palette.globals) /\ phase' \in {"gsd", "text", "closed"}
            BY <2>1 DEF WInv
        <2> QED BY <2>1, <2>2, <2>3, PlacedQuietStep
    <1>5. ASSUME EndModule PROVE WInv'
        BY <1>5, PlacedCloseStep
    <1>6. ASSUME UNCHANGED writerVars PROVE WInv'
        <2>1. /\ UNCHANGED <<tr, file, last_dot_section, palette>> /\ phase' = phase
              /\ last_dot_addr' = last_dot_addr /\ stores' = stores /\ moves' = moves
              /\ directory' = directory
            BY <1>6 DEF writerVars
        <2>2. CASE phase # "closed"
            <3>1. /\ moves' \in 0..MaxMoves /\ phase' \in {"gsd", "text", "closed"}
                  /\ directory' = IF phase' = "gsd" THEN <<>> ELSE Directory(palette.globals)
                BY <2>1 DEF WInv
            <3> QED BY <2>1, <2>2, <3>1, PlacedQuietStep
        <2>3. CASE phase = "closed"
            <3>1. IInv'
                BY StepGood DEF WInv
            <3>2. FileOk(file)'
                BY <2>1 DEF WInv, FileOk, Readable, ReadableTo
            <3> QED BY <2>1, <2>3, <3>1, <3>2 DEF WInv
        <2> QED BY <2>2, <2>3
    <1> QED BY <1>1, <1>2, <1>3, <1>4, <1>5, <1>6 DEF WriterStep

(* The directory, written or not, and what readrec returns.                *)
LEMMA DirectoryShaped ==
    ASSUME WInv
    PROVE  DirShape(directory)
    <1>1. DirShape(<<>>)
        <2>1. IsSeq(<<>>) /\ DOMAIN <<>> = {}
            BY Short
        <2> QED BY <2>1 DEF DirShape
    <1>2. palette.globals \in Seq(ToSet(palette.globals))
        BY PalettesAssumption DEF WInv, IInv
    <1>3. PICK globals : globals = palette.globals
        OBVIOUS
    <1>4. GenReset.psects = <<>> /\ "psects" \in DOMAIN GenReset
        BY DEF GenReset
    <1>5. DirShape(Directory(globals))
        BY <1>2, <1>3, <1>4, DirectoryWritten
    <1> QED BY <1>1, <1>3, <1>5 DEF WInv

LEMMA IntactReadable ==
    ASSUME WInv, damaged \in 0..Len(directory \o file)
    PROVE  Readable(Intact)
    <1>1. Readable(directory) /\ Readable(file)
        BY DirectoryShaped, DirReadable DEF WInv, FileOk
    <1>2. \A k \in DOMAIN directory : directory[k].type \notin {"TEXT", "RLD"}
        BY DirectoryShaped DEF DirShape, DirRecordOk
    <1>3. PICK f : f = directory \o file
        OBVIOUS
    <1>4. Readable(f)
        BY <1>1, <1>2, <1>3, ReadableJoined
    <1>5. CASE damaged = 0
        BY <1>3, <1>4, <1>5 DEF Intact
    <1>6. CASE damaged # 0
        <2>1. IsSeq(f) /\ Len(f) \in Nat /\ damaged \in 1..Len(f) /\ damaged - 1 \in 0..Len(f)
            BY <1>3, <1>4, <1>6, Joined DEF Readable
        <2>2. PICK m : m = damaged - 1
            OBVIOUS
        <2>3. PICK p : p = SubSeq(f, 1, m)
            OBVIOUS
        <2>4. PICK S : f \in Seq(S)
            BY <2>1 DEF IsSeq
        <2>5. /\ p \in Seq(S) /\ Len(p) = m /\ \A k \in 1..m : p[k] = f[k]
            BY <2>1, <2>2, <2>3, <2>4
        <2>6. IsSeq(p)
            BY <2>5 DEF IsSeq
        <2>7. Readable(p)
            BY <1>4, <2>1, <2>2, <2>5, <2>6, ReadablePrefix
        <2> QED BY <1>3, <1>6, <2>2, <2>3, <2>7 DEF Intact
    <1> QED BY <1>5, <1>6

-----------------------------------------------------------------------------
(* The readers: they have not read yet, or they have read what is intact,  *)
(* and the file has not changed since.                                     *)
GenFinal  == Gen!Fold(GenReset, Intact)
DumpFinal == Dump!Fold(DumpReset, Intact)

ReadersInv ==
    /\ damaged \in 0..Len(directory \o file)
    /\ phase # "closed" => damaged = 0
    /\ gen = GenReset \/ (phase = "closed" /\ gen = gen_main(GenFinal))
    /\ dump = DumpReset \/ (gen.state = "done" /\ dump = dump_main(DumpFinal))

LEMMA GenMain ==
    ASSUME NEW r
    PROVE  LET base == IF r.lowestloc = NoAddress THEN 0 ELSE r.lowestloc
               q == gen_main(r)
           IN /\ DOMAIN q = DOMAIN r
              /\ "state" \in DOMAIN r => q.state = "done"
              /\ "psects" \in DOMAIN r => q.psects = r.psects
              /\ "lowestloc" \in DOMAIN r => q.lowestloc = base
              /\ "meme" \in DOMAIN r =>
                    q.meme = [k \in 0..(ImageWords - 1) |-> Byte(r.blkram, base + 2 * k)]
              /\ "memo" \in DOMAIN r =>
                    q.memo = [k \in 0..(ImageWords - 1) |-> Byte(r.blkram, base + 2 * k + 1)]
              /\ "fnb" \in DOMAIN r =>
                    q.fnb = [a \in 0..(2 * ImageWords - 1) |-> Byte(r.blkram, a)]
    <1> DEFINE base == IF r.lowestloc = NoAddress THEN 0 ELSE r.lowestloc
    <1>1. PICK e : e = [k \in 0..(ImageWords - 1) |-> Byte(r.blkram, base + 2 * k)]
        OBVIOUS
    <1>2. PICK o : o = [k \in 0..(ImageWords - 1) |-> Byte(r.blkram, base + 2 * k + 1)]
        OBVIOUS
    <1>3. PICK s : s = IF r.wrong > 0 THEN -1 ELSE 0
        OBVIOUS
    <1>4. PICK f : f = [a \in 0..(2 * ImageWords - 1) |-> Byte(r.blkram, a)]
        OBVIOUS
    <1>5. PICK b : b = base
        OBVIOUS
    <1>6. PICK q : q = gen_main(r)
        OBVIOUS
    <1>7. q = [r EXCEPT !.state = "done", !.lowestloc = b, !.meme = e, !.memo = o, !.fnb = f,
                        !.status = s]
        BY <1>1, <1>2, <1>3, <1>5, <1>6, <1>4 DEF gen_main
    <1> HIDE DEF base
    <1>8. /\ DOMAIN q = DOMAIN r
          /\ "state" \in DOMAIN r => q.state = "done"
          /\ "psects" \in DOMAIN r => q.psects = r.psects
          /\ "lowestloc" \in DOMAIN r => q.lowestloc = b
          /\ "meme" \in DOMAIN r => q.meme = e
          /\ "memo" \in DOMAIN r => q.memo = o
          /\ "fnb" \in DOMAIN r => q.fnb = f
        BY <1>7
    <1> QED BY <1>1, <1>2, <1>5, <1>6, <1>8, <1>4 DEF base

LEMMA DumpMain ==
    ASSUME NEW r
    PROVE  LET q == dump_main(r)
           IN /\ DOMAIN q = DOMAIN r
              /\ "state" \in DOMAIN r => q.state = "done"
              /\ "psects" \in DOMAIN r => q.psects = r.psects
              /\ "badbin" \in DOMAIN r => q.badbin = r.badbin
              /\ "bin" \in DOMAIN r =>
                    q.bin = Append(r.bin, [addr |-> r.xferad, bytes |-> <<>>])
    <1>1. PICK b : b = Append(r.bin, [addr |-> r.xferad, bytes |-> <<>>])
        OBVIOUS
    <1>2. PICK p : p = [r EXCEPT !.bin = b]
        OBVIOUS
    <1>3. PICK q : q = dump_main(r)
        OBVIOUS
    <1>4. q = [p EXCEPT !.state = "done"]
        BY <1>1, <1>2, <1>3 DEF dump_main, dump_bin
    <1>5. /\ DOMAIN q = DOMAIN r
          /\ "state" \in DOMAIN r => q.state = "done"
          /\ "psects" \in DOMAIN r => q.psects = r.psects
          /\ "badbin" \in DOMAIN r => q.badbin = r.badbin
          /\ "bin" \in DOMAIN r => q.bin = b
        BY <1>2, <1>4
    <1> QED BY <1>1, <1>3, <1>5

(* The fields of the readers after the records.                            *)
LEMMA GenEnds ==
    ASSUME WInv, damaged \in 0..Len(directory \o file)
    PROVE  /\ {"state", "psects", "lowestloc", "meme", "memo", "fnb", "blkram"} \subseteq DOMAIN GenFinal
           /\ gen_main(GenFinal).state = "done"
    <1>1. Same(GenFields, GenReset, GenFinal)
        BY IntactReadable, GenSame DEF GenFinal
    <1>2. {"state", "psects", "lowestloc", "meme", "memo", "fnb", "blkram"} \subseteq DOMAIN GenReset
        BY DEF GenReset
    <1>3. {"state", "psects", "lowestloc", "meme", "memo", "fnb", "blkram"} \subseteq DOMAIN GenFinal
        BY <1>1, <1>2 DEF Same
    <1> QED BY <1>3, GenMain

LEMMA DumpEnds ==
    ASSUME WInv, damaged \in 0..Len(directory \o file)
    PROVE  /\ {"state", "psects", "badbin", "bin"} \subseteq DOMAIN DumpFinal
           /\ dump_main(DumpFinal).state = "done"
    <1>1. Same(DumpFields, DumpReset, DumpFinal)
        BY IntactReadable, DumpSame DEF DumpFinal
    <1>2. {"state", "psects", "badbin", "bin"} \subseteq DOMAIN DumpReset
        BY DEF DumpReset
    <1>3. {"state", "psects", "badbin", "bin"} \subseteq DOMAIN DumpFinal
        BY <1>1, <1>2 DEF Same
    <1> QED BY <1>3, DumpMain

LEMMA ReadersDone ==
    ASSUME WInv, ReadersInv
    PROVE  /\ gen.state = "idle" => gen = GenReset
           /\ gen.state = "done" => phase = "closed" /\ gen = gen_main(GenFinal)
           /\ dump.state = "idle" => dump = DumpReset
           /\ dump.state = "done" => gen.state = "done" /\ dump = dump_main(DumpFinal)
           /\ gen.state \in {"idle", "done"} /\ dump.state \in {"idle", "done"}
    <1>1. GenReset.state = "idle" /\ DumpReset.state = "idle"
        BY DEF GenReset, DumpReset
    <1>2. gen_main(GenFinal).state = "done" /\ dump_main(DumpFinal).state = "done"
        BY GenEnds, DumpEnds DEF ReadersInv
    <1> QED BY <1>1, <1>2 DEF ReadersInv

LEMMA ReadersInvStart ==
    ASSUME Init
    PROVE  WInv /\ ReadersInv
    <1>1. WInv
        BY PlacedStart DEF Init
    <1>2. directory = <<>> /\ file = <<>> /\ damaged = 0 /\ gen = GenReset /\ dump = DumpReset
        BY DEF Init, WriterInit
    <1>3. Len(directory \o file) \in Nat
        BY <1>2, Short, Joined
    <1> QED BY <1>1, <1>2, <1>3 DEF ReadersInv

LEMMA ReadersInvStep ==
    ASSUME WInv, ReadersInv, [Next]_vars
    PROVE  WInv' /\ ReadersInv'
    <1>1. WInv'
        <2>1. [WriterStep]_writerVars
            BY DEF Next, WriterNext, Damage, genblkram, dumpobj, vars, writerVars
        <2> QED BY <2>1, WriterPlaced
    <1>2. CASE WriterNext /\ UNCHANGED readerVars
        <2>1. phase # "closed"
            BY <1>2 DEF WriterNext, WriterStep, write_globals, Store, SetDot, go_section, EndModule
        <2>2. damaged = 0 /\ gen = GenReset /\ dump = DumpReset
            BY <2>1, ReadersDone DEF ReadersInv
        <2>3. damaged' = 0 /\ gen' = GenReset /\ dump' = DumpReset
            BY <1>2, <2>2 DEF readerVars
        <2>4. IsSeq(directory') /\ IsSeq(file')
            <3>1. DirShape(directory)'
                BY <1>1, DirectoryShaped, PTL
            <3> QED BY <1>1, <3>1 DEF DirShape, WInv, FileOk, Readable
        <2>5. Len(directory' \o file') \in Nat
            <3>1. IsSeq(directory' \o file')
                BY <2>4, Joined
            <3> QED BY <3>1, Joined
        <2> QED BY <1>1, <2>3, <2>5 DEF ReadersInv
    <1>3. CASE Damage
        <2>1. /\ phase = "closed" /\ gen.state = "idle" /\ damaged' \in 1..Len(directory \o file)
              /\ phase' = phase /\ directory' = directory /\ file' = file
              /\ gen' = gen /\ dump' = dump
            BY <1>3 DEF Damage, writerVars
        <2>2. gen = GenReset /\ dump = DumpReset
            <3>1. dump.state # "done"
                BY <2>1, ReadersDone
            <3> QED BY <2>1, <3>1, ReadersDone
        <2>3. damaged' \in 0..Len(directory \o file)
            BY <2>1
        <2> QED BY <1>1, <2>1, <2>2, <2>3 DEF ReadersInv
    <1>4. CASE genblkram \/ dumpobj \/ UNCHANGED vars
        <2>1. UNCHANGED <<phase, directory, file, damaged>>
            BY <1>4 DEF genblkram, dumpobj, vars, writerVars, readerVars
        <2>2. Intact' = Intact
            BY <2>1 DEF Intact
        <2>3. GenFinal' = GenFinal /\ DumpFinal' = DumpFinal
            BY <2>2 DEF GenFinal, DumpFinal
        <2>4. gen_main(GenFinal).state = "done"
            BY GenEnds DEF ReadersInv
        <2>5. CASE genblkram
            <3>1. phase = "closed" /\ gen.state = "idle" /\ dump' = dump
                  /\ gen' = gen_main(FoldLeft(gen_process, gen, Intact))
                BY <2>5 DEF genblkram
            <3>2. gen' = gen_main(GenFinal)
                BY <3>1, ReadersDone, GenIsFold DEF GenFinal
            <3>3. dump = DumpReset
                BY <3>1, ReadersDone
            <3> QED BY <1>1, <2>1, <2>3, <3>1, <3>2, <3>3 DEF ReadersInv
        <2>6. CASE dumpobj
            <3>1. gen.state = "done" /\ dump.state = "idle" /\ gen' = gen
                  /\ dump' = dump_main(FoldLeft(dump_process, dump, Intact))
                BY <2>6 DEF dumpobj
            <3>2. dump' = dump_main(DumpFinal)
                BY <3>1, ReadersDone, DumpIsFold DEF DumpFinal
            <3>3. phase = "closed" /\ gen = gen_main(GenFinal)
                BY <3>1, ReadersDone
            <3>4. /\ damaged' \in 0..Len(directory' \o file') /\ phase' = "closed"
                  /\ gen' = gen_main(GenFinal') /\ gen'.state = "done"
                  /\ dump' = dump_main(DumpFinal')
                BY <2>1, <2>3, <3>1, <3>2, <3>3 DEF ReadersInv
            <3> QED BY <1>1, <3>4 DEF ReadersInv
        <2>7. CASE UNCHANGED vars
            <3>1. gen' = gen /\ dump' = dump
                BY <2>7 DEF vars, readerVars
            <3> QED BY <1>1, <2>1, <2>3, <3>1 DEF ReadersInv
        <2> QED BY <1>4, <2>5, <2>6, <2>7
    <1> QED BY <1>1, <1>2, <1>3, <1>4 DEF Next

-----------------------------------------------------------------------------
LEMMA TypesHold ==
    ASSUME WInv, ReadersInv
    PROVE  TypeOK
    <1>1. tr.txt_addr \in Nat /\ tr.rld_offset \in Nat \ {0, 1}
        BY DEF WInv, IInv, GoodBuffers, Shape
    <1>2. gen.state \in {"idle", "done"} /\ dump.state \in {"idle", "done"}
        BY ReadersDone
    <1> QED BY <1>1, <1>2 DEF WInv, IInv, ReadersInv, TypeOK

LEMMA SectorsHold ==
    ASSUME WInv, ReadersInv
    PROVE  SectorsNumbered
    <1>1. ASSUME NEW k \in DOMAIN directory, directory[k].type = "GSD"
          PROVE  2 + 8 * Len(directory[k].entries) <= GsdMax
        BY <1>1, DirectoryShaped DEF DirShape, DirRecordOk
    <1>2. ASSUME phase = "closed", damaged = 0
          PROVE  GenFinal.psects = Sections /\ DumpFinal.psects = Sections
        <2>1. Intact = directory \o file
            BY <1>2 DEF Intact
        <2>2. palette.globals \in Seq(ToSet(palette.globals))
            BY PalettesAssumption DEF WInv, IInv
        <2>3. directory = Directory(palette.globals) /\ FileOk(file)
            BY <1>2 DEF WInv
        <2>4. PICK globals : globals = palette.globals
            OBVIOUS
        <2>5. "psects" \in DOMAIN GenReset /\ GenReset.psects = <<>>
            BY DEF GenReset
        <2>6. "psects" \in DOMAIN DumpReset /\ DumpReset.psects = <<>>
            BY DEF DumpReset
        <2>7. GenFinal.psects = Sections
            BY <2>1, <2>2, <2>3, <2>4, <2>5, SectionsNumbered DEF GenFinal
        <2>8. DumpFinal.psects = Sections
            BY <2>1, <2>2, <2>3, <2>4, <2>6, SectionsNumbered DEF DumpFinal
        <2> QED BY <2>7, <2>8
    <1>3. ASSUME gen.state = "done", damaged = 0 PROVE gen.psects = Sections
        <2>1. phase = "closed" /\ gen = gen_main(GenFinal)
            BY <1>3, ReadersDone
        <2>2. "psects" \in DOMAIN GenFinal
            BY GenEnds DEF ReadersInv
        <2>3. gen_main(GenFinal).psects = GenFinal.psects
            BY <2>2, GenMain
        <2> QED BY <1>2, <1>3, <2>1, <2>3
    <1>4. ASSUME dump.state = "done", damaged = 0 PROVE dump.psects = Sections
        <2>1. gen.state = "done" /\ dump = dump_main(DumpFinal)
            BY <1>4, ReadersDone
        <2>2. phase = "closed"
            BY <2>1, ReadersDone
        <2>3. "psects" \in DOMAIN DumpFinal
            BY DumpEnds DEF ReadersInv
        <2>4. dump_main(DumpFinal).psects = DumpFinal.psects
            BY <2>3, DumpMain
        <2> QED BY <1>2, <1>4, <2>1, <2>2, <2>4
    <1> QED BY <1>1, <1>3, <1>4 DEF SectorsNumbered

(* The inductive invariant: as long as the program runs, what is in the    *)
(* buffers and in the file can be read record by record; the readers have  *)
(* made of it, or of what is left of it, what their folds make of it.      *)
THEOREM ReadersInvHolds == Spec => [](WInv /\ ReadersInv)
    <1>1. Init => WInv /\ ReadersInv
        BY ReadersInvStart
    <1>2. WInv /\ ReadersInv /\ [Next]_vars => WInv' /\ ReadersInv'
        BY ReadersInvStep
    <1> QED BY <1>1, <1>2, PTL DEF Spec

(* TypeOK, for every size of buffer, program and damage.                   *)
THEOREM ReadersTypeCorrect == Spec => []TypeOK
    <1>1. WInv /\ ReadersInv => TypeOK
        BY TypesHold
    <1> QED BY <1>1, ReadersInvHolds, PTL

(* Whatever globals a program has, in which order and in which sections,   *)
(* and however few entries a directory record holds: both readers number   *)
(* the sections as the writer does, and no record outgrows its buffer.     *)
THEOREM SectorsAreNumbered == Spec => []SectorsNumbered
    <1>1. WInv /\ ReadersInv => SectorsNumbered
        BY SectorsHold
    <1> QED BY <1>1, ReadersInvHolds, PTL

-----------------------------------------------------------------------------
(* A memory that holds the bytes of a one-section program.                 *)
Agrees(image, mem) ==
    \A x \in DOMAIN image :
        /\ x = <<x[1], x[2]>> /\ x[2] \in Int
        /\ x[2] \in DOMAIN mem /\ mem[x[2]] = image[x]

OneSectionOf(image) == \A x, y \in DOMAIN image : x[1] = y[1]

(* Bytes loaded at their address.  Those of another section there would    *)
(* make two sections of the program.                                       *)
LEMMA TextAgrees ==
    ASSUME NEW image, NEW mem, NEW s, NEW a \in Nat, NEW b, IsSeq(b),
           OneSectionOf(Over(image, s, a, b)), Agrees(image, mem)
    PROVE  Agrees(Over(image, s, a, b), dump_words2(mem, a, b))
    <1> DEFINE range == a..(a + Len(b) - 1)
               here == {s} \X range
    <1>1. PICK o : o = Over(image, s, a, b)
        OBVIOUS
    <1>2. PICK m : m = dump_words2(mem, a, b)
        OBVIOUS
    <1>3. o = [x \in DOMAIN image \cup here |-> IF x \in here THEN b[x[2] - a + 1] ELSE image[x]]
        BY <1>1 DEF Over
    <1>4. m = [i \in DOMAIN mem \cup range |-> IF i \in range THEN b[i - a + 1] ELSE mem[i]]
        BY <1>2 DEF dump_words2
    <1>5. Len(b) \in Nat
        BY Joined
    <1>6. range \subseteq Int
        BY <1>5
    <1> HIDE DEF range
    <1>7. ASSUME NEW x \in DOMAIN o
          PROVE  /\ x = <<x[1], x[2]>> /\ x[2] \in Int
                 /\ x[2] \in DOMAIN m /\ m[x[2]] = o[x]
        <2>1. CASE x \in here
            <3>1. x[2] \in range /\ x = <<x[1], x[2]>>
                BY <2>1
            <3> QED BY <1>3, <1>4, <1>6, <2>1, <3>1
        <2>2. CASE x \notin here
            <3>1. x \in DOMAIN image /\ o[x] = image[x]
                BY <1>3, <2>2
            <3>2. /\ x = <<x[1], x[2]>> /\ x[2] \in Int
                  /\ x[2] \in DOMAIN mem /\ mem[x[2]] = image[x]
                BY <3>1 DEF Agrees
            <3>3. x[2] \notin range
                <4>1. SUFFICES ASSUME x[2] \in range PROVE FALSE
                    OBVIOUS
                <4>2. PICK j : j = x[2]
                    OBVIOUS
                <4>3. PICK y : y = <<s, j>>
                    OBVIOUS
                <4>4. y \in here /\ y[1] = s
                    BY <4>1, <4>2, <4>3
                <4>5. y \in DOMAIN o
                    BY <1>3, <4>4
                <4>6. x[1] = s
                    BY <1>1, <1>7, <4>4, <4>5 DEF OneSectionOf
                <4>7. x = y
                    BY <3>2, <4>2, <4>3, <4>6
                <4> QED BY <2>2, <4>4, <4>7
            <3> QED BY <1>4, <3>1, <3>2, <3>3
        <2> QED BY <2>1, <2>2
    <1> HIDE DEF here
    <1>8. Agrees(o, m)
        BY <1>7 DEF Agrees
    <1> QED BY <1>1, <1>2, <1>8

-----------------------------------------------------------------------------
(* What a record changes of what the linker sees.                          *)
LEMMA ImageKept ==
    ASSUME NEW rec, NEW s, RecordOk(rec, s), rec.type # "TEXT", NEW l
    PROVE  /\ DOMAIN LinkRecord(l, rec) = DOMAIN l
           /\ "image" \in DOMAIN l => LinkRecord(l, rec).image = l.image
    <1>1. CASE rec.type = "RLD"
        <2>1. LinkRecord(l, rec) = Fixing!Fold(l, rec.entries)
            BY <1>1, LinkRld
        <2>2. IsSeq(rec.entries)
            BY <1>1 DEF RecordOk
        <2>3. DOMAIN rec.entries = 1..Len(rec.entries) /\ Len(rec.entries) \in Nat
            BY <2>2, Joined
        <2>4. ASSUME NEW k \in DOMAIN rec.entries, NEW r
              PROVE  Fixing!Kept({"section", "last", "fixups"}, r, LinkEntry(r, rec.entries[k]))
            <3>1. PICK e : e = rec.entries[k]
                OBVIOUS
            <3>2. CASE e.code = "LOCDEF"
                <4>1. LinkEntry(r, e) = [r EXCEPT !.section = e.name, !.last = e.word]
                    BY <3>2 DEF LinkEntry
                <4> QED BY <3>1, <4>1 DEF Fixing!Kept
            <3>3. CASE e.code = "LOCMOD"
                <4>1. LinkEntry(r, e) = [r EXCEPT !.last = e.word]
                    BY <3>3 DEF LinkEntry
                <4> QED BY <3>1, <4>1 DEF Fixing!Kept
            <3>4. CASE e.code \notin {"LOCDEF", "LOCMOD"}
                <4>1. PICK w : LinkEntry(r, e) = [r EXCEPT !.fixups = w]
                    BY <3>4 DEF LinkEntry
                <4> QED BY <3>1, <4>1 DEF Fixing!Kept
            <3> QED BY <3>2, <3>3, <3>4
        <2>5. Fixing!Keeps({"section", "last", "fixups"}, rec.entries)
            BY <2>4 DEF Fixing!Keeps
        <2>6. Fixing!Kept({"section", "last", "fixups"}, l, Fixing!Fold(l, rec.entries))
            BY <2>3, <2>5, Fixing!FoldKept
        <2> QED BY <2>1, <2>6 DEF Fixing!Kept
    <1>2. CASE rec.type # "RLD"
        BY <1>2, LinkOther
    <1> QED BY <1>1, <1>2

LEMMA ImageText ==
    ASSUME NEW rec, rec.type = "TEXT", NEW l, {"section", "last", "image", "fixups"} \subseteq DOMAIN l
    PROVE  /\ DOMAIN LinkRecord(l, rec) = DOMAIN l
           /\ LinkRecord(l, rec).image = Over(l.image, l.section, rec.addr, rec.bytes)
           /\ LinkRecord(l, rec).section = l.section
           /\ LinkRecord(l, rec).fixups = l.fixups
    <1>1. PICK o : o = Over(l.image, l.section, rec.addr, rec.bytes)
        OBVIOUS
    <1>2. LinkRecord(l, rec) = [l EXCEPT !.last = rec.addr, !.image = o]
        BY <1>1, LinkText
    <1> QED BY <1>1, <1>2

(* A program of one section has been one all along.                        *)
LEMMA OneSectionBefore ==
    ASSUME NEW i, NEW s, NEW a, NEW b, OneSectionOf(Over(i, s, a, b))
    PROVE  OneSectionOf(i)
    <1>1. DOMAIN i \subseteq DOMAIN Over(i, s, a, b)
        BY DEF Over
    <1> QED BY <1>1 DEF OneSectionOf

LinkFields == {"section", "last", "image", "fixups"}

(* genblkram's memory, and the base that it takes for the image.           *)
RomAgrees(l, g) ==
    /\ LinkFields \subseteq DOMAIN l /\ {"blkram", "lowestloc"} \subseteq DOMAIN g
    /\ g.lowestloc \in Nat
    /\ OneSectionOf(l.image) => Agrees(l.image, g.blkram)

LEMMA LowestKept ==
    ASSUME NEW rec, NEW s, RecordOk(rec, s), rec.type = "RLD", NEW g,
           "lowestloc" \in DOMAIN g, g.lowestloc \in Nat
    PROVE  gen_process(g, rec).lowestloc \in Nat
    <1>1. gen_process(g, rec) = GenRld!Fold(g, rec.entries)
        BY GenRldIsFold DEF gen_process, gen_got_rld
    <1>2. PICK es : es = rec.entries
        OBVIOUS
    <1>3. IsSeq(es) /\ \A i \in DOMAIN es : EntryOk(es[i], s)
        BY <1>2 DEF RecordOk
    <1>4. PICK n : n = Len(es)
        OBVIOUS
    <1>5. n \in Nat /\ DOMAIN es = 1..n
        BY <1>3, <1>4, Joined
    <1>6. PICK h : GenRld!Chain(h, g, es, n) /\ h[n] = GenRld!Fold(g, es)
        BY <1>5, GenRld!FoldChain
    <1> DEFINE K == {k \in Nat : k <= n => "lowestloc" \in DOMAIN h[k] /\ h[k].lowestloc \in Nat}
    <1>7. 0 \in K
        BY <1>6 DEF GenRld!Chain
    <1>8. ASSUME NEW k \in Nat, k \in K PROVE k + 1 \in K
        <2>1. SUFFICES ASSUME k + 1 <= n
                       PROVE  "lowestloc" \in DOMAIN h[k + 1] /\ h[k + 1].lowestloc \in Nat
            OBVIOUS
        <2>2. /\ "lowestloc" \in DOMAIN h[k] /\ h[k].lowestloc \in Nat
              /\ k + 1 \in 1..n /\ (k + 1) - 1 = k
            BY <1>5, <1>8, <2>1
        <2>3. h[k + 1] = gen_rld_entry(h[k], es[k + 1])
            BY <1>6, <2>2 DEF GenRld!Chain
        <2>4. PICK r, e : r = h[k] /\ e = es[k + 1]
            OBVIOUS
        <2>5. EntryOk(e, s)
            BY <1>3, <1>5, <2>2, <2>4
        <2>6. CASE Locating(e)
            <3>1. PICK v : v = IF e.code = "LOCDEF" /\ e.word < r.lowestloc THEN e.word
                               ELSE r.lowestloc
                OBVIOUS
            <3>2. v \in Nat
                BY <2>2, <2>4, <2>5, <2>6, <3>1 DEF EntryOk
            <3>3. gen_rld_entry(r, e) = [r EXCEPT !.last_text_addr = e.word, !.lowestloc = v]
                BY <2>6, <3>1 DEF gen_rld_entry, Located, Locating
            <3> QED BY <2>2, <2>3, <2>4, <3>2, <3>3
        <2>7. CASE ~Locating(e)
            <3>1. PICK w, v : gen_rld_entry(r, e) = [r EXCEPT !.wrong = w, !.badbin = v]
                BY <2>7 DEF gen_rld_entry, Locating
            <3> QED BY <2>2, <2>3, <2>4, <3>1
        <2> QED BY <2>6, <2>7
    <1> HIDE DEF K
    <1>9. n \in K
        BY <1>5, <1>7, <1>8, GenRld!SetInduction
    <1> QED BY <1>1, <1>2, <1>5, <1>6, <1>9 DEF K

LEMMA RomStep ==
    ASSUME NEW rec, NEW s, RecordOk(rec, s), NEW l, NEW g, RomAgrees(l, g)
    PROVE  RomAgrees(LinkRecord(l, rec), gen_process(g, rec))
    <1>1. PICK m : m = LinkRecord(l, rec)
        OBVIOUS
    <1>2. PICK h : h = gen_process(g, rec)
        OBVIOUS
    <1>3. {"blkram", "lowestloc"} \subseteq DOMAIN h
        BY <1>2, GenRecordSame DEF RomAgrees, Same
    <1>4. CASE rec.type = "TEXT"
        <2>1. /\ DOMAIN m = DOMAIN l
              /\ m.image = Over(l.image, l.section, rec.addr, rec.bytes)
            BY <1>1, <1>4, ImageText DEF RomAgrees, LinkFields
        <2>2. rec.addr \in Nat /\ IsSeq(rec.bytes)
            BY <1>4 DEF RecordOk
        <2>3. h.blkram = dump_words2(g.blkram, rec.addr, rec.bytes) /\ h.lowestloc = g.lowestloc
            <3>1. PICK d : d = dump_words2(g.blkram, rec.addr, rec.bytes)
                OBVIOUS
            <3>2. h = [g EXCEPT !.last_text_addr = rec.addr, !.blkram = d]
                BY <1>2, <1>4, <3>1 DEF gen_process, gen_got_text
            <3> QED BY <3>1, <3>2 DEF RomAgrees
        <2>4. ASSUME OneSectionOf(m.image) PROVE Agrees(m.image, h.blkram)
            <3>1. Agrees(l.image, g.blkram)
                BY <2>1, <2>4, OneSectionBefore DEF RomAgrees
            <3> QED BY <2>1, <2>2, <2>3, <2>4, <3>1, TextAgrees
        <2>5. RomAgrees(m, h)
            BY <1>3, <2>1, <2>3, <2>4 DEF RomAgrees
        <2> QED BY <1>1, <1>2, <2>5
    <1>5. CASE rec.type # "TEXT"
        <2>1. DOMAIN m = DOMAIN l /\ m.image = l.image
            BY <1>1, <1>5, ImageKept DEF RomAgrees, LinkFields
        <2>2. h.blkram = g.blkram /\ h.lowestloc \in Nat
            <3>1. CASE rec.type = "RLD"
                <4>1. h = GenRld!Fold(g, rec.entries)
                    BY <1>2, <3>1, GenRldIsFold DEF gen_process, gen_got_rld
                <4>2. IsSeq(rec.entries)
                    BY <3>1 DEF RecordOk
                <4>3. DOMAIN rec.entries = 1..Len(rec.entries) /\ Len(rec.entries) \in Nat
                    BY <4>2, Joined
                <4>4. GenRld!Keeps(RldFields, rec.entries)
                    BY GenEntrySame, SameIsKept DEF GenRld!Keeps
                <4>5. GenRld!Kept(RldFields, g, GenRld!Fold(g, rec.entries))
                    BY <4>3, <4>4, GenRld!FoldKept
                <4>6. Same(RldFields, g, h)
                    BY <4>1, <4>5, SameIsKept
                <4>7. h.blkram = g.blkram
                    BY <4>6 DEF Same, RldFields, RomAgrees
                <4> QED BY <1>2, <3>1, <4>7, LowestKept DEF RomAgrees
            <3>2. CASE rec.type = "GSD"
                <4>1. h = Gsd!Fold(g, rec.entries)
                    BY <1>2, <3>2, GsdIsFold DEF gen_process, got_gsd
                <4>2. IsSeq(rec.entries)
                    BY <3>2 DEF RecordOk, EntriesTyped
                <4>3. Same({"psects", "xferad", "wrong"}, g, h)
                    BY <4>1, <4>2, GsdSame
                <4> QED BY <4>3 DEF Same, RomAgrees
            <3>3. CASE rec.type \notin {"RLD", "GSD", "TEXT"}
                <4>1. h = g
                    BY <1>2, <3>3 DEF gen_process
                <4> QED BY <4>1 DEF RomAgrees
            <3> QED BY <1>5, <3>1, <3>2, <3>3
        <2>3. RomAgrees(m, h)
            BY <1>3, <2>1, <2>2 DEF RomAgrees
        <2> QED BY <1>1, <1>2, <2>3
    <1> QED BY <1>4, <1>5

-----------------------------------------------------------------------------
LEMMA RomRead ==
    ASSUME NEW f, Readable(f)
    PROVE  RomAgrees(LinkedFrom(f), Gen!Fold(GenReset, f))
    <1>1. PICK n : n = Len(f)
        OBVIOUS
    <1>2. n \in Nat /\ DOMAIN f = 1..n
        BY <1>1, Joined DEF Readable
    <1>3. PICK l : Linking!Chain(l, NoLink, f, n) /\ l[n] = LinkedFrom(f)
        <2>1. PICK l : Linking!Chain(l, NoLink, f, n) /\ l[n] = Linking!Fold(NoLink, f)
            BY <1>2, Linking!FoldChain
        <2> QED BY <2>1, LinkedIsFold
    <1>4. PICK g : Gen!Chain(g, GenReset, f, n) /\ g[n] = Gen!Fold(GenReset, f)
        BY <1>2, Gen!FoldChain
    <1> DEFINE K == {k \in Nat : k <= n => RomAgrees(l[k], g[k])}
    <1>5. 0 \in K
        <2>1. l[0] = NoLink /\ g[0] = GenReset
            BY <1>3, <1>4 DEF Linking!Chain, Gen!Chain
        <2>2. LinkFields \subseteq DOMAIN NoLink /\ NoLink.image = <<>>
            BY DEF LinkFields, NoLink
        <2>3. {"blkram", "lowestloc"} \subseteq DOMAIN GenReset /\ GenReset.lowestloc = NoAddress
            BY DEF GenReset
        <2>4. NoAddress \in Nat
            BY SMT DEF NoAddress
        <2>5. Agrees(<<>>, GenReset.blkram)
            <3>1. DOMAIN <<>> = {}
                BY Short
            <3> QED BY <3>1 DEF Agrees
        <2>6. RomAgrees(NoLink, GenReset)
            BY <2>2, <2>3, <2>4, <2>5 DEF RomAgrees
        <2> QED BY <2>1, <2>6
    <1>6. ASSUME NEW k \in Nat, k \in K PROVE k + 1 \in K
        <2>1. SUFFICES ASSUME k + 1 <= n PROVE RomAgrees(l[k + 1], g[k + 1])
            OBVIOUS
        <2>2. RomAgrees(l[k], g[k]) /\ k + 1 \in 1..n /\ (k + 1) - 1 = k
            BY <1>2, <1>6, <2>1
        <2>3. l[k + 1] = LinkRecord(l[k], f[k + 1]) /\ g[k + 1] = gen_process(g[k], f[k + 1])
            BY <1>3, <1>4, <2>2 DEF Linking!Chain, Gen!Chain
        <2>4. PICK s : RecordOk(f[k + 1], s)
            BY <1>2, <2>2, ReadableRecords
        <2> QED BY <2>2, <2>3, <2>4, RomStep
    <1> HIDE DEF K
    <1>7. n \in K
        BY <1>2, <1>5, <1>6, Gen!SetInduction
    <1>8. RomAgrees(l[n], g[n])
        BY <1>2, <1>7 DEF K
    <1> QED BY <1>3, <1>4, <1>8

LEMMA Halves ==
    ASSUME NEW k \in Nat, NEW w \in Nat, k \in 0..(2 * w - 1)
    PROVE  /\ k \div 2 \in 0..(w - 1)
           /\ k % 2 = 0 => k = 2 * (k \div 2)
           /\ k % 2 # 0 => k = 2 * (k \div 2) + 1
    <1>1. k = 2 * (k \div 2) + (k % 2)
        OBVIOUS
    <1>2. k % 2 \in 0..1
        OBVIOUS
    <1>3. k \div 2 \in Nat
        OBVIOUS
    <1>4. PICK j \in Nat, r \in 0..1 : j = k \div 2 /\ r = k % 2 /\ k = 2 * j + r
        BY <1>1, <1>2, <1>3
    <1> QED BY <1>4

LEMMA RomHolds ==
    ASSUME WInv, ReadersInv
    PROVE  RomHoldsProgram
    <1>1. SUFFICES ASSUME gen.state = "done", OneSection(LinkedFrom(Intact)),
                          NEW x \in DOMAIN LinkedFrom(Intact).image
                   PROVE  /\ x[2] - gen.lowestloc \in 0..(2 * ImageWords - 1) =>
                                LinkedFrom(Intact).image[x] =
                                   IF (x[2] - gen.lowestloc) % 2 = 0
                                   THEN gen.meme[(x[2] - gen.lowestloc) \div 2]
                                   ELSE gen.memo[(x[2] - gen.lowestloc) \div 2]
                          /\ x[2] \in 0..(2 * ImageWords - 1) =>
                                LinkedFrom(Intact).image[x] = gen.fnb[x[2]]
        BY DEF RomHoldsProgram
    <1>2. PICK image : image = LinkedFrom(Intact).image
        OBVIOUS
    <1>3. OneSectionOf(image) /\ x \in DOMAIN image
        BY <1>1, <1>2 DEF OneSection, OneSectionOf
    <1>4. PICK q : q = GenFinal
        OBVIOUS
    <1>5. RomAgrees(LinkedFrom(Intact), q)
        BY <1>4, IntactReadable, RomRead DEF ReadersInv, GenFinal
    <1>6. Agrees(image, q.blkram) /\ q.lowestloc \in Nat
        BY <1>2, <1>3, <1>5 DEF RomAgrees
    <1>7. PICK a : a = x[2]
        OBVIOUS
    <1>8. a \in Int /\ a \in DOMAIN q.blkram /\ q.blkram[a] = image[x]
        BY <1>3, <1>6, <1>7 DEF Agrees
    <1>9. PICK base : base = IF q.lowestloc = NoAddress THEN 0 ELSE q.lowestloc
        OBVIOUS
    <1>10. base \in Nat
        BY <1>6, <1>9
    <1>11. gen = gen_main(q)
        BY <1>1, <1>4, ReadersDone
    <1>12. {"lowestloc", "meme", "memo", "fnb"} \subseteq DOMAIN q
        BY <1>4, GenEnds DEF ReadersInv
    <1>13. /\ gen.lowestloc = base
           /\ gen.meme = [k \in 0..(ImageWords - 1) |-> Byte(q.blkram, base + 2 * k)]
           /\ gen.memo = [k \in 0..(ImageWords - 1) |-> Byte(q.blkram, base + 2 * k + 1)]
           /\ gen.fnb = [i \in 0..(2 * ImageWords - 1) |-> Byte(q.blkram, i)]
        BY <1>9, <1>11, <1>12, GenMain
    <1>14. Byte(q.blkram, a) = image[x]
        BY <1>8 DEF Byte
    <1>15. ASSUME x[2] - gen.lowestloc \in 0..(2 * ImageWords - 1)
           PROVE  image[x] = IF (x[2] - gen.lowestloc) % 2 = 0
                             THEN gen.meme[(x[2] - gen.lowestloc) \div 2]
                             ELSE gen.memo[(x[2] - gen.lowestloc) \div 2]
        <2>1. PICK k : k = a - base
            OBVIOUS
        <2>2. k \in 0..(2 * ImageWords - 1) /\ k \in Nat
            BY <1>7, <1>13, <1>15, <2>1, ImageAssumption
        <2>3. PICK j : j = k \div 2
            OBVIOUS
        <2>4. j \in 0..(ImageWords - 1) /\ (k % 2 = 0 => k = 2 * j) /\ (k % 2 # 0 => k = 2 * j + 1)
            BY <2>2, <2>3, ImageAssumption, Halves
        <2>5. CASE k % 2 = 0
            <3>1. base + 2 * j = a
                BY <1>8, <1>10, <2>1, <2>2, <2>4, <2>5
            <3>2. gen.meme[j] = image[x]
                BY <1>13, <1>14, <2>4, <3>1
            <3> QED BY <1>7, <1>13, <2>1, <2>3, <2>5, <3>2
        <2>6. CASE k % 2 # 0
            <3>1. base + 2 * j + 1 = a
                BY <1>8, <1>10, <2>1, <2>2, <2>4, <2>6
            <3>2. gen.memo[j] = image[x]
                BY <1>13, <1>14, <2>4, <3>1
            <3> QED BY <1>7, <1>13, <2>1, <2>3, <2>6, <3>2
        <2> QED BY <2>5, <2>6
    <1>16. x[2] \in 0..(2 * ImageWords - 1) => image[x] = gen.fnb[x[2]]
        BY <1>7, <1>13, <1>14
    <1> QED BY <1>2, <1>15, <1>16

(* Whatever is damaged, a one-section program that stored nothing below    *)
(* the lowest definition, or less than the image holds above it, is in the *)
(* image byte for byte, as far as its records could be read; what it stored *)
(* below the length of the image is in the file of -b.                     *)
THEOREM RomAlwaysHoldsProgram == Spec => []RomHoldsProgram
    <1>1. WInv /\ ReadersInv => RomHoldsProgram
        BY RomHolds
    <1> QED BY <1>1, ReadersInvHolds, PTL

-----------------------------------------------------------------------------
(* A tape, loaded block by block.                                          *)
Loading == INSTANCE FoldFacts WITH Op <- Load

LEMMA LoadingIsFold == \A m, s : FoldLeft(Load, m, s) = Loading!Fold(m, s)
    BY DEF FoldLeft, MapThenFoldSet, Max,
           Loading!Fold, Loading!FoldLeft, Loading!MapThenFoldSet, Loading!Max

Loaded(bin) == Loading!Fold(<<>>, bin)

LEMMA LoadedMore ==
    ASSUME NEW bin, IsSeq(bin), NEW block
    PROVE  /\ IsSeq(Append(bin, block))
           /\ Loaded(Append(bin, block)) = Load(Loaded(bin), block)
    <1>1. Append(bin, block) = bin \o <<block>>
        BY DEF IsSeq
    <1>2. IsSeq(<<block>>) /\ DOMAIN <<block>> = {1} /\ <<block>>[1] = block /\ Len(<<block>>) = 1
        BY Short
    <1>3. Loading!Joins(bin \o <<block>>, bin, <<block>>)
        <2>1. PICK t : t = <<block>>
            OBVIOUS
        <2>2. PICK n, m : n = Len(bin) /\ m = Len(t)
            OBVIOUS
        <2>3. /\ n \in Nat /\ m \in Nat /\ DOMAIN bin = 1..n /\ DOMAIN t = 1..m
              /\ DOMAIN (bin \o t) = 1..(n + m)
              /\ \A i \in 1..n : (bin \o t)[i] = bin[i]
              /\ \A i \in 1..m : (bin \o t)[n + i] = t[i]
            BY <1>2, <2>1, <2>2, Joined
        <2>4. Loading!Joins(bin \o t, bin, t)
            BY <2>3 DEF Loading!Joins
        <2> QED BY <2>1, <2>4
    <1>4. Loading!Fold(<<>>, bin \o <<block>>) = Loading!Fold(Loading!Fold(<<>>, bin), <<block>>)
        BY <1>3, Loading!FoldJoined
    <1>5. PICK m : m = Loading!Fold(<<>>, bin)
        OBVIOUS
    <1>6. Loading!Fold(m, <<block>>) = Load(m, block)
        BY <1>2, Loading!FoldOne
    <1>7. IsSeq(bin \o <<block>>)
        BY <1>2, Joined
    <1> QED BY <1>1, <1>4, <1>5, <1>6, <1>7 DEF Loaded

(* Nothing stored waits for a symbol, another section or its own address.  *)
Settled(fixups) ==
    \A f \in fixups : f[3].what \in {NoSection, f[1]} /\ ~f[3].relative

LEMMA EntrySettled ==
    ASSUME NEW e, NEW s, EntryOk(e, s), ~Locating(e), e.code \notin DumpBad, NEW last
    PROVE  Fix(s, last, e)[3].what \in {NoSection, s} /\ ~Fix(s, last, e)[3].relative
           /\ Fix(s, last, e)[1] = s
    <1>1. e.code \in {"INT", "LIMITS"}
        BY DEF EntryOk, Locating, DumpBad, GenBad, RldSize
    <1>2. e.name \in {NoSection, s}
        BY <1>1 DEF EntryOk
    <1>3. e.code \notin Relative
        BY <1>1 DEF Relative
    <1>4. Fix(s, last, e)[3] = Asked(e, IF e.code \in Additive THEN e.word ELSE 0)
          /\ Fix(s, last, e)[1] = s
        BY DEF Fix
    <1>5. PICK a : a = Asked(e, IF e.code \in Additive THEN e.word ELSE 0)
        OBVIOUS
    <1>6. a.what = e.name /\ a.relative = (e.code \in Relative)
        BY <1>5 DEF Asked
    <1> QED BY <1>2, <1>3, <1>4, <1>5, <1>6

LEMMA RldSettles ==
    ASSUME NEW l, NEW d, NEW es, IsSeq(es), \A i \in DOMAIN es : EntryOk(es[i], l.section),
           \A i \in DOMAIN es : Locating(es[i]) => i = Len(es),
           LinkFields \subseteq DOMAIN l, "badbin" \in DOMAIN d, d.badbin \in BOOLEAN,
           ~d.badbin => Settled(l.fixups)
    PROVE  /\ DumpRld!Fold(d, es).badbin \in BOOLEAN
           /\ ~DumpRld!Fold(d, es).badbin => Settled(Fixing!Fold(l, es).fixups)
    <1>1. PICK n : n = Len(es)
        OBVIOUS
    <1>2. n \in Nat /\ DOMAIN es = 1..n
        BY <1>1, Joined
    <1>3. PICK g : DumpRld!Chain(g, d, es, n) /\ g[n] = DumpRld!Fold(d, es)
        BY <1>2, DumpRld!FoldChain
    <1>4. PICK h : Fixing!Chain(h, l, es, n) /\ h[n] = Fixing!Fold(l, es)
        BY <1>2, Fixing!FoldChain
    <1> DEFINE P(k) == /\ LinkFields \subseteq DOMAIN h[k] /\ "badbin" \in DOMAIN g[k]
                       /\ g[k].badbin \in BOOLEAN
                       /\ ~g[k].badbin => Settled(h[k].fixups)
                       /\ k < n => h[k].section = l.section
               K == {k \in Nat : k <= n => P(k)}
    <1>5. 0 \in K
        <2>1. g[0] = d /\ h[0] = l
            BY <1>3, <1>4 DEF DumpRld!Chain, Fixing!Chain
        <2> QED BY <2>1
    <1>6. ASSUME NEW k \in Nat, k \in K PROVE k + 1 \in K
        <2>1. SUFFICES ASSUME k + 1 <= n PROVE P(k + 1)
            OBVIOUS
        <2>2. P(k) /\ k + 1 \in 1..n /\ (k + 1) - 1 = k /\ k < n
            BY <1>2, <1>6, <2>1
        <2>3. /\ g[k + 1] = dump_rld_entry(g[k], es[k + 1])
              /\ h[k + 1] = LinkEntry(h[k], es[k + 1])
            BY <1>3, <1>4, <2>2 DEF DumpRld!Chain, Fixing!Chain
        <2>4. PICK q, m, e : q = g[k] /\ m = h[k] /\ e = es[k + 1]
            OBVIOUS
        <2>5. PICK p, o : p = g[k + 1] /\ o = h[k + 1]
            OBVIOUS
        <2>6. /\ p = dump_rld_entry(q, e) /\ o = LinkEntry(m, e) /\ m.section = l.section
              /\ LinkFields \subseteq DOMAIN m /\ "badbin" \in DOMAIN q /\ q.badbin \in BOOLEAN
              /\ ~q.badbin => Settled(m.fixups)
            BY <2>2, <2>3, <2>4, <2>5
        <2>7. EntryOk(e, l.section) /\ (Locating(e) => k + 1 = n)
            BY <1>1, <1>2, <2>2, <2>4
        <2> HIDE DEF K
        <2>8. CASE Locating(e)
            <3>1. PICK w : p = [q EXCEPT !.last_text_addr = w]
                BY <2>6, <2>8 DEF dump_rld_entry, Locating
            <3>2. DOMAIN o = DOMAIN m /\ o.fixups = m.fixups
                <4>1. CASE e.code = "LOCDEF"
                    <5>1. o = [m EXCEPT !.section = e.name, !.last = e.word]
                        BY <2>6, <4>1 DEF LinkEntry
                    <5> QED BY <2>6, <5>1 DEF LinkFields
                <4>2. CASE e.code = "LOCMOD"
                    <5>1. o = [m EXCEPT !.last = e.word]
                        BY <2>6, <4>2 DEF LinkEntry
                    <5> QED BY <2>6, <5>1 DEF LinkFields
                <4> QED BY <2>8, <4>1, <4>2 DEF Locating
            <3>3. "badbin" \in DOMAIN p /\ p.badbin = q.badbin
                BY <2>6, <3>1
            <3>4. ~(k + 1 < n)
                BY <1>2, <2>7, <2>8
            <3> QED BY <2>5, <2>6, <3>2, <3>3, <3>4
        <2>9. CASE ~Locating(e)
            <3>1. p = [q EXCEPT !.badbin = q.badbin \/ e.code \in DumpBad]
                BY <2>6, <2>9 DEF dump_rld_entry, Locating
            <3>2. "badbin" \in DOMAIN p /\ p.badbin = (q.badbin \/ e.code \in DumpBad)
                BY <2>6, <3>1
            <3>3. PICK x : x = Fix(m.section, m.last, e)
                OBVIOUS
            <3>4. o = [m EXCEPT !.fixups = m.fixups \cup {x}]
                BY <2>6, <2>9, <3>3 DEF LinkEntry, Locating, Fix
            <3>5. DOMAIN o = DOMAIN m /\ o.fixups = m.fixups \cup {x} /\ o.section = m.section
                BY <2>6, <3>4 DEF LinkFields
            <3>6. ASSUME ~p.badbin PROVE Settled(o.fixups)
                <4>1. e.code \notin DumpBad /\ Settled(m.fixups)
                    BY <2>6, <3>2, <3>6
                <4>2. x[3].what \in {NoSection, x[1]} /\ ~x[3].relative
                    BY <2>6, <2>7, <2>9, <3>3, <4>1, EntrySettled
                <4> QED BY <3>5, <4>1, <4>2 DEF Settled
            <3>7. p.badbin \in BOOLEAN
                BY <3>2
            <3> QED BY <2>5, <2>6, <3>2, <3>5, <3>6, <3>7
        <2> QED BY <2>8, <2>9
    <1>7. n \in K
        <2> HIDE DEF K
        <2> QED BY <1>2, <1>5, <1>6, Fixing!SetInduction
    <1>8. g[n].badbin \in BOOLEAN /\ (~g[n].badbin => Settled(h[n].fixups))
        BY <1>2, <1>7
    <1> QED BY <1>3, <1>4, <1>8

-----------------------------------------------------------------------------
(* The transfer address stays a number.                                    *)
LEMMA XferKept ==
    ASSUME NEW es, EntriesTyped(es), NEW d, "xferad" \in DOMAIN d, d.xferad \in Nat
    PROVE  Gsd!Fold(d, es).xferad \in Nat
    <1>1. PICK n : n = Len(es)
        OBVIOUS
    <1>2. n \in Nat /\ DOMAIN es = 1..n
        BY <1>1, Joined DEF EntriesTyped
    <1>3. PICK h : Gsd!Chain(h, d, es, n) /\ h[n] = Gsd!Fold(d, es)
        BY <1>2, Gsd!FoldChain
    <1> DEFINE K == {k \in Nat : k <= n => "xferad" \in DOMAIN h[k] /\ h[k].xferad \in Nat}
    <1>4. 0 \in K
        BY <1>3 DEF Gsd!Chain
    <1>5. ASSUME NEW k \in Nat, k \in K PROVE k + 1 \in K
        <2>1. SUFFICES ASSUME k + 1 <= n
                       PROVE  "xferad" \in DOMAIN h[k + 1] /\ h[k + 1].xferad \in Nat
            OBVIOUS
        <2>2. /\ "xferad" \in DOMAIN h[k] /\ h[k].xferad \in Nat
              /\ k + 1 \in 1..n /\ (k + 1) - 1 = k
            BY <1>2, <1>5, <2>1
        <2>3. h[k + 1] = gsd_entry(h[k], es[k + 1])
            BY <1>3, <2>2 DEF Gsd!Chain
        <2>4. PICK r, e : r = h[k] /\ e = es[k + 1]
            OBVIOUS
        <2>5. e.type = "XFER" => e.value \in Nat
            BY <1>2, <2>2, <2>4 DEF EntriesTyped, GsdTyped
        <2>6. PICK q : q = gsd_entry(r, e)
            OBVIOUS
        <2>7. CASE e.type = "XFER"
            <3>1. q = [r EXCEPT !.xferad = e.value]
                BY <2>6, <2>7 DEF gsd_entry
            <3> QED BY <2>2, <2>3, <2>4, <2>5, <2>6, <2>7, <3>1
        <2>8. CASE e.type = "GLOBAL"
            <3>1. PICK w : q = [r EXCEPT !.wrong = w]
                BY <2>6, <2>8 DEF gsd_entry
            <3> QED BY <2>2, <2>3, <2>4, <2>6, <3>1
        <2>9. CASE e.type = "PSECT"
            <3>1. PICK w : q = [r EXCEPT !.psects = w]
                BY <2>6, <2>9 DEF gsd_entry
            <3> QED BY <2>2, <2>3, <2>4, <2>6, <3>1
        <2>10. CASE e.type \notin {"XFER", "GLOBAL", "PSECT"}
            <3>1. q = r
                BY <2>6, <2>10 DEF gsd_entry
            <3> QED BY <2>2, <2>3, <2>4, <2>6, <3>1
        <2> QED BY <2>7, <2>8, <2>9, <2>10
    <1> HIDE DEF K
    <1>6. n \in K
        BY <1>2, <1>4, <1>5, Gsd!SetInduction
    <1> QED BY <1>2, <1>3, <1>6 DEF K

(* dumpobj's tape, and what it warns of.                                   *)
TapeAgrees(l, d) ==
    /\ LinkFields \subseteq DOMAIN l
    /\ {"bin", "badbin", "xferad"} \subseteq DOMAIN d
    /\ IsSeq(d.bin) /\ d.xferad \in Nat /\ d.badbin \in BOOLEAN
    /\ OneSectionOf(l.image) => Agrees(l.image, Loaded(d.bin))
    /\ ~d.badbin => Settled(l.fixups)

LEMMA TapeText ==
    ASSUME NEW rec, NEW l, RecordOk(rec, l.section), rec.type = "TEXT", NEW d, TapeAgrees(l, d)
    PROVE  TapeAgrees(LinkRecord(l, rec), dump_process(d, rec))
    <1>1. PICK m : m = LinkRecord(l, rec)
        OBVIOUS
    <1>2. PICK h : h = dump_process(d, rec)
        OBVIOUS
    <1>3. /\ DOMAIN m = DOMAIN l /\ m.fixups = l.fixups
          /\ m.image = Over(l.image, l.section, rec.addr, rec.bytes)
        BY <1>1, ImageText DEF TapeAgrees, LinkFields
    <1>4. rec.addr \in Nat /\ IsSeq(rec.bytes)
        BY DEF RecordOk
    <1>5. PICK block : block = [addr |-> rec.addr, bytes |-> rec.bytes]
        OBVIOUS
    <1>6. PICK w : w = [d EXCEPT !.last_text_addr = rec.addr]
        OBVIOUS
    <1>7. h = [w EXCEPT !.bin = Append(w.bin, block)]
        BY <1>2, <1>5, <1>6 DEF dump_process, dump_got_text, dump_bin
    <1>8. w.bin = d.bin /\ w.badbin = d.badbin /\ w.xferad = d.xferad /\ DOMAIN w = DOMAIN d
        BY <1>6 DEF TapeAgrees
    <1>9. /\ DOMAIN h = DOMAIN d /\ h.bin = Append(d.bin, block) /\ h.badbin = d.badbin
          /\ h.xferad = d.xferad
        BY <1>7, <1>8 DEF TapeAgrees
    <1>10. IsSeq(h.bin) /\ Loaded(h.bin) = Load(Loaded(d.bin), block)
        BY <1>9, LoadedMore DEF TapeAgrees
    <1>11. Load(Loaded(d.bin), block) = dump_words2(Loaded(d.bin), rec.addr, rec.bytes)
        BY <1>5 DEF Load
    <1>12. ASSUME OneSectionOf(m.image) PROVE Agrees(m.image, Loaded(h.bin))
        <2>1. Agrees(l.image, Loaded(d.bin))
            BY <1>3, <1>12, OneSectionBefore DEF TapeAgrees
        <2> QED BY <1>3, <1>4, <1>10, <1>11, <1>12, <2>1, TextAgrees
    <1>13. TapeAgrees(m, h)
        BY <1>3, <1>9, <1>10, <1>12 DEF TapeAgrees
    <1> QED BY <1>1, <1>2, <1>13

LEMMA TapeStep ==
    ASSUME NEW rec, NEW l, RecordOk(rec, l.section), NEW d, TapeAgrees(l, d)
    PROVE  TapeAgrees(LinkRecord(l, rec), dump_process(d, rec))
    <1>1. PICK m : m = LinkRecord(l, rec)
        OBVIOUS
    <1>2. PICK h : h = dump_process(d, rec)
        OBVIOUS
    <1>3. CASE rec.type = "TEXT"
        BY <1>3, TapeText
    <1>4. CASE rec.type = "RLD"
        <2>1. h = DumpRld!Fold(d, rec.entries)
            BY <1>2, <1>4, DumpRldIsFold, SMTT(60) DEF dump_process, dump_got_rld
        <2>2. /\ IsSeq(rec.entries)
              /\ \A i \in DOMAIN rec.entries : EntryOk(rec.entries[i], l.section)
              /\ \A i \in DOMAIN rec.entries :
                    Locating(rec.entries[i]) => i = Len(rec.entries)
            BY <1>4 DEF RecordOk
        <2>3. DOMAIN rec.entries = 1..Len(rec.entries) /\ Len(rec.entries) \in Nat
            BY <2>2, Joined
        <2>4. DumpRld!Keeps(RldFields, rec.entries)
            BY DumpEntrySame, SameIsKept DEF DumpRld!Keeps
        <2>5. DumpRld!Kept(RldFields, d, DumpRld!Fold(d, rec.entries))
            BY <2>3, <2>4, DumpRld!FoldKept
        <2>6. Same(RldFields, d, h)
            BY <2>1, <2>5, SameIsKept
        <2>7. h.bin = d.bin /\ h.xferad = d.xferad /\ DOMAIN h = DOMAIN d
            BY <2>6 DEF Same, RldFields, TapeAgrees
        <2>8. DOMAIN m = DOMAIN l /\ m.image = l.image
            BY <1>1, <1>4, ImageKept DEF TapeAgrees, LinkFields
        <2>9. h.badbin \in BOOLEAN /\ (~h.badbin => Settled(m.fixups))
            <3>1. m = Fixing!Fold(l, rec.entries)
                BY <1>1, <1>4, LinkRld
            <3>2. PICK es : es = rec.entries
                OBVIOUS
            <3>3. /\ LinkFields \subseteq DOMAIN l /\ "badbin" \in DOMAIN d /\ d.badbin \in BOOLEAN
                  /\ ~d.badbin => Settled(l.fixups)
                BY DEF TapeAgrees
            <3>4. /\ IsSeq(es) /\ \A i \in DOMAIN es : EntryOk(es[i], l.section)
                  /\ \A i \in DOMAIN es : Locating(es[i]) => i = Len(es)
                BY <2>2, <3>2
            <3>5. /\ DumpRld!Fold(d, es).badbin \in BOOLEAN
                  /\ ~DumpRld!Fold(d, es).badbin => Settled(Fixing!Fold(l, es).fixups)
                BY <3>3, <3>4, RldSettles
            <3> QED BY <2>1, <3>1, <3>2, <3>5
        <2>10. TapeAgrees(m, h)
            BY <2>7, <2>8, <2>9 DEF TapeAgrees
        <2> QED BY <1>1, <1>2, <2>10
    <1>5. CASE rec.type \notin {"TEXT", "RLD"}
        <2>1. m = l
            BY <1>1, <1>5, LinkOther
        <2>2. CASE rec.type = "GSD"
            <3>1. h = Gsd!Fold(d, rec.entries)
                BY <1>2, <2>2, GsdIsFold DEF dump_process, got_gsd
            <3>2. EntriesTyped(rec.entries) /\ IsSeq(rec.entries)
                BY <2>2 DEF RecordOk, EntriesTyped
            <3>3. Same({"psects", "xferad", "wrong"}, d, h)
                BY <3>1, <3>2, GsdSame
            <3>4. h.bin = d.bin /\ h.badbin = d.badbin /\ DOMAIN h = DOMAIN d
                BY <3>3 DEF Same, TapeAgrees
            <3>5. h.xferad \in Nat
                BY <3>1, <3>2, XferKept DEF TapeAgrees
            <3>6. TapeAgrees(m, h)
                BY <2>1, <3>4, <3>5 DEF TapeAgrees
            <3> QED BY <1>1, <1>2, <3>6
        <2>3. CASE rec.type # "GSD"
            <3>1. h = d
                BY <1>2, <1>5, <2>3 DEF dump_process
            <3> QED BY <1>1, <1>2, <2>1, <3>1
        <2> QED BY <2>2, <2>3
    <1> QED BY <1>3, <1>4, <1>5

LEMMA TapeRead ==
    ASSUME NEW f, Readable(f)
    PROVE  TapeAgrees(LinkedFrom(f), Dump!Fold(DumpReset, f))
    <1>1. PICK n : n = Len(f)
        OBVIOUS
    <1>2. n \in Nat /\ DOMAIN f = 1..n /\ n \in 0..n
        BY <1>1, Joined DEF Readable
    <1>3. PICK l : Linking!Chain(l, NoLink, f, n) /\ l[n] = LinkedFrom(f)
        <2>1. PICK l : Linking!Chain(l, NoLink, f, n) /\ l[n] = Linking!Fold(NoLink, f)
            BY <1>2, Linking!FoldChain
        <2> QED BY <2>1, LinkedIsFold
    <1>4. PICK d : Dump!Chain(d, DumpReset, f, n) /\ d[n] = Dump!Fold(DumpReset, f)
        BY <1>2, Dump!FoldChain
    <1> DEFINE K == {k \in Nat : k <= n => TapeAgrees(l[k], d[k])}
    <1>5. 0 \in K
        <2>1. l[0] = NoLink /\ d[0] = DumpReset
            BY <1>3, <1>4 DEF Linking!Chain, Dump!Chain
        <2>2. LinkFields \subseteq DOMAIN NoLink /\ NoLink.image = <<>> /\ NoLink.fixups = {}
            BY DEF LinkFields, NoLink
        <2>3. /\ {"bin", "badbin", "xferad"} \subseteq DOMAIN DumpReset
              /\ DumpReset.bin = <<>> /\ DumpReset.xferad = 1 /\ DumpReset.badbin = FALSE
            BY DEF DumpReset
        <2>4. Agrees(<<>>, Loaded(<<>>)) /\ IsSeq(<<>>)
            <3>1. DOMAIN <<>> = {}
                BY Short
            <3> QED BY <3>1, Short DEF Agrees
        <2>5. Settled({})
            BY DEF Settled
        <2>6. IsSeq(DumpReset.bin) /\ DumpReset.xferad \in Nat /\ DumpReset.badbin \in BOOLEAN
            <3>1. PICK b : b = DumpReset.bin
                OBVIOUS
            <3>2. IsSeq(b)
                BY <2>3, <2>4, <3>1, Zenon
            <3>3. 1 \in Nat /\ FALSE \in BOOLEAN
                OBVIOUS
            <3> QED BY <2>3, <3>1, <3>2, <3>3, Zenon
        <2>7. Agrees(NoLink.image, Loaded(DumpReset.bin)) /\ Settled(NoLink.fixups)
            BY <2>2, <2>3, <2>4, <2>5
        <2>8. TapeAgrees(NoLink, DumpReset)
            BY <2>2, <2>3, <2>6, <2>7 DEF TapeAgrees
        <2> QED BY <2>1, <2>8
    <1>6. ASSUME NEW k \in Nat, k \in K PROVE k + 1 \in K
        <2>1. SUFFICES ASSUME k + 1 <= n PROVE TapeAgrees(l[k + 1], d[k + 1])
            OBVIOUS
        <2>2. TapeAgrees(l[k], d[k]) /\ k + 1 \in 1..n /\ (k + 1) - 1 = k
            BY <1>2, <1>6, <2>1
        <2>3. l[k + 1] = LinkRecord(l[k], f[k + 1]) /\ d[k + 1] = dump_process(d[k], f[k + 1])
            BY <1>3, <1>4, <2>2 DEF Linking!Chain, Dump!Chain
        <2>4. RecordOk(f[k + 1], l[k].section)
            <3>1. ReadableTo(f, n)
                BY <1>1, <1>2 DEF Readable
            <3>2. RecordOk(f[k + 1], l[(k + 1) - 1].section)
                BY <1>3, <2>2, <3>1 DEF ReadableTo
            <3> QED BY <2>2, <3>2
        <2> QED BY <2>2, <2>3, <2>4, TapeStep
    <1> HIDE DEF K
    <1>7. n \in K
        BY <1>2, <1>5, <1>6, Dump!SetInduction
    <1>8. TapeAgrees(l[n], d[n])
        BY <1>2, <1>7 DEF K
    <1> QED BY <1>3, <1>4, <1>8

LEMMA TapeHolds ==
    ASSUME WInv, ReadersInv
    PROVE  TapeWithoutWarning
    <1>1. PICK l : l = LinkedFrom(Intact)
        OBVIOUS
    <1>2. SUFFICES ASSUME dump.state = "done", ~dump.badbin, OneSection(l)
                   PROVE  /\ \A x \in DOMAIN l.image :
                                FoldLeft(Load, <<>>, dump.bin)[x[2]] = l.image[x]
                          /\ Settled(l.fixups)
        BY <1>1 DEF TapeWithoutWarning, Settled
    <1>3. PICK q : q = DumpFinal
        OBVIOUS
    <1>4. TapeAgrees(l, q)
        BY <1>1, <1>3, IntactReadable, TapeRead DEF ReadersInv, DumpFinal
    <1>5. dump = dump_main(q)
        BY <1>2, <1>3, ReadersDone
    <1>6. PICK block : block = [addr |-> q.xferad, bytes |-> <<>>]
        OBVIOUS
    <1>7. dump.badbin = q.badbin /\ dump.bin = Append(q.bin, block)
        BY <1>4, <1>5, <1>6, DumpMain DEF TapeAgrees
    <1>8. Settled(l.fixups)
        BY <1>2, <1>4, <1>7 DEF TapeAgrees
    <1>9. PICK m : m = Loaded(q.bin)
        OBVIOUS
    <1>10. Agrees(l.image, m)
        <2>1. OneSectionOf(l.image)
            BY <1>2 DEF OneSection, OneSectionOf
        <2> QED BY <1>4, <1>9, <2>1 DEF TapeAgrees
    <1>11. FoldLeft(Load, <<>>, dump.bin) = Load(m, block)
        <2>1. Loaded(dump.bin) = Load(m, block)
            BY <1>4, <1>7, <1>9, LoadedMore DEF TapeAgrees
        <2> QED BY <2>1, LoadingIsFold DEF Loaded
    <1>12. ASSUME NEW a, a \in DOMAIN m PROVE Load(m, block)[a] = m[a]
        <2>1. PICK x : x = q.xferad
            OBVIOUS
        <2>2. x \in Nat
            BY <1>4, <2>1 DEF TapeAgrees
        <2>3. Load(m, block) = dump_words2(m, x, <<>>)
            BY <1>6, <2>1 DEF Load
        <2>4. x..(x + Len(<<>>) - 1) = {}
            BY <2>2, Short
        <2>5. dump_words2(m, x, <<>>) = [i \in DOMAIN m |-> m[i]]
            BY <2>4 DEF dump_words2
        <2> QED BY <1>12, <2>3, <2>5
    <1>13. ASSUME NEW x \in DOMAIN l.image
           PROVE  FoldLeft(Load, <<>>, dump.bin)[x[2]] = l.image[x]
        <2>1. x[2] \in DOMAIN m /\ m[x[2]] = l.image[x]
            BY <1>10 DEF Agrees
        <2> QED BY <1>11, <1>12, <2>1
    <1> QED BY <1>8, <1>13

(* Without a warning the tape is the program, for every program of one     *)
(* section, every size of buffer and every damaged record: its blocks      *)
(* load what was stored, and no relocation but the section's own is left.  *)
THEOREM TapeAlwaysLoads == Spec => []TapeWithoutWarning
    <1>1. WInv /\ ReadersInv => TapeWithoutWarning
        BY TapeHolds
    <1> QED BY <1>1, ReadersInvHolds, PTL
=============================================================================
