----------------------------- MODULE ObjectFile -----------------------------
(***************************************************************************)
(* How the assembler writes an object module: tools/object.c and the       *)
(* store_* functions of tools/macro11.c.  The second pass stores words and *)
(* bytes at the location counter; the writer gathers them in a TEXT buffer *)
(* and their relocations in an RLD buffer, and writes both whenever either *)
(* is full or the location counter jumps.                                  *)
(*                                                                         *)
(* Names and words are model values: sizes and offsets are the file's.     *)
(***************************************************************************)
EXTENDS Integers, Sequences, FiniteSets, SequencesExt

CONSTANTS
    Sections,       \* the program sections, in the order of their sectors
    TextMax,        \* sizeof(tr->text), 128
    RldMax,         \* sizeof(tr->rld), 128
    GsdMax,         \* sizeof(gsd->buf), 122
    AccumMax,       \* sizeof(tx->accum), 126
    ComplexExprs,   \* the complex expressions a program has
    Palettes,       \* the kinds of store one program makes, its global symbols
    Transfer,       \* its transfer address
    Origins,        \* the values its location counters are assigned
    MaxStores,      \* the bound on the stores of a program
    MaxMoves        \* the bound on its assignments and changes of section

ASSUME TextAssumption == TextMax \in Nat /\ TextMax >= 8
ASSUME RldAssumption  == RldMax \in Nat /\ RldMax >= 10
(* A directory record holds an entry.                                      *)
ASSUME GsdAssumption  == GsdMax \in Nat /\ GsdMax >= 10
ASSUME AccumAssumption == AccumMax \in Nat
ASSUME ExprsAssumption == \A e \in ComplexExprs : e \in Seq(ToSet(e))
ASSUME TransferAssumption == Transfer \in Nat
ASSUME SectionsAssumption ==
    Sections # <<>> /\ Sections \in Seq(ToSet(Sections)) /\ Sections[1] \in ToSet(Sections)
(* A location counter is a word.                                           *)
ASSUME OriginsAssumption == \A a \in Origins : a \in Nat /\ a < 65536
ASSUME BoundsAssumption == MaxStores \in Nat /\ MaxMoves \in Nat

VARIABLES
    phase,             \* what the program does
    palette,           \* the one of the Palettes it uses
    tr,                \* the TEXT and RLD buffers
    directory,         \* the records of the global symbol directory
    file,              \* the records written after it
    current,           \* current_pc->section
    pc,                \* DOT, and the pc of the sections it has left
    last_dot_section,  \* where the next byte would go
    last_dot_addr,
    stores,            \* the stores made, so every one has a value of its own
    moves              \* the assignments and changes of section made

writerVars == <<phase, palette, tr, directory, file, current, pc, last_dot_section,
                last_dot_addr, stores, moves>>

NoSection == "none"
DOT == pc[current]

-----------------------------------------------------------------------------
(* Records.  A TEXT or RLD record has a two-byte type, and a TEXT record   *)
(* its address; the sizes of relocations are those of what is written.     *)

RldSize ==
    [INT |-> 4, INT_DISP |-> 4, GLOBAL |-> 6, GLOBAL_DISP |-> 6,
     GLOBAL_OFFSET |-> 8, GLOBAL_OFFSET_DISP |-> 8, PSECT |-> 6,
     PSECT_DISP |-> 6, PSECT_OFFSET |-> 8, PSECT_OFFSET_DISP |-> 8,
     LIMITS |-> 2, LOCDEF |-> 8, LOCMOD |-> 4]

(* An RLD entry: the byte of the record before it that it refers to, its   *)
(* name, its word, and its expression if it is a complex one.              *)
Entry(code, disp, size, name, word) ==
    [code |-> code, disp |-> disp, size |-> size, name |-> name, word |-> word,
     expr |-> <<>>]

(* Mutant of text_init: the header of the RLD record is not counted.       *)
text_init_NoHeader(addr) ==
    [txt_addr |-> addr, text |-> <<>>, rld |-> <<>>, rld_offset |-> 0]

text_init(addr) ==
    [txt_addr |-> addr, text |-> <<>>, rld |-> <<>>, rld_offset |-> 2]

txt_offset(t) == Len(t.text) + 4

text_flush(t) ==
    (IF t.text = <<>> THEN <<>>
     ELSE <<[type |-> "TEXT", addr |-> t.txt_addr, bytes |-> t.text]>>)
    \o (IF t.rld = <<>> THEN <<>> ELSE <<[type |-> "RLD", entries |-> t.rld]>>)

(* The writer, out, is its buffers and its file.                           *)
Flush(out, addr) == [tr |-> text_init(addr), file |-> out.file \o text_flush(out.tr)]

(* Mutant of text_fit: the room in the RLD buffer is not asked for.        *)
text_fit_TextOnly(out, addr, txtsize, rldsize) ==
    IF /\ txt_offset(out.tr) + txtsize <= TextMax
       /\ txtsize = 0 \/ out.tr.txt_addr + Len(out.tr.text) = addr
    THEN out
    ELSE Flush(out, addr)

(* Room for txtsize bytes at addr and rldsize bytes of relocation.         *)
text_fit(out, addr, txtsize, rldsize) ==
    IF /\ txt_offset(out.tr) + txtsize <= TextMax
       /\ out.tr.rld_offset + rldsize <= RldMax
       /\ txtsize = 0 \/ out.tr.txt_addr + Len(out.tr.text) = addr
    THEN out
    ELSE Flush(out, addr)

(* The bytes and the entries go into the buffers.                          *)
Into(out, bytes, entries, rldsize) ==
    [tr |-> [txt_addr |-> out.tr.txt_addr, text |-> out.tr.text \o bytes,
             rld |-> out.tr.rld \o entries, rld_offset |-> out.tr.rld_offset + rldsize],
     file |-> out.file]

text_word_i(w, size) ==
    IF size = 1 THEN <<<<w, "low">>>> ELSE <<<<w, "low">>, <<w, "high">>>>

(* rld_code: the byte of the TEXT record, its four of header counted.      *)
rld_code(out, addr) == addr - out.tr.txt_addr + 4

text_word(out, addr, size, word) ==
    Into(text_fit(out, addr, size, 0), text_word_i(word, size), <<>>, 0)

(* A word or byte with one relocation of the kind code.                    *)
Relocated(out, addr, size, word, code, name) ==
    LET o == text_fit(out, addr, size, RldSize[code])
        e == Entry(code, rld_code(o, addr), size, name, word)
    IN Into(o, text_word_i(word, size), <<e>>, RldSize[code])

text_internal_word(out, addr, size, word, name) ==
    Relocated(out, addr, size, word, "INT", name)

text_displaced_word(out, addr, size, word, name) ==
    Relocated(out, addr, size, word, "INT_DISP", name)

text_global_word(out, addr, size, word, name) ==
    Relocated(out, addr, size, word, "GLOBAL", name)

text_global_displaced_word(out, addr, size, word, name) ==
    Relocated(out, addr, size, word, "GLOBAL_DISP", name)

text_global_offset_word(out, addr, size, word, name) ==
    IF word = 0 THEN text_global_word(out, addr, size, word, name)
    ELSE Relocated(out, addr, size, word, "GLOBAL_OFFSET", name)

text_global_displaced_offset_word(out, addr, size, word, name) ==
    IF word = 0 THEN text_global_displaced_word(out, addr, size, word, name)
    ELSE Relocated(out, addr, size, word, "GLOBAL_OFFSET_DISP", name)

text_psect_word(out, addr, size, word, name) ==
    Relocated(out, addr, size, word, "PSECT", name)

text_psect_displaced_word(out, addr, size, word, name) ==
    Relocated(out, addr, size, word, "PSECT_DISP", name)

text_psect_offset_word(out, addr, size, word, name) ==
    IF word = 0 THEN text_psect_word(out, addr, size, word, name)
    ELSE Relocated(out, addr, size, word, "PSECT_OFFSET", name)

text_psect_displaced_offset_word(out, addr, size, word, name) ==
    IF word = 0 THEN text_psect_displaced_word(out, addr, size, word, name)
    ELSE Relocated(out, addr, size, word, "PSECT_OFFSET_DISP", name)

(* Two words of zero, for the linker to fill in with the program limits.   *)
text_limits(out, addr) ==
    LET o == text_fit(out, addr, 4, RldSize["LIMITS"])
        e == Entry("LIMITS", rld_code(o, addr), 2, NoSection, 0)
    IN Into(o, text_word_i(0, 2) \o text_word_i(0, 2), <<e>>, RldSize["LIMITS"])

(* Changes of section and of address are relocations too, the last ones of *)
(* their record: what follows starts a TEXT record of its own.             *)
text_define_location(out, name, addr) ==
    LET o == text_fit(out, addr, 0, RldSize["LOCDEF"])
    IN Flush(Into(o, <<>>, <<Entry("LOCDEF", 0, 2, name, addr)>>, RldSize["LOCDEF"]),
             addr)

(* Mutant of text_modify_location: the buffers are left to fill up.        *)
text_modify_location_Buffered(out, addr) ==
    LET o == text_fit(out, addr, 0, RldSize["LOCMOD"])
    IN Into(o, <<>>, <<Entry("LOCMOD", 0, 2, NoSection, addr)>>, RldSize["LOCMOD"])

text_modify_location(out, addr) ==
    LET o == text_fit(out, addr, 0, RldSize["LOCMOD"])
    IN Flush(Into(o, <<>>, <<Entry("LOCMOD", 0, 2, NoSection, addr)>>, RldSize["LOCMOD"]),
             addr)

-----------------------------------------------------------------------------
(* Complex expressions: a program for the linker's stack machine.          *)

OpSize(op) ==
    CASE op.op = "CONST"  -> 3
      [] op.op = "GLOBAL" -> 5
      [] op.op = "REL"    -> 4
      [] OTHER            -> 1

(* text_complex_byte, _lit, _global, _psect: op at the end, if it fits.    *)
text_complex_fit(tx, op) ==
    IF tx.len + OpSize(op) > AccumMax THEN tx
    ELSE [ops |-> Append(tx.ops, op), len |-> tx.len + OpSize(op)]

text_complex_begin == [ops |-> <<>>, len |-> 0]

Complex(expr) == FoldLeft(text_complex_fit, text_complex_begin, expr)

(* The expression, ended by what it stores, and the word it stores it in;  *)
(* displaced or not.                                                       *)
text_complex_commit(out, addr, size, expr, store) ==
    LET tx == text_complex_fit(Complex(expr), [op |-> store])
        o == text_fit(out, addr, size, tx.len + 2)
        e == [Entry("COMPLEX", rld_code(o, addr), size, NoSection, 0)
                EXCEPT !.expr = tx.ops]
    IN Into(o, text_word_i(0, size), <<e>>, tx.len + 2)

(* Every expression, with its store, has room in an empty RLD buffer, after *)
(* the record's header and the entry's code.  The buffers' own sizes do    *)
(* not say so: 126 bytes fit in accum, but 124 in an RLD buffer.           *)
ComplexFits ==
    \A e \in ComplexExprs, s \in {"STORE", "STORE_DISP"} :
        text_complex_fit(Complex(e), [op |-> s]).len + 4 <= RldMax

(* No operation of an expression, nor its store, finds accum full: one     *)
(* that does is left out, and complex_tree does not look.                  *)
AccumHolds ==
    \A e \in ComplexExprs, s \in {"STORE", "STORE_DISP"} :
        text_complex_fit(Complex(e), [op |-> s]).ops = Append(e, [op |-> s])

-----------------------------------------------------------------------------
(* Mutant of change_dot: a change of section alone goes unnoticed.         *)
change_dot_AddressOnly(out) ==
    IF last_dot_addr # DOT THEN text_modify_location(out, DOT) ELSE out

(* change_dot, before a store: the reader of the file is told of a section *)
(* or an address it does not expect.                                       *)
change_dot(out) ==
    IF last_dot_section # current
    THEN text_define_location(out, current, DOT)
    ELSE IF last_dot_addr # DOT THEN text_modify_location(out, DOT)
    ELSE out

(* What is stored: a kind, and a symbol of this or another section, a      *)
(* global, or an expression.                                               *)
Kinds == {"word", "byte", "internal", "displaced", "global", "global_displaced",
          "psect", "psect_displaced", "limits", "complex", "complex_displaced", "invalid"}

ASSUME PalettesAssumption ==
    \A p \in Palettes : p.kinds \subseteq Kinds /\ p.globals \in Seq(ToSet(p.globals))

(* mode_extension and store_value: kind by kind, what is written; word is  *)
(* the value of the symbol plus the offset.  An expression that cannot be  *)
(* translated is a word of zero, whose store_word finds last_dot_addr      *)
(* moved past DOT already by the change_dot of store_complex.              *)
Stored(out, kind, size, word, name, expr) ==
    CASE kind \in {"word", "byte"} -> text_word(out, DOT, size, word)
      [] kind = "internal" -> text_internal_word(out, DOT, size, word, name)
      [] kind = "displaced" -> text_displaced_word(out, DOT, size, word, name)
      [] kind = "global" -> text_global_offset_word(out, DOT, size, word, name)
      [] kind = "global_displaced" ->
            text_global_displaced_offset_word(out, DOT, size, word, name)
      [] kind = "psect" -> text_psect_offset_word(out, DOT, size, word, name)
      [] kind = "psect_displaced" ->
            text_psect_displaced_offset_word(out, DOT, size, word, name)
      [] kind = "limits" -> text_limits(out, DOT)
      [] kind = "complex" -> text_complex_commit(out, DOT, size, expr, "STORE")
      [] kind = "complex_displaced" ->
            text_complex_commit(out, DOT, size, expr, "STORE_DISP")
      [] kind = "invalid" ->
            text_word(text_modify_location(out, DOT), DOT, size, 0)

(* A reference to another module, another section or the linker's own      *)
(* limits is zero or an offset; what is stored otherwise is the store's    *)
(* number, so that no two are alike.                                       *)
Names(kind) ==
    CASE kind = "internal" -> {current}
      [] kind \in {"psect", "psect_displaced"} -> ToSet(Sections) \ {current}
      [] kind \in {"global", "global_displaced"} -> {g.name : g \in ToSet(palette.globals)}
      [] OTHER -> {NoSection}

Sizes(kind) ==
    CASE kind = "byte" -> {1}
      [] kind \in {"internal", "global", "psect", "complex", "invalid"} -> {1, 2}
      [] kind = "limits" -> {4}
      [] OTHER -> {2}

WordsOf(kind) ==
    CASE kind \in {"limits", "complex", "complex_displaced", "invalid"} -> {0}
      [] kind \in {"word", "byte"} -> {stores + 1}
      [] OTHER -> {0, stores + 1}

ExprsOf(kind) ==
    IF kind \in {"complex", "complex_displaced"} THEN ComplexExprs ELSE {<<>>}

(* store_word and its kin: change_dot, then the word, then DOT moves on.   *)
Store(kind, size, word, name, expr) ==
    /\ phase = "text"
    /\ stores < MaxStores
    /\ LET out == Stored(change_dot([tr |-> tr, file |-> file]), kind, size, word, name, expr)
       IN tr' = out.tr /\ file' = out.file
    /\ last_dot_section' = current
    /\ last_dot_addr' = DOT + size
    /\ pc' = [pc EXCEPT ![current] = DOT + size]
    /\ stores' = stores + 1
    /\ UNCHANGED <<phase, palette, directory, current, moves>>

(* An assignment to ".", a .BLKB, .EVEN or .ODD: nothing is written yet.   *)
SetDot(a) ==
    /\ phase = "text"
    /\ moves < MaxMoves
    /\ a # DOT
    /\ pc' = [pc EXCEPT ![current] = a]
    /\ moves' = moves + 1
    /\ UNCHANGED <<phase, palette, tr, directory, file, current, last_dot_section, last_dot_addr,
                   stores>>

(* go_section: the old section keeps its counter.                          *)
go_section(s) ==
    /\ phase = "text"
    /\ moves < MaxMoves
    /\ s # current
    /\ current' = s
    /\ moves' = moves + 1
    /\ UNCHANGED <<phase, palette, tr, directory, file, pc, last_dot_section, last_dot_addr,
                   stores>>

-----------------------------------------------------------------------------
(* The global symbol directory: an entry is eight bytes, and a record is   *)
(* written when the next one does not fit.                                 *)
gsd_offset(g) == 2 + 8 * Len(g.buf)

gsd_flush(g) ==
    IF g.buf = <<>> THEN g
    ELSE [buf |-> <<>>, file |-> Append(g.file, [type |-> "GSD", entries |-> g.buf])]

(* Mutant of gsd_write: the record is flushed one entry too late.          *)
gsd_write_Late(g, entry) ==
    LET h == IF gsd_offset(g) > GsdMax THEN gsd_flush(g) ELSE g
    IN [h EXCEPT !.buf = Append(@, entry)]

gsd_write(g, entry) ==
    LET h == IF gsd_offset(g) > GsdMax - 8 THEN gsd_flush(g) ELSE g
    IN [h EXCEPT !.buf = Append(@, entry)]

GsdEntry(type, name, value) == [type |-> type, name |-> name, value |-> value]

(* Section by section, in the order of the sectors, each with the globals  *)
(* it defines (the undefined ones are in the absolute section).            *)
GsdEntries(globals, xfer) ==
    LET GlobalsOf(s) ==
            [i \in DOMAIN globals |-> IF globals[i].section = s
                THEN <<GsdEntry("GLOBAL", globals[i].name, 0)>> ELSE <<>>]
        SectionEntries(s) == <<GsdEntry("PSECT", s, 0)>> \o FlattenSeq(GlobalsOf(s))
    IN <<GsdEntry("MODNAME", NoSection, 0)>>
       \o FlattenSeq([k \in DOMAIN Sections |-> SectionEntries(Sections[k])])
       \o <<GsdEntry("XFER", Sections[1], xfer)>>

write_globals ==
    /\ phase = "gsd"
    /\ directory' = LET all == FoldLeft(gsd_write, [buf |-> <<>>, file |-> <<>>],
                                   GsdEntries(palette.globals, Transfer))
                    IN Append(gsd_flush(all).file, [type |-> "ENDGSD"])
    /\ phase' = "text"
    /\ UNCHANGED <<palette, tr, file, current, pc, last_dot_section, last_dot_addr,
                   stores, moves>>

(* The end of the second pass: the buffers go out, and the end of module.  *)
EndModule ==
    /\ phase = "text"
    /\ file' = Append(file \o text_flush(tr), [type |-> "ENDMOD"])
    /\ phase' = "closed"
    /\ UNCHANGED <<palette, tr, directory, current, pc, last_dot_section,
                   last_dot_addr, stores, moves>>

WriterInit ==
    /\ phase = "gsd"
    /\ palette \in Palettes
    /\ tr = text_init(0)
    /\ directory = <<>>
    /\ file = <<>>
    /\ current = Sections[1]
    /\ pc = [s \in ToSet(Sections) |-> 0]
    /\ last_dot_section = NoSection
    /\ last_dot_addr = 0
    /\ stores = 0
    /\ moves = 0

WriterStep ==
    \/ write_globals
    \/ \E kind \in palette.kinds :
          \E size \in Sizes(kind), word \in WordsOf(kind), name \in Names(kind),
             expr \in ExprsOf(kind) : Store(kind, size, word, name, expr)
    \/ \E a \in Origins : SetDot(a)
    \/ \E s \in ToSet(Sections) : go_section(s)
    \/ EndModule

(* Bytes past the end of rld[] go to rld_offset itself, which is next to   *)
(* it: what such a writer goes on to write is not described.               *)
Overrun == tr.rld_offset > RldMax

WriterNext == ~Overrun /\ WriterStep

WriterSpec == WriterInit /\ [][WriterNext]_writerVars

-----------------------------------------------------------------------------
(* The buffers hold what was put in them, and no more: the room text_fit   *)
(* leaves is enough for what follows, though it does not look again after  *)
(* its flush.  The exception is a complex expression, alone in its record, *)
(* that accum holds and an empty RLD buffer does not.                      *)
BuffersFit ==
    /\ txt_offset(tr) <= TextMax
    /\ \/ tr.rld_offset <= RldMax
       \/ /\ tr.rld_offset <= AccumMax + 4
          /\ Len(tr.rld) = 1
          /\ tr.rld[1].code = "COMPLEX"

(* An entry refers to a byte, or a word, of the text t; one that changes   *)
(* the location counter is the last of its record.                         *)
RefersInto(entries, t) ==
    \A i \in DOMAIN entries :
        IF entries[i].code \in {"LOCDEF", "LOCMOD"}
        THEN i = Len(entries)
        ELSE /\ entries[i].disp >= 4
             /\ entries[i].disp + entries[i].size <= Len(t) + 4

(* An RLD record refers to the TEXT record just before it, or it refers to *)
(* none; so do the entries that are still in the buffer.                   *)
RldFollowsText ==
    /\ RefersInto(tr.rld, tr.text)
    /\ \A k \in DOMAIN file : file[k].type = "RLD" =>
          \/ RefersInto(file[k].entries, <<>>)
          \/ /\ k > 1
             /\ file[k - 1].type = "TEXT"
             /\ RefersInto(file[k].entries, file[k - 1].bytes)
=============================================================================
