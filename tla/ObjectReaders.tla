--------------------------- MODULE ObjectReaders ---------------------------
(***************************************************************************)
(* The readers of an object module: tools/genblkram.c, which makes the     *)
(* image of a ROM from it, and tools/dumpobj.c, which prints it and can    *)
(* make an absolute tape.  Both read it record by record and stop, without *)
(* an error of their own, at a record that is damaged.                     *)
(***************************************************************************)
EXTENDS ObjectFile, FiniteSetsExt

CONSTANTS
    ImageWords    \* the words of the image, 16 for each unit of -s

ASSUME ImageAssumption == ImageWords \in Nat

VARIABLES
    damaged,   \* the record that readrec refuses, 0 if none
    gen,       \* genblkram
    dump,      \* dumpobj
    linked     \* history: what a linker makes of the records and the buffers

readerVars == <<damaged, gen, dump>>
vars == <<writerVars, readerVars, linked>>

NoAddress == 65535

(* got_gsd: sections are numbered as they come, in psects; an object with  *)
(* a global is wrong (only genblkram minds).                               *)
gsd_entry(r, e) ==
    CASE e.type = "XFER"   -> [r EXCEPT !.xferad = e.value]
      [] e.type = "GLOBAL" -> [r EXCEPT !.wrong = @ + 1]
      [] e.type = "PSECT"  -> [r EXCEPT !.psects = Append(@, e.name)]
      [] OTHER -> r

got_gsd(r, rec) == FoldLeft(gsd_entry, r, rec.entries)

(* A location counter entry sets the address the entries after it refer to,*)
(* and, for genblkram, the lowest definition is the base of the image.     *)
Located(r, e) ==
    [r EXCEPT !.last_text_addr = e.word,
              !.lowestloc = IF e.code = "LOCDEF" /\ e.word < @ THEN e.word ELSE @]

(* The relocations genblkram counts or marks (with badbin, of which it     *)
(* warns only where bin is open, and it opens none); it applies none of    *)
(* them, nor does dumpobj, which marks all but the plain and .LIMIT ones.  *)
GenBad  == {"GLOBAL_OFFSET", "GLOBAL_OFFSET_DISP", "PSECT", "PSECT_DISP", "PSECT_OFFSET",
            "PSECT_OFFSET_DISP", "COMPLEX"}
(* Mutant of DumpBad: displaced words pass for plain ones.                 *)
DumpBad_NoDisplaced == GenBad \cup {"GLOBAL", "GLOBAL_DISP"}

DumpBad == GenBad \cup {"INT_DISP", "GLOBAL", "GLOBAL_DISP"}

gen_rld_entry(r, e) ==
    IF e.code \in {"LOCDEF", "LOCMOD"} THEN Located(r, e)
    ELSE [r EXCEPT !.wrong = IF e.code = "GLOBAL" THEN @ + 1 ELSE @,
                   !.badbin = @ \/ e.code \in GenBad]

gen_got_rld(r, rec) == FoldLeft(gen_rld_entry, r, rec.entries)

dump_rld_entry(r, e) ==
    IF e.code \in {"LOCDEF", "LOCMOD"} THEN [r EXCEPT !.last_text_addr = e.word]
    ELSE [r EXCEPT !.badbin = @ \/ e.code \in DumpBad]

dump_got_rld(r, rec) == FoldLeft(dump_rld_entry, r, rec.entries)

(* dump_words2: the bytes go to their addresses, whatever their section.   *)
dump_words2(mem, addr, bytes) ==
    [a \in DOMAIN mem \cup addr..(addr + Len(bytes) - 1) |->
        IF a \in addr..(addr + Len(bytes) - 1) THEN bytes[a - addr + 1] ELSE mem[a]]

gen_got_text(r, rec) ==
    [r EXCEPT !.last_text_addr = rec.addr,
              !.blkram = dump_words2(@, rec.addr, rec.bytes)]

(* dump_bin: a block of absolute tape.                                     *)
dump_bin(r, addr, bytes) == [r EXCEPT !.bin = Append(@, [addr |-> addr, bytes |-> bytes])]

dump_got_text(r, rec) ==
    dump_bin([r EXCEPT !.last_text_addr = rec.addr], rec.addr, rec.bytes)

GenReset ==
    [state |-> "idle", last_text_addr |-> 0, psects |-> <<>>, xferad |-> 1,
     lowestloc |-> NoAddress, wrong |-> 0, badbin |-> FALSE,
     blkram |-> <<>>, meme |-> <<>>, memo |-> <<>>, fnb |-> <<>>, status |-> 0]

DumpReset ==
    [state |-> "idle", last_text_addr |-> 0, psects |-> <<>>, xferad |-> 1,
     wrong |-> 0, badbin |-> FALSE, bin |-> <<>>]

(* The records that readrec returns: all of them, or those before one with *)
(* a bad header, length or checksum.                                       *)
Intact ==
    IF damaged = 0 THEN directory \o file ELSE SubSeq(directory \o file, 1, damaged - 1)

-----------------------------------------------------------------------------
(* The reading of an object file that its writer intends: what a linker    *)
(* rebuilds from records, keeping the current section of the definitions.  *)
Relative == {"INT_DISP", "GLOBAL_DISP", "PSECT_DISP", "PSECT_OFFSET_DISP",
             "GLOBAL_OFFSET_DISP"}

(* What an entry asks: the word of the text is the offset to add to.  The  *)
(* entries that hold an offset of their own hold that word again.          *)
Asked(e, offset) ==
    [what |-> e.name, expr |-> e.expr, relative |-> e.code \in Relative,
     offset |-> offset, byte |-> e.size = 1]

Additive == {"INT", "INT_DISP", "GLOBAL_OFFSET", "GLOBAL_OFFSET_DISP", "PSECT_OFFSET",
             "PSECT_OFFSET_DISP"}

LinkEntry(l, e) ==
    IF e.code = "LOCDEF" THEN [l EXCEPT !.section = e.name, !.last = e.word]
    ELSE IF e.code = "LOCMOD" THEN [l EXCEPT !.last = e.word]
    ELSE [l EXCEPT !.fixups = @ \cup
            {<<l.section, l.last + e.disp - 4,
               Asked(e, IF e.code \in Additive THEN e.word ELSE 0)>>}]

LinkRecord(l, rec) ==
    CASE rec.type = "TEXT" ->
            LET here == {l.section} \X (rec.addr..(rec.addr + Len(rec.bytes) - 1))
            IN [l EXCEPT !.last = rec.addr,
                         !.image = [x \in DOMAIN @ \cup here |->
                            IF x \in here THEN rec.bytes[x[2] - rec.addr + 1] ELSE @[x]]]
      [] rec.type = "RLD" -> FoldLeft(LinkEntry, l, rec.entries)
      [] OTHER -> l

LinkedFrom(records) ==
    FoldLeft(LinkRecord,
             [section |-> NoSection, last |-> 0, image |-> <<>>, fixups |-> {}],
             records)

RecordsSoFar == IF phase = "closed" THEN file ELSE file \o text_flush(tr)

-----------------------------------------------------------------------------
(* process, in genblkram: record by record.                                *)
gen_process(r, rec) ==
    CASE rec.type = "GSD"  -> got_gsd(r, rec)
      [] rec.type = "TEXT" -> gen_got_text(r, rec)
      [] rec.type = "RLD"  -> gen_got_rld(r, rec)
      [] OTHER -> r

Byte(mem, a) == IF a \in DOMAIN mem THEN mem[a] ELSE <<0, "none">>

(* Mutant of gen_main: the even bytes go to both halves.                   *)
gen_main_SameHalf(r) ==
    LET base == IF r.lowestloc = NoAddress THEN 0 ELSE r.lowestloc
        half == [k \in 0..(ImageWords - 1) |-> Byte(r.blkram, base + 2 * k)]
    IN [r EXCEPT !.state = "done", !.lowestloc = base, !.meme = half, !.memo = half,
                 !.fnb = [a \in 0..(2 * ImageWords - 1) |-> Byte(r.blkram, a)],
                 !.status = IF r.wrong > 0 THEN -1 ELSE 0]

(* The rest of genblkram's main: the image from the base on, even bytes    *)
(* and odd bytes; the file of -b, from address 0 on; and the exit status.  *)
gen_main(r) ==
    LET base == IF r.lowestloc = NoAddress THEN 0 ELSE r.lowestloc
    IN [r EXCEPT
         !.state = "done",
         !.lowestloc = base,
         !.meme = [k \in 0..(ImageWords - 1) |-> Byte(r.blkram, base + 2 * k)],
         !.memo = [k \in 0..(ImageWords - 1) |-> Byte(r.blkram, base + 2 * k + 1)],
         !.fnb = [a \in 0..(2 * ImageWords - 1) |-> Byte(r.blkram, a)],
         !.status = IF r.wrong > 0 THEN -1 ELSE 0]

(* dumpobj's loop: record by record.                                       *)
dump_process(r, rec) ==
    CASE rec.type = "GSD"  -> got_gsd(r, rec)
      [] rec.type = "TEXT" -> dump_got_text(r, rec)
      [] rec.type = "RLD"  -> dump_got_rld(r, rec)
      [] OTHER -> r

(* Its end: the block that starts the program, with no bytes.              *)
dump_main(r) == [dump_bin(r, r.xferad, <<>>) EXCEPT !.state = "done"]

genblkram ==
    /\ phase = "closed" /\ gen.state = "idle"
    /\ gen' = gen_main(FoldLeft(gen_process, gen, Intact))
    /\ UNCHANGED <<writerVars, damaged, dump, linked>>

dumpobj ==
    /\ gen.state = "done" /\ dump.state = "idle"
    /\ dump' = dump_main(FoldLeft(dump_process, dump, Intact))
    /\ UNCHANGED <<writerVars, damaged, gen, linked>>

(* A record of the closed file is damaged before anything reads it.        *)
Damage ==
    /\ phase = "closed" /\ gen.state = "idle" /\ damaged = 0
    /\ damaged' \in 1..Len(directory \o file)
    /\ UNCHANGED <<writerVars, gen, dump, linked>>

Init ==
    /\ WriterInit
    /\ damaged = 0
    /\ linked = LinkedFrom(RecordsSoFar)
    /\ gen = GenReset
    /\ dump = DumpReset

Next ==
    \/ WriterNext /\ linked' = LinkedFrom(RecordsSoFar') /\ UNCHANGED readerVars
    \/ Damage
    \/ genblkram
    \/ dumpobj

Spec == Init /\ [][Next]_vars

GlobalNames == {g.name : g \in UNION {ToSet(p.globals) : p \in Palettes}}

StoredExprs ==
    {Append(e, [op |-> s]) : e \in ComplexExprs, s \in {"STORE", "STORE_DISP"}}

(* What the linker can be asked to add to a word.                          *)
Bases ==
    [what : {NoSection} \cup ToSet(Sections) \cup GlobalNames, expr : {<<>>}, relative : BOOLEAN]
    \cup [what : {NoSection}, relative : {FALSE}, expr : StoredExprs]

Image == INSTANCE ObjImage WITH
    Sections <- ToSet(Sections),
    MaxAddr  <- Max(Origins),
    Words    <- 0..MaxStores,
    image    <- linked.image,
    fixups   <- linked.fixups

(* Whatever the buffers' sizes, a linker rebuilds from the records and the  *)
(* buffers, after each step, what the program has stored, byte for byte,   *)
(* each relocation at the byte it is meant for and in its own section: a   *)
(* store puts its bytes at "." and a jump of "." changes nothing stored.   *)
ImplementsImage == Image!Spec

-----------------------------------------------------------------------------
(* Type correctness.                                                       *)
TypeOK ==
    /\ phase \in {"gsd", "text", "closed"}
    /\ palette \in Palettes
    /\ tr.txt_addr \in Nat /\ tr.rld_offset \in Nat \ {0, 1}
    /\ current \in ToSet(Sections)
    /\ pc \in [ToSet(Sections) -> Nat]
    /\ last_dot_section \in ToSet(Sections) \cup {NoSection}
    /\ last_dot_addr \in Nat
    /\ stores \in 0..MaxStores /\ moves \in 0..MaxMoves
    /\ damaged \in 0..Len(directory \o file)
    /\ gen.state \in {"idle", "done"} /\ dump.state \in {"idle", "done"}

OneSection(l) == \A x, y \in DOMAIN l.image : x[1] = y[1]

(* The sections come to the readers in the order of their sectors, however *)
(* many directory records they take, so the sector numbers in complex      *)
(* expressions mean the same to them; no record outgrows the buffer.       *)
SectorsNumbered ==
    /\ \A k \in DOMAIN directory : directory[k].type = "GSD" =>
          2 + 8 * Len(directory[k].entries) <= GsdMax
    /\ gen.state = "done" /\ damaged = 0 => gen.psects = Sections
    /\ dump.state = "done" /\ damaged = 0 => dump.psects = Sections

(* The image of a ROM holds each byte a one-section program has stored, as *)
(* far as the records were readable, even bytes in meme and odd ones in    *)
(* memo, provided it stored none below the base; and the file of -b holds  *)
(* those that lie as low as the image is long.                             *)
RomHoldsProgram ==
    LET l == LinkedFrom(Intact)
    IN gen.state = "done" /\ OneSection(l) =>
        \A x \in DOMAIN l.image :
            LET k == x[2] - gen.lowestloc
            IN /\ k \in 0..(2 * ImageWords - 1) /\ (\A y \in DOMAIN l.image : y[2] >= gen.lowestloc) =>
                    l.image[x] = IF k % 2 = 0 THEN gen.meme[k \div 2] ELSE gen.memo[k \div 2]
               /\ x[2] \in 0..(2 * ImageWords - 1) => l.image[x] = gen.fnb[x[2]]

(* A block of the tape, loaded.                                            *)
Load(mem, block) == dump_words2(mem, block.addr, block.bytes)

(* An absolute tape that dumpobj makes without a warning loads the program:*)
(* its blocks, loaded in turn, leave what was stored, and nothing stored   *)
(* waits for a symbol, another section or its own address to be added.     *)
TapeWithoutWarning ==
    LET l == LinkedFrom(Intact)
        loaded == FoldLeft(Load, <<>>, dump.bin)
    IN dump.state = "done" /\ ~dump.badbin /\ OneSection(l) =>
        /\ \A x \in DOMAIN l.image : loaded[x[2]] = l.image[x]
        /\ \A f \in l.fixups : f[3].what \in {NoSection, f[1]} /\ ~f[3].relative

(* genblkram's exit status and its marks tell a complete image: with       *)
(* neither, no word of the program still waits for its own address to be   *)
(* taken off.                                                              *)
RomIsResolved ==
    gen.state = "done" /\ gen.status = 0 /\ ~gen.badbin /\ damaged = 0 =>
        \A f \in linked.fixups : ~f[3].relative
=============================================================================
