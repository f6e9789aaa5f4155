------------------------------ MODULE ObjImage ------------------------------
(***************************************************************************)
(* What an object file is for: a program is a set of sections, each with   *)
(* its own location counter; a store puts a word or a byte at the location *)
(* counter of the current section, perhaps with something for the linker   *)
(* to add to it, and moves the counter past it.  No records, no buffers.   *)
(***************************************************************************)
EXTENDS Integers, Sequences

CONSTANTS
    Sections,    \* the program sections
    MaxAddr,     \* the bound on an assigned location counter
    Words,       \* what a word can hold
    Bases        \* what the linker can be asked to add to a word, and how

VARIABLES
    current,   \* the current section
    pc,        \* the location counter of every section
    image,     \* the bytes stored, at their section and address
    fixups     \* what the linker is asked to add, and where

vars == <<current, pc, image, fixups>>

Init ==
    /\ current \in Sections
    /\ pc = [s \in Sections |-> 0]
    /\ image = <<>>
    /\ fixups = {}

(* A section is taken up where it was left.                                *)
Enter(s) ==
    /\ current' = s
    /\ UNCHANGED <<pc, image, fixups>>

(* The location counter of the current section is assigned.                *)
Move(a) ==
    /\ pc' = [pc EXCEPT ![current] = a]
    /\ UNCHANGED <<current, image, fixups>>

(* The bytes of a word, the low one first; a byte is a word's low half.    *)
Bytes(w, size) ==
    IF size = 1 THEN <<<<w, "low">>>> ELSE <<<<w, "low">>, <<w, "high">>>>

(* The linker adds b, a symbol or the value of an expression, to w.        *)
Fixup(b, w, size) ==
    [what |-> b.what, expr |-> b.expr, relative |-> b.relative, offset |-> w,
     byte |-> size = 1]

(* The bytes bs go to the location counter, with the fixups fs there.      *)
Put(bs, fs) ==
    LET a == pc[current]
        here == {current} \X (a..(a + Len(bs) - 1))
    IN /\ pc' = [pc EXCEPT ![current] = a + Len(bs)]
       /\ image' = [x \in DOMAIN image \cup here |->
                       IF x \in here THEN bs[x[2] - a + 1] ELSE image[x]]
       /\ fixups' = fixups \cup {<<current, a, f>> : f \in fs}
       /\ UNCHANGED current

Next ==
    \/ \E s \in Sections : Enter(s)
    \/ \E a \in 0..MaxAddr : Move(a)
    \/ \E w \in Words, size \in {1, 2} :
          \/ Put(Bytes(w, size), {})
          \/ \E b \in Bases : Put(Bytes(w, size), {Fixup(b, w, size)})
    \/ \E b \in Bases : Put(Bytes(0, 2) \o Bytes(0, 2), {Fixup(b, 0, 2)})

Spec == Init /\ [][Next]_vars
=============================================================================
