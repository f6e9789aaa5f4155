---------------------------- MODULE MCObjectFile ----------------------------
(* Instances of ObjectReaders: buffers of a few words, so that every kind  *)
(* of store meets a buffer that is nearly full.                            *)
EXTENDS ObjectReaders

MCSections == <<"blank", "abs">>

(* Another section's start negated, and the sum of two globals, which      *)
(* fills an RLD buffer to its last byte.                                   *)
Sum == <<[op |-> "GLOBAL", name |-> "G"], [op |-> "GLOBAL", name |-> "G"], [op |-> "ADD"]>>

(* With its store, as long as accum holds: two bytes more than an RLD      *)
(* buffer has for it.                                                      *)
Long == Sum \o <<[op |-> "NEG"], [op |-> "COM"]>>

MCComplexExprs ==
    {<<[op |-> "REL", sector |-> 1], [op |-> "NEG"]>>, Sum, Long}

G == [name |-> "G", section |-> "blank"]
H == [name |-> "H", section |-> "abs"]

MCPalettes ==
    {[kinds |-> {"word", "byte", "internal"}, globals |-> <<>>],
     [kinds |-> {"displaced", "global", "limits"}, globals |-> <<G>>],
     [kinds |-> {"psect", "psect_displaced"}, globals |-> <<>>],
     [kinds |-> {"complex", "invalid"}, globals |-> <<G>>],
     [kinds |-> {"global_displaced", "complex_displaced"}, globals |-> <<H, G>>]}

(* The expressions fit in accum, as the proof that the file implements the *)
(* image asks.                                                             *)
ASSUME ExprsFit == AccumHolds

RomPalettes == {[kinds |-> {"word", "displaced"}, globals |-> <<>>]}
=============================================================================
