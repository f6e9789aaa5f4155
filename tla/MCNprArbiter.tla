--------------------------- MODULE MCNprArbiter ---------------------------
(* Small sets of bus masters for NprArbiter, in the order of the chain of  *)
(* npr_idle in rtl/unibus.vhd.                                             *)
EXTENDS NprArbiter, Sequences

Chain == <<"rl0", "tm0", "rk0", "rh0", "xu0">>

RankHere == [d \in Devices |-> CHOOSE n \in 1..Len(Chain) : Chain[n] = d]
=============================================================================
