--------------------------- MODULE MCInterrupts ---------------------------
(* Small buses for Interrupts: which controllers are present, their BR     *)
(* lines and their places in the arbiters' chains, as rtl/unibus.vhd wires *)
(* them.                                                                   *)
EXTENDS Interrupts, Sequences, TLC

KindOf == "kl" :> "kl11" @@ "kl1" :> "kl11" @@ "di" :> "mnc" @@ "do" :> "mncdo" @@ "kw" :> "kw11l"
       @@ "ad" :> "mnc" @@ "rh" :> "rh11" @@ "xu" :> "xu" @@ "rl" :> "rl11"
       @@ "tm" :> "tm11" @@ "ts" :> "ts11" @@ "rk" :> "rk11" @@ "dr" :> "dr11c"

LevelOf == [d \in DOMAIN KindOf |->
               IF d \in {"kw", "ad"} THEN 6
               ELSE IF d \in {"kl", "kl1", "di", "do"} THEN 4 ELSE 5]

Chain == <<"kl", "kl1", "di", "do", "kw", "ad", "rh", "xu", "rl", "tm", "ts", "rk", "dr">>

KindHere  == [d \in Devices |-> KindOf[d]]
LevelHere == [d \in Devices |-> LevelOf[d]]
RankHere  == [d \in Devices |-> CHOOSE n \in 1..Len(Chain) : Chain[n] = d]

(* The buses that are checked: two devices that share a line, or two lines. *)
Configured == {Devices}
Pairs == {b \in SUBSET Devices :
             b \in {{"kl", "do"}, {"rk", "rl"}, {"kw", "ad"}, {"dr", "ts"}}}
Mixed == {b \in SUBSET Devices : b \in {{"rh", "xu"}, {"kl"}, {"do"}}}

NoPirs == {{}}
SomePirs == {{}, {5}}
=============================================================================
