--------------------------- MODULE MCBuyerSession ---------------------------
(* Two concurrent calls, one page at the gate and one elsewhere in the     *)
(* fleet, both listed under one slug; tolls that differ in the author's    *)
(* leg and in the total.                                                   *)
EXTENDS BuyerSession, TLC

CONSTANTS c1, c2, a, b, gate, site

MCHostOf == a :> gate @@ b :> site
MCSlugOf == a :> "about" @@ b :> "about"
MCTolls == {[author |-> 1, total |-> t] : t \in 1..3}
MCTolerance == 1 :> 0 @@ 2 :> 1 @@ 3 :> 1
=============================================================================
