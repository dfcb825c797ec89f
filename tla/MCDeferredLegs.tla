--------------------------- MODULE MCDeferredLegs ---------------------------
(***************************************************************************)
(* Two boxes drain two legs with different expiries.  The lease is shorter *)
(* than the run, so claims lapse while passes are still at work.           *)
(***************************************************************************)
EXTENDS DeferredLegs, TLC

CONSTANTS l1, l2, d1, d2

MCLegs == {l1, l2}
MCDrains == {d1, d2}
MCScopes == {MCLegs, {l2}}     \* every publisher, or the publisher of l2
MCValidBefore == l1 :> 3 @@ l2 :> 5

OneLeg == {l1}
OneScope == {OneLeg}
OneValidBefore == l1 :> 3

DrainSymmetry == Permutations(MCDrains)

=============================================================================
