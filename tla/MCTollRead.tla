----------------------------- MODULE MCTollRead -----------------------------
(***************************************************************************)
(* Two requests, which may present the same payment or two: one that signs *)
(* every leg and one that signs the author's.                              *)
(***************************************************************************)
EXTENDS TollRead, TLC

CONSTANTS p1, p2, r1, r2

MCPayments == {p1, p2}
MCWhole == {p1}
MCRequests == {r1, r2}

AnyRequest == Permutations(MCRequests)

=============================================================================
