-------------------------- MODULE MCConnectGrants --------------------------
(***************************************************************************)
(* Two codes, so that saving the second may sweep the first; two           *)
(* requests, so that one may redeem a code and the other replay it.        *)
(***************************************************************************)
EXTENDS ConnectGrants, TLC

CONSTANTS c1, c2, r1, r2, p1

MCCodes == {c1, c2}
MCRequests == {r1, r2}
MCConsoles == {p1}

RequestsAndCodes == Permutations(MCRequests) \cup Permutations(MCCodes)

=============================================================================
