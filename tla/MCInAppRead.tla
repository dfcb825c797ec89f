----------------------------- MODULE MCInAppRead -----------------------------
(* Two reads that may present one payment; callers of every mix of signals *)
(* under every policy, folded by what they decide.                         *)
EXTENDS InAppRead, TLC

CONSTANTS r1, r2, p1

MCCallers == CallerRecord
MCPolicies == PolicyRecord
=============================================================================
