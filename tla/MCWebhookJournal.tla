-------------------------- MODULE MCWebhookJournal --------------------------
(***************************************************************************)
(* Two deliveries and two sweeps over a journal that is compacted after    *)
(* two lines.                                                              *)
(***************************************************************************)
EXTENDS WebhookJournal, TLC

CONSTANTS i1, i2, s1, s2

MCIds == {i1, i2}
MCSweeps == {s1, s2}
Symmetry == Permutations(MCIds) \cup Permutations(MCSweeps)

=============================================================================
