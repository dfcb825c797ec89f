------------------------- MODULE MCPublisherResolver -------------------------
(* Two hosts of which one is remembered, and two requests at once; a record  *)
(* is kept for two ticks, a first failure for one, a fetch takes up to one.  *)
EXTENDS PublisherResolver, TLC

CONSTANTS r1, r2, h1, h2

MCSymmetry == Permutations({r1, r2}) \cup Permutations({h1, h2})
=============================================================================
