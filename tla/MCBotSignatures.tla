--------------------------- MODULE MCBotSignatures ---------------------------
(* Three requests at once over two directories, of which one is cached; a   *)
(* fetch takes up to one tick, keys are cached for one, failures for none.  *)
EXTENDS BotSignatures, TLC

CONSTANTS r1, r2, r3, d1, d2, k1, k2

MCSignedBy(r) ==
  CASE r = r1 -> [dir |-> d1, key |-> k1]
    [] r = r2 -> [dir |-> d1, key |-> k2]
    [] r = r3 -> [dir |-> d2, key |-> k1]

\* the second key of the first directory is still to come
MCFirstKeys == {[d \in Directories |-> {k1}]}
=============================================================================
