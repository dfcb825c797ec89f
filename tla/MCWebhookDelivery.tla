------------------------- MODULE MCWebhookDelivery -------------------------
(***************************************************************************)
(* One endpoint, two deliveries, two overlapping sweeps that send one at a *)
(* time, two attempts, a lease of one tick, a crash and a revival.         *)
(***************************************************************************)
EXTENDS WebhookDelivery, TLC

CONSTANTS ep1, e1, e2, s1, s2

MCEndpoints == {ep1}
MCEvents == {e1, e2}
MCMatches == MCEndpoints \X MCEvents
MCSweeps == {s1, s2}
MCBackoff == <<1>>
MCRetryAfters == {0}

=============================================================================
