----------------------------- MODULE LegLedger -----------------------------
(***************************************************************************)
(* What the deferred settlement of extra legs promises, with no sink, no   *)
(* drain and no facilitator in sight.  A buyer authorizes a leg once; the  *)
(* money of an authorized leg moves at most once and only before the       *)
(* authorization expires; and the books say "settled" only of money that   *)
(* has moved, for good.                                                    *)
(***************************************************************************)
EXTENDS Naturals

CONSTANTS Legs,         \* the authorization ids of the extra legs
          ValidBefore   \* when each authorization expires

VARIABLES owed,    \* legs the sink knows
          moved,   \* legs whose authorization was consumed
          booked,  \* legs the sink reports settled
          time

ledgerVars == <<owed, moved, booked, time>>

LedgerInit ==
  /\ owed = {}
  /\ moved = {}
  /\ booked = {}
  /\ time = 0

Authorize(l) ==
  /\ owed' = owed \cup {l}
  /\ UNCHANGED <<moved, booked, time>>

Move(l) ==
  /\ l \in owed \ moved
  /\ time < ValidBefore[l]
  /\ moved' = moved \cup {l}
  /\ UNCHANGED <<owed, booked, time>>

Book(l) ==
  /\ l \in moved \ booked
  /\ booked' = booked \cup {l}
  /\ UNCHANGED <<owed, moved, time>>

Elapse ==
  /\ time' = time + 1
  /\ UNCHANGED <<owed, moved, booked>>

LedgerNext ==
  \/ \E l \in Legs : Authorize(l) \/ Move(l) \/ Book(l)
  \/ Elapse

LedgerSpec == LedgerInit /\ [][LedgerNext]_ledgerVars

=============================================================================
