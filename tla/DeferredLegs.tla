---------------------------- MODULE DeferredLegs ----------------------------
(***************************************************************************)
(* The deferred settlement of a toll's extra legs.  The gate settles the   *)
(* author leg while the reader waits and records every other leg the buyer *)
(* signed in the pending-leg sink (pendingLegs.ts); drain passes, on any   *)
(* number of boxes over one database, settle them later (x402.ts).         *)
(*                                                                         *)
(* A drain pass takes its time from one reading of the clock, reads the    *)
(* claimable legs, and for each of them claims, broadcasts to the          *)
(* facilitator and records, in that order, with an await between any two.  *)
(* The facilitator is external: a request may move the money and lose its  *)
(* answer, be refused, or land after its caller gave up.                   *)
(***************************************************************************)
EXTENDS Integers

CONSTANTS Legs,         \* authorization ids (EIP-3009 nonces) of extra legs
          Drains,       \* the boxes that run drain passes
          Scopes,       \* the sets of legs a pass may be scoped to
          ValidBefore,  \* when each authorization expires
          Lease,        \* CLAIM_LEASE_MS
          MaxTime,      \* bound on the clock
          NoLeg

ASSUME LegsAssumption ==
  /\ Scopes \subseteq SUBSET Legs
  /\ ValidBefore \in [Legs -> Nat]
  /\ Lease \in Nat \ {0}
  /\ MaxTime \in Nat
  /\ NoLeg \notin Legs

VARIABLES
  clock,
  recorded,      \* rows of the sink
  settled,       \* rows whose settled column is true
  claimedUntil,  \* the claimed_until column, NoClaim when null
  consumed,      \* authorizations the token contract has consumed
  late,          \* legs with a request whose caller gave up before it landed
  pc, passNow, todo, leg, request,  \* the pass of each drain
  counted        \* how often a pass has counted each leg as settled

rowVars == <<recorded, settled, claimedUntil>>
passVars == <<pc, passNow, todo, leg, request>>
vars == <<clock, rowVars, consumed, late, passVars, counted>>

NoClaim == -1   \* below every time, as a null column is below every filter

-----------------------------------------------------------------------------

Init ==
  /\ clock = 0
  /\ recorded = {}
  /\ settled = {}
  /\ claimedUntil = [l \in Legs |-> NoClaim]
  /\ consumed = {}
  /\ late = {}
  /\ pc = [d \in Drains |-> "idle"]
  /\ passNow = [d \in Drains |-> 0]
  /\ todo = [d \in Drains |-> {}]
  /\ leg = [d \in Drains |-> NoLeg]
  /\ request = [d \in Drains |-> "none"]
  /\ counted = [l \in Legs |-> 0]

Tick ==
  /\ clock < MaxTime
  /\ clock' = clock + 1
  /\ UNCHANGED <<rowVars, consumed, late, passVars, counted>>

-----------------------------------------------------------------------------
(* The sink.                                                               *)

(* Mutant: the insert replaces the row instead of ignoring the duplicate.  *)
RecordOverwrites(l) ==
  /\ recorded' = recorded \cup {l}
  /\ settled' = settled \ {l}
  /\ claimedUntil' = [claimedUntil EXCEPT ![l] = NoClaim]
  /\ UNCHANGED <<clock, consumed, late, passVars, counted>>

(* The gate defers a leg.  A buyer who presents the same payment again     *)
(* records nothing new.                                                    *)
Record(l) ==
  /\ recorded' = recorded \cup {l}
  /\ UNCHANGED <<clock, settled, claimedUntil, consumed, late, passVars, counted>>

Outstanding(now) == {l \in recorded \ settled : ValidBefore[l] > now}

(* Mutant: the filter compares the lease with the end of the new claim.    *)
ClaimableEarly(l, now) == claimedUntil[l] < now + Lease

Claimable(l, now) == claimedUntil[l] < now

Pending(now, scope) == {l \in Outstanding(now) \cap scope : Claimable(l, now)}

-----------------------------------------------------------------------------
(* A drain pass.                                                           *)

(* The pass's only reading of the clock.                                   *)
StartPass(d) ==
  /\ pc[d] = "idle"
  /\ pc' = [pc EXCEPT ![d] = "reading"]
  /\ passNow' = [passNow EXCEPT ![d] = clock]
  /\ UNCHANGED <<clock, rowVars, consumed, late, todo, leg, request, counted>>

ReadPending(d) ==
  /\ pc[d] = "reading"
  /\ \E scope \in Scopes : todo' = [todo EXCEPT ![d] = Pending(passNow[d], scope)]
  /\ pc' = [pc EXCEPT ![d] = "loop"]
  /\ UNCHANGED <<clock, rowVars, consumed, late, passNow, leg, request, counted>>

(* The next leg of the snapshot: the one that expires first.               *)
IsNext(d, l) ==
  /\ l \in todo[d]
  /\ \A m \in todo[d] : ValidBefore[l] <= ValidBefore[m]

(* The compare-and-set on claimed_until, with the pass's own clock.        *)
Claim(d, l) ==
  /\ pc[d] = "loop"
  /\ IsNext(d, l)
  /\ l \notin settled
  /\ Claimable(l, passNow[d])
  /\ claimedUntil' = [claimedUntil EXCEPT ![l] = passNow[d] + Lease]
  /\ todo' = [todo EXCEPT ![d] = @ \ {l}]
  /\ leg' = [leg EXCEPT ![d] = l]
  /\ pc' = [pc EXCEPT ![d] = "claimed"]
  /\ UNCHANGED <<clock, recorded, settled, consumed, late, passNow, request, counted>>

(* Another drain settled the leg or claimed it since the snapshot.         *)
SkipLeg(d, l) ==
  /\ pc[d] = "loop"
  /\ IsNext(d, l)
  /\ l \in settled \/ ~Claimable(l, passNow[d])
  /\ todo' = [todo EXCEPT ![d] = @ \ {l}]
  /\ UNCHANGED <<clock, rowVars, consumed, late, pc, passNow, leg, request, counted>>

(* facilitator.settle is called; no timeout bounds the await.              *)
Broadcast(d) ==
  /\ pc[d] = "claimed"
  /\ pc' = [pc EXCEPT ![d] = "awaiting"]
  /\ request' = [request EXCEPT ![d] = "sent"]
  /\ UNCHANGED <<clock, rowVars, consumed, late, passNow, todo, leg, counted>>

(* What is left of a request its caller no longer waits for.               *)
Abandoned(d) == IF request[d] = "sent" THEN {leg[d]} ELSE {}

(* The attempt is over; its claim stays until the lease lapses.            *)
GiveUpLeg(d) ==
  /\ pc' = [pc EXCEPT ![d] = "loop"]
  /\ leg' = [leg EXCEPT ![d] = NoLeg]
  /\ request' = [request EXCEPT ![d] = "none"]
  /\ late' = late \cup Abandoned(d)

(* Mutant: every refusal is read as the reuse of the authorization.        *)
AnyAnswerMeansMoved(answer) == answer \in {"moved", "spent", "refused"}

(* A success that carries a transaction settles; a refusal that names the  *)
(* reuse of the authorization reconciles; any other answer is a failure.   *)
MeansMoved(answer) == answer \in {"moved", "spent"}

AnswerSettled(d) ==
  /\ pc[d] = "awaiting"
  /\ MeansMoved(request[d])
  /\ pc' = [pc EXCEPT ![d] = "marking"]
  /\ request' = [request EXCEPT ![d] = "none"]
  /\ UNCHANGED <<clock, rowVars, consumed, late, passNow, todo, leg, counted>>

(* A refusal, a refusal for reuse in words the gate does not recognise, a  *)
(* success without a transaction, or an exception whatever the request did.*)
AnswerFailed(d) ==
  /\ pc[d] = "awaiting"
  /\ GiveUpLeg(d)
  /\ UNCHANGED <<clock, rowVars, consumed, passNow, todo, counted>>

(* Mutant: the pass counts the leg without asking who flipped the row.     *)
MarkSettledUncompared(d) ==
  /\ pc[d] = "marking"
  /\ settled' = settled \cup {leg[d]}
  /\ counted' = [counted EXCEPT ![leg[d]] = @ + 1]
  /\ GiveUpLeg(d)
  /\ UNCHANGED <<clock, recorded, claimedUntil, consumed, passNow, todo>>

(* Only the call that flips the row counts the leg.                        *)
MarkSettled(d) ==
  /\ pc[d] = "marking"
  /\ settled' = settled \cup {leg[d]}
  /\ counted' = IF leg[d] \in settled THEN counted
                ELSE [counted EXCEPT ![leg[d]] = @ + 1]
  /\ GiveUpLeg(d)
  /\ UNCHANGED <<clock, recorded, claimedUntil, consumed, passNow, todo>>

(* The pass is over: nothing of it survives in the process.                *)
LeavePass(d) ==
  /\ pc' = [pc EXCEPT ![d] = "idle"]
  /\ passNow' = [passNow EXCEPT ![d] = 0]
  /\ todo' = [todo EXCEPT ![d] = {}]
  /\ leg' = [leg EXCEPT ![d] = NoLeg]
  /\ request' = [request EXCEPT ![d] = "none"]
  /\ late' = late \cup Abandoned(d)

(* The row flips but the answer is lost: the exception ends the pass.      *)
MarkAnswerLost(d) ==
  /\ pc[d] = "marking"
  /\ settled' = settled \cup {leg[d]}
  /\ LeavePass(d)
  /\ UNCHANGED <<clock, recorded, claimedUntil, consumed, counted>>

EndPass(d) ==
  /\ pc[d] = "loop"
  /\ todo[d] = {}
  /\ LeavePass(d)
  /\ UNCHANGED <<clock, rowVars, consumed, counted>>

(* The box dies, or a call to the sink throws and ends the pass.  Rows and *)
(* claims survive in the database, and a request already sent may land.    *)
Crash(d) ==
  /\ pc[d] # "idle"
  /\ LeavePass(d)
  /\ UNCHANGED <<clock, rowVars, consumed, counted>>

Drain(d) ==
  \/ StartPass(d) \/ ReadPending(d) \/ EndPass(d) \/ Crash(d)
  \/ \E l \in Legs : Claim(d, l) \/ SkipLeg(d, l)
  \/ Broadcast(d) \/ AnswerSettled(d) \/ AnswerFailed(d)
  \/ MarkSettled(d) \/ MarkAnswerLost(d)

-----------------------------------------------------------------------------
(* The facilitator and the token contract.                                 *)

CanConsume(l) == l \notin consumed /\ clock < ValidBefore[l]

(* The request of a waiting drain reaches the contract: the money moves,   *)
(* the authorization turns out spent, or the request is refused.           *)
Land(d) ==
  /\ request[d] = "sent"
  /\ \/ /\ CanConsume(leg[d])
        /\ consumed' = consumed \cup {leg[d]}
        /\ request' = [request EXCEPT ![d] = "moved"]
     \/ /\ leg[d] \in consumed
        /\ request' = [request EXCEPT ![d] = "spent"]
        /\ UNCHANGED consumed
     \/ /\ leg[d] \notin consumed
        /\ request' = [request EXCEPT ![d] = "refused"]
        /\ UNCHANGED consumed
  /\ UNCHANGED <<clock, rowVars, late, pc, passNow, todo, leg, counted>>

(* A request nobody waits for any more lands after all.                    *)
LandLate(l) ==
  /\ l \in late
  /\ CanConsume(l)
  /\ consumed' = consumed \cup {l}
  /\ UNCHANGED <<clock, rowVars, late, passVars, counted>>

Next ==
  \/ Tick
  \/ \E l \in Legs : Record(l) \/ LandLate(l)
  \/ \E d \in Drains : Drain(d) \/ Land(d)

Spec == Init /\ [][Next]_vars

-----------------------------------------------------------------------------
(* Properties.                                                             *)

Times == 0..MaxTime

(* Every variable stays in its range, and no claim keeps a leg out of the  *)
(* passes for longer than a lease (pendingLegs.ts, the row; x402.ts, the   *)
(* pass).                                                                  *)
TypeOK ==
  /\ clock \in Times
  /\ recorded \in SUBSET Legs
  /\ settled \in SUBSET recorded
  /\ claimedUntil \in [Legs -> {NoClaim} \cup Nat]
  /\ \A l \in Legs : claimedUntil[l] <= clock + Lease
  /\ consumed \in SUBSET recorded
  /\ late \in SUBSET recorded
  /\ pc \in [Drains -> {"idle", "reading", "loop", "claimed", "awaiting", "marking"}]
  /\ passNow \in [Drains -> Times]
  /\ todo \in [Drains -> SUBSET recorded]
  /\ leg \in [Drains -> recorded \cup {NoLeg}]
  /\ request \in [Drains -> {"none", "sent", "moved", "spent", "refused"}]
  /\ counted \in [Legs -> Nat]

Attempting(d, l) == pc[d] \in {"claimed", "awaiting", "marking"} /\ leg[d] = l

(* The books never call a leg settled whose money did not move, whatever   *)
(* answers were lost, late or misread (x402.ts, settleOneLeg's three-way   *)
(* outcome).                                                               *)
BooksMatchMoney == settled \subseteq consumed

(* Over all passes of all boxes a leg is counted at most once, and only    *)
(* once its row is settled (the compare-and-set of markSettled).           *)
CountedOnce ==
  \A l \in Legs : counted[l] <= 1 /\ (counted[l] = 1 => l \in settled)

LiveClaim(d) == clock <= passNow[d] + Lease

(* Two drains never attempt one leg while the claims of both still hold:   *)
(* the database decides the winner of a claim (pendingLegs.ts, claim).     *)
LiveClaimsExclude ==
  \A d, e \in Drains : \A l \in Legs :
    d # e /\ Attempting(d, l) /\ Attempting(e, l) => ~(LiveClaim(d) /\ LiveClaim(e))

(* An attempt whose outcome is unknown keeps the leg to itself until its   *)
(* lease has lapsed: no step gives it to another attempt, or releases it,  *)
(* earlier (x402.ts, "Do NOT release").                                    *)
LeaseOutlivesFailure ==
  [][\A l \in Legs : claimedUntil'[l] # claimedUntil[l] =>
       claimedUntil[l] < clock /\ claimedUntil[l] < claimedUntil'[l]]_vars

(* The sink, the drains and the facilitator together implement LegLedger:  *)
(* money moves at most once and in time, and "settled" is final and true.  *)
Ledger == INSTANCE LegLedger WITH
  owed <- recorded, moved <- consumed, booked <- settled, time <- clock

ImplementsLedger == Ledger!LedgerSpec

=============================================================================
