-------------------------- MODULE WebhookDelivery --------------------------
(***************************************************************************)
(* The webhook outbox (shared/src/webhooks): dispatchEvent writes one row  *)
(* for each endpoint an event is for; sweeps claim the due rows, send them *)
(* in chunks and fold every answer into the row and into the endpoint's    *)
(* failure counter.  Sweeps overlap: a timer starts one without waiting    *)
(* for the last, and several instances may share a store.  The store is    *)
(* the one WebhookDeliveryStore describes, each call atomic.               *)
(*                                                                         *)
(* Time is relative: a Tick brings every wait one unit nearer, so that the *)
(* state is finite although time is not.                                   *)
(***************************************************************************)
EXTENDS Integers, Sequences, FiniteSets, FiniteSetsExt

CONSTANTS Endpoints,
          Events,
          Matches,      \* pairs <<endpoint, event>>: type, host and channel fit
          Sweeps,       \* sweeps that may run at once
          Concurrency,  \* attempts of a sweep at once
          Backoff,      \* BACKOFF_OFFSETS_MS, in ticks
          RetryAfters,  \* Retry-After values of a receiver, 0 for none
          Lease,        \* CLAIM_LEASE_MS, in ticks
          Threshold,    \* autoDisableThreshold
          MaxCrashes, MaxRevives   \* bounds on faults and on the operator

ASSUME DeliveryAssumption ==
  /\ Matches \subseteq Endpoints \X Events
  /\ Concurrency \in Nat \ {0} /\ Lease \in Nat \ {0} /\ Threshold \in Nat \ {0}
  /\ Backoff \in Seq(Nat \ {0}) /\ RetryAfters \in SUBSET Nat
  /\ MaxCrashes \in Nat /\ MaxRevives \in Nat

VARIABLES
  row,          \* each delivery's status, attempts and ticks until due
  lease,        \* ticks until its claim lapses, 0 when free
  enabled, failures,     \* each endpoint's switch and failure counter
  toEnqueue,    \* endpoints a running dispatch has still to write
  stage,        \* what each sweep is doing with each delivery
  taken,        \* attempts of the row as the sweep claimed it
  age,          \* ticks since each sweep read its clock
  crashes, revives

rowVars == <<row, lease>>
endpointVars == <<enabled, failures>>
sweepVars == <<stage, taken, age>>
vars == <<rowVars, endpointVars, toEnqueue, sweepVars, crashes, revives>>

Deliveries == Endpoints \X Events
EndpointOf(d) == d[1]

MaxAttempts == Len(Backoff) + 1

Statuses == {"none", "pending", "delivered", "failed", "exhausted"}
Open == {"queued", "starting", "dropping", "sending", "accepted", "blocked", "refused"}
Stages == {"idle"} \cup Open \cup {"resetting", "bumping", "disabling"}

Init ==
  /\ row = [d \in Deliveries |-> [status |-> "none", attempts |-> 0, due |-> 0]]
  /\ lease = [d \in Deliveries |-> 0]
  /\ enabled = [ep \in Endpoints |-> TRUE]
  /\ failures = [ep \in Endpoints |-> 0]
  /\ toEnqueue = [e \in Events |-> {}]
  /\ stage = [s \in Sweeps |-> [d \in Deliveries |-> "idle"]]
  /\ taken = [s \in Sweeps |-> [d \in Deliveries |-> 0]]
  /\ age = [s \in Sweeps |-> 0]
  /\ crashes = 0
  /\ revives = 0

InFlight(s, d) == stage[s][d] \in Open
Running(s) == \E d \in Deliveries : stage[s][d] # "idle"

(* Mutant: a claim never lapses.                                           *)
TickKeepsClaims ==
  /\ \A s \in Sweeps, d \in Deliveries : InFlight(s, d) => lease[d] > 1
  /\ row' = [d \in Deliveries |-> [row[d] EXCEPT !.due = Max({0, @ - 1})]]
  /\ age' = [s \in Sweeps |-> IF \E d \in Deliveries : InFlight(s, d) THEN age[s] + 1 ELSE 0]
  /\ UNCHANGED <<lease, endpointVars, toEnqueue, stage, taken, crashes, revives>>

(* dispatch.ts asks of CLAIM_LEASE_MS that every attempt of a batch is     *)
(* recorded before its claim lapses: time does not outrun a live sweep.    *)
Tick ==
  /\ \A s \in Sweeps, d \in Deliveries : InFlight(s, d) => lease[d] > 1
  /\ row' = [d \in Deliveries |-> [row[d] EXCEPT !.due = Max({0, @ - 1})]]
  /\ lease' = [d \in Deliveries |-> Max({0, lease[d] - 1})]
  /\ age' = [s \in Sweeps |-> IF \E d \in Deliveries : InFlight(s, d) THEN age[s] + 1 ELSE 0]
  /\ UNCHANGED <<endpointVars, toEnqueue, stage, taken, crashes, revives>>

-----------------------------------------------------------------------------
(* Enqueue.                                                                *)

Dispatch(e) ==
  /\ toEnqueue[e] = {}
  /\ toEnqueue' = [toEnqueue EXCEPT ![e] =
       {ep \in Endpoints : enabled[ep] /\ <<ep, e>> \in Matches}]
  /\ UNCHANGED <<rowVars, endpointVars, sweepVars, crashes, revives>>

Fresh == [status |-> "pending", attempts |-> 0, due |-> 0]

(* One row for each endpoint and event: a duplicate changes nothing.       *)
Enqueue(ep, e) ==
  /\ ep \in toEnqueue[e]
  /\ toEnqueue' = [toEnqueue EXCEPT ![e] = @ \ {ep}]
  /\ row' = IF row[<<ep, e>>].status = "none" THEN [row EXCEPT ![<<ep, e>>] = Fresh] ELSE row
  /\ UNCHANGED <<lease, endpointVars, sweepVars, crashes, revives>>

-----------------------------------------------------------------------------
(* The sweep.                                                              *)

(* Mutant: the claim filter forgets the lease.                             *)
DueUnclaimed(d) == row[d].status = "pending" /\ row[d].due = 0

Due(d) == row[d].status = "pending" /\ row[d].due = 0 /\ lease[d] = 0

(* claimDue stamps the lease on every due row (CLAIM_LIMIT is taken to     *)
(* exceed them), and the sweep keeps copies.                               *)
StartSweep(s) ==
  /\ ~Running(s)
  /\ \E d \in Deliveries : Due(d)
  /\ lease' = [d \in Deliveries |-> IF Due(d) THEN Lease ELSE lease[d]]
  /\ stage' = [stage EXCEPT ![s] = [d \in Deliveries |-> IF Due(d) THEN "queued" ELSE "idle"]]
  /\ taken' = [taken EXCEPT ![s] = [d \in Deliveries |-> IF Due(d) THEN row[d].attempts ELSE 0]]
  /\ age' = [age EXCEPT ![s] = 0]
  /\ UNCHANGED <<row, endpointVars, toEnqueue, crashes, revives>>

(* The next chunk starts when every attempt of the last one has ended.     *)
StartChunk(s) ==
  LET queue == {d \in Deliveries : stage[s][d] = "queued"} IN
  /\ queue # {}
  /\ \A d \in Deliveries : stage[s][d] \in {"queued", "idle"}
  /\ \E chunk \in kSubset(Min({Concurrency, Cardinality(queue)}), queue) :
       stage' = [stage EXCEPT ![s] = [d \in Deliveries |->
                   IF d \in chunk THEN "starting" ELSE @[d]]]
  /\ UNCHANGED <<rowVars, endpointVars, toEnqueue, taken, age, crashes, revives>>

MoveTo(s, d, st) == stage' = [stage EXCEPT ![s][d] = st]

(* A disabled or deleted endpoint is found out before anything is sent.    *)
LoadEndpoint(s, d) ==
  /\ stage[s][d] = "starting"
  /\ MoveTo(s, d, IF enabled[EndpointOf(d)] THEN "sending" ELSE "dropping")
  /\ UNCHANGED <<rowVars, endpointVars, toEnqueue, taken, age, crashes, revives>>

(* The receiver accepts, the target is not allowed, or the send failed.    *)
Answer(s, d) ==
  /\ stage[s][d] = "sending"
  /\ \E a \in {"accepted", "blocked", "refused"} : MoveTo(s, d, a)
  /\ UNCHANGED <<rowVars, endpointVars, toEnqueue, taken, age, crashes, revives>>

(* recordAttempt: the claim is released with the same call.                *)
Record(s, d, outcome, next) ==
  /\ row' = [row EXCEPT ![d] = outcome]
  /\ lease' = [lease EXCEPT ![d] = 0]
  /\ taken' = [taken EXCEPT ![s][d] = 0]
  /\ MoveTo(s, d, next)
  /\ UNCHANGED <<endpointVars, toEnqueue, age, crashes, revives>>

Closed(status, n) == [status |-> status, attempts |-> n, due |-> 0]

RecordDropped(s, d) ==
  /\ stage[s][d] = "dropping"
  /\ Record(s, d, Closed("failed", row[d].attempts), "idle")

RecordAccepted(s, d) ==
  /\ stage[s][d] = "accepted"
  /\ Record(s, d, Closed("delivered", taken[s][d] + 1), "resetting")

RecordBlocked(s, d) ==
  /\ stage[s][d] = "blocked"
  /\ Record(s, d, Closed("failed", taken[s][d] + 1), "idle")

(* Mutant: the offset is looked up one attempt late.                       *)
LastAttemptLate(n) == n > Len(Backoff) + 1

LastAttempt(n) == n > Len(Backoff)

(* The wait counts from the sweep's own reading of the clock.              *)
RecordRefused(s, d) ==
  LET n == taken[s][d] + 1 IN
  /\ stage[s][d] = "refused"
  /\ \/ /\ LastAttempt(n)
        /\ Record(s, d, Closed("exhausted", n), "bumping")
     \/ /\ ~LastAttempt(n)
        /\ \E after \in RetryAfters :
             LET offset == IF n \in DOMAIN Backoff THEN Backoff[n] ELSE 0 IN
             Record(s, d, [status |-> "pending", attempts |-> n,
                           due |-> Max({0, Max({offset, after}) - age[s]})], "bumping")

ResetFailures(s, d) ==
  /\ stage[s][d] = "resetting"
  /\ failures' = [failures EXCEPT ![EndpointOf(d)] = 0]
  /\ MoveTo(s, d, "idle")
  /\ UNCHANGED <<rowVars, enabled, toEnqueue, taken, age, crashes, revives>>

BumpFailures(s, d) ==
  LET n == Min({failures[EndpointOf(d)] + 1, Threshold}) IN  \* the counter saturates
  /\ stage[s][d] = "bumping"
  /\ failures' = [failures EXCEPT ![EndpointOf(d)] = n]
  /\ MoveTo(s, d, IF n >= Threshold THEN "disabling" ELSE "idle")
  /\ UNCHANGED <<rowVars, enabled, toEnqueue, taken, age, crashes, revives>>

AutoDisable(s, d) ==
  /\ stage[s][d] = "disabling"
  /\ enabled' = [enabled EXCEPT ![EndpointOf(d)] = FALSE]
  /\ MoveTo(s, d, "idle")
  /\ UNCHANGED <<rowVars, failures, toEnqueue, taken, age, crashes, revives>>

(* The sweep's process dies; rows, claims and counters are in the store.   *)
Crash(s) ==
  /\ crashes < MaxCrashes
  /\ Running(s)
  /\ crashes' = crashes + 1
  /\ stage' = [stage EXCEPT ![s] = [d \in Deliveries |-> "idle"]]
  /\ taken' = [taken EXCEPT ![s] = [d \in Deliveries |-> 0]]
  /\ age' = [age EXCEPT ![s] = 0]
  /\ UNCHANGED <<rowVars, endpointVars, toEnqueue, revives>>

(* The process dies in the middle of a dispatch.                           *)
CrashDispatch(e) ==
  /\ crashes < MaxCrashes
  /\ toEnqueue[e] # {}
  /\ crashes' = crashes + 1
  /\ toEnqueue' = [toEnqueue EXCEPT ![e] = {}]
  /\ UNCHANGED <<rowVars, endpointVars, sweepVars, revives>>

(* A store call of the attempt throws: allSettled drops the attempt alone. *)
AttemptThrows(s, d) ==
  /\ crashes < MaxCrashes
  /\ stage[s][d] \notin {"idle", "queued"}
  /\ crashes' = crashes + 1
  /\ taken' = [taken EXCEPT ![s][d] = 0]
  /\ MoveTo(s, d, "idle")
  /\ UNCHANGED <<rowVars, endpointVars, toEnqueue, age, revives>>

-----------------------------------------------------------------------------
(* The operator.                                                           *)

(* Mutant: revive takes any row that was not delivered.                    *)
RevivableAny(d) == row[d].status \in {"pending", "failed", "exhausted"}

Revivable(d) == row[d].status = "exhausted"

Revive(d) ==
  /\ revives < MaxRevives
  /\ Revivable(d)
  /\ revives' = revives + 1
  /\ row' = [row EXCEPT ![d].status = "pending", ![d].due = 0]
  /\ lease' = [lease EXCEPT ![d] = 0]
  /\ UNCHANGED <<endpointVars, toEnqueue, sweepVars, crashes>>

Enable(ep) ==
  /\ enabled' = [enabled EXCEPT ![ep] = TRUE]
  /\ failures' = [failures EXCEPT ![ep] = 0]
  /\ UNCHANGED <<rowVars, toEnqueue, sweepVars, crashes, revives>>

Disable(ep) ==
  /\ enabled' = [enabled EXCEPT ![ep] = FALSE]
  /\ UNCHANGED <<rowVars, failures, toEnqueue, sweepVars, crashes, revives>>

-----------------------------------------------------------------------------

AttemptStep(s, d) ==
  \/ LoadEndpoint(s, d) \/ Answer(s, d)
  \/ RecordDropped(s, d) \/ RecordAccepted(s, d) \/ RecordBlocked(s, d) \/ RecordRefused(s, d)
  \/ ResetFailures(s, d) \/ BumpFailures(s, d) \/ AutoDisable(s, d)

SweepStep(s) ==
  StartSweep(s) \/ StartChunk(s) \/ \E d \in Deliveries : AttemptStep(s, d)

Next ==
  \/ Tick
  \/ \E e \in Events : Dispatch(e) \/ CrashDispatch(e)
  \/ \E ep \in Endpoints, e \in Events : Enqueue(ep, e)
  \/ \E s \in Sweeps : SweepStep(s) \/ Crash(s)
  \/ \E s \in Sweeps, d \in Deliveries : AttemptThrows(s, d)
  \/ \E d \in Deliveries : Revive(d)
  \/ \E ep \in Endpoints : Enable(ep) \/ Disable(ep)

Spec == Init /\ [][Next]_vars

(* Time passes, the timer keeps starting sweeps, and every send is         *)
(* answered or times out.  Nothing is asked of the operator.               *)
Fairness ==
  /\ WF_vars(Tick)
  /\ \A s \in Sweeps :
       /\ WF_vars(StartSweep(s) \/ StartChunk(s))
       /\ \A d \in Deliveries : WF_vars(AttemptStep(s, d))

FairSpec == Spec /\ Fairness

-----------------------------------------------------------------------------
(* Properties.                                                             *)

(* Every variable stays in its range; an attempt in flight is of a pending *)
(* row under a live claim (dispatch.ts, attempt).                          *)
TypeOK ==
  /\ \A d \in Deliveries :
       /\ row[d].status \in Statuses
       /\ row[d].attempts \in 0..(MaxAttempts + MaxRevives)
       /\ row[d].due \in Nat
       /\ lease[d] \in 0..Lease
  /\ enabled \in [Endpoints -> BOOLEAN]
  /\ failures \in [Endpoints -> 0..Threshold]
  /\ toEnqueue \in [Events -> SUBSET Endpoints]
  /\ stage \in [Sweeps -> [Deliveries -> Stages]]
  /\ taken \in [Sweeps -> [Deliveries -> 0..(MaxAttempts + MaxRevives)]]
  /\ age \in [Sweeps -> 0..Lease]

(* Two sweeps never have one delivery in hand at once: "the multi-instance *)
(* double-deliver guard" of claimDue (types.ts).                           *)
OneSender ==
  \A d \in Deliveries : Cardinality({s \in Sweeps : InFlight(s, d)}) <= 1

(* A row's attempts count up one by one: no sweep writes back an old count *)
(* and no duplicate of the event starts the budget over (attemptCount).    *)
AttemptsCountUp ==
  [][\A d \in Deliveries : row'[d].attempts - row[d].attempts \in {0, 1}]_vars

(* The retry budget: a row rests as exhausted after all of its attempts    *)
(* and not before, and only a revival sends it past them.                  *)
BudgetKept ==
  \A d \in Deliveries :
    /\ row[d].status = "exhausted" => row[d].attempts >= MaxAttempts
    /\ row[d].status = "pending" => row[d].attempts < MaxAttempts + revives

(* Every delivery comes to rest: delivered, given up as failed, or parked  *)
(* as exhausted, whatever sweeps die on the way.                           *)
EveryDeliveryRests ==
  \A d \in Deliveries : row[d].status = "pending" ~> row[d].status \in {"delivered", "failed", "exhausted"}

=============================================================================
