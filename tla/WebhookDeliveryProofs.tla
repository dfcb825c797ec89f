----------------------- MODULE WebhookDeliveryProofs -----------------------
(***************************************************************************)
(* For any endpoints, events and number of overlapping sweeps, any lease,  *)
(* backoff, threshold and bounds: a delivery is in one hand at a time,     *)
(* attempts count up one by one and the retry budget is kept.              *)
(***************************************************************************)
EXTENDS WebhookDelivery, FiniteSetTheorems, TLAPS

Typed ==
  /\ row \in [Deliveries -> [status : Statuses, attempts : Nat, due : Nat]]
  /\ lease \in [Deliveries -> 0..Lease]
  /\ enabled \in [Endpoints -> BOOLEAN]
  /\ failures \in [Endpoints -> 0..Threshold]
  /\ toEnqueue \in [Events -> SUBSET Endpoints]
  /\ stage \in [Sweeps -> [Deliveries -> Stages]]
  /\ taken \in [Sweeps -> [Deliveries -> Nat]]
  /\ age \in [Sweeps -> Nat]
  /\ revives \in 0..MaxRevives

(* An attempt in flight is of a pending row under a live claim, which the  *)
(* sweep has aged since it took it, and has the row's own count in hand.   *)
ClaimHeld ==
  \A s \in Sweeps, d \in Deliveries : InFlight(s, d) =>
    /\ row[d].status = "pending"
    /\ taken[s][d] = row[d].attempts
    /\ lease[d] > 0
    /\ age[s] + lease[d] = Lease

(* Whoever has the delivery in hand is alone with it.                      *)
ClaimAlone ==
  \A s, t \in Sweeps, d \in Deliveries : InFlight(s, d) /\ InFlight(t, d) => s = t

(* A row that is not written yet has no attempts, and none has more than   *)
(* the budget and the revivals allow.                                      *)
CountsBounded ==
  /\ \A d \in Deliveries :
       /\ row[d].status = "none" => row[d].attempts = 0
       /\ row[d].attempts <= MaxAttempts + revives
  /\ \A s \in Sweeps : age[s] <= Lease
  /\ \A s \in Sweeps, d \in Deliveries : taken[s][d] <= MaxAttempts + revives

IInv == Typed /\ ClaimHeld /\ ClaimAlone /\ CountsBounded /\ BudgetKept

-----------------------------------------------------------------------------

LEMMA MaxOfTwo ==
  ASSUME NEW a \in Int, NEW b \in Int
  PROVE  Max({a, b}) \in {a, b} /\ Max({a, b}) >= a /\ Max({a, b}) >= b
  <1> DEFINE pair == {a, b}
  <1>1. \E x \in pair : \A y \in pair : x >= y
    OBVIOUS
  <1> HIDE DEF pair
  <1>2. Max(pair) \in pair /\ \A y \in pair : Max(pair) >= y
    BY <1>1, Zenon DEF Max
  <1> QED
    BY <1>2 DEF pair

LEMMA MinOfTwo ==
  ASSUME NEW a \in Int, NEW b \in Int
  PROVE  Min({a, b}) \in {a, b} /\ Min({a, b}) <= a /\ Min({a, b}) <= b
  <1> DEFINE pair == {a, b}
  <1>1. \E x \in pair : \A y \in pair : x =< y
    OBVIOUS
  <1> HIDE DEF pair
  <1>2. Min(pair) \in pair /\ \A y \in pair : Min(pair) =< y
    BY <1>1, Zenon DEF Min
  <1> QED
    BY <1>2 DEF pair

(* A wait never falls below zero.                                          *)
LEMMA WaitIsNat == ASSUME NEW n \in Int PROVE Max({0, n}) \in Nat
  <1>1. Max({0, n}) \in {0, n} /\ Max({0, n}) >= 0
    BY MaxOfTwo, 0 \in Int
  <1> QED
    BY <1>1

LEMMA CountsDown ==
  ASSUME NEW n \in Nat
  PROVE  /\ Max({0, n - 1}) \in 0..n
         /\ n > 0 => Max({0, n - 1}) = n - 1
  <1>1. /\ Max({0, n - 1}) \in {0, n - 1}
        /\ Max({0, n - 1}) >= 0 /\ Max({0, n - 1}) >= n - 1
    BY MaxOfTwo, 0 \in Int, n - 1 \in Int
  <1> QED
    BY <1>1

LEMMA BudgetIsNat == MaxAttempts \in Nat /\ Len(Backoff) \in Nat /\ MaxAttempts = Len(Backoff) + 1
  BY DeliveryAssumption DEF MaxAttempts

LEMMA InitIInv == Init => IInv
  <1> SUFFICES ASSUME Init PROVE IInv
    OBVIOUS
  <1> USE DEF Init
  <1>1. Typed
    BY DeliveryAssumption DEF Typed, Statuses, Stages
  <1>2. ClaimHeld /\ ClaimAlone
    BY DEF ClaimHeld, ClaimAlone, InFlight, Open
  <1>3. CountsBounded /\ BudgetKept
    BY BudgetIsNat, DeliveryAssumption DEF CountsBounded, BudgetKept
  <1> QED
    BY <1>1, <1>2, <1>3 DEF IInv

-----------------------------------------------------------------------------
(* Steps that write no row, claim, count or age, and take nothing in hand. *)

Quiet ==
  /\ UNCHANGED <<row, lease, taken, age, revives>>
  /\ \A s \in Sweeps, d \in Deliveries : InFlight(s, d)' => InFlight(s, d)

(* What any step needs to show of the variables that no claim reads.       *)
RestTyped ==
  /\ enabled \in [Endpoints -> BOOLEAN]
  /\ failures \in [Endpoints -> 0..Threshold]
  /\ toEnqueue \in [Events -> SUBSET Endpoints]
  /\ stage \in [Sweeps -> [Deliveries -> Stages]]

LEMMA QuietKeeps ==
  ASSUME IInv, Quiet, RestTyped'
  PROVE  IInv'
  <1>1. Typed'
    BY DEF IInv, Quiet, RestTyped, Typed
  <1>2. ClaimHeld'
    BY DEF IInv, Quiet, ClaimHeld
  <1>3. ClaimAlone'
    BY DEF IInv, Quiet, ClaimAlone
  <1>4. CountsBounded' /\ BudgetKept'
    BY DEF IInv, Quiet, CountsBounded, BudgetKept
  <1> QED
    BY <1>1, <1>2, <1>3, <1>4 DEF IInv

(* The move of one attempt from one stage to another.                      *)
LEMMA MoveTyped ==
  ASSUME Typed, NEW s \in Sweeps, NEW d \in Deliveries, NEW st \in Stages, MoveTo(s, d, st)
  PROVE  /\ stage' \in [Sweeps -> [Deliveries -> Stages]]
         /\ stage'[s][d] = st
         /\ \A t \in Sweeps, c \in Deliveries : (t # s \/ c # d) => stage'[t][c] = stage[t][c]
  BY DEF Typed, MoveTo

(* A quiet step that moves one attempt.                                    *)
LEMMA QuietMove ==
  ASSUME IInv, NEW s \in Sweeps, NEW d \in Deliveries, NEW st \in Stages, MoveTo(s, d, st),
         st \in Open => InFlight(s, d),
         UNCHANGED <<row, lease, toEnqueue, taken, age, revives>>,
         enabled' \in [Endpoints -> BOOLEAN], failures' \in [Endpoints -> 0..Threshold]
  PROVE  IInv'
  <1>1. /\ stage' \in [Sweeps -> [Deliveries -> Stages]]
        /\ stage'[s][d] = st
        /\ \A t \in Sweeps, c \in Deliveries : (t # s \/ c # d) => stage'[t][c] = stage[t][c]
    BY MoveTyped DEF IInv
  <1>2. RestTyped'
    BY <1>1 DEF IInv, Typed, RestTyped
  <1>3. Quiet
    BY <1>1 DEF Quiet, InFlight
  <1> QED
    BY <1>2, <1>3, QuietKeeps

-----------------------------------------------------------------------------
(* Time, dispatches and the operator.                                      *)

LEMMA TickKeeps == ASSUME IInv, Tick PROVE IInv'
  <1> USE DEF IInv
  <1>1. \A d \in Deliveries :
          /\ row'[d].status = row[d].status /\ row'[d].attempts = row[d].attempts
          /\ row'[d] \in [status : Statuses, attempts : Nat, due : Nat]
    <2> SUFFICES ASSUME NEW d \in Deliveries
                 PROVE  /\ row'[d].status = row[d].status /\ row'[d].attempts = row[d].attempts
                        /\ row'[d] \in [status : Statuses, attempts : Nat, due : Nat]
      OBVIOUS
    <2> DEFINE wait == Max({0, row[d].due - 1})
    <2>1. row[d] \in [status : Statuses, attempts : Nat, due : Nat]
      BY DEF Typed
    <2>2. wait \in Nat
      BY <2>1, WaitIsNat, row[d].due - 1 \in Int
    <2>3. row'[d] = [row[d] EXCEPT !.due = wait]
      BY DEF Tick
    <2> HIDE DEF wait
    <2> QED
      BY <2>1, <2>2, <2>3
  <1>2. row' \in [Deliveries -> [status : Statuses, attempts : Nat, due : Nat]]
    <2>1. row' = [d \in Deliveries |-> row'[d]]
      BY DEF Tick
    <2> QED
      BY <1>1, <2>1
  <1>3. \A d \in Deliveries :
          lease'[d] \in 0..lease[d] /\ (lease[d] > 0 => lease'[d] = lease[d] - 1)
    <2> SUFFICES ASSUME NEW d \in Deliveries
                 PROVE  lease'[d] \in 0..lease[d] /\ (lease[d] > 0 => lease'[d] = lease[d] - 1)
      OBVIOUS
    <2>1. lease[d] \in Nat /\ lease'[d] = Max({0, lease[d] - 1})
      BY DeliveryAssumption DEF Typed, Tick
    <2> QED
      BY <2>1, CountsDown
  <1>4. lease' \in [Deliveries -> 0..Lease]
    <2>1. lease' = [d \in Deliveries |-> lease'[d]]
      BY DEF Tick
    <2>2. \A d \in Deliveries : lease'[d] \in 0..Lease
      BY <1>3, DeliveryAssumption DEF Typed
    <2> QED
      BY <2>1, <2>2
  <1>5. \A s \in Sweeps : age'[s] \in Nat /\ age'[s] <= Lease
    <2> SUFFICES ASSUME NEW s \in Sweeps PROVE age'[s] \in Nat /\ age'[s] <= Lease
      OBVIOUS
    <2>1. CASE \E d \in Deliveries : InFlight(s, d)
      <3>1. PICK d \in Deliveries : InFlight(s, d)
        BY <2>1
      <3>2. age[s] + lease[d] = Lease /\ lease[d] > 1 /\ lease[d] \in Nat /\ age[s] \in Nat
        BY <3>1, DeliveryAssumption DEF Tick, ClaimHeld, Typed
      <3> QED
        BY <2>1, <3>2, DeliveryAssumption DEF Tick
    <2>2. CASE ~ \E d \in Deliveries : InFlight(s, d)
      BY <2>2, DeliveryAssumption DEF Tick
    <2> QED
      BY <2>1, <2>2
  <1>6. Typed'
    <2>1. age' \in [Sweeps -> Nat]
      <3>1. age' = [s \in Sweeps |-> age'[s]]
        BY DEF Tick
      <3> QED
        BY <1>5, <3>1
    <2> QED
      BY <1>2, <1>4, <2>1 DEF Typed, Tick, endpointVars
  <1>7. ClaimHeld'
    <2> SUFFICES ASSUME NEW s \in Sweeps, NEW d \in Deliveries, InFlight(s, d)
                 PROVE  /\ row'[d].status = "pending"
                        /\ taken'[s][d] = row'[d].attempts
                        /\ lease'[d] > 0
                        /\ age'[s] + lease'[d] = Lease
      BY DEF ClaimHeld, InFlight, Tick
    <2>1. /\ row[d].status = "pending" /\ taken[s][d] = row[d].attempts
          /\ lease[d] > 1 /\ age[s] + lease[d] = Lease
      BY DEF ClaimHeld, Tick
    <2>2. age'[s] = age[s] + 1 /\ taken' = taken
      <3>1. \E c \in Deliveries : InFlight(s, c)
        OBVIOUS
      <3> QED
        BY <3>1 DEF Tick
    <2>3. lease[d] \in Nat /\ age[s] \in Nat
      BY DeliveryAssumption DEF Typed
    <2> QED
      BY <1>1, <1>3, <2>1, <2>2, <2>3, DeliveryAssumption
  <1>8. ClaimAlone'
    BY DEF ClaimAlone, InFlight, Tick
  <1>9. CountsBounded' /\ BudgetKept'
    BY <1>1, <1>5 DEF CountsBounded, BudgetKept, Tick
  <1> QED
    BY <1>6, <1>7, <1>8, <1>9

LEMMA DispatchKeeps ==
  ASSUME IInv, NEW e \in Events, Dispatch(e) \/ CrashDispatch(e)
  PROVE  IInv'
  <1>1. RestTyped'
    BY DEF IInv, Typed, RestTyped, Dispatch, CrashDispatch, rowVars, endpointVars, sweepVars
  <1>2. Quiet
    BY DEF Quiet, InFlight, Dispatch, CrashDispatch, rowVars, sweepVars
  <1> QED
    BY <1>1, <1>2, QuietKeeps

LEMMA OperatorKeeps ==
  ASSUME IInv, NEW ep \in Endpoints, Enable(ep) \/ Disable(ep)
  PROVE  IInv'
  <1>1. CASE Enable(ep)
    <2>1. RestTyped'
      BY <1>1, DeliveryAssumption DEF IInv, Typed, RestTyped, Enable, sweepVars
    <2>2. Quiet
      BY <1>1 DEF Quiet, InFlight, Enable, rowVars, sweepVars
    <2> QED
      BY <2>1, <2>2, QuietKeeps
  <1>2. CASE Disable(ep)
    <2>1. RestTyped'
      BY <1>2 DEF IInv, Typed, RestTyped, Disable, sweepVars
    <2>2. Quiet
      BY <1>2 DEF Quiet, InFlight, Disable, rowVars, sweepVars
    <2> QED
      BY <2>1, <2>2, QuietKeeps
  <1> QED
    BY <1>1, <1>2

-----------------------------------------------------------------------------
(* Rows come and go: enqueue, claim, revive.                               *)

LEMMA EnqueueKeeps ==
  ASSUME IInv, NEW ep \in Endpoints, NEW e \in Events, Enqueue(ep, e)
  PROVE  IInv'
  <1> USE DEF IInv
  <1> DEFINE d == <<ep, e>>
  <1>1. d \in Deliveries
    BY DEF Deliveries
  <1>2. Fresh \in [status : Statuses, attempts : Nat, due : Nat]
    BY DEF Fresh, Statuses
  <1>3. /\ row' \in [Deliveries -> [status : Statuses, attempts : Nat, due : Nat]]
        /\ \A c \in Deliveries :
             row'[c] = row[c] \/ (row[c].status = "none" /\ row'[c] = Fresh)
    BY <1>1, <1>2 DEF Typed, Enqueue
  <1>4. /\ UNCHANGED <<lease, enabled, failures, stage, taken, age, revives>>
        /\ toEnqueue' \in [Events -> SUBSET Endpoints]
    BY DEF Typed, Enqueue, endpointVars, sweepVars
  <1>5. Typed'
    BY <1>3, <1>4 DEF Typed
  <1>6. ClaimHeld' /\ ClaimAlone'
    BY <1>3, <1>4 DEF ClaimHeld, ClaimAlone, InFlight
  <1>7. CountsBounded' /\ BudgetKept'
    BY <1>3, <1>4, BudgetIsNat DEF CountsBounded, BudgetKept, Fresh, Typed
  <1> QED
    BY <1>5, <1>6, <1>7

LEMMA StartSweepKeeps ==
  ASSUME IInv, NEW s \in Sweeps, StartSweep(s)
  PROVE  IInv'
  <1> USE DEF IInv
  <1>1. /\ UNCHANGED <<row, enabled, failures, toEnqueue, revives>>
        /\ \A t \in Sweeps : t # s => stage'[t] = stage[t] /\ taken'[t] = taken[t] /\ age'[t] = age[t]
        /\ stage'[s] = [d \in Deliveries |-> IF Due(d) THEN "queued" ELSE "idle"]
        /\ taken'[s] = [d \in Deliveries |-> IF Due(d) THEN row[d].attempts ELSE 0]
        /\ age'[s] = 0
        /\ lease' = [d \in Deliveries |-> IF Due(d) THEN Lease ELSE lease[d]]
    BY DEF Typed, StartSweep, endpointVars
  <1>2. Typed'
    <2>1. lease' \in [Deliveries -> 0..Lease]
      BY <1>1, DeliveryAssumption DEF Typed
    <2>2. [d \in Deliveries |-> IF Due(d) THEN "queued" ELSE "idle"] \in [Deliveries -> Stages]
      BY DEF Stages, Open
    <2>3. [d \in Deliveries |-> IF Due(d) THEN row[d].attempts ELSE 0] \in [Deliveries -> Nat]
      BY DEF Typed
    <2>4. stage' \in [Sweeps -> [Deliveries -> Stages]]
      BY <2>2 DEF Typed, StartSweep
    <2>5. taken' \in [Sweeps -> [Deliveries -> Nat]]
      BY <2>3 DEF Typed, StartSweep
    <2>6. age' \in [Sweeps -> Nat]
      BY DEF Typed, StartSweep
    <2> QED
      BY <1>1, <2>1, <2>4, <2>5, <2>6 DEF Typed
  <1>3. \A d \in Deliveries : InFlight(s, d)' => Due(d)
    BY <1>1 DEF InFlight, Open
  <1>4. \A t \in Sweeps, d \in Deliveries : t # s => (InFlight(t, d)' <=> InFlight(t, d))
    BY <1>1 DEF InFlight
  <1>5. \A t \in Sweeps, d \in Deliveries : InFlight(t, d) => ~Due(d)
    BY DeliveryAssumption DEF ClaimHeld, Due, Typed
  <1>6. ClaimHeld'
    <2> SUFFICES ASSUME NEW t \in Sweeps, NEW d \in Deliveries, InFlight(t, d)'
                 PROVE  /\ row'[d].status = "pending"
                        /\ taken'[t][d] = row'[d].attempts
                        /\ lease'[d] > 0
                        /\ age'[t] + lease'[d] = Lease
      BY DEF ClaimHeld
    <2>1. CASE t = s
      BY <1>1, <1>3, <2>1, DeliveryAssumption DEF Due
    <2>2. CASE t # s
      BY <1>1, <1>4, <1>5, <2>2 DEF ClaimHeld
    <2> QED
      BY <2>1, <2>2
  <1>7. ClaimAlone'
    BY <1>3, <1>4, <1>5 DEF ClaimAlone
  <1>8. CountsBounded'
    <2>1. \A t \in Sweeps : age'[t] <= Lease
      BY <1>1, DeliveryAssumption DEF CountsBounded
    <2>2. \A t \in Sweeps, d \in Deliveries : taken'[t][d] <= MaxAttempts + revives
      <3> SUFFICES ASSUME NEW t \in Sweeps, NEW d \in Deliveries
                   PROVE  taken'[t][d] <= MaxAttempts + revives
        OBVIOUS
      <3>1. CASE t = s
        BY <1>1, <3>1, BudgetIsNat DEF CountsBounded, Typed
      <3>2. CASE t # s
        BY <1>1, <3>2 DEF CountsBounded
      <3> QED
        BY <3>1, <3>2
    <2> QED
      BY <1>1, <2>1, <2>2 DEF CountsBounded
  <1>9. BudgetKept'
    BY <1>1 DEF BudgetKept
  <1> QED
    BY <1>2, <1>6, <1>7, <1>8, <1>9

LEMMA StartChunkKeeps ==
  ASSUME IInv, NEW s \in Sweeps, StartChunk(s)
  PROVE  IInv'
  <1> DEFINE queue == {d \in Deliveries : stage[s][d] = "queued"}
  <1>1. PICK chunk \in kSubset(Min({Concurrency, Cardinality(queue)}), queue) :
          stage' = [stage EXCEPT ![s] = [d \in Deliveries |->
                      IF d \in chunk THEN "starting" ELSE @[d]]]
    BY DEF StartChunk
  <1>2. chunk \subseteq queue
    BY <1>1 DEF kSubset
  <1>3. stage' \in [Sweeps -> [Deliveries -> Stages]]
    BY <1>1 DEF IInv, Typed, Stages, Open
  <1>4. \A t \in Sweeps, d \in Deliveries : InFlight(t, d)' => InFlight(t, d)
    BY <1>1, <1>2 DEF IInv, Typed, InFlight, Open
  <1>5. Quiet
    BY <1>4 DEF Quiet, StartChunk, rowVars
  <1>6. RestTyped'
    BY <1>3 DEF IInv, Typed, RestTyped, StartChunk, endpointVars
  <1> QED
    BY <1>5, <1>6, QuietKeeps

(* The row of a revived delivery.                                          *)
LEMMA RevivedRow ==
  ASSUME NEW r \in [status : Statuses, attempts : Nat, due : Nat],
         NEW q, q = [r EXCEPT !.status = "pending", !.due = 0]
  PROVE  /\ q \in [status : Statuses, attempts : Nat, due : Nat]
         /\ q.status = "pending" /\ q.attempts = r.attempts
  <1>1. "pending" \in Statuses
    BY DEF Statuses
  <1> QED
    BY <1>1

LEMMA ReviveKeeps ==
  ASSUME IInv, NEW d \in Deliveries, Revive(d)
  PROVE  IInv'
  <1> USE DEF IInv
  <1>1. row[d].status = "exhausted" /\ row[d] \in [status : Statuses, attempts : Nat, due : Nat]
    BY DEF Revive, Revivable, Typed
  <1>2. /\ row'[d] = [row[d] EXCEPT !.status = "pending", !.due = 0]
        /\ \A c \in Deliveries : c # d => row'[c] = row[c] /\ lease'[c] = lease[c]
        /\ lease' \in [Deliveries -> 0..Lease]
    BY DeliveryAssumption DEF Revive, Typed
  <1>3. /\ row'[d].status = "pending" /\ row'[d].attempts = row[d].attempts
        /\ row'[d] \in [status : Statuses, attempts : Nat, due : Nat]
    BY <1>1, <1>2, RevivedRow
  <1>4. row' \in [Deliveries -> [status : Statuses, attempts : Nat, due : Nat]]
    BY <1>2, <1>3 DEF Revive, Typed
  <1>5. /\ UNCHANGED <<enabled, failures, toEnqueue, stage, taken, age>>
        /\ revives' = revives + 1 /\ revives' \in 0..MaxRevives /\ revives \in Nat
    BY DeliveryAssumption DEF Revive, Typed, endpointVars, sweepVars
  <1>6. Typed'
    BY <1>2, <1>4, <1>5 DEF Typed
  <1>7. \A s \in Sweeps : ~InFlight(s, d)
    BY <1>1 DEF ClaimHeld
  <1>8. ClaimHeld' /\ ClaimAlone'
    BY <1>2, <1>5, <1>7 DEF ClaimHeld, ClaimAlone, InFlight
  <1>9. /\ \A c \in Deliveries : row[c].attempts \in Nat
        /\ \A t \in Sweeps, c \in Deliveries : taken[t][c] \in Nat
    BY DEF Typed
  <1>10. CountsBounded'
    <2>1. \A c \in Deliveries :
            /\ row'[c].status = "none" => row'[c].attempts = 0
            /\ row'[c].attempts <= MaxAttempts + revives'
      <3> SUFFICES ASSUME NEW c \in Deliveries
                   PROVE  /\ row'[c].status = "none" => row'[c].attempts = 0
                          /\ row'[c].attempts <= MaxAttempts + revives'
        OBVIOUS
      <3>1. row[c].attempts <= MaxAttempts + revives'
        BY <1>5, <1>9, BudgetIsNat DEF CountsBounded
      <3> QED
        BY <1>2, <1>3, <3>1 DEF CountsBounded
    <2>2. \A t \in Sweeps, c \in Deliveries : taken'[t][c] <= MaxAttempts + revives'
      BY <1>5, <1>9, BudgetIsNat DEF CountsBounded
    <2> QED
      BY <1>5, <2>1, <2>2 DEF CountsBounded
  <1>11. BudgetKept'
    <2>1. row[d].attempts < MaxAttempts + revives'
      BY <1>5, <1>9, BudgetIsNat DEF CountsBounded
    <2>2. \A c \in Deliveries : c # d /\ row'[c].status = "pending" =>
            row'[c].attempts < MaxAttempts + revives'
      BY <1>2, <1>5, <1>9, BudgetIsNat DEF BudgetKept
    <2>3. \A c \in Deliveries : row'[c].status = "exhausted" => row'[c].attempts >= MaxAttempts
      BY <1>2, <1>3 DEF BudgetKept
    <2> QED
      BY <1>3, <2>1, <2>2, <2>3 DEF BudgetKept
  <1> QED
    BY <1>6, <1>8, <1>10, <1>11

-----------------------------------------------------------------------------
(* An attempt.                                                             *)

(* An attempt in flight is folded into its row: the outcome counts one     *)
(* attempt or none, and rests or waits within the budget.                  *)
LEMMA RecordKeeps ==
  ASSUME IInv, NEW s \in Sweeps, NEW d \in Deliveries, InFlight(s, d),
         NEW outcome \in [status : Statuses, attempts : Nat, due : Nat],
         outcome.status # "none",
         outcome.attempts <= row[d].attempts + 1,
         outcome.status = "exhausted" => outcome.attempts >= MaxAttempts,
         outcome.status = "pending" => outcome.attempts < MaxAttempts,
         NEW next \in Stages \ Open, Record(s, d, outcome, next)
  PROVE  IInv'
  <1> USE DEF IInv
  <1>1. /\ stage' \in [Sweeps -> [Deliveries -> Stages]]
        /\ stage'[s][d] = next
        /\ \A t \in Sweeps, c \in Deliveries : (t # s \/ c # d) => stage'[t][c] = stage[t][c]
    BY MoveTyped DEF Record
  <1>2. /\ row' \in [Deliveries -> [status : Statuses, attempts : Nat, due : Nat]]
        /\ row'[d] = outcome
        /\ lease' \in [Deliveries -> 0..Lease]
        /\ \A c \in Deliveries : c # d => row'[c] = row[c] /\ lease'[c] = lease[c]
    BY DeliveryAssumption DEF Record, Typed
  <1>3. /\ taken' \in [Sweeps -> [Deliveries -> Nat]]
        /\ taken'[s][d] = 0
        /\ \A t \in Sweeps, c \in Deliveries : (t # s \/ c # d) => taken'[t][c] = taken[t][c]
    BY DEF Record, Typed
  <1>4. UNCHANGED <<enabled, failures, toEnqueue, age, revives>>
    BY DEF Record, endpointVars
  <1>5. Typed'
    BY <1>1, <1>2, <1>3, <1>4 DEF Typed
  <1>6. \A t \in Sweeps, c \in Deliveries : InFlight(t, c)' => c # d /\ InFlight(t, c)
    <2> SUFFICES ASSUME NEW t \in Sweeps, NEW c \in Deliveries, InFlight(t, c)'
                 PROVE  c # d /\ InFlight(t, c)
      OBVIOUS
    <2>1. InFlight(t, c) /\ (t # s \/ c # d)
      BY <1>1 DEF InFlight
    <2> QED
      BY <2>1 DEF ClaimAlone
  <1>7. ClaimHeld'
    BY <1>2, <1>3, <1>4, <1>6 DEF ClaimHeld
  <1>8. ClaimAlone'
    BY <1>6 DEF ClaimAlone
  <1>9. row[d].status = "pending" /\ row[d].attempts < MaxAttempts + revives
    BY DEF ClaimHeld, BudgetKept
  <1>10. outcome.attempts <= MaxAttempts + revives
    BY <1>9, BudgetIsNat, DeliveryAssumption DEF Typed
  <1>11. CountsBounded'
    <2>1. \A c \in Deliveries :
            /\ row'[c].status = "none" => row'[c].attempts = 0
            /\ row'[c].attempts <= MaxAttempts + revives'
      BY <1>2, <1>4, <1>10 DEF CountsBounded
    <2>2. \A t \in Sweeps, c \in Deliveries : taken'[t][c] <= MaxAttempts + revives'
      <3>1. 0 <= MaxAttempts + revives
        BY BudgetIsNat, DeliveryAssumption DEF Typed
      <3> QED
        BY <1>3, <1>4, <3>1 DEF CountsBounded
    <2> QED
      BY <1>4, <2>1, <2>2 DEF CountsBounded
  <1>12. BudgetKept'
    <2>1. revives \in Nat
      BY DEF Typed
    <2> QED
      BY <1>2, <1>4, <2>1, BudgetIsNat DEF BudgetKept
  <1> QED
    BY <1>5, <1>7, <1>8, <1>11, <1>12

(* What every outcome of an attempt is made of.                            *)
LEMMA ClosedOutcome ==
  ASSUME NEW st \in Statuses, NEW n \in Nat
  PROVE  /\ Closed(st, n) \in [status : Statuses, attempts : Nat, due : Nat]
         /\ Closed(st, n).status = st /\ Closed(st, n).attempts = n
  BY DEF Closed

LEMMA RecordsKeep ==
  ASSUME IInv, NEW s \in Sweeps, NEW d \in Deliveries,
         RecordDropped(s, d) \/ RecordAccepted(s, d) \/ RecordBlocked(s, d) \/ RecordRefused(s, d)
  PROVE  IInv'
  <1>1. InFlight(s, d)
    BY DEF InFlight, Open, RecordDropped, RecordAccepted, RecordBlocked, RecordRefused
  <1>2. /\ taken[s][d] = row[d].attempts /\ row[d].attempts \in Nat
        /\ taken[s][d] + 1 \in Nat /\ age[s] \in Nat
    BY <1>1 DEF IInv, ClaimHeld, Typed
  <1>3. "failed" \in Statuses /\ "delivered" \in Statuses /\ "exhausted" \in Statuses
        /\ "pending" \in Statuses
    BY DEF Statuses
  <1>4. "idle" \in Stages \ Open /\ "resetting" \in Stages \ Open /\ "bumping" \in Stages \ Open
    BY DEF Stages, Open
  <1>5. CASE RecordDropped(s, d)
    <2> DEFINE outcome == Closed("failed", row[d].attempts)
    <2>1. /\ outcome \in [status : Statuses, attempts : Nat, due : Nat]
          /\ outcome.status = "failed" /\ outcome.attempts = row[d].attempts
      BY <1>2, <1>3, ClosedOutcome
    <2>2. Record(s, d, outcome, "idle")
      BY <1>5 DEF RecordDropped
    <2> HIDE DEF outcome
    <2> QED
      BY <1>1, <1>2, <1>4, <2>1, <2>2, RecordKeeps
  <1>6. CASE RecordAccepted(s, d)
    <2> DEFINE outcome == Closed("delivered", taken[s][d] + 1)
    <2>1. /\ outcome \in [status : Statuses, attempts : Nat, due : Nat]
          /\ outcome.status = "delivered" /\ outcome.attempts = row[d].attempts + 1
      BY <1>2, <1>3, ClosedOutcome
    <2>2. Record(s, d, outcome, "resetting")
      BY <1>6 DEF RecordAccepted
    <2> HIDE DEF outcome
    <2> QED
      BY <1>1, <1>2, <1>4, <2>1, <2>2, RecordKeeps
  <1>7. CASE RecordBlocked(s, d)
    <2> DEFINE outcome == Closed("failed", taken[s][d] + 1)
    <2>1. /\ outcome \in [status : Statuses, attempts : Nat, due : Nat]
          /\ outcome.status = "failed" /\ outcome.attempts = row[d].attempts + 1
      BY <1>2, <1>3, ClosedOutcome
    <2>2. Record(s, d, outcome, "idle")
      BY <1>7 DEF RecordBlocked
    <2> HIDE DEF outcome
    <2> QED
      BY <1>1, <1>2, <1>4, <2>1, <2>2, RecordKeeps
  <1>8. CASE RecordRefused(s, d) /\ LastAttempt(taken[s][d] + 1)
    <2> DEFINE outcome == Closed("exhausted", taken[s][d] + 1)
    <2>1. /\ outcome \in [status : Statuses, attempts : Nat, due : Nat]
          /\ outcome.status = "exhausted" /\ outcome.attempts = row[d].attempts + 1
      BY <1>2, <1>3, ClosedOutcome
    <2>2. Record(s, d, outcome, "bumping")
      BY <1>8 DEF RecordRefused
    <2>3. outcome.attempts >= MaxAttempts
      BY <1>2, <1>8, <2>1, BudgetIsNat DEF LastAttempt
    <2> HIDE DEF outcome
    <2> QED
      BY <1>1, <1>2, <1>4, <2>1, <2>2, <2>3, RecordKeeps
  <1>9. CASE RecordRefused(s, d) /\ ~LastAttempt(taken[s][d] + 1)
    <2> DEFINE n == taken[s][d] + 1
               offset == IF n \in DOMAIN Backoff THEN Backoff[n] ELSE 0
    <2>1. PICK after \in RetryAfters :
            Record(s, d, [status |-> "pending", attempts |-> n,
                          due |-> Max({0, Max({offset, after}) - age[s]})], "bumping")
      BY <1>9 DEF RecordRefused
    <2>2. offset \in Nat /\ after \in Nat
      BY DeliveryAssumption
    <2> HIDE DEF offset
    <2>3. Max({offset, after}) \in Nat
      <3>1. Max({offset, after}) \in {offset, after}
        BY <2>2, MaxOfTwo, offset \in Int, after \in Int
      <3> QED
        BY <2>2, <3>1
    <2>4. Max({0, Max({offset, after}) - age[s]}) \in Nat
      BY <1>2, <2>3, WaitIsNat, Max({offset, after}) - age[s] \in Int
    <2> DEFINE outcome == [status |-> "pending", attempts |-> n,
                           due |-> Max({0, Max({offset, after}) - age[s]})]
    <2>5. /\ outcome \in [status : Statuses, attempts : Nat, due : Nat]
          /\ outcome.status = "pending" /\ outcome.attempts = row[d].attempts + 1
      BY <1>2, <1>3, <2>4
    <2>6. outcome.attempts < MaxAttempts
      BY <1>2, <1>9, <2>5, BudgetIsNat DEF LastAttempt
    <2>7. Record(s, d, outcome, "bumping")
      BY <2>1
    <2> HIDE DEF outcome
    <2> QED
      BY <1>1, <1>2, <1>4, <2>5, <2>6, <2>7, RecordKeeps
  <1> QED
    BY <1>5, <1>6, <1>7, <1>8, <1>9

(* The steps of an attempt that fold nothing into the row.                 *)
LEMMA AttemptKeeps ==
  ASSUME IInv, NEW s \in Sweeps, NEW d \in Deliveries, AttemptStep(s, d)
  PROVE  IInv'
  <1>0. /\ Open \subseteq Stages
        /\ {"starting", "dropping", "sending", "accepted", "blocked", "refused"} \subseteq Open
        /\ "idle" \in Stages \ Open /\ "disabling" \in Stages \ Open
        /\ enabled \in [Endpoints -> BOOLEAN] /\ failures \in [Endpoints -> 0..Threshold]
    BY DEF Stages, Open, IInv, Typed
  <1>1. CASE LoadEndpoint(s, d)
    <2>1. InFlight(s, d)
      BY <1>1, <1>0 DEF InFlight, LoadEndpoint
    <2>2. PICK st \in {"sending", "dropping"} : MoveTo(s, d, st)
      BY <1>1 DEF LoadEndpoint
    <2> QED
      BY <1>0, <1>1, <2>1, <2>2, QuietMove DEF LoadEndpoint, rowVars, endpointVars
  <1>2. CASE Answer(s, d)
    <2>1. InFlight(s, d)
      BY <1>2, <1>0 DEF InFlight, Answer
    <2>2. PICK st \in {"accepted", "blocked", "refused"} : MoveTo(s, d, st)
      BY <1>2 DEF Answer
    <2> QED
      BY <1>0, <1>2, <2>1, <2>2, QuietMove DEF Answer, rowVars, endpointVars
  <1>3. CASE ResetFailures(s, d)
    <2>1. failures' \in [Endpoints -> 0..Threshold]
      <3>1. 0 \in 0..Threshold
        BY DeliveryAssumption
      <3> QED
        BY <1>0, <1>3, <3>1 DEF ResetFailures
    <2> QED
      BY <1>0, <1>3, <2>1, QuietMove DEF ResetFailures, rowVars
  <1>4. CASE BumpFailures(s, d)
    <2> DEFINE n == Min({failures[EndpointOf(d)] + 1, Threshold})
    <2>1. EndpointOf(d) \in Endpoints
      BY DEF Deliveries, EndpointOf
    <2>2. failures[EndpointOf(d)] \in Nat /\ Threshold \in Nat
      BY <1>0, <2>1, DeliveryAssumption
    <2>3. n \in 0..Threshold
      <3>1. /\ n \in {failures[EndpointOf(d)] + 1, Threshold} /\ n <= Threshold
        BY <2>2, MinOfTwo, failures[EndpointOf(d)] + 1 \in Int, Threshold \in Int
      <3> QED
        BY <2>2, <3>1
    <2>4. /\ failures' = [failures EXCEPT ![EndpointOf(d)] = n]
          /\ \E st \in {"disabling", "idle"} : MoveTo(s, d, st)
      BY <1>4 DEF BumpFailures
    <2> HIDE DEF n
    <2>5. failures' \in [Endpoints -> 0..Threshold]
      BY <1>0, <2>3, <2>4
    <2>6. PICK st \in {"disabling", "idle"} : MoveTo(s, d, st)
      BY <2>4
    <2> QED
      BY <1>0, <1>4, <2>5, <2>6, QuietMove DEF BumpFailures, rowVars
  <1>5. CASE AutoDisable(s, d)
    <2>1. enabled' \in [Endpoints -> BOOLEAN]
      BY <1>0, <1>5 DEF AutoDisable
    <2> QED
      BY <1>0, <1>5, <2>1, QuietMove DEF AutoDisable, rowVars
  <1> QED
    BY <1>1, <1>2, <1>3, <1>4, <1>5, RecordsKeep DEF AttemptStep

(* A dead sweep, or a dead attempt, has nothing in hand.                   *)
LEMMA CrashKeeps == ASSUME IInv, NEW s \in Sweeps, Crash(s) PROVE IInv'
  <1> USE DEF IInv
  <1>1. /\ UNCHANGED <<row, lease, enabled, failures, toEnqueue, revives>>
        /\ stage'[s] = [d \in Deliveries |-> "idle"]
        /\ taken'[s] = [d \in Deliveries |-> 0]
        /\ age'[s] = 0
        /\ \A t \in Sweeps : t # s => stage'[t] = stage[t] /\ taken'[t] = taken[t] /\ age'[t] = age[t]
    BY DEF Crash, Typed, rowVars, endpointVars
  <1>2. Typed'
    BY <1>1 DEF Crash, Typed, Stages
  <1>3. \A t \in Sweeps, d \in Deliveries : InFlight(t, d)' => t # s /\ InFlight(t, d)
    BY <1>1 DEF InFlight, Open
  <1>4. ClaimHeld' /\ ClaimAlone'
    BY <1>1, <1>3 DEF ClaimHeld, ClaimAlone
  <1>5. CountsBounded' /\ BudgetKept'
    <2>1. 0 <= MaxAttempts + revives /\ 0 <= Lease
      BY BudgetIsNat, DeliveryAssumption DEF Typed
    <2> QED
      BY <1>1, <2>1 DEF CountsBounded, BudgetKept
  <1> QED
    BY <1>2, <1>4, <1>5

LEMMA ThrowKeeps ==
  ASSUME IInv, NEW s \in Sweeps, NEW d \in Deliveries, AttemptThrows(s, d)
  PROVE  IInv'
  <1> USE DEF IInv
  <1>1. "idle" \in Stages /\ "idle" \notin Open
    BY DEF Stages, Open
  <1>2. /\ stage' \in [Sweeps -> [Deliveries -> Stages]]
        /\ stage'[s][d] = "idle"
        /\ \A t \in Sweeps, c \in Deliveries : (t # s \/ c # d) => stage'[t][c] = stage[t][c]
    BY <1>1, MoveTyped DEF AttemptThrows
  <1>3. /\ taken' \in [Sweeps -> [Deliveries -> Nat]]
        /\ taken'[s][d] = 0
        /\ \A t \in Sweeps, c \in Deliveries : (t # s \/ c # d) => taken'[t][c] = taken[t][c]
    BY DEF AttemptThrows, Typed
  <1>4. UNCHANGED <<row, lease, enabled, failures, toEnqueue, age, revives>>
    BY DEF AttemptThrows, rowVars, endpointVars
  <1>5. Typed'
    BY <1>2, <1>3, <1>4 DEF Typed
  <1>6. \A t \in Sweeps, c \in Deliveries : InFlight(t, c)' => (t # s \/ c # d) /\ InFlight(t, c)
    BY <1>1, <1>2 DEF InFlight
  <1>7. ClaimHeld' /\ ClaimAlone'
    BY <1>3, <1>4, <1>6 DEF ClaimHeld, ClaimAlone
  <1>8. CountsBounded' /\ BudgetKept'
    <2>1. 0 <= MaxAttempts + revives
      BY BudgetIsNat, DeliveryAssumption DEF Typed
    <2> QED
      BY <1>3, <1>4, <2>1 DEF CountsBounded, BudgetKept
  <1> QED
    BY <1>5, <1>7, <1>8

-----------------------------------------------------------------------------

(* What a step may do, one case for each kind of step.                     *)
LEMMA NextCases ==
  ASSUME Next
  PROVE  \/ Tick
         \/ \E e \in Events : Dispatch(e) \/ CrashDispatch(e)
         \/ \E ep \in Endpoints, e \in Events : Enqueue(ep, e)
         \/ \E s \in Sweeps : StartSweep(s) \/ StartChunk(s) \/ Crash(s)
         \/ \E s \in Sweeps, d \in Deliveries : AttemptStep(s, d) \/ AttemptThrows(s, d)
         \/ \E d \in Deliveries : Revive(d)
         \/ \E ep \in Endpoints : Enable(ep) \/ Disable(ep)
  BY DEF Next, SweepStep

LEMMA StepIInv == ASSUME IInv, [Next]_vars PROVE IInv'
  <1>1. CASE UNCHANGED vars
    <2>1. RestTyped' /\ Quiet
      BY <1>1 DEF IInv, Typed, RestTyped, Quiet, InFlight, vars, rowVars, endpointVars, sweepVars
    <2> QED
      BY <2>1, QuietKeeps
  <1>2. CASE Next
    BY <1>2, NextCases, TickKeeps, DispatchKeeps, EnqueueKeeps, StartSweepKeeps, StartChunkKeeps,
       CrashKeeps, AttemptKeeps, ThrowKeeps, ReviveKeeps, OperatorKeeps
  <1> QED
    BY <1>1, <1>2

(* The claims and counts of every reachable state, whatever dies or lapses.*)
THEOREM Inductive == Spec => []IInv
  BY InitIInv, StepIInv, PTL DEF Spec

-----------------------------------------------------------------------------

(* Every variable stays in its range, and attempts within the bound that   *)
(* the budget and the revivals give (dispatch.ts, attempt).                *)
THEOREM TypeCorrect == Spec => []TypeOK
  <1>1. IInv => TypeOK
    BY BudgetIsNat, DeliveryAssumption DEF IInv, Typed, CountsBounded, TypeOK
  <1> QED
    BY <1>1, Inductive, PTL

(* No two sweeps ever have one delivery in hand, however many run and      *)
(* whatever dies, lapses or is revived between them (claimDue, types.ts).  *)
THEOREM OneSenderAlways == Spec => []OneSender
  <1>1. ASSUME ClaimAlone, NEW d \in Deliveries
        PROVE  Cardinality({s \in Sweeps : InFlight(s, d)}) <= 1
    <2> DEFINE hands == {s \in Sweeps : InFlight(s, d)}
    <2>1. CASE hands = {}
      BY <2>1, FS_EmptySet
    <2>2. CASE hands # {}
      <3>1. PICK s \in hands : TRUE
        BY <2>2
      <3>2. hands = {s}
        BY <1>1, <3>1 DEF ClaimAlone
      <3> QED
        BY <3>2, FS_Singleton
    <2> QED
      BY <2>1, <2>2
  <1>2. IInv => OneSender
    BY <1>1 DEF IInv, OneSender
  <1> QED
    BY <1>2, Inductive, PTL

(* A row is parked as exhausted only after all its attempts, and waits for *)
(* another only within its budget and the revivals it was given            *)
(* (attempt, dispatch.ts).                                                 *)
THEOREM BudgetAlwaysKept == Spec => []BudgetKept
  <1>1. IInv => BudgetKept
    BY DEF IInv
  <1> QED
    BY <1>1, Inductive, PTL

(* A row's attempts count up one by one: no sweep writes back a count it   *)
(* took before another sweep's answer, no duplicate of the event starts    *)
(* the budget over (attemptCount).                                         *)
THEOREM AttemptsAlwaysCountUp == Spec => AttemptsCountUp
  <1>1. ASSUME IInv, [Next]_vars
        PROVE  [\A d \in Deliveries : row'[d].attempts - row[d].attempts \in {0, 1}]_vars
    <2> SUFFICES ASSUME NEW d \in Deliveries
                 PROVE  row'[d].attempts - row[d].attempts \in {0, 1}
      OBVIOUS
    <2>1. row[d].attempts \in Nat /\ row \in [Deliveries -> [status : Statuses, attempts : Nat, due : Nat]]
      BY <1>1 DEF IInv, Typed
    <2>2. CASE UNCHANGED row
      BY <2>1, <2>2
    <2>3. CASE Tick
      <3>1. row'[d] = [row[d] EXCEPT !.due = Max({0, @ - 1})]
        BY <2>3 DEF Tick
      <3> QED
        BY <2>1, <3>1
    <2>4. ASSUME NEW ep \in Endpoints, NEW e \in Events, Enqueue(ep, e)
          PROVE  row'[d].attempts - row[d].attempts \in {0, 1}
      <3>1. row'[d] = row[d] \/ (row[d].status = "none" /\ row'[d] = Fresh)
        BY <2>1, <2>4 DEF Enqueue
      <3> QED
        BY <1>1, <2>1, <3>1 DEF IInv, CountsBounded, Fresh
    <2>5. ASSUME NEW c \in Deliveries, Revive(c)
          PROVE  row'[d].attempts - row[d].attempts \in {0, 1}
      <3>1. row'[d] = row[d] \/ row'[d] = [row[d] EXCEPT !.status = "pending", !.due = 0]
        BY <2>1, <2>5 DEF Revive
      <3>2. row[d] \in [status : Statuses, attempts : Nat, due : Nat]
        BY <2>1
      <3>3. row'[d].attempts = row[d].attempts
        BY <3>1, <3>2, RevivedRow
      <3> QED
        BY <2>1, <3>3
    <2>6. ASSUME NEW s \in Sweeps, NEW c \in Deliveries, AttemptStep(s, c)
          PROVE  row'[d].attempts - row[d].attempts \in {0, 1}
      <3>1. CASE RecordDropped(s, c)
        <4>1. row' = [row EXCEPT ![c] = Closed("failed", row[c].attempts)]
          BY <3>1 DEF RecordDropped, Record
        <4> QED
          BY <2>1, <4>1 DEF Closed
      <3>2. CASE RecordAccepted(s, c) \/ RecordBlocked(s, c) \/ RecordRefused(s, c)
        <4>1. taken[s][c] = row[c].attempts
          BY <1>1, <3>2
          DEF IInv, ClaimHeld, InFlight, Open, RecordAccepted, RecordBlocked, RecordRefused
        <4>2. PICK q : row' = [row EXCEPT ![c] = q] /\ q.attempts = taken[s][c] + 1
          <5>1. \A st : Closed(st, taken[s][c] + 1).attempts = taken[s][c] + 1
            BY DEF Closed
          <5>2. CASE RecordAccepted(s, c) \/ RecordBlocked(s, c)
            BY <5>1, <5>2 DEF RecordAccepted, RecordBlocked, Record
          <5>3. CASE RecordRefused(s, c)
            <6> DEFINE n == taken[s][c] + 1
                       Waits(w) == [status |-> "pending", attempts |-> n, due |-> w]
            <6>1. Record(s, c, Closed("exhausted", n), "bumping")
                    \/ \E w : Record(s, c, Waits(w), "bumping")
              BY <5>3 DEF RecordRefused
            <6>2. \A w : Waits(w).attempts = n
              OBVIOUS
            <6> HIDE DEF n, Waits
            <6>3. CASE Record(s, c, Closed("exhausted", n), "bumping")
              BY <5>1, <6>3 DEF Record, n
            <6>4. ASSUME NEW w, Record(s, c, Waits(w), "bumping")
                  PROVE  \E q : row' = [row EXCEPT ![c] = q] /\ q.attempts = taken[s][c] + 1
              BY <6>2, <6>4 DEF Record, n
            <6> QED
              BY <6>1, <6>3, <6>4
          <5> QED
            BY <3>2, <5>2, <5>3
        <4>3. row'[d] = row[d] \/ (d = c /\ row'[d] = q)
          BY <2>1, <4>2
        <4> QED
          BY <2>1, <4>1, <4>2, <4>3
      <3>3. CASE LoadEndpoint(s, c) \/ Answer(s, c) \/ ResetFailures(s, c)
                  \/ BumpFailures(s, c) \/ AutoDisable(s, c)
        BY <2>2, <3>3
        DEF LoadEndpoint, Answer, ResetFailures, BumpFailures, AutoDisable, rowVars
      <3> QED
        BY <2>6, <3>1, <3>2, <3>3 DEF AttemptStep
    <2>7. \/ UNCHANGED row \/ Tick
          \/ \E ep \in Endpoints, e \in Events : Enqueue(ep, e)
          \/ \E c \in Deliveries : Revive(c)
          \/ \E s \in Sweeps, c \in Deliveries : AttemptStep(s, c)
      <3>1. CASE UNCHANGED vars
        BY <3>1 DEF vars, rowVars
      <3>2. CASE Next
        BY <3>2, NextCases
        DEF Dispatch, CrashDispatch, StartSweep, StartChunk, Crash, AttemptThrows, Enable, Disable,
            rowVars
      <3> QED
        BY <1>1, <3>1, <3>2
    <2> QED
      BY <2>2, <2>3, <2>4, <2>5, <2>6, <2>7
  <1> QED
    BY <1>1, Inductive, PTL DEF Spec, AttemptsCountUp

=============================================================================
