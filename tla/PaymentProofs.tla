---------------------------- MODULE PaymentProofs ----------------------------
(***************************************************************************)
(* Both ends of a payment.  The gate (TollRead): for any payments and any  *)
(* requests that present them, what the gate says of a payment, and what   *)
(* it serves for it, agree with the money that moved.  The buyer           *)
(* (BuyerSession): for any pages, tolls, budgets and number of concurrent  *)
(* calls, the session keeps its ceiling, its cap per host, its licences    *)
(* and, if no two pages share a slug, to what each page was quoted.        *)
(***************************************************************************)
EXTENDS TollRead, BuyerSession, FiniteSetTheorems, SequenceTheorems, TLAPS

-----------------------------------------------------------------------------
(* The gate.                                                               *)

SettledStages == {"deferring", "attributing", "serving"}
Past == {"answered", "gone"}

(* How far a request has come, for what it has and what has become of its  *)
(* payment.                                                                *)
Coherent(r) ==
  /\ req[r].at # "unborn" => req[r].pay \in Payments
  /\ req[r].at # "answered" => req[r].outcome = "none" /\ req[r].answer = "none"
  /\ r \in submitted \cup landed => req[r].at \in {"settling"} \cup SettledStages \cup Past
  /\ req[r].at \in SettledStages => req[r].settled
  /\ req[r].settled => r \in landed /\ req[r].at \in SettledStages \cup Past
  /\ req[r].answer = "paid" => req[r].settled
  /\ req[r].settled => req[r].answer \notin {"refused", "unserved", "free"}
  /\ req[r].outcome = "unpaid" => r \notin submitted \cup landed

(* What a request needs before its money moves.                            *)
Earned(r) ==
  req[r].at \in {"verified", "settling"} \/ r \in submitted \cup landed =>
    /\ req[r].safe => req[r].fetched
    /\ req[r].sale => req[r].pay \in Whole

Fetched(r) == req[r].at = "presented" /\ req[r].safe => req[r].fetched

LandsOnce == \A q, r \in landed : req[q].pay = req[r].pay => q = r

IInv ==
  /\ TypeOK
  /\ \A r \in Requests : Coherent(r) /\ Earned(r) /\ Fetched(r)
  /\ LandsOnce

-----------------------------------------------------------------------------

LEMMA InitIInv == Init => IInv
  BY TollAssumption
  DEF Init, IInv, TypeOK, Request, Unborn, Stages, Answers, Coherent, Earned, Fetched, LandsOnce,
      SettledStages, Past

Step(r) ==
  \/ Present(r) \/ Fetch(r) \/ Verify(r) \/ Settle(r) \/ Land(r)
  \/ SettleAnswered(r) \/ SettleRefused(r) \/ SettleThrows(r)
  \/ Defer(r) \/ Attribute(r) \/ Serve(r) \/ Die(r) \/ Conclude(r)

(* A request that steps stays a request.                                   *)
LEMMA RequestStep ==
  ASSUME TypeOK, NEW r \in Requests, Step(r)
  PROVE  req' \in [Requests -> Request]
  <1> USE DEF Request, Stages, Answers, To, End
  <1>0. req \in [Requests -> Request] /\ req[r] \in Request
    BY DEF TypeOK
  <1>1. CASE Present(r)
    <2>1. PICK p \in Payments, sale, safe \in BOOLEAN :
            req' = [req EXCEPT ![r] = [Unborn EXCEPT
                      !.at = IF safe THEN "fetching" ELSE "presented",
                      !.pay = p, !.sale = sale, !.safe = safe]]
      BY <1>1 DEF Present
    <2>2. [Unborn EXCEPT !.at = IF safe THEN "fetching" ELSE "presented",
                         !.pay = p, !.sale = sale, !.safe = safe] \in Request
      BY DEF Unborn
    <2> QED
      BY <1>0, <2>1, <2>2
  <1>2. CASE Fetch(r) \/ Verify(r)
    BY <1>0, <1>2 DEF Fetch, Verify
  <1>3. CASE Settle(r) \/ Land(r) \/ Defer(r) \/ Attribute(r)
    BY <1>0, <1>3 DEF Settle, Land, Defer, Attribute, ledger
  <1>4. CASE SettleAnswered(r)
    BY <1>0, <1>4 DEF SettleAnswered
  <1>5. CASE SettleRefused(r) \/ SettleThrows(r)
    BY <1>0, <1>5 DEF SettleRefused, SettleThrows
  <1>6. CASE Serve(r) \/ Die(r)
    BY <1>0, <1>6 DEF Serve, Die
  <1>7. CASE Conclude(r)
    BY <1>0, <1>7 DEF Conclude
  <1> QED
    BY <1>1, <1>2, <1>3, <1>4, <1>5, <1>6, <1>7 DEF Step

LEMMA TypeStep ==
  ASSUME IInv, NEW r \in Requests, Step(r)
  PROVE  TypeOK'
  <1>0. TypeOK /\ Coherent(r)
    BY DEF IInv
  <1>1. req' \in [Requests -> Request]
    BY <1>0, RequestStep
  <1>2. submitted' \subseteq Requests \ landed' /\ landed' \subseteq Requests
    BY <1>0 DEF TypeOK, Coherent, SettledStages, Past, Step, Present, Fetch, Verify, Settle, Land,
       SettleAnswered, SettleRefused, SettleThrows, Defer, Attribute, Serve, Die, Conclude,
       At, money
  <1>3. deferred' \subseteq Payments
    BY <1>0 DEF TypeOK, Coherent, Step, Present, Fetch, Verify, Settle, Land,
       SettleAnswered, SettleRefused, SettleThrows, Defer, Attribute, Serve, Die, Conclude,
       At, ledger
  <1>4. events' \subseteq Requests
    BY <1>0 DEF TypeOK, Step, Present, Fetch, Verify, Settle, Land,
       SettleAnswered, SettleRefused, SettleThrows, Defer, Attribute, Serve, Die, Conclude,
       ledger
  <1> QED
    BY <1>1, <1>2, <1>3, <1>4 DEF TypeOK

(* The request that steps is coherent afterwards.                          *)
LEMMA OwnStep ==
  ASSUME IInv, NEW r \in Requests, Step(r)
  PROVE  Coherent(r)' /\ Earned(r)' /\ Fetched(r)'
  <1> USE DEF Coherent, Earned, Fetched, SettledStages, Past, To, At, End, money, ledger,
             Request, Stages, Answers
  <1>0. TypeOK /\ Coherent(r) /\ Earned(r) /\ Fetched(r)
    BY DEF IInv
  <1>a. req \in [Requests -> Request]
    BY <1>0 DEF TypeOK
  <1>1. CASE Present(r)
    BY <1>0, <1>a, <1>1 DEF Present, Unborn
  <1>2. CASE Fetch(r)
    BY <1>0, <1>a, <1>2 DEF Fetch
  <1>3. CASE Verify(r)
    BY <1>0, <1>a, <1>3 DEF Verify, MayHonour
  <1>4. CASE Settle(r)
    BY <1>0, <1>a, <1>4 DEF Settle
  <1>5. CASE Land(r)
    BY <1>0, <1>a, <1>5 DEF Land
  <1>6. CASE SettleAnswered(r)
    BY <1>0, <1>a, <1>6 DEF SettleAnswered
  <1>7. CASE SettleRefused(r)
    BY <1>0, <1>a, <1>7 DEF SettleRefused
  <1>8. CASE SettleThrows(r)
    BY <1>0, <1>a, <1>8 DEF SettleThrows
  <1>9. CASE Defer(r)
    BY <1>0, <1>a, <1>9 DEF Defer
  <1>10. CASE Attribute(r)
    BY <1>0, <1>a, <1>10 DEF Attribute
  <1>11. CASE Serve(r)
    BY <1>0, <1>a, <1>11 DEF Serve
  <1>12. CASE Die(r)
    BY <1>0, <1>a, <1>12 DEF Die
  <1>13. CASE Conclude(r)
    BY <1>0, <1>a, <1>13 DEF Conclude
  <1> QED
    BY <1>1, <1>2, <1>3, <1>4, <1>5, <1>6, <1>7, <1>8, <1>9, <1>10, <1>11, <1>12, <1>13
    DEF Step

(* A step of one request leaves the others alone.                          *)
LEMMA OthersStand ==
  ASSUME TypeOK, NEW r \in Requests, Step(r), NEW q \in Requests, q # r
  PROVE  req'[q] = req[q] /\ (q \in submitted' <=> q \in submitted)
                          /\ (q \in landed' <=> q \in landed)
  BY DEF TypeOK, Step, Present, Fetch, Verify, Settle, Land, SettleAnswered, SettleRefused,
         SettleThrows, Defer, Attribute, Serve, Die, Conclude, To, End, money, ledger

(* The payment of a request whose money moved is what it was, and the      *)
(* money of a payment moves once.                                          *)
LEMMA LandsOnceStep ==
  ASSUME IInv, NEW r \in Requests, Step(r)
  PROVE  LandsOnce'
  <1>0. TypeOK /\ Coherent(r) /\ LandsOnce
    BY DEF IInv
  <1>1. CASE Land(r)
    BY <1>0, <1>1 DEF Land, Consumed, LandsOnce, TypeOK, ledger
  <1>2. CASE Present(r)
    <2>1. r \notin landed /\ landed' = landed
      BY <1>0, <1>2 DEF Present, At, money, Coherent, SettledStages, Past
    <2>2. \A q \in landed : req'[q] = req[q]
      BY <1>0, <1>2, <2>1, OthersStand DEF TypeOK
    <2> QED
      BY <1>0, <2>1, <2>2 DEF LandsOnce
  <1>3. CASE ~Land(r) /\ ~Present(r)
    <2>1. landed' = landed
      BY <1>3 DEF Step, Fetch, Verify, Settle, SettleAnswered, SettleRefused,
                  SettleThrows, Defer, Attribute, Serve, Die, Conclude, money
    <2>2. req'[r].pay = req[r].pay
      BY <1>0, <1>3 DEF TypeOK, Request, Step, Fetch, Verify, Settle, SettleAnswered, SettleRefused,
                  SettleThrows, Defer, Attribute, Serve, Die, Conclude, To, End
    <2>3. \A q \in Requests : req'[q].pay = req[q].pay
      BY <1>0, <2>2, OthersStand
    <2> QED
      BY <1>0, <2>1, <2>3 DEF LandsOnce, TypeOK
  <1> QED
    BY <1>1, <1>2, <1>3

THEOREM Inductive == Spec => []IInv
  <1>1. Init => IInv
    BY InitIInv
  <1>2. IInv /\ [Next]_vars => IInv'
    <2> SUFFICES ASSUME IInv, [Next]_vars PROVE IInv'
      OBVIOUS
    <2>1. CASE Next
      <3>1. PICK r \in Requests : Step(r)
        BY <2>1 DEF Next, Step
      <3>2. TypeOK' /\ LandsOnce'
        BY <3>1, TypeStep, LandsOnceStep
      <3>3. ASSUME NEW q \in Requests
            PROVE  Coherent(q)' /\ Earned(q)' /\ Fetched(q)'
        <4>1. CASE q = r
          BY <3>1, <4>1, OwnStep
        <4>2. CASE q # r
          <5>1. TypeOK /\ Coherent(q) /\ Earned(q) /\ Fetched(q)
            BY DEF IInv
          <5>2. req'[q] = req[q] /\ (q \in submitted' <=> q \in submitted)
                                 /\ (q \in landed' <=> q \in landed)
            BY <3>1, <4>2, <5>1, OthersStand
          <5> QED
            BY <5>1, <5>2 DEF Coherent, Earned, Fetched
        <4> QED
          BY <4>1, <4>2
      <3> QED
        BY <3>2, <3>3 DEF IInv
    <2>2. CASE UNCHANGED vars
      BY <2>2 DEF IInv, vars, TypeOK, Coherent, Earned, Fetched, LandsOnce
    <2> QED
      BY <2>1, <2>2
  <1> QED
    BY <1>1, <1>2, PTL DEF Spec

(* Every variable keeps its range, and a leg that moved is not with the    *)
(* facilitator again (settleGateway).                                      *)
THEOREM TypeCorrect == Spec => []TypeOK
  <1>1. IInv => TypeOK
    BY DEF IInv
  <1> QED
    BY <1>1, Inductive, PTL

(* Who is told `unpaid` may have the reserve back (app.ts, outcome).       *)
THEOREM UnpaidIsSafe == Spec => []UnpaidMovesNothing
  <1>1. IInv => UnpaidMovesNothing
    BY DEF IInv, Coherent, UnpaidMovesNothing
  <1> QED
    BY <1>1, Inductive, PTL

(* No author is paid for a page the gate does not hold (settleAndServe).   *)
THEOREM PaidForContent == Spec => []MoneyImpliesContent
  <1>1. IInv => MoneyImpliesContent
    BY DEF IInv, TypeOK, Earned, MoneyImpliesContent
  <1> QED
    BY <1>1, Inductive, PTL

(* A payment presented again buys nothing (verifyAndSettle).               *)
THEOREM PaymentsBuyOnce == Spec => []OnePaymentOneRead
  <1>1. IInv => OnePaymentOneRead
    BY DEF IInv, Coherent, LandsOnce, OnePaymentOneRead
  <1> QED
    BY <1>1, Inductive, PTL

(* A settled read is not refused (settleAndAttribute).                     *)
THEOREM NoRefusalOnceSettled == Spec => []SettledIsNotRefused
  <1>1. IInv => SettledIsNotRefused
    BY DEF IInv, Coherent, SettledIsNotRefused
  <1> QED
    BY <1>1, Inductive, PTL

(* A sale moves the money of all its payees or of none (requireEveryLeg).  *)
THEOREM SalesAreWhole == Spec => []SaleIsWhole
  <1>1. IInv => SaleIsWhole
    BY DEF IInv, TypeOK, Earned, SaleIsWhole
  <1> QED
    BY <1>1, Inductive, PTL

-----------------------------------------------------------------------------
(* The buyer.  A call that has got its turn, and those of the two tools    *)
(* that plan and read.                                                     *)

OnRun == {"obtain", "bought"}
OnPage == {"pay", "present", "period", "probe", "fetch", "sent", "keep"}
Active(c) == job[c].at \notin {"idle", "pay", "research"}

Totals == {t.total : t \in Tolls}

(* Whoever is past its turn holds the lock.                                *)
Turns == \A c \in Calls : Active(c) => Holds(c)

(* A call of naulon_pay_and_read: a held licence is presented before the   *)
(* price is asked, and the price was under what the session has left.      *)
PageJob(c) ==
  /\ job[c].at \in OnPage => job[c].page \in Pages
  /\ job[c].at \in {"period", "probe", "fetch", "sent"} /\ job[c].page \in job[c].seen \ Bound
       => job[c].presented # "no"
  /\ job[c].at \in {"fetch", "sent"} =>
       /\ job[c].quote \in Totals /\ job[c].quote <= Remaining
       /\ job[c].ceiling = Authorized(job[c].quote)
       /\ paidByHost[HostOf[job[c].page]] < Cap
  /\ job[c].at = "sent" => job[c].due <= job[c].ceiling

Pays(plan) == {i \in DOMAIN plan : plan[i].act = "pay"}
PaysTo(plan, h) == {i \in Pays(plan) : HostOf[plan[i].page] = h}

(* The plan of a run: each pay is at a total its slug was quoted, those of *)
(* a host are within the cap, and no page is planned that is held, but     *)
(* again in the same run.                                                  *)
Planful(c) ==
  /\ \A i \in Pays(job[c].plan) :
       /\ job[c].plan[i].quote \in job[c].plan[i].quoted
       /\ job[c].plan[i].quoted \subseteq Totals
       /\ job[c].plan[i].page \in job[c].seen =>
            \E j \in job[c].got : job[c].plan[j].page = job[c].plan[i].page
  /\ \A h \in Hosts : paidByHost[h] + Cardinality(PaysTo(job[c].plan, h)) <= Cap

RunJob(c) ==
  /\ job[c].got \subseteq 1..(job[c].pos - 1)
  /\ job[c].at \notin OnRun => job[c].spent = 0 /\ job[c].pos = 1 /\ job[c].got = {}
  /\ job[c].at \in OnRun =>
       /\ Planful(c)
       /\ held \subseteq job[c].seen
       /\ job[c].budget <= Remaining /\ job[c].spent <= job[c].budget
  /\ job[c].at = "bought" =>
       /\ job[c].pos \in Pays(job[c].plan)
       /\ job[c].spent + job[c].due <= job[c].budget
       /\ job[c].due <= Authorized(Entry(c).quote)

SessionKept == Within(spent) /\ \A h \in Hosts : paidByHost[h] <= Cap

(* Every read paid for is counted, lost, or its call has it to count: the  *)
(* one that holds the lock, and no other has any.                          *)
Tally(c) == \A h \in Hosts : paid[h] <= paidByHost[h] + lost[h] + Uncounted(job[c], h)

Tallied ==
  /\ (\A c \in Calls : ~Active(c)) => \A h \in Hosts : paid[h] <= paidByHost[h] + lost[h]
  /\ \A c \in Calls : Active(c) => Tally(c)

BInv ==
  /\ SessionTypeOK /\ Turns /\ SessionKept /\ Tallied
  /\ \A c \in Calls : PageJob(c) /\ RunJob(c)

-----------------------------------------------------------------------------

LEMMA QuotesTyped ==
  ASSUME NEW q \in Totals
  PROVE  q \in Nat /\ Tolerance[q] \in Nat /\ Authorized(q) \in Nat
         /\ (q = 0 => Authorized(q) = 0)
  BY BuyerAssumption DEF Totals, Authorized

(* What the budget left is room for fits.                                  *)
LEMMA FitsRemaining ==
  ASSUME spent \in Nat, Within(spent), NEW x \in Nat, x <= Remaining
  PROVE  Within(spent + x)
  <1>0. Ceiling \in Nat
    BY BuyerAssumption
  <1>1. CASE spent <= Ceiling
    <2>1. spent + x <= Ceiling
      BY <1>0, <1>1 DEF Remaining
    <2> QED
      BY <2>1 DEF Within
  <1>2. CASE ~(spent <= Ceiling)
    <2>1. x = 0 /\ spent + x = spent
      BY <1>0, <1>2 DEF Remaining
    <2> QED
      BY <2>1
  <1> QED
    BY <1>1, <1>2

(* So does what is authorized for a quote it is room for.                  *)
LEMMA FitsAuthorized ==
  ASSUME spent \in Nat, Within(spent), NEW q \in Totals, q <= Remaining,
         NEW due \in Nat, due <= Authorized(q)
  PROVE  Within(spent + due)
  <1>0. Ceiling \in Nat /\ q \in Nat /\ Tolerance[q] \in Nat /\ Authorized(q) = q + Tolerance[q]
    BY BuyerAssumption, QuotesTyped DEF Authorized
  <1>1. CASE spent <= Ceiling
    <2>1. q <= Ceiling /\ spent + due <= Ceiling + Tolerance[q]
      BY <1>0, <1>1 DEF Remaining
    <2> QED
      BY <2>1 DEF Within, Totals
  <1>2. CASE ~(spent <= Ceiling)
    <2>1. q = 0
      BY <1>0, <1>2 DEF Remaining
    <2>2. spent + due = spent
      BY <2>1, QuotesTyped
    <2> QED
      BY <2>2
  <1> QED
    BY <1>1, <1>2

LEMMA NoJobTyped ==
  /\ NoJob \in Job
  /\ NoJob.at = "idle" /\ NoJob.spent = 0 /\ NoJob.pos = 1 /\ NoJob.plan = <<>> /\ NoJob.got = {}
  /\ NoJob.presented = "no"
  <1>1. <<>> \in Seq(Decisions)
    OBVIOUS
  <1> QED
    BY <1>1 DEF NoJob, Job, States, Spending

LEMMA InitBInv == SessionInit => BInv
  <1> SUFFICES ASSUME SessionInit PROVE BInv
    OBVIOUS
  <1>1. \A c \in Calls : job[c] = NoJob
    BY DEF SessionInit
  <1>2. SessionTypeOK
    <2>1. Len(<<>>) = 0 /\ chain \in Seq(Calls)
      BY DEF SessionInit
    <2> QED
      BY <1>1, <2>1, NoJobTyped, BuyerAssumption DEF SessionInit, SessionTypeOK
  <1>3. Turns
    BY <1>1, NoJobTyped DEF Turns, Active
  <1>4. SessionKept
    BY BuyerAssumption DEF SessionInit, SessionKept, Within
  <1>5. \A c \in Calls : PageJob(c) /\ RunJob(c)
    BY <1>1, NoJobTyped DEF PageJob, RunJob, OnPage, OnRun
  <1>6. Tallied
    BY <1>1, NoJobTyped DEF SessionInit, Tallied, Active
  <1> QED
    BY <1>2, <1>3, <1>4, <1>5, <1>6 DEF BInv

(* What a call has sent and the session not counted, as it goes on.        *)
LEMMA UncountedTyped ==
  ASSUME NEW call, NEW n \in Nat, call.got \subseteq 1..n, NEW h
  PROVE  IsFiniteSet(SentTo(call, h)) /\ Cardinality(SentTo(call, h)) \in Nat /\ Uncounted(call, h) \in Nat
  <1>1. IsFiniteSet(call.got)
    <2>1. IsFiniteSet(1..n)
      BY FS_Interval
    <2> QED
      BY <2>1, FS_Subset
  <1>2. IsFiniteSet(call.got \cup {call.pos}) /\ SentTo(call, h) \subseteq call.got \cup {call.pos}
    BY <1>1, FS_AddElement DEF SentTo
  <1>3. IsFiniteSet(SentTo(call, h))
    BY <1>2, FS_Subset
  <1> QED
    BY <1>3, FS_CardinalityType DEF Uncounted

LEMMA NothingSent ==
  ASSUME NEW call, call.got = {}, call.at # "bought", NEW h
  PROVE  Uncounted(call, h) = IF call.at = "sent" /\ HostOf[call.page] = h THEN 1 ELSE 0
  <1>1. SentTo(call, h) = {}
    BY DEF SentTo
  <1> QED
    BY <1>1, FS_EmptySet DEF Uncounted

LEMMA UncountedIs ==
  ASSUME NEW call, NEW h, call.at # "sent", Cardinality(SentTo(call, h)) \in Nat
  PROVE  Uncounted(call, h) = Cardinality(SentTo(call, h))
  BY DEF Uncounted

LEMMA SendsThis ==
  ASSUME NEW old, NEW new, NEW h, old.at # "bought", new.at = "bought",
         new.pos = old.pos, new.got = old.got, new.plan = old.plan,
         old.plan[old.pos].act = "pay"
  PROVE  /\ HostOf[old.plan[old.pos].page] = h => SentTo(new, h) = SentTo(old, h) \cup {old.pos}
         /\ HostOf[old.plan[old.pos].page] # h => SentTo(new, h) = SentTo(old, h)
  BY DEF SentTo

LEMMA SameSent ==
  ASSUME NEW old, NEW new, NEW h, old.at # "sent", new.at # "sent", SentTo(new, h) = SentTo(old, h)
  PROVE  Uncounted(new, h) = Uncounted(old, h)
  BY DEF Uncounted

(* The lock has one holder.                                                *)
LEMMA Locked ==
  ASSUME Turns, NEW c \in Calls, NEW d \in Calls, Active(c), Holds(d)
  PROVE  c = d
  BY DEF Turns, Holds

(* A step of one call keeps the invariant if that call's part is kept, and *)
(* the session is touched under the lock alone.                            *)
LEMMA StepKeeps ==
  ASSUME BInv, NEW c \in Calls, \A d \in Calls : d # c => job'[d] = job[d],
         SessionTypeOK', Turns', SessionKept', Tallied', PageJob(c)', RunJob(c)',
         Holds(c) \/ UNCHANGED <<spent, paidByHost, held>>
  PROVE  BInv'
  <1>1. ASSUME NEW d \in Calls, d # c
        PROVE  PageJob(d)' /\ RunJob(d)'
    <2>0. job'[d] = job[d] /\ PageJob(d) /\ RunJob(d)
      BY <1>1 DEF BInv
    <2>1. CASE Active(d)
      <3>1. UNCHANGED <<spent, paidByHost, held>>
        BY <1>1, <2>1, Locked DEF BInv
      <3>2. Remaining' = Remaining
        BY <3>1 DEF Remaining
      <3>3. PageJob(d)'
        BY <2>0, <3>1, <3>2 DEF PageJob
      <3>4. RunJob(d)'
        BY <2>0, <3>1, <3>2 DEF RunJob, Planful, Entry
      <3> QED
        BY <3>3, <3>4
    <2>2. CASE ~Active(d)
      <3>1. job[d].at \in {"idle", "pay", "research"}
        BY <2>2 DEF Active
      <3>2. PageJob(d)'
        BY <2>0, <3>1 DEF PageJob, OnPage
      <3>3. RunJob(d)'
        BY <2>0, <3>1 DEF RunJob, OnRun
      <3> QED
        BY <3>2, <3>3
    <2> QED
      BY <2>1, <2>2
  <1> QED
    BY <1>1 DEF BInv

(* The counts are the holder's: of the other calls none has begun.         *)
LEMMA HolderTally ==
  ASSUME BInv, NEW c \in Calls, Holds(c)
  PROVE  Tally(c)
  <1>1. CASE Active(c)
    BY <1>1 DEF BInv, Tallied
  <1>2. CASE ~Active(c)
    <2>1. \A d \in Calls : ~Active(d)
      BY <1>2, Locked DEF BInv
    <2>2. ASSUME NEW h \in Hosts
          PROVE  paid[h] <= paidByHost[h] + lost[h] + Uncounted(job[c], h)
      <3>1. paid[h] <= paidByHost[h] + lost[h]
        BY <2>1 DEF BInv, Tallied
      <3>2. Uncounted(job[c], h) \in Nat
        <4>1. Len(job[c].plan) \in Nat /\ job[c].got \subseteq 1..Len(job[c].plan)
          BY DEF BInv, SessionTypeOK, Job
        <4> QED
          BY <4>1, UncountedTyped
      <3>3. paid[h] \in Nat /\ paidByHost[h] \in Nat /\ lost[h] \in Nat
        BY DEF BInv, SessionTypeOK
      <3> QED
        BY <3>1, <3>2, <3>3
    <2> QED
      BY <2>2 DEF Tally
  <1> QED
    BY <1>1, <1>2

LEMMA TallyKept ==
  ASSUME BInv, NEW c \in Calls, Holds(c), \A d \in Calls : d # c => job'[d] = job[d],
         NEW new, job'[c] = new, new.at \in {"idle", "pay", "research"} => new.got = {},
         \A h \in Hosts : paid'[h] <= paidByHost'[h] + lost'[h] + Uncounted(new, h),
         SessionTypeOK'
  PROVE  Tallied'
  <1>1. \A d \in Calls : d # c => ~Active(d)'
    BY Locked DEF BInv, Active
  <1>2. Tally(c)'
    BY DEF Tally
  <1>3. ASSUME ~Active(c)', NEW h \in Hosts PROVE paid'[h] <= paidByHost'[h] + lost'[h]
    <2>1. new.at \in {"idle", "pay", "research"} /\ new.got = {}
      BY <1>3 DEF Active
    <2>2. Uncounted(new, h) = 0
      BY <2>1, NothingSent
    <2>3. paid'[h] <= paidByHost'[h] + lost'[h] + 0
      BY <2>2
    <2>4. paidByHost'[h] \in Nat /\ lost'[h] \in Nat
      BY DEF SessionTypeOK
    <2> QED
      BY <2>3, <2>4
  <1> QED
    BY <1>1, <1>2, <1>3 DEF Tallied

(* The holder goes on with what it does.                                   *)
LEMMA HolderMoves ==
  ASSUME BInv, NEW c \in Calls, Holds(c), NEW new \in Job, Become(c, new),
         UNCHANGED <<discovered, chain, made>>,
         spent' \in Nat, {paidByHost, paid, lost}' \subseteq [Hosts -> Nat],
         held' \subseteq Pages, SessionKept',
         new.pos \in 1..(Len(new.plan) + 1), new.got \subseteq 1..Len(new.plan),
         \A h \in Hosts : paid'[h] <= paidByHost'[h] + lost'[h] + Uncounted(new, h),
         job'[c] = new => PageJob(c)' /\ RunJob(c)'
  PROVE  BInv'
  <1>1. /\ job' \in [Calls -> Job] /\ job'[c] = new
        /\ \A d \in Calls : d # c => job'[d] = job[d]
    BY DEF Become, BInv, SessionTypeOK
  <1>2. SessionTypeOK'
    BY <1>1 DEF BInv, SessionTypeOK
  <1>3. Turns'
    BY <1>1 DEF BInv, Turns, Active, Holds
  <1>4. new.at \in {"idle", "pay", "research"} => new.got = {}
    BY <1>1 DEF RunJob, OnRun
  <1>5. Tallied'
    BY <1>1, <1>2, <1>4, TallyKept
  <1> QED
    BY <1>1, <1>2, <1>3, <1>5, StepKeeps

(* The holder returns.                                                     *)
LEMMA HolderReturns ==
  ASSUME BInv, NEW c \in Calls, Holds(c), Return(c), UNCHANGED <<discovered, made>>,
         spent' \in Nat, {paidByHost, paid, lost}' \subseteq [Hosts -> Nat],
         held' \subseteq Pages, SessionKept',
         \A h \in Hosts : paid'[h] <= paidByHost'[h] + lost'[h]
  PROVE  BInv'
  <1>1. /\ job' \in [Calls -> Job] /\ job'[c] = NoJob
        /\ \A d \in Calls : d # c => job'[d] = job[d]
    BY NoJobTyped DEF Return, BInv, SessionTypeOK
  <1>2. chain' \in Seq(Calls)
    BY DEF Return, Holds, BInv, SessionTypeOK
  <1>3. SessionTypeOK'
    <2>1. NoJob.pos \in 1..(Len(NoJob.plan) + 1) /\ NoJob.got \subseteq 1..Len(NoJob.plan)
      BY NoJobTyped
    <2> QED
      BY <1>1, <1>2, <2>1 DEF BInv, SessionTypeOK
  <1>4. Turns'
    BY <1>1, NoJobTyped, Locked DEF BInv, Turns, Active
  <1>5. PageJob(c)' /\ RunJob(c)'
    BY <1>1, NoJobTyped DEF PageJob, RunJob, OnPage, OnRun
  <1>6. \A h \in Hosts : paid'[h] <= paidByHost'[h] + lost'[h] + Uncounted(NoJob, h)
    <2>1. \A h \in Hosts : Uncounted(NoJob, h) = 0
      BY NoJobTyped, NothingSent
    <2>2. \A h \in Hosts : paidByHost'[h] \in Nat /\ lost'[h] \in Nat
      BY <1>3 DEF SessionTypeOK
    <2> QED
      BY <2>1, <2>2
  <1>7. Tallied'
    BY <1>1, <1>3, <1>6, NoJobTyped, TallyKept
  <1> QED
    BY <1>1, <1>3, <1>4, <1>5, <1>7, StepKeeps

(* A call comes in: it joins the chain and does nothing before its turn.   *)
LEMMA CallKeeps ==
  ASSUME BInv, NEW c \in Calls, CallPay(c) \/ CallResearch(c)
  PROVE  BInv'
  <1>1. PICK new \in Job :
          /\ Become(c, new) /\ new.at \in {"pay", "research"} /\ new.spent = 0
          /\ new.at = "pay" => new.page \in Pages
          /\ new.pos = 1 /\ new.plan = <<>> /\ new.got = {}
    <2>1. ASSUME NEW p \in Pages, Become(c, [NoJob EXCEPT !.at = "pay", !.page = p])
          PROVE  \E new \in Job :
                   /\ Become(c, new) /\ new.at = "pay" /\ new.spent = 0 /\ new.page \in Pages
                   /\ new.pos = 1 /\ new.plan = <<>> /\ new.got = {}
      <3> DEFINE new == [NoJob EXCEPT !.at = "pay", !.page = p]
      <3>1. /\ new \in Job /\ new.at = "pay" /\ new.spent = 0 /\ new.page \in Pages
            /\ new.pos = 1 /\ new.plan = <<>> /\ new.got = {}
        BY NoJobTyped DEF Job, States
      <3> QED
        BY <2>1, <3>1
    <2>2. ASSUME NEW asked \in Budgets,
                 Become(c, [NoJob EXCEPT !.at = "research", !.budget = asked])
          PROVE  \E new \in Job :
                   /\ Become(c, new) /\ new.at = "research" /\ new.spent = 0
                   /\ new.pos = 1 /\ new.plan = <<>> /\ new.got = {}
      <3> DEFINE new == [NoJob EXCEPT !.at = "research", !.budget = asked]
      <3>1. /\ new \in Job /\ new.at = "research" /\ new.spent = 0
            /\ new.pos = 1 /\ new.plan = <<>> /\ new.got = {}
        BY NoJobTyped, BuyerAssumption DEF Job, States
      <3> QED
        BY <2>2, <3>1
    <2> QED
      BY <2>1, <2>2 DEF CallPay, CallResearch
  <1>2. /\ job[c].at = "idle" /\ made < MaxCalls /\ made' = made + 1
        /\ chain' = Append(chain, c) /\ UNCHANGED <<spent, paidByHost, discovered, paid, lost, held>>
    BY DEF CallPay, CallResearch, session
  <1>3. /\ job' \in [Calls -> Job] /\ job'[c] = new
        /\ \A d \in Calls : d # c => job'[d] = job[d]
    BY <1>1 DEF Become, BInv, SessionTypeOK
  <1>4. SessionTypeOK'
    <2>1. new.pos \in 1..(Len(new.plan) + 1) /\ new.got \subseteq 1..Len(new.plan)
      BY <1>1
    <2>2. made' \in 0..MaxCalls
      BY <1>2, BuyerAssumption DEF BInv, SessionTypeOK
    <2>3. chain' \in Seq(Calls)
      BY <1>2 DEF BInv, SessionTypeOK
    <2> QED
      BY <1>2, <1>3, <2>1, <2>2, <2>3 DEF BInv, SessionTypeOK
  <1>5. Turns'
    <2>1. \A d \in Calls : Active(d)' => Active(d)
      BY <1>1, <1>3 DEF Active
    <2>2. chain # <<>> => chain' # <<>> /\ Head(chain') = Head(chain)
      <3>1. chain \in Seq(Calls) /\ chain' = Append(chain, c)
        BY <1>2 DEF BInv, SessionTypeOK
      <3> QED
        BY <3>1
    <2> QED
      BY <2>1, <2>2 DEF BInv, Turns, Holds
  <1>6. SessionKept'
    BY <1>2 DEF BInv, SessionKept, Within
  <1>7. PageJob(c)' /\ RunJob(c)'
    BY <1>1, <1>3 DEF PageJob, RunJob, OnPage, OnRun
  <1>8. Tallied'
    <2>1. \A d \in Calls : Active(d)' <=> Active(d)
      BY <1>1, <1>2, <1>3 DEF Active
    <2>2. \A d \in Calls : Active(d) => d # c
      BY <1>2 DEF Active
    <2>3. \A d \in Calls : Active(d) => Tally(d)'
      BY <1>2, <1>3, <2>2 DEF BInv, Tallied, Tally
    <2> QED
      BY <1>2, <2>1, <2>3 DEF BInv, Tallied
  <1> QED
    BY <1>2, <1>3, <1>4, <1>5, <1>6, <1>7, <1>8, StepKeeps

-----------------------------------------------------------------------------
(* naulon_pay_and_read.                                                    *)

(* A call at its page that goes on without touching the session.           *)
LEMMA PageGoes ==
  ASSUME BInv, NEW c \in Calls, Holds(c), NEW new \in Job, Become(c, new),
         UNCHANGED <<session, held, chain, made>>, job[c].at \notin OnRun \cup {"sent"},
         new.at \notin OnRun \cup {"sent"}, new.spent = 0, new.pos = job[c].pos, new.plan = job[c].plan,
         new.got = job[c].got, job'[c] = new => PageJob(c)'
  PROVE  BInv'
  <1>1. new.pos \in 1..(Len(new.plan) + 1) /\ new.got \subseteq 1..Len(new.plan)
    BY DEF BInv, SessionTypeOK
  <1>2. SessionKept'
    BY DEF BInv, SessionKept, Within, session
  <1>3. ASSUME job'[c] = new PROVE RunJob(c)'
    <2>1. job[c].pos = 1 /\ job[c].got = {}
      BY DEF BInv, RunJob
    <2> QED
      BY <1>3, <2>1 DEF RunJob, OnRun
  <1>4. /\ UNCHANGED <<discovered, chain, made, spent, paidByHost, paid, lost, held>>
        /\ spent' \in Nat /\ {paidByHost, paid, lost}' \subseteq [Hosts -> Nat]
        /\ held' \subseteq Pages
    BY DEF BInv, SessionTypeOK, session
  <1>5. ASSUME NEW h \in Hosts PROVE Uncounted(new, h) = Uncounted(job[c], h)
    <2>1. job[c].got = {} /\ new.got = {} /\ job[c].at \notin {"sent", "bought"}
          /\ new.at \notin {"sent", "bought"}
      BY DEF BInv, RunJob, OnRun
    <2> QED
      BY <2>1, NothingSent
  <1>6. \A h \in Hosts : paid'[h] <= paidByHost'[h] + lost'[h] + Uncounted(new, h)
    BY <1>4, <1>5, HolderTally DEF Tally
  <1> QED
    BY <1>1, <1>2, <1>3, <1>4, <1>6, HolderMoves

(* A call that returns and leaves the session as it is.                    *)
LEMMA Gives ==
  ASSUME BInv, NEW c \in Calls, Holds(c), Return(c), UNCHANGED <<session, made>>,
         held' \subseteq Pages, job[c].at \notin OnRun \cup {"sent"}
  PROVE  BInv'
  <1>1. SessionKept'
    BY DEF BInv, SessionKept, Within, session
  <1>2. /\ UNCHANGED <<discovered, made, paidByHost, paid, lost>>
        /\ spent' \in Nat /\ {paidByHost, paid, lost}' \subseteq [Hosts -> Nat]
    BY DEF BInv, SessionTypeOK, session
  <1>3. ASSUME NEW h \in Hosts PROVE paid'[h] <= paidByHost'[h] + lost'[h]
    <2>1. job[c].got = {} /\ job[c].at \notin {"sent", "bought"}
      BY DEF BInv, RunJob, OnRun
    <2>2. Uncounted(job[c], h) = 0
      BY <2>1, NothingSent
    <2>3. paid[h] <= paidByHost[h] + lost[h] + 0
      BY <2>2, HolderTally DEF Tally
    <2>4. paidByHost[h] \in Nat /\ lost[h] \in Nat
      BY DEF BInv, SessionTypeOK
    <2> QED
      BY <1>2, <2>3, <2>4
  <1> QED
    BY <1>1, <1>2, <1>3, HolderReturns

(* A call that fails or throws takes what it had to count with it.         *)
LEMMA Fails ==
  ASSUME BInv, NEW c \in Calls, Holds(c), Return(c), LosesCount(c), UNCHANGED <<held, made>>
  PROVE  BInv'
  <1>1. UNCHANGED <<spent, paidByHost, discovered, paid>>
        /\ lost' = [h \in Hosts |-> lost[h] + Uncounted(job[c], h)]
    BY DEF LosesCount
  <1>2. SessionKept'
    BY <1>1 DEF BInv, SessionKept, Within
  <1>3. ASSUME NEW h \in Hosts
        PROVE  lost'[h] \in Nat /\ paid'[h] <= paidByHost'[h] + lost'[h]
    <2>1. Uncounted(job[c], h) \in Nat
      <3>1. Len(job[c].plan) \in Nat /\ job[c].got \subseteq 1..Len(job[c].plan)
        BY DEF BInv, SessionTypeOK, Job
      <3> QED
        BY <3>1, UncountedTyped
    <2>2. paid[h] <= paidByHost[h] + lost[h] + Uncounted(job[c], h)
      BY HolderTally DEF Tally
    <2>3. paidByHost[h] \in Nat /\ lost[h] \in Nat
      BY DEF BInv, SessionTypeOK
    <2>4. lost'[h] = lost[h] + Uncounted(job[c], h) /\ paid' = paid /\ paidByHost' = paidByHost
      BY <1>1
    <2> QED
      BY <2>1, <2>2, <2>3, <2>4
  <1>4. /\ spent' \in Nat /\ {paidByHost, paid, lost}' \subseteq [Hosts -> Nat]
        /\ held' \subseteq Pages
    <2>1. lost' \in [Hosts -> Nat]
      BY <1>1, <1>3
    <2> QED
      BY <1>1, <2>1 DEF BInv, SessionTypeOK
  <1> QED
    BY <1>1, <1>2, <1>3, <1>4, HolderReturns

(* The lock is held by whoever is past its turn.                           *)
LEMMA AtWork ==
  ASSUME BInv, NEW c \in Calls
  PROVE  /\ job[c] \in Job
         /\ Active(c) => Holds(c)
         /\ job[c].at \notin OnRun => job[c].spent = 0
         /\ job[c].at \in OnPage => job[c].page \in Pages
  BY DEF BInv, SessionTypeOK, Turns, RunJob, PageJob

LEMMA BeginPayKeeps == ASSUME BInv, NEW c \in Calls, BeginPay(c) PROVE BInv'
  <1>0. /\ job[c].at = "pay" /\ Holds(c) /\ UNCHANGED <<session, held, made>>
        /\ job[c] \in Job /\ job[c].spent = 0 /\ job[c].page \in Pages /\ held \subseteq Pages
        /\ job[c].at \notin OnRun \cup {"sent"}
    BY AtWork DEF BeginPay, OnRun, OnPage, BInv, SessionTypeOK
  <1>1. CASE Return(c)
    BY <1>0, <1>1, Gives
  <1>2. ASSUME NEW seen \in {held, {}}, chain' = chain,
               Become(c, [job[c] EXCEPT !.seen = seen,
                            !.at = IF job[c].page \in seen \ Bound THEN "present" ELSE "period"])
        PROVE  BInv'
    <2> DEFINE new == [job[c] EXCEPT !.seen = seen,
                         !.at = IF job[c].page \in seen \ Bound THEN "present" ELSE "period"]
    <2>1. /\ new \in Job /\ new.spent = 0 /\ new.pos = job[c].pos /\ new.plan = job[c].plan
          /\ new.got = job[c].got /\ new.page = job[c].page /\ new.seen = seen
          /\ new.at = (IF job[c].page \in seen \ Bound THEN "present" ELSE "period")
      BY <1>0 DEF Job, States
    <2>2. Become(c, new)
      BY <1>2
    <2> HIDE DEF new
    <2>3. ASSUME job'[c] = new PROVE PageJob(c)'
      BY <1>0, <2>1, <2>3 DEF PageJob
    <2>4. new.at \notin OnRun \cup {"sent"}
      BY <2>1 DEF OnRun
    <2> QED
      BY <1>0, <1>2, <2>1, <2>2, <2>3, <2>4, PageGoes
  <1> QED
    BY <1>1, <1>2 DEF BeginPay

(* A call past its licence that asks or quotes, and no more.               *)
LEMMA PageMoves ==
  ASSUME BInv, NEW c \in Calls, Refused(c) \/ AskPeriod(c) \/ Quote(c)
  PROVE  BInv'
  <1>0. /\ Holds(c) /\ UNCHANGED <<session, held, made>>
        /\ job[c] \in Job /\ job[c].spent = 0 /\ job[c].page \in Pages /\ PageJob(c)
        /\ job[c].at \notin OnRun \cup {"sent"}
    <2>1. job[c].at \in {"present", "period", "probe"} /\ UNCHANGED <<session, held, made>>
      BY DEF Refused, AskPeriod, Quote
    <2> QED
      BY <2>1, AtWork DEF Active, OnRun, OnPage, BInv
  <1>1. CASE Return(c)
    BY <1>0, <1>1, Gives DEF BInv, SessionTypeOK
  <1>2. CASE Refused(c)
    <2>1. PICK how \in {"refused", "cut"} :
            Become(c, [job[c] EXCEPT !.presented = how, !.at = "period"]) /\ chain' = chain
      BY <1>2 DEF Refused
    <2> DEFINE new == [job[c] EXCEPT !.presented = how, !.at = "period"]
    <2>2. /\ new \in Job /\ new.spent = 0 /\ new.pos = job[c].pos /\ new.plan = job[c].plan
          /\ new.got = job[c].got /\ new.page = job[c].page /\ new.at = "period"
          /\ new.presented # "no"
      BY <1>0 DEF Job, States
    <2>3. Become(c, new)
      BY <2>1
    <2> HIDE DEF new
    <2>4. ASSUME job'[c] = new PROVE PageJob(c)'
      BY <1>0, <2>2, <2>4 DEF PageJob
    <2> QED
      BY <1>0, <2>1, <2>2, <2>3, <2>4, PageGoes DEF OnRun
  <1>3. CASE AskPeriod(c) /\ ~Return(c)
    <2> DEFINE new == [job[c] EXCEPT !.at = "probe"]
    <2>1. Become(c, new) /\ chain' = chain /\ job[c].at = "period"
      BY <1>3 DEF AskPeriod
    <2>2. /\ new \in Job /\ new.spent = 0 /\ new.pos = job[c].pos /\ new.plan = job[c].plan
          /\ new.got = job[c].got /\ new.page = job[c].page /\ new.at = "probe"
          /\ new.presented = job[c].presented /\ new.seen = job[c].seen
      BY <1>0 DEF Job, States
    <2> HIDE DEF new
    <2>3. ASSUME job'[c] = new PROVE PageJob(c)'
      BY <1>0, <2>1, <2>2, <2>3 DEF PageJob
    <2> QED
      BY <1>0, <2>1, <2>2, <2>3, PageGoes DEF OnRun
  <1>4. CASE Quote(c) /\ ~Return(c)
    <2>1. PICK t \in Tolls :
            /\ SpendGate(job[c].page, t.total, paidByHost[HostOf[job[c].page]], Remaining)
            /\ Become(c, [job[c] EXCEPT !.at = "fetch", !.quote = t.total,
                                        !.ceiling = Authorized(t.total)])
            /\ chain' = chain /\ job[c].at = "probe"
      BY <1>4 DEF Quote
    <2> DEFINE new == [job[c] EXCEPT !.at = "fetch", !.quote = t.total,
                                     !.ceiling = Authorized(t.total)]
    <2>2. t.total \in Totals /\ t.total \in Nat /\ Authorized(t.total) \in Nat
      BY QuotesTyped DEF Totals
    <2>3. /\ new \in Job /\ new.spent = 0 /\ new.pos = job[c].pos /\ new.plan = job[c].plan
          /\ new.got = job[c].got /\ new.page = job[c].page /\ new.at = "fetch"
          /\ new.presented = job[c].presented /\ new.seen = job[c].seen
          /\ new.quote = t.total /\ new.ceiling = Authorized(t.total)
      BY <1>0, <2>2 DEF Job, States, Spending
    <2>4. Become(c, new)
      BY <2>1
    <2> HIDE DEF new
    <2>5. ASSUME job'[c] = new PROVE PageJob(c)'
      <3>1. UNCHANGED <<spent, paidByHost>> /\ Remaining' = Remaining
        BY <1>0 DEF session, Remaining
      <3> QED
        BY <1>0, <2>1, <2>2, <2>3, <2>5, <3>1 DEF PageJob, SpendGate
    <2> QED
      BY <1>0, <2>1, <2>3, <2>4, <2>5, PageGoes DEF OnRun
  <1> QED
    BY <1>1, <1>2, <1>3, <1>4

(* A payment is signed for no more than the ceiling, and counted as sent.  *)
LEMMA SendKeeps == ASSUME BInv, NEW c \in Calls, Send(c) PROVE BInv'
  <1> DEFINE h == HostOf[job[c].page]
  <1>1. PICK t \in Tolls :
          /\ t.total <= job[c].ceiling
          /\ Become(c, [job[c] EXCEPT !.at = "sent", !.due = t.total])
    BY DEF Send
  <1> DEFINE new == [job[c] EXCEPT !.at = "sent", !.due = t.total]
  <1>2. /\ job[c].at = "fetch" /\ paid' = [paid EXCEPT ![h] = @ + 1]
        /\ UNCHANGED <<spent, paidByHost, discovered, lost, held, chain, made>>
    BY DEF Send, PaysOneMore
  <1>3. /\ Holds(c) /\ job[c] \in Job /\ job[c].spent = 0 /\ job[c].page \in Pages /\ PageJob(c)
        /\ job[c].pos = 1 /\ job[c].got = {} /\ h \in Hosts
    BY <1>2, AtWork, BuyerAssumption DEF Active, OnRun, OnPage, BInv, RunJob
  <1>4. t.total \in Nat
    BY BuyerAssumption
  <1>5. /\ new \in Job /\ new.spent = 0 /\ new.pos = job[c].pos /\ new.plan = job[c].plan
        /\ new.got = {} /\ new.page = job[c].page /\ new.at = "sent"
        /\ new.presented = job[c].presented /\ new.seen = job[c].seen
        /\ new.quote = job[c].quote /\ new.ceiling = job[c].ceiling /\ new.due = t.total
    BY <1>3, <1>4 DEF Job, States, Spending
  <1>6. Become(c, new)
    BY <1>1
  <1> HIDE DEF new, h
  <1>7. ASSUME job'[c] = new PROVE PageJob(c)' /\ RunJob(c)'
    <2>1. Remaining' = Remaining
      BY <1>2 DEF Remaining
    <2>2. PageJob(c)'
      BY <1>1, <1>2, <1>3, <1>5, <1>7, <2>1 DEF PageJob
    <2>3. RunJob(c)'
      BY <1>3, <1>5, <1>7 DEF RunJob, OnRun
    <2> QED
      BY <2>2, <2>3
  <1>8. /\ spent' \in Nat /\ {paidByHost, paid, lost}' \subseteq [Hosts -> Nat]
        /\ held' \subseteq Pages /\ SessionKept'
        /\ new.pos \in 1..(Len(new.plan) + 1) /\ new.got \subseteq 1..Len(new.plan)
    <2>1. paid' \in [Hosts -> Nat]
      BY <1>2, <1>3 DEF BInv, SessionTypeOK
    <2>2. SessionKept'
      BY <1>2 DEF BInv, SessionKept, Within
    <2> QED
      BY <1>2, <1>5, <2>1, <2>2 DEF BInv, SessionTypeOK
  <1>9. ASSUME NEW k \in Hosts PROVE paid'[k] <= paidByHost'[k] + lost'[k] + Uncounted(new, k)
    <2>1. Uncounted(job[c], k) = 0
      BY <1>2, <1>3, NothingSent
    <2>2. Uncounted(new, k) = IF h = k THEN 1 ELSE 0
      BY <1>5, NothingSent DEF h
    <2>3. paid[k] <= paidByHost[k] + lost[k] + 0
      BY <1>3, <2>1, HolderTally DEF Tally
    <2>4. /\ paid[k] \in Nat /\ paidByHost[k] \in Nat /\ lost[k] \in Nat
          /\ paid'[k] = IF h = k THEN paid[k] + 1 ELSE paid[k]
      BY <1>2, <1>3 DEF BInv, SessionTypeOK
    <2> QED
      BY <1>2, <2>2, <2>3, <2>4
  <1> QED
    BY <1>2, <1>3, <1>5, <1>6, <1>7, <1>8, <1>9, HolderMoves

(* A call that ends with its page.                                         *)
LEMMA PageEnds ==
  ASSUME BInv, NEW c \in Calls, Served(c) \/ Keep(c)
  PROVE  BInv'
  <1>0. Holds(c) /\ Return(c) /\ UNCHANGED <<session, made>> /\ job[c].at \notin OnRun \cup {"sent"}
    <2>1. job[c].at \in {"present", "keep"} /\ Return(c) /\ UNCHANGED <<session, made>>
      BY DEF Served, Keep
    <2> QED
      BY <2>1, AtWork DEF Active, OnRun
  <1>1. held' \subseteq Pages
    <2>1. CASE Served(c)
      BY <2>1 DEF Served, BInv, SessionTypeOK
    <2>2. CASE Keep(c)
      <3>1. job[c].page \in Pages
        BY <2>2, AtWork DEF Keep, OnPage
      <3> QED
        BY <2>2, <3>1 DEF Keep, BInv, SessionTypeOK
    <2> QED
      BY <2>1, <2>2
  <1> QED
    BY <1>0, <1>1, Gives

LEMMA FetchFailsKeeps == ASSUME BInv, NEW c \in Calls, FetchFails(c) PROVE BInv'
  <1>1. /\ job[c].at \in {"fetch", "sent"} /\ Return(c) /\ LosesCount(c) /\ UNCHANGED <<held, made>>
    BY DEF FetchFails
  <1>2. Holds(c)
    BY <1>1, AtWork DEF Active
  <1> QED
    BY <1>1, <1>2, Fails

(* The debit: what was signed for fits, and the host had a read left.      *)
LEMMA DeliveredKeeps == ASSUME BInv, NEW c \in Calls, Delivered(c) PROVE BInv'
  <1> DEFINE p == job[c].page
             h == HostOf[p]
             new == [job[c] EXCEPT !.at = "keep", !.due = 0]
  <1>0. /\ job[c].at = "sent" /\ Holds(c) /\ job[c] \in Job /\ job[c].spent = 0
        /\ p \in Pages /\ h \in Hosts /\ PageJob(c) /\ job[c].pos = 1 /\ job[c].got = {}
    <2>1. job[c].at = "sent"
      BY DEF Delivered
    <2> QED
      BY <2>1, AtWork, BuyerAssumption DEF Active, OnRun, OnPage, BInv, RunJob
  <1>1. /\ new \in Job /\ new.spent = 0 /\ new.pos = job[c].pos /\ new.plan = job[c].plan
        /\ new.got = job[c].got /\ new.page = job[c].page /\ new.at = "keep"
    BY <1>0 DEF Job, States
  <1>2. /\ Become(c, new) /\ spent' = spent + job[c].due
        /\ paidByHost' = [paidByHost EXCEPT ![h] = @ + 1]
        /\ UNCHANGED <<discovered, paid, lost, held, chain, made>>
    BY DEF Delivered
  <1>3. job[c].due \in Nat /\ spent \in Nat /\ paidByHost \in [Hosts -> Nat] /\ Cap \in Nat
    BY <1>0, BuyerAssumption DEF Job, BInv, SessionTypeOK
  <1>4. /\ job[c].quote \in Totals /\ job[c].quote <= Remaining
        /\ job[c].due <= Authorized(job[c].quote) /\ paidByHost[h] < Cap
    BY <1>0 DEF PageJob
  <1> HIDE DEF new, h, p
  <1>5. Within(spent')
    BY <1>2, <1>3, <1>4, FitsAuthorized DEF BInv, SessionKept
  <1>6. /\ spent' \in Nat /\ {paidByHost, paid, lost}' \subseteq [Hosts -> Nat]
        /\ held' \subseteq Pages /\ \A k \in Hosts : paidByHost'[k] <= Cap
    <2>1. paidByHost' \in [Hosts -> Nat] /\ \A k \in Hosts : paidByHost'[k] <= Cap
      BY <1>0, <1>2, <1>3, <1>4 DEF BInv, SessionKept
    <2> QED
      BY <1>2, <1>3, <2>1 DEF BInv, SessionTypeOK
  <1>7. SessionKept'
    BY <1>5, <1>6 DEF SessionKept, Within
  <1>8. new.pos \in 1..(Len(new.plan) + 1) /\ new.got \subseteq 1..Len(new.plan)
    BY <1>1 DEF BInv, SessionTypeOK
  <1>9. ASSUME job'[c] = new PROVE PageJob(c)' /\ RunJob(c)'
    BY <1>0, <1>1, <1>9 DEF PageJob, RunJob, OnRun, p
  <1>10. ASSUME NEW k \in Hosts PROVE paid'[k] <= paidByHost'[k] + lost'[k] + Uncounted(new, k)
    <2>1. Uncounted(new, k) = 0
      BY <1>0, <1>1, NothingSent
    <2>2. Uncounted(job[c], k) = IF h = k THEN 1 ELSE 0
      BY <1>0, NothingSent DEF h, p
    <2>3. paid[k] <= paidByHost[k] + lost[k] + Uncounted(job[c], k)
      BY <1>0, HolderTally DEF Tally
    <2>4. /\ paid[k] \in Nat /\ paidByHost[k] \in Nat /\ lost[k] \in Nat
          /\ paidByHost'[k] = IF h = k THEN paidByHost[k] + 1 ELSE paidByHost[k]
      BY <1>0, <1>2 DEF BInv, SessionTypeOK
    <2> QED
      BY <1>2, <2>1, <2>2, <2>3, <2>4
  <1> QED
    BY <1>0, <1>1, <1>2, <1>6, <1>7, <1>8, <1>9, <1>10, HolderMoves

-----------------------------------------------------------------------------
(* naulon_research.                                                        *)

(* A run that goes on without touching what the session has spent.         *)
LEMMA RunGoes ==
  ASSUME BInv, NEW c \in Calls, Holds(c), NEW new \in Job, Become(c, new),
         UNCHANGED <<spent, paidByHost, discovered, chain, made>>,
         {paid, lost}' \subseteq [Hosts -> Nat], held' \subseteq Pages, new.at \in OnRun,
         new.pos \in 1..(Len(new.plan) + 1), new.got \subseteq 1..Len(new.plan),
         \A h \in Hosts : paid'[h] <= paidByHost[h] + lost'[h] + Uncounted(new, h),
         job'[c] = new => RunJob(c)'
  PROVE  BInv'
  <1>1. SessionKept'
    BY DEF BInv, SessionKept, Within
  <1>2. ASSUME job'[c] = new PROVE PageJob(c)'
    BY <1>2 DEF PageJob, OnRun, OnPage
  <1>3. spent' \in Nat /\ {paidByHost, paid, lost}' \subseteq [Hosts -> Nat]
    BY DEF BInv, SessionTypeOK
  <1>4. \A h \in Hosts : paid'[h] <= paidByHost'[h] + lost'[h] + Uncounted(new, h)
    OBVIOUS
  <1> QED
    BY <1>1, <1>2, <1>3, <1>4, HolderMoves

(* Nor what it has paid for and not counted.                               *)
LEMMA RunStays ==
  ASSUME BInv, NEW c \in Calls, Holds(c), NEW new \in Job, Become(c, new),
         UNCHANGED <<session, chain, made>>, held' \subseteq Pages, new.at \in OnRun,
         new.pos \in 1..(Len(new.plan) + 1), new.got \subseteq 1..Len(new.plan),
         \A h \in Hosts : Uncounted(new, h) = Uncounted(job[c], h),
         job'[c] = new => RunJob(c)'
  PROVE  BInv'
  <1>1. /\ UNCHANGED <<spent, paidByHost, discovered, paid, lost, chain, made>>
        /\ {paid, lost}' \subseteq [Hosts -> Nat]
    BY DEF BInv, SessionTypeOK, session
  <1>2. \A h \in Hosts : paid'[h] <= paidByHost[h] + lost'[h] + Uncounted(new, h)
    BY <1>1, HolderTally DEF Tally
  <1> QED
    BY <1>1, <1>2, RunGoes

(* What the session has left, and has read of each host, as before.        *)
LEMMA RunKeeps ==
  ASSUME BInv, NEW c \in Calls, job[c].at \in OnRun, UNCHANGED <<spent, paidByHost>>
  PROVE  /\ Holds(c) /\ job[c] \in Job /\ Planful(c) /\ held \subseteq job[c].seen
         /\ Remaining' = Remaining /\ paidByHost' = paidByHost
         /\ job[c].budget <= Remaining /\ job[c].spent <= job[c].budget
         /\ job[c].plan \in Seq(Decisions) /\ job[c].pos \in Nat
         /\ job[c].spent \in Nat /\ job[c].budget \in Nat /\ job[c].due \in Nat
         /\ DOMAIN job[c].plan = 1..Len(job[c].plan) /\ Len(job[c].plan) \in Nat
         /\ job[c].seen \subseteq Pages /\ held \subseteq Pages
         /\ job[c].pos \in 1..(Len(job[c].plan) + 1) /\ job[c].got \subseteq 1..Len(job[c].plan)
         /\ job[c].at = "bought" => job[c].pos \in Pays(job[c].plan)
         /\ job[c].got \subseteq 1..(job[c].pos - 1)
  <1>1. RunJob(c) /\ job[c] \in Job /\ job[c].at \in OnRun
    BY DEF BInv, SessionTypeOK
  <1>2. Holds(c)
    BY <1>1, AtWork DEF Active, OnRun
  <1>3. job[c].plan \in Seq(Decisions) /\ job[c].pos \in Nat /\ job[c].seen \subseteq Pages
        /\ job[c].spent \in Nat /\ job[c].budget \in Nat /\ job[c].due \in Nat
    BY <1>1 DEF Job
  <1>4. DOMAIN job[c].plan = 1..Len(job[c].plan) /\ Len(job[c].plan) \in Nat
    BY <1>3
  <1>5. Remaining' = Remaining /\ paidByHost' = paidByHost
    BY DEF Remaining
  <1>6. /\ job[c].pos \in 1..(Len(job[c].plan) + 1) /\ job[c].got \subseteq 1..Len(job[c].plan)
        /\ held \subseteq Pages
    BY DEF BInv, SessionTypeOK
  <1>7. /\ Planful(c) /\ held \subseteq job[c].seen
        /\ job[c].budget <= Remaining /\ job[c].spent <= job[c].budget
        /\ job[c].at = "bought" => job[c].pos \in Pays(job[c].plan)
        /\ job[c].got \subseteq 1..(job[c].pos - 1)
    BY <1>1 DEF RunJob
  <1> QED
    BY <1>1, <1>2, <1>3, <1>4, <1>5, <1>6, <1>7

(* A nonempty set of places in a list has a last one.                      *)
LEMMA LastPlace ==
  ASSUME NEW n \in Nat, NEW S, S \subseteq 1..n, S # {}
  PROVE  \E m \in S : \A i \in S : i <= m
  <1> DEFINE T == {n - i : i \in S}
             R == OpToRel(<, Nat)
  <1>1. T \subseteq Nat /\ T # {}
    <2>1. \A i \in S : n - i \in Nat
      OBVIOUS
    <2> QED
      BY <2>1
  <1>2. \E x \in T : \A y \in T : ~(<<y, x>> \in R)
    <2>1. IsWellFoundedOn(R, Nat)
      BY NatLessThanWellFounded
    <2> HIDE DEF T, R
    <2> QED
      BY <1>1, <2>1, WFMin
  <1>3. PICK m \in S : \A y \in T : ~(<<y, n - m>> \in R)
    BY <1>2
  <1>4. ASSUME NEW i \in S PROVE i <= m
    <2>1. n - i \in T /\ n - i \in Nat /\ n - m \in Nat /\ i \in Int /\ m \in Int
      BY <1>1
    <2>2. ~(<<n - i, n - m>> \in R)
      BY <1>3, <2>1
    <2>3. ~(n - i < n - m)
      BY <2>1, <2>2 DEF OpToRel
    <2> QED
      BY <2>1, <2>3
  <1> QED
    BY <1>4

(* The candidates of a list: pages of the session, quoted what tolls are,  *)
(* and each what a page of its slug was.                                   *)
LEMMA ListingsTyped ==
  ASSUME NEW list \in Listings
  PROVE  \E n \in Nat :
           /\ DOMAIN list = 1..n
           /\ \A i \in 1..n : /\ list[i].page \in Pages /\ list[i].quoted \subseteq Totals
                              /\ list[i].quote \in list[i].quoted
  <1>1. PICK n \in Nat : list \in ListingsOf(n)
    BY BuyerAssumption DEF Listings
  <1> DEFINE I == 1..n
  <1>2. PICK ps \in [I -> Pages] :
          list \in {Listing(ps, ts, wanted, last) :
                      ts \in [I -> Tolls], wanted \in SUBSET I, last \in PricedLast(ps)}
    BY <1>1 DEF ListingsOf
  <1>3. PICK ts \in [I -> Tolls], wanted \in SUBSET I, last \in PricedLast(ps) :
          list = Listing(ps, ts, wanted, last)
    BY <1>2
  <1>4. DOMAIN ps = I /\ last \in [I -> I] /\ \A i \in I : SlugOf[ps[last[i]]] = SlugOf[ps[i]]
    BY DEF PricedLast
  <1>5. ASSUME NEW i \in I
        PROVE  /\ list[i].page \in Pages /\ list[i].quoted \subseteq Totals
               /\ list[i].quote \in list[i].quoted
    <2>1. /\ list[i].page = ps[i] /\ list[i].quote = ts[last[i]].total
          /\ list[i].quoted = {ts[j].total : j \in {k \in I : SlugOf[ps[k]] = SlugOf[ps[i]]}}
      BY <1>3, <1>4 DEF Listing
    <2>2. \A j \in I : ts[j].total \in Totals
      BY DEF Totals
    <2>3. last[i] \in {k \in I : SlugOf[ps[k]] = SlugOf[ps[i]]}
      BY <1>4
    <2> QED
      BY <1>4, <2>1, <2>2, <2>3
  <1>6. DOMAIN list = I
    BY <1>3, <1>4 DEF Listing
  <1> QED
    BY <1>5, <1>6

(* A plan takes what the session has left of the cap, and nothing held.    *)
LEMMA TakenFits ==
  ASSUME BInv, NEW list, NEW n \in Nat, DOMAIN list = 1..n, NEW licensed, NEW budget,
         NEW taken \in Decide(list, licensed, budget), NEW h \in Hosts
  PROVE  paidByHost[h] + Cardinality({i \in taken : HostOf[list[i].page] = h}) <= Cap
  <1> DEFINE S == {i \in taken : HostOf[list[i].page] = h}
  <1>0. Cap \in Nat /\ paidByHost[h] \in Nat /\ paidByHost[h] <= Cap
    <2>1. Cap \in Nat
      BY BuyerAssumption
    <2>2. paidByHost \in [Hosts -> Nat] /\ paidByHost[h] <= Cap
      BY DEF BInv, SessionTypeOK, SessionKept
    <2> QED
      BY <2>1, <2>2
  <1>1. S \subseteq 1..n /\ taken \subseteq 1..n
    BY DEF Decide
  <1>2. IsFiniteSet(S) /\ Cardinality(S) \in Nat
    <2>1. IsFiniteSet(1..n)
      BY FS_Interval
    <2>2. IsFiniteSet(S)
      BY <1>1, <2>1, FS_Subset
    <2> QED
      BY <2>2, FS_CardinalityType
  <1>3. CASE S = {}
    <2>1. Cardinality(S) = 0
      BY <1>3, FS_EmptySet
    <2> HIDE DEF S
    <2> QED
      BY <1>0, <2>1 DEF S
  <1>4. CASE S # {}
    <2>1. PICK m \in S : \A i \in S : i <= m
      BY <1>1, <1>4, LastPlace
    <2> DEFINE there == {j \in {k \in taken : k < m} : HostOf[list[j].page] = HostOf[list[m].page]}
    <2>2. Takes(list, licensed, budget, taken, m) /\ HostOf[list[m].page] = h
      BY <1>1 DEF Decide
    <2>3. paidByHost[h] + Cardinality(there) < Cap
      BY <2>2 DEF Takes, SpendGate
    <2>4. there = S \ {m}
      BY <1>1, <2>1, <2>2
    <2>5. Cardinality(S \ {m}) = Cardinality(S) - 1
      BY <1>2, FS_RemoveElement
    <2>6. paidByHost[h] + (Cardinality(S) - 1) < Cap
      BY <2>3, <2>4, <2>5
    <2> HIDE DEF there, S
    <2>7. paidByHost[h] + Cardinality(S) <= Cap
      BY <1>0, <1>2, <2>6
    <2> QED
      BY <2>7 DEF S
  <1> QED
    BY <1>3, <1>4

LEMMA PlanKeeps == ASSUME BInv, NEW c \in Calls, Plan(c) PROVE BInv'
  <1>0. /\ job[c].at = "research" /\ Holds(c) /\ UNCHANGED <<session, held, chain, made>>
        /\ job[c] \in Job /\ job[c].spent = 0 /\ job[c].pos = 1 /\ job[c].got = {}
        /\ UNCHANGED session /\ held \subseteq Pages
    BY DEF Plan, BInv, RunJob, OnRun, SessionTypeOK
  <1>1. PICK list \in Listings :
          \E taken \in Decide(list, Slugs(PagesOf(list) \cap held), Least(job[c].budget, Remaining)) :
            Become(c, [job[c] EXCEPT !.at = "obtain", !.budget = Least(job[c].budget, Remaining),
                         !.seen = held,
                         !.plan = [i \in DOMAIN list |->
                           IF i \in taken
                           THEN [page |-> list[i].page, act |-> "pay", quoted |-> list[i].quoted,
                                 quote |-> list[i].quote]
                           ELSE [page |-> list[i].page, quoted |-> {}, quote |-> 0,
                                 act |-> IF SlugOf[list[i].page] \in Slugs(PagesOf(list) \cap held)
                                         THEN "cache" ELSE "skip"]]])
    BY DEF Plan
  <1> DEFINE budget == Least(job[c].budget, Remaining)
             licensed == Slugs(PagesOf(list) \cap held)
  <1>2. PICK taken \in Decide(list, licensed, budget) :
          Become(c, [job[c] EXCEPT !.at = "obtain", !.budget = budget, !.seen = held,
                       !.plan = [i \in DOMAIN list |->
                         IF i \in taken
                         THEN [page |-> list[i].page, act |-> "pay", quoted |-> list[i].quoted,
                               quote |-> list[i].quote]
                         ELSE [page |-> list[i].page, quoted |-> {}, quote |-> 0,
                               act |-> IF SlugOf[list[i].page] \in licensed THEN "cache" ELSE "skip"]]])
    BY <1>1
  <1> DEFINE Decision(i) ==
               IF i \in taken
               THEN [page |-> list[i].page, act |-> "pay", quoted |-> list[i].quoted,
                     quote |-> list[i].quote]
               ELSE [page |-> list[i].page, quoted |-> {}, quote |-> 0,
                     act |-> IF SlugOf[list[i].page] \in licensed THEN "cache" ELSE "skip"]
             plan == [i \in DOMAIN list |-> Decision(i)]
             new == [job[c] EXCEPT !.at = "obtain", !.budget = budget, !.seen = held, !.plan = plan]
  <1>3. PICK n \in Nat :
          /\ DOMAIN list = 1..n
          /\ \A i \in 1..n : /\ list[i].page \in Pages /\ list[i].quoted \subseteq Totals
                             /\ list[i].quote \in list[i].quoted
    BY ListingsTyped
  <1>4. taken \subseteq 1..n /\ DOMAIN plan = 1..n
    BY <1>3 DEF Decide
  <1>5. \A i \in 1..n : /\ plan[i].page = list[i].page
                        /\ i \in taken <=> plan[i].act = "pay"
                        /\ i \in taken => /\ plan[i].quote = list[i].quote
                                         /\ plan[i].quoted = list[i].quoted
    BY <1>3
  <1>6. plan \in [1..n -> Decisions]
    <2>1. ASSUME NEW i \in 1..n PROVE Decision(i) \in Decisions
      <3>1. /\ list[i].page \in Pages /\ list[i].quote \in Nat /\ list[i].quoted \subseteq Nat
        BY <1>3, QuotesTyped
      <3> QED
        BY <3>1 DEF Decisions, Acts
    <2> HIDE DEF Decision
    <2> QED
      BY <1>3, <2>1
  <1>7. ASSUME NEW i \in taken PROVE list[i].page \notin held
    <2>0. i \in DOMAIN list
      BY <1>3, <1>4
    <2>1. Takes(list, licensed, budget, taken, i)
      BY <2>0 DEF Decide
    <2>2. SlugOf[list[i].page] \notin licensed
      BY <2>1 DEF Takes
    <2>3. list[i].page \in PagesOf(list)
      BY <2>0 DEF PagesOf
    <2> QED
      BY <2>2, <2>3 DEF Slugs
  <1>8. budget \in Nat /\ budget <= Remaining
    <2>1. job[c].budget \in Nat
      BY <1>0 DEF Job
    <2>2. Remaining \in Nat
      BY BuyerAssumption DEF Remaining, BInv, SessionTypeOK
    <2> QED
      BY <2>1, <2>2 DEF Least
  <1> HIDE DEF budget, plan, licensed
  <1>9. plan \in Seq(Decisions) /\ Len(plan) = n
    <2>1. plan \in Seq(Decisions)
      BY <1>6
    <2> QED
      BY <1>4, <2>1, LenProperties
  <1>10. /\ new \in Job /\ new.at = "obtain" /\ new.spent = 0 /\ new.pos = 1 /\ new.got = {}
         /\ new.plan = plan /\ new.budget = budget /\ new.seen = held
    <2>1. new.plan = plan /\ new.budget = budget /\ new.seen = held /\ new.at = "obtain"
      BY <1>0 DEF Job
    <2>2. new.spent = 0 /\ new.pos = 1 /\ new.got = {}
      BY <1>0
    <2>3. new \in Job
      BY <1>0, <1>8, <1>9 DEF Job, States
    <2> QED
      BY <2>1, <2>2, <2>3
  <1>11. Become(c, new)
    BY <1>2 DEF plan
  <1> HIDE DEF new
  <1>12. new.pos \in 1..(Len(new.plan) + 1) /\ new.got \subseteq 1..Len(new.plan)
    BY <1>9, <1>10
  <1>13. Pays(plan) = taken
    BY <1>4, <1>5 DEF Pays
  <1>14. ASSUME job'[c] = new PROVE RunJob(c)'
    <2>1. Remaining' = Remaining /\ paidByHost' = paidByHost /\ held' = held
      BY <1>0 DEF session, Remaining
    <2>2. ASSUME NEW h \in Hosts
          PROVE  paidByHost[h] + Cardinality(PaysTo(plan, h)) <= Cap
      <3>1. \A i \in taken : plan[i].page = list[i].page
        BY <1>4, <1>5
      <3>2. PaysTo(plan, h) = {i \in taken : HostOf[list[i].page] = h}
        BY <1>13, <3>1 DEF PaysTo
      <3>3. DOMAIN list = 1..n
        BY <1>3
      <3>4. paidByHost[h] + Cardinality({i \in taken : HostOf[list[i].page] = h}) <= Cap
        BY <3>3, TakenFits
      <3> QED
        BY <3>2, <3>4
    <2>3. \A i \in Pays(plan) : /\ plan[i].quote \in plan[i].quoted /\ plan[i].quoted \subseteq Totals
                                /\ plan[i].page \notin held
      BY <1>3, <1>4, <1>5, <1>7, <1>13
    <2>4. Planful(c)'
      BY <1>10, <1>14, <2>1, <2>2, <2>3 DEF Planful
    <2> QED
      BY <1>8, <1>10, <1>14, <2>1, <2>4 DEF RunJob, OnRun
  <1>15. \A h \in Hosts : Uncounted(new, h) = Uncounted(job[c], h)
    BY <1>0, <1>10, NothingSent
  <1> QED
    BY <1>0, <1>10, <1>11, <1>12, <1>14, <1>15, RunStays DEF OnRun

(* A plan fits while its call has got and kept as much.                    *)
LEMMA PlanGoes ==
  ASSUME NEW c \in Calls, Planful(c), paidByHost' = paidByHost,
         job'[c].plan = job[c].plan, job'[c].seen = job[c].seen,
         job[c].got \subseteq job'[c].got
  PROVE  Planful(c)'
  BY DEF Planful

LEMMA SkipKeeps == ASSUME BInv, NEW c \in Calls, Skip(c) PROVE BInv'
  <1> DEFINE new == [job[c] EXCEPT !.pos = @ + 1]
  <1>0. /\ job[c].at = "obtain" /\ job[c].at \in OnRun /\ UNCHANGED <<session, held, chain, made>>
        /\ Become(c, new) /\ job[c].pos <= Len(job[c].plan)
    BY DEF Skip, HasEntry, OnRun
  <1>1. UNCHANGED <<spent, paidByHost>>
    BY <1>0 DEF session
  <1>r. job[c] \in Job /\ job[c].pos \in Nat /\ job[c].pos + 1 \in Nat
    BY <1>0, <1>1, RunKeeps
  <1>k. /\ held \subseteq job[c].seen /\ Remaining' = Remaining
        /\ job[c].budget <= Remaining /\ job[c].spent <= job[c].budget
        /\ job[c].got \subseteq 1..(job[c].pos - 1)
    BY <1>0, <1>1, RunKeeps
  <1>3. /\ new \in Job /\ new.at = "obtain" /\ new.pos = job[c].pos + 1 /\ new.got = job[c].got
        /\ new.plan = job[c].plan /\ new.seen = job[c].seen
        /\ new.spent = job[c].spent /\ new.budget = job[c].budget
    BY <1>0, <1>r DEF Job, States
  <1> HIDE DEF new
  <1>4. new.pos \in 1..(Len(new.plan) + 1) /\ new.got \subseteq 1..Len(new.plan)
    BY <1>0, <1>1, <1>3, RunKeeps
  <1>5. ASSUME job'[c] = new PROVE RunJob(c)'
    <2>0. Planful(c) /\ paidByHost' = paidByHost
      BY <1>0, <1>1, RunKeeps
    <2>1. Planful(c)'
      BY <1>3, <1>5, <2>0, PlanGoes
    <2>2. job'[c].got \subseteq 1..(job'[c].pos - 1)
      BY <1>3, <1>5, <1>k, <1>r
    <2> QED
      BY <1>0, <1>3, <1>5, <1>k, <2>1, <2>2 DEF RunJob, OnRun
  <1>6. \A h \in Hosts : Uncounted(new, h) = Uncounted(job[c], h)
    <2>1. \A h \in Hosts : SentTo(new, h) = SentTo(job[c], h)
      BY <1>0, <1>3 DEF SentTo
    <2> QED
      BY <1>0, <1>3, <2>1, SameSent
  <1> QED
    BY <1>0, <1>1, <1>3, <1>4, <1>5, <1>6, RunKeeps, RunStays DEF OnRun

LEMMA RereadKeeps == ASSUME BInv, NEW c \in Calls, Reread(c) PROVE BInv'
  <1> DEFINE new == [job[c] EXCEPT !.pos = @ + 1, !.got = @ \cup {job[c].pos}]
  <1>0. /\ job[c].at = "obtain" /\ UNCHANGED <<session, held, chain, made>> /\ Become(c, new)
        /\ job[c].at \in OnRun /\ job[c].pos <= Len(job[c].plan) /\ Entry(c).act = "cache"
    BY DEF Reread, HasEntry, OnRun
  <1>1. UNCHANGED <<spent, paidByHost>>
    BY <1>0 DEF session
  <1>r. job[c] \in Job /\ job[c].pos \in Nat /\ job[c].pos + 1 \in Nat
    BY <1>0, <1>1, RunKeeps
  <1>k. /\ held \subseteq job[c].seen /\ Remaining' = Remaining
        /\ job[c].budget <= Remaining /\ job[c].spent <= job[c].budget
        /\ job[c].got \subseteq 1..(job[c].pos - 1) /\ job[c].pos \in 1..(Len(job[c].plan) + 1)
    BY <1>0, <1>1, RunKeeps
  <1>2. job[c].got \cup {job[c].pos} \in SUBSET Nat
    <2>1. job[c].got \subseteq Nat
      BY <1>r DEF Job
    <2> QED
      BY <1>r, <2>1
  <1>3. /\ new.at = job[c].at /\ new.pos = job[c].pos + 1
        /\ new.got = job[c].got \cup {job[c].pos}
        /\ new.plan = job[c].plan /\ new.seen = job[c].seen
        /\ new.spent = job[c].spent /\ new.budget = job[c].budget
    BY <1>r DEF Job
  <1>t. new \in Job
    BY <1>2, <1>r DEF Job
  <1> HIDE DEF new
  <1>4. new.pos \in 1..(Len(new.plan) + 1) /\ new.got \subseteq 1..Len(new.plan)
    BY <1>0, <1>1, <1>3, RunKeeps
  <1>5. ASSUME job'[c] = new PROVE RunJob(c)'
    <2>0. Planful(c) /\ paidByHost' = paidByHost
      BY <1>0, <1>1, RunKeeps
    <2>1. Planful(c)'
      BY <1>3, <1>5, <2>0, PlanGoes
    <2>2. job'[c].got \subseteq 1..(job'[c].pos - 1)
      BY <1>3, <1>5, <1>k, <1>r
    <2> QED
      BY <1>0, <1>3, <1>5, <1>k, <2>1, <2>2 DEF RunJob, OnRun
  <1>6. \A h \in Hosts : Uncounted(new, h) = Uncounted(job[c], h)
    <2>1. \A h \in Hosts : SentTo(new, h) = SentTo(job[c], h)
      BY <1>0, <1>3 DEF SentTo, Entry
    <2> QED
      BY <1>0, <1>3, <2>1, SameSent
  <1> QED
    BY <1>0, <1>1, <1>3, <1>4, <1>5, <1>6, <1>t, RunKeeps, RunStays DEF OnRun

(* A buy is for a planned pay, under its quote and what the run has left.  *)
LEMMA BuyKeeps == ASSUME BInv, NEW c \in Calls, Buy(c) PROVE BInv'
  <1>1. PICK t \in Tolls :
          /\ t.total <= RunCeiling(c)
          /\ Become(c, [job[c] EXCEPT !.at = "bought", !.due = t.total])
    BY DEF Buy
  <1> DEFINE new == [job[c] EXCEPT !.at = "bought", !.due = t.total]
  <1>0. /\ job[c].at = "obtain" /\ job[c].at \in OnRun
        /\ UNCHANGED <<spent, paidByHost, discovered, lost, held, chain, made>>
        /\ paid' = [paid EXCEPT ![HostOf[Entry(c).page]] = @ + 1]
        /\ job[c].pos <= Len(job[c].plan) /\ Entry(c).act = "pay"
    BY DEF Buy, HasEntry, OnRun, PaysOneMore
  <1>r. job[c] \in Job
    BY <1>0, RunKeeps
  <1>k. /\ held \subseteq job[c].seen /\ Remaining' = Remaining
        /\ job[c].budget <= Remaining /\ job[c].spent <= job[c].budget
        /\ job[c].got \subseteq 1..(job[c].pos - 1) /\ job[c].pos \in Nat
    BY <1>0, RunKeeps
  <1>2. t.total \in Nat
    BY BuyerAssumption
  <1>3. /\ new \in Job /\ new.at = "bought" /\ new.pos = job[c].pos /\ new.got = job[c].got
        /\ new.plan = job[c].plan /\ new.seen = job[c].seen /\ new.due = t.total
        /\ new.spent = job[c].spent /\ new.budget = job[c].budget
    BY <1>2, <1>r DEF Job, States, Spending
  <1>4. Become(c, new)
    BY <1>1
  <1> HIDE DEF new
  <1>5. job[c].pos \in Pays(job[c].plan)
    <2>1. /\ job[c].pos \in 1..(Len(job[c].plan) + 1) /\ Len(job[c].plan) \in Nat
          /\ DOMAIN job[c].plan = 1..Len(job[c].plan)
      BY <1>0, RunKeeps
    <2>2. job[c].pos \in DOMAIN job[c].plan
      BY <1>0, <2>1
    <2>3. job[c].plan[job[c].pos].act = "pay"
      BY <1>0 DEF Entry
    <2> QED
      BY <2>2, <2>3 DEF Pays
  <1>6. Entry(c).quote \in Totals
    BY <1>0, <1>5, RunKeeps DEF Planful, Entry, Totals
  <1>7. t.total <= Authorized(Entry(c).quote) /\ job[c].spent + t.total <= job[c].budget
    BY <1>0, <1>1, <1>2, <1>6, QuotesTyped, RunKeeps DEF RunCeiling, Least
  <1>8. new.pos \in 1..(Len(new.plan) + 1) /\ new.got \subseteq 1..Len(new.plan)
    BY <1>0, <1>3, RunKeeps
  <1>9. ASSUME job'[c] = new PROVE RunJob(c)'
    <2>0. Planful(c) /\ paidByHost' = paidByHost
      BY <1>0, RunKeeps
    <2>1. Planful(c)'
      BY <1>3, <1>9, <2>0, PlanGoes
    <2>2. Entry(c)' = Entry(c)
      BY <1>3, <1>9 DEF Entry
    <2> QED
      BY <1>0, <1>3, <1>5, <1>7, <1>9, <1>k, <2>1, <2>2 DEF RunJob, OnRun
  <1>10. ASSUME NEW h \in Hosts
         PROVE  paid'[h] \in Nat /\ paid'[h] <= paidByHost[h] + lost'[h] + Uncounted(new, h)
    <2>1. Uncounted(new, h) = Uncounted(job[c], h) + (IF HostOf[Entry(c).page] = h THEN 1 ELSE 0)
      <3>1. /\ job[c].at = "obtain" /\ job[c].plan[job[c].pos].act = "pay"
            /\ Entry(c) = job[c].plan[job[c].pos]
        BY <1>0 DEF Entry
      <3>2. /\ HostOf[Entry(c).page] = h => SentTo(new, h) = SentTo(job[c], h) \cup {job[c].pos}
            /\ HostOf[Entry(c).page] # h => SentTo(new, h) = SentTo(job[c], h)
        BY <1>3, <3>1, SendsThis
      <3>3. IsFiniteSet(SentTo(job[c], h)) /\ Cardinality(SentTo(job[c], h)) \in Nat
        BY <1>0, RunKeeps, UncountedTyped
      <3>4. job[c].pos \notin SentTo(job[c], h)
        BY <1>k, <3>1 DEF SentTo
      <3>5. Cardinality(SentTo(job[c], h) \cup {job[c].pos}) = Cardinality(SentTo(job[c], h)) + 1
        BY <3>3, <3>4, FS_AddElement
      <3>6. Uncounted(job[c], h) = Cardinality(SentTo(job[c], h))
        BY <3>1, <3>3, UncountedIs
      <3>7. CASE HostOf[Entry(c).page] = h
        <4>1. Cardinality(SentTo(new, h)) = Cardinality(SentTo(job[c], h)) + 1
          BY <3>2, <3>5, <3>7
        <4>2. Cardinality(SentTo(new, h)) \in Nat
          BY <3>3, <4>1
        <4>3. Uncounted(new, h) = Cardinality(SentTo(new, h))
          BY <1>3, <4>2, UncountedIs
        <4> QED
          BY <3>6, <3>7, <4>1, <4>3
      <3>8. CASE HostOf[Entry(c).page] # h
        <4>1. SentTo(new, h) = SentTo(job[c], h)
          BY <3>2, <3>8
        <4>2. Uncounted(new, h) = Cardinality(SentTo(new, h))
          BY <1>3, <3>3, <4>1, UncountedIs
        <4> QED
          BY <3>3, <3>6, <3>8, <4>1, <4>2
      <3> QED
        BY <3>7, <3>8
    <2>2. Uncounted(job[c], h) \in Nat /\ paid[h] <= paidByHost[h] + lost[h] + Uncounted(job[c], h)
      BY <1>0, RunKeeps, UncountedTyped, HolderTally DEF Tally
    <2>3. /\ paid[h] \in Nat /\ paidByHost[h] \in Nat /\ lost[h] \in Nat
          /\ paid'[h] = IF HostOf[Entry(c).page] = h THEN paid[h] + 1 ELSE paid[h]
      BY <1>0 DEF BInv, SessionTypeOK
    <2> QED
      BY <1>0, <2>1, <2>2, <2>3
  <1>11. {paid, lost}' \subseteq [Hosts -> Nat] /\ held' \subseteq Pages
    <2>1. DOMAIN paid' = Hosts /\ paid' = [h \in Hosts |-> paid'[h]]
      BY <1>0 DEF BInv, SessionTypeOK
    <2>2. paid' \in [Hosts -> Nat]
      BY <1>10, <2>1
    <2> QED
      BY <1>0, <2>2 DEF BInv, SessionTypeOK
  <1> QED
    BY <1>0, <1>3, <1>4, <1>8, <1>9, <1>10, <1>11, RunKeeps, RunGoes DEF OnRun

(* A read sent and not delivered is lost, and the run goes on.             *)
LEMMA BuyFailsKeeps == ASSUME BInv, NEW c \in Calls, BuyFails(c) PROVE BInv'
  <1> DEFINE new == [job[c] EXCEPT !.at = "obtain", !.due = 0, !.pos = @ + 1]
             k == HostOf[Entry(c).page]
  <1>0. /\ job[c].at = "bought" /\ job[c].at \in OnRun /\ Become(c, new)
        /\ UNCHANGED <<spent, paidByHost, discovered, paid, held, chain, made>>
        /\ lost' = [lost EXCEPT ![k] = @ + 1]
    BY DEF BuyFails, OnRun
  <1>r. job[c] \in Job /\ job[c].pos \in Nat /\ job[c].pos + 1 \in Nat
    BY <1>0, RunKeeps
  <1>k. /\ held \subseteq job[c].seen /\ Remaining' = Remaining
        /\ job[c].budget <= Remaining /\ job[c].spent <= job[c].budget
        /\ job[c].got \subseteq 1..(job[c].pos - 1)
        /\ job[c].pos \in Pays(job[c].plan) /\ job[c].pos \in 1..Len(job[c].plan)
    BY <1>0, RunKeeps DEF Pays
  <1>1. /\ new \in Job /\ new.at = "obtain" /\ new.pos = job[c].pos + 1 /\ new.got = job[c].got
        /\ new.plan = job[c].plan /\ new.seen = job[c].seen
        /\ new.spent = job[c].spent /\ new.budget = job[c].budget
    BY <1>r DEF Job, States
  <1> HIDE DEF new
  <1>2. new.pos \in 1..(Len(new.plan) + 1) /\ new.got \subseteq 1..Len(new.plan)
    BY <1>0, <1>1, <1>k, RunKeeps
  <1>3. ASSUME job'[c] = new PROVE RunJob(c)'
    <2>1. Planful(c)'
      <3>1. Planful(c) /\ paidByHost' = paidByHost
        BY <1>0, RunKeeps
      <3> QED
        BY <1>1, <1>3, <3>1 DEF Planful
    <2>2. job'[c].got \subseteq 1..(job'[c].pos - 1)
      BY <1>1, <1>3, <1>k, <1>r
    <2> QED
      BY <1>0, <1>1, <1>3, <1>k, <2>1, <2>2 DEF RunJob, OnRun
  <1>4. ASSUME NEW h \in Hosts
        PROVE  lost'[h] \in Nat /\ paid'[h] <= paidByHost[h] + lost'[h] + Uncounted(new, h)
    <2>1. Uncounted(job[c], h) <= Uncounted(new, h) + (IF k = h THEN 1 ELSE 0)
      <3>1. SentTo(job[c], h) = SentTo(new, h) \cup (IF k = h THEN {job[c].pos} ELSE {})
        BY <1>0, <1>1, <1>k DEF SentTo, Entry, Pays
      <3>2. job[c].pos \notin SentTo(new, h)
        BY <1>1, <1>k, <1>r DEF SentTo
      <3>3. IsFiniteSet(SentTo(new, h)) /\ Cardinality(SentTo(new, h)) \in Nat
        BY <1>0, <1>1, RunKeeps, UncountedTyped
      <3>4. Cardinality(SentTo(new, h) \cup {job[c].pos}) = Cardinality(SentTo(new, h)) + 1
        BY <3>2, <3>3, FS_AddElement
      <3>5. /\ Uncounted(job[c], h) = Cardinality(SentTo(job[c], h)) + 0
            /\ Uncounted(new, h) = Cardinality(SentTo(new, h)) + 0
        BY <1>0, <1>1 DEF Uncounted
      <3> HIDE DEF k
      <3>6. CASE k = h
        BY <3>1, <3>3, <3>4, <3>5, <3>6
      <3>7. CASE k # h
        <4>1. SentTo(new, h) = SentTo(job[c], h)
          BY <3>1, <3>7
        <4> QED
          BY <3>3, <3>5, <3>7, <4>1
      <3> QED
        BY <3>6, <3>7
    <2>2. /\ Uncounted(job[c], h) \in Nat /\ Uncounted(new, h) \in Nat
          /\ paid[h] <= paidByHost[h] + lost[h] + Uncounted(job[c], h)
      BY <1>0, <1>1, RunKeeps, UncountedTyped, HolderTally DEF Tally
    <2>3. /\ paid[h] \in Nat /\ paidByHost[h] \in Nat /\ lost[h] \in Nat
          /\ lost'[h] = IF k = h THEN lost[h] + 1 ELSE lost[h]
      BY <1>0 DEF BInv, SessionTypeOK
    <2> HIDE DEF k
    <2> QED
      BY <1>0, <2>1, <2>2, <2>3
  <1>5. {paid, lost}' \subseteq [Hosts -> Nat] /\ held' \subseteq Pages
    <2>1. DOMAIN lost' = Hosts /\ lost' = [h \in Hosts |-> lost'[h]]
      BY <1>0 DEF BInv, SessionTypeOK
    <2>2. lost' \in [Hosts -> Nat]
      BY <1>4, <2>1
    <2> QED
      BY <1>0, <2>2 DEF BInv, SessionTypeOK
  <1> QED
    BY <1>0, <1>1, <1>2, <1>3, <1>4, <1>5, RunKeeps, RunGoes DEF OnRun

(* The licence bought is in the run's copy before it is in the store.      *)
LEMMA BoughtKeeps == ASSUME BInv, NEW c \in Calls, Bought(c) PROVE BInv'
  <1> DEFINE p == Entry(c).page
  <1>1. PICK seen \in {job[c].seen, job[c].seen \cup {p}} :
          /\ held' = IF p \in seen THEN seen ELSE held
          /\ Become(c, [job[c] EXCEPT !.at = "obtain", !.due = 0, !.seen = seen, !.pos = @ + 1,
                                      !.spent = @ + job[c].due, !.got = @ \cup {job[c].pos}])
    BY DEF Bought
  <1> DEFINE new == [job[c] EXCEPT !.at = "obtain", !.due = 0, !.seen = seen, !.pos = @ + 1,
                                   !.spent = @ + job[c].due, !.got = @ \cup {job[c].pos}]
  <1>0. /\ job[c].at = "bought" /\ job[c].at \in OnRun
        /\ UNCHANGED <<session, chain, made>> /\ UNCHANGED <<spent, paidByHost>>
    BY DEF Bought, OnRun, session
  <1>2. /\ job[c].pos \in Pays(job[c].plan) /\ job[c].pos \in 1..Len(job[c].plan)
        /\ job[c].spent + job[c].due <= job[c].budget
    BY <1>0, RunKeeps DEF BInv, RunJob, Pays
  <1>r. job[c] \in Job /\ job[c].pos \in Nat /\ job[c].pos + 1 \in Nat /\ job[c].spent + job[c].due \in Nat
    BY <1>0, RunKeeps
  <1>k. Remaining' = Remaining /\ job[c].budget <= Remaining /\ job[c].got \subseteq 1..(job[c].pos - 1)
    BY <1>0, RunKeeps
  <1>3. p \in Pages
    <2>1. Entry(c) \in Decisions
      BY <1>0, <1>2, RunKeeps DEF Entry
    <2> QED
      BY <2>1 DEF Decisions
  <1>4. seen \subseteq Pages /\ held' \subseteq Pages /\ held' \subseteq seen
    BY <1>0, <1>1, <1>3, RunKeeps
  <1>5. job[c].got \subseteq Nat
    BY <1>r DEF Job
  <1>6. /\ new \in Job /\ new.at = "obtain" /\ new.pos = job[c].pos + 1
        /\ new.got = job[c].got \cup {job[c].pos}
        /\ new.plan = job[c].plan /\ new.seen = seen
        /\ new.spent = job[c].spent + job[c].due /\ new.budget = job[c].budget
    BY <1>4, <1>5, <1>r DEF Job, States
  <1>7. Become(c, new)
    BY <1>1
  <1> HIDE DEF new
  <1>8. new.pos \in 1..(Len(new.plan) + 1) /\ new.got \subseteq 1..Len(new.plan)
    BY <1>0, <1>2, <1>6, RunKeeps
  <1>9. ASSUME job'[c] = new PROVE RunJob(c)'
    <2>1. ASSUME NEW i \in Pays(new.plan), new.plan[i].page \in seen
          PROVE  \E j \in new.got : new.plan[j].page = new.plan[i].page
      <3>1. CASE new.plan[i].page \in job[c].seen
        BY <1>0, <1>6, <2>1, <3>1, RunKeeps DEF Planful
      <3>2. CASE new.plan[i].page = p
        BY <1>6, <3>2 DEF Entry
      <3> QED
        BY <2>1, <3>1, <3>2
    <2>2. Planful(c)'
      BY <1>0, <1>6, <1>9, <2>1, RunKeeps DEF Planful
    <2>3. job'[c].got \subseteq 1..(job'[c].pos - 1)
      BY <1>2, <1>6, <1>9, <1>k, <1>r
    <2> QED
      BY <1>2, <1>4, <1>6, <1>9, <1>k, <2>2, <2>3 DEF RunJob, OnRun
  <1>10. \A h \in Hosts : Uncounted(new, h) = Uncounted(job[c], h)
    <2>1. \A h \in Hosts : SentTo(new, h) = SentTo(job[c], h)
      BY <1>0, <1>6 DEF SentTo
    <2> QED
      BY <1>0, <1>6, <2>1, SameSent
  <1> QED
    BY <1>0, <1>4, <1>6, <1>7, <1>8, <1>9, <1>10, RunKeeps, RunStays DEF OnRun

(* A run that throws: what it paid is not debited, nothing else is touched.*)
LEMMA RunFails ==
  ASSUME BInv, NEW c \in Calls, Unsaved(c) \/ Throws(c)
  PROVE  BInv'
  <1>1. /\ Return(c) /\ LosesCount(c) /\ UNCHANGED <<held, made>>
        /\ Holds(c) \/ job[c].at \in {"bought", "obtain"}
    BY DEF Unsaved, Throws, HasEntry
  <1>2. Holds(c)
    BY <1>1, AtWork DEF Active
  <1> QED
    BY <1>1, <1>2, Fails

(* The reads a run settles are pays of its plan.                           *)
LEMMA SettlesItsPays ==
  ASSUME NEW c \in Calls, job[c].plan \in Seq(Decisions), NEW h \in Hosts
  PROVE  /\ Settled(c)[h] \in Nat
         /\ Settled(c)[h] <= Cardinality(PaysTo(job[c].plan, h))
  <1> DEFINE plan == job[c].plan
             slugs == {SlugOf[plan[i].page] : i \in job[c].got}
             S == {i \in DOMAIN plan : /\ plan[i].act = "pay" /\ HostOf[plan[i].page] = h
                                       /\ SlugOf[plan[i].page] \in slugs}
  <1>1. Settled(c)[h] = Cardinality(S)
    BY DEF Settled
  <1>2. DOMAIN plan = 1..Len(plan) /\ Len(plan) \in Nat
    OBVIOUS
  <1>3. IsFiniteSet(DOMAIN plan)
    BY <1>2, FS_Interval
  <1>4. S \subseteq PaysTo(plan, h) /\ PaysTo(plan, h) \subseteq DOMAIN plan
    BY DEF PaysTo, Pays
  <1>5. IsFiniteSet(PaysTo(plan, h))
    BY <1>3, <1>4, FS_Subset
  <1>6. IsFiniteSet(S) /\ Cardinality(S) <= Cardinality(PaysTo(plan, h))
    BY <1>4, <1>5, FS_Subset
  <1> QED
    BY <1>1, <1>6, FS_CardinalityType

(* A run that finishes counts all it has paid for: a pay that was served   *)
(* has its slug among the sources.                                         *)
LEMMA SettlesAllItPaid ==
  ASSUME NEW c \in Calls, job[c].plan \in Seq(Decisions), job[c].got \subseteq 1..Len(job[c].plan),
         job[c].at = "obtain", NEW h \in Hosts
  PROVE  Uncounted(job[c], h) <= Settled(c)[h]
  <1> DEFINE plan == job[c].plan
             slugs == {SlugOf[plan[i].page] : i \in job[c].got}
             S == {i \in DOMAIN plan : /\ plan[i].act = "pay" /\ HostOf[plan[i].page] = h
                                       /\ SlugOf[plan[i].page] \in slugs}
  <1>1. Settled(c)[h] = Cardinality(S)
    BY DEF Settled
  <1>2. DOMAIN plan = 1..Len(plan) /\ Len(plan) \in Nat
    OBVIOUS
  <1>3. IsFiniteSet(S)
    <2>1. IsFiniteSet(DOMAIN plan)
      BY <1>2, FS_Interval
    <2> QED
      BY <2>1, FS_Subset
  <1>4. SentTo(job[c], h) \subseteq S
    BY <1>2 DEF SentTo
  <1>5. Cardinality(SentTo(job[c], h)) <= Cardinality(S)
    BY <1>3, <1>4, FS_Subset
  <1>6. Cardinality(SentTo(job[c], h)) \in Nat
    BY <1>2, UncountedTyped
  <1>7. Uncounted(job[c], h) = Cardinality(SentTo(job[c], h)) + 0
    BY DEF Uncounted
  <1> HIDE DEF S
  <1> QED
    BY <1>1, <1>5, <1>6, <1>7

(* The debit of a run: within what the session had left, and each host.    *)
LEMMA FinishKeeps == ASSUME BInv, NEW c \in Calls, Finish(c) PROVE BInv'
  <1>0. job[c].at = "obtain" /\ job[c].at \in OnRun
    BY DEF Finish, OnRun
  <1>1. /\ Holds(c) /\ Planful(c) /\ job[c].seen \subseteq Pages /\ job[c].spent \in Nat
        /\ job[c].spent <= Remaining /\ job[c].plan \in Seq(Decisions)
    <2>1. RunJob(c) /\ job[c] \in Job
      BY DEF BInv, SessionTypeOK
    <2>2. /\ job[c].spent \in Nat /\ job[c].budget \in Nat /\ job[c].seen \subseteq Pages
          /\ job[c].plan \in Seq(Decisions)
      BY <2>1 DEF Job
    <2>3. Remaining \in Nat
      BY BuyerAssumption DEF Remaining, BInv, SessionTypeOK
    <2>4. Planful(c) /\ job[c].spent <= job[c].budget /\ job[c].budget <= Remaining
      BY <1>0, <2>1 DEF RunJob
    <2> QED
      BY <1>0, <2>2, <2>3, <2>4, AtWork DEF Active, OnRun
  <1>2. /\ Return(c) /\ UNCHANGED <<discovered, paid, lost, made>> /\ held' = job[c].seen
        /\ spent' = spent + job[c].spent
        /\ paidByHost' = [h \in Hosts |-> paidByHost[h] + Settled(c)[h]]
    BY DEF Finish
  <1>3. spent \in Nat /\ paidByHost \in [Hosts -> Nat]
    BY DEF BInv, SessionTypeOK
  <1>4. Within(spent')
    BY <1>1, <1>2, <1>3, FitsRemaining DEF BInv, SessionKept
  <1>5. ASSUME NEW h \in Hosts
        PROVE  /\ paidByHost'[h] \in Nat /\ paidByHost'[h] <= Cap
               /\ paid'[h] <= paidByHost'[h] + lost'[h]
    <2>1. Settled(c)[h] \in Nat /\ Settled(c)[h] <= Cardinality(PaysTo(job[c].plan, h))
      BY <1>1, SettlesItsPays
    <2>2. Cardinality(PaysTo(job[c].plan, h)) \in Nat
      <3>1. DOMAIN job[c].plan = 1..Len(job[c].plan) /\ Len(job[c].plan) \in Nat
        BY <1>1
      <3>2. IsFiniteSet(DOMAIN job[c].plan)
        BY <3>1, FS_Interval
      <3>3. PaysTo(job[c].plan, h) \subseteq DOMAIN job[c].plan
        BY DEF PaysTo, Pays
      <3> QED
        BY <3>2, <3>3, FS_Subset, FS_CardinalityType
    <2>3. paidByHost[h] + Cardinality(PaysTo(job[c].plan, h)) <= Cap
      BY <1>1 DEF Planful
    <2>4. paidByHost'[h] = paidByHost[h] + Settled(c)[h] /\ paidByHost[h] \in Nat
      BY <1>2, <1>3
    <2>5. paid[h] <= paidByHost[h] + lost[h] + Uncounted(job[c], h)
      BY <1>1, HolderTally DEF Tally
    <2>6. Uncounted(job[c], h) <= Settled(c)[h] /\ Uncounted(job[c], h) \in Nat
      <3>1. job[c].got \subseteq 1..Len(job[c].plan) /\ Len(job[c].plan) \in Nat
        BY <1>1 DEF BInv, SessionTypeOK
      <3> QED
        BY <1>0, <1>1, <3>1, SettlesAllItPaid, UncountedTyped
    <2>7. paid[h] \in Nat /\ lost[h] \in Nat /\ paid' = paid /\ lost' = lost
      BY <1>2 DEF BInv, SessionTypeOK
    <2> QED
      BY <2>1, <2>2, <2>3, <2>4, <2>5, <2>6, <2>7, BuyerAssumption
  <1>6. {paidByHost, paid, lost}' \subseteq [Hosts -> Nat] /\ spent' \in Nat /\ held' \subseteq Pages
    <2>1. paidByHost' \in [Hosts -> Nat] /\ spent' \in Nat /\ held' \subseteq Pages
      BY <1>1, <1>2, <1>3, <1>5
    <2> QED
      BY <1>2, <2>1 DEF BInv, SessionTypeOK
  <1>7. SessionKept'
    BY <1>4, <1>5 DEF SessionKept, Within
  <1> QED
    BY <1>1, <1>2, <1>5, <1>6, <1>7, HolderReturns

-----------------------------------------------------------------------------
(* Around the calls, and the whole.                                        *)

(* What an expiry leaves of a call.                                        *)
LEMMA Expired ==
  ASSUME BInv, NEW p \in Pages, Expire(p), NEW c \in Calls
  PROVE  /\ job'[c] \in Job /\ job'[c].seen = job[c].seen \ {p}
         /\ job'[c].at = job[c].at /\ job'[c].page = job[c].page
         /\ job'[c].presented = job[c].presented /\ job'[c].quote = job[c].quote
         /\ job'[c].ceiling = job[c].ceiling /\ job'[c].due = job[c].due
         /\ job'[c].budget = job[c].budget /\ job'[c].spent = job[c].spent
         /\ job'[c].plan = job[c].plan /\ job'[c].pos = job[c].pos /\ job'[c].got = job[c].got
  <1>1. job[c] \in Job /\ job'[c] = [job[c] EXCEPT !.seen = @ \ {p}]
    BY DEF Expire, BInv, SessionTypeOK
  <1>2. job[c].seen \ {p} \in SUBSET Pages
    BY <1>1 DEF Job
  <1>3. job'[c] \in Job
    BY <1>1, <1>2 DEF Job
  <1> QED
    BY <1>1, <1>3 DEF Job

LEMMA ExpireKeeps == ASSUME BInv, NEW p \in Pages, Expire(p) PROVE BInv'
  <1>1. /\ UNCHANGED <<spent, paidByHost, discovered, paid, lost, chain, made>>
        /\ held' = held \ {p} /\ DOMAIN job' = Calls
        /\ job' = [c \in Calls |-> [job[c] EXCEPT !.seen = @ \ {p}]]
    BY DEF Expire, session
  <1>2. job' \in [Calls -> Job]
    BY <1>1, Expired
  <1>3. SessionTypeOK'
    <2>1. \A c \in Calls : /\ job'[c].pos \in 1..(Len(job'[c].plan) + 1)
                           /\ job'[c].got \subseteq 1..Len(job'[c].plan)
      BY Expired DEF BInv, SessionTypeOK
    <2> QED
      BY <1>1, <1>2, <2>1 DEF BInv, SessionTypeOK
  <1>4. Turns'
    BY <1>1, Expired DEF BInv, Turns, Active, Holds
  <1>5. SessionKept'
    BY <1>1 DEF BInv, SessionKept, Within
  <1>6. ASSUME NEW c \in Calls PROVE PageJob(c)' /\ RunJob(c)'
    <2>0. Remaining' = Remaining /\ PageJob(c) /\ RunJob(c)
      BY <1>1 DEF Remaining, BInv
    <2>1. /\ job'[c].seen = job[c].seen \ {p}
          /\ job'[c].at = job[c].at /\ job'[c].page = job[c].page
          /\ job'[c].presented = job[c].presented /\ job'[c].quote = job[c].quote
          /\ job'[c].ceiling = job[c].ceiling /\ job'[c].due = job[c].due
          /\ job'[c].budget = job[c].budget /\ job'[c].spent = job[c].spent
          /\ job'[c].plan = job[c].plan /\ job'[c].pos = job[c].pos /\ job'[c].got = job[c].got
      BY Expired
    <2>2. PageJob(c)'
      BY <1>1, <2>0, <2>1 DEF PageJob
    <2>3. ASSUME job[c].at \in OnRun PROVE Planful(c)'
      <3>1. Planful(c)
        BY <2>0, <2>3 DEF RunJob
      <3>2. paidByHost' = paidByHost
        BY <1>1
      <3> QED
        BY <2>1, <3>1, <3>2 DEF Planful
    <2>4. Entry(c)' = Entry(c)
      BY <2>1 DEF Entry
    <2>5. RunJob(c)'
      BY <1>1, <2>0, <2>1, <2>3, <2>4 DEF RunJob
    <2> QED
      BY <2>2, <2>5
  <1>7. Tallied'
    <2>1. ASSUME NEW c \in Calls, NEW h
          PROVE  Uncounted(job'[c], h) = Uncounted(job[c], h)
      <3>1. /\ job'[c].at = job[c].at /\ job'[c].page = job[c].page
            /\ job'[c].plan = job[c].plan /\ job'[c].pos = job[c].pos /\ job'[c].got = job[c].got
        BY Expired
      <3>2. SentTo(job'[c], h) = SentTo(job[c], h)
        BY <3>1 DEF SentTo
      <3> QED
        BY <3>1, <3>2 DEF Uncounted
    <2>2. \A c \in Calls : (Active(c)' <=> Active(c)) /\ (Tally(c) => Tally(c)')
      BY <1>1, <2>1, Expired DEF Active, Tally
    <2> QED
      BY <1>1, <2>2 DEF BInv, Tallied
  <1> QED
    BY <1>3, <1>4, <1>5, <1>6, <1>7 DEF BInv

(* Discovery and stuttering touch nothing the calls rely on.               *)
LEMMA DiscoverKeeps ==
  ASSUME BInv, discovered' \subseteq Hosts, UNCHANGED <<spent, paidByHost, paid, lost, held, chain, job, made>>
  PROVE  BInv'
  <1>1. SessionTypeOK'
    BY DEF BInv, SessionTypeOK
  <1>2. Turns' /\ SessionKept' /\ Tallied'
    BY DEF BInv, Turns, Active, Holds, SessionKept, Within, Tallied, Tally
  <1>3. ASSUME NEW c \in Calls PROVE PageJob(c)' /\ RunJob(c)'
    <2>1. PageJob(c)'
      BY DEF BInv, PageJob, Remaining
    <2>2. RunJob(c)'
      BY DEF BInv, RunJob, Planful, Entry, Remaining
    <2> QED
      BY <2>1, <2>2
  <1> QED
    BY <1>1, <1>2, <1>3 DEF BInv

LEMMA StepBInv == BInv /\ [SessionNext]_sessionVars => BInv'
  <1> SUFFICES ASSUME BInv, [SessionNext]_sessionVars PROVE BInv'
    OBVIOUS
  <1>1. ASSUME NEW c \in Calls, PayAndRead(c) PROVE BInv'
    BY <1>1, CallKeeps, BeginPayKeeps, PageMoves, SendKeeps, PageEnds,
       FetchFailsKeeps, DeliveredKeeps DEF PayAndRead
  <1>2. ASSUME NEW c \in Calls, Research(c) PROVE BInv'
    BY <1>2, CallKeeps, PlanKeeps, SkipKeeps, RereadKeeps, BuyKeeps, BuyFailsKeeps, BoughtKeeps, RunFails,
       FinishKeeps DEF Research
  <1>3. CASE Discover
    BY <1>3, DiscoverKeeps, BuyerAssumption DEF Discover
  <1>4. ASSUME NEW p \in Pages, Expire(p) PROVE BInv'
    BY <1>4, ExpireKeeps
  <1>5. CASE UNCHANGED sessionVars
    <2>1. discovered \subseteq Hosts
      BY DEF BInv, SessionTypeOK
    <2> QED
      BY <1>5, <2>1, DiscoverKeeps DEF sessionVars, session
  <1> QED
    BY <1>1, <1>2, <1>3, <1>4, <1>5 DEF SessionNext

LEMMA SessionInv == SessionSpec => []BInv
  BY InitBInv, StepBInv, PTL DEF SessionSpec

(* The state of a session is what the server keeps: amounts and counts are *)
(* never negative, and a run stands at an entry of its plan or at its end. *)
THEOREM SessionTyped == SessionSpec => []SessionTypeOK
  <1>1. BInv => SessionTypeOK
    BY DEF BInv
  <1> QED
    BY <1>1, SessionInv, PTL

(* What a session has debited, with what any of its calls has signed for,  *)
(* stays under the ceiling, or above it by the tolerance of one toll that  *)
(* fitted under it: the lock lets no two calls look at the same remainder  *)
(* (withSpendLock; remaining is read inside it), and the run's own ceiling *)
(* counts what the run has spent already.                                  *)
THEOREM CeilingIsKept == SessionSpec => []SpentWithinCeiling
  <1>1. BInv => SpentWithinCeiling
    <2> SUFFICES ASSUME BInv, NEW c \in Calls PROVE Within(spent + Exposure(c))
      BY DEF SpentWithinCeiling
    <2>0. /\ job[c] \in Job /\ PageJob(c) /\ RunJob(c) /\ spent \in Nat /\ Within(spent)
          /\ Remaining \in Nat
      BY BuyerAssumption DEF BInv, SessionTypeOK, SessionKept, Remaining
    <2>1. job[c].spent \in Nat /\ job[c].due \in Nat /\ job[c].budget \in Nat
      BY <2>0 DEF Job
    <2>2. CASE job[c].at = "sent"
      <3>1. Exposure(c) = job[c].due
        BY <2>0, <2>1, <2>2 DEF Exposure, Spending, RunJob, OnRun
      <3>2. /\ job[c].quote \in Totals /\ job[c].quote <= Remaining
            /\ job[c].due <= Authorized(job[c].quote)
        BY <2>0, <2>2 DEF PageJob
      <3> QED
        BY <2>0, <2>1, <3>1, <3>2, FitsAuthorized
    <2>3. CASE job[c].at = "bought"
      <3>1. Exposure(c) = job[c].spent + job[c].due
        BY <2>3 DEF Exposure, Spending
      <3>2. job[c].spent + job[c].due <= job[c].budget /\ job[c].budget <= Remaining
        BY <2>0, <2>3 DEF RunJob, OnRun
      <3>3. Exposure(c) \in Nat /\ Exposure(c) <= Remaining
        BY <2>0, <2>1, <3>1, <3>2
      <3> QED
        BY <2>0, <3>3, FitsRemaining
    <2>4. CASE job[c].at \notin {"sent", "bought"}
      <3>1. Exposure(c) = job[c].spent
        BY <2>1, <2>4 DEF Exposure, Spending
      <3>2. job[c].spent <= Remaining
        BY <2>0, <2>1 DEF RunJob
      <3> QED
        BY <2>0, <2>1, <3>1, <3>2, FitsRemaining
    <2> QED
      BY <2>2, <2>3, <2>4
  <1> QED
    BY <1>1, SessionInv, PTL

(* However its calls mix, a session pays for at most perDomainCap reads of *)
(* a host, but for those whose call failed after sending or threw: a plan  *)
(* takes what the cap has left, a run that finishes counts all it paid     *)
(* for, and what the others paid for never reaches the counter (settled    *)
(* pays are counted once run() has returned, and only if it does).         *)
THEOREM CapIsKept == SessionSpec => []CapIsShared
  <1>1. BInv => CapIsShared
    <2> SUFFICES ASSUME BInv, NEW h \in Hosts PROVE paid[h] <= Cap + lost[h]
      BY DEF CapIsShared
    <2>0. /\ paid[h] \in Nat /\ lost[h] \in Nat /\ paidByHost[h] \in Nat /\ Cap \in Nat
          /\ paidByHost[h] <= Cap
      BY BuyerAssumption DEF BInv, SessionTypeOK, SessionKept
    <2>1. CASE \A c \in Calls : ~Active(c)
      BY <2>0, <2>1 DEF BInv, Tallied
    <2>2. ASSUME NEW c \in Calls, Active(c) PROVE paid[h] <= Cap + lost[h]
      <3>1. paid[h] <= paidByHost[h] + lost[h] + Uncounted(job[c], h)
        BY <2>2 DEF BInv, Tallied, Tally
      <3>2. /\ RunJob(c) /\ PageJob(c) /\ job[c].plan \in Seq(Decisions)
            /\ job[c].got \subseteq 1..Len(job[c].plan)
        BY DEF BInv, SessionTypeOK, Job
      <3>3. Uncounted(job[c], h) \in Nat
        BY <3>2, UncountedTyped
      <3>4. CASE job[c].at = "sent"
        <4>1. paidByHost[HostOf[job[c].page]] < Cap /\ job[c].got = {}
          BY <3>2, <3>4 DEF PageJob, RunJob, OnRun
        <4>2. Uncounted(job[c], h) = IF HostOf[job[c].page] = h THEN 1 ELSE 0
          BY <3>4, <4>1, NothingSent
        <4> QED
          BY <2>0, <3>1, <4>1, <4>2
      <3>5. CASE job[c].at \in OnRun
        <4>1. SentTo(job[c], h) \subseteq PaysTo(job[c].plan, h)
          BY <3>2, <3>5 DEF SentTo, PaysTo, Pays, RunJob
        <4>2. IsFiniteSet(PaysTo(job[c].plan, h))
          <5>1. DOMAIN job[c].plan = 1..Len(job[c].plan) /\ Len(job[c].plan) \in Nat
            BY <3>2
          <5>2. IsFiniteSet(DOMAIN job[c].plan)
            BY <5>1, FS_Interval
          <5> QED
            BY <5>2, FS_Subset DEF PaysTo, Pays
        <4>3. Cardinality(SentTo(job[c], h)) <= Cardinality(PaysTo(job[c].plan, h))
          BY <4>1, <4>2, FS_Subset
        <4>4. Cardinality(PaysTo(job[c].plan, h)) \in Nat /\ Cardinality(SentTo(job[c], h)) \in Nat
          BY <3>2, <4>2, FS_CardinalityType, UncountedTyped
        <4>5. paidByHost[h] + Cardinality(PaysTo(job[c].plan, h)) <= Cap
          BY <3>2, <3>5 DEF RunJob, Planful
        <4>6. Uncounted(job[c], h) = Cardinality(SentTo(job[c], h)) + 0
          BY <3>5 DEF Uncounted, OnRun
        <4> QED
          BY <2>0, <3>1, <4>3, <4>4, <4>5, <4>6
      <3>6. CASE job[c].at \notin OnRun \cup {"sent"}
        <4>1. job[c].got = {} /\ job[c].at \notin {"sent", "bought"}
          BY <3>2, <3>6 DEF RunJob, OnRun
        <4>2. Uncounted(job[c], h) = 0
          BY <4>1, NothingSent
        <4> QED
          BY <2>0, <3>1, <4>2
      <3> QED
        BY <3>4, <3>5, <3>6
    <2> QED
      BY <2>1, <2>2
  <1> QED
    BY <1>1, SessionInv, PTL

(* A page whose licence the call knows to be live is paid for only after   *)
(* the licence was presented, or as the second listing of a page the same  *)
(* run has just bought: a licence counts as held by its slug, so no other  *)
(* held page is ever planned as a pay.                                     *)
THEOREM HeldIsPresented == SessionSpec => []HeldIsReadFirst
  <1>1. BInv => HeldIsReadFirst
    BY DEF BInv, PageJob, RunJob, Planful, Entry, OnRun, HeldIsReadFirst
  <1> QED
    BY <1>1, SessionInv, PTL

(* A licence leaves the store only by running out: every save writes a     *)
(* copy that still has all the store has, because the copy was loaded      *)
(* under the same lock.                                                    *)
THEOREM LicencesAreKept == SessionSpec => LicencesSurvive
  <1>1. BInv /\ [SessionNext]_sessionVars => [held \subseteq held' \/ \E p \in Pages : Expire(p)]_sessionVars
    <2> SUFFICES ASSUME BInv, SessionNext, ~(\E p \in Pages : Expire(p))
                 PROVE  held \subseteq held'
      OBVIOUS
    <2>1. CASE Discover
      BY <2>1 DEF Discover
    <2>2. ASSUME NEW c \in Calls, PayAndRead(c) PROVE held \subseteq held'
      BY <2>2 DEF PayAndRead, CallPay, BeginPay, Served, Refused, AskPeriod, Quote, Send,
                  FetchFails, Delivered, Keep
    <2>3. ASSUME NEW c \in Calls, Research(c) PROVE held \subseteq held'
      <3>1. CASE Bought(c)
        <4>1. held \subseteq job[c].seen
          BY <3>1 DEF Bought, BInv, RunJob, OnRun
        <4> QED
          BY <3>1, <4>1 DEF Bought
      <3>2. CASE Finish(c)
        BY <3>2 DEF Finish, BInv, RunJob, OnRun
      <3>3. CASE ~Bought(c) /\ ~Finish(c)
        BY <2>3, <3>3 DEF Research, CallResearch, Plan, Skip, Reread, Buy, BuyFails, Unsaved, Throws
      <3> QED
        BY <3>1, <3>2, <3>3
    <2> QED
      BY <2>1, <2>2, <2>3 DEF SessionNext
  <1> QED
    BY <1>1, SessionInv, PTL DEF SessionSpec, LicencesSurvive

(* A payment is never signed for more than the quote the budget was looked *)
(* at with, plus the tolerance (the toll-moved guard); the quote of a run  *)
(* is by slug, so it is what a page listed under the same slug was quoted. *)
THEOREM QuoteIsKept == SessionSpec => []PaysAtMostTheQuote
  <1>1. BInv => PaysAtMostTheQuote
    <2> SUFFICES ASSUME BInv, NEW c \in Calls
                 PROVE  /\ job[c].at = "sent" => job[c].due <= Authorized(job[c].quote)
                        /\ job[c].at = "bought" => \E t \in Entry(c).quoted : job[c].due <= Authorized(t)
      BY DEF PaysAtMostTheQuote
    <2>1. PageJob(c) /\ RunJob(c)
      BY DEF BInv
    <2>2. job[c].at = "sent" => job[c].due <= Authorized(job[c].quote)
      BY <2>1 DEF PageJob
    <2>3. job[c].at = "bought" =>
            Entry(c).quote \in Entry(c).quoted /\ job[c].due <= Authorized(Entry(c).quote)
      BY <2>1 DEF RunJob, Planful, Entry, OnRun
    <2> QED
      BY <2>2, <2>3
  <1> QED
    BY <1>1, SessionInv, PTL

=============================================================================
