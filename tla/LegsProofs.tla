----------------------------- MODULE LegsProofs -----------------------------
(***************************************************************************)
(* The legs of a price.  Their settlement (DeferredLegs), for any legs,    *)
(* drains, scopes, expiries, lease and bound on the clock: the books match *)
(* the money, a leg is counted once, live claims exclude each other, a     *)
(* lease outlives a failure, and the whole implements LegLedger.  Their    *)
(* amounts (PriceSplit), for any payees, price and rounding: they make the *)
(* price, near everyone's share, as the ledger has it.                     *)
(***************************************************************************)
EXTENDS DeferredLegs, PriceSplit, FiniteSetTheorems, WellFoundedInduction, TLAPS

InAttempt(d) == pc[d] \in {"claimed", "awaiting", "marking"}

(* A drain has a leg exactly while it attempts one, and its claim is in    *)
(* the row or was overwritten by a later one.                              *)
AttemptHoldsClaim ==
  \A d \in Drains :
    /\ passNow[d] <= clock
    /\ InAttempt(d) => /\ leg[d] \in recorded
                       /\ passNow[d] + Lease <= claimedUntil[leg[d]]

(* The passes of two drains that attempt one leg started a lease apart.    *)
ClaimsApart ==
  \A d, e \in Drains :
    d # e /\ InAttempt(d) /\ InAttempt(e) /\ leg[d] = leg[e] =>
      passNow[d] + Lease < passNow[e] \/ passNow[e] + Lease < passNow[d]

(* Answers that mean the money moved are given of money that moved.        *)
AnswersTrue ==
  \A d \in Drains :
    /\ request[d] # "none" => pc[d] = "awaiting"
    /\ request[d] \in {"moved", "spent"} => leg[d] \in consumed
    /\ pc[d] = "marking" => leg[d] \in consumed

IInv ==
  /\ TypeOK
  /\ AttemptHoldsClaim
  /\ ClaimsApart
  /\ AnswersTrue
  /\ BooksMatchMoney
  /\ CountedOnce

-----------------------------------------------------------------------------

LEMMA InitIInv == Init => IInv
  <1> SUFFICES ASSUME Init PROVE IInv
    OBVIOUS
  <1>1. TypeOK
    BY LegsAssumption DEF Init, TypeOK, Times, NoClaim
  <1>2. AttemptHoldsClaim /\ ClaimsApart /\ AnswersTrue
    BY DEF Init, AttemptHoldsClaim, ClaimsApart, AnswersTrue, InAttempt
  <1>3. BooksMatchMoney /\ CountedOnce
    BY DEF Init, BooksMatchMoney, CountedOnce
  <1> QED
    BY <1>1, <1>2, <1>3 DEF IInv

(* What a step may do, one case for each action.                           *)
LEMMA NextCases ==
  ASSUME Next
  PROVE  \/ Tick
         \/ \E l \in Legs : Record(l) \/ LandLate(l)
         \/ \E d \in Drains :
              \/ StartPass(d) \/ ReadPending(d) \/ EndPass(d) \/ Crash(d)
              \/ \E l \in Legs : Claim(d, l) \/ SkipLeg(d, l)
              \/ Broadcast(d) \/ AnswerSettled(d) \/ AnswerFailed(d)
              \/ MarkSettled(d) \/ MarkAnswerLost(d) \/ Land(d)
  BY DEF Next, Drain

(* A request that is given up is about a leg the sink knows.               *)
LEMMA AbandonedKnown ==
  ASSUME IInv, NEW d \in Drains
  PROVE  Abandoned(d) \subseteq recorded
  BY DEF IInv, AttemptHoldsClaim, AnswersTrue, InAttempt, Abandoned

LEMMA TypeStep == ASSUME IInv, [Next]_vars PROVE TypeOK'
  <1> USE LegsAssumption DEF Times, NoClaim, passVars, rowVars
  <1>0. TypeOK /\ AttemptHoldsClaim
    BY DEF IInv
  <1>1. CASE UNCHANGED vars
    BY <1>0, <1>1 DEF TypeOK, vars
  <1>2. CASE Tick
    BY <1>0, <1>2 DEF TypeOK, Tick
  <1>3. ASSUME NEW l \in Legs, Record(l) PROVE TypeOK'
    BY <1>0, <1>3 DEF TypeOK, Record
  <1>4. ASSUME NEW l \in Legs, LandLate(l) PROVE TypeOK'
    BY <1>0, <1>4 DEF TypeOK, LandLate
  <1>5. ASSUME NEW d \in Drains, StartPass(d) PROVE TypeOK'
    BY <1>0, <1>5 DEF TypeOK, StartPass
  <1>6. ASSUME NEW d \in Drains, ReadPending(d) PROVE TypeOK'
    BY <1>0, <1>6 DEF TypeOK, ReadPending, Pending, Outstanding
  <1>7. ASSUME NEW d \in Drains, EndPass(d) PROVE TypeOK'
    BY <1>0, <1>7, AbandonedKnown DEF TypeOK, EndPass, LeavePass, AttemptHoldsClaim
  <1>8. ASSUME NEW d \in Drains, Crash(d) PROVE TypeOK'
    BY <1>0, <1>8, AbandonedKnown DEF TypeOK, Crash, LeavePass
  <1>9. ASSUME NEW d \in Drains, NEW l \in Legs, Claim(d, l) PROVE TypeOK'
    BY <1>0, <1>9 DEF TypeOK, Claim, IsNext, AttemptHoldsClaim
  <1>10. ASSUME NEW d \in Drains, NEW l \in Legs, SkipLeg(d, l) PROVE TypeOK'
    BY <1>0, <1>10 DEF TypeOK, SkipLeg
  <1>11. ASSUME NEW d \in Drains, Broadcast(d) PROVE TypeOK'
    BY <1>0, <1>11 DEF TypeOK, Broadcast
  <1>12. ASSUME NEW d \in Drains, AnswerSettled(d) PROVE TypeOK'
    BY <1>0, <1>12 DEF TypeOK, AnswerSettled
  <1>13. ASSUME NEW d \in Drains, AnswerFailed(d) PROVE TypeOK'
    BY <1>0, <1>13, AbandonedKnown DEF TypeOK, AnswerFailed, GiveUpLeg, AttemptHoldsClaim, InAttempt
  <1>14. ASSUME NEW d \in Drains, MarkSettled(d) PROVE TypeOK'
    BY <1>0, <1>14, AbandonedKnown DEF TypeOK, MarkSettled, GiveUpLeg, AttemptHoldsClaim, InAttempt
  <1>15. ASSUME NEW d \in Drains, MarkAnswerLost(d) PROVE TypeOK'
    BY <1>0, <1>15, AbandonedKnown DEF TypeOK, MarkAnswerLost, LeavePass, AttemptHoldsClaim, InAttempt
  <1>16. ASSUME NEW d \in Drains, Land(d) PROVE TypeOK'
    BY <1>0, <1>16, AbandonedKnown DEF TypeOK, Land, Abandoned
  <1> QED
    BY <1>1, <1>2, <1>3, <1>4, <1>5, <1>6, <1>7, <1>8, <1>9, <1>10, <1>11, <1>12,
       <1>13, <1>14, <1>15, <1>16, NextCases

-----------------------------------------------------------------------------

LEMMA AttemptStep == ASSUME IInv, [Next]_vars PROVE AttemptHoldsClaim'
  <1> USE LegsAssumption DEF AttemptHoldsClaim, InAttempt, Times, NoClaim, passVars, rowVars
  <1>0. TypeOK /\ AttemptHoldsClaim
    BY DEF IInv
  <1>1. CASE UNCHANGED vars
    BY <1>0, <1>1 DEF vars
  <1>2. CASE Tick
    BY <1>0, <1>2 DEF TypeOK, Tick
  <1>3. ASSUME NEW l \in Legs, Record(l) \/ LandLate(l) PROVE AttemptHoldsClaim'
    BY <1>0, <1>3 DEF Record, LandLate
  <1>4. ASSUME NEW d \in Drains, StartPass(d) PROVE AttemptHoldsClaim'
    BY <1>0, <1>4 DEF TypeOK, StartPass
  <1>5. ASSUME NEW d \in Drains, ReadPending(d) PROVE AttemptHoldsClaim'
    BY <1>0, <1>5 DEF TypeOK, ReadPending
  <1>6. ASSUME NEW d \in Drains, EndPass(d) \/ Crash(d) \/ MarkAnswerLost(d)
        PROVE AttemptHoldsClaim'
    BY <1>0, <1>6 DEF TypeOK, EndPass, Crash, MarkAnswerLost, LeavePass
  <1>7. ASSUME NEW d \in Drains, NEW l \in Legs, Claim(d, l) PROVE AttemptHoldsClaim'
    \* The claim it takes was lapsed at the start of the pass, so it only grows.
    <2>1. l \in recorded
      BY <1>0, <1>7 DEF TypeOK, Claim, IsNext
    <2>2. claimedUntil[l] < passNow[d] + Lease
      BY <1>0, <1>7 DEF TypeOK, Claim, Claimable
    <2>3. \A m \in Legs : claimedUntil[m] <= claimedUntil'[m]
      BY <1>0, <1>7, <2>2 DEF TypeOK, Claim
    <2> SUFFICES ASSUME NEW e \in Drains
                 PROVE  /\ passNow'[e] <= clock'
                        /\ InAttempt(e)' => /\ leg'[e] \in recorded'
                                            /\ passNow'[e] + Lease <= claimedUntil'[leg'[e]]
      OBVIOUS
    <2>4. CASE e = d
      BY <1>0, <1>7, <2>1, <2>4 DEF TypeOK, Claim
    <2>5. CASE e # d
      BY <1>0, <1>7, <2>3, <2>5 DEF TypeOK, Claim
    <2> QED
      BY <2>4, <2>5
  <1>8. ASSUME NEW d \in Drains, NEW l \in Legs, SkipLeg(d, l) PROVE AttemptHoldsClaim'
    BY <1>0, <1>8 DEF SkipLeg
  <1>9. ASSUME NEW d \in Drains, Broadcast(d) \/ AnswerSettled(d) PROVE AttemptHoldsClaim'
    BY <1>0, <1>9 DEF TypeOK, Broadcast, AnswerSettled
  <1>10. ASSUME NEW d \in Drains, AnswerFailed(d) \/ MarkSettled(d) PROVE AttemptHoldsClaim'
    BY <1>0, <1>10 DEF TypeOK, AnswerFailed, MarkSettled, GiveUpLeg
  <1>11. ASSUME NEW d \in Drains, Land(d) PROVE AttemptHoldsClaim'
    BY <1>0, <1>11 DEF Land
  <1> QED
    BY <1>1, <1>2, <1>3, <1>4, <1>5, <1>6, <1>7, <1>8, <1>9, <1>10, <1>11, NextCases

(* Only a claim can bring two attempts to one leg, and it comes from a     *)
(* pass that started after every claim it overwrites had lapsed.           *)
LEMMA ApartStep == ASSUME IInv, [Next]_vars PROVE ClaimsApart'
  <1> USE LegsAssumption DEF InAttempt, passVars, rowVars
  <1>0. TypeOK /\ AttemptHoldsClaim /\ ClaimsApart
    BY DEF IInv
  <1>1. CASE UNCHANGED vars
    BY <1>0, <1>1 DEF vars, ClaimsApart
  <1>2. CASE Tick \/ \E l \in Legs : Record(l) \/ LandLate(l)
    BY <1>0, <1>2 DEF Tick, Record, LandLate, ClaimsApart
  <1>3. ASSUME NEW d \in Drains,
               StartPass(d) \/ ReadPending(d) \/ EndPass(d) \/ Crash(d) \/ MarkAnswerLost(d)
        PROVE ClaimsApart'
    BY <1>0, <1>3
    DEF TypeOK, ClaimsApart, StartPass, ReadPending, EndPass, Crash, MarkAnswerLost, LeavePass
  <1>4. ASSUME NEW d \in Drains, NEW l \in Legs, Claim(d, l) PROVE ClaimsApart'
    <2>1. \A e \in Drains : InAttempt(e) /\ leg[e] = l => passNow[e] + Lease < passNow[d]
      BY <1>0, <1>4 DEF TypeOK, AttemptHoldsClaim, Claim, Claimable, Times, NoClaim
    <2>2. /\ passNow' = passNow /\ leg'[d] = l
          /\ \A e \in Drains : e # d => leg'[e] = leg[e] /\ pc'[e] = pc[e]
      BY <1>0, <1>4 DEF TypeOK, Claim
    <2>3. ASSUME NEW e \in Drains, NEW f \in Drains, e # f,
                 InAttempt(e)', InAttempt(f)', leg'[e] = leg'[f]
          PROVE  passNow[e] + Lease < passNow[f] \/ passNow[f] + Lease < passNow[e]
      <3>1. CASE e = d
        BY <2>1, <2>2, <2>3, <3>1
      <3>2. CASE f = d
        BY <2>1, <2>2, <2>3, <3>2
      <3>3. CASE e # d /\ f # d
        BY <1>0, <2>2, <2>3, <3>3 DEF ClaimsApart
      <3> QED
        BY <3>1, <3>2, <3>3
    <2> QED
      BY <2>2, <2>3 DEF ClaimsApart
  <1>5. ASSUME NEW d \in Drains, NEW l \in Legs, SkipLeg(d, l) PROVE ClaimsApart'
    BY <1>0, <1>5 DEF SkipLeg, ClaimsApart
  <1>6. ASSUME NEW d \in Drains, Broadcast(d) \/ AnswerSettled(d) PROVE ClaimsApart'
    BY <1>0, <1>6 DEF TypeOK, Broadcast, AnswerSettled, ClaimsApart
  <1>7. ASSUME NEW d \in Drains, AnswerFailed(d) \/ MarkSettled(d) PROVE ClaimsApart'
    BY <1>0, <1>7 DEF TypeOK, AnswerFailed, MarkSettled, GiveUpLeg, ClaimsApart
  <1>8. ASSUME NEW d \in Drains, Land(d) PROVE ClaimsApart'
    BY <1>0, <1>8 DEF Land, ClaimsApart
  <1> QED
    BY <1>1, <1>2, <1>3, <1>4, <1>5, <1>6, <1>7, <1>8, NextCases

LEMMA AnswersStep == ASSUME IInv, [Next]_vars PROVE AnswersTrue'
  <1> USE DEF AnswersTrue, passVars, rowVars
  <1>0. TypeOK /\ AnswersTrue
    BY DEF IInv
  <1>1. CASE UNCHANGED vars
    BY <1>0, <1>1 DEF vars
  <1>2. CASE Tick \/ \E l \in Legs : Record(l) \/ LandLate(l)
    BY <1>0, <1>2 DEF Tick, Record, LandLate
  <1>3. ASSUME NEW d \in Drains, StartPass(d) \/ ReadPending(d) PROVE AnswersTrue'
    BY <1>0, <1>3 DEF TypeOK, StartPass, ReadPending
  <1>4. ASSUME NEW d \in Drains, EndPass(d) \/ Crash(d) \/ MarkAnswerLost(d) PROVE AnswersTrue'
    BY <1>0, <1>4 DEF TypeOK, EndPass, Crash, MarkAnswerLost, LeavePass
  <1>5. ASSUME NEW d \in Drains, NEW l \in Legs, Claim(d, l) \/ SkipLeg(d, l) PROVE AnswersTrue'
    BY <1>0, <1>5 DEF TypeOK, Claim, SkipLeg
  <1>6. ASSUME NEW d \in Drains, Broadcast(d) PROVE AnswersTrue'
    BY <1>0, <1>6 DEF TypeOK, Broadcast
  <1>7. ASSUME NEW d \in Drains, AnswerSettled(d) PROVE AnswersTrue'
    BY <1>0, <1>7 DEF TypeOK, AnswerSettled, MeansMoved
  <1>8. ASSUME NEW d \in Drains, AnswerFailed(d) \/ MarkSettled(d) PROVE AnswersTrue'
    BY <1>0, <1>8 DEF TypeOK, AnswerFailed, MarkSettled, GiveUpLeg
  <1>9. ASSUME NEW d \in Drains, Land(d) PROVE AnswersTrue'
    BY <1>0, <1>9 DEF TypeOK, Land
  <1> QED
    BY <1>1, <1>2, <1>3, <1>4, <1>5, <1>6, <1>7, <1>8, <1>9, NextCases

LEMMA BooksStep == ASSUME IInv, [Next]_vars PROVE BooksMatchMoney' /\ CountedOnce'
  <1> DEFINE Goal == BooksMatchMoney /\ CountedOnce
  <1> USE DEF BooksMatchMoney, CountedOnce, rowVars
  <1>0. TypeOK /\ AttemptHoldsClaim /\ AnswersTrue /\ Goal
    BY DEF IInv
  <1>1. CASE UNCHANGED vars
    BY <1>0, <1>1 DEF vars
  <1>2. CASE Tick \/ \E l \in Legs : Record(l) \/ LandLate(l)
    BY <1>0, <1>2 DEF Tick, Record, LandLate
  <1>3. ASSUME NEW d \in Drains,
               \/ StartPass(d) \/ ReadPending(d) \/ EndPass(d) \/ Crash(d)
               \/ \E l \in Legs : Claim(d, l) \/ SkipLeg(d, l)
               \/ Broadcast(d) \/ AnswerSettled(d) \/ AnswerFailed(d) \/ Land(d)
        PROVE Goal'
    BY <1>0, <1>3 DEF StartPass, ReadPending, EndPass, Crash, Claim, SkipLeg,
                      Broadcast, AnswerSettled, AnswerFailed, Land
  <1>4. ASSUME NEW d \in Drains, MarkSettled(d) PROVE Goal'
    BY <1>0, <1>4 DEF TypeOK, AnswersTrue, AttemptHoldsClaim, InAttempt, MarkSettled
  <1>5. ASSUME NEW d \in Drains, MarkAnswerLost(d) PROVE Goal'
    BY <1>0, <1>5 DEF TypeOK, AnswersTrue, AttemptHoldsClaim, InAttempt, MarkAnswerLost
  <1> QED
    BY <1>1, <1>2, <1>3, <1>4, <1>5, NextCases

-----------------------------------------------------------------------------

(* IInv is an invariant: the facts below all rest on it.                   *)
THEOREM Inductive == Spec => []IInv
  <1>1. IInv /\ [Next]_vars => IInv'
    BY TypeStep, AttemptStep, ApartStep, AnswersStep, BooksStep DEF IInv
  <1> QED
    BY InitIInv, <1>1, PTL DEF Spec

(* Every variable of the sink and of the drains stays in its range.        *)
THEOREM TypeCorrect == Spec => []TypeOK
  <1>1. IInv => TypeOK
    BY DEF IInv
  <1> QED
    BY Inductive, <1>1, PTL

(* A leg booked as settled is a leg whose money moved (settleOneLeg).      *)
THEOREM BooksAreTrue == Spec => []BooksMatchMoney
  <1>1. IInv => BooksMatchMoney
    BY DEF IInv
  <1> QED
    BY Inductive, <1>1, PTL

(* No leg is counted twice, whichever passes race for it (markSettled).    *)
THEOREM CountsOnce == Spec => []CountedOnce
  <1>1. IInv => CountedOnce
    BY DEF IInv
  <1> QED
    BY Inductive, <1>1, PTL

(* Two claims that both hold are never on one leg (claim).                 *)
THEOREM LiveClaimsAreExclusive == Spec => []LiveClaimsExclude
  <1>1. IInv => LiveClaimsExclude
    BY LegsAssumption
    DEF IInv, TypeOK, Times, AttemptHoldsClaim, ClaimsApart, InAttempt,
        LiveClaimsExclude, LiveClaim, Attempting
  <1> QED
    BY Inductive, <1>1, PTL

(* A claim is replaced only after it lapsed, and only by a longer one.     *)
THEOREM LeaseIsKept == Spec => LeaseOutlivesFailure
  <1> DEFINE Kept == \A l \in Legs : claimedUntil'[l] # claimedUntil[l] =>
                       claimedUntil[l] < clock /\ claimedUntil[l] < claimedUntil'[l]
  <1>1. ASSUME IInv, [Next]_vars PROVE [Kept]_vars
    <2>0. TypeOK /\ AttemptHoldsClaim
      BY <1>1 DEF IInv
    <2>1. ASSUME NEW d \in Drains, NEW l \in Legs, Claim(d, l) PROVE Kept
      BY <2>0, <2>1, LegsAssumption
      DEF TypeOK, Times, NoClaim, AttemptHoldsClaim, Claim, Claimable
    <2>2. CASE ~\E d \in Drains, l \in Legs : Claim(d, l)
      BY <1>1, <2>2, NextCases
      DEF vars, rowVars, Tick, Record, LandLate, StartPass, ReadPending, EndPass, Crash, SkipLeg,
          Broadcast, AnswerSettled, AnswerFailed, MarkSettled, MarkAnswerLost, Land
    <2> QED
      BY <2>1, <2>2
  <1> QED
    BY Inductive, <1>1, PTL DEF Spec, LeaseOutlivesFailure

(* Every step of the sink, the drains and the facilitator is a step of the *)
(* ledger or changes nothing it shows.                                     *)
THEOREM Implementation == Spec => ImplementsLedger
  <1> USE DEF Ledger!ledgerVars
  <1>1. Init => Ledger!LedgerInit
    BY DEF Init, Ledger!LedgerInit
  <1>2. ASSUME IInv, [Next]_vars PROVE [Ledger!LedgerNext]_(Ledger!ledgerVars)
    <2> USE DEF Ledger!LedgerNext, rowVars
    <2>0. TypeOK /\ AttemptHoldsClaim /\ AnswersTrue
      BY <1>2 DEF IInv
    <2>1. CASE Tick
      BY <2>1 DEF Tick, Ledger!Elapse
    <2>2. ASSUME NEW l \in Legs, Record(l) PROVE Ledger!LedgerNext
      BY <2>2 DEF Record, Ledger!Authorize
    <2>3. ASSUME NEW l \in Legs, LandLate(l) PROVE Ledger!LedgerNext
      BY <2>0, <2>3 DEF TypeOK, LandLate, CanConsume, Ledger!Move
    <2>4. ASSUME NEW d \in Drains, Land(d) PROVE [Ledger!LedgerNext]_(Ledger!ledgerVars)
      <3>1. leg[d] \in recorded /\ leg[d] \in Legs
        BY <2>0, <2>4 DEF TypeOK, AttemptHoldsClaim, AnswersTrue, InAttempt, Land
      <3>2. CASE consumed' = consumed
        BY <2>4, <3>2 DEF Land
      <3>3. CASE CanConsume(leg[d]) /\ consumed' = consumed \cup {leg[d]}
        BY <2>4, <3>1, <3>3 DEF Land, CanConsume, Ledger!Move
      <3> QED
        BY <2>4, <3>2, <3>3 DEF Land
    <2>5. ASSUME NEW d \in Drains, MarkSettled(d) \/ MarkAnswerLost(d)
          PROVE  [Ledger!LedgerNext]_(Ledger!ledgerVars)
      <3>1. leg[d] \in consumed /\ leg[d] \in Legs
        BY <2>0, <2>5 DEF TypeOK, AttemptHoldsClaim, AnswersTrue, InAttempt,
                          MarkSettled, MarkAnswerLost
      <3>2. CASE leg[d] \in settled
        BY <2>5, <3>2 DEF MarkSettled, MarkAnswerLost
      <3>3. CASE leg[d] \notin settled
        BY <2>5, <3>1, <3>3 DEF MarkSettled, MarkAnswerLost, Ledger!Book
      <3> QED
        BY <3>2, <3>3
    <2>6. CASE UNCHANGED <<recorded, settled, consumed, clock>>
      BY <2>6
    <2> QED
      BY <1>2, <2>1, <2>2, <2>3, <2>4, <2>5, <2>6, NextCases
      DEF vars, StartPass, ReadPending, EndPass, Crash, Claim, SkipLeg,
          Broadcast, AnswerSettled, AnswerFailed
  <1> QED
    BY Inductive, <1>1, <1>2, PTL DEF Spec, ImplementsLedger, Ledger!LedgerSpec


-----------------------------------------------------------------------------
(* The amounts.                                                             *)

(* Sums over finite sets.  The library's fold is a recursive function on    *)
(* the subsets of its set; that there is one, and that it does not depend   *)
(* on the order in which elements are picked, is proved by taking a         *)
(* smallest subset that would be an exception.                              *)

Sum(f, S) == SumFunctionOnSet(f, S)

PickOne(s) == CHOOSE x \in s : TRUE
Adds(g, f, S) ==
  g = [s \in SUBSET S |-> IF s = {} THEN 0 ELSE f[PickOne(s)] + g[s \ {PickOne(s)}]]
Adder(f, S) == CHOOSE g : Adds(g, f, S)

LEMMA SumIsAdder == ASSUME NEW f, NEW S PROVE Sum(f, S) = Adder(f, S)[S]
  BY DEF Sum, SumFunctionOnSet, FoldFunctionOnSet, MapThenFoldSet, Adder, Adds, PickOne

(* If some subset of S is in Bad, a smallest one is.                        *)
LEMMA SmallestSubset ==
  ASSUME NEW S, IsFiniteSet(S), NEW Bad, Bad \subseteq SUBSET S, Bad # {}
  PROVE  \E T \in Bad : \A U \in SUBSET T : U # T => U \notin Bad
  <1>1. FiniteSubsetsOf(S) = SUBSET S
    BY FS_FiniteSubsetsOfFinite
  <1>2. IsWellFoundedOn(StrictSubsetOrdering(S), SUBSET S)
    BY <1>1, FS_StrictSubsetOrderingWellFounded
  <1>3. \E T \in Bad : \A U \in Bad : ~(<<U, T>> \in StrictSubsetOrdering(S))
    BY <1>2, WFMin
  <1>4. PICK T \in Bad : \A U \in Bad : ~(<<U, T>> \in StrictSubsetOrdering(S))
    BY <1>3
  <1>5. ASSUME NEW U \in SUBSET T, U # T, U \in Bad PROVE FALSE
    <2>1. U \in SUBSET S /\ T \in SUBSET S
      OBVIOUS
    <2>2. <<U, T>> \in StrictSubsetOrdering(S)
      BY <1>5, <2>1 DEF StrictSubsetOrdering
    <2> QED
      BY <1>4, <1>5, <2>2
  <1> QED
    BY <1>5

LEMMA Picked == ASSUME NEW s, s # {} PROVE PickOne(s) \in s
  BY DEF PickOne

(* Two adders agree wherever both add.                                      *)
LEMMA AddersAgree ==
  ASSUME NEW f, NEW S, NEW T, IsFiniteSet(S), NEW g, NEW h, Adds(g, f, S), Adds(h, f, T),
         NEW U, U \subseteq S, U \subseteq T
  PROVE  g[U] = h[U]
  <1> DEFINE Bad == {V \in SUBSET (S \cap T) : g[V] # h[V]}
  <1>1. SUFFICES Bad = {}
    OBVIOUS
  <1>2. SUFFICES ASSUME Bad # {} PROVE FALSE
    OBVIOUS
  <1>3. Bad \subseteq SUBSET S
    OBVIOUS
  <1>4. PICK V \in Bad : \A W \in SUBSET V : W # V => W \notin Bad
    <2> HIDE DEF Bad
    <2> QED
      BY <1>2, <1>3, SmallestSubset
  <1>5. /\ g[V] = IF V = {} THEN 0 ELSE f[PickOne(V)] + g[V \ {PickOne(V)}]
        /\ h[V] = IF V = {} THEN 0 ELSE f[PickOne(V)] + h[V \ {PickOne(V)}]
    BY DEF Adds
  <1>6. V # {}
    BY <1>5
  <1>7. V \ {PickOne(V)} \in SUBSET V /\ V \ {PickOne(V)} # V
    BY <1>6, Picked
  <1>8. g[V \ {PickOne(V)}] = h[V \ {PickOne(V)}]
    BY <1>4, <1>7
  <1> QED
    BY <1>5, <1>8

LEMMA AdderExists ==
  ASSUME NEW f, NEW S, IsFiniteSet(S) PROVE \E g : Adds(g, f, S)
  <1> DEFINE Bad == {T \in SUBSET S : ~ \E g : Adds(g, f, T)}
  <1>1. SUFFICES ASSUME Bad # {} PROVE FALSE
    OBVIOUS
  <1>2. Bad \subseteq SUBSET S
    OBVIOUS
  <1>3. PICK T \in Bad : \A U \in SUBSET T : U # T => U \notin Bad
    <2> HIDE DEF Bad
    <2> QED
      BY <1>1, <1>2, SmallestSubset
  <1>4. IsFiniteSet(T) /\ \A U \in SUBSET T : IsFiniteSet(U)
    BY FS_Subset
  <1>5. \A U \in SUBSET T : U # T => \E g : Adds(g, f, U)
    BY <1>3
  <1> DEFINE V(U) == Adder(f, U)[U]
             g == [s \in SUBSET T |-> IF s = {} THEN 0 ELSE f[PickOne(s)] + V(s \ {PickOne(s)})]
  <1>6. \A U \in SUBSET T : U # T => Adds(Adder(f, U), f, U)
    BY <1>5 DEF Adder
  <1>7. \A U \in SUBSET T : U # T => V(U) = g[U]
    <2> SUFFICES ASSUME NEW U \in SUBSET T, U # T PROVE V(U) = g[U]
      OBVIOUS
    <2>1. Adds(Adder(f, U), f, U)
      BY <1>6
    <2>2. Adder(f, U)[U] = IF U = {} THEN 0 ELSE f[PickOne(U)] + Adder(f, U)[U \ {PickOne(U)}]
      <3>1. U \in SUBSET U
        OBVIOUS
      <3> QED
        BY <2>1, <3>1 DEF Adds
    <2>3. g[U] = IF U = {} THEN 0 ELSE f[PickOne(U)] + V(U \ {PickOne(U)})
      OBVIOUS
    <2>4. CASE U = {}
      BY <2>2, <2>3, <2>4
    <2>5. CASE U # {}
      <3> DEFINE R == U \ {PickOne(U)}
      <3>1. R \in SUBSET T /\ R # T /\ R \subseteq U
        BY <2>5, Picked
      <3>2. Adds(Adder(f, R), f, R)
        BY <1>6, <3>1
      <3>3. IsFiniteSet(U) /\ R \subseteq R
        BY <1>4
      <3>4. Adder(f, U)[R] = Adder(f, R)[R]
        <4> HIDE DEF R
        <4> QED
          BY <2>1, <3>1, <3>2, <3>3, AddersAgree
      <3> QED
        BY <2>2, <2>3, <2>5, <3>4
    <2> QED
      BY <2>4, <2>5
  <1>8. \A s \in SUBSET T : s # {} => V(s \ {PickOne(s)}) = g[s \ {PickOne(s)}]
    <2> SUFFICES ASSUME NEW s \in SUBSET T, s # {} PROVE V(s \ {PickOne(s)}) = g[s \ {PickOne(s)}]
      OBVIOUS
    <2>1. s \ {PickOne(s)} \in SUBSET T /\ s \ {PickOne(s)} # T
      BY Picked
    <2> HIDE DEF V, g
    <2> QED
      BY <2>1, <1>7
  <1>9. \A s \in SUBSET T :
          g[s] = IF s = {} THEN 0 ELSE f[PickOne(s)] + V(s \ {PickOne(s)})
    OBVIOUS
  <1>10. g = [s \in SUBSET T |-> g[s]]
    OBVIOUS
  <1>11. Adds(g, f, T)
    <2> HIDE DEF g, V
    <2>1. \A s \in SUBSET T :
            g[s] = IF s = {} THEN 0 ELSE f[PickOne(s)] + g[s \ {PickOne(s)}]
      BY <1>8, <1>9
    <2> QED
      BY <2>1, <1>10 DEF Adds
  <1> QED
    BY <1>3, <1>11

LEMMA SumEmpty == ASSUME NEW f PROVE Sum(f, {}) = 0
  <1>1. \E g : Adds(g, f, {})
    BY AdderExists, FS_EmptySet
  <1>2. Adds(Adder(f, {}), f, {})
    BY <1>1 DEF Adder
  <1>3. {} \in SUBSET {}
    OBVIOUS
  <1>4. Adder(f, {})[{}] = 0
    BY <1>2, <1>3 DEF Adds
  <1> QED
    BY <1>4, SumIsAdder

LEMMA SumPicked ==
  ASSUME NEW f, NEW S, IsFiniteSet(S), S # {}
  PROVE  Sum(f, S) = f[PickOne(S)] + Sum(f, S \ {PickOne(S)})
  <1> DEFINE R == S \ {PickOne(S)}
  <1>1. IsFiniteSet(R) /\ R \subseteq S /\ R \subseteq R
    BY FS_Subset
  <1>2. Adds(Adder(f, S), f, S) /\ Adds(Adder(f, R), f, R)
    <2>1. (\E g : Adds(g, f, S)) /\ (\E g : Adds(g, f, R))
      BY <1>1, AdderExists
    <2> QED
      BY <2>1 DEF Adder
  <1>3. Adder(f, S)[S] = f[PickOne(S)] + Adder(f, S)[R]
    <2>1. S \in SUBSET S
      OBVIOUS
    <2> QED
      BY <1>2, <2>1 DEF Adds
  <1> HIDE DEF R
  <1>4. Adder(f, S)[R] = Adder(f, R)[R]
    BY <1>1, <1>2, AddersAgree
  <1>5. Sum(f, S) = Adder(f, S)[S] /\ Sum(f, R) = Adder(f, R)[R]
    BY SumIsAdder
  <1> QED
    BY <1>3, <1>4, <1>5 DEF R

(* Every element may be taken first.                                        *)
LEMMA SumTyped ==
  ASSUME NEW f, NEW S, IsFiniteSet(S), \A x \in S : f[x] \in Int
  PROVE  Sum(f, S) \in Int
  <1> DEFINE Bad == {T \in SUBSET S : Sum(f, T) \notin Int}
  <1>1. SUFFICES ASSUME Bad # {} PROVE FALSE
    OBVIOUS
  <1>2. Bad \subseteq SUBSET S
    OBVIOUS
  <1>3. PICK T \in Bad : \A U \in SUBSET T : U # T => U \notin Bad
    <2> HIDE DEF Bad
    <2> QED
      BY <1>1, <1>2, SmallestSubset
  <1>4. T # {}
    <2>1. Sum(f, {}) \in Int
      BY SumEmpty
    <2> QED
      BY <1>3, <2>1
  <1>5. PickOne(T) \in T /\ IsFiniteSet(T)
    BY <1>4, Picked, FS_Subset
  <1>6. Sum(f, T \ {PickOne(T)}) \in Int
    BY <1>3, <1>5
  <1>7. f[PickOne(T)] \in Int
    BY <1>5
  <1> QED
    BY <1>3, <1>4, <1>5, <1>6, <1>7, SumPicked

LEMMA SumTake ==
  ASSUME NEW f, NEW S, IsFiniteSet(S), \A x \in S : f[x] \in Int, NEW e \in S
  PROVE  Sum(f, S) = f[e] + Sum(f, S \ {e})
  <1> DEFINE Bad == {T \in SUBSET S : \E x \in T : Sum(f, T) # f[x] + Sum(f, T \ {x})}
  <1>1. SUFFICES Bad = {}
    OBVIOUS
  <1>2. SUFFICES ASSUME Bad # {} PROVE FALSE
    OBVIOUS
  <1>3. Bad \subseteq SUBSET S
    OBVIOUS
  <1>4. PICK T \in Bad : \A U \in SUBSET T : U # T => U \notin Bad
    <2> HIDE DEF Bad
    <2> QED
      BY <1>2, <1>3, SmallestSubset
  <1>5. PICK x \in T : Sum(f, T) # f[x] + Sum(f, T \ {x})
    BY <1>4
  <1> DEFINE p == PickOne(T)
  <1>6. p \in T /\ \A U \in SUBSET T : IsFiniteSet(U)
    BY <1>5, Picked, FS_Subset
  <1>7. Sum(f, T) = f[p] + Sum(f, T \ {p})
    BY <1>5, <1>6, SumPicked
  <1>8. x # p
    BY <1>5, <1>7
  <1> HIDE DEF p
  <1>9. Sum(f, T \ {p}) = f[x] + Sum(f, (T \ {p}) \ {x})
    <2>1. T \ {p} \in SUBSET T /\ T \ {p} # T /\ x \in T \ {p}
      BY <1>6, <1>8
    <2> QED
      BY <1>4, <2>1
  <1>10. Sum(f, T \ {x}) = f[p] + Sum(f, (T \ {x}) \ {p})
    <2>1. T \ {x} \in SUBSET T /\ T \ {x} # T /\ p \in T \ {x}
      BY <1>6, <1>8
    <2> QED
      BY <1>4, <2>1
  <1>11. (T \ {x}) \ {p} = (T \ {p}) \ {x}
    OBVIOUS
  <1>12. /\ f[x] \in Int /\ f[p] \in Int /\ Sum(f, (T \ {p}) \ {x}) \in Int
    <2>1. (T \ {p}) \ {x} \in SUBSET T
      OBVIOUS
    <2>2. IsFiniteSet((T \ {p}) \ {x}) /\ \A y \in (T \ {p}) \ {x} : f[y] \in Int
      BY <1>6, <2>1
    <2> QED
      BY <1>6, <2>2, SumTyped
  <1> QED
    BY <1>5, <1>7, <1>9, <1>10, <1>11, <1>12

LEMMA SumNat ==
  ASSUME NEW f, NEW S, IsFiniteSet(S), \A x \in S : f[x] \in Nat
  PROVE  Sum(f, S) \in Nat
  <1> DEFINE Bad == {T \in SUBSET S : Sum(f, T) \notin Nat}
  <1>1. SUFFICES ASSUME Bad # {} PROVE FALSE
    OBVIOUS
  <1>2. Bad \subseteq SUBSET S
    OBVIOUS
  <1>3. PICK T \in Bad : \A U \in SUBSET T : U # T => U \notin Bad
    <2> HIDE DEF Bad
    <2> QED
      BY <1>1, <1>2, SmallestSubset
  <1>4. T # {}
    <2>1. Sum(f, {}) \in Nat
      BY SumEmpty
    <2> QED
      BY <1>3, <2>1
  <1>5. PickOne(T) \in T /\ IsFiniteSet(T)
    BY <1>4, Picked, FS_Subset
  <1>6. Sum(f, T \ {PickOne(T)}) \in Nat /\ f[PickOne(T)] \in Nat
    BY <1>3, <1>5
  <1> QED
    BY <1>3, <1>4, <1>5, <1>6, SumPicked

(* Sums add, scale, and are bounded, element by element.                    *)
LEMMA SumAlike ==
  ASSUME NEW f, NEW g, NEW S, IsFiniteSet(S), \A x \in S : f[x] \in Int /\ f[x] = g[x]
  PROVE  Sum(f, S) = Sum(g, S)
  <1> DEFINE Bad == {T \in SUBSET S : Sum(f, T) # Sum(g, T)}
  <1>1. SUFFICES ASSUME Bad # {} PROVE FALSE
    OBVIOUS
  <1>2. Bad \subseteq SUBSET S
    OBVIOUS
  <1>3. PICK T \in Bad : \A U \in SUBSET T : U # T => U \notin Bad
    <2> HIDE DEF Bad
    <2> QED
      BY <1>1, <1>2, SmallestSubset
  <1>4. T # {}
    <2>1. Sum(f, {}) = Sum(g, {})
      BY SumEmpty
    <2> QED
      BY <1>3, <2>1
  <1>5. PickOne(T) \in T /\ IsFiniteSet(T)
    BY <1>4, Picked, FS_Subset
  <1>6. Sum(f, T \ {PickOne(T)}) = Sum(g, T \ {PickOne(T)})
    BY <1>3, <1>5
  <1>7. f[PickOne(T)] = g[PickOne(T)]
    BY <1>5
  <1>8. /\ Sum(f, T) = f[PickOne(T)] + Sum(f, T \ {PickOne(T)})
        /\ Sum(g, T) = g[PickOne(T)] + Sum(g, T \ {PickOne(T)})
    BY <1>4, <1>5, SumPicked
  <1> QED
    BY <1>3, <1>6, <1>7, <1>8

LEMMA SumScaled ==
  ASSUME NEW f, NEW g, NEW k \in Int, NEW S, IsFiniteSet(S),
         \A x \in S : f[x] \in Int /\ g[x] = k * f[x]
  PROVE  Sum(g, S) = k * Sum(f, S)
  <1> DEFINE Bad == {T \in SUBSET S : Sum(g, T) # k * Sum(f, T)}
  <1>1. SUFFICES ASSUME Bad # {} PROVE FALSE
    OBVIOUS
  <1>2. Bad \subseteq SUBSET S
    OBVIOUS
  <1>3. PICK T \in Bad : \A U \in SUBSET T : U # T => U \notin Bad
    <2> HIDE DEF Bad
    <2> QED
      BY <1>1, <1>2, SmallestSubset
  <1>4. T # {}
    <2>1. Sum(f, {}) = 0 /\ Sum(g, {}) = 0
      BY SumEmpty
    <2>2. Sum(g, {}) = k * Sum(f, {})
      BY <2>1
    <2> QED
      BY <1>3, <2>2
  <1> DEFINE p == PickOne(T)
             R == T \ {p}
  <1>5. p \in T /\ IsFiniteSet(T) /\ IsFiniteSet(R) /\ R \subseteq S
    BY <1>4, Picked, FS_Subset
  <1>6. Sum(g, R) = k * Sum(f, R)
    BY <1>3, <1>5
  <1>7. g[p] = k * f[p] /\ f[p] \in Int
    BY <1>5
  <1>8. Sum(f, T) = f[p] + Sum(f, R) /\ Sum(g, T) = g[p] + Sum(g, R)
    BY <1>4, <1>5, SumPicked
  <1>9. Sum(f, R) \in Int
    BY <1>5, SumTyped
  <1>10. Sum(g, T) # k * Sum(f, T)
    BY <1>3
  <1> HIDE DEF p, R
  <1>11. k * (f[p] + Sum(f, R)) = k * f[p] + k * Sum(f, R)
    BY <1>7, <1>9
  <1> QED
    BY <1>6, <1>7, <1>8, <1>10, <1>11

LEMMA SumPlus ==
  ASSUME NEW f, NEW g, NEW h, NEW S, IsFiniteSet(S),
         \A x \in S : f[x] \in Int /\ g[x] \in Int /\ h[x] = f[x] + g[x]
  PROVE  Sum(h, S) = Sum(f, S) + Sum(g, S)
  <1> DEFINE Bad == {T \in SUBSET S : Sum(h, T) # Sum(f, T) + Sum(g, T)}
  <1>1. SUFFICES ASSUME Bad # {} PROVE FALSE
    OBVIOUS
  <1>2. Bad \subseteq SUBSET S
    OBVIOUS
  <1>3. PICK T \in Bad : \A U \in SUBSET T : U # T => U \notin Bad
    <2> HIDE DEF Bad
    <2> QED
      BY <1>1, <1>2, SmallestSubset
  <1>4. T # {}
    <2>1. Sum(f, {}) = 0 /\ Sum(g, {}) = 0 /\ Sum(h, {}) = 0
      BY SumEmpty
    <2>2. Sum(h, {}) = Sum(f, {}) + Sum(g, {})
      BY <2>1
    <2> QED
      BY <1>3, <2>2
  <1> DEFINE p == PickOne(T)
             R == T \ {p}
  <1>5. p \in T /\ IsFiniteSet(T) /\ IsFiniteSet(R) /\ R \subseteq S
    BY <1>4, Picked, FS_Subset
  <1>6. Sum(h, R) = Sum(f, R) + Sum(g, R)
    BY <1>3, <1>5
  <1>7. h[p] = f[p] + g[p] /\ f[p] \in Int /\ g[p] \in Int
    BY <1>5
  <1>8. /\ Sum(f, T) = f[p] + Sum(f, R) /\ Sum(g, T) = g[p] + Sum(g, R)
        /\ Sum(h, T) = h[p] + Sum(h, R)
    BY <1>4, <1>5, SumPicked
  <1>9. Sum(f, R) \in Int /\ Sum(g, R) \in Int
    BY <1>5, SumTyped
  <1>10. Sum(h, T) # Sum(f, T) + Sum(g, T)
    BY <1>3
  <1> HIDE DEF p, R
  <1> QED
    BY <1>6, <1>7, <1>8, <1>9, <1>10

LEMMA SumBounded ==
  ASSUME NEW f, NEW k \in Nat, NEW S, IsFiniteSet(S),
         \A x \in S : f[x] \in Nat /\ f[x] <= k
  PROVE  Sum(f, S) \in Nat /\ Sum(f, S) <= k * Cardinality(S)
  <1> DEFINE Bad == {T \in SUBSET S : ~(Sum(f, T) \in Nat /\ Sum(f, T) <= k * Cardinality(T))}
  <1>1. SUFFICES ASSUME Bad # {} PROVE FALSE
    OBVIOUS
  <1>2. Bad \subseteq SUBSET S
    OBVIOUS
  <1>3. PICK T \in Bad : \A U \in SUBSET T : U # T => U \notin Bad
    <2> HIDE DEF Bad
    <2> QED
      BY <1>1, <1>2, SmallestSubset
  <1>4. T # {}
    <2>1. Sum(f, {}) = 0 /\ Cardinality({}) = 0
      BY SumEmpty, FS_EmptySet
    <2>2. Sum(f, {}) \in Nat /\ Sum(f, {}) <= k * Cardinality({})
      BY <2>1
    <2> QED
      BY <1>3, <2>2
  <1> DEFINE p == PickOne(T)
             R == T \ {p}
  <1>5. p \in T /\ IsFiniteSet(T) /\ IsFiniteSet(R) /\ R \subseteq S
    BY <1>4, Picked, FS_Subset
  <1>6. Sum(f, R) \in Nat /\ Sum(f, R) <= k * Cardinality(R)
    BY <1>3, <1>5
  <1>7. f[p] \in Nat /\ f[p] <= k
    BY <1>5
  <1>8. Sum(f, T) = f[p] + Sum(f, R)
    BY <1>4, <1>5, SumPicked
  <1>9. Cardinality(T) = Cardinality(R) + 1 /\ Cardinality(R) \in Nat
    BY <1>5, FS_RemoveElement, FS_CardinalityType
  <1>10. ~(Sum(f, T) \in Nat /\ Sum(f, T) <= k * Cardinality(T))
    BY <1>3
  <1> HIDE DEF p, R
  <1>11. k * (Cardinality(R) + 1) = k * Cardinality(R) + k /\ k * Cardinality(R) \in Nat
    BY <1>9
  <1> QED
    BY <1>6, <1>7, <1>8, <1>9, <1>10, <1>11

LEMMA SumCounts ==
  ASSUME NEW f, NEW S, IsFiniteSet(S), \A x \in S : f[x] \in {0, 1}
  PROVE  Sum(f, S) = Cardinality({x \in S : f[x] = 1})
  <1> DEFINE Ones(T) == {x \in T : f[x] = 1}
             Bad == {T \in SUBSET S : Sum(f, T) # Cardinality(Ones(T))}
  <1>1. SUFFICES ASSUME Bad # {} PROVE FALSE
    OBVIOUS
  <1>2. Bad \subseteq SUBSET S
    OBVIOUS
  <1>3. PICK T \in Bad : \A U \in SUBSET T : U # T => U \notin Bad
    <2> HIDE DEF Bad
    <2> QED
      BY <1>1, <1>2, SmallestSubset
  <1>4. T # {}
    <2>1. Sum(f, {}) = 0 /\ Cardinality({}) = 0 /\ Ones({}) = {}
      BY SumEmpty, FS_EmptySet
    <2> QED
      BY <1>3, <2>1
  <1> DEFINE p == PickOne(T)
             R == T \ {p}
  <1>5. p \in T /\ IsFiniteSet(T) /\ IsFiniteSet(R) /\ R \subseteq S
    BY <1>4, Picked, FS_Subset
  <1>6. Sum(f, R) = Cardinality(Ones(R))
    BY <1>3, <1>5
  <1>7. f[p] \in {0, 1}
    BY <1>5
  <1>8. Sum(f, T) = f[p] + Sum(f, R)
    BY <1>4, <1>5, SumPicked
  <1>9. Sum(f, T) # Cardinality(Ones(T))
    BY <1>3
  <1>10. IsFiniteSet(Ones(R)) /\ p \notin Ones(R)
    BY <1>5, FS_Subset
  <1>11. CASE f[p] = 1
    <2>1. Ones(T) = Ones(R) \cup {p}
      BY <1>5, <1>11
    <2> HIDE DEF Ones, p, R
    <2>2. Cardinality(Ones(T)) = Cardinality(Ones(R)) + 1 /\ Cardinality(Ones(R)) \in Nat
      BY <1>10, <2>1, FS_AddElement, FS_CardinalityType
    <2> QED
      BY <1>6, <1>8, <1>9, <1>11, <2>2
  <1>12. CASE f[p] = 0
    <2>1. Ones(T) = Ones(R)
      BY <1>5, <1>12
    <2> HIDE DEF Ones, p, R
    <2>2. Cardinality(Ones(R)) \in Nat
      BY <1>10, FS_CardinalityType
    <2> QED
      BY <1>6, <1>8, <1>9, <1>12, <2>1, <2>2
  <1> QED
    BY <1>7, <1>11, <1>12

(* Sums over two sets without a common element.                             *)
LEMMA SumUnion ==
  ASSUME NEW f, NEW A, NEW B, IsFiniteSet(A), IsFiniteSet(B), A \cap B = {},
         \A x \in A \cup B : f[x] \in Int
  PROVE  Sum(f, A \cup B) = Sum(f, A) + Sum(f, B)
  <1> DEFINE Bad == {T \in SUBSET A : Sum(f, T \cup B) # Sum(f, T) + Sum(f, B)}
  <1>0. Sum(f, B) \in Int
    BY SumTyped
  <1>1. SUFFICES Bad = {}
    OBVIOUS
  <1>2. SUFFICES ASSUME Bad # {} PROVE FALSE
    OBVIOUS
  <1>3. Bad \subseteq SUBSET A
    OBVIOUS
  <1>4. PICK T \in Bad : \A U \in SUBSET T : U # T => U \notin Bad
    <2> HIDE DEF Bad
    <2> QED
      BY <1>2, <1>3, SmallestSubset
  <1>5. T # {}
    <2>1. Sum(f, {}) = 0 /\ {} \cup B = B
      BY SumEmpty
    <2>2. Sum(f, {} \cup B) = Sum(f, {}) + Sum(f, B)
      BY <2>1, <1>0
    <2> QED
      BY <1>4, <2>2
  <1> DEFINE p == PickOne(T)
             R == T \ {p}
  <1>6. p \in T /\ IsFiniteSet(T) /\ IsFiniteSet(R) /\ R \subseteq A
    BY <1>5, Picked, FS_Subset
  <1>7. Sum(f, R \cup B) = Sum(f, R) + Sum(f, B)
    BY <1>4, <1>6
  <1>8. Sum(f, T) = f[p] + Sum(f, R)
    BY <1>5, <1>6, SumPicked
  <1>9. Sum(f, T \cup B) = f[p] + Sum(f, R \cup B)
    <2>1. (T \cup B) \ {p} = R \cup B /\ p \in T \cup B
      BY <1>6
    <2>2. IsFiniteSet(T \cup B) /\ \A x \in T \cup B : f[x] \in Int
      BY <1>6, FS_Union
    <2> HIDE DEF p, R
    <2>3. Sum(f, T \cup B) = f[p] + Sum(f, (T \cup B) \ {p})
      BY <2>1, <2>2, SumTake
    <2> QED
      BY <2>1, <2>3
  <1>10. Sum(f, R) \in Int /\ f[p] \in Int
    BY <1>6, SumTyped
  <1>11. Sum(f, T \cup B) # Sum(f, T) + Sum(f, B)
    BY <1>4
  <1> HIDE DEF p, R
  <1> QED
    BY <1>0, <1>7, <1>8, <1>9, <1>10, <1>11

(* Elements that count for nothing may be left out.                         *)
LEMMA SumDropsZeros ==
  ASSUME NEW f, NEW S, IsFiniteSet(S), \A x \in S : f[x] \in Int,
         NEW T \in SUBSET S, \A x \in S \ T : f[x] = 0
  PROVE  Sum(f, S) = Sum(f, T)
  <1> DEFINE Z == S \ T
  <1>1. IsFiniteSet(T) /\ IsFiniteSet(Z) /\ T \cap Z = {} /\ S = T \cup Z
    BY FS_Subset
  <1>2. \A x \in Z : f[x] \in Nat /\ f[x] <= 0
    OBVIOUS
  <1> HIDE DEF Z
  <1>3. Sum(f, Z) \in Nat /\ Sum(f, Z) <= 0 * Cardinality(Z)
    BY <1>1, <1>2, SumBounded
  <1>4. Cardinality(Z) \in Nat
    BY <1>1, FS_CardinalityType
  <1>5. Sum(f, Z) = 0
    BY <1>3, <1>4
  <1>6. Sum(f, S) = Sum(f, T) + Sum(f, Z)
    BY <1>1, SumUnion
  <1>7. Sum(f, T) \in Int
    BY <1>1, SumTyped
  <1> QED
    BY <1>5, <1>6, <1>7

WithKey(key, S, w) == {x \in S : key[x] = w}
Named(name, V) == {name[v] : v \in V}

(* A sum may be taken key by key.                                           *)
LEMMA SumByKey ==
  ASSUME NEW f, NEW key, NEW S, IsFiniteSet(S), \A x \in S : f[x] \in Int,
         NEW W, IsFiniteSet(W), \A x \in S : key[x] \in W,
         NEW h, \A w \in W : h[w] = Sum(f, WithKey(key, S, w))
  PROVE  Sum(h, W) = Sum(f, S)
  <1> DEFINE Of(V) == {x \in S : key[x] \in V}
             Bad == {V \in SUBSET W : Sum(h, V) # Sum(f, Of(V))}
  <1>0. Of(W) = S
    OBVIOUS
  <1>1. SUFFICES Bad = {}
    BY <1>0
  <1>2. SUFFICES ASSUME Bad # {} PROVE FALSE
    OBVIOUS
  <1>3. Bad \subseteq SUBSET W
    OBVIOUS
  <1>4. PICK V \in Bad : \A U \in SUBSET V : U # V => U \notin Bad
    <2> HIDE DEF Bad
    <2> QED
      BY <1>2, <1>3, SmallestSubset
  <1>5. V # {}
    <2>1. Sum(h, {}) = 0 /\ Sum(f, {}) = 0 /\ Of({}) = {}
      BY SumEmpty
    <2> QED
      BY <1>4, <2>1
  <1> DEFINE p == PickOne(V)
             R == V \ {p}
             A == WithKey(key, S, p)
  <1>6. p \in V /\ IsFiniteSet(V) /\ R \subseteq W /\ R # V
    BY <1>5, Picked, FS_Subset
  <1>7. Sum(h, R) = Sum(f, Of(R))
    BY <1>4, <1>6
  <1>8. Sum(h, V) = h[p] + Sum(h, R)
    BY <1>5, <1>6, SumPicked
  <1>9. h[p] = Sum(f, A)
    BY <1>6
  <1>10. /\ Of(V) = A \cup Of(R) /\ A \cap Of(R) = {}
         /\ A \subseteq S /\ Of(R) \subseteq S
    BY <1>6 DEF WithKey
  <1>11. Sum(h, V) # Sum(f, Of(V))
    BY <1>4
  <1> HIDE DEF p, R, A, Of
  <1>12. IsFiniteSet(A) /\ IsFiniteSet(Of(R))
    BY <1>10, FS_Subset
  <1>13. Sum(f, A \cup Of(R)) = Sum(f, A) + Sum(f, Of(R))
    BY <1>10, <1>12, SumUnion
  <1> QED
    BY <1>7, <1>8, <1>9, <1>10, <1>11, <1>13

(* A sum over a set may be taken over names of its elements.                *)
LEMMA SumRenamed ==
  ASSUME NEW f, NEW name, NEW V, IsFiniteSet(V), NEW h,
         \A v \in V : h[v] \in Int /\ f[name[v]] = h[v],
         \A v, w \in V : name[v] = name[w] => v = w
  PROVE  Sum(f, Named(name, V)) = Sum(h, V)
  <1> DEFINE Im(U) == Named(name, U)
             Bad == {U \in SUBSET V : ~(IsFiniteSet(Im(U)) /\ Sum(f, Im(U)) = Sum(h, U))}
  <1>1. SUFFICES Bad = {}
    OBVIOUS
  <1>2. SUFFICES ASSUME Bad # {} PROVE FALSE
    OBVIOUS
  <1>3. Bad \subseteq SUBSET V
    OBVIOUS
  <1>4. PICK U \in Bad : \A X \in SUBSET U : X # U => X \notin Bad
    <2> HIDE DEF Bad
    <2> QED
      BY <1>2, <1>3, SmallestSubset
  <1>5. U # {}
    <2>1. Sum(h, {}) = 0 /\ Sum(f, {}) = 0 /\ Im({}) = {} /\ IsFiniteSet({})
      BY SumEmpty, FS_EmptySet DEF Named
    <2> QED
      BY <1>4, <2>1
  <1> DEFINE p == PickOne(U)
             R == U \ {p}
  <1>6. p \in U /\ IsFiniteSet(U) /\ R \subseteq V /\ R # U /\ p \in V
    BY <1>5, Picked, FS_Subset
  <1>7. IsFiniteSet(Im(R)) /\ Sum(f, Im(R)) = Sum(h, R)
    BY <1>4, <1>6
  <1>8. Sum(h, U) = h[p] + Sum(h, R)
    BY <1>5, <1>6, SumPicked
  <1>9. Im(U) = Im(R) \cup {name[p]} /\ name[p] \notin Im(R)
    BY <1>6 DEF Named
  <1>10. IsFiniteSet(Im(U)) /\ Im(U) \ {name[p]} = Im(R) /\ name[p] \in Im(U)
    <2>1. IsFiniteSet(Im(R) \cup {name[p]})
      BY <1>7, FS_AddElement
    <2> HIDE DEF Im
    <2> QED
      BY <1>9, <2>1
  <1>11. \A x \in Im(U) : f[x] \in Int
    BY DEF Named
  <1>12. f[name[p]] = h[p]
    BY <1>6
  <1>13. ~(IsFiniteSet(Im(U)) /\ Sum(f, Im(U)) = Sum(h, U))
    BY <1>4
  <1> HIDE DEF p, R, Im
  <1>14. Sum(f, Im(U)) = f[name[p]] + Sum(f, Im(U) \ {name[p]})
    BY <1>10, <1>11, SumTake
  <1> QED
    BY <1>7, <1>8, <1>10, <1>12, <1>13, <1>14

-----------------------------------------------------------------------------
(* Cutting a price.                                                         *)

MakesWhole(list) ==
  /\ list \in Seq(Payee) /\ list # <<>>
  /\ Sum([i \in DOMAIN list |-> list[i].share], DOMAIN list) = Whole

(* Cuts that may come out low.                                              *)
Lows(micro, list) == SUBSET {i \in DOMAIN list : MayBeLow(micro, list[i])}

LEMMA Divided ==
  ASSUME NEW a \in Nat, NEW w \in Nat \ {0}
  PROVE  a \div w \in Nat /\ (a \div w) * w <= a /\ a < (a \div w) * w + w
  OBVIOUS

LEMMA DividedExactly ==
  ASSUME NEW a \in Nat, NEW w \in Nat \ {0}, a % w = 0
  PROVE  (a \div w) * w = a
  OBVIOUS

(* A floor is at most one unit below its share, low or not.                 *)
LEMMA FloorNear ==
  ASSUME NEW micro \in Nat \ {0}, NEW list, MakesWhole(list), NEW low \in Lows(micro, list),
         NEW i \in DOMAIN list
  PROVE  LET a == micro * list[i].share
             n == Floors(micro, list, low)[i]
         IN  a \in Nat /\ n \in Nat /\ n * Whole <= a /\ a <= n * Whole + Whole
  <1> DEFINE a == micro * list[i].share
             n == Floors(micro, list, low)[i]
             q == a \div Whole
  <1>0. Whole \in Nat \ {0}
    BY SplitAssumption
  <1>1. list[i] \in Payee
    BY DEF MakesWhole
  <1>2. a \in Nat
    BY <1>1 DEF Payee
  <1>3. n = q - (IF i \in low THEN 1 ELSE 0)
    BY DEF Floors, Share
  <1>4. i \in low => a >= Whole /\ a % Whole = 0
    BY DEF Lows, MayBeLow
  <1> HIDE DEF a, n
  <1>5. q \in Nat /\ q * Whole <= a /\ a < q * Whole + Whole
    BY <1>0, <1>2, Divided
  <1>6. CASE i \in low
    <2>1. q * Whole = a
      BY <1>0, <1>2, <1>4, <1>6, DividedExactly
    <2> HIDE DEF q
    <2>2. q # 0
      BY <1>0, <1>4, <1>6, <2>1
    <2>3. n = q - 1 /\ n \in Nat
      BY <1>3, <1>5, <1>6, <2>2
    <2>4. n * Whole = q * Whole - Whole
      BY <1>0, <1>5, <2>3
    <2> QED
      BY <1>0, <1>2, <2>1, <2>3, <2>4 DEF a, n
  <1>7. CASE i \notin low
    <2> HIDE DEF q
    <2>1. n = q
      BY <1>3, <1>5, <1>7
    <2> QED
      BY <1>0, <1>2, <1>5, <2>1 DEF a, n
  <1> QED
    BY <1>6, <1>7

(* What is left after the floors is nothing, or at most one unit a payee.   *)
LEMMA LeftBounded ==
  ASSUME NEW micro \in Nat \ {0}, NEW list, MakesWhole(list), NEW low \in Lows(micro, list)
  PROVE  /\ Left(micro, Floors(micro, list, low)) \in 0..Len(list)
         /\ Sum(Floors(micro, list, low), DOMAIN list) \in Nat
  <1> DEFINE D == DOMAIN list
             n == Len(list)
             F == Floors(micro, list, low)
             share == [i \in D |-> list[i].share]
             a == [i \in D |-> micro * list[i].share]
             floored == [i \in D |-> Whole * F[i]]
             rest == [i \in D |-> a[i] - Whole * F[i]]
  <1>0. Whole \in Nat \ {0} /\ n \in Nat /\ D = 1..n
    BY SplitAssumption DEF MakesWhole
  <1>1. IsFiniteSet(D) /\ Cardinality(D) = n
    <2> HIDE DEF D, n
    <2>1. IsFiniteSet(1..n) /\ Cardinality(1..n) = n
      BY <1>0, FS_Interval
    <2> QED
      BY <1>0, <2>1
  <1>2. \A i \in D : list[i].share \in Nat
    <2>1. \A i \in D : list[i] \in Payee
      BY DEF MakesWhole
    <2> QED
      BY <2>1 DEF Payee
  <1>3. \A i \in D : /\ a[i] \in Nat /\ F[i] \in Nat
                     /\ F[i] * Whole <= a[i] /\ a[i] <= F[i] * Whole + Whole
    BY FloorNear
  <1>4. DOMAIN F = D
    BY DEF Floors
  <1>5. Sum(share, D) = Whole
    BY DEF MakesWhole
  <1> HIDE DEF F, D, n
  <1>6. \A i \in D : share[i] \in Int /\ a[i] = micro * share[i]
    BY <1>2
  <1>7. Sum(a, D) = micro * Whole
    <2> HIDE DEF share, a
    <2> QED
      BY <1>1, <1>5, <1>6, SumScaled
  <1>8. \A i \in D : F[i] \in Int /\ floored[i] = Whole * F[i]
    BY <1>3
  <1>9. Sum(floored, D) = Whole * Sum(F, D)
    <2> HIDE DEF floored
    <2> QED
      BY <1>0, <1>1, <1>8, SumScaled
  <1>10. \A i \in D : rest[i] \in Nat /\ rest[i] <= Whole
    <2> SUFFICES ASSUME NEW i \in D PROVE rest[i] \in Nat /\ rest[i] <= Whole
      OBVIOUS
    <2>1. Whole * F[i] = F[i] * Whole /\ F[i] * Whole \in Nat
      BY <1>0, <1>3
    <2>2. rest[i] = a[i] - Whole * F[i]
      OBVIOUS
    <2> HIDE DEF rest, a
    <2> QED
      BY <1>0, <1>3, <2>1, <2>2
  <1>11. Sum(rest, D) \in Nat /\ Sum(rest, D) <= Whole * n
    <2> HIDE DEF rest
    <2> QED
      BY <1>0, <1>1, <1>10, SumBounded
  <1>12. \A i \in D : floored[i] \in Int /\ rest[i] \in Int /\ a[i] = floored[i] + rest[i]
    <2> SUFFICES ASSUME NEW i \in D PROVE floored[i] \in Int /\ rest[i] \in Int /\ a[i] = floored[i] + rest[i]
      OBVIOUS
    <2>1. rest[i] = a[i] - Whole * F[i] /\ floored[i] = Whole * F[i]
      OBVIOUS
    <2>2. Whole * F[i] \in Int /\ a[i] \in Int
      BY <1>0, <1>3
    <2> HIDE DEF rest, a, floored
    <2> QED
      BY <2>1, <2>2
  <1>13. Sum(a, D) = Sum(floored, D) + Sum(rest, D)
    <2> HIDE DEF a, floored, rest
    <2> QED
      BY <1>1, <1>12, SumPlus
  <1>14. Sum(F, D) \in Nat
    BY <1>1, <1>3, SumNat
  <1> DEFINE L == micro - Sum(F, D)
  <1>15. Whole * L = Sum(rest, D)
    <2>1. Whole * L = Whole * micro - Whole * Sum(F, D)
      BY <1>0, <1>14
    <2>2. Whole * micro = micro * Whole /\ micro * Whole \in Int /\ Whole * Sum(F, D) \in Int
      BY <1>0, <1>14
    <2> HIDE DEF L, a, floored, rest
    <2> QED
      BY <1>7, <1>9, <1>11, <1>13, <2>1, <2>2
  <1>16. L \in Int
    BY <1>14
  <1> HIDE DEF L, rest
  <1>17. L >= 0
    <2> SUFFICES ASSUME L <= -1 PROVE FALSE
      BY <1>16
    <2>1. Whole * L <= -Whole
      BY <1>0, <1>16
    <2> QED
      BY <1>0, <1>11, <1>15, <2>1
  <1>18. L <= n
    <2> SUFFICES ASSUME L >= n + 1 PROVE FALSE
      BY <1>0, <1>16
    <2>1. Whole * L >= Whole * (n + 1)
      BY <1>0, <1>16
    <2>2. Whole * (n + 1) = Whole * n + Whole /\ Whole * n \in Nat
      BY <1>0
    <2> QED
      BY <1>0, <1>11, <1>15, <2>1, <2>2
  <1>19. Left(micro, F) = L
    BY <1>4 DEF Left, Sum, L
  <1>20. Left(micro, F) \in 0..n
    BY <1>0, <1>16, <1>17, <1>18, <1>19
  <1> QED
    BY <1>14, <1>20 DEF F, D, n

-----------------------------------------------------------------------------
(* The order in which the rest is dealt.                                    *)

Before(floors, i) ==
  {j \in DOMAIN floors : floors[j] > floors[i] \/ (floors[j] = floors[i] /\ j < i)}

(* Every place from the first to the last is taken by one payee.            *)
LEMMA Ranked ==
  ASSUME NEW n \in Nat, NEW floors, DOMAIN floors = 1..n, \A i \in 1..n : floors[i] \in Int
  PROVE  /\ \A i \in 1..n : Rank(floors, i) \in 0..(n - 1)
         /\ \A i, k \in 1..n : Rank(floors, i) = Rank(floors, k) => i = k
         /\ \A r \in 0..(n - 1) : \E i \in 1..n : Rank(floors, i) = r
  <1> DEFINE D == 1..n
             rank == [i \in D |-> Rank(floors, i)]
  <1>1. IsFiniteSet(D) /\ Cardinality(D) = n
    BY FS_Interval
  <1>2. \A i \in D : /\ Rank(floors, i) = Cardinality(Before(floors, i))
                     /\ Before(floors, i) \subseteq D /\ i \notin Before(floors, i)
                     /\ IsFiniteSet(Before(floors, i)) /\ Cardinality(Before(floors, i)) \in Nat
    <2> SUFFICES ASSUME NEW i \in D
                 PROVE  /\ Rank(floors, i) = Cardinality(Before(floors, i))
                        /\ Before(floors, i) \subseteq D /\ i \notin Before(floors, i)
                        /\ IsFiniteSet(Before(floors, i)) /\ Cardinality(Before(floors, i)) \in Nat
      OBVIOUS
    <2>1. Rank(floors, i) = Cardinality(Before(floors, i))
      BY DEF Rank, Quantify, Before
    <2>2. Before(floors, i) \subseteq D /\ i \notin Before(floors, i)
      BY DEF Before
    <2> QED
      BY <1>1, <2>1, <2>2, FS_Subset, FS_CardinalityType
  <1>3. \A i \in D : Rank(floors, i) \in 0..(n - 1)
    <2> SUFFICES ASSUME NEW i \in D PROVE Rank(floors, i) \in 0..(n - 1)
      OBVIOUS
    <2>1. Before(floors, i) \in SUBSET (D \ {i})
      BY <1>2
    <2>2. IsFiniteSet(D \ {i}) /\ Cardinality(D \ {i}) = n - 1
      BY <1>1, FS_RemoveElement
    <2>3. Cardinality(Before(floors, i)) <= n - 1
      BY <2>1, <2>2, FS_Subset
    <2> QED
      BY <1>2, <2>3
  <1>4. \A i, k \in D : i \in Before(floors, k) => Rank(floors, i) < Rank(floors, k)
    <2> SUFFICES ASSUME NEW i \in D, NEW k \in D, i \in Before(floors, k)
                 PROVE  Rank(floors, i) < Rank(floors, k)
      OBVIOUS
    <2>1. Before(floors, i) \cup {i} \in SUBSET Before(floors, k)
      BY <1>2 DEF Before
    <2>2. Cardinality(Before(floors, i) \cup {i}) = Cardinality(Before(floors, i)) + 1
      BY <1>2, FS_AddElement
    <2>3. Cardinality(Before(floors, i) \cup {i}) <= Cardinality(Before(floors, k))
      BY <1>2, <2>1, FS_Subset
    <2> QED
      BY <1>2, <2>2, <2>3
  <1>5. \A i, k \in D : i # k => i \in Before(floors, k) \/ k \in Before(floors, i)
    BY DEF Before
  <1>6. \A i, k \in D : Rank(floors, i) = Rank(floors, k) => i = k
    <2> SUFFICES ASSUME NEW i \in D, NEW k \in D, i # k PROVE Rank(floors, i) # Rank(floors, k)
      OBVIOUS
    <2>1. Rank(floors, i) \in Int /\ Rank(floors, k) \in Int
      BY <1>3
    <2>2. Rank(floors, i) < Rank(floors, k) \/ Rank(floors, k) < Rank(floors, i)
      BY <1>4, <1>5
    <2> QED
      BY <2>1, <2>2
  <1>7. rank \in Injection(D, 0..(n - 1))
    <2>1. rank \in [D -> 0..(n - 1)]
      BY <1>3
    <2>2. \A i, k \in D : rank[i] = rank[k] => i = k
      BY <1>6
    <2> QED
      BY <2>1, <2>2 DEF Injection, IsInjective
  <1>8. IsFiniteSet(0..(n - 1)) /\ Cardinality(0..(n - 1)) = n
    BY FS_Interval
  <1>9. rank \in Surjection(D, 0..(n - 1))
    <2> HIDE DEF rank, D
    <2> QED
      BY <1>1, <1>7, <1>8, FS_Injection
  <1>10. \A r \in 0..(n - 1) : \E i \in D : rank[i] = r
    BY <1>9 DEF Surjection
  <1> QED
    BY <1>3, <1>6, <1>10

(* So as many payees come before place k as there are places.               *)
LEMMA FirstPlaces ==
  ASSUME NEW n \in Nat, NEW floors, DOMAIN floors = 1..n, \A i \in 1..n : floors[i] \in Int,
         NEW k \in 0..n
  PROVE  Cardinality({i \in 1..n : Rank(floors, i) < k}) = k
  <1> DEFINE P == {i \in 1..n : Rank(floors, i) < k}
             rank == [i \in P |-> Rank(floors, i)]
  <1>1. /\ \A i \in 1..n : Rank(floors, i) \in 0..(n - 1)
        /\ \A i, j \in 1..n : Rank(floors, i) = Rank(floors, j) => i = j
        /\ \A r \in 0..(n - 1) : \E i \in 1..n : Rank(floors, i) = r
    BY Ranked
  <1>2. rank \in [P -> 0..(k - 1)]
    <2>1. \A i \in P : Rank(floors, i) \in 0..(k - 1)
      BY <1>1
    <2> QED
      BY <2>1
  <1>3. \A i, j \in P : rank[i] = rank[j] => i = j
    BY <1>1
  <1>4. \A r \in 0..(k - 1) : \E i \in P : rank[i] = r
    <2> SUFFICES ASSUME NEW r \in 0..(k - 1) PROVE \E i \in P : rank[i] = r
      OBVIOUS
    <2>1. r \in 0..(n - 1) /\ r < k
      OBVIOUS
    <2>2. PICK i \in 1..n : Rank(floors, i) = r
      BY <1>1, <2>1
    <2>3. i \in P /\ rank[i] = r
      BY <2>1, <2>2
    <2> QED
      BY <2>3
  <1>5. rank \in Bijection(P, 0..(k - 1))
    BY <1>2, <1>3, <1>4 DEF Bijection, Injection, Surjection, IsInjective
  <1>6. IsFiniteSet(P)
    <2>1. IsFiniteSet(1..n)
      BY FS_Interval
    <2> QED
      BY <2>1, FS_Subset
  <1>7. Cardinality(0..(k - 1)) = Cardinality(P)
    <2>1. ExistsBijection(P, 0..(k - 1))
      BY <1>5 DEF ExistsBijection
    <2> HIDE DEF P
    <2> QED
      BY <1>6, <2>1, FS_Bijection
  <1>8. Cardinality(0..(k - 1)) = k
    BY FS_Interval
  <1> QED
    BY <1>7, <1>8

-----------------------------------------------------------------------------
(* The cuts.                                                                *)

LEMMA Remainder == ASSUME NEW k \in Nat, NEW n \in Nat, k < n PROVE k % n = k
  OBVIOUS

(* Going round deals each of the first as much as one pass does: the two    *)
(* copies of the arithmetic agree.                                          *)
LEMMA CutAlike ==
  ASSUME NEW micro \in Nat \ {0}, NEW list, MakesWhole(list), NEW low \in Lows(micro, list)
  PROVE  SplitMicro(micro, list, low) = ExpandCuts(micro, list, low)
  <1> DEFINE D == DOMAIN list
             n == Len(list)
             F == Floors(micro, list, low)
             L == Left(micro, F)
             dealt(i) == Quantify(0..(L - 1), LAMBDA k : k % n = Rank(F, i))
  <1>0. n \in Nat /\ D = 1..n
    BY DEF MakesWhole
  <1>1. L \in 0..n
    BY LeftBounded
  <1>2. DOMAIN F = 1..n /\ \A i \in 1..n : F[i] \in Int
    <2>1. \A i \in D : F[i] \in Nat
      BY FloorNear
    <2> QED
      BY <1>0, <2>1 DEF Floors
  <1>3. \A i \in 1..n : Rank(F, i) \in 0..(n - 1)
    <2> HIDE DEF F, n
    <2> QED
      BY <1>0, <1>2, Ranked
  <1>4. ASSUME NEW i \in 1..n PROVE dealt(i) = IF Rank(F, i) < L THEN 1 ELSE 0
    <2> DEFINE r == Rank(F, i)
               Hits == {k \in 0..(L - 1) : k % n = r}
    <2>1. dealt(i) = Cardinality(Hits)
      BY DEF Quantify
    <2>2. r \in 0..(n - 1)
      BY <1>3
    <2> HIDE DEF r, L, n
    <2>3. \A k \in 0..(L - 1) : k % n = k
      BY <1>0, <1>1, Remainder
    <2>4. Hits = {k \in 0..(L - 1) : k = r}
      BY <2>3
    <2>5. CASE r < L
      <3>1. Hits = {r}
        BY <1>1, <2>2, <2>4, <2>5
      <3>2. Cardinality(Hits) = 1
        BY <3>1, FS_Singleton
      <3> QED
        BY <2>1, <2>5, <3>2 DEF r, L, n
    <2>6. CASE ~(r < L)
      <3>1. Hits = {}
        BY <1>1, <2>2, <2>4, <2>6
      <3>2. Cardinality(Hits) = 0
        BY <3>1, FS_EmptySet
      <3> QED
        BY <2>1, <2>6, <3>2 DEF r, L, n
    <2> QED
      BY <2>5, <2>6
  <1>5. SplitMicro(micro, list, low) = [i \in D |-> F[i] + dealt(i)]
    BY DEF SplitMicro
  <1>6. ExpandCuts(micro, list, low) = [i \in D |-> F[i] + (IF Rank(F, i) < L THEN 1 ELSE 0)]
    BY DEF ExpandCuts
  <1> HIDE DEF F, L, n, D, dealt
  <1> QED
    BY <1>0, <1>4, <1>5, <1>6

(* Each cut is its floor or one more, and they make the price.              *)
LEMMA CutsMakePrice ==
  ASSUME NEW micro \in Nat \ {0}, NEW list, MakesWhole(list), NEW low \in Lows(micro, list),
         NEW parts, parts = ExpandCuts(micro, list, low)
  PROVE  /\ \A i \in DOMAIN list : \E b \in {0, 1} : parts[i] = Floors(micro, list, low)[i] + b
         /\ \A i \in DOMAIN list : parts[i] \in Nat
         /\ DOMAIN parts = DOMAIN list
         /\ Sum(parts, DOMAIN list) = micro
  <1> DEFINE D == DOMAIN list
             n == Len(list)
             F == Floors(micro, list, low)
             L == Left(micro, F)
             more == [i \in D |-> IF Rank(F, i) < L THEN 1 ELSE 0]
  <1>0. n \in Nat /\ D = 1..n /\ IsFiniteSet(D)
    BY FS_Interval DEF MakesWhole
  <1>1. L \in 0..n /\ Sum(F, D) \in Nat
    BY LeftBounded
  <1>2. DOMAIN F = 1..n /\ \A i \in 1..n : F[i] \in Nat
    <2>1. \A i \in D : F[i] \in Nat
      BY FloorNear
    <2> QED
      BY <1>0, <2>1 DEF Floors
  <1>3. parts = [i \in D |-> F[i] + (IF Rank(F, i) < L THEN 1 ELSE 0)]
    BY DEF ExpandCuts
  <1>4. L = micro - Sum(F, D)
    BY <1>0, <1>2 DEF Left, Sum
  <1> HIDE DEF F, L, n, D
  <1>5. \A i \in D : more[i] \in {0, 1} /\ parts[i] = F[i] + more[i]
    BY <1>3
  <1>6. \A i \in D : parts[i] \in Nat
    BY <1>0, <1>2, <1>5
  <1>7. {i \in D : more[i] = 1} = {i \in 1..n : Rank(F, i) < L}
    BY <1>0
  <1>8. Cardinality({i \in 1..n : Rank(F, i) < L}) = L
    BY <1>0, <1>1, <1>2, FirstPlaces
  <1>9. Sum(more, D) = L
    <2>1. Sum(more, D) = Cardinality({i \in D : more[i] = 1})
      <3> HIDE DEF more
      <3> QED
        BY <1>0, <1>5, SumCounts
    <2> QED
      BY <2>1, <1>7, <1>8
  <1>10. Sum(parts, D) = Sum(F, D) + Sum(more, D)
    <2>1. \A i \in D : F[i] \in Int /\ more[i] \in Int /\ parts[i] = F[i] + more[i]
      BY <1>0, <1>2, <1>5
    <2> HIDE DEF more
    <2> QED
      BY <1>0, <2>1, SumPlus
  <1>11. Sum(parts, D) = micro
    BY <1>1, <1>4, <1>9, <1>10
  <1>12. \A i \in D : \E b \in {0, 1} : parts[i] = F[i] + b
    BY <1>5
  <1>13. DOMAIN parts = D
    BY <1>3
  <1> QED
    BY <1>6, <1>11, <1>12, <1>13 DEF D, F

-----------------------------------------------------------------------------
(* The legs.                                                                *)

LEMMA HighestExists ==
  ASSUME NEW t, NEW W, IsFiniteSet(W), W # {}, \A w \in W : t[w] \in Int
  PROVE  \E w \in W : \A v \in W : t[v] <= t[w]
  <1> DEFINE Bad == {U \in SUBSET W : U # {} /\ ~ \E w \in U : \A v \in U : t[v] <= t[w]}
  <1>1. SUFFICES Bad = {}
    OBVIOUS
  <1>2. SUFFICES ASSUME Bad # {} PROVE FALSE
    OBVIOUS
  <1>3. Bad \subseteq SUBSET W
    OBVIOUS
  <1>4. PICK U \in Bad : \A X \in SUBSET U : X # U => X \notin Bad
    <2> HIDE DEF Bad
    <2> QED
      BY <1>2, <1>3, SmallestSubset
  <1>5. U # {} /\ U \subseteq W /\ \A w \in U : \E v \in U : ~(t[v] <= t[w])
    BY <1>4
  <1>6. PICK p \in U : TRUE
    BY <1>5
  <1>7. U \ {p} # {}
    <2>1. PICK v \in U : ~(t[v] <= t[p])
      BY <1>5
    <2>2. t[p] \in Int
      BY <1>5
    <2>3. v # p
      BY <2>1, <2>2
    <2> QED
      BY <2>3
  <1>8. PICK m \in U \ {p} : \A v \in U \ {p} : t[v] <= t[m]
    <2>1. U \ {p} \in SUBSET U /\ U \ {p} # U /\ U \ {p} \in SUBSET W
      BY <1>5
    <2>2. U \ {p} \notin Bad
      BY <1>4, <2>1
    <2> QED
      BY <1>7, <2>1, <2>2
  <1>9. \A v \in U : t[v] \in Int
    BY <1>5
  <1>10. CASE t[p] <= t[m]
    <2>1. \A v \in U : t[v] <= t[m]
      BY <1>8, <1>10
    <2> QED
      BY <1>5, <2>1
  <1>11. CASE ~(t[p] <= t[m])
    <2>1. \A v \in U : t[v] <= t[p]
      BY <1>8, <1>9, <1>11
    <2> QED
      BY <1>5, <2>1
  <1> QED
    BY <1>10, <1>11

LEMMA LowestExists ==
  ASSUME NEW S, S \subseteq Nat, S # {} PROVE Min(S) \in S
  <1>1. \E x \in S : \A y \in S : ~(<<y, x>> \in OpToRel(<, Nat))
    BY NatLessThanWellFounded, WFMin
  <1>2. PICK x \in S : \A y \in S : ~(<<y, x>> \in OpToRel(<, Nat))
    BY <1>1
  <1>3. \A y \in S : x <= y
    <2> SUFFICES ASSUME NEW y \in S PROVE x <= y
      OBVIOUS
    <2>1. x \in Nat /\ y \in Nat
      OBVIOUS
    <2>2. ~(y < x)
      BY <1>2, <2>1 DEF OpToRel
    <2> QED
      BY <2>1, <2>2
  <1> QED
    BY <1>3 DEF Min

Wallets(list) == {list[i].wallet : i \in DOMAIN list}

(* The gated leg goes to a payee's wallet.                                  *)
LEMMA PrimaryIsPaid ==
  ASSUME NEW list, MakesWhole(list), NEW low
  PROVE  PrimaryPayee(list, low) \in Wallets(list)
  <1> DEFINE W == Wallets(list)
             t == WalletTotals(list)
             best == {w \in W : \A v \in W : t[v] <= t[w]}
             S == IF best \subseteq low THEN best ELSE best \ low
             share == [i \in DOMAIN list |-> list[i].share]
  <1>0. /\ Len(list) \in Nat \ {0} /\ DOMAIN list = 1..Len(list)
        /\ \A i \in DOMAIN list : list[i] \in Payee
    BY DEF MakesWhole
  <1>1. W \subseteq Nat
    BY <1>0 DEF Wallets, Payee
  <1>2. W # {} /\ IsFiniteSet(W)
    <2>1. IsFiniteSet(DOMAIN list)
      BY <1>0, FS_Interval
    <2> DEFINE key == [i \in DOMAIN list |-> list[i].wallet]
    <2>2. key \in Surjection(DOMAIN list, W)
      BY DEF Surjection, Wallets
    <2>3. 1 \in DOMAIN list
      BY <1>0
    <2> HIDE DEF key
    <2>4. IsFiniteSet(W)
      <3> HIDE DEF W
      <3> QED
        BY <2>1, <2>2, FS_Surjection
    <2> QED
      BY <2>3, <2>4 DEF Wallets
  <1>3. \A w \in W : t[w] \in Int
    <2> SUFFICES ASSUME NEW w \in W PROVE t[w] \in Int
      OBVIOUS
    <2> DEFINE Of == {i \in DOMAIN list : list[i].wallet = w}
    <2>1. t[w] = Sum(share, Of)
      BY DEF WalletTotals, FoldByWallet, Sum, Wallets
    <2>2. IsFiniteSet(Of) /\ \A i \in Of : share[i] \in Int
      <3>1. IsFiniteSet(DOMAIN list)
        BY <1>0, FS_Interval
      <3>2. \A i \in DOMAIN list : list[i].share \in Nat
        BY <1>0 DEF Payee
      <3> QED
        BY <3>1, <3>2, FS_Subset
    <2> HIDE DEF share, Of, t
    <2> QED
      BY <2>1, <2>2, SumTyped
  <1>4. DOMAIN t = W
    BY DEF WalletTotals, FoldByWallet, Wallets
  <1>5. PrimaryPayee(list, low) = Min(S)
    BY <1>4 DEF PrimaryPayee
  <1>6. best # {}
    <2> HIDE DEF t, W
    <2> QED
      BY <1>2, <1>3, HighestExists
  <1>7. S # {} /\ S \subseteq W
    <2> HIDE DEF t, W
    <2>1. best \subseteq W
      OBVIOUS
    <2> HIDE DEF best
    <2> QED
      BY <1>6, <2>1
  <1> HIDE DEF S, W
  <1>8. Min(S) \in S
    BY <1>1, <1>7, LowestExists
  <1> QED
    BY <1>5, <1>7, <1>8 DEF W

(* Cuts folded onto wallets and made into legs are the same money.          *)
LEMMA LegsKeepMoney ==
  ASSUME NEW list, MakesWhole(list), NEW parts, \A i \in DOMAIN list : parts[i] \in Nat, NEW low
  PROVE  LET l == SplitAuthorLegs(list, parts, low)
         IN  l.amount + Sum([c \in l.coauthors |-> c.amount], l.coauthors) = Sum(parts, DOMAIN list)
  <1> DEFINE D == DOMAIN list
             W == Wallets(list)
             per == FoldByWallet(list, parts)
             key == [i \in D |-> list[i].wallet]
             p == PrimaryPayee(list, low)
             V == {v \in W \ {p} : per[v] > 0}
             legOf == [v \in V |-> [payTo |-> v, amount |-> per[v]]]
             C == CoauthorLegs(per, p)
             amounts == [c \in C |-> c.amount]
             l == SplitAuthorLegs(list, parts, low)
  <1>0. D = 1..Len(list) /\ Len(list) \in Nat
    BY DEF MakesWhole
  <1>1. IsFiniteSet(D)
    BY <1>0, FS_Interval
  <1>2. IsFiniteSet(W)
    <2>1. key \in Surjection(D, W)
      BY DEF Surjection, Wallets
    <2> HIDE DEF key, D, W
    <2> QED
      BY <1>1, <2>1, FS_Surjection
  <1>3. DOMAIN per = W
    BY DEF FoldByWallet, Wallets
  <1>4. \A w \in W : per[w] = Sum(parts, WithKey(key, D, w))
    BY DEF FoldByWallet, Wallets, Sum, WithKey
  <1>5. \A i \in D : key[i] \in W
    BY DEF Wallets
  <1>6. p \in W
    BY PrimaryIsPaid
  <1>7. l.amount = per[p] /\ l.coauthors = C
    BY DEF SplitAuthorLegs
  <1>8. C = Named(legOf, V)
    BY <1>3 DEF CoauthorLegs, Named
  <1>9. \A v \in V : legOf[v] = [payTo |-> v, amount |-> per[v]]
    OBVIOUS
  <1> HIDE DEF D, W, per, key, p, l
  <1>10. \A w \in W : per[w] \in Nat
    <2> SUFFICES ASSUME NEW w \in W PROVE per[w] \in Nat
      OBVIOUS
    <2> DEFINE Of == WithKey(key, D, w)
    <2>1. IsFiniteSet(Of) /\ \A i \in Of : parts[i] \in Nat
      BY <1>1, FS_Subset DEF D, WithKey
    <2>2. per[w] = Sum(parts, Of)
      BY <1>4
    <2> HIDE DEF Of
    <2> QED
      BY <2>1, <2>2, SumNat
  <1>11. Sum(per, W) = Sum(parts, D)
    <2>1. \A i \in D : parts[i] \in Int
      BY DEF D
    <2> QED
      BY <1>1, <1>2, <1>4, <1>5, <2>1, SumByKey
  <1>12. Sum(per, W) = per[p] + Sum(per, W \ {p})
    <2>1. \A w \in W : per[w] \in Int
      BY <1>10
    <2> QED
      BY <1>2, <1>6, <2>1, SumTake
  <1>13. Sum(per, W \ {p}) = Sum(per, V)
    <2>1. /\ IsFiniteSet(W \ {p}) /\ \A w \in W \ {p} : per[w] \in Int
          /\ V \in SUBSET (W \ {p})
      BY <1>2, <1>10, FS_Subset
    <2>2. \A w \in (W \ {p}) \ V : per[w] = 0
      BY <1>10
    <2> HIDE DEF V
    <2> QED
      BY <2>1, <2>2, SumDropsZeros
  <1>14. IsFiniteSet(V) /\ \A v \in V : per[v] \in Int
    BY <1>2, <1>10, FS_Subset
  <1>15. Sum(amounts, C) = Sum(per, V)
    <2>1. \A v \in V : legOf[v] \in C /\ legOf[v].amount = per[v] /\ legOf[v].payTo = v
      BY <1>8, <1>9 DEF Named
    <2>2. \A v \in V : per[v] \in Int /\ amounts[legOf[v]] = per[v]
      BY <1>14, <2>1
    <2>3. \A v, w \in V : legOf[v] = legOf[w] => v = w
      BY <2>1
    <2> HIDE DEF legOf, amounts, V, C
    <2>4. Sum(amounts, Named(legOf, V)) = Sum(per, V)
      BY <1>14, <2>2, <2>3, SumRenamed
    <2> QED
      BY <1>8, <2>4
  <1>16. l.amount + Sum([c \in l.coauthors |-> c.amount], l.coauthors) = per[p] + Sum(amounts, C)
    BY <1>7
  <1> HIDE DEF V, C, amounts
  <1> QED
    BY <1>11, <1>12, <1>13, <1>15, <1>16 DEF D, l

-----------------------------------------------------------------------------

(* Once split, the cuts, the ledger and the legs are what the code makes of *)
(* the payees and the price.                                                *)
SInv ==
  /\ payees \in PayeeLists
  /\ \/ price = 0
     \/ /\ price \in Prices
        /\ \E low \in Lows(price, payees) :
             /\ cuts = SplitMicro(price, payees, low)
             /\ ledger = ExpandCuts(price, payees, low)
        /\ \E low \in SUBSET MayTotalLow(payees) : legs = SplitAuthorLegs(payees, cuts, low)

LEMMA SplitInductive == SplitSpec => []SInv
  <1>1. SplitInit => SInv
    BY DEF SplitInit, SInv
  <1>2. ASSUME SInv, [Split]_splitVars PROVE SInv'
    <2>1. CASE Split
      <3>1. PICK p \in Prices :
              \E low \in Lows(p, payees) :
                price' = p /\ cuts' = SplitMicro(p, payees, low) /\ ledger' = ExpandCuts(p, payees, low)
        BY <2>1 DEF Split, Lows
      <3>2. PICK wallets \in SUBSET MayTotalLow(payees) : legs' = SplitAuthorLegs(payees, cuts', wallets)
        BY <2>1 DEF Split
      <3>3. payees' = payees /\ payees \in PayeeLists
        BY <1>2, <2>1 DEF SInv, Split
      <3> QED
        BY <3>1, <3>2, <3>3 DEF SInv
    <2>2. CASE UNCHANGED splitVars
      BY <2>2, <1>2 DEF SInv, splitVars
    <2> QED
      BY <1>2, <2>1, <2>2
  <1> QED
    BY <1>1, <1>2, PTL DEF SplitSpec

LEMMA Lists == \A list \in PayeeLists : MakesWhole(list)
  BY SplitAssumption DEF MakesWhole, Sum

(* What a split is made of.                                                 *)
LEMMA Cut ==
  ASSUME SInv, IsSplit
  PROVE  \E low \in Lows(price, payees) :
           /\ price \in Nat \ {0} /\ MakesWhole(payees)
           /\ cuts = ExpandCuts(price, payees, low)
           /\ cuts = SplitMicro(price, payees, low)
           /\ ledger = cuts
  <1>1. price \in Nat \ {0} /\ MakesWhole(payees)
    BY SplitAssumption, Lists DEF SInv, IsSplit
  <1>2. PICK low \in Lows(price, payees) :
          /\ cuts = SplitMicro(price, payees, low)
          /\ ledger = ExpandCuts(price, payees, low)
    BY DEF SInv, IsSplit
  <1>3. SplitMicro(price, payees, low) = ExpandCuts(price, payees, low)
    BY <1>1, CutAlike
  <1> QED
    BY <1>1, <1>2, <1>3

(* The legs make the price exactly, for any credits, prices and rounding.   *)
THEOREM NoDust == SplitSpec => []LegsMakePrice
  <1>1. ASSUME SInv, IsSplit
        PROVE  legs.amount + Sum([l \in legs.coauthors |-> l.amount], legs.coauthors) = price
    <2>1. PICK low \in Lows(price, payees) :
            /\ price \in Nat \ {0} /\ MakesWhole(payees)
            /\ cuts = ExpandCuts(price, payees, low)
      BY <1>1, Cut
    <2>2. (\A i \in DOMAIN payees : cuts[i] \in Nat) /\ Sum(cuts, DOMAIN payees) = price
      BY <2>1, CutsMakePrice
    <2>3. PICK wallets \in SUBSET MayTotalLow(payees) : legs = SplitAuthorLegs(payees, cuts, wallets)
      BY <1>1 DEF SInv, IsSplit
    <2>4. LET l == SplitAuthorLegs(payees, cuts, wallets)
          IN  l.amount + Sum([c \in l.coauthors |-> c.amount], l.coauthors) = Sum(cuts, DOMAIN payees)
      BY <2>1, <2>2, LegsKeepMoney
    <2> QED
      BY <2>2, <2>3, <2>4
  <1>2. SInv => LegsMakePrice
    BY <1>1 DEF LegsMakePrice, Sum
  <1> QED
    BY <1>2, SplitInductive, PTL

(* No author is more than one unit from the share the credits give.         *)
THEOREM NearShare == SplitSpec => []EveryoneNearShare
  <1>1. ASSUME SInv, IsSplit, NEW i \in DOMAIN payees
        PROVE  LET off == cuts[i] * Whole - price * payees[i].share
               IN -Whole <= off /\ off <= Whole
    <2>1. PICK low \in Lows(price, payees) :
            /\ price \in Nat \ {0} /\ MakesWhole(payees)
            /\ cuts = ExpandCuts(price, payees, low)
      BY <1>1, Cut
    <2> DEFINE n == Floors(price, payees, low)[i]
               a == price * payees[i].share
    <2>2. a \in Nat /\ n \in Nat /\ n * Whole <= a /\ a <= n * Whole + Whole
      BY <2>1, FloorNear
    <2>3. PICK b \in {0, 1} : cuts[i] = n + b
      BY <2>1, CutsMakePrice
    <2>4. Whole \in Nat
      BY SplitAssumption
    <2> HIDE DEF a, n
    <2>5. (n + b) * Whole = n * Whole + b * Whole /\ n * Whole \in Nat
      BY <2>2, <2>3, <2>4
    <2>6. b * Whole = 0 \/ b * Whole = Whole
      BY <2>3, <2>4
    <2>7. -Whole <= cuts[i] * Whole - a /\ cuts[i] * Whole - a <= Whole
      BY <2>2, <2>3, <2>4, <2>5, <2>6
    <2> QED
      BY <2>7 DEF a
  <1>2. SInv => EveryoneNearShare
    BY <1>1 DEF EveryoneNearShare
  <1> QED
    BY <1>2, SplitInductive, PTL

(* What the ledger says a wallet is owed is what its leg pays.              *)
THEOREM LedgerAgrees == SplitSpec => []LedgerMatchesLegs
  <1>1. ASSUME SInv, IsSplit
        PROVE  LET owed == FoldByWallet(payees, ledger)
               IN owed[legs.primary] = legs.amount /\ CoauthorLegs(owed, legs.primary) = legs.coauthors
    <2>1. ledger = cuts
      BY <1>1, Cut
    <2>2. PICK low \in SUBSET MayTotalLow(payees) : legs = SplitAuthorLegs(payees, cuts, low)
      BY <1>1 DEF SInv, IsSplit
    <2> QED
      BY <2>1, <2>2 DEF SplitAuthorLegs
  <1>2. SInv => LedgerMatchesLegs
    BY <1>1 DEF LedgerMatchesLegs
  <1> QED
    BY <1>2, SplitInductive, PTL
=============================================================================
