------------------------------ MODULE TollRead ------------------------------
(***************************************************************************)
(* A paid read, end to end: the gate fetches the page from the origin, has *)
(* the facilitator verify and settle the author leg, defers the other legs,*)
(* keeps the event and serves (tollgate app.ts settleAndServe, settle.ts,  *)
(* x402.ts), and the buyer concludes from the response what became of its  *)
(* money (wayfarer paidFetch.ts).                                          *)
(*                                                                         *)
(* A request presents one signed payment; the same payment may be presented*)
(* again.  The facilitator and the chain are modelled from how the gate    *)
(* uses them: a submitted author leg may land until it is refused, answered*)
(* or not, and an authorization is consumed once.                          *)
(***************************************************************************)

CONSTANTS Payments,   \* signed payments
          Whole,      \* those that sign every leg: a stock payer signs the author's alone
          Requests,   \* requests that present a payment
          NoPayment

ASSUME TollAssumption == Whole \subseteq Payments /\ NoPayment \notin Payments

VARIABLES
  req,        \* the requests
  submitted,  \* requests whose author leg the facilitator may still land
  landed,     \* requests that moved the author's money
  deferred,   \* payments whose other legs are in the pending sink
  events      \* requests whose event is in the ledger

vars == <<req, submitted, landed, deferred, events>>

Answers == {"none", "paid", "free", "unserved", "refused", "error"}

Unborn == [at |-> "unborn", pay |-> NoPayment, sale |-> FALSE, safe |-> TRUE,
           fetched |-> FALSE, settled |-> FALSE, outcome |-> "none", answer |-> "none",
           buyer |-> "none"]

Init ==
  /\ req = [r \in Requests |-> Unborn]
  /\ submitted = {} /\ landed = {} /\ deferred = {} /\ events = {}

money == <<submitted, landed>>
ledger == <<deferred, events>>

At(r, stage) == req[r].at = stage
To(r, stage) == req' = [req EXCEPT ![r].at = stage]

(* The request ends: its outcome is reported, its answer sent.             *)
End(r, outcome, answer) ==
  req' = [req EXCEPT ![r].at = "answered", ![r].outcome = outcome, ![r].answer = answer]

(* The author leg of r's payment has been consumed.                        *)
Consumed(r) == \E q \in landed : req[q].pay = req[r].pay

-----------------------------------------------------------------------------
(* Fetch before settle.                                                    *)

(* A sale buys one indivisible thing of many payees; a safe request is a   *)
(* GET or a HEAD.                                                          *)
Present(r) ==
  /\ At(r, "unborn")
  /\ \E p \in Payments, sale, safe \in BOOLEAN :
       req' = [req EXCEPT ![r] = [Unborn EXCEPT !.at = IF safe THEN "fetching" ELSE "presented",
                                                !.pay = p, !.sale = sale, !.safe = safe]]
  /\ UNCHANGED <<money, ledger>>

(* Mutant: the headers of the page are enough.                             *)
FetchHeaders(r) ==
  /\ At(r, "fetching")
  /\ \E bytes \in BOOLEAN :
       req' = [req EXCEPT ![r].at = "presented", ![r].fetched = bytes]
  /\ UNCHANGED <<money, ledger>>

(* The bytes are in hand, or the origin could not serve and nothing is     *)
(* charged.                                                                *)
Fetch(r) ==
  /\ At(r, "fetching")
  /\ \/ req' = [req EXCEPT ![r].at = "presented", ![r].fetched = TRUE]
     \/ End(r, "unpaid", "unserved")
  /\ UNCHANGED <<money, ledger>>

-----------------------------------------------------------------------------
(* verifyAndSettle.                                                        *)

MayHonour(r) == req[r].sale => req[r].pay \in Whole

(* Every leg is verified before one is settled.  A payment that does not   *)
(* verify is refused; a rail that cannot be asked costs nobody a read; a   *)
(* facilitator client that cannot be built is an error of the gate.        *)
Verify(r) ==
  /\ At(r, "presented")
  /\ \/ MayHonour(r) /\ To(r, "verified")
     \/ End(r, "unpaid", "refused")
     \/ End(r, "unpaid", "free")
     \/ ~req[r].safe /\ End(r, "unpaid", "error")
     \/ End(r, "ambiguous", "error")
  /\ UNCHANGED <<money, ledger>>

Settle(r) ==
  /\ At(r, "verified")
  /\ submitted' = submitted \cup {r}
  /\ To(r, "settling")
  /\ UNCHANGED <<landed, ledger>>

(* The facilitator moves the money, whether or not anyone still waits.     *)
Land(r) ==
  /\ r \in submitted /\ ~Consumed(r)
  /\ submitted' = submitted \ {r}
  /\ landed' = landed \cup {r}
  /\ UNCHANGED <<req, ledger>>

SettleAnswered(r) ==
  /\ At(r, "settling") /\ r \in landed
  /\ req' = [req EXCEPT ![r].at = IF req[r].pay \in Whole THEN "deferring" ELSE "attributing",
                        ![r].settled = TRUE]
  /\ UNCHANGED <<money, ledger>>

(* Mutant: a leg that was consumed before is taken for settled.            *)
SettleReconciled(r) ==
  /\ At(r, "settling") /\ r \notin landed
  /\ submitted' = submitted \ {r}
  /\ IF Consumed(r)
     THEN req' = [req EXCEPT ![r].at = "attributing", ![r].settled = TRUE]
     ELSE End(r, "ambiguous", "refused")
  /\ UNCHANGED <<landed, ledger>>

(* The facilitator says no: short of funds, or the leg was consumed.       *)
SettleRefused(r) ==
  /\ At(r, "settling") /\ r \notin landed
  /\ submitted' = submitted \ {r}
  /\ End(r, "ambiguous", "refused")
  /\ UNCHANGED <<landed, ledger>>

(* Mutant: a call that throws is taken for one that moved nothing.         *)
SettleThrowsUnpaid(r) ==
  /\ At(r, "settling")
  /\ End(r, "unpaid", "refused")
  /\ UNCHANGED <<money, ledger>>

(* The call throws: it may have moved the money, or move it yet.           *)
SettleThrows(r) ==
  /\ At(r, "settling")
  /\ End(r, "ambiguous", "refused")
  /\ UNCHANGED <<money, ledger>>

(* Mutant: other legs that cannot be kept undo the read.                   *)
DeferOrRefuse(r) ==
  /\ At(r, "deferring")
  /\ \/ deferred' = deferred \cup {req[r].pay} /\ To(r, "attributing")
     \/ deferred' = deferred /\ End(r, "ambiguous", "refused")
  /\ UNCHANGED <<money, events>>

(* A write that fails is logged; the read goes on.                         *)
Defer(r) ==
  /\ At(r, "deferring")
  /\ \/ deferred' = deferred \cup {req[r].pay}
     \/ deferred' = deferred
  /\ To(r, "attributing")
  /\ UNCHANGED <<money, events>>

-----------------------------------------------------------------------------
(* The rest of settleAndAttribute, and the answer.                         *)

(* The licence is minted and the event kept if they can be.                *)
Attribute(r) ==
  /\ At(r, "attributing")
  /\ \/ events' = events \cup {r}
     \/ events' = events
  /\ To(r, "serving")
  /\ UNCHANGED <<money, deferred>>

(* The page in hand is served; for another method than GET or HEAD the     *)
(* origin is asked now, and may fail.                                      *)
Serve(r) ==
  /\ At(r, "serving")
  /\ \/ End(r, "settled", "paid")
     \/ ~req[r].safe /\ End(r, "settled", "error")
  /\ UNCHANGED <<money, ledger>>

(* The gate's process dies.                                                *)
Die(r) ==
  /\ req[r].at \notin {"unborn", "answered", "gone"}
  /\ To(r, "gone")
  /\ UNCHANGED <<money, ledger>>

(* What the buyer, who GETs, makes of the answer: a complete refusal is    *)
(* known to be unpaid, a body that breaks off after a 200 is not, a request*)
(* that never came back may be tried again.                                *)
Conclude(r) ==
  /\ req[r].at \in {"answered", "gone"} /\ req[r].buyer = "none" /\ req[r].safe
  /\ \/ /\ req[r].answer \in {"paid", "free"}
        /\ \E heard \in {"read", "settlement_ambiguous"} : req' = [req EXCEPT ![r].buyer = heard]
     \/ /\ req[r].answer \in {"refused", "unserved", "error"}
        /\ req' = [req EXCEPT ![r].buyer = "unpaid"]
     \/ req' = [req EXCEPT ![r].buyer = "origin_error"]
  /\ UNCHANGED <<money, ledger>>

Next ==
  \E r \in Requests :
    \/ Present(r) \/ Fetch(r) \/ Verify(r) \/ Settle(r) \/ Land(r)
    \/ SettleAnswered(r) \/ SettleRefused(r) \/ SettleThrows(r)
    \/ Defer(r) \/ Attribute(r) \/ Serve(r) \/ Die(r) \/ Conclude(r)

Spec == Init /\ [][Next]_vars

-----------------------------------------------------------------------------
(* Properties.                                                             *)

Stages == {"unborn", "fetching", "presented", "verified", "settling", "deferring",
           "attributing", "serving", "answered", "gone"}

Request ==
  [at : Stages, pay : Payments \cup {NoPayment}, sale : BOOLEAN, safe : BOOLEAN,
   fetched : BOOLEAN, settled : BOOLEAN, answer : Answers,
   outcome : {"none", "unpaid", "ambiguous", "settled"},
   buyer : {"none", "read", "settlement_ambiguous", "unpaid", "origin_error"}]

(* Every variable stays in its range, and a leg that moved is not with the *)
(* facilitator again (settleGateway makes one call).                       *)
TypeOK ==
  /\ req \in [Requests -> Request]
  /\ submitted \subseteq Requests \ landed /\ landed \subseteq Requests
  /\ deferred \subseteq Payments /\ events \subseteq Requests

(* `unpaid` is reported only of a request that has moved no money and never*)
(* will: whoever reserved it may have it back (LicenceReport, app.ts       *)
(* outcome, VerifyResult.stage).                                           *)
UnpaidMovesNothing ==
  \A r \in Requests : req[r].outcome = "unpaid" => r \notin submitted \cup landed

(* "Money moved" implies "content was in hand" (app.ts, settleAndServe):   *)
(* on a GET or HEAD the author is paid only after the bytes were fetched.  *)
MoneyImpliesContent ==
  \A r \in landed : req[r].safe => req[r].fetched

(* One payment buys one read, however often and at once it is presented    *)
(* (verifyAndSettle).                                                      *)
OnePaymentOneRead ==
  \A q, r \in Requests :
    req[q].answer = "paid" /\ req[r].answer = "paid" /\ req[q].pay = req[r].pay => q = r

(* Once the author leg is known to be settled nothing turns the read into a*)
(* refusal: not the pending sink, not the licence, not the ledger          *)
(* (settleAndAttribute).                                                   *)
SettledIsNotRefused ==
  \A r \in Requests : req[r].settled => req[r].answer \notin {"refused", "unserved", "free"}

(* A sale is all or nothing (VerifyOptions.requireEveryLeg): no money moves*)
(* for one whose payer did not sign every leg.                             *)
SaleIsWhole ==
  \A r \in landed : req[r].sale => req[r].pay \in Whole

=============================================================================
