------------------------------ MODULE InAppRead ------------------------------
(***************************************************************************)
(* A read at a site that runs the enforcement middleware inside its own    *)
(* app: the site's runtime asks the hosted gate for the publisher's        *)
(* configuration, keys and prices (enforce/src/enforce/config-source.ts,   *)
(* jwks-cache.ts, quote-source.ts), decides who is asking and what is due  *)
(* (decide.ts, agentDetect.ts, identity.ts, enforce/middleware.ts), and    *)
(* relays a presented payment to the gate, which settles it                *)
(* (tollgate/src/enforce-api/verify.ts).                                   *)
(*                                                                         *)
(* Each of these calls is awaited, and a step is what the site does between*)
(* two of them.  The configuration is cached with an age: the reads that   *)
(* find it too old share one fetch, and a fetch that fails keeps the last. *)
(*                                                                         *)
(* Between the two anything may be lost: the relay may never arrive, be    *)
(* turned away by what stands before the gate, hang, or be settled by a    *)
(* gate whose answer never comes back.  A payment's authorization is       *)
(* consumed once, and a payment may be presented again.                    *)
(***************************************************************************)
EXTENDS FiniteSets

CONSTANTS Reads,      \* requests to the site
          Payments,   \* signed payments
          Callers,    \* what a request may look like
          Policies,   \* what the publisher may have decided
          NoPayment

\* A caller: its signature, whether the signer is allow-listed, whether it is on
\* the block, allow and charge lists, the category of the crawler it names, a
\* user-agent known for an agent's, an armed claim its address forges, a
\* declared agent id, a payment header.
CallerRecord ==
  [signature : {"none", "invalid", "other", "allowed", "fleet"},
   blocked : BOOLEAN, allowed : BOOLEAN, charged : BOOLEAN,
   crawler : {"none", "search", "ai-training", "ai-assistant"},
   known : BOOLEAN, forged : BOOLEAN, declared : BOOLEAN, pays : BOOLEAN]

PolicyRecord ==
  [search : {"open", "prohibit"}, train : {"open", "prohibit"},
   input : {"open", "prohibit", "free"}, forged : {"toll", "block"}]

ASSUME InAppAssumption ==
  /\ Callers \subseteq CallerRecord /\ Policies \subseteq PolicyRecord
  /\ NoPayment \notin Payments

VARIABLES
  mode,     \* the publisher's tollMode at the gate, or suspended
  copy,     \* the site's copy of it, or none
  fresh,    \* the copy, or the failure to get one, is not to be asked for again yet
  read,     \* what the site makes of each request
  gate,     \* what the gate makes of each relayed payment
  moved     \* reads whose payment moved the author's money

config == <<copy, fresh>>
vars == <<mode, config, read, gate, moved>>

-----------------------------------------------------------------------------
(* Who is asking: classifyRequester.                                       *)

Verified(c) == c.signature \in {"other", "allowed", "fleet"}

\* classify: the first signal that speaks decides; an ambiguous caller is human
IsAgent(c) ==
  \/ c.pays \/ c.declared
  \/ ~c.pays /\ ~c.declared
     /\ \/ Verified(c) /\ c.signature # "allowed"
        \/ ~Verified(c) /\ IF c.allowed THEN c.forged ELSE c.charged \/ c.known

\* classify took the caller for a forger: only where the allow list would have let it in
Forger(c) == ~c.pays /\ ~c.declared /\ ~Verified(c) /\ c.allowed /\ c.forged

\* Mutant: a prohibited use refuses whoever asks.
ProhibitedToAll(c, p) ==
  \/ p.search = "prohibit" /\ c.crawler = "search"
  \/ p.train = "prohibit" /\ c.crawler = "ai-training"
  \/ p.input = "prohibit"

\* prohibitedUse: the crawler it names decides for search and training, for
\* ai-input every agent and every AI crawler is meant
Prohibited(c, p) ==
  \/ p.search = "prohibit" /\ c.crawler = "search"
  \/ p.train = "prohibit" /\ c.crawler = "ai-training"
  \/ p.input = "prohibit" /\ (IsAgent(c) \/ c.crawler \in {"ai-training", "ai-assistant"})

\* Mutant: a payment is looked at before the lists and the terms.
StandingPaidFirst(c, p) ==
  IF c.signature = "fleet" THEN "fleet"
  ELSE IF c.pays THEN "machine"
  ELSE IF c.blocked \/ (Forger(c) /\ p.forged = "block") THEN "blocked"
  ELSE IF Prohibited(c, p) THEN "blocked"
  ELSE IF ~IsAgent(c) THEN "human"
  ELSE IF p.input = "free" THEN "terms"
  ELSE "machine"

Standing(c, p) ==
  IF c.signature = "fleet" THEN "fleet"
  ELSE IF c.blocked \/ (Forger(c) /\ p.forged = "block") THEN "blocked"
  ELSE IF Prohibited(c, p) THEN "blocked"
  ELSE IF ~IsAgent(c) THEN "human"
  ELSE IF p.input = "free" THEN "terms"
  ELSE "machine"

\* nothing about the request says machine, and the publisher lists it nowhere
Person(c) ==
  /\ c.signature \in {"none", "invalid"} /\ c.crawler = "none"
  /\ ~(c.blocked \/ c.charged \/ c.known \/ c.forged \/ c.declared \/ c.pays)

\* the publisher refuses this crawler, or the use it names
Unwanted(c, p) ==
  /\ c.signature # "fleet"
  /\ \/ c.blocked
     \/ p.search = "prohibit" /\ c.crawler = "search"
     \/ p.train = "prohibit" /\ c.crawler = "ai-training"
     \/ p.input = "prohibit" /\ c.crawler # "none" /\ c.crawler # "search"

\* what a machine cannot deny: a payment, a signature, a list or a known user-agent
Machine(c) ==
  \/ c.pays \/ c.declared \/ c.signature = "other"
  \/ ~Verified(c) /\ ~c.allowed /\ (c.charged \/ c.known)
  \/ ~Verified(c) /\ c.allowed /\ c.forged

\* what decides a request, with what the properties say of it
Standings ==
  {[standing |-> Standing(c, p), pays |-> c.pays,
    kind |-> IF c.signature = "fleet" THEN "gate" ELSE IF Unwanted(c, p) THEN "unwanted"
             ELSE IF Person(c) THEN "person" ELSE IF Machine(c) THEN "machine" ELSE "other"] :
     c \in Callers, p \in Policies}

-----------------------------------------------------------------------------

Unmade == [at |-> "idle", who |-> [standing |-> "human", pays |-> FALSE, kind |-> "other"],
           pay |-> NoPayment, config |-> "none", outage |-> FALSE, reason |-> "none"]
Unrelayed == [at |-> "none", verdict |-> "none"]

Init ==
  /\ mode \in {"charge", "observe"} /\ copy = "none" /\ fresh = FALSE
  /\ read = [r \in Reads |-> Unmade]
  /\ gate = [r \in Reads |-> Unrelayed]
  /\ moved = {}

Consumed(p) == \E r \in moved : read[r].pay = p

Answer(r, with, reason) == read' = [read EXCEPT ![r] = [@ EXCEPT !.at = with, !.reason = reason]]

Serve(r, reason) == Answer(r, "served", reason)

\* Mutant: a gate that fails turns the read away.
GateFailureRefuses(r, step) == Answer(r, "refused", step)

\* any gate failure serves the read, at every step
ServedOnGateFailure(r, step) == Serve(r, step)

-----------------------------------------------------------------------------
(* The site.                                                               *)

\* load: a copy that is fresh is used at once, else the read waits for the fetch,
\* which it starts if no other read has
Begin(r) ==
  /\ read[r].at = "idle"
  /\ read' = [read EXCEPT ![r] = IF fresh THEN [@ EXCEPT !.at = "configured", !.config = copy]
                                 ELSE [@ EXCEPT !.at = "configuring"]]
  /\ UNCHANGED <<mode, config, gate, moved>>

\* the document says what the publisher chose, suspended or not
Documents == IF mode = "suspended" THEN {"charge", "observe"} ELSE {mode}

\* refresh: the document arrives, or cannot be had and the last one is kept; all
\* who wait go on with it
Load ==
  /\ \E r \in Reads : read[r].at = "configuring"
  /\ copy' \in Documents \cup {copy} /\ fresh' = TRUE
  /\ read' = [r \in Reads |-> IF read[r].at = "configuring"
                              THEN [read[r] EXCEPT !.at = "configured", !.config = copy'] ELSE read[r]]
  /\ UNCHANGED <<mode, gate, moved>>

\* ttlMs, or retryAfterMs after a failure, has passed
Lapse ==
  /\ fresh /\ fresh' = FALSE
  /\ UNCHANGED <<mode, copy, read, gate, moved>>

\* a request with a naulon licence, and the gate's keys not at hand
AskKeys(r) ==
  /\ read[r].at = "configured" /\ read[r].config # "none"
  /\ read' = [read EXCEPT ![r].at = "keying"]
  /\ UNCHANGED <<mode, config, gate, moved>>

\* the keys arrive, or the last are kept, or there are none: an outage if the gate
\* could not be asked
KeysLand(r) ==
  /\ read[r].at = "keying"
  /\ \E outage \in BOOLEAN : read' = [read EXCEPT ![r].at = "keyed", ![r].outage = outage]
  /\ UNCHANGED <<mode, config, gate, moved>>

\* without a configuration or off the gated pages nothing is decided; the
\* caller's standing ends every request but a machine's
Arrive(r) ==
  /\ read[r].at \in {"configured", "keyed"}
  /\ \/ Serve(r, "ungated")
     \/ /\ read[r].config # "none"
        /\ \E who \in Standings :
           \E pay \in {p \in Payments \cup {NoPayment} : p # NoPayment <=> who.pays} :
             read' = [read EXCEPT ![r] = [@ EXCEPT
               !.at = IF who.standing \in {"blocked", "machine"} THEN who.standing ELSE "served",
               !.who = who, !.pay = pay,
               !.reason = IF who.standing = "machine" THEN "none" ELSE who.standing]]
  /\ UNCHANGED <<mode, config, gate, moved>>

\* a held licence that entitles the read, checked before the price is looked up
Reread(r) ==
  /\ read[r].at = "machine" /\ ~read[r].outage
  /\ Serve(r, "licence")
  /\ UNCHANGED <<mode, config, gate, moved>>

\* the price of the page is asked for
AskPrice(r) ==
  /\ read[r].at = "machine"
  /\ read' = [read EXCEPT ![r].at = "pricing"]
  /\ UNCHANGED <<mode, config, gate, moved>>

\* a quote arrives
PriceLands(r) ==
  /\ read[r].at = "pricing"
  /\ read' = [read EXCEPT ![r].at = "priced"]
  /\ UNCHANGED <<mode, config, gate, moved>>

\* no quote, none that could be had or none that names a payee: the page is not gated
Unpriced(r) ==
  /\ read[r].at = "pricing"
  /\ Serve(r, "unpriced")
  /\ UNCHANGED <<mode, config, gate, moved>>

Observing(r) == read[r].config = "observe"

\* a licence nobody could verify, because the keys never arrived; an observing
\* site serves anyway
KeysOutage(r) ==
  /\ read[r].at = "priced" /\ read[r].outage /\ ~Observing(r)
  /\ ServedOnGateFailure(r, "keys")
  /\ UNCHANGED <<mode, config, gate, moved>>

\* the 402 and its offer
PaymentRequired(r) ==
  IF Observing(r) THEN Serve(r, "observing") ELSE Answer(r, "refused", "unpaid")

Ask(r) ==
  /\ read[r].at = "priced" /\ read[r].pay = NoPayment /\ (read[r].outage => Observing(r))
  /\ PaymentRequired(r)
  /\ UNCHANGED <<mode, config, gate, moved>>

\* a licence token is checked with the licence server
AskServer(r) ==
  /\ read[r].at = "priced" /\ read[r].pay = NoPayment /\ ~Observing(r)
  /\ read' = [read EXCEPT ![r].at = "introspecting"]
  /\ UNCHANGED <<mode, config, gate, moved>>

\* no status within INTROSPECT_TIMEOUT_MS, or no connection
ServerSilent(r) ==
  /\ read[r].at = "introspecting"
  /\ ServedOnGateFailure(r, "licence check")
  /\ UNCHANGED <<mode, config, gate, moved>>

\* its status and headers arrive: the race is over and its timer cleared
ServerAnswers(r) ==
  /\ read[r].at = "introspecting"
  /\ read' = [read EXCEPT ![r].at = "checking"]
  /\ UNCHANGED <<mode, config, gate, moved>>

\* the body is read: permitted, retry later, refused, or no verdict to be had
CheckLicence(r) ==
  /\ read[r].at = "checking"
  /\ \/ Serve(r, "licence")
     \/ Answer(r, "retry", "pending")
     \/ PaymentRequired(r)
     \/ ServedOnGateFailure(r, "licence check")
  /\ UNCHANGED <<mode, config, gate, moved>>

\* an observing site settles nothing; another relays the payment to the gate
Present(r) ==
  /\ read[r].at = "priced" /\ read[r].pay # NoPayment /\ (read[r].outage => Observing(r))
  /\ IF Observing(r) THEN Serve(r, "observing")
     ELSE read' = [read EXCEPT ![r].at = "relayed"]
  /\ UNCHANGED <<mode, config, gate, moved>>

Waiting(r) == read[r].at = "relayed"

\* Mutant: an answer without a verdict is never a refusal.
RefusesByVerdict(verdict) == verdict \in {"refused", "unclear"}

\* gateAnswer: what stands before the gate refuses by its 4xx
Refuses(verdict) == verdict \in {"refused", "unclear", "4xx"}

\* the gate's status and headers arrive: the race is over and its timer cleared
HeadersCome(r) ==
  /\ Waiting(r) /\ gate[r].at = "answered"
  /\ read' = [read EXCEPT ![r].at = "reading"]
  /\ UNCHANGED <<mode, config, gate, moved>>

\* the body is read: its verdict, a 4xx without one, or anything else, the rail
\* being unavailable among it
Hear(r) ==
  LET v == gate[r].verdict IN
  /\ read[r].at = "reading"
  /\ \/ v = "paid" /\ Serve(r, "paid")
     \/ Refuses(v) /\ Answer(r, "refused", "rejected")
     \/ v = "pending" /\ Answer(r, "retry", "pending")
     \/ ~Refuses(v) /\ v \notin {"paid", "pending"} /\ ServedOnGateFailure(r, "answer")
  /\ UNCHANGED <<mode, config, gate, moved>>

\* the body breaks off or is not JSON: the status alone decides, and of the
\* verdicts a refusal and a pending charge come with a 4xx
HearStatus(r) ==
  LET v == gate[r].verdict IN
  /\ read[r].at = "reading"
  /\ IF Refuses(v) \/ v = "pending" THEN Answer(r, "refused", "rejected")
     ELSE ServedOnGateFailure(r, "answer")
  /\ UNCHANGED <<mode, config, gate, moved>>

\* Mutant: only a gate that was never reached is given up.
GiveUpUnreached(r) ==
  /\ Waiting(r) /\ gate[r].at = "none"
  /\ ServedOnGateFailure(r, "timeout")
  /\ UNCHANGED <<mode, config, gate, moved>>

\* no status within VERIFY_TIMEOUT_MS: the gate may still settle
GiveUp(r) ==
  /\ Waiting(r)
  /\ ServedOnGateFailure(r, "timeout")
  /\ UNCHANGED <<mode, config, gate, moved>>

\* the connection breaks, before or after the gate has the payment
BreakOff(r) ==
  /\ Waiting(r)
  /\ ServedOnGateFailure(r, "broken")
  /\ UNCHANGED <<mode, config, gate, moved>>

-----------------------------------------------------------------------------
(* The gate: POST /_naulon/verify.                                         *)

\* the operator switches observe mode, or the site is suspended
SetMode ==
  /\ mode' \in {"charge", "observe", "suspended"} \ {mode}
  /\ UNCHANGED <<config, read, gate, moved>>

Reply(r, verdict) == gate' = [gate EXCEPT ![r].at = "answered", ![r].verdict = verdict]

\* a body limit, a firewall or a rate limiter before the gate answers for it; a
\* gate may also say that a charge for the read is running (GATE_VERDICTS)
TurnedAway(r) ==
  /\ Waiting(r) /\ gate[r].at = "none"
  /\ \E answer \in {"4xx", "5xx", "pending"} : Reply(r, answer)
  /\ UNCHANGED <<mode, config, read, moved>>

\* suspended, observing, or legs that are not the quote's: refused before
\* anything reaches the facilitator
Receive(r) ==
  /\ Waiting(r) /\ gate[r].at = "none"
  /\ \/ Reply(r, "refused")
     \/ mode = "charge" /\ gate' = [gate EXCEPT ![r].at = "settling"]
  /\ UNCHANGED <<mode, config, read, moved>>

\* the author leg moves: paid; a decision log that fails costs the buyer nothing
Settle(r) ==
  /\ gate[r].at = "settling" /\ ~Consumed(read[r].pay)
  /\ moved' = moved \cup {r}
  /\ Reply(r, "paid")
  /\ UNCHANGED <<mode, config, read>>

\* the facilitator refuses, or the rail cannot be asked: nothing moved
Decline(r) ==
  /\ gate[r].at = "settling"
  /\ \E verdict \in {"refused", "unavailable"} : Reply(r, verdict)
  /\ UNCHANGED <<mode, config, read, moved>>

\* the facilitator's answer is lost or settle throws: refused, and the money may
\* have moved all the same
Unclear(r) ==
  /\ gate[r].at = "settling"
  /\ moved' \in {moved} \cup (IF Consumed(read[r].pay) THEN {} ELSE {moved \cup {r}})
  /\ Reply(r, "unclear")
  /\ UNCHANGED <<mode, config, read>>

\* the gate's process ends, with or without a proxy to say so
Die(r) ==
  /\ gate[r].at = "settling" \/ (gate[r].at = "answered" /\ Waiting(r))
  /\ gate' = [gate EXCEPT ![r].at = "dead", ![r].verdict = "none"]
  /\ UNCHANGED <<mode, config, read, moved>>

-----------------------------------------------------------------------------

Site(r) ==
  \/ AskKeys(r) \/ Arrive(r) \/ Reread(r) \/ AskPrice(r)
  \/ KeysOutage(r) \/ Ask(r) \/ AskServer(r) \/ ServerSilent(r) \/ Present(r)
  \/ HeadersCome(r) \/ GiveUp(r)

\* what the gate or the licence server answers to a lookup, or a failure of it
Lookup(r) == KeysLand(r) \/ PriceLands(r) \/ Unpriced(r) \/ ServerAnswers(r) \/ CheckLicence(r)

Gate(r) == TurnedAway(r) \/ Receive(r) \/ Settle(r) \/ Decline(r) \/ Unclear(r) \/ Die(r)

Next ==
  \/ \E r \in Reads : Begin(r) \/ Site(r) \/ Lookup(r) \/ Hear(r) \/ HearStatus(r) \/ BreakOff(r)
                       \/ Gate(r)
  \/ Load \/ Lapse \/ SetMode

\* the site's own steps are taken, its timers among them; the gate's need not be: a
\* lookup may go unanswered, and a body that has begun need not end
Fairness == \A r \in Reads : WF_vars(Site(r))

Spec == Init /\ [][Next]_vars
FairSpec == Spec /\ Fairness
-----------------------------------------------------------------------------
(* Properties.                                                             *)

Who == [standing : {"fleet", "blocked", "human", "terms", "machine"}, pays : BOOLEAN,
        kind : {"gate", "unwanted", "person", "machine", "other"}]

Reasons == {"none", "ungated", "human", "fleet", "blocked", "terms", "licence", "unpriced", "keys",
            "observing", "unpaid", "pending", "licence check", "paid", "rejected", "answer",
            "timeout", "broken"}

\* where a read waits for the gate or the licence server and no timer of the site runs
Untimed == {"configuring", "keying", "pricing", "checking", "reading"}
Answers == {"served", "blocked", "refused", "retry"}

Read == [at : {"idle", "configured", "keyed", "machine", "priced", "introspecting",
               "relayed"} \cup Untimed \cup Answers,
         who : Who, pay : Payments \cup {NoPayment}, config : {"charge", "observe", "none"},
         outage : BOOLEAN, reason : Reasons]

TypeOK ==
  /\ mode \in {"charge", "observe", "suspended"} /\ copy \in {"charge", "observe", "none"}
  /\ fresh \in BOOLEAN
  /\ read \in [Reads -> Read]
  /\ gate \in [Reads -> [at : {"none", "settling", "answered", "dead"}, 
                         verdict : {"none", "paid", "refused", "unclear", "unavailable", "pending",
                                    "4xx", "5xx"}]]
  /\ moved \subseteq Reads

\* Nobody who paid is turned away: once the author's money moved for a read, its
\* answer is never a refusal, however the gate's own answer was lost, unless the
\* gate itself could not tell ("a second charge for this read is the outcome a
\* buyer cannot undo").
PaidIsNotRefused == \A r \in moved : read[r].at = "refused" => gate[r].verdict = "unclear"

\* A machine is served unpaid only for a reason of the site's or of the gate's:
\* never because it passes for a person, and never because what it sent was
\* turned away before the gate ("a header that provokes a 4xx never becomes a
\* free pass").
MachinePays ==
  \A r \in Reads : read[r].at = "served" /\ read[r].who.kind = "machine" =>
    /\ read[r].reason # "human"
    /\ read[r].reason = "answer" => ~(gate[r].verdict \in {"4xx", "refused", "unclear"})
    /\ read[r].reason = "paid" => r \in moved

\* A person is never asked to pay or refused, whatever the policy and whatever
\* the gate does ("Humans read free, forever").
PersonReads ==
  \A r \in Reads : read[r].who.kind = "person" => read[r].at = "served"

\* What the publisher refuses is not for sale: such a caller is neither served nor
\* charged, whatever it pays, declares or looks like (crawlerPolicy.block, termsPolicy).
RefusedIsNotSold ==
  \A r \in Reads : read[r].who.kind = "unwanted" => read[r].at = "blocked" /\ r \notin moved

\* A request whose payment went to the gate is answered, though the gate hangs or
\* dies with it ("a /verify that hangs must become a served read"), one whose
\* licence is asked about is though the licence server is silent, and so is any
\* other, unless the gate or that server withholds what no timer covers: an answer
\* to a lookup of configuration, keys or price, or the body of an answer that has
\* begun.
EveryReadAnswered ==
  \A r \in Reads : read[r].at # "idle" ~> read[r].at \in Answers \cup Untimed
=============================================================================
