---------------------------- MODULE EnforceProofs ----------------------------
(***************************************************************************)
(* What the enforcement client decides.  InAppRead, for any callers,       *)
(* policies, reads and payments: who is charged, who is refused and who is *)
(* served at an in-app site, whatever is lost between the site and the     *)
(* gate.  BotSignatures, for any operators, keys, lifetimes and requests:  *)
(* how long a removed key is trusted and a new one unknown.                *)
(***************************************************************************)
EXTENDS InAppRead, BotSignatures, SequenceTheorems, TLAPS

(* What a caller is agrees with what is decided for it.                    *)
Sound(who) ==
  /\ who \in Who
  /\ who.kind = "person" => who.standing = "human"
  /\ who.kind = "unwanted" => who.standing = "blocked"
  /\ who.kind = "machine" => who.standing # "human"

Early == {"idle", "configuring", "configured", "keying", "keyed"}
Decided == {"machine", "pricing", "priced", "introspecting", "checking"}
Undecided == Decided \cup {"relayed", "reading"}
Refusing == {"refused", "unclear", "4xx"}

(* How far a read has come at the site.                                    *)
AtSite(r) ==
  /\ Sound(read[r].who)
  /\ read[r].at \in Early => read[r].who.kind = "other"
  /\ read[r].at \in Undecided \cup {"refused", "retry"} => read[r].who.standing = "machine"
  /\ read[r].at = "blocked" <=> read[r].who.standing = "blocked"
  /\ read[r].reason = "human" => read[r].who.standing = "human"

(* How the site's answer, the gate's and the money agree.                  *)
AtGate(r) ==
  /\ gate[r].at # "none" => read[r].at \notin Early \cup Decided \cup {"blocked"}
  /\ read[r].at = "reading" => gate[r].at = "answered"
  /\ r \in moved => gate[r].at \in {"answered", "dead"}
  /\ r \in moved /\ gate[r].at = "answered" => gate[r].verdict \in {"paid", "unclear"}
  /\ gate[r].at = "answered" /\ gate[r].verdict = "paid" => r \in moved
  /\ read[r].at = "refused" =>
       /\ gate[r].at \in {"none", "answered"}
       /\ r \in moved => gate[r].verdict = "unclear"
  /\ read[r].at \in Undecided \cup Early => read[r].reason = "none"
  /\ read[r].reason = "answer" => /\ gate[r].at = "answered" /\ gate[r].verdict \notin Refusing
                                  /\ read[r].at = "served"
  /\ read[r].reason = "paid" => r \in moved

IInv ==
  /\ TypeOK
  /\ \A r \in Reads : AtSite(r) /\ AtGate(r)

-----------------------------------------------------------------------------

(* A person is human to every policy, an unwanted crawler is blocked by the *)
(* one that does not want it, and a machine is never human.                *)
LEMMA StandingsSound == \A who \in Standings : Sound(who)
  <1> SUFFICES ASSUME NEW c \in Callers, NEW p \in Policies
               PROVE  Sound([standing |-> Standing(c, p), pays |-> c.pays,
                             kind |-> IF c.signature = "fleet" THEN "gate"
                                      ELSE IF Unwanted(c, p) THEN "unwanted"
                                      ELSE IF Person(c) THEN "person"
                                      ELSE IF Machine(c) THEN "machine" ELSE "other"])
    BY DEF Standings
  <1>1. c \in CallerRecord /\ p \in PolicyRecord
    BY InAppAssumption
  <1>2. Person(c) /\ c.signature # "fleet" /\ ~Unwanted(c, p) => Standing(c, p) = "human"
    BY <1>1 DEF CallerRecord, PolicyRecord, Person, Unwanted, Standing, Forger, IsAgent, Verified,
                Prohibited
  <1>3. Unwanted(c, p) => Standing(c, p) = "blocked"
    BY <1>1 DEF CallerRecord, PolicyRecord, Unwanted, Standing, Prohibited
  <1>4. Machine(c) => IsAgent(c)
    BY <1>1 DEF CallerRecord, Machine, IsAgent, Verified
  <1>5. Machine(c) => Standing(c, p) # "human"
    BY <1>4 DEF Standing
  <1>6. Standing(c, p) \in {"fleet", "blocked", "human", "terms", "machine"}
    BY DEF Standing
  <1>7. c.pays \in BOOLEAN
    BY <1>1 DEF CallerRecord
  <1> QED
    BY <1>2, <1>3, <1>5, <1>6, <1>7 DEF Sound, Who

LEMMA InitIInv == Init => IInv
  <1> SUFFICES ASSUME Init PROVE IInv
    OBVIOUS
  <1>1. Unmade \in Read
    BY DEF Unmade, Read, Who, Reasons
  <1>2. \A r \in Reads : read[r] = Unmade /\ gate[r] = Unrelayed /\ r \notin moved
    BY DEF Init
  <1>3. TypeOK
    BY <1>1 DEF Init, TypeOK, Unrelayed
  <1>4. /\ Unmade.at = "idle" /\ Unmade.reason = "none" /\ Unrelayed.at = "none"
        /\ Unmade.who = [standing |-> "human", pays |-> FALSE, kind |-> "other"]
    BY DEF Unmade, Unrelayed
  <1>5. \A r \in Reads :
          /\ read[r].at = "idle" /\ read[r].reason = "none"
          /\ read[r].who = [standing |-> "human", pays |-> FALSE, kind |-> "other"]
          /\ gate[r].at = "none" /\ r \notin moved
    BY <1>2, <1>4
  <1>6. Sound([standing |-> "human", pays |-> FALSE, kind |-> "other"])
    BY DEF Sound, Who
  <1>7. \A r \in Reads : AtSite(r) /\ AtGate(r)
    BY <1>5, <1>6 DEF AtSite, AtGate, Undecided, Decided, Early
  <1> QED
    BY <1>3, <1>7 DEF IInv

(* A read that is answered changes in nothing else.                        *)
LEMMA AnswerStep ==
  ASSUME TypeOK, NEW r \in Reads,
         NEW with \in {"served", "refused", "retry"}, NEW reason \in Reasons,
         Answer(r, with, reason)
  PROVE  /\ read' \in [Reads -> Read]
         /\ read'[r].at = with /\ read'[r].reason = reason /\ read'[r].who = read[r].who
         /\ \A q \in Reads \ {r} : read'[q] = read[q]
  <1>1. read \in [Reads -> Read] /\ read[r] \in Read
    BY DEF TypeOK
  <1>2. [read[r] EXCEPT !.at = with, !.reason = reason] \in Read
    BY <1>1 DEF Read, Answers
  <1>3. read' = [read EXCEPT ![r] = [read[r] EXCEPT !.at = with, !.reason = reason]]
    BY <1>1 DEF Answer
  <1> QED
    BY <1>1, <1>2, <1>3 DEF Read

(* The other reads, and what is typed besides the reads, are untouched.    *)
LEMMA OthersAtSite ==
  ASSUME IInv, NEW r \in Reads, read' \in [Reads -> Read],
         AtSite(r)', AtGate(r)', \A q \in Reads \ {r} : read'[q] = read[q],
         UNCHANGED <<mode, config, gate, moved>>
  PROVE  IInv'
  <1>1. TypeOK'
    BY DEF IInv, TypeOK, config
  <1>2. ASSUME NEW q \in Reads, q # r PROVE AtSite(q)' /\ AtGate(q)'
    BY <1>2 DEF IInv, AtSite, AtGate
  <1> QED
    BY <1>1, <1>2 DEF IInv

(* A read that waits for the gate, or goes on, keeps what is decided of it. *)
LEMMA MoveStep ==
  ASSUME IInv, NEW r \in Reads, NEW next \in Read,
         read' = [read EXCEPT ![r] = next],
         next.who = read[r].who, next.reason = read[r].reason,
         \/ read[r].at \in Early /\ next.at \in Early
         \/ read[r].at \in Decided /\ next.at \in Decided,
         UNCHANGED <<mode, config, gate, moved>>
  PROVE  IInv'
  <1>0. TypeOK /\ AtSite(r) /\ AtGate(r)
    BY DEF IInv
  <1>1. /\ read' \in [Reads -> Read]
        /\ read'[r] = next
        /\ \A q \in Reads \ {r} : read'[q] = read[q]
    BY <1>0 DEF TypeOK
  <1>2. AtSite(r)' /\ AtGate(r)'
    BY <1>0, <1>1 DEF AtSite, AtGate, Undecided, Decided, Early
  <1> QED
    BY <1>1, <1>2, OthersAtSite

(* The lookups of a read, the licence server's among them.                 *)
LEMMA LookupStep ==
  ASSUME IInv, NEW r \in Reads,
         \/ Begin(r) \/ AskKeys(r) \/ KeysLand(r) \/ AskPrice(r) \/ PriceLands(r)
         \/ AskServer(r) \/ ServerAnswers(r)
  PROVE  IInv'
  <1>0. /\ read[r] \in Read /\ read \in [Reads -> Read] /\ copy \in {"charge", "observe", "none"}
        /\ UNCHANGED <<mode, config, gate, moved>>
    BY DEF IInv, TypeOK, Begin, AskKeys, KeysLand, AskPrice, PriceLands, AskServer, ServerAnswers
  <1>1. PICK next \in Read :
          /\ read' = [read EXCEPT ![r] = next]
          /\ next.who = read[r].who /\ next.reason = read[r].reason
          /\ \/ read[r].at \in Early /\ next.at \in Early
             \/ read[r].at \in Decided /\ next.at \in Decided
    <2>1. CASE Begin(r)
      <3>1. CASE fresh
        <4> DEFINE next == [read[r] EXCEPT !.at = "configured", !.config = copy]
        <4>1. next \in Read /\ next.who = read[r].who /\ next.reason = read[r].reason /\ next.at = "configured"
          BY <1>0 DEF Read
        <4>2. read' = [read EXCEPT ![r] = next] /\ read[r].at = "idle"
          BY <1>0, <2>1, <3>1 DEF Begin
        <4> QED
          BY <4>1, <4>2 DEF Early
      <3>2. CASE ~fresh
        <4> DEFINE next == [read[r] EXCEPT !.at = "configuring"]
        <4>1. next \in Read /\ next.who = read[r].who /\ next.reason = read[r].reason /\ next.at = "configuring"
          BY <1>0 DEF Read, Untimed
        <4>2. read' = [read EXCEPT ![r] = next] /\ read[r].at = "idle"
          BY <1>0, <2>1, <3>2 DEF Begin
        <4> QED
          BY <4>1, <4>2 DEF Early
      <3> QED
        BY <3>1, <3>2
    <2>2. CASE KeysLand(r)
      <3>1. PICK outage \in BOOLEAN : read' = [read EXCEPT ![r].at = "keyed", ![r].outage = outage]
        BY <2>2 DEF KeysLand
      <3> DEFINE next == [read[r] EXCEPT !.at = "keyed", !.outage = outage]
      <3>2. next \in Read /\ next.who = read[r].who /\ next.reason = read[r].reason /\ next.at = "keyed"
        BY <1>0 DEF Read
      <3>3. read' = [read EXCEPT ![r] = next] /\ read[r].at = "keying"
        BY <1>0, <2>2, <3>1 DEF KeysLand
      <3> QED
        BY <3>2, <3>3 DEF Early
    <2>3. ASSUME NEW at \in {"keying", "pricing", "priced", "introspecting", "checking"},
                 read' = [read EXCEPT ![r].at = at],
                 \/ at = "keying" /\ read[r].at \in Early
                 \/ at # "keying" /\ read[r].at \in Decided
          PROVE  \E next \in Read :
                   /\ read' = [read EXCEPT ![r] = next]
                   /\ next.who = read[r].who /\ next.reason = read[r].reason
                   /\ \/ read[r].at \in Early /\ next.at \in Early
                      \/ read[r].at \in Decided /\ next.at \in Decided
      <3> DEFINE next == [read[r] EXCEPT !.at = at]
      <3>1. next \in Read /\ next.who = read[r].who /\ next.reason = read[r].reason /\ next.at = at
        BY <1>0 DEF Read, Untimed
      <3>2. read' = [read EXCEPT ![r] = next]
        BY <1>0, <2>3
      <3> QED
        BY <2>3, <3>1, <3>2 DEF Early, Decided
    <2>4. CASE AskKeys(r) \/ AskPrice(r) \/ PriceLands(r) \/ AskServer(r) \/ ServerAnswers(r)
      BY <2>3, <2>4 DEF AskKeys, AskPrice, PriceLands, AskServer, ServerAnswers, Early, Decided
    <2> QED
      BY <2>1, <2>2, <2>4
  <1> QED
    BY <1>0, <1>1, MoveStep

(* The reads that wait for the configuration go on together.               *)
LEMMA LoadStep == IInv /\ Load => IInv'
  <1> SUFFICES ASSUME IInv, Load PROVE IInv'
    OBVIOUS
  <1>1. /\ TypeOK /\ copy' \in {"charge", "observe", "none"} /\ fresh' \in BOOLEAN
        /\ UNCHANGED <<mode, gate, moved>>
    BY DEF IInv, TypeOK, Load, Documents
  <1>2. \A r \in Reads : read[r].at = "configuring" =>
          [read[r] EXCEPT !.at = "configured", !.config = copy'] \in Read
    <2> SUFFICES ASSUME NEW r \in Reads
                 PROVE  [read[r] EXCEPT !.at = "configured", !.config = copy'] \in Read
      OBVIOUS
    <2>1. read[r] \in Read
      BY <1>1 DEF TypeOK
    <2> QED
      BY <1>1, <2>1 DEF Read
  <1>3. read' \in [Reads -> Read]
    BY <1>1, <1>2 DEF Load, TypeOK
  <1>4. ASSUME NEW r \in Reads
        PROVE  \/ read'[r] = read[r]
               \/ /\ read[r].at = "configuring" /\ read'[r].at = "configured"
                  /\ read'[r].who = read[r].who /\ read'[r].reason = read[r].reason
    BY <1>1 DEF Load, TypeOK, Read
  <1>5. ASSUME NEW r \in Reads PROVE AtSite(r)' /\ AtGate(r)'
    BY <1>1, <1>4 DEF IInv, AtSite, AtGate, Undecided, Decided, Early
  <1> QED
    BY <1>1, <1>3, <1>5 DEF IInv, TypeOK

(* A read that comes in is blocked, served, or a machine's.                *)
LEMMA ArriveStep ==
  ASSUME IInv, NEW r \in Reads, Arrive(r)
  PROVE  IInv'
  <1>0. /\ TypeOK /\ AtSite(r) /\ AtGate(r) /\ read[r].at \in Early
        /\ UNCHANGED <<mode, config, gate, moved>>
    BY DEF IInv, Arrive, Early
  <1>1. gate[r].at = "none" /\ r \notin moved
    BY <1>0 DEF AtGate
  <1>2. CASE Serve(r, "ungated")
    <2>1. Answer(r, "served", "ungated") /\ "ungated" \in Reasons
      BY <1>2 DEF Serve, Reasons
    <2>2. /\ read' \in [Reads -> Read]
          /\ read'[r].at = "served" /\ read'[r].reason = "ungated" /\ read'[r].who = read[r].who
          /\ \A q \in Reads \ {r} : read'[q] = read[q]
      BY <1>0, <2>1, AnswerStep
    <2>3. AtSite(r)' /\ AtGate(r)'
      BY <1>0, <1>1, <2>2 DEF AtSite, AtGate, Undecided, Decided, Early
    <2> QED
      BY <1>0, <2>2, <2>3, OthersAtSite
  <1>3. CASE ~Serve(r, "ungated")
    <2>1. PICK who \in Standings, pay \in Payments \cup {NoPayment} :
            read' = [read EXCEPT ![r] = [@ EXCEPT
              !.at = IF who.standing \in {"blocked", "machine"} THEN who.standing ELSE "served",
              !.who = who, !.pay = pay,
              !.reason = IF who.standing = "machine" THEN "none" ELSE who.standing]]
      BY <1>3 DEF Arrive
    <2>2. Sound(who)
      BY <2>1, StandingsSound
    <2>3. who \in Who /\ who.standing \in {"fleet", "blocked", "human", "terms", "machine"}
      BY <2>2 DEF Sound, Who
    <2>4. /\ read' \in [Reads -> Read]
          /\ read'[r].who = who
          /\ read'[r].at = IF who.standing \in {"blocked", "machine"} THEN who.standing ELSE "served"
          /\ read'[r].reason = IF who.standing = "machine" THEN "none" ELSE who.standing
          /\ \A q \in Reads \ {r} : read'[q] = read[q]
      <3> DEFINE next == [read[r] EXCEPT
                !.at = IF who.standing \in {"blocked", "machine"} THEN who.standing ELSE "served",
                !.who = who, !.pay = pay,
                !.reason = IF who.standing = "machine" THEN "none" ELSE who.standing]
      <3>1. read' = [read EXCEPT ![r] = next]
        BY <1>0, <2>1 DEF TypeOK
      <3>2. read[r] \in Read /\ read \in [Reads -> Read]
        BY <1>0 DEF TypeOK
      <3>3. /\ next \in Read /\ next.who = who
            /\ next.at = IF who.standing \in {"blocked", "machine"} THEN who.standing ELSE "served"
            /\ next.reason = IF who.standing = "machine" THEN "none" ELSE who.standing
        <4>1. (IF who.standing \in {"blocked", "machine"} THEN who.standing ELSE "served")
                \in {"blocked", "machine", "served"}
          OBVIOUS
        <4>2. (IF who.standing = "machine" THEN "none" ELSE who.standing) \in Reasons
          BY <2>3 DEF Reasons
        <4>3. pay \in Payments \cup {NoPayment}
          OBVIOUS
        <4> QED
          BY <2>3, <3>2, <4>1, <4>2, <4>3 DEF Read, Answers
      <3> QED
        BY <3>1, <3>2, <3>3
    <2>5. AtSite(r)' /\ AtGate(r)'
      BY <1>0, <1>1, <2>2, <2>3, <2>4 DEF AtSite, AtGate, Undecided, Decided, Early
    <2> QED
      BY <1>0, <2>4, <2>5, OthersAtSite
  <1> QED
    BY <1>2, <1>3

(* Before anything is relayed a machine's read is served, refused or put off. *)
LEMMA DecideStep ==
  ASSUME IInv, NEW r \in Reads,
         Reread(r) \/ Unpriced(r) \/ KeysOutage(r) \/ Ask(r) \/ ServerSilent(r) \/ CheckLicence(r)
           \/ (Present(r) /\ Observing(r))
  PROVE  IInv'
  <1>0. /\ TypeOK /\ AtSite(r) /\ AtGate(r) /\ read[r].at \in Decided
        /\ UNCHANGED <<mode, config, gate, moved>>
    BY DEF IInv, Reread, Unpriced, KeysOutage, Ask, ServerSilent, CheckLicence, Present, Decided
  <1>1. gate[r].at = "none" /\ r \notin moved
    BY <1>0 DEF AtGate
  <1>2. PICK with \in {"served", "refused", "retry"}, reason \in Reasons :
          /\ Answer(r, with, reason)
          /\ reason \notin {"human", "answer", "paid"}
    BY DEF Reread, Unpriced, KeysOutage, Ask, ServerSilent, CheckLicence, Present, PaymentRequired,
           ServedOnGateFailure, Serve, Reasons
  <1>3. /\ read' \in [Reads -> Read]
        /\ read'[r].at = with /\ read'[r].reason = reason /\ read'[r].who = read[r].who
        /\ \A q \in Reads \ {r} : read'[q] = read[q]
    BY <1>0, <1>2, AnswerStep
  <1>4. AtSite(r)' /\ AtGate(r)'
    BY <1>0, <1>1, <1>2, <1>3 DEF AtSite, AtGate, Undecided, Decided, Early
  <1> QED
    BY <1>0, <1>3, <1>4, OthersAtSite

(* A payment goes to the gate, and the gate's status comes back.           *)
LEMMA RelayStep ==
  ASSUME IInv, NEW r \in Reads, NEW at \in {"relayed", "reading"},
         \/ at = "relayed" /\ Present(r) /\ ~Observing(r)
         \/ at = "reading" /\ HeadersCome(r)
  PROVE  IInv'
  <1>0. /\ TypeOK /\ AtSite(r) /\ AtGate(r) /\ read[r].at \in Undecided /\ read[r] \in Read
        /\ at = "reading" => gate[r].at = "answered"
        /\ UNCHANGED <<mode, config, gate, moved>>
        /\ read' = [read EXCEPT ![r].at = at]
    BY DEF IInv, TypeOK, Present, HeadersCome, Waiting, Undecided, Decided
  <1>1. [read[r] EXCEPT !.at = at] \in Read
    BY <1>0 DEF Read, Untimed
  <1>2. /\ read' \in [Reads -> Read]
        /\ read'[r].at = at /\ read'[r].reason = read[r].reason /\ read'[r].who = read[r].who
        /\ \A q \in Reads \ {r} : read'[q] = read[q]
    BY <1>0, <1>1 DEF TypeOK, Read
  <1>3. AtSite(r)' /\ AtGate(r)'
    BY <1>0, <1>2 DEF AtSite, AtGate, Undecided, Decided, Early
  <1> QED
    BY <1>0, <1>2, <1>3, OthersAtSite

(* A relayed read is answered by what is heard of the gate, or by nothing. *)
LEMMA HearStep ==
  ASSUME IInv, NEW r \in Reads, Hear(r) \/ HearStatus(r) \/ GiveUp(r) \/ BreakOff(r)
  PROVE  IInv'
  <1>0. /\ TypeOK /\ AtSite(r) /\ AtGate(r) /\ read[r].at \in {"relayed", "reading"}
        /\ read[r].at = "reading" => gate[r].at = "answered"
        /\ UNCHANGED <<mode, config, gate, moved>>
    BY DEF IInv, Hear, HearStatus, GiveUp, BreakOff, Waiting, AtGate
  <1>1. PICK with \in {"served", "refused", "retry"}, reason \in Reasons :
          /\ Answer(r, with, reason)
          /\ reason # "human"
          /\ reason = "paid" => gate[r].at = "answered" /\ gate[r].verdict = "paid"
          /\ reason = "answer" => /\ gate[r].at = "answered" /\ gate[r].verdict \notin Refusing
                                  /\ with = "served"
          /\ with = "refused" => gate[r].at = "answered" /\ gate[r].verdict # "paid"
    BY <1>0 DEF Hear, HearStatus, GiveUp, BreakOff, Refuses, Refusing, ServedOnGateFailure, Serve, Reasons
  <1>2. /\ read' \in [Reads -> Read]
        /\ read'[r].at = with /\ read'[r].reason = reason /\ read'[r].who = read[r].who
        /\ \A q \in Reads \ {r} : read'[q] = read[q]
    BY <1>0, <1>1, AnswerStep
  <1>3. AtSite(r)' /\ AtGate(r)'
    BY <1>0, <1>1, <1>2 DEF AtSite, AtGate, Undecided, Decided, Early, Refusing
  <1> QED
    BY <1>0, <1>2, <1>3, OthersAtSite

LEMMA SiteStep ==
  ASSUME IInv, NEW r \in Reads,
         Begin(r) \/ Site(r) \/ Lookup(r) \/ Hear(r) \/ HearStatus(r) \/ BreakOff(r)
  PROVE  IInv'
  <1>1. CASE Arrive(r)
    BY <1>1, ArriveStep
  <1>2. CASE Reread(r) \/ Unpriced(r) \/ KeysOutage(r) \/ Ask(r) \/ ServerSilent(r) \/ CheckLicence(r)
    BY <1>2, DecideStep
  <1>3. CASE Present(r)
    BY <1>3, DecideStep, RelayStep
  <1>4. CASE HeadersCome(r)
    BY <1>4, RelayStep
  <1>5. CASE Hear(r) \/ HearStatus(r) \/ GiveUp(r) \/ BreakOff(r)
    BY <1>5, HearStep
  <1>6. CASE \/ Begin(r) \/ AskKeys(r) \/ KeysLand(r) \/ AskPrice(r) \/ PriceLands(r)
             \/ AskServer(r) \/ ServerAnswers(r)
    BY <1>6, LookupStep
  <1> QED
    BY <1>1, <1>2, <1>3, <1>4, <1>5, <1>6 DEF Site, Lookup

(* What the gate makes of a payment, the site standing still.              *)
LEMMA GateStep ==
  ASSUME IInv, NEW r \in Reads, Gate(r)
  PROVE  IInv'
  <1> USE DEF TypeOK, Undecided, Decided, Early, Refusing, config
  <1>0. TypeOK /\ AtSite(r) /\ AtGate(r) /\ UNCHANGED <<mode, config, read>>
    BY DEF IInv, Gate, TurnedAway, Receive, Settle, Decline, Unclear, Die
  <1>1. /\ TypeOK'
        /\ AtGate(r)'
        /\ \A q \in Reads \ {r} : gate'[q] = gate[q] /\ (q \in moved' <=> q \in moved)
    <2>1. CASE TurnedAway(r) \/ Receive(r)
      BY <1>0, <2>1 DEF TurnedAway, Receive, Waiting, Reply, AtGate
    <2>2. CASE Settle(r)
      BY <1>0, <2>2 DEF Settle, Reply, AtGate
    <2>3. CASE Decline(r)
      <3>1. PICK verdict \in {"refused", "unavailable"} : Reply(r, verdict)
        BY <2>3 DEF Decline
      <3>2. gate[r].at = "settling" /\ UNCHANGED <<mode, config, read, moved>>
        BY <2>3 DEF Decline
      <3>3. TypeOK' /\ \A q \in Reads \ {r} : gate'[q] = gate[q]
        BY <1>0, <3>1, <3>2 DEF Reply
      <3>4. gate'[r].at = "answered" /\ gate'[r].verdict = verdict
        BY <1>0, <3>1 DEF Reply
      <3>5. AtGate(r)'
        BY <1>0, <3>2, <3>4 DEF AtGate
      <3> QED
        BY <3>2, <3>3, <3>5
    <2>4. CASE Unclear(r)
      BY <1>0, <2>4 DEF Unclear, Reply, AtGate
    <2>5. CASE Die(r)
      BY <1>0, <2>5 DEF Die, Waiting, AtGate
    <2> QED
      BY <2>1, <2>2, <2>3, <2>4, <2>5 DEF Gate
  <1>2. \A q \in Reads : AtSite(q)'
    BY <1>0 DEF IInv, AtSite
  <1>3. \A q \in Reads \ {r} : AtGate(q)'
    BY <1>0, <1>1 DEF IInv, AtGate
  <1> QED
    BY <1>1, <1>2, <1>3 DEF IInv

LEMMA NextIInv == IInv /\ [Next]_vars => IInv'
  <1> SUFFICES ASSUME IInv, [Next]_vars PROVE IInv'
    OBVIOUS
  <1>1. CASE \E r \in Reads : Begin(r) \/ Site(r) \/ Lookup(r) \/ Hear(r) \/ HearStatus(r) \/ BreakOff(r)
    BY <1>1, SiteStep
  <1>2. CASE \E r \in Reads : Gate(r)
    BY <1>2, GateStep
  <1>3. CASE Lapse \/ SetMode
    <2>1. TypeOK' /\ UNCHANGED <<read, gate, moved>>
      BY <1>3 DEF Lapse, SetMode, config, IInv, TypeOK
    <2> QED
      BY <2>1 DEF IInv, AtSite, AtGate
  <1>4. CASE UNCHANGED vars
    BY <1>4 DEF vars, config, IInv, TypeOK, AtSite, AtGate
  <1> QED
    BY <1>1, <1>2, <1>3, <1>4, LoadStep DEF Next

LEMMA Inductive == Spec => []IInv
  BY InitIInv, NextIInv, PTL DEF Spec

-----------------------------------------------------------------------------

(* Every variable keeps its type.                                          *)
THEOREM Typed == Spec => []TypeOK
  <1>1. IInv => TypeOK
    BY DEF IInv
  <1> QED
    BY <1>1, Inductive, PTL

(* Whoever paid is not refused, unless the gate itself could not tell      *)
(* whether the money moved.                                                *)
THEOREM PaidNotRefused == Spec => []PaidIsNotRefused
  <1>1. IInv => PaidIsNotRefused
    BY DEF IInv, TypeOK, AtGate, PaidIsNotRefused
  <1> QED
    BY <1>1, Inductive, PTL

(* A machine reads unpaid for no reason of its own making.                 *)
THEOREM MachinesPay == Spec => []MachinePays
  <1>1. IInv => MachinePays
    BY DEF IInv, TypeOK, AtSite, AtGate, Sound, Refusing, MachinePays
  <1> QED
    BY <1>1, Inductive, PTL

(* Humans read free, under every policy and whatever the gate does.        *)
THEOREM PeopleRead == Spec => []PersonReads
  <1>1. IInv => PersonReads
    BY DEF IInv, TypeOK, Read, Untimed, Answers, AtSite, Sound, Undecided, Decided, Early, PersonReads
  <1> QED
    BY <1>1, Inductive, PTL

(* What a publisher refuses is sold to nobody.                             *)
THEOREM NothingRefusedIsSold == Spec => []RefusedIsNotSold
  <1>1. IInv => RefusedIsNotSold
    BY DEF IInv, TypeOK, AtSite, AtGate, Sound, RefusedIsNotSold
  <1> QED
    BY <1>1, Inductive, PTL
-----------------------------------------------------------------------------
(* BotSignatures.                                                           *)

Entries == [dir : Directories, keys : SUBSET Keys, at : Nat]
Fetches == [sent : Nat, served : BOOLEAN, keys : SUBSET Keys]
Verdicts == {"none", "absent", "invalid", "unverified", "unknown", "verified"}
Checks == [at : {"idle", "waiting", "told"}, outcome : Verdicts, arrived : Nat]

BotTypeOK ==
  /\ time \in Nat
  /\ published \in [Directories -> SUBSET Keys]
  /\ changed \in [Directories -> [Keys -> Nat]]
  /\ failed \in [Directories -> Nat]
  /\ cache \in Seq(Entries)
  /\ DOMAIN inflight \subseteq Directories
  /\ \A d \in DOMAIN inflight : inflight[d] \in Fetches
  /\ req \in [Requests -> Checks]

(* An entry holds what its directory held shortly before, but for what has  *)
(* changed since its fetch was sent; an empty one dates from a failure.     *)
TrueThen(entry, now, holds, since, down) ==
  /\ entry.at <= now
  /\ \A k \in entry.keys :
       \/ k \in holds[entry.dir]
       \/ since[entry.dir][k] + FetchTime >= entry.at
  /\ entry.keys = {} => down[entry.dir] >= entry.at

EntryTrue(entry) == TrueThen(entry, time, published, changed, failed)
StaysTrue(entry) == TrueThen(entry, time', published', changed', failed')

(* So does a fetch that was served, and none outlasts its deadline.         *)
FetchTrue(d) ==
  /\ inflight[d].sent <= time /\ time <= inflight[d].sent + FetchTime
  /\ inflight[d].served =>
       \A k \in Keys : \/ k \in inflight[d].keys <=> k \in published[d]
                       \/ changed[d][k] >= inflight[d].sent

(* A request that waits arrived before, and waits for a fetch that runs.    *)
WaitTrue(r) == req[r].at = "waiting" => Dir(r) \in DOMAIN inflight /\ req[r].arrived <= time

KInv ==
  /\ BotTypeOK
  /\ \A i \in DOMAIN cache : EntryTrue(cache[i])
  /\ Len(cache) <= Cap
  /\ \A d \in DOMAIN inflight : FetchTrue(d)
  /\ \A r \in Requests : WaitTrue(r)

-----------------------------------------------------------------------------

Less(s, i) == SubSeq(s, 1, i - 1) \o SubSeq(s, i + 1, Len(s))

(* Taking one element out of a sequence leaves the others.                  *)
LEMMA OneLess ==
  ASSUME NEW S, NEW s \in Seq(S), NEW i \in DOMAIN s
  PROVE  /\ Less(s, i) \in Seq(S) /\ Len(Less(s, i)) = Len(s) - 1
         /\ \A j \in DOMAIN Less(s, i) : \E k \in DOMAIN s : Less(s, i)[j] = s[k]
  <1> DEFINE t == Less(s, i)
             a == SubSeq(s, 1, i - 1)
             b == SubSeq(s, i + 1, Len(s))
  <1>0. i \in 1..Len(s) /\ Len(s) \in Nat /\ \A j \in 1..Len(s) : s[j] \in S
    OBVIOUS
  <1>1. /\ a \in Seq(S) /\ Len(a) = i - 1
        /\ \A j \in 1..(i - 1) : a[j] = s[j]
    <2>1. \A j \in 1..(i - 1) : s[j] \in S
      BY <1>0
    <2>2. 1 \in Int /\ i - 1 \in Int
      BY <1>0
    <2>3. /\ a \in Seq(S) /\ Len(a) = IF 1 <= i - 1 THEN (i - 1) - 1 + 1 ELSE 0
          /\ \A j \in 1..((i - 1) - 1 + 1) : a[j] = s[1 + j - 1]
      BY <2>1, <2>2, SubSeqProperties
    <2> QED
      BY <2>3, <1>0
  <1>2. /\ b \in Seq(S) /\ Len(b) = Len(s) - i
        /\ \A j \in 1..(Len(s) - i) : b[j] = s[i + j]
    <2>1. \A j \in (i + 1)..Len(s) : s[j] \in S
      BY <1>0
    <2>2. i + 1 \in Int /\ Len(s) \in Int
      BY <1>0
    <2>3. /\ b \in Seq(S) /\ Len(b) = IF i + 1 <= Len(s) THEN Len(s) - (i + 1) + 1 ELSE 0
          /\ \A j \in 1..(Len(s) - (i + 1) + 1) : b[j] = s[(i + 1) + j - 1]
      BY <2>1, <2>2, SubSeqProperties
    <2> QED
      BY <2>3, <1>0
  <1>3. t = a \o b
    BY DEF Less
  <1> HIDE DEF t, a, b
  <1>4. /\ a \o b \in Seq(S) /\ Len(a \o b) = Len(a) + Len(b)
        /\ \A j \in 1..(Len(a) + Len(b)) :
             (a \o b)[j] = IF j <= Len(a) THEN a[j] ELSE b[j - Len(a)]
    <2>1. a \in Seq(S) /\ b \in Seq(S)
      BY <1>1, <1>2
    <2> QED
      BY <2>1, ConcatProperties
  <1>l. Len(a) = i - 1 /\ Len(b) = Len(s) - i
    BY <1>1, <1>2
  <1>5. t \in Seq(S) /\ Len(t) = Len(s) - 1
    <2>1. t \in Seq(S) /\ Len(t) = Len(a) + Len(b)
      BY <1>3, <1>4
    <2>2. Len(a) + Len(b) = Len(s) - 1
      BY <1>l, <1>0
    <2> QED
      BY <2>1, <2>2
  <1>n. \A j \in 1..(Len(s) - 1) : t[j] = IF j <= i - 1 THEN a[j] ELSE b[j - (i - 1)]
    <2>1. Len(a) + Len(b) = Len(s) - 1
      BY <1>l, <1>0
    <2> QED
      BY <1>3, <1>4, <1>l, <2>1
  <1>6. ASSUME NEW j \in DOMAIN t PROVE \E k \in DOMAIN s : t[j] = s[k]
    <2>0. j \in 1..(Len(s) - 1) /\ DOMAIN s = 1..Len(s)
      BY <1>5
    <2>1. CASE j <= i - 1
      <3>1. t[j] = s[j] /\ j \in DOMAIN s
        BY <2>0, <2>1, <1>0, <1>1, <1>n
      <3> QED
        BY <3>1
    <2>2. CASE ~(j <= i - 1)
      <3>0. t[j] = IF j <= i - 1 THEN a[j] ELSE b[j - (i - 1)]
        BY <2>0, <1>n
      <3>1. t[j] = b[j - (i - 1)] /\ j - (i - 1) \in 1..(Len(s) - i)
        <4>1. t[j] = b[j - (i - 1)]
          BY <3>0, <2>2
        <4>2. i \in Int /\ Len(s) \in Int /\ j \in Int /\ j <= Len(s) - 1
          BY <2>0, <1>0
        <4>3. j - (i - 1) \in 1..(Len(s) - i)
          BY <4>2, <2>2
        <4> QED
          BY <4>1, <4>3
      <3>2. b[j - (i - 1)] = s[i + (j - (i - 1))]
        BY <3>1, <1>2
      <3>3. i + (j - (i - 1)) = j + 1 /\ j + 1 \in DOMAIN s
        BY <2>0, <1>0
      <3> QED
        BY <3>1, <3>2, <3>3
    <2> QED
      BY <2>1, <2>2
  <1> QED
    BY <1>5, <1>6 DEF t

(* delete takes nothing but the directory's entry.                          *)
LEMMA WithoutKeeps ==
  ASSUME NEW d, cache \in Seq(Entries)
  PROVE  /\ Without(d) \in Seq(Entries)
         /\ Len(Without(d)) <= Len(cache)
         /\ Places(d) # {} => Len(Without(d)) = Len(cache) - 1
         /\ \A j \in DOMAIN Without(d) : \E k \in DOMAIN cache : Without(d)[j] = cache[k]
  <1>1. CASE Places(d) = {}
    <2>1. Without(d) = cache
      BY <1>1 DEF Without
    <2> QED
      BY <1>1, <2>1
  <1>2. CASE Places(d) # {}
    <2> DEFINE i == CHOOSE i \in Places(d) : TRUE
    <2>1. i \in DOMAIN cache
      BY <1>2 DEF Places
    <2>2. Without(d) = Less(cache, i)
      BY <1>2 DEF Without, Less
    <2> HIDE DEF i
    <2>4. /\ Less(cache, i) \in Seq(Entries) /\ Len(Less(cache, i)) = Len(cache) - 1
          /\ \A j \in DOMAIN Less(cache, i) : \E k \in DOMAIN cache : Less(cache, i)[j] = cache[k]
      BY <2>1, OneLess
    <2>5. Len(cache) \in Nat
      OBVIOUS
    <2> QED
      BY <2>2, <2>4, <2>5
  <1> QED
    BY <1>1, <1>2

(* An entry appended after the others.                                      *)
LEMMA AppendedAfter ==
  ASSUME NEW S, NEW s \in Seq(S), NEW e \in S
  PROVE  /\ Append(s, e) \in Seq(S) /\ Len(Append(s, e)) = Len(s) + 1
         /\ \A j \in DOMAIN Append(s, e) :
              Append(s, e)[j] = e \/ \E k \in DOMAIN s : Append(s, e)[j] = s[k]
  OBVIOUS

(* get keeps the entries it has.                                            *)
LEMMA UsedKeeps ==
  ASSUME KInv, NEW d \in Directories, NEW entry \in Hits(d)
  PROVE  /\ entry \in Entries /\ EntryTrue(entry) /\ entry.dir = d /\ Fresh(entry)
         /\ Used(entry) \in Seq(Entries) /\ Len(Used(entry)) <= Cap
         /\ \A j \in DOMAIN Used(entry) : EntryTrue(Used(entry)[j])
  <1>1. PICK i \in DOMAIN cache : cache[i] = entry
    BY DEF Hits, Range
  <1>2. entry \in Entries /\ EntryTrue(entry)
    BY <1>1 DEF KInv, BotTypeOK
  <1>3. entry.dir = d /\ Fresh(entry)
    BY DEF Hits
  <1>4. Places(entry.dir) # {}
    BY <1>1 DEF Places
  <1>5. /\ Without(entry.dir) \in Seq(Entries)
        /\ Len(Without(entry.dir)) = Len(cache) - 1
        /\ \A j \in DOMAIN Without(entry.dir) :
             \E k \in DOMAIN cache : Without(entry.dir)[j] = cache[k]
    BY <1>4, WithoutKeeps DEF KInv, BotTypeOK
  <1>6. /\ Used(entry) \in Seq(Entries) /\ Len(Used(entry)) = Len(Without(entry.dir)) + 1
        /\ \A j \in DOMAIN Used(entry) :
             \/ Used(entry)[j] = entry
             \/ \E k \in DOMAIN Without(entry.dir) : Used(entry)[j] = Without(entry.dir)[k]
    BY <1>2, <1>5, AppendedAfter DEF Used
  <1>7. Len(Used(entry)) <= Cap
    <2>1. Len(cache) \in Nat /\ Len(cache) <= Cap /\ Cap \in Nat
      BY BotAssumption DEF KInv, BotTypeOK
    <2> QED
      BY <2>1, <1>5, <1>6
  <1>8. \A j \in DOMAIN Used(entry) : EntryTrue(Used(entry)[j])
    <2>1. \A k \in DOMAIN cache : EntryTrue(cache[k])
      BY DEF KInv
    <2>2. \A j \in DOMAIN Used(entry) :
            Used(entry)[j] = entry \/ \E k \in DOMAIN cache : Used(entry)[j] = cache[k]
      BY <1>5, <1>6
    <2> QED
      BY <1>2, <2>1, <2>2
  <1> QED
    BY <1>2, <1>3, <1>6, <1>7, <1>8

(* set adds its entry and drops at most one.                                *)
LEMMA PutKeeps ==
  ASSUME KInv, NEW d \in Directories, NEW keys \in SUBSET Keys
  PROVE  /\ Put(d, keys) \in Seq(Entries) /\ Len(Put(d, keys)) <= Cap
         /\ \A j \in DOMAIN Put(d, keys) :
              \/ Put(d, keys)[j] = [dir |-> d, keys |-> keys, at |-> time]
              \/ \E k \in DOMAIN cache : Put(d, keys)[j] = cache[k]
  <1> DEFINE e == [dir |-> d, keys |-> keys, at |-> time]
             w == Without(d)
             g == Append(w, e)
  <1>1. e \in Entries
    BY DEF KInv, BotTypeOK, Entries
  <1>2. /\ w \in Seq(Entries) /\ Len(w) <= Len(cache)
        /\ \A j \in DOMAIN w : \E k \in DOMAIN cache : w[j] = cache[k]
    BY WithoutKeeps DEF KInv, BotTypeOK
  <1>3. Put(d, keys) = IF Len(g) > Cap THEN Tail(g) ELSE g
    BY DEF Put
  <1> HIDE DEF e, w
  <1>4. /\ g \in Seq(Entries) /\ Len(g) = Len(w) + 1
        /\ \A j \in DOMAIN g : g[j] = e \/ \E k \in DOMAIN w : g[j] = w[k]
    BY <1>1, <1>2, AppendedAfter
  <1> HIDE DEF g
  <1>5. Len(cache) \in Nat /\ Len(cache) <= Cap /\ Cap \in Nat /\ Len(w) \in Nat
    BY <1>2, BotAssumption DEF KInv, BotTypeOK
  <1>6. \A j \in DOMAIN g : g[j] = e \/ \E k \in DOMAIN cache : g[j] = cache[k]
    BY <1>2, <1>4
  <1>7. CASE Len(g) > Cap
    <2>1. g # << >>
      BY <1>4, <1>5
    <2>2. /\ Tail(g) \in Seq(Entries) /\ Len(Tail(g)) = Len(g) - 1
          /\ \A j \in 1..Len(Tail(g)) : Tail(g)[j] = g[j + 1]
      BY <2>1, <1>4, HeadTailProperties
    <2>3. \A j \in DOMAIN Tail(g) : j + 1 \in DOMAIN g /\ Tail(g)[j] = g[j + 1]
      BY <2>2, <1>4, <1>5
    <2>4. \A j \in DOMAIN Tail(g) : Tail(g)[j] = e \/ \E k \in DOMAIN cache : Tail(g)[j] = cache[k]
      BY <2>3, <1>6
    <2>5. Len(Tail(g)) <= Cap
      BY <2>2, <1>2, <1>4, <1>5
    <2>6. Put(d, keys) = Tail(g)
      BY <1>3, <1>7
    <2> QED
      BY <2>2, <2>4, <2>5, <2>6 DEF e
  <1>8. CASE ~(Len(g) > Cap)
    <2>1. Put(d, keys) = g
      BY <1>3, <1>8
    <2>2. Len(g) <= Cap
      BY <1>4, <1>5, <1>8
    <2> QED
      BY <2>1, <2>2, <1>4, <1>6 DEF e
  <1> QED
    BY <1>7, <1>8

-----------------------------------------------------------------------------

LEMMA InitKInv == BotInit => KInv
  <1> SUFFICES ASSUME BotInit PROVE KInv
    OBVIOUS
  <1>0. FetchTime \in Nat /\ Cap \in Nat \ {0}
    BY BotAssumption
  <1>1. published \in [Directories -> SUBSET Keys]
    BY BotAssumption DEF BotInit
  <1>2. DOMAIN inflight = {} /\ DOMAIN cache = {} /\ cache \in Seq(Entries) /\ Len(cache) = 0
    BY DEF BotInit
  <1>3. \A r \in Requests : req[r] \in Checks /\ req[r].at = "idle"
    BY DEF BotInit, NoRequest, Checks, Verdicts
  <1>4. req \in [Requests -> Checks]
    BY <1>3 DEF BotInit
  <1>5. BotTypeOK
    BY <1>1, <1>2, <1>4 DEF BotInit, BotTypeOK
  <1>6. \A r \in Requests : WaitTrue(r)
    BY <1>3 DEF WaitTrue
  <1>7. Len(cache) <= Cap
    BY <1>0, <1>2
  <1> QED
    BY <1>2, <1>5, <1>6, <1>7 DEF KInv

(* What a request may be told.                                              *)
LEMMA ToldTyped ==
  ASSUME NEW v \in Verdicts
  PROVE  Told(v) \in Checks /\ Told(v).at = "told" /\ Told(v).outcome = v
  BY DEF Told, NoRequest, Checks

LEMMA OutcomeTyped ==
  ASSUME NEW r, NEW keys, NEW genuine
  PROVE  Outcome(r, keys, genuine) \in Verdicts
  BY DEF Outcome, Verdicts

LEMMA Signed == \A r \in Requests : Dir(r) \in Directories /\ Key(r) \in Keys
  BY BotAssumption DEF Dir, Key

(* A request that is told, or leaves, waits for nothing.                    *)
LEMMA NoLongerWaits ==
  ASSUME KInv, NEW r \in Requests, NEW now \in Checks, now.at # "waiting",
         req' = [req EXCEPT ![r] = now],
         UNCHANGED <<time, operator, failed, inflight>>
  PROVE  /\ req' \in [Requests -> Checks]
         /\ \A q \in Requests : WaitTrue(q)'
         /\ \A d \in DOMAIN inflight' : FetchTrue(d)' /\ inflight'[d] \in Fetches
         /\ DOMAIN inflight' \subseteq Directories
  <1>1. \A q \in Requests : WaitTrue(q) /\ req \in [Requests -> Checks]
    BY DEF KInv, BotTypeOK
  <1>2. \A q \in Requests : q # r => req'[q] = req[q]
    BY <1>1
  <1>3. req'[r] = now /\ req' \in [Requests -> Checks]
    BY <1>1
  <1>4. time' = time /\ inflight' = inflight
    OBVIOUS
  <1>5. \A q \in Requests : WaitTrue(q)'
    BY <1>1, <1>2, <1>3, <1>4 DEF WaitTrue
  <1>6. \A d \in DOMAIN inflight' : FetchTrue(d)' /\ inflight'[d] \in Fetches
    BY <1>4 DEF KInv, BotTypeOK, FetchTrue, operator
  <1> QED
    BY <1>3, <1>4, <1>5, <1>6 DEF KInv, BotTypeOK

(* A request that waits joins the fetch that runs, or starts one.           *)
LEMMA AwaitKeeps ==
  ASSUME KInv, NEW r \in Requests, Await(r), UNCHANGED <<time, operator, failed>>
  PROVE  /\ req' \in [Requests -> Checks]
         /\ \A q \in Requests : WaitTrue(q)'
         /\ \A d \in DOMAIN inflight' : FetchTrue(d)' /\ inflight'[d] \in Fetches
         /\ DOMAIN inflight' \subseteq Directories
  <1>0. /\ time \in Nat /\ FetchTime \in Nat /\ time' = time
        /\ published' = published /\ changed' = changed
    BY BotAssumption DEF KInv, BotTypeOK, operator
  <1>1. req \in [Requests -> Checks]
    BY DEF KInv, BotTypeOK
  <1>2. req' = [req EXCEPT ![r] = [req[r] EXCEPT !.at = "waiting", !.arrived = time]]
    BY DEF Await
  <1>3. req[r] \in Checks
    BY <1>1
  <1>4. [req[r] EXCEPT !.at = "waiting", !.arrived = time] \in Checks
    BY <1>0, <1>3 DEF Checks
  <1>5. req' \in [Requests -> Checks]
    BY <1>1, <1>2, <1>4
  <1>6. req'[r].at = "waiting" /\ req'[r].arrived = time
    BY <1>1, <1>2, <1>3 DEF Checks
  <1>7. \A q \in Requests : q # r => req'[q] = req[q]
    BY <1>1, <1>2
  <1>8. DOMAIN inflight' = DOMAIN inflight \cup {Dir(r)}
    BY DEF Await
  <1>9. DOMAIN inflight' \subseteq Directories
    BY <1>8, Signed DEF KInv, BotTypeOK
  <1>10. \A q \in Requests : WaitTrue(q)'
    <2> SUFFICES ASSUME NEW q \in Requests, req'[q].at = "waiting"
                 PROVE  Dir(q) \in DOMAIN inflight' /\ req'[q].arrived <= time'
      BY DEF WaitTrue
    <2>1. CASE q = r
      BY <1>0, <1>6, <1>8, <2>1
    <2>2. CASE q # r
      <3>1. WaitTrue(q)
        BY DEF KInv
      <3> QED
        BY <2>2, <3>1, <1>0, <1>7, <1>8 DEF WaitTrue
    <2> QED
      BY <2>1, <2>2
  <1>11. ASSUME NEW d \in DOMAIN inflight' PROVE FetchTrue(d)' /\ inflight'[d] \in Fetches
    <2>1. CASE d \in DOMAIN inflight
      <3>1. inflight'[d] = inflight[d]
        BY <2>1, <1>8 DEF Await
      <3>2. FetchTrue(d) /\ inflight[d] \in Fetches
        BY <2>1 DEF KInv, BotTypeOK
      <3> QED
        BY <3>1, <3>2, <1>0 DEF FetchTrue
    <2>2. CASE d \notin DOMAIN inflight
      <3>1. inflight'[d] = [sent |-> time, served |-> FALSE, keys |-> {}]
        BY <2>2, <1>8 DEF Await
      <3>2. inflight'[d] \in Fetches
        BY <3>1, <1>0 DEF Fetches
      <3>3. inflight'[d].sent = time /\ inflight'[d].served = FALSE
        BY <3>1
      <3> QED
        BY <3>2, <3>3, <1>0 DEF FetchTrue
    <2> QED
      BY <2>1, <2>2
  <1> QED
    BY <1>5, <1>9, <1>10, <1>11

(* The cache is as true as before while no operator and no clock moves.     *)
LEMMA CacheKept ==
  ASSUME KInv, NEW s, s \in Seq(Entries), Len(s) <= Cap,
         \A j \in DOMAIN s : EntryTrue(s[j]), cache' = s,
         UNCHANGED <<time, operator, failed>>
  PROVE  /\ cache' \in Seq(Entries) /\ Len(cache') <= Cap
         /\ \A j \in DOMAIN cache' : StaysTrue(cache'[j])
  BY DEF EntryTrue, StaysTrue, TrueThen, operator

LEMMA Assemble ==
  ASSUME /\ time' \in Nat /\ published' \in [Directories -> SUBSET Keys]
         /\ changed' \in [Directories -> [Keys -> Nat]] /\ failed' \in [Directories -> Nat],
         /\ cache' \in Seq(Entries) /\ Len(cache') <= Cap
         /\ \A j \in DOMAIN cache' : StaysTrue(cache'[j]),
         /\ req' \in [Requests -> Checks]
         /\ \A q \in Requests : WaitTrue(q)'
         /\ \A d \in DOMAIN inflight' : FetchTrue(d)' /\ inflight'[d] \in Fetches
         /\ DOMAIN inflight' \subseteq Directories
  PROVE  KInv'
  BY DEF KInv, BotTypeOK, EntryTrue, StaysTrue

LEMMA ToldStep ==
  ASSUME KInv, NEW r \in Requests, ArrivePlain(r) \/ Leave(r) PROVE KInv'
  <1>1. \E now \in Checks : now.at # "waiting" /\ req' = [req EXCEPT ![r] = now]
    <2>1. CASE ArrivePlain(r)
      <3>1. PICK v \in {"absent", "invalid"} : req' = [req EXCEPT ![r] = Told(v)]
        BY <2>1 DEF ArrivePlain
      <3>2. v \in Verdicts
        BY DEF Verdicts
      <3> QED
        BY <3>1, <3>2, ToldTyped
    <2>2. CASE Leave(r)
      <3>1. NoRequest \in Checks /\ NoRequest.at # "waiting"
        BY DEF NoRequest, Checks, Verdicts
      <3> QED
        BY <2>2, <3>1 DEF Leave
    <2> QED
      BY <2>1, <2>2
  <1>2. PICK now \in Checks : now.at # "waiting" /\ req' = [req EXCEPT ![r] = now]
    BY <1>1
  <1>3. UNCHANGED <<time, operator, failed, cache, inflight>>
    BY DEF ArrivePlain, Leave
  <1>4. /\ req' \in [Requests -> Checks]
        /\ \A q \in Requests : WaitTrue(q)'
        /\ \A d \in DOMAIN inflight' : FetchTrue(d)' /\ inflight'[d] \in Fetches
        /\ DOMAIN inflight' \subseteq Directories
    BY <1>2, <1>3, NoLongerWaits
  <1>5. /\ cache' \in Seq(Entries) /\ Len(cache') <= Cap
        /\ \A j \in DOMAIN cache' : StaysTrue(cache'[j])
    BY <1>3 DEF KInv, BotTypeOK, EntryTrue, StaysTrue, TrueThen, operator
  <1>6. /\ time' \in Nat /\ published' \in [Directories -> SUBSET Keys]
        /\ changed' \in [Directories -> [Keys -> Nat]] /\ failed' \in [Directories -> Nat]
    BY <1>3 DEF KInv, BotTypeOK, operator
  <1> QED
    BY <1>4, <1>5, <1>6, Assemble

LEMMA ArriveSignedStep ==
  ASSUME KInv, NEW r \in Requests, ArriveSigned(r) PROVE KInv'
  <1>0. Dir(r) \in Directories
    BY Signed
  <1>1. UNCHANGED <<time, operator, failed>>
    BY DEF ArriveSigned
  <1>2. /\ time' \in Nat /\ published' \in [Directories -> SUBSET Keys]
        /\ changed' \in [Directories -> [Keys -> Nat]] /\ failed' \in [Directories -> Nat]
    BY <1>1 DEF KInv, BotTypeOK, operator
  <1>3. CASE Hits(Dir(r)) = {} /\ cache' = Without(Dir(r)) /\ Await(r)
    <2>1. /\ Without(Dir(r)) \in Seq(Entries) /\ Len(Without(Dir(r))) <= Len(cache)
          /\ \A j \in DOMAIN Without(Dir(r)) : \E k \in DOMAIN cache : Without(Dir(r))[j] = cache[k]
      BY WithoutKeeps DEF KInv, BotTypeOK
    <2>2. Len(Without(Dir(r))) <= Cap
      <3>1. Len(cache) \in Nat /\ Len(cache) <= Cap /\ Cap \in Nat /\ Len(Without(Dir(r))) \in Nat
        BY <2>1, BotAssumption DEF KInv, BotTypeOK
      <3> QED
        BY <3>1, <2>1
    <2>3. \A j \in DOMAIN Without(Dir(r)) : EntryTrue(Without(Dir(r))[j])
      BY <2>1 DEF KInv
    <2>4. /\ cache' \in Seq(Entries) /\ Len(cache') <= Cap
          /\ \A j \in DOMAIN cache' : StaysTrue(cache'[j])
      BY <1>1, <1>3, <2>1, <2>2, <2>3, CacheKept
    <2>5. /\ req' \in [Requests -> Checks]
          /\ \A q \in Requests : WaitTrue(q)'
          /\ \A d \in DOMAIN inflight' : FetchTrue(d)' /\ inflight'[d] \in Fetches
          /\ DOMAIN inflight' \subseteq Directories
      BY <1>1, <1>3, AwaitKeeps
    <2> QED
      BY <1>2, <2>4, <2>5, Assemble
  <1>4. ASSUME NEW entry \in Hits(Dir(r)), NEW genuine \in BOOLEAN, cache' = Used(entry),
               IF entry.keys # {} /\ Key(r) \notin entry.keys THEN Miss(r)
               ELSE /\ req' = [req EXCEPT ![r] = Told(Outcome(r, entry.keys, genuine))]
                    /\ UNCHANGED inflight
        PROVE  KInv'
    <2>1. /\ Used(entry) \in Seq(Entries) /\ Len(Used(entry)) <= Cap
          /\ \A j \in DOMAIN Used(entry) : EntryTrue(Used(entry)[j])
      BY <1>0, UsedKeeps
    <2>2. /\ cache' \in Seq(Entries) /\ Len(cache') <= Cap
          /\ \A j \in DOMAIN cache' : StaysTrue(cache'[j])
      BY <1>1, <1>4, <2>1, CacheKept
    <2>3. /\ req' \in [Requests -> Checks]
          /\ \A q \in Requests : WaitTrue(q)'
          /\ \A d \in DOMAIN inflight' : FetchTrue(d)' /\ inflight'[d] \in Fetches
          /\ DOMAIN inflight' \subseteq Directories
      <3>1. CASE entry.keys # {} /\ Key(r) \notin entry.keys
        <4>1. Await(r)
          BY <1>4, <3>1 DEF Miss
        <4> QED
          BY <1>1, <4>1, AwaitKeeps
      <3>2. CASE ~(entry.keys # {} /\ Key(r) \notin entry.keys)
        <4> DEFINE now == Told(Outcome(r, entry.keys, genuine))
        <4>1. now \in Checks /\ now.at # "waiting"
          BY ToldTyped, OutcomeTyped
        <4>2. req' = [req EXCEPT ![r] = now] /\ UNCHANGED inflight
          BY <1>4, <3>2
        <4> HIDE DEF now
        <4> QED
          BY <1>1, <4>1, <4>2, NoLongerWaits
      <3> QED
        BY <3>1, <3>2
    <2> QED
      BY <1>2, <2>2, <2>3, Assemble
  <1> QED
    BY <1>3, <1>4 DEF ArriveSigned

LEMMA ServeKeysStep ==
  ASSUME KInv, NEW d \in Directories, ServeKeys(d) PROVE KInv'
  <1>0. UNCHANGED <<time, operator, failed, cache, req>>
    BY DEF ServeKeys
  <1>1. published[d] \subseteq Keys /\ d \in DOMAIN inflight /\ inflight[d] \in Fetches /\ FetchTrue(d)
    BY DEF KInv, BotTypeOK, ServeKeys
  <1>2. inflight' = [inflight EXCEPT ![d] = [inflight[d] EXCEPT !.served = TRUE, !.keys = published[d]]]
    BY DEF ServeKeys
  <1>3. DOMAIN inflight' = DOMAIN inflight
    BY <1>2
  <1>4. inflight'[d] = [inflight[d] EXCEPT !.served = TRUE, !.keys = published[d]]
    BY <1>1, <1>2
  <1>5. inflight'[d] \in Fetches /\ inflight'[d].sent = inflight[d].sent
        /\ inflight'[d].keys = published[d]
    BY <1>1, <1>4 DEF Fetches
  <1>6. ASSUME NEW x \in DOMAIN inflight' PROVE FetchTrue(x)' /\ inflight'[x] \in Fetches
    <2>1. CASE x = d
      BY <2>1, <1>0, <1>1, <1>5 DEF FetchTrue, operator
    <2>2. CASE x # d
      <3>1. inflight'[x] = inflight[x] /\ x \in DOMAIN inflight
        BY <1>2, <1>3, <2>2
      <3>2. FetchTrue(x) /\ inflight[x] \in Fetches
        BY <3>1 DEF KInv, BotTypeOK
      <3> QED
        BY <1>0, <3>1, <3>2 DEF FetchTrue, operator
    <2> QED
      BY <2>1, <2>2
  <1>7. /\ req' \in [Requests -> Checks]
        /\ \A q \in Requests : WaitTrue(q)'
        /\ DOMAIN inflight' \subseteq Directories
    BY <1>0, <1>3 DEF KInv, BotTypeOK, WaitTrue
  <1>8. /\ cache' \in Seq(Entries) /\ Len(cache') <= Cap
        /\ \A j \in DOMAIN cache' : StaysTrue(cache'[j])
    BY <1>0 DEF KInv, BotTypeOK, EntryTrue, StaysTrue, TrueThen, operator
  <1>9. /\ time' \in Nat /\ published' \in [Directories -> SUBSET Keys]
        /\ changed' \in [Directories -> [Keys -> Nat]] /\ failed' \in [Directories -> Nat]
    BY <1>0 DEF KInv, BotTypeOK, operator
  <1> QED
    BY <1>6, <1>7, <1>8, <1>9, Assemble

(* A fetch that ends with the keys it was served, or with none.             *)
LEMMA FinishStep ==
  ASSUME KInv, NEW d \in Directories, d \in DOMAIN inflight, NEW keys \in SUBSET Keys,
         keys # {} => inflight[d].served /\ keys = inflight[d].keys, Finish(d, keys)
  PROVE  KInv'
  <1>0. /\ UNCHANGED <<time, operator>>
        /\ time \in Nat /\ FetchTime \in Nat
        /\ published \in [Directories -> SUBSET Keys]
        /\ changed \in [Directories -> [Keys -> Nat]] /\ failed \in [Directories -> Nat]
        /\ published' = published /\ changed' = changed /\ time' = time
    BY BotAssumption DEF Finish, KInv, BotTypeOK, operator
  <1>1. failed' = IF keys = {} THEN [failed EXCEPT ![d] = time] ELSE failed
    BY DEF Finish
  <1>2. failed' \in [Directories -> Nat]
    BY <1>0, <1>1
  <1>3. DOMAIN inflight' = DOMAIN inflight \ {d}
        /\ \A x \in DOMAIN inflight' : inflight'[x] = inflight[x]
    BY DEF Finish, Restrict
  <1>4. ASSUME NEW x \in DOMAIN inflight' PROVE FetchTrue(x)' /\ inflight'[x] \in Fetches
    <2>1. inflight'[x] = inflight[x] /\ x \in DOMAIN inflight
      BY <1>3
    <2>2. FetchTrue(x) /\ inflight[x] \in Fetches
      BY <2>1 DEF KInv, BotTypeOK
    <2> QED
      BY <1>0, <2>1, <2>2 DEF FetchTrue
  <1>5. DOMAIN inflight' \subseteq Directories
    BY <1>3 DEF KInv, BotTypeOK
  <1>6. PICK genuine \in SUBSET Waiters(d) :
          req' = [r \in Requests |-> IF r \in Waiters(d)
                                     THEN Told(Outcome(r, keys, r \in genuine)) ELSE req[r]]
    BY DEF Finish
  <1>7. ASSUME NEW r \in Requests PROVE req'[r] \in Checks /\ WaitTrue(r)'
    <2>1. CASE r \in Waiters(d)
      <3>1. req'[r] = Told(Outcome(r, keys, r \in genuine))
        BY <1>6, <2>1
      <3>2. req'[r] \in Checks /\ req'[r].at = "told"
        BY <3>1, ToldTyped, OutcomeTyped
      <3> QED
        BY <3>2 DEF WaitTrue
    <2>2. CASE r \notin Waiters(d)
      <3>1. req'[r] = req[r]
        BY <1>6, <2>2
      <3>2. req[r] \in Checks /\ WaitTrue(r)
        BY DEF KInv, BotTypeOK
      <3>3. req[r].at = "waiting" => Dir(r) # d
        BY <2>2 DEF Waiters
      <3> QED
        BY <3>1, <3>2, <3>3, <1>0, <1>3 DEF WaitTrue
    <2> QED
      BY <2>1, <2>2
  <1>8. req' \in [Requests -> Checks]
    BY <1>6, <1>7
  <1> DEFINE e == [dir |-> d, keys |-> keys, at |-> time]
  <1>9. StaysTrue(e)
    <2>0. e.dir = d /\ e.keys = keys /\ e.at = time
      OBVIOUS
    <2>1. keys = {} => failed'[d] = time
      BY <1>0, <1>1
    <2>2. ASSUME NEW k \in keys PROVE k \in published[d] \/ changed[d][k] + FetchTime >= time
      <3>1. inflight[d].served /\ keys = inflight[d].keys /\ FetchTrue(d) /\ inflight[d] \in Fetches
        BY <2>2 DEF KInv, BotTypeOK
      <3>2. \/ k \in published[d]
            \/ changed[d][k] >= inflight[d].sent
        BY <3>1 DEF FetchTrue
      <3>3. time <= inflight[d].sent + FetchTime /\ inflight[d].sent \in Nat
        BY <3>1 DEF FetchTrue, Fetches
      <3>4. k \in Keys /\ changed[d][k] \in Nat
        BY <1>0
      <3> QED
        BY <3>2, <3>3, <3>4, <1>0
    <2> HIDE DEF e
    <2> QED
      BY <1>0, <2>0, <2>1, <2>2 DEF EntryTrue, StaysTrue, TrueThen
  <1>10. ASSUME NEW x \in Entries, EntryTrue(x) PROVE StaysTrue(x)
    <2>1. x.keys = {} => failed'[x.dir] >= x.at
      <3>1. x.keys = {} => failed[x.dir] >= x.at
        BY <1>10 DEF EntryTrue, StaysTrue, TrueThen
      <3>2. x.at <= time /\ x.at \in Nat /\ x.dir \in Directories
        BY <1>10 DEF EntryTrue, StaysTrue, TrueThen, Entries
      <3>3. failed'[x.dir] = failed[x.dir] \/ failed'[x.dir] = time
        BY <1>0, <1>1, <3>2
      <3> QED
        BY <3>1, <3>2, <3>3, <1>0
    <2> QED
      BY <1>0, <1>10, <2>1 DEF EntryTrue, StaysTrue, TrueThen
  <1>11. /\ cache' \in Seq(Entries) /\ Len(cache') <= Cap
         /\ \A j \in DOMAIN cache' : cache'[j] = e \/ \E k \in DOMAIN cache : cache'[j] = cache[k]
    BY PutKeeps DEF Finish
  <1> HIDE DEF e
  <1>12. \A k \in DOMAIN cache : cache[k] \in Entries /\ EntryTrue(cache[k])
    BY DEF KInv, BotTypeOK
  <1>13. \A j \in DOMAIN cache' : StaysTrue(cache'[j])
    <2> SUFFICES ASSUME NEW j \in DOMAIN cache' PROVE StaysTrue(cache'[j])
      OBVIOUS
    <2>1. CASE cache'[j] = e
      BY <2>1, <1>9
    <2>2. CASE \E k \in DOMAIN cache : cache'[j] = cache[k]
      <3>1. PICK k \in DOMAIN cache : cache'[j] = cache[k]
        BY <2>2
      <3> DEFINE x == cache[k]
      <3>2. x \in Entries /\ EntryTrue(x) /\ cache'[j] = x
        BY <3>1, <1>12
      <3>3. \A y \in Entries : EntryTrue(y) =>
              StaysTrue(y)
        BY <1>10
      <3> HIDE DEF x
      <3> QED
        BY <3>2, <3>3
    <2> QED
      BY <1>11, <2>1, <2>2
  <1> QED
    BY <1>0, <1>2, <1>4, <1>5, <1>7, <1>8, <1>11, <1>13, Assemble

LEMMA RotateStep == ASSUME KInv, Rotate PROVE KInv'
  <1>0. /\ UNCHANGED <<time, failed, cache, inflight, req>>
        /\ time \in Nat /\ FetchTime \in Nat
        /\ published \in [Directories -> SUBSET Keys]
        /\ changed \in [Directories -> [Keys -> Nat]]
    BY BotAssumption DEF Rotate, KInv, BotTypeOK
  <1>1. PICK d \in Directories, k \in Keys :
          /\ published' = [published EXCEPT ![d] = IF k \in @ THEN @ \ {k} ELSE @ \cup {k}]
          /\ changed' = [changed EXCEPT ![d][k] = time]
    BY DEF Rotate
  <1>2. published' \in [Directories -> SUBSET Keys] /\ changed' \in [Directories -> [Keys -> Nat]]
    BY <1>0, <1>1
  <1>3. \A x \in Directories, h \in Keys :
          \/ changed'[x][h] = time
          \/ (h \in published'[x] <=> h \in published[x]) /\ changed'[x][h] = changed[x][h]
    <2> SUFFICES ASSUME NEW x \in Directories, NEW h \in Keys
                 PROVE  \/ changed'[x][h] = time
                        \/ (h \in published'[x] <=> h \in published[x]) /\ changed'[x][h] = changed[x][h]
      OBVIOUS
    <2>1. CASE x # d
      BY <2>1, <1>0, <1>1
    <2>2. CASE x = d /\ h = k
      BY <2>2, <1>0, <1>1
    <2>3. CASE x = d /\ h # k
      BY <2>3, <1>0, <1>1
    <2> QED
      BY <2>1, <2>2, <2>3
  <1>4. ASSUME NEW x \in DOMAIN inflight' PROVE FetchTrue(x)' /\ inflight'[x] \in Fetches
    <2>1. x \in DOMAIN inflight /\ x \in Directories /\ inflight'[x] = inflight[x]
      BY <1>0 DEF KInv, BotTypeOK
    <2>2. FetchTrue(x) /\ inflight[x] \in Fetches
      BY <2>1 DEF KInv, BotTypeOK
    <2>3. inflight[x].sent \in Nat /\ inflight[x].sent <= time
      BY <2>2 DEF Fetches, FetchTrue
    <2>4. inflight[x].served => \A h \in Keys : \/ h \in inflight[x].keys <=> h \in published'[x]
                                                \/ changed'[x][h] >= inflight[x].sent
      BY <2>1, <2>2, <2>3, <1>3 DEF FetchTrue
    <2> QED
      BY <1>0, <2>1, <2>2, <2>4 DEF FetchTrue
  <1>5. ASSUME NEW i \in DOMAIN cache' PROVE StaysTrue(cache'[i])
    <2> DEFINE e == cache[i]
    <2>1. e \in Entries /\ EntryTrue(e) /\ cache'[i] = e
      BY <1>0 DEF KInv, BotTypeOK
    <2> HIDE DEF e
    <2>2. e.at \in Nat /\ e.at <= time /\ e.dir \in Directories /\ e.keys \subseteq Keys
      BY <2>1 DEF Entries, EntryTrue, StaysTrue, TrueThen
    <2>3. ASSUME NEW h \in e.keys
          PROVE  h \in published'[e.dir] \/ changed'[e.dir][h] + FetchTime >= e.at
      <3>1. h \in published[e.dir] \/ changed[e.dir][h] + FetchTime >= e.at
        BY <2>1 DEF EntryTrue, StaysTrue, TrueThen
      <3>2. \/ changed'[e.dir][h] = time
            \/ /\ h \in published'[e.dir] <=> h \in published[e.dir]
               /\ changed'[e.dir][h] = changed[e.dir][h]
        BY <1>3, <2>2
      <3> QED
        BY <3>1, <3>2, <2>2, <1>0
    <2>4. e.keys = {} => failed'[e.dir] >= e.at
      BY <1>0, <2>1 DEF EntryTrue, StaysTrue, TrueThen
    <2> QED
      BY <1>0, <2>1, <2>2, <2>3, <2>4 DEF EntryTrue, StaysTrue, TrueThen
  <1>6. /\ req' \in [Requests -> Checks]
        /\ \A q \in Requests : WaitTrue(q)'
        /\ DOMAIN inflight' \subseteq Directories
    BY <1>0 DEF KInv, BotTypeOK, WaitTrue
  <1>7. /\ cache' \in Seq(Entries) /\ Len(cache') <= Cap
        /\ time' \in Nat /\ failed' \in [Directories -> Nat]
    BY <1>0 DEF KInv, BotTypeOK
  <1> QED
    BY <1>2, <1>4, <1>5, <1>6, <1>7, Assemble

LEMMA TickStep == ASSUME KInv, Tick PROVE KInv'
  <1>0. /\ UNCHANGED <<operator, failed, cache, inflight, req>>
        /\ published' = published /\ changed' = changed
        /\ time \in Nat /\ FetchTime \in Nat /\ time' = time + 1
    BY BotAssumption DEF Tick, KInv, BotTypeOK, operator
  <1>1. time' \in Nat
    BY <1>0
  <1>2. ASSUME NEW x \in DOMAIN inflight' PROVE FetchTrue(x)' /\ inflight'[x] \in Fetches
    <2>1. x \in DOMAIN inflight /\ inflight'[x] = inflight[x]
      BY <1>0
    <2>2. FetchTrue(x) /\ inflight[x] \in Fetches /\ time < inflight[x].sent + FetchTime
      BY <2>1 DEF KInv, BotTypeOK, Tick
    <2>3. inflight[x].sent \in Nat
      BY <2>2 DEF Fetches
    <2>4. inflight[x].sent <= time' /\ time' <= inflight[x].sent + FetchTime
      BY <1>0, <2>2, <2>3 DEF FetchTrue
    <2> QED
      BY <1>0, <2>1, <2>2, <2>4 DEF FetchTrue
  <1>3. ASSUME NEW i \in DOMAIN cache' PROVE StaysTrue(cache'[i])
    <2> DEFINE e == cache[i]
    <2>1. e \in Entries /\ EntryTrue(e) /\ cache'[i] = e
      BY <1>0 DEF KInv, BotTypeOK
    <2> HIDE DEF e
    <2>2. e.at <= time'
      BY <1>0, <2>1 DEF Entries, EntryTrue, StaysTrue, TrueThen
    <2> QED
      BY <1>0, <2>1, <2>2 DEF EntryTrue, StaysTrue, TrueThen
  <1>4. ASSUME NEW r \in Requests PROVE WaitTrue(r)'
    <2>1. WaitTrue(r) /\ req[r] \in Checks /\ req' = req /\ inflight' = inflight
      BY <1>0 DEF KInv, BotTypeOK
    <2>2. req[r].arrived \in Nat
      BY <2>1 DEF Checks
    <2> QED
      BY <1>0, <2>1, <2>2 DEF WaitTrue
  <1>5. /\ req' \in [Requests -> Checks] /\ DOMAIN inflight' \subseteq Directories
        /\ cache' \in Seq(Entries) /\ Len(cache') <= Cap /\ failed' \in [Directories -> Nat]
        /\ published' \in [Directories -> SUBSET Keys]
        /\ changed' \in [Directories -> [Keys -> Nat]]
    BY <1>0 DEF KInv, BotTypeOK
  <1> QED
    BY <1>1, <1>2, <1>3, <1>4, <1>5, Assemble

LEMMA StutterKInv == ASSUME KInv, UNCHANGED botVars PROVE KInv'
  <1>1. UNCHANGED <<time, published, changed, failed, cache, inflight, req>>
    BY DEF botVars, operator
  <1>2. /\ \A i \in DOMAIN cache' : StaysTrue(cache'[i])
        /\ \A d \in DOMAIN inflight' : FetchTrue(d)'
        /\ \A r \in Requests : WaitTrue(r)'
    BY <1>1 DEF KInv, EntryTrue, StaysTrue, TrueThen, FetchTrue, WaitTrue
  <1> QED
    BY <1>1, <1>2 DEF KInv, BotTypeOK, EntryTrue, StaysTrue

LEMMA NextKInv == KInv /\ [BotNext]_botVars => KInv'
  <1> SUFFICES ASSUME KInv, [BotNext]_botVars PROVE KInv'
    OBVIOUS
  <1>1. ASSUME NEW r \in Requests, ArrivePlain(r) \/ ArriveSigned(r) \/ Leave(r) PROVE KInv'
    BY <1>1, ToldStep, ArriveSignedStep
  <1>2. ASSUME NEW d \in Directories, ServeKeys(d) \/ Land(d) \/ Fail(d) PROVE KInv'
    <2>1. CASE ServeKeys(d)
      BY <2>1, ServeKeysStep
    <2>2. CASE Land(d)
      <3>1. d \in DOMAIN inflight /\ inflight[d].served /\ Finish(d, inflight[d].keys)
        BY <2>2 DEF Land
      <3>2. inflight[d].keys \in SUBSET Keys
        BY <3>1 DEF KInv, BotTypeOK, Fetches
      <3> QED
        BY <3>1, <3>2, FinishStep
    <2>3. CASE Fail(d)
      <3>1. d \in DOMAIN inflight /\ Finish(d, {})
        BY <2>3 DEF Fail
      <3> QED
        BY <3>1, FinishStep
    <2> QED
      BY <1>2, <2>1, <2>2, <2>3
  <1> QED
    BY <1>1, <1>2, RotateStep, TickStep, StutterKInv DEF BotNext

LEMMA KInductive == BotSpec => []KInv
  BY InitKInv, NextKInv, PTL DEF BotSpec

-----------------------------------------------------------------------------

(* The types of the cache, of its fetches and of the requests that wait.    *)
THEOREM SignaturesTyped == BotSpec => []BotTypeOK
  <1>1. KInv => BotTypeOK
    BY DEF KInv
  <1> QED
    BY <1>1, KInductive, PTL

Bounded == Len(cache) <= Cap /\ \A r \in Requests : req[r].at = "waiting" => Dir(r) \in DOMAIN inflight

(* The cache stays within its capacity (DirectoryCache.set), and whoever    *)
(* waits has a fetch that runs.                                             *)
THEOREM CacheBounded == BotSpec => []Bounded
  <1>1. KInv => Bounded
    BY DEF KInv, WaitTrue, Bounded
  <1> QED
    BY <1>1, KInductive, PTL

(* What decides a request: nothing about its directory, a cached entry, or  *)
(* the end of the fetch it waits for.                                       *)
FromEntry(r, v) ==
  \E entry \in Hits(Dir(r)), genuine \in BOOLEAN :
    /\ entry.keys = {} \/ Key(r) \in entry.keys
    /\ v = Outcome(r, entry.keys, genuine)
    /\ failed' = failed /\ req[r].at = "idle"

FromFetch(r, v) ==
  \E keys \in SUBSET Keys, genuine \in BOOLEAN :
    /\ Dir(r) \in DOMAIN inflight /\ req[r].at = "waiting"
    /\ keys # {} => inflight[Dir(r)].served /\ keys = inflight[Dir(r)].keys
    /\ v = Outcome(r, keys, genuine)
    /\ keys = {} => failed'[Dir(r)] = time

LEMMA ToldBySigned ==
  ASSUME KInv, NEW r \in Requests, NEW q \in Requests, NEW v, ArriveSigned(q), Tells(r, v)
  PROVE  FromEntry(r, v)
  <1>0. req \in [Requests -> Checks] /\ failed' = failed /\ req[q].at = "idle"
    BY DEF KInv, BotTypeOK, ArriveSigned
  <1>1. req'[r].at = "told" /\ req[r].at # "told" /\ req'[r].outcome = v
    BY DEF Tells
  <1>2. ~Await(q)
    <2> SUFFICES ASSUME Await(q) PROVE FALSE
      OBVIOUS
    <2>1. req' = [req EXCEPT ![q] = [req[q] EXCEPT !.at = "waiting", !.arrived = time]]
      BY DEF Await
    <2>2. req[q] \in Checks
      BY <1>0
    <2>3. req'[q].at = "waiting"
      BY <1>0, <2>1, <2>2 DEF Checks
    <2>4. r # q => req'[r] = req[r]
      BY <1>0, <2>1
    <2> QED
      BY <1>1, <2>3, <2>4
  <1>3. PICK entry \in Hits(Dir(q)), genuine \in BOOLEAN :
          IF entry.keys # {} /\ Key(q) \notin entry.keys THEN Miss(q)
          ELSE req' = [req EXCEPT ![q] = Told(Outcome(q, entry.keys, genuine))] /\ UNCHANGED inflight
    BY <1>2 DEF ArriveSigned
  <1>4. /\ entry.keys = {} \/ Key(q) \in entry.keys
        /\ req' = [req EXCEPT ![q] = Told(Outcome(q, entry.keys, genuine))]
    BY <1>2, <1>3 DEF Miss
  <1>5. r = q
    <2> SUFFICES ASSUME r # q PROVE FALSE
      OBVIOUS
    <2>1. req'[r] = req[r]
      BY <1>0, <1>4
    <2> QED
      BY <1>1, <2>1
  <1>6. v = Outcome(q, entry.keys, genuine)
    <2>1. req'[q] = Told(Outcome(q, entry.keys, genuine))
      BY <1>0, <1>4
    <2> QED
      BY <1>1, <1>5, <2>1, ToldTyped, OutcomeTyped
  <1> QED
    BY <1>0, <1>4, <1>5, <1>6 DEF FromEntry

LEMMA ToldByFinish ==
  ASSUME KInv, NEW r \in Requests, NEW d \in Directories, NEW v, NEW keys \in SUBSET Keys,
         d \in DOMAIN inflight, keys # {} => inflight[d].served /\ keys = inflight[d].keys,
         Finish(d, keys), Tells(r, v)
  PROVE  FromFetch(r, v)
  <1>1. req'[r].at = "told" /\ req[r].at # "told" /\ req'[r].outcome = v
    BY DEF Tells
  <1>2. PICK genuine \in SUBSET Waiters(d) :
          req' = [x \in Requests |-> IF x \in Waiters(d)
                                     THEN Told(Outcome(x, keys, x \in genuine)) ELSE req[x]]
    BY DEF Finish
  <1>3. r \in Waiters(d)
    BY <1>1, <1>2
  <1>4. Dir(r) = d /\ req[r].at = "waiting"
    BY <1>3 DEF Waiters
  <1>5. req'[r] = Told(Outcome(r, keys, r \in genuine))
    BY <1>2, <1>3
  <1>6. v = Outcome(r, keys, r \in genuine)
    BY <1>1, <1>5, ToldTyped, OutcomeTyped
  <1>7. keys = {} => failed'[d] = time
    BY DEF Finish, KInv, BotTypeOK
  <1>8. (r \in genuine) \in BOOLEAN
    OBVIOUS
  <1> QED
    BY <1>4, <1>6, <1>7, <1>8 DEF FromFetch

LEMMA WhoTells ==
  ASSUME KInv, BotNext, NEW r \in Requests,
         NEW v \in {"verified", "unknown", "unverified"}, Tells(r, v)
  PROVE  FromEntry(r, v) \/ FromFetch(r, v)
  <1>0. req \in [Requests -> Checks]
    BY DEF KInv, BotTypeOK
  <1>1. req'[r].at = "told" /\ req[r].at # "told" /\ req'[r].outcome = v
    BY DEF Tells
  <1>2. ASSUME NEW q \in Requests, ArrivePlain(q) PROVE FALSE
    <2>1. PICK w \in {"absent", "invalid"} : req' = [req EXCEPT ![q] = Told(w)]
      BY <1>2 DEF ArrivePlain
    <2>2. req'[q] = Told(w) /\ w \in Verdicts
      BY <1>0, <2>1 DEF Verdicts
    <2>3. req'[q].outcome = w
      BY <2>2, ToldTyped
    <2>4. q # r => req'[r] = req[r]
      BY <1>0, <2>1
    <2> QED
      BY <1>1, <2>3, <2>4
  <1>3. ASSUME NEW q \in Requests, Leave(q) PROVE FALSE
    <2>1. req'[q].at = "idle" /\ (q # r => req'[r] = req[r])
      BY <1>0, <1>3 DEF Leave, NoRequest
    <2> QED
      BY <1>1, <2>1
  <1>4. ASSUME NEW d \in Directories, Land(d) PROVE FromFetch(r, v)
    <2>1. d \in DOMAIN inflight /\ inflight[d].served /\ Finish(d, inflight[d].keys)
      BY <1>4 DEF Land
    <2>2. inflight[d].keys \in SUBSET Keys
      BY <2>1 DEF KInv, BotTypeOK, Fetches
    <2> QED
      BY <2>1, <2>2, ToldByFinish
  <1>5. ASSUME NEW d \in Directories, Fail(d) PROVE FromFetch(r, v)
    <2>1. d \in DOMAIN inflight /\ Finish(d, {})
      BY <1>5 DEF Fail
    <2> QED
      BY <2>1, ToldByFinish
  <1>6. ASSUME UNCHANGED req PROVE FALSE
    BY <1>1, <1>6
  <1>7. ASSUME NEW d \in Directories, ServeKeys(d) PROVE FALSE
    BY <1>6, <1>7 DEF ServeKeys
  <1>8. ASSUME Rotate \/ Tick PROVE FALSE
    BY <1>6, <1>8 DEF Rotate, Tick
  <1> QED
    BY <1>2, <1>3, <1>4, <1>5, <1>7, <1>8, ToldBySigned DEF BotNext

(* A fresh entry is what its directory held not long ago.                   *)
LEMMA HitTrue ==
  ASSUME KInv, NEW r \in Requests, NEW entry \in Hits(Dir(r))
  PROVE  /\ Key(r) \in entry.keys =>
              \/ Key(r) \in published[Dir(r)]
              \/ time - changed[Dir(r)][Key(r)] <= PosTtl + FetchTime
         /\ entry.keys = {} => time - failed[Dir(r)] <= NegTtl
  <1>0. /\ Dir(r) \in Directories /\ Key(r) \in Keys
        /\ PosTtl \in Nat /\ NegTtl \in Nat /\ FetchTime \in Nat
    BY Signed, BotAssumption
  <1>1. time \in Nat /\ changed[Dir(r)][Key(r)] \in Nat /\ failed[Dir(r)] \in Nat
    BY <1>0 DEF KInv, BotTypeOK
  <1>2. entry \in Entries /\ EntryTrue(entry) /\ entry.dir = Dir(r) /\ Fresh(entry)
    BY <1>0, UsedKeeps
  <1>3. entry.at \in Nat
    BY <1>2 DEF Entries
  <1>4. ASSUME Key(r) \in entry.keys
        PROVE  \/ Key(r) \in published[Dir(r)]
               \/ time - changed[Dir(r)][Key(r)] <= PosTtl + FetchTime
    <2>1. \/ Key(r) \in published[Dir(r)]
          \/ changed[Dir(r)][Key(r)] + FetchTime >= entry.at
      BY <1>2, <1>4 DEF EntryTrue, TrueThen
    <2>2. time - entry.at <= PosTtl
      BY <1>2, <1>4 DEF Fresh
    <2> QED
      BY <1>0, <1>1, <1>3, <2>1, <2>2
  <1>5. ASSUME entry.keys = {} PROVE time - failed[Dir(r)] <= NegTtl
    <2>1. failed[Dir(r)] >= entry.at
      BY <1>2, <1>5 DEF EntryTrue, TrueThen
    <2>2. time - entry.at <= NegTtl
      BY <1>2, <1>5 DEF Fresh
    <2> QED
      BY <1>0, <1>1, <1>3, <2>1, <2>2
  <1> QED
    BY <1>4, <1>5

LEMMA OutcomeMeans ==
  ASSUME NEW r, NEW keys, NEW genuine \in BOOLEAN
  PROVE  /\ Outcome(r, keys, genuine) = "verified" => Key(r) \in keys
         /\ Outcome(r, keys, genuine) = "unknown" => keys # {} /\ Key(r) \notin keys
         /\ Outcome(r, keys, genuine) = "unverified" => keys = {}
  BY DEF Outcome

(* So is what a fetch was served.                                           *)
LEMMA ServedTrue ==
  ASSUME KInv, NEW r \in Requests, Dir(r) \in DOMAIN inflight, inflight[Dir(r)].served
  PROVE  /\ \/ Key(r) \in inflight[Dir(r)].keys <=> Key(r) \in published[Dir(r)]
            \/ changed[Dir(r)][Key(r)] + FetchTime >= time
         /\ changed[Dir(r)][Key(r)] \in Nat /\ FetchTime \in Nat /\ time \in Nat
  <1>0. Dir(r) \in Directories /\ Key(r) \in Keys /\ FetchTime \in Nat
    BY Signed, BotAssumption
  <1>1. time \in Nat /\ changed[Dir(r)][Key(r)] \in Nat
    BY <1>0 DEF KInv, BotTypeOK
  <1>2. FetchTrue(Dir(r)) /\ inflight[Dir(r)] \in Fetches
    BY DEF KInv, BotTypeOK
  <1>3. inflight[Dir(r)].sent \in Nat /\ time <= inflight[Dir(r)].sent + FetchTime
    BY <1>2 DEF Fetches, FetchTrue
  <1>4. \/ Key(r) \in inflight[Dir(r)].keys <=> Key(r) \in published[Dir(r)]
        \/ changed[Dir(r)][Key(r)] >= inflight[Dir(r)].sent
    BY <1>0, <1>2 DEF FetchTrue
  <1> QED
    BY <1>0, <1>1, <1>3, <1>4

-----------------------------------------------------------------------------

(* A key its operator removed is trusted no longer than the cache and one   *)
(* fetch last, however often the entry is used and whoever shares a fetch.  *)
THEOREM RemovedKeysLapse == BotSpec => RemovedKeyForgotten
  <1>1. ASSUME KInv, BotNext, NEW r \in Requests, Tells(r, "verified")
        PROVE  \/ Key(r) \in published[Dir(r)]
               \/ time - changed[Dir(r)][Key(r)] <= PosTtl + FetchTime
    <2>1. CASE FromEntry(r, "verified")
      <3>1. PICK entry \in Hits(Dir(r)), genuine \in BOOLEAN : "verified" = Outcome(r, entry.keys, genuine)
        BY <2>1 DEF FromEntry
      <3>2. Key(r) \in entry.keys
        BY <3>1, OutcomeMeans
      <3> QED
        BY <1>1, <3>2, HitTrue
    <2>2. CASE FromFetch(r, "verified")
      <3>1. PICK keys \in SUBSET Keys, genuine \in BOOLEAN :
              /\ Dir(r) \in DOMAIN inflight
              /\ keys # {} => inflight[Dir(r)].served /\ keys = inflight[Dir(r)].keys
              /\ "verified" = Outcome(r, keys, genuine)
        BY <2>2 DEF FromFetch
      <3>2. Key(r) \in keys
        BY <3>1, OutcomeMeans
      <3>3. inflight[Dir(r)].served /\ Key(r) \in inflight[Dir(r)].keys
        BY <3>1, <3>2
      <3>4. /\ \/ Key(r) \in published[Dir(r)]
               \/ changed[Dir(r)][Key(r)] + FetchTime >= time
            /\ changed[Dir(r)][Key(r)] \in Nat /\ FetchTime \in Nat /\ time \in Nat
        BY <1>1, <3>1, <3>3, ServedTrue
      <3>5. PosTtl \in Nat
        BY BotAssumption
      <3> QED
        BY <3>4, <3>5
    <2> QED
      BY <1>1, <2>1, <2>2, WhoTells
  <1>2. KInv /\ [BotNext]_botVars =>
          [\A r \in Requests : Tells(r, "verified") =>
             \/ Key(r) \in published[Dir(r)]
             \/ time - changed[Dir(r)][Key(r)] <= PosTtl + FetchTime]_botVars
    BY <1>1
  <1> QED
    BY <1>2, KInductive, PTL DEF BotSpec, RemovedKeyForgotten

(* A key that was published before any fetch now running was sent is never  *)
(* called unknown: a cached directory without it is asked again, and what a *)
(* fetch is served is at most one fetch old.                                *)
THEOREM PublishedKeysKnown == BotSpec => KnownKeyIsKnown
  <1>1. ASSUME KInv, BotNext, NEW r \in Requests, Tells(r, "unknown")
        PROVE  \/ Key(r) \notin published[Dir(r)]
               \/ changed[Dir(r)][Key(r)] + FetchTime >= Arrived(r)
    <2>1. CASE FromEntry(r, "unknown")
      <3>1. PICK entry \in Hits(Dir(r)), genuine \in BOOLEAN :
              /\ entry.keys = {} \/ Key(r) \in entry.keys
              /\ "unknown" = Outcome(r, entry.keys, genuine)
        BY <2>1 DEF FromEntry
      <3> QED
        BY <3>1, OutcomeMeans
    <2>2. CASE FromFetch(r, "unknown")
      <3>1. PICK keys \in SUBSET Keys, genuine \in BOOLEAN :
              /\ Dir(r) \in DOMAIN inflight /\ req[r].at = "waiting"
              /\ keys # {} => inflight[Dir(r)].served /\ keys = inflight[Dir(r)].keys
              /\ "unknown" = Outcome(r, keys, genuine)
        BY <2>2 DEF FromFetch
      <3>2. keys # {} /\ Key(r) \notin keys
        BY <3>1, OutcomeMeans
      <3>3. inflight[Dir(r)].served /\ Key(r) \notin inflight[Dir(r)].keys
        BY <3>1, <3>2
      <3>4. /\ \/ Key(r) \notin published[Dir(r)]
               \/ changed[Dir(r)][Key(r)] + FetchTime >= time
            /\ changed[Dir(r)][Key(r)] \in Nat /\ FetchTime \in Nat /\ time \in Nat
        BY <1>1, <3>1, <3>3, ServedTrue
      <3>5. Arrived(r) <= time /\ Arrived(r) \in Nat
        <4>1. WaitTrue(r) /\ req[r] \in Checks
          BY <1>1 DEF KInv, BotTypeOK
        <4> QED
          BY <3>1, <4>1 DEF Arrived, WaitTrue, Checks
      <3> QED
        BY <3>4, <3>5
    <2> QED
      BY <1>1, <2>1, <2>2, WhoTells
  <1>2. KInv /\ [BotNext]_botVars =>
          [\A r \in Requests : Tells(r, "unknown") =>
             \/ Key(r) \notin published[Dir(r)]
             \/ changed[Dir(r)][Key(r)] + FetchTime >= Arrived(r)]_botVars
    BY <1>1
  <1> QED
    BY <1>2, KInductive, PTL DEF BotSpec, KnownKeyIsKnown

(* A signer is taken for unsigned only shortly after its directory failed:  *)
(* using a failure's entry does not renew it.                               *)
THEOREM OutagesLapse == BotSpec => OutageIsForgotten
  <1>1. ASSUME KInv, BotNext, NEW r \in Requests, Tells(r, "unverified")
        PROVE  time - failed'[Dir(r)] <= NegTtl
    <2>1. CASE FromEntry(r, "unverified")
      <3>1. PICK entry \in Hits(Dir(r)), genuine \in BOOLEAN :
              failed' = failed /\ "unverified" = Outcome(r, entry.keys, genuine)
        BY <2>1 DEF FromEntry
      <3>2. entry.keys = {}
        BY <3>1, OutcomeMeans
      <3> QED
        BY <1>1, <3>1, <3>2, HitTrue
    <2>2. CASE FromFetch(r, "unverified")
      <3>1. PICK keys \in SUBSET Keys, genuine \in BOOLEAN :
              /\ keys = {} => failed'[Dir(r)] = time
              /\ "unverified" = Outcome(r, keys, genuine)
        BY <2>2 DEF FromFetch
      <3>2. failed'[Dir(r)] = time
        BY <3>1, OutcomeMeans
      <3>3. time \in Nat /\ NegTtl \in Nat
        BY <1>1, BotAssumption DEF KInv, BotTypeOK
      <3> QED
        BY <3>2, <3>3
    <2> QED
      BY <1>1, <2>1, <2>2, WhoTells
  <1>2. KInv /\ [BotNext]_botVars =>
          [\A r \in Requests : Tells(r, "unverified") => time - failed'[Dir(r)] <= NegTtl]_botVars
    BY <1>1
  <1> QED
    BY <1>2, KInductive, PTL DEF BotSpec, OutageIsForgotten
=============================================================================
