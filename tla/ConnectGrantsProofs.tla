------------------------ MODULE ConnectGrantsProofs ------------------------
(***************************************************************************)
(* For any codes, requests, times and bounds: a revoked credential stays   *)
(* revoked; and, provided one sweep runs at a time and a marker outlives   *)
(* two requests in a row, a code buys one credential at most and a proven  *)
(* replay takes back what the code bought before it.                       *)
(***************************************************************************)
EXTENDS ConnectGrants, TLAPS

Keys == Codes \cup Requests

Markers == [by : Requests, now : Nat]

(* Stages of a request before it has minted anything, after it was asked   *)
(* to take a credential back, and all.                                     *)
Early == {"idle", "looking", "missing", "claiming", "won", "issuing"}
Taking == {"revoking", "removing", "forgetting"}
ReqStages == Early \cup Taking \cup {"recording", "replaying"} \cup Finished

SweepStages == {"idle", "begun", "codes", "used", "issued", "seen"}

ReqType == [at : ReqStages, code : Codes \cup {None}, proven : BOOLEAN, now : Nat,
            target : Requests \cup {None}]

SweepType == [at : SweepStages, now : Nat, todo : SUBSET Keys, doomed : SUBSET Keys,
              last : Nat \cup {None}]

Typed ==
  /\ time \in Nat
  /\ savedAt \in [Codes -> Nat \cup {None}]
  /\ rows \subseteq Codes
  /\ used \in [Codes -> Markers \cup {None}]
  /\ issued \in [Codes -> Requests \cup {None}]
  /\ creds \subseteq Requests /\ revoked \subseteq Requests
  /\ seen \subseteq Requests /\ seenPuts \subseteq Requests
  /\ req \in [Requests -> ReqType]
  /\ sweep \in [Consoles -> SweepType]

(* A request that has begun names a saved code; its clock is not ahead,    *)
(* and while it lives not far behind.                                      *)
RequestsDated ==
  \A r \in Requests :
    /\ req[r].now <= time
    /\ InFlight(r) => time <= req[r].now + Patience
    /\ req[r].at # "idle" => req[r].code \in Codes /\ savedAt[req[r].code] # None

(* A credential is that of a request past its minting, and whatever names  *)
(* one names one that was minted.                                          *)
MintedLate ==
  /\ \A r \in Issued : req[r].at \notin Early
  /\ \A r \in Requests : req[r].at \in {"recording", "answered"} => r \in Issued
  /\ \A c \in Codes : issued[c] \in Issued \cup {None}
  /\ \A r \in Requests : req[r].target \in Issued \cup {None}
  /\ \A r \in Requests : req[r].at \in Taking => req[r].target # None

RInv == Typed /\ RequestsDated /\ MintedLate /\ RevokedStaysRevoked

-----------------------------------------------------------------------------

LEMMA InitRInv == Init => RInv
  <1> SUFFICES ASSUME Init PROVE RInv
    OBVIOUS
  <1>1. Idle \in ReqType
    BY DEF Idle, ReqType, ReqStages, Finished
  <1>2. NoSweep \in SweepType
    BY DEF NoSweep, SweepType, SweepStages
  <1>3. Typed
    BY <1>1, <1>2 DEF Init, Typed
  <1>4. \A r \in Requests : req[r].at = "idle" /\ req[r].now = 0 /\ req[r].target = None
    BY DEF Init, Idle
  <1>5. RequestsDated
    BY <1>4 DEF RequestsDated, InFlight, Finished, Init
  <1>6. MintedLate /\ RevokedStaysRevoked
    BY <1>4 DEF MintedLate, RevokedStaysRevoked, Init, Issued, Taking
  <1> QED
    BY <1>3, <1>5, <1>6 DEF RInv

(* A request that moves keeps all but its stage.                           *)
LEMMA GoMoves ==
  ASSUME Typed, NEW r \in Requests, NEW to \in ReqStages, Go(r, to)
  PROVE  /\ req' \in [Requests -> ReqType]
         /\ req'[r].at = to
         /\ \A q \in Requests : q # r => req'[q].at = req[q].at
         /\ \A q \in Requests : /\ req'[q].code = req[q].code
                                /\ req'[q].now = req[q].now
                                /\ req'[q].target = req[q].target
  <1>1. req[r] \in ReqType /\ req \in [Requests -> ReqType]
    BY DEF Typed
  <1> DEFINE q == [req[r] EXCEPT !.at = to]
  <1>2. q \in ReqType /\ q.at = to /\ q.code = req[r].code /\ q.now = req[r].now
        /\ q.target = req[r].target
    BY <1>1 DEF ReqType
  <1>3. req' = [req EXCEPT ![r] = q]
    BY <1>1 DEF Go
  <1> HIDE DEF q
  <1> QED
    BY <1>1, <1>2, <1>3

(* What a moving request must keep of the invariant.                       *)
LEMMA MoveKeeps ==
  ASSUME RInv, NEW r \in Requests, NEW to \in ReqStages, Go(r, to),
         InFlight(r), to # "idle", r \in Issued => to \notin Early,
         to \in {"recording", "answered"} => r \in Issued',
         to \in Taking => req[r].target # None,
         UNCHANGED <<time, savedAt, seenPuts, sweep, creds, revoked, issued>>,
         rows' \subseteq rows, seen' \subseteq seen,
         used' \in [Codes -> Markers \cup {None}]
  PROVE  RInv'
  <1> USE DEF RInv
  <1>1. /\ req' \in [Requests -> ReqType]
        /\ req'[r].at = to
        /\ \A q \in Requests : q # r => req'[q].at = req[q].at
        /\ \A q \in Requests : /\ req'[q].code = req[q].code
                               /\ req'[q].now = req[q].now
                               /\ req'[q].target = req[q].target
    BY GoMoves
  <1>2. Typed'
    BY <1>1 DEF Typed
  <1>3. Issued' = Issued
    BY DEF Issued
  <1>4. \A q \in Requests : InFlight(q)' => InFlight(q)
    BY <1>1 DEF InFlight
  <1>5. req[r].at # "idle"
    BY DEF InFlight, Finished
  <1>6. RequestsDated'
    BY <1>1, <1>4, <1>5 DEF RequestsDated
  <1>7. MintedLate'
    <2>1. \A q \in Issued' : req'[q].at \notin Early
      BY <1>1, <1>3 DEF MintedLate, Typed, Issued
    <2>2. \A q \in Requests : req'[q].at \in {"recording", "answered"} => q \in Issued'
      BY <1>1, <1>3 DEF MintedLate
    <2>3. \A q \in Requests : /\ req'[q].target \in Issued' \cup {None}
                              /\ req'[q].at \in Taking => req'[q].target # None
      BY <1>1, <1>3 DEF MintedLate
    <2> QED
      BY <1>3, <2>1, <2>2, <2>3 DEF MintedLate
  <1>8. RevokedStaysRevoked'
    BY DEF RevokedStaysRevoked
  <1> QED
    BY <1>2, <1>6, <1>7, <1>8

(* A step of no request keeps the invariant if it mints nothing.           *)
LEMMA OthersKeep ==
  ASSUME RInv, UNCHANGED <<req, creds, revoked>>, Typed', time' = time,
         \A c \in Codes : issued'[c] \in {issued[c], None},
         \A c \in Codes : savedAt[c] # None => savedAt'[c] # None
  PROVE  RInv'
  <1>1. Issued' = Issued
    BY DEF Issued
  <1>2. RequestsDated'
    BY DEF RInv, RequestsDated, InFlight
  <1>3. MintedLate'
    BY <1>1 DEF RInv, MintedLate
  <1> QED
    BY <1>2, <1>3 DEF RInv, RevokedStaysRevoked

-----------------------------------------------------------------------------
(* The token endpoint.                                                     *)

LEMMA BeginKeeps == ASSUME RInv, NEW r \in Requests, Begin(r) PROVE RInv'
  <1> USE DEF RInv
  <1>1. PICK c \in {c \in Codes : savedAt[c] # None}, proven \in BOOLEAN :
          req' = [req EXCEPT ![r] = [@ EXCEPT !.at = "looking", !.code = c,
                                              !.proven = proven, !.now = time]]
    BY DEF Begin
  <1> DEFINE q == [req[r] EXCEPT !.at = "looking", !.code = c, !.proven = proven, !.now = time]
  <1>2. /\ q \in ReqType /\ q.at = "looking" /\ q.code = c /\ q.now = time
        /\ q.target = req[r].target
    <2>1. req[r] \in ReqType /\ time \in Nat
      BY DEF Typed
    <2>2. "looking" \in ReqStages
      BY DEF ReqStages, Early
    <2> QED
      BY <2>1, <2>2 DEF ReqType
  <1>3. req' = [req EXCEPT ![r] = q]
    BY <1>1
  <1> HIDE DEF q
  <1>4. /\ req' \in [Requests -> ReqType]
        /\ req'[r] = q /\ \A p \in Requests : p # r => req'[p] = req[p]
    BY <1>2, <1>3 DEF Typed
  <1>5. /\ UNCHANGED <<time, savedAt, rows, used, issued, creds, seen, seenPuts, sweep, revoked>>
        /\ req[r].at = "idle"
    BY DEF Begin, grants
  <1>6. Typed'
    BY <1>4, <1>5 DEF Typed
  <1>7. RequestsDated'
    BY <1>2, <1>4, <1>5, GrantsAssumption DEF RequestsDated, InFlight, Typed
  <1>8. Issued' = Issued /\ r \notin Issued /\ Issued \subseteq Requests
    BY <1>5 DEF Issued, MintedLate, Early
  <1>9. MintedLate'
    BY <1>2, <1>4, <1>5, <1>8 DEF MintedLate, Taking
  <1>10. RevokedStaysRevoked'
    BY <1>5 DEF RevokedStaysRevoked
  <1> QED
    BY <1>6, <1>7, <1>9, <1>10

LEMMA MovesKeep ==
  ASSUME RInv, NEW r \in Requests,
         LookCode(r) \/ LookUsed(r) \/ Claim(r) \/ SpendCode(r) \/ LookCredential(r)
           \/ ForgetReplayed(r) \/ Die(r)
  PROVE  RInv'
  <1> USE DEF InFlight, Finished, ReqStages, Early, Taking, grants
  <1>1. r \in Issued => req[r].at \notin Early
    BY DEF RInv, MintedLate
  <1>2. used \in [Codes -> Markers \cup {None}]
    BY DEF RInv, Typed
  <1>3. CASE LookCode(r)
    <2>1. PICK to \in {"claiming", "missing"} : Go(r, to)
      BY <1>3 DEF LookCode
    <2> QED
      BY <1>1, <1>2, <1>3, <2>1, MoveKeeps DEF LookCode
  <1>4. CASE LookUsed(r)
    <2>1. PICK to \in {"replaying", "refused"} : Go(r, to)
      BY <1>4 DEF LookUsed
    <2> QED
      BY <1>1, <1>2, <1>4, <2>1, MoveKeeps DEF LookUsed
  <1>5. CASE Claim(r)
    <2>1. PICK to \in {"won", "replaying"} : Go(r, to)
      BY <1>5 DEF Claim
    <2>2. used' \in [Codes -> Markers \cup {None}]
      <3>1. req[r].now \in Nat
        BY DEF RInv, Typed, ReqType
      <3>2. Marker(r) \in Markers
        BY <3>1 DEF Marker, Markers
      <3> QED
        BY <1>2, <1>5, <3>2 DEF Claim
    <2> QED
      BY <1>1, <1>5, <2>1, <2>2, MoveKeeps DEF Claim
  <1>6. CASE SpendCode(r)
    <2>1. PICK to \in {"issuing", "refused"} : Go(r, to)
      BY <1>6 DEF SpendCode
    <2> QED
      BY <1>1, <1>2, <1>6, <2>1, MoveKeeps DEF SpendCode
  <1>7. CASE LookCredential(r)
    <2>1. PICK to \in {"removing", "replayed"} : Go(r, to)
      BY <1>7 DEF LookCredential
    <2>2. req[r].target # None
      BY <1>7 DEF LookCredential, RInv, MintedLate
    <2> QED
      BY <1>1, <1>2, <1>7, <2>1, <2>2, MoveKeeps DEF LookCredential
  <1>8. CASE ForgetReplayed(r)
    BY <1>1, <1>2, <1>8, MoveKeeps DEF ForgetReplayed
  <1>9. CASE Die(r)
    BY <1>1, <1>2, <1>9, MoveKeeps DEF Die
  <1> QED
    BY <1>3, <1>4, <1>5, <1>6, <1>7, <1>8, <1>9

(* The minted credential is new: it is neither held nor revoked.           *)
LEMMA IssueKeeps == ASSUME RInv, NEW r \in Requests, IssueCredential(r) PROVE RInv'
  <1> USE DEF RInv
  <1>1. Go(r, "recording") /\ "recording" \in ReqStages
    BY DEF IssueCredential, ReqStages
  <1>2. /\ req' \in [Requests -> ReqType]
        /\ req'[r].at = "recording"
        /\ \A q \in Requests : q # r => req'[q].at = req[q].at
        /\ \A q \in Requests : /\ req'[q].code = req[q].code
                               /\ req'[q].now = req[q].now
                               /\ req'[q].target = req[q].target
    BY <1>1, GoMoves
  <1>3. /\ UNCHANGED <<time, savedAt, rows, used, issued, seen, seenPuts, sweep, revoked>>
        /\ creds' = creds \cup {r} /\ req[r].at = "issuing"
    BY DEF IssueCredential
  <1>4. Typed'
    BY <1>2, <1>3 DEF Typed
  <1>5. \A q \in Requests : InFlight(q)' => InFlight(q)
    BY <1>2, <1>3 DEF InFlight, Finished
  <1>6. RequestsDated'
    BY <1>2, <1>3, <1>5 DEF RequestsDated
  <1>7. Issued' = Issued \cup {r} /\ r \notin Issued /\ Issued \subseteq Requests
    BY <1>3 DEF Issued, MintedLate, Early
  <1>8. MintedLate'
    BY <1>2, <1>3, <1>7 DEF MintedLate, Early, Taking
  <1>9. RevokedStaysRevoked'
    BY <1>3, <1>7 DEF RevokedStaysRevoked, Issued
  <1> QED
    BY <1>4, <1>6, <1>8, <1>9

LEMMA RecordKeeps == ASSUME RInv, NEW r \in Requests, RecordIssue(r) PROVE RInv'
  <1> USE DEF RInv
  <1>1. Go(r, "answered") /\ "answered" \in ReqStages
    BY DEF RecordIssue, ReqStages, Finished
  <1>2. /\ req' \in [Requests -> ReqType]
        /\ req'[r].at = "answered"
        /\ \A q \in Requests : q # r => req'[q].at = req[q].at
        /\ \A q \in Requests : /\ req'[q].code = req[q].code
                               /\ req'[q].now = req[q].now
                               /\ req'[q].target = req[q].target
    BY <1>1, GoMoves
  <1>3. /\ UNCHANGED <<time, savedAt, rows, used, creds, seen, seenPuts, sweep, revoked>>
        /\ issued' = [issued EXCEPT ![req[r].code] = r] /\ req[r].at = "recording"
    BY DEF RecordIssue
  <1>4. Typed'
    BY <1>2, <1>3 DEF Typed
  <1>5. \A q \in Requests : InFlight(q)' => InFlight(q)
    BY <1>2, <1>3 DEF InFlight, Finished
  <1>6. RequestsDated'
    BY <1>2, <1>3, <1>5 DEF RequestsDated
  <1>7. Issued' = Issued /\ r \in Issued /\ Issued \subseteq Requests
    BY <1>3 DEF Issued, MintedLate
  <1>8. \A c \in Codes : issued'[c] \in {issued[c], r}
    BY <1>3 DEF Typed
  <1>9. MintedLate'
    BY <1>2, <1>3, <1>7, <1>8 DEF MintedLate, Early, Taking
  <1>10. RevokedStaysRevoked'
    BY <1>3 DEF RevokedStaysRevoked
  <1> QED
    BY <1>4, <1>6, <1>9, <1>10

LEMMA ReplayKeeps == ASSUME RInv, NEW r \in Requests, Replay(r) PROVE RInv'
  <1> USE DEF RInv
  <1> DEFINE first == issued[req[r].code]
  <1>1. r \in Issued => req[r].at \notin Early
    BY DEF MintedLate
  <1>2. CASE Go(r, "replayed")
    BY <1>1, <1>2, MoveKeeps
    DEF Replay, InFlight, Finished, ReqStages, Early, Taking, grants, Typed
  <1>3. CASE first # None /\ req' = [req EXCEPT ![r].at = "revoking", ![r].target = first]
    <2>1. req[r].at = "replaying" /\ req[r].code \in Codes
      BY DEF Replay, RequestsDated
    <2>2. first \in Issued /\ Issued \subseteq Requests
      BY <1>3, <2>1 DEF MintedLate, Issued
    <2> HIDE DEF first
    <2> DEFINE q == [req[r] EXCEPT !.at = "revoking", !.target = first]
    <2>3. /\ q \in ReqType /\ q.at = "revoking" /\ q.code = req[r].code /\ q.now = req[r].now
          /\ q.target = first
      <3>1. req[r] \in ReqType
        BY DEF Typed
      <3>2. "revoking" \in ReqStages
        BY DEF ReqStages, Taking
      <3> QED
        BY <2>2, <3>1, <3>2 DEF ReqType
    <2>4. req' = [req EXCEPT ![r] = q]
      BY <1>3 DEF Typed
    <2> HIDE DEF q
    <2>5. /\ req' \in [Requests -> ReqType]
          /\ req'[r] = q /\ \A p \in Requests : p # r => req'[p] = req[p]
      BY <2>3, <2>4 DEF Typed
    <2>6. UNCHANGED <<time, savedAt, rows, used, issued, creds, seen, seenPuts, sweep, revoked>>
      BY DEF Replay, grants
    <2>7. Typed'
      BY <2>5, <2>6 DEF Typed
    <2>8. RequestsDated'
      BY <2>1, <2>3, <2>5, <2>6 DEF RequestsDated, InFlight, Finished
    <2>9. MintedLate'
      <3>1. Issued' = Issued
        BY <2>6 DEF Issued
      <3> QED
        BY <1>3, <2>2, <2>3, <2>5, <2>6, <3>1 DEF MintedLate, Early
    <2>10. RevokedStaysRevoked'
      BY <2>6 DEF RevokedStaysRevoked
    <2> QED
      BY <2>7, <2>8, <2>9, <2>10
  <1> QED
    BY <1>2, <1>3 DEF Replay

-----------------------------------------------------------------------------
(* Revocations, saves and sweeps.                                          *)

LEMMA RevokeReplayedKeeps == ASSUME RInv, NEW r \in Requests, RevokeReplayed(r) PROVE RInv'
  <1> USE DEF RInv
  <1>1. Go(r, "forgetting") /\ "forgetting" \in ReqStages
    BY DEF RevokeReplayed, ReqStages, Taking
  <1>2. /\ req' \in [Requests -> ReqType]
        /\ req'[r].at = "forgetting"
        /\ \A q \in Requests : q # r => req'[q].at = req[q].at
        /\ \A q \in Requests : /\ req'[q].code = req[q].code
                               /\ req'[q].now = req[q].now
                               /\ req'[q].target = req[q].target
    BY <1>1, GoMoves
  <1>3. /\ UNCHANGED <<time, savedAt, rows, used, issued, seen, seenPuts, sweep>>
        /\ Remove(req[r].target) /\ req[r].at = "removing"
    BY DEF RevokeReplayed
  <1>4. req[r].target \in Issued /\ Issued \subseteq Requests
    BY <1>3 DEF MintedLate, Taking, Issued
  <1>5. Issued' = Issued /\ creds' \subseteq Requests /\ revoked' \subseteq Requests
    BY <1>3, <1>4 DEF Issued, Remove, Typed
  <1>6. Typed'
    BY <1>2, <1>3, <1>5 DEF Typed
  <1>7. \A q \in Requests : InFlight(q)' => InFlight(q)
    BY <1>2, <1>3 DEF InFlight, Finished
  <1>8. RequestsDated'
    BY <1>2, <1>3, <1>7 DEF RequestsDated
  <1>9. MintedLate'
    BY <1>2, <1>3, <1>4, <1>5 DEF MintedLate, Early, Taking
  <1>10. RevokedStaysRevoked'
    BY <1>3 DEF RevokedStaysRevoked, Remove
  <1> QED
    BY <1>6, <1>8, <1>9, <1>10

LEMMA RevokeKeeps == ASSUME RInv, NEW q \in Requests, Revoke(q) PROVE RInv'
  <1> USE DEF RInv
  <1>1. /\ UNCHANGED <<time, savedAt, rows, used, issued, seen, seenPuts, req, sweep>>
        /\ Remove(q) /\ q \in Issued
    BY DEF Revoke, Issued
  <1>2. Issued' = Issued /\ creds' \subseteq Requests /\ revoked' \subseteq Requests
    BY <1>1 DEF Issued, Remove, Typed
  <1>3. Typed'
    BY <1>1, <1>2 DEF Typed
  <1>4. RequestsDated'
    BY <1>1 DEF RequestsDated, InFlight
  <1>5. MintedLate'
    BY <1>1, <1>2 DEF MintedLate
  <1>6. RevokedStaysRevoked'
    BY <1>1 DEF RevokedStaysRevoked, Remove
  <1> QED
    BY <1>3, <1>4, <1>5, <1>6

LEMMA TickKeeps == ASSUME RInv, Tick PROVE RInv'
  <1> USE DEF RInv
  <1>1. /\ UNCHANGED <<savedAt, rows, used, issued, creds, seen, seenPuts, req, sweep, revoked>>
        /\ time' = time + 1
        /\ \A r \in Requests : InFlight(r) => time - req[r].now < Patience
    BY DEF Tick, grants
  <1>2. Typed'
    BY <1>1 DEF Typed
  <1>3. time \in Nat /\ Patience \in Nat /\ \A r \in Requests : req[r].now \in Nat
    BY GrantsAssumption DEF Typed, ReqType
  <1>4. RequestsDated'
    BY <1>1, <1>3 DEF RequestsDated, InFlight
  <1>5. MintedLate' /\ RevokedStaysRevoked'
    BY <1>1 DEF MintedLate, RevokedStaysRevoked, Issued
  <1> QED
    BY <1>2, <1>4, <1>5

LEMMA SeenKeeps ==
  ASSUME RInv, NEW q \in Requests, Forget(q) \/ Serve(q) \/ LandSeen(q)
  PROVE  RInv'
  <1>1. /\ UNCHANGED <<time, savedAt, rows, used, issued, creds, req, sweep, revoked>>
        /\ seen' \subseteq seen \cup {q} /\ seenPuts' \subseteq seenPuts \cup {q}
    BY DEF Forget, Serve, LandSeen, grants
  <1>2. Typed'
    BY <1>1 DEF RInv, Typed
  <1> QED
    BY <1>1, <1>2, OthersKeep

(* A sweep that lists, or gives up, moves to a phase with what it listed.  *)
LEMMA ListMoves ==
  ASSUME Typed, NEW p \in Consoles, NEW phase \in SweepStages,
         NEW todo \in SUBSET Keys, NEW doomed \in SUBSET Keys,
         List(p, phase, todo, doomed)
  PROVE  /\ sweep' \in [Consoles -> SweepType]
         /\ sweep'[p].at = phase /\ sweep'[p].todo = todo /\ sweep'[p].doomed = doomed
         /\ sweep'[p].now = sweep[p].now
         /\ \A q \in Consoles : q # p => sweep'[q] = sweep[q]
  <1>1. sweep[p] \in SweepType /\ sweep \in [Consoles -> SweepType]
    BY DEF Typed
  <1> DEFINE w == [sweep[p] EXCEPT !.at = phase, !.todo = todo, !.doomed = doomed]
  <1>2. /\ w \in SweepType /\ w.at = phase /\ w.todo = todo /\ w.doomed = doomed
        /\ w.now = sweep[p].now
    BY <1>1 DEF SweepType
  <1>3. sweep' = [sweep EXCEPT ![p] = w]
    BY <1>1 DEF List
  <1> HIDE DEF w
  <1> QED
    BY <1>1, <1>2, <1>3

(* What a sweep may list, by the phase it lists for.                       *)
LEMMA SweepListCases ==
  ASSUME Typed, NEW p \in Consoles, SweepList(p)
  PROVE  \E phase \in SweepStages, todo \in SUBSET Keys, doomed \in SUBSET Keys :
           /\ List(p, phase, todo, doomed)
           /\ phase = "used" => todo = {} /\ doomed = Spent(sweep[p].now)
  <1>1. /\ Expired(sweep[p].now) \in SUBSET Keys /\ Spent(sweep[p].now) \in SUBSET Keys
        /\ {c \in Codes : issued[c] # None} \in SUBSET Keys
        /\ seen \in SUBSET Keys /\ {} \in SUBSET Keys
    BY DEF Typed, Keys, Expired, Spent
  <1>2. CASE List(p, "codes", {}, Expired(sweep[p].now))
    BY <1>1, <1>2 DEF SweepStages
  <1>3. CASE List(p, "used", {}, Spent(sweep[p].now))
    BY <1>1, <1>3 DEF SweepStages
  <1>4. CASE List(p, "issued", {c \in Codes : issued[c] # None}, {})
    BY <1>1, <1>4 DEF SweepStages
  <1>5. CASE List(p, "seen", seen, {})
    BY <1>1, <1>5 DEF SweepStages
  <1>6. CASE List(p, "idle", {}, {})
    BY <1>1, <1>6 DEF SweepStages
  <1> QED
    BY <1>2, <1>3, <1>4, <1>5, <1>6 DEF SweepList

(* A sweep that checks keeps its phase, and dooms at most what it checked. *)
LEMMA SweepCheckMoves ==
  ASSUME Typed, NEW p \in Consoles, SweepCheck(p)
  PROVE  /\ sweep' \in [Consoles -> SweepType]
         /\ sweep'[p].at = sweep[p].at /\ sweep'[p].now = sweep[p].now
         /\ sweep[p].todo # {}
         /\ \A q \in Consoles : q # p => sweep'[q] = sweep[q]
  <1>1. PICK k \in sweep[p].todo :
          List(p, sweep[p].at, sweep[p].todo \ {k}, IF Widowed(sweep[p].at, k) THEN {k} ELSE {})
    BY DEF SweepCheck
  <1> DEFINE left == sweep[p].todo \ {k}
             dead == IF Widowed(sweep[p].at, k) THEN {k} ELSE {}
  <1>2. sweep[p].at \in SweepStages /\ left \in SUBSET Keys /\ dead \in SUBSET Keys
    BY DEF Typed, SweepType
  <1>3. List(p, sweep[p].at, left, dead)
    BY <1>1
  <1> HIDE DEF left, dead
  <1> QED
    BY <1>1, <1>2, <1>3, ListMoves

(* A sweep that deletes keeps its phase and has one key less to delete.    *)
LEMMA SweepDeleteMoves ==
  ASSUME Typed, NEW p \in Consoles, SweepDelete(p)
  PROVE  \E k \in sweep[p].doomed :
           /\ sweep' \in [Consoles -> SweepType]
           /\ sweep'[p].at = sweep[p].at /\ sweep'[p].now = sweep[p].now
           /\ sweep'[p].todo = sweep[p].todo /\ sweep'[p].doomed = sweep[p].doomed \ {k}
           /\ \A q \in Consoles : q # p => sweep'[q] = sweep[q]
           /\ rows' \subseteq rows /\ seen' \subseteq seen
           /\ used' \in [Codes -> Markers \cup {None}]
           /\ \A c \in Codes : used'[c] = used[c]
                               \/ (used'[c] = None /\ c = k /\ sweep[p].at = "used")
           /\ issued' \in [Codes -> Requests \cup {None}]
           /\ \A c \in Codes : issued'[c] \in {issued[c], None}
  <1>1. sweep[p] \in SweepType /\ sweep \in [Consoles -> SweepType]
    BY DEF Typed
  <1> DEFINE Gone(k, phase) == IF sweep[p].at = phase THEN {k} ELSE {}
  <1>2. PICK k \in sweep[p].doomed :
          /\ sweep' = [sweep EXCEPT ![p].doomed = @ \ {k}]
          /\ rows' = rows \ Gone(k, "codes")
          /\ used' = [c \in Codes |-> IF c \in Gone(k, "used") THEN None ELSE used[c]]
          /\ issued' = [c \in Codes |-> IF c \in Gone(k, "issued") THEN None ELSE issued[c]]
          /\ seen' = seen \ Gone(k, "seen")
    BY DEF SweepDelete
  <1>3. \A c, phase : c \in Gone(k, phase) => c = k /\ sweep[p].at = phase
    OBVIOUS
  <1> HIDE DEF Gone
  <1> DEFINE left == sweep[p].doomed \ {k}
             w == [sweep[p] EXCEPT !.doomed = left]
  <1>4. sweep' = [sweep EXCEPT ![p] = w] /\ left \in SUBSET Keys
    BY <1>1, <1>2 DEF SweepType
  <1>5. w \in SweepType /\ w.at = sweep[p].at /\ w.now = sweep[p].now
        /\ w.todo = sweep[p].todo /\ w.doomed = left
    BY <1>1, <1>4 DEF SweepType
  <1> HIDE DEF w
  <1>6. /\ sweep' \in [Consoles -> SweepType]
        /\ sweep'[p] = w /\ \A q \in Consoles : q # p => sweep'[q] = sweep[q]
    BY <1>1, <1>4, <1>5
  <1>7. /\ used' \in [Codes -> Markers \cup {None}]
        /\ \A c \in Codes : used'[c] = used[c]
                            \/ (used'[c] = None /\ c = k /\ sweep[p].at = "used")
    BY <1>2, <1>3 DEF Typed
  <1>8. /\ issued' \in [Codes -> Requests \cup {None}]
        /\ \A c \in Codes : issued'[c] \in {issued[c], None}
    BY <1>2 DEF Typed
  <1> QED
    BY <1>2, <1>5, <1>6, <1>7, <1>8

LEMMA SweepKeeps ==
  ASSUME RInv, NEW p \in Consoles,
         SweepList(p) \/ SweepCheck(p) \/ SweepDelete(p) \/ SweepFails(p)
  PROVE  RInv'
  <1>0. Typed
    BY DEF RInv
  <1>1. CASE SweepList(p)
    <2>1. sweep' \in [Consoles -> SweepType]
      BY <1>0, <1>1, SweepListCases, ListMoves
    <2> QED
      BY <1>0, <1>1, <2>1, OthersKeep DEF SweepList, Typed, grants
  <1>2. CASE SweepCheck(p)
    <2>1. sweep' \in [Consoles -> SweepType]
      BY <1>0, <1>2, SweepCheckMoves
    <2> QED
      BY <1>0, <1>2, <2>1, OthersKeep DEF SweepCheck, Typed, grants
  <1>3. CASE SweepDelete(p)
    <2>1. /\ sweep' \in [Consoles -> SweepType]
          /\ rows' \subseteq rows /\ seen' \subseteq seen
          /\ used' \in [Codes -> Markers \cup {None}]
          /\ issued' \in [Codes -> Requests \cup {None}]
          /\ \A c \in Codes : issued'[c] \in {issued[c], None}
      BY <1>0, <1>3, SweepDeleteMoves
    <2>2. UNCHANGED <<time, savedAt, creds, seenPuts, req, revoked>>
      BY <1>3 DEF SweepDelete
    <2> QED
      BY <1>0, <2>1, <2>2, OthersKeep DEF Typed
  <1>4. CASE SweepFails(p)
    <2>1. "idle" \in SweepStages /\ {} \in SUBSET Keys /\ List(p, "idle", {}, {})
      BY <1>4 DEF SweepFails, SweepStages
    <2>2. sweep' \in [Consoles -> SweepType]
      BY <1>0, <2>1, ListMoves
    <2> QED
      BY <1>0, <1>4, <2>2, OthersKeep DEF SweepFails, Typed, grants
  <1> QED
    BY <1>1, <1>2, <1>3, <1>4

(* Saving a code leaves the others' rows and markers, and dates its sweep. *)
LEMMA SaveMoves ==
  ASSUME Typed, NEW p \in Consoles, NEW c \in Codes, SaveCode(p, c)
  PROVE  /\ sweep' \in [Consoles -> SweepType]
         /\ \A q \in Consoles :
              \/ sweep'[q] = sweep[q]
              \/ sweep'[q].at = "begun" /\ sweep'[q].now = time
  <1>1. sweep[p] \in SweepType /\ sweep \in [Consoles -> SweepType] /\ time \in Nat
    BY DEF Typed
  <1> DEFINE w == [sweep[p] EXCEPT !.at = "begun", !.now = time, !.last = time]
  <1>2. w \in SweepType /\ w.at = "begun" /\ w.now = time
    BY <1>1 DEF SweepType, SweepStages
  <1>3. sweep' = sweep \/ sweep' = [sweep EXCEPT ![p] = w]
    BY <1>1 DEF SaveCode
  <1> HIDE DEF w
  <1> QED
    BY <1>1, <1>2, <1>3

LEMMA SaveKeeps ==
  ASSUME RInv, NEW p \in Consoles, NEW c \in Codes, SaveCode(p, c)
  PROVE  RInv'
  <1>1. Typed'
    BY SaveMoves DEF RInv, Typed, SaveCode
  <1>2. \A d \in Codes : savedAt[d] # None => savedAt'[d] # None
    BY GrantsAssumption DEF RInv, Typed, SaveCode
  <1> QED
    BY <1>1, <1>2, OthersKeep DEF SaveCode, RInv, Typed

LEMMA StepRInv == ASSUME RInv, [Next]_vars PROVE RInv'
  <1>1. CASE UNCHANGED vars
    BY <1>1, OthersKeep DEF vars, grants, RInv, Typed
  <1>2. CASE Next
    <2>1. \/ Tick
          \/ \E r \in Requests :
               \/ Begin(r) \/ IssueCredential(r) \/ RecordIssue(r) \/ Replay(r) \/ RevokeReplayed(r)
               \/ LookCode(r) \/ LookUsed(r) \/ Claim(r) \/ SpendCode(r) \/ LookCredential(r)
                    \/ ForgetReplayed(r) \/ Die(r)
               \/ Revoke(r)
               \/ Forget(r) \/ Serve(r) \/ LandSeen(r)
          \/ \E p \in Consoles, c \in Codes : SaveCode(p, c)
          \/ \E p \in Consoles : SweepList(p) \/ SweepCheck(p) \/ SweepDelete(p) \/ SweepFails(p)
      BY <1>2 DEF Next, Token
    <2> QED
      BY <2>1, TickKeeps, BeginKeeps, IssueKeeps, RecordKeeps, ReplayKeeps, RevokeReplayedKeeps,
         MovesKeep, RevokeKeeps, SeenKeeps, SaveKeeps, SweepKeeps
  <1> QED
    BY <1>1, <1>2

LEMMA AlwaysRInv == Spec => []RInv
  BY InitRInv, StepRInv, PTL DEF Spec

(* A credential that was revoked is never held again, whatever exchange,   *)
(* sweep or last-seen write is under way (revoke and seenKey, grants.ts).  *)
THEOREM RevokedForGood == Spec => []RevokedStaysRevoked
  <1>1. RInv => RevokedStaysRevoked
    BY DEF RInv
  <1> QED
    BY <1>1, AlwaysRInv, PTL

-----------------------------------------------------------------------------
(* Single use.  What it rests on: sweeps do not overlap, and a marker is   *)
(* not swept before two requests in a row have ended.                      *)

OneSweepAtATime == \A p, q \in Consoles : p = q
MarkersOutlive == 2 * Patience < TTL

(* A request that claimed its code and has not failed, and one whose code  *)
(* is spent as well.                                                       *)
Winner(r) == req[r].at \in {"won", "issuing"} \/ r \in Issued
Sold(r) == req[r].at = "issuing" \/ r \in Issued

(* A sweep is not ahead of the clock; a marker it is about to delete is    *)
(* there and has had its time.                                             *)
SweepDated ==
  \A p \in Consoles :
    /\ sweep[p].now <= time
    /\ sweep[p].at = "used" =>
         /\ sweep[p].todo = {}
         /\ \A k \in sweep[p].doomed : k \in Codes /\ used[k] # None /\ used[k].now + TTL <= time

(* The marker of a winner stands until its time is up.                     *)
MarkerStands ==
  \A r \in Requests : Winner(r) =>
    used[req[r].code] = Marker(r) \/ time >= req[r].now + TTL

(* A code that bought a credential has no row any more.                    *)
SoldOut == \A r \in Requests : Sold(r) => req[r].code \notin rows

(* Whoever still claims such a code saw its row, and so began before the   *)
(* buyer can have ended.                                                   *)
NoLateClaim ==
  \A q, r \in Requests :
    Sold(r) /\ req[q].at = "claiming" /\ req[q].code = req[r].code
      => req[q].now <= req[r].now + Patience

OneWinner ==
  \A q, r \in Requests : Winner(q) /\ Winner(r) /\ req[q].code = req[r].code => q = r

SInv == RInv /\ SweepDated /\ MarkerStands /\ SoldOut /\ NoLateClaim /\ OneWinner

LEMMA InitSInv == Init => SInv
  <1> SUFFICES ASSUME Init PROVE SInv
    OBVIOUS
  <1>1. RInv
    BY InitRInv
  <1>2. SweepDated
    BY DEF Init, SweepDated, NoSweep
  <1>3. \A r \in Requests : ~Winner(r) /\ ~Sold(r)
    BY DEF Init, Idle, Winner, Sold, Issued
  <1> QED
    BY <1>1, <1>2, <1>3 DEF SInv, MarkerStands, SoldOut, NoLateClaim, OneWinner

(* Numbers, and a marker that is there.                                    *)
LEMMA Dates ==
  ASSUME RInv
  PROVE  /\ time \in Nat /\ TTL \in Nat \ {0} /\ Patience \in Nat
         /\ \A r \in Requests : req[r].now \in Nat /\ Marker(r) # None /\ Marker(r).now = req[r].now
  <1>1. time \in Nat /\ TTL \in Nat \ {0} /\ Patience \in Nat
        /\ None \notin [by : Requests, now : Nat]
    BY GrantsAssumption DEF RInv, Typed
  <1>2. \A r \in Requests : req[r].now \in Nat
    BY DEF RInv, Typed, ReqType
  <1>3. \A r \in Requests : Marker(r) \in [by : Requests, now : Nat] /\ Marker(r).now = req[r].now
    BY <1>2 DEF Marker
  <1> QED
    BY <1>1, <1>2, <1>3

(* Winners have begun, and their codes are codes that were saved.          *)
LEMMA WinnersBegan ==
  ASSUME RInv, NEW r \in Requests, Winner(r)
  PROVE  /\ req[r].at # "idle"
         /\ req[r].code \in Codes /\ savedAt[req[r].code] # None
  BY DEF RInv, RequestsDated, MintedLate, Winner, Early

(* A step that makes no winner and no new claim keeps the invariant.       *)
LEMMA CalmKeeps ==
  ASSUME SInv, RInv', SweepDated', UNCHANGED <<time, used>>, rows' \subseteq rows,
         \A r \in Requests :
           /\ Winner(r)' => Winner(r)
           /\ Sold(r)' => Sold(r)
           /\ req'[r].at = "claiming" => req[r].at = "claiming"
           /\ Winner(r) \/ req[r].at = "claiming" =>
                req'[r].code = req[r].code /\ req'[r].now = req[r].now
  PROVE  SInv'
  <1> USE DEF SInv
  <1>1. \A r \in Requests : Sold(r) => Winner(r)
    BY DEF Sold, Winner
  <1>2. MarkerStands'
    BY DEF MarkerStands, Marker
  <1>3. SoldOut'
    BY <1>1 DEF SoldOut
  <1>4. NoLateClaim'
    BY <1>1 DEF NoLateClaim
  <1>5. OneWinner'
    BY DEF OneWinner
  <1> QED
    BY <1>2, <1>3, <1>4, <1>5

(* A request's move that wins nothing.                                     *)
LEMMA CalmMove ==
  ASSUME SInv, RInv', NEW r \in Requests, NEW to \in ReqStages, Go(r, to),
         to \notin {"claiming", "won"}, to = "issuing" => req[r].at = "issuing",
         UNCHANGED <<time, used, sweep>>, rows' \subseteq rows,
         \A q \in Requests : q \in Issued' => q \in Issued \/ (q = r /\ req[r].at = "issuing")
  PROVE  SInv'
  <1>1. /\ req'[r].at = to
        /\ \A q \in Requests : q # r => req'[q].at = req[q].at
        /\ \A q \in Requests : req'[q].code = req[q].code /\ req'[q].now = req[q].now
    BY GoMoves DEF SInv, RInv
  <1>2. SweepDated'
    BY DEF SInv, SweepDated
  <1> QED
    BY <1>1, <1>2, CalmKeeps DEF Winner, Sold

LEMMA CalmRequests ==
  ASSUME SInv, RInv', NEW r \in Requests,
         \/ LookUsed(r) \/ IssueCredential(r) \/ RecordIssue(r) \/ LookCredential(r)
         \/ RevokeReplayed(r) \/ ForgetReplayed(r) \/ Die(r)
  PROVE  SInv'
  <1> USE DEF ReqStages, Finished, Early, Taking, grants, Issued
  <1>1. CASE LookUsed(r)
    <2>1. PICK to \in {"replaying", "refused"} : Go(r, to)
      BY <1>1 DEF LookUsed
    <2> QED
      BY <1>1, <2>1, CalmMove DEF LookUsed
  <1>2. CASE IssueCredential(r)
    BY <1>2, CalmMove DEF IssueCredential
  <1>3. CASE RecordIssue(r)
    BY <1>3, CalmMove DEF RecordIssue
  <1>4. CASE LookCredential(r)
    <2>1. PICK to \in {"removing", "replayed"} : Go(r, to)
      BY <1>4 DEF LookCredential
    <2> QED
      BY <1>4, <2>1, CalmMove DEF LookCredential
  <1>5. CASE RevokeReplayed(r)
    <2>1. req[r].target \in Issued
      BY <1>5 DEF RevokeReplayed, SInv, RInv, MintedLate
    <2> QED
      BY <1>5, <2>1, CalmMove DEF RevokeReplayed, Remove
  <1>6. CASE ForgetReplayed(r)
    BY <1>6, CalmMove DEF ForgetReplayed
  <1>7. CASE Die(r)
    BY <1>7, CalmMove DEF Die
  <1> QED
    BY <1>1, <1>2, <1>3, <1>4, <1>5, <1>6, <1>7

LEMMA CalmBegin == ASSUME SInv, RInv', NEW r \in Requests, Begin(r) PROVE SInv'
  <1>1. PICK q : req' = [req EXCEPT ![r] = q] /\ q.at = "looking"
    <2>1. PICK c \in {c \in Codes : savedAt[c] # None}, proven \in BOOLEAN :
            req' = [req EXCEPT ![r] = [req[r] EXCEPT !.at = "looking", !.code = c,
                                                     !.proven = proven, !.now = time]]
      BY DEF Begin
    <2>2. req[r] \in ReqType
      BY DEF SInv, RInv, Typed
    <2> DEFINE w == [req[r] EXCEPT !.at = "looking", !.code = c, !.proven = proven, !.now = time]
    <2>3. w.at = "looking"
      BY <2>2 DEF ReqType
    <2>4. req' = [req EXCEPT ![r] = w]
      BY <2>1
    <2> HIDE DEF w
    <2> QED
      BY <2>3, <2>4
  <1>2. /\ req'[r].at = "looking" /\ \A p \in Requests : p # r => req'[p] = req[p]
        /\ UNCHANGED <<time, rows, used, creds, revoked, sweep>>
        /\ req[r].at = "idle"
    BY <1>1 DEF Begin, grants, SInv, RInv, Typed
  <1>3. SweepDated' /\ Issued' = Issued
    BY <1>2 DEF SInv, SweepDated, Issued
  <1>4. ~Winner(r)
    BY <1>2, WinnersBegan DEF SInv
  <1> QED
    BY <1>2, <1>3, <1>4, CalmKeeps DEF Winner, Sold

LEMMA CalmReplay == ASSUME SInv, RInv', NEW r \in Requests, Replay(r) PROVE SInv'
  <1>1. /\ UNCHANGED <<time, rows, used, creds, revoked, sweep>>
        /\ req[r].at = "replaying"
    BY DEF Replay, grants
  <1>2. SweepDated' /\ Issued' = Issued
    BY <1>1 DEF SInv, SweepDated, Issued
  <1>3. CASE Go(r, "replayed")
    BY <1>1, <1>2, <1>3, CalmMove DEF ReqStages, Finished
  <1>4. CASE req' = [req EXCEPT ![r].at = "revoking", ![r].target = issued[req[r].code]]
    <2>1. req[r] \in ReqType /\ req \in [Requests -> ReqType]
      BY DEF SInv, RInv, Typed
    <2> DEFINE q == [req[r] EXCEPT !.at = "revoking", !.target = issued[req[r].code]]
    <2>2. q.at = "revoking" /\ q.code = req[r].code /\ q.now = req[r].now
      BY <2>1 DEF ReqType
    <2>3. req' = [req EXCEPT ![r] = q]
      BY <1>4, <2>1
    <2> HIDE DEF q
    <2>4. req'[r] = q /\ \A p \in Requests : p # r => req'[p] = req[p]
      BY <2>1, <2>3
    <2> QED
      BY <1>1, <1>2, <2>2, <2>4, CalmKeeps DEF Winner, Sold
  <1> QED
    BY <1>3, <1>4 DEF Replay

LEMMA CalmCredentials ==
  ASSUME SInv, RInv', NEW q \in Requests, Revoke(q) \/ Forget(q) \/ Serve(q) \/ LandSeen(q)
  PROVE  SInv'
  <1>1. UNCHANGED <<time, rows, used, req, sweep>>
    BY DEF Revoke, Forget, Serve, LandSeen, grants
  <1>2. Issued' = Issued
    BY DEF Revoke, Remove, Forget, Serve, LandSeen, grants, Issued
  <1>3. SweepDated'
    BY <1>1 DEF SInv, SweepDated
  <1> QED
    BY <1>1, <1>2, <1>3, CalmKeeps DEF Winner, Sold

LEMMA TickCalm == ASSUME SInv, RInv', Tick PROVE SInv'
  <1>1. UNCHANGED <<rows, used, creds, revoked, req, sweep>> /\ time' = time + 1 /\ time \in Nat
    BY Dates DEF Tick, grants, SInv
  <1>2. \A r \in Requests : (Winner(r)' <=> Winner(r)) /\ (Sold(r)' <=> Sold(r)) /\ Marker(r)' = Marker(r)
    BY <1>1 DEF Winner, Sold, Issued, Marker
  <1>3. SweepDated'
    <2> SUFFICES ASSUME NEW p \in Consoles
                 PROVE  /\ sweep[p].now <= time + 1
                        /\ sweep[p].at = "used" =>
                             /\ sweep[p].todo = {}
                             /\ \A k \in sweep[p].doomed :
                                  k \in Codes /\ used[k] # None /\ used[k].now + TTL <= time + 1
      BY <1>1 DEF SweepDated
    <2>1. sweep[p].now \in Nat /\ \A k \in Codes : used[k] # None => used[k].now \in Nat
      BY DEF SInv, RInv, Typed, SweepType, Markers
    <2> QED
      BY <1>1, <2>1, Dates DEF SInv, SweepDated
  <1>4. MarkerStands'
    BY <1>1, <1>2, Dates DEF SInv, MarkerStands
  <1>5. SoldOut' /\ NoLateClaim' /\ OneWinner'
    BY <1>1, <1>2 DEF SInv, SoldOut, NoLateClaim, OneWinner
  <1> QED
    BY <1>3, <1>4, <1>5 DEF SInv

(* Who finds a row finds it unsold.                                        *)
LEMMA LookCalm == ASSUME SInv, RInv', NEW r \in Requests, LookCode(r) PROVE SInv'
  <1>1. /\ UNCHANGED <<time, rows, used, creds, revoked, sweep>>
        /\ req[r].at = "looking"
        /\ Go(r, IF req[r].code \in rows THEN "claiming" ELSE "missing")
    BY DEF LookCode, grants
  <1>2. CASE req[r].code \notin rows
    BY <1>1, <1>2, CalmMove DEF ReqStages, Early, Issued
  <1>3. CASE req[r].code \in rows
    <2>1. /\ req'[r].at = "claiming"
          /\ \A q \in Requests : q # r => req'[q].at = req[q].at
          /\ \A q \in Requests : req'[q].code = req[q].code /\ req'[q].now = req[q].now
      BY <1>1, <1>3, GoMoves DEF SInv, RInv, ReqStages, Early
    <2>2. Issued' = Issued
      BY <1>1 DEF Issued
    <2>3. /\ \A q \in Requests : Winner(q)' => Winner(q)
          /\ \A q \in Requests : Sold(q)' => Sold(q)
      BY <2>1, <2>2 DEF Winner, Sold
    <2>4. SweepDated' /\ OneWinner'
      BY <1>1, <2>1, <2>3 DEF SInv, SweepDated, OneWinner
    <2>5. MarkerStands' /\ SoldOut'
      BY <1>1, <2>1, <2>3 DEF SInv, MarkerStands, SoldOut, Marker
    <2>6. NoLateClaim'
      <3>1. \A q \in Requests : Sold(q) => req[q].code # req[r].code
        BY <1>3 DEF SInv, SoldOut
      <3> QED
        BY <2>1, <2>3, <3>1 DEF SInv, NoLateClaim
    <2> QED
      BY <2>4, <2>5, <2>6 DEF SInv
  <1> QED
    BY <1>2, <1>3

(* Nobody wins a code that has a winner: its marker still stands.          *)
LEMMA NoSecondWin ==
  ASSUME SInv, MarkersOutlive, NEW q \in Requests, NEW r \in Requests,
         req[q].at = "claiming", Winner(r), req[q].code = req[r].code
  PROVE  ~Wins(q)
  <1>1. time <= req[q].now + Patience
    BY DEF SInv, RInv, RequestsDated, InFlight, Finished
  <1>2. time < req[r].now + TTL
    <2>1. CASE Sold(r)
      <3>1. req[q].now <= req[r].now + Patience
        BY <2>1 DEF SInv, NoLateClaim
      <3> QED
        BY <1>1, <3>1, Dates DEF SInv, MarkersOutlive
    <2>2. CASE ~Sold(r)
      <3>1. time <= req[r].now + Patience
        BY <2>2 DEF SInv, RInv, RequestsDated, InFlight, Finished, Winner, Sold
      <3> QED
        BY <3>1, Dates DEF SInv, MarkersOutlive
    <2> QED
      BY <2>1, <2>2
  <1>3. used[req[r].code] = Marker(r)
    BY <1>2, Dates DEF SInv, MarkerStands
  <1> QED
    BY <1>3, Dates DEF SInv, Wins

LEMMA ClaimCalm ==
  ASSUME SInv, RInv', MarkersOutlive, NEW r \in Requests, Claim(r)
  PROVE  SInv'
  <1>1. UNCHANGED <<time, rows, creds, revoked, sweep>> /\ req[r].at = "claiming"
    BY DEF Claim
  <1>2. Issued' = Issued
    BY <1>1 DEF Issued
  <1>3. CASE ~Wins(r)
    <2>1. Go(r, "replaying") /\ UNCHANGED used
      BY <1>3 DEF Claim
    <2> QED
      BY <1>1, <1>2, <2>1, CalmMove DEF ReqStages
  <1>4. CASE Wins(r)
    <2>1. Go(r, "won") /\ used' = [used EXCEPT ![req[r].code] = Marker(r)]
      BY <1>4 DEF Claim
    <2>2. /\ req'[r].at = "won"
          /\ \A q \in Requests : q # r => req'[q].at = req[q].at
          /\ \A q \in Requests : req'[q].code = req[q].code /\ req'[q].now = req[q].now
      BY <2>1, GoMoves DEF SInv, RInv, ReqStages, Early
    <2>3. req[r].code \in Codes /\ used[req[r].code] = None
      BY <1>1, <1>4 DEF SInv, RInv, RequestsDated, Wins
    <2>4. /\ used'[req[r].code] = Marker(r)
          /\ \A c \in Codes : c # req[r].code => used'[c] = used[c]
      BY <2>1, <2>3 DEF SInv, RInv, Typed
    <2>5. /\ \A q \in Requests : Winner(q)' => Winner(q) \/ q = r
          /\ \A q \in Requests : Sold(q)' => Sold(q)
          /\ \A q \in Requests : Marker(q)' = Marker(q)
      BY <1>2, <2>2 DEF Winner, Sold, Marker
    <2>6. \A q \in Requests : Winner(q) => req[q].code # req[r].code /\ req[q].code \in Codes
      BY <1>1, <1>4, NoSecondWin, WinnersBegan DEF SInv
    <2>7. SweepDated'
      BY <1>1, <2>3, <2>4 DEF SInv, SweepDated
    <2>8. MarkerStands'
      BY <1>1, <2>2, <2>4, <2>5, <2>6 DEF SInv, MarkerStands
    <2>9. SoldOut' /\ NoLateClaim'
      BY <1>1, <2>2, <2>5 DEF SInv, SoldOut, NoLateClaim
    <2>10. OneWinner'
      BY <2>2, <2>5, <2>6 DEF SInv, OneWinner
    <2> QED
      BY <2>7, <2>8, <2>9, <2>10 DEF SInv
  <1> QED
    BY <1>3, <1>4

(* The row goes while its buyer lives: later requests find none.           *)
LEMMA SpendCalm == ASSUME SInv, RInv', NEW r \in Requests, SpendCode(r) PROVE SInv'
  <1>1. /\ UNCHANGED <<time, used, creds, revoked, sweep>>
        /\ req[r].at = "won" /\ rows' = rows \ {req[r].code}
        /\ \E to \in {"issuing", "refused"} : Go(r, to)
    BY DEF SpendCode
  <1>2. PICK to \in {"issuing", "refused"} : Go(r, to)
    BY <1>1
  <1>3. /\ req'[r].at = to
        /\ \A q \in Requests : q # r => req'[q].at = req[q].at
        /\ \A q \in Requests : req'[q].code = req[q].code /\ req'[q].now = req[q].now
    BY <1>2, GoMoves DEF SInv, RInv, ReqStages, Early, Finished
  <1>4. Issued' = Issued
    BY <1>1 DEF Issued
  <1>5. /\ \A q \in Requests : Winner(q)' => Winner(q)
        /\ \A q \in Requests : Sold(q)' => Sold(q) \/ q = r
        /\ \A q \in Requests : Marker(q)' = Marker(q)
    BY <1>1, <1>3, <1>4 DEF Winner, Sold, Marker
  <1>6. SweepDated' /\ MarkerStands' /\ OneWinner'
    BY <1>1, <1>3, <1>5 DEF SInv, SweepDated, MarkerStands, OneWinner
  <1>7. SoldOut'
    BY <1>1, <1>3, <1>5 DEF SInv, SoldOut
  <1>8. NoLateClaim'
    <2>1. \A q \in Requests : req[q].now <= req[r].now + Patience
      <3>1. time <= req[r].now + Patience
        BY <1>1 DEF SInv, RInv, RequestsDated, InFlight, Finished
      <3>2. \A q \in Requests : req[q].now <= time
        BY DEF SInv, RInv, RequestsDated
      <3> QED
        BY <3>1, <3>2, Dates DEF SInv
    <2>2. \A q \in Requests : req'[q].at = "claiming" => req[q].at = "claiming"
      BY <1>3
    <2> QED
      BY <1>3, <1>5, <2>1, <2>2 DEF SInv, NoLateClaim
  <1> QED
    BY <1>6, <1>7, <1>8 DEF SInv

(* Only codes never saved before get a row.                                *)
LEMMA SaveCalm ==
  ASSUME SInv, RInv', NEW p \in Consoles, NEW c \in Codes, SaveCode(p, c)
  PROVE  SInv'
  <1>1. /\ UNCHANGED <<time, used, creds, revoked, req>>
        /\ rows' = rows \cup {c} /\ savedAt[c] = None
    BY DEF SaveCode
  <1>2. /\ \A r \in Requests : (Winner(r)' <=> Winner(r)) /\ (Sold(r)' <=> Sold(r))
        /\ \A r \in Requests : Marker(r)' = Marker(r)
    BY <1>1 DEF Winner, Sold, Issued, Marker
  <1>3. \A q \in Consoles : \/ sweep'[q] = sweep[q]
                            \/ sweep'[q].at = "begun" /\ sweep'[q].now = time
    BY SaveMoves DEF SInv, RInv
  <1>4. SweepDated'
    BY <1>1, <1>3, Dates DEF SInv, SweepDated
  <1>5. SoldOut'
    <2>1. \A r \in Requests : Sold(r) => req[r].code # c
      BY <1>1, WinnersBegan DEF SInv, Winner, Sold
    <2> QED
      BY <1>1, <1>2, <2>1 DEF SInv, SoldOut
  <1>6. MarkerStands' /\ NoLateClaim' /\ OneWinner'
    BY <1>1, <1>2 DEF SInv, MarkerStands, NoLateClaim, OneWinner
  <1> QED
    BY <1>4, <1>5, <1>6 DEF SInv

(* A sweep deletes no marker before its time.                              *)
LEMMA SweepCalm ==
  ASSUME SInv, RInv', OneSweepAtATime, NEW p \in Consoles,
         SweepList(p) \/ SweepCheck(p) \/ SweepDelete(p) \/ SweepFails(p)
  PROVE  SInv'
  <1>0. Typed /\ SweepDated /\ \A q \in Consoles : q = p
    BY DEF SInv, RInv, OneSweepAtATime
  <1>1. UNCHANGED <<time, creds, revoked, req>>
    BY DEF SweepList, SweepCheck, SweepDelete, SweepFails, grants
  <1>2. /\ \A r \in Requests : (Winner(r)' <=> Winner(r)) /\ (Sold(r)' <=> Sold(r))
        /\ \A r \in Requests : Marker(r)' = Marker(r)
    BY <1>1 DEF Winner, Sold, Issued, Marker
  <1>3. CASE SweepList(p)
    <2>1. PICK phase \in SweepStages, todo \in SUBSET Keys, doomed \in SUBSET Keys :
            /\ List(p, phase, todo, doomed)
            /\ phase = "used" => todo = {} /\ doomed = Spent(sweep[p].now)
      BY <1>0, <1>3, SweepListCases
    <2>2. /\ sweep'[p].at = phase /\ sweep'[p].todo = todo /\ sweep'[p].doomed = doomed
          /\ sweep'[p].now = sweep[p].now
      BY <1>0, <2>1, ListMoves
    <2>3. rows' = rows /\ used' = used
      BY <1>3 DEF SweepList, grants
    <2>4. \A k \in Spent(sweep[p].now) : k \in Codes /\ used[k] # None /\ used[k].now + TTL <= time
      <3>1. \A k \in Codes : used[k] # None => used[k].now \in Nat
        BY <1>0 DEF Typed, Markers
      <3>2. sweep[p].now <= time /\ sweep[p].now \in Nat
        BY <1>0 DEF SweepDated, Typed, SweepType
      <3> QED
        BY <3>1, <3>2, Dates DEF SInv, Spent
    <2>5. SweepDated'
      BY <1>0, <1>1, <2>1, <2>2, <2>3, <2>4 DEF SweepDated
    <2> QED
      BY <1>1, <1>2, <2>3, <2>5, CalmKeeps
  <1>4. CASE SweepCheck(p)
    <2>1. /\ sweep'[p].at = sweep[p].at /\ sweep'[p].now = sweep[p].now
          /\ sweep[p].todo # {}
      BY <1>0, <1>4, SweepCheckMoves
    <2>2. rows' = rows /\ used' = used
      BY <1>4 DEF SweepCheck, grants
    <2>3. SweepDated'
      BY <1>0, <1>1, <2>1, <2>2 DEF SweepDated
    <2> QED
      BY <1>1, <1>2, <2>2, <2>3, CalmKeeps
  <1>5. CASE SweepFails(p)
    <2>1. sweep'[p].at = "idle" /\ sweep'[p].now = sweep[p].now
      <3>1. "idle" \in SweepStages /\ {} \in SUBSET Keys /\ List(p, "idle", {}, {})
        BY <1>5 DEF SweepFails, SweepStages
      <3> QED
        BY <1>0, <3>1, ListMoves
    <2>2. rows' = rows /\ used' = used
      BY <1>5 DEF SweepFails, grants
    <2>3. SweepDated'
      BY <1>0, <1>1, <2>1, <2>2 DEF SweepDated
    <2> QED
      BY <1>1, <1>2, <2>2, <2>3, CalmKeeps
  <1>6. CASE SweepDelete(p)
    <2>1. PICK k \in sweep[p].doomed :
            /\ sweep'[p].at = sweep[p].at /\ sweep'[p].now = sweep[p].now
            /\ sweep'[p].todo = sweep[p].todo /\ sweep'[p].doomed = sweep[p].doomed \ {k}
            /\ rows' \subseteq rows
            /\ \A c \in Codes : used'[c] = used[c]
                                \/ (used'[c] = None /\ c = k /\ sweep[p].at = "used")
      BY <1>0, <1>6, SweepDeleteMoves
    <2>2. SweepDated'
      BY <1>0, <1>1, <2>1 DEF SweepDated
    <2>3. MarkerStands'
      <3> SUFFICES ASSUME NEW r \in Requests, Winner(r), time < req[r].now + TTL
                   PROVE  used'[req[r].code] = Marker(r)
        BY <1>1, <1>2, Dates DEF MarkerStands, SInv
      <3>1. used[req[r].code] = Marker(r) /\ req[r].code \in Codes
        BY Dates, WinnersBegan DEF SInv, MarkerStands
      <3>2. ~(req[r].code = k /\ sweep[p].at = "used")
        BY <1>0, <3>1, Dates DEF SInv, SweepDated
      <3> QED
        BY <2>1, <3>1, <3>2
    <2>4. SoldOut' /\ NoLateClaim' /\ OneWinner'
      BY <1>1, <1>2, <2>1 DEF SInv, SoldOut, NoLateClaim, OneWinner
    <2> QED
      BY <2>2, <2>3, <2>4 DEF SInv
  <1> QED
    BY <1>3, <1>4, <1>5, <1>6

LEMMA StepSInv == ASSUME SInv, OneSweepAtATime, MarkersOutlive, [Next]_vars PROVE SInv'
  <1>0. RInv'
    BY StepRInv DEF SInv
  <1>1. CASE UNCHANGED vars
    <2>1. UNCHANGED <<time, rows, used, creds, revoked, req, sweep>>
      BY <1>1 DEF vars, grants
    <2>2. SweepDated' /\ Issued' = Issued
      BY <2>1 DEF SInv, SweepDated, Issued
    <2> QED
      BY <1>0, <2>1, <2>2, CalmKeeps DEF Winner, Sold
  <1>2. CASE Next
    <2>1. \/ Tick
          \/ \E r \in Requests :
               \/ Begin(r) \/ Replay(r) \/ LookCode(r) \/ Claim(r) \/ SpendCode(r)
               \/ LookUsed(r) \/ IssueCredential(r) \/ RecordIssue(r) \/ LookCredential(r)
                    \/ RevokeReplayed(r) \/ ForgetReplayed(r) \/ Die(r)
               \/ Revoke(r) \/ Forget(r) \/ Serve(r) \/ LandSeen(r)
          \/ \E p \in Consoles, c \in Codes : SaveCode(p, c)
          \/ \E p \in Consoles : SweepList(p) \/ SweepCheck(p) \/ SweepDelete(p) \/ SweepFails(p)
      BY <1>2 DEF Next, Token
    <2> QED
      BY <1>0, <2>1, TickCalm, CalmBegin, CalmReplay, LookCalm, ClaimCalm, SpendCalm, CalmRequests,
         CalmCredentials, SaveCalm, SweepCalm
  <1> QED
    BY <1>1, <1>2

(* A code is exchanged for one credential at most, however many requests   *)
(* race each other and the sweep (redeemCode and sweepConnect, grants.ts): *)
(* if sweeps do not overlap and a marker outlives two requests in a row.   *)
THEOREM SingleUse ==
  ASSUME OneSweepAtATime, MarkersOutlive
  PROVE  Spec => []OneCredentialPerCode
  <1>1. SInv /\ [Next]_vars => SInv'
    BY StepSInv
  <1>2. SInv => OneCredentialPerCode
    <2>1. \A r \in Issued : Winner(r) /\ r \in Requests
      BY DEF Winner, Issued
    <2> QED
      BY <2>1 DEF SInv, OneWinner, OneCredentialPerCode
  <1> QED
    BY <1>1, <1>2, InitSInv, PTL DEF Spec

-----------------------------------------------------------------------------
(* Replays.  What was answered before a request began is answered still,   *)
(* and a record of an exchange is that of the code it is kept under.       *)

Beforehand ==
  /\ before \in [Requests -> SUBSET Requests]
  /\ \A r \in Requests : \A q \in before[r] : req[q].at = "answered"

RecordNamed == \A c \in Codes : issued[c] # None => req[issued[c]].code = c

TargetNamed ==
  \A r \in Requests : req[r].at \in Taking => req[req[r].target].code = req[r].code

(* The record of an exchange that was answered stands while its marker     *)
(* does: the sweep takes what it found without a marker, and no marker     *)
(* comes back for a code that was sold.                                    *)
RecordStands ==
  \A q \in Requests : req[q].at = "answered" =>
    issued[req[q].code] = q \/ used[req[q].code] = None

SoldCode(k) == k \in Codes /\ \E q \in Issued : req[q].code = k

SweptSpent ==
  \A p \in Consoles : sweep[p].at = "issued" =>
    /\ \A k \in sweep[p].todo : SoldCode(k)
    /\ \A k \in sweep[p].doomed : SoldCode(k) /\ used[k] = None

Taken == \A r \in Requests : req[r].at = "forgetting" => req[r].target \notin creds

PInv ==
  SInv /\ Beforehand /\ RecordNamed /\ TargetNamed /\ RecordStands /\ SweptSpent /\ Taken
    /\ ReplayedIsRevoked

LEMMA InitPInv == Init => PInv
  <1> SUFFICES ASSUME Init PROVE PInv
    OBVIOUS
  <1>1. SInv
    BY InitSInv
  <1>2. \A r \in Requests : req[r].at = "idle"
    BY DEF Init, Idle
  <1>3. Beforehand /\ RecordNamed
    BY DEF Init, Beforehand, RecordNamed
  <1>4. TargetNamed /\ RecordStands /\ Taken /\ ReplayedIsRevoked
    BY <1>2 DEF TargetNamed, Taking, RecordStands, Taken, ReplayedIsRevoked
  <1>5. SweptSpent
    BY DEF Init, NoSweep, SweptSpent
  <1> QED
    BY <1>1, <1>3, <1>4, <1>5 DEF PInv

(* No request moves but by a step of its own.                              *)
LEMMA OwnMove ==
  ASSUME RInv, [Next]_vars, NEW q \in Requests
  PROVE  req'[q] = req[q] \/ Token(q)
  <1>0. req \in [Requests -> ReqType]
    BY DEF RInv, Typed
  <1>1. ASSUME NEW r \in Requests, Token(r), r # q PROVE req'[q] = req[q]
    <2>1. CASE Begin(r) \/ Replay(r)
      BY <1>0, <1>1, <2>1 DEF Begin, Replay, Go
    <2>2. CASE \E to \in ReqStages : Go(r, to)
      BY <1>0, <1>1, <2>2 DEF Go
    <2>3. CASE LookCode(r) \/ LookUsed(r) \/ Claim(r) \/ SpendCode(r)
      BY <2>2, <2>3 DEF LookCode, LookUsed, Claim, SpendCode, ReqStages, Early, Finished
    <2>4. CASE IssueCredential(r) \/ RecordIssue(r) \/ LookCredential(r) \/ RevokeReplayed(r)
                 \/ ForgetReplayed(r) \/ Die(r)
      BY <2>2, <2>4 DEF IssueCredential, RecordIssue, LookCredential, RevokeReplayed,
                       ForgetReplayed, Die, ReqStages, Taking, Finished
    <2> QED
      BY <1>1, <2>1, <2>3, <2>4 DEF Token
  <1>2. CASE \E r \in Requests : Token(r)
    BY <1>1, <1>2
  <1>3. ASSUME NEW r \in Requests, Revoke(r) \/ Forget(r) \/ Serve(r) \/ LandSeen(r)
        PROVE  req' = req
    BY <1>3 DEF Revoke, Forget, Serve, LandSeen
  <1>4. ASSUME NEW p \in Consoles, NEW c \in Codes, SaveCode(p, c) PROVE req' = req
    BY <1>4 DEF SaveCode
  <1>5. ASSUME NEW p \in Consoles,
               SweepList(p) \/ SweepCheck(p) \/ SweepDelete(p) \/ SweepFails(p)
        PROVE  req' = req
    BY <1>5 DEF SweepList, SweepCheck, SweepDelete, SweepFails
  <1>6. CASE Tick \/ UNCHANGED vars
    BY <1>6 DEF Tick, vars
  <1> QED
    BY <1>2, <1>3, <1>4, <1>5, <1>6 DEF Next

(* A request keeps its code and its proof once it has begun, is over for   *)
(* good when it is over, and comes to each stage by the step that leads    *)
(* there.                                                                  *)
LEMMA OwnStep ==
  ASSUME RInv, [Next]_vars, NEW q \in Requests
  PROVE  /\ req[q].at # "idle" => /\ req'[q].code = req[q].code /\ req'[q].at # "idle"
                                  /\ req'[q].proven = req[q].proven
         /\ req[q].at \in Finished \ {"idle"} => req'[q] = req[q]
         /\ req'[q].at = "answered" => req[q].at = "answered" \/ RecordIssue(q)
         /\ req'[q].at \in Taking =>
              \/ req[q].at \in Taking /\ req'[q].target = req[q].target
              \/ /\ req[q].at = "replaying" /\ req'[q].at = "revoking"
                 /\ req'[q].target = issued[req[q].code]
         /\ req'[q].at = "forgetting" => req[q].at = "forgetting" \/ RevokeReplayed(q)
         /\ req'[q].at = "replayed" =>
              req[q].at = "replayed" \/ Replay(q) \/ LookCredential(q) \/ ForgetReplayed(q)
  <1>0. req \in [Requests -> ReqType] /\ req[q] \in ReqType
    BY DEF RInv, Typed
  <1>1. CASE req'[q] = req[q]
    BY <1>1
  <1>2. CASE Begin(q)
    <2>1. req[q].at = "idle" /\ req'[q].at = "looking"
      BY <1>0, <1>2 DEF Begin, ReqType
    <2> QED
      BY <2>1 DEF Taking, Finished
  <1>3. CASE Replay(q) /\ ~Go(q, "replayed")
    <2>1. /\ req[q].at = "replaying"
          /\ req' = [req EXCEPT ![q].at = "revoking", ![q].target = issued[req[q].code]]
      BY <1>3 DEF Replay
    <2>2. /\ req'[q].at = "revoking" /\ req'[q].target = issued[req[q].code]
          /\ req'[q].code = req[q].code /\ req'[q].proven = req[q].proven
      BY <1>0, <2>1 DEF ReqType
    <2> QED
      BY <2>1, <2>2 DEF Taking, Finished
  <1>4. ASSUME NEW to \in ReqStages, Go(q, to)
        PROVE  /\ req'[q].at = to /\ req'[q].code = req[q].code /\ req'[q].proven = req[q].proven
               /\ req'[q].target = req[q].target
    BY <1>0, <1>4 DEF Go, ReqType
  <1>5. CASE LookCode(q) \/ LookUsed(q) \/ Claim(q) \/ SpendCode(q)
    <2>1. /\ req[q].at \in {"looking", "missing", "claiming", "won"}
          /\ \E to \in {"claiming", "missing", "replaying", "refused", "won", "issuing"} : Go(q, to)
      BY <1>5 DEF LookCode, LookUsed, Claim, SpendCode
    <2> QED
      BY <1>4, <2>1 DEF ReqStages, Early, Taking, Finished
  <1>6. CASE IssueCredential(q) \/ RecordIssue(q) \/ Die(q)
    <2>1. \/ IssueCredential(q) /\ req[q].at = "issuing" /\ Go(q, "recording")
          \/ RecordIssue(q) /\ req[q].at = "recording" /\ Go(q, "answered")
          \/ req[q].at \notin Finished /\ Go(q, "died")
      BY <1>6 DEF IssueCredential, RecordIssue, Die, InFlight
    <2> QED
      BY <1>4, <2>1 DEF ReqStages, Early, Taking, Finished
  <1>7. CASE Replay(q) /\ Go(q, "replayed")
    <2>1. req[q].at = "replaying"
      BY <1>7 DEF Replay
    <2> QED
      BY <1>4, <1>7, <2>1 DEF ReqStages, Taking, Finished
  <1>8. CASE LookCredential(q) \/ RevokeReplayed(q) \/ ForgetReplayed(q)
    <2>1. \/ LookCredential(q) /\ req[q].at = "revoking" /\ \E to \in {"removing", "replayed"} : Go(q, to)
          \/ RevokeReplayed(q) /\ req[q].at = "removing" /\ Go(q, "forgetting")
          \/ ForgetReplayed(q) /\ req[q].at = "forgetting" /\ Go(q, "replayed")
      BY <1>8 DEF LookCredential, RevokeReplayed, ForgetReplayed
    <2> QED
      BY <1>4, <2>1 DEF ReqStages, Taking, Finished
  <1> QED
    BY <1>1, <1>2, <1>3, <1>5, <1>6, <1>7, <1>8, OwnMove DEF Token

(* The steps of nobody's request.                                          *)
LEMMA OtherSteps ==
  ASSUME [Next]_vars
  PROVE  \/ \E r \in Requests : Token(r)
         \/ \E r \in Requests : Revoke(r)
         \/ \E p \in Consoles : SweepDelete(p)
         \/ \E p \in Consoles : SweepList(p) \/ SweepCheck(p) \/ SweepFails(p)
         \/ \E p \in Consoles, c \in Codes : SaveCode(p, c)
         \/ UNCHANGED <<used, issued, creds, revoked, sweep, req, before>>
  <1>1. CASE \E r \in Requests : Forget(r) \/ Serve(r) \/ LandSeen(r)
    BY <1>1 DEF Forget, Serve, LandSeen, grants
  <1>2. CASE Tick \/ UNCHANGED vars
    BY <1>2 DEF Tick, vars, grants
  <1> QED
    BY <1>1, <1>2 DEF Next

(* A code that was sold and has lost its marker gets no other.             *)
LEMMA MarkerGone ==
  ASSUME SInv, MarkersOutlive, [Next]_vars, NEW q \in Requests, Winner(q),
         used[req[q].code] = None
  PROVE  used'[req[q].code] = None
  <1>0. req[q].code \in Codes
    BY WinnersBegan DEF SInv
  <1>1. ASSUME NEW r \in Requests, Token(r) PROVE used'[req[q].code] = None
    <2>1. CASE Claim(r)
      <3>1. Wins(r) => req[r].code # req[q].code
        BY <2>1, NoSecondWin DEF Claim
      <3> QED
        BY <1>0, <2>1, <3>1 DEF Claim, SInv, RInv, Typed
    <2>2. CASE ~Claim(r)
      BY <1>1, <2>2 DEF Token, Begin, LookCode, LookUsed, SpendCode, IssueCredential, RecordIssue,
                       Replay, LookCredential, RevokeReplayed, ForgetReplayed, Die, grants
    <2> QED
      BY <2>1, <2>2
  <1>2. ASSUME NEW p \in Consoles, SweepDelete(p) PROVE used'[req[q].code] = None
    BY <1>0, <1>2, SweepDeleteMoves DEF SInv, RInv
  <1>3. CASE \E r \in Requests : Revoke(r)
    BY <1>3 DEF Revoke
  <1>4. CASE \E p \in Consoles : SweepList(p) \/ SweepCheck(p) \/ SweepFails(p)
    BY <1>4 DEF SweepList, SweepCheck, SweepFails, grants
  <1>5. CASE \E p \in Consoles, c \in Codes : SaveCode(p, c)
    BY <1>5 DEF SaveCode
  <1> QED
    BY <1>1, <1>2, <1>3, <1>4, <1>5, OtherSteps

(* What was minted stays minted, and once gone stays gone.                 *)
LEMMA MintedMoves ==
  ASSUME RInv, [Next]_vars
  PROVE  /\ Issued \subseteq Issued'
         /\ \A q \in Issued : q \notin creds => q \notin creds'
  <1>1. ASSUME NEW r \in Requests, Token(r)
        PROVE  /\ creds' \subseteq creds \cup {r} /\ revoked \subseteq revoked'
               /\ creds \subseteq creds' \cup revoked'
               /\ r \in creds' => r \in creds \/ r \notin Issued
    <2>1. CASE IssueCredential(r)
      <3>1. r \notin Issued
        BY <2>1 DEF IssueCredential, RInv, MintedLate, Early
      <3> QED
        BY <2>1, <3>1 DEF IssueCredential
    <2>2. CASE RevokeReplayed(r)
      BY <2>2 DEF RevokeReplayed, Remove
    <2>3. CASE ~IssueCredential(r) /\ ~RevokeReplayed(r)
      BY <1>1, <2>3 DEF Token, Begin, LookCode, LookUsed, Claim, SpendCode, RecordIssue,
                       Replay, LookCredential, ForgetReplayed, Die, grants
    <2> QED
      BY <2>1, <2>2, <2>3
  <1>2. CASE \E r \in Requests : Token(r)
    BY <1>1, <1>2 DEF Issued
  <1>3. CASE \E r \in Requests : Revoke(r)
    BY <1>3 DEF Revoke, Remove, Issued
  <1>4. CASE UNCHANGED <<creds, revoked>>
    BY <1>4 DEF Issued
  <1>5. ASSUME NEW p \in Consoles, SweepDelete(p) \/ SweepList(p) \/ SweepCheck(p) \/ SweepFails(p)
        PROVE  UNCHANGED <<creds, revoked>>
    BY <1>5 DEF SweepDelete, SweepList, SweepCheck, SweepFails, grants
  <1>6. ASSUME NEW p \in Consoles, NEW c \in Codes, SaveCode(p, c)
        PROVE  UNCHANGED <<creds, revoked>>
    BY <1>6 DEF SaveCode
  <1> QED
    BY <1>2, <1>3, <1>4, <1>5, <1>6, OtherSteps

(* A record of an exchange is written by the buyer and deleted by a sweep. *)
LEMMA RecordMoves ==
  ASSUME RInv, [Next]_vars, NEW c \in Codes
  PROVE  \/ issued'[c] = issued[c]
         \/ \E r \in Requests : RecordIssue(r) /\ req[r].code = c /\ issued'[c] = r
         \/ /\ issued'[c] = None
            /\ \E p \in Consoles : sweep[p].at = "issued" /\ c \in sweep[p].doomed
  <1>0. issued \in [Codes -> Requests \cup {None}]
    BY DEF RInv, Typed
  <1>1. ASSUME NEW r \in Requests, Token(r), ~RecordIssue(r) PROVE issued' = issued
    BY <1>1 DEF Token, Begin, LookCode, LookUsed, Claim, SpendCode, IssueCredential, Replay,
               LookCredential, RevokeReplayed, ForgetReplayed, Die, grants
  <1>2. ASSUME NEW r \in Requests, RecordIssue(r)
        PROVE  issued'[c] = issued[c] \/ (req[r].code = c /\ issued'[c] = r)
    BY <1>0, <1>2 DEF RecordIssue
  <1>3. ASSUME NEW p \in Consoles, SweepDelete(p)
        PROVE  \/ issued'[c] = issued[c]
               \/ issued'[c] = None /\ sweep[p].at = "issued" /\ c \in sweep[p].doomed
    <2>1. PICK k \in sweep[p].doomed :
            issued' = [d \in Codes |-> IF d \in (IF sweep[p].at = "issued" THEN {k} ELSE {})
                                       THEN None ELSE issued[d]]
      BY <1>3 DEF SweepDelete
    <2> QED
      BY <1>0, <2>1
  <1>4. CASE \E r \in Requests : Revoke(r)
    BY <1>4 DEF Revoke
  <1>5. CASE \E p \in Consoles : SweepList(p) \/ SweepCheck(p) \/ SweepFails(p)
    BY <1>5 DEF SweepList, SweepCheck, SweepFails, grants
  <1>6. CASE \E p \in Consoles, d \in Codes : SaveCode(p, d)
    BY <1>6 DEF SaveCode
  <1> QED
    BY <1>1, <1>2, <1>3, <1>4, <1>5, <1>6, OtherSteps

(* What was answered before a request is noted as the request begins.      *)
LEMMA BeforeMoves ==
  ASSUME [Next]_vars
  PROVE  \/ before' = before
         \/ \E r \in Requests :
              /\ Begin(r)
              /\ before' = [before EXCEPT ![r] = {q \in Requests : req[q].at = "answered"}]
  <1>1. ASSUME NEW r \in Requests, Token(r), ~Begin(r) PROVE before' = before
    BY <1>1 DEF Token, LookCode, LookUsed, Claim, SpendCode, IssueCredential, RecordIssue, Replay,
               LookCredential, RevokeReplayed, ForgetReplayed, Die
  <1>2. ASSUME NEW r \in Requests, Begin(r)
        PROVE  before' = [before EXCEPT ![r] = {q \in Requests : req[q].at = "answered"}]
    BY <1>2 DEF Begin
  <1>3. CASE \E r \in Requests : Revoke(r)
    BY <1>3 DEF Revoke
  <1>4. CASE \E p \in Consoles : SweepDelete(p) \/ SweepList(p) \/ SweepCheck(p) \/ SweepFails(p)
    BY <1>4 DEF SweepDelete, SweepList, SweepCheck, SweepFails
  <1>5. CASE \E p \in Consoles, c \in Codes : SaveCode(p, c)
    BY <1>5 DEF SaveCode
  <1> QED
    BY <1>1, <1>2, <1>3, <1>4, <1>5, OtherSteps

(* The sweep of the records lists those there are, and dooms those whose   *)
(* marker is gone.                                                         *)
LEMMA SweepOfRecords ==
  ASSUME Typed, [Next]_vars, NEW p \in Consoles, sweep'[p].at = "issued"
  PROVE  /\ \A k \in sweep'[p].todo :
              \/ sweep[p].at = "issued" /\ k \in sweep[p].todo
              \/ k \in Codes /\ issued[k] # None
         /\ \A k \in sweep'[p].doomed :
              \/ sweep[p].at = "issued" /\ k \in sweep[p].doomed
              \/ sweep[p].at = "issued" /\ k \in sweep[p].todo /\ used[k] = None
  <1>1. CASE sweep'[p] = sweep[p]
    BY <1>1
  <1>2. CASE SweepList(p)
    <2>1. ~(List(p, "codes", {}, Expired(sweep[p].now)) \/ List(p, "used", {}, Spent(sweep[p].now))
            \/ List(p, "seen", seen, {}) \/ List(p, "idle", {}, {}))
      <3>1. ASSUME NEW phase \in {"codes", "used", "seen", "idle"}, NEW left, NEW dead,
                   List(p, phase, left, dead)
            PROVE  FALSE
        BY <3>1 DEF List, Typed, SweepType
      <3> QED
        BY <3>1
    <2>2. List(p, "issued", {c \in Codes : issued[c] # None}, {})
      BY <1>2, <2>1 DEF SweepList
    <2> DEFINE records == {c \in Codes : issued[c] # None}
    <2>3. records \in SUBSET Keys /\ {} \in SUBSET Keys /\ "issued" \in SweepStages
      BY DEF Keys, SweepStages
    <2>4. List(p, "issued", records, {})
      BY <2>2
    <2>5. \A k \in records : k \in Codes /\ issued[k] # None
      OBVIOUS
    <2> HIDE DEF records
    <2>6. sweep'[p].todo = records /\ sweep'[p].doomed = {}
      BY <2>3, <2>4, ListMoves
    <2> QED
      BY <2>5, <2>6
  <1>3. CASE SweepCheck(p)
    <2>1. PICK k \in sweep[p].todo :
            List(p, sweep[p].at, sweep[p].todo \ {k}, IF Widowed(sweep[p].at, k) THEN {k} ELSE {})
      BY <1>3 DEF SweepCheck
    <2> DEFINE left == sweep[p].todo \ {k}
               dead == IF Widowed(sweep[p].at, k) THEN {k} ELSE {}
    <2>2. sweep[p].at \in SweepStages /\ left \in SUBSET Keys /\ dead \in SUBSET Keys
      BY DEF Typed, SweepType
    <2>3. List(p, sweep[p].at, left, dead)
      BY <2>1
    <2>4. /\ left \subseteq sweep[p].todo
          /\ \A d \in dead : d \in sweep[p].todo /\ Widowed(sweep[p].at, d)
      OBVIOUS
    <2> HIDE DEF left, dead
    <2>5. sweep'[p].at = sweep[p].at /\ sweep'[p].todo = left /\ sweep'[p].doomed = dead
      BY <2>2, <2>3, ListMoves
    <2>6. \A d \in dead : used[d] = None
      BY <2>4, <2>5 DEF Widowed
    <2> QED
      BY <2>4, <2>5, <2>6
  <1>4. CASE SweepDelete(p)
    BY <1>4, SweepDeleteMoves
  <1>5. CASE SweepFails(p)
    <2>1. List(p, "idle", {}, {}) /\ "idle" \in SweepStages /\ {} \in SUBSET Keys
      BY <1>5 DEF SweepFails, SweepStages
    <2>2. sweep'[p].at = "idle"
      BY <2>1, ListMoves
    <2> QED
      BY <2>2
  <1>6. ASSUME NEW q \in Consoles, q # p,
               SweepDelete(q) \/ SweepList(q) \/ SweepCheck(q) \/ SweepFails(q)
        PROVE  sweep'[p] = sweep[p]
    <2>1. CASE SweepList(q)
      BY <1>6, <2>1, SweepListCases, ListMoves
    <2>2. CASE SweepFails(q)
      <3>1. List(q, "idle", {}, {}) /\ "idle" \in SweepStages /\ {} \in SUBSET Keys
        BY <2>2 DEF SweepFails, SweepStages
      <3> QED
        BY <1>6, <3>1, ListMoves
    <2> QED
      BY <1>6, <2>1, <2>2, SweepCheckMoves, SweepDeleteMoves
  <1>7. CASE \E q \in Consoles, c \in Codes : SaveCode(q, c)
    BY <1>1, <1>7, SaveMoves
  <1>8. ASSUME NEW r \in Requests, Token(r) PROVE sweep' = sweep
    BY <1>8 DEF Token, Begin, LookCode, LookUsed, Claim, SpendCode, IssueCredential, RecordIssue,
               Replay, LookCredential, RevokeReplayed, ForgetReplayed, Die
  <1>9. ASSUME NEW r \in Requests, Revoke(r) PROVE sweep' = sweep
    BY <1>9 DEF Revoke
  <1> QED
    BY <1>1, <1>2, <1>3, <1>4, <1>5, <1>6, <1>7, <1>8, <1>9, OtherSteps

(* A credential that was minted keeps its code, and its code's marker once *)
(* gone is gone for good.                                                  *)
LEMMA MintedKeep ==
  ASSUME SInv, MarkersOutlive, [Next]_vars, NEW q \in Issued
  PROVE  /\ q \in Requests /\ q \in Issued' /\ Winner(q)
         /\ req[q].code \in Codes /\ req'[q].code = req[q].code
         /\ used[req[q].code] = None => used'[req[q].code] = None
         /\ q \notin creds => q \notin creds'
  <1>1. q \in Requests /\ Winner(q)
    BY DEF Issued, Winner
  <1>2. req[q].at # "idle" /\ req[q].code \in Codes
    BY <1>1, WinnersBegan DEF SInv
  <1>3. req'[q].code = req[q].code
    BY <1>1, <1>2, OwnStep DEF SInv
  <1>4. q \in Issued' /\ (q \notin creds => q \notin creds')
    BY MintedMoves DEF SInv
  <1>5. used[req[q].code] = None => used'[req[q].code] = None
    BY <1>1, MarkerGone
  <1> QED
    BY <1>1, <1>2, <1>3, <1>4, <1>5

LEMMA BeforehandKeeps == ASSUME SInv, Beforehand, [Next]_vars PROVE Beforehand'
  <1>1. \A q \in Requests : req[q].at = "answered" => req'[q].at = "answered"
    BY OwnStep DEF SInv, Finished
  <1>2. CASE before' = before
    BY <1>1, <1>2 DEF Beforehand
  <1>3. ASSUME NEW r \in Requests,
               before' = [before EXCEPT ![r] = {q \in Requests : req[q].at = "answered"}]
        PROVE  Beforehand'
    <2> DEFINE answered == {q \in Requests : req[q].at = "answered"}
    <2>1. answered \in SUBSET Requests /\ \A q \in answered : req'[q].at = "answered"
      BY <1>1
    <2>2. before' = [before EXCEPT ![r] = answered]
      BY <1>3
    <2> HIDE DEF answered
    <2>3. before' \in [Requests -> SUBSET Requests]
      BY <2>1, <2>2 DEF Beforehand
    <2>4. \A p \in Requests : before'[p] = before[p] \/ before'[p] = answered
      BY <2>2 DEF Beforehand
    <2> QED
      BY <1>1, <2>1, <2>3, <2>4 DEF Beforehand
  <1> QED
    BY <1>2, <1>3, BeforeMoves

(* Records and targets name requests for the same code.                    *)
LEMMA NamesKeep ==
  ASSUME SInv, RInv', RecordNamed, TargetNamed, MarkersOutlive, [Next]_vars
  PROVE  RecordNamed' /\ TargetNamed'
  <1>1. RecordNamed'
    <2> SUFFICES ASSUME NEW c \in Codes, issued'[c] # None PROVE req'[issued'[c]].code = c
      BY DEF RecordNamed
    <2>1. CASE issued'[c] = issued[c]
      <3>1. issued[c] \in Issued /\ req[issued[c]].code = c
        BY <2>1 DEF RecordNamed, SInv, RInv, MintedLate
      <3> QED
        BY <2>1, <3>1, MintedKeep
    <2>2. ASSUME NEW r \in Requests, RecordIssue(r), req[r].code = c, issued'[c] = r
          PROVE  req'[issued'[c]].code = c
      <3>1. r \in Issued
        BY <2>2 DEF RecordIssue, SInv, RInv, MintedLate
      <3> QED
        BY <2>2, <3>1, MintedKeep
    <2> QED
      BY <2>1, <2>2, RecordMoves DEF SInv
  <1>2. TargetNamed'
    <2> SUFFICES ASSUME NEW r \in Requests, req'[r].at \in Taking
                 PROVE  req'[req'[r].target].code = req'[r].code
      BY DEF TargetNamed
    <2>1. CASE req[r].at \in Taking /\ req'[r].target = req[r].target
      <3>1. req[r].target \in Issued /\ req[req[r].target].code = req[r].code
        BY <2>1 DEF TargetNamed, SInv, RInv, MintedLate
      <3>2. req'[r].code = req[r].code
        BY <2>1, OwnStep DEF SInv, Taking
      <3> QED
        BY <2>1, <3>1, <3>2, MintedKeep
    <2>2. CASE req[r].at = "replaying" /\ req'[r].target = issued[req[r].code]
      <3>1. req[r].code \in Codes /\ req'[r].target # None
        BY <2>2 DEF SInv, RInv, RequestsDated, MintedLate
      <3>2. issued[req[r].code] \in Issued /\ req[issued[req[r].code]].code = req[r].code
        BY <2>2, <3>1 DEF RecordNamed, SInv, RInv, MintedLate
      <3>3. req'[r].code = req[r].code
        BY <2>2, OwnStep DEF SInv
      <3> QED
        BY <2>2, <3>2, <3>3, MintedKeep
    <2> QED
      BY <2>1, <2>2, OwnStep DEF SInv
  <1> QED
    BY <1>1, <1>2

(* The sweep takes no record of an exchange whose marker stands.           *)
LEMMA RecordsKeep ==
  ASSUME SInv, RecordStands, SweptSpent, MarkersOutlive, [Next]_vars
  PROVE  RecordStands'
  <1> SUFFICES ASSUME NEW q \in Requests, req'[q].at = "answered"
               PROVE  issued'[req'[q].code] = q \/ used'[req'[q].code] = None
    BY DEF RecordStands
  <1>1. CASE req[q].at = "answered"
    <2>1. q \in Issued
      BY <1>1 DEF SInv, RInv, MintedLate
    <2> DEFINE c == req[q].code
    <2>2. c \in Codes /\ req'[q].code = c /\ (used[c] = None => used'[c] = None)
      BY <2>1, MintedKeep
    <2>3. ASSUME NEW r \in Requests, RecordIssue(r), req[r].code = c PROVE r = q
      <3>1. r \in Issued
        BY <2>3 DEF RecordIssue, SInv, RInv, MintedLate
      <3> QED
        BY <2>1, <2>3, <3>1 DEF SInv, OneWinner, Winner
    <2>4. ASSUME NEW p \in Consoles, sweep[p].at = "issued", c \in sweep[p].doomed
          PROVE  used[c] = None
      BY <2>4 DEF SweptSpent
    <2> HIDE DEF c
    <2>5. issued[c] = q \/ used[c] = None
      BY <1>1 DEF RecordStands, c
    <2> QED
      BY <2>2, <2>3, <2>4, <2>5, RecordMoves DEF SInv
  <1>2. CASE RecordIssue(q)
    <2>1. q \in Issued
      BY <1>2 DEF RecordIssue, SInv, RInv, MintedLate
    <2>2. req[q].code \in Codes /\ req'[q].code = req[q].code
      BY <2>1, MintedKeep
    <2> QED
      BY <1>2, <2>2 DEF RecordIssue, SInv, RInv, Typed
  <1> QED
    BY <1>1, <1>2, OwnStep DEF SInv

LEMMA SweptKeeps ==
  ASSUME SInv, RecordNamed, SweptSpent, MarkersOutlive, [Next]_vars
  PROVE  SweptSpent'
  <1> SUFFICES ASSUME NEW p \in Consoles, sweep'[p].at = "issued"
               PROVE  /\ \A k \in sweep'[p].todo : SoldCode(k)'
                      /\ \A k \in sweep'[p].doomed : SoldCode(k)' /\ used'[k] = None
    BY DEF SweptSpent
  <1>1. ASSUME NEW k, SoldCode(k)
        PROVE  SoldCode(k)' /\ (used[k] = None => used'[k] = None)
    <2>1. PICK q \in Issued : k \in Codes /\ req[q].code = k
      BY <1>1 DEF SoldCode
    <2> QED
      BY <2>1, MintedKeep DEF SoldCode
  <1>2. \A k \in Codes : issued[k] # None => SoldCode(k)
    BY DEF RecordNamed, SoldCode, SInv, RInv, MintedLate
  <1>3. sweep[p].at = "issued" =>
          /\ \A k \in sweep[p].todo : SoldCode(k)
          /\ \A k \in sweep[p].doomed : SoldCode(k) /\ used[k] = None
    BY DEF SweptSpent
  <1>4. Typed
    BY DEF SInv, RInv
  <1> QED
    BY <1>1, <1>2, <1>3, <1>4, SweepOfRecords

LEMMA TakenKeeps == ASSUME SInv, Taken, MarkersOutlive, [Next]_vars PROVE Taken'
  <1> SUFFICES ASSUME NEW r \in Requests, req'[r].at = "forgetting"
               PROVE  req'[r].target \notin creds'
    BY DEF Taken
  <1>1. req[r].at \in {"forgetting", "removing"} /\ (req[r].at # "forgetting" => RevokeReplayed(r))
    BY OwnStep DEF SInv, RevokeReplayed
  <1>2. req'[r].target = req[r].target /\ req[r].target \in Issued
    BY <1>1, OwnStep DEF SInv, RInv, MintedLate, Taking
  <1> QED
    BY <1>1, <1>2, MintedKeep DEF Taken, RevokeReplayed, Remove

(* A proven replay that comes to its end has named the credential that was *)
(* sold for the code, and found it gone or taken it.                       *)
LEMMA ReplayKeepsRevoked ==
  ASSUME PInv, MarkersOutlive, [Next]_vars
  PROVE  ReplayedIsRevoked'
  <1> USE DEF PInv
  <1> SUFFICES ASSUME NEW r \in Requests, req'[r].at = "replayed", req'[r].proven,
                      used'[req'[r].code] # None, NEW q \in before'[r],
                      req'[q].code = req'[r].code
               PROVE  q \notin creds'
    BY DEF ReplayedIsRevoked
  <1>1. \/ req[r].at = "replayed"
        \/ Replay(r) /\ req[r].at = "replaying"
        \/ LookCredential(r) /\ req[r].at = "revoking"
        \/ ForgetReplayed(r) /\ req[r].at = "forgetting"
    BY OwnStep DEF SInv, Replay, LookCredential, ForgetReplayed
  <1>2. req'[r].code = req[r].code /\ req[r].proven
    BY <1>1, OwnStep DEF SInv
  <1>3. before'[r] = before[r]
    BY <1>1, BeforeMoves DEF Begin, Beforehand
  <1>4. q \in Requests /\ req[q].at = "answered" /\ q \in before[r]
    BY <1>3 DEF Beforehand
  <1>5. q \in Issued
    BY <1>4 DEF SInv, RInv, MintedLate
  <1>6. /\ req[q].code = req[r].code /\ used[req[r].code] # None
        /\ q \notin creds => q \notin creds'
    BY <1>2, <1>5, MintedKeep
  <1>7. issued[req[r].code] = q
    BY <1>4, <1>6 DEF RecordStands
  <1>8. ASSUME req[r].at \in Taking PROVE req[r].target = q
    <2>1. req[r].target \in Issued /\ req[req[r].target].code = req[r].code
      BY <1>8 DEF TargetNamed, SInv, RInv, MintedLate
    <2> QED
      BY <1>5, <1>6, <2>1, MintedKeep DEF SInv, OneWinner
  <1>9. q \notin creds
    <2>1. CASE req[r].at = "replayed"
      BY <1>2, <1>4, <1>6, <2>1 DEF ReplayedIsRevoked
    <2>2. CASE Replay(r)
      <3>1. req' = [req EXCEPT ![r].at = "revoking", ![r].target = q]
        BY <1>2, <1>4, <1>7, <2>2, GrantsAssumption DEF Replay
      <3>2. req'[r].at = "revoking"
        BY <3>1 DEF SInv, RInv, Typed, ReqType
      <3> QED
        BY <3>2
    <2>3. CASE LookCredential(r)
      <3>1. req[r].target \notin creds
        BY <2>3 DEF LookCredential, Go, SInv, RInv, Typed, ReqType
      <3> QED
        BY <1>8, <2>3, <3>1 DEF LookCredential, Taking
    <2>4. CASE ForgetReplayed(r)
      BY <1>8, <2>4 DEF ForgetReplayed, Taking, Taken
    <2> QED
      BY <1>1, <2>1, <2>2, <2>3, <2>4
  <1> QED
    BY <1>6, <1>9

LEMMA StepPInv == ASSUME PInv, OneSweepAtATime, MarkersOutlive, [Next]_vars PROVE PInv'
  <1>1. SInv' /\ RInv'
    BY StepSInv DEF PInv, SInv
  <1> QED
    BY <1>1, BeforehandKeeps, NamesKeep, RecordsKeep, SweptKeeps, TakenKeeps, ReplayKeepsRevoked
    DEF PInv

(* A credential handed out before a proven replay began is gone once the   *)
(* replay is refused, as long as its marker stands (the token endpoint,    *)
(* routes.ts, and sweepConnect, grants.ts): under the same two conditions. *)
THEOREM ReplayRevokes ==
  ASSUME OneSweepAtATime, MarkersOutlive
  PROVE  Spec => []ReplayedIsRevoked
  <1>1. PInv /\ [Next]_vars => PInv'
    BY StepPInv
  <1>2. PInv => ReplayedIsRevoked
    BY DEF PInv
  <1> QED
    BY <1>1, <1>2, InitPInv, PTL DEF Spec

=============================================================================
