--------------------------- MODULE ConnectGrants ---------------------------
(***************************************************************************)
(* Connecting a site: the console saves an authorization code, the gate's  *)
(* token endpoint exchanges it for a credential, a second exchange takes   *)
(* the credential back, and saving a code sweeps what is dead              *)
(* (shared/src/connect/grants.ts, tollgate/src/connect/routes.ts).         *)
(*                                                                         *)
(* Consoles and requests share nothing but the gate's state store.  Each   *)
(* call of the store is atomic and everything interleaves between them.    *)
(* A credential is named by the request it was minted for.                 *)
(***************************************************************************)
EXTENDS Integers

CONSTANTS Codes,       \* authorization codes
          Requests,    \* POSTs to the token endpoint
          Consoles,    \* processes that save codes
          TTL,         \* CODE_TTL_MS
          SweepEvery,  \* SWEEP_EVERY_MS
          Patience,    \* bound on how long a request takes
          MaxTime,     \* bound on time
          None

ASSUME GrantsAssumption ==
  /\ TTL \in Nat \ {0} /\ SweepEvery \in Nat /\ Patience \in Nat /\ MaxTime \in Nat
  /\ None \notin Codes \cup Requests /\ None \notin Nat /\ None \notin [by : Requests, now : Nat]

VARIABLES
  time,
  savedAt,    \* when each code was saved, None if it was not
  rows,       \* connect.code: keys
  used,       \* connect.used: markers
  issued,     \* connect.issued: records, the credential each names
  creds,      \* credential: keys
  seen,       \* connect.seen: keys
  seenPuts,   \* seen writes on their way to the store
  req,        \* the requests
  sweep,      \* the sweep of each console
  forgetting, \* revocations that have still to delete the seen key
  revoked,    \* history: credentials that were revoked
  before      \* history: credentials answered before each request began

grants == <<rows, used, issued, creds>>
vars == <<time, savedAt, grants, seen, seenPuts, req, sweep, forgetting, revoked, before>>

Idle == [at |-> "idle", code |-> None, proven |-> FALSE, now |-> 0, target |-> None]
NoSweep == [at |-> "idle", now |-> 0, todo |-> {}, doomed |-> {}, last |-> None]

Init ==
  /\ time = 0
  /\ savedAt = [c \in Codes |-> None]
  /\ rows = {}
  /\ used = [c \in Codes |-> None]
  /\ issued = [c \in Codes |-> None]
  /\ creds = {} /\ seen = {} /\ seenPuts = {}
  /\ req = [r \in Requests |-> Idle]
  /\ sweep = [p \in Consoles |-> NoSweep]
  /\ forgetting = {} /\ revoked = {}
  /\ before = [r \in Requests |-> {}]

Finished == {"idle", "answered", "refused", "replayed", "died"}
InFlight(r) == req[r].at \notin Finished

Go(r, to) == req' = [req EXCEPT ![r].at = to]

Tick ==
  /\ time < MaxTime
  /\ \A r \in Requests : InFlight(r) => time - req[r].now < Patience
  /\ time' = time + 1
  /\ UNCHANGED <<savedAt, grants, seen, seenPuts, req, sweep, forgetting, revoked, before>>

-----------------------------------------------------------------------------
(* The token endpoint.                                                     *)

Begin(r) ==
  /\ req[r].at = "idle"
  /\ \E c \in {c \in Codes : savedAt[c] # None}, proven \in BOOLEAN :
       req' = [req EXCEPT ![r] = [@ EXCEPT !.at = "looking", !.code = c,
                                           !.proven = proven, !.now = time]]
  /\ before' = [before EXCEPT ![r] = {q \in Requests : req[q].at = "answered"}]
  /\ UNCHANGED <<time, savedAt, grants, seen, seenPuts, sweep, forgetting, revoked>>

LookCode(r) ==
  /\ req[r].at = "looking"
  /\ Go(r, IF req[r].code \in rows THEN "claiming" ELSE "missing")
  /\ UNCHANGED <<time, savedAt, grants, seen, seenPuts, sweep, forgetting, revoked, before>>

(* The row is gone: a marker tells a replay from a stranger.               *)
LookUsed(r) ==
  /\ req[r].at = "missing"
  /\ Go(r, IF used[req[r].code] # None THEN "replaying" ELSE "refused")
  /\ UNCHANGED <<time, savedAt, grants, seen, seenPuts, sweep, forgetting, revoked, before>>

Marker(r) == [by |-> r, now |-> req[r].now]

(* Mutant: a marker is the time alone.                                     *)
WinsByTime(r) ==
  LET held == used[req[r].code] IN held = None \/ held.now = req[r].now

(* createIfAbsent answers with the marker the store holds.                 *)
Wins(r) == used[req[r].code] = None

Claim(r) ==
  /\ req[r].at = "claiming"
  /\ IF Wins(r)
     THEN used' = [used EXCEPT ![req[r].code] = Marker(r)] /\ Go(r, "won")
     ELSE Go(r, "replaying") /\ UNCHANGED used
  /\ UNCHANGED <<time, savedAt, rows, issued, creds, seen, seenPuts, sweep, forgetting,
                 revoked, before>>

(* The code is spent whatever the checks that follow say of it.            *)
SpendCode(r) ==
  /\ req[r].at = "won"
  /\ rows' = rows \ {req[r].code}
  /\ Go(r, IF req[r].now < savedAt[req[r].code] + TTL /\ req[r].proven
           THEN "issuing" ELSE "refused")
  /\ UNCHANGED <<time, savedAt, used, issued, creds, seen, seenPuts, sweep, forgetting,
                 revoked, before>>

IssueCredential(r) ==
  /\ req[r].at = "issuing"
  /\ creds' = creds \cup {r}
  /\ Go(r, "recording")
  /\ UNCHANGED <<time, savedAt, rows, used, issued, seen, seenPuts, sweep, forgetting,
                 revoked, before>>

RecordIssue(r) ==
  /\ req[r].at = "recording"
  /\ issued' = [issued EXCEPT ![req[r].code] = r]
  /\ Go(r, "answered")
  /\ UNCHANGED <<time, savedAt, rows, used, creds, seen, seenPuts, sweep, forgetting,
                 revoked, before>>

(* replay: what the first exchange got is named to whoever proves to hold  *)
(* the whole grant.                                                        *)
Replay(r) ==
  /\ req[r].at = "replaying"
  /\ LET first == issued[req[r].code]
     IN IF first # None /\ req[r].proven
        THEN req' = [req EXCEPT ![r].at = "revoking", ![r].target = first]
        ELSE Go(r, "replayed")
  /\ UNCHANGED <<time, savedAt, grants, seen, seenPuts, sweep, forgetting, revoked, before>>

(* The request fails, or its process dies, between two calls.              *)
Die(r) ==
  /\ InFlight(r)
  /\ Go(r, "died")
  /\ UNCHANGED <<time, savedAt, grants, seen, seenPuts, sweep, forgetting, revoked, before>>

-----------------------------------------------------------------------------
(* Revocation, and the seen key.                                           *)

Remove(q) == creds' = creds \ {q} /\ revoked' = revoked \cup {q}

(* A credential that is gone already has nothing to remove.                *)
LookCredential(r) ==
  /\ req[r].at = "revoking"
  /\ Go(r, IF req[r].target \in creds THEN "removing" ELSE "replayed")
  /\ UNCHANGED <<time, savedAt, grants, seen, seenPuts, sweep, forgetting, revoked, before>>

RevokeReplayed(r) ==
  /\ req[r].at = "removing"
  /\ Remove(req[r].target)
  /\ Go(r, "forgetting")
  /\ UNCHANGED <<time, savedAt, rows, used, issued, seen, seenPuts, sweep, forgetting, before>>

ForgetReplayed(r) ==
  /\ req[r].at = "forgetting"
  /\ seen' = seen \ {req[r].target}
  /\ Go(r, "replayed")
  /\ UNCHANGED <<time, savedAt, grants, seenPuts, sweep, forgetting, revoked, before>>

(* The site gives its credential back, or the owner takes it in a console. *)
Revoke(q) ==
  /\ req[q].at = "answered" /\ q \in creds
  /\ Remove(q)
  /\ forgetting' = forgetting \cup {q}
  /\ UNCHANGED <<time, savedAt, rows, used, issued, seen, seenPuts, req, sweep, before>>

Forget(q) ==
  /\ q \in forgetting
  /\ forgetting' = forgetting \ {q}
  /\ seen' = seen \ {q}
  /\ UNCHANGED <<time, savedAt, grants, seenPuts, req, sweep, revoked, before>>

(* A request is served with the credential; nobody waits for the write.    *)
Serve(q) ==
  /\ req[q].at = "answered" /\ q \in creds
  /\ seenPuts' = seenPuts \cup {q}
  /\ UNCHANGED <<time, savedAt, grants, seen, req, sweep, forgetting, revoked, before>>

(* Mutant: the time of last use is kept in the credential's record.        *)
LandSeenInRecord(q) ==
  /\ q \in seenPuts
  /\ seenPuts' = seenPuts \ {q}
  /\ creds' = creds \cup {q}
  /\ UNCHANGED <<time, savedAt, rows, used, issued, seen, req, sweep, forgetting, revoked,
                 before>>

LandSeen(q) ==
  /\ q \in seenPuts
  /\ seenPuts' = seenPuts \ {q}
  /\ seen' = seen \cup {q}
  /\ UNCHANGED <<time, savedAt, grants, req, sweep, forgetting, revoked, before>>

-----------------------------------------------------------------------------
(* Saving a code, and the sweep it may start.                              *)

SweepDue(p) == sweep[p].last = None \/ time - sweep[p].last >= SweepEvery

(* A console has one sweep under way at most: it takes less than           *)
(* SweepEvery.                                                             *)
SaveCode(p, c) ==
  /\ savedAt[c] = None
  /\ SweepDue(p) => sweep[p].at = "idle"
  /\ savedAt' = [savedAt EXCEPT ![c] = time]
  /\ rows' = rows \cup {c}
  /\ sweep' = IF SweepDue(p)
              THEN [sweep EXCEPT ![p] = [@ EXCEPT !.at = "begun", !.now = time, !.last = time]]
              ELSE sweep
  /\ UNCHANGED <<time, used, issued, creds, seen, seenPuts, req, forgetting, revoked, before>>

List(p, phase, todo, doomed) ==
  sweep' = [sweep EXCEPT ![p] = [@ EXCEPT !.at = phase, !.todo = todo, !.doomed = doomed]]

Expired(now) == {c \in rows : savedAt[c] + TTL <= now}
Spent(now) == {c \in Codes : used[c] # None /\ used[c].now + TTL <= now}

(* Each kind of key is listed when the one before it is done with.         *)
SweepList(p) ==
  /\ sweep[p].todo = {} /\ sweep[p].doomed = {}
  /\ \/ sweep[p].at = "begun" /\ List(p, "codes", {}, Expired(sweep[p].now))
     \/ sweep[p].at = "codes" /\ List(p, "used", {}, Spent(sweep[p].now))
     \/ sweep[p].at = "used" /\ List(p, "issued", {c \in Codes : issued[c] # None}, {})
     \/ sweep[p].at = "issued" /\ List(p, "seen", seen, {})
     \/ sweep[p].at = "seen" /\ List(p, "idle", {}, {})
  /\ UNCHANGED <<time, savedAt, grants, seen, seenPuts, req, forgetting, revoked, before>>

(* Mutant: the record of an exchange goes with the code's row.             *)
WidowedByRow(phase, k) ==
  IF phase = "issued" THEN k \notin rows ELSE k \notin creds

(* A record of an exchange needs its marker, a seen key its credential.    *)
Widowed(phase, k) == IF phase = "issued" THEN used[k] = None ELSE k \notin creds

SweepCheck(p) ==
  /\ sweep[p].doomed = {}
  /\ \E k \in sweep[p].todo :
       List(p, sweep[p].at, sweep[p].todo \ {k},
            IF Widowed(sweep[p].at, k) THEN {k} ELSE {})
  /\ UNCHANGED <<time, savedAt, grants, seen, seenPuts, req, forgetting, revoked, before>>

SweepDelete(p) ==
  /\ \E k \in sweep[p].doomed :
       /\ sweep' = [sweep EXCEPT ![p].doomed = @ \ {k}]
       /\ LET gone(phase) == IF sweep[p].at = phase THEN {k} ELSE {}
          IN /\ rows' = rows \ gone("codes")
             /\ used' = [c \in Codes |-> IF c \in gone("used") THEN None ELSE used[c]]
             /\ issued' = [c \in Codes |-> IF c \in gone("issued") THEN None ELSE issued[c]]
             /\ seen' = seen \ gone("seen")
  /\ UNCHANGED <<time, savedAt, creds, seenPuts, req, forgetting, revoked, before>>

(* A sweep that fails is dropped where it is.                              *)
SweepFails(p) ==
  /\ sweep[p].at # "idle"
  /\ List(p, "idle", {}, {})
  /\ UNCHANGED <<time, savedAt, grants, seen, seenPuts, req, forgetting, revoked, before>>

-----------------------------------------------------------------------------

Token(r) ==
  Begin(r) \/ LookCode(r) \/ LookUsed(r) \/ Claim(r) \/ SpendCode(r) \/ IssueCredential(r)
    \/ RecordIssue(r) \/ Replay(r) \/ LookCredential(r) \/ RevokeReplayed(r) \/ ForgetReplayed(r)
    \/ Die(r)

Next ==
  \/ Tick
  \/ \E r \in Requests : Token(r)
  \/ \E q \in Requests : Revoke(q) \/ Forget(q) \/ Serve(q) \/ LandSeen(q)
  \/ \E p \in Consoles, c \in Codes : SaveCode(p, c)
  \/ \E p \in Consoles : SweepList(p) \/ SweepCheck(p) \/ SweepDelete(p) \/ SweepFails(p)

Spec == Init /\ [][Next]_vars

-----------------------------------------------------------------------------
(* Properties.                                                             *)

Times == 0..MaxTime

(* Every key is in its range, and no marker is dated after its claim       *)
(* (redeemCode).                                                           *)
TypeOK ==
  /\ time \in Times
  /\ savedAt \in [Codes -> Times \cup {None}]
  /\ rows \subseteq {c \in Codes : savedAt[c] # None}
  /\ used \in [Codes -> [by : Requests, now : 0..time] \cup {None}]
  /\ issued \in [Codes -> Requests \cup {None}]
  /\ creds \subseteq Requests /\ seen \subseteq Requests /\ seenPuts \subseteq Requests
  /\ forgetting \subseteq Requests /\ revoked \subseteq Requests
  /\ \A r \in Requests : req[r].now \in Times /\ req[r].target \in Requests \cup {None}
  /\ \A p \in Consoles : sweep[p].now \in Times

Issued == {r \in Requests : r \in creds \cup revoked}

(* "Single use is enforced with the store's one atomic primitive" (the     *)
(* header of grants.ts): a code is exchanged for one credential at most,   *)
(* however requests race each other and the sweep that forgets markers,    *)
(* as long as two requests in a row end before a marker is swept.          *)
OneCredentialPerCode ==
  \A q, r \in Issued : req[q].code = req[r].code => q = r

(* A credential handed out before a proven replay began is dead once the   *)
(* replay is refused, while the marker stands (routes.ts, token endpoint): *)
(* the sweep never takes the record of an exchange before its marker.      *)
ReplayedIsRevoked ==
  \A r \in Requests :
    req[r].at = "replayed" /\ req[r].proven /\ used[req[r].code] # None
      => \A q \in before[r] : req[q].code = req[r].code => q \notin creds

(* A revoked credential never comes back, whatever write was on its way    *)
(* when it was revoked (seenKey, grants.ts).                               *)
RevokedStaysRevoked == revoked \cap creds = {}

=============================================================================
