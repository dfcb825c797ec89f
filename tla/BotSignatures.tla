---------------------------- MODULE BotSignatures ----------------------------
(***************************************************************************)
(* Web Bot Auth at the gate and at an in-app site: a signed request is     *)
(* checked against its operator's key directory, which is fetched, shared  *)
(* by the requests that wait for it, and cached (enforce/src/botAuth.ts).  *)
(*                                                                         *)
(* What a handler does between two awaits is one step.  The cache is the   *)
(* sequence of its entries, least recently used first; a directory that    *)
(* could not be used is an entry without keys.  Operators add and remove   *)
(* keys at any time; a fetch answers with the keys of the moment its       *)
(* request is served, or with nothing usable.                              *)
(***************************************************************************)
EXTENDS Naturals, Sequences, Functions

CONSTANTS Requests,     \* requests checked at once
          SignedBy(_),  \* the directory and the key a request names
          Directories,  \* operators' directories
          Keys,         \* their keys
          FirstKeys,    \* which keys the directories may hold at first
          PosTtl, NegTtl, \* how long keys, or their absence, are cached
          FetchTime,    \* resolving a name and fetching take no longer
          Cap,          \* entries of the cache
          MaxTime,      \* bound on the clock
          MaxRotations  \* bound on the changes of keys

ASSUME BotAssumption ==
  /\ {PosTtl, NegTtl, FetchTime, MaxTime, MaxRotations} \subseteq Nat
  /\ Cap \in Nat \ {0}
  /\ FirstKeys \subseteq [Directories -> SUBSET Keys]
  /\ \A r \in Requests : SignedBy(r) \in [dir : Directories, key : Keys]

VARIABLES
  time,
  published, \* directory -> its operator's keys
  changed,   \* history: when the operator last added or removed each key
  rotations, \* changes so far
  failed,    \* history: when each directory last came back unusable
  cache,     \* entries, least recently used first
  inflight,  \* directory -> the fetch that runs: sent, and keys once served
  req        \* what each request waits for or was told

operator == <<published, changed, rotations>>
botVars == <<time, operator, failed, cache, inflight, req>>

NoRequest == [at |-> "idle", outcome |-> "none", arrived |-> 0]
Dir(r) == SignedBy(r).dir
Key(r) == SignedBy(r).key

BotInit ==
  /\ time = 0 /\ rotations = 0
  /\ published \in FirstKeys
  /\ changed = [d \in Directories |-> [k \in Keys |-> 0]]
  /\ failed = [d \in Directories |-> 0]
  /\ cache = << >> /\ inflight = << >>
  /\ req = [r \in Requests |-> NoRequest]

-----------------------------------------------------------------------------
(* DirectoryCache.                                                         *)

\* Mutant: one lifetime for keys and for their absence.
FreshOneTtl(entry) == time - entry.at <= PosTtl

Fresh(entry) == time - entry.at <= IF entry.keys = {} THEN NegTtl ELSE PosTtl

\* where the directory's entry is
Places(d) == {i \in DOMAIN cache : cache[i].dir = d}

\* delete
Without(d) ==
  IF Places(d) = {} THEN cache
  ELSE LET i == CHOOSE i \in Places(d) : TRUE
       IN SubSeq(cache, 1, i - 1) \o SubSeq(cache, i + 1, Len(cache))

\* get: the entry, while it is fresh
Hits(d) == {entry \in Range(cache) : entry.dir = d /\ Fresh(entry)}

\* Mutant: an entry that is used lives on.
UsedAnew(entry) == Append(Without(entry.dir), [entry EXCEPT !.at = time])

\* an entry that is used becomes the last to be evicted, and no fresher
Used(entry) == Append(Without(entry.dir), entry)

\* set: the oldest entry goes when there are too many
Put(d, keys) ==
  LET grown == Append(Without(d), [dir |-> d, keys |-> keys, at |-> time])
  IN  IF Len(grown) > Cap THEN Tail(grown) ELSE grown

-----------------------------------------------------------------------------
(* verifyBotAuth and loadDirectory.                                        *)

Told(outcome) == [NoRequest EXCEPT !.at = "told", !.outcome = outcome]

\* what the keys a request waited for make of it, its signature being genuine or
\* not; there is no second refetch
Outcome(r, keys, genuine) ==
  IF keys = {} THEN "unverified"
  ELSE IF Key(r) \notin keys THEN "unknown"
  ELSE IF genuine THEN "verified" ELSE "invalid"

\* the fetch that runs is shared, or one is started
Await(r) ==
  /\ req' = [req EXCEPT ![r].at = "waiting", ![r].arrived = time]
  /\ inflight' = [d \in DOMAIN inflight \cup {Dir(r)} |->
                    IF d \in DOMAIN inflight THEN inflight[d]
                    ELSE [sent |-> time, served |-> FALSE, keys |-> {}]]

\* Mutant: a key the cached directory lacks is unknown at once.
MissTold(r) == req' = [req EXCEPT ![r] = Told("unknown")] /\ UNCHANGED inflight

\* rotation grace: the cached directory may predate the key; a refetch is awaited
Miss(r) == Await(r)

\* unsigned, signed for another protocol, malformed, out of its window or over
\* the wrong components: told before any directory is asked
ArrivePlain(r) ==
  /\ req[r].at = "idle"
  /\ \E outcome \in {"absent", "invalid"} : req' = [req EXCEPT ![r] = Told(outcome)]
  /\ UNCHANGED <<time, operator, failed, cache, inflight>>

ArriveSigned(r) ==
  /\ req[r].at = "idle"
  /\ \/ /\ Hits(Dir(r)) = {}
        /\ cache' = Without(Dir(r))
        /\ Await(r)
     \/ \E entry \in Hits(Dir(r)), genuine \in BOOLEAN :
          /\ cache' = Used(entry)
          /\ IF entry.keys # {} /\ Key(r) \notin entry.keys THEN Miss(r)
             ELSE req' = [req EXCEPT ![r] = Told(Outcome(r, entry.keys, genuine))] /\ UNCHANGED inflight
  /\ UNCHANGED <<time, operator, failed>>

\* the caller has its answer; another request may come
Leave(r) ==
  /\ req[r].at = "told"
  /\ req' = [req EXCEPT ![r] = NoRequest]
  /\ UNCHANGED <<time, operator, failed, cache, inflight>>

-----------------------------------------------------------------------------
(* fetchDirectory.                                                         *)

\* the operator's server answers with its keys
ServeKeys(d) ==
  /\ d \in DOMAIN inflight /\ ~inflight[d].served
  /\ inflight' = [inflight EXCEPT ![d].served = TRUE, ![d].keys = published[d]]
  /\ UNCHANGED <<time, operator, failed, cache, req>>

Waiters(d) == {r \in Requests : req[r].at = "waiting" /\ Dir(r) = d}

\* the fetch ends with these keys: they are cached, it runs no longer, and every
\* request that waits goes on
Finish(d, keys) ==
  /\ cache' = Put(d, keys)
  /\ inflight' = Restrict(inflight, DOMAIN inflight \ {d})
  /\ failed' = IF keys = {} THEN [failed EXCEPT ![d] = time] ELSE failed
  /\ \E genuine \in SUBSET Waiters(d) :
       req' = [r \in Requests |-> IF r \in Waiters(d)
                                  THEN Told(Outcome(r, keys, r \in genuine)) ELSE req[r]]
  /\ UNCHANGED <<time, operator>>

\* Mutant: only one of the requests that wait goes on.
LandForOne(d) ==
  /\ d \in DOMAIN inflight /\ inflight[d].served
  /\ cache' = Put(d, inflight[d].keys)
  /\ inflight' = Restrict(inflight, DOMAIN inflight \ {d})
  /\ failed' = IF inflight[d].keys = {} THEN [failed EXCEPT ![d] = time] ELSE failed
  /\ \E r \in Waiters(d) :
       req' = [req EXCEPT ![r] = Told(Outcome(r, inflight[d].keys, TRUE))]
  /\ UNCHANGED <<time, operator>>

\* what was served is a directory; one without a usable key is no directory
Land(d) == d \in DOMAIN inflight /\ inflight[d].served /\ Finish(d, inflight[d].keys)

\* a name that resolves inwards, no answer in time, a redirect, a wrong type, too
\* many bytes or a signature of its own that does not hold
Fail(d) == d \in DOMAIN inflight /\ Finish(d, {})

-----------------------------------------------------------------------------

\* an operator adds a key or removes one
Rotate ==
  /\ rotations < MaxRotations
  /\ \E d \in Directories, k \in Keys :
       /\ published' = [published EXCEPT ![d] = IF k \in @ THEN @ \ {k} ELSE @ \cup {k}]
       /\ changed' = [changed EXCEPT ![d][k] = time]
  /\ rotations' = rotations + 1
  /\ UNCHANGED <<time, failed, cache, inflight, req>>

\* no fetch outlasts its deadline
Tick ==
  /\ time < MaxTime
  /\ \A d \in DOMAIN inflight : time < inflight[d].sent + FetchTime
  /\ time' = time + 1
  /\ UNCHANGED <<operator, failed, cache, inflight, req>>

BotNext ==
  \/ \E r \in Requests : ArrivePlain(r) \/ ArriveSigned(r) \/ Leave(r)
  \/ \E d \in Directories : ServeKeys(d) \/ Land(d) \/ Fail(d)
  \/ Rotate \/ Tick

\* a fetch ends: its deadline aborts it if nothing else does
BotFairness == \A d \in Directories : WF_botVars(Land(d) \/ Fail(d))

BotSpec == BotInit /\ [][BotNext]_botVars
FairBotSpec == BotSpec /\ BotFairness
-----------------------------------------------------------------------------
(* Properties.                                                             *)

\* the request is told this in this step
Tells(r, outcome) ==
  /\ req[r].at # "told" /\ req'[r].at = "told" /\ req'[r].outcome = outcome

\* when the request that is told this arrived
Arrived(r) == IF req[r].at = "waiting" THEN req[r].arrived ELSE time

\* A key its operator removed is trusted no longer than the cache and a fetch
\* last, however often the entry is used meanwhile (DEFAULT_POS_TTL_MS).
RemovedKeyForgotten ==
  [][\A r \in Requests : Tells(r, "verified") =>
       \/ Key(r) \in published[Dir(r)]
       \/ time - changed[Dir(r)][Key(r)] <= PosTtl + FetchTime]_botVars

\* A key that was in its directory before any fetch now running was sent is never
\* called unknown, which would be recorded as a masquerade ("Rotation grace: the
\* cached directory may predate a new key").
KnownKeyIsKnown ==
  [][\A r \in Requests : Tells(r, "unknown") =>
       \/ Key(r) \notin published[Dir(r)]
       \/ changed[Dir(r)][Key(r)] + FetchTime >= Arrived(r)]_botVars

\* A signer is treated as unsigned only while its directory came back unusable a
\* short time ago, though many requests keep asking (DEFAULT_NEG_TTL_MS).
OutageIsForgotten ==
  [][\A r \in Requests : Tells(r, "unverified") => time - failed'[Dir(r)] <= NegTtl]_botVars

\* Every request that waits for a directory is told, though it only joined a fetch
\* that another one started.
EveryRequestTold == \A r \in Requests : req[r].at = "waiting" ~> req[r].at = "told"
=============================================================================
