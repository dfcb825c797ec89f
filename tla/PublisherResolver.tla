-------------------------- MODULE PublisherResolver --------------------------
(***************************************************************************)
(* The gate of a platform that hosts many sites asks the platform which    *)
(* publisher a host is (tollgate/src/httpPublisherResolver.ts), shares one *)
(* fetch among the requests for a host, keeps a bounded number of records  *)
(* for a time, and goes on with the last one while the platform fails.     *)
(*                                                                         *)
(* What resolve and refresh do between two awaits is one step.  A record   *)
(* is its number among the records the platform has published for the host,*)
(* a withdrawal (404) being one of them: the resolver treats a publisher   *)
(* and its absence alike.  Number 0 stands for no record.                  *)
(***************************************************************************)
EXTENDS Naturals, Sequences, Functions, FiniteSets

CONSTANTS Requests,     \* requests resolved at once
          Hosts,
          Ttl,          \* ttlMs
          FailureTtl,   \* FAILURE_TTL_MS
          FetchTime,    \* timeoutMs
          MaxEntries,
          MaxTime,      \* bound on the clock
          MaxRecords    \* bound on the records published for a host

ASSUME ResolverAssumption ==
  /\ {Ttl, FailureTtl, FetchTime, MaxTime, MaxRecords} \subseteq Nat
  /\ MaxEntries \in Nat \ {0}

VARIABLES
  time,
  published, \* host -> when each of its records was published
  cache,     \* host -> the record remembered, and until when
  recent,    \* the hosts of the cache, least recently used first
  inflight,  \* request that began it -> the fetch that runs
  req,       \* what each request waits for or was told
  newest,    \* history: the newest record of each host the gate has had
  failed     \* history: whether and when a fetch of each host last failed

history == <<newest, failed>>
vars == <<time, published, cache, recent, inflight, req, history>>

Never == [yes |-> FALSE, at |-> 0]
Idle(h) == [at |-> "idle", host |-> h, on |-> {}, record |-> 0]

Init ==
  /\ time = 0
  /\ published = [h \in Hosts |-> <<0>>]
  /\ cache = << >> /\ recent = << >> /\ inflight = << >>
  /\ req \in [Requests -> {Idle(h) : h \in Hosts}]
  /\ newest = [h \in Hosts |-> 0]
  /\ failed = [h \in Hosts |-> Never]

-----------------------------------------------------------------------------
(* The cache.                                                              *)

Fresh(h) == h \in DOMAIN cache /\ cache[h].expires > time

Recency(h) == Append(SelectSeq(recent, LAMBDA x : x # h), h)

\* remember: the host becomes the last to be evicted, and the first goes when
\* there are too many
Evicted(h) == IF Len(Recency(h)) > MaxEntries THEN {Head(Recency(h))} ELSE {}

Remember(h, entry) ==
  /\ cache' = [x \in (DOMAIN cache \cup {h}) \ Evicted(h) |-> IF x = h THEN entry ELSE cache[x]]
  /\ recent' = IF Evicted(h) = {} THEN Recency(h) ELSE Tail(Recency(h))

Entry(record, age) == [record |-> record, expires |-> time + age]

-----------------------------------------------------------------------------
(* resolve.                                                                *)

Told(r, record) == [req[r] EXCEPT !.at = "told", !.on = {}, !.record = record]

\* Mutant: an entry that is used lives on.
RememberAnew(h) == Remember(h, Entry(cache[h].record, Ttl))

\* an entry that is used is the last to be evicted, and expires no later
RememberUsed(h) == Remember(h, cache[h])

Hit(r) ==
  LET h == req[r].host IN
  /\ req[r].at = "idle" /\ Fresh(h)
  /\ RememberUsed(h)
  /\ req' = [req EXCEPT ![r] = Told(r, cache[h].record)]
  /\ UNCHANGED <<time, published, inflight, history>>

\* Mutant: every request fetches for itself.
PendingNone(h) == {}

\* the fetch of the host that runs
Pending(h) == {q \in DOMAIN inflight : inflight[q].host = h}

Join(r) ==
  LET h == req[r].host IN
  /\ req[r].at = "idle" /\ ~Fresh(h)
  /\ \E q \in Pending(h) : req' = [req EXCEPT ![r].at = "waiting", ![r].on = {q}]
  /\ UNCHANGED <<time, published, cache, recent, inflight, history>>

\* refresh begins, with the entry that has expired in hand
Fetch(r) ==
  LET h == req[r].host IN
  /\ req[r].at = "idle" /\ ~Fresh(h) /\ Pending(h) = {}
  /\ inflight' = [q \in DOMAIN inflight \cup {r} |-> IF q \in DOMAIN inflight THEN inflight[q] ELSE
                   [host |-> h, sent |-> time, got |-> 0,
                    cached |-> IF h \in DOMAIN cache THEN {cache[h].record} ELSE {}]]
  /\ req' = [req EXCEPT ![r].at = "waiting", ![r].on = {r}]
  /\ UNCHANGED <<time, published, cache, recent, history>>

-----------------------------------------------------------------------------
(* fetchRecord and the rest of refresh.                                    *)

\* the platform reads the record it will answer with
Serve(q) ==
  /\ q \in DOMAIN inflight /\ inflight[q].got = 0
  /\ inflight' = [inflight EXCEPT ![q].got = Len(published[inflight[q].host])]
  /\ UNCHANGED <<time, published, cache, recent, req, history>>

\* the fetch is over, and every request that waits for it has the record
Finish(q, record) ==
  /\ inflight' = Restrict(inflight, DOMAIN inflight \ {q})
  /\ req' = [r \in Requests |-> IF q \in req[r].on THEN Told(r, record) ELSE req[r]]
  /\ UNCHANGED <<time, published>>

\* found or absent
Land(q) ==
  /\ q \in DOMAIN inflight
  /\ LET h == inflight[q].host record == inflight[q].got IN
     /\ record # 0
     /\ Remember(h, Entry(record, Ttl))
     /\ Finish(q, record)
     /\ newest' = [newest EXCEPT ![h] = IF record > @ THEN record ELSE @]
  /\ UNCHANGED failed

\* no answer in time, an error, or a body that is not this host's record: the entry
\* in hand is kept for another while, evicted since or not
Fail(q) ==
  /\ q \in DOMAIN inflight
  /\ LET h == inflight[q].host IN
     /\ \/ \E record \in inflight[q].cached :
             Remember(h, Entry(record, Ttl)) /\ Finish(q, record)
        \/ /\ inflight[q].cached = {}
           /\ Remember(h, Entry(0, IF Ttl < FailureTtl THEN Ttl ELSE FailureTtl))
           /\ Finish(q, 0)
     /\ failed' = [failed EXCEPT ![h] = [yes |-> TRUE, at |-> time]]
  /\ UNCHANGED newest

-----------------------------------------------------------------------------

\* the platform changes or withdraws what a host is
Publish(h) ==
  /\ Len(published[h]) < MaxRecords
  /\ published' = [published EXCEPT ![h] = Append(@, time)]
  /\ UNCHANGED <<time, cache, recent, inflight, req, history>>

\* the request goes on; another may come, for any host
Leave(r) ==
  /\ req[r].at = "told"
  /\ \E h \in Hosts : req' = [req EXCEPT ![r] = Idle(h)]
  /\ UNCHANGED <<time, published, cache, recent, inflight, history>>

\* no fetch outlasts its timeout
Tick ==
  /\ time < MaxTime
  /\ \A q \in DOMAIN inflight : time < inflight[q].sent + FetchTime
  /\ time' = time + 1
  /\ UNCHANGED <<published, cache, recent, inflight, req, history>>

Next ==
  \/ \E r \in Requests : Hit(r) \/ Join(r) \/ Fetch(r) \/ Serve(r) \/ Land(r) \/ Fail(r) \/ Leave(r)
  \/ \E h \in Hosts : Publish(h)
  \/ Tick

Spec == Init /\ [][Next]_vars
-----------------------------------------------------------------------------
(* Properties.                                                             *)

Flight == [host : Hosts, sent : Nat, got : Nat, cached : SUBSET Nat]

TypeOK ==
  /\ time \in Nat
  /\ published \in [Hosts -> Seq(Nat)]
  /\ DOMAIN cache \subseteq Hosts
  /\ \A h \in DOMAIN cache : cache[h] \in [record : Nat, expires : Nat]
  /\ DOMAIN inflight \subseteq Requests
  /\ \A q \in DOMAIN inflight : inflight[q] \in Flight
  /\ req \in [Requests -> [at : {"idle", "waiting", "told"}, host : Hosts,
                           on : SUBSET Requests, record : Nat]]
  /\ newest \in [Hosts -> Nat]
  /\ failed \in [Hosts -> [yes : BOOLEAN, at : Nat]]

\* What the gate takes a host for never goes back: no request is told an older
\* record than the gate has had, though fetches land late, fail or find their
\* entry evicted; and none is told of no record while the gate remembers one ("a
\* platform outage never changes what the gate does for a site it already knew").
Remembers(h) == h \in DOMAIN cache /\ cache[h].record # 0

AnswersNeverGoBack ==
  [][\A r \in Requests : req'[r].at = "told" /\ req[r].at # "told" =>
       LET h == req[r].host record == req'[r].record IN
       \/ record >= newest[h]
       \/ record = 0 /\ ~Remembers(h)]_vars

\* A record in use that the platform replaced longer ago than a lifetime and a
\* fetch, or no record at all, is the doing of a fetch that failed within a lifetime:
\* a busy host's record does not live on because it is used, and an outage is not
\* remembered for longer than the records are.
OutdatedOnlyByFailure ==
  \A h \in DOMAIN cache : Fresh(h) =>
    LET record == cache[h].record IN
    \/ record = Len(published[h])
    \/ record # 0 /\ time <= published[h][record + 1] + Ttl + FetchTime
    \/ failed[h].yes /\ time <= failed[h].at + Ttl
=============================================================================
