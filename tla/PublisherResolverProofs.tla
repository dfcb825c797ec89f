----------------------- MODULE PublisherResolverProofs -----------------------
(***************************************************************************)
(* For any hosts, requests, lifetimes and size of the cache: what the gate *)
(* takes a host for never goes back, and an outdated record in use is the  *)
(* doing of a recent failure.                                              *)
(***************************************************************************)
EXTENDS PublisherResolver, TLAPS

(* The gate has had no record that was not published.                      *)
HadPublished ==
  \A h \in Hosts : Len(published[h]) > 0 /\ newest[h] <= Len(published[h])

(* A host's entry is the newest record the gate has had, or none.          *)
EntryNewest == \A h \in DOMAIN cache : cache[h].record \in {0, newest[h]}

(* It expires within a lifetime, and soon after it was replaced unless a   *)
(* failure has kept it.                                                    *)
EntryAge(h) ==
  LET entry == cache[h] IN
  \/ /\ entry.record # 0
     /\ entry.record < Len(published[h]) =>
          entry.expires <= published[h][entry.record + 1] + Ttl + FetchTime
  \/ failed[h].yes /\ entry.expires <= failed[h].at + Ttl

EntryAged == \A h \in DOMAIN cache : cache[h].expires <= time + Ttl /\ EntryAge(h)

(* A fetch holds the newest record the gate has had, or what it had none   *)
(* of; its answer is no older, and was not replaced before it was sent.    *)
FlightHolds(q) ==
  LET f == inflight[q] h == inflight[q].host IN
  /\ f.cached \subseteq {0, newest[h]}
  /\ Remembers(h) => f.cached = {newest[h]}

FlightBrings(q) ==
  LET f == inflight[q] h == inflight[q].host IN
  /\ f.sent <= time /\ time <= f.sent + FetchTime
  /\ f.got <= Len(published[h])
  /\ f.got # 0 => f.got >= newest[h]
  /\ f.got # 0 /\ f.got < Len(published[h]) => published[h][f.got + 1] >= f.sent

FlightsTrue == \A q \in DOMAIN inflight : FlightHolds(q) /\ FlightBrings(q)

SingleFlight ==
  \A p, q \in DOMAIN inflight : inflight[p].host = inflight[q].host => p = q

(* Whoever began a fetch waits for it, and so does whoever joined it.      *)
Awaited ==
  /\ \A q \in DOMAIN inflight : q \in req[q].on
  /\ \A r \in Requests : \A q \in req[r].on :
       q \in DOMAIN inflight /\ inflight[q].host = req[r].host /\ req[r].at = "waiting"

IInv ==
  TypeOK /\ HadPublished /\ EntryNewest /\ EntryAged /\ FlightsTrue /\ SingleFlight /\ Awaited

-----------------------------------------------------------------------------
(* When records were published.                                            *)

LEMMA NextElement ==
  ASSUME NEW s \in Seq(Nat), NEW i \in Nat, i < Len(s)
  PROVE  i + 1 \in 1..Len(s) /\ s[i + 1] \in Nat
  <1>1. Len(s) \in Nat /\ i + 1 \in 1..Len(s)
    OBVIOUS
  <1> QED
    BY <1>1

LEMMA AppendKeeps ==
  ASSUME NEW s \in Seq(Nat), NEW x \in Nat
  PROVE  /\ Append(s, x) \in Seq(Nat) /\ Len(s) \in Nat
         /\ Len(Append(s, x)) = Len(s) + 1 /\ Append(s, x)[Len(s) + 1] = x
         /\ \A i \in Nat : i < Len(s) => Append(s, x)[i + 1] = s[i + 1]
  <1>1. /\ Append(s, x) \in Seq(Nat) /\ Len(s) \in Nat
        /\ Len(Append(s, x)) = Len(s) + 1 /\ Append(s, x)[Len(s) + 1] = x
    OBVIOUS
  <1>2. ASSUME NEW i \in Nat, i < Len(s) PROVE Append(s, x)[i + 1] = s[i + 1]
    <2>1. i + 1 \in 1..Len(s)
      BY <1>2, NextElement
    <2> DEFINE j == i + 1
    <2>2. j \in 1..Len(s)
      BY <2>1
    <2> HIDE DEF j
    <2>3. Append(s, x)[j] = s[j]
      BY <2>2
    <2> QED
      BY <2>3 DEF j
  <1> QED
    BY <1>1, <1>2

-----------------------------------------------------------------------------

LEMMA InitInv == Init => IInv
  <1> SUFFICES ASSUME Init PROVE IInv
    OBVIOUS
  <1> USE ResolverAssumption DEF Init
  <1>1. DOMAIN cache = {} /\ DOMAIN inflight = {}
    OBVIOUS
  <1>2. \A r \in Requests : req[r].on = {}
    BY DEF Idle
  <1>3. TypeOK
    <2>1. <<0>> \in Seq(Nat)
      OBVIOUS
    <2>2. req \in [Requests -> [at : {"idle", "waiting", "told"}, host : Hosts,
                                on : SUBSET Requests, record : Nat]]
      BY DEF Idle
    <2>3. failed \in [Hosts -> [yes : BOOLEAN, at : Nat]]
      BY DEF Never
    <2> QED
      BY <1>1, <2>1, <2>2, <2>3 DEF TypeOK
  <1>4. HadPublished
    BY DEF HadPublished
  <1>5. EntryNewest /\ EntryAged /\ FlightsTrue /\ SingleFlight
    BY <1>1 DEF EntryNewest, EntryAged, FlightsTrue, SingleFlight
  <1>6. Awaited
    BY <1>1, <1>2 DEF Awaited
  <1> QED
    BY <1>3, <1>4, <1>5, <1>6 DEF IInv

LEMMA CacheTyped ==
  ASSUME IInv
  PROVE  /\ DOMAIN cache \subseteq Hosts
         /\ \A x \in DOMAIN cache : cache[x] \in [record : Nat, expires : Nat]
  BY DEF IInv, TypeOK

(* What is remembered of a host changes no other host's entry, save that   *)
(* it may take it away.                                                    *)
LEMMA RememberStep ==
  ASSUME NEW h, NEW entry, Remember(h, entry)
  PROVE  \A x \in DOMAIN cache' :
           \/ x = h /\ cache'[x] = entry
           \/ x # h /\ x \in DOMAIN cache /\ cache'[x] = cache[x]
  BY DEF Remember

(* Finish keeps who waits for whom.                                        *)
LEMMA FinishStep ==
  ASSUME IInv, NEW q \in DOMAIN inflight, NEW record \in Nat, Finish(q, record)
  PROVE  /\ DOMAIN inflight' = DOMAIN inflight \ {q}
         /\ \A p \in DOMAIN inflight' : inflight'[p] = inflight[p] /\ inflight[p].host # inflight[q].host
         /\ req' \in [Requests -> [at : {"idle", "waiting", "told"}, host : Hosts,
                                   on : SUBSET Requests, record : Nat]]
         /\ \A r \in Requests : req'[r].at = "told" /\ req[r].at # "told" =>
              req'[r].record = record /\ req'[r].host = inflight[q].host
                /\ req[r].host = inflight[q].host
         /\ Awaited'
  <1>1. DOMAIN inflight' = DOMAIN inflight \ {q}
          /\ \A p \in DOMAIN inflight' : inflight'[p] = inflight[p]
    BY DEF Finish, Restrict
  <1>2. \A p \in DOMAIN inflight' : inflight[p].host # inflight[q].host
    BY <1>1 DEF IInv, SingleFlight
  <1>3. \A r \in Requests : req'[r] = IF q \in req[r].on THEN Told(r, record) ELSE req[r]
    BY DEF Finish
  <1>4. \A r \in Requests : req[r] \in [at : {"idle", "waiting", "told"}, host : Hosts,
                                        on : SUBSET Requests, record : Nat]
    BY DEF IInv, TypeOK
  <1>5. req' \in [Requests -> [at : {"idle", "waiting", "told"}, host : Hosts,
                               on : SUBSET Requests, record : Nat]]
    BY <1>3, <1>4 DEF Finish, Told
  <1>6. \A r \in Requests : q \in req[r].on => req[r].host = inflight[q].host
    BY DEF IInv, Awaited
  <1>7. \A r \in Requests : req'[r].at = "told" /\ req[r].at # "told" =>
          req'[r].record = record /\ req'[r].host = inflight[q].host
            /\ req[r].host = inflight[q].host
    BY <1>3, <1>4, <1>6 DEF Told
  <1>8. Awaited'
    <2>1. ASSUME NEW p \in DOMAIN inflight' PROVE p \in req'[p].on
      <3>1. p \in DOMAIN inflight /\ p # q /\ p \in Requests /\ p \in req[p].on
        BY <1>1 DEF IInv, Awaited, TypeOK
      <3>2. q \notin req[p].on
        BY <3>1, <1>2, <1>1 DEF IInv, Awaited
      <3> QED
        BY <3>1, <3>2, <1>3
    <2>2. ASSUME NEW r \in Requests, NEW p \in req'[r].on
          PROVE  p \in DOMAIN inflight' /\ inflight'[p].host = req'[r].host /\ req'[r].at = "waiting"
      <3>1. q \notin req[r].on /\ req'[r] = req[r]
        BY <1>3, <1>4, <2>2 DEF Told
      <3>2. p \in DOMAIN inflight /\ inflight[p].host = req[r].host /\ req[r].at = "waiting" /\ p # q
        BY <3>1, <2>2 DEF IInv, Awaited
      <3> QED
        BY <3>1, <3>2, <1>1
    <2> QED
      BY <2>1, <2>2 DEF Awaited
  <1> QED
    BY <1>1, <1>2, <1>5, <1>7, <1>8

LEMMA LandInv ==
  ASSUME IInv, NEW q \in Requests, Land(q)
  PROVE  IInv'
  <1> DEFINE h == inflight[q].host
             record == inflight[q].got
             entry == Entry(record, Ttl)
  <1> USE ResolverAssumption
  <1>1. /\ q \in DOMAIN inflight /\ record # 0
        /\ Remember(h, entry) /\ Finish(q, record)
        /\ newest' = [newest EXCEPT ![h] = IF record > @ THEN record ELSE @]
        /\ UNCHANGED <<failed, time, published>>
    BY DEF Land, Finish
  <1>2. h \in Hosts /\ record \in Nat /\ inflight[q].sent \in Nat /\ time \in Nat
    BY <1>1 DEF IInv, TypeOK, Flight
  <1>3. /\ inflight[q].sent <= time /\ time <= inflight[q].sent + FetchTime
        /\ record <= Len(published[h]) /\ record >= newest[h]
        /\ record < Len(published[h]) => published[h][record + 1] >= inflight[q].sent
    BY <1>1 DEF IInv, FlightsTrue, FlightBrings
  <1>4. newest'[h] = record /\ \A x \in Hosts : x # h => newest'[x] = newest[x]
    BY <1>1, <1>2, <1>3 DEF IInv, TypeOK
  <1>5. \A x \in DOMAIN cache' :
          \/ x = h /\ cache'[x] = entry
          \/ x # h /\ x \in DOMAIN cache /\ cache'[x] = cache[x]
    BY <1>1, RememberStep
  <1>6. /\ DOMAIN inflight' = DOMAIN inflight \ {q}
        /\ \A p \in DOMAIN inflight' : inflight'[p] = inflight[p] /\ inflight[p].host # h
        /\ req' \in [Requests -> [at : {"idle", "waiting", "told"}, host : Hosts,
                                  on : SUBSET Requests, record : Nat]]
        /\ Awaited'
    BY <1>1, <1>2, FinishStep
  <1>7. entry = [record |-> record, expires |-> time + Ttl]
    BY DEF Entry
  <1> HIDE DEF h, record, entry
  <1>8. TypeOK'
    <2>1. DOMAIN cache' \subseteq Hosts
            /\ \A x \in DOMAIN cache' : cache'[x] \in [record : Nat, expires : Nat]
      <3>1. entry \in [record : Nat, expires : Nat]
        BY <1>2, <1>7
      <3> QED
        BY <1>2, <1>5, <3>1, CacheTyped
    <2>2. DOMAIN inflight' \subseteq Requests
            /\ \A p \in DOMAIN inflight' : inflight'[p] \in Flight
      BY <1>6 DEF IInv, TypeOK
    <2>3. newest' \in [Hosts -> Nat]
      BY <1>1, <1>2 DEF IInv, TypeOK
    <2> QED
      BY <1>1, <1>6, <2>1, <2>2, <2>3 DEF IInv, TypeOK
  <1>9. HadPublished'
    BY <1>1, <1>3, <1>4 DEF IInv, HadPublished
  <1>10. EntryNewest'
    <2> SUFFICES ASSUME NEW x \in DOMAIN cache' PROVE cache'[x].record \in {0, newest'[x]}
      BY DEF EntryNewest
    <2>1. CASE x = h
      BY <1>4, <1>5, <1>7, <2>1
    <2>2. CASE x # h
      <3>1. x \in DOMAIN cache /\ cache'[x] = cache[x] /\ x \in Hosts
        BY <1>5, <2>2 DEF IInv, TypeOK
      <3> QED
        BY <1>4, <2>2, <3>1 DEF IInv, EntryNewest
    <2> QED
      BY <2>1, <2>2
  <1>11. EntryAged'
    <2> SUFFICES ASSUME NEW x \in DOMAIN cache'
                 PROVE  cache'[x].expires <= time' + Ttl /\ EntryAge(x)'
      BY DEF EntryAged
    <2>1. CASE x # h
      BY <1>1, <1>5, <2>1 DEF IInv, EntryAged, EntryAge
    <2>2. CASE x = h
      <3>1. cache'[x].record = record /\ cache'[x].expires = time + Ttl
        BY <1>5, <1>7, <2>2
      <3>2. record < Len(published[h]) =>
              time + Ttl <= published[h][record + 1] + Ttl + FetchTime
        <4>1. published[h] \in Seq(Nat)
          BY <1>2 DEF IInv, TypeOK
        <4>2. record < Len(published[h]) => published[h][record + 1] \in Nat
          BY <1>2, <4>1, NextElement
        <4> DEFINE replaced == published[h][record + 1]
        <4>3. record < Len(published[h]) =>
                replaced \in Nat /\ replaced >= inflight[q].sent
          BY <1>3, <4>2
        <4>4. Ttl \in Nat /\ FetchTime \in Nat
          OBVIOUS
        <4> HIDE DEF replaced
        <4>5. record < Len(published[h]) => time + Ttl <= replaced + Ttl + FetchTime
          BY <1>2, <1>3, <4>3, <4>4
        <4> QED
          BY <4>5 DEF replaced
      <3> QED
        BY <1>1, <1>2, <2>2, <3>1, <3>2 DEF EntryAge
    <2> QED
      BY <2>1, <2>2
  <1>12. FlightsTrue'
    <2> SUFFICES ASSUME NEW p \in DOMAIN inflight' PROVE FlightHolds(p)' /\ FlightBrings(p)'
      BY DEF FlightsTrue
    <2>1. inflight'[p] = inflight[p] /\ p \in DOMAIN inflight /\ inflight[p].host # h
            /\ inflight[p].host \in Hosts
      BY <1>6 DEF IInv, TypeOK, Flight
    <2>2. newest'[inflight[p].host] = newest[inflight[p].host]
      BY <2>1, <1>4
    <2>3. \A x \in Hosts : x # h /\ Remembers(x)' => Remembers(x)
      BY <1>5 DEF Remembers
    <2>4. FlightHolds(p) /\ FlightBrings(p)
      BY <2>1 DEF IInv, FlightsTrue
    <2>5. FlightHolds(p)'
      BY <2>1, <2>2, <2>3, <2>4 DEF FlightHolds
    <2>6. FlightBrings(p)'
      BY <1>1, <2>1, <2>2, <2>4 DEF FlightBrings
    <2> QED
      BY <2>5, <2>6
  <1>13. SingleFlight'
    BY <1>6 DEF IInv, SingleFlight
  <1> QED
    BY <1>6, <1>8, <1>9, <1>10, <1>11, <1>12, <1>13 DEF IInv

(* A fetch that fails ends with the record it holds, or with none.         *)
LEMMA FailStep ==
  ASSUME IInv, NEW q \in Requests, Fail(q)
  PROVE  \E record \in Nat, age \in Nat :
           /\ q \in DOMAIN inflight
           /\ age <= Ttl
           /\ \/ record \in inflight[q].cached
              \/ record = 0 /\ inflight[q].cached = {}
           /\ Remember(inflight[q].host, Entry(record, age)) /\ Finish(q, record)
           /\ failed' = [failed EXCEPT ![inflight[q].host] = [yes |-> TRUE, at |-> time]]
           /\ UNCHANGED <<newest, time, published>>
  <1> DEFINE h == inflight[q].host
             brief == IF Ttl < FailureTtl THEN Ttl ELSE FailureTtl
  <1>1. /\ q \in DOMAIN inflight
        /\ \/ \E record \in inflight[q].cached :
                Remember(h, Entry(record, Ttl)) /\ Finish(q, record)
           \/ inflight[q].cached = {} /\ Remember(h, Entry(0, brief)) /\ Finish(q, 0)
        /\ failed' = [failed EXCEPT ![h] = [yes |-> TRUE, at |-> time]]
        /\ newest' = newest
    BY DEF Fail
  <1>2. inflight[q].cached \subseteq Nat
    BY <1>1 DEF IInv, TypeOK, Flight
  <1>3. brief \in Nat /\ brief <= Ttl /\ Ttl \in Nat /\ Ttl <= Ttl
    BY ResolverAssumption
  <1> HIDE DEF brief
  <1>4. CASE inflight[q].cached = {} /\ Remember(h, Entry(0, brief)) /\ Finish(q, 0)
    BY <1>1, <1>3, <1>4 DEF Finish
  <1>5. CASE \E record \in inflight[q].cached :
               Remember(h, Entry(record, Ttl)) /\ Finish(q, record)
    BY <1>1, <1>2, <1>3, <1>5 DEF Finish
  <1> QED
    BY <1>1, <1>4, <1>5

LEMMA FailInv ==
  ASSUME IInv, NEW q \in Requests, Fail(q)
  PROVE  IInv'
  <1> DEFINE h == inflight[q].host
  <1> USE ResolverAssumption
  <1>1. PICK record \in Nat, age \in Nat :
          /\ q \in DOMAIN inflight /\ age <= Ttl
          /\ record \in inflight[q].cached \/ (record = 0 /\ inflight[q].cached = {})
          /\ Remember(h, Entry(record, age)) /\ Finish(q, record)
          /\ failed' = [failed EXCEPT ![h] = [yes |-> TRUE, at |-> time]]
          /\ UNCHANGED <<newest, time, published>>
    BY FailStep
  <1>2. h \in Hosts /\ time \in Nat
    BY <1>1 DEF IInv, TypeOK, Flight
  <1>3. record \in {0, newest[h]}
    BY <1>1 DEF IInv, FlightsTrue, FlightHolds
  <1>4. failed'[h] = [yes |-> TRUE, at |-> time] /\ \A x \in Hosts : x # h => failed'[x] = failed[x]
    BY <1>1, <1>2 DEF IInv, TypeOK
  <1>5. \A x \in DOMAIN cache' :
          \/ x = h /\ cache'[x] = Entry(record, age)
          \/ x # h /\ x \in DOMAIN cache /\ cache'[x] = cache[x]
    BY <1>1, RememberStep
  <1>6. /\ DOMAIN inflight' = DOMAIN inflight \ {q}
        /\ \A p \in DOMAIN inflight' : inflight'[p] = inflight[p] /\ inflight[p].host # h
        /\ req' \in [Requests -> [at : {"idle", "waiting", "told"}, host : Hosts,
                                  on : SUBSET Requests, record : Nat]]
        /\ Awaited'
    BY <1>1, FinishStep
  <1>7. Entry(record, age) = [record |-> record, expires |-> time + age]
    BY DEF Entry
  <1> HIDE DEF h
  <1>8. TypeOK'
    <2>1. DOMAIN cache' \subseteq Hosts
            /\ \A x \in DOMAIN cache' : cache'[x] \in [record : Nat, expires : Nat]
      <3>1. Entry(record, age) \in [record : Nat, expires : Nat]
        BY <1>2, <1>7
      <3> QED
        BY <1>2, <1>5, <3>1, CacheTyped
    <2>2. DOMAIN inflight' \subseteq Requests
            /\ \A p \in DOMAIN inflight' : inflight'[p] \in Flight
      BY <1>6 DEF IInv, TypeOK
    <2>3. failed' \in [Hosts -> [yes : BOOLEAN, at : Nat]]
      BY <1>1, <1>2 DEF IInv, TypeOK
    <2> QED
      BY <1>1, <1>6, <2>1, <2>2, <2>3 DEF IInv, TypeOK
  <1>9. HadPublished'
    BY <1>1 DEF IInv, HadPublished
  <1>10. EntryNewest'
    BY <1>1, <1>3, <1>5, <1>7 DEF IInv, EntryNewest, TypeOK
  <1>11. EntryAged'
    <2> SUFFICES ASSUME NEW x \in DOMAIN cache'
                 PROVE  cache'[x].expires <= time' + Ttl /\ EntryAge(x)'
      BY DEF EntryAged
    <2>1. CASE x # h
      <3>1. x \in DOMAIN cache /\ cache'[x] = cache[x] /\ x \in Hosts /\ failed'[x] = failed[x]
        BY <1>4, <1>5, <2>1 DEF IInv, TypeOK
      <3> QED
        BY <1>1, <3>1 DEF IInv, EntryAged, EntryAge
    <2>2. CASE x = h
      BY <1>1, <1>2, <1>4, <1>5, <1>7, <2>2 DEF EntryAge
    <2> QED
      BY <2>1, <2>2
  <1>12. FlightsTrue'
    <2> SUFFICES ASSUME NEW p \in DOMAIN inflight' PROVE FlightHolds(p)' /\ FlightBrings(p)'
      BY DEF FlightsTrue
    <2>1. inflight'[p] = inflight[p] /\ p \in DOMAIN inflight /\ inflight[p].host # h
            /\ inflight[p].host \in Hosts
      BY <1>6 DEF IInv, TypeOK, Flight
    <2>2. \A x \in Hosts : x # h /\ Remembers(x)' => Remembers(x)
      BY <1>5 DEF Remembers
    <2>3. FlightHolds(p) /\ FlightBrings(p)
      BY <2>1 DEF IInv, FlightsTrue
    <2>4. FlightHolds(p)'
      BY <1>1, <2>1, <2>2, <2>3 DEF FlightHolds
    <2>5. FlightBrings(p)'
      BY <1>1, <2>1, <2>3 DEF FlightBrings
    <2> QED
      BY <2>4, <2>5
  <1>13. SingleFlight'
    BY <1>6 DEF IInv, SingleFlight
  <1> QED
    BY <1>6, <1>8, <1>9, <1>10, <1>11, <1>12, <1>13 DEF IInv

(* A hit moves the host's entry to the newest place and changes no record. *)
LEMMA HitInv ==
  ASSUME IInv, NEW r \in Requests, Hit(r)
  PROVE  IInv'
  <1> DEFINE h == req[r].host
  <1> USE ResolverAssumption
  <1>1. /\ req[r].at = "idle" /\ h \in DOMAIN cache
        /\ Remember(h, cache[h])
        /\ req' = [req EXCEPT ![r] = Told(r, cache[h].record)]
        /\ UNCHANGED <<time, published, inflight, newest, failed>>
    BY DEF Hit, Fresh, RememberUsed, history
  <1>2. \A x \in DOMAIN cache' : x \in DOMAIN cache /\ cache'[x] = cache[x]
    BY <1>1, RememberStep
  <1>3. req[r] \in [at : {"idle", "waiting", "told"}, host : Hosts, on : SUBSET Requests, record : Nat]
          /\ cache[h].record \in Nat
    BY <1>1 DEF IInv, TypeOK
  <1>4. Told(r, cache[h].record).on = {}
    BY <1>3 DEF Told
  <1>5. Told(r, cache[h].record) \in
          [at : {"idle", "waiting", "told"}, host : Hosts, on : SUBSET Requests, record : Nat]
    BY <1>3 DEF Told
  <1>6. TypeOK'
    <2>1. DOMAIN cache' \subseteq Hosts
            /\ \A x \in DOMAIN cache' : cache'[x] \in [record : Nat, expires : Nat]
      BY <1>2 DEF IInv, TypeOK
    <2>2. req' \in [Requests -> [at : {"idle", "waiting", "told"}, host : Hosts,
                                on : SUBSET Requests, record : Nat]]
      BY <1>1, <1>5 DEF IInv, TypeOK
    <2> QED
      BY <1>1, <2>1, <2>2 DEF IInv, TypeOK
  <1>7. HadPublished' /\ SingleFlight'
    BY <1>1 DEF IInv, HadPublished, SingleFlight
  <1>8. EntryNewest'
    BY <1>1, <1>2 DEF IInv, EntryNewest
  <1>9. EntryAged'
    BY <1>1, <1>2 DEF IInv, EntryAged, EntryAge
  <1>10. FlightsTrue'
    <2> SUFFICES ASSUME NEW p \in DOMAIN inflight' PROVE FlightHolds(p)' /\ FlightBrings(p)'
      BY DEF FlightsTrue
    <2>1. p \in DOMAIN inflight /\ FlightHolds(p) /\ FlightBrings(p)
      BY <1>1 DEF IInv, FlightsTrue
    <2>2. \A x : Remembers(x)' => Remembers(x)
      BY <1>2 DEF Remembers
    <2>3. FlightHolds(p)'
      BY <1>1, <2>1, <2>2 DEF FlightHolds
    <2>4. FlightBrings(p)'
      BY <1>1, <2>1 DEF FlightBrings
    <2> QED
      BY <2>3, <2>4
  <1>11. Awaited'
    <2>1. req[r].on = {}
      <3> SUFFICES ASSUME NEW q \in req[r].on PROVE FALSE
        OBVIOUS
      <3> QED
        BY <1>1 DEF IInv, Awaited
    <2>2. r \notin DOMAIN inflight
      BY <2>1 DEF IInv, Awaited
    <2>3. \A x \in Requests : req'[x].on = req[x].on
      BY <1>1, <1>4, <2>1 DEF IInv, TypeOK
    <2>4. \A x \in Requests : x # r => req'[x] = req[x]
      BY <1>1 DEF IInv, TypeOK
    <2>5. \A q \in DOMAIN inflight' : q \in req'[q].on
      BY <1>1, <2>3 DEF IInv, Awaited, TypeOK
    <2>6. ASSUME NEW x \in Requests, NEW q \in req'[x].on
          PROVE  q \in DOMAIN inflight' /\ inflight'[q].host = req'[x].host /\ req'[x].at = "waiting"
      <3>1. x # r /\ req'[x] = req[x] /\ q \in req[x].on
        BY <2>1, <2>3, <2>4, <2>6
      <3> QED
        BY <1>1, <3>1 DEF IInv, Awaited
    <2> QED
      BY <2>5, <2>6 DEF Awaited
  <1> QED
    BY <1>6, <1>7, <1>8, <1>9, <1>10, <1>11 DEF IInv

(* One request that waits for nothing changes: at most it begins to wait   *)
(* for a fetch that runs.                                                  *)
LEMMA RequestStep ==
  ASSUME IInv, UNCHANGED <<time, published, cache, recent, inflight, history>>,
         NEW r \in Requests, req[r].at # "waiting",
         NEW with \in [at : {"idle", "waiting", "told"}, host : Hosts, on : SUBSET Requests, record : Nat],
         req' = [req EXCEPT ![r] = with],
         \A q \in with.on : q \in DOMAIN inflight /\ inflight[q].host = with.host /\ with.at = "waiting"
  PROVE  IInv'
  <1>1. TypeOK'
    BY DEF IInv, TypeOK, history
  <1>2. HadPublished' /\ SingleFlight' /\ EntryNewest'
    BY DEF IInv, HadPublished, SingleFlight, EntryNewest, history
  <1>3. EntryAged'
    BY DEF IInv, EntryAged, EntryAge, history
  <1>4. FlightsTrue'
    BY DEF IInv, FlightsTrue, FlightHolds, FlightBrings, Remembers, history
  <1>5. Awaited'
    <2>1. r \notin DOMAIN inflight
      BY DEF IInv, Awaited
    <2>2. \A x \in Requests : req'[x] = IF x = r THEN with ELSE req[x]
      BY DEF IInv, TypeOK
    <2> QED
      BY <2>1, <2>2 DEF IInv, Awaited, history, TypeOK
  <1> QED
    BY <1>1, <1>2, <1>3, <1>4, <1>5 DEF IInv

LEMMA JoinInv ==
  ASSUME IInv, NEW r \in Requests, Join(r)
  PROVE  IInv'
  <1>1. PICK q \in Pending(req[r].host) :
          req' = [req EXCEPT ![r] = [req[r] EXCEPT !.at = "waiting", !.on = {q}]]
    BY DEF Join, IInv, TypeOK
  <1> DEFINE with == [req[r] EXCEPT !.at = "waiting", !.on = {q}]
  <1>2. q \in DOMAIN inflight /\ inflight[q].host = req[r].host /\ q \in Requests
    BY DEF Pending, IInv, TypeOK
  <1>3. with \in [at : {"idle", "waiting", "told"}, host : Hosts, on : SUBSET Requests, record : Nat]
          /\ with.on = {q} /\ with.host = req[r].host /\ with.at = "waiting"
    <2>1. req[r] \in [at : {"idle", "waiting", "told"}, host : Hosts, on : SUBSET Requests, record : Nat]
      BY DEF IInv, TypeOK
    <2>2. {q} \in SUBSET Requests
      BY <1>2
    <2> QED
      BY <2>1, <2>2
  <1>4. req[r].at # "waiting" /\ UNCHANGED <<time, published, cache, recent, inflight, history>>
    BY DEF Join
  <1>5. req' = [req EXCEPT ![r] = with]
    BY <1>1
  <1> HIDE DEF with
  <1> QED
    BY <1>2, <1>3, <1>4, <1>5, RequestStep

LEMMA LeaveInv ==
  ASSUME IInv, NEW r \in Requests, Leave(r)
  PROVE  IInv'
  <1>1. PICK h \in Hosts : req' = [req EXCEPT ![r] = Idle(h)]
    BY DEF Leave
  <1>2. Idle(h) \in [at : {"idle", "waiting", "told"}, host : Hosts, on : SUBSET Requests, record : Nat]
          /\ Idle(h).on = {}
    BY DEF Idle
  <1>3. req[r].at # "waiting" /\ UNCHANGED <<time, published, cache, recent, inflight, history>>
    BY DEF Leave
  <1> QED
    BY <1>1, <1>2, <1>3, RequestStep

LEMMA FetchInv ==
  ASSUME IInv, NEW r \in Requests, Fetch(r)
  PROVE  IInv'
  <1> DEFINE h == req[r].host
             f == [host |-> h, sent |-> time, got |-> 0,
                   cached |-> IF h \in DOMAIN cache THEN {cache[h].record} ELSE {}]
             with == [req[r] EXCEPT !.at = "waiting", !.on = {r}]
  <1> USE ResolverAssumption
  <1>1. /\ req[r].at = "idle" /\ Pending(h) = {}
        /\ inflight' = [q \in DOMAIN inflight \cup {r} |->
                          IF q \in DOMAIN inflight THEN inflight[q] ELSE f]
        /\ req' = [req EXCEPT ![r] = with]
        /\ UNCHANGED <<time, published, cache, recent, newest, failed>>
    BY DEF Fetch, history, IInv, TypeOK
  <1>2. r \notin DOMAIN inflight
    BY <1>1 DEF IInv, Awaited
  <1>3. h \in Hosts /\ time \in Nat
    BY DEF IInv, TypeOK
  <1>4. f.cached \subseteq {0, newest[h]} /\ f.cached \subseteq Nat
          /\ (Remembers(h) => f.cached = {newest[h]})
    BY DEF IInv, EntryNewest, TypeOK, Remembers
  <1>5. f \in Flight
    BY <1>3, <1>4 DEF Flight
  <1>6. /\ DOMAIN inflight' = DOMAIN inflight \cup {r} /\ inflight'[r] = f
        /\ \A q \in DOMAIN inflight : q # r /\ inflight'[q] = inflight[q]
    BY <1>1, <1>2
  <1>7. with \in [at : {"idle", "waiting", "told"}, host : Hosts, on : SUBSET Requests, record : Nat]
          /\ with.on = {r} /\ with.host = h /\ with.at = "waiting"
    <2>1. req[r] \in [at : {"idle", "waiting", "told"}, host : Hosts, on : SUBSET Requests, record : Nat]
      BY DEF IInv, TypeOK
    <2>2. {r} \in SUBSET Requests
      OBVIOUS
    <2> QED
      BY <2>1, <2>2
  <1>8. f.host = h /\ f.sent = time /\ f.got = 0
    OBVIOUS
  <1> HIDE DEF f, with, h
  <1>9. TypeOK'
    BY <1>1, <1>5, <1>6, <1>7 DEF IInv, TypeOK
  <1>10. HadPublished' /\ EntryNewest'
    BY <1>1 DEF IInv, HadPublished, EntryNewest
  <1>11. EntryAged'
    BY <1>1 DEF IInv, EntryAged, EntryAge
  <1>12. FlightsTrue'
    <2>1. ASSUME NEW q \in DOMAIN inflight PROVE FlightHolds(q)' /\ FlightBrings(q)'
      BY <1>1, <1>6 DEF IInv, FlightsTrue, FlightHolds, FlightBrings, Remembers
    <2>2. FlightHolds(r)'
      BY <1>1, <1>4, <1>6, <1>8 DEF FlightHolds, Remembers
    <2>3. FlightBrings(r)'
      BY <1>1, <1>3, <1>6, <1>8 DEF FlightBrings, IInv, HadPublished
    <2> QED
      BY <1>6, <2>1, <2>2, <2>3 DEF FlightsTrue
  <1>13. SingleFlight'
    <2>1. \A q \in DOMAIN inflight : inflight[q].host # h
      BY <1>1 DEF Pending
    <2> QED
      BY <1>6, <1>8, <2>1 DEF IInv, SingleFlight
  <1>14. Awaited'
    <2>1. req'[r] = with /\ \A x \in Requests : x # r => req'[x] = req[x]
      BY <1>1 DEF IInv, TypeOK
    <2>2. ASSUME NEW q \in DOMAIN inflight' PROVE q \in req'[q].on
      <3>1. CASE q = r
        BY <1>7, <2>1, <3>1
      <3>2. CASE q # r
        BY <1>6, <2>1, <3>2 DEF IInv, Awaited, TypeOK
      <3> QED
        BY <3>1, <3>2
    <2>3. ASSUME NEW x \in Requests, NEW q \in req'[x].on
          PROVE  q \in DOMAIN inflight' /\ inflight'[q].host = req'[x].host /\ req'[x].at = "waiting"
      <3>1. CASE x = r
        BY <1>6, <1>7, <1>8, <2>1, <2>3, <3>1
      <3>2. CASE x # r
        BY <1>6, <2>1, <2>3, <3>2 DEF IInv, Awaited
      <3> QED
        BY <3>1, <3>2
    <2> QED
      BY <2>2, <2>3 DEF Awaited
  <1> QED
    BY <1>9, <1>10, <1>11, <1>12, <1>13, <1>14 DEF IInv

LEMMA ServeInv ==
  ASSUME IInv, NEW q \in Requests, Serve(q)
  PROVE  IInv'
  <1> DEFINE h == inflight[q].host
  <1>1. /\ q \in DOMAIN inflight
        /\ inflight' = [inflight EXCEPT ![q].got = Len(published[h])]
        /\ UNCHANGED <<time, published, cache, recent, req, newest, failed>>
    BY DEF Serve, history
  <1>2. inflight[q] \in Flight /\ h \in Hosts /\ Len(published[h]) \in Nat
    BY <1>1 DEF IInv, TypeOK, Flight
  <1>3. DOMAIN inflight' = DOMAIN inflight
          /\ \A p \in DOMAIN inflight : p # q => inflight'[p] = inflight[p]
    BY <1>1
  <1>4. /\ inflight'[q] \in Flight /\ inflight'[q].host = h
        /\ inflight'[q].sent = inflight[q].sent /\ inflight'[q].cached = inflight[q].cached
        /\ inflight'[q].got = Len(published[h])
    BY <1>1, <1>2 DEF Flight
  <1> HIDE DEF h
  <1>5. TypeOK'
    BY <1>1, <1>3, <1>4 DEF IInv, TypeOK
  <1>6. HadPublished' /\ EntryNewest'
    BY <1>1 DEF IInv, HadPublished, EntryNewest
  <1>7. EntryAged'
    BY <1>1 DEF IInv, EntryAged, EntryAge
  <1>8. FlightsTrue'
    <2>1. ASSUME NEW p \in DOMAIN inflight, p # q PROVE FlightHolds(p)' /\ FlightBrings(p)'
      BY <1>1, <1>3, <2>1 DEF IInv, FlightsTrue, FlightHolds, FlightBrings, Remembers
    <2>2. FlightHolds(q) /\ FlightBrings(q)
      BY <1>1 DEF IInv, FlightsTrue
    <2>3. FlightHolds(q)'
      BY <1>1, <1>4, <2>2 DEF FlightHolds, Remembers, h
    <2>4. FlightBrings(q)'
      BY <1>1, <1>2, <1>4, <2>2 DEF FlightBrings, IInv, HadPublished, h
    <2> QED
      BY <1>3, <2>1, <2>3, <2>4 DEF FlightsTrue
  <1>9. \A p \in DOMAIN inflight : inflight'[p].host = inflight[p].host
    BY <1>3, <1>4 DEF h
  <1>10. SingleFlight' /\ Awaited'
    BY <1>1, <1>3, <1>9 DEF IInv, SingleFlight, Awaited
  <1> QED
    BY <1>5, <1>6, <1>7, <1>8, <1>10 DEF IInv

LEMMA PublishInv ==
  ASSUME IInv, NEW h \in Hosts, Publish(h)
  PROVE  IInv'
  <1> USE ResolverAssumption
  <1>1. /\ published' = [published EXCEPT ![h] = Append(@, time)]
        /\ UNCHANGED <<time, cache, recent, inflight, req, newest, failed>>
    BY DEF Publish, history
  <1>2. /\ published[h] \in Seq(Nat) /\ time \in Nat
        /\ \A x \in Hosts : published[x] \in Seq(Nat)
    BY DEF IInv, TypeOK
  <1>3. /\ published'[h] = Append(published[h], time)
        /\ \A x \in Hosts : x # h => published'[x] = published[x]
    BY <1>1 DEF IInv, TypeOK
  <1>4. /\ published'[h] \in Seq(Nat) /\ Len(published'[h]) = Len(published[h]) + 1
        /\ published'[h][Len(published[h]) + 1] = time
        /\ \A i \in Nat : i < Len(published[h]) => published'[h][i + 1] = published[h][i + 1]
        /\ Len(published[h]) \in Nat
    <2> DEFINE s == published[h]
    <2>1. s \in Seq(Nat)
      BY <1>2
    <2> HIDE DEF s
    <2>2. /\ Append(s, time) \in Seq(Nat) /\ Len(Append(s, time)) = Len(s) + 1
          /\ Append(s, time)[Len(s) + 1] = time
          /\ \A i \in Nat : i < Len(s) => Append(s, time)[i + 1] = s[i + 1]
          /\ Len(s) \in Nat
      BY <1>2, <2>1, AppendKeeps
    <2>3. published'[h] = Append(s, time)
      BY <1>3 DEF s
    <2> QED
      BY <2>2, <2>3 DEF s
  <1>5. TypeOK'
    BY <1>1, <1>4 DEF IInv, TypeOK
  <1>6. HadPublished'
    <2> SUFFICES ASSUME NEW x \in Hosts
                 PROVE  Len(published'[x]) > 0 /\ newest[x] <= Len(published'[x])
      BY <1>1 DEF HadPublished
    <2>1. Len(published[x]) > 0 /\ newest[x] <= Len(published[x]) /\ newest[x] \in Nat
      BY DEF IInv, HadPublished, TypeOK
    <2>2. CASE x = h
      <3>1. Len(published'[x]) = Len(published[x]) + 1 /\ Len(published[x]) \in Nat
        BY <1>4, <2>2
      <3> QED
        BY <2>1, <3>1
    <2>3. CASE x # h
      BY <1>3, <2>1, <2>3
    <2> QED
      BY <2>2, <2>3
  <1>7. EntryNewest'
    BY <1>1 DEF IInv, EntryNewest
  <1>8. EntryAged'
    <2> SUFFICES ASSUME NEW x \in DOMAIN cache
                 PROVE  cache[x].expires <= time + Ttl /\ EntryAge(x)'
      BY <1>1 DEF EntryAged
    <2>1. cache[x].expires <= time + Ttl /\ EntryAge(x)
      BY DEF IInv, EntryAged
    <2>2. x \in Hosts /\ cache[x].record \in Nat /\ cache[x].expires \in Nat
            /\ newest[x] \in Nat /\ failed[x].at \in Nat
      BY DEF IInv, TypeOK
    <2>3. CASE x # h
      BY <1>1, <1>3, <2>1, <2>2, <2>3 DEF EntryAge
    <2>4. CASE x = h
      <3>1. cache[x].record <= Len(published[x])
        BY <2>2 DEF IInv, EntryNewest, HadPublished
      <3>2. CASE cache[x].record = Len(published[x])
        <4>1. cache[x].record # 0
          BY <2>2, <3>2 DEF IInv, HadPublished
        <4>2. cache[x].expires <= published'[x][cache[x].record + 1] + Ttl + FetchTime
          <5>1. published'[x][cache[x].record + 1] = time
            BY <1>4, <2>4, <3>2
          <5>2. Ttl \in Nat /\ FetchTime \in Nat
            OBVIOUS
          <5> QED
            BY <1>2, <2>1, <2>2, <5>1, <5>2
        <4> QED
          BY <1>1, <2>1, <4>1, <4>2 DEF EntryAge
      <3>3. CASE cache[x].record < Len(published[x])
        <4>1. published'[x][cache[x].record + 1] = published[x][cache[x].record + 1]
          BY <1>4, <2>2, <2>4, <3>3
        <4> QED
          BY <1>1, <2>1, <3>3, <4>1 DEF EntryAge
      <3> QED
        BY <1>4, <2>2, <2>4, <3>1, <3>2, <3>3
    <2> QED
      BY <2>1, <2>3, <2>4
  <1>9. FlightsTrue'
    <2> SUFFICES ASSUME NEW p \in DOMAIN inflight PROVE FlightHolds(p)' /\ FlightBrings(p)'
      BY <1>1 DEF FlightsTrue
    <2>1. FlightHolds(p) /\ FlightBrings(p)
      BY DEF IInv, FlightsTrue
    <2>2. FlightHolds(p)'
      BY <1>1, <2>1 DEF FlightHolds, Remembers
    <2>3. inflight[p].host \in Hosts /\ inflight[p].got \in Nat /\ inflight[p].sent \in Nat
      BY DEF IInv, TypeOK, Flight
    <2>4. CASE inflight[p].host # h
      BY <1>1, <1>3, <2>1, <2>2, <2>3, <2>4 DEF FlightBrings
    <2>5. CASE inflight[p].host = h
      <3> DEFINE got == inflight[p].got
      <3>1. got <= Len(published'[h])
        BY <1>4, <2>1, <2>3, <2>5 DEF FlightBrings
      <3>2. got # 0 /\ got < Len(published'[h]) => published'[h][got + 1] >= inflight[p].sent
        <4>1. CASE got = Len(published[h])
          <5>1. published'[h][got + 1] = time /\ inflight[p].sent <= time
            BY <1>4, <2>1, <4>1 DEF FlightBrings
          <5> QED
            BY <1>2, <2>3, <5>1
        <4>2. CASE got < Len(published[h])
          <5>1. published'[h][got + 1] = published[h][got + 1]
            BY <1>4, <2>3, <4>2
          <5> QED
            BY <2>1, <2>5, <4>2, <5>1 DEF FlightBrings
        <4>3. got = Len(published[h]) \/ got < Len(published[h])
          <5> HIDE DEF got
          <5>1. got \in Nat /\ got <= Len(published[h])
            BY <2>1, <2>3, <2>5 DEF FlightBrings, got
          <5> QED
            BY <1>4, <5>1
        <4> QED
          BY <4>1, <4>2, <4>3
      <3> QED
        BY <1>1, <2>1, <2>2, <2>5, <3>1, <3>2 DEF FlightBrings
    <2> QED
      BY <2>4, <2>5
  <1>10. SingleFlight' /\ Awaited'
    BY <1>1 DEF IInv, SingleFlight, Awaited
  <1> QED
    BY <1>5, <1>6, <1>7, <1>8, <1>9, <1>10 DEF IInv

LEMMA TickInv ==
  ASSUME IInv, Tick
  PROVE  IInv'
  <1> USE ResolverAssumption
  <1>1. /\ time' = time + 1 /\ time \in Nat
        /\ \A q \in DOMAIN inflight : time < inflight[q].sent + FetchTime
        /\ UNCHANGED <<published, cache, recent, inflight, req, newest, failed>>
    BY DEF Tick, history, IInv, TypeOK
  <1>2. TypeOK'
    BY <1>1 DEF IInv, TypeOK
  <1>3. HadPublished' /\ EntryNewest' /\ SingleFlight' /\ Awaited'
    BY <1>1 DEF IInv, HadPublished, EntryNewest, SingleFlight, Awaited
  <1>4. EntryAged'
    <2>1. \A x \in DOMAIN cache : cache[x].expires \in Nat /\ cache[x].expires <= time + Ttl
      BY DEF IInv, TypeOK, EntryAged
    <2> QED
      BY <1>1, <2>1 DEF IInv, EntryAged, EntryAge
  <1>5. FlightsTrue'
    <2> SUFFICES ASSUME NEW p \in DOMAIN inflight PROVE FlightHolds(p)' /\ FlightBrings(p)'
      BY <1>1 DEF FlightsTrue
    <2>1. FlightHolds(p) /\ FlightBrings(p) /\ inflight[p].sent \in Nat
      BY DEF IInv, FlightsTrue, TypeOK, Flight
    <2>2. FlightHolds(p)'
      BY <1>1, <2>1 DEF FlightHolds, Remembers
    <2>3. FlightBrings(p)'
      BY <1>1, <2>1 DEF FlightBrings
    <2> QED
      BY <2>2, <2>3
  <1> QED
    BY <1>2, <1>3, <1>4, <1>5 DEF IInv

LEMMA NextInv ==
  ASSUME IInv, [Next]_vars
  PROVE  IInv'
  <1>1. CASE UNCHANGED vars
    BY <1>1 DEF vars, history, IInv, TypeOK, HadPublished, EntryNewest, EntryAged, EntryAge,
                FlightsTrue, FlightHolds, FlightBrings, Remembers, SingleFlight, Awaited
  <1>2. CASE Next
    BY <1>2, HitInv, JoinInv, FetchInv, ServeInv, LandInv, FailInv, LeaveInv, PublishInv, TickInv
       DEF Next
  <1> QED
    BY <1>1, <1>2

(* The inductive invariant of the resolver: entries and fetches hold the   *)
(* newest record the gate has had or none, one fetch per host runs, and an *)
(* entry expires soon after its record was replaced unless a failure kept  *)
(* it (resolve, refresh, remember).                                        *)
THEOREM Inductive == Spec => []IInv
  BY InitInv, NextInv, PTL DEF Spec

-----------------------------------------------------------------------------

LEMMA AnswerStep ==
  ASSUME IInv, [Next]_vars, NEW r \in Requests, req'[r].at = "told", req[r].at # "told"
  PROVE  LET h == req[r].host record == req'[r].record IN
         record >= newest[h] \/ (record = 0 /\ ~Remembers(h))
  <1> DEFINE h == req[r].host
  <1>1. h \in Hosts /\ newest[h] \in Nat
    BY DEF IInv, TypeOK
  <1>2. CASE Hit(r)
    <2>1. h \in DOMAIN cache /\ req' = [req EXCEPT ![r] = Told(r, cache[h].record)]
      BY <1>2 DEF Hit, Fresh
    <2>2. req'[r].record = cache[h].record
      BY <2>1 DEF Told, IInv, TypeOK
    <2> QED
      BY <1>1, <2>1, <2>2 DEF IInv, EntryNewest, Remembers
  <1>3. ASSUME NEW q \in Requests, Land(q)
        PROVE  req'[r].record >= newest[h]
    <2>1. q \in DOMAIN inflight /\ inflight[q].got # 0 /\ inflight[q].got \in Nat
            /\ Finish(q, inflight[q].got)
      BY <1>3 DEF Land, IInv, TypeOK, Flight
    <2>2. req'[r].record = inflight[q].got /\ h = inflight[q].host
      BY <2>1, FinishStep
    <2> QED
      BY <2>1, <2>2 DEF IInv, FlightsTrue, FlightBrings
  <1>4. ASSUME NEW q \in Requests, Fail(q)
        PROVE  req'[r].record >= newest[h] \/ (req'[r].record = 0 /\ ~Remembers(h))
    <2>1. PICK record \in Nat :
            /\ q \in DOMAIN inflight
            /\ record \in inflight[q].cached \/ (record = 0 /\ inflight[q].cached = {})
            /\ Finish(q, record)
      BY <1>4, FailStep
    <2>2. req'[r].record = record /\ h = inflight[q].host
      BY <2>1, FinishStep
    <2>3. FlightHolds(q)
      BY <2>1 DEF IInv, FlightsTrue
    <2> QED
      BY <1>1, <2>1, <2>2, <2>3 DEF FlightHolds
  <1>5. CASE UNCHANGED req
    BY <1>5
  <1>6. ASSUME NEW x \in Requests, Hit(x), x # r PROVE req'[r] = req[r]
    BY <1>6 DEF Hit, IInv, TypeOK
  <1>7. ASSUME NEW x \in Requests, Join(x) \/ Fetch(x) PROVE req'[r] = req[r] \/ req'[r].at = "waiting"
    BY <1>7 DEF Join, Fetch, IInv, TypeOK
  <1>8. ASSUME NEW x \in Requests, Leave(x) PROVE req'[r] = req[r] \/ req'[r].at = "idle"
    BY <1>8 DEF Leave, Idle, IInv, TypeOK
  <1>9. ASSUME NEW x \in Requests, Serve(x) PROVE UNCHANGED req
    BY <1>9 DEF Serve
  <1>10. ASSUME NEW x \in Hosts, Publish(x) PROVE UNCHANGED req
    BY <1>10 DEF Publish
  <1>11. CASE Tick \/ UNCHANGED vars
    BY <1>11, <1>5 DEF Tick, vars
  <1> QED
    BY <1>2, <1>3, <1>4, <1>5, <1>6, <1>7, <1>8, <1>9, <1>10, <1>11 DEF Next

(* No request is told an older record than the gate has had, nor of none   *)
(* while one is remembered, whatever lands, fails or is evicted (refresh). *)
THEOREM NeverGoesBack == Spec => AnswersNeverGoBack
  <1>1. IInv /\ [Next]_vars =>
          [\A r \in Requests : req'[r].at = "told" /\ req[r].at # "told" =>
             LET h == req[r].host record == req'[r].record IN
             \/ record >= newest[h]
             \/ record = 0 /\ ~Remembers(h)]_vars
    BY AnswerStep
  <1> QED
    BY <1>1, Inductive, PTL DEF Spec, AnswersNeverGoBack

(* An outdated record in use is the doing of a failure within a lifetime   *)
(* (resolve, refresh).                                                     *)
THEOREM OutdatedByFailureAlone == Spec => []OutdatedOnlyByFailure
  <1>1. IInv => OutdatedOnlyByFailure
    <2> SUFFICES ASSUME IInv, NEW h \in DOMAIN cache, Fresh(h)
                 PROVE  LET record == cache[h].record IN
                        \/ record = Len(published[h])
                        \/ record # 0 /\ time <= published[h][record + 1] + Ttl + FetchTime
                        \/ failed[h].yes /\ time <= failed[h].at + Ttl
      BY DEF OutdatedOnlyByFailure
    <2>1. h \in Hosts /\ cache[h].record \in Nat /\ cache[h].expires \in Nat /\ time \in Nat
            /\ failed[h].at \in Nat /\ published[h] \in Seq(Nat) /\ newest[h] \in Nat
      BY DEF IInv, TypeOK
    <2>2. time < cache[h].expires
      BY <2>1 DEF Fresh
    <2>3. EntryAge(h) /\ cache[h].record <= Len(published[h])
      BY <2>1 DEF IInv, EntryAged, EntryNewest, HadPublished
    <2>4. {Ttl, FetchTime} \subseteq Nat
      BY ResolverAssumption
    <2>5. CASE cache[h].record = Len(published[h])
      BY <2>5
    <2>6. CASE cache[h].record < Len(published[h])
      <3> DEFINE replaced == published[h][cache[h].record + 1]
      <3>1. replaced \in Nat
        BY <2>1, <2>6, NextElement
      <3>2. \/ cache[h].record # 0 /\ cache[h].expires <= replaced + Ttl + FetchTime
            \/ failed[h].yes /\ cache[h].expires <= failed[h].at + Ttl
        BY <2>3, <2>6 DEF EntryAge
      <3> HIDE DEF replaced
      <3>3. \/ cache[h].record # 0 /\ time <= replaced + Ttl + FetchTime
            \/ failed[h].yes /\ time <= failed[h].at + Ttl
        BY <2>1, <2>2, <2>4, <3>1, <3>2
      <3> QED
        BY <3>3 DEF replaced
    <2> QED
      BY <2>1, <2>3, <2>5, <2>6
  <1> QED
    BY <1>1, Inductive, PTL
=============================================================================
