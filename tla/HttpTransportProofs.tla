------------------------ MODULE HttpTransportProofs ------------------------
(***************************************************************************)
(* Proofs about the cache of the HTTP transport, for every set of requests *)
(* and query strings, every time to live and every length of a query.      *)
(***************************************************************************)
EXTENDS HttpTransport, TLAPS

\* Where a request is, in time: its query is not overdue, what it has read was
\* read during the query, and is the answer to its own question.
RequestInv(r) ==
  /\ request[r].pc \in {"querying", "read"} =>
       request[r].since <= now /\ now <= request[r].since + QueryTime
  /\ request[r].pc = "read" =>
       request[r].since <= request[r].body.readAt /\ request[r].body.readAt <= now
  /\ request[r].pc \in {"read", "served"} =>
       request[r].body \in Body /\ request[r].body.reading = Reading(request[r].query)
  /\ request[r].pc = "served" =>
       \/ request[r].at - request[r].body.readAt <= QueryTime
       \/ request[r].at - request[r].body.readAt < Ttl + QueryTime

\* What the cache holds for key k: the answer to every query of that key, which
\* does not outlive its reading by more than a query and the time to live, and is
\* not older than the newest reading by more than a query.
EntryInv(k) ==
  /\ newest[k] <= now
  /\ cache[k] # NoEntry =>
       /\ \A q \in Queries : CacheKey(q) = k => cache[k].body.reading = Reading(q)
       /\ cache[k].expiresAt <= cache[k].body.readAt + QueryTime + Ttl
       /\ cache[k].body.readAt + QueryTime >= newest[k]

Inv == /\ TypeOK
       /\ \A r \in Requests : RequestInv(r)
       /\ \A k \in Keys : EntryInv(k)

\* A request that has begun, and the step of one request.
Begun == [pc : Stages, query : Queries, noCache : BOOLEAN,
          since : Times, body : Body \cup {NoBody}, at : Times]

\* The key decides the answer: nothing that an answer depends on is missing from
\* buildCacheKey, whatever two query strings it is asked for.
LEMMA KeyDecides ==
  ASSUME NEW p \in Query, NEW q \in Query, CacheKey(p) = CacheKey(q)
  PROVE  Reading(p) = Reading(q)
<1>1. CacheKey(p).country = CacheKey(q).country /\ CacheKey(p).direction = CacheKey(q).direction
      /\ CacheKey(p).service_type = CacheKey(q).service_type
      /\ CacheKey(p).rail_in = CacheKey(q).rail_in /\ CacheKey(p).rail_out = CacheKey(q).rail_out
      /\ CacheKey(p).currency = CacheKey(q).currency
      /\ CacheKey(p).freshOnly = CacheKey(q).freshOnly /\ CacheKey(p).limit = CacheKey(q).limit
      /\ CacheKey(p).healthy = CacheKey(q).healthy /\ CacheKey(p).kyc = CacheKey(q).kyc
      /\ CacheKey(p).status = CacheKey(q).status
  OBVIOUS
<1>2. /\ p.find.country = q.find.country /\ p.find.direction = q.find.direction
      /\ p.find.service_type = q.find.service_type /\ p.find.rail_in = q.find.rail_in
      /\ p.find.rail_out = q.find.rail_out /\ p.find.currency = q.find.currency
      /\ FreshOnly(p) = FreshOnly(q) /\ Limit(p) = Limit(q) /\ IsHealthy(p) = IsHealthy(q)
      /\ p.kyc = q.kyc /\ p.status = q.status
  BY <1>1 DEF CacheKey
<1>3. p.find \in Question /\ q.find \in Question
  BY DEF Query
<1>4. p.find = q.find
  BY <1>2, <1>3 DEF Question
<1> QED BY <1>2, <1>4 DEF Reading

\* A request that is not idle has begun.
LEMMA BegunUnlessIdle ==
  ASSUME TypeOK, NEW r \in Requests, request[r].pc # "idle"
  PROVE  request[r] \in Begun
BY DEF TypeOK, Idle, Begun

\* The key of a query is a key, and its reading is one of those of the bodies.
LEMMA KeysOfQueries ==
  ASSUME NEW q \in Queries
  PROVE  /\ q \in Query /\ CacheKey(q) \in Keys
         /\ \A t \in Times : [reading |-> Reading(q), readAt |-> t] \in Body
BY QueriesAssumption DEF Keys, Body

\* An entry that is in the cache is one.
LEMMA EntryUnlessNone ==
  ASSUME TypeOK, NEW k \in Keys, cache[k] # NoEntry
  PROVE  cache[k] \in Entry
BY DEF TypeOK

\* Initially nothing is asked and nothing is cached.
LEMMA InitInv == Init => Inv
<1> SUFFICES ASSUME Init PROVE Inv
  OBVIOUS
<1> USE TimesAssumption DEF Init
<1>1. TypeOK
  <2>1. now \in Times
    BY DEF Times
  <2>2. cache \in [Keys -> Entry \cup {NoEntry}]
    OBVIOUS
  <2>3. newest \in [Keys -> Times]
    BY DEF Times
  <2> QED BY <2>1, <2>2, <2>3 DEF TypeOK, At, Idle
<1>2. \A r \in Requests : RequestInv(r)
  BY DEF RequestInv, Idle
<1>3. \A k \in Keys : EntryInv(k)
  BY DEF EntryInv
<1> QED BY <1>1, <1>2, <1>3 DEF Inv

\* A step that only replaces the record of request r, by one that has begun
\* and satisfies its part, keeps the invariant.
LEMMA OneRequest ==
  ASSUME Inv, NEW r \in Requests, NEW q \in Begun, Become(r, q),
         UNCHANGED <<now, cache, newest>>,
         q.pc \in {"read", "served"} => q.body \in Body,
         RequestInv(r)'
  PROVE  Inv'
<1>1. request' \in [Requests -> {Idle} \cup Begun] /\ request'[r] = q
  BY DEF Inv, TypeOK, Become, Begun
<1>2. \A s \in Requests : s # r => request'[s] = request[s]
  BY DEF Inv, TypeOK, Become
<1>3. \A s \in Requests : At(s, {"read", "served"})' => request'[s].body \in Body
  BY <1>1, <1>2 DEF Inv, TypeOK, At
<1>4. TypeOK'
  BY <1>1, <1>3 DEF Inv, TypeOK, Begun
<1>5. \A s \in Requests : RequestInv(s)'
  BY <1>2 DEF Inv, RequestInv
<1>6. \A k \in Keys : EntryInv(k)'
  BY DEF Inv, EntryInv
<1> QED BY <1>4, <1>5, <1>6 DEF Inv, Keys

\* Every step keeps the invariant.
LEMMA StepInv == Inv /\ [Next]_vars => Inv'
<1> SUFFICES ASSUME Inv, [Next]_vars PROVE Inv'
  OBVIOUS
<1> USE TimesAssumption
<1>0. TypeOK /\ now \in Nat /\ MaxTime \in Nat /\ now \in Times
  BY DEF Inv, TypeOK, Times
<1>1. CASE Tick
  <2>1. TypeOK'
    BY <1>0, <1>1 DEF Tick, TypeOK, Times, At
  <2>2. ASSUME NEW r \in Requests PROVE RequestInv(r)'
    <3>1. RequestInv(r) /\ request'[r] = request[r] /\ now' = now + 1
      BY <1>1 DEF Inv, Tick
    <3>2. CASE request[r].pc \in {"querying", "read"}
      <4>1. request[r].since \in Nat /\ r \in Querying
        BY <1>0, <3>2, BegunUnlessIdle DEF Begun, Times, Querying, At
      <4>2. now < request[r].since + QueryTime
        BY <1>1, <4>1 DEF Tick
      <4>3. request[r].pc = "read" => request[r].body.readAt \in Nat
        BY <3>1 DEF RequestInv, Body, Times
      <4> QED BY <1>0, <3>1, <3>2, <4>1, <4>2, <4>3 DEF RequestInv
    <3>3. CASE request[r].pc \notin {"querying", "read"}
      BY <3>1, <3>3 DEF RequestInv
    <3> QED BY <3>2, <3>3
  <2>3. ASSUME NEW k \in Keys PROVE EntryInv(k)'
    <3>1. newest[k] \in Nat /\ EntryInv(k)
      BY <1>0 DEF Inv, TypeOK, Times
    <3> QED BY <1>0, <1>1, <3>1 DEF Tick, EntryInv
  <2> QED BY <2>1, <2>2, <2>3 DEF Inv, Keys
<1>2. ASSUME NEW r \in Requests, NEW f \in Queries, Hit(r, f) PROVE Inv'
  <2> DEFINE entry == cache[CacheKey(f)]
             q == [pc |-> "served", query |-> f, noCache |-> FALSE,
                   since |-> now, body |-> entry.body, at |-> now]
  <2>1. /\ CacheKey(f) \in Keys /\ EntryInv(CacheKey(f)) /\ Become(r, q) /\ Fresh(entry)
        /\ UNCHANGED <<now, cache, newest>>
    BY <1>2, KeysOfQueries DEF Hit, Inv
  <2>2. entry \in Entry
    BY <1>0, <2>1, EntryUnlessNone DEF Fresh
  <2>3. entry.body \in Body /\ entry.expiresAt \in Nat /\ entry.body.readAt \in Nat
    BY <2>2 DEF Entry, Body, Times
  <2>4. entry.body.reading = Reading(f) /\ now < entry.body.readAt + QueryTime + Ttl
    BY <1>0, <2>1, <2>3 DEF EntryInv, Fresh
  <2>5. q \in Begun
    BY <1>0, <2>3 DEF Begun, Stages
  <2>6. request'[r] = q
    BY <1>0, <2>1 DEF Become, TypeOK
  <2>7. RequestInv(r)'
    BY <1>0, <2>1, <2>3, <2>4, <2>6 DEF RequestInv
  <2> QED BY <2>1, <2>3, <2>5, <2>7, OneRequest
<1>3. ASSUME NEW r \in Requests, NEW f \in Queries, NEW n \in BOOLEAN, Miss(r, f, n)
      PROVE  Inv'
  <2> DEFINE q == [pc |-> "querying", query |-> f, noCache |-> n,
                   since |-> now, body |-> NoBody, at |-> now]
  <2>1. Become(r, q) /\ UNCHANGED <<now, cache, newest>>
    BY <1>3 DEF Miss
  <2>2. q \in Begun
    BY <1>0 DEF Begun, Stages
  <2>3. request'[r] = q
    BY <1>0, <2>1 DEF Become, TypeOK
  <2>4. RequestInv(r)'
    BY <1>0, <2>1, <2>3 DEF RequestInv
  <2> QED BY <2>1, <2>2, <2>4, OneRequest
<1>4. ASSUME NEW r \in Requests, RelaysRead(r) PROVE Inv'
  <2> DEFINE b == [reading |-> Reading(request[r].query), readAt |-> now]
             q == [request[r] EXCEPT !.pc = "read", !.body = b]
  <2>1. /\ request[r].pc = "querying" /\ RequestInv(r) /\ Become(r, q)
        /\ UNCHANGED <<now, cache, newest>>
    BY <1>4 DEF RelaysRead, At, Inv
  <2>2. request[r] \in Begun
    BY <1>0, <2>1, BegunUnlessIdle
  <2>3. request[r].query \in Queries /\ b \in Body
    BY <1>0, <2>2, KeysOfQueries DEF Begun
  <2>4. q \in Begun /\ q.pc = "read" /\ q.body = b /\ q.query = request[r].query
        /\ q.since = request[r].since
    BY <2>2, <2>3 DEF Begun, Stages
  <2>5. request'[r] = q
    BY <1>0, <2>1 DEF Become, TypeOK
  <2>6. RequestInv(r)'
    BY <1>0, <2>1, <2>3, <2>4, <2>5 DEF RequestInv
  <2> QED BY <2>1, <2>3, <2>4, <2>6, OneRequest
<1>5. ASSUME NEW r \in Requests, Answer(r) PROVE Inv'
  <2> DEFINE b == request[r].body
             f == request[r].query
             k == CacheKey(f)
             q == [request[r] EXCEPT !.pc = "served", !.at = now]
  <2>1. request[r].pc = "read" /\ RequestInv(r) /\ Become(r, q) /\ now' = now
    BY <1>5 DEF Answer, At, Inv
  <2>2. request[r] \in Begun
    BY <1>0, <2>1, BegunUnlessIdle
  <2>3. /\ b \in Body /\ b.reading = Reading(f) /\ b.readAt \in Nat
        /\ request[r].since \in Nat /\ f \in Queries /\ k \in Keys
    BY <2>1, <2>2, KeysOfQueries DEF RequestInv, Begun, Body, Times
  <2>4. b.readAt <= now /\ now <= b.readAt + QueryTime
    BY <1>0, <2>1, <2>3 DEF RequestInv
  <2>5. q \in Begun /\ q.pc = "served" /\ q.body = b /\ q.query = f /\ q.at = now
    BY <1>0, <2>2 DEF Begun, Stages
  <2>6. request'[r] = q /\ request' \in [Requests -> {Idle} \cup Begun]
        /\ \A s \in Requests : s # r => request'[s] = request[s]
    BY <1>0, <2>1, <2>5 DEF Become, TypeOK, Begun
  <2>7. \A s \in Requests : RequestInv(s)'
    <3>1. ASSUME NEW s \in Requests, s # r PROVE RequestInv(s)'
      <4>1. RequestInv(s) /\ request'[s] = request[s] /\ now' = now
        BY <2>1, <2>6, <3>1 DEF Inv
      <4> QED BY <4>1 DEF RequestInv
    <3>2. RequestInv(r)'
      <4>1. now - b.readAt <= QueryTime
        BY <1>0, <2>3, <2>4
      <4>2. /\ request'[r].pc = "served" /\ request'[r].body = b
            /\ request'[r].query = f /\ request'[r].at = now
        BY <2>5, <2>6
      <4> HIDE DEF b, f, k, q
      <4> QED BY <2>3, <4>1, <4>2 DEF RequestInv
    <3> QED BY <3>1, <3>2
  <2>8. \A s \in Requests : At(s, {"read", "served"})' => request'[s].body \in Body
    BY <2>7 DEF At, RequestInv
  <2>9. CASE UNCHANGED <<cache, newest>>
    <3>1. TypeOK'
      BY <1>0, <2>1, <2>6, <2>8, <2>9 DEF TypeOK, Begun
    <3>2. \A j \in Keys : EntryInv(j)'
      BY <2>1, <2>9 DEF EntryInv, Inv
    <3> QED BY <2>7, <3>1, <3>2 DEF Inv, Keys
  <2>10. CASE /\ cache' = [cache EXCEPT ![k] = Stored(cache[k], b)]
              /\ newest' = [newest EXCEPT ![k] = IF b.readAt > @ THEN b.readAt ELSE @]
    <3>1. Stored(cache[k], b) \in Entry
      BY <1>0, <2>3 DEF Stored, Entry, Times
    <3>2. b.readAt \in Times
      BY <2>3 DEF Body
    <3>3. TypeOK'
      BY <1>0, <2>1, <2>6, <2>8, <2>10, <3>1, <3>2 DEF TypeOK, Begun
    <3>4. ASSUME NEW j \in Keys PROVE EntryInv(j)'
      <4>1. CASE j = k
        <5>1. newest[k] \in Nat /\ newest[k] <= now
          BY <1>0, <2>3 DEF TypeOK, Times, Inv, EntryInv
        <5>2. newest'[k] = IF b.readAt > newest[k] THEN b.readAt ELSE newest[k]
          BY <1>0, <2>3, <2>10 DEF TypeOK
        <5>3. newest'[k] <= now
          BY <1>0, <2>3, <2>4, <5>1, <5>2
        <5>4. cache'[k].body = b /\ cache'[k].expiresAt = now + Ttl
          BY <1>0, <2>3, <2>10 DEF TypeOK, Stored
        <5>5. b.readAt + QueryTime >= newest'[k] /\ newest'[k] \in Nat
          BY <1>0, <2>3, <2>4, <5>1, <5>2, <5>3
        <5>6. now + Ttl <= b.readAt + QueryTime + Ttl
          BY <1>0, <2>3, <2>4
        <5>7. ASSUME NEW p \in Queries, CacheKey(p) = k PROVE b.reading = Reading(p)
          BY <2>3, <5>7, KeysOfQueries, KeyDecides
        <5>8. now' = now /\ j = k
          BY <2>1, <4>1
        <5> HIDE DEF b, f, k, q
        <5> QED BY <5>3, <5>4, <5>5, <5>6, <5>7, <5>8 DEF EntryInv
      <4>2. CASE j # k
        <5>1. newest'[j] = newest[j] /\ cache'[j] = cache[j]
          BY <1>0, <2>10, <4>2 DEF TypeOK
        <5> QED BY <2>1, <5>1 DEF EntryInv, Inv
      <4> QED BY <4>1, <4>2
    <3> QED BY <2>7, <3>3, <3>4 DEF Inv, Keys
  <2> QED BY <1>5, <2>9, <2>10 DEF Answer
<1>6. ASSUME NEW r \in Requests, Fail(r) PROVE Inv'
  <2> DEFINE q == [request[r] EXCEPT !.pc = "failed", !.body = NoBody, !.at = now]
  <2>1. /\ request[r].pc \in {"querying", "read"} /\ Become(r, q)
        /\ UNCHANGED <<now, cache, newest>>
    BY <1>6 DEF Fail, At
  <2>2. request[r] \in Begun
    BY <1>0, <2>1, BegunUnlessIdle
  <2>3. q \in Begun /\ q.pc = "failed"
    BY <1>0, <2>2 DEF Begun, Stages
  <2>4. request'[r] = q
    BY <1>0, <2>1 DEF Become, TypeOK
  <2>5. RequestInv(r)'
    BY <2>3, <2>4 DEF RequestInv
  <2> QED BY <2>1, <2>3, <2>5, OneRequest
<1>7. CASE UNCHANGED vars
  <2>1. TypeOK' /\ (\A r \in Requests : RequestInv(r)') /\ (\A k \in Keys : EntryInv(k)')
    BY <1>7 DEF vars, Inv, TypeOK, RequestInv, EntryInv, At
  <2> QED BY <2>1 DEF Inv, Keys
<1> QED BY <1>1, <1>2, <1>3, <1>4, <1>5, <1>6, <1>7 DEF Next

\* The invariant holds in every reachable state.
THEOREM CacheInvHolds == Spec => []Inv
BY InitInv, StepInv, PTL DEF Spec

\* Types: an answer always has a body, for any number of requests.
THEOREM CacheTypeCorrect == Spec => []TypeOK
<1>1. Inv => TypeOK
  BY DEF Inv
<1> QED BY <1>1, CacheInvHolds, PTL

\* A request is answered with the answer to its own question, from the relays or
\* from the cache, for any query strings: by KeyDecides, an entry under the key of
\* a question answers it.
THEOREM AnswerFits == Spec => []RightAnswer
<1>1. Inv => RightAnswer
  BY DEF Inv, RightAnswer, RequestInv, Served, At
<1> QED BY <1>1, CacheInvHolds, PTL

\* No answer is older than the time to live and one query together.
THEOREM AnswerAgeBounded == Spec => []AnswersNotStale
<1>1. Inv => AnswersNotStale
  BY DEF Inv, AnswersNotStale, RequestInv, Served, At
<1> QED BY <1>1, CacheInvHolds, PTL

\* The cache goes back in time by the length of one query at most.
THEOREM CacheGoesBackLittle == Spec => []GoesBackAtMostOneQuery
<1>1. Inv => GoesBackAtMostOneQuery
  BY DEF Inv, GoesBackAtMostOneQuery, EntryInv
<1> QED BY <1>1, CacheInvHolds, PTL
=============================================================================
