--------------------------- MODULE HttpTransport ---------------------------
(***************************************************************************)
(* lib/src/transports/http/server.js: GET /v1/services, a read-through     *)
(* cache in front of the querier.  The handler runs without a pause except *)
(* while it awaits the relays, so requests overlap exactly there.  What a  *)
(* body contains is abstracted to what was asked of the querier and of the *)
(* server's own filters for it, and the moment the relays were read.       *)
(***************************************************************************)
EXTENDS Integers, ServiceListing

CONSTANTS
  Requests,   \* the requests that are ever made
  Queries,    \* the query strings that they may have
  Kycs,       \* values of the parameter kyc
  Ttl,        \* ttl: how long a body may be served, in ticks; 0 disables
  QueryTime,  \* longest query: the querier's retries and its hard stop, in ticks
  MaxTime     \* bound: the clock stops here

\* A query string, noCache apart: a parameter that is missing or empty is
\* Absent, a limit that is no number is 0.
Query == [find : Question, freshOnly : {"true", "false", Absent}, limit : Int,
          healthy : {"true", "false", Absent}, kyc : Kycs \cup {Absent},
          status : Statuses \cup {Absent}]

ASSUME QueriesAssumption == Queries \subseteq Query
ASSUME TimesAssumption == Ttl \in Nat /\ QueryTime \in Nat /\ MaxTime \in Nat

VARIABLES
  now,      \* Date.now()
  cache,    \* cache: key -> { expiresAt, body }, NoEntry if absent
  request,  \* each request: its query string and where its handler is
  newest    \* history: per key, the latest reading that an answer was built from

vars == <<now, cache, request, newest>>

----------------------------------------------------------------------------
(* What is asked and under which key it is kept.                           *)

MaxLimit     == 200
DefaultLimit == 500

FreshOnly(q) == q.freshOnly # "false"
IsHealthy(q) == q.healthy = "true"

\* filters.limit: 0 where the handler sets none.
Limit(q) == IF q.limit <= 0 THEN 0 ELSE IF q.limit < MaxLimit THEN q.limit ELSE MaxLimit

\* Mutant: the filters that the server applies itself are not part of the key.
KeyOfFind(q) ==
  [find |-> q.find, freshOnly |-> FreshOnly(q), limit |-> Limit(q), healthy |-> IsHealthy(q)]

\* buildCacheKey: eleven values as they were typed, none of them looked up.
CacheKey(q) ==
  [country |-> q.find.country, direction |-> q.find.direction,
   service_type |-> q.find.service_type, rail_in |-> q.find.rail_in,
   rail_out |-> q.find.rail_out, currency |-> q.find.currency,
   freshOnly |-> FreshOnly(q), limit |-> Limit(q), healthy |-> IsHealthy(q),
   kyc |-> q.kyc, status |-> q.status]

\* All that the answer to q depends on, relays and clock apart: the filter that
\* the relays and the querier apply, and what the handler does with the result.
Reading(q) ==
  [select |-> [f \in Asked(q.find) |-> Values(q.find, f)], freshOnly |-> FreshOnly(q),
   limit |-> IF Limit(q) = 0 THEN DefaultLimit ELSE Limit(q),
   probed |-> IsHealthy(q), kyc |-> q.kyc, status |-> q.status]

Keys == {CacheKey(q) : q \in Queries}

----------------------------------------------------------------------------

Times   == 0 .. MaxTime
Body    == [reading : {Reading(q) : q \in Queries}, readAt : Times]
NoBody  == [readAt |-> -1]
Entry   == [expiresAt : 0 .. MaxTime + Ttl, body : Body]
NoEntry == [expiresAt |-> -1]
Idle    == [pc |-> "idle"]
Stages  == {"querying", "read", "served", "failed"}

Init ==
  /\ now = 0
  /\ cache   = [k \in Keys |-> NoEntry]
  /\ request = [r \in Requests |-> Idle]
  /\ newest  = [k \in Keys |-> 0]

At(r, stages) == request[r].pc \in stages
Querying == {r \in Requests : At(r, {"querying", "read"})}
Become(r, record) == request' = [request EXCEPT ![r] = record]

Bypass(noCache) == Ttl = 0 \/ noCache

\* Mutant: any entry will do.
AnyEntry(entry) == entry # NoEntry

Fresh(entry) == entry # NoEntry /\ entry.expiresAt > now

\* Mutant: an entry that is there gets a new expiry and keeps its body.
Renewed(entry, body) ==
  [expiresAt |-> now + Ttl, body |-> IF entry = NoEntry THEN body ELSE entry.body]

\* The lifetime starts when the query has ended; an entry is overwritten.
Stored(entry, body) == [expiresAt |-> now + Ttl, body |-> body]

----------------------------------------------------------------------------

\* A fresh body answers at once.
Hit(r, q) ==
  /\ At(r, {"idle"})
  /\ ~Bypass(FALSE)
  /\ Fresh(cache[CacheKey(q)])
  /\ Become(r, [pc |-> "served", query |-> q, noCache |-> FALSE,
                since |-> now, body |-> cache[CacheKey(q)].body, at |-> now])
  /\ UNCHANGED <<now, cache, newest>>

\* Anything else queries the relays; other requests may do so too.
Miss(r, q, noCache) ==
  /\ At(r, {"idle"})
  /\ Bypass(noCache) \/ ~Fresh(cache[CacheKey(q)])
  /\ Become(r, [pc |-> "querying", query |-> q, noCache |-> noCache,
                since |-> now, body |-> NoBody, at |-> now])
  /\ UNCHANGED <<now, cache, newest>>

\* Outside the server: the relays are read at some moment of the query.
RelaysRead(r) ==
  /\ At(r, {"querying"})
  /\ Become(r, [request[r] EXCEPT
       !.pc = "read", !.body = [reading |-> Reading(request[r].query), readAt |-> now]])
  /\ UNCHANGED <<now, cache, newest>>

Answer(r) ==
  LET body == request[r].body
      k    == CacheKey(request[r].query)
  IN /\ At(r, {"read"})
     /\ Become(r, [request[r] EXCEPT !.pc = "served", !.at = now])
     /\ IF Bypass(request[r].noCache)
          THEN UNCHANGED <<cache, newest>>
          ELSE /\ cache' = [cache EXCEPT ![k] = Stored(cache[k], body)]
               /\ newest' = [newest EXCEPT ![k] = IF body.readAt > @ THEN body.readAt ELSE @]
     /\ UNCHANGED now

\* Mutant: the failure is cached, as an empty answer.
FailCached(r) ==
  /\ At(r, {"querying", "read"})
  /\ Become(r, [request[r] EXCEPT !.pc = "failed", !.body = NoBody, !.at = now])
  /\ cache' = [cache EXCEPT ![CacheKey(request[r].query)] = Stored(@, NoBody)]
  /\ UNCHANGED <<now, newest>>

\* No relay answered: 502, and nothing is stored.
Fail(r) ==
  /\ At(r, {"querying", "read"})
  /\ Become(r, [request[r] EXCEPT !.pc = "failed", !.body = NoBody, !.at = now])
  /\ UNCHANGED <<now, cache, newest>>

\* Time passes while no query is overdue.
Tick ==
  /\ now < MaxTime
  /\ \A r \in Querying : now < request[r].since + QueryTime
  /\ now' = now + 1
  /\ UNCHANGED <<cache, request, newest>>

Next ==
  \/ Tick
  \/ \E r \in Requests :
       \/ RelaysRead(r) \/ Answer(r) \/ Fail(r)
       \/ \E q \in Queries : Hit(r, q) \/ \E noCache \in BOOLEAN : Miss(r, q, noCache)

Spec == Init /\ [][Next]_vars

----------------------------------------------------------------------------

\* Types; an answer always has a body and so has every entry of the cache, which
\* therefore never holds a failure.
TypeOK ==
  /\ now \in Times
  /\ cache \in [Keys -> Entry \cup {NoEntry}]
  /\ request \in [Requests -> {Idle} \cup
       [pc : Stages, query : Queries, noCache : BOOLEAN,
        since : Times, body : Body \cup {NoBody}, at : Times]]
  /\ \A r \in Requests : At(r, {"read", "served"}) => request[r].body \in Body
  /\ newest \in [Keys -> Times]

Served == {r \in Requests : At(r, {"served"})}

\* A wallet is never given the answer to another wallet's question: whatever of
\* the query string changes the answer is in the key, although the key is made
\* of what was typed and the answer of what the querier makes of it.
RightAnswer == \A r \in Served : request[r].body.reading = Reading(request[r].query)

\* No answer is older than the time to live and one query together: the expiry
\* counts from the end of a query, the contents from its reading.
AnswersNotStale ==
  \A r \in Served :
    LET age == request[r].at - request[r].body.readAt
    IN age <= QueryTime \/ age < Ttl + QueryTime

\* Overlapping queries may replace a newer body by an older one, with a later
\* expiry; never by one that is older by more than the length of a query.
GoesBackAtMostOneQuery ==
  \A k \in Keys : cache[k] # NoEntry => cache[k].body.readAt + QueryTime >= newest[k]
=============================================================================
