---------------------------- MODULE HealthProbe ----------------------------
(***************************************************************************)
(* lib/src/querier.js: findHealthy() once the listings are found.  A few   *)
(* workers (_mapLimit) share the list; each probes one health URL after    *)
(* the other (checkHealth): is the URL safe, does the server answer, what  *)
(* does the body say (_readCappedJson).  Name servers and providers are    *)
(* outside the library; a worker is cut where it awaits them.              *)
(***************************************************************************)
EXTENDS AddressRules, FiniteSets

CONSTANTS
  Lists,      \* the health URLs of the listings that find() may return
  Limit,      \* HEALTH_CONCURRENCY
  Cap,        \* MAX_HEALTH_BYTES
  ChunkSizes  \* bound: how much a provider sends at once, in the unit of Cap

ASSUME ProbeAssumption == /\ \A l \in Lists : /\ Len(l) \in Nat /\ DOMAIN l = 1 .. Len(l)
                                              /\ \A i \in DOMAIN l :
                                                   \A a \in l[i].addresses : IsAddress(a)
                          /\ Limit \in Nat \ {0}
                          /\ Cap \in Nat
                          /\ ChunkSizes \subseteq Nat \ {0}

\* A health URL: no https URL at all, or localhost by name; an address; or a name
\* with the addresses it resolves to.
Refused           == [kind |-> "refused", addresses |-> {}]
Literal(a)        == [kind |-> "literal", addresses |-> {a}]
Name(addresses)   == [kind |-> "name", addresses |-> addresses]

VARIABLES
  urls,     \* the list, one per listing
  next,     \* the next index to hand out, 0 before the workers start
  item,     \* per worker: the index it works on, 0 for none
  probe,    \* per index: where checkHealth is and what came so far
  results   \* per index: what it came to

vars == <<urls, next, item, probe, results>>

Workers == 1 .. Limit
Indices == DOMAIN urls

Points == {"waiting", "begun", "resolving", "fetching", "reading", "over"}
Sayings == {"nothing", "invalid", "sick", "healthy"}

Init ==
  /\ urls \in Lists
  /\ next = 0
  /\ item = [w \in Workers |-> 0]
  /\ probe = [i \in Indices |-> [pc |-> "waiting", judged |-> FALSE, fetched |-> FALSE,
                                 received |-> 0, said |-> "nothing"]]
  /\ results = [i \in Indices |-> "missing"]

----------------------------------------------------------------------------
(* The pool                                                                *)

\* Mutant: the index is not advanced.
SameIndex(i) == i

NextIndex(i) == i + 1

\* The workers start together, no more than there are listings.
Start ==
  LET n == IF Limit < Len(urls) THEN Limit ELSE Len(urls)
  IN /\ next = 0
     /\ next' = NextIndex(n)
     /\ item' = [w \in Workers |-> IF w <= n THEN w ELSE 0]
     /\ probe' = [i \in Indices |-> IF i <= n THEN [probe[i] EXCEPT !.pc = "begun"] ELSE probe[i]]
     /\ UNCHANGED <<urls, results>>

\* checkHealth has returned: the worker stores that and takes the next index.
Return(w, p, result) ==
  /\ results' = [results EXCEPT ![item[w]] = result]
  /\ LET over == [probe EXCEPT ![item[w]] = [p EXCEPT !.pc = "over"]]
     IN IF next \in Indices
          THEN /\ item' = [item EXCEPT ![w] = next]
               /\ next' = NextIndex(next)
               /\ probe' = [over EXCEPT ![next].pc = "begun"]
          ELSE /\ item' = [item EXCEPT ![w] = 0]
               /\ probe' = over
               /\ UNCHANGED next
  /\ UNCHANGED urls

\* checkHealth of worker w goes on to another await.
Await(w, p) ==
  /\ probe' = [probe EXCEPT ![item[w]] = p]
  /\ UNCHANGED <<urls, next, item, results>>

\* Worker w is at this point of checkHealth.
At(w, point) == item[w] # 0 /\ probe[item[w]].pc = point

----------------------------------------------------------------------------
(* _isUrlSafe and the request                                              *)

\* Every address must be one that may be fetched, and there must be one.
Safe(url) == url.addresses # {} /\ \A a \in url.addresses : ~Blocked(a)

\* The verdict on a URL: the request is sent, or there is no result.
Judge(w) ==
  LET p == [probe[item[w]] EXCEPT !.judged = TRUE]
  IN IF Safe(urls[item[w]])
       THEN Await(w, [p EXCEPT !.pc = "fetching", !.fetched = TRUE])
       ELSE Return(w, p, "null")

\* A name is looked up first.
Examine(w) ==
  /\ At(w, "begun")
  /\ IF urls[item[w]].kind = "name" THEN Await(w, [probe[item[w]] EXCEPT !.pc = "resolving"])
     ELSE Judge(w)

DnsAnswers(w) == At(w, "resolving") /\ Judge(w)

\* Mutant: the lookup is not raced with a timer.
NoTimer(w) == FALSE

\* The timer of the lookup, or the lookup fails.
DnsTimer(w) == At(w, "resolving") /\ Return(w, probe[item[w]], "null")

\* The headers are there and the abort timer is cleared.  A status that is not
\* ok or a declared length (0 for none) above the cap ends it.
Responds(w) ==
  /\ At(w, "fetching")
  /\ \E ok \in BOOLEAN, declared \in {0, Cap, Cap + 1} :
       IF ok /\ declared <= Cap
         THEN Await(w, [probe[item[w]] EXCEPT !.pc = "reading"])
         ELSE Return(w, probe[item[w]], "null")

\* The abort timer, a redirect or a network error.
FetchTimer(w) == At(w, "fetching") /\ Return(w, probe[item[w]], "null")

----------------------------------------------------------------------------
(* _readCappedJson                                                         *)

\* Mutant: each chunk is held against the cap for itself.
ChunkTooMuch(received, n) == n > Cap

TooMuch(received, n) == received + n > Cap

Chunk(w) ==
  /\ At(w, "reading")
  /\ \E n \in ChunkSizes :
       LET p == [probe[item[w]] EXCEPT !.received = @ + n]
       IN IF TooMuch(probe[item[w]].received, n) THEN Return(w, p, "null") ELSE Await(w, p)

\* Mutant: the words of a health endpoint are not looked at.
AnyWord(said) == IF said = "invalid" THEN "null" ELSE "healthy"

\* What checkHealth makes of a body: the provider says that it is well, that it
\* is not, or nothing that can be read.
Verdict(said) == IF said = "invalid" THEN "null" ELSE said

BodyEnds(w) ==
  /\ At(w, "reading")
  /\ \E said \in Sayings \ {"nothing"} :
       /\ probe[item[w]].received = 0 => said = "invalid"
       /\ Return(w, [probe[item[w]] EXCEPT !.said = said], Verdict(said))

\* The connection breaks, or fetch's own limit on a silent body is reached.
BodyFails(w) == At(w, "reading") /\ Return(w, probe[item[w]], "null")

ReadOn(w) == Chunk(w) \/ BodyEnds(w) \/ BodyFails(w)

Next ==
  \/ Start
  \/ \E w \in Workers :
       \/ Examine(w) \/ DnsAnswers(w) \/ DnsTimer(w)
       \/ Responds(w) \/ FetchTimer(w) \/ ReadOn(w)

Spec == Init /\ [][Next]_vars

\* The querier's own steps and timers run.  checkHealth clears its timer before
\* it reads the body, so that something happens to a body that has begun rests
\* on fetch, which gives up on a body that is silent for long.
FairSpec ==
  /\ Spec
  /\ WF_vars(Start)
  /\ \A w \in Workers : /\ WF_vars(Examine(w))
                        /\ WF_vars(DnsTimer(w))
                        /\ WF_vars(FetchTimer(w))
                        /\ WF_vars(ReadOn(w))

----------------------------------------------------------------------------

\* Promise.all: every worker has ended.
AllEnded == next # 0 /\ \A w \in Workers : item[w] = 0

\* The bytes kept of one body: at most the cap and the chunk that exceeds it.
Kept == {c + n : c \in 0 .. Cap, n \in ChunkSizes \cup {0}}

\* What findHealthy returns, in the order of the listings.
Healthy == {i \in Indices : results[i] = "healthy"}

TypeOK ==
  /\ urls \in Lists
  /\ next \in 0 .. Len(urls) + 1
  /\ item \in [Workers -> {0} \cup Indices]
  /\ probe \in [Indices -> [pc : Points, judged : BOOLEAN, fetched : BOOLEAN,
                            received : Kept, said : Sayings]]
  /\ results \in [Indices -> {"missing", "null", "sick", "healthy"}]

\* The workers share the list without a gap or a repetition: an index that was
\* handed out is with one worker or has its result, the others wait for their
\* turn, and when the workers have ended nothing is missing.
PoolExact ==
  /\ \A v, w \in Workers : item[v] = item[w] /\ item[v] # 0 => v = w
  /\ \A i \in Indices :
       /\ probe[i].pc \notin {"waiting", "over"} <=> \E w \in Workers : item[w] = i
       /\ probe[i].pc = "over" <=> results[i] # "missing"
       /\ next # 0 => (probe[i].pc = "waiting" <=> i >= next)
  /\ AllEnded => \A i \in Indices : results[i] # "missing"

\* A request goes out exactly to the URLs whose addresses are all public, in
\* whatever spelling they come, and never before that is known.
FetchedIffPublic ==
  \A i \in Indices :
    /\ probe[i].fetched => probe[i].judged
    /\ probe[i].judged =>
         (probe[i].fetched <=> /\ urls[i].addresses # {}
                               /\ \A a \in urls[i].addresses : PublicAddress(a))

\* A provider is returned exactly if it said that it is well, in a body that
\* came to its end within the cap, after a request that was allowed.
HealthyIffSaid ==
  \A i \in Indices :
    /\ results[i] = "healthy" <=> probe[i].said = "healthy"
    /\ probe[i].said # "nothing" => probe[i].fetched /\ probe[i].received <= Cap

\* Every call of findHealthy ends, whatever name servers and providers do.
FindHealthyEnds == <>AllEnded
=============================================================================
