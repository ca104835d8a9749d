---------------------------- MODULE RateLimiter ----------------------------
(***************************************************************************)
(* lib/src/transports/http/rateLimit.js: a sliding-window limiter per      *)
(* client address with a periodic sweep.  The three limiters of the LNURL  *)
(* server and the one of the HTTP transport are instances of it.           *)
(***************************************************************************)
EXTENDS Integers, Sequences, FiniteSets

CONSTANTS
  Addresses,       \* client addresses (req.ip)
  MaxHits,         \* max
  Window,          \* windowMs, in ticks
  TicksPerSecond,
  MaxTime,         \* bound: the last tick
  MaxRequests      \* bound: requests of one address

ASSUME LimitsAssumption == /\ MaxHits \in Nat \ {0}
                           /\ Window \in Nat \ {0}
                           /\ TicksPerSecond \in Nat \ {0}
                           /\ MaxTime \in Nat
                           /\ MaxRequests \in Nat

VARIABLES
  now,         \* Date.now(), in ticks
  hits,        \* the map: per address its request times, <<>> if absent
  nextSweep,   \* when the sweeper's interval is next due
  log          \* history: per address every request, when, whether it passed,
               \*   and when its Retry-After said to return, 0 without one

vars == <<now, hits, nextSweep, log>>

Init ==
  /\ now = 0
  /\ hits = [a \in Addresses |-> <<>>]
  /\ nextSweep = Window
  /\ log = [a \in Addresses |-> <<>>]

\* Array.filter: the elements of s that are in `keep', in their order.
Filter(s, keep) ==
  LET kept[i \in 0 .. Len(s)] ==
        IF i = 0 THEN <<>>
        ELSE IF s[i] \in keep THEN Append(kept[i - 1], s[i]) ELSE kept[i - 1]
  IN  kept[Len(s)]

\* Mutant: a request exactly one window old still counts.
FreshInclusive == {t \in Nat : t >= now - Window}

\* The times that are less than a window old.
Fresh == {t \in Nat : t > now - Window}

CeilSeconds(ticks) == (ticks + TicksPerSecond - 1) \div TicksPerSecond
AtLeastOne(n) == IF n < 1 THEN 1 ELSE n

\* Mutant: until the newest has.
RetryAfterNewest(timestamps) ==
  AtLeastOne(CeilSeconds(timestamps[Len(timestamps)] + Window - now))

\* Retry-After: whole seconds until the oldest recorded request has left the window.
RetryAfter(timestamps) == AtLeastOne(CeilSeconds(timestamps[1] + Window - now))

\* Mutant: the newest request is put first.
RecordedFirst(a) == <<now>> \o Filter(hits[a], Fresh)

Recorded(a) == Append(Filter(hits[a], Fresh), now)

\* Every request is recorded, the refused ones too.
Request(a) ==
  LET timestamps == Recorded(a)
      passes     == Len(timestamps) <= MaxHits
      retryAt    == IF passes THEN 0 ELSE now + RetryAfter(timestamps) * TicksPerSecond
  IN
  /\ Len(log[a]) < MaxRequests
  /\ hits' = [hits EXCEPT ![a] = timestamps]
  /\ log' = [log EXCEPT ![a] = Append(@, [time |-> now, passed |-> passes, retryAt |-> retryAt])]
  /\ UNCHANGED <<now, nextSweep>>

\* Mutant: the sweep filters nothing, so it finds no empty list to delete.
SweepNothing(timestamps) == timestamps

Swept(timestamps) == Filter(timestamps, Fresh)

Sweep ==
  /\ now >= nextSweep
  /\ nextSweep' = now + Window
  /\ hits' = [a \in Addresses |-> Swept(hits[a])]
  /\ UNCHANGED <<now, log>>

Tick ==
  /\ now < MaxTime
  /\ now' = now + 1
  /\ UNCHANGED <<hits, nextSweep, log>>

Next == Tick \/ Sweep \/ \E a \in Addresses : Request(a)

Spec == Init /\ [][Next]_vars

----------------------------------------------------------------------------
(* What must hold.                                                         *)

Requests(a) == 1 .. Len(log[a])

\* The requests of an address up to its i-th that are less than a window old.
InWindow(a, i) == {j \in 1 .. i : log[a][j].time > log[a][i].time - Window}

\* Types; timestamps are in order and never in the future.
TypeOK ==
  /\ now \in 0 .. MaxTime
  /\ nextSweep \in Nat
  /\ \A a \in Addresses :
       /\ \A i \in Requests(a) : log[a][i].passed \in BOOLEAN
       /\ \A i \in 1 .. Len(hits[a]) :
            hits[a][i] \in 0 .. now /\ (i > 1 => hits[a][i - 1] <= hits[a][i])

\* A request passes exactly if at most max requests of its address, itself
\* included, fall in the window that ends with it: neither the filter nor a
\* sweep at any moment lets one more through or refuses one too many.
LimitExact ==
  \A a \in Addresses : \A i \in Requests(a) :
    log[a][i].passed <=> Cardinality(InWindow(a, i)) <= MaxHits

\* The map holds no address that was silent for a whole window when the
\* sweeper last ran.
MapLean ==
  \A a \in Addresses : hits[a] # <<>> => hits[a][Len(hits[a])] > nextSweep - 2 * Window

\* A client that was refused is never served a whole second before its
\* Retry-After, whatever it and others send meanwhile: the answer asks nobody to
\* wait longer than necessary.
ServedNoEarlier ==
  \A a \in Addresses : \A i, j \in Requests(a) :
    i < j /\ ~log[a][i].passed /\ log[a][j].passed
      => log[a][j].time > log[a][i].retryAt - TicksPerSecond
=============================================================================
