------------------------- MODULE RateLimiterProofs -------------------------
(***************************************************************************)
(* Proofs about RateLimiter, for any addresses, limit, window, length of a *)
(* second and bounds.                                                      *)
(***************************************************************************)
EXTENDS RateLimiter, TLAPS, SequenceTheorems, FiniteSetTheorems, WellFoundedInduction

Entry == [time : Nat, passed : BOOLEAN, retryAt : Nat]

\* The requests of an address were logged in the order in which they came.
LogInv(a) ==
  /\ \A i \in Requests(a) : log[a][i].time <= now
  /\ \A i, j \in Requests(a) : i <= j => log[a][i].time <= log[a][j].time

\* How many requests of an address have been dropped from its list.
Dropped(a) == Len(log[a]) - Len(hits[a])

\* The list is what is left of the log when some of the oldest requests are
\* dropped, all of which have left the window.
ListInv(a) ==
  /\ Dropped(a) \in Nat
  /\ \A i \in 1 .. Len(hits[a]) : hits[a][i] = log[a][Dropped(a) + i].time
  /\ \A j \in 1 .. Dropped(a) : log[a][j].time <= now - Window

\* The sweeper runs at least once a window.
SweepInv == nextSweep \in Nat /\ nextSweep <= now + Window

Inv ==
  /\ now \in 0 .. MaxTime
  /\ hits \in [Addresses -> Seq(Nat)]
  /\ log \in [Addresses -> Seq(Entry)]
  /\ SweepInv
  /\ \A a \in Addresses : LogInv(a) /\ ListInv(a)

----------------------------------------------------------------------------
(* Numbers and sequences                                                   *)

\* Induction over the naturals, with a set in the place of a predicate.
LEMMA SetInduction ==
  ASSUME NEW S, 0 \in S, \A n \in Nat : n \in S => n + 1 \in S
  PROVE  Nat \subseteq S
<1> DEFINE T == Nat \ S
<1> SUFFICES ASSUME T # {} PROVE FALSE
  OBVIOUS
<1>1. PICK x \in T : \A y \in T : ~(<<y, x>> \in OpToRel(<, Nat))
  <2>1. T \subseteq Nat
    OBVIOUS
  <2> HIDE DEF T
  <2> QED BY <2>1, WFMin, NatLessThanWellFounded
<1>2. \A y \in T : ~(y < x)
  BY <1>1 DEF OpToRel
<1>3. x # 0
  OBVIOUS
<1>4. x - 1 \in Nat /\ x - 1 \notin T
  BY <1>2, <1>3
<1> QED BY <1>4

\* What Filter computes when the elements to keep are the last ones.
LEMMA FilterOfSuffix ==
  ASSUME NEW s \in Seq(Nat), NEW keep, NEW k \in 0 .. Len(s),
         \A i \in 1 .. k : s[i] \notin keep,
         \A i \in k + 1 .. Len(s) : s[i] \in keep
  PROVE  Filter(s, keep) = SubSeq(s, k + 1, Len(s))
<1> DEFINE Step(f, i) == IF i = 0 THEN <<>>
                         ELSE IF s[i] \in keep THEN Append(f[i - 1], s[i]) ELSE f[i - 1]
           kept == CHOOSE f : f = [i \in 0 .. Len(s) |-> Step(f, i)]
           left == [i \in 0 .. Len(s) |-> SubSeq(s, k + 1, i)]
<1>1. Len(s) \in Nat
  OBVIOUS
<1>2. \A i \in 0 .. Len(s) : left[i] = Step(left, i)
  <2> SUFFICES ASSUME NEW i \in 0 .. Len(s) PROVE left[i] = Step(left, i)
    OBVIOUS
  <2>1. CASE i <= k
    <3>1. left[i] = <<>>
      BY <1>1, <2>1, SubSeqEmpty
    <3>2. i # 0 => i - 1 \in 0 .. Len(s) /\ s[i] \notin keep /\ left[i - 1] = <<>>
      BY <1>1, <2>1, SubSeqEmpty
    <3> QED BY <3>1, <3>2
  <2>2. CASE i > k
    <3>1. i - 1 \in 0 .. Len(s) /\ i # 0 /\ s[i] \in keep
      BY <1>1, <2>2
    <3>2. SubSeq(s, k + 1, i) = Append(SubSeq(s, k + 1, i - 1), s[i])
      <4>1. k + 1 \in 1 .. Len(s) /\ i \in k + 1 .. Len(s)
        BY <1>1, <2>2
      <4>2. SubSeq(s, k + 1, i) = SubSeq(s, k + 1, i - 1) \o <<s[i]>>
        BY <4>1, SubSeqRecursiveSecond
      <4>3. s[i] \in Nat /\ SubSeq(s, k + 1, i - 1) \in Seq(Nat)
        <5>1. \A j \in k + 1 .. i - 1 : s[j] \in Nat
          BY <1>1, <4>1
        <5> QED BY <4>1, <5>1, SubSeqProperties
      <4> QED BY <4>2, <4>3, AppendIsConcat
    <3> QED BY <3>1, <3>2
  <2>3. i <= k \/ i > k
    BY <1>1
  <2> QED BY <2>1, <2>2, <2>3
<1>3. left = [i \in 0 .. Len(s) |-> Step(left, i)]
  BY <1>2
<1>4. kept = [i \in 0 .. Len(s) |-> Step(kept, i)]
  <2>1. \E f : f = [i \in 0 .. Len(s) |-> Step(f, i)]
    BY <1>3
  <2> QED BY <2>1
<1> HIDE DEF kept, left
<1> DEFINE Same == {n \in Nat : n <= Len(s) => kept[n] = left[n]}
<1>5. Nat \subseteq Same
  <2>1. 0 \in Same
    <3>1. 0 \in 0 .. Len(s)
      BY <1>1
    <3>2. kept[0] = <<>> /\ left[0] = <<>>
      BY <1>2, <1>4, <3>1
    <3> QED BY <3>2
  <2>2. ASSUME NEW n \in Nat, n \in Same PROVE n + 1 \in Same
    <3> SUFFICES ASSUME n + 1 <= Len(s) PROVE kept[n + 1] = left[n + 1]
      OBVIOUS
    <3>1. kept[n] = left[n]
      BY <1>1, <2>2
    <3>2. n + 1 \in 0 .. Len(s) /\ n + 1 # 0 /\ (n + 1) - 1 = n
      BY <1>1
    <3>3. kept[n + 1] = Step(kept, n + 1) /\ left[n + 1] = Step(left, n + 1)
      BY <1>2, <1>4, <3>2
    <3> QED BY <3>1, <3>2, <3>3
  <2> HIDE DEF Same
  <2> QED BY <2>1, <2>2, SetInduction
<1>6. kept[Len(s)] = left[Len(s)]
  <2>1. Len(s) \in Same
    BY <1>1, <1>5
  <2> QED BY <1>1, <2>1
<1>7. Filter(s, keep) = kept[Len(s)]
  BY DEF Filter, kept
<1> QED BY <1>1, <1>6, <1>7 DEF left

\* A sorted sequence is cut in two by any bound.
LEMMA Cut ==
  ASSUME NEW s \in Seq(Nat), NEW c \in Int,
         \A i, j \in 1 .. Len(s) : i <= j => s[i] <= s[j]
  PROVE  \E k \in 0 .. Len(s) : /\ \A i \in 1 .. k : s[i] <= c
                                /\ \A i \in k + 1 .. Len(s) : s[i] > c
<1> DEFINE CutAt(n, k) == /\ \A i \in 1 .. k : s[i] <= c
                          /\ \A i \in k + 1 .. n : s[i] > c
           Fine == {n \in Nat : n <= Len(s) => \E k \in 0 .. n : CutAt(n, k)}
<1>1. Len(s) \in Nat /\ \A i \in 1 .. Len(s) : s[i] \in Nat
  OBVIOUS
<1>2. 0 \in Fine
  <2>1. CutAt(0, 0)
    OBVIOUS
  <2> QED BY <2>1
<1>3. ASSUME NEW n \in Nat, n \in Fine PROVE n + 1 \in Fine
  <2> SUFFICES ASSUME n + 1 <= Len(s) PROVE \E k \in 0 .. n + 1 : CutAt(n + 1, k)
    OBVIOUS
  <2>1. PICK k \in 0 .. n : CutAt(n, k)
    BY <1>1, <1>3
  <2>2. CASE s[n + 1] > c
    <3>1. CutAt(n + 1, k)
      BY <1>1, <2>1, <2>2
    <3>2. k \in 0 .. n + 1
      OBVIOUS
    <3> HIDE DEF CutAt
    <3> QED BY <3>1, <3>2
  <2>3. CASE ~(s[n + 1] > c)
    <3>1. \A i \in 1 .. n + 1 : s[i] <= c
      BY <1>1, <2>3
    <3>2. CutAt(n + 1, n + 1)
      BY <3>1
    <3>3. n + 1 \in 0 .. n + 1
      OBVIOUS
    <3> HIDE DEF CutAt
    <3> QED BY <3>2, <3>3
  <2> QED BY <2>2, <2>3
<1>4. Nat \subseteq Fine
  <2> HIDE DEF Fine
  <2> QED BY <1>2, <1>3, SetInduction
<1>5. Len(s) \in Fine
  BY <1>1, <1>4
<1> QED BY <1>1, <1>5

\* The first multiple of a second that is not before x is less than a second later.
LEMMA CeilTight ==
  ASSUME NEW x \in Nat \ {0}
  PROVE  LET t == AtLeastOne(CeilSeconds(x)) * TicksPerSecond
         IN  t \in Nat /\ x <= t /\ t - TicksPerSecond < x
<1> DEFINE q == CeilSeconds(x)
           T == TicksPerSecond
<1>1. T \in Nat /\ T > 0
  BY LimitsAssumption
<1>2. \A n, d \in Nat : d > 0 => n \div d \in Nat /\ (n \div d) * d <= n /\ n < (n \div d) * d + d
  OBVIOUS
<1>3. x + T - 1 \in Nat
  BY <1>1
<1>4. q \in Nat /\ q * T <= x + T - 1 /\ x + T - 1 < q * T + T
  BY <1>1, <1>2, <1>3 DEF CeilSeconds
<1>5. \A n \in Nat : n * T \in Nat
  BY <1>1
<1>6. q # 0
  <2>1. q = 0 => q * T = 0
    BY <1>1
  <2> QED BY <1>1, <1>4, <2>1
<1>7. AtLeastOne(q) = q
  BY <1>4, <1>6 DEF AtLeastOne
<1> HIDE DEF q
<1> QED BY <1>1, <1>4, <1>5, <1>7 DEF q

----------------------------------------------------------------------------
(* The invariant                                                           *)

\* The log is made of entries.
LEMMA LogEntries ==
  ASSUME Inv, NEW a \in Addresses
  PROVE  /\ Len(log[a]) \in Nat
         /\ \A i \in 1 .. Len(log[a]) : log[a][i] \in Entry /\ log[a][i].time \in Nat
<1>1. log[a] \in Seq(Entry)
  BY DEF Inv
<1>2. \A i \in 1 .. Len(log[a]) : log[a][i] \in Entry
  BY <1>1, ElementOfSeq
<1> QED BY <1>1, <1>2 DEF Entry

\* The times of the list are in order and never in the future.
LEMMA ListSorted ==
  ASSUME Inv, NEW a \in Addresses
  PROVE  /\ \A i \in 1 .. Len(hits[a]) : hits[a][i] <= now
         /\ \A i, j \in 1 .. Len(hits[a]) : i <= j => hits[a][i] <= hits[a][j]
<1>1. Len(hits[a]) \in Nat /\ Len(log[a]) \in Nat /\ Dropped(a) \in Nat
  BY DEF Inv, ListInv
<1>2. \A i \in 1 .. Len(hits[a]) :
         Dropped(a) + i \in Requests(a) /\ hits[a][i] = log[a][Dropped(a) + i].time
  BY <1>1 DEF Inv, ListInv, Dropped, Requests
<1>3. \A i \in 1 .. Len(hits[a]) : hits[a][i] <= now
  BY <1>2 DEF Inv, LogInv
<1>4. ASSUME NEW i \in 1 .. Len(hits[a]), NEW j \in 1 .. Len(hits[a]), i <= j
      PROVE  hits[a][i] <= hits[a][j]
  <2>1. Dropped(a) + i <= Dropped(a) + j
    BY <1>1, <1>4
  <2> QED BY <1>2, <2>1 DEF Inv, LogInv
<1> QED BY <1>3, <1>4

\* The filter drops the oldest requests and no others.
LEMMA FreshIsSuffix ==
  ASSUME Inv, NEW a \in Addresses
  PROVE  \E k \in 0 .. Len(hits[a]) :
           /\ Filter(hits[a], Fresh) = SubSeq(hits[a], k + 1, Len(hits[a]))
           /\ \A i \in 1 .. k : hits[a][i] <= now - Window
           /\ \A i \in k + 1 .. Len(hits[a]) : hits[a][i] > now - Window
<1>1. hits[a] \in Seq(Nat) /\ now - Window \in Int
  BY LimitsAssumption DEF Inv
<1>2. PICK k \in 0 .. Len(hits[a]) :
         /\ \A i \in 1 .. k : hits[a][i] <= now - Window
         /\ \A i \in k + 1 .. Len(hits[a]) : hits[a][i] > now - Window
  BY <1>1, ListSorted, Cut
<1>3. Len(hits[a]) \in Nat /\ \A i \in 1 .. Len(hits[a]) : hits[a][i] \in Nat
  BY <1>1
<1>4. \A i \in 1 .. k : hits[a][i] \notin Fresh
  BY <1>1, <1>2, <1>3 DEF Fresh
<1>5. \A i \in k + 1 .. Len(hits[a]) : hits[a][i] \in Fresh
  BY <1>1, <1>2, <1>3 DEF Fresh
<1>6. Filter(hits[a], Fresh) = SubSeq(hits[a], k + 1, Len(hits[a]))
  BY <1>1, <1>4, <1>5, FilterOfSuffix
<1> QED BY <1>2, <1>6

\* What is left of the list after the filter, as part of the log.
LEMMA FreshList ==
  ASSUME Inv, NEW a \in Addresses
  PROVE  LET left == Filter(hits[a], Fresh)
             d    == Len(log[a]) - Len(left)
         IN  /\ left \in Seq(Nat)
             /\ d \in Nat
             /\ \A i \in 1 .. Len(left) : left[i] = log[a][d + i].time /\ left[i] > now - Window
             /\ \A j \in 1 .. d : log[a][j].time <= now - Window
<1> DEFINE left == Filter(hits[a], Fresh)
           n == Len(hits[a])
           d == Len(log[a]) - Len(left)
<1>1. PICK k \in 0 .. n : /\ left = SubSeq(hits[a], k + 1, n)
                          /\ \A i \in 1 .. k : hits[a][i] <= now - Window
                          /\ \A i \in k + 1 .. n : hits[a][i] > now - Window
  BY FreshIsSuffix
<1> HIDE DEF left
<1>2. /\ hits[a] \in Seq(Nat) /\ n \in Nat /\ Len(log[a]) \in Nat
      /\ Dropped(a) \in Nat /\ Len(log[a]) = Dropped(a) + n
  BY DEF Inv, ListInv, Dropped
<1>3. /\ left \in Seq(Nat)
      /\ Len(left) = n - k
      /\ \A i \in 1 .. n - k : left[i] = hits[a][k + i]
  <2>1. \A i \in k + 1 .. n : hits[a][i] \in Nat
    <3>1. \A i \in k + 1 .. n : i \in 1 .. n
      BY <1>2
    <3> QED BY <1>2, <3>1, ElementOfSeq
  <2>2. k + 1 \in Int /\ n \in Int
    BY <1>2
  <2>3. /\ left \in Seq(Nat)
        /\ Len(left) = IF k + 1 <= n THEN n - (k + 1) + 1 ELSE 0
        /\ \A i \in 1 .. n - (k + 1) + 1 : left[i] = hits[a][(k + 1) + i - 1]
    BY <1>1, <2>1, <2>2, SubSeqProperties
  <2> QED BY <1>2, <2>3
<1>4. d = Dropped(a) + k
  BY <1>2, <1>3
<1>5. /\ \A i \in 1 .. n : hits[a][i] = log[a][Dropped(a) + i].time
      /\ \A j \in 1 .. Dropped(a) : log[a][j].time <= now - Window
  BY DEF Inv, ListInv
<1> HIDE DEF n, d
<1>6. \A i \in 1 .. n - k : left[i] = log[a][d + i].time /\ left[i] > now - Window
  <2> SUFFICES ASSUME NEW i \in 1 .. n - k
               PROVE  left[i] = log[a][d + i].time /\ left[i] > now - Window
    OBVIOUS
  <2>1. k + i \in k + 1 .. n /\ k + i \in 1 .. n /\ Dropped(a) + (k + i) = d + i
    BY <1>2, <1>4
  <2>2. hits[a][k + i] = log[a][Dropped(a) + (k + i)].time
    BY <1>5, <2>1
  <2>3. hits[a][k + i] > now - Window
    BY <1>1, <2>1
  <2>4. left[i] = hits[a][k + i]
    BY <1>3
  <2> QED BY <2>1, <2>2, <2>3, <2>4
<1>7. \A j \in 1 .. d : log[a][j].time <= now - Window
  <2> SUFFICES ASSUME NEW j \in 1 .. d PROVE log[a][j].time <= now - Window
    OBVIOUS
  <2>1. CASE j <= Dropped(a)
    <3>1. j \in 1 .. Dropped(a)
      BY <1>2, <1>4, <2>1
    <3> QED BY <1>5, <3>1
  <2>2. CASE j > Dropped(a)
    <3>1. j - Dropped(a) \in 1 .. k /\ j - Dropped(a) \in 1 .. n /\ Dropped(a) + (j - Dropped(a)) = j
      BY <1>2, <1>4, <2>2
    <3>2. hits[a][j - Dropped(a)] = log[a][j].time
      BY <1>5, <3>1
    <3> QED BY <1>1, <3>1, <3>2
  <2>3. j <= Dropped(a) \/ j > Dropped(a)
    BY <1>2, <1>4
  <2> QED BY <2>1, <2>2, <2>3
<1>8. d \in Nat
  BY <1>2, <1>4
<1> QED BY <1>3, <1>6, <1>7, <1>8 DEF left, n, d

\* When a request that leaves this list is told to return, 0 if it passes.
Told(timestamps) ==
  IF Len(timestamps) <= MaxHits THEN 0 ELSE now + RetryAfter(timestamps) * TicksPerSecond

\* A refused request is told to return less than a second after the oldest request
\* that it counted has left the window.
LEMMA ToldInTime ==
  ASSUME Inv, NEW a \in Addresses
  PROVE  /\ Told(Recorded(a)) \in Nat
         /\ Len(Recorded(a)) > MaxHits =>
              Told(Recorded(a)) - TicksPerSecond < Recorded(a)[1] + Window
<1> DEFINE left == Filter(hits[a], Fresh)
           list == Recorded(a)
           delay == AtLeastOne(CeilSeconds(list[1] + Window - now)) * TicksPerSecond
<1>1. left \in Seq(Nat) /\ \A i \in 1 .. Len(left) : left[i] > now - Window
  BY FreshList
<1>2. now \in Nat /\ Window \in Nat /\ Window > 0 /\ MaxHits \in Nat /\ TicksPerSecond \in Nat
  BY LimitsAssumption DEF Inv
<1> HIDE DEF left
<1>3. /\ list = Append(left, now) /\ Len(left) \in Nat /\ Len(list) = Len(left) + 1
      /\ \A i \in 1 .. Len(left) : list[i] = left[i]
      /\ list[Len(left) + 1] = now
  BY <1>1, <1>2 DEF Recorded, left
<1>4. list[1] \in Nat /\ list[1] > now - Window
  <2>1. CASE Len(left) = 0
    BY <1>2, <1>3, <2>1
  <2>2. CASE Len(left) # 0
    <3>1. 1 \in 1 .. Len(left)
      BY <1>3, <2>2
    <3> QED BY <1>1, <1>3, <3>1
  <2> QED BY <2>1, <2>2
<1>5. list[1] + Window - now \in Nat \ {0}
  BY <1>2, <1>4
<1>6. delay \in Nat /\ delay - TicksPerSecond < list[1] + Window - now
  BY <1>5, CeilTight
<1>7. Told(list) = IF Len(list) <= MaxHits THEN 0 ELSE now + delay
  BY DEF Told, RetryAfter
<1> HIDE DEF list, delay
<1> QED BY <1>2, <1>3, <1>4, <1>6, <1>7 DEF list

\* Initially nobody has asked for anything.
LEMMA LimiterInit == Init => Inv
<1> SUFFICES ASSUME Init PROVE Inv
  OBVIOUS
<1>1. <<>> \in Seq(Nat) /\ <<>> \in Seq(Entry) /\ Len(<<>>) = 0
  OBVIOUS
<1>2. ASSUME NEW a \in Addresses PROVE LogInv(a) /\ ListInv(a)
  BY <1>1 DEF Init, LogInv, ListInv, Dropped, Requests
<1>3. now \in 0 .. MaxTime /\ SweepInv
  BY LimitsAssumption DEF Init, SweepInv
<1> QED BY <1>1, <1>2, <1>3 DEF Init, Inv

\* A request adds itself to both lists and drops what is stale.
LEMMA RequestStep ==
  ASSUME Inv, NEW a \in Addresses, Request(a)
  PROVE  Inv'
<1> DEFINE left == Filter(hits[a], Fresh)
           passes == Len(Recorded(a)) <= MaxHits
           entry == [time |-> now, passed |-> passes, retryAt |-> Told(Recorded(a))]
           d == Len(log[a]) - Len(left)
<1>1. /\ hits' = [hits EXCEPT ![a] = Recorded(a)]
      /\ log' = [log EXCEPT ![a] = Append(@, entry)]
      /\ UNCHANGED <<now, nextSweep>>
  BY DEF Request, Told
<1>2. /\ left \in Seq(Nat)
      /\ d \in Nat
      /\ \A i \in 1 .. Len(left) : left[i] = log[a][d + i].time /\ left[i] > now - Window
      /\ \A j \in 1 .. d : log[a][j].time <= now - Window
  BY FreshList
<1>3. now \in Nat /\ entry \in Entry /\ passes \in BOOLEAN
  <2>1. now \in Nat /\ Told(Recorded(a)) \in Nat
    BY ToldInTime DEF Inv
  <2> QED BY <2>1 DEF Entry
<1> HIDE DEF left
<1>4. /\ Recorded(a) = Append(left, now)
      /\ Recorded(a) \in Seq(Nat)
      /\ Len(Recorded(a)) = Len(left) + 1
      /\ \A i \in 1 .. Len(left) : Recorded(a)[i] = left[i]
      /\ Recorded(a)[Len(left) + 1] = now
  BY <1>2, <1>3 DEF Recorded, left
<1> HIDE DEF entry
<1>5. /\ log'[a] = Append(log[a], entry)
      /\ log'[a] \in Seq(Entry)
      /\ Len(log'[a]) = Len(log[a]) + 1
      /\ \A i \in 1 .. Len(log[a]) : log'[a][i] = log[a][i]
      /\ log'[a][Len(log[a]) + 1] = entry
      /\ log[a] \in Seq(Entry) /\ Len(log[a]) \in Nat
  BY <1>1, <1>3 DEF Inv
<1>6. hits'[a] = Recorded(a)
  BY <1>1 DEF Inv
<1>7. \A b \in Addresses : b # a => hits'[b] = hits[b] /\ log'[b] = log[b]
  BY <1>1 DEF Inv
<1>8. hits' \in [Addresses -> Seq(Nat)] /\ log' \in [Addresses -> Seq(Entry)]
  BY <1>1, <1>3, <1>4 DEF Inv
<1>9. LogInv(a)'
  <2>1. entry.time = now
    BY DEF entry
  <2>2. Requests(a)' = 1 .. Len(log[a]) + 1
    BY <1>5 DEF Requests
  <2>3. \A i \in 1 .. Len(log[a]) : log[a][i].time <= now /\ log[a][i].time \in Nat
    BY LogEntries DEF Inv, LogInv, Requests
  <2>4. \A i \in 1 .. Len(log[a]) + 1 : log'[a][i].time <= now /\ log'[a][i].time \in Nat
    BY <1>3, <1>5, <2>1, <2>3
  <2>5. \A i, j \in 1 .. Len(log[a]) + 1 : i <= j => log'[a][i].time <= log'[a][j].time
    <3> SUFFICES ASSUME NEW i \in 1 .. Len(log[a]) + 1, NEW j \in 1 .. Len(log[a]) + 1, i <= j
                 PROVE  log'[a][i].time <= log'[a][j].time
      OBVIOUS
    <3>1. CASE j = Len(log[a]) + 1
      BY <1>5, <2>1, <2>4, <3>1
    <3>2. CASE j # Len(log[a]) + 1
      <4>1. i \in 1 .. Len(log[a]) /\ j \in 1 .. Len(log[a])
        BY <1>5, <3>2
      <4>2. log[a][i].time <= log[a][j].time
        BY <4>1 DEF Inv, LogInv, Requests
      <4> QED BY <1>5, <4>1, <4>2
    <3> QED BY <3>1, <3>2
  <2> QED BY <1>1, <2>2, <2>4, <2>5 DEF LogInv
<1>10. ListInv(a)'
  <2>1. Len(left) \in Nat /\ Len(log[a]) \in Nat /\ d \in Nat /\ d + Len(left) = Len(log[a])
    <3>1. Len(left) \in Nat /\ Len(log[a]) \in Nat
      BY <1>2, LogEntries
    <3> QED BY <1>2, <3>1
  <2>4. Dropped(a)' = d
    <3>1. Len(hits'[a]) = Len(left) + 1 /\ Len(log'[a]) = Len(log[a]) + 1
      BY <1>4, <1>5, <1>6
    <3> QED BY <2>1, <3>1 DEF Dropped
  <2> HIDE DEF d
  <2>2. \A i \in 1 .. Len(left) + 1 : Recorded(a)[i] = log'[a][d + i].time
    <3> SUFFICES ASSUME NEW i \in 1 .. Len(left) + 1 PROVE Recorded(a)[i] = log'[a][d + i].time
      OBVIOUS
    <3>1. CASE i = Len(left) + 1
      <4>1. d + i = Len(log[a]) + 1
        BY <2>1, <3>1
      <4> QED BY <1>4, <1>5, <3>1, <4>1 DEF entry
    <3>2. CASE i # Len(left) + 1
      <4>1. i \in 1 .. Len(left) /\ d + i \in 1 .. Len(log[a])
        BY <1>2, <1>5, <2>1, <3>2
      <4> QED BY <1>2, <1>4, <1>5, <4>1
    <3> QED BY <3>1, <3>2
  <2>3. \A j \in 1 .. d : log'[a][j].time <= now - Window
    <3>1. \A j \in 1 .. d : j \in 1 .. Len(log[a])
      BY <1>5, <2>1
    <3> QED BY <1>2, <1>5, <3>1
  <2> QED BY <1>1, <1>2, <1>4, <1>6, <2>1, <2>4, <2>2, <2>3 DEF ListInv
<1>11. ASSUME NEW b \in Addresses, b # a PROVE LogInv(b)' /\ ListInv(b)'
  BY <1>1, <1>7, <1>11 DEF Inv, LogInv, ListInv, Dropped, Requests
<1>12. (now \in 0 .. MaxTime /\ SweepInv)'
  BY <1>1 DEF Inv, SweepInv
<1> QED BY <1>8, <1>9, <1>10, <1>11, <1>12 DEF Inv

\* A sweep drops what is stale from every list.
LEMMA SweepStep == Inv /\ Sweep => Inv'
<1> SUFFICES ASSUME Inv, Sweep PROVE Inv'
  OBVIOUS
<1>1. /\ nextSweep' = now + Window
      /\ hits' = [a \in Addresses |-> Filter(hits[a], Fresh)]
      /\ UNCHANGED <<now, log>>
  BY DEF Sweep, Swept
<1>2. ASSUME NEW a \in Addresses PROVE ListInv(a)' /\ hits'[a] \in Seq(Nat)
  <2>1. hits'[a] = Filter(hits[a], Fresh)
    BY <1>1
  <2> QED BY <1>1, <2>1, FreshList DEF ListInv, Dropped
<1>3. hits' \in [Addresses -> Seq(Nat)]
  BY <1>1, <1>2
<1>4. SweepInv' /\ now' \in 0 .. MaxTime
  BY <1>1, LimitsAssumption DEF Inv, SweepInv
<1>5. \A a \in Addresses : LogInv(a)'
  BY <1>1 DEF Inv, LogInv, Requests
<1> QED BY <1>1, <1>2, <1>3, <1>4, <1>5 DEF Inv

\* Time makes nothing fresh again.
LEMMA TickStep == Inv /\ Tick => Inv'
<1> SUFFICES ASSUME Inv, Tick PROVE Inv'
  OBVIOUS
<1>1. now' = now + 1 /\ now' \in 0 .. MaxTime /\ now \in Nat
  BY LimitsAssumption DEF Inv, Tick
<1>2. UNCHANGED <<hits, nextSweep, log>>
  BY DEF Tick
<1>3. ASSUME NEW a \in Addresses PROVE LogInv(a)' /\ ListInv(a)'
  <2>1. \A i \in 1 .. Len(log[a]) : log[a][i].time \in Nat
    BY LogEntries
  <2>2. Dropped(a)' = Dropped(a) /\ Dropped(a) \in Nat /\ Requests(a)' = Requests(a)
    BY <1>2 DEF Inv, ListInv, Dropped, Requests
  <2>3. LogInv(a)'
    <3>1. \A i \in Requests(a) : log[a][i].time <= now'
      <4>1. \A i \in Requests(a) : log[a][i].time <= now
        BY DEF Inv, LogInv
      <4> QED BY <1>1, <2>1, <4>1 DEF Requests
    <3> QED BY <1>2, <2>2, <3>1 DEF Inv, LogInv
  <2>4. \A j \in 1 .. Dropped(a) : log[a][j].time <= now' - Window
    <3>1. \A j \in 1 .. Dropped(a) : j \in 1 .. Len(log[a])
      BY DEF Inv, ListInv, Dropped
    <3> QED BY <1>1, <2>1, <3>1, LimitsAssumption DEF Inv, ListInv
  <2> QED BY <1>2, <2>2, <2>3, <2>4 DEF Inv, ListInv
<1>4. SweepInv'
  BY <1>1, <1>2, LimitsAssumption DEF Inv, SweepInv
<1> QED BY <1>1, <1>2, <1>3, <1>4 DEF Inv

\* Every step keeps the invariant.
LEMMA LimiterStep == Inv /\ [Next]_vars => Inv'
<1>1. Inv /\ UNCHANGED vars => Inv'
  BY DEF vars, Inv, SweepInv, LogInv, ListInv, Dropped, Requests
<1> QED BY <1>1, RequestStep, SweepStep, TickStep DEF Next

\* The invariant holds in every reachable state.
THEOREM LimiterInvHolds == Spec => []Inv
  BY LimiterInit, LimiterStep, PTL DEF Spec

----------------------------------------------------------------------------
(* What the invariant is for                                               *)

\* A request as the two lists show it afterwards: everything it counted is less
\* than a window old, and the others are left alone.
LEMMA RequestLogged ==
  ASSUME Inv, NEW a \in Addresses, Request(a)
  PROVE  /\ Len(log'[a]) = Len(log[a]) + 1
         /\ \A i \in Requests(a) : log'[a][i] = log[a][i]
         /\ log'[a][Len(log'[a])].time = now
         /\ log'[a][Len(log'[a])].passed <=> Len(hits'[a]) <= MaxHits
         /\ hits'[a] = Recorded(a)
         /\ Len(hits'[a]) \in Nat \ {0}
         /\ hits'[a][Len(hits'[a])] = now
         /\ \A i \in 1 .. Len(hits'[a]) : hits'[a][i] > now - Window
         /\ log'[a][Len(log'[a])].retryAt = Told(hits'[a])
         /\ \A b \in Addresses : b # a => log'[b] = log[b] /\ hits'[b] = hits[b]
<1> DEFINE left == Filter(hits[a], Fresh)
           entry == [time |-> now, passed |-> Len(Recorded(a)) <= MaxHits,
                     retryAt |-> Told(Recorded(a))]
<1>1. /\ hits' = [hits EXCEPT ![a] = Recorded(a)]
      /\ log' = [log EXCEPT ![a] = Append(@, entry)]
  BY DEF Request, Told
<1>2. left \in Seq(Nat) /\ \A i \in 1 .. Len(left) : left[i] > now - Window
  BY FreshList
<1>3. now \in Nat /\ entry \in Entry /\ Window \in Nat /\ Window > 0
  <2>1. now \in Nat /\ Told(Recorded(a)) \in Nat
    BY ToldInTime DEF Inv
  <2> QED BY <2>1, LimitsAssumption DEF Entry
<1> HIDE DEF left
<1>4. /\ Recorded(a) = Append(left, now)
      /\ Len(Recorded(a)) = Len(left) + 1 /\ Len(left) \in Nat
      /\ \A i \in 1 .. Len(left) : Recorded(a)[i] = left[i]
      /\ Recorded(a)[Len(left) + 1] = now
  BY <1>2, <1>3 DEF Recorded, left
<1> HIDE DEF entry
<1>5. /\ Len(log'[a]) = Len(log[a]) + 1
      /\ \A i \in 1 .. Len(log[a]) : log'[a][i] = log[a][i]
      /\ log'[a][Len(log[a]) + 1] = entry
  BY <1>1, <1>3 DEF Inv
<1>6. hits'[a] = Recorded(a)
  BY <1>1 DEF Inv
<1>7. \A b \in Addresses : b # a => log'[b] = log[b] /\ hits'[b] = hits[b]
  BY <1>1 DEF Inv
<1>8. \A i \in 1 .. Len(hits'[a]) : hits'[a][i] > now - Window
  <2> SUFFICES ASSUME NEW i \in 1 .. Len(left) + 1 PROVE Recorded(a)[i] > now - Window
    BY <1>4, <1>6
  <2>1. CASE i = Len(left) + 1
    BY <1>3, <1>4, <2>1
  <2>2. CASE i # Len(left) + 1
    BY <1>2, <1>4, <2>2
  <2> QED BY <2>1, <2>2
<1>9. /\ entry.time = now
      /\ entry.passed <=> Len(hits'[a]) <= MaxHits
      /\ entry.retryAt = Told(hits'[a])
  BY <1>6 DEF entry
<1>10. Len(hits'[a]) \in Nat \ {0} /\ hits'[a][Len(hits'[a])] = now
  BY <1>4, <1>6
<1> QED BY <1>5, <1>6, <1>7, <1>8, <1>9, <1>10 DEF Requests

\* The requests that count at a request are those in the list then.
LEMMA CountedAreListed ==
  ASSUME Inv, NEW a \in Addresses, Request(a)
  PROVE  /\ InWindow(a, Len(log[a]))' = Dropped(a)' + 1 .. Len(log'[a])
         /\ Cardinality(InWindow(a, Len(log[a]))') = Len(hits'[a])
<1> DEFINE n == Len(log'[a])
           m == Len(hits'[a])
           d == Dropped(a)'
<1>1. Inv'
  BY RequestStep
<1>2. /\ n \in Nat /\ m \in Nat /\ d \in Nat /\ n = d + m
      /\ \A i \in 1 .. m : hits'[a][i] = log'[a][d + i].time
      /\ \A j \in 1 .. d : log'[a][j].time <= now' - Window
  BY <1>1 DEF Inv, ListInv, Dropped
<1>3. /\ log'[a][n].time = now /\ now' = now /\ now \in Nat
      /\ \A i \in 1 .. m : hits'[a][i] > now - Window
  <2>1. log'[a][n].time = now /\ \A i \in 1 .. m : hits'[a][i] > now - Window
    BY RequestLogged
  <2>2. now' = now /\ now \in Nat
    BY DEF Request, Inv
  <2> QED BY <2>1, <2>2
<1>4. \A j \in 1 .. n : log'[a][j].time \in Nat
  <2>1. log'[a] \in Seq(Entry)
    BY <1>1 DEF Inv
  <2>2. \A j \in 1 .. n : log'[a][j] \in Entry
    BY <2>1, ElementOfSeq
  <2> QED BY <2>2 DEF Entry
<1> HIDE DEF n, m, d
<1>5. InWindow(a, Len(log[a]))' = {j \in 1 .. n : log'[a][j].time > now - Window}
  BY <1>3 DEF InWindow, n
<1>6. ASSUME NEW j \in 1 .. n
      PROVE  log'[a][j].time > now - Window <=> j \in d + 1 .. n
  <2>1. CASE j \in 1 .. d
    BY <1>2, <1>3, <1>4, <2>1, LimitsAssumption
  <2>2. CASE j \notin 1 .. d
    <3>1. j - d \in 1 .. m /\ d + (j - d) = j
      BY <1>2, <2>2
    <3> QED BY <1>2, <1>3, <3>1
  <2> QED BY <2>1, <2>2
<1>7. InWindow(a, Len(log[a]))' = d + 1 .. n
  BY <1>2, <1>5, <1>6
<1>8. Cardinality(d + 1 .. n) = m
  BY <1>2, FS_Interval
<1> QED BY <1>7, <1>8 DEF n, m, d

\* The types, and that the timestamps are in order and never in the future.
THEOREM LimiterTypeCorrect == Spec => []TypeOK
<1>1. Inv => TypeOK
  <2> SUFFICES ASSUME Inv PROVE TypeOK
    OBVIOUS
  <2>1. ASSUME NEW a \in Addresses
        PROVE  /\ \A i \in Requests(a) : log[a][i].passed \in BOOLEAN
               /\ \A i \in 1 .. Len(hits[a]) :
                    hits[a][i] \in 0 .. now /\ (i > 1 => hits[a][i - 1] <= hits[a][i])
    <3>1. \A i \in Requests(a) : log[a][i].passed \in BOOLEAN
      BY LogEntries DEF Requests, Entry
    <3>2. hits[a] \in Seq(Nat) /\ now \in Nat
      BY DEF Inv
    <3>3. ASSUME NEW i \in 1 .. Len(hits[a])
          PROVE  hits[a][i] \in 0 .. now /\ (i > 1 => hits[a][i - 1] <= hits[a][i])
      <4>1. hits[a][i] \in Nat /\ hits[a][i] <= now
        BY <3>2, ListSorted
      <4>2. ASSUME i > 1 PROVE hits[a][i - 1] <= hits[a][i]
        <5>1. i - 1 \in 1 .. Len(hits[a]) /\ i - 1 <= i
          BY <3>2, <4>2
        <5> QED BY <5>1, ListSorted
      <4> QED BY <3>2, <4>1, <4>2
    <3> QED BY <3>1, <3>3
  <2> QED BY <2>1 DEF Inv, SweepInv, TypeOK
<1> QED BY <1>1, LimiterInvHolds, PTL

\* A request passes exactly if at most max requests of its address, itself
\* included, fall in the window that ends with it (middleware and sweeper).
THEOREM LimitIsExact == Spec => []LimitExact
<1>1. Init => LimitExact
  BY DEF Init, LimitExact, Requests
<1>2. ASSUME Inv, LimitExact, NEW b \in Addresses, Request(b) PROVE LimitExact'
  <2> SUFFICES ASSUME NEW a \in Addresses, NEW i \in Requests(a)'
               PROVE  log'[a][i].passed <=> Cardinality(InWindow(a, i)') <= MaxHits
    BY DEF LimitExact
  <2>1. CASE a = b /\ i = Len(log'[a])
    <3>1. log'[a][i].passed <=> Len(hits'[a]) <= MaxHits
      BY <1>2, <2>1, RequestLogged
    <3>2. InWindow(a, i)' = InWindow(a, Len(log[a]))'
      BY <2>1 DEF InWindow
    <3>3. Cardinality(InWindow(a, i)') = Len(hits'[a])
      BY <1>2, <2>1, <3>2, CountedAreListed
    <3> QED BY <3>1, <3>3
  <2>2. CASE ~(a = b /\ i = Len(log'[a]))
    <3>1. Len(log[a]) \in Nat
      BY <1>2, LogEntries
    <3>2. i \in Requests(a) /\ \A j \in 1 .. i : log'[a][j] = log[a][j]
      <4>1. CASE a = b
        <5>1. /\ Len(log'[a]) = Len(log[a]) + 1
              /\ \A j \in Requests(a) : log'[a][j] = log[a][j]
          BY <1>2, <4>1, RequestLogged
        <5>2. i \in 1 .. Len(log[a])
          BY <2>2, <3>1, <4>1, <5>1 DEF Requests
        <5> QED BY <3>1, <5>1, <5>2 DEF Requests
      <4>2. CASE a # b
        <5>1. log'[a] = log[a]
          BY <1>2, <4>2, RequestLogged
        <5> QED BY <5>1 DEF Requests
      <4> QED BY <4>1, <4>2
    <3>3. InWindow(a, i)' = InWindow(a, i)
      BY <3>1, <3>2 DEF InWindow, Requests
    <3>4. log'[a][i] = log[a][i]
      BY <3>1, <3>2 DEF Requests
    <3> QED BY <1>2, <3>2, <3>3, <3>4 DEF LimitExact
  <2> QED BY <2>1, <2>2
<1>3. ASSUME Inv, LimitExact, [Next]_vars PROVE LimitExact'
  <2>1. CASE UNCHANGED log
    BY <1>3, <2>1 DEF LimitExact, Requests, InWindow
  <2>2. UNCHANGED log \/ \E b \in Addresses : Request(b)
    BY <1>3 DEF Next, Tick, Sweep, vars
  <2> QED BY <1>2, <1>3, <2>1, <2>2
<1>4. Inv /\ LimitExact /\ [Next]_vars => LimitExact'
  BY <1>3
<1> QED BY <1>1, <1>4, LimiterInvHolds, PTL DEF Spec

\* The map holds no address that was silent for a whole window when the sweeper
\* last ran (the sweeper deletes empty lists).
THEOREM MapIsLean == Spec => []MapLean
<1>1. Init => MapLean
  BY DEF Init, MapLean
<1>2. ASSUME Inv, MapLean, [Next]_vars PROVE MapLean'
  <2> SUFFICES ASSUME NEW a \in Addresses, hits'[a] # <<>>
               PROVE  hits'[a][Len(hits'[a])] > nextSweep' - 2 * Window
    BY DEF MapLean
  <2>1. /\ now \in Nat /\ nextSweep \in Nat /\ nextSweep <= now + Window
        /\ Window \in Nat /\ Window > 0 /\ hits[a] \in Seq(Nat)
    BY <1>2, LimitsAssumption DEF Inv, SweepInv
  <2>2. CASE hits'[a] = hits[a] /\ nextSweep' = nextSweep
    BY <1>2, <2>2 DEF MapLean
  <2>3. ASSUME NEW b \in Addresses, Request(b) PROVE hits'[a][Len(hits'[a])] > nextSweep' - 2 * Window
    <3>1. nextSweep' = nextSweep
      BY <2>3 DEF Request
    <3>2. CASE a = b
      <4>1. hits'[a][Len(hits'[a])] = now
        BY <1>2, <2>3, <3>2, RequestLogged
      <4> QED BY <2>1, <3>1, <4>1
    <3>3. CASE a # b
      <4>1. hits'[a] = hits[a]
        BY <1>2, <2>3, <3>3, RequestLogged
      <4> QED BY <2>2, <3>1, <4>1
    <3> QED BY <3>2, <3>3
  <2>4. CASE Sweep
    <3>1. hits'[a] = Filter(hits[a], Fresh) /\ nextSweep' = now + Window
      BY <2>4 DEF Sweep, Swept
    <3>2. hits'[a] \in Seq(Nat) /\ \A i \in 1 .. Len(hits'[a]) : hits'[a][i] > now - Window
      BY <1>2, <3>1, FreshList
    <3>3. Len(hits'[a]) \in 1 .. Len(hits'[a])
      BY <3>2, EmptySeq
    <3>4. hits'[a][Len(hits'[a])] > now - Window /\ hits'[a][Len(hits'[a])] \in Nat
      BY <3>2, <3>3, ElementOfSeq
    <3> QED BY <2>1, <3>1, <3>4
  <2>5. \/ \E b \in Addresses : Request(b)
        \/ Sweep
        \/ hits'[a] = hits[a] /\ nextSweep' = nextSweep
    BY <1>2 DEF Next, Tick, vars
  <2> QED BY <2>2, <2>3, <2>4, <2>5
<1>3. Inv /\ MapLean /\ [Next]_vars => MapLean'
  BY <1>2
<1> QED BY <1>1, <1>3, LimiterInvHolds, PTL DEF Spec

\* A refused request counted a request so old that it leaves the window less than
\* a second before the time it was told, and max later ones.
RetryInv(a) ==
  \A i \in Requests(a) : ~log[a][i].passed =>
    \E k \in 1 .. i : /\ i - k >= MaxHits
                      /\ log[a][i].retryAt < log[a][k].time + Window + TicksPerSecond

\* The oldest request that a refused one counted, in the log.
LEMMA RefusedRequest ==
  ASSUME Inv, NEW a \in Addresses, Request(a)
  PROVE  LET n == Len(log'[a])
             k == Dropped(a)' + 1
         IN  ~log'[a][n].passed =>
               /\ k \in 1 .. n /\ n - k >= MaxHits
               /\ log'[a][n].retryAt < log'[a][k].time + Window + TicksPerSecond
<1> DEFINE n == Len(log'[a])
           m == Len(hits'[a])
           d == Dropped(a)'
<1> SUFFICES ASSUME ~log'[a][n].passed
             PROVE  /\ d + 1 \in 1 .. n /\ n - (d + 1) >= MaxHits
                    /\ log'[a][n].retryAt < log'[a][d + 1].time + Window + TicksPerSecond
  OBVIOUS
<1>1. Inv' /\ hits'[a] = Recorded(a) /\ m > MaxHits /\ m \in Nat
      /\ log'[a][n].retryAt = Told(hits'[a])
  <2>1. hits'[a] = Recorded(a) /\ ~(m <= MaxHits) /\ m \in Nat
        /\ log'[a][n].retryAt = Told(hits'[a])
    BY RequestLogged
  <2> QED BY <2>1, RequestStep, LimitsAssumption
<1>2. d \in Nat /\ n = d + m /\ \A i \in 1 .. m : hits'[a][i] = log'[a][d + i].time
  <2>1. d \in Nat /\ \A i \in 1 .. m : hits'[a][i] = log'[a][d + i].time
    BY <1>1 DEF Inv, ListInv
  <2>2. d = n - m /\ n \in Nat
    BY <1>1 DEF Inv, Dropped
  <2> QED BY <1>1, <2>1, <2>2
<1>3. Told(hits'[a]) \in Nat /\ Told(hits'[a]) - TicksPerSecond < hits'[a][1] + Window
  BY <1>1, ToldInTime
<1>4. hits'[a][1] = log'[a][d + 1].time /\ hits'[a][1] \in Nat
  <2>1. 1 \in 1 .. m
    BY <1>1, LimitsAssumption
  <2>2. hits'[a] \in Seq(Nat)
    BY <1>1 DEF Inv
  <2> QED BY <1>2, <2>1, <2>2, ElementOfSeq
<1> HIDE DEF n, m, d
<1> QED BY <1>1, <1>2, <1>3, <1>4, LimitsAssumption

\* Every step keeps what is known of the refused requests.
LEMMA RetryStep ==
  ASSUME Inv, \A a \in Addresses : RetryInv(a), [Next]_vars, NEW a \in Addresses
  PROVE  RetryInv(a)'
<1>1. CASE log'[a] = log[a]
  BY <1>1 DEF RetryInv, Requests
<1>2. CASE Request(a)
  <2> SUFFICES ASSUME NEW i \in Requests(a)', ~log'[a][i].passed
               PROVE  \E k \in 1 .. i :
                        /\ i - k >= MaxHits
                        /\ log'[a][i].retryAt < log'[a][k].time + Window + TicksPerSecond
    BY DEF RetryInv
  <2>1. CASE i = Len(log'[a])
    BY <1>2, <2>1, RefusedRequest
  <2>2. CASE i # Len(log'[a])
    <3>1. /\ Len(log[a]) \in Nat /\ Len(log'[a]) = Len(log[a]) + 1
          /\ \A j \in Requests(a) : log'[a][j] = log[a][j]
      BY <1>2, RequestLogged, LogEntries
    <3>2. i \in Requests(a) /\ \A k \in 1 .. i : k \in Requests(a)
      BY <2>2, <3>1 DEF Requests
    <3>3. PICK k \in 1 .. i : /\ i - k >= MaxHits
                             /\ log[a][i].retryAt < log[a][k].time + Window + TicksPerSecond
      BY <3>1, <3>2 DEF RetryInv
    <3> QED BY <3>1, <3>2, <3>3
  <2> QED BY <2>1, <2>2
<1>3. Request(a) \/ log'[a] = log[a]
  <2>1. UNCHANGED log \/ \E b \in Addresses : Request(b)
    BY DEF Next, Tick, Sweep, vars
  <2> QED BY <2>1, RequestLogged
<1> QED BY <1>1, <1>2, <1>3

\* A client that was refused is never served a whole second before its Retry-After
\* (middleware): when it is, all that the refused request counted has left the
\* window, except max requests less one.
THEOREM NobodyWaitsLonger == Spec => []ServedNoEarlier
<1> DEFINE All == Inv /\ (\A a \in Addresses : RetryInv(a)) /\ ServedNoEarlier
<1>1. Init => All
  <2> SUFFICES ASSUME Init PROVE (\A a \in Addresses : RetryInv(a)) /\ ServedNoEarlier
    BY LimiterInit
  <2>1. \A a \in Addresses : Requests(a) = {}
    BY DEF Init, Requests
  <2> QED BY <2>1 DEF RetryInv, ServedNoEarlier
<1>2. ASSUME All, NEW b \in Addresses, Request(b) PROVE ServedNoEarlier'
  <2> SUFFICES ASSUME NEW a \in Addresses, NEW i \in Requests(a)', NEW j \in Requests(a)',
                      i < j, ~log'[a][i].passed, log'[a][j].passed
               PROVE  log'[a][j].time > log'[a][i].retryAt - TicksPerSecond
    BY DEF ServedNoEarlier
  <2>1. CASE a = b /\ j = Len(log'[a])
    <3> DEFINE n == Len(log'[a])
               m == Len(hits'[a])
               d == Dropped(a)'
    <3>1. /\ Len(log[a]) \in Nat /\ n = Len(log[a]) + 1 /\ n \in Nat
          /\ \A l \in Requests(a) : log'[a][l] = log[a][l]
          /\ log'[a][n].time = now /\ m <= MaxHits /\ m \in Nat
      BY <1>2, <2>1, RequestLogged, LogEntries
    <3>2. i \in Requests(a) /\ \A k \in 1 .. i : k \in Requests(a)
      BY <2>1, <3>1 DEF Requests
    <3>3. PICK k \in 1 .. i : /\ i - k >= MaxHits
                             /\ log[a][i].retryAt < log[a][k].time + Window + TicksPerSecond
      BY <1>2, <3>1, <3>2 DEF RetryInv
    <3>4. Inv' /\ now' = now
      BY <1>2, RequestStep DEF Request
    <3>5. d = n - m /\ d \in Nat /\ \A l \in 1 .. d : log'[a][l].time <= now - Window
      BY <3>4 DEF Inv, ListInv, Dropped
    <3>6. k \in 1 .. d
      <4> HIDE DEF n, m, d
      <4> QED BY <2>1, <3>1, <3>2, <3>3, <3>5, LimitsAssumption DEF Requests, n
    <3>7. log[a][k].time <= now - Window
      BY <3>1, <3>2, <3>5, <3>6
    <3>8. log[a][k].time \in Nat /\ log[a][i].retryAt \in Nat /\ now \in Nat
      BY <1>2, <3>2, LogEntries DEF Requests, Entry, Inv
    <3> HIDE DEF n, m, d
    <3>9. log'[a][j].time = now /\ log'[a][i].retryAt = log[a][i].retryAt
      BY <2>1, <3>1, <3>2 DEF n
    <3> QED BY <3>3, <3>7, <3>8, <3>9, LimitsAssumption
  <2>2. CASE ~(a = b /\ j = Len(log'[a]))
    <3>1. i \in Requests(a) /\ j \in Requests(a) /\ log'[a][i] = log[a][i] /\ log'[a][j] = log[a][j]
      <4>1. CASE a = b
        <5>1. /\ Len(log[a]) \in Nat /\ Len(log'[a]) = Len(log[a]) + 1
              /\ \A l \in Requests(a) : log'[a][l] = log[a][l]
          BY <1>2, <4>1, RequestLogged, LogEntries
        <5>2. i \in Requests(a) /\ j \in Requests(a)
          BY <2>2, <4>1, <5>1 DEF Requests
        <5> QED BY <5>1, <5>2
      <4>2. CASE a # b
        BY <1>2, <4>2, RequestLogged DEF Requests
      <4> QED BY <4>1, <4>2
    <3> QED BY <1>2, <3>1 DEF ServedNoEarlier
  <2> QED BY <2>1, <2>2
<1>3. ASSUME All, [Next]_vars PROVE All'
  <2>1. Inv' /\ \A a \in Addresses : RetryInv(a)'
    BY <1>3, LimiterStep, RetryStep
  <2>2. CASE UNCHANGED log
    BY <1>3, <2>1, <2>2 DEF ServedNoEarlier, Requests
  <2>3. UNCHANGED log \/ \E b \in Addresses : Request(b)
    BY <1>3 DEF Next, Tick, Sweep, vars
  <2> QED BY <1>2, <1>3, <2>1, <2>2, <2>3
<1>4. All /\ [Next]_vars => All'
  BY <1>3
<1>5. All => ServedNoEarlier
  OBVIOUS
<1> QED BY <1>1, <1>4, <1>5, PTL DEF Spec
=============================================================================
