------------------------ MODULE MemoryBackendProofs ------------------------
(***************************************************************************)
(* Proofs about MemoryBackend, for any hashes, callers, expiries, timeouts *)
(* and any longest delay of a timer.                                       *)
(***************************************************************************)
EXTENDS MemoryBackend, TLAPS

Inv == TypeOK /\ NobodyForgotten

\* The clock in seconds is a natural number.
LEMMA SecondsNat ==
  ASSUME now \in Nat
  PROVE  Seconds \in Nat
<1>1. TicksPerSecond \in Nat /\ TicksPerSecond > 0
  BY TimeAssumption
<1>2. \A n, d \in Nat : d > 0 => n \div d \in Nat
  OBVIOUS
<1> QED BY <1>1, <1>2 DEF Seconds

\* Who waits waits for a natural number of ticks.
LEMMA WaitNat ==
  ASSUME TypeOK, NEW h \in Hashes, NEW t \in Timeouts, ~Lapsed(h)
  PROVE  TimerDelay(WaitTicks(t, (expiresAt[h] - Seconds) * TicksPerSecond)) \in Nat
<1>1. Seconds \in Nat /\ expiresAt[h] \in Nat
  BY SecondsNat, TimeAssumption DEF TypeOK
<1>2. expiresAt[h] - Seconds \in Nat
  BY <1>1 DEF Lapsed
<1>3. TicksPerSecond \in Nat /\ t \in Nat
  BY TimeAssumption
<1>4. \A m, n \in Nat : m * n \in Nat
  OBVIOUS
<1>5. (expiresAt[h] - Seconds) * TicksPerSecond \in Nat
  BY <1>2, <1>3, <1>4
<1> HIDE DEF Seconds
<1> QED BY <1>3, <1>5 DEF WaitTicks, TimerDelay

\* Initially nobody waits.
LEMMA BackendInit == Init => Inv
  BY TimeAssumption DEF Init, Inv, TypeOK, NobodyForgotten, Results

\* A call of waitUntilHeld is answered, or its caller is in the list.
LEMMA WaitStep ==
  ASSUME Inv, NEW c \in Callers, NEW h \in Hashes, NEW t \in Timeouts, WaitUntilHeld(c, h, t)
  PROVE  Inv'
<1> DEFINE untilExpiry == (expiresAt[h] - Seconds) * TicksPerSecond
           wait == WaitTicks(t, untilExpiry)
<1>1. /\ answer[c] = "none"
      /\ answer' = [answer EXCEPT ![c] = AnswerNow(h)]
      /\ asked' = [asked EXCEPT ![c] = h]
      /\ UNCHANGED <<now, invoices>>
  BY DEF WaitUntilHeld
<1>2. AnswerNow(h) \in {"waiting"} \cup Results
  BY DEF AnswerNow, Results
<1>3. CASE AnswerNow(h) = "waiting"
  <2>1. state[h] = "open" /\ ~Lapsed(h)
    BY <1>3 DEF AnswerNow, Inv, TypeOK
  <2>2. TimerDelay(wait) \in Nat
    BY <2>1, WaitNat DEF Inv
  <2>3. /\ timed' = [timed EXCEPT ![c] = t > 0 /\ t < untilExpiry]
        /\ due' = [due EXCEPT ![c] = now + TimerDelay(wait)]
        /\ waiters' = [waiters EXCEPT ![h] = @ \cup {c}]
    BY <1>3 DEF WaitUntilHeld
  <2> HIDE DEF untilExpiry, wait
  <2>4. (t > 0 /\ t < untilExpiry) \in BOOLEAN
    OBVIOUS
  <2>5. timed' \in [Callers -> BOOLEAN]
    BY <2>3, <2>4 DEF Inv, TypeOK
  <2>6. due' \in [Callers -> Nat]
    BY <2>2, <2>3, TimeAssumption DEF Inv, TypeOK
  <2>7. TypeOK'
    BY <1>1, <1>2, <2>3, <2>5, <2>6 DEF Inv, TypeOK, invoices
  <2>8. NobodyForgotten'
    BY <1>1, <1>3, <2>1, <2>3 DEF Inv, TypeOK, NobodyForgotten, invoices
  <2> QED BY <2>7, <2>8 DEF Inv
<1>4. CASE AnswerNow(h) # "waiting"
  <2>1. UNCHANGED <<timed, due, waiters>>
    BY <1>4 DEF WaitUntilHeld
  <2> QED BY <1>1, <1>2, <1>4, <2>1 DEF Inv, TypeOK, NobodyForgotten, invoices
<1> QED BY <1>3, <1>4

\* Who is in the list when it is woken is told, and nobody else was waiting.
LEMMA WakeStep ==
  ASSUME Inv, NEW h \in Hashes, NEW result \in Results, NEW new \in {"held", "cancelled"},
         state' = [state EXCEPT ![h] = new], Wake(h, result),
         UNCHANGED <<now, expiresAt, asked, timed, due>>
  PROVE  Inv'
<1>1. TypeOK'
  BY DEF Wake, Inv, TypeOK
<1>2. NobodyForgotten'
  BY DEF Wake, Inv, TypeOK, NobodyForgotten, Results
<1> QED BY <1>1, <1>2 DEF Inv

\* Every step keeps the invariant.
LEMMA BackendStep == Inv /\ [Next]_vars => Inv'
<1> SUFFICES ASSUME Inv, [Next]_vars PROVE Inv'
  OBVIOUS
<1> USE DEF invoices, calls
<1>1. CASE UNCHANGED vars
  BY <1>1 DEF vars, Inv, TypeOK, NobodyForgotten
<1>2. CASE Tick
  BY <1>2, TimeAssumption DEF Tick, Inv, TypeOK, NobodyForgotten
<1>3. ASSUME NEW c \in Callers, TimerFires(c) PROVE Inv'
  <2>1. \A h \in Hashes : waiters'[h] = IF h = asked[c] THEN waiters[h] \ {c} ELSE waiters[h]
    BY <1>3 DEF TimerFires, Inv, TypeOK
  <2>2. \A d \in Callers : answer'[d] = IF d = c THEN "expired" ELSE answer[d]
    BY <1>3 DEF TimerFires, Inv, TypeOK
  <2>3. TypeOK'
    <3>1. waiters' \in [Hashes -> SUBSET Callers]
      BY <1>3, <2>1 DEF TimerFires, Inv, TypeOK
    <3>2. answer' \in [Callers -> {"none", "waiting"} \cup Results]
      BY <1>3 DEF TimerFires, Inv, TypeOK, Results
    <3> QED BY <1>3, <3>1, <3>2 DEF TimerFires, Inv, TypeOK
  <2>4. NobodyForgotten'
    BY <1>3, <2>1, <2>2 DEF TimerFires, Inv, NobodyForgotten
  <2> QED BY <2>3, <2>4 DEF Inv
<1>4. ASSUME NEW h \in Hashes, NEW e \in ExpirySeconds, CreateHoldInvoice(h, e) PROVE Inv'
  <2>1. Seconds + e \in Nat
    BY SecondsNat, TimeAssumption DEF Inv, TypeOK
  <2> QED BY <1>4, <2>1 DEF CreateHoldInvoice, Inv, TypeOK, NobodyForgotten
<1>5. ASSUME NEW h \in Hashes, SimulateIncomingPayment(h) PROVE Inv'
  BY <1>5, WakeStep DEF SimulateIncomingPayment, Results
<1>6. ASSUME NEW h \in Hashes, Cancel(h) PROVE Inv'
  BY <1>6, WakeStep DEF Cancel, Results
<1>7. ASSUME NEW h \in Hashes, Settle(h) PROVE Inv'
  BY <1>7 DEF Settle, Inv, TypeOK, NobodyForgotten
<1> QED BY <1>1, <1>2, <1>3, <1>4, <1>5, <1>6, <1>7, WaitStep DEF Next

\* The invariant holds in every reachable state.
THEOREM BackendInvHolds == Spec => []Inv
  BY BackendInit, BackendStep, PTL DEF Spec

\* A promise of waitUntilHeld only ever resolves to what the interface lists.
THEOREM BackendTypeCorrect == Spec => []TypeOK
<1>1. Inv => TypeOK
  BY DEF Inv
<1> QED BY <1>1, BackendInvHolds, PTL

\* A promise is unresolved exactly while its caller is in the list of the invoice
\* it asked about, and there is no such list once that is held or cancelled.
THEOREM CallersKept == Spec => []NobodyForgotten
<1>1. Inv => NobodyForgotten
  BY DEF Inv
<1> QED BY <1>1, BackendInvHolds, PTL

----------------------------------------------------------------------------
(* The backend keeps the contract of HoldBackend when no expiry exceeds    *)
(* the longest delay of a timer.                                           *)

ShortExpiries == \A e \in ExpirySeconds : e * TicksPerSecond <= TimerMax

\* No invoice lives longer than the longest expiry asked for.
ExpiryNear ==
  \A h \in Hashes : state[h] # "none" => \E e \in ExpirySeconds : expiresAt[h] <= Seconds + e

\* The timer of a call without an earlier timeout runs out after the invoice.
TimersLate ==
  \A c \in Callers : answer[c] = "waiting" /\ ~timed[c] =>
    expiresAt[asked[c]] * TicksPerSecond <= due[c]

\* Who has called has named an invoice.
AskedForOne == \A c \in Callers : answer[c] # "none" => asked[c] \in Hashes

KeepInv == Inv /\ AskedForOne /\ ExpiryNear /\ TimersLate

\* The state of an invoice and the answer of a caller as the contract sees them.
InvoiceOf(h) == IF state[h] = "open" /\ Lapsed(h) THEN "expired" ELSE state[h]
AnswerOf(c)  == IF answer[c] = "expired" /\ timed[c] THEN "timedOut" ELSE answer[c]

\* The clock in seconds, in ticks, is less than a second behind.
LEMMA SecondsFacts ==
  ASSUME now \in Nat
  PROVE  /\ Seconds \in Nat /\ TicksPerSecond \in Nat /\ TicksPerSecond > 0
         /\ Seconds * TicksPerSecond <= now
         /\ \A s \in Nat : s * TicksPerSecond <= now => s <= Seconds
<1>1. TicksPerSecond \in Nat /\ TicksPerSecond > 0
  BY TimeAssumption
<1>2. \A n, d \in Nat : d > 0 => /\ n \div d \in Nat
                                 /\ (n \div d) * d <= n
                                 /\ n < (n \div d) * d + d
  OBVIOUS
<1>3. /\ Seconds \in Nat /\ Seconds * TicksPerSecond <= now
      /\ now < Seconds * TicksPerSecond + TicksPerSecond
  BY <1>1, <1>2 DEF Seconds
<1>4. ASSUME NEW s \in Nat, s * TicksPerSecond <= now PROVE s <= Seconds
  <2>1. s * TicksPerSecond < (Seconds + 1) * TicksPerSecond
    BY <1>1, <1>3, <1>4
  <2>2. \A m, n, d \in Nat : m * d < n * d => m < n
    OBVIOUS
  <2> HIDE DEF Seconds
  <2> QED BY <1>1, <1>3, <2>1, <2>2
<1> QED BY <1>1, <1>3, <1>4

\* Seconds go by as ticks do.
LEMMA SecondsGrow ==
  ASSUME Inv, [Next]_vars
  PROVE  Seconds \in Nat /\ Seconds' \in Nat /\ Seconds <= Seconds'
<1>1. now \in Nat /\ TicksPerSecond \in Nat /\ TicksPerSecond > 0
  BY TimeAssumption DEF Inv, TypeOK
<1>2. now' = now \/ now' = now + 1
  BY DEF Next, Tick, TimerFires, WaitUntilHeld, CreateHoldInvoice, SimulateIncomingPayment,
         Settle, Cancel, vars
<1>3. \A n, d \in Nat : d > 0 => n \div d \in Nat /\ (n + 1) \div d \in Nat
                                 /\ n \div d <= (n + 1) \div d
  OBVIOUS
<1> QED BY <1>1, <1>2, <1>3 DEF Seconds

\* What each step does to the invoices.
LEMMA InvoiceFacts ==
  ASSUME Inv, [Next]_vars, NEW h \in Hashes
  PROVE  \/ state'[h] = state[h] /\ expiresAt'[h] = expiresAt[h]
         \/ /\ state[h] = "none" /\ state'[h] = "open"
            /\ Seconds' = Seconds /\ waiters' = waiters /\ UNCHANGED calls
            /\ \E e \in ExpirySeconds : expiresAt'[h] = Seconds + e
         \/ /\ expiresAt'[h] = expiresAt[h]
            /\ \/ state[h] = "open" /\ ~Lapsed(h) /\ state'[h] = "held"
               \/ state[h] = "held" /\ state'[h] = "settled"
               \/ state[h] \in {"open", "held"} /\ state'[h] = "cancelled"
<1> USE DEF Inv, TypeOK
<1>1. CASE UNCHANGED vars
  BY <1>1 DEF vars, invoices
<1>2. CASE Tick
  BY <1>2 DEF Tick, invoices
<1>3. ASSUME NEW c \in Callers, TimerFires(c) PROVE UNCHANGED invoices
  BY <1>3 DEF TimerFires
<1>4. ASSUME NEW c \in Callers, NEW g \in Hashes, NEW t \in Timeouts, WaitUntilHeld(c, g, t)
      PROVE  UNCHANGED invoices
  BY <1>4 DEF WaitUntilHeld
<1>5. ASSUME NEW g \in Hashes, NEW e \in ExpirySeconds, CreateHoldInvoice(g, e)
      PROVE  \/ state'[h] = state[h] /\ expiresAt'[h] = expiresAt[h]
             \/ /\ state[h] = "none" /\ state'[h] = "open"
                /\ Seconds' = Seconds /\ waiters' = waiters /\ UNCHANGED calls
                /\ expiresAt'[h] = Seconds + e
  BY <1>5 DEF CreateHoldInvoice, Seconds
<1>6. ASSUME NEW g \in Hashes, SimulateIncomingPayment(g)
      PROVE  /\ expiresAt'[h] = expiresAt[h]
             /\ \/ state'[h] = state[h]
                \/ state[h] = "open" /\ ~Lapsed(h) /\ state'[h] = "held"
  BY <1>6 DEF SimulateIncomingPayment, AcceptsPayment
<1>7. ASSUME NEW g \in Hashes, Settle(g) \/ Cancel(g)
      PROVE  /\ expiresAt'[h] = expiresAt[h]
             /\ \/ state'[h] = state[h]
                \/ state[h] = "held" /\ state'[h] = "settled"
                \/ state[h] \in {"open", "held"} /\ state'[h] = "cancelled"
  BY <1>7 DEF Settle, Cancel
<1> QED BY <1>1, <1>2, <1>3, <1>4, <1>5, <1>6, <1>7 DEF Next, invoices

\* What each step does to a caller.
LEMMA CallerFacts ==
  ASSUME Inv, [Next]_vars, NEW c \in Callers
  PROVE  \/ UNCHANGED <<answer[c], asked[c], timed[c], due[c]>>
         \/ \E h \in Hashes, t \in Timeouts : WaitUntilHeld(c, h, t)
         \/ /\ UNCHANGED <<asked[c], timed[c], due[c], invoices, now>>
            /\ answer[c] = "waiting" /\ now >= due[c] /\ answer'[c] = "expired"
         \/ /\ UNCHANGED <<asked[c], timed[c], due[c]>>
            /\ answer[c] = "waiting"
            /\ answer'[c] \in {"held", "cancelled"}
            /\ state'[asked[c]] = answer'[c]
<1> USE DEF Inv, TypeOK
<1>1. CASE UNCHANGED vars \/ Tick \/ (\E g \in Hashes, e \in ExpirySeconds : CreateHoldInvoice(g, e))
           \/ (\E g \in Hashes : Settle(g))
  BY <1>1 DEF vars, Tick, CreateHoldInvoice, Settle, calls
<1>2. ASSUME NEW d \in Callers, d # c, \/ TimerFires(d)
                                       \/ \E h \in Hashes, t \in Timeouts : WaitUntilHeld(d, h, t)
      PROVE  UNCHANGED <<answer[c], asked[c], timed[c], due[c]>>
  BY <1>2 DEF TimerFires, WaitUntilHeld
<1>3. CASE TimerFires(c)
  BY <1>3 DEF TimerFires, TimerDue
<1>4. ASSUME NEW g \in Hashes, NEW r \in {"held", "cancelled"}, Wake(g, r),
             state' = [state EXCEPT ![g] = r], UNCHANGED <<asked, timed, due>>
      PROVE  \/ UNCHANGED <<answer[c], asked[c], timed[c], due[c]>>
             \/ /\ UNCHANGED <<asked[c], timed[c], due[c]>>
                /\ answer[c] = "waiting"
                /\ answer'[c] \in {"held", "cancelled"}
                /\ state'[asked[c]] = answer'[c]
  BY <1>4 DEF Wake, NobodyForgotten
<1>5. ASSUME NEW g \in Hashes, SimulateIncomingPayment(g) \/ Cancel(g)
      PROVE  \E r \in {"held", "cancelled"} :
               Wake(g, r) /\ state' = [state EXCEPT ![g] = r] /\ UNCHANGED <<asked, timed, due>>
  BY <1>5 DEF SimulateIncomingPayment, Cancel
<1>6. CASE \E g \in Hashes : SimulateIncomingPayment(g) \/ Cancel(g)
  BY <1>4, <1>5, <1>6
<1>7. CASE \E d \in Callers : \/ TimerFires(d)
                              \/ \E h \in Hashes, t \in Timeouts : WaitUntilHeld(d, h, t)
  BY <1>2, <1>3, <1>7
<1> QED BY <1>1, <1>6, <1>7 DEF Next

\* An expiry stays near, since the seconds only go up.
LEMMA ExpiryNearStep ==
  ASSUME KeepInv, [Next]_vars
  PROVE  ExpiryNear'
<1> SUFFICES ASSUME NEW h \in Hashes, state'[h] # "none"
             PROVE  \E e \in ExpirySeconds : expiresAt'[h] <= Seconds' + e
  BY DEF ExpiryNear
<1>1. Seconds \in Nat /\ Seconds' \in Nat /\ Seconds <= Seconds'
  BY SecondsGrow DEF KeepInv
<1>2. ExpirySeconds \subseteq Nat /\ expiresAt[h] \in Nat
  BY TimeAssumption DEF KeepInv, Inv, TypeOK
<1> HIDE DEF Seconds
<1>3. CASE \E e \in ExpirySeconds : Seconds' = Seconds /\ expiresAt'[h] = Seconds + e
  BY <1>1, <1>2, <1>3
<1>4. CASE state[h] # "none" /\ expiresAt'[h] = expiresAt[h]
  <2>1. PICK e \in ExpirySeconds : expiresAt[h] <= Seconds + e
    BY <1>4 DEF KeepInv, ExpiryNear
  <2>2. expiresAt'[h] <= Seconds' + e
    BY <1>1, <1>2, <1>4, <2>1
  <2> QED BY <2>2
<1> QED BY <1>3, <1>4, InvoiceFacts DEF KeepInv

\* A call that waits for the expiry sets its timer past it.
LEMMA TimerSet ==
  ASSUME ShortExpiries, KeepInv, NEW c \in Callers, NEW h \in Hashes, NEW t \in Timeouts,
         WaitUntilHeld(c, h, t), answer'[c] = "waiting", ~timed'[c]
  PROVE  asked'[c] = h /\ expiresAt'[h] * TicksPerSecond <= due'[c]
<1> DEFINE untilExpiry == (expiresAt[h] - Seconds) * TicksPerSecond
<1>1. /\ answer'[c] = AnswerNow(h) /\ asked'[c] = h /\ expiresAt' = expiresAt
  BY DEF WaitUntilHeld, KeepInv, Inv, TypeOK, invoices
<1>2. /\ timed' = [timed EXCEPT ![c] = t > 0 /\ t < untilExpiry]
      /\ due' = [due EXCEPT ![c] = now + TimerDelay(WaitTicks(t, untilExpiry))]
  BY <1>1 DEF WaitUntilHeld
<1> HIDE DEF untilExpiry
<1>3. ~(t > 0 /\ t < untilExpiry) /\ due'[c] = now + TimerDelay(WaitTicks(t, untilExpiry))
  BY <1>2 DEF KeepInv, Inv, TypeOK
<1>4. WaitTicks(t, untilExpiry) = untilExpiry
  BY <1>3 DEF WaitTicks
<1>5. state[h] = "open" /\ ~Lapsed(h)
  BY <1>1 DEF AnswerNow, KeepInv, Inv, TypeOK
<1>6. /\ now \in Nat /\ Seconds \in Nat /\ TicksPerSecond \in Nat
      /\ Seconds * TicksPerSecond <= now
  BY SecondsFacts DEF KeepInv, Inv, TypeOK
<1>7. expiresAt[h] \in Nat /\ expiresAt[h] - Seconds \in Nat
  BY <1>5, <1>6 DEF Lapsed, KeepInv, Inv, TypeOK
<1>8. PICK e \in ExpirySeconds : expiresAt[h] - Seconds <= e /\ e \in Nat
  <2>1. PICK e \in ExpirySeconds : expiresAt[h] <= Seconds + e
    BY <1>5 DEF KeepInv, ExpiryNear
  <2>2. e \in Nat
    BY TimeAssumption
  <2> HIDE DEF Seconds
  <2> QED BY <1>6, <1>7, <2>1, <2>2
<1> HIDE DEF Seconds
<1>9. \A m, n, d \in Nat : m <= n => m * d <= n * d
  OBVIOUS
<1>10. untilExpiry <= e * TicksPerSecond /\ e * TicksPerSecond <= TimerMax
  BY <1>6, <1>7, <1>8, <1>9 DEF untilExpiry, ShortExpiries
<1>11. TimerDelay(untilExpiry) = untilExpiry
  <2>1. untilExpiry \in Int /\ e * TicksPerSecond \in Int /\ TimerMax \in Nat
    BY <1>6, <1>7, <1>8, TimeAssumption DEF untilExpiry
  <2> QED BY <1>10, <2>1 DEF TimerDelay
<1>12. untilExpiry = expiresAt[h] * TicksPerSecond - Seconds * TicksPerSecond
  BY <1>6, <1>7 DEF untilExpiry
<1>13. \A m, n \in Nat : m * n \in Nat
  OBVIOUS
<1>14. due'[c] = now + untilExpiry
  BY <1>3, <1>4, <1>11
<1>15. expiresAt[h] * TicksPerSecond \in Nat /\ Seconds * TicksPerSecond \in Nat
  BY <1>6, <1>7, <1>13
<1>16. expiresAt[h] * TicksPerSecond <= now + untilExpiry
  BY <1>6, <1>12, <1>15
<1> QED BY <1>1, <1>14, <1>16

\* Nobody asks without an invoice.
LEMMA AskedStep ==
  ASSUME KeepInv, [Next]_vars
  PROVE  AskedForOne'
<1> SUFFICES ASSUME NEW c \in Callers, answer'[c] # "none" PROVE asked'[c] \in Hashes
  BY DEF AskedForOne
<1>1. CASE \E h \in Hashes, t \in Timeouts : WaitUntilHeld(c, h, t)
  BY <1>1 DEF WaitUntilHeld, KeepInv, Inv, TypeOK
<1>2. CASE answer[c] # "none" /\ asked'[c] = asked[c]
  BY <1>2 DEF KeepInv, AskedForOne
<1> QED BY <1>1, <1>2, CallerFacts DEF KeepInv

\* The timers stay past the expiries: only invoices that nobody waits for get one.
LEMMA TimersLateStep ==
  ASSUME ShortExpiries, KeepInv, [Next]_vars
  PROVE  TimersLate'
<1> SUFFICES ASSUME NEW c \in Callers, answer'[c] = "waiting", ~timed'[c]
             PROVE  expiresAt'[asked'[c]] * TicksPerSecond <= due'[c]
  BY DEF TimersLate
<1>1. CASE UNCHANGED <<answer[c], asked[c], timed[c], due[c]>>
  <2>1. asked[c] \in Hashes /\ c \in waiters[asked[c]] /\ state[asked[c]] = "open"
    BY <1>1 DEF KeepInv, AskedForOne, Inv, NobodyForgotten
  <2>2. expiresAt'[asked[c]] = expiresAt[asked[c]]
    BY <2>1, InvoiceFacts DEF KeepInv
  <2> QED BY <1>1, <2>2 DEF KeepInv, TimersLate
<1>2. CASE \E h \in Hashes, t \in Timeouts : WaitUntilHeld(c, h, t)
  BY <1>2, TimerSet
<1> QED BY <1>1, <1>2, CallerFacts DEF KeepInv

\* A mapped invoice moves as the contract allows, or not at all.
LEMMA InvoiceKept ==
  ASSUME Inv, [Next]_vars, NEW h \in Hashes
  PROVE  InvoiceOf(h)' = InvoiceOf(h) \/ <<InvoiceOf(h), InvoiceOf(h)'>> \in Contract!Moves
<1>1. Seconds \in Nat /\ Seconds' \in Nat /\ Seconds <= Seconds' /\ expiresAt[h] \in Nat
  BY SecondsGrow DEF Inv, TypeOK
<1> HIDE DEF Seconds
<1>2. CASE state'[h] = state[h] /\ expiresAt'[h] = expiresAt[h]
  <2>1. Lapsed(h) => Lapsed(h)'
    BY <1>1, <1>2 DEF Lapsed
  <2> QED BY <1>2, <2>1 DEF InvoiceOf, Contract!Moves
<1>3. ASSUME state[h] = "none", state'[h] = "open", Seconds' = Seconds,
             NEW e \in ExpirySeconds, expiresAt'[h] = Seconds + e
      PROVE  <<InvoiceOf(h), InvoiceOf(h)'>> \in Contract!Moves
  <2>1. e \in Nat \ {0}
    BY TimeAssumption
  <2>2. ~Lapsed(h)'
    BY <1>1, <1>3, <2>1 DEF Lapsed
  <2> QED BY <1>3, <2>2 DEF InvoiceOf, Contract!Moves
<1>4. ASSUME state[h] = "open" /\ ~Lapsed(h) /\ state'[h] = "held"
      PROVE  <<InvoiceOf(h), InvoiceOf(h)'>> \in Contract!Moves
  BY <1>4 DEF InvoiceOf, Contract!Moves
<1>5. ASSUME \/ state[h] = "held" /\ state'[h] = "settled"
             \/ state[h] \in {"open", "held"} /\ state'[h] = "cancelled"
      PROVE  <<InvoiceOf(h), InvoiceOf(h)'>> \in Contract!Moves
  BY <1>5 DEF InvoiceOf, Contract!Moves
<1> QED BY <1>2, <1>3, <1>4, <1>5, InvoiceFacts

\* A caller is answered once, and with what is true of its invoice.
LEMMA CallerKept ==
  ASSUME KeepInv, [Next]_vars, NEW c \in Callers
  PROVE  \/ AnswerOf(c)' = AnswerOf(c) /\ asked'[c] = asked[c]
         \/ /\ AnswerOf(c) \in {"none", "waiting"}
            /\ asked'[c] \in Hashes
            /\ AnswerOf(c) = "waiting" => asked'[c] = asked[c]
            /\ \/ AnswerOf(c)' \in {"waiting", "timedOut", "error"}
               \/ /\ AnswerOf(c)' \in {"held", "expired", "cancelled"}
                  /\ AnswerOf(c)' = InvoiceOf(asked[c])'
<1>1. CASE UNCHANGED <<answer[c], asked[c], timed[c], due[c]>>
  BY <1>1 DEF AnswerOf
<1>2. ASSUME NEW h \in Hashes, NEW t \in Timeouts, WaitUntilHeld(c, h, t)
      PROVE  /\ AnswerOf(c) = "none"
             /\ asked'[c] = h
             /\ \/ AnswerOf(c)' \in {"waiting", "timedOut", "error"}
                \/ /\ AnswerOf(c)' \in {"held", "expired", "cancelled"}
                   /\ AnswerOf(c)' = InvoiceOf(h)'
  <2>1. /\ answer[c] = "none" /\ answer'[c] = AnswerNow(h) /\ asked'[c] = h
        /\ UNCHANGED <<now, invoices>>
    BY <1>2 DEF WaitUntilHeld, KeepInv, Inv, TypeOK
  <2>2. Lapsed(h)' <=> Lapsed(h)
    BY <2>1 DEF Lapsed, Seconds, invoices
  <2>3. state'[h] = state[h] /\ state[h] \in {"none", "open", "held", "settled", "cancelled"}
    BY <2>1 DEF invoices, KeepInv, Inv, TypeOK
  <2> QED BY <2>1, <2>2, <2>3 DEF AnswerOf, InvoiceOf, AnswerNow
<1>3. CASE /\ UNCHANGED <<asked[c], timed[c], due[c], invoices, now>>
           /\ answer[c] = "waiting" /\ now >= due[c] /\ answer'[c] = "expired"
  <2>1. asked[c] \in Hashes /\ state[asked[c]] = "open"
    BY <1>3 DEF KeepInv, AskedForOne, Inv, NobodyForgotten
  <2>2. CASE timed[c]
    BY <1>3, <2>1, <2>2 DEF AnswerOf
  <2>3. CASE ~timed[c]
    <3>1. expiresAt[asked[c]] * TicksPerSecond <= due[c]
      BY <1>3, <2>3 DEF KeepInv, TimersLate
    <3>2. /\ now \in Nat /\ due[c] \in Nat /\ expiresAt[asked[c]] \in Nat
          /\ expiresAt[asked[c]] * TicksPerSecond \in Int
      <4>1. now \in Nat /\ due[c] \in Nat /\ expiresAt[asked[c]] \in Nat
        BY <2>1 DEF KeepInv, Inv, TypeOK
      <4> QED BY <4>1, TimeAssumption
    <3>3. expiresAt[asked[c]] * TicksPerSecond <= now
      BY <1>3, <3>1, <3>2
    <3>4. Lapsed(asked[c])
      BY <3>2, <3>3, SecondsFacts DEF Lapsed
    <3>5. Lapsed(asked[c])' /\ state'[asked[c]] = "open"
      BY <1>3, <2>1, <3>4 DEF Lapsed, Seconds, invoices
    <3> QED BY <1>3, <2>1, <2>3, <3>5 DEF AnswerOf, InvoiceOf
  <2> QED BY <2>2, <2>3
<1>4. CASE /\ UNCHANGED <<asked[c], timed[c], due[c]>>
           /\ answer[c] = "waiting"
           /\ answer'[c] \in {"held", "cancelled"}
           /\ state'[asked[c]] = answer'[c]
  <2>1. asked[c] \in Hashes
    BY <1>4 DEF KeepInv, AskedForOne
  <2> QED BY <1>4, <2>1 DEF AnswerOf, InvoiceOf
<1> QED BY <1>1, <1>2, <1>3, <1>4, CallerFacts DEF KeepInv

\* The stronger invariant holds in every reachable state.
LEMMA KeepInvHolds ==
  ASSUME ShortExpiries
  PROVE  Spec => []KeepInv
<1>1. Init => KeepInv
  BY BackendInit DEF Init, KeepInv, AskedForOne, ExpiryNear, TimersLate
<1>2. KeepInv /\ [Next]_vars => KeepInv'
  BY BackendStep, AskedStep, ExpiryNearStep, TimersLateStep DEF KeepInv
<1> QED BY <1>1, <1>2, PTL DEF Spec

\* The contract begins where the backend does.
LEMMA ContractInit == Init => Contract!Init
  BY DEF Init, Contract!Init

\* Every step of the backend is one that the contract allows.
LEMMA ContractStep ==
  ASSUME KeepInv, [Next]_vars
  PROVE  Contract!Next
<1>1. \A h \in Hashes : Contract!InvoiceStep(h)
  <2> SUFFICES ASSUME NEW h \in Hashes PROVE Contract!InvoiceStep(h)
    OBVIOUS
  <2>1. InvoiceOf(h)' = InvoiceOf(h) \/ <<InvoiceOf(h), InvoiceOf(h)'>> \in Contract!Moves
    BY InvoiceKept DEF KeepInv
  <2> QED BY <2>1 DEF Contract!InvoiceStep, InvoiceOf
<1>2. \A c \in Callers : Contract!CallerStep(c)
  <2> SUFFICES ASSUME NEW c \in Callers PROVE Contract!CallerStep(c)
    OBVIOUS
  <2> QED BY CallerKept DEF Contract!CallerStep, AnswerOf, InvoiceOf
<1>3. \A c \in Callers : AnswerOf(c)' \in {"none", "waiting", "timedOut", "error",
                                            "held", "expired", "cancelled"}
  <2>1. TypeOK'
    BY BackendStep DEF KeepInv, Inv
  <2> QED BY <2>1 DEF TypeOK, Results, AnswerOf
<1> QED BY <1>1, <1>2, <1>3 DEF Contract!Next, AnswerOf

\* The in-memory backend keeps the contract that the settlement service relies on,
\* as long as no expiry is longer than setTimeout can wait (memory-backend.js:77).
THEOREM BackendKeepsContract ==
  ASSUME ShortExpiries
  PROVE  Spec => ContractSpec
<1>1. KeepInv /\ [Next]_vars => Contract!Next
  BY ContractStep
<1> QED BY <1>1, ContractInit, KeepInvHolds, PTL DEF Spec, ContractSpec, Contract!Spec
=============================================================================
