--------------------------- MODULE MemoryBackend ---------------------------
(***************************************************************************)
(* lib/src/settlement/memory-backend.js: hold invoices in memory, callers  *)
(* of waitUntilHeld with a timer each, and a clock.  Time is counted in    *)
(* ticks, several to a second, because the code rounds Date.now() down to  *)
(* seconds and lets its timers run in milliseconds.                        *)
(***************************************************************************)
EXTENDS Integers

CONSTANTS
  Hashes,          \* payment hashes
  Callers,         \* the calls of waitUntilHeld that are ever made
  NoHash,
  TicksPerSecond,
  ExpirySeconds,   \* the values of expirySeconds tried
  Timeouts,        \* the values of timeoutMs tried, in ticks; 0 is none given
  TimerMax,        \* setTimeout's longest delay; a longer one runs out at once
  MaxTime          \* bound: the last tick

ASSUME TimeAssumption == /\ TicksPerSecond \in Nat \ {0}
                         /\ ExpirySeconds \subseteq Nat \ {0}
                         /\ Timeouts \subseteq Nat
                         /\ TimerMax \in Nat
                         /\ MaxTime \in Nat
ASSUME NoHashAssumption == NoHash \notin Hashes

VARIABLES
  now,        \* the clock, in ticks
  state,      \* per hash: "none", "open", "held", "settled" or "cancelled"
  expiresAt,  \* per hash: unix seconds
  waiters,    \* per hash: inv.waiters
  answer,     \* per caller: "none", "waiting", or what the promise resolved to
  asked,      \* per caller: the hash it waits for
  timed,      \* per caller: its own timeout is earlier than the expiry
  due         \* per caller: when its timer runs out

invoices == <<state, expiresAt>>
calls    == <<answer, asked, timed, due>>
vars     == <<now, invoices, waiters, calls>>

Seconds == now \div TicksPerSecond
Lapsed(h) == Seconds >= expiresAt[h]

Init ==
  /\ now = 0
  /\ state     = [h \in Hashes |-> "none"]
  /\ expiresAt = [h \in Hashes |-> 0]
  /\ waiters   = [h \in Hashes |-> {}]
  /\ answer    = [c \in Callers |-> "none"]
  /\ asked     = [c \in Callers |-> NoHash]
  /\ timed     = [c \in Callers |-> FALSE]
  /\ due       = [c \in Callers |-> 0]

----------------------------------------------------------------------------

\* A second invoice for the hash is refused.  Bound: it expires, and every
\* timer set for it is due, before the clock ends.
CreateHoldInvoice(h, expirySeconds) ==
  /\ state[h] = "none"
  /\ (Seconds + expirySeconds + 1) * TicksPerSecond <= MaxTime
  /\ state' = [state EXCEPT ![h] = "open"]
  /\ expiresAt' = [expiresAt EXCEPT ![h] = Seconds + expirySeconds]
  /\ UNCHANGED <<now, waiters, calls>>

WaitTicks(timeout, untilExpiry) ==
  IF timeout > 0 /\ timeout < untilExpiry THEN timeout ELSE untilExpiry

\* setTimeout replaces a delay it cannot hold by one millisecond.
TimerDelay(ticks) == IF ticks > TimerMax THEN 0 ELSE ticks

\* Mutant: a settled invoice is reported instead of refused.
AnswerState(h) ==
  IF state[h] # "open" THEN state[h] ELSE IF Lapsed(h) THEN "expired" ELSE "waiting"

\* Answered at once: in this order the code tests the state and the expiry.
AnswerNow(h) ==
  CASE state[h] = "none"      -> "error"
    [] state[h] = "held"      -> "held"
    [] state[h] = "cancelled" -> "cancelled"
    [] state[h] = "settled"   -> "error"
    [] OTHER                  -> IF Lapsed(h) THEN "expired" ELSE "waiting"

WaitUntilHeld(c, h, timeout) ==
  LET untilExpiry == (expiresAt[h] - Seconds) * TicksPerSecond
      wait == WaitTicks(timeout, untilExpiry)
  IN
  /\ answer[c] = "none"
  /\ answer' = [answer EXCEPT ![c] = AnswerNow(h)]
  /\ asked' = [asked EXCEPT ![c] = h]
  /\ IF AnswerNow(h) = "waiting"
     THEN /\ timed' = [timed EXCEPT ![c] = timeout > 0 /\ timeout < untilExpiry]
          /\ due' = [due EXCEPT ![c] = now + TimerDelay(wait)]
          /\ waiters' = [waiters EXCEPT ![h] = @ \cup {c}]
     ELSE UNCHANGED <<timed, due, waiters>>
  /\ UNCHANGED <<now, invoices>>

\* Mutant: a caller without a timeout of its own gets no timer.
TimerOnlyIfTimed(c) == timed[c] /\ now >= due[c]

TimerDue(c) == now >= due[c]

\* Timers run out on time or late, never early.
TimerFires(c) ==
  /\ answer[c] = "waiting"
  /\ TimerDue(c)
  /\ waiters' = [waiters EXCEPT ![asked[c]] = @ \ {c}]
  /\ answer' = [answer EXCEPT ![c] = "expired"]
  /\ UNCHANGED <<now, invoices, asked, timed, due>>

\* Mutant: the list is emptied before the callers in it are told.
WakeNobody(h, result) == waiters' = [waiters EXCEPT ![h] = {}] /\ UNCHANGED answer

\* _wake: every caller in the list is told and its timer cleared.
Wake(h, result) ==
  /\ waiters' = [waiters EXCEPT ![h] = {}]
  /\ answer' = [c \in Callers |-> IF c \in waiters[h] THEN result ELSE answer[c]]

Settle(h) ==
  /\ state[h] = "held"
  /\ state' = [state EXCEPT ![h] = "settled"]
  /\ UNCHANGED <<now, expiresAt, waiters, calls>>

Cancel(h) ==
  /\ state[h] \in {"open", "held"}
  /\ state' = [state EXCEPT ![h] = "cancelled"]
  /\ Wake(h, "cancelled")
  /\ UNCHANGED <<now, expiresAt, asked, timed, due>>

\* Mutant: a late payment is accepted.
AcceptsAnyTime(h) == state[h] = "open"

AcceptsPayment(h) == state[h] = "open" /\ ~Lapsed(h)

SimulateIncomingPayment(h) ==
  /\ AcceptsPayment(h)
  /\ state' = [state EXCEPT ![h] = "held"]
  /\ Wake(h, "held")
  /\ UNCHANGED <<now, expiresAt, asked, timed, due>>

Tick ==
  /\ now < MaxTime
  /\ now' = now + 1
  /\ UNCHANGED <<invoices, waiters, calls>>

Next ==
  \/ Tick
  \/ \E c \in Callers : \/ TimerFires(c)
                        \/ \E h \in Hashes, t \in Timeouts : WaitUntilHeld(c, h, t)
  \/ \E h \in Hashes : \/ \E e \in ExpirySeconds : CreateHoldInvoice(h, e)
                       \/ SimulateIncomingPayment(h) \/ Settle(h) \/ Cancel(h)

Spec == Init /\ [][Next]_vars

\* Time passes and the event loop runs the timers that are due.
FairSpec == Spec /\ WF_vars(Tick) /\ \A c \in Callers : WF_vars(TimerFires(c))

----------------------------------------------------------------------------
(* What must hold.                                                         *)

Results == {"held", "expired", "cancelled", "error"}

\* Types; a promise only ever resolves to what the interface lists.
TypeOK ==
  /\ now \in 0 .. MaxTime
  /\ state     \in [Hashes -> {"none", "open", "held", "settled", "cancelled"}]
  /\ expiresAt \in [Hashes -> Nat]
  /\ waiters   \in [Hashes -> SUBSET Callers]
  /\ answer    \in [Callers -> {"none", "waiting"} \cup Results]
  /\ asked     \in [Callers -> Hashes \cup {NoHash}]
  /\ timed     \in [Callers -> BOOLEAN]
  /\ due       \in [Callers -> Nat]

\* waitUntilHeld, its timer and _wake agree: a promise is unresolved exactly
\* while its caller is in the list of the invoice it asked about, and there is
\* no such list once the invoice is held or cancelled.
NobodyForgotten ==
  /\ \A c \in Callers, h \in Hashes :
       c \in waiters[h] <=> answer[c] = "waiting" /\ asked[c] = h
  /\ \A h \in Hashes : waiters[h] # {} => state[h] = "open"

\* The backend keeps the contract the settlement service relies on: the life of
\* an invoice, and answers that are true when given; "expired" means for good.
Contract == INSTANCE HoldBackend WITH
  invoice <- [h \in Hashes |-> IF state[h] = "open" /\ Lapsed(h) THEN "expired" ELSE state[h]],
  answer  <- [c \in Callers |-> IF answer[c] = "expired" /\ timed[c] THEN "timedOut" ELSE answer[c]]

ContractSpec == Contract!Spec

\* Every call of waitUntilHeld is answered although nobody pays or cancels.
EveryCallerAnswered == \A c \in Callers : answer[c] = "waiting" ~> answer[c] \in Results
=============================================================================
