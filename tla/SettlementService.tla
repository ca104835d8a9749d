------------------------- MODULE SettlementService -------------------------
(***************************************************************************)
(* lib/src/settlement/service.js: one payout from createPayout() to the    *)
(* settled or cancelled hold.  JavaScript runs one callback at a time, so  *)
(* an action of the service is what runs between two awaits; the backend,  *)
(* the wallet, the payout provider and the timers step in between.  A      *)
(* backend promise that has settled waits in `call' until the service runs.*)
(* A payout stands for its payment hash, and for the preimage of it.       *)
(***************************************************************************)
EXTENDS Integers, FiniteSets

CONSTANTS
  Payouts,          \* the calls of createPayout that are ever made
  MaxPending,       \* maxPendingPayouts
  SettleAttempts,   \* settleAttempts
  ConcurrentCalls,  \* bound: createPayout calls that await their invoice at once
  Faults            \* which of FaultKinds may happen

FaultKinds == {"backendError",   \* a backend call rejects and has no effect
               "replyLost",      \* a backend call takes effect and rejects
               "externalCancel", \* the node or its operator ends an invoice
               "fiatReplyLost",  \* sendFiat rejects though the fiat arrives
               "crash"}          \* the process restarts with empty memory

ASSUME FinitePayouts == IsFiniteSet(Payouts)
ASSUME LimitsAssumption == /\ MaxPending \in Nat
                           /\ SettleAttempts \in Nat \ {0}
                           /\ ConcurrentCalls \in Nat \ {0}
ASSUME FaultsAssumption == Faults \subseteq FaultKinds

VARIABLES
  pendingCount,  \* this.pendingCount
  payouts,       \* this.payouts: the record of each payout, NoRecord if absent
  pc,            \* where the payout's code is suspended
  attempt,       \* settle attempts begun
  outcome,       \* what _sendFiatWithTimeout returned
  call,          \* the backend call the service awaits, or its settled result
  invoice,       \* the hold invoice at the Lightning backend
  fiat,          \* the sendFiat promise
  delivered      \* the recipient has the fiat

memory  == <<pendingCount, payouts, pc, attempt, outcome>>
outside == <<invoice, fiat, delivered>>
vars    == <<memory, call, outside>>

NoRecord == [status |-> "none", error |-> "none", preimage |-> FALSE,
             needsAttention |-> FALSE, lateSuccessAfterCancel |-> FALSE]

NewRecord == [NoRecord EXCEPT !.status = "pending", !.preimage = TRUE]

Statuses == {"none", "pending", "processing", "completed", "failed"}
Errors   == {"none", "HOLD_EXPIRED", "CANCELLED", "NETWORK_ERROR",
             "PAYOUT_TIMEOUT", "PAYOUT_FAILED", "SETTLE_FAILED"}
Record   == [status : Statuses, error : Errors, preimage : BOOLEAN,
             needsAttention : BOOLEAN, lateSuccessAfterCancel : BOOLEAN]

\* The invoice has been given to a wallet; "lost" is after a restart.
Running == {"waiting", "sending", "cancelling", "settling", "pausing"}
Issued  == Running \cup {"done", "lost"}
Points  == Issued \cup {"idle", "creating", "rejected", "busy"}

Requests == {"create", "wait", "cancel", "settle"}
Answers  == {"ok", "error", "held", "expired", "cancelled"}

Creating == {p \in Payouts : pc[p] = "creating"}
Unpaid   == {p \in Payouts : payouts[p].status = "pending"}

Init ==
  /\ pendingCount = 0
  /\ payouts   = [p \in Payouts |-> NoRecord]
  /\ pc        = [p \in Payouts |-> "idle"]
  /\ attempt   = [p \in Payouts |-> 0]
  /\ outcome   = [p \in Payouts |-> "none"]
  /\ call      = [p \in Payouts |-> "none"]
  /\ invoice   = [p \in Payouts |-> "none"]
  /\ fiat      = [p \in Payouts |-> "none"]
  /\ delivered = [p \in Payouts |-> FALSE]

----------------------------------------------------------------------------
(* Helpers: suspend, ask the backend, finish a record.                     *)

Goto(p, point) == pc' = [pc EXCEPT ![p] = point]
Ask(p, what)   == call' = [call EXCEPT ![p] = what]
Keep(p, r)     == payouts' = [payouts EXCEPT ![p] = r]

\* At `point', and the awaited backend call has settled with one of `answers'.
Answered(p, point, answers) == pc[p] = point /\ call[p] \in answers

\* Mutants of _fail: the count is never lowered, or whatever the status.
FailWithoutRelease(p, r, reason) ==
  /\ Keep(p, [r EXCEPT !.status = "failed", !.error = reason, !.preimage = FALSE])
  /\ UNCHANGED pendingCount

FailAlwaysReleasing(p, r, reason) ==
  /\ pendingCount' = pendingCount - 1
  /\ Keep(p, [r EXCEPT !.status = "failed", !.error = reason, !.preimage = FALSE])

\* _fail: a payout that nobody paid stops counting as pending.
Fail(p, r, reason) ==
  /\ pendingCount' = IF r.status = "pending" THEN pendingCount - 1 ELSE pendingCount
  /\ Keep(p, [r EXCEPT !.status = "failed", !.error = reason, !.preimage = FALSE])

----------------------------------------------------------------------------
(* createPayout                                                            *)

\* An argument is missing or malformed, or rateExpiry has passed.
RejectArguments(p) ==
  /\ pc[p] = "idle"
  /\ Goto(p, "rejected")
  /\ UNCHANGED <<pendingCount, payouts, attempt, outcome, call, outside>>

HasCapacity == pendingCount < MaxPending

RefuseAtCapacity(p) ==
  /\ pc[p] = "idle"
  /\ ~HasCapacity
  /\ Goto(p, "busy")
  /\ UNCHANGED <<pendingCount, payouts, attempt, outcome, call, outside>>

\* Mutant: the record is kept and counted before the backend has answered.
RegisterFirst(p) ==
  /\ pc[p] = "idle"
  /\ HasCapacity
  /\ Cardinality(Creating) < ConcurrentCalls
  /\ Keep(p, NewRecord)
  /\ pendingCount' = pendingCount + 1
  /\ Goto(p, "creating")
  /\ Ask(p, "create")
  /\ UNCHANGED <<attempt, outcome, outside>>

\* The count is checked here and raised only once the backend has answered.
RequestInvoice(p) ==
  /\ pc[p] = "idle"
  /\ HasCapacity
  /\ Cardinality(Creating) < ConcurrentCalls
  /\ Goto(p, "creating")
  /\ Ask(p, "create")
  /\ UNCHANGED <<pendingCount, payouts, attempt, outcome, outside>>

InvoiceCreated(p) ==
  /\ Answered(p, "creating", {"ok"})
  /\ Keep(p, NewRecord)
  /\ pendingCount' = pendingCount + 1
  /\ Goto(p, "waiting")
  /\ Ask(p, "wait")
  /\ UNCHANGED <<attempt, outcome, outside>>

InvoiceRefused(p) ==
  /\ Answered(p, "creating", {"error"})
  /\ Goto(p, "rejected")
  /\ Ask(p, "none")
  /\ UNCHANGED <<pendingCount, payouts, attempt, outcome, outside>>

----------------------------------------------------------------------------
(* _process, from the answer of waitUntilHeld                              *)

PaymentHeld(p) ==
  /\ Answered(p, "waiting", {"held"})
  /\ pendingCount' = pendingCount - 1
  /\ Keep(p, [payouts[p] EXCEPT !.status = "processing"])
  /\ fiat' = [fiat EXCEPT ![p] = "inflight"]
  /\ Goto(p, "sending")
  /\ Ask(p, "none")
  /\ UNCHANGED <<attempt, outcome, invoice, delivered>>

\* The last alternative is the catch around _process.
PaymentNotHeld(p) ==
  /\ Answered(p, "waiting", {"expired", "cancelled", "error"})
  /\ Fail(p, payouts[p], CASE call[p] = "expired"   -> "HOLD_EXPIRED"
                           [] call[p] = "cancelled" -> "CANCELLED"
                           [] OTHER                 -> "NETWORK_ERROR")
  /\ Goto(p, "done")
  /\ Ask(p, "none")
  /\ UNCHANGED <<attempt, outcome, outside>>

----------------------------------------------------------------------------
(* _sendFiatWithTimeout and _cancelHold                                    *)

\* Mutant: any answer of the provider counts as success.
AnyAnswerWillDo(p) == fiat[p] \in {"ok", "failed"}

FiatSucceeded(p) == fiat[p] = "ok"

FiatConfirmed(p) ==
  /\ pc[p] = "sending"
  /\ FiatSucceeded(p)
  /\ outcome' = [outcome EXCEPT ![p] = "ok"]
  /\ attempt' = [attempt EXCEPT ![p] = 1]
  /\ Goto(p, "settling")
  /\ Ask(p, "settle")
  /\ UNCHANGED <<pendingCount, payouts, outside>>

GiveUpOnFiat(p, reason) ==
  /\ pc[p] = "sending"
  /\ outcome' = [outcome EXCEPT ![p] = reason]
  /\ Goto(p, "cancelling")
  /\ Ask(p, "cancel")
  /\ UNCHANGED <<pendingCount, payouts, attempt, outside>>

FiatRefused(p) == fiat[p] = "failed" /\ GiveUpOnFiat(p, "PAYOUT_FAILED")

\* Mutant: the race has no timer.
WaitForever(p) == FALSE

\* The timer may fire with the provider's answer still unread.
PayoutTimer(p) == GiveUpOnFiat(p, "PAYOUT_TIMEOUT")

\* Mutant: a cancel that failed is not flagged.
CancelErrorIgnored(r, answer) == r

AfterCancel(r, answer) == [r EXCEPT !.needsAttention = @ \/ answer = "error"]

HoldCancelled(p) ==
  /\ Answered(p, "cancelling", {"ok", "error"})
  /\ Fail(p, AfterCancel(payouts[p], call[p]), outcome[p])
  /\ Goto(p, "done")
  /\ Ask(p, "none")
  /\ UNCHANGED <<attempt, outcome, outside>>

\* Mutants: no handler is left behind; or it overturns the verdict.
NoLateHandler(p) == FALSE

LateIsCompleted(r) == [r EXCEPT !.status = "completed"]

\* The handler left behind by a timeout: the fiat went through after all.
LatePending(p) ==
  /\ outcome[p] = "PAYOUT_TIMEOUT"
  /\ fiat[p] = "ok"
  /\ ~payouts[p].lateSuccessAfterCancel

AfterLateSuccess(r) == [r EXCEPT !.lateSuccessAfterCancel = TRUE]

LateSuccess(p) ==
  /\ LatePending(p)
  /\ Keep(p, AfterLateSuccess(payouts[p]))
  /\ UNCHANGED <<pendingCount, pc, attempt, outcome, call, outside>>

----------------------------------------------------------------------------
(* _settleWithRetry                                                        *)

HoldSettled(p) ==
  /\ Answered(p, "settling", {"ok"})
  /\ Keep(p, [payouts[p] EXCEPT !.status = "completed", !.preimage = FALSE])
  /\ Goto(p, "done")
  /\ Ask(p, "none")
  /\ UNCHANGED <<pendingCount, attempt, outcome, outside>>

SettleRejected(p) ==
  /\ Answered(p, "settling", {"error"})
  /\ attempt[p] < SettleAttempts
  /\ Goto(p, "pausing")
  /\ Ask(p, "none")
  /\ UNCHANGED <<pendingCount, payouts, attempt, outcome, outside>>

RetrySettle(p) ==
  /\ pc[p] = "pausing"
  /\ attempt' = [attempt EXCEPT ![p] = @ + 1]
  /\ Goto(p, "settling")
  /\ Ask(p, "settle")
  /\ UNCHANGED <<pendingCount, payouts, outcome, outside>>

\* Mutants: giving up is not flagged; or it is treated as any other failure.
AbandonSilently(r) == [r EXCEPT !.error = "SETTLE_FAILED"]

AbandonByFailing(r) == [r EXCEPT !.status = "failed", !.error = "SETTLE_FAILED",
                                 !.needsAttention = TRUE, !.preimage = FALSE]

\* The record stays in "processing" and keeps its preimage.
AfterAbandon(r) == [r EXCEPT !.error = "SETTLE_FAILED", !.needsAttention = TRUE]

SettleAbandoned(p) ==
  /\ Answered(p, "settling", {"error"})
  /\ attempt[p] >= SettleAttempts
  /\ Keep(p, AfterAbandon(payouts[p]))
  /\ Goto(p, "done")
  /\ Ask(p, "none")
  /\ UNCHANGED <<pendingCount, attempt, outcome, outside>>

----------------------------------------------------------------------------
(* A restart: every record and preimage is gone, what was asked of the     *)
(* backend and of the provider still happens.                              *)

Crash ==
  /\ "crash" \in Faults
  /\ pendingCount' = 0
  /\ payouts' = [p \in Payouts |-> NoRecord]
  /\ pc' = [p \in Payouts |-> IF pc[p] \in Issued THEN "lost"
                              ELSE IF pc[p] = "creating" THEN "rejected" ELSE pc[p]]
  /\ attempt' = [p \in Payouts |-> 0]
  /\ outcome' = [p \in Payouts |-> "none"]
  /\ UNCHANGED <<call, outside>>

----------------------------------------------------------------------------
(* The Lightning backend                                                   *)

\* The request takes effect and moves the invoice; its answer may be lost.
Serve(p, request, from, to) ==
  /\ call[p] = request
  /\ invoice[p] \in from
  /\ invoice' = [invoice EXCEPT ![p] = to]
  /\ \E a \in {"ok"} \cup (IF "replyLost" \in Faults THEN {"error"} ELSE {}) : Ask(p, a)
  /\ UNCHANGED <<memory, fiat, delivered>>

ServeCreate(p) == Serve(p, "create", {"none"}, "open")
ServeSettle(p) == Serve(p, "settle", {"held"}, "settled")
ServeCancel(p) == \/ Serve(p, "cancel", {"held"}, "cancelled")
                  \/ Serve(p, "cancel", {"cancelled"}, "cancelled")

ServeWait(p) ==
  /\ call[p] = "wait"
  /\ \/ invoice[p] = "held"    /\ Ask(p, "held")
     \/ invoice[p] = "expired" /\ Ask(p, "expired")
     \/ invoice[p] \in {"voided", "cancelled"} /\ Ask(p, "cancelled")
  /\ UNCHANGED <<memory, outside>>

\* Rejected without effect: the backend cannot be reached, or it is asked to
\* settle what is no longer held.
Reject(p) ==
  /\ call[p] \in Requests
  /\ \/ "backendError" \in Faults
     \/ call[p] = "settle" /\ invoice[p] \in {"settled", "cancelled"}
  /\ Ask(p, "error")
  /\ UNCHANGED <<memory, outside>>

MoveInvoice(p, from, to) ==
  /\ invoice[p] = from
  /\ invoice' = [invoice EXCEPT ![p] = to]
  /\ UNCHANGED <<memory, call, fiat, delivered>>

InvoiceExpires(p) == MoveInvoice(p, "open", "expired")

\* HTLC timeout, or somebody at the node.
ExternalCancel(p) ==
  /\ "externalCancel" \in Faults
  /\ \/ MoveInvoice(p, "open", "voided")
     \/ MoveInvoice(p, "held", "cancelled")

----------------------------------------------------------------------------
(* The wallet and the payout provider                                      *)

WalletPays(p) == pc[p] \in Issued /\ MoveInvoice(p, "open", "held")

DeliverFiat(p) ==
  /\ fiat[p] = "inflight"
  /\ ~delivered[p]
  /\ delivered' = [delivered EXCEPT ![p] = TRUE]
  /\ UNCHANGED <<memory, call, invoice, fiat>>

AnswerFiat(p) ==
  /\ fiat[p] = "inflight"
  /\ \/ delivered[p] /\ fiat' = [fiat EXCEPT ![p] = "ok"]
     \/ /\ delivered[p] => "fiatReplyLost" \in Faults
        /\ fiat' = [fiat EXCEPT ![p] = "failed"]
  /\ UNCHANGED <<memory, call, invoice, delivered>>

----------------------------------------------------------------------------

CreateSteps(p) == RejectArguments(p) \/ RefuseAtCapacity(p) \/ RequestInvoice(p)

\* Code of the service that runs once what it awaits has happened.
Continue(p) ==
  \/ InvoiceCreated(p) \/ InvoiceRefused(p)
  \/ PaymentHeld(p)    \/ PaymentNotHeld(p)
  \/ FiatConfirmed(p)  \/ FiatRefused(p)  \/ PayoutTimer(p)
  \/ HoldCancelled(p)
  \/ HoldSettled(p)    \/ SettleRejected(p) \/ RetrySettle(p) \/ SettleAbandoned(p)

Backend(p) == ServeCreate(p) \/ ServeWait(p) \/ ServeSettle(p) \/ ServeCancel(p) \/ Reject(p)

World(p) == InvoiceExpires(p) \/ ExternalCancel(p) \/ WalletPays(p)
            \/ DeliverFiat(p) \/ AnswerFiat(p)

Next ==
  \/ Crash
  \/ \E p \in Payouts : CreateSteps(p) \/ Continue(p) \/ LateSuccess(p)
                        \/ Backend(p) \/ World(p)

Spec == Init /\ [][Next]_vars

----------------------------------------------------------------------------
(* What must hold.                                                         *)

\* Types; in particular the count of unpaid invoices never goes below zero.
TypeOK ==
  /\ pendingCount \in Nat
  /\ payouts   \in [Payouts -> Record]
  /\ pc        \in [Payouts -> Points]
  /\ attempt   \in [Payouts -> 0 .. SettleAttempts]
  /\ outcome   \in [Payouts -> {"none", "ok", "PAYOUT_TIMEOUT", "PAYOUT_FAILED"}]
  /\ call      \in [Payouts -> {"none"} \cup Requests \cup Answers]
  /\ invoice   \in [Payouts -> {"none", "open", "expired", "voided",
                                "held", "settled", "cancelled"}]
  /\ fiat      \in [Payouts -> {"none", "inflight", "ok", "failed"}]
  /\ delivered \in [Payouts -> BOOLEAN]

\* pendingCount, raised in createPayout and lowered in _process and in _fail,
\* is at every await the number of payouts nobody has paid yet: no path
\* releases a place twice or leaks one.
PendingCountExact == pendingCount = Cardinality(Unpaid)

\* The limit is tested before createHoldInvoice is awaited and the count raised
\* after, so concurrent calls overshoot maxPendingPayouts; never by more than
\* the other calls in flight.
PendingBound ==
  pendingCount + Cardinality(Creating) <= MaxPending + ConcurrentCalls - 1

\* Hold invoices are only settled once the fiat has arrived, whichever calls
\* fail, time out, lose their answer or are cut by a restart.
CaptureOnlyAfterDelivery ==
  \A p \in Payouts : invoice[p] = "settled" => delivered[p]

\* Once the service has decided to settle and until the sats are taken or gone
\* it holds the only key to them, also after it gave up with SETTLE_FAILED.
ClaimableWhenOwed ==
  \A p \in Payouts : outcome[p] = "ok" /\ invoice[p] = "held" => payouts[p].preimage

\* When the work for a payout is over, sats that are still held are flagged
\* for attention, unless the backend could not be watched at all.
StuckIsFlagged ==
  \A p \in Payouts : pc[p] = "done" /\ invoice[p] = "held" =>
    payouts[p].needsAttention \/ payouts[p].error = "NETWORK_ERROR"

\* The books balance: a finished payout that carries neither flag, and whose
\* provider told the truth, moved both the fiat and the sats or neither.
UnflaggedIsBalanced ==
  \A p \in Payouts :
    /\ pc[p] = "done" /\ ~LatePending(p)
    /\ delivered[p] <=> fiat[p] = "ok"
    /\ ~payouts[p].needsAttention /\ ~payouts[p].lateSuccessAfterCancel
    => (delivered[p] <=> invoice[p] = "settled")

Final(p) == payouts[p].status \in {"completed", "failed"}

\* The verdict a wallet reads from verify never changes once it is final: late
\* answers only add a flag.  Only a restart forgets it.
VerdictIsFinal ==
  [][\A p \in Payouts : Final(p) =>
       \/ payouts'[p] = NoRecord
       \/ /\ payouts'[p].status = payouts[p].status
          /\ payouts'[p].error = payouts[p].error]_vars

\* The service implements the promise of OffRamp under every fault.
SatsOf(p) ==
  CASE invoice[p] \in {"none", "open"}      -> "unpaid"
    [] invoice[p] \in {"expired", "voided"} -> "lapsed"
    [] invoice[p] = "settled"               -> "captured"
    [] invoice[p] = "cancelled"             -> "returned"
    [] OTHER                                -> "held"
FiatOf(p) == IF delivered[p] THEN "delivered" ELSE "undelivered"
ToldOf(p) ==
  CASE payouts[p].status = "none" -> "unknown"
    [] payouts[p].status \in {"pending", "processing"} -> "inprogress"
    [] OTHER -> payouts[p].status

Ramp == INSTANCE OffRamp WITH
  sats <- [p \in Payouts |-> SatsOf(p)],
  fiat <- [p \in Payouts |-> FiatOf(p)],
  told <- [p \in Payouts |-> ToldOf(p)]

RampSpec == Ramp!Spec

\* Every payout's background work ends although neither the wallet nor the
\* payout provider need ever act.
EveryPayoutEnds ==
  \A p \in Payouts : pc[p] \in Running \cup {"creating"}
                       ~> pc[p] \in {"done", "rejected", "lost"}

\* A full service accepts payouts again although nobody ever pays.
CapacityRecovers == ~HasCapacity ~> HasCapacity

\* Fiat the provider confirmed is paid for with the captured sats, or the
\* record says that somebody must look at it; a restart loses the record.
ConfirmedIsSettledOrFlagged ==
  \A p \in Payouts : fiat[p] = "ok" ~>
    \/ invoice[p] = "settled"
    \/ payouts[p].needsAttention
    \/ payouts[p].lateSuccessAfterCancel
    \/ pc[p] = "lost"

\* What the comment on maxPendingPayouts says: at most that many unpaid
\* invoices at once.
UnpaidLimit == Cardinality(Unpaid) <= MaxPending

\* What the documents say of "failed": the hold was cancelled.
FailedMeansReleased ==
  \A p \in Payouts : payouts[p].status = "failed" => invoice[p] # "held"
=============================================================================
