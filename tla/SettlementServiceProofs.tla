---------------------- MODULE SettlementServiceProofs ----------------------
(***************************************************************************)
(* Proofs about SettlementService and, at the end, about LnurlServer on    *)
(* top of it, for every set of payouts, every limit, every set of faults,  *)
(* every lifetime of a quote and every delay of the backend.               *)
(***************************************************************************)
EXTENDS LnurlServer, FiniteSetTheorems, TLAPS

----------------------------------------------------------------------------
(* The inductive invariant.                                                *)

\* The backend calls that may be outstanding, or answered, at each point.
CallsAt(point) ==
  CASE point = "creating"   -> {"create", "ok", "error"}
    [] point = "rejected"   -> {"none", "create", "ok", "error"}
    [] point = "waiting"    -> {"wait", "held", "expired", "cancelled", "error"}
    [] point = "cancelling" -> {"cancel", "ok", "error"}
    [] point = "settling"   -> {"settle", "ok", "error"}
    [] point = "lost"       -> {"none"} \cup Requests \cup Answers
    [] OTHER                -> {"none"}

StatusAt(point) ==
  CASE point = "waiting" -> {"pending"}
    [] point \in {"sending", "cancelling", "settling", "pausing"} -> {"processing"}
    [] point = "done" -> {"processing", "completed", "failed"}
    [] OTHER -> {"none"}

OutcomeAt(point) ==
  CASE point = "cancelling" -> {"PAYOUT_TIMEOUT", "PAYOUT_FAILED"}
    [] point \in {"settling", "pausing"} -> {"ok"}
    [] point = "done" -> {"none", "ok", "PAYOUT_TIMEOUT", "PAYOUT_FAILED"}
    [] OTHER -> {"none"}

\* Where the code is, what it awaits and what the record says go together.
PointInv(p) ==
  /\ call[p] \in CallsAt(pc[p])
  /\ payouts[p].status \in StatusAt(pc[p])
  /\ outcome[p] \in OutcomeAt(pc[p])
  /\ pc[p] = "pausing" => attempt[p] < SettleAttempts

\* Fiat is sent against a payment that was held, and only from then on.
FiatInv(p) ==
  /\ pc[p] \in {"idle", "creating", "rejected", "busy", "waiting"} => fiat[p] = "none"
  /\ fiat[p] = "none" => ~delivered[p]
  /\ fiat[p] = "ok" => delivered[p]
  /\ fiat[p] # "none" => invoice[p] \in {"held", "cancelled", "settled"}
  /\ call[p] = "held" => invoice[p] \in {"held", "cancelled", "settled"}

\* Settling is only ever asked for once the provider has confirmed.
SettleInv(p) ==
  /\ call[p] = "settle" => fiat[p] = "ok" /\ pc[p] \in {"settling", "lost"}
  /\ outcome[p] = "ok" => fiat[p] = "ok"
  /\ invoice[p] = "settled" =>
       /\ fiat[p] = "ok"
       /\ pc[p] \in {"settling", "pausing", "done", "lost"}
       /\ payouts[p].status # "failed"
  /\ payouts[p].status = "completed" => invoice[p] = "settled"
  /\ pc[p] = "settling" /\ call[p] = "ok" => invoice[p] = "settled"

\* The preimage is kept until the payout has a final verdict.
PreimageInv(p) ==
  /\ pc[p] \in Running => payouts[p].preimage
  /\ outcome[p] = "ok" => payouts[p].preimage \/ payouts[p].status = "completed"

PayoutInv(p) == PointInv(p) /\ FiatInv(p) /\ SettleInv(p) /\ PreimageInv(p)

Inv == /\ TypeOK
       /\ PendingCountExact
       /\ \A p \in Payouts : PayoutInv(p)

----------------------------------------------------------------------------
(* Type correctness.                                                       *)

\* A payout that nobody paid is counted, so the count can be lowered.
LEMMA UnpaidCounted ==
  ASSUME Inv, NEW p \in Payouts, payouts[p].status = "pending"
  PROVE  pendingCount - 1 \in Nat
<1>1. IsFiniteSet(Unpaid)
  BY FinitePayouts, FS_Subset DEF Unpaid
<1>2. Unpaid # {}
  BY DEF Unpaid
<1>3. pendingCount \in Nat /\ pendingCount # 0
  BY <1>1, <1>2, FS_EmptySet DEF Inv, TypeOK, PendingCountExact
<1> QED BY <1>3

\* Fail, the only step two paths share, keeps the types.
LEMMA FailType ==
  ASSUME Inv, NEW p \in Payouts, NEW r \in Record, NEW reason \in Errors,
         r.status = payouts[p].status, Fail(p, r, reason)
  PROVE  /\ pendingCount' \in Nat
         /\ payouts' \in [Payouts -> Record]
<1>1. pendingCount' \in Nat
  BY UnpaidCounted DEF Fail, Inv, TypeOK
<1>2. [r EXCEPT !.status = "failed", !.error = reason, !.preimage = FALSE] \in Record
  BY DEF Record, Statuses
<1> QED BY <1>1, <1>2 DEF Fail, Keep, Inv, TypeOK

\* A payout that is completed has a record.
LEMMA CompletedType ==
  ASSUME NEW r \in Record
  PROVE  [r EXCEPT !.status = "completed", !.preimage = FALSE] \in Record
  BY DEF Record, Statuses

\* A cancellation that failed is flagged, and leaves the status alone.
LEMMA CancelType ==
  ASSUME NEW r \in Record, NEW answer
  PROVE  AfterCancel(r, answer) \in Record /\ AfterCancel(r, answer).status = r.status
  BY DEF AfterCancel, Record

\* A late success is flagged.
LEMMA LateType ==
  ASSUME NEW r \in Record
  PROVE  AfterLateSuccess(r) \in Record
  BY DEF AfterLateSuccess, Record

\* Giving up on a settle leaves the status alone.
LEMMA AbandonType ==
  ASSUME NEW r \in Record
  PROVE  /\ AfterAbandon(r) \in Record
         /\ AfterAbandon(r).status = r.status
         /\ AfterAbandon(r).preimage = r.preimage
  BY DEF AfterAbandon, Record, Errors

\* Every step keeps the types.
LEMMA TypeStep ==
  ASSUME Inv, [Next]_vars
  PROVE  TypeOK'
<1> USE DEF Inv, TypeOK, memory, outside, Goto, Ask, Keep, Points, Issued, Running
<1>1. CASE UNCHANGED vars
  BY <1>1 DEF vars
<1>2. CASE Crash
  BY <1>2, LimitsAssumption DEF Crash, NoRecord, Record, Statuses, Errors
<1>3. ASSUME NEW p \in Payouts, CreateSteps(p) PROVE TypeOK'
  BY <1>3 DEF CreateSteps, RejectArguments, RefuseAtCapacity, RequestInvoice, Requests
<1>4. ASSUME NEW p \in Payouts, Continue(p) PROVE TypeOK'
  <2>1. CASE InvoiceCreated(p)
    <3>1. NewRecord \in Record
      BY DEF NewRecord, NoRecord, Record, Statuses, Errors
    <3> QED BY <2>1, <3>1 DEF InvoiceCreated, Requests
  <2>2. CASE InvoiceRefused(p)
    BY <2>2 DEF InvoiceRefused
  <2>3. CASE PaymentHeld(p)
    <3>1. payouts[p].status = "pending"
      BY <2>3 DEF PaymentHeld, Answered, PayoutInv, PointInv, StatusAt
    <3> QED BY <2>3, <3>1, UnpaidCounted DEF PaymentHeld, Record, Statuses
  <2>4. CASE PaymentNotHeld(p)
    <3> DEFINE reason == CASE call[p] = "expired"   -> "HOLD_EXPIRED"
                           [] call[p] = "cancelled" -> "CANCELLED"
                           [] OTHER                 -> "NETWORK_ERROR"
    <3>1. reason \in Errors
      BY DEF Errors
    <3>2. Fail(p, payouts[p], reason)
      BY <2>4 DEF PaymentNotHeld
    <3>3. pendingCount' \in Nat /\ payouts' \in [Payouts -> Record]
      BY <3>1, <3>2, FailType
    <3> QED BY <2>4, <3>3 DEF PaymentNotHeld
  <2>5. CASE FiatConfirmed(p)
    BY <2>5, LimitsAssumption DEF FiatConfirmed, Requests
  <2>6. CASE FiatRefused(p) \/ PayoutTimer(p)
    BY <2>6 DEF FiatRefused, PayoutTimer, GiveUpOnFiat, Requests
  <2>7. CASE HoldCancelled(p)
    <3>1. outcome[p] \in Errors
      BY <2>7 DEF HoldCancelled, Answered, PayoutInv, PointInv, OutcomeAt, Errors
    <3>2. /\ AfterCancel(payouts[p], call[p]) \in Record
          /\ AfterCancel(payouts[p], call[p]).status = payouts[p].status
      BY CancelType
    <3>3. pendingCount' \in Nat /\ payouts' \in [Payouts -> Record]
      <4>1. Fail(p, AfterCancel(payouts[p], call[p]), outcome[p])
        BY <2>7 DEF HoldCancelled
      <4> QED BY <3>1, <3>2, <4>1, FailType
    <3>4. pc' \in [Payouts -> Points] /\ call' \in [Payouts -> {"none"} \cup Requests \cup Answers]
      BY <2>7 DEF HoldCancelled
    <3>5. UNCHANGED <<attempt, outcome, outside>>
      BY <2>7 DEF HoldCancelled
    <3> QED BY <3>3, <3>4, <3>5
  <2>8. CASE HoldSettled(p)
    <3>1. [payouts[p] EXCEPT !.status = "completed", !.preimage = FALSE] \in Record
      BY CompletedType
    <3>2. payouts' \in [Payouts -> Record]
      BY <2>8, <3>1 DEF HoldSettled
    <3> QED BY <2>8, <3>2 DEF HoldSettled
  <2>9. CASE SettleRejected(p)
    BY <2>9 DEF SettleRejected
  <2>10. CASE RetrySettle(p)
    BY <2>10, LimitsAssumption DEF RetrySettle, Requests, PayoutInv, PointInv
  <2>11. CASE SettleAbandoned(p)
    <3>1. AfterAbandon(payouts[p]) \in Record
      BY AbandonType
    <3> QED BY <2>11, <3>1 DEF SettleAbandoned
  <2> QED BY <1>4, <2>1, <2>2, <2>3, <2>4, <2>5, <2>6, <2>7, <2>8, <2>9, <2>10, <2>11
          DEF Continue
<1>5. ASSUME NEW p \in Payouts, LateSuccess(p) PROVE TypeOK'
  <2>1. AfterLateSuccess(payouts[p]) \in Record
    BY LateType
  <2> QED BY <1>5, <2>1 DEF LateSuccess
<1>6. ASSUME NEW p \in Payouts, Backend(p) PROVE TypeOK'
  <2>1. CASE ServeCreate(p) \/ ServeWait(p)
    BY <2>1 DEF ServeCreate, ServeWait, Serve, Requests, Answers
  <2>2. CASE ServeSettle(p) \/ ServeCancel(p)
    BY <2>2 DEF ServeSettle, ServeCancel, Serve, Requests, Answers
  <2>3. CASE Reject(p)
    BY <2>3 DEF Reject, Requests, Answers
  <2> QED BY <1>6, <2>1, <2>2, <2>3 DEF Backend
<1>7. ASSUME NEW p \in Payouts, World(p) PROVE TypeOK'
  <2>1. CASE InvoiceExpires(p) \/ ExternalCancel(p) \/ WalletPays(p)
    BY <2>1 DEF InvoiceExpires, ExternalCancel, WalletPays, MoveInvoice
  <2>2. CASE DeliverFiat(p)
    BY <2>2 DEF DeliverFiat
  <2>3. CASE AnswerFiat(p)
    <3>1. fiat' \in [Payouts -> {"none", "inflight", "ok", "failed"}]
      BY <2>3 DEF AnswerFiat
    <3>2. UNCHANGED <<pendingCount, payouts, pc, attempt, outcome, call, invoice, delivered>>
      BY <2>3 DEF AnswerFiat
    <3> QED BY <3>1, <3>2
  <2> QED BY <1>7, <2>1, <2>2, <2>3 DEF World
<1> QED BY <1>1, <1>2, <1>3, <1>4, <1>5, <1>6, <1>7 DEF Next

----------------------------------------------------------------------------
(* The count.                                                              *)

\* The unpaid payouts can be counted.
LEMMA UnpaidFinite == IsFiniteSet(Unpaid)
  BY FinitePayouts, FS_Subset DEF Unpaid

\* Every step keeps the count of the unpaid exact.
LEMMA CountStep ==
  ASSUME Inv, [Next]_vars
  PROVE  PendingCountExact'
<1> USE UnpaidFinite DEF Inv, PendingCountExact
<1> DEFINE Same == Unpaid' = Unpaid /\ pendingCount' = pendingCount
<1>1. CASE UNCHANGED vars
  BY <1>1 DEF vars, memory, Unpaid
<1>2. CASE Crash
  <2>1. Unpaid' = {}
    BY <1>2 DEF Crash, Unpaid, NoRecord
  <2> QED BY <1>2, <2>1, FS_EmptySet DEF Crash
<1>3. ASSUME NEW p \in Payouts, CreateSteps(p) PROVE Same
  BY <1>3 DEF CreateSteps, RejectArguments, RefuseAtCapacity, RequestInvoice, Unpaid
<1>4. ASSUME NEW p \in Payouts, Continue(p) PROVE PendingCountExact'
  <2> USE DEF Keep
  <2>1. CASE InvoiceCreated(p)
    <3>1. payouts[p].status = "none"
      BY <2>1 DEF InvoiceCreated, Answered, PayoutInv, PointInv, StatusAt
    <3>2. p \notin Unpaid /\ Unpaid' = Unpaid \cup {p}
      BY <2>1, <3>1 DEF InvoiceCreated, NewRecord, NoRecord, Unpaid, TypeOK
    <3> QED BY <2>1, <3>2, FS_AddElement DEF InvoiceCreated
  <2>2. CASE PaymentHeld(p)
    <3>1. payouts[p].status = "pending"
      BY <2>2 DEF PaymentHeld, Answered, PayoutInv, PointInv, StatusAt
    <3>2. p \in Unpaid /\ Unpaid' = Unpaid \ {p}
      BY <2>2, <3>1 DEF PaymentHeld, Unpaid, TypeOK, Record
    <3> QED BY <2>2, <3>2, FS_RemoveElement DEF PaymentHeld
  <2>3. CASE PaymentNotHeld(p)
    <3>1. payouts[p].status = "pending"
      BY <2>3 DEF PaymentNotHeld, Answered, PayoutInv, PointInv, StatusAt
    <3>2. p \in Unpaid /\ Unpaid' = Unpaid \ {p}
      BY <2>3, <3>1 DEF PaymentNotHeld, Fail, Unpaid, TypeOK, Record
    <3>3. pendingCount' = pendingCount - 1
      BY <2>3, <3>1 DEF PaymentNotHeld, Fail
    <3> QED BY <3>2, <3>3, FS_RemoveElement
  <2>4. CASE HoldCancelled(p)
    <3>1. payouts[p].status = "processing"
      BY <2>4 DEF HoldCancelled, Answered, PayoutInv, PointInv, StatusAt
    <3>2. AfterCancel(payouts[p], call[p]).status = "processing"
      BY <3>1 DEF AfterCancel, TypeOK, Record
    <3>3. Same
      BY <2>4, <3>1, <3>2 DEF HoldCancelled, Fail, Unpaid, TypeOK
    <3> QED BY <3>3
  <2>5. CASE HoldSettled(p)
    <3>1. payouts[p].status = "processing"
      BY <2>5 DEF HoldSettled, Answered, PayoutInv, PointInv, StatusAt
    <3>2. Same
      BY <2>5, <3>1 DEF HoldSettled, Unpaid, TypeOK, Record
    <3> QED BY <3>2
  <2>6. CASE SettleAbandoned(p)
    <3>1. payouts[p] \in Record
      BY DEF TypeOK
    <3>2. Same
      BY <2>6, <3>1, AbandonType DEF SettleAbandoned, Unpaid, TypeOK
    <3> QED BY <3>2
  <2>7. CASE InvoiceRefused(p) \/ FiatConfirmed(p) \/ FiatRefused(p) \/ PayoutTimer(p)
             \/ SettleRejected(p) \/ RetrySettle(p)
    BY <2>7 DEF InvoiceRefused, FiatConfirmed, FiatRefused, PayoutTimer, GiveUpOnFiat,
                SettleRejected, RetrySettle, Unpaid
  <2> QED BY <1>4, <2>1, <2>2, <2>3, <2>4, <2>5, <2>6, <2>7 DEF Continue
<1>5. ASSUME NEW p \in Payouts, LateSuccess(p) PROVE Same
  BY <1>5 DEF LateSuccess, AfterLateSuccess, Keep, Unpaid, TypeOK, Record
<1>6. ASSUME NEW p \in Payouts, Backend(p) PROVE Same
  BY <1>6 DEF Backend, ServeCreate, ServeWait, ServeSettle, ServeCancel, Serve, Reject,
              memory, Unpaid
<1>7. ASSUME NEW p \in Payouts, World(p) PROVE Same
  BY <1>7 DEF World, InvoiceExpires, ExternalCancel, WalletPays, DeliverFiat, AnswerFiat,
              MoveInvoice, memory, Unpaid
<1> QED BY <1>1, <1>2, <1>3, <1>4, <1>5, <1>6, <1>7 DEF Next

----------------------------------------------------------------------------
(* The invariant of each payout.                                           *)

\* Nothing of payout q changes.
Same(q) == /\ payouts'[q] = payouts[q] /\ pc'[q] = pc[q] /\ attempt'[q] = attempt[q]
           /\ outcome'[q] = outcome[q] /\ call'[q] = call[q] /\ invoice'[q] = invoice[q]
           /\ fiat'[q] = fiat[q] /\ delivered'[q] = delivered[q]

\* What a step does not touch keeps its invariant.
LEMMA Untouched ==
  ASSUME NEW q \in Payouts, PayoutInv(q), Same(q)
  PROVE  PayoutInv(q)'
  BY DEF PayoutInv, PointInv, FiatInv, SettleInv, PreimageInv, Same

\* A step of one payout touches no other.
LEMMA OnlyOne ==
  ASSUME Inv, NEW p \in Payouts, NEW q \in Payouts, q # p,
         CreateSteps(p) \/ Continue(p) \/ LateSuccess(p) \/ Backend(p) \/ World(p)
  PROVE  Same(q)
<1> USE DEF Inv, TypeOK, memory, outside, Goto, Ask, Keep, Same
<1>1. CASE CreateSteps(p)
  BY <1>1 DEF CreateSteps, RejectArguments, RefuseAtCapacity, RequestInvoice
<1>2. CASE Continue(p)
  <2>1. CASE InvoiceCreated(p) \/ InvoiceRefused(p) \/ PaymentHeld(p) \/ PaymentNotHeld(p)
    BY <2>1 DEF InvoiceCreated, InvoiceRefused, PaymentHeld, PaymentNotHeld, Fail
  <2>2. CASE FiatConfirmed(p) \/ FiatRefused(p) \/ PayoutTimer(p) \/ HoldCancelled(p)
    BY <2>2 DEF FiatConfirmed, FiatRefused, PayoutTimer, GiveUpOnFiat, HoldCancelled, Fail
  <2>3. CASE HoldSettled(p) \/ SettleRejected(p) \/ RetrySettle(p) \/ SettleAbandoned(p)
    BY <2>3 DEF HoldSettled, SettleRejected, RetrySettle, SettleAbandoned
  <2> QED BY <1>2, <2>1, <2>2, <2>3 DEF Continue
<1>3. CASE LateSuccess(p)
  BY <1>3 DEF LateSuccess
<1>4. CASE Backend(p)
  BY <1>4 DEF Backend, ServeCreate, ServeWait, ServeSettle, ServeCancel, Serve, Reject
<1>5. CASE World(p)
  BY <1>5 DEF World, InvoiceExpires, ExternalCancel, WalletPays, DeliverFiat, AnswerFiat,
              MoveInvoice
<1> QED BY <1>1, <1>2, <1>3, <1>4, <1>5

\* A payout's own code keeps its invariant.
LEMMA ContinueStep ==
  ASSUME Inv, NEW p \in Payouts, Continue(p)
  PROVE  PayoutInv(p)'
<1>1. PayoutInv(p)
  BY DEF Inv
<1> USE <1>1 DEF Inv, TypeOK, Goto, Ask, Keep, Answered, outside, Running,
        PayoutInv, PointInv, FiatInv, SettleInv, PreimageInv, CallsAt, StatusAt, OutcomeAt
<1>2. CASE InvoiceCreated(p)
  BY <1>2 DEF InvoiceCreated, NewRecord, NoRecord
<1>3. CASE InvoiceRefused(p)
  BY <1>3 DEF InvoiceRefused
<1>4. CASE PaymentHeld(p)
  BY <1>4 DEF PaymentHeld, Record
<1>5. CASE PaymentNotHeld(p)
  BY <1>5 DEF PaymentNotHeld, Fail, Record
<1>6. CASE FiatConfirmed(p)
  BY <1>6 DEF FiatConfirmed, FiatSucceeded
<1>7. CASE FiatRefused(p)
  BY <1>7 DEF FiatRefused, GiveUpOnFiat
<1>8. CASE PayoutTimer(p)
  BY <1>8 DEF PayoutTimer, GiveUpOnFiat
<1>9. CASE HoldCancelled(p)
  BY <1>9 DEF HoldCancelled, AfterCancel, Fail, Record
<1>10. CASE HoldSettled(p)
  BY <1>10 DEF HoldSettled, Record
<1>11. CASE SettleRejected(p)
  BY <1>11 DEF SettleRejected
<1>12. CASE RetrySettle(p)
  BY <1>12 DEF RetrySettle
<1>13. CASE SettleAbandoned(p)
  BY <1>13, AbandonType DEF SettleAbandoned
<1> QED BY <1>2, <1>3, <1>4, <1>5, <1>6, <1>7, <1>8, <1>9, <1>10, <1>11, <1>12, <1>13
        DEF Continue

\* Where the service can be when a request is outstanding, and that it then
\* expects the answers to it.
LEMMA RequestPoints ==
  ASSUME NEW point \in Points
  PROVE  /\ "create" \in CallsAt(point) => /\ point \in {"creating", "rejected", "lost"}
                                           /\ {"ok", "error"} \subseteq CallsAt(point)
         /\ "wait" \in CallsAt(point) =>
              /\ point \in {"waiting", "lost"}
              /\ {"held", "expired", "cancelled", "error"} \subseteq CallsAt(point)
         /\ "settle" \in CallsAt(point) => /\ point \in {"settling", "lost"}
                                           /\ {"ok", "error"} \subseteq CallsAt(point)
         /\ "cancel" \in CallsAt(point) => /\ point \in {"cancelling", "lost"}
                                           /\ {"ok", "error"} \subseteq CallsAt(point)
  BY DEF CallsAt, Points, Issued, Running, Requests, Answers

\* What the backend does and answers keeps what is known of a payout.
LEMMA BackendStep ==
  ASSUME Inv, NEW p \in Payouts, Backend(p)
  PROVE  PayoutInv(p)'
<1> DEFINE at == pc[p]
<1>1. PayoutInv(p) /\ at \in Points
  BY DEF Inv, TypeOK
<1>2. pc' = pc /\ payouts' = payouts /\ outcome' = outcome /\ attempt' = attempt
      /\ fiat' = fiat /\ delivered' = delivered
  BY DEF Backend, ServeCreate, ServeWait, ServeSettle, ServeCancel, Serve, Reject,
         memory, outside
<1>3. PreimageInv(p)'
  BY <1>1, <1>2 DEF PayoutInv, PreimageInv
<1>4. call'[p] \in CallsAt(at)
  <2> USE <1>1, RequestPoints DEF Inv, TypeOK, Ask, PayoutInv, PointInv
  <2>1. CASE ServeCreate(p) \/ ServeSettle(p) \/ ServeCancel(p)
    BY <2>1 DEF ServeCreate, ServeSettle, ServeCancel, Serve
  <2>2. CASE ServeWait(p)
    BY <2>2 DEF ServeWait
  <2>3. CASE Reject(p)
    BY <2>3 DEF Reject, Requests
  <2> QED BY <2>1, <2>2, <2>3 DEF Backend
<1>5. PointInv(p)'
  BY <1>1, <1>2, <1>4 DEF PayoutInv, PointInv
<1>6. FiatInv(p)' /\ SettleInv(p)'
  <2>1. call[p] \in CallsAt(at)
    BY <1>1 DEF PayoutInv, PointInv
  <2> USE <1>1, <1>2, <2>1, RequestPoints DEF Inv, TypeOK, Ask, PayoutInv, FiatInv, SettleInv
  <2>2. CASE ServeCreate(p)
    BY <2>2 DEF ServeCreate, Serve
  <2>3. CASE ServeWait(p)
    BY <2>3 DEF ServeWait, outside
  <2>4. CASE ServeSettle(p)
    <3>1. payouts[p].status # "failed"
      BY <2>4 DEF ServeSettle, Serve, PointInv, StatusAt
    <3> QED BY <2>4, <3>1 DEF ServeSettle, Serve
  <2>5. CASE ServeCancel(p)
    BY <2>5 DEF ServeCancel, Serve
  <2>6. CASE Reject(p)
    BY <2>6 DEF Reject, outside
  <2> QED BY <2>2, <2>3, <2>4, <2>5, <2>6 DEF Backend
<1> QED BY <1>3, <1>5, <1>6 DEF PayoutInv

\* So do the calls of createPayout, the handler of a late answer and the world.
LEMMA OtherStep ==
  ASSUME Inv, NEW p \in Payouts, CreateSteps(p) \/ LateSuccess(p) \/ World(p)
  PROVE  PayoutInv(p)'
<1>1. PayoutInv(p)
  BY DEF Inv
<1> USE <1>1 DEF Inv, TypeOK, Goto, Ask, Keep, memory, outside, Running, Issued, PayoutInv,
        PointInv, FiatInv, SettleInv, PreimageInv, CallsAt, StatusAt, OutcomeAt
<1>2. CASE CreateSteps(p)
  BY <1>2 DEF CreateSteps, RejectArguments, RefuseAtCapacity, RequestInvoice
<1>3. CASE LateSuccess(p)
  BY <1>3 DEF LateSuccess, AfterLateSuccess, Record
<1>4. CASE World(p)
  BY <1>4 DEF World, InvoiceExpires, ExternalCancel, WalletPays, DeliverFiat, AnswerFiat,
              MoveInvoice
<1> QED BY <1>2, <1>3, <1>4

\* A restart leaves nothing that the invariant forbids.
LEMMA CrashStep ==
  ASSUME Inv, Crash, NEW p \in Payouts
  PROVE  PayoutInv(p)'
<1>1. PayoutInv(p)
  BY DEF Inv
<1> QED BY <1>1 DEF Crash, Inv, TypeOK, outside, Running, Issued, Points, NoRecord, PayoutInv,
        PointInv, FiatInv, SettleInv, PreimageInv, CallsAt, StatusAt, OutcomeAt

----------------------------------------------------------------------------
(* The invariant holds, and what follows from it.                          *)

\* Initially no payout is asked for.
LEMMA InvInit == Init => Inv
<1> SUFFICES ASSUME Init PROVE Inv
  OBVIOUS
<1> USE DEF Init, NoRecord
<1>1. TypeOK
  BY LimitsAssumption DEF TypeOK, Record, Statuses, Errors, Points, Issued, Running
<1>2. PendingCountExact
  <2>1. Unpaid = {}
    BY DEF Unpaid
  <2> QED BY <2>1, FS_EmptySet DEF PendingCountExact
<1>3. \A p \in Payouts : PayoutInv(p)
  BY DEF PayoutInv, PointInv, FiatInv, SettleInv, PreimageInv, CallsAt, StatusAt, OutcomeAt,
         Running
<1> QED BY <1>1, <1>2, <1>3 DEF Inv

\* Every step keeps the invariant.
LEMMA InvStep == Inv /\ [Next]_vars => Inv'
<1> SUFFICES ASSUME Inv, [Next]_vars PROVE Inv'
  OBVIOUS
<1>1. ASSUME NEW q \in Payouts PROVE PayoutInv(q)'
  <2>1. CASE UNCHANGED vars
    <3>1. PayoutInv(q)
      BY DEF Inv
    <3> QED BY <2>1, <3>1, Untouched DEF vars, memory, outside, Same
  <2>2. CASE Crash
    BY <2>2, CrashStep
  <2>3. ASSUME NEW p \in Payouts,
               CreateSteps(p) \/ Continue(p) \/ LateSuccess(p) \/ Backend(p) \/ World(p)
        PROVE  PayoutInv(q)'
    <3>1. CASE q = p
      BY <2>3, <3>1, ContinueStep, BackendStep, OtherStep
    <3>2. CASE q # p
      <4>1. PayoutInv(q)
        BY DEF Inv
      <4> QED BY <2>3, <3>2, <4>1, OnlyOne, Untouched
    <3> QED BY <3>1, <3>2
  <2> QED BY <2>1, <2>2, <2>3 DEF Next
<1> QED BY <1>1, TypeStep, CountStep DEF Inv

\* The inductive invariant holds in every behaviour.
THEOREM InvHolds == Spec => []Inv
  BY InvInit, InvStep, PTL DEF Spec

\* Every variable keeps its type; the count of unpaid payouts is never negative.
THEOREM TypeCorrect == Spec => []TypeOK
<1>1. Inv => TypeOK
  BY DEF Inv
<1> QED BY <1>1, InvHolds, PTL

\* pendingCount is the number of payouts that nobody has paid, always.
THEOREM CountCorrect == Spec => []PendingCountExact
<1>1. Inv => PendingCountExact
  BY DEF Inv
<1> QED BY <1>1, InvHolds, PTL

\* No sats are captured before the fiat is with the recipient.
THEOREM CaptureSafe == Spec => []CaptureOnlyAfterDelivery
<1>1. Inv => CaptureOnlyAfterDelivery
  BY DEF Inv, PayoutInv, SettleInv, FiatInv, CaptureOnlyAfterDelivery
<1> QED BY <1>1, InvHolds, PTL

\* While the service is owed held sats it has the preimage that claims them.
THEOREM ClaimSafe == Spec => []ClaimableWhenOwed
<1>1. Inv => ClaimableWhenOwed
  BY DEF Inv, PayoutInv, SettleInv, PreimageInv, ClaimableWhenOwed
<1> QED BY <1>1, InvHolds, PTL

----------------------------------------------------------------------------
(* What a finished payout leaves behind.                                   *)

\* Why a payout ended and what became of its invoice and of the fiat.
BooksInv(p) ==
  /\ pc[p] = "waiting" /\ call[p] = "expired" => invoice[p] = "expired"
  /\ pc[p] = "waiting" /\ call[p] = "cancelled" => invoice[p] \in {"voided", "cancelled"}
  /\ pc[p] = "cancelling" /\ call[p] = "ok" => invoice[p] = "cancelled"
  /\ pc[p] = "done" /\ invoice[p] \in {"none", "open", "held"} =>
       payouts[p].needsAttention \/ payouts[p].error = "NETWORK_ERROR"
  /\ outcome[p] = "PAYOUT_FAILED" => fiat[p] = "failed"
  /\ pc[p] = "done" /\ outcome[p] = "none" => fiat[p] = "none"
  /\ pc[p] = "done" /\ outcome[p] = "ok" => payouts[p].needsAttention \/ invoice[p] = "settled"

Books == \A p \in Payouts : BooksInv(p)

\* A step of a payout keeps the books of that payout.
LEMMA BooksOfOne ==
  ASSUME Inv, Books, NEW p \in Payouts,
         CreateSteps(p) \/ Continue(p) \/ LateSuccess(p) \/ Backend(p) \/ World(p)
  PROVE  BooksInv(p)'
<1>1. BooksInv(p) /\ PayoutInv(p)
  BY DEF Inv, Books
<1> USE <1>1 DEF Inv, TypeOK, memory, outside, Goto, Ask, Keep, Answered, BooksInv
<1>2. CASE CreateSteps(p)
  BY <1>2 DEF CreateSteps, RejectArguments, RefuseAtCapacity, RequestInvoice
<1>3. CASE Continue(p)
  <2>1. CASE InvoiceCreated(p) \/ InvoiceRefused(p) \/ PaymentHeld(p)
    BY <2>1 DEF InvoiceCreated, InvoiceRefused, PaymentHeld, PayoutInv, PointInv, OutcomeAt
  <2>2. CASE PaymentNotHeld(p)
    BY <2>2 DEF PaymentNotHeld, Fail, Record, PayoutInv, PointInv, FiatInv, OutcomeAt
  <2>3. CASE FiatConfirmed(p) \/ FiatRefused(p) \/ PayoutTimer(p)
    BY <2>3 DEF FiatConfirmed, FiatSucceeded, FiatRefused, PayoutTimer, GiveUpOnFiat
  <2>4. CASE HoldCancelled(p)
    <3>1. UNCHANGED <<invoice, fiat, outcome>> /\ pc' = [pc EXCEPT ![p] = "done"]
      BY <2>4 DEF HoldCancelled
    <3>2. call[p] \in {"ok", "error"} /\ pc[p] = "cancelling"
      BY <2>4 DEF HoldCancelled
    <3>3. outcome[p] \in {"PAYOUT_TIMEOUT", "PAYOUT_FAILED"}
      BY <3>2 DEF PayoutInv, PointInv, OutcomeAt
    <3>4. payouts' = [payouts EXCEPT ![p] =
                        [AfterCancel(payouts[p], call[p]) EXCEPT
                           !.status = "failed", !.error = outcome[p], !.preimage = FALSE]]
      BY <2>4 DEF HoldCancelled, Fail
    <3>5. call[p] = "error" => payouts'[p].needsAttention
      <4>1. payouts[p] \in Record
        OBVIOUS
      <4> QED BY <3>4, <4>1 DEF AfterCancel, Record
    <3>6. pc'[p] = "done"
      BY <3>1
    <3> QED BY <3>1, <3>2, <3>3, <3>5, <3>6
  <2>5. CASE HoldSettled(p)
    BY <2>5 DEF HoldSettled, Record, PayoutInv, PointInv, SettleInv, OutcomeAt
  <2>6. CASE SettleRejected(p) \/ RetrySettle(p)
    BY <2>6 DEF SettleRejected, RetrySettle
  <2>7. CASE SettleAbandoned(p)
    BY <2>7 DEF SettleAbandoned, AfterAbandon, Record, PayoutInv, PointInv, OutcomeAt
  <2> QED BY <1>3, <2>1, <2>2, <2>3, <2>4, <2>5, <2>6, <2>7 DEF Continue
<1>4. CASE LateSuccess(p)
  BY <1>4 DEF LateSuccess, AfterLateSuccess, Record
<1>5. CASE Backend(p)
  <2>1. call[p] \in CallsAt(pc[p]) /\ pc[p] \in Points
    BY DEF PayoutInv, PointInv
  <2> USE <2>1, RequestPoints
  <2>2. CASE ServeCreate(p)
    BY <2>2 DEF ServeCreate, Serve
  <2>3. CASE ServeWait(p)
    BY <2>3 DEF ServeWait
  <2>4. CASE ServeSettle(p)
    BY <2>4 DEF ServeSettle, Serve
  <2>5. CASE ServeCancel(p)
    BY <2>5 DEF ServeCancel, Serve
  <2>6. CASE Reject(p)
    BY <2>6 DEF Reject
  <2> QED BY <1>5, <2>2, <2>3, <2>4, <2>5, <2>6 DEF Backend
<1>6. CASE World(p)
  BY <1>6 DEF World, InvoiceExpires, ExternalCancel, WalletPays, DeliverFiat, AnswerFiat,
              MoveInvoice, PayoutInv, FiatInv, SettleInv
<1> QED BY <1>2, <1>3, <1>4, <1>5, <1>6

\* Every step keeps the books.
LEMMA BooksStep == Inv /\ Books /\ [Next]_vars => Books'
<1> SUFFICES ASSUME Inv, Books, [Next]_vars, NEW q \in Payouts PROVE BooksInv(q)'
  BY DEF Books
<1>1. BooksInv(q)
  BY DEF Books
<1>2. CASE UNCHANGED vars
  BY <1>1, <1>2 DEF vars, memory, outside, BooksInv
<1>3. CASE Crash
  BY <1>1, <1>3 DEF Crash, outside, BooksInv, Inv, TypeOK, Issued, Running
<1>4. ASSUME NEW p \in Payouts,
             CreateSteps(p) \/ Continue(p) \/ LateSuccess(p) \/ Backend(p) \/ World(p)
      PROVE  BooksInv(q)'
  <2>1. CASE q = p
    BY <1>4, <2>1, BooksOfOne
  <2>2. CASE q # p
    <3>1. Same(q)
      BY <1>4, <2>2, OnlyOne
    <3> QED BY <1>1, <3>1 DEF Same, BooksInv
  <2> QED BY <2>1, <2>2
<1> QED BY <1>2, <1>3, <1>4 DEF Next

\* The invariant and the books hold in every reachable state.
LEMMA BooksHold == Spec => [](Inv /\ Books)
<1>1. Init => Books
  BY DEF Init, Books, BooksInv
<1> QED BY <1>1, BooksStep, InvHolds, PTL DEF Spec

\* Sats that are still held when the work is over are flagged, unless the backend
\* could not be watched.
THEOREM StuckFlagged == Spec => []StuckIsFlagged
<1>1. Books => StuckIsFlagged
  BY DEF Books, BooksInv, StuckIsFlagged
<1> QED BY <1>1, BooksHold, PTL

\* A finished payout without a flag moved the fiat and the sats, or neither.
THEOREM UnflaggedBalanced == Spec => []UnflaggedIsBalanced
<1>1. Inv /\ Books => UnflaggedIsBalanced
  <2> SUFFICES ASSUME Inv, Books, NEW p \in Payouts,
                      pc[p] = "done", ~LatePending(p), delivered[p] <=> fiat[p] = "ok",
                      ~payouts[p].needsAttention, ~payouts[p].lateSuccessAfterCancel
               PROVE  delivered[p] <=> invoice[p] = "settled"
    BY DEF UnflaggedIsBalanced
  <2>1. BooksInv(p) /\ PayoutInv(p) /\ outcome[p] \in {"none", "ok", "PAYOUT_TIMEOUT",
                                                       "PAYOUT_FAILED"}
    BY DEF Inv, TypeOK, Books
  <2>2. invoice[p] = "settled" => fiat[p] = "ok"
    BY <2>1 DEF PayoutInv, SettleInv
  <2>3. ASSUME fiat[p] = "ok" PROVE invoice[p] = "settled"
    <3>1. outcome[p] = "ok"
      BY <2>1, <2>3 DEF BooksInv, LatePending
    <3> QED BY <2>1, <3>1 DEF BooksInv
  <2> QED BY <2>2, <2>3
<1> QED BY <1>1, BooksHold, PTL

----------------------------------------------------------------------------
(* How far concurrent calls overshoot the limit.                           *)

\* The calls that await an invoice can be counted.
LEMMA CreatingFinite == IsFiniteSet(Creating) /\ Cardinality(Creating) \in Nat
  BY FinitePayouts, FS_Subset, FS_CardinalityType DEF Creating

\* Initially no call awaits an invoice.
LEMMA BoundInit == Init => PendingBound
<1> SUFFICES ASSUME Init PROVE PendingBound
  OBVIOUS
<1>1. Creating = {}
  BY DEF Init, Creating
<1> QED BY <1>1, FS_EmptySet, LimitsAssumption DEF Init, PendingBound

\* Every step keeps the bound.
LEMMA BoundStep == PendingBound /\ Inv /\ [Next]_vars => PendingBound'
<1> SUFFICES ASSUME PendingBound, Inv, [Next]_vars PROVE PendingBound'
  OBVIOUS
<1> USE CreatingFinite, LimitsAssumption DEF Inv, TypeOK, PendingBound
<1> DEFINE Still == Creating' = Creating /\ pendingCount' <= pendingCount /\ pendingCount' \in Nat
<1>1. CASE UNCHANGED vars
  BY <1>1 DEF vars, memory, Creating
<1>2. CASE Crash
  <2>1. Creating' = {}
    BY <1>2 DEF Crash, Creating, Issued, Running
  <2> QED BY <1>2, <2>1, FS_EmptySet DEF Crash
<1>3. ASSUME NEW p \in Payouts, CreateSteps(p) PROVE PendingBound'
  <2>1. CASE RejectArguments(p) \/ RefuseAtCapacity(p)
    <3>1. Still
      BY <2>1 DEF RejectArguments, RefuseAtCapacity, Goto, Creating
    <3> QED BY <3>1
  <2>2. CASE RequestInvoice(p)
    <3>1. p \notin Creating /\ Creating' = Creating \cup {p}
      BY <2>2 DEF RequestInvoice, Goto, Creating
    <3>2. Cardinality(Creating') = Cardinality(Creating) + 1
      BY <3>1, FS_AddElement
    <3> QED BY <2>2, <3>2 DEF RequestInvoice, HasCapacity
  <2> QED BY <1>3, <2>1, <2>2 DEF CreateSteps
<1>4. ASSUME NEW p \in Payouts, InvoiceCreated(p) \/ InvoiceRefused(p) PROVE PendingBound'
  <2>1. p \in Creating /\ Creating' = Creating \ {p}
    BY <1>4 DEF InvoiceCreated, InvoiceRefused, Answered, Goto, Creating
  <2>2. Cardinality(Creating') = Cardinality(Creating) - 1
    BY <2>1, FS_RemoveElement
  <2>3. pendingCount' <= pendingCount + 1 /\ pendingCount' \in Nat
    BY <1>4 DEF InvoiceCreated, InvoiceRefused
  <2> QED BY <2>2, <2>3
<1>5. ASSUME NEW p \in Payouts, PaymentHeld(p) \/ PaymentNotHeld(p) \/ HoldCancelled(p)
      PROVE  PendingBound'
  <2>1. pendingCount' \in Nat
    BY TypeStep
  <2>2. Still
    BY <1>5, <2>1 DEF PaymentHeld, PaymentNotHeld, HoldCancelled, Fail, Answered, Goto, Creating
  <2> QED BY <2>2
<1>6. ASSUME NEW p \in Payouts,
             FiatConfirmed(p) \/ FiatRefused(p) \/ PayoutTimer(p) \/ HoldSettled(p)
             \/ SettleRejected(p) \/ RetrySettle(p) \/ SettleAbandoned(p)
      PROVE  PendingBound'
  <2>1. Still
    BY <1>6 DEF FiatConfirmed, FiatRefused, PayoutTimer, GiveUpOnFiat, HoldSettled,
                SettleRejected, RetrySettle, SettleAbandoned, Answered, Goto, Creating
  <2> QED BY <2>1
<1>7. ASSUME NEW p \in Payouts, LateSuccess(p) \/ Backend(p) \/ World(p) PROVE PendingBound'
  <2>1. Still
    BY <1>7 DEF LateSuccess, Backend, ServeCreate, ServeWait, ServeSettle, ServeCancel, Serve,
                Reject, World, InvoiceExpires, ExternalCancel, WalletPays, DeliverFiat,
                AnswerFiat, MoveInvoice, memory, Creating
  <2> QED BY <2>1
<1> QED BY <1>1, <1>2, <1>3, <1>4, <1>5, <1>6, <1>7 DEF Next, Continue

\* The limit on unpaid invoices is exceeded by less than the number of calls
\* that may be in flight; with one call at a time it is kept.
THEOREM BoundCorrect == Spec => []PendingBound
  BY InvHolds, BoundInit, BoundStep, PTL DEF Spec

----------------------------------------------------------------------------
(* A verdict is never changed.                                             *)

\* No step changes a final verdict, except that a restart forgets it.
LEMMA VerdictStep ==
  ASSUME Inv, [Next]_vars, NEW q \in Payouts, Final(q)
  PROVE  \/ payouts'[q] = NoRecord
         \/ /\ payouts'[q].status = payouts[q].status
            /\ payouts'[q].error = payouts[q].error
<1> DEFINE Kept == /\ payouts'[q].status = payouts[q].status
                   /\ payouts'[q].error = payouts[q].error
<1>1. pc[q] \in {"done"}
  BY DEF Final, Inv, TypeOK, PayoutInv, PointInv, StatusAt
<1>2. CASE UNCHANGED vars
  BY <1>2 DEF vars, memory
<1>3. CASE Crash
  BY <1>3 DEF Crash
<1>4. ASSUME NEW p \in Payouts, Continue(p) PROVE Kept
  <2>1. CASE p = q
    BY <1>1, <1>4, <2>1 DEF Continue, InvoiceCreated, InvoiceRefused, PaymentHeld,
       PaymentNotHeld, FiatConfirmed, FiatRefused, PayoutTimer, GiveUpOnFiat, HoldCancelled,
       HoldSettled, SettleRejected, RetrySettle, SettleAbandoned, Answered
  <2>2. CASE p # q
    BY <1>4, <2>2 DEF Continue, InvoiceCreated, InvoiceRefused, PaymentHeld,
       PaymentNotHeld, FiatConfirmed, FiatRefused, PayoutTimer, GiveUpOnFiat, HoldCancelled,
       HoldSettled, SettleRejected, RetrySettle, SettleAbandoned, Fail, Keep, Inv, TypeOK
  <2> QED BY <2>1, <2>2
<1>5. ASSUME NEW p \in Payouts, LateSuccess(p) PROVE Kept
  BY <1>5 DEF LateSuccess, AfterLateSuccess, Keep, Inv, TypeOK, Record
<1>6. ASSUME NEW p \in Payouts, CreateSteps(p) \/ Backend(p) \/ World(p) PROVE Kept
  BY <1>6 DEF CreateSteps, RejectArguments, RefuseAtCapacity, RequestInvoice, Backend,
     ServeCreate, ServeWait, ServeSettle, ServeCancel, Serve, Reject, World, InvoiceExpires,
     ExternalCancel, WalletPays, DeliverFiat, AnswerFiat, MoveInvoice, memory
<1> QED BY <1>2, <1>3, <1>4, <1>5, <1>6 DEF Next

\* What verify reports once it is final stays so until a restart forgets it.
THEOREM VerdictFinal == Spec => VerdictIsFinal
<1>1. Inv /\ [Next]_vars =>
        [\A p \in Payouts : Final(p) =>
           \/ payouts'[p] = NoRecord
           \/ /\ payouts'[p].status = payouts[p].status
              /\ payouts'[p].error = payouts[p].error]_vars
  BY VerdictStep
<1> QED BY <1>1, InvHolds, PTL DEF Spec, VerdictIsFinal

----------------------------------------------------------------------------
(* The service implements OffRamp.                                         *)

\* A step that moves the sats of p, one that changes what is told of p, and
\* one that does neither, as the promise sees them.
LEMMA SatsStep ==
  ASSUME Inv, NEW p \in Payouts, NEW from, NEW to, SatsOf(p) = from, SatsOf(p)' = to,
         \A q \in Payouts \ {p} : invoice'[q] = invoice[q],
         payouts' = payouts, delivered' = delivered
  PROVE  /\ Ramp!MoveSats(p, from, to)
         /\ from = to => UNCHANGED Ramp!vars
<1>1. \A q \in Payouts \ {p} : SatsOf(q)' = SatsOf(q)
  BY DEF SatsOf
<1>2. [q \in Payouts |-> SatsOf(q)]' = [[q \in Payouts |-> SatsOf(q)] EXCEPT ![p] = to]
  BY <1>1
<1>3. \A q \in Payouts : FiatOf(q)' = FiatOf(q) /\ ToldOf(q)' = ToldOf(q)
  BY DEF FiatOf, ToldOf
<1>4. from = to => [q \in Payouts |-> SatsOf(q)]' = [q \in Payouts |-> SatsOf(q)]
  BY <1>1
<1> QED BY <1>2, <1>3, <1>4 DEF Ramp!MoveSats, Ramp!vars

\* A step that changes one record and nothing else tells something, or nothing.
LEMMA ToldStep ==
  ASSUME Inv, NEW p \in Payouts, NEW from, NEW to, ToldOf(p) = from, ToldOf(p)' = to,
         \A q \in Payouts \ {p} : payouts'[q] = payouts[q],
         invoice' = invoice, delivered' = delivered
  PROVE  /\ Ramp!Tell(p, from, to)
         /\ from = to => UNCHANGED Ramp!vars
<1>1. \A q \in Payouts \ {p} : ToldOf(q)' = ToldOf(q)
  BY DEF ToldOf
<1>2. [q \in Payouts |-> ToldOf(q)]' = [[q \in Payouts |-> ToldOf(q)] EXCEPT ![p] = to]
  BY <1>1
<1>3. \A q \in Payouts : FiatOf(q)' = FiatOf(q) /\ SatsOf(q)' = SatsOf(q)
  BY DEF FiatOf, SatsOf
<1>4. from = to => [q \in Payouts |-> ToldOf(q)]' = [q \in Payouts |-> ToldOf(q)]
  BY <1>1
<1> QED BY <1>2, <1>3, <1>4 DEF Ramp!Tell, Ramp!vars

\* A step that OffRamp does not see.
LEMMA QuietStep ==
  ASSUME payouts' = payouts, invoice' = invoice, delivered' = delivered
  PROVE  UNCHANGED Ramp!vars
  BY DEF SatsOf, FiatOf, ToldOf, Ramp!vars

\* Initial states of the service are initial states of OffRamp.
LEMMA RampInit == Init => Ramp!Init
  BY DEF Init, NoRecord, Ramp!Init, SatsOf, FiatOf, ToldOf

\* What the backend and the wallet do to an invoice.
LEMMA RampInvoice ==
  ASSUME Inv, NEW p \in Payouts, Backend(p) \/ InvoiceExpires(p) \/ ExternalCancel(p) \/ WalletPays(p)
  PROVE  [Ramp!Next]_Ramp!vars
<1> DEFINE Moved(from, to) ==
             /\ invoice[p] = from /\ invoice'[p] = to
             /\ \A q \in Payouts \ {p} : invoice'[q] = invoice[q]
             /\ payouts' = payouts /\ delivered' = delivered
<1>1. ASSUME Moved("open", "held") PROVE Ramp!Pay(p)
  <2>1. SatsOf(p) = "unpaid" /\ SatsOf(p)' = "held"
    BY <1>1 DEF SatsOf
  <2> QED BY <1>1, <2>1, SatsStep DEF Ramp!Pay
<1>2. ASSUME Moved("open", "expired") \/ Moved("open", "voided") PROVE Ramp!Lapse(p)
  <2>1. SatsOf(p) = "unpaid" /\ SatsOf(p)' = "lapsed"
    BY <1>2 DEF SatsOf
  <2> QED BY <1>2, <2>1, SatsStep DEF Ramp!Lapse
<1>3. ASSUME Moved("held", "cancelled") PROVE Ramp!Return(p)
  <2>1. SatsOf(p) = "held" /\ SatsOf(p)' = "returned"
    BY <1>3 DEF SatsOf
  <2> QED BY <1>3, <2>1, SatsStep DEF Ramp!Return
<1>4. ASSUME Moved("none", "open") \/ Moved("cancelled", "cancelled") PROVE UNCHANGED Ramp!vars
  <2>1. SatsOf(p) = SatsOf(p)'
    BY <1>4 DEF SatsOf
  <2> QED BY <1>4, <2>1, SatsStep
<1>5. ASSUME ServeSettle(p) PROVE Ramp!Capture(p)
  <2>1. Moved("held", "settled")
    BY <1>5 DEF ServeSettle, Serve, memory, Inv, TypeOK
  <2>2. SatsOf(p) = "held" /\ SatsOf(p)' = "captured"
    BY <2>1 DEF SatsOf
  <2>3. delivered[p] /\ payouts[p].status \in {"none", "processing"}
    BY <1>5 DEF ServeSettle, Serve, Inv, TypeOK, PayoutInv, PointInv, SettleInv, FiatInv, StatusAt
  <2>4. ToldOf(p) # "failed" /\ FiatOf(p) = "delivered"
    BY <2>3 DEF ToldOf, FiatOf
  <2>5. Ramp!MoveSats(p, "held", "captured")
    BY <2>1, <2>2, SatsStep
  <2> QED BY <2>4, <2>5 DEF Ramp!Capture
<1>6. CASE ServeCreate(p)
  BY <1>4, <1>6 DEF ServeCreate, Serve, memory, Inv, TypeOK
<1>7. CASE ServeCancel(p)
  BY <1>3, <1>4, <1>7 DEF ServeCancel, Serve, memory, Inv, TypeOK, Ramp!Next
<1>8. CASE ServeWait(p) \/ Reject(p)
  BY <1>8, QuietStep DEF ServeWait, Reject, memory, outside
<1>9. CASE InvoiceExpires(p)
  BY <1>2, <1>9 DEF InvoiceExpires, MoveInvoice, memory, Inv, TypeOK, Ramp!Next
<1>10. CASE ExternalCancel(p)
  BY <1>2, <1>3, <1>10 DEF ExternalCancel, MoveInvoice, memory, Inv, TypeOK, Ramp!Next
<1>11. CASE WalletPays(p)
  BY <1>1, <1>11 DEF WalletPays, MoveInvoice, memory, Inv, TypeOK, Ramp!Next
<1> QED BY <1>5, <1>6, <1>7, <1>8, <1>9, <1>10, <1>11 DEF Backend, Ramp!Next

\* What the service does to a record.
LEMMA RampRecord ==
  ASSUME Inv, NEW p \in Payouts, Continue(p)
  PROVE  [Ramp!Next]_Ramp!vars
<1> DEFINE r == payouts[p]
           Told(from, to) ==
             /\ r.status \in from /\ payouts'[p].status = to
             /\ \A q \in Payouts \ {p} : payouts'[q] = payouts[q]
             /\ invoice' = invoice /\ delivered' = delivered
<1>1. r \in Record /\ PayoutInv(p)
  BY DEF Inv, TypeOK
<1> USE <1>1 DEF PayoutInv, PointInv, StatusAt, Answered, Inv, TypeOK, Keep, outside
<1>2. CASE InvoiceCreated(p)
  <2>1. Told({"none"}, "pending")
    BY <1>2 DEF InvoiceCreated, NewRecord, NoRecord
  <2>2. ToldOf(p) = "unknown" /\ ToldOf(p)' = "inprogress"
    BY <2>1 DEF ToldOf
  <2> QED BY <2>1, <2>2, ToldStep DEF Ramp!Accept, Ramp!Next
<1>3. CASE PaymentHeld(p)
  <2>1. Told({"pending"}, "processing")
    BY <1>3 DEF PaymentHeld, Record
  <2>2. ToldOf(p) = ToldOf(p)'
    BY <2>1 DEF ToldOf
  <2> QED BY <2>1, <2>2, ToldStep
<1>4. CASE PaymentNotHeld(p) \/ HoldCancelled(p)
  <2>1. Told({"pending", "processing"}, "failed")
    <3>1. CASE PaymentNotHeld(p)
      BY <3>1 DEF PaymentNotHeld, Fail, Record
    <3>2. CASE HoldCancelled(p)
      BY <3>2 DEF HoldCancelled, Fail, AfterCancel, Record
    <3> QED BY <1>4, <3>1, <3>2
  <2>2. ToldOf(p) = "inprogress" /\ ToldOf(p)' = "failed"
    BY <2>1 DEF ToldOf
  <2>3. invoice[p] # "settled"
    BY <1>4 DEF PaymentNotHeld, HoldCancelled, SettleInv
  <2>4. SatsOf(p) # "captured"
    BY <2>3 DEF SatsOf
  <2> QED BY <2>1, <2>2, <2>4, ToldStep DEF Ramp!GiveUp, Ramp!Next
<1>5. CASE HoldSettled(p)
  <2>1. Told({"processing"}, "completed")
    BY <1>5 DEF HoldSettled, Record
  <2>2. ToldOf(p) = "inprogress" /\ ToldOf(p)' = "completed"
    BY <2>1 DEF ToldOf
  <2>3. invoice[p] = "settled"
    BY <1>5 DEF HoldSettled, SettleInv
  <2>4. SatsOf(p) = "captured"
    BY <2>3 DEF SatsOf
  <2> QED BY <2>1, <2>2, <2>4, ToldStep DEF Ramp!Complete, Ramp!Next
<1>6. CASE SettleAbandoned(p)
  <2>1. Told({"processing"}, "processing")
    BY <1>6, AbandonType DEF SettleAbandoned
  <2>2. ToldOf(p) = ToldOf(p)'
    BY <2>1 DEF ToldOf
  <2> QED BY <2>1, <2>2, ToldStep
<1>7. CASE InvoiceRefused(p) \/ FiatConfirmed(p) \/ FiatRefused(p) \/ PayoutTimer(p)
           \/ SettleRejected(p) \/ RetrySettle(p)
  BY <1>7, QuietStep DEF InvoiceRefused, FiatConfirmed, FiatRefused, PayoutTimer, GiveUpOnFiat,
                         SettleRejected, RetrySettle
<1> QED BY <1>2, <1>3, <1>4, <1>5, <1>6, <1>7 DEF Continue

\* Every step of the service is a step of OffRamp or none.
LEMMA RampStep == Inv /\ [Next]_vars => [Ramp!Next]_Ramp!vars
<1> SUFFICES ASSUME Inv, [Next]_vars PROVE [Ramp!Next]_Ramp!vars
  OBVIOUS
<1>1. CASE UNCHANGED vars
  BY <1>1, QuietStep DEF vars, memory, outside
<1>2. CASE Crash
  <2>1. Ramp!Forget
    BY <1>2 DEF Crash, outside, NoRecord, Ramp!Forget, SatsOf, FiatOf, ToldOf
  <2> QED BY <2>1 DEF Ramp!Next
<1>3. ASSUME NEW p \in Payouts, CreateSteps(p) \/ AnswerFiat(p) PROVE UNCHANGED Ramp!vars
  BY <1>3, QuietStep DEF CreateSteps, RejectArguments, RefuseAtCapacity, RequestInvoice,
                         AnswerFiat, memory, outside
<1>4. ASSUME NEW p \in Payouts, LateSuccess(p) PROVE UNCHANGED Ramp!vars
  <2>1. /\ payouts'[p].status = payouts[p].status
        /\ \A q \in Payouts \ {p} : payouts'[q] = payouts[q]
    BY <1>4 DEF LateSuccess, AfterLateSuccess, Keep, Inv, TypeOK, Record
  <2>2. ToldOf(p) = ToldOf(p)'
    BY <2>1 DEF ToldOf
  <2> QED BY <1>4, <2>1, <2>2, ToldStep DEF LateSuccess, outside
<1>5. ASSUME NEW p \in Payouts, DeliverFiat(p) PROVE Ramp!Deliver(p)
  <2>1. invoice[p] \in {"held", "cancelled"}
    BY <1>5 DEF DeliverFiat, Inv, TypeOK, PayoutInv, FiatInv, SettleInv
  <2> QED BY <1>5, <2>1 DEF DeliverFiat, memory, Inv, TypeOK, Ramp!Deliver, SatsOf, FiatOf, ToldOf
<1> QED BY <1>1, <1>2, <1>3, <1>4, <1>5, RampInvoice, RampRecord DEF Next, World, Ramp!Next

\* Every behaviour of the service, with every fault, is one OffRamp allows.
THEOREM ServiceImplementsOffRamp == Spec => RampSpec
  BY InvHolds, RampInit, RampStep, PTL DEF Spec, RampSpec, Ramp!Spec

----------------------------------------------------------------------------
(* LnurlServer.                                                            *)

\* Points at which there is no record yet, or never will be one.
Early == {"idle", "creating", "rejected", "busy"}

\* How far the callback and the payout it asked for are.
WebInv(p) ==
  /\ callback[p] \in {"none", "quoting"} => pc[p] = "idle"
  /\ callback[p] = "issuing" <=> pc[p] = "creating"
  /\ callback[p] \in ErrorReplies \cup {"dropped"} => pc[p] \in Early
  /\ pc[p] \in Early => payouts[p] = NoRecord

\* The invoice lives as long as its quote had left, counted from when the backend
\* acts.
ClockInv(p) ==
  /\ call[p] = "create" => /\ now <= asked[p] + BackendDelay
                           /\ lifetime[p] = quote[p] - asked[p]
  /\ expiresAt[p] <= quote[p] + BackendDelay

LInv == Inv /\ LTypeOK /\ \A p \in Payouts : WebInv(p) /\ ClockInv(p)

\* Initially no wallet has called.
LEMMA LInvInit == LInit => LInv
<1> SUFFICES ASSUME LInit PROVE LInv
  OBVIOUS
<1>1. Inv
  BY InvInit DEF LInit
<1>2. LTypeOK
  BY <1>1, ClockAssumption DEF LInit, LTypeOK, Inv, Handling
<1>3. \A p \in Payouts : WebInv(p) /\ ClockInv(p)
  BY ClockAssumption DEF LInit, Init, WebInv, ClockInv, ErrorReplies, Early
<1> QED BY <1>1, <1>2, <1>3 DEF LInv

\* What is done in the name of one payout.
OneStep(p) == CreateSteps(p) \/ Continue(p) \/ LateSuccess(p) \/ Backend(p) \/ World(p)

\* Every step of the server is a step of the service, or none of its.
LEMMA ServiceStep ==
  ASSUME LInv, [LNext]_lvars
  PROVE  [Next]_vars /\ Inv'
<1>1. [Next]_vars
  <2>1. CASE Tick \/ UNCHANGED lvars
    BY <2>1 DEF Tick, lvars
  <2>2. CASE Restart
    BY <2>2 DEF Restart, Next
  <2>3. ASSUME NEW p \in Payouts, Callback(p) \/ NoQuote(p) \/ QuoteMade(p) PROVE UNCHANGED vars
    BY <2>3 DEF Callback, NoQuote, QuoteMade
  <2>4. ASSUME NEW p \in Payouts,
               \/ PayoutRefused(p) \/ PayoutAsked(p) \/ PayoutAnswered(p)
               \/ Background(p)
               \/ IssueInvoice(p) \/ Answering(p) \/ Lapse(p) \/ Pay(p) \/ Outside(p)
        PROVE  OneStep(p)
    BY <2>4 DEF PayoutRefused, PayoutAsked, PayoutAnswered, Background, IssueInvoice,
                Answering, Lapse, Pay, Outside, OneStep, CreateSteps, Continue, Backend, World
  <2> QED BY <2>1, <2>2, <2>3, <2>4 DEF LNext, Next, OneStep
<1> QED BY <1>1, InvStep DEF LInv

\* Nothing of payout q changes in the server either.
WebSame(q) ==
  /\ Same(q) /\ now' = now
  /\ callback'[q] = callback[q] /\ quote'[q] = quote[q] /\ asked'[q] = asked[q]
  /\ lifetime'[q] = lifetime[q] /\ expiresAt'[q] = expiresAt[q]

LEMMA WebUntouched ==
  ASSUME NEW q \in Payouts, WebInv(q), ClockInv(q), WebSame(q)
  PROVE  WebInv(q)' /\ ClockInv(q)'
  BY DEF WebInv, ClockInv, WebSame, Same

\* The handler of one callback, up to the payout.
LEMMA CallbackStep ==
  ASSUME LInv, NEW p \in Payouts, Callback(p) \/ NoQuote(p) \/ QuoteMade(p)
  PROVE  /\ UNCHANGED <<now, asked, lifetime, expiresAt>>
         /\ callback' \in [Payouts -> Handling \cup Replies] /\ quote' \in [Payouts -> Nat]
         /\ callback'[p] # "issuing"
         /\ WebInv(p)' /\ ClockInv(p)'
         /\ \A q \in Payouts : q # p => WebSame(q)
<1> USE DEF LInv, LTypeOK, Reply
<1>1. CASE Callback(p)
  BY <1>1 DEF Callback, Handling, Replies, ErrorReplies, WebInv, ClockInv, WebSame, Same, vars,
              memory, outside, Early
<1>2. CASE NoQuote(p)
  BY <1>2 DEF NoQuote, Handling, Replies, ErrorReplies, WebInv, ClockInv, WebSame, Same, vars,
              memory, outside, Early
<1>3. CASE QuoteMade(p)
  <2>1. PICK s \in QuoteLifetimes : quote' = [quote EXCEPT ![p] = now + s]
    BY <1>3 DEF QuoteMade
  <2>2. s \in Nat /\ now \in Nat /\ BackendDelay \in Nat
    BY ClockAssumption
  <2>3. quote[p] = 0 /\ quote'[p] = now + s /\ quote' \in [Payouts -> Nat]
    BY <1>3, <2>1, <2>2 DEF QuoteMade
  <2>4. UNCHANGED <<vars, now, callback, asked, lifetime, expiresAt>> /\ callback[p] = "quoting"
    BY <1>3 DEF QuoteMade
  <2>5. WebInv(p)'
    BY <2>4 DEF WebInv, vars, memory, ErrorReplies
  <2>6. call[p] # "create"
    BY <2>4 DEF WebInv, Inv, PayoutInv, PointInv, CallsAt
  <2>7. ClockInv(p)'
    <3>1. expiresAt[p] \in Nat /\ expiresAt[p] <= BackendDelay
      BY <2>2, <2>3 DEF ClockInv
    <3>2. expiresAt'[p] <= quote'[p] + BackendDelay
      BY <2>2, <2>3, <2>4, <3>1
    <3> QED BY <2>4, <2>6, <3>2 DEF ClockInv, vars
  <2>8. \A q \in Payouts : q # p => WebSame(q)
    BY <2>1, <2>4 DEF WebSame, Same, vars, memory, outside
  <2> QED BY <2>3, <2>4, <2>5, <2>7, <2>8
<1> QED BY <1>1, <1>2, <1>3

\* createPayout is called, refuses or answers.
LEMMA PayoutCallStep ==
  ASSUME LInv, NEW p \in Payouts, PayoutRefused(p) \/ PayoutAsked(p) \/ PayoutAnswered(p)
  PROVE  /\ UNCHANGED <<now, quote, expiresAt>>
         /\ callback' \in [Payouts -> Handling \cup Replies]
         /\ asked' \in [Payouts -> 0 .. MaxTime] /\ lifetime' \in [Payouts -> Nat]
         /\ callback'[p] = "issuing" => lifetime'[p] > 0
         /\ WebInv(p)' /\ ClockInv(p)'
         /\ \A q \in Payouts : q # p => WebSame(q)
<1>1. OneStep(p)
  BY DEF PayoutRefused, PayoutAsked, PayoutAnswered, OneStep, CreateSteps, Continue
<1>2. ASSUME NEW q \in Payouts, q # p PROVE Same(q)
  BY <1>1, <1>2, OnlyOne DEF LInv, OneStep
<1>3. WebInv(p) /\ ClockInv(p) /\ PointInv(p)
  BY DEF LInv, Inv, PayoutInv
<1> USE DEF LInv, LTypeOK, Reply
<1>4. CASE PayoutRefused(p)
  <2>1. UNCHANGED <<now, quote, asked, lifetime, expiresAt, payouts, call>>
    BY <1>4 DEF PayoutRefused, RefuseAtCapacity, RejectArguments
  <2>2. PICK what \in {"CAPACITY_EXCEEDED", "PROVIDER_OFFLINE"} :
          callback' = [callback EXCEPT ![p] = what]
    BY <1>4 DEF PayoutRefused
  <2>3. pc[p] = "idle" /\ pc'[p] \in {"busy", "rejected"}
    BY <1>4 DEF PayoutRefused, RefuseAtCapacity, RejectArguments, Goto, TypeOK
  <2>4. WebInv(p)'
    BY <1>3, <2>1, <2>2, <2>3 DEF WebInv, ErrorReplies, Early
  <2>5. ClockInv(p)'
    BY <1>3, <2>1 DEF ClockInv
  <2> QED BY <1>2, <2>1, <2>2, <2>4, <2>5 DEF WebSame, Replies, ErrorReplies
<1>5. CASE PayoutAsked(p)
  <2>1. UNCHANGED <<now, quote, expiresAt, payouts>>
    BY <1>5 DEF PayoutAsked, RequestInvoice
  <2>2. /\ callback' = [callback EXCEPT ![p] = "issuing"]
        /\ asked' = [asked EXCEPT ![p] = now]
        /\ lifetime' = [lifetime EXCEPT ![p] = quote[p] - now]
        /\ quote[p] - now > 0
    BY <1>5 DEF PayoutAsked, QuoteUsable, Remaining
  <2>3. quote[p] - now \in Nat /\ now \in Nat
    BY <2>2, ClockAssumption
  <2>4. pc[p] = "idle" /\ pc'[p] = "creating"
    BY <1>5 DEF PayoutAsked, RequestInvoice, Goto, TypeOK
  <2>5. WebInv(p)'
    BY <1>3, <2>1, <2>2, <2>4 DEF WebInv, ErrorReplies, Early
  <2>6. ClockInv(p)'
    BY <1>3, <2>1, <2>2, <2>3, ClockAssumption DEF ClockInv
  <2>7. /\ callback' \in [Payouts -> Handling \cup Replies]
        /\ asked' \in [Payouts -> 0 .. MaxTime] /\ lifetime' \in [Payouts -> Nat]
    BY <2>2, <2>3 DEF Handling
  <2> QED BY <1>2, <2>1, <2>2, <2>5, <2>6, <2>7 DEF WebSame
<1>6. CASE PayoutAnswered(p)
  <2>1. UNCHANGED <<now, quote, asked, lifetime, expiresAt>>
    BY <1>6 DEF PayoutAnswered
  <2>2. call'[p] # "create"
    BY <1>6 DEF PayoutAnswered, InvoiceCreated, InvoiceRefused, Ask, TypeOK
  <2>3. ClockInv(p)'
    BY <1>3, <2>1, <2>2 DEF ClockInv
  <2>4. CASE InvoiceCreated(p) /\ Reply(p, "invoice")
    <3>1. pc'[p] = "waiting" /\ callback' = [callback EXCEPT ![p] = "invoice"]
      BY <2>4 DEF InvoiceCreated, Goto, TypeOK
    <3>2. WebInv(p)'
      BY <3>1 DEF WebInv, ErrorReplies, Early
    <3> QED BY <1>2, <2>1, <2>3, <3>1, <3>2 DEF WebSame, Replies
  <2>5. CASE InvoiceRefused(p) /\ Reply(p, "PROVIDER_OFFLINE")
    <3>1. /\ pc[p] = "creating" /\ pc'[p] = "rejected" /\ payouts' = payouts
          /\ callback' = [callback EXCEPT ![p] = "PROVIDER_OFFLINE"]
      BY <2>5 DEF InvoiceRefused, Answered, Goto, TypeOK
    <3>2. WebInv(p)'
      BY <1>3, <3>1 DEF WebInv, ErrorReplies, Early
    <3> QED BY <1>2, <2>1, <2>3, <3>1, <3>2 DEF WebSame, Replies, ErrorReplies
  <2> QED BY <1>6, <2>4, <2>5 DEF PayoutAnswered
<1> QED BY <1>4, <1>5, <1>6

\* What the service, the backend and the world do once the payout is made, or
\* when nobody listens any more.
LEMMA BehindStep ==
  ASSUME LInv, NEW p \in Payouts,
         \/ Background(p) \/ IssueInvoice(p) \/ Answering(p)
         \/ Lapse(p) \/ Pay(p) \/ Outside(p)
  PROVE  /\ UNCHANGED <<now, callback, quote, asked, lifetime>>
         /\ expiresAt' \in [Payouts -> Nat]
         /\ WebInv(p)' /\ ClockInv(p)'
         /\ \A q \in Payouts : q # p => WebSame(q)
<1>1. OneStep(p)
  BY DEF Background, IssueInvoice, Answering, Lapse, Pay, Outside, OneStep, Backend, World
<1>2. ASSUME NEW q \in Payouts, q # p PROVE Same(q)
  BY <1>1, <1>2, OnlyOne DEF LInv, OneStep
<1>3. WebInv(p) /\ ClockInv(p) /\ PointInv(p)
  BY DEF LInv, Inv, PayoutInv
<1> USE DEF LInv, LTypeOK
<1>4. UNCHANGED <<now, callback, quote, asked, lifetime>>
  BY DEF Background, IssueInvoice, Answering, Lapse, Pay, Outside, web
<1>5. CASE Background(p)
  <2>1. expiresAt' = expiresAt /\ callback[p] # "issuing" /\ pc[p] # "creating"
    BY <1>3, <1>5 DEF Background, web, WebInv
  <2>2. /\ pc[p] \notin Early /\ pc'[p] \notin Early
        /\ call'[p] = "create" => call[p] = "create"
    <3>1. CASE Continue(p)
      <4> USE DEF Goto, Ask, Inv, TypeOK, Answered, Early
      <4>1. ~InvoiceCreated(p) /\ ~InvoiceRefused(p)
        BY <2>1 DEF InvoiceCreated, InvoiceRefused
      <4>2. CASE PaymentHeld(p) \/ PaymentNotHeld(p) \/ FiatConfirmed(p)
        BY <4>2 DEF PaymentHeld, PaymentNotHeld, FiatConfirmed
      <4>3. CASE FiatRefused(p) \/ PayoutTimer(p) \/ HoldCancelled(p)
        BY <4>3 DEF FiatRefused, PayoutTimer, GiveUpOnFiat, HoldCancelled
      <4>4. CASE HoldSettled(p) \/ SettleRejected(p) \/ RetrySettle(p) \/ SettleAbandoned(p)
        BY <4>4 DEF HoldSettled, SettleRejected, RetrySettle, SettleAbandoned
      <4> QED BY <3>1, <4>1, <4>2, <4>3, <4>4 DEF Continue
    <3>2. CASE LateSuccess(p)
      BY <1>3, <3>2 DEF LateSuccess, LatePending, PointInv, OutcomeAt, Early
    <3> QED BY <1>5, <3>1, <3>2 DEF Background
  <2>3. WebInv(p)'
    BY <1>3, <1>4, <2>1, <2>2 DEF WebInv, Early
  <2>4. ClockInv(p)'
    BY <1>3, <1>4, <2>1, <2>2 DEF ClockInv
  <2> QED BY <1>2, <1>4, <2>1, <2>3, <2>4 DEF WebSame
<1>6. CASE IssueInvoice(p)
  <2>1. /\ expiresAt' = [expiresAt EXCEPT ![p] = now + lifetime[p]]
        /\ call[p] = "create" /\ call'[p] # "create" /\ pc' = pc /\ payouts' = payouts
    BY <1>6 DEF IssueInvoice, ServeCreate, Serve, Ask, memory, Inv, TypeOK
  <2>2. now \in Nat /\ asked[p] \in Nat /\ lifetime[p] \in Nat /\ quote[p] \in Nat
    BY ClockAssumption
  <2>3. now + lifetime[p] \in Nat /\ now + lifetime[p] <= quote[p] + BackendDelay
    BY <1>3, <2>1, <2>2, ClockAssumption DEF ClockInv
  <2>4. expiresAt' \in [Payouts -> Nat] /\ expiresAt'[p] = now + lifetime[p]
    BY <2>1, <2>3
  <2>5. WebInv(p)' /\ ClockInv(p)'
    BY <1>3, <1>4, <2>1, <2>3, <2>4 DEF WebInv, ClockInv
  <2> QED BY <1>2, <1>4, <2>1, <2>4, <2>5 DEF WebSame
<1>7. CASE Answering(p) \/ Lapse(p) \/ Pay(p) \/ Outside(p)
  <2>1. expiresAt' = expiresAt /\ pc' = pc /\ payouts' = payouts
    BY <1>7 DEF Answering, Lapse, Pay, Outside, web, ServeWait, ServeSettle, ServeCancel, Serve,
                Reject, InvoiceExpires, ExternalCancel, WalletPays, MoveInvoice, DeliverFiat,
                AnswerFiat, memory
  <2>2. call'[p] = "create" => call[p] = "create"
    BY <1>7 DEF Answering, Lapse, Pay, Outside, ServeWait, ServeSettle, ServeCancel, Serve,
                Reject, InvoiceExpires, ExternalCancel, WalletPays, MoveInvoice, DeliverFiat,
                AnswerFiat, Ask, Inv, TypeOK
  <2>3. WebInv(p)' /\ ClockInv(p)'
    BY <1>3, <1>4, <2>1, <2>2 DEF WebInv, ClockInv
  <2> QED BY <1>2, <1>4, <2>1, <2>3 DEF WebSame
<1> QED BY <1>4, <1>5, <1>6, <1>7

\* Every step keeps the invariant.
LEMMA LInvStep == LInv /\ [LNext]_lvars => LInv'
<1> SUFFICES ASSUME LInv, [LNext]_lvars PROVE LInv'
  OBVIOUS
<1>1. Inv'
  BY ServiceStep
<1>2. ASSUME NEW p \in Payouts, WebInv(p)', ClockInv(p)',
             \A q \in Payouts : q # p => WebSame(q)
      PROVE  \A q \in Payouts : WebInv(q)' /\ ClockInv(q)'
  BY <1>2, WebUntouched DEF LInv
<1>3. ASSUME NEW p \in Payouts, Callback(p) \/ NoQuote(p) \/ QuoteMade(p) PROVE LInv'
  <2>1. LTypeOK'
    BY <1>1, <1>3, CallbackStep DEF LInv, LTypeOK, Inv, WebSame
  <2> QED BY <1>1, <1>2, <1>3, <2>1, CallbackStep DEF LInv
<1>4. ASSUME NEW p \in Payouts, PayoutRefused(p) \/ PayoutAsked(p) \/ PayoutAnswered(p) PROVE LInv'
  <2>1. LTypeOK'
    BY <1>1, <1>4, PayoutCallStep DEF LInv, LTypeOK, Inv, WebSame
  <2> QED BY <1>1, <1>2, <1>4, <2>1, PayoutCallStep DEF LInv
<1>5. ASSUME NEW p \in Payouts,
             \/ Background(p) \/ IssueInvoice(p) \/ Answering(p)
             \/ Lapse(p) \/ Pay(p) \/ Outside(p)
      PROVE  LInv'
  <2>1. LTypeOK'
    BY <1>1, <1>5, BehindStep DEF LInv, LTypeOK, Inv
  <2> QED BY <1>1, <1>2, <1>5, <2>1, BehindStep DEF LInv
<1>6. CASE Restart
  <2>1. LTypeOK'
    BY <1>1, <1>6 DEF Restart, LInv, LTypeOK, Inv, Handling
  <2>2. ASSUME NEW p \in Payouts PROVE WebInv(p)' /\ ClockInv(p)'
    <3>1. WebInv(p) /\ ClockInv(p)
      BY DEF LInv
    <3>2. /\ pc'[p] = IF pc[p] \in Issued THEN "lost"
                      ELSE IF pc[p] = "creating" THEN "rejected" ELSE pc[p]
          /\ payouts'[p] = NoRecord /\ call' = call
          /\ callback'[p] = IF callback[p] \in {"quoting", "issuing"} THEN "dropped" ELSE callback[p]
          /\ UNCHANGED <<now, quote, asked, lifetime, expiresAt>>
      BY <1>6 DEF Restart, Crash
    <3>3. pc[p] \in Points
      BY DEF LInv, Inv, TypeOK
    <3>4. WebInv(p)'
      BY <3>1, <3>2, <3>3 DEF WebInv, Early, ErrorReplies, Points, Issued, Running
    <3>5. ClockInv(p)'
      BY <3>1, <3>2 DEF ClockInv
    <3> QED BY <3>4, <3>5
  <2> QED BY <1>1, <2>1, <2>2 DEF LInv
<1>7. CASE Tick
  <2>1. now' = now + 1 /\ now' \in 0 .. MaxTime
    BY <1>7, ClockAssumption DEF Tick, LInv, LTypeOK
  <2>2. UNCHANGED <<vars, callback, quote, asked, lifetime, expiresAt>>
    BY <1>7 DEF Tick
  <2>3. LTypeOK'
    BY <1>1, <2>1, <2>2 DEF LInv, LTypeOK, Inv
  <2>4. ASSUME NEW p \in Payouts PROVE WebInv(p)' /\ ClockInv(p)'
    <3>1. WebInv(p) /\ ClockInv(p)
      BY DEF LInv
    <3>2. WebInv(p)'
      BY <2>2, <3>1 DEF WebInv, vars, memory
    <3>3. call[p] = "create" => now' <= asked[p] + BackendDelay
      BY <1>7, <2>1, ClockAssumption DEF Tick, LInv, LTypeOK
    <3> QED BY <2>2, <3>1, <3>2, <3>3 DEF ClockInv, vars
  <2> QED BY <1>1, <2>3, <2>4 DEF LInv
<1>8. CASE UNCHANGED lvars
  BY <1>1, <1>8 DEF lvars, vars, memory, web, LInv, LTypeOK, WebInv, ClockInv, Inv
<1> QED BY <1>3, <1>4, <1>5, <1>6, <1>7, <1>8 DEF LNext

\* The invariant holds in every reachable state.
THEOREM LInvHolds == LSpec => []LInv
  BY LInvInit, LInvStep, PTL DEF LSpec

\* Behind the server, with its clock and its quotes, the service behaves as it
\* does alone: whatever was proved of it holds here too.
THEOREM ServerImplementsService == LSpec => Spec
<1>1. LInit => Init
  BY DEF LInit
<1> QED BY <1>1, ServiceStep, LInvHolds, PTL DEF LSpec, Spec

\* The types, and that the backend is never asked for an invoice that has no time
\* left (createPayout refuses a quote that has run out).
THEOREM ServerTypeCorrect == LSpec => []LTypeOK
<1>1. LInv => LTypeOK
  BY DEF LInv
<1> QED BY <1>1, LInvHolds, PTL

\* A callback answered with an error left no record and sent no fiat.
THEOREM RefusalIsClean == LSpec => []RefusalLeavesNothing
<1>1. LInv => RefusalLeavesNothing
  <2> SUFFICES ASSUME LInv, NEW p \in Payouts, callback[p] \in ErrorReplies
               PROVE  payouts[p] = NoRecord /\ fiat[p] = "none"
    BY DEF RefusalLeavesNothing
  <2>1. pc[p] \in Early /\ payouts[p] = NoRecord
    BY DEF LInv, WebInv
  <2> QED BY <2>1 DEF LInv, Inv, PayoutInv, FiatInv, Early
<1> QED BY <1>1, LInvHolds, PTL

\* An invoice is paid while its quote is valid, or later by no more than the time
\* that createHoldInvoice took.
THEOREM PaymentUnderQuote == LSpec => PaidUnderQuote
<1>1. ASSUME LInv, [LNext]_lvars, NEW p \in Payouts, invoice[p] = "open", invoice'[p] = "held"
      PROVE  now < quote[p] + BackendDelay
  <2>2. Pay(p)
    <3>1. CASE Tick \/ Restart \/ UNCHANGED lvars
      BY <1>1, <3>1 DEF Tick, Restart, Crash, lvars, vars, outside
    <3>2. ASSUME NEW q \in Payouts, Callback(q) \/ NoQuote(q) \/ QuoteMade(q) PROVE FALSE
      BY <1>1, <3>2 DEF Callback, NoQuote, QuoteMade, vars, outside
    <3>3. ASSUME NEW q \in Payouts, PayoutRefused(q) \/ PayoutAsked(q) \/ PayoutAnswered(q) PROVE FALSE
      BY <1>1, <3>3 DEF PayoutRefused, PayoutAsked, PayoutAnswered, RefuseAtCapacity,
                        RejectArguments, RequestInvoice, InvoiceCreated, InvoiceRefused, outside
    <3>4. ASSUME NEW q \in Payouts, Background(q) PROVE FALSE
      BY <1>1, <3>4 DEF Background, Continue, LateSuccess, InvoiceCreated, InvoiceRefused,
                        PaymentHeld, PaymentNotHeld, FiatConfirmed, FiatRefused, PayoutTimer,
                        GiveUpOnFiat, HoldCancelled, HoldSettled, SettleRejected, RetrySettle,
                        SettleAbandoned, outside
    <3>5. ASSUME NEW q \in Payouts, IssueInvoice(q) \/ Answering(q) \/ Lapse(q) \/ Outside(q) PROVE FALSE
      BY <1>1, <3>5 DEF IssueInvoice, Answering, Lapse, Outside, ServeCreate, ServeWait,
                        ServeSettle, ServeCancel, Serve, Reject, InvoiceExpires, ExternalCancel,
                        MoveInvoice, DeliverFiat, AnswerFiat, outside, LInv, Inv, TypeOK
    <3>6. ASSUME NEW q \in Payouts, Pay(q) PROVE q = p
      BY <1>1, <3>6 DEF Pay, WalletPays, MoveInvoice, LInv, Inv, TypeOK
    <3> QED BY <1>1, <3>1, <3>2, <3>3, <3>4, <3>5, <3>6 DEF LNext
  <2>3. now < expiresAt[p] /\ expiresAt[p] <= quote[p] + BackendDelay
    BY <1>1, <2>2 DEF Pay, LInv, ClockInv
  <2>4. now \in Int /\ expiresAt[p] \in Int /\ quote[p] + BackendDelay \in Int
    BY <1>1, ClockAssumption DEF LInv, LTypeOK
  <2> QED BY <2>3, <2>4
<1>2. LInv /\ [LNext]_lvars =>
        [\A p \in Payouts : invoice[p] = "open" /\ invoice'[p] = "held"
           => now < quote[p] + BackendDelay]_lvars
  BY <1>1
<1> QED BY <1>2, LInvHolds, PTL DEF LSpec, PaidUnderQuote
=============================================================================
