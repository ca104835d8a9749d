---------------------------- MODULE LnurlServer ----------------------------
(***************************************************************************)
(* lib/src/settlement/lnurl-server.js on top of SettlementService: a       *)
(* callback request awaits a quote and then createPayout, and verify       *)
(* reports the payout.  Unlike SettlementService alone it has a clock, one *)
(* tick to the second, so that a quote, the invoice issued under it and    *)
(* the payment can be compared in time.  A payout stands for the callback  *)
(* request that asks for it.                                               *)
(***************************************************************************)
EXTENDS SettlementService

CONSTANTS
  QuoteLifetimes,  \* rateExpiry of a quote, in seconds from when it is made
  BackendDelay,    \* longest time createHoldInvoice may take to act, in seconds
  MaxTime          \* bound: the clock stops here

ASSUME ClockAssumption == /\ QuoteLifetimes \subseteq Nat \ {0}
                          /\ BackendDelay \in Nat /\ MaxTime \in Nat

VARIABLES
  now,        \* Math.floor(Date.now() / 1000)
  callback,   \* where the callback handler is, or the reply it sent
  quote,      \* rateExpiry of the quote, 0 while there is none
  asked,      \* history: when createHoldInvoice was called
  lifetime,   \* expirySeconds, as computed by createPayout
  expiresAt   \* the invoice's expiry, by the backend's clock reading

web   == <<now, callback, quote, asked, lifetime, expiresAt>>
lvars == <<vars, web>>

ErrorReplies == {"RECIPIENT_UNREACHABLE", "NETWORK_ERROR", "REFUSED",
                 "PROVIDER_OFFLINE", "CAPACITY_EXCEEDED"}
Replies      == ErrorReplies \cup {"invoice"}
Handling     == {"none", "quoting", "issuing", "dropped"}

LInit ==
  /\ Init
  /\ now = 0
  /\ callback  = [p \in Payouts |-> "none"]
  /\ quote     = [p \in Payouts |-> 0]
  /\ asked     = [p \in Payouts |-> 0]
  /\ lifetime  = [p \in Payouts |-> 0]
  /\ expiresAt = [p \in Payouts |-> 0]

Reply(p, what) == callback' = [callback EXCEPT ![p] = what]

----------------------------------------------------------------------------
(* GET /lnurl/callback/:phone, in three stretches between its two awaits   *)

\* The phone number or the amount is refused, or a quote is asked for.
Callback(p) ==
  /\ callback[p] = "none"
  /\ \E what \in {"RECIPIENT_UNREACHABLE", "REFUSED", "quoting"} : Reply(p, what)
  /\ UNCHANGED <<vars, now, quote, asked, lifetime, expiresAt>>

\* getQuote rejects, returns an error, or returns something unusable.
NoQuote(p) ==
  /\ callback[p] = "quoting"
  /\ \E what \in {"NETWORK_ERROR", "REFUSED", "PROVIDER_OFFLINE"} : Reply(p, what)
  /\ UNCHANGED <<vars, now, quote, asked, lifetime, expiresAt>>

\* A quote is made and stamped; its answer is read later.  Bound: the clock
\* still runs when the invoice under it lapses.
QuoteMade(p) ==
  /\ callback[p] = "quoting"
  /\ quote[p] = 0
  /\ \E s \in QuoteLifetimes :
       /\ now + s + BackendDelay <= MaxTime
       /\ quote' = [quote EXCEPT ![p] = now + s]
  /\ UNCHANGED <<vars, now, callback, asked, lifetime, expiresAt>>

\* createPayout reads the clock itself.
Remaining(expiry) == expiry - now

\* Mutant: a quote that has run out is no reason to refuse.
QuoteIgnored(p) == quote[p] # 0

QuoteUsable(p) == quote[p] # 0 /\ Remaining(quote[p]) > 0

\* createPayout throws at once: at capacity first, then on a void quote.
PayoutRefused(p) ==
  /\ callback[p] = "quoting"
  /\ quote[p] # 0
  /\ \/ RefuseAtCapacity(p) /\ Reply(p, "CAPACITY_EXCEEDED")
     \/ /\ HasCapacity
        /\ ~QuoteUsable(p)
        /\ RejectArguments(p)
        /\ Reply(p, "PROVIDER_OFFLINE")
  /\ UNCHANGED <<now, quote, asked, lifetime, expiresAt>>

PayoutAsked(p) ==
  /\ callback[p] = "quoting"
  /\ QuoteUsable(p)
  /\ RequestInvoice(p)
  /\ Reply(p, "issuing")
  /\ asked' = [asked EXCEPT ![p] = now]
  /\ lifetime' = [lifetime EXCEPT ![p] = Remaining(quote[p])]
  /\ UNCHANGED <<now, quote, expiresAt>>

\* createPayout resolves or rejects, and the handler answers.
PayoutAnswered(p) ==
  /\ callback[p] = "issuing"
  /\ \/ InvoiceCreated(p) /\ Reply(p, "invoice")
     \/ InvoiceRefused(p) /\ Reply(p, "PROVIDER_OFFLINE")
  /\ UNCHANGED <<now, quote, asked, lifetime, expiresAt>>

----------------------------------------------------------------------------
(* GET /lnurl/verify/:paymentHash changes nothing: what a wallet is told   *)

\* Mutant: an unknown payout is reported like one that nobody has paid.
UnknownIsPending(p) == IF payouts[p] = NoRecord THEN "pending" ELSE payouts[p].status

\* getStatus returns null, hence 404, when there is no record.
VerifyStatus(p) == IF payouts[p] = NoRecord THEN "notfound" ELSE payouts[p].status

----------------------------------------------------------------------------
(* The rest of the service, the backend with its clock, and the world      *)

\* Code of the service that no request of a wallet waits for.
Background(p) ==
  /\ callback[p] # "issuing"
  /\ Continue(p) \/ LateSuccess(p)
  /\ UNCHANGED web

\* createHoldInvoice acts: the backend adds the lifetime to its own reading
\* of the clock.
IssueInvoice(p) ==
  /\ ServeCreate(p)
  /\ expiresAt' = [expiresAt EXCEPT ![p] = now + lifetime[p]]
  /\ UNCHANGED <<now, callback, quote, asked, lifetime>>

Answering(p) ==
  /\ ServeWait(p) \/ ServeSettle(p) \/ ServeCancel(p) \/ Reject(p)
  /\ UNCHANGED web

Lapse(p) == now >= expiresAt[p] /\ InvoiceExpires(p) /\ UNCHANGED web

\* Only a wallet that was given the invoice can pay it.
Pay(p) ==
  /\ callback[p] = "invoice"
  /\ now < expiresAt[p]
  /\ WalletPays(p)
  /\ UNCHANGED web

Outside(p) ==
  /\ ExternalCancel(p) \/ DeliverFiat(p) \/ AnswerFiat(p)
  /\ UNCHANGED web

\* A restart drops the connections of the callbacks under way.
Restart ==
  /\ Crash
  /\ callback' = [p \in Payouts |->
       IF callback[p] \in {"quoting", "issuing"} THEN "dropped" ELSE callback[p]]
  /\ UNCHANGED <<now, quote, asked, lifetime, expiresAt>>

\* No createHoldInvoice call is older than BackendDelay.
Tick ==
  /\ now < MaxTime
  /\ \A p \in Payouts : call[p] = "create" => now < asked[p] + BackendDelay
  /\ now' = now + 1
  /\ UNCHANGED <<vars, callback, quote, asked, lifetime, expiresAt>>

LNext ==
  \/ Tick
  \/ Restart
  \/ \E p \in Payouts :
       \/ Callback(p) \/ NoQuote(p) \/ QuoteMade(p)
       \/ PayoutRefused(p) \/ PayoutAsked(p) \/ PayoutAnswered(p)
       \/ Background(p)
       \/ IssueInvoice(p) \/ Answering(p) \/ Lapse(p) \/ Pay(p) \/ Outside(p)

LSpec == LInit /\ [][LNext]_lvars

\* Time passes and an unpaid invoice expires; the event loop runs every ready
\* callback and every timer; the backend answers every call.  Nothing makes a
\* client call, a wallet pay or a provider answer.
LFairness ==
  /\ WF_lvars(Tick)
  /\ \A p \in Payouts :
       /\ WF_lvars(PayoutAnswered(p))
       /\ WF_lvars(Background(p))
       /\ WF_lvars(IssueInvoice(p) \/ Answering(p))
       /\ WF_lvars(Lapse(p))

LFairSpec == LSpec /\ LFairness

----------------------------------------------------------------------------

\* Types; the backend is never asked for an invoice that has no time left.
LTypeOK ==
  /\ TypeOK
  /\ now \in 0 .. MaxTime
  /\ callback  \in [Payouts -> Handling \cup Replies]
  /\ quote     \in [Payouts -> Nat]
  /\ asked     \in [Payouts -> 0 .. MaxTime]
  /\ lifetime  \in [Payouts -> Nat]
  /\ expiresAt \in [Payouts -> Nat]
  /\ \A p \in Payouts : callback[p] = "issuing" => lifetime[p] > 0

\* docs/backend-interface.md: the expiry should match the quote's rateExpiry, so
\* that a wallet cannot pay after the quoted rate has lapsed.
PaidWithinQuote ==
  [][\A p \in Payouts : invoice[p] = "open" /\ invoice'[p] = "held"
       => now < quote[p]]_lvars

\* How far the code keeps that: createPayout counts the lifetime from its reading
\* of the clock and the backend from a later one, so a wallet may still pay after
\* rateExpiry, for as long as createHoldInvoice took and no longer.
PaidUnderQuote ==
  [][\A p \in Payouts : invoice[p] = "open" /\ invoice'[p] = "held"
       => now < quote[p] + BackendDelay]_lvars

\* A callback that was answered with an error, for whichever reason and at
\* whichever await, leaves nothing behind: no record, and no fiat is sent.
RefusalLeavesNothing ==
  \A p \in Payouts : callback[p] \in ErrorReplies =>
    payouts[p] = NoRecord /\ fiat[p] = "none"

\* A wallet that polls learns the outcome, unless the payout was abandoned
\* with SETTLE_FAILED, which verify reports as processing for ever.
PollingWalletLearns ==
  \A p \in Payouts : callback[p] = "invoice" ~>
    \/ VerifyStatus(p) \in {"completed", "failed", "notfound"}
    \/ payouts[p].error = "SETTLE_FAILED"
=============================================================================
