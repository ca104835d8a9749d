# A TLA+ model of Lipa: discovery and settlement of Bitcoin off-ramps

This directory models the library under `lib/src` of the repository: wallets
discover off-ramp providers over Nostr or HTTP, and a provider sells its
service through LNURL-pay backed by Lightning hold invoices. The modules follow
the code function by function; TLC checks them on small instances and TLAPS
proves every safety property that the passing runs check, and three refinements, for
every value of their constants.

## 1. The system

| Part | Source | State it keeps | Operations | What makes it correct |
|---|---|---|---|---|
| Settlement service | `settlement/service.js` | `payouts` (records with preimages), `pendingCount` | `createPayout`, `_process`, `_sendFiatWithTimeout`, `_cancelHold`, `_settleWithRetry`, `_fail`, `getStatus`, `whenDone` | sats are captured only after the fiat is delivered; a failed payout is never captured; the count is exact; everything ends; what cannot be put right is flagged |
| Backend interface | `settlement/backend.js` | none | `createHoldInvoice`, `waitUntilHeld`, `settle`, `cancel` | the life of an invoice; answers that stay true |
| In-memory backend | `settlement/memory-backend.js` | invoices, waiters, timers | the four methods, `simulateIncomingPayment`, `_wake` | keeps the contract; no waiter is forgotten |
| LNURL server | `settlement/lnurl-server.js` | three rate limiters | lookup, callback, verify | never issues an invoice after a refusal; verify tells the truth |
| Rate limiter | `transports/http/rateLimit.js` | request times per address | middleware, sweeper | exactly `max` requests per window; the map shrinks |
| HTTP transport | `transports/http/server.js` | response cache | `/v1/services`, `/v1/health` | bodies are at most a TTL and one query old; failures are not cached |
| Querier | `querier.js` | relay pool | `_queryOnce`, `_queryWithRetry`, `findWithStatus`, `_mapLimit`, `checkHealth`, `findHealthy`, `_isUrlSafe` | no answer is not "no providers"; the newest listing decides; what is shown fits; every probe ends and goes to a public address |
| Publisher | `publisher.js` | relay pool | `buildEvent`, `publish`, `updateStatus` | the report matches what each relay did; what is published can be found |
| Attestations | `attestation.js` | relay pool | `vouch`, `revoke`, `getAttestations`, `getRevocations`, `score` | one voice per key; forgeries do not count; the newest statement decides |
| Provider-hosted transport | `transports/provider-hosted/server.js` | the listing given at start | validation, one GET | none that changes state |
| Configuration, keys, normalisation | `config.js`, `keys.js`, `core/normalize.js` | constants | pure | |

Outside the library, and modelled only as far as the code meets them: the
Lightning node, the wallet, the payout provider (`sendFiat`), the Nostr relays.

**Interaction.** The LNURL server awaits a quote, then `createPayout`. The
service calls the backend and the payout provider through promises, and keeps
working in the background after `createPayout` has answered. The backend calls
back by resolving the promise of `waitUntilHeld`. Wallets learn the result only
by polling `verify`, that is `getStatus`. Every server stands behind a rate
limiter. The HTTP transport calls the querier and caches what it returns.

**What is hard.** Everything runs in one JavaScript thread, so the hard part is
what happens between two awaits: overlapping `createPayout` calls; the payout
timer against the provider's answer; calls that reject after they took effect;
a hold that ends at the node while the fiat is on its way; a restart. The
hazards are listed, each at its line, in `PROJECT.json`.

## 2. The modules

| Module | Models | Checked by | Proved in |
|---|---|---|---|
| `OffRamp` | abstract: what is promised about sats, fiat and the verdict | as `RampSpec` | |
| `SettlementService` | `service.js` with the backend, wallet and provider around it | `offramp_server`, `service_*` | `SettlementServiceProofs` |
| `HoldBackend` | abstract: `backend.js`, the contract of a backend | as `ContractSpec` | |
| `MemoryBackend` | `memory-backend.js` with its clock and timers | `backend_contract` | `MemoryBackendProofs` |
| `RateLimiter` | `rateLimit.js` with its clock and sweeper | `limiter_window` | `RateLimiterProofs` |
| `LnurlServer` | `lnurl-server.js` on top of `SettlementService`, with a clock | `offramp_server`, `lnurl_late_payment` | `SettlementServiceProofs`, last section |
| `HttpTransport` | `transports/http/server.js`: the parameters and the cache, with `ServiceListing` | `http_cache` | `HttpTransportProofs` |
| `ServiceListing` | `publisher.js` and `querier.js` without state: tags, filters, parsing | in `directory_find`, `http_cache` | `ListingQueryProofs` |
| `RelayPublish` | `publisher.js` and the sending half of `attestation.js`, with the relays | `publish_dies`, in `trust_score` | `RelayPublishProofs` |
| `ListingQuery` | `querier.js`: the search for listings, on top of `RelayPublish` and `ServiceListing` | `directory_find` | `ListingQueryProofs` |
| `Attestations` | `attestation.js`: what keys say and the score, on top of `RelayPublish` | `trust_*` | `AttestationsProofs` |
| `AddressRules` | `querier.js` without state: which addresses may be fetched | in `health_checks` | `HealthProbeProofs` |
| `HealthProbe` | `querier.js`: the health checks and their pool of workers, on top of `AddressRules` | `health_checks` | `HealthProbeProofs` |
| `MC...` | instances for TLC | | |

### SettlementService

One action is what JavaScript runs from one `await` to the next; microtasks that
follow each other without letting anything else run are one step. `pc[p]` is
where the code of payout `p` is suspended:

| `pc` | Awaits | Left by |
|---|---|---|
| `idle` | nothing, not called yet | `RejectArguments`, `RefuseAtCapacity`, `RequestInvoice` |
| `creating` | `backend.createHoldInvoice` (line 96) | `InvoiceCreated`, `InvoiceRefused` |
| `waiting` | `backend.waitUntilHeld` (148) | `PaymentHeld`, `PaymentNotHeld` |
| `sending` | the race of `sendFiat` and the timer (179) | `FiatConfirmed`, `FiatRefused`, `PayoutTimer` |
| `cancelling` | `backend.cancel` (199) | `HoldCancelled` |
| `settling` | `backend.settle` (208) | `HoldSettled`, `SettleRejected`, `SettleAbandoned` |
| `pausing` | the sleep between two tries (213) | `RetrySettle` |
| `done`, `rejected`, `busy`, `lost` | nothing | `LateSuccess` may still flag a finished payout |

`call[p]` is the backend request that is outstanding and then its answer, which
stays there until the service's continuation runs: between the two anything may
happen to the invoice. `fiat[p]` is the promise of `sendFiat` and `delivered[p]`
whether the recipient has the money. A payout stands for its payment hash and
its preimage; `preimage` in the record says whether the service still has it.

The constant `Faults` says what may go wrong: backend calls that reject without
effect (`backendError`) or after it (`replyLost`), an invoice ended at the node
(`externalCancel`), a provider call that rejects although the fiat arrives
(`fiatReplyLost`), and a restart (`crash`), which forgets every record while the
calls in flight still take effect. Amounts, phone numbers, the memo and the
description hash are left out: no property depends on them. An expired quote is
one of the reasons of `RejectArguments`; the clock behind it is in `LnurlServer`.

Mutated definitions, named "Mutant" in the comments, stand before the definition
they change. No specification uses them; they serve to confirm that each
property can fail.

### MemoryBackend and HoldBackend

`HoldBackend` states what `SettlementService` assumes in `ServeCreate`,
`ServeWait`, `ServeSettle`, `ServeCancel` and `InvoiceExpires`: an expired
invoice is never paid, settled and cancelled are final, and an answer of
`waitUntilHeld` is true of the invoice when it is given. `MemoryBackend` has the
clock: expiry is kept in whole seconds rounded down, timers run in ticks (two to
a second), may be late but not early, and a delay above `TimerMax` runs out at
once, as `setTimeout` does above 2^31-1 ms. Under the mapping, an open invoice
whose second of expiry has come is "expired".

A delay above 2^31-1 ms therefore makes `waitUntilHeld` answer "expired" while
the invoice can be paid; the runs keep every expiry below it.

### LnurlServer

It extends `SettlementService`: a callback request is a payout that has not been
asked for yet. The handler is cut at its two awaits, `getQuote` (`QuoteMade`,
`NoQuote`) and `createPayout` (`PayoutRefused`, `PayoutAsked`, `PayoutAnswered`);
each stretch is joined with the service's own action. The clock ticks in seconds.
`createPayout` computes what is left of the quote, the backend adds that to its
own clock reading when it acts. `verify` changes nothing and is the operator
`VerifyStatus`. The limiters in front of the routes run before the handlers and
share no state with them.

### HttpTransport

A query string (`Query`) has all parameters of the route; a missing or empty one
is `Absent`. `CacheKey` is the record of eleven values that `buildCacheKey`
serialises, as they were typed: "ke" and "KE" have keys of their own. `Reading` is
built independently of it, from what `_buildFilter`, `findHealthy` and the
handler's own filters make of the parameters: the values each tag is matched
against, freshness, the limit, whether endpoints are probed, `kyc` and `status`.
That equal keys have equal readings is what `RightAnswer` needs.

Requests overlap where the handler awaits the querier. A body is abstracted to
the reading it answers and the moment the relays were read (`RelaysRead`,
anywhere inside the query). `QueryTime` is the longest a query takes: attempts,
waits and back-offs of `_queryWithRetry`. `findHealthy` has no such bound when an
endpoint stalls its body (section 3, disagreements), so its answers are covered only as far
as it ends in time. `newest` is a history variable. A limit is a whole number;
parameters given twice, which Express turns into lists, are left out.

### RelayPublish

One signed event goes to every relay at once, and the loop awaits the promises
in order. At rest it waits for the first that is pending; a later one that
rejects then has no handler, and Node ends the process (`Unhandled`). `accepted`
says what really reached a relay: it may have taken an event that the promise
reports as rejected. Relays keep the newest event per id. `publish` treats a
promise that resolves to a connection failure as failed; `vouch` and `revoke`
do not look at it (`IsSuccess`): `ReportTruthful` is about reports on listings,
what the others may claim is among the disagreements of section 3. A post is a record with an id and a kind; the
modules on top give it the rest: a listing, or who says what of whom.

### ServiceListing and ListingQuery

`ServiceListing` has the way of a listing through three pieces of code that must
agree: the tags of `buildEvent`, the filter of `_buildFilter` with which relays
select, and the second test of `findWithStatus` on what `_parseEvent` made of the
tags. `Offers` says what is meant, without tags. A country or currency is a code
with its upper case, since people type either; the formats that `_validate` and
`URL` check are left out, and so are names, prices and other fields for display.

`ListingQuery` is one `findWithStatus` while providers publish. A relay sends the
events that match, or, if it does not know these tags, every recent one, possibly
with an event among them that must never be shown (`Noise`: forged, denied,
foreign or malformed); or it breaks off after some. When the last relay has
closed, or at the hard stop, `Conclude` runs to the next await. `Newest` is the
stable sort and the first of each id, taken together. The order of the returned
list is left out, and so is the limit on its length: the model covers the queries
for which no relay holds more matching events than the limit.

### Attestations

`score` asks for the attestations and, when that query is over, for the
revocations. `querySync` returns when each relay has finished or failed and does
not tell which, so `RelaySends` may send any part of what a relay holds. An author is
who signed; `Forged` events fail the verification, `SelfVouch` is a key that
vouches for itself without this library. The `d` tag can be chosen
(`options.id`), so one key may have several statements that relays keep side by
side; `_dedupeByAuthor` makes one voice of them. Ratings, notes and reasons are
left out: the score does not read them. `score` with lists that the caller has
fetched before skips the queries and is left out too.

### AddressRules and HealthProbe

`AddressRules` has the reading of a spelled IPv6 address (`_expandIpv6`) and the
tests on single octets and groups (`_isBlockedAddress`), and next to them what is
meant: a table of address blocks, and all spellings of eight groups. Spelled
groups are numbers; the hexadecimal digits, zone ids and spellings that `net.isIP`
refuses are left out (the code refuses those before).

`HealthProbe` is `findHealthy` after the search. The workers of `_mapLimit` take
the next index when their probe returns; a probe is cut where it awaits the name
server, the response, or the next chunk of the body. A URL is refused as such
(not https, localhost), an address, or a name with the addresses it resolves to.
What a health report says is healthy, sick or unreadable. fetch looks the name
up once more, after the check; the code says so itself, and the model does not
have the second lookup.

### RateLimiter

`hits` is the map of the code; `log`, every request with when it may return, is a
history variable used only to state the properties. `Filter` is `Array.prototype.filter`, written as
the loop it is: tlapm knows nothing of the standard `SelectSeq`. The score's
`SumOfWeights` in `Attestations` is a loop for the same reason.

## 3. What the runs check

| Run | Instance | Question |
|---|---|---|
| `offramp_server` | 2 callbacks and payouts, limit 1, 2 settle tries, 2 overlapping calls, quotes of 1 s, all faults, fairness | is the count of unpaid invoices exact, do sats and fiat stay matched or flagged, is the promise kept, does a refusal leave anything behind, does everything end, does a wallet learn the outcome of a payout that is not stuck? |
| `service_unpaid_limit` | 2 payouts, no fault | **violated**: the limit on unpaid invoices |
| `service_failed_released` | 1 payout, backend errors | **violated**: "failed" means the hold was cancelled |
| `lnurl_late_payment` | 1 callback, a backend up to 1 s late, no fault | **violated**: no payment after the quote has lapsed |
| `backend_contract` | 2 hashes, 2 callers, 6 ticks, fairness | is the contract kept, is everybody answered? |
| `limiter_window` | 2 addresses, 2 per window of 3 ticks, 4 requests each, 7 ticks | does exactly the allowed number pass, is anybody told to wait longer than necessary? |
| `http_cache` | 3 requests, a plain query string and 11 that differ from it in one parameter, TTL 1, queries up to 1 tick | does an answer fit the question, how old can it be, is a failure ever kept? |
| `publish_dies` | 1 publish call, 2 relays | **violated**: the publisher lists what each relay did |
| `directory_find` | 2 relays, 3 versions of a listing of which 2 offer what is asked, 2 publish calls, 2 attempts, fairness | does the newest fitting copy decide, does what is shown fit, is anything that came lost, does the call end? |
| `trust_score` | anchor, known peer, stranger, the provider's listing; 2 posts, 2 relays | is every recognised key counted once, is what the report on a listing names a success held from then on? |
| `trust_newest` | 2 statements of one key | **violated**: a key's most recent statement counts |
| `health_checks` | one listing with each address at the edge of a block in each spelling, alone or beside a good one; 3 listings for 2 workers; bodies around a cap of 2; fairness | is every listing probed once, are only public addresses fetched, who is returned, does it end? |

**The bounds.** Payouts interact only through `pendingCount`: two suffice for
one to hold the place the other wants, or to overlap with it. Two settle tries give a first, a last and a
pause between. For the backend two hashes show that one invoice's end wakes only
its own callers, and two callers share an invoice; the clock leaves room for
creation and calls in the middle of a second and for timers that are late. For
the limiter the clock runs over two windows and two sweeps, with more requests
than pass. For the callbacks a quote can run out before it is used, or its invoice
after, and the second request can meet a full service; the backend acts at once
there (`BackendDelay` 0), a slow one is in `lnurl_late_payment` and, for every
delay, in `PaymentUnderQuote`. For the cache three requests give two
overlapping queries and a reader of what they left, and two ticks an entry one
tick too old; a key confuses two questions or not, so the requests of one
behaviour are about the plain query string and at most one other (`OneOther`, the
only constraint on a state space). For the reports on listings two posts and a tick let a newer
event, or one of the same second, replace what was reported. For the search three versions of
a listing on two relays give every split of old, new, expired, missing and
no longer fitting copies; one ttl can run out before the list is made and one does
not, because it is the old default that is read as the new one. For the
score two statements are enough for a key to speak twice, for two keys to speak,
and for a statement and its withdrawal; two relays for either to be missed. For
the health checks two workers and three listings make a worker take a second
listing while the other is busy; `Edges4` and `Edges6` hold the first and last
address of each block and their neighbours; chunks of one and two around a cap of
two give bodies of exactly the cap, above it at once and above it in pieces.
The deadlock check is off in every run: all payouts may be over, and
the bounded clocks end.

**Fairness.** Weak fairness on a payout's own steps and on the late handler: the
event loop runs every ready callback and timer. On the backend: each call is
answered or rejected, as any network client with a timeout does. On
`InvoiceExpires`: a hold invoice has an expiry. Nothing is assumed of the
wallet, the provider, clients, faults or restarts. In `MemoryBackend`: time
passes and timers that are due run. In `LnurlServer`: the same, and time passes;
nothing is assumed of `getQuote`. In `ListingQuery`: only the querier's own timers
run, no relay need ever answer. In `HealthProbe`: the event loop, the timers of
the name lookup and of the request run; that a body comes to something is no
promise of this code, which clears its timer at the headers, but of fetch, which
gives up on a body that stays silent (`WF` on `ReadOn`), together with the cap
for a body that trickles. That assumption is the weakest point of
`FindHealthyEnds`: see the last of the disagreements.

**The disagreements** between the code and what is said of it. A run shows each
of the first five:
1. `createPayout` tests the count before it awaits the invoice and raises it
   after, so overlapping calls exceed `maxPendingPayouts`, "most unpaid invoices
   allowed at once". `BoundCorrect` proves by how much at most.
2. "failed" is documented as "the hold was cancelled". If `waitUntilHeld` rejects,
   nothing is cancelled: the invoice stays payable and the payment is then held
   until the HTLC times out. The same status is reported when `cancel` itself
   fails, then at least with `needsAttention`.
3. The invoice's expiry should match `rateExpiry`, "so a wallet cannot pay after
   the quoted rate has lapsed". `createPayout` passes a number of seconds, and the
   backend adds it to its own, later clock. `PaymentUnderQuote` proves that a payment
   is late by less than the delay of `createHoldInvoice`.
4. `publish` awaits the relays one after the other. A relay that rejects while an
   earlier one is still silent raises an unhandled rejection, which ends a Node
   process by default: the provider gets no report at all.
5. The specification of the score wants each author's most recent event.
   `getRevocations` drops every event whose action is not "revoked" before it
   deduplicates, so a revocation counts although its author has taken it back,
   as long as one relay missed the newer event.

The others have no run of their own. Each is a statement of the documentation that
the modules refute; the formula is given, so that it can be added to a
configuration and seen to fail, together with what does hold and is checked:

6. `docs/developer-quickstart.md:100`: a client that has got 429 should "wait for the
   number of seconds in the `Retry-After` header". Refused requests are recorded
   like others (`rateLimit.js:40`) and the header looks at the oldest record alone,
   so the client may be refused again: with two requests per window of three
   seconds, at 0, 1 and 2, it is told to come back at 3, where those of 1 and 2 still
   fill the window. Refuted, on `RateLimiter`: `\A a \in Addresses : \A i \in
   1 .. Len(log[a]) - 1 : ~log[a][i].passed /\ log[a][i + 1].time >= log[a][i].retryAt
   => log[a][i + 1].passed`. What holds is `ServedNoEarlier`: the header is a lower
   bound, it never asks for a second too much, but it is no promise.
7. `spec/settlement-lnurl.md:95`: "A wallet polls `verify` until a terminal state". If
   `settle` fails for good the payout stays in processing, `verify` does not show
   `needsAttention`, and the wallet polls for ever. Refuted, on `LnurlServer`: `\A p \in
   Payouts : callback[p] = "invoice" ~> VerifyStatus(p) \in {"completed", "failed"}`.
   `PollingWalletLearns` says that this is the only way, apart from a restart, after
   which `verify` does not know the payout.
8. `lib/README.md:105`: "listings are replaceable, so the newest always wins" (so also
   line 191 there and `docs/provider-quickstart.md:179`). The filters run before the
   deduplication (`querier.js:268-289`): an old copy that fits is shown although a
   newer one that does not fit came in the same query. Refuted, on `ListingQuery`:
   `find.pc = "done" => \A p \in find.providers : \A e \in came \cap Event : e.post.id =
   p.post.id => e.at <= p.at`. What holds is `NewestDecides`: among the copies that
   fit, the newest decides.
9. `querier.js:95`: "a connection problem is never mistaken for "no providers"". An
   attempt counts as answered when any event came (line 104); a relay may break off
   after one that is then filtered away or has expired, and the list is empty
   without any relay having finished. Refuted, on `ListingQuery`: `find.pc = "done" /\
   find.providers = {} => \E r \in Relays : closed[r] = "eose"`. What holds is
   `NothingLost`: an error means that nothing came, and what came and fits is shown
   or has expired.
10. `test/run.js:850` takes a success in the report of `vouch` for "attestation
    published to >=1 relay". `_publish` does not look at what the promise resolves to
    (`attestation.js:144`), `publish` does, so the report may name relays that could
    not be reached. Refuted, on `RelayPublish` with a post of another kind than
    "listing": `\A c \in Publishes : report[c].success # {} => accepted[c] # {}`. What
    holds is `ReportTruthful`, about listings only.
11. `checkHealth` documents a "timeout in milliseconds" (`querier.js:553`) whose timer
    is cleared at the headers (line 570). A body that stalls or trickles holds the
    probe, and with it the whole of `findHealthy`, for as long as fetch and the cap
    allow. Without `WF_vars(ReadOn(w))`, which is about fetch and not about this code,
    `\A w \in Workers : At(w, "fetching") ~> ~(At(w, "fetching") \/ At(w, "reading"))` is
    refuted, and `FindHealthyEnds` with it.

**A remark**, which no run is about: `config.js:23` and `publisher.js:121` say that the
default service type preserves the meaning of listings from before the field.
`_parseEvent` does so, but a relay that is asked for a service type returns only
events with the tag, so such listings are never found by type.

## 4. What is proved

`SettlementServiceProofs` holds for every finite set of payouts, every limit,
every number of settle tries, of overlapping calls, and every set of faults (the
named assumptions in `SettlementService`).

The inductive invariant `Inv` consists of `TypeOK`, `PendingCountExact` and, per
payout, four parts:
- `PointInv` ties the point where the code is suspended to the call it may
  await, the status in the record and the outcome of the payout. Without it a
  step could find a status that the count does not expect.
- `FiatInv`: fiat is sent only against an invoice that was held, "ok" only after
  delivery.
- `SettleInv`: `settle` is only ever asked after the provider confirmed, also
  when the process has been restarted since; a settled invoice never belongs to
  a failed payout; "completed" implies settled.
- `PreimageInv`: the preimage is there until the verdict.

A step of one payout leaves the others alone (`OnlyOne`, `Untouched`), so the
invariant is shown per action for its own payout (`ContinueStep`, `BackendStep`,
`OtherStep`, `CrashStep`). From it follow `TypeCorrect`, `CountCorrect`,
`CaptureSafe`, `ClaimSafe` and `VerdictFinal`; `BoundCorrect` adds the set of
calls that await an invoice to the induction. `ServiceImplementsOffRamp` maps
each step to a step of `OffRamp` or to none: what moves an invoice (`SatsStep`),
what changes a record (`ToldStep`), and the rest (`QuietStep`).

`StuckFlagged` and `UnflaggedBalanced` need more than `Inv`: `BooksInv` says, for
each point of the code, what the record, the invoice and the provider's answer
have to do with each other (a settled payout is completed or flagged, an invoice
that is still held after the end has a flag or a failed wait behind it).

The last section of `SettlementServiceProofs` is about `LnurlServer`, for any
lifetimes of quotes, any delay of the backend and any end of the clock. `WebInv`
ties the callback to the payout it asks for: a callback that is "issuing" belongs
to a payout whose invoice is being created, one that was answered with an error to
a payout that has no record. `ClockInv` relates the three clock readings: an
invoice is asked for with what was left of the quote, and the backend acts at most
its delay later. `ServiceStep` shows that every step of the server is one of the
service or none, so `ServerImplementsService` (`LSpec => Spec`) carries the
theorems above over, and `ServerTypeCorrect`, `RefusalIsClean` and
`PaymentUnderQuote` follow.

`HttpTransportProofs` holds for every set of requests and of query strings, any
codes, rails and values of `kyc`, every time to live, longest query and clock bound
(`QueriesAssumption`, `TimesAssumption`). `KeyDecides` compares the key with what it
stands for: query strings with the same eleven values have the same reading.
The invariant has a
part per request, `RequestInv`, and one per key, `EntryInv`:
- a request that still queries began at most one query ago and has read
  meanwhile, so a body is at most one query old when it is stored or answered;
- an entry expires at most a query and a time to live after its reading, which
  bounds the answers of later hits, and its reading is at most one query older
  than the newest stored before, whichever of the overlapping requests was last.

`OneRequest` serves every step that only changes a request; `Answer` is the one
that touches the cache too. From the invariant follow `CacheTypeCorrect`,
`AnswerFits`, `AnswerAgeBounded` and `CacheGoesBackLittle`, which is the whole
of what `http_cache` checks.

`MemoryBackendProofs` (any hashes, callers, timeouts and ticks to the second):
`TypeOK` and `NobodyForgotten` are inductive together. `WakeStep` is the heart: who
is in the list is told, and nobody else was waiting.

`BackendKeepsContract` is the refinement of `HoldBackend`. It has one hypothesis,
`ShortExpiries`: no expiry asked for is longer than `TimerMax`. The code does not
ensure it, and without it the refinement is false (section 2); the expiries that
`createPayout` computes are what is left of a quote, seconds or minutes against
24 days. The invariant has `ExpiryNear`, no invoice outlives the longest expiry,
so no timer overflows, and `TimersLate`, a timer set for the expiry is due no
earlier than that, so what it answers is true. `InvoiceKept` and `CallerKept` say
per invoice and per caller what a step looks like under the mapping;
`ContractStep` puts them together.

`RateLimiterProofs` (any addresses, `max`, window, ticks and sweeper): the log of
an address is in the order of time (`LogInv`), and its list in the map is what is
left of the log when some of the oldest requests are dropped, all of which have
left the window (`ListInv`). `SweepInv` says that the next sweep is at most a
window away. Given that, filtering a list cuts a prefix off (`Cut`,
`FilterOfSuffix`), and the requests that a request counts are exactly those of the
log that are in its window (`CountedAreListed`). `LimitIsExact` counts them,
`MapIsLean` looks at the youngest. For `NobodyWaitsLonger`, `RetryInv` says that
a refused request counted one that leaves the window less than a second before the
time the client was told, and at least `max` later ones: nobody is served before
that one has left.
`SetInduction` replaces the induction theorems of the library, which take an
operator: it is about a set of naturals.

`RelayPublishProofs` (any calls, relays and posts): `HeldInv` says that a relay
that took an event holds it or a newer one of its id from then on, `CallInv` that a
report lists only promises that settled as successes; together they give
`ReportsAreTruthful`, which is about listings.

`ListingQueryProofs` (any codes, rails, listings and questions; any relays, posts,
attempts, ttls and clock). It first treats `ServiceListing`: `TagValues` reads each
tag; from it `ParsedBack`, and that both the relays (`RelayFinds`) and the querier
(`ClientFinds`) decide exactly as `Offers`. So the two tests agree, and a listing
that a relay returned for the question is not dropped again.

On these rests the search. The invariant is that of `RelayPublish`, which goes on
underneath, with `HeldCame` (every wanted event of a relay that answered has been
received), `Listed` (the list returned is the newest of each id among what came)
and `NothingYet` (an attempt is only repeated, and an error only thrown, when
nothing came). `SetToSeq` and the choice of the newest need finite sets: relays
hold finitely many events because none is there at first and each step adds at most
one (`FinitelyMany`). `NewestCopyDecides`, `ShownIsFit` and `NothingIsLost`
follow; `CameIsDecided` is what the first and the last have in common. The order in
which events come is arbitrary throughout.

`AttestationsProofs` (any relays, calls and posts, any tiers of keys): `CameInv`
bounds what the two queries can have received, the publishers' events and the
noise, finitely many of each; `MadeInv` ties the score to what had come when each
query ended. `VoicesCounted` says that after `_dedupeByAuthor` there are as many
events as authors, `LoopSum` that the loop over them adds a weight per event,
whatever the order (by induction on their number), `ScoreInKeys` that the score is
therefore a count of keys. Together they are `EachKeyOneVoice`. Publishers are not
disturbed by a score under way (`TrustSpec => PublishSpec`).

`HealthProbeProofs` starts with `AddressRules` (any address, any spelling):
`Verdict4` and `Verdict6` compare the tests with the table of blocks, where
`Masks` turns each bit mask into an interval; `EverySpellingRead` that "::" and a
dotted end are put in the right place; `VerdictExact` is the two together.

For the probes (any lists, number of workers, cap and chunks) the invariant
has `PoolInv`, what the shared index says of every listing and worker, and
`ProbeFits` per probe. `AwaitStep` and `ReturnStep` serve every action of a worker,
`JudgeStep` uses `VerdictExact`. The four invariants of the run follow.

**Assumed** are only the named assumptions on constants. `"noise" \notin Publishes`
and `"forged" \notin Publishes` keep the names of foreign events apart from those of
the project's own calls; they say nothing about the code.

**Only model-checked** is liveness, which needs fairness and is out of the prover's
reach: `EveryPayoutEnds`, `CapacityRecovers`, `ConfirmedIsSettledOrFlagged` and
`PollingWalletLearns` (`offramp_server`), `EveryCallerAnswered` (`backend_contract`),
`FindEnds` (`directory_find`) and
`FindHealthyEnds` (`health_checks`). Everything else that a passing run checks is a
theorem.

## 5. What is left

Open: the safety half of the liveness properties as action properties, for every
value of the constants: a payout never comes back to a point of the code except
around the settle loop, and there at most `SettleAttempts` times; a search only
goes on to later attempts, each with its own answers. And that a search, like a
score, leaves the publishers undisturbed.

**Not modelled**, and why:
- The provider-hosted transport validates a listing once, at start, and serves it
  from memory; nothing changes afterwards.
- `config.js`, `keys.js`, `core/normalize.js`: constants, key encodings and pure
  renaming. The vocabularies, tags and weights that matter elsewhere are in
  `ServiceListing` and `Attestations`.
- Express routing, CORS and error texts; signing and verification, which
  nostr-tools does; the formats of codes, URLs and phone numbers.
- Hazards that the code does not stand up to have no property beyond what the
  disagreements of section 3 say. Two others have none: a hold whose expiry exceeds the longest timer
  (`memory-backend.js:77`; the contract fails there, the runs stay below it), and
  the HTTP cache, which never drops expired entries (`server.js:138`; there is no
  bound to check). Two more are outside what the code can promise: the second name
  lookup of fetch (`querier.js:564`) and relays that fail silently in `querySync`
  (`attestation.js:275`). And after a restart held sats cannot be claimed, because
  the preimages are in memory only (`service.js:64`); the repository leaves open
  where they should be kept (`docs/backend-interface.md:65`), so there is no promise
  to check beyond what `OffRamp` says of a restart.
- The examples, the explorer page and the demo scripts call the library's public
  operations and add no state of their own.
