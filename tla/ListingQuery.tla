---------------------------- MODULE ListingQuery ----------------------------
(***************************************************************************)
(* lib/src/querier.js: findWithStatus() with its retries, against relays   *)
(* to which providers publish meanwhile (RelayPublish).  One call, for     *)
(* fresh listings that offer what is asked for (ServiceListing).  An       *)
(* attempt ends when every relay has closed or at the hard stop; what it   *)
(* received is then parsed, filtered, deduplicated and checked for expiry  *)
(* in one stretch.                                                         *)
(***************************************************************************)
EXTENDS RelayPublish, ServiceListing, Sequences, SequencesExt

CONSTANTS
  AskedFor,    \* the filters of the call
  Attempts,    \* attempts
  DefaultTtl,  \* DEFAULT_TTL
  LegacyTtl,   \* LEGACY_DEFAULT_TTL
  Lookback     \* MAX_LOOKBACK_SECONDS

ASSUME QueryAssumption == /\ AskedFor \in Question
                          /\ \A p \in Posts : Accepted(p.listing) /\ p.ttl \in Nat
                          /\ "noise" \notin Publishes
                          /\ Attempts \in Nat \ {0}
                          /\ {DefaultTtl, LegacyTtl, Lookback} \subseteq Nat \ {0}

VARIABLES
  find,      \* the call: where it is, its attempt and filter, what it returned
  received,  \* the events of this attempt, in the order in which they came
  closed,    \* per relay: the close reason of this attempt
  held,      \* history: which wanted events each relay that answered held
  came       \* history: every event that came, in whichever attempt

queryVars == <<find, received, closed, held, came>>
lqVars    == <<publishVars, queryVars>>

\* The posts that offer what is asked for, those that relays take for it, and
\* those that the querier takes for it.
Offering == {p \in Posts : Offers(p.listing, AskedFor)}
Selected == {p \in Posts : RelayMatches(Tags(p.listing), AskedFor)}
Taken    == {p \in Posts : ClientMatches(Parsed(Tags(p.listing)), AskedFor)}

\* An event that no wallet may be shown: forged, from a denied key, of another
\* protocol, or malformed.  It claims to be the newest copy of something wanted.
Noise == [call |-> "noise", at |-> MaxTime + 1,
          post |-> CHOOSE p \in Posts : p \in Offering]
AnyEvent == Event \cup {Noise}

QueryInit ==
  /\ find = [pc |-> "idle", attempt |-> 0, since |-> 0, providers |-> {}, ok |-> {}, at |-> 0]
  /\ received = <<>>
  /\ closed = [r \in Relays |-> "open"]
  /\ held = [r \in Relays |-> {}]
  /\ came = {}

LQInit == PublishInit /\ QueryInit

----------------------------------------------------------------------------
(* From events to providers                                                *)

\* A missing tag and the old default mean the current default.
EffectiveTtl(tag) == IF tag \in {0, LegacyTtl} THEN DefaultTtl ELSE tag

\* Mutant: signatures are left to the pool.
Unverified(e) == TRUE

Genuine(e) == e.call # "noise"

\* Alive when the list is made: findWithStatus reads the clock once more.
Live(e) == e.at + EffectiveTtl(e.post.ttl) > now

\* Mutant: the matching is left to the relays.
AllGenuine(s) == {i \in DOMAIN s : Genuine(s[i])}

\* Where the events are that pass the filters.
Wanted(s) == {i \in DOMAIN s : Genuine(s[i]) /\ s[i].post \in Taken}

\* A stable sort by creation, newest first, then the first one of each id.
Newest(s, places) ==
  {i \in places : \A j \in places : s[j].post.id = s[i].post.id =>
     s[j].at < s[i].at \/ (s[j].at = s[i].at /\ i <= j)}

\* Mutant: expiry first, so that an older copy stands in for an expired one.
ExpiryFirst(s) == {s[i] : i \in Newest(s, {j \in Wanted(s) : Live(s[j])})}

Providers(s) == {s[i] : i \in {j \in Newest(s, Wanted(s)) : Live(s[j])}}

----------------------------------------------------------------------------
(* _queryOnce and _queryWithRetry                                          *)

\* The filter is built once, before the first attempt.
Find ==
  /\ find.pc = "idle"
  /\ find' = [find EXCEPT !.pc = "asking", !.attempt = 1, !.since = now - Lookback]
  /\ UNCHANGED <<publishVars, received, closed, held, came>>

\* Mutant: only relays that finished count as an answer.
OnlyFinished(s, ok) == ok # {}

\* One event or one relay that finished is enough.
Enough(s, ok) == ok # {} \/ s # <<>>

\* finish(reasons) and what follows it without a pause.
Conclude(s, ok) ==
  IF Enough(s, ok)
    THEN find' = [find EXCEPT !.pc = "done", !.providers = Providers(s), !.ok = ok, !.at = now]
    ELSE find' = [find EXCEPT !.pc = IF find.attempt < Attempts THEN "pausing" ELSE "threw"]

\* The events that relay r holds and that are recent enough, and those of them
\* that match; the pool drops events it has seen.
Recent(r)   == {e \in {stored[r][i] : i \in Ids} : e # NoEvent /\ e.at >= find.since}
Matching(r) == {e \in Recent(r) : e.post \in Selected}

Unseen(events) == {e \in events : \A i \in DOMAIN received : received[i] # e}

\* Relay r sends `events' and closes; with the last relay the attempt ends.
Close(r, events, reason) ==
  /\ find.pc = "asking"
  /\ closed[r] = "open"
  /\ received' = received \o SetToSeq(Unseen(events))
  /\ came' = came \cup events
  /\ closed' = [closed EXCEPT ![r] = reason]
  /\ IF \E q \in Relays : closed'[q] = "open"
       THEN UNCHANGED find
       ELSE Conclude(received', {q \in Relays : closed'[q] = "eose"})
  /\ UNCHANGED publishVars

\* A relay answers in full.  It may not know these tags and send every recent
\* listing, and there may be noise among its events.
RelayAnswers(r) ==
  /\ \E events \in {Matching(r), Recent(r)}, noise \in {{}, {Noise}} :
       Close(r, events \cup noise, "eose")
  /\ held' = [held EXCEPT ![r] = {e \in Recent(r) : e.post \in Offering}]

\* Or it breaks off after some of them.
RelayBreaks(r) ==
  /\ \E events \in SUBSET Matching(r) : Close(r, events, "broken")
  /\ UNCHANGED held

\* Mutant: the promise has no timer of its own.
NoHardStop == FALSE

\* The timer of _queryOnce: no reasons are known, whichever relays finished.
HardStop ==
  /\ find.pc = "asking"
  /\ Conclude(received, {})
  /\ UNCHANGED <<publishVars, received, closed, held, came>>

\* The back-off is over: the next attempt starts from nothing.
Retry ==
  /\ find.pc = "pausing"
  /\ find' = [find EXCEPT !.pc = "asking", !.attempt = @ + 1]
  /\ received' = <<>>
  /\ closed' = [r \in Relays |-> "open"]
  /\ held' = [r \in Relays |-> {}]
  /\ UNCHANGED <<publishVars, came>>

\* Until the call ends, providers publish and relays take events; what the
\* publishers report of it is left to RelayPublish.
RelaysChange ==
  /\ find.pc \notin {"done", "threw"}
  /\ PublishTick \/ \E c \in Publishes : Publish(c) \/ \E r \in Relays : Accept(c, r)

LQNext ==
  \/ RelaysChange /\ UNCHANGED queryVars
  \/ Find \/ HardStop \/ Retry
  \/ \E r \in Relays : RelayAnswers(r) \/ RelayBreaks(r)

LQSpec == LQInit /\ [][LQNext]_lqVars

\* The timers of the querier run; no relay need ever answer.
LQFairSpec == LQSpec /\ WF_lqVars(HardStop) /\ WF_lqVars(Retry)

----------------------------------------------------------------------------

\* Types; no noise among the providers.
LQTypeOK ==
  /\ PublishTypeOK
  /\ find \in [pc : {"idle", "asking", "pausing", "done", "threw"}, attempt : 0 .. Attempts,
               since : Int, providers : SUBSET Event, ok : SUBSET Relays, at : 0 .. MaxTime]
  /\ received \in Seq(AnyEvent)
  /\ closed \in [Relays -> {"open", "eose", "broken"}]
  /\ held \in [Relays -> SUBSET Event]
  /\ came \in SUBSET AnyEvent

LiveThen(e) == e.at + EffectiveTtl(e.post.ttl) > find.at

\* What came and offers what was asked for.
Fitting == {e \in came \cap Event : e.post \in Offering}

\* A copy at least as new as e is listed, or came, had expired, and keeps the
\* others off the list.
Decided(e) ==
  \/ \E p \in find.providers : p.post.id = e.post.id /\ p.at >= e.at
  \/ /\ ~\E p \in find.providers : p.post.id = e.post.id
     /\ \E d \in Fitting : d.post.id = e.post.id /\ d.at >= e.at /\ ~LiveThen(d)

\* The newest copy decides, over all relays and whatever was published during
\* the query: the list has one copy per id, and misses nothing that a relay held
\* which it reports as "ok", unless a copy at least as new had expired.
NewestDecides ==
  find.pc = "done" =>
    /\ \A e, d \in find.providers : e.post.id = d.post.id => e = d
    /\ \A r \in find.ok : \A e \in held[r] : Decided(e)

\* What is shown offers what was asked for and has not expired, although relays
\* may send more than was asked and the clock went on while they did.
ShownFits ==
  find.pc = "done" => \A p \in find.providers : p.post \in Offering /\ LiveThen(p)

\* Nothing that came is lost to what goes wrong afterwards, a relay that breaks
\* off, the hard stop or another attempt: the call throws only if nothing came in
\* any attempt, and otherwise everything that came is taken into account.
NothingLost ==
  /\ find.pc = "threw" => came = {}
  /\ find.pc = "done" => \A e \in Fitting : Decided(e)

\* The call ends although no relay need ever answer.
FindEnds == find.pc # "idle" ~> find.pc \in {"done", "threw"}
=============================================================================
