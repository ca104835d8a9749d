---------------------------- MODULE RelayPublish ----------------------------
(***************************************************************************)
(* lib/src/publisher.js and the sending half of lib/src/attestation.js:    *)
(* publish(), vouch() and revoke() send one signed event to every relay at *)
(* once and then await the relays' promises one after the other.  Each     *)
(* call is a process of its own, as the scripts run it; calls with the     *)
(* same key may overlap.  The relays are outside the library: for each id  *)
(* they keep the newest event, and answer, reject or cannot be reached.    *)
(***************************************************************************)
EXTENDS Integers, FiniteSets

CONSTANTS
  RelayCount,  \* relays, numbered as in this.relays
  Publishes,   \* the calls that are ever made
  Posts,       \* what there is to say: records with an id (author, kind and d
               \* tag: what relays replace by), a kind and more
  MaxTime      \* bound: the clock stops here

Relays == 1 .. RelayCount
Ids    == {p.id : p \in Posts}

ASSUME PublishAssumption == /\ RelayCount \in Nat \ {0}
                            /\ \A p \in Posts : {"id", "kind"} \subseteq DOMAIN p
                            /\ MaxTime \in Nat

VARIABLES
  now,       \* Math.floor(Date.now() / 1000)
  event,     \* the signed event of each call, NoEvent before
  outcome,   \* per call and relay: the promise of pool.publish
  accepted,  \* per call and relay: the relay has taken the event
  report,    \* what the call came to: its results, or why there are none
  stored     \* per relay and id: the event the relay holds

publishVars == <<now, event, outcome, accepted, report, stored>>

NoEvent == [at |-> -1]
Event   == [call : Publishes, at : 0 .. MaxTime, post : Posts]

Outcomes == {"unsent", "pending", "ok", "rejected", "connectionFailure"}
Ends     == {"none", "awaiting", "reported", "died"}

PublishInit ==
  /\ now = 0
  /\ event    = [c \in Publishes |-> NoEvent]
  /\ outcome  = [c \in Publishes |-> [r \in Relays |-> "unsent"]]
  /\ accepted = [c \in Publishes |-> {}]
  /\ report   = [c \in Publishes |-> [end |-> "none", success |-> {}]]
  /\ stored   = [r \in Relays |-> [i \in Ids |-> NoEvent]]

\* The event is stamped with the current second and signed.
Publish(c) ==
  /\ report[c].end = "none"
  /\ \E p \in Posts : event' = [event EXCEPT ![c] = [call |-> c, at |-> now, post |-> p]]
  /\ outcome' = [outcome EXCEPT ![c] = [r \in Relays |-> "pending"]]
  /\ report' = [report EXCEPT ![c].end = "awaiting"]
  /\ UNCHANGED <<now, accepted, stored>>

\* A relay takes an event: it replaces an older one with the same id; of two
\* of the same second either may stay.
Accept(c, r) ==
  LET e   == event[c]
      old == stored[r][e.post.id]
  IN /\ outcome[c][r] = "pending"
     /\ r \notin accepted[c]
     /\ accepted' = [accepted EXCEPT ![c] = @ \cup {r}]
     /\ \/ old.at <= e.at /\ stored' = [stored EXCEPT ![r][e.post.id] = e]
        \/ old.at >= e.at /\ UNCHANGED stored
     /\ UNCHANGED <<now, event, outcome, report>>

\* Mutant: a promise that resolves is a success, whatever it resolves to.
Resolved(p, o) == o \in {"ok", "connectionFailure"}

\* What a relay that was not reached resolves to is a failure for publish; vouch
\* and revoke do not look at it.
IsSuccess(p, o) == o = "ok" \/ (o = "connectionFailure" /\ p.kind # "listing")

\* The loop in publish waits for the first relay whose promise is pending: a
\* later one that rejects meanwhile has no handler, and ends the process.
Unhandled(c, r) == \E q \in Relays : q < r /\ outcome[c][q] = "pending"

AllSettled(promises) == \A q \in Relays : promises[q] # "pending"

\* A promise settles, and the loop goes on as far as it can.
Settle(c, r, o) ==
  /\ report[c].end = "awaiting"
  /\ outcome[c][r] = "pending"
  /\ o = "ok" => r \in accepted[c]
  /\ o = "connectionFailure" => r \notin accepted[c]
  /\ outcome' = [outcome EXCEPT ![c][r] = o]
  /\ LET died == o = "rejected" /\ Unhandled(c, r)
         over == AllSettled(outcome'[c])
     IN report' = [report EXCEPT ![c] =
          CASE died -> [@ EXCEPT !.end = "died"]
            [] ~died /\ over -> [end |-> "reported",
                                 success |-> {q \in Relays :
                                              IsSuccess(event[c].post, outcome'[c][q])}]
            [] OTHER -> @]
  /\ UNCHANGED <<now, event, accepted, stored>>

PublishTick == now < MaxTime /\ now' = now + 1
               /\ UNCHANGED <<event, outcome, accepted, report, stored>>

PublishNext ==
  \/ PublishTick
  \/ \E c \in Publishes :
       \/ Publish(c)
       \/ \E r \in Relays : \/ Accept(c, r)
                            \/ \E o \in {"ok", "rejected", "connectionFailure"} : Settle(c, r, o)

PublishSpec == PublishInit /\ [][PublishNext]_publishVars

----------------------------------------------------------------------------

\* Types; a report is complete, it waits for the last relay.
PublishTypeOK ==
  /\ now \in 0 .. MaxTime
  /\ event    \in [Publishes -> Event \cup {NoEvent}]
  /\ outcome  \in [Publishes -> [Relays -> Outcomes]]
  /\ accepted \in [Publishes -> SUBSET Relays]
  /\ report   \in [Publishes -> [end : Ends, success : SUBSET Relays]]
  /\ stored   \in [Relays -> [Ids -> Event \cup {NoEvent}]]
  /\ \A c \in Publishes : report[c].end = "reported" =>
       \A r \in Relays : outcome[c][r] \in {"ok", "rejected", "connectionFailure"}

\* A relay that the report on a listing names as a success holds that listing or a
\* newer one of its id, from the report on, whatever other calls with the same id
\* put in its place: nothing is claimed for a relay that was not reached.
ReportTruthful ==
  \A c \in Publishes : \A r \in report[c].success :
    event[c].post.kind = "listing" => stored[r][event[c].post.id].at >= event[c].at

\* What the quickstart says: the publisher lists which relays accepted the
\* listing and which failed.  It does not when it dies of a rejection.
PublishReports == \A c \in Publishes : report[c].end # "died"
=============================================================================
