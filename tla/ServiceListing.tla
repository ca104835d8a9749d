--------------------------- MODULE ServiceListing ---------------------------
(***************************************************************************)
(* What a listing says and what a wallet asks, without any state.          *)
(* lib/src/publisher.js turns the listing that a provider wrote into the   *)
(* tags of an event; lib/src/querier.js turns the wallet's filters into a  *)
(* filter for the relays, parses the events that come back and tests the   *)
(* filters once more.  Display fields are left out, except the status.     *)
(***************************************************************************)

CONSTANTS
  Codes,  \* country and currency codes, as people type them
  Upper,  \* toUpperCase on them
  Rails   \* VOCAB.rail

ASSUME CodesAssumption == Upper \in [Codes -> Codes]

Absent == "absent"  \* an optional field that is not there

Directions         == {"off-ramp", "on-ramp", "both"}
DefaultServiceType == "currency-exchange"
RailOutRequiredFor == {"currency-exchange", "remittance"}
ServiceTypes       == RailOutRequiredFor \cup {"airtime-data", "bill-payment", "merchant-payment"}
Statuses           == {"active", "inactive", "paused"}
Reasons            == {"out_of_float", "maintenance", "regulatory", "other"}

FilterTags == [country |-> "c", direction |-> "o", service_type |-> "s",
               rail_in |-> "i", rail_out |-> "m", currency |-> "f"]
Fields == DOMAIN FilterTags

\* What a listing and a question can be.
Listing  == [country : Codes, currency : Codes, direction : Directions,
             service_type : ServiceTypes \cup {Absent},
             rail_in : SUBSET Rails, rail_out : SUBSET Rails,
             status : Statuses \cup {Absent}, status_reason : Reasons \cup {Absent}]
Question == [country : Codes \cup {Absent}, currency : Codes \cup {Absent},
             direction : Directions \cup {Absent}, service_type : ServiceTypes \cup {Absent},
             rail_in : Rails \cup {Absent}, rail_out : Rails \cup {Absent}]

Or(value, default) == IF value = Absent THEN default ELSE value

ServiceType(l) == Or(l.service_type, DefaultServiceType)

----------------------------------------------------------------------------
(* publisher.js                                                            *)

\* What buildEvent demands beyond the vocabularies; it throws otherwise.
Accepted(l) ==
  /\ l \in Listing
  /\ l.rail_in # {}
  /\ ServiceType(l) \in RailOutRequiredFor => l.rail_out # {}
  /\ l.status_reason # Absent => l.status = "paused"

\* The tags of the event that buildEvent signs: one for each rail.
Tags(l) ==
  {<<"c", Upper[l.country]>>, <<"f", Upper[l.currency]>>, <<"o", l.direction>>,
   <<"s", ServiceType(l)>>, <<"status", Or(l.status, "active")>>}
  \cup {<<"i", r>> : r \in l.rail_in}
  \cup {<<"m", r>> : r \in l.rail_out}
  \cup {<<"status_reason", s>> : s \in {l.status_reason} \ {Absent}}

----------------------------------------------------------------------------
(* querier.js                                                              *)

Asked(q) == {f \in Fields : q[f] # Absent}

\* _buildFilter: the values of its tag with which field f is satisfied; a
\* service in both directions satisfies each.
Values(q, f) ==
  IF f \in {"country", "currency"} THEN {Upper[q[f]]}
  ELSE {q[f]} \cup (IF f = "direction" THEN {"both"} ELSE {})

\* Outside the library: a relay returns the events with such a tag for every
\* field that was asked.
RelayMatches(tags, q) ==
  \A f \in Asked(q) : \E v \in Values(q, f) : <<FilterTags[f], v>> \in tags

ValuesOf(tags, key) == {t[2] : t \in {u \in tags : u[1] = key}}
Single(tags, key, default) ==
  IF ValuesOf(tags, key) = {} THEN default ELSE CHOOSE v \in ValuesOf(tags, key) : TRUE

\* _parseEvent: a tag written once, first one wins; the rails are lists.
Parsed(tags) ==
  [country       |-> Single(tags, "c", Absent),
   currency      |-> Single(tags, "f", Absent),
   direction     |-> Single(tags, "o", Absent),
   service_type  |-> Single(tags, "s", DefaultServiceType),
   rail_in       |-> ValuesOf(tags, "i"),
   rail_out      |-> ValuesOf(tags, "m"),
   status        |-> Single(tags, "status", Absent),
   status_reason |-> Single(tags, "status_reason", Absent)]

\* The filters of findWithStatus on what was parsed.
ClientMatches(p, q) ==
  /\ q.country # Absent => p.country = Upper[q.country]
  /\ q.direction # Absent => \/ p.direction = q.direction
                             \/ p.direction = "both" /\ q.direction # "both"
  /\ q.service_type # Absent => p.service_type = q.service_type
  /\ q.rail_in # Absent => q.rail_in \in p.rail_in
  /\ q.rail_out # Absent => q.rail_out \in p.rail_out
  /\ q.currency # Absent => p.currency = Upper[q.currency]

----------------------------------------------------------------------------
(* What is meant, independent of tags.                                     *)

\* The listing offers what the question asks for.
Offers(l, q) ==
  /\ q.country # Absent => Upper[l.country] = Upper[q.country]
  /\ q.currency # Absent => Upper[l.currency] = Upper[q.currency]
  /\ l.direction = "both" \/ q.direction \in {l.direction, Absent}
  /\ q.service_type \in {ServiceType(l), Absent}
  /\ q.rail_in \in l.rail_in \cup {Absent}
  /\ q.rail_out \in l.rail_out \cup {Absent}
=============================================================================
