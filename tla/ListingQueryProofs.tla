------------------------- MODULE ListingQueryProofs -------------------------
(***************************************************************************)
(* Proofs about ServiceListing, for every set of codes and rails, and      *)
(* about ListingQuery, for any number of relays, calls, attempts and times *)
(* to live, whatever is published and whatever is asked for.               *)
(***************************************************************************)
EXTENDS ListingQuery, RelayPublishProofs, SequenceTheorems

----------------------------------------------------------------------------
(* Listings and questions                                                  *)

\* Which values each tag of a listing has.
LEMMA TagValues ==
  ASSUME NEW l, Accepted(l)
  PROVE  /\ ValuesOf(Tags(l), "c") = {Upper[l.country]}
         /\ ValuesOf(Tags(l), "f") = {Upper[l.currency]}
         /\ ValuesOf(Tags(l), "o") = {l.direction}
         /\ ValuesOf(Tags(l), "s") = {ServiceType(l)}
         /\ ValuesOf(Tags(l), "status") = {Or(l.status, "active")}
         /\ ValuesOf(Tags(l), "i") = l.rail_in
         /\ ValuesOf(Tags(l), "m") = l.rail_out
         /\ ValuesOf(Tags(l), "status_reason") = {l.status_reason} \ {Absent}
<1>1. ASSUME NEW k, NEW v PROVE v \in ValuesOf(Tags(l), k) <=> <<k, v>> \in Tags(l)
  <2>1. ASSUME NEW t \in Tags(l) PROVE t = <<t[1], t[2]>>
    BY DEF Tags
  <2> QED BY <2>1 DEF ValuesOf
<1>2. ASSUME NEW k, NEW v
      PROVE <<k, v>> \in Tags(l) <=>
        \/ k = "c" /\ v = Upper[l.country]
        \/ k = "f" /\ v = Upper[l.currency]
        \/ k = "o" /\ v = l.direction
        \/ k = "s" /\ v = ServiceType(l)
        \/ k = "status" /\ v = Or(l.status, "active")
        \/ k = "i" /\ v \in l.rail_in
        \/ k = "m" /\ v \in l.rail_out
        \/ k = "status_reason" /\ v \in {l.status_reason} \ {Absent}
  BY DEF Tags
<1>3. ASSUME NEW k, NEW v
      PROVE v \in ValuesOf(Tags(l), k) <=>
        \/ k = "c" /\ v = Upper[l.country]
        \/ k = "f" /\ v = Upper[l.currency]
        \/ k = "o" /\ v = l.direction
        \/ k = "s" /\ v = ServiceType(l)
        \/ k = "status" /\ v = Or(l.status, "active")
        \/ k = "i" /\ v \in l.rail_in
        \/ k = "m" /\ v \in l.rail_out
        \/ k = "status_reason" /\ v \in {l.status_reason} \ {Absent}
  BY <1>1, <1>2
<1>4. ValuesOf(Tags(l), "c") = {Upper[l.country]}
  <2>1. ASSUME NEW v PROVE v \in ValuesOf(Tags(l), "c") <=> v \in {Upper[l.country]}
    BY <1>3
  <2> QED BY <2>1
<1>5. ValuesOf(Tags(l), "f") = {Upper[l.currency]}
  <2>1. ASSUME NEW v PROVE v \in ValuesOf(Tags(l), "f") <=> v \in {Upper[l.currency]}
    BY <1>3
  <2> QED BY <2>1
<1>6. ValuesOf(Tags(l), "o") = {l.direction}
  <2>1. ASSUME NEW v PROVE v \in ValuesOf(Tags(l), "o") <=> v \in {l.direction}
    BY <1>3
  <2> QED BY <2>1
<1>7. ValuesOf(Tags(l), "s") = {ServiceType(l)}
  <2>1. ASSUME NEW v PROVE v \in ValuesOf(Tags(l), "s") <=> v \in {ServiceType(l)}
    BY <1>3
  <2> QED BY <2>1
<1>8. ValuesOf(Tags(l), "status") = {Or(l.status, "active")}
  <2>1. ASSUME NEW v PROVE v \in ValuesOf(Tags(l), "status") <=> v \in {Or(l.status, "active")}
    BY <1>3
  <2> QED BY <2>1
<1>9. ValuesOf(Tags(l), "i") = l.rail_in
  <2>1. ASSUME NEW v PROVE v \in ValuesOf(Tags(l), "i") <=> v \in l.rail_in
    BY <1>3
  <2> QED BY <2>1
<1>10. ValuesOf(Tags(l), "m") = l.rail_out
  <2>1. ASSUME NEW v PROVE v \in ValuesOf(Tags(l), "m") <=> v \in l.rail_out
    BY <1>3
  <2> QED BY <2>1
<1>11. ValuesOf(Tags(l), "status_reason") = {l.status_reason} \ {Absent}
  <2>1. ASSUME NEW v
        PROVE v \in ValuesOf(Tags(l), "status_reason") <=> v \in {l.status_reason} \ {Absent}
    BY <1>3
  <2> QED BY <2>1
<1> QED BY <1>4, <1>5, <1>6, <1>7, <1>8, <1>9, <1>10, <1>11

\* What _parseEvent makes of an event is what buildEvent was given: the codes in
\* upper case and the defaults filled in.
THEOREM ParsedBack ==
  ASSUME NEW l, Accepted(l)
  PROVE  Parsed(Tags(l)) =
           [country |-> Upper[l.country], currency |-> Upper[l.currency],
            direction |-> l.direction, service_type |-> ServiceType(l),
            rail_in |-> l.rail_in, rail_out |-> l.rail_out,
            status |-> Or(l.status, "active"), status_reason |-> l.status_reason]
<1>1. /\ Single(Tags(l), "c", Absent) = Upper[l.country]
      /\ Single(Tags(l), "f", Absent) = Upper[l.currency]
      /\ Single(Tags(l), "o", Absent) = l.direction
      /\ Single(Tags(l), "s", DefaultServiceType) = ServiceType(l)
      /\ Single(Tags(l), "status", Absent) = Or(l.status, "active")
  <2>1. Single(Tags(l), "c", Absent) = Upper[l.country] BY TagValues DEF Single
  <2>2. Single(Tags(l), "f", Absent) = Upper[l.currency] BY TagValues DEF Single
  <2>3. Single(Tags(l), "o", Absent) = l.direction BY TagValues DEF Single
  <2>4. Single(Tags(l), "s", DefaultServiceType) = ServiceType(l) BY TagValues DEF Single
  <2>5. Single(Tags(l), "status", Absent) = Or(l.status, "active") BY TagValues DEF Single
  <2> QED BY <2>1, <2>2, <2>3, <2>4, <2>5
<1>2. Single(Tags(l), "status_reason", Absent) = l.status_reason
  <2>1. CASE l.status_reason = Absent
    <3>1. ValuesOf(Tags(l), "status_reason") = {} BY <2>1, TagValues
    <3> QED BY <2>1, <3>1 DEF Single
  <2>2. CASE l.status_reason # Absent
    <3>1. ValuesOf(Tags(l), "status_reason") = {l.status_reason} BY <2>2, TagValues
    <3> QED BY <3>1 DEF Single
  <2> QED BY <2>1, <2>2
<1> QED BY <1>1, <1>2, TagValues DEF Parsed

\* A relay that applies the filter of _buildFilter returns the event exactly if
\* its listing offers what the wallet asked for.
THEOREM RelayFinds ==
  ASSUME NEW l, Accepted(l), NEW q \in Question
  PROVE  RelayMatches(Tags(l), q) <=> Offers(l, q)
<1> DEFINE Found(f) == q[f] # Absent => \E v \in Values(q, f) : <<FilterTags[f], v>> \in Tags(l)
<1>1. RelayMatches(Tags(l), q) <=>
        /\ Found("country") /\ Found("currency") /\ Found("direction")
        /\ Found("service_type") /\ Found("rail_in") /\ Found("rail_out")
  BY DEF RelayMatches, Asked, Fields, FilterTags
<1>2. ASSUME NEW k, NEW v PROVE <<k, v>> \in Tags(l) <=> v \in ValuesOf(Tags(l), k)
  <2>1. ASSUME NEW t \in Tags(l) PROVE t = <<t[1], t[2]>>
    BY DEF Tags
  <2> QED BY <2>1 DEF ValuesOf
<1>3. Found("country") <=> (q.country # Absent => Upper[l.country] = Upper[q.country])
  BY <1>2, TagValues, ZenonT(60) DEF Values, FilterTags
<1>4. Found("currency") <=> (q.currency # Absent => Upper[l.currency] = Upper[q.currency])
  BY <1>2, TagValues, ZenonT(60) DEF Values, FilterTags
<1>5. Found("direction") <=> l.direction = "both" \/ q.direction \in {l.direction, Absent}
  BY <1>2, TagValues, ZenonT(60) DEF Values, FilterTags
<1>6. Found("service_type") <=> q.service_type \in {ServiceType(l), Absent}
  <2>1. ValuesOf(Tags(l), "s") = {ServiceType(l)} BY TagValues
  <2>2. Values(q, "service_type") = {q.service_type} BY DEF Values
  <2> QED BY <1>2, <2>1, <2>2 DEF FilterTags
<1>9. ValuesOf(Tags(l), "i") = l.rail_in /\ ValuesOf(Tags(l), "m") = l.rail_out
  BY TagValues
<1>7. Found("rail_in") <=> q.rail_in \in l.rail_in \cup {Absent}
  BY <1>2, <1>9 DEF Values, FilterTags
<1>8. Found("rail_out") <=> q.rail_out \in l.rail_out \cup {Absent}
  BY <1>2, <1>9 DEF Values, FilterTags
<1> HIDE DEF Found
<1> QED BY <1>1, <1>3, <1>4, <1>5, <1>6, <1>7, <1>8 DEF Offers

\* The test that findWithStatus repeats on what it parsed decides alike, so no
\* listing that a relay returned for the question is dropped again, and none
\* that an overeager relay sends is let through.
THEOREM ClientFinds ==
  ASSUME NEW l, Accepted(l), NEW q \in Question
  PROVE  ClientMatches(Parsed(Tags(l)), q) <=> Offers(l, q)
<1>1. q.direction \in Directions \cup {Absent} /\ l.direction \in Directions
  BY DEF Accepted, Listing, Question
<1>2. ClientMatches(Parsed(Tags(l)), q) <=>
        /\ q.country # Absent => Upper[l.country] = Upper[q.country]
        /\ q.direction # Absent => \/ l.direction = q.direction
                                   \/ l.direction = "both" /\ q.direction # "both"
        /\ q.service_type # Absent => ServiceType(l) = q.service_type
        /\ q.rail_in # Absent => q.rail_in \in l.rail_in
        /\ q.rail_out # Absent => q.rail_out \in l.rail_out
        /\ q.currency # Absent => Upper[l.currency] = Upper[q.currency]
  BY ParsedBack DEF ClientMatches
<1> QED BY <1>1, <1>2 DEF Offers

----------------------------------------------------------------------------
(* The call: the inductive invariant                                       *)

\* What a relay that answered held, as far as it was wanted, came.
HeldCame == \A r \in Relays : held[r] \subseteq Fitting

\* The list that was returned is the one that the events then received make.
Listed ==
  find.pc = "done" =>
    find.providers = {received[i] : i \in {j \in Newest(received, Wanted(received)) :
                                             LiveThen(received[j])}}

\* An attempt that is not the last word brought nothing, so that all that ever
\* came is what this one received.
NothingYet ==
  /\ find.pc \in {"idle", "pausing", "threw"} => received = <<>>
  /\ came = {received[i] : i \in DOMAIN received}
  /\ find.pc = "pausing" => find.attempt < Attempts

LQInv == Inv /\ LQTypeOK /\ HeldCame /\ Listed /\ NothingYet

FindType == [pc : {"idle", "asking", "pausing", "done", "threw"}, attempt : 0 .. Attempts,
             since : Int, providers : SUBSET Event, ok : SUBSET Relays, at : 0 .. MaxTime]

----------------------------------------------------------------------------
(* Sets, sequences and events                                              *)

\* What SetToSeq returns for a finite set.
LEMMA AllListed ==
  ASSUME NEW S, IsFiniteSet(S)
  PROVE  /\ SetToSeq(S) \in Seq(S)
         /\ \A x \in S : \E i \in DOMAIN SetToSeq(S) : SetToSeq(S)[i] = x
<1> DEFINE n == Cardinality(S)
<1>1. n \in Nat
  BY FS_CardinalityType
<1>2. \E f \in [1 .. n -> S] : IsInjective(f)
  <2>1. \E f : f \in Bijection(1 .. n, S)
    BY FS_CardinalityType DEF ExistsBijection
  <2> QED BY <2>1 DEF Bijection, Injection
<1>3. SetToSeq(S) \in [1 .. n -> S] /\ IsInjective(SetToSeq(S))
  BY <1>2 DEF SetToSeq
<1>4. SetToSeq(S) \in Injection(1 .. n, S)
  BY <1>3 DEF Injection
<1>5. Cardinality(1 .. n) = n
  BY <1>1, FS_Interval
<1>6. SetToSeq(S) \in Surjection(1 .. n, S)
  BY <1>4, <1>5, FS_Injection
<1> QED BY <1>1, <1>3, <1>6 DEF Surjection

\* Of events with bounded times some are the newest, and one of these came first.
LEMMA NewestExists ==
  ASSUME NEW s, NEW J \in SUBSET Nat, J # {}, \A i \in J : s[i].at \in 0 .. MaxTime
  PROVE  \E j \in J : \A i \in J : s[i].at < s[j].at \/ (s[i].at = s[j].at /\ j <= i)
<1>1. PICK a \in J : \A i \in J : s[i].at <= s[a].at
  <2> DEFINE E == {s[i] : i \in J}
  <2>1. E # {} /\ \A e \in E : e.at \in 0 .. MaxTime
    OBVIOUS
  <2>2. PICK e \in E : \A d \in E : d.at <= e.at
    <3> HIDE DEF E
    <3> QED BY <2>1, LatestExists
  <2> QED BY <2>2
<1> DEFINE K == {i \in J : s[i].at = s[a].at}
<1>2. PICK j \in K : \A i \in K : j <= i
  <2>1. K \in SUBSET Nat /\ K # {}
    OBVIOUS
  <2> HIDE DEF K
  <2> QED BY <2>1, LeastNat
<1>3. ASSUME NEW i \in J PROVE s[i].at < s[j].at \/ (s[i].at = s[j].at /\ j <= i)
  BY <1>1, <1>2, PublishAssumption
<1> QED BY <1>2, <1>3

\* The two filters take exactly the posts that offer what is asked for.
LEMMA FiltersAgree == Selected = Offering /\ Taken = Offering
<1>1. \A p \in Posts : Accepted(p.listing) /\ AskedFor \in Question
  BY QueryAssumption
<1> QED BY <1>1, RelayFinds, ClientFinds DEF Selected, Taken, Offering

\* What is genuine among the events that came.
LEMMA GenuineFacts ==
  ASSUME NEW s \in Seq(AnyEvent), NEW i \in DOMAIN s
  PROVE  /\ Genuine(s[i]) => s[i] \in Event
         /\ s[i] \in Event => Genuine(s[i])
         /\ s[i] \in Event => s[i].at \in 0 .. MaxTime
<1>1. s[i] \in AnyEvent
  OBVIOUS
<1>2. \A e \in Event : e.call \in Publishes /\ e.at \in 0 .. MaxTime
  BY DEF Event
<1>3. Noise.call = "noise"
  BY DEF Noise
<1> QED BY <1>1, <1>2, <1>3, QueryAssumption DEF AnyEvent, Genuine

\* What a relay can send.
LEMMA RecentFacts ==
  ASSUME LQInv, NEW r \in Relays
  PROVE  IsFiniteSet(Recent(r)) /\ Recent(r) \subseteq Event
<1>1. Recent(r) \subseteq {stored[r][i] : i \in Ids} \ {NoEvent}
  BY DEF Recent
<1> QED BY <1>1, HeldFacts, FS_Subset DEF LQInv

----------------------------------------------------------------------------
(* The steps                                                               *)

\* Initially nothing is asked and nothing is held.
LEMMA QueryInitInv == LQInit => LQInv
<1> SUFFICES ASSUME LQInit PROVE LQInv
  OBVIOUS
<1>1. Inv
  BY PublishInitInv DEF LQInit
<1>2. LQTypeOK
  <2>1. find \in FindType
    BY QueryAssumption, PublishAssumption DEF LQInit, QueryInit, FindType
  <2>2. received \in Seq(AnyEvent)
    BY DEF LQInit, QueryInit
  <2> QED BY <1>1, <2>1, <2>2 DEF LQInit, QueryInit, LQTypeOK, FindType, Inv
<1>3. HeldCame /\ Listed /\ NothingYet
  BY DEF LQInit, QueryInit, HeldCame, Fitting, Listed, NothingYet
<1> QED BY <1>1, <1>2, <1>3 DEF LQInv

\* Providers publish and relays take events, until the call ends.
LEMMA RelaysChangeStep ==
  ASSUME LQInv, RelaysChange, UNCHANGED queryVars
  PROVE  LQInv'
<1>1. Inv'
  BY PublishStepInv DEF LQInv, RelaysChange, PublishNext
<1>2. LQTypeOK'
  BY <1>1 DEF LQInv, LQTypeOK, Inv, queryVars
<1>3. HeldCame' /\ NothingYet'
  BY DEF LQInv, HeldCame, Fitting, NothingYet, queryVars
<1>4. Listed'
  BY DEF RelaysChange, Listed, queryVars
<1> QED BY <1>1, <1>2, <1>3, <1>4 DEF LQInv

\* How an attempt ends.
LEMMA ConcludeFacts ==
  ASSUME LQInv, find.pc = "asking", NEW s \in Seq(AnyEvent), NEW ok \in SUBSET Relays,
         Conclude(s, ok)
  PROVE  /\ find' \in FindType
         /\ \/ /\ find'.pc = "done" /\ Enough(s, ok)
               /\ find'.ok = ok /\ find'.at = now /\ find'.providers = Providers(s)
            \/ /\ find'.pc \in {"pausing", "threw"} /\ ~Enough(s, ok)
               /\ find'.pc = "pausing" => find'.attempt < Attempts
<1>1. find \in FindType /\ now \in 0 .. MaxTime
  BY DEF LQInv, LQTypeOK, PublishTypeOK, FindType
<1>2. Providers(s) \subseteq Event
  BY GenuineFacts DEF Providers, Newest, Wanted
<1>3. CASE Enough(s, ok)
  BY <1>1, <1>2, <1>3 DEF Conclude, FindType
<1>4. CASE ~Enough(s, ok)
  BY <1>1, <1>4 DEF Conclude, FindType
<1> QED BY <1>3, <1>4

\* What the invariant says of a call whose attempt has just ended.
LEMMA ConcludeStep ==
  ASSUME LQInv, find.pc = "asking", NEW ok \in SUBSET Relays, received' \in Seq(AnyEvent),
         Conclude(received', ok), came' = {received'[i] : i \in DOMAIN received'}
  PROVE  find' \in FindType /\ Listed' /\ NothingYet'
<1>1. PICK s \in Seq(AnyEvent) : s = received'
  OBVIOUS
<1>2. Conclude(s, ok)
  BY <1>1 DEF Conclude, Enough
<1>3. /\ find' \in FindType
      /\ \/ /\ find'.pc = "done" /\ Enough(s, ok)
            /\ find'.ok = ok /\ find'.at = now /\ find'.providers = Providers(s)
         \/ /\ find'.pc \in {"pausing", "threw"} /\ ~Enough(s, ok)
            /\ find'.pc = "pausing" => find'.attempt < Attempts
  BY <1>2, ConcludeFacts
<1>4. Listed'
  <2> SUFFICES ASSUME find'.pc = "done"
               PROVE  find'.providers = {s[i] : i \in {j \in Newest(s, Wanted(s)) :
                                                          LiveThen(s[j])'}}
    BY <1>1 DEF Listed, LiveThen
  <2>1. \A j : LiveThen(s[j])' <=> Live(s[j])
    BY <1>3 DEF Live, LiveThen
  <2> QED BY <1>3, <2>1 DEF Providers
<1>5. NothingYet'
  BY <1>1, <1>3 DEF NothingYet, Enough
<1> QED BY <1>3, <1>4, <1>5

\* A relay that closes, after it has sent `events'.
LEMMA CloseStep ==
  ASSUME LQInv, NEW r \in Relays, NEW events \in SUBSET AnyEvent, IsFiniteSet(events),
         NEW reason \in {"eose", "broken"}, Close(r, events, reason),
         held' \in [Relays -> SUBSET Event],
         \A q \in Relays : \A e \in held'[q] :
           e \in held[q] \/ (e \in events \cap Event /\ e.post \in Offering)
  PROVE  LQInv'
<1> DEFINE fresh == SetToSeq(Unseen(events))
<1>unseen. /\ Unseen(events) \in SUBSET AnyEvent
          /\ Unseen(events) \subseteq events
          /\ IsFiniteSet(Unseen(events))
  <2>1. Unseen(events) \subseteq events
    BY DEF Unseen
  <2> QED BY <2>1, FS_Subset
<1>listed. \A e \in Unseen(events) : \E i \in DOMAIN fresh : fresh[i] = e
  BY <1>unseen, AllListed
<1>1. fresh \in Seq(AnyEvent) /\ \A i \in DOMAIN fresh : fresh[i] \in events
  <2>1. fresh \in Seq(Unseen(events))
    BY <1>unseen, AllListed
  <2> HIDE DEF fresh
  <2>2. \A i \in DOMAIN fresh : fresh[i] \in Unseen(events)
    BY <2>1
  <2>3. fresh \in Seq(AnyEvent)
    BY <1>unseen, <2>1, SeqMonotonic
  <2> QED BY <1>unseen, <2>2, <2>3
<1>2. received \in Seq(AnyEvent) /\ received' = received \o fresh
  BY DEF Close, LQInv, LQTypeOK
<1> HIDE DEF fresh
<1>3. received' \in Seq(AnyEvent)
  BY <1>1, <1>2
<1>4. \A i \in DOMAIN received : i \in DOMAIN received' /\ received'[i] = received[i]
  BY <1>1, <1>2
<1>5. \A e \in events : \E i \in DOMAIN received' : received'[i] = e
  <2> SUFFICES ASSUME NEW e \in events PROVE \E i \in DOMAIN received' : received'[i] = e
    OBVIOUS
  <2>1. CASE e \in Unseen(events)
    <3>1. PICK i \in DOMAIN fresh : fresh[i] = e
      BY <1>listed, <2>1, Zenon
    <3>2. Len(received) + i \in DOMAIN received' /\ received'[Len(received) + i] = fresh[i]
      BY <1>1, <1>2
    <3> QED BY <3>1, <3>2
  <2>2. CASE e \notin Unseen(events)
    BY <1>4, <2>2 DEF Unseen
  <2> QED BY <2>1, <2>2
<1>6. HeldCame'
  <2>1. came' = came \cup events
    BY DEF Close
  <2> SUFFICES ASSUME NEW q \in Relays, NEW e \in held'[q]
               PROVE  e \in Event /\ e \in came' /\ e.post \in Offering
    BY DEF HeldCame, Fitting
  <2>2. CASE e \in held[q]
    BY <2>1, <2>2 DEF LQInv, HeldCame, Fitting
  <2>3. CASE e \in events \cap Event /\ e.post \in Offering
    BY <2>1, <2>3
  <2> QED BY <2>2, <2>3
<1>7. came' = {received'[i] : i \in DOMAIN received'}
  <2>1. came = {received[i] : i \in DOMAIN received} /\ came' = came \cup events
    BY DEF LQInv, NothingYet, Close
  <2>2. \A e \in came' : \E i \in DOMAIN received' : received'[i] = e
    BY <1>4, <1>5, <2>1
  <2>3. ASSUME NEW i \in DOMAIN received' PROVE received'[i] \in came'
    <3>1. CASE i \in DOMAIN received
      BY <1>4, <2>1, <3>1
    <3>2. CASE i \notin DOMAIN received
      <4>1. i - Len(received) \in DOMAIN fresh /\ received'[i] = fresh[i - Len(received)]
        BY <1>1, <1>2, <3>2
      <4> QED BY <1>1, <2>1, <4>1
    <3> QED BY <3>1, <3>2
  <2> QED BY <2>2, <2>3
<1>8. find' \in FindType /\ Listed' /\ NothingYet'
  <2>1. CASE UNCHANGED find
    BY <1>7, <2>1 DEF Close, LQInv, LQTypeOK, FindType, Listed, NothingYet
  <2>2. CASE Conclude(received', {q \in Relays : closed'[q] = "eose"})
    <3>1. {q \in Relays : closed'[q] = "eose"} \in SUBSET Relays
      OBVIOUS
    <3>2. find.pc = "asking"
      BY DEF Close
    <3> QED BY <1>3, <1>7, <2>2, <3>1, <3>2, ConcludeStep
  <2> QED BY <2>1, <2>2 DEF Close
<1>9. Inv'
  <2>1. UNCHANGED publishVars
    BY DEF Close
  <2> QED BY <2>1, PublishStepInv DEF LQInv, publishVars
<1>10. LQTypeOK'
  BY <1>3, <1>8, <1>9 DEF Close, LQInv, LQTypeOK, FindType, Inv
<1> QED BY <1>6, <1>8, <1>9, <1>10 DEF LQInv

\* A relay that answers in full, with or without noise.
LEMMA RelayAnswersStep ==
  ASSUME LQInv, NEW r \in Relays, RelayAnswers(r)
  PROVE  LQInv'
<1>1. PICK sent \in {Matching(r), Recent(r)}, noise \in {{}, {Noise}} :
         Close(r, sent \cup noise, "eose")
  BY DEF RelayAnswers
<1> DEFINE events == sent \cup noise
<1>2. Matching(r) \subseteq Recent(r) /\ sent \subseteq Recent(r)
  BY DEF Matching
<1>3. events \in SUBSET AnyEvent
  BY <1>2, RecentFacts DEF AnyEvent
<1>4. IsFiniteSet(events)
  <2>1. IsFiniteSet(sent \cup {Noise})
    BY <1>2, RecentFacts, FS_Subset, FS_AddElement
  <2> QED BY <2>1, FS_Subset
<1>5. held' = [held EXCEPT ![r] = {e \in Recent(r) : e.post \in Offering}]
  BY DEF RelayAnswers
<1>6. held' \in [Relays -> SUBSET Event]
  BY <1>5, RecentFacts DEF LQInv, LQTypeOK
<1>7. \A e \in Recent(r) : e.post \in Offering => e \in sent
  BY FiltersAgree DEF Matching
<1>8. \A q \in Relays : \A e \in held'[q] :
        e \in held[q] \/ (e \in events \cap Event /\ e.post \in Offering)
  BY <1>5, <1>7, RecentFacts DEF LQInv, LQTypeOK
<1>9. Close(r, events, "eose")
  BY <1>1
<1> HIDE DEF events
<1> QED BY <1>3, <1>4, <1>6, <1>8, <1>9, CloseStep

\* A relay that breaks off.
LEMMA RelayBreaksStep ==
  ASSUME LQInv, NEW r \in Relays, RelayBreaks(r)
  PROVE  LQInv'
<1>1. PICK events \in SUBSET Matching(r) : Close(r, events, "broken")
  BY DEF RelayBreaks
<1>2. events \subseteq Recent(r)
  BY DEF Matching
<1>3. events \in SUBSET AnyEvent /\ IsFiniteSet(events)
  BY <1>2, RecentFacts, FS_Subset DEF AnyEvent
<1>4. held' = held /\ held \in [Relays -> SUBSET Event]
  BY DEF RelayBreaks, LQInv, LQTypeOK
<1> QED BY <1>1, <1>3, <1>4, CloseStep

\* The call begins, its timer ends an attempt, or the next one begins.
LEMMA TimerStep ==
  ASSUME LQInv, Find \/ HardStop \/ Retry
  PROVE  LQInv'
<1>1. UNCHANGED publishVars
  BY DEF Find, HardStop, Retry
<1>2. Inv'
  BY <1>1, PublishStepInv DEF LQInv, publishVars
<1>3. find \in FindType /\ now \in Int
  BY PublishAssumption DEF LQInv, LQTypeOK, FindType, PublishTypeOK
<1>4. CASE Find
  <2>1. find' \in FindType
    <3>1. 1 \in 0 .. Attempts /\ now - Lookback \in Int
      BY <1>3, QueryAssumption
    <3> QED BY <1>3, <1>4, <3>1 DEF Find, FindType
  <2>2. LQTypeOK'
    BY <1>2, <1>4, <2>1 DEF Find, LQInv, LQTypeOK, FindType, Inv
  <2>3. find'.pc = "asking"
    BY <1>3, <1>4 DEF Find, FindType
  <2>4. HeldCame' /\ Listed' /\ NothingYet'
    BY <1>4, <2>3 DEF Find, LQInv, HeldCame, Fitting, Listed, NothingYet
  <2> QED BY <1>2, <2>2, <2>4 DEF LQInv
<1>5. CASE HardStop
  <2>1. received' = received /\ received \in Seq(AnyEvent) /\ came' = came
    BY <1>5 DEF HardStop, LQInv, LQTypeOK
  <2>2. find' \in FindType /\ Listed' /\ NothingYet'
    <3>1. Conclude(received', {})
      BY <1>5, <2>1 DEF HardStop
    <3>2. came' = {received'[i] : i \in DOMAIN received'}
      BY <2>1 DEF LQInv, NothingYet
    <3>3. find.pc = "asking"
      BY <1>5 DEF HardStop
    <3> QED BY <2>1, <3>1, <3>2, <3>3, ConcludeStep
  <2>3. LQTypeOK'
    BY <1>2, <1>5, <2>2 DEF HardStop, LQInv, LQTypeOK, FindType, Inv
  <2>4. HeldCame'
    BY <1>5 DEF HardStop, LQInv, HeldCame, Fitting
  <2> QED BY <1>2, <2>2, <2>3, <2>4 DEF LQInv
<1>6. CASE Retry
  <2>1. find.pc = "pausing" /\ find.attempt < Attempts /\ came = {}
    BY <1>6 DEF Retry, LQInv, NothingYet
  <2>2. find' \in FindType /\ find'.pc = "asking"
    <3>1. find.attempt + 1 \in 0 .. Attempts
      BY <1>3, <2>1, QueryAssumption DEF FindType
    <3> QED BY <1>3, <1>6, <3>1 DEF Retry, FindType
  <2>3. LQTypeOK'
    BY <1>2, <1>6, <2>2 DEF Retry, LQInv, LQTypeOK, FindType, Inv
  <2>4. HeldCame' /\ Listed' /\ NothingYet'
    BY <1>6, <2>1, <2>2 DEF Retry, HeldCame, Fitting, Listed, NothingYet
  <2> QED BY <1>2, <2>3, <2>4 DEF LQInv
<1> QED BY <1>4, <1>5, <1>6

\* Every step keeps the invariant.
LEMMA QueryStepInv == LQInv /\ [LQNext]_lqVars => LQInv'
<1> SUFFICES ASSUME LQInv, [LQNext]_lqVars PROVE LQInv'
  OBVIOUS
<1>1. CASE UNCHANGED lqVars
  <2>1. UNCHANGED publishVars
    BY <1>1 DEF lqVars
  <2>2. Inv'
    BY <2>1, PublishStepInv DEF LQInv, publishVars
  <2>3. LQTypeOK'
    BY <1>1, <2>2 DEF lqVars, queryVars, LQInv, LQTypeOK, Inv
  <2>4. HeldCame' /\ NothingYet'
    BY <1>1 DEF lqVars, queryVars, LQInv, HeldCame, Fitting, NothingYet
  <2>5. Listed'
    BY <1>1 DEF lqVars, queryVars, LQInv, Listed, LiveThen
  <2> QED BY <2>2, <2>3, <2>4, <2>5 DEF LQInv
<1> QED BY <1>1, RelaysChangeStep, RelayAnswersStep, RelayBreaksStep, TimerStep DEF LQNext

\* The invariant holds in every reachable state.
THEOREM QueryInvHolds == LQSpec => []LQInv
  BY QueryInitInv, QueryStepInv, PTL DEF LQSpec

----------------------------------------------------------------------------
(* What it is worth                                                        *)

\* The types, and that nothing forged, denied or malformed is ever returned.
THEOREM QueryTypeCorrect == LQSpec => []LQTypeOK
<1>1. LQInv => LQTypeOK
  BY DEF LQInv
<1> QED BY <1>1, QueryInvHolds, PTL

\* One copy of an id is the newest and first.
LEMMA OneNewest ==
  ASSUME LQInv, NEW i \in Newest(received, Wanted(received)),
         NEW j \in Newest(received, Wanted(received)), received[i].post.id = received[j].post.id
  PROVE  i = j
<1>1. received \in Seq(AnyEvent) /\ i \in Wanted(received) /\ j \in Wanted(received)
  BY DEF LQInv, LQTypeOK, Newest
<1>2. i \in Nat /\ j \in Nat /\ received[i].at \in Int /\ received[j].at \in Int
  <2>1. i \in DOMAIN received /\ j \in DOMAIN received /\ DOMAIN received \subseteq Nat
    BY <1>1 DEF Wanted
  <2>2. received[i].at \in 0 .. MaxTime /\ received[j].at \in 0 .. MaxTime
    BY <1>1, <2>1, GenuineFacts DEF Wanted
  <2> QED BY <2>1, <2>2, PublishAssumption
<1>3. received[j].at < received[i].at \/ (received[j].at = received[i].at /\ i <= j)
  BY <1>1 DEF Newest
<1>4. received[i].at < received[j].at \/ (received[i].at = received[j].at /\ j <= i)
  BY <1>1 DEF Newest
<1> QED BY <1>2, <1>3, <1>4

\* Whatever came and fits is decided by the newest copy that did.
LEMMA CameIsDecided ==
  ASSUME LQInv, find.pc = "done", NEW e \in Fitting
  PROVE  Decided(e)
<1> DEFINE W == Wanted(received)
           N == Newest(received, W)
           J == {j \in W : received[j].post.id = e.post.id}
<1>1. received \in Seq(AnyEvent) /\ W \subseteq DOMAIN received /\ DOMAIN received \subseteq Nat
      /\ came = {received[i] : i \in DOMAIN received}
  BY DEF LQInv, LQTypeOK, Wanted, NothingYet
<1>2. find.providers = {received[i] : i \in {j \in N : LiveThen(received[j])}}
  BY DEF LQInv, Listed
<1>3. \A i \in W : /\ received[i] \in Fitting
                  /\ received[i].at \in 0 .. MaxTime
  BY <1>1, GenuineFacts, FiltersAgree DEF Wanted, Fitting
<1>4. PICK i \in DOMAIN received : received[i] = e /\ e \in Event /\ e.post \in Offering
  BY <1>1 DEF Fitting
<1>5. i \in J
  BY <1>1, <1>4, GenuineFacts, FiltersAgree DEF Wanted
<1>6. J \in SUBSET Nat /\ \A j \in J : received[j].at \in 0 .. MaxTime
  BY <1>1, <1>3
<1>7. PICK j \in J : \A k \in J : received[k].at < received[j].at
                                  \/ (received[k].at = received[j].at /\ j <= k)
  <2> HIDE DEF J
  <2> QED BY <1>5, <1>6, NewestExists
<1>8. j \in N /\ received[j].post.id = e.post.id /\ received[j] \in Fitting
  BY <1>3, <1>7 DEF Newest
<1>9. received[j].at >= e.at
  BY <1>4, <1>5, <1>6, <1>7, PublishAssumption
<1>10. CASE LiveThen(received[j])
  BY <1>2, <1>8, <1>9, <1>10 DEF Decided
<1>11. CASE ~LiveThen(received[j])
  <2>1. ~\E p \in find.providers : p.post.id = e.post.id
    BY <1>2, <1>8, <1>11, OneNewest
  <2> QED BY <1>8, <1>9, <1>11, <2>1 DEF Decided
<1> QED BY <1>10, <1>11

\* Of each id the newest copy that passed the filters decides, over all relays:
\* whether it is listed or, expired, keeps the others off the list
\* (findWithStatus).
THEOREM NewestCopyDecides == LQSpec => []NewestDecides
<1>1. ASSUME LQInv PROVE NewestDecides
  <2> SUFFICES ASSUME find.pc = "done" PROVE NewestDecides
    BY DEF NewestDecides
  <2>1. \A e, d \in find.providers : e.post.id = d.post.id => e = d
    BY <1>1, OneNewest DEF LQInv, Listed
  <2>2. ASSUME NEW r \in find.ok, NEW e \in held[r] PROVE Decided(e)
    <3>1. r \in Relays
      BY <1>1 DEF LQInv, LQTypeOK
    <3>2. e \in Fitting
      BY <1>1, <3>1 DEF LQInv, HeldCame
    <3> QED BY <1>1, <3>2, CameIsDecided
  <2> QED BY <2>1, <2>2 DEF NewestDecides
<1> QED BY <1>1, QueryInvHolds, PTL

\* Whatever is shown offers what was asked for and has not expired.
THEOREM ShownIsFit == LQSpec => []ShownFits
<1>1. ASSUME LQInv PROVE ShownFits
  <2> SUFFICES ASSUME find.pc = "done", NEW p \in find.providers
               PROVE  p.post \in Offering /\ LiveThen(p)
    BY DEF ShownFits
  <2>1. PICK j \in Newest(received, Wanted(received)) : p = received[j] /\ LiveThen(received[j])
    BY <1>1 DEF LQInv, Listed
  <2>2. p.post \in Offering
    BY <2>1, FiltersAgree DEF Newest, Wanted
  <2> QED BY <2>1, <2>2
<1> QED BY <1>1, QueryInvHolds, PTL

\* The call throws only if nothing came in any attempt, and otherwise takes
\* everything into account that came: from relays that broke off and before the
\* hard stop too (_queryOnce, _queryWithRetry).
THEOREM NothingIsLost == LQSpec => []NothingLost
<1>1. ASSUME LQInv PROVE NothingLost
  <2>1. find.pc = "threw" => came = {}
    BY <1>1 DEF LQInv, NothingYet
  <2> QED BY <1>1, <2>1, CameIsDecided DEF NothingLost
<1> QED BY <1>1, QueryInvHolds, PTL
=============================================================================
