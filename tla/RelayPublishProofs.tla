------------------------- MODULE RelayPublishProofs -------------------------
(***************************************************************************)
(* Proofs about RelayPublish, for any number of relays and of calls, and   *)
(* whatever is published.                                                  *)
(***************************************************************************)
EXTENDS RelayPublish, FiniteSetTheorems, WellFoundedInduction, TLAPS

Settled == {"ok", "rejected", "connectionFailure"}

\* How far a call is, what its promises say and what its report claims.
CallInv(c) ==
  /\ report[c].end = "none" => accepted[c] = {} /\ \A r \in Relays : outcome[c][r] = "unsent"
  /\ report[c].end # "none" => event[c] \in Event /\ \A r \in Relays : outcome[c][r] # "unsent"
  /\ \A r \in Relays : outcome[c][r] = "ok" => r \in accepted[c]
  /\ report[c].success # {} => report[c].end = "reported"
  /\ \A r \in report[c].success : IsSuccess(event[c].post, outcome[c][r])

\* A relay that took an event holds it or a newer one: what a relay holds only
\* becomes newer.
HeldInv ==
  \A c \in Publishes : \A r \in accepted[c] :
    stored[r][event[c].post.id].at >= event[c].at

\* Relays hold finitely many events.
FinitelyMany == \A r \in Relays : IsFiniteSet({i \in Ids : stored[r][i] # NoEvent})

Inv == PublishTypeOK /\ HeldInv /\ FinitelyMany /\ \A c \in Publishes : CallInv(c)

----------------------------------------------------------------------------

\* Events have a time and an id.
LEMMA EventFacts ==
  /\ \A e \in Event : e.at \in Int /\ e.post \in Posts /\ e.post.id \in Ids
  /\ \A e \in Event \cup {NoEvent} : e.at \in Int
<1>1. \A e \in Event : e.at \in Int /\ e.post \in Posts
  BY PublishAssumption DEF Event
<1>2. \A p \in Posts : p.id \in Ids
  BY DEF Ids
<1> QED BY <1>1, <1>2 DEF NoEvent

\* Sets of naturals have a least element.
LEMMA LeastNat ==
  ASSUME NEW T \in SUBSET Nat, T # {}
  PROVE  \E x \in T : \A y \in T : x <= y
<1>1. PICK x \in T : \A y \in T : ~(<<y, x>> \in OpToRel(<, Nat))
  BY WFMin, NatLessThanWellFounded
<1>2. \A y \in T : ~(y < x)
  BY <1>1 DEF OpToRel
<1>3. \A y \in T : x <= y
  BY <1>2
<1> QED BY <1>3

\* Of events with bounded times some are the newest.
LEMMA LatestExists ==
  ASSUME NEW E, E # {}, \A e \in E : e.at \in 0 .. MaxTime
  PROVE  \E e \in E : \A d \in E : d.at <= e.at
<1> DEFINE Ages == {MaxTime - e.at : e \in E}
<1>1. \A e \in E : MaxTime - e.at \in Ages /\ MaxTime - e.at \in Nat
  BY PublishAssumption
<1>2. Ages \in SUBSET Nat /\ Ages # {}
  BY <1>1
<1>3. PICK a \in Ages : \A b \in Ages : a <= b
  <2> HIDE DEF Ages
  <2> QED BY <1>2, LeastNat
<1>4. PICK e \in E : a = MaxTime - e.at
  OBVIOUS
<1>5. ASSUME NEW d \in E PROVE d.at <= e.at
  <2>1. MaxTime - e.at <= MaxTime - d.at
    BY <1>1, <1>3, <1>4
  <2> QED BY <2>1, PublishAssumption
<1> QED BY <1>5

\* What a relay holds.
LEMMA HeldFacts ==
  ASSUME Inv, NEW r \in Relays
  PROVE  LET events == {stored[r][i] : i \in Ids} \ {NoEvent}
         IN  IsFiniteSet(events) /\ events \subseteq Event
<1> DEFINE N == {i \in Ids : stored[r][i] # NoEvent}
           T == {stored[r][i] : i \in N}
           f == [i \in N |-> stored[r][i]]
<1>1. IsFiniteSet(N)
  BY DEF Inv, FinitelyMany
<1>2. f \in Surjection(N, T)
  BY DEF Surjection
<1>3. IsFiniteSet(T)
  <2> HIDE DEF N, T, f
  <2> QED BY <1>1, <1>2, FS_Surjection
<1>4. T = {stored[r][i] : i \in Ids} \ {NoEvent}
  OBVIOUS
<1>5. T \subseteq Event
  BY DEF Inv, PublishTypeOK
<1> HIDE DEF T
<1> QED BY <1>3, <1>4, <1>5

\* Initially nothing is published.
LEMMA PublishInitInv == PublishInit => Inv
<1> SUFFICES ASSUME PublishInit PROVE Inv
  OBVIOUS
<1>1. PublishTypeOK
  BY PublishAssumption DEF PublishInit, PublishTypeOK, Outcomes, Ends
<1>2. HeldInv /\ \A c \in Publishes : CallInv(c)
  BY DEF PublishInit, HeldInv, CallInv
<1>3. FinitelyMany
  <2> SUFFICES ASSUME NEW r \in Relays PROVE IsFiniteSet({i \in Ids : stored[r][i] # NoEvent})
    BY DEF FinitelyMany
  <2>1. {i \in Ids : stored[r][i] # NoEvent} = {}
    BY DEF PublishInit
  <2> QED BY <2>1, FS_EmptySet
<1> QED BY <1>1, <1>2, <1>3 DEF Inv

\* A call that sends its event.
LEMMA PublishCallStep ==
  ASSUME Inv, NEW c \in Publishes, Publish(c)
  PROVE  Inv'
<1>1. PICK p \in Posts : event' = [event EXCEPT ![c] = [call |-> c, at |-> now, post |-> p]]
  BY DEF Publish
<1> DEFINE e == [call |-> c, at |-> now, post |-> p]
<1>2. e \in Event
  BY DEF Event, Inv, PublishTypeOK
<1> HIDE DEF e
<1>3. event' = [event EXCEPT ![c] = e]
  BY <1>1 DEF e
<1>4. report[c].end = "none" /\ accepted[c] = {} /\ report[c].success = {}
  BY DEF Publish, Inv, CallInv
<1>5. PublishTypeOK'
  <2>1. event' \in [Publishes -> Event \cup {NoEvent}]
    BY <1>2, <1>3 DEF Inv, PublishTypeOK
  <2>2. outcome' \in [Publishes -> [Relays -> Outcomes]]
    BY DEF Publish, Inv, PublishTypeOK, Outcomes
  <2>3. report' \in [Publishes -> [end : Ends, success : SUBSET Relays]]
    <3>1. [report[c] EXCEPT !.end = "awaiting"] \in [end : Ends, success : SUBSET Relays]
      BY DEF Inv, PublishTypeOK, Ends
    <3>2. report' = [report EXCEPT ![c] = [report[c] EXCEPT !.end = "awaiting"]]
      BY DEF Publish, Inv, PublishTypeOK
    <3> QED BY <3>1, <3>2 DEF Inv, PublishTypeOK
  <2>4. \A d \in Publishes : report'[d].end = "reported" =>
          \A r \in Relays : outcome'[d][r] \in Settled
    BY DEF Publish, Inv, PublishTypeOK, Settled
  <2> QED BY <2>1, <2>2, <2>3, <2>4 DEF Publish, Inv, PublishTypeOK, Settled
<1>6. HeldInv'
  BY <1>3, <1>4 DEF Publish, Inv, HeldInv, PublishTypeOK
<1>7. ASSUME NEW d \in Publishes PROVE CallInv(d)'
  <2>1. CASE d = c
    BY <1>2, <1>3, <1>4, <2>1 DEF Publish, Inv, CallInv, PublishTypeOK
  <2>2. CASE d # c
    BY <1>3, <2>2 DEF Publish, Inv, CallInv, PublishTypeOK
  <2> QED BY <2>1, <2>2
<1>8. FinitelyMany'
  BY DEF Publish, Inv, FinitelyMany
<1> QED BY <1>5, <1>6, <1>7, <1>8 DEF Inv

\* A relay that takes an event, in place of an older one or not.
LEMMA AcceptStep ==
  ASSUME Inv, NEW c \in Publishes, NEW r \in Relays, Accept(c, r)
  PROVE  Inv'
<1> DEFINE e == event[c]
           i == e.post.id
<1>1. e \in Event /\ report[c].end # "none"
  BY DEF Accept, Inv, CallInv, PublishTypeOK
<1>2. e.at \in Int /\ i \in Ids
  BY <1>1, EventFacts
<1>3. \A q \in Relays, j \in Ids : stored[q][j] \in Event \cup {NoEvent} /\ stored[q][j].at \in Int
  BY EventFacts DEF Inv, PublishTypeOK
<1>4. /\ \/ stored[r][i].at <= e.at /\ stored' = [stored EXCEPT ![r][i] = e]
         \/ stored[r][i].at >= e.at /\ stored' = stored
      /\ accepted' = [accepted EXCEPT ![c] = @ \cup {r}]
      /\ UNCHANGED <<now, event, outcome, report>>
  BY DEF Accept
<1> HIDE DEF e, i
<1>5. stored' \in [Relays -> [Ids -> Event \cup {NoEvent}]]
  <2>1. stored \in [Relays -> [Ids -> Event \cup {NoEvent}]] /\ e \in Event
    BY <1>1 DEF Inv, PublishTypeOK, e
  <2>2. [stored[r] EXCEPT ![i] = e] \in [Ids -> Event \cup {NoEvent}]
    BY <2>1
  <2>3. stored' = stored \/ stored' = [stored EXCEPT ![r] = [stored[r] EXCEPT ![i] = e]]
    BY <1>4
  <2> QED BY <2>1, <2>2, <2>3
<1>6. PublishTypeOK'
  BY <1>4, <1>5 DEF Inv, PublishTypeOK
<1> DEFINE taken == stored[r][i].at <= e.at /\ stored' = [stored EXCEPT ![r][i] = e]
<1>7. \A q \in Relays, j \in Ids :
         stored'[q][j] = IF taken /\ q = r /\ j = i THEN e ELSE stored[q][j]
  <2>1. stored \in [Relays -> [Ids -> Event \cup {NoEvent}]]
    BY DEF Inv, PublishTypeOK
  <2>2. CASE taken
    BY <1>2, <2>1, <2>2
  <2>3. CASE ~taken
    <3>1. stored' = stored
      BY <1>4, <2>3
    <3> QED BY <2>3, <3>1
  <2> QED BY <2>2, <2>3
<1>8. \A q \in Relays, j \in Ids : stored'[q][j].at >= stored[q][j].at
  BY <1>2, <1>3, <1>7
<1>9. stored'[r][i].at >= e.at
  BY <1>2, <1>3, <1>4, <1>7
<1>10. \A q \in Relays, j \in Ids : stored'[q][j].at \in Int
  BY <1>5, EventFacts
<1>11. HeldInv'
  <2> SUFFICES ASSUME NEW d \in Publishes, NEW q \in accepted'[d]
               PROVE  stored'[q][event[d].post.id].at >= event[d].at
    BY <1>4 DEF HeldInv
  <2>1. CASE d = c /\ q = r
    BY <1>9, <2>1 DEF e, i
  <2>2. CASE ~(d = c /\ q = r)
    <3>1. q \in accepted[d] /\ q \in Relays
      BY <1>4, <2>2 DEF Inv, PublishTypeOK
    <3>2. event[d] \in Event
      BY <3>1 DEF Inv, CallInv, PublishTypeOK
    <3>3. event[d].post.id \in Ids /\ event[d].at \in Int
      BY <3>2, EventFacts
    <3>4. stored[q][event[d].post.id].at >= event[d].at
      BY <3>1 DEF Inv, HeldInv
    <3> QED BY <1>3, <1>8, <1>10, <3>1, <3>3, <3>4
  <2> QED BY <2>1, <2>2
<1>12. ASSUME NEW d \in Publishes PROVE CallInv(d)'
  BY <1>1, <1>4 DEF Inv, CallInv, PublishTypeOK
<1>13. FinitelyMany'
  <2> SUFFICES ASSUME NEW q \in Relays PROVE IsFiniteSet({j \in Ids : stored'[q][j] # NoEvent})
    BY DEF FinitelyMany
  <2> DEFINE N == {j \in Ids : stored[q][j] # NoEvent}
  <2>1. IsFiniteSet(N \cup {i})
    BY FS_AddElement DEF Inv, FinitelyMany
  <2>2. {j \in Ids : stored'[q][j] # NoEvent} \subseteq N \cup {i}
    BY <1>7
  <2> HIDE DEF N
  <2> QED BY <2>1, <2>2, FS_Subset
<1> QED BY <1>6, <1>11, <1>12, <1>13 DEF Inv

\* A promise that settles, and the report when it was the last.
LEMMA SettleStep ==
  ASSUME Inv, NEW c \in Publishes, NEW r \in Relays, NEW o \in Settled, Settle(c, r, o)
  PROVE  Inv'
<1> DEFINE died == o = "rejected" /\ Unhandled(c, r)
           over == AllSettled(outcome'[c])
           full == [end |-> "reported",
                    success |-> {q \in Relays : IsSuccess(event[c].post, outcome'[c][q])}]
<1>1. /\ report[c].end = "awaiting"
      /\ outcome[c][r] = "pending"
      /\ o = "ok" => r \in accepted[c]
      /\ outcome' = [outcome EXCEPT ![c][r] = o]
      /\ report' = [report EXCEPT ![c] =
           CASE died -> [@ EXCEPT !.end = "died"]
             [] ~died /\ over -> full
             [] OTHER -> @]
      /\ UNCHANGED <<now, event, accepted, stored>>
  BY DEF Settle
<1>2. outcome' \in [Publishes -> [Relays -> Outcomes]]
  BY <1>1 DEF Inv, PublishTypeOK, Outcomes, Settled
<1>3. \A q \in Relays : outcome'[c][q] = IF q = r THEN o ELSE outcome[c][q]
  BY <1>1 DEF Inv, PublishTypeOK
<1>4. \A d \in Publishes : d # c => outcome'[d] = outcome[d] /\ report'[d] = report[d]
  BY <1>1 DEF Inv, PublishTypeOK
<1>5. report[c].success = {}
  BY <1>1 DEF Inv, CallInv
<1>6. report[c] \in [end : Ends, success : SUBSET Relays]
  BY DEF Inv, PublishTypeOK
<1>7. \/ died /\ report'[c] = [report[c] EXCEPT !.end = "died"]
      \/ ~died /\ over /\ report'[c] = full
      \/ ~died /\ ~over /\ report'[c] = report[c]
  BY <1>1 DEF Inv, PublishTypeOK
<1>8. report' \in [Publishes -> [end : Ends, success : SUBSET Relays]]
  <2>1. report'[c] \in [end : Ends, success : SUBSET Relays]
    BY <1>6, <1>7 DEF Ends
  <2>2. report' = [report EXCEPT ![c] = report'[c]]
    BY <1>1 DEF Inv, PublishTypeOK
  <2> QED BY <2>1, <2>2 DEF Inv, PublishTypeOK
<1>9. ASSUME report'[c].end = "reported"
      PROVE  over /\ report'[c] = full
  BY <1>1, <1>6, <1>7, <1>9
<1>10. PublishTypeOK'
  <2>1. ASSUME NEW d \in Publishes, report'[d].end = "reported", NEW q \in Relays
        PROVE  outcome'[d][q] \in Settled
    <3>1. CASE d # c
      BY <1>4, <2>1, <3>1 DEF Inv, PublishTypeOK, Settled
    <3>2. CASE d = c
      <4>1. outcome'[c][q] # "pending"
        BY <1>9, <2>1, <3>2 DEF AllSettled
      <4>2. outcome'[c][q] # "unsent"
        BY <1>1, <1>3 DEF Inv, CallInv, Settled
      <4>3. outcome'[c][q] \in Outcomes
        BY <1>2
      <4> QED BY <3>2, <4>1, <4>2, <4>3 DEF Outcomes, Settled
    <3> QED BY <3>1, <3>2
  <2> QED BY <1>1, <1>2, <1>8, <2>1 DEF Inv, PublishTypeOK, Settled
<1>11. HeldInv'
  BY <1>1 DEF Inv, HeldInv
<1>12. ASSUME NEW d \in Publishes PROVE CallInv(d)'
  <2>1. CASE d # c
    BY <1>1, <1>4, <2>1 DEF Inv, CallInv
  <2>2. CASE d = c
    <3>1. report'[c].end # "none" /\ event'[c] \in Event
      BY <1>1, <1>6, <1>7 DEF Inv, CallInv
    <3>2. \A q \in Relays : outcome'[c][q] # "unsent"
      BY <1>1, <1>3 DEF Inv, CallInv, Settled
    <3>3. \A q \in Relays : outcome'[c][q] = "ok" => q \in accepted'[c]
      BY <1>1, <1>3 DEF Inv, CallInv
    <3>4. report'[c].success # {} => report'[c] = full
      BY <1>5, <1>6, <1>7
    <3>5. \A q \in report'[c].success : IsSuccess(event'[c].post, outcome'[c][q])
      <4> SUFFICES ASSUME NEW q \in report'[c].success
                   PROVE  IsSuccess(event'[c].post, outcome'[c][q])
        OBVIOUS
      <4>1. report'[c].success = {x \in Relays : IsSuccess(event[c].post, outcome'[c][x])}
        BY <3>4
      <4> QED BY <1>1, <4>1
    <3> QED BY <2>2, <3>1, <3>2, <3>3, <3>4, <3>5 DEF CallInv
  <2> QED BY <2>1, <2>2
<1>13. FinitelyMany'
  BY <1>1 DEF Inv, FinitelyMany
<1> QED BY <1>10, <1>11, <1>12, <1>13 DEF Inv

\* Every step keeps the invariant.
LEMMA PublishStepInv == Inv /\ [PublishNext]_publishVars => Inv'
<1> SUFFICES ASSUME Inv, [PublishNext]_publishVars PROVE Inv'
  OBVIOUS
<1>1. CASE PublishTick
  <2>1. now' \in 0 .. MaxTime
    BY <1>1, PublishAssumption DEF PublishTick, Inv, PublishTypeOK
  <2> QED BY <1>1, <2>1 DEF PublishTick, Inv, PublishTypeOK, HeldInv, FinitelyMany, CallInv
<1>2. CASE UNCHANGED publishVars
  BY <1>2 DEF publishVars, Inv, PublishTypeOK, HeldInv, FinitelyMany, CallInv
<1> QED BY <1>1, <1>2, PublishCallStep, AcceptStep, SettleStep DEF PublishNext, Settled

\* The invariant holds in every reachable state.
THEOREM PublishInvHolds == PublishSpec => []Inv
  BY PublishInitInv, PublishStepInv, PTL DEF PublishSpec

----------------------------------------------------------------------------

\* Publisher.publish: a relay that the report on a listing names as a success holds
\* it or a newer version from then on.
THEOREM ReportsAreTruthful == PublishSpec => []ReportTruthful
<1>1. Inv => ReportTruthful
  <2> SUFFICES ASSUME Inv, NEW c \in Publishes, NEW r \in report[c].success,
                      event[c].post.kind = "listing"
               PROVE  stored[r][event[c].post.id].at >= event[c].at
    BY DEF ReportTruthful
  <2>1. r \in Relays /\ IsSuccess(event[c].post, outcome[c][r])
    BY DEF Inv, CallInv, PublishTypeOK
  <2>2. outcome[c][r] = "ok"
    BY <2>1 DEF IsSuccess
  <2> QED BY <2>1, <2>2 DEF Inv, CallInv, HeldInv
<1> QED BY <1>1, PublishInvHolds, PTL
=============================================================================
