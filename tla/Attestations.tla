---------------------------- MODULE Attestations ----------------------------
(***************************************************************************)
(* lib/src/attestation.js: what keys say of a provider and the score that  *)
(* a wallet makes of it.  vouch() and revoke() send events to the relays   *)
(* (RelayPublish) while score() asks for the attestations and then, in a   *)
(* second query, for the revocations.  querySync returns when each relay   *)
(* has finished or failed and does not tell which.                         *)
(***************************************************************************)
EXTENDS RelayPublish

CONSTANTS
  Subject,  \* the provider whose score is asked for
  Anchor,   \* options.anchorPubkey
  Known     \* options.knownProviders

VARIABLES
  score,    \* the call of score: where it is and what it came to
  received, \* per kind: the events that came
  waiting   \* the relays that have not finished the query under way

scoreVars == <<score, received, waiting>>
trustVars == <<publishVars, scoreVars>>

Kinds   == {"attestation", "revocation"}
Tiers   == {"ANCHOR", "PROVIDER", "UNKNOWN"}
Weights == [ANCHOR |-> 3, PROVIDER |-> 1, UNKNOWN |-> 0, REVOCATION |-> -10]

\* What buildVouchEvent and buildRevokeEvent sign: nobody vouches for himself, and
\* only a revocation says what it does.  The relays hold listings as well.
Statement(p) == /\ p.kind \in Kinds \cup {"listing"}
                /\ p.kind = "attestation" => p.author # p.target /\ p.action = "none"

ASSUME TrustAssumption ==
  /\ \A p \in Posts : {"author", "target", "action"} \subseteq DOMAIN p /\ Statement(p)
  /\ "forged" \notin Publishes

\* Events that must not count: forged in the anchor's name, and a key that vouches
\* for itself.
Forged(kind) == [call |-> "forged", at |-> MaxTime,
                 post |-> [kind |-> kind, author |-> Anchor, target |-> Subject,
                           action |-> IF kind = "revocation" THEN "revoked" ELSE "none"]]
SelfVouch == [Forged("attestation") EXCEPT !.call = "foreign", !.post.author = Subject]
Noise     == {SelfVouch} \cup {Forged(k) : k \in Kinds}

ScoreInit ==
  /\ score = [pc |-> "idle", value |-> 0, attestations |-> {}, revocations |-> {}]
  /\ received = [k \in Kinds |-> {}]
  /\ waiting = {}

TrustInit == PublishInit /\ ScoreInit

----------------------------------------------------------------------------
(* From events to a score                                                  *)

\* Mutant: whatever the relays send is believed.
Believed(e) == TRUE

Genuine(e) == e.call # "forged"

\* Mutant: one voice for each id, as the relays keep them.
ByIdAndAuthor(events) ==
  {CHOOSE e \in events : e.post.id = i /\ \A d \in events : d.post.id = i => d.at <= e.at :
     i \in {e.post.id : e \in events}}

\* _dedupeByAuthor: the newest event of each author; which one of two of the same
\* second has no part in the score.
ByAuthor(events) ==
  {CHOOSE e \in events :
     e.post.author = a /\ \A d \in events : d.post.author = a => d.at <= e.at :
     a \in {e.post.author : e \in events}}

\* What getAttestations and getRevocations make of the events that came.
VouchesOf(events) ==
  ByAuthor({e \in events : Genuine(e) /\ e.post.target = Subject /\ e.post.author # Subject})
RevocationsOf(events) ==
  ByAuthor({e \in events : Genuine(e) /\ e.post.target = Subject /\ e.post.action = "revoked"})

TierOf(author) ==
  IF author = Anchor THEN "ANCHOR" ELSE IF author \in Known THEN "PROVIDER" ELSE "UNKNOWN"

\* The revocations that count are those of recognised keys.
Counted(revocations) == {e \in revocations : TierOf(e.post.author) \in {"ANCHOR", "PROVIDER"}}

\* The loop over the attestations, in any order.
SumOfWeights(vouches) ==
  LET sum[S \in SUBSET vouches] ==
        IF S = {} THEN 0
        ELSE LET e == CHOOSE e \in S : TRUE
             IN  Weights[TierOf(e.post.author)] + sum[S \ {e}]
  IN sum[vouches]

ScoreOf(vouches, revocations) ==
  SumOfWeights(vouches) + Weights.REVOCATION * Cardinality(Counted(revocations))

----------------------------------------------------------------------------
(* The two queries                                                         *)

Score ==
  /\ score.pc = "idle"
  /\ score' = [score EXCEPT !.pc = "attestation"]
  /\ waiting' = Relays
  /\ UNCHANGED <<publishVars, received>>

\* The events of the kind asked for that relay r holds; the relays index the p tag.
Held(r) == {e \in {stored[r][i] : i \in Ids} :
              e # NoEvent /\ e.post.kind = score.pc /\ e.post.target = Subject}

\* With the last relay the next query begins, or the score is made.
Proceed(events) ==
  score' = IF score.pc = "attestation"
             THEN [score EXCEPT !.pc = "revocation", !.attestations = VouchesOf(events)]
             ELSE LET revocations == RevocationsOf(events)
                  IN  [score EXCEPT !.pc = "scored", !.revocations = revocations,
                                    !.value = ScoreOf(score.attestations, revocations)]

\* A relay sends all it holds or breaks off, with noise among the events or not.
RelaySends(r) ==
  /\ score.pc \in Kinds
  /\ r \in waiting
  /\ \E events \in SUBSET Held(r), noise \in {{}} \cup {{n} : n \in Noise} :
       /\ \A n \in noise : n.post.kind = score.pc
       /\ received' = [received EXCEPT ![score.pc] = @ \cup events \cup noise]
  /\ IF waiting = {r}
       THEN /\ Proceed(received'[score.pc])
            /\ waiting' = IF score.pc = "attestation" THEN Relays ELSE {}
       ELSE waiting' = waiting \ {r} /\ UNCHANGED score
  /\ UNCHANGED publishVars

\* Keys speak while the score is made.  What the relays' answers tell them has
\* no part in it, so only scores are explored that are made before any answer,
\* and nothing after a score.
NobodyTold == \A c \in Publishes, r \in Relays : outcome[c][r] \in {"unsent", "pending"}

TrustNext ==
  \/ score.pc = "idle" /\ PublishNext /\ UNCHANGED scoreVars
  \/ NobodyTold /\ Score
  \/ \E r \in Relays : RelaySends(r)
  \/ /\ score.pc \in Kinds
     /\ PublishTick \/ \E c \in Publishes : Publish(c) \/ \E r \in Relays : Accept(c, r)
     /\ UNCHANGED scoreVars

TrustSpec == TrustInit /\ [][TrustNext]_trustVars

----------------------------------------------------------------------------

\* Types; nobody vouches for himself and nothing forged is left in the result.
TrustTypeOK ==
  /\ PublishTypeOK
  /\ score \in [pc : {"idle", "scored"} \cup Kinds, value : Int,
                attestations : SUBSET Event, revocations : SUBSET Event]
  /\ received \in [Kinds -> SUBSET (Event \cup Noise)]
  /\ waiting \subseteq Relays

\* Who has really spoken in the events of kind k that came.
Speakers(k, action) ==
  {e.post.author : e \in {d \in received[k] : d \in Event /\ d.post.action = action}}

\* One key, one voice: whatever a key published, under however many ids and to
\* however many relays, it counts once for and once against; the anchor three
\* times as much as a known provider, an unknown key and a forgery not at all.
OneVoicePerKey ==
  score.pc = "scored" =>
    LET recognised == Known \cup {Anchor}
        for        == Speakers("attestation", "none") \ {Subject}
        against    == Speakers("revocation", "revoked")
    IN  score.value = Cardinality(for \cap recognised)
                      + (IF Anchor \in for THEN 2 ELSE 0)
                      - 10 * Cardinality(against \cap recognised)

\* The deterministic algorithm of the specification: each author's most recent
\* event counts, so a revocation counts only while its author has not published
\* another statement since.
ActiveRevocationsOnly ==
  score.pc = "scored" =>
    \A e \in Counted(score.revocations) : \A d \in received["revocation"] :
      d \in Event /\ d.post.author = e.post.author => d.at <= e.at
=============================================================================
