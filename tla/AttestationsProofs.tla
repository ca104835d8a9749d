------------------------- MODULE AttestationsProofs -------------------------
(***************************************************************************)
(* Proofs about Attestations, for any number of relays and calls, whatever *)
(* is published, and whichever keys are recognised.                        *)
(***************************************************************************)
EXTENDS Attestations, RelayPublishProofs

\* What can have come in the query for kind k.
Coming(k) == {e \in Event : e.post.kind = k /\ e.post.target = Subject}
             \cup {n \in Noise : n.post.kind = k}

\* Finitely many events came, and those only.
CameInv == \A k \in Kinds : IsFiniteSet(received[k]) /\ received[k] \subseteq Coming(k)

\* What the score is made of is what had come when its query was over.
MadeInv ==
  /\ score.pc \in {"revocation", "scored"} => score.attestations = VouchesOf(received["attestation"])
  /\ score.pc = "scored" =>
       /\ score.revocations = RevocationsOf(received["revocation"])
       /\ score.value = ScoreOf(score.attestations, score.revocations)

ScoreType == [pc : {"idle", "scored"} \cup Kinds, value : Int,
              attestations : SUBSET Event, revocations : SUBSET Event]

TrustInv ==
  /\ Inv
  /\ score \in ScoreType
  /\ received \in [Kinds -> SUBSET (Event \cup Noise)]
  /\ waiting \subseteq Relays
  /\ CameInv
  /\ MadeInv

----------------------------------------------------------------------------
(* Counting                                                                *)

\* Induction over the naturals, with a set in the place of a predicate.
LEMMA SetInduction ==
  ASSUME NEW S, 0 \in S, \A n \in Nat : n \in S => n + 1 \in S
  PROVE  Nat \subseteq S
<1> DEFINE T == Nat \ S
<1> SUFFICES ASSUME T # {} PROVE FALSE
  OBVIOUS
<1>1. PICK x \in T : \A y \in T : x <= y
  <2>1. T \in SUBSET Nat
    OBVIOUS
  <2> HIDE DEF T
  <2> QED BY <2>1, LeastNat
<1>2. x # 0
  OBVIOUS
<1>3. x - 1 \in Nat /\ x - 1 \notin T
  BY <1>1, <1>2
<1> QED BY <1>3

OfTier(S, tier) == {e \in S : TierOf(e.post.author) = tier}

\* The loop over the attestations adds up a weight for each, whatever the order.
LEMMA LoopSum ==
  ASSUME NEW V, IsFiniteSet(V)
  PROVE  SumOfWeights(V) = 3 * Cardinality(OfTier(V, "ANCHOR")) + Cardinality(OfTier(V, "PROVIDER"))
<1> DEFINE W(e) == Weights[TierOf(e.post.author)]
           Pick(S) == CHOOSE e \in S : TRUE
           Step(f, S) == IF S = {} THEN 0 ELSE W(Pick(S)) + f[S \ {Pick(S)}]
           sum == CHOOSE f : f = [S \in SUBSET V |-> Step(f, S)]
           count == [S \in SUBSET V |-> 3 * Cardinality(OfTier(S, "ANCHOR"))
                                        + Cardinality(OfTier(S, "PROVIDER"))]
<1>1. ASSUME NEW S \in SUBSET V, NEW t
      PROVE  IsFiniteSet(S) /\ IsFiniteSet(OfTier(S, t)) /\ Cardinality(OfTier(S, t)) \in Nat
  <2>1. IsFiniteSet(S)
    BY FS_Subset
  <2>2. OfTier(S, t) \subseteq S
    BY DEF OfTier
  <2> QED BY <2>1, <2>2, FS_Subset, FS_CardinalityType
<1>2. ASSUME NEW S \in SUBSET V, S # {}
      PROVE  count[S] = W(Pick(S)) + count[S \ {Pick(S)}]
  <2> DEFINE e == Pick(S)
             R == S \ {e}
             tier == TierOf(e.post.author)
  <2>1. e \in S
    BY <1>2
  <2> HIDE DEF e
  <2>2. R \in SUBSET V
    OBVIOUS
  <2>3. ASSUME NEW t
        PROVE  Cardinality(OfTier(S, t)) = IF t = tier THEN Cardinality(OfTier(R, t)) + 1
                                           ELSE Cardinality(OfTier(R, t))
    <3>1. CASE t = tier
      <4>1. OfTier(S, t) = OfTier(R, t) \cup {e} /\ e \notin OfTier(R, t)
        BY <2>1, <3>1 DEF OfTier
      <4>2. IsFiniteSet(OfTier(R, t))
        BY <1>1, <2>2
      <4>3. Cardinality(OfTier(R, t) \cup {e}) = Cardinality(OfTier(R, t)) + 1
        <5> HIDE DEF R
        <5> QED BY <4>1, <4>2, FS_AddElement
      <4> QED BY <3>1, <4>1, <4>3
    <3>2. CASE t # tier
      <4>1. OfTier(S, t) = OfTier(R, t)
        BY <2>1, <3>2 DEF OfTier
      <4> QED BY <3>2, <4>1
    <3> QED BY <3>1, <3>2
  <2>4. tier \in {"ANCHOR", "PROVIDER", "UNKNOWN"}
    BY DEF TierOf
  <2>5. W(e) = IF tier = "ANCHOR" THEN 3 ELSE IF tier = "PROVIDER" THEN 1 ELSE 0
    BY <2>4 DEF Weights
  <2>6. /\ Cardinality(OfTier(R, "ANCHOR")) \in Nat
        /\ Cardinality(OfTier(R, "PROVIDER")) \in Nat
    BY <1>1, <2>2
  <2>7. Cardinality(OfTier(S, "ANCHOR")) = IF tier = "ANCHOR"
                                             THEN Cardinality(OfTier(R, "ANCHOR")) + 1
                                             ELSE Cardinality(OfTier(R, "ANCHOR"))
    BY <2>3
  <2>8. Cardinality(OfTier(S, "PROVIDER")) = IF tier = "PROVIDER"
                                               THEN Cardinality(OfTier(R, "PROVIDER")) + 1
                                               ELSE Cardinality(OfTier(R, "PROVIDER"))
    BY <2>3
  <2>9. count[S] = W(e) + count[R]
    <3>1. /\ count[S] = 3 * Cardinality(OfTier(S, "ANCHOR")) + Cardinality(OfTier(S, "PROVIDER"))
          /\ count[R] = 3 * Cardinality(OfTier(R, "ANCHOR")) + Cardinality(OfTier(R, "PROVIDER"))
      BY <2>2
    <3> HIDE DEF count, W, R, tier
    <3> QED BY <2>4, <2>5, <2>6, <2>7, <2>8, <3>1
  <2> QED BY <2>9 DEF e
<1>3. count[{}] = 0
  <2>1. OfTier({}, "ANCHOR") = {} /\ OfTier({}, "PROVIDER") = {}
    BY DEF OfTier
  <2> QED BY <2>1, FS_EmptySet
<1>4. count = [S \in SUBSET V |-> Step(count, S)]
  <2>1. \A S \in SUBSET V : count[S] = Step(count, S)
    <3> HIDE DEF count
    <3> QED BY <1>2, <1>3
  <2>2. count = [S \in SUBSET V |-> count[S]]
    OBVIOUS
  <2> HIDE DEF count, Step
  <2> QED BY <2>1, <2>2
<1>5. sum = [S \in SUBSET V |-> Step(sum, S)]
  <2> HIDE DEF count, Step
  <2> QED BY <1>4
<1> DEFINE N == {n \in Nat : \A S \in SUBSET V : Cardinality(S) = n => sum[S] = count[S]}
<1>6. ASSUME NEW S \in SUBSET V, S # {}
      PROVE  sum[S] = W(Pick(S)) + sum[S \ {Pick(S)}]
  <2> HIDE DEF sum, W, Pick
  <2> QED BY <1>5, <1>6
<1>7. sum[{}] = 0
  <2> HIDE DEF sum, W, Pick
  <2> QED BY <1>5
<1> HIDE DEF sum, count, W
<1>8. 0 \in N
  <2>1. ASSUME NEW S \in SUBSET V, Cardinality(S) = 0 PROVE S = {}
    BY <1>1, <2>1, FS_EmptySet
  <2> QED BY <1>3, <1>7, <2>1
<1>9. ASSUME NEW n \in Nat, n \in N PROVE n + 1 \in N
  <2> SUFFICES ASSUME NEW S \in SUBSET V, Cardinality(S) = n + 1 PROVE sum[S] = count[S]
    OBVIOUS
  <2>1. S # {}
    BY FS_EmptySet
  <2>2. Pick(S) \in S
    BY <2>1
  <2>3. Cardinality(S \ {Pick(S)}) = n
    <3>1. IsFiniteSet(S)
      BY <1>1
    <3>2. Cardinality(S \ {Pick(S)}) = Cardinality(S) - 1
      BY <2>2, <3>1, FS_RemoveElement
    <3> QED BY <3>2
  <2>4. sum[S \ {Pick(S)}] = count[S \ {Pick(S)}]
    BY <1>9, <2>3
  <2> HIDE DEF Pick
  <2> QED BY <1>2, <1>6, <2>1, <2>4
<1>10. Nat \subseteq N
  <2> HIDE DEF N
  <2> QED BY <1>8, <1>9, SetInduction
<1>11. sum[V] = count[V]
  <2>1. Cardinality(V) \in Nat
    BY FS_CardinalityType
  <2> QED BY <1>10, <2>1
<1>12. SumOfWeights(V) = sum[V]
  BY DEF SumOfWeights, sum, W
<1> QED BY <1>11, <1>12 DEF count

\* Deduplication leaves one event of each author.
LEMMA VoiceFacts ==
  ASSUME NEW E, \A e \in E : e.at \in 0 .. MaxTime
  PROVE  /\ ByAuthor(E) \subseteq E
         /\ \A e \in E : \E d \in ByAuthor(E) : d.post.author = e.post.author
         /\ \A e, d \in ByAuthor(E) : e.post.author = d.post.author => e = d
<1> DEFINE Newest(a) == CHOOSE e \in E : e.post.author = a /\ \A d \in E : d.post.author = a => d.at <= e.at
<1>1. ASSUME NEW a \in {e.post.author : e \in E}
      PROVE  Newest(a) \in E /\ Newest(a).post.author = a
  <2> DEFINE S == {e \in E : e.post.author = a}
  <2>1. S # {} /\ \A e \in S : e.at \in 0 .. MaxTime
    OBVIOUS
  <2>2. PICK e \in S : \A d \in S : d.at <= e.at
    <3> HIDE DEF S
    <3> QED BY <2>1, LatestExists
  <2>3. \E x \in E : x.post.author = a /\ \A d \in E : d.post.author = a => d.at <= x.at
    BY <2>2
  <2> QED BY <2>3
<1>2. ByAuthor(E) = {Newest(a) : a \in {e.post.author : e \in E}}
  BY DEF ByAuthor
<1> HIDE DEF Newest
<1> QED BY <1>1, <1>2

\* So the events of some keys that remain are as many as these keys.
LEMMA VoicesCounted ==
  ASSUME NEW E, IsFiniteSet(E), \A e \in E : e.at \in 0 .. MaxTime, NEW K
  PROVE  LET voices == {e \in ByAuthor(E) : e.post.author \in K}
             keys   == {e.post.author : e \in E} \cap K
         IN  IsFiniteSet(voices) /\ IsFiniteSet(keys) /\ Cardinality(voices) = Cardinality(keys)
<1> DEFINE voices == {e \in ByAuthor(E) : e.post.author \in K}
           keys   == {e.post.author : e \in E} \cap K
           f == [e \in voices |-> e.post.author]
<1>1. voices \subseteq E
  BY VoiceFacts
<1>2. IsFiniteSet(voices)
  BY <1>1, FS_Subset
<1>3. f \in [voices -> keys]
  BY <1>1
<1>4. \A k \in keys : \E e \in voices : f[e] = k
  <2> SUFFICES ASSUME NEW k \in keys PROVE \E e \in voices : e.post.author = k
    OBVIOUS
  <2>1. PICK d \in E : d.post.author = k
    OBVIOUS
  <2>2. PICK e \in ByAuthor(E) : e.post.author = k
    BY <2>1, VoiceFacts
  <2> QED BY <2>2
<1>5. \A e, d \in voices : f[e] = f[d] => e = d
  BY VoiceFacts
<1>6. f \in Surjection(voices, keys) /\ f \in Injection(voices, keys)
  <2> HIDE DEF f, voices, keys
  <2>1. DOMAIN f = voices
    BY <1>3
  <2> QED BY <1>3, <1>4, <1>5, <2>1 DEF Surjection, Injection, IsInjective
<1>7. IsFiniteSet(keys) /\ Cardinality(voices) = Cardinality(keys)
  <2> HIDE DEF f, voices, keys
  <2> QED BY <1>2, <1>6, FS_Surjection, FS_CardinalityType
<1> QED BY <1>2, <1>7

----------------------------------------------------------------------------
(* What comes                                                              *)

\* Noise is forged, or a key that vouches for itself.
LEMMA NoiseFacts ==
  ASSUME NEW n \in Noise
  PROVE  /\ n.at = MaxTime
         /\ Genuine(n) => n.post.kind = "attestation" /\ n.post.author = Subject
         /\ n \in Event => n.post.kind = "attestation" /\ n.post.author = Subject
         /\ n.post.kind \in Kinds
<1>1. \A e \in Event : e.call # "forged"
  BY TrustAssumption DEF Event
<1>2. CASE n = SelfVouch
  BY <1>2 DEF SelfVouch, Forged, Kinds
<1>3. ASSUME NEW k \in Kinds, n = Forged(k) PROVE n.call = "forged" /\ n.at = MaxTime /\ n.post.kind = k
  BY <1>3 DEF Forged
<1> QED BY <1>1, <1>2, <1>3 DEF Noise, Genuine

\* What came has a time; what is genuine in it was published, unless a key vouches
\* for itself.
LEMMA ComingFacts ==
  ASSUME NEW k \in Kinds, NEW e \in Coming(k)
  PROVE  /\ e.at \in 0 .. MaxTime
         /\ e.post.kind = k
         /\ e \in Event => Genuine(e)
         /\ Genuine(e) => \/ e \in Event /\ e.post.target = Subject /\ Statement(e.post)
                          \/ k = "attestation" /\ e.post.author = Subject
         /\ e \in Event => \/ e.post.target = Subject /\ Statement(e.post)
                           \/ k = "attestation" /\ e.post.author = Subject
<1>1. \A d \in Event : d.call # "forged" /\ d.at \in 0 .. MaxTime /\ d.post \in Posts
  BY TrustAssumption DEF Event
<1>2. MaxTime \in 0 .. MaxTime
  BY PublishAssumption
<1>3. CASE e \in Event /\ e.post.kind = k /\ e.post.target = Subject
  BY <1>1, <1>3, TrustAssumption DEF Genuine
<1>4. CASE e \in Noise /\ e.post.kind = k
  BY <1>1, <1>2, <1>4, NoiseFacts DEF Genuine
<1> QED BY <1>3, <1>4 DEF Coming

\* Those whose vouches and revocations count, in terms of who really spoke.
Vouched(E) == {e \in E : Genuine(e) /\ e.post.target = Subject /\ e.post.author # Subject}
Revoked(E) == {e \in E : Genuine(e) /\ e.post.target = Subject /\ e.post.action = "revoked"}

LEMMA VouchedFacts ==
  ASSUME NEW E, IsFiniteSet(E), E \subseteq Coming("attestation")
  PROVE  /\ IsFiniteSet(Vouched(E)) /\ Vouched(E) \subseteq Event
         /\ \A e \in Vouched(E) : e.at \in 0 .. MaxTime
         /\ {e.post.author : e \in Vouched(E)}
              = {e.post.author : e \in {d \in E : d \in Event /\ d.post.action = "none"}} \ {Subject}
         /\ VouchesOf(E) = ByAuthor(Vouched(E)) /\ VouchesOf(E) \subseteq Event
<1>1. "attestation" \in Kinds /\ Vouched(E) \subseteq E
  BY DEF Kinds, Vouched
<1>2. \A e \in Vouched(E) : e \in Event /\ e.post.action = "none" /\ e.at \in 0 .. MaxTime
  BY <1>1, ComingFacts DEF Vouched, Statement
<1>3. \A d \in E : d \in Event /\ d.post.author # Subject => d \in Vouched(E)
  BY <1>1, ComingFacts DEF Vouched
<1>4. {e.post.author : e \in Vouched(E)}
        = {e.post.author : e \in {d \in E : d \in Event /\ d.post.action = "none"}} \ {Subject}
  <2>1. \A e \in Vouched(E) : e.post.author # Subject
    BY DEF Vouched
  <2> QED BY <1>1, <1>2, <1>3, <2>1
<1>5. VouchesOf(E) = ByAuthor(Vouched(E))
  BY DEF VouchesOf, Vouched
<1>6. IsFiniteSet(Vouched(E)) /\ Vouched(E) \subseteq Event
  BY <1>1, <1>2, FS_Subset
<1>7. ByAuthor(Vouched(E)) \subseteq Vouched(E)
  BY <1>2, VoiceFacts
<1> QED BY <1>2, <1>4, <1>5, <1>6, <1>7

LEMMA RevokedFacts ==
  ASSUME NEW E, IsFiniteSet(E), E \subseteq Coming("revocation")
  PROVE  /\ IsFiniteSet(Revoked(E)) /\ Revoked(E) \subseteq Event
         /\ \A e \in Revoked(E) : e.at \in 0 .. MaxTime
         /\ {e.post.author : e \in Revoked(E)}
              = {e.post.author : e \in {d \in E : d \in Event /\ d.post.action = "revoked"}}
         /\ RevocationsOf(E) = ByAuthor(Revoked(E)) /\ RevocationsOf(E) \subseteq Event
<1>1. "revocation" \in Kinds /\ Revoked(E) \subseteq E
  BY DEF Kinds, Revoked
<1>2. \A e \in Revoked(E) : e \in Event /\ e.post.action = "revoked" /\ e.at \in 0 .. MaxTime
  BY <1>1, ComingFacts DEF Revoked
<1>3. \A d \in E : d \in Event /\ d.post.action = "revoked" => d \in Revoked(E)
  BY <1>1, ComingFacts DEF Revoked
<1>4. {e.post.author : e \in Revoked(E)}
        = {e.post.author : e \in {d \in E : d \in Event /\ d.post.action = "revoked"}}
  BY <1>1, <1>2, <1>3
<1>5. RevocationsOf(E) = ByAuthor(Revoked(E))
  BY DEF RevocationsOf, Revoked
<1>6. IsFiniteSet(Revoked(E)) /\ Revoked(E) \subseteq Event
  BY <1>1, <1>2, FS_Subset
<1>7. ByAuthor(Revoked(E)) \subseteq Revoked(E)
  BY <1>2, VoiceFacts
<1> QED BY <1>2, <1>4, <1>5, <1>6, <1>7

\* The score, counted in keys.
LEMMA ScoreInKeys ==
  ASSUME NEW E, IsFiniteSet(E), E \subseteq Coming("attestation"),
         NEW D, IsFiniteSet(D), D \subseteq Coming("revocation")
  PROVE  LET recognised == Known \cup {Anchor}
             for        == {e.post.author : e \in Vouched(E)}
             against    == {e.post.author : e \in Revoked(D)}
         IN  /\ ScoreOf(VouchesOf(E), RevocationsOf(D)) \in Int
             /\ ScoreOf(VouchesOf(E), RevocationsOf(D))
                  = Cardinality(for \cap recognised) + (IF Anchor \in for THEN 2 ELSE 0)
                    - 10 * Cardinality(against \cap recognised)
<1> DEFINE recognised == Known \cup {Anchor}
           for        == {e.post.author : e \in Vouched(E)}
           against    == {e.post.author : e \in Revoked(D)}
           B == ByAuthor(Vouched(E))
           peers == for \cap (Known \ {Anchor})
<1>1. Cardinality(OfTier(B, "ANCHOR")) = IF Anchor \in for THEN 1 ELSE 0
  <2>1. OfTier(B, "ANCHOR") = {e \in B : e.post.author \in {Anchor}}
    BY DEF OfTier, TierOf
  <2>2. Cardinality(OfTier(B, "ANCHOR")) = Cardinality(for \cap {Anchor})
    BY <2>1, VouchedFacts, VoicesCounted
  <2>3. CASE Anchor \in for
    <3>1. for \cap {Anchor} = {Anchor}
      BY <2>3
    <3> HIDE DEF for, B
    <3> QED BY <2>2, <2>3, <3>1, FS_Singleton
  <2>4. CASE Anchor \notin for
    <3>1. for \cap {Anchor} = {}
      BY <2>4
    <3> HIDE DEF for, B
    <3> QED BY <2>2, <2>4, <3>1, FS_EmptySet
  <2> QED BY <2>3, <2>4
<1>2. Cardinality(OfTier(B, "PROVIDER")) = Cardinality(peers) /\ IsFiniteSet(peers)
  <2>1. OfTier(B, "PROVIDER") = {e \in B : e.post.author \in Known \ {Anchor}}
    BY DEF OfTier, TierOf
  <2> QED BY <2>1, VouchedFacts, VoicesCounted
<1>3. Cardinality(for \cap recognised) = Cardinality(peers) + (IF Anchor \in for THEN 1 ELSE 0)
  <2> HIDE DEF for
  <2>1. CASE Anchor \in for
    <3>1. for \cap recognised = peers \cup {Anchor} /\ Anchor \notin peers
      BY <2>1
    <3> HIDE DEF peers, recognised
    <3>2. Cardinality(for \cap recognised) = Cardinality(peers) + 1
      BY <1>2, <3>1, FS_AddElement
    <3> QED BY <2>1, <3>2
  <2>2. CASE Anchor \notin for
    <3>1. for \cap recognised = peers
      BY <2>2
    <3> HIDE DEF peers, recognised
    <3>2. Cardinality(peers) \in Nat
      BY <1>2, FS_CardinalityType
    <3> QED BY <2>2, <3>1, <3>2
  <2> QED BY <2>1, <2>2
<1>4. /\ Cardinality(Counted(RevocationsOf(D))) = Cardinality(against \cap recognised)
      /\ IsFiniteSet(against \cap recognised)
  <2>1. Counted(RevocationsOf(D)) = {e \in ByAuthor(Revoked(D)) : e.post.author \in recognised}
    BY RevokedFacts DEF Counted, TierOf
  <2> QED BY <2>1, RevokedFacts, VoicesCounted
<1>5. SumOfWeights(VouchesOf(E)) = 3 * Cardinality(OfTier(B, "ANCHOR")) + Cardinality(OfTier(B, "PROVIDER"))
  <2>1. IsFiniteSet(B)
    BY VouchedFacts, VoiceFacts, FS_Subset
  <2>2. VouchesOf(E) = B
    BY VouchedFacts
  <2> HIDE DEF B
  <2> QED BY <2>1, <2>2, LoopSum
<1>6. Weights.REVOCATION = -10
  BY DEF Weights
<1>7. Cardinality(peers) \in Nat /\ Cardinality(against \cap recognised) \in Nat
  BY <1>2, <1>4, FS_CardinalityType
<1>8. ScoreOf(VouchesOf(E), RevocationsOf(D))
        = SumOfWeights(VouchesOf(E)) + (-10) * Cardinality(against \cap recognised)
  BY <1>4, <1>6 DEF ScoreOf
<1> HIDE DEF for, against, recognised, peers, B
<1>9. /\ ScoreOf(VouchesOf(E), RevocationsOf(D)) \in Int
      /\ ScoreOf(VouchesOf(E), RevocationsOf(D))
           = Cardinality(for \cap recognised) + (IF Anchor \in for THEN 2 ELSE 0)
             - 10 * Cardinality(against \cap recognised)
  BY <1>1, <1>2, <1>3, <1>5, <1>7, <1>8
<1> QED BY <1>9 DEF for, against, recognised

----------------------------------------------------------------------------
(* The steps                                                               *)

\* Initially no score is asked for.
LEMMA TrustInitInv == TrustInit => TrustInv
<1> SUFFICES ASSUME TrustInit PROVE TrustInv
  OBVIOUS
<1>1. Inv
  BY PublishInitInv DEF TrustInit
<1>2. score \in ScoreType /\ waiting \subseteq Relays /\ MadeInv
  BY DEF TrustInit, ScoreInit, ScoreType, MadeInv
<1>3. received \in [Kinds -> SUBSET (Event \cup Noise)] /\ CameInv
  BY FS_EmptySet DEF TrustInit, ScoreInit, CameInv
<1> QED BY <1>1, <1>2, <1>3 DEF TrustInv

\* A step of those who publish leaves the score alone.
LEMMA PublishersStep ==
  ASSUME TrustInv, [PublishNext]_publishVars, UNCHANGED scoreVars
  PROVE  TrustInv'
<1>1. Inv'
  BY PublishStepInv DEF TrustInv
<1>2. CameInv' /\ MadeInv'
  BY DEF TrustInv, CameInv, MadeInv, scoreVars
<1> QED BY <1>1, <1>2 DEF TrustInv, scoreVars

\* The call begins.
LEMMA ScoreStep == TrustInv /\ Score => TrustInv'
<1> SUFFICES ASSUME TrustInv, Score PROVE TrustInv'
  OBVIOUS
<1>1. Inv'
  <2>1. UNCHANGED publishVars
    BY DEF Score
  <2> QED BY <2>1, PublishStepInv DEF TrustInv
<1>2. score' \in ScoreType /\ score'.pc = "attestation"
  BY DEF Score, TrustInv, ScoreType, Kinds
<1>3. CameInv' /\ MadeInv'
  BY <1>2 DEF Score, TrustInv, CameInv, MadeInv
<1> QED BY <1>1, <1>2, <1>3 DEF Score, TrustInv

\* What a relay sends is what the query asked for, and noise.
LEMMA SentFacts ==
  ASSUME TrustInv, NEW r \in Relays, score.pc \in Kinds, NEW events \in SUBSET Held(r),
         NEW noise \in {{}} \cup {{n} : n \in Noise}, \A n \in noise : n.post.kind = score.pc
  PROVE  IsFiniteSet(events \cup noise) /\ events \cup noise \subseteq Coming(score.pc)
<1>1. Held(r) \subseteq {stored[r][i] : i \in Ids} \ {NoEvent}
  BY DEF Held
<1>2. IsFiniteSet(events) /\ events \subseteq Event
  BY <1>1, HeldFacts, FS_Subset DEF TrustInv
<1>3. IsFiniteSet(noise)
  BY FS_EmptySet, FS_Singleton
<1>4. events \subseteq Coming(score.pc)
  BY <1>2 DEF Held, Coming
<1>5. noise \subseteq Coming(score.pc)
  BY DEF Coming
<1> QED BY <1>2, <1>3, <1>4, <1>5, FS_Union

\* A relay sends its part, and with the last one the next query begins or the
\* score is made.
LEMMA RelaySendsStep ==
  ASSUME TrustInv, NEW r \in Relays, RelaySends(r)
  PROVE  TrustInv'
<1> DEFINE k == score.pc
<1>1. k \in Kinds /\ r \in waiting /\ UNCHANGED publishVars
  BY DEF RelaySends
<1>2. Inv'
  BY <1>1, PublishStepInv DEF TrustInv
<1>3. PICK sent : /\ IsFiniteSet(sent) /\ sent \subseteq Coming(k)
                  /\ received' = [received EXCEPT ![k] = @ \cup sent]
  <2>1. PICK events \in SUBSET Held(r), noise \in {{}} \cup {{n} : n \in Noise} :
          /\ \A n \in noise : n.post.kind = score.pc
          /\ received' = [received EXCEPT ![score.pc] = @ \cup events \cup noise]
    BY DEF RelaySends
  <2>2. IsFiniteSet(events \cup noise) /\ events \cup noise \subseteq Coming(score.pc)
    BY <1>1, <2>1, SentFacts
  <2>3. received' = [received EXCEPT ![k] = @ \cup (events \cup noise)]
    BY <1>1, <2>1 DEF TrustInv
  <2> QED BY <2>2, <2>3
<1>4. \A j \in Kinds : received'[j] = IF j = k THEN received[j] \cup sent ELSE received[j]
  BY <1>1, <1>3 DEF TrustInv
<1>5. CameInv'
  <2> SUFFICES ASSUME NEW j \in Kinds PROVE IsFiniteSet(received'[j]) /\ received'[j] \subseteq Coming(j)
    BY DEF CameInv
  <2>1. IsFiniteSet(received[j]) /\ received[j] \subseteq Coming(j)
    BY DEF TrustInv, CameInv
  <2>2. CASE j = k
    <3>1. IsFiniteSet(received[j] \cup sent)
      BY <1>3, <2>1, FS_Union
    <3> QED BY <1>3, <1>4, <2>1, <2>2, <3>1
  <2>3. CASE j # k
    BY <1>4, <2>1, <2>3
  <2> QED BY <2>2, <2>3
<1>6. received' \in [Kinds -> SUBSET (Event \cup Noise)]
  <2>1. Coming(k) \subseteq Event \cup Noise
    BY DEF Coming
  <2> QED BY <1>1, <1>3, <2>1 DEF TrustInv
<1>7. score \in ScoreType
  BY DEF TrustInv
<1>8. score' \in ScoreType /\ waiting' \subseteq Relays /\ MadeInv'
  <2>1. CASE waiting # {r}
    <3>1. waiting' = waiting \ {r} /\ score' = score
      BY <2>1 DEF RelaySends
    <3>2. MadeInv'
      BY <1>1, <1>4, <3>1 DEF TrustInv, MadeInv, Kinds
    <3> QED BY <1>7, <3>1, <3>2 DEF TrustInv
  <2>2. CASE waiting = {r} /\ k = "attestation"
    <3>1. score' = [score EXCEPT !.pc = "revocation", !.attestations = VouchesOf(received'["attestation"])]
      BY <2>2 DEF RelaySends, Proceed
    <3>2. VouchesOf(received'["attestation"]) \subseteq Event
      BY <1>5, VouchedFacts DEF CameInv, Kinds
    <3>3. score' \in ScoreType
      BY <1>7, <3>1, <3>2 DEF ScoreType, Kinds
    <3>4. MadeInv'
      BY <1>7, <3>1 DEF MadeInv, ScoreType
    <3>5. waiting' = Relays
      BY <2>2 DEF RelaySends
    <3> QED BY <3>3, <3>4, <3>5
  <2>3. CASE waiting = {r} /\ k = "revocation"
    <3> DEFINE D == received'["revocation"]
               E == received'["attestation"]
    <3>1. /\ score.attestations = VouchesOf(E)
          /\ IsFiniteSet(E) /\ E \subseteq Coming("attestation")
          /\ IsFiniteSet(D) /\ D \subseteq Coming("revocation")
      BY <1>4, <1>5, <2>3 DEF TrustInv, MadeInv, CameInv, Kinds
    <3>2. score' = [score EXCEPT !.pc = "scored", !.revocations = RevocationsOf(D),
                                 !.value = ScoreOf(score.attestations, RevocationsOf(D))]
      BY <2>3 DEF RelaySends, Proceed
    <3>3. RevocationsOf(D) \subseteq Event /\ ScoreOf(score.attestations, RevocationsOf(D)) \in Int
      <4> HIDE DEF D, E
      <4> QED BY <3>1, RevokedFacts, ScoreInKeys
    <3>4. score' \in ScoreType
      <4> HIDE DEF D
      <4> QED BY <1>7, <3>2, <3>3 DEF ScoreType
    <3>5. /\ score'.pc = "scored" /\ score'.attestations = VouchesOf(E)
          /\ score'.revocations = RevocationsOf(D)
          /\ score'.value = ScoreOf(score'.attestations, score'.revocations)
      <4> HIDE DEF D, E
      <4> QED BY <1>7, <3>1, <3>2 DEF ScoreType
    <3>6. MadeInv'
      BY <3>5 DEF MadeInv
    <3>7. waiting' = {}
      BY <2>3 DEF RelaySends
    <3> QED BY <3>4, <3>6, <3>7
  <2> QED BY <1>1, <2>1, <2>2, <2>3 DEF Kinds
<1> QED BY <1>2, <1>5, <1>6, <1>8 DEF TrustInv

\* Every step keeps the invariant, and is one of those who publish, or none of theirs.
LEMMA TrustStepInv == TrustInv /\ [TrustNext]_trustVars => TrustInv' /\ [PublishNext]_publishVars
<1> SUFFICES ASSUME TrustInv, [TrustNext]_trustVars PROVE TrustInv' /\ [PublishNext]_publishVars
  OBVIOUS
<1>1. CASE UNCHANGED trustVars
  BY <1>1, PublishersStep DEF trustVars
<1>2. CASE PublishNext /\ UNCHANGED scoreVars
  BY <1>2, PublishersStep
<1>3. CASE Score
  BY <1>3, ScoreStep DEF Score
<1>4. ASSUME NEW r \in Relays, RelaySends(r) PROVE TrustInv' /\ [PublishNext]_publishVars
  BY <1>4, RelaySendsStep DEF RelaySends
<1>5. CASE /\ PublishTick \/ \E c \in Publishes : Publish(c) \/ \E r \in Relays : Accept(c, r)
           /\ UNCHANGED scoreVars
  <2>1. PublishNext
    BY <1>5 DEF PublishNext
  <2> QED BY <1>5, <2>1, PublishersStep
<1> QED BY <1>1, <1>2, <1>3, <1>4, <1>5 DEF TrustNext

\* The invariant holds in every reachable state.
THEOREM TrustInvHolds == TrustSpec => []TrustInv
  BY TrustInitInv, TrustStepInv, PTL DEF TrustSpec

----------------------------------------------------------------------------
(* What it is worth                                                        *)

\* The types, and that nothing forged is left in what the score is made of.
THEOREM TrustTypeCorrect == TrustSpec => []TrustTypeOK
<1>1. TrustInv => TrustTypeOK
  BY DEF TrustInv, TrustTypeOK, ScoreType, Inv
<1> QED BY <1>1, TrustInvHolds, PTL

\* Beside a score under way the publishers behave as they do alone.
THEOREM PublishersUndisturbed == TrustSpec => PublishSpec
<1>1. TrustInit => PublishInit
  BY DEF TrustInit
<1> QED BY <1>1, TrustStepInv, TrustInvHolds, PTL DEF TrustSpec, PublishSpec

\* Each key counts once for and once against a provider, by its tier, however many
\* events it signed and wherever they came from (score, _dedupeByAuthor, _tierOf).
THEOREM EachKeyOneVoice == TrustSpec => []OneVoicePerKey
<1>1. ASSUME TrustInv PROVE OneVoicePerKey
  <2> SUFFICES ASSUME score.pc = "scored" PROVE OneVoicePerKey
    BY DEF OneVoicePerKey
  <2> DEFINE E == received["attestation"]
             D == received["revocation"]
  <2>1. /\ IsFiniteSet(E) /\ E \subseteq Coming("attestation")
        /\ IsFiniteSet(D) /\ D \subseteq Coming("revocation")
    BY <1>1 DEF TrustInv, CameInv, Kinds
  <2>2. score.value = ScoreOf(VouchesOf(E), RevocationsOf(D))
    BY <1>1 DEF TrustInv, MadeInv
  <2>3. {e.post.author : e \in Vouched(E)} = Speakers("attestation", "none") \ {Subject}
    BY <2>1, VouchedFacts DEF Speakers
  <2>4. {e.post.author : e \in Revoked(D)} = Speakers("revocation", "revoked")
    BY <2>1, RevokedFacts DEF Speakers
  <2> HIDE DEF E, D
  <2> QED BY <2>1, <2>2, <2>3, <2>4, ScoreInKeys DEF OneVoicePerKey
<1> QED BY <1>1, TrustInvHolds, PTL
=============================================================================
