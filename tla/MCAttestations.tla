-------------------------- MODULE MCAttestations ---------------------------
(***************************************************************************)
(* Attestations for TLC: an anchor, a known peer and a stranger speak of   *)
(* one provider.  The peer uses two ids for its vouches, and one for the   *)
(* revocation and for taking it back.  The provider's listing goes to the  *)
(* same relays.                                                            *)
(***************************************************************************)
EXTENDS Attestations

Says(who, what, d, how) ==
  [id |-> <<who, what, d>>, kind |-> what, author |-> who, target |-> Subject, action |-> how]

Revoking == {Says("peer", "revocation", "r", "revoked"), Says("peer", "revocation", "r", "lifted")}
Vouching == {Says("peer", "attestation", d, "none") : d \in {"v", "w"}}
            \cup {Says(a, "attestation", "v", "none") : a \in {"anchor", "stranger"}}
Saying   == Revoking \cup Vouching \cup {Says("stranger", "revocation", "r", "revoked"),
                                          Says(Subject, "listing", "service", "none")}
=============================================================================
