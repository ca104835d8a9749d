--------------------------- MODULE MCRelayPublish ---------------------------
(***************************************************************************)
(* RelayPublish for TLC: two versions of one listing.                      *)
(***************************************************************************)
EXTENDS RelayPublish

Listings == {[id |-> "service", kind |-> "listing", version |-> v] : v \in 1 .. 2}
=============================================================================
