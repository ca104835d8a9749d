-------------------------- MODULE MCListingQuery ---------------------------
(***************************************************************************)
(* ListingQuery for TLC: three versions of one listing.  Two offer what    *)
(* the wallet asks for, one by name and one as a service in both           *)
(* directions; the third has turned around.  A ttl of 2 is the old one.     *)
(***************************************************************************)
EXTENDS ListingQuery

SomeCodes == {"ke", "KE", "KES"}
InUpper   == [ke |-> "KE", KE |-> "KE", KES |-> "KES"]
SomeRails == {"lightning", "m-pesa", "bank"}

Asking == [country |-> "ke", currency |-> "KES", direction |-> "off-ramp",
           service_type |-> "currency-exchange", rail_in |-> "lightning", rail_out |-> "m-pesa"]

Offer == [country |-> "KE", currency |-> "KES", direction |-> "both", service_type |-> Absent,
          rail_in |-> {"lightning"}, rail_out |-> {"m-pesa", "bank"},
          status |-> Absent, status_reason |-> Absent]

Version(listing, ttl) == [id |-> "service", kind |-> "listing", listing |-> listing, ttl |-> ttl]

Versions ==
  {Version(Offer, 1),
   Version([Offer EXCEPT !.country = "ke", !.direction = "off-ramp", !.rail_out = {"m-pesa"}], 2),
   Version([Offer EXCEPT !.direction = "on-ramp", !.status = "paused"], 1)}
=============================================================================
