-------------------------- MODULE MCHttpTransport --------------------------
(***************************************************************************)
(* HttpTransport for TLC: requests are interchangeable model values.  The  *)
(* query strings are a plain one and, for each parameter, one that differs *)
(* from it in that parameter alone.                                        *)
(***************************************************************************)
EXTENDS HttpTransport, FiniteSets, TLC

RequestSymmetry == Permutations(Requests)

SomeCodes == {"ke", "KE", "KES", "UG", "UGX"}
InUpper   == [ke |-> "KE", KE |-> "KE", KES |-> "KES", UG |-> "UG", UGX |-> "UGX"]
SomeRails == {"lightning", "m-pesa", "bank"}

Plain == [find |-> [f \in Fields |-> Absent], freshOnly |-> Absent, limit |-> 0,
          healthy |-> Absent, kyc |-> Absent, status |-> Absent]

Finding(field, value) == [Plain EXCEPT !.find[field] = value]

EachParameter ==
  {Plain,
   Finding("country", "KE"), Finding("currency", "KES"), Finding("direction", "off-ramp"),
   Finding("service_type", "remittance"), Finding("rail_in", "m-pesa"),
   Finding("rail_out", "m-pesa"),
   [Plain EXCEPT !.freshOnly = "false"], [Plain EXCEPT !.limit = 200],
   [Plain EXCEPT !.healthy = "true"], [Plain EXCEPT !.kyc = "none"],
   [Plain EXCEPT !.status = "active"]}

\* Bound: the requests of a behaviour have the plain query string or one other.
OneOther ==
  Cardinality({request[r].query : r \in Requests \ {q \in Requests : At(q, {"idle"})}}
              \ {Plain}) <= 1
=============================================================================
