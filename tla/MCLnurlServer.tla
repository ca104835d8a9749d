---------------------------- MODULE MCLnurlServer ----------------------------
(***************************************************************************)
(* LnurlServer for TLC, with every fault of the service's surroundings.    *)
(***************************************************************************)
EXTENDS LnurlServer

AllFaults == FaultKinds
=============================================================================
