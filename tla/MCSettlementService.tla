------------------------ MODULE MCSettlementService ------------------------
(***************************************************************************)
(* SettlementService for TLC, alone: the faults of the runs that refute.   *)
(***************************************************************************)
EXTENDS SettlementService

BackendFaults == {"backendError"}
=============================================================================
