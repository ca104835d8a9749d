-------------------------- MODULE MCMemoryBackend --------------------------
(***************************************************************************)
(* MemoryBackend for TLC.  Two ticks to a second let an invoice be created *)
(* and a caller come in the middle of a second.                            *)
(***************************************************************************)
EXTENDS MemoryBackend, TLC

HashSymmetry == Permutations(Hashes)
=============================================================================
