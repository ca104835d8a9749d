--------------------------- MODULE MCRateLimiter ---------------------------
(***************************************************************************)
(* RateLimiter for TLC: addresses are interchangeable model values.        *)
(***************************************************************************)
EXTENDS RateLimiter, TLC

AddressSymmetry == Permutations(Addresses)
=============================================================================
