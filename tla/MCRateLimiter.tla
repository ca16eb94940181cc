---------------------------- MODULE MCRateLimiter ----------------------------
(* Instances of RateLimiter for TLC. *)
EXTENDS RateLimiter, TLC
CONSTANTS e1, e2, e3
Symmetry == Permutations(Enforcers)
=============================================================================
