---------------------------- MODULE MCRateLimiter ----------------------------
(***************************************************************************)
(* Instances of RateLimiter for TLC.                                       *)
(***************************************************************************)
EXTENDS RateLimiter, TLC

\* Goroutines are interchangeable.
MCSymmetry == Permutations(Requests)
=============================================================================
