----------------------------- MODULE MCSessions -----------------------------
(***************************************************************************)
(* Instances of Sessions for TLC.                                          *)
(***************************************************************************)
EXTENDS Sessions, TLC

\* Goroutines are interchangeable, and so are the ways to send a token.
MCSymmetry == Permutations(Requests) \cup Permutations(Spaces)
=============================================================================
