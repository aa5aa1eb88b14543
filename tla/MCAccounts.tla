----------------------------- MODULE MCAccounts -----------------------------
(***************************************************************************)
(* Instances of Accounts for TLC.                                          *)
(***************************************************************************)
EXTENDS Accounts, TLC

\* Goroutines, tokens and profiles are interchangeable.
MCSymmetry == Permutations(Requests) \cup Permutations(Tokens) \cup Permutations(Profiles)
=============================================================================
