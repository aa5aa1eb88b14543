------------------------------- MODULE MCTries -------------------------------
(***************************************************************************)
(* Instances of Tries for TLC: the values of the constants that a cfg      *)
(* cannot write.                                                           *)
(***************************************************************************)
EXTENDS Tries, TLC

CONSTANTS right, wrong, words   \* answers: right, wrong, and not a number

MCAnswers == {right, wrong, words}
MCRightAnswers == {right}
MCNumericAnswers == {right, wrong}

\* Goroutines are interchangeable: sound for the runs without liveness.
MCSymmetry == Permutations(Requests)
=============================================================================
