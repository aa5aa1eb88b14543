---------------------------- MODULE TryLifecycle ----------------------------
(***************************************************************************)
(* What the tries of a competition promise a user: a try is opened once,   *)
(* every submission judged for it is counted while it is open, the right   *)
(* answer closes it for good, and closing step 1 of a puzzle opens step 2  *)
(* in the same step.  Nothing here runs concurrently and nothing fails.    *)
(***************************************************************************)
EXTENDS Integers

CONSTANT TryKeys        \* records with at least a field step

VARIABLES
    stage,              \* "none", "open" or "solved", per key
    tried               \* submissions counted, per key

vars == <<stage, tried>>

SecondStep(k) == [k EXCEPT !.step = 2]

Init ==
    /\ stage = [k \in TryKeys |-> "none"]
    /\ tried = [k \in TryKeys |-> 0]

Open(k) ==
    /\ k.step = 1
    /\ stage[k] = "none"
    /\ stage' = [stage EXCEPT ![k] = "open"]
    /\ UNCHANGED tried

Miss(k) ==
    /\ stage[k] = "open"
    /\ tried' = [tried EXCEPT ![k] = @ + 1]
    /\ UNCHANGED stage

Solve(k) ==
    /\ stage[k] = "open"
    /\ tried' = [tried EXCEPT ![k] = @ + 1]
    /\ \/ /\ k.step = 1
          /\ stage[SecondStep(k)] = "none"
          /\ stage' = [stage EXCEPT ![k] = "solved", ![SecondStep(k)] = "open"]
       \/ /\ k.step = 2
          /\ stage' = [stage EXCEPT ![k] = "solved"]

Next == \E k \in TryKeys : Open(k) \/ Miss(k) \/ Solve(k)

Spec == Init /\ [][Next]_vars
=============================================================================
