------------------------------ MODULE MCRealtime ------------------------------
(***************************************************************************)
(* An instance of Realtime for TLC: two dashboards of one competition, the *)
(* two steps of one puzzle.                                                *)
(***************************************************************************)
EXTENDS Realtime

CONSTANTS comp, first, second

MCWatches == [c \in Conns |-> comp]
MCCompetitionOf == [t \in Tries |-> comp]

\* UpdateTry writes one row, EndTry of step 1 two.
MCBatches == {<<first>>, <<first, second>>}
=============================================================================
