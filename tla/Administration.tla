--------------------------- MODULE Administration ---------------------------
(***************************************************************************)
(* All requests that change the tables of the platform, together: the 17   *)
(* handlers of Access and the 17 more of Competitions serve any number of  *)
(* requests at once, on one database.                                      *)
(***************************************************************************)
EXTENDS Competitions

Handlers(r) == AccessHandlers(r) \/ CompetitionHandlers(r)

Next == \E r \in Requests : (Unserved(r) /\ Handlers(r)) \/ Steps(r) \/ Fail(r)

Spec == Init /\ [][Next]_vars
=============================================================================
