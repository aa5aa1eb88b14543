--------------------------- MODULE MCCompetitions ---------------------------
(***************************************************************************)
(* An instance of Competitions for TLC: an owner, a member of staff who    *)
(* manages one group, a player in it, one competition that it may see.     *)
(***************************************************************************)
EXTENDS Competitions, TLC

CONSTANTS r1, r2, adm, ben, new, new2, owner, staff, scope, group, group2, group3, catalog, comp, comp2

MCScopeOf == group :> scope @@ group2 :> scope @@ group3 :> scope

MCDatabases ==
    { [x \in {adm, ben, owner, staff, scope, group, group2, catalog, comp, {adm, owner}, {ben, staff},
              {staff, scope}, {ben, group}, {group, comp}} |->
         CASE x = owner -> [permissions |-> {"OWNER"}]
           [] x = staff -> [permissions |-> {"GROUPS"}]
           [] x = comp -> [show |-> TRUE, finished |-> FALSE]
           [] OTHER -> Nothing] }

\* Requests are interchangeable: sound for invariants and action properties.
MCSymmetry == Permutations({r1, r2})
=============================================================================
