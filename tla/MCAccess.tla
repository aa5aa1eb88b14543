------------------------------ MODULE MCAccess ------------------------------
(***************************************************************************)
(* An instance of Access for TLC: an owner, a member of staff who manages  *)
(* one group with himself in it, and two competitions for that group, of   *)
(* which one is hidden.                                                    *)
(***************************************************************************)
EXTENDS Access, TLC

CONSTANTS r1, r2, adm, ben, new, owner, staff, role, scope, scope2, scope3, group, catalog, comp, hidden

MCScopeOf == group :> scope

MCDatabases ==
    { [x \in {adm, ben, owner, staff, scope, scope2, group, catalog, comp, hidden,
              {adm, owner}, {ben, staff}, {staff, scope}, {staff, scope2},
              {scope2, catalog}, {ben, group}, {group, comp}, {group, hidden}} |->
         CASE x = owner -> [permissions |-> {"SCOPES", "CATALOGS", "GROUPS", "COMPETITIONS",
                                             "ROLES", "OWNER"}]
           [] x = staff -> [permissions |-> {"GROUPS"}]
           [] x \in {comp, hidden} -> [show |-> x = comp, finished |-> FALSE]
           [] OTHER -> Nothing] }

\* Requests are interchangeable: sound for invariants and action properties.
MCSymmetry == Permutations({r1, r2})
=============================================================================
