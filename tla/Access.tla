------------------------------- MODULE Access -------------------------------
(***************************************************************************)
(* Who may do what: roles with their permissions, scopes, and the roles of *)
(* users (handlers/roles, handlers/scopes, handlers/users/user_roles.go,   *)
(* profile_handlers.go), next to the handlers that write a user's row with *)
(* his roles loaded into it.                                               *)
(***************************************************************************)
EXTENDS Views

CONSTANT Grants     \* the sets of permissions that a role may be given

----------------------------------------------------------------------------
(* handlers/roles/role_management.go and user_roles.go *)

CreateRole(r) ==
    \E u \in Users \cap DOMAIN db, o \in Unused(Roles), p \in Grants, S \in Some(Scopes) :
       Serve(r, "CreateRole", Has(u, "ROLES"), {o} \cup LinksOf(o, S),
             <<Begin, Create({o}, [permissions |-> p]), Find(S, "all"), Associate(o), Commit,
               Reload(o)>>)

\* Without the transaction.
UpdateRoleByID_Untied(r) ==
    \E u \in Users \cap DOMAIN db, o \in Roles, S \in Some(Scopes) :
       Serve(r, "UpdateRoleByID", Has(u, "ROLES"), LinksOf(o, S),
             <<First(o), Updates(o, Nothing), Delete(LinksOf(o, Scopes)), Find(S, "all"),
               Associate(o), Reload(o)>>)

\* Updates skips zero values: no permission at all leaves the role its own.  Without
\* a list of scopes the role keeps its scopes.
UpdateRoleByID(r) ==
    \E u \in Users \cap DOMAIN db, o \in Roles, p \in Grants, S \in Some(Scopes),
       list \in BOOLEAN :
       LET set == IF p = {} THEN Nothing ELSE [permissions |-> p]
           scopes == IF list THEN <<Delete(LinksOf(o, Scopes)), Find(S, "all"), Associate(o)>>
                             ELSE <<>>
       IN /\ list \/ S = {}
          /\ Serve(r, "UpdateRoleByID", Has(u, "ROLES"), LinksOf(o, S),
                   <<First(o), Begin, Updates(o, set)>> \o scopes \o <<Commit, Reload(o)>>)

DeleteRole(r) ==
    \E u \in Users \cap DOMAIN db, o \in Roles :
       Serve(r, "DeleteRole", Has(u, "ROLES"), {},
             <<First(o), Begin, Delete(LinksOf(o, Users)), Delete(LinksOf(o, Scopes)),
               Delete({o}), Commit>>)

AttachRoleToUser(r) ==
    \E u \in Users \cap DOMAIN db, v \in Users, o \in Roles :
       Serve(r, "AttachRoleToUser", Has(u, "ROLES"), {{v, o}},
             <<Begin, First(v), First(o), Check({{v, o}}, FALSE, "error"),
               Create({{v, o}}, Nothing), Commit, Reload(v)>>)

DetachRoleFromUser(r) ==
    \E u \in Users \cap DOMAIN db, v \in Users, o \in Roles :
       Serve(r, "DetachRoleFromUser", Has(u, "ROLES"), {},
             <<Begin, First(v), First(o), First({v, o}), Delete({{v, o}}), Commit,
               Reload(v)>>)

----------------------------------------------------------------------------
(* handlers/scopes/scope_management.go and scope_roles.go *)

CreateScope(r) ==
    \E u \in Users \cap DOMAIN db, s \in Unused(Scopes), K \in Some(Catalogs) :
       Serve(r, "CreateScope", Has(u, "SCOPES"), {s} \cup LinksOf(s, K),
             <<Begin, Find(K, "all"), Create({s}, Nothing), Find(K, "any"), Associate(s),
               Commit, Reload(s)>>)

\* The scope is read before the transaction and saved whole in it.
UpdateScope(r) ==
    \E u \in Users \cap DOMAIN db, s \in Scopes, K \in Some(Catalogs) :
       Serve(r, "UpdateScope", Has(u, "SCOPES"), LinksOf(s, K),
             <<Load(s), Begin, Find(K, "count"), Save(s), Find(K, "any")>>
               \o Replace(s, Catalogs) \o <<Commit, Reload(s)>>)

\* The catalogs last, under the row of the scope.
DeleteScope_Reordered(r) ==
    \E u \in Users \cap DOMAIN db, s \in Scopes :
       Serve(r, "DeleteScope", Has(u, "SCOPES"), {},
             <<Begin, First(s), Check({g \in Groups : ScopeOf[g] = s}, FALSE, "error"),
               Updates(s, Nothing), Delete(LinksOf(s, Roles)), Delete(LinksOf(s, Catalogs)),
               Delete({s}), Commit>>)

DeleteScope(r) ==
    \E u \in Users \cap DOMAIN db, s \in Scopes :
       Serve(r, "DeleteScope", Has(u, "SCOPES"), {},
             <<Begin, First(s), Check({g \in Groups : ScopeOf[g] = s}, FALSE, "error"),
               Delete(LinksOf(s, Catalogs)), Delete(LinksOf(s, Roles)), Delete({s}), Commit>>)

AttachScopeToRole(r) ==
    \E u \in Users \cap DOMAIN db, s \in Scopes, o \in Roles :
       Serve(r, "AttachScopeToRole", Has(u, "SCOPES"), {{s, o}},
             <<Begin, First(s), Find({o}, "some"), SkipIf({{s, o}}), Associate(s), Commit,
               Reload(s)>>)

DetachScopeFromRole(r) ==
    \E u \in Users \cap DOMAIN db, s \in Scopes, o \in Roles :
       Serve(r, "DetachScopeFromRole", Has(u, "SCOPES"), {},
             <<Begin, First(s), First(o), Delete({{s, o}}), Commit, Reload(s)>>)

----------------------------------------------------------------------------
(* handlers/users: users with roles, and the groups a scope is kept for. *)

CreateUserAndAttachRoles(r) ==
    \E u \in Users \cap DOMAIN db, v \in Unused(Users), O \in Some(Roles) :
       Serve(r, "CreateUserAndAttachRoles", Has(u, "ROLES") /\ O # {}, {v} \cup LinksOf(v, O),
             <<Begin, Find(O, "some"), Create({v}, Nothing), Associate(v), Commit, Reload(v)>>)

\* Clear and Append, each committed by itself.
UpdateUserRoles_Untied(r) ==
    \E u \in Users \cap DOMAIN db, v \in Users, O \in Some(Roles) :
       Serve(r, "UpdateUserRoles", IsStaff(u), LinksOf(v, O),
             <<First(v), Find(O, "some"), Delete(LinksOf(v, Roles)), Associate(v), Reload(v)>>)

UpdateUserRoles(r) ==
    \E u \in Users \cap DOMAIN db, v \in Users, O \in Some(Roles) :
       Serve(r, "UpdateUserRoles", IsStaff(u), LinksOf(v, O),
             <<Begin, First(v), Find(O, "some"), Delete(LinksOf(v, Roles)), Associate(v), Commit,
               Reload(v)>>)

\* HasPermissionForUser: by a permission, or by a group of the target that u manages.
ForUser(u, v, bits) ==
    <<Find({v}, "all")>> \o (IF \E b \in bits : Has(u, b) THEN <<>> ELSE <<OwnsFound(u)>>)

\* The columns, then the roles and the groups that are named, in one transaction.
UpdateTargetUserProfile(r) ==
    \E u \in Users \cap DOMAIN db, v \in Users, O \in Some(Roles), G \in Some(Groups) :
       LET links(X, all) == IF X = {} THEN <<>>
                            ELSE <<Find(X, "all"), Delete(LinksOf(v, all))>> \o Replace(v, all)
       IN Serve(r, "UpdateTargetUserProfile", TRUE, LinksOf(v, O \cup G),
                ForUser(u, v, {"GROUPS", "OWNER"})
                  \o <<Begin, Updates(v, Nothing)>> \o links(O, Roles) \o links(G, Groups)
                  \o <<Commit, Reload(v)>>)

DeleteUser(r) ==
    \E u \in Users \cap DOMAIN db, v \in Users :
       Serve(r, "DeleteUser", TRUE, {},
             ForUser(u, v, {"OWNER"})
               \o <<Begin, Delete(LinksOf(v, Roles)), Delete(LinksOf(v, Groups)), Delete({v}),
                    Commit>>)

\* The user as a cached session has him, with a role deleted since.
UpdateUserProfile_OfSession(r) ==
    \E u \in Users \cap DOMAIN db :
       /\ req' = [req EXCEPT ![r] =
                    [Idle EXCEPT !.name = "UpdateUserProfile", !.open = TRUE,
                                 !.todo = <<Updates(u, Nothing), Associate(u), Commit>>,
                                 !.got = [o \in {o \in Roles : {u, o} \in DOMAIN db \cup dead} |->
                                            [permissions |-> {}]]]]
       /\ UNCHANGED <<db, dead>>

\* The user's own profile or password: his row is updated with the roles he had when
\* the request began.
UpdateUserProfile(r) ==
    \E u \in Users \cap DOMAIN db :
       ServeWith(r, "UpdateUserProfile", RolesOf(u),
                 <<Begin, Updates(u, Nothing), Associate(u), Commit, Reload(u)>>)

\* The whole row is saved with the roles and groups read some bcrypt before.
Login(r) ==
    \E u \in Users \cap DOMAIN db :
       ServeWith(r, "Login", {x \in Roles \cup Groups : {u, x} \in DOMAIN db}, <<Begin, Save(u), Associate(u), Commit>>)

\* One check of the scope, one INSERT.
CreateGroup(r) ==
    \E u \in Users \cap DOMAIN db, g \in New(Groups) :
       Serve(r, "CreateGroup", IsStaff(u), {g}, <<First(ScopeOf[g]), Create({g}, Nothing)>>)

----------------------------------------------------------------------------
AccessHandlers(r) ==
    \/ CreateRole(r) \/ UpdateRoleByID(r) \/ DeleteRole(r)
    \/ AttachRoleToUser(r) \/ DetachRoleFromUser(r)
    \/ CreateScope(r) \/ UpdateScope(r) \/ DeleteScope(r)
    \/ AttachScopeToRole(r) \/ DetachScopeFromRole(r)
    \/ CreateUserAndAttachRoles(r) \/ UpdateUserRoles(r) \/ UpdateTargetUserProfile(r)
    \/ DeleteUser(r) \/ UpdateUserProfile(r) \/ Login(r) \/ CreateGroup(r)

AccessNext ==
    \E r \in Requests : (Unserved(r) /\ AccessHandlers(r)) \/ Steps(r) \/ Fail(r)

AccessSpec == Init /\ [][AccessNext]_vars

----------------------------------------------------------------------------
\* Requests wait for one another in a circle (PostgreSQL ends that by failing one of them)
\* only where one deletes a row after its links and another writes the row before it
\* writes the links, or where both replace the links of a user and one then trims those
\* that a third has added meanwhile.  Circles of more than two may do with a DeleteRole that
\* waits for the link to its role that an UpdateTargetUserProfile has just added.  All other
\* handlers, any number of them, take rows and links in an order that lets one go on.
OnlyRowAgainstLinks ==
    \A C \in (SUBSET Requests) \ {{}} :
       (\A r \in C : \E q \in C \ {r} : Awaits(r, q)) =>
          \E r \in C : \E q \in C \ {r} :
             /\ Awaits(r, q)
             /\ \/ {req[r].name, req[q].name} \in
                     Pairs({"DeleteUser"}, {"Login", "UpdateUserProfile"})
                       \cup Pairs({"UpdateTargetUserProfile"},
                                  {"DeleteUser", "UpdateUserRoles", "UpdateTargetUserProfile"})
                       \cup {{"DeleteRole", "UpdateRoleByID"}, {"DeleteScope", "UpdateScope"}}
                \/ /\ req[r].name = "DeleteRole" /\ req[q].name = "UpdateTargetUserProfile"
                   /\ ~Awaits(q, r)

\* A user who has roles is given others in one step: he is left without any only by a
\* request to detach one, to delete one or to delete him, never between two steps of an
\* update of his roles, unless other requests took from him, or deleted, what the update
\* was giving him.
NeverStripped ==
    [][\A u \in Users :
          /\ db' # db /\ RolesOf(u) # {}
          /\ \A o \in Roles : {u, o} \notin DOMAIN db'
          => \E r \in Requests :
                /\ req'[r].todo # req[r].todo
                /\ \/ req[r].name \in {"DetachRoleFromUser", "DeleteRole", "DeleteUser"}
                   \/ /\ req[r].name \in {"UpdateUserRoles", "UpdateTargetUserProfile"}
                      /\ LinksOf(u, Roles) \cap req[r].gone # {}]_vars
=============================================================================
