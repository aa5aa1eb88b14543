------------------------ MODULE AdministrationProofs ------------------------
(***************************************************************************)
(* Theorems about all requests that change the tables, served together, so *)
(* that they hold of those of Access and of Competitions by themselves.    *)
(* The invariants of TablesProofs are about calls; here is shown that      *)
(* every handler enters with nothing written and with its calls in order.  *)
(***************************************************************************)
EXTENDS Administration, TablesProofs

LEMMA AccessHandlersEnter ==
    ASSUME NEW r, AccessHandlers(r)
    PROVE  Entered(r)
<1>1. CASE CreateRole(r) \/ UpdateRoleByID(r) \/ DeleteRole(r)
  BY <1>1, ServeEnters DEF CreateRole, UpdateRoleByID, DeleteRole
<1>2. CASE AttachRoleToUser(r) \/ DetachRoleFromUser(r)
  BY <1>2, ServeEnters DEF AttachRoleToUser, DetachRoleFromUser
<1>3. CASE CreateScope(r) \/ UpdateScope(r) \/ DeleteScope(r)
  BY <1>3, ServeEnters DEF CreateScope, UpdateScope, DeleteScope
<1>4. CASE AttachScopeToRole(r) \/ DetachScopeFromRole(r)
  BY <1>4, ServeEnters DEF AttachScopeToRole, DetachScopeFromRole
<1>5. CASE CreateUserAndAttachRoles(r) \/ UpdateUserRoles(r)
  BY <1>5, ServeEnters DEF CreateUserAndAttachRoles, UpdateUserRoles
<1>6. CASE UpdateTargetUserProfile(r) \/ DeleteUser(r) \/ CreateGroup(r)
  BY <1>6, ServeEnters DEF UpdateTargetUserProfile, DeleteUser, CreateGroup
<1>7. CASE UpdateUserProfile(r) \/ Login(r)
  BY <1>7, ServeWithEnters DEF UpdateUserProfile, Login
<1>8. QED
  BY <1>1, <1>2, <1>3, <1>4, <1>5, <1>6, <1>7 DEF AccessHandlers

LEMMA CompetitionHandlersEnter ==
    ASSUME NEW r, CompetitionHandlers(r)
    PROVE  Entered(r)
<1>1. CASE CreateCompetition(r) \/ UpdateCompetition(r) \/ DeleteCompetition(r)
  BY <1>1, ServeEnters DEF CreateCompetition, UpdateCompetition, DeleteCompetition
<1>2. CASE FinishCompetition(r) \/ ToggleCompetitionVisibility(r)
  BY <1>2, ServeEnters DEF FinishCompetition, ToggleCompetitionVisibility
<1>3. CASE AddGroupToCompetition(r) \/ RemoveGroupFromCompetition(r)
  BY <1>3, ServeEnters DEF AddGroupToCompetition, RemoveGroupFromCompetition
<1>4. CASE CreateGroup(r) \/ UpdateGroup(r) \/ DeleteGroup(r)
  BY <1>4, ServeEnters DEF CreateGroup, UpdateGroup, DeleteGroup
<1>5. CASE AddUserToGroup(r) \/ RemoveUserFromGroup(r)
  BY <1>5, ServeEnters DEF AddUserToGroup, RemoveUserFromGroup
<1>6. CASE CreateUserAndAttachGroup(r) \/ CreateBulkUsersAndAttachGroup(r)
  BY <1>6, ServeEnters DEF CreateUserAndAttachGroup, CreateBulkUsersAndAttachGroup
<1>7. CASE ImportUsersFromXLSXToGroup(r) \/ DeleteAllUsersFromGroup(r)
  BY <1>7, ServeEnters DEF ImportUsersFromXLSXToGroup, DeleteAllUsersFromGroup
<1>8. CASE BulkDeleteUsers(r) \/ TriggerPuzzleFirstTry(r)
  BY <1>8, ServeEnters DEF BulkDeleteUsers, TriggerPuzzleFirstTry
<1>9. QED
  BY <1>1, <1>2, <1>3, <1>4, <1>5, <1>6, <1>7, <1>8 DEF CompetitionHandlers

LEMMA HandlersEnter ==
    ASSUME NEW r, Handlers(r)
    PROVE  Entered(r)
  BY AccessHandlersEnter, CompetitionHandlersEnter DEF Handlers

LEMMA AccessIsAdministration == AccessSpec => Spec
<1>1. [AccessNext]_vars => [Next]_vars
  BY DEF AccessNext, Next, Handlers
<1> QED BY <1>1, PTL DEF AccessSpec, Spec

LEMMA CompetitionsAreAdministration == CompetitionSpec => Spec
<1>1. [CompetitionNext]_vars => [Next]_vars
  BY DEF CompetitionNext, Next, Handlers
<1> QED BY <1>1, PTL DEF CompetitionSpec, Spec

\* Whatever the requests that change roles, scopes, users, competitions, groups and their
\* members are, however their calls interleave and fail, and however many there are: every
\* link has both its ends, every group its scope, and every try its user and its
\* competition.  Nothing but the foreign keys stands behind the counts and the deletions of
\* links that the handlers make before they delete a row.
THEOREM AdministrationKeepsForeignKeys == Spec => []ForeignKeys
<1>1. Init => IInv
  BY InitHolds
<1>2. IInv /\ [Next]_vars => IInv'
  <2>1. SUFFICES ASSUME IInv, [Next]_vars PROVE IInv'
    OBVIOUS
  <2>2. ASSUME NEW r \in Requests, Handlers(r)
        PROVE  IInv'
    BY <2>1, <2>2, HandlersEnter, EnteredKeeps
  <2>3. ASSUME NEW r \in Requests, Steps(r)
        PROVE  IInv'
    BY <2>1, <2>3, StepsKeep
  <2>4. ASSUME NEW r \in Requests, Fail(r)
        PROVE  IInv'
    BY <2>1, <2>4, FailKeeps
  <2>5. CASE UNCHANGED vars
    BY <2>1, <2>5, StutteringKeeps
  <2>6. QED
    BY <2>1, <2>2, <2>3, <2>4, <2>5 DEF Next
<1>3. IInv => ForeignKeys
  BY DEF IInv
<1>4. QED
  BY <1>1, <1>2, <1>3, PTL DEF Spec

----------------------------------------------------------------------------
(* The order of the calls *)

LEMMA ForUserLooks ==
    ASSUME NEW u, NEW v, NEW bits, NEW name
    PROVE  Looking(ForUser(u, v, bits), name)
<1> DEFINE A == <<Find({v}, "all")>>
           B == <<OwnsFound(u)>>
<1>1. Tuple(A, 1) /\ Tuple(B, 1)
  BY DEF Tuple
<1>2. Looking(A, name) /\ Looking(B, name)
  BY <1>1, TupleIs, Kinds DEF Looking, Looks
<1> HIDE DEF A, B
<1>3. Looking(A \o (IF \E b \in bits : Has(u, b) THEN <<>> ELSE B), name)
  BY <1>2, NoCalls, LookingOn
<1>4. QED
  BY <1>3 DEF ForUser, A, B

LEMMA AccessHandlersGo ==
    ASSUME InOrder, NEW r \in Requests, AccessHandlers(r)
    PROVE  \E name : name # Untied /\ EnteredAs(r, name)
<1>1. CASE CreateRole(r)
  <2>1. Serves(r, 6, 1, 5)
    BY ServeListed
  <2>2. EnteredAs(r, "CreateRole")
    BY SMTT(30), <1>1, <2>1, Kinds DEF CreateRole, Serves, Listed, Tuple, Shaped, Looks
  <2>3. QED
    BY <2>2 DEF Untied
<1>2. CASE DeleteRole(r)
  <2>1. Serves(r, 6, 2, 6)
    BY ServeListed
  <2>2. EnteredAs(r, "DeleteRole")
    BY SMTT(30), <1>2, <2>1, Kinds DEF DeleteRole, Serves, Listed, Tuple, Shaped, Looks
  <2>3. QED
    BY <2>2 DEF Untied
<1>3. CASE AttachRoleToUser(r)
  <2>1. PICK u \in Users \cap DOMAIN db, v \in Users, o \in Roles :
       Serve(r, "AttachRoleToUser", Has(u, "ROLES"), {{v, o}},
             <<Begin, First(v), First(o), Check({{v, o}}, FALSE, "error"),
               Create({{v, o}}, Nothing), Commit, Reload(v)>>)
    BY <1>3, Zenon DEF AttachRoleToUser
  <2> DEFINE D == Check({{v, o}}, FALSE, "error")
             s == <<Begin, First(v), First(o), D, Create({{v, o}}, Nothing), Commit, Reload(v)>>
  <2>2. D.op = "check"
    BY DEF Check
  <2> HIDE DEF D
  <2>3. Listed(s, "AttachRoleToUser", 7, 1, 6)
    BY <2>2, Kinds DEF Listed, Tuple, Shaped, Looks
  <2> HIDE DEF s
  <2>4. Whole(s, "AttachRoleToUser")
    BY <2>3, ListedIsWhole
  <2>5. EnteredAs(r, "AttachRoleToUser")
    BY <2>1, <2>4, ServeGoes, Zenon DEF s, D
  <2>6. QED
    BY <2>5 DEF Untied
<1>4. CASE DetachRoleFromUser(r)
  <2>1. PICK u \in Users \cap DOMAIN db, v \in Users, o \in Roles :
          Serve(r, "DetachRoleFromUser", Has(u, "ROLES"), {},
            <<Begin, First(v), First(o), First({v, o}), Delete({{v, o}}), Commit, Reload(v)>>)
    BY <1>4, Zenon DEF DetachRoleFromUser
  <2> DEFINE s == <<Begin, First(v), First(o), First({v, o}), Delete({{v, o}}), Commit,
                    Reload(v)>>
  <2>2. Listed(s, "DetachRoleFromUser", 7, 1, 6)
    BY Kinds DEF Listed, Tuple, Shaped, Looks
  <2> HIDE DEF s
  <2>3. Whole(s, "DetachRoleFromUser")
    BY <2>2, ListedIsWhole
  <2>4. EnteredAs(r, "DetachRoleFromUser")
    BY <2>1, <2>3, ServeGoes, Zenon DEF s
  <2>5. QED
    BY <2>4 DEF Untied
<1>5. CASE CreateScope(r)
  <2>1. Serves(r, 7, 1, 6)
    BY ServeListed
  <2>2. EnteredAs(r, "CreateScope")
    BY SMTT(30), <1>5, <2>1, Kinds DEF CreateScope, Serves, Listed, Tuple, Shaped, Looks
  <2>3. QED
    BY <2>2 DEF Untied
<1>6. CASE DeleteScope(r)
  <2>1. PICK u \in Users \cap DOMAIN db, s \in Scopes :
       Serve(r, "DeleteScope", Has(u, "SCOPES"), {},
             <<Begin, First(s), Check({g \in Groups : ScopeOf[g] = s}, FALSE, "error"),
               Delete(LinksOf(s, Catalogs)), Delete(LinksOf(s, Roles)), Delete({s}), Commit>>)
    BY <1>6, Zenon DEF DeleteScope
  <2> DEFINE D == Check({g \in Groups : ScopeOf[g] = s}, FALSE, "error")
             t == <<Begin, First(s), D,
               Delete(LinksOf(s, Catalogs)), Delete(LinksOf(s, Roles)), Delete({s}), Commit>>
  <2>2. D.op = "check"
    BY DEF Check
  <2> HIDE DEF D
  <2>3. Listed(t, "DeleteScope", 7, 1, 7)
    BY <2>2, Kinds DEF Listed, Tuple, Shaped, Looks
  <2> HIDE DEF t
  <2>4. Whole(t, "DeleteScope")
    BY <2>3, ListedIsWhole
  <2>5. EnteredAs(r, "DeleteScope")
    BY <2>1, <2>4, ServeGoes, Zenon DEF t, D
  <2>6. QED
    BY <2>5 DEF Untied
<1>7. CASE AttachScopeToRole(r)
  <2>1. Serves(r, 7, 1, 6)
    BY ServeListed
  <2>2. EnteredAs(r, "AttachScopeToRole")
    BY SMTT(30), <1>7, <2>1, Kinds DEF AttachScopeToRole, Serves, Listed, Tuple, Shaped, Looks
  <2>3. QED
    BY <2>2 DEF Untied
<1>8. CASE DetachScopeFromRole(r)
  <2>1. Serves(r, 6, 1, 5)
    BY ServeListed
  <2>2. EnteredAs(r, "DetachScopeFromRole")
    BY SMTT(30), <1>8, <2>1, Kinds DEF DetachScopeFromRole, Serves, Listed, Tuple, Shaped, Looks
  <2>3. QED
    BY <2>2 DEF Untied
<1>9. CASE CreateUserAndAttachRoles(r)
  <2>1. Serves(r, 6, 1, 5)
    BY ServeListed
  <2>2. EnteredAs(r, "CreateUserAndAttachRoles")
    BY SMTT(30), <1>9, <2>1, Kinds DEF CreateUserAndAttachRoles, Serves, Listed, Tuple, Shaped, Looks
  <2>3. QED
    BY <2>2 DEF Untied
<1>10. CASE UpdateUserRoles(r)
  <2>1. Serves(r, 7, 1, 6)
    BY ServeListed
  <2>2. EnteredAs(r, "UpdateUserRoles")
    BY SMTT(30), <1>10, <2>1, Kinds DEF UpdateUserRoles, Serves, Listed, Tuple, Shaped, Looks
  <2>3. QED
    BY <2>2 DEF Untied
<1>11. CASE CreateGroup(r)
  <2>1. Serves(r, 2, 2, 2)
    BY ServeListed
  <2>2. EnteredAs(r, "CreateGroup")
    BY SMTT(30), <1>11, <2>1, Kinds DEF CreateGroup, Serves, Listed, Tuple, Shaped, Looks
  <2>3. QED
    BY <2>2 DEF Untied
<1>12. CASE UpdateUserProfile(r)
  <2>1. \A u : Listed(<<Begin, Updates(u, Nothing), Associate(u), Commit, Reload(u)>>,
                     "UpdateUserProfile", 5, 1, 4)
     BY Kinds DEF Listed, Tuple, Shaped, Looks
  <2>2. EnteredAs(r, "UpdateUserProfile")
     BY <1>12, <2>1, ListedIsWhole, ServeWithGoes DEF UpdateUserProfile
  <2>3. QED
    BY <2>2 DEF Untied
<1>13. CASE Login(r)
  <2>1. \A u : Listed(<<Begin, Save(u), Associate(u), Commit>>, "Login", 4, 1, 4)
     BY Kinds DEF Listed, Tuple, Shaped, Looks
  <2>2. EnteredAs(r, "Login")
     BY <1>13, <2>1, ListedIsWhole, ServeWithGoes DEF Login
  <2>3. QED
    BY <2>2 DEF Untied
<1>14. CASE UpdateRoleByID(r)
  <2> DEFINE name == "UpdateRoleByID"
  <2>1. PICK u \in Users \cap DOMAIN db, o \in Roles, p \in Grants, S \in Some(Scopes),
             list \in BOOLEAN :
          Serve(r, name, Has(u, "ROLES"), LinksOf(o, S),
                <<First(o), Begin, Updates(o, IF p = {} THEN Nothing ELSE [permissions |-> p])>>
                  \o (IF list THEN <<Delete(LinksOf(o, Scopes)), Find(S, "all"), Associate(o)>>
                              ELSE <<>>)
                  \o <<Commit, Reload(o)>>)
    BY <1>14, Zenon DEF UpdateRoleByID
  <2> DEFINE set == IF p = {} THEN Nothing ELSE [permissions |-> p]
             A == <<First(o), Begin, Updates(o, set)>>
             B == <<Delete(LinksOf(o, Scopes)), Find(S, "all"), Associate(o)>>
             C == <<Commit, Reload(o)>>
  <2>2. Tuple(A, 3) /\ Tuple(B, 3) /\ Tuple(C, 2)
    BY DEF Tuple
  <2>3. Opens(A, name, 2)
    BY <2>2, TupleIs, Kinds DEF Opens, Looks
  <2>4. Working(B, name)
    BY <2>2, TupleIs, Kinds DEF Working
  <2>5. Ends(C, name, 1)
    BY <2>2, TupleIs, Kinds DEF Ends
  <2> HIDE DEF A, B, C
  <2>6. Whole(A \o (IF list THEN B ELSE <<>>) \o C, name)
    BY <2>3, <2>4, <2>5, NoCalls, OpensOn, OpensEnds
  <2>7. EnteredAs(r, name)
    BY <2>1, <2>6, ServeGoes DEF A, B, C
  <2>8. QED
    BY <2>7 DEF Untied
<1>15. CASE UpdateScope(r)
  <2> DEFINE name == "UpdateScope"
  <2>1. PICK u, s, K :
          Serve(r, name, Has(u, "SCOPES"), LinksOf(s, K),
             <<Load(s), Begin, Find(K, "count"), Save(s), Find(K, "any")>>
               \o Replace(s, Catalogs) \o <<Commit, Reload(s)>>)
    BY <1>15 DEF UpdateScope
  <2> DEFINE A == <<Load(s), Begin, Find(K, "count"), Save(s), Find(K, "any")>>
             C == <<Commit, Reload(s)>>
  <2>2. Tuple(A, 5) /\ Tuple(C, 2)
    BY DEF Tuple
  <2>3. Opens(A, name, 2)
    BY <2>2, TupleIs, Kinds DEF Opens, Looks
  <2>5. Ends(C, name, 1)
    BY <2>2, TupleIs, Kinds DEF Ends
  <2> HIDE DEF A, C
  <2>6. Whole(A \o Replace(s, Catalogs) \o C, name)
    BY <2>3, <2>5, ReplaceWorks, OpensOn, OpensEnds
  <2>7. EnteredAs(r, name)
    BY <2>1, <2>6, ServeGoes DEF A, C
  <2>8. QED
    BY <2>7 DEF Untied
<1>16. CASE UpdateTargetUserProfile(r)
  <2> DEFINE name == "UpdateTargetUserProfile"
             links(v, X, all) == IF X = {} THEN <<>>
                            ELSE <<Find(X, "all"), Delete(LinksOf(v, all))>> \o Replace(v, all)
  <2>1. PICK u, v, O, G :
          Serve(r, name, TRUE, LinksOf(v, O \cup G),
                ForUser(u, v, {"GROUPS", "OWNER"})
                  \o <<Begin, Updates(v, Nothing)>> \o links(v, O, Roles) \o links(v, G, Groups)
                  \o <<Commit, Reload(v)>>)
    BY <1>16 DEF UpdateTargetUserProfile
  <2> DEFINE F == ForUser(u, v, {"GROUPS", "OWNER"})
             A == <<Begin, Updates(v, Nothing)>>
             C == <<Commit, Reload(v)>>
  <2>2. Tuple(A, 2) /\ Tuple(C, 2)
    BY DEF Tuple
  <2>3. Opens(A, name, 1)
    BY <2>2, TupleIs, Kinds DEF Opens, Looks
  <2>4. \A X, all : Working(links(v, X, all), name)
    <3>1. ASSUME NEW X, NEW all
          PROVE  Working(<<Find(X, "all"), Delete(LinksOf(v, all))>>, name)
      <4>1. Tuple(<<Find(X, "all"), Delete(LinksOf(v, all))>>, 2)
        BY DEF Tuple
      <4>2. QED
        BY <4>1, TupleIs, Kinds DEF Working
    <3>2. QED
      BY <3>1, NoCalls, ReplaceWorks, WorkingOn
  <2>5. Ends(C, name, 1)
    BY <2>2, TupleIs, Kinds DEF Ends
  <2>6. Looking(F, name)
    BY ForUserLooks
  <2> DEFINE L1 == links(v, O, Roles)
             L2 == links(v, G, Groups)
  <2>7. Working(L1, name) /\ Working(L2, name)
    BY <2>4
  <2> HIDE DEF A, C, F, L1, L2
  <2>8. Opens(F \o A, name, Len(F) + 1)
    BY <2>3, <2>6, LookingOpens
  <2>9. Opens(F \o A \o L1 \o L2, name, Len(F) + 1)
    BY <2>7, <2>8, OpensOn
  <2>10. Whole(F \o A \o L1 \o L2 \o C, name)
    BY <2>5, <2>9, OpensEnds
  <2>11. EnteredAs(r, name)
    BY <2>1, <2>10, ServeGoes DEF A, C, F, L1, L2
  <2>12. QED
    BY <2>11 DEF Untied
<1>17. CASE DeleteUser(r)
  <2> DEFINE name == "DeleteUser"
  <2>1. PICK u, v :
          Serve(r, name, TRUE, {},
             ForUser(u, v, {"OWNER"})
               \o <<Begin, Delete(LinksOf(v, Roles)), Delete(LinksOf(v, Groups)), Delete({v}),
                    Commit>>)
    BY <1>17 DEF DeleteUser
  <2> DEFINE B == <<Begin, Delete(LinksOf(v, Roles)), Delete(LinksOf(v, Groups)), Delete({v}),
                    Commit>>
  <2>2. Listed(B, name, 5, 1, 5)
    BY Kinds DEF Listed, Tuple, Shaped, Looks
  <2> HIDE DEF B
  <2>3. Whole(ForUser(u, v, {"OWNER"}) \o B, name)
    BY <2>2, ListedIsWhole, ForUserLooks, LookingWhole
  <2>4. EnteredAs(r, name)
    BY <2>1, <2>3, ServeGoes DEF B
  <2>5. QED
    BY <2>4 DEF Untied
<1>18. QED
  BY <1>1, <1>2, <1>3, <1>4, <1>5, <1>6, <1>7, <1>8, <1>9, <1>10, <1>11, <1>12, <1>13, <1>14,
     <1>15, <1>16, <1>17 DEF AccessHandlers

LEMMA ManagingLooks ==
    ASSUME NEW u, NEW g, NEW name
    PROVE  Looking(<<First(g)>> \o Managing(u, g), name)
<1> DEFINE A == <<First(g)>>
           B == <<Manages(u, g)>>
<1>1. Tuple(A, 1) /\ Tuple(B, 1)
  BY DEF Tuple
<1>2. Looking(A, name) /\ Looking(B, name)
  BY <1>1, TupleIs, Kinds DEF Looking, Looks
<1> HIDE DEF A, B
<1>3. Looking(A \o (IF Has(u, "OWNER") THEN <<>> ELSE B), name)
  BY <1>2, NoCalls, LookingOn
<1>4. QED
  BY <1>3 DEF Managing, A, B

LEMMA CreateEachWorks ==
    ASSUME NEW X, NEW list \in Lists(X), NEW name
    PROVE  Working(CreateEach(list), name)
<1>1. PICK n \in 1 .. MaxAsked : list \in [1 .. n -> X]
  BY DEF Lists
<1>2. n \in Nat
  BY MaxAskedAssumption
<1>3. Len(list) = n
  BY <1>1, <1>2
<1> DEFINE s == CreateEach(list)
           k == 2 * Len(list)
<1>4. k \in Nat
  BY <1>2, <1>3
<1>5. \A i \in 1 .. k : s[i].op = "create" \/ s[i].op = "append"
  BY Kinds DEF CreateEach
<1>6. Tuple(s, k)
  BY DEF CreateEach, Tuple
<1> HIDE DEF s, k
<1>7. Calls(s) /\ Len(s) = k
  BY <1>4, <1>6, TupleIs
<1>8. QED
  BY <1>5, <1>7 DEF Working, s

LEMMA CompetitionHandlersGo ==
    ASSUME InOrder, NEW r \in Requests, CompetitionHandlers(r)
    PROVE  \E name : EnteredAs(r, name)
<1>1. CASE CreateCompetition(r)
  <2> DEFINE name == "CreateCompetition"
  <2>1. PICK u \in Users \cap DOMAIN db, k \in Catalogs, c \in New(Competitions), show \in BOOLEAN,
             G \in Some(Groups) :
       Serve(r, "CreateCompetition", hasCompetitionPermission(u), {c} \cup LinksOf(c, G),
             <<First(k), Begin, Create({c}, [show |-> show, finished |-> FALSE])>>
               \o (IF G = {} THEN <<>> ELSE <<Find(G, "any"), Associate(c)>>)
               \o <<CommitUnchecked>>)
    BY <1>1, Zenon DEF CreateCompetition
  <2> DEFINE A == <<First(k), Begin, Create({c}, [show |-> show, finished |-> FALSE])>>
             B == <<Find(G, "any"), Associate(c)>>
             C == <<CommitUnchecked>>
  <2>2. Tuple(A, 3) /\ Tuple(B, 2) /\ Tuple(C, 1)
    BY DEF Tuple
  <2>3. Opens(A, name, 2)
    BY <2>2, TupleIs, Kinds DEF Opens, Looks
  <2>4. Working(B, name)
    BY <2>2, TupleIs, Kinds DEF Working
  <2>5. Ends(C, name, 1)
    BY <2>2, TupleIs, Kinds DEF Ends
  <2> HIDE DEF A, B, C
  <2>6. Whole(A \o (IF G = {} THEN <<>> ELSE B) \o C, name)
    BY <2>3, <2>4, <2>5, NoCalls, OpensOn, OpensEnds
  <2>7. EnteredAs(r, name)
    BY <2>1, <2>6, ServeGoes DEF A, B, C
  <2>8. QED
    BY <2>7
<1>2. CASE UpdateCompetition(r)
  <2>1. PICK u \in Users \cap DOMAIN db, c \in Competitions, G \in Some(Groups),
       set \in {Nothing} \cup [{"show"} -> BOOLEAN] \cup [{"finished"} -> BOOLEAN] :
       Serve(r, "UpdateCompetition", hasCompetitionPermission(u), LinksOf(c, G),
             <<First(c)>>
               \o (IF G = {} THEN <<>> ELSE <<Find(G, "any")>> \o Replace(c, Groups))
               \o <<Begin, Updates(c, set), Associate(c), Commit>>)
    BY <1>2, Zenon DEF UpdateCompetition
  <2> DEFINE A == <<First(c)>>
             B == <<Find(G, "any")>>
             R == Replace(c, Groups)
             C == <<Begin, Updates(c, set), Associate(c), Commit>>
  <2>2. Tuple(A, 1) /\ Tuple(B, 1) /\ Tuple(R, 2)
    BY DEF Tuple, Replace
  <2>3. Looking(A, Untied) /\ Looking(B, Untied)
    BY <2>2, TupleIs, Kinds DEF Looking, Looks
  <2>4. Looking(R, Untied)
    BY <2>2, TupleIs, Kinds DEF Looking, Replace
  <2>5. Listed(C, Untied, 4, 1, 4)
    BY Kinds DEF Listed, Tuple, Shaped, Looks
  <2> HIDE DEF A, B, C, R
  <2>6. Looking(A \o (IF G = {} THEN <<>> ELSE B \o R), Untied)
    BY <2>3, <2>4, NoCalls, LookingOn
  <2>7. Whole(A \o (IF G = {} THEN <<>> ELSE B \o R) \o C, Untied)
    BY <2>5, <2>6, ListedIsWhole, LookingWhole
  <2>8. EnteredAs(r, Untied)
    BY <2>1, <2>7, ServeGoes DEF A, B, C, R, Untied
  <2>9. QED
    BY <2>8
<1>3. CASE DeleteCompetition(r)
  <2>1. Serves(r, 6, 2, 6)
    BY ServeListed
  <2>2. QED
    BY <1>3, <2>1, Kinds DEF DeleteCompetition, Serves, Listed, Tuple, Shaped, Looks
<1>4. CASE FinishCompetition(r)
  <2>1. Serves(r, 3, 3, 3)
    BY ServeListed
  <2>2. QED
    BY <1>4, <2>1, Kinds DEF FinishCompetition, Serves, Listed, Tuple, Shaped, Looks
<1>5. CASE ToggleCompetitionVisibility(r)
  <2>1. Serves(r, 3, 3, 3)
    BY ServeListed
  <2>2. QED
    BY <1>5, <2>1, Kinds DEF ToggleCompetitionVisibility, Serves, Listed, Tuple, Shaped, Looks
<1>6. CASE AddGroupToCompetition(r)
  <2>1. Serves(r, 6, 1, 6)
    BY ServeListed
  <2>2. QED
    BY <1>6, <2>1, Kinds DEF AddGroupToCompetition, Serves, Listed, Tuple, Shaped, Looks
<1>7. CASE RemoveGroupFromCompetition(r)
  <2>1. Serves(r, 6, 1, 6)
    BY ServeListed
  <2>2. QED
    BY <1>7, <2>1, Kinds DEF RemoveGroupFromCompetition, Serves, Listed, Tuple, Shaped, Looks
<1>8. CASE CreateGroup(r)
  <2>1. Serves(r, 2, 2, 2)
    BY ServeListed
  <2>2. QED
    BY <1>8, <2>1, Kinds DEF CreateGroup, Serves, Listed, Tuple, Shaped, Looks
<1>9. CASE UpdateGroup(r)
  <2> DEFINE name == "UpdateGroup"
  <2>1. PICK u \in Users \cap DOMAIN db, g \in Groups :
          Serve(r, name, TRUE, {}, <<First(g)>> \o Managing(u, g) \o <<Updates(g, Nothing)>>)
    BY <1>9, Zenon DEF UpdateGroup
  <2> DEFINE C == <<Updates(g, Nothing)>>
  <2>2. Listed(C, name, 1, 1, 1)
    BY Kinds DEF Listed, Tuple, Shaped, Looks
  <2> HIDE DEF C
  <2>3. Whole(<<First(g)>> \o Managing(u, g) \o C, name)
    BY <2>2, ListedIsWhole, ManagingLooks, LookingWhole
  <2>4. EnteredAs(r, name)
    BY <2>1, <2>3, ServeGoes DEF C
  <2>5. QED
    BY <2>4
<1>10. CASE DeleteGroup(r)
  <2> DEFINE name == "DeleteGroup"
  <2>1. PICK u \in Users \cap DOMAIN db, g \in Groups :
          Serve(r, name, TRUE, {}, <<First(g)>> \o Managing(u, g)
               \o <<Begin, Delete(LinksOf(g, Users)), Delete(LinksOf(g, Competitions)),
                    Delete({g}), CommitUnchecked>>)
    BY <1>10, Zenon DEF DeleteGroup
  <2> DEFINE C == <<Begin, Delete(LinksOf(g, Users)), Delete(LinksOf(g, Competitions)),
                    Delete({g}), CommitUnchecked>>
  <2>2. Listed(C, name, 5, 1, 5)
    BY Kinds DEF Listed, Tuple, Shaped, Looks
  <2> HIDE DEF C
  <2>3. Whole(<<First(g)>> \o Managing(u, g) \o C, name)
    BY <2>2, ListedIsWhole, ManagingLooks, LookingWhole
  <2>4. EnteredAs(r, name)
    BY <2>1, <2>3, ServeGoes DEF C
  <2>5. QED
    BY <2>4
<1>11. CASE AddUserToGroup(r)
  <2>1. PICK u \in Users \cap DOMAIN db, v \in Users, g \in Groups :
       Serve(r, "AddUserToGroup", TRUE, {{v, g}},
             <<First(g), Manages(u, g), Find({v}, "all"), Check({{v, g}}, FALSE, "ok"),
               Associate(g)>>)
    BY <1>11, Zenon DEF AddUserToGroup
  <2> DEFINE D == Check({{v, g}}, FALSE, "ok")
             s == <<First(g), Manages(u, g), Find({v}, "all"), D, Associate(g)>>
  <2>2. D.op = "check"
    BY DEF Check
  <2> HIDE DEF D
  <2>3. Listed(s, "AddUserToGroup", 5, 5, 5)
    BY <2>2, Kinds DEF Listed, Tuple, Shaped, Looks
  <2> HIDE DEF s
  <2>4. Whole(s, "AddUserToGroup")
    BY <2>3, ListedIsWhole
  <2>5. QED
    BY <2>1, <2>4, ServeGoes, Zenon DEF s, D
<1>12. CASE RemoveUserFromGroup(r)
  <2>1. PICK u \in Users \cap DOMAIN db, v \in Users, g \in Groups :
       Serve(r, "RemoveUserFromGroup", TRUE, {},
             <<First(g), Manages(u, g), First(v), Check({{v, g}}, TRUE, "ok"),
               Delete({{v, g}})>>)
    BY <1>12, Zenon DEF RemoveUserFromGroup
  <2> DEFINE D == Check({{v, g}}, TRUE, "ok")
             s == <<First(g), Manages(u, g), First(v), D, Delete({{v, g}})>>
  <2>2. D.op = "check"
    BY DEF Check
  <2> HIDE DEF D
  <2>3. Listed(s, "RemoveUserFromGroup", 5, 5, 5)
    BY <2>2, Kinds DEF Listed, Tuple, Shaped, Looks
  <2> HIDE DEF s
  <2>4. Whole(s, "RemoveUserFromGroup")
    BY <2>3, ListedIsWhole
  <2>5. QED
    BY <2>1, <2>4, ServeGoes, Zenon DEF s, D
<1>13. CASE CreateUserAndAttachGroup(r)
  <2>1. Serves(r, 6, 1, 5)
    BY ServeListed
  <2>2. QED
    BY <1>13, <2>1, Kinds DEF CreateUserAndAttachGroup, Serves, Listed, Tuple, Shaped, Looks
<1>14. CASE CreateBulkUsersAndAttachGroup(r)
  <2> DEFINE name == "CreateBulkUsersAndAttachGroup"
  <2>1. PICK u \in Users \cap DOMAIN db, list \in Lists(Users \ dead), g \in Groups :
       Serve(r, name, Has(u, "OWNER"), AskedFor(list, g),
             <<Find({g}, "all"), Begin>> \o CreateEach(list) \o <<Commit>>)
    BY <1>14, Zenon DEF CreateBulkUsersAndAttachGroup
  <2> DEFINE A == <<Find({g}, "all"), Begin>>
             C == <<Commit>>
  <2>2. Tuple(A, 2) /\ Tuple(C, 1)
    BY DEF Tuple
  <2>3. Opens(A, name, 2)
    BY <2>2, TupleIs, Kinds DEF Opens, Looks
  <2>4. Ends(C, name, 1)
    BY <2>2, TupleIs, Kinds DEF Ends
  <2> HIDE DEF A, C
  <2>5. Whole(A \o CreateEach(list) \o C, name)
    BY <2>3, <2>4, CreateEachWorks, OpensOn, OpensEnds
  <2>6. EnteredAs(r, name)
    BY <2>1, <2>5, ServeGoes DEF A, C
  <2>7. QED
    BY <2>6
<1>15. CASE ImportUsersFromXLSXToGroup(r)
  <2> DEFINE name == "ImportUsersFromXLSXToGroup"
  <2>0. PICK u \in Users \cap DOMAIN db, list \in Lists(Users \ dead), g \in Groups : \E X :
       Serve(r, name, Has(u, "OWNER"), AskedFor(list, g),
             <<Find({g}, "all"), Begin, Check(X, FALSE, "error")>>
               \o CreateEach(list) \o <<Commit>>)
    BY <1>15, Zenon DEF ImportUsersFromXLSXToGroup
  <2>1. PICK X :
       Serve(r, name, Has(u, "OWNER"), AskedFor(list, g),
             <<Find({g}, "all"), Begin, Check(X, FALSE, "error")>>
               \o CreateEach(list) \o <<Commit>>)
    BY <2>0
  <2> DEFINE D == Check(X, FALSE, "error")
             A == <<Find({g}, "all"), Begin, D>>
             C == <<Commit>>
  <2>2. D.op = "check"
    BY DEF Check
  <2> HIDE DEF D
  <2>3. Tuple(A, 3) /\ Tuple(C, 1)
    BY DEF Tuple
  <2>4. Opens(A, name, 2)
    BY <2>2, <2>3, TupleIs, Kinds DEF Opens, Looks
  <2>5. Ends(C, name, 1)
    BY <2>3, TupleIs, Kinds DEF Ends
  <2> HIDE DEF A, C
  <2>6. Whole(A \o CreateEach(list) \o C, name)
    BY <2>4, <2>5, CreateEachWorks, OpensOn, OpensEnds
  <2>7. EnteredAs(r, name)
    BY <2>1, <2>6, ServeGoes, Zenon DEF A, C, D
  <2>8. QED
    BY <2>7
<1>16. CASE DeleteAllUsersFromGroup(r)
  <2>1. PICK u \in Users \cap DOMAIN db, g \in Groups :
       Serve(r, "DeleteAllUsersFromGroup", Has(u, "OWNER"), {},
             <<First(g), Begin, Members(g), LeaveIfNone, DetachFound({g}),
               DetachFound(Roles), DeleteFound, Commit>>)
    BY <1>16, Zenon DEF DeleteAllUsersFromGroup
  <2> DEFINE s == <<First(g), Begin, Members(g), LeaveIfNone, DetachFound({g}),
               DetachFound(Roles), DeleteFound, Commit>>
  <2>2. Listed(s, Leaver, 8, 2, 8)
    BY Kinds DEF Listed, Tuple, Shaped, Looks
  <2> HIDE DEF s
  <2>3. Whole(s, Leaver)
    BY <2>2, ListedIsWhole
  <2>4. QED
    BY <2>1, <2>3, ServeGoes, Zenon DEF s, Leaver
<1>17. CASE BulkDeleteUsers(r)
  <2> DEFINE name == "BulkDeleteUsers"
  <2>1. PICK u \in Users \cap DOMAIN db, V \in Some(Users) \ {{}} :
       Serve(r, name, TRUE, {},
             <<Find(V, "some")>> \o (IF Has(u, "OWNER") THEN <<>> ELSE <<OwnsFound(u)>>)
               \o <<Begin, DetachFound(Roles \cup Groups), Delete(V), Commit>>)
    BY <1>17, Zenon DEF BulkDeleteUsers
  <2> DEFINE A == <<Find(V, "some")>>
             B == <<OwnsFound(u)>>
             C == <<Begin, DetachFound(Roles \cup Groups), Delete(V), Commit>>
  <2>2. Tuple(A, 1) /\ Tuple(B, 1)
    BY DEF Tuple
  <2>3. Looking(A, name) /\ Looking(B, name)
    BY <2>2, TupleIs, Kinds DEF Looking, Looks
  <2>4. Listed(C, name, 4, 1, 4)
    BY Kinds DEF Listed, Tuple, Shaped, Looks
  <2> HIDE DEF A, B, C
  <2>5. Whole(A \o (IF Has(u, "OWNER") THEN <<>> ELSE B) \o C, name)
    BY <2>3, <2>4, NoCalls, LookingOn, ListedIsWhole, LookingWhole
  <2>6. EnteredAs(r, name)
    BY <2>1, <2>5, ServeGoes DEF A, B, C
  <2>7. QED
    BY <2>6
<1>18. CASE TriggerPuzzleFirstTry(r)
  <2>1. PICK u \in Users \cap DOMAIN db, c \in Competitions :
       Serve(r, "TriggerPuzzleFirstTry", GetAccessibleCompetition(u, c), {{u, c}},
             <<Check({{u, c}}, FALSE, "ok"), Create({{u, c}}, Nothing)>>)
    BY <1>18, Zenon DEF TriggerPuzzleFirstTry
  <2> DEFINE D == Check({{u, c}}, FALSE, "ok")
             s == <<D, Create({{u, c}}, Nothing)>>
  <2>2. D.op = "check"
    BY DEF Check
  <2> HIDE DEF D
  <2>3. Listed(s, "TriggerPuzzleFirstTry", 2, 2, 2)
    BY <2>2, Kinds DEF Listed, Tuple, Shaped, Looks
  <2> HIDE DEF s
  <2>4. Whole(s, "TriggerPuzzleFirstTry")
    BY <2>3, ListedIsWhole
  <2>5. QED
    BY <2>1, <2>4, ServeGoes, Zenon DEF s, D
<1>19. QED
  BY <1>1, <1>2, <1>3, <1>4, <1>5, <1>6, <1>7, <1>8, <1>9, <1>10, <1>11, <1>12, <1>13, <1>14,
     <1>15, <1>16, <1>17, <1>18 DEF CompetitionHandlers

LEMMA HandlersGo ==
    ASSUME InOrder, NEW r \in Requests, Handlers(r)
    PROVE  \E name : EnteredAs(r, name)
  BY AccessHandlersGo, CompetitionHandlersGo DEF Handlers

\* What every step does to every request.
EachSound ==
    \A r \in Requests :
       /\ req[r].wrote => req'[r].wrote
       /\ req'[r].answer = "error" /\ req[r].answer # "error"
             => ~req'[r].wrote \/ req[r].name = Untied
       /\ req'[r].answer # "none" /\ req'[r].open
             => req[r].open /\ (Running(r) => req[r].name = Leaver)

LEMMA NextIsSound ==
    ASSUME InOrder, [Next]_vars
    PROVE  InOrder' /\ EachSound
<1>1. ASSUME NEW q \in Requests, req'[q].name = req[q].name, req'[q].answer = req[q].answer,
             req'[q].open = req[q].open, req'[q].wrote = req[q].wrote
      PROVE  /\ req[q].wrote => req'[q].wrote
             /\ ~(req'[q].answer = "error" /\ req[q].answer # "error")
             /\ req'[q].answer # "none" /\ req'[q].open => req[q].open /\ ~Running(q)
  BY <1>1 DEF InOrder, Going, Running
<1>2. ASSUME NEW r \in Requests, Unserved(r), Handlers(r)
      PROVE  InOrder' /\ EachSound
  <2>1. PICK name : EnteredAs(r, name)
    BY <1>2, HandlersGo
  <2>2. InOrder'
    BY <2>1, EnteredInOrder
  <2>3. \A q \in Requests \ {r} : req'[q] = req[q]
    BY <2>1 DEF EnteredAs
  <2>4. req[r].wrote = FALSE
    BY <1>2 DEF Unserved, Idle
  <2>5. ~req'[r].wrote /\ (req'[r].answer # "none" => ~req'[r].open)
    BY <2>1 DEF EnteredAs, Fresh
  <2>6. QED
    BY <1>1, <2>2, <2>3, <2>4, <2>5 DEF EachSound
<1>3. ASSUME NEW r \in Requests, Steps(r) \/ Fail(r)
      PROVE  InOrder' /\ EachSound
  <2>1. StepSound(r)
    BY <1>3, StepsAreSound, FailIsSound
  <2>2. InOrder'
    BY <2>1, SoundStaysInOrder
  <2>3. \A q \in Requests \ {r} :
           /\ req'[q].name = req[q].name /\ req'[q].answer = req[q].answer
           /\ req'[q].open = req[q].open /\ req'[q].wrote = req[q].wrote
    BY <2>1, OthersStay
  <2>4. /\ req[r].wrote => req'[r].wrote
        /\ req'[r].answer = "error" => ~req'[r].wrote \/ req[r].name = Untied
        /\ req'[r].answer # "none" /\ req'[r].open => req[r].open /\ req[r].name = Leaver
    BY <2>1 DEF StepSound, Sound
  <2>5. QED
    BY <1>1, <2>2, <2>3, <2>4 DEF EachSound
<1>4. CASE UNCHANGED vars
  <2>1. InOrder' /\ \A q \in Requests : req'[q] = req[q]
    BY <1>4 DEF vars, InOrder, Going
  <2>2. QED
    BY <1>1, <2>1 DEF EachSound
<1>5. QED
  BY <1>2, <1>3, <1>4 DEF Next

\* What the order keeps true of the handlers of Access.
Clean == \A r \in Requests : req[r].name # Untied /\ (req[r].answer = "error" => ~req[r].wrote)

\* Nobody is told "error" who has changed something, wherever a call of his fails and whatever
\* the other requests have committed meanwhile.
THEOREM ErrorsChangeNothing == AccessSpec => []ErrorChangedNothing
<1>1. Init => InOrder /\ Clean
  BY InitInOrder DEF Clean
<1>2. InOrder /\ Clean /\ [AccessNext]_vars => InOrder' /\ Clean'
  <2>1. SUFFICES ASSUME InOrder, Clean, [AccessNext]_vars PROVE InOrder' /\ Clean'
    OBVIOUS
  <2>2. ASSUME NEW r \in Requests, AccessHandlers(r)
        PROVE  InOrder' /\ Clean'
    <3>1. PICK name : name # Untied /\ EnteredAs(r, name)
      BY <2>1, <2>2, AccessHandlersGo
    <3>2. InOrder'
      BY <2>1, <3>1, EnteredInOrder
    <3>3. req'[r].name # Untied /\ ~req'[r].wrote
      BY <3>1 DEF EnteredAs, Fresh, Untied
    <3>4. \A q \in Requests \ {r} : req'[q] = req[q]
      BY <3>1 DEF EnteredAs
    <3>5. QED
      BY <2>1, <3>2, <3>3, <3>4 DEF Clean
  <2>3. ASSUME NEW r \in Requests, Steps(r) \/ Fail(r)
        PROVE  InOrder' /\ Clean'
    <3>1. StepSound(r)
      BY <2>1, <2>3, StepsAreSound, FailIsSound
    <3>2. InOrder'
      BY <2>1, <3>1, SoundStaysInOrder
    <3>3. req'[r].name # Untied /\ (req'[r].answer = "error" => ~req'[r].wrote)
      BY <2>1, <3>1 DEF StepSound, Sound, Clean, Untied
    <3>4. \A q \in Requests \ {r} : 
             /\ req'[q].name = req[q].name /\ req'[q].answer = req[q].answer
             /\ req'[q].wrote = req[q].wrote
      BY <2>1, <3>1, OthersStay
    <3>5. QED
      BY <2>1, <3>2, <3>3, <3>4 DEF Clean
  <2>4. CASE UNCHANGED vars
    BY <2>1, <2>4 DEF vars, InOrder, Clean, Going
  <2>5. QED
    BY <2>1, <2>2, <2>3, <2>4 DEF AccessNext
<1>3. Clean => ErrorChangedNothing
  BY DEF Clean, ErrorChangedNothing
<1>4. QED
  BY <1>1, <1>2, <1>3, PTL DEF AccessSpec

\* Of all the requests that change the tables, whatever fails and however they overlap, only
\* the update of a competition is told "error" after it has changed something.
THEOREM OthersChangeAllOrNothing == Spec => OnlyUpdateIsPartial
<1>1. Init => InOrder
  BY InitInOrder
<1>2. InOrder /\ [Next]_vars => InOrder'
  BY NextIsSound
<1>3. InOrder /\ [Next]_vars =>
        [\A r \in Requests : Refused(r) /\ req[r].wrote => req[r].name = "UpdateCompetition"]_vars
  <2>1. SUFFICES ASSUME InOrder, [Next]_vars, NEW r \in Requests, Refused(r), req[r].wrote
                 PROVE  req[r].name = "UpdateCompetition"
    OBVIOUS
  <2>2. req'[r].answer = "error" /\ req[r].answer # "error"
    BY <2>1 DEF Refused
  <2>3. QED
    BY <2>1, <2>2, NextIsSound DEF EachSound, Untied
<1>4. QED
  BY <1>1, <1>2, <1>3, PTL DEF Spec, OnlyUpdateIsPartial

\* And only the deletion of the members of a group that has none is answered with its
\* transaction left open.
THEOREM OthersEndTheirTransaction == Spec => OnlyEmptyGroupStaysOpen
<1>1. Init => InOrder
  BY InitInOrder
<1>2. InOrder /\ [Next]_vars => InOrder'
  BY NextIsSound
<1>3. InOrder /\ [Next]_vars =>
        [\A r \in Requests :
          req'[r].open /\ req'[r].answer # "none"
             => req[r].open /\ (Running(r) => req[r].name = "DeleteAllUsersFromGroup")]_vars
  BY NextIsSound DEF EachSound, Leaver
<1>4. QED
  BY <1>1, <1>2, <1>3, PTL DEF Spec, OnlyEmptyGroupStaysOpen

----------------------------------------------------------------------------
(* The queries *)

\* A link says the same whichever end it is looked up from.
LEMMA LinkedSymmetric == \A x, y : Linked(x, y) <=> Linked(y, x)
<1>1. \A x, y : {x, y} = {y, x}
  OBVIOUS
<1> QED BY <1>1 DEF Linked

\* What is linked is there.
LEMMA LinkedExist ==
    ASSUME ForeignKeys
    PROVE  /\ \A u \in Users, o \in Roles :
                 Linked(u, o) => u \in DOMAIN db /\ o \in DOMAIN db
           /\ \A u \in Users, g \in Groups :
                 Linked(u, g) => u \in DOMAIN db /\ g \in DOMAIN db
           /\ \A o \in Roles, s \in Scopes :
                 Linked(o, s) => o \in DOMAIN db /\ s \in DOMAIN db
           /\ \A g \in Groups, c \in Competitions :
                 Linked(g, c) => g \in DOMAIN db /\ c \in DOMAIN db
<1>1. ASSUME NEW A, NEW B, Pairs(A, B) \subseteq Links, NEW a \in A, NEW b \in B, Linked(a, b)
      PROVE  a \in DOMAIN db /\ b \in DOMAIN db
  <2>1. {a, b} \in Links /\ {a, b} \in DOMAIN db
    BY <1>1 DEF Pairs, Linked
  <2>2. Refs({a, b}) = {a, b}
    <3>1. \A x \in Links : x \notin Groups
      BY DistinctAssumption DEF Entities
    <3>2. \A x \in Links : Refs(x) = x
      BY <3>1 DEF Refs
    <3> QED BY <2>1, <3>2
  <2>3. {a, b} \subseteq DOMAIN db
    BY <2>1, <2>2 DEF ForeignKeys, Consistent
  <2> QED BY <2>3
<1>2. /\ Pairs(Users, Roles) \subseteq Links /\ Pairs(Users, Groups) \subseteq Links
      /\ Pairs(Roles, Scopes) \subseteq Links /\ Pairs(Groups, Competitions) \subseteq Links
  BY DEF Links
<1>3. \A u \in Users, o \in Roles : Linked(u, o) => u \in DOMAIN db /\ o \in DOMAIN db
  <2> TAKE u \in Users, o \in Roles
  <2> HAVE Linked(u, o)
  <2> QED BY <1>1, <1>2
<1>4. \A u \in Users, g \in Groups : Linked(u, g) => u \in DOMAIN db /\ g \in DOMAIN db
  <2> TAKE u \in Users, g \in Groups
  <2> HAVE Linked(u, g)
  <2> QED BY <1>1, <1>2
<1>5. \A o \in Roles, s \in Scopes : Linked(o, s) => o \in DOMAIN db /\ s \in DOMAIN db
  <2> TAKE o \in Roles, s \in Scopes
  <2> HAVE Linked(o, s)
  <2> QED BY <1>1, <1>2
<1>6. \A g \in Groups, c \in Competitions : Linked(g, c) => g \in DOMAIN db /\ c \in DOMAIN db
  <2> TAKE g \in Groups, c \in Competitions
  <2> HAVE Linked(g, c)
  <2> QED BY <1>1, <1>2
<1> QED BY <1>3, <1>4, <1>5, <1>6

\* A group comes with its scope.
LEMMA ScopeExists ==
    ASSUME ForeignKeys, NEW g \in Groups, g \in DOMAIN db
    PROVE  ScopeOf[g] \in Scopes /\ ScopeOf[g] \in DOMAIN db
<1>1. g \notin Links
  BY DistinctAssumption DEF Entities
<1>2. Refs(g) = {ScopeOf[g]}
  BY <1>1 DEF Refs
<1>3. Refs(g) \subseteq DOMAIN db
  BY DEF ForeignKeys, Consistent
<1> QED BY <1>2, <1>3, ScopeAssumption

\* No row of a table is taken for a refusal.
LEMMA RowsAreNotDenied ==
    \A x \in Roles \cup Scopes \cup Groups \cup Competitions : x \notin Denied /\ {x} # Denied
BY NothingAssumption DEF Denied, Entities

\* Both ways to ask for the groups that u manages, in terms of the links.
LEMMA ManagedGroups ==
    ASSUME ForeignKeys, NEW u \in Users
    PROVE  \A g \in All(Groups) :
              /\ g \in GetMyGroups(u)
                   <=> \E o \in Roles : Linked(u, o) /\ Linked(o, ScopeOf[g])
              /\ userCanManageGroup(u, g) <=> g \in GetMyGroups(u)
              /\ ManagesIn(DOMAIN db, u, g) <=> g \in GetMyGroups(u)
<1>. TAKE g \in All(Groups)
<1>0. g \in Groups /\ g \in DOMAIN db
  BY DEF All
<1>1. ScopeOf[g] \in Scopes /\ ScopeOf[g] \in DOMAIN db
  BY <1>0, ScopeExists
<1>2. g \in GetMyGroups(u) <=> \E o \in Roles : Linked(u, o) /\ Linked(o, ScopeOf[g])
  BY LinkedSymmetric DEF GetMyGroups
<1>3. ManagesIn(DOMAIN db, u, g) <=> \E o \in Roles : Linked(u, o) /\ Linked(o, ScopeOf[g])
  BY DEF ManagesIn, Linked
<1>4. \A o \in Roles : o \in RolesOf(u) <=> Linked(u, o)
  BY DEF RolesOf, Linked
<1>5. \A o : o \in All(RolesOf(u)) <=> o \in Roles /\ Linked(u, o)
  BY <1>4, LinkedExist DEF All, RolesOf
<1>6. userCanManageGroup(u, g) <=> ScopeOf[g] \in ScopesOf(RolesOf(u))
  BY DEF userCanManageGroup
<1>7. ScopeOf[g] \in ScopesOf(RolesOf(u))
        <=> \E o \in Roles : Linked(u, o) /\ Linked(o, ScopeOf[g])
  BY <1>1, <1>5, LinkedSymmetric DEF ScopesOf, All
<1> QED BY <1>2, <1>3, <1>6, <1>7

\* Every way to ask whether u manages v, in terms of the groups of both.
LEMMA ManagedUsers ==
    ASSUME ForeignKeys, NEW u \in Users
    PROVE  \A v \in All(Users) :
              /\ UserOwnsTargetGroups(u, v) <=> v \in getUsersFromRoleScopes(u)
              /\ UserOwnsTargetGroups(u, v) <=> GetMyGroups(u) \cap GetUserGroups(v) # {}
              /\ UserOwnsTargetGroups(u, v) <=> OwnsIn(DOMAIN db, u, v)
              /\ v \in getUsersFromRoleIDs(RolesOf(u)) <=> UserOwnsTargetGroups(u, v)
<1>. TAKE v \in All(Users)
<1>0. v \in Users /\ v \in DOMAIN db
  BY DEF All
<1>. DEFINE Through(g) == /\ g \in All(Groups) /\ Linked(v, g)
                          /\ \E o \in Roles : Linked(u, o) /\ Linked(o, ScopeOf[g])
<1>1. \A g \in All(Groups) : ScopeOf[g] \in All(Scopes)
  BY ScopeExists DEF All
<1>2. \A o \in Roles : Linked(o, u) => o \in All(Roles)
  BY LinkedExist, LinkedSymmetric DEF All
<1>3. UserOwnsTargetGroups(u, v) <=> \E g : Through(g)
  <2>1. ASSUME UserOwnsTargetGroups(u, v)
        PROVE  \E g : Through(g)
    BY <2>1, LinkedSymmetric DEF UserOwnsTargetGroups, All
  <2>2. ASSUME NEW g, Through(g)
        PROVE  UserOwnsTargetGroups(u, v)
    BY <1>1, <1>2, <2>2, LinkedSymmetric DEF UserOwnsTargetGroups
  <2> QED BY <2>1, <2>2
<1>4. v \in getUsersFromRoleScopes(u) <=> UserOwnsTargetGroups(u, v)
  BY DEF getUsersFromRoleScopes, UserOwnsTargetGroups
<1>5. GetMyGroups(u) \cap GetUserGroups(v) # {} <=> \E g : Through(g)
  <2>1. \A g : g \in GetMyGroups(u) => g \in All(Groups)
    BY DEF GetMyGroups
  <2>2. \A g : g \in GetUserGroups(v) <=> g \in All(Groups) /\ Linked(v, g)
    BY LinkedSymmetric DEF GetUserGroups
  <2>3. \A g : g \in GetMyGroups(u) \cap GetUserGroups(v) <=> Through(g)
    BY <2>1, <2>2, ManagedGroups
  <2> QED BY <2>3
<1>6. OwnsIn(DOMAIN db, u, v) <=> \E g : Through(g)
  BY ManagedGroups DEF OwnsIn, All, Linked, ManagesIn
<1>7. v \in getUsersFromRoleIDs(RolesOf(u)) <=> \E g : Through(g)
  <2>1. \A o : o \in All(RolesOf(u)) <=> o \in Roles /\ Linked(u, o)
    BY LinkedExist DEF All, RolesOf, Linked
  <2> QED BY <2>1, LinkedSymmetric DEF getUsersFromRoleIDs
<1> QED BY <1>3, <1>4, <1>5, <1>6, <1>7

LEMMA ForeignKeysMakeManagersAgree ==
    ASSUME ForeignKeys
    PROVE  ManagersAgree
<1>. SUFFICES ASSUME NEW u \in All(Users)
              PROVE  /\ GetMyGroups(u) = {g \in All(Groups) : userCanManageGroup(u, g)}
                     /\ GetMyGroups(u) = {g \in All(Groups) : ManagesIn(DOMAIN db, u, g)}
                     /\ GetMyGroups(u) \subseteq {g \in Groups : GetGroup(u, g) = {g}}
                     /\ GetAllGroups(u) = Denied \/ GetMyGroups(u) \subseteq GetAllGroups(u)
                     /\ \/ Has(u, "SCOPES")
                        \/ GetMyGroups(u) = UNION {GetGroupsFromScope(s) : s \in GetUserScopes(u)}
                     /\ \/ Has(u, "SCOPES") \/ Has(u, "OWNER")
                        \/ GetRoleScopes(u, RolesOf(u)) \in {Denied, GetUserScopes(u)}
                     /\ \A v \in All(Users) :
                           /\ UserOwnsTargetGroups(u, v) <=> v \in getUsersFromRoleScopes(u)
                           /\ UserOwnsTargetGroups(u, v)
                                <=> GetMyGroups(u) \cap GetUserGroups(v) # {}
                           /\ UserOwnsTargetGroups(u, v) <=> OwnsIn(DOMAIN db, u, v)
                           /\ UserOwnsTargetGroups(u, v) => v \in GetUsers(u)
                     /\ GetUsersFromRoles(u, RolesOf(u)) \in {Denied, getUsersFromRoleScopes(u)}
                     /\ \A o \in Roles : o \in GetAllRoles(u) <=> GetRoleByID(u, o) = {o}
                     /\ \A s \in Scopes : s \in GetAllScopes(u) <=> GetScope(u, s) = {s}
  BY DEF ManagersAgree
<1>0. u \in Users
  BY DEF All
<1>1. \A g : g \in GetMyGroups(u) => g \in All(Groups)
  BY DEF GetMyGroups
<1>2. GetMyGroups(u) = {g \in All(Groups) : userCanManageGroup(u, g)}
  BY <1>0, <1>1, ManagedGroups
<1>3. GetMyGroups(u) = {g \in All(Groups) : ManagesIn(DOMAIN db, u, g)}
  BY <1>0, <1>1, ManagedGroups
<1>4. GetMyGroups(u) \subseteq {g \in Groups : GetGroup(u, g) = {g}}
  BY <1>0, <1>1, ManagedGroups DEF GetGroup, Answer, All
<1>5. GetAllGroups(u) = Denied \/ GetMyGroups(u) \subseteq GetAllGroups(u)
  BY <1>1 DEF GetAllGroups, Answer
<1>6. \A o : o \in All(RolesOf(u)) <=> o \in Roles /\ Linked(u, o)
  BY <1>0, LinkedExist DEF All, RolesOf, Linked
<1>7. \A o \in Roles : Linked(u, o) => o \in All(Roles)
  BY <1>0, LinkedExist DEF All
<1>8. ScopesOf(RolesOf(u)) = {s \in All(Scopes) : \E o \in All(Roles) : Linked(s, o) /\ Linked(o, u)}
  <2>1. \A o \in All(Roles) : o \in Roles
    BY DEF All
  <2>2. \A s : s \in ScopesOf(RolesOf(u)) <=> s \in All(Scopes) /\ \E o \in All(Roles) : Linked(s, o) /\ Linked(o, u)
    BY <1>6, <1>7, <2>1, LinkedSymmetric DEF ScopesOf
  <2> QED BY <2>2
<1>9. Has(u, "SCOPES") \/ GetUserScopes(u) = ScopesOf(RolesOf(u))
  BY <1>8 DEF GetUserScopes
<1>10. \/ Has(u, "SCOPES")
       \/ GetMyGroups(u) = UNION {GetGroupsFromScope(s) : s \in GetUserScopes(u)}
  <2>1. ASSUME ~Has(u, "SCOPES"), NEW g
        PROVE  g \in GetMyGroups(u) <=> \E s \in ScopesOf(RolesOf(u)) : g \in GetGroupsFromScope(s)
    <3>1. \A s \in ScopesOf(RolesOf(u)) :
             g \in GetGroupsFromScope(s) <=> g \in All(Groups) /\ ScopeOf[g] = s
      BY DEF GetGroupsFromScope, Answer, ScopesOf, All
    <3>2. userCanManageGroup(u, g)
            <=> \E s \in ScopesOf(RolesOf(u)) : g \in All(Groups) /\ ScopeOf[g] = s
      BY DEF userCanManageGroup
    <3> QED BY <1>2, <3>1, <3>2
  <2>2. ASSUME ~Has(u, "SCOPES")
        PROVE  GetMyGroups(u) = UNION {GetGroupsFromScope(s) : s \in ScopesOf(RolesOf(u))}
    BY <2>1, <2>2
  <2> QED BY <1>9, <2>2
<1>11. \/ Has(u, "SCOPES") \/ Has(u, "OWNER")
       \/ GetRoleScopes(u, RolesOf(u)) \in {Denied, GetUserScopes(u)}
  <2>1. ASSUME ~Has(u, "OWNER")
        PROVE  ~\E o \in All(RolesOf(u)) : "OWNER" \in db[o].permissions
    BY <2>1 DEF Has, All
  <2>2. ASSUME ~Has(u, "OWNER")
        PROVE  GetRoleScopes(u, RolesOf(u)) \in {Denied, ScopesOf(RolesOf(u))}
    BY <2>1, <2>2 DEF GetRoleScopes, Answer
  <2> QED BY <1>9, <2>2
<1>12. \A v \in All(Users) : UserOwnsTargetGroups(u, v) => v \in GetUsers(u)
  <2>. SUFFICES ASSUME NEW v \in All(Users), UserOwnsTargetGroups(u, v)
                PROVE  v \in GetUsers(u)
    OBVIOUS
  <2>1. v \in getUsersFromRoleScopes(u)
    BY <1>0, ManagedUsers
  <2>2. PICK o \in All(Roles) : Linked(o, u)
    BY DEF UserOwnsTargetGroups
  <2>3. RolesOf(u) # {}
    BY <2>2, LinkedSymmetric DEF RolesOf, Linked, All
  <2> QED BY <2>1, <2>3 DEF GetUsers
<1>13. GetUsersFromRoles(u, RolesOf(u)) \in {Denied, getUsersFromRoleScopes(u)}
  <2>1. \A v : v \in getUsersFromRoleScopes(u) <=> v \in getUsersFromRoleIDs(RolesOf(u))
    <3>1. \A v : v \in getUsersFromRoleScopes(u) => v \in All(Users)
      BY DEF getUsersFromRoleScopes
    <3>2. \A v : v \in getUsersFromRoleIDs(RolesOf(u)) => v \in All(Users)
      BY DEF getUsersFromRoleIDs
    <3> QED BY <1>0, <3>1, <3>2, ManagedUsers
  <2>2. getUsersFromRoleScopes(u) = getUsersFromRoleIDs(RolesOf(u))
    BY <2>1 DEF getUsersFromRoleScopes, getUsersFromRoleIDs
  <2> QED BY <2>2 DEF GetUsersFromRoles, Answer
<1>14. \A o \in Roles : o \in GetAllRoles(u) <=> GetRoleByID(u, o) = {o}
  BY RowsAreNotDenied DEF GetAllRoles, GetRoleByID, Answer, All
<1>15. \A s \in Scopes : s \in GetAllScopes(u) <=> GetScope(u, s) = {s}
  BY RowsAreNotDenied DEF GetAllScopes, GetScope, Answer, All
<1> QED BY <1>0, <1>2, <1>3, <1>4, <1>5, <1>10, <1>11, <1>12, <1>13, <1>14, <1>15, ManagedUsers

LEMMA ForeignKeysMakePlayersAgree ==
    ASSUME ForeignKeys
    PROVE  PlayersAgree
<1>. SUFFICES ASSUME NEW u \in All(Users), NEW c \in All(Competitions)
              PROVE  /\ GetAccessibleCompetition(u, c) <=> userHasAccessToCompetition(u, c)
                     /\ c \in GetUserCompetitions(u) <=> GetCompetition(u, c) = {c}
                     /\ GetAllCompetitions(u) \in {Denied, GetUserCompetitions(u)}
                     /\ GetCompetitionGroups(u, c) # Denied => \A v \in All(Users) :
                           GetAccessibleCompetition(v, c)
                             <=> db[c].show /\ GetCompetitionGroups(u, c) \cap GetUserGroups(v) # {}
  BY DEF PlayersAgree
<1>0. c \in Competitions /\ c \in DOMAIN db /\ u \in Users
  BY DEF All
<1>1. \A v : userHasAccessToCompetition(v, c)
              <=> Shown(c) /\ \E g \in Groups : Linked(c, g) /\ Linked(g, v)
  BY DEF userHasAccessToCompetition
<1>2. \A v : GetAccessibleCompetition(v, c)
              <=> db[c].show /\ \E g \in Groups : Linked(c, g) /\ Linked(g, v)
  BY DEF GetAccessibleCompetition
<1>3. Shown(c) <=> db[c].show
  BY <1>0 DEF Shown
<1>4. GetAccessibleCompetition(u, c) <=> userHasAccessToCompetition(u, c)
  BY <1>1, <1>2, <1>3
<1>5. GetAllCompetitions(u) \in {Denied, GetUserCompetitions(u)}
  BY DEF GetAllCompetitions, GetUserCompetitions, Answer
<1>6. c \in GetUserCompetitions(u) <=> GetCompetition(u, c) = {c}
  <2>1. CASE hasCompetitionPermission(u) \/ Has(u, "OWNER")
    BY <2>1 DEF GetUserCompetitions, GetAllCompetitions, GetCompetition, Answer, All
  <2>2. CASE ~(hasCompetitionPermission(u) \/ Has(u, "OWNER"))
    <3>1. c \in GetUserCompetitions(u) <=> userHasAccessToCompetition(u, c)
      BY <1>1, <2>2 DEF GetUserCompetitions
    <3>2. GetCompetition(u, c) = IF userHasAccessToCompetition(u, c) THEN {c} ELSE Denied
      BY <1>0, <2>2 DEF GetCompetition, Answer
    <3>3. {c} # Denied
      BY <1>0, RowsAreNotDenied
    <3> QED BY <3>1, <3>2, <3>3
  <2> QED BY <2>1, <2>2
<1>7. ASSUME GetCompetitionGroups(u, c) # Denied, NEW v \in All(Users)
      PROVE  (\E g \in Groups : Linked(c, g) /\ Linked(g, v))
               <=> GetCompetitionGroups(u, c) \cap GetUserGroups(v) # {}
  <2>1. GetCompetitionGroups(u, c) = {g \in All(Groups) : Linked(c, g)}
    BY <1>7 DEF GetCompetitionGroups, Answer
  <2>2. \A g : g \in GetUserGroups(v) <=> g \in All(Groups) /\ Linked(g, v)
    BY LinkedSymmetric DEF GetUserGroups
  <2>3. \A g \in Groups : Linked(c, g) => g \in All(Groups)
    BY <1>0, LinkedExist, LinkedSymmetric DEF All
  <2>4. \A g \in All(Groups) : g \in Groups
    BY DEF All
  <2> QED BY <2>1, <2>2, <2>3, <2>4
<1> QED BY <1>2, <1>4, <1>5, <1>6, <1>7

\* The queries of five packages that decide who manages whom and who sees what never
\* contradict each other in a table whose foreign keys hold, whatever has been written to
\* it: this is about the queries, and of the handlers only the keys are asked.
THEOREM ForeignKeysMakeQueriesAgree ==
    ASSUME ForeignKeys
    PROVE  QueriesAgree
BY ForeignKeysMakeManagersAgree, ForeignKeysMakePlayersAgree DEF QueriesAgree

----------------------------------------------------------------------------
(* What the handlers may add *)

LEMMA CreateGroupIsFair ==
    ASSUME InOrder, AllRightful, NEW r \in Requests, CreateGroup(r)
    PROVE  AllRightful'
<1>1. PICK u \in Users \cap DOMAIN db, g \in New(Groups) :
        Serve(r, "CreateGroup", IsStaff(u), {g},
              <<First(ScopeOf[g]), Create({g}, Nothing)>>)
  BY Zenon DEF CreateGroup
<1> DEFINE s ==
             <<First(ScopeOf[g]), Create({g}, Nothing)>>
           asked == {g}
<1>2. Tuple(s, 2)
  BY DEF Tuple
<1>3. \A i \in 1 .. 2 : Fair(s[i], asked, {}, {})
  BY Kinds, RowKinds DEF Fair, Real
<1> HIDE DEF s, asked
<1>5. AllFair(s, asked, {}, {}) /\ s # <<>>
  BY <1>2, <1>3, TupleFair
<1>6. "CreateGroup" # Untied
  BY DEF Untied
<1>7. Serve(r, "CreateGroup", IsStaff(u), asked, s)
  BY <1>1, Zenon DEF s, asked
<1>8. QED
  BY <1>5, <1>6, <1>7, ServeUnsaved

LEMMA CallsAssociate ==
    ASSUME NEW s, NEW t, NEW u, Calls(s), Calls(t), Calls(u)
    PROVE  (s \o t) \o u = s \o (t \o u)
<1>1. PICK S, T, U : s \in Seq(S) /\ t \in Seq(T) /\ u \in Seq(U)
  BY DEF Calls
<1> DEFINE X == S \cup T \cup U
<1>2. s \in Seq(X) /\ t \in Seq(X) /\ u \in Seq(X)
  BY <1>1
<1> HIDE DEF X
<1>3. QED
  BY <1>2, ConcatAssociative

LEMMA LinkedEnds ==
    ASSUME ForeignKeys
    PROVE  \A u \in Users, x \in Roles \cup Groups : {u, x} \in DOMAIN db => x \in DOMAIN db
  BY LinkedExist DEF Linked

\* The call c, made outside a transaction.
Bare(c) ==
    /\ c.op \notin {"skip", "delete", "detach", "deletefound", "save"}
    /\ c.op = "trim" => LinksOf(c.row, c.rows) \subseteq Links
    /\ Real(c) => c.rows \subseteq Entities

AllBare(s) == \A i \in 1 .. Len(s) : Bare(s[i])

LEMMA BareOn ==
    ASSUME NEW s, NEW t, Calls(s), Calls(t), AllBare(s), AllBare(t)
    PROVE  AllBare(s \o t)
<1> DEFINE st == s \o t
<1>1. \A i \in 1 .. Len(st) :
         \/ i \in 1 .. Len(s) /\ st[i] = s[i]
         \/ \E j \in 1 .. Len(t) : i = Len(s) + j /\ st[i] = t[j]
  BY Concatenation
<1> HIDE DEF st
<1>2. \A i \in 1 .. Len(st) : Bare(st[i])
  BY <1>1, Zenon DEF AllBare
<1>3. QED
  BY <1>2 DEF AllBare, st

LEMMA BareGiven ==
    ASSUME NEW s, NEW asked, NEW F, NEW V, AllFair(s, asked, F, V), AllBare(s)
    PROVE  Given(s, Untied, asked)
<1>1. "none" # Untied
  BY DEF Untied
<1>2. Given(s, "none", asked)
  BY <1>1, FairGiven
<1>3. \A i \in 1 .. Len(s) : Bare(s[i])
  BY DEF AllBare
<1>4. QED
  BY <1>2, <1>3 DEF Given, Bare

LEMMA ForUserIsFair ==
    ASSUME NEW u, NEW v, NEW bits, NEW asked
    PROVE  /\ AllFair(ForUser(u, v, bits), asked, {v}, {})
           /\ \A i \in 1 .. Len(ForUser(u, v, bits)) : ForUser(u, v, bits)[i].op # "append"
<1> DEFINE A == <<Find({v}, "all")>>
           B == <<OwnsFound(u)>>
<1>1. Tuple(A, 1) /\ Tuple(B, 1)
  BY DEF Tuple
<1>2. (\A i \in 1 .. 1 : Fair(A[i], asked, {v}, {})) /\ (\A i \in 1 .. 1 : Fair(B[i], asked, {v}, {}))
  BY Kinds, RowKinds DEF Fair, Real
<1> HIDE DEF A, B
<1>3. AllFair(A, asked, {v}, {}) /\ AllFair(B, asked, {v}, {})
  BY <1>1, <1>2, TupleFair
<1>4. AllFair(A \o (IF \E b \in bits : Has(u, b) THEN <<>> ELSE B), asked, {v}, {})
  BY <1>3, NoneFair, FairOn
<1>5. \A name : Looking(ForUser(u, v, bits), name)
  BY ForUserLooks
<1>6. \A i \in 1 .. Len(ForUser(u, v, bits)) : ForUser(u, v, bits)[i].op # "append"
  <2>1. Looking(ForUser(u, v, bits), "none") /\ "none" # Untied
    BY <1>5 DEF Untied
  <2>2. QED
    BY <2>1 DEF Looking, Looks
<1>7. QED
  BY <1>4, <1>6 DEF ForUser, A, B

LEMMA ReplaceIsFair ==
    ASSUME NEW x, NEW Y, NEW asked, NEW F, NEW V, LinksOf(x, F) \subseteq asked
    PROVE  AllFair(Replace(x, Y), asked, F, V)
<1> DEFINE s == <<Associate(x), Trim(x, Y)>>
<1>1. Tuple(s, 2)
  BY DEF Tuple
<1>2. \A i \in 1 .. 2 : Fair(s[i], asked, F, V)
  BY Kinds, RowKinds DEF Fair, Real
<1> HIDE DEF s
<1>3. AllFair(s, asked, F, V)
  BY <1>1, <1>2, TupleFair
<1>4. QED
  BY <1>3 DEF Replace, s

LEMMA ManagingIsFair ==
    ASSUME NEW u, NEW g, NEW asked
    PROVE  AllFair(<<First(g)>> \o Managing(u, g), asked, {}, {})
<1> DEFINE A == <<First(g)>>
           B == <<Manages(u, g)>>
<1>1. Tuple(A, 1) /\ Tuple(B, 1)
  BY DEF Tuple
<1>2. (\A i \in 1 .. 1 : Fair(A[i], asked, {}, {})) /\ (\A i \in 1 .. 1 : Fair(B[i], asked, {}, {}))
  BY Kinds, RowKinds DEF Fair, Real
<1> HIDE DEF A, B
<1>3. AllFair(A, asked, {}, {}) /\ AllFair(B, asked, {}, {})
  BY <1>1, <1>2, TupleFair
<1>4. AllFair(A \o (IF Has(u, "OWNER") THEN <<>> ELSE B), asked, {}, {})
  BY <1>3, NoneFair, FairOn
<1>5. QED
  BY <1>4 DEF Managing, A, B

\* A list of users, each with the group.
LEMMA ListIs ==
    ASSUME NEW X, NEW list \in Lists(X)
    PROVE  Len(list) \in Nat \ {0} /\ \A i \in 1 .. Len(list) : list[i] \in X /\ list[i] \in Range(list)
<1>1. PICK n \in 1 .. MaxAsked : list \in [1 .. n -> X]
  BY DEF Lists
<1>2. n \in Nat \ {0} /\ Len(list) = n
  BY <1>1, MaxAskedAssumption
<1>3. DOMAIN list = 1 .. n
  BY <1>1
<1>4. QED
  BY <1>1, <1>2, <1>3 DEF Range

LEMMA CreateEachIs ==
    ASSUME NEW X, NEW list \in Lists(X)
    PROVE  /\ Tuple(CreateEach(list), 2 * Len(list)) /\ 2 * Len(list) \in Nat \ {0}
           /\ \A i \in 1 .. 2 * Len(list) :
                 \/ i % 2 = 1 /\ \E v \in X \cap Range(list) :
                       /\ CreateEach(list)[i] = Create({v}, Nothing)
                       /\ i + 1 \in 1 .. 2 * Len(list) /\ CreateEach(list)[i + 1] = Associate(v)
                 \/ i % 2 = 0 /\ \E v \in X \cap Range(list) : CreateEach(list)[i] = Associate(v)
<1> DEFINE n == Len(list)
           s == CreateEach(list)
<1>1. n \in Nat \ {0} /\ \A i \in 1 .. n : list[i] \in X /\ list[i] \in Range(list)
  BY ListIs
<1>2. Tuple(s, 2 * n)
  BY DEF CreateEach, Tuple
<1>3. \A i \in 1 .. 2 * n :
         s[i] = IF i % 2 = 1 THEN Create({list[(i + 1) \div 2]}, Nothing) ELSE Associate(list[i \div 2])
  BY DEF CreateEach
<1> HIDE DEF n, s
<1>4. ASSUME NEW i \in 1 .. 2 * n, i % 2 = 1
      PROVE  \E v \in X \cap Range(list) :
                /\ s[i] = Create({v}, Nothing)
                /\ i + 1 \in 1 .. 2 * n /\ s[i + 1] = Associate(v)
  <2> DEFINE m == (i + 1) \div 2
  <2>1. m \in 1 .. n /\ i + 1 \in 1 .. 2 * n /\ (i + 1) % 2 # 1
    BY <1>1, <1>4
  <2>2. s[i] = Create({list[m]}, Nothing)
    BY <1>3, <1>4
  <2>3. s[i + 1] = Associate(list[m])
    BY <1>3, <2>1
  <2> HIDE DEF m
  <2>4. list[m] \in X \cap Range(list)
    BY <1>1, <2>1
  <2>5. QED
    BY <2>1, <2>2, <2>3, <2>4
<1>5. ASSUME NEW i \in 1 .. 2 * n, i % 2 = 0
      PROVE  \E v \in X \cap Range(list) : s[i] = Associate(v)
  <2> DEFINE m == i \div 2
  <2>1. m \in 1 .. n /\ i % 2 # 1
    BY <1>1, <1>5
  <2>2. s[i] = Associate(list[m])
    BY <1>3, <2>1
  <2> HIDE DEF m
  <2>3. list[m] \in X \cap Range(list)
    BY <1>1, <2>1
  <2>4. QED
    BY <2>2, <2>3
<1>6. \A i \in 1 .. 2 * n : i % 2 = 1 \/ i % 2 = 0
  BY <1>1
<1>7. 2 * n \in Nat \ {0}
  BY <1>1
<1>8. QED
  BY <1>2, <1>4, <1>5, <1>6, <1>7 DEF n, s

LEMMA CreateEachIsFair ==
    ASSUME NEW X, NEW list \in Lists(X), NEW g
    PROVE  AllFair(CreateEach(list), AskedFor(list, g), {g}, {})
<1> DEFINE asked == AskedFor(list, g)
           s == CreateEach(list)
           k == 2 * Len(list)
<1>1. /\ Tuple(s, k) /\ k \in Nat \ {0}
      /\ \A i \in 1 .. k : \E v \in X \cap Range(list) : s[i] = Create({v}, Nothing) \/ s[i] = Associate(v)
  <2>1. /\ Tuple(s, k) /\ k \in Nat \ {0}
        /\ \A i \in 1 .. k :
              \/ i % 2 = 1 /\ \E v \in X \cap Range(list) :
                    /\ s[i] = Create({v}, Nothing)
                    /\ i + 1 \in 1 .. k /\ s[i + 1] = Associate(v)
              \/ i % 2 = 0 /\ \E v \in X \cap Range(list) : s[i] = Associate(v)
    BY CreateEachIs
  <2> HIDE DEF s, k
  <2>2. QED
    BY <2>1
<1>2. \A v \in Range(list) : {v} \subseteq asked /\ LinksOf(v, {g}) \subseteq asked
  <2>1. \A v : {v, g} = {g, v}
    OBVIOUS
  <2>2. \A v : LinksOf(v, {g}) = {{g, v}}
    BY <2>1 DEF LinksOf
  <2>3. \A v \in Range(list) : {g, v} \in LinksOf(g, Range(list))
    BY DEF LinksOf
  <2>4. QED
    BY <2>2, <2>3 DEF AskedFor
<1> HIDE DEF s, k, asked
<1>3. \A i \in 1 .. k : Fair(s[i], asked, {g}, {})
  <2> TAKE i \in 1 .. k
  <2>1. PICK v \in X \cap Range(list) : s[i] = Create({v}, Nothing) \/ s[i] = Associate(v)
    BY <1>1
  <2>2. {v} \subseteq asked /\ LinksOf(v, {g}) \subseteq asked
    BY <1>2
  <2>3. Fair(Create({v}, Nothing), asked, {g}, {})
    BY <2>2, Kinds, RowKinds DEF Fair, Real
  <2>5. Fair(Associate(v), asked, {g}, {})
    <3>1. Associate(v).op = "append" /\ Associate(v).row = v
      BY Kinds, RowKinds, Zenon
    <3>2. QED
      BY <2>2, <3>1 DEF Fair, Real
  <2>4. QED
    BY <2>1, <2>3, <2>5
<1>4. AllFair(s, asked, {g}, {})
  BY <1>1, <1>3, TupleFair
<1>5. QED
  BY <1>4 DEF s, asked


LEMMA AccessHandlersAreFair ==
    ASSUME InOrder, ForeignKeys, AllRightful, NEW r \in Requests, AccessHandlers(r)
    PROVE  AllRightful'
<1>1. CASE CreateRole(r)
  <2>1. PICK u \in Users \cap DOMAIN db, o \in Unused(Roles), p \in Grants, S \in Some(Scopes) :
          Serve(r, "CreateRole", Has(u, "ROLES"), {o} \cup LinksOf(o, S),
                <<Begin, Create({o}, [permissions |-> p]), Find(S, "all"), Associate(o),
                  Commit, Reload(o)>>)
    BY <1>1, Zenon DEF CreateRole
  <2> DEFINE s ==
               <<Begin, Create({o}, [permissions |-> p]), Find(S, "all"), Associate(o), Commit,
                 Reload(o)>>
             asked == {o} \cup LinksOf(o, S)
  <2>2. Tuple(s, 6)
    BY DEF Tuple
  <2>3. \A i \in 1 .. 6 : Fair(s[i], asked, S, {})
    BY Kinds, RowKinds DEF Fair, Real
  <2> HIDE DEF s, asked
  <2>5. AllFair(s, asked, S, {}) /\ s # <<>>
    BY <2>2, <2>3, TupleFair
  <2>6. "CreateRole" # Untied
    BY DEF Untied
  <2>7. Serve(r, "CreateRole", Has(u, "ROLES"), asked, s)
    BY <2>1, Zenon DEF s, asked
  <2>8. QED
    BY <2>5, <2>6, <2>7, ServeUnsaved
<1>2. CASE UpdateRoleByID(r)
  <2> DEFINE name == "UpdateRoleByID"
  <2>1. PICK u \in Users \cap DOMAIN db, o \in Roles, p \in Grants, S \in Some(Scopes),
             list \in BOOLEAN :
          Serve(r, name, Has(u, "ROLES"), LinksOf(o, S),
                <<First(o), Begin, Updates(o, IF p = {} THEN Nothing ELSE [permissions |-> p])>>
                  \o (IF list THEN <<Delete(LinksOf(o, Scopes)), Find(S, "all"), Associate(o)>>
                              ELSE <<>>)
                  \o <<Commit, Reload(o)>>)
    BY <1>2, Zenon DEF UpdateRoleByID
  <2> DEFINE set == IF p = {} THEN Nothing ELSE [permissions |-> p]
             asked == LinksOf(o, S)
             A == <<First(o), Begin, Updates(o, set)>>
             B == <<Delete(LinksOf(o, Scopes)), Find(S, "all"), Associate(o)>>
             C == <<Commit, Reload(o)>>
  <2>2. Tuple(A, 3) /\ Tuple(B, 3) /\ Tuple(C, 2)
    BY DEF Tuple
  <2>3. /\ \A i \in 1 .. 3 : Fair(A[i], asked, S, {})
        /\ \A i \in 1 .. 3 : Fair(B[i], asked, S, {})
        /\ \A i \in 1 .. 2 : Fair(C[i], asked, S, {})
    BY Kinds, RowKinds DEF Fair, Real
  <2>4. name # Untied
    BY DEF Untied
  <2> HIDE DEF A, B, C
  <2>5. AllFair(A, asked, S, {}) /\ AllFair(B, asked, S, {}) /\ AllFair(C, asked, S, {}) /\ C # <<>>
    BY <2>2, <2>3, TupleFair
  <2>6. AllFair((IF list THEN B ELSE <<>>) \o C, asked, S, {}) /\ (IF list THEN B ELSE <<>>) \o C # <<>>
    BY <2>5, NoneFair, FairOn
  <2>7. AllFair(A \o (IF list THEN B ELSE <<>>) \o C, asked, S, {})
           /\ A \o (IF list THEN B ELSE <<>>) \o C # <<>>
    <3>1. AllFair(A \o (IF list THEN B ELSE <<>>), asked, S, {})
      BY <2>5, NoneFair, FairOn
    <3>2. QED
      BY <2>5, <3>1, FairOn
  <2> DEFINE s == A \o (IF list THEN B ELSE <<>>) \o C
  <2>8. Serve(r, name, Has(u, "ROLES"), asked, s)
    BY <2>1 DEF A, B, C
  <2>9. AllFair(s, asked, S, {}) /\ s # <<>>
    BY <2>7
  <2> HIDE DEF s, asked
  <2>10. QED
    BY <2>4, <2>8, <2>9, ServeUnsaved
<1>3. CASE DeleteRole(r)
  <2>1. PICK u \in Users \cap DOMAIN db, o \in Roles :
          Serve(r, "DeleteRole", Has(u, "ROLES"), {},
                <<First(o), Begin, Delete(LinksOf(o, Users)), Delete(LinksOf(o, Scopes)),
                  Delete({o}), Commit>>)
    BY <1>3, Zenon DEF DeleteRole
  <2> DEFINE s ==
               <<First(o), Begin, Delete(LinksOf(o, Users)), Delete(LinksOf(o, Scopes)),
                 Delete({o}), Commit>>
             asked == {}
  <2>2. Tuple(s, 6)
    BY DEF Tuple
  <2>3. \A i \in 1 .. 6 : Fair(s[i], asked, {}, {})
    BY Kinds, RowKinds DEF Fair, Real
  <2> HIDE DEF s, asked
  <2>5. AllFair(s, asked, {}, {}) /\ s # <<>>
    BY <2>2, <2>3, TupleFair
  <2>6. "DeleteRole" # Untied
    BY DEF Untied
  <2>7. Serve(r, "DeleteRole", Has(u, "ROLES"), asked, s)
    BY <2>1, Zenon DEF s, asked
  <2>8. QED
    BY <2>5, <2>6, <2>7, ServeUnsaved
<1>4. CASE AttachRoleToUser(r)
  <2>1. PICK u \in Users \cap DOMAIN db, v \in Users, o \in Roles :
          Serve(r, "AttachRoleToUser", Has(u, "ROLES"), {{v, o}},
                <<Begin, First(v), First(o), Check({{v, o}}, FALSE, "error"),
                  Create({{v, o}}, Nothing), Commit, Reload(v)>>)
    BY <1>4, Zenon DEF AttachRoleToUser
  <2> DEFINE D == Check({{v, o}}, FALSE, "error")
             s ==
               <<Begin, First(v), First(o), D, Create({{v, o}}, Nothing), Commit, Reload(v)>>
             asked == {{v, o}}
  <2>9. D.op = "check"
    BY DEF Check
  <2> HIDE DEF D
  <2>2. Tuple(s, 7)
    BY DEF Tuple
  <2>3. \A i \in 1 .. 7 : Fair(s[i], asked, {}, {})
    BY <2>9, Kinds, RowKinds DEF Fair, Real
  <2> HIDE DEF s, asked
  <2>5. AllFair(s, asked, {}, {}) /\ s # <<>>
    BY <2>2, <2>3, TupleFair
  <2>6. "AttachRoleToUser" # Untied
    BY DEF Untied
  <2>7. Serve(r, "AttachRoleToUser", Has(u, "ROLES"), asked, s)
    BY <2>1, Zenon DEF s, asked, D
  <2>8. QED
    BY <2>5, <2>6, <2>7, ServeUnsaved
<1>5. CASE DetachRoleFromUser(r)
  <2>1. PICK u \in Users \cap DOMAIN db, v \in Users, o \in Roles :
          Serve(r, "DetachRoleFromUser", Has(u, "ROLES"), {},
                <<Begin, First(v), First(o), First({v, o}), Delete({{v, o}}), Commit,
                  Reload(v)>>)
    BY <1>5, Zenon DEF DetachRoleFromUser
  <2> DEFINE s ==
               <<Begin, First(v), First(o), First({v, o}), Delete({{v, o}}), Commit, Reload(v)>>
             asked == {}
  <2>2. Tuple(s, 7)
    BY DEF Tuple
  <2>3. \A i \in 1 .. 7 : Fair(s[i], asked, {}, {})
    BY Kinds, RowKinds DEF Fair, Real
  <2> HIDE DEF s, asked
  <2>5. AllFair(s, asked, {}, {}) /\ s # <<>>
    BY <2>2, <2>3, TupleFair
  <2>6. "DetachRoleFromUser" # Untied
    BY DEF Untied
  <2>7. Serve(r, "DetachRoleFromUser", Has(u, "ROLES"), asked, s)
    BY <2>1, Zenon DEF s, asked
  <2>8. QED
    BY <2>5, <2>6, <2>7, ServeUnsaved
<1>6. CASE CreateScope(r)
  <2>1. PICK u \in Users \cap DOMAIN db, s \in Unused(Scopes), K \in Some(Catalogs) :
          Serve(r, "CreateScope", Has(u, "SCOPES"), {s} \cup LinksOf(s, K),
                <<Begin, Find(K, "all"), Create({s}, Nothing), Find(K, "any"), Associate(s),
                  Commit, Reload(s)>>)
    BY <1>6, Zenon DEF CreateScope
  <2> DEFINE t ==
               <<Begin, Find(K, "all"), Create({s}, Nothing), Find(K, "any"), Associate(s),
                 Commit, Reload(s)>>
             asked == {s} \cup LinksOf(s, K)
  <2>2. Tuple(t, 7)
    BY DEF Tuple
  <2>3. \A i \in 1 .. 7 : Fair(t[i], asked, K, {})
    BY Kinds, RowKinds DEF Fair, Real
  <2> HIDE DEF t, asked
  <2>5. AllFair(t, asked, K, {}) /\ t # <<>>
    BY <2>2, <2>3, TupleFair
  <2>6. "CreateScope" # Untied
    BY DEF Untied
  <2>7. Serve(r, "CreateScope", Has(u, "SCOPES"), asked, t)
    BY <2>1, Zenon DEF t, asked
  <2>8. QED
    BY <2>5, <2>6, <2>7, ServeUnsaved
<1>7. CASE UpdateScope(r)
  <2> DEFINE name == "UpdateScope"
  <2>1. PICK u, s, K :
          Serve(r, name, Has(u, "SCOPES"), LinksOf(s, K),
             <<Load(s), Begin, Find(K, "count"), Save(s), Find(K, "any")>>
               \o Replace(s, Catalogs) \o <<Commit, Reload(s)>>)
    BY <1>7 DEF UpdateScope
  <2> DEFINE asked == LinksOf(s, K)
             A == <<Load(s), Begin, Find(K, "count"), Save(s), Find(K, "any")>>
             C == <<Commit, Reload(s)>>
  <2>2. Tuple(A, 5) /\ Tuple(C, 2)
    BY DEF Tuple
  <2>3. /\ \A i \in 1 .. 5 : Fair(A[i], asked, K, {s})
        /\ \A i \in 1 .. 2 : Fair(C[i], asked, K, {s})
    BY Kinds, RowKinds DEF Fair, Real
  <2>4. name # Untied /\ A[1].op = "load" /\ A[1].row = s
    BY DEF Untied, Load
  <2> HIDE DEF A, C
  <2>5. AllFair(A, asked, K, {s}) /\ AllFair(C, asked, K, {s}) /\ C # <<>> /\ Len(A) = 5
    <3>1. Len(A) = 5
      BY <2>2, TupleSome, TupleIs
    <3>2. QED
      BY <2>2, <2>3, <3>1, TupleFair
  <2>6. AllFair(Replace(s, Catalogs), asked, K, {s})
    BY ReplaceIsFair
  <2> DEFINE B == Replace(s, Catalogs)
             AB == A \o B
             ABC == AB \o C
  <2>7. AllFair(AB, asked, K, {s})
    BY <2>5, <2>6, FairOn
  <2>8. AllFair(ABC, asked, K, {s}) /\ ABC # <<>>
    BY <2>5, <2>7, FairOn
  <2>9. ABC[1].op = "load" /\ ABC[1].row = s
    <3>1. Calls(A) /\ Calls(B) /\ Calls(C) /\ Calls(AB)
      BY <2>5, <2>6, <2>7 DEF AllFair
    <3>2. AB[1] = A[1] /\ Len(AB) >= 5
      <4>1. /\ Len(AB) = Len(A) + Len(B) /\ Len(B) \in Nat
            /\ \A i \in 1 .. Len(A) : AB[i] = A[i]
        BY <3>1, Concatenation
      <4> HIDE DEF AB, B
      <4>2. QED
        BY <2>5, <4>1
    <3> HIDE DEF AB
    <3>3. 1 \in 1 .. Len(AB)
      BY <3>1, <3>2, Concatenation
    <3>4. ABC[1] = AB[1]
      BY <3>1, <3>3, Concatenation
    <3>5. QED
      BY <2>4, <3>2, <3>4
  <2>10. Serve(r, name, Has(u, "SCOPES"), asked, ABC)
    BY <2>1 DEF A, C
  <2> HIDE DEF ABC
  <2>11. QED
    BY <2>4, <2>8, <2>9, <2>10, ServeFair
<1>8. CASE DeleteScope(r)
  <2>1. PICK u \in Users \cap DOMAIN db, s \in Scopes :
          Serve(r, "DeleteScope", Has(u, "SCOPES"), {},
                <<Begin, First(s), Check({g \in Groups : ScopeOf[g] = s}, FALSE, "error"),
                  Delete(LinksOf(s, Catalogs)), Delete(LinksOf(s, Roles)), Delete({s}), Commit>>)
    BY <1>8, Zenon DEF DeleteScope
  <2> DEFINE D == Check({g \in Groups : ScopeOf[g] = s}, FALSE, "error")
             t ==
               <<Begin, First(s), D, Delete(LinksOf(s, Catalogs)), Delete(LinksOf(s, Roles)),
                 Delete({s}), Commit>>
             asked == {}
  <2>9. D.op = "check"
    BY DEF Check
  <2> HIDE DEF D
  <2>2. Tuple(t, 7)
    BY DEF Tuple
  <2>3. \A i \in 1 .. 7 : Fair(t[i], asked, {}, {})
    BY <2>9, Kinds, RowKinds DEF Fair, Real
  <2> HIDE DEF t, asked
  <2>5. AllFair(t, asked, {}, {}) /\ t # <<>>
    BY <2>2, <2>3, TupleFair
  <2>6. "DeleteScope" # Untied
    BY DEF Untied
  <2>7. Serve(r, "DeleteScope", Has(u, "SCOPES"), asked, t)
    BY <2>1, Zenon DEF t, asked, D
  <2>8. QED
    BY <2>5, <2>6, <2>7, ServeUnsaved
<1>9. CASE AttachScopeToRole(r)
  <2>1. PICK u \in Users \cap DOMAIN db, s \in Scopes, o \in Roles :
          Serve(r, "AttachScopeToRole", Has(u, "SCOPES"), {{s, o}},
             <<Begin, First(s), Find({o}, "some"), SkipIf({{s, o}}), Associate(s), Commit,
               Reload(s)>>)
    BY <1>9, Zenon DEF AttachScopeToRole
  <2> DEFINE t == <<Begin, First(s), Find({o}, "some"), SkipIf({{s, o}}), Associate(s), Commit,
                    Reload(s)>>
             asked == {{s, o}}
  <2>2. Tuple(t, 7)
    BY DEF Tuple
  <2>3. /\ t[1].op = "begin" /\ t[2].op = "check" /\ t[3].op = "find" /\ t[4].op = "skip"
        /\ t[5].op = "append" /\ t[6].op = "commit" /\ t[7].op = "check"
        /\ t[3].rows = {o} /\ t[5].row = s
    BY Kinds DEF Find, Associate
  <2>4. LinksOf(s, {o}) \subseteq asked
    BY DEF LinksOf
  <2> HIDE DEF t, asked
  <2>5. Calls(t) /\ Len(t) = 7
    BY <2>2, TupleIs
  <2>6. t # <<>>
    BY <2>2, TupleSome
  <2>7. Given(t, "AttachScopeToRole", asked)
    <3>1. "AttachScopeToRole" # Untied
      BY DEF Untied
    <3>2. \A k \in 1 .. 7 : Real(t[k]) => k = 3
      BY <2>3 DEF Real
    <3>3. \A k \in 1 .. 7, i \in 1 .. 7 : Feeds(t, k, i) => k = 3
      BY <3>2 DEF Feeds
    <3>4. \A i \in 1 .. 7 : /\ t[i].op = "append" => i = 5
                            /\ t[i].op = "skip" => i = 4
                            /\ t[i].op \notin {"create", "ensure"}
      BY <2>3
    <3>5. \A i \in 1 .. 7 :
             /\ t[i].op \in {"create", "ensure"} => t[i].rows \subseteq asked
             /\ t[i].op = "skip" => i + 1 \in 1 .. 7 /\ t[i + 1].op = "append"
      BY <2>3, <3>4
    <3>6. \A i \in 1 .. 7 :
             t[i].op = "append" =>
                \A k \in 1 .. 7 : Feeds(t, k, i) => LinksOf(t[i].row, t[k].rows) \subseteq asked
      BY <2>3, <2>4, <3>3, <3>4
    <3>7. QED
      BY <2>5, <3>1, <3>5, <3>6 DEF Given
  <2>8. Loads(t, DOMAIN db)
    BY <2>3, <2>5 DEF Loads
  <2>9. Serve(r, "AttachScopeToRole", Has(u, "SCOPES"), asked, t)
    BY <2>1, Zenon DEF t, asked
  <2>10. QED
    BY <2>5, <2>6, <2>7, <2>8, <2>9, ServeRightful
<1>10. CASE DetachScopeFromRole(r)
  <2>1. PICK u \in Users \cap DOMAIN db, s \in Scopes, o \in Roles :
          Serve(r, "DetachScopeFromRole", Has(u, "SCOPES"), {},
                <<Begin, First(s), First(o), Delete({{s, o}}), Commit, Reload(s)>>)
    BY <1>10, Zenon DEF DetachScopeFromRole
  <2> DEFINE t ==
               <<Begin, First(s), First(o), Delete({{s, o}}), Commit, Reload(s)>>
             asked == {}
  <2>2. Tuple(t, 6)
    BY DEF Tuple
  <2>3. \A i \in 1 .. 6 : Fair(t[i], asked, {}, {})
    BY Kinds, RowKinds DEF Fair, Real
  <2> HIDE DEF t, asked
  <2>5. AllFair(t, asked, {}, {}) /\ t # <<>>
    BY <2>2, <2>3, TupleFair
  <2>6. "DetachScopeFromRole" # Untied
    BY DEF Untied
  <2>7. Serve(r, "DetachScopeFromRole", Has(u, "SCOPES"), asked, t)
    BY <2>1, Zenon DEF t, asked
  <2>8. QED
    BY <2>5, <2>6, <2>7, ServeUnsaved
<1>11. CASE CreateUserAndAttachRoles(r)
  <2>1. PICK u \in Users \cap DOMAIN db, v \in Unused(Users), O \in Some(Roles) :
          Serve(r, "CreateUserAndAttachRoles", Has(u, "ROLES") /\ O # {}, {v} \cup LinksOf(v, O),
                <<Begin, Find(O, "some"), Create({v}, Nothing), Associate(v), Commit,
                  Reload(v)>>)
    BY <1>11, Zenon DEF CreateUserAndAttachRoles
  <2> DEFINE s ==
               <<Begin, Find(O, "some"), Create({v}, Nothing), Associate(v), Commit, Reload(v)>>
             asked == {v} \cup LinksOf(v, O)
  <2>2. Tuple(s, 6)
    BY DEF Tuple
  <2>3. \A i \in 1 .. 6 : Fair(s[i], asked, O, {})
    BY Kinds, RowKinds DEF Fair, Real
  <2> HIDE DEF s, asked
  <2>5. AllFair(s, asked, O, {}) /\ s # <<>>
    BY <2>2, <2>3, TupleFair
  <2>6. "CreateUserAndAttachRoles" # Untied
    BY DEF Untied
  <2>7. Serve(r, "CreateUserAndAttachRoles", Has(u, "ROLES") /\ O # {}, asked, s)
    BY <2>1, Zenon DEF s, asked
  <2>8. QED
    BY <2>5, <2>6, <2>7, ServeUnsaved
<1>12. CASE UpdateUserRoles(r)
  <2>1. PICK u \in Users \cap DOMAIN db, v \in Users, O \in Some(Roles) :
          Serve(r, "UpdateUserRoles", IsStaff(u), LinksOf(v, O),
                <<Begin, First(v), Find(O, "some"), Delete(LinksOf(v, Roles)), Associate(v),
                  Commit, Reload(v)>>)
    BY <1>12, Zenon DEF UpdateUserRoles
  <2> DEFINE s ==
               <<Begin, First(v), Find(O, "some"), Delete(LinksOf(v, Roles)), Associate(v),
                 Commit, Reload(v)>>
             asked == LinksOf(v, O)
  <2>2. Tuple(s, 7)
    BY DEF Tuple
  <2>3. \A i \in 1 .. 7 : Fair(s[i], asked, O, {})
    BY Kinds, RowKinds DEF Fair, Real
  <2> HIDE DEF s, asked
  <2>5. AllFair(s, asked, O, {}) /\ s # <<>>
    BY <2>2, <2>3, TupleFair
  <2>6. "UpdateUserRoles" # Untied
    BY DEF Untied
  <2>7. Serve(r, "UpdateUserRoles", IsStaff(u), asked, s)
    BY <2>1, Zenon DEF s, asked
  <2>8. QED
    BY <2>5, <2>6, <2>7, ServeUnsaved
<1>13. CASE UpdateTargetUserProfile(r)
  <2> DEFINE name == "UpdateTargetUserProfile"
             links(v, X, all) == IF X = {} THEN <<>>
                            ELSE <<Find(X, "all"), Delete(LinksOf(v, all))>> \o Replace(v, all)
  <2>1. PICK u, v, O, G :
          Serve(r, name, TRUE, LinksOf(v, O \cup G),
                ForUser(u, v, {"GROUPS", "OWNER"})
                  \o <<Begin, Updates(v, Nothing)>> \o links(v, O, Roles) \o links(v, G, Groups)
                  \o <<Commit, Reload(v)>>)
    BY <1>13 DEF UpdateTargetUserProfile
  <2> DEFINE F == ForUser(u, v, {"GROUPS", "OWNER"})
             A == <<Begin, Updates(v, Nothing)>>
             C == <<Commit, Reload(v)>>
             X == O \cup G
             asked == LinksOf(v, X)
  <2>2. Tuple(A, 2) /\ Tuple(C, 2)
    BY DEF Tuple
  <2>3. /\ \A i \in 1 .. 2 : Fair(A[i], asked, X, {}) /\ A[i].op # "append"
        /\ \A i \in 1 .. 2 : Fair(C[i], asked, X, {}) /\ C[i].op # "append"
    BY Kinds, RowKinds DEF Fair, Real
  <2>4. ASSUME NEW Y, Y \subseteq X, NEW all
        PROVE  AllFair(links(v, Y, all), asked, X, {}) /\ SelfFed(links(v, Y, all))
    <3> DEFINE P == <<Find(Y, "all"), Delete(LinksOf(v, all))>>
               R == <<Associate(v), Trim(v, all)>>
    <3>1. Tuple(P, 2) /\ Tuple(R, 2)
      BY DEF Tuple
    <3>2. /\ \A i \in 1 .. 2 : Fair(P[i], asked, X, {})
          /\ \A i \in 1 .. 2 : Fair(R[i], asked, X, {})
      BY <2>4, Kinds, RowKinds DEF Fair, Real
    <3>3. Real(P[1]) /\ P[1].op # "append" /\ P[2].op # "append"
      BY Kinds DEF Real, Find
    <3> HIDE DEF P, R, asked
    <3>4. AllFair(P, asked, X, {}) /\ AllFair(R, asked, X, {}) /\ Len(P) = 2 /\ Len(R) = 2
      <4>1. Len(P) = 2 /\ Len(R) = 2
        BY <3>1, TupleSome, TupleIs
      <4>2. QED
        BY <3>1, <3>2, <4>1, TupleFair
    <3>5. AllFair(P \o R, asked, X, {})
      BY <3>4, FairOn
    <3>6. SelfFed(P \o R)
      <4> DEFINE s == P \o R
      <4>1. Calls(P) /\ Calls(R)
        BY <3>4 DEF AllFair
      <4>2. Len(s) = 4 /\ s[1] = P[1] /\ s[2] = P[2]
        <5>1. Len(s) = Len(P) + Len(R) /\ \A i \in 1 .. Len(P) : s[i] = P[i]
          BY <4>1, Concatenation
        <5> HIDE DEF s
        <5>2. QED
          BY <3>4, <5>1
      <4> HIDE DEF s
      <4>3. \A i \in 1 .. 4 : s[i].op = "append" => 1 \in 1 .. i - 1
        BY <3>3, <4>2
      <4>4. Real(s[1])
        BY <3>3, <4>2
      <4>5. SelfFed(s)
        BY <4>2, <4>3, <4>4 DEF SelfFed
      <4>6. QED
        BY <4>5 DEF s
    <3>7. SelfFed(<<>>)
      BY LenOfNone DEF SelfFed
    <3>8. QED
      BY <3>5, <3>6, <3>7, NoneFair DEF P, R, Replace
  <2> DEFINE L1 == links(v, O, Roles)
             L2 == links(v, G, Groups)
  <2>5. AllFair(L1, asked, X, {}) /\ SelfFed(L1) /\ AllFair(L2, asked, X, {}) /\ SelfFed(L2)
    BY <2>4
  <2>6. name # Untied
    BY DEF Untied
  <2>7. AllFair(F, {}, {v}, {}) /\ \A i \in 1 .. Len(F) : F[i].op # "append"
    BY ForUserIsFair
  <2>8. Serve(r, name, TRUE, asked, F \o A \o L1 \o L2 \o C)
    BY <2>1
  <2> HIDE DEF A, C, F, L1, L2, asked, X
  <2>9. /\ AllFair(A, asked, X, {}) /\ AllFair(C, asked, X, {}) /\ C # <<>> /\ SelfFed(A) /\ SelfFed(C)
        /\ Calls(A) /\ Calls(C) /\ Calls(L1) /\ Calls(L2) /\ Calls(F)
    BY <2>2, <2>3, <2>5, <2>7, TupleFair, TupleIs DEF SelfFed, AllFair
  <2> DEFINE m1 == A \o L1
             m2 == m1 \o L2
             m == m2 \o C
  <2>10. AllFair(m1, asked, X, {}) /\ SelfFed(m1) /\ Calls(m1)
    BY <2>5, <2>9, FairOn, SelfFedOn DEF AllFair
  <2> HIDE DEF m1
  <2>11. AllFair(m2, asked, X, {}) /\ SelfFed(m2) /\ Calls(m2)
    BY <2>5, <2>9, <2>10, FairOn, SelfFedOn DEF AllFair
  <2> HIDE DEF m2
  <2>12. AllFair(m, asked, X, {}) /\ SelfFed(m) /\ m # <<>> /\ Calls(m)
    BY <2>9, <2>11, FairOn, SelfFedOn DEF AllFair
  <2> HIDE DEF m
  <2>13. Given(F \o m, name, asked)
    BY <2>6, <2>7, <2>12, PrefixGiven
  <2>14. F \o m = F \o A \o L1 \o L2 \o C
    <3>1. (F \o m2) \o C = F \o (m2 \o C)
      <4>1. Calls(F) /\ Calls(m2) /\ Calls(C)
        BY <2>9, <2>11
      <4>2. QED
        BY <4>1, CallsAssociate
    <3>2. (F \o m1) \o L2 = F \o (m1 \o L2)
      <4>1. Calls(F) /\ Calls(m1) /\ Calls(L2)
        BY <2>9, <2>10
      <4>2. QED
        BY <4>1, CallsAssociate
    <3>3. (F \o A) \o L1 = F \o (A \o L1)
      <4>1. Calls(F) /\ Calls(A) /\ Calls(L1)
        BY <2>9
      <4>2. QED
        BY <4>1, CallsAssociate
    <3>4. QED
      BY <3>1, <3>2, <3>3 DEF m, m2, m1
  <2>15. Calls(F \o m) /\ F \o m # <<>> /\ Loads(F \o m, DOMAIN db)
    <3> DEFINE fm == F \o m
    <3>1. /\ Calls(fm) /\ fm # <<>>
          /\ \A i \in 1 .. Len(fm) :
                \/ i \in 1 .. Len(F) /\ fm[i] = F[i]
                \/ \E j \in 1 .. Len(m) : i = Len(F) + j /\ fm[i] = m[j]
      BY <2>9, <2>12, Concatenation
    <3>2. (\A i \in 1 .. Len(F) : F[i].op # "save") /\ (\A i \in 1 .. Len(m) : m[i].op # "save")
      BY <2>7, <2>12 DEF AllFair, Fair
    <3> HIDE DEF fm
    <3>3. Loads(fm, DOMAIN db)
      BY <3>1, <3>2 DEF Loads
    <3>4. QED
      BY <3>1, <3>3 DEF fm
  <2>16. QED
    BY <2>8, <2>13, <2>14, <2>15, ServeRightful
<1>14. CASE DeleteUser(r)
  <2> DEFINE name == "DeleteUser"
  <2>1. PICK u, v :
          Serve(r, name, TRUE, {},
             ForUser(u, v, {"OWNER"})
               \o <<Begin, Delete(LinksOf(v, Roles)), Delete(LinksOf(v, Groups)), Delete({v}),
                    Commit>>)
    BY <1>14 DEF DeleteUser
  <2> DEFINE B == <<Begin, Delete(LinksOf(v, Roles)), Delete(LinksOf(v, Groups)), Delete({v}),
                    Commit>>
  <2>2. Tuple(B, 5)
    BY DEF Tuple
  <2>3. \A i \in 1 .. 5 : Fair(B[i], {}, {v}, {})
    BY Kinds, RowKinds DEF Fair, Real
  <2> HIDE DEF B
  <2>4. AllFair(B, {}, {v}, {}) /\ B # <<>>
    BY <2>2, <2>3, TupleFair
  <2> DEFINE s == ForUser(u, v, {"OWNER"}) \o B
  <2>5. AllFair(s, {}, {v}, {}) /\ s # <<>>
    BY <2>4, ForUserIsFair, FairOn
  <2>6. name # Untied
    BY DEF Untied
  <2>7. Serve(r, name, TRUE, {}, s)
    BY <2>1 DEF B
  <2> HIDE DEF s
  <2>8. QED
    BY <2>5, <2>6, <2>7, ServeUnsaved
<1>15. CASE UpdateUserProfile(r)
  <2>1. PICK u \in Users \cap DOMAIN db :
          ServeWith(r, "UpdateUserProfile", RolesOf(u),
                    <<Begin, Updates(u, Nothing), Associate(u), Commit, Reload(u)>>)
    BY <1>15, Zenon DEF UpdateUserProfile
  <2> DEFINE s == <<Begin, Updates(u, Nothing), Associate(u), Commit, Reload(u)>>
  <2>2. Tuple(s, 5)
    BY DEF Tuple
  <2>3. \A i \in 1 .. 5 :
          /\ s[i].op \notin {"create", "ensure", "skip", "save"} /\ ~Real(s[i])
          /\ s[i].op = "append" => s[i].row = u
    BY Kinds DEF Real, Associate
  <2>4. LinksOf(u, RolesOf(u)) \subseteq DOMAIN db
    BY DEF LinksOf, RolesOf
  <2>5. RolesOf(u) \subseteq DOMAIN db
    BY LinkedEnds DEF RolesOf
  <2> HIDE DEF s
  <2>6. Calls(s) /\ Len(s) = 5
    BY <2>2, TupleIs
  <2>7. s # <<>>
    BY <2>2, TupleSome
  <2>8. "UpdateUserProfile" # Untied
    BY DEF Untied
  <2>9. ServeWith(r, "UpdateUserProfile", RolesOf(u), s)
    BY <2>1, Zenon DEF s
  <2>10. \A i \in 1 .. Len(s) :
            /\ s[i].op \notin {"create", "ensure", "skip"} /\ ~Real(s[i])
            /\ s[i].op = "save" => s[i].row \in DOMAIN db
            /\ s[i].op = "append" => LinksOf(s[i].row, RolesOf(u)) \subseteq DOMAIN db
    BY <2>3, <2>4, <2>6
  <2>11. QED
    BY <2>5, <2>6, <2>7, <2>8, <2>9, <2>10, ServeWithFair
<1>16. CASE Login(r)
  <2>1. PICK u \in Users \cap DOMAIN db :
          ServeWith(r, "Login", {x \in Roles \cup Groups : {u, x} \in DOMAIN db},
                    <<Begin, Save(u), Associate(u), Commit>>)
    BY <1>16, Zenon DEF Login
  <2> DEFINE s == <<Begin, Save(u), Associate(u), Commit>>
             got == {x \in Roles \cup Groups : {u, x} \in DOMAIN db}
  <2>2. Tuple(s, 4)
    BY DEF Tuple
  <2>3. \A i \in 1 .. 4 :
          /\ s[i].op \notin {"create", "ensure", "skip"} /\ ~Real(s[i])
          /\ s[i].op \in {"append", "save"} => s[i].row = u
    BY Kinds DEF Real, Associate, Save
  <2>4. LinksOf(u, got) \subseteq DOMAIN db
    BY DEF LinksOf
  <2>5. got \subseteq DOMAIN db
    BY LinkedEnds
  <2> HIDE DEF s, got
  <2>6. Calls(s) /\ Len(s) = 4
    BY <2>2, TupleIs
  <2>7. s # <<>>
    BY <2>2, TupleSome
  <2>8. "Login" # Untied
    BY DEF Untied
  <2>9. ServeWith(r, "Login", got, s)
    BY <2>1, Zenon DEF s, got
  <2>10. \A i \in 1 .. Len(s) :
            /\ s[i].op \notin {"create", "ensure", "skip"} /\ ~Real(s[i])
            /\ s[i].op = "save" => s[i].row \in DOMAIN db
            /\ s[i].op = "append" => LinksOf(s[i].row, got) \subseteq DOMAIN db
    BY <2>3, <2>4, <2>6
  <2>11. QED
    BY <2>5, <2>6, <2>7, <2>8, <2>9, <2>10, ServeWithFair
<1>17. CASE CreateGroup(r)
  BY <1>17, CreateGroupIsFair
<1>18. QED
  BY <1>1, <1>2, <1>3, <1>4, <1>5, <1>6, <1>7, <1>8, <1>9, <1>10, <1>11, <1>12, <1>13, <1>14,
     <1>15, <1>16, <1>17 DEF AccessHandlers

LEMMA CompetitionHandlersAreFair ==
    ASSUME InOrder, AllRightful, NEW r \in Requests, CompetitionHandlers(r)
    PROVE  AllRightful'
<1>1. CASE CreateCompetition(r)
  <2> DEFINE name == "CreateCompetition"
  <2>1. PICK u \in Users \cap DOMAIN db, k \in Catalogs, c \in New(Competitions), show \in BOOLEAN,
             G \in Some(Groups) :
       Serve(r, "CreateCompetition", hasCompetitionPermission(u), {c} \cup LinksOf(c, G),
             <<First(k), Begin, Create({c}, [show |-> show, finished |-> FALSE])>>
               \o (IF G = {} THEN <<>> ELSE <<Find(G, "any"), Associate(c)>>)
               \o <<CommitUnchecked>>)
    BY <1>1, Zenon DEF CreateCompetition
  <2> DEFINE asked == {c} \cup LinksOf(c, G)
             A == <<First(k), Begin, Create({c}, [show |-> show, finished |-> FALSE])>>
             B == <<Find(G, "any"), Associate(c)>>
             C == <<CommitUnchecked>>
             M == IF G = {} THEN <<>> ELSE B
  <2>2. Tuple(A, 3) /\ Tuple(B, 2) /\ Tuple(C, 1)
    BY DEF Tuple
  <2>3. /\ \A i \in 1 .. 3 : Fair(A[i], asked, G, {})
        /\ \A i \in 1 .. 2 : Fair(B[i], asked, G, {})
        /\ \A i \in 1 .. 1 : Fair(C[i], asked, G, {})
    BY Kinds, RowKinds DEF Fair, Real
  <2>4. name # Untied
    BY DEF Untied
  <2>5. Serve(r, name, hasCompetitionPermission(u), asked, A \o M \o C)
    BY <2>1
  <2> HIDE DEF A, B, C, asked
  <2>6. /\ AllFair(A, asked, G, {}) /\ AllFair(B, asked, G, {}) /\ AllFair(C, asked, G, {})
        /\ C # <<>>
    BY <2>2, <2>3, TupleFair
  <2>7. AllFair(M, asked, G, {})
    BY <2>6, NoneFair
  <2> HIDE DEF M
  <2>8. AllFair(A \o M, asked, G, {})
    BY <2>6, <2>7, FairOn
  <2>9. AllFair(A \o M \o C, asked, G, {}) /\ A \o M \o C # <<>>
    BY <2>6, <2>8, FairOn
  <2> DEFINE s == A \o M \o C
  <2>10. Serve(r, name, hasCompetitionPermission(u), asked, s)
    BY <2>5
  <2>11. AllFair(s, asked, G, {}) /\ s # <<>>
    BY <2>9
  <2> HIDE DEF s
  <2>12. QED
    BY <2>4, <2>10, <2>11, ServeUnsaved
<1>2. CASE UpdateCompetition(r)
  <2>1. PICK u \in Users \cap DOMAIN db, c \in Competitions, G \in Some(Groups),
       set \in {Nothing} \cup [{"show"} -> BOOLEAN] \cup [{"finished"} -> BOOLEAN] :
       Serve(r, "UpdateCompetition", hasCompetitionPermission(u), LinksOf(c, G),
             <<First(c)>>
               \o (IF G = {} THEN <<>> ELSE <<Find(G, "any")>> \o Replace(c, Groups))
               \o <<Begin, Updates(c, set), Associate(c), Commit>>)
    BY <1>2, Zenon DEF UpdateCompetition
  <2> DEFINE asked == LinksOf(c, G)
             A == <<First(c)>>
             B == <<Find(G, "any")>>
             R == Replace(c, Groups)
             C == <<Begin, Updates(c, set), Associate(c), Commit>>
             M == IF G = {} THEN <<>> ELSE B \o R
  <2>2. Tuple(A, 1) /\ Tuple(B, 1) /\ Tuple(C, 4) /\ Tuple(R, 2)
    BY DEF Tuple, Replace
  <2>3. /\ \A i \in 1 .. 1 : Fair(A[i], asked, G, {})
        /\ \A i \in 1 .. 1 : Fair(B[i], asked, G, {})
        /\ \A i \in 1 .. 4 : Fair(C[i], asked, G, {})
    BY Kinds, RowKinds DEF Fair, Real
  <2>4. AllFair(R, asked, G, {})
    BY ReplaceIsFair
  <2>5. LinksOf(c, Groups) \subseteq Links /\ G \subseteq Entities
    <3>1. \A g \in Groups : {c, g} = {g, c}
      OBVIOUS
    <3>2. LinksOf(c, Groups) \subseteq Pairs(Groups, Competitions)
      BY <3>1 DEF LinksOf, Pairs
    <3>3. QED
      BY <3>2 DEF Links, Entities, Some
  <2>6. Bare(A[1]) /\ Bare(B[1]) /\ Bare(R[1]) /\ Bare(R[2])
    BY <2>5 DEF Bare, Real, First, Check, Find, Replace, Associate, Trim
  <2>7. Bare(C[1]) /\ Bare(C[2]) /\ Bare(C[3]) /\ Bare(C[4])
    BY DEF Bare, Real, Begin, Updates, Associate, Commit
  <2>8. Serve(r, Untied, hasCompetitionPermission(u), asked, A \o M \o C)
    BY <2>1 DEF Untied
  <2> HIDE DEF A, B, R, C, asked
  <2>9. /\ AllFair(A, asked, G, {}) /\ AllFair(B, asked, G, {}) /\ AllFair(C, asked, G, {})
        /\ C # <<>> /\ Len(A) = 1 /\ Len(B) = 1 /\ Len(R) = 2 /\ Len(C) = 4
    <3>1. Len(A) = 1 /\ Len(B) = 1 /\ Len(R) = 2 /\ Len(C) = 4
      BY <2>2, TupleSome, TupleIs
    <3>2. QED
      BY <2>2, <2>3, <3>1, TupleFair
  <2>10. AllBare(A) /\ AllBare(B) /\ AllBare(R) /\ AllBare(C) /\ AllBare(<<>>)
    BY <2>4, <2>6, <2>7, <2>9, LenOfNone DEF AllBare
  <2>11. AllFair(M, asked, G, {}) /\ AllBare(M)
    BY <2>4, <2>9, <2>10, NoneFair, FairOn, BareOn DEF AllFair
  <2> HIDE DEF M
  <2>12. AllFair(A \o M, asked, G, {}) /\ AllBare(A \o M)
    BY <2>9, <2>10, <2>11, FairOn, BareOn DEF AllFair
  <2> DEFINE s == A \o M \o C
  <2>13. AllFair(s, asked, G, {}) /\ AllBare(s) /\ s # <<>>
    BY <2>9, <2>10, <2>12, FairOn, BareOn DEF AllFair
  <2> HIDE DEF s
  <2>14. Given(s, Untied, asked)
    BY <2>13, BareGiven
  <2>15. Loads(s, DOMAIN db)
    BY <2>13 DEF AllFair, Fair, Loads
  <2>16. Calls(s)
    BY <2>13 DEF AllFair
  <2>17. Serve(r, Untied, hasCompetitionPermission(u), asked, s)
    BY <2>8 DEF s
  <2>18. QED
    BY <2>13, <2>14, <2>15, <2>16, <2>17, ServeRightful
<1>3. CASE DeleteCompetition(r)
  <2>1. PICK u \in Users \cap DOMAIN db, c \in Competitions :
          Serve(r, "DeleteCompetition", hasCompetitionPermission(u), {},
                <<First(c), Begin, Delete(LinksOf(c, Users)), Delete(LinksOf(c, Groups)),
                  Delete({c}), CommitUnchecked>>)
    BY <1>3, Zenon DEF DeleteCompetition
  <2> DEFINE s ==
               <<First(c), Begin, Delete(LinksOf(c, Users)), Delete(LinksOf(c, Groups)),
                 Delete({c}), CommitUnchecked>>
             asked == {}
  <2>2. Tuple(s, 6)
    BY DEF Tuple
  <2>3. \A i \in 1 .. 6 : Fair(s[i], asked, {}, {})
    BY Kinds, RowKinds DEF Fair, Real
  <2> HIDE DEF s, asked
  <2>5. AllFair(s, asked, {}, {}) /\ s # <<>>
    BY <2>2, <2>3, TupleFair
  <2>6. "DeleteCompetition" # Untied
    BY DEF Untied
  <2>7. Serve(r, "DeleteCompetition", hasCompetitionPermission(u), asked, s)
    BY <2>1, Zenon DEF s, asked
  <2>8. QED
    BY <2>5, <2>6, <2>7, ServeUnsaved
<1>4. CASE FinishCompetition(r)
  <2>1. PICK u \in Users \cap DOMAIN db, c \in Competitions :
          Serve(r, "FinishCompetition", hasCompetitionPermission(u), {},
                <<Load(c), Negate("finished"), Save(c)>>)
    BY <1>4, Zenon DEF FinishCompetition
  <2> DEFINE s ==
               <<Load(c), Negate("finished"), Save(c)>>
             asked == {}
  <2>2. Tuple(s, 3)
    BY DEF Tuple
  <2>3. \A i \in 1 .. 3 : Fair(s[i], asked, {}, {c})
    BY Kinds, RowKinds DEF Fair, Real
  <2>4. s[1].op = "load" /\ s[1].row = c
    BY DEF Load
  <2> HIDE DEF s, asked
  <2>5. AllFair(s, asked, {}, {c}) /\ s # <<>>
    BY <2>2, <2>3, TupleFair
  <2>6. "FinishCompetition" # Untied
    BY DEF Untied
  <2>7. Serve(r, "FinishCompetition", hasCompetitionPermission(u), asked, s)
    BY <2>1, Zenon DEF s, asked
  <2>8. QED
    BY <2>4, <2>5, <2>6, <2>7, ServeFair
<1>5. CASE ToggleCompetitionVisibility(r)
  <2>1. PICK u \in Users \cap DOMAIN db, c \in Competitions :
          Serve(r, "ToggleCompetitionVisibility", hasCompetitionPermission(u), {},
                <<Load(c), Negate("show"), Save(c)>>)
    BY <1>5, Zenon DEF ToggleCompetitionVisibility
  <2> DEFINE s ==
               <<Load(c), Negate("show"), Save(c)>>
             asked == {}
  <2>2. Tuple(s, 3)
    BY DEF Tuple
  <2>3. \A i \in 1 .. 3 : Fair(s[i], asked, {}, {c})
    BY Kinds, RowKinds DEF Fair, Real
  <2>4. s[1].op = "load" /\ s[1].row = c
    BY DEF Load
  <2> HIDE DEF s, asked
  <2>5. AllFair(s, asked, {}, {c}) /\ s # <<>>
    BY <2>2, <2>3, TupleFair
  <2>6. "ToggleCompetitionVisibility" # Untied
    BY DEF Untied
  <2>7. Serve(r, "ToggleCompetitionVisibility", hasCompetitionPermission(u), asked, s)
    BY <2>1, Zenon DEF s, asked
  <2>8. QED
    BY <2>4, <2>5, <2>6, <2>7, ServeFair
<1>6. CASE AddGroupToCompetition(r)
  <2>1. PICK u \in Users \cap DOMAIN db, c \in Competitions, g \in Groups :
          Serve(r, "AddGroupToCompetition", hasCompetitionPermission(u), {{c, g}},
                <<Begin, First(c), First(g), Ensure({{c, g}}), First(c), Commit>>)
    BY <1>6, Zenon DEF AddGroupToCompetition
  <2> DEFINE s ==
               <<Begin, First(c), First(g), Ensure({{c, g}}), First(c), Commit>>
             asked == {{c, g}}
  <2>2. Tuple(s, 6)
    BY DEF Tuple
  <2>3. \A i \in 1 .. 6 : Fair(s[i], asked, {}, {})
    BY Kinds, RowKinds DEF Fair, Real
  <2> HIDE DEF s, asked
  <2>5. AllFair(s, asked, {}, {}) /\ s # <<>>
    BY <2>2, <2>3, TupleFair
  <2>6. "AddGroupToCompetition" # Untied
    BY DEF Untied
  <2>7. Serve(r, "AddGroupToCompetition", hasCompetitionPermission(u), asked, s)
    BY <2>1, Zenon DEF s, asked
  <2>8. QED
    BY <2>5, <2>6, <2>7, ServeUnsaved
<1>7. CASE RemoveGroupFromCompetition(r)
  <2>1. PICK u \in Users \cap DOMAIN db, c \in Competitions, g \in Groups :
          Serve(r, "RemoveGroupFromCompetition", hasCompetitionPermission(u), {},
                <<Begin, First(c), First(g), Delete({{c, g}}), First(c), Commit>>)
    BY <1>7, Zenon DEF RemoveGroupFromCompetition
  <2> DEFINE s ==
               <<Begin, First(c), First(g), Delete({{c, g}}), First(c), Commit>>
             asked == {}
  <2>2. Tuple(s, 6)
    BY DEF Tuple
  <2>3. \A i \in 1 .. 6 : Fair(s[i], asked, {}, {})
    BY Kinds, RowKinds DEF Fair, Real
  <2> HIDE DEF s, asked
  <2>5. AllFair(s, asked, {}, {}) /\ s # <<>>
    BY <2>2, <2>3, TupleFair
  <2>6. "RemoveGroupFromCompetition" # Untied
    BY DEF Untied
  <2>7. Serve(r, "RemoveGroupFromCompetition", hasCompetitionPermission(u), asked, s)
    BY <2>1, Zenon DEF s, asked
  <2>8. QED
    BY <2>5, <2>6, <2>7, ServeUnsaved
<1>8. CASE CreateGroup(r)
  BY <1>8, CreateGroupIsFair
<1>9. CASE UpdateGroup(r)
  <2> DEFINE name == "UpdateGroup"
  <2>1. PICK u \in Users \cap DOMAIN db, g \in Groups :
          Serve(r, name, TRUE, {}, <<First(g)>> \o Managing(u, g) \o <<Updates(g, Nothing)>>)
    BY <1>9, Zenon DEF UpdateGroup
  <2> DEFINE A == <<First(g)>> \o Managing(u, g)
             C == <<Updates(g, Nothing)>>
  <2>2. Tuple(C, 1)
    BY DEF Tuple
  <2>3. \A i \in 1 .. 1 : Fair(C[i], {}, {}, {})
    BY Kinds, RowKinds DEF Fair, Real
  <2>4. name # Untied
    BY DEF Untied
  <2>5. Serve(r, name, TRUE, {}, A \o C)
    BY <2>1
  <2>6. AllFair(A, {}, {}, {})
    BY ManagingIsFair
  <2> HIDE DEF A, C
  <2>7. AllFair(C, {}, {}, {}) /\ C # <<>>
    BY <2>2, <2>3, TupleFair
  <2>8. AllFair(A \o C, {}, {}, {}) /\ A \o C # <<>>
    BY <2>6, <2>7, FairOn
  <2> DEFINE s == A \o C
  <2>9. Serve(r, name, TRUE, {}, s)
    BY <2>5
  <2>10. AllFair(s, {}, {}, {}) /\ s # <<>>
    BY <2>8
  <2> HIDE DEF s
  <2>11. QED
    BY <2>4, <2>9, <2>10, ServeUnsaved
<1>10. CASE DeleteGroup(r)
  <2> DEFINE name == "DeleteGroup"
  <2>1. PICK u \in Users \cap DOMAIN db, g \in Groups :
          Serve(r, name, TRUE, {}, <<First(g)>> \o Managing(u, g)
               \o <<Begin, Delete(LinksOf(g, Users)), Delete(LinksOf(g, Competitions)),
                    Delete({g}), CommitUnchecked>>)
    BY <1>10, Zenon DEF DeleteGroup
  <2> DEFINE A == <<First(g)>> \o Managing(u, g)
             C == <<Begin, Delete(LinksOf(g, Users)), Delete(LinksOf(g, Competitions)),
                    Delete({g}), CommitUnchecked>>
  <2>2. Tuple(C, 5)
    BY DEF Tuple
  <2>3. \A i \in 1 .. 5 : Fair(C[i], {}, {}, {})
    BY Kinds, RowKinds DEF Fair, Real
  <2>4. name # Untied
    BY DEF Untied
  <2>5. Serve(r, name, TRUE, {}, A \o C)
    BY <2>1
  <2>6. AllFair(A, {}, {}, {})
    BY ManagingIsFair
  <2> HIDE DEF A, C
  <2>7. AllFair(C, {}, {}, {}) /\ C # <<>>
    BY <2>2, <2>3, TupleFair
  <2>8. AllFair(A \o C, {}, {}, {}) /\ A \o C # <<>>
    BY <2>6, <2>7, FairOn
  <2> DEFINE s == A \o C
  <2>9. Serve(r, name, TRUE, {}, s)
    BY <2>5
  <2>10. AllFair(s, {}, {}, {}) /\ s # <<>>
    BY <2>8
  <2> HIDE DEF s
  <2>11. QED
    BY <2>4, <2>9, <2>10, ServeUnsaved
<1>11. CASE AddUserToGroup(r)
  <2>1. PICK u \in Users \cap DOMAIN db, v \in Users, g \in Groups :
          Serve(r, "AddUserToGroup", TRUE, {{v, g}},
                <<First(g), Manages(u, g), Find({v}, "all"), Check({{v, g}}, FALSE, "ok"),
                  Associate(g)>>)
    BY <1>11, Zenon DEF AddUserToGroup
  <2> DEFINE D == Check({{v, g}}, FALSE, "ok")
             s ==
               <<First(g), Manages(u, g), Find({v}, "all"), D, Associate(g)>>
             asked == {{v, g}}
  <2>9. D.op = "check"
    BY DEF Check
  <2> HIDE DEF D
  <2>2. Tuple(s, 5)
    BY DEF Tuple
  <2>3. \A i \in 1 .. 5 : Fair(s[i], asked, {v}, {})
    BY <2>9, Kinds, RowKinds DEF Fair, Real, LinksOf
  <2> HIDE DEF s, asked
  <2>5. AllFair(s, asked, {v}, {}) /\ s # <<>>
    BY <2>2, <2>3, TupleFair
  <2>6. "AddUserToGroup" # Untied
    BY DEF Untied
  <2>7. Serve(r, "AddUserToGroup", TRUE, asked, s)
    BY <2>1, Zenon DEF s, asked, D
  <2>8. QED
    BY <2>5, <2>6, <2>7, ServeUnsaved
<1>12. CASE RemoveUserFromGroup(r)
  <2>1. PICK u \in Users \cap DOMAIN db, v \in Users, g \in Groups :
          Serve(r, "RemoveUserFromGroup", TRUE, {},
                <<First(g), Manages(u, g), First(v), Check({{v, g}}, TRUE, "ok"),
                  Delete({{v, g}})>>)
    BY <1>12, Zenon DEF RemoveUserFromGroup
  <2> DEFINE D == Check({{v, g}}, TRUE, "ok")
             s ==
               <<First(g), Manages(u, g), First(v), D, Delete({{v, g}})>>
             asked == {}
  <2>9. D.op = "check"
    BY DEF Check
  <2> HIDE DEF D
  <2>2. Tuple(s, 5)
    BY DEF Tuple
  <2>3. \A i \in 1 .. 5 : Fair(s[i], asked, {}, {})
    BY <2>9, Kinds, RowKinds DEF Fair, Real
  <2> HIDE DEF s, asked
  <2>5. AllFair(s, asked, {}, {}) /\ s # <<>>
    BY <2>2, <2>3, TupleFair
  <2>6. "RemoveUserFromGroup" # Untied
    BY DEF Untied
  <2>7. Serve(r, "RemoveUserFromGroup", TRUE, asked, s)
    BY <2>1, Zenon DEF s, asked, D
  <2>8. QED
    BY <2>5, <2>6, <2>7, ServeUnsaved
<1>13. CASE CreateUserAndAttachGroup(r)
  <2>1. PICK u \in Users \cap DOMAIN db, v \in Unused(Users), G \in Some(Groups) :
          Serve(r, "CreateUserAndAttachGroup", IsStaff(u) /\ G # {}, {v} \cup LinksOf(v, G),
                <<Begin, Find(G, "some"), Create({v}, Nothing), Associate(v), Commit,
                  Reload(v)>>)
    BY <1>13, Zenon DEF CreateUserAndAttachGroup
  <2> DEFINE s ==
               <<Begin, Find(G, "some"), Create({v}, Nothing), Associate(v), Commit, Reload(v)>>
             asked == {v} \cup LinksOf(v, G)
  <2>2. Tuple(s, 6)
    BY DEF Tuple
  <2>3. \A i \in 1 .. 6 : Fair(s[i], asked, G, {})
    BY Kinds, RowKinds DEF Fair, Real
  <2> HIDE DEF s, asked
  <2>5. AllFair(s, asked, G, {}) /\ s # <<>>
    BY <2>2, <2>3, TupleFair
  <2>6. "CreateUserAndAttachGroup" # Untied
    BY DEF Untied
  <2>7. Serve(r, "CreateUserAndAttachGroup", IsStaff(u) /\ G # {}, asked, s)
    BY <2>1, Zenon DEF s, asked
  <2>8. QED
    BY <2>5, <2>6, <2>7, ServeUnsaved
<1>14. CASE CreateBulkUsersAndAttachGroup(r)
  <2> DEFINE name == "CreateBulkUsersAndAttachGroup"
  <2>1. PICK u \in Users \cap DOMAIN db, list \in Lists(Users \ dead), g \in Groups :
       Serve(r, name, Has(u, "OWNER"), AskedFor(list, g),
             <<Find({g}, "all"), Begin>> \o CreateEach(list) \o <<Commit>>)
    BY <1>14, Zenon DEF CreateBulkUsersAndAttachGroup
  <2> DEFINE asked == AskedFor(list, g)
             A == <<Find({g}, "all"), Begin>>
             M == CreateEach(list)
             C == <<Commit>>
  <2>2. Tuple(A, 2) /\ Tuple(C, 1)
    BY DEF Tuple
  <2>3. /\ \A i \in 1 .. 2 : Fair(A[i], asked, {g}, {})
        /\ \A i \in 1 .. 1 : Fair(C[i], asked, {g}, {})
    BY Kinds, RowKinds DEF Fair, Real
  <2>4. name # Untied
    BY DEF Untied
  <2>5. Serve(r, name, Has(u, "OWNER"), asked, A \o M \o C)
    BY <2>1
  <2>6. AllFair(M, asked, {g}, {})
    BY CreateEachIsFair
  <2> HIDE DEF A, M, C, asked
  <2>7. AllFair(A, asked, {g}, {}) /\ AllFair(C, asked, {g}, {}) /\ C # <<>>
    BY <2>2, <2>3, TupleFair
  <2>8. AllFair(A \o M, asked, {g}, {})
    BY <2>6, <2>7, FairOn
  <2>9. AllFair(A \o M \o C, asked, {g}, {}) /\ A \o M \o C # <<>>
    BY <2>7, <2>8, FairOn
  <2> DEFINE s == A \o M \o C
  <2>10. Serve(r, name, Has(u, "OWNER"), asked, s)
    BY <2>5
  <2>11. AllFair(s, asked, {g}, {}) /\ s # <<>>
    BY <2>9
  <2> HIDE DEF s
  <2>12. QED
    BY <2>4, <2>10, <2>11, ServeUnsaved
<1>15. CASE ImportUsersFromXLSXToGroup(r)
  <2> DEFINE name == "ImportUsersFromXLSXToGroup"
  <2>0. PICK u \in Users \cap DOMAIN db, list \in Lists(Users \ dead), g \in Groups : \E X :
       Serve(r, name, Has(u, "OWNER"), AskedFor(list, g),
             <<Find({g}, "all"), Begin, Check(X, FALSE, "error")>>
               \o CreateEach(list) \o <<Commit>>)
    BY <1>15, Zenon DEF ImportUsersFromXLSXToGroup
  <2>1. PICK X :
       Serve(r, name, Has(u, "OWNER"), AskedFor(list, g),
             <<Find({g}, "all"), Begin, Check(X, FALSE, "error")>>
               \o CreateEach(list) \o <<Commit>>)
    BY <2>0
  <2> DEFINE D == Check(X, FALSE, "error")
             asked == AskedFor(list, g)
             A == <<Find({g}, "all"), Begin, D>>
             M == CreateEach(list)
             C == <<Commit>>
  <2>12. D.op = "check"
    BY DEF Check
  <2> HIDE DEF D
  <2>2. Tuple(A, 3) /\ Tuple(C, 1)
    BY DEF Tuple
  <2>3. /\ \A i \in 1 .. 3 : Fair(A[i], asked, {g}, {})
        /\ \A i \in 1 .. 1 : Fair(C[i], asked, {g}, {})
    BY <2>12, Kinds, RowKinds DEF Fair, Real
  <2>4. name # Untied
    BY DEF Untied
  <2>5. Serve(r, name, Has(u, "OWNER"), asked, A \o M \o C)
    BY <2>1, Zenon DEF D
  <2>6. AllFair(M, asked, {g}, {})
    BY CreateEachIsFair
  <2> HIDE DEF A, M, C, asked
  <2>7. AllFair(A, asked, {g}, {}) /\ AllFair(C, asked, {g}, {}) /\ C # <<>>
    BY <2>2, <2>3, TupleFair
  <2>8. AllFair(A \o M, asked, {g}, {})
    BY <2>6, <2>7, FairOn
  <2>9. AllFair(A \o M \o C, asked, {g}, {}) /\ A \o M \o C # <<>>
    BY <2>7, <2>8, FairOn
  <2> DEFINE s == A \o M \o C
  <2>10. Serve(r, name, Has(u, "OWNER"), asked, s)
    BY <2>5
  <2>11. AllFair(s, asked, {g}, {}) /\ s # <<>>
    BY <2>9
  <2> HIDE DEF s
  <2>13. QED
    BY <2>4, <2>10, <2>11, ServeUnsaved
<1>16. CASE DeleteAllUsersFromGroup(r)
  <2>1. PICK u \in Users \cap DOMAIN db, g \in Groups :
          Serve(r, "DeleteAllUsersFromGroup", Has(u, "OWNER"), {},
                <<First(g), Begin, Members(g), LeaveIfNone, DetachFound({g}),
                  DetachFound(Roles), DeleteFound, Commit>>)
    BY <1>16, Zenon DEF DeleteAllUsersFromGroup
  <2> DEFINE s ==
               <<First(g), Begin, Members(g), LeaveIfNone, DetachFound({g}),
                 DetachFound(Roles), DeleteFound, Commit>>
             asked == {}
  <2>2. Tuple(s, 8)
    BY DEF Tuple
  <2>3. \A i \in 1 .. 8 : Fair(s[i], asked, Users, {})
    BY Kinds, RowKinds DEF Fair, Real
  <2> HIDE DEF s, asked
  <2>5. AllFair(s, asked, Users, {}) /\ s # <<>>
    BY <2>2, <2>3, TupleFair
  <2>6. "DeleteAllUsersFromGroup" # Untied
    BY DEF Untied
  <2>7. Serve(r, "DeleteAllUsersFromGroup", Has(u, "OWNER"), asked, s)
    BY <2>1, Zenon DEF s, asked
  <2>8. QED
    BY <2>5, <2>6, <2>7, ServeUnsaved
<1>17. CASE BulkDeleteUsers(r)
  <2> DEFINE name == "BulkDeleteUsers"
  <2>1. PICK u \in Users \cap DOMAIN db, V \in Some(Users) \ {{}} :
       Serve(r, name, TRUE, {},
             <<Find(V, "some")>> \o (IF Has(u, "OWNER") THEN <<>> ELSE <<OwnsFound(u)>>)
               \o <<Begin, DetachFound(Roles \cup Groups), Delete(V), Commit>>)
    BY <1>17, Zenon DEF BulkDeleteUsers
  <2> DEFINE A == <<Find(V, "some")>>
             B == <<OwnsFound(u)>>
             M == IF Has(u, "OWNER") THEN <<>> ELSE B
             C == <<Begin, DetachFound(Roles \cup Groups), Delete(V), Commit>>
  <2>2. Tuple(A, 1) /\ Tuple(B, 1) /\ Tuple(C, 4)
    BY DEF Tuple
  <2>3. /\ \A i \in 1 .. 1 : Fair(A[i], {}, V, {})
        /\ \A i \in 1 .. 1 : Fair(B[i], {}, V, {})
        /\ \A i \in 1 .. 4 : Fair(C[i], {}, V, {})
    BY Kinds, RowKinds DEF Fair, Real
  <2>4. name # Untied
    BY DEF Untied
  <2>5. Serve(r, name, TRUE, {}, A \o M \o C)
    BY <2>1
  <2> HIDE DEF A, B, C
  <2>6. AllFair(A, {}, V, {}) /\ AllFair(B, {}, V, {}) /\ AllFair(C, {}, V, {}) /\ C # <<>>
    BY <2>2, <2>3, TupleFair
  <2>7. AllFair(M, {}, V, {})
    BY <2>6, NoneFair
  <2> HIDE DEF M
  <2>8. AllFair(A \o M, {}, V, {})
    BY <2>6, <2>7, FairOn
  <2>9. AllFair(A \o M \o C, {}, V, {}) /\ A \o M \o C # <<>>
    BY <2>6, <2>8, FairOn
  <2> DEFINE s == A \o M \o C
  <2>10. Serve(r, name, TRUE, {}, s)
    BY <2>5
  <2>11. AllFair(s, {}, V, {}) /\ s # <<>>
    BY <2>9
  <2> HIDE DEF s
  <2>12. QED
    BY <2>4, <2>10, <2>11, ServeUnsaved
<1>18. CASE TriggerPuzzleFirstTry(r)
  <2>1. PICK u \in Users \cap DOMAIN db, c \in Competitions :
          Serve(r, "TriggerPuzzleFirstTry", GetAccessibleCompetition(u, c), {{u, c}},
                <<Check({{u, c}}, FALSE, "ok"), Create({{u, c}}, Nothing)>>)
    BY <1>18, Zenon DEF TriggerPuzzleFirstTry
  <2> DEFINE D == Check({{u, c}}, FALSE, "ok")
             s ==
               <<D, Create({{u, c}}, Nothing)>>
             asked == {{u, c}}
  <2>9. D.op = "check"
    BY DEF Check
  <2> HIDE DEF D
  <2>2. Tuple(s, 2)
    BY DEF Tuple
  <2>3. \A i \in 1 .. 2 : Fair(s[i], asked, {}, {})
    BY <2>9, Kinds, RowKinds DEF Fair, Real
  <2> HIDE DEF s, asked
  <2>5. AllFair(s, asked, {}, {}) /\ s # <<>>
    BY <2>2, <2>3, TupleFair
  <2>6. "TriggerPuzzleFirstTry" # Untied
    BY DEF Untied
  <2>7. Serve(r, "TriggerPuzzleFirstTry", GetAccessibleCompetition(u, c), asked, s)
    BY <2>1, Zenon DEF s, asked, D
  <2>8. QED
    BY <2>5, <2>6, <2>7, ServeUnsaved
<1>19. QED
  BY <1>1, <1>2, <1>3, <1>4, <1>5, <1>6, <1>7, <1>8, <1>9, <1>10, <1>11, <1>12, <1>13, <1>14,
     <1>15, <1>16, <1>17, <1>18 DEF CompetitionHandlers

----------------------------------------------------------------------------
(* Nothing comes back *)

\* Entering changes no row.
LEMMA HandlersChangeNothing ==
    ASSUME NEW r \in Requests, Handlers(r)
    PROVE  UNCHANGED <<db, dead>> 
<1>1. Entered(r)
  BY HandlersEnter
<1>2. QED
  BY <1>1 DEF Entered

RInv == InOrder /\ IInv /\ AllRightful

LEMMA NextIsRightful ==
    ASSUME RInv, [Next]_vars
    PROVE  RInv'
<1>1. InOrder /\ IInv /\ AllRightful /\ ForeignKeys
  BY DEF RInv, IInv
<1>2. InOrder'
  BY <1>1, NextIsSound
<1>3. IInv'
  <2>1. ASSUME NEW r \in Requests, Handlers(r) PROVE IInv'
    BY <1>1, <2>1, HandlersEnter, EnteredKeeps
  <2>2. ASSUME NEW r \in Requests, Steps(r) \/ Fail(r) PROVE IInv'
    BY <1>1, <2>2, StepsKeep, FailKeeps
  <2>3. CASE UNCHANGED vars
    BY <1>1, <2>3, StutteringKeeps
  <2>4. QED
    BY <2>1, <2>2, <2>3 DEF Next
<1>4. ASSUME NEW r \in Requests, Handlers(r) PROVE AllRightful'
  BY <1>1, <1>4, AccessHandlersAreFair, CompetitionHandlersAreFair DEF Handlers
<1>5. ASSUME NEW r \in Requests, Steps(r) \/ Fail(r) PROVE AllRightful'
  BY <1>1, <1>2, <1>5, StepGoesOn, FailGoesOn, StepIsRightful
<1>6. ASSUME UNCHANGED vars PROVE AllRightful'
  <2>1. req' = req /\ db' = db
    BY <1>6 DEF vars
  <2>2. QED
    BY <1>1, <2>1 DEF AllRightful, Running
<1>7. AllRightful'
  <2>1. CASE Next
    BY <1>4, <1>5, <2>1 DEF Next
  <2>2. QED
    BY <1>6, <2>1
<1>8. QED
  BY <1>2, <1>3, <1>7 DEF RInv

\* A row that was deleted is there again only if a request made one of its calls then that was
\* asked to add that row or had read it before, whoever deletes and adds meanwhile: nothing that
\* begins after a deletion undoes it by what it finds.
THEOREM NothingComesBack == Spec => NoComeback
<1>1. Init => RInv
  <2>1. SUFFICES ASSUME Init PROVE RInv
    OBVIOUS
  <2>2. \A r \in Requests : ~Running(r)
    BY <2>1 DEF Init, Running, Idle
  <2>3. QED
    BY <2>1, <2>2, InitInOrder, InitHolds DEF RInv, AllRightful
<1>2. RInv /\ [Next]_vars => RInv'
  BY NextIsRightful
<1>3. RInv /\ [Next]_vars =>
        [\A x \in dead \cap DOMAIN db' :
            \E r \in Requests : req'[r].todo # req[r].todo /\ x \in req[r].asked \cup req[r].gone]_vars
  <2>1. SUFFICES ASSUME RInv, Next, NEW x \in dead \cap DOMAIN db'
                 PROVE  \E r \in Requests :
                           req'[r].todo # req[r].todo /\ x \in req[r].asked \cup req[r].gone
    OBVIOUS
  <2>2. InOrder /\ IInv /\ AllRightful /\ x \notin DOMAIN db
    BY <2>1 DEF RInv, IInv, ForeignKeys
  <2>3. PICK r \in Requests : Handlers(r) \/ Steps(r) \/ Fail(r)
    BY <2>1 DEF Next
  <2>4. ~Handlers(r)
    BY <2>1, <2>2, HandlersChangeNothing
  <2>5. Running(r) /\ Changed(r)
    BY <2>2, <2>3, <2>4, StepGoesOn, FailGoesOn
  <2>6. QED
    BY <2>1, <2>2, <2>5, StepBrings
<1>4. QED
  BY <1>1, <1>2, <1>3, PTL DEF Spec, NoComeback

----------------------------------------------------------------------------
(* Users come with their group *)

Creators == {"CreateUserAndAttachGroup", "CreateBulkUsersAndAttachGroup", "ImportUsersFromXLSXToGroup"}

Known == DOMAIN db \cup dead

\* A call of a creator: a group is found first, and each user is followed by his group.
Joining(c) ==
    /\ c.op \in {"find", "begin", "check", "create", "append", "commit"}
    /\ c.op = "find" =>
          /\ c.rows \subseteq Groups
          /\ c.need = "some" \/ (c.need = "all" /\ c.rows # {})
    /\ c.op = "append" => c.row \in Users

Followed(s, i) ==
    /\ i + 1 \in 1 .. Len(s) /\ s[i + 1].op = "append"
    /\ s[i].rows = {s[i + 1].row}

Joins(s) == \A i \in 1 .. Len(s) : Joining(s[i]) /\ (s[i].op = "create" => Followed(s, i))

\* What the creator x has found by then.
Fed(x) ==
    \A i \in 1 .. Len(x.todo) :
       x.todo[i].op = "append" /\ Unfed(x.todo, i) => DOMAIN x.got # {} /\ DOMAIN x.got \subseteq Groups

\* The users that x creates are in their group, or are about to be.
Joined(x, K) ==
    \A v \in (DOMAIN x.put \cap Users) \ K :
       \/ LinksOf(v, Groups) \cap DOMAIN x.put # {}
       \/ x.todo[1].op = "append" /\ x.todo[1].row = v

Grouped(x, K) ==
    /\ x.gone \subseteq K
    /\ x.name \notin Creators => x.asked \cap Users = {}
    /\ x.name \in Creators => Joins(x.todo) /\ Fed(x) /\ Joined(x, K)

AllGrouped == \A r \in Requests : Running(r) => Grouped(req[r], Known)

LEMMA UsersApart ==
    /\ Users \cap Groups = {} /\ Users \cap Competitions = {} /\ Users \cap Links = {}
    /\ Users \cap Roles = {} /\ Users \cap Scopes = {}
<1>1. \A i, j \in 1 .. 6 :
         i # j => <<Users, Roles, Scopes, Groups, Catalogs, Competitions>>[i]
                    \cap <<Users, Roles, Scopes, Groups, Catalogs, Competitions>>[j] = {}
  BY KindsAssumption
<1>2. Users \cap Groups = {}
  BY <1>1
<1>3. Users \cap Competitions = {}
  BY <1>1
<1>4. Users \cap Roles = {} /\ Users \cap Scopes = {}
  BY <1>1
<1>5. Users \cap Links = {}
  BY DistinctAssumption DEF Entities
<1>6. QED
  BY <1>2, <1>3, <1>4, <1>5

LEMMA GroupLinks ==
    ASSUME NEW v \in Users, NEW G, G \subseteq Groups
    PROVE  LinksOf(v, G) \subseteq Links /\ LinksOf(v, G) \subseteq LinksOf(v, Groups)
<1>1. LinksOf(v, G) \subseteq Pairs(Users, Groups)
  BY DEF LinksOf, Pairs
<1>2. QED
  BY <1>1, LinksOfPart DEF Links

\* Nothing that was there is forgotten.
LEMMA KnownGrows ==
    ASSUME NEW r \in Requests, Changed(r)
    PROVE  Known \subseteq Known' /\ (DOMAIN db \ DOMAIN db') \subseteq Known'
<1>1. CASE UNCHANGED <<db, dead>>
  BY <1>1 DEF Known
<1>2. CASE dead' = (dead \cup (DOMAIN db \ DOMAIN db')) \ DOMAIN db'
  BY <1>2 DEF Known
<1>3. QED
  BY <1>1, <1>2 DEF Changed, Quiet, Held, Published

LEMMA JoinsOnward ==
    ASSUME NEW s, NEW t, NEW d, Drops(s, t, d), Joins(s)
    PROVE  Joins(t)
<1>1. d \in 1 .. 3 /\ Len(s) \in Nat /\ Len(t) \in Nat /\ Len(t) = Len(s) - d
  BY DEF Drops
<1>2. SUFFICES ASSUME NEW i \in 1 .. Len(t)
               PROVE  Joining(t[i]) /\ (t[i].op = "create" => Followed(t, i))
  BY DEF Joins
<1>3. t[i] = s[i + d] /\ i + d \in 1 .. Len(s)
  BY <1>1 DEF Drops
<1>4. Joining(s[i + d]) /\ (s[i + d].op = "create" => Followed(s, i + d))
  BY <1>3 DEF Joins
<1>5. ASSUME t[i].op = "create" PROVE Followed(t, i)
  <2>1. (i + d) + 1 \in 1 .. Len(s) /\ s[(i + d) + 1].op = "append" /\ s[i + d].rows = {s[(i + d) + 1].row}
    BY <1>3, <1>4, <1>5 DEF Followed
  <2>2. i + 1 \in 1 .. Len(t) /\ (i + 1) + d = (i + d) + 1
    BY <1>1, <2>1
  <2>3. t[i + 1] = s[(i + d) + 1]
    BY <2>2 DEF Drops
  <2>4. QED
    BY <1>3, <2>1, <2>2, <2>3 DEF Followed
<1>6. QED
  BY <1>3, <1>4, <1>5

\* What a creator goes on with.
LEMMA FedOnward ==
    ASSUME NEW x, NEW y, NEW d, Drops(x.todo, y.todo, d), \A i \in 2 .. d : ~Real(x.todo[i]),
           Fed(x),
           IF Real(x.todo[1]) THEN DOMAIN y.got # {} /\ DOMAIN y.got \subseteq Groups
                              ELSE y.got = x.got
    PROVE  Fed(y)
<1>1. SUFFICES ASSUME NEW j \in 1 .. Len(y.todo), y.todo[j].op = "append", Unfed(y.todo, j)
               PROVE  DOMAIN y.got # {} /\ DOMAIN y.got \subseteq Groups
  BY DEF Fed
<1>2. CASE Real(x.todo[1])
  BY <1>2
<1>3. CASE ~Real(x.todo[1])
  <2>1. j + d \in 1 .. Len(x.todo) /\ y.todo[j] = x.todo[j + d] /\ Unfed(x.todo, j + d)
    BY <1>1, <1>3, UnfedBefore
  <2>2. QED
    BY <1>1, <1>3, <2>1 DEF Fed
<1>4. QED
  BY <1>2, <1>3

\* The first call of a creator.
LEMMA CreatorHead ==
    ASSUME InOrder, NEW r \in Requests, Running(r), Grouped(req[r], Known), req[r].name \in Creators,
           NEW c, c = req[r].todo[1]
    PROVE  /\ c.op \in {"find", "begin", "check", "create", "append", "commit"}
           /\ c.op = "find" =>
                 Real(c) /\ c.rows \subseteq Groups
                   /\ (c.need = "some" \/ (c.need = "all" /\ c.rows # {}))
           /\ c.op = "create" =>
                 /\ req[r].open /\ req[r].todo[2].op = "append"
                 /\ c.rows = {req[r].todo[2].row}
           /\ c.op = "append" =>
                 /\ c.row \in Users
                 /\ DOMAIN req[r].got # {} /\ DOMAIN req[r].got \subseteq Groups
<1> DEFINE x == req[r]
<1>1. /\ 1 \in 1 .. Len(x.todo) /\ Calls(x.todo) /\ x.todo # <<>>
      /\ Tidy(x.todo, x.name, x.open, x.wrote) /\ x.open \in BOOLEAN /\ x.wrote \in BOOLEAN
  BY HeadFacts, TailIs
<1>2. Joins(x.todo) /\ Fed(x)
  BY DEF Grouped
<1>3. Joining(c) /\ (c.op = "create" => Followed(x.todo, 1))
  BY <1>1, <1>2 DEF Joins
<1>4. ASSUME c.op = "create"
      PROVE  2 \in 1 .. Len(x.todo) /\ x.todo[2].op = "append" /\ c.rows = {x.todo[2].row}
  BY <1>3, <1>4 DEF Followed
<1>5. ASSUME c.op = "create" PROVE x.open
  <2>1. x.name # Untied
    BY DEF Creators, Untied
  <2>2. x.open = FALSE => \A i \in 2 .. Len(x.todo) : x.todo[i].op = "check"
    BY <1>1, <1>5, <2>1, AfterPublish DEF Changes
  <2>3. 2 \in 2 .. Len(x.todo) /\ x.todo[2].op = "append"
    BY <1>1, <1>4, <1>5
  <2>4. QED
    BY <1>1, <2>2, <2>3
<1>6. Unfed(x.todo, 1)
  BY DEF Unfed
<1>7. c.op = "append" => DOMAIN x.got # {} /\ DOMAIN x.got \subseteq Groups
  BY <1>1, <1>2, <1>6 DEF Fed
<1>8. QED
  BY <1>3, <1>4, <1>5, <1>7 DEF Joining, Real

\* What a link refers to.
\* Requests that do nothing.
LEMMA GroupedLater ==
    ASSUME NEW x, NEW z, NEW K, NEW L, Grouped(x, K), K \subseteq L,
           z.todo = x.todo, z.name = x.name, z.asked = x.asked, z.got = x.got, z.put = x.put,
           z.gone \subseteq L
    PROVE  Grouped(z, L)
<1>1. Fed(x) => Fed(z)
  BY DEF Fed
<1>2. Joined(x, K) => Joined(z, L)
  BY DEF Joined
<1>3. QED
  BY <1>1, <1>2 DEF Grouped

\* A call of r that goes on.
LEMMA GroupedOnward ==
    ASSUME InOrder, InOrder', AllRightful, NEW r \in Requests, Running(r), Grouped(req[r], Known),
           NEW L, Known \subseteq L, Onward(req[r], req'[r]), ~Ended(r),
           IF Real(req[r].todo[1]) THEN Found(r, req[r].todo[1], req'[r].got)
                                   ELSE req'[r].got = req[r].got,
           req[r].name \in Creators => Joined(req'[r], L)
    PROVE  Grouped(req'[r], L)
<1> DEFINE x == req[r]
           y == req'[r]
<1>1. /\ Calls(x.todo) /\ x.todo # <<>> /\ Given(x.todo, x.name, x.asked)
      /\ 1 \in 1 .. Len(x.todo)
  BY HeadFacts, TailIs DEF AllRightful, Rightful
<1>2. y.todo # <<>> /\ Calls(y.todo)
  BY DEF InOrder, Going, Ended
<1>3. y.name = x.name /\ y.asked = x.asked /\ y.gone = x.gone
  BY DEF Onward
<1>4. PICK d : /\ Drops(x.todo, y.todo, d)
               /\ \A i \in 2 .. d : ~Real(x.todo[i]) /\ x.todo[i].op # "load"
  BY <1>1, <1>2, OnwardDrops
<1>5. ASSUME x.name \in Creators PROVE Joins(y.todo) /\ Fed(y)
  <2>1. Joins(x.todo) /\ Fed(x)
    BY <1>5 DEF Grouped
  <2>2. Joins(y.todo)
    BY <1>4, <2>1, JoinsOnward
  <2>3. Real(x.todo[1]) => DOMAIN y.got # {} /\ DOMAIN y.got \subseteq Groups
    <3>1. SUFFICES ASSUME Real(x.todo[1]) PROVE DOMAIN y.got # {} /\ DOMAIN y.got \subseteq Groups
      OBVIOUS
    <3>2. /\ x.todo[1].rows \subseteq Groups
          /\ x.todo[1].need = "some" \/ (x.todo[1].need = "all" /\ x.todo[1].rows # {})
      BY <1>5, <3>1, CreatorHead DEF Real
    <3>3. Found(r, x.todo[1], y.got)
      BY <3>1
    <3>4. QED
      BY <3>2, <3>3 DEF Found
  <2>4. IF Real(x.todo[1]) THEN DOMAIN y.got # {} /\ DOMAIN y.got \subseteq Groups
                           ELSE y.got = x.got
    BY <2>3
  <2> HIDE DEF x, y
  <2>5. Fed(y)
    BY <1>4, <2>1, <2>4, FedOnward
  <2>6. QED
    BY <2>2, <2>5
<1>6. QED
  BY <1>3, <1>5 DEF Grouped

\* A user that r has created and nobody knows, once r goes on.
LEMMA JoinedOnward ==
    ASSUME InOrder, InOrder', IInv, AllRightful, NEW r \in Requests, Running(r),
           Grouped(req[r], Known), req[r].name \in Creators,
           NEW new, NEW out, Makes(r, new, out), Held(r, new, out), ~Ended(r)
    PROVE  Joined(req'[r], Known)
<1> DEFINE x == req[r]
           y == req'[r]
           c == x.todo[1]
<1>1. /\ Onward(x, y) /\ y.got = x.got /\ PutRows(r)' = new \cup (PutRows(r) \ out)
      /\ c.op \in Changes /\ Head(x.todo) = c
  BY HeadFacts DEF Held
<1>2. c.op \in {"create", "append"}
  BY <1>1, CreatorHead DEF Changes
<1>3. DOMAIN y.put = new \cup DOMAIN x.put
  <2>1. out = {}
    BY <1>1, <1>2 DEF Makes
  <2>2. QED
    BY <1>1, <2>1 DEF PutRows
<1>4. Joined(x, Known)
  BY DEF Grouped
<1>5. SUFFICES ASSUME NEW v \in Users, v \in DOMAIN y.put, v \notin Known
               PROVE  \/ LinksOf(v, Groups) \cap DOMAIN y.put # {}
                      \/ y.todo[1].op = "append" /\ y.todo[1].row = v
  BY DEF Joined
<1>6. CASE c.op = "create"
  <2>1. c.rows = {x.todo[2].row} /\ x.todo[2].op = "append"
    BY <1>6, CreatorHead
  <2>2. new = c.rows
    BY <1>1, <1>6 DEF Makes
  <2>3. ~(x.todo[1].op = "append")
    BY <1>6
  <2>4. CASE v \in DOMAIN x.put
    BY <1>3, <1>4, <1>5, <2>3, <2>4 DEF Joined
  <2>5. CASE v = x.todo[2].row
    <3>1. PICK d \in 1 .. 3 :
             /\ Len(y.todo) = Len(x.todo) - d
             /\ \A j \in 1 .. Len(y.todo) : y.todo[j] = x.todo[j + d]
             /\ \A i \in 2 .. d : x.todo[i].op = "begin" \/ (i = 2 /\ x.todo[1].op = "skip")
      BY <1>1 DEF Onward
    <3>2. ~(2 \in 2 .. d)
      BY <1>6, <2>1, <3>1
    <3>3. d = 1
      BY <3>2
    <3>4. y.todo # <<>> /\ Calls(y.todo)
      BY DEF InOrder, Going, Ended
    <3>5. 1 \in 1 .. Len(y.todo)
      BY <3>4, TailIs
    <3>6. y.todo[1] = x.todo[1 + 1]
      BY <3>1, <3>3, <3>5
    <3>7. QED
      BY <2>1, <2>5, <3>6
  <2>6. QED
    BY <1>3, <1>5, <2>1, <2>2, <2>4, <2>5
<1>7. CASE c.op = "append"
  <2>1. c.row \in Users /\ DOMAIN x.got # {} /\ DOMAIN x.got \subseteq Groups
    BY <1>7, CreatorHead
  <2>2. new = (DOMAIN x.got \cup LinksOf(c.row, DOMAIN x.got)) \ Seen(r)
    BY <1>1, <1>7 DEF Makes
  <2>3. LinksOf(c.row, DOMAIN x.got) \subseteq Links
          /\ LinksOf(c.row, DOMAIN x.got) \subseteq LinksOf(c.row, Groups)
    BY <2>1, GroupLinks
  <2>4. v \in DOMAIN x.put
    BY <1>3, <1>5, <2>1, <2>2, <2>3, UsersApart
  <2>5. CASE LinksOf(v, Groups) \cap DOMAIN x.put # {}
    BY <1>3, <2>5
  <2>6. CASE c.row = v
    <3>1. PICK g \in DOMAIN x.got : TRUE
      BY <2>1
    <3>2. {v, g} \in LinksOf(v, DOMAIN x.got)
      BY DEF LinksOf
    <3>3. {v, g} \in LinksOf(v, Groups) /\ {v, g} \in Links
      BY <2>3, <2>6, <3>2
    <3>4. {v, g} \notin DOMAIN db
      BY <1>5, <3>3, RefsOfLinks DEF IInv, ForeignKeys, Consistent, Known
    <3>5. {v, g} \in DOMAIN x.put \cup new
      <4>1. Seen(r) = Sees(PutRows(r), DelRows(r), DOMAIN db)
        BY SeenIs
      <4>2. {v, g} \in Seen(r) => {v, g} \in DOMAIN x.put
        BY <3>4, <4>1 DEF Sees, PutRows
      <4>3. QED
        BY <2>2, <2>6, <3>2, <4>2
    <3>6. QED
      BY <1>3, <3>3, <3>5
  <2>7. QED
    BY <1>4, <1>5, <2>4, <2>5, <2>6 DEF Joined
<1>8. QED
  BY <1>2, <1>6, <1>7

LEMMA StepIsGrouped ==
    ASSUME InOrder, InOrder', IInv, AllRightful, AllGrouped, NEW r \in Requests, Running(r), Changed(r)
    PROVE  AllGrouped'
<1> DEFINE x == req[r]
           y == req'[r]
           K == Known
           L == Known'
<1>1. Grouped(x, K)
  BY DEF AllGrouped
<1>2. K \subseteq L /\ DOMAIN db \ DOMAIN db' \subseteq L
  BY KnownGrows
<1>3. Head(x.todo) = x.todo[1]
  BY HeadFacts
<1>4. ASSUME NEW q \in Requests \ {r}, req'[q] = req[q], Running(q)'
      PROVE  Grouped(req'[q], L)
  <2>1. Grouped(req[q], K)
    BY <1>4 DEF AllGrouped, Running
  <2>2. req'[q].gone \subseteq L
    BY <1>2, <1>4, <2>1 DEF Grouped
  <2> HIDE DEF K, L
  <2>3. QED
    BY <1>2, <1>4, <2>1, <2>2, GroupedLater
<1>5. CASE Quiet(r)
  <2>1. L = K /\ \A q \in Requests \ {r} : req'[q] = req[q]
    BY <1>5 DEF Quiet, Known
  <2>2. ASSUME ~Ended(r) PROVE Grouped(y, L)
    <3>1. /\ Onward(x, y) /\ PutRows(r)' = PutRows(r)
          /\ IF Real(x.todo[1]) THEN Found(r, x.todo[1], y.got) ELSE y.got = x.got
          /\ x.todo[1].op \notin Changes
      BY <1>3, <1>5, <2>2 DEF Quiet
    <3>2. ASSUME x.name \in Creators PROVE Joined(y, L)
      <4>1. Joined(x, K) /\ DOMAIN y.put = DOMAIN x.put /\ x.todo[1].op # "append"
        BY <1>1, <3>1, <3>2 DEF Grouped, PutRows, Changes
      <4>2. QED
        BY <2>1, <4>1 DEF Joined
    <3> HIDE DEF L
    <3>3. QED
      BY <1>1, <1>2, <2>2, <3>1, <3>2, GroupedOnward
  <2>3. QED
    BY <1>4, <2>1, <2>2 DEF AllGrouped, Running, Ended
<1>6. ASSUME NEW new, NEW out, Makes(r, new, out), Held(r, new, out)
      PROVE  AllGrouped'
  <2>1. L = K /\ \A q \in Requests \ {r} : req'[q] = req[q]
    BY <1>6 DEF Held, Known
  <2>2. ASSUME ~Ended(r) PROVE Grouped(y, L)
    <3>1. Onward(x, y) /\ y.got = x.got /\ x.todo[1].op \in Changes
      BY <1>3, <1>6, <2>2 DEF Held
    <3>2. x.name \in Creators => Joined(y, L)
      BY <1>1, <1>6, <2>1, <2>2, JoinedOnward
    <3>3. ~Real(x.todo[1])
      BY <3>1 DEF Real, Changes
    <3> HIDE DEF L
    <3>4. QED
      BY <1>1, <1>2, <2>2, <3>1, <3>2, <3>3, GroupedOnward
  <2>3. QED
    BY <1>4, <2>1, <2>2 DEF AllGrouped, Running, Ended
<1>7. ASSUME NEW new, NEW out, Makes(r, new, out), Published(r, new, out)
      PROVE  AllGrouped'
  <2>1. ASSUME NEW q \in Requests \ {r}, Running(q)'
        PROVE  Grouped(req'[q], L)
    <3> DEFINE p == req[q]
               z == [p EXCEPT !.gone = @ \cup (DOMAIN db \ DOMAIN db')]
    <3>0. req'[q] = IF Running(q) THEN z ELSE p
      BY <1>7 DEF Published
    <3>1. Running(q)
      BY <2>1, <3>0 DEF Running
    <3>2. req'[q] = z
      BY <3>0, <3>1
    <3>3. DOMAIN p = Fields
      BY DEF InOrder, Going
    <3>4. /\ z.todo = p.todo /\ z.name = p.name /\ z.asked = p.asked /\ z.got = p.got
          /\ z.put = p.put /\ z.gone = p.gone \cup (DOMAIN db \ DOMAIN db')
      BY <3>3 DEF Fields
    <3> HIDE DEF z
    <3>5. Grouped(p, K)
      BY <3>1 DEF AllGrouped
    <3>6. z.gone \subseteq L
      BY <1>2, <3>4, <3>5 DEF Grouped
    <3> HIDE DEF K, L, p
    <3>7. QED
      BY <1>2, <3>2, <3>4, <3>5, <3>6, GroupedLater
  <2>2. ASSUME ~Ended(r) PROVE Grouped(y, L)
    <3>1. Onward(x, y) /\ y.got = x.got /\ PutRows(r)' = {} /\ x.todo[1].op \in Changes \cup {"commit"}
      BY <1>3, <1>7, <2>2 DEF Published
    <3>2. Joined(y, L)
      BY <3>1 DEF Joined, PutRows
    <3>3. ~Real(x.todo[1])
      BY <3>1 DEF Real, Changes
    <3> HIDE DEF L
    <3>4. QED
      BY <1>1, <1>2, <2>2, <3>1, <3>2, <3>3, GroupedOnward
  <2>3. QED
    BY <2>1, <2>2 DEF AllGrouped, Running, Ended
<1>8. QED
  BY <1>5, <1>6, <1>7 DEF Changed

\* Who is there now and never was, is in a group.
LEMMA StepBringsMembers ==
    ASSUME InOrder, IInv, AllRightful, AllGrouped, NEW r \in Requests, Running(r), Changed(r),
           NEW v \in (Users \cap DOMAIN db') \ (DOMAIN db \cup dead)
    PROVE  LinksOf(v, Groups) \cap DOMAIN db' # {}
<1> DEFINE x == req[r]
           c == x.todo[1]
<1>1. PICK new, out : Makes(r, new, out) /\ Published(r, new, out)
  BY DEF Changed, Quiet, Held
<1>2. DOMAIN db' = Sees(new \cup (PutRows(r) \ out), DelRows(r) \cup (out \cap DOMAIN db), DOMAIN db)
  BY <1>1 DEF Published
<1>3. v \in new \cup PutRows(r) /\ v \notin Known
  BY <1>2 DEF Sees, Known
<1>4. Rightful(x, DOMAIN db) /\ Grouped(x, Known)
  BY DEF AllRightful, AllGrouped
<1>5. new \subseteq Ok(x, DOMAIN db) /\ PutRows(r) \subseteq Ok(x, DOMAIN db)
  BY <1>1, <1>4, NewIsRight DEF Rightful, PutRows
<1>6. v \in x.asked
  BY <1>3, <1>4, <1>5 DEF Ok, Grouped, Known
<1>7. x.name \in Creators /\ Joined(x, Known)
  BY <1>4, <1>6 DEF Grouped
<1>8. Head(x.todo) = c
  BY HeadFacts
<1>9. c.op = "commit" \/ (c.op \in {"create", "append"} /\ ~x.open)
  BY <1>1, <1>4, <1>7, <1>8, CreatorHead DEF Published, Changes
<1>10. CASE c.op = "commit"
  <2>1. new = {} /\ out = {}
    BY <1>1, <1>8, <1>10 DEF Makes
  <2>2. LinksOf(v, Groups) \cap PutRows(r) # {}
    BY <1>3, <1>7, <1>10, <2>1 DEF Joined, PutRows
  <2>3. QED
    BY <1>2, <2>1, <2>2 DEF Sees
<1>11. CASE c.op = "create" /\ ~x.open
  BY <1>4, <1>7, <1>11, CreatorHead
<1>12. CASE c.op = "append" /\ ~x.open
  <2>1. PutRows(r) = {}
    BY <1>12 DEF IInv, OnlyOpenWrites
  <2>2. c.row \in Users /\ DOMAIN x.got \subseteq Groups
    BY <1>4, <1>7, <1>12, CreatorHead
  <2>3. new \subseteq DOMAIN x.got \cup LinksOf(c.row, DOMAIN x.got)
    BY <1>1, <1>8, <1>12 DEF Makes
  <2>4. LinksOf(c.row, DOMAIN x.got) \subseteq Links
    BY <2>2, GroupLinks
  <2>5. QED
    BY <1>3, <2>1, <2>2, <2>3, <2>4, UsersApart
<1>13. QED
  BY <1>9, <1>10, <1>11, <1>12

----------------------------------------------------------------------------
(* How the creators begin, and the others. *)

LEMMA BegunGrouped ==
    ASSUME NEW x, NEW K, DOMAIN x = Fields, Calls(x.todo), x.todo # <<>>, Grouped(x, K)
    PROVE  Grouped(Begun(x), K)
<1> DEFINE y == [x EXCEPT !.todo = Tail(@), !.open = TRUE]
           s == x.todo
<1>1. Begun(x) = IF Head(s).op = "begin" THEN y ELSE x
  BY DEF Begun
<1>2. /\ y.todo = Tail(s) /\ y.name = x.name /\ y.asked = x.asked /\ y.gone = x.gone
      /\ y.got = x.got /\ y.put = x.put
  BY DEF Fields
<1>3. /\ Head(s) = s[1] /\ Len(s) \in Nat /\ Len(s) > 0 /\ Len(Tail(s)) = Len(s) - 1
      /\ Len(Tail(s)) \in Nat /\ \A j \in 1 .. Len(Tail(s)) : Tail(s)[j] = s[j + 1]
  BY TailIs DEF Calls
<1> HIDE DEF y
<1>4. CASE s[1].op = "begin"
  <2>1. Drops(s, y.todo, 1)
    BY <1>2, <1>3 DEF Drops
  <2>2. \A i \in 2 .. 1 : ~Real(s[i])
    OBVIOUS
  <2>3. ~Real(s[1])
    BY <1>4 DEF Real
  <2>4. ASSUME x.name \in Creators PROVE Joins(y.todo) /\ Fed(y) /\ Joined(y, K)
    <3>1. Joins(s) /\ Fed(x) /\ Joined(x, K)
      BY <2>4 DEF Grouped
    <3>2. Joins(y.todo)
      BY <2>1, <3>1, JoinsOnward
    <3>3. Fed(y)
      BY <1>2, <2>1, <2>2, <2>3, <3>1, FedOnward
    <3>4. ~(s[1].op = "append")
      BY <1>4
    <3>5. Joined(y, K)
      BY <1>2, <3>1, <3>4 DEF Joined
    <3>6. QED
      BY <3>2, <3>3, <3>5
  <2>5. Grouped(y, K)
    BY <1>2, <2>4 DEF Grouped
  <2>6. QED
    BY <1>1, <1>3, <1>4, <2>5
<1>5. CASE s[1].op # "begin"
  BY <1>1, <1>3, <1>5
<1>6. QED
  BY <1>4, <1>5

LEMMA ServeGrouped ==
    ASSUME InOrder, AllGrouped, NEW r \in Requests, NEW name, NEW may, NEW asked, NEW calls,
           Serve(r, name, may, asked, calls), Calls(calls), calls # <<>>,
           name \notin Creators => asked \cap Users = {},
           name \in Creators => Joins(calls) /\ SelfFed(calls)
    PROVE  AllGrouped'
<1> DEFINE first == [Idle EXCEPT !.name = name, !.todo = calls, !.asked = asked]
           refused == [Idle EXCEPT !.answer = "error"]
           K == Known
<1>1. req' = [req EXCEPT ![r] = Begun(first)] \/ req' = [req EXCEPT ![r] = refused]
  BY DEF Serve
<1>2. /\ DOMAIN first = Fields /\ first.todo = calls /\ first.name = name /\ first.asked = asked
      /\ first.gone = {} /\ first.put = Nothing
      /\ refused.todo = <<>>
  BY DEF Idle, Fields
<1> HIDE DEF first, refused
<1>3. DOMAIN first.put = {}
  BY <1>2, NothingDomain
<1>4. ASSUME name \in Creators PROVE Fed(first)
  <2>1. SUFFICES ASSUME NEW i \in 1 .. Len(calls), calls[i].op = "append", Unfed(calls, i)
                 PROVE  FALSE
    BY <1>2 DEF Fed
  <2>2. PICK k \in 1 .. i - 1 : Real(calls[k])
    BY <1>4, <2>1 DEF SelfFed
  <2>3. QED
    BY <2>1, <2>2 DEF Unfed
<1>5. Joined(first, K)
  BY <1>3 DEF Joined
<1>6. Grouped(first, K)
  BY <1>2, <1>4, <1>5 DEF Grouped
<1> HIDE DEF K
<1>7. Grouped(Begun(first), K)
  BY <1>2, <1>6, BegunGrouped
<1>8. Known' = K
  BY DEF Serve, Known, K
<1>9. DOMAIN req = Requests
  BY DEF InOrder
<1>10. req'[r] = Begun(first) \/ req'[r].todo = <<>>
  BY <1>1, <1>2, <1>9
<1>11. \A q \in Requests \ {r} : req'[q] = req[q]
  BY <1>1, <1>9
<1>12. \A q \in Requests : Running(q) => Grouped(req[q], K)
  BY DEF AllGrouped, K
<1>13. \A q \in Requests : Running(q)' => Grouped(req'[q], K)
  BY <1>7, <1>10, <1>11, <1>12 DEF Running
<1>14. QED
  BY <1>8, <1>13 DEF AllGrouped

\* As all the others, who create no user.
LEMMA ServeUngrouped ==
    ASSUME InOrder, AllGrouped, NEW r \in Requests, NEW name, NEW may, NEW asked, NEW calls,
           Serve(r, name, may, asked, calls), name \notin Creators, asked \cap Users = {}
    PROVE  AllGrouped'
<1> DEFINE first == [Idle EXCEPT !.name = name, !.todo = calls, !.asked = asked]
           second == [first EXCEPT !.todo = Tail(@), !.open = TRUE]
           refused == [Idle EXCEPT !.answer = "error"]
           K == Known
<1>1. req' = [req EXCEPT ![r] = Begun(first)] \/ req' = [req EXCEPT ![r] = refused]
  BY DEF Serve
<1>2. Begun(first) = first \/ Begun(first) = second
  BY DEF Begun
<1>3. /\ first.name = name /\ first.asked = asked /\ first.gone = {}
      /\ second.name = name /\ second.asked = asked /\ second.gone = {}
      /\ refused.todo = <<>>
  BY DEF Idle
<1> HIDE DEF first, second, refused, K
<1>4. Grouped(Begun(first), K)
  BY <1>2, <1>3 DEF Grouped
<1>5. Known' = K
  BY DEF Serve, Known, K
<1>6. DOMAIN req = Requests
  BY DEF InOrder
<1>7. req'[r] = Begun(first) \/ req'[r].todo = <<>>
  BY <1>1, <1>3, <1>6
<1>8. \A q \in Requests \ {r} : req'[q] = req[q]
  BY <1>1, <1>6
<1>9. \A q \in Requests : Running(q) => Grouped(req[q], K)
  BY DEF AllGrouped, K
<1>10. \A q \in Requests : Running(q)' => Grouped(req'[q], K)
  BY <1>4, <1>7, <1>8, <1>9 DEF Running
<1>11. QED
  BY <1>5, <1>10 DEF AllGrouped

LEMMA JoinsOn ==
    ASSUME NEW s, NEW t, Calls(s), Calls(t), Joins(s), Joins(t)
    PROVE  Joins(s \o t)
<1> DEFINE st == s \o t
<1>1. /\ Len(s) \in Nat /\ Len(t) \in Nat /\ Len(st) = Len(s) + Len(t)
      /\ \A i \in 1 .. Len(s) : st[i] = s[i]
      /\ \A i \in 1 .. Len(t) : st[Len(s) + i] = t[i]
      /\ \A i \in 1 .. Len(st) :
            \/ i \in 1 .. Len(s) /\ st[i] = s[i]
            \/ \E j \in 1 .. Len(t) : i = Len(s) + j /\ st[i] = t[j]
  BY Concatenation
<1> HIDE DEF st
<1>2. SUFFICES ASSUME NEW i \in 1 .. Len(st)
               PROVE  Joining(st[i]) /\ (st[i].op = "create" => Followed(st, i))
  BY DEF Joins, st
<1>3. CASE i \in 1 .. Len(s) /\ st[i] = s[i]
  <2>1. Joining(s[i]) /\ (s[i].op = "create" => Followed(s, i))
    BY <1>3 DEF Joins
  <2>2. ASSUME Followed(s, i) PROVE Followed(st, i)
    <3>1. /\ i + 1 \in 1 .. Len(s) /\ s[i + 1].op = "append"
          /\ s[i].rows = {s[i + 1].row}
      BY <2>2 DEF Followed
    <3>2. st[i + 1] = s[i + 1] /\ i + 1 \in 1 .. Len(st)
      BY <1>1, <3>1
    <3>3. QED
      BY <1>3, <3>1, <3>2 DEF Followed
  <2>3. QED
    BY <1>3, <2>1, <2>2
<1>4. ASSUME NEW j \in 1 .. Len(t), i = Len(s) + j, st[i] = t[j]
      PROVE  Joining(st[i]) /\ (st[i].op = "create" => Followed(st, i))
  <2>1. Joining(t[j]) /\ (t[j].op = "create" => Followed(t, j))
    BY DEF Joins
  <2>2. ASSUME Followed(t, j) PROVE Followed(st, i)
    <3>1. /\ j + 1 \in 1 .. Len(t) /\ t[j + 1].op = "append"
          /\ t[j].rows = {t[j + 1].row}
      BY <2>2 DEF Followed
    <3>2. i + 1 = Len(s) + (j + 1) /\ i + 1 \in 1 .. Len(st)
      BY <1>1, <1>4, <3>1
    <3>3. st[i + 1] = t[j + 1]
      BY <1>1, <3>1, <3>2
    <3>4. QED
      BY <1>4, <3>1, <3>2, <3>3 DEF Followed
  <2>3. QED
    BY <1>4, <2>1, <2>2
<1>5. QED
  BY <1>1, <1>3, <1>4

LEMMA FoundFirst ==
    ASSUME NEW s, Calls(s), Real(s[1])
    PROVE  SelfFed(s)
<1>1. SUFFICES ASSUME NEW i \in 1 .. Len(s), s[i].op = "append"
               PROVE  1 \in 1 .. i - 1
  BY DEF SelfFed
<1>2. s[1].op # "append"
  BY DEF Real
<1>3. QED
  BY <1>1, <1>2

LEMMA CreateEachJoins ==
    ASSUME NEW X, X \subseteq Users, NEW list \in Lists(X)
    PROVE  Calls(CreateEach(list)) /\ Joins(CreateEach(list))
<1> DEFINE s == CreateEach(list)
           k == 2 * Len(list)
<1>1. /\ Tuple(s, k) /\ k \in Nat \ {0}
      /\ \A i \in 1 .. k :
            \/ i % 2 = 1 /\ \E v \in X \cap Range(list) :
                  /\ s[i] = Create({v}, Nothing)
                  /\ i + 1 \in 1 .. k /\ s[i + 1] = Associate(v)
            \/ i % 2 = 0 /\ \E v \in X \cap Range(list) : s[i] = Associate(v)
  BY CreateEachIs
<1> HIDE DEF s, k
<1>2. Calls(s) /\ Len(s) = k
  BY <1>1, TupleSome
<1>3. SUFFICES ASSUME NEW i \in 1 .. k
               PROVE  Joining(s[i]) /\ (s[i].op = "create" => Followed(s, i))
  BY <1>2 DEF Joins, s
<1>4. CASE \E v \in X \cap Range(list) : s[i] = Associate(v)
  <2>1. PICK v \in X : s[i] = Associate(v)
    BY <1>4
  <2>2. s[i].op = "append" /\ s[i].row \in Users
    BY <2>1 DEF Associate
  <2>3. QED
    BY <2>2 DEF Joining
<1>5. CASE \E v \in X \cap Range(list) :
              s[i] = Create({v}, Nothing) /\ i + 1 \in 1 .. k /\ s[i + 1] = Associate(v)
  <2>1. PICK v \in X :
           s[i] = Create({v}, Nothing) /\ i + 1 \in 1 .. k /\ s[i + 1] = Associate(v)
    BY <1>5
  <2>2. s[i].op = "create" /\ s[i].rows = {v} /\ s[i + 1].op = "append" /\ s[i + 1].row = v
    BY <2>1 DEF Create, Associate
  <2>3. QED
    BY <1>2, <2>1, <2>2 DEF Joining, Followed
<1>6. QED
  BY <1>1, <1>4, <1>5

LEMMA CreatorsAreGrouped ==
    ASSUME InOrder, AllGrouped, NEW r \in Requests,
           \/ CreateUserAndAttachGroup(r) \/ CreateBulkUsersAndAttachGroup(r)
           \/ ImportUsersFromXLSXToGroup(r)
    PROVE  AllGrouped'
<1>1. CASE CreateUserAndAttachGroup(r)
  <2> DEFINE name == "CreateUserAndAttachGroup"
  <2>1. PICK u \in Users \cap DOMAIN db, v \in Unused(Users), G \in Some(Groups) :
          Serve(r, name, IsStaff(u) /\ G # {}, {v} \cup LinksOf(v, G),
                <<Begin, Find(G, "some"), Create({v}, Nothing), Associate(v), Commit,
                  Reload(v)>>)
    BY <1>1, Zenon DEF CreateUserAndAttachGroup
  <2> DEFINE s ==
               <<Begin, Find(G, "some"), Create({v}, Nothing), Associate(v), Commit, Reload(v)>>
             asked == {v} \cup LinksOf(v, G)
  <2>2. Tuple(s, 6)
    BY DEF Tuple
  <2>3. G \subseteq Groups /\ v \in Users
    BY DEF Some, Unused
  <2>4. /\ s[1].op = "begin" /\ s[2].op = "find" /\ s[2].rows = G /\ s[2].need = "some"
        /\ s[3].op = "create" /\ s[3].rows = {v} /\ s[4].op = "append" /\ s[4].row = v
        /\ s[5].op = "commit" /\ s[6].op = "check" /\ Real(s[2])
    BY DEF Begin, Find, Create, Associate, Commit, Reload, Check, Real
  <2> HIDE DEF s, asked
  <2>5. Calls(s) /\ Len(s) = 6 /\ s # <<>>
    <3>1. Calls(s) /\ Len(s) = 6
      BY <2>2, TupleIs
    <3>2. s # <<>>
      BY <2>2, TupleSome
    <3>3. QED
      BY <3>1, <3>2
  <2>6. Joins(s)
    <3>1. \A i \in 1 .. 6 : i = 1 \/ i = 2 \/ i = 3 \/ i = 4 \/ i = 5 \/ i = 6
      OBVIOUS
    <3>2. \A i \in 1 .. 6 : Joining(s[i])
      BY <2>3, <2>4, <3>1 DEF Joining
    <3>3. \A i \in 1 .. 6 : s[i].op = "create" => i = 3
      BY <2>4, <3>1
    <3>4. Followed(s, 3)
      BY <2>4, <2>5 DEF Followed
    <3>5. QED
      BY <2>5, <3>2, <3>3, <3>4 DEF Joins
  <2>7. SelfFed(s)
    <3>1. \A i \in 1 .. 6 : s[i].op = "append" => i = 4
      <4>1. \A i \in 1 .. 6 : i = 1 \/ i = 2 \/ i = 3 \/ i = 4 \/ i = 5 \/ i = 6
        OBVIOUS
      <4>2. QED
        BY <2>4, <4>1
    <3>2. 2 \in 1 .. 4 - 1
      OBVIOUS
    <3>3. QED
      BY <2>4, <2>5, <3>1, <3>2 DEF SelfFed
  <2>8. name \in Creators
    BY DEF Creators
  <2>9. Serve(r, name, IsStaff(u) /\ G # {}, asked, s)
    BY <2>1, Zenon DEF s, asked
  <2>10. QED
    BY <2>5, <2>6, <2>7, <2>8, <2>9, ServeGrouped
<1>2. ASSUME NEW name \in Creators, NEW may, NEW list, NEW X, X \subseteq Users, list \in Lists(X),
             NEW g, NEW A, Calls(A), Joins(A), Real(A[1]), 1 \in 1 .. Len(A),
             Serve(r, name, may, AskedFor(list, g), A \o CreateEach(list) \o <<Commit>>)
      PROVE  AllGrouped'
  <2> DEFINE M == CreateEach(list)
             C == <<Commit>>
             asked == AskedFor(list, g)
  <2>1. Tuple(C, 1) /\ C[1].op = "commit"
    BY DEF Tuple, Commit
  <2>2. Calls(M) /\ Joins(M)
    BY <1>2, CreateEachJoins
  <2>3. Serve(r, name, may, asked, (A \o M) \o C)
    BY <1>2
  <2> HIDE DEF M, C, asked
  <2>4. Calls(C) /\ Len(C) = 1
    BY <2>1, TupleIs
  <2>5. C # <<>>
    BY <2>1, TupleSome
  <2>6. Joins(C)
    BY <2>1, <2>4 DEF Joins, Joining
  <2> DEFINE AM == A \o M
             s == AM \o C
  <2>7. Joins(AM)
    BY <1>2, <2>2, JoinsOn
  <2>8. /\ Calls(AM) /\ Len(A) \in Nat /\ Len(M) \in Nat /\ Len(AM) = Len(A) + Len(M)
        /\ \A i \in 1 .. Len(A) : AM[i] = A[i]
    BY <1>2, <2>2, Concatenation
  <2>9. Serve(r, name, may, asked, s)
    BY <2>3
  <2> HIDE DEF AM
  <2>10. AM[1] = A[1] /\ 1 \in 1 .. Len(AM)
    BY <1>2, <2>8
  <2>11. Joins(s)
    BY <2>4, <2>6, <2>7, <2>8, JoinsOn
  <2>12. Calls(s) /\ s # <<>> /\ \A i \in 1 .. Len(AM) : s[i] = AM[i]
    BY <2>4, <2>5, <2>8, Concatenation
  <2> HIDE DEF s
  <2>13. SelfFed(s)
    BY <1>2, <2>10, <2>12, FoundFirst
  <2>14. QED
    BY <2>9, <2>11, <2>12, <2>13, ServeGrouped
<1>3. CASE CreateBulkUsersAndAttachGroup(r)
  <2> DEFINE name == "CreateBulkUsersAndAttachGroup"
  <2>1. PICK u \in Users \cap DOMAIN db, list \in Lists(Users \ dead), g \in Groups :
          Serve(r, name, Has(u, "OWNER"), AskedFor(list, g),
                <<Find({g}, "all"), Begin>> \o CreateEach(list) \o <<Commit>>)
    BY <1>3, Zenon DEF CreateBulkUsersAndAttachGroup
  <2> DEFINE A == <<Find({g}, "all"), Begin>>
  <2>2. Tuple(A, 2)
    BY DEF Tuple
  <2>3. /\ A[1].op = "find" /\ A[1].rows = {g} /\ A[1].need = "all" /\ Real(A[1])
        /\ A[2].op = "begin"
    BY DEF Begin, Find, Real
  <2>4. (Users \ dead) \subseteq Users /\ name \in Creators
    BY DEF Creators
  <2>5. Serve(r, name, Has(u, "OWNER"), AskedFor(list, g), A \o CreateEach(list) \o <<Commit>>)
    BY <2>1
  <2> HIDE DEF A, name
  <2>6. Calls(A) /\ Len(A) = 2
    BY <2>2, TupleIs
  <2>7. Joins(A)
    <3>1. \A i \in 1 .. 2 : i = 1 \/ i = 2
      OBVIOUS
    <3>2. \A i \in 1 .. 2 : Joining(A[i]) /\ A[i].op # "create"
      BY <2>3, <3>1 DEF Joining
    <3>3. QED
      BY <2>6, <3>2 DEF Joins
  <2>8. QED
    BY SMTT(30), <1>2, <2>3, <2>4, <2>5, <2>6, <2>7
<1>4. CASE ImportUsersFromXLSXToGroup(r)
  <2> DEFINE name == "ImportUsersFromXLSXToGroup"
  <2>1. PICK u \in Users \cap DOMAIN db, list \in Lists(Users \ dead), g \in Groups : \E X :
          Serve(r, name, Has(u, "OWNER"), AskedFor(list, g),
                <<Find({g}, "all"), Begin, Check(X, FALSE, "error")>>
                  \o CreateEach(list) \o <<Commit>>)
    BY <1>4, Zenon DEF ImportUsersFromXLSXToGroup
  <2>2. PICK X :
          Serve(r, name, Has(u, "OWNER"), AskedFor(list, g),
                <<Find({g}, "all"), Begin, Check(X, FALSE, "error")>>
                  \o CreateEach(list) \o <<Commit>>)
    BY <2>1
  <2> DEFINE D == Check(X, FALSE, "error")
             A == <<Find({g}, "all"), Begin, D>>
  <2>3. D.op = "check"
    BY DEF Check
  <2> HIDE DEF D
  <2>4. Tuple(A, 3)
    BY DEF Tuple
  <2>5. /\ A[1].op = "find" /\ A[1].rows = {g} /\ A[1].need = "all" /\ Real(A[1])
        /\ A[2].op = "begin" /\ A[3].op = "check"
    BY <2>3 DEF Begin, Find, Real
  <2>6. Users \ dead \subseteq Users /\ name \in Creators
    BY DEF Creators
  <2>7. Serve(r, name, Has(u, "OWNER"), AskedFor(list, g), A \o CreateEach(list) \o <<Commit>>)
    BY <2>2, Zenon DEF D
  <2> HIDE DEF A, name
  <2>8. Calls(A) /\ Len(A) = 3
    BY <2>4, TupleIs
  <2>9. Joins(A)
    <3>1. \A i \in 1 .. 3 : i = 1 \/ i = 2 \/ i = 3
      OBVIOUS
    <3>2. \A i \in 1 .. 3 : Joining(A[i]) /\ A[i].op # "create"
      BY <2>5, <3>1 DEF Joining
    <3>3. QED
      BY <2>8, <3>2 DEF Joins
  <2>10. QED
    BY <1>2, <2>5, <2>6, <2>7, <2>8, <2>9
<1>5. QED
  BY <1>1, <1>3, <1>4

LEMMA LinksAreNoUsers ==
    /\ \A c \in Competitions, G \in Some(Groups) : LinksOf(c, G) \cap Users = {}
    /\ \A c \in Competitions, g \in Groups : {c, g} \notin Users
    /\ \A v \in Users, g \in Groups : {v, g} \notin Users
    /\ \A v \in Users, c \in Competitions : {v, c} \notin Users
<1>1. \A g, c : {c, g} = {g, c}
  OBVIOUS
<1>2. \A c \in Competitions, g \in Groups : {c, g} \in Pairs(Groups, Competitions)
  BY <1>1 DEF Pairs
<1>3. \A v \in Users, g \in Groups : {v, g} \in Pairs(Users, Groups)
  BY DEF Pairs
<1>4. \A v \in Users, c \in Competitions : {v, c} \in Pairs(Users, Competitions)
  BY DEF Pairs
<1>5. \A c \in Competitions, g \in Groups : {c, g} \notin Users
  BY <1>2, UsersApart DEF Links
<1>6. \A v \in Users, g \in Groups : {v, g} \notin Users
  BY <1>3, UsersApart DEF Links
<1>7. \A v \in Users, c \in Competitions : {v, c} \notin Users
  BY <1>4, UsersApart DEF Links
<1>8. \A c \in Competitions, G \in Some(Groups) : LinksOf(c, G) \cap Users = {}
  BY <1>5 DEF LinksOf, Some
<1>9. QED
  BY <1>5, <1>6, <1>7, <1>8

LEMMA CompetitionHandlersAreGrouped ==
    ASSUME InOrder, AllGrouped, NEW r \in Requests, CompetitionHandlers(r)
    PROVE  AllGrouped'
<1>1. CASE CreateCompetition(r)
  <2>1. \E u \in Users \cap DOMAIN db, k \in Catalogs, c \in New(Competitions), show \in BOOLEAN,
             G \in Some(Groups) : \E may, calls :
          Serve(r, "CreateCompetition", may, {c} \cup LinksOf(c, G), calls)
    BY <1>1, Zenon DEF CreateCompetition
  <2>2. "CreateCompetition" \notin Creators
    BY DEF Creators
  <2>3. \A c \in New(Competitions), G \in Some(Groups) : ({c} \cup LinksOf(c, G)) \cap Users = {}
    BY LinksAreNoUsers, UsersApart DEF New, Unused
  <2>4. QED
    BY <2>1, <2>2, <2>3, ServeUngrouped
<1>2. CASE UpdateCompetition(r)
  <2>1. \E u \in Users \cap DOMAIN db, c \in Competitions, G \in Some(Groups),
             set \in {Nothing} \cup [{"show"} -> BOOLEAN] \cup [{"finished"} -> BOOLEAN] : \E may, calls :
          Serve(r, "UpdateCompetition", may, LinksOf(c, G), calls)
    BY <1>2, Zenon DEF UpdateCompetition
  <2>2. "UpdateCompetition" \notin Creators
    BY DEF Creators
  <2>3. QED
    BY <2>1, <2>2, LinksAreNoUsers, UsersApart, ServeUngrouped
<1>3. CASE DeleteCompetition(r)
  <2>1. \E may, calls : Serve(r, "DeleteCompetition", may, {}, calls)
    BY <1>3, Zenon DEF DeleteCompetition
  <2>2. "DeleteCompetition" \notin Creators /\ {} \cap Users = {}
    BY DEF Creators
  <2>3. QED
    BY <2>1, <2>2, ServeUngrouped
<1>4. CASE FinishCompetition(r)
  <2>1. \E may, calls : Serve(r, "FinishCompetition", may, {}, calls)
    BY <1>4, Zenon DEF FinishCompetition
  <2>2. "FinishCompetition" \notin Creators /\ {} \cap Users = {}
    BY DEF Creators
  <2>3. QED
    BY <2>1, <2>2, ServeUngrouped
<1>5. CASE ToggleCompetitionVisibility(r)
  <2>1. \E may, calls : Serve(r, "ToggleCompetitionVisibility", may, {}, calls)
    BY <1>5, Zenon DEF ToggleCompetitionVisibility
  <2>2. "ToggleCompetitionVisibility" \notin Creators /\ {} \cap Users = {}
    BY DEF Creators
  <2>3. QED
    BY <2>1, <2>2, ServeUngrouped
<1>6. CASE AddGroupToCompetition(r)
  <2>1. \E u \in Users \cap DOMAIN db, c \in Competitions, g \in Groups : \E may, calls :
          Serve(r, "AddGroupToCompetition", may, {{c, g}}, calls)
    BY <1>6, Zenon DEF AddGroupToCompetition
  <2>2. "AddGroupToCompetition" \notin Creators
    BY DEF Creators
  <2>3. QED
    BY <2>1, <2>2, LinksAreNoUsers, UsersApart, ServeUngrouped
<1>7. CASE RemoveGroupFromCompetition(r)
  <2>1. \E may, calls : Serve(r, "RemoveGroupFromCompetition", may, {}, calls)
    BY <1>7, Zenon DEF RemoveGroupFromCompetition
  <2>2. "RemoveGroupFromCompetition" \notin Creators /\ {} \cap Users = {}
    BY DEF Creators
  <2>3. QED
    BY <2>1, <2>2, ServeUngrouped
<1>8. CASE CreateGroup(r)
  <2>1. \E u \in Users \cap DOMAIN db, g \in New(Groups) : \E may, calls :
          Serve(r, "CreateGroup", may, {g}, calls)
    BY <1>8, Zenon DEF CreateGroup
  <2>2. "CreateGroup" \notin Creators
    BY DEF Creators
  <2>3. \A g \in New(Groups) : {g} \cap Users = {}
    BY LinksAreNoUsers, UsersApart DEF New, Unused
  <2>4. QED
    BY <2>1, <2>2, <2>3, ServeUngrouped
<1>9. CASE UpdateGroup(r)
  <2>1. \E may, calls : Serve(r, "UpdateGroup", may, {}, calls)
    BY <1>9, Zenon DEF UpdateGroup
  <2>2. "UpdateGroup" \notin Creators /\ {} \cap Users = {}
    BY DEF Creators
  <2>3. QED
    BY <2>1, <2>2, ServeUngrouped
<1>10. CASE DeleteGroup(r)
  <2>1. \E may, calls : Serve(r, "DeleteGroup", may, {}, calls)
    BY <1>10, Zenon DEF DeleteGroup
  <2>2. "DeleteGroup" \notin Creators /\ {} \cap Users = {}
    BY DEF Creators
  <2>3. QED
    BY <2>1, <2>2, ServeUngrouped
<1>11. CASE AddUserToGroup(r)
  <2>1. \E u \in Users \cap DOMAIN db, v \in Users, g \in Groups : \E may, calls :
          Serve(r, "AddUserToGroup", may, {{v, g}}, calls)
    BY <1>11, Zenon DEF AddUserToGroup
  <2>2. "AddUserToGroup" \notin Creators
    BY DEF Creators
  <2>3. QED
    BY <2>1, <2>2, LinksAreNoUsers, UsersApart, ServeUngrouped
<1>12. CASE RemoveUserFromGroup(r)
  <2>1. \E may, calls : Serve(r, "RemoveUserFromGroup", may, {}, calls)
    BY <1>12, Zenon DEF RemoveUserFromGroup
  <2>2. "RemoveUserFromGroup" \notin Creators /\ {} \cap Users = {}
    BY DEF Creators
  <2>3. QED
    BY <2>1, <2>2, ServeUngrouped
<1>13. CASE DeleteAllUsersFromGroup(r)
  <2>1. \E may, calls : Serve(r, "DeleteAllUsersFromGroup", may, {}, calls)
    BY <1>13, Zenon DEF DeleteAllUsersFromGroup
  <2>2. "DeleteAllUsersFromGroup" \notin Creators /\ {} \cap Users = {}
    BY DEF Creators
  <2>3. QED
    BY <2>1, <2>2, ServeUngrouped
<1>14. CASE BulkDeleteUsers(r)
  <2>1. \E may, calls : Serve(r, "BulkDeleteUsers", may, {}, calls)
    BY <1>14, Zenon DEF BulkDeleteUsers
  <2>2. "BulkDeleteUsers" \notin Creators /\ {} \cap Users = {}
    BY DEF Creators
  <2>3. QED
    BY <2>1, <2>2, ServeUngrouped
<1>15. CASE TriggerPuzzleFirstTry(r)
  <2>1. \E u \in Users \cap DOMAIN db, c \in Competitions : \E may, calls :
          Serve(r, "TriggerPuzzleFirstTry", may, {{u, c}}, calls)
    BY <1>15, Zenon DEF TriggerPuzzleFirstTry
  <2>2. "TriggerPuzzleFirstTry" \notin Creators
    BY DEF Creators
  <2>3. QED
    BY <2>1, <2>2, LinksAreNoUsers, UsersApart, ServeUngrouped
<1>16. QED
  BY <1>1, <1>2, <1>3, <1>4, <1>5, <1>6, <1>7, <1>8, <1>9, <1>10, <1>11, <1>12, <1>13, <1>14, <1>15, CreatorsAreGrouped
     DEF CompetitionHandlers

GInv == RInv /\ AllGrouped

\* Whoever is created is in a group from the commit on that creates him, whichever call of whichever
\* request fails and whatever the others do to users and groups meanwhile: a list of users of which
\* one cannot be created leaves no users without group.
THEOREM UsersJoinTheirGroup == CompetitionSpec => UsersComeWithGroup
<1>1. Init => GInv
  <2>1. SUFFICES ASSUME Init PROVE GInv
    OBVIOUS
  <2>2. \A r \in Requests : ~Running(r)
    BY <2>1 DEF Init, Running, Idle
  <2>3. QED
    BY <2>1, <2>2, InitInOrder, InitHolds DEF GInv, RInv, AllRightful, AllGrouped
<1>2. ASSUME GInv, [CompetitionNext]_vars PROVE GInv'
  <2>1. RInv /\ AllGrouped /\ InOrder /\ IInv /\ AllRightful
    BY <1>2 DEF GInv, RInv
  <2>2. [Next]_vars
    BY <1>2 DEF CompetitionNext, Next, Handlers
  <2>3. RInv' /\ InOrder'
    BY <2>1, <2>2, NextIsRightful DEF RInv
  <2>4. ASSUME NEW r \in Requests, CompetitionHandlers(r) PROVE AllGrouped'
    BY <2>1, <2>4, CompetitionHandlersAreGrouped
  <2>5. ASSUME NEW r \in Requests, Steps(r) \/ Fail(r) PROVE AllGrouped'
    BY <2>1, <2>3, <2>5, StepGoesOn, FailGoesOn, StepIsGrouped
  <2>6. ASSUME UNCHANGED vars PROVE AllGrouped'
    <3>1. req' = req /\ Known' = Known
      BY <2>6 DEF vars, Known
    <3>2. QED
      BY <2>1, <3>1 DEF AllGrouped, Running
  <2>7. AllGrouped'
    <3>1. CASE CompetitionNext
      BY <2>4, <2>5, <3>1 DEF CompetitionNext
    <3>2. QED
      BY <1>2, <2>6, <3>1
  <2>8. QED
    BY <2>3, <2>7 DEF GInv
<1>3. GInv /\ [CompetitionNext]_vars =>
        [\A v \in (Users \cap DOMAIN db') \ (DOMAIN db \cup dead) :
            LinksOf(v, Groups) \cap DOMAIN db' # {}]_vars
  <2>1. SUFFICES ASSUME GInv, CompetitionNext,
                        NEW v \in (Users \cap DOMAIN db') \ (DOMAIN db \cup dead)
                 PROVE  LinksOf(v, Groups) \cap DOMAIN db' # {}
    OBVIOUS
  <2>2. InOrder /\ IInv /\ AllRightful /\ AllGrouped
    BY <2>1 DEF GInv, RInv
  <2>3. PICK r \in Requests : CompetitionHandlers(r) \/ Steps(r) \/ Fail(r)
    BY <2>1 DEF CompetitionNext
  <2>4. ~CompetitionHandlers(r)
    BY <2>1, HandlersChangeNothing DEF Handlers
  <2>5. Running(r) /\ Changed(r)
    BY <2>2, <2>3, <2>4, StepGoesOn, FailGoesOn
  <2>6. QED
    BY <2>1, <2>2, <2>5, StepBringsMembers
<1>4. QED
  BY <1>1, <1>2, <1>3, PTL DEF CompetitionSpec, UsersComeWithGroup

----------------------------------------------------------------------------
(* Competitions are not closed by an update. *)

Openings == Pairs(Groups, Competitions)

\* Who may close a competition, and who deletes what he has found, which are users.
Closers == {"RemoveGroupFromCompetition", "DeleteGroup", "DeleteCompetition"}
Droppers == {"DeleteAllUsersFromGroup", "BulkDeleteUsers"}

\* A call of all the others.
Sparing(c, name) ==
    /\ c.op # "skip"
    /\ c.op = "delete" => c.rows \cap Openings = {}
    /\ c.op \in {"detach", "deletefound"} => name \in Droppers
    /\ c.op = "detach" => c.rows \subseteq Roles \cup Groups
    /\ c.op = "trim" => name = Untied
    /\ Real(c) /\ name \in Droppers => c.rows \subseteq Users
    /\ Real(c) /\ name = Untied => c.rows \subseteq Groups

\* Call i of s deletes groups of a competition right after others were added to it, outside
\* the transaction.
Swapping(s, i, open) ==
    /\ ~open /\ \A j \in 1 .. i - 1 : s[j].op # "begin"
    /\ s[i].row \in Competitions
    /\ i > 1 => s[i - 1].op = "append" /\ s[i - 1].row = s[i].row

Opened(x, D) ==
    /\ \A i \in 1 .. Len(x.todo) :
          Sparing(x.todo[i], x.name) /\ (x.todo[i].op = "trim" => Swapping(x.todo, i, x.open))
    /\ x.del \cap Openings = {}
    /\ x.got = [g \in DOMAIN x.got |-> x.got[g]]
    /\ x.name \in Droppers => DOMAIN x.got \subseteq Users
    /\ x.name = Untied => DOMAIN x.got \subseteq Groups
    /\ x.todo[1].op = "trim" => LinksOf(x.todo[1].row, DOMAIN x.got) \subseteq D \cup x.gone

AllOpened == \A r \in Requests : Running(r) /\ req[r].name \notin Closers => Opened(req[r], DOMAIN db)

LEMMA OpenedLater ==
    ASSUME NEW x, NEW z, NEW D, NEW E, Opened(x, D), D \cup x.gone \subseteq E \cup z.gone,
           z.todo = x.todo, z.name = x.name, z.got = x.got, z.del = x.del, z.open = x.open
    PROVE  Opened(z, E)
  BY DEF Opened

LEMMA GroupsApart ==
    Groups \cap Competitions = {} /\ Users \cap Openings = {} /\ Openings \subseteq Links
<1>1. \A i, j \in 1 .. 6 :
         i # j => <<Users, Roles, Scopes, Groups, Catalogs, Competitions>>[i]
                    \cap <<Users, Roles, Scopes, Groups, Catalogs, Competitions>>[j] = {}
  BY KindsAssumption
<1>2. Groups \cap Competitions = {}
  BY <1>1
<1>3. Openings \subseteq Links
  BY DEF Openings, Links
<1>4. QED
  BY <1>2, <1>3, UsersApart

\* A link is to one competition and to one group.
LEMMA OneOpening ==
    ASSUME NEW c \in Competitions, NEW g, NEW d \in Competitions, NEW h \in Groups, {c, g} = {d, h}
    PROVE  c = d /\ g = h
  BY GroupsApart

LEMMA OpeningsOf ==
    ASSUME NEW c \in Competitions
    PROVE  LinksOf(c, Groups) \subseteq Openings
<1>1. \A g \in Groups : {c, g} = {g, c}
  OBVIOUS
<1>2. QED
  BY <1>1 DEF LinksOf, Openings, Pairs

\* What the next call deletes.
LEMMA OutSpares ==
    ASSUME InOrder, NEW r \in Requests, Running(r), NEW D, Opened(req[r], D),
           NEW new, NEW out, Makes(r, new, out)
    PROVE  \/ out \cap Openings = {}
           \/ /\ req[r].todo[1].op = "trim" /\ req[r].name = Untied /\ ~req[r].open
              /\ req[r].todo[1].row \in Competitions
<1> DEFINE x == req[r]
           c == x.todo[1]
           got == DOMAIN x.got
<1>1. Head(x.todo) = c /\ 1 \in 1 .. Len(x.todo)
  BY HeadFacts, TailIs
<1>2. Sparing(c, x.name) /\ (c.op = "trim" => Swapping(x.todo, 1, x.open))
  BY <1>1 DEF Opened
<1>3. CASE c.op = "trim"
  BY <1>2, <1>3 DEF Sparing, Swapping
<1>4. CASE c.op = "delete"
  BY <1>1, <1>2, <1>4 DEF Sparing, Makes
<1>5. CASE c.op = "detach"
  <2>1. got \subseteq Users /\ c.rows \subseteq Roles \cup Groups
    BY <1>2, <1>5 DEF Sparing, Opened
  <2>2. \A u \in Users : \A y : {u, y} \notin Openings
    BY UsersApart DEF Openings, Pairs
  <2>3. \A u \in got : LinksOf(u, c.rows) \cap Openings = {}
    BY <2>1, <2>2 DEF LinksOf
  <2>4. out \subseteq UNION {LinksOf(u, c.rows) : u \in got}
    BY <1>1, <1>5 DEF Makes
  <2>5. QED
    BY <2>3, <2>4
<1>6. CASE c.op = "deletefound"
  <2>1. got \subseteq Users
    BY <1>2, <1>6 DEF Sparing, Opened
  <2>2. out \subseteq got
    BY <1>1, <1>6 DEF Makes
  <2>3. QED
    BY <2>1, <2>2, GroupsApart
<1>7. CASE c.op \notin {"trim", "delete", "detach", "deletefound"}
  <2>1. out = {}
    BY <1>1, <1>7 DEF Makes
  <2>2. QED
    BY <2>1
<1>8. QED
  BY <1>3, <1>4, <1>5, <1>6, <1>7

LEMMA OpenedOnward ==
    ASSUME InOrder, InOrder', NEW r \in Requests, Running(r), NEW D, Opened(req[r], D),
           NEW E, Onward(req[r], req'[r]), ~Ended(r),
           IF Real(req[r].todo[1]) THEN Found(r, req[r].todo[1], req'[r].got)
                                   ELSE req'[r].got = req[r].got,
           req'[r].del \cap Openings = {},
           req[r].todo[1].op = "append" =>
              req[r].open \/ LinksOf(req[r].todo[1].row, DOMAIN req[r].got) \subseteq E
    PROVE  Opened(req'[r], E)
<1> DEFINE x == req[r]
           y == req'[r]
           s == x.todo
           t == y.todo
<1>1. 1 \in 1 .. Len(s) /\ Len(s) \in Nat
  BY HeadFacts, TailIs
<1>2. 1 \in 1 .. Len(t) /\ Len(t) \in Nat
  <2>1. t # <<>> /\ Calls(t)
    BY DEF InOrder, Going, Ended
  <2>2. QED
    BY <2>1, TailIs
<1>3. y.name = x.name /\ y.gone = x.gone
  BY DEF Onward
<1>4. PICK d \in 1 .. 3 :
         /\ Len(t) = Len(s) - d
         /\ \A j \in 1 .. Len(t) : t[j] = s[j + d]
         /\ \A i \in 2 .. d : s[i].op = "begin" \/ (i = 2 /\ s[1].op = "skip")
         /\ y.open => x.open \/ \E i \in 2 .. d : s[i].op = "begin"
  BY DEF Onward
<1>5. \A i \in 1 .. Len(s) :
         Sparing(s[i], x.name) /\ (s[i].op = "trim" => Swapping(s, i, x.open))
  BY DEF Opened
<1>6. s[1].op # "skip"
  BY <1>1, <1>5 DEF Sparing
<1>7. \A i \in 2 .. d : s[i].op = "begin"
  BY <1>4, <1>6
<1>8. \A j \in 1 .. Len(t) : j + d \in 1 .. Len(s) /\ Sparing(t[j], y.name)
  <2>1. \A j \in 1 .. Len(t) : j + d \in 1 .. Len(s)
    BY <1>1, <1>2, <1>4
  <2>2. QED
    BY <1>3, <1>4, <1>5, <2>1
<1>9. ASSUME NEW j \in 1 .. Len(t), t[j].op = "trim"
      PROVE  /\ Swapping(t, j, y.open)
             /\ j = 1 => d = 1 /\ s[1].op = "append" /\ s[1].row = t[1].row /\ ~x.open
  <2>1. Swapping(s, j + d, x.open) /\ t[j] = s[j + d] /\ j + d \in 1 .. Len(s)
    BY <1>4, <1>5, <1>8, <1>9
  <2>2. \A i \in 2 .. d : i \in 1 .. (j + d) - 1
    BY <1>1, <1>2, <1>4
  <2>3. ~(\E i \in 2 .. d : s[i].op = "begin") /\ ~x.open
    BY <2>1, <2>2 DEF Swapping
  <2>4. ~y.open
    BY <1>4, <2>3
  <2>5. d = 1
    <3>1. ~(2 \in 2 .. d)
      BY <1>7, <2>3
    <3>2. QED
      BY <1>4, <3>1
  <2>6. ASSUME NEW i \in 1 .. j - 1 PROVE t[i].op # "begin"
    <3>1. i \in 1 .. Len(t) /\ i + d \in 1 .. (j + d) - 1
      BY <1>2, <2>5
    <3>2. s[i + d].op # "begin"
      BY <2>1, <3>1 DEF Swapping
    <3>3. QED
      BY <1>4, <3>1, <3>2
  <2>7. t[j].row \in Competitions
    BY <2>1 DEF Swapping
  <2>8. s[j].op = "append" /\ s[j].row = t[j].row
    <3>1. j + d > 1 /\ (j + d) - 1 = j
      BY <1>2, <2>5
    <3>2. QED
      BY <2>1, <3>1 DEF Swapping
  <2>9. ASSUME j > 1 PROVE t[j - 1].op = "append" /\ t[j - 1].row = t[j].row
    <3>1. j - 1 \in 1 .. Len(t) /\ (j - 1) + d = j
      BY <1>2, <2>5, <2>9
    <3>2. t[j - 1] = s[j]
      BY <1>4, <3>1
    <3>3. QED
      BY <2>8, <3>2
  <2>10. Swapping(t, j, y.open)
    BY <2>4, <2>6, <2>7, <2>9 DEF Swapping
  <2>11. QED
    BY <2>3, <2>5, <2>8, <2>10
<1>10. /\ y.got = [g \in DOMAIN y.got |-> y.got[g]]
       /\ y.name \in Droppers => DOMAIN y.got \subseteq Users
       /\ y.name = Untied => DOMAIN y.got \subseteq Groups
  <2>1. CASE Real(s[1])
    <3>1. /\ y.got = [g \in DOMAIN y.got |-> y.got[g]]
          /\ DOMAIN y.got \subseteq s[1].rows
      BY <2>1 DEF Found
    <3>2. /\ x.name \in Droppers => s[1].rows \subseteq Users
          /\ x.name = Untied => s[1].rows \subseteq Groups
      BY <1>1, <1>5, <2>1 DEF Sparing
    <3>3. QED
      BY <1>3, <3>1, <3>2
  <2>2. CASE ~Real(s[1])
    BY <1>3, <2>2 DEF Opened
  <2>3. QED
    BY <2>1, <2>2
<1>11. ASSUME t[1].op = "trim" PROVE LinksOf(t[1].row, DOMAIN y.got) \subseteq E \cup y.gone
  <2>1. s[1].op = "append" /\ s[1].row = t[1].row /\ ~x.open
    BY <1>2, <1>9, <1>11
  <2>2. y.got = x.got
    BY <2>1 DEF Real
  <2>3. QED
    BY <2>1, <2>2
<1>12. QED
  BY <1>8, <1>9, <1>10, <1>11 DEF Opened

LEMMA StepIsOpened ==
    ASSUME InOrder, InOrder', IInv, AllOpened, NEW r \in Requests, Running(r), Changed(r)
    PROVE  AllOpened'
<1> DEFINE x == req[r]
           y == req'[r]
           D == DOMAIN db
           E == DOMAIN db'
<1>1. Head(x.todo) = x.todo[1]
  BY HeadFacts
<1>2. ASSUME NEW q \in Requests \ {r}, req'[q] = req[q], E = D, Running(q)', req'[q].name \notin Closers
      PROVE  Opened(req'[q], E)
  BY <1>2 DEF AllOpened, Running
<1>3. ASSUME ~Ended(r), Onward(x, y), y.name \notin Closers PROVE Opened(x, D)
  BY <1>3 DEF AllOpened, Onward
<1>4. CASE Quiet(r)
  <2>1. E = D /\ \A q \in Requests \ {r} : req'[q] = req[q]
    BY <1>4 DEF Quiet
  <2>2. ASSUME ~Ended(r), y.name \notin Closers PROVE Opened(y, E)
    <3>1. /\ Onward(x, y) /\ DelRows(r)' = DelRows(r)
          /\ IF Real(x.todo[1]) THEN Found(r, x.todo[1], y.got) ELSE y.got = x.got
          /\ x.todo[1].op \notin Changes
      BY <1>1, <1>4, <2>2 DEF Quiet
    <3>2. Opened(x, D)
      BY <1>3, <2>2, <3>1
    <3>3. y.del \cap Openings = {} /\ x.todo[1].op # "append"
      BY <3>1, <3>2 DEF Opened, DelRows, Changes
    <3> HIDE DEF D, E
    <3>4. QED
      BY <2>2, <3>1, <3>2, <3>3, OpenedOnward
  <2>3. QED
    BY <1>2, <2>1, <2>2 DEF AllOpened, Running, Ended
<1>5. ASSUME NEW new, NEW out, Makes(r, new, out), Held(r, new, out)
      PROVE  AllOpened'
  <2>1. E = D /\ \A q \in Requests \ {r} : req'[q] = req[q]
    BY <1>5 DEF Held
  <2>2. ASSUME ~Ended(r), y.name \notin Closers PROVE Opened(y, E)
    <3>1. /\ Onward(x, y) /\ y.got = x.got /\ x.todo[1].op \in Changes /\ x.open
          /\ DelRows(r)' = DelRows(r) \cup (out \cap DOMAIN db)
      BY <1>1, <1>5, <2>2 DEF Held
    <3>2. Opened(x, D)
      BY <1>3, <2>2, <3>1
    <3>3. ~Real(x.todo[1])
      BY <3>1 DEF Real, Changes
    <3>4. out \cap Openings = {}
      BY <1>5, <3>1, <3>2, OutSpares
    <3>5. y.del \cap Openings = {}
      BY <3>1, <3>2, <3>4 DEF Opened, DelRows
    <3> HIDE DEF D, E
    <3>6. QED
      BY <2>2, <3>1, <3>2, <3>3, <3>5, OpenedOnward
  <2>3. QED
    BY <1>2, <2>1, <2>2 DEF AllOpened, Running, Ended
<1>6. ASSUME NEW new, NEW out, Makes(r, new, out), Published(r, new, out)
      PROVE  AllOpened'
  <2>1. ASSUME NEW q \in Requests \ {r}, Running(q)', req'[q].name \notin Closers
        PROVE  Opened(req'[q], E)
    <3> DEFINE p == req[q]
               z == [p EXCEPT !.gone = @ \cup (DOMAIN db \ DOMAIN db')]
    <3>0. req'[q] = IF Running(q) THEN z ELSE p
      BY <1>6 DEF Published
    <3>1. Running(q)
      BY <2>1, <3>0 DEF Running
    <3>2. req'[q] = z
      BY <3>0, <3>1
    <3>3. DOMAIN p = Fields
      BY DEF InOrder, Going
    <3>4. /\ z.todo = p.todo /\ z.name = p.name /\ z.got = p.got /\ z.del = p.del
          /\ z.open = p.open /\ z.gone = p.gone \cup (DOMAIN db \ DOMAIN db')
      BY <3>3 DEF Fields
    <3> HIDE DEF z
    <3>5. Opened(p, D)
      BY <2>1, <3>1, <3>2, <3>4 DEF AllOpened
    <3>6. D \cup p.gone \subseteq E \cup z.gone
      BY <3>4
    <3> HIDE DEF D, E, p
    <3>7. QED
      BY <3>2, <3>4, <3>5, <3>6, OpenedLater
  <2>2. ASSUME ~Ended(r), y.name \notin Closers PROVE Opened(y, E)
    <3>1. /\ Onward(x, y) /\ y.got = x.got /\ DelRows(r)' = {}
          /\ x.todo[1].op \in Changes \cup {"commit"}
      BY <1>1, <1>6, <2>2 DEF Published
    <3>2. Opened(x, D)
      BY <1>3, <2>2, <3>1
    <3>3. ~Real(x.todo[1])
      BY <3>1 DEF Real, Changes
    <3>4. y.del \cap Openings = {}
      BY <3>1 DEF DelRows
    <3>5. ASSUME x.todo[1].op = "append", ~x.open
          PROVE  LinksOf(x.todo[1].row, DOMAIN x.got) \subseteq E
      <4>1. PutRows(r) = {} /\ DelRows(r) = {}
        BY <3>5 DEF IInv, OnlyOpenWrites
      <4>2. Seen(r) = Sees({}, {}, D)
        BY <4>1, SeenIs
      <4>3. /\ out = {}
            /\ new = (DOMAIN x.got \cup LinksOf(x.todo[1].row, DOMAIN x.got)) \ Seen(r)
        BY <1>1, <1>6, <3>5 DEF Makes
      <4>4. E = Sees(new, {}, D)
        BY <1>6, <4>1, <4>3 DEF Published
      <4>5. QED
        BY <4>2, <4>3, <4>4 DEF Sees
    <3> HIDE DEF D, E
    <3>6. QED
      BY <2>2, <3>1, <3>2, <3>3, <3>4, <3>5, OpenedOnward
  <2>3. QED
    BY <2>1, <2>2 DEF AllOpened, Running, Ended
<1>7. QED
  BY <1>4, <1>5, <1>6 DEF Changed

\* What it takes to close a competition.
LEMMA StepCloses ==
    ASSUME InOrder, IInv, AllOpened, NEW r \in Requests, Running(r), Changed(r),
           NEW c \in Competitions, LinksOf(c, Groups) \cap DOMAIN db # {},
           LinksOf(c, Groups) \cap DOMAIN db' = {}
    PROVE  \/ req[r].name \in Closers
           \/ /\ req[r].name = Untied
              /\ req[r].got = Nothing \/ LinksOf(c, Groups) \cap req[r].gone # {}
<1> DEFINE x == req[r]
           D == DOMAIN db
           k == x.todo[1]
<1>1. SUFFICES ASSUME x.name \notin Closers
               PROVE  /\ x.name = Untied
                      /\ x.got = Nothing \/ LinksOf(c, Groups) \cap x.gone # {}
  OBVIOUS
<1>2. Opened(x, D)
  BY <1>1 DEF AllOpened
<1>3. PICK new, out : Makes(r, new, out) /\ Published(r, new, out)
  BY DEF Changed, Quiet, Held
<1>4. DOMAIN db' = Sees(new \cup (PutRows(r) \ out), DelRows(r) \cup (out \cap D), D)
  BY <1>3 DEF Published
<1>5. DelRows(r) \cap Openings = {} /\ LinksOf(c, Groups) \subseteq Openings
  BY <1>2, OpeningsOf DEF Opened, DelRows
<1>6. PICK l \in LinksOf(c, Groups) \cap D : TRUE
  OBVIOUS
<1>7. l \in out \cap Openings
  BY <1>4, <1>5, <1>6 DEF Sees
<1>8. k.op = "trim" /\ x.name = Untied /\ ~x.open /\ k.row \in Competitions
  BY <1>2, <1>3, <1>7, OutSpares
<1>9. Head(x.todo) = k
  BY HeadFacts
<1>10. DelRows(r) = {} /\ out \subseteq LinksOf(k.row, k.rows \ DOMAIN x.got)
  BY <1>3, <1>8, <1>9 DEF IInv, OnlyOpenWrites, Makes
<1>11. k.row = c
  <2>1. PICK g \in Groups : l = {c, g}
    BY <1>6 DEF LinksOf
  <2>2. PICK h : l = {k.row, h}
    BY <1>7, <1>10 DEF LinksOf
  <2>3. {k.row, h} = {c, g} /\ k.row \in Competitions
    BY <1>8, <2>1, <2>2
  <2> HIDE DEF k
  <2>4. QED
    BY <2>1, <2>3, OneOpening
<1>12. DOMAIN x.got \subseteq Groups /\ LinksOf(c, DOMAIN x.got) \subseteq D \cup x.gone
  BY <1>2, <1>8, <1>11 DEF Opened
<1>13. CASE DOMAIN x.got = {}
  <2>1. x.got = [g \in DOMAIN x.got |-> x.got[g]]
    BY <1>2 DEF Opened
  <2>2. x.got = Nothing
    BY <1>13, <2>1, NoneIsNothing
  <2>3. QED
    BY <1>8, <2>2
<1>14. CASE DOMAIN x.got # {}
  <2>1. PICK g \in DOMAIN x.got : TRUE
    BY <1>14
  <2>2. {c, g} \in LinksOf(c, DOMAIN x.got) /\ {c, g} \in LinksOf(c, Groups) /\ g \in Groups
    BY <1>12, <2>1 DEF LinksOf
  <2>3. {c, g} \notin out
    <3>1. SUFFICES ASSUME {c, g} \in out PROVE FALSE
      OBVIOUS
    <3>2. PICK h \in k.rows \ DOMAIN x.got : {c, g} = {c, h}
      BY <1>10, <1>11, <3>1 DEF LinksOf
    <3>3. QED
      BY <2>1, <2>2, <3>2, OneOpening
  <2>4. {c, g} \notin D
    BY <1>4, <1>10, <2>2, <2>3 DEF Sees
  <2>5. QED
    BY <1>8, <1>12, <2>2, <2>4
<1>15. QED
  BY <1>13, <1>14

----------------------------------------------------------------------------
(* What the handlers delete *)

AllSparing(s, name) == Calls(s) /\ \A i \in 1 .. Len(s) : Sparing(s[i], name)

\* Calls that delete nothing.
Mild(s) ==
    Calls(s) /\ \A i \in 1 .. Len(s) : s[i].op \notin {"skip", "delete", "detach", "deletefound", "trim"}

LEMMA BegunOpened ==
    ASSUME NEW x, NEW D, DOMAIN x = Fields, Calls(x.todo), x.todo # <<>>, Opened(x, D),
           Begun(x).todo # <<>>
    PROVE  Opened(Begun(x), D)
<1> DEFINE y == [x EXCEPT !.todo = Tail(@), !.open = TRUE]
           s == x.todo
           t == y.todo
<1>1. Begun(x) = IF Head(s).op = "begin" THEN y ELSE x
  BY DEF Begun
<1>2. /\ t = Tail(s) /\ y.name = x.name /\ y.gone = x.gone /\ y.got = x.got /\ y.del = x.del
  BY DEF Fields
<1> HIDE DEF y
<1>3. /\ Head(s) = s[1] /\ Len(s) \in Nat /\ Len(s) > 0 /\ Len(t) = Len(s) - 1
      /\ \A j \in 1 .. Len(t) : t[j] = s[j + 1]
  BY <1>2, TailIs
<1>4. CASE s[1].op = "begin"
  <2>1. ASSUME NEW j \in 1 .. Len(t) PROVE Sparing(t[j], y.name) /\ t[j].op # "trim"
    <3>1. j + 1 \in 1 .. Len(s) /\ 1 \in 1 .. (j + 1) - 1 /\ t[j] = s[j + 1]
      BY <1>3
    <3>2. /\ Sparing(s[j + 1], x.name)
          /\ s[j + 1].op = "trim" => Swapping(s, j + 1, x.open)
      BY <3>1 DEF Opened
    <3>3. s[j + 1].op # "trim"
      BY <1>4, <3>1, <3>2 DEF Swapping
    <3>4. QED
      BY <1>2, <3>1, <3>2, <3>3
  <2>2. t[1].op # "trim"
    <3>1. Tail(s) # <<>>
      BY <1>1, <1>2, <1>3, <1>4
    <3>2. 1 \in 1 .. Len(t)
      BY <1>2, <1>3, <3>1, TailIs
    <3>3. QED
      BY <2>1, <3>2
  <2>3. QED
    BY <1>1, <1>2, <1>3, <1>4, <2>1, <2>2 DEF Opened
<1>5. CASE s[1].op # "begin"
  BY <1>1, <1>3, <1>5
<1>6. QED
  BY <1>4, <1>5

LEMMA ServeOpened ==
    ASSUME InOrder, AllOpened, NEW r \in Requests, NEW name, NEW may, NEW asked, NEW calls,
           Serve(r, name, may, asked, calls), calls # <<>>, AllSparing(calls, name),
           \A i \in 1 .. Len(calls) : calls[i].op = "trim" => Swapping(calls, i, FALSE)
    PROVE  AllOpened'
<1> DEFINE first == [Idle EXCEPT !.name = name, !.todo = calls, !.asked = asked]
           refused == [Idle EXCEPT !.answer = "error"]
           D == DOMAIN db
<1>1. req' = [req EXCEPT ![r] = Begun(first)] \/ req' = [req EXCEPT ![r] = refused]
  BY DEF Serve
<1>2. /\ DOMAIN first = Fields /\ first.todo = calls /\ first.name = name /\ first.open = FALSE
      /\ first.gone = {} /\ first.got = Nothing /\ first.del = {}
      /\ refused.todo = <<>>
  BY DEF Idle, Fields
<1> HIDE DEF first, refused
<1>3. Opened(first, D)
  <2>1. DOMAIN first.got = {} /\ first.got = [g \in DOMAIN first.got |-> first.got[g]]
    <3>1. DOMAIN first.got = {}
      BY <1>2, NothingDomain
    <3>2. [g \in DOMAIN first.got |-> first.got[g]] = <<>>
      BY <3>1
    <3>3. QED
      BY <1>2, <3>1, <3>2 DEF Nothing
  <2>2. LinksOf(first.todo[1].row, {}) = {}
    BY DEF LinksOf
  <2>3. QED
    BY <1>2, <2>1, <2>2 DEF Opened, AllSparing
<1>4. Begun(first).todo # <<>> => Opened(Begun(first), D)
  BY <1>2, <1>3, BegunOpened DEF AllSparing
<1>5. db' = db
  BY DEF Serve
<1>6. DOMAIN req = Requests
  BY DEF InOrder
<1>7. req'[r] = Begun(first) \/ req'[r].todo = <<>>
  BY <1>1, <1>2, <1>6
<1>8. \A q \in Requests \ {r} : req'[q] = req[q]
  BY <1>1, <1>6
<1>9. QED
  BY <1>4, <1>5, <1>7, <1>8 DEF AllOpened, Running

\* As those who close do, who may delete what they like.
LEMMA ServeCloser ==
    ASSUME InOrder, AllOpened, NEW r \in Requests, NEW name \in Closers, NEW may, NEW asked,
           NEW calls, Serve(r, name, may, asked, calls)
    PROVE  AllOpened'
<1> DEFINE first == [Idle EXCEPT !.name = name, !.todo = calls, !.asked = asked]
           second == [first EXCEPT !.todo = Tail(@), !.open = TRUE]
           refused == [Idle EXCEPT !.answer = "error"]
<1>1. req' = [req EXCEPT ![r] = Begun(first)] \/ req' = [req EXCEPT ![r] = refused]
  BY DEF Serve
<1>2. Begun(first) = first \/ Begun(first) = second
  BY DEF Begun
<1>3. first.name = name /\ second.name = name /\ refused.todo = <<>>
  BY DEF Idle
<1> HIDE DEF first, second, refused
<1>4. Begun(first).name \in Closers
  BY <1>2, <1>3
<1>5. db' = db
  BY DEF Serve
<1>6. DOMAIN req = Requests
  BY DEF InOrder
<1>7. req'[r] = Begun(first) \/ req'[r].todo = <<>>
  BY <1>1, <1>3, <1>6
<1>8. \A q \in Requests \ {r} : req'[q] = req[q]
  BY <1>1, <1>6
<1>9. QED
  BY <1>4, <1>5, <1>7, <1>8 DEF AllOpened, Running

\* As those do who delete nothing.
LEMMA ServeMild ==
    ASSUME InOrder, AllOpened, NEW r \in Requests, NEW name, NEW may, NEW asked, NEW calls,
           Serve(r, name, may, asked, calls), calls # <<>>, Mild(calls), name \notin Droppers,
           name # Untied
    PROVE  AllOpened'
<1>1. \A i \in 1 .. Len(calls) : Sparing(calls[i], name) /\ calls[i].op # "trim"
  BY DEF Mild, Sparing
<1>2. AllSparing(calls, name)
  BY <1>1 DEF AllSparing, Mild
<1>3. QED
  BY <1>1, <1>2, ServeOpened

LEMMA NoneMild == Mild(<<>>)
  BY NoCalls, LenOfNone DEF Mild

LEMMA TupleMild ==
    ASSUME NEW s, NEW k \in Nat \ {0}, Tuple(s, k),
           \A i \in 1 .. k : s[i].op \notin {"skip", "delete", "detach", "deletefound", "trim"}
    PROVE  Mild(s) /\ s # <<>>
<1>1. Calls(s) /\ Len(s) = k
  BY TupleIs
<1>2. s # <<>>
  BY TupleSome
<1>3. QED
  BY <1>1, <1>2 DEF Mild

LEMMA MildOn ==
    ASSUME NEW s, NEW t, Mild(s), Mild(t)
    PROVE  Mild(s \o t) /\ (t # <<>> => s \o t # <<>>)
<1> DEFINE st == s \o t
<1>1. Calls(s) /\ Calls(t)
  BY DEF Mild
<1>2. /\ Calls(st) /\ (t # <<>> => st # <<>>)
      /\ \A i \in 1 .. Len(st) :
            \/ i \in 1 .. Len(s) /\ st[i] = s[i]
            \/ \E j \in 1 .. Len(t) : i = Len(s) + j /\ st[i] = t[j]
  BY <1>1, Concatenation
<1> HIDE DEF st
<1>3. \A i \in 1 .. Len(st) : st[i].op \notin {"skip", "delete", "detach", "deletefound", "trim"}
  BY <1>2, Zenon DEF Mild
<1>4. QED
  BY <1>2, <1>3 DEF Mild, st

LEMMA SparingOn ==
    ASSUME NEW s, NEW t, NEW name, AllSparing(s, name), AllSparing(t, name)
    PROVE  AllSparing(s \o t, name) /\ (t # <<>> => s \o t # <<>>)
<1> DEFINE st == s \o t
<1>1. Calls(s) /\ Calls(t)
  BY DEF AllSparing
<1>2. /\ Calls(st) /\ (t # <<>> => st # <<>>)
      /\ \A i \in 1 .. Len(st) :
            \/ i \in 1 .. Len(s) /\ st[i] = s[i]
            \/ \E j \in 1 .. Len(t) : i = Len(s) + j /\ st[i] = t[j]
  BY <1>1, Concatenation
<1> HIDE DEF st
<1>3. \A i \in 1 .. Len(st) : Sparing(st[i], name)
  BY <1>2, Zenon DEF AllSparing
<1>4. QED
  BY <1>2, <1>3 DEF AllSparing, st

\* What was found to be harmless elsewhere.
LEMMA LooksMild ==
    ASSUME NEW s, Looking(s, "none")
    PROVE  Mild(s)
<1>1. "none" # Untied
  BY DEF Untied
<1>2. QED
  BY <1>1 DEF Looking, Looks, Mild

LEMMA CreateEachMild ==
    ASSUME NEW X, NEW list \in Lists(X)
    PROVE  Mild(CreateEach(list))
<1> DEFINE s == CreateEach(list)
           k == 2 * Len(list)
<1>1. /\ Tuple(s, k) /\ k \in Nat \ {0}
      /\ \A i \in 1 .. k :
            \/ i % 2 = 1 /\ \E v \in X \cap Range(list) :
                  /\ s[i] = Create({v}, Nothing)
                  /\ i + 1 \in 1 .. k /\ s[i + 1] = Associate(v)
            \/ i % 2 = 0 /\ \E v \in X \cap Range(list) : s[i] = Associate(v)
  BY CreateEachIs
<1> HIDE DEF s, k
<1>2. \A i \in 1 .. k : s[i].op \in {"create", "append"}
  <2>1. \A v : Create({v}, Nothing).op = "create" /\ Associate(v).op = "append"
    BY DEF Create, Associate
  <2>2. QED
    BY <1>1, <2>1
<1>3. \A i \in 1 .. k : s[i].op \notin {"skip", "delete", "detach", "deletefound", "trim"}
  BY <1>2
<1>4. QED
  BY <1>1, <1>3, TupleMild DEF s

LEMMA CompetitionHandlersAreOpened ==
    ASSUME InOrder, AllOpened, NEW r \in Requests, CompetitionHandlers(r)
    PROVE  AllOpened'
<1>1. CASE CreateCompetition(r)
  <2> DEFINE name == "CreateCompetition"
  <2>1. PICK u \in Users \cap DOMAIN db, k \in Catalogs, c \in New(Competitions), show \in BOOLEAN,
             G \in Some(Groups) :
          Serve(r, name, hasCompetitionPermission(u), {c} \cup LinksOf(c, G),
                <<First(k), Begin, Create({c}, [show |-> show, finished |-> FALSE])>>
                  \o (IF G = {} THEN <<>> ELSE <<Find(G, "any"), Associate(c)>>)
                  \o <<CommitUnchecked>>)
    BY <1>1, Zenon DEF CreateCompetition
  <2> DEFINE asked == {c} \cup LinksOf(c, G)
             A == <<First(k), Begin, Create({c}, [show |-> show, finished |-> FALSE])>>
             B == <<Find(G, "any"), Associate(c)>>
             M == IF G = {} THEN <<>> ELSE B
             C == <<CommitUnchecked>>
  <2>2. Tuple(A, 3) /\ Tuple(B, 2) /\ Tuple(C, 1)
    BY DEF Tuple
  <2>3. /\ \A i \in 1 .. 3 : A[i].op \notin {"skip", "delete", "detach", "deletefound", "trim"}
        /\ \A i \in 1 .. 2 : B[i].op \notin {"skip", "delete", "detach", "deletefound", "trim"}
        /\ \A i \in 1 .. 1 : C[i].op \notin {"skip", "delete", "detach", "deletefound", "trim"}
    BY Kinds
  <2>4. Serve(r, name, hasCompetitionPermission(u), asked, (A \o M) \o C)
    BY <2>1
  <2>5. name \notin Droppers /\ name # Untied
    BY DEF Droppers, Untied
  <2> HIDE DEF A, B, C, asked, name
  <2>6. Mild(A) /\ Mild(B) /\ Mild(C) /\ C # <<>>
    BY <2>2, <2>3, TupleMild
  <2>7. Mild(M)
    BY <2>6, NoneMild
  <2> HIDE DEF M
  <2>8. Mild(A \o M)
    BY <2>6, <2>7, MildOn
  <2>9. Mild((A \o M) \o C) /\ (A \o M) \o C # <<>>
    BY <2>6, <2>8, MildOn
  <2> DEFINE s == (A \o M) \o C
  <2>10. Serve(r, name, hasCompetitionPermission(u), asked, s) /\ Mild(s) /\ s # <<>>
    BY <2>4, <2>9
  <2> HIDE DEF s
  <2>11. QED
    BY <2>5, <2>10, ServeMild
<1>2. CASE UpdateCompetition(r)
  <2> DEFINE name == "UpdateCompetition"
  <2>1. PICK u \in Users \cap DOMAIN db, c \in Competitions, G \in Some(Groups),
       set \in {Nothing} \cup [{"show"} -> BOOLEAN] \cup [{"finished"} -> BOOLEAN] :
       Serve(r, name, hasCompetitionPermission(u), LinksOf(c, G),
             <<First(c)>>
               \o (IF G = {} THEN <<>> ELSE <<Find(G, "any")>> \o Replace(c, Groups))
               \o <<Begin, Updates(c, set), Associate(c), Commit>>)
    BY <1>2, Zenon DEF UpdateCompetition
  <2> DEFINE asked == LinksOf(c, G)
             A == <<First(c)>>
             B == <<Find(G, "any")>>
             R == Replace(c, Groups)
             C == <<Begin, Updates(c, set), Associate(c), Commit>>
             M == IF G = {} THEN <<>> ELSE B \o R
  <2>2. Tuple(A, 1) /\ Tuple(B, 1) /\ Tuple(C, 4) /\ Tuple(R, 2)
    BY DEF Tuple, Replace
  <2>3. /\ A[1].op = "check" /\ B[1].op = "find" /\ B[1].rows \subseteq Groups
        /\ R[1].op = "append" /\ R[1].row = c /\ R[2].op = "trim" /\ R[2].row = c
        /\ C[1].op = "begin" /\ C[2].op = "updates" /\ C[3].op = "append" /\ C[4].op = "commit"
    BY DEF First, Check, Find, Replace, Associate, Trim, Begin, Updates, Commit, Some
  <2>4. Serve(r, name, hasCompetitionPermission(u), asked, (A \o M) \o C)
    BY <2>1
  <2>5. name = Untied /\ name \notin Droppers
    BY DEF Untied, Droppers
  <2> HIDE DEF A, B, C, R, asked, name
  <2>6. /\ Calls(A) /\ Calls(B) /\ Calls(C) /\ Calls(R)
        /\ Len(A) = 1 /\ Len(B) = 1 /\ Len(C) = 4 /\ Len(R) = 2
    BY <2>2, TupleIs
  <2>7. C # <<>>
    BY <2>2, TupleSome
  <2>8. Sparing(A[1], name) /\ Sparing(B[1], name) /\ Sparing(R[1], name) /\ Sparing(R[2], name)
    BY <2>3, <2>5 DEF Sparing, Real
  <2>9. \A i \in 1 .. 4 : Sparing(C[i], name) /\ C[i].op # "trim"
    <3>1. Sparing(C[1], name) /\ Sparing(C[2], name) /\ Sparing(C[3], name) /\ Sparing(C[4], name)
      BY <2>3, <2>5 DEF Sparing, Real
    <3>2. \A i \in 1 .. 4 : i = 1 \/ i = 2 \/ i = 3 \/ i = 4
      OBVIOUS
    <3>3. QED
      BY <2>3, <3>1, <3>2
  <2>10. AllSparing(A, name) /\ AllSparing(B, name) /\ AllSparing(R, name) /\ AllSparing(C, name)
    <3>1. AllSparing(A, name) /\ AllSparing(B, name) /\ AllSparing(C, name)
      BY <2>6, <2>8, <2>9 DEF AllSparing
    <3>2. \A i \in 1 .. 2 : i = 1 \/ i = 2
      OBVIOUS
    <3>3. AllSparing(R, name)
      BY <2>6, <2>8, <3>2 DEF AllSparing
    <3>4. QED
      BY <3>1, <3>3
  <2>11. \/ M = <<>>
         \/ /\ AllSparing(M, name) /\ Len(M) = 3 /\ M[1].op = "find"
            /\ M[2].op = "append" /\ M[2].row = c /\ M[3].op = "trim" /\ M[3].row = c
    <3> DEFINE BR == B \o R
    <3>1. AllSparing(BR, name)
      BY <2>10, SparingOn
    <3>2. /\ Len(BR) = Len(B) + Len(R) /\ \A i \in 1 .. Len(B) : BR[i] = B[i]
          /\ \A i \in 1 .. Len(R) : BR[Len(B) + i] = R[i]
      <4>1. Calls(B) /\ Calls(R)
        BY <2>6
      <4>2. QED
        BY <4>1, Concatenation
    <3>3. M = <<>> \/ M = BR
      OBVIOUS
    <3> HIDE DEF BR, M
    <3>4. Len(BR) = 3 /\ BR[1] = B[1] /\ BR[2] = R[1] /\ BR[3] = R[2]
      <4>1. Len(BR) = 3 /\ BR[1] = B[1] /\ BR[1 + 1] = R[1] /\ BR[1 + 2] = R[2]
        BY <2>6, <3>2
      <4>2. QED
        BY <4>1
    <3>5. QED
      BY <2>3, <3>1, <3>3, <3>4
  <2> HIDE DEF M
  <2> DEFINE AM == A \o M
             s == AM \o C
  <2>12. Calls(M) /\ AllSparing(M, name)
    <3>1. AllSparing(<<>>, name)
      BY NoCalls, LenOfNone DEF AllSparing
    <3>2. QED
      BY <2>11, <3>1 DEF AllSparing
  <2>13. AllSparing(AM, name)
    BY <2>10, <2>12, SparingOn
  <2>14. /\ Calls(AM) /\ Len(M) \in Nat /\ Len(AM) = Len(A) + Len(M)
         /\ \A i \in 1 .. Len(A) : AM[i] = A[i]
         /\ \A i \in 1 .. Len(M) : AM[Len(A) + i] = M[i]
    <3>1. Calls(A) /\ Calls(M)
      BY <2>6, <2>12
    <3>2. QED
      BY <3>1, Concatenation
  <2>15. Serve(r, name, hasCompetitionPermission(u), asked, s)
    BY <2>4
  <2> HIDE DEF AM
  <2>16. \/ Len(AM) = 1
         \/ /\ Len(AM) = 4 /\ AM[2].op = "find" /\ AM[3].op = "append" /\ AM[3].row = c
            /\ AM[4].op = "trim" /\ AM[4].row = c
    <3>1. CASE M = <<>>
      BY <2>6, <2>14, <3>1, LenOfNone
    <3>2. CASE Len(M) = 3
      <4>1. Len(AM) = 4 /\ AM[1 + 1] = M[1] /\ AM[1 + 2] = M[2] /\ AM[1 + 3] = M[3]
        BY <2>6, <2>14, <3>2
      <4>2. Len(AM) = 4 /\ AM[2] = M[1] /\ AM[3] = M[2] /\ AM[4] = M[3]
        BY <4>1
      <4>3. M # <<>>
        BY <3>2, LenOfNone
      <4>4. QED
        BY <2>11, <4>2, <4>3
    <3>3. QED
      BY <2>11, <3>1, <3>2
  <2>17. AllSparing(s, name) /\ s # <<>>
    BY <2>7, <2>10, <2>13, SparingOn
  <2>18. /\ Len(s) = Len(AM) + 4
         /\ \A i \in 1 .. Len(AM) : s[i] = AM[i]
         /\ \A i \in 1 .. 4 : s[Len(AM) + i] = C[i]
    <3>1. Calls(AM) /\ Calls(C)
      BY <2>6, <2>14
    <3>2. /\ Len(s) = Len(AM) + Len(C)
          /\ \A i \in 1 .. Len(AM) : s[i] = AM[i]
          /\ \A i \in 1 .. Len(C) : s[Len(AM) + i] = C[i]
      BY <3>1, Concatenation
    <3>3. QED
      BY <2>6, <3>2
  <2>19. AM[1].op = "check" /\ Len(AM) \in Nat /\ Len(AM) >= 1
    BY <2>3, <2>6, <2>14, <2>16
  <2> HIDE DEF s
  <2>20. \A i \in 1 .. Len(s) : s[i].op = "trim" => Swapping(s, i, FALSE)
    <3>1. SUFFICES ASSUME NEW i \in 1 .. Len(s), s[i].op = "trim"
                   PROVE  Swapping(s, i, FALSE)
      OBVIOUS
    <3>2. i \in 1 .. Len(AM)
      <4>1. SUFFICES ASSUME i > Len(AM) PROVE FALSE
        BY <2>18, <2>19
      <4>2. i - Len(AM) \in 1 .. 4 /\ Len(AM) + (i - Len(AM)) = i
        BY <2>18, <2>19, <4>1
      <4>3. s[i] = C[i - Len(AM)]
        BY <2>18, <4>2
      <4>4. QED
        BY <2>9, <3>1, <4>2, <4>3
    <3>3. AM[i].op = "trim"
      BY <2>18, <3>1, <3>2
    <3>4. i = 4 /\ Len(AM) = 4
      BY <2>16, <2>19, <3>2, <3>3
    <3>5. s[1].op = "check" /\ s[2].op = "find" /\ s[3].op = "append" /\ s[3].row = c /\ s[4].row = c
      BY <2>16, <2>18, <2>19, <3>4
    <3>6. \A j \in 1 .. 4 - 1 : j = 1 \/ j = 2 \/ j = 3
      OBVIOUS
    <3>7. \A j \in 1 .. 4 - 1 : s[j].op # "begin"
      BY <3>5, <3>6
    <3>8. 4 - 1 = 3
      OBVIOUS
    <3>9. QED
      BY <3>4, <3>5, <3>7, <3>8 DEF Swapping
  <2>21. QED
    BY <2>15, <2>17, <2>20, ServeOpened
<1>3. CASE DeleteCompetition(r)
  <2>1. \E may, asked, calls : Serve(r, "DeleteCompetition", may, asked, calls)
    BY <1>3, Zenon DEF DeleteCompetition
  <2>2. "DeleteCompetition" \in Closers
    BY DEF Closers
  <2>3. QED
    BY <2>1, <2>2, ServeCloser
<1>4. CASE FinishCompetition(r)
  <2>1. PICK u \in Users \cap DOMAIN db, c \in Competitions :
          Serve(r, "FinishCompetition", hasCompetitionPermission(u), {}, <<Load(c), Negate("finished"), Save(c)>>)
    BY <1>4, Zenon DEF FinishCompetition
  <2> DEFINE asked == {}
             s == <<Load(c), Negate("finished"), Save(c)>>
  <2>2. Tuple(s, 3)
    BY DEF Tuple
  <2>3. /\ \A i \in 1 .. 3 : s[i].op \notin {"skip", "delete", "detach", "deletefound", "trim"}
    BY Kinds
  <2>4. Serve(r, "FinishCompetition", hasCompetitionPermission(u), asked, s)
    BY <2>1, Zenon
  <2> HIDE DEF s, asked
  <2>5. Mild(s) /\ s # <<>>
    BY <2>2, <2>3, TupleMild
  <2>6. "FinishCompetition" \notin Droppers /\ "FinishCompetition" # Untied
    BY DEF Droppers, Untied
  <2>7. QED
    BY <2>4, <2>5, <2>6, ServeMild
<1>5. CASE ToggleCompetitionVisibility(r)
  <2>1. PICK u \in Users \cap DOMAIN db, c \in Competitions :
          Serve(r, "ToggleCompetitionVisibility", hasCompetitionPermission(u), {}, <<Load(c), Negate("show"), Save(c)>>)
    BY <1>5, Zenon DEF ToggleCompetitionVisibility
  <2> DEFINE asked == {}
             s == <<Load(c), Negate("show"), Save(c)>>
  <2>2. Tuple(s, 3)
    BY DEF Tuple
  <2>3. /\ \A i \in 1 .. 3 : s[i].op \notin {"skip", "delete", "detach", "deletefound", "trim"}
    BY Kinds
  <2>4. Serve(r, "ToggleCompetitionVisibility", hasCompetitionPermission(u), asked, s)
    BY <2>1, Zenon
  <2> HIDE DEF s, asked
  <2>5. Mild(s) /\ s # <<>>
    BY <2>2, <2>3, TupleMild
  <2>6. "ToggleCompetitionVisibility" \notin Droppers /\ "ToggleCompetitionVisibility" # Untied
    BY DEF Droppers, Untied
  <2>7. QED
    BY <2>4, <2>5, <2>6, ServeMild
<1>6. CASE AddGroupToCompetition(r)
  <2>1. PICK u \in Users \cap DOMAIN db, c \in Competitions, g \in Groups :
          Serve(r, "AddGroupToCompetition", hasCompetitionPermission(u), {{c, g}}, <<Begin, First(c), First(g), Ensure({{c, g}}), First(c), Commit>>)
    BY <1>6, Zenon DEF AddGroupToCompetition
  <2> DEFINE asked == {{c, g}}
             s == <<Begin, First(c), First(g), Ensure({{c, g}}), First(c), Commit>>
  <2>2. Tuple(s, 6)
    BY DEF Tuple
  <2>3. /\ \A i \in 1 .. 6 : s[i].op \notin {"skip", "delete", "detach", "deletefound", "trim"}
    BY Kinds
  <2>4. Serve(r, "AddGroupToCompetition", hasCompetitionPermission(u), asked, s)
    BY <2>1, Zenon
  <2> HIDE DEF s, asked
  <2>5. Mild(s) /\ s # <<>>
    BY <2>2, <2>3, TupleMild
  <2>6. "AddGroupToCompetition" \notin Droppers /\ "AddGroupToCompetition" # Untied
    BY DEF Droppers, Untied
  <2>7. QED
    BY <2>4, <2>5, <2>6, ServeMild
<1>7. CASE RemoveGroupFromCompetition(r)
  <2>1. \E may, asked, calls : Serve(r, "RemoveGroupFromCompetition", may, asked, calls)
    BY <1>7, Zenon DEF RemoveGroupFromCompetition
  <2>2. "RemoveGroupFromCompetition" \in Closers
    BY DEF Closers
  <2>3. QED
    BY <2>1, <2>2, ServeCloser
<1>8. CASE CreateGroup(r)
  <2>1. PICK u \in Users \cap DOMAIN db, g \in New(Groups) :
          Serve(r, "CreateGroup", IsStaff(u), {g}, <<First(ScopeOf[g]), Create({g}, Nothing)>>)
    BY <1>8, Zenon DEF CreateGroup
  <2> DEFINE asked == {g}
             s == <<First(ScopeOf[g]), Create({g}, Nothing)>>
  <2>2. Tuple(s, 2)
    BY DEF Tuple
  <2>3. /\ \A i \in 1 .. 2 : s[i].op \notin {"skip", "delete", "detach", "deletefound", "trim"}
    BY Kinds
  <2>4. Serve(r, "CreateGroup", IsStaff(u), asked, s)
    BY <2>1, Zenon
  <2> HIDE DEF s, asked
  <2>5. Mild(s) /\ s # <<>>
    BY <2>2, <2>3, TupleMild
  <2>6. "CreateGroup" \notin Droppers /\ "CreateGroup" # Untied
    BY DEF Droppers, Untied
  <2>7. QED
    BY <2>4, <2>5, <2>6, ServeMild
<1>9. CASE UpdateGroup(r)
  <2>1. PICK u \in Users \cap DOMAIN db, g \in Groups :
          Serve(r, "UpdateGroup", TRUE, {}, <<First(g)>> \o Managing(u, g) \o <<Updates(g, Nothing)>>)
    BY <1>9, Zenon DEF UpdateGroup
  <2> DEFINE asked == {}
             A == <<First(g)>> \o Managing(u, g)
             C == <<Updates(g, Nothing)>>
  <2>2. Tuple(C, 1)
    BY DEF Tuple
  <2>3. /\ \A i \in 1 .. 1 : C[i].op \notin {"skip", "delete", "detach", "deletefound", "trim"}
    BY Kinds
  <2>4. Mild(A)
    BY ManagingLooks, LooksMild
  <2>5. Serve(r, "UpdateGroup", TRUE, asked, A \o C)
    BY <2>1, Zenon
  <2> HIDE DEF A, C, asked
  <2>6. Mild(C) /\ C # <<>>
    BY <2>2, <2>3, TupleMild
  <2>7. Mild(A \o C) /\ A \o C # <<>>
    BY <2>6, <2>4, MildOn
  <2> DEFINE s == A \o C
  <2>8. Serve(r, "UpdateGroup", TRUE, asked, s)
    BY <2>5
  <2>9. Mild(s) /\ s # <<>>
    BY <2>7
  <2> HIDE DEF s
  <2>10. "UpdateGroup" \notin Droppers /\ "UpdateGroup" # Untied
    BY DEF Droppers, Untied
  <2>11. QED
    BY <2>8, <2>9, <2>10, ServeMild
<1>10. CASE DeleteGroup(r)
  <2>1. \E may, asked, calls : Serve(r, "DeleteGroup", may, asked, calls)
    BY <1>10, Zenon DEF DeleteGroup
  <2>2. "DeleteGroup" \in Closers
    BY DEF Closers
  <2>3. QED
    BY <2>1, <2>2, ServeCloser
<1>11. CASE AddUserToGroup(r)
  <2>1. PICK u \in Users \cap DOMAIN db, v \in Users, g \in Groups :
          Serve(r, "AddUserToGroup", TRUE, {{v, g}}, <<First(g), Manages(u, g), Find({v}, "all"), Check({{v, g}}, FALSE, "ok"),
                  Associate(g)>>)
    BY <1>11, Zenon DEF AddUserToGroup
  <2> DEFINE asked == {{v, g}}
             D == Check({{v, g}}, FALSE, "ok")
             s == <<First(g), Manages(u, g), Find({v}, "all"), D,
                  Associate(g)>>
  <2>2. D.op = "check"
    BY DEF Check
  <2> HIDE DEF D
  <2>3. Tuple(s, 5)
    BY DEF Tuple
  <2>4. /\ \A i \in 1 .. 5 : s[i].op \notin {"skip", "delete", "detach", "deletefound", "trim"}
    BY <2>2, Kinds
  <2>5. Serve(r, "AddUserToGroup", TRUE, asked, s)
    BY <2>1, Zenon DEF D
  <2> HIDE DEF s, asked
  <2>6. Mild(s) /\ s # <<>>
    BY <2>3, <2>4, TupleMild
  <2>7. "AddUserToGroup" \notin Droppers /\ "AddUserToGroup" # Untied
    BY DEF Droppers, Untied
  <2>8. QED
    BY <2>5, <2>6, <2>7, ServeMild
<1>12. CASE RemoveUserFromGroup(r)
  <2> DEFINE name == "RemoveUserFromGroup"
  <2>1. PICK u \in Users \cap DOMAIN db, v \in Users, g \in Groups :
          Serve(r, name, TRUE, {},
                <<First(g), Manages(u, g), First(v), Check({{v, g}}, TRUE, "ok"),
                  Delete({{v, g}})>>)
    BY <1>12, Zenon DEF RemoveUserFromGroup
  <2> DEFINE D == Check({{v, g}}, TRUE, "ok")
             X == {{v, g}}
             s == <<First(g), Manages(u, g), First(v), D, Delete(X)>>
  <2>2. D.op = "check"
    BY DEF Check
  <2>3. X \cap Openings = {}
    BY UsersApart DEF Openings, Pairs
  <2>4. Serve(r, name, TRUE, {}, s)
    BY <2>1, Zenon DEF D, X
  <2>5. name \notin Droppers /\ name # Untied
    BY DEF Droppers, Untied
  <2> HIDE DEF D, X, name
  <2>6. Tuple(s, 5)
    BY DEF Tuple
  <2>7. \A i \in 1 .. 5 : Sparing(s[i], name) /\ s[i].op # "trim"
    <3>1. \A i \in 1 .. 5 : i = 1 \/ i = 2 \/ i = 3 \/ i = 4 \/ i = 5
      OBVIOUS
    <3>2. /\ s[1].op = "check" /\ s[2].op = "manages" /\ s[3].op = "check" /\ s[4].op = "check"
          /\ s[5].op = "delete" /\ s[5].rows = X
      BY <2>2, Kinds DEF Delete
    <3> HIDE DEF s
    <3>3. QED
      BY <2>3, <2>5, <3>1, <3>2 DEF Sparing, Real
  <2> HIDE DEF s
  <2>8. Calls(s) /\ Len(s) = 5
    BY <2>6, TupleIs
  <2>9. s # <<>>
    BY <2>6, TupleSome
  <2>10. AllSparing(s, name)
    BY <2>7, <2>8 DEF AllSparing
  <2>11. QED
    BY <2>4, <2>7, <2>8, <2>9, <2>10, ServeOpened
<1>13. CASE CreateUserAndAttachGroup(r)
  <2>1. PICK u \in Users \cap DOMAIN db, v \in Unused(Users), G \in Some(Groups) :
          Serve(r, "CreateUserAndAttachGroup", IsStaff(u) /\ G # {}, {v} \cup LinksOf(v, G), <<Begin, Find(G, "some"), Create({v}, Nothing), Associate(v), Commit,
                  Reload(v)>>)
    BY <1>13, Zenon DEF CreateUserAndAttachGroup
  <2> DEFINE asked == {v} \cup LinksOf(v, G)
             s == <<Begin, Find(G, "some"), Create({v}, Nothing), Associate(v), Commit,
                  Reload(v)>>
  <2>2. Tuple(s, 6)
    BY DEF Tuple
  <2>3. /\ \A i \in 1 .. 6 : s[i].op \notin {"skip", "delete", "detach", "deletefound", "trim"}
    BY Kinds
  <2>4. Serve(r, "CreateUserAndAttachGroup", IsStaff(u) /\ G # {}, asked, s)
    BY <2>1, Zenon
  <2> HIDE DEF s, asked
  <2>5. Mild(s) /\ s # <<>>
    BY <2>2, <2>3, TupleMild
  <2>6. "CreateUserAndAttachGroup" \notin Droppers /\ "CreateUserAndAttachGroup" # Untied
    BY DEF Droppers, Untied
  <2>7. QED
    BY <2>4, <2>5, <2>6, ServeMild
<1>14. CASE CreateBulkUsersAndAttachGroup(r)
  <2>1. PICK u \in Users \cap DOMAIN db, list \in Lists(Users \ dead), g \in Groups :
          Serve(r, "CreateBulkUsersAndAttachGroup", Has(u, "OWNER"), AskedFor(list, g), <<Find({g}, "all"), Begin>> \o CreateEach(list) \o <<Commit>>)
    BY <1>14, Zenon DEF CreateBulkUsersAndAttachGroup
  <2> DEFINE asked == AskedFor(list, g)
             A == <<Find({g}, "all"), Begin>>
             M == CreateEach(list)
             C == <<Commit>>
  <2>2. Tuple(A, 2) /\ Tuple(C, 1)
    BY DEF Tuple
  <2>3. /\ \A i \in 1 .. 2 : A[i].op \notin {"skip", "delete", "detach", "deletefound", "trim"}
        /\ \A i \in 1 .. 1 : C[i].op \notin {"skip", "delete", "detach", "deletefound", "trim"}
    BY Kinds
  <2>4. Mild(M)
    BY CreateEachMild
  <2>5. Serve(r, "CreateBulkUsersAndAttachGroup", Has(u, "OWNER"), asked, A \o M \o C)
    BY <2>1, Zenon
  <2> HIDE DEF A, M, C, asked
  <2>6. Mild(A) /\ A # <<>> /\ Mild(C) /\ C # <<>>
    BY <2>2, <2>3, TupleMild
  <2>7. Mild(A \o M) /\ A \o M # <<>>
    BY <2>6, <2>4, MildOn
  <2>8. Mild((A \o M) \o C) /\ (A \o M) \o C # <<>>
    BY <2>6, <2>4, <2>7, MildOn
  <2> DEFINE s == (A \o M) \o C
  <2>9. Serve(r, "CreateBulkUsersAndAttachGroup", Has(u, "OWNER"), asked, s)
    BY <2>5
  <2>10. Mild(s) /\ s # <<>>
    BY <2>8
  <2> HIDE DEF s
  <2>11. "CreateBulkUsersAndAttachGroup" \notin Droppers /\ "CreateBulkUsersAndAttachGroup" # Untied
    BY DEF Droppers, Untied
  <2>12. QED
    BY <2>9, <2>10, <2>11, ServeMild
<1>15. CASE ImportUsersFromXLSXToGroup(r)
  <2> DEFINE name == "ImportUsersFromXLSXToGroup"
  <2>0. PICK u \in Users \cap DOMAIN db, list \in Lists(Users \ dead), g \in Groups : \E X :
          Serve(r, name, Has(u, "OWNER"), AskedFor(list, g),
                <<Find({g}, "all"), Begin, Check(X, FALSE, "error")>>
                  \o CreateEach(list) \o <<Commit>>)
    BY <1>15, Zenon DEF ImportUsersFromXLSXToGroup
  <2>1. PICK X :
          Serve(r, name, Has(u, "OWNER"), AskedFor(list, g),
                <<Find({g}, "all"), Begin, Check(X, FALSE, "error")>>
                  \o CreateEach(list) \o <<Commit>>)
    BY <2>0
  <2> DEFINE D == Check(X, FALSE, "error")
             asked == AskedFor(list, g)
             A == <<Find({g}, "all"), Begin, D>>
             M == CreateEach(list)
             C == <<Commit>>
  <2>2. D.op = "check"
    BY DEF Check
  <2> HIDE DEF D
  <2>3. Tuple(A, 3) /\ Tuple(C, 1)
    BY DEF Tuple
  <2>4. /\ \A i \in 1 .. 3 : A[i].op \notin {"skip", "delete", "detach", "deletefound", "trim"}
        /\ \A i \in 1 .. 1 : C[i].op \notin {"skip", "delete", "detach", "deletefound", "trim"}
    BY <2>2, Kinds
  <2>5. Mild(M)
    BY CreateEachMild
  <2>6. Serve(r, name, Has(u, "OWNER"), asked, (A \o M) \o C)
    BY <2>1, Zenon DEF D
  <2>7. name \notin Droppers /\ name # Untied
    BY DEF Droppers, Untied
  <2> HIDE DEF A, M, C, asked, name
  <2>8. Mild(A) /\ Mild(C) /\ C # <<>>
    BY <2>3, <2>4, TupleMild
  <2>9. Mild(A \o M)
    BY <2>5, <2>8, MildOn
  <2>10. Mild((A \o M) \o C) /\ (A \o M) \o C # <<>>
    BY <2>8, <2>9, MildOn
  <2> DEFINE s == (A \o M) \o C
  <2>11. Serve(r, name, Has(u, "OWNER"), asked, s) /\ Mild(s) /\ s # <<>>
    BY <2>6, <2>10
  <2> HIDE DEF s
  <2>12. QED
    BY <2>7, <2>11, ServeMild
<1>16. CASE DeleteAllUsersFromGroup(r)
  <2> DEFINE name == "DeleteAllUsersFromGroup"
  <2>1. PICK u \in Users \cap DOMAIN db, g \in Groups :
          Serve(r, name, Has(u, "OWNER"), {},
                <<First(g), Begin, Members(g), LeaveIfNone, DetachFound({g}),
                  DetachFound(Roles), DeleteFound, Commit>>)
    BY <1>16, Zenon DEF DeleteAllUsersFromGroup
  <2> DEFINE s == <<First(g), Begin, Members(g), LeaveIfNone, DetachFound({g}),
                    DetachFound(Roles), DeleteFound, Commit>>
  <2>2. Tuple(s, 8)
    BY DEF Tuple
  <2>3. /\ s[1].op = "check" /\ s[2].op = "begin" /\ s[3].op = "find" /\ s[3].rows = Users
        /\ s[4].op = "leave" /\ s[5].op = "detach" /\ s[5].rows = {g} /\ s[6].op = "detach"
        /\ s[6].rows = Roles /\ s[7].op = "deletefound" /\ s[8].op = "commit"
    BY Kinds, RowKinds DEF DetachFound
  <2>4. name \in Droppers /\ name # Untied
    BY DEF Droppers, Untied
  <2>5. Serve(r, name, Has(u, "OWNER"), {}, s)
    BY <2>1
  <2> HIDE DEF s, name
  <2>6. \A i \in 1 .. 8 : Sparing(s[i], name) /\ s[i].op # "trim"
    <3>1. \A i \in 1 .. 8 : i = 1 \/ i = 2 \/ i = 3 \/ i = 4 \/ i = 5 \/ i = 6 \/ i = 7 \/ i = 8
      OBVIOUS
    <3>2. Sparing(s[1], name) /\ Sparing(s[2], name) /\ Sparing(s[3], name) /\ Sparing(s[4], name)
      BY <2>3, <2>4 DEF Sparing, Real
    <3>3. Sparing(s[5], name) /\ Sparing(s[6], name) /\ Sparing(s[7], name) /\ Sparing(s[8], name)
      BY <2>3, <2>4 DEF Sparing, Real
    <3>4. \A i \in 1 .. 8 : s[i].op # "trim"
      BY <2>3, <3>1
    <3>5. QED
      BY <3>1, <3>2, <3>3, <3>4
  <2>7. Calls(s) /\ Len(s) = 8
    BY <2>2, TupleIs
  <2>8. s # <<>>
    BY <2>2, TupleSome
  <2>9. AllSparing(s, name)
    BY <2>6, <2>7 DEF AllSparing
  <2>10. QED
    BY <2>5, <2>6, <2>7, <2>8, <2>9, ServeOpened
<1>17. CASE BulkDeleteUsers(r)
  <2> DEFINE name == "BulkDeleteUsers"
  <2>1. PICK u \in Users \cap DOMAIN db, V \in Some(Users) \ {{}} :
          Serve(r, name, TRUE, {},
                <<Find(V, "some")>> \o (IF Has(u, "OWNER") THEN <<>> ELSE <<OwnsFound(u)>>)
                  \o <<Begin, DetachFound(Roles \cup Groups), Delete(V), Commit>>)
    BY <1>17, Zenon DEF BulkDeleteUsers
  <2> DEFINE A == <<Find(V, "some")>>
             B == <<OwnsFound(u)>>
             M == IF Has(u, "OWNER") THEN <<>> ELSE B
             C == <<Begin, DetachFound(Roles \cup Groups), Delete(V), Commit>>
  <2>2. Tuple(A, 1) /\ Tuple(B, 1) /\ Tuple(C, 4)
    BY DEF Tuple
  <2>3. V \subseteq Users /\ V \cap Openings = {}
    <3>1. V \subseteq Users
      BY DEF Some
    <3>2. QED
      BY <3>1, GroupsApart
  <2>4. /\ A[1].op = "find" /\ A[1].rows = V /\ B[1].op = "owns"
        /\ C[1].op = "begin" /\ C[2].op = "detach" /\ C[2].rows = Roles \cup Groups
        /\ C[3].op = "delete" /\ C[3].rows = V /\ C[4].op = "commit"
    BY Kinds, RowKinds DEF DetachFound, Delete
  <2>5. name \in Droppers /\ name # Untied
    BY DEF Droppers, Untied
  <2>6. Serve(r, name, TRUE, {}, (A \o M) \o C)
    BY <2>1
  <2> HIDE DEF A, B, C, name
  <2>7. Sparing(A[1], name) /\ Sparing(B[1], name) /\ \A i \in 1 .. 4 : Sparing(C[i], name)
    <3>1. \A i \in 1 .. 4 : i = 1 \/ i = 2 \/ i = 3 \/ i = 4
      OBVIOUS
    <3>2. Sparing(C[1], name) /\ Sparing(C[2], name) /\ Sparing(C[3], name) /\ Sparing(C[4], name)
      BY <2>3, <2>4, <2>5 DEF Sparing, Real
    <3>3. Sparing(A[1], name) /\ Sparing(B[1], name)
      BY <2>3, <2>4, <2>5 DEF Sparing, Real
    <3>4. QED
      BY <3>1, <3>2, <3>3
  <2>8. Calls(A) /\ Len(A) = 1 /\ Calls(B) /\ Len(B) = 1 /\ Calls(C) /\ Len(C) = 4
    BY <2>2, TupleIs
  <2>9. C # <<>>
    BY <2>2, TupleSome
  <2>10. AllSparing(A, name) /\ AllSparing(B, name) /\ AllSparing(C, name) /\ AllSparing(<<>>, name)
    BY <2>7, <2>8, NoCalls, LenOfNone DEF AllSparing
  <2>11. AllSparing(M, name)
    BY <2>10
  <2> HIDE DEF M
  <2>12. AllSparing(A \o M, name)
    BY <2>10, <2>11, SparingOn
  <2>13. AllSparing((A \o M) \o C, name) /\ (A \o M) \o C # <<>>
    BY <2>9, <2>10, <2>12, SparingOn
  <2> DEFINE s == (A \o M) \o C
  <2>14. Serve(r, name, TRUE, {}, s) /\ AllSparing(s, name) /\ s # <<>>
    BY <2>6, <2>13
  <2> HIDE DEF s
  <2>15. \A i \in 1 .. Len(s) : s[i].op # "trim"
    BY <2>5, <2>14 DEF AllSparing, Sparing
  <2>16. QED
    BY <2>14, <2>15, ServeOpened
<1>18. CASE TriggerPuzzleFirstTry(r)
  <2>1. PICK u \in Users \cap DOMAIN db, c \in Competitions :
          Serve(r, "TriggerPuzzleFirstTry", GetAccessibleCompetition(u, c), {{u, c}}, <<Check({{u, c}}, FALSE, "ok"), Create({{u, c}}, Nothing)>>)
    BY <1>18, Zenon DEF TriggerPuzzleFirstTry
  <2> DEFINE asked == {{u, c}}
             D == Check({{u, c}}, FALSE, "ok")
             s == <<D, Create({{u, c}}, Nothing)>>
  <2>2. D.op = "check"
    BY DEF Check
  <2> HIDE DEF D
  <2>3. Tuple(s, 2)
    BY DEF Tuple
  <2>4. /\ \A i \in 1 .. 2 : s[i].op \notin {"skip", "delete", "detach", "deletefound", "trim"}
    BY <2>2, Kinds
  <2>5. Serve(r, "TriggerPuzzleFirstTry", GetAccessibleCompetition(u, c), asked, s)
    BY <2>1, Zenon DEF D
  <2> HIDE DEF s, asked
  <2>6. Mild(s) /\ s # <<>>
    BY <2>3, <2>4, TupleMild
  <2>7. "TriggerPuzzleFirstTry" \notin Droppers /\ "TriggerPuzzleFirstTry" # Untied
    BY DEF Droppers, Untied
  <2>8. QED
    BY <2>5, <2>6, <2>7, ServeMild
<1>19. QED
  BY <1>1, <1>2, <1>3, <1>4, <1>5, <1>6, <1>7, <1>8, <1>9, <1>10, <1>11, <1>12, <1>13, <1>14,
     <1>15, <1>16, <1>17, <1>18 DEF CompetitionHandlers

CInv == RInv /\ AllOpened

\* Whatever happens at once, a competition that groups may see is closed to all of them only by
\* the requests that take groups from it or delete it or them, or by an update that asks for groups
\* that are not there or whose groups another request has deleted again meanwhile: replacing
\* the groups of a competition, which no transaction covers, has no moment without any.
THEOREM CompetitionsStayOpen == CompetitionSpec => NeverClosedByUpdate
<1>1. Init => CInv
  <2>1. SUFFICES ASSUME Init PROVE CInv
    OBVIOUS
  <2>2. \A r \in Requests : ~Running(r)
    BY <2>1 DEF Init, Running, Idle
  <2>3. QED
    BY <2>1, <2>2, InitInOrder, InitHolds DEF CInv, RInv, AllRightful, AllOpened
<1>2. ASSUME CInv, [CompetitionNext]_vars PROVE CInv'
  <2>1. RInv /\ AllOpened /\ InOrder /\ IInv
    BY <1>2 DEF CInv, RInv
  <2>2. [Next]_vars
    BY <1>2 DEF CompetitionNext, Next, Handlers
  <2>3. RInv' /\ InOrder'
    BY <2>1, <2>2, NextIsRightful DEF RInv
  <2>4. ASSUME NEW r \in Requests, CompetitionHandlers(r) PROVE AllOpened'
    BY <2>1, <2>4, CompetitionHandlersAreOpened
  <2>5. ASSUME NEW r \in Requests, Steps(r) \/ Fail(r) PROVE AllOpened'
    BY <2>1, <2>3, <2>5, StepGoesOn, FailGoesOn, StepIsOpened
  <2>6. ASSUME UNCHANGED vars PROVE AllOpened'
    <3>1. req' = req /\ db' = db
      BY <2>6 DEF vars
    <3>2. QED
      BY <2>1, <3>1 DEF AllOpened, Running
  <2>7. AllOpened'
    <3>1. CASE CompetitionNext
      BY <2>4, <2>5, <3>1 DEF CompetitionNext
    <3>2. QED
      BY <1>2, <2>6, <3>1
  <2>8. QED
    BY <2>3, <2>7 DEF CInv
<1>3. CInv /\ [CompetitionNext]_vars =>
        [\A c \in Competitions, r \in Requests :
            /\ db' # db /\ req'[r].todo # req[r].todo
            /\ LinksOf(c, Groups) \cap DOMAIN db # {}
            /\ LinksOf(c, Groups) \cap DOMAIN db' = {}
            => \/ req[r].name \in {"RemoveGroupFromCompetition", "DeleteGroup", "DeleteCompetition"}
               \/ /\ req[r].name = "UpdateCompetition"
                  /\ req[r].got = Nothing \/ LinksOf(c, Groups) \cap req[r].gone # {}]_vars
  <2>1. SUFFICES ASSUME CInv, CompetitionNext, NEW c \in Competitions, NEW r \in Requests,
                        db' # db, req'[r].todo # req[r].todo,
                        LinksOf(c, Groups) \cap DOMAIN db # {},
                        LinksOf(c, Groups) \cap DOMAIN db' = {}
                 PROVE  \/ req[r].name \in Closers
                        \/ /\ req[r].name = Untied
                           /\ req[r].got = Nothing \/ LinksOf(c, Groups) \cap req[r].gone # {}
    BY DEF Closers, Untied
  <2>2. InOrder /\ IInv /\ AllOpened
    BY <2>1 DEF CInv, RInv
  <2>3. PICK q \in Requests : CompetitionHandlers(q) \/ Steps(q) \/ Fail(q)
    BY <2>1 DEF CompetitionNext
  <2>4. ~CompetitionHandlers(q)
    BY <2>1, HandlersChangeNothing DEF Handlers
  <2>5. Running(q) /\ Changed(q)
    BY <2>2, <2>3, <2>4, StepGoesOn, FailGoesOn
  <2>6. q = r
    <3>1. SUFFICES ASSUME q # r PROVE FALSE
      OBVIOUS
    <3>2. req'[r] = req[r] \/ req'[r] = [req[r] EXCEPT !.gone = @ \cup (DOMAIN db \ DOMAIN db')]
      BY <2>5, <3>1 DEF Changed, Quiet, Held, Published
    <3>3. DOMAIN req[r] = Fields
      BY <2>2 DEF InOrder, Going
    <3>4. req'[r].todo = req[r].todo
      BY <3>2, <3>3 DEF Fields
    <3>5. QED
      BY <2>1, <3>4
  <2>7. QED
    BY <2>1, <2>2, <2>5, <2>6, StepCloses
<1>4. QED
  BY <1>1, <1>2, <1>3, PTL DEF CompetitionSpec, NeverClosedByUpdate

----------------------------------------------------------------------------
(* Users are not left without roles by an update. *)

Bonds == Pairs(Users, Roles)

\* Who may take the last role of a user, and who exchanges his roles.
Strippers == {"DetachRoleFromUser", "DeleteRole", "DeleteUser"}
Swappers == {"UpdateUserRoles", "UpdateTargetUserProfile"}

\* A call that takes no role from anybody.
Gentle(c) ==
    /\ c.op \notin {"detach", "deletefound"}
    /\ c.op = "delete" => c.rows \cap Bonds = {}
    /\ c.op = "trim" => LinksOf(c.row, c.rows) \cap Bonds = {}

\* Roles were found, or will be if the handler goes on.
Sure(got) == got # {} /\ got \subseteq Roles
SureFind(c) ==
    /\ c.op = "find" /\ c.need \in {"some", "all"} /\ c.rows \subseteq Roles
    /\ c.need = "all" => c.rows # {}

\* Call i of s follows a look that finds roles, or roles were found before s.
Supplied(s, i, got) ==
    \/ (\A j \in 1 .. i - 1 : s[j].op # "find") /\ Sure(got)
    \/ \E k \in 1 .. i - 1 : SureFind(s[k]) /\ \A j \in k + 1 .. i - 1 : s[j].op # "find"

\* Call i of s takes roles of a user who is given those found right after, or was right
\* before.
Swaps(s, i, got) ==
    /\ Supplied(s, i, got)
    /\ \E w \in Users :
          \/ /\ s[i].op = "delete" /\ s[i].rows = LinksOf(w, Roles)
             /\ i + 1 \in 1 .. Len(s) /\ s[i + 1].op = "append" /\ s[i + 1].row = w
          \/ /\ s[i].op = "trim" /\ s[i].row = w /\ s[i].rows = Roles
             /\ i > 1 => s[i - 1].op = "append" /\ s[i - 1].row = w

\* What x sees of the rows D, or has seen.
Sighted(x, D) == Sees(DOMAIN x.put, x.del, D) \cup x.gone

Kept(x, D) ==
    /\ \A i \in 1 .. Len(x.todo) :
          \/ Gentle(x.todo[i])
          \/ /\ x.name \in Swappers /\ Swaps(x.todo, i, DOMAIN x.got)
             /\ \E j \in i + 1 .. Len(x.todo) : x.todo[j].op # "check"
    /\ x.name \in Swappers => \A i \in 1 .. Len(x.todo) : x.todo[i].op # "skip"
    /\ x.del \cap Bonds # {} => x.name \in Swappers
    /\ \A w \in Users :
          x.del \cap LinksOf(w, Roles) # {} =>
             \/ x.todo[1].op = "append" /\ x.todo[1].row = w /\ Sure(DOMAIN x.got)
             \/ \E o \in Roles : {w, o} \in Sighted(x, D)
    /\ x.todo[1].op = "trim" /\ ~Gentle(x.todo[1]) =>
          \E o \in DOMAIN x.got : {x.todo[1].row, o} \in Sighted(x, D)

AllKept == \A r \in Requests : Running(r) /\ req[r].name \notin Strippers => Kept(req[r], DOMAIN db)

LEMMA KeptLater ==
    ASSUME NEW x, NEW z, NEW D, NEW E, Kept(x, D), D \cup x.gone \subseteq E \cup z.gone,
           x.gone \subseteq z.gone, z.todo = x.todo, z.name = x.name, z.got = x.got,
           z.put = x.put, z.del = x.del
    PROVE  Kept(z, E)
<1>1. Sighted(x, D) \subseteq Sighted(z, E)
  BY DEF Sighted, Sees
<1>2. QED
  BY <1>1 DEF Kept

LEMMA BondsOf ==
    ASSUME NEW w \in Users
    PROVE  LinksOf(w, Roles) \subseteq Bonds
  BY DEF LinksOf, Bonds, Pairs

\* A link is to one user and to one role.
LEMMA OneBond ==
    ASSUME NEW w \in Users, NEW o, NEW v \in Users, NEW p \in Roles, {w, o} = {v, p}
    PROVE  w = v /\ o = p
  BY UsersApart

\* The first call, where it takes roles.
LEMMA SwapsHead ==
    ASSUME NEW s, NEW got, Swaps(s, 1, got)
    PROVE  /\ Sure(got)
           /\ \E w \in Users :
                 \/ /\ s[1].op = "delete" /\ s[1].rows = LinksOf(w, Roles)
                    /\ 2 \in 1 .. Len(s) /\ s[2].op = "append" /\ s[2].row = w
                 \/ s[1].op = "trim" /\ s[1].row = w /\ s[1].rows = Roles
<1>1. Sure(got)
  BY DEF Swaps, Supplied
<1>2. QED
  BY <1>1 DEF Swaps

LEMMA SwapsOn ==
    ASSUME NEW s, NEW t, NEW d, Drops(s, t, d), \A i \in 2 .. d : s[i].op = "begin",
           NEW got, NEW found,
           SureFind(s[1]) => Sure(found), s[1].op # "find" => found = got,
           NEW j \in 1 .. Len(t), Swaps(s, j + d, got)
    PROVE  /\ Swaps(t, j, found)
           /\ j = 1 /\ t[1].op = "trim" => d = 1 /\ s[1].op = "append" /\ s[1].row = t[1].row
<1>1. d \in 1 .. 3 /\ Len(s) \in Nat /\ Len(t) \in Nat /\ Len(t) = Len(s) - d
  BY DEF Drops
<1>2. \A i \in 1 .. Len(t) : t[i] = s[i + d]
  BY DEF Drops
<1>3. Supplied(t, j, found)
  <2>1. CASE (\A i \in 1 .. (j + d) - 1 : s[i].op # "find") /\ Sure(got)
    <3>1. 1 \in 1 .. (j + d) - 1
      BY <1>1
    <3>2. Sure(found)
      BY <2>1, <3>1
    <3>3. ASSUME NEW i \in 1 .. j - 1 PROVE t[i].op # "find"
      <4>1. i \in 1 .. Len(t) /\ i + d \in 1 .. (j + d) - 1
        BY <1>1
      <4>2. t[i] = s[i + d]
        BY <1>2, <4>1
      <4>3. QED
        BY <2>1, <4>1, <4>2
    <3>4. QED
      BY <3>2, <3>3 DEF Supplied
  <2>2. ASSUME NEW k \in 1 .. (j + d) - 1, SureFind(s[k]),
               \A i \in k + 1 .. (j + d) - 1 : s[i].op # "find"
        PROVE  Supplied(t, j, found)
    <3>1. CASE k > d
      <4>1. k - d \in 1 .. j - 1 /\ k - d \in 1 .. Len(t) /\ (k - d) + d = k
        BY <1>1, <3>1
      <4>2. SureFind(t[k - d])
        BY <1>2, <2>2, <4>1
      <4>3. ASSUME NEW i \in (k - d) + 1 .. j - 1 PROVE t[i].op # "find"
        <5>1. i \in 1 .. Len(t) /\ i + d \in k + 1 .. (j + d) - 1
          BY <1>1, <4>1
        <5>2. t[i] = s[i + d]
          BY <1>2, <5>1
        <5>3. QED
          BY <2>2, <5>1, <5>2
      <4>4. QED
        BY <4>1, <4>2, <4>3 DEF Supplied
    <3>2. CASE k <= d
      <4>1. s[k].op = "find"
        BY <2>2 DEF SureFind
      <4>2. k = 1
        <5>1. k \notin 2 .. d
          BY <4>1
        <5>2. QED
          BY <1>1, <3>2, <5>1
      <4>3. Sure(found)
        BY <2>2, <4>2
      <4>4. ASSUME NEW i \in 1 .. j - 1 PROVE t[i].op # "find"
        <5>1. i \in 1 .. Len(t) /\ i + d \in k + 1 .. (j + d) - 1
          BY <1>1, <4>2
        <5>2. t[i] = s[i + d]
          BY <1>2, <5>1
        <5>3. QED
          BY <2>2, <5>1, <5>2
      <4>5. QED
        BY <4>3, <4>4 DEF Supplied
    <3>3. QED
      BY <1>1, <3>1, <3>2
  <2>3. QED
    BY <2>1, <2>2 DEF Swaps, Supplied
<1>4. t[j] = s[j + d]
  BY <1>2
<1>5. PICK w \in Users :
         \/ /\ s[j + d].op = "delete" /\ s[j + d].rows = LinksOf(w, Roles)
            /\ (j + d) + 1 \in 1 .. Len(s) /\ s[(j + d) + 1].op = "append" /\ s[(j + d) + 1].row = w
         \/ /\ s[j + d].op = "trim" /\ s[j + d].row = w /\ s[j + d].rows = Roles
            /\ j + d > 1 => s[(j + d) - 1].op = "append" /\ s[(j + d) - 1].row = w
  BY DEF Swaps
<1>6. CASE s[j + d].op = "delete"
  <2>1. j + 1 \in 1 .. Len(t) /\ (j + 1) + d = (j + d) + 1
    BY <1>1, <1>5, <1>6
  <2>2. t[j + 1] = s[(j + d) + 1]
    BY <1>2, <2>1
  <2>3. Swaps(t, j, found)
    BY <1>3, <1>4, <1>5, <1>6, <2>1, <2>2 DEF Swaps
  <2>4. QED
    BY <1>4, <1>6, <2>3
<1>7. CASE s[j + d].op = "trim"
  <2>1. j + d > 1
    BY <1>1
  <2>2. s[(j + d) - 1].op = "append" /\ s[(j + d) - 1].row = w
    BY <1>5, <1>7, <2>1
  <2>3. ASSUME j > 1 PROVE t[j - 1].op = "append" /\ t[j - 1].row = w
    <3>1. j - 1 \in 1 .. Len(t) /\ (j - 1) + d = (j + d) - 1
      BY <1>1, <2>3
    <3>2. t[j - 1] = s[(j + d) - 1]
      BY <1>2, <3>1
    <3>3. QED
      BY <2>2, <3>2
  <2>4. Swaps(t, j, found)
    <3>1. t[j].op = "trim" /\ t[j].row = w /\ t[j].rows = Roles
      BY <1>4, <1>5, <1>7
    <3>2. QED
      BY <1>3, <2>3, <3>1 DEF Swaps
  <2>5. ASSUME j = 1 PROVE d = 1 /\ s[1].op = "append" /\ s[1].row = w
    <3>1. (j + d) - 1 = d
      BY <1>1, <2>5
    <3>2. s[d].op = "append" /\ s[d].row = w
      BY <2>2, <3>1
    <3>3. d \notin 2 .. d
      BY <3>2
    <3>4. d = 1
      BY <1>1, <3>3
    <3>5. QED
      BY <3>2, <3>4
  <2>6. QED
    BY <1>4, <1>5, <1>7, <2>4, <2>5
<1>8. QED
  BY <1>5, <1>6, <1>7

LEMMA Later ==
    ASSUME NEW n \in Nat, NEW m \in Nat, NEW d \in 1 .. 3, m = n - d,
           NEW j \in 1 .. m, NEW k \in (j + d) + 1 .. n
    PROVE  k - d \in j + 1 .. m /\ k - d \in 1 .. m /\ (k - d) + d = k
OBVIOUS

Before(t, d, j, k) == k - d \in j + 1 .. Len(t) /\ k - d \in 1 .. Len(t) /\ (k - d) + d = k

LEMMA Earlier ==
    ASSUME NEW s, NEW t, NEW d, Drops(s, t, d),
           NEW j \in 1 .. Len(t), NEW k \in (j + d) + 1 .. Len(s)
    PROVE  Before(t, d, j, k)
<1>1. d \in 1 .. 3 /\ Len(s) \in Nat /\ Len(t) \in Nat /\ Len(t) = Len(s) - d
  BY DEF Drops
<1>2. QED
  BY <1>1, Later DEF Before

LEMMA KeptOnward ==
    ASSUME InOrder, InOrder', NEW r \in Requests, Running(r), NEW D, Kept(req[r], D),
           NEW E, Onward(req[r], req'[r]), ~Ended(r),
           IF Real(req[r].todo[1]) THEN Found(r, req[r].todo[1], req'[r].got)
                                   ELSE req'[r].got = req[r].got,
           req'[r].del \cap Bonds # {} => req[r].del \cap Bonds # {} \/ req[r].name \in Swappers,
           \A w \in Users :
              req'[r].del \cap LinksOf(w, Roles) # {} =>
                 \/ req'[r].todo[1].op = "append" /\ req'[r].todo[1].row = w /\ Sure(DOMAIN req'[r].got)
                 \/ \E o \in Roles : {w, o} \in Sighted(req'[r], E),
           req[r].todo[1].op = "append" /\ Sure(DOMAIN req[r].got) =>
              \E o \in DOMAIN req[r].got : {req[r].todo[1].row, o} \in Sighted(req'[r], E)
    PROVE  Kept(req'[r], E)
<1> DEFINE x == req[r]
           y == req'[r]
           s == x.todo
           t == y.todo
<1>1. 1 \in 1 .. Len(s) /\ Len(s) \in Nat
  BY HeadFacts, TailIs
<1>2. 1 \in 1 .. Len(t) /\ Len(t) \in Nat
  <2>1. t # <<>> /\ Calls(t)
    BY DEF InOrder, Going, Ended
  <2>2. QED
    BY <2>1, TailIs
<1>3. y.name = x.name /\ y.gone = x.gone
  BY DEF Onward
<1>4. PICK d \in 1 .. 3 :
         /\ Len(t) = Len(s) - d
         /\ \A j \in 1 .. Len(t) : t[j] = s[j + d]
         /\ \A i \in 2 .. d : s[i].op = "begin" \/ (i = 2 /\ s[1].op = "skip")
  BY DEF Onward
<1>5. Drops(s, t, d)
  BY <1>1, <1>2, <1>4 DEF Drops
<1>6. \A i \in 1 .. Len(s) :
         \/ Gentle(s[i])
         \/ /\ x.name \in Swappers /\ Swaps(s, i, DOMAIN x.got)
            /\ \E j \in i + 1 .. Len(s) : s[j].op # "check"
  BY DEF Kept
<1>7. \A j \in 1 .. Len(t) : j + d \in 1 .. Len(s) /\ t[j] = s[j + d]
  BY <1>1, <1>2, <1>4
<1>8. x.name \in Swappers => \A i \in 1 .. Len(s) : s[i].op # "skip"
  BY DEF Kept
<1>9. (SureFind(s[1]) => Sure(DOMAIN y.got)) /\ (s[1].op # "find" => y.got = x.got)
  <2>1. ASSUME SureFind(s[1]) PROVE Sure(DOMAIN y.got)
    <3>1. Real(s[1])
      BY <2>1 DEF SureFind, Real
    <3>2. Found(r, s[1], y.got)
      BY <3>1
    <3>3. QED
      BY <2>1, <3>2 DEF Found, SureFind, Sure
  <2>2. ASSUME s[1].op # "find" PROVE y.got = x.got
    BY <2>2 DEF Real
  <2>3. QED
    BY <2>1, <2>2
<1>10. ASSUME NEW j \in 1 .. Len(t), ~Gentle(t[j])
       PROVE  /\ y.name \in Swappers /\ Swaps(t, j, DOMAIN y.got)
              /\ \E k \in j + 1 .. Len(t) : t[k].op # "check"
              /\ j = 1 /\ t[1].op = "trim" => s[1].op = "append" /\ s[1].row = t[1].row
  <2>1. j + d \in 1 .. Len(s) /\ t[j] = s[j + d]
    BY <1>7
  <2>2. x.name \in Swappers /\ Swaps(s, j + d, DOMAIN x.got)
    BY <1>6, <1>10, <2>1
  <2>3. PICK k \in (j + d) + 1 .. Len(s) : s[k].op # "check"
    BY <1>6, <1>10, <2>1
  <2>4. \A i \in 2 .. d : s[i].op = "begin"
    BY <1>1, <1>4, <1>8, <2>2
  <2>5. Swaps(t, j, DOMAIN y.got)
        /\ (j = 1 /\ t[1].op = "trim" => d = 1 /\ s[1].op = "append" /\ s[1].row = t[1].row)
    <3> DEFINE got == DOMAIN x.got
               found == DOMAIN y.got
    <3>1. (SureFind(s[1]) => Sure(found)) /\ (s[1].op # "find" => found = got)
      BY <1>9
    <3>2. Swaps(s, j + d, got)
      BY <2>2
    <3> HIDE DEF got, found, s, t
    <3>3. Swaps(t, j, found)
          /\ (j = 1 /\ t[1].op = "trim" => d = 1 /\ s[1].op = "append" /\ s[1].row = t[1].row)
      BY <1>5, <2>4, <3>1, <3>2, SwapsOn
    <3>4. QED
      BY <3>3 DEF found
  <2>6. k - d \in j + 1 .. Len(t) /\ k - d \in 1 .. Len(t) /\ (k - d) + d = k
    <3> HIDE DEF s, t
    <3>1. Drops(s, t, d)
      BY <1>5
    <3>2. Before(t, d, j, k)
      BY <3>1, Earlier
    <3>3. QED
      BY <3>2, Zenon DEF Before
  <2>7. t[k - d] = s[k]
    BY <1>7, <2>6
  <2>8. y.name \in Swappers
    BY <1>3, <2>2
  <2>9. t[k - d].op # "check"
    BY <2>3, <2>7
  <2>10. \E l \in j + 1 .. Len(t) : t[l].op # "check"
    BY <2>6, <2>9, Zenon
  <2>11. QED
    BY <2>5, <2>8, <2>10
<1>11. y.name \in Swappers => \A j \in 1 .. Len(t) : t[j].op # "skip"
  BY <1>3, <1>7, <1>8
<1>12. y.del \cap Bonds # {} => y.name \in Swappers
  BY <1>3 DEF Kept
<1>13. ASSUME t[1].op = "trim", ~Gentle(t[1])
       PROVE  \E o \in DOMAIN y.got : {t[1].row, o} \in Sighted(y, E)
  <2>1. s[1].op = "append" /\ s[1].row = t[1].row /\ Swaps(t, 1, DOMAIN y.got)
    BY <1>2, <1>10, <1>13
  <2>2. y.got = x.got
    BY <1>9, <2>1
  <2>3. Sure(DOMAIN x.got)
    BY <2>1, <2>2, SwapsHead
  <2>4. QED
    BY <2>1, <2>2, <2>3
<1> HIDE DEF t, s
<1>14. \A w \in Users :
          y.del \cap LinksOf(w, Roles) # {} =>
             \/ t[1].op = "append" /\ t[1].row = w /\ Sure(DOMAIN y.got)
             \/ \E o \in Roles : {w, o} \in Sighted(y, E)
  BY DEF t
<1>15. QED
  BY <1>10, <1>11, <1>12, <1>13, <1>14 DEF Kept, t

\* What the next call deletes.
LEMMA OutKeeps ==
    ASSUME InOrder, NEW r \in Requests, Running(r), NEW D, Kept(req[r], D),
           NEW new, NEW out, Makes(r, new, out)
    PROVE  \/ out \cap Bonds = {}
           \/ /\ req[r].name \in Swappers /\ out \subseteq Seen(r) /\ Sure(DOMAIN req[r].got)
              /\ new = {} /\ ~Gentle(req[r].todo[1])
              /\ \E j \in 2 .. Len(req[r].todo) : req[r].todo[j].op # "check"
              /\ \E w \in Users :
                    \/ /\ req[r].todo[1].op = "delete" /\ out \subseteq LinksOf(w, Roles)
                       /\ 2 \in 1 .. Len(req[r].todo)
                       /\ req[r].todo[2].op = "append" /\ req[r].todo[2].row = w
                    \/ /\ req[r].todo[1].op = "trim" /\ req[r].todo[1].row = w
                       /\ out \subseteq LinksOf(w, Roles \ DOMAIN req[r].got)
<1> DEFINE x == req[r]
           c == x.todo[1]
           got == DOMAIN x.got
<1>1. Head(x.todo) = c /\ 1 \in 1 .. Len(x.todo)
  BY HeadFacts, TailIs
<1>2. CASE Gentle(c)
  <2>1. CASE c.op = "delete"
    BY <1>1, <1>2, <2>1 DEF Gentle, Makes
  <2>2. CASE c.op = "trim"
    <3>1. out \subseteq LinksOf(c.row, c.rows \ got)
      BY <1>1, <2>2 DEF Makes
    <3>2. out \subseteq LinksOf(c.row, c.rows)
      BY <3>1 DEF LinksOf
    <3>3. QED
      BY <1>2, <2>2, <3>2 DEF Gentle
  <2>3. CASE c.op \notin {"delete", "trim"}
    <3>1. out = {}
      BY <1>1, <1>2, <2>3 DEF Makes, Gentle
    <3>2. QED
      BY <3>1
  <2>4. QED
    BY <2>1, <2>2, <2>3
<1>3. CASE ~Gentle(c)
  <2>1. x.name \in Swappers /\ Swaps(x.todo, 1, got) /\ \E j \in 1 + 1 .. Len(x.todo) : x.todo[j].op # "check"
    BY <1>1, <1>3 DEF Kept
  <2> DEFINE s == x.todo
  <2>2. /\ Sure(got)
        /\ \E w \in Users :
              \/ /\ s[1].op = "delete" /\ s[1].rows = LinksOf(w, Roles)
                 /\ 2 \in 1 .. Len(s) /\ s[2].op = "append" /\ s[2].row = w
              \/ s[1].op = "trim" /\ s[1].row = w /\ s[1].rows = Roles
    <3>1. Swaps(s, 1, got)
      BY <2>1
    <3> HIDE DEF s, got
    <3>2. QED
      BY <3>1, SwapsHead
  <2>3. PICK w \in Users :
           \/ /\ s[1].op = "delete" /\ s[1].rows = LinksOf(w, Roles)
              /\ 2 \in 1 .. Len(s) /\ s[2].op = "append" /\ s[2].row = w
           \/ s[1].op = "trim" /\ s[1].row = w /\ s[1].rows = Roles
    BY <2>2
  <2>4. \E j \in 2 .. Len(x.todo) : x.todo[j].op # "check"
    BY <2>1
  <2>5. CASE s[1].op = "delete"
    <3>1. new = {} /\ out = s[1].rows \cap Seen(r)
      BY <1>1, <2>5 DEF Makes
    <3>2. QED
      BY <1>3, <2>1, <2>2, <2>3, <2>4, <2>5, <3>1
  <2>6. CASE s[1].op = "trim"
    <3>1. new = {} /\ out = LinksOf(s[1].row, s[1].rows \ got) \cap Seen(r)
      BY <1>1, <2>6 DEF Makes
    <3>2. s[1].row = w /\ s[1].rows = Roles
      BY <2>3, <2>6
    <3>3. out \subseteq LinksOf(w, Roles \ got) /\ out \subseteq Seen(r)
      BY <3>1, <3>2
    <3>4. QED
      BY <1>3, <2>1, <2>2, <2>4, <2>6, <3>1, <3>2, <3>3
  <2>7. QED
    BY <2>3, <2>5, <2>6
<1>4. QED
  BY <1>2, <1>3

\* Roles are only taken in a transaction, which goes on.
LEMMA KeptOpen ==
    ASSUME InOrder, NEW r \in Requests, Running(r), req[r].name \in Swappers,
           req[r].todo[1].op \in Changes, NEW j \in 2 .. Len(req[r].todo), req[r].todo[j].op # "check"
    PROVE  req[r].open
<1>1. SUFFICES ASSUME ~req[r].open PROVE FALSE
  OBVIOUS
<1>2. req[r].open = FALSE
  BY <1>1, HeadFacts
<1>3. req[r].name # Untied
  BY DEF Swappers, Untied
<1> DEFINE s == req[r].todo
           name == req[r].name
           open == req[r].open
           wrote == req[r].wrote
<1>4. /\ Calls(s) /\ s # <<>> /\ Tidy(s, name, open, wrote) /\ open \in BOOLEAN /\ wrote \in BOOLEAN
  BY HeadFacts
<1>5. s[1].op \in Changes /\ open = FALSE /\ name # Untied
  BY <1>2, <1>3
<1> HIDE DEF s, name, open, wrote
<1>6. \A i \in 2 .. Len(s) : s[i].op = "check"
  BY <1>4, <1>5, AfterPublish
<1>7. QED
  BY <1>6 DEF s

\* What r has still seen when its next call has written in the transaction.
LEMMA HeldSights ==
    ASSUME NEW r, NEW new, NEW out, Held(r, new, out), ~Ended(r)
    PROVE  /\ Sighted(req'[r], DOMAIN db') = (new \cup (Seen(r) \ out)) \cup req[r].gone
           /\ Sighted(req[r], DOMAIN db) = Seen(r) \cup req[r].gone
           /\ req'[r].del = req[r].del \cup (out \cap DOMAIN db)
<1>1. /\ req'[r].gone = req[r].gone /\ PutRows(r)' = new \cup (PutRows(r) \ out)
      /\ DelRows(r)' = DelRows(r) \cup (out \cap DOMAIN db) /\ db' = db
  BY DEF Held, Onward
<1>2. /\ DOMAIN req'[r].put = new \cup (DOMAIN req[r].put \ out)
      /\ req'[r].del = req[r].del \cup (out \cap DOMAIN db)
  BY <1>1 DEF PutRows, DelRows
<1>3. Seen(r) = Sees(DOMAIN req[r].put, req[r].del, DOMAIN db)
  BY SeenIs DEF PutRows, DelRows
<1>4. Sees(DOMAIN req'[r].put, req'[r].del, DOMAIN db') = new \cup (Seen(r) \ out)
  BY <1>1, <1>2, <1>3 DEF Sees
<1>5. QED
  BY <1>1, <1>2, <1>3, <1>4 DEF Sighted

\* Those whose roles were taken have others in sight, whatever the next call is.
LEMMA HeldKeeps ==
    ASSUME InOrder, NEW r \in Requests, Running(r), Kept(req[r], DOMAIN db),
           NEW new, NEW out, Makes(r, new, out), Held(r, new, out), ~Ended(r),
           NEW w \in Users, req'[r].del \cap LinksOf(w, Roles) # {}
    PROVE  \/ req'[r].todo[1].op = "append" /\ req'[r].todo[1].row = w /\ Sure(DOMAIN req'[r].got)
           \/ \E o \in Roles : {w, o} \in Sighted(req'[r], DOMAIN db')
<1> DEFINE x == req[r]
           y == req'[r]
           c == x.todo[1]
           got == DOMAIN x.got
           gone == x.gone
           seen == Seen(r)
           now == (new \cup (seen \ out)) \cup gone
<1>1. /\ Sighted(y, DOMAIN db') = now /\ Sighted(x, DOMAIN db) = seen \cup gone
      /\ y.del = x.del \cup (out \cap DOMAIN db)
  BY HeldSights
<1>2. Head(x.todo) = c
  BY HeadFacts
<1>3. LinksOf(w, Roles) \subseteq Bonds /\ \A o \in Roles : {w, o} \in LinksOf(w, Roles)
  BY BondsOf DEF LinksOf
<1>4. x.del \cap LinksOf(w, Roles) # {} =>
         \/ c.op = "append" /\ c.row = w /\ Sure(got)
         \/ \E o \in Roles : {w, o} \in seen \cup gone
  BY <1>1 DEF Kept
<1>5. CASE out \cap Bonds = {}
  <2>1. x.del \cap LinksOf(w, Roles) # {}
    BY <1>1, <1>3, <1>5
  <2>2. CASE c.op = "append" /\ c.row = w /\ Sure(got)
    <3>1. out = {} /\ new = (got \cup LinksOf(w, got)) \ seen
      BY <1>2, <2>2 DEF Makes
    <3>2. PICK o \in got : o \in Roles
      BY <2>2 DEF Sure
    <3>3. {w, o} \in LinksOf(w, got)
      BY DEF LinksOf
    <3>4. {w, o} \in now
      BY <3>1, <3>3
    <3>5. QED
      BY <1>1, <3>2, <3>4
  <2>3. ASSUME NEW o \in Roles, {w, o} \in seen \cup gone
        PROVE  {w, o} \in now
    <3>1. {w, o} \notin out
      BY <1>3, <1>5
    <3>2. QED
      BY <2>3, <3>1
  <2>4. QED
    BY <1>1, <1>4, <2>1, <2>2, <2>3
<1>6. CASE out \cap Bonds # {}
  <2>1. /\ Sure(got) /\ c.op # "append"
        /\ \E v \in Users :
              \/ /\ c.op = "delete" /\ out \subseteq LinksOf(v, Roles)
                 /\ 2 \in 1 .. Len(x.todo) /\ x.todo[2].op = "append" /\ x.todo[2].row = v
              \/ c.op = "trim" /\ c.row = v /\ out \subseteq LinksOf(v, Roles \ got) /\ ~Gentle(c)
    <3>1. /\ Sure(got) /\ ~Gentle(c)
          /\ \E v \in Users :
                \/ /\ c.op = "delete" /\ out \subseteq LinksOf(v, Roles)
                   /\ 2 \in 1 .. Len(x.todo) /\ x.todo[2].op = "append" /\ x.todo[2].row = v
                \/ c.op = "trim" /\ c.row = v /\ out \subseteq LinksOf(v, Roles \ got)
      <4>1. /\ Sure(DOMAIN req[r].got) /\ ~Gentle(req[r].todo[1])
            /\ \E v \in Users :
                  \/ /\ req[r].todo[1].op = "delete" /\ out \subseteq LinksOf(v, Roles)
                     /\ 2 \in 1 .. Len(req[r].todo)
                     /\ req[r].todo[2].op = "append" /\ req[r].todo[2].row = v
                  \/ /\ req[r].todo[1].op = "trim" /\ req[r].todo[1].row = v
                     /\ out \subseteq LinksOf(v, Roles \ DOMAIN req[r].got)
        BY <1>6, OutKeeps, Zenon
      <4>2. QED
        BY <4>1
    <3> HIDE DEF c, got
    <3>2. c.op # "append"
      BY <3>1
    <3>3. QED
      BY <3>1, <3>2
  <2>2. PICK v \in Users :
           \/ /\ c.op = "delete" /\ out \subseteq LinksOf(v, Roles)
              /\ 2 \in 1 .. Len(x.todo) /\ x.todo[2].op = "append" /\ x.todo[2].row = v
           \/ c.op = "trim" /\ c.row = v /\ out \subseteq LinksOf(v, Roles \ got) /\ ~Gentle(c)
    BY <2>1
  <2>3. ASSUME w # v
        PROVE  \E o \in Roles : {w, o} \in now
    <3>1. \A o \in Roles : {w, o} \notin out
      <4>1. out \subseteq LinksOf(v, Roles)
        BY <2>2 DEF LinksOf
      <4>2. ASSUME NEW o \in Roles, {w, o} \in out PROVE FALSE
        <5>1. PICK p \in Roles : {w, o} = {v, p}
          BY <4>1, <4>2 DEF LinksOf
        <5>2. w = v
          BY <5>1, OneBond
        <5>3. QED
          BY <2>3, <5>2
      <4>3. QED
        BY <4>2
    <3>2. out \cap LinksOf(w, Roles) = {}
      BY <3>1 DEF LinksOf
    <3>3. \E o \in Roles : {w, o} \in seen \cup gone
      BY <1>1, <1>4, <2>1, <3>2
    <3>4. QED
      BY <3>1, <3>3
  <2>4. CASE w = v /\ c.op = "delete"
    <3>1. y.got = x.got /\ Onward(x, y)
      BY DEF Held
    <3>2. PICK d \in 1 .. 3 :
             /\ Len(y.todo) = Len(x.todo) - d
             /\ \A j \in 1 .. Len(y.todo) : y.todo[j] = x.todo[j + d]
             /\ \A i \in 2 .. d : x.todo[i].op = "begin" \/ (i = 2 /\ x.todo[1].op = "skip")
      BY <3>1 DEF Onward
    <3>3. d = 1
      <4>1. 2 \notin 2 .. d
        BY <2>2, <2>4, <3>2
      <4>2. QED
        BY <4>1
    <3>4. 1 \in 1 .. Len(y.todo)
      <4>1. Len(x.todo) \in Nat /\ 2 \in 1 .. Len(x.todo)
        BY <2>2, <2>4, HeadFacts, TailIs
      <4>2. QED
        BY <3>2, <3>3, <4>1
    <3>5. y.todo[1] = x.todo[1 + 1]
      BY <3>2, <3>3, <3>4
    <3>6. y.todo[1].op = "append" /\ y.todo[1].row = w
      BY <2>2, <2>4, <3>5
    <3>7. QED
      BY <2>1, <3>1, <3>6
  <2>5. CASE w = v /\ c.op = "trim"
    <3>1. \E o \in got : {w, o} \in seen \cup gone
      BY <1>1, <2>2, <2>5 DEF Kept
    <3>2. PICK o \in got : {w, o} \in seen \cup gone
      BY <3>1
    <3>3. o \in Roles
      BY <2>1 DEF Sure
    <3>4. {w, o} \notin out
      <4>1. SUFFICES ASSUME {w, o} \in out PROVE FALSE
        OBVIOUS
      <4>2. PICK p \in Roles \ got : {w, o} = {w, p}
        BY <2>2, <2>5, <4>1 DEF LinksOf
      <4>3. o = p
        BY <3>3, <4>2, OneBond
      <4>4. QED
        BY <3>2, <4>2, <4>3
    <3>5. {w, o} \in now
      BY <3>2, <3>4
    <3>6. QED
      BY <1>1, <3>3, <3>5
  <2>6. QED
    BY <1>1, <2>2, <2>3, <2>4, <2>5
<1>7. QED
  BY <1>5, <1>6

LEMMA StepIsKept ==
    ASSUME InOrder, InOrder', IInv, AllKept, NEW r \in Requests, Running(r), Changed(r)
    PROVE  AllKept'
<1> DEFINE x == req[r]
           y == req'[r]
           D == DOMAIN db
           E == DOMAIN db'
<1>1. Head(x.todo) = x.todo[1]
  BY HeadFacts
<1>2. ASSUME NEW q \in Requests \ {r}, req'[q] = req[q], E = D, Running(q)', req'[q].name \notin Strippers
      PROVE  Kept(req'[q], E)
  BY <1>2 DEF AllKept, Running
<1>3. ASSUME ~Ended(r), Onward(x, y), y.name \notin Strippers PROVE Kept(x, D)
  BY <1>3 DEF AllKept, Onward
<1>4. CASE Quiet(r)
  <2>1. E = D /\ \A q \in Requests \ {r} : req'[q] = req[q]
    BY <1>4 DEF Quiet
  <2>2. ASSUME ~Ended(r), y.name \notin Strippers PROVE Kept(y, E)
    <3>1. /\ Onward(x, y) /\ DelRows(r)' = DelRows(r) /\ PutRows(r)' = PutRows(r)
          /\ IF Real(x.todo[1]) THEN Found(r, x.todo[1], y.got) ELSE y.got = x.got
          /\ x.todo[1].op \notin Changes
      BY <1>1, <1>4, <2>2 DEF Quiet
    <3>2. Kept(x, D)
      BY <1>3, <2>2, <3>1
    <3>3. y.del = x.del /\ x.todo[1].op # "append" /\ Sighted(y, E) = Sighted(x, D)
      BY <2>1, <3>1 DEF DelRows, PutRows, Changes, Sighted, Onward
    <3>4. \A w \in Users : y.del \cap LinksOf(w, Roles) # {} => \E o \in Roles : {w, o} \in Sighted(y, E)
      BY <3>2, <3>3 DEF Kept
    <3> HIDE DEF D, E
    <3>5. QED
      BY <2>2, <3>1, <3>2, <3>3, <3>4, KeptOnward
  <2>3. QED
    BY <1>2, <2>1, <2>2 DEF AllKept, Running, Ended
<1>5. ASSUME NEW new, NEW out, Makes(r, new, out), Held(r, new, out)
      PROVE  AllKept'
  <2>1. E = D /\ \A q \in Requests \ {r} : req'[q] = req[q]
    BY <1>5 DEF Held
  <2>2. ASSUME ~Ended(r), y.name \notin Strippers PROVE Kept(y, E)
    <3>1. Onward(x, y) /\ y.got = x.got /\ x.todo[1].op \in Changes
      BY <1>1, <1>5, <2>2 DEF Held
    <3>2. Kept(x, D)
      BY <1>3, <2>2, <3>1
    <3>3. ~Real(x.todo[1])
      BY <3>1 DEF Real, Changes
    <3>4. /\ Sighted(y, E) = (new \cup (Seen(r) \ out)) \cup x.gone
          /\ y.del = x.del \cup (out \cap D)
      BY <1>5, <2>2, HeldSights
    <3>5. y.del \cap Bonds # {} => x.del \cap Bonds # {} \/ x.name \in Swappers
      <4>1. out \cap Bonds = {} \/ x.name \in Swappers
        BY <1>5, <3>2, OutKeeps
      <4>2. QED
        BY <3>4, <4>1
    <3>6. \A w \in Users :
             y.del \cap LinksOf(w, Roles) # {} =>
                \/ y.todo[1].op = "append" /\ y.todo[1].row = w /\ Sure(DOMAIN y.got)
                \/ \E o \in Roles : {w, o} \in Sighted(y, E)
      BY <1>5, <2>2, <3>2, HeldKeeps
    <3>7. ASSUME x.todo[1].op = "append", Sure(DOMAIN x.got)
          PROVE  \E o \in DOMAIN x.got : {x.todo[1].row, o} \in Sighted(y, E)
      <4>1. /\ out = {}
            /\ new = (DOMAIN x.got \cup LinksOf(x.todo[1].row, DOMAIN x.got)) \ Seen(r)
        BY <1>1, <1>5, <3>7 DEF Makes
      <4>2. PICK o \in DOMAIN x.got : TRUE
        BY <3>7 DEF Sure
      <4>3. {x.todo[1].row, o} \in LinksOf(x.todo[1].row, DOMAIN x.got)
        BY DEF LinksOf
      <4>4. QED
        BY <3>4, <4>1, <4>2, <4>3
    <3> HIDE DEF D, E
    <3>8. QED
      BY <2>2, <3>1, <3>2, <3>3, <3>5, <3>6, <3>7, KeptOnward
  <2>3. QED
    BY <1>2, <2>1, <2>2 DEF AllKept, Running, Ended
<1>6. ASSUME NEW new, NEW out, Makes(r, new, out), Published(r, new, out)
      PROVE  AllKept'
  <2>1. ASSUME NEW q \in Requests \ {r}, Running(q)', req'[q].name \notin Strippers
        PROVE  Kept(req'[q], E)
    <3> DEFINE p == req[q]
               z == [p EXCEPT !.gone = @ \cup (DOMAIN db \ DOMAIN db')]
    <3>0. req'[q] = IF Running(q) THEN z ELSE p
      BY <1>6 DEF Published
    <3>1. Running(q)
      BY <2>1, <3>0 DEF Running
    <3>2. req'[q] = z
      BY <3>0, <3>1
    <3>3. DOMAIN p = Fields
      BY DEF InOrder, Going
    <3>4. /\ z.todo = p.todo /\ z.name = p.name /\ z.got = p.got /\ z.del = p.del
          /\ z.put = p.put /\ z.gone = p.gone \cup (DOMAIN db \ DOMAIN db')
      BY <3>3 DEF Fields
    <3> HIDE DEF z
    <3>5. Kept(p, D)
      BY <2>1, <3>1, <3>2, <3>4 DEF AllKept
    <3>6. D \cup p.gone \subseteq E \cup z.gone /\ p.gone \subseteq z.gone
      BY <3>4
    <3> HIDE DEF D, E, p
    <3>7. QED
      BY <3>2, <3>4, <3>5, <3>6, KeptLater
  <2>2. ASSUME ~Ended(r), y.name \notin Strippers PROVE Kept(y, E)
    <3>1. /\ Onward(x, y) /\ y.got = x.got /\ DelRows(r)' = {} /\ PutRows(r)' = {}
          /\ x.todo[1].op \in Changes \cup {"commit"}
      BY <1>1, <1>6, <2>2 DEF Published
    <3>2. Kept(x, D)
      BY <1>3, <2>2, <3>1
    <3>3. ~Real(x.todo[1])
      BY <3>1 DEF Real, Changes
    <3>4. y.del = {} /\ Sighted(y, E) = E \cup y.gone
      BY <3>1 DEF DelRows, PutRows, Sighted, Sees
    <3>5. ASSUME x.todo[1].op = "append", Sure(DOMAIN x.got)
          PROVE  \E o \in DOMAIN x.got : {x.todo[1].row, o} \in Sighted(y, E)
      <4>0. ~x.open
        BY <1>1, <1>6, <3>5 DEF Published
      <4>1. PutRows(r) = {} /\ DelRows(r) = {}
        BY <4>0 DEF IInv, OnlyOpenWrites
      <4>2. Seen(r) = Sees({}, {}, D)
        BY <4>1, SeenIs
      <4>3. /\ out = {}
            /\ new = (DOMAIN x.got \cup LinksOf(x.todo[1].row, DOMAIN x.got)) \ Seen(r)
        BY <1>1, <1>6, <3>5 DEF Makes
      <4>4. E = Sees(new, {}, D)
        BY <1>6, <4>1, <4>3 DEF Published
      <4>5. LinksOf(x.todo[1].row, DOMAIN x.got) \subseteq E
        BY <4>2, <4>3, <4>4 DEF Sees
      <4>6. PICK o \in DOMAIN x.got : TRUE
        BY <3>5 DEF Sure
      <4>7. {x.todo[1].row, o} \in LinksOf(x.todo[1].row, DOMAIN x.got)
        BY DEF LinksOf
      <4>8. QED
        BY <3>4, <4>5, <4>6, <4>7
    <3> HIDE DEF D, E
    <3>6. y.del \cap Bonds = {} /\ \A w \in Users : y.del \cap LinksOf(w, Roles) = {}
      BY <3>4
    <3>7. QED
      BY <2>2, <3>1, <3>2, <3>3, <3>5, <3>6, KeptOnward
  <2>3. QED
    BY <2>1, <2>2 DEF AllKept, Running, Ended
<1>7. QED
  BY <1>4, <1>5, <1>6 DEF Changed

\* What it takes to leave a user without roles.
LEMMA StepStrips ==
    ASSUME InOrder, IInv, AllKept, NEW r \in Requests, Running(r), Changed(r),
           NEW u \in Users, NEW o \in Roles, {u, o} \in DOMAIN db,
           \A p \in Roles : {u, p} \notin DOMAIN db'
    PROVE  \/ req[r].name \in Strippers
           \/ req[r].name \in Swappers /\ LinksOf(u, Roles) \cap req[r].gone # {}
<1> DEFINE x == req[r]
           D == DOMAIN db
           k == x.todo[1]
<1>1. SUFFICES ASSUME x.name \notin Strippers
               PROVE  x.name \in Swappers /\ LinksOf(u, Roles) \cap x.gone # {}
  OBVIOUS
<1>2. Kept(x, D)
  BY <1>1 DEF AllKept
<1>3. PICK new, out : Makes(r, new, out) /\ Published(r, new, out)
  BY DEF Changed, Quiet, Held
<1>4. DOMAIN db' = Sees(new \cup (PutRows(r) \ out), DelRows(r) \cup (out \cap D), D)
  BY <1>3 DEF Published
<1>5. Head(x.todo) = k
  BY HeadFacts
<1>6. {u, o} \in LinksOf(u, Roles) /\ {u, o} \in Bonds
  BY BondsOf DEF LinksOf
<1>7. {u, o} \in DelRows(r) \cup out
  BY <1>4 DEF Sees
<1>8. CASE k.op = "commit"
  <2>1. new = {} /\ out = {}
    BY <1>3, <1>5, <1>8 DEF Published, Changes
  <2>2. DOMAIN db' = Seen(r)
    BY <1>4, <2>1, SeenIs DEF Sees
  <2>3. {u, o} \in x.del
    BY <1>7, <2>1 DEF DelRows
  <2>4. x.name \in Swappers
    BY <1>2, <1>6, <2>3 DEF Kept
  <2>5. PICK p \in Roles : {u, p} \in Sighted(x, D)
    BY <1>2, <1>6, <1>8, <2>3 DEF Kept
  <2>6. Sighted(x, D) = Seen(r) \cup x.gone
    BY SeenIs DEF Sighted, PutRows, DelRows
  <2>7. {u, p} \in x.gone /\ {u, p} \in LinksOf(u, Roles)
    BY <2>2, <2>5, <2>6 DEF LinksOf
  <2>8. QED
    BY <2>4, <2>7
<1>9. CASE k.op # "commit"
  <2>1. k.op \in Changes /\ ~x.open
    BY <1>3, <1>5, <1>9 DEF Published
  <2>2. DelRows(r) = {}
    BY <2>1 DEF IInv, OnlyOpenWrites
  <2>3. out \cap Bonds # {}
    BY <1>6, <1>7, <2>2
  <2>4. x.name \in Swappers /\ \E j \in 2 .. Len(x.todo) : x.todo[j].op # "check"
    BY <1>2, <1>3, <2>3, OutKeeps
  <2>5. x.open
    BY <2>1, <2>4, KeptOpen
  <2>6. QED
    BY <2>1, <2>5
<1>10. QED
  BY <1>8, <1>9

----------------------------------------------------------------------------
(* How the handlers exchange roles *)

AllGentle(s) == Calls(s) /\ \A i \in 1 .. Len(s) : Gentle(s[i])

Orderly(s) ==
    Calls(s) /\ \A i \in 1 .. Len(s) : s[i].op # "skip" /\ (Gentle(s[i]) \/ Swaps(s, i, {}))

LEMMA BegunKept ==
    ASSUME NEW x, NEW D, DOMAIN x = Fields, Calls(x.todo), x.todo # <<>>, Kept(x, D), x.del = {},
           Begun(x).todo # <<>>
    PROVE  Kept(Begun(x), D)
<1> DEFINE y == [x EXCEPT !.todo = Tail(@), !.open = TRUE]
           s == x.todo
           t == y.todo
<1>1. Begun(x) = IF Head(s).op = "begin" THEN y ELSE x
  BY DEF Begun
<1>2. t = Tail(s) /\ y.name = x.name /\ y.got = x.got /\ y.del = {}
  BY DEF Fields
<1> HIDE DEF y
<1>3. /\ Head(s) = s[1] /\ Len(s) \in Nat /\ Len(s) > 0 /\ Len(t) = Len(s) - 1
      /\ \A j \in 1 .. Len(t) : t[j] = s[j + 1] /\ j + 1 \in 1 .. Len(s)
  BY <1>2, TailIs
<1>4. CASE s[1].op = "begin"
  <2>1. 1 \in 1 .. Len(t)
    <3>1. Tail(s) # <<>>
      BY <1>1, <1>2, <1>3, <1>4
    <3>2. QED
      BY <1>2, <1>3, <3>1, TailIs
  <2>2. Drops(s, t, 1)
    BY <1>3 DEF Drops
  <2>3. ASSUME NEW j \in 1 .. Len(t), ~Gentle(t[j])
        PROVE  /\ y.name \in Swappers /\ Swaps(t, j, DOMAIN y.got)
               /\ \E k \in j + 1 .. Len(t) : t[k].op # "check"
               /\ j = 1 => t[1].op # "trim"
    <3>1. t[j] = s[j + 1] /\ j + 1 \in 1 .. Len(s)
      BY <1>3
    <3>2. /\ x.name \in Swappers /\ Swaps(s, j + 1, DOMAIN x.got)
          /\ \E k \in (j + 1) + 1 .. Len(s) : s[k].op # "check"
      BY <2>3, <3>1 DEF Kept
    <3>3. PICK k \in (j + 1) + 1 .. Len(s) : s[k].op # "check"
      BY <3>2
    <3>4. k - 1 \in j + 1 .. Len(t) /\ k - 1 \in 1 .. Len(t) /\ (k - 1) + 1 = k
      BY <1>3
    <3>5. t[k - 1] = s[k]
      BY <1>3, <3>4
    <3>6. /\ Swaps(t, j, DOMAIN x.got)
          /\ j = 1 /\ t[1].op = "trim" => s[1].op = "append"
      <4> DEFINE got == DOMAIN x.got
      <4>1. ~SureFind(s[1]) /\ \A i \in 2 .. 1 : s[i].op = "begin"
        BY <1>4 DEF SureFind
      <4>2. Swaps(s, j + 1, got)
        BY <3>2
      <4> HIDE DEF got, s, t
      <4>3. Swaps(t, j, got) /\ (j = 1 /\ t[1].op = "trim" => s[1].op = "append")
        BY <2>2, <4>1, <4>2, SwapsOn
      <4>4. QED
        BY <4>3 DEF got
    <3>7. QED
      BY <1>2, <1>4, <3>2, <3>3, <3>4, <3>5, <3>6
  <2>4. y.name \in Swappers => \A j \in 1 .. Len(t) : t[j].op # "skip"
    BY <1>2, <1>3 DEF Kept
  <2>5. t[1].op = "trim" => Gentle(t[1])
    BY <2>1, <2>3
  <2> HIDE DEF t
  <2>6. Kept(y, D)
    BY <1>2, <2>3, <2>4, <2>5 DEF Kept, t
  <2>7. QED
    BY <1>1, <1>3, <1>4, <2>6
<1>5. CASE s[1].op # "begin"
  BY <1>1, <1>3, <1>5
<1>6. QED
  BY <1>4, <1>5

LEMMA StartsKept ==
    ASSUME InOrder, AllKept, NEW r \in Requests, NEW first,
           \/ req' = [req EXCEPT ![r] = Begun(first)]
           \/ req' = [req EXCEPT ![r] = [Idle EXCEPT !.answer = "error"]],
           db' = db, DOMAIN first = Fields, first.del = {}, first.todo # <<>>, Calls(first.todo),
           \A i \in 1 .. Len(first.todo) :
              \/ Gentle(first.todo[i])
              \/ /\ first.name \in Swappers /\ Swaps(first.todo, i, DOMAIN first.got)
                 /\ \E j \in i + 1 .. Len(first.todo) : first.todo[j].op # "check",
           first.name \in Swappers => \A i \in 1 .. Len(first.todo) : first.todo[i].op # "skip",
           Gentle(first.todo[1])
    PROVE  AllKept'
<1> DEFINE refused == [Idle EXCEPT !.answer = "error"]
           D == DOMAIN db
<1>1. refused.todo = <<>>
  BY DEF Idle
<1>2. Kept(first, D)
  BY DEF Kept
<1>3. Begun(first).todo # <<>> => Kept(Begun(first), D)
  BY <1>2, BegunKept
<1>4. DOMAIN req = Requests
  BY DEF InOrder
<1> HIDE DEF refused
<1>5. req'[r] = Begun(first) \/ req'[r].todo = <<>>
  BY <1>1, <1>4 DEF refused
<1>6. \A q \in Requests \ {r} : req'[q] = req[q]
  BY <1>4
<1>7. QED
  BY <1>3, <1>5, <1>6 DEF AllKept, Running

LEMMA ServeGentle ==
    ASSUME InOrder, AllKept, NEW r \in Requests, NEW name, NEW may, NEW asked, NEW calls,
           Serve(r, name, may, asked, calls), AllGentle(calls), calls # <<>>, name \notin Swappers
    PROVE  AllKept'
<1> DEFINE first == [Idle EXCEPT !.name = name, !.todo = calls, !.asked = asked]
<1>1. /\ \/ req' = [req EXCEPT ![r] = Begun(first)]
         \/ req' = [req EXCEPT ![r] = [Idle EXCEPT !.answer = "error"]]
      /\ db' = db
  BY DEF Serve
<1>2. DOMAIN first = Fields /\ first.todo = calls /\ first.name = name /\ first.del = {}
  BY DEF Idle, Fields
<1> HIDE DEF first
<1>3. 1 \in 1 .. Len(calls)
  BY TailIs DEF AllGentle
<1>4. QED
  BY <1>1, <1>2, <1>3, StartsKept DEF AllGentle

LEMMA ServeWithGentle ==
    ASSUME InOrder, AllKept, NEW r \in Requests, NEW name, NEW got, NEW calls,
           ServeWith(r, name, got, calls), AllGentle(calls), calls # <<>>, name \notin Swappers
    PROVE  AllKept'
<1> DEFINE first == [Idle EXCEPT !.name = name, !.todo = calls, !.got = [x \in got |-> db[x]]]
<1>1. req' = [req EXCEPT ![r] = Begun(first)] /\ db' = db
  BY DEF ServeWith
<1>2. DOMAIN first = Fields /\ first.todo = calls /\ first.name = name /\ first.del = {}
  BY DEF Idle, Fields
<1> HIDE DEF first
<1>3. 1 \in 1 .. Len(calls)
  BY TailIs DEF AllGentle
<1>4. QED
  BY <1>1, <1>2, <1>3, StartsKept DEF AllGentle

\* As those do who exchange roles.
LEMMA ServeOrderly ==
    ASSUME InOrder, AllKept, NEW r \in Requests, NEW name \in Swappers, NEW may, NEW asked, NEW calls,
           Serve(r, name, may, asked, calls), Orderly(calls), calls # <<>>,
           \A i \in 1 .. Len(calls) :
              Gentle(calls[i]) \/ \E j \in i + 1 .. Len(calls) : calls[j].op # "check"
    PROVE  AllKept'
<1> DEFINE first == [Idle EXCEPT !.name = name, !.todo = calls, !.asked = asked]
<1>1. /\ \/ req' = [req EXCEPT ![r] = Begun(first)]
         \/ req' = [req EXCEPT ![r] = [Idle EXCEPT !.answer = "error"]]
      /\ db' = db
  BY DEF Serve
<1>2. /\ DOMAIN first = Fields /\ first.todo = calls /\ first.name = name /\ first.del = {}
      /\ DOMAIN first.got = {}
  BY NothingDomain DEF Idle, Fields
<1> HIDE DEF first
<1>3. 1 \in 1 .. Len(calls)
  BY TailIs DEF Orderly
<1>4. Gentle(calls[1])
  <2>1. ~Sure({})
    BY DEF Sure
  <2>2. ~Swaps(calls, 1, {})
    BY <2>1, SwapsHead
  <2>3. QED
    BY <1>3, <2>2 DEF Orderly
<1>5. \A i \in 1 .. Len(calls) :
         \/ Gentle(calls[i])
         \/ /\ first.name \in Swappers /\ Swaps(calls, i, DOMAIN first.got)
            /\ \E j \in i + 1 .. Len(calls) : calls[j].op # "check"
  BY <1>2 DEF Orderly
<1>6. QED
  BY <1>1, <1>2, <1>4, <1>5, StartsKept DEF Orderly

\* As those do who may leave a user without roles.
LEMMA ServeStripper ==
    ASSUME InOrder, AllKept, NEW r \in Requests, NEW name \in Strippers, NEW may, NEW asked,
           NEW calls, Serve(r, name, may, asked, calls)
    PROVE  AllKept'
<1> DEFINE first == [Idle EXCEPT !.name = name, !.todo = calls, !.asked = asked]
           second == [first EXCEPT !.todo = Tail(@), !.open = TRUE]
           refused == [Idle EXCEPT !.answer = "error"]
<1>1. req' = [req EXCEPT ![r] = Begun(first)] \/ req' = [req EXCEPT ![r] = refused]
  BY DEF Serve
<1>2. Begun(first) = first \/ Begun(first) = second
  BY DEF Begun
<1>3. first.name = name /\ second.name = name /\ refused.todo = <<>>
  BY DEF Idle
<1> HIDE DEF first, second, refused
<1>4. Begun(first).name \in Strippers
  BY <1>2, <1>3
<1>5. db' = db
  BY DEF Serve
<1>6. DOMAIN req = Requests
  BY DEF InOrder
<1>7. req'[r] = Begun(first) \/ req'[r].todo = <<>>
  BY <1>1, <1>3, <1>6
<1>8. \A q \in Requests \ {r} : req'[q] = req[q]
  BY <1>1, <1>6
<1>9. QED
  BY <1>4, <1>5, <1>7, <1>8 DEF AllKept, Running

LEMMA NoneGentle == AllGentle(<<>>) /\ Orderly(<<>>)
  BY NoCalls, LenOfNone DEF AllGentle, Orderly

LEMMA TupleGentle ==
    ASSUME NEW s, NEW k \in Nat \ {0}, Tuple(s, k), \A i \in 1 .. k : Gentle(s[i])
    PROVE  AllGentle(s) /\ s # <<>> /\ ((\A i \in 1 .. k : s[i].op # "skip") => Orderly(s))
<1>1. Calls(s) /\ Len(s) = k
  BY TupleIs
<1>2. s # <<>>
  BY TupleSome
<1>3. QED
  BY <1>1, <1>2 DEF AllGentle, Orderly

LEMMA GentleOn ==
    ASSUME NEW s, NEW t, AllGentle(s), AllGentle(t)
    PROVE  AllGentle(s \o t) /\ (t # <<>> => s \o t # <<>>)
<1> DEFINE st == s \o t
<1>1. Calls(s) /\ Calls(t)
  BY DEF AllGentle
<1>2. /\ Calls(st) /\ (t # <<>> => st # <<>>)
      /\ \A i \in 1 .. Len(st) :
            \/ i \in 1 .. Len(s) /\ st[i] = s[i]
            \/ \E j \in 1 .. Len(t) : i = Len(s) + j /\ st[i] = t[j]
  BY <1>1, Concatenation
<1> HIDE DEF st
<1>3. \A i \in 1 .. Len(st) : Gentle(st[i])
  BY <1>2, Zenon DEF AllGentle
<1>4. QED
  BY <1>2, <1>3 DEF AllGentle, st

LEMMA OrderlyOn ==
    ASSUME NEW s, NEW t, Orderly(s), Orderly(t)
    PROVE  Orderly(s \o t) /\ (t # <<>> => s \o t # <<>>)
<1> DEFINE st == s \o t
           n == Len(s)
<1>1. Calls(s) /\ Calls(t)
  BY DEF Orderly
<1>2. /\ Calls(st) /\ (t # <<>> => st # <<>>)
      /\ Len(s) \in Nat /\ Len(t) \in Nat /\ Len(st) = Len(s) + Len(t)
      /\ \A i \in 1 .. Len(s) : st[i] = s[i]
      /\ \A i \in 1 .. Len(t) : st[Len(s) + i] = t[i]
      /\ \A i \in 1 .. Len(st) :
            \/ i \in 1 .. Len(s) /\ st[i] = s[i]
            \/ \E j \in 1 .. Len(t) : i = Len(s) + j /\ st[i] = t[j]
  BY <1>1, Concatenation
<1> HIDE DEF st
<1>3. ~Sure({})
  BY DEF Sure
<1>4. ASSUME NEW i \in 1 .. Len(s), Swaps(s, i, {})
      PROVE  Swaps(st, i, {})
  <2>1. PICK k \in 1 .. i - 1 : SureFind(s[k]) /\ \A j \in k + 1 .. i - 1 : s[j].op # "find"
    BY <1>3, <1>4 DEF Swaps, Supplied
  <2>2. \A j \in 1 .. i : j \in 1 .. Len(s) /\ st[j] = s[j]
    BY <1>2
  <2>3. Supplied(st, i, {})
    <3>1. SureFind(st[k])
      BY <1>2, <2>1
    <3>2. \A j \in k + 1 .. i - 1 : st[j].op # "find"
      BY <2>1, <2>2
    <3>3. QED
      BY <3>1, <3>2 DEF Supplied
  <2>4. i + 1 \in 1 .. Len(s) => i + 1 \in 1 .. Len(st) /\ st[i + 1] = s[i + 1]
    BY <1>2
  <2>5. i > 1 => st[i - 1] = s[i - 1]
    BY <2>2
  <2>6. st[i] = s[i]
    BY <1>2
  <2>7. QED
    BY <1>4, <2>3, <2>4, <2>5, <2>6 DEF Swaps
<1>5. ASSUME NEW i \in 1 .. Len(t), Swaps(t, i, {})
      PROVE  Swaps(st, Len(s) + i, {})
  <2>1. PICK k \in 1 .. i - 1 : SureFind(t[k]) /\ \A j \in k + 1 .. i - 1 : t[j].op # "find"
    BY <1>3, <1>5 DEF Swaps, Supplied
  <2>2. Supplied(st, n + i, {})
    <3>1. k \in 1 .. Len(t) /\ n + k \in 1 .. (n + i) - 1
      BY <1>2
    <3>2. SureFind(st[n + k])
      BY <1>2, <2>1, <3>1
    <3>3. ASSUME NEW j \in (n + k) + 1 .. (n + i) - 1 PROVE st[j].op # "find"
      <4>1. j - n \in k + 1 .. i - 1 /\ j - n \in 1 .. Len(t) /\ n + (j - n) = j
        BY <1>2
      <4>2. st[n + (j - n)] = t[j - n]
        BY <1>2, <4>1
      <4>3. QED
        BY <2>1, <4>1, <4>2
    <3>4. QED
      BY <3>1, <3>2, <3>3 DEF Supplied
  <2>3. i > 1
    BY <1>2
  <2>4. st[(n + i) - 1] = t[i - 1]
    <3>1. i - 1 \in 1 .. Len(t) /\ n + (i - 1) = (n + i) - 1
      BY <1>2, <2>3
    <3>2. st[n + (i - 1)] = t[i - 1]
      BY <1>2, <3>1
    <3>3. QED
      BY <3>1, <3>2
  <2>5. ASSUME i + 1 \in 1 .. Len(t)
        PROVE  (n + i) + 1 \in 1 .. Len(st) /\ st[(n + i) + 1] = t[i + 1]
    <3>1. n + (i + 1) = (n + i) + 1
      BY <1>2
    <3>2. st[n + (i + 1)] = t[i + 1]
      BY <1>2, <2>5
    <3>3. QED
      BY <1>2, <2>5, <3>1, <3>2
  <2>6. st[n + i] = t[i]
    BY <1>2
  <2>7. PICK w \in Users :
           \/ /\ t[i].op = "delete" /\ t[i].rows = LinksOf(w, Roles)
              /\ i + 1 \in 1 .. Len(t) /\ t[i + 1].op = "append" /\ t[i + 1].row = w
           \/ /\ t[i].op = "trim" /\ t[i].row = w /\ t[i].rows = Roles
              /\ i > 1 => t[i - 1].op = "append" /\ t[i - 1].row = w
    BY <1>5 DEF Swaps
  <2>8. \/ /\ st[n + i].op = "delete" /\ st[n + i].rows = LinksOf(w, Roles)
           /\ (n + i) + 1 \in 1 .. Len(st) /\ st[(n + i) + 1].op = "append" /\ st[(n + i) + 1].row = w
        \/ /\ st[n + i].op = "trim" /\ st[n + i].row = w /\ st[n + i].rows = Roles
           /\ n + i > 1 => st[(n + i) - 1].op = "append" /\ st[(n + i) - 1].row = w
    BY <2>3, <2>4, <2>5, <2>6, <2>7
  <2> HIDE DEF n
  <2>9. Swaps(st, n + i, {})
    BY <2>2, <2>8 DEF Swaps
  <2>10. QED
    BY <2>9 DEF n
<1>6. ASSUME NEW i \in 1 .. Len(st)
      PROVE  st[i].op # "skip" /\ (Gentle(st[i]) \/ Swaps(st, i, {}))
  <2>1. CASE i \in 1 .. Len(s) /\ st[i] = s[i]
    BY <1>4, <2>1 DEF Orderly
  <2>2. ASSUME NEW j \in 1 .. Len(t), i = Len(s) + j, st[i] = t[j]
        PROVE  st[i].op # "skip" /\ (Gentle(st[i]) \/ Swaps(st, i, {}))
    BY <1>5, <2>2 DEF Orderly
  <2>3. QED
    BY <1>2, <2>1, <2>2
<1>7. QED
  BY <1>2, <1>6 DEF Orderly, st

\* What was found to be harmless elsewhere.
LEMMA MildGentle ==
    ASSUME NEW s, Mild(s)
    PROVE  AllGentle(s) /\ Orderly(s)
  BY DEF Mild, AllGentle, Orderly, Gentle

LEMMA NoBond ==
    /\ Scopes \cap (Users \cup Roles) = {} /\ Groups \cap (Users \cup Roles) = {}
    /\ Catalogs \cap (Users \cup Roles) = {}
    /\ \A x, y : x \notin Users \cup Roles \/ y \notin Users \cup Roles => {x, y} \notin Bonds
    /\ \A x, Y : x \notin Users \cup Roles \/ Y \cap (Users \cup Roles) = {} =>
                    LinksOf(x, Y) \cap Bonds = {}
    /\ \A x \in Scopes : x \notin Bonds
<1>1. \A i, j \in 1 .. 6 :
         i # j => <<Users, Roles, Scopes, Groups, Catalogs, Competitions>>[i]
                    \cap <<Users, Roles, Scopes, Groups, Catalogs, Competitions>>[j] = {}
  BY KindsAssumption
<1>2. Scopes \cap Users = {} /\ Scopes \cap Roles = {}
  BY <1>1
<1>3. Groups \cap Users = {} /\ Groups \cap Roles = {}
  BY <1>1
<1>4. Catalogs \cap Users = {} /\ Catalogs \cap Roles = {}
  BY <1>1
<1>5. \A x, y : x \notin Users \cup Roles \/ y \notin Users \cup Roles => {x, y} \notin Bonds
  BY DEF Bonds, Pairs
<1>6. \A x, Y : x \notin Users \cup Roles \/ Y \cap (Users \cup Roles) = {} =>
                   LinksOf(x, Y) \cap Bonds = {}
  BY <1>5 DEF LinksOf
<1>7. \A x \in Scopes : x \notin Bonds
  BY DistinctAssumption DEF Entities, Links, Bonds
<1>8. QED
  BY <1>2, <1>3, <1>4, <1>5, <1>6, <1>7

LEMMA ForUserGentle ==
    ASSUME NEW u, NEW v, NEW bits
    PROVE  Mild(ForUser(u, v, bits))
<1>1. Looking(ForUser(u, v, bits), "none")
  BY ForUserLooks
<1>2. QED
  BY <1>1, LooksMild

\* His roles are cleared, and those found are his.
LEMMA ExchangeIsOrderly ==
    ASSUME NEW v \in Users, NEW O \in SUBSET Roles, NEW s, NEW k \in {3, 4}, Tuple(s, k),
           s[1] = Find(O, "some") \/ (O # {} /\ s[1] = Find(O, "all")),
           s[2] = Delete(LinksOf(v, Roles)), s[3] = Associate(v), k = 4 => s[4] = Trim(v, Roles)
    PROVE  Orderly(s)
<1>1. /\ s[1].op = "find" /\ s[1].rows = O
      /\ s[1].need = "some" \/ (s[1].need = "all" /\ O # {})
      /\ s[2].op = "delete" /\ s[2].rows = LinksOf(v, Roles)
      /\ s[3].op = "append" /\ s[3].row = v
      /\ k = 4 => s[4].op = "trim" /\ s[4].row = v /\ s[4].rows = Roles
  BY DEF Find, Delete, Associate, Trim
<1>2. Calls(s) /\ Len(s) = k
  BY TupleIs
<1>3. SureFind(s[1])
  BY <1>1 DEF SureFind
<1> HIDE DEF SureFind
<1>4. Gentle(s[1]) /\ Gentle(s[3])
  BY <1>1 DEF Gentle
<1>5. Supplied(s, 2, {}) /\ (k = 4 => Supplied(s, 4, {}))
  <2>1. 1 \in 1 .. 2 - 1 /\ 1 \in 1 .. 4 - 1
    OBVIOUS
  <2>2. \A j \in 1 + 1 .. 2 - 1 : s[j].op # "find"
    OBVIOUS
  <2>3. \A j \in 1 + 1 .. 4 - 1 : s[j].op # "find"
    <3>1. \A j \in 1 + 1 .. 4 - 1 : j = 2 \/ j = 3
      OBVIOUS
    <3>2. QED
      BY <1>1, <3>1
  <2>4. QED
    BY <1>3, <2>1, <2>2, <2>3, Zenon DEF Supplied
<1>6. Swaps(s, 2, {})
  <2>1. 2 + 1 \in 1 .. Len(s) /\ s[2 + 1].op = "append" /\ s[2 + 1].row = v
    BY <1>1, <1>2
  <2>2. QED
    BY <1>1, <1>5, <2>1 DEF Swaps
<1>7. k = 4 => Swaps(s, 4, {})
  <2>1. s[4 - 1].op = "append" /\ s[4 - 1].row = v
    BY <1>1
  <2>2. QED
    BY <1>1, <1>5, <2>1 DEF Swaps
<1>8. \A i \in 1 .. k : i = 1 \/ i = 2 \/ i = 3 \/ (i = 4 /\ k = 4)
  OBVIOUS
<1>9. \A i \in 1 .. k : s[i].op # "skip"
  BY <1>1, <1>8
<1>10. QED
  BY <1>2, <1>4, <1>6, <1>7, <1>8, <1>9 DEF Orderly

\* What they end with is not gone before they have.
LEMMA ServeExchange ==
    ASSUME InOrder, AllKept, NEW r \in Requests, NEW name \in Swappers, NEW may, NEW asked,
           NEW s, NEW t, Serve(r, name, may, asked, s \o t), Orderly(s), AllGentle(t), Orderly(t),
           Tuple(t, 2), t[1].op = "commit"
    PROVE  AllKept'
<1> DEFINE st == s \o t
<1>1. Calls(s) /\ Calls(t)
  BY DEF Orderly
<1>2. Len(t) = 2 /\ t # <<>>
  <2>1. Len(t) = 2
    BY TupleIs
  <2>2. t # <<>>
    BY TupleSome
  <2>3. QED
    BY <2>1, <2>2
<1>3. /\ Len(s) \in Nat /\ Len(st) = Len(s) + Len(t)
      /\ \A i \in 1 .. Len(t) : st[Len(s) + i] = t[i]
      /\ \A i \in 1 .. Len(st) :
            \/ i \in 1 .. Len(s) /\ st[i] = s[i]
            \/ \E j \in 1 .. Len(t) : i = Len(s) + j /\ st[i] = t[j]
  BY <1>1, Concatenation
<1>4. Orderly(st) /\ st # <<>>
  BY <1>2, OrderlyOn
<1>5. Serve(r, name, may, asked, st)
  OBVIOUS
<1> HIDE DEF st
<1>6. st[Len(s) + 1].op = "commit"
  BY <1>2, <1>3
<1>7. ASSUME NEW i \in 1 .. Len(st)
      PROVE  Gentle(st[i]) \/ \E j \in i + 1 .. Len(st) : st[j].op # "check"
  <2>1. CASE i \in 1 .. Len(s)
    <3>1. Len(s) + 1 \in i + 1 .. Len(st)
      BY <1>2, <1>3, <2>1
    <3>2. QED
      BY <1>6, <3>1
  <2>2. CASE i \notin 1 .. Len(s)
    BY <1>3, <2>2 DEF AllGentle
  <2>3. QED
    BY <2>1, <2>2
<1>8. QED
  BY <1>4, <1>5, <1>7, ServeOrderly

LEMMA AccessHandlersAreKept ==
    ASSUME InOrder, AllKept, NEW r \in Requests, AccessHandlers(r)
    PROVE  AllKept'
<1>1. CASE CreateRole(r)
  <2>1. PICK u \in Users \cap DOMAIN db, o \in Unused(Roles), p \in Grants, S \in Some(Scopes) :
          Serve(r, "CreateRole", Has(u, "ROLES"), {o} \cup LinksOf(o, S),
                <<Begin, Create({o}, [permissions |-> p]), Find(S, "all"), Associate(o), Commit, Reload(o)>>)
    BY <1>1, Zenon DEF CreateRole
  <2> DEFINE asked == {o} \cup LinksOf(o, S)
             A == Create({o}, [permissions |-> p])
             s == <<Begin, A, Find(S, "all"), Associate(o), Commit, Reload(o)>>
  <2>2. A.op = "create"
    BY DEF Create
  <2>3. Serve(r, "CreateRole", Has(u, "ROLES"), asked, s)
    BY <2>1, Zenon DEF A
  <2> HIDE DEF A
  <2>4. Tuple(s, 6)
    BY DEF Tuple
  <2>5. \A i \in 1 .. 6 : Gentle(s[i])
    <3>1. \A i \in 1 .. 6 : i = 1 \/ i = 2 \/ i = 3 \/ i = 4 \/ i = 5 \/ i = 6
      OBVIOUS
    <3>2. Gentle(s[1]) /\ Gentle(s[2]) /\ Gentle(s[3])
      BY <2>2, Kinds DEF Gentle
    <3>3. Gentle(s[4]) /\ Gentle(s[5]) /\ Gentle(s[6])
      BY <2>2, Kinds DEF Gentle
    <3>4. QED
      BY <3>1, <3>2, <3>3
  <2> HIDE DEF s, asked
  <2>6. AllGentle(s) /\ s # <<>>
    BY <2>4, <2>5, TupleGentle
  <2>7. "CreateRole" \notin Swappers
    BY DEF Swappers
  <2>8. QED
    BY <2>3, <2>6, <2>7, ServeGentle
<1>2. CASE UpdateRoleByID(r)
  <2> DEFINE name == "UpdateRoleByID"
  <2>1. PICK u \in Users \cap DOMAIN db, o \in Roles, p \in Grants, S \in Some(Scopes),
             list \in BOOLEAN :
          Serve(r, name, Has(u, "ROLES"), LinksOf(o, S),
                <<First(o), Begin, Updates(o, IF p = {} THEN Nothing ELSE [permissions |-> p])>>
                  \o (IF list THEN <<Delete(LinksOf(o, Scopes)), Find(S, "all"), Associate(o)>>
                             ELSE <<>>) \o <<Commit, Reload(o)>>)
    BY <1>2 DEF UpdateRoleByID
  <2> DEFINE asked == LinksOf(o, S)
             set == IF p = {} THEN Nothing ELSE [permissions |-> p]
             A == <<First(o), Begin, Updates(o, set)>>
             B == <<Delete(LinksOf(o, Scopes)), Find(S, "all"), Associate(o)>>
             M == IF list THEN B ELSE <<>>
             C == <<Commit, Reload(o)>>
  <2>2. Tuple(A, 3) /\ Tuple(B, 3) /\ Tuple(C, 2)
    BY DEF Tuple
  <2>3. LinksOf(o, Scopes) \cap Bonds = {}
    BY NoBond
  <2>4. /\ A[1].op = "check" /\ A[2].op = "begin" /\ A[3].op = "updates"
        /\ B[1].op = "delete" /\ B[1].rows = LinksOf(o, Scopes) /\ B[2].op = "find" /\ B[3].op = "append"
        /\ C[1].op = "commit" /\ C[2].op = "check"
    BY Kinds DEF Delete
  <2>5. Serve(r, name, Has(u, "ROLES"), asked, (A \o M) \o C)
    BY <2>1
  <2>6. name \notin Swappers
    BY DEF Swappers
  <2> HIDE DEF A, B, C, asked, name, set
  <2>7. /\ \A i \in 1 .. 3 : Gentle(A[i])
        /\ \A i \in 1 .. 3 : Gentle(B[i])
        /\ \A i \in 1 .. 2 : Gentle(C[i])
    <3>1. /\ \A i \in 1 .. 3 : i = 1 \/ i = 2 \/ i = 3
          /\ \A i \in 1 .. 2 : i = 1 \/ i = 2
      OBVIOUS
    <3>2. Gentle(A[1]) /\ Gentle(A[2]) /\ Gentle(A[3]) /\ Gentle(C[1]) /\ Gentle(C[2])
      BY <2>4 DEF Gentle
    <3>3. Gentle(B[1]) /\ Gentle(B[2]) /\ Gentle(B[3])
      BY <2>3, <2>4 DEF Gentle
    <3>4. QED
      BY <3>1, <3>2, <3>3
  <2>8. AllGentle(A) /\ AllGentle(B) /\ AllGentle(C) /\ C # <<>>
    BY <2>2, <2>7, TupleGentle
  <2>9. AllGentle(M)
    BY <2>8, NoneGentle
  <2> HIDE DEF M
  <2>10. AllGentle(A \o M)
    BY <2>8, <2>9, GentleOn
  <2>11. AllGentle((A \o M) \o C) /\ (A \o M) \o C # <<>>
    BY <2>8, <2>10, GentleOn
  <2> DEFINE s == (A \o M) \o C
  <2>12. Serve(r, name, Has(u, "ROLES"), asked, s) /\ AllGentle(s) /\ s # <<>>
    BY <2>5, <2>11
  <2> HIDE DEF s
  <2>13. QED
    BY <2>6, <2>12, ServeGentle
<1>3. CASE DeleteRole(r)
  <2>1. PICK may, asked, calls : Serve(r, "DeleteRole", may, asked, calls)
    BY <1>3, Zenon DEF DeleteRole
  <2>2. QED
    BY <2>1, ServeStripper DEF Strippers
<1>4. CASE AttachRoleToUser(r)
  <2>1. PICK u \in Users \cap DOMAIN db, v \in Users, o \in Roles :
          Serve(r, "AttachRoleToUser", Has(u, "ROLES"), {{v, o}},
                <<Begin, First(v), First(o), Check({{v, o}}, FALSE, "error"),
                  Create({{v, o}}, Nothing), Commit, Reload(v)>>)
    BY <1>4, Zenon DEF AttachRoleToUser
  <2> DEFINE asked == {{v, o}}
             D == Check({{v, o}}, FALSE, "error")
             s == <<Begin, First(v), First(o), D,
                  Create({{v, o}}, Nothing), Commit, Reload(v)>>
  <2>2. D.op = "check"
    BY DEF Check
  <2>3. Serve(r, "AttachRoleToUser", Has(u, "ROLES"), asked, s)
    BY <2>1, Zenon DEF D
  <2> HIDE DEF D
  <2>4. Tuple(s, 7)
    BY DEF Tuple
  <2>5. \A i \in 1 .. 7 : Gentle(s[i])
    <3>1. \A i \in 1 .. 7 : i = 1 \/ i = 2 \/ i = 3 \/ i = 4 \/ i = 5 \/ i = 6 \/ i = 7
      OBVIOUS
    <3>2. Gentle(s[1]) /\ Gentle(s[2]) /\ Gentle(s[3])
      BY <2>2, Kinds DEF Gentle
    <3>3. Gentle(s[4]) /\ Gentle(s[5]) /\ Gentle(s[6]) /\ Gentle(s[7])
      BY <2>2, Kinds DEF Gentle
    <3>4. QED
      BY <3>1, <3>2, <3>3
  <2> HIDE DEF s, asked
  <2>6. AllGentle(s) /\ s # <<>>
    BY <2>4, <2>5, TupleGentle
  <2>7. "AttachRoleToUser" \notin Swappers
    BY DEF Swappers
  <2>8. QED
    BY <2>3, <2>6, <2>7, ServeGentle
<1>5. CASE DetachRoleFromUser(r)
  <2>1. PICK may, asked, calls : Serve(r, "DetachRoleFromUser", may, asked, calls)
    BY <1>5, Zenon DEF DetachRoleFromUser
  <2>2. QED
    BY <2>1, ServeStripper DEF Strippers
<1>6. CASE CreateScope(r)
  <2>1. PICK u \in Users \cap DOMAIN db, s0 \in Unused(Scopes), K \in Some(Catalogs) :
          Serve(r, "CreateScope", Has(u, "SCOPES"), {s0} \cup LinksOf(s0, K),
                <<Begin, Find(K, "all"), Create({s0}, Nothing), Find(K, "any"), Associate(s0),
                  Commit, Reload(s0)>>)
    BY <1>6, Zenon DEF CreateScope
  <2> DEFINE asked == {s0} \cup LinksOf(s0, K)
             s == <<Begin, Find(K, "all"), Create({s0}, Nothing), Find(K, "any"), Associate(s0),
                  Commit, Reload(s0)>>
  <2>2. Serve(r, "CreateScope", Has(u, "SCOPES"), asked, s)
    BY <2>1, Zenon
  <2>3. Tuple(s, 7)
    BY DEF Tuple
  <2>4. \A i \in 1 .. 7 : Gentle(s[i])
    <3>1. \A i \in 1 .. 7 : i = 1 \/ i = 2 \/ i = 3 \/ i = 4 \/ i = 5 \/ i = 6 \/ i = 7
      OBVIOUS
    <3>2. Gentle(s[1]) /\ Gentle(s[2]) /\ Gentle(s[3])
      BY Kinds DEF Gentle
    <3>3. Gentle(s[4]) /\ Gentle(s[5]) /\ Gentle(s[6]) /\ Gentle(s[7])
      BY Kinds DEF Gentle
    <3>4. QED
      BY <3>1, <3>2, <3>3
  <2> HIDE DEF s, asked
  <2>5. AllGentle(s) /\ s # <<>>
    BY <2>3, <2>4, TupleGentle
  <2>6. "CreateScope" \notin Swappers
    BY DEF Swappers
  <2>7. QED
    BY <2>2, <2>5, <2>6, ServeGentle
<1>7. CASE UpdateScope(r)
  <2> DEFINE name == "UpdateScope"
  <2>1. PICK u \in Users \cap DOMAIN db, x \in Scopes, K \in Some(Catalogs) :
          Serve(r, name, Has(u, "SCOPES"), LinksOf(x, K),
                <<Load(x), Begin, Find(K, "count"), Save(x), Find(K, "any")>>
                  \o Replace(x, Catalogs) \o <<Commit, Reload(x)>>)
    BY <1>7, Zenon DEF UpdateScope
  <2> DEFINE asked == LinksOf(x, K)
             A == <<Load(x), Begin, Find(K, "count"), Save(x), Find(K, "any")>>
             B == Replace(x, Catalogs)
             C == <<Commit, Reload(x)>>
  <2>2. Tuple(A, 5) /\ Tuple(B, 2) /\ Tuple(C, 2)
    BY DEF Tuple, Replace
  <2>3. LinksOf(x, Catalogs) \cap Bonds = {}
    BY NoBond
  <2>4. /\ A[1].op = "load" /\ A[2].op = "begin" /\ A[3].op = "find" /\ A[4].op = "save" /\ A[5].op = "find"
        /\ B[1].op = "append" /\ B[2].op = "trim" /\ B[2].row = x /\ B[2].rows = Catalogs
        /\ C[1].op = "commit" /\ C[2].op = "check"
    BY Kinds DEF Replace, Associate, Trim
  <2>5. Serve(r, name, Has(u, "SCOPES"), asked, (A \o B) \o C)
    BY <2>1
  <2>6. name \notin Swappers
    BY DEF Swappers
  <2> HIDE DEF A, B, C, asked, name
  <2>7. /\ \A i \in 1 .. 5 : Gentle(A[i])
        /\ \A i \in 1 .. 2 : Gentle(B[i])
        /\ \A i \in 1 .. 2 : Gentle(C[i])
    <3>1. /\ \A i \in 1 .. 5 : i = 1 \/ i = 2 \/ i = 3 \/ i = 4 \/ i = 5
          /\ \A i \in 1 .. 2 : i = 1 \/ i = 2
      OBVIOUS
    <3>2. Gentle(A[1]) /\ Gentle(A[2]) /\ Gentle(A[3]) /\ Gentle(A[4]) /\ Gentle(A[5])
      BY <2>4 DEF Gentle
    <3>3. Gentle(B[1]) /\ Gentle(B[2]) /\ Gentle(C[1]) /\ Gentle(C[2])
      BY <2>3, <2>4 DEF Gentle
    <3>4. QED
      BY <3>1, <3>2, <3>3
  <2>8. AllGentle(A) /\ AllGentle(B) /\ AllGentle(C) /\ C # <<>>
    BY <2>2, <2>7, TupleGentle
  <2>9. AllGentle(A \o B)
    BY <2>8, GentleOn
  <2>10. AllGentle((A \o B) \o C) /\ (A \o B) \o C # <<>>
    BY <2>8, <2>9, GentleOn
  <2> DEFINE s == (A \o B) \o C
  <2>11. Serve(r, name, Has(u, "SCOPES"), asked, s) /\ AllGentle(s) /\ s # <<>>
    BY <2>5, <2>10
  <2> HIDE DEF s
  <2>12. QED
    BY <2>6, <2>11, ServeGentle
<1>8. CASE DeleteScope(r)
  <2>1. PICK u \in Users \cap DOMAIN db, x \in Scopes :
          Serve(r, "DeleteScope", Has(u, "SCOPES"), {},
                <<Begin, First(x), Check({g \in Groups : ScopeOf[g] = x}, FALSE, "error"),
                  Delete(LinksOf(x, Catalogs)), Delete(LinksOf(x, Roles)), Delete({x}), Commit>>)
    BY <1>8, Zenon DEF DeleteScope
  <2> DEFINE asked == {}
             D == Check({g \in Groups : ScopeOf[g] = x}, FALSE, "error")
             B == Delete(LinksOf(x, Catalogs))
             C == Delete(LinksOf(x, Roles))
             E == Delete({x})
             s == <<Begin, First(x), D,
                  B, C, E, Commit>>
  <2>2. D.op = "check"
    BY DEF Check
  <2>3. Gentle(B)
    BY NoBond DEF Gentle, Delete
  <2>4. Gentle(C)
    BY NoBond DEF Gentle, Delete
  <2>5. Gentle(E)
    BY NoBond DEF Gentle, Delete
  <2>6. Serve(r, "DeleteScope", Has(u, "SCOPES"), asked, s)
    BY <2>1, Zenon DEF D, B, C, E
  <2> HIDE DEF D, B, C, E
  <2>7. Tuple(s, 7)
    BY DEF Tuple
  <2>8. \A i \in 1 .. 7 : Gentle(s[i])
    <3>1. \A i \in 1 .. 7 : i = 1 \/ i = 2 \/ i = 3 \/ i = 4 \/ i = 5 \/ i = 6 \/ i = 7
      OBVIOUS
    <3>2. Gentle(s[1]) /\ Gentle(s[2]) /\ Gentle(s[3])
      BY <2>2, <2>3, <2>4, <2>5, Kinds DEF Gentle
    <3>3. Gentle(s[4]) /\ Gentle(s[5]) /\ Gentle(s[6]) /\ Gentle(s[7])
      BY <2>2, <2>3, <2>4, <2>5, Kinds DEF Gentle
    <3>4. QED
      BY <3>1, <3>2, <3>3
  <2> HIDE DEF s, asked
  <2>9. AllGentle(s) /\ s # <<>>
    BY <2>7, <2>8, TupleGentle
  <2>10. "DeleteScope" \notin Swappers
    BY DEF Swappers
  <2>11. QED
    BY <2>6, <2>9, <2>10, ServeGentle
<1>9. CASE AttachScopeToRole(r)
  <2>1. PICK u \in Users \cap DOMAIN db, x \in Scopes, o \in Roles :
          Serve(r, "AttachScopeToRole", Has(u, "SCOPES"), {{x, o}},
                <<Begin, First(x), Find({o}, "some"), SkipIf({{x, o}}), Associate(x), Commit,
                  Reload(x)>>)
    BY <1>9, Zenon DEF AttachScopeToRole
  <2> DEFINE asked == {{x, o}}
             D == SkipIf({{x, o}})
             s == <<Begin, First(x), Find({o}, "some"), D, Associate(x), Commit,
                  Reload(x)>>
  <2>2. D.op = "skip"
    BY DEF SkipIf
  <2>3. Serve(r, "AttachScopeToRole", Has(u, "SCOPES"), asked, s)
    BY <2>1, Zenon DEF D
  <2> HIDE DEF D
  <2>4. Tuple(s, 7)
    BY DEF Tuple
  <2>5. \A i \in 1 .. 7 : Gentle(s[i])
    <3>1. \A i \in 1 .. 7 : i = 1 \/ i = 2 \/ i = 3 \/ i = 4 \/ i = 5 \/ i = 6 \/ i = 7
      OBVIOUS
    <3>2. Gentle(s[1]) /\ Gentle(s[2]) /\ Gentle(s[3])
      BY <2>2, Kinds DEF Gentle
    <3>3. Gentle(s[4]) /\ Gentle(s[5]) /\ Gentle(s[6]) /\ Gentle(s[7])
      BY <2>2, Kinds DEF Gentle
    <3>4. QED
      BY <3>1, <3>2, <3>3
  <2> HIDE DEF s, asked
  <2>6. AllGentle(s) /\ s # <<>>
    BY <2>4, <2>5, TupleGentle
  <2>7. "AttachScopeToRole" \notin Swappers
    BY DEF Swappers
  <2>8. QED
    BY <2>3, <2>6, <2>7, ServeGentle
<1>10. CASE DetachScopeFromRole(r)
  <2>1. PICK u \in Users \cap DOMAIN db, x \in Scopes, o \in Roles :
          Serve(r, "DetachScopeFromRole", Has(u, "SCOPES"), {},
                <<Begin, First(x), First(o), Delete({{x, o}}), Commit, Reload(x)>>)
    BY <1>10, Zenon DEF DetachScopeFromRole
  <2> DEFINE asked == {}
             D == Delete({{x, o}})
             s == <<Begin, First(x), First(o), D, Commit, Reload(x)>>
  <2>2. Gentle(D)
    BY NoBond DEF Gentle, Delete
  <2>3. Serve(r, "DetachScopeFromRole", Has(u, "SCOPES"), asked, s)
    BY <2>1, Zenon DEF D
  <2> HIDE DEF D
  <2>4. Tuple(s, 6)
    BY DEF Tuple
  <2>5. \A i \in 1 .. 6 : Gentle(s[i])
    <3>1. \A i \in 1 .. 6 : i = 1 \/ i = 2 \/ i = 3 \/ i = 4 \/ i = 5 \/ i = 6
      OBVIOUS
    <3>2. Gentle(s[1]) /\ Gentle(s[2]) /\ Gentle(s[3])
      BY <2>2, Kinds DEF Gentle
    <3>3. Gentle(s[4]) /\ Gentle(s[5]) /\ Gentle(s[6])
      BY <2>2, Kinds DEF Gentle
    <3>4. QED
      BY <3>1, <3>2, <3>3
  <2> HIDE DEF s, asked
  <2>6. AllGentle(s) /\ s # <<>>
    BY <2>4, <2>5, TupleGentle
  <2>7. "DetachScopeFromRole" \notin Swappers
    BY DEF Swappers
  <2>8. QED
    BY <2>3, <2>6, <2>7, ServeGentle
<1>11. CASE CreateUserAndAttachRoles(r)
  <2>1. PICK u \in Users \cap DOMAIN db, v \in Unused(Users), O \in Some(Roles) :
          Serve(r, "CreateUserAndAttachRoles", Has(u, "ROLES") /\ O # {}, {v} \cup LinksOf(v, O),
                <<Begin, Find(O, "some"), Create({v}, Nothing), Associate(v), Commit, Reload(v)>>)
    BY <1>11, Zenon DEF CreateUserAndAttachRoles
  <2> DEFINE asked == {v} \cup LinksOf(v, O)
             s == <<Begin, Find(O, "some"), Create({v}, Nothing), Associate(v), Commit, Reload(v)>>
  <2>2. Serve(r, "CreateUserAndAttachRoles", Has(u, "ROLES") /\ O # {}, asked, s)
    BY <2>1, Zenon
  <2>3. Tuple(s, 6)
    BY DEF Tuple
  <2>4. \A i \in 1 .. 6 : Gentle(s[i])
    <3>1. \A i \in 1 .. 6 : i = 1 \/ i = 2 \/ i = 3 \/ i = 4 \/ i = 5 \/ i = 6
      OBVIOUS
    <3>2. Gentle(s[1]) /\ Gentle(s[2]) /\ Gentle(s[3])
      BY Kinds DEF Gentle
    <3>3. Gentle(s[4]) /\ Gentle(s[5]) /\ Gentle(s[6])
      BY Kinds DEF Gentle
    <3>4. QED
      BY <3>1, <3>2, <3>3
  <2> HIDE DEF s, asked
  <2>5. AllGentle(s) /\ s # <<>>
    BY <2>3, <2>4, TupleGentle
  <2>6. "CreateUserAndAttachRoles" \notin Swappers
    BY DEF Swappers
  <2>7. QED
    BY <2>2, <2>5, <2>6, ServeGentle
<1>12. CASE UpdateUserRoles(r)
  <2> DEFINE name == "UpdateUserRoles"
  <2>1. PICK u \in Users \cap DOMAIN db, v \in Users, O \in Some(Roles) :
          Serve(r, name, IsStaff(u), LinksOf(v, O),
                <<Begin, First(v), Find(O, "some"), Delete(LinksOf(v, Roles)), Associate(v), Commit,
                  Reload(v)>>)
    BY <1>12, Zenon DEF UpdateUserRoles
  <2> DEFINE asked == LinksOf(v, O)
             A == <<Begin, First(v)>>
             B == <<Find(O, "some"), Delete(LinksOf(v, Roles)), Associate(v)>>
             C == <<Commit, Reload(v)>>
             s == <<Begin, First(v), Find(O, "some"), Delete(LinksOf(v, Roles)), Associate(v), Commit,
                    Reload(v)>>
  <2>2. Serve(r, name, IsStaff(u), asked, s)
    BY <2>1
  <2>3. Tuple(A, 2) /\ Tuple(B, 3) /\ Tuple(C, 2)
    BY DEF Tuple
  <2>4. /\ A[1].op = "begin" /\ A[2].op = "check" /\ C[1].op = "commit" /\ C[2].op = "check"
        /\ B[1] = Find(O, "some") /\ B[2] = Delete(LinksOf(v, Roles)) /\ B[3] = Associate(v)
    BY Kinds
  <2>5. s = (A \o B) \o C
    OBVIOUS
  <2>6. O \in SUBSET Roles
    BY DEF Some
  <2>7. name \in Swappers
    BY DEF Swappers
  <2> HIDE DEF A, B, C, s, asked, name
  <2>8. /\ \A i \in 1 .. 2 : Gentle(A[i]) /\ A[i].op # "skip"
        /\ \A i \in 1 .. 2 : Gentle(C[i]) /\ C[i].op # "skip"
    <3>1. Gentle(A[1]) /\ Gentle(A[2]) /\ Gentle(C[1]) /\ Gentle(C[2])
      BY <2>4 DEF Gentle
    <3>2. \A i \in 1 .. 2 : i = 1 \/ i = 2
      OBVIOUS
    <3>3. QED
      BY <2>4, <3>1, <3>2
  <2>9. AllGentle(A) /\ Orderly(A) /\ AllGentle(C) /\ Orderly(C)
    BY <2>3, <2>8, TupleGentle
  <2>10. Orderly(B)
    BY <2>3, <2>4, <2>6, ExchangeIsOrderly
  <2>11. Orderly(A \o B)
    BY <2>9, <2>10, OrderlyOn
  <2> DEFINE V == A \o B
  <2>12. Serve(r, name, IsStaff(u), asked, V \o C) /\ Orderly(V)
    BY <2>2, <2>5, <2>11
  <2> HIDE DEF V
  <2>13. QED
    BY <2>3, <2>4, <2>7, <2>9, <2>12, ServeExchange
<1>13. CASE UpdateTargetUserProfile(r)
  <2> DEFINE name == "UpdateTargetUserProfile"
             links(v, X, all) == IF X = {} THEN <<>>
                            ELSE <<Find(X, "all"), Delete(LinksOf(v, all))>> \o Replace(v, all)
  <2>1. PICK u \in Users \cap DOMAIN db, v \in Users, O \in Some(Roles), G \in Some(Groups) :
          Serve(r, name, TRUE, LinksOf(v, O \cup G),
                ForUser(u, v, {"GROUPS", "OWNER"})
                  \o <<Begin, Updates(v, Nothing)>> \o links(v, O, Roles) \o links(v, G, Groups)
                  \o <<Commit, Reload(v)>>)
    BY <1>13 DEF UpdateTargetUserProfile
  <2> DEFINE F == ForUser(u, v, {"GROUPS", "OWNER"})
             A == <<Begin, Updates(v, Nothing)>>
             L1 == links(v, O, Roles)
             L2 == links(v, G, Groups)
             C == <<Commit, Reload(v)>>
             asked == LinksOf(v, O \cup G)
             P1 == <<Find(O, "all"), Delete(LinksOf(v, Roles)), Associate(v), Trim(v, Roles)>>
             P2 == <<Find(G, "all"), Delete(LinksOf(v, Groups)), Associate(v), Trim(v, Groups)>>
  <2>2. Serve(r, name, TRUE, asked, (((F \o A) \o L1) \o L2) \o C)
    BY <2>1
  <2>3. Tuple(A, 2) /\ Tuple(P1, 4) /\ Tuple(P2, 4) /\ Tuple(C, 2)
    BY DEF Tuple
  <2>4. /\ A[1].op = "begin" /\ A[2].op = "updates" /\ C[1].op = "commit" /\ C[2].op = "check"
        /\ P1[1] = Find(O, "all") /\ P1[2] = Delete(LinksOf(v, Roles)) /\ P1[3] = Associate(v)
        /\ P1[4] = Trim(v, Roles)
        /\ P2[1].op = "find" /\ P2[2].op = "delete" /\ P2[2].rows = LinksOf(v, Groups)
        /\ P2[3].op = "append" /\ P2[4].op = "trim" /\ P2[4].row = v /\ P2[4].rows = Groups
    BY Kinds DEF Delete, Trim
  <2>5. (O # {} => L1 = P1) /\ (O = {} => L1 = <<>>) /\ (L2 = P2 \/ L2 = <<>>)
    <3>1. P1 = <<Find(O, "all"), Delete(LinksOf(v, Roles))>> \o Replace(v, Roles)
      BY DEF Replace
    <3>2. P2 = <<Find(G, "all"), Delete(LinksOf(v, Groups))>> \o Replace(v, Groups)
      BY DEF Replace
    <3> HIDE DEF P1, P2
    <3>3. QED
      BY <3>1, <3>2
  <2>6. O \in SUBSET Roles
    BY DEF Some
  <2>7. name \in Swappers
    BY DEF Swappers
  <2>8. LinksOf(v, Groups) \cap Bonds = {}
    BY NoBond
  <2>9. Mild(F)
    BY ForUserGentle
  <2> HIDE DEF F, A, L1, L2, C, P1, P2, asked, name
  <2>10. /\ \A i \in 1 .. 2 : Gentle(A[i]) /\ A[i].op # "skip"
         /\ \A i \in 1 .. 2 : Gentle(C[i]) /\ C[i].op # "skip"
         /\ \A i \in 1 .. 4 : Gentle(P2[i]) /\ P2[i].op # "skip"
    <3>1. Gentle(A[1]) /\ Gentle(A[2]) /\ Gentle(C[1]) /\ Gentle(C[2])
      BY <2>4 DEF Gentle
    <3>2. Gentle(P2[1]) /\ Gentle(P2[2]) /\ Gentle(P2[3]) /\ Gentle(P2[4])
      BY <2>4, <2>8 DEF Gentle
    <3>3. (\A i \in 1 .. 2 : i = 1 \/ i = 2) /\ (\A i \in 1 .. 4 : i = 1 \/ i = 2 \/ i = 3 \/ i = 4)
      OBVIOUS
    <3>4. QED
      BY <2>4, <3>1, <3>2, <3>3
  <2>11. Orderly(A) /\ AllGentle(C) /\ Orderly(C) /\ Orderly(P2)
    BY <2>3, <2>10, TupleGentle
  <2>12. O # {} => Orderly(P1)
    BY <2>3, <2>4, <2>6, ExchangeIsOrderly
  <2>13. Orderly(L1) /\ Orderly(L2) /\ Orderly(F)
    BY <2>5, <2>9, <2>11, <2>12, NoneGentle, MildGentle
  <2>14. Orderly((F \o A) \o L1)
    BY <2>11, <2>13, OrderlyOn
  <2>15. Orderly(((F \o A) \o L1) \o L2)
    BY <2>13, <2>14, OrderlyOn
  <2> DEFINE s == ((F \o A) \o L1) \o L2
  <2>16. Serve(r, name, TRUE, asked, s \o C) /\ Orderly(s)
    BY <2>2, <2>15
  <2> HIDE DEF s
  <2>17. QED
    BY <2>3, <2>4, <2>7, <2>11, <2>16, ServeExchange
<1>14. CASE DeleteUser(r)
  <2>1. PICK may, asked, calls : Serve(r, "DeleteUser", may, asked, calls)
    BY <1>14, Zenon DEF DeleteUser
  <2>2. QED
    BY <2>1, ServeStripper DEF Strippers
<1>15. CASE UpdateUserProfile(r)
  <2>1. PICK u \in Users \cap DOMAIN db :
          ServeWith(r, "UpdateUserProfile", RolesOf(u),
                    <<Begin, Updates(u, Nothing), Associate(u), Commit, Reload(u)>>)
    BY <1>15, Zenon DEF UpdateUserProfile
  <2> DEFINE got == RolesOf(u)
             s == <<Begin, Updates(u, Nothing), Associate(u), Commit, Reload(u)>>
  <2>2. Tuple(s, 5)
    BY DEF Tuple
  <2>3. \A i \in 1 .. 5 : s[i].op \notin {"skip", "delete", "detach", "deletefound", "trim"}
    BY Kinds
  <2>4. ServeWith(r, "UpdateUserProfile", got, s)
    BY <2>1
  <2> HIDE DEF s, got
  <2>5. Mild(s) /\ s # <<>>
    BY <2>2, <2>3, TupleMild
  <2>6. AllGentle(s)
    BY <2>5, MildGentle
  <2>7. "UpdateUserProfile" \notin Swappers
    BY DEF Swappers
  <2>8. QED
    BY <2>4, <2>5, <2>6, <2>7, ServeWithGentle
<1>16. CASE Login(r)
  <2>1. PICK u \in Users \cap DOMAIN db :
          ServeWith(r, "Login", {x \in Roles \cup Groups : {u, x} \in DOMAIN db},
                    <<Begin, Save(u), Associate(u), Commit>>)
    BY <1>16, Zenon DEF Login
  <2> DEFINE got == {x \in Roles \cup Groups : {u, x} \in DOMAIN db}
             s == <<Begin, Save(u), Associate(u), Commit>>
  <2>2. Tuple(s, 4)
    BY DEF Tuple
  <2>3. \A i \in 1 .. 4 : s[i].op \notin {"skip", "delete", "detach", "deletefound", "trim"}
    BY Kinds
  <2>4. ServeWith(r, "Login", got, s)
    BY <2>1
  <2> HIDE DEF s, got
  <2>5. Mild(s) /\ s # <<>>
    BY <2>2, <2>3, TupleMild
  <2>6. AllGentle(s)
    BY <2>5, MildGentle
  <2>7. "Login" \notin Swappers
    BY DEF Swappers
  <2>8. QED
    BY <2>4, <2>5, <2>6, <2>7, ServeWithGentle
<1>17. CASE CreateGroup(r)
  <2>1. PICK u \in Users \cap DOMAIN db, g \in New(Groups) :
          Serve(r, "CreateGroup", IsStaff(u), {g},
                <<First(ScopeOf[g]), Create({g}, Nothing)>>)
    BY <1>17, Zenon DEF CreateGroup
  <2> DEFINE asked == {g}
             s == <<First(ScopeOf[g]), Create({g}, Nothing)>>
  <2>2. Serve(r, "CreateGroup", IsStaff(u), asked, s)
    BY <2>1, Zenon
  <2>3. Tuple(s, 2)
    BY DEF Tuple
  <2>4. \A i \in 1 .. 2 : Gentle(s[i])
    <3>1. \A i \in 1 .. 2 : i = 1 \/ i = 2
      OBVIOUS
    <3>2. Gentle(s[1]) /\ Gentle(s[2])
      BY Kinds DEF Gentle
    <3>3. QED
      BY <3>1, <3>2
  <2> HIDE DEF s, asked
  <2>5. AllGentle(s) /\ s # <<>>
    BY <2>3, <2>4, TupleGentle
  <2>6. "CreateGroup" \notin Swappers
    BY DEF Swappers
  <2>7. QED
    BY <2>2, <2>5, <2>6, ServeGentle
<1>18. QED
  BY <1>1, <1>2, <1>3, <1>4, <1>5, <1>6, <1>7, <1>8, <1>9,
     <1>10, <1>11, <1>12, <1>13, <1>14, <1>15, <1>16, <1>17 DEF AccessHandlers

SInv == RInv /\ AllKept

\* However many requests overlap, and wherever they fail, a user who has roles loses the last
\* of them by nobody's change of his roles but one that was to take them, or one whose new
\* roles other requests have taken from him meanwhile.
THEOREM UsersKeepRoles == AccessSpec => NeverStripped
<1>1. Init => SInv
  <2>1. SUFFICES ASSUME Init PROVE SInv
    OBVIOUS
  <2>2. \A r \in Requests : ~Running(r)
    BY <2>1 DEF Init, Running, Idle
  <2>3. QED
    BY <2>1, <2>2, InitInOrder, InitHolds DEF SInv, RInv, AllRightful, AllKept
<1>2. ASSUME SInv, [AccessNext]_vars PROVE SInv'
  <2>1. RInv /\ AllKept /\ InOrder /\ IInv
    BY <1>2 DEF SInv, RInv
  <2>2. [Next]_vars
    BY <1>2 DEF AccessNext, Next, Handlers
  <2>3. RInv' /\ InOrder'
    BY <2>1, <2>2, NextIsRightful DEF RInv
  <2>4. ASSUME NEW r \in Requests, AccessHandlers(r) PROVE AllKept'
    BY <2>1, <2>4, AccessHandlersAreKept
  <2>5. ASSUME NEW r \in Requests, Steps(r) \/ Fail(r) PROVE AllKept'
    BY <2>1, <2>3, <2>5, StepGoesOn, FailGoesOn, StepIsKept
  <2>6. ASSUME UNCHANGED vars PROVE AllKept'
    <3>1. req' = req /\ db' = db
      BY <2>6 DEF vars
    <3>2. QED
      BY <2>1, <3>1 DEF AllKept, Running
  <2>7. AllKept'
    <3>1. CASE AccessNext
      BY <2>4, <2>5, <3>1 DEF AccessNext
    <3>2. QED
      BY <1>2, <2>6, <3>1
  <2>8. QED
    BY <2>3, <2>7 DEF SInv
<1>3. SInv /\ [AccessNext]_vars =>
        [\A u \in Users :
            /\ db' # db /\ RolesOf(u) # {}
            /\ \A o \in Roles : {u, o} \notin DOMAIN db'
            => \E r \in Requests :
                  /\ req'[r].todo # req[r].todo
                  /\ \/ req[r].name \in {"DetachRoleFromUser", "DeleteRole", "DeleteUser"}
                     \/ /\ req[r].name \in {"UpdateUserRoles", "UpdateTargetUserProfile"}
                        /\ LinksOf(u, Roles) \cap req[r].gone # {}]_vars
  <2>1. SUFFICES ASSUME SInv, AccessNext, NEW u \in Users, db' # db, RolesOf(u) # {},
                        \A o \in Roles : {u, o} \notin DOMAIN db'
                 PROVE  \E r \in Requests :
                           /\ req'[r].todo # req[r].todo
                           /\ \/ req[r].name \in Strippers
                              \/ req[r].name \in Swappers /\ LinksOf(u, Roles) \cap req[r].gone # {}
    BY DEF Strippers, Swappers
  <2>2. InOrder /\ IInv /\ AllKept
    BY <2>1 DEF SInv, RInv
  <2>3. PICK q \in Requests : AccessHandlers(q) \/ Steps(q) \/ Fail(q)
    BY <2>1 DEF AccessNext
  <2>4. ~AccessHandlers(q)
    BY <2>1, HandlersChangeNothing DEF Handlers
  <2>5. Running(q) /\ Changed(q)
    BY <2>2, <2>3, <2>4, StepGoesOn, FailGoesOn
  <2>6. PICK o \in Roles : {u, o} \in DOMAIN db
    BY <2>1 DEF RolesOf
  <2>7. \/ req[q].name \in Strippers
        \/ req[q].name \in Swappers /\ LinksOf(u, Roles) \cap req[q].gone # {}
    BY <2>1, <2>2, <2>5, <2>6, StepStrips
  <2>8. req'[q].todo # req[q].todo
    <3>1. SUFFICES ASSUME req'[q].todo = req[q].todo PROVE FALSE
      OBVIOUS
    <3>2. ~Ended(q)
      BY <2>5, <3>1 DEF Running, Ended
    <3>3. Onward(req[q], req'[q])
      BY <2>5, <3>2 DEF Changed, Quiet, Held, Published
    <3>4. Len(req[q].todo) \in Nat
      BY <2>2, <2>5, HeadFacts, TailIs
    <3>5. PICK d \in 1 .. 3 : Len(req'[q].todo) = Len(req[q].todo) - d
      BY <3>3 DEF Onward
    <3>6. QED
      BY <3>1, <3>4, <3>5
  <2>9. QED
    BY <2>7, <2>8
<1>4. QED
  BY <1>1, <1>2, <1>3, PTL DEF AccessSpec, NeverStripped

----------------------------------------------------------------------------
(* Who waits for whom, among the handlers of Access: what each of them plays, and which *)
(* two of them may come to wait for each other.                                          *)

LEMMA AccessHandlersPlay ==
    ASSUME InOrder, AllPlay, AllLone, NEW r \in Requests, AccessHandlers(r)
    PROVE  AllPlay' /\ AllLone'
<1>1. CASE CreateRole(r)
  <2>1. PICK u \in Users \cap DOMAIN db, o \in Unused(Roles), p \in Grants, S \in Some(Scopes) :
          Serve(r, "CreateRole", Has(u, "ROLES"), {o} \cup LinksOf(o, S),
                <<Begin, Create({o}, [permissions |-> p]), Find(S, "all"), Associate(o), Commit,
                  Reload(o)>>)
    BY <1>1, Zenon DEF CreateRole
  <2> DEFINE name == "CreateRole"
             asked == {o} \cup LinksOf(o, S)
             A == Create({o}, [permissions |-> p])
             s == <<Begin, A, Find(S, "all"), Associate(o), Commit, Reload(o)>>
  <2>2. A.op = "create" /\ A.rows = {o}
    BY DEF Create
  <2>3. Serve(r, name, Has(u, "ROLES"), asked, s)
    BY <2>1, Zenon DEF A
  <2> HIDE DEF A
  <2>4. Tuple(s, 6)
    BY DEF Tuple
  <2>5. /\ s[1].op = "begin" /\ s[2].op = "create" /\ s[3].op = "find"
        /\ s[4].op = "append" /\ s[5].op = "commit" /\ s[6].op = "check"
    BY <2>2, Kinds
  <2>6. name \in Makers /\ name \in Writers /\ name \notin Deleters /\ (name = "UpdateScope" <=> FALSE)
    BY DEF Writers, Singles, Makers, Setters, Deleters, Changers, Exchangers, Replacers
  <2>7. o \in Own(name) /\ S \subseteq Others(name)
    BY KindsOf DEF Singles, Unused, Some, RolesOf
  <2>8. \A i \in 1 .. 6 : i = 1 \/ i = 2 \/ i = 3 \/ i = 4 \/ i = 5 \/ i = 6
    OBVIOUS
  <2>9. \A i \in 1 .. 6 : Apt(s[i], name, o)
    <3>1. Apt(s[1], name, o) /\ Apt(s[2], name, o) /\ Apt(s[3], name, o)
      BY <2>2, <2>5, <2>6, <2>7, AptCalls, RowKinds DEF Looks
    <3>2. Apt(s[4], name, o) /\ Apt(s[5], name, o) /\ Apt(s[6], name, o)
      BY <2>2, <2>5, <2>6, <2>7, AptCalls, RowKinds DEF Looks
    <3>3. QED
      BY <2>8, <3>1, <3>2
  <2>10. \A i \in 1 .. 6 : s[i].op \in Changes => i \in {2, 4}
    <3>1. s[1].op \notin Changes /\ s[3].op \notin Changes /\ s[5].op \notin Changes /\ s[6].op \notin Changes
      BY <2>5 DEF Changes
    <3>2. QED
      BY <2>8, <3>1
  <2>11. \A i \in 1 .. 6 : Real(s[i]) => s[i].rows \subseteq Others(name)
    <3>1. s[3].rows \subseteq Others(name)
      BY <2>7, RowKinds
    <3>2. ~Real(s[1]) /\ ~Real(s[2]) /\ ~Real(s[4]) /\ ~Real(s[5]) /\ ~Real(s[6])
      BY <2>5 DEF Real
    <3>3. QED
      BY <2>8, <3>1, <3>2
  <2>12. Follows(s[2], s[4], name, o)
    BY <2>5, <2>6, FollowsIf
  <2> HIDE DEF s, asked, name
  <2>13. \A i, j \in 1 .. 6 : i < j /\ s[i].op \in Changes /\ s[j].op \in Changes => Follows(s[i], s[j], name, o)
    BY <2>10, <2>12
  <2>14. 6 \in Nat \ {0}
    OBVIOUS
  <2>15. \A i \in 2 .. 6 : s[i - 1].op = "skip" => ~Real(s[i])
    <3>1. \A i \in 1 .. 6 : s[i].op # "skip"
      BY <2>5, <2>8
    <3>2. \A i \in 2 .. 6 : i - 1 \in 1 .. 6
      OBVIOUS
    <3>3. QED
      BY <3>1, <3>2
  <2>16. \A i \in 1 .. 6 : Apt(s[i], name, o) /\ (Real(s[i]) => s[i].rows \subseteq Others(name))
    BY <2>9, <2>11
  <2>17. name \in Singles \cup Writers /\ o \in Own(name) /\ name # "UpdateScope"
    BY <2>6, <2>7
  <2>18. Script(s, name, o) /\ s # <<>>
    BY <2>4, <2>15, <2>16, <2>13, <2>14, <2>17, TupleScript
  <2>19. QED
    BY <2>3, <2>18, ServePlays
<1>2. CASE UpdateRoleByID(r)
  <2> DEFINE name == "UpdateRoleByID"
  <2>1. PICK u \in Users \cap DOMAIN db, o \in Roles, p \in Grants, S \in Some(Scopes),
             list \in BOOLEAN :
          Serve(r, name, Has(u, "ROLES"), LinksOf(o, S),
                <<First(o), Begin, Updates(o, IF p = {} THEN Nothing ELSE [permissions |-> p])>>
                  \o (IF list THEN <<Delete(LinksOf(o, Scopes)), Find(S, "all"), Associate(o)>>
                             ELSE <<>>) \o <<Commit, Reload(o)>>)
    BY <1>2 DEF UpdateRoleByID
  <2> DEFINE asked == LinksOf(o, S)
             set == IF p = {} THEN Nothing ELSE [permissions |-> p]
             A == <<First(o), Begin, Updates(o, set)>>
             B == <<Delete(LinksOf(o, Scopes)), Find(S, "all"), Associate(o)>>
             M == IF list THEN B ELSE <<>>
             C == <<Commit, Reload(o)>>
  <2> HIDE DEF set
  <2>2. Tuple(A, 3) /\ Tuple(B, 3) /\ Tuple(C, 2)
    BY DEF Tuple
  <2>3. /\ A[1].op = "check" /\ A[2].op = "begin" /\ A[3].op = "updates"
        /\ B[1].op = "delete" /\ B[2].op = "find" /\ B[2].rows = S /\ B[3].op = "append"
        /\ C[1].op = "commit" /\ C[2].op = "check"
    BY Kinds, RowKinds
  <2>4. Serve(r, name, Has(u, "ROLES"), asked, (A \o M) \o C)
    BY <2>1 DEF set
  <2>5. /\ name \in Exchangers /\ name \in Changers \ {"UpdateScope"} /\ name \in Writers
        /\ name \in Setters \cup (Changers \ {"UpdateUserRoles"}) /\ name \notin Deleters /\ name # "UpdateScope"
    BY DEF Writers, Setters, Deleters, Changers, Exchangers
  <2>6. o \in Own(name) /\ S \subseteq Others(name) /\ FirstKind(name) = Scopes
    BY KindsOf DEF Some
  <2>7. /\ Apt(A[1], name, o) /\ Apt(A[2], name, o) /\ Apt(A[3], name, o)
        /\ Apt(B[1], name, o) /\ Apt(B[2], name, o) /\ Apt(B[3], name, o)
    BY <2>3, <2>5, <2>6, AptCalls DEF Looks
  <2>8. /\ \A i \in 1 .. 3 : i = 1 \/ i = 2 \/ i = 3
        /\ \A i \in 1 .. 2 : i = 1 \/ i = 2
    OBVIOUS
  <2> HIDE DEF A, B, C, asked, name
  <2>9. Part(A, name, o)
    <3>1. A[1].op \notin Changes /\ A[2].op \notin Changes /\ ~Real(A[1]) /\ ~Real(A[2]) /\ ~Real(A[3])
      BY <2>3 DEF Changes, Real
    <3>2. SelfFed(A)
      BY <2>2, <2>3, <2>8, TupleIs DEF SelfFed
    <3>3. /\ \A i \in 1 .. 3 : Apt(A[i], name, o) /\ A[i].op # "skip" /\ ~Real(A[i])
          /\ \A i \in 1 .. 3 : A[i].op \in Changes => i = 3
      BY <2>3, <2>7, <2>8, <3>1
    <3>4. QED
      BY <2>2, <3>2, <3>3, TuplePart
  <2>10. Part(B, name, o)
    <3>1. B[2].op \notin Changes /\ ~Real(B[1]) /\ ~Real(B[3])
      BY <2>3 DEF Changes, Real
    <3>2. Follows(B[1], B[3], name, o)
      BY <2>3, <2>5, FollowsIf
    <3>3. Real(B[2])
      BY DEF B, Real, Find
    <3>4. SelfFed(B)
      <4>1. \A i \in 1 .. 3 : B[i].op = "append" => 2 \in 1 .. i - 1
        BY <2>3, <2>8
      <4>2. QED
        BY <2>2, <3>3, <4>1, TupleIs DEF SelfFed
    <3>5. /\ \A i \in 1 .. 3 : /\ Apt(B[i], name, o) /\ B[i].op # "skip"
                               /\ Real(B[i]) => B[i].rows \subseteq Others(name)
          /\ \A i \in 1 .. 3 : B[i].op \in Changes => i \in {1, 3}
      BY <2>3, <2>6, <2>7, <2>8, <3>1
    <3>6. \A i, j \in 1 .. 3 : i < j /\ B[i].op \in Changes /\ B[j].op \in Changes => Follows(B[i], B[j], name, o)
      BY <3>2, <3>5
    <3>7. QED
      BY <2>2, <3>4, <3>5, <3>6, TuplePart
  <2>11. Part(C, name, o) /\ (\A i \in 1 .. Len(C) : C[i].op \notin Changes) /\ C # <<>>
    <3>1. Calls(C) /\ Len(C) = 2
      BY <2>2, TupleIs
    <3>2. C # <<>>
      BY <2>2, TupleSome
    <3>3. \A i \in 1 .. Len(C) : C[i].op \in Looks \cup {"begin", "commit"}
      BY <2>3, <2>8, <3>1 DEF Looks
    <3>4. QED
      BY <3>1, <3>2, <3>3, LooksPart
  <2>12. Part(M, name, o)
    <3>1. Part(<<>>, name, o)
      BY NoCalls, LenOfNone, LooksPart
    <3>2. QED
      BY <2>10, <3>1
  <2>13. \A i \in 1 .. Len(A), j \in 1 .. Len(M) : Follows(A[i], M[j], name, o)
    <3>1. \A j \in 1 .. Len(M) : M[j].op \in {"delete", "find", "append"}
      <4>1. \A j \in 1 .. Len(B) : B[j].op \in {"delete", "find", "append"}
        BY <2>2, <2>3, <2>8, TupleIs
      <4>2. QED
        BY <4>1, LenOfNone
    <3>2. \A i \in 1 .. Len(A) : A[i].op # "append"
      BY <2>2, <2>3, <2>8, TupleIs
    <3>3. QED
      BY <2>5, <3>1, <3>2, FollowsIf
  <2> HIDE DEF M
  <2>14. Part(A \o M, name, o)
    BY <2>9, <2>12, <2>13, PartOn
  <2>15. Part((A \o M) \o C, name, o)
    BY <2>11, <2>14, PartOn
  <2>16. (A \o M) \o C # <<>>
    BY <2>11, <2>14, Concatenation DEF Part
  <2> DEFINE s == (A \o M) \o C
  <2>17. Serve(r, name, Has(u, "ROLES"), asked, s) /\ Part(s, name, o) /\ s # <<>>
    BY <2>4, <2>15, <2>16
  <2> HIDE DEF s
  <2>18. Script(s, name, o)
    BY <2>5, <2>6, <2>17, PartScript
  <2>19. QED
    BY <2>17, <2>18, ServePlays
<1>3. CASE DeleteRole(r)
  <2>1. PICK u \in Users \cap DOMAIN db, o \in Roles :
          Serve(r, "DeleteRole", Has(u, "ROLES"), {},
                <<First(o), Begin, Delete(LinksOf(o, Users)), Delete(LinksOf(o, Scopes)), Delete({o}),
                  Commit>>)
    BY <1>3, Zenon DEF DeleteRole
  <2> DEFINE name == "DeleteRole"
             asked == {}
             s == <<First(o), Begin, Delete(LinksOf(o, Users)), Delete(LinksOf(o, Scopes)), Delete({o}), Commit>>
  <2>2. Serve(r, name, Has(u, "ROLES"), asked, s)
    BY <2>1, Zenon
  <2>3. Tuple(s, 6)
    BY DEF Tuple
  <2>4. /\ s[1].op = "check" /\ s[2].op = "begin" /\ s[3].op = "delete"
        /\ s[4].op = "delete" /\ s[5].op = "delete" /\ s[6].op = "commit"
    BY Kinds
  <2>5. name \in Deleters /\ name \in Writers /\ (name = "UpdateScope" <=> FALSE)
    BY DEF Writers, Singles, Makers, Setters, Deleters, Changers, Exchangers, Replacers
  <2>6. o \in Own(name) /\ FirstKind(name) = Users /\ SecondKind(name) = Scopes
    BY KindsOf DEF Singles, Unused, Some, RolesOf
  <2>7. \A i \in 1 .. 6 : i = 1 \/ i = 2 \/ i = 3 \/ i = 4 \/ i = 5 \/ i = 6
    OBVIOUS
  <2>8. \A i \in 1 .. 6 : Apt(s[i], name, o)
    <3>1. Apt(s[1], name, o) /\ Apt(s[2], name, o) /\ Apt(s[3], name, o)
      BY <2>4, <2>5, <2>6, AptCalls, RowKinds DEF Looks
    <3>2. Apt(s[4], name, o) /\ Apt(s[5], name, o) /\ Apt(s[6], name, o)
      BY <2>4, <2>5, <2>6, AptCalls, RowKinds DEF Looks
    <3>3. QED
      BY <2>7, <3>1, <3>2
  <2>9. \A i \in 1 .. 6 : s[i].op \in Changes => i \in {3, 4, 5}
    <3>1. s[1].op \notin Changes /\ s[2].op \notin Changes /\ s[6].op \notin Changes
      BY <2>4 DEF Changes
    <3>2. QED
      BY <2>7, <3>1
  <2>10. \A i \in 1 .. 6 : ~Real(s[i])
    <3>1. ~Real(s[1]) /\ ~Real(s[2]) /\ ~Real(s[3]) /\ ~Real(s[4]) /\ ~Real(s[5]) /\ ~Real(s[6])
      BY <2>4 DEF Real
    <3>2. QED
      BY <2>7, <3>1
  <2>11. Follows(s[3], s[4], name, o) /\ Follows(s[3], s[5], name, o) /\ Follows(s[4], s[5], name, o)
    <3>1. /\ s[3].rows = LinksOf(o, FirstKind(name)) /\ s[4].rows = LinksOf(o, SecondKind(name))
          /\ s[5].rows = {o}
      BY <2>6, WriteKinds
    <3>2. QED
      BY <2>4, <2>5, <3>1, FollowsIf
  <2> HIDE DEF s, asked, name
  <2>12. \A i, j \in 1 .. 6 : i < j /\ s[i].op \in Changes /\ s[j].op \in Changes => Follows(s[i], s[j], name, o)
    BY <2>9, <2>11
  <2>13. 6 \in Nat \ {0}
    OBVIOUS
  <2>14. \A i \in 2 .. 6 : s[i - 1].op = "skip" => ~Real(s[i])
    <3>1. \A i \in 1 .. 6 : s[i].op # "skip"
      BY <2>4, <2>7
    <3>2. \A i \in 2 .. 6 : i - 1 \in 1 .. 6
      OBVIOUS
    <3>3. QED
      BY <3>1, <3>2
  <2>15. \A i \in 1 .. 6 : Apt(s[i], name, o) /\ (Real(s[i]) => s[i].rows \subseteq Others(name))
    BY <2>8, <2>10
  <2>16. name \in Singles \cup Writers /\ o \in Own(name) /\ name # "UpdateScope"
    BY <2>5, <2>6
  <2>17. Script(s, name, o) /\ s # <<>>
    BY <2>3, <2>14, <2>15, <2>12, <2>13, <2>16, TupleScript
  <2>18. QED
    BY <2>2, <2>17, ServePlays
<1>4. CASE AttachRoleToUser(r)
  <2>1. PICK u \in Users \cap DOMAIN db, v \in Users, o \in Roles :
          Serve(r, "AttachRoleToUser", Has(u, "ROLES"), {{v, o}},
                <<Begin, First(v), First(o), Check({{v, o}}, FALSE, "error"),
                  Create({{v, o}}, Nothing), Commit, Reload(v)>>)
    BY <1>4, Zenon DEF AttachRoleToUser
  <2> DEFINE name == "AttachRoleToUser"
             asked == {{v, o}}
             A == Check({{v, o}}, FALSE, "error")
             s == <<Begin, First(v), First(o), A, Create({{v, o}}, Nothing), Commit, Reload(v)>>
  <2>2. A.op = "check"
    BY DEF Check
  <2>3. Serve(r, name, Has(u, "ROLES"), asked, s)
    BY <2>1, Zenon DEF A
  <2> HIDE DEF A
  <2>4. Tuple(s, 7)
    BY DEF Tuple
  <2>5. /\ s[1].op = "begin" /\ s[2].op = "check" /\ s[3].op = "check"
        /\ s[4].op = "check" /\ s[5].op = "create" /\ s[6].op = "commit"
        /\ s[7].op = "check"
    BY <2>2, Kinds
  <2>6. name \in Singles /\ (name = "UpdateScope" <=> FALSE)
    BY DEF Writers, Singles, Makers, Setters, Deleters, Changers, Exchangers, Replacers
  <2>7. v \in Own(name)
    BY KindsOf DEF Singles, Unused, Some, RolesOf
  <2>8. \A i \in 1 .. 7 : i = 1 \/ i = 2 \/ i = 3 \/ i = 4 \/ i = 5 \/ i = 6 \/ i = 7
    OBVIOUS
  <2>9. \A i \in 1 .. 7 : Apt(s[i], name, v)
    <3>1. Apt(s[1], name, v) /\ Apt(s[2], name, v) /\ Apt(s[3], name, v) /\ Apt(s[4], name, v)
      BY <2>5, <2>6 DEF Apt
    <3>2. Apt(s[5], name, v) /\ Apt(s[6], name, v) /\ Apt(s[7], name, v)
      BY <2>5, <2>6 DEF Apt
    <3>3. QED
      BY <2>8, <3>1, <3>2
  <2>10. \A i \in 1 .. 7 : s[i].op \in Changes => i \in {5}
    <3>1. /\ s[1].op \notin Changes /\ s[2].op \notin Changes /\ s[3].op \notin Changes
          /\ s[4].op \notin Changes /\ s[6].op \notin Changes /\ s[7].op \notin Changes
      BY <2>5 DEF Changes
    <3>2. QED
      BY <2>8, <3>1
  <2>11. \A i \in 1 .. 7 : ~Real(s[i])
    <3>1. ~Real(s[1]) /\ ~Real(s[2]) /\ ~Real(s[3]) /\ ~Real(s[4]) /\ ~Real(s[5]) /\ ~Real(s[6]) /\ ~Real(s[7])
      BY <2>5 DEF Real
    <3>2. QED
      BY <2>8, <3>1
  <2> HIDE DEF s, asked, name
  <2>12. \A i, j \in 1 .. 7 : i < j /\ s[i].op \in Changes /\ s[j].op \in Changes => Follows(s[i], s[j], name, v)
    BY <2>10
  <2>13. 7 \in Nat \ {0}
    OBVIOUS
  <2>14. \A i \in 2 .. 7 : s[i - 1].op = "skip" => ~Real(s[i])
    <3>1. \A i \in 1 .. 7 : s[i].op # "skip"
      BY <2>5, <2>8
    <3>2. \A i \in 2 .. 7 : i - 1 \in 1 .. 7
      OBVIOUS
    <3>3. QED
      BY <3>1, <3>2
  <2>15. \A i \in 1 .. 7 : Apt(s[i], name, v) /\ (Real(s[i]) => s[i].rows \subseteq Others(name))
    BY <2>9, <2>11
  <2>16. name \in Singles \cup Writers /\ v \in Own(name) /\ name # "UpdateScope"
    BY <2>6, <2>7
  <2>17. Script(s, name, v) /\ s # <<>>
    BY <2>4, <2>14, <2>15, <2>12, <2>13, <2>16, TupleScript
  <2>18. QED
    BY <2>3, <2>17, ServePlays
<1>5. CASE DetachRoleFromUser(r)
  <2>1. PICK u \in Users \cap DOMAIN db, v \in Users, o \in Roles :
          Serve(r, "DetachRoleFromUser", Has(u, "ROLES"), {},
                <<Begin, First(v), First(o), First({v, o}), Delete({{v, o}}), Commit, Reload(v)>>)
    BY <1>5, Zenon DEF DetachRoleFromUser
  <2> DEFINE name == "DetachRoleFromUser"
             asked == {}
             s == <<Begin, First(v), First(o), First({v, o}), Delete({{v, o}}), Commit, Reload(v)>>
  <2>2. Serve(r, name, Has(u, "ROLES"), asked, s)
    BY <2>1, Zenon
  <2>3. Tuple(s, 7)
    BY DEF Tuple
  <2>4. /\ s[1].op = "begin" /\ s[2].op = "check" /\ s[3].op = "check"
        /\ s[4].op = "check" /\ s[5].op = "delete" /\ s[6].op = "commit"
        /\ s[7].op = "check"
    BY Kinds
  <2>5. name \in Singles /\ (name = "UpdateScope" <=> FALSE)
    BY DEF Writers, Singles, Makers, Setters, Deleters, Changers, Exchangers, Replacers
  <2>6. v \in Own(name)
    BY KindsOf DEF Singles, Unused, Some, RolesOf
  <2>7. \A i \in 1 .. 7 : i = 1 \/ i = 2 \/ i = 3 \/ i = 4 \/ i = 5 \/ i = 6 \/ i = 7
    OBVIOUS
  <2>8. \A i \in 1 .. 7 : Apt(s[i], name, v)
    <3>1. Apt(s[1], name, v) /\ Apt(s[2], name, v) /\ Apt(s[3], name, v) /\ Apt(s[4], name, v)
      BY <2>4, <2>5 DEF Apt
    <3>2. s[5].rows \subseteq Links
      BY WriteKinds DEF Links, Pairs
    <3>3. Apt(s[5], name, v) /\ Apt(s[6], name, v) /\ Apt(s[7], name, v)
      BY <2>4, <2>5, <3>2 DEF Apt
    <3>4. QED
      BY <2>7, <3>1, <3>3
  <2>9. \A i \in 1 .. 7 : s[i].op \in Changes => i \in {5}
    <3>1. /\ s[1].op \notin Changes /\ s[2].op \notin Changes /\ s[3].op \notin Changes
          /\ s[4].op \notin Changes /\ s[6].op \notin Changes /\ s[7].op \notin Changes
      BY <2>4 DEF Changes
    <3>2. QED
      BY <2>7, <3>1
  <2>10. \A i \in 1 .. 7 : ~Real(s[i])
    <3>1. ~Real(s[1]) /\ ~Real(s[2]) /\ ~Real(s[3]) /\ ~Real(s[4]) /\ ~Real(s[5]) /\ ~Real(s[6]) /\ ~Real(s[7])
      BY <2>4 DEF Real
    <3>2. QED
      BY <2>7, <3>1
  <2> HIDE DEF s, asked, name
  <2>11. \A i, j \in 1 .. 7 : i < j /\ s[i].op \in Changes /\ s[j].op \in Changes => Follows(s[i], s[j], name, v)
    BY <2>9
  <2>12. 7 \in Nat \ {0}
    OBVIOUS
  <2>13. \A i \in 2 .. 7 : s[i - 1].op = "skip" => ~Real(s[i])
    <3>1. \A i \in 1 .. 7 : s[i].op # "skip"
      BY <2>4, <2>7
    <3>2. \A i \in 2 .. 7 : i - 1 \in 1 .. 7
      OBVIOUS
    <3>3. QED
      BY <3>1, <3>2
  <2>14. \A i \in 1 .. 7 : Apt(s[i], name, v) /\ (Real(s[i]) => s[i].rows \subseteq Others(name))
    BY <2>8, <2>10
  <2>15. name \in Singles \cup Writers /\ v \in Own(name) /\ name # "UpdateScope"
    BY <2>5, <2>6
  <2>16. Script(s, name, v) /\ s # <<>>
    BY <2>3, <2>13, <2>14, <2>11, <2>12, <2>15, TupleScript
  <2>17. QED
    BY <2>2, <2>16, ServePlays
<1>6. CASE CreateScope(r)
  <2>1. PICK u \in Users \cap DOMAIN db, x \in Unused(Scopes), K \in Some(Catalogs) :
          Serve(r, "CreateScope", Has(u, "SCOPES"), {x} \cup LinksOf(x, K),
                <<Begin, Find(K, "all"), Create({x}, Nothing), Find(K, "any"), Associate(x), Commit,
                  Reload(x)>>)
    BY <1>6, Zenon DEF CreateScope
  <2> DEFINE name == "CreateScope"
             asked == {x} \cup LinksOf(x, K)
             A == Create({x}, Nothing)
             s == <<Begin, Find(K, "all"), A, Find(K, "any"), Associate(x), Commit, Reload(x)>>
  <2>2. A.op = "create" /\ A.rows = {x}
    BY DEF Create
  <2>3. Serve(r, name, Has(u, "SCOPES"), asked, s)
    BY <2>1, Zenon DEF A
  <2> HIDE DEF A
  <2>4. Tuple(s, 7)
    BY DEF Tuple
  <2>5. /\ s[1].op = "begin" /\ s[2].op = "find" /\ s[3].op = "create"
        /\ s[4].op = "find" /\ s[5].op = "append" /\ s[6].op = "commit"
        /\ s[7].op = "check"
    BY <2>2, Kinds
  <2>6. name \in Makers /\ name \in Writers /\ name \notin Deleters /\ (name = "UpdateScope" <=> FALSE)
    BY DEF Writers, Singles, Makers, Setters, Deleters, Changers, Exchangers, Replacers
  <2>7. x \in Own(name) /\ K \subseteq Others(name)
    BY KindsOf DEF Singles, Unused, Some, RolesOf
  <2>8. \A i \in 1 .. 7 : i = 1 \/ i = 2 \/ i = 3 \/ i = 4 \/ i = 5 \/ i = 6 \/ i = 7
    OBVIOUS
  <2>9. \A i \in 1 .. 7 : Apt(s[i], name, x)
    <3>1. Apt(s[1], name, x) /\ Apt(s[2], name, x) /\ Apt(s[3], name, x) /\ Apt(s[4], name, x)
      BY <2>2, <2>5, <2>6, <2>7, AptCalls, RowKinds DEF Looks
    <3>2. Apt(s[5], name, x) /\ Apt(s[6], name, x) /\ Apt(s[7], name, x)
      BY <2>2, <2>5, <2>6, <2>7, AptCalls, RowKinds DEF Looks
    <3>3. QED
      BY <2>8, <3>1, <3>2
  <2>10. \A i \in 1 .. 7 : s[i].op \in Changes => i \in {3, 5}
    <3>1. /\ s[1].op \notin Changes /\ s[2].op \notin Changes /\ s[4].op \notin Changes
          /\ s[6].op \notin Changes /\ s[7].op \notin Changes
      BY <2>5 DEF Changes
    <3>2. QED
      BY <2>8, <3>1
  <2>11. \A i \in 1 .. 7 : Real(s[i]) => s[i].rows \subseteq Others(name)
    <3>1. s[2].rows \subseteq Others(name) /\ s[4].rows \subseteq Others(name)
      BY <2>7, RowKinds
    <3>2. ~Real(s[1]) /\ ~Real(s[3]) /\ ~Real(s[5]) /\ ~Real(s[6]) /\ ~Real(s[7])
      BY <2>5 DEF Real
    <3>3. QED
      BY <2>8, <3>1, <3>2
  <2>12. Follows(s[3], s[5], name, x)
    BY <2>5, <2>6, FollowsIf
  <2> HIDE DEF s, asked, name
  <2>13. \A i, j \in 1 .. 7 : i < j /\ s[i].op \in Changes /\ s[j].op \in Changes => Follows(s[i], s[j], name, x)
    BY <2>10, <2>12
  <2>14. 7 \in Nat \ {0}
    OBVIOUS
  <2>15. \A i \in 2 .. 7 : s[i - 1].op = "skip" => ~Real(s[i])
    <3>1. \A i \in 1 .. 7 : s[i].op # "skip"
      BY <2>5, <2>8
    <3>2. \A i \in 2 .. 7 : i - 1 \in 1 .. 7
      OBVIOUS
    <3>3. QED
      BY <3>1, <3>2
  <2>16. \A i \in 1 .. 7 : Apt(s[i], name, x) /\ (Real(s[i]) => s[i].rows \subseteq Others(name))
    BY <2>9, <2>11
  <2>17. name \in Singles \cup Writers /\ x \in Own(name) /\ name # "UpdateScope"
    BY <2>6, <2>7
  <2>18. Script(s, name, x) /\ s # <<>>
    BY <2>4, <2>15, <2>16, <2>13, <2>14, <2>17, TupleScript
  <2>19. QED
    BY <2>3, <2>18, ServePlays
<1>7. CASE UpdateScope(r)
  <2>1. PICK u \in Users \cap DOMAIN db, x \in Scopes, K \in Some(Catalogs) :
          Serve(r, "UpdateScope", Has(u, "SCOPES"), LinksOf(x, K),
                <<Load(x), Begin, Find(K, "count"), Save(x), Find(K, "any")>>
                   \o Replace(x, Catalogs) \o <<Commit, Reload(x)>>)
    BY <1>7, Zenon DEF UpdateScope
  <2> DEFINE name == "UpdateScope"
             asked == LinksOf(x, K)
             s == <<Load(x), Begin, Find(K, "count"), Save(x), Find(K, "any"), Associate(x), Trim(x, Catalogs), Commit,
                       Reload(x)>>
  <2>2. s = (<<Load(x), Begin, Find(K, "count"), Save(x), Find(K, "any")>>
               \o Replace(x, Catalogs)) \o <<Commit, Reload(x)>>
    BY DEF Replace
  <2>3. Serve(r, name, Has(u, "SCOPES"), asked, s)
    BY <2>1, <2>2
  <2>4. Tuple(s, 9)
    BY DEF Tuple
  <2>5. /\ s[1].op = "load" /\ s[2].op = "begin" /\ s[3].op = "find"
        /\ s[4].op = "save" /\ s[5].op = "find" /\ s[6].op = "append"
        /\ s[7].op = "trim" /\ s[8].op = "commit" /\ s[9].op = "check"
    BY Kinds
  <2>6. /\ name \in Replacers /\ name \in Changers \ {"UpdateUserRoles"} /\ name \in Writers
        /\ name \notin Deleters /\ (name = "UpdateScope" <=> TRUE)
    BY DEF Writers, Singles, Makers, Setters, Deleters, Changers, Exchangers, Replacers
  <2>7. x \in Own(name) /\ K \subseteq Others(name) /\ Catalogs \in SUBSET Others(name)
    BY KindsOf DEF Singles, Unused, Some, RolesOf
  <2>8. \A i \in 1 .. 9 : i = 1 \/ i = 2 \/ i = 3 \/ i = 4 \/ i = 5 \/ i = 6 \/ i = 7 \/ i = 8 \/ i = 9
    OBVIOUS
  <2>9. \A i \in 1 .. 9 : Apt(s[i], name, x)
    <3>1. Apt(s[1], name, x) /\ Apt(s[2], name, x) /\ Apt(s[3], name, x) /\ Apt(s[4], name, x) /\ Apt(s[5], name, x)
      BY <2>5, <2>6, <2>7, AptCalls, RowKinds DEF Looks
    <3>2. Apt(s[6], name, x) /\ Apt(s[7], name, x) /\ Apt(s[8], name, x) /\ Apt(s[9], name, x)
      BY <2>5, <2>6, <2>7, AptCalls, RowKinds DEF Looks
    <3>3. QED
      BY <2>8, <3>1, <3>2
  <2>10. \A i \in 1 .. 9 : s[i].op \in Changes => i \in {4, 6, 7}
    <3>1. /\ s[1].op \notin Changes /\ s[2].op \notin Changes /\ s[3].op \notin Changes
          /\ s[5].op \notin Changes /\ s[8].op \notin Changes /\ s[9].op \notin Changes
      BY <2>5 DEF Changes
    <3>2. QED
      BY <2>8, <3>1
  <2>11. \A i \in 1 .. 9 : Real(s[i]) => s[i].rows \subseteq Others(name)
    <3>1. s[3].rows \subseteq Others(name) /\ s[5].rows \subseteq Others(name)
      BY <2>7, RowKinds
    <3>2. ~Real(s[1]) /\ ~Real(s[2]) /\ ~Real(s[4]) /\ ~Real(s[6]) /\ ~Real(s[7]) /\ ~Real(s[8]) /\ ~Real(s[9])
      BY <2>5 DEF Real
    <3>3. QED
      BY <2>8, <3>1, <3>2
  <2>12. Follows(s[4], s[6], name, x) /\ Follows(s[4], s[7], name, x) /\ Follows(s[6], s[7], name, x)
    BY <2>5, <2>6, ClassesApart DEF Follows
  <2>13. s[3].need = "count"
    BY RowKinds
  <2> HIDE DEF s, asked, name
  <2>14. \A i, j \in 1 .. 9 : i < j /\ s[i].op \in Changes /\ s[j].op \in Changes => Follows(s[i], s[j], name, x)
    BY <2>10, <2>12
  <2>15. 9 \in Nat \ {0}
    OBVIOUS
  <2>16. \A i \in 2 .. 9 : s[i - 1].op = "skip" => ~Real(s[i])
    <3>1. \A i \in 1 .. 9 : s[i].op # "skip"
      BY <2>5, <2>8
    <3>2. \A i \in 2 .. 9 : i - 1 \in 1 .. 9
      OBVIOUS
    <3>3. QED
      BY <3>1, <3>2
  <2>17. \E b \in 1 .. 9 : /\ s[b].op = "save"
                           /\ \A i \in 1 .. 9 : s[i].op \in Changes \/ Real(s[i]) => b <= i
    <3>1. ~Real(s[1]) /\ ~Real(s[2]) /\ ~Real(s[3])
      BY <2>5, <2>13 DEF Real
    <3>2. \A i \in 1 .. 9 : s[i].op \in Changes \/ Real(s[i]) => 4 <= i
      BY <2>8, <2>10, <3>1
    <3>3. QED
      BY <2>5, <3>2
  <2>18. \A i \in 1 .. 9 : Apt(s[i], name, x) /\ (Real(s[i]) => s[i].rows \subseteq Others(name))
    BY <2>9, <2>11
  <2>19. name \in Singles \cup Writers /\ x \in Own(name)
    BY <2>6, <2>7
  <2>20. Script(s, name, x) /\ s # <<>>
    BY <2>4, <2>16, <2>18, <2>14, <2>15, <2>17, <2>19, TupleScript
  <2>21. QED
    BY <2>3, <2>20, ServePlays
<1>8. CASE DeleteScope(r)
  <2>1. PICK u \in Users \cap DOMAIN db, x \in Scopes :
          Serve(r, "DeleteScope", Has(u, "SCOPES"), {},
                <<Begin, First(x), Check({g \in Groups : ScopeOf[g] = x}, FALSE, "error"),
                  Delete(LinksOf(x, Catalogs)), Delete(LinksOf(x, Roles)), Delete({x}), Commit>>)
    BY <1>8, Zenon DEF DeleteScope
  <2> DEFINE name == "DeleteScope"
             asked == {}
             A == Check({g \in Groups : ScopeOf[g] = x}, FALSE, "error")
             s == <<Begin, First(x), A, Delete(LinksOf(x, Catalogs)), Delete(LinksOf(x, Roles)), Delete({x}), Commit>>
  <2>2. A.op = "check"
    BY DEF Check
  <2>3. Serve(r, name, Has(u, "SCOPES"), asked, s)
    BY <2>1, Zenon DEF A
  <2> HIDE DEF A
  <2>4. Tuple(s, 7)
    BY DEF Tuple
  <2>5. /\ s[1].op = "begin" /\ s[2].op = "check" /\ s[3].op = "check"
        /\ s[4].op = "delete" /\ s[5].op = "delete" /\ s[6].op = "delete"
        /\ s[7].op = "commit"
    BY <2>2, Kinds
  <2>6. name \in Deleters /\ name \in Writers /\ (name = "UpdateScope" <=> FALSE)
    BY DEF Writers, Singles, Makers, Setters, Deleters, Changers, Exchangers, Replacers
  <2>7. x \in Own(name) /\ FirstKind(name) = Catalogs /\ SecondKind(name) = Roles
    BY KindsOf DEF Singles, Unused, Some, RolesOf
  <2>8. \A i \in 1 .. 7 : i = 1 \/ i = 2 \/ i = 3 \/ i = 4 \/ i = 5 \/ i = 6 \/ i = 7
    OBVIOUS
  <2>9. \A i \in 1 .. 7 : Apt(s[i], name, x)
    <3>1. Apt(s[1], name, x) /\ Apt(s[2], name, x) /\ Apt(s[3], name, x) /\ Apt(s[4], name, x)
      BY <2>2, <2>5, <2>6, <2>7, AptCalls, RowKinds DEF Looks
    <3>2. Apt(s[5], name, x) /\ Apt(s[6], name, x) /\ Apt(s[7], name, x)
      BY <2>2, <2>5, <2>6, <2>7, AptCalls, RowKinds DEF Looks
    <3>3. QED
      BY <2>8, <3>1, <3>2
  <2>10. \A i \in 1 .. 7 : s[i].op \in Changes => i \in {4, 5, 6}
    <3>1. s[1].op \notin Changes /\ s[2].op \notin Changes /\ s[3].op \notin Changes /\ s[7].op \notin Changes
      BY <2>5 DEF Changes
    <3>2. QED
      BY <2>8, <3>1
  <2>11. \A i \in 1 .. 7 : ~Real(s[i])
    <3>1. ~Real(s[1]) /\ ~Real(s[2]) /\ ~Real(s[3]) /\ ~Real(s[4]) /\ ~Real(s[5]) /\ ~Real(s[6]) /\ ~Real(s[7])
      BY <2>5 DEF Real
    <3>2. QED
      BY <2>8, <3>1
  <2>12. Follows(s[4], s[5], name, x) /\ Follows(s[4], s[6], name, x) /\ Follows(s[5], s[6], name, x)
    <3>1. /\ s[4].rows = LinksOf(x, FirstKind(name)) /\ s[5].rows = LinksOf(x, SecondKind(name))
          /\ s[6].rows = {x}
      BY <2>7, WriteKinds
    <3>2. QED
      BY <2>5, <2>6, <3>1, FollowsIf
  <2> HIDE DEF s, asked, name
  <2>13. \A i, j \in 1 .. 7 : i < j /\ s[i].op \in Changes /\ s[j].op \in Changes => Follows(s[i], s[j], name, x)
    BY <2>10, <2>12
  <2>14. 7 \in Nat \ {0}
    OBVIOUS
  <2>15. \A i \in 2 .. 7 : s[i - 1].op = "skip" => ~Real(s[i])
    <3>1. \A i \in 1 .. 7 : s[i].op # "skip"
      BY <2>5, <2>8
    <3>2. \A i \in 2 .. 7 : i - 1 \in 1 .. 7
      OBVIOUS
    <3>3. QED
      BY <3>1, <3>2
  <2>16. \A i \in 1 .. 7 : Apt(s[i], name, x) /\ (Real(s[i]) => s[i].rows \subseteq Others(name))
    BY <2>9, <2>11
  <2>17. name \in Singles \cup Writers /\ x \in Own(name) /\ name # "UpdateScope"
    BY <2>6, <2>7
  <2>18. Script(s, name, x) /\ s # <<>>
    BY <2>4, <2>15, <2>16, <2>13, <2>14, <2>17, TupleScript
  <2>19. QED
    BY <2>3, <2>18, ServePlays
<1>9. CASE AttachScopeToRole(r)
  <2>1. PICK u \in Users \cap DOMAIN db, x \in Scopes, o \in Roles :
          Serve(r, "AttachScopeToRole", Has(u, "SCOPES"), {{x, o}},
                <<Begin, First(x), Find({o}, "some"), SkipIf({{x, o}}), Associate(x), Commit, Reload(x)>>)
    BY <1>9, Zenon DEF AttachScopeToRole
  <2> DEFINE name == "AttachScopeToRole"
             asked == {{x, o}}
             s == <<Begin, First(x), Find({o}, "some"), SkipIf({{x, o}}), Associate(x), Commit, Reload(x)>>
  <2>2. Serve(r, name, Has(u, "SCOPES"), asked, s)
    BY <2>1, Zenon
  <2>3. Tuple(s, 7)
    BY DEF Tuple
  <2>4. /\ s[1].op = "begin" /\ s[2].op = "check" /\ s[3].op = "find"
        /\ s[4].op = "skip" /\ s[5].op = "append" /\ s[6].op = "commit"
        /\ s[7].op = "check"
    BY Kinds
  <2>5. name \in Singles /\ (name = "UpdateScope" <=> FALSE)
    BY DEF Writers, Singles, Makers, Setters, Deleters, Changers, Exchangers, Replacers
  <2>6. u \in Own(name) /\ {o} \subseteq Others(name)
    BY KindsOf DEF Singles, Unused, Some, RolesOf
  <2>7. \A i \in 1 .. 7 : i = 1 \/ i = 2 \/ i = 3 \/ i = 4 \/ i = 5 \/ i = 6 \/ i = 7
    OBVIOUS
  <2>8. \A i \in 1 .. 7 : Apt(s[i], name, u)
    <3>1. Apt(s[1], name, u) /\ Apt(s[2], name, u) /\ Apt(s[3], name, u) /\ Apt(s[4], name, u)
      BY <2>4, <2>5 DEF Apt
    <3>2. Apt(s[5], name, u) /\ Apt(s[6], name, u) /\ Apt(s[7], name, u)
      BY <2>4, <2>5 DEF Apt
    <3>3. QED
      BY <2>7, <3>1, <3>2
  <2>9. \A i \in 1 .. 7 : s[i].op \in Changes => i \in {5}
    <3>1. /\ s[1].op \notin Changes /\ s[2].op \notin Changes /\ s[3].op \notin Changes
          /\ s[4].op \notin Changes /\ s[6].op \notin Changes /\ s[7].op \notin Changes
      BY <2>4 DEF Changes
    <3>2. QED
      BY <2>7, <3>1
  <2>10. \A i \in 1 .. 7 : Real(s[i]) => s[i].rows \subseteq Others(name)
    <3>1. s[3].rows \subseteq Others(name)
      BY <2>6, RowKinds
    <3>2. ~Real(s[1]) /\ ~Real(s[2]) /\ ~Real(s[4]) /\ ~Real(s[5]) /\ ~Real(s[6]) /\ ~Real(s[7])
      BY <2>4 DEF Real
    <3>3. QED
      BY <2>7, <3>1, <3>2
  <2> HIDE DEF s, asked, name
  <2>11. \A i, j \in 1 .. 7 : i < j /\ s[i].op \in Changes /\ s[j].op \in Changes => Follows(s[i], s[j], name, u)
    BY <2>9
  <2>12. 7 \in Nat \ {0}
    OBVIOUS
  <2>13. \A i \in 2 .. 7 : s[i - 1].op = "skip" => ~Real(s[i])
    <3>1. \A i \in 2 .. 7 : i - 1 \in 1 .. 7 /\ (i - 1 = 4 => i = 5)
      OBVIOUS
    <3>2. QED
      BY <2>4, <2>7, <3>1 DEF Real
  <2>14. \A i \in 1 .. 7 : Apt(s[i], name, u) /\ (Real(s[i]) => s[i].rows \subseteq Others(name))
    BY <2>8, <2>10
  <2>15. name \in Singles \cup Writers /\ u \in Own(name) /\ name # "UpdateScope"
    BY <2>5, <2>6
  <2>16. Script(s, name, u) /\ s # <<>>
    BY <2>3, <2>13, <2>14, <2>11, <2>12, <2>15, TupleScript
  <2>17. QED
    BY <2>2, <2>16, ServePlays
<1>10. CASE DetachScopeFromRole(r)
  <2>1. PICK u \in Users \cap DOMAIN db, x \in Scopes, o \in Roles :
          Serve(r, "DetachScopeFromRole", Has(u, "SCOPES"), {},
                <<Begin, First(x), First(o), Delete({{x, o}}), Commit, Reload(x)>>)
    BY <1>10, Zenon DEF DetachScopeFromRole
  <2> DEFINE name == "DetachScopeFromRole"
             asked == {}
             s == <<Begin, First(x), First(o), Delete({{x, o}}), Commit, Reload(x)>>
  <2>2. Serve(r, name, Has(u, "SCOPES"), asked, s)
    BY <2>1, Zenon
  <2>3. Tuple(s, 6)
    BY DEF Tuple
  <2>4. /\ s[1].op = "begin" /\ s[2].op = "check" /\ s[3].op = "check"
        /\ s[4].op = "delete" /\ s[5].op = "commit" /\ s[6].op = "check"
    BY Kinds
  <2>5. name \in Singles /\ (name = "UpdateScope" <=> FALSE)
    BY DEF Writers, Singles, Makers, Setters, Deleters, Changers, Exchangers, Replacers
  <2>6. u \in Own(name)
    BY KindsOf DEF Singles, Unused, Some, RolesOf
  <2>7. \A i \in 1 .. 6 : i = 1 \/ i = 2 \/ i = 3 \/ i = 4 \/ i = 5 \/ i = 6
    OBVIOUS
  <2>8. \A i \in 1 .. 6 : Apt(s[i], name, u)
    <3>1. Apt(s[1], name, u) /\ Apt(s[2], name, u) /\ Apt(s[3], name, u)
      BY <2>4, <2>5 DEF Apt
    <3>2. s[4].rows \subseteq Links
      BY WriteKinds DEF Links, Pairs
    <3>3. Apt(s[4], name, u) /\ Apt(s[5], name, u) /\ Apt(s[6], name, u)
      BY <2>4, <2>5, <3>2 DEF Apt
    <3>4. QED
      BY <2>7, <3>1, <3>3
  <2>9. \A i \in 1 .. 6 : s[i].op \in Changes => i \in {4}
    <3>1. /\ s[1].op \notin Changes /\ s[2].op \notin Changes /\ s[3].op \notin Changes
          /\ s[5].op \notin Changes /\ s[6].op \notin Changes
      BY <2>4 DEF Changes
    <3>2. QED
      BY <2>7, <3>1
  <2>10. \A i \in 1 .. 6 : ~Real(s[i])
    <3>1. ~Real(s[1]) /\ ~Real(s[2]) /\ ~Real(s[3]) /\ ~Real(s[4]) /\ ~Real(s[5]) /\ ~Real(s[6])
      BY <2>4 DEF Real
    <3>2. QED
      BY <2>7, <3>1
  <2> HIDE DEF s, asked, name
  <2>11. \A i, j \in 1 .. 6 : i < j /\ s[i].op \in Changes /\ s[j].op \in Changes => Follows(s[i], s[j], name, u)
    BY <2>9
  <2>12. 6 \in Nat \ {0}
    OBVIOUS
  <2>13. \A i \in 2 .. 6 : s[i - 1].op = "skip" => ~Real(s[i])
    <3>1. \A i \in 1 .. 6 : s[i].op # "skip"
      BY <2>4, <2>7
    <3>2. \A i \in 2 .. 6 : i - 1 \in 1 .. 6
      OBVIOUS
    <3>3. QED
      BY <3>1, <3>2
  <2>14. \A i \in 1 .. 6 : Apt(s[i], name, u) /\ (Real(s[i]) => s[i].rows \subseteq Others(name))
    BY <2>8, <2>10
  <2>15. name \in Singles \cup Writers /\ u \in Own(name) /\ name # "UpdateScope"
    BY <2>5, <2>6
  <2>16. Script(s, name, u) /\ s # <<>>
    BY <2>3, <2>13, <2>14, <2>11, <2>12, <2>15, TupleScript
  <2>17. QED
    BY <2>2, <2>16, ServePlays
<1>11. CASE CreateUserAndAttachRoles(r)
  <2>1. PICK u \in Users \cap DOMAIN db, v \in Unused(Users), O \in Some(Roles) :
          Serve(r, "CreateUserAndAttachRoles", Has(u, "ROLES") /\ O # {}, {v} \cup LinksOf(v, O),
                <<Begin, Find(O, "some"), Create({v}, Nothing), Associate(v), Commit, Reload(v)>>)
    BY <1>11, Zenon DEF CreateUserAndAttachRoles
  <2> DEFINE name == "CreateUserAndAttachRoles"
             asked == {v} \cup LinksOf(v, O)
             A == Create({v}, Nothing)
             s == <<Begin, Find(O, "some"), A, Associate(v), Commit, Reload(v)>>
  <2>2. A.op = "create" /\ A.rows = {v}
    BY DEF Create
  <2>3. Serve(r, name, Has(u, "ROLES") /\ O # {}, asked, s)
    BY <2>1, Zenon DEF A
  <2> HIDE DEF A
  <2>4. Tuple(s, 6)
    BY DEF Tuple
  <2>5. /\ s[1].op = "begin" /\ s[2].op = "find" /\ s[3].op = "create"
        /\ s[4].op = "append" /\ s[5].op = "commit" /\ s[6].op = "check"
    BY <2>2, Kinds
  <2>6. name \in Makers /\ name \in Writers /\ name \notin Deleters /\ (name = "UpdateScope" <=> FALSE)
    BY DEF Writers, Singles, Makers, Setters, Deleters, Changers, Exchangers, Replacers
  <2>7. v \in Own(name) /\ O \subseteq Others(name)
    BY KindsOf DEF Singles, Unused, Some, RolesOf
  <2>8. \A i \in 1 .. 6 : i = 1 \/ i = 2 \/ i = 3 \/ i = 4 \/ i = 5 \/ i = 6
    OBVIOUS
  <2>9. \A i \in 1 .. 6 : Apt(s[i], name, v)
    <3>1. Apt(s[1], name, v) /\ Apt(s[2], name, v) /\ Apt(s[3], name, v)
      BY <2>2, <2>5, <2>6, <2>7, AptCalls, RowKinds DEF Looks
    <3>2. Apt(s[4], name, v) /\ Apt(s[5], name, v) /\ Apt(s[6], name, v)
      BY <2>2, <2>5, <2>6, <2>7, AptCalls, RowKinds DEF Looks
    <3>3. QED
      BY <2>8, <3>1, <3>2
  <2>10. \A i \in 1 .. 6 : s[i].op \in Changes => i \in {3, 4}
    <3>1. s[1].op \notin Changes /\ s[2].op \notin Changes /\ s[5].op \notin Changes /\ s[6].op \notin Changes
      BY <2>5 DEF Changes
    <3>2. QED
      BY <2>8, <3>1
  <2>11. \A i \in 1 .. 6 : Real(s[i]) => s[i].rows \subseteq Others(name)
    <3>1. s[2].rows \subseteq Others(name)
      BY <2>7, RowKinds
    <3>2. ~Real(s[1]) /\ ~Real(s[3]) /\ ~Real(s[4]) /\ ~Real(s[5]) /\ ~Real(s[6])
      BY <2>5 DEF Real
    <3>3. QED
      BY <2>8, <3>1, <3>2
  <2>12. Follows(s[3], s[4], name, v)
    BY <2>5, <2>6, FollowsIf
  <2> HIDE DEF s, asked, name
  <2>13. \A i, j \in 1 .. 6 : i < j /\ s[i].op \in Changes /\ s[j].op \in Changes => Follows(s[i], s[j], name, v)
    BY <2>10, <2>12
  <2>14. 6 \in Nat \ {0}
    OBVIOUS
  <2>15. \A i \in 2 .. 6 : s[i - 1].op = "skip" => ~Real(s[i])
    <3>1. \A i \in 1 .. 6 : s[i].op # "skip"
      BY <2>5, <2>8
    <3>2. \A i \in 2 .. 6 : i - 1 \in 1 .. 6
      OBVIOUS
    <3>3. QED
      BY <3>1, <3>2
  <2>16. \A i \in 1 .. 6 : Apt(s[i], name, v) /\ (Real(s[i]) => s[i].rows \subseteq Others(name))
    BY <2>9, <2>11
  <2>17. name \in Singles \cup Writers /\ v \in Own(name) /\ name # "UpdateScope"
    BY <2>6, <2>7
  <2>18. Script(s, name, v) /\ s # <<>>
    BY <2>4, <2>15, <2>16, <2>13, <2>14, <2>17, TupleScript
  <2>19. QED
    BY <2>3, <2>18, ServePlays
<1>12. CASE UpdateUserRoles(r)
  <2>1. PICK u \in Users \cap DOMAIN db, v \in Users, O \in Some(Roles) :
          Serve(r, "UpdateUserRoles", IsStaff(u), LinksOf(v, O),
                <<Begin, First(v), Find(O, "some"), Delete(LinksOf(v, Roles)), Associate(v), Commit,
                  Reload(v)>>)
    BY <1>12, Zenon DEF UpdateUserRoles
  <2> DEFINE name == "UpdateUserRoles"
             asked == LinksOf(v, O)
             s == <<Begin, First(v), Find(O, "some"), Delete(LinksOf(v, Roles)), Associate(v), Commit, Reload(v)>>
  <2>2. Serve(r, name, IsStaff(u), asked, s)
    BY <2>1, Zenon
  <2>3. Tuple(s, 7)
    BY DEF Tuple
  <2>4. /\ s[1].op = "begin" /\ s[2].op = "check" /\ s[3].op = "find"
        /\ s[4].op = "delete" /\ s[5].op = "append" /\ s[6].op = "commit"
        /\ s[7].op = "check"
    BY Kinds
  <2>5. /\ name \in Exchangers /\ name \in Changers \ {"UpdateScope"} /\ name \in Writers
        /\ name \notin Deleters /\ (name = "UpdateScope" <=> FALSE)
    BY DEF Writers, Singles, Makers, Setters, Deleters, Changers, Exchangers, Replacers
  <2>6. v \in Own(name) /\ O \subseteq Others(name) /\ FirstKind(name) = Roles
    BY KindsOf DEF Singles, Unused, Some, RolesOf
  <2>7. \A i \in 1 .. 7 : i = 1 \/ i = 2 \/ i = 3 \/ i = 4 \/ i = 5 \/ i = 6 \/ i = 7
    OBVIOUS
  <2>8. \A i \in 1 .. 7 : Apt(s[i], name, v)
    <3>1. Apt(s[1], name, v) /\ Apt(s[2], name, v) /\ Apt(s[3], name, v) /\ Apt(s[4], name, v)
      BY <2>4, <2>5, <2>6, AptCalls, RowKinds DEF Looks
    <3>2. Apt(s[5], name, v) /\ Apt(s[6], name, v) /\ Apt(s[7], name, v)
      BY <2>4, <2>5, <2>6, AptCalls, RowKinds DEF Looks
    <3>3. QED
      BY <2>7, <3>1, <3>2
  <2>9. \A i \in 1 .. 7 : s[i].op \in Changes => i \in {4, 5}
    <3>1. /\ s[1].op \notin Changes /\ s[2].op \notin Changes /\ s[3].op \notin Changes
          /\ s[6].op \notin Changes /\ s[7].op \notin Changes
      BY <2>4 DEF Changes
    <3>2. QED
      BY <2>7, <3>1
  <2>10. \A i \in 1 .. 7 : Real(s[i]) => s[i].rows \subseteq Others(name)
    <3>1. s[3].rows \subseteq Others(name)
      BY <2>6, RowKinds
    <3>2. ~Real(s[1]) /\ ~Real(s[2]) /\ ~Real(s[4]) /\ ~Real(s[5]) /\ ~Real(s[6]) /\ ~Real(s[7])
      BY <2>4 DEF Real
    <3>3. QED
      BY <2>7, <3>1, <3>2
  <2>11. Follows(s[4], s[5], name, v)
    BY <2>4, <2>5, FollowsIf
  <2> HIDE DEF s, asked, name
  <2>12. \A i, j \in 1 .. 7 : i < j /\ s[i].op \in Changes /\ s[j].op \in Changes => Follows(s[i], s[j], name, v)
    BY <2>9, <2>11
  <2>13. 7 \in Nat \ {0}
    OBVIOUS
  <2>14. \A i \in 2 .. 7 : s[i - 1].op = "skip" => ~Real(s[i])
    <3>1. \A i \in 1 .. 7 : s[i].op # "skip"
      BY <2>4, <2>7
    <3>2. \A i \in 2 .. 7 : i - 1 \in 1 .. 7
      OBVIOUS
    <3>3. QED
      BY <3>1, <3>2
  <2>15. \A i \in 1 .. 7 : Apt(s[i], name, v) /\ (Real(s[i]) => s[i].rows \subseteq Others(name))
    BY <2>8, <2>10
  <2>16. name \in Singles \cup Writers /\ v \in Own(name) /\ name # "UpdateScope"
    BY <2>5, <2>6
  <2>17. Script(s, name, v) /\ s # <<>>
    BY <2>3, <2>14, <2>15, <2>12, <2>13, <2>16, TupleScript
  <2>18. QED
    BY <2>2, <2>17, ServePlays
<1>13. CASE UpdateTargetUserProfile(r)
  <2> DEFINE name == "UpdateTargetUserProfile"
             links(v, X, all) == IF X = {} THEN <<>>
                            ELSE <<Find(X, "all"), Delete(LinksOf(v, all))>> \o Replace(v, all)
  <2>1. PICK u \in Users \cap DOMAIN db, v \in Users, O \in Some(Roles), G \in Some(Groups) :
          Serve(r, name, TRUE, LinksOf(v, O \cup G),
                ForUser(u, v, {"GROUPS", "OWNER"})
                  \o <<Begin, Updates(v, Nothing)>> \o links(v, O, Roles) \o links(v, G, Groups)
                  \o <<Commit, Reload(v)>>)
    BY <1>13 DEF UpdateTargetUserProfile
  <2> DEFINE F == ForUser(u, v, {"GROUPS", "OWNER"})
             A == <<Begin, Updates(v, Nothing)>>
             L1 == links(v, O, Roles)
             L2 == links(v, G, Groups)
             C == <<Commit, Reload(v)>>
             asked == LinksOf(v, O \cup G)
             P(X, all) == <<Find(X, "all"), Delete(LinksOf(v, all)), Associate(v), Trim(v, all)>>
             Tailing(s) == \A i \in 1 .. Len(s) : s[i].op \notin {"create", "updates", "save"}
  <2>2. Serve(r, name, TRUE, asked, (((F \o A) \o L1) \o L2) \o C)
    BY <2>1
  <2>3. Tuple(A, 2) /\ Tuple(C, 2)
    BY DEF Tuple
  <2>4. A[1].op = "begin" /\ A[2].op = "updates" /\ C[1].op = "commit" /\ C[2].op = "check"
    BY Kinds
  <2>5. (L1 = P(O, Roles) \/ L1 = <<>>) /\ (L2 = P(G, Groups) \/ L2 = <<>>)
    <3>1. \A X, all : P(X, all) = <<Find(X, "all"), Delete(LinksOf(v, all))>> \o Replace(v, all)
      BY DEF Replace
    <3> HIDE DEF P
    <3>2. QED
      BY <3>1
  <2>6. /\ name \in Replacers /\ name \in Changers \ {"UpdateScope"} /\ name \in Writers /\ name \notin Singles
        /\ name \in Setters \cup (Changers \ {"UpdateUserRoles"}) /\ name \notin Deleters /\ name # "UpdateScope"
    BY DEF Writers, Setters, Deleters, Changers, Replacers, Singles
  <2>7. /\ v \in Own(name) /\ FirstKind(name) = Roles /\ SecondKind(name) = Groups
        /\ Others(name) = Roles \cup Groups /\ O \subseteq Roles /\ G \subseteq Groups
    BY KindsOf DEF Some
  <2>8. Apt(A[1], name, v) /\ Apt(A[2], name, v)
    BY <2>4, <2>6, AptCalls
  <2>9. \A c, d : d.op \notin {"create", "updates", "save"} => Follows(c, d, name, v)
    BY FollowsIf
  <2>10. /\ \A i \in 1 .. 4 : i = 1 \/ i = 2 \/ i = 3 \/ i = 4
         /\ \A i \in 1 .. 2 : i = 1 \/ i = 2
    OBVIOUS
  <2>11. Calls(F) /\ \A i \in 1 .. Len(F) : F[i].op \in Looks
    BY ForUserLooks, <2>6 DEF Looking, Untied, F
  <2> HIDE DEF F, A, C, asked, name
  <2>12. ASSUME NEW X, NEW all, all = Roles \/ all = Groups, X \subseteq all
         PROVE  Part(P(X, all), name, v) /\ Tailing(P(X, all))
    <3> DEFINE p == P(X, all)
    <3>1. Tuple(p, 4)
      BY DEF Tuple
    <3>2. /\ p[1].op = "find" /\ p[1].rows = X /\ Real(p[1]) /\ p[2].op = "delete"
          /\ p[3].op = "append" /\ p[4].op = "trim"
      BY Kinds, RowKinds DEF Real
    <3>3. all \in SUBSET Others(name) /\ X \subseteq Others(name)
      BY <2>7, <2>12
    <3>4. Apt(p[1], name, v) /\ Apt(p[2], name, v)
      BY <2>6, <2>7, <2>12, <3>2, AptCalls DEF Looks
    <3>5. Apt(p[3], name, v) /\ Apt(p[4], name, v)
      BY <2>6, <3>3, AptCalls
    <3> HIDE DEF p
    <3>6. Calls(p) /\ Len(p) = 4
      BY <3>1, TupleIs
    <3>7. SelfFed(p)
      <4>1. \A i \in 1 .. 4 : p[i].op = "append" => 1 \in 1 .. i - 1
        BY <2>10, <3>2
      <4>2. QED
        BY <3>2, <3>6, <4>1 DEF SelfFed
    <3>8. \A i \in 1 .. 4 : /\ Apt(p[i], name, v) /\ p[i].op \notin {"skip", "create", "updates", "save"}
                            /\ Real(p[i]) => p[i].rows \subseteq Others(name)
      <4>1. ~Real(p[2]) /\ ~Real(p[3]) /\ ~Real(p[4])
        BY <3>2 DEF Real
      <4>2. QED
        BY <2>10, <3>2, <3>3, <3>4, <3>5, <4>1
    <3>9. \A i, j \in 1 .. 4 : Follows(p[i], p[j], name, v)
      BY <2>9, <3>8
    <3>10. Part(p, name, v) /\ Tailing(p)
      BY <3>1, <3>6, <3>7, <3>8, <3>9, TuplePart
    <3>11. QED
      BY <3>10 DEF p
  <2>13. Part(<<>>, name, v) /\ Tailing(<<>>)
    BY NoCalls, LenOfNone, LooksPart
  <2>14. Part(L1, name, v) /\ Part(L2, name, v) /\ Tailing(L1) /\ Tailing(L2)
    <3> HIDE DEF P, L1, L2, Tailing
    <3>1. Part(P(O, Roles), name, v) /\ Tailing(P(O, Roles))
      BY <2>7, <2>12
    <3>2. Part(P(G, Groups), name, v) /\ Tailing(P(G, Groups))
      BY <2>7, <2>12
    <3>3. QED
      BY <2>5, <2>13, <3>1, <3>2
  <2> HIDE DEF L1, L2
  <2>15. Part(F, name, v) /\ \A i \in 1 .. Len(F) : F[i].op \notin Changes
    BY <2>11, LooksPart
  <2>16. Part(C, name, v) /\ (\A i \in 1 .. Len(C) : C[i].op \notin Changes) /\ C # <<>>
    <3>1. Calls(C) /\ Len(C) = 2
      BY <2>3, TupleIs
    <3>2. C # <<>>
      BY <2>3, TupleSome
    <3>3. \A i \in 1 .. Len(C) : C[i].op \in Looks \cup {"begin", "commit"}
      BY <2>4, <2>10, <3>1 DEF Looks
    <3>4. QED
      BY <3>1, <3>2, <3>3, LooksPart
  <2>17. Part(A, name, v)
    <3>1. A[1].op \notin Changes /\ ~Real(A[1]) /\ ~Real(A[2])
      BY <2>4 DEF Changes, Real
    <3>2. SelfFed(A)
      BY <2>3, <2>4, <2>10, TupleIs DEF SelfFed
    <3>3. /\ \A i \in 1 .. 2 : Apt(A[i], name, v) /\ A[i].op # "skip" /\ ~Real(A[i])
          /\ \A i \in 1 .. 2 : A[i].op \in Changes => i = 2
      BY <2>4, <2>8, <2>10, <3>1
    <3>4. QED
      BY <2>3, <3>2, <3>3, TuplePart
  <2>18. Part(F \o A, name, v)
    BY <2>15, <2>17, PartOn
  <2>19. Part((F \o A) \o L1, name, v)
    BY <2>9, <2>14, <2>18, PartOn
  <2>20. Part(((F \o A) \o L1) \o L2, name, v)
    BY <2>9, <2>14, <2>19, PartOn
  <2> DEFINE m == ((F \o A) \o L1) \o L2
  <2>21. Serve(r, name, TRUE, asked, m \o C) /\ Part(m, name, v)
    BY <2>2, <2>20
  <2> HIDE DEF m
  <2>22. Calls(m) /\ Calls(C)
    BY <2>16, <2>21 DEF Part
  <2>23. m \o C # <<>>
    BY <2>16, <2>22, Concatenation
  <2>24. Part(m \o C, name, v)
    BY <2>16, <2>21, PartOn
  <2> DEFINE s == m \o C
  <2>25. Serve(r, name, TRUE, asked, s) /\ Part(s, name, v) /\ s # <<>>
    BY <2>21, <2>23, <2>24
  <2> HIDE DEF s
  <2>26. Script(s, name, v)
    BY <2>6, <2>7, <2>25, PartScript
  <2>27. PICK may : Serve(r, name, may, asked, s)
    BY <2>25, Zenon
  <2>28. QED
    BY <2>25, <2>26, <2>27, ServePlays
<1>14. CASE DeleteUser(r)
  <2> DEFINE name == "DeleteUser"
  <2>1. PICK u \in Users \cap DOMAIN db, v \in Users :
          Serve(r, name, TRUE, {},
                ForUser(u, v, {"OWNER"})
                  \o <<Begin, Delete(LinksOf(v, Roles)), Delete(LinksOf(v, Groups)), Delete({v}), Commit>>)
    BY <1>14, Zenon DEF DeleteUser
  <2> DEFINE F == ForUser(u, v, {"OWNER"})
             A == <<Begin, Delete(LinksOf(v, Roles)), Delete(LinksOf(v, Groups)), Delete({v}), Commit>>
  <2>2. Serve(r, name, TRUE, {}, F \o A)
    BY <2>1
  <2>3. Tuple(A, 5)
    BY DEF Tuple
  <2>4. name \in Deleters /\ name \in Writers /\ name # "UpdateScope" /\ name # Untied
    BY DEF Deleters, Writers, Untied
  <2>5. v \in Own(name) /\ FirstKind(name) = Roles /\ SecondKind(name) = Groups
    BY KindsOf
  <2>6. /\ A[1].op = "begin" /\ A[2].op = "delete" /\ A[3].op = "delete" /\ A[4].op = "delete"
        /\ A[5].op = "commit"
        /\ A[2].rows = LinksOf(v, FirstKind(name)) /\ A[3].rows = LinksOf(v, SecondKind(name)) /\ A[4].rows = {v}
    BY <2>5, Kinds, WriteKinds
  <2>7. /\ Apt(A[1], name, v) /\ Apt(A[2], name, v) /\ Apt(A[3], name, v) /\ Apt(A[4], name, v)
        /\ Apt(A[5], name, v)
    BY <2>4, <2>5, <2>6, AptCalls
  <2>8. Calls(F) /\ \A i \in 1 .. Len(F) : F[i].op \in Looks
    <3>1. Looking(F, name)
      BY ForUserLooks
    <3>2. QED
      BY <2>4, <3>1 DEF Looking
  <2>9. \A i \in 1 .. 5 : i = 1 \/ i = 2 \/ i = 3 \/ i = 4 \/ i = 5
    OBVIOUS
  <2> HIDE DEF F, A, name
  <2>10. Follows(A[2], A[3], name, v) /\ Follows(A[2], A[4], name, v) /\ Follows(A[3], A[4], name, v)
    BY <2>4, <2>6, FollowsIf
  <2>11. \A i \in 1 .. 5 : Apt(A[i], name, v) /\ A[i].op \notin {"skip", "append"} /\ ~Real(A[i])
    <3>1. ~Real(A[1]) /\ ~Real(A[2]) /\ ~Real(A[3]) /\ ~Real(A[4]) /\ ~Real(A[5])
      BY <2>6 DEF Real
    <3>2. QED
      BY <2>6, <2>7, <2>9, <3>1
  <2>12. \A i \in 1 .. 5 : A[i].op \in Changes => i \in {2, 3, 4}
    <3>1. A[1].op \notin Changes /\ A[5].op \notin Changes
      BY <2>6 DEF Changes
    <3>2. QED
      BY <2>9, <3>1
  <2>13. \A i, j \in 1 .. 5 : i < j /\ A[i].op \in Changes /\ A[j].op \in Changes => Follows(A[i], A[j], name, v)
    BY <2>10, <2>12
  <2>14. SelfFed(A) /\ Calls(A) /\ A # <<>>
    <3>1. Calls(A) /\ Len(A) = 5
      BY <2>3, TupleIs
    <3>2. A # <<>>
      BY <2>3, TupleSome
    <3>3. QED
      BY <2>11, <3>1, <3>2 DEF SelfFed
  <2>15. Part(A, name, v)
    BY <2>3, <2>11, <2>13, <2>14, TuplePart
  <2>16. Part(F, name, v) /\ \A i \in 1 .. Len(F) : F[i].op \notin Changes
    BY <2>8, LooksPart
  <2>17. F \o A # <<>>
    BY <2>8, <2>14, Concatenation
  <2>18. Part(F \o A, name, v)
    BY <2>15, <2>16, PartOn
  <2> DEFINE s == F \o A
  <2>19. Serve(r, name, TRUE, {}, s) /\ Part(s, name, v) /\ s # <<>>
    BY <2>2, <2>17, <2>18
  <2> HIDE DEF s
  <2>20. Script(s, name, v)
    BY <2>4, <2>5, <2>19, PartScript
  <2>21. PICK may, asked : Serve(r, name, may, asked, s)
    BY <2>19, Zenon
  <2>22. QED
    BY <2>19, <2>20, <2>21, ServePlays
<1>15. CASE UpdateUserProfile(r)
  <2>1. PICK u \in Users \cap DOMAIN db :
          ServeWith(r, "UpdateUserProfile", RolesOf(u),
                <<Begin, Updates(u, Nothing), Associate(u), Commit, Reload(u)>>)
    BY <1>15, Zenon DEF UpdateUserProfile
  <2> DEFINE name == "UpdateUserProfile"
             got == RolesOf(u)
             s == <<Begin, Updates(u, Nothing), Associate(u), Commit, Reload(u)>>
  <2>2. ServeWith(r, name, got, s)
    BY <2>1
  <2>3. Tuple(s, 5)
    BY DEF Tuple
  <2>4. /\ s[1].op = "begin" /\ s[2].op = "updates" /\ s[3].op = "append"
        /\ s[4].op = "commit" /\ s[5].op = "check"
    BY Kinds
  <2>5. name \in Setters /\ name \in Writers /\ name \notin Deleters /\ (name = "UpdateScope" <=> FALSE)
    BY DEF Writers, Singles, Makers, Setters, Deleters, Changers, Exchangers, Replacers
  <2>6. u \in Own(name) /\ RolesOf(u) \subseteq Others(name)
    BY KindsOf DEF Singles, Unused, Some, RolesOf
  <2>7. \A i \in 1 .. 5 : i = 1 \/ i = 2 \/ i = 3 \/ i = 4 \/ i = 5
    OBVIOUS
  <2>8. \A i \in 1 .. 5 : Apt(s[i], name, u)
    <3>1. Apt(s[1], name, u) /\ Apt(s[2], name, u) /\ Apt(s[3], name, u)
      BY <2>4, <2>5, <2>6, AptCalls, RowKinds DEF Looks
    <3>2. Apt(s[4], name, u) /\ Apt(s[5], name, u)
      BY <2>4, <2>5, <2>6, AptCalls, RowKinds DEF Looks
    <3>3. QED
      BY <2>7, <3>1, <3>2
  <2>9. \A i \in 1 .. 5 : s[i].op \in Changes => i \in {2, 3}
    <3>1. s[1].op \notin Changes /\ s[4].op \notin Changes /\ s[5].op \notin Changes
      BY <2>4 DEF Changes
    <3>2. QED
      BY <2>7, <3>1
  <2>10. \A i \in 1 .. 5 : ~Real(s[i])
    <3>1. ~Real(s[1]) /\ ~Real(s[2]) /\ ~Real(s[3]) /\ ~Real(s[4]) /\ ~Real(s[5])
      BY <2>4 DEF Real
    <3>2. QED
      BY <2>7, <3>1
  <2>11. Follows(s[2], s[3], name, u)
    BY <2>4, <2>5, FollowsIf
  <2> HIDE DEF s, got, name
  <2>12. \A i, j \in 1 .. 5 : i < j /\ s[i].op \in Changes /\ s[j].op \in Changes => Follows(s[i], s[j], name, u)
    BY <2>9, <2>11
  <2>13. 5 \in Nat \ {0}
    OBVIOUS
  <2>14. \A i \in 2 .. 5 : s[i - 1].op = "skip" => ~Real(s[i])
    <3>1. \A i \in 1 .. 5 : s[i].op # "skip"
      BY <2>4, <2>7
    <3>2. \A i \in 2 .. 5 : i - 1 \in 1 .. 5
      OBVIOUS
    <3>3. QED
      BY <3>1, <3>2
  <2>15. \A i \in 1 .. 5 : Apt(s[i], name, u) /\ (Real(s[i]) => s[i].rows \subseteq Others(name))
    BY <2>8, <2>10
  <2>16. name \in Singles \cup Writers /\ u \in Own(name) /\ name # "UpdateScope"
    BY <2>5, <2>6
  <2>17. Script(s, name, u) /\ s # <<>>
    BY <2>3, <2>14, <2>15, <2>12, <2>13, <2>16, TupleScript
  <2>18. QED
    BY <2>2, <2>5, <2>6, <2>17, ServeWithPlays DEF got
<1>16. CASE Login(r)
  <2>1. PICK u \in Users \cap DOMAIN db :
          ServeWith(r, "Login", {x \in Roles \cup Groups : {u, x} \in DOMAIN db},
                <<Begin, Save(u), Associate(u), Commit>>)
    BY <1>16, Zenon DEF Login
  <2> DEFINE name == "Login"
             got == {x \in Roles \cup Groups : {u, x} \in DOMAIN db}
             s == <<Begin, Save(u), Associate(u), Commit>>
  <2>2. ServeWith(r, name, got, s)
    BY <2>1
  <2>3. Tuple(s, 4)
    BY DEF Tuple
  <2>4. /\ s[1].op = "begin" /\ s[2].op = "save" /\ s[3].op = "append"
        /\ s[4].op = "commit"
    BY Kinds
  <2>5. name \in Setters /\ name \in Writers /\ name \notin Deleters /\ (name = "UpdateScope" <=> FALSE)
    BY DEF Writers, Singles, Makers, Setters, Deleters, Changers, Exchangers, Replacers
  <2>6. u \in Own(name) /\ {x \in Roles \cup Groups : {u, x} \in DOMAIN db} \subseteq Others(name)
    BY KindsOf DEF Singles, Unused, Some, RolesOf
  <2>7. \A i \in 1 .. 4 : i = 1 \/ i = 2 \/ i = 3 \/ i = 4
    OBVIOUS
  <2>8. \A i \in 1 .. 4 : Apt(s[i], name, u)
    <3>1. Apt(s[1], name, u) /\ Apt(s[2], name, u)
      BY <2>4, <2>5, <2>6, AptCalls, RowKinds DEF Looks
    <3>2. Apt(s[3], name, u) /\ Apt(s[4], name, u)
      BY <2>4, <2>5, <2>6, AptCalls, RowKinds DEF Looks
    <3>3. QED
      BY <2>7, <3>1, <3>2
  <2>9. \A i \in 1 .. 4 : s[i].op \in Changes => i \in {2, 3}
    <3>1. s[1].op \notin Changes /\ s[4].op \notin Changes
      BY <2>4 DEF Changes
    <3>2. QED
      BY <2>7, <3>1
  <2>10. \A i \in 1 .. 4 : ~Real(s[i])
    <3>1. ~Real(s[1]) /\ ~Real(s[2]) /\ ~Real(s[3]) /\ ~Real(s[4])
      BY <2>4 DEF Real
    <3>2. QED
      BY <2>7, <3>1
  <2>11. Follows(s[2], s[3], name, u)
    BY <2>4, <2>5, FollowsIf
  <2> HIDE DEF s, got, name
  <2>12. \A i, j \in 1 .. 4 : i < j /\ s[i].op \in Changes /\ s[j].op \in Changes => Follows(s[i], s[j], name, u)
    BY <2>9, <2>11
  <2>13. 4 \in Nat \ {0}
    OBVIOUS
  <2>14. \A i \in 2 .. 4 : s[i - 1].op = "skip" => ~Real(s[i])
    <3>1. \A i \in 1 .. 4 : s[i].op # "skip"
      BY <2>4, <2>7
    <3>2. \A i \in 2 .. 4 : i - 1 \in 1 .. 4
      OBVIOUS
    <3>3. QED
      BY <3>1, <3>2
  <2>15. \A i \in 1 .. 4 : Apt(s[i], name, u) /\ (Real(s[i]) => s[i].rows \subseteq Others(name))
    BY <2>8, <2>10
  <2>16. name \in Singles \cup Writers /\ u \in Own(name) /\ name # "UpdateScope"
    BY <2>5, <2>6
  <2>17. Script(s, name, u) /\ s # <<>>
    BY <2>3, <2>14, <2>15, <2>12, <2>13, <2>16, TupleScript
  <2>18. QED
    BY <2>2, <2>5, <2>6, <2>17, ServeWithPlays DEF got
<1>17. CASE CreateGroup(r)
  <2>1. PICK u \in Users \cap DOMAIN db, g \in New(Groups) :
          Serve(r, "CreateGroup", IsStaff(u), {g},
                <<First(ScopeOf[g]), Create({g}, Nothing)>>)
    BY <1>17, Zenon DEF CreateGroup
  <2> DEFINE name == "CreateGroup"
             asked == {g}
             s == <<First(ScopeOf[g]), Create({g}, Nothing)>>
  <2>2. Serve(r, name, IsStaff(u), asked, s)
    BY <2>1, Zenon
  <2>3. Tuple(s, 2)
    BY DEF Tuple
  <2>4. /\ s[1].op = "check" /\ s[2].op = "create"
    BY Kinds
  <2>5. name \in Singles /\ (name = "UpdateScope" <=> FALSE)
    BY DEF Writers, Singles, Makers, Setters, Deleters, Changers, Exchangers, Replacers
  <2>6. u \in Own(name)
    BY KindsOf DEF Singles, Unused, Some, RolesOf
  <2>7. \A i \in 1 .. 2 : i = 1 \/ i = 2
    OBVIOUS
  <2>8. \A i \in 1 .. 2 : Apt(s[i], name, u)
    <3>1. Apt(s[1], name, u)
      BY <2>4, <2>5 DEF Apt
    <3>2. Apt(s[2], name, u)
      BY <2>4, <2>5 DEF Apt
    <3>3. QED
      BY <2>7, <3>1, <3>2
  <2>9. \A i \in 1 .. 2 : s[i].op \in Changes => i \in {2}
    <3>1. s[1].op \notin Changes
      BY <2>4 DEF Changes
    <3>2. QED
      BY <2>7, <3>1
  <2>10. \A i \in 1 .. 2 : ~Real(s[i])
    <3>1. ~Real(s[1]) /\ ~Real(s[2])
      BY <2>4 DEF Real
    <3>2. QED
      BY <2>7, <3>1
  <2> HIDE DEF s, asked, name
  <2>11. \A i, j \in 1 .. 2 : i < j /\ s[i].op \in Changes /\ s[j].op \in Changes => Follows(s[i], s[j], name, u)
    BY <2>9
  <2>12. 2 \in Nat \ {0}
    OBVIOUS
  <2>13. \A i \in 2 .. 2 : s[i - 1].op = "skip" => ~Real(s[i])
    <3>1. \A i \in 1 .. 2 : s[i].op # "skip"
      BY <2>4, <2>7
    <3>2. \A i \in 2 .. 2 : i - 1 \in 1 .. 2
      OBVIOUS
    <3>3. QED
      BY <3>1, <3>2
  <2>14. \A i \in 1 .. 2 : Apt(s[i], name, u) /\ (Real(s[i]) => s[i].rows \subseteq Others(name))
    BY <2>8, <2>10
  <2>15. name \in Singles \cup Writers /\ u \in Own(name) /\ name # "UpdateScope"
    BY <2>5, <2>6
  <2>16. Script(s, name, u) /\ s # <<>>
    BY <2>3, <2>13, <2>14, <2>11, <2>12, <2>15, TupleScript
  <2>17. QED
    BY <2>2, <2>16, ServePlays
<1>18. QED
  BY <1>1, <1>2, <1>3, <1>4, <1>5, <1>6, <1>7, <1>8, <1>9,
     <1>10, <1>11, <1>12, <1>13, <1>14, <1>15, <1>16, <1>17 DEF AccessHandlers

\* The handlers two of which may wait for each other.
MayCross(n, m) ==
    \/ n = "DeleteUser" /\ m \in {"Login", "UpdateUserProfile"}
    \/ n = "UpdateTargetUserProfile" /\ m \in {"DeleteUser", "UpdateUserRoles", "UpdateTargetUserProfile"}
    \/ n = "DeleteRole" /\ m = "UpdateRoleByID"
    \/ n = "DeleteScope" /\ m = "UpdateScope"

\* DeleteUser waits for UpdateUserRoles only when it has that one's links behind it.
LEMMA RolesBeforeGroups ==
    ASSUME NEW r, NEW q, NEW e, NEW f, Stance(r, e), Stance(q, f), Waits(q, f, r),
           req[r].name = "UpdateUserRoles", req[q].name = "DeleteUser"
    PROVE  FALSE
<1>1. Own("UpdateUserRoles") = Users /\ Own("DeleteUser") = Users
  BY KindsOf
<1>2. PutRows(r) = {} /\ DelRows(r) \subseteq LinksOf(e, Roles)
  <2>1. FirstKind("UpdateUserRoles") = Roles /\ SecondKind("UpdateUserRoles") = Roles
    BY KindsOf
  <2>2. QED
    BY <2>1 DEF Stance
<1>3. SecondKind("DeleteUser") = Groups /\ "DeleteUser" \in Deleters
  BY KindsOf DEF Deleters
<1>4. e = f /\ \E x \in PutRows(r) \cup DelRows(r) : x \in LinksOf(f, Groups)
  <2>1. Own(req[q].name) = Own(req[r].name) /\ req[q].name \in Deleters
    BY <1>1, <1>3
  <2>2. /\ f = e
        /\ \E x \in PutRows(r) \cup DelRows(r) : x \in LinksOf(f, SecondKind(req[q].name))
    BY <1>2, <2>1, WithinKind
  <2>3. QED
    BY <1>3, <2>2
<1>5. PICK x \in LinksOf(e, Roles) : x \in LinksOf(e, Groups)
  BY <1>2, <1>4
<1>6. e \in Users
  BY <1>1 DEF Stance
<1>7. PICK a \in Roles, b \in Groups : x = {e, a} /\ x = {e, b}
  BY <1>5 DEF LinksOf
<1>8. a = b
  BY <1>6, <1>7, KindsApart
<1>9. QED
  BY <1>7, <1>8, KindsApart

\* Whoever writes more than once is about a row of one of three kinds.
LEMMA NamesOf ==
    ASSUME NEW name \in Writers, NEW e \in Own(name)
    PROVE  \/ /\ e \in Users /\ Own(name) = Users
              /\ \/ name \in {"CreateUserAndAttachRoles", "UpdateUserRoles", "UpdateUserProfile"}
                 \/ name \in {"UpdateTargetUserProfile", "Login", "DeleteUser"}
           \/ e \in Roles /\ Own(name) = Roles /\ name \in {"CreateRole", "UpdateRoleByID", "DeleteRole"}
           \/ e \in Scopes /\ Own(name) = Scopes /\ name \in {"CreateScope", "UpdateScope", "DeleteScope"}
<1>1. /\ \A n \in {"CreateUserAndAttachRoles", "UpdateUserRoles", "UpdateUserProfile"} : Own(n) = Users
      /\ \A n \in {"UpdateTargetUserProfile", "Login", "DeleteUser"} : Own(n) = Users
      /\ \A n \in {"CreateRole", "UpdateRoleByID"} : Own(n) = Roles
      /\ Own("DeleteRole") = Roles
      /\ \A n \in {"CreateScope", "UpdateScope"} : Own(n) = Scopes
      /\ Own("DeleteScope") = Scopes
  BY KindsOf
<1>2. QED
  BY <1>1, WritersAre

\* An order in which requests wait: whoever waits for another is before him in it, but for
\* the pairs of MayCross.  A request moves up in it as it writes.
Rank(r, e) ==
    LET name == req[r].name
        early == DelRows(r) \subseteq LinksOf(e, FirstKind(name))
    IN IF name = "UpdateUserRoles" \/ name = "UpdateTargetUserProfile" THEN 1
       ELSE IF name = "DeleteUser" THEN IF early THEN 2 ELSE 3
       ELSE IF name = "DeleteScope" THEN IF early THEN 4 ELSE 10
       ELSE IF name = "CreateRole" THEN 5
       ELSE IF name = "UpdateRoleByID" THEN IF DelRows(r) = {} THEN 6 ELSE 7
       ELSE IF name = "DeleteRole" THEN IF early THEN 6 ELSE 7
       ELSE IF name = "CreateScope" THEN 8
       ELSE IF name = "UpdateScope" THEN IF PutRows(r) \subseteq {e} THEN 9 ELSE 10
       ELSE 0

LEMMA RankIs ==
    ASSUME NEW r, NEW e, Stance(r, e)
    PROVE  /\ Rank(r, e) \in 0 .. 10
           /\ Own(req[r].name) = Users => e \in Users /\ Rank(r, e) <= 3
           /\ Own(req[r].name) = Roles => e \in Roles /\ 5 <= Rank(r, e) /\ Rank(r, e) <= 7
           /\ Own(req[r].name) = Scopes =>
                 /\ e \in Scopes
                 /\ \/ 8 <= Rank(r, e)
                    \/ /\ req[r].name = "DeleteScope" /\ Rank(r, e) = 4
                       /\ DelRows(r) \subseteq LinksOf(e, Catalogs)
<1> DEFINE name == req[r].name
<1>1. name \in Writers /\ e \in Own(name)
  BY DEF Stance
<1>2. \/ /\ e \in Users /\ Own(name) = Users
         /\ \/ name \in {"CreateUserAndAttachRoles", "UpdateUserRoles", "UpdateUserProfile"}
            \/ name \in {"UpdateTargetUserProfile", "Login", "DeleteUser"}
      \/ e \in Roles /\ Own(name) = Roles /\ name \in {"CreateRole", "UpdateRoleByID", "DeleteRole"}
      \/ e \in Scopes /\ Own(name) = Scopes /\ name \in {"CreateScope", "UpdateScope", "DeleteScope"}
  BY <1>1, NamesOf
<1>3. Users \cap Roles = {} /\ Users \cap Scopes = {} /\ Roles \cap Scopes = {}
  BY KindsApart
<1>4. FirstKind("DeleteScope") = Catalogs
  BY KindsOf
<1>5. Rank(r, e) \in 0 .. 10
  BY DEF Rank
<1>6. CASE e \in Users
  <2>1. Rank(r, e) <= 3
    BY <1>2, <1>3, <1>6 DEF Rank
  <2>2. QED
    BY <1>2, <1>3, <1>5, <1>6, <2>1
<1>7. CASE e \in Roles
  <2>1. 5 <= Rank(r, e) /\ Rank(r, e) <= 7
    BY <1>2, <1>3, <1>7 DEF Rank
  <2>2. QED
    BY <1>2, <1>3, <1>5, <1>7, <2>1
<1>8. CASE e \in Scopes
  <2>1. \/ 8 <= Rank(r, e)
        \/ name = "DeleteScope" /\ Rank(r, e) = 4 /\ DelRows(r) \subseteq LinksOf(e, Catalogs)
    BY <1>2, <1>3, <1>4, <1>8 DEF Rank
  <2>2. QED
    BY <1>2, <1>3, <1>5, <1>8, <2>1
<1>9. QED
  BY <1>2, <1>6, <1>7, <1>8

\* The wait of one kind for another.
LEMMA RisesAcross ==
    ASSUME NEW r, NEW q, NEW e, NEW f, Stance(r, e), Stance(q, f), Waits(r, e, q),
           Own(req[r].name) # Own(req[q].name),
           req[q].name = "UpdateTargetUserProfile" =>
              req[r].name # "DeleteRole" /\ Groups \cap PutRows(q) \subseteq DOMAIN db
    PROVE  Rank(r, e) < Rank(q, f)
<1> DEFINE n == req[r].name
           m == req[q].name
<1>1. \/ Own(n) = Own(m)
      \/ Own(n) = Users /\ Own(m) = Roles
      \/ Own(n) = Roles /\ Own(m) = Scopes
      \/ /\ n = "DeleteRole" /\ m = "UpdateTargetUserProfile" /\ Own(m) = Users
         /\ {e, f} \in PutRows(q) \ DOMAIN db
      \/ n = "DeleteScope" /\ Own(m) = Roles /\ DelRows(r) \subseteq LinksOf(e, Catalogs)
      \/ /\ n = "DeleteScope" /\ m = "UpdateTargetUserProfile" /\ Own(m) = Users
         /\ (Groups \cap PutRows(q)) \ DOMAIN db # {}
  BY AcrossKinds
<1>2. /\ Rank(r, e) \in 0 .. 10
      /\ Own(n) = Users => e \in Users /\ Rank(r, e) <= 3
      /\ Own(n) = Roles => e \in Roles /\ 5 <= Rank(r, e) /\ Rank(r, e) <= 7
  BY RankIs
<1>3. /\ Rank(q, f) \in 0 .. 10
      /\ Own(m) = Roles => f \in Roles /\ 5 <= Rank(q, f) /\ Rank(q, f) <= 7
      /\ Own(m) = Scopes =>
            /\ f \in Scopes
            /\ \/ 8 <= Rank(q, f)
               \/ m = "DeleteScope" /\ Rank(q, f) = 4 /\ DelRows(q) \subseteq LinksOf(f, Catalogs)
  BY RankIs
<1>4. CASE Own(n) = Users /\ Own(m) = Roles
  BY <1>2, <1>3, <1>4
<1>5. CASE Own(n) = Roles /\ Own(m) = Scopes
  <2>1. ~(m = "DeleteScope" /\ DelRows(q) \subseteq LinksOf(f, Catalogs))
    BY <1>5, RoleBeforeScope
  <2>2. QED
    BY <1>2, <1>3, <1>5, <2>1
<1>6. CASE n = "DeleteScope" /\ Own(m) = Roles /\ DelRows(r) \subseteq LinksOf(e, Catalogs)
  <2>1. FirstKind("DeleteScope") = Catalogs
    BY KindsOf
  <2>2. Rank(r, e) = 4
    BY <1>6, <2>1 DEF Rank
  <2>3. QED
    BY <1>3, <1>6, <2>2
<1>7. QED
  BY <1>1, <1>4, <1>5, <1>6

\* Two deletions of the same row: the second waits at the links that the first has deleted.
LEMMA DeletersInOrder ==
    ASSUME NEW r, NEW q, NEW e, NEW f, Stance(r, e), Stance(q, f), Waits(r, e, q),
           req[r].name = req[q].name, req[r].name \in Deleters
    PROVE  /\ DelRows(r) \subseteq LinksOf(e, FirstKind(req[r].name))
           /\ ~(DelRows(q) \subseteq LinksOf(f, FirstKind(req[r].name)))
<1> DEFINE n == req[r].name
           F == FirstKind(n)
           S == SecondKind(n)
<1>1. PutRows(q) = {}
  BY DEF Stance
<1>2. \/ n \in Deleters /\ e = f /\ n \notin Makers /\ PutRows(q) # {}
      \/ /\ n \notin Deleters /\ n \in Replacers /\ ~(PutRows(q) \subseteq {f})
         /\ Head(req[r].todo).op = "append"
      \/ /\ e = f /\ n \notin Makers \cup Setters
         /\ \E x \in PutRows(q) \cup DelRows(q) :
               /\ x \in LinksOf(e, Others(n) \cap Others(n))
               /\ n \in Deleters => x \in LinksOf(e, S) /\ DelRows(r) \subseteq LinksOf(e, F)
  BY WithinKind
<1>3. PICK x \in DelRows(q) : x \in LinksOf(e, S) /\ DelRows(r) \subseteq LinksOf(e, F) /\ e = f
  BY <1>1, <1>2
<1>4. x \notin LinksOf(e, F)
  <2>1. SUFFICES ASSUME x \in LinksOf(e, F) PROVE FALSE
    OBVIOUS
  <2>2. PICK a \in S, b \in F : x = {e, a} /\ x = {e, b}
    BY <1>3, <2>1 DEF LinksOf
  <2>3. e \notin S /\ e \notin F
    BY OwnLinks DEF Others, Stance
  <2>4. a = b
    BY <2>2, <2>3
  <2>5. S \cap F = {}
    BY KindsOf, KindsApart DEF Deleters
  <2>6. QED
    BY <2>2, <2>4, <2>5
<1>5. QED
  BY <1>3, <1>4

\* Two exchanges of the same links: the second waits when it has deleted none.
LEMMA ExchangersInOrder ==
    ASSUME NEW r, NEW q, NEW e, NEW f, Stance(r, e), Stance(q, f), Waits(r, e, q), Lone(r, q),
           req[r].name = req[q].name, req[r].name \in Exchangers
    PROVE  DelRows(r) = {} /\ DelRows(q) # {}
<1> DEFINE n == req[r].name
           S == SecondKind(n)
<1>1. n \in Writers /\ e \in Own(n) /\ n \notin Deleters \cup Replacers
  BY ClassesApart DEF Stance
<1>2. \/ n \in Deleters /\ e = f /\ n \notin Makers /\ PutRows(q) # {}
      \/ /\ n \notin Deleters /\ n \in Replacers /\ ~(PutRows(q) \subseteq {f})
         /\ Head(req[r].todo).op = "append"
      \/ /\ e = f /\ n \notin Makers \cup Setters
         /\ \E x \in PutRows(q) \cup DelRows(q) :
               /\ x \in LinksOf(e, Others(n) \cap Others(n))
               /\ n \in Deleters =>
                     x \in LinksOf(e, S) /\ DelRows(r) \subseteq LinksOf(e, FirstKind(n))
  BY WithinKind
<1>3. Others(n) = S /\ FirstKind(n) = S
  BY KindsOf DEF Exchangers
<1>4. PICK x \in PutRows(q) \cup DelRows(q) : x \in LinksOf(e, S) /\ e = f
  BY <1>1, <1>2, <1>3
<1>5. x \notin PutRows(q)
  <2>1. PutRows(q) \subseteq {f}
    BY <1>1, Around
  <2>2. LinksOf(e, Others(n)) \subseteq Links /\ e \in Entities
    BY <1>1, OwnLinks
  <2>3. QED
    BY <1>3, <1>4, <2>1, <2>2, DistinctAssumption
<1>6. LinksOf(e, S) \cap DelRows(r) = {}
  BY <1>1, <1>4, <1>5 DEF Lone
<1>7. DelRows(r) \subseteq LinksOf(e, S)
  BY <1>3 DEF Stance
<1>8. QED
  BY <1>4, <1>5, <1>6, <1>7

\* Nobody has deleted links of a scope that is just being made.
LEMMA NewScopeHasNoLinks ==
    ASSUME ForeignKeys, NEW r, NEW q, NEW e, NEW f, Stance(r, e), Stance(q, f), Waits(r, e, q),
           req[r].name = "CreateScope", req[q].name = "DeleteScope", PutRows(r) \cup DelRows(r) # {}
    PROVE  FALSE
<1>1. Own("CreateScope") = Scopes /\ Own("DeleteScope") = Scopes
  BY KindsOf
<1>2. "CreateScope" \in Makers /\ "CreateScope" \notin Deleters /\ "DeleteScope" \in Deleters
      /\ "DeleteScope" \notin Replacers /\ "CreateScope" \notin Replacers
  BY DEF Makers, Deleters, Replacers
<1>3. PutRows(q) = {} /\ DelRows(r) = {}
  BY <1>2 DEF Stance
<1>4. e = f /\ \E x \in PutRows(q) \cup DelRows(q) : x \in LinksOf(e, Others("CreateScope") \cap Others("DeleteScope"))
  <2>1. Own(req[r].name) = Own(req[q].name)
    BY <1>1
  <2>2. \/ req[r].name \in Deleters /\ e = f /\ req[q].name \notin Makers /\ PutRows(q) # {}
        \/ /\ req[r].name \notin Deleters /\ req[q].name \in Replacers /\ ~(PutRows(q) \subseteq {f})
           /\ Head(req[r].todo).op = "append"
        \/ /\ e = f /\ req[q].name \notin Makers \cup Setters
           /\ \E x \in PutRows(q) \cup DelRows(q) :
                 /\ x \in LinksOf(e, Others(req[r].name) \cap Others(req[q].name))
                 /\ req[r].name \in Deleters =>
                       /\ x \in LinksOf(e, SecondKind(req[r].name))
                       /\ DelRows(r) \subseteq LinksOf(e, FirstKind(req[r].name))
    BY <2>1, WithinKind
  <2>3. QED
    BY <1>2, <2>2
<1>5. PICK x \in DelRows(q) : x \in LinksOf(e, Others("CreateScope"))
  <2>1. LinksOf(e, Others("CreateScope") \cap Others("DeleteScope")) \subseteq LinksOf(e, Others("CreateScope"))
    BY LinksOfPart
  <2>2. QED
    BY <1>3, <1>4, <2>1
<1>6. x \in DOMAIN db /\ x \in Links
  BY <1>5, Around
<1>7. e \in Refs(x)
  BY <1>5, <1>6, RefsOfLinks DEF LinksOf
<1>8. e \in DOMAIN db
  BY <1>6, <1>7 DEF ForeignKeys, Consistent
<1>9. PutRows(r) \subseteq {e} /\ PutRows(r) \cap {e} \cap DOMAIN db = {}
  <2>1. Newcomers("CreateScope", e) = {e}
    BY <1>2 DEF Newcomers
  <2>2. QED
    BY <1>2, <2>1, Around
<1>10. QED
  BY <1>3, <1>8, <1>9

\* The wait for a request about a user.
LEMMA RisesAtUsers ==
    ASSUME NEW r, NEW q, NEW e, NEW f, Stance(r, e), Stance(q, f), Waits(r, e, q), Lone(r, q),
           Own(req[r].name) = Own(req[q].name), f \in Users, PutRows(r) \cup DelRows(r) # {},
           ~MayCross(req[r].name, req[q].name), ~MayCross(req[q].name, req[r].name)
    PROVE  Rank(r, e) < Rank(q, f)
<1> DEFINE n == req[r].name
           m == req[q].name
<1>1. /\ n \in Writers /\ e \in Own(n) /\ m \in Writers /\ f \in Own(m)
      /\ e \in Users /\ Own(n) = Users /\ Own(m) = Users
  <2>1. n \in Writers /\ e \in Own(n) /\ m \in Writers /\ f \in Own(m)
    BY DEF Stance
  <2>2. Own(m) = Users
    BY <2>1, NamesOf, KindsApart
  <2>3. QED
    BY <2>1, <2>2
<1>2. \/ n \in {"CreateUserAndAttachRoles", "UpdateUserRoles", "UpdateUserProfile"}
      \/ n \in {"UpdateTargetUserProfile", "Login", "DeleteUser"}
  BY <1>1, NamesOf, KindsApart
<1>3. \/ m \in {"CreateUserAndAttachRoles", "UpdateUserRoles", "UpdateUserProfile"}
      \/ m \in {"UpdateTargetUserProfile", "Login", "DeleteUser"}
  BY <1>1, NamesOf, KindsApart
<1>4. \/ n \in Deleters /\ m \notin Makers
      \/ n \notin Deleters /\ m \in Replacers
      \/ m \notin Makers \cup Setters
  BY WithinKind
<1>5. ~MayCross(n, m) /\ ~MayCross(m, n)
  OBVIOUS
<1>6. n = "DeleteUser" /\ m = "UpdateUserRoles" => FALSE
  BY RolesBeforeGroups
<1>7. n = "DeleteUser" /\ m = "DeleteUser" => Rank(r, e) < Rank(q, f)
  BY DeletersInOrder DEF Rank, Deleters
<1>8. n = "UpdateUserRoles" /\ m = "UpdateUserRoles" => FALSE
  <2>1. SUFFICES ASSUME n = "UpdateUserRoles", m = "UpdateUserRoles" PROVE FALSE
    OBVIOUS
  <2>2. DelRows(r) = {}
    BY <2>1, ExchangersInOrder DEF Exchangers
  <2>3. PutRows(r) = {}
    BY <2>1 DEF Stance
  <2>4. QED
    BY <2>2, <2>3
<1>9. CASE m \in {"CreateUserAndAttachRoles", "UpdateUserProfile", "Login"}
  <2>1. n \in Deleters /\ m \notin Makers
    BY <1>4, <1>9 DEF Makers, Setters, Replacers
  <2>2. n = "DeleteUser" /\ m \in {"UpdateUserProfile", "Login"}
    BY <1>2, <1>9, <2>1 DEF Deleters, Makers
  <2>3. QED
    BY <1>5, <2>2 DEF MayCross
<1>10. CASE m = "UpdateTargetUserProfile"
  <2>1. n \in {"CreateUserAndAttachRoles", "UpdateUserProfile", "Login"}
    BY <1>2, <1>5, <1>10 DEF MayCross
  <2>2. QED
    BY <1>10, <2>1 DEF Rank
<1>11. CASE m = "UpdateUserRoles"
  <2>1. n \in {"CreateUserAndAttachRoles", "UpdateUserProfile", "Login"}
    BY <1>2, <1>5, <1>6, <1>8, <1>11 DEF MayCross
  <2>2. QED
    BY <1>11, <2>1 DEF Rank
<1>12. CASE m = "DeleteUser" /\ n # "DeleteUser"
  <2>1. n \in {"CreateUserAndAttachRoles", "UpdateUserRoles", "UpdateUserProfile", "Login"}
    BY <1>2, <1>5, <1>12 DEF MayCross
  <2>2. QED
    BY <1>12, <2>1 DEF Rank
<1>13. QED
  BY <1>3, <1>7, <1>9, <1>10, <1>11, <1>12

\* The wait for a request about a role.
LEMMA RisesAtRoles ==
    ASSUME NEW r, NEW q, NEW e, NEW f, Stance(r, e), Stance(q, f), Waits(r, e, q), Lone(r, q),
           Own(req[r].name) = Own(req[q].name), f \in Roles,
           ~MayCross(req[r].name, req[q].name), ~MayCross(req[q].name, req[r].name)
    PROVE  Rank(r, e) < Rank(q, f)
<1> DEFINE n == req[r].name
           m == req[q].name
<1>1. /\ n \in Writers /\ e \in Own(n) /\ m \in Writers /\ f \in Own(m)
      /\ e \in Roles /\ Own(n) = Roles /\ Own(m) = Roles
  <2>1. n \in Writers /\ e \in Own(n) /\ m \in Writers /\ f \in Own(m)
    BY DEF Stance
  <2>2. Own(m) = Roles
    BY <2>1, NamesOf, KindsApart
  <2>3. QED
    BY <2>1, <2>2
<1>2. n \in {"CreateRole", "UpdateRoleByID", "DeleteRole"}
  BY <1>1, NamesOf, KindsApart
<1>3. m \in {"CreateRole", "UpdateRoleByID", "DeleteRole"}
  BY <1>1, NamesOf, KindsApart
<1>4. m \notin Makers
  <2>1. \/ n \in Deleters /\ m \notin Makers
        \/ n \notin Deleters /\ m \in Replacers
        \/ m \notin Makers \cup Setters
    BY WithinKind
  <2>2. QED
    BY <2>1 DEF Makers, Replacers
<1>5. ~MayCross(n, m) /\ ~MayCross(m, n)
  OBVIOUS
<1>6. n = "DeleteRole" /\ m = "DeleteRole" => Rank(r, e) < Rank(q, f)
  BY DeletersInOrder DEF Rank, Deleters
<1>7. n = "UpdateRoleByID" /\ m = "UpdateRoleByID" => Rank(r, e) < Rank(q, f)
  BY ExchangersInOrder DEF Rank, Exchangers
<1>8. m \in {"UpdateRoleByID", "DeleteRole"}
  BY <1>3, <1>4 DEF Makers
<1>9. CASE n = "CreateRole"
  BY <1>8, <1>9 DEF Rank
<1>10. CASE n # "CreateRole"
  BY <1>2, <1>5, <1>6, <1>7, <1>8, <1>10 DEF MayCross
<1>11. QED
  BY <1>9, <1>10

\* The wait for a request about a scope.
LEMMA RisesAtScopes ==
    ASSUME ForeignKeys, NEW r, NEW q, NEW e, NEW f, Stance(r, e), Stance(q, f), Waits(r, e, q),
           Own(req[r].name) = Own(req[q].name), f \in Scopes, PutRows(r) \cup DelRows(r) # {},
           PutRows(r) \cap PutRows(q) = {},
           ~MayCross(req[r].name, req[q].name), ~MayCross(req[q].name, req[r].name)
    PROVE  Rank(r, e) < Rank(q, f)
<1> DEFINE n == req[r].name
           m == req[q].name
<1>1. /\ n \in Writers /\ e \in Own(n) /\ m \in Writers /\ f \in Own(m)
      /\ e \in Scopes /\ Own(n) = Scopes /\ Own(m) = Scopes
  <2>1. n \in Writers /\ e \in Own(n) /\ m \in Writers /\ f \in Own(m)
    BY DEF Stance
  <2>2. Own(m) = Scopes
    BY <2>1, NamesOf, KindsApart
  <2>3. QED
    BY <2>1, <2>2
<1>2. n \in {"CreateScope", "UpdateScope", "DeleteScope"}
  BY <1>1, NamesOf, KindsApart
<1>3. m \in {"CreateScope", "UpdateScope", "DeleteScope"}
  BY <1>1, NamesOf, KindsApart
<1>4. \/ n \in Deleters /\ e = f /\ m \notin Makers /\ PutRows(q) # {}
      \/ /\ n \notin Deleters /\ m \in Replacers /\ ~(PutRows(q) \subseteq {f})
         /\ Head(req[r].todo).op = "append"
      \/ e = f /\ m \notin Makers \cup Setters
  BY WithinKind
<1>5. ~MayCross(n, m) /\ ~MayCross(m, n)
  OBVIOUS
<1>6. m # "CreateScope"
  BY <1>4 DEF Makers, Replacers
<1>7. n = "DeleteScope" /\ m = "DeleteScope" => Rank(r, e) < Rank(q, f)
  BY DeletersInOrder DEF Rank, Deleters
<1>8. n = "CreateScope" /\ m = "DeleteScope" => FALSE
  BY NewScopeHasNoLinks
<1>9. n = "CreateScope" /\ m = "UpdateScope" => Rank(r, e) < Rank(q, f)
  BY DEF Rank
<1>10. n = "UpdateScope" /\ m = "UpdateScope" => Rank(r, e) < Rank(q, f)
  <2>1. SUFFICES ASSUME n = "UpdateScope", m = "UpdateScope" PROVE Rank(r, e) < Rank(q, f)
    OBVIOUS
  <2>2. /\ e \in PutRows(r) /\ f \in PutRows(q)
        /\ Head(req[r].todo).op = "append" => PutRows(r) \subseteq {e}
    BY <2>1 DEF Stance
  <2>3. e # f
    BY <2>2
  <2>4. PutRows(r) \subseteq {e} /\ ~(PutRows(q) \subseteq {f})
    BY <1>4, <2>2, <2>3
  <2>5. QED
    BY <2>1, <2>4 DEF Rank
<1>11. QED
  BY <1>2, <1>3, <1>5, <1>6, <1>7, <1>8, <1>9, <1>10 DEF MayCross

\* Of numbers up to 10, not every one is below another.
LEMMA SomeIsLast ==
    ASSUME NEW S \in SUBSET (0 .. 10), \A i \in S : \E j \in S : i < j
    PROVE  S = {}
<1>1. 10 \notin S
  OBVIOUS
<1>2. 9 \notin S
  BY <1>1
<1>3. 8 \notin S
  BY <1>1, <1>2
<1>4. 7 \notin S
  BY <1>1, <1>2, <1>3
<1>5. 6 \notin S
  BY <1>1, <1>2, <1>3, <1>4
<1>6. 5 \notin S
  BY <1>1, <1>2, <1>3, <1>4, <1>5
<1>7. 4 \notin S
  BY <1>1, <1>2, <1>3, <1>4, <1>5, <1>6
<1>8. 3 \notin S
  BY <1>1, <1>2, <1>3, <1>4, <1>5, <1>6, <1>7
<1>9. 2 \notin S
  BY <1>1, <1>2, <1>3, <1>4, <1>5, <1>6, <1>7, <1>8
<1>10. 1 \notin S
  BY <1>1, <1>2, <1>3, <1>4, <1>5, <1>6, <1>7, <1>8, <1>9
<1>11. 0 \notin S
  BY <1>1, <1>2, <1>3, <1>4, <1>5, <1>6, <1>7, <1>8, <1>9, <1>10
<1>12. QED
  BY <1>1, <1>2, <1>3, <1>4, <1>5, <1>6, <1>7, <1>8, <1>9, <1>10, <1>11

----------------------------------------------------------------------------
(* No handler of Access deletes a group, so none comes back. *)

Spared(x) ==
    /\ x.del \cap Groups = {} /\ x.gone \cap Groups = {}
    /\ x.name = "UpdateTargetUserProfile" => x.asked \cap Groups = {}

AllSpared == \A r \in Requests : Running(r) => Spared(req[r])

LEMMA OutSpared ==
    ASSUME InOrder, AllPlay, NEW r \in Requests, Running(r), NEW new, NEW out, Makes(r, new, out)
    PROVE  out \cap Groups = {}
<1> DEFINE x == req[r]
           c == Head(x.todo)
<1>1. c = x.todo[1] /\ Len(x.todo) \in Nat /\ Len(x.todo) > 0 /\ 1 \in 1 .. Len(x.todo)
  BY HeadFacts, TailIs
<1>2. CASE out = {}
  BY <1>2
<1>3. CASE out # {}
  <2>1. c.op \in {"trim", "delete", "detach", "deletefound"}
    BY <1>3 DEF Makes
  <2>2. Plays(x, DOMAIN db)
    BY <1>1, <2>1 DEF AllPlay, Unfinished, Changes
  <2>3. PICK s, k, e : Script(s, x.name, e) /\ Played(x, s, k)
    BY <2>2 DEF Plays
  <2>4. Len(s) \in Nat
    BY <2>3, TailIs DEF Script
  <2>5. k + 1 \in 1 .. Len(s) /\ c = s[k + 1]
    <3>1. k \in Nat /\ k + 1 \in 1 .. Len(s) /\ c = s[1 + k] /\ 1 + k = k + 1
      BY <1>1, <2>3, <2>4 DEF Played
    <3>2. QED
      BY <3>1
  <2>6. Apt(c, x.name, e) /\ x.name \in Singles \cup Writers /\ e \in Own(x.name)
    BY <2>3, <2>5 DEF Script
  <2>7. /\ LinksOf(e, FirstKind(x.name)) \subseteq Links /\ LinksOf(e, SecondKind(x.name)) \subseteq Links
        /\ LinksOf(e, Others(x.name)) \subseteq Links
    BY <2>6, OwnLinks
  <2>8. Links \cap Groups = {}
    BY DistinctAssumption DEF Entities
  <2>9. e \notin Groups
    BY <2>6, KindsApart DEF Own
  <2>10. CASE c.op = "trim"
    <3>1. out \subseteq LinksOf(c.row, c.rows) /\ c.row = e /\ c.rows \subseteq Others(x.name)
      <4>1. out = LinksOf(c.row, c.rows \ DOMAIN x.got) \cap Seen(r)
        BY <1>3, <2>10 DEF Makes
      <4>2. LinksOf(c.row, c.rows \ DOMAIN x.got) \subseteq LinksOf(c.row, c.rows)
        BY LinksOfPart
      <4>3. QED
        BY <2>6, <2>10, <4>1, <4>2 DEF Apt
    <3>2. LinksOf(e, c.rows) \subseteq LinksOf(e, Others(x.name))
      BY <3>1, LinksOfPart
    <3>3. QED
      BY <2>7, <2>8, <3>1, <3>2
  <2>11. CASE c.op = "delete"
    <3>1. out \subseteq c.rows
      BY <1>3, <2>11 DEF Makes
    <3>2. c.rows \subseteq Links \/ c.rows = {e}
      BY <2>6, <2>7, <2>11 DEF Apt
    <3>3. QED
      BY <2>8, <2>9, <3>1, <3>2
  <2>12. QED
    BY <2>1, <2>6, <2>10, <2>11 DEF Apt
<1>4. QED
  BY <1>2, <1>3

LEMMA StepSpares ==
    ASSUME InOrder, AllPlay, AllSpared, NEW r \in Requests, Running(r), Changed(r)
    PROVE  AllSpared'
<1> DEFINE x == req[r]
           y == req'[r]
           lost == DOMAIN db \ DOMAIN db'
<1>1. Spared(x)
  BY DEF AllSpared
<1>2. /\ ~Ended(r) => Onward(x, y) /\ DelRows(r)' \cap Groups = {}
      /\ lost \cap Groups = {}
      /\ \A q \in Requests \ {r} :
            req'[q] = req[q] \/ (Running(q) /\ req'[q] = [req[q] EXCEPT !.gone = @ \cup lost])
  <2>1. CASE Quiet(r)
    BY <1>1, <2>1 DEF Quiet, Spared, DelRows
  <2>2. ASSUME NEW new, NEW out, Makes(r, new, out), Held(r, new, out) \/ Published(r, new, out)
        PROVE  /\ ~Ended(r) => Onward(x, y) /\ DelRows(r)' \cap Groups = {}
               /\ lost \cap Groups = {}
               /\ \A q \in Requests \ {r} :
                     req'[q] = req[q] \/ (Running(q) /\ req'[q] = [req[q] EXCEPT !.gone = @ \cup lost])
    <3>1. out \cap Groups = {}
      BY <2>2, OutSpared
    <3>2. CASE Held(r, new, out)
      <4>1. ~Ended(r) => Onward(x, y) /\ DelRows(r)' = DelRows(r) \cup (out \cap DOMAIN db)
        BY <3>2 DEF Held
      <4>2. lost = {} /\ \A q \in Requests \ {r} : req'[q] = req[q]
        BY <3>2 DEF Held
      <4>3. QED
        BY <1>1, <3>1, <4>1, <4>2 DEF Spared, DelRows
    <3>3. CASE Published(r, new, out)
      <4>1. ~Ended(r) => Onward(x, y) /\ DelRows(r)' = {}
        BY <3>3 DEF Published
      <4>2. DOMAIN db' = Sees(new \cup (PutRows(r) \ out), DelRows(r) \cup (out \cap DOMAIN db), DOMAIN db)
        BY <3>3 DEF Published
      <4>3. lost \subseteq DelRows(r) \cup out
        BY <4>2 DEF Sees
      <4>4. \A q \in Requests \ {r} :
               req'[q] = req[q] \/ (Running(q) /\ req'[q] = [req[q] EXCEPT !.gone = @ \cup lost])
        BY <3>3 DEF Published
      <4>5. QED
        BY <1>1, <3>1, <4>1, <4>3, <4>4 DEF Spared, DelRows
    <3>4. QED
      BY <2>2, <3>2, <3>3
  <2>3. QED
    BY <2>1, <2>2 DEF Changed
<1> HIDE DEF lost
<1>3. Running(r)' => Spared(y)
  <2>1. SUFFICES ASSUME ~Ended(r) PROVE Spared(y)
    BY DEF Running, Ended
  <2>2. y.name = x.name /\ y.asked = x.asked /\ y.gone = x.gone
    BY <1>2, <2>1 DEF Onward
  <2>3. QED
    BY <1>1, <1>2, <2>1, <2>2 DEF Spared, DelRows
<1>4. ASSUME NEW q \in Requests \ {r}, Running(q)' PROVE Spared(req'[q])
  <2>1. DOMAIN req[q] = Fields
    BY DEF InOrder, Going
  <2>2. CASE req'[q] = req[q]
    BY <1>4, <2>2 DEF AllSpared, Running
  <2>3. CASE Running(q) /\ req'[q] = [req[q] EXCEPT !.gone = @ \cup lost]
    <3>1. /\ req'[q].name = req[q].name /\ req'[q].asked = req[q].asked /\ req'[q].del = req[q].del
          /\ req'[q].gone = req[q].gone \cup lost
      BY <2>1, <2>3 DEF Fields
    <3>2. Spared(req[q])
      BY <2>3 DEF AllSpared
    <3>3. QED
      BY <1>2, <3>1, <3>2 DEF Spared
  <2>4. QED
    BY <1>2, <2>2, <2>3
<1>5. QED
  BY <1>3, <1>4 DEF AllSpared

LEMMA ServeSpares ==
    ASSUME InOrder, AllSpared, NEW r \in Requests, NEW name, NEW may, NEW asked, NEW calls,
           Serve(r, name, may, asked, calls),
           name = "UpdateTargetUserProfile" => asked \cap Groups = {}
    PROVE  AllSpared'
<1> DEFINE first == [Idle EXCEPT !.name = name, !.todo = calls, !.asked = asked]
           refused == [Idle EXCEPT !.answer = "error"]
<1>1. req' = [req EXCEPT ![r] = Begun(first)] \/ req' = [req EXCEPT ![r] = refused]
  BY DEF Serve
<1>2. Spared(first) /\ Spared(refused)
  BY DEF Spared, Idle
<1>3. Spared(Begun(first))
  BY <1>2 DEF Begun, Spared, Idle
<1> HIDE DEF first, refused
<1>4. DOMAIN req = Requests
  BY DEF InOrder
<1>5. Spared(req'[r]) /\ \A q \in Requests \ {r} : req'[q] = req[q]
  BY <1>1, <1>2, <1>3, <1>4
<1>6. QED
  BY <1>5 DEF AllSpared, Running

LEMMA ServeWithSpares ==
    ASSUME InOrder, AllSpared, NEW r \in Requests, NEW name, NEW got, NEW calls,
           ServeWith(r, name, got, calls)
    PROVE  AllSpared'
<1> DEFINE first == [Idle EXCEPT !.name = name, !.todo = calls, !.got = [x \in got |-> db[x]]]
<1>1. req' = [req EXCEPT ![r] = Begun(first)]
  BY DEF ServeWith
<1>2. Spared(first)
  BY DEF Spared, Idle
<1>3. Spared(Begun(first))
  BY <1>2 DEF Begun, Spared, Idle
<1> HIDE DEF first
<1>4. DOMAIN req = Requests
  BY DEF InOrder
<1>5. Spared(req'[r]) /\ \A q \in Requests \ {r} : req'[q] = req[q]
  BY <1>1, <1>3, <1>4
<1>6. QED
  BY <1>5 DEF AllSpared, Running

LEMMA AccessHandlersSpare ==
    ASSUME InOrder, AllSpared, NEW r \in Requests, AccessHandlers(r)
    PROVE  AllSpared'
<1>1. CASE CreateRole(r)
  BY <1>1, ServeSpares DEF CreateRole
<1>2. CASE UpdateRoleByID(r)
  BY <1>2, ServeSpares DEF UpdateRoleByID
<1>3. CASE DeleteRole(r)
  BY <1>3, ServeSpares DEF DeleteRole
<1>4. CASE AttachRoleToUser(r)
  BY <1>4, ServeSpares DEF AttachRoleToUser
<1>5. CASE DetachRoleFromUser(r)
  BY <1>5, ServeSpares DEF DetachRoleFromUser
<1>6. CASE CreateScope(r)
  BY <1>6, ServeSpares DEF CreateScope
<1>7. CASE UpdateScope(r)
  BY <1>7, ServeSpares DEF UpdateScope
<1>8. CASE DeleteScope(r)
  BY <1>8, ServeSpares DEF DeleteScope
<1>9. CASE AttachScopeToRole(r)
  BY <1>9, ServeSpares DEF AttachScopeToRole
<1>10. CASE DetachScopeFromRole(r)
  BY <1>10, ServeSpares DEF DetachScopeFromRole
<1>11. CASE CreateUserAndAttachRoles(r)
  BY <1>11, ServeSpares DEF CreateUserAndAttachRoles
<1>12. CASE UpdateUserRoles(r)
  BY <1>12, ServeSpares DEF UpdateUserRoles
<1>13. CASE CreateGroup(r)
  BY <1>13, ServeSpares DEF CreateGroup
<1>14. CASE DeleteUser(r)
  <2>1. PICK calls : Serve(r, "DeleteUser", TRUE, {}, calls)
    BY <1>14 DEF DeleteUser
  <2>2. QED
    BY <2>1, ServeSpares
<1>15. CASE UpdateTargetUserProfile(r)
  <2>1. PICK v, O, G, calls :
           /\ v \in Users /\ O \in Some(Roles) /\ G \in Some(Groups)
           /\ Serve(r, "UpdateTargetUserProfile", TRUE, LinksOf(v, O \cup G), calls)
    BY <1>15 DEF UpdateTargetUserProfile
  <2>2. LinksOf(v, O \cup G) \subseteq Links
    <3>1. LinksOf(v, O) \subseteq Pairs(Users, Roles) /\ LinksOf(v, G) \subseteq Pairs(Users, Groups)
      BY <2>1 DEF LinksOf, Pairs, Some
    <3>2. LinksOf(v, O \cup G) = LinksOf(v, O) \cup LinksOf(v, G)
      BY DEF LinksOf
    <3>3. QED
      BY <3>1, <3>2 DEF Links
  <2>3. Links \cap Groups = {}
    BY DistinctAssumption DEF Entities
  <2>4. QED
    BY <2>1, <2>2, <2>3, ServeSpares
<1>16. CASE UpdateUserProfile(r)
  BY <1>16, ServeWithSpares DEF UpdateUserProfile
<1>17. CASE Login(r)
  BY <1>17, ServeWithSpares DEF Login
<1>18. QED
  BY <1>1, <1>2, <1>3, <1>4, <1>5, <1>6, <1>7, <1>8, <1>9, <1>10, <1>11, <1>12, <1>13,
     <1>14, <1>15, <1>16, <1>17 DEF AccessHandlers

\* Who waits is about to write, and who is waited for has written.
LEMMA WaitingWrites ==
    ASSUME NEW r, NEW q, Awaits(r, q)
    PROVE  /\ Running(r) /\ Head(req[r].todo).op \in Changes
           /\ PutRows(q) \cup DelRows(q) # {}
<1>1. Running(r) /\ Blocks(q, Wanted(r) \cup Unwanted(r), Wanted(r) \ DOMAIN db, Unwanted(r))
  BY DEF Awaits
<1>2. Wanted(r) \cup Unwanted(r) # {} /\ PutRows(q) \cup DelRows(q) # {}
  BY <1>1 DEF Blocks, Added, PutRows, DelRows
<1>3. Head(req[r].todo).op \in Changes
  <2>1. SUFFICES ASSUME Head(req[r].todo).op \notin Changes PROVE Wanted(r) = {} /\ Unwanted(r) = {}
    BY <1>2
  <2>2. QED
    BY <2>1 DEF Wanted, Unwanted, Changes
<1>4. QED
  BY <1>1, <1>2, <1>3

\* What a request about a user has added is there, or is his own links.
LEMMA NoGroupComesBack ==
    ASSUME AllRightful, AllSpared, NEW q \in Requests, Running(q),
           req[q].name = "UpdateTargetUserProfile"
    PROVE  Groups \cap PutRows(q) \subseteq DOMAIN db
<1>1. DOMAIN req[q].put \subseteq req[q].asked \cup req[q].gone \cup DOMAIN db
  BY DEF AllRightful, Rightful, Ok
<1>2. QED
  BY <1>1 DEF AllSpared, Spared, PutRows

\* Whoever waits is before the one he waits for.
LEMMA Rises ==
    ASSUME ForeignKeys, NEW r, NEW q, NEW e, NEW f, Stance(r, e), Stance(q, f), Waits(r, e, q),
           Lone(r, q), PutRows(r) \cap PutRows(q) = {}, PutRows(r) \cup DelRows(r) # {},
           ~MayCross(req[r].name, req[q].name), ~MayCross(req[q].name, req[r].name),
           req[q].name = "UpdateTargetUserProfile" =>
              req[r].name # "DeleteRole" /\ Groups \cap PutRows(q) \subseteq DOMAIN db
    PROVE  Rank(r, e) < Rank(q, f)
<1>1. CASE Own(req[r].name) # Own(req[q].name)
  BY <1>1, RisesAcross
<1>2. CASE Own(req[r].name) = Own(req[q].name)
  <2>1. f \in Users \/ f \in Roles \/ f \in Scopes
    BY NamesOf DEF Stance
  <2>2. QED
    BY <1>2, <2>1, RisesAtUsers, RisesAtRoles, RisesAtScopes
<1>3. QED
  BY <1>1, <1>2

LEMMA OnlyThese ==
    ASSUME InOrder, IInv, AllPlay, AllLone, AllRightful, AllSpared
    PROVE  OnlyRowAgainstLinks
<1> DEFINE Named ==
              Pairs({"DeleteUser"}, {"Login", "UpdateUserProfile"})
                \cup Pairs({"UpdateTargetUserProfile"},
                           {"DeleteUser", "UpdateUserRoles", "UpdateTargetUserProfile"})
                \cup {{"DeleteRole", "UpdateRoleByID"}, {"DeleteScope", "UpdateScope"}}
<1>1. SUFFICES ASSUME NEW C \in (SUBSET Requests) \ {{}},
                      \A r \in C : \E q \in C \ {r} : Awaits(r, q),
                      \A r \in C : \A q \in C \ {r} :
                         Awaits(r, q) =>
                            /\ {req[r].name, req[q].name} \notin Named
                            /\ ~(req[r].name = "DeleteRole" /\ req[q].name = "UpdateTargetUserProfile"
                                   /\ ~Awaits(q, r))
               PROVE  FALSE
  BY Zenon DEF OnlyRowAgainstLinks
<1> DEFINE W == {q \in C : PutRows(q) \cup DelRows(q) # {}}
           own(r) == CHOOSE e \in Own(req[r].name) : Stance(r, e)
           rank(r) == Rank(r, own(r))
<1>2. \A n, m : MayCross(n, m) => {n, m} \in Named
  BY DEF MayCross, Pairs
<1> HIDE DEF Named
<1>3. \A r \in C : Running(r) /\ Head(req[r].todo).op \in Changes
  BY <1>1, WaitingWrites
<1>4. \A r \in C : \E q \in W : r # q /\ Awaits(r, q)
  BY <1>1, WaitingWrites
<1>5. ASSUME NEW r \in W PROVE Stance(r, own(r)) /\ Unfinished(r)
  <2>1. r \in Requests /\ Running(r) /\ Head(req[r].todo).op \in Changes
    BY <1>3, <1>5
  <2>2. \E e \in Own(req[r].name) : Stance(r, e)
    BY <1>5, <2>1, TakesStance
  <2>3. Head(req[r].todo) = req[r].todo[1] /\ Len(req[r].todo) \in Nat /\ Len(req[r].todo) > 0
    BY <2>1, HeadFacts, TailIs
  <2>4. 1 \in 1 .. Len(req[r].todo)
    BY <2>3
  <2>5. Unfinished(r)
    BY <2>1, <2>3, <2>4 DEF Unfinished
  <2>6. QED
    BY <2>2, <2>5
<1> HIDE DEF own
<1>6. ASSUME NEW r \in W PROVE \E q \in W : rank(r) < rank(q)
  <2>1. PICK q \in W : r # q /\ Awaits(r, q)
    BY <1>4, <1>6
  <2> DEFINE e == own(r)
             f == own(q)
             n == req[r].name
             m == req[q].name
  <2>2. Stance(r, e) /\ Stance(q, f) /\ Unfinished(r) /\ Unfinished(q) /\ r \in Requests /\ q \in Requests
    BY <1>5, <1>6, <2>1
  <2>3. Waits(r, e, q)
    BY <2>1, <2>2, HowItWaits DEF Waits
  <2>4. Lone(r, q) /\ PutRows(r) \cap PutRows(q) = {} /\ ForeignKeys
    BY <2>1, <2>2 DEF AllLone, IInv, AllApart, Apart
  <2>5. {n, m} \notin Named
    BY <1>1, <1>6, <2>1
  <2>6. ~MayCross(n, m) /\ ~MayCross(m, n)
    <3>1. {n, m} = {m, n}
      OBVIOUS
    <3>2. QED
      BY <1>2, <2>5, <3>1
  <2>7. ~(n = "DeleteRole" /\ m = "UpdateTargetUserProfile")
    <3>1. SUFFICES ASSUME n = "DeleteRole", m = "UpdateTargetUserProfile" PROVE FALSE
      OBVIOUS
    <3>2. Awaits(q, r)
      BY <1>1, <1>6, <2>1, <3>1
    <3>3. Waits(q, f, r)
      BY <2>2, <3>2, HowItWaits DEF Waits
    <3>4. Own(n) = Own(m)
      BY <2>2, <2>3, <3>3, OneKind
    <3>5. e \in Own("DeleteRole") /\ Own("DeleteRole") = Roles /\ Own("UpdateTargetUserProfile") = Users
      BY <2>2, <3>1, KindsOf DEF Stance
    <3>6. QED
      BY <3>1, <3>4, <3>5, KindsApart
  <2>8. m = "UpdateTargetUserProfile" => Groups \cap PutRows(q) \subseteq DOMAIN db
    BY <1>3, <2>1, <2>2, NoGroupComesBack
  <2>9. PutRows(r) \cup DelRows(r) # {}
    BY <1>6
  <2>10. Rank(r, e) < Rank(q, f)
    BY <2>2, <2>3, <2>4, <2>6, <2>7, <2>8, <2>9, Rises
  <2>11. QED
    BY <2>1, <2>10
<1>7. \A r \in W : rank(r) \in 0 .. 10
  BY <1>5, RankIs
<1>8. W # {}
  BY <1>1, <1>4
<1> HIDE DEF W, rank
<1> DEFINE S == {rank(r) : r \in W}
<1>9. S \in SUBSET (0 .. 10) /\ S # {} /\ \A i \in S : \E j \in S : i < j
  BY <1>6, <1>7, <1>8
<1>10. QED
  BY <1>9, SomeIsLast

WInv == RInv /\ AllPlay /\ AllLone /\ AllSpared

\* However many requests are under way, and whatever they are about, they wait for one another
\* in a circle only over one of the pairs of handlers that OnlyRowAgainstLinks names: where one
\* deletes a row after its links and the other writes the row first (DeleteUser against Login or
\* UpdateUserProfile, DeleteRole against UpdateRoleByID, DeleteScope against UpdateScope), where
\* one replaces the links of a user that the other changes too, or, in a circle of more than
\* two, where DeleteRole waits for the links that UpdateTargetUserProfile has added.  All others
\* take rows and links in an order that lets one of them go on.
THEOREM DeadlocksAreKnown == AccessSpec => []OnlyRowAgainstLinks
<1>1. Init => WInv
  <2>1. SUFFICES ASSUME Init PROVE WInv
    OBVIOUS
  <2>2. \A r \in Requests : req[r].todo = <<>>
    BY <2>1 DEF Init, Idle
  <2>3. \A r \in Requests : ~Running(r) /\ ~Unfinished(r)
    BY <2>2, LenOfNone DEF Running, Unfinished
  <2>4. AllPlay /\ AllLone /\ AllSpared
    BY <2>3 DEF AllPlay, AllLone, AllSpared
  <2>5. QED
    BY <2>1, <2>3, <2>4, InitInOrder, InitHolds DEF WInv, RInv, AllRightful
<1>2. ASSUME WInv, [AccessNext]_vars PROVE WInv'
  <2>1. RInv /\ AllPlay /\ AllLone /\ AllSpared /\ InOrder /\ IInv
    BY <1>2 DEF WInv, RInv
  <2>2. [Next]_vars
    BY <1>2 DEF AccessNext, Next, Handlers
  <2>3. RInv' /\ InOrder' /\ IInv'
    BY <2>1, <2>2, NextIsRightful DEF RInv
  <2>4. ASSUME NEW r \in Requests, AccessHandlers(r) PROVE AllPlay' /\ AllLone' /\ AllSpared'
    BY <2>1, <2>4, AccessHandlersPlay, AccessHandlersSpare
  <2>5. ASSUME NEW r \in Requests, Steps(r) \/ Fail(r) PROVE AllPlay' /\ AllLone' /\ AllSpared'
    <3>1. Running(r) /\ Changed(r)
      BY <2>1, <2>5, StepGoesOn, FailGoesOn
    <3>2. QED
      BY <2>1, <2>3, <2>5, <3>1, StepKeepsPlays, StepKeepsLone, StepSpares
  <2>6. ASSUME UNCHANGED vars PROVE AllPlay' /\ AllLone' /\ AllSpared'
    <3>1. req' = req /\ db' = db
      BY <2>6 DEF vars
    <3>2. \A r \in Requests : Unfinished(r)' <=> Unfinished(r)
      BY <3>1 DEF Unfinished
    <3>3. \A r, q \in Requests : Lone(r, q)' <=> Lone(r, q)
      BY <3>1 DEF Lone, DelRows
    <3>4. QED
      BY <2>1, <3>1, <3>2, <3>3 DEF AllPlay, AllLone, AllSpared, Running
  <2>7. AllPlay' /\ AllLone' /\ AllSpared'
    <3>1. CASE AccessNext
      BY <2>4, <2>5, <3>1 DEF AccessNext
    <3>2. QED
      BY <1>2, <2>6, <3>1
  <2>8. QED
    BY <2>3, <2>7 DEF WInv
<1>3. WInv => OnlyRowAgainstLinks
  BY OnlyThese DEF WInv, RInv
<1>4. QED
  BY <1>1, <1>2, <1>3, PTL DEF AccessSpec
=============================================================================
