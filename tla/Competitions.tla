---------------------------- MODULE Competitions ----------------------------
(***************************************************************************)
(* Competitions, the groups that may see them, and the members of groups   *)
(* (handlers/competitions/competition_management.go, competition_groups.go,*)
(* handlers/groups, handlers/users/user_groups.go), next to the first try  *)
(* of a player, which refers to both him and the competition.              *)
(***************************************************************************)
EXTENDS Access, Functions

----------------------------------------------------------------------------
(* handlers/competitions/competition_management.go *)

\* The commit is not checked, and neither is the read of the answer.
CreateCompetition(r) ==
    \E u \in Users \cap DOMAIN db, k \in Catalogs, c \in New(Competitions), show \in BOOLEAN,
       G \in Some(Groups) :
       Serve(r, "CreateCompetition", hasCompetitionPermission(u), {c} \cup LinksOf(c, G),
             <<First(k), Begin, Create({c}, [show |-> show, finished |-> FALSE])>>
               \o (IF G = {} THEN <<>> ELSE <<Find(G, "any"), Associate(c)>>)
               \o <<CommitUnchecked>>)

\* Delete the old groups, then add the new ones.
UpdateCompetition_ClearsFirst(r) ==
    \E u \in Users \cap DOMAIN db, c \in Competitions, G \in Some(Groups) :
       Serve(r, "UpdateCompetition", hasCompetitionPermission(u), LinksOf(c, G),
             <<First(c), Find(G, "any"), Trim(c, Groups), Associate(c), Updates(c, Nothing)>>)

\* The groups are replaced outside any transaction, before the columns; the columns take
\* the groups found along.
UpdateCompetition(r) ==
    \E u \in Users \cap DOMAIN db, c \in Competitions, G \in Some(Groups),
       set \in {Nothing} \cup [{"show"} -> BOOLEAN] \cup [{"finished"} -> BOOLEAN] :
       Serve(r, "UpdateCompetition", hasCompetitionPermission(u), LinksOf(c, G),
             <<First(c)>>
               \o (IF G = {} THEN <<>> ELSE <<Find(G, "any")>> \o Replace(c, Groups))
               \o <<Begin, Updates(c, set), Associate(c), Commit>>)

\* The competition first, then what refers to it.
DeleteCompetition(r) ==
    \E u \in Users \cap DOMAIN db, c \in Competitions :
       Serve(r, "DeleteCompetition", hasCompetitionPermission(u), {},
             <<First(c), Begin, Delete(LinksOf(c, Users)), Delete(LinksOf(c, Groups)),
               Delete({c}), CommitUnchecked>>)

\* FinishCompetition and ToggleCompetitionVisibility: read, negate, save every column.
FinishCompetition(r) ==
    \E u \in Users \cap DOMAIN db, c \in Competitions :
       Serve(r, "FinishCompetition", hasCompetitionPermission(u), {},
             <<Load(c), Negate("finished"), Save(c)>>)

ToggleCompetitionVisibility(r) ==
    \E u \in Users \cap DOMAIN db, c \in Competitions :
       Serve(r, "ToggleCompetitionVisibility", hasCompetitionPermission(u), {},
             <<Load(c), Negate("show"), Save(c)>>)

----------------------------------------------------------------------------
(* handlers/competitions/competition_groups.go; the caches are in Reads. *)

AddGroupToCompetition(r) ==
    \E u \in Users \cap DOMAIN db, c \in Competitions, g \in Groups :
       Serve(r, "AddGroupToCompetition", hasCompetitionPermission(u), {{c, g}},
             <<Begin, First(c), First(g), Ensure({{c, g}}), First(c), Commit>>)

RemoveGroupFromCompetition(r) ==
    \E u \in Users \cap DOMAIN db, c \in Competitions, g \in Groups :
       Serve(r, "RemoveGroupFromCompetition", hasCompetitionPermission(u), {},
             <<Begin, First(c), First(g), Delete({{c, g}}), First(c), Commit>>)

----------------------------------------------------------------------------
(* handlers/groups; CreateGroup is in Access. *)

Managing(u, g) == IF Has(u, "OWNER") THEN <<>> ELSE <<Manages(u, g)>>

UpdateGroup(r) ==
    \E u \in Users \cap DOMAIN db, g \in Groups :
       Serve(r, "UpdateGroup", TRUE, {}, <<First(g)>> \o Managing(u, g) \o <<Updates(g, Nothing)>>)

\* transactionHandler: an error of the function is answered, one of the commit is not.
DeleteGroup(r) ==
    \E u \in Users \cap DOMAIN db, g \in Groups :
       Serve(r, "DeleteGroup", TRUE, {},
             <<First(g)>> \o Managing(u, g)
               \o <<Begin, Delete(LinksOf(g, Users)), Delete(LinksOf(g, Competitions)),
                    Delete({g}), CommitUnchecked>>)

\* UserOwnsTargetGroups is asked about the group instead of a user, and says no.  A
\* failure to look for the member counts as having found him.
AddUserToGroup(r) ==
    \E u \in Users \cap DOMAIN db, v \in Users, g \in Groups :
       Serve(r, "AddUserToGroup", TRUE, {{v, g}},
             <<First(g), Manages(u, g), Find({v}, "all"), Check({{v, g}}, FALSE, "ok"),
               Associate(g)>>)

RemoveUserFromGroup(r) ==
    \E u \in Users \cap DOMAIN db, v \in Users, g \in Groups :
       Serve(r, "RemoveUserFromGroup", TRUE, {},
             <<First(g), Manages(u, g), First(v), Check({{v, g}}, TRUE, "ok"),
               Delete({{v, g}})>>)

----------------------------------------------------------------------------
(* handlers/users/user_groups.go and user_management.go *)

CreateUserAndAttachGroup(r) ==
    \E u \in Users \cap DOMAIN db, v \in Unused(Users), G \in Some(Groups) :
       Serve(r, "CreateUserAndAttachGroup", IsStaff(u) /\ G # {}, {v} \cup LinksOf(v, G),
             <<Begin, Find(G, "some"), Create({v}, Nothing), Associate(v), Commit, Reload(v)>>)

\* Each of a list of users, which may name one twice, with the group in him.
CreateEach(list) ==
    [i \in 1 .. 2 * Len(list) |-> IF i % 2 = 1 THEN Create({list[(i + 1) \div 2]}, Nothing)
                                              ELSE Associate(list[i \div 2])]

\* What is new then.
AskedFor(list, g) == Range(list) \cup LinksOf(g, Range(list))

\* Create, then the group, each user committed by himself.
CreateBulkUsersAndAttachGroup_Untied(r) ==
    \E u \in Users \cap DOMAIN db, list \in Lists(Users \ dead), g \in Groups :
       Serve(r, "CreateBulkUsersAndAttachGroup", Has(u, "OWNER"), AskedFor(list, g),
             <<Find({g}, "all")>> \o CreateEach(list))

\* By the owner only: UserOwnsTargetGroups is asked about the group.  Ids and e-mails
\* come from the client: Create refuses those of a user who is there.
CreateBulkUsersAndAttachGroup(r) ==
    \E u \in Users \cap DOMAIN db, list \in Lists(Users \ dead), g \in Groups :
       Serve(r, "CreateBulkUsersAndAttachGroup", Has(u, "OWNER"), AskedFor(list, g),
             <<Find({g}, "all"), Begin>> \o CreateEach(list) \o <<Commit>>)

\* The same from a file, after a look for each of the e-mails.
ImportUsersFromXLSXToGroup(r) ==
    \E u \in Users \cap DOMAIN db, list \in Lists(Users \ dead), g \in Groups :
       Serve(r, "ImportUsersFromXLSXToGroup", Has(u, "OWNER"), AskedFor(list, g),
             <<Find({g}, "all"), Begin, Check(Range(list), FALSE, "error")>>
                \o CreateEach(list) \o <<Commit>>)

\* The users of the group, out of it, without their roles, deleted.
DeleteAllUsersFromGroup(r) ==
    \E u \in Users \cap DOMAIN db, g \in Groups :
       Serve(r, "DeleteAllUsersFromGroup", Has(u, "OWNER"), {},
             <<First(g), Begin, Members(g), LeaveIfNone, DetachFound({g}),
               DetachFound(Roles), DeleteFound, Commit>>)

\* The users looked for in the transaction, and "no content" if there are none.
BulkDeleteUsers_ReturnsEarly(r) ==
    \E u \in Users \cap DOMAIN db, V \in Some(Users) \ {{}} :
       Serve(r, "BulkDeleteUsers", Has(u, "OWNER"), {},
             <<Begin, Find(V, "any"), LeaveIfNone, DetachFound(Roles \cup Groups), Delete(V),
               Commit>>)

\* All that are found, or none.
BulkDeleteUsers(r) ==
    \E u \in Users \cap DOMAIN db, V \in Some(Users) \ {{}} :
       Serve(r, "BulkDeleteUsers", TRUE, {},
             <<Find(V, "some")>> \o (IF Has(u, "OWNER") THEN <<>> ELSE <<OwnsFound(u)>>)
               \o <<Begin, DetachFound(Roles \cup Groups), Delete(V), Commit>>)

----------------------------------------------------------------------------
\* The first input of a puzzle: services.TriggerPuzzleFirstTry (see Tries).
TriggerPuzzleFirstTry(r) ==
    \E u \in Users \cap DOMAIN db, c \in Competitions :
       Serve(r, "TriggerPuzzleFirstTry", GetAccessibleCompetition(u, c), {{u, c}},
             <<Check({{u, c}}, FALSE, "ok"), Create({{u, c}}, Nothing)>>)

----------------------------------------------------------------------------
CompetitionHandlers(r) ==
    \/ CreateCompetition(r) \/ UpdateCompetition(r) \/ DeleteCompetition(r)
    \/ FinishCompetition(r) \/ ToggleCompetitionVisibility(r)
    \/ AddGroupToCompetition(r) \/ RemoveGroupFromCompetition(r)
    \/ CreateGroup(r) \/ UpdateGroup(r) \/ DeleteGroup(r)
    \/ AddUserToGroup(r) \/ RemoveUserFromGroup(r)
    \/ CreateUserAndAttachGroup(r) \/ CreateBulkUsersAndAttachGroup(r)
    \/ ImportUsersFromXLSXToGroup(r) \/ DeleteAllUsersFromGroup(r) \/ BulkDeleteUsers(r)
    \/ TriggerPuzzleFirstTry(r)

CompetitionNext ==
    \E r \in Requests : (Unserved(r) /\ CompetitionHandlers(r)) \/ Steps(r) \/ Fail(r)

CompetitionSpec == Init /\ [][CompetitionNext]_vars

----------------------------------------------------------------------------
Refused(r) == req'[r].answer = "error" /\ req[r].answer = "none"

\* A request that is told "error" has changed nothing, with one exception: an update of a
\* competition may have replaced its groups before it failed.
OnlyUpdateIsPartial ==
    [][\A r \in Requests : Refused(r) /\ req[r].wrote => req[r].name = "UpdateCompetition"]_vars

\* Whoever has answered has ended his transaction, with one exception: the deletion of the
\* members of a group that has none.
OnlyEmptyGroupStaysOpen ==
    [][\A r \in Requests :
          req'[r].open /\ req'[r].answer # "none"
             => req[r].open /\ (Running(r) => req[r].name = "DeleteAllUsersFromGroup")]_vars

\* A competition that is open to groups is given other groups without a moment in which it
\* is open to nobody: unless a group is deleted or taken from it, groups were asked for
\* that are not there, or the groups it was just given were deleted by another request (two
\* updates that overlap delete each other's).
NeverClosedByUpdate ==
    [][\A c \in Competitions, r \in Requests :
          /\ db' # db /\ req'[r].todo # req[r].todo
          /\ LinksOf(c, Groups) \cap DOMAIN db # {}
          /\ LinksOf(c, Groups) \cap DOMAIN db' = {}
          => \/ req[r].name \in {"RemoveGroupFromCompetition", "DeleteGroup", "DeleteCompetition"}
             \/ /\ req[r].name = "UpdateCompetition"
                /\ req[r].got = Nothing \/ LinksOf(c, Groups) \cap req[r].gone # {}]_vars

\* Whoever is created is, in the same commit, member of the group he was created for: a
\* list of users of which one fails leaves no users without group behind.
UsersComeWithGroup ==
    [][\A v \in (Users \cap DOMAIN db') \ (DOMAIN db \cup dead) : LinksOf(v, Groups) \cap DOMAIN db' # {}]_vars
=============================================================================
