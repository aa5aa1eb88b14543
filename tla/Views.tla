-------------------------------- MODULE Views --------------------------------
(***************************************************************************)
(* The handlers that only read: what each answers, out of the rows that    *)
(* are committed.  The same question (whom does a role manage, who sees a  *)
(* competition) is asked by several queries, in SQL or through preloaded   *)
(* associations, written apart from each other.                            *)
(***************************************************************************)
EXTENDS Tables

Denied == {Nothing}

ASSUME NothingAssumption == Nothing \notin Entities

Answer(may, rows) == IF may THEN rows ELSE Denied

Linked(x, y) == {x, y} \in DOMAIN db
All(X) == X \cap DOMAIN db

----------------------------------------------------------------------------
(* Roles and scopes. *)

GetAllRoles(u) == Answer(Has(u, "ROLES"), All(Roles))
GetRoleByID(u, o) == Answer(Has(u, "ROLES") /\ o \in DOMAIN db, {o})
GetAllScopes(u) == Answer(Has(u, "SCOPES"), All(Scopes))
GetScope(u, s) == Answer(Has(u, "SCOPES") /\ s \in DOMAIN db, {s})

ScopesOf(O) == {s \in All(Scopes) : \E o \in All(O) : Linked(s, o)}

GetUserScopes(u) ==
    IF Has(u, "SCOPES") THEN All(Scopes)
    ELSE {s \in All(Scopes) : \E o \in All(Roles) : Linked(s, o) /\ Linked(o, u)}

GetRoleScopes(u, O) ==
    Answer(IsStaff(u) /\ O # {},
           IF \E o \in All(O) : "OWNER" \in db[o].permissions THEN All(Scopes) ELSE ScopesOf(O))

----------------------------------------------------------------------------
(* Groups. *)

\* userCanManageGroup: the user with Roles.Scopes.Groups preloaded.
userCanManageGroup(u, g) ==
    g \in UNION {{h \in All(Groups) : ScopeOf[h] = s} : s \in ScopesOf(RolesOf(u))}

GetAllGroups(u) == Answer(Has(u, "GROUPS"), All(Groups))
GetGroup(u, g) ==
    Answer(g \in DOMAIN db /\ (userCanManageGroup(u, g) \/ Has(u, "OWNER")), {g})
GetGroupsFromScope(s) == Answer(s \in DOMAIN db, {g \in All(Groups) : ScopeOf[g] = s})
GetUserGroups(u) == {g \in All(Groups) : Linked(u, g)}

\* Mutant: the join stops at role_scopes.
GetMyGroups_ByRoleOnly(u) ==
    {g \in All(Groups) : \E o \in Roles : Linked(ScopeOf[g], o)}
GetMyGroups(u) ==
    {g \in All(Groups) : \E o \in Roles : Linked(ScopeOf[g], o) /\ Linked(o, u)}

----------------------------------------------------------------------------
(* Users. *)

\* UserOwnsTargetGroups, in handlers/users and in handlers/groups.
UserOwnsTargetGroups(u, target) ==
    \E g \in All(Groups) :
       /\ Linked(target, g)
       /\ \E s \in All(Scopes), o \in All(Roles) :
             ScopeOf[g] = s /\ Linked(s, o) /\ Linked(o, u)

getUsersFromRoleIDs(O) ==
    {v \in All(Users) : \E g \in All(Groups), o \in All(O) :
                           Linked(v, g) /\ Linked(ScopeOf[g], o)}

getUsersFromRoleScopes(u) ==
    {v \in All(Users) : \E g \in All(Groups), s \in All(Scopes), o \in All(Roles) :
                           Linked(v, g) /\ ScopeOf[g] = s /\ Linked(s, o) /\ Linked(o, u)}

getUsersInSameGroups(u) ==
    {v \in All(Users) : \E g \in All(Groups) : Linked(v, g) /\ Linked(u, g)}

GetUsers(u) ==
    IF Has(u, "OWNER") THEN All(Users)
    ELSE IF RolesOf(u) = {} THEN getUsersInSameGroups(u)
    ELSE getUsersFromRoleScopes(u)

GetUsersFromRoles(u, O) == Answer(IsStaff(u) /\ O # {}, getUsersFromRoleIDs(O))

----------------------------------------------------------------------------
(* Competitions; a user with any role sees them all. *)

hasCompetitionPermission(u) == IsStaff(u) \/ Has(u, "COMPETITIONS")

Shown(c) == c \in DOMAIN db /\ db[c].show

userHasAccessToCompetition(u, c) ==
    \E g \in Groups : Linked(c, g) /\ Linked(g, u) /\ Shown(c)

GetAccessibleCompetition(u, c) ==
    c \in {d \in All(Competitions) : db[d].show /\ \E g \in Groups : Linked(d, g) /\ Linked(g, u)}

GetAllCompetitions(u) == Answer(hasCompetitionPermission(u) \/ Has(u, "OWNER"), All(Competitions))

GetUserCompetitions(u) ==
    IF hasCompetitionPermission(u) \/ Has(u, "OWNER") THEN GetAllCompetitions(u)
    ELSE {c \in All(Competitions) : Shown(c) /\ \E g \in Groups : Linked(c, g) /\ Linked(g, u)}

GetCompetition(u, c) ==
    Answer(/\ c \in DOMAIN db
           /\ hasCompetitionPermission(u) \/ Has(u, "OWNER") \/ userHasAccessToCompetition(u, c),
           {c})

GetCompetitionGroups(u, c) ==
    Answer(hasCompetitionPermission(u) /\ c \in DOMAIN db, {g \in All(Groups) : Linked(c, g)})

----------------------------------------------------------------------------
\* Whoever manages a group finds it in his list, may open it, and is listed its members,
\* whom alone he may act upon; what is listed may be opened.  The queries that decide (by
\* preloading, or by SQL with three to six joins) and those that list agree.
ManagersAgree ==
    \A u \in All(Users) :
       /\ GetMyGroups(u) = {g \in All(Groups) : userCanManageGroup(u, g)}
       /\ GetMyGroups(u) = {g \in All(Groups) : ManagesIn(DOMAIN db, u, g)}
       /\ GetMyGroups(u) \subseteq {g \in Groups : GetGroup(u, g) = {g}}
       /\ GetAllGroups(u) = Denied \/ GetMyGroups(u) \subseteq GetAllGroups(u)
       /\ Has(u, "SCOPES") \/ GetMyGroups(u) = UNION {GetGroupsFromScope(s) : s \in GetUserScopes(u)}
       /\ Has(u, "SCOPES") \/ Has(u, "OWNER")
             \/ GetRoleScopes(u, RolesOf(u)) \in {Denied, GetUserScopes(u)}
       /\ \A v \in All(Users) :
             /\ UserOwnsTargetGroups(u, v) <=> v \in getUsersFromRoleScopes(u)
             /\ UserOwnsTargetGroups(u, v) <=> GetMyGroups(u) \cap GetUserGroups(v) # {}
             /\ UserOwnsTargetGroups(u, v) <=> OwnsIn(DOMAIN db, u, v)
             /\ UserOwnsTargetGroups(u, v) => v \in GetUsers(u)
       /\ GetUsersFromRoles(u, RolesOf(u)) \in {Denied, getUsersFromRoleScopes(u)}
       /\ \A o \in Roles : o \in GetAllRoles(u) <=> GetRoleByID(u, o) = {o}
       /\ \A s \in Scopes : s \in GetAllScopes(u) <=> GetScope(u, s) = {s}

\* A competition opens for those, and only those, to whom it is listed, whichever of the
\* three queries is asked; and it is open to the members of the groups that are shown to
\* whoever may ask for them.  Who may is not asked here.
PlayersAgree ==
    \A u \in All(Users), c \in All(Competitions) :
       /\ GetAccessibleCompetition(u, c) <=> userHasAccessToCompetition(u, c)
       /\ c \in GetUserCompetitions(u) <=> GetCompetition(u, c) = {c}
       /\ GetAllCompetitions(u) \in {Denied, GetUserCompetitions(u)}
       /\ GetCompetitionGroups(u, c) # Denied => \A v \in All(Users) :
             GetAccessibleCompetition(v, c)
               <=> db[c].show /\ GetCompetitionGroups(u, c) \cap GetUserGroups(v) # {}

\* Both, of the tables as committed changes of roles, scopes, groups and memberships leave
\* them: no query of one file gives an answer that one of another file contradicts.
QueriesAgree == ManagersAgree /\ PlayersAgree
=============================================================================
