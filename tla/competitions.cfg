\* Two requests of anybody; an owner, a member of staff who is in the group he manages, a
\* competition the group may see, and a group, a competition and two users to be made.
SPECIFICATION CompetitionSpec
CONSTANTS
    r1 = r1
    r2 = r2
    adm = adm
    ben = ben
    new = new
    new2 = new2
    owner = owner
    staff = staff
    scope = scope
    group = group
    group2 = group2
    group3 = group3
    catalog = catalog
    comp = comp
    comp2 = comp2
    Requests = {r1, r2}
    Users = {adm, ben, new, new2}
    Roles = {owner, staff}
    Scopes = {scope}
    Groups = {group, group2, group3}
    Catalogs = {catalog}
    Competitions = {comp, comp2}
    ScopeOf <- MCScopeOf
    MaxAsked = 2
    Grants = {}
    Databases <- MCDatabases
SYMMETRY MCSymmetry
INVARIANTS
    ForeignKeys
PROPERTIES
    OnlyUpdateIsPartial
    OnlyEmptyGroupStaysOpen
    NeverClosedByUpdate
    UsersComeWithGroup
\* Every request has its answer in the end.
CHECK_DEADLOCK FALSE
