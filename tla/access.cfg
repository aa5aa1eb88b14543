\* Two requests of anybody; an owner, a member of staff, one group that may see a shown
\* and a hidden competition, one catalog, and a user, a role and a scope to be made.
SPECIFICATION AccessSpec
CONSTANTS
    r1 = r1
    r2 = r2
    adm = adm
    ben = ben
    new = new
    owner = owner
    staff = staff
    role = role
    scope = scope
    scope2 = scope2
    scope3 = scope3
    group = group
    catalog = catalog
    comp = comp
    hidden = hidden
    Requests = {r1, r2}
    Users = {adm, ben, new}
    Roles = {owner, staff, role}
    Scopes = {scope, scope2, scope3}
    Groups = {group}
    Catalogs = {catalog}
    Competitions = {comp, hidden}
    ScopeOf <- MCScopeOf
    MaxAsked = 1
    Grants = {{}, {"GROUPS"}}
    Databases <- MCDatabases
SYMMETRY MCSymmetry
INVARIANTS ErrorChangedNothing QueriesAgree OnlyRowAgainstLinks
PROPERTIES NoComeback NeverStripped
\* Every request has its answer in the end.
CHECK_DEADLOCK FALSE
