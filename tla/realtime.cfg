\* Two dashboards, two requests, the rows of one puzzle, two commits of each.
SPECIFICATION FairSpec
CONSTANTS
    None = None
    comp = comp
    first = first
    second = second
    Competitions = {comp}
    Conns = {c1, c2}
    Watches <- MCWatches
    Tries = {first, second}
    CompetitionOf <- MCCompetitionOf
    Batches <- MCBatches
    Requests = {r1, r2}
    Serial = {first, second}
    MaxVersion = 2
INVARIANTS
    TypeOK
    NothingLost
PROPERTIES
    NeverGoesBack
    EveryRequestGetsOn
    RegistryForgets
\* Commits and connections are bounded.
CHECK_DEADLOCK FALSE
