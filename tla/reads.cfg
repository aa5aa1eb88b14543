\* Two requests, as many changes as each scenario says, and time for a key to be set late
\* and to expire.
SPECIFICATION Spec
CONSTANTS
    None = None
    r1 = r1
    r2 = r2
    ann = ann
    bob = bob
    Requests = {r1, r2}
    Users = {ann, bob}
    Top = 1
    Minutes <- MCMinutes
    Timeout = 1
    MaxTime = 4
    Scenarios <- MCScenarios
    Worlds <- MCWorlds
SYMMETRY MCSymmetry
INVARIANTS
    AnswersAreRecent
    OwnTriesOnly
\* Every request has its answer in the end.
CHECK_DEADLOCK FALSE
