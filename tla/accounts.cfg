\* One account, two goroutines, the default password and one other, two
\* reset tokens: every two handlers overlap in every way.
SPECIFICATION Spec
CONSTANTS
    None = None
    Requests = {r1, r2}
    Words = {w1, Default}
    Default = Default
    Profiles = {p1, p2}
    Tokens = {t1, t2}
SYMMETRY MCSymmetry
INVARIANTS
    TypeOK
    ChangesLast
    UnflaggedIsOwn
    OneUse
PROPERTY RequestEndsOthers
\* A deleted account is the end.
CHECK_DEADLOCK FALSE
