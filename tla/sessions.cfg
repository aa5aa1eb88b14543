\* Two goroutines serve one account; the token that is followed, sent as it is or
\* with white space, outlives a cached session by more than the deadline of a
\* request, the others are issued unseen.
SPECIFICATION Spec
CONSTANTS
    None = None
    Tokens = {t1}
    Spaces = {bare, spaced}
    Requests = {r1, r2}
    JWTExpiration = 3
    UserCacheDuration = 1
    SessionTimeout = 1
SYMMETRY MCSymmetry
INVARIANTS
    TypeOK
    LoggedOutIsOut
    OneSuccessor
    BlockedGetsNoToken
    StaleOnlyWithoutTTL
