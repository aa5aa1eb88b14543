\* Two identifiers, two goroutines, a bucket of two refills.
SPECIFICATION Spec
CONSTANTS
    None = None
    Identifiers = {ip1, ip2}
    Requests = {r1, r2}
    Rate = 1
    Burst = 2
    Interval = 2
    MaxTime = 5
INVARIANTS
    TypeOK
    BurstPlusRate
    NobodyLockedOut
SYMMETRY MCSymmetry
