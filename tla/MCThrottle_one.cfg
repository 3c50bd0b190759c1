CONSTANTS
    r1 = r1
    r2 = r2
    Requests <- MCRequests
    Throttles <- MCThrottles
    Second = 2
    MaxTime = 3
    MaxArrays = 4
SPECIFICATION Spec
SYMMETRY MCSymmetry
INVARIANT TypeOK
INVARIANT NeverOverRate
PROPERTY RefusesOnlyTheRecent
PROPERTY RetryAfterIsHonest
