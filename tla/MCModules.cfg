SPECIFICATION FairSpec
CONSTANTS
    i1 = i1
    n1 = n1
    t1 = t1
    v1 = v1
    Ids = {i1, i2, i3}
    Names = {n1, n2}
    Tags = {t1}
    Values = {v1, v2}
    None = None
    Latest = Latest
    Protected = v1
    Wish <- MCWish
    MaxMoves = 2
    MaxFaults = 1
INVARIANTS
    TypeOK
    NoNeedlessWrite
    FailsForAReason
PROPERTIES
    Promise
    Converges
