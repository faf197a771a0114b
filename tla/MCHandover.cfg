SPECIFICATION FairSpec
CONSTANTS
    N = 2
    Requires <- Pair
    HasTests = {1, 2}
    Carries = {2}
    NoBranch = NoBranch
    MaxUpstream = 1
    MaxWork = 2
    MaxFaults = 1
INVARIANTS
    TypeOK
    NoLostWork
    BehindSaysSo
    StackConsistent
    LandedIsUpstream
PROPERTIES
    LastGoodKept
    Promise
    EventuallyCurrent
