SPECIFICATION Spec
CONSTANTS
    N = 2
    Requires <- Pair
    HasTests = {1, 2}
    Carries = {2}
    NoBranch = NoBranch
    MaxUpstream = 1
    MaxWork = 1
    MaxFaults = 1
INVARIANT
    VerifiedWasTested
