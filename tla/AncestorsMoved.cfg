SPECIFICATION Spec
CONSTANTS
    N = 3
    Requires <- Chain
    HasTests = {1}
    Carries = {}
    NoBranch = NoBranch
    MaxUpstream = 1
    MaxWork = 1
    MaxFaults = 1
INVARIANTS
    AncestorsMoved
