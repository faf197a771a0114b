SPECIFICATION Spec
CONSTANTS
    N = 1
    Packages = {}
    MaxVersion = 2
    MaxMoves = 2
    MaxEdits = 0
    MaxFaults = 1
INVARIANT
    PullForEveryBranch
