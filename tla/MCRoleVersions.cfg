SPECIFICATION FairSpec
CONSTANTS
    N = 2
    Packages = {1}
    MaxVersion = 2
    MaxMoves = 3
    MaxEdits = 2
    MaxFaults = 2
INVARIANTS
    TypeOK
    OnlyInstallable
    GreenIsComplete
PROPERTIES
    AmendedKept
    EventuallyProposed
