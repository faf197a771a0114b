SPECIFICATION FairSpec
CONSTANTS
    N = 2
    Pulls = {2}
    OffBoard = OffBoard
    MaxMoves = 2
    MaxEdits = 1
    MaxFaults = 2
INVARIANTS
    TypeOK
    OneRowPerItem
    YoursKept
    BoardIsCurrent
    DecisionIsMirrored
PROPERTY
    EventuallyTracked
