SPECIFICATION Spec
CONSTANTS
    N = 1
    Pulls = {}
    OffBoard = OffBoard
    MaxMoves = 1
    MaxEdits = 1
    MaxFaults = 1
PROPERTY
    NeverOverwritten
