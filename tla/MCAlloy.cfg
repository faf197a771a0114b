SPECIFICATION FairSpec
CONSTANTS
    Versions = {1, 2, 3}
    good = good
    old = old
    bad = bad
    dropIn = dropIn
    Configs = {good, old, bad}
    Overrides = {dropIn}
    None = None
    FirstValidating = 2
    Mentions <- Mentioned
    Accepts <- Accepted
    Survives <- Surviving
    Wishes <- MCWishes
    MaxMoves = 3
    MaxFaults = 1
INVARIANTS
    TypeOK
    NothingRejectedRuns
PROPERTIES
    ServesWhatWasAsked
    ChangesAreConfirmed
    ConvergedRestartsNothing
    RerunsSucceed
