SPECIFICATION Spec
CONSTANTS
    good = good
    old = old
    bad = bad
    dropIn = dropIn
    Versions = {1, 2, 3}
    Configs = {good, old, bad}
    Overrides = {dropIn}
    None = None
    FirstValidating = 2
    Mentions <- Mentioned
    Accepts <- Accepted
    Survives <- Surviving
    Wishes <- MCWishes
    MaxMoves = 2
    MaxFaults = 0
PROPERTY
    RestartsAreConfirmed
