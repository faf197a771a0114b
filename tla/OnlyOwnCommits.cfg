SPECIFICATION Spec
CONSTANTS
    Root = Root
    None = None
    Refused = Refused
    Main = Main
    Detached = Detached
    OnMain = {1, 2, 3}
    Ids = {"a", "b", "c"}
    Files <- MCFiles
    MaxMoves = 2
    MaxKills = 0
INVARIANT OnlyOwnCommits
