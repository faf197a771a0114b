SPECIFICATION FairSpec
CONSTANTS
    Root = Root
    None = None
    Refused = Refused
    Main = Main
    Detached = Detached
    OnMain = {1, 2, 3}
    Ids = {"a", "b", "c"}
    Files <- MCFiles
    MaxMoves = 2
    MaxKills = 1
INVARIANTS
    TypeOK
    LoadIsRight
    ChildrenAreBelow
    OwnInOrder
    QuietMeansAll
PROPERTIES
    ReturnsHome
    NeverOverwrites
    AdviceWorks
