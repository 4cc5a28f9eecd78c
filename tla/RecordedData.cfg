SPECIFICATION DataSpec
CONSTANTS
    MarketChannels = {"bbo", "depth"}
    Depth = "depth"
    Rules = {"same"}
    MaxGeneration = 2
    MaxRevision = 1
    MaxRecords = 3
INVARIANTS
    OverlaysNest
    StoredIsSound
    ReplayFaithful
    ShownIsChosen
    DerivedExactly
PROPERTY HandlersKeep
CHECK_DEADLOCK FALSE
