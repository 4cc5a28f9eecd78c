SPECIFICATION DataSpec
CONSTANTS
    MarketChannels = {"bbo", "depth"}
    Depth = "depth"
    Rules = {"same"}
    MaxGeneration = 2
    MaxRevision = 1
    MaxRecords = 3
INVARIANT BookOfCursor
CHECK_DEADLOCK FALSE
