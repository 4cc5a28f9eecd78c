SPECIFICATION FairSpec
CONSTANTS
    trades = trades
    depth = depth
    first = first
    second = second
    Source = {trades, depth}
    DepthSource = {depth}
    Foreign = foreign
    Sink = {first, second}
    SinkOf <- MCSinkOf
    RingCapacity = 2
    MaximumDepthLevels = 2
    FrameLevels = {2, 5}
    RowLimit = 9
    MaxCommits = 2
PROPERTY FinalizeReturns
CHECK_DEADLOCK FALSE
