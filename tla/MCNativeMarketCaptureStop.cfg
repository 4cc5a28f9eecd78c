SPECIFICATION Spec
CONSTANTS
    trades = trades
    depth = depth
    first = first
    second = second
    Source = {trades, depth}
    DepthSource = {depth}
    Foreign = foreign
    Sink = {first, second}
    SinkOf <- MCSinkOf
    RingCapacity = 2
    MaximumDepthLevels = 2
    FrameLevels = {1}
    RowLimit = 9
    MaxCommits = 2
INVARIANT NeverSilentlyDropped
CHECK_DEADLOCK FALSE
