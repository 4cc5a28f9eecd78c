SPECIFICATION Spec
CONSTANTS
    trades = trades
    depth = depth
    first = first
    second = second
    Source = {trades, depth}
    DepthSource = {depth}
    Foreign = foreign
    Sink = {first, second}
    SinkOf <- MCSinkOf
    RingCapacity = 2
    MaximumDepthLevels = 2
    FrameLevels = {1, 2}
    RowLimit = 9
    MaxCommits = 3
INVARIANTS
    TypeOK
    RowsIntact
    RecordedIsPrefix
    ArenaFullOnlyWhenBusy
    EveryCommitAccounted
    ExactMeansRecorded
CHECK_DEADLOCK FALSE
