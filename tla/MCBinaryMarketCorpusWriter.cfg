CONSTANTS
    Shard = {s1, s2}
    Channel = {depth, lifecycle}
    Lifecycle = lifecycle
    Generation = {1}
    BlockRecords = 2
    InitialSources = 1
    MaximumSources = 2
    MaximumPendingRecords = 2
    MaximumBytes = 47
    SegmentTargetBytes = 5
    RecordBytes = 2
    RangeBytes = 1
    IndexBytes = 1
    SourceBytes = 1
    GapBytes = 1
    ManifestBytes = 1
    TableBytes = 1
    SegmentBytes = 1
    CutHeaderBytes = 1
    ReferenceSize = {1}
SPECIFICATION Spec
SYMMETRY Symmetry
CHECK_DEADLOCK FALSE
INVARIANTS TypeOK WithinMaximumBytes CutIsPrepaid FinalDrainFits LossAlwaysFits
