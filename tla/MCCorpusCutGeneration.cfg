SPECIFICATION FairSpec
CONSTANTS
    ShardCount = 1
    BlockLimit = 2
    SegmentLimit = 3
    GenerationLimit = 2
PROPERTY OneCutPerGeneration
CHECK_DEADLOCK FALSE
