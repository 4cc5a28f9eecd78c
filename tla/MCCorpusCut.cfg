SPECIFICATION FairSpec
CONSTANTS
    ShardCount = 2
    BlockLimit = 3
    SegmentLimit = 3
    GenerationLimit = 3
INVARIANTS TypeOK CutIsWhole ShownSurvives ManifestIsWitness CursorNeverBreaks
PROPERTIES ImplementsDurableLog FinalCutIsAdopted
CHECK_DEADLOCK FALSE
