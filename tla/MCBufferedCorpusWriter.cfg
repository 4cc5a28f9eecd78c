SPECIFICATION FairSpec
CONSTANTS
    Payload = {p1}
    Reference = {r1}
    NoReference = NoReference
    Capacity = 2
    SequenceLimit = 3
INVARIANTS
    TypeOK
    AppliedInOrder
    FinishOkMeansDurable
    DrainOkMeansApplied
PROPERTIES
    ErrorEndsWriting
    ImplementsCaptureLog
    FinishReturns
    AcceptedIsApplied
CHECK_DEADLOCK FALSE
