SPECIFICATION CaptureSpec
CONSTANT MaxVersion = 4
INVARIANTS
    AcknowledgedSurvives
    RowsAccounted
    VerdictsTrue
    CallsMatched
    NoneLeftRunning
PROPERTY NeverTakenBack
CHECK_DEADLOCK FALSE
