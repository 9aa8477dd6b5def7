CONSTANTS
    ConnBound = 2
    MaxSteps = 2
    StepBound = 2
    RequestBound = 2
SPECIFICATION Spec
INVARIANTS
    TypeOK
    ConsentUnlessAstray
    RecordTellsFate
    CountedOnce
    StopFindsTheAgent
    LoopClosesTheRow
PROPERTIES
    StopHolds
CHECK_DEADLOCK FALSE
