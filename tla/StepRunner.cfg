CONSTANTS
    Steps = 3
    MaxRetries = 1
    Jobs <- MixedJobs
    Testers = {t1}
SPECIFICATION FairSpec
INVARIANTS
    TypeOK
    HostFollowsThePlan
    NothingAfterFatalFailure
    AnsweredIsNotResent
    ConditionsHold
    VerdictMatchesSteps
    RollsBackItsSuccesses
PROPERTIES
    RunEnds
    RefinesCore
CHECK_DEADLOCK FALSE
