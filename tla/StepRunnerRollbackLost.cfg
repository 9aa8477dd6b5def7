CONSTANTS
    Steps = 2
    MaxRetries = 1
    Jobs <- SSHJobs
    Testers = {}
SPECIFICATION Spec
INVARIANTS
    RollbackReachesHost
CHECK_DEADLOCK FALSE
