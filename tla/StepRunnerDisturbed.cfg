CONSTANTS
    Steps = 2
    MaxRetries = 1
    Jobs <- SSHJobs
    Testers = {t1}
SPECIFICATION Spec
INVARIANTS
    RunKeepsItsConnection
CHECK_DEADLOCK FALSE
