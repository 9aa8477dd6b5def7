CONSTANTS
    Clients = {p, q}
    Slots = {s1}
    MaxInstances = 1
    EditBound = 1
    RestartBound = 1
    StartBound = 2
SPECIFICATION Spec
SYMMETRY Alike
INVARIANTS
    TypeOK
    OffStaysQuiet
    OnIsScheduled
    OneShotOnce
    RunCountTellsExecutions
CHECK_DEADLOCK FALSE
