CONSTANTS
    c1 = c1
    c2 = c2
    Changes = {c1, c2}
    Integrations = {1, 2}
    Origins <- MCOrigins
    Filtered = {1}
    Day = 0
    TimeBound = 2
    CrashBound = 1
    OddBound = 1
SPECIFICATION Spec
INVARIANTS
    TypeOK
    BehindTheMark
    StoredIsAnalysed
PROPERTIES
    ComesInUnlessBlocked
CHECK_DEADLOCK FALSE
