CONSTANTS
    a1 = a1
    a2 = a2
    a3 = a3
    x = x
    y = y
    Alerts = {a1, a2, a3}
    Identities = {x, y}
    Storms = {z}
    NoKey = NoKey
    Identity <- MCIdentity
    ClusterWindow = 0
    InactiveWindow = 0
    Retention = 0
    Arriving = {"firing"}
    TimeBound = 1
    LateBound = 0
    HandBound = 7
SPECIFICATION Spec
SYMMETRY Alike
INVARIANTS
    TypeOK
    StatsTellMembers
    OneStaysOpen
PROPERTIES
    TimesOutWhenQuiet
    KeptForItsTime
    HomeIsKept
CHECK_DEADLOCK FALSE
