SPECIFICATION Spec
CONSTANTS
    Requests = {r1, r2}
    Kinds <- MCKinds
    MaxEntries = 1
    Engines = {"coraza", "nginx", "passthrough"}
INVARIANTS
    TypeOK
    OneVerdict
    ThreatsAreLatest
    BodyArrivesWhole
    UpstreamDecidesLogins
    CookiesLeaveOnce
    TransactionsClosed
PROPERTIES
    EveryRequestReplied
CHECK_DEADLOCK FALSE
