SPECIFICATION HSpec
CONSTANTS
    Requests = {r1, r2}
    Admins = {}
    Ips = {i1}
    Accounts = {}
    NoAccount = NoAccount
    Keys <- MCKeys
    Writers <- MCWriters
    BaseBlock = 1
    MaxBlock = 4
    ManualBlock = 2
    JailTtl = 2
    ViolationWindow = 6
    ViolationCap = 3
    Regimes <- Steady
PROPERTIES
    JailsBeforeBlocks
    RepeatBreachDoubles
    EveryRequestEnds
    BlocksLapse
    CountsLapse
