SPECIFICATION Spec
CONSTANTS
    Requests = {r1, r2, r3}
    Admins = {admin}
    Ips = {i1}
    Accounts = {}
    NoAccount = NoAccount
    Keys <- MCKeys
    Writers <- MCWriters
    BaseBlock = 1
    MaxBlock = 2
    ManualBlock = 2
    JailTtl = 1
    ViolationWindow = 2
    ViolationCap = 2
    Regimes <- Flapping
SYMMETRY Interchangeable
INVARIANTS
    TurnsHeld
    DecidesUnblocked
    MirrorIsBacked
PROPERTIES
    OneEscalationPerBlock
