SPECIFICATION RSpec
CONSTANTS
    Requests = {r1, r2}
    Admins = {}
    Ips = {i1}
    Accounts = {a1}
    NoAccount = NoAccount
    Keys <- MCKeys
    Writers <- MCWriters
    BaseBlock = 1
    MaxBlock = 2
    ManualBlock = 2
    JailTtl = 2
    ViolationWindow = 2
    ViolationCap = 2
    Regimes <- Up
    Restarts = 1
INVARIANTS
    TypeOK
PROPERTIES
    BlockOutlivesProcess
