SPECIFICATION RFairSpec
CONSTANTS
    Requests = {r1}
    Admins = {}
    Ips = {i1}
    Accounts = {}
    NoAccount = NoAccount
    Keys <- MCKeys
    Writers <- MCWriters
    BaseBlock = 1
    MaxBlock = 2
    ManualBlock = 2
    JailTtl = 2
    ViolationWindow = 3
    ViolationCap = 2
    Regimes <- Up
    Restarts = 1
PROPERTIES
    CountsLapse
