SPECIFICATION Spec
CONSTANTS
    Keys <- MCKeys
    Writers = {c1, c2}
    BaseBlock = 2
    MaxBlock = 2
    ManualBlock = 2
    JailTtl = 1
    ViolationWindow = 1
    ViolationCap = 2
    Regimes <- OnlyUp
    session = session
    refresh = refresh
    b1 = b1
    b2 = b2
    Tokens <- MCTokens
    AccessTokens <- MCAccessTokens
    AccessSeconds = 2
    RefreshSeconds = 2
    Clients = {c1, c2}
    NoToken = none
    Bits <- MCBits
    Hash <- MCHash
    Horizon = 6
PROPERTY RevokedStaysRefused
