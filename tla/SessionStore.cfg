SPECIFICATION Spec
CONSTANTS
    w1 = w1
    s1 = s1
    Ws <- MCWs
    Sse <- MCSse
    SessionTtl = 2
    Shards = 2
INVARIANTS
    TypeOK
    Located
    StuckByExpiry
PROPERTIES
    GhostsExpire
