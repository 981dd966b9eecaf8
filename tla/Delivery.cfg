CONSTANTS
    c1 = c1
    c2 = c2
    bob = bob
    acme_bob = acme_bob
    acme_acme_bob = acme_acme_bob
    dflt = dflt
    acme = acme
    m1 = m1
    m2 = m2
    news = news
    Conn = {c1, c2}
    Sse = {c2}
    Msg = {m1, m2}
    User = {bob, acme_bob}
    Tenant = {dflt, acme}
    Channel = {}
    UserOf <- Aliases
    TenantOf <- TwoTenants
    Target <- Lists
    Scope <- ListScope
    QueueKey = {bob, acme_bob, acme_acme_bob}
    Join <- Joined
    DefaultTenant = dflt
    NoTenant = NoTenant
    Capacity = 1
    Frame = Frame
    MaxFrames <- NoFrames
    MaxQueue = 2
SPECIFICATION Spec
INVARIANTS
    TypeOK
    NoDuplicate
    NoStranger
    NoSilentLoss
    ReplayInOrder
PROPERTY
    QueuePromise
CHECK_DEADLOCK FALSE
