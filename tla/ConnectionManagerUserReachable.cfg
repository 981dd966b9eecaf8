CONSTANTS
    c1 = c1
    c2 = c2
    u1 = u1
    t1 = t1
    news = news
    alerts = alerts
    Conn = {c1, c2}
    User = {u1}
    Tenant = {t1}
    Channel = {news}
    UserOf <- OneUser
    TenantOf <- OneTenant
    Cleaner = Cleaner
    NoConn = NoConn
    NoChannel = NoChannel
    MaxConnections = 2
    MaxConnectionsPerUser = 2
    MaxSubscriptions = 1
SPECIFICATION Spec
INVARIANT UserReachable
