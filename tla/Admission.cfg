CONSTANTS
    c1 = c1
    u1 = u1
    t1 = t1
    news = news
    ip1 = ip1
    k1 = k1
    Conn = {c1}
    User = {u1}
    Tenant = {t1}
    Channel = {news}
    UserOf <- OneUser
    TenantOf <- OneTenant
    Cleaner = Cleaner
    NoConn = NoConn
    NoChannel = NoChannel
    MaxConnections = 2
    MaxConnectionsPerUser = 1
    MaxSubscriptions = 0
    Ip = {ip1}
    ApiKey = {k1}
    IpOf <- OneAddress
    WsConnectionsPerMinute = 1
    HttpBurstSize = 2
    HttpRequestsPerSecond = 1
    Ticks = 2
    MaxBack = 1
SPECIFICATION AdmissionSpec
INVARIANTS
    Conforms
PROPERTIES
    Refills
    Forgotten
    StaleRemoved
