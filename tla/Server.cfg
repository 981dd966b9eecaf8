CONSTANTS
    r1 = r1
    r2 = r2
    dflt = dflt
    acme = acme
    dotted = dotted
    x = x
    acme_x = acme_x
    dotted_x = dotted_x
    d1 = d1
    d2 = d2
    Req = {r1, r2}
    Tenant = {dflt, acme, dotted}
    DefaultTenant = dflt
    NoTenant = NoTenant
    Id = {x, acme_x, dotted_x}
    ValidId = {x, acme_x}
    Join <- Joined
    Ask <- Asked
    Batching = {r1}
    BatchAsk <- AcmeAsked
    Target = {d1, d2}
    MaxBatchSize = 2
SPECIFICATION Spec
INVARIANTS
    TypeOK
    Isolated
    Accounted
PROPERTIES
    TasksStop
    Exits
