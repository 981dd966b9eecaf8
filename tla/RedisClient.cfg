SPECIFICATION Spec
CONSTANTS
    t1 = t1
    Sub = Sub
    NoTask = NoTask
    Task <- MCTask
    Caller <- MCCaller
    FailureThreshold = 2
    SuccessThreshold = 2
INVARIANTS
    TypeOK
    Settled
PROPERTIES
    OpenIsTested
    HeardStops
