CONSTANTS
    d1 = d1
    d2 = d2
    d3 = d3
    ann = ann
    bob = bob
    Note = {n1}
    User = {ann, bob}
    Device = {d1, d2, d3}
    UserOf <- ThreeDevices
    Backends = {"memory", "redis", "postgres"}
    Nobody = Nobody
    NoNote = NoNote
    MaxAcks = 2
SPECIFICATION Spec
INVARIANTS
    TypeOK
    OnlyAddressee
    AcceptedOnce
    StaysPending
CHECK_DEADLOCK FALSE
