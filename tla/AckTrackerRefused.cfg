CONSTANTS
    d1 = d1
    d2 = d2
    d3 = d3
    ann = ann
    bob = bob
    Note = {n1}
    User = {ann, bob}
    Device = {d1, d3}
    UserOf <- ThreeDevices
    Backends = {"memory"}
    Nobody = Nobody
    NoNote = NoNote
    MaxAcks = 1
SPECIFICATION Spec
INVARIANT ValidAckConfirmed
CHECK_DEADLOCK FALSE
