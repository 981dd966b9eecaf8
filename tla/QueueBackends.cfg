SPECIFICATION Spec
CONSTANTS
    m1 = m1
    m2 = m2
    m3 = m3
    d1 = d1
    d2 = d2
    Msg = {m1, m2, m3}
    Drain = {d1, d2}
    MaxQueue = 1
    NoMsg = NoMsg
SYMMETRY Interchangeable
INVARIANTS
    TypeOK
    TwiceOnlyOverlapping
    LossExplained
    SizeBound
CHECK_DEADLOCK FALSE
