SPECIFICATION Spec
CONSTANTS
    a = a
    b = b
    t1 = t1
    p1 = p1
    Channels = {a, b}
    Txns = {t1}
    Producers = {p1}
    Capacity <- MCSmallCapacity
    Shapes <- MCOneShape
    Poppers = {a}
INVARIANT ClosedMeansDrained
