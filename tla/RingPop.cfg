SPECIFICATION Spec
CONSTANTS
    k = k
    d = d
    p1 = p1
    p2 = p2
    c1 = c1
    c2 = c2
    NoFrame = NoFrame
    Frames = {k, d}
    KeyFrames = {k}
    Capacity = 2
    Producers = {p1}
    Consumers = {c1}
    Setups <- MCRing
INVARIANT ClosedAndEmpty
