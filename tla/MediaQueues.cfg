SPECIFICATION FairSpec
CONSTANTS
    k = k
    d = d
    p1 = p1
    p2 = p2
    c1 = c1
    c2 = c2
    NoFrame = NoFrame
    Frames = {k, d}
    KeyFrames = {k}
    Capacity = 3
    Producers = {p1}
    Consumers = {c1}
    Setups <- MCSetups
INVARIANTS
    NobodyForgotten
PROPERTIES
    IsBoundedFifo
    BlockedPushWakes
