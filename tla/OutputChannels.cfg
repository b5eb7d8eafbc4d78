SPECIFICATION FairSpec
CONSTANTS
    a = a
    b = b
    t1 = t1
    p1 = p1
    Channels = {a, b}
    Txns = {t1}
    Producers = {p1}
    Capacity <- MCCapacity
    Shapes <- MCShapes
    Poppers = {a}
INVARIANTS
    CapacityRespected
    ReservationsAccounted
    TerminalLast
    DeferredClose
    ConsumerNotForgotten
    ProducerNotForgotten
PROPERTIES
    TerminalDelivered
    BlockedPushRetries
