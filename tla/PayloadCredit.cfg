SPECIFICATION Spec
CONSTANTS
    src = src
    out = out
    store = store
    p1 = p1
    q1 = q1
    q2 = q2
    Source = src
    Branches = {out, store}
    Storage = {store}
    Producers = {p1, q1, q2}
    AccountOf <- MCAccountOf
    Plan <- MCPlan
    SharedPlan <- MCSharedPlan
    Growth <- MCGrowth
    Sizes <- MCSizes
    Demands <- MCDemands
    MaxValue = 4
INVARIANTS
    TypeOK
    CreditsAccounted
    NoStrandedWaiter
    GrantReachesProducer
    AdmissionRepresentable
    CancelComplete
PROPERTY GrantsRespectBound
SYMMETRY ProducerSymmetry
