SPECIFICATION FairSpec
CONSTANTS
    src = src
    out = out
    store = store
    p1 = p1
    q1 = q1
    q2 = q2
    Source = src
    Branches = {}
    Storage = {}
    Producers = {p1, q1, q2}
    AccountOf <- MCLiveAccountOf
    Plan <- MCLivePlan
    SharedPlan <- MCSharedPlan
    Growth <- MCGrowth
    Sizes <- MCSizes
    Demands <- MCEqualDemands
    MaxValue = 5
PROPERTY ArmedIsServed
