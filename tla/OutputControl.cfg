SPECIFICATION FairSpec
CONSTANT MaxOutputs = 2
INVARIANTS
    GroupsCounted
    ListedIsOwned
PROPERTIES
    NeverRevived
    SessionAnswers
CHECK_DEADLOCK FALSE
