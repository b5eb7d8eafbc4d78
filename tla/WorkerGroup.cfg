SPECIFICATION FairSpec
CONSTANTS
    N = 2
    Waits = {"waitInput", "waitEither", "waitDeadline"}
INVARIANTS
    PrimaryIsNotCancellation
    TeardownAfterExit
    StopHarvestsFailures
    PrimaryReported
PROPERTY CallsAndFailuresEnd
