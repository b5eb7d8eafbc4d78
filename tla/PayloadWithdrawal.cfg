SPECIFICATION Spec
CONSTANTS
    N = 2
    Waits = {"waitInput"}
INVARIANT WithdrawalIsCoordinated
