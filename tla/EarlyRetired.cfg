SPECIFICATION Spec
CONSTANT MaxOutputs = 2
INVARIANT RetiredIsReleased
CHECK_DEADLOCK FALSE
