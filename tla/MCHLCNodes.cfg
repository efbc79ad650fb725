SPECIFICATION Spec
CONSTANTS
    Node <- MCNode
    MaxDrift = 1
    MaxCounter = 1
    MaxTime = 3
    MaxStamps = 2
    MaxStepBacks = 1
    MaxReboots = 1
INVARIANTS TypeOK CounterBounded
PROPERTIES EveryOperationBoundsDrift StampsIncreaseUntilReset
CHECK_DEADLOCK FALSE
