SPECIFICATION Spec
CONSTANTS
    c1 = c1
    c2 = c2
    Consumers = {c1, c2}
    MaxMsgs = 2
    Batch = 2
    MaxAttempts = 2
    ClaimIdle = 1
    BackoffMax = 2
    Retention = 1
    Poison = {2}
    Faulty = {1}
    Slow = {1}
    Stoppable = {c1, c2}
    MaxCrashes = 1
    MaxXaddFaults = 0
    MaxFaults = 0
SYMMETRY Interchangeable
INVARIANTS TypeOK NoSilentLoss DlqAfterAllAttempts StopLeavesNothingInHand
PROPERTY ImplementsContract
CHECK_DEADLOCK FALSE
