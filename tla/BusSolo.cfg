SPECIFICATION FairSpec
CONSTANTS
    c1 = c1
    c2 = c2
    Consumers = {c1}
    MaxMsgs = 2
    Batch = 2
    MaxAttempts = 3
    ClaimIdle = 1
    BackoffMax = 3
    Retention = 2
    Poison = {2}
    Faulty = {1, 2}
    Slow = {1}
    Stoppable = {}
    MaxCrashes = 1
    MaxXaddFaults = 1
    MaxFaults = 1
INVARIANT DlqEntriesBounded
PROPERTIES BackoffHonoured EverySettled
