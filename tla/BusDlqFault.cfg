SPECIFICATION Spec
CONSTANTS
    c1 = c1
    c2 = c2
    Consumers = {c1}
    MaxMsgs = 2
    Batch = 2
    MaxAttempts = 2
    ClaimIdle = 1
    BackoffMax = 2
    Retention = 2
    Poison = {}
    Faulty = {1}
    Slow = {}
    Stoppable = {}
    MaxCrashes = 0
    MaxXaddFaults = 1
    MaxFaults = 0
INVARIANT NoSilentLoss
