SPECIFICATION Spec
CONSTANTS
    MaxAlerts = 2
    MaxConcurrent = 1
    Batch = 1
    MaxCrashes = 1
    MaxApiFaults = 0
    MaxOmsFaults = 0
PROPERTY EngagedUntilCleared
CHECK_DEADLOCK FALSE
