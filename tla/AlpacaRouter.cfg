SPECIFICATION FairSpec
CONSTANTS
    Batch = 2
    MaxIntents = 2
    MaxRestarts = 2
    MaxFailures = 2
INVARIANTS TypeOK OrdersAccounted
PROPERTIES FillsArrive
CHECK_DEADLOCK FALSE
