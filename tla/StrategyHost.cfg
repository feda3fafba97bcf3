SPECIFICATION FairSpec
CONSTANTS
    Lot = 2
    Batch = 1
    MaxBars = 2
    MaxOrders = 2
    MaxUpsets = 1
    MaxFailures = 1
INVARIANTS TypeOK FillsReachTheirStrategy OtherIdBuysOnce NoPyramiding
PROPERTIES ConfigFollowed
CHECK_DEADLOCK FALSE
