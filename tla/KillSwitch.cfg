SPECIFICATION FairSpec
CONSTANTS
    MaxAlerts = 3
    MaxConcurrent = 2
    Batch = 2
    MaxCrashes = 1
    MaxApiFaults = 1
    MaxOmsFaults = 1
INVARIANTS TypeOK TripHolds DashboardAgrees
PROPERTIES  LastTripStands
CHECK_DEADLOCK FALSE
