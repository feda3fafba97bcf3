SPECIFICATION FairSpec
CONSTANTS
    Strategies = {1, 2}
    Symbols = {"x", "y"}
    Intents <- MixedIntents
    Prices = {1}
    SymbolCap = 2
    GrossCap = 2
    Batch = 2
    MaxIntents = 2
    MaxTicks = 2
    MaxTrips = 1
    MaxFailures = 1
INVARIANTS TypeOK NoIntentLost TripStopsFills PositionsExact
PROPERTIES CapsHoldOnSettledSnapshot FlowSettles
CHECK_DEADLOCK FALSE
