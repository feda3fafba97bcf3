SPECIFICATION Spec
CONSTANTS
    Strategies = {1, 2}
    Symbols = {"x"}
    Intents <- BuyIntents
    Prices = {1}
    SymbolCap = 4
    GrossCap = 4
    Batch = 1
    MaxIntents = 1
    MaxTicks = 1
    MaxTrips = 0
    MaxFailures = 1
INVARIANT PositionsMatchFills
CHECK_DEADLOCK FALSE
