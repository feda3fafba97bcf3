SPECIFICATION Spec
CONSTANTS
    Strategies = {1, 2}
    Symbols = {"x"}
    Intents <- BuyIntents
    Prices = {1}
    SymbolCap = 3
    GrossCap = 3
    Batch = 1
    MaxIntents = 2
    MaxTicks = 1
    MaxTrips = 0
    MaxFailures = 0
PROPERTY CapsAlwaysHold
CHECK_DEADLOCK FALSE
