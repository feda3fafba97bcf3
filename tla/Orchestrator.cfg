SPECIFICATION Spec
CONSTANTS
    Symbols = {"x", "y"}
    Traded = {"x"}
    Agents = {"gbm", "news", "macro"}
    Signals <- MixedSignals
    Cap = 100
    MinDelta = 20
    Threshold = 10
    MaxAge = 1
    Batch = 2
    MaxSignals = 2
    MaxClock = 2
    MaxFailures = 1
INVARIANTS TypeOK DriftBounded RecordedWasOrdered AcknowledgedWasConsidered Converged
CHECK_DEADLOCK FALSE
