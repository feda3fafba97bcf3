SPECIFICATION FairSpec
CONSTANTS
    Jobs = {"j"}
    MaxCreates = 2
    MaxCallbacks = 1
    MaxFailures = 1
INVARIANTS TypeOK EffectOnce VerdictMatchesEffect MemoryMatchesFile
PROPERTIES JobsEnd
CHECK_DEADLOCK FALSE
