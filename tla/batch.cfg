SPECIFICATION FairSpec
CONSTANTS
    Manifests <- MCManifests
    Overlap <- MCOverlap
    maxConcurrent = 2
    MaxCalls = 2
INVARIANTS
    PoolHolds
PROPERTIES
    CallAccounts
    CallsReturn
CHECK_DEADLOCK FALSE
