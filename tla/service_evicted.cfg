SPECIFICATION Spec
CONSTANTS
    MaxAgents = 4
    MaxConcurrent = 2
    MaxTerminal = 1
CHECK_DEADLOCK FALSE
INVARIANTS
    AbortReachesDescendants
