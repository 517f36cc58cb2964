\* Three calls, up to four agents, two slots, room for one settled record.
CONSTANTS
    MaxAgents = 4
    MaxConcurrent = 2
    MaxTerminal = 1
    Call <- MCCall
    Plans <- MCPlans
SPECIFICATION FairCalls
CHECK_DEADLOCK FALSE
INVARIANTS
    GateExact
    NoLostWakeup
    RecordsKept
    AbortReachesRecorded
    CancelReachesAttempt
PROPERTIES
    SettledForGood
    CancelReachesTree
    CallsReturn
