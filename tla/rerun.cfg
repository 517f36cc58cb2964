SPECIFICATION FairSpec
CONSTANTS
    Graphs <- MCGraphs
    Workflows <- MCWorkflows
    Followed <- MCFollowed
    KeyLists <- MCKeyLists
    Requests <- MCRequests
    MaxReruns = 2
INVARIANTS
    ValidWorkflowsAdmitted
    AdmittedGraphsFitScheduler
    ReuseIsCurrent
    LeftOutStaysOut
    PlainRerunsLoad
PROPERTIES
    RerunSettles
CHECK_DEADLOCK FALSE
