\* One tool call at a time, a limit of three turns, two reports.
CONSTANTS
    Tool = {t1, t2}
    Report = t2
    ReportBound = 2
    TextEntry = {"none"}
    ParallelTools = FALSE
    MaxTurns = 3
    TurnBound = 4
    None = None
SPECIFICATION FairSession
CHECK_DEADLOCK FALSE
INVARIANTS
    OutcomeTruthful
    ContractKept
PROPERTIES
    LongToolSpared
    SilentRunEnds
