\* Two tool calls of one message overlap.
CONSTANTS
    Tool = {t1, t2}
    ParallelTools = TRUE
    MaxTurns = 3
    TurnBound = 4
    None = None
SPECIFICATION Spec
CHECK_DEADLOCK FALSE
PROPERTY LongToolSpared
