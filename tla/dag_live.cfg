SPECIFICATION EngineSpec
CONSTANTS
    Original <- FanIds
    Generated <- FanKids
    ParentOf <- FanParent
    DependsOn <- FanDeps
    Mode <- FanMode
    DeclaredSends <- FanSends
    Routes <- FanRoutes
    Scope <- FanScope
    Priority <- FanPriority
    SpecOrder <- FanOrder
    MaxChildren = 2
    Scheduler = "ready"
    MaxConcurrent = 2
    MaxAttempts = 2
    MaxResumes = 1
PROPERTIES
    AbortStops
    RunCompletes
