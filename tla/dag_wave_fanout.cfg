SPECIFICATION Spec
CONSTANTS
    Original <- BarrierIds
    Generated <- BarrierKids
    ParentOf <- BarrierParent
    DependsOn <- BarrierDeps
    Mode <- BarrierMode
    DeclaredSends <- BarrierSends
    Routes <- BarrierRoutes
    Scope <- BarrierScope
    Priority <- BarrierPriority
    SpecOrder <- BarrierOrder
    MaxChildren = 2
    Scheduler = "wave"
    MaxConcurrent = 2
    MaxAttempts = 1
    MaxResumes = 0
PROPERTIES
    WaveBarrier
