SPECIFICATION Spec
CONSTANTS
    Original <- WaveIds
    Generated <- WaveKids
    ParentOf <- WaveParent
    DependsOn <- WaveDeps
    Mode <- WaveMode
    DeclaredSends <- WaveSends
    Routes <- WaveRoutes
    Scope <- WaveScope
    Priority <- WavePriority
    SpecOrder <- WaveOrder
    MaxChildren = 2
    Scheduler = "wave"
    MaxConcurrent = 2
    MaxAttempts = 1
    MaxResumes = 1
PROPERTIES
    WaveBarrier
