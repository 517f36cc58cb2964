SPECIFICATION Spec
CONSTANTS
    Original <- MixedIds
    Generated <- MixedKids
    ParentOf <- MixedParent
    DependsOn <- MixedDeps
    Mode <- MixedMode
    DeclaredSends <- MixedSends
    Routes <- MixedRoutes
    Scope <- MixedScope
    Priority <- MixedPriority
    SpecOrder <- MixedOrder
    MaxChildren = 2
    Scheduler = "ready"
    MaxConcurrent = 2
    MaxAttempts = 2
    MaxResumes = 1
INVARIANTS
    LeaseSafety
    ConcurrencyBound
    StartsAfterDependencies
    UnselectedNeverRuns
    JoinConsistent
    NeverBlocked
    EmittedCheckpointsLoad
PROPERTIES
    RecordedWorkKept
    NoOvertaking
    ImplementsContract
