\* Two nodes that share a scope, one with a timeout; two workers per attempt,
\* two attempts per node.
CONSTANTS
    Node = {n1, n2}
    Handle = {h1, h2}
    MaxAttempts = 2
    Timed = {n1}
    None = None
SPECIFICATION FairSpec
CHECK_DEADLOCK FALSE
INVARIANTS
    NoStrayWorker
    CompletedByItsOwnWork
PROPERTIES
    SettlesOnce
    NoAttemptAfterAbort
    TimedNodeSettles
    AbortEndsNodes
