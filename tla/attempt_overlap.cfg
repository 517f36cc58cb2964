\* One worker per attempt is enough to show the overlap.
CONSTANTS
    Node = {n1, n2}
    Handle = {h1}
    MaxAttempts = 2
    Timed = {n1}
    None = None
SPECIFICATION Spec
CHECK_DEADLOCK FALSE
INVARIANT OneWriterPerScope
