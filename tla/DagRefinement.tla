---------------------------- MODULE DagRefinement ----------------------------
(***************************************************************************)
(* The executor implements the contract of a task-graph run: states and    *)
(* statuses map to themselves, the nodes in flight are the keys of the     *)
(* running map, and what is recorded is what the last emitted checkpoint   *)
(* holds as settled.                                                       *)
(***************************************************************************)
EXTENDS DagCheckpoint

RecordedNodes == {n \in Node : ckpt.status[n] \in Terminal}

Contract == INSTANCE DagContract WITH
    Node <- Node,
    Initial <- Original,
    Requires <- [n \in Node |-> DependsOn[Owner(n)]],
    Scope <- [n \in Node |-> ScopeOf(n)],
    Offspring <- [n \in Node |-> IF n \in Original THEN Siblings(n) ELSE {}],
    Budget <- MaxConcurrent,
    phase <- status,
    busy <- running,
    recorded <- RecordedNodes

\* Every behaviour of the executor is one the contract allows: start after
\* the dependencies, within the budget, beside no overlapping scope, settle
\* once, join after the children, and restart with all that was recorded.
ImplementsContract == Contract!Spec
=============================================================================
