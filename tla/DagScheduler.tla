---------------------------- MODULE DagScheduler ----------------------------
(***************************************************************************)
(* The scheduling loop of executeDAGCore (src/src/dag/executor.ts): which  *)
(* nodes of a task graph run when, what a router skips, how a dispatcher   *)
(* fans out into generated children, how an attempt is retried, what a     *)
(* caller's abort does, and what a resumed run keeps of the last           *)
(* checkpoint.                                                             *)
(*                                                                         *)
(* JavaScript is run to completion: whatever stands between two awaits is  *)
(* one step.  The loop is cut at its iterations (pc says where it stands), *)
(* the callbacks of node promises only run while the loop awaits.  A node  *)
(* is "settled" by the body of its promise and "released" by the finally   *)
(* handler, a later microtask, so other callbacks may come in between.     *)
(***************************************************************************)
EXTENDS Integers, FiniteSets, FiniteSetsExt

CONSTANTS
    Original,       \* ids of inputSpec.nodes
    Generated,      \* ids the dispatch nodes may generate
    ParentOf,       \* the dispatch node of a generated id
    DependsOn,      \* depends_on of each original node
    Mode,           \* its execution mode, see Modes
    DeclaredSends,  \* the children a node of mode "sends" declares
    MaxChildren,    \* dispatch.maxChildren
    Routes,         \* the target sets a router can select, {} if no routes
    Scope,          \* resources of write_scope and resource_scope
    Priority,       \* priority, 0 by default
    SpecOrder,      \* declaration order
    Scheduler,      \* "ready" or "wave"
    MaxConcurrent,  \* maxConcurrent after clamping
    MaxAttempts,    \* retryPolicy.maxAttempts
    MaxResumes      \* bound of the model: resumptions from a checkpoint

Node == Original \cup Generated
Modes == {"spawn", "sends", "dynamic", "result_dispatch"}
Targets(r) == UNION Routes[r]
Siblings(p) == {g \in Generated : ParentOf[g] = p}

\* The graph is one validateDAG admits: known and acyclic dependencies, routers
\* that are plain nodes, and route targets that depend directly on their router.
ASSUME GraphAssumption ==
    /\ IsFiniteSet(Original) /\ IsFiniteSet(Generated)
    /\ Original \cap Generated = {}
    /\ DependsOn \in [Original -> SUBSET Original]
    /\ \E rank \in [Original -> 0..Cardinality(Original)] :
          \A n \in Original : \A d \in DependsOn[n] : rank[d] < rank[n]
    /\ Mode \in [Original -> Modes]
    /\ Routes \in [Original -> SUBSET SUBSET Original]
    /\ \A r \in Original : Routes[r] # {} => Mode[r] = "spawn"
    /\ \A r \in Original : \A t \in Targets(r) : r \in DependsOn[t]

\* Generated children belong to dispatch nodes; declared sends fit the bound.
ASSUME DispatchAssumption ==
    /\ ParentOf \in [Generated -> Original]
    /\ \A g \in Generated : Mode[ParentOf[g]] # "spawn"
    /\ MaxChildren \in Nat
    /\ DeclaredSends \in [Original -> SUBSET Generated]
    /\ \A p \in Original : /\ DeclaredSends[p] \subseteq Siblings(p)
                           /\ Cardinality(DeclaredSends[p]) <= MaxChildren

ASSUME PolicyAssumption ==
    /\ Scheduler \in {"ready", "wave"}
    /\ Priority \in [Original -> Int]
    /\ SpecOrder \in [Original -> Nat]
    /\ MaxConcurrent \in Nat \ {0}
    /\ MaxAttempts \in Nat \ {0}
    /\ MaxResumes \in Nat

VARIABLES
    status,       \* states[id].status, "absent" until the node is in the spec
    skip,         \* keys of skipReasons
    selected,     \* targets of the route a completed router chose
    misrouted,    \* routers failed for a missing or unknown route
    expanded,     \* keys of dispatchExpansions
    children,     \* generatedNodeIds of each expansion
    running,      \* keys of the running map
    leases,       \* owners in the lease table
    work,         \* where the promise of a node in running stands
    attempt,      \* attemptNumber of a node in running
    pc,           \* where the main loop stands
    todo,         \* what is left of sortedReady in this pass
    woken,        \* Promise.race has a winner
    aborted,      \* opts.signal.aborted
    termination,  \* how the loop ended
    ckpt,         \* the snapshot of the last onCheckpoint call
    resumes       \* resumptions so far

graph == <<status, skip, selected, misrouted, expanded, children>>
slots == <<running, leases, work, attempt>>
loop == <<pc, todo, woken, termination>>
vars == <<graph, slots, loop, aborted, ckpt, resumes>>

Terminal == {"completed", "failed", "skipped"}
Status == {"absent", "queued", "running"} \cup Terminal
Settled(n) == status[n] \in Terminal
Present == {n \in Node : status[n] # "absent"}
Queued == {n \in Node : status[n] = "queued"}

-----------------------------------------------------------------------------
(* The expanded graph.  A generated child takes its parent's original      *)
(* dependencies, scopes and priority; the parent also waits for it.        *)

Owner(n) == IF n \in Generated THEN ParentOf[n] ELSE n
Deps(n) == DependsOn[Owner(n)] \cup (IF n \in Original THEN children[n] ELSE {})
ScopeOf(n) == Scope[Owner(n)]
Overlap(m, n) == ScopeOf(m) \cap ScopeOf(n) # {}
CanAcquire(n) == \A h \in leases : ~Overlap(h, n)

\* planWaves: a node enters the wave after all its dependencies.
Wave == LET w[n \in Present] == IF Deps(n) = {} THEN 0
                                ELSE 1 + Max({w[d] : d \in Deps(n)})
        IN  w

\* computeTopology: the longest chain of dependents below a node.
RemainingCriticalPath ==
    LET c[n \in Present] ==
          1 + Max({0} \cup {c[m] : m \in {k \in Present : n \in Deps(k)}})
    IN  c

\* The wave of the nodes in flight, or of the queued ones when there are none.
CurrentWave == Min({Wave[n] : n \in IF running # {} THEN running ELSE Queued})

\* Defect: a dependency that has started counts as settled.
SortedReadyWhenStarted ==
    {n \in Queued \ skip : /\ Scheduler = "wave" => Wave[n] = CurrentWave
                           /\ \A d \in Deps(n) : status[d] # "queued"}

\* Defect: the wave scheduler forgets its barrier.
SortedReadyAnyWave ==
    {n \in Queued \ skip : \A d \in Deps(n) : Settled(d)}

SortedReady ==
    {n \in Queued \ skip : /\ Scheduler = "wave" => Wave[n] = CurrentWave
                           /\ \A d \in Deps(n) : Settled(d)}

\* The order of sortedReady; generated nodes are declared last.
Declared(n) == IF n \in Original THEN SpecOrder[n] ELSE Max(Range(SpecOrder)) + 1
Precedes(m, n) ==
    LET critical(k) == RemainingCriticalPath[k]
        priority(k) == Priority[Owner(k)]
        declaredFirst == Declared(m) < Declared(n)
    IN  IF Scheduler = "wave" THEN declaredFirst
        ELSE \/ priority(m) > priority(n)
             \/ /\ priority(m) = priority(n)
                /\ \/ critical(m) > critical(n)
                   \/ critical(m) = critical(n) /\ declaredFirst

IsDispatch(n) == n \in Original \ expanded /\ Mode[n] # "spawn"

-----------------------------------------------------------------------------
(* Checkpoints: emitCheckpoint hands out a copy of the current snapshot.   *)

SnapshotRecord(emitted) ==
    [emitted |-> emitted, status |-> status, skip |-> skip,
     selected |-> selected, misrouted |-> misrouted,
     expanded |-> expanded, children |-> children]
EmitCheckpoint == ckpt' = SnapshotRecord(TRUE)'

Init ==
    /\ status = [n \in Node |-> IF n \in Original THEN "queued" ELSE "absent"]
    /\ skip = {} /\ misrouted = {} /\ expanded = {}
    /\ selected = [n \in Original |-> {}]
    /\ children = [n \in Original |-> {}]
    /\ running = {} /\ leases = {}
    /\ work = [n \in Node |-> "idle"]
    /\ attempt = [n \in Node |-> 0]
    /\ pc = "skips" /\ todo = {} /\ woken = FALSE /\ termination = "none"
    /\ aborted = FALSE /\ resumes = 0
    /\ ckpt = SnapshotRecord(FALSE)

-----------------------------------------------------------------------------
(* The main loop: settle skips, settle expanded parents, then either stop, *)
(* or launch what is ready and await the first node to be released.        *)

\* One iteration of settleSkippedNodes: a queued node with a skip reason is
\* skipped at once, whatever its other dependencies do.
SettleSkippedNode ==
    /\ pc = "skips"
    /\ \E n \in skip \cap Queued : status' = [status EXCEPT ![n] = "skipped"]
    /\ UNCHANGED <<skip, selected, misrouted, expanded, children>>
    /\ EmitCheckpoint
    /\ UNCHANGED <<slots, loop, aborted, resumes>>

SkipsSettled ==
    /\ pc = "skips" /\ skip \cap Queued = {}
    /\ pc' = "parents"
    /\ UNCHANGED <<graph, slots, todo, woken, termination, aborted, ckpt, resumes>>

\* Defect: a join waits for one child only.
JoinableAfterOne ==
    {p \in expanded : ~Settled(p) /\ \E c \in children[p] : Settled(c)}

\* Defect: a join waits for children that all complete.
JoinableIfCompleted ==
    {p \in expanded : ~Settled(p) /\ \A c \in children[p] : status[c] = "completed"}

\* Expansions whose parent waits for nothing any more.
Joinable == {p \in expanded : ~Settled(p) /\ \A c \in children[p] : Settled(c)}

\* Defect: a join completes although a child failed.
SettleExpandedParentLeniently ==
    /\ pc = "parents"
    /\ \E p \in Joinable : status' = [status EXCEPT ![p] = "completed"]
    /\ UNCHANGED <<skip, selected, misrouted, expanded, children>>
    /\ EmitCheckpoint
    /\ UNCHANGED <<slots, loop, aborted, resumes>>

\* One iteration of settleExpandedParents: the parent is the join of its
\* children and fails with the first that did not complete.
SettleExpandedParent ==
    /\ pc = "parents"
    /\ \E p \in Joinable :
          status' = [status EXCEPT ![p] =
                       IF \A c \in children[p] : status[c] = "completed"
                       THEN "completed" ELSE "failed"]
    /\ UNCHANGED <<skip, selected, misrouted, expanded, children>>
    /\ EmitCheckpoint
    /\ UNCHANGED <<slots, loop, aborted, resumes>>

\* The rest of an iteration up to its launches: an abort drains, a graph with
\* only terminal nodes ends the run, else sortedReady is taken.
BeginPass ==
    /\ pc = "parents" /\ Joinable = {}
    /\ IF aborted
       THEN pc' = "drain" /\ termination' = "aborted" /\ UNCHANGED todo
       ELSE IF \A n \in Present : Settled(n)
       THEN pc' = "done" /\ termination' = "all_terminal" /\ UNCHANGED todo
       ELSE pc' = "scan" /\ todo' = SortedReady /\ UNCHANGED termination
    /\ UNCHANGED <<graph, slots, woken, aborted, ckpt, resumes>>

\* launch and launchDispatch: take the lease and a slot, start attempt 1.
Launch(n) ==
    /\ CanAcquire(n)
    /\ leases' = leases \cup {n}
    /\ running' = running \cup {n}
    /\ status' = [status EXCEPT ![n] = "running"]
    /\ work' = [work EXCEPT ![n] = "attempt"]
    /\ attempt' = [attempt EXCEPT ![n] = 1]

\* Defect: the budget is compared with <=.
ScanNextOverBudget ==
    /\ pc = "scan" /\ Cardinality(running) <= MaxConcurrent
    /\ \E n \in todo : /\ todo' = todo \ {n}
                       /\ Launch(n) \/ (~CanAcquire(n) /\ UNCHANGED <<status, slots>>)
    /\ UNCHANGED <<skip, selected, misrouted, expanded, children>>
    /\ UNCHANGED <<pc, woken, termination, aborted, ckpt, resumes>>

\* Defect: ready nodes are launched in any order.
ScanNextUnordered ==
    /\ pc = "scan" /\ Cardinality(running) < MaxConcurrent
    /\ \E n \in todo : /\ todo' = todo \ {n}
                       /\ Launch(n) \/ (~CanAcquire(n) /\ UNCHANGED <<status, slots>>)
    /\ UNCHANGED <<skip, selected, misrouted, expanded, children>>
    /\ UNCHANGED <<pc, woken, termination, aborted, ckpt, resumes>>

\* One iteration of the launch loop: the first node left is launched, or
\* passed over when its scopes are leased.
ScanNext ==
    /\ pc = "scan" /\ Cardinality(running) < MaxConcurrent
    /\ \E n \in todo :
          /\ \A m \in todo : ~Precedes(m, n)
          /\ todo' = todo \ {n}
          /\ \/ Launch(n)
             \/ ~CanAcquire(n) /\ UNCHANGED <<status, slots>>
    /\ UNCHANGED <<skip, selected, misrouted, expanded, children>>
    /\ UNCHANGED <<pc, woken, termination, aborted, ckpt, resumes>>

\* The pass is over: await Promise.race over what runs; with nothing in
\* flight nothing was launched either, and the run is blocked.
ScanEnd ==
    /\ pc = "scan"
    /\ todo = {} \/ Cardinality(running) >= MaxConcurrent
    /\ todo' = {}
    /\ IF running # {}
       THEN pc' = "await" /\ UNCHANGED termination
       ELSE /\ pc' = "done"
            /\ termination' = IF aborted THEN "aborted" ELSE "blocked"
    /\ woken' = FALSE
    /\ UNCHANGED <<graph, slots, aborted, ckpt, resumes>>

Wake ==
    /\ pc = "await" /\ woken
    /\ pc' = "skips"
    /\ UNCHANGED <<graph, slots, todo, woken, termination, aborted, ckpt, resumes>>

\* Promise.allSettled over the running nodes of an aborted run.
Drained ==
    /\ pc = "drain" /\ running = {}
    /\ pc' = "done"
    /\ UNCHANGED <<graph, slots, todo, woken, termination, aborted, ckpt, resumes>>

LoopStep == \/ SettleSkippedNode \/ SkipsSettled \/ SettleExpandedParent
            \/ BeginPass \/ ScanNext \/ ScanEnd \/ Wake \/ Drained

-----------------------------------------------------------------------------
(* The promises of running nodes.                                          *)

Yielded == pc \in {"await", "drain", "done"}
Attempting(n) == Yielded /\ n \in running /\ work[n] = "attempt"
SettleWork(n) == work' = [work EXCEPT ![n] = "settled"]

\* A node without routes completes.
Complete(n) ==
    /\ Attempting(n) /\ ~IsDispatch(n)
    /\ n \in Original => Routes[n] = {}
    /\ status' = [status EXCEPT ![n] = "completed"]
    /\ SettleWork(n)
    /\ UNCHANGED <<skip, selected, misrouted, expanded, children, running,
                   leases, attempt, loop, aborted, ckpt, resumes>>

\* applyRoute of a completed router that names a route: the targets the
\* route leaves out get a skip reason.
RouteTo(n, branch) ==
    /\ Attempting(n) /\ n \in Original /\ branch \in Routes[n]
    /\ status' = [status EXCEPT ![n] = "completed"]
    /\ selected' = [selected EXCEPT ![n] = branch]
    /\ skip' = skip \cup {t \in Targets(n) \ branch : ~Settled(t)}
    /\ SettleWork(n)
    /\ UNCHANGED <<misrouted, expanded, children, running, leases, attempt,
                   loop, aborted, ckpt, resumes>>

\* Defect: the failed router is not remembered as misrouted.
MisrouteForgotten(n) ==
    /\ Attempting(n) /\ n \in Original /\ Routes[n] # {}
    /\ status' = [status EXCEPT ![n] = "failed"]
    /\ skip' = skip \cup {t \in Targets(n) : ~Settled(t)}
    /\ SettleWork(n)
    /\ UNCHANGED <<misrouted, selected, expanded, children, running, leases,
                   attempt, loop, aborted, ckpt, resumes>>

\* applyRoute with a missing or unknown route: the router fails and every
\* target gets a skip reason.
Misroute(n) ==
    /\ Attempting(n) /\ n \in Original /\ Routes[n] # {}
    /\ status' = [status EXCEPT ![n] = "failed"]
    /\ misrouted' = misrouted \cup {n}
    /\ skip' = skip \cup {t \in Targets(n) : ~Settled(t)}
    /\ SettleWork(n)
    /\ UNCHANGED <<selected, expanded, children, running, leases, attempt,
                   loop, aborted, ckpt, resumes>>

\* expandDispatch: the children join the graph as queued nodes, the parent
\* stays "running" without a slot once it is released.
Expand(n, kids) ==
    /\ Attempting(n) /\ IsDispatch(n)
    /\ IF Mode[n] = "sends" THEN kids = DeclaredSends[n]
       ELSE kids \subseteq Siblings(n) /\ Cardinality(kids) <= MaxChildren
    /\ status' = [m \in Node |-> IF m \in kids THEN "queued" ELSE status[m]]
    /\ expanded' = expanded \cup {n}
    /\ children' = [children EXCEPT ![n] = kids]
    /\ work' = [work EXCEPT ![n] = "expanded"]
    /\ UNCHANGED <<skip, selected, misrouted, running, leases, attempt>>
    /\ EmitCheckpoint
    /\ UNCHANGED <<loop, aborted, resumes>>

\* The node's last attempt failed.  A plain node is recorded by its promise
\* body and checkpointed on release, a dispatcher is checkpointed here.
FailNode(n) ==
    /\ status' = [status EXCEPT ![n] = "failed"]
    /\ UNCHANGED <<skip, selected, misrouted, expanded, children>>
    /\ IF IsDispatch(n)
       THEN work' = [work EXCEPT ![n] = "expanded"] /\ EmitCheckpoint
       ELSE SettleWork(n) /\ UNCHANGED ckpt
    /\ UNCHANGED <<running, leases, attempt, loop, aborted, resumes>>

\* Only spawned work goes through runNodeWithRetry.
Retries(n) == n \in Original => Mode[n] \in {"spawn", "result_dispatch"}

AttemptFails(n) == Attempting(n) /\ FailNode(n)

\* Defect: the lease is given up during the backoff.
AttemptBacksOffUnleased(n) ==
    /\ Attempting(n) /\ Retries(n)
    /\ attempt[n] < MaxAttempts /\ ~aborted
    /\ work' = [work EXCEPT ![n] = "backoff"]
    /\ leases' = leases \ {n}
    /\ UNCHANGED <<graph, running, attempt, loop, aborted, ckpt, resumes>>

\* A retryable error with attempts left starts the backoff timer; the node
\* keeps its slot and its lease meanwhile.
AttemptBacksOff(n) ==
    /\ Attempting(n) /\ Retries(n)
    /\ attempt[n] < MaxAttempts /\ ~aborted
    /\ work' = [work EXCEPT ![n] = "backoff"]
    /\ UNCHANGED <<graph, running, leases, attempt, loop, aborted, ckpt, resumes>>

\* The backoff timer does not listen to the signal; it is read afterwards.
BackoffEnds(n) ==
    /\ Yielded /\ n \in running /\ work[n] = "backoff"
    /\ \/ aborted /\ FailNode(n)
       \/ /\ ~aborted
          /\ work' = [work EXCEPT ![n] = "attempt"]
          /\ attempt' = [attempt EXCEPT ![n] = @ + 1]
          /\ UNCHANGED <<graph, running, leases, loop, aborted, ckpt, resumes>>

\* Defect: a dispatcher does not listen to the signal.
AttemptCancelledPlainOnly(n) ==
    /\ aborted /\ Attempting(n) /\ ~IsDispatch(n)
    /\ FailNode(n)

\* waitForPromise rejects when the signal fires; declared sends wait for
\* nothing and expand.
AttemptCancelled(n) ==
    /\ aborted /\ Attempting(n)
    /\ n \in Original => Mode[n] # "sends"
    /\ FailNode(n)

\* Defect: the released node does not wake the loop.
ReleaseSilently(n) ==
    /\ Yielded /\ n \in running /\ work[n] \in {"settled", "expanded"}
    /\ leases' = leases \ {n}
    /\ running' = running \ {n}
    /\ work' = [work EXCEPT ![n] = "idle"]
    /\ attempt' = [attempt EXCEPT ![n] = 0]
    /\ UNCHANGED <<graph, loop, aborted, resumes>>
    /\ IF work[n] = "settled" THEN EmitCheckpoint ELSE UNCHANGED ckpt

\* The finally handler: give the lease and the slot back.
Release(n) ==
    /\ Yielded /\ n \in running /\ work[n] \in {"settled", "expanded"}
    /\ leases' = leases \ {n}
    /\ running' = running \ {n}
    /\ work' = [work EXCEPT ![n] = "idle"]
    /\ attempt' = [attempt EXCEPT ![n] = 0]
    /\ woken' = (woken \/ pc = "await")
    /\ UNCHANGED <<graph, pc, todo, termination, aborted, resumes>>
    /\ IF work[n] = "settled" THEN EmitCheckpoint ELSE UNCHANGED ckpt

-----------------------------------------------------------------------------
(* The environment.                                                        *)

Abort ==
    /\ ~aborted /\ pc # "done"
    /\ aborted' = TRUE
    /\ UNCHANGED <<graph, slots, loop, ckpt, resumes>>

\* A dynamic callback that was not expanded does not survive serialization.
Resumable ==
    /\ ckpt.emitted
    /\ \A n \in Original : Mode[n] = "dynamic" =>
          n \in ckpt.expanded \/ ckpt.status[n] \in Terminal

\* Defect: skip reasons are not restored.
ResumeWithoutSkips ==
    /\ resumes < MaxResumes /\ Resumable
    /\ resumes' = resumes + 1
    /\ status' = [n \in Node |->
                    IF ckpt.status[n] \in Terminal \cup {"absent"} THEN ckpt.status[n]
                    ELSE IF n \in ckpt.expanded THEN "running" ELSE "queued"]
    /\ skip' = {} /\ selected' = ckpt.selected
    /\ misrouted' = ckpt.misrouted
    /\ expanded' = ckpt.expanded /\ children' = ckpt.children
    /\ running' = {} /\ leases' = {}
    /\ work' = [n \in Node |-> "idle"] /\ attempt' = [n \in Node |-> 0]
    /\ pc' = "skips" /\ todo' = {} /\ woken' = FALSE /\ termination' = "none"
    /\ aborted' = FALSE
    /\ UNCHANGED ckpt

\* Defect: failed nodes are queued again.
ResumeFailedAgain ==
    /\ resumes < MaxResumes /\ Resumable
    /\ resumes' = resumes + 1
    /\ status' = [n \in Node |->
                    IF ckpt.status[n] \in {"completed", "skipped", "absent"} THEN ckpt.status[n]
                    ELSE IF n \in ckpt.expanded THEN "running" ELSE "queued"]
    /\ skip' = ckpt.skip /\ selected' = ckpt.selected
    /\ misrouted' = ckpt.misrouted
    /\ expanded' = ckpt.expanded /\ children' = ckpt.children
    /\ running' = {} /\ leases' = {}
    /\ work' = [n \in Node |-> "idle"] /\ attempt' = [n \in Node |-> 0]
    /\ pc' = "skips" /\ todo' = {} /\ woken' = FALSE /\ termination' = "none"
    /\ aborted' = FALSE
    /\ UNCHANGED ckpt

\* resumeDAG of the last checkpoint, in a new run, after the first one ended
\* or its process died: terminal nodes keep their results, other nodes are
\* queued again, parents that were expanded wait for their children.
Resume ==
    /\ resumes < MaxResumes /\ Resumable
    /\ resumes' = resumes + 1
    /\ status' = [n \in Node |->
                    IF ckpt.status[n] \in Terminal \cup {"absent"} THEN ckpt.status[n]
                    ELSE IF n \in ckpt.expanded THEN "running" ELSE "queued"]
    /\ skip' = ckpt.skip /\ selected' = ckpt.selected
    /\ misrouted' = ckpt.misrouted
    /\ expanded' = ckpt.expanded /\ children' = ckpt.children
    /\ running' = {} /\ leases' = {}
    /\ work' = [n \in Node |-> "idle"] /\ attempt' = [n \in Node |-> 0]
    /\ pc' = "skips" /\ todo' = {} /\ woken' = FALSE /\ termination' = "none"
    /\ aborted' = FALSE
    /\ UNCHANGED ckpt

-----------------------------------------------------------------------------
NodeStep(n) ==
    \/ Complete(n) \/ Misroute(n)
    \/ \E branch \in SUBSET Original : RouteTo(n, branch)
    \/ \E kids \in SUBSET Generated : Expand(n, kids)
    \/ AttemptFails(n) \/ AttemptBacksOff(n) \/ BackoffEnds(n)
    \/ AttemptCancelled(n) \/ Release(n)

Stopped == pc = "done" /\ running = {} /\ UNCHANGED vars

Next == LoopStep \/ (\E n \in Node : NodeStep(n)) \/ Abort \/ Resume \/ Stopped

Spec == Init /\ [][Next]_vars

(* What the event loop itself guarantees: the loop goes on, timers fire,   *)
(* finally handlers run, abort listeners reject.                           *)
EngineFairness ==
    /\ WF_vars(LoopStep)
    /\ \A n \in Node : /\ WF_vars(Release(n)) /\ WF_vars(BackoffEnds(n))
                       /\ WF_vars(AttemptCancelled(n))
    /\ \A n \in Original : WF_vars(Expand(n, DeclaredSends[n]) /\ Mode[n] = "sends")

(* What timeout_ms or the worker's own liveness limit adds: every attempt  *)
(* ends in some way.                                                       *)
AttemptEnds(n) ==
    \/ Complete(n) \/ Misroute(n) \/ AttemptFails(n) \/ AttemptBacksOff(n)
    \/ \E branch \in SUBSET Original : RouteTo(n, branch)
    \/ \E kids \in SUBSET Generated : Expand(n, kids)
WorkerFairness == \A n \in Node : WF_vars(AttemptEnds(n))

EngineSpec == Spec /\ EngineFairness

-----------------------------------------------------------------------------
(* Properties.                                                             *)

\* Every variable keeps to the values the code can give it.
TypeOK ==
    /\ status \in [Node -> Status]
    /\ skip \subseteq Original /\ misrouted \subseteq Original
    /\ expanded \subseteq Original
    /\ selected \in [Original -> SUBSET Original]
    /\ children \in [Original -> SUBSET Generated]
    /\ running \subseteq Node /\ leases \subseteq Node /\ todo \subseteq Node
    /\ work \in [Node -> {"idle", "attempt", "backoff", "settled", "expanded"}]
    /\ attempt \in [Node -> 0..MaxAttempts]
    /\ pc \in {"skips", "parents", "scan", "await", "drain", "done"}
    /\ termination \in {"none", "all_terminal", "aborted", "blocked"}
    /\ woken \in BOOLEAN /\ aborted \in BOOLEAN
    /\ resumes \in 0..MaxResumes
    /\ ckpt \in [emitted : BOOLEAN, status : [Node -> Status],
                 skip : SUBSET Original, selected : [Original -> SUBSET Original],
                 misrouted : SUBSET Original, expanded : SUBSET Original,
                 children : [Original -> SUBSET Generated]]

\* Two nodes in flight never have overlapping scopes: every node in flight
\* holds its lease through retries and backoff, no lease outlives its node,
\* and no two holders overlap (launch, launchDispatch and their finally).
LeaseSafety ==
    /\ leases = running
    /\ \A m, n \in running : m # n => ~Overlap(m, n)

\* No more than maxConcurrent nodes are in flight, dispatchers included.
ConcurrencyBound == Cardinality(running) <= MaxConcurrent

\* A node starts only when everything it depends on has settled, children of
\* a dispatcher inherit that from their parent, and a resumed run never finds
\* a started node whose dependency it has to run again.
StartsAfterDependencies ==
    \A n \in Node : status[n] \in {"running", "completed", "failed"} =>
        \A d \in DependsOn[Owner(n)] : Settled(d)

\* A branch no router selected never runs, even when another router, a
\* failure or a resumption makes its node ready.
UnselectedNeverRuns ==
    \A r \in Original : \A t \in Targets(r) :
        \/ status[r] = "completed" /\ t \notin selected[r]
        \/ r \in misrouted
        => status[t] \in {"queued", "skipped"}

\* A dispatch parent is the join of its children: it settles after all of
\* them and completes exactly when they all completed.
JoinConsistent ==
    \A p \in expanded :
        /\ Settled(p) => \A c \in children[p] : Settled(c)
        /\ Settled(p) => (status[p] = "completed" <=>
                             \A c \in children[p] : status[c] = "completed")
        /\ ~Settled(p) => status[p] = "running"

\* The executor always finds something to launch, to await or to end with:
\* the termination "blocked" does not occur.
NeverBlocked == termination # "blocked"

\* What a checkpoint has recorded as settled is never run again nor changed,
\* neither by the run that emitted it nor by one resumed from it.
RecordedWorkKept ==
    [][\A n \in Node : ckpt.status[n] \in Terminal =>
          /\ status'[n] = ckpt.status[n]
          /\ ckpt'.status[n] = ckpt.status[n]
          /\ n \in running' => n \in running]_vars

\* A node is launched ahead of a ready node of higher rank only if the other
\* one's scopes are leased.
NoOvertaking ==
    [][\A n \in running' \ running : \A m \in SortedReady \ {n} :
          Precedes(m, n) => ~CanAcquire(m)]_vars

\* In wave mode a node is launched only when every node of the waves before
\* its own has settled.
WaveBarrier ==
    [][Scheduler = "wave" =>
         \A n \in running' \ running : \A m \in Present :
            Wave[m] < Wave[n] => Settled(m)]_vars

\* An aborted run comes to its end whatever its workers do: it waits for
\* abort listeners, timers and finally handlers only.
AbortStops == aborted ~> (pc = "done" \/ ~aborted)

\* When every attempt ends, the run ends, and unless it was aborted with
\* every node of the expanded graph settled.
RunCompletes ==
    WorkerFairness =>
        <>[](/\ pc = "done" /\ running = {}
             /\ aborted \/ \A n \in Present : Settled(n))
=============================================================================
