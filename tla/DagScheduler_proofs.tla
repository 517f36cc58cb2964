------------------------ MODULE DagScheduler_proofs ------------------------
(* Theorems about DagScheduler for every task graph and every policy.      *)
EXTENDS DagScheduler, FiniteSetTheorems, TLAPS

-----------------------------------------------------------------------------
(* Type correctness.  The attempt counter stays in range only because a    *)
(* node backs off while it has attempts left.                              *)

BackoffHasAttempts ==
    \A n \in Node : work[n] = "backoff" => attempt[n] < MaxAttempts

TypeInv == TypeOK /\ BackoffHasAttempts

\* The route targets of an admitted graph are original nodes.
LEMMA TargetsKnown == \A r \in Original : Targets(r) \subseteq Original
  BY GraphAssumption DEF Targets

\* The children a dispatcher may generate are generated nodes.
LEMMA SendsKnown ==
    ASSUME NEW n \in Original, NEW kids,
           IF Mode[n] = "sends" THEN kids = DeclaredSends[n]
           ELSE kids \subseteq Siblings(n) /\ Cardinality(kids) <= MaxChildren
    PROVE  kids \subseteq Generated
  BY DispatchAssumption DEF Siblings

LEMMA TypeInit == Init => TypeInv
  <1> SUFFICES ASSUME Init PROVE TypeInv
    OBVIOUS
  <1>1. status \in [Node -> Status]
    BY DEF Init, Status
  <1>2. ckpt \in [emitted : BOOLEAN, status : [Node -> Status],
                 skip : SUBSET Original, selected : [Original -> SUBSET Original],
                 misrouted : SUBSET Original, expanded : SUBSET Original,
                 children : [Original -> SUBSET Generated]]
    BY <1>1 DEF Init, SnapshotRecord
  <1>3. /\ work \in [Node -> {"idle", "attempt", "backoff", "settled", "expanded"}]
        /\ attempt \in [Node -> 0..MaxAttempts]
        /\ BackoffHasAttempts
    BY PolicyAssumption DEF Init, BackoffHasAttempts
  <1>4. resumes \in 0..MaxResumes
    BY PolicyAssumption DEF Init
  <1>5. QED
    BY <1>1, <1>2, <1>3, <1>4 DEF Init, TypeInv, TypeOK

\* A checkpoint copies the graph, so it has the graph's types.
LEMMA EmitTyped ==
    ASSUME status' \in [Node -> Status], skip' \subseteq Original,
           misrouted' \subseteq Original, expanded' \subseteq Original,
           selected' \in [Original -> SUBSET Original],
           children' \in [Original -> SUBSET Generated],
           EmitCheckpoint
    PROVE  ckpt' \in [emitted : BOOLEAN, status : [Node -> Status],
                 skip : SUBSET Original, selected : [Original -> SUBSET Original],
                 misrouted : SUBSET Original, expanded : SUBSET Original,
                 children : [Original -> SUBSET Generated]]
  BY DEF EmitCheckpoint, SnapshotRecord

\* FailNode, shared by the ways an attempt can fail for good.
LEMMA FailTyped ==
    ASSUME TypeInv, NEW n \in Node, FailNode(n)
    PROVE  TypeInv'
  <1>1. status' \in [Node -> Status]
    BY DEF TypeInv, TypeOK, FailNode, Status, Terminal
  <1>2. ckpt' \in [emitted : BOOLEAN, status : [Node -> Status],
                 skip : SUBSET Original, selected : [Original -> SUBSET Original],
                 misrouted : SUBSET Original, expanded : SUBSET Original,
                 children : [Original -> SUBSET Generated]]
    <2>1. CASE EmitCheckpoint
      BY <1>1, <2>1, EmitTyped DEF TypeInv, TypeOK, FailNode
    <2>2. CASE UNCHANGED ckpt
      BY <2>2 DEF TypeInv, TypeOK
    <2>3. QED BY <2>1, <2>2 DEF FailNode
  <1>3. work' \in [Node -> {"idle", "attempt", "backoff", "settled", "expanded"}]
        /\ \A m \in Node : work'[m] = "backoff" => work[m] = "backoff"
    BY DEF TypeInv, TypeOK, FailNode, SettleWork
  <1>4. BackoffHasAttempts'
    BY <1>3 DEF TypeInv, BackoffHasAttempts, FailNode
  <1>5. QED
    BY <1>1, <1>2, <1>3, <1>4 DEF TypeInv, TypeOK, FailNode, loop

LEMMA TypeLoopStep ==
    ASSUME TypeInv, LoopStep PROVE TypeInv'
  <1> USE DEF TypeInv, TypeOK, BackoffHasAttempts, slots, loop
  <1>1. CASE SettleSkippedNode
    <2>1. status' \in [Node -> Status]
      BY <1>1 DEF SettleSkippedNode, Status, Terminal
    <2>2. QED BY <1>1, <2>1, EmitTyped DEF SettleSkippedNode
  <1>2. CASE SkipsSettled
    BY <1>2 DEF SkipsSettled, graph
  <1>3. CASE SettleExpandedParent
    <2>1. status' \in [Node -> Status]
      BY <1>3 DEF SettleExpandedParent, Status, Terminal
    <2>2. QED BY <1>3, <2>1, EmitTyped DEF SettleExpandedParent
  <1>4. CASE BeginPass
    <2>1. SortedReady \subseteq Node
      BY DEF SortedReady, Queued
    <2>2. QED BY <1>4, <2>1 DEF BeginPass, graph
  <1>5. CASE ScanNext
    <2>1. PICK n \in todo : /\ todo' = todo \ {n}
                            /\ Launch(n) \/ (~CanAcquire(n) /\ UNCHANGED <<status, slots>>)
      BY <1>5 DEF ScanNext
    <2>2. CASE Launch(n)
      BY <1>5, <2>1, <2>2, PolicyAssumption DEF ScanNext, Launch, Status, Terminal
    <2>3. CASE UNCHANGED <<status, slots>>
      BY <1>5, <2>1, <2>3 DEF ScanNext
    <2>4. QED BY <2>1, <2>2, <2>3
  <1>6. CASE ScanEnd
    BY <1>6 DEF ScanEnd, graph
  <1>7. CASE Wake
    BY <1>7 DEF Wake, graph
  <1>8. CASE Drained
    BY <1>8 DEF Drained, graph
  <1>9. QED
    BY <1>1, <1>2, <1>3, <1>4, <1>5, <1>6, <1>7, <1>8 DEF LoopStep

LEMMA TypeNodeStep ==
    ASSUME TypeInv, NEW n \in Node, NodeStep(n) PROVE TypeInv'
  <1> USE DEF TypeInv, TypeOK, BackoffHasAttempts, loop
  <1>1. CASE Complete(n)
    BY <1>1 DEF Complete, SettleWork, Status, Terminal
  <1>2. CASE Misroute(n)
    <2>1. skip' \subseteq Original /\ misrouted' \subseteq Original
      BY <1>2, TargetsKnown DEF Misroute
    <2>2. QED BY <1>2, <2>1 DEF Misroute, SettleWork, Status, Terminal
  <1>3. ASSUME NEW branch \in SUBSET Original, RouteTo(n, branch) PROVE TypeInv'
    <2>1. skip' \subseteq Original
      BY <1>3, TargetsKnown DEF RouteTo
    <2>2. QED BY <1>3, <2>1 DEF RouteTo, SettleWork, Status, Terminal
  <1>4. ASSUME NEW kids \in SUBSET Generated, Expand(n, kids) PROVE TypeInv'
    <2>1. n \in Original
      BY <1>4 DEF Expand, IsDispatch
    <2>2. status' \in [Node -> Status] /\ expanded' \subseteq Original
          /\ children' \in [Original -> SUBSET Generated]
      BY <1>4, <2>1 DEF Expand, Status
    <2>3. QED BY <1>4, <2>2, EmitTyped DEF Expand
  <1>5. CASE AttemptFails(n)
    BY <1>5, FailTyped DEF AttemptFails
  <1>6. CASE AttemptBacksOff(n)
    BY <1>6 DEF AttemptBacksOff, graph
  <1>7. CASE BackoffEnds(n)
    <2>1. CASE FailNode(n)
      BY <2>1, FailTyped
    <2>2. CASE ~aborted
      BY <1>7, <2>2, PolicyAssumption DEF BackoffEnds, graph
    <2>3. QED BY <1>7, <2>1, <2>2 DEF BackoffEnds
  <1>8. CASE AttemptCancelled(n)
    BY <1>8, FailTyped DEF AttemptCancelled
  <1>9. CASE Release(n)
    <2>1. ckpt' \in [emitted : BOOLEAN, status : [Node -> Status],
                 skip : SUBSET Original, selected : [Original -> SUBSET Original],
                 misrouted : SUBSET Original, expanded : SUBSET Original,
                 children : [Original -> SUBSET Generated]]
      BY <1>9, EmitTyped DEF Release, graph
    <2>2. QED BY <1>9, <2>1, PolicyAssumption DEF Release, graph
  <1>10. QED
    BY <1>1, <1>2, <1>3, <1>4, <1>5, <1>6, <1>7, <1>8, <1>9 DEF NodeStep

LEMMA TypeResume ==
    ASSUME TypeInv, Resume PROVE TypeInv'
  <1>1. status' \in [Node -> Status]
    BY DEF TypeInv, TypeOK, Resume, Status, Terminal
  <1>2. /\ skip' \subseteq Original /\ misrouted' \subseteq Original
        /\ expanded' \subseteq Original
        /\ selected' \in [Original -> SUBSET Original]
        /\ children' \in [Original -> SUBSET Generated]
    BY DEF TypeInv, TypeOK, Resume
  <1>3. /\ work' \in [Node -> {"idle", "attempt", "backoff", "settled", "expanded"}]
        /\ attempt' \in [Node -> 0..MaxAttempts]
        /\ BackoffHasAttempts'
    BY PolicyAssumption DEF Resume, BackoffHasAttempts
  <1>4. resumes' \in 0..MaxResumes
    BY PolicyAssumption DEF TypeInv, TypeOK, Resume
  <1>5. QED
    BY <1>1, <1>2, <1>3, <1>4 DEF TypeInv, TypeOK, Resume

LEMMA TypeNext == TypeInv /\ [Next]_vars => TypeInv'
  <1> SUFFICES ASSUME TypeInv, [Next]_vars PROVE TypeInv'
    OBVIOUS
  <1>1. CASE LoopStep
    BY <1>1, TypeLoopStep
  <1>2. ASSUME NEW n \in Node, NodeStep(n) PROVE TypeInv'
    BY <1>2, TypeNodeStep
  <1>3. CASE Abort
    BY <1>3 DEF Abort, TypeInv, TypeOK, BackoffHasAttempts, graph, slots, loop
  <1>4. CASE Resume
    BY <1>4, TypeResume
  <1>5. CASE UNCHANGED vars
    BY <1>5 DEF vars, TypeInv, TypeOK, BackoffHasAttempts, graph, slots, loop
  <1>6. QED
    BY <1>1, <1>2, <1>3, <1>4, <1>5 DEF Next, Stopped

\* The variables of the executor keep to their types in every run of every
\* admitted graph; in particular no node is attempted more than maxAttempts
\* times without being launched anew (runNodeWithRetry).
THEOREM TypeCorrect == Spec => []TypeOK
  <1>1. TypeInv => TypeOK
    BY DEF TypeInv
  <1>2. QED
    BY TypeInit, TypeNext, <1>1, PTL DEF Spec

-----------------------------------------------------------------------------
(* The TypeInv of every reachable state, as an invariant to build on.      *)

LEMMA TypeInvariant == Spec => []TypeInv
  BY TypeInit, TypeNext, PTL DEF Spec

-----------------------------------------------------------------------------
(* Leases and slots.  Only Launch and Release touch them: Launch compares  *)
(* the new node with every holder and with the budget, Release gives back  *)
(* lease and slot together.                                                *)

SlotInv == LeaseSafety /\ ConcurrencyBound

LEMMA OverlapSymmetric == \A m, n : Overlap(m, n) <=> Overlap(n, m)
  BY DEF Overlap

LEMMA RunningFinite == TypeOK => IsFiniteSet(running)
  <1>1. IsFiniteSet(Node)
    BY GraphAssumption, FS_Union DEF Node
  <1>2. QED
    BY <1>1, FS_Subset DEF TypeOK

\* Steps that leave running and leases alone keep the invariant.
LEMMA SlotsUntouched ==
    ASSUME SlotInv, UNCHANGED <<running, leases>> PROVE SlotInv'
  BY DEF SlotInv, LeaseSafety, ConcurrencyBound, Overlap, ScopeOf, Owner

LEMMA LaunchKeepsSlots ==
    ASSUME TypeOK, SlotInv, NEW n, Launch(n),
           Cardinality(running) < MaxConcurrent
    PROVE  SlotInv'
  <1>1. LeaseSafety'
    <2>1. leases' = running'
      BY DEF Launch, SlotInv, LeaseSafety
    <2>2. ASSUME NEW h \in running', NEW k \in running', h # k
          PROVE  ~Overlap(h, k)
      <3>1. CASE h \in running /\ k \in running
        BY <3>1, <2>2 DEF SlotInv, LeaseSafety
      <3>2. CASE h = n /\ k \in running
        BY <3>2, OverlapSymmetric DEF SlotInv, LeaseSafety, Launch, CanAcquire
      <3>3. CASE k = n /\ h \in running
        BY <3>3 DEF SlotInv, LeaseSafety, Launch, CanAcquire
      <3>4. QED BY <2>2, <3>1, <3>2, <3>3 DEF Launch
    <2>3. QED BY <2>1, <2>2 DEF LeaseSafety, Overlap, ScopeOf, Owner
  <1>2. ConcurrencyBound'
    <2>1. Cardinality(running) \in Nat
      BY RunningFinite, FS_CardinalityType
    <2>2. Cardinality(running \cup {n}) =
            IF n \in running THEN Cardinality(running) ELSE Cardinality(running) + 1
      BY RunningFinite, FS_AddElement
    <2>3. running' = running \cup {n}
      BY DEF Launch
    <2>4. QED BY <2>1, <2>2, <2>3, PolicyAssumption DEF ConcurrencyBound
  <1>3. QED BY <1>1, <1>2 DEF SlotInv

LEMMA ReleaseKeepsSlots ==
    ASSUME TypeOK, SlotInv, NEW n, Release(n) PROVE SlotInv'
  <1>1. LeaseSafety'
    BY DEF Release, SlotInv, LeaseSafety, Overlap, ScopeOf, Owner
  <1>2. ConcurrencyBound'
    <2>1. Cardinality(running) \in Nat
      BY RunningFinite, FS_CardinalityType
    <2>2. Cardinality(running \ {n}) =
            IF n \in running THEN Cardinality(running) - 1 ELSE Cardinality(running)
      BY RunningFinite, FS_RemoveElement
    <2>3. running' = running \ {n}
      BY DEF Release
    <2>4. QED BY <2>1, <2>2, <2>3, PolicyAssumption DEF SlotInv, ConcurrencyBound
  <1>3. QED BY <1>1, <1>2 DEF SlotInv

LEMMA SlotInit == Init => SlotInv
  BY FS_EmptySet, PolicyAssumption
  DEF Init, SlotInv, LeaseSafety, ConcurrencyBound

LEMMA SlotNext == TypeOK /\ SlotInv /\ [Next]_vars => SlotInv'
  <1> SUFFICES ASSUME TypeOK, SlotInv, [Next]_vars PROVE SlotInv'
    OBVIOUS
  <1>1. CASE LoopStep
    <2>1. CASE ScanNext
      <3>1. PICK n \in todo : Launch(n) \/ (~CanAcquire(n) /\ UNCHANGED <<status, slots>>)
        BY <2>1 DEF ScanNext
      <3>2. CASE Launch(n)
        BY <2>1, <3>2, LaunchKeepsSlots DEF ScanNext
      <3>3. CASE UNCHANGED <<status, slots>>
        BY <3>3, SlotsUntouched DEF slots
      <3>4. QED BY <3>1, <3>2, <3>3
    <2>2. CASE ~ScanNext
      BY <1>1, <2>2, SlotsUntouched
      DEF LoopStep, SettleSkippedNode, SkipsSettled, SettleExpandedParent,
          BeginPass, ScanEnd, Wake, Drained, slots
    <2>3. QED BY <2>1, <2>2
  <1>2. ASSUME NEW n \in Node, NodeStep(n) PROVE SlotInv'
    <2>1. CASE Release(n)
      BY <2>1, ReleaseKeepsSlots
    <2>2. CASE ~Release(n)
      BY <1>2, <2>2, SlotsUntouched
      DEF NodeStep, Complete, Misroute, RouteTo, Expand, AttemptFails,
          AttemptBacksOff, BackoffEnds, AttemptCancelled, FailNode
    <2>3. QED BY <2>1, <2>2
  <1>3. CASE Abort
    BY <1>3, SlotsUntouched DEF Abort, slots
  <1>4. CASE Resume
    BY <1>4, FS_EmptySet, PolicyAssumption
    DEF Resume, SlotInv, LeaseSafety, ConcurrencyBound
  <1>5. CASE UNCHANGED vars
    BY <1>5, SlotsUntouched DEF vars, slots
  <1>6. QED
    BY <1>1, <1>2, <1>3, <1>4, <1>5 DEF Next, Stopped

LEMMA SlotInvariant == Spec => []SlotInv
  BY SlotInit, SlotNext, TypeCorrect, PTL DEF Spec

\* No two nodes in flight write the same resource, for every graph, scope
\* assignment and policy, retries and resumptions included (launch,
\* launchDispatch and the finally handlers of executeDAGCore).
THEOREM LeasesExclude == Spec => []LeaseSafety
  <1>1. SlotInv => LeaseSafety
    BY DEF SlotInv
  <1>2. QED BY <1>1, SlotInvariant, PTL

\* No more than maxConcurrent nodes are ever in flight.
THEOREM ConcurrencyBounded == Spec => []ConcurrencyBound
  <1>1. SlotInv => ConcurrencyBound
    BY DEF SlotInv
  <1>2. QED BY <1>1, SlotInvariant, PTL

-----------------------------------------------------------------------------
(* Dependencies.  A started node has settled dependencies, in the live     *)
(* state and in the last checkpoint; what the loop still has to launch in  *)
(* a pass stays ready until the pass ends; a node that is being worked on  *)
(* or waits for its children is "running"; an expanded node is not worked  *)
(* on again; and a child is in the graph only once its parent expanded.    *)

Started == {"running", "completed", "failed"}

DepsSettled(n) == \A d \in DependsOn[Owner(n)] : Settled(d)

LiveDeps ==
    /\ StartsAfterDependencies
    /\ \A n \in running : work[n] \in {"attempt", "backoff"} => status[n] = "running"
    /\ \A p \in expanded : /\ status[p] \in Terminal \cup {"running"}
                           /\ work[p] \notin {"attempt", "backoff"}
    /\ \A g \in Generated : ParentOf[g] \notin expanded => status[g] = "absent"

TodoReady ==
    pc = "scan" => \A n \in todo : status[n] = "queued" /\ DepsSettled(n)

CkptDeps ==
    /\ \A n \in Node : ckpt.status[n] \in Started =>
          \A d \in DependsOn[Owner(n)] : ckpt.status[d] \in Terminal
    /\ \A p \in ckpt.expanded : ckpt.status[p] \in Terminal \cup {"running"}
    /\ \A g \in Generated : ParentOf[g] \notin ckpt.expanded => ckpt.status[g] = "absent"

DepsInv == LiveDeps /\ TodoReady /\ CkptDeps

\* Dependencies are original nodes, never the node itself.
LEMMA DependsOnKnown ==
    /\ \A n \in Node : DependsOn[Owner(n)] \subseteq Original
    /\ Original \subseteq Node
  BY GraphAssumption, DispatchAssumption DEF Node, Owner

\* A settled original node stays settled, whatever node is updated.
LEMMA EmitKeepsDeps ==
    ASSUME LiveDeps', EmitCheckpoint PROVE CkptDeps'
  BY DEF LiveDeps, EmitCheckpoint, SnapshotRecord, CkptDeps, StartsAfterDependencies,
         Started, Settled

LEMMA CkptUntouched ==
    ASSUME CkptDeps, UNCHANGED ckpt PROVE CkptDeps'
  BY DEF CkptDeps

\* Steps that leave the graph and the work of nodes alone.
LEMMA LiveUntouched ==
    ASSUME LiveDeps, UNCHANGED <<status, expanded, running, work>> PROVE LiveDeps'
  BY DEF LiveDeps, StartsAfterDependencies, Settled

\* A node whose dependencies are settled takes a new status; a settled node
\* does not lose it.
LEMMA StatusStepKeepsOrder ==
    ASSUME TypeOK, StartsAfterDependencies, NEW n \in Node, NEW s \in Status,
           status' = [status EXCEPT ![n] = s],
           s \in Started => DepsSettled(n),
           Settled(n) => s \in Terminal
    PROVE  StartsAfterDependencies'
  <1>1. \A d \in Original : Settled(d) => Settled(d)'
    BY DependsOnKnown DEF Settled, TypeOK
  <1>2. ASSUME NEW m \in Node, status'[m] \in Started
        PROVE  \A d \in DependsOn[Owner(m)] : Settled(d)'
    <2>1. CASE m = n
      BY <1>1, <1>2, <2>1, DependsOnKnown DEF DepsSettled, TypeOK
    <2>2. CASE m # n
      BY <1>1, <1>2, <2>2, DependsOnKnown DEF StartsAfterDependencies, Started, TypeOK
    <2>3. QED BY <2>1, <2>2
  <1>3. QED BY <1>2 DEF StartsAfterDependencies, Started

LEMMA FailKeepsDeps ==
    ASSUME TypeOK, DepsInv, Yielded, NEW n \in Node, n \in running,
           work[n] \in {"attempt", "backoff"}, FailNode(n)
    PROVE  DepsInv'
  <1>1. status[n] = "running" /\ DepsSettled(n)
    BY DEF DepsInv, LiveDeps, StartsAfterDependencies, DepsSettled
  <1>2. StartsAfterDependencies'
    BY <1>1, StatusStepKeepsOrder
    DEF FailNode, DepsInv, LiveDeps, Status, Terminal, Settled
  <1>3. \A m \in Node : m # n => work'[m] = work[m] /\ status'[m] = status[m]
    BY DEF FailNode, SettleWork, TypeOK
  <1>4. work'[n] \notin {"attempt", "backoff"} /\ status'[n] = "failed"
    BY DEF FailNode, SettleWork, TypeOK
  <1>5. LiveDeps'
    BY <1>2, <1>3, <1>4 DEF DepsInv, LiveDeps, FailNode, TypeOK, Terminal, Node
  <1>6. TodoReady'
    BY DEF Yielded, FailNode, loop, TodoReady
  <1>7. CkptDeps'
    BY <1>5, EmitKeepsDeps, CkptUntouched DEF FailNode, DepsInv
  <1>8. QED BY <1>5, <1>6, <1>7 DEF DepsInv

LEMMA DepsInit == Init => DepsInv
  <1> SUFFICES ASSUME Init PROVE DepsInv
    OBVIOUS
  <1>1. \A n \in Node : status[n] = IF n \in Original THEN "queued" ELSE "absent"
    BY DEF Init
  <1>2. \A g \in Generated : g \in Node /\ status[g] = "absent"
    BY <1>1, GraphAssumption DEF Node
  <1>3. LiveDeps /\ TodoReady
    BY <1>1, <1>2 DEF Init, LiveDeps, TodoReady, StartsAfterDependencies
  <1>4. ckpt.status = status /\ ckpt.expanded = {}
    BY DEF Init, SnapshotRecord
  <1>5. CkptDeps
    BY <1>1, <1>2, <1>4 DEF CkptDeps, Started
  <1>6. QED BY <1>3, <1>5 DEF DepsInv

LEMMA DepsLoopStep ==
    ASSUME TypeOK, DepsInv, LoopStep PROVE DepsInv'
  <1>1. CASE SettleSkippedNode
    <2>1. PICK n \in skip \cap Queued : status' = [status EXCEPT ![n] = "skipped"]
      BY <1>1 DEF SettleSkippedNode
    <2>2. n \in Node /\ status[n] = "queued"
      BY DEF Queued
    <2>3. StartsAfterDependencies'
      BY <2>1, <2>2, StatusStepKeepsOrder
      DEF DepsInv, LiveDeps, Status, Terminal, Started, Settled
    <2>4. LiveDeps'
      BY <1>1, <2>1, <2>2, <2>3
      DEF SettleSkippedNode, slots, DepsInv, LiveDeps, Terminal, TypeOK, Node
    <2>5. QED
      BY <1>1, <2>4, EmitKeepsDeps DEF SettleSkippedNode, loop, DepsInv, TodoReady
  <1>2. CASE SkipsSettled \/ Wake \/ Drained \/ ScanEnd
    <2>1. LiveDeps' /\ CkptDeps'
      BY <1>2, LiveUntouched, CkptUntouched
      DEF DepsInv, SkipsSettled, Wake, Drained, ScanEnd, graph, slots
    <2>2. TodoReady'
      BY <1>2 DEF SkipsSettled, Wake, Drained, ScanEnd, TodoReady
    <2>3. QED BY <2>1, <2>2 DEF DepsInv
  <1>3. CASE SettleExpandedParent
    <2>1. PICK p \in Joinable, s \in {"completed", "failed"} :
             status' = [status EXCEPT ![p] = s]
      BY <1>3 DEF SettleExpandedParent
    <2>2. p \in Node /\ p \in expanded /\ status[p] = "running" /\ DepsSettled(p)
      BY DEF Joinable, DepsInv, LiveDeps, StartsAfterDependencies, DepsSettled,
             Settled, TypeOK, Node
    <2>3. StartsAfterDependencies'
      BY <2>1, <2>2, StatusStepKeepsOrder
      DEF DepsInv, LiveDeps, Status, Terminal, Settled
    <2>4. work[p] \notin {"attempt", "backoff"}
      BY <2>2 DEF DepsInv, LiveDeps
    <2>5. LiveDeps'
      BY <1>3, <2>1, <2>2, <2>3, <2>4
      DEF SettleExpandedParent, slots, DepsInv, LiveDeps, Terminal, TypeOK, Node
    <2>6. QED
      BY <1>3, <2>5, EmitKeepsDeps DEF SettleExpandedParent, loop, DepsInv, TodoReady
  <1>4. CASE BeginPass
    <2>1. LiveDeps' /\ CkptDeps'
      BY <1>4, LiveUntouched, CkptUntouched DEF DepsInv, BeginPass, graph, slots
    <2>2. \A n \in SortedReady : status[n] = "queued" /\ DepsSettled(n)
      BY DEF SortedReady, Queued, Deps, DepsSettled
    <2>3. TodoReady'
      BY <1>4, <2>2 DEF BeginPass, TodoReady, DepsSettled, Settled, graph
    <2>4. QED BY <2>1, <2>3 DEF DepsInv
  <1>5. CASE ScanNext
    <2>1. PICK n \in todo : /\ todo' = todo \ {n}
                            /\ Launch(n) \/ (~CanAcquire(n) /\ UNCHANGED <<status, slots>>)
      BY <1>5 DEF ScanNext
    <2>2. CkptDeps'
      BY <1>5, CkptUntouched DEF ScanNext, DepsInv
    <2>3. CASE Launch(n)
      <3>1. n \in Node /\ status[n] = "queued" /\ DepsSettled(n)
        BY <1>5, <2>1 DEF ScanNext, DepsInv, TodoReady, TypeOK
      <3>2. StartsAfterDependencies'
        BY <2>3, <3>1, StatusStepKeepsOrder
        DEF Launch, DepsInv, LiveDeps, Status, Terminal, Settled
      <3>3. LiveDeps'
        BY <1>5, <2>3, <3>1, <3>2
        DEF ScanNext, Launch, DepsInv, LiveDeps, Terminal, TypeOK, Node
      <3>4. \A d \in Node : Settled(d) => Settled(d)'
        BY <2>3, <3>1 DEF Launch, Settled, Terminal, TypeOK
      <3>5. TodoReady'
        BY <1>5, <2>1, <2>3, <3>1, <3>4, DependsOnKnown
        DEF ScanNext, Launch, DepsInv, TodoReady, DepsSettled, TypeOK
      <3>6. QED BY <2>2, <3>3, <3>5 DEF DepsInv
    <2>4. CASE UNCHANGED <<status, slots>>
      <3>1. LiveDeps'
        BY <1>5, <2>4, LiveUntouched DEF ScanNext, DepsInv, slots
      <3>2. TodoReady'
        BY <1>5, <2>1, <2>4 DEF ScanNext, DepsInv, TodoReady, DepsSettled, Settled
      <3>3. QED BY <2>2, <3>1, <3>2 DEF DepsInv
    <2>5. QED BY <2>1, <2>3, <2>4
  <1>6. QED
    BY <1>1, <1>2, <1>3, <1>4, <1>5 DEF LoopStep

LEMMA DepsNodeStep ==
    ASSUME TypeOK, DepsInv, NEW n \in Node, NodeStep(n) PROVE DepsInv'
  <1>1. ASSUME Attempting(n)
        PROVE  n \in running /\ work[n] = "attempt" /\ Yielded
               /\ status[n] = "running" /\ DepsSettled(n)
    BY <1>1 DEF Attempting, DepsInv, LiveDeps, StartsAfterDependencies, DepsSettled
  <1>2. ASSUME NEW s \in {"completed", "failed"}, Attempting(n),
               status' = [status EXCEPT ![n] = s], SettleWork(n),
               UNCHANGED <<expanded, running, loop, ckpt>>
        PROVE  DepsInv'
    <2>1. StartsAfterDependencies'
      BY <1>1, <1>2, StatusStepKeepsOrder DEF DepsInv, LiveDeps, Status, Terminal, Settled
    <2>2. LiveDeps'
      BY <1>1, <1>2, <2>1 DEF DepsInv, LiveDeps, SettleWork, Terminal, TypeOK, Node
    <2>3. QED
      BY <1>1, <1>2, <2>2, CkptUntouched DEF DepsInv, TodoReady, Yielded, loop
  <1>3. CASE Complete(n)
    BY <1>2, <1>3 DEF Complete
  <1>4. CASE Misroute(n)
    BY <1>2, <1>4 DEF Misroute
  <1>5. ASSUME NEW branch \in SUBSET Original, RouteTo(n, branch) PROVE DepsInv'
    BY <1>2, <1>5 DEF RouteTo
  <1>6. ASSUME NEW kids \in SUBSET Generated, Expand(n, kids) PROVE DepsInv'
    <2>1. n \in Original /\ kids \subseteq Node /\ kids \cap Original = {}
      BY <1>6, GraphAssumption DEF Expand, IsDispatch, Node
    <2>2. \A d \in Original : status'[d] = status[d]
      BY <1>6, <2>1, DependsOnKnown DEF Expand
    <2>3. \A m \in Node : status'[m] \in Started => status[m] = status'[m]
      BY <1>6 DEF Expand, Started
    <2>4. StartsAfterDependencies'
      BY <2>2, <2>3, DependsOnKnown
      DEF DepsInv, LiveDeps, StartsAfterDependencies, Started, Settled
    <2>5. work' = [work EXCEPT ![n] = "expanded"] /\ running' = running
      BY <1>6 DEF Expand
    <2>6. \A m \in running' : work'[m] \in {"attempt", "backoff"} => status'[m] = "running"
      <3>1. \A k \in kids : k \in Generated /\ ParentOf[k] = n
        BY <1>6, <2>1, SendsKnown, DispatchAssumption DEF Expand, Siblings
      <3>2. \A k \in kids : status[k] = "absent"
        BY <1>6, <3>1 DEF DepsInv, LiveDeps, Expand, IsDispatch
      <3>3. QED
        BY <1>6, <2>5, <3>2 DEF Expand, DepsInv, LiveDeps, TypeOK
    <2>7. /\ \A p \in expanded' : /\ status'[p] \in Terminal \cup {"running"}
                                  /\ work'[p] \notin {"attempt", "backoff"}
          /\ \A g \in Generated : ParentOf[g] \notin expanded' => status'[g] = "absent"
      <3>1. \A k \in kids : k \in Generated /\ ParentOf[k] = n
        BY <1>6, <2>1, SendsKnown, DispatchAssumption DEF Expand, Siblings
      <3>2. QED
        BY <1>1, <1>6, <2>1, <2>2, <2>5, <3>1 DEF Expand, DepsInv, LiveDeps, TypeOK, Node
    <2>8. LiveDeps'
      BY <2>4, <2>6, <2>7 DEF LiveDeps
    <2>9. QED
      BY <1>1, <1>6, <2>8, EmitKeepsDeps DEF Expand, DepsInv, TodoReady, Yielded, loop
  <1>7. CASE AttemptFails(n)
    BY <1>1, <1>7, FailKeepsDeps DEF AttemptFails
  <1>8. CASE AttemptBacksOff(n)
    <2>1. LiveDeps'
      BY <1>1, <1>8 DEF AttemptBacksOff, graph, DepsInv, LiveDeps,
         StartsAfterDependencies, Settled, TypeOK
    <2>2. QED
      BY <1>1, <1>8, <2>1, CkptUntouched
      DEF AttemptBacksOff, DepsInv, TodoReady, Yielded, loop
  <1>9. CASE BackoffEnds(n)
    <2>1. CASE FailNode(n)
      BY <1>9, <2>1, FailKeepsDeps DEF BackoffEnds
    <2>2. CASE ~aborted
      <3>1. /\ work[n] = "backoff" /\ n \in running
            /\ work' = [work EXCEPT ![n] = "attempt"]
            /\ UNCHANGED <<status, expanded, running>>
        BY <1>9, <2>2 DEF BackoffEnds, graph
      <3>2. LiveDeps'
        BY <3>1 DEF DepsInv, LiveDeps, StartsAfterDependencies, Settled, TypeOK, Node
      <3>3. QED
        BY <1>9, <2>2, <3>2, CkptUntouched
        DEF BackoffEnds, DepsInv, TodoReady, Yielded, loop
    <2>3. QED BY <1>9, <2>1, <2>2 DEF BackoffEnds
  <1>10. CASE AttemptCancelled(n)
    BY <1>1, <1>10, FailKeepsDeps DEF AttemptCancelled
  <1>11. CASE Release(n)
    <2>1. LiveDeps'
      BY <1>11 DEF Release, graph, DepsInv, LiveDeps, StartsAfterDependencies,
         Settled, TypeOK
    <2>2. CkptDeps'
      BY <1>11, <2>1, EmitKeepsDeps, CkptUntouched DEF Release, DepsInv
    <2>3. QED
      BY <1>11, <2>1, <2>2 DEF Release, DepsInv, TodoReady, Yielded
  <1>12. QED
    BY <1>3, <1>4, <1>5, <1>6, <1>7, <1>8, <1>9, <1>10, <1>11 DEF NodeStep

\* A resumed run starts from a checkpoint whose own dependencies are settled.
LEMMA DepsResume ==
    ASSUME TypeOK, DepsInv, Resume PROVE DepsInv'
  <1>1. CkptDeps
    BY DEF DepsInv
  <1>2. \A n \in Node : ckpt.status[n] \in Terminal => status'[n] = ckpt.status[n]
    BY DEF Resume
  <1>3. ASSUME NEW n \in Node, status'[n] \in Started
        PROVE  ckpt.status[n] \in Started
    <2>1. CASE ckpt.status[n] \in Terminal
      BY <1>2, <1>3, <2>1
    <2>2. CASE ckpt.status[n] \notin Terminal
      BY <1>1, <1>3, <2>2 DEF Resume, CkptDeps, Started
    <2>3. QED BY <2>1, <2>2
  <1>4. StartsAfterDependencies'
    BY <1>1, <1>2, <1>3, DependsOnKnown DEF StartsAfterDependencies, CkptDeps, Started, Settled
  <1>5. \A p \in ckpt.expanded : p \in Node /\ status'[p] \in Terminal \cup {"running"}
    BY <1>1 DEF Resume, CkptDeps, TypeOK, Node, Terminal
  <1>6. \A g \in Generated : ParentOf[g] \notin ckpt.expanded => status'[g] = "absent"
    BY <1>1 DEF Resume, CkptDeps, Node
  <1>7. LiveDeps'
    BY <1>4, <1>5, <1>6 DEF Resume, LiveDeps
  <1>8. TodoReady' /\ CkptDeps'
    BY <1>1, CkptUntouched DEF Resume, TodoReady
  <1>9. QED BY <1>7, <1>8 DEF DepsInv

LEMMA DepsNext == TypeOK /\ DepsInv /\ [Next]_vars => DepsInv'
  <1> SUFFICES ASSUME TypeOK, DepsInv, [Next]_vars PROVE DepsInv'
    OBVIOUS
  <1>1. CASE LoopStep
    BY <1>1, DepsLoopStep
  <1>2. ASSUME NEW n \in Node, NodeStep(n) PROVE DepsInv'
    BY <1>2, DepsNodeStep
  <1>3. CASE Abort \/ UNCHANGED vars
    <2>1. UNCHANGED <<graph, slots, loop, ckpt>>
      BY <1>3 DEF Abort, vars
    <2>2. LiveDeps' /\ CkptDeps'
      BY <2>1, LiveUntouched, CkptUntouched DEF DepsInv, graph, slots
    <2>3. TodoReady'
      BY <2>1 DEF DepsInv, TodoReady, DepsSettled, Settled, graph, loop
    <2>4. QED BY <2>2, <2>3 DEF DepsInv
  <1>4. CASE Resume
    BY <1>4, DepsResume
  <1>5. QED
    BY <1>1, <1>2, <1>3, <1>4 DEF Next, Stopped

\* A node is started only after everything it depends on has settled, for
\* every graph, with fan-out, retries, aborts and any number of resumptions
\* (sortedReady, expandDispatchNode and the seeding of a resumed run).
THEOREM DependenciesFirst == Spec => []StartsAfterDependencies
  <1>1. DepsInv => StartsAfterDependencies
    BY DEF DepsInv, LiveDeps
  <1>2. QED
    BY DepsInit, DepsNext, TypeCorrect, <1>1, PTL DEF Spec

=============================================================================
