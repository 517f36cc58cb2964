--------------------------------- MODULE Batch ---------------------------------
(***************************************************************************)
(* batch_execute: the pool over independent tasks of                       *)
(* src/src/dag/batch-runtime.ts, called by batch-execute-tool.ts, in a     *)
(* chain of calls each of which may be given the result of the one before. *)
(*                                                                         *)
(* Tasks are numbers in the order of the manifest.  The owner of a lease,  *)
(* <batch>/<task>/<attempt> in the code, is the task: ids with slashes,    *)
(* which can make two owners one string, are left out.                     *)
(***************************************************************************)
EXTENDS Integers, FiniteSets

CONSTANTS
    Manifests,      \* task sets of the manifests that may be submitted
    Overlap,        \* pairs of tasks with overlapping resourceScopes
    maxConcurrent,
    MaxCalls        \* bound of the model: calls in one chain

Tasks == UNION Manifests

ASSUME BatchAssumption ==
    /\ \A tasks \in Manifests : tasks \subseteq Nat /\ IsFiniteSet(tasks)
    /\ Overlap \subseteq Tasks \X Tasks
    /\ \A pair \in Overlap : <<pair[2], pair[1]>> \in Overlap
    /\ maxConcurrent \in Nat \ {0}
    /\ MaxCalls \in Nat

VARIABLES
    pc,        \* where executeBatchManifest stands
    calls,
    manifest,  \* manifest.tasks of the call
    prior,     \* options.prior where failed_only makes use of it, else <<>>
    attempt,   \* attempt ids of the selected tasks
    pending,
    left,      \* the pending tasks from index on
    active,
    leases,
    ended,     \* tasks whose promise has settled and is not collected
    current,
    aborted,   \* options.signal.aborted
    results    \* what the last call returned

vars == <<pc, calls, manifest, prior, attempt, pending, left, active, leases, ended,
          current, aborted, results>>

\* How a task can end: the adapter's mapping of the child's outcome, and the
\* executor's own for a spawn that throws.
Outcomes ==
    {[status |-> "completed", retryable |-> FALSE],
     [status |-> "cancelled", retryable |-> FALSE],
     [status |-> "failed", retryable |-> FALSE],
     [status |-> "failed", retryable |-> TRUE]}
Cancelled == [status |-> "cancelled", retryable |-> FALSE]

BatchTaskResult(outcome, n) ==
    [status |-> outcome.status, retryable |-> outcome.retryable, attempt |-> n]

Init ==
    /\ pc = "idle" /\ calls = 0 /\ aborted = FALSE
    /\ manifest = {} /\ pending = {} /\ left = {} /\ active = {} /\ leases = {} /\ ended = {}
    /\ prior = <<>> /\ attempt = <<>> /\ current = <<>> /\ results = <<>>

\* selectBatchTasks with failed_only: failed tasks, unless they are not retryable.
Failed(known) == {t \in DOMAIN known : known[t].status = "failed" /\ known[t].retryable}

\* A prior result with tasks the manifest does not have is refused.
Call(submitted, failedOnly) ==
    /\ pc = "idle"
    /\ calls < MaxCalls
    /\ failedOnly => calls > 0 /\ DOMAIN results \subseteq submitted
    /\ pc' = "head"
    /\ calls' = calls + 1
    /\ manifest' = submitted
    /\ prior' = IF failedOnly THEN results ELSE <<>>
    /\ attempt' = IF failedOnly THEN [t \in Failed(results) |-> results[t].attempt + 1]
                  ELSE [t \in submitted |-> 1]
    /\ pending' = DOMAIN attempt'
    /\ UNCHANGED <<left, active, leases, ended, current, aborted, results>>

\* The signal fires before the call, or while it awaits.
Abort ==
    /\ pc \in {"head", "race"}
    /\ ~aborted
    /\ aborted' = TRUE
    /\ UNCHANGED <<pc, calls, manifest, prior, attempt, pending, left, active, leases,
                   ended, current, results>>

\* The head of the loop: an abort cancels what is pending.
Head ==
    /\ pc = "head"
    /\ pending \cup active # {}
    /\ pc' = "pass"
    /\ pending' = IF aborted THEN {} ELSE pending
    /\ left' = pending'
    /\ current' = [t \in DOMAIN current \cup (pending \ pending') |->
                     IF t \in DOMAIN current THEN current[t]
                     ELSE BatchTaskResult(Cancelled, attempt[t])]
    /\ UNCHANGED <<calls, manifest, prior, attempt, active, leases, ended, aborted, results>>

\* One round of the launch loop, for the next task of the pass.
canAcquire(t) == \A holder \in leases : <<t, holder>> \notin Overlap
Reaches(t) ==
    /\ pc = "pass"
    /\ Cardinality(active) < maxConcurrent
    /\ t \in left
    /\ \A u \in left : t <= u
    /\ left' = left \ {t}

\* Defect: the leases are not asked.
LaunchUnleased(t) ==
    /\ Reaches(t)
    /\ pending' = pending \ {t}
    /\ active' = active \cup {t}
    /\ leases' = leases \cup {t}
    /\ UNCHANGED <<pc, calls, manifest, prior, attempt, ended, current, aborted, results>>

Launch(t) ==
    /\ Reaches(t)
    /\ canAcquire(t)
    /\ pending' = pending \ {t}
    /\ active' = active \cup {t}
    /\ leases' = leases \cup {t}
    /\ UNCHANGED <<pc, calls, manifest, prior, attempt, ended, current, aborted, results>>

PassOver(t) ==
    /\ Reaches(t)
    /\ ~canAcquire(t)
    /\ UNCHANGED <<pc, calls, manifest, prior, attempt, pending, active, leases, ended,
                   current, aborted, results>>

\* Nothing active and tasks pending is the error the code throws.
PassEnds ==
    /\ pc = "pass"
    /\ left = {} \/ Cardinality(active) >= maxConcurrent
    /\ left' = {}
    /\ pc' = IF active # {} THEN "race" ELSE IF pending # {} THEN "thrown" ELSE "head"
    /\ UNCHANGED <<calls, manifest, prior, attempt, pending, active, leases, ended,
                   current, aborted, results>>

\* A child settles while the pool awaits; how is read when it is collected.
Settle(t) ==
    /\ pc = "race"
    /\ t \in active \ ended
    /\ ended' = ended \cup {t}
    /\ UNCHANGED <<pc, calls, manifest, prior, attempt, pending, left, active, leases,
                   current, aborted, results>>

\* Defect: the lease of a task is not released with its promise.
CollectHolding(t, outcome) ==
    /\ pc = "race"
    /\ t \in ended
    /\ pc' = "head"
    /\ active' = active \ {t}
    /\ ended' = ended \ {t}
    /\ current' = [u \in DOMAIN current \cup {t} |->
                     IF u = t THEN BatchTaskResult(outcome, attempt[t]) ELSE current[u]]
    /\ UNCHANGED <<calls, manifest, prior, attempt, pending, left, leases, aborted, results>>

Collect(t, outcome) ==
    /\ pc = "race"
    /\ t \in ended
    /\ pc' = "head"
    /\ active' = active \ {t}
    /\ leases' = leases \ {t}
    /\ ended' = ended \ {t}
    /\ current' = [u \in DOMAIN current \cup {t} |->
                     IF u = t THEN BatchTaskResult(outcome, attempt[t]) ELSE current[u]]
    /\ UNCHANGED <<calls, manifest, prior, attempt, pending, left, aborted, results>>

\* Defect: the prior result goes before what this call has found.
mergePriorFirst(known, found) ==
    [t \in (DOMAIN known \cup DOMAIN found) \cap manifest |->
        IF t \in DOMAIN known THEN known[t] ELSE found[t]]

\* What this call has found, then the prior result; tasks of the manifest with
\* neither are left out.
mergeBatchResults(known, found) ==
    [t \in (DOMAIN known \cup DOMAIN found) \cap manifest |->
        IF t \in DOMAIN found THEN found[t] ELSE known[t]]

Return ==
    /\ pc = "head"
    /\ pending \cup active = {}
    /\ pc' = "idle"
    /\ results' = mergeBatchResults(prior, current)
    /\ manifest' = {} /\ prior' = <<>> /\ attempt' = <<>> /\ current' = <<>>
    /\ aborted' = FALSE
    /\ UNCHANGED <<calls, pending, left, active, leases, ended>>

\* aggregateBatchResults
Count(found, status) == Cardinality({t \in DOMAIN found : found[t].status = status})
Status(found) ==
    IF Count(found, "failed") = 0 /\ Count(found, "cancelled") = 0 THEN "completed"
    ELSE IF Count(found, "completed") > 0 THEN "partial" ELSE "failed"

Pool ==
    \/ Head \/ PassEnds \/ Return
    \/ \E t \in Tasks : Launch(t) \/ PassOver(t)
    \/ \E t \in Tasks, outcome \in Outcomes : Collect(t, outcome)

Next ==
    \/ \E submitted \in Manifests, failedOnly \in BOOLEAN : Call(submitted, failedOnly)
    \/ Abort
    \/ Pool
    \/ \E t \in Tasks : Settle(t)

Spec == Init /\ [][Next]_vars

\* The event loop runs the pool; that children settle is what the service
\* promises of a spawn.
FairSpec ==
    /\ Spec
    /\ WF_vars(Pool)
    /\ \A t \in Tasks : WF_vars(Settle(t))

-----------------------------------------------------------------------------
\* Whatever the order in which tasks are passed over, launched and collected,
\* the leases are those of the active tasks, no two of which overlap or exceed
\* maxConcurrent, and the pool never takes itself for stuck and throws.
PoolHolds ==
    /\ leases = active
    /\ \A t, u \in active : t # u => <<t, u>> \notin Overlap
    /\ Cardinality(active) <= maxConcurrent
    /\ pc # "thrown"

\* A call that returns accounts for every task: one it selected has a result
\* of the attempt this call made, whether it ran or was cancelled, any other
\* keeps its prior result, and "completed" leaves out no task of a manifest
\* that has not grown since.
CallAccounts ==
    [][pc = "head" /\ pc' = "idle" =>
         /\ \A t \in DOMAIN attempt :
               t \in DOMAIN results' /\ results'[t].attempt = attempt[t]
         /\ \A t \in DOMAIN prior \ DOMAIN attempt :
               t \in DOMAIN results' /\ results'[t] = prior[t]
         /\ Status(results') = "completed" /\ manifest \subseteq DOMAIN prior \cup DOMAIN attempt
               => \A t \in manifest : results'[t].status = "completed"]_vars

\* Every call returns, in whatever order children settle and the signal fires.
CallsReturn == pc # "idle" ~> pc = "idle"
=============================================================================
