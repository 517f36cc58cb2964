---------------------------- MODULE NodeAttempt ----------------------------
(***************************************************************************)
(* The attempts of running nodes (src/src/dag/executor-run.ts, and         *)
(* runNodeWithRetry of executor.ts): one attempt spawns its workers and    *)
(* awaits them, raced by its timeout and by the caller's signal; a spawn   *)
(* may return after the attempt it was made for is over, and a worker that *)
(* is told to stop keeps working for a while.                              *)
(*                                                                         *)
(* The nodes declare one scope, so they take turns with its lease.  The    *)
(* scheduler's other decisions are those of DagScheduler, where an attempt *)
(* is a choice between its outcomes.  A step is what runs between awaits.  *)
(***************************************************************************)
EXTENDS Naturals

CONSTANTS
    Node,           \* nodes that declare the same scope
    Handle,         \* the workers one attempt asks for
    MaxAttempts,    \* retryPolicy.maxAttempts
    Timed,          \* the nodes with a timeout_ms
    None            \* nobody holds the lease

ASSUME AttemptAssumption ==
    /\ Handle # {}
    /\ MaxAttempts \in Nat \ {0}
    /\ Timed \subseteq Node
    /\ None \notin Node

Attempt == 1..MaxAttempts

VARIABLES
    aborted,    \* the caller's signal has fired
    lease,      \* the node that holds the lease of the scope
    phase,      \* where runNodeWithRetry of a node stands
    attempt,    \* attemptNumber of a node
    result,     \* what a node settled with
    cancelled,  \* the attempts whose cancel() ran
    child       \* the worker behind each handle of each attempt

control == <<lease, phase, attempt, result>>
vars == <<aborted, control, cancelled, child>>

Phases == {"queued", "attempting", "backoff", "over"}
ChildStates == {"unasked", "spawning", "running", "stopping", "completed", "failed"}
Ended == {"completed", "failed"}
Active(n, k, h) == child[n][k][h] \in {"running", "stopping"}

Init ==
    /\ aborted = FALSE /\ lease = None /\ cancelled = {}
    /\ phase = [n \in Node |-> "queued"]
    /\ attempt = [n \in Node |-> 0]
    /\ result = [n \in Node |-> "none"]
    /\ child = [n \in Node |-> [k \in Attempt |-> [h \in Handle |-> "unasked"]]]

-----------------------------------------------------------------------------
(* The node: attempts, backoffs and the end.                               *)

\* runNode asks for every worker of the attempt before it awaits anything.
BeginAttempt(n) ==
    /\ phase' = [phase EXCEPT ![n] = "attempting"]
    /\ attempt' = [attempt EXCEPT ![n] = @ + 1]
    /\ child' = [child EXCEPT ![n][attempt[n] + 1] = [h \in Handle |-> "spawning"]]

\* The result is stored and the lease given up.
Settle(n, outcome) ==
    /\ phase' = [phase EXCEPT ![n] = "over"]
    /\ result' = [result EXCEPT ![n] = outcome]
    /\ lease' = IF lease = n THEN None ELSE lease
    /\ UNCHANGED attempt

Launch(n) ==
    /\ ~aborted /\ phase[n] = "queued" /\ lease = None
    /\ lease' = n
    /\ BeginAttempt(n)
    /\ UNCHANGED <<aborted, result, cancelled>>

\* A failed attempt is followed by a backoff, or is the end of the node.
AttemptFails(n, retryable) ==
    IF retryable /\ attempt[n] < MaxAttempts /\ ~aborted
    THEN /\ phase' = [phase EXCEPT ![n] = "backoff"]
         /\ UNCHANGED <<lease, attempt, result>>
    ELSE Settle(n, "failed")

\* Defect: the signal is not looked at again after the delay.
BackoffEndsUnchecked(n) ==
    /\ phase[n] = "backoff"
    /\ BeginAttempt(n)
    /\ UNCHANGED <<aborted, lease, result, cancelled>>

\* The delay is over; the timer did not listen to the signal.
BackoffEnds(n) ==
    /\ phase[n] = "backoff"
    /\ \/ /\ aborted
          /\ Settle(n, "failed")
          /\ UNCHANGED child
       \/ /\ ~aborted
          /\ BeginAttempt(n)
          /\ UNCHANGED <<lease, result>>
    /\ UNCHANGED <<aborted, cancelled>>

-----------------------------------------------------------------------------
(* The work of one attempt.                                                *)

\* Defect: the handle of a late spawn is not looked at.
SpawnReturnsUnchecked(n, k, h) ==
    /\ child[n][k][h] = "spawning"
    /\ child' = [child EXCEPT ![n][k][h] = IF aborted THEN "stopping" ELSE "running"]
    /\ UNCHANGED <<aborted, control, cancelled>>

\* The spawn function resolves.  trackedSpawn aborts the worker of a cancelled
\* attempt; a worker spawned with a signal that has fired is aborted from birth.
SpawnReturns(n, k, h) ==
    /\ child[n][k][h] = "spawning"
    /\ child' = [child EXCEPT ![n][k][h] =
                   IF aborted \/ <<n, k>> \in cancelled THEN "stopping" ELSE "running"]
    /\ UNCHANGED <<aborted, control, cancelled>>

\* The spawn function rejects.
SpawnFails(n, k, h) ==
    /\ child[n][k][h] = "spawning"
    /\ child' = [child EXCEPT ![n][k][h] = "failed"]
    /\ UNCHANGED <<aborted, control, cancelled>>

\* The run of a worker is over; one that was told to stop does not complete.
WorkerEnds(n, k, h, outcome) ==
    /\ Active(n, k, h) /\ outcome \in Ended
    /\ child[n][k][h] = "stopping" => outcome = "failed"
    /\ child' = [child EXCEPT ![n][k][h] = outcome]
    /\ UNCHANGED <<aborted, control, cancelled>>

AllEnded(n, k) == \A h \in Handle : child[n][k][h] \in Ended
AllCompleted(n, k) == \A h \in Handle : child[n][k][h] = "completed"

\* Defect: the work of an attempt that was cancelled still decides.
WorkDoneLate(n, k, retryable) ==
    /\ phase[n] \in {"attempting", "over"} /\ k <= attempt[n] /\ AllEnded(n, k)
    /\ IF AllCompleted(n, k) THEN Settle(n, "completed") ELSE AttemptFails(n, retryable)
    /\ UNCHANGED <<aborted, cancelled, child>>

\* Defect: one completed worker is enough.
WorkDoneByAny(n, k, retryable) ==
    /\ phase[n] = "attempting" /\ k = attempt[n] /\ AllEnded(n, k)
    /\ IF \E h \in Handle : child[n][k][h] = "completed"
       THEN Settle(n, "completed") ELSE AttemptFails(n, retryable)
    /\ UNCHANGED <<aborted, cancelled, child>>

\* runNodeWork returns while its attempt is still undecided; what it returns
\* later is dropped by waitForPromise.
WorkDone(n, k, retryable) ==
    /\ phase[n] = "attempting" /\ k = attempt[n] /\ AllEnded(n, k)
    /\ IF AllCompleted(n, k) THEN Settle(n, "completed") ELSE AttemptFails(n, retryable)
    /\ UNCHANGED <<aborted, cancelled, child>>

-----------------------------------------------------------------------------
(* Cancellation.                                                           *)

Stopped(n, k, h) ==
    IF child[n][k][h] = "running" THEN "stopping" ELSE child[n][k][h]

\* Defect: the timer covers the wait for the workers only.
TimeoutOfWait(n) ==
    /\ n \in Timed /\ phase[n] = "attempting"
    /\ \A h \in Handle : child[n][attempt[n]][h] # "spawning"
    /\ cancelled' = cancelled \cup {<<n, attempt[n]>>}
    /\ child' = [child EXCEPT ![n][attempt[n]] = [h \in Handle |-> Stopped(n, attempt[n], h)]]
    /\ AttemptFails(n, TRUE)
    /\ UNCHANGED aborted

\* The timer of waitForPromise: cancel() stops the workers known so far, and
\* the attempt fails with an error that may be retried.
Timeout(n) ==
    /\ n \in Timed /\ phase[n] = "attempting"
    /\ cancelled' = cancelled \cup {<<n, attempt[n]>>}
    /\ child' = [child EXCEPT ![n][attempt[n]] = [h \in Handle |-> Stopped(n, attempt[n], h)]]
    /\ AttemptFails(n, TRUE)
    /\ UNCHANGED aborted

Attempting == {n \in Node : phase[n] = "attempting"}

\* Defect: onAbort stops the workers and leaves the promise to them.
CallerAbortsPolitely ==
    /\ ~aborted /\ aborted' = TRUE
    /\ cancelled' = cancelled \cup {<<n, attempt[n]>> : n \in Attempting}
    /\ child' = [n \in Node |-> [k \in Attempt |-> [h \in Handle |-> Stopped(n, k, h)]]]
    /\ UNCHANGED control

\* The caller's signal: its listeners cancel every undecided attempt, which
\* fails for good, and reach every worker, for the service got the signal too.
CallerAborts ==
    /\ ~aborted /\ aborted' = TRUE
    /\ cancelled' = cancelled \cup {<<n, attempt[n]>> : n \in Attempting}
    /\ child' = [n \in Node |-> [k \in Attempt |-> [h \in Handle |-> Stopped(n, k, h)]]]
    /\ phase' = [n \in Node |-> IF n \in Attempting THEN "over" ELSE phase[n]]
    /\ result' = [n \in Node |-> IF n \in Attempting THEN "failed" ELSE result[n]]
    /\ lease' = IF lease \in Attempting THEN None ELSE lease
    /\ UNCHANGED attempt

-----------------------------------------------------------------------------
NodeStep(n) ==
    \/ BackoffEnds(n) \/ Timeout(n)
    \/ \E k \in Attempt, retryable \in BOOLEAN : WorkDone(n, k, retryable)

WorkerStep(n, k, h) ==
    \/ SpawnReturns(n, k, h) \/ SpawnFails(n, k, h)
    \/ \E outcome \in Ended : WorkerEnds(n, k, h, outcome)

Next ==
    \/ CallerAborts
    \/ \E n \in Node : Launch(n) \/ NodeStep(n)
    \/ \E n \in Node, k \in Attempt, h \in Handle : WorkerStep(n, k, h)

Spec == Init /\ [][Next]_vars

\* Timers fire and promises that are resolved continue.  Nothing is assumed of
\* the workers: a spawn may never return and a run may never end.
FairSpec == Spec /\ \A n \in Node : WF_vars(NodeStep(n))

-----------------------------------------------------------------------------
(* Properties.                                                             *)

\* The types of the executor's variables.
TypeOK ==
    /\ aborted \in BOOLEAN
    /\ lease \in Node \cup {None}
    /\ phase \in [Node -> Phases]
    /\ attempt \in [Node -> 0..MaxAttempts]
    /\ result \in [Node -> {"none", "completed", "failed"}]
    /\ cancelled \subseteq Node \X Attempt
    /\ child \in [Node -> [Attempt -> [Handle -> ChildStates]]]

\* Whoever works without having been told to stop works for the attempt in
\* progress of the node that holds the lease, and for a caller that has not
\* aborted: a timeout, an abort, a retry and a spawn that returns after any of
\* them leave no worker that nobody stops.
NoStrayWorker ==
    \A n \in Node, k \in Attempt, h \in Handle :
        child[n][k][h] = "running" =>
            ~aborted /\ lease = n /\ phase[n] = "attempting" /\ k = attempt[n]

\* A node completes by the work of every worker of its last attempt, and not by
\* what an attempt that was cancelled before delivers late.
CompletedByItsOwnWork ==
    \A n \in Node : result[n] = "completed" =>
        AllCompleted(n, attempt[n]) /\ <<n, attempt[n]>> \notin cancelled

\* A node settles once, whatever its workers deliver afterwards.
SettlesOnce ==
    [][\A n \in Node : result[n] # "none" =>
          result'[n] = result[n] /\ phase'[n] = "over" /\ attempt'[n] = attempt[n]]_vars

\* No attempt begins for a caller that has aborted, not even one that the
\* backoff of the attempt before had scheduled.
NoAttemptAfterAbort ==
    [][aborted => \A n \in Node : attempt'[n] = attempt[n]]_vars

\* A node with a timeout settles although a spawn never returns and a worker
\* never ends.
TimedNodeSettles ==
    \A n \in Timed : phase[n] = "attempting" ~> phase[n] = "over"

\* After an abort no node stays in flight, with or without a timeout.
AbortEndsNodes ==
    aborted ~> \A n \in Node : phase[n] \in {"queued", "over"}

\* Two workers of different nodes never work in the scope at the same time.
OneWriterPerScope ==
    \A n, m \in Node : n # m =>
        ~ \E k, l \in Attempt, h, g \in Handle : Active(n, k, h) /\ Active(m, l, g)
=============================================================================
