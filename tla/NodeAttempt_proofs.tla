------------------------- MODULE NodeAttempt_proofs -------------------------
(***************************************************************************)
(* Proofs about NodeAttempt, for any nodes, workers per attempt, number of *)
(* attempts and timeouts: no worker strays, a node completes by its own    *)
(* work, and settles once.                                                 *)
(***************************************************************************)
EXTENDS NodeAttempt, TLAPS

\* Attempt k of node n is the one in progress.
Current(n, k) == lease = n /\ phase[n] = "attempting" /\ k = attempt[n]

\* The lease is with the node in flight; a node that is over has its result; a
\* node begins with no attempt made and backs off with attempts left.
ControlInv ==
    \A n \in Node :
        /\ phase[n] \in {"attempting", "backoff"} <=> lease = n
        /\ phase[n] = "over" <=> result[n] # "none"
        /\ phase[n] = "queued" => attempt[n] = 0
        /\ phase[n] # "queued" => attempt[n] \in Attempt
        /\ phase[n] = "attempting" => ~aborted
        /\ phase[n] = "backoff" => attempt[n] < MaxAttempts

\* What was cancelled has begun and is not in progress; what is spawned and was
\* not cancelled is.
CancelInv ==
    /\ \A n \in Node, k \in Attempt : <<n, k>> \in cancelled =>
          k <= attempt[n] /\ ~Current(n, k)
    /\ \A n \in Node, k \in Attempt, h \in Handle :
          child[n][k][h] = "spawning" /\ <<n, k>> \notin cancelled => Current(n, k)

IInv == TypeOK /\ ControlInv /\ CancelInv /\ NoStrayWorker /\ CompletedByItsOwnWork

-----------------------------------------------------------------------------
\* The invariant holds before the first step.
LEMMA InitInv == Init => IInv
<1> SUFFICES ASSUME Init PROVE IInv
  OBVIOUS
<1>1. TypeOK
  <2>1. child \in [Node -> [Attempt -> [Handle -> ChildStates]]]
    BY DEF Init, ChildStates
  <2>2. attempt \in [Node -> 0..MaxAttempts]
    BY AttemptAssumption DEF Init
  <2>3. QED
    BY <2>1, <2>2 DEF Init, TypeOK, Phases
<1>2. ControlInv
  BY AttemptAssumption DEF Init, ControlInv
<1>3. CancelInv /\ NoStrayWorker /\ CompletedByItsOwnWork
  BY DEF Init, CancelInv, NoStrayWorker, CompletedByItsOwnWork
<1>4. QED
  BY <1>1, <1>2, <1>3 DEF IInv

\* A new attempt of the node that holds the lease keeps the invariant.
LEMMA BeginKeepsInv ==
    ASSUME IInv, NEW n \in Node, BeginAttempt(n), ~aborted, UNCHANGED <<aborted, cancelled, result>>,
           phase[n] \in {"queued", "backoff"}, lease' = n,
           \A m \in Node : m # n => lease # m
    PROVE  IInv'
<1>1. /\ attempt[n] \in Nat /\ attempt[n] + 1 \in Attempt
      /\ attempt[n] + 1 \in 0..MaxAttempts
  BY AttemptAssumption DEF IInv, TypeOK, ControlInv, Attempt
<1>2. /\ phase' = [phase EXCEPT ![n] = "attempting"]
      /\ attempt' = [attempt EXCEPT ![n] = attempt[n] + 1]
  BY DEF BeginAttempt
<1>3. child' = [child EXCEPT ![n][attempt[n] + 1] = [h \in Handle |-> "spawning"]]
  BY DEF BeginAttempt
<1>4. \A m \in Node, k \in Attempt, h \in Handle :
        child'[m][k][h] = IF m = n /\ k = attempt[n] + 1 THEN "spawning" ELSE child[m][k][h]
  BY <1>1, <1>3 DEF IInv, TypeOK
<1>5. TypeOK'
  <2>1. child' \in [Node -> [Attempt -> [Handle -> ChildStates]]]
    BY <1>1, <1>3 DEF IInv, TypeOK, ChildStates
  <2>2. QED
    BY <1>1, <1>2, <2>1 DEF IInv, TypeOK, Phases
<1>6. ControlInv'
  BY <1>1, <1>2 DEF IInv, TypeOK, ControlInv
<1>7. CancelInv'
  <2>1. \A m \in Node, k \in Attempt :
          /\ m # n => (Current(m, k)' <=> Current(m, k)) /\ attempt'[m] = attempt[m]
          /\ Current(n, k)' <=> k = attempt[n] + 1
          /\ ~Current(n, k)
    BY <1>1, <1>2 DEF IInv, TypeOK, Current
  <2>2. \A m \in Node, k \in Attempt : <<m, k>> \in cancelled' =>
          k <= attempt'[m] /\ ~Current(m, k)'
    BY <1>1, <1>2, <2>1 DEF IInv, TypeOK, CancelInv, Attempt
  <2>3. \A m \in Node, k \in Attempt, h \in Handle :
          child'[m][k][h] = "spawning" /\ <<m, k>> \notin cancelled' => Current(m, k)'
    BY <1>4, <2>1 DEF IInv, CancelInv
  <2>4. QED
    BY <2>2, <2>3 DEF CancelInv
<1>8. NoStrayWorker'
  BY <1>1, <1>2, <1>4 DEF IInv, TypeOK, ControlInv, NoStrayWorker
<1>9. CompletedByItsOwnWork'
  <2> SUFFICES ASSUME NEW m \in Node, result'[m] = "completed"
               PROVE  AllCompleted(m, attempt[m])' /\ <<m, attempt[m]>>' \notin cancelled'
    BY DEF CompletedByItsOwnWork
  <2>1. /\ m # n /\ attempt'[m] = attempt[m] /\ attempt[m] \in Attempt
        /\ AllCompleted(m, attempt[m]) /\ <<m, attempt[m]>> \notin cancelled
    BY <1>2 DEF IInv, TypeOK, ControlInv, CompletedByItsOwnWork
  <2>2. \A h \in Handle : child'[m][attempt[m]][h] = child[m][attempt[m]][h]
    BY <2>1, <1>4
  <2>3. QED
    BY <2>1, <2>2 DEF AllCompleted
<1>10. QED
  BY <1>5, <1>6, <1>7, <1>8, <1>9 DEF IInv

\* An attempt that is decided, with no worker left running for it and no spawn
\* pending that was not cancelled, keeps the invariant, whether the node backs
\* off or settles.
LEMMA DecisionKeepsInv ==
    ASSUME IInv, NEW n \in Node, phase[n] \in {"attempting", "backoff"},
           UNCHANGED aborted,
           TypeOK',
           \A m \in Node, k \in Attempt : <<m, k>> \in cancelled' =>
               <<m, k>> \in cancelled \/ (m = n /\ k = attempt[n]),
           cancelled \subseteq cancelled',
           \A m \in Node, k \in Attempt, h \in Handle :
               \/ child'[m][k][h] = child[m][k][h]
               \/ m = n /\ k = attempt[n] /\ child'[m][k][h] = "stopping",
           \A h \in Handle : attempt[n] \in Attempt =>
               /\ child'[n][attempt[n]][h] # "running"
               /\ child'[n][attempt[n]][h] = "spawning" => <<n, attempt[n]>> \in cancelled',
           \/ /\ phase' = [phase EXCEPT ![n] = "backoff"]
              /\ attempt[n] < MaxAttempts
              /\ UNCHANGED <<lease, attempt, result>>
           \/ Settle(n, "failed")
           \/ /\ Settle(n, "completed") /\ AllCompleted(n, attempt[n])
              /\ phase[n] = "attempting" /\ UNCHANGED <<cancelled, child>>
    PROVE  IInv'
<1>1. /\ phase \in [Node -> Phases] /\ result \in [Node -> {"none", "completed", "failed"}]
      /\ attempt' = attempt
      /\ lease = n /\ lease' \in {n, None} /\ None \notin Node
      /\ \A m \in Node : m # n => phase'[m] = phase[m] /\ result'[m] = result[m]
      /\ phase'[n] \in {"backoff", "over"}
      /\ phase'[n] = "backoff" <=> lease' = n
      /\ phase'[n] = "over" <=> result'[n] # "none"
      /\ phase'[n] = "backoff" => attempt[n] < MaxAttempts
  BY AttemptAssumption DEF IInv, TypeOK, ControlInv, Settle
<1>2. \A m \in Node, k \in Attempt : Current(m, k) => m = n /\ k = attempt[n]
  BY <1>1 DEF Current
<1>3. ControlInv'
  BY <1>1 DEF IInv, ControlInv
<1>4. CancelInv'
  <2>1. \A m \in Node, k \in Attempt : Current(m, k)' <=> Current(m, k) /\ m # n
    BY <1>1, <1>2 DEF Current
  <2>2. \A m \in Node, k \in Attempt : <<m, k>> \in cancelled' =>
          k <= attempt'[m] /\ ~Current(m, k)'
    BY <1>1, <1>2, <2>1 DEF IInv, TypeOK, CancelInv, Attempt
  <2>3. \A m \in Node, k \in Attempt, h \in Handle :
          child'[m][k][h] = "spawning" /\ <<m, k>> \notin cancelled' => Current(m, k)'
    <3> SUFFICES ASSUME NEW m \in Node, NEW k \in Attempt, NEW h \in Handle,
                        child'[m][k][h] = "spawning", <<m, k>> \notin cancelled'
                 PROVE  FALSE
      OBVIOUS
    <3>1. child[m][k][h] = "spawning" /\ <<m, k>> \notin cancelled
      OBVIOUS
    <3>2. m = n /\ k = attempt[n]
      BY <3>1, <1>2 DEF IInv, CancelInv
    <3>3. QED
      BY <3>2
  <2>4. QED
    BY <2>2, <2>3 DEF CancelInv
<1>5. NoStrayWorker'
  BY <1>1 DEF IInv, NoStrayWorker
<1>6. CompletedByItsOwnWork'
  <2> SUFFICES ASSUME NEW m \in Node, result'[m] = "completed"
               PROVE  AllCompleted(m, attempt[m])' /\ <<m, attempt[m]>> \notin cancelled'
    BY <1>1 DEF CompletedByItsOwnWork
  <2>1. CASE m = n
    <3>1. /\ AllCompleted(n, attempt[n]) /\ phase[n] = "attempting"
          /\ cancelled' = cancelled /\ child' = child
      BY <2>1, <1>1 DEF Settle, IInv, ControlInv
    <3>2. attempt[n] \in Attempt /\ Current(n, attempt[n])
      BY <3>1, <1>1 DEF IInv, TypeOK, ControlInv, Current, Attempt
    <3>3. QED
      BY <2>1, <3>1, <3>2, <1>1 DEF IInv, CancelInv, AllCompleted
  <2>2. CASE m # n
    <3>1. AllCompleted(m, attempt[m]) /\ <<m, attempt[m]>> \notin cancelled /\ phase[m] = "over"
      BY <2>2, <1>1 DEF IInv, CompletedByItsOwnWork, ControlInv
    <3>2. cancelled' \subseteq Node \X Attempt
      BY DEF TypeOK
    <3>3. <<m, attempt[m]>> \notin cancelled'
      BY <2>2, <3>1, <3>2
    <3>4. AllCompleted(m, attempt[m])'
      <4>1. attempt[m] \in Attempt /\ attempt'[m] = attempt[m]
        BY <3>1, <1>1 DEF IInv, ControlInv
      <4>2. \A h \in Handle : child'[m][attempt[m]][h] = child[m][attempt[m]][h]
        BY <2>2, <4>1
      <4>3. QED
        BY <3>1, <4>1, <4>2 DEF AllCompleted
    <3>5. QED
      BY <3>3, <3>4, <1>1
  <2>3. QED
    BY <2>1, <2>2
<1>7. QED
  BY <1>3, <1>4, <1>5, <1>6 DEF IInv

\* The steps of a worker and of the promise of its spawn keep the invariant.
LEMMA WorkerKeepsInv ==
    ASSUME IInv, NEW n \in Node, NEW k \in Attempt, NEW h \in Handle, WorkerStep(n, k, h)
    PROVE  IInv'
<1>1. PICK s \in {"running", "stopping", "completed", "failed"} :
        /\ child' = [child EXCEPT ![n][k][h] = s]
        /\ child[n][k][h] \in {"spawning", "running", "stopping"}
        /\ s = "running" =>
              child[n][k][h] = "spawning" /\ ~aborted /\ <<n, k>> \notin cancelled
        /\ UNCHANGED <<aborted, control, cancelled>>
  BY DEF WorkerStep, SpawnReturns, SpawnFails, WorkerEnds, Active, Ended
<1>2. \A m \in Node, l \in Attempt, g \in Handle :
        child'[m][l][g] = IF m = n /\ l = k /\ g = h THEN s ELSE child[m][l][g]
  BY <1>1 DEF IInv, TypeOK
<1>3. TypeOK'
  <2>1. child' \in [Node -> [Attempt -> [Handle -> ChildStates]]]
    BY <1>1 DEF IInv, TypeOK, ChildStates
  <2>2. QED
    BY <1>1, <2>1 DEF IInv, TypeOK, control
<1>4. ControlInv'
  BY <1>1 DEF IInv, ControlInv, control
<1>5. CancelInv'
  BY <1>1, <1>2 DEF IInv, CancelInv, Current, control
<1>6. NoStrayWorker'
  BY <1>1, <1>2 DEF IInv, CancelInv, Current, NoStrayWorker, control
<1>7. CompletedByItsOwnWork'
  <2> SUFFICES ASSUME NEW m \in Node, result'[m] = "completed"
               PROVE  AllCompleted(m, attempt[m])' /\ <<m, attempt[m]>>' \notin cancelled'
    BY DEF CompletedByItsOwnWork
  <2>1. /\ attempt'[m] = attempt[m] /\ attempt[m] \in Attempt
        /\ AllCompleted(m, attempt[m]) /\ <<m, attempt[m]>> \notin cancelled
        /\ cancelled' = cancelled
    BY <1>1 DEF IInv, ControlInv, CompletedByItsOwnWork, control
  <2>2. \A g \in Handle : child'[m][attempt[m]][g] = child[m][attempt[m]][g]
    BY <1>1, <1>2, <2>1 DEF AllCompleted
  <2>3. QED
    BY <2>1, <2>2 DEF AllCompleted
<1>8. QED
  BY <1>3, <1>4, <1>5, <1>6, <1>7 DEF IInv

\* Every step of a node keeps the invariant.
LEMMA NodeKeepsInv ==
    ASSUME IInv, NEW n \in Node, NodeStep(n)
    PROVE  IInv'
<1>t. /\ TypeOK /\ attempt[n] \in 0..MaxAttempts
      /\ phase[n] # "queued" => attempt[n] \in Attempt
      /\ lease \in Node \cup {None}
  BY DEF IInv, TypeOK, ControlInv
<1>1. CASE BackoffEnds(n)
  <2>1. phase[n] = "backoff" /\ lease = n
    BY <1>1 DEF BackoffEnds, IInv, ControlInv
  <2>2. CASE aborted
    <3>1. Settle(n, "failed") /\ UNCHANGED <<aborted, cancelled, child>>
      BY <1>1, <2>2 DEF BackoffEnds
    <3>2. TypeOK'
      BY <3>1, <1>t DEF TypeOK, Settle, Phases
    <3>3. \A h \in Handle :
            child[n][attempt[n]][h] # "running" /\
            (child[n][attempt[n]][h] = "spawning" => <<n, attempt[n]>> \in cancelled)
      BY <2>1, <1>t DEF IInv, CancelInv, NoStrayWorker, Current
    <3>4. QED
      BY <2>1, <3>1, <3>2, <3>3, DecisionKeepsInv
  <2>3. CASE ~aborted
    <3>1. BeginAttempt(n) /\ UNCHANGED <<aborted, lease, result, cancelled>>
      BY <1>1, <2>3 DEF BackoffEnds
    <3>2. QED
      BY <2>1, <2>3, <3>1, BeginKeepsInv
  <2>4. QED
    BY <2>2, <2>3
<1>2. CASE Timeout(n)
  <2>1. /\ phase[n] = "attempting" /\ attempt[n] \in Attempt
        /\ cancelled' = cancelled \cup {<<n, attempt[n]>>}
        /\ child' = [child EXCEPT ![n][attempt[n]] =
                       [h \in Handle |-> Stopped(n, attempt[n], h)]]
        /\ AttemptFails(n, TRUE) /\ UNCHANGED aborted
    BY <1>2, <1>t DEF Timeout
  <2>2. \A m \in Node, k \in Attempt, h \in Handle :
          child'[m][k][h] = IF m = n /\ k = attempt[n] /\ child[m][k][h] = "running"
                            THEN "stopping" ELSE child[m][k][h]
    BY <2>1, <1>t DEF TypeOK, Stopped
  <2>3. TypeOK'
    <3>1. child' \in [Node -> [Attempt -> [Handle -> ChildStates]]]
      BY <2>1, <1>t DEF TypeOK, Stopped, ChildStates
    <3>2. cancelled' \subseteq Node \X Attempt
      BY <2>1, <1>t DEF TypeOK
    <3>3. QED
      BY <2>1, <3>1, <3>2, <1>t DEF TypeOK, AttemptFails, Settle, Phases
  <2>4. \/ /\ phase' = [phase EXCEPT ![n] = "backoff"]
           /\ attempt[n] < MaxAttempts
           /\ UNCHANGED <<lease, attempt, result>>
        \/ Settle(n, "failed")
    BY <2>1 DEF AttemptFails
  <2>5. /\ \A m \in Node, k \in Attempt : <<m, k>> \in cancelled' =>
              <<m, k>> \in cancelled \/ (m = n /\ k = attempt[n])
        /\ cancelled \subseteq cancelled'
        /\ <<n, attempt[n]>> \in cancelled'
    BY <2>1
  <2>6. \A m \in Node, k \in Attempt, h \in Handle :
          \/ child'[m][k][h] = child[m][k][h]
          \/ m = n /\ k = attempt[n] /\ child'[m][k][h] = "stopping"
    BY <2>2
  <2>7. \A h \in Handle : child'[n][attempt[n]][h] # "running"
    BY <2>1, <2>2
  <2>8. QED
    BY <2>1, <2>3, <2>4, <2>5, <2>6, <2>7, DecisionKeepsInv
<1>3. ASSUME NEW k \in Attempt, NEW retryable \in BOOLEAN, WorkDone(n, k, retryable)
      PROVE  IInv'
  <2>1. /\ phase[n] = "attempting" /\ k = attempt[n] /\ AllEnded(n, k)
        /\ UNCHANGED <<aborted, cancelled, child>>
    BY <1>3 DEF WorkDone
  <2>2. \/ /\ phase' = [phase EXCEPT ![n] = "backoff"]
           /\ attempt[n] < MaxAttempts
           /\ UNCHANGED <<lease, attempt, result>>
        \/ Settle(n, "failed")
        \/ Settle(n, "completed") /\ AllCompleted(n, attempt[n])
    BY <1>3, <2>1 DEF WorkDone, AttemptFails
  <2>3. TypeOK'
    BY <2>1, <2>2, <1>t DEF TypeOK, Settle, Phases
  <2>4. QED
    BY <2>1, <2>2, <2>3, DecisionKeepsInv DEF AllEnded, Ended
<1>4. QED
  BY <1>1, <1>2, <1>3 DEF NodeStep

\* The signal of the caller keeps the invariant.
LEMMA AbortKeepsInv ==
    ASSUME IInv, CallerAborts
    PROVE  IInv'
<1>1. /\ aborted' = TRUE /\ attempt' = attempt
      /\ cancelled' = cancelled \cup {<<n, attempt[n]>> : n \in Attempting}
      /\ phase' = [n \in Node |-> IF n \in Attempting THEN "over" ELSE phase[n]]
      /\ result' = [n \in Node |-> IF n \in Attempting THEN "failed" ELSE result[n]]
      /\ lease' = IF lease \in Attempting THEN None ELSE lease
      /\ child' = [n \in Node |-> [k \in Attempt |-> [h \in Handle |-> Stopped(n, k, h)]]]
  BY DEF CallerAborts
<1>2. /\ \A n \in Attempting : n \in Node /\ attempt[n] \in Attempt /\ lease = n
      /\ \A n \in Node : n \in Attempting <=> phase[n] = "attempting"
  BY DEF Attempting, IInv, ControlInv
<1>3. \A n \in Node, k \in Attempt, h \in Handle :
        child'[n][k][h] = IF child[n][k][h] = "running" THEN "stopping" ELSE child[n][k][h]
  BY <1>1 DEF Stopped
<1>4. TypeOK'
  <2>1. child' \in [Node -> [Attempt -> [Handle -> ChildStates]]]
    <3>1. \A n \in Node, k \in Attempt, h \in Handle : Stopped(n, k, h) \in ChildStates
      BY DEF IInv, TypeOK, Stopped, ChildStates
    <3>2. QED
      BY <1>1, <3>1
  <2>2. cancelled' \subseteq Node \X Attempt
    BY <1>1, <1>2 DEF IInv, TypeOK
  <2>3. QED
    BY <1>1, <2>1, <2>2 DEF IInv, TypeOK, Phases
<1>5. ControlInv'
  BY <1>1, <1>2, AttemptAssumption DEF IInv, TypeOK, ControlInv
<1>6. CancelInv'
  <2>1. \A n \in Node, k \in Attempt : ~Current(n, k)'
    BY <1>1, <1>2 DEF Current
  <2>2. \A n \in Node, k \in Attempt : <<n, k>> \in cancelled' => k <= attempt'[n]
    BY <1>1, <1>2 DEF IInv, TypeOK, CancelInv, Attempt
  <2>3. \A n \in Node, k \in Attempt, h \in Handle :
          child'[n][k][h] = "spawning" => <<n, k>> \in cancelled'
    <3> SUFFICES ASSUME NEW n \in Node, NEW k \in Attempt, NEW h \in Handle,
                        child'[n][k][h] = "spawning", <<n, k>> \notin cancelled'
                 PROVE  FALSE
      OBVIOUS
    <3>1. child[n][k][h] = "spawning" /\ <<n, k>> \notin cancelled
      BY <1>1, <1>3
    <3>2. n \in Attempting /\ k = attempt[n]
      BY <3>1, <1>2 DEF IInv, CancelInv, Current
    <3>3. QED
      BY <3>2, <1>1
  <2>4. QED
    BY <2>1, <2>2, <2>3 DEF CancelInv
<1>7. NoStrayWorker'
  BY <1>3 DEF NoStrayWorker
<1>8. CompletedByItsOwnWork'
  <2> SUFFICES ASSUME NEW n \in Node, result'[n] = "completed"
               PROVE  AllCompleted(n, attempt[n])' /\ <<n, attempt[n]>>' \notin cancelled'
    BY DEF CompletedByItsOwnWork
  <2>1. /\ n \notin Attempting /\ attempt[n] \in Attempt
        /\ AllCompleted(n, attempt[n]) /\ <<n, attempt[n]>> \notin cancelled
    BY <1>1, <1>2 DEF IInv, ControlInv, CompletedByItsOwnWork
  <2>2. AllCompleted(n, attempt[n])'
    BY <1>1, <1>3, <2>1 DEF AllCompleted
  <2>3. QED
    BY <1>1, <2>1, <2>2
<1>9. QED
  BY <1>4, <1>5, <1>6, <1>7, <1>8 DEF IInv

\* The invariant is inductive.
LEMMA NextKeepsInv == IInv /\ [Next]_vars => IInv'
<1> SUFFICES ASSUME IInv, [Next]_vars PROVE IInv'
  OBVIOUS
<1>1. CASE CallerAborts
  BY <1>1, AbortKeepsInv
<1>2. ASSUME NEW n \in Node, Launch(n) PROVE IInv'
  <2>1. /\ ~aborted /\ phase[n] = "queued" /\ lease = None /\ lease' = n
        /\ BeginAttempt(n) /\ UNCHANGED <<aborted, result, cancelled>>
    BY <1>2 DEF Launch
  <2>2. \A m \in Node : m # n => lease # m
    BY <2>1, AttemptAssumption
  <2>3. QED
    BY <2>1, <2>2, BeginKeepsInv
<1>3. ASSUME NEW n \in Node, NodeStep(n) PROVE IInv'
  BY <1>3, NodeKeepsInv
<1>4. ASSUME NEW n \in Node, NEW k \in Attempt, NEW h \in Handle, WorkerStep(n, k, h)
      PROVE  IInv'
  BY <1>4, WorkerKeepsInv
<1>5. CASE UNCHANGED vars
  <2>1. TypeOK' /\ ControlInv' /\ NoStrayWorker' /\ CompletedByItsOwnWork'
    <3>1. UNCHANGED <<aborted, lease, phase, attempt, result, cancelled, child>>
      BY <1>5 DEF vars, control
    <3>2. TypeOK'
      BY <3>1 DEF IInv, TypeOK
    <3>3. ControlInv'
      BY <3>1 DEF IInv, ControlInv
    <3>4. NoStrayWorker'
      BY <3>1 DEF IInv, NoStrayWorker
    <3>5. CompletedByItsOwnWork'
      BY <3>1 DEF IInv, CompletedByItsOwnWork, AllCompleted
    <3>6. QED
      BY <3>2, <3>3, <3>4, <3>5
  <2>2. CancelInv'
    BY <1>5 DEF IInv, CancelInv, Current, vars, control
  <2>3. QED
    BY <2>1, <2>2 DEF IInv
<1>6. QED
  BY <1>1, <1>2, <1>3, <1>4, <1>5 DEF Next

\* The invariant holds in every reachable state.
LEMMA InvHolds == Spec => []IInv
<1>1. QED
  BY InitInv, NextKeepsInv, PTL DEF Spec

-----------------------------------------------------------------------------
\* Type correctness of the executor's variables.
THEOREM TypeCorrect == Spec => []TypeOK
<1>1. IInv => TypeOK
  BY DEF IInv
<1>2. QED
  BY <1>1, InvHolds, PTL

\* Through every order of timeouts, aborts, retries and late spawns, a worker
\* that was not told to stop works for the attempt in progress of the node that
\* holds the lease.
THEOREM WorkersAreContained == Spec => []NoStrayWorker
<1>1. IInv => NoStrayWorker
  BY DEF IInv
<1>2. QED
  BY <1>1, InvHolds, PTL

\* A completed node was completed by all workers of its last attempt, which
\* nothing had cancelled.
THEOREM CompletionIsOwn == Spec => []CompletedByItsOwnWork
<1>1. IInv => CompletedByItsOwnWork
  BY DEF IInv
<1>2. QED
  BY <1>1, InvHolds, PTL

\* A node settles once.
THEOREM ResultIsFinal == Spec => SettlesOnce
<1> DEFINE Kept == \A n \in Node : result[n] # "none" =>
                     result'[n] = result[n] /\ phase'[n] = "over" /\ attempt'[n] = attempt[n]
<1>1. ASSUME IInv, [Next]_vars PROVE [Kept]_vars
  <2> SUFFICES ASSUME NEW n \in Node, result[n] # "none", Next
               PROVE  result'[n] = result[n] /\ phase'[n] = "over" /\ attempt'[n] = attempt[n]
    BY <1>1
  <2>1. phase[n] = "over" /\ phase \in [Node -> Phases] /\ attempt \in [Node -> 0..MaxAttempts]
        /\ result \in [Node -> {"none", "completed", "failed"}]
    BY <1>1 DEF IInv, TypeOK, ControlInv
  <2>2. CASE CallerAborts
    BY <2>1, <2>2 DEF CallerAborts, Attempting
  <2>3. ASSUME NEW m \in Node, Launch(m) \/ NodeStep(m)
        PROVE  result'[n] = result[n] /\ phase'[n] = "over" /\ attempt'[n] = attempt[n]
    BY <2>1, <2>3 DEF Launch, NodeStep, BackoffEnds, Timeout, WorkDone,
                      BeginAttempt, AttemptFails, Settle
  <2>4. ASSUME NEW m \in Node, NEW k \in Attempt, NEW h \in Handle, WorkerStep(m, k, h)
        PROVE  result'[n] = result[n] /\ phase'[n] = "over" /\ attempt'[n] = attempt[n]
    BY <2>1, <2>4 DEF WorkerStep, SpawnReturns, SpawnFails, WorkerEnds, control
  <2>5. QED
    BY <2>2, <2>3, <2>4 DEF Next
<1>2. QED
  BY <1>1, InvHolds, PTL DEF Spec, SettlesOnce

\* No attempt begins for a caller that has aborted.
THEOREM AbortedRunsNoMore == Spec => NoAttemptAfterAbort
<1>1. [Next]_vars => [aborted => \A n \in Node : attempt'[n] = attempt[n]]_vars
  BY DEF Next, Launch, NodeStep, WorkerStep, BackoffEnds, Timeout, WorkDone, CallerAborts,
         SpawnReturns, SpawnFails, WorkerEnds, AttemptFails, Settle, vars, control
<1>2. QED
  BY <1>1, PTL DEF Spec, NoAttemptAfterAbort
=============================================================================
