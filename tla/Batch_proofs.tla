----------------------------- MODULE Batch_proofs -----------------------------
(***************************************************************************)
(* The pool of Batch, for every manifest, overlap of scopes and limit.     *)
(*                                                                         *)
(* The pool never throws because whatever a pass leaves behind waits for   *)
(* the lease of an active task (WaitInv); a call accounts for its tasks    *)
(* because each selected one is at all times pending, active or has a      *)
(* result of its attempt (AccountInv).                                     *)
(***************************************************************************)
EXTENDS Batch, FiniteSetTheorems, TLAPS

PoolInv ==
    /\ leases = active
    /\ IsFiniteSet(active)
    /\ Cardinality(active) <= maxConcurrent
    /\ \A t, u \in active : t # u => <<t, u>> \notin Overlap
    /\ left \subseteq pending
    /\ ended \subseteq active

\* A task the pass has left behind overlaps with one that is active.
WaitInv ==
    /\ pc # "thrown"
    /\ pc = "pass" => \A t \in pending \ left : \E holder \in leases : <<t, holder>> \in Overlap

\* Nothing is pending or active between calls, and nothing selected is lost.
AccountInv ==
    /\ pc = "idle" => /\ pending = {} /\ active = {} /\ current = <<>>
                      /\ attempt = <<>> /\ prior = <<>> /\ manifest = {}
    /\ DOMAIN attempt = pending \cup active \cup DOMAIN current
    /\ DOMAIN attempt \cup DOMAIN prior \subseteq manifest
    /\ \A t \in DOMAIN current : current[t].attempt = attempt[t]

Statuses == {"completed", "failed", "cancelled"}
Sound(found) == \A t \in DOMAIN found : found[t].status \in Statuses
KindInv ==
    /\ Sound(current) /\ Sound(prior) /\ Sound(results)
    /\ IsFiniteSet(manifest)

IInv == PoolInv /\ WaitInv /\ AccountInv /\ KindInv

-----------------------------------------------------------------------------
\* No task, no result.
LEMMA NoResults == DOMAIN <<>> = {}
OBVIOUS

\* Before the first call.
LEMMA InitHolds == Init => IInv
<1> SUFFICES ASSUME Init PROVE IInv
  OBVIOUS
<1>1. PoolInv
  BY FS_EmptySet, BatchAssumption DEF Init, PoolInv
<1>2. WaitInv /\ AccountInv
  BY NoResults DEF Init, WaitInv, AccountInv
<1>3. KindInv
  BY NoResults, FS_EmptySet DEF Init, KindInv, Sound
<1>4. QED
  BY <1>1, <1>2, <1>3 DEF IInv

\* A call starts from what the last one left.
LEMMA CallKeeps ==
    ASSUME IInv, NEW submitted \in Manifests, NEW failedOnly \in BOOLEAN,
           Call(submitted, failedOnly)
    PROVE  IInv'
<1> USE DEF IInv
<1>1. /\ pending = {} /\ active = {} /\ current = <<>> /\ left = {} /\ pc' = "head"
      /\ UNCHANGED <<left, active, leases, ended, current, results>>
      /\ pending' = DOMAIN attempt' /\ manifest' = submitted
  BY DEF Call, AccountInv, PoolInv
<1>2. PoolInv' /\ WaitInv'
  BY <1>1 DEF PoolInv, WaitInv
<1>3. DOMAIN attempt' \cup DOMAIN prior' \subseteq submitted
  <2>1. CASE failedOnly
    BY <2>1 DEF Call, Failed
  <2>2. CASE ~failedOnly
    BY <2>2, NoResults DEF Call
  <2>3. QED
    BY <2>1, <2>2
<1>4. AccountInv'
  BY <1>1, <1>3, NoResults DEF AccountInv
<1>5. Sound(prior')
  BY NoResults DEF Call, KindInv, Sound
<1>6. KindInv'
  BY <1>1, <1>5, BatchAssumption DEF KindInv, Sound
<1>7. QED
  BY <1>2, <1>4, <1>6

\* The head of the loop turns what is pending into results, or leaves it.
LEMMA HeadKeeps ==
    ASSUME IInv, Head
    PROVE  IInv'
<1> USE DEF IInv
<1>1. /\ pc' = "pass" /\ left' = pending'
      /\ UNCHANGED <<manifest, prior, attempt, active, leases, ended, results>>
  BY DEF Head
<1>2. PoolInv' /\ WaitInv'
  BY <1>1 DEF PoolInv, WaitInv
<1>3. DOMAIN current' = DOMAIN current \cup (pending \ pending')
  BY DEF Head
<1>4. \A t \in DOMAIN current' :
         current'[t] = IF t \in DOMAIN current THEN current[t]
                       ELSE BatchTaskResult(Cancelled, attempt[t])
  BY DEF Head
<1>5. pending' \subseteq pending
  BY DEF Head
<1>6. AccountInv'
  <2>1. DOMAIN attempt' = pending' \cup active' \cup DOMAIN current'
    BY <1>1, <1>3, <1>5 DEF AccountInv
  <2>2. \A t \in DOMAIN current' : current'[t].attempt = attempt'[t]
    BY <1>1, <1>4 DEF AccountInv, BatchTaskResult
  <2>3. QED
    BY <1>1, <2>1, <2>2 DEF AccountInv
<1>7. KindInv'
  BY <1>1, <1>4 DEF KindInv, Sound, Statuses, BatchTaskResult, Cancelled
<1>8. QED
  BY <1>2, <1>6, <1>7

\* A launch takes a slot that is free and leases nobody holds.
LEMMA LaunchKeeps ==
    ASSUME IInv, NEW t, Launch(t)
    PROVE  IInv'
<1> USE DEF IInv
<1>1. /\ Cardinality(active) < maxConcurrent /\ t \in left /\ left' = left \ {t}
      /\ pending' = pending \ {t} /\ active' = active \cup {t} /\ leases' = leases \cup {t}
      /\ pc = "pass"
      /\ UNCHANGED <<pc, manifest, prior, attempt, ended, current, results>>
  BY DEF Launch, Reaches
<1>2. PoolInv'
  <2>1. /\ IsFiniteSet(active') /\ Cardinality(active) \in Nat
        /\ Cardinality(active') \in {Cardinality(active), Cardinality(active) + 1}
    <3>1. IsFiniteSet(active)
      BY DEF PoolInv
    <3>2. QED
      BY <1>1, <3>1, FS_AddElement, FS_CardinalityType
  <2>2. Cardinality(active') <= maxConcurrent
    BY <1>1, <2>1, BatchAssumption
  <2>3. \A u \in active : <<t, u>> \notin Overlap /\ <<u, t>> \notin Overlap
    <3>1. \A u \in active : <<t, u>> \notin Overlap
      BY DEF Launch, canAcquire, PoolInv
    <3>2. ASSUME NEW u \in active, <<u, t>> \in Overlap PROVE FALSE
      <4>1. <<<<u, t>>[2], <<u, t>>[1]>> \in Overlap
        BY <3>2, BatchAssumption
      <4>2. QED
        BY <3>1, <4>1
    <3>3. QED
      BY <3>1, <3>2
  <2>4. QED
    BY <1>1, <2>1, <2>2, <2>3 DEF PoolInv
<1>3. WaitInv'
  BY <1>1 DEF WaitInv
<1>4. AccountInv' /\ KindInv'
  BY <1>1 DEF AccountInv, KindInv, PoolInv, Sound
<1>5. QED
  BY <1>2, <1>3, <1>4

\* A task that is passed over overlaps with one that holds a lease.
LEMMA PassOverKeeps ==
    ASSUME IInv, NEW t, PassOver(t)
    PROVE  IInv'
<1> USE DEF IInv
<1>1. /\ left' = left \ {t} /\ pc = "pass"
      /\ \E holder \in leases : <<t, holder>> \in Overlap
      /\ UNCHANGED <<pc, manifest, prior, attempt, pending, active, leases, ended, current, results>>
  BY DEF PassOver, Reaches, canAcquire
<1>2. PoolInv' /\ WaitInv'
  BY <1>1 DEF PoolInv, WaitInv
<1>3. AccountInv' /\ KindInv'
  BY <1>1 DEF AccountInv, KindInv, Sound
<1>4. QED
  BY <1>2, <1>3

\* A pass that ends with nothing active has gone through every pending task,
\* and each of them would need a holder: none is pending, and nothing throws.
LEMMA PassEndsKeeps ==
    ASSUME IInv, PassEnds
    PROVE  IInv'
<1> USE DEF IInv
<1>1. /\ pc = "pass" /\ left' = {} /\ pc' \in {"race", "thrown", "head"}
      /\ UNCHANGED <<manifest, prior, attempt, pending, active, leases, ended, current, results>>
  BY DEF PassEnds
<1>2. PoolInv'
  BY <1>1 DEF PoolInv
<1>3. pc' # "thrown"
  <2> SUFFICES ASSUME active = {}, pending # {} PROVE FALSE
    BY DEF PassEnds
  <2>1. Cardinality(active) = 0
    BY FS_EmptySet
  <2>2. left = {}
    BY <2>1, BatchAssumption DEF PassEnds
  <2>3. QED
    BY <1>1, <2>2 DEF WaitInv, PoolInv
<1>4. WaitInv'
  BY <1>1, <1>3 DEF WaitInv
<1>5. AccountInv' /\ KindInv'
  BY <1>1 DEF AccountInv, KindInv, Sound
<1>6. QED
  BY <1>2, <1>4, <1>5

\* A collected task moves from the active ones to the results.
LEMMA CollectKeeps ==
    ASSUME IInv, NEW t, NEW outcome \in Outcomes, Collect(t, outcome)
    PROVE  IInv'
<1> USE DEF IInv
<1> DEFINE result == BatchTaskResult(outcome, attempt[t])
<1>1. /\ pc' = "head" /\ active' = active \ {t} /\ leases' = leases \ {t}
      /\ ended' = ended \ {t}
      /\ UNCHANGED <<manifest, prior, attempt, pending, left, results>>
  BY DEF Collect
<1>2. result.attempt = attempt[t] /\ result.status \in Statuses
  BY DEF BatchTaskResult, Outcomes, Statuses
<1>3. DOMAIN current' = DOMAIN current \cup {t}
  BY DEF Collect
<1>4. \A u \in DOMAIN current' : current'[u] = IF u = t THEN result ELSE current[u]
  BY DEF Collect
<1> HIDE DEF result
<1>5. t \in active
  BY DEF Collect, PoolInv
<1>6. PoolInv'
  <2>1. /\ IsFiniteSet(active') /\ Cardinality(active) \in Nat
        /\ Cardinality(active') = Cardinality(active) - 1
    <3>1. IsFiniteSet(active)
      BY DEF PoolInv
    <3>2. QED
      BY <1>1, <1>5, <3>1, FS_RemoveElement, FS_CardinalityType
  <2>2. Cardinality(active') <= maxConcurrent
    BY <2>1, BatchAssumption DEF PoolInv
  <2>3. QED
    BY <1>1, <2>1, <2>2 DEF PoolInv
<1>7. WaitInv'
  BY <1>1 DEF WaitInv
<1>8. AccountInv'
  BY <1>1, <1>2, <1>3, <1>4, <1>5 DEF AccountInv
<1>9. KindInv'
  BY <1>1, <1>2, <1>3, <1>4 DEF KindInv, Sound
<1>10. QED
  BY <1>6, <1>7, <1>8, <1>9
\* What a call returns, task by task.
LEMMA Returned ==
    ASSUME IInv, Return
    PROVE  /\ DOMAIN attempt = DOMAIN current
           /\ DOMAIN results' = DOMAIN prior \cup DOMAIN current
           /\ \A t \in DOMAIN results' :
                results'[t] = IF t \in DOMAIN current THEN current[t] ELSE prior[t]
<1>1. results' = mergeBatchResults(prior, current)
  BY DEF Return
<1>2. DOMAIN attempt = DOMAIN current /\ DOMAIN current \cup DOMAIN prior \subseteq manifest
  BY DEF Return, IInv, AccountInv
<1>3. /\ DOMAIN results' = (DOMAIN prior \cup DOMAIN current) \cap manifest
      /\ \A t \in DOMAIN results' :
           results'[t] = IF t \in DOMAIN current THEN current[t] ELSE prior[t]
  BY <1>1 DEF mergeBatchResults
<1>4. QED
  BY <1>2, <1>3

\* The pool is empty again when a call returns.
LEMMA ReturnKeeps ==
    ASSUME IInv, Return
    PROVE  IInv'
<1> USE DEF IInv
<1>1. /\ pc' = "idle" /\ pending = {} /\ active = {}
      /\ manifest' = {} /\ prior' = <<>> /\ attempt' = <<>> /\ current' = <<>>
      /\ UNCHANGED <<pending, left, active, leases, ended>>
  BY DEF Return
<1>2. PoolInv' /\ WaitInv'
  BY <1>1 DEF PoolInv, WaitInv
<1>3. AccountInv'
  BY <1>1, NoResults DEF AccountInv
<1>4. Sound(results')
  BY Returned DEF KindInv, Sound
<1>5. Sound(prior') /\ Sound(current') /\ IsFiniteSet(manifest')
  BY <1>1, NoResults, FS_EmptySet DEF Sound
<1>6. QED
  BY <1>2, <1>3, <1>4, <1>5 DEF KindInv

\* Every step keeps the invariant.
LEMMA StepKeeps ==
    ASSUME IInv, [Next]_vars
    PROVE  IInv'
<1>1. CASE UNCHANGED vars
  BY <1>1 DEF vars, IInv, PoolInv, WaitInv, AccountInv, KindInv, Sound
<1>2. CASE Abort
  BY <1>2 DEF Abort, IInv, PoolInv, WaitInv, AccountInv, KindInv, Sound
<1>3. ASSUME NEW t \in Tasks, Settle(t) PROVE IInv'
  BY <1>3 DEF Settle, IInv, PoolInv, WaitInv, AccountInv, KindInv, Sound
<1>4. CASE Pool
  BY <1>4, HeadKeeps, LaunchKeeps, PassOverKeeps, PassEndsKeeps, CollectKeeps, ReturnKeeps DEF Pool
<1>5. QED
  BY <1>1, <1>2, <1>3, <1>4, CallKeeps DEF Next

\* The invariant holds in every reachable state.
THEOREM Invariance == Spec => []IInv
BY InitHolds, StepKeeps, PTL DEF Spec

\* The pool of batch_execute keeps leases and limit and never throws, for every
\* set of manifests, every overlap of scopes and every maxConcurrent.
THEOREM PoolIsSafe == Spec => []PoolHolds
<1>1. IInv => PoolHolds
  BY DEF IInv, PoolInv, WaitInv, PoolHolds
<1>2. QED
  BY <1>1, Invariance, PTL

\* A result with nothing failed and nothing cancelled has only completed tasks.
LEMMA CompletedMeansAll ==
    ASSUME NEW found, Sound(found), IsFiniteSet(DOMAIN found), Status(found) = "completed"
    PROVE  \A t \in DOMAIN found : found[t].status = "completed"
<1> DEFINE with(status) == {t \in DOMAIN found : found[t].status = status}
<1>1. Cardinality(with("failed")) = 0 /\ Cardinality(with("cancelled")) = 0
  BY DEF Status, Count
<1>2. with("failed") = {} /\ with("cancelled") = {}
  <2>1. IsFiniteSet(with("failed")) /\ IsFiniteSet(with("cancelled"))
    BY FS_Subset
  <2>2. QED
    BY <1>1, <2>1, FS_EmptySet
<1>3. QED
  BY <1>2 DEF Sound, Statuses

\* Every batch_execute call accounts for every task, whatever the order of
\* settlements, aborts and retries.
THEOREM CallsAccount == Spec => CallAccounts
<1> DEFINE Accounted ==
      pc = "head" /\ pc' = "idle" =>
         /\ \A t \in DOMAIN attempt :
               t \in DOMAIN results' /\ results'[t].attempt = attempt[t]
         /\ \A t \in DOMAIN prior \ DOMAIN attempt :
               t \in DOMAIN results' /\ results'[t] = prior[t]
         /\ Status(results') = "completed" /\ manifest \subseteq DOMAIN prior \cup DOMAIN attempt
               => \A t \in manifest : results'[t].status = "completed"
<1>1. ASSUME IInv, [Next]_vars PROVE [Accounted]_vars
  <2> SUFFICES ASSUME pc = "head", pc' = "idle" PROVE Accounted
    OBVIOUS
  <2>1. Return
    BY <1>1 DEF Next, Pool, Call, Abort, Settle, Head, Launch, PassOver, PassEnds, Collect,
                Reaches, vars
  <2>2. /\ DOMAIN attempt = DOMAIN current
        /\ DOMAIN results' = DOMAIN prior \cup DOMAIN current
        /\ \A t \in DOMAIN results' :
             results'[t] = IF t \in DOMAIN current THEN current[t] ELSE prior[t]
    BY <1>1, <2>1, Returned
  <2>3. Sound(results') /\ IsFiniteSet(DOMAIN results')
    <3>1. IInv'
      BY <1>1, StepKeeps
    <3>2. DOMAIN results' \subseteq manifest /\ IsFiniteSet(manifest)
      BY <1>1, <2>2 DEF IInv, AccountInv, KindInv
    <3>3. QED
      BY <3>1, <3>2, FS_Subset DEF IInv, KindInv
  <2>4. Status(results') = "completed" =>
          \A t \in DOMAIN results' : results'[t].status = "completed"
    BY <2>3, CompletedMeansAll
  <2>5. QED
    BY <1>1, <2>2, <2>4 DEF IInv, AccountInv
<1>2. QED
  BY <1>1, Invariance, PTL DEF Spec, CallAccounts
=============================================================================
