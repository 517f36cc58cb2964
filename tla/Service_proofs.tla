---------------------------- MODULE Service_proofs ----------------------------
(***************************************************************************)
(* Proofs about the service and the tool calls that use it, for every      *)
(* number of agents, calls and retries, every limit and every record cap.  *)
(*                                                                         *)
(* SubagentService: the gate is exact and loses no wakeup, a settled run   *)
(* keeps its outcome, eviction takes no record it should keep, and abort   *)
(* reaches the descendants it should.  RoleCalls: tool calls use the service*)
(* as SubagentService describes it, so that all of this holds under them,  *)
(* and a cancelled call reaches the attempt it awaits.                     *)
(***************************************************************************)
EXTENDS RoleCalls, Recursion_proofs, SequenceTheorems

Holders == {a \in Agent : HoldsSlot(a)}
Woken == {a \in Agent : phase[a] = "woken"}

\* Who queues waits, and queues once.
QueueInv ==
    /\ \A i \in 1..Len(spawnQueue) : phase[spawnQueue[i]] = "waiting"
    /\ \A i, j \in 1..Len(spawnQueue) : spawnQueue[i] = spawnQueue[j] => i = j

GateInv == TypeOK /\ QueueInv /\ GateExact /\ NoLostWakeup

\* Ids above the counter are unused; a run is settled from its record on, and
\* then has an outcome.
RecordInv ==
    /\ \A a \in Agent : phase[a] = "unborn" <=> a > counter
    /\ \A a \in Agent : a \in settled <=> phase[a] \in {"closing", "failed", "done"}
    /\ \A a \in settled : status[a] \in Over

IInv == GateInv /\ RecordInv

-----------------------------------------------------------------------------
(* Sets of agents.                                                         *)

\* Sets of agents are finite and have a size.
LEMMA AgentSets ==
    ASSUME NEW S \in SUBSET Agent
    PROVE  IsFiniteSet(S) /\ Cardinality(S) \in Nat
<1>1. IsFiniteSet(Agent)
  BY ServiceAssumption, FS_Interval DEF Agent
<1>2. QED
  BY <1>1, FS_Subset, FS_CardinalityType

\* One agent more.
LEMMA OneMore ==
    ASSUME NEW S \in SUBSET Agent, NEW a \in Agent, a \notin S
    PROVE  Cardinality(S \cup {a}) = Cardinality(S) + 1
BY AgentSets, FS_AddElement

\* One agent less.
LEMMA OneLess ==
    ASSUME NEW S \in SUBSET Agent, NEW a \in S
    PROVE  Cardinality(S \ {a}) = Cardinality(S) - 1
BY AgentSets, FS_RemoveElement

-----------------------------------------------------------------------------
(* The gate.                                                               *)

\* An agent that arrives at the gate, new or woken, keeps the gate exact, the
\* queue in order, and leaves no waiter without a slot taken on its behalf.
LEMMA ArrivalKeepsGate ==
    ASSUME GateInv, NEW a \in Agent, phase[a] \in {"unborn", "woken"}, PassGate(a)
    PROVE  /\ phase' \in [Agent -> Phases]
           /\ runningSpawns' \in Nat /\ spawnQueue' \in Seq(Agent)
           /\ QueueInv' /\ GateExact' /\ NoLostWakeup'
<1> USE DEF GateInv
<1>t. /\ phase \in [Agent -> Phases]
      /\ runningSpawns \in Nat /\ spawnQueue \in Seq(Agent)
      /\ Holders \in SUBSET Agent /\ Woken \in SUBSET Agent
      /\ Cardinality(Holders) \in Nat /\ Cardinality(Woken) \in Nat
      /\ MaxConcurrent \in Nat
  BY AgentSets, ServiceAssumption DEF TypeOK, Holders, Woken
<1>1. CASE runningSpawns < MaxConcurrent
  <2>1. /\ runningSpawns' = runningSpawns + 1
        /\ phase' = [phase EXCEPT ![a] = "opening"]
        /\ spawnQueue' = spawnQueue
    BY <1>1 DEF PassGate
  <2>2. Holders' = Holders \cup {a} /\ a \notin Holders
    BY <2>1, <1>t DEF Holders, HoldsSlot, Phases
  <2>3. Cardinality(Holders') = Cardinality(Holders) + 1
    BY <2>2, <1>t, OneMore
  <2>4. GateExact'
    BY <2>1, <2>3, <1>1, <1>t DEF GateExact, Holders
  <2>5. Woken' = Woken \ {a}
    BY <2>1, <1>t DEF Woken
  <2>6. Cardinality(Woken') >= Cardinality(Woken) - 1 /\ Cardinality(Woken') \in Nat
    <3>1. CASE a \in Woken
      BY <3>1, <2>5, <1>t, OneLess, AgentSets
    <3>2. CASE a \notin Woken
      <4>1. Woken' = Woken
        BY <3>2, <2>5
      <4>2. QED
        BY <4>1, <1>t
    <3>3. QED
      BY <3>1, <3>2
  <2>7. NoLostWakeup'
    BY <2>1, <2>6, <1>t DEF NoLostWakeup, Woken
  <2>8. QueueInv'
    BY <2>1, <1>t DEF QueueInv
  <2>9. QED
    BY <2>1, <2>4, <2>7, <2>8, <1>t DEF Phases
<1>2. CASE ~(runningSpawns < MaxConcurrent)
  <2>1. /\ spawnQueue' = Append(spawnQueue, a)
        /\ phase' = [phase EXCEPT ![a] = "waiting"]
        /\ runningSpawns' = runningSpawns
    BY <1>2 DEF PassGate
  <2>2. Holders' = Holders
    BY <2>1, <1>t DEF Holders, HoldsSlot
  <2>3. GateExact'
    BY <2>1, <2>2, <1>t DEF GateExact, Holders
  <2>4. Woken' \in SUBSET Agent /\ Cardinality(Woken') \in Nat
    BY <2>1, AgentSets DEF Woken
  <2>5. NoLostWakeup'
    BY <2>1, <2>4, <1>2, <1>t DEF NoLostWakeup, Woken
  <2>6. QueueInv'
    BY <2>1, <1>t DEF QueueInv
  <2>7. QED
    BY <2>1, <2>3, <2>5, <2>6, <1>t DEF Phases
<1>3. QED
  BY <1>1, <1>2

\* An agent that leaves the gate hands its slot to the head of the queue, if
\* there is one, and to nobody twice.
LEMMA DepartureKeepsGate ==
    ASSUME GateInv, NEW a \in Agent, HoldsSlot(a),
           NEW next \in {"failing", "done"}, LeaveGate(a, next)
    PROVE  /\ phase' \in [Agent -> Phases]
           /\ phase'[a] = next
           /\ \A b \in Agent \ {a} : \/ phase'[b] = phase[b]
                                     \/ phase[b] = "waiting" /\ phase'[b] = "woken"
           /\ runningSpawns' \in Nat /\ spawnQueue' \in Seq(Agent)
           /\ QueueInv' /\ GateExact' /\ NoLostWakeup'
<1> USE DEF GateInv
<1>t. /\ phase \in [Agent -> Phases]
      /\ runningSpawns \in Nat /\ spawnQueue \in Seq(Agent)
      /\ Holders \in SUBSET Agent /\ Woken \in SUBSET Agent
      /\ Cardinality(Holders) \in Nat /\ Cardinality(Woken) \in Nat
      /\ MaxConcurrent \in Nat
      /\ a \in Holders
  BY AgentSets, ServiceAssumption DEF TypeOK, Holders, Woken
<1>1. runningSpawns' = runningSpawns - 1
  BY DEF LeaveGate
<1>2. /\ Cardinality(Holders \ {a}) = Cardinality(Holders) - 1
      /\ Cardinality(Holders \ {a}) \in Nat
  <2>1. Holders \ {a} \in SUBSET Agent
    BY <1>t
  <2>2. QED
    BY <2>1, <1>t, OneLess, AgentSets
<1>3. CASE spawnQueue = << >>
  <2>1. phase' = [phase EXCEPT ![a] = next] /\ spawnQueue' = spawnQueue
    BY <1>3 DEF LeaveGate
  <2>2. Holders' = Holders \ {a}
    BY <2>1, <1>t DEF Holders, HoldsSlot
  <2>n. Cardinality(Holders') = Cardinality(Holders) - 1 /\ Cardinality(Holders') \in Nat
    BY <2>2, <1>2
  <2>3. GateExact' /\ runningSpawns' \in Nat
    BY <2>n, <1>1, <1>t DEF GateExact, Holders
  <2>4. QED
    BY <2>1, <2>3, <1>3, <1>t DEF NoLostWakeup, QueueInv, Phases
<1>4. CASE spawnQueue # << >>
  <2> DEFINE b == Head(spawnQueue)
  <2>1. phase' = [phase EXCEPT ![a] = next, ![b] = "woken"] /\ spawnQueue' = Tail(spawnQueue)
    BY <1>4 DEF LeaveGate
  <2>2. /\ Len(spawnQueue) \in Nat \ {0} /\ b = spawnQueue[1] /\ b \in Agent
        /\ phase[b] = "waiting" /\ b # a
    BY <1>4, <1>t DEF QueueInv, Holders, HoldsSlot
  <2> HIDE DEF b
  <2>3. Holders' = Holders \ {a}
    BY <2>1, <2>2, <1>t DEF Holders, HoldsSlot
  <2>n. Cardinality(Holders') = Cardinality(Holders) - 1 /\ Cardinality(Holders') \in Nat
    BY <2>3, <1>2
  <2>4. GateExact' /\ runningSpawns' \in Nat
    BY <2>n, <1>1, <1>t DEF GateExact, Holders
  <2>5. Woken' = Woken \cup {b} /\ b \notin Woken
    BY <2>1, <2>2, <1>t DEF Woken, Holders, HoldsSlot
  <2>6. Cardinality(Woken') = Cardinality(Woken) + 1
    BY <2>5, <2>2, <1>t, OneMore
  <2>7. NoLostWakeup'
    BY <2>1, <2>6, <1>1, <1>4, <1>t DEF NoLostWakeup, Woken
  <2>8. QueueInv'
    <3>1. /\ spawnQueue' \in Seq(Agent) /\ Len(spawnQueue') = Len(spawnQueue) - 1
          /\ \A i \in 1..Len(spawnQueue') : spawnQueue'[i] = spawnQueue[i + 1]
      BY <2>1, <2>2, <1>4, <1>t
    <3>2. \A i \in 1..Len(spawnQueue') : spawnQueue'[i] # b /\ spawnQueue'[i] # a
      BY <3>1, <2>2, <1>t DEF QueueInv, Holders, HoldsSlot
    <3>3. \A i \in 1..Len(spawnQueue') : phase'[spawnQueue'[i]] = "waiting"
      BY <3>1, <3>2, <2>1, <2>2, <1>t DEF QueueInv
    <3>4. \A i, j \in 1..Len(spawnQueue') : spawnQueue'[i] = spawnQueue'[j] => i = j
      BY <3>1, <2>2, <1>t DEF QueueInv
    <3>5. QED
      BY <3>3, <3>4 DEF QueueInv
  <2>9. QED
    BY <2>1, <2>2, <2>4, <2>7, <2>8, <1>4, <1>t DEF Phases
<1>5. QED
  BY <1>3, <1>4

\* A step inside a run that neither takes nor gives a slot, nor wakes anybody.
LEMMA InsideKeepsGate ==
    ASSUME GateInv, UNCHANGED gate,
           NEW a \in Agent, NEW next \in Phases \ {"waiting", "woken", "unborn"},
           phase' = [phase EXCEPT ![a] = next],
           phase[a] \notin {"waiting", "woken", "unborn"},
           HoldsSlot(a) <=> next \in {"opening", "binding", "prompting", "closing"}
    PROVE  /\ phase' \in [Agent -> Phases]
           /\ runningSpawns' \in Nat /\ spawnQueue' \in Seq(Agent)
           /\ QueueInv' /\ GateExact' /\ NoLostWakeup'
<1> USE DEF GateInv, gate
<1>1. phase \in [Agent -> Phases] /\ spawnQueue \in Seq(Agent) /\ runningSpawns \in Nat
  BY DEF TypeOK
<1>2. Holders' = Holders /\ Woken' = Woken
  BY <1>1 DEF Holders, Woken, HoldsSlot
<1>3. QueueInv'
  BY <1>1 DEF QueueInv
<1>4. QED
  BY <1>1, <1>2, <1>3 DEF GateExact, NoLostWakeup, Holders, Woken

-----------------------------------------------------------------------------
(* The records.                                                            *)

\* What a settlement writes: the outcome of one run, never one given before.
LEMMA SettleWrites ==
    ASSUME TypeOK, NEW a \in Agent, NEW outcome \in Over, Settle(a, outcome)
    PROVE  /\ status' = [status EXCEPT ![a] = outcome]
           /\ settled' = settled \cup {a}
           /\ status' \in [Agent -> Statuses]
           /\ settled' \subseteq Agent /\ entries' \subseteq Agent
           /\ handles' \subseteq Agent /\ aborted' \subseteq Agent /\ fileOf' \subseteq Agent
           /\ children' \in [Session -> SUBSET Agent]
           /\ parent' \in [Agent -> Session]
BY DEF TypeOK, Settle, Over, Statuses

\* Abort and signals only ever name agents.
LEMMA AbortTargetsHandles ==
    ASSUME TypeOK, NEW a \in Agent, Abort(a)
    PROVE  aborted' \subseteq Agent
BY DEF TypeOK, Abort

\* An abort signals agents only.
LEMMA SignalTargetsAgents ==
    ASSUME TypeOK, NEW own \in SUBSET Agent, NEW roots \in SUBSET Agent,
           CallerAborts(own, roots)
    PROVE  aborted' \subseteq Agent
<1>1. ((UNION {Walk(a) : a \in roots}) \cap handles) \subseteq Agent
  BY DEF TypeOK
<1>2. QED
  BY <1>1 DEF TypeOK, CallerAborts

\* Nothing of the gate and the records changes in a step that only cancels.
LEMMA CancelKeepsInv ==
    ASSUME IInv, aborted' \subseteq Agent,
           UNCHANGED <<counter, phase, gate, records, handles, fileOf, children, parent>>
    PROVE  IInv'
<1>1. TypeOK'
  BY DEF IInv, GateInv, TypeOK, gate, records
<1>2. QueueInv' /\ GateExact' /\ NoLostWakeup'
  BY DEF IInv, GateInv, QueueInv, GateExact, NoLostWakeup, HoldsSlot, gate
<1>3. RecordInv'
  BY DEF IInv, RecordInv, records
<1>4. QED
  BY <1>1, <1>2, <1>3 DEF IInv, GateInv

\* So does each of the two ways to cancel.
LEMMA AbortKeepsInv ==
    ASSUME IInv, NEW a \in Agent, Abort(a)
    PROVE  IInv'
BY AbortTargetsHandles, CancelKeepsInv DEF IInv, GateInv, Abort

\* An abort keeps the invariant of the service.
LEMMA SignalKeepsInv ==
    ASSUME IInv, NEW own \in SUBSET Agent, NEW roots \in SUBSET Agent,
           CallerAborts(own, roots)
    PROVE  IInv'
<1>1. aborted' \subseteq Agent
  BY SignalTargetsAgents DEF IInv, GateInv
<1>2. QED
  BY <1>1, CancelKeepsInv DEF CallerAborts

\* Every step of a run preserves the invariant.
LEMMA RunStepKeepsInv ==
    ASSUME IInv, NEW a \in Agent, RunStep(a)
    PROVE  IInv'
<1> USE DEF IInv
<1>t. /\ TypeOK /\ GateInv
      /\ phase \in [Agent -> Phases] /\ counter \in 0..MaxAgents
      /\ MaxAgents \in Nat
  BY ServiceAssumption DEF GateInv, TypeOK
<1>1. CASE Resume(a)
  <2>1. /\ phase' \in [Agent -> Phases]
        /\ runningSpawns' \in Nat /\ spawnQueue' \in Seq(Agent)
        /\ QueueInv' /\ GateExact' /\ NoLostWakeup'
    BY <1>1, <1>t, ArrivalKeepsGate DEF Resume
  <2>2. TypeOK'
    BY <1>1, <1>t, <2>1 DEF Resume, TypeOK, records, tree
  <2>3. RecordInv'
    BY <1>1, <1>t DEF Resume, PassGate, RecordInv, records, tree, Agent
  <2>4. QED
    BY <2>1, <2>2, <2>3 DEF GateInv
<1>2. CASE SessionOpens(a)
  <2>1. /\ phase' \in [Agent -> Phases]
        /\ runningSpawns' \in Nat /\ spawnQueue' \in Seq(Agent)
        /\ QueueInv' /\ GateExact' /\ NoLostWakeup'
    BY <1>2, <1>t, InsideKeepsGate DEF SessionOpens, HoldsSlot, Phases
  <2>2. TypeOK'
    BY <1>2, <1>t, <2>1 DEF SessionOpens, TypeOK, Statuses, gate
  <2>3. RecordInv'
    BY <1>2, <1>t DEF SessionOpens, RecordInv, TypeOK, Agent, Phases
  <2>4. QED
    BY <2>1, <2>2, <2>3 DEF GateInv
<1>3. CASE PromptStarts(a)
  <2>1. /\ phase' \in [Agent -> Phases]
        /\ runningSpawns' \in Nat /\ spawnQueue' \in Seq(Agent)
        /\ QueueInv' /\ GateExact' /\ NoLostWakeup'
    BY <1>3, <1>t, InsideKeepsGate DEF PromptStarts, HoldsSlot, Phases
  <2>2. TypeOK'
    BY <1>3, <1>t, <2>1 DEF PromptStarts, TypeOK, records, tree
  <2>3. RecordInv'
    BY <1>3, <1>t DEF PromptStarts, RecordInv, records, tree, Agent, Phases
  <2>4. QED
    BY <2>1, <2>2, <2>3 DEF GateInv
<1>4. CASE Closes(a)
  <2>1. /\ phase' \in [Agent -> Phases]
        /\ runningSpawns' \in Nat /\ spawnQueue' \in Seq(Agent)
        /\ QueueInv' /\ GateExact' /\ NoLostWakeup'
    BY <1>4, <1>t, DepartureKeepsGate DEF Closes, HoldsSlot
  <2>2. TypeOK'
    BY <1>4, <1>t, <2>1 DEF Closes, TypeOK, records, tree
  <2>3. RecordInv'
    BY <1>4, <1>t, DepartureKeepsGate DEF Closes, HoldsSlot, RecordInv, records, Agent
  <2>4. QED
    BY <2>1, <2>2, <2>3 DEF GateInv
<1>5. CASE FailsToStart(a)
  <2>1. /\ phase' \in [Agent -> Phases]
        /\ runningSpawns' \in Nat /\ spawnQueue' \in Seq(Agent)
        /\ QueueInv' /\ GateExact' /\ NoLostWakeup'
    BY <1>5, <1>t, DepartureKeepsGate DEF FailsToStart, HoldsSlot
  <2>2. TypeOK'
    BY <1>5, <1>t, <2>1 DEF FailsToStart, TypeOK, records, tree
  <2>3. RecordInv'
    BY <1>5, <1>t, DepartureKeepsGate DEF FailsToStart, HoldsSlot, RecordInv, records, Agent
  <2>4. QED
    BY <2>1, <2>2, <2>3 DEF GateInv
<1>6. CASE Rejects(a)
  <2>1. /\ phase' \in [Agent -> Phases]
        /\ runningSpawns' \in Nat /\ spawnQueue' \in Seq(Agent)
        /\ QueueInv' /\ GateExact' /\ NoLostWakeup'
    BY <1>6, <1>t, InsideKeepsGate DEF Rejects, HoldsSlot, Phases
  <2>2. TypeOK'
    BY <1>6, <1>t, <2>1, SettleWrites DEF Rejects, TypeOK, Over, gate
  <2>3. status' = [status EXCEPT ![a] = "error"] /\ settled' = settled \cup {a}
    BY <1>6, <1>t, SettleWrites DEF Rejects, Over
  <2>5. RecordInv'
    BY <1>6, <1>t, <2>3 DEF Rejects, RecordInv, TypeOK, Agent, Phases, Over
  <2>6. QED
    BY <2>1, <2>2, <2>5 DEF GateInv
<1>7. ASSUME NEW outcome \in Over, RunEnds(a, outcome)
      PROVE  IInv'
  <2>1. /\ phase' \in [Agent -> Phases]
        /\ runningSpawns' \in Nat /\ spawnQueue' \in Seq(Agent)
        /\ QueueInv' /\ GateExact' /\ NoLostWakeup'
    BY <1>7, <1>t, InsideKeepsGate DEF RunEnds, HoldsSlot, Phases
  <2>2. TypeOK'
    BY <1>7, <1>t, <2>1, SettleWrites DEF RunEnds, TypeOK, gate
  <2>3. RecordInv'
    BY <1>7, <1>t, SettleWrites DEF RunEnds, RecordInv, TypeOK, Agent, Phases, Over
  <2>4. QED
    BY <2>1, <2>2, <2>3 DEF GateInv
<1>8. QED
  BY <1>1, <1>2, <1>3, <1>4, <1>5, <1>6, <1>7 DEF RunStep

\* So does a new spawn.
LEMMA SpawnKeepsInv ==
    ASSUME IInv, NEW s \in Session, NEW stopped \in BOOLEAN, Spawn(s, stopped)
    PROVE  IInv'
<1> USE DEF IInv
<1> DEFINE a == counter + 1
<1>t. /\ TypeOK /\ GateInv
      /\ phase \in [Agent -> Phases] /\ counter \in 0..MaxAgents
      /\ MaxAgents \in Nat /\ a \in Agent /\ phase[a] = "unborn"
  BY ServiceAssumption DEF GateInv, TypeOK, Spawn, RecordInv, Agent
<1>1. PassGate(a)
  BY DEF Spawn
<1>2. /\ phase' \in [Agent -> Phases]
      /\ runningSpawns' \in Nat /\ spawnQueue' \in Seq(Agent)
      /\ QueueInv' /\ GateExact' /\ NoLostWakeup'
  BY <1>1, <1>t, ArrivalKeepsGate
<1>3. /\ counter' \in 0..MaxAgents
      /\ UNCHANGED <<status, settled, fileOf>>
      /\ entries' \subseteq Agent /\ handles' \subseteq Agent /\ aborted' \subseteq Agent
      /\ children' \in [Session -> SUBSET Agent] /\ parent' \in [Agent -> Session]
  BY <1>t DEF Spawn, TypeOK, Session
<1>4. TypeOK'
  BY <1>t, <1>2, <1>3 DEF TypeOK
<1>5. RecordInv'
  BY <1>1, <1>t, <1>3 DEF Spawn, PassGate, RecordInv, Agent
<1>6. QED
  BY <1>2, <1>4, <1>5 DEF GateInv

\* The invariant holds at the start: no agent, no slot taken.
LEMMA InitInv == Init => IInv
<1> SUFFICES ASSUME Init PROVE IInv
  OBVIOUS
<1>1. TypeOK
  BY ServiceAssumption DEF Init, TypeOK, Phases, Statuses, Session, Agent
<1>2. {a \in Agent : HoldsSlot(a)} = {}
  BY DEF Init, HoldsSlot
<1>3. GateExact
  <2>1. Cardinality({a \in Agent : HoldsSlot(a)}) = 0
    BY <1>2, FS_EmptySet
  <2>2. QED
    BY <2>1, ServiceAssumption DEF GateExact, Init
<1>4. NoLostWakeup /\ QueueInv
  BY DEF Init, NoLostWakeup, QueueInv
<1>5. RecordInv
  BY DEF Init, RecordInv, Agent
<1>6. QED
  BY <1>1, <1>3, <1>4, <1>5 DEF IInv, GateInv

\* It is inductive.
LEMMA NextInv == IInv /\ [Next]_vars => IInv'
<1> SUFFICES ASSUME IInv, [Next]_vars PROVE IInv'
  OBVIOUS
<1>1. CASE UNCHANGED vars
  BY <1>1 DEF vars, gate, records, tree, IInv, GateInv, TypeOK, QueueInv, GateExact,
              NoLostWakeup, RecordInv, HoldsSlot
<1>2. CASE Next
  BY <1>2, SpawnKeepsInv, RunStepKeepsInv, AbortKeepsInv, SignalKeepsInv DEF Next
<1>3. QED
  BY <1>1, <1>2

\* The invariant holds throughout.
THEOREM Invariance == Spec => []IInv
BY InitInv, NextInv, PTL DEF Spec

-----------------------------------------------------------------------------

\* The service's maps and counters keep their types: the count of runs never
\* falls below zero, whatever path each run leaves by.
THEOREM TypeCorrect == Spec => []TypeOK
<1>1. IInv => TypeOK
  BY DEF IInv, GateInv
<1>2. QED
  BY <1>1, Invariance, PTL

\* The gate of runToCompletion counts exactly the runs that hold a slot and
\* never admits more than maxConcurrentSpawns.
THEOREM GateIsExact == Spec => []GateExact
<1>1. IInv => GateExact
  BY DEF IInv, GateInv
<1>2. QED
  BY <1>1, Invariance, PTL

\* No run waits in spawnQueue beside a slot nobody is about to take, for any
\* interleaving of newcomers, wakeups and failures to start.
THEOREM NoWakeupLost == Spec => []NoLostWakeup
<1>1. IInv => NoLostWakeup
  BY DEF IInv, GateInv
<1>2. QED
  BY <1>1, Invariance, PTL

\* A settled run keeps its terminal status: registry.resolve and reject run at
\* most once per run and nothing writes its state afterwards.
THEOREM OutcomeIsFinal == Spec => SettledForGood
<1> DEFINE Kept == /\ settled \subseteq settled'
                   /\ \A a \in settled : status[a] \in Over /\ status'[a] = status[a]
<1>1. IInv /\ [Next]_vars => [Kept]_vars
  <2> SUFFICES ASSUME IInv, Next PROVE Kept
    OBVIOUS
  <2>t. TypeOK /\ RecordInv
    BY DEF IInv, GateInv
  <2>1. CASE \E s \in Session, stopped \in BOOLEAN : Spawn(s, stopped)
    BY <2>1, <2>t DEF Spawn, RecordInv
  <2>2. CASE \/ \E a \in Agent : Abort(a)
             \/ \E own, roots \in SUBSET Agent : CallerAborts(own, roots)
    BY <2>2, <2>t DEF Abort, CallerAborts, RecordInv, records
  <2>3. ASSUME NEW a \in Agent, RunStep(a)
        PROVE  Kept
    <3>1. CASE SessionOpens(a)
      BY <3>1, <2>t DEF SessionOpens, RecordInv, TypeOK
    <3>2. CASE Resume(a) \/ PromptStarts(a) \/ Closes(a) \/ FailsToStart(a)
      BY <3>2, <2>t DEF Resume, PromptStarts, Closes, FailsToStart, RecordInv, records
    <3>3. ASSUME NEW outcome \in Over, RunEnds(a, outcome)
          PROVE  Kept
      BY <3>3, <2>t, SettleWrites DEF RunEnds, RecordInv, TypeOK
    <3>4. CASE Rejects(a)
      BY <3>4, <2>t, SettleWrites DEF Rejects, RecordInv, TypeOK, Over
    <3>5. QED
      BY <2>3, <3>1, <3>2, <3>3, <3>4 DEF RunStep
  <2>4. QED
    BY <2>1, <2>2, <2>3 DEF Next
<1>2. QED
  BY <1>1, Invariance, PTL DEF Spec, SettledForGood

-----------------------------------------------------------------------------
(* Eviction.                                                               *)

\* Among agents there is an oldest.
LEMMA Oldest ==
    ASSUME NEW S \in SUBSET Agent, S # {}
    PROVE  \E m \in S : \A a \in S : m <= a
BY LeastNat, ServiceAssumption DEF Agent

\* What eviction leaves is within the cap: it is what is no older than the
\* oldest record kept.
LEMMA CapKept ==
    ASSUME NEW over \in SUBSET Agent, MaxTerminal > 0
    PROVE  Cardinality(over \ Evicted(over)) <= MaxTerminal
<1> DEFINE kept == over \ Evicted(over)
<1>1. CASE kept = {}
  BY <1>1, FS_EmptySet, ServiceAssumption
<1>2. CASE kept # {}
  <2>1. PICK m \in kept : \A a \in kept : m <= a
    BY <1>2, Oldest
  <2> DEFINE younger == {b \in over : b >= m}
  <2>2. younger \in SUBSET Agent /\ kept \subseteq younger
    BY <2>1, ServiceAssumption DEF Agent
  <2>3. Cardinality(younger) \in Nat /\ IsFiniteSet(younger)
    BY <2>2, AgentSets
  <2>4. Cardinality(younger) <= MaxTerminal
    BY <2>1, <2>3, ServiceAssumption DEF Evicted
  <2>5. Cardinality(kept) \in Nat /\ Cardinality(kept) <= Cardinality(younger)
    BY <2>2, <2>3, FS_Subset, AgentSets
  <2>6. QED
    BY <2>3, <2>4, <2>5, ServiceAssumption
<1>3. QED
  BY <1>1, <1>2

\* A settlement evicts settled records only, with all that is kept of them.
LEMMA SettleKeepsRecords ==
    ASSUME IInv, RecordsKept, NEW a \in Agent, Live(a), NEW outcome \in Over,
           Settle(a, outcome), \A b \in Agent : phase'[b] = "unborn" <=> phase[b] = "unborn"
    PROVE  RecordsKept'
<1> DEFINE over == (settled \cup {a}) \cap entries
<1>t. over \in SUBSET Agent /\ settled \subseteq Agent
  BY DEF IInv, GateInv, TypeOK
<1>1. /\ settled' = settled \cup {a}
      /\ entries' = entries \ Evicted(over)
      /\ handles' = handles \ Evicted(over)
      /\ fileOf' = fileOf \ Evicted(over)
  BY DEF Settle
<1>2. Evicted(over) \subseteq settled'
  BY <1>1 DEF Evicted
<1>3. \A b \in Agent : Live(b)' => b \in entries' /\ b \in handles'
  BY <1>1, <1>2 DEF Live, RecordsKept
<1>4. handles' = entries' /\ fileOf' \subseteq entries'
  BY <1>1 DEF RecordsKept
<1>5. MaxTerminal > 0 => Cardinality(settled' \cap entries') <= MaxTerminal
  <2>1. settled' \cap entries' = over \ Evicted(over)
    BY <1>1
  <2>2. QED
    BY <1>t, <2>1, CapKept
<1>6. QED
  BY <1>3, <1>4, <1>5 DEF RecordsKept

\* A step that gives out no id, settles nobody and opens no session keeps the
\* records as they are.
LEMMA InsideKeepsRecords ==
    ASSUME RecordsKept, UNCHANGED <<settled, entries, handles, fileOf>>,
           \A b \in Agent : phase'[b] = "unborn" <=> phase[b] = "unborn"
    PROVE  RecordsKept'
BY DEF RecordsKept, Live

\* Every step of a run keeps the records.
LEMMA RunStepKeepsRecords ==
    ASSUME IInv, RecordsKept, NEW a \in Agent, RunStep(a)
    PROVE  RecordsKept'
<1>t. /\ phase \in [Agent -> Phases] /\ counter' = counter
      /\ IInv' /\ RecordInv /\ RecordInv'
  <2>1. IInv'
    BY RunStepKeepsInv
  <2>2. QED
    BY <2>1 DEF IInv, GateInv, TypeOK, RunStep, Resume, SessionOpens, PromptStarts, Closes,
                FailsToStart, Rejects, RunEnds
<1>1. \A b \in Agent : phase'[b] = "unborn" <=> phase[b] = "unborn"
  BY <1>t DEF RecordInv
<1>2. CASE Resume(a) \/ PromptStarts(a) \/ Closes(a) \/ FailsToStart(a)
  BY <1>1, <1>2, InsideKeepsRecords
     DEF Resume, PromptStarts, Closes, FailsToStart, records, tree
<1>3. CASE SessionOpens(a)
  <2>1. a \in entries
    BY <1>t, <1>3 DEF SessionOpens, RecordInv, RecordsKept, Live
  <2>2. QED
    BY <1>1, <1>3, <2>1 DEF SessionOpens, RecordsKept, Live
<1>4. CASE Rejects(a)
  <2>1. Live(a)
    BY <1>t, <1>4 DEF Rejects, RecordInv, Live
  <2>2. QED
    BY <1>1, <1>4, <2>1, SettleKeepsRecords DEF Rejects, Over
<1>5. ASSUME NEW outcome \in Over, RunEnds(a, outcome)
      PROVE  RecordsKept'
  <2>1. Live(a)
    BY <1>t, <1>5 DEF RunEnds, RecordInv, Live
  <2>2. QED
    BY <1>1, <1>5, <2>1, SettleKeepsRecords DEF RunEnds
<1>6. QED
  BY <1>2, <1>3, <1>4, <1>5 DEF RunStep

\* A new agent has a record, a handle and no session yet.
LEMMA SpawnKeepsRecords ==
    ASSUME IInv, RecordsKept, NEW s \in Session, NEW stopped \in BOOLEAN,
           Spawn(s, stopped)
    PROVE  RecordsKept'
<1> DEFINE a == counter + 1
<1>t. /\ counter \in Nat /\ RecordInv /\ RecordInv' /\ settled \subseteq Agent
      /\ a \in Agent
  <2>1. IInv'
    BY SpawnKeepsInv
  <2>2. QED
    BY <2>1, ServiceAssumption DEF IInv, GateInv, TypeOK, Spawn, Agent
<1>1. /\ entries' = entries \cup {a} /\ handles' = handles \cup {a}
      /\ counter' = counter + 1 /\ UNCHANGED <<settled, fileOf>>
  BY DEF Spawn
<1>2. a \notin settled
  BY <1>t DEF RecordInv, Agent
<1>3. settled' \cap entries' = settled \cap entries
  BY <1>1, <1>2
<1>4. \A b \in Agent : Live(b)' => b = a \/ Live(b)
  BY <1>t, <1>1, ServiceAssumption DEF Live, RecordInv, Agent
<1>5. QED
  BY <1>1, <1>3, <1>4 DEF RecordsKept

\* Eviction removes settled records only, keeps their number within
\* maxTerminalRecords, and takes along what the service keeps per agent.
THEOREM RecordsAreKept == Spec => []RecordsKept
<1>1. Init => RecordsKept
  <2>1. ASSUME Init PROVE Cardinality(settled \cap entries) = 0
    BY <2>1, FS_EmptySet DEF Init
  <2>2. QED
    BY <2>1, ServiceAssumption DEF Init, RecordsKept, Live
<1>2. IInv /\ RecordsKept /\ [Next]_vars => RecordsKept'
  <2> SUFFICES ASSUME IInv, RecordsKept, [Next]_vars PROVE RecordsKept'
    OBVIOUS
  <2>1. CASE \/ UNCHANGED vars
             \/ \E a \in Agent : Abort(a)
             \/ \E own, roots \in SUBSET Agent : CallerAborts(own, roots)
    BY <2>1, InsideKeepsRecords DEF vars, Abort, CallerAborts, records, tree
  <2>2. QED
    BY <2>1, SpawnKeepsRecords, RunStepKeepsRecords DEF Next
<1>3. QED
  BY <1>1, <1>2, Invariance, PTL DEF Spec

-----------------------------------------------------------------------------
(* The walk of abort.                                                      *)

\* The walk of abort visits the least set that holds the agent it starts from
\* and, with an agent whose session file is known, the children of that one.
LEMMA WalkIsClosure ==
    ASSUME TypeOK, NEW a \in Agent
    PROVE  /\ a \in Walk(a) /\ Walk(a) \in SUBSET Agent
           /\ \A b \in Walk(a) \cap fileOf : children[b] \subseteq Walk(a)
           /\ \A X \in SUBSET Agent :
                 a \in X /\ (\A b \in X \cap fileOf : children[b] \subseteq X) => Walk(a) \subseteq X
<1> DEFINE edges == [b \in Agent |-> IF b \in fileOf THEN children[b] ELSE {}]
           Visits(v) == v = [k \in 0..MaxAgents |->
                               IF k = 0 THEN {a}
                               ELSE v[k - 1] \cup UNION {children[b] : b \in v[k - 1] \cap fileOf}]
           g == CHOOSE v : Visits(v)
<1>1. edges \in [Agent -> SUBSET Agent] /\ {a} \in SUBSET Agent /\ MaxAgents \in Nat
  BY ServiceAssumption DEF TypeOK, Session
<1>e. \A X \in SUBSET Agent : UNION {edges[b] : b \in X} = UNION {children[b] : b \in X \cap fileOf}
  OBVIOUS
<1> HIDE DEF edges
<1>2. PICK f \in [0..MaxAgents -> SUBSET Agent] : Search(f, MaxAgents, {a}, edges)
  BY <1>1, SearchExists
<1>3. Visits(f)
  <2>1. \A i \in 0..MaxAgents : i # 0 => f[i - 1] \in SUBSET Agent
    BY <1>1
  <2>2. \A i \in 0..MaxAgents :
           f[i] = IF i = 0 THEN {a}
                  ELSE f[i - 1] \cup UNION {children[b] : b \in f[i - 1] \cap fileOf}
    BY <1>2, <1>e, <2>1 DEF Search
  <2>3. QED
    BY <2>2
<1>4. Visits(g)
  BY <1>3, Zenon
<1>5. Walk(a) = g[MaxAgents]
  BY DEF Walk
<1> HIDE DEF g
<1>6. \A k \in 0..MaxAgents : g[k] \in SUBSET Agent
  <2> DEFINE Known == {k \in 0..MaxAgents : g[k] \in SUBSET Agent}
  <2>1. 0 \in Known
    BY <1>1, <1>4
  <2>2. ASSUME NEW k \in 0..MaxAgents, k \in Known, k + 1 <= MaxAgents
        PROVE  k + 1 \in Known
    <3>1. k + 1 \in 0..MaxAgents /\ k + 1 # 0 /\ (k + 1) - 1 = k
      BY <1>1, <2>2
    <3>2. g[k + 1] = g[k] \cup UNION {children[b] : b \in g[k] \cap fileOf}
      BY <1>4, <3>1
    <3>3. QED
      BY <2>2, <3>1, <3>2 DEF TypeOK, Session
  <2> HIDE DEF Known
  <2>3. \A k \in 0..MaxAgents : k \in Known /\ k + 1 <= MaxAgents => k + 1 \in Known
    BY <2>2
  <2>4. \A k \in 0..MaxAgents : k \in Known
    BY <1>1, <2>1, <2>3, Ascend
  <2>5. QED
    BY <2>4 DEF Known
<1>7. Follows(Agent, edges, {a}, MaxAgents, g)
  <2>1. IsFiniteSet(Agent) /\ Cardinality(Agent) <= MaxAgents + Cardinality({a})
    <3>1. IsFiniteSet(Agent) /\ Cardinality(Agent) = MaxAgents
      BY <1>1, FS_Interval DEF Agent
    <3>2. Cardinality({a}) = 1
      BY FS_Singleton
    <3>3. QED
      BY <1>1, <3>1, <3>2
  <2>2. \A i \in 0..MaxAgents : i # 0 => g[i - 1] \in SUBSET Agent
    BY <1>1, <1>6
  <2>3. \A i \in 0..MaxAgents :
           g[i] = IF i = 0 THEN {a} ELSE g[i - 1] \cup UNION {edges[x] : x \in g[i - 1]}
    BY <1>4, <1>e, <2>2
  <2>4. g = [i \in 0..MaxAgents |-> g[i]]
    BY <1>4
  <2>5. g = [i \in 0..MaxAgents |-> IF i = 0 THEN {a}
                                    ELSE g[i - 1] \cup UNION {edges[x] : x \in g[i - 1]}]
    BY <2>3, <2>4
  <2>6. QED
    BY <1>1, <2>1, <2>5 DEF Follows, Search
<1>8. /\ {a} \subseteq g[MaxAgents] /\ g[MaxAgents] \in SUBSET Agent
      /\ \A x \in g[MaxAgents] : edges[x] \subseteq g[MaxAgents]
      /\ \A X \in SUBSET Agent :
            {a} \subseteq X /\ (\A x \in X : edges[x] \subseteq X) => g[MaxAgents] \subseteq X
  BY <1>7, SearchCloses
<1>9. \A b \in Agent : edges[b] = IF b \in fileOf THEN children[b] ELSE {}
  BY DEF edges
<1>10. QED
  BY <1>5, <1>8, <1>9

\* The ancestors of an agent are the least set that holds the agent it was
\* spawned from and, with each one, the agent that one was spawned from.
LEMMA AncestorsAreClosure ==
    ASSUME TypeOK, NEW a \in Agent
    PROVE  /\ Ancestors(a) \in SUBSET Agent
           /\ parent[a] # 0 => parent[a] \in Ancestors(a)
           /\ \A b \in Ancestors(a) : parent[b] # 0 => parent[b] \in Ancestors(a)
           /\ \A X \in SUBSET Agent :
                 /\ parent[a] # 0 => parent[a] \in X
                 /\ \A b \in X : parent[b] # 0 => parent[b] \in X
                 => Ancestors(a) \subseteq X
<1> DEFINE edges == [b \in Session |-> IF b = 0 THEN {} ELSE {parent[b]}]
           Climbs(v) == v = [k \in 0..MaxAgents |->
                               IF k = 0 THEN {parent[a]}
                               ELSE v[k - 1] \cup {parent[b] : b \in v[k - 1] \ {0}}]
           g == CHOOSE v : Climbs(v)
<1>0. /\ \A b \in Session : b # 0 => parent[b] \in Session
      /\ parent[a] \in Session /\ MaxAgents \in Nat
      /\ Session = 0..MaxAgents /\ Agent = Session \ {0}
  BY ServiceAssumption DEF TypeOK, Session, Agent
<1>1. edges \in [Session -> SUBSET Session] /\ {parent[a]} \in SUBSET Session
  BY <1>0
<1>e. \A X \in SUBSET Session : UNION {edges[b] : b \in X} = {parent[b] : b \in X \ {0}}
  OBVIOUS
<1> HIDE DEF edges
<1>2. PICK f \in [0..MaxAgents -> SUBSET Session] : Search(f, MaxAgents, {parent[a]}, edges)
  BY <1>0, <1>1, SearchExists
<1>3. Climbs(f)
  <2>1. \A i \in 0..MaxAgents : i # 0 => f[i - 1] \in SUBSET Session
    BY <1>0
  <2>2. \A i \in 0..MaxAgents :
           f[i] = IF i = 0 THEN {parent[a]}
                  ELSE f[i - 1] \cup {parent[b] : b \in f[i - 1] \ {0}}
    BY <1>2, <1>e, <2>1 DEF Search
  <2>3. QED
    BY <2>2
<1>4. Climbs(g)
  BY <1>3, Zenon
<1>5. Ancestors(a) = g[MaxAgents] \ {0}
  BY DEF Ancestors
<1> HIDE DEF g
<1>6. \A k \in 0..MaxAgents : g[k] \in SUBSET Session
  <2> DEFINE Known == {k \in 0..MaxAgents : g[k] \in SUBSET Session}
  <2>1. 0 \in Known
    BY <1>0, <1>1, <1>4
  <2>2. ASSUME NEW k \in 0..MaxAgents, k \in Known, k + 1 <= MaxAgents
        PROVE  k + 1 \in Known
    <3>1. k + 1 \in 0..MaxAgents /\ k + 1 # 0 /\ (k + 1) - 1 = k
      BY <1>0, <2>2
    <3>2. g[k + 1] = g[k] \cup {parent[b] : b \in g[k] \ {0}}
      BY <1>4, <3>1
    <3>3. g[k] \in SUBSET Session
      BY <2>2
    <3>4. {parent[b] : b \in g[k] \ {0}} \in SUBSET Session
      BY <1>0, <3>3
    <3>5. QED
      BY <3>1, <3>2, <3>3, <3>4
  <2> HIDE DEF Known
  <2>3. \A k \in 0..MaxAgents : k \in Known /\ k + 1 <= MaxAgents => k + 1 \in Known
    BY <2>2
  <2>4. \A k \in 0..MaxAgents : k \in Known
    BY <1>0, <2>1, <2>3, Ascend
  <2>5. QED
    BY <2>4 DEF Known
<1>7. Follows(Session, edges, {parent[a]}, MaxAgents, g)
  <2>1. IsFiniteSet(Session) /\ Cardinality(Session) <= MaxAgents + Cardinality({parent[a]})
    <3>1. IsFiniteSet(0..MaxAgents) /\ Cardinality(0..MaxAgents) = MaxAgents + 1
      BY <1>0, FS_Interval
    <3>2. Cardinality({parent[a]}) = 1
      BY FS_Singleton
    <3>3. QED
      BY <1>0, <3>1, <3>2
  <2>2. \A i \in 0..MaxAgents : i # 0 => g[i - 1] \in SUBSET Session
    BY <1>0, <1>6
  <2>3. \A i \in 0..MaxAgents :
           g[i] = IF i = 0 THEN {parent[a]} ELSE g[i - 1] \cup UNION {edges[x] : x \in g[i - 1]}
    BY <1>4, <1>e, <2>2
  <2>4. g = [i \in 0..MaxAgents |-> g[i]]
    BY <1>4
  <2>5. g = [i \in 0..MaxAgents |-> IF i = 0 THEN {parent[a]}
                                    ELSE g[i - 1] \cup UNION {edges[x] : x \in g[i - 1]}]
    BY <2>3, <2>4
  <2>6. QED
    BY <1>0, <1>1, <2>1, <2>5 DEF Follows, Search
<1>8. /\ {parent[a]} \subseteq g[MaxAgents] /\ g[MaxAgents] \in SUBSET Session
      /\ \A x \in g[MaxAgents] : edges[x] \subseteq g[MaxAgents]
      /\ \A X \in SUBSET Session :
            {parent[a]} \subseteq X /\ (\A x \in X : edges[x] \subseteq X) => g[MaxAgents] \subseteq X
  BY <1>7, SearchCloses
<1>9. \A b \in Session : edges[b] = IF b = 0 THEN {} ELSE {parent[b]}
  BY DEF edges
<1>10. \A b \in Ancestors(a) : parent[b] # 0 => parent[b] \in Ancestors(a)
  BY <1>5, <1>8, <1>9
<1>11. ASSUME NEW X \in SUBSET Agent,
              parent[a] # 0 => parent[a] \in X,
              \A b \in X : parent[b] # 0 => parent[b] \in X
       PROVE  Ancestors(a) \subseteq X
  <2> DEFINE Y == X \cup {0}
  <2>1. Y \in SUBSET Session /\ {parent[a]} \subseteq Y
    BY <1>0, <1>11
  <2>2. ASSUME NEW x \in Y PROVE edges[x] \subseteq Y
    <3>1. CASE x = 0
      <4>1. 0 \in Session
        BY DEF Session
      <4>2. edges[0] = {}
        BY <1>9, <4>1
      <4>3. QED
        BY <3>1, <4>2
    <3>2. CASE x \in X /\ x # 0
      <4>1. edges[x] = {parent[x]} /\ parent[x] \in Session
        BY <1>0, <1>9, <3>2
      <4>2. parent[x] \in Y
        BY <1>11, <3>2
      <4>3. QED
        BY <4>1, <4>2
    <3>3. QED
      BY <3>1, <3>2
  <2>3. g[MaxAgents] \subseteq Y
    BY <1>8, <2>1, <2>2
  <2>4. QED
    BY <1>5, <2>3
<1>12. QED
  BY <1>0, <1>5, <1>8, <1>10, <1>11

-----------------------------------------------------------------------------
(* The tree.                                                               *)

\* An agent is younger than the one it was spawned from, which had a session
\* then; as long as that one is recorded its session file is known and the
\* agent stands among its children.
TreeInv ==
    /\ \A a \in entries : phase[a] \in {"binding", "prompting", "closing", "done"} => a \in fileOf
    /\ \A d \in Agent : d <= counter =>
          LET p == parent[d] IN
          /\ p < d
          /\ p # 0 => phase[p] \in {"prompting", "closing", "done"}
          /\ p \in entries => d \in children[p]

\* A step that settles nobody and spawns nobody keeps the tree.
LEMMA InsideKeepsTree ==
    ASSUME IInv, TreeInv, UNCHANGED <<counter, entries, children, parent>>,
           fileOf \subseteq fileOf',
           \A a \in Agent :
              /\ phase[a] \in {"prompting", "closing", "done"} => phase'[a] \in {"prompting", "closing", "done"}
              /\ phase'[a] \in {"binding", "prompting", "closing", "done"} =>
                    phase[a] \in {"binding", "prompting", "closing", "done"} \/ a \in fileOf'
    PROVE  TreeInv'
BY DEF TreeInv, IInv, GateInv, TypeOK, Session

\* A settlement forgets the children of evicted agents only.
LEMMA SettleKeepsTree ==
    ASSUME IInv, TreeInv, NEW a \in Agent, NEW outcome \in Over, Settle(a, outcome),
           counter' = counter,
           phase[a] \in {"prompting", "failing"},
           phase' = [phase EXCEPT ![a] = IF phase[a] = "prompting" THEN "closing" ELSE "failed"]
    PROVE  TreeInv'
<1> DEFINE out == Evicted((settled \cup {a}) \cap entries)
<1>t. /\ phase \in [Agent -> Phases] /\ entries \subseteq Agent
      /\ children \in [Session -> SUBSET Agent] /\ parent \in [Agent -> Session]
  BY DEF IInv, GateInv, TypeOK
<1>1. /\ entries' = entries \ out /\ fileOf' = fileOf \ out /\ parent' = parent
      /\ children' = [s \in Session |-> IF s \in out \cap fileOf THEN {} ELSE children[s]]
  BY DEF Settle
<1> HIDE DEF out
<1>2. \A b \in Agent :
         /\ phase[b] \in {"prompting", "closing", "done"} => phase'[b] \in {"prompting", "closing", "done"}
         /\ phase'[b] \in {"binding", "prompting", "closing", "done"} =>
               phase[b] \in {"binding", "prompting", "closing", "done"}
  BY <1>t
<1>3. \A b \in entries' : phase'[b] \in {"binding", "prompting", "closing", "done"} => b \in fileOf'
  BY <1>t, <1>1, <1>2 DEF TreeInv
<1>4. ASSUME NEW d \in Agent, d <= counter
      PROVE  LET p == parent[d] IN
             /\ p < d
             /\ p # 0 => phase'[p] \in {"prompting", "closing", "done"}
             /\ p \in entries' => d \in children'[p]
  BY <1>t, <1>1, <1>2, <1>4 DEF TreeInv, Session
<1>5. QED
  BY <1>1, <1>3, <1>4 DEF TreeInv

\* A new agent is the child of a session that is there.
LEMMA SpawnKeepsTree ==
    ASSUME IInv, TreeInv, NEW s \in Session, NEW stopped \in BOOLEAN, Spawn(s, stopped)
    PROVE  TreeInv'
<1> DEFINE a == counter + 1
<1>t. /\ phase \in [Agent -> Phases] /\ entries \subseteq Agent
      /\ children \in [Session -> SUBSET Agent] /\ parent \in [Agent -> Session]
      /\ counter \in Nat /\ MaxAgents \in Nat /\ a \in Agent /\ phase[a] = "unborn"
      /\ \A b \in Agent : phase[b] = "unborn" <=> b > counter
  BY ServiceAssumption DEF IInv, GateInv, TypeOK, RecordInv, Spawn, Agent
<1>1. /\ counter' = a /\ entries' = entries \cup {a} /\ fileOf' = fileOf
      /\ children' = [children EXCEPT ![s] = @ \cup {a}]
      /\ parent' = [parent EXCEPT ![a] = s]
      /\ s = 0 \/ (s \in Agent /\ phase[s] \in {"prompting", "closing", "done"})
  BY DEF Spawn
<1>2. \E next \in {"opening", "waiting"} : phase' = [phase EXCEPT ![a] = next]
  BY DEF Spawn, PassGate
<1>3. \A b \in Agent \ {a} : phase'[b] = phase[b]
  BY <1>t, <1>2
<1>4. phase'[a] \in {"opening", "waiting"}
  BY <1>t, <1>2
<1> HIDE DEF a
<1>5. \A b \in entries' : phase'[b] \in {"binding", "prompting", "closing", "done"} => b \in fileOf'
  BY <1>t, <1>1, <1>3, <1>4 DEF TreeInv
<1>6. s < a /\ s # a
  BY <1>t, <1>1 DEF a, Agent
<1>7. ASSUME NEW d \in Agent, d <= counter'
      PROVE  LET p == parent'[d] IN
             /\ p < d
             /\ p # 0 => phase'[p] \in {"prompting", "closing", "done"}
             /\ p \in entries' => d \in children'[p]
  <2>1. CASE d = a
    BY <1>t, <1>1, <1>3, <1>6, <2>1
  <2>2. CASE d # a
    <3>1. d <= counter
      BY <1>1, <1>t, <1>7, <2>2 DEF a, Agent
    <3>2. /\ parent[d] < d /\ parent'[d] = parent[d] /\ parent[d] \in Session
          /\ parent[d] # 0 => phase[parent[d]] \in {"prompting", "closing", "done"}
          /\ parent[d] \in entries => d \in children[parent[d]]
      BY <1>t, <1>1, <2>2, <3>1 DEF TreeInv
    <3>3. parent[d] # a
      BY <1>t, <3>1, <3>2 DEF a, Agent, Session
    <3>4. parent[d] # 0 => parent[d] \in Agent
      BY <3>2 DEF Session
    <3>5. children[parent[d]] \subseteq children'[parent[d]]
      BY <1>t, <1>1, <3>2
    <3>6. QED
      BY <1>1, <1>3, <3>2, <3>3, <3>4, <3>5
  <2>3. QED
    BY <2>1, <2>2
<1>8. QED
  BY <1>5, <1>7 DEF TreeInv

\* Every step keeps the tree.
LEMMA StepKeepsTree ==
    ASSUME IInv, RecordsKept, TreeInv, [Next]_vars
    PROVE  TreeInv'
<1>t. phase \in [Agent -> Phases]
  BY DEF IInv, GateInv, TypeOK
<1>1. CASE \/ UNCHANGED vars
           \/ \E a \in Agent : Abort(a)
           \/ \E own, roots \in SUBSET Agent : CallerAborts(own, roots)
  BY <1>1, InsideKeepsTree DEF vars, Abort, CallerAborts, records, tree
<1>2. ASSUME NEW a \in Agent, RunStep(a)
      PROVE  TreeInv'
  <2>1. CASE Resume(a)
    BY <1>t, <2>1, InsideKeepsTree DEF Resume, PassGate, records, tree
  <2>2. CASE PromptStarts(a)
    BY <1>t, <2>2, InsideKeepsTree DEF PromptStarts, records, tree
  <2>3. CASE SessionOpens(a)
    BY <1>t, <2>3, InsideKeepsTree DEF SessionOpens
  <2>4. CASE Closes(a) \/ FailsToStart(a)
    <3>1. HoldsSlot(a)
      BY <2>4 DEF Closes, FailsToStart, HoldsSlot
    <3>2. PICK next \in {"failing", "done"} :
             /\ LeaveGate(a, next) /\ UNCHANGED <<counter, records, tree>>
             /\ next = "done" => phase[a] = "closing"
             /\ next = "failing" => phase[a] \in {"opening", "binding"}
      BY <2>4 DEF Closes, FailsToStart
    <3>3. /\ phase'[a] = next
          /\ \A b \in Agent \ {a} : \/ phase'[b] = phase[b]
                                    \/ phase[b] = "waiting" /\ phase'[b] = "woken"
      BY <3>1, <3>2, DepartureKeepsGate DEF IInv
    <3>4. QED
      BY <1>t, <3>2, <3>3, InsideKeepsTree DEF records, tree
  <2>5. CASE Rejects(a)
    BY <2>5, SettleKeepsTree DEF Rejects, Over
  <2>6. ASSUME NEW outcome \in Over, RunEnds(a, outcome)
        PROVE  TreeInv'
    BY <2>6, SettleKeepsTree DEF RunEnds
  <2>7. QED
    BY <1>2, <2>1, <2>2, <2>3, <2>4, <2>5, <2>6 DEF RunStep
<1>3. QED
  BY <1>1, <1>2, SpawnKeepsTree DEF Next

\* As long as the ancestors of an agent are recorded, the walk of abort comes
\* to it from each of them.
LEMMA WalkComesDown ==
    ASSUME IInv, TreeInv, NEW d \in Agent, d <= counter, Ancestors(d) \subseteq entries
    PROVE  \A a \in Ancestors(d) : d \in Walk(a)
<1>t. TypeOK /\ parent \in [Agent -> Session] /\ counter \in Nat
  BY ServiceAssumption DEF IInv, GateInv, TypeOK
<1>1. ASSUME NEW b \in Agent, b <= counter, parent[b] # 0, parent[b] \in entries
      PROVE  /\ parent[b] \in Agent /\ parent[b] <= counter
             /\ b \in Walk(parent[b]) /\ Walk(b) \subseteq Walk(parent[b])
  <2>1. /\ parent[b] \in Agent /\ parent[b] < b
        /\ phase[parent[b]] \in {"prompting", "closing", "done"}
        /\ b \in children[parent[b]]
    BY <1>1, <1>t DEF TreeInv, Session
  <2>2. parent[b] \in fileOf
    BY <1>1, <2>1 DEF TreeInv
  <2>3. /\ parent[b] \in Walk(parent[b]) /\ Walk(parent[b]) \in SUBSET Agent
        /\ \A c \in Walk(parent[b]) \cap fileOf : children[c] \subseteq Walk(parent[b])
    BY <1>t, <2>1, WalkIsClosure
  <2>4. b \in Walk(parent[b])
    BY <2>1, <2>2, <2>3
  <2>5. Walk(b) \subseteq Walk(parent[b])
    BY <1>t, <2>3, <2>4, WalkIsClosure
  <2>6. QED
    BY <1>1, <1>t, <2>1, <2>4, <2>5, ServiceAssumption DEF Agent
<1> DEFINE Above == {a \in Ancestors(d) : a <= counter /\ d \in Walk(a)}
<1>2. /\ Ancestors(d) \in SUBSET Agent
      /\ parent[d] # 0 => parent[d] \in Ancestors(d)
      /\ \A b \in Ancestors(d) : parent[b] # 0 => parent[b] \in Ancestors(d)
  BY <1>t, AncestorsAreClosure
<1>3. parent[d] # 0 => parent[d] \in Above
  BY <1>1, <1>2
<1>4. ASSUME NEW b \in Above, parent[b] # 0 PROVE parent[b] \in Above
  <2>1. b \in Agent /\ b <= counter /\ d \in Walk(b) /\ parent[b] \in Ancestors(d)
    BY <1>2, <1>4
  <2>2. QED
    BY <1>1, <1>4, <2>1
<1>5. Above \in SUBSET Agent
  BY <1>2
<1> HIDE DEF Above
<1>6. Ancestors(d) \subseteq Above
  BY <1>t, <1>3, <1>4, <1>5, AncestorsAreClosure
<1>7. QED
  BY <1>6 DEF Above

\* abort(id) reaches every live descendant whose ancestors are still recorded,
\* whatever has settled or been evicted in between.
THEOREM AbortReaches == Spec => []AbortReachesRecorded
<1>1. Init => TreeInv
  BY ServiceAssumption DEF Init, TreeInv, Agent
<1>2. IInv /\ RecordsKept /\ TreeInv /\ [Next]_vars => TreeInv'
  BY StepKeepsTree
<1>3. IInv /\ RecordsKept /\ TreeInv => AbortReachesRecorded
  <2> SUFFICES ASSUME IInv, RecordsKept, TreeInv, NEW d \in Agent, Live(d),
                      Ancestors(d) \subseteq entries, NEW a \in Ancestors(d)
               PROVE  d \in Walk(a) \cap handles
    BY DEF AbortReachesRecorded
  <2>1. d <= counter /\ d \in handles
    BY ServiceAssumption DEF IInv, GateInv, TypeOK, RecordInv, Live, RecordsKept, Agent
  <2>2. QED
    BY <2>1, WalkComesDown
<1>4. QED
  BY <1>1, <1>2, <1>3, Invariance, RecordsAreKept, PTL DEF Spec

-----------------------------------------------------------------------------
(* Tool calls.                                                             *)

CallTypes ==
    /\ caller \in [Call -> Session]
    /\ attempts \in [Call -> Seq(Agent)]
    /\ stage \in [Call -> Stages]
    /\ cancelled \subseteq Call

\* All attempts but the one in wait are over, and after the signal of the call
\* each is over or knows.
AttemptInv ==
    \A c \in Call : plan[c].kind # "join" =>
        \A i \in 1..Len(attempts[c]) :
            /\ attempts[c][i] <= counter
            /\ i < Len(attempts[c]) => attempts[c][i] \in settled
            /\ stage[c] \in {"idle", "loading", "delaying"} => attempts[c][i] \in settled
            /\ c \in cancelled => attempts[c][i] \in settled \cup aborted

CallInv == IInv /\ CallTypes /\ AttemptInv

-----------------------------------------------------------------------------
(* The service under the calls.                                            *)

\* What a call spawned or joined is an agent.
LEMMA OwnAgents ==
    ASSUME CallTypes, NEW c \in Call
    PROVE  Own(c) \in SUBSET Agent
<1>1. attempts[c] \in Seq(Agent)
  BY DEF CallTypes
<1>2. \A i \in DOMAIN attempts[c] : attempts[c][i] \in Agent
  BY <1>1
<1>3. QED
  BY <1>2 DEF Own, Range

\* The signal of calls is a signal the service was given.
LEMMA SignalIsServiceStep ==
    ASSUME CallTypes, NEW C \in SUBSET Call, SignalFires(C)
    PROVE  Next
<1>1. UNION {Own(c) : c \in C} \in SUBSET Agent
  BY OwnAgents
<1>2. Listening(C) \in SUBSET Agent
  <2> SUFFICES ASSUME NEW c \in C, attempts[c] # << >>
               PROVE  attempts[c][1] \in Agent
    BY DEF Listening
  <2>1. attempts[c] \in Seq(Agent)
    BY DEF CallTypes
  <2>2. QED
    BY <2>1
<1>3. CallerAborts(UNION {Own(c) : c \in C}, Listening(C))
  BY DEF SignalFires
<1>4. QED
  BY <1>1, <1>2, <1>3 DEF Next

\* A spawn of a call is a spawn of the service.
LEMMA SpawnIsServiceStep ==
    ASSUME CallTypes, NEW c \in Call, NEW next, SpawnAttempt(c, next)
    PROVE  Next
<1>1. caller[c] \in Session /\ (c \in cancelled) \in BOOLEAN
  BY DEF CallTypes
<1>2. Spawn(caller[c], c \in cancelled)
  BY DEF SpawnAttempt
<1>3. QED
  BY <1>1, <1>2 DEF Next

\* Every step of the calls is one of the service or leaves it alone.
LEMMA ServiceStep ==
    ASSUME CallTypes, CallNext
    PROVE  [Next]_vars
<1>1. ASSUME NEW c \in Call, CallStep(c)
      PROVE  [Next]_vars
  BY <1>1, SpawnIsServiceStep DEF CallStep, Loaded, AttemptSettles, Retry, LoopRetries
<1>2. ASSUME NEW c \in Call, NEW s \in Session, Invoke(c, s)
      PROVE  [Next]_vars
  BY <1>2 DEF Invoke
<1>3. ASSUME NEW c \in Call, NEW s \in Session, NEW a \in Agent, Join(c, s, a)
      PROVE  [Next]_vars
  BY <1>3 DEF Join
<1>4. ASSUME NEW c \in Call, UserCancels(c)
      PROVE  [Next]_vars
  BY <1>4, SignalIsServiceStep DEF UserCancels
<1>5. ASSUME NEW a \in Agent, SessionStops(a)
      PROVE  [Next]_vars
  BY <1>5, SignalIsServiceStep DEF SessionStops, MadeIn
<1>6. ASSUME NEW a \in Agent, Proceeds(a)
      PROVE  [Next]_vars
  BY <1>6 DEF Proceeds, Next, RunStep
<1>7. ASSUME NEW a \in Agent, NEW outcome \in Over, PromptOver(a, outcome)
      PROVE  [Next]_vars
  BY <1>7 DEF PromptOver, Next, RunStep
<1>8. QED
  BY <1>1, <1>2, <1>3, <1>4, <1>5, <1>6, <1>7 DEF CallNext

\* The service only adds to what is settled, aborted and given out.
LEMMA ServiceGrows ==
    ASSUME IInv, [Next]_vars
    PROVE  settled \subseteq settled' /\ aborted \subseteq aborted' /\ counter <= counter'
<1>t. counter \in Nat /\ TypeOK
  BY ServiceAssumption DEF IInv, GateInv, TypeOK
<1>1. CASE UNCHANGED vars
  BY <1>1, <1>t DEF vars, records, tree
<1>2. ASSUME NEW s \in Session, NEW flag \in BOOLEAN, Spawn(s, flag)
      PROVE  settled \subseteq settled' /\ aborted \subseteq aborted' /\ counter <= counter'
  BY <1>2, <1>t DEF Spawn
<1>3. CASE \/ \E a \in Agent : Abort(a)
           \/ \E own, roots \in SUBSET Agent : CallerAborts(own, roots)
  BY <1>3, <1>t DEF Abort, CallerAborts, records
<1>4. ASSUME NEW a \in Agent, RunStep(a)
      PROVE  settled \subseteq settled' /\ aborted \subseteq aborted' /\ counter <= counter'
  BY <1>4, <1>t DEF RunStep, Resume, SessionOpens, PromptStarts, Closes, FailsToStart, Rejects,
                    RunEnds, Settle, records, tree
<1>5. QED
  BY <1>1, <1>2, <1>3, <1>4 DEF Next

-----------------------------------------------------------------------------
(* The calls.                                                              *)

\* The invariant holds before the first call.
LEMMA CallInitInv == CallInit => CallInv
<1> SUFFICES ASSUME CallInit PROVE CallInv
  OBVIOUS
<1>1. IInv
  BY InitInv DEF CallInit
<1>2. CallTypes
  BY DEF CallInit, CallTypes, Session, Stages
<1>3. AttemptInv
  BY DEF CallInit, AttemptInv
<1>4. QED
  BY <1>1, <1>2, <1>3 DEF CallInv

\* An attempt is spawned when all before it are over, with the signal of the
\* call as it then is.
LEMMA SpawnKeepsCalls ==
    ASSUME CallInv, NEW c \in Call, NEW next \in Stages \ {"idle", "loading", "delaying"},
           stage[c] \in {"loading", "delaying"},
           SpawnAttempt(c, next), UNCHANGED <<plan, caller, cancelled>>
    PROVE  CallTypes' /\ AttemptInv'
<1> DEFINE a == counter + 1
<1>t. /\ caller \in [Call -> Session] /\ attempts \in [Call -> Seq(Agent)]
      /\ stage \in [Call -> Stages] /\ cancelled \subseteq Call
      /\ counter \in Nat /\ MaxAgents \in Nat
  BY ServiceAssumption DEF CallInv, CallTypes, IInv, GateInv, TypeOK
<1>1. /\ counter' = a /\ a \in Agent
      /\ settled' = settled
      /\ aborted \subseteq aborted' /\ (c \in cancelled => a \in aborted')
  BY <1>t DEF SpawnAttempt, Spawn, Agent
<1>2. /\ attempts' = [attempts EXCEPT ![c] = Append(@, a)]
      /\ stage' = [stage EXCEPT ![c] = next]
  BY <1>1 DEF SpawnAttempt
<1>3. CallTypes'
  <2>1. Append(attempts[c], a) \in Seq(Agent)
    BY <1>t, <1>1
  <2>2. QED
    BY <1>t, <1>2, <2>1 DEF CallTypes
<1>4. ASSUME NEW d \in Call, plan[d].kind # "join", NEW i \in 1..Len(attempts'[d])
      PROVE  /\ attempts'[d][i] <= counter'
             /\ i < Len(attempts'[d]) => attempts'[d][i] \in settled'
             /\ stage'[d] \in {"idle", "loading", "delaying"} => attempts'[d][i] \in settled'
             /\ d \in cancelled' => attempts'[d][i] \in settled' \cup aborted'
  <2>0. attempts[d] \in Seq(Agent) /\ \A j \in 1..Len(attempts[d]) : attempts[d][j] \in Nat
    BY <1>t DEF Agent
  <2>h. ASSUME NEW j \in 1..Len(attempts[d])
        PROVE  /\ attempts[d][j] <= counter
               /\ j < Len(attempts[d]) => attempts[d][j] \in settled
               /\ stage[d] \in {"idle", "loading", "delaying"} => attempts[d][j] \in settled
               /\ d \in cancelled => attempts[d][j] \in settled \cup aborted
    BY <1>4 DEF CallInv, AttemptInv
  <2>1. CASE d # c
    <3>1. attempts'[d] = attempts[d] /\ stage'[d] = stage[d]
      BY <1>t, <1>2, <2>1
    <3>2. QED
      BY <1>t, <1>1, <2>0, <2>h, <3>1, <1>4
  <2>2. CASE d = c
    <3>1. attempts'[c] = Append(attempts[c], a) /\ stage'[c] = next
      BY <1>t, <1>2
    <3>2. Len(attempts'[c]) = Len(attempts[c]) + 1 /\ Len(attempts[c]) \in Nat
      BY <3>1, <2>0, <2>2
    <3>3. CASE i = Len(attempts[c]) + 1
      <4>1. attempts'[c][i] = a
        BY <3>1, <3>3, <2>0, <2>2
      <4>2. QED
        BY <4>1, <3>1, <3>2, <3>3, <2>2, <1>1, <1>t
    <3>4. CASE i \in 1..Len(attempts[c])
      <4>1. attempts'[c][i] = attempts[c][i]
        BY <3>1, <3>4, <2>0, <2>2
      <4>2. attempts[c][i] <= counter /\ attempts[c][i] \in settled /\ attempts[c][i] \in Nat
        BY <2>h, <3>4, <2>2, <2>0
      <4>3. QED
        BY <4>1, <4>2, <1>1, <1>t, <2>2
    <3>5. QED
      BY <3>2, <3>3, <3>4, <1>4, <2>2
  <2>3. QED
    BY <2>1, <2>2
<1>5. QED
  BY <1>3, <1>4 DEF AttemptInv

\* A step of the service alone, or of a call that spawns nothing: the attempts
\* stay, and a stage is entered in which all are over only if they are.
LEMMA QuietKeepsAttempts ==
    ASSUME CallInv, [Next]_vars, UNCHANGED <<plan, attempts, cancelled>>,
           \A c \in Call :
              stage'[c] \in {"idle", "loading", "delaying"} =>
                \/ stage[c] \in {"idle", "loading", "delaying"}
                \/ stage[c] = "awaiting" /\ Attempt(c) \in settled
    PROVE  AttemptInv'
<1>1. settled \subseteq settled' /\ aborted \subseteq aborted' /\ counter <= counter'
  BY ServiceGrows DEF CallInv
<1>2. counter \in Nat /\ counter' \in Nat
  <2>1. IInv'
    BY NextInv DEF CallInv
  <2>2. QED
    BY <2>1, ServiceAssumption DEF CallInv, IInv, GateInv, TypeOK
<1> SUFFICES ASSUME NEW c \in Call, plan[c].kind # "join", NEW i \in 1..Len(attempts[c])
             PROVE  /\ attempts[c][i] <= counter'
                    /\ i < Len(attempts[c]) => attempts[c][i] \in settled'
                    /\ stage'[c] \in {"idle", "loading", "delaying"} => attempts[c][i] \in settled'
                    /\ c \in cancelled => attempts[c][i] \in settled' \cup aborted'
  BY DEF AttemptInv
<1>3. attempts[c] \in Seq(Agent) /\ attempts[c][i] \in Nat
  <2>1. attempts[c] \in Seq(Agent)
    BY DEF CallInv, CallTypes
  <2>2. attempts[c][i] \in Agent
    BY <2>1
  <2>3. QED
    BY <2>1, <2>2, ServiceAssumption DEF Agent
<1>4. /\ attempts[c][i] <= counter
      /\ i < Len(attempts[c]) => attempts[c][i] \in settled
      /\ stage[c] \in {"idle", "loading", "delaying"} => attempts[c][i] \in settled
      /\ c \in cancelled => attempts[c][i] \in settled \cup aborted
  BY DEF CallInv, AttemptInv
<1>5. ASSUME Attempt(c) \in settled PROVE attempts[c][i] \in settled
  <2>1. CASE i = Len(attempts[c])
    BY <1>5, <2>1 DEF Attempt, Last
  <2>2. CASE i < Len(attempts[c])
    BY <1>4, <2>2
  <2>3. QED
    BY <1>3, <2>1, <2>2
<1>6. QED
  BY <1>1, <1>2, <1>3, <1>4, <1>5

\* A signal reaches every attempt that is not over.
LEMMA SignalKeepsCalls ==
    ASSUME CallInv, NEW C \in SUBSET Call, SignalFires(C)
    PROVE  CallTypes' /\ AttemptInv'
<1>1. CallTypes'
  BY DEF CallInv, CallTypes, SignalFires
<1>2. /\ settled' = settled /\ counter' = counter
      /\ aborted' = aborted \cup {a \in UNION {Own(c) : c \in C} : Live(a)}
                     \cup ((UNION {Walk(a) : a \in Listening(C)}) \cap handles)
      /\ cancelled' = cancelled \cup C
      /\ UNCHANGED <<plan, stage, attempts>>
  BY DEF SignalFires, CallerAborts, records
<1>3. ASSUME NEW c \in C, plan[c].kind # "join", NEW i \in 1..Len(attempts[c])
      PROVE  attempts[c][i] \in settled' \cup aborted'
  <2>1. attempts[c][i] \in Own(c)
    <3>1. i \in DOMAIN attempts[c]
      BY DEF CallInv, CallTypes
    <3>2. QED
      BY <1>3, <3>1 DEF Own, Range
  <2>2. attempts[c][i] \in Agent /\ attempts[c][i] <= counter
    BY <1>3 DEF CallInv, CallTypes, AttemptInv
  <2>3. phase[attempts[c][i]] # "unborn"
    BY <2>2, ServiceAssumption DEF CallInv, IInv, GateInv, TypeOK, RecordInv, Agent
  <2>4. QED
    BY <1>2, <2>1, <2>3 DEF Live
<1>4. AttemptInv'
  BY <1>2, <1>3 DEF CallInv, AttemptInv
<1>5. QED
  BY <1>1, <1>4

\* Every step of a call keeps the invariant.
LEMMA CallStepKeepsCalls ==
    ASSUME CallInv, NEW c \in Call, CallStep(c), [Next]_vars
    PROVE  CallTypes' /\ AttemptInv'
<1>t. CallTypes /\ stage \in [Call -> Stages]
  BY DEF CallInv, CallTypes
<1>1. CASE Loaded(c)
  BY <1>1, SpawnKeepsCalls DEF Loaded, Stages
<1>2. CASE Retry(c)
  BY <1>2, SpawnKeepsCalls DEF Retry, Stages
<1>3. CASE AttemptSettles(c)
  <2>1. \E next \in Stages : stage' = [stage EXCEPT ![c] = next]
    BY <1>3 DEF AttemptSettles, Answered, IterationDone, IterationFailed, Stages
  <2>2. CallTypes'
    BY <1>3, <1>t, <2>1 DEF AttemptSettles, CallTypes
  <2>3. AttemptInv'
    BY <1>3, <1>t, <2>1, QuietKeepsAttempts DEF AttemptSettles
  <2>4. QED
    BY <2>2, <2>3
<1>4. CASE LoopRetries(c)
  <2>1. CallTypes'
    BY <1>4, <1>t DEF LoopRetries, CallTypes, Stages
  <2>2. AttemptInv'
    BY <1>4, <1>t, QuietKeepsAttempts DEF LoopRetries
  <2>3. QED
    BY <2>1, <2>2
<1>5. QED
  BY <1>1, <1>2, <1>3, <1>4 DEF CallStep

\* So does the beginning of one.
LEMMA BeginningKeepsCalls ==
    ASSUME CallInv, [Next]_vars, NEW c \in Call, NEW s \in Session,
           Invoke(c, s) \/ \E a \in Agent : Join(c, s, a)
    PROVE  CallTypes' /\ AttemptInv'
<1>t. CallTypes /\ stage \in [Call -> Stages] /\ caller \in [Call -> Session]
  BY DEF CallInv, CallTypes
<1>1. CASE Invoke(c, s)
  <2>1. CallTypes'
    BY <1>1, <1>t DEF Invoke, MayCall, CallTypes, Stages
  <2>2. stage[c] = "idle" /\ UNCHANGED <<plan, attempts, cancelled>>
    BY <1>1 DEF Invoke, MayCall
  <2>3. \A d \in Call \ {c} : stage'[d] = stage[d]
    BY <1>1, <1>t DEF Invoke
  <2>4. AttemptInv'
    BY <2>2, <2>3, QuietKeepsAttempts
  <2>5. QED
    BY <2>1, <2>4
<1>2. ASSUME NEW a \in Agent, Join(c, s, a)
      PROVE  CallTypes' /\ AttemptInv'
  <2>1. CallTypes'
    BY <1>2, <1>t DEF Join, MayCall, CallTypes, Stages
  <2>2. /\ plan[c].kind = "join" /\ UNCHANGED <<vars, plan, cancelled>>
        /\ \A d \in Call \ {c} : stage'[d] = stage[d] /\ attempts'[d] = attempts[d]
    BY <1>2, <1>t DEF Join, CallTypes
  <2>3. UNCHANGED <<settled, aborted, counter>>
    BY <2>2 DEF vars, records, tree
  <2>4. AttemptInv'
    BY <2>2, <2>3 DEF CallInv, AttemptInv
  <2>5. QED
    BY <2>1, <2>4
<1>3. QED
  BY <1>1, <1>2

\* The invariant is inductive.
LEMMA CallNextInv == CallInv /\ [CallNext]_allVars => CallInv'
<1> SUFFICES ASSUME CallInv, [CallNext]_allVars PROVE CallInv'
  OBVIOUS
<1>1. [Next]_vars
  BY ServiceStep DEF CallInv, allVars
<1>2. IInv'
  BY <1>1, NextInv DEF CallInv
<1>3. CASE UNCHANGED calls
  <2>1. CallTypes'
    BY <1>3 DEF CallInv, CallTypes, calls
  <2>2. AttemptInv'
    BY <1>1, <1>3, QuietKeepsAttempts DEF calls
  <2>3. QED
    BY <1>2, <2>1, <2>2 DEF CallInv
<1>4. CASE \E c \in Call : CallStep(c)
  BY <1>1, <1>2, <1>4, CallStepKeepsCalls DEF CallInv
<1>5. CASE \E c \in Call, s \in Session : Invoke(c, s) \/ \E a \in Agent : Join(c, s, a)
  BY <1>1, <1>2, <1>5, BeginningKeepsCalls DEF CallInv
<1>6. CASE \E C \in SUBSET Call : SignalFires(C)
  BY <1>2, <1>6, SignalKeepsCalls DEF CallInv
<1>7. QED
  <2>1. CASE UNCHANGED allVars
    BY <2>1, <1>3 DEF allVars
  <2>2. CASE CallNext
    <3>1. ASSUME NEW a \in Agent, SessionStops(a)
          PROVE  \E C \in SUBSET Call : SignalFires(C)
      BY <3>1 DEF SessionStops, MadeIn
    <3>2. ASSUME NEW c \in Call, UserCancels(c)
          PROVE  \E C \in SUBSET Call : SignalFires(C)
      BY <3>2 DEF UserCancels
    <3>3. ASSUME NEW a \in Agent, Proceeds(a) \/ \E outcome \in Over : PromptOver(a, outcome)
          PROVE  UNCHANGED calls
      BY <3>3 DEF Proceeds, PromptOver
    <3>4. QED
      BY <2>2, <3>1, <3>2, <3>3, <1>3, <1>4, <1>5, <1>6 DEF CallNext
  <2>3. QED
    BY <2>1, <2>2

\* The invariant holds throughout.
THEOREM CallInvariance == CallSpec => []CallInv
BY CallInitInv, CallNextInv, PTL DEF CallSpec

-----------------------------------------------------------------------------

\* Tool calls, nested and cancelled ones included, use the service in no way
\* its own specification does not allow.
THEOREM CallsUseService == CallSpec => Spec
<1>1. CallInit => Init
  BY DEF CallInit
<1>2. CallInv /\ [CallNext]_allVars => [Next]_vars
  BY ServiceStep DEF CallInv, allVars
<1>3. QED
  BY <1>1, <1>2, CallInvariance, PTL DEF CallSpec, Spec

\* Under any pattern of calls the gate stays exact, no wakeup is lost, records
\* are kept, abort reaches the descendants it should and a settled run keeps
\* its outcome.
THEOREM ServiceHoldsUnderCalls ==
    CallSpec => /\ [](GateExact /\ NoLostWakeup /\ RecordsKept /\ AbortReachesRecorded)
                /\ SettledForGood
BY CallsUseService, GateIsExact, NoWakeupLost, RecordsAreKept, AbortReaches, OutcomeIsFinal, PTL

\* A call has one attempt in progress at a time, and once the signal of the
\* call has fired that attempt knows, be it the first one or a retry.
THEOREM CancelReachesAttempts == CallSpec => []CancelReachesAttempt
<1>1. CallInv => CancelReachesAttempt
  <2> SUFFICES ASSUME CallInv, NEW c \in Call
               PROVE  /\ Cardinality({a \in Own(c) : Live(a)}) <= 1
                      /\ c \in cancelled => {a \in Own(c) : Live(a)} \subseteq aborted
    BY DEF CancelReachesAttempt
  <2> DEFINE alive == {a \in Own(c) : Live(a)}
  <2>1. CASE plan[c].kind = "join"
    <3>1. alive = {}
      BY <2>1 DEF Own
    <3>2. QED
      BY <3>1, FS_EmptySet
  <2>2. CASE plan[c].kind # "join"
    <3>1. attempts[c] \in Seq(Agent) /\ Len(attempts[c]) \in Nat
      BY DEF CallInv, CallTypes
    <3>2. ASSUME NEW a \in alive
          PROVE  a = attempts[c][Len(attempts[c])] /\ (c \in cancelled => a \in aborted)
      <4>1. PICK i \in 1..Len(attempts[c]) : a = attempts[c][i]
        BY <2>2, <3>1, <3>2 DEF Own, Range
      <4>2. a \notin settled
        BY <3>2 DEF Live
      <4>3. QED
        BY <2>2, <3>1, <4>1, <4>2 DEF CallInv, AttemptInv
    <3>3. alive \subseteq {attempts[c][Len(attempts[c])]}
      BY <3>2
    <3>4. Cardinality(alive) <= 1
      <4>1. IsFiniteSet({attempts[c][Len(attempts[c])]}) /\
            Cardinality({attempts[c][Len(attempts[c])]}) = 1
        BY FS_Singleton
      <4>2. QED
        BY <3>3, <4>1, FS_Subset
    <3>5. QED
      BY <3>2, <3>4
  <2>3. QED
    BY <2>1, <2>2
<1>2. QED
  BY <1>1, CallInvariance, PTL
===============================================================================
