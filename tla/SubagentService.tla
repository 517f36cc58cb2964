--------------------------- MODULE SubagentService ---------------------------
(***************************************************************************)
(* SubagentsService and its registry (src/src/subagent/service.ts,         *)
(* registry.ts, state.ts): the gate that bounds concurrent subagents, the  *)
(* life of one run from spawn to its terminal record, the eviction of old  *)
(* records, and the tree walk of abort.                                    *)
(*                                                                         *)
(* Ids are the registry's counter, so the order of ids is the order of     *)
(* registration.  The session file of an agent is named by its id, the     *)
(* session that owns the service by 0.  A step is what runs between two    *)
(* awaits of runToCompletion.                                              *)
(***************************************************************************)
EXTENDS Integers, Sequences, FiniteSets

CONSTANTS
    MaxAgents,      \* bound of the model: spawns
    MaxConcurrent,  \* maxConcurrentSpawns
    MaxTerminal     \* maxTerminalRecords, 0 keeps every record

ASSUME ServiceAssumption ==
    /\ MaxAgents \in Nat /\ MaxTerminal \in Nat
    /\ MaxConcurrent \in Nat \ {0}

Agent == 1..MaxAgents
Session == {0} \cup Agent

VARIABLES
    counter,        \* ids given out
    phase,          \* where runToCompletion of an agent stands
    status,         \* SubagentState.status
    settled,        \* agents whose completion promise has settled
    entries,        \* keys of the registry
    handles,        \* keys of handles
    aborted,        \* agents whose AbortController has fired
    fileOf,         \* keys of agentToSessionFile
    children,       \* the children map, by session
    parent,         \* the session each agent was spawned from
    runningSpawns,  \* slots taken
    spawnQueue      \* agents that wait for a slot, oldest first

gate == <<runningSpawns, spawnQueue>>
records == <<status, settled, entries>>
tree == <<handles, aborted, fileOf, children, parent>>
vars == <<counter, phase, gate, records, tree>>

Phases == {"unborn", "waiting", "woken", "opening", "binding", "prompting",
           "closing", "failing", "failed", "done"}
Statuses == {"queued", "running", "completed", "aborted", "error"}
Over == {"completed", "aborted", "error"}
HoldsSlot(a) == phase[a] \in {"opening", "binding", "prompting", "closing"}
Live(a) == phase[a] # "unborn" /\ a \notin settled

Init ==
    /\ counter = 0
    /\ phase = [a \in Agent |-> "unborn"]
    /\ status = [a \in Agent |-> "queued"]
    /\ settled = {} /\ entries = {}
    /\ handles = {} /\ aborted = {} /\ fileOf = {}
    /\ children = [s \in Session |-> {}]
    /\ parent = [a \in Agent |-> 0]
    /\ runningSpawns = 0 /\ spawnQueue = << >>

-----------------------------------------------------------------------------
(* The gate: while (running >= max) await a place in the queue.            *)

\* The check of an agent that arrives at the gate, or was woken there.
PassGate(a) ==
    IF runningSpawns < MaxConcurrent
    THEN /\ runningSpawns' = runningSpawns + 1
         /\ phase' = [phase EXCEPT ![a] = "opening"]
         /\ UNCHANGED spawnQueue
    ELSE /\ spawnQueue' = Append(spawnQueue, a)
         /\ phase' = [phase EXCEPT ![a] = "waiting"]
         /\ UNCHANGED runningSpawns

\* The finally block: the slot is given back and the next in line is woken.
LeaveGate(a, next) ==
    /\ runningSpawns' = runningSpawns - 1
    /\ IF spawnQueue = << >>
       THEN /\ phase' = [phase EXCEPT ![a] = next]
            /\ UNCHANGED spawnQueue
       ELSE /\ phase' = [phase EXCEPT ![a] = next, ![Head(spawnQueue)] = "woken"]
            /\ spawnQueue' = Tail(spawnQueue)

\* spawn: register, compose the caller's signal, run up to the first await,
\* note the child under the caller's session.  The tool that calls it has
\* awaited before, so that the prompt it was called in may be over.
Spawn(s, cancelled) ==
    /\ counter < MaxAgents
    /\ s = 0 \/ (s \in Agent /\ phase[s] \in {"prompting", "closing", "done"})
    /\ counter' = counter + 1
    /\ LET a == counter + 1 IN
       /\ entries' = entries \cup {a}
       /\ handles' = handles \cup {a}
       /\ aborted' = IF cancelled THEN aborted \cup {a} ELSE aborted
       /\ children' = [children EXCEPT ![s] = @ \cup {a}]
       /\ parent' = [parent EXCEPT ![a] = s]
       /\ PassGate(a)
    /\ UNCHANGED <<status, settled, fileOf>>

\* Defect: a woken agent takes the slot without looking again.
ResumeUnchecked(a) ==
    /\ phase[a] = "woken"
    /\ runningSpawns' = runningSpawns + 1
    /\ phase' = [phase EXCEPT ![a] = "opening"]
    /\ UNCHANGED <<counter, spawnQueue, records, tree>>

\* A woken agent looks again; a newcomer may have taken the slot.
Resume(a) ==
    /\ phase[a] = "woken"
    /\ PassGate(a)
    /\ UNCHANGED <<counter, records, tree>>

-----------------------------------------------------------------------------
(* One run.                                                                *)

\* Defect: the session file of an agent is not recorded.
SessionOpensUntracked(a) ==
    /\ phase[a] = "opening"
    /\ phase' = [phase EXCEPT ![a] = "binding"]
    /\ status' = [status EXCEPT ![a] = "running"]
    /\ UNCHANGED <<counter, gate, settled, entries, handles, aborted, fileOf, children, parent>>

\* spawnRole returned: the session file is known, the state is running.
SessionOpens(a) ==
    /\ phase[a] = "opening"
    /\ phase' = [phase EXCEPT ![a] = "binding"]
    /\ fileOf' = fileOf \cup {a}
    /\ status' = [status EXCEPT ![a] = "running"]
    /\ UNCHANGED <<counter, gate, settled, entries, handles, aborted, children, parent>>

\* bindExtensions and the hook are over: runSubagent prompts the session.
PromptStarts(a) ==
    /\ phase[a] = "binding"
    /\ phase' = [phase EXCEPT ![a] = "prompting"]
    /\ UNCHANGED <<counter, gate, records, tree>>

\* Defect: the cap is compared off by one.
EvictedLate(over) ==
    {a \in over : MaxTerminal > 0 /\
                  Cardinality({b \in over : b >= a}) > MaxTerminal + 1}

\* evictTerminal: the oldest settled records beyond the cap, and what the
\* service keeps about them.
Evicted(over) ==
    {a \in over : MaxTerminal > 0 /\
                  Cardinality({b \in over : b >= a}) > MaxTerminal}

\* Defect: the promise of a run that is rejected keeps its old status.
SettleQuietly(a, outcome) ==
    LET out == Evicted((settled \cup {a}) \cap entries)
    IN  /\ status' = IF phase[a] = "failing" THEN status
                     ELSE [status EXCEPT ![a] = outcome]
        /\ settled' = settled \cup {a}
        /\ entries' = entries \ out
        /\ handles' = handles \ out
        /\ fileOf' = fileOf \ out
        /\ children' = [s \in Session |-> IF s \in out \cap fileOf THEN {} ELSE children[s]]
        /\ UNCHANGED <<aborted, parent>>

\* registry.resolve and registry.reject.
Settle(a, outcome) ==
    LET out == Evicted((settled \cup {a}) \cap entries)
    IN  /\ status' = [status EXCEPT ![a] = outcome]
        /\ settled' = settled \cup {a}
        /\ entries' = entries \ out
        /\ handles' = handles \ out
        /\ fileOf' = fileOf \ out
        /\ children' = [s \in Session |-> IF s \in out \cap fileOf THEN {} ELSE children[s]]
        /\ UNCHANGED <<aborted, parent>>

\* runSubagent is over and its record is resolved, in one step.  A run whose
\* signal has fired does not complete.
RunEnds(a, outcome) ==
    /\ phase[a] = "prompting"
    /\ outcome \in Over /\ (a \in aborted => outcome # "completed")
    /\ Settle(a, outcome)
    /\ phase' = [phase EXCEPT ![a] = "closing"]
    /\ UNCHANGED <<counter, gate>>

\* The completion hook is over.
Closes(a) ==
    /\ phase[a] = "closing"
    /\ LeaveGate(a, "done")
    /\ UNCHANGED <<counter, records, tree>>

\* Defect: a run that fails to start gives its slot back without waking the
\* next in line.
FailsToStartSilently(a) ==
    /\ phase[a] \in {"opening", "binding"}
    /\ runningSpawns' = runningSpawns - 1
    /\ phase' = [phase EXCEPT ![a] = "failing"]
    /\ UNCHANGED <<counter, spawnQueue, records, tree>>

\* Defect: a run that fails to start keeps its slot.
FailsToStartHolding(a) ==
    /\ phase[a] \in {"opening", "binding"}
    /\ phase' = [phase EXCEPT ![a] = "failing"]
    /\ UNCHANGED <<counter, gate, records, tree>>

\* createSession or bindExtensions throws: the finally block runs first, the
\* catch of spawn a microtask later.
FailsToStart(a) ==
    /\ phase[a] \in {"opening", "binding"}
    /\ LeaveGate(a, "failing")
    /\ UNCHANGED <<counter, records, tree>>

\* The catch of spawn: the record settles as an error.
Rejects(a) ==
    /\ phase[a] = "failing"
    /\ Settle(a, "error")
    /\ phase' = [phase EXCEPT ![a] = "failed"]
    /\ UNCHANGED <<counter, gate>>

-----------------------------------------------------------------------------
(* Cancellation.                                                           *)

\* The agents the walk of abort visits: children are found by the session
\* file of the agent they were spawned from.
Walk(a) ==
    LET visited[k \in 0..MaxAgents] ==
          IF k = 0 THEN {a}
          ELSE visited[k - 1] \cup UNION {children[b] : b \in visited[k - 1] \cap fileOf}
    IN  visited[MaxAgents]

\* abort(id), for a known id.
Abort(a) ==
    /\ a <= counter
    /\ aborted' = aborted \cup (Walk(a) \cap handles)
    /\ UNCHANGED <<counter, phase, gate, records, handles, fileOf, children, parent>>

\* A signal fires that the caller passed to the spawns of own; for the roots
\* it also listens itself, to abort their trees.
CallerAborts(own, roots) ==
    /\ aborted' = aborted \cup {a \in own : Live(a)}
                        \cup ((UNION {Walk(a) : a \in roots}) \cap handles)
    /\ UNCHANGED <<counter, phase, gate, records, handles, fileOf, children, parent>>

-----------------------------------------------------------------------------
RunStep(a) ==
    \/ Resume(a) \/ SessionOpens(a) \/ PromptStarts(a) \/ Closes(a)
    \/ FailsToStart(a) \/ Rejects(a)
    \/ \E outcome \in Over : RunEnds(a, outcome)

Next ==
    \/ \E s \in Session, cancelled \in BOOLEAN : Spawn(s, cancelled)
    \/ \E a \in Agent : RunStep(a) \/ Abort(a)
    \/ \E own, roots \in SUBSET Agent : CallerAborts(own, roots)

Spec == Init /\ [][Next]_vars

-----------------------------------------------------------------------------
(* Properties.                                                             *)

\* The types of the service's maps and counters; runningSpawns never runs
\* below zero, whatever path a run leaves by.
TypeOK ==
    /\ counter \in 0..MaxAgents
    /\ phase \in [Agent -> Phases]
    /\ status \in [Agent -> Statuses]
    /\ settled \subseteq Agent /\ entries \subseteq Agent
    /\ handles \subseteq Agent /\ aborted \subseteq Agent /\ fileOf \subseteq Agent
    /\ children \in [Session -> SUBSET Agent]
    /\ parent \in [Agent -> Session]
    /\ runningSpawns \in Nat
    /\ spawnQueue \in Seq(Agent)

\* The counter of the gate is the number of runs that hold a slot, and never
\* exceeds the limit, through failures to start and racing arrivals.
GateExact ==
    /\ runningSpawns = Cardinality({a \in Agent : HoldsSlot(a)})
    /\ runningSpawns <= MaxConcurrent

\* No agent waits beside a free slot: as long as the queue is not empty, every
\* slot is taken or somebody woken is about to look at it.
NoLostWakeup ==
    spawnQueue # << >> =>
        runningSpawns + Cardinality({a \in Agent : phase[a] = "woken"}) >= MaxConcurrent

\* Eviction removes settled records only, keeps their number within the cap,
\* and what the service keeps per agent goes with the record.
RecordsKept ==
    /\ \A a \in Agent : Live(a) => a \in entries /\ a \in handles
    /\ handles = entries /\ fileOf \subseteq entries
    /\ MaxTerminal > 0 => Cardinality(settled \cap entries) <= MaxTerminal

\* A settled run says so, and keeps the status it settled with.
SettledForGood ==
    [][/\ settled \subseteq settled'
       /\ \A a \in settled : status[a] \in Over /\ status'[a] = status[a]]_vars

Ancestors(a) ==
    LET up[k \in 0..MaxAgents] ==
          IF k = 0 THEN {parent[a]}
          ELSE up[k - 1] \cup {parent[b] : b \in up[k - 1] \ {0}}
    IN  up[MaxAgents] \ {0}

\* abort(a) reaches every live descendant of a whose ancestors are still
\* recorded, whatever has settled in between.
AbortReachesRecorded ==
    \A d \in Agent : Live(d) /\ Ancestors(d) \subseteq entries =>
        \A a \in Ancestors(d) : d \in Walk(a) \cap handles

\* abort(a) reaches every live descendant of a.
AbortReachesDescendants ==
    \A d \in Agent : Live(d) => \A a \in Ancestors(d) : d \in Walk(a) \cap handles
=============================================================================
