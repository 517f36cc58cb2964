------------------------------ MODULE RoleCalls ------------------------------
(***************************************************************************)
(* The tools that spawn subagents and wait for them, over the service:     *)
(* spawn_role in the foreground, in the background and as a join           *)
(* (src/src/subagent/spawn-role-tool.ts), and the bounded loop of          *)
(* workflow_execute (src/src/dag/workflow-execute-tool.ts,                 *)
(* workflow-contract.ts, the spawn function of dag-execute-tool.ts).       *)
(*                                                                         *)
(* A call is made by the main session or in the prompt of a subagent, whose *)
(* tools may themselves call.  The signal of a call fires when the session *)
(* it was made in is told to stop.                                         *)
(***************************************************************************)
EXTENDS SubagentService, SequencesExt

CONSTANTS
    Call,       \* bound of the model: tool calls
    Plans       \* the parameters each call may be made with

VARIABLES
    plan,       \* the parameters of the calls
    stage,      \* where execute stands
    caller,     \* the session a call was made in
    attempts,   \* the agents it spawned or joined, the last one awaited
    retries,    \* spawns left after a failure
    iteration,  \* the iteration of a loop
    cancelled   \* calls whose signal has fired

calls == <<plan, stage, caller, attempts, retries, iteration, cancelled>>
allVars == <<vars, calls>>

Kinds == {"foreground", "background", "join", "loop", "unused"}

\* Parameters, and as a bound of the model the calls whose agents make this
\* one, 0 standing for the main session.
CallParams == [kind : Kinds, retryCount : Nat, maxIterations : Nat \ {0},
             canSpawn : BOOLEAN, madeBy : SUBSET (Call \cup {0})]

Stages == {"idle", "loading", "awaiting", "delaying", "returned", "thrown"}

\* Attempts after the first: retryCount is capped, the attempts of an
\* iteration are not.
Retries(spec) ==
    IF spec.kind = "foreground" THEN Min({spec.retryCount, 3}) ELSE spec.retryCount

\* Agents a call may come to need.
Need(spec) ==
    CASE spec.kind \in {"join", "unused"} -> 0
      [] spec.kind = "background" -> 1
      [] OTHER -> spec.maxIterations * (1 + Retries(spec))

ASSUME CallsAssumption ==
    /\ 0 \notin Call
    /\ Plans \subseteq [Call -> CallParams]
    /\ \A p \in Plans : SumFunction([c \in Call |-> Need(p[c])]) <= MaxAgents

Open(c) == stage[c] \in {"loading", "awaiting", "delaying"}
Attempt(c) == Last(attempts[c])
Own(c) == IF plan[c].kind = "join" THEN {} ELSE Range(attempts[c])
MadeIn(s) == {c \in Call : stage[c] # "idle" /\ caller[c] = s}

CallInit ==
    /\ Init
    /\ plan \in Plans
    /\ stage = [c \in Call |-> "idle"]
    /\ caller = [c \in Call |-> 0]
    /\ attempts = [c \in Call |-> << >>]
    /\ retries = [c \in Call |-> Retries(plan[c])]
    /\ iteration = [c \in Call |-> 1]
    /\ cancelled = {}

-----------------------------------------------------------------------------
(* One call.                                                               *)

\* The role of the agent that calls may not spawn.  Only spawn_role asks.
Denied(c, s) ==
    /\ plan[c].kind \in {"foreground", "background"}
    /\ \E d \in Call : s \in Own(d) /\ ~plan[d].canSpawn

\* A session that was told to stop makes no more calls.
MayCall(c, s) ==
    /\ stage[c] = "idle"
    /\ \/ s = 0 /\ 0 \in plan[c].madeBy
       \/ /\ \E d \in plan[c].madeBy \ {0} : s \in Own(d)
          /\ phase[s] = "prompting" /\ MadeIn(s) \cap cancelled = {}
    /\ caller' = [caller EXCEPT ![c] = s]

\* execute up to its first await, the load of the child's resources.
Invoke(c, s) ==
    /\ MayCall(c, s) /\ plan[c].kind \notin {"join", "unused"}
    /\ stage' = [stage EXCEPT ![c] = IF Denied(c, s) THEN "returned" ELSE "loading"]
    /\ UNCHANGED <<vars, plan, attempts, retries, iteration, cancelled>>

\* The join of an agent, which is refused once its record is evicted.
Join(c, s, a) ==
    /\ MayCall(c, s) /\ plan[c].kind = "join" /\ a <= counter
    /\ stage' = [stage EXCEPT ![c] = IF a \in entries THEN "awaiting" ELSE "thrown"]
    /\ attempts' = [attempts EXCEPT ![c] = <<a>>]
    /\ UNCHANGED <<vars, plan, retries, iteration, cancelled>>

\* service.spawn with the signal of the call.
SpawnAttempt(c, next) ==
    /\ Spawn(caller[c], c \in cancelled)
    /\ attempts' = [attempts EXCEPT ![c] = Append(@, counter')]
    /\ stage' = [stage EXCEPT ![c] = next]

\* The resources are loaded: a background call returns the id.
Loaded(c) ==
    /\ stage[c] = "loading"
    /\ SpawnAttempt(c, IF plan[c].kind = "background" THEN "returned" ELSE "awaiting")
    /\ UNCHANGED <<plan, caller, retries, iteration, cancelled>>

\* waitForResult rejects for an agent that failed to start, and execute with it.
Answered(c) ==
    /\ plan[c].kind # "loop"
    /\ stage' = [stage EXCEPT ![c] =
          IF phase[Attempt(c)] = "failed" THEN "thrown"
          ELSE IF retries[c] > 0 /\ plan[c].kind = "foreground" /\ status[Attempt(c)] # "completed"
          THEN "delaying" ELSE "returned"]
    /\ UNCHANGED iteration /\ UNCHANGED retries

\* The iteration is over: done, the limit, or the next one.
IterationDone(c, done) ==
    /\ plan[c].kind = "loop" /\ status[Attempt(c)] = "completed"
    /\ IF done \/ iteration[c] = plan[c].maxIterations
       THEN stage' = [stage EXCEPT ![c] = "returned"] /\ UNCHANGED <<iteration, retries>>
       ELSE /\ stage' = [stage EXCEPT ![c] = "loading"]
            /\ iteration' = [iteration EXCEPT ![c] = @ + 1]
            /\ retries' = [retries EXCEPT ![c] = Retries(plan[c])]

\* The attempt failed, or failed to start: the loop asks whether to go on.
IterationFailed(c, retryable) ==
    /\ plan[c].kind = "loop" /\ status[Attempt(c)] # "completed"
    /\ stage' = [stage EXCEPT ![c] =
          IF retryable /\ retries[c] > 0 /\ c \notin cancelled THEN "delaying" ELSE "thrown"]
    /\ UNCHANGED iteration /\ UNCHANGED retries

\* The promise of the agent in wait settles.
AttemptSettles(c) ==
    /\ stage[c] = "awaiting" /\ Attempt(c) \in settled
    /\ \/ Answered(c)
       \/ \E flag \in BOOLEAN : IterationDone(c, flag) \/ IterationFailed(c, flag)
    /\ UNCHANGED <<vars, plan, caller, attempts, cancelled>>

\* Defect: the retry is spawned without the signal of the call.
RetryWithoutSignal(c) ==
    /\ stage[c] = "delaying" /\ plan[c].kind = "foreground"
    /\ retries' = [retries EXCEPT ![c] = @ - 1]
    /\ Spawn(caller[c], FALSE)
    /\ attempts' = [attempts EXCEPT ![c] = Append(@, counter')]
    /\ stage' = [stage EXCEPT ![c] = "awaiting"]
    /\ UNCHANGED <<plan, caller, iteration, cancelled>>

\* The delay of spawn_role is over: it spawns again, cancelled or not.
Retry(c) ==
    /\ stage[c] = "delaying" /\ plan[c].kind = "foreground"
    /\ retries' = [retries EXCEPT ![c] = @ - 1]
    /\ SpawnAttempt(c, "awaiting")
    /\ UNCHANGED <<plan, caller, iteration, cancelled>>

\* The delay of the loop is over: it looks at the signal first.
LoopRetries(c) ==
    /\ stage[c] = "delaying" /\ plan[c].kind = "loop"
    /\ stage' = [stage EXCEPT ![c] = IF c \in cancelled THEN "thrown" ELSE "loading"]
    /\ retries' = [retries EXCEPT ![c] = @ - 1]
    /\ UNCHANGED <<vars, plan, caller, attempts, iteration, cancelled>>

CallStep(c) == Loaded(c) \/ AttemptSettles(c) \/ Retry(c) \/ LoopRetries(c)

-----------------------------------------------------------------------------
(* Cancellation.                                                           *)

\* Defect: the tool does not listen to its signal.
ListeningNot(C) == {}

\* What a foreground call listens for: abort of the agent it spawned first.
Listening(C) ==
    {attempts[c][1] : c \in {d \in C : plan[d].kind = "foreground" /\ attempts[d] # << >>}}

\* The signal of the calls of C fires: every attempt was spawned with it, and
\* the listeners walk the trees.
SignalFires(C) ==
    /\ C # {} /\ C \cap cancelled = {}
    /\ cancelled' = cancelled \cup C
    /\ CallerAborts(UNION {Own(c) : c \in C}, Listening(C))
    /\ UNCHANGED <<plan, stage, caller, attempts, retries, iteration>>

\* The user stops a call of the main session.
UserCancels(c) == c \in MadeIn(0) /\ SignalFires({c})

\* A session is told to stop, by its own signal or by a net of its runner: the
\* tools of its prompt share one signal.
SessionStops(s) == phase[s] = "prompting" /\ SignalFires(MadeIn(s))

\* The prompt of an agent is over: it completes when no tool executes, and
\* returns early only when it was told to stop.
PromptOver(a, outcome) ==
    /\ \A c \in MadeIn(a) : Open(c) => outcome # "completed" /\ c \in cancelled
    /\ RunEnds(a, outcome)
    /\ UNCHANGED calls

\* The other steps of a run.
Proceeds(a) ==
    /\ \/ Resume(a) \/ SessionOpens(a) \/ PromptStarts(a) \/ Closes(a)
       \/ FailsToStart(a) \/ Rejects(a)
    /\ UNCHANGED calls

CallNext ==
    \/ \E c \in Call :
         \/ CallStep(c) \/ UserCancels(c)
         \/ \E s \in Session : Invoke(c, s) \/ \E a \in Agent : Join(c, s, a)
    \/ \E a \in Agent :
         \/ Proceeds(a) \/ SessionStops(a)
         \/ \E outcome \in Over : PromptOver(a, outcome)

CallSpec == CallInit /\ [][CallNext]_allVars

\* Awaited work of a run and of a call ends; a tool that keeps its session
\* waiting is stopped by the tool timeout.
FairCalls ==
    /\ CallSpec
    /\ \A c \in Call : WF_allVars(CallStep(c))
    /\ \A a \in Agent :
         /\ WF_allVars(Proceeds(a))
         /\ WF_allVars(SessionStops(a))
         /\ WF_allVars(\E outcome \in Over : PromptOver(a, outcome))

-----------------------------------------------------------------------------
(* Properties.                                                             *)

\* A call has one attempt in progress at a time, and once its signal has fired
\* that attempt knows, whether it was spawned before or after.
CancelReachesAttempt ==
    \A c \in Call :
        /\ Cardinality({a \in Own(c) : Live(a)}) <= 1
        /\ c \in cancelled => {a \in Own(c) : Live(a)} \subseteq aborted

\* When a foreground call is cancelled in its first attempt, so is every live
\* descendant of it that the records still lead to.
CancelReachesTree ==
    [][\A c \in cancelled' \ cancelled :
         plan[c].kind = "foreground" /\ Len(attempts[c]) = 1 =>
            \A d \in Agent :
                Attempt(c) \in Ancestors(d) /\ Live(d) /\ Ancestors(d) \subseteq entries
                    => d \in aborted']_allVars

\* Every call returns and every agent it spawned settles: nested calls that
\* find the gate full of their own callers, joins of an ancestor or of oneself
\* included.  A call is made once, so all return when none stays open.
CallsReturn ==
    <>[](/\ \A c \in Call : ~Open(c)
         /\ \A a \in Agent : ~Live(a))
=============================================================================
