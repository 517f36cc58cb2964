# pi-roles: a TLA+ verification project

pi-roles is an extension of the pi coding agent. It runs *role* subagents in
child sessions, alone (`spawn_role`) or as the nodes of a task graph
(`dag_execute`, `dag_resume`, `dag_rerun`, `workflow_execute`) or as the tasks
of a batch (`batch_execute`). This directory holds TLA+ models of the parts
that decide something under concurrency, failure and restart, the TLC
configurations that check them, and proofs checked by TLAPS. Paths below are
relative to the repository, whose sources stand under `src/src`.

## 1. Inventory

### Task graphs

**DAG scheduler** (`dag/executor.ts`, with `planner.ts`, `expansion.ts`,
`resource-lease.ts`, `executor-metrics.ts`). One asynchronous function owns the
state of a run: node states and results, skip reasons, generated nodes and
dispatch expansions, the lease table and the map `running` of promises in
flight. Its loop settles skipped nodes, settles parents whose children are
over, stops on an abort or when all is terminal, launches what is ready within
`maxConcurrent` and the leases, and awaits `Promise.race` over `running`. The
callbacks of node promises change the same state between two awaits.
Hard: the order of callbacks, a dispatcher that adds nodes while others run,
routers that share targets, an abort at any moment, a restart from any
snapshot. Correct when: dependencies come first, overlapping scopes exclude
each other, the budget holds, what a route leaves out never runs, a parent is
the join of its children, and the run ends.

**Node attempts** (`dag/executor-run.ts`, `error-taxonomy.ts`). One attempt
races the work of one or more worker handles against a timeout and the abort
signal, and aborts the handles, those that arrive late included. Hard: a
cancelled worker stops gracefully while the scheduler moves on.

**Checkpoint and resume** (`dag/checkpoint.ts`). A snapshot of the scheduler is
handed out at every settlement; `deserializeCheckpoint` validates what it
reads (states, routes, skips and expansions must agree) and `resumeDAG` starts
the loop from it. Hard: the moments between two halves of one change.

**Checkpoint rerun** (`dag/rerun.ts`, `dag-rerun-tool.ts`). Derives from a
checkpoint, a list of nodes, feedback to inject and a patch of the graph the
state of a run that repeats the nodes and everything downstream of them, and
leaves a checkpoint of its own. Hard: chains of reruns over fan-outs and
routers, where what is kept must fit what is dropped. Correct when: what is
reused is not older than what it was computed from, what a route left out stays
out, and the checkpoint can be read again.

**Graph admission** (`dag/validate.ts` and the contracts it calls). Pure
validation: unique ids, known and acyclic dependencies, routes whose targets
depend on their router, dispatch bounds. Every entry (execute, expansion, rerun)
passes through it, and the scheduler relies on it.

**Batch runtime** (`dag/batch-runtime.ts`). A pool of independent tasks with
leases over resource scopes, an abort, and reruns of failed tasks that merge
with a prior result. Correct when: leases and limit hold, the pool never takes
itself for stuck, and each task has one result, of the attempt it should be of.

**Bounded workflow** (`dag/workflow-contract.ts`, `workflow-execute-tool.ts`).
Compiles workflow kinds into graphs, which admission must accept, and runs a
bounded loop with retries over single spawns.

### Subagents

**Subagent service** (`subagent/service.ts`, `registry.ts`, `state.ts`,
`spawn.ts`). `spawn` registers a run and returns its id. The run waits at a
gate (`runningSpawns`, `spawnQueue`), opens a child session, prompts it through
the runner, resolves its record and gives its slot back. Settled records
beyond a cap are evicted, with what the service keeps about them. `abort` walks
the tree of sessions. Hard: newcomers racing woken waiters, runs that fail
before they start, eviction during a live tree. Correct when: the gate is
exact and loses no wakeup, a record settles once, abort reaches the live tree,
and every spawn settles.

**Session runner** (`subagent/runner.ts`). Prompts a session once and aborts it
for one of five reasons, first come first served.

**spawn_role tool** (`subagent/spawn-role-tool.ts`). Resolves a role, spawns
it, and in the foreground waits for the record and retries with a delay; in the
background it returns the id, and a later call joins it. A subagent may call it
again. Hard: nested calls compete with their own callers for the gate; a signal
fires between two attempts. Correct when: every call returns, and a cancelled
one reaches the attempt it awaits.

**Output contract** (`report-tool.ts`, `output-contract-enforcer.ts`,
`output-contract-proactive.ts`, `session-start-handler.ts`,
`extractReportPayload` in `service.ts`). A role reports once per session; a
refused report may be repeated, tool calls are forced where the provider allows
it, a reminder is sent at most twice, and the service finds the accepted report
in the messages. **Auto-compaction** (`auto-compact-handler.ts`) removes old
messages from the same session.

### The rest

Tool adapters, progress rendering, hooks, deny rules, roles, catalog and
presets, and the entry `index.ts`: plumbing and sequential I/O.
`PROJECT.json` lists them with the reason why each is left out.

### How they interact

A tool call builds a spawn function over the service (`buildSpawnFn`) and hands
it to `executeDAGCore`; a node attempt calls it and waits for the record the
registry promises. The tool's abort signal reaches the executor, each attempt,
and through `spawn({signal})` the service. Checkpoints leave the executor
through `onCheckpoint` and come back as the argument of `dag_resume` or
`dag_rerun`.

## 2. Modules

| module | models | proved about |
| --- | --- | --- |
| `DagScheduler` | the loop, the node promises, resumption | `DagScheduler_proofs`, `DagOutcome_proofs` |
| `DagCheckpoint` | what the checkpoint reader demands | `DagOutcome_proofs` |
| `DagContract` | what a graph run promises, abstractly | |
| `DagRefinement` | the refinement mapping between the two | `DagOutcome_proofs` |
| `MCDagScheduler` | four small graphs for TLC | |
| `NodeAttempt` | the attempts of running nodes and the workers behind them | `NodeAttempt_proofs` |
| `Runner` | one prompt of a child session and the nets around it | `Session_proofs` |
| `SubagentService` | service, registry and tree abort | `Service_proofs` |
| `RoleCalls` | spawn_role and workflow loops as tool calls over the service | `Service_proofs` |
| `MCRoleCalls` | eight scenarios of nested calls for TLC | |
| `ReportingSession` | report tool, reminders, compaction and payload, over the runner | `Session_proofs` |
| `DagAdmission` | `validateDAG` and expansion as operators | `DagRerun_proofs` |
| `WorkflowContract` | validation and compilation of workflows as operators | `DagRerun_proofs` |
| `DagRerun` | submission, runs and chains of reruns over checkpoints | `DagRerun_proofs` |
| `MCDagRerun` | graphs, workflows and requests for TLC | |
| `Recursion_proofs` | lemmas about recursive functions and searches | |
| `Batch` | the batch pool in chains of calls | `Batch_proofs` |
| `MCBatch` | two manifests and an overlap for TLC | |

`RoleCalls` EXTENDS `SubagentService` and `ReportingSession` EXTENDS `Runner`:
their steps are those of the inner module together with what the outer one
adds. `DagRerun` EXTENDS `WorkflowContract`, which EXTENDS `DagAdmission`.
There is no RECURSIVE operator: what the code computes by recursion or in a
queue is a recursive function on a range of rounds or on the nodes.

### DagScheduler

JavaScript runs to completion, so a step is what stands between two awaits. The
loop is cut at its iterations and `pc` says where it stands: `skips` and
`parents` (the two settle functions), `scan` (the launch loop over `todo`, the
rest of `sortedReady`), `await`, `drain` (after an abort) and `done`. Callbacks
of node promises are enabled only while the loop awaits (`Yielded`): from
`skips` to the end of `scan` it does not. A node promise is in one of the
places of `work`: in an attempt, in a backoff, or settled with its finally
handler still to run. That last gap is real in the code (`.finally` runs a
microtask after the body) and is what the `dag_wave_fanout` finding turns on.

State corresponds to the code's variables by name: `status` is `states[id]`,
`skip` the keys of `skipReasons`, `expanded` and `children` those of
`dispatchExpansions`, `running` and `leases` the two tables, `ckpt` the
argument of the last `onCheckpoint` call. `selected` and `misrouted` stand for
the stored results of routers. Generated ids exist from the start with status
`absent`.

Abstracted: payloads, texts, timestamps, metrics and the error of a failure,
except whether it is retryable (a choice). Admission of the graph is assumed
(`GraphAssumption`, `DispatchAssumption`). A restart (`Resume`) may happen at
any moment a checkpoint exists which its reader accepts (`Resumable`): the
process died, or the tool call ended and `dag_resume` was called.

### NodeAttempt

`DagScheduler` takes the outcome of an attempt as a choice. This module looks
inside: `child[n][k][h]` is the worker behind handle `h` of attempt `k` of node
`n`, from the spawn call (`spawning`) over its run (`running`, or `stopping`
once it was told to stop) to its end. `cancelled` is the set of attempts whose
`cancel()` has run, `phase` is where `runNodeWithRetry` stands. The nodes all
declare one scope, since only through a lease can one node notice the
leftovers of another; the rest of the scheduler is left to `DagScheduler`.
`BeginAttempt`, `SpawnReturns`, `Timeout` and `CallerAborts` are `runNode`,
`trackedSpawn`, the timer and the abort listener of `waitForPromise`. The
caller's signal stops every worker in the same step, because the executor's
listener and the service's hang on the same signal. Abstracted: what a worker
returns, and the error behind a failure except whether it may be retried (a
choice; a timeout always may, a cancelled attempt never).

### Runner

`runSubagent` as one action per event handler and timer: `Begin` is the code up
to `session.prompt`, `ToolStarts`, `ToolEnds`, `AssistantMessage`,
`OtherMessage` and `TurnEnds` are the branches of the listener, `LivenessPoll`
and `ToolTimeout` the timers, `CallerAborts` the signal's listener, and `Finish`
the code behind the prompt. Variables have the code's names; `executing` is
what the session really executes, which the code sees only through
`toolInProgress` and `activeToolTimer`. Time is the bit `quiet`: `livenessMs`
have passed since `lastActivity`. The windows of the doom-loop detection are
kept as the number of equal entries at their end, one tool call per message.
The session is external: it emits events in any order a turn allows, may hang
anywhere, and returns some time after it was told to stop during a prompt. The
nets are on, as they are by default.

### SubagentService

Ids are the registry's counter, so their order is the order of registration,
which is the order eviction follows. `phase` is where `runToCompletion` of an
agent stands: waiting at the gate, woken, opening its session, binding its
extensions, prompting, closing (settled, completion hook running), failing
(slot given back, rejection a microtask away) or done. The session file of an
agent is named by its id. Outcomes of the runner are chosen as `Runner`
computes them: completed, aborted or error, and not completed once the signal
has fired. A run that failed to start ends as `failed`, since its waiters get an
exception where others get a record. A tool awaits before it spawns, so an agent
may be spawned from a session whose prompt is already over.

### RoleCalls

`stage` is where `execute` of a call stands: loading resources, awaiting the
attempt's promise, delaying a retry, returned or thrown. `attempts` lists the
agents a call has spawned or joined. A call is made by the main session or in
the prompt of an agent that another call spawned (`madeBy` says which, as a
bound); the prompt of a session ends as completed only when no tool of it
executes. `Invoke`, `Join`, `Loaded`, `Answered` and `Retry` are
`spawn-role-tool.ts`; `Loaded`, `IterationDone`, `IterationFailed` and
`LoopRetries` are the loop of `workflow-execute-tool.ts` over the spawn function
of `dag-execute-tool.ts`. They differ where the code does: `spawn_role` retries
whatever its signal says and passes the fired signal on, the loop looks first;
`spawn_role` listens to its signal for the tree of its first attempt, the loop
only hands the signal to its spawns. A call whose role may not spawn is refused;
a workflow does not ask. Roles, tools, resources and texts are left out, and so
are the delays' lengths.

### ReportingSession

The slot `Report` of `Runner`'s tool calls is `report_role_result`; `said` has
one entry per call of it, `pending` while it executes and then what `execute`
answered. `AgentEnds` is `agent_end`: the enforcer sends a reminder, which
gives the agent another turn, or leaves it alone. `LoopMayEnd` says when an
agent comes to its end: a provider in thinking mode is not forced to call
tools, a repeated report terminates the loop, and an aborted one ends.
`Compacted` takes a prefix of `said` out of the messages; how much is decided
by the host, so any prefix of the finished calls may go. `RunOver` composes the
end of `Runner` with `extractReportPayload`. Validity by the schema is a choice.

### DagAdmission and WorkflowContract

Operators on records; the comment at the head of each names the fields. The
checks of a single field are one flag (`sound`). `Admitted` keeps the code's
several ways of seeing cycles apart (ancestors and Kahn's queue), and `Compile`
its omissions: an expected output without consumers, and roles and scopes that
nobody has looked at. The latter are a flag of each task and one of the mappers
(`resolves`, `mapResolves`), which validation ignores and `Compile` passes on as
`sound`.

### DagRerun

One chain of tool calls: a graph or workflow is submitted, compiled and
admitted, run, and rerun from the checkpoint of the last call. What interleaving
does within a run is `DagScheduler`'s subject; here a node settles in one step,
in any order its dependencies allow, a fan-out expands the graph through
`Expand` and `Admitted`, and a run may be over at any moment, since an abort may
come at any moment. `Loads` is the reader's `validateV2Topology` against the
graph as first admitted, which is what `dag_rerun` stores (`cp.spec`). `View` is
`buildRerunView`. `era` is a ghost: the rerun a result is of.
Maps are merged as objects are spread: `Merged(f, g)` is `{...g, ...f}`.
`Rebuilt` takes the recorded expansions one after the other, as the reader
does; an expansion that would generate an id the graph already has is refused.
`RerunAssumption` types the inputs of the chain: graphs and patches are finite
and their fields have the types the tool's schema demands.

### Batch

One chain of calls of `executeBatchManifest`. `pc` cuts the loop at its head,
its launch pass and its race; `left` is the part of `pending` the pass has yet
to look at; `ended` are promises that have settled and were not collected. How a
task ends is chosen when it is collected. Attempt ids are numbers.

## 3. Runs

| run | instance | shows |
| --- | --- | --- |
| `dag_ready` | 5 nodes, 2 routers with a common target, a dispatcher with up to 2 children, 2 nodes that share a scope, 2 slots, 2 attempts, 1 resumption | all safety properties, checkpoint integrity, refinement of `DagContract` |
| `dag_live` | a dynamic dispatcher and declared sends of 2, a plain node in the first one's scope, a join; 2 slots | an abort ends the run; the run completes |
| `dag_wave` | wave mode without fan-out | the barrier between waves holds |
| `dag_wave_fanout` | wave mode, a dispatcher beside a chain | the barrier is crossed (finding) |
| `attempt` | 2 nodes of one scope, one with a timeout; 2 workers per attempt, 2 attempts | workers are contained, a node settles once, by its own work, and without help from its workers |
| `attempt_overlap` | the same with 1 worker per attempt | workers of two nodes meet in one scope (finding) |
| `runner` | `ReportingSession`: tool calls one at a time, limit of 3 turns, 2 reports, up to 2 reminders, any compaction | outcomes are true, a completed run hands up its accepted report, a long tool is spared, a silent run ends |
| `runner_parallel` | `Runner`: 2 overlapping tool calls | a long tool is taken for a hung run (finding) |
| `service` | `MCRoleCalls`: 8 scenarios of 3 calls, 4 agents, 2 slots, 1 settled record kept | gate, records, abort, cancellation of attempts and trees, every call returns |
| `service_evicted` | `SubagentService`: 4 agents, 2 slots, 1 settled record kept | abort misses a live descendant (finding) |
| `rerun` | `MCDagRerun`: every routing graph of 3 nodes and every workflow of 1 to 3 tasks through admission, 5 of them followed through 2 reruns with 6 requests | valid workflows are admitted but for three known reasons, what is admitted fits the scheduler, reuse is current, left-out nodes stay out, checkpoints load, reruns settle |
| `batch` | `MCBatch`: manifests of 3 and 4 tasks, 3 with overlapping scopes in a chain, 2 slots, 2 calls | leases and limit, every task accounted for, every call returns |

Why the bounds are enough. In `dag_ready` each mechanism meets each other one:
the routers share a target, one of them decides whether the dispatcher runs at
all, a node behind the dispatcher writes what the shared target writes, the
budget is smaller than the number of ready nodes, and one abort and one restart
may come anywhere. A second restart starts from a snapshot of the same kind as
the first. Two attempts let a worker and a spawn of the first outlive the
retry, two workers let one be late while the other is known, and two nodes let
both outlive the lease. Three turns and windows of three let every net of the
runner be first; two reports give each pair of answers (refused and accepted,
accepted and repeated, either one lost to a compaction or cut off in the
middle), and a third would repeat one of them. Texts that repeat are left to the
proof of `OutcomeWithContract`, which takes any `TextEntry`, and to
`runner_parallel`: with two entries the run takes too long.

The scenarios of `service` are the least that let the mechanisms meet: three
levels of calls behind two slots, so that two callers can hold the gate against
the child one of them awaits; a background agent whose caller settles, is
evicted and leaves a live child; a retry that competes with a waiting agent; a
join of a sibling, of an ancestor and of oneself; a role that may not spawn; a
loop that retries, repeats and calls. With one record kept, the second
settlement already evicts.

In `rerun`, the followed graphs are a dispatcher that gets its sends from its
result, one that declares them, two routers that share a target, a compiled
conditional and a compiled map-reduce. The first rerun may drop what the second
one needs. Requests remove a plain and a generated node, add one, move an edge
and inject feedback. In `batch`, the middle task of the chain excludes both
others, which are free beside each other; the fourth joins the manifest in the
second call.

The violations need exactly the instances given.

Bounds of the model that the code does not have: `MaxResumes`, `MaxAgents`, the
finite sets `Generated`, `Call` and `Plans` (with `madeBy`), `TurnBound`,
`ReportBound`, `TextEntry`, `Followed`, `MaxReruns` and `MaxCalls`.
`MaxAttempts`, `MaxConcurrent`, `MaxChildren`, `MaxTerminal`, `MaxTurns` and
`maxConcurrent` are parameters of the code.

Type invariants are proved (section 4) and not repeated as invariants of the
runs.

### Fairness

`dag_live` uses `EngineSpec`: weak fairness of the loop's steps, of the
handlers that end cancelled attempts and release nodes, and of backoff timers.
This is what an event loop gives: a ready microtask or expired timer runs.
`AbortStops` holds under this alone, without help from workers. `RunCompletes`
additionally assumes, as the premise `WorkerFairness` of the property, that
attempts end; the code justifies it with node timeouts and the runner's
liveness and tool timeouts, which are on by default. `attempt` assumes weak
fairness of each node's own steps, that is of its timers and of promises that
are resolved, and nothing at all of workers: a spawn may never return and a run
may never end. A node with a timeout settles even so, and after an abort every
node does. `runner` assumes that time passes, timers fire and a prompt that was
told to stop returns (the code calls `session.abort` graceful). `SilentRunEnds`
asks nothing else of the session: its premise is that the session produces no
event any more. The other premise, that there is no reason to abort yet when
the prompt runs, leaves out one case on purpose: a signal that fired before the
prompt. The code then records `caller-abort` and calls `session.abort()` before
`session.prompt()`; whether a session remembers that is outside the repository.
If it does not, the prompt runs with every net disarmed, because each of them
first looks whether a reason is there. `runner` (`FairSession`) adds to that
the output contract: an agent told to stop comes to its end, whatever the
enforcer would have it do. `service` (`FairCalls`) assumes weak fairness of
each run's own steps and of each call's: session creation returns or throws,
hooks return, a delay ends, a promise that has settled is seen, the runner's
nets end a prompt. It assumes besides that a session whose tool call stays open
is stopped (`SessionStops`), which is the runner's tool timeout (900 s by
default), and that the host passes that stop on to the signal of the tool calls
of the session, which is outside the repository. This is what resolves callers
that fill the gate and await children behind it: nothing in the service does.
Nothing is assumed about who is served first; `CallsReturn` holds because the
number of calls is bounded, as it is in a session that does not call for ever.
`rerun` assumes that ready nodes run and end, `batch` that children settle and
that the loop goes on when one has. Neither needs an abort.

### Findings

* `dag_wave_fanout`: the `wave` scheduler is documented to preserve barriers
  and does not around an expansion. The topology is rebuilt before the
  dispatcher leaves `running`, so `currentWave` reads the dispatcher's new,
  later wave and launches nodes of it while its children of an earlier wave
  are queued.
* `attempt_overlap`: `write_scope` is documented to keep two nodes with
  overlapping scopes apart. A timeout settles the node and frees the lease
  while its worker is still stopping, and the worker of the next node joins it.
  A test wants the lease free after a timeout
  (`__tests__/dag-adaptive-scheduler.test.ts:155`), so the release is intended;
  what the comment promises is then true of nodes and not of their workers.
  `NoStrayWorker` in `attempt` states what does hold: the leftover worker has
  been told to stop.
* `runner_parallel`: a long tool is documented never to trip the liveness net.
  One flag and one timer stand for all tool calls, so the end of a short call
  resumes the clock under a long one.
* `service_evicted`: `abort` is documented to reach all descendants. Eviction
  removes the settled intermediate agent through which the walk would find a
  live one. `AbortReachesRecorded` in `service` states what does hold. In
  production a child session builds a service of its own, so nested sessions
  in one service occur where sessions share it, as the tests wire them.

Differences between the code and its words, or its parts, that were met while
modelling, are kept in the models as the code has them, and have no run:

* A workflow may pass validation and be refused by admission. A task's
  `expectedOutput` compiles to half a semantic contract
  (`workflow-contract.ts:142`). `role`, `resourceScope` and `mapReduce.mapRole`
  are copied unseen (`workflow-contract.ts:138-144`, `:163-166`), and admission
  refuses an unknown role (`validate.ts:181`) and a scope that is no resource
  URI (`:232`). `ValidWorkflowsAdmitted` says that these are the only reasons.
* The checkpoint of a rerun with a patch or with injected feedback pairs the
  graph as first admitted with the edited one and is refused by its own reader
  (`dag-rerun-tool.ts:80`). So is one of a rerun that repeats a fanned-out
  parent: its children stay in the graph as plain nodes (`rerun.ts:135`) and
  their ids collide with those of the next expansion. Removing a generated child
  makes the executor throw where other patches return errors.
  `PlainRerunsLoad` speaks of the reruns that do none of this.
* An empty `rerunNodes` stands for all failed nodes (`rerun.ts:124`), which the
  parameter's description does not say (`dag-rerun-tool.ts:19`).
* A rerun frees route targets it names, or reaches from upstream of them, though
  their router keeps the decision that left them out (`rerun.ts:172`).
* `spawn_role` retries a cancelled call once per retry left, each time with the
  fired signal (`spawn-role-tool.ts:455`); the listener of its signal knows the
  tree of the first attempt only (`:447`). The description of `retryCount` gives
  0 as its default (`:204`), the code 1 (`:452`).
* An agent that waits at the gate does not see its signal until it is in
  (`service.ts:241`).
* A refused report counts as a call for the enforcer
  (`output-contract-enforcer.ts:60`), so a role that gives up after a refusal is
  not reminded, and its run completes without a payload where tool calls are not
  forced. A run stopped in the middle of its first report hands up that report
  unvalidated (`service.ts:455`); `ContractKept` claims acceptance of completed
  runs only.
* A batch rerun with `failed_only` takes up neither tasks an abort cancelled nor
  tasks added to the manifest, which then miss from a result called completed
  (`batch-runtime.ts`); `CallAccounts` states what does hold.

Each property of a passing run is paired in `PROJECT.json` with a mutant, an
operator marked *Defect* beside the one it replaces, that makes it fail.

## 4. Proofs

Theorems are about every graph, bound and number of agents that satisfies the
named assumptions of the module, not about an instance.

`DagScheduler_proofs`:

* `TypeCorrect`: the type invariant.
* `LeasesExclude`: the lease table is exactly the set of nodes in flight, and
  no two of them overlap. The invariant that carries it says that a node is in
  `running` exactly when its promise is not idle, that the lease table equals
  `running`, and that leases are pairwise disjoint. Launch is the only step
  that adds a lease and `CanAcquire` is read in the same step; expansion
  changes no scope because children inherit their parent's.
* `ConcurrencyBounded`: at most `MaxConcurrent` nodes in flight, by the
  cardinality of `running` over finite sets.
* `DependenciesFirst`: a node that has started has its declared dependencies
  settled. The induction needs the same of the snapshot a run can be resumed
  from, since a resumption turns snapshot into state, and that terminal states
  never change within a run.

`DagOutcome_proofs`, about what the scheduler settles and what its checkpoints
hold. The invariant speaks of a snapshot (`Sane`) and is claimed of two, the
graph as it is and the last checkpoint, since a resumption turns the second into
the first. A snapshot is sane when generated nodes are the children of expanded
parents (`Known`), a settled parent is the join of its children (`Joins`), and
the skip reasons are exactly what the routers left out, held by nodes that are
queued or skipped (`Branches`). Beside it, the nodes of a launch pass have no
skip reason (`TodoKept`), and the run agrees with the checkpoint on what that
recorded as settled (`Recorded`). There is one lemma per kind of step: one node
changes (`OneNode`), a router settles, a parent expands, a run is resumed.

* `UnselectedStaysOut`: a branch left out never runs. It needs that a router's
  targets depend on it (`GraphAssumption`, from `validate.ts:296`), so none of
  them has started when the router settles.
* `ParentsJoin`: a dispatch parent is the join of its children.
* `RecordedStays`: recorded work is neither run again nor changed.
* `CheckpointsLoad`: the reader accepts every checkpoint, at whatever moment it
  was emitted, by `Sane(ckpt)`.
* `RunsAreNotBlocked`: with either scheduler no run ends "blocked". A pass that
  ends with nothing in flight would have passed over every ready node for want
  of a lease, and there are no leases; so no node is ready. But among the
  unsettled original nodes one has least rank (`GraphAssumption` gives an
  acyclic graph its rank), and it, or a child it waits for, is ready
  (`SomeNodeFree`). The wave scheduler launches from the current wave only, so
  there it takes a queued node of least wave, all of whose dependencies lie
  below it and, as nothing is in flight, have settled (`SomeNodeReady`).
* `RunsKeepOrder`: with either scheduler a node overtakes another only if that
  one's scopes are leased. The invariant (`PassKept`) is that what a pass has
  passed over stays leased, since leases only grow within a pass, and that what
  is left of the pass stays in the current wave, since a launch does not change
  it (`LaunchStaysInWave`).
* `WavesAreBarriers`: without dispatch nodes the wave scheduler runs one wave
  at a time and starts none before the waves below it have settled
  (`BarrierInv`). The hypothesis `NoFanOut` is needed: the finding
  `dag_wave_fanout` shows the barrier crossed at an expansion.

  The last three rest on `Waves`: waves are naturals, and the wave of a node is
  one more than the greatest of its dependencies, in the submitted graph and in
  every expansion of it. `planWaves` computes them by recursion along the
  dependencies; that the recursion ends is `GraphRecursion` (below) with the
  rank of `NodeRanks`, which puts generated children right below their parent.
* `ExecutorImplements`: every behaviour implements `DagContract`. Each step is
  mapped to a step of the contract or to a stutter; `RecordKept` serves all of
  them but the resumption, which is `Restart`.

`NodeAttempt_proofs`, by one inductive invariant: the lease is with the node in
flight (`ControlInv`), and a spawn that is pending and was not cancelled is one
of the attempt in progress (`CancelInv`), which is what lets `trackedSpawn`
decide by one flag. Two lemmas cover the beginning and the decision of an
attempt, whichever handler brings them about.

* `WorkersAreContained`: who works without having been told to stop works for
  the attempt in progress of the node that holds the lease.
* `CompletionIsOwn`: a completed node was completed by every worker of its last
  attempt.
* `ResultIsFinal`, `AbortedRunsNoMore`: a node settles once; no attempt begins
  after an abort.
* `TypeCorrect`: the type invariant.

`Session_proofs`, about the runner, by an invariant that says that whoever
asked the session to stop, or found a limit reached, left a reason
(`ReasonInv`), and that nothing happened before the prompt (`PromptInv`).

* `OutcomeIsTrue`: a run reported completed was not stopped and reached no
  limit; one reported aborted names what stopped it.
* `FirstReasonWins`: the first reason stays.
* `LongToolIsSpared`: the liveness net spares tools in execution, under the
  assumption that tool calls do not overlap (`runner_parallel` shows that the
  assumption is needed).
* `TypeCorrect`: the type invariant.

`Service_proofs`, about the service:

* `GateIsExact` and `NoWakeupLost`: `runningSpawns` is the number of runs that
  hold a slot, at most the limit, and nobody waits beside a slot that no woken
  agent is about to take. Neither is inductive alone: the head of the queue
  must be a waiting agent and stand there once, or waking it would not add a
  woken agent (`QueueInv`). Three lemmas carry the induction, for an arrival at
  the gate, a departure from it and a step inside.
* `OutcomeIsFinal`: a settled run keeps its status. `RecordInv` ties being
  settled to the phase, so no second settlement is enabled.
* `RecordsAreKept`: eviction takes settled records only and holds their number
  at the cap. What it takes is the oldest settled record, which exists because
  agents are numbered (the order of the numbers is well founded), and a
  settlement adds at most one record beyond the cap.
* `AbortReaches`: the walk of `abort` comes to every live descendant whose
  ancestors are recorded, in trees of any depth. `TreeInv` says that an agent is
  younger than the one it was spawned from, and stands among its children while
  that one is recorded, whose session file is then known. The walk is the least
  set that follows the children lists (`WalkIsClosure`, from `SearchCloses`
  below), so if it missed a descendant it would have missed its parent too.
* `TypeCorrect`: the type invariant.

`Service_proofs`, about tool calls over the service (`RoleCalls`). `AttemptInv`
says that all attempts of a call but the awaited one are over, and that after
the signal each of them is over or knows; for a retry spawned after the signal
this comes from the fired signal the tool passes on, since `spawn` aborts an
agent whose signal has fired already (`service.ts:132`), not from the listener,
which names the first attempt only.

* `CallsUseService`: every behaviour of `RoleCalls` is one of
  `SubagentService`: each call step is a service step or leaves the service
  alone. That needs the types of the call tables only.
* `ServiceHoldsUnderCalls`: so what is proved of the service holds under every
  pattern of calls.
* `CancelReachesAttempts`: a call has at most one live attempt, and once the
  signal has fired that attempt knows.

`Session_proofs`, about the output contract over the runner
(`ReportingSession`). The call
of the report tool in execution is the last one and the only one without an
answer (`PendingInv`); one is accepted at most, and none is called repeated
before one is accepted (`OnceInv`); a prompt that nobody stopped returned for a
reason of the contract (`ReturnInv`).

* `ContractUnderRunner`: the session with its contract is one `Runner` allows,
  so `OutcomeWithContract` follows from the runner's theorems.
* `ContractIsKept`: a completed run hands up the accepted report, unless
  compaction took it, and has answered as the contract asks.

`Batch_proofs`:

* `PoolIsSafe`: leases, limit and overlap, and that the pool never throws for
  want of resources. The last part needs `WaitInv`: a task the launch pass left
  behind overlaps with one that is active, so an empty race can only follow a
  pass over an empty list.
* `CallsAccount`: a returning call has one result per task of the manifest.
  `AccountInv` says where each selected task is at any moment: pending, active
  or among the results with the attempt it was given.

`Recursion_proofs` holds no theorem about the system but the lemmas the proofs
about recursive definitions need. The library's induction theorems take a
predicate as a parameter, which the installed provers cannot instantiate; here
the predicate is a set and the step a function, so that they can:

* `Ascend` and `RankInduction`: induction up to a bound and along a rank, from
  the least element of a set of naturals;
* `Iterates` and `GraphRecursion`: a recursion over rounds, or over a ranked
  graph, has a solution, so that the CHOOSE behind a recursive function
  has something to choose;
* `Saturates` and `SearchCloses`: a search that follows edges for as many rounds
  as there are nodes has found everything: each round that adds something adds
  a node. This is what makes a walk in rounds the same as the code's queue,
  which runs until it is empty.

`DagRerun_proofs`, about chains of reruns over any graphs, workflows, patches
and injections. First what admission means: a graph whose nodes have no cycle of
ancestors (`getAncestors`, by doubling: `DoublingFinds`) has in every set of
nodes one that depends on none of the others (`AcyclicHasSources`), and with
that Kahn's queue takes every node (`SourcesReached`). Then the invariant
`RerunInv`, claimed of the run and of the last checkpoint:

* what runs was admitted (`Fits`), and a node that fanned out generated no more
  than it may and waits for what it generated and nothing else
  (`ExpansionHolds`);
* a result is no older than what it was computed from (`Current`);
* in a run no generated child is missing (`Whole`), which is not true of what a
  patch makes of a graph between runs;
* what a decision left out, and no rerun has set free, is marked to be skipped
  (`LeftInv`).

Execution keeps it because a node settles after what it depends on. The step
that takes work is the rerun (`RerunFits`): the closure of the nodes to repeat,
computed on the edited graph, must miss no consumer of a repeated node, though
results are kept from a checkpoint whose graph is another. `DownstreamCloses`
says so of the search; `OnlyParentsWait` says that in a checkpoint that can be
read nobody but its parent waits for a generated child, so rebuilding the
topology loses no edge that a kept result went through.

What the reader accepts is carried by `LoadInv`: as long as no rerun edits the
graph or gives up a decision, the run and the last checkpoint are `Readable`.
The reader replays the recorded expansions in an order of its own, not the one
they happened in. `RebuiltIsGrown` and `GrownIsOne` say that the graph it gets
is the same in every order (`Grown` describes it without one), so `ReadsGraph`
can trade the replay for a description that an expansion extends
(`ExpandingLoads`). `ClosureKeepsTargets` and `ViewLoads` are the step of a
plain rerun: a router that is repeated takes all its targets with it, so the
skip reasons that are kept are those of decisions that are kept.

* `GraphsFitScheduler`: every graph that runs satisfies what the scheduler's
  `GraphAssumption` and `DispatchAssumption` ask of it.
* `ReuseCurrent`: no rerun keeps a result computed from what it repeats.
* `LeftOutStays`: what a route left out runs in no rerun that keeps the decision
  and does not set it free.
* `PlainRerunsRead`: a chain of reruns that edit nothing and give up no decision
  leaves a checkpoint its reader accepts, and starts without an exception
  (`PlainRerunsLoad`).
* `ValidAdmitted`: a valid workflow is admitted as the graph it compiles to,
  whatever its kind (`ValidCompiles`), unless a task declares an output or names
  a role or a scope that cannot be resolved, and then it is refused
  (`ObjectionableRefused`). The
  workflow validation finds cycles by depth-first search and admission by
  ancestors and a queue; `SourcesMakeAcyclic` and `SourcesReached` show that
  what passes the first passes the others, and `NoDispatchNoDepth` that compiled
  graphs, which have no dispatch nodes, meet the bound on their nesting.
* `RerunInvariant`: the invariant itself.

`RoleCalls` and `ReportingSession` have the spec of the module they extend in
scope; theorems about the outer one name it (`CallSpec`, `SessionSpec`), those
about the inner one say `Spec`.

Only model-checked:

* liveness: `AbortStops`, `RunCompletes`, `CallsReturn`, `CancelReachesTree`,
  `TimedNodeSettles`, `AbortEndsNodes`, `SilentRunEnds`, `RerunSettles`;
  fairness and ENABLED are beyond the prover.

`WaveBarrier` with a fan-out is refuted, not proved.

## 5. Plan

Every component that decides something over time is modelled, and every safety
property of the runs is proved. What is left to do: that `DagRerun`'s execution
is one `DagScheduler` allows for each graph it admits, which `GraphsFitScheduler`
prepares.

### Not modelled

* *Checkpoints of version 1* and `computeSkipReasonsFromResults`, which fills
  in skip reasons for them; the digests of `checkpoint.ts` and the decoding of
  JSON. The reader's demands on a version 2 checkpoint are in `DagCheckpoint`.
* *Checks of single fields* in `validate.ts` (names, sizes, durations) are one
  flag. The width of a timer (`validate.ts:184` admits a `timeout_ms` that
  `setTimeout` cannot hold) is a hazard of one comparison on a number.
* *Conversion of plans* (`plan-to-dag.ts`) and decoding of tool parameters:
  functions from one record to another, whose output goes through admission.
* *Progress and visibility* render events as text and decide nothing.
* *Deny rules* match patterns against tool arguments, without state.
* *Hooks* are a list of handlers called one after another, errors swallowed;
  their awaits are steps of the service model.
* *Roles, catalog and presets* are read, merged and written by sequential I/O.
* *Extension entry* (`index.ts`) wires the components to the host. A session
  builds its own service (`index.ts:86`) and services share no state, so one is
  modelled; its `service.cleanup(0)` (`index.ts:316`) removes archived session
  files, which no decision reads.
* *Archiving* of session files, telemetry and provenance: failures are swallowed
  and decide nothing. Growth of memory, such as that of the children lists
  (`service.ts:104`), is not a property of the state machine's outcomes.
