------------------------------- MODULE DagRerun -------------------------------
(***************************************************************************)
(* dag_rerun (src/src/dag/rerun.ts, dag-rerun-tool.ts): repeat chosen      *)
(* nodes of a graph that was run before, with everything downstream, and   *)
(* keep the other results.  A chain of reruns goes through checkpoints:    *)
(* each one starts from what deserializeCheckpoint accepts of the last.    *)
(*                                                                         *)
(* How nodes of one run interleave is the subject of DagScheduler.  Here a *)
(* node runs and settles in one step, in any order its dependencies allow, *)
(* and a run may be over at any moment (all terminal, or aborted).         *)
(* Closures cannot get into a checkpoint by way of the tools, so fanOut is *)
(* never "dynamic" here.                                                   *)
(***************************************************************************)
EXTENDS WorkflowContract

CONSTANTS
    Graphs,      \* graphs submitted to dag_execute
    Workflows,   \* workflows submitted to workflow_execute
    Followed,    \* bound of the model: submissions whose run is followed
    KeyLists,    \* key lists a result dispatcher may return
    Requests,    \* inject (the nodes named) and specPatch arguments of dag_rerun
    MaxReruns    \* bound of the model: reruns in one chain

\* { ...g, ...f }
Merged(f, g) ==
    [x \in DOMAIN f \cup DOMAIN g |-> IF x \in DOMAIN f THEN f[x] ELSE g[x]]

\* Field values that replace those of a node.
IsOverride(values) ==
    /\ values = [f \in DOMAIN values |-> values[f]]
    /\ DOMAIN values \subseteq NodeFields
    /\ "dispatch" \in DOMAIN values => values.dispatch \in Nat
    /\ "sends" \in DOMAIN values => IsList(values.sends)

ASSUME RerunAssumption ==
    /\ MaxReruns \in Nat
    /\ \A graph \in Graphs : IsGraph(graph)
    /\ \A wf \in Workflows : IsWorkflow(wf)
    /\ \A keys \in KeyLists : IsList(keys)
    /\ \A request \in Requests :
          /\ IsGraph(request.patch.add)
          /\ \A id \in DOMAIN request.patch.modify : IsOverride(request.patch.modify[id])

VARIABLES
    submitted,  \* what the first tool call was given
    origin,     \* cp.spec, the graph as it was admitted
    phase,      \* where the chain of calls stands
    run,        \* the state of the executor
    ckpt,       \* the snapshot of the last onCheckpoint call
    reruns,     \* how many reruns there were
    plain,      \* ghost: no rerun edited the graph or gave up a decision
    released    \* ghost: route targets a rerun set free

vars == <<submitted, origin, phase, run, ckpt, reruns, plain, released>>

Terminal == {"completed", "failed", "skipped"}
NoPatch == [add |-> <<>>, remove |-> {}, modify |-> <<>>]

\* The state executeDAGCore builds; era is a ghost, the rerun a result is of.
Fresh(spec) ==
    [spec |-> spec,
     status |-> [id \in DOMAIN spec |-> "queued"],
     selected |-> [id \in DOMAIN spec |-> {}],
     misrouted |-> {},
     skip |-> {},
     parentOf |-> <<>>,
     expansions |-> <<>>,
     era |-> [id \in DOMAIN spec |-> 0]]

Ids(s) == DOMAIN s.spec
Settled(s, id) == s.status[id] \in Terminal
Routers(s) == {id \in Ids(s) : s.spec[id].routes # {}}
Expanded(s) == DOMAIN s.expansions

\* The targets a recorded decision of router r left out.
LeftOut(s, r) ==
    IF r \in s.misrouted THEN Targets(s.spec[r])
    ELSE IF s.status[r] = "completed" THEN Targets(s.spec[r]) \ s.selected[r]
    ELSE {}

-----------------------------------------------------------------------------
(* What the reader of a checkpoint demands, over checkpoints the tools     *)
(* make: validateV2Topology.                                               *)

\* The recorded expansions, one after the other, on the admitted graph.
Rebuilt(cp) ==
    LET spec[some \in SUBSET Expanded(cp)] ==
          IF some = {} THEN origin
          ELSE LET p == CHOOSE p \in some : TRUE
               IN  Expand(spec[some \ {p}], p, cp.expansions[p])
    IN  spec[Expanded(cp)]

\* The graph is the admitted one with the recorded expansions, and nothing else.
\* (Where an expansion came from is not recorded here: the code also refuses a
\* dispatcher's sends for a node that declared its own, be they the same.)
Rebuilds(cp) ==
    /\ \A p \in Expanded(cp) :
          /\ p \in DOMAIN origin /\ origin[p].dispatch # 0
          /\ Cardinality(cp.expansions[p]) <= origin[p].dispatch
          /\ origin[p].fanOut = "sends" => cp.expansions[p] = Kids(p, origin[p].sends)
          /\ cp.expansions[p] \cap DOMAIN origin = {}
    /\ cp.spec = Rebuilt(cp)
    /\ DOMAIN cp.parentOf = UNION {cp.expansions[p] : p \in Expanded(cp)}
    /\ \A p \in Expanded(cp) : \A c \in cp.expansions[p] : cp.parentOf[c] = p

JoinsAgree(cp) ==
    \A p \in Expanded(cp) :
        LET allCompleted == \A c \in cp.expansions[p] : cp.status[c] = "completed"
        IN  /\ cp.status[p] # "skipped"
            /\ Settled(cp, p) => \A c \in cp.expansions[p] : Settled(cp, c)
            /\ cp.status[p] = "completed" => allCompleted
            /\ cp.status[p] = "failed" => ~allCompleted

SkipsAgree(cp) ==
    /\ \A r \in Routers(cp) : cp.status[r] = "completed" =>
          cp.selected[r] \in cp.spec[r].routes
    /\ cp.skip = UNION {LeftOut(cp, r) : r \in Routers(cp)}
    /\ \A id \in Ids(cp) : /\ cp.status[id] = "skipped" => id \in cp.skip
                           /\ id \in cp.skip => cp.status[id] \in {"queued", "skipped"}

Loads(cp) == Rebuilds(cp) /\ JoinsAgree(cp) /\ SkipsAgree(cp)

-----------------------------------------------------------------------------
(* The view of a rerun: buildRerunView.                                    *)

\* applySpecPatch: additions, then removals with their edges, then overrides.
PatchApplies(spec, patch) ==
    /\ DOMAIN patch.add \cap DOMAIN spec = {}
    /\ patch.remove \subseteq DOMAIN spec \cup DOMAIN patch.add
    /\ DOMAIN patch.modify \subseteq (DOMAIN spec \cup DOMAIN patch.add) \ patch.remove

Patched(spec, patch) ==
    LET all == Merged(spec, patch.add)
        kept == [id \in DOMAIN all \ patch.remove |->
                   [all[id] EXCEPT !.deps = @ \ patch.remove]]
    IN  [id \in DOMAIN kept |->
           IF id \in DOMAIN patch.modify THEN Merged(patch.modify[id], kept[id]) ELSE kept[id]]

ConsumersOf(spec, id) ==
    DirectConsumers(spec, id) \cup (spec[id].consumers \cap DOMAIN spec)

\* Defect: the closure stops after the direct consumers.
DownstreamOneStep(spec, seeds) ==
    seeds \cup UNION {ConsumersOf(spec, id) : id \in seeds}

DownstreamClosure(spec, seeds) ==
    LET reach[i \in 0..Cardinality(DOMAIN spec)] ==
          IF i = 0 THEN seeds
          ELSE LET known == reach[i - 1]
               IN  known \cup UNION {ConsumersOf(spec, id) : id \in known}
    IN  reach[Cardinality(DOMAIN spec)]

\* No node named, none or an empty list, stands for every failed node.
Seeds(cp, named, patch) ==
    (IF named # {} THEN named ELSE {id \in Ids(cp) : cp.status[id] = "failed"})
    \cup DOMAIN patch.modify

Closure(cp, spec, named, patch) ==
    LET downstream == DownstreamClosure(spec, Seeds(cp, named, patch) \cap DOMAIN spec)
    IN  downstream \cup {c \in DOMAIN cp.parentOf : cp.parentOf[c] \in downstream}

Injected(spec, inject) ==
    [id \in DOMAIN spec |-> IF id \in inject THEN [spec[id] EXCEPT !.task = "feedback"]
                            ELSE spec[id]]

\* What is kept of the nodes outside the closure: states that are settled or
\* that wait for generated children, decisions, and who generated whom.
Reused(cp, spec, keep) ==
    [Fresh(spec) EXCEPT
       !.status = [id \in DOMAIN spec |->
          IF id \in keep /\ (Settled(cp, id) \/ id \in Expanded(cp))
          THEN cp.status[id] ELSE "queued"],
       !.selected = Merged(Restrict(cp.selected, keep), @),
       !.misrouted = cp.misrouted \cap keep,
       !.parentOf = Restrict(cp.parentOf, DOMAIN cp.parentOf \cap keep),
       !.era = Merged(Restrict(cp.era, keep), @)]

\* Defect: every skip reason of the checkpoint is forgotten.
ViewWithoutSkips(cp, spec, closure) ==
    LET keep == (Ids(cp) \cap DOMAIN spec) \ closure
    IN  [Reused(cp, spec, keep) EXCEPT
           !.expansions = Restrict(cp.expansions, Expanded(cp) \cap keep)]

\* Defect: the skip reasons of the closure outlive the decisions behind them.
ViewWithOldSkips(cp, spec, closure) ==
    LET keep == (Ids(cp) \cap DOMAIN spec) \ closure
    IN  [Reused(cp, spec, keep) EXCEPT
           !.skip = cp.skip \cap DOMAIN spec,
           !.expansions = Restrict(cp.expansions, Expanded(cp) \cap keep)]

\* Defect: the records of expansions are not carried over.
ViewWithoutExpansions(cp, spec, closure) ==
    LET keep == (Ids(cp) \cap DOMAIN spec) \ closure
    IN  [Reused(cp, spec, keep) EXCEPT !.skip = cp.skip \cap keep]

\* What executeDAGCore is given: the closure starts afresh, without the skip
\* reasons and the expansions of its nodes.
View(cp, spec, closure) ==
    LET keep == (Ids(cp) \cap DOMAIN spec) \ closure
    IN  [Reused(cp, spec, keep) EXCEPT
           !.skip = cp.skip \cap keep,
           !.expansions = Restrict(cp.expansions, Expanded(cp) \cap keep)]

\* The executor checks the metadata it starts from, after admission.
StartHolds(s) ==
    /\ \A c \in DOMAIN s.parentOf : s.parentOf[c] \in Ids(s)
    /\ \A p \in Expanded(s) : s.expansions[p] \subseteq DOMAIN s.parentOf

\* A rerun with nothing left to do settles nothing and emits no checkpoint.
SomethingToDo(s) == \E id \in Ids(s) : ~Settled(s, id)

-----------------------------------------------------------------------------
(* The tool calls.                                                         *)

\* workflow_execute compiles what it was given; dag_execute takes it as it is.
Init ==
    /\ submitted \in
         {[graph |-> graph, workflow |-> FALSE] : graph \in Graphs}
         \cup {[graph |-> wf, workflow |-> TRUE] :
                 wf \in {w \in Workflows : ValidWorkflow(w) /\ w.kind # "loop"}}
    /\ origin = IF submitted.workflow THEN Compile(submitted.graph) ELSE submitted.graph
    /\ phase = "submitted"
    /\ run = Fresh(origin)
    /\ ckpt = Fresh(origin)
    /\ reruns = 0
    /\ plain = TRUE
    /\ released = {}

Submit ==
    /\ phase = "submitted"
    /\ phase' = IF origin = <<>> \/ ~Admitted(origin, {}) THEN "refused"
                ELSE IF submitted.graph \in Followed THEN "running" ELSE "admitted"
    /\ UNCHANGED <<submitted, origin, run, ckpt, reruns, plain, released>>

\* Every settlement hands out a snapshot.
Emit(s) ==
    /\ run' = s
    /\ ckpt' = s
    /\ UNCHANGED <<submitted, origin, phase, reruns, plain, released>>

Ready(id) ==
    /\ run.status[id] = "queued"
    /\ id \notin run.skip
    /\ \A d \in run.spec[id].deps : Settled(run, d)
IsDispatch(id) == run.spec[id].dispatch # 0 /\ id \notin Expanded(run)

Ends(id, outcome) == [run EXCEPT !.status[id] = outcome, !.era[id] = reruns]

\* settleSkippedNodes
SettleSkipped(id) ==
    /\ run.status[id] = "queued"
    /\ id \in run.skip
    /\ Emit(Ends(id, "skipped"))

\* settleExpandedParents
SettleParent(p) ==
    /\ p \in Expanded(run)
    /\ ~Settled(run, p)
    /\ \A c \in run.expansions[p] : Settled(run, c)
    /\ Emit(Ends(p, IF \A c \in run.expansions[p] : run.status[c] = "completed"
                    THEN "completed" ELSE "failed"))

\* A node that fails to run, a dispatcher whose sends are refused included.
NodeFails(id) == Ready(id) /\ Emit(Ends(id, "failed"))

NodeCompletes(id) ==
    /\ Ready(id)
    /\ ~IsDispatch(id)
    /\ id \notin Routers(run)
    /\ Emit(Ends(id, "completed"))

\* applyRoute: the route left out takes its targets with it, those that have
\* settled already excepted.
Skipping(s, targets) == [s EXCEPT !.skip = @ \cup {t \in targets : ~Settled(s, t)}]

RouterDecides(id) ==
    /\ Ready(id)
    /\ id \in Routers(run)
    /\ \/ \E chosen \in run.spec[id].routes :
            Emit(Skipping([Ends(id, "completed") EXCEPT !.selected[id] = chosen],
                          Targets(run.spec[id]) \ chosen))
       \/ Emit(Skipping([Ends(id, "failed") EXCEPT !.misrouted = @ \cup {id}],
                        Targets(run.spec[id])))

\* expandDispatch: declared sends, or those a result dispatcher returns.
SendsOf(id) == IF run.spec[id].fanOut = "sends" THEN {run.spec[id].sends}
               ELSE {[i \in DOMAIN keys |-> [key |-> keys[i], contract |-> "complete"]] :
                       keys \in KeyLists}

NodeExpands(id) ==
    /\ Ready(id)
    /\ IsDispatch(id)
    /\ \E sends \in SendsOf(id) :
          LET kids == Kids(id, sends)
              spec == Expand(run.spec, id, kids)
          IN  /\ ValidGeneratedSends(sends, TRUE)
              /\ Len(sends) <= run.spec[id].dispatch
              /\ kids \cap Ids(run) = {}
              /\ Admitted(spec, Expanded(run) \cup {id})
              /\ Emit([run EXCEPT
                   !.spec = spec,
                   !.status = Merged([@ EXCEPT ![id] = "running"], [c \in kids |-> "queued"]),
                   !.selected = Merged(@, [c \in kids |-> {}]),
                   !.parentOf = Merged(@, [c \in kids |-> id]),
                   !.expansions = Merged(@, [p \in {id} |-> kids]),
                   !.era = Merged(@, [c \in kids |-> reruns])])

Execute ==
    /\ phase = "running"
    /\ \E id \in Ids(run) :
        \/ SettleSkipped(id) \/ SettleParent(id) \/ NodeFails(id)
        \/ NodeCompletes(id) \/ RouterDecides(id) \/ NodeExpands(id)

\* The loop ends, all terminal or aborted, and the tool returns the last
\* checkpoint the run has emitted.
Over ==
    /\ phase = "running"
    /\ phase' = "over"
    /\ UNCHANGED <<submitted, origin, run, ckpt, reruns, plain, released>>

\* Route targets of the closure whose router keeps its decision.
SetFree(cp, closure) ==
    closure \cap cp.skip \cap UNION {LeftOut(cp, r) : r \in Routers(cp) \ closure}

Rerun(named, inject, patch) ==
    /\ PatchApplies(ckpt.spec, patch)
    /\ LET spec == Patched(ckpt.spec, patch)
           closure == Closure(ckpt, spec, named, patch)
           view == View(ckpt, Injected(spec, inject \cap closure), closure)
       IN  /\ Admitted(view.spec, Expanded(view))
           /\ phase' = IF StartHolds(view) THEN "running" ELSE "thrown"
           /\ SomethingToDo(view)
           /\ run' = view
           /\ plain' = (plain /\ patch = NoPatch /\ inject \cap closure = {}
                        /\ closure \cap (DOMAIN ckpt.parentOf \cup Expanded(ckpt)) = {}
                        /\ SetFree(ckpt, closure) = {})
           /\ released' = SetFree(ckpt, closure)
    /\ reruns' = reruns + 1
    /\ UNCHANGED <<submitted, origin, ckpt>>

\* One node is named, or none: the closure of a set is the union of closures.
CallRerun ==
    /\ phase = "over"
    /\ reruns < MaxReruns
    /\ Loads(ckpt)
    /\ \E named \in {{}} \cup {{id} : id \in Ids(ckpt)}, request \in Requests :
          Rerun(named, request.inject, request.patch)

Next == Submit \/ Execute \/ Over \/ CallRerun

Spec == Init /\ [][Next]_vars

\* The event loop runs what is ready; that nodes end is a promise of theirs.
FairSpec == Spec /\ WF_vars(Execute)

-----------------------------------------------------------------------------
\* Of the workflows that pass validation, admission refuses those with a task
\* that declares expectedOutput, which compiles to half a contract, or with a
\* role or a resource scope that cannot be resolved, which validation does not
\* look at; and it refuses no other.
ValidWorkflowsAdmitted ==
    submitted.workflow /\ phase # "submitted" =>
        LET wf == submitted.graph
        IN  phase = "refused" <=>
              \/ \E i \in DOMAIN wf.tasks : wf.tasks[i].output \/ ~wf.tasks[i].resolves
              \/ wf.kind = "map_reduce" /\ ~wf.mapResolves

\* What the scheduler takes for granted of a graph that was let in, also after
\* an expansion or a patch: every set of nodes has one that can go first,
\* routers are plain and choose among their dependents, generated work stays in bounds.
AdmittedGraphsFitScheduler ==
    phase \notin {"submitted", "refused"} =>
        /\ \A some \in (SUBSET Ids(run)) \ {{}} :
              \E id \in some : run.spec[id].deps \cap some = {}
        /\ \A id \in Ids(run) : run.spec[id].deps \subseteq Ids(run)
        /\ \A r \in Routers(run) :
              /\ run.spec[r].dispatch = 0 /\ run.spec[r].fanOut = "none"
              /\ \A t \in Targets(run.spec[r]) : t \in Ids(run) /\ r \in run.spec[t].deps
        /\ \A p \in Expanded(run) : Cardinality(run.expansions[p]) <= run.spec[p].dispatch

\* A result that is kept was computed from results no newer than itself: no
\* rerun changes what a node was given without running the node again.
ReuseIsCurrent ==
    \A id \in Ids(run) : run.status[id] \in {"completed", "failed"} =>
        \A d \in run.spec[id].deps : Settled(run, d) /\ run.era[d] <= run.era[id]

\* What the route of a router left out does not run, in no rerun, unless the
\* rerun named it or something upstream of it but not the router.
LeftOutStaysOut ==
    phase # "thrown" =>
        \A r \in Routers(run) : \A t \in LeftOut(run, r) \ released :
            run.status[t] \in {"queued", "skipped"}

\* Reruns that edit nothing and give up no decision leave a checkpoint the
\* next rerun or resumption can read, and start without an exception.
PlainRerunsLoad ==
    plain /\ phase \in {"running", "over", "thrown"} => phase # "thrown" /\ Loads(ckpt)

\* A rerun, whatever it kept and whatever it edited, settles every node unless
\* it is aborted.
RerunSettles ==
    phase = "running" ~> phase = "over" \/ ~SomethingToDo(run)
=============================================================================
