--------------------------- MODULE WorkflowContract ---------------------------
(***************************************************************************)
(* validateWorkflowContract and compileWorkflowToDAG                       *)
(* (src/src/dag/workflow-contract.ts) as operators.                        *)
(*                                                                         *)
(* A workflow is a record:                                                 *)
(*   kind      the workflow kind                                           *)
(*   tasks     a sequence of [id, deps, output, resolves]; output says     *)
(*             whether the task declares expectedOutput, resolves whether  *)
(*             its role is known and its resourceScope holds resource URIs *)
(*   router    condition.routerId, "" without condition                    *)
(*   routes    the target sets of condition.routes                         *)
(*   items     the keys of mapReduce.items, a sequence                     *)
(*   reduce    mapReduce.reduceTaskId, "" without mapReduce                *)
(*   mapResolves   mapReduce.mapRole is known, or there is none            *)
(*   loops     loop.maxIterations, 0 without loop                          *)
(*   sound     the texts and the schema version are there                  *)
(* Validation looks at sound; output, resolves and mapResolves matter only *)
(* when the compiled graph is admitted.                                    *)
(***************************************************************************)
EXTENDS DagAdmission

\* Lists are finite, and a task says whether it declares an output and whether
\* what it names can be resolved.
IsWorkflow(wf) ==
    /\ IsList(wf.tasks) /\ IsList(wf.items)
    /\ wf.mapResolves \in BOOLEAN
    /\ \A i \in DOMAIN wf.tasks : /\ wf.tasks[i].output \in BOOLEAN
                                 /\ wf.tasks[i].resolves \in BOOLEAN

Chained(wf) == wf.kind \in {"sequential", "handoff"}
TaskIds(wf) == {wf.tasks[i].id : i \in DOMAIN wf.tasks}
mapId(key) == "map:" \o key
MapIds(wf) == {mapId(wf.items[i]) : i \in DOMAIN wf.items}
Selectable(wf) == IF wf.kind = "conditional" THEN UNION wf.routes ELSE {}

\* The dependencies the kind implies besides the declared ones.
EffectiveDeps(wf, i) ==
    LET task == wf.tasks[i]
    IN  task.deps
        \cup (IF Chained(wf) /\ i > 1 THEN {wf.tasks[i - 1].id} ELSE {})
        \cup (IF task.id \in Selectable(wf) THEN {wf.router} ELSE {})
        \cup (IF wf.kind = "map_reduce" /\ task.id = wf.reduce THEN MapIds(wf) ELSE {})

\* Depth-first search of the code: is a task among its own dependencies?
HasDependencyCycle(wf) ==
    ~ Acyclic([id \in TaskIds(wf) |->
        [deps |-> EffectiveDeps(wf, CHOOSE i \in DOMAIN wf.tasks : wf.tasks[i].id = id)]])

\* What the kind demands of the shape of the contract.
ShapeHolds(wf) ==
    LET Free(i) == wf.tasks[i].deps = {}
    IN  /\ wf.kind = "direct" => Len(wf.tasks) = 1 /\ Free(1)
        /\ Chained(wf) => Len(wf.tasks) >= 2
        /\ wf.kind = "parallel" => \A i \in DOMAIN wf.tasks : Free(i)
        /\ wf.kind = "conditional" =>
              /\ wf.router \in TaskIds(wf)
              /\ wf.routes # {}
              /\ \A targets \in wf.routes :
                    targets # {} /\ targets \subseteq TaskIds(wf) \ {wf.router}
        /\ wf.kind = "loop" => wf.loops \in 1..100 /\ Len(wf.tasks) = 1 /\ Free(1)
        /\ wf.kind = "map_reduce" =>
              /\ wf.items # <<>>
              /\ IsInjective(wf.items)
              /\ MapIds(wf) \cap TaskIds(wf) = {}
              /\ wf.reduce \in TaskIds(wf)

ValidWorkflow(wf) ==
    /\ wf.sound
    /\ wf.tasks # <<>>
    /\ IsInjective([i \in DOMAIN wf.tasks |-> wf.tasks[i].id])
    /\ \A i \in DOMAIN wf.tasks : wf.tasks[i].deps \subseteq TaskIds(wf) \ {wf.tasks[i].id}
    /\ ShapeHolds(wf)
    /\ ~HasDependencyCycle(wf)

\* A node of which only the dependencies, the role and the scopes are given.
PlainNode(deps, resolves) ==
    [deps |-> deps, consumers |-> {}, contract |-> FALSE, dispatch |-> 0,
     fanOut |-> "none", sends |-> <<>>, routes |-> {}, sound |-> resolves,
     task |-> "original"]

\* Defect: the targets of a route are not made to wait for the router.
CompileDetached(wf) ==
    LET Node(i) ==
          [PlainNode(wf.tasks[i].deps, wf.tasks[i].resolves) EXCEPT
             !.contract = wf.tasks[i].output,
             !.routes = IF wf.kind = "conditional" /\ wf.tasks[i].id = wf.router
                        THEN wf.routes ELSE {}]
    IN  [id \in TaskIds(wf) |-> Node(CHOOSE i \in DOMAIN wf.tasks : wf.tasks[i].id = id)]

\* A declared output becomes expected_output of the node; the compiler has no
\* consumers to give it.  Roles and scopes are copied unseen.
Compile(wf) ==
    LET Node(i) ==
          [PlainNode(EffectiveDeps(wf, i), wf.tasks[i].resolves) EXCEPT
             !.contract = wf.tasks[i].output,
             !.routes = IF wf.kind = "conditional" /\ wf.tasks[i].id = wf.router
                        THEN wf.routes ELSE {}]
    IN  [id \in TaskIds(wf) \cup (IF wf.kind = "map_reduce" THEN MapIds(wf) ELSE {}) |->
           IF id \in TaskIds(wf)
           THEN Node(CHOOSE i \in DOMAIN wf.tasks : wf.tasks[i].id = id)
           ELSE PlainNode({}, wf.mapResolves)]
=============================================================================
