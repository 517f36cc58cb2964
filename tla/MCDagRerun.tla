------------------------------ MODULE MCDagRerun ------------------------------
(***************************************************************************)
(* Small instances of DagRerun.  Every plain or routing graph of three     *)
(* nodes and every workflow of two or three tasks goes through admission;  *)
(* a few graphs are run and rerun.                                         *)
(***************************************************************************)
EXTENDS DagRerun

Plain(deps) == PlainNode(deps, TRUE)
Contracted(deps, consumers) ==
    [Plain(deps) EXCEPT !.contract = TRUE, !.consumers = consumers]
Router(deps, routes) == [Plain(deps) EXCEPT !.routes = routes]
Send(key) == [key |-> key, contract |-> "complete"]

\* Graphs that are followed: a result dispatcher between two nodes, declared
\* sends beside a plain node, and two routers that share a target.
FanOut ==
    [src |-> Contracted({}, {"disp"}),
     disp |-> [Contracted({"src"}, {"end"}) EXCEPT !.dispatch = 2],
     end |-> Contracted({"disp"}, {"$result"})]
DeclaredFanOut ==
    [disp |-> [Contracted({}, {"end"}) EXCEPT
                 !.dispatch = 2, !.fanOut = "sends", !.sends = <<Send("x"), Send("y")>>],
     end |-> Contracted({"disp"}, {"$result"})]
Routing ==
    [r |-> Router({}, {{"t"}, {"u"}}),
     q |-> Router({}, {{"t"}, {}}),
     t |-> Plain({"r", "q"}),
     u |-> Plain({"r"}),
     end |-> Plain({"t", "u"})]

\* Graphs that only meet admission, dependencies on oneself and on nobody
\* included.
Small == {"r", "t", "u"}
SmallGraphs ==
    {[id \in Small |-> IF id = "r" THEN Router(deps[id], routes) ELSE Plain(deps[id])] :
       deps \in [Small -> SUBSET (Small \cup {"ghost"})],
       routes \in {{}, {{"t"}}, {{"t"}, {"u"}}, {{"t", "ghost"}}}}

MCGraphs == SmallGraphs \cup {FanOut, DeclaredFanOut, Routing}

Task(id, deps) == [id |-> id, deps |-> deps, output |-> FALSE, resolves |-> TRUE]
Blank == [kind |-> "dag", tasks |-> <<>>, router |-> "", routes |-> {},
          items |-> <<>>, reduce |-> "", mapResolves |-> TRUE, loops |-> 0, sound |-> TRUE]

TaskLists ==
    {<<Task("r", {})>>, <<[Task("r", {}) EXCEPT !.output = TRUE]>>,
     <<Task("r", {}), [Task("t", {"r"}) EXCEPT !.resolves = FALSE]>>}
    \cup {[i \in 1..3 |-> Task(<<"r", "t", "u">>[i], deps[i])] :
            deps \in [1..3 -> SUBSET Small]}
Conditional(tasks, router, routes) ==
    [Blank EXCEPT !.kind = "conditional", !.tasks = tasks, !.router = router, !.routes = routes]
MapReduce(tasks, reduce, mapResolves) ==
    [Blank EXCEPT !.kind = "map_reduce", !.tasks = tasks, !.items = <<"x", "y">>,
                  !.reduce = reduce, !.mapResolves = mapResolves]

MCWorkflows ==
    {[Blank EXCEPT !.kind = kind, !.tasks = tasks] :
       kind \in {"direct", "sequential", "parallel", "handoff", "dag"}, tasks \in TaskLists}
    \cup {Conditional(tasks, router, routes) :
            tasks \in TaskLists, router \in Small,
            routes \in {{{"t"}}, {{"t"}, {"u"}}, {{"r", "u"}, {"u"}}}}
    \cup {MapReduce(tasks, reduce, mapResolves) :
            tasks \in TaskLists, reduce \in Small, mapResolves \in BOOLEAN}

Branching == Conditional(<<Task("r", {}), Task("t", {}), Task("u", {"t"})>>, "r", {{"t"}, {"u"}})
MapAndReduce == MapReduce(<<Task("r", {})>>, "r", TRUE)

MCFollowed == {FanOut, DeclaredFanOut, Routing, Branching, MapAndReduce}
MCKeyLists == {<<>>, <<"x">>, <<"x", "y">>}

Patch(patch) == [inject |-> {}, patch |-> patch]
MCRequests ==
    {Patch(NoPatch), [inject |-> {"src", "t"}, patch |-> NoPatch],
     Patch([NoPatch EXCEPT !.remove = {"end"}]),
     Patch([NoPatch EXCEPT !.remove = {"disp::x"}]),
     Patch([NoPatch EXCEPT !.add = [extra |-> Plain({"r"})]]),
     Patch([NoPatch EXCEPT !.modify = [end |-> [deps |-> {"u"}]]])}
=============================================================================
