----------------------------- MODULE DagAdmission -----------------------------
(***************************************************************************)
(* validateDAG (src/src/dag/validate.ts) and expandDispatchNode            *)
(* (src/src/dag/expansion.ts) as operators on task graphs.                 *)
(*                                                                         *)
(* A graph maps ids to nodes, records with these fields:                   *)
(*   deps, consumers   sets of ids; "$result" may stand among consumers    *)
(*   contract          hasSemanticContract: expected_output or consumers   *)
(*                     is declared                                         *)
(*   dispatch          dispatch.maxChildren, 0 without dispatch            *)
(*   fanOut            "none", "sends" or "dynamic"                        *)
(*   sends             the declared sends, <<>> unless fanOut is "sends"   *)
(*   routes            the target sets a router can select, {} otherwise   *)
(*   sound             the checks that look at one field of the node hold: *)
(*                     role, timeout, priority, task and output texts,     *)
(*                     scopes                                              *)
(*   task              "original", or "feedback" after an injection        *)
(* A send is a record [key, contract]: contract is "none", "partial" or    *)
(* "complete" (role, task, key, expected output, and only "$parent" as     *)
(* consumer).                                                              *)
(***************************************************************************)
EXTENDS Integers, FiniteSets, Sequences, SequencesExt

\* Lists and graphs are finite, and a node has all of the fields.
IsList(list) == Len(list) \in Nat /\ list = [i \in 1..Len(list) |-> list[i]]

NodeFields == {"deps", "consumers", "contract", "dispatch", "fanOut", "sends", "routes",
               "sound", "task"}

IsNode(node) ==
    /\ node = [field \in NodeFields |-> node[field]]
    /\ node.dispatch \in Nat
    /\ IsList(node.sends)

IsGraph(spec) ==
    /\ IsFiniteSet(DOMAIN spec)
    /\ spec = [id \in DOMAIN spec |-> spec[id]]
    /\ \A id \in DOMAIN spec : IsNode(spec[id])

FINAL_RESULT_CONSUMER == "$result"
HARD_MAX_DISPATCH_CHILDREN == 20
HARD_MAX_DISPATCH_DEPTH == 2

Targets(node) == UNION node.routes
DirectConsumers(spec, id) == {m \in DOMAIN spec : id \in spec[m].deps}

\* A legacy send needs no key; with any contract field, or a parent that has
\* a contract, it needs all of them and a key of its own.
ValidGeneratedSends(sends, requireSemanticContract) ==
    LET Contracted(i) == requireSemanticContract \/ sends[i].contract # "none"
    IN  \A i \in DOMAIN sends : Contracted(i) =>
          /\ sends[i].contract = "complete"
          /\ \A j \in DOMAIN sends : Contracted(j) /\ sends[i].key = sends[j].key => i = j

\* One contracted node is no graph, unless it dispatches.
NotSingle(spec, expandedDispatches) ==
    \A id \in DOMAIN spec :
        DOMAIN spec = {id} /\ spec[id].contract =>
            spec[id].dispatch # 0 \/ id \in expandedDispatches

\* Consumers are named on both ends of an edge, and a leaf feeds the result.
ContractHolds(spec, id) ==
    LET node == spec[id]
        direct == DirectConsumers(spec, id)
    IN  /\ node.consumers # {}
        /\ node.consumers \ {FINAL_RESULT_CONSUMER} = direct
        /\ direct = {} => FINAL_RESULT_CONSUMER \in node.consumers
        /\ node.fanOut # "none" => node.dispatch # 0

NodeHolds(spec, id) ==
    LET node == spec[id]
    IN  /\ node.sound
        /\ node.dispatch # 0 => node.contract
        /\ node.contract => ContractHolds(spec, id)
        /\ node.dispatch <= HARD_MAX_DISPATCH_CHILDREN
        /\ node.dispatch # 0 => Len(node.sends) <= node.dispatch
        /\ ValidGeneratedSends(node.sends, node.dispatch # 0 \/ node.contract)
        /\ node.deps \subseteq DOMAIN spec

\* Routing selects among dependents, so it adds no edge.
RoutesHold(spec, id) ==
    spec[id].routes # {} =>
        /\ spec[id].dispatch = 0
        /\ spec[id].fanOut = "none"
        /\ Targets(spec[id]) \subseteq DirectConsumers(spec, id)

\* getAncestors, by the length of the chains.
AncestorsOf(spec) ==
    LET up[i \in 0..Cardinality(DOMAIN spec)] ==
          IF i = 0 THEN [id \in DOMAIN spec |-> spec[id].deps]
          ELSE LET below == up[i - 1]
               IN  [id \in DOMAIN spec |->
                      below[id] \cup UNION {below[d] : d \in below[id] \cap DOMAIN spec}]
    IN  up[Cardinality(DOMAIN spec)]
Acyclic(spec) == LET ancestors == AncestorsOf(spec)
                 IN  \A id \in DOMAIN spec : id \notin ancestors[id]

\* The dispatch nodes on the longest chain down to each node.
DispatchDepth(spec) ==
    LET depth[id \in DOMAIN spec] ==
          (IF spec[id].dispatch # 0 THEN 1 ELSE 0)
          + Max({0} \cup {depth[d] : d \in spec[id].deps})
    IN  depth

\* Kahn's queue: the nodes whose dependencies can all be scheduled before.
Reached(spec) ==
    LET wave[i \in 0..Cardinality(DOMAIN spec)] ==
          IF i = 0 THEN {}
          ELSE LET before == wave[i - 1]
               IN  {id \in DOMAIN spec : spec[id].deps \subseteq before}
    IN  wave[Cardinality(DOMAIN spec)]

\* Defect: routes are not looked at.
AdmittedAnyRoute(spec, expandedDispatches) ==
    /\ NotSingle(spec, expandedDispatches)
    /\ \A id \in DOMAIN spec : NodeHolds(spec, id)
    /\ Acyclic(spec)
    /\ Reached(spec) = DOMAIN spec

\* validateDAG(spec, roles, {expandedDispatches}).ok
Admitted(spec, expandedDispatches) ==
    /\ NotSingle(spec, expandedDispatches)
    /\ \A id \in DOMAIN spec : NodeHolds(spec, id) /\ RoutesHold(spec, id)
    /\ Acyclic(spec)
    /\ LET depth == DispatchDepth(spec)
       IN  \A id \in DOMAIN spec : depth[id] <= HARD_MAX_DISPATCH_DEPTH
    /\ Reached(spec) = DOMAIN spec

-----------------------------------------------------------------------------
generatedNodeId(parentId, key) == parentId \o "::" \o key
Kids(parentId, sends) ==
    {generatedNodeId(parentId, sends[i].key) : i \in DOMAIN sends}

\* The dispatch node becomes the join of its generated children; they take
\* over its dependencies, whose consumer lists grow by them.
Expand(spec, parentId, kids) ==
    LET parent == spec[parentId]
        child == [deps |-> parent.deps, consumers |-> {parentId}, contract |-> TRUE,
                  dispatch |-> 0, fanOut |-> "none", sends |-> <<>>, routes |-> {},
                  sound |-> TRUE, task |-> "original"]
        Edited(id) ==
          CASE id = parentId -> [parent EXCEPT !.deps = @ \cup kids,
                                               !.fanOut = "none", !.sends = <<>>]
            [] id \in parent.deps /\ parentId \in spec[id].consumers ->
                 [spec[id] EXCEPT !.consumers = @ \cup kids]
            [] id \in kids -> child
            [] OTHER -> spec[id]
    IN  [id \in DOMAIN spec \cup kids |-> Edited(id)]
=============================================================================
