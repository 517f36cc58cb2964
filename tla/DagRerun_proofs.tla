---------------------------- MODULE DagRerun_proofs ----------------------------
(***************************************************************************)
(* Proofs about DagRerun and the admission of graphs.                      *)
(***************************************************************************)
EXTENDS DagRerun, Recursion_proofs

-----------------------------------------------------------------------------
(* Graphs that are let in.                                                 *)

\* Kahn's queue in rounds.
LEMMA ReachedInRounds ==
    ASSUME NEW spec, IsFiniteSet(DOMAIN spec)
    PROVE  LET N == Cardinality(DOMAIN spec) IN
           /\ N \in Nat
           /\ \E wave \in [0..N -> SUBSET DOMAIN spec] :
                 /\ wave[0] = {} /\ Reached(spec) = wave[N]
                 /\ \A i \in 0..N : i + 1 <= N =>
                       wave[i + 1] = {id \in DOMAIN spec : spec[id].deps \subseteq wave[i]}
<1> DEFINE N == Cardinality(DOMAIN spec)
           R == SUBSET DOMAIN spec
           step == [X \in R |-> {id \in DOMAIN spec : spec[id].deps \subseteq X}]
           Waves(w) == w = [i \in 0..N |->
                              IF i = 0 THEN {}
                              ELSE LET before == w[i - 1]
                                   IN  {id \in DOMAIN spec : spec[id].deps \subseteq before}]
           g == CHOOSE w : Waves(w)
<1>1. N \in Nat /\ step \in [R -> R] /\ {} \in R
  BY FS_CardinalityType
<1>2. PICK f \in [0..N -> R] : Iteration(f, N, {}, step)
  <2> HIDE DEF step, R, N
  <2>1. QED
    BY <1>1, Iterates
<1> HIDE DEF N
<1>3. Waves(f)
  <2>1. \A i \in 0..N : i # 0 => f[i - 1] \in R
    BY <1>1
  <2>2. \A X \in R : step[X] = {id \in DOMAIN spec : spec[id].deps \subseteq X}
    OBVIOUS
  <2> HIDE DEF step
  <2>3. \A i \in 0..N : f[i] = IF i = 0 THEN {} ELSE step[f[i - 1]]
    BY <1>2 DEF Iteration
  <2>4. QED
    BY <2>1, <2>2, <2>3
<1>4. Waves(g)
  BY <1>3, Zenon
<1>5. Reached(spec) = g[N]
  BY DEF Reached, N
<1> HIDE DEF g
<1>6. g \in [0..N -> SUBSET DOMAIN spec] /\ g[0] = {}
  BY <1>1, <1>4
<1>7. ASSUME NEW i \in 0..N, i + 1 <= N
      PROVE  g[i + 1] = {id \in DOMAIN spec : spec[id].deps \subseteq g[i]}
  <2>1. i + 1 \in 0..N /\ i + 1 # 0 /\ (i + 1) - 1 = i
    BY <1>1, <1>7
  <2>2. QED
    BY <1>4, <2>1
<1>8. QED
  BY <1>1, <1>5, <1>6, <1>7 DEF N

\* In a graph that can be scheduled to the end, every set of nodes has one
\* that depends on none of them.
LEMMA SourcesExist ==
    ASSUME NEW spec, IsFiniteSet(DOMAIN spec), Reached(spec) = DOMAIN spec,
           NEW some \in SUBSET DOMAIN spec, some # {}
    PROVE  \E id \in some : spec[id].deps \cap some = {}
<1> DEFINE N == Cardinality(DOMAIN spec)
<1>1. N \in Nat
  BY ReachedInRounds
<1>2. PICK wave \in [0..N -> SUBSET DOMAIN spec] :
         /\ wave[0] = {} /\ Reached(spec) = wave[N]
         /\ \A i \in 0..N : i + 1 <= N =>
               wave[i + 1] = {id \in DOMAIN spec : spec[id].deps \subseteq wave[i]}
  BY ReachedInRounds
<1> HIDE DEF N
<1> DEFINE Without == {i \in 0..N : wave[i] \cap some = {}}
<1>3. ASSUME \A id \in some : spec[id].deps \cap some # {} PROVE FALSE
  <2>1. 0 \in Without
    BY <1>1, <1>2
  <2>2. ASSUME NEW i \in 0..N, i \in Without, i + 1 <= N PROVE i + 1 \in Without
    <3>1. i + 1 \in 0..N
      BY <1>1, <2>2
    <3>2. wave[i + 1] = {id \in DOMAIN spec : spec[id].deps \subseteq wave[i]}
      BY <1>2, <2>2
    <3>3. wave[i] \cap some = {}
      BY <2>2
    <3>4. wave[i + 1] \cap some = {}
      BY <1>3, <3>2, <3>3
    <3>5. QED
      BY <3>1, <3>4
  <2> HIDE DEF Without
  <2>3. \A i \in 0..N : i \in Without /\ i + 1 <= N => i + 1 \in Without
    BY <2>2
  <2>4. \A i \in 0..N : i \in Without
    BY <1>1, <2>1, <2>3, Ascend
  <2>5. N \in Without
    BY <1>1, <2>4
  <2>6. QED
    BY <1>2, <2>5 DEF Without
<1>4. QED
  BY <1>3

\* What admission demands of the edges and of routers.
LEMMA AdmittedFacts ==
    ASSUME NEW spec, NEW expanded, Admitted(spec, expanded)
    PROVE  /\ Reached(spec) = DOMAIN spec
           /\ \A id \in DOMAIN spec :
                 /\ spec[id].deps \subseteq DOMAIN spec
                 /\ spec[id].contract =>
                      spec[id].consumers \ {FINAL_RESULT_CONSUMER} = DirectConsumers(spec, id)
                 /\ spec[id].routes # {} =>
                      /\ spec[id].dispatch = 0 /\ spec[id].fanOut = "none"
                      /\ \A t \in Targets(spec[id]) : t \in DOMAIN spec /\ id \in spec[t].deps
BY DEF Admitted, NodeHolds, ContractHolds, RoutesHold, DirectConsumers

\* No node waits for itself.
LEMMA NoSelfEdge ==
    ASSUME NEW spec, NEW expanded, Admitted(spec, expanded), IsGraph(spec)
    PROVE  \A id \in DOMAIN spec : id \notin spec[id].deps
<1>1. IsFiniteSet(DOMAIN spec) /\ Reached(spec) = DOMAIN spec
  BY AdmittedFacts DEF IsGraph
<1>2. ASSUME NEW id \in DOMAIN spec PROVE id \notin spec[id].deps
  <2>1. {id} \in SUBSET DOMAIN spec /\ {id} # {}
    OBVIOUS
  <2>2. \E x \in {id} : spec[x].deps \cap {id} = {}
    BY <1>1, <2>1, SourcesExist
  <2>3. QED
    BY <2>2
<1>3. QED
  BY <1>2

-----------------------------------------------------------------------------
(* Graphs stay well formed.                                                *)

\* A list is a function on its indices.
LEMMA ListFacts ==
    ASSUME NEW list, IsList(list)
    PROVE  DOMAIN list = 1..Len(list) /\ Len(list) \in Nat /\ IsFiniteSet(DOMAIN list)
<1>1. DOMAIN list = 1..Len(list) /\ Len(list) \in Nat
  BY DEF IsList
<1>2. QED
  BY <1>1, FS_Interval

\* A list of sends generates at most as many children.
LEMMA KidsAreFew ==
    ASSUME NEW parentId, NEW sends, IsList(sends)
    PROVE  /\ IsFiniteSet(Kids(parentId, sends))
           /\ Cardinality(Kids(parentId, sends)) \in Nat
           /\ Cardinality(Kids(parentId, sends)) <= Len(sends)
<1> DEFINE kid == [i \in DOMAIN sends |-> generatedNodeId(parentId, sends[i].key)]
<1>1. kid \in Surjection(DOMAIN sends, Kids(parentId, sends))
  BY DEF Surjection, Kids
<1>2. IsFiniteSet(DOMAIN sends) /\ Cardinality(DOMAIN sends) = Len(sends)
  <2>1. DOMAIN sends = 1..Len(sends) /\ Len(sends) \in Nat /\ IsFiniteSet(DOMAIN sends)
    BY ListFacts
  <2>2. \A n \in Nat : Cardinality(1..n) = n
    BY FS_Interval
  <2>3. QED
    BY <2>1, <2>2
<1> HIDE DEF kid
<1>3. /\ IsFiniteSet(Kids(parentId, sends))
      /\ Cardinality(Kids(parentId, sends)) <= Cardinality(DOMAIN sends)
  BY <1>1, <1>2, FS_Surjection
<1>4. QED
  BY <1>2, <1>3, FS_CardinalityType

\* An expansion edits the dispatch node and those it depends on, and adds the
\* generated children, which wait for what the dispatch node waited for.
Grows(spec, p, kids, all) ==
    /\ DOMAIN all = DOMAIN spec \cup kids
    /\ IsGraph(all)
    /\ \A id \in DOMAIN spec :
          /\ all[id].dispatch = spec[id].dispatch
          /\ all[id].routes = spec[id].routes
          /\ all[id].deps = IF id = p THEN spec[p].deps \cup kids ELSE spec[id].deps
    /\ \A c \in kids : all[c].deps = spec[p].deps /\ all[c].routes = {}

\* What expandDynamicDispatch does to a graph.
LEMMA ExpandFacts ==
    ASSUME NEW spec, IsGraph(spec),
           NEW p \in DOMAIN spec, spec[p].deps \subseteq DOMAIN spec \ {p},
           NEW kids, IsFiniteSet(kids), kids \cap DOMAIN spec = {}
    PROVE  Grows(spec, p, kids, Expand(spec, p, kids))
<1> DEFINE all == Expand(spec, p, kids)
           child == [deps |-> spec[p].deps, consumers |-> {p}, contract |-> TRUE,
                     dispatch |-> 0, fanOut |-> "none", sends |-> <<>>, routes |-> {},
                     sound |-> TRUE, task |-> "original"]
           Joined == [spec[p] EXCEPT !.deps = @ \cup kids, !.fanOut = "none", !.sends = <<>>]
           Longer(id) == [spec[id] EXCEPT !.consumers = @ \cup kids]
<1>0. /\ \A id \in DOMAIN spec : IsNode(spec[id])
      /\ IsFiniteSet(DOMAIN spec)
  BY DEF IsGraph
<1> DEFINE Edited(id) ==
             CASE id = p -> Joined
               [] id \in spec[p].deps /\ p \in spec[id].consumers -> Longer(id)
               [] id \in kids -> child
               [] OTHER -> spec[id]
<1>e. all = [id \in DOMAIN spec \cup kids |-> Edited(id)]
  BY Zenon DEF Expand
<1>1. /\ all = [id \in DOMAIN spec \cup kids |-> all[id]]
      /\ DOMAIN all = DOMAIN spec \cup kids
  BY DEF Expand
<1> HIDE DEF all, Joined, Longer, child
<1>2. all[p] = Joined
  BY <1>e
<1>3. \A id \in DOMAIN spec : id # p => all[id] = spec[id] \/ all[id] = Longer(id)
  BY <1>e
<1>4. \A c \in kids : all[c] = child
  BY <1>e
<1>5. IsList(<<>>)
  BY DEF IsList
<1>6. /\ IsNode(Joined) /\ Joined.dispatch = spec[p].dispatch /\ Joined.routes = spec[p].routes
      /\ Joined.deps = spec[p].deps \cup kids
  BY <1>0, <1>5, ZenonT(40) DEF IsNode, NodeFields, Joined
<1>7. \A id \in DOMAIN spec : /\ IsNode(Longer(id)) /\ Longer(id).dispatch = spec[id].dispatch
                              /\ Longer(id).routes = spec[id].routes
                              /\ Longer(id).deps = spec[id].deps
  BY <1>0 DEF IsNode, NodeFields, Longer
<1>8. IsNode(child) /\ child.deps = spec[p].deps /\ child.routes = {}
  BY <1>5 DEF IsNode, NodeFields, child
<1>9. \A id \in DOMAIN all : IsNode(all[id])
  BY <1>0, <1>1, <1>2, <1>3, <1>4, <1>6, <1>7, <1>8
<1>10. IsFiniteSet(DOMAIN all)
  BY <1>0, <1>1, FS_Union
<1>11. IsGraph(all)
  BY <1>1, <1>9, <1>10 DEF IsGraph
<1>12. \A id \in DOMAIN spec :
          /\ all[id].dispatch = spec[id].dispatch
          /\ all[id].routes = spec[id].routes
          /\ all[id].deps = IF id = p THEN spec[p].deps \cup kids ELSE spec[id].deps
  BY <1>2, <1>3, <1>6, <1>7
<1>13. Grows(spec, p, kids, all)
  BY <1>1, <1>4, <1>8, <1>11, <1>12 DEF Grows
<1>14. QED
  BY <1>13 DEF all

\* The nodes of a patched graph are those of the graph and of the patch; a
\* node that is not edited loses only the edges to removed nodes.
Changes(spec, patch, all) ==
    /\ DOMAIN all = (DOMAIN spec \cup DOMAIN patch.add) \ patch.remove
    /\ IsGraph(all)
    /\ \A id \in (DOMAIN spec \cap DOMAIN all) \ DOMAIN patch.modify :
          /\ all[id].dispatch = spec[id].dispatch
          /\ all[id].routes = spec[id].routes
          /\ all[id].deps = spec[id].deps \ patch.remove

\* What applySpecPatch does to a graph.
LEMMA PatchFacts ==
    ASSUME NEW spec, IsGraph(spec), NEW patch, IsGraph(patch.add), PatchApplies(spec, patch),
           \A id \in DOMAIN patch.modify : IsOverride(patch.modify[id])
    PROVE  Changes(spec, patch, Patched(spec, patch))
<1> DEFINE both == Merged(spec, patch.add)
           Loses(id) == [both[id] EXCEPT !.deps = @ \ patch.remove]
           kept == [id \in DOMAIN both \ patch.remove |-> Loses(id)]
           all == [id \in DOMAIN kept |->
                     IF id \in DOMAIN patch.modify THEN Merged(patch.modify[id], kept[id])
                     ELSE kept[id]]
<1>1. /\ \A id \in DOMAIN spec : IsNode(spec[id])
      /\ \A id \in DOMAIN patch.add : IsNode(patch.add[id])
      /\ IsFiniteSet(DOMAIN spec) /\ IsFiniteSet(DOMAIN patch.add)
  BY DEF IsGraph
<1>2. /\ DOMAIN both = DOMAIN spec \cup DOMAIN patch.add
      /\ \A id \in DOMAIN spec : both[id] = spec[id]
      /\ \A id \in DOMAIN patch.add \ DOMAIN spec : both[id] = patch.add[id]
  BY DEF Merged
<1> HIDE DEF both
<1>3. \A id \in DOMAIN both : IsNode(both[id])
  BY <1>1, <1>2
<1>4. \A id \in DOMAIN both : /\ IsNode(Loses(id)) /\ Loses(id).dispatch = both[id].dispatch
                              /\ Loses(id).routes = both[id].routes
                              /\ Loses(id).deps = both[id].deps \ patch.remove
  BY <1>3 DEF IsNode, NodeFields
<1> HIDE DEF Loses
<1>5. ASSUME NEW node, IsNode(node), NEW values, IsOverride(values)
      PROVE  IsNode(Merged(values, node))
  <2> DEFINE new == Merged(values, node)
  <2>1. DOMAIN node = NodeFields /\ DOMAIN values \subseteq NodeFields
    BY <1>5 DEF IsNode, IsOverride
  <2>2. new = [f \in NodeFields |-> IF f \in DOMAIN values THEN values[f] ELSE node[f]]
    BY <2>1 DEF Merged
  <2>3. "dispatch" \in NodeFields /\ "sends" \in NodeFields
    BY DEF NodeFields
  <2>4. new.dispatch \in Nat
    BY <1>5, <2>2, <2>3 DEF IsNode, IsOverride
  <2>5. IsList(new.sends)
    BY <1>5, <2>2, <2>3 DEF IsNode, IsOverride
  <2>6. new = [f \in NodeFields |-> new[f]]
    BY <2>2
  <2>7. QED
    BY <2>4, <2>5, <2>6 DEF IsNode
<1>6. /\ DOMAIN all = (DOMAIN spec \cup DOMAIN patch.add) \ patch.remove
      /\ all = [id \in DOMAIN all |-> all[id]]
  BY <1>2
<1>7. \A id \in DOMAIN all : IsNode(all[id])
  BY <1>4, <1>5
<1>8. IsFiniteSet(DOMAIN all)
  BY <1>1, <1>6, FS_Union, FS_Difference
<1>9. IsGraph(all)
  BY <1>6, <1>7, <1>8 DEF IsGraph
<1>10. \A id \in (DOMAIN spec \cap DOMAIN all) \ DOMAIN patch.modify :
          /\ all[id].dispatch = spec[id].dispatch
          /\ all[id].routes = spec[id].routes
          /\ all[id].deps = spec[id].deps \ patch.remove
  BY <1>2, <1>4
<1>11. all = Patched(spec, patch)
  BY DEF Patched, both, Loses
<1> HIDE DEF all
<1>12. Changes(spec, patch, all)
  BY <1>6, <1>9, <1>10 DEF Changes
<1>13. QED
  BY <1>11, <1>12

\* An injection changes the task of a node and nothing else.
SameShape(spec, all) ==
    /\ DOMAIN all = DOMAIN spec
    /\ IsGraph(all)
    /\ \A id \in DOMAIN spec : /\ all[id].dispatch = spec[id].dispatch
                               /\ all[id].routes = spec[id].routes
                               /\ all[id].deps = spec[id].deps

\* What injecting text into the prompts of nodes does to a graph.
LEMMA InjectFacts ==
    ASSUME NEW spec, IsGraph(spec), NEW inject
    PROVE  SameShape(spec, Injected(spec, inject))
<1> DEFINE all == Injected(spec, inject)
           Fed(id) == [spec[id] EXCEPT !.task = "feedback"]
<1>1. (\A id \in DOMAIN spec : IsNode(spec[id])) /\ IsFiniteSet(DOMAIN spec)
  BY DEF IsGraph
<1>2. \A id \in DOMAIN spec : /\ IsNode(Fed(id)) /\ Fed(id).dispatch = spec[id].dispatch
                              /\ Fed(id).routes = spec[id].routes
                              /\ Fed(id).deps = spec[id].deps
  BY <1>1 DEF IsNode, NodeFields
<1>3. /\ DOMAIN all = DOMAIN spec /\ all = [id \in DOMAIN all |-> all[id]]
      /\ \A id \in DOMAIN spec : all[id] = Fed(id) \/ all[id] = spec[id]
  BY DEF Injected
<1> HIDE DEF all, Fed
<1>4. IsGraph(all)
  BY <1>1, <1>2, <1>3 DEF IsGraph
<1>5. SameShape(spec, all)
  BY <1>2, <1>3, <1>4 DEF SameShape
<1>6. QED
  BY <1>5 DEF all

\* A list that is not empty has a first element.
LEMMA ListHasFirst ==
    ASSUME NEW list, IsList(list), list # <<>>
    PROVE  1 \in DOMAIN list
<1> DEFINE n == Len(list)
           S == {list[i] : i \in 1..n}
<1>1. DOMAIN list = 1..n /\ n \in Nat
  BY ListFacts
<1>2. list \in Seq(S)
  BY <1>1 DEF IsList
<1>3. n # 0
  BY <1>2
<1>4. QED
  BY <1>1, <1>3

\* A workflow compiles to a graph.
LEMMA CompileFacts ==
    ASSUME NEW wf, IsWorkflow(wf)
    PROVE  IsGraph(Compile(wf))
<1> DEFINE first(id) == CHOOSE i \in DOMAIN wf.tasks : wf.tasks[i].id = id
           Node(i) == [PlainNode(EffectiveDeps(wf, i), wf.tasks[i].resolves) EXCEPT
                         !.contract = wf.tasks[i].output,
                         !.routes = IF wf.kind = "conditional" /\ wf.tasks[i].id = wf.router
                                    THEN wf.routes ELSE {}]
           all == Compile(wf)
<1>1. IsFiniteSet(TaskIds(wf)) /\ IsFiniteSet(MapIds(wf))
  <2>1. IsFiniteSet(DOMAIN wf.tasks) /\ IsFiniteSet(DOMAIN wf.items)
    BY ListFacts DEF IsWorkflow
  <2>2. [i \in DOMAIN wf.tasks |-> wf.tasks[i].id] \in Surjection(DOMAIN wf.tasks, TaskIds(wf))
    BY DEF Surjection, TaskIds
  <2>3. [i \in DOMAIN wf.items |-> mapId(wf.items[i])] \in Surjection(DOMAIN wf.items, MapIds(wf))
    BY DEF Surjection, MapIds
  <2>4. QED
    BY <2>1, <2>2, <2>3, FS_Surjection
<1>2. IsList(<<>>)
  BY DEF IsList
<1>3. \A i : IsNode(Node(i))
  BY <1>2 DEF PlainNode, IsNode, NodeFields
<1>4. IsNode(PlainNode({}, wf.mapResolves))
  BY <1>2 DEF PlainNode, IsNode, NodeFields
<1> HIDE DEF Node
<1>5. /\ all = [id \in DOMAIN all |-> all[id]]
      /\ DOMAIN all = TaskIds(wf) \cup (IF wf.kind = "map_reduce" THEN MapIds(wf) ELSE {})
      /\ \A id \in DOMAIN all : all[id] = Node(first(id)) \/ all[id] = PlainNode({}, wf.mapResolves)
  <2> DEFINE ids == TaskIds(wf) \cup (IF wf.kind = "map_reduce" THEN MapIds(wf) ELSE {})
  <2>1. all = [id \in ids |-> IF id \in TaskIds(wf) THEN Node(first(id)) ELSE PlainNode({}, wf.mapResolves)]
    BY Zenon DEF Compile, Node
  <2> HIDE DEF all, ids
  <2>2. /\ DOMAIN all = ids /\ all = [id \in DOMAIN all |-> all[id]]
        /\ \A id \in ids : all[id] = Node(first(id)) \/ all[id] = PlainNode({}, wf.mapResolves)
    BY <2>1
  <2>3. QED
    BY <2>2 DEF ids
<1> HIDE DEF all, first
<1>6. IsFiniteSet(DOMAIN all)
  BY <1>1, <1>5, FS_Union
<1>7. QED
  BY <1>3, <1>4, <1>5, <1>6 DEF IsGraph, all

-----------------------------------------------------------------------------
(* Cycles, sources and the order of Kahn's queue.                          *)

\* The ancestors of each node among the nodes: the least set that contains
\* what it depends on and what those depend on.
Closes(spec, above) ==
    /\ above \in [DOMAIN spec -> SUBSET DOMAIN spec]
    /\ \A id \in DOMAIN spec :
          /\ spec[id].deps \cap DOMAIN spec \subseteq above[id]
          /\ \A d \in above[id] : spec[d].deps \cap DOMAIN spec \subseteq above[id]
          /\ \A X \in SUBSET DOMAIN spec :
                /\ spec[id].deps \cap DOMAIN spec \subseteq X
                /\ \A d \in X : spec[d].deps \cap DOMAIN spec \subseteq X
                => above[id] \subseteq X

\* An ancestor's ancestors are ancestors.
LEMMA AncestorsOfAncestors ==
    ASSUME NEW spec, NEW above, Closes(spec, above)
    PROVE  \A id \in DOMAIN spec : \A d \in above[id] : above[d] \subseteq above[id]
<1>1. ASSUME NEW id \in DOMAIN spec, NEW d \in above[id] PROVE above[d] \subseteq above[id]
  <2>1. /\ d \in DOMAIN spec /\ above[id] \in SUBSET DOMAIN spec
        /\ spec[d].deps \cap DOMAIN spec \subseteq above[id]
        /\ \A x \in above[id] : spec[x].deps \cap DOMAIN spec \subseteq above[id]
    BY DEF Closes
  <2>2. QED
    BY <2>1 DEF Closes
<1>2. QED
  BY <1>1

\* Following the dependencies of each node finds them.
LEMMA AncestorsExist ==
    ASSUME NEW spec, IsFiniteSet(DOMAIN spec)
    PROVE  \E above : Closes(spec, above)
<1> DEFINE S == DOMAIN spec
           N == Cardinality(S)
           edges == [x \in S |-> spec[x].deps \cap S]
           Finds(id, f) == f \in [0..N -> SUBSET S] /\ Search(f, N, spec[id].deps \cap S, edges)
           above == [id \in S |-> (CHOOSE f : Finds(id, f))[N]]
<1>1. edges \in [S -> SUBSET S] /\ N \in Nat
  BY FS_CardinalityType
<1>2. ASSUME NEW id \in S
      PROVE  /\ above[id] \in SUBSET S
             /\ spec[id].deps \cap S \subseteq above[id]
             /\ \A d \in above[id] : spec[d].deps \cap S \subseteq above[id]
             /\ \A X \in SUBSET S :
                   /\ spec[id].deps \cap S \subseteq X
                   /\ \A d \in X : spec[d].deps \cap S \subseteq X
                   => above[id] \subseteq X
  <2> DEFINE start == spec[id].deps \cap S
             f == CHOOSE f : Finds(id, f)
  <2>1. \E g : Finds(id, g)
    <3>1. start \in SUBSET S
      OBVIOUS
    <3> HIDE DEF S, N, edges, start
    <3>2. \E g \in [0..N -> SUBSET S] : Search(g, N, start, edges)
      BY <1>1, <3>1, SearchExists
    <3>3. QED
      BY <3>2 DEF start
  <2>2. Finds(id, f)
    BY <2>1, Zenon
  <2>3. above[id] = f[N]
    OBVIOUS
  <2> HIDE DEF f, above
  <2>4. Follows(S, edges, start, N, f)
    <3>1. Cardinality(start) \in Nat
      BY FS_Subset, FS_CardinalityType
    <3>2. start \in SUBSET S /\ Cardinality(S) <= N + Cardinality(start)
      BY <1>1, <3>1
    <3>3. QED
      BY <1>1, <2>2, <3>2 DEF Follows
  <2>5. \A x \in S : edges[x] = spec[x].deps \cap S
    OBVIOUS
  <2>6. /\ start \subseteq f[N] /\ f[N] \in SUBSET S
        /\ \A x \in f[N] : edges[x] \subseteq f[N]
        /\ \A X \in SUBSET S :
              start \subseteq X /\ (\A x \in X : edges[x] \subseteq X) => f[N] \subseteq X
    <3> HIDE DEF S, N, edges, start
    <3>1. QED
      BY <2>4, SearchCloses
  <2> HIDE DEF edges, N
  <2>7. \A x \in f[N] : spec[x].deps \cap S \subseteq f[N]
    BY <2>5, <2>6
  <2>8. ASSUME NEW X \in SUBSET S, start \subseteq X,
               \A d \in X : spec[d].deps \cap S \subseteq X
        PROVE  f[N] \subseteq X
    <3>1. \A x \in X : edges[x] \subseteq X
      BY <2>5, <2>8
    <3>2. QED
      BY <2>6, <2>8, <3>1
  <2>9. QED
    BY <2>3, <2>6, <2>7, <2>8
<1>3. above = [id \in S |-> above[id]]
  OBVIOUS
<1> HIDE DEF above
<1>4. Closes(spec, above)
  BY <1>2, <1>3 DEF Closes
<1>5. QED
  BY <1>4

\* The doubling of the chains in getAncestors finds the same ancestors.
LEMMA DoublingFinds ==
    ASSUME NEW spec, IsFiniteSet(DOMAIN spec), NEW above, Closes(spec, above)
    PROVE  \A id \in DOMAIN spec : AncestorsOf(spec)[id] \cap DOMAIN spec = above[id]
<1> DEFINE S == DOMAIN spec
           N == Cardinality(DOMAIN spec)
           T == S \cup UNION {spec[id].deps : id \in S}
           R == [S -> SUBSET T]
           Twice(below) == [id \in S |-> below[id] \cup UNION {below[d] : d \in below[id] \cap S}]
           step == [below \in R |-> Twice(below)]
           first == [id \in S |-> spec[id].deps]
           Doubles(v) == v = [i \in 0..N |->
                                IF i = 0 THEN [id \in DOMAIN spec |-> spec[id].deps]
                                ELSE LET below == v[i - 1]
                                     IN  [id \in DOMAIN spec |->
                                            below[id] \cup UNION {below[d] : d \in below[id] \cap DOMAIN spec}]]
           up == CHOOSE v : Doubles(v)
<1>1. N \in Nat /\ first \in R /\ step \in [R -> R]
  <2>1. N \in Nat
    BY FS_CardinalityType
  <2>2. ASSUME NEW below \in R PROVE Twice(below) \in R
    <3>1. ASSUME NEW id \in S
          PROVE  below[id] \cup UNION {below[d] : d \in below[id] \cap S} \in SUBSET T
      <4>1. \A d \in S : below[d] \in SUBSET T
        OBVIOUS
      <4> HIDE DEF S, T
      <4>2. QED
        BY <4>1
    <3>2. QED
      BY <3>1
  <2>3. first \in R
    OBVIOUS
  <2>4. step \in [R -> R]
    <3> HIDE DEF R, Twice
    <3>1. QED
      BY <2>2
  <2>5. QED
    BY <2>1, <2>3, <2>4
<1>2. PICK f \in [0..N -> R] : Iteration(f, N, first, step)
  <2> HIDE DEF N, R, first, step
  <2>1. QED
    BY <1>1, Iterates
<1>3. Doubles(f)
  <2>1. \A i \in 0..N : i # 0 => f[i - 1] \in R
    BY <1>1
  <2>2. \A below \in R : step[below] = Twice(below)
    OBVIOUS
  <2>3. \A i \in 0..N : f[i] = IF i = 0 THEN first ELSE step[f[i - 1]]
    BY <1>2 DEF Iteration
  <2>4. \A i \in 0..N : f[i] = IF i = 0 THEN first ELSE Twice(f[i - 1])
    <3> HIDE DEF step, Twice, R, first
    <3>1. QED
      BY <2>1, <2>2, <2>3
  <2>5. f = [i \in 0..N |-> f[i]]
    OBVIOUS
  <2>6. QED
    BY <2>4, <2>5
<1>4. Doubles(up)
  BY <1>3, Zenon
<1>5. AncestorsOf(spec) = up[N]
  BY DEF AncestorsOf, N
<1> HIDE DEF up
<1>6. /\ \A id \in S : up[0][id] = spec[id].deps
      /\ \A i \in 0..N : i + 1 <= N =>
            \A id \in S : up[i + 1][id] = up[i][id] \cup UNION {up[i][d] : d \in up[i][id] \cap S}
  <2>1. 0 \in 0..N /\ \A i \in 0..N : i + 1 <= N => i + 1 \in 0..N /\ i + 1 # 0 /\ (i + 1) - 1 = i
    BY <1>1
  <2>2. up[0] = [id \in S |-> spec[id].deps]
    BY <1>4, <2>1
  <2>3. \A i \in 0..N : i # 0 => up[i] = Twice(up[i - 1])
    BY <1>4
  <2>4. \A i \in 0..N : i + 1 <= N => up[i + 1] = Twice(up[i])
    <3> HIDE DEF Twice
    <3>1. QED
      BY <2>1, <2>3
  <2>5. QED
    BY <2>2, <2>4, ZenonT(40)
<1>7. \A id \in S : \A d \in above[id] : above[d] \subseteq above[id]
  BY AncestorsOfAncestors
<1>8. \A i \in 0..N : \A id \in S : up[i][id] \cap S \subseteq above[id]
  <2> DEFINE Sound == {i \in 0..N : \A id \in S : up[i][id] \cap S \subseteq above[id]}
  <2>1. 0 \in Sound
    BY <1>1, <1>6 DEF Closes
  <2>2. ASSUME NEW i \in 0..N, i \in Sound, i + 1 <= N PROVE i + 1 \in Sound
    <3>1. i + 1 \in 0..N
      BY <1>1, <2>2
    <3>2. ASSUME NEW id \in S PROVE up[i + 1][id] \cap S \subseteq above[id]
      <4>1. up[i + 1][id] = up[i][id] \cup UNION {up[i][d] : d \in up[i][id] \cap S}
        BY <1>6, <2>2
      <4>2. \A d \in up[i][id] \cap S : d \in above[id] /\ up[i][d] \cap S \subseteq above[id]
        BY <1>7, <2>2
      <4>3. QED
        BY <2>2, <4>1, <4>2
    <3>3. QED
      BY <3>1, <3>2
  <2> HIDE DEF Sound
  <2>3. \A i \in 0..N : i \in Sound /\ i + 1 <= N => i + 1 \in Sound
    BY <2>2
  <2>4. \A i \in 0..N : i \in Sound
    BY <1>1, <2>1, <2>3, Ascend
  <2>5. QED
    BY <2>4 DEF Sound
\* One round more of the plain search adds less than one doubling.
<1>9. ASSUME NEW id \in S PROVE above[id] \subseteq up[N][id]
  <2> DEFINE edges == [x \in S |-> spec[x].deps \cap S]
             start == spec[id].deps \cap S
  <2>1. edges \in [S -> SUBSET S] /\ start \in SUBSET S
    OBVIOUS
  <2>2. PICK g \in [0..N -> SUBSET S] : Search(g, N, start, edges)
    <3> HIDE DEF S, N, edges, start
    <3>1. QED
      BY <1>1, <2>1, SearchExists
  <2>3. Follows(S, edges, start, N, g)
    <3>1. Cardinality(start) \in Nat
      BY FS_Subset, FS_CardinalityType
    <3>2. Cardinality(S) <= N + Cardinality(start)
      BY <1>1, <3>1
    <3>3. QED
      BY <1>1, <2>1, <2>2, <3>2 DEF Follows
  <2>4. start \subseteq g[N] /\ g[N] \in SUBSET S /\ \A x \in g[N] : edges[x] \subseteq g[N]
    <3> HIDE DEF S, N, edges, start
    <3>1. QED
      BY <2>3, SearchCloses
  <2>5. above[id] \subseteq g[N]
    <3>1. \A x \in g[N] : spec[x].deps \cap S \subseteq g[N]
      BY <2>4
    <3>2. QED
      BY <2>4, <3>1 DEF Closes
  <2>6. /\ g[0] = start
        /\ \A i \in 0..N : i + 1 <= N => g[i + 1] = g[i] \cup UNION {edges[x] : x \in g[i]}
    <3>1. 0 \in 0..N /\ \A i \in 0..N : i + 1 <= N => i + 1 \in 0..N /\ i + 1 # 0 /\ (i + 1) - 1 = i
      BY <1>1
    <3>2. \A i \in 0..N : g[i] = IF i = 0 THEN start ELSE g[i - 1] \cup UNION {edges[x] : x \in g[i - 1]}
      BY <2>2 DEF Search
    <3> HIDE DEF edges, start
    <3>3. QED
      BY <3>1, <3>2
  <2> DEFINE Ahead == {i \in 0..N : /\ g[i] \subseteq up[i][id]
                                    /\ \A x \in S : spec[x].deps \subseteq up[i][x]}
  <2>7. 0 \in Ahead
    BY <1>1, <1>6, <2>6
  <2>8. ASSUME NEW i \in 0..N, i \in Ahead, i + 1 <= N PROVE i + 1 \in Ahead
    <3>1. i + 1 \in 0..N
      BY <1>1, <2>8
    <3>2. \A x \in S : spec[x].deps \subseteq up[i + 1][x]
      BY <1>6, <2>8
    <3>3. g[i + 1] \subseteq up[i + 1][id]
      <4>1. /\ g[i + 1] = g[i] \cup UNION {edges[x] : x \in g[i]}
            /\ up[i + 1][id] = up[i][id] \cup UNION {up[i][d] : d \in up[i][id] \cap S}
        BY <1>6, <2>6, <2>8
      <4>2. \A x \in g[i] : x \in up[i][id] \cap S /\ edges[x] \subseteq up[i][x]
        BY <2>8
      <4> HIDE DEF edges
      <4>3. QED
        BY <2>8, <4>1, <4>2
    <3>4. QED
      BY <3>1, <3>2, <3>3
  <2> HIDE DEF Ahead
  <2>9. \A i \in 0..N : i \in Ahead /\ i + 1 <= N => i + 1 \in Ahead
    BY <2>8
  <2>10. \A i \in 0..N : i \in Ahead
    BY <1>1, <2>7, <2>9, Ascend
  <2>11. N \in Ahead
    BY <1>1, <2>10
  <2>12. QED
    BY <2>5, <2>11 DEF Ahead
<1>10. N \in 0..N
  BY <1>1
<1>11. QED
  BY <1>5, <1>8, <1>9, <1>10 DEF Closes

\* Every set of nodes has one that depends on none of them.
HasSources(spec) ==
    \A some \in (SUBSET DOMAIN spec) \ {{}} : \E id \in some : spec[id].deps \cap some = {}

\* Without a cycle there are sources: a node with the fewest ancestors.
LEMMA AcyclicHasSources ==
    ASSUME NEW spec, IsFiniteSet(DOMAIN spec), Acyclic(spec),
           NEW some \in SUBSET DOMAIN spec, some # {}
    PROVE  \E id \in some : spec[id].deps \cap some = {}
<1>1. PICK above : Closes(spec, above)
  BY AncestorsExist
<1>2. \A id \in DOMAIN spec : id \notin above[id]
  BY <1>1, DoublingFinds DEF Acyclic
<1>3. \A id \in DOMAIN spec : above[id] \in SUBSET DOMAIN spec
  BY <1>1 DEF Closes
<1> DEFINE size(id) == Cardinality(above[id])
           sizes == {size(id) : id \in some}
<1>4. \A id \in some : IsFiniteSet(above[id]) /\ size(id) \in Nat
  BY <1>3, FS_Subset, FS_CardinalityType
<1>n. sizes \in SUBSET Nat /\ sizes # {}
  <2> HIDE DEF size
  <2>1. QED
    BY <1>4
<1>5. PICK m \in sizes : \A n \in sizes : m <= n
  <2> HIDE DEF sizes
  <2>1. QED
    BY <1>n, LeastNat
<1>6. PICK id \in some : size(id) = m
  <2> HIDE DEF size
  <2>1. QED
    OBVIOUS
<1>7. ASSUME NEW d \in spec[id].deps \cap some PROVE FALSE
  <2>1. d \in above[id] /\ above[d] \subseteq above[id] /\ d \notin above[d]
    BY <1>1, <1>2, <1>7, AncestorsOfAncestors DEF Closes
  <2>2. size(id) <= size(d)
    BY <1>5, <1>6, <1>7
  <2>3. size(d) <= size(id) /\ (size(d) = size(id) => above[d] = above[id])
    BY <1>4, <1>7, <2>1, FS_Subset
  <2>4. above[d] = above[id]
    BY <1>4, <1>7, <2>2, <2>3
  <2>5. QED
    BY <2>1, <2>4
<1>8. QED
  BY <1>7

\* With sources there is no cycle: the nodes on it would have none.
LEMMA SourcesMakeAcyclic ==
    ASSUME NEW spec, IsFiniteSet(DOMAIN spec), HasSources(spec)
    PROVE  Acyclic(spec)
<1>1. PICK above : Closes(spec, above)
  BY AncestorsExist
<1>2. ASSUME NEW id \in DOMAIN spec, id \in above[id] PROVE FALSE
  <2> DEFINE loop == {x \in above[id] : id \in above[x]}
  <2>1. loop \in SUBSET DOMAIN spec /\ id \in loop
    BY <1>1, <1>2 DEF Closes
  <2>2. PICK x \in loop : spec[x].deps \cap loop = {}
    BY <2>1 DEF HasSources
  <2>3. /\ x \in DOMAIN spec /\ x \in above[id] /\ id \in above[x]
        /\ above[x] \in SUBSET DOMAIN spec
    BY <1>1, <2>1 DEF Closes
  <2> DEFINE direct == spec[x].deps \cap DOMAIN spec
             X == direct \cup UNION {above[d] : d \in direct}
  <2>4. X \in SUBSET DOMAIN spec
    BY <1>1 DEF Closes
  <2>5. \A d \in X : spec[d].deps \cap DOMAIN spec \subseteq X
    <3>1. ASSUME NEW d \in direct PROVE spec[d].deps \cap DOMAIN spec \subseteq above[d]
      BY <1>1 DEF Closes
    <3>2. ASSUME NEW d \in direct, NEW y \in above[d]
          PROVE  spec[y].deps \cap DOMAIN spec \subseteq above[d]
      BY <1>1 DEF Closes
    <3>3. QED
      BY <3>1, <3>2
  <2>6. above[x] \subseteq X
    <3>1. direct \subseteq X
      OBVIOUS
    <3> HIDE DEF X
    <3>2. QED
      BY <1>1, <2>3, <2>4, <2>5, <3>1 DEF Closes
  <2>7. PICK d \in direct : id = d \/ id \in above[d]
    BY <2>3, <2>6
  <2>8. d \in above[id]
    BY <1>1, <1>2, <2>3 DEF Closes
  <2>9. d \in loop
    <3>1. id \in above[d]
      BY <1>2, <2>7
    <3>2. QED
      BY <2>8, <3>1
  <2>10. QED
    BY <2>2, <2>9
<1>3. QED
  BY <1>1, <1>2, DoublingFinds DEF Acyclic

\* Kahn's queue takes every node: the nodes it missed would have a source.
LEMMA SourcesReached ==
    ASSUME NEW spec, IsFiniteSet(DOMAIN spec), HasSources(spec),
           \A id \in DOMAIN spec : spec[id].deps \subseteq DOMAIN spec
    PROVE  Reached(spec) = DOMAIN spec
<1> DEFINE S == DOMAIN spec
           N == Cardinality(DOMAIN spec)
           grow == [X \in SUBSET S |-> {id \in S : spec[id].deps \subseteq X}]
<1>1. N \in Nat
  BY ReachedInRounds
<1>2. PICK wave \in [0..N -> SUBSET S] :
         /\ wave[0] = {} /\ Reached(spec) = wave[N]
         /\ \A i \in 0..N : i + 1 <= N => wave[i + 1] = {id \in S : spec[id].deps \subseteq wave[i]}
  BY ReachedInRounds
<1>3. /\ grow \in [SUBSET S -> SUBSET S]
      /\ \A X, Y \in SUBSET S : X \subseteq Y => grow[X] \subseteq grow[Y]
      /\ \A X \in SUBSET S : grow[X] = {id \in S : spec[id].deps \subseteq X}
  OBVIOUS
<1> HIDE DEF grow
<1>4. Growth(S, grow, {}, N, wave)
  <2>1. Cardinality(S) <= N + Cardinality({})
    BY <1>1, FS_EmptySet
  <2>2. \A i \in 0..N : i + 1 <= N => wave[i + 1] = grow[wave[i]]
    BY <1>2, <1>3
  <2>3. {} \subseteq grow[{}]
    OBVIOUS
  <2> HIDE DEF N, S
  <2>4. IsFiniteSet(S)
    BY DEF S
  <2>5. QED
    BY <1>1, <1>2, <1>3, <2>1, <2>2, <2>3, <2>4 DEF Growth
<1>5. grow[wave[N]] = wave[N] /\ wave[N] \in SUBSET S
  <2>1. grow[wave[N]] = wave[N]
    <3> DEFINE start == {}
    <3>1. Growth(S, grow, start, N, wave)
      BY <1>4
    <3> HIDE DEF S, N, start
    <3>2. ASSUME NEW f, Growth(S, grow, start, N, f) PROVE grow[f[N]] = f[N]
      BY <3>2, Saturates
    <3>3. QED
      BY <3>1, <3>2
  <2>2. QED
    BY <1>1, <1>2, <2>1
<1>6. ASSUME S \ wave[N] # {} PROVE FALSE
  <2>1. S \ wave[N] \in (SUBSET S) \ {{}}
    BY <1>6
  <2>2. PICK id \in S \ wave[N] : spec[id].deps \cap (S \ wave[N]) = {}
    BY <2>1 DEF HasSources
  <2>3. id \in grow[wave[N]]
    BY <1>3, <1>5, <2>2
  <2>4. QED
    BY <1>5, <2>2, <2>3
<1>7. QED
  BY <1>2, <1>5, <1>6

\* Without dispatch nodes no chain of them is long.
LEMMA NoDispatchNoDepth ==
    ASSUME NEW spec, IsFiniteSet(DOMAIN spec), HasSources(spec),
           \A id \in DOMAIN spec : spec[id].dispatch = 0 /\ spec[id].deps \subseteq DOMAIN spec
    PROVE  \A id \in DOMAIN spec : DispatchDepth(spec)[id] = 0
<1> DEFINE Depths(v) == v = [id \in DOMAIN spec |->
                               (IF spec[id].dispatch # 0 THEN 1 ELSE 0)
                               + Max({0} \cup {v[d] : d \in spec[id].deps})]
           g == CHOOSE v : Depths(v)
           zero == [id \in DOMAIN spec |-> 0]
<1>1. Max({0}) = 0
  BY DEF Max
<1>2. Depths(zero)
  <2>1. \A id \in DOMAIN spec : {0} \cup {zero[d] : d \in spec[id].deps} = {0}
    OBVIOUS
  <2>2. ASSUME NEW id \in DOMAIN spec
        PROVE  (IF spec[id].dispatch # 0 THEN 1 ELSE 0)
               + Max({0} \cup {zero[d] : d \in spec[id].deps}) = 0
    <3>1. Max({0} \cup {zero[d] : d \in spec[id].deps}) = 0
      BY <1>1, <2>1
    <3>2. (IF spec[id].dispatch # 0 THEN 1 ELSE 0) = 0
      OBVIOUS
    <3>3. QED
      BY <3>1, <3>2
  <2>3. QED
    BY <2>2
<1>3. Depths(g)
  BY <1>2, Zenon
<1>4. DispatchDepth(spec) = g
  BY DEF DispatchDepth
<1> HIDE DEF g
<1>5. \A id \in DOMAIN spec : g[id] = Max({0} \cup {g[d] : d \in spec[id].deps}) + 0
      \/ g[id] = 0 + Max({0} \cup {g[d] : d \in spec[id].deps})
  BY <1>3
<1>6. ASSUME {id \in DOMAIN spec : g[id] # 0} # {} PROVE FALSE
  <2> DEFINE deep == {id \in DOMAIN spec : g[id] # 0}
  <2>1. PICK id \in deep : spec[id].deps \cap deep = {}
    BY <1>6 DEF HasSources
  <2>2. \A d \in spec[id].deps : g[d] = 0
    BY <2>1
  <2>3. {0} \cup {g[d] : d \in spec[id].deps} = {0}
    BY <2>2
  <2>4. g[id] = 0
    BY <1>1, <1>5, <2>3
  <2>5. QED
    BY <2>1, <2>4
<1>7. QED
  BY <1>4, <1>6


-----------------------------------------------------------------------------
(* Valid workflows compile to graphs that are let in.                      *)

First(wf, id) == CHOOSE i \in DOMAIN wf.tasks : wf.tasks[i].id = id

\* The nodes of the compiled graph: tasks, and mappers that depend on nothing.
Compiled(wf, all) ==
    /\ DOMAIN all = TaskIds(wf) \cup (IF wf.kind = "map_reduce" THEN MapIds(wf) ELSE {})
    /\ \A id \in TaskIds(wf) :
          /\ First(wf, id) \in DOMAIN wf.tasks /\ wf.tasks[First(wf, id)].id = id
          /\ all[id].deps = EffectiveDeps(wf, First(wf, id))
          /\ all[id].contract = wf.tasks[First(wf, id)].output
          /\ all[id].sound = wf.tasks[First(wf, id)].resolves
          /\ all[id].routes = IF wf.kind = "conditional" /\ id = wf.router THEN wf.routes ELSE {}
    /\ \A id \in DOMAIN all \ TaskIds(wf) :
          /\ all[id].deps = {} /\ all[id].contract = FALSE /\ all[id].routes = {}
          /\ all[id].sound = wf.mapResolves
    /\ \A id \in DOMAIN all :
          /\ all[id].dispatch = 0 /\ all[id].fanOut = "none"
          /\ all[id].sends = <<>> /\ all[id].consumers = {}

\* What compileWorkflow emits for each declared item.
LEMMA CompiledNodes ==
    ASSUME NEW wf
    PROVE  Compiled(wf, Compile(wf))
<1> DEFINE Node(i) == [PlainNode(EffectiveDeps(wf, i), wf.tasks[i].resolves) EXCEPT
                         !.contract = wf.tasks[i].output,
                         !.routes = IF wf.kind = "conditional" /\ wf.tasks[i].id = wf.router
                                    THEN wf.routes ELSE {}]
           ids == TaskIds(wf) \cup (IF wf.kind = "map_reduce" THEN MapIds(wf) ELSE {})
           all == Compile(wf)
<1>1. all = [id \in ids |-> IF id \in TaskIds(wf) THEN Node(First(wf, id)) ELSE PlainNode({}, wf.mapResolves)]
  BY Zenon DEF Compile, Node, First
<1>2. \A i : /\ Node(i).deps = EffectiveDeps(wf, i) /\ Node(i).contract = wf.tasks[i].output
             /\ Node(i).routes = IF wf.kind = "conditional" /\ wf.tasks[i].id = wf.router
                                 THEN wf.routes ELSE {}
             /\ Node(i).dispatch = 0 /\ Node(i).fanOut = "none"
             /\ Node(i).sends = <<>> /\ Node(i).consumers = {}
             /\ Node(i).sound = wf.tasks[i].resolves
  BY DEF PlainNode
<1>3. LET mapper == PlainNode({}, wf.mapResolves)
      IN  /\ mapper.deps = {} /\ mapper.contract = FALSE /\ mapper.routes = {}
          /\ mapper.dispatch = 0 /\ mapper.fanOut = "none"
          /\ mapper.sends = <<>> /\ mapper.consumers = {} /\ mapper.sound = wf.mapResolves
  BY DEF PlainNode
<1>4. ASSUME NEW id \in TaskIds(wf)
      PROVE  First(wf, id) \in DOMAIN wf.tasks /\ wf.tasks[First(wf, id)].id = id
  <2>1. \E i \in DOMAIN wf.tasks : wf.tasks[i].id = id
    BY DEF TaskIds
  <2>2. QED
    BY <2>1 DEF First
<1> HIDE DEF Node, all
<1>5. DOMAIN all = ids /\ TaskIds(wf) \subseteq ids
  BY <1>1
<1>6. \A id \in TaskIds(wf) : all[id] = Node(First(wf, id))
  BY <1>1
<1>7. \A id \in ids \ TaskIds(wf) : all[id] = PlainNode({}, wf.mapResolves)
  BY <1>1
<1>8. \A id \in TaskIds(wf) :
         /\ First(wf, id) \in DOMAIN wf.tasks /\ wf.tasks[First(wf, id)].id = id
         /\ all[id].deps = EffectiveDeps(wf, First(wf, id))
         /\ all[id].contract = wf.tasks[First(wf, id)].output
         /\ all[id].sound = wf.tasks[First(wf, id)].resolves
         /\ all[id].routes = IF wf.kind = "conditional" /\ id = wf.router THEN wf.routes ELSE {}
  BY <1>2, <1>4, <1>6
<1>9. \A id \in ids \ TaskIds(wf) :
         /\ all[id].deps = {} /\ all[id].contract = FALSE /\ all[id].routes = {}
         /\ all[id].sound = wf.mapResolves
  BY <1>3, <1>7
<1>10. \A id \in ids : /\ all[id].dispatch = 0 /\ all[id].fanOut = "none"
                       /\ all[id].sends = <<>> /\ all[id].consumers = {}
  <2>1. ASSUME NEW id \in ids
        PROVE  /\ all[id].dispatch = 0 /\ all[id].fanOut = "none"
               /\ all[id].sends = <<>> /\ all[id].consumers = {}
    <3>1. CASE id \in TaskIds(wf)
      BY <1>2, <1>6, <3>1
    <3>2. CASE id \notin TaskIds(wf)
      BY <1>3, <1>7, <3>2
    <3>3. QED
      BY <3>1, <3>2
  <2>2. QED
    BY <2>1
<1>11. QED
  BY <1>5, <1>8, <1>9, <1>10 DEF Compiled, all

\* What the kind implies besides the declared dependencies stays in the graph.
LEMMA CompiledDeps ==
    ASSUME NEW wf, IsWorkflow(wf), ValidWorkflow(wf), NEW all, Compiled(wf, all)
    PROVE  \A id \in DOMAIN all : all[id].deps \subseteq DOMAIN all
<1>1. ASSUME NEW id \in TaskIds(wf) PROVE all[id].deps \subseteq DOMAIN all
  <2> DEFINE i == First(wf, id)
  <2>1. i \in DOMAIN wf.tasks /\ all[id].deps = EffectiveDeps(wf, i)
    BY DEF Compiled
  <2> HIDE DEF i
  <2>2. wf.tasks[i].deps \subseteq TaskIds(wf)
    BY <2>1 DEF ValidWorkflow
  <2>3. i > 1 => wf.tasks[i - 1].id \in TaskIds(wf)
    <3>1. DOMAIN wf.tasks = 1..Len(wf.tasks) /\ Len(wf.tasks) \in Nat
      BY ListFacts DEF IsWorkflow
    <3>2. i > 1 => i - 1 \in DOMAIN wf.tasks
      BY <2>1, <3>1
    <3>3. QED
      BY <3>2 DEF TaskIds
  <2>4. wf.tasks[i].id \in Selectable(wf) => wf.router \in TaskIds(wf)
    BY DEF Selectable, ValidWorkflow, ShapeHolds
  <2>5. EffectiveDeps(wf, i) \subseteq
          TaskIds(wf) \cup (IF wf.kind = "map_reduce" THEN MapIds(wf) ELSE {})
    BY <2>2, <2>3, <2>4 DEF EffectiveDeps
  <2>6. QED
    BY <2>1, <2>5 DEF Compiled
<1>2. QED
  BY <1>1 DEF Compiled

\* The cycles the depth-first search looks for are all the cycles there can be.
LEMMA CompiledHasSources ==
    ASSUME NEW wf, IsWorkflow(wf), ValidWorkflow(wf), NEW all, Compiled(wf, all)
    PROVE  HasSources(all)
<1> DEFINE tasks == [id \in TaskIds(wf) |-> [deps |-> EffectiveDeps(wf, First(wf, id))]]
<1>1. IsFiniteSet(TaskIds(wf))
  <2>1. IsFiniteSet(DOMAIN wf.tasks)
    BY ListFacts DEF IsWorkflow
  <2>2. [i \in DOMAIN wf.tasks |-> wf.tasks[i].id] \in Surjection(DOMAIN wf.tasks, TaskIds(wf))
    BY DEF Surjection, TaskIds
  <2>3. QED
    BY <2>1, <2>2, FS_Surjection
<1>2. Acyclic(tasks)
  BY Zenon DEF ValidWorkflow, HasDependencyCycle, First
<1>3. DOMAIN tasks = TaskIds(wf) /\ \A id \in TaskIds(wf) : tasks[id].deps = all[id].deps
  BY DEF Compiled
<1> HIDE DEF tasks
<1>4. ASSUME NEW some \in (SUBSET DOMAIN all) \ {{}}
      PROVE  \E id \in some : all[id].deps \cap some = {}
  <2>1. CASE some \subseteq TaskIds(wf)
    <3>1. some \in SUBSET DOMAIN tasks /\ some # {} /\ IsFiniteSet(DOMAIN tasks)
      BY <1>1, <1>3, <2>1
    <3>2. \E id \in some : tasks[id].deps \cap some = {}
      BY <1>2, <3>1, AcyclicHasSources
    <3>3. QED
      BY <1>3, <2>1, <3>2
  <2>2. CASE ~(some \subseteq TaskIds(wf))
    <3>1. PICK id \in some : id \in DOMAIN all \ TaskIds(wf)
      BY <2>2
    <3>2. all[id].deps = {}
      BY <3>1 DEF Compiled
    <3>3. QED
      BY <3>2
  <2>3. QED
    BY <2>1, <2>2
<1>5. QED
  BY <1>4 DEF HasSources

\* A target depends on its router: that is what the compiler adds.
LEMMA CompiledRoutes ==
    ASSUME NEW wf, IsWorkflow(wf), ValidWorkflow(wf), NEW all, Compiled(wf, all)
    PROVE  \A id \in DOMAIN all : RoutesHold(all, id)
<1>1. ASSUME NEW id \in DOMAIN all, all[id].routes # {}, NEW t \in Targets(all[id])
      PROVE  t \in DirectConsumers(all, id)
  <2>1. wf.kind = "conditional" /\ id = wf.router /\ all[id].routes = wf.routes
    BY <1>1 DEF Compiled
  <2>2. t \in Selectable(wf) /\ t \in TaskIds(wf)
    BY <2>1 DEF Targets, Selectable, ValidWorkflow, ShapeHolds
  <2>3. wf.tasks[First(wf, t)].id = t /\ all[t].deps = EffectiveDeps(wf, First(wf, t))
    BY <2>2 DEF Compiled
  <2>4. id \in all[t].deps
    BY <2>1, <2>2, <2>3 DEF EffectiveDeps
  <2>5. t \in DOMAIN all
    BY <2>2 DEF Compiled
  <2>6. QED
    BY <2>4, <2>5 DEF DirectConsumers
<1>2. QED
  BY <1>1 DEF RoutesHold, Compiled

\* What keeps a valid workflow out: a declared output, or a role or a scope that
\* cannot be resolved.
Objectionable(wf) ==
    \/ \E i \in DOMAIN wf.tasks : wf.tasks[i].output \/ ~wf.tasks[i].resolves
    \/ wf.kind = "map_reduce" /\ ~wf.mapResolves

\* A declared output compiles to half a contract, and what cannot be resolved
\* is copied: admission refuses either.
LEMMA ObjectionableRefused ==
    ASSUME NEW wf, IsWorkflow(wf), ValidWorkflow(wf), Objectionable(wf)
    PROVE  ~Admitted(Compile(wf), {})
<1> DEFINE all == Compile(wf)
<1>1. Compiled(wf, all)
  BY CompiledNodes
<1> HIDE DEF all
<1>2. ASSUME NEW id \in DOMAIN all, ~all[id].sound \/ all[id].contract
      PROVE  ~Admitted(all, {})
  <2>1. all[id].consumers = {}
    BY <1>1 DEF Compiled
  <2>2. ~NodeHolds(all, id)
    BY <1>2, <2>1 DEF NodeHolds, ContractHolds
  <2>3. QED
    BY <2>2 DEF Admitted
<1>3. CASE \E i \in DOMAIN wf.tasks : wf.tasks[i].output \/ ~wf.tasks[i].resolves
  <2>1. PICK i \in DOMAIN wf.tasks : wf.tasks[i].output \/ ~wf.tasks[i].resolves
    BY <1>3
  <2> DEFINE id == wf.tasks[i].id
  <2>2. id \in TaskIds(wf) /\ id \in DOMAIN all
    BY <1>1 DEF TaskIds, Compiled
  <2>3. First(wf, id) \in DOMAIN wf.tasks /\ wf.tasks[First(wf, id)].id = id
    BY <1>1, <2>2 DEF Compiled
  <2>4. First(wf, id) = i
    <3>1. IsInjective([j \in DOMAIN wf.tasks |-> wf.tasks[j].id])
      BY DEF ValidWorkflow
    <3>2. QED
      BY <2>3, <3>1 DEF IsInjective
  <2>5. all[id].contract = wf.tasks[i].output /\ all[id].sound = wf.tasks[i].resolves
    BY <1>1, <2>2, <2>4 DEF Compiled
  <2> HIDE DEF id
  <2>6. QED
    BY <1>2, <2>1, <2>2, <2>5 DEF all
<1>4. CASE wf.kind = "map_reduce" /\ ~wf.mapResolves
  <2>1. PICK id \in MapIds(wf) : TRUE
    <3>1. wf.items # <<>> /\ IsList(wf.items)
      BY <1>4 DEF ValidWorkflow, ShapeHolds, IsWorkflow
    <3>2. 1 \in DOMAIN wf.items
      BY <3>1, ListHasFirst
    <3>3. QED
      BY <3>2 DEF MapIds
  <2>2. id \in DOMAIN all /\ id \notin TaskIds(wf)
    BY <1>1, <1>4 DEF Compiled, ValidWorkflow, ShapeHolds
  <2>3. ~all[id].sound
    BY <1>1, <1>4, <2>2 DEF Compiled
  <2>4. QED
    BY <1>2, <2>2, <2>3 DEF all
<1>5. QED
  BY <1>3, <1>4 DEF Objectionable

\* Nothing else keeps a valid workflow out.
LEMMA ValidCompiles ==
    ASSUME NEW wf, IsWorkflow(wf), ValidWorkflow(wf), ~Objectionable(wf)
    PROVE  Compile(wf) # <<>> /\ Admitted(Compile(wf), {})
<1> DEFINE all == Compile(wf)
<1>1. Compiled(wf, all) /\ IsFiniteSet(DOMAIN all)
  BY CompiledNodes, CompileFacts DEF IsGraph
<1> HIDE DEF all
<1>2. \A id \in DOMAIN all : all[id].deps \subseteq DOMAIN all
  BY <1>1, CompiledDeps
<1>3. HasSources(all)
  BY <1>1, CompiledHasSources
<1>4. \A id \in DOMAIN all : RoutesHold(all, id)
  BY <1>1, CompiledRoutes
<1>5. \A id \in DOMAIN all : ~all[id].contract /\ all[id].sound
  <2>1. ASSUME NEW id \in TaskIds(wf) PROVE ~all[id].contract /\ all[id].sound
    BY <1>1 DEF Compiled, Objectionable
  <2>2. ASSUME NEW id \in DOMAIN all \ TaskIds(wf) PROVE ~all[id].contract /\ all[id].sound
    BY <1>1, <2>2 DEF Compiled, Objectionable
  <2>3. QED
    BY <2>1, <2>2
<1>6. NotSingle(all, {})
  BY <1>5 DEF NotSingle
<1>7. \A id \in DOMAIN all : NodeHolds(all, id)
  <2>1. ASSUME NEW id \in DOMAIN all PROVE NodeHolds(all, id)
    <3>1. /\ all[id].dispatch = 0 /\ all[id].sends = <<>> /\ all[id].sound
          /\ ~all[id].contract /\ all[id].deps \subseteq DOMAIN all
      BY <1>1, <1>2, <1>5 DEF Compiled
    <3>2. DOMAIN <<>> = {}
      OBVIOUS
    <3>3. ValidGeneratedSends(all[id].sends, all[id].dispatch # 0 \/ all[id].contract)
      BY <3>1, <3>2 DEF ValidGeneratedSends
    <3>4. all[id].dispatch <= HARD_MAX_DISPATCH_CHILDREN
      BY <3>1 DEF HARD_MAX_DISPATCH_CHILDREN
    <3>5. QED
      BY <3>1, <3>3, <3>4 DEF NodeHolds
  <2>2. QED
    BY <2>1
<1>8. Acyclic(all) /\ Reached(all) = DOMAIN all
  BY <1>1, <1>2, <1>3, SourcesMakeAcyclic, SourcesReached
<1>9. \A id \in DOMAIN all : DispatchDepth(all)[id] <= HARD_MAX_DISPATCH_DEPTH
  <2>1. \A id \in DOMAIN all : all[id].dispatch = 0 /\ all[id].deps \subseteq DOMAIN all
    BY <1>1, <1>2 DEF Compiled
  <2>2. \A id \in DOMAIN all : DispatchDepth(all)[id] = 0
    BY <1>1, <1>3, <2>1, NoDispatchNoDepth
  <2>3. QED
    BY <2>2 DEF HARD_MAX_DISPATCH_DEPTH
<1>10. all # <<>>
  <2>1. wf.tasks # <<>> /\ IsList(wf.tasks)
    BY DEF ValidWorkflow, IsWorkflow
  <2>2. 1 \in DOMAIN wf.tasks
    BY <2>1, ListHasFirst
  <2>3. wf.tasks[1].id \in DOMAIN all
    BY <1>1, <2>2 DEF Compiled, TaskIds
  <2>4. DOMAIN <<>> = {}
    OBVIOUS
  <2>5. QED
    BY <2>3, <2>4
<1>11. Admitted(all, {})
  BY <1>4, <1>6, <1>7, <1>8, <1>9 DEF Admitted
<1>12. QED
  BY <1>10, <1>11 DEF all

-----------------------------------------------------------------------------
(* The graph that is rebuilt from a checkpoint.                            *)

Rebuilding(cp, f, low) ==
    f = [some \in low |->
           IF some = {} THEN origin
           ELSE LET p == CHOOSE p \in some : TRUE
                IN  Expand(f[some \ {p}], p, cp.expansions[p])]

\* The recorded expansions can be taken one after the other.
LEMMA RebuildingEnds ==
    ASSUME NEW cp, IsFiniteSet(Expanded(cp))
    PROVE  \E f : /\ Rebuilding(cp, f, SUBSET Expanded(cp))
                  /\ Rebuilt(cp) = f[Expanded(cp)]
<1> DEFINE E == Expanded(cp)
           K == Cardinality(E)
           Low(k) == {some \in SUBSET E : Cardinality(some) <= k}
           Good == {k \in 0..K : \E f : Rebuilding(cp, f, Low(k))}
           pick(some) == CHOOSE p \in some : TRUE
           Next1(f, some) == IF some = {} THEN origin
                             ELSE Expand(f[some \ {pick(some)}], pick(some), cp.expansions[pick(some)])
<1>n. /\ K \in Nat
      /\ \A some \in SUBSET E : IsFiniteSet(some) /\ Cardinality(some) \in Nat /\ Cardinality(some) <= K
      /\ \A some \in SUBSET E : some # {} =>
            /\ pick(some) \in some
            /\ Cardinality(some \ {pick(some)}) = Cardinality(some) - 1
            /\ some \ {pick(some)} \in SUBSET E
  <2>1. K \in Nat
    BY FS_CardinalityType
  <2>2. \A some \in SUBSET E :
           IsFiniteSet(some) /\ Cardinality(some) \in Nat /\ Cardinality(some) <= K
    BY FS_Subset, FS_CardinalityType
  <2>3. ASSUME NEW some \in SUBSET E, some # {}
        PROVE  pick(some) \in some /\ Cardinality(some \ {pick(some)}) = Cardinality(some) - 1
    <3>1. pick(some) \in some
      BY <2>3
    <3> HIDE DEF pick
    <3>2. QED
      BY <2>2, <3>1, FS_RemoveElement
  <2>4. QED
    BY <2>1, <2>2, <2>3
<1>u. \A f, low : Rebuilding(cp, f, low) <=> f = [some \in low |-> Next1(f, some)]
  BY DEF Rebuilding
<1> HIDE DEF pick, K, E, Next1
<1>1. 0 \in Good
  <2>1. Low(0) = {{}}
    <3>1. \A some \in Low(0) : some = {}
      BY <1>n, FS_EmptySet
    <3>2. {} \in Low(0)
      BY FS_EmptySet
    <3>3. QED
      BY <3>1, <3>2
  <2> DEFINE f == [some \in Low(0) |-> origin]
  <2>2. f = [some \in Low(0) |-> Next1(f, some)]
    BY <2>1 DEF Next1
  <2> HIDE DEF f
  <2>3. Rebuilding(cp, f, Low(0))
    BY <1>u, <2>2
  <2>4. \E h : Rebuilding(cp, h, Low(0))
    BY <2>3, Zenon
  <2>5. 0 \in 0..K
    BY <1>n
  <2> HIDE DEF Low
  <2>6. QED
    BY <2>4, <2>5
<1>2. ASSUME NEW k \in 0..K, k \in Good, k + 1 <= K PROVE k + 1 \in Good
  <2>1. PICK f : f = [some \in Low(k) |-> Next1(f, some)]
    BY <1>2, <1>u
  <2> DEFINE g == [some \in Low(k + 1) |-> Next1(f, some)]
  <2>2. \A some \in Low(k) : some \in Low(k + 1) /\ g[some] = f[some]
    <3>1. \A some \in Low(k) : some \in Low(k + 1)
      BY <1>n
    <3>2. QED
      BY <2>1, <3>1
  <2>3. ASSUME NEW some \in Low(k + 1) PROVE Next1(g, some) = Next1(f, some)
    <3>1. CASE some = {}
      BY <3>1 DEF Next1
    <3>2. CASE some # {}
      <4>1. some \ {pick(some)} \in Low(k)
        BY <1>n, <3>2
      <4>2. g[some \ {pick(some)}] = f[some \ {pick(some)}]
        BY <2>2, <4>1
      <4> HIDE DEF g
      <4>3. QED
        BY <4>2 DEF Next1
    <3>3. QED
      BY <3>1, <3>2
  <2>4. g = [some \in Low(k + 1) |-> Next1(g, some)]
    <3>1. \A some \in Low(k + 1) : g[some] = Next1(g, some)
      BY <2>3
    <3>2. DOMAIN g = Low(k + 1) /\ g = [some \in Low(k + 1) |-> g[some]]
      OBVIOUS
    <3> HIDE DEF g
    <3>3. QED
      BY <3>1, <3>2
  <2>5. k + 1 \in 0..K
    BY <1>2, <1>n
  <2>6. QED
    BY <1>u, <2>4, <2>5
<1>3. K \in Good
  <2>1. \A k \in 0..K : k \in Good /\ k + 1 <= K => k + 1 \in Good
    BY <1>2
  <2> HIDE DEF Good
  <2>2. QED
    BY <1>n, <1>1, <2>1, Ascend
<1>4. Low(K) = SUBSET E
  BY <1>n
<1>5. PICK f : Rebuilding(cp, f, SUBSET E)
  BY <1>3, <1>4
<1> DEFINE P(v) == v = [some \in SUBSET Expanded(cp) |->
                          IF some = {} THEN origin
                          ELSE LET p == CHOOSE p \in some : TRUE
                               IN  Expand(v[some \ {p}], p, cp.expansions[p])]
           g == CHOOSE v : P(v)
<1>6. P(f)
  BY <1>5 DEF Rebuilding, E
<1>7. P(g)
  BY <1>6, Zenon
<1>8. Rebuilt(cp) = g[Expanded(cp)]
  BY DEF Rebuilt
<1> HIDE DEF g
<1>9. QED
  BY <1>7, <1>8 DEF Rebuilding

\* What an expansion leaves alone.
PlainFields == {"contract", "dispatch", "routes", "sound", "task"}

GeneratedNode(p, deps) ==
    [deps |-> deps, consumers |-> {p}, contract |-> TRUE, dispatch |-> 0, fanOut |-> "none",
     sends |-> <<>>, routes |-> {}, sound |-> TRUE, task |-> "original"]

\* An expansion, field by field.
Edits(spec, p, kids, all) ==
    /\ \A id \in DOMAIN spec :
          /\ all[id].deps = IF id = p THEN spec[p].deps \cup kids ELSE spec[id].deps
          /\ all[id].consumers = IF id \in spec[p].deps /\ p \in spec[id].consumers
                                 THEN spec[id].consumers \cup kids ELSE spec[id].consumers
          /\ all[id].fanOut = IF id = p THEN "none" ELSE spec[id].fanOut
          /\ all[id].sends = IF id = p THEN <<>> ELSE spec[id].sends
          /\ \A field \in PlainFields : all[id][field] = spec[id][field]
    /\ \A c \in kids : all[c] = GeneratedNode(p, spec[p].deps)

\* That is what expandDynamicDispatch does.
LEMMA ExpandedNodes ==
    ASSUME NEW spec, IsGraph(spec), NEW p \in DOMAIN spec, spec[p].deps \subseteq DOMAIN spec \ {p},
           NEW kids, kids \cap DOMAIN spec = {}, NEW all, all = Expand(spec, p, kids)
    PROVE  Edits(spec, p, kids, all)
<1> DEFINE Joined == [spec[p] EXCEPT !.deps = @ \cup kids, !.fanOut = "none", !.sends = <<>>]
           Longer(id) == [spec[id] EXCEPT !.consumers = @ \cup kids]
           child == GeneratedNode(p, spec[p].deps)
           Edited(id) ==
             CASE id = p -> Joined
               [] id \in spec[p].deps /\ p \in spec[id].consumers -> Longer(id)
               [] id \in kids -> child
               [] OTHER -> spec[id]
<1>0. \A id \in DOMAIN spec : spec[id] = [field \in NodeFields |-> spec[id][field]]
  BY DEF IsGraph, IsNode
<1>e. all = [id \in DOMAIN spec \cup kids |-> Edited(id)]
  BY Zenon DEF Expand, GeneratedNode
<1> HIDE DEF Joined, Longer, child
<1>1. all[p] = Joined
  BY <1>e
<1>2. \A c \in kids : c # p
  OBVIOUS
<1>3. ASSUME NEW id \in DOMAIN spec, id # p
      PROVE  all[id] = IF id \in spec[p].deps /\ p \in spec[id].consumers THEN Longer(id)
                       ELSE spec[id]
  BY <1>3, <1>e
<1>4. \A c \in kids : all[c] = child
  BY <1>e, <1>2
<1>j. /\ Joined.deps = spec[p].deps \cup kids /\ Joined.consumers = spec[p].consumers
      /\ Joined.fanOut = "none" /\ Joined.sends = <<>>
      /\ \A field \in PlainFields : Joined[field] = spec[p][field]
  BY <1>0 DEF Joined, NodeFields, PlainFields
<1>l. \A id \in DOMAIN spec :
         /\ Longer(id).deps = spec[id].deps /\ Longer(id).consumers = spec[id].consumers \cup kids
         /\ Longer(id).fanOut = spec[id].fanOut /\ Longer(id).sends = spec[id].sends
         /\ \A field \in PlainFields : Longer(id)[field] = spec[id][field]
  BY <1>0 DEF Longer, NodeFields, PlainFields
<1>5. ASSUME NEW id \in DOMAIN spec
      PROVE  /\ all[id].deps = IF id = p THEN spec[p].deps \cup kids ELSE spec[id].deps
             /\ all[id].consumers = IF id \in spec[p].deps /\ p \in spec[id].consumers
                                    THEN spec[id].consumers \cup kids ELSE spec[id].consumers
             /\ all[id].fanOut = IF id = p THEN "none" ELSE spec[id].fanOut
             /\ all[id].sends = IF id = p THEN <<>> ELSE spec[id].sends
             /\ \A field \in PlainFields : all[id][field] = spec[id][field]
  <2>1. CASE id = p
    BY <1>1, <1>j, <2>1
  <2>2. CASE id # p
    <3>1. CASE id \in spec[p].deps /\ p \in spec[id].consumers
      <4>1. all[id] = Longer(id)
        BY <1>3, <2>2, <3>1
      <4>2. QED
        BY <1>l, <2>2, <3>1, <4>1
    <3>2. CASE ~(id \in spec[p].deps /\ p \in spec[id].consumers)
      <4>1. all[id] = spec[id]
        BY <1>3, <2>2, <3>2
      <4>2. QED
        BY <2>2, <3>2, <4>1
    <3>3. QED
      BY <3>1, <3>2
  <2>3. QED
    BY <2>1, <2>2
<1>6. QED
  BY <1>4, <1>5 DEF child, Edits

Family(exp, some) == UNION {exp[q] : q \in some}

\* A node of the admitted graph after the recorded expansions of some parents.
Widened(node, exp, some, id) ==
    /\ node.deps = origin[id].deps \cup (IF id \in some THEN exp[id] ELSE {})
    /\ node.consumers = origin[id].consumers
          \cup Family(exp, {q \in some : id \in origin[q].deps /\ q \in origin[id].consumers})
    /\ node.fanOut = IF id \in some THEN "none" ELSE origin[id].fanOut
    /\ node.sends = IF id \in some THEN <<>> ELSE origin[id].sends
    /\ \A field \in PlainFields : node[field] = origin[id][field]

\* The admitted graph with the recorded expansions of some parents.
Grown(g, exp, some) ==
    /\ IsGraph(g)
    /\ DOMAIN g = DOMAIN origin \cup Family(exp, some)
    /\ Family(exp, some) \cap DOMAIN origin = {}
    /\ \A id \in DOMAIN origin : Widened(g[id], exp, some, id)
    /\ \A q \in some : \A c \in exp[q] : g[c] = GeneratedNode(q, origin[q].deps)

\* There is one such graph.
LEMMA GrownIsOne ==
    ASSUME NEW g, NEW h, NEW exp, NEW rec, NEW some,
           Grown(g, exp, some), Grown(h, rec, some), \A q \in some : exp[q] = rec[q]
    PROVE  g = h
<1>1. \A T \in SUBSET some : Family(exp, T) = Family(rec, T)
  BY DEF Family
<1>2. DOMAIN g = DOMAIN h
  BY <1>1 DEF Grown
<1>3. ASSUME NEW id \in DOMAIN origin PROVE g[id] = h[id]
  <2>1. Widened(g[id], exp, some, id) /\ Widened(h[id], rec, some, id)
    BY DEF Grown
  <2>2. Family(exp, {q \in some : id \in origin[q].deps /\ q \in origin[id].consumers})
          = Family(rec, {q \in some : id \in origin[q].deps /\ q \in origin[id].consumers})
    BY <1>1
  <2>3. \A field \in NodeFields : g[id][field] = h[id][field]
    BY <2>1, <2>2 DEF Widened, NodeFields, PlainFields
  <2>4. /\ g[id] = [field \in NodeFields |-> g[id][field]]
        /\ h[id] = [field \in NodeFields |-> h[id][field]]
    BY <1>2 DEF Grown, IsGraph, IsNode
  <2>5. QED
    BY <2>3, <2>4
<1>4. ASSUME NEW c \in Family(exp, some) PROVE g[c] = h[c]
  <2>1. PICK q \in some : c \in exp[q]
    BY DEF Family
  <2>2. QED
    BY <2>1 DEF Grown
<1>5. \A id \in DOMAIN g : g[id] = h[id]
  BY <1>3, <1>4 DEF Grown
<1>6. g = [id \in DOMAIN g |-> g[id]] /\ h = [id \in DOMAIN h |-> h[id]]
  BY DEF Grown, IsGraph
<1>7. QED
  BY <1>2, <1>5, <1>6

\* One more expansion, of a parent that has not expanded yet.
LEMMA GrowsOnce ==
    ASSUME IsGraph(origin), Admitted(origin, {}),
           NEW g, NEW exp, NEW less, Grown(g, exp, less), less \subseteq DOMAIN origin,
           NEW p \in DOMAIN origin, p \notin less,
           NEW kids, IsFiniteSet(kids), kids \cap DOMAIN g = {},
           NEW rec, rec[p] = kids, \A q \in less : rec[q] = exp[q],
           NEW all, all = Expand(g, p, kids)
    PROVE  Grown(all, rec, less \cup {p})
<1> DEFINE more == less \cup {p}
           Around(id, T) == {q \in T : id \in origin[q].deps /\ q \in origin[id].consumers}
<1>o. \A q \in DOMAIN origin : origin[q].deps \subseteq DOMAIN origin \ {q}
  BY AdmittedFacts, NoSelfEdge
<1>g. /\ IsGraph(g) /\ DOMAIN g = DOMAIN origin \cup Family(exp, less)
      /\ Family(exp, less) \cap DOMAIN origin = {}
      /\ \A id \in DOMAIN origin : Widened(g[id], exp, less, id)
      /\ \A q \in less : \A c \in exp[q] : g[c] = GeneratedNode(q, origin[q].deps)
  BY DEF Grown
<1>1. /\ p \in DOMAIN g /\ g[p].deps = origin[p].deps /\ g[p].deps \subseteq DOMAIN g \ {p}
      /\ DOMAIN origin \subseteq DOMAIN g
  <2>1. g[p].deps = origin[p].deps
    <3>1. Widened(g[p], exp, less, p)
      BY <1>g
    <3>2. QED
      BY <3>1 DEF Widened
  <2>2. QED
    BY <1>g, <1>o, <2>1
<1>2. Grows(g, p, kids, all)
  BY <1>1, <1>g, ExpandFacts
<1>3. /\ \A id \in DOMAIN g :
            /\ all[id].deps = IF id = p THEN g[p].deps \cup kids ELSE g[id].deps
            /\ all[id].consumers = IF id \in g[p].deps /\ p \in g[id].consumers
                                   THEN g[id].consumers \cup kids ELSE g[id].consumers
            /\ all[id].fanOut = IF id = p THEN "none" ELSE g[id].fanOut
            /\ all[id].sends = IF id = p THEN <<>> ELSE g[id].sends
            /\ \A field \in PlainFields : all[id][field] = g[id][field]
      /\ \A c \in kids : all[c] = GeneratedNode(p, g[p].deps)
  <2>1. Edits(g, p, kids, all)
    BY <1>1, <1>g, ExpandedNodes
  <2>2. QED
    BY <2>1 DEF Edits
<1>4. /\ \A T \in SUBSET less : Family(rec, T) = Family(exp, T)
      /\ \A T \in SUBSET less : Family(rec, T \cup {p}) = Family(exp, T) \cup kids
  BY DEF Family
<1>6. /\ IsGraph(all) /\ DOMAIN all = DOMAIN origin \cup Family(rec, more)
      /\ Family(rec, more) \cap DOMAIN origin = {}
  <2>1. Family(rec, more) = Family(exp, less) \cup kids
    BY <1>4
  <2>2. QED
    BY <1>2, <1>g, <2>1 DEF Grows
<1>7. ASSUME NEW id \in DOMAIN origin PROVE Widened(all[id], rec, more, id)
  <2>1. Widened(g[id], exp, less, id) /\ id \in DOMAIN g
    BY <1>1, <1>g
  <2>2. all[id].deps = origin[id].deps \cup (IF id \in more THEN rec[id] ELSE {})
    BY <1>1, <1>3, <2>1 DEF Widened
  <2>3. /\ all[id].fanOut = IF id \in more THEN "none" ELSE origin[id].fanOut
        /\ all[id].sends = IF id \in more THEN <<>> ELSE origin[id].sends
        /\ \A field \in PlainFields : all[id][field] = origin[id][field]
    BY <1>3, <2>1 DEF Widened
  <2>4. g[id].consumers = origin[id].consumers \cup Family(exp, Around(id, less))
    BY <2>1 DEF Widened
  <2>5. p \in g[id].consumers <=> p \in origin[id].consumers
    <3>1. Family(exp, Around(id, less)) \subseteq Family(exp, less)
      BY DEF Family
    <3> HIDE DEF Around
    <3>2. QED
      BY <1>g, <2>4, <3>1
  <2>6. all[id].consumers = origin[id].consumers \cup Family(rec, Around(id, more))
    <3>1. CASE id \in origin[p].deps /\ p \in origin[id].consumers
      <4>1. Around(id, more) = Around(id, less) \cup {p} /\ Around(id, less) \in SUBSET less
        BY <3>1
      <4>2. all[id].consumers = g[id].consumers \cup kids
        BY <1>1, <1>3, <2>1, <2>5, <3>1
      <4> HIDE DEF Around
      <4>3. QED
        BY <1>4, <2>4, <4>1, <4>2
    <3>2. CASE ~(id \in origin[p].deps /\ p \in origin[id].consumers)
      <4>1. Around(id, more) = Around(id, less) /\ Around(id, less) \in SUBSET less
        BY <3>2
      <4>2. all[id].consumers = g[id].consumers
        BY <1>1, <1>3, <2>1, <2>5, <3>2
      <4> HIDE DEF Around
      <4>3. QED
        BY <1>4, <2>4, <4>1, <4>2
    <3>3. QED
      BY <3>1, <3>2
  <2>7. QED
    BY <2>2, <2>3, <2>6 DEF Widened
<1>8. ASSUME NEW q \in more, NEW c \in rec[q]
      PROVE  all[c] = GeneratedNode(q, origin[q].deps)
  <2>1. CASE q = p
    BY <1>1, <1>3, <2>1
  <2>2. CASE q # p
    <3>1. q \in less /\ c \in exp[q] /\ c \in Family(exp, less)
      BY <1>8, <2>2 DEF Family
    <3>2. c \in DOMAIN g /\ c # p /\ c \notin g[p].deps /\ g[c] = GeneratedNode(q, origin[q].deps)
      BY <1>1, <1>g, <1>o, <3>1
    <3>3. /\ all[c].deps = g[c].deps /\ all[c].consumers = g[c].consumers
          /\ all[c].fanOut = g[c].fanOut /\ all[c].sends = g[c].sends
          /\ \A field \in PlainFields : all[c][field] = g[c][field]
      BY <1>3, <3>2
    <3>4. \A field \in NodeFields : all[c][field] = g[c][field]
      BY <3>3 DEF NodeFields, PlainFields
    <3>5. /\ all[c] = [field \in NodeFields |-> all[c][field]]
          /\ g[c] = [field \in NodeFields |-> g[c][field]]
      BY <1>6, <1>g, <1>2, <3>2 DEF IsGraph, IsNode, Grows
    <3>6. QED
      BY <3>2, <3>4, <3>5
  <2>3. QED
    BY <2>1, <2>2
<1>9. QED
  BY <1>6, <1>7, <1>8 DEF Grown

\* Recorded expansions that can be taken up.
Recorded(cp) ==
    /\ Expanded(cp) \subseteq DOMAIN origin
    /\ \A p \in Expanded(cp) : /\ IsFiniteSet(cp.expansions[p])
                               /\ cp.expansions[p] \cap DOMAIN origin = {}
                               /\ \A q \in Expanded(cp) \ {p} :
                                     cp.expansions[p] \cap cp.expansions[q] = {}

\* What is rebuilt from a checkpoint does not depend on the order of the
\* expansions.
LEMMA RebuiltIsGrown ==
    ASSUME NEW cp, IsGraph(origin), Admitted(origin, {}), Recorded(cp)
    PROVE  Grown(Rebuilt(cp), cp.expansions, Expanded(cp))
<1> DEFINE E == Expanded(cp)
           S == SUBSET E
           X == cp.expansions
           rank == [some \in S |-> Cardinality(some)]
           pick(some) == CHOOSE p \in some : TRUE
<1>e. /\ E \subseteq DOMAIN origin /\ IsFiniteSet(E)
      /\ \A p \in E : IsFiniteSet(X[p]) /\ X[p] \cap DOMAIN origin = {}
      /\ \A p \in E : \A q \in E \ {p} : X[p] \cap X[q] = {}
  BY FS_Subset DEF Recorded, IsGraph
<1>1. PICK f : Rebuilding(cp, f, S) /\ Rebuilt(cp) = f[E]
  BY <1>e, RebuildingEnds
<1> DEFINE P == {some \in S : Grown(f[some], X, some)}
<1>2. /\ rank \in [S -> Nat]
      /\ \A some \in S : some # {} =>
            /\ pick(some) \in some
            /\ some \ {pick(some)} \in S
            /\ rank[some \ {pick(some)}] < rank[some]
  <2>1. \A some \in S : IsFiniteSet(some) /\ Cardinality(some) \in Nat
    BY <1>e, FS_Subset, FS_CardinalityType
  <2>2. ASSUME NEW some \in S, some # {}
        PROVE  pick(some) \in some /\ Cardinality(some \ {pick(some)}) = Cardinality(some) - 1
    <3>1. pick(some) \in some
      BY <2>2
    <3> HIDE DEF pick
    <3>2. QED
      BY <2>1, <3>1, FS_RemoveElement
  <2>3. ASSUME NEW some \in S, some # {}
        PROVE  some \ {pick(some)} \in S /\ rank[some \ {pick(some)}] < rank[some]
    <3>1. some \ {pick(some)} \in S
      OBVIOUS
    <3>2. rank[some] = Cardinality(some)
          /\ rank[some \ {pick(some)}] = Cardinality(some \ {pick(some)})
      BY <3>1
    <3>3. QED
      BY <2>1, <2>2, <2>3, <3>1, <3>2
  <2>4. rank \in [S -> Nat]
    BY <2>1
  <2>5. QED
    BY <2>2, <2>3, <2>4
<1>3. \A some \in S : f[some] = IF some = {} THEN origin
         ELSE Expand(f[some \ {pick(some)}], pick(some), X[pick(some)])
  BY <1>1 DEF Rebuilding
<1> HIDE DEF pick, rank, X
<1>4. ASSUME NEW some \in S, \A less \in S : rank[less] < rank[some] => less \in P
      PROVE  some \in P
  <2>1. CASE some = {}
    <3>1. f[some] = origin
      BY <1>3, <2>1
    <3>2. Family(X, {}) = {} /\ \A T : T = {} => Family(X, T) = {}
      BY DEF Family
    <3>3. \A id \in DOMAIN origin : Widened(origin[id], X, {}, id)
      <4>1. ASSUME NEW id \in DOMAIN origin PROVE Widened(origin[id], X, {}, id)
        <5>1. Family(X, {q \in {} : id \in origin[q].deps /\ q \in origin[id].consumers}) = {}
          BY <3>2
        <5>2. QED
          BY <5>1 DEF Widened
      <4>2. QED
        BY <4>1
    <3>4. Grown(origin, X, {})
      BY <3>2, <3>3 DEF Grown
    <3>5. QED
      BY <2>1, <3>1, <3>4
  <2>2. CASE some # {}
    <3> DEFINE p == pick(some)
               less == some \ {p}
               before == f[less]
    <3>1. p \in some /\ less \in S /\ p \in E /\ some = less \cup {p} /\ p \notin less
      BY <1>2, <2>2
    <3>2. Grown(before, X, less)
      BY <1>2, <1>4, <2>2, <3>1
    <3>3. f[some] = Expand(before, p, X[p])
      BY <1>3, <2>2
    <3> HIDE DEF p, less, before
    <3>4. X[p] \cap DOMAIN before = {}
      <4>1. \A q \in less : q \in E \ {p}
        BY <3>1
      <4>2. \A q \in less : X[q] \cap X[p] = {}
        BY <1>e, <3>1, <4>1
      <4>3. X[p] \cap DOMAIN origin = {}
        BY <1>e, <3>1
      <4>4. QED
        BY <3>2, <4>2, <4>3 DEF Grown, Family
    <3>5. less \subseteq DOMAIN origin /\ p \in DOMAIN origin /\ IsFiniteSet(X[p])
      BY <1>e, <3>1
    <3>6. \A q \in less : X[q] = X[q]
      OBVIOUS
    <3>7. Grown(f[some], X, less \cup {p})
      BY <3>1, <3>2, <3>3, <3>4, <3>5, <3>6, GrowsOnce
    <3>8. QED
      BY <3>1, <3>7
  <2>3. QED
    BY <2>1, <2>2
<1>5. E \in P
  <2> HIDE DEF S, P
  <2>1. S \subseteq P
    BY <1>2, <1>4, RankInduction
  <2>2. QED
    BY <2>1 DEF S
<1>6. QED
  BY <1>1, <1>5 DEF X

\* In a checkpoint that can be read, only its parent waits for a generated
\* child: what an expansion adds to the graph stands between the dispatch node
\* and what that depended on.
LEMMA OnlyParentsWait ==
    ASSUME NEW cp, IsGraph(origin), Admitted(origin, {}), Rebuilds(cp),
           \A p \in Expanded(cp) : IsFiniteSet(cp.expansions[p])
    PROVE  /\ DOMAIN cp.parentOf \subseteq Ids(cp)
           /\ \A id \in Ids(cp) : \A c \in cp.spec[id].deps :
                 c \in DOMAIN cp.parentOf => id = cp.parentOf[c]
<1> DEFINE E == Expanded(cp)
<1>e. /\ E \subseteq DOMAIN origin
      /\ cp.spec = Rebuilt(cp)
      /\ DOMAIN cp.parentOf = UNION {cp.expansions[p] : p \in E}
      /\ \A p \in E : \A c \in cp.expansions[p] : cp.parentOf[c] = p
      /\ \A p \in E : cp.expansions[p] \cap DOMAIN origin = {}
  BY DEF Rebuilds
<1>o. \A q \in DOMAIN origin : origin[q].deps \subseteq DOMAIN origin \ {q}
  BY AdmittedFacts, NoSelfEdge
<1>1. Recorded(cp)
  BY <1>e DEF Recorded
<1>2. Grown(cp.spec, cp.expansions, E)
  BY <1>1, <1>e, RebuiltIsGrown
<1>3. /\ Ids(cp) = DOMAIN origin \cup DOMAIN cp.parentOf
      /\ \A q \in DOMAIN origin :
            cp.spec[q].deps = origin[q].deps \cup (IF q \in E THEN cp.expansions[q] ELSE {})
      /\ \A p \in E : \A c \in cp.expansions[p] : cp.spec[c].deps = origin[p].deps
  <2>1. \A q \in DOMAIN origin : Widened(cp.spec[q], cp.expansions, E, q)
    BY <1>2 DEF Grown
  <2>2. \A q \in DOMAIN origin :
            cp.spec[q].deps = origin[q].deps \cup (IF q \in E THEN cp.expansions[q] ELSE {})
    BY <2>1 DEF Widened
  <2>3. ASSUME NEW p \in E, NEW c \in cp.expansions[p]
        PROVE  cp.spec[c].deps = origin[p].deps
    <3>1. cp.spec[c] = GeneratedNode(p, origin[p].deps)
      BY <1>2 DEF Grown
    <3>2. QED
      BY <3>1 DEF GeneratedNode
  <2>4. Ids(cp) = DOMAIN origin \cup DOMAIN cp.parentOf
    BY <1>2, <1>e DEF Grown, Family, Ids
  <2>5. QED
    BY <2>2, <2>3, <2>4
<1>4. ASSUME NEW id \in Ids(cp), NEW c \in cp.spec[id].deps, c \in DOMAIN cp.parentOf
      PROVE  id = cp.parentOf[c]
  <2>1. c \notin DOMAIN origin
    BY <1>4, <1>e
  <2>2. CASE id \in DOMAIN origin
    <3>1. id \in E /\ c \in cp.expansions[id]
      BY <1>3, <1>4, <1>o, <2>1, <2>2
    <3>2. QED
      BY <1>e, <3>1
  <2>3. CASE id \notin DOMAIN origin
    <3>1. PICK p \in E : id \in cp.expansions[p]
      BY <1>3, <1>e, <2>3
    <3>2. QED
      BY <1>3, <1>4, <1>e, <1>o, <2>1, <3>1
  <2>4. QED
    BY <2>2, <2>3
<1>5. QED
  BY <1>3, <1>4

-----------------------------------------------------------------------------
(* The state of a run.                                                     *)

Statuses == Terminal \cup {"queued", "running"}
StateFields == {"spec", "status", "selected", "misrouted", "skip", "parentOf", "expansions", "era"}

\* The state of an executor that has seen as many reruns.
IsState(s, seen) ==
    /\ s = [field \in StateFields |-> s[field]]
    /\ IsGraph(s.spec)
    /\ s.status \in [Ids(s) -> Statuses]
    /\ s.selected = [id \in Ids(s) |-> s.selected[id]]
    /\ s.era \in [Ids(s) -> 0..seen]

\* A node that fanned out is not queued again, generated no more than it may,
\* waits for what it generated and for nothing else, and routes nothing, as
\* little as its children do.
ExpansionHolds(s, p) ==
    /\ p \in Ids(s) /\ s.spec[p].dispatch # 0
    /\ IsFiniteSet(s.expansions[p]) /\ Cardinality(s.expansions[p]) <= s.spec[p].dispatch
    /\ s.status[p] \in {"running", "completed", "failed"}
    /\ \A c \in s.expansions[p] \cap Ids(s) : c \in s.spec[p].deps /\ s.spec[c].routes = {}
    /\ \A d \in s.spec[p].deps : d \in s.expansions[p] \/ Settled(s, d)

\* A result is no older than what it was computed from.
Current(s) ==
    \A id \in Ids(s) : s.status[id] \in {"completed", "failed"} =>
        \A d \in s.spec[id].deps : Settled(s, d) /\ s.era[d] <= s.era[id]

Fits(s) ==
    /\ Admitted(s.spec, Expanded(s))
    /\ \A p \in Expanded(s) : ExpansionHolds(s, p)
    /\ \A id \in Ids(s) : /\ s.status[id] = "running" => id \in Expanded(s)
                          /\ s.status[id] = "skipped" => id \in s.skip
    /\ Current(s)

\* No generated child is missing.
Whole(s) == \A p \in Expanded(s) : s.expansions[p] \subseteq Ids(s)

\* What a route left out, and no rerun has set free, is marked to be skipped.
LeftInv(s, free) ==
    \A r \in Routers(s) : \A t \in LeftOut(s, r) \ free :
        t \in s.skip /\ s.status[t] \in {"queued", "skipped"}

\* A node that settles after what it depends on leaves the state in order.
LEMMA SettlingFits ==
    ASSUME NEW seen \in Nat, NEW s, NEW id, NEW outcome \in Terminal,
           IsState(s, seen), Fits(s), id \in Ids(s), ~Settled(s, id),
           outcome # "skipped" => \A d \in s.spec[id].deps : Settled(s, d),
           outcome = "skipped" => id \in s.skip /\ id \notin Expanded(s),
           NEW t, t = [field \in StateFields |-> t[field]],
           t.spec = s.spec, t.expansions = s.expansions, s.skip \subseteq t.skip,
           t.selected = [i \in Ids(s) |-> t.selected[i]],
           t.status = [s.status EXCEPT ![id] = outcome],
           t.era = [s.era EXCEPT ![id] = seen]
    PROVE  IsState(t, seen) /\ Fits(t)
<1>t. /\ Ids(t) = Ids(s) /\ Expanded(t) = Expanded(s)
      /\ s.status \in [Ids(s) -> Statuses] /\ s.era \in [Ids(s) -> 0..seen]
      /\ \A d \in Ids(s) : s.era[d] \in 0..seen
  BY DEF Ids, Expanded, IsState
<1>d. \A i \in Ids(s) : s.spec[i].deps \subseteq Ids(s)
  BY AdmittedFacts DEF Fits, Ids
<1>1. IsState(t, seen)
  <2>1. t.status \in [Ids(t) -> Statuses]
    BY <1>t DEF Statuses
  <2>2. seen \in 0..seen
    OBVIOUS
  <2>3. t.era \in [Ids(t) -> 0..seen]
    BY <1>t, <2>2
  <2>4. IsGraph(t.spec)
    BY DEF IsState
  <2>6. t.selected = [i \in Ids(t) |-> t.selected[i]]
    BY <1>t
  <2>7. QED
    BY <2>1, <2>3, <2>4, <2>6 DEF IsState
<1>2. \A i \in Ids(s) : /\ i # id => t.status[i] = s.status[i] /\ t.era[i] = s.era[i]
                        /\ i = id => t.status[i] = outcome /\ t.era[i] = seen
  BY <1>t
<1>3. \A i \in Ids(s) : Settled(s, i) => Settled(t, i)
  BY <1>2 DEF Settled
<1>4. ASSUME NEW p \in Expanded(t) PROVE ExpansionHolds(t, p)
  <2>1. ExpansionHolds(s, p)
    BY <1>4, <1>t DEF Fits
  <2>2. t.status[p] \in {"running", "completed", "failed"}
    BY <1>2, <1>t, <2>1 DEF ExpansionHolds, Terminal
  <2>3. \A d \in t.spec[p].deps : d \in t.expansions[p] \/ Settled(t, d)
    BY <1>3, <1>d, <2>1 DEF ExpansionHolds
  <2>4. QED
    BY <1>t, <2>1, <2>2, <2>3 DEF ExpansionHolds
<1>5. \A i \in Ids(t) : /\ t.status[i] = "running" => i \in Expanded(t)
                        /\ t.status[i] = "skipped" => i \in t.skip
  BY <1>2, <1>t DEF Fits, Terminal
<1>6. ASSUME NEW i \in Ids(s), t.status[i] \in {"completed", "failed"}, NEW d \in s.spec[i].deps
      PROVE  Settled(t, d) /\ t.era[d] <= t.era[i]
  <2>1. d \in Ids(s)
    BY <1>d
  <2>2. CASE i = id
    BY <1>2, <1>3, <1>6, <1>t, <2>1, <2>2
  <2>3. CASE i # id
    <3>1. s.status[i] \in {"completed", "failed"}
      BY <1>2, <1>6, <2>3
    <3>2. Settled(s, d) /\ s.era[d] <= s.era[i]
      BY <1>6, <3>1 DEF Fits, Current
    <3>3. d # id
      BY <3>2
    <3>4. QED
      BY <1>2, <1>3, <2>1, <2>3, <3>2, <3>3
  <2>4. QED
    BY <2>2, <2>3
<1>7. Current(t)
  BY <1>6, <1>t DEF Current
<1>8. QED
  BY <1>1, <1>4, <1>5, <1>7, <1>t DEF Fits

\* A dispatch node that fans out leaves the state in order.
FansOut(s, id, kids, t) ==
    /\ s.status[id] = "queued" /\ id \notin Expanded(s) /\ s.spec[id].dispatch # 0
    /\ id \notin s.skip
    /\ \A d \in s.spec[id].deps : Settled(s, d)
    /\ IsFiniteSet(kids) /\ kids \cap Ids(s) = {}
    /\ Cardinality(kids) <= s.spec[id].dispatch
    /\ t = [field \in StateFields |-> t[field]]
    /\ t.spec = Expand(s.spec, id, kids) /\ t.skip = s.skip /\ t.misrouted = s.misrouted
    /\ t.status = Merged([s.status EXCEPT ![id] = "running"], [c \in kids |-> "queued"])
    /\ t.selected = Merged(s.selected, [c \in kids |-> {}])
    /\ t.expansions = Merged(s.expansions, [p \in {id} |-> kids])

\* A dispatch node that completes with new children keeps the state sound.
LEMMA ExpandingFits ==
    ASSUME NEW seen \in Nat, NEW s, IsState(s, seen), Fits(s), Whole(s),
           NEW id \in Ids(s), NEW kids, NEW t, FansOut(s, id, kids, t),
           Admitted(t.spec, Expanded(s) \cup {id}),
           t.era = Merged(s.era, [c \in kids |-> seen])
    PROVE  IsState(t, seen) /\ Fits(t) /\ Whole(t)
<1> USE DEF FansOut
<1>s. /\ s.status \in [Ids(s) -> Statuses] /\ s.era \in [Ids(s) -> 0..seen]
      /\ DOMAIN s.selected = Ids(s)
      /\ IsGraph(s.spec) /\ DOMAIN s.spec = Ids(s)
  BY DEF Ids, IsState
<1>d. \A i \in Ids(s) : s.spec[i].deps \subseteq Ids(s)
  BY AdmittedFacts DEF Fits, Ids
<1>i. id \notin s.spec[id].deps
  BY DEF Settled, Terminal
<1>g. Grows(s.spec, id, kids, t.spec)
  <2>1. id \in DOMAIN s.spec /\ s.spec[id].deps \subseteq DOMAIN s.spec \ {id}
        /\ kids \cap DOMAIN s.spec = {}
    BY <1>d, <1>i, <1>s
  <2>2. Grows(s.spec, id, kids, Expand(s.spec, id, kids))
    BY <1>s, <2>1, ExpandFacts
  <2>3. QED
    BY <2>2
<1>t. /\ Ids(t) = Ids(s) \cup kids /\ IsGraph(t.spec)
      /\ \A i \in Ids(s) : /\ t.spec[i].dispatch = s.spec[i].dispatch
                           /\ t.spec[i].routes = s.spec[i].routes
                           /\ i # id => t.spec[i].deps = s.spec[i].deps
      /\ t.spec[id].deps = s.spec[id].deps \cup kids
      /\ \A c \in kids : t.spec[c].routes = {}
  BY <1>g DEF Grows, Ids
<1>st. /\ DOMAIN t.status = Ids(t) /\ t.status = [i \in DOMAIN t.status |-> t.status[i]]
       /\ t.status[id] = "running"
       /\ \A i \in Ids(s) : i # id => t.status[i] = s.status[i]
       /\ \A c \in kids : t.status[c] = "queued"
  <2>1. /\ kids \cap Ids(s) = {} /\ DOMAIN s.status = Ids(s) /\ Ids(t) = Ids(s) \cup kids
        /\ t.status = Merged([s.status EXCEPT ![id] = "running"], [c \in kids |-> "queued"])
    BY <1>s, <1>t
  <2> HIDE DEF FansOut
  <2>2. QED
    BY <2>1 DEF Merged
<1>er. /\ DOMAIN t.era = Ids(t) /\ t.era = [i \in DOMAIN t.era |-> t.era[i]]
       /\ \A i \in Ids(s) : t.era[i] = s.era[i]
       /\ \A c \in kids : t.era[c] = seen
  <2>1. kids \cap Ids(s) = {} /\ DOMAIN s.era = Ids(s) /\ Ids(t) = Ids(s) \cup kids
    BY <1>s, <1>t
  <2> HIDE DEF FansOut
  <2>2. QED
    BY <2>1 DEF Merged
<1>ex. /\ Expanded(t) = Expanded(s) \cup {id}
       /\ t.expansions[id] = kids
       /\ \A p \in Expanded(s) : t.expansions[p] = s.expansions[p]
  BY DEF Merged, Expanded
<1>1. IsState(t, seen)
  <2>1. t.status \in [Ids(t) -> Statuses]
    <3>1. \A i \in Ids(t) : t.status[i] \in Statuses
      BY <1>s, <1>t, <1>st, ZenonT(40) DEF Statuses
    <3>2. QED
      BY <1>st, <3>1
  <2>2. t.era \in [Ids(t) -> 0..seen]
    <3>1. \A i \in Ids(s) : t.era[i] \in 0..seen
      BY <1>s, <1>er
    <3>2. \A c \in kids : t.era[c] \in 0..seen
      BY <1>er
    <3>3. \A i \in Ids(t) : t.era[i] \in 0..seen
      BY <1>t, <3>1, <3>2
    <3>4. QED
      BY <1>er, <3>3
  <2>3. t.selected = [i \in Ids(t) |-> t.selected[i]]
    BY <1>s, <1>t DEF Merged
  <2>4. QED
    BY <1>t, <1>ex, <2>1, <2>2, <2>3 DEF IsState
<1>2. \A i \in Ids(s) : Settled(s, i) => Settled(t, i)
  BY <1>st DEF Settled, Terminal
<1>3. ASSUME NEW p \in Expanded(t)
      PROVE  ExpansionHolds(t, p) /\ t.expansions[p] \subseteq Ids(t)
  <2>1. CASE p = id
    <3>1. \A d \in t.spec[id].deps : d \in t.expansions[id] \/ Settled(t, d)
      BY <1>2, <1>d, <1>ex, <1>t
    <3>2. QED
      BY <1>ex, <1>st, <1>t, <2>1, <3>1 DEF ExpansionHolds
  <2>2. CASE p # id
    <3>1. /\ p \in Expanded(s) /\ ExpansionHolds(s, p)
          /\ s.expansions[p] \subseteq Ids(s) /\ t.expansions[p] = s.expansions[p]
          /\ p \in Ids(s)
      BY <1>3, <1>ex, <2>2 DEF Fits, Whole, ExpansionHolds
    <3>2. \A d \in t.spec[p].deps : d \in t.expansions[p] \/ Settled(t, d)
      BY <1>2, <1>d, <1>t, <2>2, <3>1 DEF ExpansionHolds
    <3>3. \A c \in t.expansions[p] : c \in t.spec[p].deps /\ t.spec[c].routes = {}
      BY <1>t, <2>2, <3>1 DEF ExpansionHolds
    <3>4. QED
      BY <1>st, <1>t, <2>2, <3>1, <3>2, <3>3 DEF ExpansionHolds
  <2>3. QED
    BY <2>1, <2>2
<1>4. \A i \in Ids(t) : /\ t.status[i] = "running" => i \in Expanded(t)
                        /\ t.status[i] = "skipped" => i \in t.skip
  BY <1>ex, <1>st, <1>t DEF Fits
<1>5. ASSUME NEW i \in Ids(t), t.status[i] \in {"completed", "failed"}, NEW d \in t.spec[i].deps
      PROVE  Settled(t, d) /\ t.era[d] <= t.era[i]
  <2>1. i \in Ids(s) /\ i # id /\ s.status[i] \in {"completed", "failed"}
        /\ d \in s.spec[i].deps /\ d \in Ids(s)
    BY <1>5, <1>d, <1>st, <1>t
  <2>2. Settled(s, d) /\ s.era[d] <= s.era[i]
    BY <2>1 DEF Fits, Current
  <2>3. QED
    BY <1>2, <1>er, <2>1, <2>2
<1>6. QED
  BY <1>1, <1>3, <1>4, <1>5, <1>ex DEF Fits, Whole, Current

\* What was left out stays marked when a node settles that no route left out,
\* or that is skipped, and that decides nothing itself.
Settles(s, id, outcome, t) ==
    /\ DOMAIN s.status = Ids(s) /\ id \in Ids(s)
    /\ t.spec = s.spec /\ t.skip = s.skip /\ t.misrouted = s.misrouted
    /\ t.selected = s.selected /\ t.status = [s.status EXCEPT ![id] = outcome]
    /\ outcome # "skipped" => id \notin s.skip \/ s.status[id] = "running"
    /\ id \in Routers(s) => outcome # "completed"

\* A node that settles revives no target that was left out.
LEMMA LeftOutWhileSettling ==
    ASSUME NEW s, NEW free, LeftInv(s, free), Fits(s),
           NEW id, NEW outcome, NEW t, Settles(s, id, outcome, t)
    PROVE  LeftInv(t, free)
<1> USE DEF Settles
<1>1. \A i \in Ids(s) : /\ i # id => t.status[i] = s.status[i]
                        /\ i = id => t.status[i] = outcome
  OBVIOUS
<1>2. Routers(t) = Routers(s) /\ Routers(s) \subseteq Ids(s) /\ Ids(t) = Ids(s)
  BY DEF Routers, Ids
<1>3. \A r \in Routers(s) : LeftOut(t, r) \subseteq LeftOut(s, r)
  BY <1>1, <1>2 DEF LeftOut
<1>4. ASSUME NEW r \in Routers(s), NEW x \in LeftOut(s, r) \ free
      PROVE  x \in t.skip /\ t.status[x] \in {"queued", "skipped"}
  <2>1. x \in s.skip /\ s.status[x] \in {"queued", "skipped"}
    BY DEF LeftInv
  <2>2. x \in Ids(s)
    <3>1. x \in Targets(s.spec[r])
      BY DEF LeftOut
    <3>2. QED
      BY <1>2, <3>1, AdmittedFacts DEF Fits, Routers, Ids
  <2>3. QED
    BY <1>1, <2>1, <2>2
<1>5. QED
  BY <1>2, <1>3, <1>4 DEF LeftInv

\* A router that decides marks what it leaves out: none of it has started,
\* for all of it waits for the router.
Decides(s, id, targets, t) ==
    /\ s.status \in [Ids(s) -> Statuses] /\ id \in Routers(s) /\ id \in Ids(s)
    /\ s.status[id] = "queued" /\ id \notin s.skip /\ targets \subseteq Targets(s.spec[id])
    /\ t.spec = s.spec
    /\ t.skip = s.skip \cup {x \in targets : ~Settled(t, x)}
    /\ \/ /\ t.status = [s.status EXCEPT ![id] = "completed"]
          /\ t.misrouted = s.misrouted
          /\ DOMAIN s.selected = Ids(s)
          /\ \E chosen : /\ t.selected = [s.selected EXCEPT ![id] = chosen]
                         /\ targets = Targets(s.spec[id]) \ chosen
       \/ /\ t.status = [s.status EXCEPT ![id] = "failed"]
          /\ t.misrouted = s.misrouted \cup {id}
          /\ t.selected = s.selected
          /\ targets = Targets(s.spec[id])

\* What waits for a node that has not settled has not started.
LEMMA TargetsWait ==
    ASSUME NEW s, Fits(s), IsGraph(s.spec), s.status \in [Ids(s) -> Statuses],
           NEW id \in Routers(s), s.status[id] = "queued",
           NEW x \in Targets(s.spec[id])
    PROVE  /\ x \in Ids(s) /\ x # id
           /\ s.status[x] \in {"queued", "skipped"}
           /\ s.status[x] = "skipped" => x \in s.skip
<1>1. x \in Ids(s) /\ id \in s.spec[x].deps /\ id \in Ids(s)
  BY AdmittedFacts DEF Fits, Routers, Ids
<1>2. ~Settled(s, id)
  BY DEF Settled, Terminal
<1>3. s.status[x] \notin {"completed", "failed"}
  BY <1>1, <1>2 DEF Fits, Current
<1>4. ASSUME s.status[x] = "running" PROVE FALSE
  <2>1. x \in Expanded(s) /\ ExpansionHolds(s, x)
    BY <1>1, <1>4 DEF Fits
  <2>2. id \in s.expansions[x]
    BY <1>1, <1>2, <2>1 DEF ExpansionHolds
  <2>3. s.spec[id].routes = {}
    BY <1>1, <2>1, <2>2 DEF ExpansionHolds
  <2>4. QED
    BY <2>3 DEF Routers
<1>5. s.status[x] \in {"queued", "skipped"}
  BY <1>1, <1>3, <1>4 DEF Statuses, Terminal
<1>6. x # id
  <2>1. id \notin s.spec[id].deps
    BY <1>1, NoSelfEdge DEF Fits, Ids
  <2>2. QED
    BY <1>1, <2>1
<1>7. QED
  BY <1>1, <1>5, <1>6 DEF Fits

\* A router that decides revives no target that was left out.
LEMMA LeftOutWhenDecided ==
    ASSUME NEW s, NEW free, LeftInv(s, free), Fits(s), IsGraph(s.spec),
           NEW id, NEW targets, NEW t, Decides(s, id, targets, t)
    PROVE  LeftInv(t, free)
<1> USE DEF Decides
<1>1. /\ Routers(t) = Routers(s) /\ Routers(s) \subseteq Ids(s) /\ Ids(t) = Ids(s)
      /\ \A i \in Ids(s) : i # id => t.status[i] = s.status[i]
  BY DEF Routers, Ids
<1>2. \A r \in Routers(s) : \A x \in Targets(s.spec[r]) : x \in Ids(s) /\ r \in s.spec[x].deps
  BY AdmittedFacts DEF Fits, Routers, Ids
<1>3. ASSUME NEW x \in Targets(s.spec[id])
      PROVE  /\ x \in Ids(s) /\ x # id
             /\ s.status[x] \in {"queued", "skipped"}
             /\ s.status[x] = "skipped" => x \in s.skip
  BY <1>3, TargetsWait
<1>4. ASSUME NEW r \in Routers(s), NEW x \in LeftOut(t, r) \ free
      PROVE  x \in t.skip /\ t.status[x] \in {"queued", "skipped"}
  <2>1. CASE x \in LeftOut(s, r)
    <3>1. x \in s.skip /\ s.status[x] \in {"queued", "skipped"}
      BY <1>4, <2>1 DEF LeftInv
    <3>2. x \in Ids(s) /\ x # id
      <4>1. x \in Targets(s.spec[r])
        BY <2>1 DEF LeftOut
      <4>2. QED
        BY <1>2, <3>1, <4>1
    <3>3. QED
      BY <1>1, <3>1, <3>2
  <2>2. CASE x \notin LeftOut(s, r)
    <3>1. r = id
      BY <1>1, <1>4, <2>2 DEF LeftOut
    <3>2. x \in targets
      BY <1>1, <1>4, <2>2, <3>1 DEF LeftOut
    <3>3. x \in Ids(s) /\ x # id /\ s.status[x] \in {"queued", "skipped"}
          /\ (s.status[x] = "skipped" => x \in s.skip)
      BY <1>3, <3>2
    <3>4. t.status[x] = s.status[x]
      BY <1>1, <3>3
    <3>5. s.status[x] = "queued" => ~Settled(t, x)
      BY <3>4 DEF Settled, Terminal
    <3>6. QED
      BY <3>2, <3>3, <3>4, <3>5
  <2>3. QED
    BY <2>1, <2>2
<1>5. QED
  BY <1>1, <1>4 DEF LeftInv

\* Fanning out changes neither who routes nor what was left out.
LEMMA ExpandingRoutes ==
    ASSUME NEW s, Fits(s), IsGraph(s.spec),
           DOMAIN s.status = Ids(s), DOMAIN s.selected = Ids(s),
           NEW id \in Ids(s), NEW kids, NEW t, FansOut(s, id, kids, t)
    PROVE  /\ Ids(t) = Ids(s) \cup kids
           /\ t.status[id] = "running" /\ \A c \in kids : t.status[c] = "queued"
           /\ \A i \in Ids(s) : i # id => t.status[i] = s.status[i]
           /\ Routers(t) = Routers(s) /\ id \notin Routers(s)
           /\ \A r \in Routers(s) : /\ LeftOut(t, r) = LeftOut(s, r)
                                    /\ t.spec[r].routes = s.spec[r].routes
                                    /\ t.selected[r] = s.selected[r]
<1>0. id \notin s.spec[id].deps
  BY NoSelfEdge DEF Fits, Ids
<1> USE <1>0 DEF FansOut
<1>d. \A i \in Ids(s) : s.spec[i].deps \subseteq Ids(s)
  BY AdmittedFacts DEF Fits, Ids
<1>g. Grows(s.spec, id, kids, t.spec)
  <2>1. id \in DOMAIN s.spec /\ s.spec[id].deps \subseteq DOMAIN s.spec \ {id}
        /\ kids \cap DOMAIN s.spec = {}
    BY <1>d DEF Ids
  <2>2. Grows(s.spec, id, kids, Expand(s.spec, id, kids))
    BY <2>1, ExpandFacts
  <2>3. QED
    BY <2>2
<1>t. /\ Ids(t) = Ids(s) \cup kids
      /\ \A i \in Ids(s) : t.spec[i].routes = s.spec[i].routes
      /\ \A c \in kids : t.spec[c].routes = {}
  BY <1>g DEF Grows, Ids
<1>st. /\ t.status[id] = "running" /\ \A c \in kids : t.status[c] = "queued"
       /\ \A i \in Ids(s) : i # id => t.status[i] = s.status[i]
       /\ \A i \in Ids(s) : t.selected[i] = s.selected[i]
  BY DEF Merged
<1>1. Routers(t) = Routers(s) /\ id \notin Routers(s)
  <2>1. id \notin Routers(s)
    BY AdmittedFacts DEF Fits, Routers, Ids
  <2>2. QED
    BY <1>t, <2>1 DEF Routers
<1>2. ASSUME NEW r \in Routers(s) PROVE LeftOut(t, r) = LeftOut(s, r)
  <2>1. r \in Ids(s) /\ r # id
    BY <1>1 DEF Routers
  <2>2. Targets(t.spec[r]) = Targets(s.spec[r])
    BY <1>t, <2>1 DEF Targets
  <2>3. QED
    BY <1>st, <2>1, <2>2 DEF LeftOut
<1>3. \A r \in Routers(s) : t.spec[r].routes = s.spec[r].routes /\ t.selected[r] = s.selected[r]
  BY <1>st, <1>t DEF Routers
<1>4. QED
  BY <1>1, <1>2, <1>3, <1>st, <1>t

\* Neither does fanning out change what was left out.
LEMMA LeftOutWhenExpanding ==
    ASSUME NEW s, NEW free, LeftInv(s, free), Fits(s), IsGraph(s.spec),
           DOMAIN s.status = Ids(s), DOMAIN s.selected = Ids(s),
           NEW id \in Ids(s), NEW kids, NEW t, FansOut(s, id, kids, t)
    PROVE  LeftInv(t, free)
<1>1. /\ \A i \in Ids(s) : i # id => t.status[i] = s.status[i]
      /\ t.status[id] = "running" /\ Routers(t) = Routers(s) /\ id \notin Routers(s)
      /\ \A r \in Routers(s) : LeftOut(t, r) = LeftOut(s, r)
  BY ExpandingRoutes
<1>2. t.skip = s.skip /\ s.status[id] = "queued" /\ id \notin s.skip
  BY DEF FansOut
<1>3. ASSUME NEW r \in Routers(s), NEW x \in LeftOut(s, r) \ free
      PROVE  x \in t.skip /\ t.status[x] \in {"queued", "skipped"}
  <2>1. x \in s.skip /\ s.status[x] \in {"queued", "skipped"}
    BY <1>3 DEF LeftInv
  <2>2. x \in Ids(s)
    <3>1. x \in Targets(s.spec[r])
      BY DEF LeftOut
    <3>2. QED
      BY <3>1, AdmittedFacts DEF Fits, Routers, Ids
  <2>3. QED
    BY <1>1, <1>2, <2>1, <2>2
<1>4. QED
  BY <1>1, <1>2, <1>3 DEF LeftInv

-----------------------------------------------------------------------------
(* Reruns.                                                                 *)

\* The closure of a rerun loses no consumer of a node it contains.
LEMMA DownstreamCloses ==
    ASSUME NEW spec, IsFiniteSet(DOMAIN spec), NEW seeds \in SUBSET DOMAIN spec
    PROVE  /\ seeds \subseteq DownstreamClosure(spec, seeds)
           /\ DownstreamClosure(spec, seeds) \in SUBSET DOMAIN spec
           /\ \A x \in DownstreamClosure(spec, seeds) :
                 ConsumersOf(spec, x) \subseteq DownstreamClosure(spec, seeds)
           /\ \A X \in SUBSET DOMAIN spec :
                 seeds \subseteq X /\ (\A x \in X : ConsumersOf(spec, x) \subseteq X)
                    => DownstreamClosure(spec, seeds) \subseteq X
<1> DEFINE S == DOMAIN spec
           N == Cardinality(DOMAIN spec)
           edges == [x \in S |-> ConsumersOf(spec, x)]
           Reaches(v) == v = [i \in 0..N |->
                                IF i = 0 THEN seeds
                                ELSE LET known == v[i - 1]
                                     IN  known \cup UNION {ConsumersOf(spec, id) : id \in known}]
           g == CHOOSE v : Reaches(v)
<1>1. edges \in [S -> SUBSET S] /\ N \in Nat /\ \A x \in S : ConsumersOf(spec, x) \in SUBSET S
  BY FS_CardinalityType DEF ConsumersOf, DirectConsumers
<1>e. \A X \in SUBSET S : UNION {edges[b] : b \in X} = UNION {ConsumersOf(spec, b) : b \in X}
  OBVIOUS
<1> HIDE DEF edges, N
<1>2. PICK f \in [0..N -> SUBSET S] : Search(f, N, seeds, edges)
  BY <1>1, SearchExists
<1>3. Reaches(f)
  <2>1. \A i \in 0..N : i # 0 => f[i - 1] \in SUBSET S
    BY <1>1
  <2>2. \A i \in 0..N : f[i] = IF i = 0 THEN seeds
           ELSE f[i - 1] \cup UNION {ConsumersOf(spec, b) : b \in f[i - 1]}
    BY <1>2, <1>e, <2>1 DEF Search
  <2>3. QED
    BY <2>2
<1>4. Reaches(g)
  BY <1>3, Zenon
<1>5. DownstreamClosure(spec, seeds) = g[N]
  BY DEF DownstreamClosure, N
<1> HIDE DEF g
<1>6. \A i \in 0..N : g[i] \in SUBSET S
  <2> DEFINE Known == {k \in 0..N : g[k] \in SUBSET S}
  <2>1. 0 \in Known
    BY <1>1, <1>4
  <2>2. ASSUME NEW k \in 0..N, k \in Known, k + 1 <= N PROVE k + 1 \in Known
    <3>1. k + 1 \in 0..N /\ k + 1 # 0 /\ (k + 1) - 1 = k
      BY <1>1, <2>2
    <3>2. g[k + 1] = g[k] \cup UNION {ConsumersOf(spec, b) : b \in g[k]}
      BY <1>4, <3>1
    <3>3. UNION {ConsumersOf(spec, b) : b \in g[k]} \in SUBSET S
      BY <1>1, <2>2
    <3>4. QED
      BY <2>2, <3>1, <3>2, <3>3
  <2> HIDE DEF Known
  <2>3. \A k \in 0..N : k \in Known /\ k + 1 <= N => k + 1 \in Known
    BY <2>2
  <2>4. \A k \in 0..N : k \in Known
    BY <1>1, <2>1, <2>3, Ascend
  <2>5. QED
    BY <2>4 DEF Known
<1>7. Follows(S, edges, seeds, N, g)
  <2>1. Cardinality(S) <= N + Cardinality(seeds)
    <3>1. Cardinality(seeds) \in Nat
      BY FS_Subset, FS_CardinalityType
    <3>2. QED
      BY <1>1, <3>1 DEF N
  <2>2. \A i \in 0..N : i # 0 => g[i - 1] \in SUBSET S
    BY <1>1, <1>6
  <2>3. \A i \in 0..N :
           g[i] = IF i = 0 THEN seeds ELSE g[i - 1] \cup UNION {edges[x] : x \in g[i - 1]}
    BY <1>4, <1>e, <2>2
  <2>4. g = [i \in 0..N |-> g[i]]
    BY <1>4
  <2>5. Search(g, N, seeds, edges)
    BY <2>3, <2>4 DEF Search
  <2>6. QED
    BY <1>1, <2>1, <2>5 DEF Follows
<1>8. /\ seeds \subseteq g[N] /\ g[N] \in SUBSET S
      /\ \A x \in g[N] : edges[x] \subseteq g[N]
      /\ \A X \in SUBSET S :
            seeds \subseteq X /\ (\A x \in X : edges[x] \subseteq X) => g[N] \subseteq X
  <2> HIDE DEF S
  <2>1. QED
    BY <1>7, SearchCloses
<1>9. \A x \in S : edges[x] = ConsumersOf(spec, x)
  BY DEF edges
<1> HIDE DEF S, Reaches
<1>10. /\ seeds \subseteq g[N] /\ g[N] \in SUBSET S
       /\ \A x \in g[N] : ConsumersOf(spec, x) \subseteq g[N]
       /\ \A X \in SUBSET S :
            seeds \subseteq X /\ (\A x \in X : ConsumersOf(spec, x) \subseteq X) => g[N] \subseteq X
  <2>1. \A x \in g[N] : ConsumersOf(spec, x) \subseteq g[N]
    BY <1>8, <1>9
  <2>2. ASSUME NEW X \in SUBSET S, seeds \subseteq X, \A x \in X : ConsumersOf(spec, x) \subseteq X
        PROVE  g[N] \subseteq X
    <3>1. \A x \in X : edges[x] \subseteq X
      BY <1>9, <2>2
    <3>2. QED
      BY <1>8, <2>2, <3>1
  <2>3. QED
    BY <1>8, <2>1, <2>2
<1>11. QED
  BY <1>5, <1>10 DEF S

\* What the executor of a rerun starts from.
StartsFrom(view, cp, spec, keep) ==
    /\ view = [field \in StateFields |-> view[field]]
    /\ view.spec = spec
    /\ view.status = [id \in DOMAIN spec |->
          IF id \in keep /\ (Settled(cp, id) \/ id \in Expanded(cp))
          THEN cp.status[id] ELSE "queued"]
    /\ view.selected = Merged(Restrict(cp.selected, keep), [id \in DOMAIN spec |-> {}])
    /\ view.misrouted = cp.misrouted \cap keep
    /\ view.skip = cp.skip \cap keep
    /\ view.parentOf = Restrict(cp.parentOf, DOMAIN cp.parentOf \cap keep)
    /\ view.expansions = Restrict(cp.expansions, Expanded(cp) \cap keep)
    /\ view.era = Merged(Restrict(cp.era, keep), [id \in DOMAIN spec |-> 0])

\* The fields of the state a rerun starts from.
LEMMA ViewFields ==
    ASSUME NEW cp, NEW spec, NEW closure
    PROVE  StartsFrom(View(cp, spec, closure), cp, spec, (Ids(cp) \cap DOMAIN spec) \ closure)
BY DEF StartsFrom, View, Reused, Fresh, StateFields

\* A rerun of a checkpoint that can be read starts from a state in order: what
\* it keeps waited for nothing it repeats, and what it sets free is no more
\* than the marked nodes that it repeats without their router.
Repeats(cp, named, inject, patch, spec, closure, new, view) ==
    /\ PatchApplies(cp.spec, patch) /\ IsGraph(patch.add)
    /\ \A id \in DOMAIN patch.modify : IsOverride(patch.modify[id])
    /\ spec = Patched(cp.spec, patch)
    /\ closure = Closure(cp, spec, named, patch)
    /\ new = Injected(spec, inject \cap closure)
    /\ view = View(cp, new, closure)
    /\ Admitted(view.spec, Expanded(view))

\* A rerun starts from a sound state, whatever it names, injects and patches.
LEMMA RerunFits ==
    ASSUME NEW cp, NEW seen \in Nat, IsGraph(origin), Admitted(origin, {}),
           IsState(cp, seen), Fits(cp), Loads(cp),
           NEW named, NEW inject, NEW patch, NEW spec, NEW closure, NEW new, NEW view,
           Repeats(cp, named, inject, patch, spec, closure, new, view)
    PROVE  /\ IsState(view, seen + 1) /\ Fits(view)
           /\ LeftInv(view, SetFree(cp, closure))
           /\ StartHolds(view) => Whole(view)
<1>0. /\ PatchApplies(cp.spec, patch) /\ IsGraph(patch.add)
      /\ \A id \in DOMAIN patch.modify : IsOverride(patch.modify[id])
      /\ spec = Patched(cp.spec, patch)
      /\ closure = Closure(cp, spec, named, patch)
      /\ new = Injected(spec, inject \cap closure)
      /\ view = View(cp, new, closure)
      /\ Admitted(view.spec, Expanded(view))
  BY DEF Repeats
<1> USE <1>0
<1> DEFINE keep == (Ids(cp) \cap DOMAIN new) \ closure
           seeds == Seeds(cp, named, patch) \cap DOMAIN spec
           D == DownstreamClosure(spec, seeds)
<1>1. Changes(cp.spec, patch, spec) /\ SameShape(spec, new)
  <2>1. Changes(cp.spec, patch, spec)
    BY PatchFacts DEF IsState
  <2>2. IsGraph(spec)
    BY <2>1 DEF Changes
  <2>3. QED
    BY <2>1, <2>2, InjectFacts
<1>2. /\ IsGraph(spec) /\ IsGraph(new) /\ DOMAIN new = DOMAIN spec
      /\ DOMAIN spec = (Ids(cp) \cup DOMAIN patch.add) \ patch.remove
      /\ \A id \in DOMAIN spec : new[id].deps = spec[id].deps
  BY <1>1 DEF Changes, SameShape, Ids
<1>3. /\ seeds \subseteq D
      /\ \A x \in D : \A y \in DOMAIN spec : x \in spec[y].deps => y \in D
  <2>1. IsFiniteSet(DOMAIN spec) /\ seeds \in SUBSET DOMAIN spec
    BY <1>2 DEF IsGraph
  <2>2. seeds \subseteq D /\ \A x \in D : ConsumersOf(spec, x) \subseteq D
    BY <2>1, DownstreamCloses
  <2> HIDE DEF D
  <2>3. QED
    BY <2>2 DEF ConsumersOf, DirectConsumers
<1>4. closure = D \cup {c \in DOMAIN cp.parentOf : cp.parentOf[c] \in D}
  BY DEF Closure
<1> HIDE DEF D
<1>5. /\ DOMAIN cp.parentOf \subseteq Ids(cp)
      /\ \A id \in Ids(cp) : \A c \in cp.spec[id].deps :
            c \in DOMAIN cp.parentOf => id = cp.parentOf[c]
      /\ DOMAIN cp.parentOf = UNION {cp.expansions[p] : p \in Expanded(cp)}
      /\ \A p \in Expanded(cp) : \A c \in cp.expansions[p] : cp.parentOf[c] = p
  <2>1. Rebuilds(cp) /\ \A p \in Expanded(cp) : IsFiniteSet(cp.expansions[p])
    BY DEF Loads, Fits, ExpansionHolds
  <2>2. /\ DOMAIN cp.parentOf \subseteq Ids(cp)
        /\ \A id \in Ids(cp) : \A c \in cp.spec[id].deps :
              c \in DOMAIN cp.parentOf => id = cp.parentOf[c]
    BY <2>1, OnlyParentsWait
  <2>3. /\ DOMAIN cp.parentOf = UNION {cp.expansions[p] : p \in Expanded(cp)}
        /\ \A p \in Expanded(cp) : \A c \in cp.expansions[p] : cp.parentOf[c] = p
    BY <2>1 DEF Rebuilds
  <2>4. QED
    BY <2>2, <2>3
<1>6. \A id \in keep : /\ id \in Ids(cp) /\ id \in DOMAIN new /\ id \notin D /\ id \notin closure
                       /\ new[id].dispatch = cp.spec[id].dispatch
                       /\ new[id].routes = cp.spec[id].routes
                       /\ new[id].deps = cp.spec[id].deps \ patch.remove
  <2>1. ASSUME NEW id \in keep PROVE id \notin D /\ id \notin DOMAIN patch.modify
    <3>1. id \notin D
      BY <1>4
    <3>2. id \notin seeds
      BY <1>3, <3>1
    <3>3. QED
      BY <1>2, <3>1, <3>2 DEF Seeds
  <2>2. \A id \in keep : id \in (DOMAIN cp.spec \cap DOMAIN spec) \ DOMAIN patch.modify
    BY <1>2, <2>1 DEF Ids
  <2>3. \A id \in keep : /\ spec[id].dispatch = cp.spec[id].dispatch
                         /\ spec[id].routes = cp.spec[id].routes
                         /\ spec[id].deps = cp.spec[id].deps \ patch.remove
    BY <1>1, <2>2 DEF Changes
  <2>4. \A id \in DOMAIN spec : /\ new[id].dispatch = spec[id].dispatch
                                /\ new[id].routes = spec[id].routes
                                /\ new[id].deps = spec[id].deps
    BY <1>1 DEF SameShape
  <2>5. \A id \in keep : id \in Ids(cp) /\ id \in DOMAIN new /\ id \notin closure /\ id \in DOMAIN spec
    BY <1>2
  <2> HIDE DEF keep
  <2>6. QED
    BY <2>1, <2>3, <2>4, <2>5, ZenonT(40)
<1>v. StartsFrom(view, cp, new, keep)
  BY ViewFields
<1> HIDE DEF keep
<1>k. keep \subseteq DOMAIN new /\ keep \subseteq Ids(cp) /\ Ids(view) = DOMAIN new
  BY <1>v DEF keep, Ids, StartsFrom
<1>f. /\ view = [field \in StateFields |-> view[field]]
      /\ view.spec = new
      /\ view.misrouted = cp.misrouted \cap keep
      /\ view.skip = cp.skip \cap keep
  BY <1>v DEF StartsFrom
<1>c. /\ cp.status \in [Ids(cp) -> Statuses] /\ cp.era \in [Ids(cp) -> 0..seen]
      /\ DOMAIN cp.selected = Ids(cp)
      /\ \A id \in Ids(cp) : cp.spec[id].deps \subseteq Ids(cp)
      /\ \A id \in DOMAIN new : new[id].deps \subseteq DOMAIN new
  <2>1. \A id \in Ids(cp) : cp.spec[id].deps \subseteq Ids(cp)
    BY AdmittedFacts DEF Fits, Ids
  <2>2. Admitted(new, Expanded(view))
    BY <1>f
  <2>3. \A id \in DOMAIN new : new[id].deps \subseteq DOMAIN new
    BY <2>2, AdmittedFacts
  <2>4. QED
    BY <2>1, <2>3 DEF IsState
<1>s. /\ DOMAIN view.status = Ids(view) /\ view.status = [i \in Ids(view) |-> view.status[i]]
      /\ \A id \in Ids(view) :
            \/ id \in keep /\ view.status[id] = cp.status[id]
                  /\ (Settled(cp, id) \/ id \in Expanded(cp))
            \/ view.status[id] = "queued"
      /\ \A id \in keep : Settled(cp, id) \/ id \in Expanded(cp) => view.status[id] = cp.status[id]
  <2>1. view.status = [id \in Ids(view) |->
            IF id \in keep /\ (Settled(cp, id) \/ id \in Expanded(cp))
            THEN cp.status[id] ELSE "queued"]
    BY <1>k, <1>v DEF StartsFrom
  <2>2. QED
    BY <1>k, <2>1
<1>r. /\ DOMAIN view.era = Ids(view) /\ view.era = [i \in Ids(view) |-> view.era[i]]
      /\ \A id \in keep : view.era[id] = cp.era[id] /\ view.selected[id] = cp.selected[id]
      /\ \A id \in Ids(view) \ keep : view.era[id] = 0
      /\ view.selected = [i \in Ids(view) |-> view.selected[i]]
  <2>1. /\ view.selected = Merged(Restrict(cp.selected, keep), [id \in Ids(view) |-> {}])
        /\ view.era = Merged(Restrict(cp.era, keep), [id \in Ids(view) |-> 0])
    BY <1>k, <1>v DEF StartsFrom
  <2>2. keep \subseteq Ids(view)
    BY <1>k
  <2>3. /\ DOMAIN view.era = Ids(view) /\ view.era = [i \in DOMAIN view.era |-> view.era[i]]
        /\ \A id \in keep : view.era[id] = cp.era[id]
        /\ \A id \in Ids(view) \ keep : view.era[id] = 0
    BY <2>1, <2>2 DEF Merged, Restrict
  <2>4. /\ DOMAIN view.selected = Ids(view)
        /\ view.selected = [i \in DOMAIN view.selected |-> view.selected[i]]
        /\ \A id \in keep : view.selected[id] = cp.selected[id]
    BY <2>1, <2>2 DEF Merged, Restrict
  <2>5. QED
    BY <2>3, <2>4
<1>x. /\ Expanded(view) = Expanded(cp) \cap keep
      /\ \A p \in Expanded(view) : view.expansions[p] = cp.expansions[p]
      /\ DOMAIN view.parentOf = DOMAIN cp.parentOf \cap keep
  <2>1. /\ view.parentOf = Restrict(cp.parentOf, DOMAIN cp.parentOf \cap keep)
        /\ view.expansions = Restrict(cp.expansions, Expanded(cp) \cap keep)
    BY <1>v DEF StartsFrom
  <2>2. QED
    BY <2>1 DEF Expanded, Restrict
\* What a kept node waits for is kept.
<1>7. ASSUME NEW id \in keep, NEW d \in new[id].deps
      PROVE  d \in keep /\ d \in cp.spec[id].deps
  <2>1. d \in cp.spec[id].deps /\ d \in Ids(cp) /\ d \in DOMAIN new /\ d \in spec[id].deps
    BY <1>2, <1>6, <1>c, ZenonT(40)
  <2>2. d \notin D
    BY <1>2, <1>3, <1>6, <2>1
  <2>3. d \notin closure
    <3>1. d \in DOMAIN cp.parentOf => cp.parentOf[d] = id
      BY <1>5, <1>6, <2>1
    <3>2. QED
      BY <1>4, <1>6, <2>2, <3>1
  <2>4. QED
    BY <2>1, <2>3 DEF keep
<1>8. IsState(view, seen + 1)
  <2>1. view.status \in [Ids(view) -> Statuses]
    <3>1. \A id \in Ids(view) : view.status[id] \in Statuses
      BY <1>c, <1>k, <1>s, ZenonT(40) DEF Statuses
    <3>2. QED
      BY <1>s, <3>1
  <2>2. view.era \in [Ids(view) -> 0..(seen + 1)]
    <3>1. \A id \in keep : cp.era[id] \in 0..seen
      BY <1>c, <1>k
    <3>2. 0 \in 0..(seen + 1) /\ \A n \in 0..seen : n \in 0..(seen + 1)
      OBVIOUS
    <3>3. ASSUME NEW id \in Ids(view) PROVE view.era[id] \in 0..(seen + 1)
      <4>1. CASE id \in keep
        <5>1. view.era[id] = cp.era[id] /\ cp.era[id] \in 0..seen
          BY <1>r, <3>1, <4>1
        <5>2. QED
          BY <3>2, <5>1
      <4>2. CASE id \notin keep
        <5>1. view.era[id] = 0
          BY <1>r, <4>2
        <5>2. QED
          BY <3>2, <5>1
      <4>3. QED
        BY <4>1, <4>2
    <3>4. QED
      BY <1>r, <3>3
  <2>3. QED
    BY <1>2, <1>r, <1>f, <1>x, <2>1, <2>2 DEF IsState
<1>9. \A id \in keep : Settled(cp, id) => Settled(view, id)
  BY <1>s DEF Settled
\* Generated children of a kept parent are kept.
<1>10. ASSUME NEW p \in Expanded(view), NEW c \in view.expansions[p] \cap Ids(view)
       PROVE  c \in keep /\ c \in new[p].deps
  <2>1. p \in keep /\ p \in Expanded(cp) /\ c \in cp.expansions[p] /\ c \in DOMAIN spec
    BY <1>2, <1>k, <1>x
  <2>2. c \in DOMAIN cp.parentOf /\ cp.parentOf[c] = p /\ c \in Ids(cp)
    BY <1>5, <2>1
  <2>3. c \in cp.spec[p].deps
    BY <2>1, <2>2 DEF Fits, ExpansionHolds
  <2>4. c \notin patch.remove
    BY <1>2, <2>1
  <2>5. QED
    BY <1>6, <1>7, <2>1, <2>3, <2>4
<1>11. ASSUME NEW p \in Expanded(view) PROVE ExpansionHolds(view, p)
  <2>1. p \in keep /\ p \in Expanded(cp) /\ view.expansions[p] = cp.expansions[p]
        /\ ExpansionHolds(cp, p)
    BY <1>x DEF Fits
  <2>2. view.status[p] \in {"running", "completed", "failed"}
    BY <1>s, <2>1 DEF ExpansionHolds
  <2>3. \A c \in view.expansions[p] \cap Ids(view) : new[c].routes = {}
    <3>1. ASSUME NEW c \in view.expansions[p] \cap Ids(view) PROVE new[c].routes = {}
      <4>1. c \in keep
        BY <1>10, <3>1
      <4>2. new[c].routes = cp.spec[c].routes /\ c \in cp.expansions[p] \cap Ids(cp)
        BY <1>6, <2>1, <3>1, <4>1
      <4>3. QED
        BY <2>1, <4>2 DEF ExpansionHolds
    <3>2. QED
      BY <3>1
  <2>4. \A d \in new[p].deps : d \in view.expansions[p] \/ Settled(view, d)
    BY <1>7, <1>9, <2>1 DEF ExpansionHolds
  <2>5. p \in Ids(view) /\ new[p].dispatch = cp.spec[p].dispatch
    BY <1>6, <1>k, <2>1
  <2>6. QED
    <3>1. \A c \in view.expansions[p] \cap Ids(view) : c \in new[p].deps
      BY <1>10
    <3>2. IsFiniteSet(view.expansions[p]) /\ Cardinality(view.expansions[p]) <= new[p].dispatch
          /\ new[p].dispatch # 0
      BY <2>1, <2>5 DEF ExpansionHolds
    <3>3. /\ view.spec[p].dispatch # 0
          /\ Cardinality(view.expansions[p]) <= view.spec[p].dispatch
          /\ \A c \in view.expansions[p] \cap Ids(view) :
                c \in view.spec[p].deps /\ view.spec[c].routes = {}
          /\ \A d \in view.spec[p].deps : d \in view.expansions[p] \/ Settled(view, d)
      <4>1. /\ view.spec[p].dispatch # 0
            /\ Cardinality(view.expansions[p]) <= view.spec[p].dispatch
        BY <1>f, <3>2
      <4>2. \A c \in view.expansions[p] \cap Ids(view) :
                c \in view.spec[p].deps /\ view.spec[c].routes = {}
        BY <1>f, <2>3, <3>1, ZenonT(40)
      <4>3. \A d \in view.spec[p].deps : d \in view.expansions[p] \/ Settled(view, d)
        BY <1>f, <2>4
      <4>4. QED
        BY <4>1, <4>2, <4>3
    <3>4. QED
      BY <2>2, <2>5, <3>2, <3>3 DEF ExpansionHolds
<1>12. ASSUME NEW id \in Ids(view)
       PROVE  /\ view.status[id] = "running" => id \in Expanded(view)
              /\ view.status[id] = "skipped" => id \in view.skip
  <2>1. view.status[id] # "queued" => /\ id \in keep /\ view.status[id] = cp.status[id]
                                      /\ id \in Ids(cp)
    BY <1>k, <1>s
  <2>2. QED
    BY <1>f, <1>x, <2>1 DEF Fits
<1>13. ASSUME NEW id \in Ids(view), view.status[id] \in {"completed", "failed"},
              NEW d \in new[id].deps
       PROVE  Settled(view, d) /\ view.era[d] <= view.era[id]
  <2>1. id \in keep /\ cp.status[id] \in {"completed", "failed"} /\ id \in Ids(cp)
    BY <1>13, <1>k, <1>s, ZenonT(40)
  <2>2. d \in keep /\ d \in cp.spec[id].deps
    BY <1>7, <2>1
  <2>3. Settled(cp, d) /\ cp.era[d] <= cp.era[id]
    BY <2>1, <2>2 DEF Fits, Current
  <2>4. QED
    BY <1>9, <1>r, <2>1, <2>2, <2>3
<1>14. Fits(view)
  <2>1. Current(view)
    BY <1>13, <1>f, SMTT(20) DEF Current
  <2>2. QED
    BY <1>11, <1>12, <2>1 DEF Fits
<1>15. ASSUME NEW r \in Routers(view), NEW t \in LeftOut(view, r) \ SetFree(cp, closure)
       PROVE  t \in view.skip /\ view.status[t] \in {"queued", "skipped"}
  <2>1. r \in Ids(view) /\ new[r].routes # {}
    BY <1>f DEF Routers
  <2>2. r \in keep
    BY <1>15, <1>s, <1>f, <2>1 DEF LeftOut
  <2>3. r \in Routers(cp) /\ Targets(new[r]) = Targets(cp.spec[r])
    BY <1>6, <2>1, <2>2 DEF Routers, Targets
  <2>4. t \in LeftOut(cp, r)
    <3>1. view.selected[r] = cp.selected[r]
          /\ (view.status[r] = "completed" => cp.status[r] = "completed")
          /\ (r \in view.misrouted <=> r \in cp.misrouted)
      BY <1>f, <1>r, <1>s, <2>1, <2>2
    <3>2. QED
      BY <1>15, <1>f, <2>3, <3>1 DEF LeftOut
  <2>5. t \in Ids(cp) /\ t \in Ids(view)
    <3>1. t \in Targets(cp.spec[r])
      BY <2>4 DEF LeftOut
    <3>2. t \in Ids(cp)
      BY <2>3, <3>1, AdmittedFacts DEF Fits, Routers, Ids
    <3>3. t \in DOMAIN new
      <4>1. Admitted(new, Expanded(view))
        BY <1>f
      <4>2. t \in Targets(new[r]) /\ r \in DOMAIN new
        BY <1>k, <2>1, <2>3, <3>1
      <4>3. QED
        BY <2>1, <4>1, <4>2, AdmittedFacts
    <3>4. QED
      BY <1>k, <3>2, <3>3
  <2>6. t \in cp.skip /\ cp.status[t] \in {"queued", "skipped"}
    BY <2>3, <2>4, <2>5 DEF Loads, SkipsAgree
  <2>7. t \in keep
    <3>1. ASSUME t \notin keep PROVE FALSE
      <4>1. t \in closure
        BY <1>k, <2>5, <3>1 DEF keep
      <4>2. r \notin closure
        BY <1>6, <2>2
      <4>3. t \in SetFree(cp, closure)
        BY <2>3, <2>4, <2>6, <4>1, <4>2 DEF SetFree
      <4>4. QED
        BY <1>15, <4>3
    <3>2. QED
      BY <3>1
  <2>8. QED
    BY <1>s, <1>f, <2>5, <2>6, <2>7
<1>16. ASSUME StartHolds(view), NEW p \in Expanded(view)
       PROVE  view.expansions[p] \subseteq Ids(view)
  BY <1>16, <1>k, <1>x DEF StartHolds
<1>17. QED
  BY <1>8, <1>14, <1>15, <1>16 DEF LeftInv, Whole

-----------------------------------------------------------------------------
(* The invariant of a chain of reruns.                                     *)

Started == phase \notin {"submitted", "refused"}

RerunInv ==
    /\ reruns \in Nat
    /\ IsGraph(origin)
    /\ IsState(run, reruns) /\ IsState(ckpt, reruns)
    /\ ~Started => run = Fresh(origin) /\ ckpt = Fresh(origin)
    /\ Started => Admitted(origin, {}) /\ Fits(run) /\ Fits(ckpt)
    /\ phase = "running" => Whole(run)
    /\ LeftInv(run, released)

\* The state a first run starts from is in order.
LEMMA FreshFits ==
    ASSUME NEW spec, IsGraph(spec), NEW seen \in Nat
    PROVE  /\ IsState(Fresh(spec), seen)
           /\ LeftInv(Fresh(spec), {})
           /\ Current(Fresh(spec))
           /\ Admitted(spec, {}) => Fits(Fresh(spec)) /\ Whole(Fresh(spec))
<1> DEFINE s == Fresh(spec)
<1>1. /\ s = [field \in StateFields |-> s[field]] /\ s.spec = spec /\ Ids(s) = DOMAIN spec
      /\ s.status = [id \in DOMAIN spec |-> "queued"] /\ s.era = [id \in DOMAIN spec |-> 0]
      /\ s.selected = [id \in DOMAIN spec |-> {}] /\ s.misrouted = {}
      /\ s.expansions = <<>> /\ Expanded(s) = {}
  <2>1. DOMAIN <<>> = {}
    OBVIOUS
  <2>2. QED
    BY <2>1 DEF Fresh, StateFields, Ids, Expanded
<1> HIDE DEF s
<1>2. \A id \in Ids(s) : s.status[id] = "queued"
  BY <1>1
<1>3. IsState(s, seen)
  <2>1. "queued" \in Statuses /\ 0 \in 0..seen
    BY DEF Statuses
  <2>2. s.status \in [Ids(s) -> Statuses] /\ s.era \in [Ids(s) -> 0..seen]
    BY <1>1, <2>1
  <2>3. s.selected = [id \in Ids(s) |-> s.selected[id]]
    BY <1>1
  <2>4. QED
    BY <1>1, <2>2, <2>3 DEF IsState
<1>4. LeftInv(s, {})
  BY <1>1, <1>2 DEF LeftInv, LeftOut, Routers
<1>5. Current(s)
  BY <1>2 DEF Current
<1>6. Admitted(spec, {}) => Fits(s) /\ Whole(s)
  BY <1>1, <1>2, <1>5 DEF Fits, Whole
<1>7. QED
  BY <1>3, <1>4, <1>5, <1>6 DEF s

\* A later rerun is none of the earlier ones.
LEMMA StateLater ==
    ASSUME NEW s, NEW seen \in Nat, IsState(s, seen)
    PROVE  IsState(s, seen + 1)
<1>1. 0..seen \subseteq 0..(seen + 1)
  OBVIOUS
<1>2. s.era \in [Ids(s) -> 0..(seen + 1)]
  BY <1>1 DEF IsState
<1>3. QED
  BY <1>2 DEF IsState

\* The keys a result dispatcher returns make a list of sends.
LEMMA KeysMakeSends ==
    ASSUME NEW keys, IsList(keys)
    PROVE  IsList([i \in DOMAIN keys |-> [key |-> keys[i], contract |-> "complete"]])
<1> DEFINE n == Len(keys)
           sends == [i \in 1..n |-> [key |-> keys[i], contract |-> "complete"]]
           S == {[key |-> keys[i], contract |-> "complete"] : i \in 1..n}
<1>1. n \in Nat /\ DOMAIN keys = 1..n
  BY ListFacts
<1>2. sends \in Seq(S)
  BY <1>1
<1>3. Len(sends) = n
  BY <1>1, <1>2
<1>4. sends = [i \in 1..Len(sends) |-> sends[i]]
  BY <1>3
<1>5. QED
  BY <1>1, <1>3, <1>4 DEF IsList

\* What a node fans out to is a list of sends, declared or returned.
LEMMA SendsAreLists ==
    ASSUME NEW id \in Ids(run), IsGraph(run.spec), NEW sends \in SendsOf(id)
    PROVE  IsList(sends)
<1>1. CASE run.spec[id].fanOut = "sends"
  <2>1. sends = run.spec[id].sends /\ IsNode(run.spec[id])
    BY <1>1 DEF SendsOf, IsGraph, Ids
  <2>2. QED
    BY <2>1 DEF IsNode
<1>2. CASE run.spec[id].fanOut # "sends"
  <2>1. PICK keys \in KeyLists :
           sends = [i \in DOMAIN keys |-> [key |-> keys[i], contract |-> "complete"]]
    BY <1>2 DEF SendsOf
  <2>2. IsList(keys)
    BY RerunAssumption
  <2>3. QED
    BY <2>1, <2>2, KeysMakeSends
<1>3. QED
  BY <1>1, <1>2

\* Nothing has been run yet.
LEMMA RerunInit == Init => RerunInv
<1> SUFFICES ASSUME Init PROVE RerunInv
  OBVIOUS
<1>1. IsGraph(origin)
  <2>1. CASE submitted.workflow
    <3>1. submitted.graph \in Workflows /\ origin = Compile(submitted.graph)
      BY <2>1 DEF Init
    <3>2. QED
      BY <3>1, RerunAssumption, CompileFacts
  <2>2. CASE ~submitted.workflow
    BY <2>2, RerunAssumption DEF Init
  <2>3. QED
    BY <2>1, <2>2
<1>2. /\ reruns = 0 /\ run = Fresh(origin) /\ ckpt = Fresh(origin)
      /\ phase = "submitted" /\ released = {}
  BY DEF Init
<1>3. IsState(Fresh(origin), 0) /\ LeftInv(Fresh(origin), {})
  BY <1>1, FreshFits
<1>4. QED
  BY <1>1, <1>2, <1>3 DEF RerunInv, Started

\* Submitting a workflow keeps the invariant.
LEMMA SubmitKeeps == RerunInv /\ Submit => RerunInv'
<1> SUFFICES ASSUME RerunInv, Submit PROVE RerunInv'
  OBVIOUS
<1>1. /\ ~Started /\ UNCHANGED <<origin, run, ckpt, reruns, released>>
      /\ phase' \in {"refused", "running", "admitted"}
      /\ phase' # "refused" => Admitted(origin, {})
  BY DEF Submit, Started
<1>2. run = Fresh(origin) /\ ckpt = Fresh(origin) /\ IsGraph(origin) /\ reruns \in Nat
  BY <1>1 DEF RerunInv
<1>3. Admitted(origin, {}) => Fits(Fresh(origin)) /\ Whole(Fresh(origin))
  BY <1>2, FreshFits
<1>4. phase' # "refused" => Fits(run) /\ Fits(ckpt) /\ Whole(run)
  BY <1>1, <1>2, <1>3
<1>5. run' = run /\ ckpt' = ckpt /\ origin' = origin /\ reruns' = reruns /\ released' = released
  BY <1>1
<1>6. QED
  BY <1>1, <1>2, <1>4, <1>5 DEF RerunInv, Started

\* The end of a run, and a stutter, keep the invariant.
LEMMA OverKeeps == RerunInv /\ (Over \/ UNCHANGED vars) => RerunInv'
<1> SUFFICES ASSUME RerunInv, Over \/ UNCHANGED vars PROVE RerunInv'
  OBVIOUS
<1>1. /\ UNCHANGED <<origin, run, ckpt, reruns, released>>
      /\ phase' = phase \/ (phase = "running" /\ phase' = "over")
  BY DEF Over, vars
<1>2. run' = run /\ ckpt' = ckpt /\ origin' = origin /\ reruns' = reruns /\ released' = released
  BY <1>1
<1>3. QED
  BY <1>1, <1>2 DEF RerunInv, Started

\* What an action of the executor has to show.
LEMMA EmitKeeps ==
    ASSUME RerunInv, phase = "running", NEW t, Emit(t),
           IsState(t, reruns), Fits(t), Whole(t), LeftInv(t, released)
    PROVE  RerunInv'
<1>1. /\ run' = t /\ ckpt' = t /\ origin' = origin /\ reruns' = reruns /\ released' = released
      /\ phase' = "running"
  BY DEF Emit
<1>2. IsState(run', reruns) /\ Fits(run') /\ Whole(run') /\ LeftInv(run', released)
      /\ IsState(ckpt', reruns) /\ Fits(ckpt')
  BY <1>1
<1>3. Started
  BY DEF Started
<1>4. QED
  BY <1>1, <1>2, <1>3 DEF RerunInv, Started

\* A node of the run that settles keeps the invariant.
LEMMA SettlingKeeps ==
    ASSUME RerunInv, phase = "running", NEW id \in Ids(run), NEW outcome \in Terminal,
           ~Settled(run, id), Emit(Ends(id, outcome)),
           outcome # "skipped" => /\ \A d \in run.spec[id].deps : Settled(run, d)
                                  /\ id \notin run.skip \/ run.status[id] = "running",
           outcome = "skipped" => id \in run.skip /\ id \notin Expanded(run),
           id \in Routers(run) => outcome # "completed"
    PROVE  RerunInv'
<1> DEFINE t == Ends(id, outcome)
<1>1. Fits(run) /\ Whole(run) /\ LeftInv(run, released) /\ IsState(run, reruns) /\ reruns \in Nat
  BY DEF RerunInv, Started
<1>2. /\ t = [field \in StateFields |-> t[field]]
      /\ t.spec = run.spec /\ t.expansions = run.expansions /\ t.skip = run.skip
      /\ t.misrouted = run.misrouted /\ t.selected = run.selected
      /\ t.status = [run.status EXCEPT ![id] = outcome]
      /\ t.era = [run.era EXCEPT ![id] = reruns]
  BY <1>1 DEF Ends, IsState, StateFields
<1> HIDE DEF t
<1>3. t.selected = [i \in Ids(run) |-> t.selected[i]] /\ DOMAIN run.status = Ids(run)
  BY <1>1, <1>2 DEF IsState
<1>4. IsState(t, reruns) /\ Fits(t)
  BY <1>1, <1>2, <1>3, SettlingFits
<1>5. Whole(t)
  BY <1>1, <1>2 DEF Whole, Expanded, Ids
<1>6. LeftInv(t, released)
  <2>1. Settles(run, id, outcome, t)
    BY <1>2, <1>3 DEF Settles
  <2>2. QED
    BY <1>1, <2>1, LeftOutWhileSettling
<1>7. Emit(t)
  BY DEF t
<1>8. QED
  BY <1>4, <1>5, <1>6, <1>7, EmitKeeps

\* A router that has decided is settled, and what it leaves out is marked.
LEMMA RoutingKeeps ==
    ASSUME RerunInv, phase = "running", NEW id \in Ids(run), RouterDecides(id)
    PROVE  RerunInv'
<1>1. Fits(run) /\ Whole(run) /\ LeftInv(run, released) /\ IsState(run, reruns) /\ reruns \in Nat
      /\ IsGraph(run.spec)
  BY DEF RerunInv, Started, IsState
<1>2. /\ run.status[id] = "queued" /\ id \notin run.skip /\ id \in Routers(run)
      /\ \A d \in run.spec[id].deps : Settled(run, d)
      /\ ~Settled(run, id)
  BY DEF RouterDecides, Ready, Settled, Terminal
<1>3. /\ run.status \in [Ids(run) -> Statuses] /\ DOMAIN run.selected = Ids(run)
      /\ run.selected = [i \in Ids(run) |-> run.selected[i]]
  BY <1>1 DEF IsState
<1>x. PICK outcome \in {"completed", "failed"} : \E chosen, targets, t :
         /\ Emit(t)
         /\ t = Skipping(IF outcome = "completed"
                         THEN [Ends(id, "completed") EXCEPT !.selected[id] = chosen]
                         ELSE [Ends(id, "failed") EXCEPT !.misrouted = @ \cup {id}], targets)
         /\ targets = IF outcome = "completed" THEN Targets(run.spec[id]) \ chosen
                      ELSE Targets(run.spec[id])
  BY DEF RouterDecides
<1>4. PICK chosen, targets, t :
         /\ Emit(t)
         /\ t = Skipping(IF outcome = "completed"
                         THEN [Ends(id, "completed") EXCEPT !.selected[id] = chosen]
                         ELSE [Ends(id, "failed") EXCEPT !.misrouted = @ \cup {id}], targets)
         /\ targets = IF outcome = "completed" THEN Targets(run.spec[id]) \ chosen
                      ELSE Targets(run.spec[id])
  BY <1>x
<1>5. /\ t = [field \in StateFields |-> t[field]]
      /\ t.spec = run.spec /\ t.expansions = run.expansions
      /\ t.status = [run.status EXCEPT ![id] = outcome]
      /\ t.era = [run.era EXCEPT ![id] = reruns]
      /\ t.skip = run.skip \cup {x \in targets : ~Settled(t, x)}
      /\ t.misrouted = IF outcome = "completed" THEN run.misrouted ELSE run.misrouted \cup {id}
      /\ t.selected = IF outcome = "completed" THEN [run.selected EXCEPT ![id] = chosen]
                      ELSE run.selected
  BY <1>1, <1>4 DEF Skipping, Ends, IsState, StateFields, Settled
<1>6. t.selected = [i \in Ids(run) |-> t.selected[i]]
  BY <1>3, <1>5
<1>7. outcome \in Terminal /\ outcome # "skipped" /\ run.skip \subseteq t.skip
  BY <1>5 DEF Terminal
<1>8. IsState(t, reruns) /\ Fits(t)
  BY <1>1, <1>2, <1>5, <1>6, <1>7, SettlingFits
<1>9. Whole(t)
  BY <1>1, <1>5 DEF Whole, Expanded, Ids
<1>10. Decides(run, id, targets, t)
  BY <1>2, <1>3, <1>4, <1>5 DEF Decides
<1>11. LeftInv(t, released)
  BY <1>1, <1>10, LeftOutWhenDecided
<1>12. QED
  BY <1>4, <1>8, <1>9, <1>11, EmitKeeps

\* Fanning out keeps the state in order: admission is asked again.
LEMMA FanningOutKeeps ==
    ASSUME RerunInv, phase = "running", NEW id \in Ids(run), NodeExpands(id)
    PROVE  RerunInv'
<1>1. Fits(run) /\ Whole(run) /\ LeftInv(run, released) /\ IsState(run, reruns) /\ reruns \in Nat
      /\ IsGraph(run.spec)
  BY DEF RerunInv, Started, IsState
<1>2. /\ run.status[id] = "queued" /\ id \notin run.skip /\ id \notin Expanded(run)
      /\ run.spec[id].dispatch # 0
      /\ \A d \in run.spec[id].deps : Settled(run, d)
  BY DEF NodeExpands, Ready, IsDispatch
<1>3. PICK sends \in SendsOf(id) :
         LET kids == Kids(id, sends)
             spec == Expand(run.spec, id, kids)
         IN  /\ Len(sends) <= run.spec[id].dispatch
             /\ kids \cap Ids(run) = {}
             /\ Admitted(spec, Expanded(run) \cup {id})
             /\ Emit([run EXCEPT
                   !.spec = spec,
                   !.status = Merged([@ EXCEPT ![id] = "running"], [c \in kids |-> "queued"]),
                   !.selected = Merged(@, [c \in kids |-> {}]),
                   !.parentOf = Merged(@, [c \in kids |-> id]),
                   !.expansions = Merged(@, [p \in {id} |-> kids]),
                   !.era = Merged(@, [c \in kids |-> reruns])])
  BY DEF NodeExpands
<1>4. IsList(sends)
  BY <1>1, <1>3, SendsAreLists
<1> DEFINE kids == Kids(id, sends)
           t == [run EXCEPT
                   !.spec = Expand(run.spec, id, kids),
                   !.status = Merged([@ EXCEPT ![id] = "running"], [c \in kids |-> "queued"]),
                   !.selected = Merged(@, [c \in kids |-> {}]),
                   !.parentOf = Merged(@, [c \in kids |-> id]),
                   !.expansions = Merged(@, [p \in {id} |-> kids]),
                   !.era = Merged(@, [c \in kids |-> reruns])]
<1>5. /\ Emit(t) /\ kids \cap Ids(run) = {}
      /\ Admitted(Expand(run.spec, id, kids), Expanded(run) \cup {id})
  BY <1>3
<1>6. IsFiniteSet(kids) /\ Cardinality(kids) <= run.spec[id].dispatch
  <2>1. /\ IsFiniteSet(kids) /\ Cardinality(kids) \in Nat /\ Cardinality(kids) <= Len(sends)
    BY <1>4, KidsAreFew
  <2>2. Len(sends) \in Nat /\ run.spec[id].dispatch \in Nat
    BY <1>1, <1>4 DEF IsList, IsGraph, IsNode, Ids
  <2>3. QED
    BY <1>3, <2>1, <2>2
<1> HIDE DEF kids
<1>7. /\ t = [field \in StateFields |-> t[field]]
      /\ t.spec = Expand(run.spec, id, kids) /\ t.skip = run.skip /\ t.misrouted = run.misrouted
      /\ t.status = Merged([run.status EXCEPT ![id] = "running"], [c \in kids |-> "queued"])
      /\ t.selected = Merged(run.selected, [c \in kids |-> {}])
      /\ t.expansions = Merged(run.expansions, [p \in {id} |-> kids])
      /\ t.era = Merged(run.era, [c \in kids |-> reruns])
  BY <1>1 DEF IsState, StateFields
<1> HIDE DEF t
<1>8. FansOut(run, id, kids, t)
  BY <1>2, <1>5, <1>6, <1>7 DEF FansOut
<1>9. IsState(t, reruns) /\ Fits(t) /\ Whole(t)
  <2>1. Admitted(t.spec, Expanded(run) \cup {id})
    BY <1>5, <1>7
  <2>2. t.era = Merged(run.era, [c \in kids |-> reruns])
    BY <1>7
  <2>3. QED
    BY <1>1, <1>8, <2>1, <2>2, ExpandingFits
<1>10. LeftInv(t, released)
  <2>1. DOMAIN run.status = Ids(run) /\ DOMAIN run.selected = Ids(run)
    BY <1>1 DEF IsState
  <2>2. QED
    BY <1>1, <1>8, <2>1, LeftOutWhenExpanding
<1>11. QED
  BY <1>5, <1>9, <1>10, EmitKeeps

\* Every step of a run keeps the invariant.
LEMMA ExecuteKeeps == RerunInv /\ Execute => RerunInv'
<1> SUFFICES ASSUME RerunInv, Execute PROVE RerunInv'
  OBVIOUS
<1>1. phase = "running" /\ Fits(run)
  BY DEF Execute, RerunInv, Started
<1>2. PICK id \in Ids(run) :
         \/ SettleSkipped(id) \/ SettleParent(id) \/ NodeFails(id)
         \/ NodeCompletes(id) \/ RouterDecides(id) \/ NodeExpands(id)
  BY DEF Execute
<1>3. CASE SettleSkipped(id)
  <2>1. id \in run.skip /\ run.status[id] = "queued" /\ Emit(Ends(id, "skipped"))
    BY <1>3 DEF SettleSkipped
  <2>2. ~Settled(run, id) /\ id \notin Expanded(run)
    BY <1>1, <2>1 DEF Settled, Terminal, Fits, ExpansionHolds
  <2>3. "skipped" \in Terminal
    BY DEF Terminal
  <2>4. QED
    BY <1>1, <2>1, <2>2, <2>3, SettlingKeeps
<1>4. CASE SettleParent(id)
  <2> DEFINE outcome == IF \A c \in run.expansions[id] : run.status[c] = "completed"
                        THEN "completed" ELSE "failed"
  <2>1. /\ id \in Expanded(run) /\ ~Settled(run, id) /\ Emit(Ends(id, outcome))
        /\ \A c \in run.expansions[id] : Settled(run, c)
    BY <1>4 DEF SettleParent
  <2>2. outcome \in Terminal /\ outcome # "skipped"
    BY DEF Terminal
  <2> HIDE DEF outcome
  <2>3. /\ \A d \in run.spec[id].deps : Settled(run, d)
        /\ run.status[id] = "running"
        /\ id \notin Routers(run)
    <3>1. ExpansionHolds(run, id)
      BY <1>1, <2>1 DEF Fits
    <3>2. id \notin Routers(run)
      BY <1>1, <3>1, AdmittedFacts DEF Fits, Routers, Ids, ExpansionHolds
    <3>3. QED
      BY <2>1, <3>1, <3>2 DEF ExpansionHolds, Settled, Terminal
  <2>4. QED
    BY <1>1, <2>1, <2>2, <2>3, SettlingKeeps
<1>5. CASE NodeFails(id) \/ NodeCompletes(id)
  <2>1. PICK outcome \in {"completed", "failed"} :
           /\ Ready(id) /\ Emit(Ends(id, outcome))
           /\ id \in Routers(run) => outcome # "completed"
    BY <1>5 DEF NodeFails, NodeCompletes
  <2>2. /\ ~Settled(run, id) /\ id \notin run.skip
        /\ \A d \in run.spec[id].deps : Settled(run, d)
    BY <2>1 DEF Ready, Settled, Terminal
  <2>3. outcome \in Terminal /\ outcome # "skipped"
    BY DEF Terminal
  <2>4. QED
    BY <1>1, <2>1, <2>2, <2>3, SettlingKeeps
<1>6. CASE RouterDecides(id)
  BY <1>1, <1>6, RoutingKeeps
<1>7. CASE NodeExpands(id)
  BY <1>1, <1>7, FanningOutKeeps
<1>8. QED
  BY <1>2, <1>3, <1>4, <1>5, <1>6, <1>7

\* A rerun keeps the invariant.
LEMMA CallRerunKeeps == RerunInv /\ CallRerun => RerunInv'
<1> SUFFICES ASSUME RerunInv, CallRerun PROVE RerunInv'
  OBVIOUS
<1>1. PICK named \in {{}} \cup {{id} : id \in Ids(ckpt)}, request \in Requests :
         Rerun(named, request.inject, request.patch)
  BY DEF CallRerun
<1> DEFINE inject == request.inject
           patch == request.patch
           spec == Patched(ckpt.spec, patch)
           closure == Closure(ckpt, spec, named, patch)
           new == Injected(spec, inject \cap closure)
           view == View(ckpt, new, closure)
<1>2. /\ PatchApplies(ckpt.spec, patch) /\ Admitted(view.spec, Expanded(view))
      /\ phase' = IF StartHolds(view) THEN "running" ELSE "thrown"
      /\ run' = view /\ ckpt' = ckpt /\ origin' = origin
      /\ released' = SetFree(ckpt, closure) /\ reruns' = reruns + 1
  BY <1>1 DEF Rerun
<1>3. /\ IsGraph(patch.add) /\ \A id \in DOMAIN patch.modify : IsOverride(patch.modify[id])
  BY RerunAssumption
<1>4. /\ reruns \in Nat /\ IsGraph(origin) /\ Admitted(origin, {})
      /\ IsState(ckpt, reruns) /\ Fits(ckpt) /\ Loads(ckpt)
  BY DEF CallRerun, RerunInv, Started
<1> HIDE DEF patch, inject
<1>5. Repeats(ckpt, named, inject, patch, spec, closure, new, view)
  BY <1>2, <1>3 DEF Repeats
<1> HIDE DEF spec, closure, new, view
<1>6. /\ IsState(view, reruns + 1) /\ Fits(view)
      /\ LeftInv(view, SetFree(ckpt, closure))
      /\ StartHolds(view) => Whole(view)
  BY <1>4, <1>5, RerunFits
<1>7. IsState(ckpt, reruns + 1)
  BY <1>4, StateLater
<1>8. /\ IsState(run', reruns + 1) /\ Fits(run') /\ LeftInv(run', released')
      /\ phase' = "running" => Whole(run')
  BY <1>2, <1>6
<1>9. IsState(ckpt', reruns + 1) /\ Fits(ckpt') /\ phase' \in {"running", "thrown"}
  BY <1>2, <1>4, <1>7
<1>10. QED
  BY <1>2, <1>4, <1>8, <1>9 DEF RerunInv, Started

\* The invariant holds of every chain of reruns.
THEOREM RerunInvariant == Spec => []RerunInv
<1>1. Init => RerunInv
  BY RerunInit
<1>2. RerunInv /\ [Next]_vars => RerunInv'
  BY SubmitKeeps, ExecuteKeeps, OverKeeps, CallRerunKeeps DEF Next
<1>3. QED
  BY <1>1, <1>2, PTL DEF Spec

\* A graph that runs, as it was admitted, expanded or patched, has a node to
\* start with in every set of nodes, routers that are plain and choose among
\* their dependents, and no more generated work than its dispatch nodes allow.
THEOREM GraphsFitScheduler == Spec => []AdmittedGraphsFitScheduler
<1>1. RerunInv => AdmittedGraphsFitScheduler
  <2> SUFFICES ASSUME RerunInv, Started PROVE AdmittedGraphsFitScheduler
    BY DEF AdmittedGraphsFitScheduler, Started
  <2>1. Fits(run) /\ IsFiniteSet(DOMAIN run.spec) /\ Admitted(run.spec, Expanded(run))
    BY DEF RerunInv, IsState, IsGraph, Fits
  <2>2. /\ Reached(run.spec) = DOMAIN run.spec
        /\ \A id \in DOMAIN run.spec :
              /\ run.spec[id].deps \subseteq DOMAIN run.spec
              /\ run.spec[id].routes # {} =>
                   /\ run.spec[id].dispatch = 0 /\ run.spec[id].fanOut = "none"
                   /\ \A t \in Targets(run.spec[id]) :
                         t \in DOMAIN run.spec /\ id \in run.spec[t].deps
    BY <2>1, AdmittedFacts
  <2>3. ASSUME NEW some \in (SUBSET Ids(run)) \ {{}}
        PROVE  \E id \in some : run.spec[id].deps \cap some = {}
    <3>1. some \in SUBSET DOMAIN run.spec /\ some # {}
      BY DEF Ids
    <3>2. QED
      BY <2>1, <2>2, <3>1, SourcesExist
  <2>4. \A p \in Expanded(run) : Cardinality(run.expansions[p]) <= run.spec[p].dispatch
    BY <2>1 DEF Fits, ExpansionHolds
  <2>5. QED
    BY <2>2, <2>3, <2>4 DEF AdmittedGraphsFitScheduler, Routers, Ids
<1>2. QED
  BY <1>1, RerunInvariant, PTL

\* A rerun keeps no result that was computed from something it repeats, and
\* none that is older than what it was computed from.
THEOREM ReuseCurrent == Spec => []ReuseIsCurrent
<1>1. RerunInv => ReuseIsCurrent
  <2> SUFFICES ASSUME RerunInv PROVE Current(run)
    BY DEF ReuseIsCurrent, Current
  <2>1. CASE Started
    BY <2>1 DEF RerunInv, Fits
  <2>2. CASE ~Started
    BY <2>2, FreshFits DEF RerunInv
  <2>3. QED
    BY <2>1, <2>2
<1>2. QED
  BY <1>1, RerunInvariant, PTL

\* What a router left out does not run, in no rerun that keeps the decision.
THEOREM LeftOutStays == Spec => []LeftOutStaysOut
<1>1. RerunInv => LeftOutStaysOut
  BY DEF RerunInv, LeftInv, LeftOutStaysOut
<1>2. QED
  BY <1>1, RerunInvariant, PTL

\* What a refused submission was, and what a workflow was compiled to.
WorkflowInv ==
    /\ submitted.workflow => /\ submitted.graph \in Workflows
                             /\ ValidWorkflow(submitted.graph)
                             /\ origin = Compile(submitted.graph)
    /\ phase = "refused" => origin = <<>> \/ ~Admitted(origin, {})

\* A workflow that validates is let in as the graph it compiles to, whatever its
\* kind, exactly if no task declares an output and every role and resource scope
\* can be resolved.
THEOREM ValidAdmitted == Spec => []ValidWorkflowsAdmitted
<1>1. Init => WorkflowInv
  BY DEF Init, WorkflowInv
<1>2. WorkflowInv /\ [Next]_vars => WorkflowInv'
  <2> SUFFICES ASSUME WorkflowInv, [Next]_vars PROVE WorkflowInv'
    OBVIOUS
  <2>1. submitted' = submitted /\ origin' = origin
    BY DEF Next, Submit, Execute, Over, CallRerun, Rerun, Emit, SettleSkipped, SettleParent,
           NodeFails, NodeCompletes, RouterDecides, NodeExpands, vars
  <2>2. phase' = "refused" => phase = "refused" \/ Submit
    BY DEF Next, Submit, Execute, Over, CallRerun, Rerun, Emit, SettleSkipped, SettleParent,
           NodeFails, NodeCompletes, RouterDecides, NodeExpands, vars
  <2>3. phase' = "refused" => origin = <<>> \/ ~Admitted(origin, {})
    BY <2>2 DEF Submit, WorkflowInv
  <2>4. QED
    BY <2>1, <2>3 DEF WorkflowInv
<1>3. RerunInv /\ WorkflowInv => ValidWorkflowsAdmitted
  <2> DEFINE wf == submitted.graph
  <2> SUFFICES ASSUME RerunInv, WorkflowInv, submitted.workflow, phase # "submitted"
               PROVE  phase = "refused" <=> Objectionable(wf)
    BY DEF ValidWorkflowsAdmitted, Objectionable
  <2>1. IsWorkflow(wf) /\ ValidWorkflow(wf) /\ origin = Compile(wf)
    BY RerunAssumption DEF WorkflowInv
  <2> HIDE DEF wf
  <2>2. ASSUME phase = "refused", ~Objectionable(wf) PROVE FALSE
    <3>1. Compile(wf) # <<>> /\ Admitted(Compile(wf), {})
      BY <2>1, <2>2, ValidCompiles
    <3>2. QED
      BY <2>1, <2>2, <3>1 DEF WorkflowInv
  <2>3. ASSUME phase # "refused", Objectionable(wf) PROVE FALSE
    <3>1. ~Admitted(Compile(wf), {})
      BY <2>1, <2>3, ObjectionableRefused
    <3>2. Admitted(origin, {})
      BY <2>3 DEF RerunInv, Started
    <3>3. QED
      BY <2>1, <3>1, <3>2
  <2>4. QED
    BY <2>2, <2>3
<1>4. QED
  BY <1>1, <1>2, <1>3, RerunInvariant, PTL DEF Spec

-----------------------------------------------------------------------------
(* What a plain chain of reruns leaves can be read.                        *)

\* The facts the reader checks about the graph, in the form they are kept in.
Rebuildable(s) ==
    /\ Recorded(s)
    /\ Grown(s.spec, s.expansions, Expanded(s))
    /\ \A p \in Expanded(s) :
          /\ origin[p].dispatch # 0
          /\ Cardinality(s.expansions[p]) <= origin[p].dispatch
          /\ origin[p].fanOut = "sends" => s.expansions[p] = Kids(p, origin[p].sends)
    /\ DOMAIN s.parentOf = Family(s.expansions, Expanded(s))
    /\ \A p \in Expanded(s) : \A c \in s.expansions[p] : s.parentOf[c] = p

\* What the reader asks of the graph and of who generated whom is just that, in
\* whichever order the expansions are replayed.
LEMMA ReadsGraph ==
    ASSUME NEW s, IsGraph(origin), Admitted(origin, {}),
           \A p \in Expanded(s) : IsFiniteSet(s.expansions[p])
    PROVE  Rebuilds(s) <=> Rebuildable(s)
<1>1. ASSUME Rebuilds(s) PROVE Rebuildable(s)
  <2>1. Recorded(s)
    BY <1>1 DEF Rebuilds, Recorded
  <2>2. Grown(s.spec, s.expansions, Expanded(s))
    BY <1>1, <2>1, RebuiltIsGrown DEF Rebuilds
  <2>3. QED
    BY <1>1, <2>1, <2>2 DEF Rebuilds, Rebuildable, Family
<1>2. ASSUME Rebuildable(s) PROVE Rebuilds(s)
  <2>1. Recorded(s) /\ Grown(s.spec, s.expansions, Expanded(s))
    BY <1>2 DEF Rebuildable
  <2>2. Grown(Rebuilt(s), s.expansions, Expanded(s))
    BY <2>1, RebuiltIsGrown
  <2>3. s.spec = Rebuilt(s)
    BY <2>1, <2>2, GrownIsOne
  <2>4. QED
    BY <1>2, <2>1, <2>3 DEF Rebuilds, Rebuildable, Recorded, Family
<1>3. QED
  BY <1>1, <1>2

\* A parent stands in the submitted graph and is no child.
LEMMA ChildrenAreNoParents ==
    ASSUME NEW s, Rebuildable(s)
    PROVE  \A p \in Expanded(s) : s.expansions[p] \cap Expanded(s) = {}
BY DEF Rebuildable, Recorded

\* A node that settles as its children do leaves the joins as they should be.
LEMMA SettlingJoins ==
    ASSUME NEW s, Rebuildable(s), JoinsAgree(s), DOMAIN s.status = Ids(s), Whole(s),
           NEW id \in Ids(s), NEW outcome \in Terminal, NEW t, ~Settled(s, id),
           t.spec = s.spec, t.expansions = s.expansions,
           t.status = [s.status EXCEPT ![id] = outcome],
           id \in Expanded(s) =>
              /\ \A c \in s.expansions[id] : Settled(s, c)
              /\ outcome = IF \A c \in s.expansions[id] : s.status[c] = "completed"
                           THEN "completed" ELSE "failed"
    PROVE  JoinsAgree(t)
<1>1. /\ Ids(t) = Ids(s) /\ Expanded(t) = Expanded(s)
      /\ \A i \in Ids(s) : t.status[i] = IF i = id THEN outcome ELSE s.status[i]
  BY DEF Ids, Expanded
<1>2. JoinsAgree(t)
  <2> SUFFICES ASSUME NEW p \in Expanded(s)
               PROVE  LET allCompleted == \A c \in s.expansions[p] : t.status[c] = "completed"
                      IN  /\ t.status[p] # "skipped"
                          /\ Settled(t, p) => \A c \in s.expansions[p] : Settled(t, c)
                          /\ t.status[p] = "completed" => allCompleted
                          /\ t.status[p] = "failed" => ~allCompleted
    BY <1>1 DEF JoinsAgree
  <2>1. /\ s.expansions[p] \cap Expanded(s) = {} /\ s.expansions[p] \subseteq Ids(s)
        /\ p \in Ids(s) /\ p \notin s.expansions[p]
    <3>1. p \in Ids(s)
      BY DEF Rebuildable, Recorded, Grown, Ids
    <3>2. QED
      BY <3>1, ChildrenAreNoParents DEF Whole
  <2>2. /\ s.status[p] # "skipped"
        /\ Settled(s, p) => \A c \in s.expansions[p] : Settled(s, c)
        /\ s.status[p] = "completed" => \A c \in s.expansions[p] : s.status[c] = "completed"
        /\ s.status[p] = "failed" => ~(\A c \in s.expansions[p] : s.status[c] = "completed")
    BY DEF JoinsAgree
  <2>3. CASE p = id
    <3>1. \A c \in s.expansions[p] : t.status[c] = s.status[c]
      BY <1>1, <2>1, <2>3
    <3>2. t.status[p] = outcome
      BY <1>1, <2>3
    <3>3. QED
      BY <2>3, <3>1, <3>2 DEF Settled, Terminal
  <2>4. CASE p # id /\ id \in s.expansions[p]
    <3>1. ~Settled(s, p)
      BY <2>2, <2>4
    <3>2. t.status[p] = s.status[p]
      BY <1>1, <2>1, <2>4
    <3>3. QED
      BY <2>2, <3>1, <3>2 DEF Settled, Terminal
  <2>5. CASE p # id /\ id \notin s.expansions[p]
    <3>1. t.status[p] = s.status[p] /\ \A c \in s.expansions[p] : t.status[c] = s.status[c]
      BY <1>1, <2>1, <2>5
    <3>2. QED
      BY <2>2, <3>1 DEF Settled
  <2>6. QED
    BY <2>3, <2>4, <2>5
<1>3. QED
  BY <1>2

\* A node that settles leaves a state that can be read.
LEMMA SettlingLoads ==
    ASSUME NEW s, Rebuildable(s), JoinsAgree(s), SkipsAgree(s),
           DOMAIN s.status = Ids(s), Whole(s),
           NEW id \in Ids(s), NEW outcome \in Terminal, NEW t, ~Settled(s, id),
           t.spec = s.spec, t.expansions = s.expansions, t.parentOf = s.parentOf,
           t.skip = s.skip, t.misrouted = s.misrouted, t.selected = s.selected,
           t.status = [s.status EXCEPT ![id] = outcome],
           id \in Expanded(s) =>
              /\ \A c \in s.expansions[id] : Settled(s, c)
              /\ outcome = IF \A c \in s.expansions[id] : s.status[c] = "completed"
                           THEN "completed" ELSE "failed",
           id \in Routers(s) => outcome # "completed",
           outcome = "skipped" <=> id \in s.skip
    PROVE  Rebuildable(t) /\ JoinsAgree(t) /\ SkipsAgree(t)
<1>1. /\ Ids(t) = Ids(s) /\ Expanded(t) = Expanded(s) /\ Routers(t) = Routers(s)
      /\ \A i \in Ids(s) : t.status[i] = IF i = id THEN outcome ELSE s.status[i]
  BY DEF Ids, Expanded, Routers
<1>2. Rebuildable(t)
  BY <1>1 DEF Rebuildable, Recorded
<1>3. JoinsAgree(t)
  BY SettlingJoins
<1>4. SkipsAgree(t)
  <2>1. \A r \in Routers(s) : LeftOut(t, r) = LeftOut(s, r)
    <3>1. ASSUME NEW r \in Routers(s) PROVE LeftOut(t, r) = LeftOut(s, r)
      <4>1. r \in Ids(s)
        BY DEF Routers
      <4>2. t.status[r] = "completed" <=> s.status[r] = "completed"
        BY <1>1, <3>1, <4>1 DEF Settled, Terminal
      <4>3. QED
        BY <4>2 DEF LeftOut
    <3>2. QED
      BY <3>1
  <2>2. \A r \in Routers(t) : t.status[r] = "completed" => t.selected[r] \in t.spec[r].routes
    <3>1. \A r \in Routers(s) : t.status[r] = "completed" => s.status[r] = "completed"
      BY <1>1 DEF Routers
    <3>2. QED
      BY <1>1, <3>1 DEF SkipsAgree
  <2>3. t.skip = UNION {LeftOut(t, r) : r \in Routers(t)}
    BY <1>1, <2>1 DEF SkipsAgree
  <2>4. \A i \in Ids(t) : /\ t.status[i] = "skipped" => i \in t.skip
                          /\ i \in t.skip => t.status[i] \in {"queued", "skipped"}
    <3>1. ASSUME NEW i \in Ids(s)
          PROVE  /\ t.status[i] = "skipped" => i \in t.skip
                 /\ i \in t.skip => t.status[i] \in {"queued", "skipped"}
      <4>1. CASE i = id
        BY <1>1, <4>1
      <4>2. CASE i # id
        BY <1>1, <4>2 DEF SkipsAgree
      <4>3. QED
        BY <4>1, <4>2
    <3>2. QED
      BY <1>1, <3>1
  <2>5. QED
    BY <2>2, <2>3, <2>4 DEF SkipsAgree
<1>5. QED
  BY <1>2, <1>3, <1>4

\* A router that decides leaves a state that can be read: no target of its has
\* settled but as skipped.
LEMMA RoutingLoads ==
    ASSUME NEW s, Rebuildable(s), JoinsAgree(s), SkipsAgree(s), Whole(s), Fits(s),
           IsGraph(s.spec),
           NEW id, NEW targets, NEW t, Decides(s, id, targets, t),
           t.expansions = s.expansions, t.parentOf = s.parentOf,
           t.status[id] = "completed" => t.selected[id] \in s.spec[id].routes
    PROVE  Rebuildable(t) /\ JoinsAgree(t) /\ SkipsAgree(t)
<1>d. /\ s.status \in [Ids(s) -> Statuses] /\ id \in Routers(s) /\ id \in Ids(s)
      /\ s.status[id] = "queued" /\ id \notin s.skip /\ targets \subseteq Targets(s.spec[id])
      /\ t.spec = s.spec
      /\ t.skip = s.skip \cup {x \in targets : ~Settled(t, x)}
  BY DEF Decides
<1>o. PICK outcome \in {"completed", "failed"} :
         /\ t.status = [s.status EXCEPT ![id] = outcome]
         /\ outcome = "completed" => /\ t.misrouted = s.misrouted
                                     /\ targets = Targets(s.spec[id]) \ t.selected[id]
                                     /\ t.selected[id] \in s.spec[id].routes
         /\ outcome = "failed" => /\ t.misrouted = s.misrouted \cup {id}
                                  /\ targets = Targets(s.spec[id])
         /\ \A r \in Ids(s) \ {id} : t.selected[r] = s.selected[r]
  BY DEF Decides
<1>1. /\ Ids(t) = Ids(s) /\ Expanded(t) = Expanded(s) /\ Routers(t) = Routers(s)
      /\ \A i \in Ids(s) : t.status[i] = IF i = id THEN outcome ELSE s.status[i]
      /\ ~Settled(s, id) /\ id \notin Expanded(s) /\ Routers(s) \subseteq Ids(s)
  BY <1>d, <1>o DEF Ids, Expanded, Routers, Settled, Terminal, Fits, ExpansionHolds
<1>2. Rebuildable(t)
  BY <1>1, <1>d DEF Rebuildable, Recorded
<1>3. JoinsAgree(t)
  <2>1. outcome \in Terminal
    BY DEF Terminal
  <2>2. QED
    BY <1>1, <1>d, <1>o, <2>1, SettlingJoins
<1>4. \A x \in targets : /\ x \in Ids(s) /\ x # id
                         /\ s.status[x] \in {"queued", "skipped"}
                         /\ s.status[x] = "skipped" => x \in s.skip
  BY <1>d, TargetsWait
<1>5. t.skip = s.skip \cup targets
  <2>1. \A x \in targets : x \in s.skip \/ ~Settled(t, x)
    BY <1>1, <1>4 DEF Settled, Terminal
  <2>2. QED
    BY <1>d, <2>1
<1>6. \A r \in Routers(s) \ {id} : LeftOut(t, r) = LeftOut(s, r)
  BY <1>1, <1>d, <1>o DEF LeftOut
<1>7. /\ targets \subseteq LeftOut(t, id) /\ LeftOut(t, id) \subseteq LeftOut(s, id) \cup targets
      /\ LeftOut(s, id) \subseteq LeftOut(t, id)
  <2>1. LeftOut(s, id) = IF id \in s.misrouted THEN Targets(s.spec[id]) ELSE {}
    BY <1>d DEF LeftOut
  <2>2. CASE outcome = "completed"
    <3>1. LeftOut(t, id) = IF id \in s.misrouted THEN Targets(s.spec[id]) ELSE targets
      BY <1>1, <1>d, <1>o, <2>2 DEF LeftOut
    <3>2. QED
      BY <1>d, <2>1, <3>1
  <2>3. CASE outcome = "failed"
    <3>1. LeftOut(t, id) = targets /\ targets = Targets(s.spec[id])
      BY <1>1, <1>d, <1>o, <2>3 DEF LeftOut
    <3>2. QED
      BY <2>1, <3>1
  <2>4. QED
    BY <2>2, <2>3
<1>8. t.skip = UNION {LeftOut(t, r) : r \in Routers(t)}
  <2>1. s.skip = UNION {LeftOut(s, r) : r \in Routers(s)}
    BY DEF SkipsAgree
  <2>2. \A x \in t.skip : \E r \in Routers(s) : x \in LeftOut(t, r)
    <3>1. ASSUME NEW x \in s.skip PROVE \E r \in Routers(s) : x \in LeftOut(t, r)
      <4>1. PICK r \in Routers(s) : x \in LeftOut(s, r)
        BY <2>1
      <4>2. x \in LeftOut(t, r)
        BY <1>6, <1>7, <4>1
      <4>3. QED
        BY <4>2
    <3>2. \A x \in targets : x \in LeftOut(t, id)
      BY <1>7
    <3>3. QED
      BY <1>5, <1>d, <3>1, <3>2
  <2>3. \A r \in Routers(s) : LeftOut(t, r) \subseteq t.skip
    <3>1. \A r \in Routers(s) : LeftOut(s, r) \subseteq s.skip
      BY <2>1
    <3>2. QED
      BY <1>5, <1>6, <1>7, <3>1
  <2>4. QED
    BY <1>1, <2>2, <2>3
<1>9. \A r \in Routers(t) : t.status[r] = "completed" => t.selected[r] \in t.spec[r].routes
  <2>1. ASSUME NEW r \in Routers(s), t.status[r] = "completed"
        PROVE  t.selected[r] \in s.spec[r].routes
    <3>1. CASE r = id
      BY <1>1, <1>o, <2>1, <3>1
    <3>2. CASE r # id
      <4>1. r \in Ids(s) \ {id} /\ s.status[r] = "completed"
        BY <1>1, <2>1, <3>2
      <4>2. QED
        BY <1>o, <4>1 DEF SkipsAgree
    <3>3. QED
      BY <3>1, <3>2
  <2>2. QED
    BY <1>1, <1>d, <2>1
<1>10. \A i \in Ids(t) : /\ t.status[i] = "skipped" => i \in t.skip
                         /\ i \in t.skip => t.status[i] \in {"queued", "skipped"}
  <2>1. ASSUME NEW i \in Ids(s)
        PROVE  /\ t.status[i] = "skipped" => i \in t.skip
               /\ i \in t.skip => t.status[i] \in {"queued", "skipped"}
    <3>1. CASE i = id
      <4>1. i \notin t.skip /\ t.status[i] # "skipped"
        BY <1>1, <1>4, <1>5, <1>d, <3>1
      <4>2. QED
        BY <4>1
    <3>2. CASE i # id
      <4>1. /\ t.status[i] = s.status[i]
            /\ s.status[i] = "skipped" => i \in s.skip
            /\ i \in s.skip => s.status[i] \in {"queued", "skipped"}
        BY <1>1, <3>2 DEF SkipsAgree
      <4>2. QED
        BY <1>4, <1>5, <4>1
    <3>3. QED
      BY <3>1, <3>2
  <2>2. QED
    BY <1>1, <2>1
<1>11. SkipsAgree(t)
  BY <1>8, <1>9, <1>10 DEF SkipsAgree
<1>12. QED
  BY <1>2, <1>3, <1>11

\* A node that fans out leaves a state that can be read: it stands in the
\* submitted graph, since a generated child dispatches nothing.
LEMMA ExpandingLoads ==
    ASSUME NEW s, IsGraph(origin), Admitted(origin, {}),
           Rebuildable(s), JoinsAgree(s), SkipsAgree(s), Whole(s), Fits(s),
           DOMAIN s.status = Ids(s), DOMAIN s.selected = Ids(s),
           NEW id \in Ids(s), NEW kids, NEW t, FansOut(s, id, kids, t),
           t.parentOf = Merged(s.parentOf, [c \in kids |-> id]),
           s.spec[id].fanOut = "sends" => kids = Kids(id, s.spec[id].sends)
    PROVE  Rebuildable(t) /\ JoinsAgree(t) /\ SkipsAgree(t)
<1>f. /\ s.status[id] = "queued" /\ id \notin Expanded(s) /\ s.spec[id].dispatch # 0
      /\ id \notin s.skip /\ IsFiniteSet(kids) /\ kids \cap Ids(s) = {}
      /\ Cardinality(kids) <= s.spec[id].dispatch
      /\ t.spec = Expand(s.spec, id, kids) /\ t.skip = s.skip
      /\ t.expansions = Merged(s.expansions, [p \in {id} |-> kids])
  BY DEF FansOut
<1>g. /\ IsGraph(s.spec) /\ Ids(s) = DOMAIN origin \cup Family(s.expansions, Expanded(s))
      /\ \A q \in DOMAIN origin : Widened(s.spec[q], s.expansions, Expanded(s), q)
      /\ \A q \in Expanded(s) : \A c \in s.expansions[q] :
            s.spec[c] = GeneratedNode(q, origin[q].deps)
  BY DEF Rebuildable, Grown, Ids
<1>1. /\ id \in DOMAIN origin
      /\ origin[id].dispatch = s.spec[id].dispatch /\ origin[id].fanOut = s.spec[id].fanOut
      /\ origin[id].sends = s.spec[id].sends
  <2>1. ASSUME id \notin DOMAIN origin PROVE FALSE
    <3>1. PICK q \in Expanded(s) : id \in s.expansions[q]
      BY <1>g, <2>1 DEF Family
    <3>2. s.spec[id] = GeneratedNode(q, origin[q].deps)
      BY <1>g, <3>1
    <3>3. s.spec[id].dispatch = 0
      BY <3>2 DEF GeneratedNode
    <3>4. QED
      BY <1>f, <3>3
  <2>2. id \in DOMAIN origin
    BY <2>1
  <2>3. Widened(s.spec[id], s.expansions, Expanded(s), id) /\ "dispatch" \in PlainFields
    BY <1>g, <2>2 DEF PlainFields
  <2>4. QED
    BY <1>f, <2>2, <2>3 DEF Widened
<1>p. DOMAIN s.parentOf = Family(s.expansions, Expanded(s)) /\ kids \cap DOMAIN s.parentOf = {}
  <2>1. DOMAIN s.parentOf = Family(s.expansions, Expanded(s))
    BY DEF Rebuildable
  <2>2. QED
    BY <1>f, <1>g, <2>1
<1>2. /\ Expanded(t) = Expanded(s) \cup {id}
      /\ t.expansions[id] = kids
      /\ \A p \in Expanded(s) : t.expansions[p] = s.expansions[p]
      /\ DOMAIN t.parentOf = DOMAIN s.parentOf \cup kids
      /\ \A c \in DOMAIN s.parentOf \ kids : t.parentOf[c] = s.parentOf[c]
      /\ \A c \in kids : t.parentOf[c] = id
  <2>1. /\ Expanded(t) = Expanded(s) \cup {id}
        /\ t.expansions[id] = kids
        /\ \A p \in Expanded(s) : t.expansions[p] = s.expansions[p]
    BY <1>f DEF Merged, Expanded
  <2>2. /\ DOMAIN t.parentOf = DOMAIN s.parentOf \cup kids
        /\ \A c \in DOMAIN s.parentOf : t.parentOf[c] = s.parentOf[c]
        /\ \A c \in kids : t.parentOf[c] = id
    BY <1>p DEF Merged
  <2>3. QED
    BY <2>1, <2>2
<1>3. /\ \A p \in Expanded(s) : s.expansions[p] \subseteq Ids(s) /\ id \notin s.expansions[p]
      /\ \A p \in Expanded(s) : p \in Ids(s) /\ p # id
      /\ DOMAIN origin \subseteq Ids(s)
  BY <1>1, <1>f, <1>g DEF Rebuildable, Recorded, Whole
<1>r. /\ Ids(t) = Ids(s) \cup kids
      /\ t.status[id] = "running" /\ \A c \in kids : t.status[c] = "queued"
      /\ \A i \in Ids(s) : i # id => t.status[i] = s.status[i]
      /\ Routers(t) = Routers(s) /\ id \notin Routers(s)
      /\ \A r \in Routers(s) : /\ LeftOut(t, r) = LeftOut(s, r)
                               /\ t.spec[r].routes = s.spec[r].routes
                               /\ t.selected[r] = s.selected[r]
  <2>1. IsGraph(s.spec)
    BY <1>g
  <2>2. /\ Ids(t) = Ids(s) \cup kids
        /\ t.status[id] = "running" /\ \A c \in kids : t.status[c] = "queued"
        /\ \A i \in Ids(s) : i # id => t.status[i] = s.status[i]
    BY <2>1, ExpandingRoutes
  <2>3. /\ Routers(t) = Routers(s) /\ id \notin Routers(s)
        /\ \A r \in Routers(s) : /\ LeftOut(t, r) = LeftOut(s, r)
                                 /\ t.spec[r].routes = s.spec[r].routes
                                 /\ t.selected[r] = s.selected[r]
    BY <2>1, ExpandingRoutes
  <2>4. QED
    BY <2>2, <2>3
<1>4. Rebuildable(t)
  <2>1. Recorded(t)
    <3>1. \A p \in Expanded(s) : kids \cap s.expansions[p] = {}
      BY <1>3, <1>f
    <3>2. kids \cap DOMAIN origin = {}
      BY <1>3, <1>f
    <3>3. \A p \in Expanded(s) :
             /\ IsFiniteSet(s.expansions[p]) /\ s.expansions[p] \cap DOMAIN origin = {}
             /\ \A q \in Expanded(s) \ {p} : s.expansions[p] \cap s.expansions[q] = {}
      BY DEF Rebuildable, Recorded
    <3>4. Expanded(t) \subseteq DOMAIN origin
      BY <1>1, <1>2 DEF Rebuildable, Recorded
    <3>5. QED
      BY <1>2, <1>f, <3>1, <3>2, <3>3, <3>4 DEF Recorded
  <2>2. Grown(t.spec, t.expansions, Expanded(t))
    <3>1. Grown(s.spec, s.expansions, Expanded(s)) /\ Expanded(s) \subseteq DOMAIN origin
      BY DEF Rebuildable, Recorded
    <3>2. kids \cap DOMAIN s.spec = {}
      BY <1>f DEF Ids
    <3>3. Grown(t.spec, t.expansions, Expanded(s) \cup {id})
      BY <1>1, <1>2, <1>f, <3>1, <3>2, GrowsOnce
    <3>4. QED
      BY <1>2, <3>3
  <2>3. \A p \in Expanded(t) :
          /\ origin[p].dispatch # 0
          /\ Cardinality(t.expansions[p]) <= origin[p].dispatch
          /\ origin[p].fanOut = "sends" => t.expansions[p] = Kids(p, origin[p].sends)
    BY <1>1, <1>2, <1>f DEF Rebuildable
  <2>4. DOMAIN t.parentOf = Family(t.expansions, Expanded(t))
    <3>1. DOMAIN s.parentOf = Family(s.expansions, Expanded(s))
      BY DEF Rebuildable
    <3>2. Family(t.expansions, Expanded(t)) = Family(s.expansions, Expanded(s)) \cup kids
      BY <1>2 DEF Family
    <3>3. QED
      BY <1>2, <3>1, <3>2
  <2>5. \A p \in Expanded(t) : \A c \in t.expansions[p] : t.parentOf[c] = p
    <3>1. ASSUME NEW p \in Expanded(s), NEW c \in s.expansions[p] PROVE t.parentOf[c] = p
      <4>1. c \in DOMAIN s.parentOf /\ s.parentOf[c] = p
        BY DEF Rebuildable, Family
      <4>2. c \notin kids
        BY <1>3, <1>f
      <4>3. QED
        BY <1>2, <4>1, <4>2
    <3>2. QED
      BY <1>2, <3>1
  <2>6. QED
    BY <2>1, <2>2, <2>3, <2>4, <2>5 DEF Rebuildable
<1>5. JoinsAgree(t)
  <2>1. ASSUME NEW p \in Expanded(s)
        PROVE  LET allCompleted == \A c \in s.expansions[p] : t.status[c] = "completed"
               IN  /\ t.status[p] # "skipped"
                   /\ Settled(t, p) => \A c \in s.expansions[p] : Settled(t, c)
                   /\ t.status[p] = "completed" => allCompleted
                   /\ t.status[p] = "failed" => ~allCompleted
    <3>1. t.status[p] = s.status[p] /\ \A c \in s.expansions[p] : t.status[c] = s.status[c]
      BY <1>3, <1>r
    <3>2. /\ s.status[p] # "skipped"
          /\ Settled(s, p) => \A c \in s.expansions[p] : Settled(s, c)
          /\ s.status[p] = "completed" => \A c \in s.expansions[p] : s.status[c] = "completed"
          /\ s.status[p] = "failed" => ~(\A c \in s.expansions[p] : s.status[c] = "completed")
      BY DEF JoinsAgree
    <3>3. QED
      BY <3>1, <3>2 DEF Settled
  <2>2. ~Settled(t, id) /\ t.status[id] \notin {"skipped", "completed", "failed"}
    BY <1>r DEF Settled, Terminal
  <2>3. QED
    BY <1>2, <2>1, <2>2 DEF JoinsAgree
<1>6. SkipsAgree(t)
  <2>1. ASSUME NEW r \in Routers(s), t.status[r] = "completed"
        PROVE  t.selected[r] \in t.spec[r].routes
    <3>1. s.status[r] = "completed"
      BY <1>r, <2>1 DEF Routers
    <3>2. QED
      BY <1>r, <3>1 DEF SkipsAgree
  <2>2. t.skip = UNION {LeftOut(t, r) : r \in Routers(t)}
    BY <1>f, <1>r DEF SkipsAgree
  <2>3. s.skip \subseteq Ids(s)
    <3>1. ASSUME NEW r \in Routers(s), NEW x \in LeftOut(s, r) PROVE x \in Ids(s)
      <4>1. x \in Targets(s.spec[r])
        BY <3>1 DEF LeftOut
      <4>2. QED
        BY <4>1, AdmittedFacts DEF Fits, Routers, Ids
    <3>2. s.skip = UNION {LeftOut(s, r) : r \in Routers(s)}
      BY DEF SkipsAgree
    <3>3. QED
      BY <3>1, <3>2
  <2>4. \A i \in Ids(t) : /\ t.status[i] = "skipped" => i \in t.skip
                          /\ i \in t.skip => t.status[i] \in {"queued", "skipped"}
    <3>1. ASSUME NEW i \in Ids(s), i # id
          PROVE  /\ t.status[i] = "skipped" => i \in t.skip
                 /\ i \in t.skip => t.status[i] \in {"queued", "skipped"}
      BY <1>f, <1>r, <3>1 DEF SkipsAgree
    <3>2. QED
      BY <1>f, <1>r, <2>3, <3>1
  <2>5. QED
    BY <1>r, <2>1, <2>2, <2>4 DEF SkipsAgree
<1>7. QED
  BY <1>4, <1>5, <1>6

\* A rerun that edits nothing runs the graph of the checkpoint.
LEMMA NothingEdited ==
    ASSUME NEW spec, IsGraph(spec)
    PROVE  Patched(spec, NoPatch) = spec /\ Injected(spec, {}) = spec
<1>0. /\ spec = [id \in DOMAIN spec |-> spec[id]]
      /\ \A id \in DOMAIN spec : spec[id] = [field \in NodeFields |-> spec[id][field]]
  BY DEF IsGraph, IsNode
<1>1. Merged(spec, <<>>) = spec
  <2>1. DOMAIN <<>> = {}
    OBVIOUS
  <2>2. QED
    BY <1>0, <2>1 DEF Merged
<1>2. \A id \in DOMAIN spec : [spec[id] EXCEPT !.deps = @ \ {}] = spec[id]
  <2>1. ASSUME NEW id \in DOMAIN spec PROVE [spec[id] EXCEPT !.deps = @ \ {}] = spec[id]
    <3>1. spec[id].deps \ {} = spec[id].deps
      OBVIOUS
    <3>2. [spec[id] EXCEPT !.deps = spec[id].deps] = spec[id]
      BY <1>0
    <3>3. QED
      BY <3>1, <3>2
  <2>2. QED
    BY <2>1
<1>3. [id \in DOMAIN spec \ {} |-> [spec[id] EXCEPT !.deps = @ \ {}]] = spec
  BY <1>0, <1>2
<1>4. Patched(spec, NoPatch) = spec
  <2>1. NoPatch.add = <<>> /\ NoPatch.remove = {} /\ DOMAIN NoPatch.modify = {}
    BY DEF NoPatch
  <2>2. QED
    BY <1>0, <1>1, <1>3, <2>1 DEF Patched
<1>5. Injected(spec, {}) = spec
  BY <1>0 DEF Injected
<1>6. QED
  BY <1>4, <1>5

\* A rerun that edits nothing and gives up no decision starts from a state that
\* can be read, and starts: what it repeats has neither generated nor been
\* generated, and nobody left out a target of its that is set free.
LEMMA ViewLoads ==
    ASSUME NEW cp, NEW seen, IsState(cp, seen), Fits(cp),
           Rebuildable(cp), JoinsAgree(cp), SkipsAgree(cp),
           NEW closure, NEW view, view = View(cp, cp.spec, closure),
           closure \cap (DOMAIN cp.parentOf \cup Expanded(cp)) = {},
           \A r \in Routers(cp) \cap closure : Targets(cp.spec[r]) \subseteq closure,
           SetFree(cp, closure) = {}
    PROVE  StartHolds(view) /\ Rebuildable(view) /\ JoinsAgree(view) /\ SkipsAgree(view)
<1> DEFINE keep == Ids(cp) \ closure
<1>v. StartsFrom(view, cp, cp.spec, keep)
  <2>1. StartsFrom(view, cp, cp.spec, (Ids(cp) \cap DOMAIN cp.spec) \ closure)
    BY ViewFields
  <2>2. (Ids(cp) \cap DOMAIN cp.spec) \ closure = keep
    BY DEF Ids
  <2>3. QED
    BY <2>1, <2>2
<1>p. /\ DOMAIN cp.parentOf = Family(cp.expansions, Expanded(cp))
      /\ \A p \in Expanded(cp) : \A c \in cp.expansions[p] : cp.parentOf[c] = p
      /\ Ids(cp) = DOMAIN origin \cup Family(cp.expansions, Expanded(cp))
      /\ Expanded(cp) \subseteq DOMAIN origin
  BY DEF Rebuildable, Grown, Recorded, Ids
<1>k. /\ Expanded(cp) \subseteq keep /\ DOMAIN cp.parentOf \subseteq keep
      /\ keep \subseteq Ids(cp)
  BY <1>p
<1> HIDE DEF keep
<1>1. /\ Ids(view) = Ids(cp) /\ view.spec = cp.spec /\ Routers(view) = Routers(cp)
      /\ view.skip = cp.skip \cap keep /\ view.misrouted = cp.misrouted \cap keep
  BY <1>v DEF StartsFrom, Ids, Routers
<1>2. /\ Expanded(view) = Expanded(cp)
      /\ \A p \in Expanded(cp) : view.expansions[p] = cp.expansions[p]
      /\ DOMAIN view.parentOf = DOMAIN cp.parentOf
      /\ \A c \in DOMAIN cp.parentOf : view.parentOf[c] = cp.parentOf[c]
  <2>1. view.expansions = Restrict(cp.expansions, Expanded(cp))
    <3>1. Expanded(cp) \cap keep = Expanded(cp)
      BY <1>k
    <3>2. QED
      BY <1>v, <3>1 DEF StartsFrom
  <2>2. view.parentOf = Restrict(cp.parentOf, DOMAIN cp.parentOf)
    <3>1. DOMAIN cp.parentOf \cap keep = DOMAIN cp.parentOf
      BY <1>k
    <3>2. QED
      BY <1>v, <3>1 DEF StartsFrom
  <2>3. QED
    BY <2>1, <2>2 DEF Restrict, Expanded
<1>3. \A i \in Ids(cp) : view.status[i] = IF i \in keep /\ (Settled(cp, i) \/ i \in Expanded(cp))
                                          THEN cp.status[i] ELSE "queued"
  BY <1>v DEF StartsFrom, Ids
<1>4. \A r \in keep : view.selected[r] = cp.selected[r]
  <2>1. view.selected = Merged(Restrict(cp.selected, keep), [id \in DOMAIN cp.spec |-> {}])
    BY <1>v DEF StartsFrom
  <2>2. DOMAIN Restrict(cp.selected, keep) = keep
        /\ \A r \in keep : Restrict(cp.selected, keep)[r] = cp.selected[r]
    BY DEF Restrict
  <2>3. QED
    BY <2>1, <2>2 DEF Merged
<1>5. \A i \in Ids(cp) : Settled(view, i) <=> i \in keep /\ Settled(cp, i)
  <2>1. ASSUME NEW i \in Ids(cp) PROVE Settled(view, i) <=> i \in keep /\ Settled(cp, i)
    <3>1. "queued" \notin Terminal
      BY DEF Terminal
    <3>2. QED
      BY <1>3, <3>1 DEF Settled
  <2>2. QED
    BY <2>1
<1>6. StartHolds(view)
  <2>1. ASSUME NEW c \in DOMAIN cp.parentOf PROVE cp.parentOf[c] \in Ids(cp)
    <3>1. PICK p \in Expanded(cp) : c \in cp.expansions[p]
      BY <1>p DEF Family
    <3>2. QED
      BY <1>p, <3>1
  <2>2. \A p \in Expanded(cp) : cp.expansions[p] \subseteq DOMAIN cp.parentOf
    BY <1>p DEF Family
  <2>3. QED
    BY <1>1, <1>2, <2>1, <2>2 DEF StartHolds
<1>7. Rebuildable(view)
  <2>1. Recorded(view)
    BY <1>2 DEF Rebuildable, Recorded
  <2>2. Family(view.expansions, Expanded(view)) = Family(cp.expansions, Expanded(cp))
        /\ \A T \in SUBSET Expanded(cp) : Family(view.expansions, T) = Family(cp.expansions, T)
    BY <1>2 DEF Family
  <2>3. Grown(view.spec, view.expansions, Expanded(view))
    <3>1. Grown(cp.spec, cp.expansions, Expanded(cp))
      BY DEF Rebuildable
    <3>2. ASSUME NEW id \in DOMAIN origin
          PROVE  Widened(cp.spec[id], view.expansions, Expanded(cp), id)
      <4>1. Widened(cp.spec[id], cp.expansions, Expanded(cp), id)
        BY <3>1 DEF Grown
      <4>2. {q \in Expanded(cp) : id \in origin[q].deps /\ q \in origin[id].consumers}
              \in SUBSET Expanded(cp)
        OBVIOUS
      <4>3. QED
        BY <1>2, <2>2, <4>1, <4>2 DEF Widened
    <3>3. QED
      BY <1>1, <1>2, <2>2, <3>1, <3>2 DEF Grown
  <2>4. \A p \in Expanded(view) :
          /\ origin[p].dispatch # 0
          /\ Cardinality(view.expansions[p]) <= origin[p].dispatch
          /\ origin[p].fanOut = "sends" => view.expansions[p] = Kids(p, origin[p].sends)
    <3>1. ASSUME NEW p \in Expanded(cp)
          PROVE  /\ origin[p].dispatch # 0
                 /\ Cardinality(view.expansions[p]) <= origin[p].dispatch
                 /\ origin[p].fanOut = "sends" => view.expansions[p] = Kids(p, origin[p].sends)
      <4>1. view.expansions[p] = cp.expansions[p]
        BY <1>2
      <4>2. /\ origin[p].dispatch # 0
            /\ Cardinality(cp.expansions[p]) <= origin[p].dispatch
            /\ origin[p].fanOut = "sends" => cp.expansions[p] = Kids(p, origin[p].sends)
        BY DEF Rebuildable
      <4>3. QED
        BY <4>1, <4>2, Zenon
    <3>2. QED
      BY <1>2, <3>1
  <2>5. DOMAIN view.parentOf = Family(view.expansions, Expanded(view))
    BY <1>2, <1>p, <2>2
  <2>6. \A p \in Expanded(view) : \A c \in view.expansions[p] : view.parentOf[c] = p
    <3>1. ASSUME NEW p \in Expanded(cp), NEW c \in cp.expansions[p]
          PROVE  view.parentOf[c] = p
      <4>1. c \in DOMAIN cp.parentOf /\ cp.parentOf[c] = p
        BY <1>p DEF Family
      <4>2. QED
        BY <1>2, <4>1
    <3>2. QED
      BY <1>2, <3>1
  <2>7. QED
    BY <2>1, <2>3, <2>4, <2>5, <2>6 DEF Rebuildable
<1>8. JoinsAgree(view)
  <2>1. ASSUME NEW p \in Expanded(cp)
        PROVE  LET allCompleted == \A c \in cp.expansions[p] : view.status[c] = "completed"
               IN  /\ view.status[p] # "skipped"
                   /\ Settled(view, p) => \A c \in cp.expansions[p] : Settled(view, c)
                   /\ view.status[p] = "completed" => allCompleted
                   /\ view.status[p] = "failed" => ~allCompleted
    <3>1. /\ p \in keep /\ p \in Ids(cp) /\ cp.expansions[p] \subseteq keep
          /\ cp.expansions[p] \subseteq Ids(cp)
      BY <1>k, <1>p DEF Family
    <3>2. /\ view.status[p] = cp.status[p]
          /\ \A c \in cp.expansions[p] : Settled(view, c) <=> Settled(cp, c)
          /\ \A c \in cp.expansions[p] : view.status[c] = "completed" <=> cp.status[c] = "completed"
          /\ Settled(view, p) <=> Settled(cp, p)
      <4>1. \A c \in cp.expansions[p] : view.status[c] = "completed" <=> cp.status[c] = "completed"
        <5>1. ASSUME NEW c \in cp.expansions[p]
              PROVE  view.status[c] = "completed" <=> cp.status[c] = "completed"
          <6>1. c \in keep /\ c \in Ids(cp)
            BY <3>1
          <6>2. CASE Settled(cp, c) \/ c \in Expanded(cp)
            BY <1>3, <6>1, <6>2
          <6>3. CASE ~(Settled(cp, c) \/ c \in Expanded(cp))
            BY <1>3, <6>1, <6>3 DEF Settled, Terminal
          <6>4. QED
            BY <6>2, <6>3
        <5>2. QED
          BY <5>1
      <4>2. QED
        BY <1>3, <1>5, <3>1, <4>1
    <3>3. /\ cp.status[p] # "skipped"
          /\ Settled(cp, p) => \A c \in cp.expansions[p] : Settled(cp, c)
          /\ cp.status[p] = "completed" => \A c \in cp.expansions[p] : cp.status[c] = "completed"
          /\ cp.status[p] = "failed" => ~(\A c \in cp.expansions[p] : cp.status[c] = "completed")
      BY DEF JoinsAgree
    <3>4. QED
      BY <3>2, <3>3
  <2>2. QED
    BY <1>2, <2>1 DEF JoinsAgree
<1>9. SkipsAgree(view)
  <2>r. Routers(cp) \subseteq Ids(cp)
    BY DEF Routers
  <2>c. \A r \in Routers(cp) : view.status[r] = "completed" <=> r \in keep /\ cp.status[r] = "completed"
    <3>1. ASSUME NEW r \in Ids(cp)
          PROVE  view.status[r] = "completed" <=> r \in keep /\ cp.status[r] = "completed"
      <4>1. CASE r \in keep /\ (Settled(cp, r) \/ r \in Expanded(cp))
        BY <1>3, <4>1
      <4>2. CASE ~(r \in keep /\ (Settled(cp, r) \/ r \in Expanded(cp)))
        BY <1>3, <4>2 DEF Settled, Terminal
      <4>3. QED
        BY <4>1, <4>2
    <3>2. QED
      BY <2>r, <3>1
  <2>1. \A r \in Routers(view) : view.status[r] = "completed" => view.selected[r] \in view.spec[r].routes
    BY <1>1, <1>4, <2>c DEF SkipsAgree
  <2>2. \A r \in Routers(cp) : LeftOut(view, r) = IF r \in keep THEN LeftOut(cp, r) ELSE {}
    BY <1>1, <1>4, <2>c DEF LeftOut
  <2>3. cp.skip = UNION {LeftOut(cp, r) : r \in Routers(cp)}
    BY DEF SkipsAgree
  <2>4. \A x \in view.skip : \E r \in Routers(cp) : x \in LeftOut(view, r)
    <3>1. ASSUME NEW x \in view.skip PROVE \E r \in Routers(cp) : x \in LeftOut(view, r)
      <4>1. PICK r \in Routers(cp) : x \in LeftOut(cp, r)
        BY <1>1, <2>3
      <4>2. x \in Targets(cp.spec[r])
        BY <4>1 DEF LeftOut
      <4>3. x \notin closure
        BY <1>1 DEF keep
      <4>4. r \in keep
        BY <2>r, <4>2, <4>3 DEF keep
      <4>5. QED
        BY <2>2, <4>1, <4>4
    <3>2. QED
      BY <3>1
  <2>5. ASSUME NEW r \in Routers(cp), NEW x \in LeftOut(view, r) PROVE x \in view.skip
    <3>1. r \in keep /\ x \in LeftOut(cp, r)
      BY <2>2, <2>5
    <3>2. x \in cp.skip /\ r \in Routers(cp) \ closure
      BY <2>3, <3>1 DEF keep
    <3>3. x \notin closure
      BY <3>1, <3>2 DEF SetFree
    <3>4. x \in Ids(cp)
      <4>1. x \in Targets(cp.spec[r])
        BY <3>1 DEF LeftOut
      <4>2. QED
        BY <4>1, AdmittedFacts DEF Fits, Routers, Ids
    <3>5. QED
      BY <1>1, <3>2, <3>3, <3>4 DEF keep
  <2>6. view.skip = UNION {LeftOut(view, r) : r \in Routers(view)}
    BY <1>1, <2>4, <2>5
  <2>7. \A i \in Ids(view) : /\ view.status[i] = "skipped" => i \in view.skip
                             /\ i \in view.skip => view.status[i] \in {"queued", "skipped"}
    <3>1. ASSUME NEW i \in Ids(cp)
          PROVE  /\ view.status[i] = "skipped" => i \in view.skip
                 /\ i \in view.skip => view.status[i] \in {"queued", "skipped"}
      <4>1. /\ cp.status[i] = "skipped" => i \in cp.skip
            /\ i \in cp.skip => cp.status[i] \in {"queued", "skipped"}
        BY DEF SkipsAgree
      <4>2. CASE i \in keep /\ (Settled(cp, i) \/ i \in Expanded(cp))
        BY <1>1, <1>3, <4>1, <4>2
      <4>3. CASE ~(i \in keep /\ (Settled(cp, i) \/ i \in Expanded(cp)))
        BY <1>3, <4>3
      <4>4. QED
        BY <4>2, <4>3
    <3>2. QED
      BY <1>1, <3>1
  <2>8. QED
    BY <2>1, <2>6, <2>7 DEF SkipsAgree
<1>10. QED
  BY <1>6, <1>7, <1>8, <1>9

\* A state that passes the reader, in the form the facts are kept in.
Readable(s) == Rebuildable(s) /\ JoinsAgree(s) /\ SkipsAgree(s)

\* As long as no rerun edits the graph or gives up a decision, what is running
\* and what was handed out last can be read, and no start throws.
LoadInv ==
    plain /\ Started => phase # "thrown" /\ Readable(run) /\ Readable(ckpt)

\* The state a first run starts from can be read.
LEMMA FreshLoads ==
    ASSUME IsGraph(origin)
    PROVE  Readable(Fresh(origin))
<1> DEFINE s == Fresh(origin)
<1>1. /\ s.spec = origin /\ Ids(s) = DOMAIN origin
      /\ s.status = [id \in DOMAIN origin |-> "queued"] /\ s.misrouted = {} /\ s.skip = {}
      /\ s.expansions = <<>> /\ Expanded(s) = {} /\ DOMAIN s.parentOf = {}
  <2>1. DOMAIN <<>> = {}
    OBVIOUS
  <2>2. QED
    BY <2>1 DEF Fresh, Ids, Expanded
<1> HIDE DEF s
<1>2. Rebuildable(s)
  <2>1. Family(s.expansions, {}) = {}
    BY DEF Family
  <2>2. ASSUME NEW id \in DOMAIN origin PROVE Widened(origin[id], s.expansions, {}, id)
    BY <2>1 DEF Widened, Family
  <2>3. Grown(s.spec, s.expansions, Expanded(s))
    BY <1>1, <2>1, <2>2 DEF Grown
  <2>4. QED
    BY <1>1, <2>1, <2>3 DEF Rebuildable, Recorded
<1>3. JoinsAgree(s)
  BY <1>1 DEF JoinsAgree
<1>4. SkipsAgree(s)
  <2>1. \A r \in Routers(s) : s.status[r] = "queued"
    BY <1>1 DEF Routers
  <2>2. \A r \in Routers(s) : LeftOut(s, r) = {}
    BY <1>1, <2>1 DEF LeftOut
  <2>3. s.skip = UNION {LeftOut(s, r) : r \in Routers(s)}
    BY <1>1, <2>2
  <2>4. \A id \in Ids(s) : s.status[id] = "queued"
    BY <1>1
  <2>5. QED
    BY <2>1, <2>3, <2>4, <1>1 DEF SkipsAgree
<1>5. QED
  BY <1>2, <1>3, <1>4 DEF Readable, s

\* Whether a state can be read depends on it and on the admitted graph.
LEMMA ReadableLater ==
    ASSUME NEW t, origin' = origin, Readable(t)
    PROVE  (run' = t => Readable(run)') /\ (ckpt' = t => Readable(ckpt)')
<1> USE DEF Readable, Rebuildable, Recorded, Grown, Widened, Family, GeneratedNode, Expanded,
            JoinsAgree, SkipsAgree, LeftOut, Routers, Ids, Settled
<1>1. ASSUME run' = t PROVE Readable(run)'
  BY <1>1
<1>2. ASSUME ckpt' = t PROVE Readable(ckpt)'
  BY <1>2
<1>3. QED
  BY <1>1, <1>2

\* What an action of the executor has to show of the state it emits.
LEMMA EmitLoads ==
    ASSUME phase = "running", NEW t, Emit(t), plain => Readable(t)
    PROVE  LoadInv'
<1>1. run' = t /\ ckpt' = t /\ origin' = origin /\ phase' = "running" /\ plain' = plain
  BY DEF Emit
<1>2. ASSUME plain' PROVE Readable(run)' /\ Readable(ckpt)'
  <2>1. Readable(t)
    BY <1>1, <1>2
  <2>2. QED
    BY <1>1, <2>1, ReadableLater
<1>3. QED
  BY <1>1, <1>2 DEF LoadInv

\* A node of a plain run that settles leaves a state that can be read.
LEMMA SettlingReadable ==
    ASSUME RerunInv, LoadInv, phase = "running", NEW id \in Ids(run), NEW outcome \in Terminal,
           ~Settled(run, id), Emit(Ends(id, outcome)),
           id \in Expanded(run) =>
              /\ \A c \in run.expansions[id] : Settled(run, c)
              /\ outcome = IF \A c \in run.expansions[id] : run.status[c] = "completed"
                           THEN "completed" ELSE "failed",
           id \in Routers(run) => outcome # "completed",
           plain => (outcome = "skipped" <=> id \in run.skip)
    PROVE  LoadInv'
<1> DEFINE t == Ends(id, outcome)
<1>1. Whole(run) /\ IsState(run, reruns)
  BY DEF RerunInv
<1>2. /\ t.spec = run.spec /\ t.expansions = run.expansions /\ t.skip = run.skip
      /\ t.misrouted = run.misrouted /\ t.selected = run.selected /\ t.parentOf = run.parentOf
      /\ t.status = [run.status EXCEPT ![id] = outcome]
  BY <1>1 DEF Ends, IsState, StateFields
<1>3. Emit(t)
  OBVIOUS
<1> HIDE DEF t
<1>4. ASSUME plain PROVE Readable(t)
  <2>1. Rebuildable(run) /\ JoinsAgree(run) /\ SkipsAgree(run)
    BY <1>4 DEF LoadInv, Readable, Started
  <2>2. DOMAIN run.status = Ids(run)
    BY <1>1 DEF IsState
  <2>3. outcome = "skipped" <=> id \in run.skip
    BY <1>4
  <2>4. QED
    BY <1>1, <1>2, <2>1, <2>2, <2>3, SettlingLoads DEF Readable
<1>5. QED
  BY <1>3, <1>4, EmitLoads

\* A router of a plain run that decides leaves a state that can be read.
LEMMA RoutingReadable ==
    ASSUME RerunInv, LoadInv, phase = "running", NEW id \in Ids(run), RouterDecides(id)
    PROVE  LoadInv'
<1>1. Fits(run) /\ Whole(run) /\ IsState(run, reruns) /\ IsGraph(run.spec)
  BY DEF RerunInv, Started, IsState
<1>2. run.status[id] = "queued" /\ id \notin run.skip /\ id \in Routers(run)
  BY DEF RouterDecides, Ready
<1>3. /\ run.status \in [Ids(run) -> Statuses] /\ DOMAIN run.selected = Ids(run)
  BY <1>1 DEF IsState
<1>x. PICK outcome \in {"completed", "failed"} : \E chosen, targets, t :
         /\ Emit(t)
         /\ t = Skipping(IF outcome = "completed"
                         THEN [Ends(id, "completed") EXCEPT !.selected[id] = chosen]
                         ELSE [Ends(id, "failed") EXCEPT !.misrouted = @ \cup {id}], targets)
         /\ targets = IF outcome = "completed" THEN Targets(run.spec[id]) \ chosen
                      ELSE Targets(run.spec[id])
         /\ outcome = "completed" => chosen \in run.spec[id].routes
  BY DEF RouterDecides
<1>4. PICK chosen, targets, t :
         /\ Emit(t)
         /\ t = Skipping(IF outcome = "completed"
                         THEN [Ends(id, "completed") EXCEPT !.selected[id] = chosen]
                         ELSE [Ends(id, "failed") EXCEPT !.misrouted = @ \cup {id}], targets)
         /\ targets = IF outcome = "completed" THEN Targets(run.spec[id]) \ chosen
                      ELSE Targets(run.spec[id])
         /\ outcome = "completed" => chosen \in run.spec[id].routes
  BY <1>x
<1>5. /\ t.spec = run.spec /\ t.expansions = run.expansions /\ t.parentOf = run.parentOf
      /\ t.status = [run.status EXCEPT ![id] = outcome]
      /\ t.skip = run.skip \cup {x \in targets : ~Settled(t, x)}
      /\ t.misrouted = IF outcome = "completed" THEN run.misrouted ELSE run.misrouted \cup {id}
      /\ t.selected = IF outcome = "completed" THEN [run.selected EXCEPT ![id] = chosen]
                      ELSE run.selected
  BY <1>1, <1>4 DEF Skipping, Ends, IsState, StateFields, Settled
<1>6. Decides(run, id, targets, t)
  BY <1>2, <1>3, <1>4, <1>5 DEF Decides
<1>7. t.status[id] = "completed" => t.selected[id] \in run.spec[id].routes
  BY <1>3, <1>4, <1>5
<1>8. ASSUME plain PROVE Readable(t)
  <2>1. Rebuildable(run) /\ JoinsAgree(run) /\ SkipsAgree(run)
    BY <1>8 DEF LoadInv, Readable, Started
  <2>2. QED
    BY <1>1, <1>5, <1>6, <1>7, <2>1, RoutingLoads DEF Readable
<1>9. QED
  BY <1>4, <1>8, EmitLoads

\* A node of a plain run that fans out leaves a state that can be read.
LEMMA FanningOutReadable ==
    ASSUME RerunInv, LoadInv, phase = "running", NEW id \in Ids(run), NodeExpands(id)
    PROVE  LoadInv'
<1>1. /\ Fits(run) /\ Whole(run) /\ IsState(run, reruns) /\ IsGraph(run.spec)
      /\ IsGraph(origin) /\ Admitted(origin, {})
  BY DEF RerunInv, Started, IsState
<1>2. /\ run.status[id] = "queued" /\ id \notin run.skip /\ id \notin Expanded(run)
      /\ run.spec[id].dispatch # 0
      /\ \A d \in run.spec[id].deps : Settled(run, d)
  BY DEF NodeExpands, Ready, IsDispatch
<1>3. PICK sends \in SendsOf(id) :
         LET kids == Kids(id, sends)
             spec == Expand(run.spec, id, kids)
         IN  /\ Len(sends) <= run.spec[id].dispatch
             /\ kids \cap Ids(run) = {}
             /\ Emit([run EXCEPT
                   !.spec = spec,
                   !.status = Merged([@ EXCEPT ![id] = "running"], [c \in kids |-> "queued"]),
                   !.selected = Merged(@, [c \in kids |-> {}]),
                   !.parentOf = Merged(@, [c \in kids |-> id]),
                   !.expansions = Merged(@, [p \in {id} |-> kids]),
                   !.era = Merged(@, [c \in kids |-> reruns])])
  BY DEF NodeExpands
<1>4. IsList(sends)
  BY <1>1, <1>3, SendsAreLists
<1> DEFINE kids == Kids(id, sends)
           t == [run EXCEPT
                   !.spec = Expand(run.spec, id, kids),
                   !.status = Merged([@ EXCEPT ![id] = "running"], [c \in kids |-> "queued"]),
                   !.selected = Merged(@, [c \in kids |-> {}]),
                   !.parentOf = Merged(@, [c \in kids |-> id]),
                   !.expansions = Merged(@, [p \in {id} |-> kids]),
                   !.era = Merged(@, [c \in kids |-> reruns])]
<1>5. Emit(t) /\ kids \cap Ids(run) = {}
  BY <1>3
<1>6. IsFiniteSet(kids) /\ Cardinality(kids) <= run.spec[id].dispatch
  <2>1. /\ IsFiniteSet(kids) /\ Cardinality(kids) \in Nat /\ Cardinality(kids) <= Len(sends)
    BY <1>4, KidsAreFew
  <2>2. Len(sends) \in Nat /\ run.spec[id].dispatch \in Nat
    BY <1>1, <1>4 DEF IsList, IsGraph, IsNode, Ids
  <2>3. QED
    BY <1>3, <2>1, <2>2
<1>7. run.spec[id].fanOut = "sends" => kids = Kids(id, run.spec[id].sends)
  BY <1>3 DEF SendsOf
<1> HIDE DEF kids
<1>8. /\ t = [field \in StateFields |-> t[field]]
      /\ t.spec = Expand(run.spec, id, kids) /\ t.skip = run.skip /\ t.misrouted = run.misrouted
      /\ t.status = Merged([run.status EXCEPT ![id] = "running"], [c \in kids |-> "queued"])
      /\ t.selected = Merged(run.selected, [c \in kids |-> {}])
      /\ t.expansions = Merged(run.expansions, [p \in {id} |-> kids])
      /\ t.parentOf = Merged(run.parentOf, [c \in kids |-> id])
  BY <1>1 DEF IsState, StateFields
<1> HIDE DEF t
<1>9. FansOut(run, id, kids, t)
  BY <1>2, <1>5, <1>6, <1>8 DEF FansOut
<1>10. ASSUME plain PROVE Readable(t)
  <2>1. Rebuildable(run) /\ JoinsAgree(run) /\ SkipsAgree(run)
    BY <1>10 DEF LoadInv, Readable, Started
  <2>2. DOMAIN run.status = Ids(run) /\ DOMAIN run.selected = Ids(run)
    BY <1>1 DEF IsState
  <2>3. t.parentOf = Merged(run.parentOf, [c \in kids |-> id])
    BY <1>8
  <2>4. QED
    BY <1>1, <1>7, <1>9, <2>1, <2>2, <2>3, ExpandingLoads DEF Readable
<1>11. QED
  BY <1>5, <1>10, EmitLoads

\* Every step of a plain run leaves a state that can be read.
LEMMA ExecuteLoads == RerunInv /\ LoadInv /\ Execute => LoadInv'
<1> SUFFICES ASSUME RerunInv, LoadInv, Execute PROVE LoadInv'
  OBVIOUS
<1>1. phase = "running" /\ Fits(run)
  BY DEF Execute, RerunInv, Started
<1>2. PICK id \in Ids(run) :
         \/ SettleSkipped(id) \/ SettleParent(id) \/ NodeFails(id)
         \/ NodeCompletes(id) \/ RouterDecides(id) \/ NodeExpands(id)
  BY DEF Execute
<1>3. CASE SettleSkipped(id)
  <2>1. id \in run.skip /\ run.status[id] = "queued" /\ Emit(Ends(id, "skipped"))
    BY <1>3 DEF SettleSkipped
  <2>2. ~Settled(run, id) /\ id \notin Expanded(run)
    BY <1>1, <2>1 DEF Settled, Terminal, Fits, ExpansionHolds
  <2>3. "skipped" \in Terminal
    BY DEF Terminal
  <2>4. QED
    BY <1>1, <2>1, <2>2, <2>3, SettlingReadable
<1>4. CASE SettleParent(id)
  <2> DEFINE outcome == IF \A c \in run.expansions[id] : run.status[c] = "completed"
                        THEN "completed" ELSE "failed"
  <2>1. /\ id \in Expanded(run) /\ ~Settled(run, id) /\ Emit(Ends(id, outcome))
        /\ \A c \in run.expansions[id] : Settled(run, c)
    BY <1>4 DEF SettleParent
  <2>2. outcome \in Terminal /\ outcome # "skipped"
    BY DEF Terminal
  <2>3. run.status[id] = "running" /\ id \notin Routers(run)
    <3>1. ExpansionHolds(run, id)
      BY <1>1, <2>1 DEF Fits
    <3>2. id \notin Routers(run)
      BY <1>1, <3>1, AdmittedFacts DEF Fits, Routers, Ids, ExpansionHolds
    <3>3. QED
      BY <2>1, <3>1, <3>2 DEF ExpansionHolds, Settled, Terminal
  <2>4. ASSUME plain PROVE id \notin run.skip
    BY <1>1, <2>3, <2>4 DEF LoadInv, Started, Readable, SkipsAgree
  <2>5. outcome = IF \A c \in run.expansions[id] : run.status[c] = "completed"
                  THEN "completed" ELSE "failed"
    OBVIOUS
  <2> HIDE DEF outcome
  <2>6. QED
    BY <1>1, <2>1, <2>2, <2>3, <2>4, <2>5, SettlingReadable
<1>5. CASE NodeFails(id) \/ NodeCompletes(id)
  <2>1. PICK outcome \in {"completed", "failed"} :
           /\ Ready(id) /\ Emit(Ends(id, outcome))
           /\ id \in Routers(run) => outcome # "completed"
    BY <1>5 DEF NodeFails, NodeCompletes
  <2>2. ~Settled(run, id) /\ id \notin run.skip /\ run.status[id] = "queued"
    BY <2>1 DEF Ready, Settled, Terminal
  <2>3. outcome \in Terminal /\ outcome # "skipped"
    BY DEF Terminal
  <2>4. id \notin Expanded(run)
    BY <1>1, <2>2 DEF Fits, ExpansionHolds
  <2>5. QED
    BY <1>1, <2>1, <2>2, <2>3, <2>4, SettlingReadable
<1>6. CASE RouterDecides(id)
  BY <1>1, <1>6, RoutingReadable
<1>7. CASE NodeExpands(id)
  BY <1>1, <1>7, FanningOutReadable
<1>8. QED
  BY <1>2, <1>3, <1>4, <1>5, <1>6, <1>7

\* What a rerun that edits nothing repeats, it repeats with all a router of it
\* may choose among.
LEMMA ClosureKeepsTargets ==
    ASSUME NEW cp, IsGraph(cp.spec), Fits(cp), NEW named, NEW closure,
           closure = Closure(cp, cp.spec, named, NoPatch),
           closure \cap DOMAIN cp.parentOf = {}
    PROVE  \A r \in Routers(cp) \cap closure : Targets(cp.spec[r]) \subseteq closure
<1> DEFINE seeds == Seeds(cp, named, NoPatch) \cap DOMAIN cp.spec
           D == DownstreamClosure(cp.spec, seeds)
<1>1. closure = D \cup {c \in DOMAIN cp.parentOf : cp.parentOf[c] \in D}
  BY DEF Closure
<1>2. closure = D
  BY <1>1
<1>3. \A x \in D : ConsumersOf(cp.spec, x) \subseteq D
  <2>1. IsFiniteSet(DOMAIN cp.spec) /\ seeds \in SUBSET DOMAIN cp.spec
    BY DEF IsGraph
  <2>2. QED
    BY <2>1, DownstreamCloses
<1> HIDE DEF D, seeds
<1>4. ASSUME NEW r \in Routers(cp) \cap closure, NEW x \in Targets(cp.spec[r])
      PROVE  x \in closure
  <2>1. x \in DOMAIN cp.spec /\ r \in cp.spec[x].deps
    BY AdmittedFacts DEF Fits, Routers, Ids
  <2>2. x \in ConsumersOf(cp.spec, r)
    BY <2>1 DEF ConsumersOf, DirectConsumers
  <2>3. QED
    BY <1>2, <1>3, <2>2
<1>5. QED
  BY <1>4

\* A rerun that edits nothing and gives up no decision starts, from a state
\* that can be read.
LEMMA CallRerunLoads == RerunInv /\ LoadInv /\ CallRerun => LoadInv'
<1> SUFFICES ASSUME RerunInv, LoadInv, CallRerun, plain' PROVE LoadInv'
  BY DEF LoadInv
<1>1. PICK named \in {{}} \cup {{id} : id \in Ids(ckpt)}, request \in Requests :
         Rerun(named, request.inject, request.patch)
  BY DEF CallRerun
<1> DEFINE inject == request.inject
           patch == request.patch
           spec == Patched(ckpt.spec, patch)
           closure == Closure(ckpt, spec, named, patch)
           view == View(ckpt, Injected(spec, inject \cap closure), closure)
<1>2. /\ phase' = IF StartHolds(view) THEN "running" ELSE "thrown"
      /\ run' = view /\ ckpt' = ckpt /\ origin' = origin
      /\ patch = NoPatch /\ inject \cap closure = {}
      /\ closure \cap (DOMAIN ckpt.parentOf \cup Expanded(ckpt)) = {}
      /\ SetFree(ckpt, closure) = {}
  BY <1>1 DEF Rerun
<1>3. /\ IsGraph(origin) /\ Admitted(origin, {})
      /\ IsState(ckpt, reruns) /\ Fits(ckpt) /\ Loads(ckpt) /\ IsGraph(ckpt.spec)
  BY DEF CallRerun, RerunInv, Started, IsState
<1> HIDE DEF patch, inject
<1>4. Readable(ckpt)
  <2>1. \A p \in Expanded(ckpt) : IsFiniteSet(ckpt.expansions[p])
    BY <1>3 DEF Fits, ExpansionHolds
  <2>2. Rebuilds(ckpt) /\ JoinsAgree(ckpt) /\ SkipsAgree(ckpt)
    BY <1>3 DEF Loads
  <2>3. Rebuildable(ckpt)
    BY <1>3, <2>1, <2>2, ReadsGraph
  <2>4. QED
    BY <2>2, <2>3 DEF Readable
<1>5. spec = ckpt.spec
  BY <1>2, <1>3, NothingEdited
<1> HIDE DEF spec
<1>6. closure = Closure(ckpt, ckpt.spec, named, NoPatch)
  BY <1>2, <1>5
<1> HIDE DEF closure
<1>7. view = View(ckpt, ckpt.spec, closure)
  <2>1. Injected(spec, inject \cap closure) = ckpt.spec
    BY <1>2, <1>3, <1>5, NothingEdited
  <2>2. QED
    BY <2>1
<1> HIDE DEF view
<1>8. \A r \in Routers(ckpt) \cap closure : Targets(ckpt.spec[r]) \subseteq closure
  <2>1. closure \cap DOMAIN ckpt.parentOf = {}
    BY <1>2
  <2>2. QED
    BY <1>3, <1>6, <2>1, ClosureKeepsTargets
<1>9. StartHolds(view) /\ Readable(view)
  BY <1>2, <1>3, <1>4, <1>7, <1>8, ViewLoads DEF Readable
<1>10. Readable(run)' /\ Readable(ckpt)'
  BY <1>2, <1>4, <1>9, ReadableLater
<1>11. phase' = "running"
  BY <1>2, <1>9
<1>12. QED
  BY <1>10, <1>11 DEF LoadInv

\* Neither a submission, nor the end of a run, nor a stutter changes anything
\* that is read.
LEMMA NothingRunLoads ==
    RerunInv /\ LoadInv /\ (Submit \/ Over \/ UNCHANGED vars) => LoadInv'
<1> SUFFICES ASSUME RerunInv, LoadInv, Submit \/ Over \/ UNCHANGED vars PROVE LoadInv'
  OBVIOUS
<1>1. /\ origin' = origin /\ run' = run /\ ckpt' = ckpt /\ plain' = plain
      /\ phase' # phase => phase' # "thrown"
  BY DEF Submit, Over, vars
<1>3. ASSUME plain PROVE Readable(run) /\ Readable(ckpt)
  BY <1>3, FreshLoads DEF RerunInv, LoadInv
<1>4. Readable(run) /\ Readable(ckpt) => Readable(run)' /\ Readable(ckpt)'
  BY <1>1, ReadableLater
<1>6. plain' /\ Started' => phase' # "thrown"
  BY <1>1 DEF LoadInv, Started
<1>7. QED
  BY <1>1, <1>3, <1>4, <1>6 DEF LoadInv

\* Reruns that edit nothing and give up no decision leave checkpoints that the
\* next rerun or resumption can read, and start without an exception.
THEOREM PlainRerunsRead == Spec => []PlainRerunsLoad
<1>1. Init => LoadInv
  BY DEF Init, LoadInv, Started
<1>2. RerunInv /\ LoadInv /\ [Next]_vars => LoadInv'
  BY ExecuteLoads, CallRerunLoads, NothingRunLoads DEF Next
<1>3. RerunInv /\ LoadInv => PlainRerunsLoad
  <2> SUFFICES ASSUME RerunInv, LoadInv, plain, phase \in {"running", "over", "thrown"}
               PROVE  phase # "thrown" /\ Loads(ckpt)
    BY DEF PlainRerunsLoad
  <2>1. /\ Started /\ phase # "thrown" /\ Readable(ckpt)
    BY DEF LoadInv, Started
  <2>2. IsGraph(origin) /\ Admitted(origin, {}) /\ Fits(ckpt)
    BY <2>1 DEF RerunInv
  <2>3. Rebuilds(ckpt)
    <3>1. \A p \in Expanded(ckpt) : IsFiniteSet(ckpt.expansions[p])
      BY <2>2 DEF Fits, ExpansionHolds
    <3>2. Rebuildable(ckpt)
      BY <2>1 DEF Readable
    <3>3. QED
      BY <2>2, <3>1, <3>2, ReadsGraph
  <2>4. QED
    BY <2>1, <2>3 DEF Readable, Loads
<1>4. QED
  BY <1>1, <1>2, <1>3, RerunInvariant, PTL DEF Spec

===============================================================================
