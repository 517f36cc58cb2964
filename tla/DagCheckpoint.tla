---------------------------- MODULE DagCheckpoint ----------------------------
(***************************************************************************)
(* What deserializeCheckpoint (src/src/dag/checkpoint.ts) demands of a V2  *)
(* checkpoint, stated over the snapshots the scheduler emits.  Ids, modes  *)
(* and sends are data the scheduler never edits, so the rules left are the *)
(* ones that tie node states, routes, skips and expansions together.       *)
(***************************************************************************)
EXTENDS DagScheduler

CkptSettled(cp, n) == cp.status[n] \in Terminal
CkptNodes(cp) == {n \in Node : cp.status[n] # "absent"}

\* The mechanical rebuild of the topology: the generated nodes of the graph
\* are exactly the children of the recorded expansions, and declared sends
\* were expanded as declared, within the dispatch bound.
TopologyRebuilds(cp) ==
    /\ CkptNodes(cp) = Original \cup UNION {cp.children[p] : p \in cp.expanded}
    /\ \A p \in cp.expanded :
          /\ Mode[p] # "spawn"
          /\ cp.children[p] \subseteq Siblings(p)
          /\ Cardinality(cp.children[p]) <= MaxChildren
          /\ Mode[p] = "sends" => cp.children[p] = DeclaredSends[p]

\* An expanded parent is never skipped, terminal only after its children,
\* completed exactly when they all are.
ExpansionsAgree(cp) ==
    \A p \in cp.expanded :
        LET allCompleted == \A c \in cp.children[p] : cp.status[c] = "completed"
        IN  /\ cp.status[p] # "skipped"
            /\ CkptSettled(cp, p) => \A c \in cp.children[p] : CkptSettled(cp, c)
            /\ cp.status[p] = "completed" => allCompleted
            /\ cp.status[p] = "failed" => ~allCompleted

\* The targets the recorded route decisions skip.  A router that failed for
\* another reason than its route skips none.
SkipFrontier(cp) ==
    (UNION {Targets(r) \ cp.selected[r] :
              r \in {n \in Original : Routes[n] # {} /\ cp.status[n] = "completed"}})
    \cup (UNION {Targets(r) : r \in cp.misrouted})

SkipsAgree(cp) ==
    /\ \A r \in Original : Routes[r] # {} /\ cp.status[r] = "completed" =>
          cp.selected[r] \in Routes[r]
    /\ cp.skip = SkipFrontier(cp)
    /\ \A n \in CkptNodes(cp) :
          /\ cp.status[n] = "skipped" => n \in cp.skip
          /\ n \in cp.skip => cp.status[n] \in {"queued", "skipped"}

ValidV2Topology(cp) ==
    TopologyRebuilds(cp) /\ ExpansionsAgree(cp) /\ SkipsAgree(cp)

\* Every checkpoint the executor emits, at whatever moment, passes the
\* integrity rules its reader applies, also in a run that was resumed.
EmittedCheckpointsLoad == ckpt.emitted => ValidV2Topology(ckpt)
=============================================================================
