--------------------------- MODULE DagOutcome_proofs ---------------------------
(***************************************************************************)
(* Theorems about what DagScheduler settles, for every task graph, policy  *)
(* and number of resumptions: recorded work stays, a dispatch parent is    *)
(* the join of its children, a branch no router selected never runs, and   *)
(* the ready scheduler keeps its order and is never blocked.               *)
(* The invariant speaks of a snapshot and holds of two: the graph as it is *)
(* and the last checkpoint, from which a resumption makes the graph anew.  *)
(***************************************************************************)
EXTENDS DagScheduler_proofs, DagRefinement, Recursion_proofs

Live == SnapshotRecord(TRUE)

\* The nodes are the original ones and the children of expanded dispatchers,
\* which generate what they may; a misrouted router has failed for good.
Known(s) ==
    /\ \A n \in Original : s.status[n] # "absent"
    /\ \A g \in Generated : s.status[g] # "absent" =>
          ParentOf[g] \in s.expanded /\ g \in s.children[ParentOf[g]]
    /\ \A p \in s.expanded :
          /\ Mode[p] # "spawn"
          /\ s.children[p] \subseteq Siblings(p)
          /\ \A c \in s.children[p] : s.status[c] # "absent"
          /\ Cardinality(s.children[p]) <= MaxChildren
          /\ Mode[p] = "sends" => s.children[p] = DeclaredSends[p]
    /\ \A r \in s.misrouted : s.status[r] = "failed"

\* A settled parent is the join of its settled children.
Joins(s) ==
    \A p \in s.expanded :
        /\ s.status[p] # "skipped"
        /\ s.status[p] \in Terminal =>
              /\ \A c \in s.children[p] : s.status[c] \in Terminal
              /\ s.status[p] = "completed" <=>
                    \A c \in s.children[p] : s.status[c] = "completed"

LeftOut(s, r, t) ==
    \/ s.status[r] = "completed" /\ t \notin s.selected[r]
    \/ r \in s.misrouted

\* The reasons to skip a node are that routers left it out, and a node with a
\* reason is skipped or waits in the queue to be.
Branches(s) ==
    /\ \A r \in Original : \A t \in Targets(r) : LeftOut(s, r, t) => t \in s.skip
    /\ \A t \in s.skip : \E r \in Original : t \in Targets(r) /\ LeftOut(s, r, t)
    /\ \A t \in s.skip : s.status[t] \in {"queued", "skipped"}
    /\ \A t \in Node : s.status[t] = "skipped" => t \in s.skip
    /\ \A r \in Original : Routes[r] # {} /\ s.status[r] = "completed" =>
          s.selected[r] \in Routes[r]

Sane(s) == Known(s) /\ Joins(s) /\ Branches(s)

\* The nodes of a pass have no reason to be skipped.
TodoKept == pc = "scan" => todo \cap skip = {}

\* The last checkpoint and the run agree on what it recorded as settled.
Recorded == \A n \in Node : ckpt.status[n] \in Terminal => status[n] = ckpt.status[n]

BaseInv == TypeOK /\ DepsInv
OutcomeInv == Sane(Live) /\ Sane(ckpt) /\ TodoKept /\ Recorded

SettledStays == \A m \in Node : Settled(m) => status'[m] = status[m]

\* The type and dependency invariants of the scheduler, in one.
LEMMA BaseInvariant == Spec => []BaseInv
<1>1. TypeOK /\ DepsInv => BaseInv
  BY DEF BaseInv
<1>2. QED
  BY <1>1, DepsInit, DepsNext, TypeCorrect, PTL DEF Spec

\* The fields of the live snapshot.
LEMMA LiveFields ==
    /\ Live.status = status /\ Live.skip = skip /\ Live.selected = selected
    /\ Live.misrouted = misrouted /\ Live.expanded = expanded
    /\ Live.children = children
BY DEF Live, SnapshotRecord

-----------------------------------------------------------------------------
(* Steps on the graph.                                                     *)

\* Steps that leave the graph alone.
LEMMA GraphUntouched ==
    ASSUME Sane(Live), UNCHANGED graph
    PROVE  Sane(Live)' /\ SettledStays
BY DEF graph, Sane, Known, Joins, Branches, LeftOut, Live, SnapshotRecord, SettledStays

\* One node that is not settled takes a new status, unless it is a router that
\* completes; it is skipped if and only if it waits to be.
LEMMA OneNode ==
    ASSUME BaseInv, Sane(Live), NEW n \in Node, NEW s \in {"running"} \cup Terminal,
           status' = [status EXCEPT ![n] = s],
           UNCHANGED <<skip, selected, misrouted, expanded, children>>,
           status[n] \in {"queued", "running"},
           n \in Original /\ s = "completed" => Routes[n] = {},
           s = "skipped" <=> status[n] = "queued" /\ n \in skip,
           n \in expanded => /\ \A c \in children[n] : Settled(c)
                             /\ s = "completed" <=> \A c \in children[n] : status[c] = "completed"
    PROVE  Sane(Live)' /\ SettledStays
<1>t. /\ status \in [Node -> Status] /\ expanded \subseteq Original
      /\ misrouted \subseteq Original /\ children \in [Original -> SUBSET Generated]
      /\ Original \subseteq Node /\ Generated \subseteq Node
      /\ skip \subseteq Original /\ Original \cap Generated = {}
  BY GraphAssumption DEF BaseInv, TypeOK, Node
<1>s. /\ status'[n] = s
      /\ \A m \in Node : m # n => status'[m] = status[m]
      /\ s # "absent" /\ s # "queued"
  BY <1>t DEF Terminal
<1>r. n \notin misrouted
  BY DEF Sane, Known, Live, SnapshotRecord
<1>e. n \in expanded => status[n] = "running"
  BY DEF BaseInv, DepsInv, LiveDeps, Terminal
<1>1. SettledStays
  BY <1>s DEF SettledStays, Settled, Terminal
<1>2. Known(Live)'
  <2>1. /\ \A m \in misrouted : status'[m] = "failed"
        /\ \A m \in Node : status'[m] # "absent" <=> status[m] # "absent"
    BY <1>t, <1>s, <1>r DEF Sane, Known, Live, SnapshotRecord
  <2>2. QED
    BY <1>t, <2>1 DEF Sane, Known, Live, SnapshotRecord
<1>3. Joins(Live)'
  <2>1. ASSUME NEW p \in expanded PROVE status'[p] # "skipped"
    BY <1>t, <1>s, <1>e DEF Sane, Joins, Live, SnapshotRecord
  <2>2. ASSUME NEW p \in expanded, status'[p] \in Terminal
        PROVE  /\ \A c \in children[p] : status'[c] \in Terminal
               /\ status'[p] = "completed" <=>
                     \A c \in children[p] : status'[c] = "completed"
    <3>1. p \in Original /\ p \in Node /\ children[p] \subseteq Generated
      BY <1>t
    <3>2. CASE p = n
      <4>1. \A c \in children[p] : c # n /\ status'[c] = status[c]
        BY <1>t, <1>s, <3>1, <3>2
      <4>2. QED
        BY <1>s, <3>2, <4>1 DEF Settled
    <3>3. CASE p # n
      <4>1. status'[p] = status[p]
        BY <1>s, <3>1, <3>3
      <4>2. /\ \A c \in children[p] : status[c] \in Terminal
            /\ status[p] = "completed" <=> \A c \in children[p] : status[c] = "completed"
        BY <2>2, <4>1 DEF Sane, Joins, Live, SnapshotRecord
      <4>3. \A c \in children[p] : c # n /\ status'[c] = status[c]
        BY <1>t, <1>s, <3>1, <4>2 DEF Terminal
      <4>4. QED
        BY <4>1, <4>2, <4>3
    <3>4. QED
      BY <3>2, <3>3
  <2>3. QED
    BY <2>1, <2>2 DEF Joins, Live, SnapshotRecord
<1>4. Branches(Live)'
  <2>1. ASSUME NEW r \in Original, NEW t \in Targets(r)
        PROVE  LeftOut(Live, r, t)' <=> LeftOut(Live, r, t)
    <3>1. s = "completed" => r # n
      BY <2>1 DEF Targets
    <3>2. status'[r] = "completed" <=> status[r] = "completed"
      BY <1>t, <1>s, <3>1
    <3>3. QED
      BY <3>2 DEF LeftOut, Live, SnapshotRecord
  <2>2. \A t \in skip : status'[t] \in {"queued", "skipped"}
    BY <1>t, <1>s DEF Sane, Branches, Live, SnapshotRecord
  <2>3. \A t \in Node : status'[t] = "skipped" => t \in skip
    BY <1>s DEF Sane, Branches, Live, SnapshotRecord
  <2>4. \A r \in Original : Routes[r] # {} /\ status'[r] = "completed" =>
           selected[r] \in Routes[r]
    BY <1>t, <1>s DEF Sane, Branches, Live, SnapshotRecord
  <2>5. /\ \A r \in Original : \A t \in Targets(r) : LeftOut(Live, r, t)' => t \in skip
        /\ \A t \in skip : \E r \in Original : t \in Targets(r) /\ LeftOut(Live, r, t)'
    <3>1. /\ \A r \in Original : \A t \in Targets(r) : LeftOut(Live, r, t) => t \in skip
          /\ \A t \in skip : \E r \in Original : t \in Targets(r) /\ LeftOut(Live, r, t)
      BY LiveFields DEF Sane, Branches
    <3>2. QED
      BY <2>1, <3>1
  <2>6. Live'.skip = skip /\ Live'.status = status' /\ Live'.selected = selected
    BY DEF Live, SnapshotRecord
  <2>7. QED
    BY <2>2, <2>3, <2>4, <2>5, <2>6 DEF Branches, LeftOut
<1>5. QED
  BY <1>1, <1>2, <1>3, <1>4 DEF Sane

\* A router settles: what it leaves out has not started, since it depends on
\* the router, and gets a reason to be skipped unless it has one already.
LEMMA RouterSettles ==
    ASSUME BaseInv, Sane(Live), NEW n \in Original, NEW s \in {"completed", "failed"},
           NEW branch \in SUBSET Original,
           status[n] = "running", n \notin expanded,
           status' = [status EXCEPT ![n] = s],
           skip' = skip \cup {t \in Targets(n) \ branch : ~Settled(t)},
           \A r \in Original \ {n} : /\ selected'[r] = selected[r]
                                     /\ r \in misrouted' <=> r \in misrouted,
           misrouted' \subseteq Original,
           IF s = "completed"
           THEN n \notin misrouted' /\ selected'[n] = branch /\ branch \in Routes[n]
           ELSE n \in misrouted' /\ branch = {},
           UNCHANGED <<expanded, children>>
    PROVE  Sane(Live)' /\ SettledStays
<1>t. /\ status \in [Node -> Status] /\ expanded \subseteq Original
      /\ misrouted \subseteq Original /\ children \in [Original -> SUBSET Generated]
      /\ Original \subseteq Node /\ Generated \subseteq Node
      /\ skip \subseteq Original /\ Original \cap Generated = {}
  BY GraphAssumption DEF BaseInv, TypeOK, Node
<1>s. /\ status'[n] = s
      /\ \A m \in Node : m # n => status'[m] = status[m]
  BY <1>t
<1>v. /\ Live'.skip = skip' /\ Live'.status = status' /\ Live'.selected = selected'
      /\ Live'.misrouted = misrouted'
  BY DEF Live, SnapshotRecord
<1>1. SettledStays
  BY <1>s DEF SettledStays, Settled, Terminal
<1>2. Known(Live)'
  <2>1. \A m \in misrouted' : status'[m] = "failed"
    BY <1>t, <1>s DEF Sane, Known, Live, SnapshotRecord
  <2>2. \A m \in Node : status'[m] # "absent" <=> status[m] # "absent"
    BY <1>s
  <2>3. QED
    BY <1>t, <2>1, <2>2 DEF Sane, Known, Live, SnapshotRecord
<1>3. Joins(Live)'
  <2> SUFFICES ASSUME NEW p \in expanded
               PROVE  /\ status'[p] = status[p]
                      /\ \A c \in children[p] : status'[c] = status[c]
    BY LiveFields DEF Sane, Joins, Live, SnapshotRecord
  <2>1. p \in Original /\ status'[p] = status[p] /\ children[p] \subseteq Generated
    BY <1>t, <1>s
  <2>2. QED
    BY <1>t, <1>s, <2>1
<1>4. Branches(Live)'
  <2>o. /\ \A r \in Original : \A t \in Targets(r) : LeftOut(Live, r, t) => t \in skip
        /\ \A t \in skip : \E r \in Original : t \in Targets(r) /\ LeftOut(Live, r, t)
        /\ \A t \in skip : status[t] \in {"queued", "skipped"}
        /\ \A t \in Node : status[t] = "skipped" => t \in skip
        /\ \A r \in Original : Routes[r] # {} /\ status[r] = "completed" =>
              selected[r] \in Routes[r]
    BY LiveFields DEF Sane, Branches
  <2>1. ASSUME NEW t \in Targets(n)
        PROVE  /\ t \in Original /\ status[t] \in {"queued", "skipped"}
               /\ LeftOut(Live, n, t)' <=> t \notin branch
    <3>1. t \in Original /\ t \in Node /\ n \in DependsOn[Owner(t)] /\ ~Settled(n)
      BY <1>t, <2>1, TargetsKnown, GraphAssumption DEF Settled, Terminal, Owner
    <3>2. status[t] \notin {"running", "completed", "failed"}
      BY <3>1 DEF BaseInv, DepsInv, LiveDeps, StartsAfterDependencies
    <3>3. status[t] \in {"queued", "skipped"}
      BY <1>t, <3>1, <3>2 DEF Status, Terminal, Sane, Known, Live, SnapshotRecord
    <3>4. LeftOut(Live, n, t)' <=> t \notin branch
      BY <1>s, <1>t, <1>v DEF LeftOut
    <3>5. QED
      BY <3>1, <3>3, <3>4
  <2>2. ASSUME NEW r \in Original, r # n, NEW t \in Targets(r)
        PROVE  LeftOut(Live, r, t)' <=> LeftOut(Live, r, t)
    <3>1. status'[r] = status[r]
      BY <1>t, <1>s, <2>2
    <3>2. QED
      BY <1>v, <2>2, <3>1, LiveFields DEF LeftOut
  <2>3. skip' = skip \cup (Targets(n) \ branch)
    BY <2>1, <2>o, <1>t DEF Settled, Terminal
  <2>4. \A r \in Original : \A t \in Targets(r) : LeftOut(Live, r, t)' => t \in skip'
    BY <2>1, <2>2, <2>3, <2>o
  <2>5. \A t \in skip' : \E r \in Original : t \in Targets(r) /\ LeftOut(Live, r, t)'
    <3>1. ASSUME NEW t \in skip
          PROVE  \E r \in Original : t \in Targets(r) /\ LeftOut(Live, r, t)'
      <4>1. PICK r \in Original : t \in Targets(r) /\ LeftOut(Live, r, t)
        BY <2>o
      <4>2. r # n
        BY <4>1, LiveFields DEF LeftOut, Sane, Known
      <4>3. QED
        BY <4>1, <4>2, <2>2
    <3>2. \A t \in Targets(n) \ branch : LeftOut(Live, n, t)'
      BY <2>1
    <3>3. QED
      BY <2>3, <3>1, <3>2
  <2>6. \A t \in skip' : status'[t] \in {"queued", "skipped"}
    BY <1>t, <1>s, <2>1, <2>3, <2>o
  <2>7. \A t \in Node : status'[t] = "skipped" => t \in skip'
    BY <1>s, <2>3, <2>o
  <2>8. \A r \in Original : Routes[r] # {} /\ status'[r] = "completed" =>
           selected'[r] \in Routes[r]
    BY <1>t, <1>s, <2>o
  <2>9. QED
    BY <1>v, <2>4, <2>5, <2>6, <2>7, <2>8 DEF Branches
<1>5. QED
  BY <1>1, <1>2, <1>3, <1>4 DEF Sane

\* An expansion puts absent nodes into the queue, none of them a child of
\* another parent, and its parent waits for them.
LEMMA ExpansionKeeps ==
    ASSUME BaseInv, Sane(Live), NEW n \in Node, NEW kids \in SUBSET Generated,
           Expand(n, kids)
    PROVE  Sane(Live)' /\ SettledStays
<1>t. /\ status \in [Node -> Status] /\ expanded \subseteq Original
      /\ misrouted \subseteq Original /\ children \in [Original -> SUBSET Generated]
      /\ Original \subseteq Node /\ Generated \subseteq Node
      /\ Original \cap Generated = {}
  BY GraphAssumption DEF BaseInv, TypeOK, Node
<1>n. /\ n \in Original /\ n \notin expanded /\ Mode[n] # "spawn"
      /\ n \in running /\ work[n] = "attempt"
  BY DEF Expand, IsDispatch, Attempting
<1>r. status[n] = "running"
  BY <1>n DEF BaseInv, DepsInv, LiveDeps
<1>k. /\ kids \subseteq Siblings(n) /\ Cardinality(kids) <= MaxChildren
      /\ Mode[n] = "sends" => kids = DeclaredSends[n]
  BY <1>n, DispatchAssumption DEF Expand
<1>a. \A k \in kids : status[k] = "absent"
  BY <1>n, <1>k DEF BaseInv, DepsInv, LiveDeps, Siblings
<1>s. /\ \A m \in Node \ kids : status'[m] = status[m]
      /\ \A k \in kids : status'[k] = "queued"
      /\ expanded' = expanded \cup {n} /\ children' = [children EXCEPT ![n] = kids]
      /\ UNCHANGED <<skip, selected, misrouted>>
  BY <1>t DEF Expand
<1>1. SettledStays
  BY <1>a, <1>s DEF SettledStays, Settled, Terminal
<1>2. Known(Live)'
  <2>o. /\ \A m \in Original : status[m] # "absent"
        /\ \A g \in Generated : status[g] # "absent" =>
              ParentOf[g] \in expanded /\ g \in children[ParentOf[g]]
        /\ \A p \in expanded :
              /\ Mode[p] # "spawn"
              /\ children[p] \subseteq Siblings(p)
              /\ \A c \in children[p] : status[c] # "absent"
              /\ Cardinality(children[p]) <= MaxChildren
              /\ Mode[p] = "sends" => children[p] = DeclaredSends[p]
        /\ \A m \in misrouted : status[m] = "failed"
    BY LiveFields DEF Sane, Known
  <2>1. /\ \A m \in Original : status'[m] # "absent"
        /\ \A r \in misrouted' : status'[r] = "failed"
    BY <1>t, <1>s, <2>o
  <2>2. ASSUME NEW g \in Generated, status'[g] # "absent"
        PROVE  ParentOf[g] \in expanded' /\ g \in children'[ParentOf[g]]
    <3>1. CASE g \in kids
      BY <1>t, <1>n, <1>k, <1>s, <3>1 DEF Siblings
    <3>2. CASE g \notin kids
      <4>1. ParentOf[g] \in expanded /\ g \in children[ParentOf[g]]
        BY <1>t, <1>s, <2>2, <2>o, <3>2
      <4>2. QED
        BY <1>t, <1>n, <1>s, <4>1
    <3>3. QED
      BY <3>1, <3>2
  <2>3. ASSUME NEW p \in expanded'
        PROVE  /\ Mode[p] # "spawn"
               /\ children'[p] \subseteq Siblings(p)
               /\ \A c \in children'[p] : status'[c] # "absent"
               /\ Cardinality(children'[p]) <= MaxChildren
               /\ Mode[p] = "sends" => children'[p] = DeclaredSends[p]
    <3>1. CASE p = n
      BY <1>t, <1>n, <1>k, <1>s, <3>1
    <3>2. CASE p # n
      <4>1. p \in expanded /\ p \in Original /\ children'[p] = children[p]
        BY <1>t, <1>s, <2>3, <3>2
      <4>2. \A c \in children[p] : c \in Node /\ status'[c] # "absent"
        BY <1>t, <1>s, <2>o, <4>1
      <4>3. QED
        BY <2>o, <4>1, <4>2
    <3>3. QED
      BY <3>1, <3>2
  <2>4. QED
    BY <2>1, <2>2, <2>3 DEF Known, Live, SnapshotRecord
<1>3. Joins(Live)'
  <2>1. ASSUME NEW p \in expanded', p # n
        PROVE  /\ p \in expanded /\ status'[p] = status[p] /\ children'[p] = children[p]
               /\ \A c \in children[p] : status'[c] = status[c]
    <3>1. p \in expanded /\ p \in Original /\ status'[p] = status[p]
      BY <1>t, <1>s, <2>1
    <3>2. children'[p] = children[p] /\ children[p] \subseteq Siblings(p)
      BY <1>t, <1>s, <2>1, <3>1 DEF Sane, Known, Live, SnapshotRecord
    <3>3. \A c \in children[p] : c \in Node \ kids
      BY <1>t, <1>k, <2>1, <3>1, <3>2 DEF Siblings
    <3>4. QED
      BY <1>s, <3>1, <3>2, <3>3
  <2>2. status'[n] = "running"
    BY <1>t, <1>n, <1>r, <1>s
  <2>3. \A p \in expanded' : status'[p] # "skipped"
    BY <2>1, <2>2 DEF Sane, Joins, Live, SnapshotRecord
  <2>4. ASSUME NEW p \in expanded', status'[p] \in Terminal
        PROVE  /\ \A c \in children'[p] : status'[c] \in Terminal
               /\ status'[p] = "completed" <=>
                     \A c \in children'[p] : status'[c] = "completed"
    <3>1. p # n
      BY <2>2, <2>4 DEF Terminal
    <3>2. QED
      BY <2>1, <2>4, <3>1 DEF Sane, Joins, Live, SnapshotRecord
  <2>5. QED
    BY <2>3, <2>4 DEF Joins, Live, SnapshotRecord
<1>4. Branches(Live)'
  <2>1. \A m \in Original : status'[m] = status[m]
    BY <1>t, <1>s
  <2>2. \A m \in Node : status'[m] = "skipped" => status[m] = "skipped"
    BY <1>s
  <2>3. \A r \in Original : \A t : LeftOut(Live, r, t)' <=> LeftOut(Live, r, t)
    BY <1>s, <2>1 DEF LeftOut, Live, SnapshotRecord
  <2>4. Live'.skip = Live.skip /\ Live'.status = status' /\ Live'.selected = Live.selected
    BY <1>s DEF Live, SnapshotRecord
  <2>5. Live.skip \subseteq Original
    BY DEF Live, SnapshotRecord, BaseInv, TypeOK
  <2>6. QED
    BY <2>1, <2>2, <2>3, <2>4, <2>5, LiveFields DEF Sane, Branches
<1>5. QED
  BY <1>1, <1>2, <1>3, <1>4 DEF Sane

-----------------------------------------------------------------------------
(* The steps of a run.                                                     *)

\* A step of the main loop.
LEMMA LoopKeeps ==
    ASSUME BaseInv, Sane(Live), TodoKept, LoopStep
    PROVE  Sane(Live)' /\ SettledStays
<1>t. /\ status \in [Node -> Status] /\ expanded \subseteq Original /\ todo \subseteq Node
      /\ Original \subseteq Node
  BY GraphAssumption DEF BaseInv, TypeOK, Node
<1>1. CASE SettleSkippedNode
  <2>1. PICK n \in skip \cap Queued : status' = [status EXCEPT ![n] = "skipped"]
    BY <1>1 DEF SettleSkippedNode
  <2>2. n \in Node /\ status[n] = "queued"
    BY DEF Queued
  <2>3. n \notin expanded
    BY <2>2 DEF BaseInv, DepsInv, LiveDeps, Terminal
  <2>4. "skipped" \in {"running"} \cup Terminal
    BY DEF Terminal
  <2>5. QED
    BY <1>1, <2>1, <2>2, <2>3, <2>4, OneNode DEF SettleSkippedNode
<1>2. CASE SettleExpandedParent
  <2> DEFINE Verdict(p) == IF \A c \in children[p] : status[c] = "completed"
                           THEN "completed" ELSE "failed"
  <2>1. PICK p \in Joinable : status' = [status EXCEPT ![p] = Verdict(p)]
    BY <1>2 DEF SettleExpandedParent
  <2>2. /\ p \in expanded /\ p \in Node /\ ~Settled(p)
        /\ \A c \in children[p] : Settled(c)
    BY <1>t DEF Joinable
  <2>3. status[p] = "running"
    BY <2>2 DEF BaseInv, DepsInv, LiveDeps, Settled
  <2>4. Routes[p] = {}
    <3>1. p \in Original /\ Mode[p] # "spawn"
      BY <1>t, <2>2 DEF Sane, Known, Live, SnapshotRecord
    <3>2. QED
      BY <3>1, GraphAssumption
  <2>5. /\ Verdict(p) \in {"running"} \cup Terminal
        /\ Verdict(p) # "skipped"
        /\ Verdict(p) = "completed" <=> \A c \in children[p] : status[c] = "completed"
    BY DEF Terminal
  <2> HIDE DEF Verdict
  <2>6. QED
    BY <1>2, <2>1, <2>2, <2>3, <2>4, <2>5, OneNode DEF SettleExpandedParent
<1>3. CASE ScanNext
  <2>1. PICK n \in todo : Launch(n) \/ (~CanAcquire(n) /\ UNCHANGED <<status, slots>>)
    BY <1>3 DEF ScanNext
  <2>2. CASE Launch(n)
    <3>1. n \in Node /\ status[n] = "queued" /\ n \notin skip
      BY <1>3, <1>t DEF ScanNext, TodoKept, BaseInv, DepsInv, TodoReady
    <3>2. n \notin expanded
      BY <3>1 DEF BaseInv, DepsInv, LiveDeps, Terminal
    <3>3. QED
      BY <1>3, <2>2, <3>1, <3>2, OneNode DEF ScanNext, Launch
  <2>3. CASE UNCHANGED <<status, slots>>
    BY <1>3, <2>3, GraphUntouched DEF ScanNext, graph
  <2>4. QED
    BY <2>1, <2>2, <2>3
<1>4. CASE SkipsSettled \/ BeginPass \/ ScanEnd \/ Wake \/ Drained
  BY <1>4, GraphUntouched DEF SkipsSettled, BeginPass, ScanEnd, Wake, Drained
<1>5. QED
  BY <1>1, <1>2, <1>3, <1>4 DEF LoopStep

\* A node that is being worked on settles.
LEMMA WorkSettles ==
    ASSUME BaseInv, Sane(Live), NEW n \in Node, NEW s \in {"completed", "failed"},
           n \in running, work[n] \in {"attempt", "backoff"},
           status' = [status EXCEPT ![n] = s],
           UNCHANGED <<skip, selected, misrouted, expanded, children>>,
           n \in Original /\ s = "completed" => Routes[n] = {}
    PROVE  Sane(Live)' /\ SettledStays
<1>1. status[n] = "running" /\ n \notin expanded
  BY DEF BaseInv, DepsInv, LiveDeps
<1>2. s \in {"running"} \cup Terminal /\ s # "skipped"
  BY DEF Terminal
<1>3. QED
  BY <1>1, <1>2, OneNode

\* A step of the promise of a node.
LEMMA NodeKeeps ==
    ASSUME BaseInv, Sane(Live), NEW n \in Node, NodeStep(n)
    PROVE  Sane(Live)' /\ SettledStays
<1>t. selected \in [Original -> SUBSET Original] /\ misrouted \subseteq Original
  BY DEF BaseInv, TypeOK
<1>1. ASSUME Attempting(n)
      PROVE  n \in running /\ work[n] = "attempt" /\ status[n] = "running" /\ n \notin expanded
  BY <1>1 DEF Attempting, BaseInv, DepsInv, LiveDeps
<1>f. ASSUME FailNode(n), n \in running, work[n] \in {"attempt", "backoff"}
      PROVE  Sane(Live)' /\ SettledStays
  BY <1>f, WorkSettles DEF FailNode
<1>2. CASE Complete(n)
  BY <1>1, <1>2, WorkSettles DEF Complete
<1>3. ASSUME NEW branch \in SUBSET Original, RouteTo(n, branch)
      PROVE  Sane(Live)' /\ SettledStays
  <2>1. n \in Original /\ status[n] = "running" /\ n \notin expanded
    BY <1>1, <1>3 DEF RouteTo
  <2>2. n \notin misrouted
    BY <2>1 DEF Sane, Known, Live, SnapshotRecord
  <2>3. /\ selected'[n] = branch /\ misrouted' = misrouted
        /\ \A r \in Original \ {n} : selected'[r] = selected[r]
    BY <1>3, <1>t, <2>1 DEF RouteTo
  <2>4. QED
    BY <1>3, <1>t, <2>1, <2>2, <2>3, RouterSettles DEF RouteTo
<1>4. CASE Misroute(n)
  <2>1. n \in Original /\ status[n] = "running" /\ n \notin expanded
    BY <1>1, <1>4 DEF Misroute
  <2>2. /\ n \in misrouted' /\ misrouted' \subseteq Original
        /\ \A r \in Original \ {n} : /\ selected'[r] = selected[r]
                                     /\ r \in misrouted' <=> r \in misrouted
    BY <1>4, <1>t, <2>1 DEF Misroute
  <2>3. skip' = skip \cup {t \in Targets(n) \ {} : ~Settled(t)}
    BY <1>4 DEF Misroute
  <2>4. /\ status' = [status EXCEPT ![n] = "failed"]
        /\ UNCHANGED <<expanded, children>>
    BY <1>4 DEF Misroute
  <2>5. {} \in SUBSET Original /\ "failed" \in {"completed", "failed"}
    OBVIOUS
  <2>6. QED
    BY <2>1, <2>2, <2>3, <2>4, <2>5, RouterSettles
<1>5. ASSUME NEW kids \in SUBSET Generated, Expand(n, kids)
      PROVE  Sane(Live)' /\ SettledStays
  BY <1>5, ExpansionKeeps
<1>6. CASE AttemptFails(n) \/ AttemptCancelled(n)
  BY <1>1, <1>6, <1>f DEF AttemptFails, AttemptCancelled
<1>7. CASE BackoffEnds(n)
  <2>1. CASE FailNode(n)
    BY <1>7, <2>1, <1>f DEF BackoffEnds
  <2>2. CASE UNCHANGED graph
    BY <2>2, GraphUntouched
  <2>3. QED
    BY <1>7, <2>1, <2>2 DEF BackoffEnds
<1>8. CASE AttemptBacksOff(n) \/ Release(n)
  BY <1>8, GraphUntouched DEF AttemptBacksOff, Release
<1>9. QED
  BY <1>2, <1>3, <1>4, <1>5, <1>6, <1>7, <1>8 DEF NodeStep

\* A run resumed from a sane checkpoint starts from a sane graph.
LEMMA ResumeKeeps ==
    ASSUME BaseInv, Sane(ckpt), Resume
    PROVE  Sane(Live)' /\ (\A n \in Node : ckpt.status[n] \in Terminal => status'[n] = ckpt.status[n])
<1>t. /\ ckpt.status \in [Node -> Status] /\ ckpt.expanded \subseteq Original
      /\ ckpt.misrouted \subseteq Original /\ ckpt.children \in [Original -> SUBSET Generated]
      /\ Original \subseteq Node /\ Generated \subseteq Node
  BY DEF BaseInv, TypeOK, Node
<1>s. /\ \A n \in Node : ckpt.status[n] \in Terminal \cup {"absent"} => status'[n] = ckpt.status[n]
      /\ \A n \in Node : ckpt.status[n] \notin Terminal \cup {"absent"} =>
            status'[n] = IF n \in ckpt.expanded THEN "running" ELSE "queued"
      /\ skip' = ckpt.skip /\ selected' = ckpt.selected /\ misrouted' = ckpt.misrouted
      /\ expanded' = ckpt.expanded /\ children' = ckpt.children
  BY DEF Resume
<1>e. \A n \in Node : status'[n] = ckpt.status[n] \/ status'[n] \in {"running", "queued"}
  BY <1>s
<1>a. \A n \in Node : status'[n] = "absent" <=> ckpt.status[n] = "absent"
  BY <1>s
<1>v. /\ Live'.skip = ckpt.skip /\ Live'.status = status' /\ Live'.selected = ckpt.selected
      /\ Live'.misrouted = ckpt.misrouted /\ Live'.expanded = ckpt.expanded
      /\ Live'.children = ckpt.children
  BY <1>s DEF Live, SnapshotRecord
<1>1. Known(Live)'
  <2>1. \A r \in ckpt.misrouted : status'[r] = "failed"
    BY <1>t, <1>s DEF Sane, Known, Terminal
  <2>2. QED
    BY <1>t, <1>a, <1>v, <2>1 DEF Sane, Known
<1>2. Joins(Live)'
  <2>1. \A p \in ckpt.expanded : status'[p] # "skipped"
    BY <1>t, <1>e DEF Sane, Joins
  <2>2. ASSUME NEW p \in ckpt.expanded, status'[p] \in Terminal
        PROVE  /\ \A c \in ckpt.children[p] : status'[c] \in Terminal
               /\ status'[p] = "completed" <=>
                     \A c \in ckpt.children[p] : status'[c] = "completed"
    <3>1. ckpt.status[p] = status'[p] /\ ckpt.children[p] \subseteq Node
      BY <1>t, <1>e, <2>2 DEF Terminal
    <3>2. /\ \A c \in ckpt.children[p] : ckpt.status[c] \in Terminal
          /\ ckpt.status[p] = "completed" <=>
                \A c \in ckpt.children[p] : ckpt.status[c] = "completed"
      BY <2>2, <3>1 DEF Sane, Joins
    <3>3. \A c \in ckpt.children[p] : status'[c] = ckpt.status[c]
      BY <1>s, <3>1, <3>2
    <3>4. QED
      BY <3>1, <3>2, <3>3
  <2>3. QED
    BY <1>v, <2>1, <2>2 DEF Joins
<1>3. Branches(Live)'
  <2>1. \A r \in Node : status'[r] = "completed" <=> ckpt.status[r] = "completed"
    BY <1>s, <1>e DEF Terminal
  <2>2. \A t \in Node : status'[t] = "skipped" <=> ckpt.status[t] = "skipped"
    BY <1>s, <1>e DEF Terminal
  <2>3. \A r \in Original : \A t : LeftOut(Live, r, t)' <=> LeftOut(ckpt, r, t)
    BY <1>t, <1>v, <2>1 DEF LeftOut
  <2>4. ASSUME NEW t \in ckpt.skip PROVE status'[t] \in {"queued", "skipped"}
    <3>1. t \in Node /\ ckpt.status[t] \in {"queued", "skipped"}
      BY <1>t, <2>4 DEF Sane, Branches, BaseInv, TypeOK
    <3>2. t \in ckpt.expanded => ckpt.status[t] # "queued"
      BY DEF BaseInv, DepsInv, CkptDeps, Terminal
    <3>3. QED
      BY <1>s, <2>2, <3>1, <3>2 DEF Terminal
  <2>5. QED
    BY <1>t, <1>v, <2>1, <2>2, <2>3, <2>4 DEF Sane, Branches
<1>4. QED
  BY <1>1, <1>2, <1>3, <1>s DEF Sane

-----------------------------------------------------------------------------
(* The invariant.                                                          *)

\* A step of a run copies the graph into the checkpoint, or leaves it.
LEMMA CheckpointSteps ==
    ASSUME [Next]_vars
    PROVE  EmitCheckpoint \/ UNCHANGED ckpt
<1>1. CASE LoopStep
  BY <1>1 DEF LoopStep, SettleSkippedNode, SkipsSettled, SettleExpandedParent, BeginPass,
              ScanNext, ScanEnd, Wake, Drained
<1>2. ASSUME NEW n \in Node, NodeStep(n) PROVE EmitCheckpoint \/ UNCHANGED ckpt
  BY <1>2 DEF NodeStep, Complete, Misroute, RouteTo, Expand, AttemptFails, AttemptBacksOff,
              BackoffEnds, AttemptCancelled, Release, FailNode
<1>3. CASE Abort \/ Resume \/ UNCHANGED vars
  BY <1>3 DEF Abort, Resume, vars
<1>4. QED
  BY <1>1, <1>2, <1>3 DEF Next, Stopped

\* An emitted checkpoint is the graph as the step leaves it.
LEMMA EmittedIsLive ==
    ASSUME EmitCheckpoint, Sane(Live)'
    PROVE  Sane(ckpt)' /\ Recorded'
<1>1. /\ ckpt'.status = status' /\ ckpt'.skip = skip' /\ ckpt'.selected = selected'
      /\ ckpt'.misrouted = misrouted' /\ ckpt'.expanded = expanded'
      /\ ckpt'.children = children'
  BY DEF EmitCheckpoint, SnapshotRecord
<1>2. Recorded'
  BY <1>1 DEF Recorded
<1>3. QED
  BY <1>1, <1>2 DEF Sane, Known, Joins, Branches, LeftOut, Live, SnapshotRecord

\* What a pass has left to launch is not to be skipped.
LEMMA TodoStep ==
    ASSUME BaseInv, TodoKept, [Next]_vars
    PROVE  TodoKept'
<1>1. CASE LoopStep
  BY <1>1 DEF LoopStep, SettleSkippedNode, SkipsSettled, SettleExpandedParent, BeginPass,
              ScanNext, ScanEnd, Wake, Drained, TodoKept, SortedReady, loop, graph
<1>2. ASSUME NEW n \in Node, NodeStep(n) PROVE TodoKept'
  <2>1. pc' # "scan"
    BY <1>2 DEF NodeStep, Complete, Misroute, RouteTo, Expand, AttemptFails, AttemptBacksOff,
                BackoffEnds, AttemptCancelled, Release, FailNode, Attempting, Yielded, loop
  <2>2. QED
    BY <2>1 DEF TodoKept
<1>3. CASE Abort \/ Resume \/ UNCHANGED vars
  BY <1>3 DEF Abort, Resume, vars, TodoKept, loop, graph
<1>4. QED
  BY <1>1, <1>2, <1>3 DEF Next, Stopped

\* A step of a run keeps the graph sane and settled nodes as they are.
LEMMA RunKeeps ==
    ASSUME BaseInv, Sane(Live), TodoKept, [Next]_vars, ~Resume
    PROVE  Sane(Live)' /\ SettledStays
<1>1. CASE UNCHANGED graph
  BY <1>1, GraphUntouched
<1>2. QED
  BY <1>1, LoopKeeps, NodeKeeps DEF Next, Stopped, Abort, vars

\* A fresh run starts with nothing decided.
LEMMA OutcomeInit == Init => OutcomeInv
<1> SUFFICES ASSUME Init PROVE OutcomeInv
  OBVIOUS
<1>1. \A n \in Node : status[n] = IF n \in Original THEN "queued" ELSE "absent"
  BY DEF Init
<1>2. Original \subseteq Node
  BY DEF Node
<1>g. \A g \in Generated : g \in Node /\ status[g] = "absent"
  BY <1>1, GraphAssumption DEF Node
<1>i. skip = {} /\ misrouted = {} /\ expanded = {}
  BY DEF Init
<1>k. Known(Live) /\ Joins(Live)
  BY <1>1, <1>2, <1>g, <1>i, LiveFields DEF Known, Joins
<1>b. Branches(Live)
  BY <1>1, <1>2, <1>i, LiveFields DEF Branches, LeftOut
<1>3. Sane(Live)
  BY <1>k, <1>b DEF Sane
<1>4. /\ ckpt.status = status /\ ckpt.skip = skip /\ ckpt.selected = selected
      /\ ckpt.misrouted = misrouted /\ ckpt.expanded = expanded
      /\ ckpt.children = children
  BY DEF Init, SnapshotRecord
<1>5. Sane(ckpt)
  BY <1>3, <1>4 DEF Sane, Known, Joins, Branches, LeftOut, Live, SnapshotRecord
<1>6. QED
  BY <1>3, <1>4, <1>5 DEF OutcomeInv, TodoKept, Recorded, Init

\* Every step of the scheduler keeps the outcome invariant.
LEMMA OutcomeNext == BaseInv /\ OutcomeInv /\ [Next]_vars => OutcomeInv'
<1> SUFFICES ASSUME BaseInv, OutcomeInv, [Next]_vars PROVE OutcomeInv'
  OBVIOUS
<1>1. TodoKept'
  BY TodoStep DEF OutcomeInv
<1>2. CASE Resume
  <2>1. Sane(Live)' /\ UNCHANGED ckpt
    BY <1>2, ResumeKeeps DEF OutcomeInv, Resume
  <2>2. Sane(ckpt)' /\ Recorded'
    BY <1>2, <2>1, ResumeKeeps DEF OutcomeInv, Recorded, Sane, Known, Joins, Branches, LeftOut
  <2>3. QED
    BY <1>1, <2>1, <2>2 DEF OutcomeInv
<1>3. CASE ~Resume
  <2>1. Sane(Live)' /\ SettledStays
    BY <1>3, RunKeeps DEF OutcomeInv
  <2>2. CASE EmitCheckpoint
    BY <1>1, <2>1, <2>2, EmittedIsLive DEF OutcomeInv
  <2>3. CASE UNCHANGED ckpt
    <3>1. Sane(ckpt)'
      BY <2>3 DEF OutcomeInv, Sane, Known, Joins, Branches, LeftOut
    <3>2. Recorded'
      BY <2>1, <2>3 DEF OutcomeInv, Recorded, SettledStays, Settled
    <3>3. QED
      BY <1>1, <2>1, <3>1, <3>2 DEF OutcomeInv
  <2>4. QED
    BY <2>2, <2>3, CheckpointSteps
<1>4. QED
  BY <1>2, <1>3

\* The outcome invariant holds in every run.
LEMMA OutcomeInvariant == Spec => []OutcomeInv
BY OutcomeInit, OutcomeNext, BaseInvariant, PTL DEF Spec

-----------------------------------------------------------------------------

\* A branch no router selected never runs, for every graph: not when another
\* router selects it, not after a failed or unknown route, not in a resumed
\* run (applyRoute, settleSkippedNodes and the seeding of a resumed run).
THEOREM UnselectedStaysOut == Spec => []UnselectedNeverRuns
<1>1. OutcomeInv => UnselectedNeverRuns
  BY DEF OutcomeInv, Sane, Branches, LeftOut, Live, SnapshotRecord, UnselectedNeverRuns
<1>2. QED
  BY <1>1, OutcomeInvariant, PTL

\* A dispatch parent is the join of its children, with any number of them,
\* through failures, aborts and resumptions (settleExpandedParents).
THEOREM ParentsJoin == Spec => []JoinConsistent
<1>1. BaseInv /\ OutcomeInv => JoinConsistent
  <2> SUFFICES ASSUME BaseInv, OutcomeInv, NEW p \in expanded
               PROVE  /\ Settled(p) => \A c \in children[p] : Settled(c)
                      /\ Settled(p) => (status[p] = "completed" <=>
                            \A c \in children[p] : status[c] = "completed")
                      /\ ~Settled(p) => status[p] = "running"
    BY DEF JoinConsistent
  <2>1. ~Settled(p) => status[p] = "running"
    BY DEF BaseInv, DepsInv, LiveDeps, Settled
  <2>2. QED
    BY <2>1 DEF OutcomeInv, Sane, Joins, Live, SnapshotRecord, Settled
<1>2. QED
  BY <1>1, BaseInvariant, OutcomeInvariant, PTL

\* What a checkpoint has recorded as settled is neither run again nor changed,
\* by the run that emitted it or by one resumed from it, however often.
THEOREM RecordedStays == Spec => RecordedWorkKept
<1> DEFINE Kept == \A n \in Node : ckpt.status[n] \in Terminal =>
                      /\ status'[n] = ckpt.status[n]
                      /\ ckpt'.status[n] = ckpt.status[n]
                      /\ n \in running' => n \in running
<1>1. BaseInv /\ OutcomeInv /\ [Next]_vars => [Kept]_vars
  <2> SUFFICES ASSUME BaseInv, OutcomeInv, [Next]_vars PROVE Kept
    OBVIOUS
  <2>1. \A n \in Node : ckpt.status[n] \in Terminal => status'[n] = ckpt.status[n]
    BY RunKeeps, ResumeKeeps DEF OutcomeInv, Recorded, SettledStays, Settled
  <2>2. ckpt' = ckpt \/ ckpt'.status = status'
    BY CheckpointSteps DEF EmitCheckpoint, SnapshotRecord
  <2>3. \A n \in running' \ running : status[n] \notin Terminal
    <3>1. CASE ScanNext
      <4>1. PICK n \in todo : Launch(n) \/ (~CanAcquire(n) /\ UNCHANGED <<status, slots>>)
        BY <3>1 DEF ScanNext
      <4>2. status[n] = "queued"
        BY <3>1 DEF ScanNext, BaseInv, DepsInv, TodoReady
      <4>3. QED
        BY <4>1, <4>2 DEF Launch, slots, Terminal
    <3>2. CASE ~ScanNext
      BY <3>2 DEF Next, LoopStep, SettleSkippedNode, SkipsSettled, SettleExpandedParent,
                  BeginPass, ScanEnd, Wake, Drained, NodeStep, Complete, Misroute, RouteTo,
                  Expand, AttemptFails, AttemptBacksOff, BackoffEnds, AttemptCancelled,
                  Release, FailNode, Abort, Resume, Stopped, vars, slots
    <3>3. QED
      BY <3>1, <3>2
  <2>4. QED
    BY <2>1, <2>2, <2>3 DEF OutcomeInv, Recorded
<1>2. QED
  BY <1>1, BaseInvariant, OutcomeInvariant, PTL DEF Spec, RecordedWorkKept

\* The skip frontier by its two parts, and its members.
ByRoute(cp) == UNION {Targets(r) \ cp.selected[r] :
                        r \in {n \in Original : Routes[n] # {} /\ cp.status[n] = "completed"}}
ByFailure(cp) == UNION {Targets(r) : r \in cp.misrouted}

\* What a resume leaves out at once: the targets a completed router did not
\* select, and every target of a router that misrouted.
LEMMA FrontierMembers ==
    ASSUME NEW cp, NEW t
    PROVE  t \in SkipFrontier(cp) <=>
              \/ \E r \in Original : /\ Routes[r] # {} /\ cp.status[r] = "completed"
                                     /\ t \in Targets(r) \ cp.selected[r]
              \/ \E r \in cp.misrouted : t \in Targets(r)
<1>1. SkipFrontier(cp) = ByRoute(cp) \cup ByFailure(cp)
  BY DEF SkipFrontier, ByRoute, ByFailure
<1>2. t \in ByRoute(cp) <=>
         \E r \in Original : /\ Routes[r] # {} /\ cp.status[r] = "completed"
                             /\ t \in Targets(r) \ cp.selected[r]
  BY DEF ByRoute
<1>3. t \in ByFailure(cp) <=> \E r \in cp.misrouted : t \in Targets(r)
  BY DEF ByFailure
<1>4. t \in SkipFrontier(cp) <=> t \in ByRoute(cp) \/ t \in ByFailure(cp)
  BY <1>1
<1>5. QED
  BY <1>2, <1>3, <1>4, Zenon

\* The checkpoint an executor emits, at whatever moment of whatever run, has
\* the form its own reader demands (emitCheckpoint and validateV2Topology):
\* the graph is in that form at every moment.
THEOREM CheckpointsLoad == Spec => []EmittedCheckpointsLoad
<1>1. BaseInv /\ OutcomeInv => ValidV2Topology(ckpt)
  <2> SUFFICES ASSUME BaseInv, OutcomeInv PROVE ValidV2Topology(ckpt)
    OBVIOUS
  <2>t. /\ ckpt.status \in [Node -> Status] /\ ckpt.expanded \subseteq Original
        /\ ckpt.misrouted \subseteq Original /\ ckpt.skip \subseteq Original
        /\ ckpt.children \in [Original -> SUBSET Generated]
        /\ Original \subseteq Node /\ Generated \subseteq Node /\ Node = Original \cup Generated
    BY DEF BaseInv, TypeOK, Node
  <2>s. Known(ckpt) /\ Joins(ckpt) /\ Branches(ckpt)
    BY DEF OutcomeInv, Sane
  <2>1. TopologyRebuilds(ckpt)
    <3>1. CkptNodes(ckpt) \subseteq Original \cup UNION {ckpt.children[p] : p \in ckpt.expanded}
      BY <2>t, <2>s DEF CkptNodes, Known
    <3>2. Original \subseteq CkptNodes(ckpt)
      BY <2>t, <2>s DEF CkptNodes, Known
    <3>3. UNION {ckpt.children[p] : p \in ckpt.expanded} \subseteq CkptNodes(ckpt)
      <4> SUFFICES ASSUME NEW p \in ckpt.expanded, NEW c \in ckpt.children[p]
                   PROVE  c \in CkptNodes(ckpt)
        OBVIOUS
      <4>1. c \in Node /\ ckpt.status[c] # "absent"
        BY <2>t, <2>s DEF Known
      <4>2. QED
        BY <4>1 DEF CkptNodes
    <3>4. QED
      BY <2>s, <3>1, <3>2, <3>3 DEF TopologyRebuilds, Known
  <2>2. ExpansionsAgree(ckpt)
    BY <2>s DEF ExpansionsAgree, Joins, CkptSettled, Terminal
  <2>3. SkipsAgree(ckpt)
    <3>1. ckpt.skip \subseteq SkipFrontier(ckpt)
      <4> SUFFICES ASSUME NEW t \in ckpt.skip PROVE t \in SkipFrontier(ckpt)
        OBVIOUS
      <4>1. PICK r \in Original : t \in Targets(r) /\ LeftOut(ckpt, r, t)
        BY <2>s DEF Branches
      <4>2. Routes[r] # {}
        BY <4>1 DEF Targets
      <4>3. QED
        BY <4>1, <4>2, FrontierMembers DEF LeftOut
    <3>2. SkipFrontier(ckpt) \subseteq ckpt.skip
      <4> SUFFICES ASSUME NEW t \in SkipFrontier(ckpt) PROVE t \in ckpt.skip
        OBVIOUS
      <4>1. \E r \in Original : t \in Targets(r) /\ LeftOut(ckpt, r, t)
        BY <2>t, FrontierMembers DEF LeftOut
      <4>2. QED
        BY <2>s, <4>1 DEF Branches
    <3>3. QED
      BY <2>t, <2>s, <3>1, <3>2 DEF SkipsAgree, Branches, CkptNodes
  <2>4. QED
    BY <2>1, <2>2, <2>3 DEF ValidV2Topology
<1>2. ValidV2Topology(ckpt) => EmittedCheckpointsLoad
  BY DEF EmittedCheckpointsLoad
<1>3. QED
  BY <1>1, <1>2, BaseInvariant, OutcomeInvariant, PTL

-----------------------------------------------------------------------------
(* Waves.  A node whose status is "running" is worked on or was expanded,  *)
(* so what is in play is in the graph, and the recursion of planWaves      *)
(* along its dependencies ends.                                            *)

WorkOrChildren ==
    /\ \A n \in Node : status[n] = "running" =>
          n \in expanded \/ (n \in running /\ work[n] \in {"attempt", "backoff"})
    /\ running \subseteq Present
    /\ \A p \in Original \ expanded : children[p] = {}
    /\ \A p \in Original \ ckpt.expanded : ckpt.children[p] = {}

\* A finite set of numbers has a largest one.
LEMMA MaxExists ==
    ASSUME NEW X \in SUBSET Nat, IsFiniteSet(X), X # {}
    PROVE  Max(X) \in X /\ \A y \in X : y <= Max(X)
<1> DEFINE N == Cardinality(X)
           Good == {k \in 0..N : \A Y \in SUBSET Nat :
                       IsFiniteSet(Y) /\ Cardinality(Y) = k /\ Y # {} =>
                         \E m \in Y : \A y \in Y : y <= m}
<1>1. N \in Nat
  BY FS_CardinalityType
<1>2. 0 \in Good
  BY <1>1, FS_EmptySet
<1>3. ASSUME NEW k \in 0..N, k \in Good, k + 1 <= N PROVE k + 1 \in Good
  <2>1. ASSUME NEW Y \in SUBSET Nat, IsFiniteSet(Y), Cardinality(Y) = k + 1, Y # {}
        PROVE  \E m \in Y : \A y \in Y : y <= m
    <3>1. PICK x \in Y : TRUE
      BY <2>1
    <3>2. IsFiniteSet(Y \ {x}) /\ Cardinality(Y \ {x}) = k
      <4>1. IsFiniteSet(Y \ {x}) /\ Cardinality(Y \ {x}) = Cardinality(Y) - 1
        BY <2>1, <3>1, FS_RemoveElement
      <4>2. QED
        BY <1>1, <2>1, <4>1
    <3>3. CASE Y \ {x} = {}
      BY <3>1, <3>3
    <3>4. CASE Y \ {x} # {}
      <4>1. PICK m \in Y \ {x} : \A y \in Y \ {x} : y <= m
        BY <1>3, <2>1, <3>2, <3>4
      <4>2. m \in Nat /\ x \in Nat
        BY <2>1, <3>1, <4>1
      <4>3. CASE x <= m
        BY <4>1, <4>3
      <4>4. CASE ~(x <= m)
        BY <2>1, <3>1, <4>1, <4>2, <4>4
      <4>5. QED
        BY <4>3, <4>4
    <3>5. QED
      BY <3>3, <3>4
  <2>2. k + 1 \in 0..N
    BY <1>1, <1>3
  <2> HIDE DEF N
  <2>3. QED
    BY <2>1, <2>2
<1> HIDE DEF Good
<1>4. \A k \in 0..N : k \in Good
  <2> HIDE DEF N
  <2>1. \A k \in 0..N : k \in Good /\ k + 1 <= N => k + 1 \in Good
    BY <1>3
  <2>2. QED
    BY <1>1, <1>2, <2>1, Ascend
<1>5. \E m \in X : \A y \in X : y <= m
  BY <1>1, <1>4 DEF Good
<1>6. \E m \in X : \A y \in X : m >= y
  BY <1>5
<1>7. Max(X) \in X /\ \A y \in X : Max(X) >= y
  BY <1>6 DEF Max
<1>8. QED
  BY <1>7

\* A nonempty set of naturals has a least element, and Min finds it.
LEMMA MinExists ==
    ASSUME NEW X \in SUBSET Nat, X # {}
    PROVE  Min(X) \in X /\ \A y \in X : Min(X) <= y
<1>1. \E m \in X : \A y \in X : m <= y
  BY LeastNat
<1>2. QED
  BY <1>1 DEF Min

\* The acyclic graph ranks its nodes; generated ones come right below their parent.
LEMMA NodeRanks ==
    \E rank \in [Node -> 0..(2 * Cardinality(Original) + 1)] :
        /\ \A n \in Node : \A d \in DependsOn[Owner(n)] : rank[d] < rank[n]
        /\ \A g \in Generated : rank[g] < rank[ParentOf[g]]
<1> DEFINE C == Cardinality(Original)
<1>1. PICK low \in [Original -> 0..C] : \A n \in Original : \A d \in DependsOn[n] : low[d] < low[n]
  BY GraphAssumption
<1>2. C \in Nat
  BY GraphAssumption, FS_CardinalityType
<1> HIDE DEF C
<1>3. /\ DependsOn \in [Original -> SUBSET Original] /\ Original \cap Generated = {}
      /\ \A g \in Generated : ParentOf[g] \in Original
      /\ Node = Original \cup Generated
  BY GraphAssumption, DispatchAssumption DEF Node
<1> DEFINE rank == [n \in Node |-> IF n \in Original THEN 2 * low[n] + 1 ELSE 2 * low[ParentOf[n]]]
<1>4. \A n \in Original : low[n] \in 0..C
  BY <1>1
<1>5. /\ \A n \in Original : rank[n] = 2 * low[n] + 1
      /\ \A g \in Generated : rank[g] = 2 * low[ParentOf[g]]
  BY <1>3
<1>6. rank \in [Node -> 0..(2 * C + 1)]
  <2>1. \A n \in Node : rank[n] \in 0..(2 * C + 1)
    <3> HIDE DEF rank
    <3>1. QED
      BY <1>2, <1>3, <1>4, <1>5
  <2>2. QED
    BY <2>1
<1> HIDE DEF rank
<1>7. ASSUME NEW n \in Node, NEW d \in DependsOn[Owner(n)] PROVE rank[d] < rank[n]
  <2>1. Owner(n) \in Original /\ d \in Original /\ low[d] < low[Owner(n)]
    BY <1>1, <1>3 DEF Owner
  <2>2. rank[n] >= 2 * low[Owner(n)]
    BY <1>2, <1>3, <1>4, <1>5 DEF Owner
  <2>3. QED
    BY <1>2, <1>4, <1>5, <2>1, <2>2, <1>6
<1>8. ASSUME NEW g \in Generated PROVE rank[g] < rank[ParentOf[g]]
  BY <1>2, <1>3, <1>4, <1>5
<1>9. QED
  BY <1>6, <1>7, <1>8 DEF C

\* Waves are numbers, and a node lies above whatever it depends on.
Waves ==
    /\ \A n \in Present : Deps(n) \subseteq Present
    /\ Wave \in [Present -> Nat]
    /\ \A n \in Present :
          Wave[n] = IF Deps(n) = {} THEN 0 ELSE 1 + Max({Wave[d] : d \in Deps(n)})
    /\ \A n \in Present : \A d \in Deps(n) : Wave[d] < Wave[n]

\* The dependencies of a node in the graph are in the graph, lower in rank.
LEMMA PresentDeps ==
    ASSUME BaseInv, Known(Live), WorkOrChildren
    PROVE  /\ \A n \in Present : Deps(n) \subseteq Present
           /\ IsFiniteSet(Present) /\ Present \subseteq Node
           /\ \E rank \in [Node -> 0..(2 * Cardinality(Original) + 1)] :
                 \A n \in Present : \A d \in Deps(n) : rank[d] < rank[n]
<1>t. /\ expanded \subseteq Original /\ children \in [Original -> SUBSET Generated]
      /\ Node = Original \cup Generated /\ Original \cap Generated = {}
      /\ IsFiniteSet(Node) /\ Present \subseteq Node
  BY GraphAssumption, FS_Union DEF BaseInv, TypeOK, Node, Present
<1>1. PICK rank \in [Node -> 0..(2 * Cardinality(Original) + 1)] :
        /\ \A n \in Node : \A d \in DependsOn[Owner(n)] : rank[d] < rank[n]
        /\ \A g \in Generated : rank[g] < rank[ParentOf[g]]
  BY NodeRanks
<1>2. \A p \in Original : \A c \in children[p] :
         p \in expanded /\ status[c] # "absent" /\ c \in Generated /\ ParentOf[c] = p
  BY <1>t, LiveFields DEF Known, Siblings, WorkOrChildren
<1>3. ASSUME NEW n \in Present, NEW d \in Deps(n)
      PROVE  d \in Present /\ rank[d] < rank[n]
  <2>1. CASE d \in DependsOn[Owner(n)]
    <3>1. d \in Original /\ n \in Node
      BY <1>t, <2>1, DependsOnKnown
    <3>2. d \in Present
      BY <1>t, <3>1, LiveFields DEF Known, Present
    <3>3. QED
      BY <1>1, <2>1, <3>1, <3>2
  <2>2. CASE n \in Original /\ d \in children[n]
    BY <1>1, <1>2, <1>t, <2>2 DEF Present
  <2>3. QED
    BY <2>1, <2>2 DEF Deps
<1>4. IsFiniteSet(Present)
  BY <1>t, FS_Subset
<1>5. QED
  BY <1>t, <1>1, <1>3, <1>4

\* In every expanded graph the scheduler runs, waves are computed.
LEMMA WavesCount == BaseInv /\ Known(Live) /\ WorkOrChildren => Waves
<1> SUFFICES ASSUME BaseInv, Known(Live), WorkOrChildren PROVE Waves
  OBVIOUS
<1> DEFINE S == Present
           K == 2 * Cardinality(Original) + 1
           below == [n \in S |-> Deps(n)]
           Above(X) == IF X = {} THEN 0 ELSE 1 + Max(X)
           value == [n \in S |-> [X \in FiniteSubsets(Nat) |-> Above(X)]]
           Solves(v) == v = [n \in Present |->
                               IF Deps(n) = {} THEN 0 ELSE 1 + Max({v[d] : d \in Deps(n)})]
<1>1. /\ \A n \in S : Deps(n) \subseteq S
      /\ IsFiniteSet(S) /\ S \subseteq Node
  BY PresentDeps
<1>2. PICK high \in [Node -> 0..K] : \A n \in S : \A d \in Deps(n) : high[d] < high[n]
  BY PresentDeps
<1> DEFINE rank == [n \in S |-> high[n]]
<1>3. K \in Nat
  BY GraphAssumption, FS_CardinalityType
<1>4. /\ below \in [S -> SUBSET S]
      /\ rank \in [S -> 0..K]
      /\ \A n \in S : \A d \in below[n] : rank[d] < rank[n]
  <2> HIDE DEF K, S
  <2>1. \A n \in S : below[n] = Deps(n) /\ rank[n] = high[n] /\ high[n] \in 0..K
    BY <1>1, <1>2
  <2>2. \A n \in S : \A d \in Deps(n) : d \in S /\ rank[d] < rank[n]
    BY <1>1, <1>2, <2>1
  <2>3. below \in [S -> SUBSET S] /\ rank \in [S -> 0..K]
    BY <1>1, <2>1
  <2>4. QED
    BY <2>1, <2>2, <2>3
<1>5. \A X \in FiniteSubsets(Nat) : Above(X) \in Nat
  <2>1. ASSUME NEW X \in FiniteSubsets(Nat), X # {} PROVE 1 + Max(X) \in Nat
    <3>1. X \in SUBSET Nat /\ IsFiniteSet(X)
      BY DEF FiniteSubsets
    <3>2. Max(X) \in Nat
      BY <2>1, <3>1, MaxExists
    <3>3. QED
      BY <3>2
  <2>2. QED
    BY <2>1
<1>6. value \in [S -> [FiniteSubsets(Nat) -> Nat]]
  <2> HIDE DEF Above
  <2>1. QED
    BY <1>5
<1>7. PICK f : Computes(f, S, below, Nat, value)
  <2> HIDE DEF S, K, below, rank, value
  <2>1. IsFiniteSet(S)
    BY <1>1
  <2>2. Recursive(S, below, K, rank, Nat, value)
    BY <1>3, <1>4, <1>6, <2>1 DEF Recursive
  <2>3. QED
    BY <2>2, GraphRecursion
<1>f. f = [n \in S |-> f[n]] /\ \A n \in S : f[n] \in Nat
  BY <1>7 DEF Computes
<1>8. \A n \in S : {f[d] : d \in Deps(n)} \in FiniteSubsets(Nat)
             /\ (Deps(n) = {} <=> {f[d] : d \in Deps(n)} = {})
  <2>1. ASSUME NEW n \in S
        PROVE  /\ {f[d] : d \in Deps(n)} \in FiniteSubsets(Nat)
               /\ Deps(n) = {} <=> {f[d] : d \in Deps(n)} = {}
    <3> DEFINE img == {f[d] : d \in Deps(n)}
               g == [d \in Deps(n) |-> f[d]]
    <3>1. IsFiniteSet(Deps(n))
      BY <1>1, FS_Subset
    <3>2. g \in Surjection(Deps(n), img)
      BY DEF Surjection
    <3>3. IsFiniteSet(img)
      BY <3>1, <3>2, FS_Surjection
    <3>4. img \in SUBSET Nat
      BY <1>1, <1>f
    <3>5. QED
      BY <3>3, <3>4 DEF FiniteSubsets
  <2>2. QED
    BY <2>1
<1>9. Solves(f)
  <2>1. ASSUME NEW n \in S
        PROVE  f[n] = IF Deps(n) = {} THEN 0 ELSE 1 + Max({f[d] : d \in Deps(n)})
    <3>1. f[n] = value[n][{f[d] : d \in below[n]}]
      <4> HIDE DEF value, below, S
      <4>1. QED
        BY <1>7 DEF Computes
    <3>2. below[n] = Deps(n)
      OBVIOUS
    <3>3. value[n] = [X \in FiniteSubsets(Nat) |-> Above(X)]
      OBVIOUS
    <3>4. f[n] = Above({f[d] : d \in Deps(n)})
      <4> HIDE DEF value, below, S, Above
      <4>1. QED
        BY <1>8, <3>1, <3>2, <3>3
    <3>5. QED
      BY <1>8, <3>4
  <2>2. f = [n \in S |-> f[n]]
    BY <1>f
  <2>3. QED
    BY <2>1, <2>2
<1> DEFINE w == CHOOSE v : Solves(v)
<1>10. Solves(w)
  <2> HIDE DEF Solves
  <2>1. QED
    BY <1>9, Zenon
<1>11. Wave = w
  BY DEF Wave
<1>12. /\ DOMAIN Wave = Present
       /\ \A n \in Present :
             Wave[n] = IF Deps(n) = {} THEN 0 ELSE 1 + Max({Wave[d] : d \in Deps(n)})
       /\ Wave = [n \in Present |-> Wave[n]]
  <2> HIDE DEF w
  <2>1. QED
    BY <1>10, <1>11
<1> DEFINE Numbers == {n \in S : Wave[n] \in Nat}
<1>13. ASSUME NEW n \in S, \A d \in Deps(n) : Wave[d] \in Nat
       PROVE  Wave[n] \in Nat /\ \A d \in Deps(n) : Wave[d] < Wave[n]
  <2> DEFINE img == {Wave[d] : d \in Deps(n)}
             g == [d \in Deps(n) |-> Wave[d]]
  <2>1. IsFiniteSet(Deps(n))
    BY <1>1, FS_Subset
  <2>2. g \in Surjection(Deps(n), img)
    BY DEF Surjection
  <2>3. IsFiniteSet(img)
    BY <2>1, <2>2, FS_Surjection
  <2>4. img \in SUBSET Nat
    BY <1>13
  <2>5. CASE Deps(n) = {}
    <3>1. Wave[n] = 0
      BY <1>12, <2>5
    <3>2. QED
      BY <2>5, <3>1
  <2>6. CASE Deps(n) # {}
    <3>1. img # {}
      BY <2>6
    <3>2. Wave[n] = 1 + Max(img)
      BY <1>12, <2>6
    <3> HIDE DEF img
    <3>3. Max(img) \in img /\ \A y \in img : y <= Max(img)
      BY <2>3, <2>4, <3>1, MaxExists
    <3>4. \A d \in Deps(n) : Wave[d] \in img
      BY DEF img
    <3>5. Max(img) \in Nat
      BY <2>4, <3>3
    <3>6. ASSUME NEW d \in Deps(n) PROVE Wave[d] < Wave[n]
      <4>1. Wave[d] \in Nat /\ Wave[d] <= Max(img)
        BY <1>13, <3>3, <3>4
      <4>2. QED
        BY <3>2, <3>5, <4>1
    <3>7. QED
      BY <3>2, <3>5, <3>6
  <2>7. QED
    BY <2>5, <2>6
<1>14. S \subseteq Numbers
  <2>1. rank \in [S -> Nat]
    BY <1>3, <1>4
  <2>2. \A n \in S : (\A m \in S : rank[m] < rank[n] => m \in Numbers) => n \in Numbers
    <3> SUFFICES ASSUME NEW n \in S, \A m \in S : rank[m] < rank[n] => m \in Numbers
                 PROVE  n \in Numbers
      OBVIOUS
    <3>1. \A d \in Deps(n) : d \in S /\ rank[d] < rank[n]
      <4>1. below[n] = Deps(n)
        OBVIOUS
      <4> HIDE DEF below, rank, S
      <4>2. QED
        BY <1>1, <1>4, <4>1
    <3>2. \A d \in Deps(n) : Wave[d] \in Nat
      BY <3>1
    <3>3. QED
      BY <1>13, <3>2
  <2> HIDE DEF Numbers, rank, S
  <2>3. QED
    BY <2>1, <2>2, RankInduction
<1>15. \A n \in S : Wave[n] \in Nat /\ \A d \in Deps(n) : Wave[d] < Wave[n]
  <2>1. \A n \in S : Wave[n] \in Nat
    BY <1>14
  <2>2. QED
    BY <1>1, <1>13, <2>1
<1>16. QED
  BY <1>1, <1>12, <1>15 DEF Waves

\* A step of the loop or of a node keeps the form of work and children.
LEMMA WorkStep == BaseInv /\ WorkOrChildren /\ [Next]_vars => WorkOrChildren'
<1> SUFFICES ASSUME BaseInv, WorkOrChildren, [Next]_vars PROVE WorkOrChildren'
  OBVIOUS
<1>t. /\ status \in [Node -> Status] /\ expanded \subseteq Original
      /\ ckpt.status \in [Node -> Status] /\ ckpt.expanded \subseteq Original
      /\ work \in [Node -> {"idle", "attempt", "backoff", "settled", "expanded"}]
      /\ children \in [Original -> SUBSET Generated]
      /\ Original \subseteq Node
  BY DEF BaseInv, TypeOK, Node
<1> DEFINE Worked == \A n \in Node : status[n] = "running" =>
                        n \in expanded \/ (n \in running /\ work[n] \in {"attempt", "backoff"})
           Childless == \A p \in Original \ expanded : children[p] = {}
<1>1. Childless'
  <2>1. CASE UNCHANGED <<expanded, children>>
    BY <2>1 DEF WorkOrChildren
  <2>2. CASE Resume
    BY <2>2 DEF Resume, WorkOrChildren
  <2>3. ASSUME NEW n \in Node, NEW kids \in SUBSET Generated, Expand(n, kids)
        PROVE  Childless'
    BY <1>t, <2>3 DEF Expand, IsDispatch, WorkOrChildren
  <2>4. QED
    BY <2>1, <2>2, <2>3
    DEF Next, LoopStep, NodeStep, SettleSkippedNode, SkipsSettled, SettleExpandedParent,
        BeginPass, ScanNext, ScanEnd, Wake, Drained, Complete, Misroute, RouteTo,
        AttemptFails, AttemptBacksOff, BackoffEnds, AttemptCancelled, Release, FailNode,
        Abort, Stopped, vars, graph
<1>2. \A p \in Original \ ckpt'.expanded : ckpt'.children[p] = {}
  <2>1. CASE EmitCheckpoint
    BY <1>1, <2>1 DEF EmitCheckpoint, SnapshotRecord
  <2>2. QED
    BY <2>1, CheckpointSteps DEF WorkOrChildren
<1>3. Worked'
  <2>1. CASE LoopStep
    <3>1. CASE SettleSkippedNode \/ SettleExpandedParent
      BY <1>t, <3>1 DEF SettleSkippedNode, SettleExpandedParent, slots, WorkOrChildren
    <3>2. CASE ScanNext
      BY <1>t, <3>2 DEF ScanNext, Launch, slots, WorkOrChildren
    <3>3. CASE SkipsSettled \/ BeginPass \/ ScanEnd \/ Wake \/ Drained
      BY <3>3 DEF SkipsSettled, BeginPass, ScanEnd, Wake, Drained, graph, slots, WorkOrChildren
    <3>4. QED
      BY <2>1, <3>1, <3>2, <3>3 DEF LoopStep
  <2>2. ASSUME NEW n \in Node, NodeStep(n) PROVE Worked'
    <3>1. CASE Complete(n) \/ Misroute(n) \/ AttemptFails(n) \/ AttemptCancelled(n)
               \/ \E branch \in SUBSET Original : RouteTo(n, branch)
      BY <1>t, <3>1 DEF Complete, Misroute, AttemptFails, AttemptCancelled, RouteTo, FailNode,
                        SettleWork, WorkOrChildren
    <3>2. ASSUME NEW kids \in SUBSET Generated, Expand(n, kids) PROVE Worked'
      <4>1. /\ status' = [m \in Node |-> IF m \in kids THEN "queued" ELSE status[m]]
            /\ expanded' = expanded \cup {n} /\ running' = running
            /\ work' = [work EXCEPT ![n] = "expanded"]
        BY <3>2 DEF Expand
      <4>2. ASSUME NEW m \in Node, status'[m] = "running", m # n
            PROVE  m \in expanded' \/ (m \in running' /\ work'[m] \in {"attempt", "backoff"})
        <5>1. status[m] = "running" /\ work'[m] = work[m]
          BY <1>t, <4>1, <4>2
        <5>2. QED
          BY <4>1, <5>1 DEF WorkOrChildren
      <4>3. QED
        BY <4>1, <4>2
    <3>3. CASE AttemptBacksOff(n) \/ BackoffEnds(n)
      BY <1>t, <3>3 DEF AttemptBacksOff, BackoffEnds, FailNode, SettleWork, graph, WorkOrChildren
    <3>4. CASE Release(n)
      BY <1>t, <3>4 DEF Release, graph, WorkOrChildren
    <3>5. QED
      BY <2>2, <3>1, <3>2, <3>3, <3>4 DEF NodeStep
  <2>3. CASE Resume
    <3>1. \A n \in Node : status'[n] = IF ckpt.status[n] \in Terminal \cup {"absent"}
                                       THEN ckpt.status[n]
                                       ELSE IF n \in ckpt.expanded THEN "running" ELSE "queued"
      BY <2>3 DEF Resume
    <3>2. \A n \in Node : status'[n] = "running" => n \in ckpt.expanded
      BY <3>1 DEF Terminal
    <3>3. expanded' = ckpt.expanded
      BY <2>3 DEF Resume
    <3>4. QED
      BY <3>2, <3>3
  <2>4. CASE Abort \/ UNCHANGED vars
    BY <2>4 DEF Abort, vars, graph, slots, WorkOrChildren
  <2>5. QED
    BY <2>1, <2>2, <2>3, <2>4 DEF Next, Stopped
<1>4. running' \subseteq Present'
  <2>1. CASE LoopStep
    <3>1. CASE ScanNext
      <4>1. PICK n \in todo : Launch(n) \/ UNCHANGED <<status, slots>>
        BY <3>1 DEF ScanNext
      <4>2. CASE Launch(n)
        <5>1. running' = running \cup {n} /\ status' = [status EXCEPT ![n] = "running"]
          BY <4>2 DEF Launch
        <5>2. n \in Node
          BY DEF BaseInv, TypeOK
        <5>3. QED
          BY <1>t, <5>1, <5>2 DEF Present, WorkOrChildren
      <4>3. CASE UNCHANGED <<status, slots>>
        BY <4>3 DEF slots, Present, WorkOrChildren
      <4>4. QED
        BY <4>1, <4>2, <4>3
    <3>2. CASE SettleSkippedNode \/ SettleExpandedParent
      BY <1>t, <3>2 DEF SettleSkippedNode, SettleExpandedParent, slots, Present, WorkOrChildren
    <3>3. CASE SkipsSettled \/ BeginPass \/ ScanEnd \/ Wake \/ Drained
      BY <3>3 DEF SkipsSettled, BeginPass, ScanEnd, Wake, Drained, graph, slots, Present,
                  WorkOrChildren
    <3>4. QED
      BY <2>1, <3>1, <3>2, <3>3 DEF LoopStep
  <2>2. ASSUME NEW n \in Node, NodeStep(n) PROVE running' \subseteq Present'
    <3>1. /\ running' \subseteq running
          /\ \A m \in Node : status[m] # "absent" => status'[m] # "absent"
      BY <1>t, <2>2 DEF NodeStep, Complete, Misroute, RouteTo, Expand, AttemptFails,
         AttemptBacksOff, BackoffEnds, AttemptCancelled, Release, FailNode, graph
    <3>2. QED
      BY <3>1 DEF Present, WorkOrChildren
  <2>3. CASE Abort \/ Resume \/ UNCHANGED vars
    BY <2>3 DEF Abort, Resume, vars, graph, slots, Present, WorkOrChildren
  <2>4. QED
    BY <2>1, <2>2, <2>3 DEF Next, Stopped
<1>5. QED
  BY <1>1, <1>2, <1>3, <1>4 DEF WorkOrChildren

\* When the run begins nothing is worked on and nothing is generated.
LEMMA WorkInit == Init => WorkOrChildren
<1> SUFFICES ASSUME Init PROVE WorkOrChildren
  OBVIOUS
<1>1. /\ children = [n \in Original |-> {}] /\ ckpt.children = children /\ running = {}
      /\ \A n \in Node : status[n] # "running"
  BY DEF Init, SnapshotRecord
<1>2. QED
  BY <1>1 DEF WorkOrChildren

\* In every run what is in play is in the graph, and only expanded nodes have
\* children.
LEMMA WorkInvariant == Spec => []WorkOrChildren
BY WorkInit, WorkStep, BaseInvariant, PTL DEF Spec

\* In every run waves are computed.
LEMMA WavesInvariant == Spec => []Waves
<1>1. BaseInv /\ OutcomeInv /\ WorkOrChildren => Waves
  BY WavesCount DEF OutcomeInv, Sane
<1>2. QED
  BY <1>1, BaseInvariant, OutcomeInvariant, WorkInvariant, PTL

\* The wave of a node stays while the nodes and the children stay.
LEMMA WavesStay ==
    ASSUME BaseInv, Known(Live), WorkOrChildren, Waves, Waves',
           Present' = Present, UNCHANGED children
    PROVE  \A n \in Present : Wave'[n] = Wave[n]
<1>1. /\ \A n \in Present : Deps(n) \subseteq Present
      /\ Present \subseteq Node
  BY PresentDeps
<1>2. PICK high \in [Node -> 0..(2 * Cardinality(Original) + 1)] :
         \A n \in Present : \A d \in Deps(n) : high[d] < high[n]
  BY PresentDeps
<1> DEFINE S == Present
           rank == [n \in S |-> high[n]]
           Stays == {n \in S : Wave'[n] = Wave[n]}
<1>3. \A n \in S :
         /\ Wave[n] = IF Deps(n) = {} THEN 0 ELSE 1 + Max({Wave[d] : d \in Deps(n)})
         /\ Wave'[n] = IF Deps(n) = {} THEN 0 ELSE 1 + Max({Wave'[d] : d \in Deps(n)})
  <2>1. \A n : Deps(n)' = Deps(n)
    BY DEF Deps, Owner
  <2>2. QED
    BY <2>1 DEF Waves
<1>4. rank \in [S -> Nat] /\ \A n \in S : \A d \in Deps(n) : rank[d] < rank[n]
  <2>1. \A n \in S : high[n] \in Nat /\ rank[n] = high[n]
    <3>1. Cardinality(Original) \in Nat
      BY GraphAssumption, FS_CardinalityType
    <3>2. QED
      BY <1>1, <1>2, <3>1
  <2>2. rank \in [S -> Nat]
    BY <2>1
  <2> HIDE DEF rank
  <2>3. QED
    BY <1>1, <1>2, <2>1, <2>2
<1>5. \A n \in S : (\A m \in S : rank[m] < rank[n] => m \in Stays) => n \in Stays
  <2> SUFFICES ASSUME NEW n \in S, \A m \in S : rank[m] < rank[n] => m \in Stays
               PROVE  n \in Stays
    OBVIOUS
  <2>1. \A d \in Deps(n) : d \in Stays
    <3> HIDE DEF rank
    <3>1. QED
      BY <1>1, <1>4
  <2>2. \A d \in Deps(n) : Wave'[d] = Wave[d]
    BY <2>1
  <2>3. {Wave'[d] : d \in Deps(n)} = {Wave[d] : d \in Deps(n)}
    BY <2>2
  <2>4. QED
    BY <1>3, <2>3
<1> HIDE DEF S, rank, Stays
<1>6. S \subseteq Stays
  BY <1>4, <1>5, RankInduction
<1>7. QED
  BY <1>6 DEF S, Stays

InPlay == IF running # {} THEN running ELSE Queued

\* The current wave is the first one in play.
LEMMA FirstInPlay ==
    ASSUME WorkOrChildren, Waves, InPlay # {}
    PROVE  /\ \E n \in InPlay : Wave[n] = CurrentWave
           /\ \A n \in InPlay : CurrentWave <= Wave[n]
           /\ CurrentWave \in Nat
<1> DEFINE X == {Wave[n] : n \in InPlay}
<1>1. InPlay \subseteq Present
  BY DEF InPlay, WorkOrChildren, Queued, Present
<1>2. X \in SUBSET Nat /\ X # {}
  BY <1>1 DEF Waves
<1>3. CurrentWave = Min(X)
  BY DEF CurrentWave, InPlay
<1>4. \A n \in InPlay : Wave[n] \in X
  OBVIOUS
<1>5. Min(X) \in X /\ \A y \in X : Min(X) <= y
  <2> HIDE DEF X
  <2>1. QED
    BY <1>2, MinExists
<1>6. \E n \in InPlay : Wave[n] = CurrentWave
  BY <1>3, <1>5
<1> HIDE DEF X
<1>7. QED
  BY <1>2, <1>3, <1>4, <1>5, <1>6

\* A step that moves no node leaves the waves and the current one alone.
LEMMA CurrentStays ==
    ASSUME BaseInv, Known(Live), WorkOrChildren, Waves, Waves',
           UNCHANGED <<status, children, running>>
    PROVE  /\ \A n \in Present : Wave'[n] = Wave[n]
           /\ CurrentWave' = CurrentWave
<1>1. Present' = Present /\ Queued' = Queued
  BY DEF Present, Queued
<1>2. \A n \in Present : Wave'[n] = Wave[n]
  BY <1>1, WavesStay
<1>3. InPlay \subseteq Present /\ InPlay' = InPlay
  BY <1>1 DEF InPlay, WorkOrChildren, Queued, Present
<1>4. {Wave'[n] : n \in InPlay} = {Wave[n] : n \in InPlay}
  BY <1>2, <1>3
<1>5. CurrentWave = Min({Wave[n] : n \in InPlay}) /\ CurrentWave' = Min({Wave'[n] : n \in InPlay'})
  BY DEF CurrentWave, InPlay
<1>6. QED
  BY <1>2, <1>3, <1>4, <1>5

\* Launching a node of the current wave leaves the current wave as it is.
LEMMA LaunchStaysInWave ==
    ASSUME BaseInv, Known(Live), WorkOrChildren, Waves, Waves',
           NEW n \in Node, status[n] = "queued", Launch(n), UNCHANGED children,
           Wave[n] = CurrentWave
    PROVE  /\ \A m \in Present : Wave'[m] = Wave[m]
           /\ CurrentWave' = CurrentWave
<1>1. /\ status \in [Node -> Status] /\ running' = running \cup {n}
      /\ status' = [status EXCEPT ![n] = "running"]
  BY DEF Launch, BaseInv, TypeOK
<1>2. Present' = Present /\ n \in Present
  BY <1>1 DEF Present
<1>3. \A m \in Present : Wave'[m] = Wave[m]
  BY <1>2, WavesStay
<1>4. InPlay' = running \cup {n} /\ InPlay' # {} /\ running \subseteq Present
  BY <1>1 DEF InPlay, WorkOrChildren
<1> DEFINE Y == {Wave[m] : m \in running \cup {n}}
<1>5. CurrentWave' = Min(Y)
  <2>1. {Wave'[m] : m \in running \cup {n}} = Y
    BY <1>2, <1>3, <1>4
  <2>2. CurrentWave' = Min({Wave'[m] : m \in InPlay'})
    BY DEF CurrentWave, InPlay
  <2>3. QED
    BY <1>4, <2>1, <2>2
<1>6. InPlay # {}
  BY <1>1, <1>2 DEF InPlay, Queued
<1>7. CurrentWave \in Nat /\ \A m \in running : CurrentWave <= Wave[m]
  BY <1>6, FirstInPlay DEF InPlay
<1>8. Min(Y) = CurrentWave
  <2>1. Y \in SUBSET Nat /\ CurrentWave \in Y
    BY <1>2, <1>4 DEF Waves
  <2>2. \A y \in Y : CurrentWave <= y
    BY <1>7
  <2> HIDE DEF Y
  <2>3. Min(Y) \in Y /\ \A y \in Y : Min(Y) <= y
    BY <2>1, MinExists
  <2>4. Min(Y) <= CurrentWave /\ CurrentWave <= Min(Y) /\ Min(Y) \in Nat
    BY <2>1, <2>2, <2>3
  <2>5. QED
    BY <1>7, <2>4
<1>9. QED
  BY <1>3, <1>5, <1>8

-----------------------------------------------------------------------------
(* Launch passes.  A pass begins with nothing left to skip or to join,     *)
(* what it passed over is still leased, and with the wave scheduler all it *)
(* has left is of the current wave, which a launch does not change.  A     *)
(* stuck pass would have an unsettled node that waits for nothing.         *)

PassKept ==
    /\ pc \in {"parents", "scan"} => skip \cap Queued = {}
    /\ pc = "scan" => /\ Joinable = {}
                      /\ \E n \in Present : ~Settled(n)
                      /\ \A m \in SortedReady \ todo : ~CanAcquire(m)
                      /\ Scheduler = "wave" => \A m \in todo : Wave[m] = CurrentWave

PassInv == PassKept /\ termination # "blocked"

\* Among unsettled original nodes one depends on settled nodes only.
LEMMA LeastUnsettled ==
    ASSUME NEW o \in Original, ~Settled(o)
    PROVE  \E m \in Original : ~Settled(m) /\ \A d \in DependsOn[m] : Settled(d)
<1>1. PICK rank \in [Original -> 0..Cardinality(Original)] :
         \A n \in Original : \A d \in DependsOn[n] : rank[d] < rank[n]
  BY GraphAssumption
<1>2. \A n \in Original : rank[n] \in Nat
  BY <1>1, GraphAssumption, FS_CardinalityType
<1>3. DependsOn \in [Original -> SUBSET Original]
  BY GraphAssumption
<1> DEFINE ranks == {rank[n] : n \in {k \in Original : ~Settled(k)}}
<1>4. ranks \subseteq Nat /\ rank[o] \in ranks
  BY <1>2
<1>5. PICK r \in ranks : \A s \in ranks : ~ (<<s, r>> \in OpToRel(<, Nat))
  BY <1>4, NatLessThanWellFounded, WFMin
<1>6. PICK m \in Original : ~Settled(m) /\ r = rank[m]
  OBVIOUS
<1>7. ASSUME NEW d \in DependsOn[m], ~Settled(d) PROVE FALSE
  <2>1. d \in Original /\ rank[d] \in ranks /\ rank[d] < r
    BY <1>1, <1>3, <1>6, <1>7
  <2>2. rank[d] \in Nat /\ r \in Nat
    BY <1>4, <2>1
  <2>3. QED
    BY <1>5, <2>1, <2>2 DEF OpToRel
<1>8. QED
  BY <1>6, <1>7

\* While nothing is in flight, a graph with an unsettled node has one that
\* waits for nothing.
LEMMA SomeNodeFree ==
    ASSUME BaseInv, OutcomeInv, WorkOrChildren,
           running = {}, skip \cap Queued = {}, Joinable = {},
           \E n \in Present : ~Settled(n)
    PROVE  \E n \in Queued \ skip : \A d \in Deps(n) : Settled(d)
<1>t. /\ status \in [Node -> Status] /\ expanded \subseteq Original
      /\ skip \subseteq Original /\ children \in [Original -> SUBSET Generated]
      /\ Node = Original \cup Generated /\ Original \cap Generated = {}
      /\ \A g \in Generated : ParentOf[g] \in Original
  BY GraphAssumption, DispatchAssumption DEF BaseInv, TypeOK, Node
<1>s. Known(Live) /\ Joins(Live)
  BY DEF OutcomeInv, Sane
<1>1. \E o \in Original : ~Settled(o)
  <2>1. PICK n \in Present : ~Settled(n)
    OBVIOUS
  <2>2. CASE n \in Original
    BY <2>1, <2>2
  <2>3. CASE n \in Generated
    <3>1. ParentOf[n] \in expanded /\ n \in children[ParentOf[n]]
      BY <1>s, <2>3, LiveFields DEF Known, Present
    <3>2. ~Settled(ParentOf[n])
      BY <1>s, <2>1, <3>1, LiveFields DEF Joins, Settled
    <3>3. QED
      BY <1>t, <2>3, <3>2
  <2>4. QED
    BY <1>t, <2>1, <2>2, <2>3 DEF Present
<1>2. PICK m \in Original : ~Settled(m) /\ \A d \in DependsOn[m] : Settled(d)
  BY <1>1, LeastUnsettled
<1>3. status[m] \in {"queued", "running"} /\ m \in Node
  BY <1>t, <1>s, <1>2, LiveFields DEF Known, Settled, Status
<1>4. CASE status[m] = "queued"
  <2>1. m \notin expanded
    BY <1>4 DEF BaseInv, DepsInv, LiveDeps, Terminal
  <2>2. Deps(m) = DependsOn[m]
    BY <1>t, <2>1 DEF Deps, Owner, WorkOrChildren
  <2>3. m \in Queued \ skip /\ \A d \in Deps(m) : Settled(d)
    BY <1>2, <1>3, <1>4, <2>2 DEF Queued
  <2>4. QED
    BY <2>3
<1>5. CASE status[m] = "running"
  <2>1. m \in expanded
    BY <1>3, <1>5 DEF WorkOrChildren
  <2>2. PICK c \in children[m] : ~Settled(c)
    BY <1>2, <2>1 DEF Joinable
  <2>3. c \in Generated /\ c \in Node /\ c \notin expanded /\ c \notin skip /\ c \notin Original
    BY <1>t, <2>2
  <2>4. status[c] = "queued"
    <3>1. status[c] # "absent"
      BY <1>s, <2>1, <2>2, LiveFields DEF Known
    <3>2. status[c] # "running"
      BY <2>3 DEF WorkOrChildren
    <3>3. QED
      BY <1>t, <2>2, <2>3, <3>1, <3>2 DEF Settled, Status
  <2>5. ParentOf[c] = m
    BY <1>s, <2>1, <2>2, LiveFields DEF Known, Siblings
  <2>6. Deps(c) = DependsOn[m]
    BY <2>3, <2>5 DEF Deps, Owner
  <2>7. c \in Queued \ skip /\ \A d \in Deps(c) : Settled(d)
    BY <1>2, <2>3, <2>4, <2>6 DEF Queued
  <2>8. QED
    BY <2>7
<1>6. QED
  BY <1>3, <1>4, <1>5

\* The first of the queued waves waits for settled nodes only: what a node
\* waits for lies below it, is not queued, and waits for no child either.
LEMMA SomeNodeReady ==
    ASSUME BaseInv, OutcomeInv, WorkOrChildren, Waves,
           running = {}, skip \cap Queued = {}, Joinable = {},
           \E n \in Present : ~Settled(n)
    PROVE  SortedReady # {}
<1>t. /\ status \in [Node -> Status] /\ expanded \subseteq Original
      /\ children \in [Original -> SUBSET Generated]
      /\ Node = Original \cup Generated /\ Original \cap Generated = {}
      /\ Present \subseteq Node
  BY GraphAssumption DEF BaseInv, TypeOK, Node, Present
<1>1. PICK free \in Queued \ skip : \A d \in Deps(free) : Settled(d)
  BY SomeNodeFree
<1>2. CASE Scheduler # "wave"
  BY <1>1, <1>2 DEF SortedReady
<1>3. CASE Scheduler = "wave"
  <2>1. PICK n \in Queued : Wave[n] = CurrentWave /\ \A m \in Queued : CurrentWave <= Wave[m]
    BY <1>1, FirstInPlay DEF InPlay
  <2>2. n \in Present /\ n \notin skip /\ CurrentWave \in Nat
    BY <2>1 DEF Queued, Present, Waves
  <2>3. \A m \in Present : Wave[m] < Wave[n] => m \notin Queued
    <3>1. \A m \in Present : Wave[m] \in Nat
      BY DEF Waves
    <3>2. QED
      BY <2>1, <2>2, <3>1
  <2>4. ASSUME NEW d \in Deps(n) PROVE Settled(d)
    <3>1. d \in Present /\ Wave[d] < Wave[n]
      BY <2>2 DEF Waves
    <3>2. d \notin Queued /\ d \in Node /\ status[d] # "absent"
      BY <1>t, <2>3, <3>1 DEF Present
    <3>3. CASE status[d] = "running"
      <4>1. d \in expanded /\ ~Settled(d)
        BY <3>2, <3>3 DEF WorkOrChildren, Settled, Terminal
      <4>2. PICK c \in children[d] : ~Settled(c)
        BY <4>1 DEF Joinable
      <4>3. c \in Deps(d) /\ c \in Generated
        BY <1>t, <4>1, <4>2 DEF Deps
      <4>4. c \in Present /\ Wave[c] < Wave[d]
        BY <3>1, <4>3 DEF Waves
      <4>5. c \notin Queued
        <5>1. Wave[c] \in Nat /\ Wave[d] \in Nat /\ Wave[n] \in Nat
          BY <2>2, <3>1, <4>4 DEF Waves
        <5>2. QED
          BY <2>3, <3>1, <4>4, <5>1
      <4>6. status[c] # "running"
        BY <1>t, <4>3 DEF WorkOrChildren
      <4>7. QED
        BY <1>t, <4>2, <4>4, <4>5, <4>6 DEF Present, Queued, Settled, Status
    <3>4. QED
      BY <1>t, <3>2, <3>3 DEF Queued, Settled, Status
  <2>5. n \in SortedReady
    BY <2>1, <2>2, <2>4 DEF SortedReady
  <2>6. QED
    BY <2>5
<1>4. QED
  BY <1>2, <1>3

\* What a pass may launch while it waits for no other turn of the loop.
LEMMA ReadyStays ==
    ASSUME BaseInv, Known(Live), WorkOrChildren, Waves, Waves',
           UNCHANGED <<status, skip, children, running>>
    PROVE  /\ SortedReady' = SortedReady
           /\ CurrentWave' = CurrentWave /\ \A m \in Present : Wave'[m] = Wave[m]
<1>1. /\ \A m \in Present : Wave'[m] = Wave[m]
      /\ CurrentWave' = CurrentWave
  BY CurrentStays
<1>2. Queued' = Queued /\ Queued \subseteq Present
  BY DEF Queued, Present
<1>3. \A n : Deps(n)' = Deps(n) /\ Settled(n)' = Settled(n)
  BY DEF Deps, Owner, Settled
<1>4. \A n \in Queued : Wave'[n] = Wave[n]
  BY <1>1, <1>2
<1>5. SortedReady' = SortedReady
  BY <1>1, <1>2, <1>3, <1>4 DEF SortedReady
<1>6. QED
  BY <1>1, <1>5

\* One turn of the launch loop keeps what holds within a pass.
LEMMA PassTurn ==
    ASSUME BaseInv, SlotInv, Known(Live), WorkOrChildren, Waves, Waves', PassKept, ScanNext
    PROVE  PassKept'
<1>t. /\ status \in [Node -> Status] /\ todo \subseteq Node /\ leases = running
      /\ expanded \subseteq Original
  BY DEF BaseInv, TypeOK, SlotInv, LeaseSafety
<1>1. PICK n \in todo : /\ todo' = todo \ {n}
                        /\ Launch(n) \/ (~CanAcquire(n) /\ UNCHANGED <<status, slots>>)
  BY DEF ScanNext
<1>2. /\ UNCHANGED <<skip, expanded, children, pc>> /\ pc = "scan"
      /\ n \in Node /\ status[n] = "queued" /\ todo \subseteq Present
  BY <1>t DEF ScanNext, DepsInv, TodoReady, BaseInv, Present
<1>3. CASE Launch(n)
  <2>1. /\ status' = [status EXCEPT ![n] = "running"] /\ leases' = leases \cup {n}
    BY <1>3 DEF Launch
  <2>2. \A m \in Node : Settled(m)' <=> Settled(m)
    BY <1>t, <1>2, <2>1 DEF Settled, Terminal
  <2>3. Queued' \subseteq Queued \ {n}
    BY <1>t, <1>2, <2>1 DEF Queued
  <2>4. Joinable' = {}
    <3> SUFFICES ASSUME NEW p \in Joinable' PROVE FALSE
      OBVIOUS
    <3>1. p \in expanded /\ p \in Node
      BY <1>t, <1>2 DEF Joinable, Node
    <3>2. children \in [Original -> SUBSET Generated] /\ Generated \subseteq Node
      BY DEF BaseInv, TypeOK, Node
    <3>3. p \in Joinable
      BY <1>t, <1>2, <2>2, <3>1, <3>2 DEF Joinable
    <3>4. QED
      BY <1>2, <3>3 DEF PassKept
  <2>5. \E m \in Present' : ~Settled(m)'
    BY <1>t, <1>2, <2>1 DEF Present, Settled, Terminal
  <2>6. \A m \in Node : ~CanAcquire(m) => ~CanAcquire(m)'
    BY <2>1 DEF CanAcquire, Overlap
  <2>w. Scheduler = "wave" => /\ \A m \in Present : Wave'[m] = Wave[m]
                              /\ CurrentWave' = CurrentWave
    BY <1>1, <1>2, <1>3, LaunchStaysInWave DEF PassKept
  <2>7. ASSUME NEW m \in SortedReady' \ todo' PROVE ~CanAcquire(m)'
    <3>1. m \in Queued /\ m # n /\ m \notin skip /\ m \in Node /\ m \in Present
      BY <1>2, <2>3, <2>7 DEF SortedReady, Queued, Present
    <3>2. Deps(m)' = Deps(m) /\ Deps(m) \subseteq Node
      BY <1>2, <3>1, DependsOnKnown DEF Deps, BaseInv, TypeOK, Node
    <3>3. Scheduler = "wave" => Wave[m] = CurrentWave
      BY <2>7, <2>w, <3>1 DEF SortedReady
    <3>4. \A d \in Deps(m) : Settled(d)
      BY <2>2, <2>7, <3>2 DEF SortedReady
    <3>5. m \in SortedReady \ todo
      BY <1>1, <2>7, <3>1, <3>3, <3>4 DEF SortedReady
    <3>6. QED
      BY <1>2, <2>6, <3>1, <3>5 DEF PassKept
  <2>8. Scheduler = "wave" => \A m \in todo' : Wave'[m] = CurrentWave'
    BY <1>1, <1>2, <2>w DEF PassKept
  <2>9. QED
    BY <1>2, <2>3, <2>4, <2>5, <2>7, <2>8 DEF PassKept
<1>4. CASE ~CanAcquire(n) /\ UNCHANGED <<status, slots>>
  <2>1. /\ Joinable' = Joinable /\ Queued' = Queued
        /\ Present' = Present /\ leases' = leases
    BY <1>2, <1>4 DEF Queued, Joinable, Settled, Present, slots
  <2>2. \A m : Settled(m)' = Settled(m) /\ CanAcquire(m)' = CanAcquire(m)
    BY <1>4 DEF Settled, CanAcquire, Overlap, slots
  <2>3. /\ SortedReady' = SortedReady
        /\ CurrentWave' = CurrentWave /\ \A m \in Present : Wave'[m] = Wave[m]
    BY <1>2, <1>4, ReadyStays DEF slots
  <2>4. \A m \in SortedReady' \ todo' : ~CanAcquire(m)'
    BY <1>1, <1>2, <1>4, <2>2, <2>3 DEF PassKept
  <2>5. Scheduler = "wave" => \A m \in todo' : Wave'[m] = CurrentWave'
    BY <1>1, <1>2, <2>3 DEF PassKept
  <2>6. QED
    BY <1>2, <2>1, <2>2, <2>4, <2>5 DEF PassKept
<1>5. QED
  BY <1>1, <1>3, <1>4

\* No pass is under way when the run begins.
LEMMA PassInit == Init => PassInv
BY DEF Init, PassInv, PassKept

GraphInv == BaseInv /\ SlotInv /\ OutcomeInv /\ WorkOrChildren /\ Waves

\* What the pass invariant assumes of the graph holds in every run.
LEMMA GraphInvariant == Spec => []GraphInv
BY BaseInvariant, SlotInvariant, OutcomeInvariant, WorkInvariant, WavesInvariant, PTL
DEF GraphInv

\* Every step keeps what a scheduling pass knows of the nodes ahead.
LEMMA PassNext == GraphInv /\ GraphInv' /\ PassInv /\ [Next]_vars => PassInv'
<1> SUFFICES ASSUME BaseInv, SlotInv, OutcomeInv, WorkOrChildren, Waves, Waves',
                    PassInv, [Next]_vars
             PROVE  PassInv'
  BY DEF GraphInv
<1>k. Known(Live)
  BY DEF OutcomeInv, Sane
<1>1. CASE ScanNext
  BY <1>1, <1>k, PassTurn DEF PassInv, ScanNext
<1>2. CASE BeginPass
  <2>1. UNCHANGED <<graph, slots>> /\ pc = "parents" /\ Joinable = {}
    BY <1>2 DEF BeginPass
  <2>2. /\ SortedReady' = SortedReady
        /\ CurrentWave' = CurrentWave /\ \A m \in Present : Wave'[m] = Wave[m]
    BY <1>k, <2>1, ReadyStays DEF graph, slots
  <2>3. /\ Queued' = Queued /\ Joinable' = {} /\ Present' = Present
        /\ \A n : Settled(n)' = Settled(n)
    BY <2>1 DEF Queued, Joinable, Present, Settled, graph
  <2>4. pc' = "scan" => /\ todo' = SortedReady /\ \E n \in Present : ~Settled(n)
                        /\ Scheduler = "wave" => \A m \in todo' : Wave'[m] = CurrentWave'
    <3>1. \A m \in SortedReady : m \in Present /\ (Scheduler = "wave" => Wave[m] = CurrentWave)
      BY DEF SortedReady, Queued, Present
    <3>2. QED
      BY <1>2, <2>2, <3>1 DEF BeginPass
  <2>5. skip' \cap Queued' = {} /\ termination' # "blocked"
    BY <1>2, <2>1, <2>3 DEF PassInv, PassKept, BeginPass, graph
  <2>6. QED
    BY <2>2, <2>3, <2>4, <2>5 DEF PassInv, PassKept
<1>3. CASE SettleExpandedParent
  <2>1. PICK p \in Joinable, s \in {"completed", "failed"} : status' = [status EXCEPT ![p] = s]
    BY <1>3 DEF SettleExpandedParent
  <2>2. Queued' \subseteq Queued
    BY <2>1 DEF Queued, BaseInv, TypeOK
  <2>3. QED
    BY <1>3, <2>2 DEF SettleExpandedParent, PassInv, PassKept, loop
<1>4. CASE SkipsSettled
  BY <1>4 DEF SkipsSettled, PassInv, PassKept, graph, Queued
<1>5. CASE ScanEnd
  <2>1. running # {}
    <3> SUFFICES ASSUME running = {} PROVE FALSE
      OBVIOUS
    <3>1. SortedReady # {}
      BY <1>5, SomeNodeReady DEF ScanEnd, PassInv, PassKept
    <3>2. \A m : CanAcquire(m)
      BY DEF SlotInv, LeaseSafety, CanAcquire
    <3>3. todo # {}
      BY <1>5, <3>1, <3>2 DEF ScanEnd, PassInv, PassKept
    <3>4. Cardinality(running) < MaxConcurrent
      BY FS_EmptySet, PolicyAssumption
    <3>5. QED
      BY <1>5, <3>3, <3>4, PolicyAssumption, FS_EmptySet DEF ScanEnd
  <2>2. QED
    BY <1>5, <2>1 DEF ScanEnd, PassInv, PassKept
<1>6. CASE SettleSkippedNode \/ Wake \/ Drained
  BY <1>6 DEF SettleSkippedNode, Wake, Drained, loop, PassInv, PassKept
<1>7. ASSUME NEW n \in Node, NodeStep(n) PROVE PassInv'
  <2>1. pc' = pc /\ pc \in {"await", "drain", "done"} /\ termination' = termination
    BY <1>7 DEF NodeStep, Complete, Misroute, RouteTo, Expand, AttemptFails, AttemptBacksOff,
                BackoffEnds, AttemptCancelled, Release, FailNode, Attempting, Yielded, loop
  <2>2. QED
    BY <2>1 DEF PassInv, PassKept
<1>8. CASE Resume
  BY <1>8 DEF Resume, PassInv, PassKept
<1>9. CASE Abort \/ UNCHANGED vars
  <2>1. UNCHANGED <<graph, slots, loop>>
    BY <1>9 DEF Abort, vars
  <2>2. /\ SortedReady' = SortedReady
        /\ CurrentWave' = CurrentWave /\ \A m \in Present : Wave'[m] = Wave[m]
    BY <1>k, <2>1, ReadyStays DEF graph, slots
  <2>3. /\ Queued' = Queued /\ Joinable' = Joinable /\ Present' = Present
        /\ \A n : Settled(n)' = Settled(n) /\ CanAcquire(n)' = CanAcquire(n)
    BY <2>1 DEF Queued, Joinable, Present, Settled, CanAcquire, Overlap, graph, slots
  <2>4. pc = "scan" => todo \subseteq Present
    BY DEF BaseInv, TypeOK, DepsInv, TodoReady, Present
  <2>5. QED
    BY <2>1, <2>2, <2>3, <2>4 DEF PassInv, PassKept, loop, graph
<1>10. QED
  BY <1>1, <1>2, <1>3, <1>4, <1>5, <1>6, <1>7, <1>8, <1>9 DEF Next, LoopStep, Stopped

\* The pass invariant holds in every run.
LEMMA PassInvariant == Spec => []PassInv
BY PassInit, PassNext, GraphInvariant, PTL DEF Spec

\* No run ends "blocked", for every acyclic graph and either scheduler: a pass
\* that finds nothing in flight finds a node to launch (the loop of
\* executeDAGCore and its termination by default).
THEOREM RunsAreNotBlocked == Spec => []NeverBlocked
<1>1. PassInv => NeverBlocked
  BY DEF PassInv, NeverBlocked
<1>2. QED
  BY <1>1, PassInvariant, PTL

\* Only the launch loop launches, one node of those the pass has left.
LEMMA LaunchedByPass ==
    ASSUME [Next]_vars, NEW n \in running' \ running
    PROVE  ScanNext /\ n \in todo /\ Launch(n) /\ \A m \in todo : ~Precedes(m, n)
<1>1. CASE ScanNext
  <2>1. PICK k \in todo : /\ \A m \in todo : ~Precedes(m, k)
                          /\ Launch(k) \/ (~CanAcquire(k) /\ UNCHANGED <<status, slots>>)
    BY <1>1 DEF ScanNext
  <2>2. k = n /\ Launch(n)
    BY <2>1 DEF Launch, slots
  <2>3. QED
    BY <1>1, <2>1, <2>2
<1>2. CASE ~ScanNext
  BY <1>2 DEF Next, LoopStep, SettleSkippedNode, SkipsSettled, SettleExpandedParent,
              BeginPass, ScanEnd, Wake, Drained, NodeStep, Complete, Misroute, RouteTo,
              Expand, AttemptFails, AttemptBacksOff, BackoffEnds, AttemptCancelled,
              Release, FailNode, Abort, Resume, Stopped, vars, slots
<1>3. QED
  BY <1>1, <1>2

\* A node is launched ahead of one that precedes it only when that one's
\* scopes are leased (sortedReady and the launch loop).
THEOREM RunsKeepOrder == Spec => NoOvertaking
<1> DEFINE Ordered == \A n \in running' \ running : \A m \in SortedReady \ {n} :
                         Precedes(m, n) => ~CanAcquire(m)
<1>1. PassInv /\ [Next]_vars => [Ordered]_vars
  <2> SUFFICES ASSUME PassInv, [Next]_vars, NEW n \in running' \ running,
                      NEW m \in SortedReady \ {n}, Precedes(m, n)
               PROVE  ~CanAcquire(m)
    OBVIOUS
  <2>1. ScanNext /\ n \in todo /\ \A k \in todo : ~Precedes(k, n)
    BY LaunchedByPass
  <2>2. \A k \in SortedReady \ todo : ~CanAcquire(k)
    BY <2>1 DEF ScanNext, PassInv, PassKept
  <2>3. QED
    BY <2>1, <2>2
<1>2. QED
  BY <1>1, PassInvariant, PTL DEF Spec, NoOvertaking

-----------------------------------------------------------------------------
(* The barrier between waves, in graphs where nothing fans out: there the  *)
(* waves of a run never change.                                            *)

NoFanOut == \A n \in Original : Mode[n] = "spawn"

\* The nodes in flight are of one wave, and what lies below it has settled.
BarrierInv ==
    Scheduler = "wave" =>
        \A n \in running : /\ \A m \in running : Wave[m] = Wave[n]
                           /\ \A m \in Present : Wave[m] < Wave[n] => Settled(m)

\* Without a dynamic dispatch the graph stays the submitted one.
LEMMA NothingIsGenerated ==
    ASSUME NoFanOut, GraphInv
    PROVE  expanded = {} /\ children = [p \in Original |-> {}] /\ Present = Original
<1>k. Known(Live) /\ WorkOrChildren
  BY DEF GraphInv, OutcomeInv, Sane
<1>1. expanded \subseteq Original /\ children \in [Original -> SUBSET Generated]
  BY DEF GraphInv, BaseInv, TypeOK
<1>2. expanded = {}
  BY <1>1, <1>k, LiveFields DEF NoFanOut, Known
<1>3. children = [p \in Original |-> {}]
  BY <1>1, <1>2, <1>k DEF WorkOrChildren
<1>4. Present = Original
  BY <1>2, <1>k, LiveFields DEF Known, Present, Node
<1>5. QED
  BY <1>2, <1>3, <1>4

\* A launch of a wave finds everything below it settled.
LEMMA LaunchAboveSettled ==
    ASSUME NoFanOut, GraphInv, PassInv, BarrierInv, Scheduler = "wave", ScanNext,
           NEW n \in todo
    PROVE  /\ \A m \in running : Wave[m] = Wave[n]
           /\ \A m \in Present : Wave[m] < Wave[n] => Settled(m)
<1>1. Wave[n] = CurrentWave /\ n \in Present /\ n \in Queued
  BY DEF GraphInv, BaseInv, DepsInv, TodoReady, TypeOK, Present, Queued, PassInv, PassKept, ScanNext
<1>2. InPlay # {}
  BY <1>1 DEF InPlay
<1>3. PICK k \in InPlay : Wave[k] = CurrentWave
  BY <1>2, FirstInPlay DEF GraphInv
<1>4. \A m \in InPlay : CurrentWave <= Wave[m]
  BY <1>2, FirstInPlay DEF GraphInv
<1>5. CASE running # {}
  <2>1. k \in running
    BY <1>3, <1>5 DEF InPlay
  <2>2. QED
    BY <1>1, <1>3, <2>1 DEF BarrierInv
<1>6. CASE running = {}
  <2>1. ASSUME NEW m \in Present, Wave[m] < Wave[n] PROVE Settled(m)
    <3>1. Wave[m] \in Nat /\ Wave[n] \in Nat
      BY <1>1 DEF GraphInv, Waves
    <3>2. m \notin Queued
      BY <1>1, <1>4, <1>6, <2>1, <3>1 DEF InPlay
    <3>3. expanded = {}
      BY NothingIsGenerated
    <3>4. m \in Node /\ status[m] # "running"
      BY <1>6, <3>3 DEF GraphInv, WorkOrChildren, Present
    <3>5. status[m] \in Status /\ status[m] # "absent" /\ status[m] # "queued"
      BY <3>2 DEF GraphInv, BaseInv, TypeOK, Present, Queued
    <3>6. QED
      BY <3>4, <3>5 DEF Settled, Status
  <2>2. QED
    BY <1>6, <2>1
<1>7. QED
  BY <1>5, <1>6

\* Every step keeps the running nodes in one wave.
LEMMA BarrierStep ==
    ASSUME NoFanOut, GraphInv, GraphInv', PassInv, BarrierInv, [Next]_vars
    PROVE  BarrierInv'
<1> SUFFICES ASSUME Scheduler = "wave", NEW n \in running'
             PROVE  /\ \A m \in running' : Wave'[m] = Wave'[n]
                    /\ \A m \in Present' : Wave'[m] < Wave'[n] => Settled(m)'
  BY DEF BarrierInv
<1>1. /\ children = [p \in Original |-> {}] /\ Present = Original
  BY NothingIsGenerated
<1>2. /\ children' = [p \in Original |-> {}] /\ Present' = Original
  <2>1. (NoFanOut /\ GraphInv)' =>
          (children = [p \in Original |-> {}] /\ Present = Original)'
    BY NothingIsGenerated, PTL
  <2>2. QED
    BY <2>1 DEF NoFanOut
<1>3. \A m \in Present : Wave'[m] = Wave[m]
  BY <1>1, <1>2, WavesStay DEF GraphInv, OutcomeInv, Sane
<1>4. running' \subseteq Present /\ running \subseteq Present
  BY <1>1, <1>2 DEF GraphInv, WorkOrChildren
<1>5. ~Resume
  BY DEF Resume
<1>6. \A m \in Present : Settled(m) => Settled(m)'
  <2>1. SettledStays
    BY <1>5, RunKeeps DEF GraphInv, OutcomeInv
  <2>2. QED
    BY <2>1 DEF SettledStays, Settled, Present
<1>7. CASE running' \subseteq running
  BY <1>1, <1>2, <1>3, <1>4, <1>6, <1>7 DEF BarrierInv
<1>8. ASSUME NEW k \in running' \ running
      PROVE  /\ \A m \in running' : Wave[m] = Wave[n]
             /\ \A m \in Present : Wave[m] < Wave[n] => Settled(m)
  <2>1. ScanNext /\ k \in todo /\ Launch(k)
    BY LaunchedByPass
  <2>2. running' = running \cup {k}
    BY <2>1 DEF Launch
  <2>3. /\ \A m \in running : Wave[m] = Wave[k]
        /\ \A m \in Present : Wave[m] < Wave[k] => Settled(m)
    BY <2>1, LaunchAboveSettled
  <2>4. Wave[n] = Wave[k]
    BY <2>2, <2>3
  <2>5. QED
    BY <2>2, <2>3, <2>4
<1>9. QED
  BY <1>1, <1>2, <1>3, <1>4, <1>6, <1>7, <1>8

\* Without fan-out a wave begins when every wave below it has settled, also in
\* a resumed run.  (With a fan-out it may begin earlier: children put their
\* parent into a higher wave while it is worked on.)
THEOREM WavesAreBarriers ==
    ASSUME NoFanOut
    PROVE  Spec => WaveBarrier
<1> DEFINE Barrier == Scheduler = "wave" =>
                        \A n \in running' \ running : \A m \in Present :
                           Wave[m] < Wave[n] => Settled(m)
<1>1. Init => BarrierInv
  BY DEF Init, BarrierInv
<1>2. GraphInv /\ GraphInv' /\ PassInv /\ BarrierInv /\ [Next]_vars => BarrierInv'
  BY BarrierStep
<1>3. GraphInv /\ PassInv /\ BarrierInv /\ [Next]_vars => [Barrier]_vars
  BY LaunchedByPass, LaunchAboveSettled
<1>4. QED
  BY <1>1, <1>2, <1>3, GraphInvariant, PassInvariant, PTL DEF Spec, WaveBarrier

-----------------------------------------------------------------------------
(* The contract of a run.                                                  *)

\* What the steps of a run have in common: what was recorded stays, and what
\* is recorded has settled.
LEMMA RecordKept ==
    ASSUME BaseInv, OutcomeInv, [Next]_vars, ~Resume
    PROVE  Contract!Record
<1>1. SettledStays /\ Recorded'
  BY RunKeeps, OutcomeNext DEF OutcomeInv
<1>2. ckpt' = ckpt \/ ckpt'.status = status'
  BY CheckpointSteps DEF EmitCheckpoint, SnapshotRecord
<1>3. RecordedNodes \subseteq RecordedNodes'
  BY <1>1, <1>2 DEF OutcomeInv, Recorded, RecordedNodes, SettledStays, Settled
<1>4. \A n \in RecordedNodes' : status'[n] \in Terminal
  BY <1>1 DEF Recorded, RecordedNodes
<1>5. RecordedNodes' \in SUBSET Node
  BY DEF RecordedNodes
<1>6. QED
  BY <1>3, <1>4, <1>5 DEF Contract!Record, Contract!Over, Terminal

\* Steps that change nothing the contract speaks of.
LEMMA Stutters ==
    ASSUME UNCHANGED <<status, running, ckpt>>
    PROVE  UNCHANGED Contract!contract
BY DEF Contract!contract, RecordedNodes

\* A launch is a start.
LEMMA LaunchStarts ==
    ASSUME BaseInv, SlotInv, NEW n \in todo, ScanNext, Launch(n)
    PROVE  Contract!Start(n)
<1>1. n \in Node /\ status[n] = "queued" /\ DepsSettled(n)
  BY DEF ScanNext, BaseInv, TypeOK, DepsInv, TodoReady
<1>2. \A d \in DependsOn[Owner(n)] : status[d] \in Contract!Over
  BY <1>1 DEF DepsSettled, Settled, Terminal, Contract!Over
<1>3. \A m \in running : m \in Node /\ ScopeOf(m) \cap ScopeOf(n) = {}
  BY DEF Launch, CanAcquire, Overlap, SlotInv, LeaseSafety, BaseInv, TypeOK
<1>4. RecordedNodes' = RecordedNodes
  BY DEF ScanNext, RecordedNodes
<1>5. /\ Cardinality(running) < MaxConcurrent
      /\ status' = [status EXCEPT ![n] = "running"] /\ running' = running \cup {n}
  BY DEF ScanNext, Launch
<1>6. \A m \in running : ~Contract!SharesScope(m, n)
  <2> SUFFICES ASSUME NEW m \in running PROVE ~Contract!SharesScope(m, n)
    OBVIOUS
  <2>1. m \in Node /\ ScopeOf(m) \cap ScopeOf(n) = {}
    BY <1>3
  <2>2. QED
    BY <1>1, <2>1, Zenon DEF Contract!SharesScope
<1>7. \A d \in [m \in Node |-> DependsOn[Owner(m)]][n] : Contract!Done(d)
  BY <1>1, <1>2 DEF Contract!Done
<1>8. Contract!Cardinality(running) = Cardinality(running)
  BY Zenon DEF Contract!Cardinality, Cardinality
<1>9. QED
  BY <1>1, <1>4, <1>5, <1>6, <1>7, <1>8 DEF Contract!Start

\* A parent that settles joins all it generated.
LEMMA ParentContractJoin ==
    ASSUME BaseInv, OutcomeInv, SettleExpandedParent, Contract!Record
    PROVE  \E p \in Node : Contract!Join(p)
<1>t. /\ expanded \subseteq Original /\ Original \subseteq Node /\ Generated \subseteq Node
      /\ children \in [Original -> SUBSET Generated]
  BY DEF BaseInv, TypeOK, Node
<1>1. PICK p \in Joinable :
         status' = [status EXCEPT ![p] = IF \A c \in children[p] : status[c] = "completed"
                                         THEN "completed" ELSE "failed"]
  BY DEF SettleExpandedParent
<1>2. /\ p \in expanded /\ p \in Original /\ p \in Node /\ status[p] = "running"
      /\ \A c \in children[p] : status[c] \in Terminal
  BY <1>t DEF Joinable, Settled, BaseInv, DepsInv, LiveDeps
<1>3. \A k \in Siblings(p) : status[k] = "absent" \/ k \in children[p]
  BY <1>t, LiveFields DEF Siblings, OutcomeInv, Sane, Known
<1>4. children[p] \subseteq Siblings(p)
  BY <1>2, LiveFields DEF OutcomeInv, Sane, Known
<1>5. \A k \in Siblings(p) : status[k] = "absent" \/ Contract!Done(k)
  BY <1>2, <1>3 DEF Contract!Done, Contract!Over, Terminal
<1>6. (\A c \in children[p] : status[c] = "completed") <=>
         \A k \in Siblings(p) : status[k] \in {"absent", "completed"}
  BY <1>2, <1>3, <1>4 DEF Terminal
<1>7. running' = running
  BY DEF SettleExpandedParent, slots
<1>8. Contract!Join(p)
  BY <1>1, <1>2, <1>5, <1>6, <1>7 DEF Contract!Join
<1>9. QED
  BY <1>2, <1>8

\* A node being worked on that settles finishes.
LEMMA SettlingFinishes ==
    ASSUME BaseInv, Contract!Record, NEW n \in Node, NEW s \in {"completed", "failed"},
           n \in running, work[n] \in {"attempt", "backoff"},
           status' = [status EXCEPT ![n] = s], running' = running
    PROVE  Contract!Finish(n, s)
<1>1. status[n] = "running"
  BY DEF BaseInv, DepsInv, LiveDeps
<1>2. QED
  BY <1>1 DEF Contract!Finish

\* An expansion is a fan-out.
LEMMA ExpandFansOut ==
    ASSUME BaseInv, Contract!Record, NEW n \in Node, NEW kids \in SUBSET Generated,
           Expand(n, kids)
    PROVE  Contract!FanOut(n, kids)
<1>1. /\ n \in Original /\ n \notin expanded /\ n \in running /\ work[n] = "attempt"
      /\ running' = running
      /\ status' = [m \in Node |-> IF m \in kids THEN "queued" ELSE status[m]]
  BY DEF Expand, IsDispatch, Attempting
<1>2. status[n] = "running"
  BY <1>1 DEF BaseInv, DepsInv, LiveDeps
<1>3. kids \subseteq Siblings(n)
  BY <1>1, DispatchAssumption DEF Expand
<1>4. \A k \in kids : status[k] = "absent"
  BY <1>1, <1>3 DEF BaseInv, DepsInv, LiveDeps, Siblings
<1>5. QED
  BY <1>1, <1>2, <1>3, <1>4 DEF Contract!FanOut

\* A resumption is a restart.
LEMMA ResumeRestarts ==
    ASSUME BaseInv, OutcomeInv, Resume
    PROVE  Contract!Restart
<1>t. /\ ckpt.status \in [Node -> Status] /\ Original \subseteq Node
      /\ \A n \in Node : DependsOn[Owner(n)] \subseteq Node
  BY DependsOnKnown DEF BaseInv, TypeOK, Node
<1>1. status' \in [Node -> Contract!Phase]
  <2>1. status' \in [Node -> Status]
    BY TypeResume, TypeNext, <1>t DEF Resume, Status, Terminal
  <2>2. Status = Contract!Phase
    BY DEF Status, Terminal, Contract!Phase, Contract!Over
  <2>3. QED
    BY <2>1, <2>2
<1>2. \A n \in Node : IF n \in RecordedNodes THEN status'[n] = status[n]
                      ELSE status'[n] \in {"absent", "queued", "running"}
  BY <1>t DEF Resume, RecordedNodes, OutcomeInv, Recorded, Status
<1>3. \A n \in Original : status'[n] # "absent"
  BY <1>t DEF Resume, OutcomeInv, Sane, Known
<1>4. ASSUME NEW n \in Node, status'[n] = "running"
      PROVE  \A d \in DependsOn[Owner(n)] : d \in RecordedNodes
  <2>1. ckpt.status[n] = "running"
    BY <1>t, <1>4 DEF Resume, BaseInv, DepsInv, CkptDeps, Terminal
  <2>2. QED
    BY <1>t, <2>1 DEF BaseInv, DepsInv, CkptDeps, Started, RecordedNodes
<1>5. running' = {} /\ RecordedNodes' = RecordedNodes
  BY DEF Resume, RecordedNodes
<1>6. QED
  BY <1>1, <1>2, <1>3, <1>4, <1>5 DEF Contract!Restart

\* A step of the executor is one the contract allows.
LEMMA StepsImplement ==
    ASSUME BaseInv, SlotInv, OutcomeInv, [Next]_vars
    PROVE  [Contract!Next]_(Contract!contract)
<1>r. ~Resume => Contract!Record
  BY RecordKept
<1>1. CASE LoopStep /\ ~Resume
  <2>1. CASE SettleSkippedNode
    <3>1. PICK n \in skip \cap Queued : status' = [status EXCEPT ![n] = "skipped"]
      BY <2>1 DEF SettleSkippedNode
    <3>2. n \in Node /\ Contract!Skip(n)
      BY <1>1, <1>r, <2>1, <3>1 DEF SettleSkippedNode, slots, Queued, Contract!Skip
    <3>3. QED
      BY <3>2 DEF Contract!Next
  <2>2. CASE SettleExpandedParent
    BY <1>1, <1>r, <2>2, ParentContractJoin DEF Contract!Next
  <2>3. CASE ScanNext
    <3>1. PICK n \in todo : Launch(n) \/ (~CanAcquire(n) /\ UNCHANGED <<status, slots>>)
      BY <2>3 DEF ScanNext
    <3>2. CASE Launch(n)
      <4>1. n \in Node /\ Contract!Start(n)
        BY <2>3, <3>2, LaunchStarts DEF BaseInv, TypeOK
      <4>2. QED
        BY <4>1 DEF Contract!Next
    <3>3. CASE UNCHANGED <<status, slots>>
      BY <2>3, <3>3, Stutters DEF ScanNext, slots
    <3>4. QED
      BY <3>1, <3>2, <3>3
  <2>4. CASE SkipsSettled \/ BeginPass \/ ScanEnd \/ Wake \/ Drained
    BY <2>4, Stutters DEF SkipsSettled, BeginPass, ScanEnd, Wake, Drained, graph, slots
  <2>5. QED
    BY <1>1, <2>1, <2>2, <2>3, <2>4 DEF LoopStep
<1>2. ASSUME NEW n \in Node, NodeStep(n), ~Resume
      PROVE  [Contract!Next]_(Contract!contract)
  <2>f. ASSUME NEW s \in {"completed", "failed"}, n \in running,
               work[n] \in {"attempt", "backoff"},
               status' = [status EXCEPT ![n] = s], running' = running
        PROVE  Contract!Next
    BY <1>2, <1>r, <2>f, SettlingFinishes DEF Contract!Next
  <2>1. CASE Complete(n)
    BY <2>1, <2>f DEF Complete, Attempting
  <2>2. ASSUME NEW branch \in SUBSET Original, RouteTo(n, branch)
        PROVE  Contract!Next
    BY <2>2, <2>f DEF RouteTo, Attempting
  <2>3. CASE Misroute(n)
    BY <2>3, <2>f DEF Misroute, Attempting
  <2>4. ASSUME NEW kids \in SUBSET Generated, Expand(n, kids)
        PROVE  Contract!Next
    <3>1. Contract!FanOut(n, kids) /\ kids \in SUBSET Node
      BY <1>2, <1>r, <2>4, ExpandFansOut DEF Node
    <3>2. QED
      BY <3>1 DEF Contract!Next
  <2>5. CASE AttemptFails(n) \/ AttemptCancelled(n)
    BY <2>5, <2>f DEF AttemptFails, AttemptCancelled, FailNode, Attempting
  <2>6. CASE BackoffEnds(n)
    <3>1. CASE FailNode(n)
      BY <2>6, <3>1, <2>f DEF BackoffEnds, FailNode
    <3>2. CASE UNCHANGED <<graph, running, ckpt>>
      BY <3>2, Stutters DEF graph
    <3>3. QED
      BY <2>6, <3>1, <3>2 DEF BackoffEnds
  <2>7. CASE AttemptBacksOff(n)
    BY <2>7, Stutters DEF AttemptBacksOff, graph
  <2>8. CASE Release(n)
    <3>1. Contract!Free(n)
      BY <1>2, <1>r, <2>8 DEF Release, graph, Contract!Free
    <3>2. QED
      BY <3>1 DEF Contract!Next
  <2>9. QED
    BY <1>2, <2>1, <2>2, <2>3, <2>4, <2>5, <2>6, <2>7, <2>8 DEF NodeStep
<1>3. CASE Abort \/ UNCHANGED vars
  BY <1>3, Stutters DEF Abort, vars, graph, slots
<1>4. CASE Resume
  BY <1>4, ResumeRestarts DEF Contract!Next
<1>5. QED
  BY <1>1, <1>2, <1>3, <1>4 DEF Next, Stopped

\* Every behaviour of the executor is one its contract allows, for every graph
\* and policy: start after the dependencies, within the budget, beside no
\* overlapping scope, settle once, join after the children, and restart with
\* all that was recorded (executeDAGCore and resumeDAG).
THEOREM ExecutorImplements == Spec => ImplementsContract
<1>1. Init => Contract!Init
  <2> SUFFICES ASSUME Init PROVE Contract!Init
    OBVIOUS
  <2>1. \A n \in Node : ckpt.status[n] \notin Terminal
    BY DEF Init, SnapshotRecord, Terminal
  <2>2. RecordedNodes = {}
    BY <2>1 DEF RecordedNodes
  <2>3. QED
    BY <2>2 DEF Init, Contract!Init
<1>2. BaseInv /\ SlotInv /\ OutcomeInv /\ [Next]_vars => [Contract!Next]_(Contract!contract)
  BY StepsImplement
<1>3. QED
  BY <1>1, <1>2, BaseInvariant, SlotInvariant, OutcomeInvariant, PTL
  DEF Spec, ImplementsContract, Contract!Spec
===============================================================================
