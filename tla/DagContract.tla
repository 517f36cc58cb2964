----------------------------- MODULE DagContract -----------------------------
(***************************************************************************)
(* What a task-graph run promises its caller, without the loop, the        *)
(* promises, the retries and the checkpoints that bring it about.  A node  *)
(* is started once its dependencies have settled, within a budget of nodes *)
(* in flight and never beside a node that writes the same resources; it    *)
(* settles once; a parent that fanned out settles after its children; and  *)
(* what has been recorded survives a restart, while everything else may be *)
(* run again.                                                              *)
(***************************************************************************)
EXTENDS Integers, FiniteSets

CONSTANTS Node,          \* original and generated nodes
          Initial,       \* the nodes of the submitted graph
          Requires,      \* what each node waits for, children excepted
          Scope,         \* the resources each node may write
          Offspring,     \* the nodes each node may generate
          Budget         \* nodes in flight

VARIABLES phase,         \* life cycle of each node
          busy,          \* nodes in flight
          recorded       \* settled nodes a restart remembers

contract == <<phase, busy, recorded>>

Over == {"completed", "failed", "skipped"}
Phase == {"absent", "queued", "running"} \cup Over
Done(n) == phase[n] \in Over
SharesScope(m, n) == Scope[m] \cap Scope[n] # {}

Init ==
    /\ phase = [n \in Node |-> IF n \in Initial THEN "queued" ELSE "absent"]
    /\ busy = {} /\ recorded = {}

Start(n) ==
    /\ phase[n] = "queued"
    /\ \A d \in Requires[n] : Done(d)
    /\ Cardinality(busy) < Budget
    /\ \A m \in busy : ~SharesScope(m, n)
    /\ phase' = [phase EXCEPT ![n] = "running"]
    /\ busy' = busy \cup {n}
    /\ UNCHANGED recorded

\* A node is recorded no earlier than it settles, perhaps later.
Record ==
    /\ recorded' \in SUBSET Node
    /\ recorded \subseteq recorded'
    /\ \A n \in recorded' \ recorded : phase'[n] \in Over

\* The node in flight has an outcome; it may still hold its slot.
Finish(n, outcome) ==
    /\ n \in busy /\ phase[n] = "running"
    /\ phase' = [phase EXCEPT ![n] = outcome]
    /\ Record
    /\ UNCHANGED busy

FanOut(n, kids) ==
    /\ n \in busy /\ phase[n] = "running"
    /\ kids \subseteq Offspring[n] /\ \A k \in kids : phase[k] = "absent"
    /\ phase' = [m \in Node |-> IF m \in kids THEN "queued" ELSE phase[m]]
    /\ Record
    /\ UNCHANGED busy

\* The slot is given back, by a settled node or by one that fanned out.
Free(n) ==
    /\ n \in busy
    /\ busy' = busy \ {n}
    /\ Record
    /\ UNCHANGED phase

\* A node settles as the join of all it generated, whether or not it has
\* given its slot back yet.
Join(n) ==
    /\ phase[n] = "running" /\ n \in Initial
    /\ \A k \in Offspring[n] : phase[k] = "absent" \/ Done(k)
    /\ phase' = [phase EXCEPT ![n] =
                   IF \A k \in Offspring[n] : phase[k] \in {"absent", "completed"}
                   THEN "completed" ELSE "failed"]
    /\ Record
    /\ UNCHANGED busy

Skip(n) ==
    /\ phase[n] = "queued"
    /\ phase' = [phase EXCEPT ![n] = "skipped"]
    /\ Record
    /\ UNCHANGED busy

\* A restart keeps what was recorded; any other node is back where it has not
\* settled, and nothing is in flight.
Restart ==
    /\ phase' \in [Node -> Phase]
    /\ \A n \in Node : IF n \in recorded THEN phase'[n] = phase[n]
                       ELSE phase'[n] \in {"absent", "queued", "running"}
    /\ \A n \in Initial : phase'[n] # "absent"
    /\ \A n \in Node : phase'[n] = "running" => \A d \in Requires[n] : d \in recorded
    /\ busy' = {}
    /\ UNCHANGED recorded

Next ==
    \/ \E n \in Node : \/ Start(n) \/ Free(n) \/ Join(n) \/ Skip(n)
                       \/ \E outcome \in {"completed", "failed"} : Finish(n, outcome)
                       \/ \E kids \in SUBSET Node : FanOut(n, kids)
    \/ Restart

Spec == Init /\ [][Next]_contract
=============================================================================
