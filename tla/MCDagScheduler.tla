--------------------------- MODULE MCDagScheduler ---------------------------
(* Small task graphs for TLC.  Each graph is a family of definitions that  *)
(* the .cfg files assign to the constants of DagScheduler.                 *)
EXTENDS DagRefinement

Alike(ids, value) == [n \in ids |-> value]

\* Two routers share the target x; r1 also decides whether the dispatcher p
\* fans out.  j waits for p and writes what x writes.
MixedIds == {"r1", "r2", "p", "x", "j"}
MixedKids == {"p1", "p2"}
MixedParent == [p1 |-> "p", p2 |-> "p"]
MixedDeps == [r1 |-> {}, r2 |-> {}, p |-> {"r1"}, x |-> {"r1", "r2"}, j |-> {"p"}]
MixedMode == [Alike(MixedIds, "spawn") EXCEPT !["p"] = "result_dispatch"]
MixedSends == Alike(MixedIds, {})
MixedRoutes == [Alike(MixedIds, {}) EXCEPT !["r1"] = {{"p"}, {"p", "x"}},
                                           !["r2"] = {{"x"}, {}}]
MixedScope == [Alike(MixedIds, {}) EXCEPT !["j"] = {"s1"}, !["x"] = {"s1"}]
MixedPriority == [Alike(MixedIds, 0) EXCEPT !["x"] = 1]
MixedOrder == [r1 |-> 0, r2 |-> 1, p |-> 2, x |-> 3, j |-> 4]

\* A dynamic dispatcher p and declared sends q fan out side by side, beside a
\* plain node c that writes what p and its child write; j joins both.
FanIds == {"p", "q", "c", "j"}
FanKids == {"p1", "q1", "q2"}
FanParent == [p1 |-> "p", q1 |-> "q", q2 |-> "q"]
FanDeps == [Alike(FanIds, {}) EXCEPT !["j"] = {"p", "q"}]
FanMode == [p |-> "dynamic", q |-> "sends", c |-> "spawn", j |-> "spawn"]
FanSends == [Alike(FanIds, {}) EXCEPT !["q"] = {"q1", "q2"}]
FanRoutes == Alike(FanIds, {})
FanScope == [p |-> {"s1"}, q |-> {}, c |-> {"s1"}, j |-> {}]
FanPriority == [Alike(FanIds, 0) EXCEPT !["c"] = -1]
FanOrder == [p |-> 0, q |-> 1, c |-> 2, j |-> 3]

\* The router r selects x or y; s is a second chain of one node.
WaveIds == {"r", "s", "x", "y", "z"}
WaveKids == {}
WaveParent == << >>
WaveDeps == [r |-> {}, s |-> {}, x |-> {"r"}, y |-> {"r"}, z |-> {"s", "x"}]
WaveMode == Alike(WaveIds, "spawn")
WaveSends == Alike(WaveIds, {})
WaveRoutes == [Alike(WaveIds, {}) EXCEPT !["r"] = {{"x"}, {"y"}, {"x", "y"}}]
WaveScope == [Alike(WaveIds, {}) EXCEPT !["x"] = {"s1"}, !["y"] = {"s1"}]
WavePriority == Alike(WaveIds, 0)
WaveOrder == [r |-> 0, s |-> 1, x |-> 2, y |-> 3, z |-> 4]

\* A dispatcher beside a chain of plain nodes: t follows s.
BarrierIds == {"p", "s", "t"}
BarrierKids == {"p1"}
BarrierParent == [p1 |-> "p"]
BarrierDeps == [Alike(BarrierIds, {}) EXCEPT !["t"] = {"s"}]
BarrierMode == [p |-> "result_dispatch", s |-> "spawn", t |-> "spawn"]
BarrierSends == Alike(BarrierIds, {})
BarrierRoutes == Alike(BarrierIds, {})
BarrierScope == Alike(BarrierIds, {})
BarrierPriority == Alike(BarrierIds, 0)
BarrierOrder == [p |-> 0, s |-> 1, t |-> 2]
=============================================================================
