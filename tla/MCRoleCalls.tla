----------------------------- MODULE MCRoleCalls -----------------------------
(* Scenarios of three calls over a gate of two slots, for TLC.              *)
EXTENDS RoleCalls

MCCall == 1..3

Params(kind, n, m, may, from) ==
    [kind |-> kind, retryCount |-> n, maxIterations |-> m, canSpawn |-> may, madeBy |-> from]
Fore(n, may, from) == Params("foreground", n, 1, may, from)
Back(may, from) == Params("background", 0, 1, may, from)
JoinFrom(from) == Params("join", 0, 1, FALSE, from)
Loop(n, m, from) == Params("loop", n, m, TRUE, from)
Unused == Params("unused", 0, 1, FALSE, {})

\* Three levels of calls behind two slots, the first one retried; a tree that
\* outlives the agent in its middle; a retry that races a waiting agent for a
\* slot; a retried call beside another; joins of a sibling, an ancestor or
\* oneself; a role that may not spawn; loops that retry or repeat, over a
\* call of theirs.
MCPlans == {
    <<Fore(1, TRUE, {0}), Fore(0, TRUE, {1}), Back(FALSE, {2})>>,
    <<Fore(0, TRUE, {0}), Back(TRUE, {1}), Fore(0, FALSE, {2})>>,
    <<Fore(0, TRUE, {0}), Fore(1, FALSE, {1}), Back(FALSE, {1})>>,
    <<Fore(1, TRUE, {0}), Back(FALSE, {0, 1}), Unused>>,
    <<Back(TRUE, {0}), Back(FALSE, {0, 1}), JoinFrom({0, 1, 2})>>,
    <<Fore(1, FALSE, {0}), Fore(0, FALSE, {1}), Unused>>,
    <<Loop(1, 2, {0}), Unused, Unused>>,
    <<Loop(0, 2, {0}), Fore(1, FALSE, {1}), Unused>> }
=============================================================================
