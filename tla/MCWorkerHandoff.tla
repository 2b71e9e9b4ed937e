--------------------------- MODULE MCWorkerHandoff ---------------------------
EXTENDS WorkerHandoff, TLC

CONSTANTS r1, r2, m1, m2

MCRuns == {r1, r2}
MCManagers == {m1, m2}

\* Runs differ only in which of them begins, and so do the managers.
SymmetricRuns == Permutations(MCRuns)
SymmetricManagers == Permutations(MCManagers)
Symmetric == SymmetricRuns \cup SymmetricManagers

\* Bound: once both runs have begun, one manager at a time is in a call.
ThreeAtATime ==
  \/ \E r \in Runs : run[r].pc = "idle"
  \/ \E m \in Managers : manager[m].pc = "idle"
=============================================================================
