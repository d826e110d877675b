--------------------------- MODULE MC_HlsPackager ---------------------------
(* HlsPackager on small instances.                                         *)
EXTENDS HlsPackager, TLC

\* From the beginning, a seek, and a position before the beginning.
Positions == {-1, 0, 60}

\* Processes and calls are interchangeable; used by the runs without liveness.
Symmetry == Permutations(Child) \cup Permutations(Task)
\* Bound: one of the ways to race.
OneRace == Cardinality(raced) <= 1
=============================================================================
