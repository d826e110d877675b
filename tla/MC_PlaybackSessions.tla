------------------------- MODULE MC_PlaybackSessions -------------------------
(* PlaybackSessions on small instances.                                    *)
EXTENDS PlaybackSessions, TLC

\* Ids, tasks and users are interchangeable; used by the runs without liveness.
Symmetry == Permutations(Sid) \cup Permutations(Task) \cup Permutations(User)

\* Bound: one window at a time is enough, the properties speak of none or one.
OneHazard == Cardinality(hazard) <= 1
NoHazard == hazard = {}
=============================================================================
