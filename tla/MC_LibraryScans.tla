-------------------------- MODULE MC_LibraryScans --------------------------
(* LibraryScans on small instances.                                        *)
EXTENDS LibraryScans, TLC

CONSTANTS p1, p2, t1, t2

\* Two files of one film; the metadata service knows what the second is called.
Names == p1 :> t1 @@ p2 :> t2
Service == t1 :> t1 @@ t2 :> t1
=============================================================================
