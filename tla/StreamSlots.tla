---------------------------- MODULE StreamSlots ----------------------------
(***************************************************************************)
(* What the playback sessions of an account promise, without keys, locks   *)
(* or lists: a session takes one of the MaxStreams slots of its account in *)
(* one step, under an id never used before, and frees it in one step.      *)
(* trusted turns FALSE, for good, when the implementation may have lost    *)
(* track of a session; from then on nothing is promised.                   *)
(***************************************************************************)
EXTENDS Naturals, FiniteSets

CONSTANTS User, Sid, MaxStreams, None

VARIABLES live,     \* the sessions that hold a slot
          owner,    \* the account each id was given to
          trusted

vars == <<live, owner, trusted>>

Init ==
    /\ live = {}
    /\ owner = [s \in Sid |-> None]
    /\ trusted = TRUE

HeldBy(u) == {s \in live : owner[s] = u}

\* A new session of u takes a slot.
Admit(u, s) ==
    /\ owner[s] = None
    /\ Cardinality(HeldBy(u)) < MaxStreams
    /\ live' = live \cup {s}
    /\ owner' = [owner EXCEPT ![s] = u]
    /\ UNCHANGED trusted

\* Sessions end: stopped, revoked or expired.  None comes back.
End ==
    /\ live' \in SUBSET live
    /\ UNCHANGED <<owner, trusted>>

\* The books are no longer kept.
Distrust ==
    /\ trusted' = FALSE
    /\ live' \in SUBSET Sid
    /\ owner' \in [Sid -> User \cup {None}]

Next ==
    \/ \E u \in User, s \in Sid : trusted /\ Admit(u, s)
    \/ trusted /\ End
    \/ Distrust

Spec == Init /\ [][Next]_vars
=============================================================================
