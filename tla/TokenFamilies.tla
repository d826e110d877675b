---------------------------- MODULE TokenFamilies ----------------------------
(***************************************************************************)
(* What the rotation of refresh tokens promises, without cookies, hashes   *)
(* or windows: a session has one token at a time; a token is that of one   *)
(* session, once, and is never the current one again when another took its *)
(* place or it was never handed out; a session begins once and ends once.  *)
(***************************************************************************)
EXTENDS Naturals

CONSTANTS Session, Token, None

VARIABLES current,  \* the token of each session; None: it has not begun
          ended,    \* the sessions that were signed out
          retired   \* the tokens that no session will have any more

vars == <<current, ended, retired>>

Init ==
    /\ current = [s \in Session |-> None]
    /\ ended = {}
    /\ retired = {}

New(t) == t \notin retired /\ \A s \in Session : current[s] # t

\* A sign-in.
Start(s, t) ==
    /\ current[s] = None /\ s \notin ended /\ New(t)
    /\ current' = [current EXCEPT ![s] = t]
    /\ UNCHANGED <<ended, retired>>

\* The token of the session gives way to another.
Rotate(s, t) ==
    /\ current[s] # None /\ New(t)
    /\ current' = [current EXCEPT ![s] = t]
    /\ retired' = retired \cup {current[s]}
    /\ UNCHANGED ended

\* A token that was drawn is never handed out.
Waste(t) ==
    /\ New(t)
    /\ retired' = retired \cup {t}
    /\ UNCHANGED <<current, ended>>

\* Sessions that have begun are signed out, for good.
End ==
    /\ \E S \in SUBSET {s \in Session : current[s] # None} : ended' = ended \cup S
    /\ UNCHANGED <<current, retired>>

Next ==
    \/ \E s \in Session, t \in Token : Start(s, t) \/ Rotate(s, t)
    \/ \E t \in Token : Waste(t)
    \/ End

Spec == Init /\ [][Next]_vars
=============================================================================
