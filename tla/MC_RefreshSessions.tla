------------------------ MODULE MC_RefreshSessions ------------------------
(* RefreshSessions on small instances.                                     *)
EXTENDS RefreshSessions, TLC

\* Rows, tokens, requests and browsers are interchangeable.
Symmetry == Permutations(Session) \cup Permutations(Token)
            \cup Permutations(Op) \cup Permutations(Browser)
\* Of the troubles, a lost request, a copied cookie and a new password, one at a
\* time.
OneTrouble == Cardinality(raced \cap {"lost", "copied"}) + pw <= 1 /\ Cardinality(raced) <= 2
=============================================================================
