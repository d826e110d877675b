-------------------------- MODULE MC_Subscriptions --------------------------
(* Subscriptions on small instances.                                       *)
EXTENDS Subscriptions, TLC

\* Rows and requests are interchangeable.
Symmetry == Permutations(Row) \cup Permutations(Req)

\* Nothing is looked at beyond the first race or failure.
FirstTrouble == hazard = {}

\* Nor beyond what the first administrator's request makes of the rows.
FirstAdmin == "admin" \in hazard => \E r \in Req : ~At(r, "idle")
=============================================================================
