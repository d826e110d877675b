----------------------------- MODULE MC_Billing -----------------------------
(* Billing on small instances.                                             *)
EXTENDS Billing, TLC

\* Rows, requests and payments are interchangeable.
Symmetry == Permutations(Row) \cup Permutations(Req) \cup Permutations(Pay)

\* Nothing is looked at beyond the first race or failure.
FirstTrouble == hazard = {} /\ overpaid = {}

\* Bound: the provider sends so many events, those of one payment or of both; a payment
\* is refunded while it is the only one.
FewEvents ==
    /\ FirstTrouble /\ Cardinality(mail) <= 4
    /\ \A p, q \in Pay : Refunded(p) /\ pay[q] # None => p = q
=============================================================================
