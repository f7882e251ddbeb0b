----------------------------- MODULE MCDelivery -----------------------------
(* Instances of Delivery for TLC. *)
EXTENDS Delivery, TLC

\* Every event belongs to the same CVE: notices always compete.
OneCve == [e \in Events |-> 1]

\* Runs are interchangeable: no action or invariant tells them apart.
RunSymmetry == Permutations(Runs)

\* Rows meet in pairs: the last event is queued beside at most one other.
TwoRows == Cardinality({e \in 1..(NumEvents - 1) : row[e].status # "absent"}) <= 1
=============================================================================
