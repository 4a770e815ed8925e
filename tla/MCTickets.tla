------------------------------ MODULE MCTickets ------------------------------
(* Tickets behind Doors for TLC: the ticket of an order, two phones, and one   *)
(* link that either may hold, while an organiser reads the totals of sales.  *)
EXTENDS Reports, TLC

CONSTANTS i1, g1, g2, l1

OneItem == {i1}
OneOfIt == [i \in Items |-> 1]
TwoGates == {g1, g2}
OneLink == {l1}

Interchangeable == Permutations(Gates)
=============================================================================
