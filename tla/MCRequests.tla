------------------------------ MODULE MCRequests ------------------------------
(* Requests for TLC: one key that two people may both choose, one phone. *)
EXTENDS Requests, TLC

CONSTANTS c1, c2, o1, o2, o3, e1, e2, p1, b1, k1

TwoClients == {c1, c2}
ThreeOrders == {o1, o2, o3}
TwoEmails == {e1, e2}
OnePhone == {p1}
OneBasket == {b1}
OneKey == {k1}

Interchangeable ==
    Permutations(Clients) \cup Permutations(OrderIds) \cup Permutations(Emails)
=============================================================================
