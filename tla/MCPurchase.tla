------------------------------ MODULE MCPurchase ------------------------------
(* Purchase for TLC: two connections, two email addresses. *)
EXTENDS Purchase, TLC

CONSTANTS c1, c2, o1, o2, o3, e1, e2, p1

TwoClients == {c1, c2}
OneClient == {c1}
ThreeOrders == {o1, o2, o3}
TwoOrders == {o1, o2}
TwoEmails == {e1, e2}
OneEmail == {e1}
OnePhone == {p1}

\* Attempts are numbered by the orders there are, for the mutation that does so.
PageBodies ==
    [key : Baskets \X (0..Cardinality(OrderIds)), basket : Baskets, buyer : Buyer]

\* The server scopes the key to who sent it.
ScopedKeys == [body \in Bodies |-> <<body.key, body.buyer.email>>]

Interchangeable == Permutations(Clients) \cup Permutations(OrderIds) \cup Permutations(Emails)
=============================================================================
