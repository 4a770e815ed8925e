------------------------------ MODULE MCLedger ------------------------------
(* A small ledger: three transactions of up to two entries each, and a     *)
(* reader of the order's chain.                                             *)
EXTENDS OrderHistory, TLC

CONSTANTS w1, w2, w3, order, global

MCWriters == {w1, w2, w3}
MCChains == {order, global}
Interchangeable == Permutations(MCWriters)

=============================================================================
