----------------------------- MODULE MCInventory -----------------------------
(* Inventory for TLC: which orders, tiers and caps an instance has. *)
EXTENDS Inventory, TLC

CONSTANTS o1, o2, t1, t2

TwoOrders == {o1, o2}
TwoTiers == {t1, t2}

CapOrNone == {2, NoCap}

\* Orders are interchangeable, and so are tiers.
Interchangeable == Permutations(Orders) \cup Permutations(Tiers)
=============================================================================
