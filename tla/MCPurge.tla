------------------------------- MODULE MCPurge -------------------------------
(* Purge for TLC: three orders, of which a pass deletes two. *)
EXTENDS Purge

CONSTANTS o1, o2, o3

ThreeOrders == {o1, o2, o3}
=============================================================================
