----------------------------- MODULE MCSettlement -----------------------------
(* Settlement for TLC: one tier, one order for one or two of its few seats;
   what others buy is like a cap that is lowered. *)
EXTENDS Settlement

CONSTANTS o1, t1

OneOrder == {o1}
OneTier == {t1}

SmallCaps == {1, 2}
OneSeat == {1}
=============================================================================
