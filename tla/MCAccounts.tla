------------------------------ MODULE MCAccounts ------------------------------
(* Accounts for TLC: somebody who signed up twice with one address, two browsers,
   and one order, of that address or another. *)
EXTENDS Accounts

CONSTANTS u1, u2, b1, b2, o1, e1, e2

TwoUids == {u1, u2}
TwoBrowsers == {b1, b2}
OneOrder == {o1}
TwoEmails == {e1, e2}
OneEmail == {e1}
=============================================================================
