------------------------------ MODULE MCAudience ------------------------------
(* Audience for TLC: an account that may subscribe, one that does
   not, and two PATCHes at the same time. *)
EXTENDS Audience

CONSTANTS e1, e2, a1, a2

OneSubscriber == {e1}
TwoAccounts == {e1, e2}
TwoOrganisers == {a1, a2}
=============================================================================
