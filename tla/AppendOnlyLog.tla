--------------------------- MODULE AppendOnlyLog ---------------------------
(***************************************************************************)
(* What the ledger promises: each chain is a list, and it only grows, at   *)
(* its end, by the entries of one transaction at a time.                   *)
(***************************************************************************)
EXTENDS Naturals, Sequences

CONSTANTS Chains, MaxEntries

VARIABLE log

Init == log = [c \in Chains |-> <<>>]

\* The list of chain c gets between one and MaxEntries entries more.
Extend(c) ==
    /\ Len(log'[c]) \in (Len(log[c]) + 1)..(Len(log[c]) + MaxEntries)
    /\ SubSeq(log'[c], 1, Len(log[c])) = log[c]
    /\ \A d \in Chains \ {c} : log'[d] = log[d]

Next == \E c \in Chains : Extend(c)

Spec == Init /\ [][Next]_log

=============================================================================
