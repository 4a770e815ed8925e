----------------------------- MODULE SeatPromise -----------------------------
(***************************************************************************)
(* What selling seats promises, without counters or order statuses.        *)
(* A seat of a tier is free, held for a buyer, or sold to one.  A buyer    *)
(* holds once; held seats come back or are sold, all of a buyer's at once; *)
(* sold seats stay sold; and never are more seats of a capped tier out     *)
(* than its cap.                                                           *)
(***************************************************************************)
EXTENDS Integers, FiniteSets

CONSTANTS Tiers, Buyers, NoCap, MaxPerOrder

VARIABLES cap, held, sold

vars == <<cap, held, sold>>

SeatsOf(b) == {b} \X (1..MaxPerOrder)

Fits(seats, limit) == limit # NoCap => Cardinality(seats) <= limit

Sound == \A t \in Tiers : held[t] \cap sold[t] = {} /\ Fits(held[t] \cup sold[t], cap[t])

Init ==
    /\ held = [t \in Tiers |-> {}]
    /\ sold = [t \in Tiers |-> {}]
    /\ Sound

\* The seats of `after` are those of `before` and some more of b's.
Gains(b, before, after) ==
    \A t \in Tiers :
        /\ before[t] \subseteq after[t]
        /\ after[t] \ before[t] \subseteq SeatsOf(b)

Hold(b) ==
    /\ \A t \in Tiers : (held[t] \cup sold[t]) \cap SeatsOf(b) = {}
    /\ Gains(b, held, held')
    /\ UNCHANGED <<cap, sold>>

Return(b) ==
    /\ held' = [t \in Tiers |-> held[t] \ SeatsOf(b)]
    /\ UNCHANGED <<cap, sold>>

Sell(b) ==
    /\ sold' = [t \in Tiers |-> sold[t] \cup (held[t] \cap SeatsOf(b))]
    /\ held' = [t \in Tiers |-> held[t] \ SeatsOf(b)]
    /\ UNCHANGED cap

\* A payment that comes after the hold was given up takes what is still free.
SellFree(b) ==
    /\ \A t \in Tiers : held[t] \cap SeatsOf(b) = {}
    /\ Gains(b, sold, sold')
    /\ UNCHANGED <<cap, held>>

ChangeCap ==
    /\ cap' # cap
    /\ UNCHANGED <<held, sold>>

Next ==
    /\ \/ \E b \in Buyers : Hold(b) \/ Return(b) \/ Sell(b) \/ SellFree(b)
       \/ ChangeCap
    /\ Sound'

Spec == Init /\ [][Next]_vars
=============================================================================
