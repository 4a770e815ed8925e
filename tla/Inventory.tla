------------------------------ MODULE Inventory ------------------------------
(***************************************************************************)
(* The seats of an event and the orders that hold or own them:             *)
(* services/inventory.service.ts, the two transactions of createCheckout   *)
(* that touch orders, and the tier endpoints of routes/admin.routes.ts.    *)
(*                                                                         *)
(* Every operation here is one Postgres transaction that locks each row it *)
(* changes and keeps the locks to its commit, so it is one action.  A      *)
(* transaction that throws (lock timeout, crash, a failed reservation)     *)
(* rolls back and is no step at all.  Who calls the operations, and in     *)
(* which order, is left open: Settlement says that.                        *)
(*                                                                         *)
(* The CHECK constraints of ticket_tiers are NOT guards of the checkout    *)
(* and settlement actions: SchemaChecks is the claim that they never have  *)
(* to abort one.  PATCH /tiers relies on them, so there they are a guard.  *)
(***************************************************************************)
EXTENDS Integers, FiniteSets

CONSTANTS
    Tiers,          \* the ticket tiers of one event
    Orders,         \* ids for the orders that may ever be placed
    NoCap,          \* quantity_total IS NULL: the tier is uncapped
    Totals,         \* the values an organiser gives quantity_total
    TierStatuses,   \* of active, paused, hidden, closed, the ones exercised
    MinPerOrder,
    MaxPerOrder

ASSUME OrdersFinite == IsFiniteSet(Orders)
ASSUME NoCapIsNull == NoCap \notin Int
ASSUME TotalsOK == Totals \subseteq (Nat \ {0}) \cup {NoCap}
ASSUME TierStatusesOK == {"active", "closed"} \subseteq TierStatuses
ASSUME OrderBounds ==                       \* ticket_tiers_order_bounds
    /\ MinPerOrder \in Nat \ {0}
    /\ MaxPerOrder \in Nat
    /\ MaxPerOrder >= MinPerOrder

VARIABLES
    tier,           \* ticket_tiers: counters, status, whether now() is in the sales window
    order,          \* orders, with their items and whether a payments row exists
    soldTo          \* history: the tiers whose seats commitOrder took for the order

vars == <<tier, order, soldTo>>

HOLDING_STATUSES == {"pending", "awaiting_payment"}
ReleaseStatuses == {"expired", "failed", "cancelled"}
OrderStatuses == {"none", "paid"} \cup HOLDING_STATUSES \cup ReleaseStatuses

Quantity == 0..MaxPerOrder                  \* 0: the tier is not in the basket
Basket == [Tiers -> Quantity]

Tier == [total : (Nat \ {0}) \cup {NoCap}, reserved : Nat, sold : Nat,
         status : TierStatuses, inWindow : BOOLEAN]

Order == [status : OrderStatuses, items : Basket, released : BOOLEAN,
          refundRequired : BOOLEAN, payment : BOOLEAN]

NoOrder == [status |-> "none", items |-> [t \in Tiers |-> 0], released |-> FALSE,
            refundRequired |-> FALSE, payment |-> FALSE]

-----------------------------------------------------------------------------
(* What the code asks of a row. *)

\* Mutation: seats held by orders still being paid count as free.
hasRoomForSoldOnly(row, quantity) ==
    row.total # NoCap => row.total - row.sold >= quantity

hasRoomFor(row, quantity) ==
    row.total # NoCap => row.total - row.reserved - row.sold >= quantity

\* Mutations: one of the two columns is not looked at.
isHoldingByStatus(row) == row.status \in HOLDING_STATUSES
isHoldingByRelease(row) == ~row.released

isHoldingInventory(row) == ~row.released /\ row.status \in HOLDING_STATUSES

\* The WHERE of reserveTier's one UPDATE; explainReservationFailure only
\* words which conjunct was false.
canReserve(row, quantity) ==
    /\ row.status = "active"
    /\ quantity \in MinPerOrder..MaxPerOrder
    /\ row.inWindow
    /\ hasRoomFor(row, quantity)

Exists(o) == order[o].status # "none"

InBasket(basket) == {t \in Tiers : basket[t] > 0}

\* GREATEST(quantity_reserved - quantity, 0)
GiveBack(reserved, quantity) == IF reserved >= quantity THEN reserved - quantity ELSE 0

-----------------------------------------------------------------------------
Init ==
    /\ tier \in [Tiers -> {[total |-> n, reserved |-> 0, sold |-> 0,
                            status |-> "active", inWindow |-> TRUE] : n \in Totals}]
    /\ order = [o \in Orders |-> NoOrder]
    /\ soldTo = [o \in Orders |-> {}]

\* createCheckout, first transaction: every tier of the basket or none.
Reserve(o, basket) ==
    /\ ~Exists(o)
    /\ InBasket(basket) # {}
    /\ \A t \in InBasket(basket) : canReserve(tier[t], basket[t])
    /\ tier' = [t \in Tiers |-> [tier[t] EXCEPT !.reserved = @ + basket[t]]]
    /\ order' = [order EXCEPT ![o] = [NoOrder EXCEPT !.status = "pending", !.items = basket]]
    /\ UNCHANGED soldTo

\* createCheckout, second transaction: the payments row, and a status UPDATE
\* whose WHERE names the order and nothing else.
StartPayment(o) ==
    /\ Exists(o)
    /\ ~order[o].payment
    /\ order' = [order EXCEPT ![o].payment = TRUE, ![o].status = "awaiting_payment"]
    /\ UNCHANGED <<tier, soldTo>>

releaseOrder(o, terminalStatus) ==
    /\ Exists(o)
    /\ isHoldingInventory(order[o])
    /\ tier' = [t \in Tiers |->
                  [tier[t] EXCEPT !.reserved = GiveBack(@, order[o].items[t])]]
    /\ order' = [order EXCEPT ![o].status = terminalStatus, ![o].released = TRUE]
    /\ UNCHANGED soldTo

\* The hold still stands: reserved becomes sold.
CommitHeld(o) ==
    /\ ~order[o].released
    /\ tier' = [t \in Tiers |->
                  [tier[t] EXCEPT !.reserved = GiveBack(@, order[o].items[t]),
                                  !.sold = @ + order[o].items[t]]]
    /\ order' = [order EXCEPT ![o].status = "paid"]
    /\ soldTo' = [soldTo EXCEPT ![o] = InBasket(order[o].items)]

\* The hold lapsed: each tier is re-taken from what is left, or not.
Recoverable(o) == {t \in InBasket(order[o].items) : hasRoomFor(tier[t], order[o].items[t])}

\* Mutation: the flag is only set when nothing at all could be recovered.
CommitLapsedNoFlag(o) ==
    /\ order[o].released
    /\ tier' = [t \in Tiers |->
                  IF t \in Recoverable(o)
                  THEN [tier[t] EXCEPT !.sold = @ + order[o].items[t]]
                  ELSE tier[t]]
    /\ order' = [order EXCEPT ![o].status = "paid", ![o].released = FALSE,
                              ![o].refundRequired = @ \/ Recoverable(o) = {}]
    /\ soldTo' = [soldTo EXCEPT ![o] = Recoverable(o)]

CommitLapsed(o) ==
    /\ order[o].released
    /\ tier' = [t \in Tiers |->
                  IF t \in Recoverable(o)
                  THEN [tier[t] EXCEPT !.sold = @ + order[o].items[t]]
                  ELSE tier[t]]
    /\ order' = [order EXCEPT ![o].status = "paid", ![o].released = FALSE,
                              ![o].refundRequired = @ \/ Recoverable(o) # InBasket(order[o].items)]
    /\ soldTo' = [soldTo EXCEPT ![o] = Recoverable(o)]

\* Mutations: a second commit is not turned away; a lapsed hold is not noticed.
commitOrderAgain(o) ==
    /\ Exists(o)
    /\ order[o].payment
    /\ CommitHeld(o) \/ CommitLapsed(o)

commitOrderAsIfHeld(o) ==
    /\ Exists(o)
    /\ order[o].payment
    /\ order[o].status # "paid"
    /\ tier' = [t \in Tiers |->
                  [tier[t] EXCEPT !.reserved = GiveBack(@, order[o].items[t]),
                                  !.sold = @ + order[o].items[t]]]
    /\ order' = [order EXCEPT ![o].status = "paid", ![o].released = FALSE]
    /\ soldTo' = [soldTo EXCEPT ![o] = InBasket(order[o].items)]

\* Its one caller settles a payments row of the order, so there is one.
commitOrder(o) ==
    /\ Exists(o)
    /\ order[o].payment
    /\ order[o].status # "paid"
    /\ CommitHeld(o) \/ CommitLapsed(o)

\* PATCH /api/admin/tiers/:id, aborted by ticket_tiers_no_oversell.
PatchTier(t, total, status) ==
    /\ total # NoCap => tier[t].reserved + tier[t].sold <= total
    /\ tier' = [tier EXCEPT ![t].total = total, ![t].status = status]
    /\ UNCHANGED <<order, soldTo>>

\* close-sales and reopen-sales.
setTierSalesClosed(t, closed) ==
    /\ tier' = [tier EXCEPT ![t].status = IF closed THEN "closed" ELSE "active"]
    /\ UNCHANGED <<order, soldTo>>

\* now() enters or leaves the sales window, or a PATCH moves its bounds.
MoveWindow(t) ==
    /\ tier' = [tier EXCEPT ![t].inWindow = ~@]
    /\ UNCHANGED <<order, soldTo>>

\* What the organiser and the clock do to a tier.
ChangeTier(t) ==
    \/ \E total \in Totals, s \in TierStatuses : PatchTier(t, total, s)
    \/ \E closed \in BOOLEAN : setTierSalesClosed(t, closed)
    \/ MoveWindow(t)

Next ==
    \/ \E o \in Orders :
         \/ \E basket \in Basket : Reserve(o, basket)
         \/ StartPayment(o)
         \/ \E s \in ReleaseStatuses : releaseOrder(o, s)
         \/ commitOrder(o)
    \/ \E t \in Tiers : ChangeTier(t)

Spec == Init /\ [][Next]_vars

-----------------------------------------------------------------------------
(* A seat is named by the order and its place in the order's basket. *)

Seat == Orders \X (1..MaxPerOrder)

SeatsOf(o, t) == {o} \X (1..order[o].items[t])

HeldSeats(t) == {s \in Seat : isHoldingInventory(order[s[1]]) /\ s \in SeatsOf(s[1], t)}

SoldSeats(t) == {s \in Seat : t \in soldTo[s[1]] /\ s \in SeatsOf(s[1], t)}

TypeOK ==
    /\ tier \in [Tiers -> Tier]
    /\ order \in [Orders -> Order]
    /\ soldTo \in [Orders -> SUBSET Tiers]

\* No transaction of checkout or settlement, in any order and however late, is
\* ever stopped by the CHECK constraints of ticket_tiers: no tier is sold twice
\* over, whatever the organiser does to the cap meanwhile.
SchemaChecks ==
    \A t \in Tiers :
        /\ tier[t].total # NoCap => tier[t].reserved + tier[t].sold <= tier[t].total
        /\ tier[t].reserved >= 0
        /\ tier[t].sold >= 0

\* quantity_reserved is exactly the seats of the orders that isHoldingInventory
\* says hold some: nothing is leaked by a release that never came, returned
\* twice, or hidden by the clamp at zero.
ReservedMatchesHolds ==
    \A t \in Tiers : tier[t].reserved = Cardinality(HeldSeats(t))

\* quantity_sold is exactly the seats commitOrder took, each once.
SoldMatchesCommits ==
    \A t \in Tiers : tier[t].sold = Cardinality(SoldSeats(t))

\* Seats are taken for paid orders only, and a paid order not flagged for a
\* refund owns every seat of its basket.
PaidOwnsItsSeats ==
    \A o \in Orders :
        /\ soldTo[o] # {} => order[o].status = "paid"
        /\ order[o].status = "paid" /\ ~order[o].refundRequired
             => soldTo[o] = InBasket(order[o].items)

\* What the statuses imply of the other columns.  A released order may be back in
\* awaiting_payment (StartPayment has no status guard), but never in pending.
RowShape ==
    \A o \in Orders :
        /\ order[o].status = "none" => order[o] = NoOrder
        /\ order[o].status = "pending" => ~order[o].released /\ ~order[o].payment
        /\ order[o].status \in ReleaseStatuses => order[o].released
        /\ order[o].status = "paid" => order[o].payment /\ ~order[o].released

\* Once paid, an order keeps its status, its seats and its refund flag: no late
\* release, second commit or checkout still starting its payment undoes it.
PaidIsFinal ==
    [][\A o \in Orders : order[o].status = "paid" =>
          /\ order'[o].status = "paid"
          /\ order'[o].refundRequired = order[o].refundRequired
          /\ soldTo'[o] = soldTo[o]]_vars

-----------------------------------------------------------------------------
(* What buyers and organisers are promised, and that the counters keep it. *)

Promise == INSTANCE SeatPromise WITH
    Buyers <- Orders,
    cap <- [t \in Tiers |-> tier[t].total],
    held <- [t \in Tiers |-> HeldSeats(t)],
    sold <- [t \in Tiers |-> SoldSeats(t)]

\* The counters implement the allocation of individual seats.
KeepsPromise == Promise!Spec
=============================================================================
