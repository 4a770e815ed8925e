--------------------------- MODULE InventoryProofs ---------------------------
(***************************************************************************)
(* Inventory's invariants hold for any tiers, orders, caps and baskets.    *)
(*                                                                         *)
(* Seats are named by pairs <<order, place>>, so that "the sum of the      *)
(* quantities of the orders that ..." is the cardinality of a set of seats *)
(* and every action adds one order's seats to a set, takes them out, or    *)
(* leaves the set alone.  IInv is inductive: SchemaChecks alone is not,    *)
(* since the clamp at zero in a release may only be ignored when the       *)
(* counter is known to cover the hold.                                     *)
(***************************************************************************)
EXTENDS Inventory, FiniteSetTheorems, TLAPS

IInv ==
    /\ TypeOK
    /\ RowShape
    /\ ReservedMatchesHolds
    /\ SoldMatchesCommits
    /\ SchemaChecks
    /\ PaidOwnsItsSeats

-----------------------------------------------------------------------------
(* Counting seats. *)

\* An order's q seats of a tier are q seats.
LEMMA SeatsCount ==
    ASSUME NEW o, NEW q \in Nat
    PROVE  IsFiniteSet({o} \X (1..q)) /\ Cardinality({o} \X (1..q)) = q
<1>1. IsFiniteSet({o}) /\ Cardinality({o}) = 1
  BY FS_Singleton
<1>2. IsFiniteSet(1..q) /\ Cardinality(1..q) = q
  BY FS_Interval
<1> DEFINE A == {o}
           B == 1..q
<1> HIDE DEF A, B
<1>3. IsFiniteSet(A \X B) /\ Cardinality(A \X B) = Cardinality(A) * Cardinality(B)
  BY <1>1, <1>2, FS_Product, Zenon DEF A, B
<1> QED
  BY <1>1, <1>2, <1>3 DEF A, B

\* Any set of seats is finite.
LEMMA SeatsFinite ==
    ASSUME NEW S \in SUBSET Seat
    PROVE  IsFiniteSet(S) /\ Cardinality(S) \in Nat
<1>1. IsFiniteSet(1..MaxPerOrder)
  BY FS_Interval, OrderBounds
<1>2. IsFiniteSet(Seat)
  BY <1>1, OrdersFinite, FS_Product DEF Seat
<1> QED
  BY <1>2, FS_Subset, FS_CardinalityType

\* Seats added to a set that has none of them are all counted.
LEMMA SeatsAdded ==
    ASSUME NEW S \in SUBSET Seat, NEW T \in SUBSET Seat, S \cap T = {}
    PROVE  Cardinality(S \cup T) = Cardinality(S) + Cardinality(T)
<1>1. Cardinality(S \cup T) = Cardinality(S) + Cardinality(T) - Cardinality(S \cap T)
  BY SeatsFinite, FS_Union
<1>2. Cardinality(S \cap T) = 0
  BY FS_EmptySet
<1> QED
  BY <1>1, <1>2, SeatsFinite

\* Seats removed from a set that has all of them are all uncounted.
LEMMA SeatsRemoved ==
    ASSUME NEW S \in SUBSET Seat, NEW T \in SUBSET Seat, T \subseteq S
    PROVE  /\ Cardinality(S \ T) = Cardinality(S) - Cardinality(T)
           /\ Cardinality(T) <= Cardinality(S)
<1>1. S \cap T = T
  OBVIOUS
<1>2. Cardinality(S \ T) = Cardinality(S) - Cardinality(S \cap T)
  BY SeatsFinite, FS_Difference
<1>3. Cardinality(T) <= Cardinality(S)
  BY SeatsFinite, FS_Subset
<1> QED
  BY <1>1, <1>2, <1>3

\* The seats of one order on one tier are seats, as many as its items say.
LEMMA OrderSeats ==
    ASSUME NEW o \in Orders, NEW q \in Quantity
    PROVE  /\ q \in Nat
           /\ {o} \X (1..q) \in SUBSET Seat
           /\ Cardinality({o} \X (1..q)) = q
<1>1. q \in Nat /\ 1..q \subseteq 1..MaxPerOrder
  BY OrderBounds DEF Quantity
<1> QED
  BY <1>1, SeatsCount DEF Seat

\* What the counters have to cover before a hold is given back or sold.
LEMMA HoldIsCounted ==
    ASSUME TypeOK, ReservedMatchesHolds, NEW o \in Orders, NEW t \in Tiers,
           isHoldingInventory(order[o])
    PROVE  /\ SeatsOf(o, t) \subseteq HeldSeats(t)
           /\ tier[t].reserved >= order[o].items[t]
<1>1. order[o].items[t] \in Quantity
  BY DEF TypeOK, Order, Basket
<1>2. SeatsOf(o, t) \in SUBSET Seat /\ Cardinality(SeatsOf(o, t)) = order[o].items[t]
  BY <1>1, OrderSeats DEF SeatsOf
<1>3. HeldSeats(t) \in SUBSET Seat
  BY DEF HeldSeats
<1>4. SeatsOf(o, t) \subseteq HeldSeats(t)
  BY <1>2 DEF HeldSeats, SeatsOf, Seat
<1> QED
  BY <1>2, <1>3, <1>4, SeatsRemoved DEF ReservedMatchesHolds

\* Moving the counters within the naturals keeps a tier a tier.
LEMMA CountersKeepTier ==
    ASSUME NEW row \in Tier, NEW reserved \in Nat, NEW sold \in Nat
    PROVE  /\ [row EXCEPT !.reserved = reserved] \in Tier
           /\ [row EXCEPT !.sold = sold] \in Tier
           /\ [row EXCEPT !.reserved = reserved, !.sold = sold] \in Tier
BY DEF Tier

-----------------------------------------------------------------------------
(* One lemma per action that moves seats or orders. *)

\* A new order's seats join the held ones, and the room the UPDATE tested for
\* is the room they take.
LEMMA ReserveKeepsIInv ==
    ASSUME IInv, NEW o \in Orders, NEW basket \in Basket, Reserve(o, basket)
    PROVE  IInv'
<1> USE DEF IInv
<1>1. order[o] = NoOrder /\ soldTo[o] = {}
  BY DEF Reserve, Exists, RowShape, PaidOwnsItsSeats, NoOrder
<1>2. TypeOK'
  <2>1. order' \in [Orders -> Order]
    BY DEF Reserve, TypeOK, Order, NoOrder, OrderStatuses, HOLDING_STATUSES
  <2>2. tier' \in [Tiers -> Tier]
    <3>1. \A t \in Tiers : tier[t] \in Tier /\ tier[t].reserved + basket[t] \in Nat
      BY OrderBounds DEF TypeOK, Tier, Basket, Quantity
    <3>2. \A t \in Tiers : tier'[t] \in Tier
      <4> SUFFICES ASSUME NEW t \in Tiers PROVE tier'[t] \in Tier
        OBVIOUS
      <4>1. tier'[t] = [tier[t] EXCEPT !.reserved = tier[t].reserved + basket[t]]
        BY Zenon DEF Reserve
      <4>2. [tier[t] EXCEPT !.reserved = tier[t].reserved + basket[t]] \in Tier
        BY <3>1, CountersKeepTier, Zenon
      <4> QED
        BY <4>1, <4>2, Zenon
    <3> QED
      BY <3>2 DEF Reserve
  <2> QED
    BY <2>1, <2>2 DEF Reserve, TypeOK
<1>3. RowShape'
  BY DEF Reserve, RowShape, TypeOK, NoOrder, ReleaseStatuses, HOLDING_STATUSES
<1>4. PaidOwnsItsSeats'
  BY <1>1 DEF Reserve, PaidOwnsItsSeats, TypeOK, NoOrder
<1>5. ASSUME NEW t \in Tiers
      PROVE  /\ SeatsOf(o, t)' \in SUBSET Seat
             /\ Cardinality(SeatsOf(o, t)') = basket[t]
             /\ HeldSeats(t)' = HeldSeats(t) \cup SeatsOf(o, t)'
             /\ HeldSeats(t) \cap SeatsOf(o, t)' = {}
             /\ SoldSeats(t)' = SoldSeats(t)
  <2>1. order'[o].items = basket /\ isHoldingInventory(order'[o]) /\ ~isHoldingInventory(order[o])
    BY <1>1 DEF Reserve, TypeOK, NoOrder, isHoldingInventory, HOLDING_STATUSES
  <2>2. \A p \in Orders \ {o} : order'[p] = order[p]
    BY DEF Reserve, TypeOK
  <2>3. SeatsOf(o, t)' \in SUBSET Seat /\ Cardinality(SeatsOf(o, t)') = basket[t]
    <3>1. SeatsOf(o, t)' = {o} \X (1..basket[t]) /\ basket[t] \in Quantity
      BY <2>1 DEF SeatsOf, Basket
    <3> QED
      BY <3>1, OrderSeats
  <2>4. HeldSeats(t)' = HeldSeats(t) \cup SeatsOf(o, t)'
    BY <2>1, <2>2, <2>3 DEF HeldSeats, SeatsOf, Seat
  <2>5. HeldSeats(t) \cap SeatsOf(o, t)' = {}
    BY <2>1 DEF HeldSeats, SeatsOf
  <2>6. SoldSeats(t)' = SoldSeats(t)
    BY <1>1, <2>2 DEF SoldSeats, SeatsOf, Seat, Reserve
  <2> QED
    BY <2>3, <2>4, <2>5, <2>6
<1>6. ASSUME NEW t \in Tiers
      PROVE  /\ basket[t] \in Nat
             /\ tier'[t].reserved = tier[t].reserved + basket[t]
             /\ tier'[t].sold = tier[t].sold
             /\ tier'[t].total = tier[t].total
  BY DEF Reserve, TypeOK, Tier, Basket, Quantity
<1>7. ReservedMatchesHolds'
  <2> SUFFICES ASSUME NEW t \in Tiers
               PROVE  tier'[t].reserved = Cardinality(HeldSeats(t)')
    BY DEF ReservedMatchesHolds
  <2>1. HeldSeats(t) \in SUBSET Seat
    BY DEF HeldSeats
  <2>2. Cardinality(HeldSeats(t)') = Cardinality(HeldSeats(t)) + basket[t]
    BY <1>5, <2>1, SeatsAdded
  <2> QED
    BY <1>6, <2>2 DEF ReservedMatchesHolds
<1>8. SoldMatchesCommits'
  BY <1>5, <1>6 DEF SoldMatchesCommits
<1>9. SchemaChecks'
  <2> SUFFICES ASSUME NEW t \in Tiers
               PROVE  /\ tier'[t].total # NoCap
                          => tier'[t].reserved + tier'[t].sold <= tier'[t].total
                      /\ tier'[t].reserved >= 0
                      /\ tier'[t].sold >= 0
    BY DEF SchemaChecks
  <2>1. tier[t] \in Tier
    BY DEF TypeOK
  <2>2. CASE basket[t] = 0
    BY <1>6, <2>1, <2>2 DEF SchemaChecks, Tier
  <2>3. CASE basket[t] > 0
    <3>1. hasRoomFor(tier[t], basket[t])
      BY <2>3 DEF Reserve, InBasket, canReserve
    <3> QED
      BY <1>6, <2>1, <3>1 DEF hasRoomFor, Tier, SchemaChecks
  <2> QED
    BY <1>6, <2>2, <2>3
<1> QED
  BY <1>2, <1>3, <1>4, <1>7, <1>8, <1>9

\* Whatever its status was, an order without a payment holds the same seats
\* after the unguarded UPDATE as before: it cannot have been paid, and a
\* released one stays released.
LEMMA StartPaymentKeepsIInv ==
    ASSUME IInv, NEW o \in Orders, StartPayment(o)
    PROVE  IInv'
<1> USE DEF IInv
<1>1. order' \in [Orders -> Order]
  <2>1. order \in [Orders -> Order] /\ "awaiting_payment" \in OrderStatuses
    BY DEF TypeOK, OrderStatuses, HOLDING_STATUSES
  <2>2. [order[o] EXCEPT !.status = "awaiting_payment", !.payment = TRUE] \in Order
    BY <2>1 DEF Order
  <2>3. order' = [order EXCEPT ![o] = [order[o] EXCEPT !.status = "awaiting_payment", !.payment = TRUE]]
    BY <2>1, <2>2 DEF StartPayment
  <2> QED
    BY <2>1, <2>2, <2>3
<1>2. TypeOK'
  BY <1>1 DEF StartPayment, TypeOK
<1>3. /\ order'[o].items = order[o].items
      /\ order'[o].status = "awaiting_payment"
      /\ order'[o].released = order[o].released
      /\ order'[o].payment
      /\ \A p \in Orders \ {o} : order'[p] = order[p]
  BY DEF StartPayment, TypeOK, Order
<1>4. RowShape'
  BY <1>3 DEF RowShape, ReleaseStatuses
<1>5. order[o].status # "paid" /\ soldTo[o] = {} /\ soldTo' = soldTo
  BY DEF StartPayment, RowShape, PaidOwnsItsSeats
<1>6. PaidOwnsItsSeats'
  BY <1>3, <1>5 DEF PaidOwnsItsSeats
<1>7. isHoldingInventory(order'[o]) = isHoldingInventory(order[o])
  BY <1>3, <1>5 DEF StartPayment, Exists, isHoldingInventory, HOLDING_STATUSES, RowShape,
     ReleaseStatuses, TypeOK, Order, OrderStatuses
<1>8. ASSUME NEW t \in Tiers
      PROVE  HeldSeats(t)' = HeldSeats(t) /\ SoldSeats(t)' = SoldSeats(t)
  BY <1>3, <1>5, <1>7 DEF HeldSeats, SoldSeats, SeatsOf, Seat
<1>9. tier' = tier
  BY DEF StartPayment
<1>10. ReservedMatchesHolds' /\ SoldMatchesCommits'
  BY <1>8, <1>9 DEF ReservedMatchesHolds, SoldMatchesCommits
<1>11. SchemaChecks'
  BY <1>9 DEF SchemaChecks
<1> QED
  BY <1>2, <1>4, <1>6, <1>10, <1>11

\* A release gives back exactly the seats of the hold: the clamp never acts.
LEMMA ReleaseKeepsIInv ==
    ASSUME IInv, NEW o \in Orders, NEW s \in ReleaseStatuses, releaseOrder(o, s)
    PROVE  IInv'
<1> USE DEF IInv
<1>1. order' \in [Orders -> Order]
  <2>1. order \in [Orders -> Order] /\ s \in OrderStatuses
    BY DEF TypeOK, OrderStatuses
  <2>2. [order[o] EXCEPT !.status = s, !.released = TRUE] \in Order
    BY <2>1 DEF Order
  <2>3. order' = [order EXCEPT ![o] = [order[o] EXCEPT !.status = s, !.released = TRUE]]
    BY <2>1, <2>2 DEF releaseOrder
  <2> QED
    BY <2>1, <2>2, <2>3
<1>2. /\ order'[o].items = order[o].items
      /\ order'[o].status = s
      /\ order'[o].released
      /\ \A p \in Orders \ {o} : order'[p] = order[p]
  BY DEF releaseOrder, TypeOK, Order
<1>3. RowShape'
  BY <1>2 DEF RowShape, ReleaseStatuses
<1>4. order[o].status # "paid" /\ s # "paid" /\ soldTo[o] = {} /\ soldTo' = soldTo
  BY DEF releaseOrder, isHoldingInventory, HOLDING_STATUSES, ReleaseStatuses, PaidOwnsItsSeats
<1>5. PaidOwnsItsSeats'
  BY <1>2, <1>4 DEF PaidOwnsItsSeats
<1>6. ASSUME NEW t \in Tiers
      PROVE  /\ order[o].items[t] \in Nat
             /\ tier'[t] = [tier[t] EXCEPT !.reserved = tier[t].reserved - order[o].items[t]]
             /\ tier[t].reserved - order[o].items[t] \in Nat
  <2>1. order[o].items[t] \in Quantity /\ tier[t] \in Tier
    BY DEF TypeOK, Order, Basket
  <2>2. order[o].items[t] \in Nat /\ tier[t].reserved \in Nat
    BY <2>1, OrderSeats DEF Tier
  <2>3. tier[t].reserved >= order[o].items[t]
    BY HoldIsCounted DEF releaseOrder
  <2> QED
    BY <2>2, <2>3 DEF releaseOrder, GiveBack
<1>7. TypeOK'
  <2>1. ASSUME NEW t \in Tiers
        PROVE  tier'[t] \in Tier
    <3>1. tier[t] \in Tier /\ tier[t].sold \in Nat
      BY DEF TypeOK, Tier
    <3>2. [tier[t] EXCEPT !.reserved = tier[t].reserved - order[o].items[t]] \in Tier
      BY <1>6, <3>1, CountersKeepTier, Zenon
    <3> QED
      BY <1>6, <3>2, Zenon
  <2>2. tier' \in [Tiers -> Tier]
    BY <2>1 DEF releaseOrder
  <2> QED
    BY <1>1, <2>2 DEF releaseOrder, TypeOK
<1>8. ASSUME NEW t \in Tiers
      PROVE  /\ HeldSeats(t)' = HeldSeats(t) \ SeatsOf(o, t)
             /\ SoldSeats(t)' = SoldSeats(t)
  <2>1. ~isHoldingInventory(order'[o])
    BY <1>2 DEF isHoldingInventory
  <2> QED
    BY <1>2, <1>4, <2>1 DEF HeldSeats, SoldSeats, SeatsOf, Seat
<1>9. ASSUME NEW t \in Tiers
      PROVE  /\ tier'[t].reserved = tier[t].reserved - order[o].items[t]
             /\ tier'[t].sold = tier[t].sold
             /\ tier'[t].total = tier[t].total
             /\ tier[t] \in Tier
  <2>1. tier[t] \in Tier
    BY DEF TypeOK
  <2>2. tier'[t] = [tier[t] EXCEPT !.reserved = tier[t].reserved - order[o].items[t]]
    BY <1>6
  <2> QED
    BY <2>1, <2>2 DEF Tier
<1>10. ReservedMatchesHolds'
  <2> SUFFICES ASSUME NEW t \in Tiers
               PROVE  tier'[t].reserved = Cardinality(HeldSeats(t)')
    BY DEF ReservedMatchesHolds
  <2>1. SeatsOf(o, t) \subseteq HeldSeats(t)
    BY HoldIsCounted DEF releaseOrder
  <2>2. HeldSeats(t) \in SUBSET Seat
    BY DEF HeldSeats
  <2>3. Cardinality(SeatsOf(o, t)) = order[o].items[t]
    BY OrderSeats DEF SeatsOf, TypeOK, Order, Basket
  <2>4. Cardinality(HeldSeats(t)') = Cardinality(HeldSeats(t)) - order[o].items[t]
    BY <1>8, <2>1, <2>2, <2>3, SeatsRemoved
  <2> QED
    BY <1>9, <2>4 DEF ReservedMatchesHolds
<1>11. SoldMatchesCommits'
  BY <1>8, <1>9 DEF SoldMatchesCommits
<1>12. SchemaChecks'
  <2> SUFFICES ASSUME NEW t \in Tiers
               PROVE  /\ tier'[t].total # NoCap
                          => tier'[t].reserved + tier'[t].sold <= tier'[t].total
                      /\ tier'[t].reserved >= 0
                      /\ tier'[t].sold >= 0
    BY DEF SchemaChecks
  <2>1. order[o].items[t] \in Nat
    BY <1>6
  <2>2. /\ tier[t].total # NoCap
            => tier[t].total \in Nat /\ tier[t].reserved + tier[t].sold <= tier[t].total
        /\ tier[t].reserved \in Nat /\ tier[t].sold \in Nat
        /\ tier[t].reserved - order[o].items[t] \in Nat
    BY <1>6, <1>9 DEF SchemaChecks, Tier
  <2> QED
    BY <1>9, <2>1, <2>2
<1> QED
  BY <1>3, <1>5, <1>7, <1>10, <1>11, <1>12

\* An order that may be committed and was not released still has its hold.
LEMMA UnreleasedHolds ==
    ASSUME IInv, NEW o \in Orders, commitOrder(o)
    PROVE  /\ ~order[o].released => isHoldingInventory(order[o])
           /\ order[o].released => ~isHoldingInventory(order[o])
           /\ soldTo[o] = {}
           /\ order[o].payment
BY DEF IInv, commitOrder, Exists, isHoldingInventory, HOLDING_STATUSES, RowShape, ReleaseStatuses,
   TypeOK, Order, OrderStatuses, PaidOwnsItsSeats

\* Seats go from the held ones to the sold ones of the same tier.
LEMMA CommitHeldKeepsIInv ==
    ASSUME IInv, NEW o \in Orders, commitOrder(o), CommitHeld(o)
    PROVE  IInv'
<1> USE DEF IInv
<1>1. isHoldingInventory(order[o]) /\ soldTo[o] = {} /\ order[o].payment /\ ~order[o].released
  BY UnreleasedHolds DEF CommitHeld
<1>2. order' \in [Orders -> Order] /\ soldTo' \in [Orders -> SUBSET Tiers]
  BY DEF CommitHeld, TypeOK, Order, OrderStatuses, InBasket
<1>3. /\ order'[o].items = order[o].items
      /\ order'[o].status = "paid"
      /\ order'[o].payment = order[o].payment
      /\ order'[o].released = order[o].released
      /\ soldTo'[o] = InBasket(order[o].items)
      /\ \A p \in Orders \ {o} : order'[p] = order[p] /\ soldTo'[p] = soldTo[p]
  BY DEF CommitHeld, TypeOK, Order
<1>4. RowShape'
  BY <1>1, <1>3 DEF RowShape, ReleaseStatuses
<1>5. PaidOwnsItsSeats'
  BY <1>3 DEF PaidOwnsItsSeats, InBasket
<1>6. ASSUME NEW t \in Tiers
      PROVE  /\ tier[t] \in Tier
             /\ order[o].items[t] \in Quantity
             /\ order[o].items[t] \in Nat
             /\ tier[t].reserved - order[o].items[t] \in Nat
             /\ tier[t].sold + order[o].items[t] \in Nat
  <2>1. order[o].items[t] \in Quantity /\ tier[t] \in Tier
    BY DEF TypeOK, Order, Basket
  <2>2. order[o].items[t] \in Nat /\ tier[t].reserved \in Nat /\ tier[t].sold \in Nat
    BY <2>1, OrderSeats DEF Tier
  <2>3. tier[t].reserved >= order[o].items[t]
    BY <1>1, HoldIsCounted
  <2> QED
    BY <2>1, <2>2, <2>3
<1>7. ASSUME NEW t \in Tiers
      PROVE  tier'[t] = [tier[t] EXCEPT !.reserved = tier[t].reserved - order[o].items[t],
                                        !.sold = tier[t].sold + order[o].items[t]]
  <2>1. tier'[t] = [tier[t] EXCEPT !.reserved = GiveBack(tier[t].reserved, order[o].items[t]),
                                  !.sold = tier[t].sold + order[o].items[t]]
    BY Zenon DEF CommitHeld
  <2>2. GiveBack(tier[t].reserved, order[o].items[t]) = tier[t].reserved - order[o].items[t]
    BY <1>6, OrderSeats DEF GiveBack, Tier
  <2> QED
    BY <2>1, <2>2
<1>8. TypeOK'
  <2>1. ASSUME NEW t \in Tiers
        PROVE  tier'[t] \in Tier
    <3>1. /\ tier[t] \in Tier
          /\ tier[t].reserved - order[o].items[t] \in Nat
          /\ tier[t].sold + order[o].items[t] \in Nat
      BY <1>6
    <3>2. [tier[t] EXCEPT !.reserved = tier[t].reserved - order[o].items[t],
                          !.sold = tier[t].sold + order[o].items[t]] \in Tier
      BY <3>1, CountersKeepTier, Zenon
    <3> QED
      BY <1>7, <3>2, Zenon
  <2>2. tier' \in [Tiers -> Tier]
    BY <2>1 DEF CommitHeld
  <2> QED
    BY <1>2, <2>2 DEF TypeOK
<1>9. ASSUME NEW t \in Tiers
      PROVE  /\ HeldSeats(t)' = HeldSeats(t) \ SeatsOf(o, t)
             /\ SoldSeats(t)' = SoldSeats(t) \cup SeatsOf(o, t)
             /\ SoldSeats(t) \cap SeatsOf(o, t) = {}
             /\ SeatsOf(o, t) \subseteq HeldSeats(t)
             /\ SeatsOf(o, t) \in SUBSET Seat
             /\ Cardinality(SeatsOf(o, t)) = order[o].items[t]
  <2>1. ~isHoldingInventory(order'[o])
    BY <1>3 DEF isHoldingInventory, HOLDING_STATUSES
  <2>2. SeatsOf(o, t) \subseteq HeldSeats(t)
    BY <1>1, HoldIsCounted
  <2>3. SeatsOf(o, t) \in SUBSET Seat /\ Cardinality(SeatsOf(o, t)) = order[o].items[t]
    BY <1>6, OrderSeats DEF SeatsOf
  <2>4. HeldSeats(t)' = HeldSeats(t) \ SeatsOf(o, t)
    BY <1>3, <2>1 DEF HeldSeats, SeatsOf, Seat
  <2>5. SoldSeats(t) \cap SeatsOf(o, t) = {}
    BY <1>1 DEF SoldSeats, SeatsOf
  <2>6. SoldSeats(t)' = SoldSeats(t) \cup SeatsOf(o, t)
    <3>1. t \notin InBasket(order[o].items) => SeatsOf(o, t) = {}
      <4>1. t \notin InBasket(order[o].items) => order[o].items[t] = 0
        BY <1>6 DEF InBasket
      <4>2. 1..0 = {}
        OBVIOUS
      <4> QED
        BY <4>1, <4>2 DEF SeatsOf
    <3> QED
      BY <1>1, <1>3, <2>3, <3>1 DEF SoldSeats, SeatsOf, Seat
  <2> QED
    BY <2>2, <2>3, <2>4, <2>5, <2>6
<1>10. ASSUME NEW t \in Tiers
      PROVE  /\ tier'[t].reserved = tier[t].reserved - order[o].items[t]
             /\ tier'[t].sold = tier[t].sold + order[o].items[t]
             /\ tier'[t].total = tier[t].total
  BY <1>6, <1>7 DEF Tier
<1>11. ReservedMatchesHolds' /\ SoldMatchesCommits'
  <2> SUFFICES ASSUME NEW t \in Tiers
               PROVE  /\ tier'[t].reserved = Cardinality(HeldSeats(t)')
                      /\ tier'[t].sold = Cardinality(SoldSeats(t)')
    BY DEF ReservedMatchesHolds, SoldMatchesCommits
  <2>1. HeldSeats(t) \in SUBSET Seat /\ SoldSeats(t) \in SUBSET Seat
    BY DEF HeldSeats, SoldSeats
  <2>2. Cardinality(HeldSeats(t)') = Cardinality(HeldSeats(t)) - order[o].items[t]
    BY <1>9, <2>1, SeatsRemoved
  <2>3. Cardinality(SoldSeats(t)') = Cardinality(SoldSeats(t)) + order[o].items[t]
    BY <1>9, <2>1, SeatsAdded
  <2> QED
    BY <1>10, <2>2, <2>3 DEF ReservedMatchesHolds, SoldMatchesCommits
<1>12. SchemaChecks'
  <2> SUFFICES ASSUME NEW t \in Tiers
               PROVE  /\ tier'[t].total # NoCap
                          => tier'[t].reserved + tier'[t].sold <= tier'[t].total
                      /\ tier'[t].reserved >= 0
                      /\ tier'[t].sold >= 0
    BY DEF SchemaChecks
  <2>1. /\ tier[t].total # NoCap
            => tier[t].total \in Nat /\ tier[t].reserved + tier[t].sold <= tier[t].total
        /\ tier[t].reserved \in Nat /\ tier[t].sold \in Nat
    BY <1>6 DEF SchemaChecks, Tier
  <2>2. order[o].items[t] \in Nat /\ tier[t].reserved - order[o].items[t] \in Nat
    BY <1>6
  <2> QED
    BY <1>10, <2>1, <2>2
<1> QED
  BY <1>4, <1>5, <1>8, <1>11, <1>12

\* Seats come from the free ones, tier by tier, where there is room.
LEMMA CommitLapsedKeepsIInv ==
    ASSUME IInv, NEW o \in Orders, commitOrder(o), CommitLapsed(o)
    PROVE  IInv'
<1> USE DEF IInv
<1>1. ~isHoldingInventory(order[o]) /\ soldTo[o] = {} /\ order[o].payment
  BY UnreleasedHolds DEF CommitLapsed
<1>2. order' \in [Orders -> Order] /\ soldTo' \in [Orders -> SUBSET Tiers]
  BY DEF CommitLapsed, TypeOK, Order, OrderStatuses, InBasket, Recoverable
<1>3. /\ order'[o].items = order[o].items
      /\ order'[o].status = "paid"
      /\ order'[o].payment = order[o].payment
      /\ ~order'[o].released
      /\ Recoverable(o) # InBasket(order[o].items) => order'[o].refundRequired
      /\ soldTo'[o] = Recoverable(o)
      /\ \A p \in Orders \ {o} : order'[p] = order[p] /\ soldTo'[p] = soldTo[p]
  BY DEF CommitLapsed, TypeOK, Order
<1>4. RowShape'
  BY <1>1, <1>3 DEF RowShape, ReleaseStatuses
<1>5. PaidOwnsItsSeats'
  BY <1>3 DEF PaidOwnsItsSeats
<1>6. ASSUME NEW t \in Tiers
      PROVE  /\ tier[t] \in Tier
             /\ order[o].items[t] \in Quantity
             /\ order[o].items[t] \in Nat
             /\ tier[t].reserved \in Nat
             /\ tier[t].sold \in Nat
             /\ tier[t].sold + order[o].items[t] \in Nat
             /\ tier'[t] = IF t \in Recoverable(o)
                           THEN [tier[t] EXCEPT !.sold = tier[t].sold + order[o].items[t]]
                           ELSE tier[t]
  <2>1. order[o].items[t] \in Quantity /\ tier[t] \in Tier
    BY DEF TypeOK, Order, Basket
  <2>2. order[o].items[t] \in Nat /\ tier[t].reserved \in Nat /\ tier[t].sold \in Nat
    BY <2>1, OrderSeats DEF Tier
  <2> QED
    BY <2>1, <2>2 DEF CommitLapsed
<1>7. TypeOK'
  <2>1. ASSUME NEW t \in Tiers
        PROVE  tier'[t] \in Tier
    <3>1. /\ tier[t] \in Tier
          /\ tier[t].sold + order[o].items[t] \in Nat
          /\ \/ tier'[t] = [tier[t] EXCEPT !.sold = tier[t].sold + order[o].items[t]]
             \/ tier'[t] = tier[t]
      BY <1>6, Zenon
    <3>2. [tier[t] EXCEPT !.sold = tier[t].sold + order[o].items[t]] \in Tier
      BY <3>1, <1>6, CountersKeepTier, Zenon
    <3> QED
      BY <3>1, <3>2, Zenon
  <2>2. tier' \in [Tiers -> Tier]
    BY <2>1 DEF CommitLapsed
  <2> QED
    BY <1>2, <2>2 DEF TypeOK
<1>8. ASSUME NEW t \in Tiers
      PROVE  /\ HeldSeats(t)' = HeldSeats(t)
             /\ t \in Recoverable(o) => SoldSeats(t)' = SoldSeats(t) \cup SeatsOf(o, t)
             /\ t \notin Recoverable(o) => SoldSeats(t)' = SoldSeats(t)
             /\ SoldSeats(t) \cap SeatsOf(o, t) = {}
             /\ SeatsOf(o, t) \in SUBSET Seat
             /\ Cardinality(SeatsOf(o, t)) = order[o].items[t]
  <2>1. ~isHoldingInventory(order'[o])
    BY <1>3 DEF isHoldingInventory, HOLDING_STATUSES
  <2>2. SeatsOf(o, t) \in SUBSET Seat /\ Cardinality(SeatsOf(o, t)) = order[o].items[t]
    BY <1>6, OrderSeats DEF SeatsOf
  <2>3. HeldSeats(t)' = HeldSeats(t)
    BY <1>1, <1>3, <2>1 DEF HeldSeats, SeatsOf, Seat
  <2>4. SoldSeats(t) \cap SeatsOf(o, t) = {}
    BY <1>1 DEF SoldSeats, SeatsOf
  <2>5. t \in Recoverable(o) => SoldSeats(t)' = SoldSeats(t) \cup SeatsOf(o, t)
    BY <1>1, <1>3, <2>2 DEF SoldSeats, SeatsOf, Seat
  <2>6. t \notin Recoverable(o) => SoldSeats(t)' = SoldSeats(t)
    BY <1>1, <1>3 DEF SoldSeats, SeatsOf, Seat
  <2> QED
    BY <2>2, <2>3, <2>4, <2>5, <2>6
<1>9. ASSUME NEW t \in Tiers
      PROVE  /\ tier'[t].reserved = tier[t].reserved
             /\ tier'[t].total = tier[t].total
             /\ t \in Recoverable(o) => tier'[t].sold = tier[t].sold + order[o].items[t]
             /\ t \notin Recoverable(o) => tier'[t].sold = tier[t].sold
  BY <1>6 DEF Tier
<1>10. ReservedMatchesHolds' /\ SoldMatchesCommits'
  <2> SUFFICES ASSUME NEW t \in Tiers
               PROVE  /\ tier'[t].reserved = Cardinality(HeldSeats(t)')
                      /\ tier'[t].sold = Cardinality(SoldSeats(t)')
    BY DEF ReservedMatchesHolds, SoldMatchesCommits
  <2>1. SoldSeats(t) \in SUBSET Seat
    BY DEF SoldSeats
  <2>2. t \in Recoverable(o)
          => Cardinality(SoldSeats(t)') = Cardinality(SoldSeats(t)) + order[o].items[t]
    BY <1>8, <2>1, SeatsAdded
  <2> QED
    BY <1>8, <1>9, <2>2 DEF ReservedMatchesHolds, SoldMatchesCommits
<1>11. SchemaChecks'
  <2> SUFFICES ASSUME NEW t \in Tiers
               PROVE  /\ tier'[t].total # NoCap
                          => tier'[t].reserved + tier'[t].sold <= tier'[t].total
                      /\ tier'[t].reserved >= 0
                      /\ tier'[t].sold >= 0
    BY DEF SchemaChecks
  <2>1. /\ tier[t].total # NoCap
            => tier[t].total \in Nat /\ tier[t].reserved + tier[t].sold <= tier[t].total
        /\ tier[t].reserved \in Nat /\ tier[t].sold \in Nat
        /\ order[o].items[t] \in Nat
    BY <1>6 DEF SchemaChecks, Tier
  <2>2. CASE t \in Recoverable(o)
    <3>1. tier[t].total # NoCap
            => tier[t].total - tier[t].reserved - tier[t].sold >= order[o].items[t]
      BY <2>2 DEF Recoverable, hasRoomFor
    <3> QED
      BY <1>9, <2>1, <2>2, <3>1
  <2>3. CASE t \notin Recoverable(o)
    BY <1>9, <2>1, <2>3
  <2> QED
    BY <2>2, <2>3
<1> QED
  BY <1>4, <1>5, <1>7, <1>10, <1>11

\* The organiser's requests change no order, and a new cap is checked by the
\* database against the counters of that moment.
LEMMA TierChangeKeepsIInv ==
    ASSUME IInv, NEW t \in Tiers, ChangeTier(t)
    PROVE  IInv'
<1> USE DEF IInv, ChangeTier
<1>1. UNCHANGED <<order, soldTo>>
  BY DEF PatchTier, setTierSalesClosed, MoveWindow
<1>2. RowShape' /\ PaidOwnsItsSeats'
  BY <1>1 DEF RowShape, PaidOwnsItsSeats
<1>3. ASSUME NEW u \in Tiers
      PROVE  HeldSeats(u)' = HeldSeats(u) /\ SoldSeats(u)' = SoldSeats(u)
  BY <1>1 DEF HeldSeats, SoldSeats, SeatsOf
<1>4. /\ tier' \in [Tiers -> Tier]
      /\ \A u \in Tiers : /\ tier'[u].reserved = tier[u].reserved
                          /\ tier'[u].sold = tier[u].sold
                          /\ \/ tier'[u].total = tier[u].total
                             \/ tier'[u].total # NoCap
                                  => tier[u].reserved + tier[u].sold <= tier'[u].total
  <2>1. CASE \E total \in Totals, s \in TierStatuses : PatchTier(t, total, s)
    <3>1. PICK total \in Totals, s \in TierStatuses : PatchTier(t, total, s)
      BY <2>1
    <3>2. total \in (Nat \ {0}) \cup {NoCap}
      BY TotalsOK
    <3> QED
      BY <3>1, <3>2 DEF PatchTier, TypeOK, Tier
  <2>2. CASE \E closed \in BOOLEAN : setTierSalesClosed(t, closed)
    BY <2>2, TierStatusesOK DEF setTierSalesClosed, TypeOK, Tier
  <2>3. CASE MoveWindow(t)
    BY <2>3 DEF MoveWindow, TypeOK, Tier
  <2> QED
    BY <2>1, <2>2, <2>3
<1>5. TypeOK'
  BY <1>1, <1>4 DEF TypeOK
<1>6. ReservedMatchesHolds' /\ SoldMatchesCommits'
  BY <1>3, <1>4 DEF ReservedMatchesHolds, SoldMatchesCommits
<1>7. SchemaChecks'
  BY <1>4 DEF SchemaChecks
<1> QED
  BY <1>2, <1>5, <1>6, <1>7

-----------------------------------------------------------------------------
LEMMA InitIInv == Init => IInv
<1> SUFFICES ASSUME Init PROVE IInv
  OBVIOUS
<1>1. order = [o \in Orders |-> NoOrder] /\ soldTo = [o \in Orders |-> {}]
  BY DEF Init
<1>2. \A t \in Tiers : /\ tier[t] \in Tier
                      /\ tier[t].reserved = 0
                      /\ tier[t].sold = 0
  <2> SUFFICES ASSUME NEW t \in Tiers
               PROVE  tier[t] \in Tier /\ tier[t].reserved = 0 /\ tier[t].sold = 0
    OBVIOUS
  <2>1. PICK n \in Totals : tier[t] = [total |-> n, reserved |-> 0, sold |-> 0,
                                       status |-> "active", inWindow |-> TRUE]
    BY DEF Init
  <2>2. n \in (Nat \ {0}) \cup {NoCap} /\ "active" \in TierStatuses
    BY TotalsOK, TierStatusesOK
  <2> QED
    BY <2>1, <2>2 DEF Tier
<1>3. NoOrder \in Order
  BY OrderBounds DEF NoOrder, Order, OrderStatuses, Basket, Quantity
<1>4. TypeOK
  BY <1>1, <1>2, <1>3 DEF Init, TypeOK
<1>5. RowShape /\ PaidOwnsItsSeats
  BY <1>1 DEF RowShape, PaidOwnsItsSeats, NoOrder, ReleaseStatuses
<1>6. \A t \in Tiers : HeldSeats(t) = {} /\ SoldSeats(t) = {}
  BY <1>1 DEF HeldSeats, SoldSeats, Seat, NoOrder, isHoldingInventory, HOLDING_STATUSES
<1>7. ReservedMatchesHolds /\ SoldMatchesCommits
  BY <1>2, <1>6, FS_EmptySet DEF ReservedMatchesHolds, SoldMatchesCommits
<1>8. SchemaChecks
  BY <1>2 DEF SchemaChecks, Tier
<1> QED
  BY <1>4, <1>5, <1>7, <1>8 DEF IInv

LEMMA StepIInv == IInv /\ [Next]_vars => IInv'
<1> SUFFICES ASSUME IInv, [Next]_vars PROVE IInv'
  OBVIOUS
<1>1. CASE UNCHANGED vars
  BY <1>1 DEF vars, IInv, TypeOK, RowShape, ReservedMatchesHolds, SoldMatchesCommits, SchemaChecks,
     PaidOwnsItsSeats, HeldSeats, SoldSeats, SeatsOf
<1>2. ASSUME NEW o \in Orders, NEW basket \in Basket, Reserve(o, basket)
      PROVE  IInv'
  BY <1>2, ReserveKeepsIInv
<1>3. ASSUME NEW o \in Orders, StartPayment(o)
      PROVE  IInv'
  BY <1>3, StartPaymentKeepsIInv
<1>4. ASSUME NEW o \in Orders, NEW s \in ReleaseStatuses, releaseOrder(o, s)
      PROVE  IInv'
  BY <1>4, ReleaseKeepsIInv
<1>5. ASSUME NEW o \in Orders, commitOrder(o)
      PROVE  IInv'
  BY <1>5, CommitHeldKeepsIInv, CommitLapsedKeepsIInv DEF commitOrder
<1>6. ASSUME NEW t \in Tiers, ChangeTier(t)
      PROVE  IInv'
  BY <1>6, TierChangeKeepsIInv
<1> QED
  BY <1>1, <1>2, <1>3, <1>4, <1>5, <1>6 DEF Next

\* The inductive invariant: types, row shapes, counters that match the seats,
\* the CHECK constraints, and paid orders that own their seats.
THEOREM IInvInvariant == Spec => []IInv
BY InitIInv, StepIInv, PTL DEF Spec

\* The rows keep their types; in particular no counter goes below zero.
THEOREM TypeCorrect == Spec => []TypeOK
<1>1. IInv => TypeOK
  BY DEF IInv
<1> QED
  BY <1>1, IInvInvariant, PTL

\* No tier with a cap is ever oversold, and no checkout or settlement is ever
\* aborted by the CHECK constraints of ticket_tiers.
THEOREM NeverOversold == Spec => []SchemaChecks
<1>1. IInv => SchemaChecks
  BY DEF IInv
<1> QED
  BY <1>1, IInvInvariant, PTL

\* No seat leaks into or out of quantity_reserved: releases and commits may
\* race in any order.
THEOREM HoldsAreCounted == Spec => []ReservedMatchesHolds
<1>1. IInv => ReservedMatchesHolds
  BY DEF IInv
<1> QED
  BY <1>1, IInvInvariant, PTL

\* quantity_sold is exactly what commitOrder took, each order once.
THEOREM SalesAreCounted == Spec => []SoldMatchesCommits
<1>1. IInv => SoldMatchesCommits
  BY DEF IInv
<1> QED
  BY <1>1, IInvInvariant, PTL

\* A paid order not flagged for a refund owns every seat of its basket.
THEOREM PaidOrdersOwnTheirSeats == Spec => []PaidOwnsItsSeats
<1>1. IInv => PaidOwnsItsSeats
  BY DEF IInv
<1> QED
  BY <1>1, IInvInvariant, PTL

\* Nothing undoes a payment.  StartPayment, which tests no status, is harmless
\* because a paid order has a payments row already.
THEOREM PaymentIsFinal == Spec => PaidIsFinal
<1> DEFINE Keeps == \A o \in Orders : order[o].status = "paid" =>
                      /\ order'[o].status = "paid"
                      /\ order'[o].refundRequired = order[o].refundRequired
                      /\ soldTo'[o] = soldTo[o]
<1>1. IInv /\ [Next]_vars => [Keeps]_vars
  <2> SUFFICES ASSUME IInv, Next, NEW p \in Orders, order[p].status = "paid"
               PROVE  /\ order'[p].status = "paid"
                      /\ order'[p].refundRequired = order[p].refundRequired
                      /\ soldTo'[p] = soldTo[p]
    OBVIOUS
  <2> USE DEF IInv, TypeOK, RowShape
  <2>1. CASE \E o \in Orders, basket \in Basket : Reserve(o, basket)
    BY <2>1 DEF Reserve, Exists
  <2>2. CASE \E o \in Orders : StartPayment(o)
    BY <2>2 DEF StartPayment
  <2>3. CASE \E o \in Orders, s \in ReleaseStatuses : releaseOrder(o, s)
    BY <2>3 DEF releaseOrder, isHoldingInventory, HOLDING_STATUSES
  <2>4. CASE \E o \in Orders : commitOrder(o)
    BY <2>4 DEF commitOrder, CommitHeld, CommitLapsed
  <2>5. CASE UNCHANGED <<order, soldTo>>
    BY <2>5
  <2> QED
    BY <2>1, <2>2, <2>3, <2>4, <2>5 DEF Next, ChangeTier, PatchTier, setTierSalesClosed, MoveWindow
<1> QED
  BY <1>1, IInvInvariant, PTL DEF Spec, PaidIsFinal

-----------------------------------------------------------------------------
(* The counters implement the allocation of individual seats. *)

\* The cardinality SeatPromise speaks of is the one the lemmas above count with.
LEMMA SameCardinality == \A S : Promise!Cardinality(S) = Cardinality(S)
BY Zenon DEF Cardinality, Promise!Cardinality

\* Within a tier the held and the sold seats are different seats, and together
\* they are what the two counters add up to.
LEMMA CountersAreSeats == IInv => Promise!Sound
<1> SUFFICES ASSUME IInv, NEW t \in Tiers
             PROVE  /\ HeldSeats(t) \cap SoldSeats(t) = {}
                    /\ tier[t].total # NoCap
                         => Cardinality(HeldSeats(t) \cup SoldSeats(t)) <= tier[t].total
  BY SameCardinality DEF Promise!Sound, Promise!Fits
<1>1. HeldSeats(t) \cap SoldSeats(t) = {}
  BY DEF IInv, PaidOwnsItsSeats, HeldSeats, SoldSeats, Seat, isHoldingInventory, HOLDING_STATUSES
<1>2. HeldSeats(t) \in SUBSET Seat /\ SoldSeats(t) \in SUBSET Seat
  BY DEF HeldSeats, SoldSeats
<1>3. Cardinality(HeldSeats(t) \cup SoldSeats(t)) = tier[t].reserved + tier[t].sold
  BY <1>1, <1>2, SeatsAdded DEF IInv, ReservedMatchesHolds, SoldMatchesCommits
<1> QED
  BY <1>1, <1>3 DEF IInv, SchemaChecks

\* A step that changes one order's row and seats changes only seats of that order.
LEMMA OnlyOwnSeatsChange ==
    ASSUME NEW o \in Orders, NEW t \in Tiers,
           \A p \in Orders \ {o} : order'[p] = order[p] /\ soldTo'[p] = soldTo[p]
    PROVE  /\ HeldSeats(t)' \ Promise!SeatsOf(o) = HeldSeats(t) \ Promise!SeatsOf(o)
           /\ SoldSeats(t)' \ Promise!SeatsOf(o) = SoldSeats(t) \ Promise!SeatsOf(o)
BY DEF HeldSeats, SoldSeats, SeatsOf, Seat, Promise!SeatsOf

\* Every step of the counters is a step of the seats, or none.
LEMMA StepKeepsPromise == IInv /\ IInv' /\ [Next]_vars => [Promise!Next]_(Promise!vars)
<1> SUFFICES ASSUME IInv, IInv', [Next]_vars PROVE [Promise!Next]_(Promise!vars)
  OBVIOUS
<1>1. Promise!Sound'
  <2>1. (IInv => Promise!Sound)'
    BY CountersAreSeats, PTL
  <2> QED
    BY <2>1
<1> USE DEF IInv, TypeOK
<1>2. ASSUME NEW o \in Orders, NEW basket \in Basket, Reserve(o, basket)
      PROVE  Promise!Hold(o)
  <2>1. \A p \in Orders \ {o} : order'[p] = order[p] /\ soldTo'[p] = soldTo[p]
    BY <1>2 DEF Reserve
  <2>2. order[o] = NoOrder /\ soldTo[o] = {} /\ soldTo' = soldTo
    BY <1>2 DEF Reserve, Exists, RowShape, PaidOwnsItsSeats, NoOrder
  <2>3. \A t \in Tiers : tier'[t].total = tier[t].total
    BY <1>2 DEF Reserve, Tier
  <2>4. ASSUME NEW t \in Tiers
        PROVE  /\ (HeldSeats(t) \cup SoldSeats(t)) \cap Promise!SeatsOf(o) = {}
               /\ HeldSeats(t) \subseteq HeldSeats(t)'
               /\ HeldSeats(t)' \ HeldSeats(t) \subseteq Promise!SeatsOf(o)
               /\ SoldSeats(t)' = SoldSeats(t)
    <3>1. (HeldSeats(t) \cup SoldSeats(t)) \cap Promise!SeatsOf(o) = {}
      BY <2>2 DEF HeldSeats, SoldSeats, Promise!SeatsOf, NoOrder, isHoldingInventory, HOLDING_STATUSES
    <3>2. SoldSeats(t)' \cap Promise!SeatsOf(o) = {}
      BY <2>2 DEF SoldSeats, Promise!SeatsOf
    <3> HIDE DEF IInv, TypeOK
    <3>3. /\ HeldSeats(t)' \ Promise!SeatsOf(o) = HeldSeats(t) \ Promise!SeatsOf(o)
          /\ SoldSeats(t)' \ Promise!SeatsOf(o) = SoldSeats(t) \ Promise!SeatsOf(o)
      BY <2>1, OnlyOwnSeatsChange
    <3>4. HeldSeats(t) \cap Promise!SeatsOf(o) = {} /\ SoldSeats(t) \cap Promise!SeatsOf(o) = {}
      BY <3>1
    <3>5. HeldSeats(t) \subseteq HeldSeats(t)' /\ HeldSeats(t)' \ HeldSeats(t) \subseteq Promise!SeatsOf(o)
      BY <3>3, <3>4
    <3>6. SoldSeats(t)' = SoldSeats(t)
      BY <3>2, <3>3, <3>4
    <3> QED
      BY <3>1, <3>5, <3>6
  <2> QED
    BY <2>3, <2>4 DEF Promise!Hold, Promise!Gains
<1>3. ASSUME NEW o \in Orders, StartPayment(o)
      PROVE  UNCHANGED Promise!vars
  <2>1. \A p \in Orders \ {o} : order'[p] = order[p] /\ soldTo'[p] = soldTo[p]
    BY <1>3 DEF StartPayment
  <2>2. /\ order'[o].items = order[o].items
        /\ isHoldingInventory(order'[o]) = isHoldingInventory(order[o])
        /\ tier' = tier /\ soldTo' = soldTo
    BY <1>3 DEF StartPayment, Exists, isHoldingInventory, HOLDING_STATUSES, RowShape,
       ReleaseStatuses, Order, OrderStatuses
  <2>3. ASSUME NEW t \in Tiers
        PROVE  HeldSeats(t)' = HeldSeats(t) /\ SoldSeats(t)' = SoldSeats(t)
    BY <2>1, <2>2 DEF HeldSeats, SoldSeats, SeatsOf, Seat
  <2> QED
    BY <2>2, <2>3 DEF Promise!vars
<1>4. ASSUME NEW o \in Orders, NEW s \in ReleaseStatuses, releaseOrder(o, s)
      PROVE  Promise!Return(o)
  <2>1. \A p \in Orders \ {o} : order'[p] = order[p] /\ soldTo'[p] = soldTo[p]
    BY <1>4 DEF releaseOrder
  <2>2. order'[o].released /\ soldTo[o] = {} /\ soldTo' = soldTo
    BY <1>4 DEF releaseOrder, isHoldingInventory, HOLDING_STATUSES, PaidOwnsItsSeats, Order
  <2>3. \A t \in Tiers : tier'[t].total = tier[t].total
    BY <1>4 DEF releaseOrder, Tier
  <2>4. ASSUME NEW t \in Tiers
        PROVE  HeldSeats(t)' = HeldSeats(t) \ Promise!SeatsOf(o) /\ SoldSeats(t)' = SoldSeats(t)
    <3>1. HeldSeats(t)' \cap Promise!SeatsOf(o) = {}
      BY <2>2 DEF HeldSeats, Promise!SeatsOf, isHoldingInventory
    <3>2. SoldSeats(t)' \cap Promise!SeatsOf(o) = {} /\ SoldSeats(t) \cap Promise!SeatsOf(o) = {}
      BY <2>2 DEF SoldSeats, Promise!SeatsOf
    <3> HIDE DEF IInv, TypeOK
    <3>3. /\ HeldSeats(t)' \ Promise!SeatsOf(o) = HeldSeats(t) \ Promise!SeatsOf(o)
          /\ SoldSeats(t)' \ Promise!SeatsOf(o) = SoldSeats(t) \ Promise!SeatsOf(o)
      BY <2>1, OnlyOwnSeatsChange
    <3>4. HeldSeats(t)' = HeldSeats(t) \ Promise!SeatsOf(o)
      BY <3>1, <3>3
    <3>5. SoldSeats(t)' = SoldSeats(t)
      BY <3>2, <3>3
    <3> QED
      BY <3>4, <3>5
  <2> QED
    BY <2>3, <2>4 DEF Promise!Return
<1>5. ASSUME NEW o \in Orders, commitOrder(o), CommitHeld(o)
      PROVE  Promise!Sell(o)
  <2>1. \A p \in Orders \ {o} : order'[p] = order[p] /\ soldTo'[p] = soldTo[p]
    BY <1>5 DEF CommitHeld
  <2>2. isHoldingInventory(order[o]) /\ soldTo[o] = {}
    BY <1>5, UnreleasedHolds DEF CommitHeld
  <2>3. /\ order'[o].items = order[o].items
        /\ order'[o].status = "paid"
        /\ soldTo'[o] = InBasket(order[o].items)
    BY <1>5 DEF CommitHeld, Order
  <2>4. \A t \in Tiers : tier'[t].total = tier[t].total
    <3> SUFFICES ASSUME NEW t \in Tiers PROVE tier'[t].total = tier[t].total
      OBVIOUS
    <3>1. tier'[t] = [tier[t] EXCEPT !.reserved = GiveBack(tier[t].reserved, order[o].items[t]),
                                    !.sold = tier[t].sold + order[o].items[t]]
      BY <1>5, Zenon DEF CommitHeld
    <3> QED
      BY <3>1 DEF Tier
  <2>5. ASSUME NEW t \in Tiers
        PROVE  /\ SoldSeats(t)' = SoldSeats(t) \cup (HeldSeats(t) \cap Promise!SeatsOf(o))
               /\ HeldSeats(t)' = HeldSeats(t) \ Promise!SeatsOf(o)
    <3>1. HeldSeats(t)' \cap Promise!SeatsOf(o) = {}
      BY <2>3 DEF HeldSeats, Promise!SeatsOf, isHoldingInventory, HOLDING_STATUSES
    <3>2. SoldSeats(t) \cap Promise!SeatsOf(o) = {}
      BY <2>2 DEF SoldSeats, Promise!SeatsOf
    <3>3. SoldSeats(t)' \cap Promise!SeatsOf(o) = SeatsOf(o, t)
      <4>1. order[o].items[t] \in Quantity
        BY DEF Order, Basket
      <4>2. SeatsOf(o, t) \in SUBSET Seat
        BY <4>1, OrderSeats DEF SeatsOf
      <4>3. t \notin InBasket(order[o].items) => SeatsOf(o, t) = {}
        BY <4>1, OrderBounds DEF InBasket, SeatsOf, Quantity
      <4> QED
        BY <2>3, <4>2, <4>3 DEF SoldSeats, SeatsOf, Seat, Promise!SeatsOf
    <3>4. HeldSeats(t) \cap Promise!SeatsOf(o) = SeatsOf(o, t)
      <4>1. SeatsOf(o, t) \subseteq HeldSeats(t)
        BY <2>2, HoldIsCounted
      <4> QED
        BY <4>1 DEF HeldSeats, SeatsOf, Seat, Promise!SeatsOf
    <3> HIDE DEF IInv, TypeOK
    <3>5. /\ HeldSeats(t)' \ Promise!SeatsOf(o) = HeldSeats(t) \ Promise!SeatsOf(o)
          /\ SoldSeats(t)' \ Promise!SeatsOf(o) = SoldSeats(t) \ Promise!SeatsOf(o)
      BY <2>1, OnlyOwnSeatsChange
    <3>6. HeldSeats(t)' = HeldSeats(t) \ Promise!SeatsOf(o)
      BY <3>1, <3>5
    <3>7. SoldSeats(t)' = SoldSeats(t) \cup (SoldSeats(t)' \cap Promise!SeatsOf(o))
      BY <3>2, <3>5
    <3> QED
      BY <3>3, <3>4, <3>6, <3>7
  <2> QED
    BY <2>4, <2>5 DEF Promise!Sell
<1>6. ASSUME NEW o \in Orders, commitOrder(o), CommitLapsed(o)
      PROVE  Promise!SellFree(o)
  <2>1. \A p \in Orders \ {o} : order'[p] = order[p] /\ soldTo'[p] = soldTo[p]
    BY <1>6 DEF CommitLapsed
  <2>2. ~isHoldingInventory(order[o]) /\ soldTo[o] = {}
    BY <1>6, UnreleasedHolds DEF CommitLapsed
  <2>3. order'[o].status = "paid"
    BY <1>6 DEF CommitLapsed, Order
  <2>4. \A t \in Tiers : tier'[t].total = tier[t].total
    BY <1>6 DEF CommitLapsed, Tier
  <2>5. ASSUME NEW t \in Tiers
        PROVE  /\ HeldSeats(t) \cap Promise!SeatsOf(o) = {}
               /\ HeldSeats(t)' = HeldSeats(t)
               /\ SoldSeats(t) \subseteq SoldSeats(t)'
               /\ SoldSeats(t)' \ SoldSeats(t) \subseteq Promise!SeatsOf(o)
    <3>1. HeldSeats(t) \cap Promise!SeatsOf(o) = {}
      BY <2>2 DEF HeldSeats, Promise!SeatsOf
    <3>2. HeldSeats(t)' \cap Promise!SeatsOf(o) = {}
      BY <2>3 DEF HeldSeats, Promise!SeatsOf, isHoldingInventory, HOLDING_STATUSES
    <3>3. SoldSeats(t) \cap Promise!SeatsOf(o) = {}
      BY <2>2 DEF SoldSeats, Promise!SeatsOf
    <3> HIDE DEF IInv, TypeOK
    <3>4. /\ HeldSeats(t)' \ Promise!SeatsOf(o) = HeldSeats(t) \ Promise!SeatsOf(o)
          /\ SoldSeats(t)' \ Promise!SeatsOf(o) = SoldSeats(t) \ Promise!SeatsOf(o)
      BY <2>1, OnlyOwnSeatsChange
    <3>5. HeldSeats(t)' = HeldSeats(t)
      BY <3>1, <3>2, <3>4
    <3>6. SoldSeats(t) \subseteq SoldSeats(t)' /\ SoldSeats(t)' \ SoldSeats(t) \subseteq Promise!SeatsOf(o)
      BY <3>3, <3>4
    <3> QED
      BY <3>1, <3>5, <3>6
  <2> QED
    BY <2>4, <2>5 DEF Promise!SellFree, Promise!Gains
<1>7. ASSUME UNCHANGED <<order, soldTo>>
      PROVE  Promise!ChangeCap \/ UNCHANGED Promise!vars
  <2>1. \A t \in Tiers : HeldSeats(t)' = HeldSeats(t) /\ SoldSeats(t)' = SoldSeats(t)
    BY <1>7 DEF HeldSeats, SoldSeats, SeatsOf
  <2> QED
    BY <2>1 DEF Promise!ChangeCap, Promise!vars
<1> QED
  BY <1>1, <1>2, <1>3, <1>4, <1>5, <1>6, <1>7
  DEF Next, vars, commitOrder, ChangeTier, PatchTier, setTierSalesClosed, MoveWindow, Promise!Next

\* The three counters, updated by single statements in any order, implement
\* the allocation of individual seats.
THEOREM CountersKeepPromise == Spec => KeepsPromise
<1>1. Init => Promise!Init
  <2>1. Init => IInv
    BY InitIInv
  <2>2. Init => \A t \in Tiers : HeldSeats(t) = {} /\ SoldSeats(t) = {}
    BY DEF Init, HeldSeats, SoldSeats, Seat, NoOrder, isHoldingInventory, HOLDING_STATUSES
  <2> QED
    BY <2>1, <2>2, CountersAreSeats DEF Promise!Init
<1> QED
  BY <1>1, IInvInvariant, StepKeepsPromise, PTL DEF Spec, KeepsPromise, Promise!Spec

=============================================================================
