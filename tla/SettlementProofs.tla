-------------------------- MODULE SettlementProofs --------------------------
(***************************************************************************)
(* For any orders, tiers, numbers of attempts and faults: settlement keeps *)
(* to Inventory, nobody has a paid order without having been charged, and  *)
(* tickets are for seats that the order owns.                              *)
(*                                                                         *)
(* Handlers act on what they learned before.  The argument is that what    *)
(* they learned stays true: M-Pesa decides once (PromptedOnce), so who is  *)
(* about to settle a confirmed success, or to commit, goes on with money   *)
(* that was taken (SeenCharged); and a paid order keeps its seats and its  *)
(* flag, because it holds nothing to release and has its payments row      *)
(* (PaidIsSettled).                                                        *)
(***************************************************************************)
EXTENDS Settlement, TLAPS

PromptedOnce == \A o \in Orders : checkout[o] \in {"idle", "charging"} => gw[o] = "none"

SeenCharged ==
    \A o \in Orders :
        /\ handler[o]["success"] = "settling" => TookMoney(o)
        /\ \A s \in Sources : handler[o][s] = "committing" => TookMoney(o)

PaidIsSettled ==
    \A o \in Orders : order[o].status = "paid" =>
        /\ order[o].payment
        /\ ~order[o].refundRequired => soldTo[o] = Seats!InBasket(order[o].items)

PaidIsCharged == \A o \in Orders : order[o].status = "paid" => TookMoney(o)

\* TypeOK but for the seats.
Shape ==
    /\ checkout \in [Orders -> CheckoutStates]
    /\ gw \in [Orders -> {"none", "prompted"} \cup Outcomes]
    /\ payment \in [Orders -> PaymentStatuses]
    /\ handler \in [Orders -> [Sources -> HandlerStates]]
    /\ attempt \in [Orders -> 0..(MAX_ATTEMPTS + 1)]
    /\ after \in [Orders -> [job : {"none", "queued", "done"}, tickets : BOOLEAN,
                             mails : SUBSET {"order-failed", "tickets-issued"}]]
    /\ lapsed \in SUBSET Orders
    /\ faults \in 0..MaxFaults

IInv ==
    /\ Seats!TypeOK
    /\ Shape
    /\ PromptedOnce
    /\ SeenCharged
    /\ PaidIsSettled
    /\ PaidIsCharged
    /\ TicketsHaveSeats

\* Nobody takes or gives back a seat.
SeatsSame == UNCHANGED seatVars

\* What is paid stays as it is.
PaidStays ==
    \A o \in Orders : order[o].status = "paid" =>
        /\ order'[o].status = "paid"
        /\ order'[o].items = order[o].items
        /\ order'[o].refundRequired = order[o].refundRequired
        /\ soldTo'[o] = soldTo[o]

\* Only orders of S become paid.
NewlyPaid(S) == \A o \in Orders \ S : order'[o].status = "paid" => order[o].status = "paid"

\* M-Pesa does not take back its decision.
MoneyStays == \A o \in Orders : TookMoney(o) => TookMoney(o)'

NoMoreTickets == \A o \in Orders : after'[o].tickets => after[o].tickets

-----------------------------------------------------------------------------
(* What happens to the seats. *)

LEMMA SeatsInit == Init => Seats!TypeOK
<1> SUFFICES ASSUME Init PROVE Seats!TypeOK
  OBVIOUS
<1>1. tier \in [Tiers -> Seats!Tier]
  <2>1. \A n \in Totals : [total |-> n, reserved |-> 0, sold |-> 0, status |-> "active",
                           inWindow |-> TRUE] \in Seats!Tier
    BY SeatsOK DEF Seats!Tier
  <2> QED
    BY <2>1 DEF Init, Seats!Init
<1>2. order \in [Orders -> Seats!Order]
  <2>1. Seats!NoOrder \in Seats!Order
    BY SeatsOK DEF Seats!NoOrder, Seats!Order, Seats!OrderStatuses, Seats!Basket, Seats!Quantity
  <2> QED
    BY <2>1 DEF Init, Seats!Init
<1> QED
  BY <1>1, <1>2 DEF Init, Seats!Init, Seats!TypeOK

\* A tier stays one when its counters change.
LEMMA CountersKeepTier ==
    ASSUME NEW row \in Seats!Tier, NEW reserved \in Nat, NEW sold \in Nat
    PROVE  /\ [row EXCEPT !.reserved = reserved] \in Seats!Tier
           /\ [row EXCEPT !.sold = sold] \in Seats!Tier
           /\ [row EXCEPT !.reserved = reserved, !.sold = sold] \in Seats!Tier
BY DEF Seats!Tier

\* Everything but a commit leaves no order paid that was not.
LEMMA ReserveKeepsSeats ==
    ASSUME Seats!TypeOK, PaidIsSettled, NEW o \in Orders, NEW basket \in Seats!Basket,
           Seats!Reserve(o, basket)
    PROVE  Seats!TypeOK' /\ PaidIsSettled' /\ PaidStays /\ NewlyPaid({})
<1>1. tier' \in [Tiers -> Seats!Tier]
  <2>1. \A t \in Tiers : tier[t] \in Seats!Tier /\ basket[t] \in Nat
    BY SeatsOK DEF Seats!TypeOK, Seats!Basket, Seats!Quantity
  <2>2. \A t \in Tiers : [tier[t] EXCEPT !.reserved = @ + basket[t]] \in Seats!Tier
    <3> SUFFICES ASSUME NEW t \in Tiers
                 PROVE  [tier[t] EXCEPT !.reserved = @ + basket[t]] \in Seats!Tier
      OBVIOUS
    <3>1. tier[t].reserved + basket[t] \in Nat
      BY <2>1 DEF Seats!Tier
    <3> QED
      BY <2>1, <3>1, CountersKeepTier DEF Seats!Tier
  <2> QED
    BY <2>2 DEF Seats!Reserve
<1>2. [Seats!NoOrder EXCEPT !.status = "pending", !.items = basket] \in Seats!Order
  BY DEF Seats!NoOrder, Seats!Order, Seats!OrderStatuses, Seats!HOLDING_STATUSES
<1>3. order' \in [Orders -> Seats!Order] /\ soldTo' = soldTo
  BY <1>2 DEF Seats!Reserve, Seats!TypeOK
<1>4. /\ order[o].status = "none" /\ order'[o].status = "pending"
      /\ \A p \in Orders \ {o} : order'[p] = order[p]
  BY DEF Seats!Reserve, Seats!Exists, Seats!TypeOK, Seats!NoOrder
<1> QED
  BY <1>1, <1>3, <1>4 DEF Seats!TypeOK, PaidIsSettled, PaidStays, NewlyPaid, Seats!InBasket

LEMMA StartPaymentKeepsSeats ==
    ASSUME Seats!TypeOK, PaidIsSettled, NEW o \in Orders, Seats!StartPayment(o)
    PROVE  Seats!TypeOK' /\ PaidIsSettled' /\ PaidStays /\ NewlyPaid({})
<1>1. [order[o] EXCEPT !.payment = TRUE, !.status = "awaiting_payment"] \in Seats!Order
  BY DEF Seats!TypeOK, Seats!Order, Seats!OrderStatuses, Seats!HOLDING_STATUSES
<1>2. order' \in [Orders -> Seats!Order] /\ tier' = tier /\ soldTo' = soldTo
  BY <1>1 DEF Seats!StartPayment, Seats!TypeOK
<1>3. /\ order[o].status # "paid" /\ order'[o].status = "awaiting_payment"
      /\ \A p \in Orders \ {o} : order'[p] = order[p]
  BY DEF Seats!StartPayment, Seats!TypeOK, Seats!Order, PaidIsSettled
<1> QED
  BY <1>2, <1>3 DEF Seats!TypeOK, PaidIsSettled, PaidStays, NewlyPaid, Seats!InBasket

LEMMA GivenBack ==
    ASSUME NEW m \in Nat, NEW n \in Nat
    PROVE  Seats!GiveBack(m, n) \in Nat
BY DEF Seats!GiveBack

LEMMA BasketOfOrder ==
    ASSUME Seats!TypeOK, NEW o \in Orders, NEW t \in Tiers
    PROVE  order[o].items[t] \in Nat /\ tier[t] \in Seats!Tier
BY SeatsOK DEF Seats!TypeOK, Seats!Order, Seats!Basket, Seats!Quantity

LEMMA ReleaseKeepsSeats ==
    ASSUME Seats!TypeOK, PaidIsSettled, NEW o \in Orders, NEW s \in Seats!ReleaseStatuses,
           Seats!releaseOrder(o, s)
    PROVE  Seats!TypeOK' /\ PaidIsSettled' /\ PaidStays /\ NewlyPaid({})
<1>1. tier' \in [Tiers -> Seats!Tier]
  <2>1. \A t \in Tiers :
          [tier[t] EXCEPT !.reserved = Seats!GiveBack(@, order[o].items[t])] \in Seats!Tier
    BY BasketOfOrder, GivenBack DEF Seats!Tier
  <2> QED
    BY <2>1 DEF Seats!releaseOrder
<1>2. [order[o] EXCEPT !.status = s, !.released = TRUE] \in Seats!Order
  BY DEF Seats!TypeOK, Seats!Order, Seats!OrderStatuses
<1>3. order' \in [Orders -> Seats!Order] /\ soldTo' = soldTo
  BY <1>2 DEF Seats!releaseOrder, Seats!TypeOK
<1>4. /\ order[o].status # "paid" /\ order'[o].status # "paid"
      /\ \A p \in Orders \ {o} : order'[p] = order[p]
  BY DEF Seats!releaseOrder, Seats!isHoldingInventory, Seats!HOLDING_STATUSES,
         Seats!ReleaseStatuses, Seats!TypeOK, Seats!Order
<1> QED
  BY <1>1, <1>3, <1>4 DEF Seats!TypeOK, PaidIsSettled, PaidStays, NewlyPaid, Seats!InBasket

\* A commit pays its own order, and that order was not paid before.
LEMMA CommitKeepsSeats ==
    ASSUME Seats!TypeOK, PaidIsSettled, NEW o \in Orders, Seats!commitOrder(o)
    PROVE  Seats!TypeOK' /\ PaidIsSettled' /\ PaidStays /\ NewlyPaid({o})
<1>1. order[o].status # "paid" /\ order[o].payment
  BY DEF Seats!commitOrder
<1>2. CASE Seats!CommitHeld(o)
  <2>1. tier' \in [Tiers -> Seats!Tier]
    <3>1. \A t \in Tiers :
            [tier[t] EXCEPT !.reserved = Seats!GiveBack(@, order[o].items[t]),
                            !.sold = @ + order[o].items[t]] \in Seats!Tier
      <4> SUFFICES ASSUME NEW t \in Tiers
                   PROVE  [tier[t] EXCEPT
                             !.reserved = Seats!GiveBack(@, order[o].items[t]),
                             !.sold = @ + order[o].items[t]] \in Seats!Tier
        OBVIOUS
      <4>1. tier[t].reserved \in Nat /\ tier[t].sold \in Nat /\ order[o].items[t] \in Nat
        BY BasketOfOrder DEF Seats!Tier
      <4>2. Seats!GiveBack(tier[t].reserved, order[o].items[t]) \in Nat
        BY <4>1, GivenBack
      <4>3. tier[t].sold + order[o].items[t] \in Nat
        BY <4>1
      <4> QED
        BY <4>2, <4>3, BasketOfOrder, CountersKeepTier
    <3> QED
      BY <1>2, <3>1 DEF Seats!CommitHeld
  <2>2. [order[o] EXCEPT !.status = "paid"] \in Seats!Order
    BY DEF Seats!TypeOK, Seats!Order, Seats!OrderStatuses
  <2>3. /\ order' \in [Orders -> Seats!Order]
        /\ order'[o].payment /\ order'[o].items = order[o].items
        /\ \A p \in Orders \ {o} : order'[p] = order[p]
    BY <1>1, <1>2, <2>2 DEF Seats!CommitHeld, Seats!TypeOK, Seats!Order
  <2>4. /\ soldTo' \in [Orders -> SUBSET Tiers]
        /\ soldTo'[o] = Seats!InBasket(order[o].items)
        /\ \A p \in Orders \ {o} : soldTo'[p] = soldTo[p]
    BY <1>2 DEF Seats!CommitHeld, Seats!TypeOK, Seats!InBasket
  <2> QED
    BY <1>1, <2>1, <2>3, <2>4
       DEF Seats!TypeOK, PaidIsSettled, PaidStays, NewlyPaid, Seats!InBasket
<1>3. CASE Seats!CommitLapsed(o)
  <2>1. tier' \in [Tiers -> Seats!Tier]
    <3>1. \A t \in Tiers : [tier[t] EXCEPT !.sold = @ + order[o].items[t]] \in Seats!Tier
      BY BasketOfOrder DEF Seats!Tier
    <3> QED
      BY <1>3, <3>1, BasketOfOrder DEF Seats!CommitLapsed
  <2> DEFINE flag == order[o].refundRequired
                       \/ Seats!Recoverable(o) # Seats!InBasket(order[o].items)
             row == [order[o] EXCEPT !.status = "paid", !.released = FALSE,
                                     !.refundRequired = flag]
  <2>2. row \in Seats!Order
    BY DEF Seats!TypeOK, Seats!Order, Seats!OrderStatuses
  <2>3. order' = [order EXCEPT ![o] = row]
    BY <1>3 DEF Seats!CommitLapsed, Seats!TypeOK
  <2>4. /\ order' \in [Orders -> Seats!Order]
        /\ order'[o].payment /\ order'[o].items = order[o].items
        /\ order'[o].refundRequired = flag
        /\ \A p \in Orders \ {o} : order'[p] = order[p]
    BY <1>1, <2>2, <2>3 DEF Seats!TypeOK, Seats!Order
  <2>5. /\ soldTo' \in [Orders -> SUBSET Tiers]
        /\ soldTo'[o] = Seats!Recoverable(o)
        /\ \A p \in Orders \ {o} : soldTo'[p] = soldTo[p]
    BY <1>3 DEF Seats!CommitLapsed, Seats!TypeOK, Seats!Recoverable, Seats!InBasket
  <2>6. PaidIsSettled'
    <3>1. ~flag => Seats!Recoverable(o) = Seats!InBasket(order[o].items)
      OBVIOUS
    <3>2. ~order'[o].refundRequired => soldTo'[o] = Seats!InBasket(order'[o].items)
      BY <2>4, <2>5, <3>1
    <3> HIDE DEF flag
    <3> QED
      BY <2>4, <2>5, <3>2 DEF PaidIsSettled, Seats!InBasket
  <2> QED
    BY <1>1, <2>1, <2>4, <2>5, <2>6 DEF Seats!TypeOK, PaidStays, NewlyPaid
<1> QED
  BY <1>2, <1>3 DEF Seats!commitOrder

LEMMA TierChangeKeepsSeats ==
    ASSUME Seats!TypeOK, PaidIsSettled, NEW t \in Tiers, Seats!ChangeTier(t)
    PROVE  Seats!TypeOK' /\ PaidIsSettled' /\ PaidStays /\ NewlyPaid({})
<1>1. tier' \in [Tiers -> Seats!Tier] /\ UNCHANGED <<order, soldTo>>
  <2>1. ASSUME NEW total \in Totals, NEW s \in TierStatuses, Seats!PatchTier(t, total, s)
        PROVE  tier' \in [Tiers -> Seats!Tier] /\ UNCHANGED <<order, soldTo>>
    BY <2>1, SeatsOK DEF Seats!PatchTier, Seats!TypeOK, Seats!Tier
  <2>2. ASSUME NEW closed \in BOOLEAN, Seats!setTierSalesClosed(t, closed)
        PROVE  tier' \in [Tiers -> Seats!Tier] /\ UNCHANGED <<order, soldTo>>
    BY <2>2, SeatsOK DEF Seats!setTierSalesClosed, Seats!TypeOK, Seats!Tier
  <2>3. CASE Seats!MoveWindow(t)
    BY <2>3 DEF Seats!MoveWindow, Seats!TypeOK, Seats!Tier
  <2> QED
    BY <2>1, <2>2, <2>3 DEF Seats!ChangeTier
<1> QED
  BY <1>1 DEF Seats!TypeOK, PaidIsSettled, PaidStays, NewlyPaid, Seats!InBasket

LEMMA SameKeepsSeats ==
    ASSUME Seats!TypeOK, PaidIsSettled, SeatsSame
    PROVE  Seats!TypeOK' /\ PaidIsSettled' /\ PaidStays /\ NewlyPaid({})
BY DEF SeatsSame, seatVars, Seats!TypeOK, PaidIsSettled, PaidStays, NewlyPaid, Seats!InBasket

-----------------------------------------------------------------------------
(* What handlers know, and what follows from who is paid. *)

LEMMA OutcomeOfPayment ==
    ASSUME IInv, PaidStays, NEW S, NewlyPaid(S), \A o \in Orders : o \in S => TookMoney(o),
           MoneyStays, NoMoreTickets
    PROVE  PaidIsCharged' /\ TicketsHaveSeats'
<1>1. PaidIsCharged'
  BY DEF IInv, PaidIsCharged, NewlyPaid, MoneyStays
<1>2. TicketsHaveSeats'
  BY DEF IInv, TicketsHaveSeats, PaidStays, NoMoreTickets, Seats!InBasket
<1> QED
  BY <1>1, <1>2

LEMMA HandlerMoves ==
    ASSUME Shape, SeenCharged, MoneyStays, NEW o \in Orders, NEW s \in Sources,
           NEW pc \in HandlerStates, Goto(o, s, pc),
           pc = "committing" => TookMoney(o),
           pc = "settling" /\ s = "success" => TookMoney(o)
    PROVE  handler' \in [Orders -> [Sources -> HandlerStates]] /\ SeenCharged'
<1>1. handler' \in [Orders -> [Sources -> HandlerStates]]
  BY DEF Shape, Goto
<1>2. \A p \in Orders, r \in Sources :
        handler'[p][r] = IF p = o /\ r = s THEN pc ELSE handler[p][r]
  BY DEF Shape, Goto
<1>3. "success" \in Sources
  BY DEF Sources, Callbacks
<1> QED
  BY <1>1, <1>2, <1>3 DEF SeenCharged, MoneyStays

\* A fault is counted.
LEMMA FaultCounted ==
    ASSUME Shape, Fault \/ UNCHANGED faults
    PROVE  faults' \in 0..MaxFaults
BY BoundsOK DEF Shape, Fault

\* What may be known of an unchanged gateway, and of handlers that stand still.
LEMMA GatewaySame ==
    ASSUME IInv, UNCHANGED gw
    PROVE  /\ MoneyStays
           /\ UNCHANGED handler => SeenCharged'
           /\ UNCHANGED checkout => PromptedOnce'
BY DEF IInv, MoneyStays, TookMoney, SeenCharged, PromptedOnce

-----------------------------------------------------------------------------
(* createCheckout and the end of a hold. *)

LEMMA CheckoutMoves ==
    ASSUME IInv, UNCHANGED gw, NEW o \in Orders, NEW pc \in CheckoutStates,
           checkout' = [checkout EXCEPT ![o] = pc],
           pc \in {"idle", "charging"} => checkout[o] \in {"idle", "charging"}
    PROVE  checkout' \in [Orders -> CheckoutStates] /\ PromptedOnce'
BY DEF IInv, Shape, PromptedOnce

LEMMA ReserveKeepsIInv ==
    ASSUME IInv, NEW o \in Orders, NEW basket \in Seats!Basket, Reserve(o, basket)
    PROVE  IInv'
<1>1. UNCHANGED <<gw, payment, attempt, handler, after, lapsed>>
  BY DEF Reserve, CheckoutVars
<1>2. Seats!TypeOK' /\ PaidIsSettled' /\ PaidStays /\ NewlyPaid({})
  BY ReserveKeepsSeats DEF Reserve, IInv
<1>3. checkout' \in [Orders -> CheckoutStates] /\ PromptedOnce'
  <2>1. PICK pc \in {"charging", "releasing"} : checkout' = [checkout EXCEPT ![o] = pc]
    BY DEF Reserve, scheduleOrderExpiry
  <2> QED
    BY <1>1, <2>1, CheckoutMoves DEF Reserve, CheckoutStates
<1>4. faults' \in 0..MaxFaults
  BY FaultCounted DEF Reserve, scheduleOrderExpiry, IInv
<1>5. MoneyStays /\ SeenCharged'
  BY <1>1, GatewaySame
<1>6. PaidIsCharged' /\ TicketsHaveSeats'
  BY <1>1, <1>2, <1>5, OutcomeOfPayment DEF NoMoreTickets
<1> QED
  BY <1>1, <1>2, <1>3, <1>4, <1>5, <1>6 DEF IInv, Shape

LEMMA ChargeKeepsIInv ==
    ASSUME IInv, NEW o \in Orders, Charge(o)
    PROVE  IInv'
<1>1. SeatsSame /\ UNCHANGED <<payment, attempt, handler, after, lapsed>>
  BY DEF Charge, CheckoutVars, SeatsSame
<1>2. PICK push \in stkPush :
        /\ gw' = IF push.prompts THEN [gw EXCEPT ![o] = "prompted"] ELSE gw
        /\ checkout' = [checkout EXCEPT ![o] = IF push.replies THEN "recording" ELSE "releasing"]
        /\ IF push.prompts /\ ~push.replies THEN Fault ELSE UNCHANGED faults
  BY DEF Charge
<1>3. gw[o] = "none"
  BY DEF IInv, PromptedOnce, Charge
<1>4. /\ gw' \in [Orders -> {"none", "prompted"} \cup Outcomes]
      /\ \A p \in Orders \ {o} : gw'[p] = gw[p]
  BY <1>2 DEF IInv, Shape
<1>5. MoneyStays /\ SeenCharged'
  <2>1. MoneyStays
    BY <1>3, <1>4 DEF MoneyStays, TookMoney
  <2> QED
    BY <1>1, <2>1 DEF MoneyStays, SeenCharged, IInv
<1>6. PICK pc \in {"recording", "releasing"} : checkout' = [checkout EXCEPT ![o] = pc]
  BY <1>2
<1>7. checkout' \in [Orders -> CheckoutStates] /\ PromptedOnce'
  BY <1>4, <1>6 DEF IInv, Shape, PromptedOnce, CheckoutStates
<1>8. faults' \in 0..MaxFaults
  BY <1>2, FaultCounted DEF IInv
<1>9. Seats!TypeOK' /\ PaidIsSettled' /\ PaidStays /\ NewlyPaid({})
  BY <1>1, SameKeepsSeats DEF IInv
<1>10. PaidIsCharged' /\ TicketsHaveSeats'
  BY <1>1, <1>5, <1>9, OutcomeOfPayment DEF NoMoreTickets
<1> QED
  BY <1>1, <1>4, <1>5, <1>7, <1>8, <1>9, <1>10 DEF IInv, Shape

LEMMA RecordPaymentKeepsIInv ==
    ASSUME IInv, NEW o \in Orders, RecordPayment(o)
    PROVE  IInv'
<1>1. UNCHANGED <<gw, attempt, handler, after, lapsed>>
  BY DEF RecordPayment, CheckoutVars
<1>2. Seats!TypeOK' /\ PaidIsSettled' /\ PaidStays /\ NewlyPaid({})
  <2>1. Seats!StartPayment(o) \/ SeatsSame
    BY DEF RecordPayment, SeatsSame
  <2> QED
    BY <2>1, StartPaymentKeepsSeats, SameKeepsSeats DEF IInv
<1>3. checkout' \in [Orders -> CheckoutStates] /\ PromptedOnce'
  <2>1. PICK pc \in {"scheduling", "releasing"} : checkout' = [checkout EXCEPT ![o] = pc]
    BY DEF RecordPayment
  <2> QED
    BY <1>1, <2>1, CheckoutMoves DEF CheckoutStates
<1>4. payment' \in [Orders -> PaymentStatuses] /\ faults' \in 0..MaxFaults
  BY FaultCounted DEF RecordPayment, IInv, Shape, PaymentStatuses
<1>5. MoneyStays /\ SeenCharged'
  BY <1>1, GatewaySame
<1>6. PaidIsCharged' /\ TicketsHaveSeats'
  BY <1>1, <1>2, <1>5, OutcomeOfPayment DEF NoMoreTickets
<1> QED
  BY <1>1, <1>2, <1>3, <1>4, <1>5, <1>6 DEF IInv, Shape

LEMMA scheduleReconcileKeepsIInv ==
    ASSUME IInv, NEW o \in Orders, scheduleReconcile(o)
    PROVE  IInv'
<1>1. SeatsSame /\ UNCHANGED <<gw, payment, handler, after, lapsed>>
  BY DEF scheduleReconcile, CheckoutVars, SeatsSame
<1>2. Seats!TypeOK' /\ PaidIsSettled' /\ PaidStays /\ NewlyPaid({})
  BY <1>1, SameKeepsSeats DEF IInv
<1>3. checkout' \in [Orders -> CheckoutStates] /\ PromptedOnce'
  <2>1. PICK pc \in {"done", "releasing"} : checkout' = [checkout EXCEPT ![o] = pc]
    BY DEF scheduleReconcile
  <2> QED
    BY <1>1, <2>1, CheckoutMoves DEF CheckoutStates
<1>4. attempt' \in [Orders -> 0..(MAX_ATTEMPTS + 1)]
  BY BoundsOK DEF scheduleReconcile, IInv, Shape
<1>5. faults' \in 0..MaxFaults
  BY FaultCounted DEF scheduleReconcile, IInv
<1>6. MoneyStays /\ SeenCharged'
  BY <1>1, GatewaySame
<1>7. PaidIsCharged' /\ TicketsHaveSeats'
  BY <1>1, <1>2, <1>6, OutcomeOfPayment DEF NoMoreTickets
<1> QED
  BY <1>1, <1>2, <1>3, <1>4, <1>5, <1>6, <1>7 DEF IInv, Shape

\* Release is releaseOrder, or nothing.
LEMMA ReleaseIsSeats ==
    ASSUME IInv, NEW o \in Orders, NEW s \in Seats!ReleaseStatuses, Release(o, s)
    PROVE  Seats!TypeOK' /\ PaidIsSettled' /\ PaidStays /\ NewlyPaid({})
BY ReleaseKeepsSeats, SameKeepsSeats DEF Release, SeatsSame, IInv

LEMMA ReleaseUnchargedKeepsIInv ==
    ASSUME IInv, NEW o \in Orders, ReleaseUncharged(o)
    PROVE  IInv'
<1>1. UNCHANGED <<gw, payment, attempt, handler, after, lapsed>>
  BY DEF ReleaseUncharged, CheckoutVars
<1>2. Seats!TypeOK' /\ PaidIsSettled' /\ PaidStays /\ NewlyPaid({})
  <2>1. CASE Release(o, "failed")
    BY <2>1, ReleaseIsSeats DEF Seats!ReleaseStatuses
  <2>2. CASE SeatsSame
    BY <2>2, SameKeepsSeats DEF IInv
  <2> QED
    BY <2>1, <2>2 DEF ReleaseUncharged, SeatsSame
<1>3. checkout' \in [Orders -> CheckoutStates] /\ PromptedOnce'
  BY <1>1, CheckoutMoves DEF ReleaseUncharged, CheckoutStates
<1>4. faults' \in 0..MaxFaults
  BY FaultCounted DEF ReleaseUncharged, IInv
<1>5. MoneyStays /\ SeenCharged'
  BY <1>1, GatewaySame
<1>6. PaidIsCharged' /\ TicketsHaveSeats'
  BY <1>1, <1>2, <1>5, OutcomeOfPayment DEF NoMoreTickets
<1> QED
  BY <1>1, <1>2, <1>3, <1>4, <1>5, <1>6 DEF IInv, Shape

LEMMA CheckoutCrashKeepsIInv ==
    ASSUME IInv, NEW o \in Orders, CheckoutCrash(o)
    PROVE  IInv'
<1>1. SeatsSame /\ UNCHANGED <<gw, payment, attempt, handler, after, lapsed>>
  BY DEF CheckoutCrash, CheckoutVars, SeatsSame
<1>2. Seats!TypeOK' /\ PaidIsSettled' /\ PaidStays /\ NewlyPaid({})
  BY <1>1, SameKeepsSeats DEF IInv
<1>3. checkout' \in [Orders -> CheckoutStates] /\ PromptedOnce'
  BY <1>1, CheckoutMoves DEF CheckoutCrash, CheckoutStates
<1>4. faults' \in 0..MaxFaults
  BY FaultCounted DEF CheckoutCrash, IInv
<1>5. MoneyStays /\ SeenCharged'
  BY <1>1, GatewaySame
<1>6. PaidIsCharged' /\ TicketsHaveSeats'
  BY <1>1, <1>2, <1>5, OutcomeOfPayment DEF NoMoreTickets
<1> QED
  BY <1>1, <1>2, <1>3, <1>4, <1>5, <1>6 DEF IInv, Shape

\* cancelOrder, Expire, Lapse and ChangeTier: the rest stands still.
LEMMA SeatsAloneKeepIInv ==
    ASSUME IInv, UNCHANGED HoldVars, lapsed' \in SUBSET Orders,
           Seats!TypeOK', PaidIsSettled', PaidStays, NewlyPaid({})
    PROVE  IInv'
<1>1. UNCHANGED <<checkout, gw, payment, handler, attempt, after, faults>>
  BY DEF HoldVars
<1>2. MoneyStays /\ SeenCharged' /\ PromptedOnce'
  BY <1>1, GatewaySame
<1>3. PaidIsCharged' /\ TicketsHaveSeats'
  BY <1>1, <1>2, OutcomeOfPayment DEF NoMoreTickets
<1> QED
  BY <1>1, <1>2, <1>3 DEF IInv, Shape

LEMMA HoldEndsKeepsIInv ==
    ASSUME IInv, NEW o \in Orders, cancelOrder(o) \/ Expire(o) \/ Lapse(o)
    PROVE  IInv'
<1>1. CASE cancelOrder(o) \/ Expire(o)
  <2>1. \/ Seats!releaseOrder(o, "cancelled")
        \/ Seats!releaseOrder(o, "expired")
    BY <1>1 DEF cancelOrder, Expire
  <2>2. Seats!TypeOK' /\ PaidIsSettled' /\ PaidStays /\ NewlyPaid({})
    BY <2>1, ReleaseKeepsSeats DEF Seats!ReleaseStatuses, IInv
  <2>3. UNCHANGED HoldVars /\ lapsed' \in SUBSET Orders
    BY <1>1 DEF cancelOrder, Expire, IInv, Shape
  <2> QED
    BY <2>2, <2>3, SeatsAloneKeepIInv
<1>2. CASE Lapse(o)
  <2>1. SeatsSame /\ UNCHANGED HoldVars /\ lapsed' \in SUBSET Orders
    BY <1>2 DEF Lapse, SeatsSame, IInv, Shape
  <2> QED
    BY <2>1, SameKeepsSeats, SeatsAloneKeepIInv DEF IInv
<1> QED
  BY <1>1, <1>2

LEMMA ChangeTierKeepsIInv ==
    ASSUME IInv, NEW t \in Tiers, ChangeTier(t)
    PROVE  IInv'
<1>1. Seats!TypeOK' /\ PaidIsSettled' /\ PaidStays /\ NewlyPaid({})
  BY TierChangeKeepsSeats DEF ChangeTier, IInv
<1>2. UNCHANGED HoldVars /\ lapsed' \in SUBSET Orders
  BY DEF ChangeTier, HoldVars, IInv, Shape
<1> QED
  BY <1>1, <1>2, SeatsAloneKeepIInv

-----------------------------------------------------------------------------
(* M-Pesa, the callbacks and the reconciler. *)

LEMMA DecideKeepsIInv ==
    ASSUME IInv, NEW o \in Orders, NEW outcome \in Outcomes, Decide(o, outcome)
    PROVE  IInv'
<1>1. SeatsSame /\ UNCHANGED <<checkout, payment, handler, attempt, after, lapsed, faults>>
  BY DEF Decide, SeatsSame
<1>2. gw[o] = "prompted" /\ gw' = [gw EXCEPT ![o] = outcome]
  BY DEF Decide
<1>3. /\ gw' \in [Orders -> {"none", "prompted"} \cup Outcomes]
      /\ \A p \in Orders \ {o} : gw'[p] = gw[p]
  BY <1>2 DEF IInv, Shape
<1>4. MoneyStays /\ PromptedOnce'
  BY <1>1, <1>2, <1>3 DEF IInv, MoneyStays, TookMoney, PromptedOnce
<1>5. SeenCharged'
  BY <1>1, <1>4 DEF IInv, SeenCharged, MoneyStays
<1>6. Seats!TypeOK' /\ PaidIsSettled' /\ PaidStays /\ NewlyPaid({})
  BY <1>1, SameKeepsSeats DEF IInv
<1>7. PaidIsCharged' /\ TicketsHaveSeats'
  BY <1>1, <1>4, <1>6, OutcomeOfPayment DEF NoMoreTickets
<1> QED
  BY <1>1, <1>3, <1>4, <1>5, <1>6, <1>7 DEF IInv, Shape

\* A handler goes on and no seat changes hands.
LEMMA HandlerAloneKeepsIInv ==
    ASSUME IInv, SeatsSame, UNCHANGED <<checkout, gw, lapsed>>,
           NEW o \in Orders, NEW s \in Sources, NEW pc \in HandlerStates, Goto(o, s, pc),
           pc # "committing", pc = "settling" /\ s = "success" => TookMoney(o),
           payment' \in [Orders -> PaymentStatuses],
           attempt' \in [Orders -> 0..(MAX_ATTEMPTS + 1)],
           after' \in [Orders -> [job : {"none", "queued", "done"}, tickets : BOOLEAN,
                                  mails : SUBSET {"order-failed", "tickets-issued"}]],
           faults' \in 0..MaxFaults, NoMoreTickets
    PROVE  IInv'
<1>1. MoneyStays /\ PromptedOnce'
  BY GatewaySame
<1>2. handler' \in [Orders -> [Sources -> HandlerStates]] /\ SeenCharged'
  BY <1>1, HandlerMoves DEF IInv
<1>3. Seats!TypeOK' /\ PaidIsSettled' /\ PaidStays /\ NewlyPaid({})
  BY SameKeepsSeats DEF IInv
<1>4. PaidIsCharged' /\ TicketsHaveSeats'
  BY <1>1, <1>3, OutcomeOfPayment
<1> QED
  BY <1>1, <1>2, <1>3, <1>4 DEF IInv, Shape

LEMMA DeliverKeepsIInv ==
    ASSUME IInv, NEW o \in Orders, NEW kind \in Callbacks, Deliver(o, kind)
    PROVE  IInv'
<1>1. SeatsSame /\ UNCHANGED <<checkout, gw, payment, attempt, after, lapsed, faults>>
  BY DEF Deliver, SeatsSame
<1>2. Goto(o, kind, "claiming") /\ kind \in Sources /\ "claiming" \in HandlerStates
  BY DEF Deliver, Sources, HandlerStates
<1> QED
  BY <1>1, <1>2, HandlerAloneKeepsIInv DEF NoMoreTickets, IInv, Shape

LEMMA ReconcileKeepsIInv ==
    ASSUME IInv, NEW o \in Orders, Reconcile(o)
    PROVE  IInv'
<1>1. SeatsSame /\ UNCHANGED <<checkout, gw, payment, after, lapsed, faults>>
  BY DEF Reconcile, ReconcileSettled, ReconcileInconclusive, ReconcileDecided, ReconcileVars,
         SeatsSame
<1>2. CASE ReconcileInconclusive(o)
  <2>1. UNCHANGED handler /\ attempt' \in [Orders -> 0..(MAX_ATTEMPTS + 1)]
    <3>1. attempt[o] \in 1..MAX_ATTEMPTS
      BY <1>2 DEF ReconcileInconclusive, Reconciling
    <3>2. attempt[o] + 1 \in 0..(MAX_ATTEMPTS + 1)
      BY <3>1, BoundsOK
    <3> QED
      BY <1>2, <3>2 DEF ReconcileInconclusive, IInv, Shape
  <2>2. MoneyStays /\ SeenCharged' /\ PromptedOnce'
    BY <1>1, <2>1, GatewaySame
  <2>3. Seats!TypeOK' /\ PaidIsSettled' /\ PaidStays /\ NewlyPaid({})
    BY <1>1, SameKeepsSeats DEF IInv
  <2>4. PaidIsCharged' /\ TicketsHaveSeats'
    BY <1>1, <2>2, <2>3, OutcomeOfPayment DEF NoMoreTickets
  <2> QED
    BY <1>1, <2>1, <2>2, <2>3, <2>4 DEF IInv, Shape
<1>3. ASSUME NEW pc \in {"done", "claiming"}, Goto(o, "query", pc), UNCHANGED attempt
      PROVE  IInv'
  <2>1. "query" \in Sources /\ pc \in HandlerStates
    BY DEF Sources, HandlerStates
  <2> QED
    BY <1>1, <1>3, <2>1, HandlerAloneKeepsIInv DEF NoMoreTickets, IInv, Shape
<1> QED
  BY <1>2, <1>3 DEF Reconcile, ReconcileSettled, ReconcileDecided

-----------------------------------------------------------------------------
(* applySettlement. *)

LEMMA ClaimKeepsIInv ==
    ASSUME IInv, NEW o \in Orders, NEW s \in Sources, Claim(o, s),
           UNCHANGED <<checkout, gw, attempt, lapsed, faults>>
    PROVE  IInv'
<1>1. PICK pc \in {"done", "confirming", "settling"} :
        Goto(o, s, pc) /\ (s = "success" => pc # "settling")
  BY DEF Claim
<1>2. SeatsSame /\ UNCHANGED <<payment, after>> /\ pc \in HandlerStates
  BY DEF Claim, SeatsSame, HandlerStates
<1> QED
  BY <1>1, <1>2, HandlerAloneKeepsIInv DEF NoMoreTickets, IInv, Shape

\* A success is settled only when M-Pesa says that it took the money.
LEMMA ConfirmKeepsIInv ==
    ASSUME IInv, NEW o \in Orders, NEW s \in Sources, Confirm(o, s),
           UNCHANGED <<checkout, gw, attempt, lapsed, faults>>
    PROVE  IInv'
<1>1. PICK answer \in stkQuery(o) :
        Goto(o, s, IF mapResultCode(answer) = "succeeded" THEN "settling" ELSE "done")
  BY DEF Confirm
<1> DEFINE pc == IF mapResultCode(answer) = "succeeded" THEN "settling" ELSE "done"
<1>2. pc = "settling" => TookMoney(o)
  BY DEF stkQuery, mapResultCode, TookMoney
<1>3. SeatsSame /\ UNCHANGED <<payment, after>> /\ pc \in HandlerStates /\ pc # "committing"
  BY DEF Confirm, SeatsSame, HandlerStates
<1>4. Goto(o, s, pc)
  BY <1>1
<1> HIDE DEF pc
<1> QED
  BY <1>2, <1>3, <1>4, HandlerAloneKeepsIInv DEF NoMoreTickets, IInv, Shape

LEMMA SettleKeepsIInv ==
    ASSUME IInv, NEW o \in Orders, NEW s \in Sources, Settle(o, s),
           UNCHANGED <<checkout, gw, attempt, lapsed, faults>>
    PROVE  IInv'
<1>1. SeatsSame /\ UNCHANGED after
  BY DEF Settle, SeatsSame
<1>2. MoneyStays /\ PromptedOnce'
  BY GatewaySame
<1>3. payment' \in [Orders -> PaymentStatuses]
  BY DEF Settle, settleSuccess, settleFailure, FailedAs, PaymentStatuses, IInv, Shape
<1>4. PICK pc \in {"committing", "releasing"} : Goto(o, s, pc) /\ (pc = "committing" => Success(o, s))
  BY DEF Settle, settleSuccess, settleFailure
<1>5. Success(o, s) => TookMoney(o)
  BY DEF Success, mapResultCode, TookMoney, Settle, IInv, SeenCharged
<1>6. handler' \in [Orders -> [Sources -> HandlerStates]] /\ SeenCharged'
  BY <1>2, <1>4, <1>5, HandlerMoves DEF IInv, HandlerStates
<1>7. Seats!TypeOK' /\ PaidIsSettled' /\ PaidStays /\ NewlyPaid({})
  BY <1>1, SameKeepsSeats DEF IInv
<1>8. PaidIsCharged' /\ TicketsHaveSeats'
  BY <1>1, <1>2, <1>7, OutcomeOfPayment DEF NoMoreTickets
<1> QED
  BY <1>1, <1>2, <1>3, <1>6, <1>7, <1>8 DEF IInv, Shape

LEMMA ReleaseUnpaidKeepsIInv ==
    ASSUME IInv, NEW o \in Orders, NEW s \in Sources, ReleaseUnpaid(o, s),
           UNCHANGED <<checkout, gw, attempt, lapsed, faults>>
    PROVE  IInv'
<1>1. UNCHANGED <<payment, after>>
  BY DEF ReleaseUnpaid
<1>2. Seats!TypeOK' /\ PaidIsSettled' /\ PaidStays /\ NewlyPaid({})
  <2>1. FailedAs(o) \in Seats!ReleaseStatuses
    BY DEF FailedAs, Seats!ReleaseStatuses
  <2> QED
    BY <2>1, ReleaseIsSeats DEF ReleaseUnpaid
<1>3. MoneyStays /\ PromptedOnce'
  BY GatewaySame
<1>4. PICK pc \in {"done", "notifying"} : Goto(o, s, pc)
  BY DEF ReleaseUnpaid
<1>5. handler' \in [Orders -> [Sources -> HandlerStates]] /\ SeenCharged'
  BY <1>3, <1>4, HandlerMoves DEF IInv, HandlerStates
<1>6. PaidIsCharged' /\ TicketsHaveSeats'
  BY <1>1, <1>2, <1>3, OutcomeOfPayment DEF NoMoreTickets
<1> QED
  BY <1>1, <1>2, <1>3, <1>5, <1>6 DEF IInv, Shape

\* Who commits has seen the money (SeenCharged), so the order that becomes paid
\* was charged.
LEMMA CommitPaidKeepsIInv ==
    ASSUME IInv, NEW o \in Orders, NEW s \in Sources, CommitPaid(o, s),
           UNCHANGED <<checkout, gw, attempt, lapsed, faults>>
    PROVE  IInv'
<1>1. UNCHANGED <<payment, after>> /\ TookMoney(o)
  BY DEF CommitPaid, IInv, SeenCharged
<1>2. Seats!TypeOK' /\ PaidIsSettled' /\ PaidStays /\ NewlyPaid({o})
  <2>1. CASE Seats!commitOrder(o)
    BY <2>1, CommitKeepsSeats DEF IInv
  <2>2. CASE SeatsSame
    BY <2>2, SameKeepsSeats DEF IInv, NewlyPaid
  <2> QED
    BY <2>1, <2>2 DEF CommitPaid, Commit, SeatsSame
<1>3. MoneyStays /\ PromptedOnce'
  BY GatewaySame
<1>4. PICK pc \in {"notifying", "issuing"} : Goto(o, s, pc)
  BY DEF CommitPaid
<1>5. handler' \in [Orders -> [Sources -> HandlerStates]] /\ SeenCharged'
  BY <1>3, <1>4, HandlerMoves DEF IInv, HandlerStates
<1>6. PaidIsCharged' /\ TicketsHaveSeats'
  BY <1>1, <1>2, <1>3, OutcomeOfPayment DEF NoMoreTickets
<1> QED
  BY <1>1, <1>2, <1>3, <1>5, <1>6 DEF IInv, Shape

LEMMA FollowUpKeepsIInv ==
    ASSUME IInv, NEW o \in Orders, NEW s \in Sources,
           Notify(o, s) \/ enqueueTicketIssuance(o, s),
           UNCHANGED <<checkout, gw, attempt, lapsed, faults>>
    PROVE  IInv'
<1>1. SeatsSame /\ UNCHANGED payment /\ Goto(o, s, "done") /\ "done" \in HandlerStates
  BY DEF Notify, enqueueTicketIssuance, SeatsSame, HandlerStates
<1>2. /\ after' \in [Orders -> [job : {"none", "queued", "done"}, tickets : BOOLEAN,
                               mails : SUBSET {"order-failed", "tickets-issued"}]]
      /\ NoMoreTickets
  <2>1. CASE Notify(o, s)
    BY <2>1 DEF Notify, IInv, Shape, NoMoreTickets
  <2>2. CASE enqueueTicketIssuance(o, s)
    BY <2>2 DEF enqueueTicketIssuance, IInv, Shape, NoMoreTickets
  <2> QED
    BY <2>1, <2>2
<1> QED
  BY <1>1, <1>2, HandlerAloneKeepsIInv DEF IInv, Shape

LEMMA SettlementFailsKeepsIInv ==
    ASSUME IInv, NEW o \in Orders, NEW s \in Sources, SettlementFails(o, s)
    PROVE  IInv'
<1>1. SeatsSame /\ UNCHANGED <<checkout, gw, payment, attempt, after, lapsed>>
  BY DEF SettlementFails, SeatsSame
<1>2. PICK pc \in {"idle", "done"} : Goto(o, s, pc)
  BY DEF SettlementFails
<1>3. faults' \in 0..MaxFaults
  BY FaultCounted DEF SettlementFails, IInv
<1>4. pc \in HandlerStates
  BY DEF HandlerStates
<1> QED
  BY <1>1, <1>2, <1>3, <1>4, HandlerAloneKeepsIInv DEF NoMoreTickets, IInv, Shape

-----------------------------------------------------------------------------
(* Issuance. *)

LEMMA IssueTicketsKeepsIInv ==
    ASSUME IInv, NEW o \in Orders, IssueTickets(o)
    PROVE  IInv'
<1>1. SeatsSame /\ UNCHANGED <<checkout, gw, payment, handler, attempt, lapsed, faults>>
  BY DEF IssueTickets, issuanceVars, SeatsSame
<1> DEFINE After == [job : {"none", "queued", "done"}, tickets : BOOLEAN,
                     mails : SUBSET {"order-failed", "tickets-issued"}]
           due == order[o].status = "paid" /\ ~order[o].refundRequired
           issued == [after[o] EXCEPT !.job = "done", !.tickets = TRUE,
                                      !.mails = @ \cup {"tickets-issued"}]
           ended == [after[o] EXCEPT !.job = "done"]
<1>2. after \in [Orders -> After] /\ issued \in After /\ ended \in After
      /\ ended.tickets = after[o].tickets
  BY DEF IInv, Shape
<1>3. after' = [after EXCEPT ![o] = IF due THEN issued ELSE ended]
  BY <1>2 DEF IssueTickets
<1> HIDE DEF After, due, issued, ended
<1>4. after' \in [Orders -> After]
  BY <1>2, <1>3
<1>5. MoneyStays /\ SeenCharged' /\ PromptedOnce'
  BY <1>1, GatewaySame
<1>6. Seats!TypeOK' /\ PaidIsSettled' /\ PaidStays /\ NewlyPaid({})
  BY <1>1, SameKeepsSeats DEF IInv
<1>7. PaidIsCharged'
  BY <1>5, <1>6 DEF IInv, PaidIsCharged, NewlyPaid, MoneyStays
<1>8. \A p \in Orders : after'[p].tickets =>
        \/ after[p].tickets
        \/ order[p].status = "paid" /\ ~order[p].refundRequired
  BY <1>2, <1>3 DEF due
<1>9. TicketsHaveSeats'
  BY <1>6, <1>8 DEF IInv, TicketsHaveSeats, PaidIsSettled, PaidStays, Seats!InBasket
<1> QED
  BY <1>1, <1>4, <1>5, <1>6, <1>7, <1>9 DEF IInv, Shape, After

-----------------------------------------------------------------------------
LEMMA InitIInv == Init => IInv
<1> SUFFICES ASSUME Init PROVE IInv
  OBVIOUS
<1>1. Seats!TypeOK
  BY SeatsInit
<1>2. Shape
  BY BoundsOK DEF Init, Shape, NoPayments, NoDeliveries, CheckoutStates, PaymentStatuses,
     HandlerStates
<1>3. \A o \in Orders : order[o].status = "none" /\ ~after[o].tickets
  BY DEF Init, Seats!Init, Seats!NoOrder
<1>4. PromptedOnce /\ SeenCharged
  BY DEF Init, NoDeliveries, PromptedOnce, SeenCharged, Sources, Callbacks
<1>5. PaidIsSettled /\ PaidIsCharged /\ TicketsHaveSeats
  BY <1>3 DEF PaidIsSettled, PaidIsCharged, TicketsHaveSeats
<1> QED
  BY <1>1, <1>2, <1>4, <1>5 DEF IInv

LEMMA CheckoutKeepsIInv ==
    ASSUME IInv, NEW o \in Orders, Checkout(o)
    PROVE  IInv'
BY ChargeKeepsIInv, RecordPaymentKeepsIInv, scheduleReconcileKeepsIInv,
   ReleaseUnchargedKeepsIInv DEF Checkout

LEMMA applySettlementKeepsIInv ==
    ASSUME IInv, NEW o \in Orders, NEW s \in Sources, applySettlement(o, s)
    PROVE  IInv'
BY ClaimKeepsIInv, ConfirmKeepsIInv, SettleKeepsIInv, ReleaseUnpaidKeepsIInv,
   CommitPaidKeepsIInv, FollowUpKeepsIInv DEF applySettlement

LEMMA StutterKeepsIInv == IInv /\ UNCHANGED vars => IInv'
<1> SUFFICES ASSUME IInv, UNCHANGED vars PROVE IInv'
  OBVIOUS
<1>1. SeatsSame /\ UNCHANGED <<checkout, gw, payment, handler, attempt, after, lapsed, faults>>
  BY DEF vars, SeatsSame, seatVars
<1>2. Seats!TypeOK' /\ PaidIsSettled' /\ PaidStays /\ NewlyPaid({})
  BY <1>1, SameKeepsSeats DEF IInv
<1> QED
  BY <1>1, <1>2, SeatsAloneKeepIInv DEF HoldVars, IInv, Shape

LEMMA NextKeepsIInv == IInv /\ [Next]_vars => IInv'
<1> SUFFICES ASSUME IInv, [Next]_vars PROVE IInv'
  OBVIOUS
<1>1. CASE UNCHANGED vars
  BY <1>1, StutterKeepsIInv
<1>2. ASSUME NEW o \in Orders, NEW basket \in Seats!Basket, Reserve(o, basket) PROVE IInv'
  BY <1>2, ReserveKeepsIInv
<1>3. ASSUME NEW o \in Orders, Checkout(o) \/ CheckoutCrash(o) PROVE IInv'
  BY <1>3, CheckoutKeepsIInv, CheckoutCrashKeepsIInv
<1>4. ASSUME NEW o \in Orders, cancelOrder(o) \/ Lapse(o) \/ Expire(o) PROVE IInv'
  BY <1>4, HoldEndsKeepsIInv
<1>5. ASSUME NEW o \in Orders, NEW outcome \in Outcomes, Decide(o, outcome) PROVE IInv'
  BY <1>5, DecideKeepsIInv
<1>6. ASSUME NEW o \in Orders, NEW kind \in Callbacks, Deliver(o, kind) PROVE IInv'
  BY <1>6, DeliverKeepsIInv
<1>7. ASSUME NEW o \in Orders, Reconcile(o) PROVE IInv'
  BY <1>7, ReconcileKeepsIInv
<1>8. ASSUME NEW o \in Orders, NEW s \in Sources, applySettlement(o, s) \/ SettlementFails(o, s)
      PROVE  IInv'
  BY <1>8, applySettlementKeepsIInv, SettlementFailsKeepsIInv
<1>9. ASSUME NEW o \in Orders, IssueTickets(o) PROVE IInv'
  BY <1>9, IssueTicketsKeepsIInv
<1>10. ASSUME NEW t \in Tiers, ChangeTier(t) PROVE IInv'
  BY <1>10, ChangeTierKeepsIInv
<1> QED
  BY <1>1, <1>2, <1>3, <1>4, <1>5, <1>6, <1>7, <1>8, <1>9, <1>10 DEF Next

-----------------------------------------------------------------------------
(* The theorems. *)

\* The inductive invariant.
THEOREM SettlementInvariant == Spec => []IInv
<1>1. Init => IInv
  BY InitIInv
<1>2. IInv /\ [Next]_vars => IInv'
  BY NextKeepsIInv
<1> QED
  BY <1>1, <1>2, PTL DEF Spec

\* Every reachable state is well typed: attempts and faults stay in their bounds.
THEOREM SettlementTypeCorrect == Spec => []TypeOK
<1>1. IInv => TypeOK
  BY DEF IInv, Shape, TypeOK
<1> QED
  BY <1>1, SettlementInvariant, PTL

\* Whatever the callbacks claim and whichever processes die, an order is paid and
\* has tickets only when M-Pesa took money for it (applySettlement confirms a
\* success before it settles it).
THEOREM NobodyPaysNothing == Spec => []PaidOnlyIfCharged
<1>1. IInv => PaidOnlyIfCharged
  BY DEF IInv, PaidOnlyIfCharged, PaidIsCharged, TicketsHaveSeats
<1> QED
  BY <1>1, SettlementInvariant, PTL

\* However many handlers settle one payment, tickets are issued for seats the
\* order owns and for none that are to be refunded.
THEOREM TicketsAreForSeats == Spec => []TicketsHaveSeats
<1>1. IInv => TicketsHaveSeats
  BY DEF IInv
<1> QED
  BY <1>1, SettlementInvariant, PTL

-----------------------------------------------------------------------------
(* Every step is a step of Inventory, or leaves its rows alone.            *)

LEMMA ReleaseIsAStep ==
    ASSUME NEW o \in Orders, NEW s \in Seats!ReleaseStatuses, Release(o, s)
    PROVE  Seats!Next \/ SeatsSame
BY DEF Release, SeatsSame, Seats!Next

LEMMA CheckoutIsAStep ==
    ASSUME NEW o \in Orders, Checkout(o)
    PROVE  Seats!Next \/ SeatsSame
<1>1. CASE Charge(o) \/ scheduleReconcile(o)
  BY <1>1 DEF Charge, scheduleReconcile, SeatsSame
<1>2. CASE RecordPayment(o)
  <2>1. Seats!StartPayment(o) \/ SeatsSame
    BY <1>2 DEF RecordPayment, SeatsSame
  <2> QED
    BY <2>1 DEF Seats!Next
<1>3. CASE ReleaseUncharged(o)
  <2>1. Release(o, "failed") \/ SeatsSame
    BY <1>3 DEF ReleaseUncharged, SeatsSame
  <2> QED
    BY <2>1, ReleaseIsAStep DEF Seats!ReleaseStatuses
<1> QED
  BY <1>1, <1>2, <1>3 DEF Checkout

LEMMA applySettlementIsAStep ==
    ASSUME NEW o \in Orders, NEW s \in Sources, applySettlement(o, s)
    PROVE  Seats!Next \/ SeatsSame
<1>1. CASE ReleaseUnpaid(o, s)
  <2>1. FailedAs(o) \in Seats!ReleaseStatuses
    BY DEF FailedAs, Seats!ReleaseStatuses
  <2> QED
    BY <1>1, <2>1, ReleaseIsAStep DEF ReleaseUnpaid
<1>2. CASE CommitPaid(o, s)
  <2>1. Seats!commitOrder(o) \/ SeatsSame
    BY <1>2 DEF CommitPaid, Commit, SeatsSame
  <2> QED
    BY <2>1 DEF Seats!Next
<1>3. CASE \/ Claim(o, s) \/ Confirm(o, s) \/ Settle(o, s)
           \/ Notify(o, s) \/ enqueueTicketIssuance(o, s)
  BY <1>3 DEF Claim, Confirm, Settle, Notify, enqueueTicketIssuance, SeatsSame
<1> QED
  BY <1>1, <1>2, <1>3 DEF applySettlement

LEMMA EveryStepIsAStep == [Next]_vars => [Seats!Next]_(Seats!vars)
<1> SUFFICES ASSUME [Next]_vars PROVE Seats!Next \/ SeatsSame
  BY DEF Seats!vars, SeatsSame, seatVars
<1>1. CASE UNCHANGED vars
  BY <1>1 DEF vars, SeatsSame, seatVars
<1>2. ASSUME NEW o \in Orders, NEW basket \in Seats!Basket, Reserve(o, basket)
      PROVE  Seats!Next
  BY <1>2 DEF Reserve, Seats!Next
<1>3. ASSUME NEW o \in Orders, Checkout(o) PROVE Seats!Next \/ SeatsSame
  BY <1>3, CheckoutIsAStep
<1>4. ASSUME NEW o \in Orders, cancelOrder(o) \/ Expire(o) PROVE Seats!Next
  <2>1. Seats!releaseOrder(o, "cancelled") \/ Seats!releaseOrder(o, "expired")
    BY <1>4 DEF cancelOrder, Expire
  <2> QED
    BY <2>1 DEF Seats!Next, Seats!ReleaseStatuses
<1>5. ASSUME NEW o \in Orders, NEW s \in Sources, applySettlement(o, s)
      PROVE  Seats!Next \/ SeatsSame
  BY <1>5, applySettlementIsAStep
<1>6. ASSUME NEW t \in Tiers, ChangeTier(t) PROVE Seats!Next
  BY <1>6 DEF ChangeTier, Seats!Next
<1>7. ASSUME NEW o \in Orders,
             \/ CheckoutCrash(o) \/ Lapse(o) \/ Reconcile(o) \/ IssueTickets(o)
             \/ \E outcome \in Outcomes : Decide(o, outcome)
             \/ \E kind \in Callbacks : Deliver(o, kind)
             \/ \E s \in Sources : SettlementFails(o, s)
      PROVE  SeatsSame
  BY <1>7 DEF CheckoutCrash, Lapse, Reconcile, ReconcileSettled, ReconcileInconclusive,
     ReconcileDecided, ReconcileVars, IssueTickets, issuanceVars, Decide, Deliver,
     SettlementFails, SeatsSame
<1> QED
  BY <1>1, <1>2, <1>3, <1>4, <1>5, <1>6, <1>7 DEF Next

\* Checkout, settlement and expiry change tiers and orders as Inventory allows, so
\* that what InventoryProofs shows of every behaviour of Inventory holds while
\* they race and fail (SeatsOK grants what Inventory assumes).
THEOREM SettlementKeepsInventory == Spec => KeepsInventory
<1>1. Init => Seats!Init
  BY DEF Init
<1>2. [Next]_vars => [Seats!Next]_(Seats!vars)
  BY EveryStepIsAStep
<1> QED
  BY <1>1, <1>2, PTL DEF Spec, KeepsInventory, Seats!Spec
=============================================================================
