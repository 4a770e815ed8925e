--------------------------- MODULE RequestsProofs ---------------------------
(***************************************************************************)
(* For any number of connections, people, keys and orders, and any cap:    *)
(* requests under one key come to one order, which is the sender's own,    *)
(* and requests in progress together exceed the cap by one less than there *)
(* are of them at most.                                                    *)
(*                                                                         *)
(* The row of an order says who made it and under which key (RowsAreFull), *)
(* a request that has an order has one of its own sender (OwnOrders), and  *)
(* for the cap every request that has passed the check and not inserted    *)
(* yet is counted as if it held (CapNearlyKept).                           *)
(***************************************************************************)
EXTENDS Requests, FiniteSetTheorems, TLAPS

PCs == {"idle", "find", "check", "hold", "charge", "answered", "refused"}

StoredKeys == {None} \cup (Keys \X (Emails \cup {None}))

OrderRow ==
    [key : StoredKeys, body : Body \cup {None},
     status : {"none", "pending", "awaiting_payment", "paid", "expired", "cancelled", "failed"},
     held : BOOLEAN, lapsed : BOOLEAN, prompted : BOOLEAN]

RequestRow == [pc : PCs, body : Body \cup {None}, order : OrderIds \cup {None}]

Shape ==
    /\ requests \in [Clients -> RequestRow]
    /\ orders \in [OrderIds -> OrderRow]

\* A row that was inserted says who asked and under which key.
Full(row) ==
    /\ row.status # "none" /\ row.body \in Body
    /\ row.key = scopeIdempotencyKey(row.body.key, row.body.email)
    /\ row.held => row.status \in HOLDING_STATUSES
    /\ ~row.prompted => (row.held <=> row.status \in HOLDING_STATUSES)

RowsAreFull == \A o \in OrderIds : orders[o] = NoOrder \/ Full(orders[o])

\* What a request in progress relies on, of itself and of the order it has.
Own(request, rows) ==
    /\ request.pc = "idle" => request = IdleRequest
    /\ request.pc # "idle" => request.body \in Body
    /\ request.pc \in {"find", "check", "hold"} => request.order = None
    /\ request.pc \in {"charge", "answered"} =>
         /\ request.order \in OrderIds
         /\ rows[request.order].status # "none"
         /\ rows[request.order].body.email = request.body.email

OwnOrders == \A c \in Clients : Own(requests[c], orders)

\* Only the request that made an order prompts for it.
ChargedByOne ==
    \A c \in Clients : At(c, "charge") =>
        /\ ~orders[requests[c].order].prompted
        /\ \A d \in Clients :
             At(d, "charge") /\ requests[d].order = requests[c].order => d = c

IInv == Shape /\ RowsAreFull /\ OwnOrders /\ ChargedByOne

\* Passed the check, not inserted yet.
AboutToHold(p) == {c \in Clients : At(c, "hold") /\ requests[c].body.phone = p}

CapNearlyKept ==
    \A p \in Phones :
        Cardinality(ActiveHolds(p)) + Cardinality(AboutToHold(p))
            <= MAX_ACTIVE_HOLDS_PER_PHONE - 1 + Cardinality(Clients)

-----------------------------------------------------------------------------
LEMMA InitEstablishes == Init => IInv
BY DEF Init, IInv, Shape, RowsAreFull, OwnOrders, Own, ChargedByOne, At, IdleRequest, NoOrder,
       PCs, StoredKeys, RequestRow, OrderRow

\* A key that is found is the sender's: the digest is of both.
LEMMA FoundIsOwn ==
    ASSUME IInv, NEW c \in Clients, ~At(c, "idle"), NEW o \in findByIdempotencyKey(ScopedKey(c))
    PROVE  /\ o \in OrderIds /\ orders[o].status # "none"
           /\ orders[o].body.email = requests[c].body.email
<1>1. requests[c].body \in Body /\ o \in OrderIds /\ orders[o].status # "none"
  BY DEF IInv, OwnOrders, Own, At, findByIdempotencyKey
<1>2. orders[o].body \in Body /\ orders[o].key = scopeIdempotencyKey(orders[o].body.key, orders[o].body.email)
  BY <1>1 DEF IInv, RowsAreFull, Full, NoOrder
<1>3. /\ ScopedKey(c) # None
      /\ ScopedKey(c) = scopeIdempotencyKey(orders[o].body.key, orders[o].body.email)
  BY <1>2 DEF findByIdempotencyKey
<1>4. <<requests[c].body.key, requests[c].body.email>> = <<orders[o].body.key, orders[o].body.email>>
  BY <1>3 DEF ScopedKey, scopeIdempotencyKey
<1> QED
  BY <1>1, <1>4

\* Rewriting one row, which stays the row of its maker, takes nothing from any request.
LEMMA RowStep ==
    ASSUME IInv, NEW o \in OrderIds, NEW row \in OrderRow, orders' = [orders EXCEPT ![o] = row],
           Full(row), orders[o].status # "none" => row.body = orders[o].body
    PROVE  /\ orders' \in [OrderIds -> OrderRow] /\ RowsAreFull'
           /\ \A x \in OrderIds : orders[x].status # "none" =>
                orders'[x].status # "none" /\ orders'[x].body = orders[x].body
           /\ orders'[o] = row /\ \A x \in OrderIds \ {o} : orders'[x] = orders[x]
<1>1. /\ orders' \in [OrderIds -> OrderRow]
      /\ orders'[o] = row /\ \A x \in OrderIds \ {o} : orders'[x] = orders[x]
  BY DEF IInv, Shape
<1>2. RowsAreFull'
  BY <1>1 DEF IInv, RowsAreFull, Full
<1> QED
  BY <1>1, <1>2 DEF Full

\* One request moves; the others keep what they rely on.
LEMMA RequestStep ==
    ASSUME IInv, NEW c \in Clients, NEW req \in RequestRow,
           requests' = [requests EXCEPT ![c] = req], Own(req, orders'),
           \A x \in OrderIds : orders[x].status # "none" =>
                orders'[x].status # "none" /\ orders'[x].body = orders[x].body
    PROVE  /\ requests' \in [Clients -> RequestRow] /\ OwnOrders'
           /\ requests'[c] = req /\ \A d \in Clients \ {c} : requests'[d] = requests[d]
<1>1. /\ requests' \in [Clients -> RequestRow]
      /\ requests'[c] = req /\ \A d \in Clients \ {c} : requests'[d] = requests[d]
  BY DEF IInv, Shape
<1>2. ASSUME NEW d \in Clients PROVE Own(requests'[d], orders')
  <2>1. CASE d = c
    BY <1>1, <2>1 DEF Own
  <2>2. CASE d # c
    BY <1>1, <2>2 DEF IInv, OwnOrders, Own
  <2> QED
    BY <2>1, <2>2
<1> QED
  BY <1>1, <1>2 DEF OwnOrders

\* Lapse, Release and Pay rewrite a row that was inserted, and leave it its maker's.
LEMMA FateRow ==
    ASSUME IInv, NEW o \in OrderIds, Fate(o)
    PROVE  /\ orders[o] \in OrderRow /\ UNCHANGED requests /\ Full(orders[o])
           /\ \E row \in OrderRow :
                /\ orders' = [orders EXCEPT ![o] = row] /\ Full(row)
                /\ row.body = orders[o].body /\ row.prompted = orders[o].prompted
                /\ row.status = orders[o].status \/ row.status \notin HOLDING_STATUSES
<1>1. orders[o] \in OrderRow /\ UNCHANGED requests
  BY DEF IInv, Shape, Fate
<1>2. Full(orders[o])
  BY DEF IInv, RowsAreFull, NoOrder, Fate, Lapse, Release, Pay, HOLDING_STATUSES
<1>3. CASE Lapse(o)
  <2> DEFINE row == [orders[o] EXCEPT !.lapsed = TRUE]
  <2>1. /\ row \in OrderRow /\ Full(row)
        /\ row.body = orders[o].body /\ row.prompted = orders[o].prompted
        /\ row.status = orders[o].status \/ row.status \notin HOLDING_STATUSES
    BY <1>1, <1>2 DEF OrderRow, Full, HOLDING_STATUSES
  <2>2. orders' = [orders EXCEPT ![o] = row]
    BY <1>3, <1>1 DEF Lapse, OrderRow
  <2> QED
    BY <1>1, <1>2, <2>1, <2>2
<1>4. CASE Release(o)
  <2>1. PICK to \in {"expired", "cancelled", "failed"} :
          orders' = [orders EXCEPT ![o].status = to, ![o].held = FALSE, ![o].lapsed = FALSE]
    BY <1>4 DEF Release, Released
  <2> DEFINE row == [orders[o] EXCEPT !.status = to, !.held = FALSE, !.lapsed = FALSE]
  <2>2. /\ row \in OrderRow /\ Full(row)
        /\ row.body = orders[o].body /\ row.prompted = orders[o].prompted
        /\ row.status = orders[o].status \/ row.status \notin HOLDING_STATUSES
    BY <1>1, <1>2, <2>1 DEF OrderRow, Full, HOLDING_STATUSES
  <2>3. orders' = [orders EXCEPT ![o] = row]
    BY <2>1, <1>1 DEF IInv, Shape, OrderRow
  <2> QED
    BY <1>1, <1>2, <2>2, <2>3
<1>5. CASE Pay(o)
  <2> DEFINE row == [orders[o] EXCEPT !.status = "paid", !.held = FALSE, !.lapsed = FALSE]
  <2>1. /\ row \in OrderRow /\ Full(row)
        /\ row.body = orders[o].body /\ row.prompted = orders[o].prompted
        /\ row.status = orders[o].status \/ row.status \notin HOLDING_STATUSES
    BY <1>1, <1>2 DEF OrderRow, Full, HOLDING_STATUSES
  <2>2. orders' = [orders EXCEPT ![o] = row]
    BY <1>5, <1>1 DEF IInv, Shape, Pay, OrderRow
  <2> QED
    BY <1>1, <1>2, <2>1, <2>2
<1> QED
  BY <1>1, <1>2, <1>3, <1>4, <1>5 DEF Fate

\* A step that moves no request and only rewrites a row.
LEMMA FateStep ==
    ASSUME IInv, NEW o \in OrderIds, Fate(o) PROVE IInv'
<1>1. PICK row \in OrderRow :
        /\ orders' = [orders EXCEPT ![o] = row] /\ Full(row)
        /\ row.body = orders[o].body /\ row.prompted = orders[o].prompted
        /\ row.status = orders[o].status \/ row.status \notin HOLDING_STATUSES
  BY FateRow
<1>2. /\ orders' \in [OrderIds -> OrderRow] /\ RowsAreFull'
      /\ \A x \in OrderIds : orders[x].status # "none" =>
           orders'[x].status # "none" /\ orders'[x].body = orders[x].body
      /\ orders'[o] = row /\ \A x \in OrderIds \ {o} : orders'[x] = orders[x]
  BY <1>1, RowStep
<1>3. Shape' /\ OwnOrders'
  BY FateRow, <1>2 DEF IInv, Shape, OwnOrders, Own
<1>4. ChargedByOne'
  BY FateRow, <1>1, <1>2 DEF IInv, OwnOrders, Own, ChargedByOne, At
<1> QED
  BY <1>2, <1>3, <1>4 DEF IInv

\* A request that moves on while every order stays as it is.
LEMMA LoneStep ==
    ASSUME IInv, NEW c \in Clients, NEW req \in RequestRow, req.pc # "charge", Own(req, orders),
           requests' = [requests EXCEPT ![c] = req], UNCHANGED orders
    PROVE  IInv'
<1>1. Own(req, orders')
  BY DEF Own
<1>2. /\ requests' \in [Clients -> RequestRow] /\ OwnOrders'
      /\ requests'[c] = req /\ \A d \in Clients \ {c} : requests'[d] = requests[d]
  BY <1>1, RequestStep
<1>3. ChargedByOne'
  BY <1>2 DEF IInv, ChargedByOne, At
<1> QED
  BY <1>2, <1>3 DEF IInv, Shape, RowsAreFull, Full

LEMMA SendStep ==
    ASSUME IInv, NEW c \in Clients, NEW body \in Body, Send(c, body) PROVE IInv'
<1> DEFINE req == [pc |-> "find", body |-> body, order |-> None]
<1>1. req \in RequestRow /\ Own(req, orders) /\ req.pc # "charge"
  BY DEF RequestRow, PCs, Own
<1>2. requests' = [requests EXCEPT ![c] = req] /\ UNCHANGED orders
  BY DEF Send
<1> QED
  BY <1>1, <1>2, LoneStep

LEMMA RespondStep ==
    ASSUME IInv, NEW c \in Clients, Respond(c), UNCHANGED orders PROVE IInv'
<1>1. IdleRequest \in RequestRow /\ Own(IdleRequest, orders) /\ IdleRequest.pc # "charge"
  BY DEF RequestRow, PCs, Own, IdleRequest
<1>2. requests' = [requests EXCEPT ![c] = IdleRequest]
  BY DEF Respond
<1> QED
  BY <1>1, <1>2, LoneStep

\* Turned away, or on to the next await, with the order it had.
LEMMA GotoStep ==
    ASSUME IInv, NEW c \in Clients, NEW pc \in {"check", "hold", "refused"}, Goto(c, pc),
           UNCHANGED orders, ~At(c, "idle"),
           pc # "refused" => requests[c].order = None
    PROVE  IInv'
<1> DEFINE req == [requests[c] EXCEPT !.pc = pc]
<1>1. requests[c] \in RequestRow /\ requests[c].body \in Body
  BY DEF IInv, Shape, OwnOrders, Own, At
<1>2. req \in RequestRow /\ Own(req, orders) /\ req.pc # "charge"
  BY <1>1 DEF RequestRow, PCs, Own
<1>3. requests' = [requests EXCEPT ![c] = req]
  BY <1>1 DEF Goto, RequestRow
<1> QED
  BY <1>2, <1>3, LoneStep

LEMMA ReplayStep ==
    ASSUME IInv, NEW c \in Clients, ~At(c, "idle"), UNCHANGED orders,
           NEW o \in findByIdempotencyKey(ScopedKey(c)), Replay(c, o)
    PROVE  IInv'
<1> DEFINE req == [requests[c] EXCEPT !.pc = "answered", !.order = o]
<1>1. requests[c] \in RequestRow /\ requests[c].body \in Body
  BY DEF IInv, Shape, OwnOrders, Own, At
<1>2. req \in RequestRow /\ Own(req, orders) /\ req.pc # "charge"
  BY <1>1, FoundIsOwn DEF RequestRow, PCs, Own
<1>3. requests' = [requests EXCEPT ![c] = req]
  BY <1>1 DEF IInv, Shape, Replay, RequestRow
<1> QED
  BY <1>2, <1>3, LoneStep

LEMMA InsertStep ==
    ASSUME IInv, NEW c \in Clients, At(c, "hold"), NEW o \in OrderIds, orders[o].status = "none",
           orders' = [orders EXCEPT ![o] = NewOrder(c)],
           requests' = [requests EXCEPT ![c].pc = "charge", ![c].order = o]
    PROVE  IInv'
<1> DEFINE req == [requests[c] EXCEPT !.pc = "charge", !.order = o]
<1>1. requests[c] \in RequestRow /\ requests[c].body \in Body
  BY DEF IInv, Shape, OwnOrders, Own, At
<1>2. NewOrder(c) \in OrderRow /\ Full(NewOrder(c)) /\ ~NewOrder(c).prompted
  BY <1>1 DEF NewOrder, OrderRow, StoredKeys, Full, HOLDING_STATUSES, ScopedKey,
              scopeIdempotencyKey, Body
<1>3. /\ orders' \in [OrderIds -> OrderRow] /\ RowsAreFull'
      /\ \A x \in OrderIds : orders[x].status # "none" =>
           orders'[x].status # "none" /\ orders'[x].body = orders[x].body
      /\ orders'[o] = NewOrder(c) /\ \A x \in OrderIds \ {o} : orders'[x] = orders[x]
  BY <1>2, RowStep
<1>4. req \in RequestRow /\ requests' = [requests EXCEPT ![c] = req]
  BY <1>1 DEF IInv, Shape, RequestRow, PCs
<1>5. Own(req, orders')
  BY <1>1, <1>3 DEF Own, RequestRow, NewOrder
<1>6. /\ requests' \in [Clients -> RequestRow] /\ OwnOrders'
      /\ requests'[c] = req /\ \A d \in Clients \ {c} : requests'[d] = requests[d]
  BY <1>3, <1>4, <1>5, RequestStep
<1>7. ChargedByOne'
  <2>1. \A d \in Clients \ {c} : At(d, "charge") => requests[d].order \in OrderIds \ {o}
    BY DEF IInv, OwnOrders, Own, At
  <2>2. requests'[c].order = o /\ ~orders'[o].prompted
    BY <1>1, <1>2, <1>3, <1>6 DEF RequestRow
  <2> QED
    BY <2>1, <2>2, <1>3, <1>6 DEF IInv, ChargedByOne, At
<1> QED
  BY <1>3, <1>6, <1>7 DEF IInv, Shape

\* The charge, whichever way it goes: the order stays its maker's, and nobody charges it again.
LEMMA EndOfCharge ==
    ASSUME IInv, NEW c \in Clients, At(c, "charge"), NEW pc \in {"answered", "refused"}, Goto(c, pc),
           NEW row \in OrderRow, orders' = [orders EXCEPT ![requests[c].order] = row],
           Full(row), row.body = orders[requests[c].order].body
    PROVE  IInv'
<1> DEFINE req == [requests[c] EXCEPT !.pc = pc]
           o == requests[c].order
<1>1. /\ requests[c] \in RequestRow /\ requests[c].body \in Body
      /\ o \in OrderIds /\ orders[o].body.email = requests[c].body.email
  BY DEF IInv, Shape, OwnOrders, Own, At
<1>2. /\ orders' \in [OrderIds -> OrderRow] /\ RowsAreFull'
      /\ \A x \in OrderIds : orders[x].status # "none" =>
           orders'[x].status # "none" /\ orders'[x].body = orders[x].body
      /\ orders'[o] = row /\ \A x \in OrderIds \ {o} : orders'[x] = orders[x]
  BY <1>1, RowStep
<1>3. req \in RequestRow /\ requests' = [requests EXCEPT ![c] = req]
  BY <1>1 DEF Goto, RequestRow, PCs
<1>4. Own(req, orders')
  BY <1>1, <1>2 DEF Own, RequestRow, Full
<1>5. /\ requests' \in [Clients -> RequestRow] /\ OwnOrders'
      /\ requests'[c] = req /\ \A d \in Clients \ {c} : requests'[d] = requests[d]
  BY <1>2, <1>3, <1>4, RequestStep
<1>6. ChargedByOne'
  <2>1. \A d \in Clients \ {c} : At(d, "charge") => requests[d].order \in OrderIds \ {o}
    BY DEF IInv, OwnOrders, Own, ChargedByOne, At
  <2>2. requests'[c].pc # "charge"
    BY <1>1, <1>5 DEF RequestRow
  <2>3. \A d \in Clients : At(d, "charge")' =>
          d # c /\ At(d, "charge") /\ requests'[d].order = requests[d].order
    BY <2>2, <1>5 DEF At
  <2>4. ChargedByOne
    BY DEF IInv
  <2>5. \A d \in Clients : At(d, "charge")' => ~orders'[requests'[d].order].prompted
    BY <2>1, <2>3, <2>4, <1>2 DEF ChargedByOne
  <2>6. \A d, e \in Clients :
          At(d, "charge")' /\ At(e, "charge")' /\ requests'[d].order = requests'[e].order => d = e
    BY <2>3, <2>4 DEF ChargedByOne
  <2> QED
    BY <2>5, <2>6 DEF ChargedByOne, At
<1> QED
  BY <1>2, <1>5, <1>6 DEF IInv, Shape

\* What a charge leaves of an order that nobody prompted for.
Prompted(row) == [row EXCEPT !.status = "awaiting_payment", !.prompted = TRUE]

GivenUp(row) ==
    IF row.status \in HOLDING_STATUSES
    THEN [row EXCEPT !.status = "failed", !.held = FALSE, !.lapsed = FALSE] ELSE row

LEMMA ChargeRows ==
    ASSUME IInv, NEW c \in Clients, At(c, "charge")
    PROVE  /\ Charge(c) =>
                /\ orders' = [orders EXCEPT ![requests[c].order] = Prompted(orders[requests[c].order])]
                /\ Prompted(orders[requests[c].order]) \in OrderRow
                /\ Full(Prompted(orders[requests[c].order]))
           /\ ChargeFails(c) =>
                /\ orders' = [orders EXCEPT ![requests[c].order] = GivenUp(orders[requests[c].order])]
                /\ GivenUp(orders[requests[c].order]) \in OrderRow
                /\ Full(GivenUp(orders[requests[c].order]))
           /\ Prompted(orders[requests[c].order]).body = orders[requests[c].order].body
           /\ GivenUp(orders[requests[c].order]).body = orders[requests[c].order].body
           /\ requests[c].order \in OrderIds /\ requests[c] \in RequestRow
           /\ orders[requests[c].order] \in OrderRow
<1> DEFINE o == requests[c].order
<1>1. /\ o \in OrderIds /\ orders[o] \in OrderRow /\ Full(orders[o]) /\ ~orders[o].prompted
      /\ requests[c] \in RequestRow
  BY DEF IInv, Shape, RowsAreFull, OwnOrders, Own, ChargedByOne, At, NoOrder
<1>2. orders[o].held <=> orders[o].status \in HOLDING_STATUSES
  BY <1>1 DEF Full
<1>3. /\ Prompted(orders[o]) \in OrderRow /\ Full(Prompted(orders[o]))
      /\ Prompted(orders[o]).body = orders[o].body
  BY <1>1 DEF Prompted, Full, OrderRow, HOLDING_STATUSES
<1>4. /\ GivenUp(orders[o]) \in OrderRow /\ Full(GivenUp(orders[o]))
      /\ GivenUp(orders[o]).body = orders[o].body
  BY <1>1, <1>2 DEF GivenUp, Full, OrderRow, HOLDING_STATUSES
<1>5. Charge(c) => orders' = [orders EXCEPT ![o] = Prompted(orders[o])]
  BY <1>1 DEF Charge, Prompted, IInv, Shape, OrderRow
<1>6. ChargeFails(c) => orders' = [orders EXCEPT ![o] = GivenUp(orders[o])]
  BY <1>1, <1>2 DEF ChargeFails, Released, GivenUp, IInv, Shape, OrderRow
<1> QED
  BY <1>1, <1>3, <1>4, <1>5, <1>6

LEMMA StepKeeps == IInv /\ [Next]_vars => IInv'
<1> SUFFICES ASSUME IInv, [Next]_vars PROVE IInv'
  OBVIOUS
<1>1. ASSUME NEW c \in Clients, NEW body \in Body, Send(c, body) PROVE IInv'
  BY <1>1, SendStep
<1>2. ASSUME NEW c \in Clients, FindReplay(c) PROVE IInv'
  BY <1>2, ReplayStep, GotoStep DEF FindReplay, At, IInv, OwnOrders, Own
<1>3. ASSUME NEW c \in Clients, assertHoldCapacity(c) PROVE IInv'
  BY <1>3, GotoStep DEF assertHoldCapacity, At, IInv, OwnOrders, Own
<1>4. ASSUME NEW c \in Clients, HoldInventory(c) PROVE IInv'
  BY <1>4, ReplayStep, GotoStep, InsertStep DEF HoldInventory, At
<1>5. ASSUME NEW c \in Clients, Charge(c) PROVE IInv'
  <2>1. At(c, "charge") /\ Goto(c, "answered")
    BY <1>5 DEF Charge
  <2> QED
    BY <1>5, <2>1, ChargeRows, EndOfCharge
<1>6. ASSUME NEW c \in Clients, ChargeFails(c) PROVE IInv'
  <2>1. At(c, "charge") /\ Goto(c, "refused")
    BY <1>6 DEF ChargeFails
  <2> QED
    BY <1>6, <2>1, ChargeRows, EndOfCharge
<1>7. ASSUME NEW c \in Clients, Respond(c), UNCHANGED orders PROVE IInv'
  BY <1>7, RespondStep
<1>8. ASSUME NEW o \in OrderIds, Fate(o) PROVE IInv'
  BY <1>8, FateStep
<1>9. CASE UNCHANGED vars
  BY <1>9 DEF vars, IInv, Shape, RowsAreFull, Full, OwnOrders, Own, ChargedByOne, At
<1> QED
  BY <1>1, <1>2, <1>3, <1>4, <1>5, <1>6, <1>7, <1>8, <1>9 DEF Next, createCheckout

\* Every order is its maker's, and every request that has an order has one of its sender.
THEOREM RequestsInvariant == Spec => []IInv
<1>1. Init => IInv
  BY InitEstablishes
<1>2. IInv /\ [Next]_vars => IInv'
  BY StepKeeps
<1> QED
  BY <1>1, <1>2, PTL DEF Spec

\* Whoever else sends the same Idempotency-Key, the order answered is the sender's own
\* (scopeIdempotencyKey and the unique index behind it).
THEOREM NobodyElsesOrder == Spec => []AnswersAreOwn
<1>1. IInv => AnswersAreOwn
  BY DEF IInv, OwnOrders, Own, AnswersAreOwn, At
<1> QED
  BY <1>1, RequestsInvariant, PTL

-----------------------------------------------------------------------------
(* The promise: what is asked and made follows the requests and the rows. *)

LEMMA NothingMade == Made(NoOrder) = Promise!NotMade
<1>1. ("none" \in HOLDING_STATUSES) = FALSE
  BY DEF HOLDING_STATUSES
<1> QED
  BY <1>1, Zenon DEF Made, NoOrder, Promise!NotMade

\* An order of the same body waits or does not, by its status.
LEMMA OpenOrNot ==
    ASSUME NEW row, NEW old, row.body = old.body
    PROVE  /\ row.status \in HOLDING_STATUSES => Made(row) = [Made(old) EXCEPT !.open = TRUE]
           /\ row.status \notin HOLDING_STATUSES => Made(row) = [Made(old) EXCEPT !.open = FALSE]
<1>1. ASSUME NEW b, NEW p, NEW q
      PROVE  [[body |-> b, open |-> p] EXCEPT !.open = q] = [body |-> b, open |-> q]
  OBVIOUS
<1>2. ASSUME NEW q \in BOOLEAN, (row.status \in HOLDING_STATUSES) = q
      PROVE  Made(row) = [Made(old) EXCEPT !.open = q]
  BY <1>1, <1>2, Zenon DEF Made
<1>3. row.status \in HOLDING_STATUSES => (row.status \in HOLDING_STATUSES) = TRUE
  OBVIOUS
<1>4. row.status \notin HOLDING_STATUSES => (row.status \in HOLDING_STATUSES) = FALSE
  OBVIOUS
<1> QED
  BY <1>2, <1>3, <1>4, Zenon

LEMMA InitPromises == Init => Promise!PromiseInit
<1> SUFFICES ASSUME Init PROVE Promise!PromiseInit
  OBVIOUS
<1>1. asking = [c \in Clients |-> Promise!Nothing]
  BY DEF Init, asking, Progress, IdleRequest, Promise!Nothing
<1>2. made = [o \in OrderIds |-> Promise!NotMade]
  BY NothingMade DEF Init, made
<1> QED
  BY <1>1, <1>2 DEF Promise!PromiseInit

LEMMA AskingFollows ==
    ASSUME NEW c \in Clients, NEW req, requests \in [Clients -> RequestRow],
           requests' = [requests EXCEPT ![c] = req]
    PROVE  asking' = [asking EXCEPT ![c] = Progress(req)]
BY DEF asking

LEMMA MadeFollows ==
    ASSUME NEW o \in OrderIds, NEW row, orders \in [OrderIds -> OrderRow],
           orders' = [orders EXCEPT ![o] = row]
    PROVE  made' = [made EXCEPT ![o] = Made(row)]
BY DEF made

\* A key is known in the promise when the table has it.
LEMMA KnownIsFound ==
    ASSUME IInv, NEW c \in Clients, ~At(c, "idle")
    PROVE  Promise!KnownAs(KeyOf[asking[c].body]) = findByIdempotencyKey(ScopedKey(c))
<1>1. /\ requests[c] \in RequestRow /\ requests[c].body \in Body
      /\ asking[c].body = requests[c].body
  BY DEF IInv, Shape, OwnOrders, Own, At, asking, Progress, RequestRow
<1>2. KeyOf[asking[c].body] = ScopedKey(c)
  BY <1>1 DEF KeyOf, ScopedKey
<1>3. ASSUME NEW o \in OrderIds
      PROVE  /\ orders[o].status # "none" <=> made[o].body # None
             /\ orders[o].status # "none" => KeyOf[made[o].body] = orders[o].key
  <2>1. made[o].body = orders[o].body
    BY DEF made, Made
  <2>2. CASE orders[o] = NoOrder
    BY <2>1, <2>2 DEF NoOrder
  <2>3. CASE Full(orders[o])
    BY <2>1, <2>3, NoneIsNone DEF Full, KeyOf
  <2> QED
    BY <2>2, <2>3 DEF IInv, RowsAreFull
<1> QED
  BY <1>2, <1>3 DEF Promise!KnownAs, findByIdempotencyKey

\* What the caller sees of a request that is being worked on.
LEMMA Seen ==
    ASSUME IInv, NEW c \in Clients
    PROVE  /\ requests[c] \in RequestRow
           /\ asking[c] \in RequestRow \cup {Progress(requests[c])}
           /\ asking[c].order = requests[c].order /\ asking[c].body = requests[c].body
           /\ asking[c].pc = IF requests[c].pc \in {"idle", "answered", "refused"}
                             THEN requests[c].pc ELSE "asked"
           /\ asking \in [Clients -> {Progress(r) : r \in RequestRow}]
           /\ made \in [OrderIds -> {Made(r) : r \in OrderRow}]
BY DEF IInv, Shape, asking, Progress, made, RequestRow

LEMMA SendAsks ==
    ASSUME IInv, NEW c \in Clients, NEW body \in Body, Send(c, body)
    PROVE  Promise!Ask(c, body)
<1> DEFINE req == [pc |-> "find", body |-> body, order |-> None]
<1>1. asking[c].pc = "idle"
  BY Seen DEF Send, At
<1>2. Progress(req) = [pc |-> "asked", body |-> body, order |-> None]
  BY DEF Progress
<1>3. asking' = [asking EXCEPT ![c] = Progress(req)]
  BY AskingFollows DEF Send, IInv, Shape
<1>4. UNCHANGED made
  BY DEF Send, made
<1> QED
  BY <1>1, <1>2, <1>3, <1>4 DEF Promise!Ask

LEMMA ReplayAnswers ==
    ASSUME IInv, NEW c \in Clients, requests[c].pc \in {"find", "hold"}, UNCHANGED orders,
           NEW o \in findByIdempotencyKey(ScopedKey(c)), Replay(c, o)
    PROVE  Promise!Answer(c)
<1> DEFINE req == [requests[c] EXCEPT !.pc = "answered", !.order = o]
<1>1. asking[c].pc = "asked" /\ asking[c] = Progress(requests[c]) /\ requests[c] \in RequestRow
  BY Seen DEF asking
<1>2. o \in Promise!KnownAs(KeyOf[asking[c].body])
  BY KnownIsFound DEF At
<1>3. requests' = [requests EXCEPT ![c] = req]
  BY DEF Replay, IInv, Shape, RequestRow
<1>4. asking' = [asking EXCEPT ![c] = Progress(req)]
  BY <1>3, AskingFollows DEF IInv, Shape
<1>5. Progress(req) = [asking[c] EXCEPT !.pc = "answered", !.order = o]
  BY <1>1 DEF Progress, RequestRow
<1>6. asking' = [asking EXCEPT ![c].pc = "answered", ![c].order = o]
  BY <1>4, <1>5 DEF asking, Progress
<1>7. UNCHANGED made /\ o # None
  BY NoneIsNone DEF made, findByIdempotencyKey
<1> QED
  BY <1>1, <1>2, <1>6, <1>7 DEF Promise!Answer

LEMMA RefusalRefuses ==
    ASSUME IInv, NEW c \in Clients, requests[c].pc \in {"check", "hold"}, UNCHANGED orders,
           Goto(c, "refused")
    PROVE  Promise!Refuse(c)
<1> DEFINE req == [requests[c] EXCEPT !.pc = "refused"]
<1>1. /\ asking[c].pc = "asked" /\ asking[c] = Progress(requests[c]) /\ requests[c] \in RequestRow
      /\ asking[c].order = None
  BY Seen DEF asking, IInv, OwnOrders, Own
<1>2. asking' = [asking EXCEPT ![c] = Progress(req)]
  BY AskingFollows, <1>1 DEF IInv, Shape, Goto, RequestRow
<1>3. Progress(req) = [asking[c] EXCEPT !.pc = "refused"]
  BY <1>1 DEF Progress, RequestRow
<1>4. asking' = [asking EXCEPT ![c].pc = "refused"]
  BY <1>2, <1>3 DEF asking, Progress
<1> QED
  BY <1>1, <1>4 DEF Promise!Refuse, made

\* On to the next await: the caller sees nothing.
LEMMA NextAwait ==
    ASSUME IInv, NEW c \in Clients, requests[c].pc \in {"find", "check"},
           NEW pc \in {"check", "hold"}, Goto(c, pc), UNCHANGED orders
    PROVE  UNCHANGED Promise!promiseVars
<1> DEFINE req == [requests[c] EXCEPT !.pc = pc]
<1>1. asking[c] = Progress(requests[c]) /\ requests[c] \in RequestRow
  BY Seen DEF asking
<1>2. asking' = [asking EXCEPT ![c] = Progress(req)]
  BY AskingFollows, <1>1 DEF IInv, Shape, Goto, RequestRow
<1>3. Progress(req) = asking[c]
  BY <1>1 DEF Progress, RequestRow
<1>4. asking' = asking
  BY <1>2, <1>3 DEF asking
<1> QED
  BY <1>4 DEF Promise!promiseVars, made

LEMMA InsertMakes ==
    ASSUME IInv, NEW c \in Clients, At(c, "hold"), findByIdempotencyKey(ScopedKey(c)) = {},
           NEW o \in OrderIds, orders[o].status = "none",
           orders' = [orders EXCEPT ![o] = NewOrder(c)],
           requests' = [requests EXCEPT ![c].pc = "charge", ![c].order = o]
    PROVE  Promise!Make(c)
<1> DEFINE req == [requests[c] EXCEPT !.pc = "charge", !.order = o]
<1>1. /\ asking[c].pc = "asked" /\ asking[c] = Progress(requests[c]) /\ requests[c] \in RequestRow
      /\ asking[c].order = None /\ asking[c].body = requests[c].body
  BY Seen DEF asking, IInv, OwnOrders, Own, At
<1>2. Promise!KnownAs(KeyOf[asking[c].body]) = {}
  BY KnownIsFound DEF At
<1>3. made[o] = Promise!NotMade
  BY NothingMade DEF IInv, RowsAreFull, Full, made
<1>4. asking' = [asking EXCEPT ![c] = Progress(req)]
  BY AskingFollows, <1>1 DEF IInv, Shape, RequestRow
<1>5. Progress(req) = [asking[c] EXCEPT !.order = o]
  BY <1>1 DEF Progress, RequestRow
<1>6. asking' = [asking EXCEPT ![c].order = o]
  BY <1>4, <1>5 DEF asking, Progress
<1>7. made' = [made EXCEPT ![o] = Made(NewOrder(c))]
  BY MadeFollows, <1>1 DEF IInv, Shape
<1>8. Made(NewOrder(c)) = [body |-> asking[c].body, open |-> TRUE]
  <2>1. ("pending" \in HOLDING_STATUSES) = TRUE
    BY DEF HOLDING_STATUSES
  <2> QED
    BY <2>1, <1>1 DEF Made, NewOrder
<1> QED
  BY <1>1, <1>2, <1>3, <1>6, <1>7, <1>8 DEF Promise!Make

LEMMA ChargeAnswers ==
    ASSUME IInv, NEW c \in Clients, Charge(c) PROVE Promise!Answer(c)
<1> DEFINE req == [requests[c] EXCEPT !.pc = "answered"]
           o == requests[c].order
<1>1. /\ asking[c].pc = "asked" /\ asking[c] = Progress(requests[c]) /\ requests[c] \in RequestRow
      /\ asking[c].order = o /\ asking[c] = [asking[c] EXCEPT !.order = o]
  BY Seen DEF asking, Charge, At, Progress, RequestRow
<1>2. /\ orders' = [orders EXCEPT ![o] = Prompted(orders[o])]
      /\ o \in OrderIds /\ orders[o] \in OrderRow
  BY ChargeRows DEF Charge
<1>3. asking' = [asking EXCEPT ![c] = Progress(req)]
  BY AskingFollows, <1>1 DEF IInv, Shape, RequestRow, Charge, Goto
<1>4. Progress(req) = [asking[c] EXCEPT !.pc = "answered", !.order = o]
  BY <1>1 DEF Progress, RequestRow
<1>5. asking' = [asking EXCEPT ![c].pc = "answered", ![c].order = o]
  BY <1>3, <1>4 DEF asking, Progress
<1>6. made' = [made EXCEPT ![o] = Made(Prompted(orders[o]))]
  BY <1>2, MadeFollows DEF IInv, Shape
<1>7. Made(Prompted(orders[o])) = [made[o] EXCEPT !.open = TRUE]
  <2>1. Prompted(orders[o]).status \in HOLDING_STATUSES /\ Prompted(orders[o]).body = orders[o].body
    BY <1>2 DEF Prompted, OrderRow, HOLDING_STATUSES
  <2> QED
    BY <2>1, <1>2, OpenOrNot DEF made
<1>8. made' = [made EXCEPT ![o].open = TRUE]
  BY <1>6, <1>7, <1>2 DEF made, Made
<1>9. o # None
  BY <1>2, NoneIsNone
<1> QED
  BY <1>1, <1>5, <1>8, <1>9 DEF Promise!Answer

LEMMA FailureRefuses ==
    ASSUME IInv, NEW c \in Clients, ChargeFails(c) PROVE Promise!Refuse(c)
<1> DEFINE req == [requests[c] EXCEPT !.pc = "refused"]
           o == requests[c].order
<1>1. /\ asking[c].pc = "asked" /\ asking[c] = Progress(requests[c]) /\ requests[c] \in RequestRow
      /\ asking[c].order = o
  BY Seen DEF asking, ChargeFails, At
<1>2. /\ orders' = [orders EXCEPT ![o] = GivenUp(orders[o])]
      /\ o \in OrderIds /\ orders[o] \in OrderRow
  BY ChargeRows DEF ChargeFails
<1>3. asking' = [asking EXCEPT ![c] = Progress(req)]
  BY AskingFollows, <1>1 DEF IInv, Shape, RequestRow, ChargeFails, Goto
<1>4. Progress(req) = [asking[c] EXCEPT !.pc = "refused"]
  BY <1>1 DEF Progress, RequestRow
<1>5. asking' = [asking EXCEPT ![c].pc = "refused"]
  BY <1>3, <1>4 DEF asking, Progress
<1>6. made' = [made EXCEPT ![o] = Made(GivenUp(orders[o]))]
  BY <1>2, MadeFollows DEF IInv, Shape
<1>7. Made(GivenUp(orders[o])) = [made[o] EXCEPT !.open = FALSE]
  <2>1. GivenUp(orders[o]).status \notin HOLDING_STATUSES /\ GivenUp(orders[o]).body = orders[o].body
    BY <1>2 DEF GivenUp, OrderRow, HOLDING_STATUSES
  <2> QED
    BY <2>1, <1>2, OpenOrNot DEF made
<1>8. made' = [made EXCEPT ![o].open = FALSE]
  BY <1>6, <1>7, <1>2 DEF made, Made
<1>9. o # None
  BY <1>2, NoneIsNone
<1> QED
  BY <1>1, <1>5, <1>8, <1>9 DEF Promise!Refuse

LEMMA RespondCloses ==
    ASSUME IInv, NEW c \in Clients, Respond(c), UNCHANGED orders
    PROVE  Promise!Close(c) /\ UNCHANGED made
<1>1. asking[c].pc \in {"answered", "refused"}
  BY Seen DEF Respond
<1>2. asking' = [asking EXCEPT ![c] = Progress(IdleRequest)]
  BY AskingFollows DEF IInv, Shape, Respond
<1>3. Progress(IdleRequest) = Promise!Nothing
  BY DEF Progress, IdleRequest, Promise!Nothing
<1> QED
  BY <1>1, <1>2, <1>3 DEF Promise!Close, made

\* An order ends, or goes on waiting.
LEMMA FateEnds ==
    ASSUME IInv, NEW o \in OrderIds, Fate(o)
    PROVE  Promise!Ends(o) \/ UNCHANGED Promise!promiseVars
<1>1. /\ UNCHANGED asking /\ orders[o] \in OrderRow /\ made[o] = Made(orders[o])
      /\ made = [made EXCEPT ![o] = made[o]]
  BY DEF Fate, asking, IInv, Shape, made
<1>2. PICK row \in OrderRow :
        /\ orders' = [orders EXCEPT ![o] = row] /\ Full(row)
        /\ row.body = orders[o].body /\ row.prompted = orders[o].prompted
        /\ row.status = orders[o].status \/ row.status \notin HOLDING_STATUSES
  BY FateRow
<1>3. made' = [made EXCEPT ![o] = Made(row)]
  BY <1>2, MadeFollows DEF IInv, Shape
<1>4. CASE row.status = orders[o].status
  <2>1. Made(row) = made[o]
    BY <1>1, <1>2, <1>4, Zenon DEF Made
  <2> QED
    BY <1>1, <1>3, <2>1 DEF Promise!promiseVars
<1>5. CASE row.status \notin HOLDING_STATUSES
  <2>1. Made(row) = [made[o] EXCEPT !.open = FALSE]
    BY <1>1, <1>2, <1>5, OpenOrNot
  <2>2. made' = [made EXCEPT ![o].open = FALSE]
    BY <1>3, <2>1 DEF made, Made
  <2>3. CASE made[o].open
    BY <1>1, <2>2, <2>3 DEF Promise!Ends
  <2>4. CASE ~made[o].open
    <3>1. ASSUME NEW b, NEW p PROVE [body |-> b, open |-> p].open = p
      OBVIOUS
    <3>2. Made(orders[o]).open = (orders[o].status \in HOLDING_STATUSES)
      BY <3>1, Zenon DEF Made
    <3>3. orders[o].status \notin HOLDING_STATUSES
      BY <1>1, <2>4, <3>2, Zenon
    <3>4. Made(orders[o]) = [Made(orders[o]) EXCEPT !.open = FALSE]
      BY <3>3, OpenOrNot, Zenon
    <3>5. Made(row) = made[o]
      BY <1>1, <2>1, <3>4, Zenon
    <3> QED
      BY <1>1, <1>3, <3>5 DEF Promise!promiseVars
  <2> QED
    BY <2>3, <2>4
<1> QED
  BY <1>2, <1>4, <1>5

LEMMA StepPromises == IInv /\ [Next]_vars => [Promise!PromiseNext]_(Promise!promiseVars)
<1> SUFFICES ASSUME IInv, [Next]_vars PROVE [Promise!PromiseNext]_(Promise!promiseVars)
  OBVIOUS
<1>1. ASSUME NEW c \in Clients, NEW body \in Body, Send(c, body) PROVE Promise!PromiseNext
  BY <1>1, SendAsks DEF Promise!PromiseNext
<1>2. ASSUME NEW c \in Clients, FindReplay(c)
      PROVE  Promise!PromiseNext \/ UNCHANGED Promise!promiseVars
  <2>1. requests[c].pc = "find" /\ UNCHANGED orders
    BY <1>2 DEF FindReplay, At
  <2>2. CASE \E o \in findByIdempotencyKey(ScopedKey(c)) : Replay(c, o)
    BY <2>1, <2>2, ReplayAnswers DEF Promise!PromiseNext
  <2>3. CASE Goto(c, "check")
    BY <2>1, <2>3, NextAwait
  <2> QED
    BY <1>2, <2>2, <2>3 DEF FindReplay
<1>3. ASSUME NEW c \in Clients, assertHoldCapacity(c)
      PROVE  Promise!PromiseNext \/ UNCHANGED Promise!promiseVars
  <2>1. requests[c].pc = "check" /\ UNCHANGED orders
    BY <1>3 DEF assertHoldCapacity, At
  <2>2. CASE Goto(c, "refused")
    BY <2>1, <2>2, RefusalRefuses DEF Promise!PromiseNext
  <2>3. CASE Goto(c, "hold")
    BY <2>1, <2>3, NextAwait
  <2> QED
    BY <1>3, <2>2, <2>3 DEF assertHoldCapacity
<1>4. ASSUME NEW c \in Clients, HoldInventory(c) PROVE Promise!PromiseNext
  <2>1. At(c, "hold") /\ requests[c].pc = "hold"
    BY <1>4 DEF HoldInventory, At
  <2>2. CASE Goto(c, "refused") /\ UNCHANGED orders
    BY <2>1, <2>2, RefusalRefuses DEF Promise!PromiseNext
  <2>3. CASE (\E o \in findByIdempotencyKey(ScopedKey(c)) : Replay(c, o)) /\ UNCHANGED orders
    BY <2>1, <2>3, ReplayAnswers DEF Promise!PromiseNext
  <2>4. CASE /\ findByIdempotencyKey(ScopedKey(c)) = {}
             /\ \E o \in OrderIds :
                  /\ orders[o].status = "none"
                  /\ orders' = [orders EXCEPT ![o] = NewOrder(c)]
                  /\ requests' = [requests EXCEPT ![c].pc = "charge", ![c].order = o]
    BY <2>1, <2>4, InsertMakes DEF Promise!PromiseNext
  <2> QED
    BY <1>4, <2>2, <2>3, <2>4 DEF HoldInventory
<1>5. ASSUME NEW c \in Clients, Charge(c) \/ ChargeFails(c) PROVE Promise!PromiseNext
  BY <1>5, ChargeAnswers, FailureRefuses DEF Promise!PromiseNext
<1>6. ASSUME NEW c \in Clients, Respond(c), UNCHANGED orders PROVE Promise!PromiseNext
  BY <1>6, RespondCloses DEF Promise!PromiseNext
<1>7. ASSUME NEW o \in OrderIds, Fate(o)
      PROVE  Promise!PromiseNext \/ UNCHANGED Promise!promiseVars
  BY <1>7, FateEnds DEF Promise!PromiseNext
<1>8. CASE UNCHANGED vars
  BY <1>8 DEF vars, Promise!promiseVars, asking, made
<1> QED
  BY <1>1, <1>2, <1>3, <1>4, <1>5, <1>6, <1>7, <1>8 DEF Next, createCheckout

\* The handlers of checkout.service.ts keep the promise of CheckoutPromise: requests with
\* one key of one buyer come to one order, however they interleave.
THEOREM OneOrderAKey == Spec => KeepsPromise
<1>1. Init => Promise!PromiseInit
  BY InitPromises
<1>2. IInv /\ [Next]_vars => [Promise!PromiseNext]_(Promise!promiseVars)
  BY StepPromises
<1> QED
  BY <1>1, <1>2, RequestsInvariant, PTL DEF Spec, KeepsPromise, Promise!PromiseSpec

-----------------------------------------------------------------------------
(* The cap. *)

LEMMA HoldersAreFinite ==
    ASSUME NEW p
    PROVE  /\ IsFiniteSet(ActiveHolds(p)) /\ Cardinality(ActiveHolds(p)) \in Nat
           /\ IsFiniteSet(AboutToHold(p)) /\ Cardinality(AboutToHold(p)) \in Nat
           /\ Cardinality(AboutToHold(p)) <= Cardinality(Clients) /\ Cardinality(Clients) \in Nat
<1>1. ActiveHolds(p) \subseteq OrderIds /\ AboutToHold(p) \subseteq Clients
  BY DEF ActiveHolds, AboutToHold
<1> QED
  BY <1>1, ClientsFinite, OrdersFinite, FS_Subset, FS_CardinalityType

LEMMA InitWithinCap == Init => CapNearlyKept
<1> SUFFICES ASSUME Init, NEW p \in Phones
             PROVE  Cardinality(ActiveHolds(p)) + Cardinality(AboutToHold(p))
                      <= MAX_ACTIVE_HOLDS_PER_PHONE - 1 + Cardinality(Clients)
  BY DEF CapNearlyKept
<1>1. ActiveHolds(p) = {} /\ AboutToHold(p) = {}
  BY DEF Init, ActiveHolds, AboutToHold, NoOrder, IdleRequest, At
<1> QED
  BY <1>1, FS_EmptySet, CapIsPositive, HoldersAreFinite

\* A step that adds neither a hold nor a request about to hold, for this phone.
LEMMA CapStays ==
    ASSUME NEW p \in Phones, CapNearlyKept,
           ActiveHolds(p)' \subseteq ActiveHolds(p), AboutToHold(p)' \subseteq AboutToHold(p)
    PROVE  Cardinality(ActiveHolds(p)') + Cardinality(AboutToHold(p)')
             <= MAX_ACTIVE_HOLDS_PER_PHONE - 1 + Cardinality(Clients)
<1>1. /\ Cardinality(ActiveHolds(p)') <= Cardinality(ActiveHolds(p))
      /\ Cardinality(AboutToHold(p)') <= Cardinality(AboutToHold(p))
      /\ Cardinality(ActiveHolds(p)') \in Nat /\ Cardinality(AboutToHold(p)') \in Nat
  BY HoldersAreFinite, FS_Subset, FS_CardinalityType
<1> QED
  BY <1>1, HoldersAreFinite, CapIsPositive DEF CapNearlyKept

\* The check leaves room for one; the request that passes is counted from here on.
LEMMA CheckWithinCap ==
    ASSUME IInv, CapNearlyKept, NEW c \in Clients, assertHoldCapacity(c), NEW p \in Phones
    PROVE  Cardinality(ActiveHolds(p)') + Cardinality(AboutToHold(p)')
             <= MAX_ACTIVE_HOLDS_PER_PHONE - 1 + Cardinality(Clients)
<1>1. ActiveHolds(p)' = ActiveHolds(p) /\ requests[c] \in RequestRow
  BY DEF assertHoldCapacity, ActiveHolds, IInv, Shape
<1>2. CASE Goto(c, "hold") /\ requests[c].body.phone = p
  <2>1. Cardinality(ActiveHolds(p)) < MAX_ACTIVE_HOLDS_PER_PHONE
    <3>1. requests'[c].pc = "hold"
      BY <1>1, <1>2 DEF Goto, IInv, Shape, RequestRow
    <3>2. ~Goto(c, "refused")
      BY <3>1, <1>1 DEF Goto, IInv, Shape, RequestRow
    <3> QED
      BY <1>2, <3>2 DEF assertHoldCapacity
  <2>2. Cardinality(AboutToHold(p)') <= Cardinality(Clients) /\ Cardinality(AboutToHold(p)') \in Nat
    <3>1. AboutToHold(p)' \subseteq Clients
      BY DEF AboutToHold
    <3> QED
      BY <3>1, ClientsFinite, FS_Subset, FS_CardinalityType
  <2> QED
    BY <1>1, <2>1, <2>2, HoldersAreFinite, CapIsPositive
<1>3. CASE ~(Goto(c, "hold") /\ requests[c].body.phone = p)
  <2>1. AboutToHold(p)' \subseteq AboutToHold(p)
    BY <1>1, <1>3 DEF assertHoldCapacity, Goto, AboutToHold, At, IInv, Shape, RequestRow
  <2> QED
    BY <1>1, <2>1, CapStays
<1> QED
  BY <1>2, <1>3

\* The insert turns a request about to hold into a hold.
LEMMA InsertWithinCap ==
    ASSUME IInv, CapNearlyKept, NEW c \in Clients, At(c, "hold"),
           NEW o \in OrderIds, orders[o].status = "none",
           orders' = [orders EXCEPT ![o] = NewOrder(c)],
           requests' = [requests EXCEPT ![c].pc = "charge", ![c].order = o],
           NEW p \in Phones
    PROVE  Cardinality(ActiveHolds(p)') + Cardinality(AboutToHold(p)')
             <= MAX_ACTIVE_HOLDS_PER_PHONE - 1 + Cardinality(Clients)
<1>1. AboutToHold(p)' = AboutToHold(p) \ {c}
  BY DEF AboutToHold, At, IInv, Shape, RequestRow
<1>2. CASE requests[c].body.phone = p
  <2>1. c \in AboutToHold(p)
    BY <1>2 DEF AboutToHold
  <2>2. ActiveHolds(p)' \subseteq ActiveHolds(p) \cup {o}
    BY DEF ActiveHolds, IInv, Shape
  <2>3. /\ Cardinality(AboutToHold(p)') = Cardinality(AboutToHold(p)) - 1
        /\ Cardinality(AboutToHold(p)') \in Nat
    BY <1>1, <2>1, HoldersAreFinite, FS_RemoveElement, FS_CardinalityType
  <2>4. /\ Cardinality(ActiveHolds(p)') <= Cardinality(ActiveHolds(p)) + 1
        /\ Cardinality(ActiveHolds(p)') \in Nat
    <3>1. /\ IsFiniteSet(ActiveHolds(p) \cup {o})
          /\ Cardinality(ActiveHolds(p) \cup {o}) <= Cardinality(ActiveHolds(p)) + 1
          /\ Cardinality(ActiveHolds(p) \cup {o}) \in Nat
      <4>1. IsFiniteSet(ActiveHolds(p)) /\ Cardinality(ActiveHolds(p)) \in Nat
        BY HoldersAreFinite
      <4>2. /\ IsFiniteSet(ActiveHolds(p) \cup {o})
            /\ Cardinality(ActiveHolds(p) \cup {o}) =
                 IF o \in ActiveHolds(p) THEN Cardinality(ActiveHolds(p))
                 ELSE Cardinality(ActiveHolds(p)) + 1
        BY <4>1, FS_AddElement
      <4> QED
        BY <4>1, <4>2
    <3>2. /\ Cardinality(ActiveHolds(p)') <= Cardinality(ActiveHolds(p) \cup {o})
          /\ Cardinality(ActiveHolds(p)') \in Nat
      BY <2>2, <3>1, FS_Subset, FS_CardinalityType
    <3> QED
      BY <3>1, <3>2, HoldersAreFinite
  <2> QED
    BY <2>3, <2>4, HoldersAreFinite, CapIsPositive DEF CapNearlyKept
<1>3. CASE requests[c].body.phone # p
  <2>1. ActiveHolds(p)' \subseteq ActiveHolds(p)
    BY <1>3 DEF ActiveHolds, NewOrder, IInv, Shape
  <2> QED
    BY <1>1, <2>1, CapStays
<1> QED
  BY <1>2, <1>3

LEMMA StepWithinCap == IInv /\ CapNearlyKept /\ [Next]_vars => CapNearlyKept'
<1> SUFFICES ASSUME IInv, CapNearlyKept, [Next]_vars, NEW p \in Phones
             PROVE  Cardinality(ActiveHolds(p)') + Cardinality(AboutToHold(p)')
                      <= MAX_ACTIVE_HOLDS_PER_PHONE - 1 + Cardinality(Clients)
  BY DEF CapNearlyKept, ActiveHolds, AboutToHold
<1> DEFINE Fewer == /\ ActiveHolds(p)' \subseteq ActiveHolds(p)
                    /\ AboutToHold(p)' \subseteq AboutToHold(p)
<1>1. ASSUME NEW c \in Clients, NEW body \in Body, Send(c, body) PROVE Fewer
  BY <1>1 DEF Send, ActiveHolds, AboutToHold, At, IInv, Shape
<1>2. ASSUME NEW c \in Clients, FindReplay(c) PROVE Fewer
  BY <1>2 DEF FindReplay, Replay, Goto, ActiveHolds, AboutToHold, At, IInv, Shape, RequestRow
<1>3. ASSUME NEW c \in Clients, assertHoldCapacity(c)
      PROVE  Cardinality(ActiveHolds(p)') + Cardinality(AboutToHold(p)')
               <= MAX_ACTIVE_HOLDS_PER_PHONE - 1 + Cardinality(Clients)
  BY <1>3, CheckWithinCap
<1>4. ASSUME NEW c \in Clients, HoldInventory(c)
      PROVE  Cardinality(ActiveHolds(p)') + Cardinality(AboutToHold(p)')
               <= MAX_ACTIVE_HOLDS_PER_PHONE - 1 + Cardinality(Clients)
  <2>1. CASE UNCHANGED orders
    <3>1. Fewer
      BY <1>4, <2>1
         DEF HoldInventory, Replay, Goto, ActiveHolds, AboutToHold, At, IInv, Shape, RequestRow, NewOrder
    <3> QED
      BY <3>1, CapStays
  <2>2. CASE orders' # orders
    BY <1>4, <2>2, InsertWithinCap DEF HoldInventory
  <2> QED
    BY <2>1, <2>2
<1>5. ASSUME NEW c \in Clients, Charge(c) \/ ChargeFails(c) PROVE Fewer
  <2>1. /\ AboutToHold(p)' \subseteq AboutToHold(p)
        /\ requests[c].order \in OrderIds
    BY <1>5, ChargeRows DEF Charge, ChargeFails, Goto, AboutToHold, At, IInv, Shape, RequestRow
  <2>2. \A x \in OrderIds : /\ orders'[x].held => orders[x].held
                            /\ orders'[x].body = orders[x].body
    BY <1>5, <2>1 DEF Charge, ChargeFails, Released, IInv, Shape, OrderRow
  <2> QED
    BY <2>1, <2>2 DEF ActiveHolds
<1>6. ASSUME NEW c \in Clients, Respond(c), UNCHANGED orders PROVE Fewer
  BY <1>6 DEF Respond, ActiveHolds, AboutToHold, At, IInv, Shape, IdleRequest
<1>7. ASSUME NEW o \in OrderIds, Fate(o) PROVE Fewer
  <2>1. \A x \in OrderIds : /\ orders'[x].held => orders[x].held
                            /\ orders'[x].body = orders[x].body
    BY <1>7 DEF Fate, Lapse, Release, Released, Pay, IInv, Shape, OrderRow
  <2> QED
    BY <1>7, <2>1 DEF Fate, ActiveHolds, AboutToHold, At
<1>8. CASE UNCHANGED vars
  BY <1>8, CapStays DEF vars, ActiveHolds, AboutToHold, At
<1> QED
  BY <1>1, <1>2, <1>3, <1>4, <1>5, <1>6, <1>7, <1>8, CapStays DEF Next, createCheckout

\* However many checkouts of one phone are in progress together, the holds it keeps exceed
\* the cap of assertHoldCapacity by one less than there are of them at most.
THEOREM CapIsNearlyKept == Spec => []HoldsBounded
<1>1. Init => CapNearlyKept
  BY InitWithinCap
<1>2. IInv /\ CapNearlyKept /\ [Next]_vars => CapNearlyKept'
  BY StepWithinCap
<1>3. CapNearlyKept => HoldsBounded
  <2> SUFFICES ASSUME CapNearlyKept, NEW p \in Phones
               PROVE  Cardinality(ActiveHolds(p))
                        <= MAX_ACTIVE_HOLDS_PER_PHONE - 1 + Cardinality(Clients)
    BY DEF HoldsBounded, ActiveHolds
  <2> QED
    BY HoldersAreFinite, CapIsPositive DEF CapNearlyKept
<1> QED
  BY <1>1, <1>2, <1>3, RequestsInvariant, PTL DEF Spec
=============================================================================
