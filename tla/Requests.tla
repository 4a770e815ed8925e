------------------------------ MODULE Requests ------------------------------
(***************************************************************************)
(* Checkout requests on the server (checkout.service.ts), several at once: *)
(* the idempotency key that makes a retry find the first order, and the    *)
(* cap on the holds of one phone.  Each await of createCheckout is a step. *)
(* Seats are Inventory's and payments Settlement's: here a basket finds    *)
(* room or does not, and an order may end in any way those modules allow.  *)
(***************************************************************************)
EXTENDS Naturals, FiniteSets

CONSTANTS
    Clients,      \* connections: requests in progress at the same time
    OrderIds,
    Emails,       \* who asks: the account, or a guest's email
    Phones,
    Baskets,
    Keys,         \* Idempotency-Key headers
    None,         \* no header, no order
    MAX_ACTIVE_HOLDS_PER_PHONE

ASSUME ClientsFinite == IsFiniteSet(Clients)
ASSUME OrdersFinite == IsFiniteSet(OrderIds)
ASSUME CapIsPositive == MAX_ACTIVE_HOLDS_PER_PHONE \in Nat \ {0}

VARIABLES
    requests,     \* [Clients -> the request worked on and its next await]
    orders        \* [OrderIds -> the orders row], status "none": no row;
                  \* lapsed is kept for an order that holds

vars == <<requests, orders>>

Body == [key : Keys \cup {None}, email : Emails, phone : Phones, basket : Baskets]

ASSUME NoneIsNone == None \notin OrderIds \cup Keys \cup Emails \cup Body

HOLDING_STATUSES == {"pending", "awaiting_payment"}

NoOrder == [key |-> None, body |-> None, status |-> "none",
            held |-> FALSE, lapsed |-> FALSE, prompted |-> FALSE]

IdleRequest == [pc |-> "idle", body |-> None, order |-> None]

Init ==
    /\ requests = [c \in Clients |-> IdleRequest]
    /\ orders = [o \in OrderIds |-> NoOrder]

-----------------------------------------------------------------------------
\* Mutation: the stored key is the header alone.
scopeByKeyOnly(key, email) == IF key = None THEN None ELSE <<key, None>>

\* The stored key is a digest of the header and of who sent it.
scopeIdempotencyKey(key, email) == IF key = None THEN None ELSE <<key, email>>

ScopedKey(c) == scopeIdempotencyKey(requests[c].body.key, requests[c].body.email)

\* At most one, by the unique index.
findByIdempotencyKey(key) ==
    {o \in OrderIds : key # None /\ orders[o].status # "none" /\ orders[o].key = key}

\* Mutation: a hold counts until its time is up, not until its seats are back.
ActiveUntilLapsed(phone) ==
    {o \in OrderIds : orders[o].held /\ orders[o].body.phone = phone /\ ~orders[o].lapsed}

\* The orders of a phone that still keep seats from others.
ActiveHolds(phone) == {o \in OrderIds : orders[o].held /\ orders[o].body.phone = phone}

-----------------------------------------------------------------------------
(* createCheckout, await by await. *)

At(c, pc) == requests[c].pc = pc

Goto(c, pc) == requests' = [requests EXCEPT ![c].pc = pc]

\* buildReplayResult: whatever became of that order since.
Replay(c, o) == requests' = [requests EXCEPT ![c].pc = "answered", ![c].order = o]

Send(c, body) ==
    /\ At(c, "idle")
    /\ requests' = [requests EXCEPT ![c] = [pc |-> "find", body |-> body, order |-> None]]
    /\ UNCHANGED orders

\* The fast path.
FindReplay(c) ==
    /\ At(c, "find")
    /\ \/ \E o \in findByIdempotencyKey(ScopedKey(c)) : Replay(c, o)
       \/ findByIdempotencyKey(ScopedKey(c)) = {} /\ Goto(c, "check")
    /\ UNCHANGED orders

\* The event is looked up (it may be off sale) and the phone's holds counted.
assertHoldCapacity(c) ==
    /\ At(c, "check")
    /\ \/ Goto(c, "refused")
       \/ /\ Cardinality(ActiveHolds(requests[c].body.phone)) < MAX_ACTIVE_HOLDS_PER_PHONE
          /\ Goto(c, "hold")
    /\ UNCHANGED orders

NewOrder(c) ==
    [key |-> ScopedKey(c), body |-> requests[c].body, status |-> "pending",
     held |-> TRUE, lapsed |-> FALSE, prompted |-> FALSE]

\* Mutation: no index makes the keys unique.
HoldInventoryUnindexed(c) ==
    /\ At(c, "hold")
    /\ \/ Goto(c, "refused") /\ UNCHANGED orders
       \/ \E o \in OrderIds :
            /\ orders[o].status = "none"
            /\ orders' = [orders EXCEPT ![o] = NewOrder(c)]
            /\ requests' = [requests EXCEPT ![c].pc = "charge", ![c].order = o]

\* The transaction that reserves and inserts; the unique index turns away the
\* loser of a race, whose reservation rolls back, and who reads the winner's.
HoldInventory(c) ==
    /\ At(c, "hold")
    /\ \/ Goto(c, "refused") /\ UNCHANGED orders
       \/ /\ \E o \in findByIdempotencyKey(ScopedKey(c)) : Replay(c, o)
          /\ UNCHANGED orders
       \/ /\ findByIdempotencyKey(ScopedKey(c)) = {}
          /\ \E o \in OrderIds :
               /\ orders[o].status = "none"
               /\ orders' = [orders EXCEPT ![o] = NewOrder(c)]
               /\ requests' = [requests EXCEPT ![c].pc = "charge", ![c].order = o]

\* releaseOrder: an order that holds nothing is left as it is.
Released(o, to) ==
    IF orders[o].status \in HOLDING_STATUSES /\ orders[o].held
    THEN [orders EXCEPT ![o].status = to, ![o].held = FALSE, ![o].lapsed = FALSE]
    ELSE orders

\* The push was accepted and the payments row written; the status is set
\* whatever it is by now.
Charge(c) ==
    /\ At(c, "charge")
    /\ orders' = [orders EXCEPT ![requests[c].order].status = "awaiting_payment",
                                ![requests[c].order].prompted = TRUE]
    /\ Goto(c, "answered")

\* The push failed: the seats go back and the client is told to try again.
ChargeFails(c) ==
    /\ At(c, "charge")
    /\ orders' = Released(requests[c].order, "failed")
    /\ Goto(c, "refused")

createCheckout(c) ==
    FindReplay(c) \/ assertHoldCapacity(c) \/ HoldInventory(c) \/ Charge(c) \/ ChargeFails(c)

\* The response leaves; whether it arrives is the client's affair.
Respond(c) ==
    /\ requests[c].pc \in {"answered", "refused"}
    /\ requests' = [requests EXCEPT ![c] = IdleRequest]

-----------------------------------------------------------------------------
(* What becomes of an order. *)

Lapse(o) ==
    /\ orders[o].held /\ ~orders[o].lapsed
    /\ orders' = [orders EXCEPT ![o].lapsed = TRUE]

\* The sweep; cancelOrder, for anybody who knows the reference; a payment that failed.
Release(o) ==
    \E to \in {"expired", "cancelled", "failed"} :
        /\ orders[o].status \in HOLDING_STATUSES /\ orders[o].held
        /\ to = "expired" => orders[o].lapsed
        /\ to = "failed" => orders[o].prompted
        /\ orders' = Released(o, to)

\* commitOrder, in time or late.
Pay(o) ==
    /\ orders[o].prompted /\ orders[o].status # "paid"
    /\ orders' = [orders EXCEPT ![o].status = "paid", ![o].held = FALSE, ![o].lapsed = FALSE]

Fate(o) == (Lapse(o) \/ Release(o) \/ Pay(o)) /\ UNCHANGED requests

Next ==
    \/ \E c \in Clients :
         \/ \E body \in Body : Send(c, body)
         \/ createCheckout(c)
         \/ Respond(c) /\ UNCHANGED orders
    \/ \E o \in OrderIds : Fate(o)

Spec == Init /\ [][Next]_vars

-----------------------------------------------------------------------------
\* What the caller can tell of a request and of an order.
Progress(request) ==
    [request EXCEPT !.pc = IF @ \in {"idle", "answered", "refused"} THEN @ ELSE "asked"]

Made(row) == [body |-> row.body, open |-> row.status \in HOLDING_STATUSES]

KeyOf == [body \in Body |-> scopeIdempotencyKey(body.key, body.email)]

asking == [c \in Clients |-> Progress(requests[c])]

made == [o \in OrderIds |-> Made(orders[o])]

\* Requests with one key of one buyer come to one order; see CheckoutPromise.
Promise == INSTANCE CheckoutPromise WITH Bodies <- Body

KeepsPromise == Promise!PromiseSpec

\* A request is answered with an order of the person who sent it, whoever else
\* chose the same key: its reference is all anyone needs to read that order.
AnswersAreOwn ==
    \A c \in Clients :
        At(c, "answered") => orders[requests[c].order].body.email = requests[c].body.email

\* The cap is checked before the order that counts exists, so requests in
\* progress together may pass it together, but no more than that.
HoldsBounded ==
    \A p \in Phones :
        Cardinality({o \in OrderIds : orders[o].held /\ orders[o].body.phone = p})
            <= MAX_ACTIVE_HOLDS_PER_PHONE - 1 + Cardinality(Clients)
=============================================================================
