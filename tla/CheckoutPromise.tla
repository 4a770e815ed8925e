--------------------------- MODULE CheckoutPromise ---------------------------
(***************************************************************************)
(* What the checkout endpoint promises those who call it: requests with    *)
(* one key of one buyer come to one order, however many there are, in      *)
(* whatever order they arrive and whichever of their answers are lost; a   *)
(* request without a key makes an order of its own.                        *)
(***************************************************************************)
EXTENDS Naturals

CONSTANTS
    Clients,      \* connections: requests in progress at the same time
    OrderIds,
    Bodies,       \* what a request may say
    None,         \* no key, no order
    KeyOf         \* [Bodies -> the key its order is kept under, or None]

VARIABLES
    asking,       \* [Clients -> the request and how far it is]
    made          \* [OrderIds -> the body it was made for, and whether it still waits]

promiseVars == <<asking, made>>

Nothing == [pc |-> "idle", body |-> None, order |-> None]
NotMade == [body |-> None, open |-> FALSE]

PromiseInit ==
    /\ asking = [c \in Clients |-> Nothing]
    /\ made = [o \in OrderIds |-> NotMade]

\* The orders that requests with this key have come to.
KnownAs(key) == {o \in OrderIds : key # None /\ made[o].body # None /\ KeyOf[made[o].body] = key}

Ask(c, body) ==
    /\ asking[c].pc = "idle"
    /\ asking' = [asking EXCEPT ![c] = [pc |-> "asked", body |-> body, order |-> None]]
    /\ UNCHANGED made

Make(c) ==
    /\ asking[c].pc = "asked" /\ asking[c].order = None
    /\ KnownAs(KeyOf[asking[c].body]) = {}
    /\ \E o \in OrderIds :
         /\ made[o] = NotMade
         /\ made' = [made EXCEPT ![o] = [body |-> asking[c].body, open |-> TRUE]]
         /\ asking' = [asking EXCEPT ![c].order = o]

\* The order that it made, or that its key stands for.
Answer(c) ==
    /\ asking[c].pc = "asked"
    /\ \E o \in {asking[c].order} \cup KnownAs(KeyOf[asking[c].body]) :
         /\ o # None
         /\ asking' = [asking EXCEPT ![c].pc = "answered", ![c].order = o]
         /\ \/ asking[c].order = o /\ made' = [made EXCEPT ![o].open = TRUE]
            \/ UNCHANGED made

\* Turned away; an order it had made is over.
Refuse(c) ==
    /\ asking[c].pc = "asked"
    /\ asking' = [asking EXCEPT ![c].pc = "refused"]
    /\ made' = IF asking[c].order = None THEN made
               ELSE [made EXCEPT ![asking[c].order].open = FALSE]

Close(c) ==
    /\ asking[c].pc \in {"answered", "refused"}
    /\ asking' = [asking EXCEPT ![c] = Nothing]

Ends(o) ==
    /\ made[o].open
    /\ made' = [made EXCEPT ![o].open = FALSE]
    /\ UNCHANGED asking

PromiseNext ==
    \/ \E c \in Clients :
         \/ \E body \in Bodies : Ask(c, body)
         \/ Make(c) \/ Answer(c) \/ Refuse(c)
         \/ Close(c) /\ UNCHANGED made
    \/ \E o \in OrderIds : Ends(o)

PromiseSpec == PromiseInit /\ [][PromiseNext]_promiseVars
=============================================================================
