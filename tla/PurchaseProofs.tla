--------------------------- MODULE PurchaseProofs ---------------------------
(***************************************************************************)
(* For any number of addresses, connections and choices: a request asks    *)
(* for what the price on the screen was for, one choice is held once, and  *)
(* the pages ask of the server only what CheckoutPromise lets them.        *)
(***************************************************************************)
EXTENDS Purchase, TLAPS

-----------------------------------------------------------------------------
(* The inductive invariant. *)

\* What a request of these pages says.
Sent == {body \in Bodies : body.key = <<body.basket, 0>>}

Request == [pc : {"idle", "asked", "answered", "refused"}, body : Sent \cup {None},
            order : OrderIds \cup {None}]
Order == [body : Sent \cup {None}, open : BOOLEAN]

Held(o) == made[o].body # None

PromiseTypeOK == asking \in [Clients -> Request] /\ made \in [OrderIds -> Order]

\* A request that is not idle has a body, and an order it names was made.
RequestsMade ==
    /\ \A c \in Clients : asking[c].pc # "idle" => asking[c].body # None
    /\ \A c \in Clients : asking[c].order # None => Held(asking[c].order)
    /\ \A o \in OrderIds : made[o].open => Held(o)

\* The orders of one key are one.
OneOrderAKey ==
    \A o, p \in OrderIds :
        Held(o) /\ Held(p) /\ KeyOf[made[o].body] = KeyOf[made[p].body] => o = p

PromiseInv == PromiseTypeOK /\ RequestsMade /\ OneOrderAKey

PriceKey == [basket : Baskets, buyer : Buyer \cup {None}]
Price == [key : PriceKey, pricedFor : PriceKey, chargeable : BOOLEAN]

Page == [screen : {"event", "order"}, basket : Baskets, own : Buyer \cup {None},
         modal : Buyer \cup {None}, confirmOpen : BOOLEAN, preview : Price \cup {None},
         working : {None, "preview", "paying"}]

\* The dialog charges somebody, and a price is shown for what it was asked for.
PageOK(p) ==
    /\ p \in Page
    /\ p.confirmOpen => p.modal \in Buyer
    /\ ~p.confirmOpen => p.modal = p.own
    /\ p.preview # None => p.preview \in Price /\ p.preview.pricedFor = p.preview.key

ConfirmedOK == confirmed \in [Clients -> PriceKey \cup {None}] /\ ConfirmedAsShown

IInv == PromiseInv /\ PageOK(page) /\ asked \subseteq PriceKey /\ ConfirmedOK

-----------------------------------------------------------------------------
(* Requests and orders. *)

LEMMA SentBodies ==
    ASSUME NEW body \in Sent
    PROVE  body \in Bodies /\ body # None /\ KeyOf[body] # None
BY NoneIsNothing, KeysAreScoped DEF Sent

\* What was asked for stays with the request.
BodiesStay == \A c \in Clients : asking'[c].body = asking[c].body

LEMMA AskStep ==
    ASSUME PromiseInv, NEW c \in Clients, NEW body \in Sent, Ask(c, body)
    PROVE  /\ PromiseInv' /\ asking'[c].body = body
           /\ \A d \in Clients \ {c} : asking'[d] = asking[d]
<1>1. body # None
  BY SentBodies
<1>2. /\ asking' \in [Clients -> Request] /\ made' = made
      /\ \A d \in Clients \ {c} : asking'[d] = asking[d]
      /\ asking'[c].body = body /\ asking'[c].order = None
  BY DEF PromiseInv, PromiseTypeOK, Request, Ask
<1>3. PromiseTypeOK'
  BY <1>2 DEF PromiseInv, PromiseTypeOK
<1>4. RequestsMade'
  BY <1>1, <1>2 DEF PromiseInv, RequestsMade, Held
<1>5. OneOrderAKey'
  BY <1>2 DEF PromiseInv, OneOrderAKey, Held
<1> QED
  BY <1>2, <1>3, <1>4, <1>5 DEF PromiseInv

LEMMA CloseStep ==
    ASSUME PromiseInv, NEW c \in Clients, Close(c), UNCHANGED made
    PROVE  PromiseInv' /\ \A d \in Clients \ {c} : asking'[d] = asking[d]
<1>1. /\ asking' \in [Clients -> Request]
      /\ \A d \in Clients \ {c} : asking'[d] = asking[d]
      /\ asking'[c].pc = "idle" /\ asking'[c].order = None
  BY DEF PromiseInv, PromiseTypeOK, Request, Close, Nothing
<1>2. PromiseTypeOK'
  BY <1>1 DEF PromiseInv, PromiseTypeOK
<1>3. RequestsMade'
  BY <1>1 DEF PromiseInv, RequestsMade, Held
<1>4. OneOrderAKey'
  BY <1>1 DEF PromiseInv, OneOrderAKey, Held
<1> QED
  BY <1>1, <1>2, <1>3, <1>4 DEF PromiseInv

LEMMA MakeStep ==
    ASSUME PromiseInv, NEW c \in Clients, Make(c)
    PROVE  PromiseInv' /\ BodiesStay
<1>1. PICK o \in OrderIds :
        /\ made[o] = NotMade
        /\ made' = [made EXCEPT ![o] = [body |-> asking[c].body, open |-> TRUE]]
        /\ asking' = [asking EXCEPT ![c].order = o]
  BY DEF Make
<1>2. asking[c].body \in Sent /\ asking[c].pc = "asked" /\ asking[c] \in Request
  BY DEF Make, PromiseInv, PromiseTypeOK, RequestsMade, Request
<1>3. asking[c].body # None /\ KeyOf[asking[c].body] # None
  BY <1>2, SentBodies
<1>4. /\ asking' \in [Clients -> Request] /\ BodiesStay
      /\ \A d \in Clients \ {c} : asking'[d] = asking[d]
      /\ asking'[c].order = o /\ asking'[c].body = asking[c].body
  BY <1>1, <1>2 DEF PromiseInv, PromiseTypeOK, Request, BodiesStay
<1>5. /\ made' \in [OrderIds -> Order]
      /\ made'[o].body = asking[c].body
      /\ \A p \in OrderIds \ {o} : made'[p] = made[p]
  BY <1>1, <1>2 DEF PromiseInv, PromiseTypeOK, Order
<1>6. PromiseTypeOK'
  BY <1>4, <1>5 DEF PromiseTypeOK
<1>7. RequestsMade'
  BY <1>2, <1>3, <1>4, <1>5 DEF PromiseInv, PromiseTypeOK, RequestsMade, Held, Request
<1>8. \A p \in OrderIds : Held(p) => KeyOf[made[p].body] # KeyOf[asking[c].body]
  BY <1>3 DEF Make, KnownAs, Held
<1>9. OneOrderAKey'
  <2> SUFFICES ASSUME NEW p \in OrderIds, NEW q \in OrderIds, Held(p)', Held(q)',
                      KeyOf[made'[p].body] = KeyOf[made'[q].body]
               PROVE  p = q
    BY DEF OneOrderAKey
  <2>1. CASE p # o /\ q # o
    BY <1>5, <2>1 DEF PromiseInv, OneOrderAKey, Held
  <2>2. CASE p = o /\ q # o
    BY <1>5, <1>8, <2>2 DEF Held
  <2>3. CASE p # o /\ q = o
    BY <1>5, <1>8, <2>3 DEF Held
  <2> QED
    BY <2>1, <2>2, <2>3
<1> QED
  BY <1>4, <1>6, <1>7, <1>9 DEF PromiseInv

\* An order is opened or closed; what it is for stays.
LEMMA OpenedOrClosed ==
    ASSUME PromiseInv, made' \in [OrderIds -> Order],
           \A o \in OrderIds : made'[o].body = made[o].body /\ (made'[o].open => Held(o)),
           asking' \in [Clients -> Request],
           \A c \in Clients : /\ asking'[c].body = asking[c].body
                              /\ asking'[c].pc # "idle" => asking[c].pc # "idle"
                              /\ asking'[c].order # None =>
                                    asking'[c].order \in OrderIds /\ Held(asking'[c].order)
    PROVE  PromiseInv' /\ BodiesStay
<1>1. PromiseTypeOK'
  BY DEF PromiseTypeOK
<1>2. RequestsMade'
  BY DEF PromiseInv, RequestsMade, Held
<1>3. OneOrderAKey'
  BY DEF PromiseInv, OneOrderAKey, Held
<1> QED
  BY <1>1, <1>2, <1>3 DEF PromiseInv, BodiesStay

LEMMA OpenSet ==
    ASSUME PromiseInv, NEW o \in OrderIds, NEW b \in BOOLEAN,
           made' = [made EXCEPT ![o].open = b], b => Held(o)
    PROVE  /\ made' \in [OrderIds -> Order]
           /\ \A p \in OrderIds : made'[p].body = made[p].body /\ (made'[p].open => Held(p))
BY DEF PromiseInv, PromiseTypeOK, RequestsMade, Order, Held

LEMMA AnswerStep ==
    ASSUME PromiseInv, NEW c \in Clients, Answer(c)
    PROVE  PromiseInv' /\ BodiesStay
<1>1. asking[c] \in Request /\ asking[c].pc = "asked"
  BY DEF Answer, PromiseInv, PromiseTypeOK
<1>2. PICK o \in {asking[c].order} \cup KnownAs(KeyOf[asking[c].body]) :
        /\ o # None
        /\ asking' = [asking EXCEPT ![c].pc = "answered", ![c].order = o]
        /\ (asking[c].order = o /\ made' = [made EXCEPT ![o].open = TRUE]) \/ UNCHANGED made
  BY DEF Answer
<1>3. o \in OrderIds /\ Held(o)
  BY <1>1, <1>2 DEF PromiseInv, RequestsMade, KnownAs, Held, Request
<1>4. /\ asking' \in [Clients -> Request]
      /\ \A d \in Clients \ {c} : asking'[d] = asking[d]
      /\ asking'[c].body = asking[c].body /\ asking'[c].order = o
  BY <1>1, <1>2, <1>3 DEF PromiseInv, PromiseTypeOK, Request
<1>5. /\ made' \in [OrderIds -> Order]
      /\ \A p \in OrderIds : made'[p].body = made[p].body /\ (made'[p].open => Held(p))
  <2>1. CASE made' = [made EXCEPT ![o].open = TRUE]
    BY <1>3, <2>1, OpenSet
  <2>2. CASE UNCHANGED made
    BY <2>2 DEF PromiseInv, PromiseTypeOK, RequestsMade
  <2> QED
    BY <1>2, <2>1, <2>2
<1>6. \A d \in Clients : /\ asking'[d].body = asking[d].body
                         /\ asking'[d].pc # "idle" => asking[d].pc # "idle"
                         /\ asking'[d].order # None =>
                               asking'[d].order \in OrderIds /\ Held(asking'[d].order)
  BY <1>1, <1>3, <1>4 DEF PromiseInv, PromiseTypeOK, RequestsMade, Request
<1> QED
  BY <1>4, <1>5, <1>6, OpenedOrClosed

LEMMA RefuseStep ==
    ASSUME PromiseInv, NEW c \in Clients, Refuse(c)
    PROVE  PromiseInv' /\ BodiesStay
<1>1. asking[c] \in Request /\ asking[c].pc = "asked"
  BY DEF Refuse, PromiseInv, PromiseTypeOK
<1>2. /\ asking' \in [Clients -> Request]
      /\ \A d \in Clients \ {c} : asking'[d] = asking[d]
      /\ asking'[c].body = asking[c].body /\ asking'[c].order = asking[c].order
  BY <1>1 DEF Refuse, PromiseInv, PromiseTypeOK, Request
<1>3. /\ made' \in [OrderIds -> Order]
      /\ \A p \in OrderIds : made'[p].body = made[p].body /\ (made'[p].open => Held(p))
  <2>1. CASE asking[c].order = None
    BY <2>1 DEF Refuse, PromiseInv, PromiseTypeOK, RequestsMade
  <2>2. CASE asking[c].order # None
    <3>1. asking[c].order \in OrderIds /\ made' = [made EXCEPT ![asking[c].order].open = FALSE]
      BY <1>1, <2>2 DEF Refuse, Request
    <3> QED
      BY <3>1, OpenSet
  <2> QED
    BY <2>1, <2>2
<1>4. \A d \in Clients : /\ asking'[d].body = asking[d].body
                         /\ asking'[d].pc # "idle" => asking[d].pc # "idle"
                         /\ asking'[d].order # None =>
                               asking'[d].order \in OrderIds /\ Held(asking'[d].order)
  BY <1>1, <1>2 DEF PromiseInv, PromiseTypeOK, RequestsMade, Request
<1> QED
  BY <1>2, <1>3, <1>4, OpenedOrClosed

LEMMA EndsStep ==
    ASSUME PromiseInv, NEW o \in OrderIds, Ends(o)
    PROVE  PromiseInv' /\ BodiesStay
<1>1. made' = [made EXCEPT ![o].open = FALSE] /\ asking' = asking
  BY DEF Ends
<1>2. /\ made' \in [OrderIds -> Order]
      /\ \A p \in OrderIds : made'[p].body = made[p].body /\ (made'[p].open => Held(p))
  BY <1>1, OpenSet
<1>3. /\ asking' \in [Clients -> Request]
      /\ \A d \in Clients : /\ asking'[d].body = asking[d].body
                            /\ asking'[d].pc # "idle" => asking[d].pc # "idle"
                            /\ asking'[d].order # None =>
                                  asking'[d].order \in OrderIds /\ Held(asking'[d].order)
  BY <1>1 DEF PromiseInv, PromiseTypeOK, RequestsMade, Request
<1> QED
  BY <1>2, <1>3, OpenedOrClosed

LEMMA PromiseUnchanged ==
    ASSUME PromiseInv, UNCHANGED promiseVars
    PROVE  PromiseInv' /\ BodiesStay
BY DEF PromiseInv, PromiseTypeOK, RequestsMade, OneOrderAKey, Held, promiseVars, BodiesStay

-----------------------------------------------------------------------------
(* The page. *)

LEMMA PreviewKeyOK == PageOK(page) => previewKey \in PriceKey
BY DEF PageOK, Page, previewKey, buyer, PriceKey

\* A page without a price, or with the one it had, is one when it is shown.
LEMMA ShowsPage ==
    ASSUME NEW p, PageOK(p), Shows(p)
    PROVE  PageOK(page')
<1>1. page' = p \/ page' = [p EXCEPT !.preview = None]
  BY DEF Shows
<1>2. PageOK([p EXCEPT !.preview = None])
  BY DEF PageOK, Page
<1> QED
  BY <1>1, <1>2

LEMMA FreshPageOK ==
    ASSUME NEW n \in Baskets
    PROVE  PageOK(FreshPage(n, Untyped)) /\ PageOK([FreshPage(n, Untyped) EXCEPT !.screen = "order"])
BY DEF PageOK, FreshPage, Page, Untyped

\* Requests and what was confirmed stay, whatever the page does.
LEMMA PageStep ==
    ASSUME IInv, PageOK(page'), asked' \subseteq PriceKey, UNCHANGED <<promiseVars, confirmed>>
    PROVE  IInv'
<1>1. PromiseInv' /\ BodiesStay
  BY PromiseUnchanged DEF IInv
<1>2. ConfirmedOK'
  BY DEF IInv, ConfirmedOK, ConfirmedAsShown, promiseVars
<1> QED
  BY <1>1, <1>2 DEF IInv

LEMMA EditsKeepIInv ==
    ASSUME IInv,
           \/ ChooseTickets \/ handleCheckoutClick \/ onTouch \/ CloseDialog
           \/ \E b \in Buyer : EditDetails(b) \/ setModalEmail(b)
           \/ \E k \in asked : PreviewAnswers(k)
    PROVE  IInv' /\ UNCHANGED promiseVars
<1>1. UNCHANGED <<promiseVars, confirmed>>
  BY DEF ChooseTickets, handleCheckoutClick, onTouch, CloseDialog, EditDetails, setModalEmail,
         PreviewAnswers, handleReview, serverVars
<1>2. PageOK(page) /\ page \in Page /\ asked \subseteq PriceKey
  BY DEF IInv, PageOK
<1>3. CASE ChooseTickets
  <2> DEFINE p == [page EXCEPT !.basket = @ + 1, !.preview = None]
  <2>1. Shows(p) /\ asked' = asked
    BY <1>3 DEF ChooseTickets
  <2>2. page.basket + 1 \in Baskets
    BY <1>2, <1>3, MaxChoicesOK DEF ChooseTickets, Page, Baskets
  <2>3. p \in Page /\ p.preview = None /\ p.modal = page.modal /\ p.own = page.own /\ p.confirmOpen = page.confirmOpen
    BY <1>2, <2>2 DEF Page
  <2> HIDE DEF p
  <2>4. PageOK(p)
    BY <1>2, <2>3 DEF PageOK
  <2> QED
    BY <1>1, <1>2, <2>1, <2>4, ShowsPage, PageStep
<1>4. ASSUME NEW p, p.confirmOpen, PageOK(p), handleReview(p)
      PROVE  PageOK(page') /\ asked' \subseteq PriceKey
  <2>1. page' = [p EXCEPT !.working = "preview"] /\ asked' = asked \cup {previewKey}
    BY <1>4 DEF handleReview
  <2>2. PageOK(page')
    BY <1>4, <2>1 DEF PageOK, Page
  <2> QED
    BY <1>2, <2>1, <2>2, PreviewKeyOK
<1>5. CASE handleCheckoutClick
  <2> DEFINE p == [page EXCEPT !.confirmOpen = TRUE]
  <2>1. handleReview(p) /\ ~page.confirmOpen /\ page.own # None
    BY <1>5 DEF handleCheckoutClick, detailsComplete, Untyped
  <2>2. /\ p \in Page /\ p.preview = page.preview /\ p.modal = page.modal /\ p.own = page.own
        /\ p.confirmOpen
    BY <1>2 DEF Page
  <2>3. page.modal \in Buyer
    BY <1>2, <2>1 DEF PageOK, Page
  <2> HIDE DEF p
  <2>4. PageOK(p)
    BY <1>2, <2>2, <2>3 DEF PageOK
  <2> QED
    BY <1>1, <1>4, <2>1, <2>2, <2>4, PageStep
<1>6. CASE onTouch
  BY <1>1, <1>2, <1>4, <1>6, PageStep DEF onTouch
<1>7. CASE CloseDialog
  <2> DEFINE p == [page EXCEPT !.confirmOpen = FALSE, !.modal = page.own]
  <2>1. Shows(p) /\ asked' = asked
    BY <1>7 DEF CloseDialog
  <2>2. p \in Page /\ p.preview = page.preview /\ p.modal = p.own /\ ~p.confirmOpen
    BY <1>2 DEF Page
  <2> HIDE DEF p
  <2>3. PageOK(p)
    BY <1>2, <2>2 DEF PageOK
  <2> QED
    BY <1>1, <1>2, <2>1, <2>3, ShowsPage, PageStep
<1>8. ASSUME NEW b \in Buyer, EditDetails(b) PROVE IInv'
  <2> DEFINE p == [page EXCEPT !.own = b, !.modal = b]
  <2>1. Shows(p) /\ asked' = asked
    BY <1>8 DEF EditDetails
  <2>2. p \in Page /\ p.preview = page.preview /\ p.modal = p.own /\ p.modal \in Buyer
    BY <1>2 DEF Page
  <2> HIDE DEF p
  <2>3. PageOK(p)
    BY <1>2, <2>2 DEF PageOK
  <2> QED
    BY <1>1, <1>2, <2>1, <2>3, ShowsPage, PageStep
<1>9. ASSUME NEW b \in Buyer, setModalEmail(b) PROVE IInv'
  <2> DEFINE p == [page EXCEPT !.modal = b]
  <2>1. Shows(p) /\ asked' = asked /\ page.confirmOpen
    BY <1>9 DEF setModalEmail
  <2>2. p \in Page /\ p.preview = page.preview /\ p.modal = b /\ p.confirmOpen = page.confirmOpen
    BY <1>2 DEF Page
  <2> HIDE DEF p
  <2>3. PageOK(p)
    BY <1>2, <2>1, <2>2 DEF PageOK
  <2> QED
    BY <1>1, <1>2, <2>1, <2>3, ShowsPage, PageStep
<1>10. ASSUME NEW k \in asked, PreviewAnswers(k) PROVE IInv'
  <2>1. asked' \subseteq PriceKey /\ k \in PriceKey
    BY <1>2, <1>10 DEF PreviewAnswers
  <2>2. CASE page' = [page EXCEPT !.working = None]
    <3>1. PageOK(page')
      BY <1>2, <2>2 DEF PageOK, Page
    <3> QED
      BY <1>1, <2>1, <3>1, PageStep
  <2>3. ASSUME NEW chargeable \in BOOLEAN,
               page' = [page EXCEPT !.working = None, !.preview = CheckoutPreview(k, chargeable)]
        PROVE  IInv'
    <3> DEFINE v == CheckoutPreview(k, chargeable)
    <3>1. v \in Price /\ v.pricedFor = v.key
      BY <2>1 DEF CheckoutPreview, Price
    <3>2. page' = [page EXCEPT !.working = None, !.preview = v]
      BY <2>3
    <3> HIDE DEF v
    <3>3. /\ page' \in Page /\ page'.preview = v /\ page'.modal = page.modal /\ page'.own = page.own
          /\ page'.confirmOpen = page.confirmOpen
      BY <1>2, <3>1, <3>2 DEF Page
    <3>4. PageOK(page')
      BY <1>2, <3>1, <3>3 DEF PageOK
    <3> QED
      BY <1>1, <2>1, <3>4, PageStep
  <2> QED
    BY <1>10, <2>2, <2>3 DEF PreviewAnswers
<1> QED
  BY <1>1, <1>3, <1>5, <1>6, <1>7, <1>8, <1>9, <1>10

\* The button asks for what its price was asked for.
LEMMA ConfirmKeepsIInv ==
    ASSUME IInv, NEW c \in Clients, handleConfirm(c)
    PROVE  IInv' /\ PromiseNext
<1> DEFINE body == [key |-> idempotencyKey, basket |-> page.basket, buyer |-> page.modal]
<1>1. /\ Ask(c, body) /\ page' = [page EXCEPT !.working = "paying"]
      /\ confirmed' = [confirmed EXCEPT ![c] = PriceShown] /\ asked' = asked
  BY DEF handleConfirm
<1>2. /\ page \in Page /\ page.confirmOpen /\ currentPreview # None
      /\ page.basket \in Baskets /\ page.modal \in Buyer
  BY DEF handleConfirm, canConfirm, IInv, PageOK, Page
<1>3. body \in Sent /\ body.basket = page.basket /\ body.buyer = page.modal
  BY <1>2, PagesMaySend DEF Sent, idempotencyKey
<1>4. PriceShown = [basket |-> page.basket, buyer |-> page.modal] /\ PriceShown \in PriceKey
  <2>1. /\ currentPreview = page.preview /\ page.preview # None
        /\ page.preview.key = previewKey
    BY <1>2 DEF currentPreview
  <2>2. page.preview.pricedFor = page.preview.key
    BY <2>1 DEF IInv, PageOK
  <2>3. previewKey = [basket |-> page.basket, buyer |-> page.modal]
    BY <1>2 DEF previewKey, buyer
  <2> QED
    BY <1>2, <2>1, <2>2, <2>3 DEF PriceShown, PriceKey
<1> HIDE DEF body
<1>5. /\ PromiseInv' /\ asking'[c].body = body
      /\ \A d \in Clients \ {c} : asking'[d] = asking[d]
  BY <1>1, <1>3, AskStep DEF IInv
<1>6. PageOK(page')
  BY <1>1, <1>2 DEF IInv, PageOK, Page
<1>7. /\ confirmed' \in [Clients -> PriceKey \cup {None}]
      /\ confirmed'[c] = PriceShown /\ \A d \in Clients \ {c} : confirmed'[d] = confirmed[d]
  BY <1>1, <1>4 DEF IInv, ConfirmedOK
<1>8. ConfirmedAsShown'
  BY <1>3, <1>4, <1>5, <1>7 DEF IInv, ConfirmedOK, ConfirmedAsShown
<1>9. PromiseNext
  BY <1>1, <1>3, SentBodies DEF PromiseNext
<1> QED
  BY <1>1, <1>5, <1>6, <1>7, <1>8, <1>9 DEF IInv, ConfirmedOK

\* A request ends, or the page no longer awaits it.
LEMMA UnconfirmedKeepsIInv ==
    ASSUME IInv, NEW c \in Clients, confirmed' = [confirmed EXCEPT ![c] = None],
           PromiseInv', \A d \in Clients \ {c} : asking'[d] = asking[d],
           PageOK(page'), asked' \subseteq PriceKey
    PROVE  IInv'
<1>1. /\ confirmed' \in [Clients -> PriceKey \cup {None}]
      /\ confirmed'[c] = None /\ \A d \in Clients \ {c} : confirmed'[d] = confirmed[d]
  BY DEF IInv, ConfirmedOK
<1>2. ConfirmedAsShown'
  BY <1>1 DEF IInv, ConfirmedOK, ConfirmedAsShown
<1> QED
  BY <1>1, <1>2 DEF IInv, ConfirmedOK

LEMMA EndingsKeepIInv ==
    ASSUME IInv, NEW c \in Clients, Navigate(c) \/ ConfirmFails(c) \/ ConnectionLost(c)
    PROVE  IInv' /\ [PromiseNext]_promiseVars
<1>1. page \in Page /\ page.basket \in Baskets
  BY DEF IInv, PageOK, Page
<1>2. PageOK([page EXCEPT !.working = None])
  BY <1>1 DEF IInv, PageOK, Page
<1>3. CASE Navigate(c)
  <2>1. Close(c) /\ UNCHANGED made /\ confirmed' = [confirmed EXCEPT ![c] = None]
    BY <1>3 DEF Navigate
  <2>2. PageOK(page') /\ asked' \subseteq PriceKey
    BY <1>1, <1>3, FreshPageOK DEF Navigate
  <2> QED
    BY <2>1, <2>2, CloseStep, UnconfirmedKeepsIInv DEF IInv, PromiseNext
<1>4. CASE ConfirmFails(c)
  <2>1. Close(c) /\ UNCHANGED made /\ confirmed' = [confirmed EXCEPT ![c] = None]
    BY <1>4 DEF ConfirmFails
  <2>2. PageOK(page') /\ asked' \subseteq PriceKey
    BY <1>2, <1>4 DEF ConfirmFails, IInv
  <2> QED
    BY <2>1, <2>2, CloseStep, UnconfirmedKeepsIInv DEF IInv, PromiseNext
<1>5. CASE ConnectionLost(c)
  <2>1. UNCHANGED promiseVars /\ confirmed' = [confirmed EXCEPT ![c] = None]
    BY <1>5 DEF ConnectionLost, serverVars
  <2>2. PageOK(page') /\ asked' \subseteq PriceKey
    BY <1>2, <1>5 DEF ConnectionLost, IInv
  <2>3. PromiseInv' /\ asking' = asking
    BY <2>1, PromiseUnchanged DEF IInv, promiseVars
  <2> QED
    BY <2>1, <2>2, <2>3, UnconfirmedKeepsIInv
<1> QED
  BY <1>3, <1>4, <1>5

LEMMA OrderPageKeepsIInv ==
    ASSUME IInv,
           \/ Load \/ LoadFails \/ reload \/ PromptExpires \/ PollStatus \/ FetchFull
           \/ FetchFullFails \/ FailedOrder \/ LeaveCheckoutDialog
    PROVE  IInv' /\ UNCHANGED promiseVars
<1>1. UNCHANGED <<promiseVars, confirmed, asked>>
  BY DEF Load, LoadFails, reload, PromptExpires, PollStatus, FetchFull, FetchFullFails,
         FailedOrder, LeaveCheckoutDialog, ToEventPage, serverVars, pageVars
<1>2. page' = page \/ ToEventPage
  BY DEF Load, LoadFails, reload, PromptExpires, PollStatus, FetchFull, FetchFullFails,
         FailedOrder, LeaveCheckoutDialog, pageVars
<1>3. PageOK(page')
  <2>1. CASE ToEventPage
    <3>1. page.basket + 1 \in Baskets /\ page' = FreshPage(page.basket + 1, Untyped)
      BY <2>1, MaxChoicesOK DEF ToEventPage, IInv, PageOK, Page, Baskets
    <3> QED
      BY <3>1, FreshPageOK
  <2> QED
    BY <1>2, <2>1 DEF IInv
<1> QED
  BY <1>1, <1>3, PageStep DEF IInv

LEMMA ServerKeepsIInv ==
    ASSUME IInv, ServerNext, UNCHANGED browserVars
    PROVE  IInv' /\ [PromiseNext]_promiseVars
<1>1. PromiseInv' /\ BodiesStay /\ [PromiseNext]_promiseVars
  <2>1. ASSUME NEW c \in Clients, Serve(c)
        PROVE  PromiseInv' /\ BodiesStay /\ PromiseNext
    BY <2>1, MakeStep, AnswerStep, RefuseStep DEF Serve, IInv, PromiseNext
  <2>2. ASSUME NEW o \in OrderIds,
               Settled(o) \/ SettledLate(o) \/ Lapses(o) \/ issueTicketsForOrder(o)
        PROVE  PromiseInv' /\ BodiesStay /\ [PromiseNext]_promiseVars
    <3>1. Ends(o) \/ UNCHANGED promiseVars
      BY <2>2 DEF Settled, SettledLate, Lapses, issueTicketsForOrder
    <3> QED
      BY <3>1, EndsStep, PromiseUnchanged DEF IInv, PromiseNext
  <2> QED
    BY <2>1, <2>2 DEF ServerNext
<1>2. ConfirmedOK'
  BY <1>1 DEF BodiesStay, IInv, ConfirmedOK, ConfirmedAsShown, browserVars
<1> QED
  BY <1>1, <1>2 DEF IInv, browserVars

LEMMA NextKeepsIInv == IInv /\ [Next]_vars => IInv' /\ [PromiseNext]_promiseVars
<1> SUFFICES ASSUME IInv, [Next]_vars PROVE IInv' /\ [PromiseNext]_promiseVars
  OBVIOUS
<1>1. CASE PageNext
  BY <1>1, EditsKeepIInv, ConfirmKeepsIInv, EndingsKeepIInv, OrderPageKeepsIInv DEF PageNext
<1>2. CASE ServerNext /\ UNCHANGED browserVars
  BY <1>2, ServerKeepsIInv
<1>3. CASE UNCHANGED vars
  BY <1>3, PageStep DEF vars, serverVars, browserVars, IInv
<1> QED
  BY <1>1, <1>2, <1>3 DEF Next

LEMMA InitIInv == Init => IInv
<1> SUFFICES ASSUME Init PROVE IInv
  OBVIOUS
<1>1. PromiseInv
  <2>1. PromiseTypeOK
    BY DEF Init, PromiseInit, Nothing, NotMade, PromiseTypeOK, Request, Order
  <2>2. \A o \in OrderIds : ~Held(o) /\ ~made[o].open
    BY DEF Init, PromiseInit, NotMade, Held
  <2>3. \A c \in Clients : asking[c].pc = "idle" /\ asking[c].order = None
    BY DEF Init, PromiseInit, Nothing
  <2> QED
    BY <2>1, <2>2, <2>3 DEF PromiseInv, RequestsMade, OneOrderAKey
<1>2. PageOK(page)
  <2>1. 1 \in Baskets
    BY MaxChoicesOK DEF Baskets
  <2> QED
    BY <2>1, FreshPageOK DEF Init
<1>3. ConfirmedOK
  BY DEF Init, ConfirmedOK, ConfirmedAsShown
<1> QED
  BY <1>1, <1>2, <1>3 DEF IInv, Init

-----------------------------------------------------------------------------
\* The inductive invariant of the pages and of what they have asked for.
THEOREM PurchaseInvariant == Spec => []IInv
<1>1. IInv /\ [Next]_vars => IInv'
  BY NextKeepsIInv
<1> QED
  BY <1>1, InitIInv, PTL DEF Spec

\* handleConfirm, however the fields were edited while prices were asked for:
\* what leaves is for the tickets and the buyer whose price was on the screen.
THEOREM PriceShownIsAskedFor == Spec => []ConfirmedAsShown
<1>1. IInv => ConfirmedAsShown
  BY DEF IInv, ConfirmedOK
<1> QED
  BY <1>1, PurchaseInvariant, PTL

\* However often one choice is confirmed, in parallel or after answers that never
\* came, its key leads to one order.
THEOREM ChosenOnceHeldOnce == Spec => []ChoiceHeldOnce
<1>1. IInv => ChoiceHeldOnce
  <2> SUFFICES ASSUME IInv, NEW o \in OrderIds, NEW p \in OrderIds,
                      made[o] # NotMade, made[p] # NotMade,
                      made[o].body.basket = made[p].body.basket,
                      made[o].body.buyer.email = made[p].body.buyer.email
               PROVE  o = p
    BY DEF ChoiceHeldOnce
  <2>1. ASSUME NEW x \in OrderIds, made[x] # NotMade PROVE Held(x) /\ made[x].body \in Sent
    <3>1. made[x] \in Order /\ (made[x].open => Held(x))
      BY DEF IInv, PromiseInv, PromiseTypeOK, RequestsMade
    <3>2. made[x] = [body |-> made[x].body, open |-> made[x].open] /\ made[x].open \in BOOLEAN
      BY <3>1 DEF Order
    <3>3. Held(x)
      BY <2>1, <3>1, <3>2 DEF Held, NotMade
    <3> QED
      BY <3>1, <3>3 DEF Held, Order
  <2>2. Held(o) /\ Held(p) /\ made[o].body \in Sent /\ made[p].body \in Sent
    BY <2>1
  <2>3. KeyOf[made[o].body] = KeyOf[made[p].body]
    BY <2>2, KeysAreScoped DEF Sent
  <2> QED
    BY <2>2, <2>3 DEF IInv, PromiseInv, OneOrderAKey
<1> QED
  BY <1>1, PurchaseInvariant, PTL

\* The pages ask of the server only what CheckoutPromise lets clients ask, and
\* Requests keeps that promise to them.
THEOREM PagesKeepToThePromise == Spec => PromiseSpec
<1>1. Init => PromiseInit
  BY DEF Init
<1>2. IInv /\ [Next]_vars => [PromiseNext]_promiseVars
  BY NextKeepsIInv
<1> QED
  BY <1>1, <1>2, PurchaseInvariant, PTL DEF Spec, PromiseSpec
=============================================================================
