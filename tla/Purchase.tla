------------------------------ MODULE Purchase ------------------------------
(***************************************************************************)
(* One browser buying tickets: the event page with its Confirm dialog      *)
(* (EventPage.tsx) and the order page that polls (OrderPage.tsx), against  *)
(* what the server promises (CheckoutPromise, which Requests implements).  *)
(* Responses may be lost.  A basket is the number of the choice that made  *)
(* it: another choice mints another key, even of the same tickets.  Money  *)
(* is left out: a price belongs to what it was asked for.                  *)
(***************************************************************************)
EXTENDS CheckoutPromise, FiniteSets

CONSTANTS
    Emails,
    Phones,
    MaxChoices,   \* bound: how often tickets are chosen
    MaxAsked,     \* bound: previews in flight
    MaxLost       \* bound: fetches of the order that fail

Baskets == 1..MaxChoices
Buyer == [email : Emails, phone : Phones]
PreviewKey == [basket : Baskets, buyer : Buyer]

ASSUME BodiesNameKeyAndBuyer ==
    Bodies \subseteq [key : Baskets \X Nat, basket : Baskets, buyer : Buyer]
ASSUME MaxChoicesOK == MaxChoices \in Nat \ {0}
ASSUME PagesMaySend ==
    \A basket \in Baskets, b \in Buyer :
        [key |-> <<basket, 0>>, basket |-> basket, buyer |-> b] \in Bodies
ASSUME NoneIsNothing == None \notin Bodies \cup OrderIds \cup Buyer

\* The server scopes a key to the email address that it comes with.
ASSUME KeysAreScoped ==
    /\ \A body \in Bodies : KeyOf[body] # None
    /\ \A body, other \in Bodies :
         KeyOf[body] = KeyOf[other] <=> body.key = other.key /\ body.buyer.email = other.buyer.email

VARIABLES
    page,      \* the event page's state, and which screen is shown
    asked,     \* previews in flight, by what they were asked for
    mine,      \* clients whose request the mounted event page awaits
    confirmed, \* history: what the price was for that the buyer confirmed
    watch,     \* the order page's state
    outcome    \* [OrderIds -> what has become of its payment]

browserVars == <<page, asked, mine, confirmed, watch>>
pageVars == <<page, asked, mine, confirmed>>
serverVars == <<promiseVars, outcome>>
vars == <<serverVars, browserVars>>

NoOrderPage == [ref |-> None, data |-> None, live |-> None, loading |-> FALSE, error |-> FALSE,
                promptExpired |-> FALSE, timer |-> FALSE, refetch |-> FALSE, lost |-> 0]

\* Fields that cannot be sent yet.
Untyped == None

FreshPage(basket, buyer) ==
    [screen |-> "event", basket |-> basket, own |-> buyer, modal |-> buyer,
     confirmOpen |-> FALSE, preview |-> None, working |-> None]

Init ==
    /\ PromiseInit
    /\ page = FreshPage(1, Untyped)
    /\ asked = {}
    /\ mine = {}
    /\ confirmed = [c \in Clients |-> None]
    /\ watch = NoOrderPage
    /\ outcome = [o \in OrderIds |-> "unbilled"]

-----------------------------------------------------------------------------
(* EventPage. *)

OnEventPage == page.screen = "event"

\* While the dialog is open its own fields are what will be charged.
buyer == IF page.confirmOpen THEN page.modal ELSE page.own

previewKey == [basket |-> page.basket, buyer |-> buyer]

currentPreview ==
    IF page.preview # None /\ page.preview.key = previewKey THEN page.preview ELSE None

\* Mutation: a key for every attempt.
keyPerAttempt == <<page.basket, Cardinality({o \in OrderIds : made[o] # NotMade})>>

idempotencyKey == <<page.basket, 0>>

\* The effect on previewKey drops a preview of anything else.
Shows(p) ==
    LET b == IF p.confirmOpen THEN p.modal ELSE p.own
        k == [basket |-> p.basket, buyer |-> b]
    IN  page' = IF k = previewKey THEN p ELSE [p EXCEPT !.preview = None]

ChooseTickets ==
    /\ OnEventPage /\ ~page.confirmOpen
    /\ page.basket < MaxChoices
    /\ Shows([page EXCEPT !.basket = @ + 1, !.preview = None])
    /\ UNCHANGED <<serverVars, asked, mine, confirmed, watch>>

EditDetails(b) ==
    /\ OnEventPage /\ ~page.confirmOpen
    /\ Shows([page EXCEPT !.own = b, !.modal = b])
    /\ UNCHANGED <<serverVars, asked, mine, confirmed, watch>>

detailsComplete == page.own # Untyped

\* The dialog has fields of its own, editable while a payment is being started.
setModalEmail(b) ==
    /\ OnEventPage /\ page.confirmOpen
    /\ Shows([page EXCEPT !.modal = b])
    /\ UNCHANGED <<serverVars, asked, mine, confirmed, watch>>

handleReview(p) ==
    /\ Cardinality(asked) < MaxAsked
    /\ asked' = asked \cup {previewKey}
    /\ page' = [p EXCEPT !.working = "preview"]
    /\ UNCHANGED <<serverVars, mine, confirmed, watch>>

\* Opening the dialog copies the fields into it; leaving a field asks again.
handleCheckoutClick ==
    /\ OnEventPage /\ ~page.confirmOpen /\ detailsComplete
    /\ handleReview([page EXCEPT !.confirmOpen = TRUE])

onTouch ==
    /\ OnEventPage /\ page.confirmOpen
    /\ handleReview(page)

\* What previewCheckout answers; the money itself is left out.
CheckoutPreview(k, chargeable) == [key |-> k, pricedFor |-> k, chargeable |-> chargeable]

\* Mutation: the price is tagged with what is on the screen when it comes.
PreviewAnswersLate(k) ==
    /\ asked' = asked \ {k}
    /\ \/ page' = [page EXCEPT !.working = None]
       \/ page' = [page EXCEPT !.working = None,
                               !.preview = [CheckoutPreview(k, TRUE) EXCEPT !.key = previewKey]]
    /\ UNCHANGED <<serverVars, mine, confirmed, watch>>

\* previewCheckout answered for k, perhaps that the basket cannot be charged, or
\* failed.  An answer for something else than the screen shows is dropped.
PreviewAnswers(k) ==
    /\ asked' = asked \ {k}
    /\ \/ page' = [page EXCEPT !.working = None]
       \/ /\ k = previewKey
          /\ \E chargeable \in BOOLEAN :
               page' = [page EXCEPT !.working = None,
                                    !.preview = CheckoutPreview(k, chargeable)]
    /\ UNCHANGED <<serverVars, mine, confirmed, watch>>

canConfirm ==
    page.confirmOpen /\ currentPreview # None /\ currentPreview.chargeable /\ page.working = None

\* What the dialog and its button put a price on.
PriceShown == currentPreview.pricedFor

handleConfirm(c) ==
    /\ OnEventPage /\ canConfirm
    /\ Ask(c, [key |-> idempotencyKey, basket |-> page.basket, buyer |-> page.modal])
    /\ page' = [page EXCEPT !.working = "paying"]
    /\ mine' = mine \cup {c}
    /\ confirmed' = [confirmed EXCEPT ![c] = PriceShown]
    /\ UNCHANGED <<asked, watch, outcome>>

CloseDialog ==
    /\ OnEventPage /\ page.confirmOpen /\ page.working # "paying"
    /\ Shows([page EXCEPT !.confirmOpen = FALSE, !.modal = page.own])
    /\ UNCHANGED <<serverVars, asked, mine, confirmed, watch>>

\* The answer names an order: to its page, from wherever the buyer is by then.
\* What the event page still awaits is ignored once it is unmounted.
Navigate(c) ==
    /\ asking[c].pc = "answered" /\ confirmed[c] # None
    /\ Close(c)
    /\ page' = [FreshPage(page.basket, Untyped) EXCEPT !.screen = "order"]
    /\ asked' = {}
    /\ mine' = {}
    /\ confirmed' = [confirmed EXCEPT ![c] = None]
    /\ watch' = IF watch.ref = asking[c].order THEN watch
                ELSE [watch EXCEPT !.ref = asking[c].order, !.loading = TRUE, !.error = FALSE,
                                       !.refetch = FALSE]
    /\ UNCHANGED <<made, outcome>>

\* Refused, or the answer is lost on its way: everything stays as typed, for the
\* buyer to try again.
ConfirmFails(c) ==
    /\ Close(c)
    /\ page' = IF c \in mine THEN [page EXCEPT !.working = None] ELSE page
    /\ mine' = mine \ {c}
    /\ confirmed' = [confirmed EXCEPT ![c] = None]
    /\ UNCHANGED <<made, outcome, asked, watch>>

\* The connection breaks while the server is at work, which it goes on with.
ConnectionLost(c) ==
    /\ asking[c].pc = "asked" /\ c \in mine
    /\ page' = [page EXCEPT !.working = None]
    /\ mine' = mine \ {c}
    /\ confirmed' = [confirmed EXCEPT ![c] = None]
    /\ UNCHANGED <<serverVars, asked, watch>>

-----------------------------------------------------------------------------
(* OrderPage.  A page that goes on to another order keeps its state: live *)
(* stays what it was.                                                     *)

OnOrderPage == page.screen = "order"

\* failed stands for expired and cancelled, awaiting_payment for pending.
Status(o) ==
    IF outcome[o] \in {"paid", "issued"} THEN "paid"
    ELSE IF made[o].open THEN "awaiting_payment" ELSE "failed"

isTerminal(status) == status # "awaiting_payment"

\* The order with its tickets, which it has once issuance has run.
buildView(o) == [ref |-> o, status |-> Status(o), tickets |-> outcome[o] = "issued"]

\* The poll: the status, and no tickets.
getOrderStatus(o) == [ref |-> o, status |-> Status(o)]

Shown(w) == IF w.live # None THEN w.live ELSE w.data

\* The polling effect starts over when what it depends on changes.
Polls(w) == Shown(w) # None /\ ~isTerminal(Shown(w).status)

\* A prompt is said to be on the phone for a minute, and then to have expired,
\* whatever the buyer did with it.
AwaitingPayment(w) == IF w.promptExpired THEN "request expired" ELSE "check your phone"

\* The page while it loads, when it cannot, and for the order it has.
Screen(w) ==
    CASE w.loading -> "loading"
      [] ~w.loading /\ (w.error \/ Shown(w) = None) -> "not found"
      [] OTHER -> IF isTerminal(Shown(w).status) THEN Shown(w).status ELSE AwaitingPayment(w)

Load ==
    /\ OnOrderPage /\ watch.loading
    /\ LET w == [watch EXCEPT !.loading = FALSE, !.data = buildView(watch.ref),
                               !.promptExpired = FALSE]
       IN  watch' = [w EXCEPT !.timer = Polls(w)]
    /\ UNCHANGED <<serverVars, pageVars>>

\* The error takes the page's place, with a button to try again.
LoadFails ==
    /\ OnOrderPage /\ watch.loading /\ watch.lost < MaxLost
    /\ watch' = [watch EXCEPT !.loading = FALSE, !.error = TRUE, !.lost = @ + 1]
    /\ UNCHANGED <<serverVars, pageVars>>

reload ==
    /\ OnOrderPage /\ Screen(watch) = "not found"
    /\ watch' = [watch EXCEPT !.loading = TRUE, !.error = FALSE]
    /\ UNCHANGED <<serverVars, pageVars>>

PromptExpires ==
    /\ OnOrderPage /\ Screen(watch) = "check your phone"
    /\ watch' = [watch EXCEPT !.promptExpired = TRUE]
    /\ UNCHANGED <<serverVars, pageVars>>

\* A tick that finds the order ended stops the timer and fetches it whole.
PollStatus ==
    /\ OnOrderPage /\ watch.timer
    /\ isTerminal(getOrderStatus(watch.ref).status)
    /\ watch' = [watch EXCEPT !.timer = FALSE, !.refetch = TRUE]
    /\ UNCHANGED <<serverVars, pageVars>>

FetchFull ==
    /\ OnOrderPage /\ watch.refetch
    /\ LET w == [watch EXCEPT !.refetch = FALSE, !.live = buildView(watch.ref)]
       IN  watch' = [w EXCEPT !.timer = Polls(w)]
    /\ UNCHANGED <<serverVars, pageVars>>

\* The error is swallowed, for the next tick to try again.
FetchFullFails ==
    /\ OnOrderPage /\ watch.refetch /\ watch.lost < MaxLost
    /\ watch' = [watch EXCEPT !.refetch = FALSE, !.lost = @ + 1]
    /\ UNCHANGED <<serverVars, pageVars>>

ToEventPage ==
    /\ OnOrderPage /\ page.basket < MaxChoices
    /\ page' = FreshPage(page.basket + 1, Untyped)
    /\ watch' = [NoOrderPage EXCEPT !.lost = watch.lost]
    /\ UNCHANGED <<serverVars, asked, mine, confirmed>>

\* "Try again", from the page of an order that came to nothing.
FailedOrder == Screen(watch) = "failed" /\ ToEventPage

\* Back to the event.  A dialog may ask first; it releases nothing, whatever its
\* button says.
LeaveCheckoutDialog == Screen(watch) # "failed" /\ ToEventPage

-----------------------------------------------------------------------------
(* The server meanwhile: what it promises of checkouts, and of an order     *)
(* the payment that settles it and the tickets that follow.                *)

\* An order that is answered for has its payment on record.
Serve(c) ==
    \/ (Make(c) \/ Refuse(c)) /\ UNCHANGED outcome
    \/ /\ Answer(c)
       /\ outcome' = IF asking[c].order = None THEN outcome
                     ELSE [outcome EXCEPT ![asking[c].order] = "unpaid"]

Pays(o) == outcome[o] = "unpaid" /\ outcome' = [outcome EXCEPT ![o] = "paid"]

\* Settled, in time or after the hold was given up.
Settled(o) == Pays(o) /\ Ends(o)
SettledLate(o) == Pays(o) /\ ~made[o].open /\ UNCHANGED promiseVars

\* Failed, cancelled or expired.
Lapses(o) == Ends(o) /\ UNCHANGED outcome

issueTicketsForOrder(o) ==
    /\ outcome[o] = "paid"
    /\ outcome' = [outcome EXCEPT ![o] = "issued"]
    /\ UNCHANGED promiseVars

ServerNext ==
    \/ \E c \in Clients : Serve(c)
    \/ \E o \in OrderIds :
         Settled(o) \/ SettledLate(o) \/ Lapses(o) \/ issueTicketsForOrder(o)

-----------------------------------------------------------------------------
PageNext ==
    \/ ChooseTickets \/ handleCheckoutClick \/ onTouch \/ CloseDialog
    \/ \E b \in Buyer : EditDetails(b) \/ setModalEmail(b)
    \/ \E k \in asked : PreviewAnswers(k)
    \/ \E c \in Clients : handleConfirm(c) \/ Navigate(c) \/ ConfirmFails(c) \/ ConnectionLost(c)
    \/ Load \/ LoadFails \/ reload \/ PromptExpires \/ PollStatus \/ FetchFull \/ FetchFullFails
    \/ FailedOrder \/ LeaveCheckoutDialog

Next == PageNext \/ (ServerNext /\ UNCHANGED browserVars)

Spec == Init /\ [][Next]_vars

\* The browser's timers tick, its requests come to an end, and the job of a paid
\* order is run.  Nothing makes a buyer do anything.
FairSpec ==
    /\ Spec
    /\ WF_vars(Load \/ LoadFails)
    /\ WF_vars(PollStatus)
    /\ WF_vars(FetchFull \/ FetchFullFails)
    /\ \A o \in OrderIds : WF_vars(issueTicketsForOrder(o) /\ UNCHANGED browserVars)

-----------------------------------------------------------------------------
\* Whatever was edited while prices were on their way, a request that leaves asks
\* for exactly the tickets and the buyer whose price stood next to the button.
ConfirmedAsShown ==
    \A c \in Clients : confirmed[c] # None =>
        confirmed[c] = [basket |-> asking[c].body.basket, buyer |-> asking[c].body.buyer]

\* However often a buyer confirms one choice, in parallel or after answers that
\* never came, it is held once.  (Another email is another buyer.)
ChoiceHeldOnce ==
    \A o, p \in OrderIds :
        /\ made[o] # NotMade /\ made[p] # NotMade
        /\ made[o].body.basket = made[p].body.basket
        /\ made[o].body.buyer.email = made[p].body.buyer.email
        => o = p

\* OrderPage.tsx: an order, from "check your phone" to "here are your tickets"; it
\* swallows a failed fetch because the next tick retries.  So an order that has ended is
\* shown so, a paid one with its tickets, or the buyer is asked to load it again.
EndIsShown ==
    \A o \in OrderIds :
        (OnOrderPage /\ watch.ref = o /\ ~made[o].open)
        ~> \/ ~OnOrderPage \/ watch.ref # o \/ made[o].open
           \/ Screen(watch) \in {"failed", "not found"}
           \/ Screen(watch) = "paid" /\ Shown(watch).tickets
=============================================================================
