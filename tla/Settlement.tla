----------------------------- MODULE Settlement -----------------------------
(***************************************************************************)
(* From the basket to the tickets: createCheckout's call to M-Pesa, the    *)
(* callback and the reconciler that race to settle the payment, the expiry *)
(* worker and the buyer who cancel the hold meanwhile, and ticket          *)
(* issuance.  Every database transaction, queue.add and call to Daraja is  *)
(* a step of its own, and any two processes interleave between them.       *)
(*                                                                         *)
(* The rows of ticket_tiers and orders change by the actions of Inventory. *)
(* An order has one attempt to pay: no code path makes a second payments   *)
(* row for it.                                                             *)
(***************************************************************************)
EXTENDS Integers, FiniteSets

CONSTANTS
    Tiers, Orders, NoCap, Totals, TierStatuses, MinPerOrder, MaxPerOrder,
    Outcomes,       \* how M-Pesa may decide an attempt, the buyer's doing included
    ContraryNews,   \* whether a callback may contradict what the query API says
    MAX_ATTEMPTS,   \* of the reconciler
    MaxFaults       \* crashes, lost replies and failed transactions or queue.adds

Decisions == {"succeeded", "underpaid", "cancelled", "failed"}

\* What Inventory assumes.
ASSUME SeatsOK ==
    /\ IsFiniteSet(Orders)
    /\ NoCap \notin Int
    /\ Totals \subseteq (Nat \ {0}) \cup {NoCap}
    /\ {"active", "closed"} \subseteq TierStatuses
    /\ MinPerOrder \in Nat \ {0} /\ MaxPerOrder \in Nat /\ MaxPerOrder >= MinPerOrder
ASSUME OutcomesOK == Outcomes \subseteq Decisions
ASSUME ContraryNewsOK == ContraryNews \in BOOLEAN
ASSUME BoundsOK == MAX_ATTEMPTS \in Nat \ {0} /\ MaxFaults \in Nat

VARIABLES
    tier, order, soldTo,    \* see Inventory
    checkout,       \* where createCheckout's request for the order is
    gw,             \* external: what M-Pesa knows of the attempt
    payment,        \* status of the payments row
    handler,        \* where each applySettlement for the payment is
    attempt,        \* of the reconcile job in the queue; 0: never queued
    after,          \* what follows settlement: issuance job, tickets, mails
    lapsed,         \* orders whose reserved_until has passed
    faults          \* faults so far

seatVars == <<tier, order, soldTo>>
vars == <<tier, order, soldTo, checkout, gw, payment, handler, attempt, after, lapsed, faults>>

Seats == INSTANCE Inventory

(* Callbacks are deduplicated on attempt and result code; one code stands  *)
(* for each kind, worked on once at most.  The third is the reconciler.    *)
Callbacks == {"success", "failure"}
Sources == Callbacks \cup {"query"}

CheckoutStates == {"idle", "charging", "recording", "scheduling", "releasing", "done"}

HandlerStates == {"idle", "claiming", "confirming", "settling", "committing",
                  "releasing", "issuing", "notifying", "done"}

\* timeout settles as failed does, so it is not told apart from it.
PaymentStatuses == {"none", "pending", "succeeded", "failed", "cancelled"}

\* A row of payments is an attempt; its order makes no other.
NoPayments == [o \in Orders |-> "none"]

\* A delivery is a row of webhook_events, of which dedupe_key is unique.
NoDeliveries == [o \in Orders |-> [s \in Sources |-> "idle"]]

Init ==
    /\ Seats!Init
    /\ checkout = [o \in Orders |-> "idle"]
    /\ gw = [o \in Orders |-> "none"]
    /\ payment = NoPayments
    /\ handler = NoDeliveries
    /\ attempt = [o \in Orders |-> 0]
    /\ after = [o \in Orders |-> [job |-> "none", tickets |-> FALSE, mails |-> {}]]
    /\ lapsed = {}
    /\ faults = 0

Fault == faults < MaxFaults /\ faults' = faults + 1

Goto(o, s, pc) == handler' = [handler EXCEPT ![o][s] = pc]

\* The two operations of the inventory service, early returns included.
Release(o, terminalStatus) ==
    IF Seats!isHoldingInventory(order[o])
    THEN Seats!releaseOrder(o, terminalStatus)
    ELSE UNCHANGED seatVars

Commit(o) ==
    IF order[o].status = "paid" THEN UNCHANGED seatVars ELSE Seats!commitOrder(o)

-----------------------------------------------------------------------------
(* createCheckout. *)

CheckoutVars == <<handler, after, lapsed>>

\* A queue.add that throws goes to the catch.
scheduleOrderExpiry(o) ==
    \/ checkout' = [checkout EXCEPT ![o] = "charging"] /\ UNCHANGED faults
    \/ checkout' = [checkout EXCEPT ![o] = "releasing"] /\ Fault

\* The hold.
Reserve(o, basket) ==
    /\ checkout[o] = "idle"
    /\ Seats!Reserve(o, basket)
    /\ scheduleOrderExpiry(o)
    /\ UNCHANGED <<gw, payment, attempt, CheckoutVars>>

\* The access token in the caches, which Daraja may reject before its time, or
\* one that is minted, or neither.
getAccessToken == {"accepted", "rejected", "none"}

\* What a request sent with the token may come to: a prompt, which the reply may
\* fail to tell of.
fetchWithTimeout(token) ==
    {[prompts |-> FALSE, replies |-> FALSE]}
        \cup (IF token = "accepted" THEN [prompts : {TRUE}, replies : BOOLEAN] ELSE {})

isInvalidTokenResponse(token) == token = "rejected"

\* The push is sent once more only when its token was rejected: nobody is prompted
\* twice.
stkPush ==
    UNION {IF isInvalidTokenResponse(token)
           THEN UNION {fetchWithTimeout(fresh) : fresh \in getAccessToken}
           ELSE fetchWithTimeout(token) : token \in getAccessToken}

Charge(o) ==
    /\ checkout[o] = "charging"
    /\ \E push \in stkPush :
         /\ gw' = IF push.prompts THEN [gw EXCEPT ![o] = "prompted"] ELSE gw
         /\ checkout' = [checkout EXCEPT ![o] = IF push.replies THEN "recording" ELSE "releasing"]
         /\ IF push.prompts /\ ~push.replies THEN Fault ELSE UNCHANGED faults
    /\ UNCHANGED <<seatVars, payment, attempt, CheckoutVars>>

RecordPayment(o) ==
    /\ checkout[o] = "recording"
    /\ \/ /\ Seats!StartPayment(o)
          /\ payment' = [payment EXCEPT ![o] = "pending"]
          /\ checkout' = [checkout EXCEPT ![o] = "scheduling"]
          /\ UNCHANGED faults
       \/ /\ checkout' = [checkout EXCEPT ![o] = "releasing"]
          /\ Fault
          /\ UNCHANGED <<seatVars, payment>>
    /\ UNCHANGED <<gw, attempt, CheckoutVars>>

scheduleReconcile(o) ==
    /\ checkout[o] = "scheduling"
    /\ \/ /\ attempt' = [attempt EXCEPT ![o] = 1]
          /\ checkout' = [checkout EXCEPT ![o] = "done"]
          /\ UNCHANGED faults
       \/ /\ checkout' = [checkout EXCEPT ![o] = "releasing"]
          /\ Fault
          /\ UNCHANGED attempt
    /\ UNCHANGED <<seatVars, gw, payment, CheckoutVars>>

\* The catch.  A release that throws is logged and left to the expiry worker.
ReleaseUncharged(o) ==
    /\ checkout[o] = "releasing"
    /\ checkout' = [checkout EXCEPT ![o] = "done"]
    /\ \/ Release(o, "failed") /\ UNCHANGED faults
       \/ Fault /\ UNCHANGED seatVars
    /\ UNCHANGED <<gw, payment, attempt, CheckoutVars>>

Checkout(o) ==
    Charge(o) \/ RecordPayment(o) \/ scheduleReconcile(o) \/ ReleaseUncharged(o)

CheckoutCrash(o) ==
    /\ checkout[o] \notin {"idle", "done"}
    /\ checkout' = [checkout EXCEPT ![o] = "done"]
    /\ Fault
    /\ UNCHANGED <<seatVars, gw, payment, attempt, CheckoutVars>>

-----------------------------------------------------------------------------
(* The hold ends: by the buyer, or by the clock and the expiry worker.     *)

HoldVars == <<checkout, gw, payment, handler, attempt, after, faults>>

cancelOrder(o) ==
    /\ Seats!Exists(o)
    /\ order[o].status # "paid"
    /\ Seats!releaseOrder(o, "cancelled")
    /\ UNCHANGED <<lapsed, HoldVars>>

Lapse(o) ==
    /\ Seats!Exists(o)
    /\ o \notin lapsed
    /\ lapsed' = lapsed \cup {o}
    /\ UNCHANGED <<seatVars, HoldVars>>

\* Mutation: the sweep overlooks orders that wait for a payment.
ExpirePending(o) ==
    /\ o \in lapsed
    /\ order[o].status = "pending"
    /\ Seats!releaseOrder(o, "expired")
    /\ UNCHANGED <<lapsed, HoldVars>>

\* The delayed job and the sweep come to the same call, and the sweep comes
\* every minute, so the job may be lost.
Expire(o) ==
    /\ o \in lapsed
    /\ Seats!releaseOrder(o, "expired")
    /\ UNCHANGED <<lapsed, HoldVars>>

-----------------------------------------------------------------------------
(* External: the buyer's phone and M-Pesa.                                 *)

Decide(o, outcome) ==
    /\ gw[o] = "prompted"
    /\ gw' = [gw EXCEPT ![o] = outcome]
    /\ UNCHANGED <<seatVars, checkout, payment, handler, attempt, after, lapsed, faults>>

TookMoney(o) == gw[o] \in {"succeeded", "underpaid"}

Agrees(o, kind) == (kind = "success") <=> TookMoney(o)

-----------------------------------------------------------------------------
(* The webhook route: a delivery not seen before is applied.  Callbacks    *)
(* may be lost, late, and repeated; a repetition is dropped.               *)

\* The delivery is stored, unless one with its dedupe_key was.
isNew(o, kind) == handler[o][kind] = "idle"

\* A callback that is not true may also come while the prompt is open.
Deliver(o, kind) ==
    /\ IF ContraryNews THEN gw[o] # "none" ELSE gw[o] \in Decisions /\ Agrees(o, kind)
    /\ isNew(o, kind)
    /\ Goto(o, kind, "claiming")
    /\ UNCHANGED <<seatVars, checkout, gw, payment, attempt, after, lapsed, faults>>

-----------------------------------------------------------------------------
(* The reconciler: one job per attempt; an inconclusive one queues the     *)
(* next, and after the last there is none.                                 *)

Exhausted(o) == attempt[o] > MAX_ATTEMPTS

\* The status query tells what M-Pesa decided, or does not answer, as it does not
\* while the prompt is open.
stkQuery(o) == {"no answer"} \cup ({gw[o]} \cap Decisions)

ReconcileVars == <<seatVars, checkout, gw, payment, after, lapsed, faults>>

Reconciling(o) ==
    /\ attempt[o] \in 1..MAX_ATTEMPTS
    /\ handler[o]["query"] = "idle"

\* already_succeeded and the like: nothing is left to do.
ReconcileSettled(o) ==
    /\ Reconciling(o)
    /\ payment[o] # "pending"
    /\ Goto(o, "query", "done")
    /\ UNCHANGED <<attempt, ReconcileVars>>

\* Mutation: an inconclusive query is not tried again.
ReconcileInconclusiveOnce(o) ==
    /\ Reconciling(o)
    /\ payment[o] = "pending"
    /\ Goto(o, "query", "done")
    /\ UNCHANGED <<attempt, ReconcileVars>>

ReconcileInconclusive(o) ==
    /\ Reconciling(o)
    /\ payment[o] = "pending"
    /\ "no answer" \in stkQuery(o)
    /\ attempt' = [attempt EXCEPT ![o] = @ + 1]
    /\ UNCHANGED <<handler, ReconcileVars>>

ReconcileDecided(o) ==
    /\ Reconciling(o)
    /\ payment[o] = "pending"
    /\ stkQuery(o) \ {"no answer"} # {}
    /\ Goto(o, "query", "claiming")
    /\ UNCHANGED <<attempt, ReconcileVars>>

Reconcile(o) == ReconcileSettled(o) \/ ReconcileInconclusive(o) \/ ReconcileDecided(o)

-----------------------------------------------------------------------------
(* applySettlement, for each of the sources.                               *)

\* Result codes do not tell how much was paid.
mapResultCode(decision) == IF decision = "underpaid" THEN "succeeded" ELSE decision

\* A callback says what it says; the query API says what M-Pesa decided.
Success(o, s) == IF s = "query" THEN mapResultCode(gw[o]) = "succeeded" ELSE s = "success"
Underpaid(o, s) == s = "success" /\ gw[o] = "underpaid"

FailedAs(o) == IF mapResultCode(gw[o]) = "cancelled" THEN "cancelled" ELSE "failed"

\* The conditional UPDATE.  claimed_at is stamped here and cleared later, and no
\* condition reads it, so it is left out: the row stays pending, and claimable.
Claim(o, s) ==
    /\ handler[o][s] = "claiming"
    /\ Goto(o, s, IF payment[o] # "pending" THEN "done"
                  ELSE IF s = "success" THEN "confirming" ELSE "settling")
    /\ UNCHANGED <<seatVars, payment, after>>

\* Mutation: a reported success counts without asking.
ConfirmUnasked(o, s) ==
    /\ handler[o][s] = "confirming"
    /\ Goto(o, s, "settling")
    /\ UNCHANGED <<seatVars, payment, after>>

\* Only a success that the query confirms goes on.
Confirm(o, s) ==
    /\ handler[o][s] = "confirming"
    /\ \E answer \in stkQuery(o) :
         Goto(o, s, IF mapResultCode(answer) = "succeeded" THEN "settling" ELSE "done")
    /\ UNCHANGED <<seatVars, payment, after>>

\* The transactions that end the payment do not look at its status.
settleSuccess(o, s) ==
    /\ Success(o, s)
    /\ payment' = [payment EXCEPT ![o] = IF Underpaid(o, s) THEN "failed" ELSE "succeeded"]
    /\ Goto(o, s, IF Underpaid(o, s) THEN "releasing" ELSE "committing")

settleFailure(o, s) ==
    /\ ~Success(o, s)
    /\ payment' = [payment EXCEPT ![o] = FailedAs(o)]
    /\ Goto(o, s, "releasing")

Settle(o, s) ==
    /\ handler[o][s] = "settling"
    /\ settleSuccess(o, s) \/ settleFailure(o, s)
    /\ UNCHANGED <<seatVars, after>>

\* Only settleFailure tells the buyer; underpayment ends with the release.
ReleaseUnpaid(o, s) ==
    /\ handler[o][s] = "releasing"
    /\ Release(o, FailedAs(o))
    /\ Goto(o, s, IF Underpaid(o, s) THEN "done" ELSE "notifying")
    /\ UNCHANGED <<payment, after>>

\* Mutation: an order that was flagged or already paid is not followed up, nor is
\* one whose hold had lapsed.
CommitPaidHeldOnly(o, s) ==
    /\ handler[o][s] = "committing"
    /\ Commit(o)
    /\ Goto(o, s, IF order[o].status = "paid" \/ order[o].released THEN "done" ELSE "issuing")
    /\ UNCHANGED <<payment, after>>

\* Mutation: the order is marked paid here, whatever became of its hold.
CommitPaidUnheld(o, s) ==
    /\ handler[o][s] = "committing"
    /\ order' = [order EXCEPT ![o].status = "paid"]
    /\ Goto(o, s, "issuing")
    /\ UNCHANGED <<tier, soldTo, payment, after>>

\* Mutation: a refund that is due is left to the issuance job to report.
CommitPaidSilent(o, s) ==
    /\ handler[o][s] = "committing"
    /\ Commit(o)
    /\ Goto(o, s, "issuing")
    /\ UNCHANGED <<payment, after>>

\* A second commit reports no refund even when the first one did.
CommitPaid(o, s) ==
    /\ handler[o][s] = "committing"
    /\ Commit(o)
    /\ Goto(o, s, IF order[o].status # "paid" /\ order'[o].refundRequired
                  THEN "notifying" ELSE "issuing")
    /\ UNCHANGED <<payment, after>>

\* enqueueNotification, kind order-failed: settleFailure, or a refund is due.
Notify(o, s) ==
    /\ handler[o][s] = "notifying"
    /\ after' = [after EXCEPT ![o].mails = @ \cup {"order-failed"}]
    /\ Goto(o, s, "done")
    /\ UNCHANGED <<seatVars, payment>>

\* A job with this id is not queued twice.
enqueueTicketIssuance(o, s) ==
    /\ handler[o][s] = "issuing"
    /\ after' = [after EXCEPT ![o].job = IF @ = "none" THEN "queued" ELSE @]
    /\ Goto(o, s, "done")
    /\ UNCHANGED <<seatVars, payment>>

applySettlement(o, s) ==
    /\ \/ Claim(o, s) \/ Confirm(o, s) \/ Settle(o, s) \/ ReleaseUnpaid(o, s)
       \/ CommitPaid(o, s) \/ Notify(o, s) \/ enqueueTicketIssuance(o, s)
    /\ UNCHANGED <<checkout, gw, attempt, lapsed, faults>>

\* A throw or a crash between two steps.  The route swallows it and has seen the
\* delivery; the reconcile job is run again from the top.
SettlementFails(o, s) ==
    /\ handler[o][s] \notin {"idle", "done"}
    /\ Goto(o, s, IF s = "query" THEN "idle" ELSE "done")
    /\ Fault
    /\ UNCHANGED <<seatVars, checkout, gw, payment, attempt, after, lapsed>>

-----------------------------------------------------------------------------
(* The issuance worker: all tickets of the order and a mail, or neither.   *)

issuanceVars == <<seatVars, checkout, gw, payment, handler, attempt, lapsed, faults>>

\* Mutation: the refund flag is not looked at.
IssueTicketsFlagged(o) ==
    /\ after[o].job = "queued"
    /\ after' = [after EXCEPT ![o].job = "done", ![o].tickets = (order[o].status = "paid")]
    /\ UNCHANGED issuanceVars

IssueTickets(o) ==
    /\ after[o].job = "queued"
    /\ IF order[o].status = "paid" /\ ~order[o].refundRequired
       THEN after' = [after EXCEPT ![o].job = "done", ![o].tickets = TRUE,
                                   ![o].mails = @ \cup {"tickets-issued"}]
       ELSE after' = [after EXCEPT ![o].job = "done"]
    /\ UNCHANGED issuanceVars

-----------------------------------------------------------------------------
ChangeTier(t) ==
    /\ Seats!ChangeTier(t)
    /\ UNCHANGED <<checkout, gw, payment, handler, attempt, after, lapsed, faults>>

Next ==
    \/ \E o \in Orders :
         \/ \E basket \in Seats!Basket : Reserve(o, basket)
         \/ Checkout(o)
         \/ CheckoutCrash(o)
         \/ cancelOrder(o)
         \/ Lapse(o)
         \/ Expire(o)
         \/ \E outcome \in Outcomes : Decide(o, outcome)
         \/ \E kind \in Callbacks : Deliver(o, kind)
         \/ Reconcile(o)
         \/ \E s \in Sources : applySettlement(o, s) \/ SettlementFails(o, s)
         \/ IssueTickets(o)
    \/ \E t \in Tiers : ChangeTier(t)

Spec == Init /\ [][Next]_vars

\* The workers run, so a job that is queued is worked on.
startWorkers(o) ==
    /\ WF_vars(Reconcile(o))
    /\ WF_vars(applySettlement(o, "query"))
    /\ WF_vars(IssueTickets(o))

\* The sweep comes again and again, whatever became of the delayed job.
registerRepeatableJobs(o) == WF_vars(Expire(o))

(* A running process takes its next step, a queued job is run and time     *)
(* passes.  Nothing makes a buyer answer the prompt or a callback arrive.  *)
Fairness ==
    \A o \in Orders :
        /\ WF_vars(Checkout(o))
        /\ WF_vars(Lapse(o))
        /\ \A kind \in Callbacks : WF_vars(applySettlement(o, kind))
        /\ startWorkers(o)
        /\ registerRepeatableJobs(o)

FairSpec == Spec /\ Fairness

-----------------------------------------------------------------------------
TypeOK ==
    /\ Seats!TypeOK
    /\ checkout \in [Orders -> CheckoutStates]
    /\ gw \in [Orders -> {"none", "prompted"} \cup Outcomes]
    /\ payment \in [Orders -> PaymentStatuses]
    /\ handler \in [Orders -> [Sources -> HandlerStates]]
    /\ attempt \in [Orders -> 0..(MAX_ATTEMPTS + 1)]
    /\ after \in [Orders -> [job : {"none", "queued", "done"}, tickets : BOOLEAN,
                             mails : SUBSET {"order-failed", "tickets-issued"}]]
    /\ lapsed \in SUBSET Orders
    /\ faults \in 0..MaxFaults

\* Whatever the callbacks claim and whichever processes die, an order is paid and
\* has tickets only when M-Pesa took money for it.
PaidOnlyIfCharged ==
    \A o \in Orders : order[o].status = "paid" \/ after[o].tickets => TookMoney(o)

\* An order with tickets is paid, wants no refund, and owns the seats they admit
\* to; a refund flag set by one handler is respected by the job of another.
TicketsHaveSeats ==
    \A o \in Orders : after[o].tickets =>
        /\ order[o].status = "paid"
        /\ ~order[o].refundRequired
        /\ soldTo[o] = Seats!InBasket(order[o].items)

\* Every hold ends, in a sale or with the seats back on sale, whatever crashed.
SeatsComeBack ==
    \A o \in Orders : Seats!isHoldingInventory(order[o]) ~> ~Seats!isHoldingInventory(order[o])

\* Money taken for a recorded attempt makes the order paid, unless the reconciler
\* runs out of attempts first, or a callback says the contrary, which nobody
\* checks when it is a failure; callbacks may all be lost.
PaidOrExhausted(o) == order[o].status = "paid" \/ Exhausted(o)

Contradicted(o) == \E kind \in Callbacks : ~Agrees(o, kind) /\ handler[o][kind] # "idle"

MoneyHonoured ==
    \A o \in Orders :
        gw[o] = "succeeded" /\ payment[o] = "pending"
            ~> PaidOrExhausted(o) \/ Contradicted(o) \/ faults > 0

\* A paid order that wants no refund gets its tickets, late payments included.
TicketsFollow ==
    \A o \in Orders :
        order[o].status = "paid" /\ ~order[o].refundRequired
            ~> after[o].tickets \/ faults > 0

\* Whoever answered the prompt hears of it, by the tickets or by a mail that says
\* the order failed; an underpayment alone ends without a word.
BuyerIsTold ==
    \A o \in Orders :
        gw[o] \in Decisions \ {"underpaid"} /\ payment[o] = "pending"
            ~> after[o].mails # {} \/ Exhausted(o) \/ faults > 0

\* Checkout, settlement and expiry change the seats as Inventory allows, so that
\* all that holds of Inventory holds here.
KeepsInventory == Seats!Spec

-----------------------------------------------------------------------------
(* What the repository says and the code does not do.                      *)

\* webhooks.routes.ts: nothing is lost by failing, the reconciler settles it; so whoever
\* paid gets tickets or a refund, unless the reconciler ran out of attempts.
NothingLostByFailing ==
    \A o \in Orders :
        gw[o] = "succeeded" /\ payment[o] = "pending"
            ~> \/ Exhausted(o)
               \/ order[o].status = "paid" /\ (after[o].tickets \/ order[o].refundRequired)
=============================================================================
