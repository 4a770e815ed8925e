------------------------------- MODULE Purge --------------------------------
(***************************************************************************)
(* The daily job that deletes abandoned orders (purge.service.ts), beside  *)
(* the checkouts, expiries and settlements whose orders it must leave      *)
(* alone.  Orders are read as abandoned, deleted later without another     *)
(* look, payments and all, and written to the ledger after that, one by    *)
(* one.  Seats are Inventory's; how payments are settled is Settlement's.  *)
(***************************************************************************)
EXTENDS Naturals, FiniteSets

CONSTANTS
    Orders,
    Limit,      \* orders deleted in one pass
    MaxFaults   \* bound: crashes and throws of the job

ASSUME OrdersAreFinite == IsFiniteSet(Orders)
ASSUME LimitAssumption == Limit \in Nat \ {0}
ASSUME MaxFaultsAssumption == MaxFaults \in Nat

VARIABLES
    order,      \* [Orders -> the orders row]
    request,    \* [Orders -> where createCheckout is with it]
    payment,    \* [Orders -> its payments row: none, pending, over]
    ticketed,   \* orders with tickets
    old,        \* orders created before the cutoff
    job,        \* the job, and the orders it is about
    trail,      \* [Orders -> how many entries say it was purged]
    faults

checkoutVars == <<order, request, payment, ticketed>>
purgeVars == <<checkoutVars, old, job, trail, faults>>

NoOrder == [status |-> "none", released |-> FALSE]
Resting == [pc |-> "idle", left |-> {}]

PURGEABLE == {"expired", "failed", "cancelled"}

PurgeInit ==
    /\ order = [o \in Orders |-> NoOrder]
    /\ request = [o \in Orders |-> "idle"]
    /\ payment = [o \in Orders |-> "none"]
    /\ ticketed = {}
    /\ old = {}
    /\ job = Resting
    /\ trail = [o \in Orders |-> 0]
    /\ faults = 0

jobVars == <<job, trail, faults>>

-----------------------------------------------------------------------------
(* What becomes of orders otherwise. *)

Reserve(o) ==
    /\ request[o] = "idle"
    /\ order' = [order EXCEPT ![o].status = "pending"]
    /\ request' = [request EXCEPT ![o] = "charging"]
    /\ UNCHANGED <<payment, ticketed, old, jobVars>>

isHoldingInventory(row) == row.status \in {"pending", "awaiting_payment"} /\ ~row.released

Released(o, terminalStatus) ==
    order' = IF isHoldingInventory(order[o])
             THEN [order EXCEPT ![o] = [status |-> terminalStatus, released |-> TRUE]]
             ELSE order

\* The prompt is out, and the row is written whatever has become of the order.
RecordPayment(o) ==
    /\ request[o] = "charging"
    /\ order[o].status \notin {"none", "gone"}
    /\ payment' = [payment EXCEPT ![o] = "pending"]
    /\ order' = [order EXCEPT ![o].status = "awaiting_payment"]
    /\ request' = [request EXCEPT ![o] = "done"]
    /\ UNCHANGED <<ticketed, old, jobVars>>

\* There is no payment: the catch releases the order, or the process dies.
ChargeFails(o) ==
    /\ request[o] = "charging"
    /\ Released(o, "failed") \/ UNCHANGED order
    /\ request' = [request EXCEPT ![o] = "done"]
    /\ UNCHANGED <<payment, ticketed, old, jobVars>>

\* The buyer cancels, or the sweep finds the hold lapsed.
releaseOrder(o) ==
    /\ isHoldingInventory(order[o])
    /\ \E terminalStatus \in {"cancelled", "expired"} : Released(o, terminalStatus)
    /\ UNCHANGED <<request, payment, ticketed, old, jobVars>>

\* However late: a payment for a released order is still honoured.
applySettlement(o) ==
    /\ payment[o] = "pending"
    /\ payment' = [payment EXCEPT ![o] = "over"]
    /\ \/ Released(o, "failed")
       \/ order' = [order EXCEPT ![o] = [status |-> "paid", released |-> FALSE]]
    /\ UNCHANGED <<request, ticketed, old, jobVars>>

issueTickets(o) ==
    /\ order[o].status = "paid" /\ o \notin ticketed
    /\ ticketed' = ticketed \cup {o}
    /\ UNCHANGED <<order, request, payment, old, jobVars>>

\* The cutoff lies days back; no request takes as long.
Age(o) ==
    /\ request[o] = "done" /\ o \notin old
    /\ old' = old \cup {o}
    /\ UNCHANGED <<checkoutVars, jobVars>>

-----------------------------------------------------------------------------
(* purgeAbandonedOrders. *)

\* Mutation: the age does not matter.
candidatesOfAnyAge ==
    {o \in Orders : order[o].status \in PURGEABLE /\ payment[o] = "none" /\ o \notin ticketed}

candidates ==
    {o \in Orders : order[o].status \in PURGEABLE /\ o \in old
                    /\ payment[o] = "none" /\ o \notin ticketed}

\* As many rows as the limit lets through, any of them.
limited(rows) ==
    {ids \in SUBSET rows : /\ Cardinality(ids) <= Limit
                           /\ Cardinality(ids) < Limit => ids = rows}

\* Mutation: the ledger is told first.
SelectAndTell ==
    /\ job.pc = "idle" /\ candidates # {}
    /\ \E ids \in limited(candidates) :
         /\ job' = [pc |-> "delete", left |-> ids]
         /\ trail' = [o \in Orders |-> trail[o] + (IF o \in ids THEN 1 ELSE 0)]
    /\ UNCHANGED <<checkoutVars, old, faults>>

Select ==
    /\ job.pc = "idle" /\ candidates # {}
    /\ \E ids \in limited(candidates) : job' = [pc |-> "delete", left |-> ids]
    /\ UNCHANGED <<checkoutVars, old, trail, faults>>

\* The transaction: payments go with their order, tickets stop it.
Delete ==
    /\ job.pc = "delete"
    /\ IF job.left \cap ticketed # {}
       THEN job' = Resting /\ UNCHANGED <<order, payment>>
       ELSE /\ order' = [o \in Orders |-> IF o \in job.left THEN [order[o] EXCEPT !.status = "gone"]
                                          ELSE order[o]]
            /\ payment' = [o \in Orders |-> IF o \in job.left THEN "none" ELSE payment[o]]
            /\ job' = [job EXCEPT !.pc = "record"]
    /\ UNCHANGED <<request, ticketed, old, trail, faults>>

recordStandaloneTransition ==
    /\ job.pc = "record"
    /\ \E o \in job.left :
         /\ trail' = [trail EXCEPT ![o] = @ + 1]
         /\ job' = IF job.left = {o} THEN Resting ELSE [job EXCEPT !.left = @ \ {o}]
    /\ UNCHANGED <<checkoutVars, old, faults>>

\* A throw or a crash: the job is run again from the top, and so it is the day after.
JobFails ==
    /\ job.pc # "idle"
    /\ faults < MaxFaults /\ faults' = faults + 1
    /\ job' = Resting
    /\ UNCHANGED <<checkoutVars, old, trail>>

PurgeRun == Select \/ Delete \/ recordStandaloneTransition

-----------------------------------------------------------------------------
PurgeNext ==
    \/ \E o \in Orders :
         \/ Reserve(o) \/ RecordPayment(o) \/ ChargeFails(o) \/ releaseOrder(o)
         \/ applySettlement(o) \/ issueTickets(o) \/ Age(o)
    \/ PurgeRun \/ JobFails

PurgeSpec == PurgeInit /\ [][PurgeNext]_purgeVars

-----------------------------------------------------------------------------
PurgeTypeOK ==
    /\ order \in [Orders -> [status : PURGEABLE \cup {"none", "pending", "awaiting_payment",
                                                      "paid", "gone"},
                             released : BOOLEAN]]
    /\ request \in [Orders -> {"idle", "charging", "done"}]
    /\ payment \in [Orders -> {"none", "pending", "over"}]
    /\ ticketed \subseteq Orders
    /\ old \subseteq Orders
    /\ job \in [pc : {"idle", "delete", "record"}, left : SUBSET Orders]
    /\ job.pc = "idle" <=> job.left = {}
    /\ trail \in [Orders -> Nat]
    /\ faults \in 0..MaxFaults

\* The record of money that moved is never deleted, though nothing is looked at again
\* between the read and the delete, and a checkout under way may write its payment
\* for an order that has been cancelled.
RecordsAreKept ==
    [][\A o \in Orders : payment[o] # "none" \/ order[o].status = "paid" =>
          payment'[o] # "none" /\ order'[o].status # "gone"]_purgeVars

\* Deleted orders of which the ledger has no word, and the job none left to say.
Untold == {o \in Orders : /\ order[o].status = "gone" /\ trail[o] = 0
                          /\ ~(job.pc = "record" /\ o \in job.left)}

\* The ledger tells of each removal, once, and of nothing else, though the transaction
\* may fail and the job is run again; a failure costs the trail of one pass at most.
RemovalLeavesTrail ==
    /\ \A o \in Orders : trail[o] <= 1 /\ (trail[o] = 1 => order[o].status = "gone")
    /\ Cardinality(Untold) <= faults * Limit
=============================================================================
