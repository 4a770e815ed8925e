------------------------------- MODULE Tickets -------------------------------
(***************************************************************************)
(* The tickets of one order, from issuance to the gate:                    *)
(* services/tickets.service.ts and the worker that issues.                 *)
(*                                                                         *)
(* issueTicketsForOrder locks the order, and voidTicket the ticket, from   *)
(* first read to commit: one action each.  checkInTicket locks the ticket  *)
(* but reads the order without a lock, so there the order may change       *)
(* between the steps.  Any number of gates may scan a copy of one code.    *)
(***************************************************************************)
EXTENDS Naturals, Sequences

CONSTANTS
    Items,          \* order_items
    Quantity,       \* how many tickets each is for
    Gates,          \* scanners checking in at the same time
    NoTicket,
    MaxStory        \* bound: a ticket with a longer story is not voided again

ASSUME QuantityOK == Quantity \in [Items -> Nat \ {0}]
ASSUME MaxStoryOK == MaxStory \in Nat

Ticket == UNION {{i} \X (1..Quantity[i]) : i \in Items}

ASSUME NoTicketIsNull == NoTicket \notin Ticket

VARIABLES
    order,          \* status and metadata.refundRequired of the order
    ticket,         \* tickets.status by order item and sequence; none: no row
    gate,           \* each gate's check-in transaction: the row it locked and saw
    story,          \* ledger_entries of each ticket
    admissions      \* history: how often a gate let somebody in on the ticket

vars == <<order, ticket, gate, story, admissions>>

TicketStatuses == {"none", "issued", "checked_in", "void"}
OrderStatuses == {"awaiting_payment", "paid", "refunded"}

Idle == [pc |-> "idle", ticket |-> NoTicket, seen |-> "none"]

\* Of the row of a ticket its status matters here; "none": no row yet.
NoTickets == [k \in Ticket |-> "none"]

Init ==
    /\ order = [status |-> "awaiting_payment", refundRequired |-> FALSE]
    /\ ticket = NoTickets
    /\ gate = [g \in Gates |-> Idle]
    /\ story = [k \in Ticket |-> <<>>]
    /\ admissions = [k \in Ticket |-> 0]

Entry(from, to) == [from |-> from, to |-> to]

Locked(k) == \E g \in Gates : gate[g].ticket = k

-----------------------------------------------------------------------------
\* commitOrder, for a hold that stood or for one that lapsed.
PayOrder(refund) ==
    /\ order.status = "awaiting_payment"
    /\ order' = [status |-> "paid", refundRequired |-> refund]
    /\ UNCHANGED <<ticket, gate, story, admissions>>

\* External: no code sets refunded, an operator does.
RefundOrder ==
    /\ order.status = "paid"
    /\ order' = [order EXCEPT !.status = "refunded"]
    /\ UNCHANGED <<ticket, gate, story, admissions>>

-----------------------------------------------------------------------------
\* Mutation: a void ticket counts as one still to issue.
MissingOrVoid == {k \in Ticket : ticket[k] \in {"none", "void"}}

\* Rows are counted whatever became of the tickets since.
Missing == {k \in Ticket : ticket[k] = "none"}

issueTicketsForOrder ==
    /\ order.status = "paid"
    /\ ~order.refundRequired
    /\ ticket' = [k \in Ticket |-> IF k \in Missing THEN "issued" ELSE ticket[k]]
    /\ story' = [k \in Ticket |-> IF k \in Missing
                                  THEN Append(story[k], Entry("none", "issued"))
                                  ELSE story[k]]
    /\ UNCHANGED <<order, gate, admissions>>

-----------------------------------------------------------------------------
(* checkInTicket. *)

\* Mutation: a plain SELECT.
ScanUnlocked(g, k) ==
    /\ gate[g] = Idle
    /\ ticket[k] \notin {"none", "void"}
    /\ gate' = [gate EXCEPT ![g] = [pc |-> "scanned", ticket |-> k, seen |-> ticket[k]]]
    /\ UNCHANGED <<order, ticket, story, admissions>>

\* SELECT ... FOR UPDATE; a void ticket is turned away at once.
Scan(g, k) ==
    /\ gate[g] = Idle
    /\ ~Locked(k)
    /\ ticket[k] \notin {"none", "void"}
    /\ gate' = [gate EXCEPT ![g] = [pc |-> "scanned", ticket |-> k, seen |-> ticket[k]]]
    /\ UNCHANGED <<order, ticket, story, admissions>>

\* The order is read now, the ticket was when it was locked.
Judge(g) ==
    /\ gate[g].pc = "scanned"
    /\ gate' = [gate EXCEPT ![g] = IF order.status = "paid" /\ @.seen = "issued"
                                   THEN [@ EXCEPT !.pc = "admitting"]
                                   ELSE Idle]
    /\ UNCHANGED <<order, ticket, story, admissions>>

\* The UPDATE names the status issued, but nobody asks if it found the row.
Admit(g) ==
    LET k == gate[g].ticket
    IN  /\ gate[g].pc = "admitting"
        /\ ticket' = [ticket EXCEPT ![k] = IF @ = "issued" THEN "checked_in" ELSE @]
        /\ story' = [story EXCEPT ![k] = Append(@, Entry("issued", "checked_in"))]
        /\ admissions' = [admissions EXCEPT ![k] = @ + 1]
        /\ gate' = [gate EXCEPT ![g] = Idle]
        /\ UNCHANGED order

\* The transaction is rolled back: a timeout or a lost connection.
Abort(g) ==
    /\ gate[g] # Idle
    /\ gate' = [gate EXCEPT ![g] = Idle]
    /\ UNCHANGED <<order, ticket, story, admissions>>

-----------------------------------------------------------------------------
\* Mutation: every voided ticket is taken to have been issued and unused.
voidIssuedTicket(k) ==
    /\ ticket[k] # "none"
    /\ ~Locked(k)
    /\ Len(story[k]) <= MaxStory
    /\ ticket' = [ticket EXCEPT ![k] = "void"]
    /\ story' = [story EXCEPT ![k] = Append(@, Entry("issued", "void"))]
    /\ UNCHANGED <<order, gate, admissions>>

voidTicket(k) ==
    /\ ticket[k] # "none"
    /\ ~Locked(k)
    /\ Len(story[k]) <= MaxStory
    /\ ticket' = [ticket EXCEPT ![k] = "void"]
    /\ story' = [story EXCEPT ![k] = Append(@, Entry(ticket[k], "void"))]
    /\ UNCHANGED <<order, gate, admissions>>

-----------------------------------------------------------------------------
Next ==
    \/ \E refund \in BOOLEAN : PayOrder(refund)
    \/ RefundOrder
    \/ issueTicketsForOrder
    \/ \E g \in Gates :
         \/ \E k \in Ticket : Scan(g, k)
         \/ Judge(g) \/ Admit(g) \/ Abort(g)
    \/ \E k \in Ticket : voidTicket(k)

Spec == Init /\ [][Next]_vars

-----------------------------------------------------------------------------
Working == [pc : {"scanned", "admitting"}, ticket : Ticket, seen : {"issued", "checked_in"}]

TypeOK ==
    /\ order \in [status : OrderStatuses, refundRequired : BOOLEAN]
    /\ ticket \in [Ticket -> TicketStatuses]
    /\ gate \in [Gates -> Working \cup {Idle}]
    /\ story \in [Ticket -> Seq([from : TicketStatuses, to : TicketStatuses])]
    /\ admissions \in [Ticket -> Nat]

\* However many gates scan copies of one code at once, it admits one person.
AdmitsOnce == \A k \in Ticket : admissions[k] <= 1

\* The ledger tells each ticket's story without a gap: every entry leaves the
\* state that the one before it reached, and the last reached what the row says.
StoryConnects ==
    \A k \in Ticket :
        LET reached(n) == IF n = 0 THEN "none" ELSE story[k][n].to
        IN  /\ \A n \in DOMAIN story[k] : story[k][n].from = reached(n - 1)
            /\ ticket[k] = reached(Len(story[k]))

\* Nothing brings a void ticket back or admits on it: no gate that saw it before,
\* and no issuance job that runs again.
VoidIsFinal ==
    [][\A k \in Ticket : ticket[k] = "void" =>
          ticket'[k] = "void" /\ admissions'[k] = admissions[k]]_vars
=============================================================================
