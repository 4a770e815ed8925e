------------------------------- MODULE Reports -------------------------------
(***************************************************************************)
(* What an organiser is shown of an event's tickets while they are issued  *)
(* and checked in: the stats and the buyers of admin.routes.ts, and the    *)
(* page that asks for them (Detail in AdminEventPage.tsx).  A report is    *)
(* several SELECTs in no transaction: each sees the event a little later   *)
(* than the one before.  The counters of seats are Inventory's and left    *)
(* out.  One report is made at a time, of the order that Doors is about.   *)
(***************************************************************************)
EXTENDS Doors, FiniteSets

ASSUME ItemsAreFinite == IsFiniteSet(Items)

VARIABLE report

reportVars == <<doorsVars, report>>

\* Which SELECT comes next.
Reading == {"tiers", "revenue", "admissions", "needsRefund", "buyers", "ticketCounts"}

NoReport == [pc |-> "closed", byTier |-> 0, paidOrders |-> 0, issued |-> 0, checkedIn |-> 0,
             refundRequired |-> 0, buyers |-> 0, fullyCheckedIn |-> FALSE]

ReportsInit == DoorsInit /\ report = NoReport

In(statuses) == Cardinality({k \in Ticket : ticket[k] \in statuses})

Issued == In({"issued", "checked_in", "void"})

PaidOrders == IF order.status = "paid" THEN 1 ELSE 0

\* Mutation: of paid orders only.
FlaggedAndPaid == IF order.refundRequired /\ order.status = "paid" THEN 1 ELSE 0

\* Whatever became of the order since.
Flagged == IF order.refundRequired THEN 1 ELSE 0

-----------------------------------------------------------------------------
\* The page is opened, or asks again after a tier was saved.
load ==
    /\ report.pc \in {"closed", "shown"}
    /\ report' = [NoReport EXCEPT !.pc = "tiers"]

\* GET /api/admin/events/:id/stats
stats ==
    \/ /\ report.pc = "tiers"
       /\ report' = [report EXCEPT !.pc = "revenue", !.byTier = Issued]
    \/ /\ report.pc = "revenue"
       /\ report' = [report EXCEPT !.pc = "admissions", !.paidOrders = PaidOrders]
    \/ /\ report.pc = "admissions"
       /\ report' = [report EXCEPT !.pc = "needsRefund", !.issued = Issued,
                                   !.checkedIn = In({"checked_in"})]
    \/ /\ report.pc = "needsRefund"
       /\ report' = [report EXCEPT !.pc = "shown", !.refundRequired = Flagged]

openBuyers ==
    /\ report.pc \in {"closed", "shown"}
    /\ report' = [NoReport EXCEPT !.pc = "buyers"]

\* GET /api/admin/events/:id/buyers
buyers ==
    \/ /\ report.pc = "buyers"
       /\ report' = [report EXCEPT !.pc = "ticketCounts", !.buyers = PaidOrders]
    \/ /\ report.pc = "ticketCounts"
       /\ LET present == In({"issued", "checked_in"})
          IN  report' = [report EXCEPT !.pc = "shown", !.fullyCheckedIn =
                /\ report.buyers > 0 /\ present > 0
                /\ present = In({"checked_in"})]

\* The request fails, or the page is left.
close ==
    /\ report.pc # "closed"
    /\ report' = NoReport

ReportsNext ==
    \/ DoorsNext /\ UNCHANGED report
    \/ (load \/ stats \/ openBuyers \/ buyers \/ close) /\ UNCHANGED doorsVars

ReportsSpec == ReportsInit /\ [][ReportsNext]_reportVars

-----------------------------------------------------------------------------
\* What is shown at once was read at several times, and yet it adds up: the total
\* covers what the tiers had, no ticket is shown without the order that paid for
\* it unless that was refunded, and a paid order that will get no tickets is among
\* those that need attention; nobody is shown as in who did not come in.
ReportAddsUp ==
    report.pc = "shown" =>
        /\ report.byTier <= report.issued
        /\ report.byTier > 0 => report.paidOrders > 0 \/ order.status = "refunded"
        /\ report.paidOrders > 0 /\ order.refundRequired => report.refundRequired > 0
        /\ report.checkedIn <= Cardinality({k \in Ticket : admissions[k] > 0})
        /\ report.fullyCheckedIn => \E k \in Ticket : admissions[k] > 0
=============================================================================
