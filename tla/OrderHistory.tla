---------------------------- MODULE OrderHistory ----------------------------
(***************************************************************************)
(* What an operator reads of an order in a dispute (admin.routes.ts): its  *)
(* ledger entries, and next to them whether its chain verifies.  The two   *)
(* SELECTs run at the same time on two connections, while transactions go  *)
(* on appending, so either may see more than the other.  One report at a   *)
(* time.                                                                   *)
(***************************************************************************)
EXTENDS Ledger

CONSTANT Global  \* the chain of the entries that are about no order

ASSUME GlobalIsAChain == Global \in Chains

VARIABLE report

historyVars == <<vars, report>>

Unread == [read |-> FALSE, rows |-> {}]
NoReport == [order |-> Null, history |-> Unread, integrity |-> Unread]

HistoryInit == Init /\ report = NoReport

\* GET /api/admin/orders/:reference/history
orderHistory(o) ==
    /\ report = NoReport
    /\ report' = [report EXCEPT !.order = o]

Read(E) == [read |-> TRUE, rows |-> E]

\* Mutation: the newest only, as in the list of all entries.
getRecentEntries ==
    /\ report.order # Null /\ ~report.history.read
    /\ LET E == OfChain(entries, report.order)
       IN  report' = [report EXCEPT !.history =
             Read({e \in E : Cardinality({f \in E : f.seq > e.seq}) < 2})]

getOrderHistory ==
    /\ report.order # Null /\ ~report.history.read
    /\ report' = [report EXCEPT !.history = Read(OfChain(entries, report.order))]

verifyOrder ==
    /\ report.order # Null /\ ~report.integrity.read
    /\ report' = [report EXCEPT !.integrity = Read(OfChain(entries, report.order))]

Answered == report.history.read /\ report.integrity.read

\* The answer is read and put away.
Dismiss == Answered /\ report' = NoReport

HistoryNext ==
    \/ Next /\ UNCHANGED report
    \/ /\ \/ \E o \in Chains \ {Global} : orderHistory(o)
          \/ getOrderHistory \/ verifyOrder \/ Dismiss
       /\ UNCHANGED vars

HistorySpec == HistoryInit /\ [][HistoryNext]_historyVars

-----------------------------------------------------------------------------
\* E is what the walk over F begins with.
BeginningOf(E, F) ==
    \/ E = {}
    \/ /\ Roots(F) # {}
       /\ LET walk == visit(F)
          IN  \E n \in DOMAIN walk : E = {walk[i] : i \in 1..n}

\* An answer in a dispute hangs together, whichever read came first and whatever
\* was appended between them: nobody having touched the chain, it verifies, and
\* of history and verified entries one is the beginning of the other, so that
\* what is listed but not verified, or verified but not listed, is only newer.
HistoryIsVouchedFor ==
    Answered =>
        /\ report.integrity.rows # {} => verifySingleChain(report.integrity.rows) = "valid"
        /\ \/ BeginningOf(report.history.rows, report.integrity.rows)
           \/ BeginningOf(report.integrity.rows, report.history.rows)
=============================================================================
