---------------------------- MODULE TicketsProofs ----------------------------
(***************************************************************************)
(* One person per ticket and a ledger without gaps, for any order and any  *)
(* number of gates; then, for any number of links, phones and hours, the   *)
(* doors in front of the gates; then what an organiser is shown of both.   *)
(*                                                                         *)
(* The first rest on the row lock: a gate that works on a ticket is alone  *)
(* with it, so what it saw when it locked the row still holds when it      *)
(* writes (SeenIsCurrent), and a ticket that is still issued has admitted  *)
(* nobody (AdmittedIsUsed).                                                *)
(*                                                                         *)
(* The doors do to tickets only what Tickets allows, so what is shown of   *)
(* it holds behind them.  A link ends at most LongestTtl after any hour,   *)
(* so a denylist entry of LongestTtl outlives it (OutlivesLink); a phone   *)
(* waits for the check-in that works on the ticket it sent (WaitsForIts).  *)
(*                                                                         *)
(* A report reads at several times; that it adds up rests on what no step  *)
(* takes back (Onward): a ticket stays issued, a person stays in, an order *)
(* stays paid or refunded.                                                 *)
(***************************************************************************)
EXTENDS Reports, FiniteSetTheorems, TLAPS

-----------------------------------------------------------------------------
(* The tickets of an order. *)

Busy(g) == gate[g] # Idle

\* No two check-in transactions lock one row.
LocksExclude ==
    \A g, h \in Gates : Busy(g) /\ gate[g].ticket = gate[h].ticket => g = h

\* A locked row is as it was when it was locked.
SeenIsCurrent ==
    \A g \in Gates : Busy(g) =>
        /\ ticket[gate[g].ticket] = gate[g].seen
        /\ gate[g].pc = "admitting" => gate[g].seen = "issued"

\* Somebody was let in at most once, and never on a ticket still issued.
AdmittedIsUsed ==
    \A k \in Ticket : /\ admissions[k] <= 1
                      /\ ticket[k] \in {"none", "issued"} => admissions[k] = 0

IInv ==
    /\ TypeOK
    /\ LocksExclude
    /\ SeenIsCurrent
    /\ AdmittedIsUsed
    /\ StoryConnects

-----------------------------------------------------------------------------
\* An idle gate locks no ticket, and a busy one is at work on one.
LEMMA GateShape ==
    ASSUME TypeOK, NEW g \in Gates
    PROVE  /\ Busy(g) <=> gate[g].ticket \in Ticket
           /\ Busy(g) <=> gate[g].pc # "idle"
           /\ Busy(g) => gate[g] \in Working
           /\ ~Busy(g) => gate[g].ticket = NoTicket
<1>1. gate[g] \in Working \cup {Idle}
  BY DEF TypeOK
<1> QED
  BY <1>1, NoTicketIsNull DEF Busy, Working, Idle

\* A story that connects still does with an entry that leaves the last state.
LEMMA StoryGrows ==
    ASSUME NEW S, NEW s \in Seq([from : S, to : S]), NEW e \in [from : S, to : S],
           NEW start,
           \A n \in DOMAIN s : s[n].from = IF n - 1 = 0 THEN start ELSE s[n - 1].to,
           e.from = IF Len(s) = 0 THEN start ELSE s[Len(s)].to
    PROVE  LET t == Append(s, e)
           IN  /\ t \in Seq([from : S, to : S])
               /\ Len(t) = Len(s) + 1
               /\ \A n \in DOMAIN t : t[n].from = IF n - 1 = 0 THEN start ELSE t[n - 1].to
               /\ t[Len(t)].to = e.to
<1> DEFINE t == Append(s, e)
<1>1. /\ t \in Seq([from : S, to : S])
      /\ DOMAIN t = 1..(Len(s) + 1)
      /\ DOMAIN s = 1..Len(s)
      /\ t[Len(s) + 1] = e
      /\ \A n \in 1..Len(s) : t[n] = s[n]
      /\ Len(t) = Len(s) + 1
      /\ Len(s) \in Nat
  OBVIOUS
<1> HIDE DEF t
<1>2. ASSUME NEW n \in DOMAIN t
      PROVE  t[n].from = IF n - 1 = 0 THEN start ELSE t[n - 1].to
  <2>1. CASE n \in 1..Len(s)
    <3>1. t[n] = s[n] /\ (n - 1 # 0 => t[n - 1] = s[n - 1])
      BY <1>1, <2>1
    <3> QED
      BY <1>1, <2>1, <3>1
  <2>2. CASE n = Len(s) + 1
    <3>1. t[n] = e /\ n - 1 = Len(s) /\ (Len(s) # 0 => t[Len(s)] = s[Len(s)])
      BY <1>1, <2>2
    <3> QED
      BY <1>1, <3>1
  <2> QED
    BY <1>1, <2>1, <2>2
<1> QED
  BY <1>1, <1>2 DEF t

\* What StoryConnects says of one ticket.
Connects(s, status) ==
    /\ \A n \in DOMAIN s : s[n].from = IF n - 1 = 0 THEN "none" ELSE s[n - 1].to
    /\ status = IF Len(s) = 0 THEN "none" ELSE s[Len(s)].to

LEMMA ConnectsAll == StoryConnects <=> \A k \in Ticket : Connects(story[k], ticket[k])
BY Zenon DEF StoryConnects, Connects

\* An entry from what the row said to what it says now keeps a story connected.
LEMMA EntryConnects ==
    ASSUME NEW s \in Seq([from : TicketStatuses, to : TicketStatuses]),
           NEW from \in TicketStatuses, NEW to \in TicketStatuses, Connects(s, from)
    PROVE  /\ Append(s, Entry(from, to)) \in Seq([from : TicketStatuses, to : TicketStatuses])
           /\ Connects(Append(s, Entry(from, to)), to)
<1> DEFINE e == Entry(from, to)
<1>1. e \in [from : TicketStatuses, to : TicketStatuses] /\ e.from = from /\ e.to = to
  BY DEF Entry
<1> HIDE DEF e
<1>2. /\ Append(s, e) \in Seq([from : TicketStatuses, to : TicketStatuses])
      /\ Len(Append(s, e)) = Len(s) + 1
      /\ \A n \in DOMAIN Append(s, e) :
            Append(s, e)[n].from = IF n - 1 = 0 THEN "none" ELSE Append(s, e)[n - 1].to
      /\ Append(s, e)[Len(Append(s, e))].to = to
  BY <1>1, StoryGrows DEF Connects
<1>3. Len(s) + 1 # 0
  OBVIOUS
<1> QED
  BY <1>2, <1>3 DEF Connects, e

-----------------------------------------------------------------------------
LEMMA InitIInv == Init => IInv
<1> SUFFICES ASSUME Init PROVE IInv
  OBVIOUS
<1>1. TypeOK
  BY DEF Init, NoTickets, TypeOK, OrderStatuses, TicketStatuses
<1>2. LocksExclude /\ SeenIsCurrent
  BY DEF Init, NoTickets, LocksExclude, SeenIsCurrent, Busy
<1>3. AdmittedIsUsed
  BY DEF Init, NoTickets, AdmittedIsUsed
<1>4. StoryConnects
  BY ConnectsAll DEF Init, NoTickets, Connects
<1> QED
  BY <1>1, <1>2, <1>3, <1>4 DEF IInv

\* A transaction that does not touch tickets, gates or the ledger.
LEMMA OrderStep ==
    ASSUME IInv, order' \in [status : OrderStatuses, refundRequired : BOOLEAN],
           UNCHANGED <<ticket, gate, story, admissions>>
    PROVE  IInv'
<1>1. TypeOK'
  BY DEF IInv, TypeOK
<1>2. (LocksExclude /\ SeenIsCurrent /\ AdmittedIsUsed)'
  BY DEF IInv, LocksExclude, SeenIsCurrent, AdmittedIsUsed, Busy
<1>3. StoryConnects'
  BY DEF IInv, StoryConnects
<1> QED
  BY <1>1, <1>2, <1>3 DEF IInv

LEMMA IssueStep ==
    ASSUME IInv, issueTicketsForOrder
    PROVE  IInv'
<1> USE DEF IInv
<1>1. ASSUME NEW k \in Ticket
      PROVE  /\ ticket'[k] \in TicketStatuses
             /\ story'[k] \in Seq([from : TicketStatuses, to : TicketStatuses])
             /\ Connects(story'[k], ticket'[k])
  <2>1. Connects(story[k], ticket[k])
    BY ConnectsAll
  <2>2. CASE k \in Missing
    <3>1. ticket[k] = "none" /\ story[k] \in Seq([from : TicketStatuses, to : TicketStatuses])
      BY <2>2 DEF Missing, TypeOK
    <3>2. "none" \in TicketStatuses /\ "issued" \in TicketStatuses
      BY DEF TicketStatuses
    <3>3. ticket'[k] = "issued" /\ story'[k] = Append(story[k], Entry("none", "issued"))
      BY <2>2 DEF issueTicketsForOrder
    <3> QED
      BY <2>1, <3>1, <3>2, <3>3, EntryConnects
  <2>3. CASE k \notin Missing
    BY <2>1, <2>3 DEF issueTicketsForOrder, TypeOK
  <2> QED
    BY <2>2, <2>3
<1>2. TypeOK'
  BY <1>1 DEF TypeOK, issueTicketsForOrder
<1>3. StoryConnects'
  <2>1. \A k \in Ticket : Connects(story'[k], ticket'[k])
    BY <1>1
  <2> QED
    BY <2>1, Zenon DEF StoryConnects, Connects
<1>4. SeenIsCurrent'
  <2>1. ASSUME NEW g \in Gates, Busy(g)
        PROVE  ticket'[gate[g].ticket] = ticket[gate[g].ticket]
    <3>1. gate[g].ticket \in Ticket /\ ticket[gate[g].ticket] # "none"
      BY <2>1, GateShape DEF SeenIsCurrent, Working
    <3> QED
      BY <3>1 DEF issueTicketsForOrder, Missing
  <2> QED
    BY <2>1 DEF SeenIsCurrent, issueTicketsForOrder, Busy
<1>5. LocksExclude'
  BY DEF LocksExclude, issueTicketsForOrder, Busy
<1>6. AdmittedIsUsed'
  BY DEF AdmittedIsUsed, issueTicketsForOrder, Missing
<1> QED
  BY <1>2, <1>3, <1>4, <1>5, <1>6

\* A gate locks a free row, passes judgement on it, or lets go of it.
LEMMA GateStep ==
    ASSUME IInv, NEW g \in Gates,
           \/ \E k \in Ticket : Scan(g, k)
           \/ Judge(g) \/ Abort(g)
    PROVE  IInv'
<1> USE DEF IInv
<1>1. UNCHANGED <<order, ticket, story, admissions>>
  BY DEF Scan, Judge, Abort
<1>2. gate' = [gate EXCEPT ![g] = gate'[g]] /\ gate'[g] \in Working \cup {Idle}
  <2>1. CASE \E k \in Ticket : Scan(g, k)
    BY <2>1 DEF Scan, Working, TypeOK, TicketStatuses
  <2>2. CASE Judge(g)
    <3>1. Busy(g) /\ gate[g] \in Working
      BY <2>2, GateShape DEF Judge
    <3> QED
      BY <2>2, <3>1 DEF Judge, Working, TypeOK
  <2>3. CASE Abort(g)
    BY <2>3 DEF Abort, TypeOK
  <2> QED
    BY <2>1, <2>2, <2>3
<1>3. \/ gate'[g] = Idle
      \/ /\ gate'[g].ticket = gate[g].ticket /\ gate'[g].seen = gate[g].seen /\ Busy(g)
         /\ gate'[g].pc = "admitting" => gate[g].seen = "issued"
      \/ /\ ~Locked(gate'[g].ticket) /\ gate'[g].ticket \in Ticket
         /\ gate'[g].seen = ticket[gate'[g].ticket]
         /\ gate'[g].pc = "scanned"
  <2>1. CASE \E k \in Ticket : Scan(g, k)
    BY <2>1 DEF Scan, TypeOK
  <2>2. CASE Judge(g)
    <3>1. Busy(g) /\ gate[g] \in Working
      BY <2>2, GateShape DEF Judge
    <3> QED
      BY <2>2, <3>1 DEF Judge, Working, TypeOK
  <2>3. CASE Abort(g)
    BY <2>3 DEF Abort, TypeOK
  <2> QED
    BY <2>1, <2>2, <2>3
<1>4. TypeOK'
  BY <1>1, <1>2 DEF TypeOK
<1>5. LocksExclude'
  <2>1. ASSUME NEW x \in Gates, NEW y \in Gates, gate'[x] # Idle,
               gate'[x].ticket = gate'[y].ticket, x # y
        PROVE  FALSE
    <3>1. \A h \in Gates : h # g => gate'[h] = gate[h]
      BY <1>2 DEF TypeOK
    <3>2. CASE x # g /\ y # g
      BY <2>1, <3>1, <3>2 DEF LocksExclude, Busy
    <3>3. CASE x = g
      <4>1. gate'[y] = gate[y]
        BY <2>1, <3>1, <3>3
      <4> QED
        BY <1>3, <2>1, <3>3, <4>1 DEF LocksExclude, Busy, Locked
    <3>4. CASE y = g
      <4>1. gate'[x] = gate[x] /\ gate[x].ticket \in Ticket /\ Busy(x)
        BY <2>1, <3>1, <3>4, GateShape DEF Busy
      <4>2. gate'[g] # Idle
        BY <2>1, <3>4, <4>1, NoTicketIsNull DEF Idle
      <4> QED
        BY <1>3, <2>1, <3>4, <4>1, <4>2 DEF LocksExclude, Busy, Locked
    <3> QED
      BY <3>2, <3>3, <3>4
  <2> QED
    BY <2>1 DEF LocksExclude, Busy
<1>6. SeenIsCurrent'
  <2>1. ASSUME NEW h \in Gates, gate'[h] # Idle
        PROVE  /\ ticket[gate'[h].ticket] = gate'[h].seen
               /\ gate'[h].pc = "admitting" => gate'[h].seen = "issued"
    <3>1. CASE h # g
      <4>1. gate'[h] = gate[h]
        BY <1>2, <3>1 DEF TypeOK
      <4> QED
        BY <2>1, <4>1 DEF SeenIsCurrent, Busy
    <3>2. CASE h = g
      BY <1>3, <2>1, <3>2 DEF SeenIsCurrent, Busy
    <3> QED
      BY <3>1, <3>2
  <2> QED
    BY <1>1, <2>1 DEF SeenIsCurrent, Busy
<1>7. AdmittedIsUsed' /\ StoryConnects'
  BY <1>1 DEF AdmittedIsUsed, StoryConnects
<1> QED
  BY <1>4, <1>5, <1>6, <1>7

\* One ticket changes and its story grows by the entry that says so; no gate but
\* the one that changed it, if any, is at work on it.
LEMMA TicketStep ==
    ASSUME IInv, NEW k \in Ticket, NEW to \in TicketStatuses,
           order' = order,
           ticket' = [ticket EXCEPT ![k] = to],
           story' = [story EXCEPT ![k] = Append(@, Entry(ticket[k], to))],
           \A h \in Gates : gate'[h] = Idle \/ (gate'[h] = gate[h] /\ gate[h].ticket # k),
           gate' \in [Gates -> Working \cup {Idle}],
           admissions' \in [Ticket -> Nat], AdmittedIsUsed'
    PROVE  IInv'
<1> USE DEF IInv
<1>1. /\ story[k] \in Seq([from : TicketStatuses, to : TicketStatuses])
      /\ ticket[k] \in TicketStatuses
      /\ Connects(story[k], ticket[k])
  BY ConnectsAll DEF TypeOK
<1>2. /\ Append(story[k], Entry(ticket[k], to)) \in Seq([from : TicketStatuses, to : TicketStatuses])
      /\ Connects(Append(story[k], Entry(ticket[k], to)), to)
  BY <1>1, EntryConnects
<1>3. TypeOK'
  BY <1>2 DEF TypeOK
<1>4. StoryConnects'
  <2>1. ASSUME NEW j \in Ticket PROVE Connects(story'[j], ticket'[j])
    <3>1. CASE j = k
      BY <1>2, <3>1 DEF TypeOK
    <3>2. CASE j # k
      <4>1. story'[j] = story[j] /\ ticket'[j] = ticket[j]
        BY <3>2 DEF TypeOK
      <4> QED
        BY <4>1, ConnectsAll
    <3> QED
      BY <3>1, <3>2
  <2> QED
    BY <2>1, Zenon DEF StoryConnects, Connects
<1>5. LocksExclude'
  <2>1. ASSUME NEW x \in Gates, NEW y \in Gates, gate'[x] # Idle,
               gate'[x].ticket = gate'[y].ticket
        PROVE  x = y
    <3>1. gate'[x] = gate[x] /\ Busy(x) /\ gate[x].ticket \in Ticket
      BY <2>1, GateShape DEF Busy
    <3>2. gate'[y] = gate[y]
      BY <2>1, <3>1, NoTicketIsNull DEF Idle
    <3> QED
      BY <2>1, <3>1, <3>2 DEF LocksExclude
  <2> QED
    BY <2>1 DEF LocksExclude, Busy
<1>6. SeenIsCurrent'
  <2>1. ASSUME NEW h \in Gates, gate'[h] # Idle
        PROVE  /\ ticket'[gate'[h].ticket] = gate'[h].seen
               /\ gate'[h].pc = "admitting" => gate'[h].seen = "issued"
    <3>1. gate'[h] = gate[h] /\ Busy(h) /\ gate[h].ticket \in Ticket \ {k}
      BY <2>1, GateShape DEF Busy
    <3>2. ticket'[gate[h].ticket] = ticket[gate[h].ticket]
      BY <3>1 DEF TypeOK
    <3> QED
      BY <3>1, <3>2 DEF SeenIsCurrent
  <2> QED
    BY <2>1 DEF SeenIsCurrent, Busy
<1> QED
  BY <1>3, <1>4, <1>5, <1>6

LEMMA AdmitStep ==
    ASSUME IInv, NEW g \in Gates, Admit(g)
    PROVE  IInv'
<1> USE DEF IInv
<1> DEFINE k == gate[g].ticket
<1>1. Busy(g) /\ k \in Ticket /\ ticket[k] = "issued"
  BY GateShape DEF Admit, SeenIsCurrent
<1>2. admissions[k] = 0 /\ admissions \in [Ticket -> Nat]
  BY <1>1 DEF AdmittedIsUsed, TypeOK
<1>3. /\ order' = order
      /\ ticket' = [ticket EXCEPT ![k] = "checked_in"]
      /\ story' = [story EXCEPT ![k] = Append(@, Entry(ticket[k], "checked_in"))]
      /\ admissions' = [admissions EXCEPT ![k] = 1]
      /\ gate' = [gate EXCEPT ![g] = Idle]
  BY <1>1, <1>2 DEF Admit, TypeOK
<1> HIDE DEF k
<1>4. admissions' \in [Ticket -> Nat] /\ AdmittedIsUsed'
  BY <1>1, <1>2, <1>3 DEF AdmittedIsUsed, TypeOK
<1>5. gate' \in [Gates -> Working \cup {Idle}]
  BY <1>3 DEF TypeOK
<1>6. \A h \in Gates : gate'[h] = Idle \/ (gate'[h] = gate[h] /\ gate[h].ticket # k)
  BY <1>1, <1>3 DEF TypeOK, LocksExclude, k
<1>7. "checked_in" \in TicketStatuses
  BY DEF TicketStatuses
<1> QED
  BY <1>1, <1>3, <1>4, <1>5, <1>6, <1>7, TicketStep

LEMMA VoidStep ==
    ASSUME IInv, NEW k \in Ticket, voidTicket(k)
    PROVE  IInv'
<1> USE DEF IInv
<1>1. AdmittedIsUsed' /\ admissions' \in [Ticket -> Nat]
  BY DEF AdmittedIsUsed, voidTicket, TypeOK
<1>2. \A h \in Gates : gate'[h] = gate[h] /\ gate[h].ticket # k
  BY DEF voidTicket, Locked
<1>3. "void" \in TicketStatuses
  BY DEF TicketStatuses
<1>4. gate' \in [Gates -> Working \cup {Idle}]
  BY DEF voidTicket, TypeOK
<1>5. /\ order' = order
      /\ ticket' = [ticket EXCEPT ![k] = "void"]
      /\ story' = [story EXCEPT ![k] = Append(@, Entry(ticket[k], "void"))]
  BY DEF voidTicket
<1> QED
  BY <1>1, <1>2, <1>3, <1>4, <1>5, TicketStep

LEMMA NextIInv == IInv /\ [Next]_vars => IInv'
<1> SUFFICES ASSUME IInv, [Next]_vars PROVE IInv'
  OBVIOUS
<1>1. CASE RefundOrder \/ \E refund \in BOOLEAN : PayOrder(refund)
  <2>1. /\ order' \in [status : OrderStatuses, refundRequired : BOOLEAN]
        /\ UNCHANGED <<ticket, gate, story, admissions>>
    BY <1>1 DEF RefundOrder, PayOrder, IInv, TypeOK, OrderStatuses
  <2> QED
    BY <2>1, OrderStep
<1>2. CASE issueTicketsForOrder
  BY <1>2, IssueStep
<1>3. ASSUME NEW g \in Gates, (\E k \in Ticket : Scan(g, k)) \/ Judge(g) \/ Abort(g)
      PROVE  IInv'
  BY <1>3, GateStep
<1>4. ASSUME NEW g \in Gates, Admit(g)
      PROVE  IInv'
  BY <1>4, AdmitStep
<1>5. ASSUME NEW k \in Ticket, voidTicket(k)
      PROVE  IInv'
  BY <1>5, VoidStep
<1>6. CASE UNCHANGED vars
  <2>1. /\ order' \in [status : OrderStatuses, refundRequired : BOOLEAN]
        /\ UNCHANGED <<ticket, gate, story, admissions>>
    BY <1>6 DEF vars, IInv, TypeOK
  <2> QED
    BY <2>1, OrderStep
<1> QED
  BY <1>1, <1>2, <1>3, <1>4, <1>5, <1>6 DEF Next

\* The inductive invariant of tickets, gates and their ledger.
THEOREM TicketsIInvInvariant == Spec => []IInv
BY InitIInv, NextIInv, PTL DEF Spec

\* Tickets, gates and stories are well typed for any order and any gates.
THEOREM TicketsTypeCorrect == Spec => []TypeOK
<1>1. IInv => TypeOK
  BY DEF IInv
<1> QED
  BY <1>1, TicketsIInvInvariant, PTL

\* However many gates scan one code, checkInTicket admits one person on it.
THEOREM OneAdmissionPerTicket == Spec => []AdmitsOnce
<1>1. IInv => AdmitsOnce
  BY DEF IInv, AdmittedIsUsed, AdmitsOnce
<1> QED
  BY <1>1, TicketsIInvInvariant, PTL

\* Whatever is issued, checked in and voided, each ticket's ledger entries lead
\* from one to the next and to the row.
THEOREM LedgerTellsTheStory == Spec => []StoryConnects
<1>1. IInv => StoryConnects
  BY DEF IInv
<1> QED
  BY <1>1, TicketsIInvInvariant, PTL

\* voidTicket cannot be undone by a gate or by an issuance job.
THEOREM VoidingIsFinal == Spec => VoidIsFinal
<1> DEFINE Kept == \A k \in Ticket : ticket[k] = "void" =>
                      ticket'[k] = "void" /\ admissions'[k] = admissions[k]
<1>1. ASSUME IInv, Next, NEW k \in Ticket, ticket[k] = "void"
      PROVE  ticket'[k] = "void" /\ admissions'[k] = admissions[k]
  <2>1. CASE RefundOrder \/ \E refund \in BOOLEAN : PayOrder(refund)
    BY <1>1, <2>1 DEF RefundOrder, PayOrder
  <2>2. CASE issueTicketsForOrder
    BY <1>1, <2>2 DEF issueTicketsForOrder, Missing
  <2>3. ASSUME NEW g \in Gates, (\E j \in Ticket : Scan(g, j)) \/ Judge(g) \/ Abort(g)
        PROVE  ticket' = ticket /\ admissions' = admissions
    BY <2>3 DEF Scan, Judge, Abort
  <2>4. ASSUME NEW g \in Gates, Admit(g)
        PROVE  ticket'[k] = "void" /\ admissions'[k] = admissions[k]
    <3>1. Busy(g) /\ gate[g].ticket \in Ticket /\ ticket[gate[g].ticket] = "issued"
      BY <1>1, <2>4, GateShape DEF Admit, SeenIsCurrent, IInv
    <3>2. gate[g].ticket # k
      BY <1>1, <3>1
    <3> QED
      BY <1>1, <2>4, <3>1, <3>2 DEF Admit, IInv, TypeOK
  <2>5. ASSUME NEW j \in Ticket, voidTicket(j)
        PROVE  ticket'[k] = "void" /\ admissions'[k] = admissions[k]
    BY <1>1, <2>5 DEF voidTicket, IInv, TypeOK
  <2> QED
    BY <1>1, <2>1, <2>2, <2>3, <2>4, <2>5 DEF Next
<1>2. IInv /\ [Next]_vars => [Kept]_vars
  BY <1>1
<1> QED
  BY <1>2, TicketsIInvInvariant, PTL DEF Spec, VoidIsFinal

-----------------------------------------------------------------------------
(* The doors. *)

Phone == [link : Links \cup {NoLink}, pc : {"ready", "sent", "through", "dead"},
          ticket : Ticket \cup {NoTicket}, checked : BOOLEAN]

DoorsTypeOK ==
    /\ now \in Nat
    /\ link \in [Links -> [minted : BOOLEAN, event : {"own", "other"}, end : Nat]]
    /\ denied \in [Links -> Nat]
    /\ shutOut \subseteq Links
    /\ phone \in [Gates -> Phone]
    /\ greens \in [Ticket -> Nat]

\* A request that was sent is about a ticket.
TicketSent ==
    \A g \in Gates : phone[g].pc \in {"sent", "through"} => phone[g].ticket \in Ticket

\* Redis remembers a link that was shut out until it ends.
OutlivesLink ==
    /\ \A l \in Links : link[l].end <= now + LongestTtl
    /\ \A l \in shutOut : link[l].minted /\ link[l].end <= denied[l]

\* A check-in transaction works on the ticket its phone has sent.
WaitsForIts ==
    \A g \in Gates : Busy(g) => phone[g].pc = "through" /\ phone[g].ticket = gate[g].ticket

LinkInv == DoorsTypeOK /\ TicketSent /\ OutlivesLink

-----------------------------------------------------------------------------
(* Links and requests, whatever becomes of the tickets. *)

\* A phone stays one when a field of it changes.
LEMMA ChangedPhone ==
    ASSUME NEW p \in Phone, NEW c \in {"ready", "sent", "through", "dead"},
           NEW k \in Ticket, NEW b \in BOOLEAN
    PROVE  /\ [p EXCEPT !.pc = c] \in Phone
           /\ [p EXCEPT !.ticket = k] \in Phone
           /\ [p EXCEPT !.checked = b] \in Phone
BY DEF Phone

\* What an answer does to the phones and to what they have said.
LEMMA AnswerShape ==
    ASSUME LinkInv, NEW g \in Gates, phone[g].pc \in {"sent", "through"},
           NEW banner \in {"admit", "refused", "dead"}, Answered(g, banner)
    PROVE  /\ phone' \in [Gates -> Phone]
           /\ greens' \in [Ticket -> Nat]
           /\ \A h \in Gates \ {g} : phone'[h] = phone[h]
           /\ phone'[g].pc \in {"ready", "dead"}
           /\ \/ greens' = greens
              \/ banner = "admit" /\ greens' = [greens EXCEPT ![phone[g].ticket] = @ + 1]
<1>1. PICK arrives \in BOOLEAN :
        /\ phone' = [phone EXCEPT ![g] =
             [Unused EXCEPT !.link = phone[g].link,
                            !.pc = IF arrives /\ banner = "dead" THEN "dead" ELSE "ready"]]
        /\ greens' = IF arrives /\ banner = "admit"
                     THEN [greens EXCEPT ![phone[g].ticket] = @ + 1] ELSE greens
  BY DEF Answered
<1>2. phone[g].link \in Links \cup {NoLink} /\ phone[g].ticket \in Ticket
  BY DEF LinkInv, DoorsTypeOK, TicketSent, Phone
<1>3. PICK after \in Phone : phone' = [phone EXCEPT ![g] = after] /\ after.pc \in {"ready", "dead"}
  <2>1. \A c \in {"ready", "dead"} :
          [Unused EXCEPT !.link = phone[g].link, !.pc = c] \in
            {p \in Phone : p.pc \in {"ready", "dead"}}
    BY <1>2 DEF Phone, Unused
  <2> QED
    BY <1>1, <2>1
<1>4. /\ phone' \in [Gates -> Phone]
      /\ \A h \in Gates \ {g} : phone'[h] = phone[h]
      /\ phone'[g] = after
  BY <1>3 DEF LinkInv, DoorsTypeOK
<1>5. greens' \in [Ticket -> Nat]
  <2>1. greens \in [Ticket -> Nat]
    BY DEF LinkInv, DoorsTypeOK
  <2>2. ASSUME NEW k \in Ticket PROVE [greens EXCEPT ![k] = @ + 1] \in [Ticket -> Nat]
    <3>1. greens[k] + 1 \in Nat
      BY <2>1
    <3> QED
      BY <2>1, <3>1
  <2> QED
    BY <1>1, <1>2, <2>1, <2>2
<1> QED
  BY <1>1, <1>3, <1>4, <1>5

\* A step that leaves the clock and the links alone, and every phone in a shape
\* it may have.
LEMMA PhoneStep ==
    ASSUME LinkInv, UNCHANGED <<now, linkVars>>, phone' \in [Gates -> Phone],
           greens' \in [Ticket -> Nat],
           NEW g \in Gates, \A h \in Gates \ {g} : phone'[h] = phone[h],
           phone'[g].pc \in {"sent", "through"} => phone'[g].ticket \in Ticket
    PROVE  LinkInv'
BY DEF LinkInv, DoorsTypeOK, TicketSent, OutlivesLink, linkVars

LEMMA AnswerStep ==
    ASSUME LinkInv, NEW g \in Gates, phone[g].pc \in {"sent", "through"},
           NEW banner \in {"admit", "refused", "dead"}, Answered(g, banner),
           UNCHANGED <<now, linkVars>>
    PROVE  LinkInv'
<1>1. /\ phone' \in [Gates -> Phone]
      /\ greens' \in [Ticket -> Nat]
      /\ \A h \in Gates \ {g} : phone'[h] = phone[h]
      /\ phone'[g].pc \in {"ready", "dead"}
  BY AnswerShape
<1> QED
  BY <1>1, PhoneStep

LEMMA InitLinkInv == DoorsInit => LinkInv
BY TtlOK DEF DoorsInit, LinkInv, DoorsTypeOK, TicketSent, OutlivesLink, Phone, Unused

LEMMA TickStep ==
    ASSUME LinkInv, Tick
    PROVE  LinkInv'
BY TtlOK DEF LinkInv, DoorsTypeOK, TicketSent, OutlivesLink, Tick, linkVars

LEMMA MintStep ==
    ASSUME LinkInv, NEW l \in Links, NEW asked \in {NotGiven} \cup 1..LongestTtl,
           mintScannerToken(l, asked)
    PROVE  LinkInv'
<1>1. PICK event \in {"own", "other"} :
        link' = [link EXCEPT ![l] = [minted |-> TRUE, event |-> event,
                                     end |-> now + ttlHours(asked)]]
  BY DEF mintScannerToken
<1>2. ttlHours(asked) \in Nat /\ ttlHours(asked) <= LongestTtl /\ LongestTtl \in Nat
  BY TtlOK DEF ttlHours
<1>3. now \in Nat /\ l \notin shutOut
  BY DEF LinkInv, DoorsTypeOK, OutlivesLink, mintScannerToken
<1> QED
  BY <1>1, <1>2, <1>3 DEF LinkInv, DoorsTypeOK, TicketSent, OutlivesLink, mintScannerToken

LEMMA RevokeStep ==
    ASSUME LinkInv, NEW l \in Links, NEW asked \in {NotGiven} \cup 0..LongestTtl,
           revokeScannerToken(l, asked)
    PROVE  LinkInv'
<1>1. LET hours == remainingHours(asked)
      IN  /\ denied' = IF hours = 0 THEN denied ELSE [denied EXCEPT ![l] = now + hours]
          /\ shutOut' = IF asked = NotGiven THEN shutOut \cup {l}
                        ELSE IF hours = 0 THEN shutOut ELSE shutOut \ {l}
  BY DEF revokeScannerToken
<1> DEFINE hours == remainingHours(asked)
<1>2. /\ hours \in Nat /\ LongestTtl \in Nat
      /\ asked = NotGiven => hours = LongestTtl /\ hours # 0
  BY TtlOK DEF remainingHours
<1> HIDE DEF hours
<1>3. DoorsTypeOK'
  BY <1>1, <1>2 DEF LinkInv, DoorsTypeOK, revokeScannerToken, hours
<1>4. OutlivesLink'
  <2>1. \A k \in Links : link'[k].end <= now' + LongestTtl
    BY DEF LinkInv, OutlivesLink, revokeScannerToken
  <2>2. ASSUME NEW k \in shutOut'
        PROVE  link'[k].minted /\ link'[k].end <= denied'[k]
    <3>1. CASE k = l
      <4>1. link[l].minted /\ link'[l] = link[l]
        BY DEF revokeScannerToken
      <4>2. CASE asked = NotGiven
        <5>1. denied'[l] = now + LongestTtl
          BY <1>1, <1>2, <4>2 DEF LinkInv, DoorsTypeOK, hours
        <5> QED
          BY <3>1, <4>1, <5>1 DEF LinkInv, OutlivesLink
      <4>3. CASE asked # NotGiven
        <5>1. hours = 0 /\ denied' = denied /\ l \in shutOut
          BY <1>1, <2>2, <3>1, <4>3 DEF hours
        <5> QED
          BY <3>1, <4>1, <5>1 DEF LinkInv, OutlivesLink
      <4> QED
        BY <4>2, <4>3
    <3>2. CASE k # l
      <4>1. k \in shutOut /\ denied'[k] = denied[k] /\ link' = link
        BY <1>1, <2>2, <3>2 DEF LinkInv, DoorsTypeOK, revokeScannerToken
      <4> QED
        BY <4>1 DEF LinkInv, OutlivesLink
    <3> QED
      BY <3>1, <3>2
  <2> QED
    BY <2>1, <2>2 DEF OutlivesLink
<1>5. TicketSent'
  BY DEF LinkInv, TicketSent, revokeScannerToken
<1> QED
  BY <1>3, <1>4, <1>5 DEF LinkInv

LEMMA RequestStep ==
    ASSUME LinkInv, NEW g \in Gates,
           \/ \E l \in Links : OpenLink(g, l)
           \/ \E k \in Ticket : submitCode(g, k)
           \/ requireScanner(g)
    PROVE  LinkInv'
<1>1. CASE \E l \in Links : OpenLink(g, l)
  <2>1. PICK l \in Links : OpenLink(g, l)
    BY <1>1
  <2>2. /\ phone' \in [Gates -> Phone] /\ greens' \in [Ticket -> Nat]
        /\ \A h \in Gates \ {g} : phone'[h] = phone[h]
        /\ phone'[g].pc = "ready"
    BY <2>1 DEF OpenLink, LinkInv, DoorsTypeOK, Phone, Unused
  <2> QED
    BY <2>1, <2>2, PhoneStep DEF OpenLink
<1>2. CASE \E k \in Ticket : submitCode(g, k)
  <2>1. PICK k \in Ticket : submitCode(g, k)
    BY <1>2
  <2>2. /\ phone' \in [Gates -> Phone] /\ greens' \in [Ticket -> Nat]
        /\ \A h \in Gates \ {g} : phone'[h] = phone[h]
        /\ phone'[g].ticket = k
    <3>1. phone[g] \in Phone /\ phone \in [Gates -> Phone]
      BY DEF LinkInv, DoorsTypeOK
    <3>2. PICK p \in Phone : p = [phone[g] EXCEPT !.pc = "sent", !.ticket = k] /\ p.ticket = k
      <4>1. [phone[g] EXCEPT !.pc = "sent"] \in Phone
        BY <3>1, ChangedPhone
      <4>2. [[phone[g] EXCEPT !.pc = "sent"] EXCEPT !.ticket = k] \in Phone
        BY <4>1, ChangedPhone
      <4> QED
        BY <3>1, <4>1, <4>2 DEF Phone
    <3>3. phone' = [phone EXCEPT ![g] = p] /\ greens' = greens
      BY <2>1, <3>1, <3>2 DEF submitCode, Scanning
    <3> QED
      BY <3>1, <3>2, <3>3 DEF LinkInv, DoorsTypeOK
  <2> QED
    BY <2>1, <2>2, PhoneStep DEF submitCode, Scanning
<1>3. CASE requireScanner(g)
  <2>1. phone[g].pc = "sent" /\ UNCHANGED <<now, linkVars>>
    BY <1>3 DEF requireScanner
  <2>2. CASE Answered(g, "dead")
    BY <2>1, <2>2, AnswerStep
  <2>3. CASE ~Answered(g, "dead")
    <3>1. PICK redisAnswers \in BOOLEAN :
            /\ phone' = [phone EXCEPT ![g].pc = "through", ![g].checked = redisAnswers]
            /\ UNCHANGED greens
      BY <1>3, <2>3 DEF requireScanner
    <3>2. /\ phone' \in [Gates -> Phone] /\ greens' \in [Ticket -> Nat]
          /\ \A h \in Gates \ {g} : phone'[h] = phone[h]
          /\ phone'[g].ticket \in Ticket
      <4>1. phone[g] \in Phone /\ phone \in [Gates -> Phone] /\ phone[g].ticket \in Ticket
        BY <2>1 DEF LinkInv, DoorsTypeOK, TicketSent
      <4>2. PICK p \in Phone : /\ p = [phone[g] EXCEPT !.pc = "through", !.checked = redisAnswers]
                               /\ p.ticket = phone[g].ticket
        <5>1. [phone[g] EXCEPT !.pc = "through"] \in Phone
          BY <4>1, ChangedPhone
        <5>2. [[phone[g] EXCEPT !.pc = "through"] EXCEPT !.checked = redisAnswers] \in Phone
          BY <4>1, <5>1, ChangedPhone
        <5> QED
          BY <4>1, <5>1, <5>2 DEF Phone
      <4>3. phone' = [phone EXCEPT ![g] = p]
        BY <3>1, <4>1, <4>2
      <4> QED
        BY <3>1, <4>1, <4>2, <4>3 DEF LinkInv, DoorsTypeOK
    <3> QED
      BY <2>1, <3>2, PhoneStep
  <2> QED
    BY <2>2, <2>3
<1> QED
  BY <1>1, <1>2, <1>3

-----------------------------------------------------------------------------
(* The check-in behind the door. *)

\* A step of a check-in: it stays in the hands of its phone or answers it.
LEMMA CheckInShape ==
    ASSUME TypeOK, LinkInv, WaitsForIts, NEW g \in Gates,
           ScanTicket(g) \/ JudgeTicket(g) \/ AdmitGuest(g) \/ AbortCheckIn(g)
    PROVE  /\ phone[g].pc = "through"
           /\ UNCHANGED <<now, linkVars>>
           /\ \A h \in Gates \ {g} : gate'[h] = gate[h]
           /\ \/ /\ UNCHANGED <<phone, greens>>
                 /\ Busy(g)' => gate'[g].ticket = phone[g].ticket
              \/ /\ ~Busy(g)'
                 /\ \/ Answered(g, "refused")
                    \/ AdmitGuest(g) /\ Answered(g, "admit")
<1> USE DEF TypeOK
<1>1. CASE ScanTicket(g)
  <2>1. CASE Scan(g, phone[g].ticket) /\ UNCHANGED <<phone, greens>>
    BY <1>1, <2>1 DEF ScanTicket, Scan
  <2>2. CASE Answered(g, "refused") /\ UNCHANGED ticketsVars /\ gate[g] = Idle
    BY <1>1, <2>2 DEF ScanTicket, ticketsVars, vars, Busy
  <2> QED
    BY <1>1, <2>1, <2>2 DEF ScanTicket
<1>2. CASE JudgeTicket(g)
  <2>1. Busy(g) /\ gate'[g] \in {Idle, [gate[g] EXCEPT !.pc = "admitting"]}
    <3>1. gate[g].pc = "scanned" /\ gate \in [Gates -> Working \cup {Idle}]
      BY <1>2 DEF JudgeTicket, Judge
    <3>2. Busy(g)
      BY <3>1 DEF Busy, Idle
    <3>3. gate' = [gate EXCEPT ![g] = IF order.status = "paid" /\ gate[g].seen = "issued"
                                      THEN [gate[g] EXCEPT !.pc = "admitting"] ELSE Idle]
      BY <1>2, Zenon DEF JudgeTicket, Judge
    <3> QED
      BY <3>1, <3>2, <3>3
  <2>2. phone[g].pc = "through" /\ phone[g].ticket = gate[g].ticket
    BY <2>1 DEF WaitsForIts
  <2>3. gate[g] \in Working
    BY <2>1, GateShape
  <2>4. gate'[g] # Idle => gate'[g].ticket = phone[g].ticket
    BY <2>1, <2>2, <2>3 DEF Working
  <2> QED
    BY <1>2, <2>2, <2>4 DEF JudgeTicket, Judge, Busy
<1>3. CASE AdmitGuest(g)
  <2>1. Busy(g)
    BY <1>3 DEF AdmitGuest, Admit, Busy, Idle
  <2> QED
    BY <1>3, <2>1 DEF AdmitGuest, Admit, WaitsForIts, Busy
<1>4. CASE AbortCheckIn(g)
  BY <1>4 DEF AbortCheckIn, Abort, WaitsForIts, Busy
<1> QED
  BY <1>1, <1>2, <1>3, <1>4

LEMMA CheckInLinkInv ==
    ASSUME TypeOK, LinkInv, WaitsForIts, NEW g \in Gates,
           ScanTicket(g) \/ JudgeTicket(g) \/ AdmitGuest(g) \/ AbortCheckIn(g)
    PROVE  LinkInv'
<1>1. phone[g].pc = "through" /\ UNCHANGED <<now, linkVars>>
  BY CheckInShape
<1>2. CASE UNCHANGED <<phone, greens>>
  BY <1>1, <1>2, PhoneStep DEF LinkInv, DoorsTypeOK, TicketSent
<1>3. CASE \E banner \in {"refused", "admit"} : Answered(g, banner)
  BY <1>1, <1>3, AnswerStep
<1> QED
  BY <1>2, <1>3, CheckInShape

LEMMA NextLinkInv ==
    ASSUME TypeOK, LinkInv, WaitsForIts, [DoorsNext]_doorsVars
    PROVE  LinkInv'
<1>1. CASE UNCHANGED doorsVars \/ OrderChanges
  BY <1>1 DEF doorsVars, OrderChanges, linkVars, LinkInv, DoorsTypeOK, TicketSent, OutlivesLink
<1>2. CASE Tick
  BY <1>2, TickStep
<1>3. CASE \E l \in Links : handleMint(l) \/ handleRevoke(l) \/ revokeByApi(l)
  BY <1>3, MintStep, RevokeStep DEF handleMint, handleRevoke, revokeByApi
<1>4. ASSUME NEW g \in Gates,
             \/ \E l \in Links : OpenLink(g, l)
             \/ \E k \in Ticket : submitCode(g, k)
             \/ requireScanner(g)
      PROVE  LinkInv'
  BY <1>4, RequestStep
<1>5. ASSUME NEW g \in Gates,
             ScanTicket(g) \/ JudgeTicket(g) \/ AdmitGuest(g) \/ AbortCheckIn(g)
      PROVE  LinkInv'
  BY <1>5, CheckInLinkInv
<1> QED
  BY <1>1, <1>2, <1>3, <1>4, <1>5 DEF DoorsNext

\* Each step is a step of Tickets or leaves its variables alone.
LEMMA StepOfTickets == LinkInv /\ [DoorsNext]_doorsVars => [Next]_vars
<1> SUFFICES ASSUME LinkInv, [DoorsNext]_doorsVars PROVE [Next]_vars
  OBVIOUS
<1>1. CASE UNCHANGED doorsVars \/ Tick \/ \E l \in Links : handleMint(l) \/ handleRevoke(l) \/ revokeByApi(l)
  BY <1>1 DEF doorsVars, ticketsVars, Tick, handleMint, handleRevoke, revokeByApi, mintScannerToken, revokeScannerToken
<1>2. CASE OrderChanges
  BY <1>2 DEF OrderChanges, Next
<1>3. ASSUME NEW g \in Gates,
             \/ \E l \in Links : OpenLink(g, l)
             \/ \E k \in Ticket : submitCode(g, k)
             \/ requireScanner(g)
      PROVE  UNCHANGED vars
  BY <1>3 DEF OpenLink, submitCode, Scanning, requireScanner, ticketsVars
<1>4. ASSUME NEW g \in Gates, ScanTicket(g)
      PROVE  [Next]_vars
  <2>1. phone[g].ticket \in Ticket
    BY <1>4 DEF ScanTicket, LinkInv, TicketSent
  <2>2. Scan(g, phone[g].ticket) \/ UNCHANGED vars
    BY <1>4 DEF ScanTicket, ticketsVars
  <2> QED
    BY <2>1, <2>2 DEF Next
<1>5. ASSUME NEW g \in Gates, JudgeTicket(g) \/ AdmitGuest(g) \/ AbortCheckIn(g)
      PROVE  Next
  BY <1>5 DEF JudgeTicket, AdmitGuest, AbortCheckIn, Next
<1> QED
  BY <1>1, <1>2, <1>3, <1>4, <1>5 DEF DoorsNext

LEMMA NextWaits ==
    ASSUME TypeOK, LinkInv, WaitsForIts, [DoorsNext]_doorsVars
    PROVE  WaitsForIts'
<1>1. CASE \/ UNCHANGED doorsVars \/ Tick \/ OrderChanges
           \/ \E l \in Links : handleMint(l) \/ handleRevoke(l) \/ revokeByApi(l)
  BY <1>1 DEF WaitsForIts, Busy, doorsVars, ticketsVars, vars, Tick, OrderChanges, handleMint, handleRevoke,
     revokeByApi, mintScannerToken, revokeScannerToken, PayOrder, RefundOrder, issueTicketsForOrder, voidTicket
<1>2. ASSUME NEW g \in Gates,
             \/ \E l \in Links : OpenLink(g, l)
             \/ \E k \in Ticket : submitCode(g, k)
             \/ requireScanner(g)
      PROVE  WaitsForIts'
  <2>1. ~Busy(g) /\ gate' = gate
    BY <1>2 DEF OpenLink, submitCode, Scanning, requireScanner, ticketsVars, vars, WaitsForIts
  <2>2. \A h \in Gates \ {g} : phone'[h] = phone[h]
    BY <1>2 DEF OpenLink, submitCode, Scanning, requireScanner, Answered, LinkInv, DoorsTypeOK
  <2> QED
    BY <2>1, <2>2 DEF WaitsForIts, Busy
<1>3. ASSUME NEW g \in Gates,
             ScanTicket(g) \/ JudgeTicket(g) \/ AdmitGuest(g) \/ AbortCheckIn(g)
      PROVE  WaitsForIts'
  <2>1. /\ phone[g].pc = "through"
        /\ \A h \in Gates \ {g} : gate'[h] = gate[h]
    BY <1>3, CheckInShape
  <2>2. \A h \in Gates \ {g} : phone'[h] = phone[h]
    BY <1>3, CheckInShape DEF Answered, LinkInv, DoorsTypeOK
  <2>3. Busy(g)' => phone' = phone /\ gate'[g].ticket = phone[g].ticket
    BY <1>3, CheckInShape
  <2> QED
    BY <2>1, <2>2, <2>3 DEF WaitsForIts, Busy
<1> QED
  BY <1>1, <1>2, <1>3 DEF DoorsNext

\* Only an admission lets a phone say Admit, and it says so of the same ticket.
LEMMA NextGreen ==
    ASSUME TypeOK, LinkInv, WaitsForIts, GreenMeansIn, [DoorsNext]_doorsVars
    PROVE  GreenMeansIn'
<1> USE DEF LinkInv, DoorsTypeOK, TypeOK
<1>1. CASE \/ UNCHANGED doorsVars \/ Tick \/ OrderChanges
           \/ \E l \in Links : handleMint(l) \/ handleRevoke(l) \/ revokeByApi(l)
           \/ \E g \in Gates : \/ \E l \in Links : OpenLink(g, l)
                               \/ \E k \in Ticket : submitCode(g, k)
  BY <1>1 DEF GreenMeansIn, doorsVars, ticketsVars, vars, Tick, OrderChanges, handleMint, handleRevoke,
     revokeByApi, mintScannerToken, revokeScannerToken, PayOrder, RefundOrder, issueTicketsForOrder,
     voidTicket, OpenLink, submitCode, Scanning
<1>2. ASSUME NEW g \in Gates, requireScanner(g)
      PROVE  GreenMeansIn'
  BY <1>2 DEF GreenMeansIn, requireScanner, Answered, ticketsVars, vars
<1>3. ASSUME NEW g \in Gates, ScanTicket(g) \/ JudgeTicket(g) \/ AbortCheckIn(g)
      PROVE  GreenMeansIn'
  <2>1. admissions' = admissions
    BY <1>3 DEF ScanTicket, JudgeTicket, AbortCheckIn, Scan, Judge, Abort, ticketsVars, vars
  <2>2. greens' = greens
    BY <1>3 DEF ScanTicket, JudgeTicket, AbortCheckIn, Answered
  <2> QED
    BY <2>1, <2>2 DEF GreenMeansIn
<1>4. ASSUME NEW g \in Gates, AdmitGuest(g)
      PROVE  GreenMeansIn'
  <2>1. Busy(g)
    BY <1>4 DEF AdmitGuest, Admit, Busy, Idle
  <2>2. gate[g].ticket \in Ticket /\ phone[g].ticket = gate[g].ticket
    BY <2>1, GateShape DEF WaitsForIts
  <2>3. admissions' = [admissions EXCEPT ![gate[g].ticket] = @ + 1]
    BY <1>4 DEF AdmitGuest, Admit
  <2>4. greens' \in {greens, [greens EXCEPT ![gate[g].ticket] = @ + 1]}
    BY <1>4, <2>2 DEF AdmitGuest, Answered
  <2> QED
    BY <2>2, <2>3, <2>4 DEF GreenMeansIn
<1> QED
  BY <1>1, <1>2, <1>3, <1>4 DEF DoorsNext

-----------------------------------------------------------------------------
DoorsInv == IInv /\ LinkInv /\ WaitsForIts /\ GreenMeansIn

LEMMA NextDoors ==
    ASSUME DoorsInv, [DoorsNext]_doorsVars
    PROVE  DoorsInv'
<1>1. TypeOK /\ LinkInv /\ WaitsForIts /\ GreenMeansIn
  BY DEF DoorsInv, IInv
<1>2. IInv'
  BY <1>1, StepOfTickets, NextIInv DEF DoorsInv
<1> QED
  BY <1>1, <1>2, NextLinkInv, NextWaits, NextGreen DEF DoorsInv

\* The invariant of the tickets and that of the links and phones hold together.
THEOREM DoorsInvariant == DoorsSpec => []DoorsInv
<1>1. DoorsInit => DoorsInv
  <2>1. DoorsInit => WaitsForIts /\ GreenMeansIn
    BY DEF DoorsInit, Init, NoTickets, WaitsForIts, Busy, GreenMeansIn
  <2> QED
    BY <2>1, InitIInv, InitLinkInv DEF DoorsInit, DoorsInv
<1>2. DoorsInv /\ [DoorsNext]_doorsVars => DoorsInv'
  BY NextDoors
<1> QED
  BY <1>1, <1>2, PTL DEF DoorsSpec

\* Links, phones and lost answers only restrict what Tickets allows: all that is
\* shown of it holds at the doors.
THEOREM DoorsImplementTickets == DoorsSpec => Spec
<1>1. DoorsInit => Init
  BY DEF DoorsInit
<1>2. DoorsInv /\ [DoorsNext]_doorsVars => [Next]_vars
  BY StepOfTickets DEF DoorsInv
<1> QED
  BY <1>1, <1>2, DoorsInvariant, PTL DEF DoorsSpec, Spec

\* revokeScannerToken with the default the route gives it: the denylist entry
\* outlives any link that mintScannerToken can have made.
THEOREM ShutOutForGood == DoorsSpec => ShutOutStaysOut
<1> DEFINE Barred == \A g \in Gates :
             phone[g].pc = "sent" /\ phone'[g].pc = "through" /\ phone'[g].checked
                 => phone[g].link \notin shutOut
<1>1. ASSUME DoorsInv, DoorsNext, NEW g \in Gates,
             phone[g].pc = "sent", phone'[g].pc = "through", phone'[g].checked
      PROVE  phone[g].link \notin shutOut
  <2> USE DEF DoorsInv, LinkInv, DoorsTypeOK
  <2>1. requireScanner(g)
    <3>1. phone' # phone
      BY <1>1
    <3>2. CASE Tick \/ OrderChanges \/ \E l \in Links : handleMint(l) \/ handleRevoke(l) \/ revokeByApi(l)
      BY <3>1, <3>2 DEF Tick, OrderChanges, handleMint, handleRevoke, revokeByApi, mintScannerToken, revokeScannerToken
    <3>3. ASSUME NEW h \in Gates,
                 (\E l \in Links : OpenLink(h, l)) \/ (\E k \in Ticket : submitCode(h, k))
          PROVE  FALSE
      BY <1>1, <3>3 DEF OpenLink, submitCode, Scanning, Unused, Phone
    <3>4. ASSUME NEW h \in Gates, requireScanner(h)
          PROVE  h = g
      BY <1>1, <3>4 DEF requireScanner, Answered
    <3>5. ASSUME NEW h \in Gates,
                 ScanTicket(h) \/ JudgeTicket(h) \/ AdmitGuest(h) \/ AbortCheckIn(h)
          PROVE  FALSE
      <4>1. phone[h].pc = "through" /\ (phone' = phone \/ \E b \in {"refused", "admit"} : Answered(h, b))
        BY <1>1, <3>5, CheckInShape DEF IInv
      <4>2. h # g
        BY <1>1, <4>1
      <4> QED
        BY <1>1, <4>1, <4>2 DEF Answered
    <3> QED
      BY <1>1, <3>2, <3>3, <3>4, <3>5 DEF DoorsNext
  <2>2. ~Expired(phone[g].link) /\ ~Denied(phone[g].link)
    <3>1. ~Answered(g, "dead")
      BY <1>1, AnswerShape
    <3>2. ~Expired(phone[g].link)
      BY <2>1, <3>1 DEF requireScanner
    <3>3. PICK redisAnswers \in BOOLEAN :
            /\ ~(redisAnswers /\ Denied(phone[g].link))
            /\ phone' = [phone EXCEPT ![g].pc = "through", ![g].checked = redisAnswers]
      BY <2>1, <3>1, <3>2 DEF requireScanner
    <3>4. phone'[g].checked = redisAnswers
      BY <1>1, <3>3 DEF Phone
    <3> QED
      BY <1>1, <3>2, <3>3, <3>4
  <2>3. ASSUME phone[g].link \in shutOut PROVE FALSE
    <3>1. phone[g].link \in Links /\ link[phone[g].link].end <= denied[phone[g].link]
      BY <1>1, <2>3 DEF OutlivesLink
    <3>2. link[phone[g].link].end \in Nat /\ denied[phone[g].link] \in Nat /\ now \in Nat
      BY <1>1, <3>1
    <3> QED
      BY <2>2, <3>1, <3>2 DEF Expired, Denied
  <2> QED
    BY <2>3
<1>2. DoorsInv /\ [DoorsNext]_doorsVars => [Barred]_doorsVars
  BY <1>1
<1> QED
  BY <1>2, DoorsInvariant, PTL DEF DoorsSpec, ShutOutStaysOut

\* What checkInTicket has committed, the page may or may not learn; what it shows
\* as admitted has been.
THEOREM AdmitsAreShownOnce == DoorsSpec => []GreenMeansIn
<1>1. DoorsInv => GreenMeansIn
  BY DEF DoorsInv
<1> QED
  BY <1>1, DoorsInvariant, PTL
-----------------------------------------------------------------------------
(* Reports. *)

\* An order has finitely many tickets.
LEMMA TicketIsFinite == IsFiniteSet(Ticket)
<1> DEFINE Of == [i \in Items |-> {i} \X (1..Quantity[i])]
           Parts == {{i} \X (1..Quantity[i]) : i \in Items}
<1>1. Of \in Surjection(Items, Parts)
  BY DEF Surjection
<1>2. IsFiniteSet(Parts)
  BY <1>1, FS_Surjection, ItemsAreFinite
<1>3. ASSUME NEW i \in Items PROVE IsFiniteSet({i} \X (1..Quantity[i]))
  <2>1. IsFiniteSet({i})
    BY FS_Singleton
  <2>2. Quantity[i] \in Int
    BY QuantityOK
  <2>3. IsFiniteSet(1..Quantity[i])
    BY <2>2, FS_Interval
  <2> QED
    BY <2>1, <2>3, FS_Product
<1>4. \A p \in Parts : IsFiniteSet(p)
  BY <1>3
<1> HIDE DEF Parts
<1>5. IsFiniteSet(UNION Parts)
  BY <1>2, <1>4, FS_UNION
<1> QED
  BY <1>5 DEF Parts, Ticket

\* More tickets are counted as no fewer.
LEMMA CountOfMore ==
    ASSUME NEW A \in SUBSET Ticket, NEW B \in SUBSET Ticket, A \subseteq B
    PROVE  /\ Cardinality(A) \in Nat /\ Cardinality(B) \in Nat
           /\ Cardinality(A) <= Cardinality(B)
           /\ Cardinality(A) > 0 <=> A # {}
<1>1. IsFiniteSet(A) /\ IsFiniteSet(B)
  BY TicketIsFinite, FS_Subset
<1>2. Cardinality(A) \in Nat /\ Cardinality(B) \in Nat
  BY <1>1, FS_CardinalityType
<1>3. Cardinality(A) <= Cardinality(B)
  BY <1>1, FS_Subset
<1>4. Cardinality(A) = 0 <=> A = {}
  BY <1>1, FS_EmptySet
<1> QED
  BY <1>2, <1>3, <1>4

\* Tickets of a status, and those somebody came in on.
Made == {"issued", "checked_in", "void"}
With(t, statuses) == {k \in Ticket : t[k] \in statuses}
CameIn(a) == {k \in Ticket : a[k] > 0}

\* Tickets are of a paid order, and a ticket is used by coming in on it.
IssuedIsPaid == \A k \in Ticket : ticket[k] # "none" => order.status # "awaiting_payment"
UsedCameIn == With(ticket, {"checked_in"}) \subseteq CameIn(admissions)

\* What no step takes back.
Onward ==
    /\ With(ticket, Made) \subseteq With(ticket', Made)
    /\ CameIn(admissions) \subseteq CameIn(admissions')
    /\ order.status = "refunded" => order'.status = "refunded"
    /\ order.status # "awaiting_payment" =>
          order'.status # "awaiting_payment" /\ order'.refundRequired = order.refundRequired

TicketInv == IInv /\ IssuedIsPaid /\ UsedCameIn

LEMMA NextOnward ==
    ASSUME TicketInv, [Next]_vars
    PROVE  Onward /\ IssuedIsPaid' /\ UsedCameIn'
<1> USE DEF TicketInv, Onward, IssuedIsPaid, UsedCameIn, With, CameIn, Made
<1>1. CASE UNCHANGED vars
  BY <1>1 DEF vars
<1>2. CASE RefundOrder \/ \E refund \in BOOLEAN : PayOrder(refund)
  BY <1>2 DEF RefundOrder, PayOrder, IInv, TypeOK, OrderStatuses
<1>3. CASE issueTicketsForOrder
  BY <1>3 DEF issueTicketsForOrder, Missing, IInv, TypeOK
<1>4. ASSUME NEW g \in Gates, (\E k \in Ticket : Scan(g, k)) \/ Judge(g) \/ Abort(g)
      PROVE  UNCHANGED <<order, ticket, admissions>>
  BY <1>4 DEF Scan, Judge, Abort
<1>5. ASSUME NEW g \in Gates, Admit(g)
      PROVE  Onward /\ IssuedIsPaid' /\ UsedCameIn'
  <2>1. gate[g].ticket \in Ticket /\ ticket[gate[g].ticket] = "issued"
    BY <1>5, GateShape DEF Admit, SeenIsCurrent, IInv
  <2> DEFINE k == gate[g].ticket
  <2>2. /\ order' = order
        /\ \A j \in Ticket \ {k} : ticket'[j] = ticket[j] /\ admissions'[j] = admissions[j]
        /\ ticket'[k] = "checked_in" /\ admissions'[k] > 0
    BY <1>5, <2>1 DEF Admit, IInv, TypeOK
  <2> HIDE DEF k
  <2>3. k \in Ticket /\ ticket[k] = "issued"
    BY <2>1 DEF k
  <2> QED
    BY <2>2, <2>3
<1>6. ASSUME NEW k \in Ticket, voidTicket(k)
      PROVE  Onward /\ IssuedIsPaid' /\ UsedCameIn'
  BY <1>6 DEF voidTicket, IInv, TypeOK
<1> QED
  BY <1>1, <1>2, <1>3, <1>4, <1>5, <1>6 DEF Next

Report == [pc : {"closed", "shown"} \cup Reading, byTier : Nat, paidOrders : Nat, issued : Nat,
           checkedIn : Nat, refundRequired : Nat, buyers : Nat, fullyCheckedIn : BOOLEAN]

\* How far the SELECTs of the stats have come.
AfterRevenue == {"admissions", "needsRefund", "shown"}
AfterAdmissions == {"needsRefund", "shown"}
BeforeRevenue == {"closed", "tiers", "revenue", "buyers", "ticketCounts"}

\* What has been read so far, held against a later state of what it was read of.
ReadSoFar(r, o, made, came) ==
    /\ r.byTier <= Cardinality(made)
    /\ r.byTier > 0 \/ r.paidOrders > 0 => o.status # "awaiting_payment"
    /\ r.pc \in BeforeRevenue => r.paidOrders = 0
    /\ r.pc \in {"closed", "tiers", "buyers", "ticketCounts"} => r.byTier = 0
    /\ r.pc \in AfterRevenue /\ r.byTier > 0 => r.paidOrders > 0 \/ o.status = "refunded"
    /\ r.pc \in AfterAdmissions => r.byTier <= r.issued
    /\ r.pc = "shown" /\ r.paidOrders > 0 /\ o.refundRequired => r.refundRequired > 0
    /\ r.checkedIn <= Cardinality(came)
    /\ r.fullyCheckedIn => came # {}

ReportInv ==
    report \in Report /\ ReadSoFar(report, order, With(ticket, Made), CameIn(admissions))

\* It stays true of what was read while tickets and order go on.
LEMMA OnwardKeepsReport ==
    ASSUME TicketInv, Onward, ReportInv, report' = report
    PROVE  ReportInv'
<1> DEFINE made == With(ticket, Made)   made2 == With(ticket', Made)
           came == CameIn(admissions)   came2 == CameIn(admissions')
<1>1. made \subseteq made2 /\ came \subseteq came2
  BY DEF Onward
<1>2. /\ made \in SUBSET Ticket /\ made2 \in SUBSET Ticket
      /\ came \in SUBSET Ticket /\ came2 \in SUBSET Ticket
  BY DEF With, CameIn
<1> HIDE DEF made, made2, came, came2
<1>3. /\ Cardinality(made) \in Nat /\ Cardinality(made2) \in Nat
      /\ Cardinality(made) <= Cardinality(made2)
  BY <1>1, <1>2, CountOfMore
<1>4. /\ Cardinality(came) \in Nat /\ Cardinality(came2) \in Nat
      /\ Cardinality(came) <= Cardinality(came2)
  BY <1>1, <1>2, CountOfMore
<1>5. report \in Report /\ ReadSoFar(report, order, made, came)
  BY DEF ReportInv, made, came
<1>6. /\ order.status = "refunded" => order'.status = "refunded"
      /\ order.status # "awaiting_payment" =>
          order'.status # "awaiting_payment" /\ order'.refundRequired = order.refundRequired
  BY DEF Onward
<1>7. report.byTier \in Nat /\ report.checkedIn \in Nat
  BY <1>5 DEF Report
<1>8. ReadSoFar(report, order', made2, came2)
  BY <1>1, <1>3, <1>4, <1>5, <1>6, <1>7 DEF ReadSoFar
<1> QED
  BY <1>5, <1>8 DEF ReportInv, made2, came2

LEMMA Counts ==
    /\ In({"issued", "checked_in", "void"}) = Cardinality(With(ticket, Made))
    /\ In({"checked_in"}) = Cardinality(With(ticket, {"checked_in"}))
BY DEF In, With, Made

\* What the SELECTs of a report return.
LEMMA CountsAreNumbers ==
    ASSUME TicketInv
    PROVE  /\ Issued \in Nat /\ Issued = Cardinality(With(ticket, Made))
           /\ In({"checked_in"}) \in Nat /\ In({"checked_in"}) <= Cardinality(CameIn(admissions))
           /\ In({"checked_in"}) > 0 => CameIn(admissions) # {}
           /\ Issued > 0 => order.status # "awaiting_payment"
           /\ Cardinality(CameIn(admissions)) \in Nat
<1> DEFINE made == With(ticket, Made)
           used == With(ticket, {"checked_in"})
           came == CameIn(admissions)
<1>1. made \in SUBSET Ticket /\ used \in SUBSET Ticket /\ came \in SUBSET Ticket /\ used \subseteq came
  BY DEF With, CameIn, TicketInv, UsedCameIn
<1>2. made # {} => order.status # "awaiting_payment"
  BY DEF With, Made, TicketInv, IssuedIsPaid
<1>3. Issued = Cardinality(made) /\ In({"checked_in"}) = Cardinality(used)
  BY Counts DEF Issued
<1> HIDE DEF made, used, came
<1>4. Cardinality(made) \in Nat /\ (Cardinality(made) > 0 <=> made # {})
  BY <1>1, CountOfMore
<1>5. /\ Cardinality(used) \in Nat /\ Cardinality(came) \in Nat
      /\ Cardinality(used) <= Cardinality(came) /\ (Cardinality(used) > 0 <=> used # {})
  BY <1>1, CountOfMore
<1> QED
  BY <1>1, <1>2, <1>3, <1>4, <1>5 DEF made, came

LEMMA StatsStep ==
    ASSUME TicketInv, ReportInv, stats, UNCHANGED <<order, ticket, admissions>>
    PROVE  ReportInv'
<1> DEFINE made == With(ticket, Made)
           came == CameIn(admissions)
           used == In({"checked_in"})
<1>1. /\ Issued \in Nat /\ Issued = Cardinality(made) /\ used \in Nat /\ used <= Cardinality(came)
      /\ Issued > 0 => order.status # "awaiting_payment"
  BY CountsAreNumbers
<1>2. With(ticket', Made) = made /\ CameIn(admissions') = came
  BY DEF With, CameIn
<1>3. report \in Report /\ ReadSoFar(report, order, made, came)
  BY DEF ReportInv
<1>4. PaidOrders \in Nat /\ (PaidOrders > 0 <=> order.status = "paid")
  BY DEF PaidOrders
<1>5. Flagged \in Nat /\ (Flagged > 0 <=> order.refundRequired)
  BY DEF Flagged, TicketInv, IInv, TypeOK
<1>6. order.status \in {"awaiting_payment", "paid", "refunded"}
  BY DEF TicketInv, IInv, TypeOK, OrderStatuses
<1> HIDE DEF made, came, used
<1> SUFFICES report' \in Report /\ ReadSoFar(report', order, made, came)
  BY <1>2 DEF ReportInv
<1>7. CASE report.pc = "tiers" /\ report' = [report EXCEPT !.pc = "revenue", !.byTier = Issued]
  <2>1. /\ report' \in Report /\ report'.pc = "revenue" /\ report'.byTier = Issued
        /\ report'.paidOrders = report.paidOrders /\ report'.checkedIn = report.checkedIn
        /\ report'.fullyCheckedIn = report.fullyCheckedIn
    BY <1>1, <1>3, <1>7 DEF Report, Reading
  <2> QED
    BY <1>1, <1>3, <1>7, <2>1 DEF ReadSoFar, BeforeRevenue, AfterRevenue, AfterAdmissions
<1>8. CASE report.pc = "revenue" /\ report' = [report EXCEPT !.pc = "admissions", !.paidOrders = PaidOrders]
  <2>1. /\ report' \in Report /\ report'.pc = "admissions" /\ report'.paidOrders = PaidOrders
        /\ report'.byTier = report.byTier /\ report'.checkedIn = report.checkedIn
        /\ report'.fullyCheckedIn = report.fullyCheckedIn
    BY <1>3, <1>4, <1>8 DEF Report, Reading
  <2> QED
    BY <1>3, <1>4, <1>6, <1>8, <2>1 DEF ReadSoFar, BeforeRevenue, AfterRevenue, AfterAdmissions
<1>9. CASE /\ report.pc = "admissions"
           /\ report' = [report EXCEPT !.pc = "needsRefund", !.issued = Issued, !.checkedIn = used]
  <2>1. /\ report' \in Report /\ report'.pc = "needsRefund" /\ report'.issued = Issued
        /\ report'.checkedIn = used /\ report'.byTier = report.byTier
        /\ report'.paidOrders = report.paidOrders
        /\ report'.fullyCheckedIn = report.fullyCheckedIn
    BY <1>1, <1>3, <1>9 DEF Report, Reading
  <2> QED
    BY <1>1, <1>3, <1>9, <2>1 DEF ReadSoFar, BeforeRevenue, AfterRevenue, AfterAdmissions
<1>10. CASE /\ report.pc = "needsRefund"
            /\ report' = [report EXCEPT !.pc = "shown", !.refundRequired = Flagged]
  <2>1. /\ report' \in Report /\ report'.pc = "shown" /\ report'.refundRequired = Flagged
        /\ report'.issued = report.issued
        /\ report'.checkedIn = report.checkedIn /\ report'.byTier = report.byTier
        /\ report'.paidOrders = report.paidOrders
        /\ report'.fullyCheckedIn = report.fullyCheckedIn
    BY <1>3, <1>5, <1>10 DEF Report, Reading
  <2> QED
    BY <1>3, <1>5, <1>10, <2>1 DEF ReadSoFar, BeforeRevenue, AfterRevenue, AfterAdmissions
<1> QED
  BY <1>7, <1>8, <1>9, <1>10 DEF stats, used

LEMMA BuyersStep ==
    ASSUME TicketInv, ReportInv, buyers, UNCHANGED <<order, ticket, admissions>>
    PROVE  ReportInv'
<1> DEFINE made == With(ticket, Made)
           came == CameIn(admissions)
           used == In({"checked_in"})
           present == In({"issued", "checked_in"})
           all == report.buyers > 0 /\ present > 0 /\ present = used
<1>1. used > 0 => came # {}
  BY CountsAreNumbers
<1>2. With(ticket', Made) = made /\ CameIn(admissions') = came
  BY DEF With, CameIn
<1>3. report \in Report /\ ReadSoFar(report, order, made, came)
  BY DEF ReportInv
<1>4. PaidOrders \in Nat
  BY DEF PaidOrders
<1>5. all \in BOOLEAN /\ (all => used > 0)
  OBVIOUS
<1>6. \/ /\ report.pc = "buyers"
         /\ report' = [report EXCEPT !.pc = "ticketCounts", !.buyers = PaidOrders]
      \/ /\ report.pc = "ticketCounts"
         /\ report' = [report EXCEPT !.pc = "shown", !.fullyCheckedIn = all]
  BY DEF buyers
<1> HIDE DEF made, came, used, present, all
<1> SUFFICES report' \in Report /\ ReadSoFar(report', order, made, came)
  BY <1>2 DEF ReportInv
<1>7. CASE report.pc = "buyers" /\ report' = [report EXCEPT !.pc = "ticketCounts", !.buyers = PaidOrders]
  <2>1. /\ report' \in Report /\ report'.pc = "ticketCounts"
        /\ report'.byTier = report.byTier /\ report'.checkedIn = report.checkedIn
        /\ report'.paidOrders = report.paidOrders
        /\ report'.fullyCheckedIn = report.fullyCheckedIn
    BY <1>3, <1>4, <1>7 DEF Report, Reading
  <2> QED
    BY <1>3, <1>7, <2>1 DEF ReadSoFar, BeforeRevenue, AfterRevenue, AfterAdmissions
<1>8. CASE report.pc = "ticketCounts" /\ report' = [report EXCEPT !.pc = "shown", !.fullyCheckedIn = all]
  <2>1. /\ report' \in Report /\ report'.pc = "shown" /\ report'.fullyCheckedIn = all
        /\ report'.issued = report.issued
        /\ report'.byTier = report.byTier /\ report'.checkedIn = report.checkedIn
        /\ report'.paidOrders = report.paidOrders
    BY <1>3, <1>5, <1>8 DEF Report, Reading
  <2>2. report.byTier = 0 /\ report.paidOrders = 0 /\ report.issued \in Nat
    BY <1>3, <1>8 DEF ReadSoFar, BeforeRevenue, Report
  <2>3. all => came # {}
    BY <1>1, <1>5
  <2> QED
    BY <1>3, <1>8, <2>1, <2>2, <2>3 DEF ReadSoFar, BeforeRevenue, AfterRevenue, AfterAdmissions
<1> QED
  BY <1>6, <1>7, <1>8

\* An empty report is in keeping with anything.
LEMMA EmptyReport ==
    ASSUME TicketInv, NEW c \in {"closed", "tiers", "buyers"}, report' = [NoReport EXCEPT !.pc = c],
           UNCHANGED <<order, ticket, admissions>>
    PROVE  ReportInv'
<1>1. /\ report' \in Report /\ report'.pc = c /\ report'.byTier = 0 /\ report'.paidOrders = 0
      /\ report'.checkedIn = 0 /\ report'.fullyCheckedIn = FALSE
  BY DEF NoReport, Report, Reading
<1>2. Cardinality(With(ticket', Made)) \in Nat /\ Cardinality(CameIn(admissions')) \in Nat
  BY CountsAreNumbers DEF With, CameIn
<1> QED
  BY <1>1, <1>2 DEF ReportInv, ReadSoFar, BeforeRevenue, AfterRevenue, AfterAdmissions

ReportsInv == DoorsInv /\ TicketInv /\ ReportInv

LEMMA InitReports == ReportsInit => ReportsInv
<1> SUFFICES ASSUME ReportsInit PROVE ReportsInv
  OBVIOUS
<1>1. DoorsInv
  <2>1. DoorsInit => WaitsForIts /\ GreenMeansIn
    BY DEF DoorsInit, Init, NoTickets, WaitsForIts, Busy, GreenMeansIn
  <2> QED
    BY <2>1, InitIInv, InitLinkInv DEF ReportsInit, DoorsInit, DoorsInv
<1>2. TicketInv
  BY <1>1 DEF ReportsInit, DoorsInit, Init, NoTickets, DoorsInv, TicketInv, IssuedIsPaid, UsedCameIn, With
<1>3. /\ report \in Report /\ report.pc = "closed" /\ report.byTier = 0 /\ report.paidOrders = 0
      /\ report.checkedIn = 0 /\ report.fullyCheckedIn = FALSE
  BY DEF ReportsInit, NoReport, Report
<1>4. Cardinality(With(ticket, Made)) \in Nat /\ Cardinality(CameIn(admissions)) \in Nat
  BY <1>2, CountsAreNumbers
<1>5. ReportInv
  BY <1>3, <1>4 DEF ReportInv, ReadSoFar, BeforeRevenue, AfterRevenue, AfterAdmissions
<1> QED
  BY <1>1, <1>2, <1>5 DEF ReportsInv

LEMMA NextReports ==
    ASSUME ReportsInv, [ReportsNext]_reportVars
    PROVE  ReportsInv'
<1>1. DoorsInv /\ TicketInv /\ ReportInv
  BY DEF ReportsInv
<1>2. CASE [DoorsNext]_doorsVars /\ report' = report
  <2>1. DoorsInv' /\ [Next]_vars
    BY <1>1, <1>2, NextDoors, StepOfTickets DEF DoorsInv
  <2>2. Onward /\ TicketInv'
    BY <1>1, <2>1, NextOnward DEF DoorsInv, TicketInv
  <2> QED
    BY <1>1, <1>2, <2>1, <2>2, OnwardKeepsReport DEF ReportsInv
<1>3. CASE (load \/ stats \/ openBuyers \/ buyers \/ close) /\ UNCHANGED doorsVars
  <2>1. UNCHANGED <<order, ticket, admissions>> /\ UNCHANGED vars
    BY <1>3 DEF doorsVars, ticketsVars, vars
  <2>2. DoorsInv' /\ TicketInv'
    BY <1>1, <1>3, <2>1, NextDoors, NextOnward DEF DoorsInv, TicketInv
  <2>3. ReportInv'
    <3>1. CASE load
      BY <1>1, <2>1, <3>1, EmptyReport DEF load
    <3>2. CASE openBuyers
      BY <1>1, <2>1, <3>2, EmptyReport DEF openBuyers
    <3>3. CASE close
      <4>1. NoReport = [NoReport EXCEPT !.pc = "closed"]
        BY DEF NoReport
      <4> QED
        BY <1>1, <2>1, <3>3, <4>1, EmptyReport DEF close
    <3>4. CASE stats
      BY <1>1, <2>1, <3>4, StatsStep
    <3>5. CASE buyers
      BY <1>1, <2>1, <3>5, BuyersStep
    <3> QED
      BY <1>3, <3>1, <3>2, <3>3, <3>4, <3>5
  <2> QED
    BY <2>2, <2>3 DEF ReportsInv
<1> QED
  BY <1>2, <1>3 DEF ReportsNext, reportVars

\* The stats and the buyers of an event read at several times and in no
\* transaction, and what the page shows at once adds up all the same.
THEOREM ReportsAddUp == ReportsSpec => []ReportAddsUp
<1>1. ReportsInv => ReportAddsUp
  <2> SUFFICES ASSUME ReportsInv, report.pc = "shown" PROVE ReportAddsUp
    BY DEF ReportAddsUp
  <2>1. report \in Report /\ ReadSoFar(report, order, With(ticket, Made), CameIn(admissions))
    BY DEF ReportsInv, ReportInv
  <2>2. CameIn(admissions) = {k \in Ticket : admissions[k] > 0}
    BY DEF CameIn
  <2>3. CameIn(admissions) # {} => \E k \in Ticket : admissions[k] > 0
    BY DEF CameIn
  <2>4. /\ report.byTier <= report.issued
        /\ report.byTier > 0 => report.paidOrders > 0 \/ order.status = "refunded"
        /\ report.paidOrders > 0 /\ order.refundRequired => report.refundRequired > 0
        /\ report.checkedIn <= Cardinality(CameIn(admissions))
        /\ report.fullyCheckedIn => CameIn(admissions) # {}
    BY <2>1 DEF ReadSoFar, AfterRevenue, AfterAdmissions
  <2> QED
    BY <2>2, <2>3, <2>4 DEF ReportAddsUp
<1>2. ReportsInit => ReportsInv
  BY InitReports
<1>3. ReportsInv /\ [ReportsNext]_reportVars => ReportsInv'
  BY NextReports
<1> QED
  BY <1>1, <1>2, <1>3, PTL DEF ReportsSpec
=============================================================================
