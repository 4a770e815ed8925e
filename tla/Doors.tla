-------------------------------- MODULE Doors --------------------------------
(***************************************************************************)
(* Who gets to check tickets in: scanner links (plugins/auth.ts and the    *)
(* scanner routes of admin.routes.ts) and the phones that open them        *)
(* (ScanPage.tsx, scanApi.ts), composed with the check-in transactions of  *)
(* Tickets.  A link is a signed token with an end; it is shut out by an    *)
(* entry in a denylist that Redis keeps for a time.  Anybody the link was  *)
(* passed on to holds it.  A gate of Tickets is one lane of requests of    *)
(* such a phone: a page that types a code while a scanned one is under way *)
(* has two, with the same link.                                            *)
(***************************************************************************)
EXTENDS Tickets

CONSTANTS
    Links,        \* jtis
    NoLink,
    DefaultTtl,   \* hours a link is good for, unless the organiser says otherwise
    LongestTtl,   \* the longest the organiser may say
    NotGiven,     \* a field left out of a request
    MaxHours      \* bound on the clock

ASSUME TtlOK == DefaultTtl \in 1..LongestTtl /\ LongestTtl \in Nat
ASSUME NotGivenOK == NotGiven \notin Nat
ASSUME NoLinkOK == NoLink \notin Links

VARIABLES
    now,          \* the clock, in hours
    link,         \* [Links -> whether minted, for the event of the order or another, its end]
    denied,       \* [Links -> when Redis forgets that it is revoked; 0: no entry]
    shutOut,      \* history: links whose last revocation gave no duration of its own
    phone,        \* [Gates -> its link, how far the request of this lane is, of which ticket]
    greens        \* history: how often a phone said Admit for the ticket

ticketsVars == vars
linkVars == <<link, denied, shutOut>>
doorsVars == <<ticketsVars, now, linkVars, phone, greens>>

Unused == [link |-> NoLink, pc |-> "ready", ticket |-> NoTicket, checked |-> FALSE]

DoorsInit ==
    /\ Init
    /\ now = 0
    /\ link = [l \in Links |-> [minted |-> FALSE, event |-> "own", end |-> 0]]
    /\ denied = [l \in Links |-> 0]
    /\ shutOut = {}
    /\ phone = [g \in Gates |-> Unused]
    /\ greens = [k \in Ticket |-> 0]

Tick ==
    /\ now < MaxHours
    /\ now' = now + 1
    /\ UNCHANGED <<ticketsVars, linkVars, phone, greens>>

-----------------------------------------------------------------------------
(* The organiser. *)

\* The route's default.
ttlHours(asked) == IF asked = NotGiven THEN DefaultTtl ELSE asked

mintScannerToken(l, asked) ==
    /\ ~link[l].minted
    /\ \E event \in {"own", "other"} :
         link' = [link EXCEPT ![l] = [minted |-> TRUE, event |-> event,
                                      end |-> now + ttlHours(asked)]]
    /\ UNCHANGED <<ticketsVars, now, denied, shutOut, phone, greens>>

\* Mutation: as long as links are good for when nobody says otherwise.
remainingHoursOfDefault(asked) == IF asked = NotGiven THEN DefaultTtl ELSE asked

\* The server does not know when the link ends; the organiser may say.
remainingHours(asked) == IF asked = NotGiven THEN LongestTtl ELSE asked

\* A second revocation replaces the duration of the first, one of no time does nothing.
revokeScannerToken(l, asked) ==
    LET hours == remainingHours(asked)
    IN  /\ link[l].minted
        /\ denied' = IF hours = 0 THEN denied ELSE [denied EXCEPT ![l] = now + hours]
        /\ shutOut' = IF asked = NotGiven THEN shutOut \cup {l}
                      ELSE IF hours = 0 THEN shutOut ELSE shutOut \ {l}
        /\ UNCHANGED <<ticketsVars, now, link, phone, greens>>

\* The dashboard's form, where the hours may be left out ...
handleMint(l) == \E asked \in {NotGiven} \cup 1..LongestTtl : mintScannerToken(l, asked)

\* ... and its button, which says nothing of how long the link has left.
handleRevoke(l) == revokeScannerToken(l, NotGiven)

\* By the API, where the organiser may say.
revokeByApi(l) == \E asked \in 0..LongestTtl : revokeScannerToken(l, asked)

-----------------------------------------------------------------------------
(* The page.  The camera waits for the answer to the code it read, a form   *)
(* to type in does not: that is another lane.  A link in the page's address *)
(* replaces the one it has kept.                                            *)

OpenLink(g, l) ==
    /\ link[l].minted /\ phone[g].pc \in {"ready", "dead"}
    /\ phone' = [phone EXCEPT ![g] = [Unused EXCEPT !.link = l]]
    /\ UNCHANGED <<ticketsVars, now, linkVars, greens>>

\* Without a link, or with one that no longer works, the page has nothing to scan
\* or type with.
Scanning(g) == phone[g].pc = "ready" /\ phone[g].link # NoLink

submitCode(g, k) ==
    /\ Scanning(g)
    /\ phone' = [phone EXCEPT ![g].pc = "sent", ![g].ticket = k]
    /\ UNCHANGED <<ticketsVars, now, linkVars, greens>>

\* The answer, or none: then the page says so, and what was done stays done.  Of
\* what the page says only Admit is told apart, and a link that is dead.
Answered(g, banner) ==
    \E arrives \in BOOLEAN :
        /\ phone' = [phone EXCEPT ![g] =
             [Unused EXCEPT !.link = phone[g].link,
                            !.pc = IF arrives /\ banner = "dead" THEN "dead" ELSE "ready"]]
        /\ greens' = IF arrives /\ banner = "admit"
                     THEN [greens EXCEPT ![phone[g].ticket] = @ + 1] ELSE greens

-----------------------------------------------------------------------------
(* The server. *)

Expired(l) == now >= link[l].end
Denied(l) == now < denied[l]

\* First the signature and the end of the link, then the denylist, which is
\* passed over when Redis does not answer.
requireScanner(g) ==
    LET l == phone[g].link
    IN  /\ phone[g].pc = "sent"
        /\ IF Expired(l) THEN Answered(g, "dead")
           ELSE \E redisAnswers \in BOOLEAN :
                  IF redisAnswers /\ Denied(l) THEN Answered(g, "dead")
                  ELSE /\ phone' = [phone EXCEPT ![g].pc = "through", ![g].checked = redisAnswers]
                       /\ UNCHANGED greens
        /\ UNCHANGED <<ticketsVars, now, linkVars>>

\* The route names the event of the link.
OfItsEvent(g) == link[phone[g].link].event = "own"

\* checkInTicket locks the ticket, or turns the request away at once: no such
\* ticket, one of another event, one that is void.
ScanTicket(g) ==
    LET k == phone[g].ticket
    IN  /\ phone[g].pc = "through" /\ gate[g] = Idle
        /\ \/ OfItsEvent(g) /\ Scan(g, k) /\ UNCHANGED <<phone, greens>>
           \/ /\ ~OfItsEvent(g) \/ ticket[k] \in {"none", "void"}
              /\ ~Locked(k) /\ Answered(g, "refused") /\ UNCHANGED ticketsVars
        /\ UNCHANGED <<now, linkVars>>

\* The order is not paid, or the ticket was used, now or a moment ago by this
\* very phone, whose answer was lost.
JudgeTicket(g) ==
    /\ Judge(g)
    /\ IF gate'[g] = Idle THEN Answered(g, "refused") ELSE UNCHANGED <<phone, greens>>
    /\ UNCHANGED <<now, linkVars>>

AdmitGuest(g) ==
    /\ Admit(g) /\ Answered(g, "admit")
    /\ UNCHANGED <<now, linkVars>>

\* Mutation: the page is told before the transaction is committed.
AbortAnswered(g) ==
    /\ Abort(g) /\ Answered(g, IF gate[g].pc = "admitting" THEN "admit" ELSE "refused")
    /\ UNCHANGED <<now, linkVars>>

AbortCheckIn(g) ==
    /\ Abort(g) /\ Answered(g, "refused")
    /\ UNCHANGED <<now, linkVars>>

\* The order is paid or refunded, tickets are issued or voided.
OrderChanges ==
    /\ \/ \E refund \in BOOLEAN : PayOrder(refund)
       \/ RefundOrder \/ issueTicketsForOrder
       \/ \E k \in Ticket : voidTicket(k)
    /\ UNCHANGED <<now, linkVars, phone, greens>>

DoorsNext ==
    \/ Tick \/ OrderChanges
    \/ \E l \in Links : handleMint(l) \/ handleRevoke(l) \/ revokeByApi(l)
    \/ \E g \in Gates :
         \/ \E l \in Links : OpenLink(g, l)
         \/ \E k \in Ticket : submitCode(g, k)
         \/ requireScanner(g) \/ ScanTicket(g) \/ JudgeTicket(g)
         \/ AdmitGuest(g) \/ AbortCheckIn(g)

DoorsSpec == DoorsInit /\ [][DoorsNext]_doorsVars

-----------------------------------------------------------------------------
\* A link that was shut out passes no check that Redis answers, however long it
\* was good for and whenever it was revoked: the denylist does not forget first.
ShutOutStaysOut ==
    [][\A g \in Gates :
         phone[g].pc = "sent" /\ phone'[g].pc = "through" /\ phone'[g].checked
             => phone[g].link \notin shutOut]_doorsVars

\* A phone says Admit at most once for each person the ledger says went in, though
\* answers get lost and transactions are rolled back at any point.
GreenMeansIn == \A k \in Ticket : greens[k] <= admissions[k]
=============================================================================
