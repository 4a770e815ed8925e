------------------------------ MODULE Accounts ------------------------------
(***************************************************************************)
(* Buyer accounts: the identities Firebase keeps, the browsers that        *)
(* announce a signed-in buyer to the API (AuthProvider.tsx), the users     *)
(* rows those calls keep, and the guest orders they hand over              *)
(* (users.service.ts).  A call is several statements, and only the last of *)
(* them, the hand-over, is a transaction.                                  *)
(***************************************************************************)
EXTENDS Naturals

CONSTANTS
    Uids,        \* Firebase identities; one person may have several
    Emails,      \* addresses orders are placed with
    Registered,  \* those that identities are registered with; they keep them
    Browsers,    \* each with at most one session call in flight (a bound)
    Orders,
    Nobody,      \* no identity, no order's owner, no row's address
    Released,    \* the address of a row whose address went to another row
    MaxTroubles  \* bound: calls that die, and accounts deleted

ASSUME RegisteredOK == Registered \subseteq Emails
ASSUME NobodyOK == Nobody \notin Uids \cup Emails /\ Released \notin Emails \cup {Nobody}

VARIABLES
    firebase,    \* [Uids -> its record there]
    entitled,    \* history: who has proved which address, or bought with it
    users,       \* [Uids -> the address in its users row; Nobody: no row]
    buyer,       \* [Orders -> the address it was placed with; Nobody: not placed]
    owner,       \* [Orders -> user_id]
    deleting,    \* uids whose row is deleted and whose Firebase user is to be
    browser,     \* [Browsers -> what AuthProvider knows]
    call,        \* [Browsers -> its session call]
    troubles

firebaseVars == <<firebase, entitled>>
orderVars == <<buyer, owner>>
vars == <<firebaseVars, users, orderVars, deleting, browser, call, troubles>>

Key == [uid : Uids, verified : BOOLEAN]
SignedOut == [uid |-> Nobody, verified |-> FALSE]
Token == [uid : Uids, email : Emails, verified : BOOLEAN]

CallStates == {"none", "sent", "new", "release", "upsert", "link", "done", "failed"}
NoToken == [uid |-> Nobody, email |-> Nobody, verified |-> FALSE]
NoCall == [pc |-> "none", token |-> NoToken, other |-> Nobody]

Init ==
    /\ firebase \in [Uids -> [state : {"none"}, email : Registered, verified : {FALSE}]]
    /\ entitled = {}
    /\ users = [u \in Uids |-> Nobody]
    /\ buyer = [o \in Orders |-> Nobody]
    /\ owner = [o \in Orders |-> Nobody]
    /\ deleting = {}
    /\ browser = [b \in Browsers |-> [user |-> SignedOut, announced |-> SignedOut, session |-> SignedOut]]
    /\ call = [b \in Browsers |-> NoCall]
    /\ troubles = 0

-----------------------------------------------------------------------------
(* What buyers do at Firebase.  Its listener in each page learns of it later. *)

Trouble == troubles < MaxTroubles /\ troubles' = troubles + 1

There(u) == firebase[u].state = "there"

firebaseRest == UNCHANGED <<users, orderVars, deleting, browser, call, troubles>>

\* Anybody can sign up with any address; a mail asks its owner to verify it.
signUpWithPassword(u) ==
    /\ firebase[u].state = "none"
    /\ firebase' = [firebase EXCEPT ![u].state = "there"]
    /\ UNCHANGED entitled
    /\ firebaseRest

\* Google and Apple vouch for the address, the first time and ever after.
signInWithProvider(u) ==
    /\ firebase[u].state = "none"
    /\ firebase' = [firebase EXCEPT ![u].state = "there", ![u].verified = TRUE]
    /\ entitled' = entitled \cup {<<u, firebase[u].email>>}
    /\ firebaseRest

\* External: the link of the mail.
VerifyEmail(u) ==
    /\ There(u) /\ ~firebase[u].verified
    /\ firebase' = [firebase EXCEPT ![u].verified = TRUE]
    /\ entitled' = entitled \cup {<<u, firebase[u].email>>}
    /\ firebaseRest

-----------------------------------------------------------------------------
(* The browser. *)

Known(u) == [uid |-> u, verified |-> firebase[u].verified]

TokenOf(u) == [uid |-> u, email |-> firebase[u].email, verified |-> firebase[u].verified]

\* A call unless this identity in this state has been announced before.  The
\* token says what Firebase knows, the key what the page does.
announce(b, current) ==
    IF browser[b].announced = current
    THEN /\ browser' = [browser EXCEPT ![b].user = current]
         /\ UNCHANGED call
    ELSE /\ call[b].pc = "none"
         /\ browser' = [browser EXCEPT ![b].user = current, ![b].announced = current]
         /\ call' = [call EXCEPT ![b] =
              [pc |-> "sent", token |-> TokenOf(current.uid), other |-> Nobody]]

browserRest == UNCHANGED <<firebaseVars, users, orderVars, deleting, troubles>>

SignIn(b, u) ==
    /\ browser[b].user = SignedOut /\ There(u)
    /\ announce(b, Known(u))
    /\ browserRest

\* onIdTokenChanged, every hour: the token is new, what the page knows is not.
TokenRefreshed(b) ==
    /\ browser[b].user # SignedOut /\ There(browser[b].user.uid)
    /\ browser[b].announced # browser[b].user
    /\ announce(b, browser[b].user)
    /\ browserRest

\* The identity is read again and announced, whether it has changed or not.
refresh(b) ==
    LET u == browser[b].user.uid
    IN  /\ browser[b].user # SignedOut /\ There(u)
        /\ call[b].pc = "none"
        /\ browser' = [browser EXCEPT ![b].user = Known(u), ![b].announced = Known(u)]
        /\ call' = [call EXCEPT ![b] =
             [pc |-> "sent", token |-> TokenOf(u), other |-> Nobody]]
        /\ browserRest

\* "I've verified", where the session said that it is still to be done.
check(b) == browser[b].session # SignedOut /\ ~browser[b].session.verified /\ refresh(b)

\* The settings page has saved a profile, which needs a row to save it in.
handleSave(b) == browser[b].user # SignedOut /\ users[browser[b].user.uid] # Nobody /\ refresh(b)

\* (Bound: not while its call is in flight, which another browser may have made.)
signOut(b) ==
    /\ browser[b].user # SignedOut /\ call[b].pc = "none"
    /\ browser' = [browser EXCEPT ![b] = [user |-> SignedOut, announced |-> SignedOut, session |-> SignedOut]]
    /\ UNCHANGED call
    /\ browserRest

SessionOf(token) == [uid |-> token.uid, verified |-> token.verified]


\* After a failure the next token announces again.
Answered(b) ==
    /\ call[b].pc \in {"done", "failed"}
    /\ browser' = IF call[b].pc = "failed" THEN [browser EXCEPT ![b].announced = SignedOut]
                  ELSE [browser EXCEPT ![b].session = SessionOf(call[b].token)]
    /\ call' = [call EXCEPT ![b] = NoCall]
    /\ browserRest

-----------------------------------------------------------------------------
(* POST /api/account/session. *)

subject(b) == call[b].token

Goto(b, pc) == call' = [call EXCEPT ![b].pc = pc]

callRest == UNCHANGED <<firebaseVars, deleting, browser, troubles>>

\* verifyIdToken, which asks whether the identity is still there, and whether
\* there is a row.
ReadRow(b) ==
    /\ call[b].pc = "sent"
    /\ Goto(b, IF ~There(subject(b).uid) THEN "failed"
               ELSE IF users[subject(b).uid] = Nobody THEN "new" ELSE "upsert")
    /\ UNCHANGED <<users, orderVars>> /\ callRest

Others(b) == {v \in Uids \ {subject(b).uid} : users[v] = subject(b).email}

\* Whose address it is, if another row has it.
ReadEmailOwner(b) ==
    /\ call[b].pc = "new"
    /\ \/ Others(b) = {} /\ Goto(b, "upsert")
       \/ \E v \in Others(b) :
            call' = [call EXCEPT ![b].pc = "release", ![b].other = v]
    /\ UNCHANGED <<users, orderVars>> /\ callRest

\* That row gives it up, whatever its address is now.
ReleaseEmail(b) ==
    /\ call[b].pc = "release"
    /\ users' = [users EXCEPT ![call[b].other] = IF @ = Nobody THEN Nobody ELSE Released]
    /\ call' = [call EXCEPT ![b].pc = "upsert", ![b].other = Nobody]
    /\ UNCHANGED orderVars /\ callRest

\* Mutation: it is not asked whether the address is verified.
UpsertUserTrusting(b) ==
    /\ call[b].pc = "upsert"
    /\ IF Others(b) # {}
       THEN Goto(b, "failed") /\ UNCHANGED users
       ELSE /\ users' = [users EXCEPT ![subject(b).uid] = subject(b).email]
            /\ Goto(b, "link")
    /\ UNCHANGED orderVars /\ callRest

\* An address another row has (again) fails the statement, and the call.
UpsertUser(b) ==
    /\ call[b].pc = "upsert"
    /\ IF Others(b) # {}
       THEN Goto(b, "failed") /\ UNCHANGED users
       ELSE /\ users' = [users EXCEPT ![subject(b).uid] = subject(b).email]
            /\ Goto(b, IF subject(b).verified THEN "link" ELSE "done")
    /\ UNCHANGED orderVars /\ callRest

Unclaimed(e) == {o \in Orders : buyer[o] = e /\ owner[o] = Nobody}

HandOver(os, u) == owner' = [o \in Orders |-> IF o \in os THEN u ELSE owner[o]]

\* Mutation: the orders of the address, claimed or not.
linkAllOrders(b) ==
    LET claimed == {o \in Orders : buyer[o] = subject(b).email}
    IN  /\ call[b].pc = "link"
        /\ IF claimed # {} /\ users[subject(b).uid] = Nobody
           THEN Goto(b, "failed") /\ UNCHANGED owner
           ELSE HandOver(claimed, subject(b).uid) /\ Goto(b, "done")
        /\ UNCHANGED <<users, buyer>> /\ callRest

\* The transaction: all orders of the address that nobody has, and an entry for
\* each.  user_id refers to users, so it fails if the row is gone again.
linkGuestOrders(b) ==
    LET claimed == Unclaimed(subject(b).email)
    IN  /\ call[b].pc = "link"
        /\ IF claimed # {} /\ users[subject(b).uid] = Nobody
           THEN Goto(b, "failed") /\ UNCHANGED owner
           ELSE HandOver(claimed, subject(b).uid) /\ Goto(b, "done")
        /\ UNCHANGED <<users, buyer>> /\ callRest

recordSignIn(b) ==
    ReadRow(b) \/ ReadEmailOwner(b) \/ ReleaseEmail(b) \/ UpsertUser(b) \/ linkGuestOrders(b)

\* The process dies or the answer is lost, whatever has been done.
CallFails(b) ==
    /\ call[b].pc \notin {"none", "failed"}
    /\ Trouble
    /\ call' = [call EXCEPT ![b].pc = "failed", ![b].other = Nobody]
    /\ UNCHANGED <<firebaseVars, users, orderVars, deleting, browser>>

-----------------------------------------------------------------------------
(* Orders, and the end of an account. *)

\* POST /api/checkout with a token or without.  An identity that is gone buys as
\* a guest; one that has no row yet breaks the foreign key, and buys nothing.
PlaceOrder(b, o, e) ==
    LET u == browser[b].user.uid
        as == IF u # Nobody /\ There(u) THEN u ELSE Nobody
    IN  /\ buyer[o] = Nobody
        /\ as # Nobody => users[as] # Nobody
        /\ buyer' = [buyer EXCEPT ![o] = e]
        /\ owner' = [owner EXCEPT ![o] = as]
        /\ entitled' = IF as = Nobody THEN entitled ELSE entitled \cup {<<as, e>>}
        /\ UNCHANGED <<firebase, users, deleting, browser, call, troubles>>

\* The row goes, and its orders are guest orders again (on delete set null).
deleteAccount(u) ==
    /\ users' = [users EXCEPT ![u] = Nobody]
    /\ owner' = [o \in Orders |-> IF owner[o] = u THEN Nobody ELSE owner[o]]
    /\ deleting' = deleting \cup {u}

\* The settings page closes the account it is signed in to, from any browser.
handleDelete(b) ==
    LET u == browser[b].user.uid
    IN  /\ u # Nobody /\ There(u) /\ u \notin deleting /\ Trouble
        /\ deleteAccount(u)
        /\ UNCHANGED <<firebaseVars, buyer, browser, call>>

\* Then the identity goes, or, when Firebase does not answer, stays with no row.
deleteFirebaseUser(u) ==
    /\ u \in deleting
    /\ deleting' = deleting \ {u}
    /\ \/ firebase' = [firebase EXCEPT ![u].state = "gone"]
       \/ UNCHANGED firebase
    /\ UNCHANGED <<entitled, users, orderVars, browser, call, troubles>>

-----------------------------------------------------------------------------
Next ==
    \/ \E u \in Uids : signUpWithPassword(u) \/ signInWithProvider(u) \/ VerifyEmail(u) \/ deleteFirebaseUser(u)
    \/ \E b \in Browsers :
         \/ \E u \in Uids : SignIn(b, u)
         \/ TokenRefreshed(b) \/ check(b) \/ handleSave(b) \/ signOut(b) \/ Answered(b)
         \/ recordSignIn(b) \/ CallFails(b) \/ handleDelete(b)
         \/ \E o \in Orders, e \in Emails : PlaceOrder(b, o, e)

Spec == Init /\ [][Next]_vars

\* The API answers and Firebase renews tokens; nobody need verify, refresh or stay.
FairSpec ==
    /\ Spec
    /\ \A b \in Browsers :
         WF_vars(recordSignIn(b)) /\ WF_vars(Answered(b)) /\ WF_vars(TokenRefreshed(b))

-----------------------------------------------------------------------------
TypeOK ==
    /\ firebase \in [Uids -> [state : {"none", "there", "gone"}, email : Emails, verified : BOOLEAN]]
    /\ users \in [Uids -> Emails \cup {Nobody, Released}]
    /\ buyer \in [Orders -> Emails \cup {Nobody}]
    /\ owner \in [Orders -> Uids \cup {Nobody}]
    /\ \A o \in Orders : owner[o] # Nobody => users[owner[o]] # Nobody
    /\ \A u, v \in Uids : users[u] = users[v] /\ users[u] \in Emails => u = v
    /\ browser \in [Browsers -> [user : Key \cup {SignedOut}, announced : Key \cup {SignedOut},
                                 session : Key \cup {SignedOut}]]
    /\ deleting \subseteq Uids
    /\ call \in [Browsers -> [pc : CallStates, token : Token \cup {NoToken}, other : Uids \cup {Nobody}]]
    /\ \A b \in Browsers : call[b].pc # "none" => call[b].token \in Token
    /\ \A b \in Browsers : call[b].pc = "release" => call[b].other \in Uids

\* Whoever has an order placed it signed in, or has proved that the address it
\* was placed with is theirs, though calls read rows that others change.
OwnersAccountedFor ==
    \A o \in Orders : owner[o] # Nobody => <<owner[o], buyer[o]>> \in entitled

\* An order moves from one account to no other: however calls race, whatever
\* they read before, it is let go only by its owner's account ending.
OrdersStayPut ==
    [][\A o \in Orders : owner[o] # Nobody /\ owner'[o] # owner[o] =>
          owner'[o] = Nobody /\ users'[owner[o]] = Nobody]_vars

\* The identity is gone, or its address is another row's.
Contested(u, e) ==
    \/ ~There(u)
    \/ \E v \in Uids \ {u} : users[v] = e

\* The page knows its buyer as verified, and has no answer to that yet.
Announcing(b, u, e) ==
    /\ browser[b].user = [uid |-> u, verified |-> TRUE]
    /\ browser[b].session # browser[b].user
    /\ firebase[u].email = e

Waiting(o) ==
    /\ buyer[o] # Nobody /\ owner[o] = Nobody
    /\ \E b \in Browsers, u \in Uids : Announcing(b, u, buyer[o]) /\ ~Contested(u, buyer[o])

=============================================================================
