---------------------------- MODULE PeopleProofs ----------------------------
(***************************************************************************)
(* What belongs to whoever has an address: its orders (Accounts) and its   *)
(* place on the announcement list (Audience), for any number of            *)
(* identities, browsers, orders, addresses and organisers.  The two share  *)
(* no state; each has an invariant of its own.                             *)
(*                                                                         *)
(* Accounts.  What a call does is decided by the token it came with, and   *)
(* the rows may have changed since it read them; so the argument rests on  *)
(* what a token says staying true: who had once proved an address has      *)
(* proved it for ever (VerifiedIsEntitled, Fit).                           *)
(*                                                                         *)
(* Audience.  Announcing once rests on the claim of announced_at: an       *)
(* address is left to queue only if it was never queued, and something was *)
(* queued only after the claim (QueuedAfterClaim).                         *)
(***************************************************************************)
EXTENDS Accounts, Audience, TLAPS

-----------------------------------------------------------------------------
(* Accounts. *)

Rows ==
    /\ firebase \in [Uids -> [state : {"none", "there", "gone"}, email : Emails, verified : BOOLEAN]]
    /\ entitled \subseteq Uids \X Emails
    /\ users \in [Uids -> Emails \cup {Nobody, Released}]
    /\ buyer \in [Orders -> Emails \cup {Nobody}]
    /\ owner \in [Orders -> Uids \cup {Nobody}]
    /\ deleting \subseteq Uids

Pages ==
    browser \in [Browsers -> [user : Key \cup {SignedOut}, announced : Key \cup {SignedOut},
                              session : Key \cup {SignedOut}]]

CallShape == [pc : CallStates, token : Token \cup {NoToken}, other : Uids \cup {Nobody}]

\* What a token says is verified has been proved, and only such a token links.
Fit(r) ==
    /\ r.pc # "none" => r.token \in Token
    /\ r.pc = "release" => r.other \in Uids
    /\ r.pc = "link" => r.token.verified
    /\ r.token.verified => <<r.token.uid, r.token.email>> \in entitled

Calls ==
    /\ call \in [Browsers -> CallShape]
    /\ \A b \in Browsers : Fit(call[b])

\* user_id refers to a row of users.
OwnersHaveRows == \A o \in Orders : owner[o] # Nobody => users[owner[o]] # Nobody

\* The unique index on users.email.
OneRowAnAddress == \A u, v \in Uids : users[u] = users[v] /\ users[u] \in Emails => u = v

\* What Firebase calls verified has been proved.
VerifiedIsEntitled ==
    \A u \in Uids : firebase[u].verified => <<u, firebase[u].email>> \in entitled

IInv ==
    /\ Rows
    /\ Pages
    /\ Calls
    /\ OwnersHaveRows
    /\ OneRowAnAddress
    /\ VerifiedIsEntitled
    /\ OwnersAccountedFor

-----------------------------------------------------------------------------
LEMMA InitIInv == Init => IInv
<1> SUFFICES ASSUME Init PROVE IInv
  OBVIOUS
<1>1. Rows
  BY RegisteredOK DEF Init, Rows
<1>2. Pages
  BY DEF Init, Pages
<1>3. Calls
  BY DEF Init, Calls, Fit, CallShape, CallStates, NoCall, NoToken
<1>4. OwnersHaveRows /\ OneRowAnAddress /\ OwnersAccountedFor
  BY NobodyOK DEF Init, OwnersHaveRows, OneRowAnAddress, OwnersAccountedFor
<1>5. VerifiedIsEntitled
  BY <1>1 DEF Init, VerifiedIsEntitled, Rows
<1> QED
  BY <1>1, <1>2, <1>3, <1>4, <1>5 DEF IInv

\* One call changes, to one that fits.
LEMMA CallMoves ==
    ASSUME Calls, UNCHANGED entitled,
           NEW b \in Browsers, NEW r \in CallShape, Fit(r),
           call' = [call EXCEPT ![b] = r]
    PROVE  Calls'
<1>1. \A c \in Browsers : call'[c] = IF c = b THEN r ELSE call[c]
  BY DEF Calls
<1>2. call' \in [Browsers -> CallShape]
  BY DEF Calls
<1> QED
  BY <1>1, <1>2 DEF Calls, Fit

\* The rows keep what the invariant says of them when no row changes.
LEMMA RowsStay ==
    ASSUME IInv, UNCHANGED <<firebaseVars, users, orderVars, deleting>>, Pages', Calls'
    PROVE  IInv'
BY DEF firebaseVars, orderVars, IInv, Rows, OwnersHaveRows, OneRowAnAddress,
       VerifiedIsEntitled, OwnersAccountedFor

-----------------------------------------------------------------------------
\* Whatever makes an address count as verified, its owner has proved it.
LEMMA ProvingKeeps ==
    ASSUME IInv, NEW u \in Uids,
           firebase' \in [Uids -> [state : {"none", "there", "gone"}, email : Emails, verified : BOOLEAN]],
           \A v \in Uids : /\ firebase'[v].email = firebase[v].email
                           /\ v # u => firebase'[v].verified = firebase[v].verified,
           entitled' = entitled \cup {<<u, firebase[u].email>>},
           firebaseRest
    PROVE  IInv'
<1>1. UNCHANGED <<users, buyer, owner, deleting, browser, call>>
  BY DEF firebaseRest, orderVars
<1>2. Rows'
  <2>1. firebase[u].email \in Emails
    BY DEF IInv, Rows
  <2>2. entitled' \subseteq Uids \X Emails
    BY <2>1 DEF IInv, Rows
  <2> QED
    BY <1>1, <2>2 DEF IInv, Rows
<1>3. VerifiedIsEntitled'
  BY DEF IInv, VerifiedIsEntitled
<1>4. Calls'
  BY <1>1 DEF IInv, Calls, Fit
<1> QED
  BY <1>1, <1>2, <1>3, <1>4
     DEF IInv, Pages, OwnersHaveRows, OneRowAnAddress, OwnersAccountedFor

LEMMA FirebaseKeeps ==
    ASSUME IInv, NEW u \in Uids,
           signUpWithPassword(u) \/ signInWithProvider(u) \/ VerifyEmail(u)
    PROVE  IInv' /\ owner' = owner
<1> DEFINE Shape == [Uids -> [state : {"none", "there", "gone"}, email : Emails, verified : BOOLEAN]]
<1>1. CASE signUpWithPassword(u)
  <2>1. /\ UNCHANGED <<entitled, users, buyer, owner, deleting, browser, call>>
        /\ firebase' = [firebase EXCEPT ![u].state = "there"]
    BY <1>1 DEF signUpWithPassword, firebaseRest, orderVars
  <2>2. firebase' \in Shape
    BY <2>1 DEF IInv, Rows
  <2>3. \A v \in Uids : /\ firebase'[v].email = firebase[v].email
                        /\ firebase'[v].verified = firebase[v].verified
    BY <2>1 DEF IInv, Rows
  <2> QED
    BY <2>1, <2>2, <2>3 DEF IInv, Rows, Pages, Calls, Fit, OwnersHaveRows, OneRowAnAddress,
                            VerifiedIsEntitled, OwnersAccountedFor
<1>2. CASE signInWithProvider(u)
  <2>1. firebase' = [firebase EXCEPT ![u].state = "there", ![u].verified = TRUE]
    BY <1>2 DEF signInWithProvider
  <2>2. firebase' \in Shape
    BY <2>1 DEF IInv, Rows
  <2>3. \A v \in Uids : /\ firebase'[v].email = firebase[v].email
                        /\ v # u => firebase'[v].verified = firebase[v].verified
    BY <2>1 DEF IInv, Rows
  <2> QED
    BY <1>2, <2>2, <2>3, ProvingKeeps DEF signInWithProvider, firebaseRest, orderVars
<1>3. CASE VerifyEmail(u)
  <2>1. firebase' = [firebase EXCEPT ![u].verified = TRUE]
    BY <1>3 DEF VerifyEmail
  <2>2. firebase' \in Shape
    BY <2>1 DEF IInv, Rows
  <2>3. \A v \in Uids : /\ firebase'[v].email = firebase[v].email
                        /\ v # u => firebase'[v].verified = firebase[v].verified
    BY <2>1 DEF IInv, Rows
  <2> QED
    BY <1>3, <2>2, <2>3, ProvingKeeps DEF VerifyEmail, firebaseRest, orderVars
<1> QED
  BY <1>1, <1>2, <1>3

LEMMA DeleteFirebaseUserKeeps ==
    ASSUME IInv, NEW u \in Uids, deleteFirebaseUser(u)
    PROVE  IInv'
<1>1. UNCHANGED <<entitled, users, buyer, owner, browser, call>>
  BY DEF deleteFirebaseUser, orderVars
<1>2. Rows' /\ VerifiedIsEntitled'
  <2>1. CASE firebase' = [firebase EXCEPT ![u].state = "gone"]
    <3>1. \A v \in Uids : /\ firebase'[v].email = firebase[v].email
                          /\ firebase'[v].verified = firebase[v].verified
      BY <2>1 DEF IInv, Rows
    <3>2. Rows'
      BY <1>1, <2>1 DEF IInv, Rows, deleteFirebaseUser
    <3> QED
      BY <1>1, <3>1, <3>2 DEF IInv, VerifiedIsEntitled
  <2>2. CASE firebase' = firebase
    BY <1>1, <2>2 DEF IInv, Rows, VerifiedIsEntitled, deleteFirebaseUser
  <2> QED
    BY <2>1, <2>2 DEF deleteFirebaseUser
<1> QED
  BY <1>1, <1>2 DEF IInv, Pages, Calls, Fit, OwnersHaveRows, OneRowAnAddress, OwnersAccountedFor

-----------------------------------------------------------------------------
(* The pages. *)

\* An announced identity, with the token Firebase gives out for it.
LEMMA AnnouncedKeeps ==
    ASSUME IInv, NEW b \in Browsers, NEW k \in Key, browserRest,
           browser' = [browser EXCEPT ![b].user = k, ![b].announced = k],
           call' = [call EXCEPT ![b] = [pc |-> "sent", token |-> TokenOf(k.uid), other |-> Nobody]]
    PROVE  IInv'
<1>1. UNCHANGED <<firebaseVars, users, orderVars, deleting>> /\ UNCHANGED entitled
  BY DEF browserRest, firebaseVars
<1>2. Pages'
  BY DEF IInv, Pages
<1>3. Calls'
  <2> DEFINE r == [pc |-> "sent", token |-> TokenOf(k.uid), other |-> Nobody]
  <2>1. k.uid \in Uids
    BY DEF Key
  <2>2. TokenOf(k.uid) \in Token
    BY <2>1 DEF IInv, Rows, TokenOf, Token
  <2>3. r \in CallShape
    BY <2>2 DEF CallShape, CallStates
  <2>4. Fit(r)
    BY <2>1, <2>2 DEF Fit, TokenOf, IInv, VerifiedIsEntitled
  <2> QED
    BY <1>1, <2>3, <2>4, CallMoves DEF IInv
<1> QED
  BY <1>1, <1>2, <1>3, RowsStay

LEMMA AnnounceKeeps ==
    ASSUME IInv, NEW b \in Browsers, NEW k \in Key, announce(b, k), browserRest
    PROVE  IInv'
<1>1. CASE call' = call /\ browser' = [browser EXCEPT ![b].user = k]
  <2>1. UNCHANGED <<firebaseVars, users, orderVars, deleting>> /\ UNCHANGED entitled
    BY DEF browserRest, firebaseVars
  <2>2. Pages' /\ Calls'
    BY <1>1, <2>1 DEF IInv, Pages, Calls, Fit
  <2> QED
    BY <2>1, <2>2, RowsStay
<1>2. CASE /\ browser' = [browser EXCEPT ![b].user = k, ![b].announced = k]
           /\ call' = [call EXCEPT ![b] = [pc |-> "sent", token |-> TokenOf(k.uid), other |-> Nobody]]
  BY <1>2, AnnouncedKeeps
<1> QED
  BY <1>1, <1>2 DEF announce

LEMMA PageKeeps ==
    ASSUME IInv, NEW b \in Browsers,
           (\E u \in Uids : SignIn(b, u)) \/ TokenRefreshed(b) \/ check(b) \/ handleSave(b)
    PROVE  IInv'
<1>1. browser[b].user \in Key \cup {SignedOut}
  BY DEF IInv, Pages
<1>2. \A u \in Uids : Known(u) \in Key
  BY DEF IInv, Rows, Known, Key
<1>3. browser[b].user # SignedOut => browser[b].user \in Key /\ browser[b].user.uid \in Uids
  BY <1>1 DEF Key
<1>4. ASSUME NEW u \in Uids, SignIn(b, u) PROVE IInv'
  BY <1>2, <1>4, AnnounceKeeps DEF SignIn
<1>5. CASE TokenRefreshed(b)
  BY <1>3, <1>5, AnnounceKeeps DEF TokenRefreshed
<1>6. CASE check(b) \/ handleSave(b)
  <2>1. refresh(b)
    BY <1>6 DEF check, handleSave
  <2>2. Known(browser[b].user.uid) \in Key /\ Known(browser[b].user.uid).uid = browser[b].user.uid
    BY <1>2, <1>3, <2>1 DEF refresh, Known
  <2> QED
    BY <2>1, <2>2, AnnouncedKeeps DEF refresh
<1> QED
  BY <1>4, <1>5, <1>6

LEMMA SignOutKeeps ==
    ASSUME IInv, NEW b \in Browsers, signOut(b)
    PROVE  IInv'
<1>1. UNCHANGED <<firebaseVars, users, orderVars, deleting>> /\ UNCHANGED <<entitled, call>>
  BY DEF signOut, browserRest, firebaseVars
<1>2. Pages'
  BY DEF signOut, IInv, Pages
<1>3. Calls'
  BY <1>1 DEF IInv, Calls, Fit
<1> QED
  BY <1>1, <1>2, <1>3, RowsStay

LEMMA AnsweredKeeps ==
    ASSUME IInv, NEW b \in Browsers, Answered(b)
    PROVE  IInv'
<1>1. UNCHANGED <<firebaseVars, users, orderVars, deleting>> /\ UNCHANGED entitled
  BY DEF Answered, browserRest, firebaseVars
<1>2. Pages'
  <2>1. call[b].token \in Token
    BY DEF Answered, IInv, Calls, Fit
  <2>2. SessionOf(call[b].token) \in Key
    BY <2>1 DEF SessionOf, Token, Key
  <2> QED
    BY <2>2 DEF Answered, IInv, Pages
<1>3. Calls'
  <2>1. NoCall \in CallShape /\ Fit(NoCall)
    BY DEF NoCall, NoToken, CallShape, CallStates, Fit
  <2> QED
    BY <1>1, <2>1, CallMoves DEF Answered, IInv
<1> QED
  BY <1>1, <1>2, <1>3, RowsStay

-----------------------------------------------------------------------------
(* The session call. *)

\* Going on to a place that asks nothing of the call.
LEMMA GotoKeeps ==
    ASSUME Calls, UNCHANGED entitled, NEW b \in Browsers,
           NEW pc \in CallStates \ {"release"}, call[b].pc # "none",
           NEW other \in Uids \cup {Nobody},
           pc = "link" => call[b].token.verified,
           call' = [call EXCEPT ![b] = [pc |-> pc, token |-> call[b].token, other |-> other]]
    PROVE  Calls'
<1> DEFINE r == [pc |-> pc, token |-> call[b].token, other |-> other]
<1>1. r \in CallShape /\ Fit(r)
  BY DEF Calls, Fit, CallShape
<1> QED
  BY <1>1, CallMoves

\* Goto keeps the rest of the record.
LEMMA GotoIs ==
    ASSUME Calls, NEW b \in Browsers, NEW pc, Goto(b, pc)
    PROVE  call' = [call EXCEPT ![b] = [pc |-> pc, token |-> call[b].token, other |-> call[b].other]]
<1>1. call[b] \in [pc : CallStates, token : Token \cup {NoToken}, other : Uids \cup {Nobody}]
  BY DEF Calls, CallShape
<1>2. [call[b] EXCEPT !.pc = pc] = [pc |-> pc, token |-> call[b].token, other |-> call[b].other]
  BY <1>1
<1> QED
  BY <1>2 DEF Goto

LEMMA GotoWithIs ==
    ASSUME Calls, NEW b \in Browsers, NEW pc \in CallStates, NEW other \in Uids \cup {Nobody},
           call' = [call EXCEPT ![b].pc = pc, ![b].other = other]
    PROVE  call' = [call EXCEPT ![b] = [pc |-> pc, token |-> call[b].token, other |-> other]]
<1> DEFINE r == [pc |-> pc, token |-> call[b].token, other |-> other]
<1>1. call[b] \in [pc : CallStates, token : Token \cup {NoToken}, other : Uids \cup {Nobody}]
  BY DEF Calls, CallShape
<1>2. [[call[b] EXCEPT !.pc = pc] EXCEPT !.other = other] = r
  <2>1. [call[b] EXCEPT !.pc = pc] =
          [pc |-> pc, token |-> call[b].token, other |-> call[b].other]
    BY <1>1
  <2>2. [[pc |-> pc, token |-> call[b].token, other |-> call[b].other] EXCEPT !.other = other] = r
    OBVIOUS
  <2> QED
    BY <2>1, <2>2
<1>3. call' = [[call EXCEPT ![b] = [call[b] EXCEPT !.pc = pc]]
                 EXCEPT ![b] = [[call[b] EXCEPT !.pc = pc] EXCEPT !.other = other]]
  BY DEF Calls
<1> QED
  BY <1>2, <1>3 DEF Calls

LEMMA ReadsKeep ==
    ASSUME IInv, NEW b \in Browsers, ReadRow(b) \/ ReadEmailOwner(b) \/ CallFails(b)
    PROVE  IInv'
<1>1. UNCHANGED <<firebaseVars, users, orderVars, deleting>> /\ UNCHANGED <<entitled, browser>>
  BY DEF ReadRow, ReadEmailOwner, CallFails, callRest, firebaseVars, orderVars
<1>2. call[b] \in CallShape
  BY DEF IInv, Calls
<1>3. call[b].other \in Uids \cup {Nobody} /\ call[b].token \in Token \cup {NoToken}
  BY <1>2 DEF CallShape
<1>4. Calls'
  <2>1. CASE ReadRow(b)
    <3>1. PICK pc \in {"failed", "new", "upsert"} : Goto(b, pc)
      BY <2>1 DEF ReadRow
    <3> QED
      BY <1>1, <1>3, <2>1, <3>1, GotoIs, GotoKeeps DEF ReadRow, CallStates, IInv
  <2>2. CASE call[b].pc = "new" /\ Goto(b, "upsert")
    BY <1>1, <1>3, <2>2, GotoIs, GotoKeeps DEF CallStates, IInv
  <2>3. ASSUME NEW v \in Others(b), call[b].pc = "new",
               call' = [call EXCEPT ![b].pc = "release", ![b].other = v]
        PROVE  Calls'
    <3>1. v \in Uids
      BY DEF Others
    <3> DEFINE r == [pc |-> "release", token |-> call[b].token, other |-> v]
    <3>2. r \in CallShape /\ Fit(r)
      BY <1>3, <2>3, <3>1 DEF IInv, Calls, Fit, CallShape, CallStates
    <3>3. call' = [call EXCEPT ![b] = r]
      <4>1. [call[b] EXCEPT !.pc = "release"] =
              [pc |-> "release", token |-> call[b].token, other |-> call[b].other]
        BY <1>2 DEF CallShape
      <4>2. [[call[b] EXCEPT !.pc = "release"] EXCEPT !.other = v] = r
        <5>1. [[pc |-> "release", token |-> call[b].token, other |-> call[b].other]
                 EXCEPT !.other = v] = r
          OBVIOUS
        <5> QED
          BY <4>1, <5>1
      <4>3. call' = [[call EXCEPT ![b] = [call[b] EXCEPT !.pc = "release"]]
                       EXCEPT ![b] = [[call[b] EXCEPT !.pc = "release"] EXCEPT !.other = v]]
        BY <2>3 DEF IInv, Calls
      <4> QED
        BY <4>2, <4>3 DEF IInv, Calls
    <3> QED
      BY <1>1, <3>2, <3>3, CallMoves DEF IInv
  <2>4. CASE CallFails(b)
    <3>1. PICK pc \in CallStates \ {"release", "link"} :
            call' = [call EXCEPT ![b].pc = pc, ![b].other = Nobody]
      BY <2>4 DEF CallFails, CallStates
    <3>2. call' = [call EXCEPT ![b] = [pc |-> pc, token |-> call[b].token, other |-> Nobody]]
      BY <3>1, GotoWithIs DEF IInv
    <3> QED
      BY <1>1, <2>4, <3>2, GotoKeeps DEF CallFails, IInv
  <2> QED
    BY <2>1, <2>2, <2>3, <2>4 DEF ReadEmailOwner
<1>5. Pages'
  BY <1>1 DEF IInv, Pages
<1> QED
  BY <1>1, <1>4, <1>5, RowsStay

\* An address that a row gives up may be somebody's: the row itself stays.
LEMMA ReleaseEmailKeeps ==
    ASSUME IInv, NEW b \in Browsers, ReleaseEmail(b)
    PROVE  IInv'
<1>1. UNCHANGED <<firebase, entitled, buyer, owner, deleting, browser>>
  BY DEF ReleaseEmail, callRest, firebaseVars, orderVars
<1> DEFINE v == call[b].other
<1>2. v \in Uids /\ call[b] \in CallShape
  BY DEF ReleaseEmail, IInv, Calls, Fit
<1>3. \A w \in Uids : users'[w] = IF w = v /\ users[v] # Nobody THEN Released ELSE users[w]
  BY <1>2 DEF ReleaseEmail, IInv, Rows
<1>4. users' \in [Uids -> Emails \cup {Nobody, Released}]
  BY <1>2 DEF ReleaseEmail, IInv, Rows
<1>5. Rows'
  BY <1>1, <1>4 DEF IInv, Rows
<1>6. Calls'
  <2>1. PICK pc \in CallStates \ {"release", "link"} :
          call' = [call EXCEPT ![b].pc = pc, ![b].other = Nobody]
    BY DEF ReleaseEmail, CallStates
  <2>2. call' = [call EXCEPT ![b] = [pc |-> pc, token |-> call[b].token, other |-> Nobody]]
    BY <2>1, GotoWithIs DEF IInv
  <2> QED
    BY <1>1, <2>2, GotoKeeps DEF ReleaseEmail, IInv
<1>7. OwnersHaveRows'
  <2>1. \A w \in Uids : users[w] # Nobody => users'[w] # Nobody
    BY <1>3, NobodyOK
  <2> QED
    BY <1>1, <2>1 DEF IInv, Rows, OwnersHaveRows
<1>8. OneRowAnAddress'
  BY <1>3, NobodyOK DEF IInv, OneRowAnAddress
<1> QED
  BY <1>1, <1>5, <1>6, <1>7, <1>8 DEF IInv, Pages, VerifiedIsEntitled, OwnersAccountedFor

LEMMA UpsertUserKeeps ==
    ASSUME IInv, NEW b \in Browsers, UpsertUser(b)
    PROVE  IInv'
<1>1. UNCHANGED <<firebase, entitled, buyer, owner, deleting, browser>>
  BY DEF UpsertUser, callRest, firebaseVars, orderVars
<1>2. call[b] \in CallShape /\ call[b].token \in Token
  BY DEF UpsertUser, IInv, Calls, Fit
<1>3. call[b].token.uid \in Uids /\ call[b].token.email \in Emails
  BY <1>2 DEF Token
<1>4. call[b].other \in Uids \cup {Nobody}
  BY <1>2 DEF CallShape
<1>5. PICK pc \in {"failed", "link", "done"} :
        Goto(b, pc) /\ (pc = "link" => call[b].token.verified)
  BY DEF UpsertUser, subject
<1>6. Calls'
  BY <1>1, <1>4, <1>5, GotoIs, GotoKeeps DEF UpsertUser, CallStates, IInv
<1>7. Rows' /\ OwnersHaveRows' /\ OneRowAnAddress'
  <2>1. CASE users' = users
    BY <1>1, <2>1 DEF IInv, Rows, OwnersHaveRows, OneRowAnAddress
  <2>2. CASE /\ Others(b) = {}
             /\ users' = [users EXCEPT ![call[b].token.uid] = call[b].token.email]
    <3> DEFINE u == call[b].token.uid
               e == call[b].token.email
    <3>1. u \in Uids /\ e \in Emails /\ e # Nobody
      BY <1>3, NobodyOK
    <3>2. \A w \in Uids : users'[w] = IF w = u THEN e ELSE users[w]
      BY <2>2 DEF IInv, Rows
    <3>3. \A w \in Uids : w # u => users[w] # e
      BY <2>2 DEF Others, subject
    <3>4. users' \in [Uids -> Emails \cup {Nobody, Released}]
      BY <2>2, <3>1 DEF IInv, Rows
    <3> HIDE DEF u, e
    <3>5. OwnersHaveRows'
      BY <1>1, <3>1, <3>2 DEF IInv, Rows, OwnersHaveRows
    <3>6. OneRowAnAddress'
      BY <3>2, <3>3 DEF IInv, OneRowAnAddress
    <3> QED
      BY <1>1, <3>4, <3>5, <3>6 DEF IInv, Rows
  <2> QED
    BY <2>1, <2>2 DEF UpsertUser, subject
<1> QED
  BY <1>1, <1>6, <1>7 DEF IInv, Pages, VerifiedIsEntitled, OwnersAccountedFor

\* The hand-over is entitled to: the token was verified when it was given out.
LEMMA LinkGuestOrdersKeeps ==
    ASSUME IInv, NEW b \in Browsers, linkGuestOrders(b)
    PROVE  /\ IInv'
           /\ \A o \in Orders : owner[o] # Nobody => owner'[o] = owner[o]
<1>1. UNCHANGED <<firebase, entitled, users, buyer, deleting, browser>>
  BY DEF linkGuestOrders, callRest, firebaseVars
<1>2. call[b] \in CallShape /\ call[b].token \in Token /\ call[b].token.verified
  BY DEF linkGuestOrders, IInv, Calls, Fit
<1>3. call[b].other \in Uids \cup {Nobody}
  BY <1>2 DEF CallShape
<1> DEFINE u == call[b].token.uid
           e == call[b].token.email
<1>4. u \in Uids /\ e \in Emails
  BY <1>2 DEF Token
<1>5. <<u, e>> \in entitled
  BY <1>2 DEF IInv, Calls, Fit
<1>6. PICK pc \in {"failed", "done"} : Goto(b, pc)
  BY DEF linkGuestOrders
<1>7. Calls'
  BY <1>1, <1>3, <1>6, GotoIs, GotoKeeps DEF linkGuestOrders, CallStates, IInv
<1> HIDE DEF u, e
<1>8. CASE owner' = owner
  BY <1>1, <1>7, <1>8 DEF IInv, Rows, Pages, OwnersHaveRows, OneRowAnAddress,
                          VerifiedIsEntitled, OwnersAccountedFor
<1>9. CASE HandOver(Unclaimed(e), u) /\ ~(Unclaimed(e) # {} /\ users[u] = Nobody)
  <2>1. \A o \in Orders :
          owner'[o] = IF buyer[o] = e /\ owner[o] = Nobody THEN u ELSE owner[o]
    BY <1>9 DEF HandOver, Unclaimed
  <2>2. owner' \in [Orders -> Uids \cup {Nobody}]
    BY <1>4, <1>9 DEF HandOver, IInv, Rows
  <2>3. Rows'
    BY <1>1, <2>2 DEF IInv, Rows
  <2>4. OwnersHaveRows'
    <3>1. \A o \in Orders : owner'[o] # owner[o] => users[u] # Nobody
      BY <1>9, <2>1 DEF Unclaimed
    <3> QED
      BY <1>1, <2>1, <3>1 DEF IInv, OwnersHaveRows
  <2>5. OwnersAccountedFor'
    BY <1>1, <1>5, <2>1 DEF IInv, OwnersAccountedFor
  <2> QED
    BY <1>1, <1>7, <2>1, <2>3, <2>4, <2>5
       DEF IInv, Pages, OneRowAnAddress, VerifiedIsEntitled
<1> QED
  BY <1>8, <1>9 DEF linkGuestOrders, subject, u, e

-----------------------------------------------------------------------------
(* Orders and the end of an account. *)

LEMMA PlaceOrderKeeps ==
    ASSUME IInv, NEW b \in Browsers, NEW o \in Orders, NEW e \in Emails, PlaceOrder(b, o, e)
    PROVE  /\ IInv'
           /\ \A p \in Orders : owner[p] # Nobody => owner'[p] = owner[p]
<1> DEFINE u == browser[b].user.uid
           as == IF u # Nobody /\ There(u) THEN u ELSE Nobody
<1>1. UNCHANGED <<firebase, users, deleting, browser, call>>
  BY DEF PlaceOrder
<1>2. /\ buyer[o] = Nobody
      /\ as # Nobody => users[as] # Nobody
      /\ buyer' = [buyer EXCEPT ![o] = e]
      /\ owner' = [owner EXCEPT ![o] = as]
      /\ entitled' = IF as = Nobody THEN entitled ELSE entitled \cup {<<as, e>>}
  BY DEF PlaceOrder
<1>3. u \in Uids \cup {Nobody}
  BY DEF IInv, Pages, Key, SignedOut
<1>4. as \in Uids \cup {Nobody}
  BY <1>3
<1> HIDE DEF u, as
<1>5. owner[o] = Nobody
  <2>1. SUFFICES ASSUME owner[o] # Nobody PROVE FALSE
    OBVIOUS
  <2>2. <<owner[o], buyer[o]>> \in Uids \X Emails
    BY <2>1 DEF IInv, Rows, OwnersAccountedFor
  <2>3. buyer[o] \in Emails
    BY <2>2
  <2> QED
    BY <1>2, <2>3, NobodyOK
<1>6. entitled \subseteq entitled' /\ entitled' \subseteq Uids \X Emails
  <2>1. entitled \subseteq Uids \X Emails
    BY DEF IInv, Rows
  <2>2. as # Nobody => <<as, e>> \in Uids \X Emails
    BY <1>4
  <2> QED
    BY <1>2, <2>1, <2>2
<1>7. \A p \in Orders : p # o => owner'[p] = owner[p] /\ buyer'[p] = buyer[p]
  BY <1>2 DEF IInv, Rows
<1>8. owner'[o] = as /\ buyer'[o] = e
  BY <1>2 DEF IInv, Rows
<1>9. Rows'
  <2>1. /\ buyer' \in [Orders -> Emails \cup {Nobody}]
        /\ owner' \in [Orders -> Uids \cup {Nobody}]
    BY <1>2, <1>4 DEF IInv, Rows
  <2> QED
    BY <1>1, <1>6, <2>1 DEF IInv, Rows
<1>10. OwnersHaveRows'
  BY <1>1, <1>2, <1>7, <1>8 DEF IInv, OwnersHaveRows
<1>11. OwnersAccountedFor'
  <2>1. as # Nobody => <<as, e>> \in entitled'
    BY <1>2
  <2>2. ASSUME NEW p \in Orders, p # o, owner'[p] # Nobody
        PROVE  <<owner'[p], buyer'[p]>> \in entitled'
    BY <1>6, <1>7, <2>2 DEF IInv, OwnersAccountedFor
  <2> QED
    BY <1>8, <2>1, <2>2 DEF OwnersAccountedFor
<1>12. Calls' /\ VerifiedIsEntitled'
  BY <1>1, <1>6 DEF IInv, Calls, Fit, VerifiedIsEntitled
<1> QED
  BY <1>1, <1>5, <1>7, <1>9, <1>10, <1>11, <1>12 DEF IInv, Pages, OneRowAnAddress

LEMMA HandleDeleteKeeps ==
    ASSUME IInv, NEW b \in Browsers, handleDelete(b)
    PROVE  /\ IInv'
           /\ \A o \in Orders : owner[o] # Nobody /\ owner'[o] # owner[o] =>
                 owner'[o] = Nobody /\ users'[owner[o]] = Nobody
<1> DEFINE u == browser[b].user.uid
<1>1. /\ UNCHANGED <<firebase, entitled, buyer, browser, call>>
      /\ users' = [users EXCEPT ![u] = Nobody]
      /\ owner' = [o \in Orders |-> IF owner[o] = u THEN Nobody ELSE owner[o]]
      /\ deleting' = deleting \cup {u}
  BY DEF handleDelete, deleteAccount, firebaseVars
<1>2. u \in Uids
  BY DEF handleDelete, IInv, Pages, Key, SignedOut
<1> HIDE DEF u
<1>3. \A w \in Uids : users'[w] = IF w = u THEN Nobody ELSE users[w]
  BY <1>1 DEF IInv, Rows
<1>4. \A o \in Orders : owner'[o] = IF owner[o] = u THEN Nobody ELSE owner[o]
  BY <1>1
<1>5. Rows'
  BY <1>1, <1>2 DEF IInv, Rows
<1>6. OwnersHaveRows'
  <2>1. \A o \in Orders : owner[o] \in Uids \cup {Nobody}
    BY DEF IInv, Rows
  <2> QED
    BY <1>3, <1>4, <2>1 DEF IInv, OwnersHaveRows
<1>7. OneRowAnAddress'
  BY <1>3, NobodyOK DEF IInv, OneRowAnAddress
<1>8. OwnersAccountedFor'
  BY <1>1, <1>4 DEF IInv, OwnersAccountedFor
<1>9. Pages' /\ Calls' /\ VerifiedIsEntitled'
  BY <1>1 DEF IInv, Pages, Calls, Fit, VerifiedIsEntitled
<1> QED
  BY <1>2, <1>3, <1>4, <1>5, <1>6, <1>7, <1>8, <1>9 DEF IInv

-----------------------------------------------------------------------------
OwnersAreLetGo ==
    \A o \in Orders : owner[o] # Nobody /\ owner'[o] # owner[o] =>
        owner'[o] = Nobody /\ users'[owner[o]] = Nobody

LEMMA NextKeepsIInv ==
    ASSUME IInv, [Next]_vars
    PROVE  IInv' /\ OwnersAreLetGo
<1>1. CASE UNCHANGED vars
  <2>1. UNCHANGED <<firebaseVars, users, orderVars, deleting>> /\ UNCHANGED <<browser, call, owner, entitled>>
    BY <1>1 DEF vars, firebaseVars, orderVars
  <2> QED
    BY <2>1, RowsStay DEF IInv, Pages, Calls, Fit, OwnersAreLetGo
<1>2. ASSUME NEW u \in Uids,
             signUpWithPassword(u) \/ signInWithProvider(u) \/ VerifyEmail(u) \/ deleteFirebaseUser(u)
      PROVE  IInv' /\ OwnersAreLetGo
  BY <1>2, FirebaseKeeps, DeleteFirebaseUserKeeps
     DEF deleteFirebaseUser, orderVars, OwnersAreLetGo
<1>3. ASSUME NEW b \in Browsers,
             (\E u \in Uids : SignIn(b, u)) \/ TokenRefreshed(b) \/ check(b) \/ handleSave(b)
             \/ signOut(b) \/ Answered(b)
      PROVE  IInv' /\ OwnersAreLetGo
  <2>1. owner' = owner
    BY <1>3 DEF SignIn, TokenRefreshed, check, handleSave, refresh, signOut, Answered, browserRest, orderVars
  <2> QED
    BY <1>3, <2>1, PageKeeps, SignOutKeeps, AnsweredKeeps DEF OwnersAreLetGo
<1>4. ASSUME NEW b \in Browsers,
             ReadRow(b) \/ ReadEmailOwner(b) \/ ReleaseEmail(b) \/ UpsertUser(b) \/ CallFails(b)
      PROVE  IInv' /\ OwnersAreLetGo
  <2>1. owner' = owner
    BY <1>4 DEF ReadRow, ReadEmailOwner, ReleaseEmail, UpsertUser, CallFails, orderVars
  <2> QED
    BY <1>4, <2>1, ReadsKeep, ReleaseEmailKeeps, UpsertUserKeeps DEF OwnersAreLetGo
<1>5. ASSUME NEW b \in Browsers, linkGuestOrders(b) PROVE IInv' /\ OwnersAreLetGo
  BY <1>5, LinkGuestOrdersKeeps DEF OwnersAreLetGo
<1>6. ASSUME NEW b \in Browsers, handleDelete(b) PROVE IInv' /\ OwnersAreLetGo
  BY <1>6, HandleDeleteKeeps DEF OwnersAreLetGo
<1>7. ASSUME NEW b \in Browsers, NEW o \in Orders, NEW e \in Emails, PlaceOrder(b, o, e)
      PROVE  IInv' /\ OwnersAreLetGo
  BY <1>7, PlaceOrderKeeps DEF OwnersAreLetGo
<1> QED
  BY <1>1, <1>2, <1>3, <1>4, <1>5, <1>6, <1>7 DEF Next, recordSignIn

\* The inductive invariant holds for any number of identities, pages and orders.
THEOREM AccountsInvariant == Spec => []IInv
<1>1. IInv /\ [Next]_vars => IInv'
  BY NextKeepsIInv
<1> QED
  BY <1>1, InitIInv, PTL DEF Spec

\* The rows keep their shape, every owner of an order has a row, and no address
\* has two, though a call may act on what it read before the rows changed.
THEOREM RowsStayConsistent == Spec => []TypeOK
<1>1. IInv => TypeOK
  BY DEF IInv, Rows, Pages, Calls, Fit, CallShape, OwnersHaveRows, OneRowAnAddress, TypeOK
<1> QED
  BY <1>1, AccountsInvariant, PTL

\* Whoever owns an order proved its address, or bought it while signed in.
THEOREM OwnersAreEntitled == Spec => []OwnersAccountedFor
<1>1. IInv => OwnersAccountedFor
  BY DEF IInv
<1> QED
  BY <1>1, AccountsInvariant, PTL

\* No call takes an order from an account that has it.
THEOREM OrdersAreNotTaken == Spec => OrdersStayPut
<1>1. IInv /\ [Next]_vars => [OwnersAreLetGo]_vars
  BY NextKeepsIInv
<1>2. [OwnersAreLetGo]_vars <=>
        [\A o \in Orders : owner[o] # Nobody /\ owner'[o] # owner[o] =>
            owner'[o] = Nobody /\ users'[owner[o]] = Nobody]_vars
  BY DEF OwnersAreLetGo
<1> QED
  BY <1>1, <1>2, AccountsInvariant, PTL DEF Spec, OrdersStayPut

-----------------------------------------------------------------------------
(* The announcement list and the fan-out. *)

EventShape ==
    /\ event \in [published : BOOLEAN, announced : BOOLEAN]
    /\ patch \in [Organisers -> {"idle", "was published", "was not", "enqueue"}]

JobShape == job \in [state : JobStates, left : SUBSET Addresses]

MailShape ==
    /\ notify \in [Addresses -> MailStates]
    /\ queuedTimes \in [Addresses -> Nat]
    /\ received \in [Addresses -> Nat]
    /\ faults \in Nat

ListShape ==
    /\ row \in [Subscribers -> Row]
    /\ inbox \in [Subscribers -> Nat]
    /\ lastAct \in [Subscribers -> {"none", "confirmed", "unsubscribed"}]
    /\ optedIn \subseteq AccountAddresses

QueuedAfterClaim ==
    \A e \in Addresses :
        /\ queuedTimes[e] > 0 => event.announced
        /\ e \in job.left => event.announced /\ queuedTimes[e] = 0

QueuedOnce == \A e \in Addresses : queuedTimes[e] <= 1

\* The mail under way counts as one that is going to arrive.
UnderWay(e) == IF notify[e] \in {"queued", "built"} THEN 1 ELSE 0
MailsCounted == \A e \in Addresses : received[e] + UnderWay(e) <= queuedTimes[e] + faults

AudienceIInv ==
    /\ EventShape /\ JobShape /\ MailShape /\ ListShape
    /\ QueuedAfterClaim /\ QueuedOnce /\ MailsCounted /\ OnlyOwnersConfirm

\* What each part of the invariant is about.
EventSame == UNCHANGED <<event, patch>>
ListSame == UNCHANGED <<row, inbox, lastAct, optedIn>>

-----------------------------------------------------------------------------
LEMMA AudienceInitIInv == AudienceInit => AudienceIInv
<1> SUFFICES ASSUME AudienceInit PROVE AudienceIInv
  OBVIOUS
<1>1. EventShape /\ JobShape /\ MailShape
  BY DEF AudienceInit, EventShape, JobShape, MailShape, JobStates, MailStates
<1>2. ListShape
  BY DEF AudienceInit, ListShape, NoRow, Row
<1>3. QueuedAfterClaim /\ QueuedOnce /\ MailsCounted
  BY DEF AudienceInit, QueuedAfterClaim, QueuedOnce, MailsCounted, UnderWay
<1>4. OnlyOwnersConfirm
  BY DEF AudienceInit, OnlyOwnersConfirm, Active, NoRow
<1> QED
  BY <1>1, <1>2, <1>3, <1>4 DEF AudienceIInv

LEMMA ListUntouched ==
    ASSUME AudienceIInv, ListSame PROVE ListShape' /\ OnlyOwnersConfirm'
BY DEF AudienceIInv, ListSame, ListShape, OnlyOwnersConfirm, Active

LEMMA EventUntouched ==
    ASSUME AudienceIInv, EventSame PROVE EventShape'
BY DEF AudienceIInv, EventSame, EventShape

LEMMA JobsUntouched ==
    ASSUME AudienceIInv, UNCHANGED <<event, job, queuedTimes>>
    PROVE  JobShape' /\ QueuedAfterClaim' /\ QueuedOnce'
BY DEF AudienceIInv, JobShape, QueuedAfterClaim, QueuedOnce

LEMMA MailsUntouched ==
    ASSUME AudienceIInv, UNCHANGED <<notify, queuedTimes, received>>,
           faults' = faults \/ faults' = faults + 1
    PROVE  MailShape' /\ MailsCounted'
<1>1. MailShape'
  BY DEF AudienceIInv, MailShape
<1> QED
  BY <1>1 DEF AudienceIInv, MailShape, MailsCounted, UnderWay

\* Fewer addresses may be left to queue; no more are.
LEMMA LeftShrinks ==
    ASSUME AudienceIInv, UNCHANGED queuedTimes, event'.announced = event.announced,
           job'.left \subseteq job.left
    PROVE  QueuedAfterClaim' /\ QueuedOnce'
BY DEF AudienceIInv, QueuedAfterClaim, QueuedOnce

-----------------------------------------------------------------------------
(* The mails. *)

LEMMA DeliveryStep ==
    ASSUME AudienceIInv, NEW e \in Addresses,
           buildAnnouncement(e) \/ deliver(e) \/ sendEmailRefused(e) \/ sendEmailFails(e)
    PROVE  AudienceIInv'
<1> USE DEF buildAnnouncement, deliver, sendEmailRefused, sendEmailFails, deliveryRest,
            fanOutRest, listVars, Accepted, Fault
<1>1. PICK status \in MailStates : notify' = [notify EXCEPT ![e] = status]
  BY DEF MailStates
<1>2. EventSame /\ ListSame /\ UNCHANGED <<event, job, queuedTimes>>
  BY DEF EventSame, ListSame
<1>3. /\ received' = received \/ received' = [received EXCEPT ![e] = @ + 1]
      /\ faults' = faults \/ faults' = faults + 1
  OBVIOUS
<1>4. MailShape'
  BY <1>1, <1>2, <1>3 DEF AudienceIInv, MailShape
<1>5. \A x \in Addresses \ {e} : notify'[x] = notify[x] /\ received'[x] = received[x]
  BY <1>1, <1>3 DEF AudienceIInv, MailShape
<1>6. notify[e] \in {"queued", "built"}
  OBVIOUS
<1>7. notify'[e] = status
  BY <1>1 DEF AudienceIInv, MailShape
<1>8. received'[e] + UnderWay(e)' <= received[e] + 1 + (faults' - faults)
  <2>1. received[e] \in Nat /\ faults \in Nat
    BY DEF AudienceIInv, MailShape
  <2>2. CASE faults' = faults + 1
    <3>1. received'[e] \in {received[e], received[e] + 1} /\ UnderWay(e)' \in {0, 1}
      BY <1>3 DEF AudienceIInv, MailShape, UnderWay
    <3> QED
      BY <2>1, <2>2, <3>1
  <2>3. CASE buildAnnouncement(e)
    <3>1. received' = received /\ faults' = faults /\ UnderWay(e)' \in {0, 1}
      BY <2>3 DEF UnderWay
    <3> QED
      BY <2>1, <3>1
  <2>4. CASE deliver(e)
    <3>1. notify'[e] = "sent" /\ received'[e] = received[e] + 1 /\ faults' = faults
      BY <2>4 DEF AudienceIInv, MailShape
    <3> QED
      BY <2>1, <3>1 DEF UnderWay
  <2> QED
    BY <2>2, <2>3, <2>4
<1>9. MailsCounted'
  <2> SUFFICES ASSUME NEW x \in Addresses
               PROVE  received'[x] + UnderWay(x)' <= queuedTimes'[x] + faults'
    BY DEF MailsCounted
  <2>1. /\ received[x] \in Nat /\ queuedTimes[x] \in Nat /\ faults \in Nat
        /\ received'[x] \in Nat /\ faults' \in Nat
        /\ UnderWay(x) \in {0, 1} /\ UnderWay(x)' \in {0, 1}
        /\ received[x] + UnderWay(x) <= queuedTimes[x] + faults
    BY <1>4 DEF AudienceIInv, MailShape, MailsCounted, UnderWay
  <2>2. CASE x = e
    <3>1. UnderWay(e) = 1
      BY <1>6 DEF UnderWay
    <3> QED
      BY <1>2, <1>8, <2>1, <2>2, <3>1
  <2>3. CASE x # e
    <3>1. UnderWay(x)' = UnderWay(x) /\ received'[x] = received[x]
      BY <1>5, <2>3 DEF UnderWay
    <3> QED
      BY <1>2, <1>3, <2>1, <3>1
  <2> QED
    BY <2>2, <2>3
<1> QED
  BY <1>2, <1>4, <1>9, ListUntouched, EventUntouched, JobsUntouched DEF AudienceIInv

-----------------------------------------------------------------------------
(* The list. *)

\* One row changes, to one that keeps the promise.
LEMMA RowChanges ==
    ASSUME AudienceIInv, NEW e \in Subscribers, NEW r \in Row, NEW act \in {"none", "confirmed", "unsubscribed"},
           row' = [row EXCEPT ![e] = r], lastAct' = [lastAct EXCEPT ![e] = act],
           inbox' \in [Subscribers -> Nat], UNCHANGED optedIn,
           r.confirmed /\ ~r.unsubscribed => act = "confirmed"
    PROVE  ListShape' /\ OnlyOwnersConfirm'
<1>1. ListShape'
  BY DEF AudienceIInv, ListShape
<1>2. \A x \in Subscribers : /\ row'[x] = IF x = e THEN r ELSE row[x]
                             /\ lastAct'[x] = IF x = e THEN act ELSE lastAct[x]
  BY DEF AudienceIInv, ListShape
<1> QED
  BY <1>1, <1>2 DEF AudienceIInv, OnlyOwnersConfirm, Active

LEMMA ListStep ==
    ASSUME AudienceIInv, NEW e \in Subscribers,
           Subscribe(e) \/ subscribe(e) \/ LinkClicked(e) \/ confirmSubscription(e)
    PROVE  AudienceIInv'
<1>1. row[e] \in Row /\ inbox[e] \in Nat /\ lastAct[e] \in {"none", "confirmed", "unsubscribed"}
  BY DEF AudienceIInv, ListShape
<1>2. lastAct = [lastAct EXCEPT ![e] = lastAct[e]]
  BY DEF AudienceIInv, ListShape
<1>3. row = [row EXCEPT ![e] = row[e]]
  BY DEF AudienceIInv, ListShape
<1>4. inbox \in [Subscribers -> Nat]
  BY DEF AudienceIInv, ListShape
<1>5. Active(e) => lastAct[e] = "confirmed"
  BY DEF AudienceIInv, OnlyOwnersConfirm
<1>6. ListShape' /\ OnlyOwnersConfirm'
  <2>1. CASE Subscribe(e)
    <3>1. ListSame
      BY <2>1 DEF Subscribe, ListSame
    <3> QED
      BY <3>1, ListUntouched
  <2>2. CASE subscribe(e)
    <3>1. CASE UNCHANGED <<row, inbox>>
      <4>1. ListSame
        BY <2>2, <3>1 DEF subscribe, ListSame
      <4> QED
        BY <4>1, ListUntouched
    <3>2. CASE ~UNCHANGED <<row, inbox>>
      <4> DEFINE fresh == [token |-> inbox[e] + 1, confirmed |-> FALSE, unsubscribed |-> FALSE]
      <4>1. fresh \in Row
        BY <1>1 DEF Row
      <4>2. /\ row' = [row EXCEPT ![e] = fresh]
            /\ inbox' = [inbox EXCEPT ![e] = @ + 1]
            /\ UNCHANGED <<lastAct, optedIn>>
        BY <2>2, <3>2 DEF subscribe
      <4>4. inbox' \in [Subscribers -> Nat]
        BY <1>1, <1>4, <4>2
      <4>5. ~fresh.confirmed
        OBVIOUS
      <4>6. lastAct' = [lastAct EXCEPT ![e] = lastAct[e]]
        BY <1>2, <4>2
      <4> HIDE DEF fresh
      <4> QED
        BY <1>1, <4>1, <4>2, <4>4, <4>5, <4>6, RowChanges
    <3> QED
      BY <3>1, <3>2
  <2>3. CASE confirmSubscription(e)
    <3> DEFINE r == [row[e] EXCEPT !.confirmed = TRUE, !.unsubscribed = FALSE]
    <3>1. r \in Row
      BY <1>1 DEF Row
    <3>2. row' = [row EXCEPT ![e] = r] /\ lastAct' = [lastAct EXCEPT ![e] = "confirmed"]
      BY <2>3, <1>1, <1>3 DEF confirmSubscription, AudienceIInv, ListShape, Row
    <3>3. inbox' \in [Subscribers -> Nat] /\ UNCHANGED optedIn
      BY <2>3, <1>4 DEF confirmSubscription
    <3> HIDE DEF r
    <3> QED
      BY <3>1, <3>2, <3>3, RowChanges
  <2>4. ASSUME NEW token \in 1..inbox[e], ConfirmClicked(e, token)
        PROVE  ListShape' /\ OnlyOwnersConfirm'
    <3>1. UNCHANGED <<row, inbox, optedIn>>
      BY <2>4 DEF ConfirmClicked
    <3>2. \/ UNCHANGED lastAct
          \/ lastAct' = [lastAct EXCEPT ![e] = "confirmed"]
      BY <2>4 DEF ConfirmClicked
    <3>3. CASE UNCHANGED lastAct
      <4>1. ListSame
        BY <3>1, <3>3 DEF ListSame
      <4> QED
        BY <4>1, ListUntouched
    <3>4. CASE lastAct' = [lastAct EXCEPT ![e] = "confirmed"]
      BY <1>1, <1>3, <1>4, <3>1, <3>4, RowChanges
    <3> QED
      BY <3>2, <3>3, <3>4
  <2>5. ASSUME NEW token \in 1..inbox[e], unsubscribe(e, token)
        PROVE  ListShape' /\ OnlyOwnersConfirm'
    <3> DEFINE r == [row[e] EXCEPT !.unsubscribed = TRUE]
    <3>1. r \in Row /\ r.unsubscribed
      BY <1>1 DEF Row
    <3>2. row' = [row EXCEPT ![e] = r] /\ lastAct' = [lastAct EXCEPT ![e] = "unsubscribed"]
      BY <2>5, <1>1, <1>3 DEF unsubscribe, AudienceIInv, ListShape, Row
    <3>3. inbox' \in [Subscribers -> Nat] /\ UNCHANGED optedIn
      BY <2>5, <1>4 DEF unsubscribe
    <3> HIDE DEF r
    <3> QED
      BY <3>1, <3>2, <3>3, RowChanges
  <2> QED
    BY <2>1, <2>2, <2>3, <2>4, <2>5 DEF LinkClicked
<1>7. EventSame /\ UNCHANGED <<event, job, queuedTimes, notify, received, faults>>
  BY DEF LinkClicked, Subscribe, subscribe, confirmSubscription, ConfirmClicked, unsubscribe,
         eventVars, jobVars, EventSame
<1> QED
  BY <1>6, <1>7, MailsUntouched, EventUntouched, JobsUntouched DEF AudienceIInv

LEMMA AccountStep ==
    ASSUME AudienceIInv, NEW e \in AccountAddresses, AccountChanges(e) PROVE AudienceIInv'
<1> USE DEF AccountChanges, eventVars, jobVars, listVars
<1>1. ListShape' /\ OnlyOwnersConfirm'
  BY DEF AudienceIInv, ListShape, OnlyOwnersConfirm, Active
<1>2. EventSame /\ UNCHANGED <<event, job, queuedTimes, notify, received, faults>>
  BY DEF EventSame
<1> QED
  BY <1>1, <1>2, MailsUntouched, EventUntouched, JobsUntouched DEF AudienceIInv

-----------------------------------------------------------------------------
(* Publishing. *)

LEMMA PublishStep ==
    ASSUME AudienceIInv, NEW a \in Organisers,
           loadScopedEvent(a) \/ PatchEvent(a) \/ enqueueEventAnnouncement(a) \/ EnqueueFails(a)
    PROVE  AudienceIInv'
<1> USE DEF loadScopedEvent, PatchEvent, enqueueEventAnnouncement, EnqueueFails, jobVars, listVars
<1>1. /\ \E p \in {"idle", "was published", "was not", "enqueue"} : patch' = [patch EXCEPT ![a] = p]
      /\ \/ UNCHANGED event
         \/ \E published \in BOOLEAN : event' = [event EXCEPT !.published = published]
  <2>1. CASE loadScopedEvent(a) BY <2>1
  <2>2. CASE PatchEvent(a) BY <2>2
  <2>3. CASE enqueueEventAnnouncement(a) BY <2>3
  <2>4. CASE EnqueueFails(a) BY <2>4
  <2> QED BY <2>1, <2>2, <2>3, <2>4
<1>2. event' \in [published : BOOLEAN, announced : BOOLEAN] /\ event'.announced = event.announced
  BY <1>1 DEF AudienceIInv, EventShape
<1>3. EventShape'
  BY <1>1, <1>2 DEF AudienceIInv, EventShape
<1>4. /\ UNCHANGED <<notify, queuedTimes, received>> /\ ListSame
      /\ faults' = faults \/ faults' = faults + 1
  BY DEF ListSame, Fault
<1>5. MailShape' /\ MailsCounted'
  BY <1>4, MailsUntouched
<1>6. job' = job \/ job' = [state |-> "queued", left |-> {}]
  OBVIOUS
<1>7. JobShape' /\ job'.left \subseteq job.left
  <2>1. CASE job' = job
    BY <2>1 DEF AudienceIInv, JobShape
  <2>2. CASE job' = [state |-> "queued", left |-> {}]
    BY ONLY <2>2 DEF JobShape, JobStates
  <2> QED
    BY <1>6, <2>1, <2>2
<1> QED
  BY <1>2, <1>3, <1>4, <1>5, <1>7, LeftShrinks, ListUntouched DEF AudienceIInv

-----------------------------------------------------------------------------
(* The fan-out. *)

LEMMA AnnounceStep ==
    ASSUME AudienceIInv, announceEvent PROVE AudienceIInv'
<1> USE DEF announceEvent, jobUnchanged, fanOutRest, listVars
<1>1. UNCHANGED <<patch, notify, queuedTimes, received, faults>> /\ ListSame
  BY DEF ListSame
<1>2. MailShape' /\ MailsCounted'
  BY <1>1, MailsUntouched
<1>3. CASE event.announced
  <2>1. EventSame /\ job' = [job EXCEPT !.state = "done"]
    BY <1>1, <1>3 DEF EventSame
  <2>2. JobShape' /\ job'.left \subseteq job.left
    BY <2>1 DEF AudienceIInv, JobShape, JobStates
  <2>3. event'.announced = event.announced
    BY <2>1 DEF EventSame
  <2> QED
    BY <1>1, <1>2, <2>1, <2>2, <2>3, LeftShrinks, EventUntouched, ListUntouched DEF AudienceIInv
<1>4. CASE ~event.announced
  <2>1. event' = [event EXCEPT !.announced = TRUE]
        /\ job' = [state |-> "running", left |-> getAnnouncementRecipients]
    BY <1>4
  <2>2. EventShape' /\ event'.announced
    BY <1>1, <2>1 DEF AudienceIInv, EventShape
  <2>3. getAnnouncementRecipients \subseteq Addresses
    BY DEF AudienceIInv, ListShape, getAnnouncementRecipients, Addresses
  <2>4. JobShape'
    BY <2>1, <2>3 DEF JobShape, JobStates
  <2>5. \A e \in Addresses : queuedTimes[e] = 0
    BY <1>4 DEF AudienceIInv, MailShape, QueuedAfterClaim
  <2>6. QueuedAfterClaim' /\ QueuedOnce'
    BY <1>1, <2>2, <2>5 DEF QueuedAfterClaim, QueuedOnce
  <2> QED
    BY <1>1, <1>2, <2>2, <2>4, <2>6, ListUntouched DEF AudienceIInv
<1> QED
  BY <1>3, <1>4

LEMMA QueueStep ==
    ASSUME AudienceIInv, enqueueNotification PROVE AudienceIInv'
<1>1. PICK e \in job.left : Queued(e) /\ job' = [job EXCEPT !.left = @ \ {e}]
  BY DEF enqueueNotification
<1>2. e \in Addresses
  BY DEF AudienceIInv, JobShape
<1>3. queuedTimes[e] = 0
  BY <1>2 DEF AudienceIInv, QueuedAfterClaim
<1>4. \/ UNCHANGED <<notify, queuedTimes>>
      \/ /\ notify[e] = "none" /\ notify' = [notify EXCEPT ![e] = "queued"]
         /\ queuedTimes' = [queuedTimes EXCEPT ![e] = 1]
  <2>1. (IF queuedTimes[e] < 2 THEN queuedTimes[e] + 1 ELSE queuedTimes[e]) = 1
    BY <1>3
  <2> QED
    BY <1>1, <2>1 DEF Queued
<1>5. ListSame /\ EventSame /\ UNCHANGED <<received, faults>>
  BY DEF ListSame, EventSame, enqueueNotification, jobUnchanged, fanOutRest, listVars
<1>6. MailShape'
  BY <1>4, <1>5 DEF AudienceIInv, MailShape, MailStates
<1>7. JobShape' /\ job'.left = job.left \ {e}
  BY <1>1 DEF AudienceIInv, JobShape
<1>8. ASSUME NEW x \in Addresses
      PROVE  queuedTimes'[x] = queuedTimes[x] \/ (x = e /\ queuedTimes'[x] = 1)
  <2>1. CASE UNCHANGED queuedTimes
    BY <2>1
  <2>2. CASE queuedTimes' = [queuedTimes EXCEPT ![e] = 1]
    BY <2>2 DEF AudienceIInv, MailShape
  <2> QED
    BY <1>4, <2>1, <2>2
<1>9. event.announced
  BY <1>2 DEF AudienceIInv, QueuedAfterClaim
<1>10. QueuedAfterClaim' /\ QueuedOnce'
  BY <1>5, <1>7, <1>8, <1>9 DEF AudienceIInv, QueuedAfterClaim, QueuedOnce, EventSame
<1>11. MailsCounted'
  <2>1. CASE UNCHANGED <<notify, queuedTimes>>
    BY <1>5, <2>1, MailsUntouched
  <2>2. CASE /\ notify[e] = "none" /\ notify' = [notify EXCEPT ![e] = "queued"]
             /\ queuedTimes' = [queuedTimes EXCEPT ![e] = 1]
    <3> SUFFICES ASSUME NEW x \in Addresses
                 PROVE  received'[x] + UnderWay(x)' <= queuedTimes'[x] + faults'
      BY DEF MailsCounted
    <3>1. /\ received[x] \in Nat /\ queuedTimes[x] \in Nat /\ faults \in Nat
          /\ received[x] + UnderWay(x) <= queuedTimes[x] + faults
      BY DEF AudienceIInv, MailShape, MailsCounted
    <3>2. CASE x = e
      <4>1. UnderWay(e) = 0 /\ UnderWay(e)' \in {0, 1}
        BY <2>2 DEF UnderWay
      <4>2. queuedTimes'[e] = 1
        BY <1>2, <2>2 DEF AudienceIInv, MailShape
      <4> QED
        BY <1>3, <1>5, <3>1, <3>2, <4>1, <4>2
    <3>3. CASE x # e
      <4>1. notify'[x] = notify[x] /\ queuedTimes'[x] = queuedTimes[x]
        BY <2>2, <3>3 DEF AudienceIInv, MailShape
      <4> QED
        BY <1>5, <3>1, <4>1 DEF UnderWay
    <3> QED
      BY <3>2, <3>3
  <2> QED
    BY <1>4, <2>1, <2>2
<1> QED
  BY <1>5, <1>6, <1>7, <1>10, <1>11, EventUntouched, ListUntouched DEF AudienceIInv

LEMMA JobEndsStep ==
    ASSUME AudienceIInv, FanOutEnds \/ FanOutFails \/ Forget PROVE AudienceIInv'
<1> USE DEF FanOutEnds, FanOutFails, Forget, jobUnchanged, fanOutRest, listVars
<1>1. UNCHANGED <<event, queuedTimes>> /\ EventSame /\ ListSame
  BY DEF EventSame, ListSame
<1>2. /\ UNCHANGED <<queuedTimes, received>>
      /\ faults' = faults \/ faults' = faults + 1
      /\ \/ UNCHANGED notify
         \/ \E e \in Addresses : notify' = [notify EXCEPT ![e] = "none"]
  BY DEF Fault
<1>3. MailShape' /\ MailsCounted'
  <2>1. CASE UNCHANGED notify
    BY <1>2, <2>1, MailsUntouched
  <2>2. ASSUME NEW e \in Addresses, notify' = [notify EXCEPT ![e] = "none"]
        PROVE  MailShape' /\ MailsCounted'
    <3>1. MailShape'
      BY <1>2, <2>2 DEF AudienceIInv, MailShape, MailStates
    <3>2. \A x \in Addresses : UnderWay(x)' = UnderWay(x) \/ UnderWay(x)' = 0
      BY <2>2 DEF AudienceIInv, MailShape, UnderWay
    <3>3. \A x \in Addresses : UnderWay(x) \in {0, 1}
      BY DEF UnderWay
    <3> QED
      BY <1>2, <3>1, <3>2, <3>3 DEF AudienceIInv, MailShape, MailsCounted
  <2> QED
    BY <1>2, <2>1, <2>2
<1>4. \/ job' = job
      \/ job' = [job EXCEPT !.state = "done"]
      \/ \E state \in JobStates : job' = [state |-> state, left |-> {}]
  BY DEF JobStates
<1>5. JobShape' /\ job'.left \subseteq job.left
  BY <1>4 DEF AudienceIInv, JobShape, JobStates
<1> QED
  BY <1>1, <1>3, <1>5, LeftShrinks, EventUntouched, ListUntouched DEF AudienceIInv

-----------------------------------------------------------------------------
LEMMA AudienceNextIInv == AudienceIInv /\ [AudienceNext]_audienceVars => AudienceIInv'
<1> SUFFICES ASSUME AudienceIInv, [AudienceNext]_audienceVars PROVE AudienceIInv'
  OBVIOUS
<1>1. CASE UNCHANGED audienceVars
  <2>1. EventSame /\ ListSame /\ UNCHANGED <<event, job, queuedTimes, notify, received, faults>>
    BY <1>1 DEF EventSame, ListSame, audienceVars, eventVars, jobVars, listVars
  <2> QED
    BY <2>1, EventUntouched, ListUntouched, JobsUntouched, MailsUntouched DEF AudienceIInv
<1>2. CASE AudienceNext
  BY <1>2, DeliveryStep, ListStep, AccountStep, PublishStep, AnnounceStep, QueueStep, JobEndsStep
  DEF AudienceNext, FanOut
<1> QED
  BY <1>1, <1>2

\* Every reachable state is as the argument above needs it.
THEOREM AudienceInvariant == AudienceSpec => []AudienceIInv
BY AudienceInitIInv, AudienceNextIInv, PTL DEF AudienceSpec

\* The rows and jobs keep their shape.
THEOREM RowsKeepShape == AudienceSpec => []AudienceTypeOK
<1>1. AudienceIInv => AudienceTypeOK
  BY DEF AudienceIInv, EventShape, JobShape, MailShape, ListShape, AudienceTypeOK
<1> QED
  BY <1>1, AudienceInvariant, PTL

\* However often an event is published and whichever jobs are run again, one
\* mail about it is queued for an address (maintenance.worker.ts, the claim), and
\* another arrives only for an answer of Brevo that was lost (email.ts).
THEOREM OneMailAnAddress == AudienceSpec => []AnnouncedOnce
<1>1. ASSUME AudienceIInv, NEW e \in Addresses
      PROVE  queuedTimes[e] <= 1 /\ received[e] <= queuedTimes[e] + faults
  <2>1. /\ queuedTimes[e] <= 1 /\ received[e] \in Nat /\ queuedTimes[e] \in Nat /\ faults \in Nat
        /\ received[e] + UnderWay(e) <= queuedTimes[e] + faults
    BY <1>1 DEF AudienceIInv, QueuedOnce, MailsCounted, MailShape
  <2>2. UnderWay(e) \in {0, 1}
    BY DEF UnderWay
  <2> QED
    BY <2>1, <2>2
<1>2. AudienceIInv => AnnouncedOnce
  BY <1>1 DEF AnnouncedOnce
<1> QED
  BY <1>2, AudienceInvariant, PTL

\* Nobody but its owner puts an address back on the list (subscribers.service.ts).
THEOREM OwnersDecide == AudienceSpec => []OnlyOwnersConfirm
<1>1. AudienceIInv => OnlyOwnersConfirm
  BY DEF AudienceIInv
<1> QED
  BY <1>1, AudienceInvariant, PTL
=============================================================================
