------------------------------ MODULE Audience ------------------------------
(***************************************************************************)
(* Who hears of a new event: the announcement list with its double opt-in  *)
(* (subscribers.service.ts), the PATCH that publishes an event             *)
(* (admin.routes.ts), the job that fans the announcement out               *)
(* (maintenance.worker.ts) and the mails it queues, one for each address   *)
(* (queues.ts, notification.worker.ts).  One event.  The mails with        *)
(* confirmation links are sent by something outside the repository.        *)
(***************************************************************************)
EXTENDS Naturals, FiniteSets

CONSTANTS
    Subscribers,       \* addresses typed into the form
    AccountAddresses,  \* addresses of accounts
    Organisers,        \* PATCH requests in progress
    MaxTokens,         \* bound: tokens minted for one address
    MaxPatches,        \* bound: PATCHes
    MaxFaults          \* bound: crashes and failed enqueues

VARIABLES
    event,        \* the row: published or not, announced or not
    patch,        \* [Organisers -> how far its PATCH is]
    job,          \* the announce job, under its id, and whom it has left to queue
    notify,       \* [Addresses -> the mail about the event, under its job id]
    queuedTimes,  \* history: [Addresses -> how often a mail was queued, up to 2]
    received,     \* history: [Addresses -> how many mails about the event it got]
    row,          \* [Subscribers -> the subscribers row; token 0: none]
    inbox,        \* [Subscribers -> the last token minted for it]
    request,      \* [Subscribers -> what a subscribe call that has read is to write]
    confirming,   \* [Subscribers -> a confirmation has found the row of its token]
    lastAct,      \* history: [Subscribers -> what its owner last achieved with a link]
    optedIn,      \* verified addresses of accounts that want announcements
    patches, faults

eventVars == <<event, patch, patches>>
jobVars == <<job, notify, queuedTimes, received>>
listVars == <<row, inbox, request, confirming, lastAct>>
audienceVars == <<eventVars, jobVars, listVars, optedIn, faults>>

Addresses == Subscribers \cup AccountAddresses

NoRow == [token |-> 0, confirmed |-> FALSE, unsubscribed |-> FALSE]

AudienceInit ==
    /\ event = [published |-> FALSE, announced |-> FALSE]
    /\ patch = [a \in Organisers |-> "idle"]
    /\ job = [state |-> "none", left |-> {}]
    /\ notify = [e \in Addresses |-> "none"]
    /\ queuedTimes = [e \in Addresses |-> 0]
    /\ received = [e \in Addresses |-> 0]
    /\ row = [e \in Subscribers |-> NoRow]
    /\ inbox = [e \in Subscribers |-> 0]
    /\ request = [e \in Subscribers |-> "idle"]
    /\ confirming = [e \in Subscribers |-> FALSE]
    /\ lastAct = [e \in Subscribers |-> "none"]
    /\ optedIn \in SUBSET AccountAddresses
    /\ patches = 0
    /\ faults = 0

Fault == faults < MaxFaults /\ faults' = faults + 1

-----------------------------------------------------------------------------
(* The list. *)

Active(e) == row[e].confirmed /\ ~row[e].unsubscribed

\* Anybody may type an address.  The row is read, then written by another statement.
Subscribe(e) ==
    /\ request[e] = "idle"
    /\ request' = [request EXCEPT ![e] =
         IF Active(e) THEN "idle" ELSE IF row[e] = NoRow THEN "insert" ELSE "update"]
    /\ UNCHANGED <<eventVars, jobVars, row, inbox, confirming, lastAct, optedIn, faults>>

\* Mutation: a new request lifts the opt-out and keeps the old confirmation.
subscribeKeepsConfirmation(e) ==
    /\ request[e] # "idle" /\ inbox[e] < MaxTokens
    /\ row' = [row EXCEPT ![e].token = inbox[e] + 1, ![e].unsubscribed = FALSE]
    /\ inbox' = [inbox EXCEPT ![e] = @ + 1]
    /\ request' = [request EXCEPT ![e] = "idle"]
    /\ UNCHANGED <<eventVars, jobVars, confirming, lastAct, optedIn, faults>>

\* A fresh token, to be confirmed again: whatever has become of the row since.
\* (Where there was none and now is one, the insert fails.)
subscribe(e) ==
    /\ request[e] # "idle" /\ inbox[e] < MaxTokens
    /\ IF request[e] = "insert" /\ row[e] # NoRow
       THEN UNCHANGED <<row, inbox>>
       ELSE /\ row' = [row EXCEPT ![e] =
                 [token |-> inbox[e] + 1, confirmed |-> FALSE, unsubscribed |-> FALSE]]
            /\ inbox' = [inbox EXCEPT ![e] = @ + 1]
    /\ request' = [request EXCEPT ![e] = "idle"]
    /\ UNCHANGED <<eventVars, jobVars, confirming, lastAct, optedIn, faults>>

\* The link of any mail that came to the address, clicked once more or not.  The
\* row is found by its token and then updated by its id.
ConfirmClicked(e, token) ==
    /\ row[e].token = token /\ ~confirming[e]
    /\ IF Active(e) THEN lastAct' = [lastAct EXCEPT ![e] = "confirmed"] /\ UNCHANGED confirming
       ELSE confirming' = [confirming EXCEPT ![e] = TRUE] /\ UNCHANGED lastAct
    /\ UNCHANGED <<eventVars, jobVars, row, inbox, request, optedIn, faults>>

confirmSubscription(e) ==
    /\ confirming[e]
    /\ row' = [row EXCEPT ![e].confirmed = TRUE, ![e].unsubscribed = FALSE]
    /\ confirming' = [confirming EXCEPT ![e] = FALSE]
    /\ lastAct' = [lastAct EXCEPT ![e] = "confirmed"]
    /\ UNCHANGED <<eventVars, jobVars, inbox, request, optedIn, faults>>

\* A token that has been replaced matches nothing: the answer is the same.
unsubscribe(e, token) ==
    /\ row[e].token = token
    /\ row' = [row EXCEPT ![e].unsubscribed = TRUE]
    /\ lastAct' = [lastAct EXCEPT ![e] = "unsubscribed"]
    /\ UNCHANGED <<eventVars, jobVars, inbox, request, confirming, optedIn, faults>>

\* The links of the mails, with any token that was ever mailed to the address.
LinkClicked(e) == \E token \in 1..inbox[e] : ConfirmClicked(e, token) \/ unsubscribe(e, token)

\* Accounts verify their addresses, opt in and out, and are closed (Accounts).
AccountChanges(e) ==
    /\ optedIn' = IF e \in optedIn THEN optedIn \ {e} ELSE optedIn \cup {e}
    /\ UNCHANGED <<eventVars, jobVars, listVars, faults>>

-----------------------------------------------------------------------------
(* Publishing. *)

loadScopedEvent(a) ==
    /\ patch[a] = "idle" /\ patches < MaxPatches
    /\ patch' = [patch EXCEPT ![a] = IF event.published THEN "was published" ELSE "was not"]
    /\ patches' = patches + 1
    /\ UNCHANGED <<event, jobVars, listVars, optedIn, faults>>

\* The update, and whether it is taken for the one that published.
PatchEvent(a) ==
    /\ patch[a] \in {"was published", "was not"}
    /\ \E published \in BOOLEAN :
         /\ event' = [event EXCEPT !.published = published]
         /\ patch' = [patch EXCEPT ![a] =
              IF patch[a] = "was not" /\ published THEN "enqueue" ELSE "idle"]
    /\ UNCHANGED <<patches, jobVars, listVars, optedIn, faults>>

\* A job under an id the queue knows is not added.
enqueueEventAnnouncement(a) ==
    /\ patch[a] = "enqueue"
    /\ job' = IF job.state = "none" THEN [state |-> "queued", left |-> {}] ELSE job
    /\ patch' = [patch EXCEPT ![a] = "idle"]
    /\ UNCHANGED <<event, patches, notify, queuedTimes, received, listVars, optedIn, faults>>

\* The change is committed; nothing publishes the event a second time.
EnqueueFails(a) ==
    /\ patch[a] = "enqueue" /\ Fault
    /\ patch' = [patch EXCEPT ![a] = "idle"]
    /\ UNCHANGED <<event, patches, jobVars, listVars, optedIn>>

-----------------------------------------------------------------------------
(* The fan-out. *)

fanOutRest == UNCHANGED <<patch, patches, listVars, optedIn>>
jobUnchanged == fanOutRest /\ UNCHANGED received

\* Subscribers first, accounts that are not subscribers too: one entry an address.
getAnnouncementRecipients == {e \in Subscribers : Active(e)} \cup optedIn

\* Mutation: nothing is claimed.
announceUnclaimed ==
    /\ job.state = "queued"
    /\ job' = [state |-> "running", left |-> getAnnouncementRecipients]
    /\ UNCHANGED <<event, notify, queuedTimes, faults>> /\ jobUnchanged

\* announce(eventId): announced_at is claimed, then the recipients are read.
announceEvent ==
    /\ job.state = "queued"
    /\ IF event.announced
       THEN job' = [job EXCEPT !.state = "done"] /\ UNCHANGED event
       ELSE /\ event' = [event EXCEPT !.announced = TRUE]
            /\ job' = [state |-> "running", left |-> getAnnouncementRecipients]
    /\ UNCHANGED <<notify, queuedTimes, faults>> /\ jobUnchanged

Queued(e) ==
    IF notify[e] = "none"
    THEN /\ notify' = [notify EXCEPT ![e] = "queued"]
         /\ queuedTimes' = [queuedTimes EXCEPT ![e] = IF @ < 2 THEN @ + 1 ELSE @]
    ELSE UNCHANGED <<notify, queuedTimes>>

\* Mutation: the job id is the event's alone.
enqueueNotificationPerEvent ==
    /\ job.state = "running" /\ job.left # {}
    /\ \E e \in job.left :
         /\ IF \A x \in Addresses : notify[x] = "none"
            THEN Queued(e) ELSE UNCHANGED <<notify, queuedTimes>>
         /\ job' = [job EXCEPT !.left = @ \ {e}]
    /\ UNCHANGED <<event, faults>> /\ jobUnchanged

enqueueNotification ==
    /\ job.state = "running" /\ job.left # {}
    /\ \E e \in job.left :
         /\ Queued(e)
         /\ job' = [job EXCEPT !.left = @ \ {e}]
    /\ UNCHANGED <<event, faults>> /\ jobUnchanged

FanOutEnds ==
    /\ job.state = "running" /\ job.left = {}
    /\ job' = [job EXCEPT !.state = "done"]
    /\ UNCHANGED <<event, notify, queuedTimes, faults>> /\ jobUnchanged

\* A throw or a crash in the middle: the job is run again, and finds the claim.
FanOutFails ==
    /\ job.state = "running" /\ Fault
    /\ job' = [state |-> "queued", left |-> {}]
    /\ UNCHANGED <<event, notify, queuedTimes>> /\ jobUnchanged

deliveryRest == UNCHANGED <<event, job, queuedTimes>> /\ fanOutRest

\* Brevo takes the mail, or does not.
Accepted(e, accepted) ==
    received' = IF accepted THEN [received EXCEPT ![e] = @ + 1] ELSE received

\* The mail of an event that is off sale again is dropped.
buildAnnouncement(e) ==
    /\ notify[e] = "queued"
    /\ notify' = [notify EXCEPT ![e] = IF event.published THEN "built" ELSE "dropped"]
    /\ UNCHANGED <<received, faults>> /\ deliveryRest

deliver(e) ==
    /\ notify[e] = "built"
    /\ notify' = [notify EXCEPT ![e] = "sent"]
    /\ Accepted(e, TRUE)
    /\ UNCHANGED faults /\ deliveryRest

\* A mail that Brevo does not want as it is is not tried again.
sendEmailRefused(e) ==
    /\ notify[e] = "built" /\ Fault
    /\ notify' = [notify EXCEPT ![e] = "refused"]
    /\ UNCHANGED received /\ deliveryRest

\* Whatever else goes wrong throws, an answer that does not come in time too, and
\* so does the end of the process: the job is run again, built anew, until its
\* attempts are used up.
sendEmailFails(e) ==
    /\ notify[e] = "built" /\ Fault
    /\ \E again, accepted \in BOOLEAN :
         /\ notify' = [notify EXCEPT ![e] = IF again THEN "queued" ELSE "failed"]
         /\ Accepted(e, accepted)
    /\ deliveryRest

\* The queue forgets jobs that ended some time ago, and with them their ids.
Forget ==
    /\ \/ job.state = "done" /\ job' = [state |-> "none", left |-> {}] /\ UNCHANGED notify
       \/ \E e \in Addresses : /\ notify[e] \in {"sent", "dropped", "refused", "failed"}
                            /\ notify' = [notify EXCEPT ![e] = "none"]
                            /\ UNCHANGED job
    /\ UNCHANGED <<event, queuedTimes, faults>> /\ jobUnchanged

-----------------------------------------------------------------------------
FanOut == announceEvent \/ enqueueNotification \/ FanOutEnds

AudienceNext ==
    \/ \E e \in Addresses :
         buildAnnouncement(e) \/ deliver(e) \/ sendEmailRefused(e) \/ sendEmailFails(e)
    \/ \E e \in AccountAddresses : AccountChanges(e)
    \/ \E e \in Subscribers :
         Subscribe(e) \/ subscribe(e) \/ LinkClicked(e) \/ confirmSubscription(e)
    \/ \E a \in Organisers :
         loadScopedEvent(a) \/ PatchEvent(a) \/ enqueueEventAnnouncement(a) \/ EnqueueFails(a)
    \/ FanOut \/ FanOutFails \/ Forget

AudienceSpec == AudienceInit /\ [][AudienceNext]_audienceVars

\* Queued jobs are run and a request goes on.
AudienceFairSpec ==
    /\ AudienceSpec
    /\ WF_audienceVars(FanOut)
    /\ \A e \in Addresses : WF_audienceVars(buildAnnouncement(e)) /\ WF_audienceVars(deliver(e))
    /\ \A a \in Organisers : WF_audienceVars(enqueueEventAnnouncement(a) \/ EnqueueFails(a))

-----------------------------------------------------------------------------
\* The shape of the state (proved in PeopleProofs).
JobStates == {"none", "queued", "running", "done"}
MailStates == {"none", "queued", "built", "sent", "dropped", "refused", "failed"}
Row == [token : Nat, confirmed : BOOLEAN, unsubscribed : BOOLEAN]

AudienceTypeOK ==
    /\ event \in [published : BOOLEAN, announced : BOOLEAN]
    /\ patch \in [Organisers -> {"idle", "was published", "was not", "enqueue"}]
    /\ job \in [state : JobStates, left : SUBSET Addresses]
    /\ notify \in [Addresses -> MailStates]
    /\ queuedTimes \in [Addresses -> Nat]
    /\ received \in [Addresses -> Nat]
    /\ row \in [Subscribers -> Row]
    /\ inbox \in [Subscribers -> Nat]
    /\ lastAct \in [Subscribers -> {"none", "confirmed", "unsubscribed"}]
    /\ optedIn \subseteq AccountAddresses
    /\ faults \in Nat

\* However often the event is published, by several at once, whichever jobs are
\* run again and whatever the queue has forgotten: one mail an address is queued,
\* and more than one arrive only for answers of Brevo that were lost.
AnnouncedOnce ==
    \A e \in Addresses : queuedTimes[e] <= 1 /\ received[e] <= queuedTimes[e] + faults

\* Whoever types an address, and whenever, cannot put it back on the list after
\* its owner left: the last thing achieved with a link from that inbox decides.
OnlyOwnersConfirm == \A e \in Subscribers : Active(e) => lastAct[e] = "confirmed"

\* An address on the list when the fan-out begins gets its mail, unless a job
\* fails or the event is off sale again by then.
ListIsTold ==
    \A e \in Addresses :
        e \in job.left ~> received[e] > 0 \/ notify[e] = "dropped" \/ faults > 0

=============================================================================
