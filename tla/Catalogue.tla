----------------------------- MODULE Catalogue -----------------------------
(***************************************************************************)
(* Events and their tiers as organisers change them (admin.routes.ts,      *)
(* EventForm.tsx, TierEditor in AdminEventPage.tsx), the sweep that        *)
(* archives finished events (maintenance.worker.ts), what the ledger is    *)
(* told about both, and the cache the storefront is served from            *)
(* (events.service.ts, lib/cache.ts).  An event has one tier.  Of the      *)
(* cache one entry is watched, any one: entries do not depend on each      *)
(* other.  Seats are Inventory's, the chains of the ledger are Ledger's.   *)
(***************************************************************************)
EXTENDS Naturals, SequencesExt

CONSTANTS
    Events,
    Organisers,   \* dashboards and API clients with the admin key
    Containers,   \* API processes, each sharing a load among its requests
    Maintenance,  \* the worker that sweeps
    None,         \* no value
    Slugs,        \* names of events' pages
    FirstSlug,    \* [Events -> the slug it has, if it is there at the start]
    Statuses,     \* of events, among draft, published, closed and cancelled
    TierStatuses, \* among active, paused, hidden and closed
    Watched,      \* entries of the cache of which one is watched
    MaxChanges    \* bound: commits that change an event or a tier

ASSUME MaintenanceIsNoOrganiser == Maintenance \notin Organisers
ASSUME StatusesAssumption ==
    /\ "published" \in Statuses /\ Statuses \subseteq {"draft", "published", "closed", "cancelled"}
    /\ {"active", "closed"} \subseteq TierStatuses
    /\ TierStatuses \subseteq {"active", "paused", "hidden", "closed"}
ASSUME FirstSlugAssumption ==
    /\ FirstSlug \in [Events -> Slugs]
    /\ \A d, e \in Events : FirstSlug[d] = FirstSlug[e] => d = e
ASSUME MaxChangesAssumption == MaxChanges \in Nat

VARIABLES
    row,          \* [Events -> the events row]
    tier,         \* [Events -> the status of its tier, or "none"]
    sold,         \* events that orders refer to
    told,         \* [Events -> what the ledger says of the event, and of its tier]
    patched,      \* history: tiers whose status was PATCHed since their last entry
    admin,        \* [Actors -> what it is doing]
    key,          \* the cache entry watched; never changes
    cache,        \* its value, or None
    fill,         \* [Containers -> the value its loader has read, or None]
    changes       \* bound

dataVars == <<row, tier, sold, told, patched, changes>>
cacheVars == <<key, cache, fill>>
vars == <<dataVars, admin, cacheVars>>

Actors == Organisers \cup {Maintenance}
Exists(e) == row[e].status \notin {"none", "deleted"}

\* The unique index on slugs.
slugIsFree(e, slug) == \A d \in Events \ {e} : Exists(d) => row[d].slug # slug

NoRow == [status |-> "none", slug |-> None, start |-> "future", end |-> "open", archived |-> FALSE]
Nothing == [pc |-> "idle", event |-> None, seen |-> None, drops |-> {}]

\* Cache keys.  (event:<id>:tiers is dropped everywhere and filled nowhere.)
PublicEventList == <<"events:published">>
PastEventList == <<"events:past">>
EventBySlug(slug) == <<"event:slug", slug>>
EventAvailability(e) == <<"event:availability", e>>

cacheKeys ==
    {PublicEventList, PastEventList}
        \cup {EventBySlug(slug) : slug \in Slugs} \cup {EventAvailability(e) : e \in Events}

ASSUME WatchedAreKeys == Watched \subseteq cacheKeys

\* No event yet, or one on sale, upcoming or over.
Init ==
    /\ row \in [Events -> {NoRow} \cup
                   [status : {"published"}, slug : Slugs, start : {"past", "future"},
                    end : {"open", "past", "future"}, archived : {FALSE}]]
    /\ \A e \in Events : /\ row[e].start = "future" => row[e].end # "past"
                         /\ Exists(e) => row[e].slug = FirstSlug[e]
    /\ tier = [e \in Events |-> IF Exists(e) THEN "active" ELSE "none"]
    /\ sold = {}
    /\ told = [e \in Events |-> [event |-> <<>>, tier |-> <<>>]]
    /\ patched = {}
    /\ admin = [a \in Actors |-> Nothing]
    /\ key \in Watched
    /\ cache = None
    /\ fill = [c \in Containers |-> None]
    /\ changes = 0

-----------------------------------------------------------------------------
(* Organisers. *)

Change == changes < MaxChanges /\ changes' = changes + 1

Idle(a) == admin[a].pc = "idle"

\* After its commit a request drops the cache entries it names.
Then(a, keys) == admin' = [admin EXCEPT ![a] = [Nothing EXCEPT !.pc = "committed", !.drops = keys]]

Done(a) == admin' = [admin EXCEPT ![a] = Nothing]

\* The keys a handler names: of the page, where it has a slug at hand.
invalidateEvent(e, slugs) ==
    {EventAvailability(e), PublicEventList, PastEventList} \cup {EventBySlug(slug) : slug \in slugs}

\* An open transaction has updated the tier: others wait for its row lock.
TierLocked(e) == \E a \in Actors : admin[a].pc = "updated" /\ admin[a].event = e

\* When an event is over.
hasFinished(r) == IF r.end = "open" THEN r.start = "past" ELSE r.end = "past"

eventFields == [status : Statuses, slug : Slugs, start : {"past", "future"},
                end : {"open", "past", "future"}]

\* Dates on one side of now are taken to be in order.
eventDatesOrdered(body) == ~(body.start = "future" /\ body.end = "past")

eventBody == {body \in eventFields : eventDatesOrdered(body)}

CreateEvent(a, e) ==
    /\ Idle(a) /\ row[e].status = "none" /\ Change
    /\ \E body \in eventBody :
         /\ slugIsFree(e, body.slug)
         /\ row' = [row EXCEPT ![e] = [status |-> body.status, slug |-> body.slug,
                                       start |-> body.start, end |-> body.end, archived |-> FALSE]]
         /\ Then(a, invalidateEvent(e, {body.slug}))
    /\ UNCHANGED <<tier, sold, told, patched, cacheVars>>

\* Of what a tier is created with, its status matters here.
tierBody == TierStatuses

CreateTier(a, e) ==
    /\ Idle(a) /\ Exists(e) /\ tier[e] = "none" /\ Change
    /\ \E s \in tierBody : tier' = [tier EXCEPT ![e] = s]
    /\ Then(a, invalidateEvent(e, {}))
    /\ UNCHANGED <<row, sold, told, patched, cacheVars>>

\* The dashboard's forms start from what the page loaded, and are sent whenever.
EditEvent(a, e) ==
    /\ Idle(a) /\ Exists(e)
    /\ admin' = [admin EXCEPT ![a] = [@ EXCEPT !.pc = "event form", !.event = e, !.seen = row[e]]]
    /\ UNCHANGED <<dataVars, cacheVars>>

TierEditor(a, e) ==
    /\ Idle(a) /\ tier[e] # "none"
    /\ admin' = [admin EXCEPT ![a] = [@ EXCEPT !.pc = "tier form", !.event = e]]
    /\ UNCHANGED <<dataVars, cacheVars>>

\* What a form holds after one of its fields was changed.
EventForm(r) ==
    {[r EXCEPT !.status = s] : s \in Statuses}
        \cup {[r EXCEPT !.slug = slug] : slug \in Slugs}
        \cup {[r EXCEPT !.start = start] : start \in {"past", "future"}}
        \cup {[r EXCEPT !.end = end] : end \in {"open", "past", "future"}}

\* Whatever was changed, the status is sent too, often the one the page had loaded.
TierForm == TierStatuses

\* What is sent of it: everything but an end that is empty.
handleSubmit(form) ==
    [status |-> form.status, slug |-> form.slug, start |-> form.start, end |-> form.end]

\* What is not sent stays as it is.  The page dropped is that of the new slug.
UpdateEvent(a) ==
    LET e == admin[a].event
    IN  /\ admin[a].pc = "event form"
        /\ Exists(e) /\ Change
        /\ \E form \in EventForm(admin[a].seen) :
             LET body == handleSubmit(form)
             IN  /\ body \in eventBody /\ slugIsFree(e, body.slug)
                 /\ row' = [row EXCEPT ![e].status = body.status, ![e].slug = body.slug,
                                       ![e].start = body.start,
                                       ![e].end = IF body.end = "open" THEN @ ELSE body.end]
                 /\ admin' = [admin EXCEPT ![a] =
                      [pc |-> "committed", event |-> e, seen |-> form,
                       drops |-> invalidateEvent(e, {body.slug})]]
        /\ UNCHANGED <<tier, sold, told, patched, cacheVars>>

UpdateTier(a) ==
    LET e == admin[a].event
    IN  /\ admin[a].pc = "tier form"
        /\ tier[e] # "none" /\ ~TierLocked(e) /\ Change
        /\ \E s \in TierForm :
             /\ tier' = [tier EXCEPT ![e] = s]
             /\ patched' = IF s = tier[e] THEN patched ELSE patched \cup {e}
        /\ Then(a, invalidateEvent(e, {}))
        /\ UNCHANGED <<row, sold, told, cacheVars>>

\* The answer does not come: the form stays as it was sent, for another try.
adminFetchFails(a) ==
    /\ admin[a].seen # None
    /\ admin' = [admin EXCEPT ![a].pc = "event form", ![a].drops = {}]

\* The form is left; what it edits may be gone.
CancelForm(a) ==
    /\ admin[a].pc \in {"event form", "tier form"}
    /\ Done(a)
    /\ UNCHANGED <<dataVars, cacheVars>>

\* recordTransition, in the transaction of the change; of an entry, what the
\* thing is said to be now.
Tell(about, e, to) == told' = [told EXCEPT ![e][about] = Append(@, to)]

\* close-sales and reopen-sales: the tier is read, then updated under its lock,
\* then the entry is written, and both are committed.
setTierSalesClosed(a, e) ==
    /\ Idle(a) /\ tier[e] # "none"
    /\ \E next \in {"closed", "active"} :
         admin' = [admin EXCEPT ![a] = [@ EXCEPT !.pc = "sales", !.event = e,
                                                 !.seen = next]]
    /\ UNCHANGED <<dataVars, cacheVars>>

LockTier(a) ==
    /\ admin[a].pc = "sales" /\ ~TierLocked(admin[a].event)
    /\ admin' = [admin EXCEPT ![a].pc = "updated"]
    /\ UNCHANGED <<dataVars, cacheVars>>

\* A tier deleted meanwhile matches no row; the entry is written all the same.
CommitSales(a) ==
    LET e == admin[a].event
    IN  /\ admin[a].pc = "updated" /\ Change
        /\ tier' = IF tier[e] = "none" THEN tier
                   ELSE [tier EXCEPT ![e] = admin[a].seen]
        /\ Tell("tier", e, admin[a].seen)
        /\ patched' = patched \ {e}
        /\ Then(a, invalidateEvent(e, {}))
        /\ UNCHANGED <<row, sold, cacheVars>>

\* archive, unarchive and delete read the event and check it, and begin their
\* transaction later; they drop the page of the slug they read.
Retire(a, e, to) ==
    /\ Idle(a) /\ Exists(e)
    /\ admin' = [admin EXCEPT ![a] = [pc |-> "retire", event |-> e, seen |-> to,
                                      drops |-> invalidateEvent(e, {row[e].slug})]]
    /\ UNCHANGED <<dataVars, cacheVars>>

archiveEvent(a, e) ==
    /\ hasFinished(row[e]) /\ ~row[e].archived
    /\ Retire(a, e, "archived")

unarchiveEvent(a, e) == Retire(a, e, "listed")

deleteEvent(a, e) ==
    /\ hasFinished(row[e]) /\ e \notin sold
    /\ Retire(a, e, "deleted")

\* The transaction of each: the entry, and the change if there is still a row.
CommitArchive(a) ==
    LET e == admin[a].event
    IN  /\ admin[a].pc = "retire" /\ admin[a].seen # "deleted" /\ Change
        /\ row' = IF Exists(e) THEN [row EXCEPT ![e].archived = (admin[a].seen = "archived")]
                  ELSE row
        /\ Tell("event", e, admin[a].seen)
        /\ Then(a, admin[a].drops)
        /\ UNCHANGED <<tier, sold, patched, cacheVars>>

\* Mutation: the orders of the event go with it.
CommitDeleteCascades(a) ==
    LET e == admin[a].event
    IN  /\ admin[a].pc = "retire" /\ admin[a].seen = "deleted"
        /\ ~TierLocked(e) /\ Change
        /\ row' = [row EXCEPT ![e].status = "deleted"]
        /\ tier' = [tier EXCEPT ![e] = "none"]
        /\ Tell("event", e, "deleted")
        /\ Then(a, admin[a].drops)
        /\ UNCHANGED <<sold, patched, cacheVars>>

\* The tiers go with the event; an order that has come since stops it.
CommitDelete(a) ==
    LET e == admin[a].event
    IN  /\ admin[a].pc = "retire" /\ admin[a].seen = "deleted"
        /\ e \notin sold /\ ~TierLocked(e) /\ Change
        /\ row' = [row EXCEPT ![e].status = "deleted"]
        /\ tier' = [tier EXCEPT ![e] = "none"]
        /\ Tell("event", e, "deleted")
        /\ Then(a, admin[a].drops)
        /\ UNCHANGED <<sold, patched, cacheVars>>

\* Mutation: the entry is not written in the transaction.
RollBackKeepsEntry(a) ==
    /\ admin[a].pc \in {"sales", "updated", "retire"}
    /\ IF admin[a].pc = "updated" THEN Tell("tier", admin[a].event, admin[a].seen) ELSE UNCHANGED told
    /\ Done(a)
    /\ UNCHANGED <<row, tier, sold, patched, changes, cacheVars>>

\* A throw, a deadlock or a crash before the commit.
RollBack(a) ==
    /\ admin[a].pc \in {"sales", "updated", "retire"}
    /\ Done(a)
    /\ UNCHANGED <<dataVars, cacheVars>>

\* Each event that is finished, and long enough ago when days are given, is
\* archived: several are several of these.
archivePastEvents(e) ==
    /\ Exists(e) /\ hasFinished(row[e]) /\ ~row[e].archived
    /\ Change
    /\ row' = [row EXCEPT ![e].archived = TRUE]
    /\ UNCHANGED <<tier, sold, told, patched, cacheVars>>

archivePast(a, e) ==
    /\ Idle(a)
    /\ archivePastEvents(e)
    /\ Then(a, invalidateEvent(e, {row[e].slug}))

\* The hourly job.
archive(e) ==
    /\ Idle(Maintenance)
    /\ archivePastEvents(e)
    /\ admin' = [admin EXCEPT ![Maintenance] =
         [pc |-> "swept", event |-> e, seen |-> None,
          drops |-> {PublicEventList, PastEventList, EventBySlug(row[e].slug)}]]

\* The worker writes the entry afterwards; a crash in between leaves none.
recordArchived ==
    LET e == admin[Maintenance].event
    IN  /\ admin[Maintenance].pc = "swept"
        /\ \/ /\ Tell("event", e, "archived")
              /\ Then(Maintenance, admin[Maintenance].drops)
           \/ Done(Maintenance) /\ UNCHANGED told
        /\ UNCHANGED <<row, tier, sold, patched, changes, cacheVars>>

-----------------------------------------------------------------------------
(* What else changes events: time, buyers, and the purge of their orders. *)

Pass(e) ==
    /\ Exists(e)
    /\ IF row[e].start = "future"
       THEN row' = [row EXCEPT ![e].start = "past"]
       ELSE row[e].end = "future" /\ row' = [row EXCEPT ![e].end = "past"]
    /\ UNCHANGED <<tier, sold, told, patched, changes, admin, cacheVars>>

\* The tier's row is locked and the event's key is shared until the order is in.
\* That the event is on sale was read before: it may have been published then.
OrderPlaced(e) ==
    /\ Exists(e) /\ tier[e] = "active" /\ ~TierLocked(e)
    /\ e \notin sold
    /\ sold' = sold \cup {e}
    /\ UNCHANGED <<row, tier, told, patched, changes, admin, cacheVars>>

\* Abandoned orders are deleted, in one transaction (Purge has what it reads before
\* and what it writes after).
purgeAbandonedOrders(e) ==
    /\ e \in sold
    /\ sold' = sold \ {e}
    /\ UNCHANGED <<row, tier, told, patched, changes, admin, cacheVars>>

-----------------------------------------------------------------------------
(* The cache. *)

listPublishedEvents ==
    {[event |-> e, slug |-> row[e].slug, priced |-> tier[e] = "active"] :
       e \in {x \in Events : row[x].status = "published" /\ ~row[x].archived /\ ~hasFinished(row[x])}}

listPastEvents ==
    {[event |-> e, slug |-> row[e].slug, archived |-> row[e].archived] :
       e \in {x \in Events : row[x].status \in {"published", "closed"} /\ hasFinished(row[x])}}

\* Of a tier that is shown.  Its window and its seats are left out.
toPublicTier(status) ==
    [closedByOrganiser |-> status = "closed", onSale |-> status = "active"]

\* None: not found, an error that is not cached.
getPublicEvent(slug) ==
    LET named == {e \in Events : row[e].status = "published" /\ row[e].slug = slug}
        e == CHOOSE e \in named : TRUE
    IN  IF named = {} THEN None
        ELSE [event |-> e, start |-> row[e].start, end |-> row[e].end,
              tiers |-> {toPublicTier(s) : s \in {tier[e]} \cap {"active", "closed"}}]

getAvailability(e) == IF Exists(e) THEN [closed |-> tier[e] = "closed"] ELSE None

\* What the loader of the watched entry reads now.
Loaded ==
    CASE key = PublicEventList -> listPublishedEvents
      [] key = PastEventList -> listPastEvents
      [] key[1] = "event:slug" -> getPublicEvent(key[2])
      [] OTHER -> getAvailability(key[2])

\* A miss: the loader reads, once for all requests of the container, and later
\* the value is written, whatever was dropped in between.
Load(c) ==
    /\ cache = None /\ fill[c] = None
    /\ fill' = [fill EXCEPT ![c] = Loaded]
    /\ UNCHANGED <<dataVars, admin, key, cache>>

cacheSet(c) ==
    /\ fill[c] # None
    /\ cache' = fill[c]
    /\ fill' = [fill EXCEPT ![c] = None]
    /\ UNCHANGED <<dataVars, admin, key>>

\* The process ends, or Redis does not answer.
cacheSetFails(c) ==
    /\ fill[c] # None
    /\ fill' = [fill EXCEPT ![c] = None]
    /\ UNCHANGED <<dataVars, admin, key, cache>>

\* Mutation: an entry stays until it is dropped.
ExpireNever == FALSE /\ UNCHANGED vars

\* Every entry has a lifetime, which being read does not extend.
Expire ==
    /\ cache # None
    /\ cache' = None
    /\ UNCHANGED <<dataVars, admin, key, fill>>

\* A Redis that does not answer is logged and ignored, and so is a crash.
cacheDelete(a) ==
    /\ admin[a].pc = "committed"
    /\ cache' \in {cache} \cup (IF key \in admin[a].drops THEN {None} ELSE {})
    /\ Done(a) \/ adminFetchFails(a)
    /\ UNCHANGED <<dataVars, key, fill>>

-----------------------------------------------------------------------------
OrganiserStep(a, e) ==
    \/ CreateEvent(a, e) \/ CreateTier(a, e) \/ EditEvent(a, e) \/ TierEditor(a, e)
    \/ setTierSalesClosed(a, e) \/ archiveEvent(a, e) \/ unarchiveEvent(a, e)
    \/ deleteEvent(a, e) \/ archivePast(a, e)

Commits(a) ==
    \/ UpdateEvent(a) \/ UpdateTier(a) \/ CancelForm(a)
    \/ LockTier(a) \/ CommitSales(a) \/ CommitArchive(a) \/ CommitDelete(a) \/ RollBack(a)

Next ==
    \/ \E a \in Organisers : (\E e \in Events : OrganiserStep(a, e)) \/ Commits(a)
    \/ \E a \in Actors : cacheDelete(a)
    \/ recordArchived
    \/ \E e \in Events : archive(e) \/ Pass(e) \/ OrderPlaced(e) \/ purgeAbandonedOrders(e)
    \/ \E c \in Containers : Load(c) \/ cacheSet(c) \/ cacheSetFails(c)
    \/ Expire

Spec == Init /\ [][Next]_vars

\* Redis keeps time, and a load comes to an end.
FairSpec ==
    /\ Spec
    /\ WF_vars(Expire)
    /\ \A c \in Containers : WF_vars(cacheSet(c) \/ cacheSetFails(c))

-----------------------------------------------------------------------------
TypeOK ==
    /\ row \in [Events -> [status : Statuses \cup {"none", "deleted"}, slug : Slugs \cup {None},
                           start : {"past", "future"}, end : {"open", "past", "future"},
                           archived : BOOLEAN]]
    /\ tier \in [Events -> TierStatuses \cup {"none"}]
    /\ \A e \in Events : tier[e] # "none" => Exists(e)
    /\ sold \subseteq Events
    /\ patched \subseteq Events
    /\ key \in cacheKeys
    /\ changes \in 0..MaxChanges

\* However closings and reopenings race, and whichever fail, the last the ledger
\* says of a tier is what buyers meet, unless a PATCH has said otherwise since.
SalesAsTold ==
    \A e \in Events :
        told[e].tier # <<>> /\ tier[e] # "none" /\ e \notin patched
            => Last(told[e].tier) = tier[e]

\* No order is left without its event, even one placed after the deletion had
\* counted none; and what is gone, the ledger says is gone.
NothingOrphaned ==
    \A e \in Events :
        /\ e \in sold => Exists(e)
        /\ row[e].status = "deleted" <=> \E i \in DOMAIN told[e].event : told[e].event[i] = "deleted"

\* Once organisers are done, what is served becomes what is true and stays so,
\* though loads may write what they read before a change, handlers do not name
\* every entry a change touches, and Redis may lose what they drop.
Fresh == cache = None \/ cache = Loaded

ServedBecomesTrue == <>[]Fresh
=============================================================================
