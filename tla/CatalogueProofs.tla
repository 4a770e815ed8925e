-------------------------- MODULE CatalogueProofs --------------------------
(***************************************************************************)
(* For any number of events, organisers and changes: what the ledger says  *)
(* last of a tier is what buyers meet unless a PATCH said otherwise, no    *)
(* order loses its event, and the ledger tells of every deletion.  For any *)
(* number of orders and any limit: the purge deletes no record of money    *)
(* and tells of no removal that did not happen.                            *)
(***************************************************************************)
EXTENDS Catalogue, Purge, SequenceTheorems, FiniteSetTheorems, TLAPS

-----------------------------------------------------------------------------
(* The inductive invariant. *)

Row == [status : Statuses \cup {"none", "deleted"}, slug : Slugs \cup {None},
        start : {"past", "future"}, end : {"open", "past", "future"}, archived : BOOLEAN]

Moods == {"archived", "listed", "deleted"}  \* what is told of an event
Sales == {"active", "closed"}               \* what is told of a tier

\* The event has a tier, or had one that went with it.
HadTier(e) == tier[e] # "none" \/ row[e].status = "deleted"

RowsOK == row \in [Events -> Row] /\ changes \in 0..MaxChanges

TiersOK ==
    /\ tier \in [Events -> TierStatuses \cup {"none"}]
    /\ \A e \in Events : tier[e] # "none" => Exists(e)
    /\ sold \subseteq Events /\ patched \subseteq Events

ToldOK ==
    /\ told = [e \in Events |-> [event |-> told[e].event, tier |-> told[e].tier]]
    /\ \A e \in Events : told[e].event \in Seq(Moods) /\ told[e].tier \in Seq(Sales)
    /\ \A e \in Events : told[e].tier # <<>> => HadTier(e)

Had == {e \in Events : HadTier(e)}

Doing(pc, event, seen, drops) == [pc |-> pc, event |-> event, seen |-> seen, drops |-> drops]

\* What an organiser is about is an event, and who is about to close or reopen
\* sales has seen a tier, one of the events H.
DoingOK(x, H) ==
    /\ x = Doing(x.pc, x.event, x.seen, x.drops)
    /\ x.pc \in {"event form", "tier form", "sales", "updated", "retire", "swept"}
         => x.event \in Events
    /\ x.seen # None => x.event \in Events
    /\ x.pc \in {"sales", "updated"} => x.seen \in Sales /\ x.event \in H
    /\ x.pc = "retire" => x.seen \in Moods

AdminOK ==
    /\ admin = [a \in Actors |-> admin[a]]
    /\ \A a \in Actors : DoingOK(admin[a], Had)

DataInv == RowsOK /\ TiersOK /\ ToldOK /\ SalesAsTold /\ NothingOrphaned

IInv == DataInv /\ AdminOK /\ key \in cacheKeys

-----------------------------------------------------------------------------
(* What a change does to the data. *)

LEMMA RowWith ==
    ASSUME NEW r \in Row
    PROVE  /\ \A x \in BOOLEAN : [r EXCEPT !.archived = x] \in Row
                               /\ [r EXCEPT !.archived = x].status = r.status
           /\ \A x \in {"past", "future"} : [r EXCEPT !.start = x] \in Row
                               /\ [r EXCEPT !.start = x].status = r.status
           /\ \A x \in {"open", "past", "future"} : [r EXCEPT !.end = x] \in Row
                               /\ [r EXCEPT !.end = x].status = r.status
BY DEF Row

LEMMA NewRow ==
    ASSUME NEW st \in Statuses \cup {"none", "deleted"}, NEW slug \in Slugs \cup {None},
           NEW start \in {"past", "future"}, NEW end \in {"open", "past", "future"},
           NEW x \in BOOLEAN
    PROVE  LET r == [status |-> st, slug |-> slug, start |-> start, end |-> end, archived |-> x]
           IN  r \in Row /\ r.status = st
BY DEF Row

LEMMA RowFields ==
    ASSUME NEW r \in Row
    PROVE  /\ r.status \in Statuses \cup {"none", "deleted"} /\ r.slug \in Slugs \cup {None}
           /\ r.start \in {"past", "future"} /\ r.end \in {"open", "past", "future"}
           /\ r.archived \in BOOLEAN
           /\ r = [status |-> r.status, slug |-> r.slug, start |-> r.start, end |-> r.end,
                   archived |-> r.archived]
BY DEF Row

LEMMA ExistingStatus == \A s \in Statuses : s \notin {"none", "deleted"}
BY StatusesAssumption

Tells(q, y) == \E i \in DOMAIN q : q[i] = y

LEMMA AppendTells ==
    ASSUME NEW S, NEW q \in Seq(S), NEW x \in S
    PROVE  /\ Append(q, x) \in Seq(S) /\ Append(q, x) # <<>> /\ Last(Append(q, x)) = x
           /\ \A y : Tells(Append(q, x), y) <=> Tells(q, y) \/ y = x
<1>1. /\ Append(q, x) \in Seq(S) /\ Len(Append(q, x)) = Len(q) + 1 /\ Append(q, x) # <<>>
      /\ \A i \in 1..Len(q) : Append(q, x)[i] = q[i]
      /\ Append(q, x)[Len(q) + 1] = x
  BY AppendProperties
<1>2. Len(q) \in Nat /\ DOMAIN q = 1..Len(q) /\ DOMAIN Append(q, x) = 1..(Len(q) + 1)
  BY <1>1, LenProperties
<1>3. \A i \in 1..(Len(q) + 1) : i \in 1..Len(q) \/ i = Len(q) + 1
  BY <1>2
<1>4. \A i \in 1..Len(q) : i \in 1..(Len(q) + 1)
  BY <1>2
<1>5. Len(q) + 1 \in 1..(Len(q) + 1)
  BY <1>2
<1>6. ASSUME NEW y PROVE Tells(Append(q, x), y) <=> Tells(q, y) \/ y = x
  BY <1>1, <1>2, <1>3, <1>4, <1>5 DEF Tells
<1> QED
  BY <1>1, <1>6 DEF Last

EventEntry(t, x) == [event |-> Append(t.event, x), tier |-> t.tier]
TierEntry(t, x) == [event |-> t.event, tier |-> Append(t.tier, x)]

LEMMA EntryFields ==
    ASSUME NEW t, NEW x
    PROVE  /\ EventEntry(t, x).event = Append(t.event, x) /\ EventEntry(t, x).tier = t.tier
           /\ TierEntry(t, x).tier = Append(t.tier, x) /\ TierEntry(t, x).event = t.event
           /\ EventEntry(t, x) = [event |-> EventEntry(t, x).event, tier |-> EventEntry(t, x).tier]
           /\ TierEntry(t, x) = [event |-> TierEntry(t, x).event, tier |-> TierEntry(t, x).tier]
BY DEF EventEntry, TierEntry

LEMMA EntryMade ==
    ASSUME NEW event, NEW kind, NEW t, t = [event |-> event, tier |-> kind], NEW y
    PROVE  /\ [t EXCEPT !["event"] = y] = [event |-> y, tier |-> kind]
           /\ [t EXCEPT !["tier"] = y] = [event |-> event, tier |-> y]
<1>1. DOMAIN t = {"event", "tier"} /\ t["event"] = event /\ t["tier"] = kind
  OBVIOUS
<1>2. [t EXCEPT !["event"] = y] = [f \in DOMAIN t |-> IF f = "event" THEN y ELSE t[f]]
  OBVIOUS
<1>3. [t EXCEPT !["tier"] = y] = [f \in DOMAIN t |-> IF f = "tier" THEN y ELSE t[f]]
  OBVIOUS
<1>4. [t EXCEPT !["event"] = y] = [event |-> y, tier |-> kind]
  BY <1>1, <1>2
<1>5. [t EXCEPT !["tier"] = y] = [event |-> event, tier |-> y]
  BY <1>1, <1>3
<1> QED
  BY <1>4, <1>5

\* What the ledger is told goes to the entries of one event and one kind.
LEMMA Told ==
    ASSUME ToldOK, NEW e \in Events, NEW x
    PROVE  /\ Tell("event", e, x) =>
                told' = [d \in Events |-> IF d = e THEN EventEntry(told[e], x) ELSE told[d]]
           /\ Tell("tier", e, x) =>
                told' = [d \in Events |-> IF d = e THEN TierEntry(told[e], x) ELSE told[d]]
<1>1. told = [d \in Events |-> told[d]]
  BY DEF ToldOK
<1>2. told[e] = [event |-> told[e].event, tier |-> told[e].tier]
  BY DEF ToldOK
<1>3. [told[e] EXCEPT !["event"] = Append(@, x)] = EventEntry(told[e], x)
  BY <1>2, EntryMade DEF EventEntry
<1>4. [told[e] EXCEPT !["tier"] = Append(@, x)] = TierEntry(told[e], x)
  BY <1>2, EntryMade DEF TierEntry
<1>5. ASSUME Tell("event", e, x)
      PROVE  told' = [d \in Events |-> IF d = e THEN EventEntry(told[e], x) ELSE told[d]]
  BY <1>1, <1>3, <1>5 DEF Tell
<1>6. ASSUME Tell("tier", e, x)
      PROVE  told' = [d \in Events |-> IF d = e THEN TierEntry(told[e], x) ELSE told[d]]
  BY <1>1, <1>4, <1>6 DEF Tell
<1> QED
  BY <1>5, <1>6

\* The row of an event that is not deleted is changed, or made.
LEMMA RowChanges ==
    ASSUME DataInv, NEW e \in Events, NEW r \in Row,
           r.status \notin {"none", "deleted"}, row[e].status # "deleted",
           row' = [row EXCEPT ![e] = r], changes' \in 0..MaxChanges,
           UNCHANGED <<tier, sold, told, patched>>
    PROVE  DataInv' /\ \A d \in Events : HadTier(d) => HadTier(d)'
<1>1. row' \in [Events -> Row] /\ \A d \in Events : row'[d] = IF d = e THEN r ELSE row[d]
  BY DEF DataInv, RowsOK
<1>2. RowsOK'
  BY <1>1 DEF RowsOK
<1>3. \A d \in Events : HadTier(d) => HadTier(d)'
  BY <1>1 DEF HadTier
<1>4. \A d \in Events : Exists(d) => Exists(d)'
  BY <1>1 DEF Exists
<1>5. TiersOK'
  BY <1>4 DEF DataInv, TiersOK
<1>6. ToldOK'
  BY <1>3 DEF DataInv, ToldOK
<1>7. SalesAsTold'
  BY DEF DataInv, SalesAsTold
<1>8. \A d \in Events : row'[d].status = "deleted" <=> row[d].status = "deleted"
  BY <1>1
<1>9. NothingOrphaned'
  BY <1>4, <1>8 DEF DataInv, NothingOrphaned
<1> QED
  BY <1>2, <1>3, <1>5, <1>6, <1>7, <1>9 DEF DataInv

\* The ledger is told of an event that it is archived or listed, and rows
\* change in no status.
LEMMA EventTold ==
    ASSUME DataInv, NEW e \in Events, NEW mood \in Moods \ {"deleted"},
           row' \in [Events -> Row], \A d \in Events : row'[d].status = row[d].status,
           Tell("event", e, mood), changes' \in 0..MaxChanges,
           UNCHANGED <<tier, sold, patched>>
    PROVE  DataInv' /\ \A d \in Events : HadTier(d) => HadTier(d)'
<1>1. \A d \in Events : HadTier(d)' <=> HadTier(d)
  BY DEF HadTier
<1>2. told' = [d \in Events |-> IF d = e THEN EventEntry(told[e], mood) ELSE told[d]]
  BY Told DEF DataInv
<1>3. ASSUME NEW d \in Events
      PROVE  /\ told'[d] = [event |-> told'[d].event, tier |-> told'[d].tier]
             /\ told'[d].tier = told[d].tier
             /\ told'[d].event = IF d = e THEN Append(told[d].event, mood) ELSE told[d].event
  <2>1. told[d] = [event |-> told[d].event, tier |-> told[d].tier]
    BY DEF DataInv, ToldOK
  <2>2. CASE d = e
    <3>1. told'[d] = EventEntry(told[d], mood)
      BY <1>2, <2>2
    <3> QED
      BY <2>2, <3>1, EntryFields
  <2>3. CASE d # e
    BY <1>2, <2>1, <2>3
  <2> QED
    BY <2>2, <2>3
<1>4. ASSUME NEW d \in Events
      PROVE  /\ told'[d].event \in Seq(Moods)
             /\ Tells(told'[d].event, "deleted") <=> Tells(told[d].event, "deleted")
  <2>1. told[d].event \in Seq(Moods)
    BY DEF DataInv, ToldOK
  <2>2. CASE d = e
    <3>1. told'[d].event = Append(told[d].event, mood)
      BY <1>3, <2>2
    <3>2. mood \in Moods /\ mood # "deleted"
      OBVIOUS
    <3>3. /\ Append(told[d].event, mood) \in Seq(Moods)
          /\ \A y : Tells(Append(told[d].event, mood), y) <=> Tells(told[d].event, y) \/ y = mood
      BY <2>1, <3>2, AppendTells
    <3> QED
      BY <3>1, <3>2, <3>3
  <2>3. CASE d # e
    BY <1>3, <2>1, <2>3
  <2> QED
    BY <2>2, <2>3
<1>5. ToldOK'
  <2>1. told' = [d \in Events |-> [event |-> told'[d].event, tier |-> told'[d].tier]]
    BY <1>2, <1>3
  <2> QED
    BY <1>1, <1>3, <1>4, <2>1 DEF DataInv, ToldOK
<1>6. NothingOrphaned'
  BY <1>4 DEF DataInv, NothingOrphaned, Exists, Tells
<1>7. SalesAsTold'
  BY <1>3 DEF DataInv, SalesAsTold
<1>8. RowsOK' /\ TiersOK'
  BY DEF DataInv, RowsOK, TiersOK, Exists
<1> QED
  BY <1>1, <1>5, <1>6, <1>7, <1>8 DEF DataInv

\* An event gets a tier, or the status of its tier is PATCHed.
LEMMA TierChanges ==
    ASSUME DataInv, NEW e \in Events, NEW s \in TierStatuses, Exists(e),
           tier' = [tier EXCEPT ![e] = s], changes' \in 0..MaxChanges,
           patched' = IF tier[e] \in {"none", s} THEN patched ELSE patched \cup {e},
           UNCHANGED <<row, sold, told>>
    PROVE  DataInv' /\ \A d \in Events : HadTier(d) => HadTier(d)'
<1>1. /\ \A d \in Events : tier'[d] = IF d = e THEN s ELSE tier[d]
      /\ tier' \in [Events -> TierStatuses \cup {"none"}]
  BY DEF DataInv, TiersOK
<1>2. s # "none"
  BY StatusesAssumption
<1>3. \A d \in Events : Exists(d)' <=> Exists(d)
  BY DEF Exists
<1>4. \A d \in Events : HadTier(d) => HadTier(d)'
  BY <1>1, <1>2 DEF HadTier
<1>5. RowsOK'
  BY DEF DataInv, RowsOK
<1>6. TiersOK'
  BY <1>1, <1>3 DEF DataInv, TiersOK
<1>7. ToldOK'
  BY <1>4 DEF DataInv, ToldOK
<1>8. NothingOrphaned'
  BY <1>3 DEF DataInv, NothingOrphaned
<1>9. SalesAsTold'
  <2> SUFFICES ASSUME NEW d \in Events, told[d].tier # <<>>, tier'[d] # "none", d \notin patched'
               PROVE  Last(told[d].tier) = tier'[d]
    BY DEF SalesAsTold
  <2>1. CASE d # e
    BY <1>1, <2>1 DEF DataInv, SalesAsTold
  <2>2. CASE d = e
    <3>1. HadTier(e)
      BY <2>2 DEF DataInv, ToldOK
    <3>2. tier[e] # "none"
      BY <3>1 DEF HadTier, Exists
    <3>3. tier[e] = s /\ e \notin patched
      BY <2>2, <3>2
    <3> QED
      BY <1>1, <2>2, <3>2, <3>3 DEF DataInv, SalesAsTold
  <2> QED
    BY <2>1, <2>2
<1> QED
  BY <1>4, <1>5, <1>6, <1>7, <1>8, <1>9 DEF DataInv

\* Sales are closed or reopened, and the ledger told, in one transaction.
LEMMA SalesChange ==
    ASSUME DataInv, NEW e \in Events, NEW x \in Sales, HadTier(e),
           tier' = IF tier[e] = "none" THEN tier ELSE [tier EXCEPT ![e] = x],
           Tell("tier", e, x), patched' = patched \ {e}, changes' \in 0..MaxChanges,
           UNCHANGED <<row, sold>>
    PROVE  DataInv' /\ \A d \in Events : HadTier(d) => HadTier(d)'
<1>1. /\ \A d \in Events : tier'[d] = IF d = e /\ tier[e] # "none" THEN x ELSE tier[d]
      /\ tier' \in [Events -> TierStatuses \cup {"none"}]
  BY StatusesAssumption DEF DataInv, TiersOK, Sales
<1>2. x # "none"
  BY DEF Sales
<1>3. \A d \in Events : Exists(d)' <=> Exists(d)
  BY DEF Exists
<1>4. \A d \in Events : HadTier(d) => HadTier(d)'
  BY <1>1, <1>2 DEF HadTier
<1>5. told' = [d \in Events |-> IF d = e THEN TierEntry(told[e], x) ELSE told[d]]
  BY Told DEF DataInv
<1>6. ASSUME NEW d \in Events
      PROVE  /\ told'[d] = [event |-> told'[d].event, tier |-> told'[d].tier]
             /\ told'[d].event = told[d].event
             /\ told'[d].tier = IF d = e THEN Append(told[d].tier, x) ELSE told[d].tier
  <2>1. told[d] = [event |-> told[d].event, tier |-> told[d].tier]
    BY DEF DataInv, ToldOK
  <2>2. CASE d = e
    <3>1. told'[d] = TierEntry(told[d], x)
      BY <1>5, <2>2
    <3> QED
      BY <2>2, <3>1, EntryFields
  <2>3. CASE d # e
    BY <1>5, <2>1, <2>3
  <2> QED
    BY <2>2, <2>3
<1>7. told[e].tier \in Seq(Sales)
  BY DEF DataInv, ToldOK
<1>8. Append(told[e].tier, x) \in Seq(Sales) /\ Last(Append(told[e].tier, x)) = x
  BY <1>7, AppendTells
<1>9. RowsOK'
  BY DEF DataInv, RowsOK
<1>10. TiersOK'
  BY <1>1, <1>3 DEF DataInv, TiersOK
<1>11. ToldOK'
  <2>1. told' = [d \in Events |-> [event |-> told'[d].event, tier |-> told'[d].tier]]
    BY <1>5, <1>6
  <2>2. ASSUME NEW d \in Events
        PROVE  /\ told'[d].event \in Seq(Moods) /\ told'[d].tier \in Seq(Sales)
               /\ told'[d].tier # <<>> => HadTier(d)'
    <3>1. CASE d = e
      BY <1>4, <1>6, <1>8, <3>1 DEF DataInv, ToldOK
    <3>2. CASE d # e
      BY <1>4, <1>6, <3>2 DEF DataInv, ToldOK
    <3> QED
      BY <3>1, <3>2
  <2> QED
    BY <2>1, <2>2 DEF ToldOK
<1>12. NothingOrphaned'
  <2>1. ASSUME NEW d \in Events
        PROVE  row'[d].status = "deleted" <=> Tells(told'[d].event, "deleted")
    <3>1. row[d].status = "deleted" <=> Tells(told[d].event, "deleted")
      BY DEF DataInv, NothingOrphaned, Tells
    <3> QED
      BY <1>6, <3>1
  <2>2. \A d \in Events : d \in sold' => Exists(d)'
    BY <1>3 DEF DataInv, NothingOrphaned
  <2> QED
    BY <2>1, <2>2 DEF NothingOrphaned, Tells
<1>13. SalesAsTold'
  <2> SUFFICES ASSUME NEW d \in Events, told'[d].tier # <<>>, tier'[d] # "none", d \notin patched'
               PROVE  Last(told'[d].tier) = tier'[d]
    BY DEF SalesAsTold
  <2>1. CASE d # e
    BY <1>1, <1>6, <2>1 DEF DataInv, SalesAsTold
  <2>2. CASE d = e
    BY <1>1, <1>6, <1>8, <2>2
  <2> QED
    BY <2>1, <2>2
<1> QED
  BY <1>4, <1>9, <1>10, <1>11, <1>12, <1>13 DEF DataInv

\* An event without orders goes with its tier, and the ledger is told.
LEMMA EventGoes ==
    ASSUME DataInv, NEW e \in Events, e \notin sold,
           row' = [row EXCEPT ![e].status = "deleted"], tier' = [tier EXCEPT ![e] = "none"],
           Tell("event", e, "deleted"), changes' \in 0..MaxChanges,
           UNCHANGED <<sold, patched>>
    PROVE  DataInv' /\ \A d \in Events : HadTier(d) => HadTier(d)'
<1>1. /\ \A d \in Events : tier'[d] = IF d = e THEN "none" ELSE tier[d]
      /\ tier' \in [Events -> TierStatuses \cup {"none"}]
  BY DEF DataInv, TiersOK
<1>2. /\ row' \in [Events -> Row]
      /\ row'[e].status = "deleted"
      /\ \A d \in Events \ {e} : row'[d] = row[d]
  <2>1. row[e] \in Row
    BY DEF DataInv, RowsOK
  <2> DEFINE r == [row[e] EXCEPT !.status = "deleted"]
  <2>2. r \in Row /\ r.status = "deleted"
    BY <2>1 DEF Row
  <2>3. row' = [row EXCEPT ![e] = r]
    OBVIOUS
  <2> HIDE DEF r
  <2> QED
    BY <2>2, <2>3 DEF DataInv, RowsOK
<1>3. \A d \in Events : Exists(d)' <=> Exists(d) /\ d # e
  BY <1>2 DEF Exists
<1>4. \A d \in Events : HadTier(d) => HadTier(d)'
  BY <1>1, <1>2 DEF HadTier
<1>5. told' = [d \in Events |-> IF d = e THEN EventEntry(told[e], "deleted") ELSE told[d]]
  BY Told DEF DataInv
<1>6. ASSUME NEW d \in Events
      PROVE  /\ told'[d] = [event |-> told'[d].event, tier |-> told'[d].tier]
             /\ told'[d].tier = told[d].tier
             /\ told'[d].event = IF d = e THEN Append(told[d].event, "deleted") ELSE told[d].event
  <2>1. told[d] = [event |-> told[d].event, tier |-> told[d].tier]
    BY DEF DataInv, ToldOK
  <2>2. CASE d = e
    <3>1. told'[d] = EventEntry(told[d], "deleted")
      BY <1>5, <2>2
    <3> QED
      BY <2>2, <3>1, EntryFields
  <2>3. CASE d # e
    BY <1>5, <2>1, <2>3
  <2> QED
    BY <2>2, <2>3
<1>7. Append(told[e].event, "deleted") \in Seq(Moods) /\ Tells(Append(told[e].event, "deleted"), "deleted")
  <2>1. told[e].event \in Seq(Moods)
    BY DEF DataInv, ToldOK
  <2> DEFINE x == "deleted"
  <2>2. x \in Moods
    BY DEF Moods
  <2> HIDE DEF x
  <2>3. Append(told[e].event, x) \in Seq(Moods) /\ Tells(Append(told[e].event, x), x)
    BY <2>1, <2>2, AppendTells
  <2> QED
    BY <2>3 DEF x
<1>8. RowsOK'
  BY <1>2 DEF RowsOK
<1>9. TiersOK'
  BY <1>1, <1>3 DEF DataInv, TiersOK
<1>10. ToldOK'
  <2>1. told' = [d \in Events |-> [event |-> told'[d].event, tier |-> told'[d].tier]]
    BY <1>5, <1>6
  <2>2. ASSUME NEW d \in Events
        PROVE  /\ told'[d].event \in Seq(Moods) /\ told'[d].tier \in Seq(Sales)
               /\ told'[d].tier # <<>> => HadTier(d)'
    <3>1. CASE d = e
      BY <1>4, <1>6, <1>7, <3>1 DEF DataInv, ToldOK
    <3>2. CASE d # e
      BY <1>4, <1>6, <3>2 DEF DataInv, ToldOK
    <3> QED
      BY <3>1, <3>2
  <2> QED
    BY <2>1, <2>2 DEF ToldOK
<1>11. NothingOrphaned'
  <2>1. ASSUME NEW d \in Events
        PROVE  row'[d].status = "deleted" <=> Tells(told'[d].event, "deleted")
    <3>1. CASE d = e
      BY <1>2, <1>6, <1>7, <3>1
    <3>2. CASE d # e
      <4>1. row[d].status = "deleted" <=> Tells(told[d].event, "deleted")
        BY DEF DataInv, NothingOrphaned, Tells
      <4>2. row'[d] = row[d] /\ told'[d].event = told[d].event
        BY <1>2, <1>6, <3>2
      <4> QED
        BY <4>1, <4>2
    <3> QED
      BY <3>1, <3>2
  <2>2. \A d \in Events : d \in sold' => Exists(d)'
    BY <1>3 DEF DataInv, NothingOrphaned
  <2> QED
    BY <2>1, <2>2 DEF NothingOrphaned, Tells
<1>12. SalesAsTold'
  BY <1>1, <1>6 DEF DataInv, SalesAsTold
<1> QED
  BY <1>4, <1>8, <1>9, <1>10, <1>11, <1>12 DEF DataInv

\* An order is placed for an event that is there, or purged.
LEMMA SoldChanges ==
    ASSUME DataInv, NEW e \in Events,
           sold' = sold \ {e} \/ (Exists(e) /\ sold' = sold \cup {e}),
           UNCHANGED <<row, tier, told, patched, changes>>
    PROVE  DataInv' /\ \A d \in Events : HadTier(d) => HadTier(d)'
<1>1. \A d \in Events : (Exists(d)' <=> Exists(d)) /\ (HadTier(d)' <=> HadTier(d))
  BY DEF Exists, HadTier
<1>2. RowsOK' /\ SalesAsTold'
  BY DEF DataInv, RowsOK, SalesAsTold
<1>3. TiersOK'
  BY <1>1 DEF DataInv, TiersOK
<1>4. ToldOK'
  BY <1>1 DEF DataInv, ToldOK
<1>5. NothingOrphaned'
  BY <1>1 DEF DataInv, NothingOrphaned
<1> QED
  BY <1>1, <1>2, <1>3, <1>4, <1>5 DEF DataInv

LEMMA DataUnchanged ==
    ASSUME DataInv, UNCHANGED dataVars
    PROVE  DataInv' /\ \A d \in Events : HadTier(d) => HadTier(d)'
<1> USE DEF dataVars
<1>1. \A d \in Events : (Exists(d)' <=> Exists(d)) /\ (HadTier(d)' <=> HadTier(d))
  BY DEF Exists, HadTier
<1>2. RowsOK' /\ SalesAsTold'
  BY DEF DataInv, RowsOK, SalesAsTold
<1>3. TiersOK'
  BY <1>1 DEF DataInv, TiersOK
<1>4. ToldOK'
  BY <1>1 DEF DataInv, ToldOK
<1>5. NothingOrphaned'
  BY <1>1 DEF DataInv, NothingOrphaned
<1> QED
  BY <1>1, <1>2, <1>3, <1>4, <1>5 DEF DataInv

-----------------------------------------------------------------------------
(* What organisers are about. *)

LEMMA AdminChanges ==
    ASSUME AdminOK, NEW a \in Actors, NEW x, admin' = [admin EXCEPT ![a] = x],
           DoingOK(x, Had'), \A d \in Events : HadTier(d) => HadTier(d)'
    PROVE  AdminOK'
<1>1. /\ admin' = [b \in Actors |-> admin'[b]]
      /\ admin'[a] = x /\ \A b \in Actors \ {a} : admin'[b] = admin[b]
  BY DEF AdminOK
<1>2. Had \subseteq Had'
  BY DEF Had
<1>3. ASSUME NEW b \in Actors \ {a} PROVE DoingOK(admin[b], Had')
  <2>1. DoingOK(admin[b], Had)
    BY DEF AdminOK
  <2> QED
    BY <1>2, <2>1 DEF DoingOK
<1> QED
  BY <1>1, <1>3 DEF AdminOK

LEMMA AdminStays ==
    ASSUME AdminOK, admin' = admin, \A d \in Events : HadTier(d) => HadTier(d)'
    PROVE  AdminOK'
<1>1. Had \subseteq Had'
  BY DEF Had
<1>2. ASSUME NEW b \in Actors PROVE DoingOK(admin[b], Had')
  <2>1. DoingOK(admin[b], Had)
    BY DEF AdminOK
  <2> QED
    BY <1>1, <2>1 DEF DoingOK
<1> QED
  BY <1>2 DEF AdminOK

\* What organisers turn to.
LEMMA Doings ==
    ASSUME NEW H
    PROVE  /\ DoingOK(Nothing, H)
           /\ \A keys : DoingOK(Doing("committed", None, None, keys), H)
           /\ \A e \in Events : \A seen, keys : DoingOK(Doing("event form", e, seen, keys), H)
           /\ \A e \in Events : \A seen, keys : DoingOK(Doing("committed", e, seen, keys), H)
           /\ \A e \in Events : \A seen, keys : DoingOK(Doing("tier form", e, seen, keys), H)
           /\ \A e \in Events : \A seen, keys : DoingOK(Doing("swept", e, seen, keys), H)
           /\ \A e \in Events, seen \in Moods : \A keys : DoingOK(Doing("retire", e, seen, keys), H)
           /\ \A e \in Events, seen \in Sales : \A keys :
                e \in H => /\ DoingOK(Doing("sales", e, seen, keys), H)
                          /\ DoingOK(Doing("updated", e, seen, keys), H)
BY DEF DoingOK, Doing, Nothing

-----------------------------------------------------------------------------
(* Every step keeps it. *)

LEMMA ChangeBounded == DataInv /\ Change => changes' \in 0..MaxChanges
BY MaxChangesAssumption DEF DataInv, RowsOK, Change

LEMMA DoingField ==
    ASSUME NEW p, NEW e, NEW s, NEW d, NEW x
    PROVE  /\ [Doing(p, e, s, d) EXCEPT !.pc = x] = Doing(x, e, s, d)
           /\ [Doing(p, e, s, d) EXCEPT !.event = x] = Doing(p, x, s, d)
           /\ [Doing(p, e, s, d) EXCEPT !.seen = x] = Doing(p, e, x, d)
           /\ [Doing(p, e, s, d) EXCEPT !.drops = x] = Doing(p, e, s, x)
<1>1. [Doing(p, e, s, d) EXCEPT !.pc = x] = Doing(x, e, s, d)
  BY DEF Doing
<1>2. [Doing(p, e, s, d) EXCEPT !.event = x] = Doing(p, x, s, d)
  BY DEF Doing
<1>3. [Doing(p, e, s, d) EXCEPT !.seen = x] = Doing(p, e, x, d)
  BY DEF Doing
<1>4. [Doing(p, e, s, d) EXCEPT !.drops = x] = Doing(p, e, s, x)
  BY DEF Doing
<1> QED
  BY <1>1, <1>2, <1>3, <1>4

\* One who is doing x turns to something else.
TurnTo(x, q) == [x EXCEPT !.pc = q]
TurnDropping(x, q, c) == [x EXCEPT !.pc = q, !.drops = c]
TurnAt(x, q, f) == [x EXCEPT !.pc = q, !.event = f]
TurnWith(x, q, f, t) == [x EXCEPT !.pc = q, !.event = f, !.seen = t]

LEMMA Turning ==
    ASSUME NEW x, NEW p, NEW e, NEW s, NEW d, x = Doing(p, e, s, d), NEW q, NEW f, NEW t, NEW c
    PROVE  /\ TurnTo(x, q) = Doing(q, e, s, d)
           /\ TurnDropping(x, q, c) = Doing(q, e, s, c)
           /\ TurnAt(x, q, f) = Doing(q, f, s, d)
           /\ TurnWith(x, q, f, t) = Doing(q, f, t, d)
<1>1. [x EXCEPT !.pc = q] = Doing(q, e, s, d)
  BY DoingField
<1>2. [x EXCEPT !.pc = q, !.drops = c] = [[x EXCEPT !.pc = q] EXCEPT !.drops = c]
  OBVIOUS
<1>3. [x EXCEPT !.pc = q, !.event = f] = [[x EXCEPT !.pc = q] EXCEPT !.event = f]
  OBVIOUS
<1>4. [x EXCEPT !.pc = q, !.event = f, !.seen = t]
        = [[[x EXCEPT !.pc = q] EXCEPT !.event = f] EXCEPT !.seen = t]
  OBVIOUS
<1>5. [Doing(q, e, s, d) EXCEPT !.drops = c] = Doing(q, e, s, c)
  BY DEF Doing
<1>6. [Doing(q, e, s, d) EXCEPT !.event = f] = Doing(q, f, s, d)
  BY DEF Doing
<1>7. [Doing(q, f, s, d) EXCEPT !.seen = t] = Doing(q, f, t, d)
  BY DEF Doing
<1>8. TurnTo(x, q) = Doing(q, e, s, d) /\ TurnDropping(x, q, c) = Doing(q, e, s, c)
  BY <1>1, <1>2, <1>5 DEF TurnTo, TurnDropping
<1>9. TurnAt(x, q, f) = Doing(q, f, s, d) /\ TurnWith(x, q, f, t) = Doing(q, f, t, d)
  BY <1>1, <1>3, <1>4, <1>6, <1>7 DEF TurnAt, TurnWith
<1> QED
  BY <1>8, <1>9

LEMMA ThenCommitted ==
    ASSUME NEW a \in Actors, NEW keys, Then(a, keys)
    PROVE  admin' = [admin EXCEPT ![a] = Doing("committed", None, None, keys)]
<1>1. Nothing = Doing("idle", None, None, {})
  BY DEF Nothing, Doing
<1> DEFINE n == Nothing
<1>2. n = Doing("idle", None, None, {})
  BY <1>1
<1> HIDE DEF n
<1>3. [n EXCEPT !.pc = "committed", !.drops = keys] = [[n EXCEPT !.pc = "committed"] EXCEPT !.drops = keys]
  OBVIOUS
<1>4. [n EXCEPT !.pc = "committed"] = Doing("committed", None, None, {})
  BY <1>2, DoingField
<1>5. [Doing("committed", None, None, {}) EXCEPT !.drops = keys] = Doing("committed", None, None, keys)
  BY DEF Doing
<1>6. [n EXCEPT !.pc = "committed", !.drops = keys] = Doing("committed", None, None, keys)
  BY <1>3, <1>4, <1>5
<1> QED
  BY <1>6 DEF Then, n

\* With the data kept, a request that has committed is done but for the cache.
LEMMA CommitKeepsIInv ==
    ASSUME IInv, NEW a \in Actors, NEW keys, Then(a, keys),
           DataInv', \A d \in Events : HadTier(d) => HadTier(d)', key' = key
    PROVE  IInv'
<1>1. DoingOK(Doing("committed", None, None, keys), Had')
  BY Doings
<1>2. AdminOK'
  BY <1>1, ThenCommitted, AdminChanges DEF IInv
<1> QED
  BY <1>2 DEF IInv, cacheKeys, PublicEventList, PastEventList, EventBySlug, EventAvailability

\* The same for who turns to something, the data unchanged.
LEMMA TurnKeepsIInv ==
    ASSUME IInv, NEW a \in Actors, NEW x, admin' = [admin EXCEPT ![a] = x],
           DoingOK(x, Had), UNCHANGED dataVars, key' = key
    PROVE  IInv'
<1>1. DataInv' /\ \A d \in Events : HadTier(d) => HadTier(d)'
  BY DataUnchanged DEF IInv
<1>2. DoingOK(x, Had')
  BY <1>1 DEF DoingOK, Had
<1>3. AdminOK'
  BY <1>1, <1>2, AdminChanges DEF IInv
<1> QED
  BY <1>1, <1>3 DEF IInv, cacheKeys, PublicEventList, PastEventList, EventBySlug, EventAvailability

LEMMA CreateEventKeepsIInv ==
    ASSUME IInv, NEW a \in Organisers, NEW e \in Events, CreateEvent(a, e)
    PROVE  IInv'
<1>1. PICK body \in eventBody :
        /\ row' = [row EXCEPT ![e] = [status |-> body.status, slug |-> body.slug,
                                      start |-> body.start, end |-> body.end, archived |-> FALSE]]
        /\ Then(a, invalidateEvent(e, {body.slug}))
  BY DEF CreateEvent
<1> DEFINE r == [status |-> body.status, slug |-> body.slug, start |-> body.start,
                 end |-> body.end, archived |-> FALSE]
<1>2. /\ body.status \in Statuses /\ body.slug \in Slugs /\ body.start \in {"past", "future"}
      /\ body.end \in {"open", "past", "future"}
  BY DEF eventBody, eventFields
<1>3. r \in Row /\ r.status = body.status
  BY <1>2, NewRow
<1>4. r.status \notin {"none", "deleted"}
  BY <1>2, <1>3, ExistingStatus
<1>5. row[e].status # "deleted"
  BY DEF CreateEvent
<1>6. changes' \in 0..MaxChanges /\ UNCHANGED <<tier, sold, told, patched>> /\ key' = key
  BY ChangeBounded DEF CreateEvent, IInv, cacheVars
<1> HIDE DEF r
<1>7. row' = [row EXCEPT ![e] = r]
  BY <1>1 DEF r
<1>8. DataInv' /\ \A d \in Events : HadTier(d) => HadTier(d)'
  BY <1>3, <1>4, <1>5, <1>6, <1>7, RowChanges DEF IInv
<1>9. a \in Actors /\ Then(a, invalidateEvent(e, {body.slug}))
  BY <1>1 DEF Actors
<1> QED
  BY <1>6, <1>8, <1>9, CommitKeepsIInv

LEMMA CreateTierKeepsIInv ==
    ASSUME IInv, NEW a \in Organisers, NEW e \in Events, CreateTier(a, e)
    PROVE  IInv'
<1>1. PICK s \in TierStatuses : tier' = [tier EXCEPT ![e] = s]
  BY DEF CreateTier, tierBody
<1>2. /\ Exists(e) /\ tier[e] = "none" /\ patched' = patched
      /\ changes' \in 0..MaxChanges /\ UNCHANGED <<row, sold, told>> /\ key' = key
  BY ChangeBounded DEF CreateTier, IInv, cacheVars
<1>3. patched' = IF tier[e] \in {"none", s} THEN patched ELSE patched \cup {e}
  BY <1>2
<1>4. DataInv' /\ \A d \in Events : HadTier(d) => HadTier(d)'
  BY <1>1, <1>2, <1>3, TierChanges DEF IInv
<1>5. a \in Actors /\ Then(a, invalidateEvent(e, {}))
  BY DEF CreateTier, Actors
<1> QED
  BY <1>2, <1>4, <1>5, CommitKeepsIInv

LEMMA UpdateTierKeepsIInv ==
    ASSUME IInv, NEW a \in Organisers, UpdateTier(a)
    PROVE  IInv'
<1> DEFINE e == admin[a].event
<1>1. a \in Actors /\ e \in Events
  BY DEF UpdateTier, Actors, IInv, AdminOK, DoingOK
<1>2. PICK s \in TierStatuses : /\ tier' = [tier EXCEPT ![e] = s]
                                /\ patched' = IF s = tier[e] THEN patched ELSE patched \cup {e}
  BY DEF UpdateTier, TierForm
<1>3. /\ tier[e] # "none"
      /\ changes' \in 0..MaxChanges /\ UNCHANGED <<row, sold, told>> /\ key' = key
      /\ Then(a, invalidateEvent(e, {}))
  BY ChangeBounded DEF UpdateTier, IInv, cacheVars
<1>4. Exists(e)
  BY <1>1, <1>3 DEF IInv, DataInv, TiersOK
<1>5. patched' = IF tier[e] \in {"none", s} THEN patched ELSE patched \cup {e}
  BY <1>2, <1>3
<1> HIDE DEF e
<1>6. DataInv' /\ \A d \in Events : HadTier(d) => HadTier(d)'
  BY <1>1, <1>2, <1>3, <1>4, <1>5, TierChanges DEF IInv
<1> QED
  BY <1>1, <1>3, <1>6, CommitKeepsIInv

LEMMA FormsKeepIInv ==
    ASSUME IInv, NEW a \in Organisers, NEW e \in Events,
           EditEvent(a, e) \/ TierEditor(a, e) \/ setTierSalesClosed(a, e)
             \/ archiveEvent(a, e) \/ unarchiveEvent(a, e) \/ deleteEvent(a, e)
    PROVE  IInv'
<1>1. a \in Actors /\ key' = key /\ UNCHANGED dataVars
  BY DEF Actors, EditEvent, TierEditor, setTierSalesClosed, archiveEvent, unarchiveEvent,
         deleteEvent, Retire, cacheVars
<1>2. /\ admin[a] = Doing(admin[a].pc, admin[a].event, admin[a].seen, admin[a].drops)
      /\ admin = [b \in Actors |-> admin[b]]
  BY <1>1 DEF IInv, AdminOK, DoingOK
<1>3. ASSUME NEW pc, NEW seen,
             admin' = [admin EXCEPT ![a] = [@ EXCEPT !.pc = pc, !.event = e, !.seen = seen]]
      PROVE  admin' = [admin EXCEPT ![a] = Doing(pc, e, seen, admin[a].drops)]
  <2> DEFINE x == admin[a]
  <2>0. x = Doing(admin[a].pc, admin[a].event, admin[a].seen, admin[a].drops)
    BY <1>2
  <2>2. admin' = [admin EXCEPT ![a] = TurnWith(x, pc, e, seen)]
    BY <1>3 DEF TurnWith
  <2> HIDE DEF x
  <2>1. TurnWith(x, pc, e, seen) = Doing(pc, e, seen, admin[a].drops)
    BY <2>0, Turning
  <2> QED
    BY <2>1, <2>2
<1>4. CASE EditEvent(a, e)
  <2>1. admin' = [admin EXCEPT ![a] = Doing("event form", e, row[e], admin[a].drops)]
    BY <1>3, <1>4 DEF EditEvent
  <2> QED
    BY <1>1, <2>1, Doings, TurnKeepsIInv
<1>5. CASE TierEditor(a, e)
  <2>1. admin' = [admin EXCEPT ![a] = Doing("tier form", e, admin[a].seen, admin[a].drops)]
    <3> DEFINE x == admin[a]
               pc == "tier form"
    <3>1. x = Doing(admin[a].pc, admin[a].event, admin[a].seen, admin[a].drops)
      BY <1>2
    <3>2. admin' = [admin EXCEPT ![a] = TurnAt(x, pc, e)]
      BY <1>5 DEF TierEditor, TurnAt
    <3> HIDE DEF x, pc
    <3>3. TurnAt(x, pc, e) = Doing(pc, e, admin[a].seen, admin[a].drops)
      BY <3>1, Turning
    <3> QED
      BY <3>2, <3>3 DEF pc
  <2> QED
    BY <1>1, <2>1, Doings, TurnKeepsIInv
<1>6. CASE setTierSalesClosed(a, e)
  <2>1. PICK next \in Sales :
          admin' = [admin EXCEPT ![a] = [@ EXCEPT !.pc = "sales", !.event = e, !.seen = next]]
    BY <1>6 DEF setTierSalesClosed, Sales
  <2>2. admin' = [admin EXCEPT ![a] = Doing("sales", e, next, admin[a].drops)]
    BY <1>3, <2>1
  <2>3. e \in Had
    BY <1>6 DEF setTierSalesClosed, Had, HadTier
  <2> QED
    BY <1>1, <2>2, <2>3, Doings, TurnKeepsIInv
<1>7. CASE archiveEvent(a, e) \/ unarchiveEvent(a, e) \/ deleteEvent(a, e)
  <2>1. PICK seen \in Moods :
          admin' = [admin EXCEPT ![a] = Doing("retire", e, seen, invalidateEvent(e, {row[e].slug}))]
    BY <1>7 DEF archiveEvent, unarchiveEvent, deleteEvent, Retire, Moods, Doing
  <2> QED
    BY <1>1, <2>1, Doings, TurnKeepsIInv
<1> QED
  BY <1>4, <1>5, <1>6, <1>7

EditRow(r, st, slug, start, end) ==
    [r EXCEPT !.status = st, !.slug = slug, !.start = start, !.end = end]

LEMMA RowEdited ==
    ASSUME NEW r \in Row, NEW st \in Statuses, NEW slug \in Slugs,
           NEW start \in {"past", "future"}, NEW end \in {"open", "past", "future"}
    PROVE  /\ EditRow(r, st, slug, start, end) \in Row
           /\ EditRow(r, st, slug, start, end).status = st
<1> DEFINE r1 == [r EXCEPT !.status = st]
<1>1. r1 \in Row /\ r1.status = st
  BY DEF Row
<1> HIDE DEF r1
<1> DEFINE r2 == [r1 EXCEPT !.slug = slug]
<1>2. r2 \in Row /\ r2.status = st
  BY <1>1 DEF Row
<1> HIDE DEF r2
<1> DEFINE r3 == [r2 EXCEPT !.start = start]
<1>3. r3 \in Row /\ r3.status = st
  BY <1>2 DEF Row
<1> HIDE DEF r3
<1> DEFINE r4 == [r3 EXCEPT !.end = end]
<1>4. r4 \in Row /\ r4.status = st
  BY <1>3 DEF Row
<1>5. EditRow(r, st, slug, start, end) = r4
  BY DEF EditRow, r1, r2, r3
<1> HIDE DEF r4
<1> QED
  BY <1>4, <1>5

LEMMA UpdateEventKeepsIInv ==
    ASSUME IInv, NEW a \in Organisers, UpdateEvent(a)
    PROVE  IInv'
<1> DEFINE e == admin[a].event
<1>1. a \in Actors /\ e \in Events /\ Exists(e)
  BY DEF UpdateEvent, Actors, IInv, AdminOK, DoingOK
<1>2. PICK form :
        LET body == handleSubmit(form)
        IN  /\ body \in eventBody
            /\ row' = [row EXCEPT ![e].status = body.status, ![e].slug = body.slug,
                                  ![e].start = body.start,
                                  ![e].end = IF body.end = "open" THEN @ ELSE body.end]
            /\ admin' = [admin EXCEPT ![a] =
                 [pc |-> "committed", event |-> e, seen |-> form,
                  drops |-> invalidateEvent(e, {body.slug})]]
  BY DEF UpdateEvent
<1> DEFINE body == handleSubmit(form)
           end == IF body.end = "open" THEN row[e].end ELSE body.end
<1>3. /\ body.status \in Statuses /\ body.slug \in Slugs
      /\ body.start \in {"past", "future"} /\ body.end \in {"open", "past", "future"}
  BY <1>2 DEF eventBody, eventFields
<1>4. row[e] \in Row /\ row[e].status # "deleted" /\ row \in [Events -> Row]
  BY <1>1 DEF IInv, DataInv, RowsOK, Exists
<1>5. end \in {"open", "past", "future"}
  BY <1>3, <1>4, RowFields
<1> DEFINE r == EditRow(row[e], body.status, body.slug, body.start, end)
<1>6. row' = [row EXCEPT ![e] = r]
  BY <1>1, <1>2, <1>4 DEF EditRow
<1>7. r \in Row /\ r.status \notin {"none", "deleted"}
  <2> DEFINE st == body.status
             slug == body.slug
             start == body.start
             was == row[e]
             Starts == {"past", "future"}
             Ends == {"open", "past", "future"}
  <2>1. was \in Row /\ st \in Statuses /\ slug \in Slugs /\ start \in Starts /\ end \in Ends
    BY <1>3, <1>4, <1>5
  <2>2. \A r0 \in Row, s0 \in Statuses, g0 \in Slugs, t0 \in Starts, n0 \in Ends :
          /\ EditRow(r0, s0, g0, t0, n0) \in Row
          /\ EditRow(r0, s0, g0, t0, n0).status = s0
    BY RowEdited
  <2> HIDE DEF st, slug, start, was, Starts, Ends, end
  <2>3. /\ EditRow(was, st, slug, start, end) \in Row
        /\ EditRow(was, st, slug, start, end).status = st
    BY <2>1, <2>2, Zenon
  <2>4. st \notin {"none", "deleted"}
    BY <2>1, ExistingStatus
  <2> QED
    BY <2>3, <2>4 DEF st, slug, start, was
<1>8. changes' \in 0..MaxChanges /\ UNCHANGED <<tier, sold, told, patched>> /\ key' = key
  BY ChangeBounded DEF UpdateEvent, IInv, cacheVars
<1> DEFINE x == Doing("committed", e, form, invalidateEvent(e, {body.slug}))
<1>9. admin' = [admin EXCEPT ![a] = x]
  BY <1>2 DEF Doing
<1> HIDE DEF body, end, r, e
<1>10. DataInv' /\ \A d \in Events : HadTier(d) => HadTier(d)'
  BY <1>1, <1>4, <1>6, <1>7, <1>8, RowChanges DEF IInv
<1>11. DoingOK(x, Had')
  BY <1>1, Doings
<1> HIDE DEF x
<1>12. AdminOK'
  BY <1>1, <1>9, <1>10, <1>11, AdminChanges DEF IInv
<1> QED
  BY <1>8, <1>10, <1>12 DEF IInv, cacheKeys, PublicEventList, PastEventList, EventBySlug, EventAvailability

LEMMA LockTierKeepsIInv ==
    ASSUME IInv, NEW a \in Organisers, LockTier(a)
    PROVE  IInv'
<1> DEFINE x == admin[a]
           q == "updated"
<1>1. /\ x = Doing(x.pc, x.event, x.seen, x.drops) /\ x.event \in Events
      /\ x.seen \in Sales /\ x.event \in Had
      /\ a \in Actors /\ admin = [b \in Actors |-> admin[b]]
  BY DEF LockTier, Actors, IInv, AdminOK, DoingOK
<1>2. admin' = [admin EXCEPT ![a] = TurnTo(x, q)]
  BY <1>1 DEF LockTier, TurnTo
<1>3. DoingOK(Doing(q, x.event, x.seen, x.drops), Had)
  BY <1>1, Doings
<1>4. UNCHANGED dataVars /\ key' = key
  BY DEF LockTier, cacheVars
<1> HIDE DEF x, q
<1>5. TurnTo(x, q) = Doing(q, x.event, x.seen, x.drops)
  BY <1>1, Turning
<1> QED
  BY <1>1, <1>2, <1>3, <1>4, <1>5, TurnKeepsIInv

LEMMA CommitSalesKeepsIInv ==
    ASSUME IInv, NEW a \in Organisers, CommitSales(a)
    PROVE  IInv'
<1> DEFINE e == admin[a].event
           x == admin[a].seen
<1>1. a \in Actors /\ e \in Events /\ x \in Sales /\ HadTier(e)
  BY DEF CommitSales, Actors, IInv, AdminOK, DoingOK, Had
<1>2. /\ tier' = IF tier[e] = "none" THEN tier ELSE [tier EXCEPT ![e] = x]
      /\ Tell("tier", e, x) /\ patched' = patched \ {e}
      /\ Then(a, invalidateEvent(e, {}))
      /\ changes' \in 0..MaxChanges /\ UNCHANGED <<row, sold>> /\ key' = key
  BY ChangeBounded DEF CommitSales, IInv, cacheVars
<1> HIDE DEF e, x
<1>3. DataInv' /\ \A d \in Events : HadTier(d) => HadTier(d)'
  BY <1>1, <1>2, SalesChange DEF IInv
<1> QED
  BY <1>1, <1>2, <1>3, CommitKeepsIInv

LEMMA CommitArchiveKeepsIInv ==
    ASSUME IInv, NEW a \in Organisers, CommitArchive(a)
    PROVE  IInv'
<1> DEFINE e == admin[a].event
           x == admin[a].seen
<1>1. a \in Actors /\ e \in Events /\ x \in Moods \ {"deleted"}
  BY DEF CommitArchive, Actors, IInv, AdminOK, DoingOK
<1>2. /\ row' = IF Exists(e) THEN [row EXCEPT ![e].archived = (x = "archived")] ELSE row
      /\ Tell("event", e, x) /\ Then(a, admin[a].drops)
      /\ changes' \in 0..MaxChanges /\ UNCHANGED <<tier, sold, patched>> /\ key' = key
  BY ChangeBounded DEF CommitArchive, IInv, cacheVars
<1>3. row \in [Events -> Row]
  BY DEF IInv, DataInv, RowsOK
<1> DEFINE y == x = "archived"
           r == [row[e] EXCEPT !.archived = y]
<1>4. r \in Row /\ r.status = row[e].status
  BY <1>1, <1>3, RowWith
<1>5. row' = IF Exists(e) THEN [row EXCEPT ![e] = r] ELSE row
  BY <1>2
<1> HIDE DEF r, e, x
<1>6. row' \in [Events -> Row] /\ \A d \in Events : row'[d].status = row[d].status
  BY <1>3, <1>4, <1>5
<1>7. DataInv' /\ \A d \in Events : HadTier(d) => HadTier(d)'
  BY <1>1, <1>2, <1>6, EventTold DEF IInv
<1> QED
  BY <1>1, <1>2, <1>7, CommitKeepsIInv

LEMMA CommitDeleteKeepsIInv ==
    ASSUME IInv, NEW a \in Organisers, CommitDelete(a)
    PROVE  IInv'
<1> DEFINE e == admin[a].event
<1>1. a \in Actors /\ e \in Events
  BY DEF CommitDelete, Actors, IInv, AdminOK, DoingOK
<1>2. /\ row' = [row EXCEPT ![e].status = "deleted"] /\ tier' = [tier EXCEPT ![e] = "none"]
      /\ Tell("event", e, "deleted") /\ Then(a, admin[a].drops) /\ e \notin sold
      /\ changes' \in 0..MaxChanges /\ UNCHANGED <<sold, patched>> /\ key' = key
  BY ChangeBounded DEF CommitDelete, IInv, cacheVars
<1> HIDE DEF e
<1>3. DataInv' /\ \A d \in Events : HadTier(d) => HadTier(d)'
  BY <1>1, <1>2, EventGoes DEF IInv
<1> QED
  BY <1>1, <1>2, <1>3, CommitKeepsIInv

LEMMA LeavingKeepsIInv ==
    ASSUME IInv, NEW a \in Organisers, CancelForm(a) \/ RollBack(a)
    PROVE  IInv'
<1>1. a \in Actors /\ Done(a) /\ UNCHANGED dataVars /\ key' = key
  BY DEF Actors, CancelForm, RollBack, cacheVars
<1> QED
  BY <1>1, Doings, TurnKeepsIInv DEF Done

\* An archived event, by hand or by the sweep.
LEMMA PastArchived ==
    ASSUME IInv, NEW e \in Events, archivePastEvents(e)
    PROVE  /\ DataInv' /\ \A d \in Events : HadTier(d) => HadTier(d)'
           /\ key' = key
<1>1. /\ row' = [row EXCEPT ![e].archived = TRUE] /\ Exists(e)
      /\ changes' \in 0..MaxChanges /\ UNCHANGED <<tier, sold, told, patched>> /\ key' = key
  BY ChangeBounded DEF archivePastEvents, IInv, cacheVars
<1> DEFINE r == [row[e] EXCEPT !.archived = TRUE]
<1>2. r \in Row /\ r.status = row[e].status
  BY RowWith DEF IInv, DataInv, RowsOK
<1>3. row' = [row EXCEPT ![e] = r]
  BY <1>1
<1> HIDE DEF r
<1>4. r.status \notin {"none", "deleted"} /\ row[e].status # "deleted"
  BY <1>1, <1>2 DEF Exists
<1> QED
  BY <1>1, <1>2, <1>3, <1>4, RowChanges DEF IInv

LEMMA ArchivePastKeepsIInv ==
    ASSUME IInv, NEW a \in Organisers, NEW e \in Events, archivePast(a, e)
    PROVE  IInv'
<1>1. a \in Actors /\ archivePastEvents(e) /\ Then(a, invalidateEvent(e, {row[e].slug}))
  BY DEF Actors, archivePast
<1> QED
  BY <1>1, PastArchived, CommitKeepsIInv

LEMMA SweepKeepsIInv ==
    ASSUME IInv, NEW e \in Events, archive(e)
    PROVE  IInv'
<1> DEFINE keys == {PublicEventList, PastEventList, EventBySlug(row[e].slug)}
<1>1. archivePastEvents(e) /\ admin' = [admin EXCEPT ![Maintenance] = Doing("swept", e, None, keys)]
  BY DEF archive, Doing
<1>2. DoingOK(Doing("swept", e, None, keys), Had')
  BY Doings
<1>3. Maintenance \in Actors
  BY DEF Actors
<1> HIDE DEF keys
<1>4. DataInv' /\ key' = key /\ \A d \in Events : HadTier(d) => HadTier(d)'
  BY <1>1, PastArchived
<1>5. AdminOK'
  BY <1>1, <1>2, <1>3, <1>4, AdminChanges DEF IInv
<1> QED
  BY <1>4, <1>5 DEF IInv, cacheKeys, PublicEventList, PastEventList, EventBySlug, EventAvailability

LEMMA RecordArchivedKeepsIInv ==
    ASSUME IInv, recordArchived
    PROVE  IInv'
<1> DEFINE e == admin[Maintenance].event
           keys == admin[Maintenance].drops
<1>1. Maintenance \in Actors
  BY DEF Actors
<1>2. e \in Events
  BY <1>1 DEF recordArchived, IInv, AdminOK, DoingOK
<1>3. UNCHANGED <<row, tier, sold, patched, changes>> /\ key' = key
  BY DEF recordArchived, cacheVars
<1>4. CASE Tell("event", e, "archived") /\ Then(Maintenance, keys)
  <2>1. /\ row' \in [Events -> Row] /\ changes' \in 0..MaxChanges
        /\ \A d \in Events : row'[d].status = row[d].status
    BY <1>3 DEF IInv, DataInv, RowsOK
  <2>2. "archived" \in Moods \ {"deleted"}
    BY DEF Moods
  <2> HIDE DEF e, keys
  <2>3. DataInv' /\ \A d \in Events : HadTier(d) => HadTier(d)'
    BY <1>2, <1>3, <1>4, <2>1, <2>2, EventTold DEF IInv
  <2> QED
    BY <1>1, <1>3, <1>4, <2>3, CommitKeepsIInv
<1>5. CASE Done(Maintenance) /\ UNCHANGED told
  BY <1>1, <1>3, <1>5, Doings, TurnKeepsIInv DEF Done, dataVars
<1> QED
  BY <1>4, <1>5 DEF recordArchived

LEMMA CacheDeleteKeepsIInv ==
    ASSUME IInv, NEW a \in Actors, cacheDelete(a)
    PROVE  IInv'
<1>1. UNCHANGED dataVars /\ key' = key
  BY DEF cacheDelete
<1>2. CASE Done(a)
  BY <1>1, <1>2, Doings, TurnKeepsIInv DEF Done
<1>3. CASE adminFetchFails(a)
  <2> DEFINE x == admin[a]
             q == "event form"
             none == {}
  <2>1. /\ x = Doing(x.pc, x.event, x.seen, x.drops) /\ x.event \in Events
        /\ admin = [b \in Actors |-> admin[b]]
    BY <1>3 DEF adminFetchFails, IInv, AdminOK, DoingOK
  <2>2. admin' = [admin EXCEPT ![a] = TurnDropping(x, q, none)]
    BY <1>3, <2>1 DEF adminFetchFails, TurnDropping
  <2>3. DoingOK(Doing(q, x.event, x.seen, none), Had)
    BY <2>1, Doings
  <2> HIDE DEF x, q, none
  <2>4. TurnDropping(x, q, none) = Doing(q, x.event, x.seen, none)
    BY <2>1, Turning
  <2> QED
    BY <1>1, <2>2, <2>3, <2>4, TurnKeepsIInv
<1> QED
  BY <1>2, <1>3 DEF cacheDelete

\* Time, buyers and the purge turn nobody to anything.
LEMMA PassKeepsIInv ==
    ASSUME IInv, NEW e \in Events, Pass(e)
    PROVE  IInv'
<1>1. /\ Exists(e) /\ UNCHANGED <<tier, sold, told, patched, changes>>
      /\ admin' = admin /\ key' = key
  BY DEF Pass, cacheVars
<1>2. row[e] \in Row /\ changes' \in 0..MaxChanges
  BY <1>1 DEF IInv, DataInv, RowsOK
<1>3. PICK r \in Row : row' = [row EXCEPT ![e] = r] /\ r.status = row[e].status
  <2> DEFINE r1 == [row[e] EXCEPT !.start = "past"]
             r2 == [row[e] EXCEPT !.end = "past"]
  <2>1. row' = [row EXCEPT ![e] = r1] \/ row' = [row EXCEPT ![e] = r2]
    BY DEF Pass
  <2>2. r1 \in Row /\ r1.status = row[e].status /\ r2 \in Row /\ r2.status = row[e].status
    BY <1>2, RowWith
  <2> HIDE DEF r1, r2
  <2> QED
    BY <2>1, <2>2
<1>4. r.status \notin {"none", "deleted"} /\ row[e].status # "deleted"
  BY <1>1, <1>3 DEF Exists
<1>5. DataInv' /\ \A d \in Events : HadTier(d) => HadTier(d)'
  BY <1>1, <1>2, <1>3, <1>4, RowChanges DEF IInv
<1>6. AdminOK'
  BY <1>1, <1>5, AdminStays DEF IInv
<1> QED
  BY <1>1, <1>5, <1>6 DEF IInv, cacheKeys, PublicEventList, PastEventList, EventBySlug, EventAvailability

LEMMA OrdersKeepIInv ==
    ASSUME IInv, NEW e \in Events, OrderPlaced(e) \/ purgeAbandonedOrders(e)
    PROVE  IInv'
<1>1. /\ UNCHANGED <<row, tier, told, patched, changes>> /\ admin' = admin /\ key' = key
      /\ sold' = sold \ {e} \/ (Exists(e) /\ sold' = sold \cup {e})
  BY DEF OrderPlaced, purgeAbandonedOrders, cacheVars
<1>2. DataInv' /\ \A d \in Events : HadTier(d) => HadTier(d)'
  BY <1>1, SoldChanges DEF IInv
<1>3. AdminOK'
  BY <1>1, <1>2, AdminStays DEF IInv
<1> QED
  BY <1>1, <1>2, <1>3 DEF IInv, cacheKeys, PublicEventList, PastEventList, EventBySlug, EventAvailability

LEMMA CacheKeepsIInv ==
    ASSUME IInv, UNCHANGED <<dataVars, admin, key>>
    PROVE  IInv'
<1>1. DataInv' /\ \A d \in Events : HadTier(d) => HadTier(d)'
  BY DataUnchanged DEF IInv
<1>2. AdminOK'
  BY <1>1, AdminStays DEF IInv
<1> QED
  BY <1>1, <1>2 DEF IInv, cacheKeys, PublicEventList, PastEventList, EventBySlug, EventAvailability

LEMMA NextKeepsIInv == IInv /\ [Next]_vars => IInv'
<1> SUFFICES ASSUME IInv, [Next]_vars PROVE IInv'
  OBVIOUS
<1>1. ASSUME NEW a \in Organisers, NEW e \in Events, OrganiserStep(a, e) PROVE IInv'
  BY <1>1, CreateEventKeepsIInv, CreateTierKeepsIInv, FormsKeepIInv, ArchivePastKeepsIInv
     DEF OrganiserStep
<1>2. ASSUME NEW a \in Organisers, Commits(a) PROVE IInv'
  BY <1>2, UpdateEventKeepsIInv, UpdateTierKeepsIInv, LeavingKeepsIInv, LockTierKeepsIInv,
     CommitSalesKeepsIInv, CommitArchiveKeepsIInv, CommitDeleteKeepsIInv DEF Commits
<1>3. ASSUME NEW a \in Actors, cacheDelete(a) PROVE IInv'
  BY <1>3, CacheDeleteKeepsIInv
<1>4. CASE recordArchived
  BY <1>4, RecordArchivedKeepsIInv
<1>5. ASSUME NEW e \in Events, archive(e) \/ Pass(e) \/ OrderPlaced(e) \/ purgeAbandonedOrders(e)
      PROVE  IInv'
  BY <1>5, SweepKeepsIInv, PassKeepsIInv, OrdersKeepIInv
<1>6. ASSUME NEW c \in Containers, Load(c) \/ cacheSet(c) \/ cacheSetFails(c) PROVE IInv'
  <2>1. UNCHANGED <<dataVars, admin, key>>
    BY <1>6 DEF Load, cacheSet, cacheSetFails
  <2> QED
    BY <2>1, CacheKeepsIInv
<1>7. CASE Expire
  BY <1>7, CacheKeepsIInv DEF Expire
<1>8. CASE UNCHANGED vars
  BY <1>8, CacheKeepsIInv DEF vars, cacheVars
<1> QED
  BY <1>1, <1>2, <1>3, <1>4, <1>5, <1>6, <1>7, <1>8 DEF Next

LEMMA InitIInv == Init => IInv
<1> SUFFICES ASSUME Init PROVE IInv
  OBVIOUS
<1>1. row \in [Events -> Row] /\ \A e \in Events : row[e].status \in {"none", "published"}
  <2> DEFINE R == {NoRow} \cup
                    [status : {"published"}, slug : Slugs, start : {"past", "future"},
                     end : {"open", "past", "future"}, archived : {FALSE}]
  <2>1. \A r \in R : r \in Row /\ r.status \in {"none", "published"}
    <3> SUFFICES ASSUME NEW r \in R PROVE r \in Row /\ r.status \in {"none", "published"}
      OBVIOUS
    <3>1. CASE r = NoRow
      BY <3>1 DEF NoRow, Row
    <3>2. CASE r \in [status : {"published"}, slug : Slugs, start : {"past", "future"},
                      end : {"open", "past", "future"}, archived : {FALSE}]
      BY <3>2, StatusesAssumption DEF Row
    <3> QED
      BY <3>1, <3>2
  <2>2. row \in [Events -> R]
    BY DEF Init
  <2> HIDE DEF R
  <2> QED
    BY <2>1, <2>2
<1>2. RowsOK
  BY <1>1, MaxChangesAssumption DEF Init, RowsOK
<1>3. TiersOK
  BY StatusesAssumption DEF Init, TiersOK
<1>4. ToldOK
  <2>1. \A e \in Events : told[e] = [event |-> <<>>, tier |-> <<>>]
    BY DEF Init
  <2>2. \A e \in Events : told[e].event = <<>> /\ told[e].tier = <<>>
    BY <2>1
  <2>3. told = [e \in Events |-> [event |-> told[e].event, tier |-> told[e].tier]]
    BY <2>2 DEF Init
  <2>4. \A S : <<>> \in Seq(S)
    BY EmptySeq
  <2> QED
    BY <2>2, <2>3, <2>4 DEF ToldOK
<1>5. SalesAsTold
  BY DEF Init, SalesAsTold
<1>6. NothingOrphaned
  <2>1. \A e \in Events : told[e].event = <<>>
    BY DEF Init
  <2>2. DOMAIN <<>> = {}
    OBVIOUS
  <2> QED
    BY <1>1, <2>1, <2>2 DEF Init, NothingOrphaned
<1>7. AdminOK
  <2>1. admin = [a \in Actors |-> Nothing]
    BY DEF Init
  <2>2. DoingOK(Nothing, Had)
    BY Doings
  <2> HIDE DEF Nothing
  <2> QED
    BY <2>1, <2>2 DEF AdminOK
<1> QED
  BY <1>2, <1>3, <1>4, <1>5, <1>6, <1>7, WatchedAreKeys DEF IInv, DataInv, Init

-----------------------------------------------------------------------------
THEOREM IInvInvariant == Spec => []IInv
<1>1. Init => IInv
  BY InitIInv
<1>2. IInv /\ [Next]_vars => IInv'
  BY NextKeepsIInv
<1> QED
  BY <1>1, <1>2, PTL DEF Spec

\* Rows, tiers and the ledger are what their columns allow, whatever the
\* dashboards and the sweep do.
THEOREM CatalogueTypeCorrect == Spec => []TypeOK
<1>1. IInv => TypeOK
  BY DEF IInv, DataInv, RowsOK, TiersOK, TypeOK, Row
<1> QED
  BY <1>1, IInvInvariant, PTL

\* However closings and reopenings race, roll back, or find their tier gone,
\* the last the ledger says of a tier is what buyers meet, until a PATCH.
THEOREM SalesTold == Spec => []SalesAsTold
<1>1. IInv => SalesAsTold
  BY DEF IInv, DataInv
<1> QED
  BY <1>1, IInvInvariant, PTL

\* A delete that had counted no orders leaves none without its event, and
\* the ledger tells of every deletion and of no other.
THEOREM NoOrderOrphaned == Spec => []NothingOrphaned
<1>1. IInv => NothingOrphaned
  BY DEF IInv, DataInv
<1> QED
  BY <1>1, IInvInvariant, PTL

-----------------------------------------------------------------------------
(* The purge. *)

\* Who has a payment has been charged, who paid has a payment, and who is old is
\* past its checkout; so is who is gone, and no payment is left of it.
CheckoutOver ==
    \A o \in Orders : /\ payment[o] # "none" => request[o] = "done"
                      /\ order[o].status = "paid" => payment[o] # "none"
                      /\ o \in old => request[o] = "done"
                      /\ order[o].status = "gone" => request[o] = "done" /\ payment[o] = "none"

\* What was true of a candidate when it was read is still true when it is deleted.
StillDead ==
    job.pc = "delete" =>
        \A o \in job.left : /\ order[o].status \in PURGEABLE
                            /\ request[o] = "done" /\ payment[o] = "none"

\* What is left to tell of is gone, and nothing has been told of it.
LeftToTell ==
    job.pc = "record" => \A o \in job.left : order[o].status = "gone" /\ trail[o] = 0

\* The ledger tells of no order that is there, and of none twice.
ToldOnce == \A o \in Orders : trail[o] <= 1 /\ (trail[o] = 1 => order[o].status = "gone")

\* A pass is about Limit orders at most, and each failure left so many untold at most.
PassBounded == Cardinality(job.left) <= Limit /\ Cardinality(Untold) <= faults * Limit

PurgeRows == PurgeTypeOK /\ ToldOnce /\ CheckoutOver /\ StillDead /\ LeftToTell

PurgeIInv == PurgeRows /\ PassBounded

LEMMA InitPurgeRows == PurgeInit => PurgeRows
  BY MaxFaultsAssumption DEF PurgeInit, PurgeRows, PurgeTypeOK, ToldOnce, CheckoutOver,
     StillDead, LeftToTell, NoOrder, Resting, PURGEABLE

\* They change nothing about who is gone.
LEMMA GoneStaysGone ==
    ASSUME PurgeRows, NEW o \in Orders,
           \/ Reserve(o) \/ RecordPayment(o) \/ ChargeFails(o) \/ releaseOrder(o)
           \/ applySettlement(o) \/ issueTickets(o) \/ Age(o)
    PROVE  PurgeTypeOK' /\ \A q \in Orders : order[q].status = "gone" <=> order'[q].status = "gone"
<1> USE DEF PurgeRows, PURGEABLE, PurgeTypeOK, jobVars, checkoutVars
<1>1. CASE Reserve(o)
  BY <1>1 DEF Reserve, CheckoutOver
<1>2. CASE RecordPayment(o)
  BY <1>2 DEF RecordPayment
<1>3. CASE ChargeFails(o)
  <2>1. CASE isHoldingInventory(order[o]) /\ Released(o, "failed")
    BY <1>3, <2>1 DEF ChargeFails, Released, isHoldingInventory
  <2>2. CASE UNCHANGED order
    BY <1>3, <2>2 DEF ChargeFails
  <2> QED
    BY <1>3, <2>1, <2>2 DEF ChargeFails, Released
<1>4. CASE releaseOrder(o)
  BY <1>4 DEF releaseOrder, Released, isHoldingInventory
<1>5. CASE applySettlement(o)
  <2>1. payment[o] = "pending" /\ payment' = [payment EXCEPT ![o] = "over"]
        /\ UNCHANGED <<request, ticketed, old>>
    BY <1>5 DEF applySettlement
  <2>2. order[o].status # "gone" /\ payment' \in [Orders -> {"none", "pending", "over"}]
        /\ UNCHANGED jobVars
    BY <1>5, <2>1 DEF applySettlement, CheckoutOver
  <2>3. CASE isHoldingInventory(order[o])
             /\ order' = [order EXCEPT ![o] = [status |-> "failed", released |-> TRUE]]
    BY <2>1, <2>2, <2>3
  <2>4. CASE UNCHANGED order
    BY <2>1, <2>2, <2>4
  <2>5. CASE order' = [order EXCEPT ![o] = [status |-> "paid", released |-> FALSE]]
    BY <2>1, <2>2, <2>5
  <2> QED
    BY <1>5, <2>3, <2>4, <2>5 DEF applySettlement, Released
<1>6. CASE issueTickets(o)
  BY <1>6 DEF issueTickets
<1>7. CASE Age(o)
  BY <1>7 DEF Age
<1> QED
  BY <1>1, <1>2, <1>3, <1>4, <1>5, <1>6, <1>7

\* Nobody but the job changes an order that the job is to delete.
LEMMA OthersKeepPurgeRows ==
    ASSUME PurgeRows, NEW o \in Orders,
           \/ Reserve(o) \/ RecordPayment(o) \/ ChargeFails(o) \/ releaseOrder(o)
           \/ applySettlement(o) \/ issueTickets(o) \/ Age(o)
    PROVE  PurgeRows'
<1> USE DEF PurgeRows, PURGEABLE
<1>1. UNCHANGED jobVars
  BY DEF Reserve, RecordPayment, ChargeFails, releaseOrder, applySettlement, issueTickets, Age
<1>2. PurgeTypeOK' /\ \A q \in Orders : order[q].status = "gone" <=> order'[q].status = "gone"
  BY GoneStaysGone
<1>3. CheckoutOver'
  BY DEF PurgeTypeOK, checkoutVars, Reserve, RecordPayment, ChargeFails, releaseOrder, CheckoutOver,
     applySettlement, issueTickets, Age, Released, isHoldingInventory
<1>4. StillDead'
  BY <1>1 DEF PurgeTypeOK, jobVars, checkoutVars, Reserve, RecordPayment, ChargeFails, releaseOrder,
     applySettlement, issueTickets, Age, Released, isHoldingInventory, StillDead
<1>5. ToldOnce' /\ LeftToTell'
  BY <1>1, <1>2 DEF jobVars, ToldOnce, LeftToTell, PurgeTypeOK
<1> QED
  BY <1>2, <1>3, <1>4, <1>5

LEMMA SelectKeepsPurgeRows ==
    ASSUME PurgeRows, Select
    PROVE  PurgeRows'
<1>1. PICK ids \in limited(candidates) : job' = [pc |-> "delete", left |-> ids]
  BY DEF Select
<1>2. ids \subseteq candidates /\ ids # {}
  <2>1. Cardinality({}) = 0
    BY FS_EmptySet
  <2> QED
    BY <1>1, <2>1, LimitAssumption DEF Select, limited
<1>3. \A o \in ids : /\ o \in Orders /\ order[o].status \in PURGEABLE
                     /\ request[o] = "done" /\ payment[o] = "none"
  BY <1>2 DEF candidates, PurgeRows, CheckoutOver
<1>4. UNCHANGED <<order, request, payment, ticketed, old, trail, faults>>
  BY DEF Select, checkoutVars
<1> QED
  BY <1>1, <1>2, <1>3, <1>4 DEF PurgeRows, PurgeTypeOK, ToldOnce, CheckoutOver,
     StillDead, LeftToTell

LEMMA DeleteKeepsPurgeRows ==
    ASSUME PurgeRows, Delete
    PROVE  PurgeRows'
<1> USE DEF PurgeRows, checkoutVars
<1>1. CASE job.left \cap ticketed # {}
  BY <1>1 DEF Delete, Resting, PurgeTypeOK, ToldOnce, CheckoutOver, StillDead, LeftToTell
<1>2. CASE job.left \cap ticketed = {}
  <2>1. /\ order' = [o \in Orders |-> IF o \in job.left THEN [order[o] EXCEPT !.status = "gone"]
                                      ELSE order[o]]
        /\ payment' = [o \in Orders |-> IF o \in job.left THEN "none" ELSE payment[o]]
        /\ job' = [job EXCEPT !.pc = "record"]
        /\ UNCHANGED <<request, ticketed, old, trail, faults>>
    BY <1>2 DEF Delete
  <2>2. \A o \in job.left : trail[o] = 0
    <3>1. \A o \in job.left : o \in Orders /\ order[o].status # "gone" /\ trail[o] \in Nat
      BY DEF Delete, StillDead, PurgeTypeOK, PURGEABLE
    <3>2. \A o \in job.left : trail[o] <= 1 /\ trail[o] # 1
      BY <3>1 DEF ToldOnce
    <3> QED
      BY <3>1, <3>2
  <2>3. \A o \in Orders : order'[o].status = IF o \in job.left THEN "gone" ELSE order[o].status
    BY <2>1 DEF PurgeTypeOK
  <2>4. job'.pc = "record" /\ job'.left = job.left
    BY <2>1 DEF PurgeTypeOK
  <2>5. PurgeTypeOK'
    BY <2>1, <2>4 DEF PurgeTypeOK, Delete
  <2>6. ToldOnce' /\ CheckoutOver' /\ StillDead' /\ LeftToTell'
    BY <2>1, <2>2, <2>3, <2>4 DEF PurgeTypeOK, ToldOnce, CheckoutOver, StillDead, LeftToTell
  <2> QED
    BY <2>5, <2>6
<1> QED
  BY <1>1, <1>2

LEMMA RecordKeepsPurgeRows ==
    ASSUME PurgeRows, recordStandaloneTransition
    PROVE  PurgeRows'
<1> USE DEF PurgeRows, checkoutVars
<1>1. PICK o \in job.left :
        /\ trail' = [trail EXCEPT ![o] = @ + 1]
        /\ job' = IF job.left = {o} THEN Resting ELSE [job EXCEPT !.left = @ \ {o}]
  BY DEF recordStandaloneTransition
<1>2. o \in Orders /\ trail[o] = 0 /\ order[o].status = "gone" /\ job.pc = "record"
  BY <1>1 DEF recordStandaloneTransition, LeftToTell, PurgeTypeOK
<1>3. UNCHANGED <<order, request, payment, ticketed, old, faults>>
  BY DEF recordStandaloneTransition
<1>4. PurgeTypeOK'
  BY <1>1, <1>2, <1>3 DEF PurgeTypeOK, Resting
<1>5. ToldOnce' /\ LeftToTell'
  BY <1>1, <1>2, <1>3 DEF ToldOnce, LeftToTell, PurgeTypeOK, Resting
<1>6. CheckoutOver' /\ StillDead'
  BY <1>1, <1>2, <1>3 DEF CheckoutOver, StillDead, PurgeTypeOK, Resting
<1> QED
  BY <1>4, <1>5, <1>6

LEMMA PurgeNextKeepsRows ==
    ASSUME PurgeRows, [PurgeNext]_purgeVars
    PROVE  PurgeRows'
<1>1. ASSUME NEW o \in Orders,
             \/ Reserve(o) \/ RecordPayment(o) \/ ChargeFails(o) \/ releaseOrder(o)
             \/ applySettlement(o) \/ issueTickets(o) \/ Age(o)
      PROVE  PurgeRows'
  BY <1>1, OthersKeepPurgeRows
<1>2. ASSUME PurgeRun PROVE PurgeRows'
  BY <1>2, SelectKeepsPurgeRows, DeleteKeepsPurgeRows, RecordKeepsPurgeRows DEF PurgeRun
<1>3. ASSUME JobFails PROVE PurgeRows'
  BY <1>3, MaxFaultsAssumption DEF JobFails, PurgeRows, PurgeTypeOK, ToldOnce, CheckoutOver,
     StillDead, LeftToTell, Resting, checkoutVars
<1>4. ASSUME UNCHANGED purgeVars PROVE PurgeRows'
  BY <1>4 DEF purgeVars, checkoutVars, PurgeRows, PurgeTypeOK, ToldOnce, CheckoutOver,
     StillDead, LeftToTell, candidates
<1> QED
  BY <1>1, <1>2, <1>3, <1>4 DEF PurgeNext

LEMMA PassesAreFinite ==
    ASSUME PurgeRows
    PROVE  /\ IsFiniteSet(Untold) /\ Cardinality(Untold) \in Nat
           /\ IsFiniteSet(job.left) /\ Cardinality(job.left) \in Nat
<1>1. Untold \in SUBSET Orders /\ job.left \in SUBSET Orders
  BY DEF Untold, PurgeRows, PurgeTypeOK
<1> QED
  BY <1>1, OrdersAreFinite, FS_Subset, FS_CardinalityType

\* The passes of one failure more leave the orders of one pass more untold.
LEMMA PassesStayBounded ==
    ASSUME PurgeIInv, [PurgeNext]_purgeVars, PurgeRows'
    PROVE  PassBounded'
<1> USE DEF PurgeIInv
<1>1. ASSUME NEW o \in Orders,
             \/ Reserve(o) \/ RecordPayment(o) \/ ChargeFails(o) \/ releaseOrder(o)
             \/ applySettlement(o) \/ issueTickets(o) \/ Age(o)
      PROVE  PassBounded'
  <2>1. UNCHANGED jobVars
    BY <1>1 DEF Reserve, RecordPayment, ChargeFails, releaseOrder, applySettlement, issueTickets, Age
  <2>2. \A q \in Orders : order[q].status = "gone" <=> order'[q].status = "gone"
    BY <1>1, GoneStaysGone
  <2>3. Untold' = Untold
    BY <2>1, <2>2 DEF Untold, jobVars
  <2> QED
    BY <2>1, <2>3 DEF PassBounded, jobVars
<1>2. ASSUME Select PROVE PassBounded'
  <2>1. PICK ids \in limited(candidates) : job' = [pc |-> "delete", left |-> ids]
    BY <1>2 DEF Select
  <2>2. job.pc = "idle" /\ UNCHANGED <<order, trail, faults>>
    BY <1>2 DEF Select, checkoutVars
  <2>3. Untold' = Untold
    BY <2>1, <2>2 DEF Untold
  <2> QED
    BY <2>1, <2>2, <2>3 DEF PassBounded, limited
<1>3. ASSUME Delete PROVE PassBounded'
  <2>1. CASE job.left \cap ticketed # {}
    <3>1. job' = Resting /\ job.pc = "delete" /\ UNCHANGED <<order, trail, faults>>
      BY <1>3, <2>1 DEF Delete
    <3>2. Untold' = Untold
      BY <3>1 DEF Untold, Resting
    <3>3. Cardinality(job'.left) = 0
      BY <3>1, FS_EmptySet DEF Resting
    <3> QED
      BY <3>1, <3>2, <3>3, LimitAssumption DEF PassBounded
  <2>2. CASE job.left \cap ticketed = {}
    <3>1. /\ order' = [o \in Orders |-> IF o \in job.left THEN [order[o] EXCEPT !.status = "gone"]
                                        ELSE order[o]]
          /\ job' = [job EXCEPT !.pc = "record"] /\ job.pc = "delete"
          /\ UNCHANGED <<trail, faults>>
      BY <1>3, <2>2 DEF Delete
    <3>2. job'.pc = "record" /\ job'.left = job.left
      BY <3>1 DEF PurgeRows, PurgeTypeOK
    <3>3. \A o \in Orders \ job.left : order'[o] = order[o]
      BY <3>1
    <3>4. \A o \in job.left : order[o].status # "gone"
      BY <3>1 DEF PurgeRows, StillDead, PURGEABLE
    <3>5. Untold' = Untold
      BY <3>1, <3>2, <3>3, <3>4 DEF Untold
    <3> QED
      BY <3>1, <3>2, <3>5 DEF PassBounded
  <2> QED
    BY <2>1, <2>2
<1>4. ASSUME recordStandaloneTransition PROVE PassBounded'
  <2>1. PICK o \in job.left :
          /\ trail' = [trail EXCEPT ![o] = @ + 1]
          /\ job' = IF job.left = {o} THEN Resting ELSE [job EXCEPT !.left = @ \ {o}]
    BY <1>4 DEF recordStandaloneTransition
  <2>2. job.pc = "record" /\ UNCHANGED <<order, faults>>
    BY <1>4 DEF recordStandaloneTransition, checkoutVars
  <2>3. job'.left = job.left \ {o} /\ (job'.pc = "record" \/ job'.left = {})
    BY <2>1, <2>2 DEF Resting, PurgeRows, PurgeTypeOK
  <2>4. o \in Orders /\ trail'[o] = 1 /\ \A q \in Orders \ {o} : trail'[q] = trail[q]
    BY <2>1, <2>2 DEF PurgeRows, PurgeTypeOK, LeftToTell
  <2>5. Untold' \subseteq Untold
    BY <2>2, <2>3, <2>4 DEF Untold
  <2>6. Cardinality(Untold') <= Cardinality(Untold) /\ Cardinality(job'.left) <= Cardinality(job.left)
    BY <2>3, <2>5, PassesAreFinite, FS_Subset
  <2>7. Cardinality(Untold') \in Nat /\ Cardinality(job'.left) \in Nat
    <3>1. Untold' \in SUBSET Untold /\ job'.left \in SUBSET job.left
      BY <2>3, <2>5
    <3> QED
      BY <3>1, PassesAreFinite, FS_Subset, FS_CardinalityType
  <2> DEFINE most == faults * Limit
  <2>8. most \in Nat /\ faults' * Limit = most
    BY <2>2, LimitAssumption DEF PurgeRows, PurgeTypeOK
  <2>9. Cardinality(Untold) <= most /\ Cardinality(job.left) <= Limit
    BY DEF PassBounded
  <2> HIDE DEF most
  <2> QED
    BY <2>6, <2>7, <2>8, <2>9, PassesAreFinite, LimitAssumption DEF PassBounded
<1>5. ASSUME JobFails PROVE PassBounded'
  <2>1. faults' = faults + 1 /\ job' = Resting /\ UNCHANGED <<order, trail>>
    BY <1>5 DEF JobFails, checkoutVars
  <2>2. Untold' \subseteq Untold \cup job.left
    BY <2>1 DEF Untold, Resting
  <2>3. /\ IsFiniteSet(Untold \cup job.left)
        /\ Cardinality(Untold \cup job.left)
             = Cardinality(Untold) + Cardinality(job.left) - Cardinality(Untold \cap job.left)
    BY PassesAreFinite, FS_Union
  <2>4. Cardinality(Untold \cap job.left) \in Nat
    <3>1. Untold \cap job.left \in SUBSET Untold
      OBVIOUS
    <3> QED
      BY <3>1, PassesAreFinite, FS_Subset, FS_CardinalityType
  <2>5. Cardinality(Untold') <= Cardinality(Untold \cup job.left) /\ Cardinality(Untold') \in Nat
    <3>1. Untold' \in SUBSET (Untold \cup job.left)
      BY <2>2
    <3> QED
      BY <3>1, <2>3, FS_Subset, FS_CardinalityType
  <2>6. Cardinality(Untold') <= Cardinality(Untold) + Cardinality(job.left)
    BY <2>3, <2>4, <2>5, PassesAreFinite
  <2> DEFINE most == faults * Limit
  <2>7. most \in Nat /\ faults' * Limit = most + Limit
    BY <2>1, LimitAssumption DEF PurgeRows, PurgeTypeOK
  <2>8. Cardinality(Untold) <= most /\ Cardinality(job.left) <= Limit
    BY DEF PassBounded
  <2>9. Cardinality(job'.left) = 0
    BY <2>1, FS_EmptySet DEF Resting
  <2> HIDE DEF most
  <2> QED
    BY <2>5, <2>6, <2>7, <2>8, <2>9, PassesAreFinite, LimitAssumption DEF PassBounded
<1>6. ASSUME UNCHANGED purgeVars PROVE PassBounded'
  BY <1>6 DEF purgeVars, checkoutVars, PassBounded, Untold
<1> QED
  BY <1>1, <1>2, <1>3, <1>4, <1>5, <1>6 DEF PurgeNext, PurgeRun

THEOREM PurgeInvariant == PurgeSpec => []PurgeIInv
<1>1. PurgeInit => PurgeIInv
  <2>1. PurgeInit => Untold = {} /\ job.left = {} /\ faults = 0
    BY DEF PurgeInit, Untold, NoOrder, Resting
  <2> QED
    BY <2>1, InitPurgeRows, FS_EmptySet, LimitAssumption DEF PurgeIInv, PassBounded
<1>2. PurgeIInv /\ [PurgeNext]_purgeVars => PurgeIInv'
  BY PurgeNextKeepsRows, PassesStayBounded DEF PurgeIInv
<1> QED
  BY <1>1, <1>2, PTL DEF PurgeSpec

\* Every reachable state of orders, payments and the job that purges is well typed.
THEOREM PurgeTypeCorrect == PurgeSpec => []PurgeTypeOK
<1>1. PurgeIInv => PurgeTypeOK
  BY DEF PurgeIInv, PurgeRows
<1> QED
  BY <1>1, PurgeInvariant, PTL

\* The ledger says of an order that it was purged only when it was, and once, and each
\* failure of the job costs the trail of one pass at most.
THEOREM TrailIsNearlyComplete == PurgeSpec => []RemovalLeavesTrail
<1>1. PurgeIInv => RemovalLeavesTrail
  BY DEF PurgeIInv, PurgeRows, PassBounded, ToldOnce, RemovalLeavesTrail
<1> QED
  BY <1>1, PurgeInvariant, PTL

\* No order that was paid for or has a payment is deleted, though the deletion looks at
\* nothing again: a candidate is past its checkout and stays dead.
THEOREM MoneyLeavesARecord == PurgeSpec => RecordsAreKept
<1> DEFINE Kept == \A o \in Orders : payment[o] # "none" \/ order[o].status = "paid" =>
                      payment'[o] # "none" /\ order'[o].status # "gone"
<1>1. ASSUME PurgeRows, NEW o \in Orders,
             \/ Reserve(o) \/ RecordPayment(o) \/ ChargeFails(o) \/ releaseOrder(o)
             \/ applySettlement(o) \/ issueTickets(o) \/ Age(o)
      PROVE  Kept
  <2>1. PurgeRows'
    BY <1>1, OthersKeepPurgeRows
  <2>2. \A q \in Orders : payment[q] # "none" => payment'[q] # "none"
    BY <1>1 DEF PurgeRows, PurgeTypeOK, CheckoutOver, checkoutVars, Reserve, RecordPayment,
       ChargeFails, releaseOrder, applySettlement, issueTickets, Age
  <2> QED
    BY <1>1, <2>1, <2>2 DEF PurgeRows, CheckoutOver
<1>2. ASSUME PurgeRows, Delete PROVE Kept
  BY <1>2 DEF Delete, PurgeRows, PurgeTypeOK, CheckoutOver, StillDead, PURGEABLE
<1>3. ASSUME PurgeRows, Select \/ recordStandaloneTransition \/ JobFails \/ UNCHANGED purgeVars
      PROVE  Kept
  BY <1>3 DEF Select, recordStandaloneTransition, JobFails, purgeVars, checkoutVars, PurgeRows,
     CheckoutOver
<1>4. PurgeIInv /\ [PurgeNext]_purgeVars => [Kept]_purgeVars
  <2> HIDE DEF Kept
  <2> QED
    BY <1>1, <1>2, <1>3 DEF PurgeNext, PurgeRun, PurgeIInv
<1> QED
  BY <1>4, PurgeInvariant, PTL DEF PurgeSpec, RecordsAreKept
=============================================================================
