------------------------------- MODULE Ledger -------------------------------
(***************************************************************************)
(* The append-only ledger (ledger.service.ts and the trigger of migration  *)
(* 0001): transactions append entries to hash chains, one chain per order  *)
(* and one "global" one, and a verifier walks the links.  An entry takes   *)
(* its sequence number when its INSERT starts and its link when the trigger *)
(* gets the lock on the chain's tip, so the two orders can differ.  The    *)
(* hash of an entry is the record of everything it digests: equal only to  *)
(* that of an entry with the same fields.  A prev_hash or last_hash is the *)
(* set of the hashes it holds: one, or none for SQL's null.                *)
(***************************************************************************)
EXTENDS Naturals, FiniteSets, Sequences

CONSTANTS
    Writers,      \* transactions that append
    Chains,       \* chain keys: order ids and "global"
    Null,         \* no writer, no chain, no entry
    MaxSeq,       \* bound on the identity column
    MaxEntries    \* bound on the entries of one transaction

ASSUME NullIsNoWriter == Null \notin Writers /\ Null \notin Chains
ASSUME MaxEntriesAssumption == MaxEntries \in Nat

VARIABLES
    nextSeq,  \* the identity sequence; a rollback does not give a value back
    entries,  \* committed rows of ledger_entries
    tip,      \* [Chains -> last_hash as committed]
    lock,     \* [Chains -> the transaction holding the tip's row lock]
    tx        \* [Writers -> its chain, uncommitted rows, own tip, and the
              \*  number of the INSERT that waits for the lock, or 0]

vars == <<nextSeq, entries, tip, lock, tx>>

\* What the trigger digests, and the verifier digests again.
preimage(e) == [seq |-> e.seq, chain |-> e.chain, body |-> e.body, prev |-> e.prev]

Intact(e) == e.hash = preimage(e)

NewEntry(n, c, prev) ==
    LET row == [seq |-> n, chain |-> c, body |-> "as written", prev |-> prev]
    IN  [seq |-> n, chain |-> c, body |-> "as written", prev |-> prev, hash |-> row]

Idle == [chain |-> Null, rows |-> {}, last |-> {}, waiting |-> 0]

Init ==
    /\ nextSeq = 1
    /\ entries = {}
    /\ tip = [c \in Chains |-> {}]
    /\ lock = [c \in Chains |-> Null]
    /\ tx = [w \in Writers |-> Idle]

-----------------------------------------------------------------------------
(* Writers. *)

\* recordTransition: the INSERT starts and draws its number.  All entries of a
\* transaction are about one order, or about none.
recordTransition(w, c) ==
    /\ tx[w].waiting = 0
    /\ tx[w].chain \in {Null, c}
    /\ Cardinality(tx[w].rows) < MaxEntries
    /\ nextSeq <= MaxSeq
    /\ tx' = [tx EXCEPT ![w] = [chain |-> c, rows |-> @.rows, last |-> @.last, waiting |-> nextSeq]]
    /\ nextSeq' = nextSeq + 1
    /\ UNCHANGED <<entries, tip, lock>>

\* Mutation: the tip is read without keeping its lock to the end.
ledger_entries_hash_unlocked(w) ==
    LET c == tx[w].chain
        row == NewEntry(tx[w].waiting, c, IF tx[w].rows = {} THEN tip[c] ELSE tx[w].last)
    IN  /\ tx[w].waiting # 0
        /\ lock[c] \in {Null, w}
        /\ tx' = [tx EXCEPT ![w] =
                  [chain |-> c, rows |-> @.rows \cup {row}, last |-> {row.hash}, waiting |-> 0]]
        /\ UNCHANGED <<nextSeq, entries, tip, lock>>

\* The BEFORE INSERT trigger: the upsert of the tip row waits for its lock and
\* reads what was committed last, or what this transaction wrote.
ledger_entries_hash(w) ==
    LET c == tx[w].chain
        row == NewEntry(tx[w].waiting, c, IF tx[w].rows = {} THEN tip[c] ELSE tx[w].last)
    IN  /\ tx[w].waiting # 0
        /\ lock[c] \in {Null, w}
        /\ lock' = [lock EXCEPT ![c] = w]
        /\ tx' = [tx EXCEPT ![w] =
                  [chain |-> c, rows |-> @.rows \cup {row}, last |-> {row.hash}, waiting |-> 0]]
        /\ UNCHANGED <<nextSeq, entries, tip>>

Commit(w) ==
    LET c == tx[w].chain
    IN  /\ tx[w].waiting = 0
        /\ tx[w].rows # {}
        /\ entries' = entries \cup tx[w].rows
        /\ tip' = [tip EXCEPT ![c] = tx[w].last]
        /\ lock' = [lock EXCEPT ![c] = Null]
        /\ tx' = [tx EXCEPT ![w] = Idle]
        /\ UNCHANGED nextSeq

\* The change the entries describe fails: they go with it, their numbers do not
\* come back.
Rollback(w) ==
    LET c == tx[w].chain
    IN  /\ c # Null
        /\ lock' = IF lock[c] = w THEN [lock EXCEPT ![c] = Null] ELSE lock
        /\ tx' = [tx EXCEPT ![w] = Idle]
        /\ UNCHANGED <<nextSeq, entries, tip>>

Next ==
    \E w \in Writers :
        \/ \E c \in Chains : recordTransition(w, c)
        \/ ledger_entries_hash(w)
        \/ Commit(w)
        \/ Rollback(w)

Spec == Init /\ [][Next]_vars

-----------------------------------------------------------------------------
(* The verifier, over a set of rows. *)

Roots(E) == {e \in E : e.prev = {}}
Claimants(E, h) == {e \in E : e.prev = {h}}

\* The entries the walk visits, in its order: from the root to the only entry
\* that claims the present one, as long as there is one and the digest holds.
visit(E) ==
    LET at[n \in 1..Cardinality(E)] ==    \* the n-th, or none
          IF n = 1 THEN Roots(E)
          ELSE {e \in E : \E d \in at[n - 1] : Intact(d) /\ Claimants(E, d.hash) = {e}}
    IN  [n \in 1..Cardinality({i \in DOMAIN at : at[i] # {}}) |-> CHOOSE e \in at[n] : TRUE]

\* Mutation: an entry no walk reaches is not noticed.
verifySingleChainWithoutOrphans(E) ==
    IF Roots(E) = {} THEN "no root"
    ELSE IF Cardinality(Roots(E)) > 1 THEN "more than one root"
    ELSE LET walk == visit(E)
             last == walk[Len(walk)]
         IN  IF ~Intact(last) THEN "altered"
             ELSE IF Cardinality(Claimants(E, last.hash)) > 1 THEN "forks"
             ELSE "valid"

\* Mutation: each entry has to claim the one with the number before.
verifySingleChainBySeq(E) ==
    IF \A e \in E :
         \/ e.prev = {}
         \/ \E f \in E : /\ e.prev = {f.hash} /\ f.seq < e.seq
                         /\ ~\E g \in E : f.seq < g.seq /\ g.seq < e.seq
    THEN "valid" ELSE "altered"

verifySingleChain(E) ==
    IF Roots(E) = {} THEN "no root"
    ELSE IF Cardinality(Roots(E)) > 1 THEN "more than one root"
    ELSE LET walk == visit(E)
             last == walk[Len(walk)]
         IN  IF ~Intact(last) THEN "altered"
             ELSE IF Cardinality(Claimants(E, last.hash)) > 1 THEN "forks"
             ELSE IF Len(walk) # Cardinality(E) THEN "unreachable"
             ELSE "valid"

OfChain(E, c) == {e \in E : e.chain = c}

\* The first rows by sequence number, as the SELECT's ORDER BY and LIMIT leave them.
FirstRows(limit) ==
    {e \in entries : Cardinality({f \in entries : f.seq < e.seq}) < limit}

verifyChain(limit) ==
    \A c \in {e.chain : e \in FirstRows(limit)} :
        verifySingleChain(OfChain(FirstRows(limit), c)) = "valid"

-----------------------------------------------------------------------------
(* Properties. *)

TypeOK ==
    /\ nextSeq \in 1..(MaxSeq + 1)
    /\ \A e \in entries : e.seq \in 1..(nextSeq - 1) /\ e.chain \in Chains
    /\ DOMAIN tip = Chains
    /\ lock \in [Chains -> Writers \cup {Null}]
    /\ \A w \in Writers :
         /\ tx[w].chain \in Chains \cup {Null}
         /\ tx[w].waiting \in 0..(nextSeq - 1)
         /\ Cardinality(tx[w].rows) <= MaxEntries

\* Concurrent appends and rollbacks never make two entries claim one
\* predecessor, or two beginnings of a chain (the bug the tip row replaced).
OneSuccessor ==
    \A e, f \in entries : e.chain = f.chain /\ e.prev = f.prev => e = f

\* An entry's predecessor is there, committed, in the same chain.
PredecessorCommitted ==
    \A e \in entries : \A h \in e.prev :
        \E f \in entries : f.chain = e.chain /\ f.hash = h

\* Whatever the order of the numbers, the verifier accepts a ledger that
\* nobody touched (ledger.service.ts, verifyChain).
UntouchedVerifies == verifyChain(Cardinality(entries))

\* The verifier reports an entry altered, altered and digested again, or gone,
\* unless it was the last of its chain.
DamageIsReported ==
    \A e \in entries :
        LET chain  == OfChain(entries, e.chain)
            others == chain \ {e}
            forged == [e EXCEPT !.body = "altered"]
            sealed == [forged EXCEPT !.hash = preimage(forged)]
        IN  /\ verifySingleChain(others \cup {forged}) = "altered"
            /\ e.hash \notin tip[e.chain] => /\ verifySingleChain(others) # "valid"
                                        /\ verifySingleChain(others \cup {sealed}) # "valid"

\* A reader sees the lists of entries that the chains' walks visit, and a
\* transaction adds its entries at the end of one list, all at once.
Log == INSTANCE AppendOnlyLog WITH
    log <- [c \in Chains |-> visit(OfChain(entries, c))]

AppendsAtTheEnd == Log!Spec
=============================================================================
