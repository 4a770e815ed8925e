---------------------------- MODULE LedgerProofs ----------------------------
(***************************************************************************)
(* For any number of writers, chains and entries: the committed entries of *)
(* a chain are one list, linked from its root to the tip, whatever order   *)
(* their numbers have, and a transaction's rows are a piece of it to come. *)
(* From that: nothing forks, no predecessor is missing, the verifier       *)
(* accepts what nobody touched and reports what somebody did, each chain   *)
(* implements the append-only log, and an operator's report hangs together.*)
(***************************************************************************)
EXTENDS OrderHistory, FiniteSetTheorems, FunctionTheorems, SequenceTheorems,
        WellFoundedInduction, TLAPS

-----------------------------------------------------------------------------
(* Lists of entries and the walk over them. *)

\* Sets of numbers have a least element: induction along a list is by the first
\* place at which it would fail.
Smaller == {ss \in Nat \X Nat : ss[1] < ss[2]}

LEMMA SmallerWellFounded == IsWellFoundedOn(Smaller, Nat)
BY NatLessThanWellFounded, Zenon DEF OpToRel, Smaller

LEMMA HasLeast ==
    ASSUME NEW T \in SUBSET Nat, T # {}
    PROVE  \E n \in T : \A m \in T : n <= m
<1>2. \A x, y \in Nat : <<x, y>> \in Smaller <=> x < y
  BY DEF Smaller
<1>3. PICK x \in T : \A y \in T : ~ (<<y, x>> \in Smaller)
  BY SmallerWellFounded, WFMin
<1>4. ASSUME NEW y \in T PROVE x <= y
  <2>1. x \in Nat /\ y \in Nat
    OBVIOUS
  <2>2. ~(<<y, x>> \in Smaller)
    BY <1>3
  <2>3. ~(y < x)
    BY <1>2, <2>1, <2>2
  <2> QED
    BY <2>1, <2>3
<1> QED
  BY <1>4

\* What the walk over F has at a place, given what it has at the one before.
Successors(F, D) == {e \in F : \E d \in D : Intact(d) /\ Claimants(F, d.hash) = {e}}
IsWalk(F, at) ==
   at = [n \in 1..Cardinality(F) |-> IF n = 1 THEN Roots(F) ELSE Successors(F, at[n - 1])]

WalkOf(F) == CHOOSE at : IsWalk(F, at)

Path(F, m, s) ==
    /\ m \in 1..Cardinality(F)
    /\ s \in [1..m -> F]
    /\ Roots(F) = {s[1]}
    /\ \A i \in 1..(m - 1) : Intact(s[i]) /\ Claimants(F, s[i].hash) = {s[i + 1]}
    /\ m = Cardinality(F) \/ ~Intact(s[m]) \/ \A e : Claimants(F, s[m].hash) # {e}

LEMMA VisitIsWalk ==
    ASSUME NEW F
    PROVE  visit(F) = [n \in 1..Cardinality({i \in DOMAIN WalkOf(F) : WalkOf(F)[i] # {}}) |->
                         CHOOSE e \in WalkOf(F)[n] : TRUE]
BY DEF visit, WalkOf, IsWalk, Successors

LEMMA PathIsWalked ==
    ASSUME NEW F, IsFiniteSet(F), NEW m, NEW s, Path(F, m, s)
    PROVE  visit(F) = s
<1> DEFINE N == Cardinality(F)
           W == [n \in 1..N |-> IF n <= m THEN {s[n]} ELSE {}]
<1>1. N \in Nat
  BY FS_CardinalityType
<1>2. m \in 1..N /\ s \in [1..m -> F]
  BY DEF Path
<1>3. ASSUME NEW n \in 1..N
      PROVE  W[n] = IF n = 1 THEN Roots(F) ELSE Successors(F, W[n - 1])
  <2>1. CASE n = 1
    BY <1>1, <1>2, <2>1 DEF Path
  <2>2. CASE n # 1 /\ n <= m
    <3>1. n - 1 \in 1..(m - 1) /\ n - 1 \in 1..N /\ n = (n - 1) + 1
      BY <1>1, <1>2, <2>2
    <3>2. Intact(s[n - 1]) /\ Claimants(F, s[n - 1].hash) = {s[n]}
      BY <3>1 DEF Path
    <3>3. W[n - 1] = {s[n - 1]} /\ W[n] = {s[n]}
      BY <1>1, <1>2, <2>2, <3>1
    <3>4. s[n] \in F
      BY <1>1, <1>2, <2>2
    <3>5. Successors(F, {s[n - 1]}) = {s[n]}
      BY <3>2, <3>4 DEF Successors
    <3> QED
      BY <2>2, <3>3, <3>5
  <2>3. CASE n = m + 1
    <3>1. n # 1 /\ n - 1 = m /\ m # N /\ m \in 1..N
      BY <1>1, <1>2, <2>3
    <3>2. Successors(F, {s[m]}) = {}
      BY <3>1 DEF Successors, Path
    <3>3. W[m] = {s[m]} /\ W[n] = {}
      BY <1>1, <1>2, <2>3, <3>1
    <3> QED
      BY <3>1, <3>2, <3>3
  <2>4. CASE n > m + 1
    <3>1. n # 1 /\ n - 1 > m /\ n - 1 \in 1..N
      BY <1>1, <1>2, <2>4
    <3>2. W[n - 1] = {} /\ W[n] = {}
      BY <1>1, <1>2, <2>4, <3>1
    <3> QED
      BY <3>1, <3>2 DEF Successors
  <2> QED
    BY <1>1, <1>2, <2>1, <2>2, <2>3, <2>4
<1>4. IsWalk(F, W)
  BY <1>3 DEF IsWalk
<1>5. IsWalk(F, WalkOf(F))
  BY <1>4 DEF WalkOf
<1> DEFINE at == WalkOf(F)
<1> HIDE DEF at, W
<1>6. DOMAIN at = 1..N /\ \A n \in 1..N : at[n] = IF n = 1 THEN Roots(F) ELSE Successors(F, at[n - 1])
  BY <1>5 DEF IsWalk, at
<1>7. \A n \in 1..N : at[n] = W[n]
  <2> DEFINE T == {n \in 1..N : at[n] # W[n]}
  <2> SUFFICES ASSUME T # {} PROVE FALSE
    OBVIOUS
  <2>0. T \in SUBSET Nat
    BY <1>1
  <2>1. PICK n \in T : \A k \in T : n <= k
    BY <2>0, HasLeast
  <2>2. n \in 1..N /\ at[n] # W[n]
    OBVIOUS
  <2>3. n # 1
    BY <1>3, <1>6, <2>2
  <2>4. n - 1 \in 1..N /\ ~(n <= n - 1)
    BY <1>1, <2>2, <2>3
  <2>5. at[n - 1] = W[n - 1]
    BY <2>1, <2>4
  <2> QED
    BY <1>3, <1>6, <2>2, <2>3, <2>5
<1>8. {i \in DOMAIN at : at[i] # {}} = 1..m
  <2>1. \A i \in 1..N : at[i] # {} <=> i <= m
    BY <1>1, <1>2, <1>7 DEF W
  <2> QED
    BY <1>1, <1>2, <1>6, <2>1
<1>9. Cardinality(1..m) = m
  BY <1>1, <1>2, FS_Interval
<1>10. visit(F) = [n \in 1..m |-> CHOOSE e \in at[n] : TRUE]
  BY <1>8, <1>9, VisitIsWalk DEF at
<1>11. ASSUME NEW n \in 1..m PROVE at[n] = {s[n]}
  <2>1. n \in 1..N /\ n <= m
    BY <1>1, <1>2
  <2> QED
    BY <1>7, <2>1 DEF W
<1>12. \A n \in 1..m : (CHOOSE e \in at[n] : TRUE) = s[n]
  BY <1>11
<1> QED
  BY <1>2, <1>10, <1>12

LEMMA LengthOfList ==
    ASSUME NEW m \in Nat, NEW E, NEW s \in [1..m -> E]
    PROVE  Len(s) = m
BY SeqDef, LenProperties

\* What the verifier says of a chain whose walk stops at the m-th entry.
LEMMA Verdict ==
    ASSUME NEW F, IsFiniteSet(F), NEW m, NEW s, Path(F, m, s)
    PROVE  verifySingleChain(F) =
             IF ~Intact(s[m]) THEN "altered"
             ELSE IF Cardinality(Claimants(F, s[m].hash)) > 1 THEN "forks"
             ELSE IF m # Cardinality(F) THEN "unreachable" ELSE "valid"
<1>1. Roots(F) # {} /\ ~(Cardinality(Roots(F)) > 1)
  <2>1. Roots(F) = {s[1]}
    BY DEF Path
  <2>2. Cardinality({s[1]}) = 1
    BY FS_Singleton
  <2> QED
    BY <2>1, <2>2
<1>2. m \in Nat /\ s \in [1..m -> F]
  BY FS_CardinalityType DEF Path
<1>3. visit(F) = s /\ Len(s) = m
  BY <1>2, PathIsWalked, LengthOfList
<1> QED
  BY <1>1, <1>3 DEF verifySingleChain

-----------------------------------------------------------------------------
\* The entries of a list from place a to place b.
Part(s, a, b) == {s[i] : i \in a..b}

\* s lists the n entries of E as they are linked, from the root on.
Listing(E, n, s) ==
    /\ n \in Nat
    /\ s \in [1..n -> E]
    /\ E = Part(s, 1, n)
    /\ \A i, j \in 1..n : s[i].hash = s[j].hash => i = j
    /\ \A i \in 1..n : s[i].prev = IF i = 1 THEN {} ELSE {s[i - 1].hash}

Last(n, s) == IF n = 0 THEN {} ELSE {s[n].hash}

LEMMA ListedSize ==
    ASSUME NEW E, NEW n, NEW s, Listing(E, n, s), NEW a \in Nat \ {0}, NEW b \in 0..n
    PROVE  /\ IsFiniteSet(Part(s, a, b))
           /\ a <= b + 1 => Cardinality(Part(s, a, b)) = (b + 1) - a
<1> DEFINE T == Part(s, a, b)
           f == [i \in a..b |-> s[i]]
<1>1. n \in Nat /\ \A i \in a..b : i \in 1..n
  BY DEF Listing
<1>2. f \in Bijection(a..b, T)
  <2>1. f \in [a..b -> T]
    BY DEF Part
  <2>2. \A i, j \in a..b : f[i] = f[j] => i = j
    BY <1>1 DEF Listing
  <2>3. \A t \in T : \E i \in a..b : f[i] = t
    BY DEF Part
  <2> QED
    BY <2>1, <2>2, <2>3, Fun_IsBij
<1>3. ExistsBijection(a..b, T)
  BY <1>2 DEF ExistsBijection
<1>4. IsFiniteSet(a..b) /\ Cardinality(a..b) = IF a > b THEN 0 ELSE b - a + 1
  BY <1>1, FS_Interval
<1> QED
  BY <1>1, <1>3, <1>4, FS_Bijection

\* The links of a listed set of entries: one root, one claimant but for the last.
LEMMA ListedLinks ==
    ASSUME NEW E, NEW n, NEW s, Listing(E, n, s)
    PROVE  /\ n # 0 => Roots(E) = {s[1]}
           /\ \A i \in 1..(n - 1) : Claimants(E, s[i].hash) = {s[i + 1]}
           /\ n # 0 => Claimants(E, s[n].hash) = {}
<1>1. /\ n \in Nat /\ E = {s[i] : i \in 1..n}
      /\ \A i, j \in 1..n : s[i].hash = s[j].hash => i = j
      /\ \A i \in 1..n : s[i].prev = IF i = 1 THEN {} ELSE {s[i - 1].hash}
  BY DEF Listing, Part
<1>2. n # 0 => Roots(E) = {s[1]}
  <2> SUFFICES ASSUME n # 0 PROVE Roots(E) = {s[1]}
    OBVIOUS
  <2>1. 1 \in 1..n
    BY <1>1
  <2>2. s[1] \in E /\ s[1].prev = {}
    BY <1>1, <2>1
  <2>3. ASSUME NEW i \in 1..n, i # 1 PROVE s[i].prev # {}
    <3>1. s[i].prev = {s[i - 1].hash}
      BY <1>1, <2>3
    <3> QED
      BY <3>1
  <2> QED
    BY <1>1, <2>2, <2>3 DEF Roots
<1>3. ASSUME NEW h PROVE Claimants(E, h) = {s[j + 1] : j \in {k \in 1..(n - 1) : s[k].hash = h}}
  <2>1. \A i \in 1..n : s[i].prev = {h} <=> i # 1 /\ s[i - 1].hash = h
    BY <1>1
  <2>2. \A i \in 1..n : i # 1 => i - 1 \in 1..(n - 1) /\ (i - 1) + 1 = i
    BY <1>1
  <2>3. \A k \in 1..(n - 1) : k + 1 \in 1..n /\ k + 1 # 1 /\ (k + 1) - 1 = k
    BY <1>1
  <2>4. ASSUME NEW e \in Claimants(E, h)
        PROVE  e \in {s[j + 1] : j \in {k \in 1..(n - 1) : s[k].hash = h}}
    <3>1. PICK i \in 1..n : e = s[i]
      BY <1>1 DEF Claimants
    <3>2. i # 1 /\ s[i - 1].hash = h
      BY <2>1, <3>1 DEF Claimants
    <3> QED
      BY <2>2, <3>1, <3>2
  <2>5. ASSUME NEW j \in 1..(n - 1), s[j].hash = h PROVE s[j + 1] \in Claimants(E, h)
    <3>1. s[j + 1] \in E /\ s[j + 1].prev = {h}
      BY <1>1, <2>1, <2>3, <2>5
    <3> QED
      BY <3>1 DEF Claimants
  <2> QED
    BY <2>4, <2>5
<1>4. ASSUME NEW i \in 1..(n - 1) PROVE Claimants(E, s[i].hash) = {s[i + 1]}
  <2>1. {k \in 1..(n - 1) : s[k].hash = s[i].hash} = {i}
    BY <1>1
  <2> QED
    BY <1>3, <2>1
<1>5. n # 0 => Claimants(E, s[n].hash) = {}
  <2> SUFFICES ASSUME n # 0 PROVE Claimants(E, s[n].hash) = {}
    OBVIOUS
  <2>1. {k \in 1..(n - 1) : s[k].hash = s[n].hash} = {}
    BY <1>1
  <2> QED
    BY <1>3, <2>1
<1> QED
  BY <1>2, <1>4, <1>5

\* An entry's link tells its place, and the entry at the place before it.
LEMMA PlaceByLink ==
    ASSUME NEW E, NEW n, NEW s, Listing(E, n, s), NEW i \in 1..n
    PROVE  /\ \A h \in s[i].prev : i # 1 /\ i - 1 \in 1..n /\ s[i - 1].hash = h
           /\ \A j \in 1..n : s[i].prev = s[j].prev => i = j
<1>1. /\ n \in Nat
      /\ \A k, j \in 1..n : s[k].hash = s[j].hash => k = j
      /\ \A k \in 1..n : s[k].prev = IF k = 1 THEN {} ELSE {s[k - 1].hash}
  BY DEF Listing
<1>2. ASSUME NEW k \in 1..n
      PROVE  (k = 1 /\ s[k].prev = {}) \/ (k - 1 \in 1..n /\ s[k].prev = {s[k - 1].hash})
  <2>1. CASE k = 1
    <3>1. s[k].prev = {}
      BY <1>1, <2>1
    <3> QED
      BY <2>1, <3>1
  <2>2. CASE k # 1
    <3>1. s[k].prev = {s[k - 1].hash}
      BY <1>1, <2>2
    <3>2. k - 1 \in 1..n
      BY <1>1, <2>2
    <3> QED
      BY <3>1, <3>2
  <2> QED
    BY <2>1, <2>2
<1>3. ASSUME NEW h \in s[i].prev PROVE i # 1 /\ i - 1 \in 1..n /\ s[i - 1].hash = h
  BY <1>1, <1>2, <1>3
<1>4. ASSUME NEW j \in 1..n, s[i].prev = s[j].prev PROVE i = j
  <2>1. CASE i = 1 /\ j = 1
    BY <2>1
  <2>2. CASE i # 1 /\ j # 1
    <3>1. i - 1 \in 1..n /\ j - 1 \in 1..n /\ s[i - 1].hash = s[j - 1].hash
      BY <1>2, <1>4, <2>2
    <3> QED
      BY <1>1, <3>1
  <2>3. (i = 1) <=> (j = 1)
    <3>1. \A k \in 1..n : (k = 1) <=> s[k].prev = {}
      <4>1. TAKE k \in 1..n
      <4>2. CASE k = 1
        BY <1>1, <4>2
      <4>3. CASE k # 1
        <5>1. s[k].prev = {s[k - 1].hash}
          BY <1>1, <4>3
        <5> QED
          BY <4>3, <5>1
      <4> QED
        BY <4>2, <4>3
    <3> QED
      BY <1>4, <3>1
  <2> QED
    BY <2>1, <2>2, <2>3
<1> QED
  BY <1>3, <1>4

\* The walk over a listed set of intact entries visits all of them, in order,
\* and the verifier finds nothing.
LEMMA ListedIsWalked ==
    ASSUME NEW E, NEW n, NEW s, Listing(E, n, s), \A e \in E : Intact(e)
    PROVE  /\ IsFiniteSet(E) /\ Cardinality(E) = n
           /\ visit(E) = s
           /\ n # 0 => verifySingleChain(E) = "valid"
<1>1. n \in Nat /\ E = {s[i] : i \in 1..n} /\ s \in [1..n -> E]
  BY DEF Listing, Part
<1>2. IsFiniteSet(E) /\ Cardinality(E) = n
  <2>1. 1 \in Nat \ {0} /\ n \in 0..n /\ 1 <= n + 1 /\ (n + 1) - 1 = n
    BY <1>1
  <2>2. IsFiniteSet(Part(s, 1, n)) /\ Cardinality(Part(s, 1, n)) = (n + 1) - 1
    BY <2>1, ListedSize
  <2> QED
    BY <1>1, <2>1, <2>2 DEF Part
<1>3. CASE n = 0
  <2>1. E = {} /\ s = [i \in {} |-> 0] /\ 1..0 = {}
    BY <1>1, <1>3
  <2>2. Cardinality({}) = 0
    BY FS_EmptySet
  <2>3. WalkOf(E) = [i \in 1..0 |-> IF i = 1 THEN Roots(E) ELSE Successors(E, WalkOf(E)[i - 1])]
    <3> DEFINE W == [i \in {} |-> {}]
    <3>1. IsWalk(E, W)
      BY <2>1, <2>2 DEF IsWalk
    <3> QED
      BY <2>1, <2>2, <3>1 DEF IsWalk, WalkOf
  <2>4. DOMAIN WalkOf(E) = {}
    BY <2>1, <2>3
  <2>5. {i \in DOMAIN WalkOf(E) : WalkOf(E)[i] # {}} = {}
    BY <2>4
  <2>6. visit(E) = [i \in 1..0 |-> CHOOSE e \in WalkOf(E)[i] : TRUE]
    BY <2>2, <2>5, VisitIsWalk
  <2> QED
    BY <1>2, <1>3, <2>1, <2>6
<1>4. CASE n # 0
  <2>1. Path(E, n, s)
    <3>1. n \in 1..Cardinality(E)
      BY <1>1, <1>2, <1>4
    <3>2. Roots(E) = {s[1]}
      BY <1>4, ListedLinks
    <3>3. \A i \in 1..(n - 1) : Claimants(E, s[i].hash) = {s[i + 1]}
      BY ListedLinks
    <3>4. \A i \in 1..(n - 1) : Intact(s[i])
      BY <1>1
    <3> QED
      BY <1>1, <1>2, <3>1, <3>2, <3>3, <3>4 DEF Path
  <2>2. visit(E) = s
    BY <1>2, <2>1, PathIsWalked
  <2>3. ~(Cardinality(Claimants(E, s[n].hash)) > 1)
    BY <1>4, ListedLinks, FS_EmptySet
  <2>4. Intact(s[n])
    BY <1>1, <1>4
  <2>5. verifySingleChain(E) = "valid"
    BY <1>2, <2>1, <2>3, <2>4, Verdict
  <2> QED
    BY <1>2, <2>2, <2>5
<1> QED
  BY <1>3, <1>4

\* The first k of a list are listed, and a new end may follow the last.
LEMMA ListedPrefix ==
    ASSUME NEW E, NEW n, NEW s, Listing(E, n, s), NEW k \in 0..n
    PROVE  Listing(Part(s, 1, k), k, [i \in 1..k |-> s[i]])
<1>1. n \in Nat /\ k \in Nat /\ \A i \in 1..k : i \in 1..n /\ (i # 1 => i - 1 \in 1..k)
  BY DEF Listing, Part
<1> DEFINE t == [i \in 1..k |-> s[i]]
           T == Part(s, 1, k)
<1>2. t \in [1..k -> T] /\ T = Part(t, 1, k)
  BY DEF Part
<1>3. \A i, j \in 1..k : t[i].hash = t[j].hash => i = j
  BY <1>1 DEF Listing
<1>4. \A i \in 1..k : t[i].prev = IF i = 1 THEN {} ELSE {t[i - 1].hash}
  BY <1>1 DEF Listing
<1> QED
  BY <1>1, <1>2, <1>3, <1>4 DEF Listing

Longer(s, n, row) == [i \in 1..(n + 1) |-> IF i <= n THEN s[i] ELSE row]

LEMMA ListGrows ==
    ASSUME NEW E, NEW n, NEW s, Listing(E, n, s), NEW row,
           row.prev = Last(n, s), \A e \in E : e.hash # row.hash
    PROVE  /\ Listing(E \cup {row}, n + 1, Longer(s, n, row))
           /\ Last(n + 1, Longer(s, n, row)) = {row.hash}
           /\ \A i \in 1..n : Longer(s, n, row)[i] = s[i]
           /\ Longer(s, n, row)[n + 1] = row
<1> DEFINE t == Longer(s, n, row)
<1>1. /\ n \in Nat /\ E = {s[i] : i \in 1..n} /\ s \in [1..n -> E]
      /\ \A i, j \in 1..n : s[i].hash = s[j].hash => i = j
      /\ \A i \in 1..n : s[i].prev = IF i = 1 THEN {} ELSE {s[i - 1].hash}
  BY DEF Listing, Part
<1>2. /\ \A i \in 1..n : i \in 1..(n + 1) /\ t[i] = s[i]
      /\ n + 1 \in 1..(n + 1) /\ t[n + 1] = row
      /\ \A i \in 1..(n + 1) : i \in 1..n \/ i = n + 1
  BY <1>1 DEF Longer
<1>3. \A i \in 1..(n + 1) : t[i] \in E \cup {row}
  BY <1>1, <1>2
<1>4. t \in [1..(n + 1) -> E \cup {row}]
  BY <1>3 DEF Longer
<1>5. E \cup {row} = Part(t, 1, n + 1)
  BY <1>1, <1>2 DEF Part
<1>6. ASSUME NEW i \in 1..(n + 1), NEW j \in 1..(n + 1), t[i].hash = t[j].hash PROVE i = j
  <2>1. \A l \in 1..n : s[l] \in E
    BY <1>1
  <2>2. (i = n + 1 /\ j = n + 1) \/ (i \in 1..n /\ j \in 1..n)
    BY <1>2, <1>6, <2>1
  <2> QED
    BY <1>1, <1>2, <1>6, <2>2
<1>7. \A i \in 1..(n + 1) : t[i].prev = IF i = 1 THEN {} ELSE {t[i - 1].hash}
  <2> SUFFICES ASSUME NEW i \in 1..(n + 1)
               PROVE  t[i].prev = IF i = 1 THEN {} ELSE {t[i - 1].hash}
    OBVIOUS
  <2>1. i # 1 => i - 1 \in 1..n
    BY <1>1
  <2>2. CASE i \in 1..n
    BY <1>1, <1>2, <2>1, <2>2
  <2>3. CASE i = n + 1
    <3>1. n # 0 => i # 1 /\ n \in 1..n /\ i - 1 = n
      BY <1>1, <2>3
    <3>2. n = 0 => i = 1
      BY <2>3
    <3> QED
      BY <1>2, <2>3, <3>1, <3>2 DEF Last
  <2> QED
    BY <1>2, <2>2, <2>3
<1>8. n + 1 \in Nat /\ Last(n + 1, t) = {row.hash}
  BY <1>1, <1>2 DEF Last
<1> QED
  BY <1>2, <1>4, <1>5, <1>6, <1>7, <1>8 DEF Listing

-----------------------------------------------------------------------------
(* The inductive invariant. *)

Written == entries \cup UNION {tx[w].rows : w \in Writers}

\* Numbers are drawn once, and what is written digests its own number.
NumbersDrawn ==
    /\ nextSeq \in Nat \ {0}
    /\ \A e \in Written : Intact(e) /\ e.seq \in Nat /\ e.seq < nextSeq
    /\ \A w \in Writers : tx[w].waiting \in Nat /\ tx[w].waiting < nextSeq
    /\ \A w \in Writers : tx[w].waiting # 0 =>
         /\ \A e \in Written : e.seq # tx[w].waiting
         /\ \A v \in Writers \ {w} : tx[v].waiting # tx[w].waiting

\* The entry e with another body and another hash.
Row(e, body, hash) ==
    [seq |-> e.seq, chain |-> e.chain, body |-> body, prev |-> e.prev, hash |-> hash]

AsWritten == "as written"
Altered == "altered"

\* Nothing written was altered since.
Unaltered == \A e \in Written : e = Row(e, AsWritten, e.hash)

\* The functions the state is made of.
Shape ==
    /\ tip = [c \in Chains |-> tip[c]]
    /\ lock \in [Chains -> Writers \cup {Null}]
    /\ tx = [w \in Writers |-> tx[w]]

\* Who has uncommitted rows holds the lock of their chain, and nobody else does.
LocksHeld ==
    /\ \A w \in Writers :
         /\ tx[w].chain \in Chains \cup {Null}
         /\ tx[w].waiting # 0 => tx[w].chain # Null
         /\ tx[w].rows # {} => tx[w].chain # Null /\ lock[tx[w].chain] = w
         /\ \A e \in tx[w].rows : e.chain = tx[w].chain
    /\ \A e \in entries : e.chain \in Chains
    /\ \A c \in Chains : lock[c] # Null => tx[lock[c]].rows # {} /\ tx[lock[c]].chain = c

\* There are finitely many rows, and a transaction has no more than it may.
RowsBounded ==
    /\ IsFiniteSet(entries)
    /\ \A w \in Writers :
         /\ IsFiniteSet(tx[w].rows)
         /\ Cardinality(tx[w].rows) <= MaxEntries
         /\ tx[w].waiting # 0 => Cardinality(tx[w].rows) < MaxEntries

\* The entries E are a list that ends in last.
Listed(E, last) == \E n, s : Listing(E, n, s) /\ last = Last(n, s)

\* The entries E are the beginning of a list that goes on with the rows R.
Extended(E, R, last) ==
    \E n, s : \E k \in 0..(n - 1) :
        /\ Listing(E \cup R, n, s) /\ last = Last(n, s)
        /\ E = Part(s, 1, k) /\ R = Part(s, k + 1, n)

ChainsListed ==
    /\ \A c \in Chains : Listed(OfChain(entries, c), tip[c])
    /\ \A w \in Writers : tx[w].rows # {} =>
         Extended(OfChain(entries, tx[w].chain), tx[w].rows, tx[w].last)

IInv == Shape /\ NumbersDrawn /\ Unaltered /\ LocksHeld /\ RowsBounded /\ ChainsListed

-----------------------------------------------------------------------------
(* Every step keeps it. *)

\* A new row that claims the last entry is the list's new end.
LEMMA RowExtendsList ==
    ASSUME NEW E, NEW R, NEW last, NEW row,
           IF R = {} THEN Listed(E, last) ELSE Extended(E, R, last),
           row.prev = last, \A e \in E \cup R : e.hash # row.hash
    PROVE  Extended(E, R \cup {row}, {row.hash})
<1>1. PICK n, s, k : /\ Listing(E \cup R, n, s) /\ last = Last(n, s)
                     /\ k \in 0..n /\ E = Part(s, 1, k) /\ R = Part(s, k + 1, n)
  <2>1. CASE R = {}
    <3>1. PICK n, s : Listing(E, n, s) /\ last = Last(n, s)
      BY <2>1 DEF Listed
    <3>2. n \in 0..n /\ E \cup R = E /\ E = Part(s, 1, n) /\ R = Part(s, n + 1, n)
      BY <2>1, <3>1 DEF Listing, Part
    <3> QED
      BY <3>1, <3>2
  <2>2. CASE R # {}
    <3>1. PICK n, s : \E k \in 0..(n - 1) :
                        /\ Listing(E \cup R, n, s) /\ last = Last(n, s)
                        /\ E = Part(s, 1, k) /\ R = Part(s, k + 1, n)
      BY <2>2 DEF Extended
    <3>2. PICK k \in 0..(n - 1) :
                        /\ Listing(E \cup R, n, s) /\ last = Last(n, s)
                        /\ E = Part(s, 1, k) /\ R = Part(s, k + 1, n)
      BY <3>1
    <3>3. n \in Nat /\ k \in 0..n
      BY <3>2 DEF Listing
    <3> QED
      BY <3>2, <3>3
  <2> QED
    BY <2>1, <2>2
<1> DEFINE t == Longer(s, n, row)
<1>2. /\ Listing(E \cup R \cup {row}, n + 1, t)
      /\ Last(n + 1, t) = {row.hash}
      /\ \A i \in 1..n : t[i] = s[i]
      /\ t[n + 1] = row
  BY <1>1, ListGrows
<1>3. n \in Nat /\ k \in 0..n /\ k \in 0..((n + 1) - 1)
  BY <1>1 DEF Listing
<1> HIDE DEF t
<1>4. E = Part(t, 1, k)
  <2>1. \A i \in 1..k : i \in 1..n
    BY <1>3
  <2> QED
    BY <1>1, <1>2, <2>1 DEF Part
<1>5. R \cup {row} = Part(t, k + 1, n + 1)
  <2>1. \A i \in (k + 1)..n : i \in 1..n /\ i \in (k + 1)..(n + 1)
    BY <1>3
  <2>2. /\ n + 1 \in (k + 1)..(n + 1)
        /\ \A i \in (k + 1)..(n + 1) : i = n + 1 \/ i \in (k + 1)..n
    BY <1>3
  <2> QED
    BY <1>1, <1>2, <2>1, <2>2 DEF Part
<1>6. E \cup R \cup {row} = E \cup (R \cup {row})
  OBVIOUS
<1> QED
  BY <1>2, <1>3, <1>4, <1>5, <1>6 DEF Extended

LEMMA NewEntryIsRow ==
    ASSUME NEW n, NEW c, NEW prev
    PROVE  NewEntry(n, c, prev) = Row(NewEntry(n, c, prev), AsWritten, NewEntry(n, c, prev).hash)
BY DEF NewEntry, Row, AsWritten

LEMMA InitIInv == Init => IInv
<1> SUFFICES ASSUME Init PROVE IInv
  OBVIOUS
<1>1. Written = {}
  BY DEF Init, Written, Idle
<1>2. \A c \in Chains : OfChain(entries, c) = {}
  BY DEF Init, OfChain
<1>3. Shape
  BY DEF Shape, Init, Idle
<1>4. NumbersDrawn
  BY <1>1 DEF NumbersDrawn, Init, Idle
<1>5. LocksHeld
  BY DEF LocksHeld, Init, Idle
<1>6. RowsBounded
  <2>1. IsFiniteSet({}) /\ Cardinality({}) = 0
    BY FS_EmptySet
  <2>2. entries = {}
    BY DEF Init
  <2>3. ASSUME NEW w \in Writers PROVE tx[w].rows = {} /\ tx[w].waiting = 0
    BY <2>3 DEF Init, Idle
  <2>4. ASSUME NEW w \in Writers
        PROVE  /\ IsFiniteSet(tx[w].rows)
               /\ Cardinality(tx[w].rows) <= MaxEntries
               /\ tx[w].waiting # 0 => Cardinality(tx[w].rows) < MaxEntries
    <3>1. tx[w].rows = {}
      BY <2>3, <2>4
    <3>2. tx[w].waiting = 0
      BY <2>3, <2>4
    <3>3. IsFiniteSet(tx[w].rows) /\ Cardinality(tx[w].rows) = 0
      BY <2>1, <3>1
    <3>4. Cardinality(tx[w].rows) <= MaxEntries
      BY <3>3, MaxEntriesAssumption
    <3> QED
      BY <3>2, <3>3, <3>4
  <2> QED
    BY <2>1, <2>2, <2>4 DEF RowsBounded
<1>7. ChainsListed
  <2> DEFINE s == [i \in 1..0 |-> 0]
  <2>1. Listing({}, 0, s) /\ Last(0, s) = {}
    BY DEF Listing, Last, Part
  <2>2. Listed({}, {})
    BY <2>1 DEF Listed
  <2> QED
    BY <1>2, <2>2 DEF ChainsListed, Init, Idle
<1>8. Unaltered
  BY <1>1 DEF Unaltered
<1> QED
  BY <1>3, <1>4, <1>5, <1>6, <1>7, <1>8 DEF IInv

LEMMA InsertKeepsIInv ==
    ASSUME IInv, NEW w \in Writers, NEW c \in Chains, recordTransition(w, c)
    PROVE  IInv'
<1> USE NullIsNoWriter DEF IInv
<1>1. /\ tx'[w] = [chain |-> c, rows |-> tx[w].rows, last |-> tx[w].last, waiting |-> nextSeq]
      /\ \A v \in Writers \ {w} : tx'[v] = tx[v]
      /\ tx' = [v \in Writers |-> tx'[v]]
      /\ nextSeq' = nextSeq + 1 /\ UNCHANGED <<entries, tip, lock>>
  BY DEF recordTransition, Shape
<1>2. \A v \in Writers : tx'[v].rows = tx[v].rows /\ tx'[v].last = tx[v].last
  BY <1>1
<1>3. Written' = Written
  BY <1>1, <1>2 DEF Written
<1>4. Shape'
  BY <1>1 DEF Shape
<1>5. NumbersDrawn'
  <2>1. ASSUME NEW e \in Written
        PROVE  Intact(e) /\ e.seq \in Nat /\ e.seq < nextSeq'
    BY <1>1 DEF NumbersDrawn
  <2>2. \A v \in Writers \ {w} : tx[v].waiting # nextSeq /\ \A e \in Written : e.seq # nextSeq
    BY DEF NumbersDrawn
  <2>3. \A v \in Writers : tx'[v].waiting \in Nat /\ tx'[v].waiting < nextSeq'
    BY <1>1 DEF NumbersDrawn
  <2>4. \A e \in Written : e.seq # nextSeq
    BY DEF NumbersDrawn
  <2>5. \A v \in Writers : tx'[v].waiting # 0 =>
          /\ \A e \in Written' : e.seq # tx'[v].waiting
          /\ \A u \in Writers \ {v} : tx'[u].waiting # tx'[v].waiting
    <3> SUFFICES ASSUME NEW v \in Writers, tx'[v].waiting # 0
                 PROVE  /\ \A e \in Written : e.seq # tx'[v].waiting
                        /\ \A u \in Writers \ {v} : tx'[u].waiting # tx'[v].waiting
      BY <1>3
    <3>1. CASE v = w
      BY <1>1, <2>2, <2>4, <3>1
    <3>2. CASE v # w
      BY <1>1, <2>2, <3>2 DEF NumbersDrawn
    <3> QED
      BY <3>1, <3>2
  <2>6. nextSeq' \in Nat \ {0}
    BY <1>1 DEF NumbersDrawn
  <2> QED
    BY <1>3, <2>1, <2>3, <2>5, <2>6 DEF NumbersDrawn, Intact, preimage
<1>6. tx[w].rows # {} => tx[w].chain = c
  BY DEF recordTransition, LocksHeld
<1>7. LocksHeld'
  <2>1. \A v \in Writers : tx[v].rows # {} => tx'[v].chain = tx[v].chain
    BY <1>1, <1>6
  <2>2. ASSUME NEW v \in Writers
        PROVE  /\ tx'[v].chain \in Chains \cup {Null}
               /\ tx'[v].waiting # 0 => tx'[v].chain # Null
               /\ tx'[v].rows # {} => tx'[v].chain # Null /\ lock'[tx'[v].chain] = v
               /\ \A e \in tx'[v].rows : e.chain = tx'[v].chain
    <3>1. tx'[v] = tx[v] \/ (v = w /\ tx'[v].chain = c)
      BY <1>1
    <3> QED
      BY <1>1, <1>2, <2>1, <3>1 DEF LocksHeld
  <2>3. ASSUME NEW d \in Chains, lock'[d] # Null
        PROVE  tx'[lock'[d]].rows # {} /\ tx'[lock'[d]].chain = d
    <3>1. lock[d] \in Writers /\ lock'[d] = lock[d]
      BY <1>1, <2>3 DEF Shape
    <3> QED
      BY <1>2, <2>1, <2>3, <3>1 DEF LocksHeld
  <2> QED
    BY <1>1, <2>2, <2>3 DEF LocksHeld
<1>8. RowsBounded'
  <2>1. Cardinality(tx[w].rows) < MaxEntries
    BY DEF recordTransition
  <2> QED
    BY <1>1, <1>2, <2>1 DEF RowsBounded
<1>9. ChainsListed'
  <2>1. \A v \in Writers : tx[v].rows # {} => tx'[v].chain = tx[v].chain
    BY <1>1, <1>6
  <2>2. \A d : OfChain(entries', d) = OfChain(entries, d)
    BY <1>1
  <2> QED
    BY <1>1, <1>2, <2>1, <2>2 DEF ChainsListed
<1>10. Unaltered'
  BY <1>3 DEF Unaltered
<1> QED
  BY <1>4, <1>5, <1>7, <1>8, <1>9, <1>10

LEMMA LinkKeepsIInv ==
    ASSUME IInv, NEW w \in Writers, ledger_entries_hash(w)
    PROVE  IInv'
<1> DEFINE c == tx[w].chain
           prev == IF tx[w].rows = {} THEN tip[c] ELSE tx[w].last
           row == NewEntry(tx[w].waiting, c, prev)
<1> USE NullIsNoWriter DEF IInv
<1>1. c \in Chains /\ tx[w].waiting # 0
  BY DEF ledger_entries_hash, LocksHeld
<1>2. /\ row.seq = tx[w].waiting /\ row.chain = c /\ row.prev = prev
      /\ Intact(row) /\ row.hash.seq = row.seq
  BY DEF NewEntry, Intact, preimage
<1>3. row = Row(row, AsWritten, row.hash)
  BY NewEntryIsRow DEF row
<1> HIDE DEF row
<1>4. /\ tx'[w] = [chain |-> c, rows |-> tx[w].rows \cup {row}, last |-> {row.hash}, waiting |-> 0]
      /\ \A v \in Writers \ {w} : tx'[v] = tx[v]
      /\ tx' = [v \in Writers |-> tx'[v]]
  BY DEF ledger_entries_hash, Shape, row
<1>5. /\ lock'[c] = w
      /\ \A d \in Chains \ {c} : lock'[d] = lock[d]
      /\ lock' \in [Chains -> Writers \cup {Null}]
      /\ lock[c] \in {Null, w}
      /\ nextSeq' = nextSeq /\ entries' = entries /\ tip' = tip
  BY <1>1 DEF ledger_entries_hash, Shape
<1>6. Written' = Written \cup {row}
  BY <1>4, <1>5 DEF Written
<1>7. Shape'
  BY <1>4, <1>5 DEF Shape
<1>8. NumbersDrawn'
  <2>1. row.seq \in Nat /\ row.seq < nextSeq
    BY <1>2 DEF NumbersDrawn
  <2>2. \A e \in Written' : Intact(e) /\ e.seq \in Nat /\ e.seq < nextSeq
    BY <1>2, <1>6, <2>1 DEF NumbersDrawn
  <2>3. \A v \in Writers : tx'[v].waiting # 0 =>
          /\ \A e \in Written' : e.seq # tx'[v].waiting
          /\ \A u \in Writers \ {v} : tx'[u].waiting # tx'[v].waiting
    BY <1>1, <1>2, <1>4, <1>6 DEF NumbersDrawn
  <2>4. \A v \in Writers : tx'[v].waiting \in Nat /\ tx'[v].waiting < nextSeq
    BY <1>4 DEF NumbersDrawn
  <2>5. \A e \in Written' : Intact(e)'
    BY <2>2 DEF Intact, preimage
  <2> QED
    BY <1>5, <2>2, <2>3, <2>4, <2>5 DEF NumbersDrawn
<1>9. LocksHeld'
  <2>1. \A v \in Writers \ {w} : tx[v].rows # {} => tx[v].chain # c
    BY <1>1, <1>5 DEF LocksHeld
  <2>2. \A v \in Writers \ {w} : tx[v].rows # {} => tx[v].chain # Null /\ lock'[tx[v].chain] = v
    BY <1>5, <2>1 DEF LocksHeld
  <2> QED
    BY <1>1, <1>2, <1>4, <1>5, <2>2 DEF LocksHeld
<1>10. RowsBounded'
  <2>1. Cardinality(tx[w].rows) < MaxEntries /\ IsFiniteSet(tx[w].rows)
    BY <1>1 DEF RowsBounded
  <2>2. /\ IsFiniteSet(tx[w].rows \cup {row})
        /\ \/ Cardinality(tx[w].rows \cup {row}) = Cardinality(tx[w].rows)
           \/ Cardinality(tx[w].rows \cup {row}) = Cardinality(tx[w].rows) + 1
    BY <2>1, FS_AddElement
  <2>3. Cardinality(tx[w].rows \cup {row}) <= MaxEntries
    BY <2>1, <2>2, FS_CardinalityType, MaxEntriesAssumption
  <2>4. ASSUME NEW v \in Writers
        PROVE  /\ IsFiniteSet(tx'[v].rows)
               /\ Cardinality(tx'[v].rows) <= MaxEntries
               /\ tx'[v].waiting # 0 => Cardinality(tx'[v].rows) < MaxEntries
    <3>1. CASE v = w
      <4>1. tx'[w].rows = tx[w].rows \cup {row} /\ tx'[w].waiting = 0
        BY <1>4
      <4> QED
        BY <2>2, <2>3, <3>1, <4>1
    <3>2. CASE v # w
      <4>1. tx'[v] = tx[v]
        BY <1>4, <3>2
      <4> QED
        BY <4>1 DEF RowsBounded
    <3> QED
      BY <3>1, <3>2
  <2> QED
    BY <1>5, <2>4 DEF RowsBounded
<1>11. ChainsListed'
  <2> DEFINE E == OfChain(entries, c)
  <2>1. IF tx[w].rows = {} THEN Listed(E, prev) ELSE Extended(E, tx[w].rows, prev)
    BY <1>1 DEF ChainsListed
  <2>2. E \cup tx[w].rows \subseteq Written
    BY DEF Written, OfChain
  <2>3. ASSUME NEW e \in E \cup tx[w].rows PROVE e.hash # row.hash
    <3>1. e \in Written
      BY <2>2
    <3>2. e.hash = preimage(e) /\ e.seq # tx[w].waiting
      BY <1>1, <3>1 DEF NumbersDrawn, Intact
    <3> QED
      BY <1>2, <3>2 DEF preimage
  <2>4. Extended(E, tx[w].rows \cup {row}, {row.hash})
    BY <1>2, <2>1, <2>3, RowExtendsList
  <2>5. \A d : OfChain(entries', d) = OfChain(entries, d)
    BY <1>5
  <2>6. ASSUME NEW v \in Writers, tx'[v].rows # {}
        PROVE  Extended(OfChain(entries, tx'[v].chain), tx'[v].rows, tx'[v].last)
    <3>1. CASE v = w
      BY <1>4, <2>4, <3>1
    <3>2. CASE v # w
      <4>1. tx'[v] = tx[v]
        BY <1>4, <3>2
      <4> QED
        BY <2>6, <4>1 DEF ChainsListed
    <3> QED
      BY <3>1, <3>2
  <2>7. \A d \in Chains : Listed(OfChain(entries, d), tip'[d])
    BY <1>5 DEF ChainsListed
  <2> QED
    BY <2>5, <2>6, <2>7 DEF ChainsListed
<1>12. Unaltered'
  BY <1>3, <1>6 DEF Unaltered
<1> QED
  BY <1>7, <1>8, <1>9, <1>10, <1>11, <1>12

LEMMA CommitKeepsIInv ==
    ASSUME IInv, NEW w \in Writers, Commit(w)
    PROVE  IInv'
<1> DEFINE c == tx[w].chain
<1> USE NullIsNoWriter DEF IInv
<1>1. c \in Chains /\ lock[c] = w /\ tx[w].rows # {} /\ \A e \in tx[w].rows : e.chain = c
  BY DEF Commit, LocksHeld
<1>2. /\ tx'[w] = Idle
      /\ \A v \in Writers \ {w} : tx'[v] = tx[v]
      /\ tx' = [v \in Writers |-> tx'[v]]
      /\ nextSeq' = nextSeq /\ entries' = entries \cup tx[w].rows
  BY DEF Commit, Shape
<1>3. /\ lock'[c] = Null /\ tip'[c] = tx[w].last
      /\ \A d \in Chains \ {c} : lock'[d] = lock[d] /\ tip'[d] = tip[d]
      /\ lock' \in [Chains -> Writers \cup {Null}]
      /\ tip' = [d \in Chains |-> tip'[d]]
  BY <1>1 DEF Commit, Shape
<1>4. Written' = Written
  BY <1>2 DEF Written, Idle
<1>5. Shape'
  BY <1>2, <1>3 DEF Shape, Idle
<1>6. NumbersDrawn'
  BY <1>2, <1>4 DEF NumbersDrawn, Intact, preimage, Idle
<1>7. \A v \in Writers \ {w} : tx[v].rows # {} => tx[v].chain # c
  BY <1>1 DEF LocksHeld
<1>8. LocksHeld'
  <2>1. \A d \in Chains : lock'[d] # Null => lock'[d] \in Writers \ {w} /\ lock[d] = lock'[d]
    <3> SUFFICES ASSUME NEW d \in Chains, lock'[d] # Null
                 PROVE  lock'[d] \in Writers \ {w} /\ lock[d] = lock'[d]
      OBVIOUS
    <3>1. d # c /\ lock'[d] = lock[d] /\ lock[d] \in Writers
      BY <1>3 DEF Shape
    <3> QED
      BY <1>1, <3>1 DEF LocksHeld
  <2> QED
    BY <1>2, <1>3, <1>7, <2>1 DEF LocksHeld, Idle
<1>9. RowsBounded'
  <2>1. IsFiniteSet(entries') /\ IsFiniteSet({}) /\ Cardinality({}) = 0
    BY <1>2, FS_Union, FS_EmptySet DEF RowsBounded
  <2>2. tx'[w].rows = {} /\ tx'[w].waiting = 0
    BY <1>2 DEF Idle
  <2>3. ASSUME NEW v \in Writers
        PROVE  /\ IsFiniteSet(tx'[v].rows)
               /\ Cardinality(tx'[v].rows) <= MaxEntries
               /\ tx'[v].waiting # 0 => Cardinality(tx'[v].rows) < MaxEntries
    <3>1. CASE v = w
      BY <2>1, <2>2, <3>1, MaxEntriesAssumption
    <3>2. CASE v # w
      <4>1. tx'[v] = tx[v]
        BY <1>2, <3>2
      <4> QED
        BY <4>1 DEF RowsBounded
    <3> QED
      BY <3>1, <3>2
  <2> QED
    BY <2>1, <2>3 DEF RowsBounded
<1>10. ChainsListed'
  <2>1. OfChain(entries', c) = OfChain(entries, c) \cup tx[w].rows
    BY <1>1, <1>2 DEF OfChain
  <2>2. \A d \in Chains \ {c} : OfChain(entries', d) = OfChain(entries, d)
    BY <1>1, <1>2 DEF OfChain
  <2>3. Listed(OfChain(entries, c) \cup tx[w].rows, tx[w].last)
    BY <1>1 DEF ChainsListed, Extended, Listed
  <2>4. \A d \in Chains : Listed(OfChain(entries', d), tip'[d])
    BY <1>1, <1>3, <2>1, <2>2, <2>3 DEF ChainsListed
  <2>5. ASSUME NEW v \in Writers, tx'[v].rows # {}
        PROVE  Extended(OfChain(entries', tx'[v].chain), tx'[v].rows, tx'[v].last)
    <3>1. v # w /\ tx'[v] = tx[v] /\ tx[v].chain \in Chains \ {c}
      BY <1>2, <1>7, <2>5 DEF Idle, LocksHeld
    <3> QED
      BY <2>2, <2>5, <3>1 DEF ChainsListed
  <2> QED
    BY <2>4, <2>5 DEF ChainsListed
<1>11. Unaltered'
  BY <1>4 DEF Unaltered
<1> QED
  BY <1>5, <1>6, <1>8, <1>9, <1>10, <1>11

LEMMA RollbackKeepsIInv ==
    ASSUME IInv, NEW w \in Writers, Rollback(w)
    PROVE  IInv'
<1> DEFINE c == tx[w].chain
<1> USE NullIsNoWriter DEF IInv
<1>1. c \in Chains
  BY DEF Rollback, LocksHeld
<1>2. /\ tx'[w] = Idle
      /\ \A v \in Writers \ {w} : tx'[v] = tx[v]
      /\ tx' = [v \in Writers |-> tx'[v]]
      /\ nextSeq' = nextSeq /\ entries' = entries /\ tip' = tip
  BY DEF Rollback, Shape
<1>3. /\ lock[c] # w => lock'[c] = lock[c]
      /\ lock[c] = w => lock'[c] = Null
      /\ \A d \in Chains \ {c} : lock'[d] = lock[d]
      /\ lock' \in [Chains -> Writers \cup {Null}]
  BY <1>1 DEF Rollback, Shape
<1>4. Written' \subseteq Written
  BY <1>2 DEF Written, Idle
<1>5. Shape'
  BY <1>2, <1>3 DEF Shape, Idle
<1>6. NumbersDrawn'
  BY <1>2, <1>4 DEF NumbersDrawn, Intact, preimage, Idle
<1>7. LocksHeld'
  <2>1. \A d \in Chains : lock[d] = w => d = c
    BY DEF LocksHeld
  <2>2. \A d \in Chains : lock'[d] # Null => lock'[d] \in Writers \ {w} /\ lock[d] = lock'[d]
    <3> SUFFICES ASSUME NEW d \in Chains, lock'[d] # Null
                 PROVE  lock'[d] \in Writers \ {w} /\ lock[d] = lock'[d]
      OBVIOUS
    <3>1. lock'[d] = lock[d] /\ lock[d] # w
      BY <1>3, <2>1
    <3> QED
      BY <3>1 DEF Shape
  <2>3. \A v \in Writers \ {w} : tx[v].rows # {} => lock'[tx[v].chain] = v
    <3> SUFFICES ASSUME NEW v \in Writers \ {w}, tx[v].rows # {}
                 PROVE  lock'[tx[v].chain] = v
      OBVIOUS
    <3>1. tx[v].chain \in Chains /\ lock[tx[v].chain] = v
      BY DEF LocksHeld
    <3> QED
      BY <1>1, <1>3, <3>1
  <2> QED
    BY <1>2, <2>2, <2>3 DEF LocksHeld, Idle
<1>8. RowsBounded'
  BY <1>2, MaxEntriesAssumption, FS_EmptySet DEF RowsBounded, Idle
<1>9. ChainsListed'
  <2>1. \A d : OfChain(entries', d) = OfChain(entries, d)
    BY <1>2
  <2> QED
    BY <1>2, <2>1 DEF ChainsListed, Idle
<1>10. Unaltered'
  BY <1>4 DEF Unaltered
<1> QED
  BY <1>5, <1>6, <1>7, <1>8, <1>9, <1>10

LEMMA NextKeepsIInv == IInv /\ [Next]_vars => IInv'
<1> SUFFICES ASSUME IInv, [Next]_vars PROVE IInv'
  OBVIOUS
<1>1. CASE UNCHANGED vars
  <2> USE <1>1 DEF vars, IInv
  <2>1. Shape'
    BY DEF Shape
  <2>2. NumbersDrawn'
    BY DEF NumbersDrawn, Written, Intact, preimage
  <2>3. LocksHeld'
    BY DEF LocksHeld
  <2>4. RowsBounded'
    BY DEF RowsBounded
  <2>5. ChainsListed'
    BY DEF ChainsListed
  <2>6. Unaltered'
    BY DEF Unaltered, Written
  <2> QED
    BY <2>1, <2>2, <2>3, <2>4, <2>5, <2>6
<1>2. CASE Next
  BY <1>2, InsertKeepsIInv, LinkKeepsIInv, CommitKeepsIInv, RollbackKeepsIInv DEF Next
<1> QED
  BY <1>1, <1>2

-----------------------------------------------------------------------------
(* The theorems. *)

THEOREM IInvInvariant == Spec => []IInv
BY InitIInv, NextKeepsIInv, PTL DEF Spec

\* Of the committed entries of a chain: their list, what the walk makes of it,
\* and its end.
LEMMA ChainIsListed ==
    ASSUME IInv, NEW c \in Chains
    PROVE  LET E == OfChain(entries, c)
           IN  /\ IsFiniteSet(E)
               /\ Listing(E, Cardinality(E), visit(E))
               /\ tip[c] = Last(Cardinality(E), visit(E))
               /\ E # {} => verifySingleChain(E) = "valid"
<1> DEFINE E == OfChain(entries, c)
<1>1. PICK n, s : Listing(E, n, s) /\ tip[c] = Last(n, s)
  BY DEF IInv, ChainsListed, Listed
<1>2. \A e \in E : Intact(e)
  BY DEF IInv, NumbersDrawn, Written, OfChain
<1> HIDE DEF E
<1>3. /\ IsFiniteSet(E) /\ Cardinality(E) = n
      /\ visit(E) = s
      /\ n # 0 => verifySingleChain(E) = "valid"
  BY <1>1, <1>2, ListedIsWalked
<1>4. E # {} => n # 0
  BY <1>1 DEF Listing, Part
<1> QED
  BY <1>1, <1>3, <1>4 DEF E

\* Concurrent appends never fork a chain or begin it twice, for any number of
\* transactions and entries (the trigger's lock on the tip row).
THEOREM ChainsDoNotFork == Spec => []OneSuccessor
<1>1. IInv => OneSuccessor
  <2> SUFFICES ASSUME IInv, NEW e \in entries, NEW f \in entries,
                      e.chain = f.chain, e.prev = f.prev
               PROVE  e = f
    BY DEF OneSuccessor
  <2> DEFINE E == OfChain(entries, e.chain)
  <2>1. e.chain \in Chains /\ e \in E /\ f \in E
    BY DEF IInv, LocksHeld, OfChain
  <2>2. PICK n, s : Listing(E, n, s)
    BY <2>1 DEF IInv, ChainsListed, Listed
  <2> HIDE DEF E
  <2>3. PICK i \in 1..n, j \in 1..n : e = s[i] /\ f = s[j]
    BY <2>1, <2>2 DEF Listing, Part
  <2>4. s[i].prev = s[j].prev
    BY <2>3
  <2>5. i = j
    BY <2>2, <2>4, PlaceByLink
  <2> QED
    BY <2>3, <2>5
<1> QED
  BY <1>1, IInvInvariant, PTL

\* The predecessor an entry claims is committed, in its chain: no rollback
\* leaves a link to a row that is not there.
THEOREM PredecessorsStay == Spec => []PredecessorCommitted
<1>1. IInv => PredecessorCommitted
  <2> SUFFICES ASSUME IInv, NEW e \in entries, NEW h \in e.prev
               PROVE  \E f \in entries : f.chain = e.chain /\ f.hash = h
    BY DEF PredecessorCommitted
  <2> DEFINE E == OfChain(entries, e.chain)
  <2>1. e.chain \in Chains /\ e \in E
    BY DEF IInv, LocksHeld, OfChain
  <2>2. PICK n, s : Listing(E, n, s)
    BY <2>1 DEF IInv, ChainsListed, Listed
  <2>3. \E f \in E : f.hash = h
    <3> HIDE DEF E
    <3>1. PICK i \in 1..n : e = s[i]
      BY <2>1, <2>2 DEF Listing, Part
    <3>2. i # 1 /\ h = s[i - 1].hash /\ i - 1 \in 1..n
      BY <2>2, <3>1, PlaceByLink
    <3> QED
      BY <2>2, <3>2 DEF Listing
  <2> QED
    BY <2>3 DEF OfChain
<1> QED
  BY <1>1, IInvInvariant, PTL

\* The tip names the end of the line: an entry that no other one claims, or
\* nothing as long as the chain is empty.
TipEndsChain ==
    \A c \in Chains :
        /\ tip[c] = {} => OfChain(entries, c) = {}
        /\ \A h \in tip[c] : \E e \in OfChain(entries, c) : e.hash = h
        /\ tip[c] # {} => \A e \in OfChain(entries, c) : e.prev # tip[c]

THEOREM TipIsTheEnd == Spec => []TipEndsChain
<1>1. ASSUME IInv, NEW c \in Chains
      PROVE  /\ tip[c] = {} => OfChain(entries, c) = {}
             /\ \A h \in tip[c] : \E e \in OfChain(entries, c) : e.hash = h
             /\ tip[c] # {} => \A e \in OfChain(entries, c) : e.prev # tip[c]
  <2> DEFINE E == OfChain(entries, c)
  <2>1. PICK n, s : Listing(E, n, s) /\ tip[c] = Last(n, s)
    BY <1>1 DEF IInv, ChainsListed, Listed
  <2> HIDE DEF E
  <2>2. CASE n = 0
    <3>1. tip[c] = {} /\ E = Part(s, 1, 0)
      BY <2>1, <2>2 DEF Listing, Last
    <3>2. Part(s, 1, 0) = {}
      BY DEF Part
    <3> QED
      BY <3>1, <3>2 DEF E
  <2>3. CASE n # 0
    <3>1. tip[c] = {s[n].hash} /\ s[n] \in E
      BY <2>1, <2>3 DEF Listing, Last
    <3>2. Claimants(E, s[n].hash) = {}
      BY <2>1, <2>3, ListedLinks
    <3> QED
      BY <3>1, <3>2 DEF Claimants, E
  <2> QED
    BY <2>2, <2>3 DEF E
<1>2. IInv => TipEndsChain
  BY <1>1 DEF TipEndsChain
<1> QED
  BY <1>2, IInvInvariant, PTL

\* Whatever the order in which the numbers were drawn, committed and lost, the
\* verifier accepts a ledger that nobody touched.
THEOREM UntouchedIsAccepted == Spec => []UntouchedVerifies
<1>1. ASSUME IInv PROVE UntouchedVerifies
  <2>1. IsFiniteSet(entries) /\ Cardinality(entries) \in Nat
    BY <1>1, FS_CardinalityType DEF IInv, RowsBounded
  <2>2. FirstRows(Cardinality(entries)) = entries
    <3> SUFFICES ASSUME NEW e \in entries
                 PROVE  Cardinality({f \in entries : f.seq < e.seq}) < Cardinality(entries)
      BY DEF FirstRows
    <3> DEFINE Before == {f \in entries : f.seq < e.seq}
    <3>1. e \notin Before
      BY <1>1 DEF IInv, NumbersDrawn, Written
    <3>2. /\ IsFiniteSet(entries \ {e})
          /\ Cardinality(entries \ {e}) = Cardinality(entries) - 1
      BY <2>1, FS_RemoveElement
    <3>3. Before \in SUBSET (entries \ {e})
      BY <3>1
    <3> HIDE DEF Before
    <3>4. IsFiniteSet(Before) /\ Cardinality(Before) <= Cardinality(entries \ {e})
      BY <3>2, <3>3, FS_Subset
    <3>5. Cardinality(Before) \in Nat
      BY <3>4, FS_CardinalityType
    <3> QED
      BY <2>1, <3>2, <3>4, <3>5 DEF Before
  <2>3. ASSUME NEW e \in entries PROVE verifySingleChain(OfChain(entries, e.chain)) = "valid"
    <3>1. e.chain \in Chains /\ OfChain(entries, e.chain) # {}
      BY <1>1 DEF IInv, LocksHeld, OfChain
    <3> QED
      BY <1>1, <3>1, ChainIsListed
  <2> QED
    BY <2>2, <2>3 DEF UntouchedVerifies, verifyChain
<1> QED
  BY <1>1, IInvInvariant, PTL

\* Each chain is an append-only list: a commit puts the transaction's entries
\* at the end of one list, in the order of their links, and no other step
\* changes a list.
LEMMA InitOfLog == Init => Log!Init
<1> SUFFICES ASSUME Init PROVE Log!Init
  OBVIOUS
<1>1. visit({}) = << >>
  <2> DEFINE s == [i \in 1..0 |-> 0]
  <2>1. Listing({}, 0, s)
    BY DEF Listing, Part
  <2>2. visit({}) = s
    BY <2>1, ListedIsWalked
  <2> QED
    BY <2>2
<1>2. \A c \in Chains : OfChain(entries, c) = {}
  BY DEF Init, OfChain
<1> QED
  BY <1>1, <1>2 DEF Log!Init

\* The list of F begins with the list of E.
Continues(E, F) ==
    /\ Cardinality(E) <= Cardinality(F)
    /\ \A b \in 0..Cardinality(E) : Part(visit(F), 1, b) = Part(visit(E), 1, b)

LEMMA CommitAppends ==
    ASSUME IInv, NEW w \in Writers, Commit(w)
    PROVE  /\ Log!Next
           /\ \A d \in Chains : Continues(OfChain(entries, d), OfChain(entries', d))
<1> DEFINE c == tx[w].chain
           E == OfChain(entries, c)
           R == tx[w].rows
<1> USE NullIsNoWriter
<1>1. /\ c \in Chains /\ R # {} /\ \A e \in R : e.chain = c
      /\ entries' = entries \cup R
  BY DEF Commit, IInv, LocksHeld
<1>2. PICK n, s : \E k \in 0..(n - 1) :
        Listing(E \cup R, n, s) /\ E = Part(s, 1, k) /\ R = Part(s, k + 1, n)
  BY <1>1 DEF IInv, ChainsListed, Extended
<1>3. PICK k \in 0..(n - 1) :
        Listing(E \cup R, n, s) /\ E = Part(s, 1, k) /\ R = Part(s, k + 1, n)
  BY <1>2
<1>4. OfChain(entries', c) = E \cup R
  BY <1>1 DEF OfChain
<1>5. \A d \in Chains \ {c} : OfChain(entries', d) = OfChain(entries, d)
  BY <1>1 DEF OfChain
<1>6. \A e \in E \cup R : Intact(e)
  BY DEF IInv, NumbersDrawn, Written, OfChain
<1> HIDE DEF E, R
<1>7. visit(E \cup R) = s /\ n \in Nat /\ k \in Nat /\ k \in 0..n /\ s \in [1..n -> E \cup R]
  <2>1. n \in Nat /\ s \in [1..n -> E \cup R]
    BY <1>3 DEF Listing
  <2>2. visit(E \cup R) = s
    BY <1>3, <1>6, ListedIsWalked
  <2> QED
    BY <1>3, <2>1, <2>2
<1>8. visit(E) = [i \in 1..k |-> s[i]]
  <2>1. Listing(E, k, [i \in 1..k |-> s[i]])
    BY <1>3, <1>7, ListedPrefix
  <2> QED
    BY <1>6, <2>1, ListedIsWalked
<1>9. n - k = Cardinality(R) /\ n - k <= MaxEntries
  <2>1. Cardinality(R) = (n + 1) - (k + 1)
    BY <1>3, <1>7, ListedSize
  <2>2. Cardinality(R) <= MaxEntries
    BY DEF IInv, RowsBounded, R
  <2> QED
    BY <1>7, <2>1, <2>2
<1> DEFINE old == [i \in 1..k |-> s[i]]
<1>10. Len(s) = n /\ Len(old) = k
  BY <1>7, LengthOfList
<1>11. SubSeq(s, 1, k) = old
  <2>1. s \in Seq(E \cup R) /\ k \in 0..Len(s)
    BY <1>7, <1>10, SeqDef
  <2>2. SubSeq(s, 1, k) = Restrict(s, 1..k)
    BY <2>1, SubSeqRestrict
  <2> QED
    BY <2>2 DEF Restrict
<1>12. Len(s) \in (Len(old) + 1)..(Len(old) + MaxEntries)
  BY <1>3, <1>7, <1>9, <1>10, MaxEntriesAssumption
<1>13. \A d \in Chains \ {c} : visit(OfChain(entries', d)) = visit(OfChain(entries, d))
  BY <1>5
<1>14. visit(OfChain(entries', c)) = s /\ visit(OfChain(entries, c)) = old
  BY <1>4, <1>7, <1>8 DEF E
<1>15. Log!Next
  BY <1>1, <1>10, <1>11, <1>12, <1>13, <1>14 DEF Log!Next, Log!Extend
<1>16. Continues(E, E \cup R)
  <2>1. Cardinality(E) = k /\ Cardinality(E \cup R) = n
    <3>1. Listing(E, k, [i \in 1..k |-> s[i]])
      BY <1>3, <1>7, ListedPrefix
    <3> QED
      BY <1>3, <1>6, <3>1, ListedIsWalked
  <2>2. ASSUME NEW b \in 0..k PROVE Part(s, 1, b) = Part(old, 1, b)
    <3>1. \A i \in 1..b : old[i] = s[i]
      BY <1>7
    <3> QED
      BY <3>1 DEF Part
  <2> QED
    <3>1. visit(E) = old /\ visit(E \cup R) = s /\ k <= n
      BY <1>7, <1>8
    <3> HIDE DEF old
    <3> QED
      BY <2>1, <2>2, <3>1 DEF Continues
<1>17. \A d \in Chains \ {c} : Continues(OfChain(entries, d), OfChain(entries', d))
  <2> SUFFICES ASSUME NEW d \in Chains \ {c} PROVE Continues(OfChain(entries, d), OfChain(entries, d))
    BY <1>5
  <2>1. IsFiniteSet(OfChain(entries, d))
    BY ChainIsListed
  <2>2. Cardinality(OfChain(entries, d)) \in Nat
    BY <2>1, FS_CardinalityType
  <2> QED
    BY <2>2 DEF Continues
<1> QED
  BY <1>4, <1>15, <1>16, <1>17 DEF E

THEOREM LedgerIsAppendOnly == Spec => AppendsAtTheEnd
<1>1. ASSUME IInv, [Next]_vars
      PROVE  Log!Next \/ UNCHANGED [c \in Chains |-> visit(OfChain(entries, c))]
  <2>1. CASE entries' = entries
    BY <2>1
  <2>2. ASSUME NEW w \in Writers, Commit(w) PROVE Log!Next
    BY <1>1, <2>2, CommitAppends
  <2> QED
    BY <1>1, <2>1, <2>2 DEF Next, vars, recordTransition, ledger_entries_hash, Rollback
<1> QED
  BY <1>1, InitOfLog, IInvInvariant, PTL DEF Spec, AppendsAtTheEnd, Log!Spec

-----------------------------------------------------------------------------
(* Damage. *)

Replaced(s, k, x) == [i \in 1..k |-> IF i = k THEN x ELSE s[i]]

Stops(F, x) == ~Intact(x) \/ Claimants(F, x.hash) = {}

\* With x in the place of the k-th entry, claiming what that claimed, the walk
\* gets as far as x and stops there if x does not hold or nobody claims it.
LEMMA WalkToReplacement ==
    ASSUME NEW E, NEW n, NEW s, Listing(E, n, s), \A e \in E : Intact(e),
           NEW k \in 1..n, NEW x, x \notin E, x.prev = s[k].prev,
           NEW F, F = (E \ {s[k]}) \cup {x},
           Stops(F, x)
    PROVE  /\ IsFiniteSet(F) /\ Cardinality(F) = n
           /\ Path(F, k, Replaced(s, k, x))
<1> DEFINE t == Replaced(s, k, x)
<1> USE DEF Replaced
<1>1. n \in Nat /\ s \in [1..n -> E] /\ \A i, j \in 1..n : s[i] = s[j] => i = j
  BY DEF Listing
<1>2. IsFiniteSet(F) /\ Cardinality(F) = n
  <2>1. IsFiniteSet(E) /\ Cardinality(E) = n
    BY ListedIsWalked
  <2>2. s[k] \in E
    BY <1>1
  <2>3. IsFiniteSet(E \ {s[k]}) /\ Cardinality(E \ {s[k]}) = n - 1
    BY <2>1, <2>2, FS_RemoveElement
  <2>4. x \notin E \ {s[k]}
    OBVIOUS
  <2>5. IsFiniteSet(F) /\ Cardinality(F) = (n - 1) + 1
    BY <2>3, <2>4, FS_AddElement
  <2> QED
    BY <1>1, <2>5
<1>3. \A i \in 1..(k - 1) : i \in 1..n /\ i \in 1..(n - 1) /\ i + 1 \in 1..n /\ i # k
  BY <1>1
<1>4. \A i \in 1..(k - 1) : s[i] \in F
  BY <1>1, <1>3
<1>5. t \in [1..k -> F]
  <2>1. ASSUME NEW i \in 1..k PROVE t[i] \in F
    <3>1. i = k \/ i \in 1..(k - 1)
      BY <1>1
    <3> QED
      BY <1>4, <3>1
  <2> QED
    BY <2>1
<1>6. Roots(F) = {t[1]}
  <2>1. n # 0 /\ 1 \in 1..n /\ 1 \in 1..k /\ s[k] \in E
    BY <1>1
  <2>2. Roots(E) = {s[1]}
    BY <2>1, ListedLinks
  <2>3. CASE k = 1
    <3>1. Roots(F) = {x}
      BY <2>1, <2>2, <2>3 DEF Roots
    <3> QED
      BY <2>1, <2>3, <3>1
  <2>4. CASE k # 1
    <3>1. s[k] \notin Roots(E)
      BY <1>1, <2>1, <2>2, <2>4
    <3>2. Roots(F) = {s[1]}
      BY <2>1, <2>2, <3>1 DEF Roots
    <3> QED
      BY <2>1, <2>4, <3>2
  <2> QED
    BY <2>3, <2>4
<1>7. ASSUME NEW i \in 1..(k - 1)
      PROVE  Intact(t[i]) /\ Claimants(F, t[i].hash) = {t[i + 1]}
  <2>1. t[i] = s[i] /\ s[i] \in E /\ s[k] \in E
    BY <1>1, <1>3
  <2>2. Claimants(E, s[i].hash) = {s[i + 1]}
    BY <1>3, ListedLinks
  <2>3. CASE i + 1 = k
    <3>1. Claimants(F, s[i].hash) = {x}
      BY <2>1, <2>2, <2>3 DEF Claimants
    <3>2. t[i + 1] = x
      BY <1>1, <2>3
    <3> QED
      BY <2>1, <3>1, <3>2
  <2>4. CASE i + 1 # k
    <3>1. i + 1 \in 1..(k - 1) /\ i + 1 \in 1..k
      BY <1>1, <2>4
    <3>2. s[k] # s[i + 1] /\ t[i + 1] = s[i + 1]
      BY <1>1, <1>3, <2>4, <3>1
    <3>3. s[k] \notin Claimants(E, s[i].hash)
      BY <2>2, <3>2
    <3>4. Claimants(F, s[i].hash) = {s[i + 1]}
      BY <2>1, <2>2, <3>3 DEF Claimants
    <3> QED
      BY <2>1, <3>2, <3>4
  <2> QED
    BY <2>3, <2>4
<1>8. t[k] = x /\ k \in 1..Cardinality(F)
  BY <1>1, <1>2
<1>9. ~Intact(t[k]) \/ \A e : Claimants(F, t[k].hash) # {e}
  BY <1>8 DEF Stops
<1> HIDE DEF t
<1>10. Path(F, k, t)
  BY <1>5, <1>6, <1>7, <1>8, <1>9 DEF Path
<1> QED
  BY <1>2, <1>10 DEF t

\* Without the k-th entry, not the last, the walk stops before the end.
LEMMA RemovalIsReported ==
    ASSUME NEW E, NEW n, NEW s, Listing(E, n, s), \A e \in E : Intact(e),
           NEW k \in 1..n, k # n
    PROVE  verifySingleChain(E \ {s[k]}) # "valid"
<1> DEFINE F == E \ {s[k]}
<1>1. n \in Nat /\ s \in [1..n -> E] /\ \A i, j \in 1..n : s[i] = s[j] => i = j
  BY DEF Listing
<1>2. IsFiniteSet(F) /\ Cardinality(F) = n - 1
  <2>1. IsFiniteSet(E) /\ Cardinality(E) = n
    BY ListedIsWalked
  <2>2. s[k] \in E
    BY <1>1
  <2> QED
    BY <2>1, <2>2, FS_RemoveElement
<1>3. n # 0 /\ 1 \in 1..n
  BY <1>1
<1>4. Roots(E) = {s[1]}
  BY <1>3, ListedLinks
<1>5. CASE k = 1
  <2>1. Roots(F) = {}
    BY <1>4, <1>5 DEF Roots
  <2> QED
    BY <2>1 DEF verifySingleChain
<1>6. CASE k # 1
  <2> DEFINE m == k - 1
             t == [i \in 1..m |-> s[i]]
  <2>1. m \in Nat /\ m \in 1..(n - 1) /\ m + 1 = k /\ m # n - 1
    BY <1>1, <1>6
  <2>2. \A i \in 1..m : i \in 1..n /\ i \in 1..(n - 1) /\ i # k
    BY <1>1
  <2>3. t \in [1..m -> F]
    BY <1>1, <2>2
  <2>4. Roots(F) = {t[1]}
    <3>1. 1 \in 1..m /\ s[k] # s[1]
      BY <1>1, <1>3, <1>6
    <3>2. Roots(F) = {s[1]}
      BY <1>4, <3>1 DEF Roots
    <3> QED
      BY <3>1, <3>2
  <2>5. ASSUME NEW i \in 1..(m - 1)
        PROVE  Intact(t[i]) /\ Claimants(F, t[i].hash) = {t[i + 1]}
    <3>1. i \in 1..m /\ i + 1 \in 1..m
      BY <2>1
    <3>2. t[i] = s[i] /\ t[i + 1] = s[i + 1] /\ s[i] \in E /\ s[k] # s[i + 1]
      BY <1>1, <2>2, <3>1
    <3>3. Claimants(E, s[i].hash) = {s[i + 1]}
      BY <2>2, <3>1, ListedLinks
    <3>4. Claimants(F, s[i].hash) = {s[i + 1]}
      BY <3>2, <3>3 DEF Claimants
    <3> QED
      BY <3>2, <3>4
  <2>6. t[m] = s[m] /\ s[m] \in E /\ Claimants(F, s[m].hash) = {}
    <3>1. m \in 1..m
      BY <2>1
    <3>2. Claimants(E, s[m].hash) = {s[k]}
      BY <2>1, ListedLinks
    <3> QED
      BY <1>1, <2>2, <3>1, <3>2 DEF Claimants
  <2> HIDE DEF F, t
  <2>7. Path(F, m, t)
    BY <1>2, <2>1, <2>3, <2>4, <2>5, <2>6 DEF Path
  <2>8. verifySingleChain(F) = "unreachable"
    <3>1. ~(Cardinality(Claimants(F, t[m].hash)) > 1)
      BY <2>6, FS_EmptySet
    <3>2. Intact(t[m])
      BY <2>6
    <3> QED
      BY <1>2, <2>1, <2>7, <3>1, <3>2, Verdict
  <2> QED
    BY <2>8 DEF F
<1> QED
  BY <1>5, <1>6

LEMMA RowFields ==
    ASSUME NEW e, NEW body, NEW hash
    PROVE  /\ Row(e, body, hash).seq = e.seq /\ Row(e, body, hash).chain = e.chain
           /\ Row(e, body, hash).prev = e.prev
           /\ Row(e, body, hash).body = body /\ Row(e, body, hash).hash = hash
           /\ preimage(Row(e, body, hash)).body = body
BY DEF Row, preimage

LEMMA TwoBodies == AsWritten # Altered
BY DEF AsWritten, Altered

WithBody(e, body) == [e EXCEPT !.body = body]
WithHash(e, hash) == [e EXCEPT !.hash = hash]

LEMMA RowChanged ==
    ASSUME NEW e, NEW body, NEW hash, NEW other
    PROVE  /\ WithBody(Row(e, body, hash), other) = Row(e, other, hash)
           /\ WithHash(Row(e, body, hash), other) = Row(e, body, other)
BY DEF Row, WithBody, WithHash

\* The verifier reports an entry altered, whether or not its digest was made
\* anew, and an entry gone, in a chain of any length and at any place but,
\* for the latter two, the last.
THEOREM DamageIsSeen == Spec => []DamageIsReported
<1>1. ASSUME IInv, NEW e \in entries
      PROVE  LET chain  == OfChain(entries, e.chain)
                 others == chain \ {e}
                 forged == [e EXCEPT !.body = "altered"]
                 sealed == [forged EXCEPT !.hash = preimage(forged)]
             IN  /\ verifySingleChain(others \cup {forged}) = "altered"
                 /\ e.hash \notin tip[e.chain] =>
                      /\ verifySingleChain(others) # "valid"
                      /\ verifySingleChain(others \cup {sealed}) # "valid"
  <2> DEFINE E      == OfChain(entries, e.chain)
             others == E \ {e}
             forged == WithBody(e, Altered)
             sealed == WithHash(forged, preimage(forged))
  <2>1. e.chain \in Chains /\ e \in E
    BY <1>1 DEF IInv, LocksHeld, OfChain
  <2>2. PICK n, s : Listing(E, n, s) /\ tip[e.chain] = Last(n, s)
    BY <1>1, <2>1 DEF IInv, ChainsListed, Listed
  <2>3. PICK k \in 1..n : e = s[k]
    BY <2>1, <2>2 DEF Listing, Part
  <2>4. \A f \in E : Intact(f)
    BY <1>1 DEF IInv, NumbersDrawn, Written, OfChain
  <2>5. \A f \in E : f = Row(f, AsWritten, f.hash)
    BY <1>1 DEF IInv, Unaltered, Written, OfChain
  <2>6. ASSUME NEW f \in E PROVE f.body = AsWritten /\ f.hash.body = AsWritten
    <3>1. f = Row(f, AsWritten, f.hash) /\ f.hash = preimage(f)
      BY <2>4, <2>5 DEF Intact
    <3>2. /\ Row(f, AsWritten, f.hash).body = AsWritten
          /\ preimage(Row(f, AsWritten, f.hash)).body = AsWritten
      BY RowFields
    <3> QED
      BY <3>1, <3>2
  <2>7. forged = Row(e, Altered, e.hash)
    <3>1. e = Row(e, AsWritten, e.hash)
      BY <2>1, <2>5
    <3>2. WithBody(Row(e, AsWritten, e.hash), Altered) = Row(e, Altered, e.hash)
      BY RowChanged
    <3> QED
      BY <3>1, <3>2
  <2>8. sealed = Row(e, Altered, preimage(forged))
    BY <2>7, RowChanged
  <2>9. /\ forged.prev = e.prev /\ forged.hash = e.hash /\ forged.body = Altered
        /\ sealed.prev = e.prev /\ sealed.hash = preimage(forged) /\ sealed.body = Altered
        /\ preimage(forged).body = Altered
    BY <2>7, <2>8, RowFields
  <2> HIDE DEF E, forged, sealed
  <2>10. verifySingleChain(others \cup {forged}) = "altered"
    <3>1. forged \notin E
      BY <2>6, <2>9, TwoBodies
    <3>2. ~Intact(forged)
      BY <2>1, <2>6, <2>9, TwoBodies DEF Intact
    <3> DEFINE F == others \cup {forged}
               t == Replaced(s, k, forged)
    <3>3. F = (E \ {s[k]}) \cup {forged}
      BY <2>3
    <3> HIDE DEF F
    <3>4. IsFiniteSet(F) /\ Path(F, k, t)
      <4>1. Stops(F, forged) /\ forged.prev = s[k].prev
        BY <2>3, <2>9, <3>2 DEF Stops
      <4> QED
        BY <2>2, <2>4, <3>1, <3>3, <4>1, WalkToReplacement
    <3>5. t[k] = forged
      BY <2>2 DEF Listing, Replaced
    <3> QED
      BY <3>2, <3>4, <3>5, Verdict DEF F
  <2>11. ASSUME e.hash \notin tip[e.chain]
         PROVE  /\ verifySingleChain(others) # "valid"
                /\ verifySingleChain(others \cup {sealed}) # "valid"
    <3>1. k # n
      BY <2>2, <2>3, <2>11 DEF Last, Listing
    <3>2. verifySingleChain(others) # "valid"
      BY <2>2, <2>3, <2>4, <3>1, RemovalIsReported
    <3>3. sealed \notin E
      BY <2>6, <2>9, TwoBodies
    <3> DEFINE F == others \cup {sealed}
               t == Replaced(s, k, sealed)
    <3>4. F = (E \ {s[k]}) \cup {sealed}
      BY <2>3
    <3>5. sealed.prev = s[k].prev
      BY <2>3, <2>9
    <3>6. Intact(sealed)
      BY <2>7, <2>8, <2>9, RowFields DEF Intact, preimage
    <3>7. Claimants(F, sealed.hash) = {}
      <4> SUFFICES ASSUME NEW f \in F, f.prev = {sealed.hash} PROVE FALSE
        BY DEF Claimants
      <4>1. PICK i \in 1..n : f.prev = s[i].prev
        BY <2>2, <3>4, <3>5 DEF Listing, Part
      <4>2. i - 1 \in 1..n /\ s[i - 1].hash = sealed.hash
        BY <2>2, <4>1, PlaceByLink
      <4>3. s[i - 1] \in E
        BY <2>2, <4>2 DEF Listing
      <4>4. s[i - 1].hash.body = AsWritten
        BY <2>6, <4>3
      <4> QED
        BY <2>9, <4>2, <4>4, TwoBodies
    <3> HIDE DEF F
    <3>8. IsFiniteSet(F) /\ Cardinality(F) = n /\ Path(F, k, t)
      <4>1. Stops(F, sealed)
        BY <3>7 DEF Stops
      <4> QED
        BY <2>2, <2>3, <2>4, <3>3, <3>4, <3>5, <4>1, WalkToReplacement
    <3>9. t[k] = sealed
      BY <2>2 DEF Listing, Replaced
    <3>10. ~(Cardinality(Claimants(F, t[k].hash)) > 1)
      BY <3>7, <3>9, FS_EmptySet
    <3>11. verifySingleChain(F) = "unreachable"
      BY <3>1, <3>6, <3>8, <3>9, <3>10, Verdict
    <3> QED
      BY <3>2, <3>11 DEF F
  <2> QED
    BY <2>10, <2>11 DEF E, forged, sealed, WithBody, WithHash, Altered
<1>2. IInv => DamageIsReported
  BY <1>1 DEF DamageIsReported
<1> QED
  BY <1>2, IInvInvariant, PTL

-----------------------------------------------------------------------------
(* The report of a dispute. *)

\* E is what the list of F begins with.
ReadOf(E, F) == \E b \in 0..Cardinality(F) : E = Part(visit(F), 1, b)

HInv ==
    /\ IInv
    /\ report = [order |-> report.order, history |-> report.history,
                 integrity |-> report.integrity]
    /\ report.order \in (Chains \ {Global}) \cup {Null}
    /\ report.order = Null => report.history.rows = {} /\ report.integrity.rows = {}
    /\ report.order # Null =>
         /\ ReadOf(report.history.rows, OfChain(entries, report.order))
         /\ ReadOf(report.integrity.rows, OfChain(entries, report.order))

\* The reader changes nothing of the ledger.
THEOREM ReadersOnlyRead == HistorySpec => Spec
<1>1. HistoryInit => Init
  BY DEF HistoryInit
<1>2. [HistoryNext]_historyVars => [Next]_vars
  BY DEF HistoryNext, historyVars, vars
<1> QED
  BY <1>1, <1>2, PTL DEF HistorySpec, Spec

\* Nothing, and everything, of a chain is what its list begins with.
LEMMA NothingAndAll ==
    ASSUME IInv, NEW c \in Chains
    PROVE  /\ ReadOf({}, OfChain(entries, c))
           /\ ReadOf(OfChain(entries, c), OfChain(entries, c))
<1> DEFINE E == OfChain(entries, c)
<1>1. IsFiniteSet(E) /\ Listing(E, Cardinality(E), visit(E))
  BY ChainIsListed
<1> HIDE DEF E
<1>2. Cardinality(E) \in Nat /\ E = Part(visit(E), 1, Cardinality(E))
  BY <1>1, FS_CardinalityType DEF Listing
<1>3. Part(visit(E), 1, 0) = {}
  BY DEF Part
<1>4. 0 \in 0..Cardinality(E) /\ Cardinality(E) \in 0..Cardinality(E)
  BY <1>2
<1> QED
  BY <1>2, <1>3, <1>4 DEF ReadOf, E

LEMMA InitHInv == HistoryInit => HInv
<1> SUFFICES ASSUME HistoryInit PROVE HInv
  OBVIOUS
<1>1. IInv
  BY InitIInv DEF HistoryInit
<1> QED
  BY <1>1 DEF HistoryInit, NoReport, Unread, HInv

LEMMA LedgerStepKeepsHInv ==
    ASSUME HInv, [Next]_vars, UNCHANGED report
    PROVE  HInv'
<1>1. IInv'
  BY NextKeepsIInv DEF HInv
<1>2. ASSUME NEW d \in Chains
      PROVE  \A E : ReadOf(E, OfChain(entries, d)) => ReadOf(E, OfChain(entries', d))
  <2>1. CASE entries' = entries
    BY <2>1
  <2>2. ASSUME NEW w \in Writers, Commit(w)
        PROVE  \A E : ReadOf(E, OfChain(entries, d)) => ReadOf(E, OfChain(entries', d))
    <3>1. Continues(OfChain(entries, d), OfChain(entries', d))
      BY <2>2, CommitAppends DEF HInv
    <3>2. /\ Cardinality(OfChain(entries, d)) \in Nat
          /\ Cardinality(OfChain(entries', d)) \in Nat
      <4>1. IsFiniteSet(entries) /\ IsFiniteSet(entries')
        BY <1>1 DEF HInv, IInv, RowsBounded
      <4>2. /\ OfChain(entries, d) \in SUBSET entries
            /\ OfChain(entries', d) \in SUBSET entries'
        BY DEF OfChain
      <4>3. IsFiniteSet(OfChain(entries, d)) /\ IsFiniteSet(OfChain(entries', d))
        BY <4>1, <4>2, FS_Subset
      <4> QED
        BY <4>3, FS_CardinalityType
    <3>3. ASSUME NEW E, NEW b \in 0..Cardinality(OfChain(entries, d)),
                 E = Part(visit(OfChain(entries, d)), 1, b)
          PROVE  ReadOf(E, OfChain(entries', d))
      <4>1. b \in 0..Cardinality(OfChain(entries', d))
        BY <3>1, <3>2 DEF Continues
      <4>2. E = Part(visit(OfChain(entries', d)), 1, b)
        BY <3>1, <3>3 DEF Continues
      <4> QED
        BY <4>1, <4>2 DEF ReadOf
    <3> QED
      BY <3>3 DEF ReadOf
  <2> QED
    BY <2>1, <2>2 DEF Next, vars, recordTransition, ledger_entries_hash, Rollback
<1> QED
  BY <1>1, <1>2 DEF HInv

LEMMA ReaderStepKeepsHInv ==
    ASSUME HInv, UNCHANGED vars,
           \/ \E o \in Chains \ {Global} : orderHistory(o)
           \/ getOrderHistory \/ verifyOrder \/ Dismiss
    PROVE  HInv'
<1>1. IInv'
  BY NextKeepsIInv DEF HInv
<1>2. entries' = entries
  BY DEF vars
<1>3. CASE Dismiss
  BY <1>1, <1>3 DEF Dismiss, NoReport, Unread, HInv
<1>4. ASSUME NEW o \in Chains \ {Global}, orderHistory(o) PROVE HInv'
  <2>1. /\ report'.order = o /\ report'.history.rows = {} /\ report'.integrity.rows = {}
        /\ report' = [order |-> report'.order, history |-> report'.history,
                      integrity |-> report'.integrity]
    BY <1>4 DEF orderHistory, NoReport, Unread
  <2>2. ReadOf({}, OfChain(entries', o))
    BY <1>2, NothingAndAll DEF HInv
  <2> QED
    BY <1>1, <2>1, <2>2, NullIsNoWriter DEF HInv
<1>5. CASE getOrderHistory
  <2>1. /\ report'.order = report.order /\ report.order # Null
        /\ report'.history.rows = OfChain(entries, report.order)
        /\ report'.integrity = report.integrity
        /\ report' = [order |-> report'.order, history |-> report'.history,
                      integrity |-> report'.integrity]
    BY <1>5 DEF getOrderHistory, Read, HInv
  <2>2. ReadOf(OfChain(entries, report.order), OfChain(entries, report.order))
    BY <2>1, NothingAndAll DEF HInv
  <2> QED
    BY <1>1, <1>2, <2>1, <2>2 DEF HInv
<1>6. CASE verifyOrder
  <2>1. /\ report'.order = report.order /\ report.order # Null
        /\ report'.integrity.rows = OfChain(entries, report.order)
        /\ report'.history = report.history
        /\ report' = [order |-> report'.order, history |-> report'.history,
                      integrity |-> report'.integrity]
    BY <1>6 DEF verifyOrder, Read, HInv
  <2>2. ReadOf(OfChain(entries, report.order), OfChain(entries, report.order))
    BY <2>1, NothingAndAll DEF HInv
  <2> QED
    BY <1>1, <1>2, <2>1, <2>2 DEF HInv
<1> QED
  BY <1>3, <1>4, <1>5, <1>6

\* Two beginnings of one list: each verifies, and the shorter begins the longer.
LEMMA BeginningsVerify ==
    ASSUME NEW E, NEW n, NEW s, Listing(E, n, s), \A e \in E : Intact(e),
           NEW a \in 0..n, NEW b \in 0..n
    PROVE  /\ Part(s, 1, b) # {} => verifySingleChain(Part(s, 1, b)) = "valid"
           /\ a <= b => BeginningOf(Part(s, 1, a), Part(s, 1, b))
<1> DEFINE F == Part(s, 1, b)
           t == [i \in 1..b |-> s[i]]
<1>1. n \in Nat /\ E = Part(s, 1, n) /\ b \in Nat /\ a \in Nat
  BY DEF Listing
<1>2. Listing(F, b, t)
  BY ListedPrefix
<1>3. F \subseteq E
  BY <1>1 DEF Part
<1>4. b = 0 => F = {}
  BY DEF Part
<1>5. a = 0 => Part(s, 1, a) = {}
  BY DEF Part
<1> HIDE DEF F, t
<1>6. /\ visit(F) = t
      /\ b # 0 => verifySingleChain(F) = "valid"
  BY <1>2, <1>3, ListedIsWalked
<1>7. ASSUME a <= b PROVE BeginningOf(Part(s, 1, a), F)
  <2>1. CASE a = 0
    BY <1>5, <2>1 DEF BeginningOf
  <2>2. CASE a # 0
    <3>1. b # 0 /\ a \in 1..b
      BY <1>1, <1>7, <2>2
    <3>2. Roots(F) # {}
      <4>1. Roots(F) = {t[1]}
        BY <1>2, <3>1, ListedLinks
      <4> QED
        BY <4>1
    <3>3. a \in DOMAIN t /\ Part(s, 1, a) = {t[i] : i \in 1..a}
      <4>1. \A i \in 1..a : t[i] = s[i]
        BY <1>1, <3>1 DEF t
      <4> QED
        BY <3>1, <4>1 DEF t, Part
    <3> QED
      BY <1>6, <3>2, <3>3 DEF BeginningOf
  <2> QED
    BY <2>1, <2>2
<1> QED
  BY <1>4, <1>6, <1>7 DEF F

\* What an operator reads in a dispute hangs together: what is reported as
\* verified verifies, and of the entries listed and the entries verified, the
\* ones are the beginning of the others.
THEOREM DisputesAreVouchedFor == HistorySpec => []HistoryIsVouchedFor
<1>1. HInv /\ [HistoryNext]_historyVars => HInv'
  <2> SUFFICES ASSUME HInv, [HistoryNext]_historyVars PROVE HInv'
    OBVIOUS
  <2>1. CASE UNCHANGED historyVars
    BY <2>1, LedgerStepKeepsHInv DEF historyVars, vars
  <2>2. CASE Next /\ UNCHANGED report
    BY <2>2, LedgerStepKeepsHInv
  <2> QED
    BY <2>1, <2>2, ReaderStepKeepsHInv DEF HistoryNext
<1>2. ASSUME HInv PROVE HistoryIsVouchedFor
  <2>1. CASE report.order = Null
    BY <1>2, <2>1 DEF HInv, HistoryIsVouchedFor, BeginningOf
  <2>2. CASE report.order # Null
    <3> DEFINE E == OfChain(entries, report.order)
               n == Cardinality(E)
               s == visit(E)
    <3>1. report.order \in Chains
      BY <1>2, <2>2 DEF HInv
    <3>2. IsFiniteSet(E) /\ Listing(E, n, s)
      BY <1>2, <3>1, ChainIsListed DEF HInv
    <3>3. \A e \in E : Intact(e)
      BY <1>2 DEF HInv, IInv, NumbersDrawn, Written, OfChain
    <3>4. PICK a \in 0..n, b \in 0..n :
            report.history.rows = Part(s, 1, a) /\ report.integrity.rows = Part(s, 1, b)
      BY <1>2, <2>2 DEF HInv, ReadOf
    <3> HIDE DEF E
    <3>5. n \in Nat
      BY <3>2, FS_CardinalityType
    <3>6. report.integrity.rows # {} => verifySingleChain(report.integrity.rows) = "valid"
      BY <3>2, <3>3, <3>4, BeginningsVerify
    <3>7. CASE a <= b
      BY <3>2, <3>3, <3>4, <3>6, <3>7, BeginningsVerify DEF HistoryIsVouchedFor
    <3>8. CASE b <= a
      BY <3>2, <3>3, <3>4, <3>6, <3>8, BeginningsVerify DEF HistoryIsVouchedFor
    <3> QED
      BY <3>5, <3>7, <3>8
  <2> QED
    BY <2>1, <2>2
<1> QED
  BY <1>1, <1>2, InitHInv, PTL DEF HistorySpec

=============================================================================
