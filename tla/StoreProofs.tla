----------------------------- MODULE StoreProofs -----------------------------
(***************************************************************************)
(* Proofs about the two stores, for every value of their constants: types, *)
(* compaction, the maintenance window, optimistic concurrency, the caches  *)
(* of LIST and watch clients, and that both implement StoreContract.       *)
(* SqliteStore's hold for any number of connections, except where a        *)
(* theorem assumes one; PostgresStore's hold for one server.               *)
(***************************************************************************)
EXTENDS SqliteStore, PostgresStore, FiniteSetTheorems, TLAPS

-----------------------------------------------------------------------------
(* What both stores rest on.                                               *)

\* What a LIST page, a changes batch or a replay selects is made of rows.
LEMMA QueriesSelectRows ==
    ASSUME NEW S, NEW P, NEW r, NEW a, NEW n
    PROVE  /\ list_at(S, P, r) \subseteq S
           /\ PageOf(list_at(S, P, r), a, n) \subseteq S
           /\ FirstByRevision(changed_rows(S, P, r), n) \subseteq S
           /\ retained(S, r) \subseteq S
BY DEF list_at, PageOf, FirstByRevision, changed_rows, retained

\* Every row's key has a newest row at each revision up to the head.
NewestExists ==
    \A r \in 0..revision : \A x \in hist :
        x.revision <= r => \E y \in hist : y.key = x.key /\ IsNewest(hist, y, r)

\* Everything above the floor, and each key's baseline at it, is in the table.
Retained ==
    \A x \in hist : x.revision > floor \/ IsNewest(hist, x, floor) => x \in rows

\* The inductive invariant behind SnapshotsSurviveCompaction: the table is a
\* part of the history that misses nothing a reader may ask for.
RowsInv ==
    /\ rows \subseteq hist
    /\ \A x \in hist : x.revision <= revision
    /\ \A x, y \in hist : x.revision = y.revision => x = y
    /\ floor <= revision
    /\ NewestExists
    /\ Retained

\* At a readable revision the table and the history have the same newest rows.
LEMMA SameNewest ==
    ASSUME StoreTypeOK, RowsInv, NEW r \in floor..revision, NEW x
    PROVE  IsNewest(rows, x, r) <=> IsNewest(hist, x, r)
<1> USE DEF StoreTypeOK, Row
<1>1. ASSUME IsNewest(hist, x, r) PROVE IsNewest(rows, x, r)
  <2>1. x \in rows
    <3>1. CASE x.revision > floor
      BY <1>1, <3>1 DEF RowsInv, Retained, IsNewest
    <3>2. CASE x.revision <= floor
      BY <1>1, <3>2 DEF RowsInv, Retained, IsNewest
    <3> QED BY <1>1, <3>1, <3>2 DEF IsNewest
  <2> QED BY <1>1, <2>1 DEF IsNewest, RowsInv
<1>2. ASSUME IsNewest(rows, x, r) PROVE IsNewest(hist, x, r)
  <2>1. x \in hist /\ x.revision <= r
    BY <1>2 DEF IsNewest, RowsInv
  <2>2. PICK y \in hist : y.key = x.key /\ IsNewest(hist, y, r)
    BY <2>1 DEF RowsInv, NewestExists
  <2>3. IsNewest(rows, y, r)
    BY <1>1, <2>2 DEF IsNewest, RowsInv, Retained
  <2>4. x.revision = y.revision
    BY <1>2, <2>2, <2>3 DEF IsNewest, RowsInv
  <2> QED BY <2>1, <2>2, <2>4 DEF RowsInv
<1> QED BY <1>1, <1>2

\* A mutation's row, newer than all others, keeps the invariant.
LEMMA RowsMutate ==
    ASSUME StoreTypeOK, RowsInv, NEW n \in Row(Keys, Values), n.revision = revision + 1,
           insert(n), floor' = floor
    PROVE  RowsInv'
<1> USE DEF StoreTypeOK, Row, insert
<1>1. \A x \in hist : x.revision # n.revision
  BY DEF RowsInv
<1>2. NewestExists'
  <2> SUFFICES ASSUME NEW r \in 0..revision+1, NEW x \in hist', x.revision <= r
               PROVE  \E y \in hist' : y.key = x.key /\ IsNewest(hist', y, r)
    BY DEF NewestExists
  <2>1. CASE r <= revision
    <3>1. x \in hist
      BY <2>1
    <3>2. PICK y \in hist : y.key = x.key /\ IsNewest(hist, y, r)
      BY <2>1, <3>1 DEF RowsInv, NewestExists
    <3> QED BY <2>1, <3>2 DEF IsNewest
  <2>2. CASE r = revision + 1 /\ x.key = n.key
    <3>1. IsNewest(hist', n, r)
      BY <2>2 DEF IsNewest, RowsInv
    <3> QED BY <2>2, <3>1
  <2>3. CASE r = revision + 1 /\ x.key # n.key
    <3>1. x \in hist /\ x.revision <= revision
      BY <2>3 DEF RowsInv
    <3>2. PICK y \in hist : y.key = x.key /\ IsNewest(hist, y, revision)
      BY <3>1 DEF RowsInv, NewestExists
    <3> QED BY <2>3, <3>2 DEF IsNewest, RowsInv
  <2>4. r <= revision \/ r = revision + 1
    OBVIOUS
  <2> QED BY <2>1, <2>2, <2>3, <2>4 DEF NewestExists
<1>3. Retained'
  BY DEF Retained, RowsInv, IsNewest
<1>4. /\ rows' \subseteq hist'
      /\ floor' <= revision'
      /\ \A x \in hist' : x.revision <= revision'
  BY DEF RowsInv
<1>5. \A x, y \in hist' : x.revision = y.revision => x = y
  BY <1>1 DEF RowsInv
<1> QED BY <1>2, <1>3, <1>4, <1>5 DEF RowsInv

\* Compaction keeps the invariant: what it deletes is no key's baseline.
LEMMA RowsCompact ==
    ASSUME StoreTypeOK, RowsInv, NEW rev \in Nat, rev <= revision, rev > floor,
           discard(rev), UNCHANGED <<revision, hist>>
    PROVE  RowsInv'
<1> USE DEF StoreTypeOK, Row
<1>1. rows' = retained(rows, rev) /\ floor' = rev
  BY DEF discard
<1>2. ASSUME NEW x \in hist, x.revision > rev \/ IsNewest(hist, x, rev)
      PROVE  x \in rows'
  <2>1. x \in rows
    BY <1>2 DEF RowsInv, Retained, IsNewest
  <2>2. CASE x.revision > rev
    BY <1>1, <2>1, <2>2 DEF retained
  <2>3. CASE IsNewest(hist, x, rev)
    <3>1. IsNewest(rows, x, rev)
      BY <2>1, <2>3 DEF IsNewest, RowsInv
    <3> QED BY <1>1, <2>1, <3>1 DEF retained
  <2> QED BY <1>2, <2>2, <2>3
<1>3. rows' \subseteq hist'
  BY <1>1 DEF retained, RowsInv
<1>4. NewestExists'
  BY DEF RowsInv, NewestExists
<1> QED BY <1>1, <1>2, <1>3, <1>4 DEF RowsInv, Retained

\* The invariant answers every reader: a LIST at a readable revision is exact.
LEMMA SnapshotsHold == StoreTypeOK /\ RowsInv => SnapshotsSurviveCompaction
<1> SUFFICES ASSUME StoreTypeOK, RowsInv, NEW r \in floor..revision
             PROVE  list_at(rows, Keys, r) = list_at(hist, Keys, r)
  BY DEF SnapshotsSurviveCompaction
<1>1. \A x : IsNewest(rows, x, r) <=> IsNewest(hist, x, r)
  BY SameNewest
<1> QED BY <1>1 DEF list_at, IsNewest

\* The registry a watcher selects, as of revision r.
Selected(w, r) == list_at(hist, prefix[w], r)

\* A prefix of a LIST, up to a continuation key.
UpToKey(S, k) == { x \in S : x.key <= k }

\* The changes that a watcher selects, after revision r and up to revision s.
ChangesIn(w, r, s) ==
    { x \in hist : x.key \in prefix[w] /\ r < x.revision /\ x.revision <= s }

\* What was read for a watcher and has not reached it.
Undelivered(w) == { e.row : e \in pending[w] }

\* A stream past its replay: the cache is a snapshot, and what is not delivered is all
\* that changed between it and the cursor.
Following(w) ==
    /\ view[w] = Selected(w, seen[w])
    /\ seen[w] <= cursor[w]
    /\ Undelivered(w) = ChangesIn(w, seen[w], cursor[w])
    /\ \A e \in pending[w] : e.previous = previous(hist, e.row)

\* What a watcher has and what is on its way, in each phase: a LIST or replay
\* has everything up to its continuation key, of the one snapshot it began in.
CacheOf(w) ==
    /\ cursor[w] <= revision /\ seen[w] <= revision
    /\ Idle(w) \/ phase[w] = "listing" => pending[w] = {}
    /\ phase[w] \in {"listing", "initial", "replayed"} => seen[w] = 0
    /\ phase[w] \in {"listing", "initial"} =>
          view[w] \cup Undelivered(w) = UpToKey(Selected(w, cursor[w]), pageAfter[w])
    /\ phase[w] = "replayed" => view[w] \cup Undelivered(w) = Selected(w, cursor[w])
    /\ phase[w] \in {"anchored", "live"} => Following(w)
    /\ Idle(w) /\ seen[w] > 0 => view[w] = Selected(w, seen[w])

\* The inductive invariant behind CacheIsASnapshot.
CacheInv ==
    /\ IsFiniteSet(rows)
    /\ \A w \in Watchers : CacheOf(w)

\* A page ends at its last key or with the selection: it skips no object.
LEMMA PageEnds ==
    ASSUME NEW C \in SUBSET Row(Keys, Values), IsFiniteSet(C), NEW after \in Nat
    PROVE  /\ ~HasMore(C, after, Page) =>
                 PageOf(C, after, Page) = { x \in C : x.key > after }
           /\ \A last \in PageOf(C, after, Page) :
                 (\A y \in PageOf(C, after, Page) : y.key <= last.key) =>
                 PageOf(C, after, Page) = { x \in C : x.key > after /\ x.key <= last.key }
<1> DEFINE Before(x) == { y \in C : after < y.key /\ y.key < x.key }
           rest == { x \in C : x.key > after }
<1>1. \A x \in C : x.key \in Nat
  BY KeysAssumption DEF Row
<1>2. Page \in Nat
  BY BatchAssumption
<1>3. IsFiniteSet(rest) /\ Cardinality(rest) \in Nat
  BY FS_Subset, FS_CardinalityType
<1>4. \A x \in rest : /\ IsFiniteSet(Before(x)) /\ Cardinality(Before(x)) \in Nat
                      /\ Cardinality(Before(x)) < Cardinality(rest)
  <2> SUFFICES ASSUME NEW x \in rest
               PROVE  /\ IsFiniteSet(Before(x)) /\ Cardinality(Before(x)) \in Nat
                      /\ Cardinality(Before(x)) < Cardinality(rest)
    OBVIOUS
  <2>1. Before(x) \in SUBSET rest /\ Before(x) # rest
    BY <1>1
  <2> HIDE DEF Before, rest
  <2>2. /\ IsFiniteSet(Before(x)) /\ Cardinality(Before(x)) <= Cardinality(rest)
        /\ Cardinality(Before(x)) # Cardinality(rest)
    BY <1>3, <2>1, FS_Subset
  <2>3. Cardinality(Before(x)) \in Nat
    BY <2>2, FS_CardinalityType
  <2> QED BY <1>3, <2>2, <2>3
<1>5. PageOf(C, after, Page) = { x \in rest : Cardinality(Before(x)) < Page }
  BY DEF PageOf
<1>6. HasMore(C, after, Page) <=> Cardinality(rest) > Page
  BY DEF HasMore
<1>7. ASSUME NEW x \in rest, NEW last \in rest, x.key <= last.key
      PROVE  Cardinality(Before(x)) <= Cardinality(Before(last))
  <2>1. Before(x) \in SUBSET Before(last)
    BY <1>1, <1>7
  <2> HIDE DEF Before, rest
  <2> QED BY <1>4, <2>1, FS_Subset
<1> HIDE DEF Before
<1>8. ASSUME ~HasMore(C, after, Page)
      PROVE  PageOf(C, after, Page) = rest
  <2>1. \A x \in rest : Cardinality(Before(x)) < Page
    <3> HIDE DEF rest
    <3> QED BY <1>2, <1>3, <1>4, <1>6, <1>8
  <2> QED BY <1>5, <2>1
<1>9. ASSUME NEW last \in PageOf(C, after, Page),
             \A y \in PageOf(C, after, Page) : y.key <= last.key
      PROVE  PageOf(C, after, Page) = { x \in rest : x.key <= last.key }
  <2>1. last \in rest /\ Cardinality(Before(last)) < Page
    BY <1>5
  <2>2. \A x \in rest : x.key <= last.key => Cardinality(Before(x)) < Page
    <3> HIDE DEF rest
    <3> QED BY <1>2, <1>4, <1>7, <2>1
  <2> QED BY <1>5, <1>9, <2>2
<1> QED BY <1>8, <1>9

\* A batch ends at its last revision or with the changes: it skips none.
LEMMA BatchEnds ==
    ASSUME NEW C \in SUBSET Row(Keys, Values), IsFiniteSet(C)
    PROVE  /\ Cardinality(C) < Batch => FirstByRevision(C, Batch) = C
           /\ \A last \in FirstByRevision(C, Batch) :
                 (\A y \in FirstByRevision(C, Batch) : y.revision <= last.revision) =>
                 FirstByRevision(C, Batch) = { x \in C : x.revision <= last.revision }
<1> DEFINE Before(x) == { y \in C : y.revision < x.revision }
<1>1. \A x \in C : x.revision \in Nat
  BY DEF Row
<1>2. Batch \in Nat /\ Cardinality(C) \in Nat
  BY BatchAssumption, FS_CardinalityType
<1>3. \A x : /\ IsFiniteSet(Before(x)) /\ Cardinality(Before(x)) \in Nat
             /\ Cardinality(Before(x)) <= Cardinality(C)
  <2> SUFFICES ASSUME NEW x
               PROVE  /\ IsFiniteSet(Before(x)) /\ Cardinality(Before(x)) \in Nat
                      /\ Cardinality(Before(x)) <= Cardinality(C)
    OBVIOUS
  <2>1. Before(x) \in SUBSET C
    OBVIOUS
  <2> HIDE DEF Before
  <2>2. IsFiniteSet(Before(x)) /\ Cardinality(Before(x)) <= Cardinality(C)
    BY <2>1, FS_Subset
  <2> QED BY <2>2, FS_CardinalityType
<1>4. FirstByRevision(C, Batch) = { x \in C : Cardinality(Before(x)) < Batch }
  BY DEF FirstByRevision
<1>5. ASSUME NEW x \in C, NEW last \in C, x.revision <= last.revision
      PROVE  Cardinality(Before(x)) <= Cardinality(Before(last))
  <2>1. Before(x) \in SUBSET Before(last)
    BY <1>1, <1>5
  <2> HIDE DEF Before
  <2> QED BY <1>3, <2>1, FS_Subset
<1> HIDE DEF Before
<1>6. ASSUME Cardinality(C) < Batch PROVE FirstByRevision(C, Batch) = C
  <2>1. \A x \in C : Cardinality(Before(x)) < Batch
    BY <1>2, <1>3, <1>6
  <2> QED BY <1>4, <2>1
<1>7. ASSUME NEW last \in FirstByRevision(C, Batch),
             \A y \in FirstByRevision(C, Batch) : y.revision <= last.revision
      PROVE  FirstByRevision(C, Batch) = { x \in C : x.revision <= last.revision }
  <2>1. last \in C /\ Cardinality(Before(last)) < Batch
    BY <1>4
  <2>2. \A x \in C : x.revision <= last.revision => Cardinality(Before(x)) < Batch
    BY <1>2, <1>3, <1>5, <2>1
  <2> QED BY <1>4, <1>7, <2>2
<1> QED BY <1>6, <1>7

\* What a query reads in the table is what it would read in the history, as
\* long as its revision is not below the floor.
LEMMA QueriesAreExact ==
    ASSUME StoreTypeOK, RowsInv, NEW P, NEW r \in floor..revision
    PROVE  /\ list_at(rows, P, r) = list_at(hist, P, r)
           /\ changed_rows(rows, P, r) = { x \in hist : x.key \in P /\ r < x.revision /\ x.revision <= revision }
           /\ \A x \in changed_rows(rows, P, r) : previous(rows, x) = previous(hist, x)
<1>1. \A q \in floor..revision : \A x : IsNewest(rows, x, q) <=> IsNewest(hist, x, q)
  BY SameNewest
<1>2. list_at(rows, P, r) = list_at(hist, P, r)
  BY <1>1 DEF list_at, IsNewest
<1>3. changed_rows(rows, P, r) = { x \in hist : x.key \in P /\ r < x.revision /\ x.revision <= revision }
  BY DEF changed_rows, RowsInv, Retained, StoreTypeOK, Row
<1>4. ASSUME NEW x \in changed_rows(rows, P, r)
      PROVE  previous(rows, x) = previous(hist, x)
  <2>1. x.revision - 1 \in floor..revision /\ x.revision \in Nat
    BY <1>3, <1>4 DEF StoreTypeOK, Row
  <2>2. ASSUME NEW S \in SUBSET Row(Keys, Values)
        PROVE  previous(S, x) = { p \in S : p.key = x.key /\ p.kind # "Deleted"
                                             /\ IsNewest(S, p, x.revision - 1) }
    BY <2>1 DEF previous, IsNewest, Row
  <2>3. \A p : IsNewest(rows, p, x.revision - 1) <=> IsNewest(hist, p, x.revision - 1)
    BY <1>1, <2>1
  <2>4. \A p : IsNewest(rows, p, x.revision - 1) => p \in rows
    BY DEF IsNewest
  <2>5. \A p : IsNewest(hist, p, x.revision - 1) => p \in hist
    BY DEF IsNewest
  <2>6. previous(rows, x) = { p \in rows : p.key = x.key /\ p.kind # "Deleted"
                                             /\ IsNewest(rows, p, x.revision - 1) }
    BY <2>2 DEF StoreTypeOK
  <2>7. previous(hist, x) = { p \in hist : p.key = x.key /\ p.kind # "Deleted"
                                             /\ IsNewest(hist, p, x.revision - 1) }
    BY <2>2 DEF StoreTypeOK
  <2> QED BY <2>3, <2>4, <2>5, <2>6, <2>7
<1> QED BY <1>2, <1>3, <1>4

\* Revisions between which nothing selected changes have the same snapshot.
LEMMA QuietSnapshot ==
    ASSUME StoreTypeOK, NEW w \in Watchers, NEW r \in Nat, NEW s \in Nat, r <= s,
           ChangesIn(w, r, s) = {}
    PROVE  Selected(w, s) = Selected(w, r)
BY DEF Selected, ChangesIn, list_at, IsNewest, StoreTypeOK, Row

\* Applying the first change after revision r gives its own snapshot.
LEMMA NextSnapshot ==
    ASSUME StoreTypeOK, RowsInv, NEW w \in Watchers, NEW r \in Nat, NEW x \in hist,
           x.key \in prefix[w], r < x.revision,
           \A y \in hist : y.key \in prefix[w] /\ r < y.revision => x.revision <= y.revision
    PROVE  Selected(w, x.revision) =
             { y \in Selected(w, r) : y.key # x.key }
               \cup (IF x.kind = "Deleted" THEN {} ELSE {x})
<1> USE DEF StoreTypeOK, Row
<1>1. ASSUME NEW y \in hist, y.key \in prefix[w], y.revision <= x.revision
      PROVE  y.revision <= r \/ y = x
  BY <1>1 DEF RowsInv
<1>2. ASSUME NEW y \in hist, y.key \in prefix[w], y.key # x.key
      PROVE  IsNewest(hist, y, x.revision) <=> IsNewest(hist, y, r)
  BY <1>1, <1>2 DEF IsNewest
<1>3. IsNewest(hist, x, x.revision)
  BY DEF IsNewest
<1>4. ASSUME NEW y \in hist, y.key = x.key, IsNewest(hist, y, x.revision)
      PROVE  y = x
  BY <1>4 DEF IsNewest, RowsInv
<1> QED BY <1>2, <1>3, <1>4 DEF Selected, list_at

\* A watcher that the step leaves alone.
Same(w) ==
    /\ phase'[w] = phase[w] /\ prefix'[w] = prefix[w] /\ cursor'[w] = cursor[w]
    /\ pageAfter'[w] = pageAfter[w] /\ pending'[w] = pending[w]
    /\ view'[w] = view[w] /\ seen'[w] = seen[w]

\* Writing does not disturb a watcher: it adds a row later than all that the
\* watcher has or waits for.  Compaction does not, as the history stays.
LEMMA DatabaseKeepsCaches ==
    ASSUME StoreTypeOK, StoreTypeOK', RowsInv, NEW w \in Watchers, CacheOf(w), Same(w),
           \/ UNCHANGED <<hist, revision>>
           \/ \E n \in Row(Keys, Values) : n.revision = revision + 1 /\ insert(n)
    PROVE  CacheOf(w)'
<1> USE DEF insert
<1>1. revision' >= revision /\ revision' \in Nat /\ revision \in Nat
  BY DEF StoreTypeOK
<1>2. ASSUME NEW r \in 0..revision
      PROVE  list_at(hist', prefix[w], r) = list_at(hist, prefix[w], r)
  <2>1. \A x : IsNewest(hist', x, r) <=> IsNewest(hist, x, r)
    BY <1>1 DEF IsNewest
  <2> QED BY <2>1 DEF list_at, IsNewest
<1>3. cursor[w] \in 0..revision /\ seen[w] \in 0..revision
  BY DEF CacheOf, StoreTypeOK
<1>4. /\ Selected(w, cursor[w])' = Selected(w, cursor[w])
      /\ Selected(w, seen[w])' = Selected(w, seen[w])
  BY <1>2, <1>3 DEF Selected, Same
<1>5. ChangesIn(w, seen[w], cursor[w])' = ChangesIn(w, seen[w], cursor[w])
  BY <1>1, <1>3 DEF ChangesIn, Same
<1>6. ASSUME NEW x \in hist PROVE previous(hist', x) = previous(hist, x)
  <2>1. x.revision <= revision
    BY DEF RowsInv
  <2> QED BY <1>1, <2>1 DEF previous, StoreTypeOK, Row
<1>7. Undelivered(w)' = Undelivered(w)
  BY DEF Undelivered, Same
<1>8. Following(w) => Following(w)'
  <2> SUFFICES ASSUME Following(w) PROVE Following(w)'
    OBVIOUS
  <2>1. \A e \in pending[w] : e.row \in hist
    BY DEF Following, Undelivered, ChangesIn
  <2>2. \A e \in pending[w] : e.previous = previous(hist', e.row)
    BY <1>6, <2>1 DEF Following
  <2> QED BY <1>4, <1>5, <1>7, <2>2 DEF Following, Same
<1>9. /\ cursor'[w] <= revision' /\ seen'[w] <= revision'
  BY <1>1, <1>3 DEF Same
<1> QED BY <1>4, <1>7, <1>8, <1>9 DEF CacheOf, Same, Idle, UpToKey

\* A stream that ends leaves the client with the snapshot it knows of, if any.
LEMMA StoppedKeeps ==
    ASSUME StoreTypeOK, StoreTypeOK', NEW w \in Watchers, CacheOf(w), hist' = hist, revision' = revision,
           phase'[w] \in {"off", "failed"}, pending'[w] = {},
           prefix'[w] = prefix[w], cursor'[w] = cursor[w], view'[w] = view[w], seen'[w] = seen[w]
    PROVE  CacheOf(w)'
<1>1. Selected(w, seen[w])' = Selected(w, seen[w])
  BY DEF Selected
<1>2. seen[w] > 0 => view[w] = Selected(w, seen[w])
  <2>1. phase[w] \in Phases
    BY DEF StoreTypeOK
  <2> QED BY <2>1 DEF CacheOf, Following, Idle, Phases
<1> QED BY <1>1, <1>2 DEF CacheOf, Idle

\* A page of the initial replay is the next part of the anchor's snapshot.
LEMMA PageKeeps ==
    ASSUME StoreTypeOK, StoreTypeOK', RowsInv, IsFiniteSet(rows), NEW w \in Watchers,
           CacheOf(w), phase[w] = "initial", pending[w] = {}, cursor[w] \in floor..revision,
           replay_page(w, cursor[w]),
           hist' = hist, revision' = revision, prefix'[w] = prefix[w],
           cursor'[w] = cursor[w], view'[w] = view[w], seen'[w] = seen[w]
    PROVE  CacheOf(w)'
<1> DEFINE C == Selected(w, cursor[w])
           page == PageOf(C, pageAfter[w], Page)
           events == { [row |-> x, previous |-> {}] : x \in page }
<1>1. list_at(rows, prefix[w], cursor[w]) = C
  BY QueriesAreExact DEF Selected
<1>2. C \in SUBSET Row(Keys, Values) /\ IsFiniteSet(C)
  <2>1. C \in SUBSET rows /\ C \in SUBSET hist
    BY <1>1, QueriesSelectRows DEF Selected
  <2> QED BY <2>1, FS_Subset DEF StoreTypeOK
<1>3. \A x \in C : x.key \in Nat
  BY <1>2, KeysAssumption DEF Row
<1>4. pageAfter[w] \in Nat
  BY DEF StoreTypeOK
<1>5. /\ view[w] = UpToKey(C, pageAfter[w])
      /\ cursor[w] <= revision /\ seen[w] <= revision /\ seen[w] = 0
  <2>1. Undelivered(w) = {}
    BY DEF Undelivered
  <2> QED BY <2>1 DEF CacheOf
<1>6. pending'[w] = events
  BY <1>1 DEF replay_page, StoreTypeOK
<1>7. Undelivered(w)' = page
  <2>1. Undelivered(w)' = { e.row : e \in events }
    BY <1>6 DEF Undelivered
  <2> HIDE DEF page
  <2>2. ASSUME NEW x \in page PROVE \E e \in events : e.row = x
    <3>1. [row |-> x, previous |-> {}] \in events
      OBVIOUS
    <3>2. [row |-> x, previous |-> {}].row = x
      OBVIOUS
    <3> QED BY <3>1, <3>2
  <2>3. \A e \in events : e.row \in page
    OBVIOUS
  <2> HIDE DEF events
  <2> QED BY <2>1, <2>2, <2>3
<1>8. Selected(w, cursor[w])' = C
  BY DEF Selected
<1> HIDE DEF C
<1>9. CASE HasMore(C, pageAfter[w], Page)
  <2>1. PICK last \in page :
          /\ \A y \in page : y.key <= last.key
          /\ pageAfter'[w] = last.key /\ phase'[w] = "initial"
    BY <1>1, <1>9 DEF replay_page, StoreTypeOK
  <2>2. page = { x \in C : x.key > pageAfter[w] /\ x.key <= last.key } /\ last.key \in Nat
    BY <1>2, <1>3, <1>4, <2>1, PageEnds DEF PageOf
  <2>3. last.key >= pageAfter[w]
    BY <1>3, <1>4, <2>1, <2>2
  <2>4. view[w] \cup page = UpToKey(C, last.key)
    BY <1>3, <1>4, <1>5, <2>2, <2>3 DEF UpToKey
  <2> QED BY <1>5, <1>7, <1>8, <2>1, <2>4 DEF CacheOf, Idle
<1>10. CASE ~HasMore(C, pageAfter[w], Page)
  <2>1. phase'[w] = "replayed"
    BY <1>1, <1>10 DEF replay_page, StoreTypeOK
  <2>2. page = { x \in C : x.key > pageAfter[w] }
    BY <1>2, <1>4, <1>10, PageEnds
  <2>3. view[w] \cup page = C
    BY <1>3, <1>4, <1>5, <2>2 DEF UpToKey
  <2> QED BY <1>5, <1>7, <1>8, <2>1, <2>3 DEF CacheOf, Idle
<1> QED BY <1>9, <1>10

\* A batch of changes is all that changed up to the new cursor.
LEMMA BatchKeeps ==
    ASSUME StoreTypeOK, StoreTypeOK', RowsInv, IsFiniteSet(rows), NEW w \in Watchers,
           CacheOf(w), phase[w] \in {"anchored", "live"}, pending[w] = {},
           cursor[w] \in floor..revision, next_batch(w, revision),
           hist' = hist, revision' = revision, phase'[w] = "live",
           prefix'[w] = prefix[w], view'[w] = view[w], seen'[w] = seen[w]
    PROVE  CacheOf(w)'
<1> DEFINE C == changed_rows(rows, prefix[w], cursor[w])
           batch == FirstByRevision(C, Batch)
<1>1. /\ pending' = [pending EXCEPT ![w] = { EventOf(rows, x) : x \in batch }]
      /\ next_cursor(w, C, revision)
  BY DEF next_batch
<1>2. /\ C = ChangesIn(w, cursor[w], revision)
      /\ \A x \in C : previous(rows, x) = previous(hist, x)
  BY QueriesAreExact DEF ChangesIn
<1>3. C \in SUBSET Row(Keys, Values) /\ IsFiniteSet(C)
  <2>1. C \in SUBSET rows
    BY DEF changed_rows
  <2> QED BY <2>1, FS_Subset DEF StoreTypeOK
<1>4. /\ view[w] = Selected(w, seen[w]) /\ seen[w] <= cursor[w] /\ seen[w] <= revision
      /\ ChangesIn(w, seen[w], cursor[w]) = {}
  <2>1. Undelivered(w) = {}
    BY DEF Undelivered
  <2> QED BY <2>1 DEF CacheOf, Following
<1>5. cursor[w] \in Nat /\ seen[w] \in Nat /\ revision \in Nat /\ \A x \in hist : x.revision \in Nat
  BY DEF StoreTypeOK, Row
<1> HIDE DEF C
<1>6. /\ cursor'[w] >= cursor[w] /\ cursor'[w] <= revision
      /\ batch = ChangesIn(w, cursor[w], cursor'[w])
  <2>1. CASE Cardinality(C) < Batch
    <3>1. cursor'[w] = revision
      BY <1>1, <1>3, <2>1, BatchAssumption, FS_CardinalityType DEF next_cursor, StoreTypeOK
    <3>2. batch = C
      BY <1>3, <2>1, BatchEnds
    <3> QED BY <1>2, <1>5, <3>1, <3>2
  <2>2. CASE ~(Cardinality(C) < Batch)
    <3>1. PICK last \in batch : /\ \A y \in batch : y.revision <= last.revision
                                /\ cursor'[w] = last.revision
      BY <1>1, <2>2 DEF next_cursor, StoreTypeOK
    <3>2. batch = { x \in C : x.revision <= last.revision }
      BY <1>3, <3>1, BatchEnds
    <3>3. last \in C
      BY <3>1, <3>2
    <3> QED BY <1>2, <1>5, <3>1, <3>2, <3>3 DEF ChangesIn
  <2> QED BY <2>1, <2>2
<1>7. batch = ChangesIn(w, seen[w], cursor'[w])
  BY <1>4, <1>5, <1>6 DEF ChangesIn
<1>8. pending'[w] = { EventOf(rows, x) : x \in batch }
  BY <1>1 DEF StoreTypeOK
<1>9. Undelivered(w)' = batch
  <2> DEFINE events == { EventOf(rows, x) : x \in batch }
  <2>1. Undelivered(w)' = { e.row : e \in events }
    BY <1>8 DEF Undelivered
  <2> HIDE DEF batch
  <2>2. ASSUME NEW x \in batch PROVE \E e \in events : e.row = x
    <3>1. EventOf(rows, x) \in events
      OBVIOUS
    <3>2. EventOf(rows, x).row = x
      BY DEF EventOf
    <3> QED BY <3>1, <3>2
  <2>3. \A e \in events : e.row \in batch
    BY DEF EventOf
  <2> HIDE DEF events
  <2> QED BY <2>1, <2>2, <2>3
<1>10. \A e \in pending'[w] : e.previous = previous(hist', e.row)
  <2>1. \A x \in batch : x \in C
    BY DEF FirstByRevision
  <2> QED BY <1>2, <1>8, <2>1 DEF EventOf
<1>11. /\ Selected(w, seen[w])' = Selected(w, seen[w])
       /\ ChangesIn(w, seen[w], cursor[w])' = ChangesIn(w, seen[w], cursor'[w])
  BY DEF Selected, ChangesIn
<1>12. Following(w)'
  <2> HIDE DEF batch
  <2>1. seen[w] <= cursor'[w]
    BY <1>4, <1>5, <1>6 DEF StoreTypeOK
  <2>2. Undelivered(w)' = ChangesIn(w, seen[w], cursor[w])'
    BY <1>7, <1>9, <1>11
  <2> QED BY <1>4, <1>10, <1>11, <2>1, <2>2 DEF Following
<1> QED BY <1>4, <1>6, <1>12 DEF CacheOf, Idle

\* A replayed object is in the snapshot of the anchor.
LEMMA ObjectKeeps ==
    ASSUME StoreTypeOK, StoreTypeOK', NEW w \in Watchers, CacheOf(w),
           phase[w] \in {"initial", "replayed"}, deliver_object(w),
           hist' = hist, revision' = revision, phase'[w] = phase[w], prefix'[w] = prefix[w],
           cursor'[w] = cursor[w], pageAfter'[w] = pageAfter[w], seen'[w] = seen[w]
    PROVE  CacheOf(w)'
<1>1. PICK e \in pending[w] : /\ pending'[w] = pending[w] \ {e}
                              /\ view'[w] = view[w] \cup {e.row}
  BY DEF deliver_object, StoreTypeOK
<1>2. view'[w] \cup Undelivered(w)' = view[w] \cup Undelivered(w)
  BY <1>1 DEF Undelivered
<1>3. Selected(w, cursor[w])' = Selected(w, cursor[w])
  BY DEF Selected
<1> QED BY <1>2, <1>3 DEF CacheOf, Idle

\* After the replay the client has the anchor's snapshot.
LEMMA AnchorKeeps ==
    ASSUME StoreTypeOK, StoreTypeOK', NEW w \in Watchers, CacheOf(w),
           phase[w] = "replayed", pending[w] = {}, pending'[w] = {},
           phase'[w] \in {"anchored", "live"}, seen'[w] = cursor[w],
           hist' = hist, revision' = revision, prefix'[w] = prefix[w],
           cursor'[w] = cursor[w], view'[w] = view[w]
    PROVE  CacheOf(w)'
<1>1. Undelivered(w) = {} /\ Undelivered(w)' = {}
  BY DEF Undelivered
<1>2. view[w] = Selected(w, cursor[w]) /\ cursor[w] <= revision /\ cursor[w] \in Nat
  BY <1>1 DEF CacheOf, StoreTypeOK
<1>3. Selected(w, seen[w])' = Selected(w, cursor[w])
  BY DEF Selected
<1>4. ChangesIn(w, seen[w], cursor[w])' = {}
  BY DEF ChangesIn, StoreTypeOK, Row
<1>5. Following(w)'
  BY <1>1, <1>2, <1>3, <1>4 DEF Following
<1> QED BY <1>2, <1>5 DEF CacheOf, Idle

\* The next change applied to a snapshot gives the next snapshot.
LEMMA ChangeKeeps ==
    ASSUME StoreTypeOK, StoreTypeOK', RowsInv, NEW w \in Watchers, CacheOf(w),
           phase[w] = "live", deliver_change(w),
           hist' = hist, revision' = revision, phase'[w] = "live", prefix'[w] = prefix[w],
           cursor'[w] = cursor[w]
    PROVE  CacheOf(w)'
<1>1. PICK e \in pending[w] :
        /\ \A f \in pending[w] : e.row.revision <= f.row.revision
        /\ pending'[w] = pending[w] \ {e}
        /\ view'[w] = { x \in view[w] : x.key # e.row.key }
                        \cup (IF e.row.kind = "Deleted" THEN {} ELSE {e.row})
        /\ seen'[w] = e.row.revision
  BY DEF deliver_change, StoreTypeOK
<1>2. Following(w) /\ cursor[w] <= revision
  BY DEF CacheOf
<1> DEFINE x == e.row
<1>3. x \in ChangesIn(w, seen[w], cursor[w])
  BY <1>1, <1>2 DEF Following, Undelivered
<1>4. /\ x \in hist /\ x.key \in prefix[w] /\ seen[w] < x.revision /\ x.revision <= cursor[w]
      /\ x.revision \in Nat /\ seen[w] \in Nat /\ cursor[w] \in Nat /\ revision \in Nat
  BY <1>3 DEF ChangesIn, StoreTypeOK, Row
<1>5. ASSUME NEW y \in hist, y.key \in prefix[w], seen[w] < y.revision
      PROVE  x.revision <= y.revision
  <2>1. CASE y.revision <= cursor[w]
    <3>1. y \in Undelivered(w)
      BY <1>2, <1>5, <2>1 DEF Following, ChangesIn
    <3> QED BY <1>1, <3>1 DEF Undelivered
  <2>2. CASE ~(y.revision <= cursor[w])
    BY <1>4, <2>2 DEF StoreTypeOK, Row
  <2> QED BY <2>1, <2>2
<1>6. \A f \in pending[w] : f.row = x => f = e
  <2>1. \A f \in pending[w] : f \in Event /\ f.previous = previous(hist, f.row)
    BY <1>2 DEF StoreTypeOK, Following
  <2> QED BY <2>1 DEF Event
<1>7. Undelivered(w)' = Undelivered(w) \ {x}
  BY <1>1, <1>6 DEF Undelivered
<1>8. ChangesIn(w, seen[w], cursor[w])' = ChangesIn(w, seen[w], cursor[w]) \ {x}
  <2>1. ChangesIn(w, seen[w], cursor[w])' =
          { y \in hist : y.key \in prefix[w] /\ x.revision < y.revision /\ y.revision <= cursor[w] }
    BY <1>1 DEF ChangesIn
  <2>2. ASSUME NEW y \in hist, y.key \in prefix[w]
        PROVE  x.revision < y.revision <=> (seen[w] < y.revision /\ y # x)
    <3>1. y.revision \in Nat /\ (y.revision = x.revision => y = x)
      BY <1>4 DEF StoreTypeOK, Row, RowsInv
    <3> QED BY <1>4, <1>5, <2>2, <3>1
  <2> HIDE DEF x
  <2> QED BY <2>1, <2>2 DEF ChangesIn
<1>9. Selected(w, seen[w])' = view'[w]
  <2>1. Selected(w, seen[w])' = Selected(w, x.revision)
    BY <1>1 DEF Selected
  <2> HIDE DEF x
  <2>2. Selected(w, x.revision) = { y \in Selected(w, seen[w]) : y.key # x.key }
                                     \cup (IF x.kind = "Deleted" THEN {} ELSE {x})
    BY <1>4, <1>5, NextSnapshot
  <2> QED BY <1>1, <1>2, <2>1, <2>2 DEF Following, x
<1>10. \A f \in pending'[w] : f.previous = previous(hist', f.row)
  BY <1>1, <1>2 DEF Following
<1>11. Following(w)'
  BY <1>1, <1>2, <1>4, <1>7, <1>8, <1>9, <1>10 DEF Following
<1> QED BY <1>1, <1>2, <1>4, <1>11 DEF CacheOf, Idle

\* A bookmark passes over revisions that changed nothing the client selects.
LEMMA BookmarkKeeps ==
    ASSUME StoreTypeOK, StoreTypeOK', NEW w \in Watchers, CacheOf(w),
           phase[w] = "live", phase'[w] = "live", pending[w] = {}, pending'[w] = {},
           seen'[w] = cursor[w], hist' = hist, revision' = revision,
           prefix'[w] = prefix[w], cursor'[w] = cursor[w], view'[w] = view[w]
    PROVE  CacheOf(w)'
<1>1. Undelivered(w) = {} /\ Undelivered(w)' = {}
  BY DEF Undelivered
<1>2. Following(w) /\ cursor[w] <= revision /\ cursor[w] \in Nat /\ seen[w] \in Nat
  BY DEF CacheOf, StoreTypeOK
<1>3. Selected(w, seen[w])' = Selected(w, cursor[w])
  BY DEF Selected
<1>4. Selected(w, cursor[w]) = Selected(w, seen[w])
  BY <1>1, <1>2, QuietSnapshot DEF Following
<1>5. ChangesIn(w, seen[w], cursor[w])' = {}
  BY DEF ChangesIn, StoreTypeOK, Row
<1>6. Following(w)'
  BY <1>1, <1>2, <1>3, <1>4, <1>5 DEF Following
<1> QED BY <1>2, <1>6 DEF CacheOf, Idle

\* A new watch has nothing yet, and replays the current snapshot.
LEMMA WatchKeeps ==
    ASSUME StoreTypeOK, RowsInv, NEW w \in Watchers, NEW P \in SUBSET Keys,
           hist' = hist, revision' = revision, prefix'[w] = P, cursor'[w] = revision,
           pageAfter'[w] = 0, view'[w] = {}, seen'[w] = 0, pending'[w] = {},
           phase'[w] = "initial" \/ (phase'[w] = "replayed" /\ revision = 0)
    PROVE  CacheOf(w)'
<1>1. Undelivered(w)' = {} /\ Selected(w, cursor[w])' = list_at(hist, P, revision)
  BY DEF Undelivered, Selected
<1>2. revision = 0 => list_at(hist, P, revision) = {}
  BY DEF list_at, StoreTypeOK, Row, RowsInv
<1>3. \A x \in list_at(hist, P, revision) : x.key \in Nat /\ x.key # 0
  BY KeysAssumption DEF list_at, StoreTypeOK, Row
<1>4. UpToKey(list_at(hist, P, revision), 0) = {}
  BY <1>3 DEF UpToKey
<1>5. UpToKey(Selected(w, cursor[w]), pageAfter[w])' = {}
  BY <1>1, <1>4 DEF UpToKey
<1> QED BY <1>1, <1>2, <1>5 DEF CacheOf, Idle, StoreTypeOK

\* A watch resumed where the client's cache is.
LEMMA ResumeKeeps ==
    ASSUME StoreTypeOK, NEW w \in Watchers, CacheOf(w), phase[w] = "off", seen[w] > 0,
           hist' = hist, revision' = revision, phase'[w] = "live", cursor'[w] = seen[w],
           prefix'[w] = prefix[w], pending'[w] = pending[w], view'[w] = view[w],
           seen'[w] = seen[w]
    PROVE  CacheOf(w)'
<1>1. pending[w] = {} /\ view[w] = Selected(w, seen[w]) /\ seen[w] <= revision
  BY DEF CacheOf, Idle
<1>2. /\ Undelivered(w)' = {} /\ Selected(w, seen[w])' = Selected(w, seen[w])
      /\ ChangesIn(w, seen[w], cursor[w])' = {}
  BY <1>1 DEF Undelivered, Selected, ChangesIn, StoreTypeOK, Row
<1>3. Following(w)'
  BY <1>1, <1>2 DEF Following, StoreTypeOK
<1> QED BY <1>1, <1>3 DEF CacheOf, Idle

\* Caches that satisfy the invariant are snapshots.
LEMMA CachesHold == StoreTypeOK /\ CacheInv => CacheIsASnapshot
<1> SUFFICES ASSUME StoreTypeOK, CacheInv, NEW w \in Watchers
             PROVE  /\ phase[w] \in {"anchored", "live"} \/ seen[w] > 0 =>
                          view[w] = list_at(hist, prefix[w], seen[w])
                    /\ phase[w] = "live" =>
                          \A e \in pending[w] : e.previous = previous(hist, e.row)
  BY DEF CacheIsASnapshot
<1>1. CacheOf(w) /\ phase[w] \in Phases
  BY DEF CacheInv, StoreTypeOK
<1> QED BY <1>1 DEF CacheOf, Following, Selected, Idle, Phases

-----------------------------------------------------------------------------
(* What both stores owe the contract.                                      *)

\* The abstract snapshot of a revision.
Snap(r) == { ObjectOf(x) : x \in list_at(rows, Keys, r) }

\* The contract's start is an empty registry.
LEMMA InitImplements == StoreInit => Contract!Init
<1> SUFFICES ASSUME StoreInit PROVE Contract!Init
  OBVIOUS
<1>1. floor = 0 /\ revision = 0 /\ floor..revision = {0}
  BY DEF StoreInit
<1>2. \A r : { ObjectOf(x) : x \in list_at(rows, Keys, r) } = {}
  BY DEF StoreInit, list_at
<1> QED BY <1>1, <1>2 DEF Contract!Init

\* A compaction is the contract's: the snapshots from the new floor up are
\* untouched.
LEMMA DiscardImplements ==
    ASSUME StoreTypeOK, RowsInv, StoreTypeOK', RowsInv', NEW rev \in Nat,
           rev <= revision, rev > floor, discard(rev), UNCHANGED <<revision, hist>>
    PROVE  Contract!Next
<1>1. floor' = rev
  BY DEF discard
<1>2. SnapshotsSurviveCompaction
  BY SnapshotsHold
<1>3. SnapshotsSurviveCompaction'
  BY SnapshotsHold, PTL
<1>4. \A r \in rev..revision : list_at(rows', Keys, r) = list_at(rows, Keys, r)
  BY <1>1, <1>2, <1>3 DEF SnapshotsSurviveCompaction, StoreTypeOK
<1>5. Contract!Compact(rev)
  BY <1>1, <1>4 DEF Contract!Compact, StoreTypeOK
<1>6. rev \in floor+1..revision
  BY DEF StoreTypeOK
<1> QED BY <1>5, <1>6 DEF Contract!Next

\* The row of a mutation changes its own key in the next snapshot and nothing
\* in the snapshots before.
LEMMA MutationSnapshots ==
    ASSUME StoreTypeOK, RowsInv, NEW n \in Row(Keys, Values), n.revision = revision + 1
    PROVE  /\ \A r \in 0..revision : list_at(rows \cup {n}, Keys, r) = list_at(rows, Keys, r)
           /\ list_at(rows \cup {n}, Keys, revision + 1) =
                { x \in list_at(rows, Keys, revision) : x.key # n.key }
                  \cup (IF n.kind = "Deleted" THEN {} ELSE {n})
<1> USE DEF StoreTypeOK, Row
<1>1. \A x \in rows : x.revision <= revision
  BY DEF RowsInv
<1>2. ASSUME NEW r \in 0..revision
      PROVE  list_at(rows \cup {n}, Keys, r) = list_at(rows, Keys, r)
  BY DEF list_at, IsNewest
<1>3. ASSUME NEW x \in rows \cup {n}
      PROVE  IsNewest(rows \cup {n}, x, revision + 1)
               <=> x = n \/ (x.key # n.key /\ IsNewest(rows, x, revision))
  BY <1>1 DEF IsNewest
<1>4. list_at(rows \cup {n}, Keys, revision + 1) =
        { x \in list_at(rows, Keys, revision) : x.key # n.key }
          \cup (IF n.kind = "Deleted" THEN {} ELSE {n})
  BY <1>3 DEF list_at, IsNewest
<1> QED BY <1>2, <1>4

\* The row of a mutation that deletes only what there is makes a create, an
\* update or a delete of the contract.
LEMMA InsertImplements ==
    ASSUME StoreTypeOK, RowsInv, NEW n \in Row(Keys, Values), n.revision = revision + 1,
           insert(n), floor' = floor,
           n.kind = "Deleted" => get_current(rows, n.key) # {}
    PROVE  Contract!Next
<1> DEFINE k == n.key
           v == n.value
           new == IF n.kind = "Deleted" THEN {} ELSE {Contract!Object(k, v)}
<1>1. k \in Keys /\ v \in Values
  BY DEF Row
<1>2. rows' = rows \cup {n} /\ revision' = revision + 1
  BY DEF insert
<1>3. ObjectOf(n) = Contract!Object(k, v)
  BY DEF ObjectOf, Contract!Object
<1>4. /\ \A r \in 0..revision : list_at(rows', Keys, r) = list_at(rows, Keys, r)
      /\ list_at(rows', Keys, revision + 1) =
           { x \in list_at(rows, Keys, revision) : x.key # k }
             \cup (IF n.kind = "Deleted" THEN {} ELSE {n})
  BY <1>2, MutationSnapshots
<1>5. \A x : ObjectOf(x).key = x.key
  BY DEF ObjectOf
<1>6. { ObjectOf(x) : x \in list_at(rows', Keys, revision + 1) }
        = Contract!Replace(Snap(revision), k, new)
  BY <1>3, <1>4, <1>5 DEF Contract!Replace, Snap
<1>7. Contract!Write(k, new)
  <2>1. floor \in Nat /\ revision \in Nat /\ floor <= revision
    BY DEF StoreTypeOK, RowsInv
  <2>2. \A r \in floor..revision : { ObjectOf(x) : x \in list_at(rows', Keys, r) } = Snap(r)
    BY <1>4, <2>1 DEF Snap
  <2> DEFINE bar == [r \in floor..revision |-> Snap(r)]
             bar1 == [r \in floor..revision+1 |->
                        { ObjectOf(x) : x \in list_at(rows', Keys, r) }]
  <2>3. bar1 = [r \in floor..revision+1 |->
                  IF r <= revision THEN bar[r] ELSE Contract!Replace(bar[revision], k, new)]
    <3> SUFFICES ASSUME NEW r \in floor..revision+1
                 PROVE  bar1[r] = IF r <= revision THEN bar[r]
                                  ELSE Contract!Replace(bar[revision], k, new)
      OBVIOUS
    <3> HIDE DEF new
    <3>1. CASE r <= revision
      BY <2>1, <2>2, <3>1
    <3>2. CASE r = revision + 1
      <4>1. bar[revision] = Snap(revision)
        BY <2>1
      <4>2. ~(r <= revision)
        BY <2>1, <3>2
      <4> QED BY <1>6, <3>2, <4>1, <4>2
    <3> QED BY <2>1, <3>1, <3>2
  <2> HIDE DEF new
  <2> QED BY <1>2, <2>3 DEF Contract!Write, Snap
<1>8. Contract!Has(k) <=> get_current(rows, k) # {}
  <2>1. floor <= revision /\ revision \in Nat /\ floor \in Nat
    BY DEF StoreTypeOK, RowsInv
  <2>2. [r \in floor..revision |-> Snap(r)][revision] = Snap(revision)
    BY <2>1
  <2>3. Contract!Has(k) <=> \E o \in Snap(revision) : o.key = k
    BY <2>2 DEF Contract!Has, Snap
  <2>4. Contract!Has(k) <=> \E x \in list_at(rows, Keys, revision) : x.key = k
    BY <1>5, <2>3 DEF Snap
  <2>5. \A x \in rows : x.revision <= revision
    BY DEF RowsInv
  <2>6. \A x : x \in get_current(rows, k) <=> x \in list_at(rows, Keys, revision) /\ x.key = k
    BY <2>5 DEF get_current, list_at, IsNewest, StoreTypeOK, Row
  <2> QED BY <2>4, <2>6
<1>9. CASE n.kind = "Deleted"
  BY <1>1, <1>7, <1>8, <1>9 DEF Contract!Next, Contract!Delete
<1>10. CASE n.kind # "Deleted" /\ Contract!Has(k)
  BY <1>1, <1>7, <1>10 DEF Contract!Next, Contract!Update
<1>11. CASE n.kind # "Deleted" /\ ~Contract!Has(k)
  BY <1>1, <1>7, <1>11 DEF Contract!Next, Contract!Create
<1> QED BY <1>9, <1>10, <1>11

-----------------------------------------------------------------------------
(* Optimistic concurrency.                                                 *)

\* The version a compare-and-set with a client's object finds is that object.
LEMMA CasFindsHeld ==
    ASSUME StoreTypeOK, RowsInv, HeldIsCommitted,
           NEW cl \in Clients, NEW o \in held[cl], cas_holds(o.key, o.revision)
    PROVE  /\ get_current(rows, o.key) # {}
           /\ \A x \in get_current(rows, o.key) : ObjectOf(x) \in held[cl]
<1>1. o.revision \in Nat /\ o.revision # 0
  BY DEF StoreTypeOK, StoredObject
<1>2. PICK old \in get_current(rows, o.key) : old.revision = o.revision
  BY <1>1 DEF cas_holds
<1>3. PICK z \in hist : ObjectOf(z) = o
  BY DEF HeldIsCommitted
<1>4. old \in hist /\ old = z
  BY <1>2, <1>3 DEF get_current, RowsInv, ObjectOf
<1>5. ASSUME NEW x \in get_current(rows, o.key) PROVE x = old
  <2>1. x.revision <= old.revision /\ old.revision <= x.revision
    BY <1>2 DEF get_current
  <2>2. x \in hist /\ x.revision \in Nat /\ old.revision \in Nat
    BY <1>4 DEF get_current, RowsInv, StoreTypeOK, Row
  <2>3. x.revision = old.revision
    BY <2>1, <2>2
  <2> QED BY <1>4, <2>2, <2>3 DEF RowsInv
<1> QED BY <1>2, <1>3, <1>4, <1>5

-----------------------------------------------------------------------------
(* SqliteStore.                                                            *)

\* Each step preserves the type invariant (every action of Next).
LEMMA TypeStep == TypeOK /\ [Next]_vars => TypeOK'
<1> SUFFICES ASSUME TypeOK, [Next]_vars PROVE TypeOK'
  OBVIOUS
<1> USE DEF dbVars, procVars, watchVars, insert, discard
<1>1. CASE UNCHANGED vars
  BY <1>1 DEF vars, TypeOK, StoreTypeOK
<1>2. ASSUME NEW cl \in Clients, NEW c \in Conns, NEW k \in Keys, Get(cl, c, k)
      PROVE  TypeOK'
  <2>1. { ObjectOf(x) : x \in get_current(rows, k) } \subseteq StoredObject(Keys, Values)
    BY DEF TypeOK, StoreTypeOK, get_current, ObjectOf, StoredObject, Row
  <2> QED BY <1>2, <2>1 DEF Get, TypeOK, StoreTypeOK
<1>3. ASSUME NEW cl \in Clients, NEW c \in Conns, NEW k \in Keys, NEW v \in Values,
             NEW e, NEW d \in BOOLEAN, mutate(cl, c, k, v, e, d)
      PROVE  TypeOK'
  <2>1. [key |-> k, revision |-> revision + 1, value |-> v, kind |-> kind_of(k, d)]
           \in Row(Keys, Values)
    BY DEF TypeOK, StoreTypeOK, Row, kind_of, EventKind
  <2>2. [client |-> cl, key |-> k, value |-> v, delete |-> d, revision |-> revision + 1]
           \in Mutation
    BY DEF Mutation, TypeOK, StoreTypeOK
  <2> QED BY <1>3, <2>1, <2>2 DEF mutate, TypeOK, StoreTypeOK
<1>4. ASSUME NEW cl \in Clients, NEW c \in Conns, Refused(cl, c) PROVE TypeOK'
  BY <1>4 DEF Refused, TypeOK, StoreTypeOK
<1>5. ASSUME NEW c \in Conns, ReadBack(c) PROVE TypeOK'
  <2>1. PICK m \in busy[c] :
          /\ \E x \in rows :
               held' = [held EXCEPT ![m.client] =
                          IF m.delete THEN {}
                          ELSE {[key |-> m.key, revision |-> x.revision, value |-> m.value]}]
          /\ busy' = [busy EXCEPT ![c] = @ \ {m}]
    BY <1>5 DEF ReadBack
  <2>2. m \in Mutation
    BY DEF TypeOK, StoreTypeOK
  <2>3. held' \in [Clients -> SUBSET StoredObject(Keys, Values)]
    BY <2>1, <2>2 DEF TypeOK, StoreTypeOK, Mutation, StoredObject, Row
  <2> QED BY <1>5, <2>1, <2>3 DEF ReadBack, TypeOK, StoreTypeOK
<1>6. ASSUME NEW rev \in Nat, compact(rev), UNCHANGED <<held, busy, watchVars>>,
             compactTo' \in SUBSET Nat
      PROVE  TypeOK'
  <2>1. retained(rows, rev) \in SUBSET Row(Keys, Values)
    BY QueriesSelectRows DEF TypeOK, StoreTypeOK
  <2>2. CASE rev <= revision /\ rev > floor
    BY <1>6, <2>1, <2>2 DEF compact, TypeOK, StoreTypeOK
  <2>3. CASE ~(rev <= revision /\ rev > floor)
    BY <1>6, <2>3 DEF compact, TypeOK, StoreTypeOK
  <2> QED BY <2>2, <2>3
<1>7. ASSUME NEW c \in Conns, MaintainHead(c) PROVE TypeOK'
  <2>1. maintenance_revision(revision, floor, Window) \in SUBSET Nat
    BY WindowAssumption DEF maintenance_revision, TypeOK, StoreTypeOK
  <2> QED BY <1>7, <2>1 DEF MaintainHead, TypeOK, StoreTypeOK
<1>8. ASSUME NEW w \in Watchers, Fail(w) PROVE TypeOK'
  BY <1>8 DEF Fail, TypeOK, StoreTypeOK, Phases
<1>9. ASSUME NEW w \in Watchers, NEW P \in SUBSET Keys, NEW rev \in Nat, NEW a \in Nat,
             NEW b \in SUBSET Row(Keys, Values), list(w, P, rev, a, b)
      PROVE  TypeOK'
  <2> DEFINE page == PageOf(list_at(rows, P, rev), a, Page)
  <2>1. page \in SUBSET Row(Keys, Values)
    BY QueriesSelectRows DEF TypeOK, StoreTypeOK
  <2>2. \A x \in page : x.key \in Nat
    BY <2>1, KeysAssumption DEF Row
  <2> HIDE DEF page
  <2>3. pageAfter' \in [Watchers -> Nat]
    BY <1>9, <2>2 DEF list, TypeOK, StoreTypeOK, page
  <2>4. /\ phase' \in [Watchers -> Phases]
        /\ seen' \in [Watchers -> Nat]
    BY <1>9 DEF list, TypeOK, StoreTypeOK, Phases
  <2>5. view' \in [Watchers -> SUBSET Row(Keys, Values)]
    BY <1>9, <2>1 DEF list, TypeOK, StoreTypeOK, page
  <2> QED BY <1>9, <2>3, <2>4, <2>5 DEF list, TypeOK, StoreTypeOK
<1>10. ASSUME NEW w \in Watchers, NEW P \in SUBSET Keys, NEW c \in Conns, WatchStart(w, c, P)
       PROVE  TypeOK'
  BY <1>10 DEF WatchStart, TypeOK, StoreTypeOK, Phases
<1>11. ASSUME NEW w \in Watchers, NEW c \in Conns, WatchResume(w, c) PROVE TypeOK'
  BY <1>11, <1>8 DEF WatchResume, TypeOK, StoreTypeOK, Phases
<1>12. ASSUME NEW w \in Watchers, NEW c \in Conns, ReplayPage(w, c) PROVE TypeOK'
  <2> DEFINE C == list_at(rows, prefix[w], cursor[w])
             page == PageOf(C, pageAfter[w], Page)
  <2>1. page \in SUBSET Row(Keys, Values)
    BY QueriesSelectRows DEF TypeOK, StoreTypeOK
  <2>2. { [row |-> x, previous |-> {}] : x \in page } \in SUBSET Event
    BY <2>1 DEF Event
  <2>3. \A x \in page : x.key \in Nat
    BY <2>1, KeysAssumption DEF Row
  <2>4. CASE Fail(w)
    BY <2>4, <1>8
  <2>5. CASE ~Fail(w)
    <3>1. pageAfter' \in [Watchers -> Nat] /\ phase' \in [Watchers -> Phases]
      BY <1>12, <2>5, <2>3 DEF ReplayPage, replay_page, TypeOK, StoreTypeOK, Phases
    <3>2. pending' \in [Watchers -> SUBSET Event]
      BY <1>12, <2>5, <2>2 DEF ReplayPage, replay_page, TypeOK, StoreTypeOK
    <3> QED BY <1>12, <2>5, <3>1, <3>2 DEF ReplayPage, replay_page, TypeOK, StoreTypeOK
  <2> QED BY <2>4, <2>5
<1>13. ASSUME NEW w \in Watchers, YieldReplay(w) PROVE TypeOK'
  BY <1>13 DEF YieldReplay, deliver_object, TypeOK, StoreTypeOK, Event
<1>14. ASSUME NEW w \in Watchers, YieldAnchor(w) PROVE TypeOK'
  BY <1>14 DEF YieldAnchor, TypeOK, StoreTypeOK, Phases
<1>15. ASSUME NEW w \in Watchers, NEW c \in Conns, Poll(w, c) PROVE TypeOK'
  <2> DEFINE C == changed_rows(rows, prefix[w], cursor[w])
             batch == FirstByRevision(C, Batch)
  <2>1. batch \in SUBSET Row(Keys, Values)
    BY QueriesSelectRows DEF TypeOK, StoreTypeOK
  <2>2. { EventOf(rows, x) : x \in batch } \in SUBSET Event
    BY <2>1 DEF EventOf, previous, Event, TypeOK, StoreTypeOK
  <2>3. CASE Fail(w)
    BY <2>3, <1>8
  <2>4. CASE ~Fail(w)
    <3>1. cursor' \in [Watchers -> Nat]
      BY <1>15, <2>4, <2>1 DEF Poll, next_batch, next_cursor, TypeOK, StoreTypeOK, Row
    <3>2. pending' \in [Watchers -> SUBSET Event]
      BY <1>15, <2>4, <2>2 DEF Poll, next_batch, TypeOK, StoreTypeOK
    <3> QED BY <1>15, <2>4, <3>1, <3>2 DEF Poll, next_batch, TypeOK, StoreTypeOK
  <2> QED BY <2>3, <2>4
<1>16. ASSUME NEW w \in Watchers, YieldEvent(w) PROVE TypeOK'
  <2>1. PICK e \in pending[w] :
          /\ pending' = [pending EXCEPT ![w] = @ \ {e}]
          /\ view' = [view EXCEPT ![w] =
                       { x \in @ : x.key # e.row.key }
                         \cup (IF e.row.kind = "Deleted" THEN {} ELSE {e.row})]
          /\ seen' = [seen EXCEPT ![w] = e.row.revision]
    BY <1>16 DEF YieldEvent, deliver_change
  <2>2. e.row \in Row(Keys, Values) /\ e.row.revision \in Nat
    BY DEF TypeOK, StoreTypeOK, Event, Row
  <2> QED BY <1>16, <2>1, <2>2 DEF YieldEvent, TypeOK, StoreTypeOK
<1>17. ASSUME NEW w \in Watchers, YieldBookmark(w) PROVE TypeOK'
  BY <1>17 DEF YieldBookmark, TypeOK, StoreTypeOK
<1>18. ASSUME NEW w \in Watchers, Disconnect(w) PROVE TypeOK'
  BY <1>18 DEF Disconnect, TypeOK, StoreTypeOK, Phases
<1>19. CASE Restart
  BY <1>19 DEF Restart, TypeOK, StoreTypeOK, Phases
<1>20. ASSUME NEW cl \in Clients, NEW c \in Conns, ClientNext(cl, c) PROVE TypeOK'
  <2>1. \A o \in held[cl] : o.key \in Keys
    BY DEF TypeOK, StoreTypeOK, StoredObject
  <2>2. \A x \in rows : x.value \in Values
    BY DEF TypeOK, StoreTypeOK, Row
  <2>3. ASSUME NEW k \in Keys, NEW v \in Values, Create(cl, c, k, v) PROVE TypeOK'
    BY <2>3, <1>3 DEF Create
  <2>4. ASSUME NEW v \in Values, Update(cl, c, v) PROVE TypeOK'
    BY <2>4, <2>1, <1>3 DEF Update
  <2>5. ASSUME Delete(cl, c) PROVE TypeOK'
    BY <2>5, <2>1, <2>2, <1>3 DEF Delete, get_current
  <2> QED BY <1>20, <1>2, <1>4, <2>3, <2>4, <2>5 DEF ClientNext
<1>21. ASSUME NEW c \in Conns, Compact(c) \/ MaintainHead(c) \/ MaintainCompact(c)
       PROVE  TypeOK'
  <2>1. ASSUME Compact(c) PROVE TypeOK'
    BY <2>1, <1>6 DEF Compact, TypeOK, StoreTypeOK
  <2>2. ASSUME MaintainCompact(c) PROVE TypeOK'
    BY <2>2, <1>6 DEF MaintainCompact, TypeOK, StoreTypeOK
  <2> QED BY <1>21, <1>7, <2>1, <2>2
<1>22. ASSUME NEW w \in Watchers, NEW c \in Conns,
              StreamStart(w, c) \/ WatchResume(w, c) \/ StreamRead(w, c)
       PROVE  TypeOK'
  <2>1. ASSUME NEW P \in Prefixes, ListStart(w, c, P) PROVE TypeOK'
    BY <2>1, <1>9, PrefixesAssumption DEF ListStart, TypeOK, StoreTypeOK
  <2>2. ASSUME ListContinue(w, c) PROVE TypeOK'
    BY <2>2, <1>8, <1>9 DEF ListContinue, TypeOK, StoreTypeOK
  <2> QED BY <1>22, <2>1, <2>2, <1>10, <1>11, <1>12, <1>15, PrefixesAssumption
          DEF StreamStart, StreamRead
<1> QED
  BY <1>1, <1>5, <1>13, <1>14, <1>16, <1>17, <1>18, <1>19, <1>20, <1>21, <1>22
     DEF Next, StreamYield

\* Every reachable state is well typed.
THEOREM TypeCorrect == Spec => []TypeOK
<1>1. Init => TypeOK
  BY DEF Init, StoreInit, TypeOK, StoreTypeOK, Phases
<1> QED BY <1>1, TypeStep, PTL DEF Spec

\* A step leaves the database alone, runs mutate's transaction, or compacts.
LEMMA DatabaseSteps ==
    ASSUME TypeOK, [Next]_vars
    PROVE  \/ UNCHANGED dbVars
           \/ \E rev \in Nat : compact(rev)
           \/ \E cl \in Clients, c \in Conns, k \in Keys, v \in Values, e \in Nat,
                 d \in BOOLEAN : (d => e # 0) /\ mutate(cl, c, k, v, e, d)
<1> DEFINE Mutates == \E cl \in Clients, c \in Conns, k \in Keys, v \in Values, e \in Nat,
                         d \in BOOLEAN : (d => e # 0) /\ mutate(cl, c, k, v, e, d)
           Compacts == \E rev \in Nat : compact(rev)
<1> HIDE DEF Compacts
<1>1. ASSUME NEW cl \in Clients, NEW c \in Conns, ClientNext(cl, c)
      PROVE  UNCHANGED dbVars \/ Mutates
  <2>1. \A o \in held[cl] : o.key \in Keys /\ o.revision \in Nat /\ o.revision # 0
    BY DEF TypeOK, StoreTypeOK, StoredObject
  <2>2. ASSUME NEW k \in Keys, NEW v \in Values, Create(cl, c, k, v) PROVE Mutates
    BY <2>2 DEF Create
  <2>3. ASSUME NEW v \in Values, Update(cl, c, v) PROVE Mutates
    BY <2>3, <2>1 DEF Update
  <2>4. ASSUME Delete(cl, c) PROVE Mutates
    BY <2>4, <2>1 DEF Delete, get_current, TypeOK, StoreTypeOK, Row
  <2> HIDE DEF Mutates
  <2> QED BY <1>1, <2>2, <2>3, <2>4 DEF ClientNext, Get, Refused
<1> HIDE DEF Mutates
<1>2. ASSUME NEW c \in Conns, Compact(c) \/ MaintainHead(c) \/ MaintainCompact(c)
      PROVE  UNCHANGED dbVars \/ Compacts
  BY <1>2 DEF Compact, MaintainHead, MaintainCompact, Compacts, TypeOK, StoreTypeOK
<1>3. ASSUME NEW w \in Watchers, NEW c \in Conns,
             StreamStart(w, c) \/ WatchResume(w, c) \/ StreamRead(w, c)
      PROVE  UNCHANGED dbVars
  BY <1>3 DEF StreamStart, ListStart, WatchStart, WatchResume, StreamRead, ListContinue,
              ReplayPage, Poll, list, Fail
<1>4. ASSUME NEW w \in Watchers, StreamYield(w) \/ Disconnect(w) PROVE UNCHANGED dbVars
  BY <1>4 DEF StreamYield, YieldReplay, YieldAnchor, YieldEvent, YieldBookmark, Disconnect
<1>5. (\E c \in Conns : ReadBack(c)) \/ Restart \/ UNCHANGED vars => UNCHANGED dbVars
  BY DEF ReadBack, Restart, vars
<1>6. UNCHANGED dbVars \/ Compacts \/ Mutates
  BY <1>1, <1>2, <1>3, <1>4, <1>5 DEF Next
<1> QED BY <1>6 DEF Compacts, Mutates

\* Each step preserves the compaction invariant.
LEMMA RowsStep == TypeOK /\ RowsInv /\ [Next]_vars => RowsInv'
<1> SUFFICES ASSUME TypeOK, RowsInv, [Next]_vars PROVE RowsInv'
  OBVIOUS
<1>1. CASE UNCHANGED dbVars
  BY <1>1 DEF dbVars, RowsInv, NewestExists, Retained
<1>2. ASSUME NEW rev \in Nat, compact(rev) PROVE RowsInv'
  <2>1. CASE rev <= revision /\ rev > floor
    BY <1>2, <2>1, RowsCompact DEF compact, TypeOK
  <2>2. CASE ~(rev <= revision /\ rev > floor)
    BY <1>2, <2>2 DEF compact, dbVars, RowsInv, NewestExists, Retained
  <2> QED BY <2>1, <2>2
<1>3. ASSUME NEW cl \in Clients, NEW c \in Conns, NEW k \in Keys, NEW v \in Values,
             NEW e \in Nat, NEW d \in BOOLEAN, mutate(cl, c, k, v, e, d)
      PROVE  RowsInv'
  <2> DEFINE n == [key |-> k, revision |-> revision + 1, value |-> v, kind |-> kind_of(k, d)]
  <2>1. n \in Row(Keys, Values) /\ n.revision = revision + 1
    BY DEF TypeOK, StoreTypeOK, Row, kind_of, EventKind
  <2>2. insert(n) /\ floor' = floor
    BY <1>3 DEF mutate
  <2> HIDE DEF n
  <2> QED BY <2>1, <2>2, RowsMutate DEF TypeOK
<1> QED BY <1>1, <1>2, <1>3, DatabaseSteps

\* Reachable states satisfy the compaction invariant.
THEOREM RowsCorrect == Spec => [](TypeOK /\ RowsInv)
<1>1. Init => TypeOK /\ RowsInv
  <2>1. Init => RowsInv
    BY DEF Init, StoreInit, RowsInv, NewestExists, Retained
  <2> QED BY <2>1 DEF Init, StoreInit, TypeOK, StoreTypeOK, Phases
<1>2. TypeOK /\ RowsInv /\ [Next]_vars => (TypeOK /\ RowsInv)'
  BY TypeStep, RowsStep
<1> QED BY <1>1, <1>2, PTL DEF Spec

\* For every number of keys, clients, connections and watchers: compaction
\* never changes the result of a LIST at a revision the store accepts.
THEOREM SnapshotsCorrect == Spec => []SnapshotsSurviveCompaction
<1>1. TypeOK /\ RowsInv => SnapshotsSurviveCompaction
  BY SnapshotsHold DEF TypeOK
<1> QED BY <1>1, RowsCorrect, PTL

\* A target maintain has computed stays at least a window behind the head.
TargetIsOld == \A t \in compactTo : t <= revision - Window

\* However long maintain takes between reading the head and compacting, what it
\* compacts leaves the newest Window revisions readable.
THEOREM WindowCorrect == Spec => WindowIsKept
<1> USE WindowAssumption DEF dbVars, procVars, watchVars, insert, discard
<1>1. Init => TargetIsOld
  BY DEF Init, TargetIsOld
<1>2. TypeOK /\ TargetIsOld /\ [Next]_vars => TargetIsOld'
  <2> SUFFICES ASSUME TypeOK, TargetIsOld, [Next]_vars PROVE TargetIsOld'
    OBVIOUS
  <2>1. ASSUME NEW cl \in Clients, NEW c \in Conns, NEW k, NEW v, NEW e, NEW d,
               mutate(cl, c, k, v, e, d)
        PROVE  TargetIsOld'
    BY <2>1 DEF mutate, TargetIsOld, TypeOK, StoreTypeOK
  <2>2. ASSUME NEW cl \in Clients, NEW c \in Conns, ClientNext(cl, c) PROVE TargetIsOld'
    BY <2>2, <2>1 DEF ClientNext, Get, Refused, Create, Update, Delete, TargetIsOld
  <2>3. ASSUME NEW c \in Conns, MaintainHead(c) PROVE TargetIsOld'
    BY <2>3 DEF MaintainHead, maintenance_revision, TargetIsOld, TypeOK, StoreTypeOK
  <2>4. ASSUME NEW c \in Conns, MaintainCompact(c) \/ Compact(c) PROVE TargetIsOld'
    BY <2>4 DEF MaintainCompact, Compact, compact, TargetIsOld, TypeOK, StoreTypeOK
  <2>5. ASSUME NEW w \in Watchers, NEW c \in Conns,
               StreamStart(w, c) \/ WatchResume(w, c) \/ StreamRead(w, c)
        PROVE  TargetIsOld'
    BY <2>5 DEF StreamStart, ListStart, WatchStart, WatchResume, StreamRead, ListContinue,
                ReplayPage, Poll, list, Fail, TargetIsOld
  <2>6. ASSUME NEW w \in Watchers, StreamYield(w) \/ Disconnect(w) PROVE TargetIsOld'
    BY <2>6 DEF StreamYield, YieldReplay, YieldAnchor, YieldEvent, YieldBookmark, Disconnect,
                TargetIsOld
  <2>7. (\E c \in Conns : ReadBack(c)) \/ Restart \/ UNCHANGED vars => TargetIsOld'
    BY DEF ReadBack, Restart, vars, TargetIsOld
  <2> QED BY <2>2, <2>3, <2>4, <2>5, <2>6, <2>7 DEF Next
<1>3. ASSUME TypeOK, TargetIsOld, [Next]_vars
      PROVE  floor' # floor /\ compactTo # {} /\ compactTo' = {} => revision' - floor' >= Window
  <2> SUFFICES ASSUME floor' # floor, compactTo # {}, compactTo' = {}
               PROVE  revision' - floor' >= Window
    OBVIOUS
  <2>1. ASSUME NEW cl \in Clients, NEW c \in Conns, ClientNext(cl, c) PROVE FALSE
    BY <2>1 DEF ClientNext, Get, Refused, Create, Update, Delete, mutate
  <2>2. ASSUME NEW c \in Conns, MaintainHead(c) \/ Compact(c) PROVE FALSE
    BY <2>2 DEF MaintainHead, Compact
  <2>3. ASSUME NEW c \in Conns, MaintainCompact(c) PROVE revision' - floor' >= Window
    BY <1>3, <2>3 DEF MaintainCompact, compact, TargetIsOld, TypeOK, StoreTypeOK
  <2>4. ASSUME NEW w \in Watchers, NEW c \in Conns,
               StreamStart(w, c) \/ WatchResume(w, c) \/ StreamRead(w, c)
        PROVE  FALSE
    BY <2>4 DEF StreamStart, ListStart, WatchStart, WatchResume, StreamRead, ListContinue,
                ReplayPage, Poll, list, Fail
  <2>5. ASSUME NEW w \in Watchers, StreamYield(w) \/ Disconnect(w) PROVE FALSE
    BY <2>5 DEF StreamYield, YieldReplay, YieldAnchor, YieldEvent, YieldBookmark, Disconnect
  <2>6. ~((\E c \in Conns : ReadBack(c)) \/ Restart \/ UNCHANGED vars)
    BY DEF ReadBack, Restart, vars
  <2> QED BY <1>3, <2>1, <2>2, <2>3, <2>4, <2>5, <2>6 DEF Next
<1> QED BY <1>1, <1>2, <1>3, TypeCorrect, PTL DEF Spec, WindowIsKept

\* The newest row of a key whose mutation waits for its read-back is the row
\* that mutation wrote.
ReadBackIsOwn ==
    \A c \in Conns : \A m \in busy[c] : \E x \in rows :
        /\ x.key = m.key /\ x.value = m.value /\ x.revision = m.revision
        /\ (x.kind = "Deleted") = m.delete
        /\ \A y \in rows : y.key = m.key => y.revision <= x.revision

\* The inductive invariant behind NoLostUpdate.
HeldInv == HeldIsCommitted /\ ReadBackIsOwn

\* With a single connection, no other mutation or compaction can come between
\* a commit and its read-back.
LEMMA HeldStep ==
    ASSUME \A c, d \in Conns : c = d, TypeOK, RowsInv, HeldInv, [Next]_vars
    PROVE  HeldInv'
<1> USE DEF dbVars, procVars, watchVars, insert
<1>1. ASSUME UNCHANGED <<rows, hist, held, busy>> PROVE HeldInv'
  BY <1>1 DEF HeldInv, HeldIsCommitted, ReadBackIsOwn
<1>2. ASSUME NEW cl \in Clients, NEW c \in Conns, NEW k \in Keys, Get(cl, c, k) PROVE HeldInv'
  <2>1. \A x \in get_current(rows, k) : x \in hist /\ x.kind # "Deleted"
    BY DEF get_current, RowsInv
  <2>2. HeldIsCommitted'
    BY <1>2, <2>1 DEF Get, HeldInv, HeldIsCommitted, TypeOK, StoreTypeOK
  <2> QED BY <1>2, <2>2 DEF Get, HeldInv, ReadBackIsOwn
<1>3. ASSUME NEW cl \in Clients, NEW c \in Conns, NEW k \in Keys, NEW v \in Values,
             NEW e, NEW d \in BOOLEAN, mutate(cl, c, k, v, e, d)
      PROVE  HeldInv'
  <2> DEFINE n == [key |-> k, revision |-> revision + 1, value |-> v, kind |-> kind_of(k, d)]
             m == [client |-> cl, key |-> k, value |-> v, delete |-> d,
                   revision |-> revision + 1]
  <2>1. /\ rows' = rows \cup {n} /\ hist' = hist \cup {n}
        /\ busy' = [busy EXCEPT ![c] = {m}] /\ held' = held
    BY <1>3 DEF mutate, Free
  <2>2. HeldIsCommitted'
    BY <2>1 DEF HeldInv, HeldIsCommitted
  <2>3. \A a \in Conns : busy'[a] = {m}
    BY <2>1 DEF TypeOK, StoreTypeOK
  <2>4. (n.kind = "Deleted") = d
    BY DEF kind_of
  <2>5. \A y \in rows' : y.revision <= n.revision
    BY <2>1 DEF RowsInv, TypeOK, StoreTypeOK, Row
  <2>6. ReadBackIsOwn'
    <3>1. /\ n \in rows' /\ n.key = m.key /\ n.value = m.value /\ m.delete = d
          /\ n.revision = m.revision
      BY <2>1
    <3> HIDE DEF n, m
    <3> QED BY <2>3, <2>4, <2>5, <3>1 DEF ReadBackIsOwn
  <2> QED BY <2>2, <2>6 DEF HeldInv
<1>4. ASSUME NEW cl \in Clients, NEW c \in Conns, Refused(cl, c) PROVE HeldInv'
  BY <1>4 DEF Refused, HeldInv, HeldIsCommitted, ReadBackIsOwn, TypeOK, StoreTypeOK
<1>5. ASSUME NEW c \in Conns, ReadBack(c) PROVE HeldInv'
  <2>1. PICK m \in busy[c] : \E x \in rows :
          /\ x.key = m.key
          /\ \A z \in rows : z.key = m.key => z.revision <= x.revision
          /\ held' = [held EXCEPT ![m.client] =
                       IF m.delete THEN {}
                       ELSE {[key |-> m.key, revision |-> x.revision, value |-> m.value]}]
    BY <1>5 DEF ReadBack
  <2>2. PICK x \in rows :
          /\ x.key = m.key
          /\ \A z \in rows : z.key = m.key => z.revision <= x.revision
          /\ held' = [held EXCEPT ![m.client] =
                       IF m.delete THEN {}
                       ELSE {[key |-> m.key, revision |-> x.revision, value |-> m.value]}]
    BY <2>1
  <2>3. m \in Mutation /\ m.client \in Clients /\ m.delete \in BOOLEAN
    BY DEF TypeOK, StoreTypeOK, Mutation
  <2>4. PICK y \in rows :
          /\ y.key = m.key /\ y.value = m.value
          /\ (y.kind = "Deleted") = m.delete
          /\ \A z \in rows : z.key = m.key => z.revision <= y.revision
    BY DEF HeldInv, ReadBackIsOwn
  <2>5. x = y
    <3>1. x.revision <= y.revision /\ y.revision <= x.revision
      BY <2>2, <2>4
    <3>2. x.revision \in Nat /\ y.revision \in Nat /\ x \in hist /\ y \in hist
      BY DEF RowsInv, TypeOK, StoreTypeOK, Row
    <3>3. x.revision = y.revision
      BY <3>1, <3>2
    <3> QED BY <3>2, <3>3 DEF RowsInv
  <2>6. HeldIsCommitted'
    <3> SUFFICES ASSUME NEW cl \in Clients, NEW o \in held'[cl]
                 PROVE  \E z \in hist' : z.kind # "Deleted" /\ ObjectOf(z) = o
      BY DEF HeldIsCommitted
    <3>1. CASE o \in held[cl]
      BY <1>5, <3>1 DEF ReadBack, HeldInv, HeldIsCommitted
    <3>2. CASE o \notin held[cl]
      <4>1. ~m.delete /\ o = [key |-> m.key, revision |-> x.revision, value |-> m.value]
        BY <2>2, <2>3, <3>2 DEF TypeOK, StoreTypeOK
      <4>2. ObjectOf(y) = o /\ y.kind # "Deleted"
        BY <2>4, <2>5, <4>1 DEF ObjectOf
      <4> QED BY <1>5, <4>2 DEF ReadBack, RowsInv
    <3> QED BY <3>1, <3>2
  <2>7. ReadBackIsOwn'
    <3>1. rows' = rows /\ \A a \in Conns : busy'[a] \subseteq busy[a]
      BY <1>5 DEF ReadBack, TypeOK, StoreTypeOK
    <3> QED BY <3>1 DEF HeldInv, ReadBackIsOwn
  <2> QED BY <2>6, <2>7 DEF HeldInv
<1>6. ASSUME NEW c \in Conns, Compact(c) \/ MaintainHead(c) \/ MaintainCompact(c)
      PROVE  HeldInv'
  <2>1. \A a \in Conns : busy'[a] = {}
    BY <1>6 DEF Compact, MaintainHead, MaintainCompact, Free
  <2>2. held' = held /\ hist' = hist
    BY <1>6 DEF Compact, MaintainHead, MaintainCompact, compact
  <2> QED BY <2>1, <2>2 DEF HeldInv, HeldIsCommitted, ReadBackIsOwn
<1>7. ASSUME NEW cl \in Clients, NEW c \in Conns, ClientNext(cl, c) PROVE HeldInv'
  <2>1. \A o \in held[cl] : o.key \in Keys
    BY DEF TypeOK, StoreTypeOK, StoredObject
  <2>2. \A x \in rows : x.value \in Values
    BY DEF TypeOK, StoreTypeOK, Row
  <2>3. ASSUME NEW k \in Keys, NEW v \in Values, Create(cl, c, k, v) PROVE HeldInv'
    BY <2>3, <1>3 DEF Create
  <2>4. ASSUME NEW v \in Values, Update(cl, c, v) PROVE HeldInv'
    BY <2>4, <2>1, <1>3 DEF Update
  <2>5. ASSUME Delete(cl, c) PROVE HeldInv'
    BY <2>5, <2>1, <2>2, <1>3 DEF Delete, get_current
  <2> QED BY <1>7, <1>2, <1>4, <2>3, <2>4, <2>5 DEF ClientNext
<1>8. ASSUME NEW w \in Watchers, NEW c \in Conns,
             StreamStart(w, c) \/ WatchResume(w, c) \/ StreamRead(w, c)
      PROVE  HeldInv'
  BY <1>8, <1>1 DEF StreamStart, ListStart, WatchStart, WatchResume, StreamRead,
                    ListContinue, ReplayPage, Poll, list, Fail
<1>9. ASSUME NEW w \in Watchers, StreamYield(w) \/ Disconnect(w) PROVE HeldInv'
  BY <1>9, <1>1 DEF StreamYield, YieldReplay, YieldAnchor, YieldEvent, YieldBookmark, Disconnect
<1>10. CASE Restart
  BY <1>10 DEF Restart, HeldInv, HeldIsCommitted, ReadBackIsOwn
<1>11. CASE UNCHANGED vars
  BY <1>11, <1>1 DEF vars
<1> QED BY <1>5, <1>6, <1>7, <1>8, <1>9, <1>10, <1>11 DEF Next

\* A mutation that passed the compare-and-set replaces what its client held.
LEMMA MutationReplacesHeld ==
    ASSUME TypeOK, RowsInv, HeldIsCommitted,
           NEW cl \in Clients, NEW c \in Conns, ClientNext(cl, c)
    PROVE  \A a \in Conns : \A m \in busy'[a] \ busy[a] :
             { ObjectOf(x) : x \in get_current(rows, m.key) } \subseteq held[m.client]
<1>1. ASSUME NEW k, NEW v, NEW e, NEW d, mutate(cl, c, k, v, e, d),
             \A x \in get_current(rows, k) : ObjectOf(x) \in held[cl]
      PROVE  \A a \in Conns : \A m \in busy'[a] \ busy[a] :
               { ObjectOf(x) : x \in get_current(rows, m.key) } \subseteq held[m.client]
  <2>1. busy' = [busy EXCEPT ![c] = {[client |-> cl, key |-> k, value |-> v, delete |-> d,
                                       revision |-> revision + 1]}]
    BY <1>1 DEF mutate, Free
  <2>2. \A a \in Conns : \A m \in busy'[a] \ busy[a] : m.client = cl /\ m.key = k
    BY <2>1 DEF TypeOK, StoreTypeOK
  <2> QED BY <1>1, <2>2
<1>2. ASSUME NEW o \in held[cl], cas_holds(o.key, o.revision)
      PROVE  \A x \in get_current(rows, o.key) : ObjectOf(x) \in held[cl]
  BY <1>2, CasFindsHeld DEF TypeOK
<1>3. ASSUME NEW k \in Keys, NEW v \in Values, Create(cl, c, k, v)
      PROVE  get_current(rows, k) = {}
  BY <1>3 DEF Create, mutate, cas_holds
<1>4. ASSUME UNCHANGED busy
      PROVE  \A a \in Conns : \A m \in busy'[a] \ busy[a] :
               { ObjectOf(x) : x \in get_current(rows, m.key) } \subseteq held[m.client]
  BY <1>4
<1>5. CASE \E k \in Keys, v \in Values : Create(cl, c, k, v)
  BY <1>5, <1>1, <1>3 DEF Create
<1>6. CASE \E v \in Values : Update(cl, c, v)
  <2>1. PICK v \in Values, o \in held[cl] : mutate(cl, c, o.key, v, o.revision, FALSE)
    BY <1>6 DEF Update
  <2>2. cas_holds(o.key, o.revision)
    BY <2>1 DEF mutate
  <2> QED BY <2>1, <2>2, <1>1, <1>2
<1>7. CASE Delete(cl, c)
  <2>1. PICK o \in held[cl], old \in rows : mutate(cl, c, o.key, old.value, o.revision, TRUE)
    BY <1>7 DEF Delete, get_current
  <2>2. cas_holds(o.key, o.revision)
    BY <2>1 DEF mutate
  <2> QED BY <2>1, <2>2, <1>1, <1>2
<1>8. CASE Refused(cl, c) \/ \E k \in Keys : Get(cl, c, k)
  BY <1>8, <1>4 DEF Refused, Get
<1> QED BY <1>5, <1>6, <1>7, <1>8 DEF ClientNext

\* Through one connection, as the server opens the registry, the object a
\* client holds was really committed, with its own value and revision.
THEOREM HeldCorrect ==
    ASSUME \A c, d \in Conns : c = d
    PROVE  Spec => []HeldIsCommitted
<1>1. Init => HeldInv
  BY DEF Init, StoreInit, HeldInv, HeldIsCommitted, ReadBackIsOwn
<1>2. TypeOK /\ RowsInv /\ HeldInv /\ [Next]_vars => HeldInv'
  BY HeldStep
<1>3. HeldInv => HeldIsCommitted
  BY DEF HeldInv
<1> QED BY <1>1, <1>2, <1>3, RowsCorrect, PTL DEF Spec

\* What a read-back hands to its client is the write it stands for.
LEMMA ReadBackReportsOwn ==
    ASSUME TypeOK, RowsInv, ReadBackIsOwn, NEW c \in Conns, ReadBack(c)
    PROVE  \A a \in Conns : \A m \in busy[a] \ busy'[a] :
             held'[m.client] \subseteq
                {[key |-> m.key, revision |-> m.revision, value |-> m.value]}
<1>1. PICK m \in busy[c] :
        /\ \E x \in rows :
             /\ x.key = m.key
             /\ \A z \in rows : z.key = m.key => z.revision <= x.revision
             /\ held' = [held EXCEPT ![m.client] =
                          IF m.delete THEN {}
                          ELSE {[key |-> m.key, revision |-> x.revision, value |-> m.value]}]
        /\ busy' = [busy EXCEPT ![c] = @ \ {m}]
  BY DEF ReadBack
<1>2. PICK x \in rows :
        /\ x.key = m.key
        /\ \A z \in rows : z.key = m.key => z.revision <= x.revision
        /\ held' = [held EXCEPT ![m.client] =
                     IF m.delete THEN {}
                     ELSE {[key |-> m.key, revision |-> x.revision, value |-> m.value]}]
  BY <1>1
<1>3. PICK y \in rows :
        /\ y.key = m.key /\ y.revision = m.revision
        /\ \A z \in rows : z.key = m.key => z.revision <= y.revision
  BY DEF ReadBackIsOwn
<1>4. x.revision = m.revision
  <2>1. x.revision <= y.revision /\ y.revision <= x.revision
    BY <1>2, <1>3
  <2>2. x.revision \in Nat /\ y.revision \in Nat
    BY DEF TypeOK, StoreTypeOK, Row
  <2> QED BY <2>1, <2>2, <1>3
<1>5. \A a \in Conns : \A n \in busy[a] \ busy'[a] : n = m
  BY <1>1 DEF TypeOK, StoreTypeOK
<1>6. m.client \in Clients
  BY DEF TypeOK, StoreTypeOK, Mutation
<1>7. held'[m.client] \subseteq {[key |-> m.key, revision |-> m.revision, value |-> m.value]}
  BY <1>2, <1>4, <1>6 DEF TypeOK, StoreTypeOK
<1> QED BY <1>5, <1>7

\* Through one connection, however many clients share it, no update or
\* delete that commits overwrites a version its client was not told of, and
\* no client is told of another client's write as its own.
THEOREM NoLostUpdateCorrect ==
    ASSUME \A c, d \in Conns : c = d
    PROVE  Spec => NoLostUpdate
<1> DEFINE Replaces ==
      \A c \in Conns : \A m \in busy'[c] \ busy[c] :
         { ObjectOf(x) : x \in get_current(rows, m.key) } \subseteq held[m.client]
      Reports ==
      \A c \in Conns : \A m \in busy[c] \ busy'[c] :
         held'[m.client] \subseteq
            {[key |-> m.key, revision |-> m.revision, value |-> m.value]}
<1>1. TypeOK /\ RowsInv /\ HeldInv /\ [Next]_vars => [Replaces /\ Reports]_vars
  <2> SUFFICES ASSUME TypeOK, RowsInv, HeldInv, Next PROVE Replaces /\ Reports
    OBVIOUS
  <2>1. ASSUME NEW cl \in Clients, NEW c \in Conns, ClientNext(cl, c)
        PROVE  Replaces /\ Reports
    <3>1. Replaces
      BY <2>1, MutationReplacesHeld DEF HeldInv
    <3>2. \A a \in Conns : busy[a] \subseteq busy'[a]
      BY <2>1 DEF ClientNext, Get, Create, Update, Delete, mutate, Refused, TypeOK, StoreTypeOK
    <3> QED BY <3>1, <3>2
  <2>2. ASSUME UNCHANGED busy PROVE Replaces /\ Reports
    BY <2>2
  <2>3. ASSUME NEW c \in Conns, ReadBack(c) PROVE Replaces /\ Reports
    <3>1. Reports
      BY <2>3, ReadBackReportsOwn DEF HeldInv
    <3>2. \A a \in Conns : busy'[a] \subseteq busy[a]
      BY <2>3 DEF ReadBack, TypeOK, StoreTypeOK
    <3> QED BY <3>1, <3>2
  <2>4. CASE Restart
    <3>1. \A a \in Conns : busy'[a] = {}
      BY <2>4 DEF Restart
    <3>2. \A a \in Conns : \A m \in busy[a] : held'[m.client] = {}
      BY <2>4 DEF Restart, TypeOK, StoreTypeOK, Mutation
    <3> QED BY <3>1, <3>2
  <2> HIDE DEF Replaces, Reports
  <2>5. ASSUME NEW c \in Conns, Compact(c) \/ MaintainHead(c) \/ MaintainCompact(c)
        PROVE  Replaces /\ Reports
    BY <2>5, <2>2 DEF Compact, MaintainHead, MaintainCompact, procVars
  <2>6. ASSUME NEW w \in Watchers, NEW c \in Conns,
               StreamStart(w, c) \/ WatchResume(w, c) \/ StreamRead(w, c)
        PROVE  Replaces /\ Reports
    BY <2>6, <2>2 DEF StreamStart, ListStart, WatchStart, WatchResume, StreamRead,
                      ListContinue, ReplayPage, Poll, list, Fail, procVars
  <2>7. ASSUME NEW w \in Watchers, StreamYield(w) \/ Disconnect(w)
        PROVE  Replaces /\ Reports
    BY <2>7, <2>2 DEF StreamYield, YieldReplay, YieldAnchor, YieldEvent, YieldBookmark,
                      Disconnect, procVars
  <2> QED BY <2>1, <2>3, <2>4, <2>5, <2>6, <2>7 DEF Next
<1>2. Spec => []HeldInv
  <2>1. Init => HeldInv
    BY DEF Init, StoreInit, HeldInv, HeldIsCommitted, ReadBackIsOwn
  <2>2. TypeOK /\ RowsInv /\ HeldInv /\ [Next]_vars => HeldInv'
    BY HeldStep
  <2> QED BY <2>1, <2>2, RowsCorrect, PTL DEF Spec
<1>3. [Replaces /\ Reports]_vars =>
        [\A c \in Conns :
           /\ \A m \in busy'[c] \ busy[c] :
                { ObjectOf(x) : x \in get_current(rows, m.key) } \subseteq held[m.client]
           /\ \A m \in busy[c] \ busy'[c] :
                held'[m.client] \subseteq
                   {[key |-> m.key, revision |-> m.revision, value |-> m.value]}]_vars
  OBVIOUS
<1> QED BY <1>1, <1>2, <1>3, RowsCorrect, PTL DEF Spec, NoLostUpdate

\* A page of a LIST goes on with the snapshot the LIST began in.
LEMMA ListKeeps ==
    ASSUME StoreTypeOK, StoreTypeOK', RowsInv, IsFiniteSet(rows), NEW w \in Watchers,
           NEW P \in SUBSET Keys, NEW rev \in floor..revision, NEW after \in Nat, NEW base,
           pending[w] = {}, base = UpToKey(list_at(hist, P, rev), after),
           list(w, P, rev, after, base)
    PROVE  CacheOf(w)'
<1> DEFINE C == list_at(hist, P, rev)
           page == PageOf(C, after, Page)
<1>1. list_at(rows, P, rev) = C
  BY QueriesAreExact
<1>2. C \in SUBSET Row(Keys, Values) /\ IsFiniteSet(C)
  <2>1. C \in SUBSET rows /\ C \in SUBSET hist
    BY <1>1, QueriesSelectRows
  <2> QED BY <2>1, FS_Subset DEF StoreTypeOK
<1>3. \A x \in C : x.key \in Nat
  BY <1>2, KeysAssumption DEF Row
<1>4. /\ prefix'[w] = P /\ cursor'[w] = rev /\ view'[w] = base \cup page
      /\ pending'[w] = {} /\ hist' = hist /\ revision' = revision
  BY <1>1 DEF list, StoreTypeOK, dbVars
<1>5. Selected(w, cursor[w])' = C /\ Undelivered(w)' = {}
  BY <1>4 DEF Selected, Undelivered
<1>6. rev <= revision /\ rev \in Nat /\ 0 <= revision
  BY DEF StoreTypeOK
<1> HIDE DEF C
<1>7. CASE HasMore(C, after, Page)
  <2>1. PICK last \in page :
          /\ \A y \in page : y.key <= last.key
          /\ pageAfter'[w] = last.key /\ phase'[w] = "listing" /\ seen'[w] = 0
    BY <1>1, <1>7 DEF list, StoreTypeOK
  <2>2. page = { x \in C : x.key > after /\ x.key <= last.key } /\ last.key \in Nat
    BY <1>2, <1>3, <2>1, PageEnds DEF PageOf
  <2>3. last.key >= after
    BY <2>1, <2>2, <1>3
  <2>4. base \cup page = UpToKey(C, last.key)
    BY <1>3, <2>2, <2>3 DEF UpToKey, C
  <2> QED BY <1>4, <1>5, <1>6, <2>1, <2>4 DEF CacheOf, Idle
<1>8. CASE ~HasMore(C, after, Page)
  <2>1. phase'[w] = "off" /\ seen'[w] = rev
    BY <1>1, <1>8 DEF list, StoreTypeOK
  <2>2. page = { x \in C : x.key > after }
    BY <1>2, <1>8, PageEnds
  <2>3. base \cup page = C
    BY <1>3, <2>2 DEF UpToKey, C
  <2>4. Selected(w, seen[w])' = C
    BY <1>4, <2>1 DEF Selected, C
  <2> QED BY <1>4, <1>5, <1>6, <2>1, <2>3, <2>4 DEF CacheOf, Idle
<1> QED BY <1>7, <1>8

\* Each step keeps what every watcher has and waits for.
LEMMA CacheStep == TypeOK /\ RowsInv /\ CacheInv /\ [Next]_vars => CacheInv'
<1> SUFFICES ASSUME TypeOK, RowsInv, CacheInv, [Next]_vars PROVE CacheInv'
  OBVIOUS
<1> USE DEF dbVars, procVars, watchVars
<1>1. StoreTypeOK /\ StoreTypeOK' /\ TypeOK'
  BY TypeStep DEF TypeOK
<1>2. IsFiniteSet(rows) /\ \A w \in Watchers : CacheOf(w)
  BY DEF CacheInv
<1>3. ASSUME UNCHANGED <<hist, revision, watchVars>>, IsFiniteSet(rows') PROVE CacheInv'
  BY <1>1, <1>2, <1>3, DatabaseKeepsCaches DEF Same, CacheInv
<1>4. ASSUME NEW rev \in Nat, compact(rev), UNCHANGED watchVars PROVE CacheInv'
  <2>1. IsFiniteSet(rows')
    BY <1>2, <1>4, QueriesSelectRows, FS_Subset DEF compact, discard
  <2> QED BY <1>3, <1>4, <2>1 DEF compact
<1>5. ASSUME NEW cl \in Clients, NEW c \in Conns, NEW k \in Keys, NEW v \in Values,
             NEW e, NEW d \in BOOLEAN, mutate(cl, c, k, v, e, d)
      PROVE  CacheInv'
  <2> DEFINE n == [key |-> k, revision |-> revision + 1, value |-> v, kind |-> kind_of(k, d)]
  <2>1. n \in Row(Keys, Values) /\ n.revision = revision + 1
    BY <1>1 DEF StoreTypeOK, Row, kind_of, EventKind
  <2>2. insert(n) /\ UNCHANGED watchVars
    BY <1>5 DEF mutate
  <2> HIDE DEF n
  <2>3. IsFiniteSet(rows')
    BY <1>2, <2>2, FS_AddElement DEF insert
  <2>4. \A w \in Watchers : CacheOf(w)'
    BY <1>1, <1>2, <2>1, <2>2, DatabaseKeepsCaches DEF Same
  <2> QED BY <2>3, <2>4 DEF CacheInv
<1>6. ASSUME NEW w \in Watchers, CacheOf(w)', UNCHANGED <<rows, hist, revision>>,
             \A u \in Watchers \ {w} : Same(u)
      PROVE  CacheInv'
  BY <1>1, <1>2, <1>6, DatabaseKeepsCaches DEF CacheInv
<1>7. ASSUME NEW cl \in Clients, NEW c \in Conns, ClientNext(cl, c) PROVE CacheInv'
  <2>1. \A o \in held[cl] : o.key \in Keys
    BY <1>1 DEF StoreTypeOK, StoredObject
  <2>2. \A x \in rows : x.value \in Values
    BY <1>1 DEF StoreTypeOK, Row
  <2>3. ASSUME NEW k \in Keys, NEW v \in Values, Create(cl, c, k, v) PROVE CacheInv'
    BY <2>3, <1>5 DEF Create
  <2>4. ASSUME NEW v \in Values, Update(cl, c, v) PROVE CacheInv'
    BY <2>4, <2>1, <1>5 DEF Update
  <2>5. ASSUME Delete(cl, c) PROVE CacheInv'
    BY <2>5, <2>1, <2>2, <1>5 DEF Delete, get_current
  <2> QED BY <1>2, <1>3, <1>7, <2>3, <2>4, <2>5 DEF ClientNext, Get, Refused
<1>8. ASSUME NEW c \in Conns, Compact(c) \/ MaintainHead(c) \/ MaintainCompact(c) PROVE CacheInv'
  BY <1>1, <1>2, <1>3, <1>4, <1>8 DEF Compact, MaintainHead, MaintainCompact, TypeOK, StoreTypeOK
<1>9. ASSUME NEW w \in Watchers, NEW P \in Prefixes, NEW c \in Conns, ListStart(w, c, P)
      PROVE  CacheInv'
  <2>1. pending[w] = {}
    BY <1>2, <1>9 DEF ListStart, CacheOf
  <2>2. list(w, P, revision, 0, {})
    BY <1>9 DEF ListStart
  <2>3. revision \in floor..revision /\ P \in SUBSET Keys
    BY <1>1, PrefixesAssumption DEF RowsInv, StoreTypeOK
  <2>4. \A x \in list_at(hist, P, revision) : x.key \in Nat /\ x.key # 0
    BY <1>1, KeysAssumption DEF list_at, StoreTypeOK, Row
  <2>5. {} = UpToKey(list_at(hist, P, revision), 0)
    BY <2>4 DEF UpToKey
  <2>6. CacheOf(w)'
    BY <1>1, <1>2, <2>1, <2>2, <2>3, <2>5, ListKeeps
  <2>7. UNCHANGED <<rows, hist, revision>> /\ \A u \in Watchers \ {w} : Same(u)
    BY <1>1, <2>2 DEF list, Same, StoreTypeOK
  <2> QED BY <1>6, <2>6, <2>7
<1>10. ASSUME NEW w \in Watchers, NEW P \in Prefixes, NEW c \in Conns, WatchStart(w, c, P)
       PROVE  CacheInv'
  <2>1. pending[w] = {} /\ P \in SUBSET Keys
    BY <1>2, <1>10, PrefixesAssumption DEF WatchStart, CacheOf
  <2>2. /\ prefix'[w] = P /\ cursor'[w] = revision /\ pageAfter'[w] = 0 /\ view'[w] = {}
        /\ seen'[w] = 0 /\ pending'[w] = {} /\ UNCHANGED <<rows, hist, revision>>
        /\ phase'[w] = IF revision > 0 THEN "initial" ELSE "replayed"
    BY <1>1, <2>1, <1>10 DEF WatchStart, StoreTypeOK
  <2>3. phase'[w] = "initial" \/ (phase'[w] = "replayed" /\ revision = 0)
    BY <1>1, <2>2 DEF StoreTypeOK
  <2>4. CacheOf(w)'
    BY <1>1, <2>1, <2>2, <2>3, WatchKeeps
  <2>5. \A u \in Watchers \ {w} : Same(u)
    BY <1>1, <1>10 DEF WatchStart, Same, StoreTypeOK
  <2> QED BY <1>6, <2>2, <2>4, <2>5
<1>11. ASSUME NEW w \in Watchers, Fail(w), pending[w] = {} PROVE CacheInv'
  <2>1. CacheOf(w)'
    BY <1>1, <1>2, <1>11, StoppedKeeps DEF Fail, StoreTypeOK
  <2> QED BY <1>1, <1>6, <1>11, <2>1 DEF Fail, Same, StoreTypeOK
<1>12. ASSUME NEW w \in Watchers, NEW c \in Conns, ListContinue(w, c) PROVE CacheInv'
  <2>1. pending[w] = {} /\ Undelivered(w) = {} /\ phase[w] = "listing"
    BY <1>2, <1>12 DEF ListContinue, CacheOf, Undelivered
  <2>2. CASE ~Fail(w)
    <3>1. Valid(cursor[w]) /\ list(w, prefix[w], cursor[w], pageAfter[w], view[w])
      BY <1>12, <2>2 DEF ListContinue
    <3>2. cursor[w] \in floor..revision /\ prefix[w] \in SUBSET Keys /\ pageAfter[w] \in Nat
      BY <1>1, <3>1 DEF Valid, validate_revision, StoreTypeOK
    <3>3. view[w] = UpToKey(list_at(hist, prefix[w], cursor[w]), pageAfter[w])
      BY <1>2, <2>1 DEF CacheOf, Selected
    <3>4. CacheOf(w)'
      BY <1>1, <1>2, <2>1, <3>1, <3>2, <3>3, ListKeeps
    <3>5. UNCHANGED <<rows, hist, revision>> /\ \A u \in Watchers \ {w} : Same(u)
      BY <1>1, <3>1 DEF list, Same, StoreTypeOK
    <3> QED BY <1>6, <3>4, <3>5
  <2> QED BY <1>11, <2>1, <2>2
<1>13. ASSUME NEW w \in Watchers, NEW c \in Conns, WatchResume(w, c) PROVE CacheInv'
  <2>1. pending[w] = {} /\ phase[w] = "off" /\ seen[w] > 0
    BY <1>2, <1>13 DEF WatchResume, CacheOf, Idle
  <2>2. CASE ~Fail(w)
    <3>1. /\ phase'[w] = "live" /\ cursor'[w] = seen[w] /\ pending' = pending
          /\ UNCHANGED <<rows, hist, revision, prefix, pageAfter, view, seen>>
      BY <1>1, <1>13, <2>2 DEF WatchResume, StoreTypeOK
    <3>2. CacheOf(w)'
      BY <1>1, <1>2, <2>1, <3>1, ResumeKeeps
    <3>3. \A u \in Watchers \ {w} : Same(u)
      BY <1>1, <1>13, <2>2 DEF WatchResume, Same, StoreTypeOK
    <3> QED BY <1>6, <3>1, <3>2, <3>3
  <2> QED BY <1>11, <2>1, <2>2
<1>14. ASSUME NEW w \in Watchers, NEW c \in Conns, ReplayPage(w, c) \/ Poll(w, c) PROVE CacheInv'
  <2>1. CASE ~Fail(w)
    <3>1. Valid(cursor[w]) /\ pending[w] = {}
      BY <1>14, <2>1 DEF ReplayPage, Poll
    <3>2. cursor[w] \in floor..revision
      BY <1>1, <3>1 DEF Valid, validate_revision, StoreTypeOK
    <3>3. CASE ReplayPage(w, c)
      <4>1. /\ phase[w] = "initial" /\ replay_page(w, cursor[w])
            /\ UNCHANGED <<rows, hist, revision, prefix, cursor, view, seen>>
        BY <2>1, <3>3 DEF ReplayPage
      <4>2. CacheOf(w)'
        BY <1>1, <1>2, <3>1, <3>2, <4>1, PageKeeps
      <4>3. \A u \in Watchers \ {w} : Same(u)
        BY <1>1, <4>1 DEF replay_page, Same, StoreTypeOK
      <4> QED BY <1>6, <4>1, <4>2, <4>3
    <3>4. CASE Poll(w, c)
      <4>1. /\ phase[w] = "live" /\ next_batch(w, revision)
            /\ UNCHANGED <<rows, hist, revision, phase, prefix, pageAfter, view, seen>>
        BY <2>1, <3>4 DEF Poll
      <4>2. CacheOf(w)'
        BY <1>1, <1>2, <3>1, <3>2, <4>1, BatchKeeps
      <4>3. \A u \in Watchers \ {w} : Same(u)
        BY <1>1, <4>1 DEF next_batch, next_cursor, Same, StoreTypeOK
      <4> QED BY <1>6, <4>1, <4>2, <4>3
    <3> QED BY <1>14, <3>3, <3>4
  <2>2. CASE Fail(w)
    BY <1>11, <1>14, <2>2 DEF ReplayPage, Poll
  <2> QED BY <2>1, <2>2
<1>15. ASSUME NEW w \in Watchers, StreamYield(w) PROVE CacheInv'
  <2>1. UNCHANGED <<rows, hist, revision>> /\ \A u \in Watchers \ {w} : Same(u)
    BY <1>1, <1>15 DEF StreamYield, YieldReplay, YieldAnchor, YieldEvent, YieldBookmark,
                       deliver_object, deliver_change, Same, StoreTypeOK
  <2>2. CASE YieldReplay(w)
    BY <1>1, <1>2, <1>6, <2>1, <2>2, ObjectKeeps DEF YieldReplay
  <2>3. CASE YieldAnchor(w)
    BY <1>1, <1>2, <1>6, <2>1, <2>3, AnchorKeeps DEF YieldAnchor, StoreTypeOK
  <2>4. CASE YieldEvent(w)
    BY <1>1, <1>2, <1>6, <2>1, <2>4, ChangeKeeps DEF YieldEvent
  <2>5. CASE YieldBookmark(w)
    BY <1>1, <1>2, <1>6, <2>1, <2>5, BookmarkKeeps DEF YieldBookmark, StoreTypeOK
  <2> QED BY <1>15, <2>2, <2>3, <2>4, <2>5 DEF StreamYield
<1>16. ASSUME NEW w \in Watchers, Disconnect(w) PROVE CacheInv'
  <2>1. CacheOf(w)'
    BY <1>1, <1>2, <1>16, StoppedKeeps DEF Disconnect, StoreTypeOK
  <2> QED BY <1>1, <1>6, <1>16, <2>1 DEF Disconnect, Same, StoreTypeOK
<1>17. CASE Restart
  <2>1. ASSUME NEW w \in Watchers PROVE CacheOf(w)'
    <3>1. /\ phase'[w] \in {"off", "failed"} /\ pending'[w] = {}
          /\ UNCHANGED <<hist, revision, prefix, cursor, view, seen>>
      BY <1>17 DEF Restart, Idle
    <3> QED BY <1>1, <1>2, <3>1, StoppedKeeps
  <2> QED BY <1>2, <1>17, <2>1 DEF Restart, CacheInv
<1>18. CASE UNCHANGED vars
  BY <1>2, <1>3, <1>18 DEF vars
<1>19. ASSUME NEW c \in Conns, ReadBack(c) PROVE CacheInv'
  BY <1>2, <1>3, <1>19 DEF ReadBack
<1> QED BY <1>7, <1>8, <1>9, <1>10, <1>12, <1>13, <1>14, <1>15, <1>16, <1>17, <1>18, <1>19
        DEF Next, StreamStart, StreamRead

\* For any number of writers, watchers, keys and connections, and whatever is
\* compacted, cut off or resumed: what a watcher has is the registry at the
\* revision it would resume from, and each event comes with the version it
\* replaced (sqlite.rs, list and watch).
THEOREM CachesCorrect == Spec => []CacheIsASnapshot
<1>1. Init => CacheInv
  BY FS_EmptySet DEF Init, StoreInit, CacheInv, CacheOf, Idle
<1>2. TypeOK /\ RowsInv /\ CacheInv /\ [Next]_vars => CacheInv'
  BY CacheStep
<1>3. TypeOK /\ CacheInv => CacheIsASnapshot
  BY CachesHold DEF TypeOK
<1> QED BY <1>1, <1>2, <1>3, RowsCorrect, PTL DEF Spec

\* The SQLite backend implements the contract of the Storage trait.
THEOREM ContractCorrect == Spec => ImplementsContract
<1>1. Init => Contract!Init
  BY InitImplements DEF Init
<1>2. TypeOK /\ RowsInv /\ (TypeOK /\ RowsInv)' /\ [Next]_vars => [Contract!Next]_(Contract!vars)
  <2> SUFFICES ASSUME TypeOK, RowsInv, TypeOK', RowsInv', [Next]_vars
               PROVE  Contract!Next \/ UNCHANGED Contract!vars
    OBVIOUS
  <2>1. StoreTypeOK /\ StoreTypeOK'
    BY DEF TypeOK
  <2>2. CASE UNCHANGED dbVars
    BY <2>2 DEF dbVars, Contract!vars
  <2>3. ASSUME NEW rev \in Nat, compact(rev)
        PROVE  Contract!Next \/ UNCHANGED Contract!vars
    <3>1. CASE rev <= revision /\ rev > floor
      BY <2>1, <2>3, <3>1, DiscardImplements DEF compact
    <3>2. CASE ~(rev <= revision /\ rev > floor)
      BY <2>3, <3>2 DEF compact, dbVars, Contract!vars
    <3> QED BY <3>1, <3>2
  <2>4. ASSUME NEW cl \in Clients, NEW c \in Conns, NEW k \in Keys, NEW v \in Values,
               NEW e \in Nat, NEW d \in BOOLEAN, (d => e # 0), mutate(cl, c, k, v, e, d)
        PROVE  Contract!Next
    <3> DEFINE n == [key |-> k, revision |-> revision + 1, value |-> v, kind |-> kind_of(k, d)]
    <3>1. n \in Row(Keys, Values) /\ n.revision = revision + 1 /\ n.key = k
      BY <2>1 DEF StoreTypeOK, Row, kind_of, EventKind
    <3>2. insert(n) /\ floor' = floor /\ cas_holds(k, e)
      BY <2>4 DEF mutate
    <3>3. n.kind = "Deleted" => get_current(rows, k) # {}
      BY <2>4, <3>2 DEF kind_of, cas_holds
    <3> HIDE DEF n
    <3> QED BY <2>1, <3>1, <3>2, <3>3, InsertImplements
  <2> QED BY <2>2, <2>3, <2>4, DatabaseSteps
<1> QED BY <1>1, <1>2, RowsCorrect, PTL DEF Spec, ImplementsContract, Contract!Spec

-----------------------------------------------------------------------------
(* PostgresStore.                                                          *)

\* What an operation in progress carries.
LEMMA OperationFields ==
    ASSUME NEW o \in Operation
    PROVE  /\ o.kind = "mutate" => o.client \in Clients /\ o.row \in Row(Keys, Values)
           /\ o.kind = "compact" => o.rev \in Nat
           /\ o.kind = "list" => o.watcher \in Watchers /\ o.rev \in Nat
           /\ o.kind = "changes" => o.watcher \in Watchers /\ o.current \in Nat
           /\ o.kind \in {"mutate", "compact", "list", "changes"}
BY DEF Operation

\* The row a mutation inserts is the one it prepared, at the next revision.
LEMMA RowAtRevision ==
    ASSUME NEW r \in Row(Keys, Values), NEW n \in Nat \ {0}, NEW x,
           x = [r EXCEPT !.revision = n]
    PROVE  /\ x \in Row(Keys, Values) /\ x.revision = n
           /\ x.key = r.key /\ x.value = r.value /\ x.kind = r.kind
BY DEF Row

\* The operation a step leaves on each server.
LEMMA Started ==
    ASSUME op \in [Servers -> SUBSET Operation], NEW s \in Servers, NEW o, Start(s, o)
    PROVE  /\ op'[s] = {o} /\ op[s] = {}
           /\ \A t \in Servers \ {s} : op'[t] = op[t]
BY DEF Start, PgFree

LEMMA Finished ==
    ASSUME op \in [Servers -> SUBSET Operation], NEW s \in Servers, Finish(s)
    PROVE  op'[s] = {} /\ \A t \in Servers \ {s} : op'[t] = op[t]
BY DEF Finish

\* op keeps its type when each server keeps operations it had or starts one.
LEMMA OpTyped ==
    ASSUME PgTypeOK, op' = [t \in Servers |-> op'[t]],
           \A t \in Servers : \/ op'[t] \subseteq op[t]
                              \/ \E o \in Operation : op'[t] = {o}
    PROVE  /\ op' \in [Servers -> SUBSET Operation]
           /\ \A t \in Servers : \A o \in op'[t] : op'[t] = {o}
<1>1. \A t \in Servers : op[t] \in SUBSET Operation /\ \A o \in op[t] : op[t] = {o}
  BY DEF PgTypeOK
<1>2. \A t \in Servers : op'[t] \in SUBSET Operation
  BY <1>1
<1>3. \A t \in Servers : \A o \in op'[t] : op'[t] = {o}
  BY <1>1
<1> QED BY <1>2, <1>3

\* Each step preserves the type invariant (every action of PgNext).
LEMMA PgTypeStep == PgTypeOK /\ [PgNext]_pgVars => PgTypeOK'
<1> SUFFICES ASSUME PgTypeOK, [PgNext]_pgVars PROVE PgTypeOK'
  OBVIOUS
<1> USE DEF dbVars, streamVars, watchVars
<1>1. StoreTypeOK
  BY DEF PgTypeOK
<1>2. op \in [Servers -> SUBSET Operation] /\ target \in [Servers -> SUBSET Nat]
  BY DEF PgTypeOK
<1>3. on \in [Watchers -> Servers] /\ anchor \in [Watchers -> Nat] /\ snapshotAt \in [Watchers -> Nat]
  BY DEF PgTypeOK
<1> DEFINE OpOK == /\ op' \in [Servers -> SUBSET Operation]
                   /\ \A t \in Servers : \A o \in op'[t] : op'[t] = {o}
           TargetOK == target' \in [Servers -> SUBSET Nat]
           StreamOK == /\ on' \in [Watchers -> Servers] /\ anchor' \in [Watchers -> Nat]
                       /\ snapshotAt' \in [Watchers -> Nat]
<1>4. ASSUME StoreTypeOK', OpOK, TargetOK, StreamOK PROVE PgTypeOK'
  BY <1>4 DEF PgTypeOK
<1>5. UNCHANGED op => OpOK
  BY DEF PgTypeOK
<1>6. UNCHANGED target => TargetOK
  BY <1>2
<1>7. UNCHANGED <<on, anchor, snapshotAt>> => StreamOK
  BY <1>3
<1>8. UNCHANGED <<dbVars, held, watchVars>> => StoreTypeOK'
  BY <1>1 DEF StoreTypeOK
<1>9. ASSUME NEW s \in Servers, NEW o \in Operation, Start(s, o) PROVE OpOK
  <2>1. op' = [t \in Servers |-> op'[t]]
    BY <1>2, <1>9 DEF Start
  <2>2. \A t \in Servers : op'[t] \subseteq op[t] \/ \E p \in Operation : op'[t] = {p}
    BY <1>2, <1>9, Started
  <2> QED BY <2>1, <2>2, OpTyped
<1>10. ASSUME NEW s \in Servers, Finish(s) PROVE OpOK
  <2>1. op' = [t \in Servers |-> op'[t]]
    BY <1>2, <1>10 DEF Finish
  <2>2. \A t \in Servers : op'[t] \subseteq op[t]
    BY <1>2, <1>10, Finished
  <2> QED BY <2>1, <2>2, OpTyped
<1> HIDE DEF OpOK, TargetOK, StreamOK
<1>11. ASSUME NEW cl \in Clients, NEW s \in Servers, NEW k \in Keys, PgGet(cl, s, k)
       PROVE  PgTypeOK'
  <2>1. { ObjectOf(x) : x \in get_current(rows, k) } \subseteq StoredObject(Keys, Values)
    BY <1>1 DEF StoreTypeOK, get_current, ObjectOf, StoredObject, Row
  <2>2. StoreTypeOK'
    BY <1>1, <1>11, <2>1 DEF PgGet, StoreTypeOK
  <2> QED BY <1>4, <1>5, <1>6, <1>7, <1>11, <2>2 DEF PgGet
<1>12. ASSUME NEW cl \in Clients, NEW s \in Servers, NEW k \in Keys, NEW v \in Values,
              NEW e, NEW d \in BOOLEAN, mutate_compare(cl, s, k, v, e, d)
       PROVE  PgTypeOK'
  <2> DEFINE r == [key |-> k, revision |-> 1, value |-> v,
                   kind |-> IF d THEN "Deleted" ELSE IF e # 0 THEN "Modified" ELSE "Added"]
  <2>1. r \in Row(Keys, Values)
    BY DEF Row, EventKind
  <2>2. [kind |-> "mutate", client |-> cl, row |-> r] \in Operation
    BY <2>1 DEF Operation
  <2>3. OpOK
    BY <1>9, <1>12, <2>2 DEF mutate_compare
  <2> QED BY <1>4, <1>6, <1>7, <1>8, <1>12, <2>3 DEF mutate_compare
<1>13. ASSUME NEW cl \in Clients, NEW s \in Servers, PgRefused(cl, s) PROVE PgTypeOK'
  <2>1. StoreTypeOK'
    BY <1>1, <1>13 DEF PgRefused, StoreTypeOK
  <2> QED BY <1>4, <1>5, <1>6, <1>7, <1>13, <2>1 DEF PgRefused
<1>14. ASSUME NEW cl \in Clients, NEW s \in Servers, PgClientNext(cl, s) PROVE PgTypeOK'
  <2>1. \A o \in held[cl] : o.key \in Keys
    BY <1>1 DEF StoreTypeOK, StoredObject
  <2>2. \A x \in rows : x.value \in Values
    BY <1>1 DEF StoreTypeOK, Row
  <2>3. ASSUME NEW k \in Keys, NEW v \in Values, PgCreate(cl, s, k, v) PROVE PgTypeOK'
    BY <2>3, <1>12 DEF PgCreate
  <2>4. ASSUME NEW v \in Values, PgUpdate(cl, s, v) PROVE PgTypeOK'
    BY <2>4, <2>1, <1>12 DEF PgUpdate
  <2>5. ASSUME PgDelete(cl, s) PROVE PgTypeOK'
    BY <2>5, <2>1, <2>2, <1>12 DEF PgDelete, get_current
  <2> QED BY <1>11, <1>13, <1>14, <2>3, <2>4, <2>5 DEF PgClientNext
<1>15. ASSUME NEW s \in Servers, mutate_set(s) PROVE PgTypeOK'
  <2>1. PICK o \in op[s] : /\ o.kind = "mutate"
                           /\ insert([o.row EXCEPT !.revision = revision + 1])
                           /\ held' = [held EXCEPT ![o.client] =
                                IF [o.row EXCEPT !.revision = revision + 1].kind = "Deleted" THEN {}
                                ELSE {ObjectOf([o.row EXCEPT !.revision = revision + 1])}]
    BY <1>15 DEF mutate_set
  <2>2. PICK x : x = [o.row EXCEPT !.revision = revision + 1]
    OBVIOUS
  <2>3. o.row \in Row(Keys, Values) /\ o.client \in Clients
    BY <1>2, <2>1, OperationFields
  <2>4. x \in Row(Keys, Values) /\ revision' \in Nat
    BY <1>1, <2>1, <2>2, <2>3, RowAtRevision DEF StoreTypeOK, insert
  <2>5. ObjectOf(x) \in StoredObject(Keys, Values)
    BY <2>4 DEF ObjectOf, StoredObject, Row
  <2>6. held' \in [Clients -> SUBSET StoredObject(Keys, Values)]
    BY <1>1, <2>1, <2>2, <2>3, <2>5 DEF StoreTypeOK
  <2>7. rows' \in SUBSET Row(Keys, Values) /\ hist' \in SUBSET Row(Keys, Values)
    BY <1>1, <2>1, <2>2, <2>4 DEF StoreTypeOK, insert
  <2>8. StoreTypeOK'
    BY <1>1, <1>15, <2>4, <2>6, <2>7 DEF mutate_set, StoreTypeOK
  <2> QED BY <1>4, <1>6, <1>7, <1>10, <1>15, <2>8 DEF mutate_set
<1>16. ASSUME NEW s \in Servers, PgMaintainHead(s) PROVE PgTypeOK'
  <2>1. maintenance_revision(revision, floor, Window) \in SUBSET Nat
    BY <1>1, WindowAssumption DEF maintenance_revision, StoreTypeOK
  <2>2. TargetOK
    BY <1>2, <1>16, <2>1 DEF PgMaintainHead, TargetOK
  <2> QED BY <1>4, <1>5, <1>7, <1>8, <1>16, <2>2 DEF PgMaintainHead
<1>17. ASSUME NEW s \in Servers, compact_check(s) PROVE PgTypeOK'
  <2>1. TargetOK
    BY <1>2, <1>17 DEF compact_check, TargetOK
  <2>2. OpOK
    <3>1. PICK rev \in target[s] : Start(s, [kind |-> "compact", rev |-> rev]) \/ UNCHANGED op
      BY <1>17 DEF compact_check
    <3>2. [kind |-> "compact", rev |-> rev] \in Operation
      BY <1>2 DEF Operation
    <3> QED BY <1>5, <1>9, <3>1, <3>2
  <2> QED BY <1>4, <1>7, <1>8, <1>17, <2>1, <2>2 DEF compact_check
<1>18. ASSUME NEW s \in Servers, compact_apply(s) PROVE PgTypeOK'
  <2>1. PICK o \in op[s] : o.kind = "compact" /\ discard(o.rev)
    BY <1>18 DEF compact_apply
  <2>2. o.rev \in Nat
    BY <1>2, <2>1, OperationFields
  <2>3. retained(rows, o.rev) \in SUBSET Row(Keys, Values)
    BY <1>1, QueriesSelectRows DEF StoreTypeOK
  <2>4. StoreTypeOK'
    BY <1>1, <1>18, <2>1, <2>2, <2>3 DEF compact_apply, discard, StoreTypeOK
  <2> QED BY <1>4, <1>6, <1>7, <1>10, <1>18, <2>4 DEF compact_apply
<1>19. ASSUME NEW w \in Watchers, PgFail(w) PROVE PgTypeOK'
  <2>1. StoreTypeOK'
    BY <1>1, <1>19 DEF PgFail, StoreTypeOK, Phases
  <2> QED BY <1>4, <1>5, <1>6, <1>7, <1>19, <2>1 DEF PgFail
<1>20. ASSUME NEW w \in Watchers, NEW s \in Servers, NEW P \in Prefixes, PgWatchStart(w, s, P)
       PROVE  PgTypeOK'
  <2>1. P \in SUBSET Keys /\ revision \in Nat
    BY <1>1, PrefixesAssumption DEF StoreTypeOK
  <2>2. StoreTypeOK'
    BY <1>1, <1>20, <2>1 DEF PgWatchStart, StoreTypeOK, Phases
  <2>3. StreamOK
    BY <1>3, <1>20, <2>1 DEF PgWatchStart, StreamOK
  <2> QED BY <1>4, <1>5, <1>6, <1>20, <2>2, <2>3 DEF PgWatchStart
<1>21. ASSUME NEW w \in Watchers, NEW s \in Servers, PgWatchResume(w, s) PROVE PgTypeOK'
  <2>1. CASE PgFail(w)
    BY <1>19, <2>1
  <2>2. CASE ~PgFail(w)
    <3>1. StoreTypeOK'
      BY <1>1, <1>21, <2>2 DEF PgWatchResume, StoreTypeOK, Phases
    <3>2. StreamOK
      BY <1>3, <1>21, <2>2 DEF PgWatchResume, StreamOK
    <3> QED BY <1>4, <1>5, <1>6, <1>21, <2>2, <3>1, <3>2 DEF PgWatchResume
  <2> QED BY <2>1, <2>2
<1>22. ASSUME NEW w \in Watchers, list_head(w) PROVE PgTypeOK'
  <2>1. CASE PgFail(w)
    BY <1>19, <2>1
  <2>2. CASE ~PgFail(w)
    <3>1. PICK rev \in Nat : Start(on[w], [kind |-> "list", watcher |-> w, rev |-> rev])
      BY <1>1, <1>3, <1>22, <2>2 DEF list_head, StoreTypeOK
    <3>2. [kind |-> "list", watcher |-> w, rev |-> rev] \in Operation /\ on[w] \in Servers
      BY <1>3 DEF Operation
    <3>3. OpOK
      BY <1>9, <3>1, <3>2
    <3> QED BY <1>4, <1>6, <1>7, <1>8, <1>22, <2>2, <3>3 DEF list_head
  <2> QED BY <2>1, <2>2
<1>23. ASSUME NEW w \in Watchers, changes_head(w) PROVE PgTypeOK'
  <2>1. CASE PgFail(w)
    BY <1>19, <2>1
  <2>2. CASE ~PgFail(w)
    <3>1. Start(on[w], [kind |-> "changes", watcher |-> w, current |-> revision])
      BY <1>23, <2>2 DEF changes_head
    <3>2. [kind |-> "changes", watcher |-> w, current |-> revision] \in Operation /\ on[w] \in Servers
      BY <1>1, <1>3 DEF Operation, StoreTypeOK
    <3>3. OpOK
      BY <1>9, <3>1, <3>2
    <3> QED BY <1>4, <1>6, <1>7, <1>8, <1>23, <2>2, <3>3 DEF changes_head
  <2> QED BY <2>1, <2>2
<1>24. ASSUME NEW s \in Servers, list_rows(s) PROVE PgTypeOK'
  <2>1. PICK o \in op[s] :
          /\ o.kind = "list" /\ replay_page(o.watcher, o.rev)
          /\ snapshotAt' = [snapshotAt EXCEPT ![o.watcher] = IF @ = 0 THEN o.rev ELSE @]
          /\ UNCHANGED <<dbVars, held, target, on, prefix, anchor, cursor, view, seen>>
    BY <1>24 DEF list_rows
  <2>2. PICK w \in Watchers, rev \in Nat : w = o.watcher /\ rev = o.rev
    BY <1>2, <2>1, OperationFields
  <2>3. PICK page : page = PageOf(list_at(rows, prefix[w], rev), pageAfter[w], Page)
    OBVIOUS
  <2>4. page \in SUBSET Row(Keys, Values)
    BY <1>1, <2>3, QueriesSelectRows DEF StoreTypeOK
  <2>5. { [row |-> x, previous |-> {}] : x \in page } \in SUBSET Event
    BY <2>4 DEF Event
  <2>6. \A x \in page : x.key \in Nat
    BY <2>4, KeysAssumption DEF Row
  <2>7. pending' \in [Watchers -> SUBSET Event]
    BY <1>1, <2>1, <2>2, <2>3, <2>5 DEF replay_page, StoreTypeOK
  <2>8. pageAfter' \in [Watchers -> Nat] /\ phase' \in [Watchers -> Phases]
    BY <1>1, <2>1, <2>2, <2>3, <2>6 DEF replay_page, StoreTypeOK, Phases
  <2>9. StoreTypeOK'
    BY <1>1, <2>1, <2>7, <2>8 DEF StoreTypeOK
  <2>10. StreamOK
    BY <1>3, <2>1, <2>2 DEF StreamOK
  <2> QED BY <1>4, <1>6, <1>10, <1>24, <2>1, <2>9, <2>10 DEF list_rows
<1>25. ASSUME NEW s \in Servers, changes_rows(s) PROVE PgTypeOK'
  <2>1. PICK o \in op[s] :
          /\ o.kind = "changes" /\ next_batch(o.watcher, o.current)
          /\ phase' = [phase EXCEPT ![o.watcher] = "live"]
          /\ UNCHANGED <<dbVars, held, target, on, prefix, anchor, snapshotAt, pageAfter, view, seen>>
    BY <1>25 DEF changes_rows
  <2>2. PICK w \in Watchers, current \in Nat : w = o.watcher /\ current = o.current
    BY <1>2, <2>1, OperationFields
  <2>3. PICK C : C = changed_rows(rows, prefix[w], cursor[w])
    OBVIOUS
  <2>4. PICK batch : batch = FirstByRevision(C, Batch)
    OBVIOUS
  <2>5. batch \in SUBSET Row(Keys, Values)
    BY <1>1, <2>3, <2>4, QueriesSelectRows DEF StoreTypeOK
  <2>6. { EventOf(rows, x) : x \in batch } \in SUBSET Event
    BY <1>1, <2>5 DEF EventOf, previous, Event, StoreTypeOK
  <2>7. pending' \in [Watchers -> SUBSET Event]
    BY <1>1, <2>1, <2>2, <2>3, <2>4, <2>6 DEF next_batch, StoreTypeOK
  <2>8. cursor' \in [Watchers -> Nat]
    BY <1>1, <2>1, <2>2, <2>3, <2>4, <2>5 DEF next_batch, next_cursor, StoreTypeOK, Row
  <2>9. phase' \in [Watchers -> Phases]
    BY <1>1, <2>1, <2>2 DEF StoreTypeOK, Phases
  <2>10. StoreTypeOK'
    BY <1>1, <2>1, <2>7, <2>8, <2>9 DEF StoreTypeOK
  <2> QED BY <1>4, <1>6, <1>7, <1>10, <1>25, <2>1, <2>10 DEF changes_rows
<1>26. ASSUME NEW w \in Watchers, PgYieldReplay(w) PROVE PgTypeOK'
  <2>1. StoreTypeOK'
    BY <1>1, <1>26 DEF PgYieldReplay, deliver_object, StoreTypeOK, Event
  <2> QED BY <1>4, <1>5, <1>6, <1>7, <1>26, <2>1 DEF PgYieldReplay
<1>27. ASSUME NEW w \in Watchers, PgYieldAnchor(w) PROVE PgTypeOK'
  <2>1. StoreTypeOK'
    BY <1>1, <1>3, <1>27 DEF PgYieldAnchor, StoreTypeOK, Phases
  <2> QED BY <1>4, <1>5, <1>6, <1>7, <1>27, <2>1 DEF PgYieldAnchor
<1>28. ASSUME NEW w \in Watchers, PgYieldEvent(w) PROVE PgTypeOK'
  <2>1. PICK e \in pending[w] :
          /\ pending' = [pending EXCEPT ![w] = @ \ {e}]
          /\ view' = [view EXCEPT ![w] =
                       { x \in @ : x.key # e.row.key }
                         \cup (IF e.row.kind = "Deleted" THEN {} ELSE {e.row})]
          /\ seen' = [seen EXCEPT ![w] = e.row.revision]
    BY <1>28 DEF PgYieldEvent, deliver_change
  <2>2. e.row \in Row(Keys, Values) /\ e.row.revision \in Nat
    BY <1>1 DEF StoreTypeOK, Event, Row
  <2>3. StoreTypeOK'
    BY <1>1, <1>28, <2>1, <2>2 DEF PgYieldEvent, StoreTypeOK
  <2> QED BY <1>4, <1>5, <1>6, <1>7, <1>28, <2>3 DEF PgYieldEvent
<1>29. ASSUME NEW w \in Watchers, PgYieldBookmark(w) PROVE PgTypeOK'
  <2>1. StoreTypeOK'
    BY <1>1, <1>29 DEF PgYieldBookmark, StoreTypeOK
  <2> QED BY <1>4, <1>5, <1>6, <1>7, <1>29, <2>1 DEF PgYieldBookmark
<1>30. ASSUME NEW w \in Watchers, PgDisconnect(w) PROVE PgTypeOK'
  <2>1. StoreTypeOK'
    BY <1>1, <1>30 DEF PgDisconnect, StoreTypeOK, Phases
  <2>2. op' = [t \in Servers |-> op'[t]] /\ \A t \in Servers : op'[t] \subseteq op[t]
    BY <1>30 DEF PgDisconnect
  <2>3. OpOK
    BY <2>2, OpTyped DEF OpOK
  <2> QED BY <1>4, <1>6, <1>7, <1>30, <2>1, <2>3 DEF PgDisconnect
<1>31. ASSUME NEW s \in Servers, ServerCrash(s) PROVE PgTypeOK'
  <2>1. StoreTypeOK'
    BY <1>1, <1>31 DEF ServerCrash, StoreTypeOK, Phases
  <2>2. OpOK
    BY <1>10, <1>31 DEF ServerCrash, Finish
  <2>3. TargetOK
    BY <1>2, <1>31 DEF ServerCrash, TargetOK
  <2> QED BY <1>4, <1>7, <1>31, <2>1, <2>2, <2>3 DEF ServerCrash
<1>32. CASE UNCHANGED pgVars
  BY <1>4, <1>5, <1>6, <1>7, <1>8, <1>32 DEF pgVars
<1> QED
  BY <1>14, <1>15, <1>16, <1>17, <1>18, <1>20, <1>21, <1>22, <1>23, <1>24, <1>25, <1>26,
     <1>27, <1>28, <1>29, <1>30, <1>31, <1>32
     DEF PgNext, ServerNext, WatchNext

\* Every reachable state is well typed, for any number of servers.
THEOREM PgTypeCorrect == PgSpec => []PgTypeOK
<1>1. PgInit => PgTypeOK
  BY DEF PgInit, StoreInit, PgTypeOK, StoreTypeOK, Phases
<1> QED BY <1>1, PgTypeStep, PTL DEF PgSpec

\* Two servers on one registry share the revision sequence: no revision is
\* given to two rows, and the table holds nothing that was not committed.
RevisionsAreShared ==
    /\ rows \subseteq hist
    /\ \A x \in hist : x.revision <= revision
    /\ \A x, y \in hist : x.revision = y.revision => x = y

\* For any number of servers: this half of what postgres.rs says of two servers
\* holds, since a mutation takes its revision under the lock of the meta row.
THEOREM RevisionsAreSharedCorrect == PgSpec => []RevisionsAreShared
<1>1. PgInit => RevisionsAreShared
  BY DEF PgInit, StoreInit, RevisionsAreShared
<1>2. PgTypeOK /\ RevisionsAreShared /\ [PgNext]_pgVars => RevisionsAreShared'
  <2> SUFFICES ASSUME PgTypeOK, RevisionsAreShared, [PgNext]_pgVars PROVE RevisionsAreShared'
    OBVIOUS
  <2> USE DEF dbVars
  <2>1. ASSUME UNCHANGED dbVars PROVE RevisionsAreShared'
    BY <2>1 DEF RevisionsAreShared
  <2>2. ASSUME NEW s \in Servers, mutate_set(s) PROVE RevisionsAreShared'
    <3>1. PICK o \in op[s] : o.kind = "mutate" /\ insert([o.row EXCEPT !.revision = revision + 1])
      BY <2>2 DEF mutate_set
    <3>2. PICK x : x = [o.row EXCEPT !.revision = revision + 1]
      OBVIOUS
    <3>3. o.row \in Row(Keys, Values) /\ revision + 1 \in Nat \ {0} /\ revision \in Nat
      BY <3>1, OperationFields DEF PgTypeOK, StoreTypeOK
    <3>4. x.revision = revision + 1
      BY <3>2, <3>3, RowAtRevision
    <3>5. insert(x)
      BY <3>1, <3>2
    <3>6. \A y \in hist : y.revision \in Nat
      BY DEF PgTypeOK, StoreTypeOK, Row
    <3> QED BY <3>3, <3>4, <3>5, <3>6 DEF insert, RevisionsAreShared
  <2>3. ASSUME NEW s \in Servers, compact_apply(s) PROVE RevisionsAreShared'
    <3>1. UNCHANGED <<revision, hist>> /\ \E rev : rows' = retained(rows, rev)
      BY <2>3 DEF compact_apply, discard
    <3>2. rows' \subseteq rows
      BY <3>1 DEF retained
    <3> QED BY <3>1, <3>2 DEF RevisionsAreShared
  <2>4. ASSUME NEW cl \in Clients, NEW s \in Servers, PgClientNext(cl, s) PROVE UNCHANGED dbVars
    BY <2>4 DEF PgClientNext, PgGet, PgCreate, PgUpdate, PgDelete, PgRefused, mutate_compare
  <2>5. ASSUME NEW s \in Servers,
               \/ PgMaintainHead(s) \/ compact_check(s)
               \/ list_rows(s) \/ changes_rows(s) \/ ServerCrash(s)
        PROVE  UNCHANGED dbVars
    BY <2>5 DEF PgMaintainHead, compact_check, list_rows, changes_rows, ServerCrash
  <2>6. ASSUME NEW w \in Watchers, WatchNext(w) PROVE UNCHANGED dbVars
    BY <2>6 DEF WatchNext, PgWatchStart, PgWatchResume, PgFail, list_head, changes_head,
                PgYieldReplay, PgYieldAnchor, PgYieldEvent, PgYieldBookmark, PgDisconnect
  <2>7. UNCHANGED pgVars => UNCHANGED dbVars
    BY DEF pgVars
  <2> QED BY <2>1, <2>2, <2>3, <2>4, <2>5, <2>6, <2>7 DEF PgNext, ServerNext
<1> QED BY <1>1, <1>2, PgTypeCorrect, PTL DEF PgSpec

\* What an operation's first statements found still holds: nobody else writes
\* or compacts while a single server runs it.
CheckHolds(o) ==
    /\ o.kind = "mutate" =>
         /\ { ObjectOf(y) : y \in get_current(rows, o.row.key) } \subseteq held[o.client]
         /\ o.row.kind = "Deleted" => get_current(rows, o.row.key) # {}
    /\ o.kind = "compact" => floor < o.rev /\ o.rev <= revision /\ o.rev <= revision - Window

\* The inductive invariant of the database behind one server.
PgRowsInv ==
    /\ RowsInv
    /\ HeldIsCommitted
    /\ floor = 0 \/ revision - floor >= Window
    /\ \A s \in Servers : \A t \in target[s] : t <= revision - Window
    /\ \A s \in Servers : \A o \in op[s] : CheckHolds(o)

\* Each step of the only server keeps the invariant.
LEMMA PgRowsStep ==
    ASSUME \A s, t \in Servers : s = t, PgTypeOK, PgRowsInv, [PgNext]_pgVars
    PROVE  PgRowsInv'
<1> USE DEF dbVars
<1>1. StoreTypeOK /\ op \in [Servers -> SUBSET Operation] /\ target \in [Servers -> SUBSET Nat]
  BY DEF PgTypeOK
<1>2. revision \in Nat /\ floor \in Nat /\ Window \in Nat
  BY <1>1, WindowAssumption DEF StoreTypeOK
<1>3. ASSUME UNCHANGED <<dbVars, held>>,
             \A s \in Servers : target'[s] \subseteq target[s],
             \A s \in Servers : \A o \in op'[s] : o \in op[s] \/ o.kind \in {"list", "changes"}
      PROVE  PgRowsInv'
  <2>1. RowsInv' /\ HeldIsCommitted'
    BY <1>3 DEF PgRowsInv, RowsInv, NewestExists, Retained, HeldIsCommitted
  <2>2. \A s \in Servers : \A o \in op'[s] : CheckHolds(o)'
    <3> SUFFICES ASSUME NEW s \in Servers, NEW o \in op'[s] PROVE CheckHolds(o)'
      OBVIOUS
    <3>1. CASE o \in op[s]
      BY <1>3, <3>1 DEF PgRowsInv, CheckHolds
    <3>2. CASE o.kind \in {"list", "changes"}
      BY <3>2 DEF CheckHolds
    <3> QED BY <1>3, <3>1, <3>2
  <2> QED BY <1>3, <2>1, <2>2 DEF PgRowsInv
<1>4. ASSUME NEW s \in Servers, op'[s] = {} PROVE \A t \in Servers : op'[t] = {}
  BY <1>4
<1>5. ASSUME NEW cl \in Clients, NEW s \in Servers, NEW k \in Keys, PgGet(cl, s, k)
      PROVE  PgRowsInv'
  <2>1. \A t \in Servers : op'[t] = {}
    BY <1>5 DEF PgGet, PgFree
  <2>2. \A x \in get_current(rows, k) : x \in hist /\ x.kind # "Deleted"
    BY DEF get_current, PgRowsInv, RowsInv
  <2>3. HeldIsCommitted'
    BY <1>1, <1>5, <2>2 DEF PgGet, PgRowsInv, HeldIsCommitted, StoreTypeOK
  <2>4. RowsInv'
    BY <1>5 DEF PgGet, PgRowsInv, RowsInv, NewestExists, Retained
  <2> QED BY <1>5, <2>1, <2>3, <2>4 DEF PgGet, PgRowsInv
<1>6. ASSUME NEW cl \in Clients, NEW s \in Servers, NEW k, NEW v, NEW e, NEW d,
             mutate_compare(cl, s, k, v, e, d),
             \A x \in get_current(rows, k) : ObjectOf(x) \in held[cl],
             d = TRUE => get_current(rows, k) # {}
      PROVE  PgRowsInv'
  <2> DEFINE r == [key |-> k, revision |-> 1, value |-> v,
                   kind |-> IF d THEN "Deleted" ELSE IF e # 0 THEN "Modified" ELSE "Added"]
             o == [kind |-> "mutate", client |-> cl, row |-> r]
  <2>1. Start(s, o) /\ UNCHANGED <<rows, revision, floor, hist, held, target>>
    BY <1>6 DEF mutate_compare
  <2>2. op'[s] = {o}
    BY <1>1, <2>1, Started
  <2>3. \A t \in Servers : op'[t] = {o}
    BY <2>2
  <2>4. CheckHolds(o)
    BY <1>6 DEF CheckHolds
  <2> HIDE DEF o
  <2>5. CheckHolds(o)'
    BY <2>1, <2>4 DEF CheckHolds
  <2>6. RowsInv' /\ HeldIsCommitted'
    BY <2>1 DEF PgRowsInv, RowsInv, NewestExists, Retained, HeldIsCommitted
  <2> QED BY <2>1, <2>3, <2>5, <2>6 DEF PgRowsInv
<1>7. ASSUME NEW cl \in Clients, NEW s \in Servers, PgClientNext(cl, s) PROVE PgRowsInv'
  <2>1. ASSUME NEW k \in Keys, NEW v \in Values, PgCreate(cl, s, k, v) PROVE PgRowsInv'
    <3>1. mutate_compare(cl, s, k, v, 0, FALSE)
      BY <2>1 DEF PgCreate
    <3>2. get_current(rows, k) = {}
      BY <3>1 DEF mutate_compare, cas_holds
    <3> QED BY <1>6, <3>1, <3>2
  <2>2. ASSUME NEW v \in Values, PgUpdate(cl, s, v) PROVE PgRowsInv'
    <3>1. PICK o \in held[cl] : mutate_compare(cl, s, o.key, v, o.revision, FALSE)
      BY <2>2 DEF PgUpdate
    <3>2. cas_holds(o.key, o.revision)
      BY <3>1 DEF mutate_compare
    <3>3. \A x \in get_current(rows, o.key) : ObjectOf(x) \in held[cl]
      BY <1>1, <3>2, CasFindsHeld DEF PgRowsInv
    <3> QED BY <1>6, <3>1, <3>3
  <2>3. ASSUME PgDelete(cl, s) PROVE PgRowsInv'
    <3>1. PICK o \in held[cl] : \E old \in get_current(rows, o.key) :
            mutate_compare(cl, s, o.key, old.value, o.revision, TRUE)
      BY <2>3 DEF PgDelete
    <3>0. PICK old \in get_current(rows, o.key) :
            mutate_compare(cl, s, o.key, old.value, o.revision, TRUE)
      BY <3>1
    <3>2. cas_holds(o.key, o.revision)
      BY <3>0 DEF mutate_compare
    <3>3. \A x \in get_current(rows, o.key) : ObjectOf(x) \in held[cl]
      BY <1>1, <3>2, CasFindsHeld DEF PgRowsInv
    <3> QED BY <1>6, <3>0, <3>3
  <2>4. ASSUME PgRefused(cl, s) PROVE PgRowsInv'
    <3>1. \A t \in Servers : op'[t] = {}
      BY <2>4 DEF PgRefused, PgFree
    <3>2. HeldIsCommitted'
      BY <1>1, <2>4 DEF PgRefused, PgRowsInv, HeldIsCommitted, StoreTypeOK
    <3>3. RowsInv'
      BY <2>4 DEF PgRefused, PgRowsInv, RowsInv, NewestExists, Retained
    <3> QED BY <2>4, <3>1, <3>2, <3>3 DEF PgRefused, PgRowsInv
  <2> QED BY <1>5, <1>7, <2>1, <2>2, <2>3, <2>4 DEF PgClientNext
<1>8. ASSUME NEW s \in Servers, mutate_set(s) PROVE PgRowsInv'
  <2>1. PICK o \in op[s] : /\ o.kind = "mutate"
                           /\ insert([o.row EXCEPT !.revision = revision + 1])
                           /\ held' = [held EXCEPT ![o.client] =
                                IF [o.row EXCEPT !.revision = revision + 1].kind = "Deleted" THEN {}
                                ELSE {ObjectOf([o.row EXCEPT !.revision = revision + 1])}]
    BY <1>8 DEF mutate_set
  <2>2. PICK x : x = [o.row EXCEPT !.revision = revision + 1]
    OBVIOUS
  <2>3. o.row \in Row(Keys, Values) /\ o.client \in Clients
    BY <1>1, <2>1, OperationFields
  <2>4. x \in Row(Keys, Values) /\ x.revision = revision + 1
    BY <1>2, <2>2, <2>3, RowAtRevision
  <2>5. insert(x) /\ held' = [held EXCEPT ![o.client] =
                                IF x.kind = "Deleted" THEN {} ELSE {ObjectOf(x)}]
    BY <2>1, <2>2
  <2>6. /\ floor' = floor /\ target' = target /\ revision' = revision + 1
        /\ hist' = hist \cup {x} /\ Finish(s)
    BY <1>8, <2>5 DEF mutate_set, insert
  <2>7. RowsInv'
    BY <1>1, <2>4, <2>5, <2>6, RowsMutate DEF PgRowsInv
  <2>8. \A t \in Servers : op'[t] = {}
    BY <1>1, <2>6, Finished
  <2>9. HeldIsCommitted'
    BY <1>1, <2>3, <2>5, <2>6 DEF PgRowsInv, HeldIsCommitted, StoreTypeOK
  <2>10. floor' = 0 \/ revision' - floor' >= Window
    BY <1>2, <2>6 DEF PgRowsInv
  <2>11. \A t \in Servers : \A n \in target'[t] : n <= revision' - Window
    <3> SUFFICES ASSUME NEW t \in Servers, NEW n \in target'[t] PROVE n <= revision' - Window
      OBVIOUS
    <3>1. target[t] = target'[t] /\ revision' = revision + 1
      BY <2>6
    <3>2. n \in target[t]
      BY <3>1
    <3>3. n <= revision - Window /\ n \in Nat
      BY <1>1, <3>2 DEF PgRowsInv
    <3> QED BY <1>2, <3>1, <3>3
  <2> QED BY <2>7, <2>8, <2>9, <2>10, <2>11 DEF PgRowsInv
<1>9. ASSUME NEW s \in Servers, PgMaintainHead(s) PROVE PgRowsInv'
  <2>1. \A t \in Servers : op'[t] = {}
    BY <1>9 DEF PgMaintainHead, PgFree
  <2>2. RowsInv' /\ HeldIsCommitted'
    BY <1>9 DEF PgMaintainHead, PgRowsInv, RowsInv, NewestExists, Retained, HeldIsCommitted
  <2>3. target'[s] = maintenance_revision(revision, floor, Window)
    BY <1>1, <1>9 DEF PgMaintainHead
  <2>4. \A t \in Servers : \A n \in target'[t] : n <= revision - Window
    BY <1>2, <2>3 DEF maintenance_revision
  <2> QED BY <1>9, <2>1, <2>2, <2>4 DEF PgMaintainHead, PgRowsInv
<1>10. ASSUME NEW s \in Servers, compact_check(s) PROVE PgRowsInv'
  <2>1. PICK rev \in target[s] :
          IF rev <= revision /\ rev > floor
          THEN Start(s, [kind |-> "compact", rev |-> rev])
          ELSE PgFree(s) /\ UNCHANGED op
    BY <1>10 DEF compact_check
  <2>2. PICK o : o = [kind |-> "compact", rev |-> rev]
    OBVIOUS
  <2>3. UNCHANGED <<rows, revision, floor, hist, held>> /\ target'[s] = {}
    BY <1>1, <1>10 DEF compact_check
  <2>4. \A t \in Servers : target'[t] = {}
    BY <2>3
  <2>5. RowsInv' /\ HeldIsCommitted'
    BY <2>3 DEF PgRowsInv, RowsInv, NewestExists, Retained, HeldIsCommitted
  <2>6. CASE rev <= revision /\ rev > floor
    <3>1. op'[s] = {o}
      BY <1>1, <2>1, <2>2, <2>6, Started
    <3>2. CheckHolds(o)
      BY <1>1, <2>2, <2>6 DEF CheckHolds, PgRowsInv
    <3>3. CheckHolds(o)'
      BY <2>3, <3>2 DEF CheckHolds
    <3>4. \A t \in Servers : op'[t] = {o}
      BY <3>1
    <3> QED BY <2>3, <2>4, <2>5, <3>3, <3>4 DEF PgRowsInv
  <2>7. CASE ~(rev <= revision /\ rev > floor)
    <3>1. \A t \in Servers : op'[t] = {}
      BY <2>1, <2>7 DEF PgFree
    <3> QED BY <2>3, <2>4, <2>5, <3>1 DEF PgRowsInv
  <2> QED BY <2>6, <2>7
<1>11. ASSUME NEW s \in Servers, compact_apply(s) PROVE PgRowsInv'
  <2>1. PICK o \in op[s] : o.kind = "compact" /\ discard(o.rev)
    BY <1>11 DEF compact_apply
  <2>2. PICK rev \in Nat : rev = o.rev
    BY <1>1, <2>1, OperationFields
  <2>3. floor < rev /\ rev <= revision /\ rev <= revision - Window
    BY <2>1, <2>2 DEF PgRowsInv, CheckHolds
  <2>4. UNCHANGED <<revision, hist, held, target>> /\ discard(rev) /\ Finish(s)
    BY <1>11, <2>1, <2>2 DEF compact_apply
  <2>5. RowsInv'
    BY <1>1, <1>2, <2>3, <2>4, RowsCompact DEF PgRowsInv
  <2>6. \A t \in Servers : op'[t] = {}
    BY <1>1, <2>4, Finished
  <2>7. revision' - floor' >= Window
    BY <1>2, <2>3, <2>4 DEF discard
  <2>8. HeldIsCommitted'
    BY <2>4 DEF PgRowsInv, HeldIsCommitted
  <2> QED BY <2>4, <2>5, <2>6, <2>7, <2>8 DEF PgRowsInv
<1>12. ASSUME NEW s \in Servers, list_rows(s) \/ changes_rows(s) PROVE PgRowsInv'
  <2>1. UNCHANGED <<dbVars, held, target>> /\ Finish(s)
    BY <1>12 DEF list_rows, changes_rows
  <2>2. \A t \in Servers : op'[t] = {}
    BY <1>1, <2>1, Finished
  <2> QED BY <1>3, <2>1, <2>2
<1>13. ASSUME NEW s \in Servers, ServerCrash(s) PROVE PgRowsInv'
  <2>1. UNCHANGED <<dbVars, held>> /\ target'[s] = {} /\ op'[s] = {}
    BY <1>1, <1>13 DEF ServerCrash
  <2>2. \A t \in Servers : target'[t] = {} /\ op'[t] = {}
    BY <2>1
  <2> QED BY <1>3, <2>1, <2>2
<1>14. ASSUME NEW w \in Watchers, PgDisconnect(w) PROVE PgRowsInv'
  <2>1. UNCHANGED <<dbVars, held, target>> /\ \A t \in Servers : op'[t] \subseteq op[t]
    BY <1>14 DEF PgDisconnect
  <2> QED BY <1>3, <2>1
<1>15. ASSUME NEW w \in Watchers, list_head(w) \/ changes_head(w) PROVE PgRowsInv'
  <2>1. CASE PgFail(w)
    BY <1>3, <2>1 DEF PgFail
  <2>2. CASE ~PgFail(w)
    <3>1. \E o : Start(on[w], o) /\ o.kind \in {"list", "changes"}
      <4>1. CASE list_head(w)
        <5>1. Start(on[w], [kind |-> "list", watcher |-> w,
                            rev |-> IF anchor[w] = 0 THEN revision ELSE anchor[w]])
          BY <2>2, <4>1 DEF list_head
        <5> QED BY <5>1
      <4>2. CASE changes_head(w)
        <5>1. Start(on[w], [kind |-> "changes", watcher |-> w, current |-> revision])
          BY <2>2, <4>2 DEF changes_head
        <5> QED BY <5>1
      <4> QED BY <1>15, <4>1, <4>2
    <3>0. PICK o : Start(on[w], o) /\ o.kind \in {"list", "changes"}
      BY <3>1
    <3>2. on[w] \in Servers
      BY DEF PgTypeOK
    <3>3. \A t \in Servers : op'[t] = {o}
      BY <1>1, <3>0, <3>2, Started
    <3>4. UNCHANGED <<dbVars, held, target>>
      BY <1>15, <2>2 DEF list_head, changes_head
    <3> QED BY <1>3, <3>0, <3>3, <3>4
  <2> QED BY <2>1, <2>2
<1>16. ASSUME UNCHANGED <<dbVars, held, op, target>> PROVE PgRowsInv'
  BY <1>3, <1>16
<1>17. ASSUME NEW w \in Watchers, NEW s \in Servers, NEW P,
              PgWatchStart(w, s, P) \/ PgWatchResume(w, s)
       PROVE  PgRowsInv'
  BY <1>16, <1>17 DEF PgWatchStart, PgWatchResume, PgFail
<1>18. ASSUME NEW w \in Watchers,
              \/ PgYieldReplay(w) \/ PgYieldAnchor(w) \/ PgYieldEvent(w) \/ PgYieldBookmark(w)
       PROVE  PgRowsInv'
  BY <1>16, <1>18 DEF PgYieldReplay, PgYieldAnchor, PgYieldEvent, PgYieldBookmark
<1>19. CASE UNCHANGED pgVars
  BY <1>16, <1>19 DEF pgVars
<1> QED
  BY <1>7, <1>8, <1>9, <1>10, <1>11, <1>12, <1>13, <1>14, <1>15, <1>17, <1>18, <1>19
     DEF PgNext, ServerNext, WatchNext

\* Reachable states satisfy the invariant.
THEOREM PgRowsCorrect ==
    ASSUME \A s, t \in Servers : s = t
    PROVE  PgSpec => [](PgTypeOK /\ PgRowsInv)
<1>1. PgInit => PgTypeOK /\ PgRowsInv
  <2>1. PgInit => PgTypeOK
    BY DEF PgInit, StoreInit, PgTypeOK, StoreTypeOK, Phases
  <2>2. PgInit => RowsInv
    BY DEF PgInit, StoreInit, RowsInv, NewestExists, Retained
  <2>3. PgInit => PgRowsInv
    BY <2>2 DEF PgInit, StoreInit, PgRowsInv, HeldIsCommitted
  <2> QED BY <2>1, <2>3
<1>2. PgTypeOK /\ PgRowsInv /\ [PgNext]_pgVars => (PgTypeOK /\ PgRowsInv)'
  BY PgTypeStep, PgRowsStep
<1> QED BY <1>1, <1>2, PTL DEF PgSpec

\* Behind one server, a reader sees the same whatever is compacted, and
\* maintenance leaves the newest Window revisions readable, although it reads
\* the head, checks and deletes in separate statements.
THEOREM HistoryIsKeptCorrect ==
    ASSUME \A s, t \in Servers : s = t
    PROVE  PgSpec => []HistoryIsKept
<1>1. PgTypeOK /\ PgRowsInv => HistoryIsKept
  BY SnapshotsHold DEF PgTypeOK, PgRowsInv, HistoryIsKept
<1> QED BY <1>1, PgRowsCorrect, PTL

\* Behind one server, no update or delete that commits overwrites a version
\* its client has not read, although the compare takes no lock.
THEOREM PgNoLostUpdateCorrect ==
    ASSUME \A s, t \in Servers : s = t
    PROVE  PgSpec => PgNoLostUpdate
<1> DEFINE Replaces ==
      \A x \in hist' \ hist :
         \E s \in Servers : \E o \in op[s] :
            /\ o.kind = "mutate" /\ o.row.key = x.key
            /\ { ObjectOf(y) : y \in get_current(rows, x.key) } \subseteq held[o.client]
<1>1. PgTypeOK /\ PgRowsInv /\ [PgNext]_pgVars => [Replaces]_pgVars
  <2> SUFFICES ASSUME PgTypeOK, PgRowsInv, PgNext PROVE Replaces
    OBVIOUS
  <2>1. ASSUME hist' = hist PROVE Replaces
    BY <2>1
  <2>2. ASSUME NEW s \in Servers, mutate_set(s) PROVE Replaces
    <3>1. PICK o \in op[s] : o.kind = "mutate" /\ insert([o.row EXCEPT !.revision = revision + 1])
      BY <2>2 DEF mutate_set
    <3>2. PICK x : x = [o.row EXCEPT !.revision = revision + 1]
      OBVIOUS
    <3>3. o.row \in Row(Keys, Values) /\ revision + 1 \in Nat \ {0}
      BY <3>1, OperationFields DEF PgTypeOK, StoreTypeOK
    <3>4. x.key = o.row.key
      BY <3>2, <3>3, RowAtRevision
    <3>5. \A y \in hist' \ hist : y = x
      BY <3>1, <3>2 DEF insert
    <3>6. { ObjectOf(y) : y \in get_current(rows, o.row.key) } \subseteq held[o.client]
      BY <3>1 DEF PgRowsInv, CheckHolds
    <3> QED BY <3>1, <3>4, <3>5, <3>6
  <2> HIDE DEF Replaces
  <2>3. ASSUME NEW cl \in Clients, NEW s \in Servers, PgClientNext(cl, s) PROVE Replaces
    BY <2>3, <2>1 DEF PgClientNext, PgGet, PgCreate, PgUpdate, PgDelete, PgRefused,
                      mutate_compare, dbVars
  <2>4. ASSUME NEW s \in Servers, ServerNext(s) PROVE Replaces
    BY <2>4, <2>1, <2>2 DEF ServerNext, PgMaintainHead, compact_check, compact_apply,
                            list_rows, changes_rows, ServerCrash, dbVars
  <2>5. ASSUME NEW w \in Watchers, WatchNext(w) PROVE Replaces
    BY <2>5, <2>1 DEF WatchNext, PgWatchStart, PgWatchResume, PgFail, list_head, changes_head,
                      PgYieldReplay, PgYieldAnchor, PgYieldEvent, PgYieldBookmark,
                      PgDisconnect, dbVars
  <2> QED BY <2>3, <2>4, <2>5 DEF PgNext
<1> QED BY <1>1, PgRowsCorrect, PTL DEF PgSpec, PgNoLostUpdate

\* Behind one server, the PostgreSQL backend implements the contract of the
\* Storage trait.
THEOREM PgContractCorrect ==
    ASSUME \A s, t \in Servers : s = t
    PROVE  PgSpec => ImplementsContract
<1>1. PgInit => Contract!Init
  BY InitImplements DEF PgInit
<1>2. PgTypeOK /\ PgRowsInv /\ (PgTypeOK /\ PgRowsInv)' /\ [PgNext]_pgVars
        => [Contract!Next]_(Contract!vars)
  <2> SUFFICES ASSUME PgTypeOK, PgRowsInv, PgTypeOK', PgRowsInv', [PgNext]_pgVars
               PROVE  Contract!Next \/ UNCHANGED Contract!vars
    OBVIOUS
  <2>1. StoreTypeOK /\ StoreTypeOK' /\ RowsInv /\ RowsInv'
    BY DEF PgTypeOK, PgRowsInv
  <2>2. ASSUME UNCHANGED dbVars PROVE UNCHANGED Contract!vars
    BY <2>2 DEF dbVars, Contract!vars
  <2>3. ASSUME NEW s \in Servers, mutate_set(s) PROVE Contract!Next
    <3>1. PICK o \in op[s] : o.kind = "mutate" /\ insert([o.row EXCEPT !.revision = revision + 1])
      BY <2>3 DEF mutate_set
    <3>2. PICK x : x = [o.row EXCEPT !.revision = revision + 1]
      OBVIOUS
    <3>3. o.row \in Row(Keys, Values) /\ revision + 1 \in Nat \ {0}
      BY <3>1, OperationFields DEF PgTypeOK, StoreTypeOK
    <3>4. /\ x \in Row(Keys, Values) /\ x.revision = revision + 1
          /\ x.key = o.row.key /\ x.kind = o.row.kind
      BY <3>2, <3>3, RowAtRevision
    <3>5. x.kind = "Deleted" => get_current(rows, x.key) # {}
      BY <3>1, <3>4 DEF PgRowsInv, CheckHolds
    <3>6. insert(x) /\ floor' = floor
      BY <2>3, <3>1, <3>2 DEF mutate_set
    <3> QED BY <2>1, <3>4, <3>5, <3>6, InsertImplements
  <2>4. ASSUME NEW s \in Servers, compact_apply(s) PROVE Contract!Next
    <3>1. PICK o \in op[s] : o.kind = "compact" /\ discard(o.rev)
      BY <2>4 DEF compact_apply
    <3>2. PICK rev \in Nat : rev = o.rev
      BY <3>1, OperationFields DEF PgTypeOK
    <3>3. rev <= revision /\ rev > floor
      BY <2>1, <3>1, <3>2 DEF PgRowsInv, CheckHolds, StoreTypeOK
    <3>4. discard(rev) /\ UNCHANGED <<revision, hist>>
      BY <2>4, <3>1, <3>2 DEF compact_apply
    <3> QED BY <2>1, <3>3, <3>4, DiscardImplements
  <2>5. ASSUME NEW cl \in Clients, NEW s \in Servers, PgClientNext(cl, s) PROVE UNCHANGED dbVars
    BY <2>5 DEF PgClientNext, PgGet, PgCreate, PgUpdate, PgDelete, PgRefused, mutate_compare
  <2>6. ASSUME NEW s \in Servers,
               \/ PgMaintainHead(s) \/ compact_check(s)
               \/ list_rows(s) \/ changes_rows(s) \/ ServerCrash(s)
        PROVE  UNCHANGED dbVars
    BY <2>6 DEF PgMaintainHead, compact_check, list_rows, changes_rows, ServerCrash
  <2>7. ASSUME NEW w \in Watchers, WatchNext(w) PROVE UNCHANGED dbVars
    BY <2>7 DEF WatchNext, PgWatchStart, PgWatchResume, PgFail, list_head, changes_head,
                PgYieldReplay, PgYieldAnchor, PgYieldEvent, PgYieldBookmark, PgDisconnect
  <2>8. UNCHANGED pgVars => UNCHANGED dbVars
    BY DEF pgVars
  <2>9. Contract!Next \/ UNCHANGED dbVars
    BY <2>3, <2>4, <2>5, <2>6, <2>7, <2>8 DEF PgNext, ServerNext
  <2> QED BY <2>2, <2>9
<1> QED BY <1>1, <1>2, PgRowsCorrect, PTL DEF PgSpec, ImplementsContract, Contract!Spec

\* A replay stays at its anchor, which is a revision and not the 0 for which
\* list takes the current one, and so its first page was read there too.
AnchorOf(w) ==
    /\ phase[w] \in {"initial", "replayed"} =>
         /\ cursor[w] = anchor[w] /\ anchor[w] > 0
         /\ snapshotAt[w] \in {0, anchor[w]}
    /\ phase[w] = "replayed" => snapshotAt[w] = anchor[w]

\* What a stream's first statement found still holds at its second.
PollHolds(o) ==
    /\ o.kind = "list" =>
         /\ phase[o.watcher] = "initial" /\ pending[o.watcher] = {}
         /\ o.rev = cursor[o.watcher] /\ cursor[o.watcher] \in floor..revision
    /\ o.kind = "changes" =>
         /\ phase[o.watcher] \in {"anchored", "live"} /\ pending[o.watcher] = {}
         /\ o.current = revision /\ cursor[o.watcher] \in floor..revision

\* The inductive invariant of the streams of one server.
PgStreamInv ==
    /\ CacheInv
    /\ \A w \in Watchers : AnchorOf(w)
    /\ \A s \in Servers : \A o \in op[s] : PollHolds(o)

\* A stream none of whose variables changes keeps its anchor.
SameAnchor(w) ==
    /\ phase'[w] = phase[w] /\ cursor'[w] = cursor[w]
    /\ anchor'[w] = anchor[w] /\ snapshotAt'[w] = snapshotAt[w]

\* Each step keeps what every watcher has and waits for.
LEMMA PgCacheStep ==
    ASSUME PgTypeOK, PgTypeOK', RowsInv, PgStreamInv, [PgNext]_pgVars
    PROVE  CacheInv'
<1> USE DEF dbVars, streamVars, watchVars
<1>1. StoreTypeOK /\ StoreTypeOK' /\ op \in [Servers -> SUBSET Operation]
  BY DEF PgTypeOK
<1>2. IsFiniteSet(rows) /\ \A w \in Watchers : CacheOf(w)
  BY DEF PgStreamInv, CacheInv
<1>3. ASSUME UNCHANGED <<hist, revision, watchVars>>, IsFiniteSet(rows') PROVE CacheInv'
  BY <1>1, <1>2, <1>3, DatabaseKeepsCaches DEF Same, CacheInv
<1>4. ASSUME UNCHANGED <<dbVars, watchVars>> PROVE CacheInv'
  BY <1>2, <1>3, <1>4
<1>5. ASSUME NEW w \in Watchers, CacheOf(w)', UNCHANGED <<rows, hist, revision>>,
             \A u \in Watchers \ {w} : Same(u)
      PROVE  CacheInv'
  BY <1>1, <1>2, <1>5, DatabaseKeepsCaches DEF CacheInv
<1>6. ASSUME NEW s \in Servers, mutate_set(s) PROVE CacheInv'
  <2>1. PICK o \in op[s] : o.kind = "mutate" /\ insert([o.row EXCEPT !.revision = revision + 1])
    BY <1>6 DEF mutate_set
  <2>2. PICK x : x = [o.row EXCEPT !.revision = revision + 1]
    OBVIOUS
  <2>3. o.row \in Row(Keys, Values) /\ revision + 1 \in Nat \ {0}
    BY <1>1, <2>1, OperationFields DEF StoreTypeOK
  <2>4. x \in Row(Keys, Values) /\ x.revision = revision + 1
    BY <2>2, <2>3, RowAtRevision
  <2>5. insert(x) /\ UNCHANGED watchVars
    BY <1>6, <2>1, <2>2 DEF mutate_set
  <2>6. IsFiniteSet(rows')
    BY <1>2, <2>5, FS_AddElement DEF insert
  <2>7. \A w \in Watchers : CacheOf(w)'
    BY <1>1, <1>2, <2>4, <2>5, DatabaseKeepsCaches DEF Same
  <2> QED BY <2>6, <2>7 DEF CacheInv
<1>7. ASSUME NEW s \in Servers, compact_apply(s) PROVE CacheInv'
  <2>1. PICK o \in op[s] : discard(o.rev)
    BY <1>7 DEF compact_apply
  <2>2. PICK rev \in Nat : rev = o.rev
    BY <1>1, <1>7, <2>1, OperationFields DEF compact_apply, PgTypeOK
  <2>3. IsFiniteSet(rows')
    BY <1>2, <2>1, <2>2, QueriesSelectRows, FS_Subset DEF discard
  <2> QED BY <1>3, <1>7, <2>3 DEF compact_apply
<1>8. ASSUME NEW w \in Watchers, PgFail(w), pending[w] = {} PROVE CacheInv'
  <2>1. CacheOf(w)'
    BY <1>1, <1>2, <1>8, StoppedKeeps DEF PgFail, StoreTypeOK
  <2> QED BY <1>1, <1>5, <1>8, <2>1 DEF PgFail, Same, StoreTypeOK
<1>9. ASSUME NEW w \in Watchers, NEW s \in Servers, NEW P \in Prefixes, PgWatchStart(w, s, P)
      PROVE  CacheInv'
  <2>1. pending[w] = {} /\ P \in SUBSET Keys
    BY <1>2, <1>9, PrefixesAssumption DEF PgWatchStart, CacheOf
  <2>2. /\ prefix'[w] = P /\ cursor'[w] = revision /\ pageAfter'[w] = 0 /\ view'[w] = {}
        /\ seen'[w] = 0 /\ pending'[w] = {} /\ UNCHANGED <<rows, hist, revision>>
        /\ phase'[w] = "initial"
    BY <1>1, <2>1, <1>9 DEF PgWatchStart, StoreTypeOK
  <2>3. CacheOf(w)'
    BY <1>1, <2>1, <2>2, WatchKeeps
  <2>4. \A u \in Watchers \ {w} : Same(u)
    BY <1>1, <1>9 DEF PgWatchStart, Same, StoreTypeOK
  <2> QED BY <1>5, <2>2, <2>3, <2>4
<1>10. ASSUME NEW w \in Watchers, NEW s \in Servers, PgWatchResume(w, s) PROVE CacheInv'
  <2>1. pending[w] = {} /\ phase[w] = "off" /\ seen[w] > 0
    BY <1>2, <1>10 DEF PgWatchResume, CacheOf, Idle
  <2>2. CASE ~PgFail(w)
    <3>1. /\ phase'[w] = "live" /\ cursor'[w] = seen[w] /\ pending' = pending
          /\ UNCHANGED <<rows, hist, revision, prefix, pageAfter, view, seen>>
      BY <1>1, <1>10, <2>2 DEF PgWatchResume, StoreTypeOK
    <3>2. CacheOf(w)'
      BY <1>1, <1>2, <2>1, <3>1, ResumeKeeps
    <3>3. \A u \in Watchers \ {w} : Same(u)
      BY <1>1, <1>10, <2>2 DEF PgWatchResume, Same, StoreTypeOK
    <3> QED BY <1>5, <3>1, <3>2, <3>3
  <2> QED BY <1>8, <2>1, <2>2
<1>11. ASSUME NEW w \in Watchers, list_head(w) \/ changes_head(w) PROVE CacheInv'
  <2>1. pending[w] = {}
    BY <1>11 DEF list_head, changes_head
  <2>2. CASE ~PgFail(w)
    BY <1>4, <1>11, <2>2 DEF list_head, changes_head
  <2> QED BY <1>8, <2>1, <2>2
<1>12. ASSUME NEW s \in Servers, list_rows(s) PROVE CacheInv'
  <2>1. PICK o \in op[s] : /\ o.kind = "list" /\ replay_page(o.watcher, o.rev)
                           /\ UNCHANGED <<dbVars, prefix, cursor, view, seen>>
    BY <1>12 DEF list_rows
  <2>2. PollHolds(o)
    BY <2>1 DEF PgStreamInv
  <2>3. PICK w \in Watchers : w = o.watcher
    BY <1>1, <2>1, OperationFields
  <2>4. /\ phase[w] = "initial" /\ pending[w] = {} /\ cursor[w] \in floor..revision
        /\ replay_page(w, cursor[w])
    BY <2>1, <2>2, <2>3 DEF PollHolds
  <2>5. CacheOf(w)'
    BY <1>1, <1>2, <2>1, <2>4, PageKeeps
  <2>6. \A u \in Watchers \ {w} : Same(u)
    BY <1>1, <2>1, <2>4 DEF replay_page, Same, StoreTypeOK
  <2> QED BY <1>5, <2>1, <2>5, <2>6
<1>13. ASSUME NEW s \in Servers, changes_rows(s) PROVE CacheInv'
  <2>1. PICK o \in op[s] : /\ o.kind = "changes" /\ next_batch(o.watcher, o.current)
                           /\ phase' = [phase EXCEPT ![o.watcher] = "live"]
                           /\ UNCHANGED <<dbVars, prefix, pageAfter, view, seen>>
    BY <1>13 DEF changes_rows
  <2>2. PollHolds(o)
    BY <2>1 DEF PgStreamInv
  <2>3. PICK w \in Watchers : w = o.watcher
    BY <1>1, <2>1, OperationFields
  <2>4. /\ phase[w] \in {"anchored", "live"} /\ pending[w] = {} /\ cursor[w] \in floor..revision
        /\ next_batch(w, revision) /\ phase' = [phase EXCEPT ![w] = "live"]
    BY <2>1, <2>2, <2>3 DEF PollHolds
  <2>5. phase'[w] = "live"
    BY <1>1, <2>4 DEF StoreTypeOK
  <2>6. CacheOf(w)'
    BY <1>1, <1>2, <2>1, <2>4, <2>5, BatchKeeps
  <2>7. \A u \in Watchers \ {w} : Same(u)
    BY <1>1, <2>1, <2>4 DEF next_batch, next_cursor, Same, StoreTypeOK
  <2> QED BY <1>5, <2>1, <2>6, <2>7
<1>14. ASSUME NEW w \in Watchers,
              \/ PgYieldReplay(w) \/ PgYieldAnchor(w) \/ PgYieldEvent(w) \/ PgYieldBookmark(w)
       PROVE  CacheInv'
  <2>1. UNCHANGED <<rows, hist, revision>> /\ \A u \in Watchers \ {w} : Same(u)
    BY <1>1, <1>14 DEF PgYieldReplay, PgYieldAnchor, PgYieldEvent, PgYieldBookmark,
                       deliver_object, deliver_change, Same, StoreTypeOK
  <2>2. CASE PgYieldReplay(w)
    BY <1>1, <1>2, <1>5, <2>1, <2>2, ObjectKeeps DEF PgYieldReplay
  <2>3. CASE PgYieldAnchor(w)
    <3>1. AnchorOf(w) /\ phase[w] = "replayed"
      BY <2>3 DEF PgYieldAnchor, PgStreamInv
    <3>2. seen'[w] = cursor[w]
      BY <1>1, <2>3, <3>1 DEF PgYieldAnchor, AnchorOf, StoreTypeOK
    <3> QED BY <1>1, <1>2, <1>5, <2>1, <2>3, <3>1, <3>2, AnchorKeeps DEF PgYieldAnchor, StoreTypeOK
  <2>4. CASE PgYieldEvent(w)
    BY <1>1, <1>2, <1>5, <2>1, <2>4, ChangeKeeps DEF PgYieldEvent
  <2>5. CASE PgYieldBookmark(w)
    BY <1>1, <1>2, <1>5, <2>1, <2>5, BookmarkKeeps DEF PgYieldBookmark, StoreTypeOK
  <2> QED BY <1>14, <2>2, <2>3, <2>4, <2>5
<1>15. ASSUME NEW w \in Watchers, PgDisconnect(w) PROVE CacheInv'
  <2>1. CacheOf(w)'
    BY <1>1, <1>2, <1>15, StoppedKeeps DEF PgDisconnect, StoreTypeOK
  <2> QED BY <1>1, <1>5, <1>15, <2>1 DEF PgDisconnect, Same, StoreTypeOK
<1>16. ASSUME NEW s \in Servers, ServerCrash(s) PROVE CacheInv'
  <2>1. ASSUME NEW w \in Watchers PROVE CacheOf(w)'
    <3>1. UNCHANGED <<hist, revision, prefix, cursor, pageAfter, view, seen>>
      BY <1>16 DEF ServerCrash
    <3>2. CASE on[w] = s
      BY <1>1, <1>2, <1>16, <3>1, <3>2, StoppedKeeps DEF ServerCrash, Idle
    <3>3. CASE on[w] # s
      <4>1. Same(w)
        BY <1>16, <3>1, <3>3 DEF ServerCrash, Same
      <4> QED BY <1>1, <1>2, <3>1, <4>1, DatabaseKeepsCaches
    <3> QED BY <3>2, <3>3
  <2> QED BY <1>2, <1>16, <2>1 DEF ServerCrash, CacheInv
<1>17. ASSUME NEW s \in Servers, PgMaintainHead(s) \/ compact_check(s) PROVE CacheInv'
  BY <1>4, <1>17 DEF PgMaintainHead, compact_check
<1>18. ASSUME NEW cl \in Clients, NEW s \in Servers, PgClientNext(cl, s) PROVE CacheInv'
  BY <1>4, <1>18 DEF PgClientNext, PgGet, PgCreate, PgUpdate, PgDelete, PgRefused, mutate_compare
<1>19. CASE UNCHANGED pgVars
  BY <1>4, <1>19 DEF pgVars
<1> QED
  BY <1>6, <1>7, <1>9, <1>10, <1>11, <1>12, <1>13, <1>14, <1>15, <1>16, <1>17, <1>18, <1>19
     DEF PgNext, ServerNext, WatchNext

\* Each step leaves every replay at its anchor.
LEMMA PgAnchorStep ==
    ASSUME EmptyWatch = FALSE, PgTypeOK, PgTypeOK', PgStreamInv, [PgNext]_pgVars,
           NEW w \in Watchers
    PROVE  AnchorOf(w)'
<1> USE DEF dbVars, streamVars, watchVars
<1>1. /\ AnchorOf(w) /\ phase[w] \in Phases /\ phase'[w] \in Phases
      /\ phase \in [Watchers -> Phases] /\ cursor \in [Watchers -> Nat]
      /\ anchor \in [Watchers -> Nat] /\ snapshotAt \in [Watchers -> Nat] /\ revision \in Nat
  BY DEF PgTypeOK, StoreTypeOK, PgStreamInv
<1>2. ASSUME SameAnchor(w) PROVE AnchorOf(w)'
  BY <1>1, <1>2 DEF SameAnchor, AnchorOf
<1>3. ASSUME phase'[w] \notin {"initial", "replayed"} PROVE AnchorOf(w)'
  BY <1>3 DEF AnchorOf
<1>4. ASSUME UNCHANGED <<phase, cursor, anchor, snapshotAt>> PROVE AnchorOf(w)'
  BY <1>2, <1>4 DEF SameAnchor
<1>5. ASSUME NEW u \in Watchers, PgFail(u) PROVE AnchorOf(w)'
  BY <1>1, <1>2, <1>3, <1>5 DEF PgFail, SameAnchor
<1>6. ASSUME NEW u \in Watchers, NEW s \in Servers, NEW P, PgWatchStart(u, s, P)
      PROVE  AnchorOf(w)'
  <2>1. CASE u = w
    <3>1. revision > 0 /\ cursor'[w] = revision /\ anchor'[w] = revision
          /\ snapshotAt'[w] = 0 /\ phase'[w] = "initial"
      BY <1>1, <1>6, <2>1 DEF PgWatchStart
    <3> QED BY <3>1 DEF AnchorOf
  <2>2. CASE u # w
    BY <1>1, <1>2, <1>6, <2>2 DEF PgWatchStart, SameAnchor
  <2> QED BY <2>1, <2>2
<1>7. ASSUME NEW u \in Watchers, NEW s \in Servers, PgWatchResume(u, s) PROVE AnchorOf(w)'
  <2>1. CASE ~PgFail(u)
    BY <1>1, <1>2, <1>3, <1>7, <2>1 DEF PgWatchResume, SameAnchor
  <2> QED BY <1>5, <2>1
<1>8. ASSUME NEW u \in Watchers, list_head(u) \/ changes_head(u) PROVE AnchorOf(w)'
  <2>1. CASE ~PgFail(u)
    BY <1>4, <1>8, <2>1 DEF list_head, changes_head
  <2> QED BY <1>5, <2>1
<1>9. ASSUME NEW s \in Servers, list_rows(s) PROVE AnchorOf(w)'
  <2>1. PICK o \in op[s] :
          /\ o.kind = "list" /\ replay_page(o.watcher, o.rev)
          /\ snapshotAt' = [snapshotAt EXCEPT ![o.watcher] = IF @ = 0 THEN o.rev ELSE @]
          /\ UNCHANGED <<cursor, anchor>>
    BY <1>9 DEF list_rows
  <2>2. PollHolds(o)
    BY <2>1 DEF PgStreamInv
  <2>3. CASE o.watcher = w
    <3>1. o.rev = cursor[w] /\ phase[w] = "initial"
      BY <2>1, <2>2, <2>3 DEF PollHolds
    <3>2. anchor[w] = cursor[w] /\ anchor[w] > 0 /\ snapshotAt[w] \in {0, anchor[w]}
      BY <1>1, <3>1 DEF AnchorOf
    <3>3. snapshotAt'[w] = anchor[w]
      BY <1>1, <2>1, <2>3, <3>1, <3>2
    <3> QED BY <2>1, <3>2, <3>3 DEF AnchorOf
  <2>4. CASE o.watcher # w
    BY <1>1, <1>2, <2>1, <2>4 DEF replay_page, SameAnchor
  <2> QED BY <2>3, <2>4
<1>10. ASSUME NEW s \in Servers, changes_rows(s) PROVE AnchorOf(w)'
  <2>1. PICK o \in op[s] : /\ o.kind = "changes" /\ next_batch(o.watcher, o.current)
                           /\ phase' = [phase EXCEPT ![o.watcher] = "live"]
                           /\ UNCHANGED <<anchor, snapshotAt>>
    BY <1>10 DEF changes_rows
  <2>2. CASE o.watcher = w
    BY <1>1, <1>3, <2>1, <2>2
  <2>3. CASE o.watcher # w
    BY <1>1, <1>2, <2>1, <2>3 DEF next_batch, next_cursor, SameAnchor
  <2> QED BY <2>2, <2>3
<1>11. ASSUME NEW u \in Watchers, PgYieldReplay(u) \/ PgYieldEvent(u) \/ PgYieldBookmark(u)
       PROVE  AnchorOf(w)'
  BY <1>4, <1>11 DEF PgYieldReplay, PgYieldEvent, PgYieldBookmark
<1>12. ASSUME NEW u \in Watchers, PgYieldAnchor(u) \/ PgDisconnect(u) PROVE AnchorOf(w)'
  BY <1>1, <1>2, <1>3, <1>12 DEF PgYieldAnchor, PgDisconnect, SameAnchor
<1>13. ASSUME NEW s \in Servers, ServerCrash(s) PROVE AnchorOf(w)'
  BY <1>1, <1>2, <1>3, <1>13 DEF ServerCrash, SameAnchor
<1>14. ASSUME NEW s \in Servers,
              mutate_set(s) \/ PgMaintainHead(s) \/ compact_check(s) \/ compact_apply(s)
       PROVE  AnchorOf(w)'
  BY <1>4, <1>14 DEF mutate_set, PgMaintainHead, compact_check, compact_apply
<1>15. ASSUME NEW cl \in Clients, NEW s \in Servers, PgClientNext(cl, s) PROVE AnchorOf(w)'
  BY <1>4, <1>15 DEF PgClientNext, PgGet, PgCreate, PgUpdate, PgDelete, PgRefused, mutate_compare
<1>16. CASE UNCHANGED pgVars
  BY <1>4, <1>16 DEF pgVars
<1> QED
  BY <1>6, <1>7, <1>8, <1>9, <1>10, <1>11, <1>12, <1>13, <1>14, <1>15, <1>16
     DEF PgNext, ServerNext, WatchNext

\* Each step of the only server leaves what a stream's first statement found.
LEMMA PgPollStep ==
    ASSUME \A s, t \in Servers : s = t, PgTypeOK, PgTypeOK', RowsInv, PgStreamInv,
           [PgNext]_pgVars
    PROVE  \A s \in Servers : \A o \in op'[s] : PollHolds(o)'
<1> USE DEF dbVars, streamVars, watchVars
<1> DEFINE Goal == \A s \in Servers : \A o \in op'[s] : PollHolds(o)'
<1>1. /\ op \in [Servers -> SUBSET Operation] /\ on \in [Watchers -> Servers]
      /\ \A s \in Servers : \A o \in op[s] : PollHolds(o)
  BY DEF PgTypeOK, PgStreamInv
<1>2. ASSUME \A s \in Servers : op'[s] = {} PROVE Goal
  BY <1>2
<1>3. ASSUME \A s \in Servers : op'[s] \subseteq op[s], UNCHANGED <<revision, floor, cursor>>,
             \A s \in Servers : \A o \in op'[s] : o.kind \in {"list", "changes"} =>
                phase'[o.watcher] = phase[o.watcher] /\ pending'[o.watcher] = pending[o.watcher]
      PROVE  Goal
  BY <1>1, <1>3 DEF PollHolds
<1>4. ASSUME NEW s \in Servers, NEW o, Start(s, o), PollHolds(o)' PROVE Goal
  <2>1. op'[s] = {o}
    BY <1>1, <1>4, Started
  <2> QED BY <1>4, <2>1
<1>5. ASSUME NEW s \in Servers, Finish(s) PROVE Goal
  <2>1. op'[s] = {}
    BY <1>1, <1>5, Finished
  <2> QED BY <1>2, <2>1
<1>6. ASSUME NEW s \in Servers, PgFree(s), op' = op PROVE Goal
  BY <1>2, <1>6 DEF PgFree
<1>7. ASSUME NEW cl \in Clients, NEW s \in Servers, NEW k, NEW v, NEW e, NEW d,
             mutate_compare(cl, s, k, v, e, d)
      PROVE  Goal
  <2>1. PICK o : /\ o = [kind |-> "mutate", client |-> cl,
                         row |-> [key |-> k, revision |-> 1, value |-> v,
                                  kind |-> IF d THEN "Deleted"
                                           ELSE IF e # 0 THEN "Modified" ELSE "Added"]]
                 /\ Start(s, o)
    BY <1>7 DEF mutate_compare
  <2>2. PollHolds(o)'
    BY <2>1 DEF PollHolds
  <2> QED BY <1>4, <2>1, <2>2
<1>8. ASSUME NEW cl \in Clients, NEW s \in Servers, PgClientNext(cl, s) PROVE Goal
  <2>1. CASE PgDelete(cl, s)
    <3>1. PICK o \in held[cl] : \E old \in get_current(rows, o.key) :
            mutate_compare(cl, s, o.key, old.value, o.revision, TRUE)
      BY <2>1 DEF PgDelete
    <3> HIDE DEF Goal
    <3> QED BY <1>7, <3>1
  <2>2. CASE \E v \in Values : PgUpdate(cl, s, v)
    <3> HIDE DEF Goal
    <3> QED BY <1>7, <2>2 DEF PgUpdate
  <2>3. CASE \E k \in Keys, v \in Values : PgCreate(cl, s, k, v)
    <3> HIDE DEF Goal
    <3> QED BY <1>7, <2>3 DEF PgCreate
  <2>4. CASE PgRefused(cl, s) \/ \E k \in Keys : PgGet(cl, s, k)
    <3> HIDE DEF Goal
    <3> QED BY <1>6, <2>4 DEF PgRefused, PgGet
  <2> HIDE DEF Goal
  <2> QED BY <1>8, <2>1, <2>2, <2>3, <2>4 DEF PgClientNext
<1>9. ASSUME NEW s \in Servers, compact_check(s) PROVE Goal
  <2>1. PICK rev \in target[s] :
          \/ Start(s, [kind |-> "compact", rev |-> rev])
          \/ PgFree(s) /\ UNCHANGED op
    BY <1>9 DEF compact_check
  <2>2. CASE Start(s, [kind |-> "compact", rev |-> rev])
    <3>1. PICK o : o = [kind |-> "compact", rev |-> rev] /\ Start(s, o)
      BY <2>2
    <3>2. PollHolds(o)'
      BY <3>1 DEF PollHolds
    <3> HIDE DEF Goal
    <3> QED BY <1>4, <3>1, <3>2
  <2> HIDE DEF Goal
  <2> QED BY <1>6, <2>1, <2>2
<1>10. ASSUME NEW s \in Servers,
              \/ mutate_set(s) \/ compact_apply(s) \/ list_rows(s) \/ changes_rows(s)
       PROVE  Goal
  <2>1. Finish(s)
    BY <1>10 DEF mutate_set, compact_apply, list_rows, changes_rows
  <2> HIDE DEF Goal
  <2> QED BY <1>5, <2>1
<1>11. ASSUME NEW s \in Servers, ServerCrash(s) PROVE Goal
  <2>1. op'[s] = {}
    BY <1>1, <1>11 DEF ServerCrash
  <2> QED BY <1>2, <2>1
<1>12. ASSUME NEW s \in Servers, PgMaintainHead(s) PROVE Goal
  BY <1>6, <1>12 DEF PgMaintainHead
<1>13. ASSUME NEW w \in Watchers, PgFail(w), PgFree(on[w]) PROVE Goal
  BY <1>1, <1>6, <1>13 DEF PgFail
<1>14. ASSUME NEW w \in Watchers, NEW s \in Servers, NEW P \in Prefixes,
              PgWatchStart(w, s, P)
       PROVE  Goal
  BY <1>6, <1>14 DEF PgWatchStart
<1>15. ASSUME NEW w \in Watchers, list_head(w) PROVE Goal
  <2>1. CASE PgFail(w)
    BY <1>13, <1>15, <2>1 DEF list_head
  <2>2. CASE ~PgFail(w)
    <3>1. PICK rev : rev = IF anchor[w] = 0 THEN revision ELSE anchor[w]
      OBVIOUS
    <3>2. PICK o : o = [kind |-> "list", watcher |-> w, rev |-> rev] /\ Start(on[w], o)
      BY <1>15, <2>2, <3>1 DEF list_head
    <3>3. /\ phase[w] = "initial" /\ pending[w] = {} /\ Valid(rev)
          /\ UNCHANGED <<revision, floor, cursor, phase, pending>>
      BY <1>15, <2>2, <3>1 DEF list_head
    <3>4. anchor[w] = cursor[w] /\ anchor[w] > 0 /\ cursor[w] \in Nat
      BY <3>3 DEF PgStreamInv, AnchorOf, PgTypeOK, StoreTypeOK
    <3>5. rev = cursor[w] /\ cursor[w] \in floor..revision
      BY <3>1, <3>3, <3>4 DEF Valid, validate_revision, PgTypeOK, StoreTypeOK
    <3>6. PollHolds(o)'
      BY <3>2, <3>3, <3>5 DEF PollHolds
    <3> HIDE DEF Goal
    <3> QED BY <1>1, <1>4, <3>2, <3>6
  <2> QED BY <2>1, <2>2
<1>16. ASSUME NEW w \in Watchers, changes_head(w) PROVE Goal
  <2>1. CASE PgFail(w)
    BY <1>13, <1>16, <2>1 DEF changes_head
  <2>2. CASE ~PgFail(w)
    <3>1. PICK rev : rev = revision
      OBVIOUS
    <3>2. PICK o : o = [kind |-> "changes", watcher |-> w, current |-> rev] /\ Start(on[w], o)
      BY <1>16, <2>2, <3>1 DEF changes_head
    <3>3. /\ phase[w] \in {"anchored", "live"} /\ pending[w] = {} /\ Valid(cursor[w])
          /\ UNCHANGED <<revision, floor, cursor, phase, pending>>
      BY <1>16, <2>2 DEF changes_head
    <3>4. cursor[w] \in floor..revision
      BY <3>3 DEF Valid, validate_revision, PgTypeOK, StoreTypeOK
    <3>5. PollHolds(o)'
      BY <3>1, <3>2, <3>3, <3>4 DEF PollHolds
    <3> HIDE DEF Goal
    <3> QED BY <1>1, <1>4, <3>2, <3>5
  <2> QED BY <2>1, <2>2
<1>17. ASSUME NEW w \in Watchers, PgYieldReplay(w) \/ PgYieldAnchor(w) \/ PgYieldEvent(w)
       PROVE  Goal
  <2>1. op' = op /\ UNCHANGED <<revision, floor, cursor>>
    BY <1>17 DEF PgYieldReplay, PgYieldAnchor, PgYieldEvent
  <2>2. pending[w] # {} \/ phase[w] = "replayed"
    BY <1>17 DEF PgYieldReplay, PgYieldAnchor, PgYieldEvent, deliver_object, deliver_change
  <2>3. ASSUME NEW s \in Servers, NEW o \in op[s], o.kind \in {"list", "changes"}
        PROVE  o.watcher # w
    BY <1>1, <2>2, <2>3 DEF PollHolds
  <2>4. \A u \in Watchers \ {w} : phase'[u] = phase[u] /\ pending'[u] = pending[u]
    BY <1>17 DEF PgYieldReplay, PgYieldAnchor, PgYieldEvent, deliver_object, deliver_change,
                 PgTypeOK, StoreTypeOK
  <2>5. ASSUME NEW s \in Servers, NEW o \in op[s], o.kind \in {"list", "changes"}
        PROVE  o.watcher \in Watchers
    BY <1>1, <2>5, OperationFields
  <2> HIDE DEF Goal
  <2> QED BY <1>3, <2>1, <2>3, <2>4, <2>5
<1>18. ASSUME NEW w \in Watchers, PgYieldBookmark(w) PROVE Goal
  BY <1>1, <1>6, <1>18 DEF PgYieldBookmark
<1>19. ASSUME NEW w \in Watchers, PgDisconnect(w) PROVE Goal
  <2>1. /\ \A s \in Servers : op'[s] \subseteq op[s] /\ \A o \in op'[s] :
              o.kind \in {"list", "changes"} => o.watcher # w
        /\ UNCHANGED <<revision, floor, cursor>>
    BY <1>19 DEF PgDisconnect
  <2>2. \A u \in Watchers \ {w} : phase'[u] = phase[u] /\ pending'[u] = pending[u]
    BY <1>19 DEF PgDisconnect, PgTypeOK, StoreTypeOK
  <2>3. ASSUME NEW s \in Servers, NEW o \in op'[s], o.kind \in {"list", "changes"}
        PROVE  o.watcher \in Watchers
    BY <1>1, <2>1, <2>3, OperationFields
  <2> HIDE DEF Goal
  <2> QED BY <1>3, <2>1, <2>2, <2>3
<1>20. ASSUME UNCHANGED pgVars PROVE Goal
  BY <1>3, <1>20 DEF pgVars
<1> HIDE DEF Goal
<1>21. ASSUME NEW s \in Servers, ServerNext(s) PROVE Goal
  BY <1>9, <1>10, <1>11, <1>12, <1>21 DEF ServerNext
<1>22. ASSUME NEW w \in Watchers, WatchNext(w) PROVE Goal
  <2>1. CASE \E s \in Servers, P \in Prefixes : PgWatchStart(w, s, P)
    BY <1>14, <2>1
  <2>4. CASE \E s \in Servers : PgWatchResume(w, s)
    <3>1. PICK s \in Servers : PgWatchResume(w, s)
      BY <2>4
    <3> QED BY <1>6, <3>1 DEF PgWatchResume, PgFail
  <2>2. CASE list_head(w) \/ changes_head(w) \/ PgDisconnect(w)
    BY <1>15, <1>16, <1>19, <2>2
  <2>3. CASE PgYieldReplay(w) \/ PgYieldAnchor(w) \/ PgYieldEvent(w) \/ PgYieldBookmark(w)
    BY <1>17, <1>18, <2>3
  <2> QED BY <1>22, <2>1, <2>2, <2>3, <2>4 DEF WatchNext
<1>23. Goal
  BY <1>8, <1>20, <1>21, <1>22 DEF PgNext
<1> QED BY <1>23 DEF Goal

\* Behind one server, and unless a watch was opened on a registry nobody had
\* written to yet, every watcher's cache is a snapshot of the registry.
THEOREM PgCachesCorrect ==
    ASSUME \A s, t \in Servers : s = t, EmptyWatch = FALSE
    PROVE  PgSpec => []CacheIsASnapshot
<1>1. PgInit => PgStreamInv
  <2>1. PgInit => CacheInv
    BY FS_EmptySet DEF PgInit, StoreInit, CacheInv, CacheOf, Idle
  <2> QED BY <2>1 DEF PgInit, StoreInit, PgStreamInv, AnchorOf
<1>2. /\ PgTypeOK /\ PgRowsInv /\ (PgTypeOK /\ PgRowsInv)' /\ PgStreamInv /\ [PgNext]_pgVars
      => PgStreamInv'
  <2> SUFFICES ASSUME PgTypeOK, PgRowsInv, PgTypeOK', PgStreamInv, [PgNext]_pgVars
               PROVE  PgStreamInv'
    OBVIOUS
  <2>1. RowsInv
    BY DEF PgRowsInv
  <2>2. CacheInv'
    BY <2>1, PgCacheStep
  <2>3. \A w \in Watchers : AnchorOf(w)'
    BY PgAnchorStep
  <2>4. \A s \in Servers : \A o \in op'[s] : PollHolds(o)'
    BY <2>1, PgPollStep
  <2> QED BY <2>2, <2>3, <2>4 DEF PgStreamInv
<1>3. PgTypeOK /\ PgStreamInv => CacheIsASnapshot
  BY CachesHold DEF PgTypeOK, PgStreamInv
<1> QED BY <1>1, <1>2, <1>3, PgRowsCorrect, PTL DEF PgSpec

=============================================================================
