--------------------------- MODULE VersionedStore ---------------------------
(***************************************************************************)
(* What SqliteStore (h3s-storage/src/sqlite.rs) and PostgresStore          *)
(* (postgres.rs) have in common: the database, what callers and watch      *)
(* streams hold of it, and the statements both run.  What a step is made   *)
(* of, who waits for whom and what a crash loses, is theirs.               *)
(***************************************************************************)
EXTENDS Registry

CONSTANTS
    Keys,          \* the object keys
    Values,        \* object payloads
    Prefixes,      \* the key prefixes a client may select
    Clients,       \* callers doing read-modify-write through the store
    Watchers,      \* watch and list clients, each keeping a cache
    Batch,         \* rows per changes query (256)
    Page,          \* objects per LIST page (256)
    Window,        \* maintenance window (GC_WINDOW = 1024)
    MaxRevision    \* bound on the number of mutations explored

ASSUME KeysAssumption == Keys \subseteq Nat \ {0}
ASSUME PrefixesAssumption == Prefixes \subseteq SUBSET Keys
ASSUME BatchAssumption == Batch \in Nat \ {0} /\ Page \in Nat \ {0}
ASSUME WindowAssumption == Window \in Nat /\ MaxRevision \in Nat

VARIABLES
    \* the database
    rows,          \* registry_versions
    revision,      \* registry_meta.revision
    floor,         \* registry_meta.compacted
    \* the callers
    held,          \* held[cl]: the object the client last obtained, or {}
    \* the streams and the caches of their clients
    phase,         \* where the client's LIST or watch stream is
    prefix,        \* the selected prefix
    cursor,        \* the stream's anchor, then its cursor
    pageAfter,     \* the continuation key
    pending,       \* events read from the database and not yet yielded
    view,          \* the client's cache: the rows it believes live
    seen,          \* the revision the client would resume after
    \* history variable: every row ever committed, never compacted
    hist

dbVars == <<rows, revision, floor, hist>>
watchVars == <<phase, prefix, cursor, pageAfter, pending, view, seen>>

\* "listing" is a SQLite client's LIST, "anchored" a PostgreSQL stream that has
\* sent its anchor and not polled yet.
Phases == {"off", "listing", "initial", "replayed", "anchored", "live", "failed"}

Event == [row : Row(Keys, Values), previous : SUBSET Row(Keys, Values)]

StoreTypeOK ==
    /\ rows \in SUBSET Row(Keys, Values)
    /\ hist \in SUBSET Row(Keys, Values)
    /\ revision \in Nat
    /\ floor \in Nat
    /\ held \in [Clients -> SUBSET StoredObject(Keys, Values)]
    /\ phase \in [Watchers -> Phases]
    /\ prefix \in [Watchers -> SUBSET Keys]
    /\ cursor \in [Watchers -> Nat]
    /\ pageAfter \in [Watchers -> Nat]
    /\ pending \in [Watchers -> SUBSET Event]
    /\ view \in [Watchers -> SUBSET Row(Keys, Values)]
    /\ seen \in [Watchers -> Nat]

\* open or connect: an empty registry, revision and floor 0.
StoreInit ==
    /\ rows = {} /\ hist = {}
    /\ revision = 0 /\ floor = 0
    /\ held = [cl \in Clients |-> {}]
    /\ phase = [w \in Watchers |-> "off"]
    /\ prefix = [w \in Watchers |-> {}]
    /\ cursor = [w \in Watchers |-> 0]
    /\ pageAfter = [w \in Watchers |-> 0]
    /\ pending = [w \in Watchers |-> {}]
    /\ view = [w \in Watchers |-> {}]
    /\ seen = [w \in Watchers |-> 0]

-----------------------------------------------------------------------------
(* Writing.                                                                *)

\* Fault: an existing object is enough, whatever its revision.
cas_holds_present(k, expected) ==
    IF expected = 0 THEN get_current(rows, k) = {} ELSE get_current(rows, k) # {}

\* The compare-and-set: expected = 0 is None.
cas_holds(k, expected) ==
    IF expected = 0 THEN get_current(rows, k) = {}
    ELSE \E old \in get_current(rows, k) : old.revision = expected

\* The mutation's INSERT, with the next revision.
insert(x) ==
    /\ rows' = rows \cup {x}
    /\ hist' = hist \cup {x}
    /\ revision' = revision + 1

\* The compaction's DELETE, and the floor it sets.
discard(rev) ==
    /\ rows' = retained(rows, rev)
    /\ floor' = rev

-----------------------------------------------------------------------------
(* Reading.                                                                *)

Valid(rev) == validate_revision(rev, revision, floor) = "Ok"

Idle(w) == phase[w] \in {"off", "failed"}

\* The next page of the initial replay, at revision rev.
replay_page(w, rev) ==
    LET C == list_at(rows, prefix[w], rev)
        page == PageOf(C, pageAfter[w], Page)
    IN  /\ pending' = [pending EXCEPT ![w] = { [row |-> x, previous |-> {}] : x \in page }]
        /\ \/ /\ HasMore(C, pageAfter[w], Page)
              /\ \E last \in page :
                    /\ \A y \in page : y.key <= last.key
                    /\ pageAfter' = [pageAfter EXCEPT ![w] = last.key]
              /\ UNCHANGED phase
           \/ /\ ~HasMore(C, pageAfter[w], Page)
              /\ phase' = [phase EXCEPT ![w] = "replayed"]
              /\ UNCHANGED pageAfter

\* A replayed object reaches the client, in key order.
deliver_object(w) ==
    \E e \in pending[w] :
        /\ \A f \in pending[w] : e.row.key <= f.row.key
        /\ pending' = [pending EXCEPT ![w] = @ \ {e}]
        /\ view' = [view EXCEPT ![w] = @ \cup {e.row}]

\* Fault: a full batch is taken to have reached the head.
next_cursor_head(w, C, current) == cursor' = [cursor EXCEPT ![w] = current]

\* Fault: a full batch leaves the cursor where it was.
next_cursor_stuck(w, C, current) ==
    cursor' = [cursor EXCEPT ![w] = IF Cardinality(C) >= Batch THEN @ ELSE current]

\* The cursor after a poll that found the rows C: a full batch stops at its
\* last event, a partial one has reached the head.
next_cursor(w, C, current) ==
    \/ /\ Cardinality(C) >= Batch
       /\ \E last \in FirstByRevision(C, Batch) :
            /\ \A y \in FirstByRevision(C, Batch) : y.revision <= last.revision
            /\ cursor' = [cursor EXCEPT ![w] = last.revision]
    \/ /\ Cardinality(C) < Batch
       /\ cursor' = [cursor EXCEPT ![w] = current]

\* One batch of changes, when the head was read as current.  The cursor is
\* next read after the batch is yielded, so it may move here.
next_batch(w, current) ==
    LET C == changed_rows(rows, prefix[w], cursor[w])
    IN  /\ pending' = [pending EXCEPT ![w] =
                         { EventOf(rows, x) : x \in FirstByRevision(C, Batch) }]
        /\ next_cursor(w, C, current)

\* A change reaches the client, in revision order, and its cache applies it.
deliver_change(w) ==
    \E e \in pending[w] :
        /\ \A f \in pending[w] : e.row.revision <= f.row.revision
        /\ pending' = [pending EXCEPT ![w] = @ \ {e}]
        /\ view' = [view EXCEPT ![w] =
                      { x \in @ : x.key # e.row.key }
                        \cup (IF e.row.kind = "Deleted" THEN {} ELSE {e.row})]
        /\ seen' = [seen EXCEPT ![w] = e.row.revision]

-----------------------------------------------------------------------------
(* Properties of both.                                                     *)

\* Compaction never changes what a reader may see: at every revision from the
\* floor to the head, LIST over the retained rows is LIST over the full
\* history (compact, "Retain each key's baseline at the floor").
SnapshotsSurviveCompaction ==
    \A r \in floor..revision : list_at(rows, Keys, r) = list_at(hist, Keys, r)

\* A cache built from LIST pages or the initial replay, and the events after
\* it, is exactly the registry as it was at the revision the client would
\* resume from: nothing lost, nothing repeated out of order, no torn pages,
\* whatever was written, compacted, cut off or resumed in between.  And the
\* previous version an event carries, with which selector watches decide, is
\* the version it replaced, even one that lies behind the compaction floor.
CacheIsASnapshot ==
    \A w \in Watchers :
        /\ phase[w] \in {"anchored", "live"} \/ seen[w] > 0 =>
              view[w] = list_at(hist, prefix[w], seen[w])
        /\ phase[w] = "live" => \A e \in pending[w] : e.previous = previous(hist, e.row)

\* The object a client holds is a version that was really committed, with its
\* own value: mutate returns "Assigned by storage on mutation" revisions.
HeldIsCommitted ==
    \A cl \in Clients : \A o \in held[cl] :
        \E x \in hist : x.kind # "Deleted" /\ ObjectOf(x) = o

-----------------------------------------------------------------------------
(* The contract of the Storage trait: the snapshot of a revision is the    *)
(* result of a LIST at that revision over the rows in the database.        *)

Contract == INSTANCE StoreContract WITH
    snapshot <- [r \in floor..revision |->
                    { ObjectOf(x) : x \in list_at(rows, Keys, r) }]

\* Every step of the backend is a step of the contract or changes nothing a
\* caller can read: a mutation changes one key and adds one revision, and
\* compaction only forgets snapshots below the new floor.
ImplementsContract == Contract!Spec

=============================================================================
