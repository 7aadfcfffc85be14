------------------------------ MODULE Registry ------------------------------
(***************************************************************************)
(* The multi-version registry shared by both storage backends: the table   *)
(* registry_versions as a set of rows, and the queries that                *)
(* h3s-storage/src/sqlite.rs and postgres.rs run over it, as operators.    *)
(*                                                                         *)
(* Keys are positive integers: only their order matters (LIST pages are    *)
(* ORDER BY key) and 0 stands for the empty start_after.  A key prefix is  *)
(* a set of keys.  Revision 0 is the empty registry, and `None' where the  *)
(* code takes an Option<ResourceVersion> and filters out 0.                *)
(***************************************************************************)
EXTENDS Integers, FiniteSets

\* The kind column: 0, 1, 2 in the table (kind_number).
EventKind == {"Added", "Modified", "Deleted"}

Row(Keys, Values) ==
    [key : Keys, revision : Nat \ {0}, value : Values, kind : EventKind]

StoredObject(Keys, Values) == [key : Keys, revision : Nat \ {0}, value : Values]

ObjectOf(x) == [key |-> x.key, revision |-> x.revision, value |-> x.value]

\* x is its key's newest row among those of S with a revision up to r.
IsNewest(S, x, r) ==
    /\ x \in S
    /\ x.revision <= r
    /\ \A y \in S : y.key = x.key /\ y.revision <= r => y.revision <= x.revision

\* The live row of key k, as a set of at most one element: newest row of the
\* key, unless that row is a tombstone.
get_current(S, k) ==
    { x \in S : /\ x.key = k
                /\ x.kind # "Deleted"
                /\ \A y \in S : y.key = k => y.revision <= x.revision }

\* The live rows of the keys in P, as of revision r (the LIST query).
list_at(S, P, r) ==
    { x \in S : x.key \in P /\ x.kind # "Deleted" /\ IsNewest(S, x, r) }

\* ORDER BY key LIMIT n, past the continuation key.
PageOf(C, after, n) ==
    { x \in C : /\ x.key > after
                /\ Cardinality({ y \in C : after < y.key /\ y.key < x.key }) < n }

HasMore(C, after, n) == Cardinality({ x \in C : x.key > after }) > n

\* The rows of prefix P above revision r, which the changes query selects.
changed_rows(S, P, r) == { x \in S : x.key \in P /\ x.revision > r }

\* ORDER BY revision LIMIT n.
FirstByRevision(C, n) ==
    { x \in C : Cardinality({ y \in C : y.revision < x.revision }) < n }

\* The LEFT JOIN of the changes query: the live version an event replaced.
previous(S, x) ==
    { p \in S : /\ p.key = x.key
                /\ p.revision < x.revision
                /\ p.kind # "Deleted"
                /\ \A q \in S : q.key = x.key /\ q.revision < x.revision
                                  => q.revision <= p.revision }

\* A watch event: the row and the version it replaced.
EventOf(S, x) == [row |-> x, previous |-> previous(S, x)]

validate_revision(rev, current, floor) ==
    IF rev < floor THEN "Compacted"
    ELSE IF rev > current THEN "FutureRevision"
    ELSE "Ok"

\* Fault: compaction deletes every row below the floor.
retained_no_baseline(S, rev) == { x \in S : x.revision >= rev }

\* The rows the compaction's DELETE leaves: each key's baseline at the floor,
\* plus everything newer.
retained(S, rev) == { x \in S : x.revision >= rev \/ IsNewest(S, x, rev) }

\* Fault: the subtraction is not checked.
maintenance_revision_unchecked(current, floor, window) ==
    { t \in {current - window} : t < current }

\* Fault: off by one, up to the head.
maintenance_revision_short(current, floor, window) ==
    { t \in {current - window + 1} : t >= 0 /\ t > floor /\ t <= current }

\* The revision maintenance compacts to, as a set of at most one element.
maintenance_revision(current, floor, window) ==
    { t \in {current - window} : t >= 0 /\ t > floor /\ t < current }

=============================================================================
