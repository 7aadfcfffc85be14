--------------------------- MODULE StoreContract ---------------------------
(***************************************************************************)
(* What the Storage trait (h3s-storage/src/lib.rs) promises its callers,   *)
(* with no rows, tombstones, transactions or connections: a registry is a  *)
(* window of snapshots, one for each revision from the compaction floor to *)
(* the head.  A mutation adds the next snapshot, which differs from the    *)
(* last one in a single key; compaction forgets the oldest snapshots and   *)
(* changes nothing else.                                                   *)
(***************************************************************************)
EXTENDS Integers

CONSTANTS Keys, Values

VARIABLES revision, floor, snapshot

vars == <<revision, floor, snapshot>>

\* The objects of S, with that of key k replaced by the ones in new.
Replace(S, k, new) == { o \in S : o.key # k } \cup new

Has(k) == \E o \in snapshot[revision] : o.key = k

Init == revision = 0 /\ floor = 0 /\ snapshot = [r \in {0} |-> {}]

Write(k, new) ==
    /\ revision' = revision + 1
    /\ snapshot' = [r \in floor..revision+1 |->
                      IF r <= revision THEN snapshot[r]
                      ELSE Replace(snapshot[revision], k, new)]
    /\ UNCHANGED floor

Object(k, v) == [key |-> k, revision |-> revision + 1, value |-> v]

Create(k, v) == ~Has(k) /\ Write(k, {Object(k, v)})

Update(k, v) == Has(k) /\ Write(k, {Object(k, v)})

Delete(k) == Has(k) /\ Write(k, {})

Compact(rev) ==
    /\ floor < rev /\ rev <= revision
    /\ floor' = rev
    /\ snapshot' = [r \in rev..revision |-> snapshot[r]]
    /\ UNCHANGED revision

Next ==
    \/ \E k \in Keys, v \in Values : Create(k, v) \/ Update(k, v)
    \/ \E k \in Keys : Delete(k)
    \/ \E rev \in floor+1..revision : Compact(rev)

Spec == Init /\ [][Next]_vars

=============================================================================
