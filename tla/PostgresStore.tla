--------------------------- MODULE PostgresStore ---------------------------
(***************************************************************************)
(* PostgresStore (h3s-storage/src/postgres.rs): the registry several       *)
(* servers may share.                                                      *)
(*                                                                         *)
(* A transaction runs at the server default, READ COMMITTED: each          *)
(* statement sees what was committed when it started.  So an operation is  *)
(* one step per statement whose result later statements depend on.  Two    *)
(* groups of statements are one step, because nobody can see between them: *)
(* mutate's UPDATE of the meta row holds the row lock until its commit,    *)
(* and compact's DELETE and UPDATE become visible together at the commit.  *)
(*                                                                         *)
(* Within one server the client mutex is held for a whole operation:       *)
(* op[s] is the operation in progress on server s, {} when it is free.     *)
(***************************************************************************)
EXTENDS VersionedStore

CONSTANTS
    Servers,       \* h3s servers sharing the database
    EmptyWatch     \* whether a watch may start on an empty registry

ASSUME EmptyWatchAssumption == EmptyWatch \in BOOLEAN

VARIABLES
    op,            \* op[s]: statements still to run on s
    target,        \* target[s]: the revision maintain will compact to, or {}
    on,            \* on[w]: the server running the stream
    anchor,        \* the revision the stream replays at
    snapshotAt     \* the revision its first page was read at

streamVars == <<on, anchor, snapshotAt, watchVars>>
pgVars == <<dbVars, held, op, target, streamVars>>

Operation ==
    [kind : {"mutate"}, client : Clients, row : Row(Keys, Values)]
      \cup [kind : {"compact"}, rev : Nat]
      \cup [kind : {"list"}, watcher : Watchers, rev : Nat]
      \cup [kind : {"changes"}, watcher : Watchers, current : Nat]

\* Every variable has its type, and a server runs one operation at a time.
PgTypeOK ==
    /\ StoreTypeOK
    /\ op \in [Servers -> SUBSET Operation]
    /\ \A s \in Servers : \A o \in op[s] : op[s] = {o}
    /\ target \in [Servers -> SUBSET Nat]
    /\ on \in [Watchers -> Servers]
    /\ anchor \in [Watchers -> Nat]
    /\ snapshotAt \in [Watchers -> Nat]

PgInit ==
    /\ StoreInit
    /\ op = [s \in Servers |-> {}]
    /\ target = [s \in Servers |-> {}]
    /\ on \in [Watchers -> Servers]
    /\ anchor = [w \in Watchers |-> 0]
    /\ snapshotAt = [w \in Watchers |-> 0]

PgFree(s) == op[s] = {}

Start(s, o) == PgFree(s) /\ op' = [op EXCEPT ![s] = {o}]

\* A client waits for its reply before its next request.
PgWaiting(cl) == \E s \in Servers : \E o \in op[s] : o.kind = "mutate" /\ o.client = cl

Finish(s) == op' = [op EXCEPT ![s] = {}]

-----------------------------------------------------------------------------
(* Reads and mutations.                                                    *)

PgGet(cl, s, k) ==
    /\ PgFree(s) /\ ~PgWaiting(cl)
    /\ held' = [held EXCEPT ![cl] = { ObjectOf(x) : x \in get_current(rows, k) }]
    /\ UNCHANGED <<dbVars, op, target, streamVars>>

\* mutate up to its compare: a plain SELECT of the current row, no lock.  The
\* row's revision is assigned later; 1 is a placeholder.
mutate_compare(cl, s, k, v, expected, delete) ==
    /\ revision < MaxRevision /\ ~PgWaiting(cl)
    /\ cas_holds(k, expected)
    /\ Start(s, [kind |-> "mutate", client |-> cl,
                 row |-> [key |-> k, revision |-> 1, value |-> v,
                          kind |-> IF delete THEN "Deleted"
                                   ELSE IF expected # 0 THEN "Modified" ELSE "Added"]])
    /\ UNCHANGED <<dbVars, held, target, streamVars>>

PgCreate(cl, s, k, v) == mutate_compare(cl, s, k, v, 0, FALSE)

PgUpdate(cl, s, v) ==
    \E o \in held[cl] : mutate_compare(cl, s, o.key, v, o.revision, FALSE)

PgDelete(cl, s) ==
    \E o \in held[cl] : \E old \in get_current(rows, o.key) :
        mutate_compare(cl, s, o.key, old.value, o.revision, TRUE)

PgRefused(cl, s) ==
    /\ PgFree(s) /\ ~PgWaiting(cl)
    /\ \E o \in held[cl] : ~cas_holds(o.key, o.revision)
    /\ held' = [held EXCEPT ![cl] = {}]
    /\ UNCHANGED <<dbVars, op, target, streamVars>>

\* mutate from its UPDATE of the meta row to its commit and reply.
mutate_set(s) ==
    /\ revision < MaxRevision
    /\ \E o \in op[s] :
         /\ o.kind = "mutate"
         /\ LET x == [o.row EXCEPT !.revision = revision + 1]
            IN  /\ insert(x)
                /\ held' = [held EXCEPT ![o.client] =
                              IF x.kind = "Deleted" THEN {} ELSE {ObjectOf(x)}]
    /\ Finish(s)
    /\ UNCHANGED <<floor, target, streamVars>>

-----------------------------------------------------------------------------
(* Maintenance and compaction.                                             *)

PgMaintainHead(s) ==
    /\ PgFree(s) /\ target[s] = {}
    /\ target' = [target EXCEPT ![s] = maintenance_revision(revision, floor, Window)]
    /\ UNCHANGED <<dbVars, held, op, streamVars>>

\* compact's head statement and its early returns.
compact_check(s) ==
    /\ \E rev \in target[s] :
          IF rev <= revision /\ rev > floor
          THEN Start(s, [kind |-> "compact", rev |-> rev])
          ELSE PgFree(s) /\ UNCHANGED op
    /\ target' = [target EXCEPT ![s] = {}]
    /\ UNCHANGED <<dbVars, held, streamVars>>

compact_apply(s) ==
    /\ \E o \in op[s] : o.kind = "compact" /\ discard(o.rev)
    /\ Finish(s)
    /\ UNCHANGED <<revision, hist, held, target, streamVars>>

-----------------------------------------------------------------------------
(* Watch.                                                                  *)

PgFail(w) ==
    /\ phase' = [phase EXCEPT ![w] = "failed"]
    /\ UNCHANGED <<dbVars, held, op, target, on, prefix, anchor, cursor,
                   snapshotAt, pageAfter, pending, view, seen>>

PgWatchStart(w, s, P) ==
    /\ PgFree(s) /\ Idle(w)
    /\ revision > 0 \/ EmptyWatch
    /\ on' = [on EXCEPT ![w] = s]
    /\ prefix' = [prefix EXCEPT ![w] = P]
    /\ anchor' = [anchor EXCEPT ![w] = revision]
    /\ cursor' = [cursor EXCEPT ![w] = revision]
    /\ phase' = [phase EXCEPT ![w] = "initial"]
    /\ snapshotAt' = [snapshotAt EXCEPT ![w] = 0]
    /\ pageAfter' = [pageAfter EXCEPT ![w] = 0]
    /\ view' = [view EXCEPT ![w] = {}]
    /\ seen' = [seen EXCEPT ![w] = 0]
    /\ UNCHANGED <<dbVars, held, op, target, pending>>

PgWatchResume(w, s) ==
    /\ PgFree(s) /\ phase[w] = "off" /\ seen[w] > 0
    /\ \/ /\ Valid(seen[w])
          /\ on' = [on EXCEPT ![w] = s]
          /\ phase' = [phase EXCEPT ![w] = "live"]
          /\ cursor' = [cursor EXCEPT ![w] = seen[w]]
          /\ UNCHANGED <<dbVars, held, op, target, prefix, anchor, snapshotAt,
                         pageAfter, pending, view, seen>>
       \/ ~Valid(seen[w]) /\ PgFail(w)

\* Fault: every replay page is read at the current revision.
list_head_current(w) ==
    /\ phase[w] = "initial" /\ pending[w] = {} /\ PgFree(on[w])
    /\ Start(on[w], [kind |-> "list", watcher |-> w, rev |-> revision])
    /\ UNCHANGED <<dbVars, held, target, streamVars>>

\* list's head statement.  A revision of 0 selects the current one, also
\* when it is the watch's anchor.
list_head(w) ==
    LET rev == IF anchor[w] = 0 THEN revision ELSE anchor[w]
    IN  /\ phase[w] = "initial" /\ pending[w] = {} /\ PgFree(on[w])
        /\ \/ /\ Valid(rev)
              /\ Start(on[w], [kind |-> "list", watcher |-> w, rev |-> rev])
              /\ UNCHANGED <<dbVars, held, target, streamVars>>
           \/ ~Valid(rev) /\ PgFail(w)

\* list's page statement.
list_rows(s) ==
    \E o \in op[s] :
        LET w == o.watcher
        IN  /\ o.kind = "list"
            /\ replay_page(w, o.rev)
            /\ snapshotAt' = [snapshotAt EXCEPT ![w] = IF @ = 0 THEN o.rev ELSE @]
            /\ Finish(s)
            /\ UNCHANGED <<dbVars, held, target, on, prefix, anchor, cursor, view, seen>>

PgYieldReplay(w) ==
    /\ phase[w] \in {"initial", "replayed"}
    /\ deliver_object(w)
    /\ UNCHANGED <<dbVars, held, op, target, on, phase, prefix, anchor, cursor,
                   snapshotAt, pageAfter, seen>>

\* The bookmark after the replay names the first page's revision; the cursor
\* stays at the anchor.
PgYieldAnchor(w) ==
    /\ phase[w] = "replayed" /\ pending[w] = {}
    /\ seen' = [seen EXCEPT ![w] = snapshotAt[w]]
    /\ phase' = [phase EXCEPT ![w] = "anchored"]
    /\ UNCHANGED <<dbVars, held, op, target, on, prefix, anchor, cursor,
                   snapshotAt, pageAfter, pending, view>>

\* changes: the head statement (a bookmark is due only after a first poll) ...
changes_head(w) ==
    /\ phase[w] \in {"anchored", "live"} /\ pending[w] = {} /\ PgFree(on[w])
    /\ \/ /\ Valid(cursor[w])
          /\ Start(on[w], [kind |-> "changes", watcher |-> w, current |-> revision])
          /\ UNCHANGED <<dbVars, held, target, streamVars>>
       \/ ~Valid(cursor[w]) /\ PgFail(w)

\* ... and the rows statement, which sees what was committed since.
changes_rows(s) ==
    \E o \in op[s] :
        LET w == o.watcher
        IN  /\ o.kind = "changes"
            /\ next_batch(w, o.current)
            /\ phase' = [phase EXCEPT ![w] = "live"]
            /\ Finish(s)
            /\ UNCHANGED <<dbVars, held, target, on, prefix, anchor,
                           snapshotAt, pageAfter, view, seen>>

PgYieldEvent(w) ==
    /\ phase[w] = "live"
    /\ deliver_change(w)
    /\ UNCHANGED <<dbVars, held, op, target, on, phase, prefix, anchor, cursor,
                   snapshotAt, pageAfter>>

PgYieldBookmark(w) ==
    /\ phase[w] = "live" /\ pending[w] = {} /\ PgFree(on[w]) /\ seen[w] # cursor[w]
    /\ seen' = [seen EXCEPT ![w] = cursor[w]]
    /\ UNCHANGED <<dbVars, held, op, target, on, phase, prefix, anchor, cursor,
                   snapshotAt, pageAfter, pending, view>>

\* The client goes away; a statement of its stream still running is abandoned
\* with its transaction, and the mutex is released.
PgDisconnect(w) ==
    /\ ~Idle(w)
    /\ phase' = [phase EXCEPT ![w] = "off"]
    /\ pending' = [pending EXCEPT ![w] = {}]
    /\ op' = [s \in Servers |->
                { o \in op[s] : o.kind \in {"list", "changes"} => o.watcher # w }]
    /\ UNCHANGED <<dbVars, held, target, on, prefix, anchor, cursor, snapshotAt,
                   pageAfter, view, seen>>

\* A server dies: its open transaction rolls back and its streams end.  Its
\* clients and watchers carry on through another server.
ServerCrash(s) ==
    /\ op' = [op EXCEPT ![s] = {}]
    /\ target' = [target EXCEPT ![s] = {}]
    /\ phase' = [w \in Watchers |->
                    IF on[w] = s /\ ~Idle(w) THEN "off" ELSE phase[w]]
    /\ pending' = [w \in Watchers |-> IF on[w] = s THEN {} ELSE pending[w]]
    /\ UNCHANGED <<dbVars, held, on, prefix, anchor, cursor, snapshotAt, pageAfter, view, seen>>

-----------------------------------------------------------------------------
PgClientNext(cl, s) ==
    \/ \E k \in Keys : PgGet(cl, s, k)
    \/ \E k \in Keys, v \in Values : PgCreate(cl, s, k, v)
    \/ \E v \in Values : PgUpdate(cl, s, v)
    \/ PgDelete(cl, s)
    \/ PgRefused(cl, s)

ServerNext(s) ==
    \/ mutate_set(s)
    \/ PgMaintainHead(s) \/ compact_check(s) \/ compact_apply(s)
    \/ list_rows(s) \/ changes_rows(s)
    \/ ServerCrash(s)

WatchNext(w) ==
    \/ \E s \in Servers, P \in Prefixes : PgWatchStart(w, s, P)
    \/ \E s \in Servers : PgWatchResume(w, s)
    \/ list_head(w) \/ changes_head(w)
    \/ PgYieldReplay(w) \/ PgYieldAnchor(w) \/ PgYieldEvent(w) \/ PgYieldBookmark(w)
    \/ PgDisconnect(w)

PgNext ==
    \/ \E cl \in Clients, s \in Servers : PgClientNext(cl, s)
    \/ \E s \in Servers : ServerNext(s)
    \/ \E w \in Watchers : WatchNext(w)

PgSpec == PgInit /\ [][PgNext]_pgVars

-----------------------------------------------------------------------------
(* Properties.                                                             *)

\* At every revision validate_revision accepts, LIST returns the snapshot of
\* that revision, and maintenance leaves the last Window revisions readable.
HistoryIsKept ==
    PgTypeOK /\ SnapshotsSurviveCompaction /\ (floor = 0 \/ revision - floor >= Window)

\* An update or a delete that commits replaces precisely the version its
\* client had read.
PgNoLostUpdate ==
    [][\A x \in hist' \ hist :
          \E s \in Servers : \E o \in op[s] :
             /\ o.kind = "mutate" /\ o.row.key = x.key
             /\ { ObjectOf(y) : y \in get_current(rows, x.key) } \subseteq held[o.client]]_pgVars

\* A stream reports each revision once and in order.
DeliveryIsMonotonic ==
    [][\A w \in Watchers : phase[w] = "live" =>
          /\ seen'[w] >= seen[w]
          /\ phase'[w] = "live" =>
               \A e \in pending[w] \ pending'[w] : e.row.revision > seen[w]]_pgVars

=============================================================================
