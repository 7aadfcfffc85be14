---------------------------- MODULE SqliteStore ----------------------------
(***************************************************************************)
(* SqliteStore (h3s-storage/src/sqlite.rs): the default registry backend.  *)
(*                                                                         *)
(* A transaction is one step: SQLite serializes them.  What is NOT atomic  *)
(* in the code is several steps here: mutate's read-back after its commit, *)
(* maintain's head read and its compaction, a watch's anchor, its replay   *)
(* pages and its polls, and the delivery of each event to the client.      *)
(*                                                                         *)
(* A connection's mutex is held for one closure of `run'.  Only mutate's   *)
(* closure has two steps, so the mutex of c is held iff busy[c] # {}.      *)
(***************************************************************************)
EXTENDS VersionedStore

CONSTANT Conns     \* connections open on the file, each behind its own mutex

VARIABLES
    busy,          \* busy[c]: the mutation committed but not read back, or {}
    compactTo      \* the target maintain computed and has not yet applied

procVars == <<held, busy, compactTo>>
vars == <<dbVars, procVars, watchVars>>

\* A mutation between its commit and its reply.  Its revision is the one it
\* committed, which the code lets go of and reads again.
Mutation == [client : Clients, key : Keys, value : Values, delete : BOOLEAN,
             revision : Nat]

\* Every variable has its type.
TypeOK ==
    /\ StoreTypeOK
    /\ busy \in [Conns -> SUBSET Mutation]
    /\ compactTo \in SUBSET Nat

\* open, on a file that is not there yet.
Init ==
    /\ StoreInit
    /\ busy = [c \in Conns |-> {}]
    /\ compactTo = {}

-----------------------------------------------------------------------------
(* Reads and mutations.                                                    *)

\* Fault: the mutex is released with the commit, before the read-back.
Free_released(c) == TRUE

Free(c) == busy[c] = {}

\* A client waits for its reply before its next request.
Waiting(cl) == \E c \in Conns : \E m \in busy[c] : m.client = cl

Get(cl, c, k) ==
    /\ Free(c) /\ ~Waiting(cl)
    /\ held' = [held EXCEPT ![cl] = { ObjectOf(x) : x \in get_current(rows, k) }]
    /\ UNCHANGED <<dbVars, busy, compactTo, watchVars>>

\* The kind of a mutation, and the payload its row keeps.
kind_of(k, delete) ==
    IF delete THEN "Deleted"
    ELSE IF get_current(rows, k) # {} THEN "Modified" ELSE "Added"

\* The transaction of mutate, up to its commit.
mutate(cl, c, k, v, expected, delete) ==
    /\ Free(c) /\ ~Waiting(cl)
    /\ revision < MaxRevision
    /\ cas_holds(k, expected)
    /\ insert([key |-> k, revision |-> revision + 1, value |-> v,
               kind |-> kind_of(k, delete)])
    /\ busy' = [busy EXCEPT ![c] = @ \cup
                  {[client |-> cl, key |-> k, value |-> v, delete |-> delete,
                    revision |-> revision + 1]}]
    /\ UNCHANGED <<floor, held, compactTo, watchVars>>

Create(cl, c, k, v) == mutate(cl, c, k, v, 0, FALSE)

\* Read-modify-write: the expected revision is the one the client holds.
Update(cl, c, v) ==
    \E o \in held[cl] : mutate(cl, c, o.key, v, o.revision, FALSE)

\* The tombstone keeps the payload of the version it removes.
Delete(cl, c) ==
    \E o \in held[cl] : \E old \in get_current(rows, o.key) :
        mutate(cl, c, o.key, old.value, o.revision, TRUE)

\* NotFound or Conflict: nothing is written, the client has to read again.
Refused(cl, c) ==
    /\ Free(c) /\ ~Waiting(cl)
    /\ \E o \in held[cl] : ~cas_holds(o.key, o.revision)
    /\ held' = [held EXCEPT ![cl] = {}]
    /\ UNCHANGED <<dbVars, busy, compactTo, watchVars>>

\* After the commit, and outside its transaction, mutate selects the newest
\* revision of the key and returns it with the value it wrote.  A delete's
\* reply carries no object.
ReadBack(c) ==
    \E m \in busy[c] :
         /\ \E x \in { y \in rows : y.key = m.key
                      /\ \A z \in rows : z.key = m.key => z.revision <= y.revision } :
            held' = [held EXCEPT ![m.client] =
                       IF m.delete THEN {}
                       ELSE {[key |-> m.key, revision |-> x.revision, value |-> m.value]}]
         /\ busy' = [busy EXCEPT ![c] = @ \ {m}]
         /\ UNCHANGED <<dbVars, compactTo, watchVars>>

-----------------------------------------------------------------------------
(* Maintenance and compaction.                                             *)

\* compact's transaction; a revision at or below the floor is a no-op, one
\* above the head is refused.
compact(rev) ==
    IF rev <= revision /\ rev > floor
    THEN discard(rev) /\ UNCHANGED <<revision, hist>>
    ELSE UNCHANGED dbVars

Compact(c) ==
    /\ Free(c)
    /\ \E rev \in floor+1 .. revision : compact(rev)
    /\ UNCHANGED <<procVars, watchVars>>

\* maintain's first closure reads the head; its second one compacts.
MaintainHead(c) ==
    /\ Free(c) /\ compactTo = {}
    /\ compactTo' = maintenance_revision(revision, floor, Window)
    /\ UNCHANGED <<dbVars, held, busy, watchVars>>

MaintainCompact(c) ==
    /\ Free(c)
    /\ \E rev \in compactTo : compact(rev)
    /\ compactTo' = {}
    /\ UNCHANGED <<held, busy, watchVars>>

-----------------------------------------------------------------------------
(* LIST and watch.                                                         *)

\* One page of a LIST at revision rev into the cache of w.  The last page's
\* revision is where the client's watch will resume.
list(w, P, rev, after, base) ==
    LET C == list_at(rows, P, rev)
        page == PageOf(C, after, Page)
    IN  /\ prefix' = [prefix EXCEPT ![w] = P]
        /\ cursor' = [cursor EXCEPT ![w] = rev]
        /\ view' = [view EXCEPT ![w] = base \cup page]
        /\ \/ /\ HasMore(C, after, Page)
              /\ \E last \in page :
                    /\ \A y \in page : y.key <= last.key
                    /\ pageAfter' = [pageAfter EXCEPT ![w] = last.key]
              /\ phase' = [phase EXCEPT ![w] = "listing"]
              /\ seen' = [seen EXCEPT ![w] = 0]
           \/ /\ ~HasMore(C, after, Page)
              /\ pageAfter' = [pageAfter EXCEPT ![w] = 0]
              /\ phase' = [phase EXCEPT ![w] = "off"]
              /\ seen' = [seen EXCEPT ![w] = rev]
        /\ UNCHANGED <<dbVars, procVars, pending>>

\* A revision below the floor ends the LIST or the stream with Compacted.
Fail(w) ==
    /\ phase' = [phase EXCEPT ![w] = "failed"]
    /\ UNCHANGED <<dbVars, procVars, prefix, cursor, pageAfter, pending, view, seen>>

\* LIST without a revision reads the current snapshot ...
ListStart(w, c, P) ==
    /\ Free(c) /\ Idle(w)
    /\ list(w, P, revision, 0, {})

\* ... and its continuations reuse the first page's revision.
ListContinue(w, c) ==
    /\ Free(c) /\ phase[w] = "listing"
    /\ \/ Valid(cursor[w]) /\ list(w, prefix[w], cursor[w], pageAfter[w], view[w])
       \/ ~Valid(cursor[w]) /\ Fail(w)

\* watch without a revision: the anchor is the head.  An anchor of 0 has
\* nothing to replay.
WatchStart(w, c, P) ==
    /\ Free(c) /\ Idle(w)
    /\ prefix' = [prefix EXCEPT ![w] = P]
    /\ cursor' = [cursor EXCEPT ![w] = revision]
    /\ phase' = [phase EXCEPT ![w] = IF revision > 0 THEN "initial" ELSE "replayed"]
    /\ pageAfter' = [pageAfter EXCEPT ![w] = 0]
    /\ view' = [view EXCEPT ![w] = {}]
    /\ seen' = [seen EXCEPT ![w] = 0]
    /\ UNCHANGED <<dbVars, procVars, pending>>

\* watch after a revision the client obtained earlier.
WatchResume(w, c) ==
    /\ Free(c) /\ phase[w] = "off" /\ seen[w] > 0
    /\ \/ /\ Valid(seen[w])
          /\ phase' = [phase EXCEPT ![w] = "live"]
          /\ cursor' = [cursor EXCEPT ![w] = seen[w]]
          /\ UNCHANGED <<dbVars, procVars, prefix, pageAfter, pending, view, seen>>
       \/ ~Valid(seen[w]) /\ Fail(w)

\* The next page of the initial replay, at the anchor.
ReplayPage(w, c) ==
    /\ Free(c) /\ phase[w] = "initial" /\ pending[w] = {}
    /\ \/ /\ Valid(cursor[w])
          /\ replay_page(w, cursor[w])
          /\ UNCHANGED <<dbVars, procVars, prefix, cursor, view, seen>>
       \/ ~Valid(cursor[w]) /\ Fail(w)

YieldReplay(w) ==
    /\ phase[w] \in {"initial", "replayed"}
    /\ deliver_object(w)
    /\ UNCHANGED <<dbVars, procVars, phase, prefix, cursor, pageAfter, seen>>

\* The bookmark that ends the replay.
YieldAnchor(w) ==
    /\ phase[w] = "replayed" /\ pending[w] = {}
    /\ seen' = [seen EXCEPT ![w] = cursor[w]]
    /\ phase' = [phase EXCEPT ![w] = "live"]
    /\ UNCHANGED <<dbVars, procVars, prefix, cursor, pageAfter, pending, view>>

\* One round of the watch loop: the changes query.
Poll(w, c) ==
    /\ Free(c) /\ phase[w] = "live" /\ pending[w] = {}
    /\ \/ /\ Valid(cursor[w])
          /\ next_batch(w, revision)
          /\ UNCHANGED <<dbVars, procVars, phase, prefix, pageAfter, view, seen>>
       \/ ~Valid(cursor[w]) /\ Fail(w)

YieldEvent(w) ==
    /\ phase[w] = "live"
    /\ deliver_change(w)
    /\ UNCHANGED <<dbVars, procVars, phase, prefix, cursor, pageAfter>>

\* A periodic bookmark, sent between batches once its interval has elapsed.
YieldBookmark(w) ==
    /\ phase[w] = "live" /\ pending[w] = {} /\ seen[w] < cursor[w]
    /\ seen' = [seen EXCEPT ![w] = cursor[w]]
    /\ UNCHANGED <<dbVars, procVars, phase, prefix, cursor, pageAfter, pending, view>>

\* The client goes away in the middle of anything; undelivered events are
\* dropped with the stream.
Disconnect(w) ==
    /\ ~Idle(w)
    /\ phase' = [phase EXCEPT ![w] = "off"]
    /\ pending' = [pending EXCEPT ![w] = {}]
    /\ UNCHANGED <<dbVars, procVars, prefix, cursor, pageAfter, view, seen>>

\* The server stops and opens the file again: committed transactions stay
\* (WAL, synchronous=FULL), every connection, stream and reply is gone.
Restart ==
    /\ busy' = [c \in Conns |-> {}]
    /\ held' = [cl \in Clients |-> {}]
    /\ compactTo' = {}
    /\ phase' = [w \in Watchers |-> IF Idle(w) THEN phase[w] ELSE "off"]
    /\ pending' = [w \in Watchers |-> {}]
    /\ UNCHANGED <<dbVars, prefix, cursor, pageAfter, view, seen>>

-----------------------------------------------------------------------------
ClientNext(cl, c) ==
    \/ \E k \in Keys : Get(cl, c, k)
    \/ \E k \in Keys, v \in Values : Create(cl, c, k, v)
    \/ \E v \in Values : Update(cl, c, v)
    \/ Delete(cl, c)
    \/ Refused(cl, c)

StreamStart(w, c) == \E P \in Prefixes : ListStart(w, c, P) \/ WatchStart(w, c, P)

StreamRead(w, c) == ListContinue(w, c) \/ ReplayPage(w, c) \/ Poll(w, c)

StreamYield(w) == YieldReplay(w) \/ YieldAnchor(w) \/ YieldEvent(w) \/ YieldBookmark(w)

Next ==
    \/ \E cl \in Clients, c \in Conns : ClientNext(cl, c)
    \/ \E c \in Conns : ReadBack(c)
    \/ \E c \in Conns : Compact(c) \/ MaintainHead(c) \/ MaintainCompact(c)
    \/ \E w \in Watchers, c \in Conns :
          StreamStart(w, c) \/ WatchResume(w, c) \/ StreamRead(w, c)
    \/ \E w \in Watchers : StreamYield(w) \/ Disconnect(w)
    \/ Restart

Spec == Init /\ [][Next]_vars

\* The blocking worker finishes its closure, and a stream whose client keeps
\* polling it is run by the executor.
Fairness ==
    /\ \A c \in Conns : WF_vars(ReadBack(c))
    /\ \A w \in Watchers :
         /\ WF_vars(\E c \in Conns : StreamRead(w, c))
         /\ WF_vars(StreamYield(w))

FairSpec == Spec /\ Fairness

-----------------------------------------------------------------------------
(* Properties.                                                             *)

\* Optimistic concurrency, over a whole read-modify-write: what a commit
\* replaces is the version its client was told of, and what a client is told
\* of its own write is that write.  mutate selects the newest revision of the
\* key after its commit, outside the transaction: were the mutex free by then,
\* a second client's write could be selected, its revision would go out with
\* the first one's payload, and the next update under it would pass the
\* comparison and overwrite a version nobody had read.
NoLostUpdate ==
    [][\A c \in Conns :
          /\ \A m \in busy'[c] \ busy[c] :
                { ObjectOf(x) : x \in get_current(rows, m.key) } \subseteq held[m.client]
          /\ \A m \in busy[c] \ busy'[c] :
                held'[m.client] \subseteq
                   {[key |-> m.key, revision |-> m.revision, value |-> m.value]}]_vars

\* A floor that maintenance raises leaves the last Window revisions readable,
\* although it compacts with a head it read in an earlier closure and whoever
\* writes or compacts in between.
WindowIsKept ==
    [][floor' # floor /\ compactTo # {} /\ compactTo' = {} => revision' - floor' >= Window]_vars

\* A committed change reaches every live stream that selects it, unless the
\* stream is ended by its client or fails explicitly with Compacted: it is
\* never skipped silently.
ChangesAreDelivered ==
    \A w \in Watchers : \A r \in 1..MaxRevision :
        (phase[w] = "live" /\ \E x \in hist : x.revision = r /\ x.key \in prefix[w])
          ~> (seen[w] >= r \/ Idle(w))

=============================================================================
