------------------------------- MODULE Reads --------------------------------
(***************************************************************************)
(* LIST and WATCH of the API (h3s-apiserver/src/read.rs, selectors.rs) as  *)
(* a client uses them: it pages through a selected list of one revision,   *)
(* or takes the initial events of a watch, follows the watch, and resumes  *)
(* or starts again when the stream ends or history is compacted.           *)
(*                                                                         *)
(* The registry is its history: log[r] is the change of revision r.  An    *)
(* object is the revision of its last change; all that is told apart is    *)
(* its label and whether it is there.                                      *)
(***************************************************************************)
EXTENDS Naturals, FiniteSets, FiniteSetsExt, Sequences

CONSTANTS
    Keys,         \* the keys of one resource, in their order
    Labels,       \* the values of a label; "" is no label
    Requirements, \* the selections a client may ask for: [op, values]
    Limit,        \* items a LIST response returns at most
    Scan,         \* items it looks at at most
    MaxRevision,  \* bound on changes
    MaxEvents     \* bound on ends of streams, compactions and new clients

ASSUME ReadsAssumption ==
    /\ IsFiniteSet(Keys) /\ Keys = 1..Cardinality(Keys)
    /\ {Limit, Scan, MaxRevision} \subseteq Nat \ {0} /\ MaxEvents \in Nat

VARIABLES
    log,        \* the registry's history
    floor,      \* revisions below it can no longer be read
    selection,  \* what the client asks for
    pc,         \* what the client does
    at,         \* the revision of its list, or of its initial events
    cursor,     \* the last key of those that it was given
    pos,        \* the last change its watch stream has read
    seen,       \* the last revision the client knows of
    view,       \* the objects it knows: <<key, revision>>
    events

vars == <<log, floor, selection, pc, at, cursor, pos, seen, view, events>>
client == <<pc, at, cursor, pos, seen, view>>

Now == Len(log)
Change == [key : Keys, label : Labels \cup {"gone"}]

TypeOK ==
    /\ log \in Seq(Change) /\ floor \in 0..Now /\ selection \in Requirements
    /\ pc \in {"start", "listing", "initial", "ended", "watching"}
    /\ {at, pos, seen} \subseteq 0..Now /\ (pc = "watching" => seen <= pos)
    /\ cursor \in Keys \cup {0}
    /\ view \subseteq Keys \X (1..Now)
    /\ \A o, p \in view : o[1] = p[1] => o = p

\* Requirement::matches, of the version of revision r; 0 is no version.
matches(r) ==
    /\ r # 0 /\ log[r].label # "gone"
    /\ LET label == log[r].label
       IN CASE selection.op = "In"     -> label # "" /\ label \in selection.values
            [] selection.op = "NotIn"  -> label \notin selection.values
            [] selection.op = "Exists" -> label # ""
            [] selection.op = "Absent" -> label = ""

\* The registry: the version of a key at a revision, and who is there then.
Version(k, r) == Max({i \in 1..r : log[i].key = k} \cup {0})
Live(r) == {k \in Keys : LET v == Version(k, r) IN v # 0 /\ log[v].label # "gone"}
Retained(r) == r >= floor
Selected(r) == {<<k, Version(k, r)>> : k \in {k \in Keys : matches(Version(k, r))}}

Init ==
    /\ \E label \in [Keys -> Labels] :
          log = [k \in Keys |-> [key |-> k, label |-> label[k]]]
    /\ floor = 0 /\ selection \in Requirements
    /\ pc = "start" /\ at = 0 /\ cursor = 0 /\ pos = 0 /\ seen = 0 /\ view = {}
    /\ events = 0

-----------------------------------------------------------------------------
(* The registry                                                            *)

Put(k, label) ==
    /\ Now < MaxRevision
    /\ label = "gone" => k \in Live(Now)
    /\ log' = Append(log, [key |-> k, label |-> label])
    /\ UNCHANGED <<floor, selection, client, events>>

Compact ==
    /\ events < MaxEvents /\ events' = events + 1
    /\ floor' \in (floor + 1)..Now
    /\ UNCHANGED <<log, selection, client>>

-----------------------------------------------------------------------------
(* LIST                                                                    *)

\* A new list is of the registry as it is, and replaces what was known.
StartList ==
    /\ pc = "start" /\ pc' = "listing"
    /\ at' = Now /\ cursor' = 0 /\ view' = {}
    /\ UNCHANGED <<log, floor, selection, pos, seen, events>>

\* The last key a response goes through, of those that are left: it stops when
\* it has returned, or looked at, as many items as it may.
LastOf(rest) ==
    LET upto(k) == {l \in rest : l <= k}
        returned(k) == {l \in upto(k) : matches(Version(l, at))}
        stops == {k \in rest : \/ Cardinality(returned(k)) >= Limit
                               \/ Cardinality(upto(k)) >= Scan}
    IN Min(stops \cup {Max(rest)})

\* One response; its continue token, if there is more, names the revision and
\* the last key it looked at.  Without a token the list is complete.
ListPage ==
    /\ pc = "listing" /\ Retained(at)
    /\ \E rest \in {{k \in Live(at) : k > cursor}} :
          /\ cursor' = IF rest = {} THEN cursor ELSE LastOf(rest)
          /\ view' = view \cup {o \in Selected(at) : o[1] \in rest /\ o[1] <= cursor'}
          /\ IF \E k \in rest : k > cursor' THEN UNCHANGED <<pc, seen>>
             ELSE pc' = "ended" /\ seen' = at
    /\ UNCHANGED <<log, floor, selection, at, pos, events>>

-----------------------------------------------------------------------------
(* WATCH                                                                   *)

\* A watch from the revision the client knows.
Watch ==
    /\ pc = "ended" /\ Retained(seen)
    /\ pc' = "watching" /\ pos' = seen
    /\ UNCHANGED <<log, floor, selection, at, cursor, seen, view, events>>

\* A watch with sendInitialEvents starts from a fresh snapshot, whatever
\* revision the client names.
WatchInitial ==
    /\ pc = "start" /\ pc' = "initial"
    /\ at' = Now /\ cursor' = 0 /\ view' = {}
    /\ UNCHANGED <<log, floor, selection, pos, seen, events>>

InitialEvent ==
    /\ pc = "initial" /\ Retained(at)
    /\ LET next == {k \in Live(at) : k > cursor}
       IN /\ next # {}
          /\ cursor' = Min(next)
          /\ view' = view \cup {o \in Selected(at) : o[1] = Min(next)}
    /\ UNCHANGED <<log, floor, selection, pc, at, pos, seen, events>>

\* The bookmark that ends the initial events is sent to every client.
InitialEnd ==
    /\ pc = "initial" /\ \A k \in Live(at) : k <= cursor
    /\ pc' = "watching" /\ pos' = at /\ seen' = at
    /\ UNCHANGED <<log, floor, selection, at, cursor, view, events>>

\* What the client makes of an event; one that concerns neither what was nor
\* what is selected is not sent.
Received(key, before, after) ==
    LET others == {o \in view : o[1] # key}
    IN IF ~before /\ ~after THEN view
       ELSE IF after THEN others \cup {<<key, pos + 1>>} ELSE others
\* Fault: an event is sent if its object is selected, whatever it was before.
EventIfSelected ==
    /\ pc = "watching" /\ Retained(pos) /\ pos < Now
    /\ LET after == matches(pos + 1)
       IN /\ view' = IF after THEN Received(log[pos + 1].key, FALSE, TRUE) ELSE view
          /\ seen' = IF after THEN pos + 1 ELSE seen
    /\ pos' = pos + 1
    /\ UNCHANGED <<log, floor, selection, pc, at, cursor, events>>

Event ==
    /\ pc = "watching" /\ Retained(pos) /\ pos < Now
    /\ LET key == log[pos + 1].key
           before == matches(Version(key, pos))
           after == matches(pos + 1)
       IN /\ view' = Received(key, before, after)
          /\ seen' = IF before \/ after THEN pos + 1 ELSE seen
    /\ pos' = pos + 1
    /\ UNCHANGED <<log, floor, selection, pc, at, cursor, events>>

\* A bookmark tells the client how far the stream has read.
Bookmark ==
    /\ pc = "watching" /\ seen' = pos
    /\ UNCHANGED <<log, floor, selection, pc, at, cursor, pos, view, events>>

\* The timeout of the request ends the stream; the client watches again.
WatchEnds ==
    /\ pc = "watching" /\ pc' = "ended"
    /\ events < MaxEvents /\ events' = events + 1
    /\ UNCHANGED <<log, floor, selection, at, cursor, pos, seen, view>>

\* Fault: a stream that fell behind the compaction stays open in silence.
ExpiredAtStart ==
    /\ \/ pc \in {"listing", "initial"} /\ ~Retained(at)
       \/ pc = "ended" /\ ~Retained(seen)
    /\ pc' = "start"
    /\ UNCHANGED <<log, floor, selection, at, cursor, pos, seen, view, events>>

\* 410, in answer or as an ERROR event: what is to be read is compacted, and
\* the client starts again.
Expired ==
    /\ \/ pc \in {"listing", "initial"} /\ ~Retained(at)
       \/ pc = "ended" /\ ~Retained(seen)
       \/ pc = "watching" /\ ~Retained(pos)
    /\ pc' = "start"
    /\ UNCHANGED <<log, floor, selection, at, cursor, pos, seen, view, events>>

-----------------------------------------------------------------------------
Reader == StartList \/ ListPage \/ Watch \/ WatchInitial \/ InitialEvent \/ InitialEnd
          \/ Event \/ Expired

Next ==
    \/ \E k \in Keys, label \in Labels \cup {"gone"} : Put(k, label)
    \/ Compact \/ Reader \/ Bookmark \/ WatchEnds

Spec == Init /\ [][Next]_vars

\* A client that can go on does: the stream polls the registry, and a
\* reflector asks for the next page, watches and starts again.
FairSpec == Spec /\ WF_vars(Reader)

-----------------------------------------------------------------------------
(* Properties                                                              *)

\* Whatever changes while it pages, filters, resumes or starts again, a client
\* that has its list or watches knows exactly the objects its selection had at
\* the revision it knows of, in their versions of then (read.rs, list and
\* watch: continue tokens, enter and leave events, resumption).
ViewIsSelected ==
    pc \in {"ended", "watching"} => view = Selected(seen)

\* A part of a list, or of the initial events, is the beginning of one
\* snapshot, not of several.
PagesOfOneSnapshot ==
    pc \in {"listing", "initial"} => view = {o \in Selected(at) : o[1] <= cursor}

\* What a client knows is one snapshot, or the beginning of one.
KnowsOneSnapshot == TypeOK /\ ViewIsSelected /\ PagesOfOneSnapshot

\* The revision a client knows of never goes back, not even when it starts
\* again ("the subsequent watch anchor can only be newer", read.rs).
RevisionsGrow == [][seen' >= seen /\ (pc' = "listing" /\ pc = "start" => at' >= seen)]_vars

\* Once changes, compactions and ends of streams cease, the client comes to
\* know what is selected and follows it, and it never went back.
CatchesUp == RevisionsGrow /\ <>[](pc = "watching" /\ view = Selected(Now))
=============================================================================
