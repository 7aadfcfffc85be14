----------------------------- MODULE Admission ------------------------------
(***************************************************************************)
(* The write path of one API server (h3s-apiserver/src/write.rs and what it *)
(* calls) with the namespace controller (h3s-controllers/src/lib.rs).      *)
(*                                                                         *)
(* A mutation holds the admission lock from its first read to its commit;  *)
(* before it has the lock a request has read nothing, so one request,      *)
(* handler, is enough.  A client that hangs up drops its handler, and with *)
(* it the lock, while the store may still run the mutation it was given.   *)
(* One namespace name is created, filled, deleted and created again.       *)
(***************************************************************************)
EXTENDS Integers, FiniteSets, Sequences, SequencesExt

CONSTANTS
    Services,     \* names of Services
    Addresses,    \* numbers: cluster addresses and node ports
    HangUps,      \* the mutations whose clients may hang up while the store commits
    CutShort,     \* the server may stop within the removal of a Namespace
    MaxEvents     \* bound on requests of users and failures

ASSUME AdmissionAssumption ==
    /\ IsFiniteSet(Services) /\ Addresses \subseteq Nat
    /\ HangUps \subseteq {"create", "apply", "update", "delete", "found", "mark"}
    /\ CutShort \in BOOLEAN /\ MaxEvents \in Nat

VARIABLES
    ns,        \* {} or the stored Namespace
    objs,      \* the objects stored in it
    handler,   \* the mutation that holds the admission lock
    late,      \* mutations of the store whose handler is gone
    ctl,       \* the namespace controller's reconciliation
    uids,      \* the uids given out so far are 0..uids
    events

vars == <<ns, objs, handler, late, ctl, uids, events>>
store == <<ns, objs>>

Namespace == [uid : Nat, terminating : BOOLEAN, finalizer : BOOLEAN]
Names == [sa |-> {"default"}, pod |-> {"p"}, svc |-> Services, ing |-> {"i"}]
Kinds == DOMAIN Names

\* The kinds a terminating namespace is emptied of, in order; Ingresses (and
\* claims) are namespaced kinds that are not among them.
Collected == <<"pod", "svc", "sa">>

\* An object's era is the uid of the namespace it was made in; it is a stray if
\* that one was terminating already.
Object(k) == [kind : {k}, name : Names[k], uid : Nat, era : Nat, stray : BOOLEAN,
              addr : SUBSET Addresses]
Idle == [pc |-> "idle"]
Mutations == {"create", "apply", "provision", "update", "delete", "found", "mark", "finalize", "remove"}

TypeOK ==
    /\ ns \subseteq Namespace /\ Cardinality(ns) <= 1
    /\ \A o \in objs : \E k \in Kinds : o \in Object(k)
    /\ \A o, p \in objs : o.kind = p.kind /\ o.name = p.name => o = p
    /\ handler.pc \in {"idle", "commit", "remove"}
    /\ \A l \in late : l.op \in Mutations
    /\ ctl.pc \in {"idle", "provision", "gc", "finalize", "waiting"}
    /\ uids \in Nat /\ events \in 0..MaxEvents

Init ==
    /\ ns = {[uid |-> 0, terminating |-> FALSE, finalizer |-> FALSE]}
    /\ objs = {} /\ handler = Idle /\ late = {} /\ ctl = Idle /\ uids = 0 /\ events = 0

Spend == events < MaxEvents /\ events' = events + 1

-----------------------------------------------------------------------------
(* The store                                                               *)

Stored(k, n) == {o \in objs : o.kind = k /\ o.name = n}

\* One compare-and-set mutation of the registry; a conflict changes nothing.
Store(m) ==
    CASE m.op \in {"create", "apply", "provision"} ->
           /\ objs' = IF Stored(m.new.kind, m.new.name) = {} THEN objs \cup {m.new} ELSE objs
           /\ UNCHANGED ns
      [] m.op \in {"update", "delete"} ->
           /\ objs' = IF m.old \in objs
                      THEN (objs \ {m.old}) \cup (IF m.op = "update" THEN {m.new} ELSE {})
                      ELSE objs
           /\ UNCHANGED ns
      [] OTHER ->
           /\ ns' = IF ns = m.was THEN m.to ELSE ns
           /\ UNCHANGED objs

Fresh == [uid |-> uids + 1, terminating |-> FALSE, finalizer |-> FALSE]
\* Fault: a Namespace is marked without its finalizer.
Marked_bare(n) == [n EXCEPT !.terminating = TRUE]

Marked(n) == [n EXCEPT !.terminating = TRUE, !.finalizer = TRUE]

-----------------------------------------------------------------------------
(* Mutations                                                               *)

\* A mutation waits for the lock having read nothing; with it, it reads, decides
\* and hands its write to the store.
Controllers == handler # Idle /\ handler.op \in {"provision", "finalize", "remove"}
begin(h) == handler = Idle /\ handler' = h
Refuse == begin(Idle)

published(uid) == UNION {o.addr : o \in {p \in objs : p.kind = "svc" /\ p.uid # uid}}
First(S) == {a \in S : \A b \in S : a <= b}

\* Fault: an address that is asked for is given.
assign_stated(uid, has, want) ==
    LET free == Addresses \ published(uid) IN
    IF want # {} THEN {has \cup want}
    ELSE {has \cup g : g \in {{a} : a \in free \ has}}

\* What a Service of this uid may get: the addresses it has and, if nobody else
\* published them, those it asks for, or else the first free one. A new port
\* listed before the Service's own ones does not know these, and so may be
\* given one of them, which refuses the request.
assign(uid, has, want) ==
    LET free  == Addresses \ published(uid)
        given == IF want # {} THEN {want} ELSE {First(free), First(free \ has)} IN
    {has \cup g : g \in {g \in given : g # {} /\ g \subseteq free \ has}}

\* A new object is refused without its namespace, and in a terminating one if the
\* verb is create: an apply, also one that creates, is a patch.
lifecycle(op) == \E n \in ns : op # "apply" => ~n.terminating
NamespaceIs == CHOOSE n \in ns : TRUE

\* A Pod that is created, not applied, needs its account.
Admitted(op, k, uid, want) ==
    IF ~lifecycle(op) THEN {} ELSE
    CASE k = "pod"  -> IF op = "apply" \/ Stored("sa", "default") # {} THEN {{}} ELSE {}
      [] k = "svc"  -> assign(uid, {}, want)
      [] OTHER      -> {{}}

Create(op, k, n, want) ==
    LET uid == uids + 1
        ok  == Admitted(op, k, uid, want) IN
    IF ok # {}
    THEN /\ \E addr \in ok :
              begin([pc |-> "commit", op |-> op,
                     new |-> [kind |-> k, name |-> n, uid |-> uid, era |-> NamespaceIs.uid,
                              stray |-> NamespaceIs.terminating, addr |-> addr]])
         /\ uids' = uid
    ELSE Refuse /\ UNCHANGED uids

UserCreates ==
    /\ Spend
    /\ \E k \in Kinds : \E n \in Names[k], want \in {{}} \cup {{a} : a \in Addresses} :
         /\ want # {} => k = "svc"
         /\ Create("create", k, n, want)
    /\ UNCHANGED <<ns, objs, late, ctl>>

\* A server-side apply creates what it does not find; what it finds it updates.
UserApplies ==
    /\ Spend
    /\ \E k \in Kinds : \E n \in Names[k] :
         /\ Stored(k, n) = {}
         /\ Create("apply", k, n, {})
    /\ UNCHANGED <<ns, objs, late, ctl>>

\* Updates and deletions name what they have read; both remain possible in a
\* terminating namespace. An update keeps its addresses and adds a node port.
UserChanges ==
    /\ Spend
    /\ \E o \in objs :
         \/ begin([pc |-> "commit", op |-> "delete", old |-> o])
         \/ /\ o.kind = "svc" /\ ns # {}
            /\ \E addr \in assign(o.uid, o.addr, {}) :
                 begin([pc |-> "commit", op |-> "update", old |-> o,
                        new |-> [o EXCEPT !.addr = addr]])
    /\ UNCHANGED <<store, late, ctl, uids>>

UserMakesNamespace ==
    /\ Spend /\ ns = {}
    /\ begin([pc |-> "commit", op |-> "found", was |-> {}, to |-> {Fresh}])
    /\ uids' = uids + 1
    /\ UNCHANGED <<store, late, ctl>>

\* Deleting a Namespace marks it; deleting a marked one without finalizers
\* removes it.
delete_namespace ==
    /\ Spend
    /\ \E n \in ns :
         /\ ~(n.terminating /\ n.finalizer)
         /\ begin([pc |-> "commit", op |-> "mark", was |-> ns,
                   to |-> IF n.terminating THEN {} ELSE {Marked(n)}])
    /\ UNCHANGED <<store, late, ctl, uids>>

\* The commit ends the request, unless it cleared a Namespace's finalizers: the
\* same request then removes it.
Commit ==
    /\ handler.pc = "commit"
    /\ Store(handler)
    /\ handler' = IF handler.op = "finalize" /\ ns = handler.was
                  THEN [pc |-> "remove", op |-> "remove", was |-> handler.to, to |-> {}]
                  ELSE Idle
    /\ UNCHANGED <<late, ctl, uids, events>>

RemoveNamespace ==
    /\ handler.pc = "remove"
    /\ Store(handler) /\ handler' = Idle
    /\ UNCHANGED <<late, ctl, uids, events>>

\* A user's client hangs up: the handler is dropped, and the lock with it, while
\* the store may have been given the mutation.
HangUp ==
    /\ handler # Idle /\ handler.op \in HangUps /\ Spend
    /\ handler' = Idle
    /\ late' \in {late, late \cup {handler}}
    /\ UNCHANGED <<store, ctl, uids>>

Land ==
    /\ \E m \in late : Store(m) /\ late' = late \ {m}
    /\ UNCHANGED <<handler, ctl, uids, events>>

\* The server stops between any two steps and starts again; the store goes on
\* with none or some of what it was given, which landed before.
Crash ==
    /\ handler # Idle \/ ctl # Idle
    /\ CutShort \/ handler.pc # "remove"
    /\ Spend
    /\ handler' = Idle /\ late' = {} /\ ctl' = Idle
    /\ UNCHANGED <<store, uids>>

-----------------------------------------------------------------------------
(* The namespace controller                                                *)

ctlOnly == UNCHANGED <<store, late, uids, events>>

\* Fault: a namespace with content counts as provisioned.
reconcile_namespace_once ==
    /\ ctl = Idle
    /\ \E n \in ns :
         ctl' = IF n.terminating THEN [pc |-> "gc", todo |-> Collected, items |-> {}, count |-> 0]
                ELSE IF objs = {} THEN [pc |-> "provision"] ELSE Idle
    /\ ctlOnly /\ UNCHANGED handler

\* The Namespace is read again: an active one gets its default account, a
\* terminating one is emptied.
reconcile_namespace ==
    /\ ctl = Idle
    /\ \E n \in ns :
         ctl' = IF n.terminating THEN [pc |-> "gc", todo |-> Collected, items |-> {}, count |-> 0]
                ELSE IF Stored("sa", "default") = {} THEN [pc |-> "provision"] ELSE Idle
    /\ ctlOnly /\ UNCHANGED handler

Provision ==
    /\ ctl.pc = "provision" /\ ctl' = [pc |-> "waiting"]
    /\ Create("provision", "sa", "default", {})
    /\ UNCHANGED <<ns, objs, late, events>>

\* Kind by kind, the objects are listed and then deleted by name.
gc_list ==
    /\ ctl.pc = "gc" /\ ctl.items = {} /\ ctl.todo # <<>>
    /\ ctl' = [ctl EXCEPT !.todo = Tail(@), !.items = {o \in objs : o.kind = Head(ctl.todo)}]
    /\ ctlOnly /\ UNCHANGED handler

gc_delete ==
    /\ ctl.pc = "gc" /\ handler = Idle
    /\ \E o \in ctl.items :
         LET now == Stored(o.kind, o.name) IN
         /\ ctl' = [ctl EXCEPT !.items = @ \ {o}, !.count = @ + Cardinality(now)]
         /\ objs' = objs \ now
    /\ UNCHANGED <<ns, handler, late, uids, events>>

\* A pass that deleted nothing is followed by the removal of the finalizers.
gc_end ==
    /\ ctl.pc = "gc" /\ ctl.items = {} /\ ctl.todo = <<>>
    /\ ctl' = IF ctl.count = 0 /\ \E n \in ns : n.finalizer
              THEN [pc |-> "finalize", was |-> ns] ELSE Idle
    /\ ctlOnly /\ UNCHANGED handler

Finalize ==
    /\ ctl.pc = "finalize" /\ ctl' = [pc |-> "waiting"]
    /\ begin([pc |-> "commit", op |-> "finalize", was |-> ctl.was,
              to |-> {[n EXCEPT !.finalizer = FALSE] : n \in ctl.was}])
    /\ ctlOnly

Answered ==
    /\ ctl.pc = "waiting" /\ ~Controllers /\ ctl' = Idle
    /\ ctlOnly /\ UNCHANGED handler

Users == UserCreates \/ UserApplies \/ UserChanges \/ UserMakesNamespace \/ delete_namespace
Handler == Commit \/ RemoveNamespace
Controller == reconcile_namespace \/ Provision \/ gc_list \/ gc_delete \/ gc_end \/ Finalize
              \/ Answered
Next == Users \/ Handler \/ HangUp \/ Land \/ Crash \/ Controller

Spec == Init /\ [][Next]_vars

\* The lock is first come first served, so the controller's requests get it
\* though users' requests come and go.
FairSpec == Spec /\ WF_vars(Handler) /\ WF_vars(Land) /\ SF_vars(Controller)

-----------------------------------------------------------------------------
\* No address and no node port is published by two Services, though the scan
\* of the published ones and the commit are steps of their own.
AddressesAreUnique ==
    \A o, p \in objs : o # p => o.addr \cap p.addr = {}

\* No name is stored twice and no address published twice.
ObjectsAreSound == TypeOK /\ AddressesAreUnique

collects(o) == \E i \in 1..Len(Collected) : Collected[i] = o.kind

\* A namespace that is gone has left nothing of the collected kinds, not even
\* when one of its name was made since, but what was applied while it was
\* terminating: between two passes that goes with the others, after the last
\* it stays.
EmptiedBeforeGone ==
    \A o \in objs : collects(o) /\ ~o.stray => \E n \in ns : n.uid = o.era

\* The same of every object, as if no terminating namespace could be given new
\* content (docs/admission.md:11): false, NamespaceApplied.cfg.
NothingOutlives == \A o \in objs : collects(o) => \E n \in ns : n.uid = o.era

\* A namespace gets its default account back for as long as it is active.
Provisioned ==
    (\E n \in ns : ~n.terminating)
        ~> (Stored("sa", "default") # {} \/ \A n \in ns : n.terminating)

\* A Namespace whose last finalizer cleared is removed in the same request.
MarkedNamespacesGo ==
    \A u \in 0..MaxEvents : (\E n \in ns : n.uid = u /\ n.terminating) ~> (\A n \in ns : n.uid # u)

\* What a namespace is due comes: its account while it is active, its end when
\* it is not.
NamespacesComplete == Provisioned /\ MarkedNamespacesGo
=============================================================================
