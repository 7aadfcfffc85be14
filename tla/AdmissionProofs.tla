-------------------------- MODULE AdmissionProofs ---------------------------
(***************************************************************************)
(* Proofs for Admission, for any Services, addresses and number of         *)
(* requests.                                                               *)
(*                                                                         *)
(* Three invariants: Typed, which holds whoever hangs up; Allocated, which *)
(* needs creates, applies and updates to end under the lock; and Emptying, *)
(* which needs marks to end under it too, and no crash between the two     *)
(* commits that end a Namespace.                                           *)
(***************************************************************************)
EXTENDS Admission, FiniteSetTheorems, TLAPS

One(S, T) == S = {} \/ \E x \in T : S = {x}
Objects == UNION {Object(k) : k \in Kinds}

Makes(m) == m.op \in {"create", "apply", "provision"}

\* What a mutation of the store may be.
Mutation(m) ==
    \/ Makes(m) /\ m.pc = "commit" /\ m.new \in Objects
    \/ /\ m.op = "update" /\ m.pc = "commit" /\ m.old \in Objects
       /\ \E addr \in SUBSET Addresses : m.new = [m.old EXCEPT !.addr = addr]
       /\ m.old.kind = "svc"
    \/ m.op = "delete" /\ m.pc = "commit" /\ m.old \in Objects
    \/ /\ m.op \in {"found", "mark", "finalize"} /\ m.pc = "commit"
       /\ One(m.was, Namespace) /\ One(m.to, Namespace)
    \/ m.op = "remove" /\ m.pc = "remove" /\ One(m.was, Namespace) /\ m.to = {}

\* What the controller's reconciliation may be.
Pass(c) ==
    \/ c \in [pc : {"idle", "provision", "waiting"}]
    \/ /\ c \in [pc : {"gc"}, todo : Seq(Kinds), items : SUBSET Objects, count : Nat]
    \/ c.pc = "finalize" /\ c.was # {} /\ One(c.was, Namespace)

Typed ==
    /\ One(ns, Namespace) /\ objs \in SUBSET Objects
    /\ \A o, p \in objs : o.kind = p.kind /\ o.name = p.name => o = p
    /\ handler = Idle \/ Mutation(handler)
    /\ \A m \in late : Mutation(m) /\ m.op \in HangUps
    /\ Pass(ctl)
    /\ uids \in Nat /\ events \in 0..MaxEvents

-----------------------------------------------------------------------------
\* The Services share no address, nor does the one that is about to be written
\* with those it will be stored beside.
Allocated ==
    /\ \A o \in objs : o.uid <= uids /\ (o.kind # "svc" => o.addr = {})
    /\ \A o, p \in objs : o.uid = p.uid => o = p
    /\ AddressesAreUnique
    /\ handler # Idle /\ Makes(handler) =>
          /\ handler.new.uid <= uids
          /\ handler.new.kind # "svc" => handler.new.addr = {}
          /\ \A o \in objs : o.uid # handler.new.uid /\ o.addr \cap handler.new.addr = {}
    /\ handler # Idle /\ handler.op = "update" =>
          \A o \in objs : o # handler.old => o.addr \cap handler.new.addr = {}

-----------------------------------------------------------------------------
\* What a Namespace may leave.
Exempt(o) == o.stray \/ ~collects(o)
Empty == \A o \in objs : Exempt(o)
Active(n) == ~n.terminating /\ ~n.finalizer
Ending(n) == n.terminating /\ n.finalizer

\* The kinds a pass has still to list.
Left == {ctl.todo[i] : i \in 1..Len(ctl.todo)}

\* A Namespace is active or ending until the commit that clears its finalizer,
\* and what is about to be written belongs to the one there is, and is a stray
\* if that one is ending.
Writes ==
    /\ \A n \in ns : Active(n) \/ Ending(n) \/ (handler # Idle /\ handler.op = "remove")
    /\ handler # Idle =>
          /\ Makes(handler) => \E n \in ns : /\ n.uid = handler.new.era
                                             /\ Active(n) \/ handler.new.stray
          /\ handler.op = "found" => handler.was = {} /\ \A n \in handler.to : Active(n)
          /\ handler.op = "mark" => \E n \in ns : Active(n) /\ handler.to = {Marked(n)}
          /\ handler.op = "finalize" => /\ handler.was = ns /\ \E n \in ns : Ending(n)
                                        /\ ctl.pc = "waiting" /\ Empty
                                        /\ handler.to # {} /\ \A n \in handler.to : n.terminating
          /\ handler.op = "remove" => /\ handler.was = ns /\ ns # {} /\ \A n \in ns : n.terminating
                                      /\ ctl.pc = "waiting" /\ Empty
    /\ \A m \in late : m.op = "found" => m.was = {} /\ \A n \in m.to : Active(n)

\* A pass that has deleted nothing so far has what it lists still before it.
Passes ==
    /\ ctl.pc \in {"gc", "finalize"} => \E n \in ns : Ending(n)
    /\ ctl.pc = "finalize" => ctl.was = ns /\ Empty
    /\ ctl.pc = "gc" /\ ctl.count = 0 =>
          \A o \in objs : \/ Exempt(o) \/ o.kind \in Left
                          \/ \E i \in ctl.items : i.kind = o.kind /\ i.name = o.name

Emptying == EmptiedBeforeGone /\ Writes /\ Passes

-----------------------------------------------------------------------------
(* Lemmas on objects and on the store.                                     *)

LEMMA KindsAre == Kinds = {"sa", "pod", "svc", "ing"}
  BY DEF Kinds, Names

\* A Namespace is emptied of all kinds but Ingresses.
LEMMA CollectedAre ==
    ASSUME NEW o \in Objects
    PROVE  collects(o) <=> o.kind # "ing"
  <1>1. o.kind \in {"sa", "pod", "svc", "ing"}
    BY KindsAre DEF Objects, Object
  <1>2. /\ Len(Collected) = 3 /\ Collected[1] = "pod" /\ Collected[2] = "svc"
        /\ Collected[3] = "sa"
    BY DEF Collected
  <1>3. collects(o) <=> \E i \in 1..3 : Collected[i] = o.kind
    BY <1>2 DEF collects
  <1> QED BY <1>1, <1>2, <1>3

\* An object stays one when its addresses change.
LEMMA Readdressed ==
    ASSUME NEW o \in Objects, NEW addr \in SUBSET Addresses, NEW q,
           q = [o EXCEPT !.addr = addr]
    PROVE  /\ q \in Objects
           /\ q.kind = o.kind /\ q.name = o.name /\ q.uid = o.uid /\ q.era = o.era
           /\ q.addr = addr /\ q.stray = o.stray
  <1>1. PICK k \in Kinds : o \in Object(k)
    BY DEF Objects
  <1>2. q \in Object(k)
    BY <1>1 DEF Object
  <1> QED BY <1>1, <1>2 DEF Objects, Object

\* What each mutation writes, if it writes.
LEMMA Made ==
    ASSUME NEW m, Makes(m), Store(m)
    PROVE  /\ ns' = ns
           /\ \/ objs' = objs
              \/ objs' = objs \cup {m.new} /\ Stored(m.new.kind, m.new.name) = {}
  BY DEF Makes, Store

LEMMA Updated ==
    ASSUME NEW m, m.op = "update", Store(m)
    PROVE  /\ ns' = ns
           /\ \/ objs' = objs
              \/ m.old \in objs /\ objs' = (objs \ {m.old}) \cup {m.new}
  BY DEF Store

LEMMA Deleted ==
    ASSUME NEW m, m.op = "delete", Store(m)
    PROVE  ns' = ns /\ objs' \subseteq objs
  BY DEF Store

LEMMA Moved ==
    ASSUME NEW m, m.op \in {"found", "mark", "finalize", "remove"}, Store(m)
    PROVE  objs' = objs /\ ns' = IF ns = m.was THEN m.to ELSE ns
  BY DEF Store

LEMMA FiveOps ==
    ASSUME NEW m, Mutation(m)
    PROVE  \/ Makes(m) \/ m.op = "update" \/ m.op = "delete"
           \/ m.op \in {"found", "mark", "finalize", "remove"}
  BY DEF Mutation

-----------------------------------------------------------------------------
(* Types.                                                                  *)

\* Every mutation keeps what is stored of its type, and its names apart.
LEMMA Storing ==
    ASSUME Typed, NEW m, Mutation(m), Store(m)
    PROVE  /\ One(ns', Namespace) /\ objs' \in SUBSET Objects
           /\ \A o, p \in objs' : o.kind = p.kind /\ o.name = p.name => o = p
  <1>1. CASE Makes(m)
    <2>1. m.new \in Objects
      BY <1>1 DEF Mutation, Makes
    <2>2. Stored(m.new.kind, m.new.name) = {} =>
             \A o \in objs : ~(o.kind = m.new.kind /\ o.name = m.new.name)
      BY DEF Stored
    <2> QED BY <1>1, <2>1, <2>2, Made DEF Typed
  <1>2. CASE m.op = "update"
    <2>1. m.old \in Objects /\ \E addr \in SUBSET Addresses : m.new = [m.old EXCEPT !.addr = addr]
      BY <1>2 DEF Mutation, Makes
    <2>2. m.new \in Objects /\ m.new.kind = m.old.kind /\ m.new.name = m.old.name
      BY <2>1, Readdressed
    <2>3. CASE objs' = objs
      BY <1>2, <2>3, Updated DEF Typed
    <2>4. CASE m.old \in objs /\ objs' = (objs \ {m.old}) \cup {m.new}
      BY <1>2, <2>2, <2>4, Updated DEF Typed
    <2> QED BY <1>2, <2>3, <2>4, Updated
  <1>3. CASE m.op = "delete"
    BY <1>3, Deleted DEF Typed
  <1>4. CASE m.op \in {"found", "mark", "finalize", "remove"}
    <2>1. One(m.to, Namespace)
      BY <1>4 DEF Mutation, Makes, One
    <2> QED BY <1>4, <2>1, Moved DEF Typed
  <1> QED BY <1>1, <1>2, <1>3, <1>4, FiveOps

\* What a Service is assigned is free, and comes on top of what it has.
LEMMA Assigned ==
    ASSUME NEW uid, NEW has \in SUBSET Addresses, NEW want \in SUBSET Addresses,
           NEW r \in assign(uid, has, want)
    PROVE  /\ r \in SUBSET Addresses
           /\ \E g : r = has \cup g /\ g \cap published(uid) = {}
  <1>1. \E g : r = has \cup g /\ g \subseteq (Addresses \ published(uid)) \ has
    BY DEF assign
  <1> QED BY <1>1

LEMMA AdmittedAre ==
    ASSUME NEW op, NEW k \in Kinds, NEW uid, NEW want \in SUBSET Addresses,
           NEW addr \in Admitted(op, k, uid, want)
    PROVE  /\ addr \in SUBSET Addresses /\ lifecycle(op)
           /\ k # "svc" => addr = {}
           /\ addr \cap published(uid) = {}
  <1>1. lifecycle(op)
    BY DEF Admitted
  <1>2. CASE k = "svc"
    <2>1. addr \in assign(uid, {}, want)
      BY <1>1, <1>2 DEF Admitted
    <2>2. addr \in SUBSET Addresses /\ \E g : addr = {} \cup g /\ g \cap published(uid) = {}
      BY <2>1, Assigned
    <2> QED BY <1>1, <1>2, <2>2
  <1>3. CASE k # "svc"
    <2>1. addr = {}
      BY <1>1, <1>3 DEF Admitted
    <2> QED BY <1>1, <1>3, <2>1
  <1> QED BY <1>2, <1>3

\* A create is refused, or hands a new object of the present Namespace to the
\* store.
Hands(op, k, n, addr) ==
    /\ handler = Idle
    /\ handler' = [pc |-> "commit", op |-> op,
                   new |-> [kind |-> k, name |-> n, uid |-> uids + 1, era |-> NamespaceIs.uid,
                            stray |-> NamespaceIs.terminating, addr |-> addr]]
    /\ addr \in SUBSET Addresses /\ lifecycle(op)
    /\ k # "svc" => addr = {}
    /\ addr \cap published(uids + 1) = {}
    /\ uids' = uids + 1

LEMMA Creating ==
    ASSUME Typed, NEW op \in {"create", "apply", "provision"}, NEW k \in Kinds, NEW n \in Names[k],
           NEW want \in SUBSET Addresses, Create(op, k, n, want)
    PROVE  \/ handler = Idle /\ UNCHANGED <<handler, uids>>
           \/ \E addr : Hands(op, k, n, addr) /\ Mutation(handler') /\ Makes(handler')
                        /\ handler' # Idle
  <1>1. CASE Admitted(op, k, uids + 1, want) = {}
    BY <1>1 DEF Create, Refuse, begin
  <1>2. CASE Admitted(op, k, uids + 1, want) # {}
    <2>1. PICK addr \in Admitted(op, k, uids + 1, want) :
             begin([pc |-> "commit", op |-> op,
                    new |-> [kind |-> k, name |-> n, uid |-> uids + 1, era |-> NamespaceIs.uid,
                             stray |-> NamespaceIs.terminating, addr |-> addr]])
      BY <1>2 DEF Create
    <2>2. uids' = uids + 1
      BY <1>2 DEF Create
    <2>3. Hands(op, k, n, addr)
      <3>1. /\ addr \in SUBSET Addresses /\ lifecycle(op) /\ (k # "svc" => addr = {})
            /\ addr \cap published(uids + 1) = {}
        BY <2>1, AdmittedAre
      <3> QED BY <2>1, <2>2, <3>1 DEF Hands, begin
    <2>4. NamespaceIs.uid \in Nat /\ NamespaceIs.terminating \in BOOLEAN
      <3>1. PICK x \in Namespace : ns = {x}
        BY <2>3 DEF Typed, One, Hands, lifecycle
      <3> QED BY <3>1 DEF NamespaceIs, Namespace
    <2>5. [kind |-> k, name |-> n, uid |-> uids + 1, era |-> NamespaceIs.uid,
           stray |-> NamespaceIs.terminating, addr |-> addr] \in Objects
      BY <2>3, <2>4 DEF Objects, Object, Hands, Typed
    <2>6. Mutation(handler') /\ Makes(handler') /\ handler' # Idle
      BY <2>3, <2>5 DEF Hands, Mutation, Makes, Idle
    <2> QED BY <2>3, <2>6
  <1> QED BY <1>1, <1>2

LEMMA StoredIsOne ==
    ASSUME Typed, NEW k, NEW n
    PROVE  /\ Stored(k, n) \subseteq objs
           /\ Cardinality(Stored(k, n)) \in Nat
           /\ Cardinality(Stored(k, n)) = 0 => Stored(k, n) = {}
  <1>1. Stored(k, n) = {} \/ \E o : Stored(k, n) = {o}
    BY DEF Stored, Typed
  <1>2. IsFiniteSet(Stored(k, n))
    BY <1>1, FS_EmptySet, FS_Singleton
  <1> QED BY <1>2, FS_EmptySet, FS_CardinalityType DEF Stored

\* What a user creates or applies, and the controller provides, is handed on so.
LEMMA CreatingIs ==
    ASSUME Typed, UserCreates \/ UserApplies \/ Provision
    PROVE  /\ UNCHANGED <<ns, objs, late>>
           /\ \/ handler = Idle /\ UNCHANGED <<handler, uids>>
              \/ \E op, k, n, addr : /\ Hands(op, k, n, addr) /\ op \in {"create", "apply", "provision"}
                                     /\ Mutation(handler') /\ Makes(handler') /\ handler' # Idle
  <1>1. UNCHANGED <<ns, objs, late>>
    BY DEF UserCreates, UserApplies, Provision
  <1>2. \E op \in {"create", "apply", "provision"}, k \in Kinds : \E n \in Names[k] :
           \E want \in {{}} \cup {{a} : a \in Addresses} : Create(op, k, n, want)
    <2>1. CASE UserCreates
      BY <2>1 DEF UserCreates
    <2>2. CASE UserApplies
      BY <2>2 DEF UserApplies
    <2>3. CASE Provision
      BY <2>3, KindsAre DEF Provision, Names
    <2> QED BY <2>1, <2>2, <2>3
  <1>3. PICK op \in {"create", "apply", "provision"}, k \in Kinds : \E n \in Names[k] :
           \E want \in {{}} \cup {{a} : a \in Addresses} : Create(op, k, n, want)
    BY <1>2
  <1>4. PICK n \in Names[k], want \in {{}} \cup {{a} : a \in Addresses} : Create(op, k, n, want)
    BY <1>3
  <1>5. want \in SUBSET Addresses
    BY <1>4
  <1> QED BY <1>1, <1>4, <1>5, Creating

\* Requests and the lock.
LEMMA Requesting ==
    ASSUME Typed,
           UserCreates \/ UserApplies \/ UserChanges \/ UserMakesNamespace \/ delete_namespace
           \/ Provision \/ Finalize
    PROVE  Typed'
  <1> DEFINE Given == handler' = Idle \/ Mutation(handler')
  <1>1. UNCHANGED <<ns, objs, late>> /\ Given /\ uids' \in Nat
    <2>1. CASE UserCreates \/ UserApplies \/ Provision
      <3>1. /\ UNCHANGED <<ns, objs, late>>
            /\ \/ handler = Idle /\ UNCHANGED <<handler, uids>>
               \/ \E op, k, n, addr : Hands(op, k, n, addr) /\ Mutation(handler')
        BY <2>1, CreatingIs
      <3> QED BY <3>1 DEF Hands, Typed
    <2>3. CASE UserChanges
      <3>1. PICK o \in objs :
              \/ begin([pc |-> "commit", op |-> "delete", old |-> o])
              \/ /\ o.kind = "svc" /\ ns # {}
                 /\ \E addr \in assign(o.uid, o.addr, {}) :
                      begin([pc |-> "commit", op |-> "update", old |-> o,
                             new |-> [o EXCEPT !.addr = addr]])
        BY <2>3 DEF UserChanges
      <3>2. o \in Objects /\ o.addr \in SUBSET Addresses
        BY DEF Typed, Objects, Object
      <3>3. CASE begin([pc |-> "commit", op |-> "delete", old |-> o])
        BY <2>3, <3>2, <3>3 DEF UserChanges, store, begin, Mutation, Makes, Typed
      <3>4. CASE o.kind = "svc" /\ \E addr \in assign(o.uid, o.addr, {}) :
                      begin([pc |-> "commit", op |-> "update", old |-> o,
                             new |-> [o EXCEPT !.addr = addr]])
        <4>1. PICK addr \in assign(o.uid, o.addr, {}) :
                      begin([pc |-> "commit", op |-> "update", old |-> o,
                             new |-> [o EXCEPT !.addr = addr]])
          BY <3>4
        <4>2. addr \in SUBSET Addresses
          BY <3>2, Assigned
        <4>3. Mutation(handler') /\ ~Makes(handler')
          BY <3>2, <3>4, <4>1, <4>2 DEF begin, Mutation, Makes
        <4> QED BY <2>3, <4>3 DEF UserChanges, store, Typed
      <3> QED BY <3>1, <3>3, <3>4
    <2>4. CASE UserMakesNamespace
      <3>1. Fresh \in Namespace
        BY DEF Fresh, Namespace, Typed
      <3> QED BY <2>4, <3>1
          DEF UserMakesNamespace, store, begin, Mutation, Makes, One, Typed
    <2>5. CASE delete_namespace
      <3>1. PICK n \in ns : begin([pc |-> "commit", op |-> "mark", was |-> ns,
                                   to |-> IF n.terminating THEN {} ELSE {Marked(n)}])
        BY <2>5 DEF delete_namespace
      <3>2. n \in Namespace /\ Marked(n) \in Namespace
        BY DEF Typed, One, Marked, Namespace
      <3>3. One(ns, Namespace) /\ One(IF n.terminating THEN {} ELSE {Marked(n)}, Namespace)
        BY <3>2 DEF Typed, One
      <3> QED BY <2>5, <3>1, <3>3
          DEF delete_namespace, store, begin, Mutation, Makes, Typed
    <2>6. CASE Finalize
      <3>1. PICK n \in Namespace : ctl.was = {n}
        BY <2>6 DEF Finalize, Typed, Pass, One
      <3>2. [n EXCEPT !.finalizer = FALSE] \in Namespace
        BY DEF Namespace
      <3>3. One(ctl.was, Namespace) /\ One({[x EXCEPT !.finalizer = FALSE] : x \in ctl.was}, Namespace)
        BY <3>1, <3>2 DEF One
      <3> QED BY <2>6, <3>3 DEF Finalize, ctlOnly, store, begin, Mutation, Makes, Typed
    <2> QED BY <2>1, <2>3, <2>4, <2>5, <2>6
  <1>2. Pass(ctl')
    <2>1. ctl' = ctl \/ ctl' = [pc |-> "waiting"]
      BY DEF UserCreates, UserApplies, UserChanges, UserMakesNamespace, delete_namespace,
             Provision, Finalize
    <2> QED BY <2>1 DEF Typed, Pass
  <1>3. events' \in 0..MaxEvents
    BY AdmissionAssumption DEF UserCreates, UserApplies, UserChanges, UserMakesNamespace,
       delete_namespace, Provision, Finalize, ctlOnly, Spend, Typed
  <1> QED BY <1>1, <1>2, <1>3 DEF Typed

\* The store runs a mutation, with or without its handler.
LEMMA Running ==
    ASSUME Typed, Commit \/ RemoveNamespace \/ Land
    PROVE  Typed'
  <1>1. UNCHANGED <<ctl, uids, events>> /\ late' \subseteq late
    BY DEF Commit, RemoveNamespace, Land
  <1>2. \E m \in {handler} \cup late : m # Idle /\ Mutation(m) /\ Store(m)
    <2>1. CASE Commit \/ RemoveNamespace
      <3>1. handler # Idle /\ Store(handler)
        BY <2>1 DEF Commit, RemoveNamespace, Idle
      <3> QED BY <3>1 DEF Typed
    <2>2. CASE Land
      <3>1. PICK m \in late : Store(m)
        BY <2>2 DEF Land
      <3>2. Mutation(m)
        BY DEF Typed
      <3>3. m # Idle
        BY <3>2 DEF Mutation, Idle, Makes
      <3> QED BY <3>1, <3>2, <3>3
    <2> QED BY <2>1, <2>2
  <1>3. \/ handler' \in {handler, Idle}
        \/ Mutation(handler') /\ ~Makes(handler')
    <2>1. CASE Commit
      <3>1. CASE handler.op = "finalize" /\ ns = handler.was
        <4>1. handler # Idle
          BY <2>1 DEF Commit, Idle
        <4>2. One(handler.to, Namespace)
          BY <3>1, <4>1 DEF Typed, Mutation, Makes
        <4>3. handler' = [pc |-> "remove", op |-> "remove", was |-> handler.to, to |-> {}]
          BY <2>1, <3>1 DEF Commit
        <4> QED BY <4>2, <4>3 DEF Mutation, Makes
      <3> QED BY <2>1, <3>1 DEF Commit
    <2> QED BY <2>1 DEF RemoveNamespace, Land
  <1>4. PICK m \in {handler} \cup late : m # Idle /\ Mutation(m) /\ Store(m)
    BY <1>2
  <1>5. /\ One(ns', Namespace) /\ objs' \in SUBSET Objects
        /\ \A o, p \in objs' : o.kind = p.kind /\ o.name = p.name => o = p
    BY <1>4, Storing
  <1> QED BY <1>1, <1>3, <1>5 DEF Typed

\* A handler is dropped, or the server stops; what the store was given may stay.
LEMMA Dropping ==
    ASSUME Typed, HangUp \/ Crash
    PROVE  Typed'
  <1>1. /\ UNCHANGED <<ns, objs, uids>> /\ handler' = Idle
        /\ ctl' \in {ctl, Idle}
    BY DEF HangUp, Crash, store
  <1>2. \A m \in late' : m \in late \/ (m = handler /\ handler # Idle /\ m.op \in HangUps)
    BY DEF HangUp, Crash
  <1>3. events' \in 0..MaxEvents
    BY AdmissionAssumption DEF HangUp, Crash, Spend, Typed
  <1>4. Pass(ctl')
    BY <1>1 DEF Typed, Pass, Idle
  <1> QED BY <1>1, <1>2, <1>3, <1>4 DEF Typed

\* The controller's own steps.
LEMMA Collecting ==
    ASSUME Typed, reconcile_namespace \/ gc_list \/ gc_delete \/ gc_end \/ Answered
    PROVE  Typed'
  <1>1. UNCHANGED <<ns, handler, late, uids, events>> /\ objs' \subseteq objs
    BY DEF reconcile_namespace, gc_list, gc_delete, gc_end, Answered, ctlOnly, store
  <1>3. Pass(ctl')
    <2>1. CASE reconcile_namespace
      <3>1. Collected \in Seq(Kinds)
        BY KindsAre DEF Collected
      <3> QED BY <2>1, <3>1 DEF reconcile_namespace, Pass, Typed, Idle
    <2>2. CASE gc_list
      <3>1. /\ ctl \in [pc : {"gc"}, todo : Seq(Kinds), items : SUBSET Objects, count : Nat]
            /\ ctl.todo # <<>>
        BY <2>2 DEF gc_list, Typed, Pass
      <3> DEFINE items == {o \in objs : o.kind = Head(ctl.todo)}
      <3>2. items \in SUBSET Objects /\ Tail(ctl.todo) \in Seq(Kinds)
        BY <3>1 DEF Typed
      <3>3. ctl' = [ctl EXCEPT !.todo = Tail(@), !.items = items]
        BY <2>2 DEF gc_list
      <3> HIDE DEF items
      <3> QED BY <3>1, <3>2, <3>3 DEF Pass
    <2>3. CASE gc_delete
      <3>1. PICK o \in ctl.items :
               ctl' = [ctl EXCEPT !.items = @ \ {o},
                                  !.count = @ + Cardinality(Stored(o.kind, o.name))]
        BY <2>3 DEF gc_delete
      <3>2. Cardinality(Stored(o.kind, o.name)) \in Nat
        BY StoredIsOne
      <3>3. ctl \in [pc : {"gc"}, todo : Seq(Kinds), items : SUBSET Objects, count : Nat]
        BY <2>3 DEF gc_delete, Typed, Pass
      <3>4. ctl.items \ {o} \in SUBSET Objects /\ ctl.count + Cardinality(Stored(o.kind, o.name)) \in Nat
        BY <3>2, <3>3
      <3>5. ctl' \in [pc : {"gc"}, todo : Seq(Kinds), items : SUBSET Objects, count : Nat]
        BY <3>1, <3>3, <3>4
      <3> QED BY <3>5 DEF Pass
    <2>4. CASE gc_end
      BY <2>4 DEF gc_end, Typed, Pass, Idle
    <2>5. CASE Answered
      BY <2>5 DEF Answered, Pass, Idle
    <2> QED BY <2>1, <2>2, <2>3, <2>4, <2>5
  <1> QED BY <1>1, <1>3 DEF Typed

LEMMA TypedInitially == Init => Typed
  <1> SUFFICES ASSUME Init PROVE Typed
    OBVIOUS
  <1>1. One(ns, Namespace)
    BY DEF Init, One, Namespace
  <1>2. Pass(ctl) /\ events \in 0..MaxEvents
    BY AdmissionAssumption DEF Init, Pass, Idle
  <1> QED BY <1>1, <1>2 DEF Init, Typed

LEMMA TypedStepwise == Typed /\ [Next]_vars => Typed'
  <1> SUFFICES ASSUME Typed, [Next]_vars PROVE Typed'
    OBVIOUS
  <1>1. CASE UNCHANGED vars
    BY <1>1 DEF vars, Typed
  <1>2. CASE Next
    BY <1>2, Requesting, Running, Dropping, Collecting DEF Next, Users, Handler, Controller
  <1> QED BY <1>1, <1>2

LEMMA TypedOK == Typed => TypeOK
  <1> SUFFICES ASSUME Typed PROVE TypeOK
    OBVIOUS
  <1>1. ns \subseteq Namespace /\ Cardinality(ns) <= 1
    BY FS_EmptySet, FS_Singleton DEF Typed, One
  <1>2. \A o \in objs : \E k \in Kinds : o \in Object(k)
    BY DEF Typed, Objects
  <1>3. handler.pc \in {"idle", "commit", "remove"}
    BY DEF Typed, Mutation, Idle
  <1>4. \A l \in late : l.op \in Mutations
    BY DEF Typed, Mutation, Makes, Mutations
  <1>5. ctl.pc \in {"idle", "provision", "gc", "finalize", "waiting"}
    BY DEF Typed, Pass
  <1> QED BY <1>1, <1>2, <1>3, <1>4, <1>5 DEF Typed, TypeOK

-----------------------------------------------------------------------------
(* Addresses.                                                              *)

\* No create, apply or update ends under the lock but by its commit.
Undisturbed == HangUps \cap {"create", "apply", "update"} = {}

\* Fewer objects share no more, and nothing else is about to be written.
LEMMA Shrinking ==
    ASSUME Typed, Allocated, objs' \subseteq objs, uids' \in Nat, uids' >= uids,
           \/ handler' = handler
           \/ handler' = Idle
           \/ ~Makes(handler') /\ handler'.op # "update"
    PROVE  Allocated'
  <1>1. \A o \in objs : o.uid \in Nat
    BY DEF Typed, Objects, Object
  <1>2. handler # Idle /\ Makes(handler) => handler.new.uid \in Nat
    BY DEF Typed, Mutation, Makes, Objects, Object
  <1> QED BY <1>1, <1>2 DEF Allocated, AddressesAreUnique, Typed, Makes

\* What others have published is out of reach of who asks for addresses.
LEMMA PublishedCover ==
    ASSUME Typed, Allocated, NEW uid, NEW o \in objs, o.uid # uid, NEW S,
           S \cap published(uid) = {}
    PROVE  o.addr \cap S = {}
  <1>1. CASE o.kind = "svc"
    BY <1>1 DEF published
  <1>2. CASE o.kind # "svc"
    BY <1>2 DEF Allocated
  <1> QED BY <1>1, <1>2

LEMMA AllocatingCreate ==
    ASSUME Typed, Allocated, NEW op, NEW k, NEW n, NEW addr, Hands(op, k, n, addr),
           objs' = objs, op # "update"
    PROVE  Allocated'
  <1>1. \A o \in objs : o.uid \in Nat /\ o.uid <= uids /\ uids \in Nat
    BY DEF Typed, Objects, Object, Allocated
  <1>2. \A o \in objs : o.uid # uids + 1
    BY <1>1
  <1>3. \A o \in objs : o.addr \cap addr = {}
    BY <1>2, PublishedCover DEF Hands
  <1>4. /\ handler'.new.uid = uids + 1 /\ handler'.new.addr = addr /\ handler'.new.kind = k
        /\ handler'.op = op
    BY DEF Hands
  <1>5. uids' = uids + 1 /\ (k # "svc" => addr = {})
    BY DEF Hands
  <1>6. \A o \in objs : o.uid <= uids'
    BY <1>1, <1>5
  <1>7. uids + 1 <= uids'
    BY <1>5 DEF Typed
  <1> QED BY <1>2, <1>3, <1>4, <1>5, <1>6, <1>7 DEF Allocated, AddressesAreUnique

LEMMA AllocatingUpdate ==
    ASSUME Typed, Allocated, NEW o \in objs, o.kind = "svc",
           NEW addr \in assign(o.uid, o.addr, {}),
           begin([pc |-> "commit", op |-> "update", old |-> o, new |-> [o EXCEPT !.addr = addr]]),
           UNCHANGED <<objs, uids>>
    PROVE  Allocated'
  <1>1. o \in Objects /\ o.addr \in SUBSET Addresses
    BY DEF Typed, Objects, Object
  <1>2. PICK g : addr = o.addr \cup g /\ g \cap published(o.uid) = {}
    BY <1>1, Assigned
  <1>3. addr \in SUBSET Addresses
    BY <1>1, Assigned
  <1>4. handler'.new.addr = addr
    BY <1>1, <1>3, Readdressed DEF begin
  <1>5. handler'.op = "update" /\ handler'.old = o
    BY DEF begin
  <1>6. ASSUME NEW p \in objs, p # o PROVE p.addr \cap addr = {}
    <2>1. p.uid # o.uid /\ p.addr \cap o.addr = {}
      BY <1>6 DEF Allocated, AddressesAreUnique
    <2>2. p.addr \cap g = {}
      BY <1>2, <2>1, PublishedCover
    <2> QED BY <1>2, <2>1, <2>2
  <1> QED BY <1>4, <1>5, <1>6 DEF Allocated, AddressesAreUnique, Makes

LEMMA AllocatingCommit ==
    ASSUME Typed, Allocated, Commit
    PROVE  Allocated'
  <1>1. /\ handler # Idle /\ Mutation(handler) /\ Store(handler) /\ uids' = uids /\ uids \in Nat
        /\ \/ handler' = Idle
           \/ ~Makes(handler') /\ handler'.op # "update"
    BY DEF Commit, Idle, Typed, Makes
  <1>2. CASE Makes(handler)
    <2>1. CASE objs' = objs
      BY <1>1, <2>1, Shrinking
    <2>2. CASE objs' = objs \cup {handler.new}
      BY <1>1, <1>2, <2>2 DEF Allocated, AddressesAreUnique, Makes
    <2> QED BY <1>1, <1>2, <2>1, <2>2, Made
  <1>3. CASE handler.op = "update"
    <2> DEFINE q == handler.new
               o == handler.old
    <2>1. CASE objs' = objs
      BY <1>1, <2>1, Shrinking
    <2>2. CASE o \in objs /\ objs' = (objs \ {o}) \cup {q}
      <3>1. o \in Objects /\ o.kind = "svc"
            /\ \E addr \in SUBSET Addresses : q = [o EXCEPT !.addr = addr]
        BY <1>1, <1>3 DEF Mutation, Makes
      <3>2. q.uid = o.uid /\ q.kind = "svc"
        BY <3>1, Readdressed
      <3>3. \A p \in objs : p # o => p.addr \cap q.addr = {} /\ p.uid # q.uid
        BY <1>1, <1>3, <2>2, <3>2 DEF Allocated
      <3>4. q.uid <= uids
        BY <2>2, <3>2 DEF Allocated
      <3> HIDE DEF q, o
      <3> QED BY <1>1, <2>2, <3>2, <3>3, <3>4 DEF Allocated, AddressesAreUnique, Makes
    <2> QED BY <1>1, <1>3, <2>1, <2>2, Updated
  <1>4. CASE handler.op = "delete" \/ handler.op \in {"found", "mark", "finalize", "remove"}
    BY <1>1, <1>4, Deleted, Moved, Shrinking
  <1> QED BY <1>1, <1>2, <1>3, <1>4, FiveOps

LEMMA AllocatedStepwise ==
    ASSUME Undisturbed, Typed, Allocated, [Next]_vars
    PROVE  Allocated'
  <1>1. uids \in Nat
    BY DEF Typed
  <1>2. CASE UserCreates \/ UserApplies \/ Provision
    <2>1. /\ objs' = objs
          /\ \/ handler = Idle /\ UNCHANGED <<handler, uids>>
             \/ \E op, k, n, addr : Hands(op, k, n, addr) /\ op # "update"
      BY <1>2, CreatingIs
    <2>2. CASE UNCHANGED <<handler, uids>>
      BY <1>1, <2>1, <2>2, Shrinking
    <2>3. CASE \E op, k, n, addr : Hands(op, k, n, addr) /\ op # "update"
      BY <2>1, <2>3, AllocatingCreate
    <2> QED BY <2>1, <2>2, <2>3
  <1>3. CASE UserChanges
    <2>1. PICK o \in objs :
            \/ begin([pc |-> "commit", op |-> "delete", old |-> o])
            \/ /\ o.kind = "svc" /\ ns # {}
               /\ \E addr \in assign(o.uid, o.addr, {}) :
                    begin([pc |-> "commit", op |-> "update", old |-> o,
                           new |-> [o EXCEPT !.addr = addr]])
      BY <1>3 DEF UserChanges
    <2>2. UNCHANGED <<objs, uids>>
      BY <1>3 DEF UserChanges, store
    <2>3. CASE begin([pc |-> "commit", op |-> "delete", old |-> o])
      BY <1>1, <2>2, <2>3, Shrinking DEF begin, Makes
    <2> QED BY <2>1, <2>2, <2>3, AllocatingUpdate
  <1>4. CASE UserMakesNamespace \/ delete_namespace \/ Finalize
    <2>1. ~Makes(handler') /\ handler'.op # "update" /\ objs' = objs /\ uids' \in {uids, uids + 1}
      BY <1>4 DEF UserMakesNamespace, delete_namespace, Finalize, ctlOnly, begin, store, Makes
    <2>2. uids' \in Nat /\ uids' >= uids
      BY <1>1, <2>1
    <2> QED BY <2>1, <2>2, Shrinking
  <1>5. CASE Commit
    BY <1>5, AllocatingCommit
  <1>6. CASE RemoveNamespace
    <2>1. handler.op = "remove" /\ Store(handler) /\ handler' = Idle /\ uids' = uids
      BY <1>6 DEF RemoveNamespace, Typed, Mutation, Idle, Makes
    <2> QED BY <1>1, <2>1, Moved, Shrinking
  <1>7. CASE Land
    <2>1. PICK m \in late : Store(m)
      BY <1>7 DEF Land
    <2>2. Mutation(m) /\ ~Makes(m) /\ m.op # "update"
      BY AdmissionAssumption DEF Typed, Makes, Undisturbed
    <2>3. objs' \subseteq objs
      BY <2>1, <2>2, FiveOps, Deleted, Moved
    <2> QED BY <1>1, <1>7, <2>3, Shrinking DEF Land
  <1>8. CASE HangUp \/ Crash
    BY <1>1, <1>8, Shrinking DEF HangUp, Crash, store
  <1>9. CASE \/ reconcile_namespace \/ gc_list \/ gc_delete \/ gc_end \/ Answered
             \/ UNCHANGED vars
    <2>1. UNCHANGED <<handler, uids>> /\ objs' \subseteq objs
      BY <1>9 DEF reconcile_namespace, gc_list, gc_delete, gc_end, Answered, ctlOnly, store, vars
    <2> QED BY <1>1, <2>1, Shrinking
  <1> QED BY <1>2, <1>3, <1>4, <1>5, <1>6, <1>7, <1>8, <1>9 DEF Next, Users, Handler, Controller

\* No name is stored twice, and no address and no node port is published by two
\* Services, though what is published is read in one step and what is chosen
\* committed in another, as long as no client hangs up on its create, apply or
\* update (services.rs, assign; with such a client it is false, as
\* AdmissionCancelled.cfg shows).
THEOREM ObjectsStaySound ==
    ASSUME Undisturbed
    PROVE  Spec => []ObjectsAreSound
  <1>1. Init => Typed /\ Allocated
    BY TypedInitially DEF Init, Allocated, AddressesAreUnique
  <1>2. (Typed /\ Allocated) /\ [Next]_vars => (Typed /\ Allocated)'
    BY TypedStepwise, AllocatedStepwise
  <1>3. Typed /\ Allocated => ObjectsAreSound
    BY TypedOK DEF Allocated, ObjectsAreSound
  <1> QED BY <1>1, <1>2, <1>3, PTL DEF Spec

-----------------------------------------------------------------------------
(* The end of a Namespace.                                                 *)

\* The server does not stop within the removal, and marks end under the lock.
Uncut == ~CutShort /\ HangUps \subseteq {"delete", "found"}

\* There is one Namespace at most.
LEMMA OneNamespace ==
    ASSUME Typed, NEW n \in ns
    PROVE  ns = {n} /\ n \in Namespace
  BY DEF Typed, One

\* The lock is taken for a new mutation.
LEMMA EmptyingRequest ==
    ASSUME Typed, Emptying,
           UserCreates \/ UserApplies \/ UserChanges \/ UserMakesNamespace \/ delete_namespace
           \/ Provision \/ Finalize
    PROVE  Emptying'
  <1> USE DEF Emptying
  <1>1. UNCHANGED <<ns, objs, late>> /\ handler = Idle
    BY DEF UserCreates, UserApplies, UserChanges, UserMakesNamespace, delete_namespace, Provision,
           Finalize, store, ctlOnly, begin, Create, Refuse
  <1>2. \A n \in ns : Active(n) \/ Ending(n)
    BY <1>1 DEF Writes
  <1>3. ctl' = ctl \/ ctl' = [pc |-> "waiting"]
    BY DEF UserCreates, UserApplies, UserChanges, UserMakesNamespace, delete_namespace, Provision,
           Finalize
  <1>4. EmptiedBeforeGone' /\ Passes'
    BY <1>1, <1>3 DEF EmptiedBeforeGone, Passes, Empty, Left
  <1>5. Writes'
    <2>1. CASE handler' = Idle
      BY <1>1, <1>2, <2>1 DEF Writes
    <2>2. CASE UserCreates \/ UserApplies \/ Provision
      <3>1. handler' = Idle \/ \E op, k, n, addr : /\ Hands(op, k, n, addr)
                                                   /\ op \in {"create", "apply", "provision"}
        BY <1>1, <2>2, CreatingIs
      <3>2. ASSUME NEW op \in {"create", "apply", "provision"}, NEW k, NEW n, NEW addr,
                   Hands(op, k, n, addr)
            PROVE  Writes'
        <4>1. PICK x \in ns : TRUE
          BY <3>2 DEF Hands, lifecycle
        <4>2. ns = {x} /\ NamespaceIs = x
          BY <4>1, OneNamespace DEF NamespaceIs
        <4>3. Active(x) \/ x.terminating
          BY <1>2, <4>2 DEF Ending
        <4>4. handler'.new.era = x.uid /\ handler'.new.stray = x.terminating /\ handler'.op = op
          BY <3>2, <4>2 DEF Hands
        <4> QED BY <1>1, <1>2, <4>2, <4>3, <4>4 DEF Writes, Makes
      <3> QED BY <2>1, <3>1, <3>2
    <2>3. CASE UserChanges
      <3>1. handler'.op \in {"delete", "update"}
        BY <2>3 DEF UserChanges, begin
      <3> QED BY <1>1, <1>2, <3>1 DEF Writes, Makes
    <2>4. CASE UserMakesNamespace
      <3>1. handler'.op = "found" /\ handler'.was = {} /\ handler'.to = {Fresh}
        BY <2>4 DEF UserMakesNamespace, begin
      <3>2. Active(Fresh)
        BY DEF Fresh, Active
      <3> QED BY <1>1, <1>2, <3>1, <3>2 DEF Writes, Makes
    <2>5. CASE delete_namespace
      <3>1. PICK n \in ns : /\ ~(n.terminating /\ n.finalizer)
                            /\ handler' = [pc |-> "commit", op |-> "mark", was |-> ns,
                                           to |-> IF n.terminating THEN {} ELSE {Marked(n)}]
        BY <2>5 DEF delete_namespace, begin
      <3>2. Active(n)
        BY <1>2, <3>1 DEF Ending
      <3>3. handler'.op = "mark" /\ handler'.to = {Marked(n)}
        BY <3>1, <3>2 DEF Active
      <3> QED BY <1>1, <1>2, <3>2, <3>3 DEF Writes, Makes
    <2>6. CASE Finalize
      <3>1. ctl.was = ns /\ Empty /\ \E n \in ns : Ending(n)
        BY <2>6 DEF Finalize, Passes
      <3>2. PICK n \in ns : Ending(n)
        BY <3>1
      <3>3. ns = {n} /\ n \in Namespace
        BY OneNamespace
      <3>4. /\ handler'.op = "finalize" /\ handler'.was = ns
            /\ handler'.to = {[n EXCEPT !.finalizer = FALSE]} /\ ctl'.pc = "waiting"
        BY <2>6, <3>1, <3>3 DEF Finalize, begin
      <3>5. [n EXCEPT !.finalizer = FALSE].terminating
        BY <3>2, <3>3 DEF Ending, Namespace
      <3>6. Empty'
        BY <1>1, <3>1 DEF Empty
      <3> QED BY <1>1, <1>2, <3>2, <3>4, <3>5, <3>6 DEF Writes, Makes
    <2> QED BY <2>2, <2>3, <2>4, <2>5, <2>6
  <1> QED BY <1>4, <1>5

\* The commit of a mutation of objects.
LEMMA EmptyingObjects ==
    ASSUME Typed, Emptying, Commit,
           Makes(handler) \/ handler.op = "update" \/ handler.op = "delete"
    PROVE  Emptying'
  <1> USE DEF Emptying
  <1>1. /\ handler # Idle /\ Mutation(handler) /\ Store(handler) /\ UNCHANGED <<late, ctl>>
        /\ handler' = Idle
    BY DEF Commit, Idle, Typed, Makes
  <1>2. ns' = ns /\ \A n \in ns : Active(n) \/ Ending(n)
    BY <1>1, Made, Updated, Deleted DEF Writes, Makes
  <1>3. Writes'
    BY <1>1, <1>2 DEF Writes
  <1>4. CASE Makes(handler)
    <2>1. PICK n \in ns : n.uid = handler.new.era /\ (Active(n) \/ handler.new.stray)
      BY <1>1, <1>4 DEF Writes
    <2>2. \A o \in objs' : o \in objs \/ o = handler.new
      BY <1>1, <1>4, Made
    <2>3. EmptiedBeforeGone'
      BY <1>2, <2>1, <2>2 DEF EmptiedBeforeGone
    <2>4. CASE Active(n)
      <3>1. ctl'.pc \notin {"gc", "finalize"}
        BY <1>1, <2>4, OneNamespace DEF Passes, Active, Ending
      <3> QED BY <1>3, <2>3, <3>1 DEF Passes
    <2>5. CASE handler.new.stray
      <3>1. Exempt(handler.new)
        BY <2>5 DEF Exempt
      <3> QED BY <1>1, <1>2, <1>3, <2>2, <2>3, <3>1 DEF Passes, Empty, Left
    <2> QED BY <2>1, <2>4, <2>5
  <1>5. CASE handler.op = "update"
    <2> DEFINE q == handler.new
               o == handler.old
    <2>1. o \in Objects /\ o.kind = "svc" /\ \E addr \in SUBSET Addresses : q = [o EXCEPT !.addr = addr]
      BY <1>1, <1>5 DEF Mutation, Makes
    <2>2. q.kind = o.kind /\ q.name = o.name /\ q.era = o.era /\ q.stray = o.stray
      BY <2>1, Readdressed
    <2>3. \A x \in objs' : \E y \in objs : /\ x.kind = y.kind /\ x.name = y.name
                                            /\ x.era = y.era /\ x.stray = y.stray
      BY <1>1, <1>5, <2>2, Updated
    <2> HIDE DEF q, o
    <2>4. EmptiedBeforeGone'
      BY <1>2, <2>3 DEF EmptiedBeforeGone, collects
    <2>5. Passes'
      BY <1>1, <1>2, <2>3 DEF Passes, Empty, Exempt, collects, Left
    <2> QED BY <1>3, <2>4, <2>5
  <1>6. CASE handler.op = "delete"
    <2>1. objs' \subseteq objs
      BY <1>1, <1>6, Deleted
    <2> QED BY <1>1, <1>2, <1>3, <2>1 DEF EmptiedBeforeGone, Passes, Empty, Left
  <1> QED BY <1>4, <1>5, <1>6

\* The Namespace is made, marked, finalized and removed.
LEMMA EmptyingNamespace ==
    ASSUME Typed, Emptying, Commit \/ RemoveNamespace,
           handler.op \in {"found", "mark", "finalize", "remove"}
    PROVE  Emptying'
  <1> USE DEF Emptying
  <1>1. /\ handler # Idle /\ Mutation(handler) /\ Store(handler) /\ UNCHANGED <<late, ctl>>
        /\ objs' = objs /\ ns' = IF ns = handler.was THEN handler.to ELSE ns
        /\ ~Makes(handler)
    BY Moved DEF Commit, RemoveNamespace, Idle, Typed, Makes
  <1>2. CASE handler.op = "found"
    <2>1. handler' = Idle
      BY <1>1, <1>2 DEF Commit, RemoveNamespace, Mutation, Makes
    <2>2. handler.was = {} /\ \A n \in handler.to : Active(n)
      BY <1>1, <1>2 DEF Writes
    <2>3. CASE ns = {}
      <3>1. ns' = handler.to /\ Empty /\ ctl.pc \notin {"gc", "finalize"}
        BY <1>1, <2>2, <2>3 DEF EmptiedBeforeGone, Empty, Exempt, Passes
      <3> QED BY <1>1, <2>1, <2>2, <3>1 DEF EmptiedBeforeGone, Empty, Exempt, Passes, Writes
    <2>4. CASE ns # {}
      <3>1. ns' = ns
        BY <1>1, <2>2, <2>4
      <3> QED BY <1>1, <1>2, <2>1, <3>1 DEF EmptiedBeforeGone, Empty, Exempt, Passes, Writes, Left
    <2> QED BY <2>3, <2>4
  <1>3. CASE handler.op = "mark"
    <2>1. handler' = Idle
      BY <1>1, <1>3 DEF Commit, RemoveNamespace, Mutation, Makes
    <2>2. PICK n \in ns : Active(n) /\ handler.to = {Marked(n)}
      BY <1>1, <1>3 DEF Writes
    <2>3. ns = {n} /\ n \in Namespace
      BY OneNamespace
    <2>4. Marked(n).uid = n.uid /\ Ending(Marked(n))
      BY <2>3 DEF Marked, Namespace, Ending
    <2>5. ctl.pc \notin {"gc", "finalize"}
      BY <2>2, <2>3 DEF Passes, Active, Ending
    <2>6. \/ ns' = ns
          \/ ns' = {Marked(n)}
      BY <1>1, <2>2
    <2>7. Writes'
      BY <1>1, <2>1, <2>2, <2>3, <2>4, <2>6 DEF Writes
    <2>8. Passes'
      BY <1>1, <2>5 DEF Passes
    <2>9. EmptiedBeforeGone'
      BY <1>1, <2>3, <2>4, <2>6 DEF EmptiedBeforeGone
    <2> QED BY <2>7, <2>8, <2>9
  <1>4. CASE handler.op = "finalize"
    <2>1. /\ handler.was = ns /\ ctl.pc = "waiting" /\ Empty /\ handler.to # {}
          /\ \A n \in handler.to : n.terminating
      BY <1>1, <1>4 DEF Writes
    <2>2. handler' = [pc |-> "remove", op |-> "remove", was |-> handler.to, to |-> {}]
      BY <1>1, <1>4, <2>1 DEF Commit, RemoveNamespace, Mutation, Makes
    <2>3. ns' = handler.to
      BY <1>1, <2>1
    <2>4. handler' # Idle /\ handler'.op = "remove" /\ handler'.was = ns'
      BY <2>2, <2>3 DEF Idle
    <2>5. Writes'
      BY <1>1, <2>1, <2>3, <2>4 DEF Writes, Makes, Empty
    <2> QED BY <1>1, <2>1, <2>5 DEF EmptiedBeforeGone, Empty, Exempt, Passes
  <1>5. CASE handler.op = "remove"
    <2>1. handler.was = ns /\ ctl.pc = "waiting" /\ Empty /\ handler.to = {}
      BY <1>1, <1>5 DEF Writes, Mutation, Makes
    <2>2. handler' = Idle /\ ns' = {}
      BY <1>1, <1>5, <2>1 DEF Commit, RemoveNamespace, Mutation, Makes
    <2> QED BY <1>1, <2>1, <2>2 DEF EmptiedBeforeGone, Empty, Exempt, Passes, Writes
  <1> QED BY <1>2, <1>3, <1>4, <1>5

\* The store runs what a dropped handler gave it; handlers are dropped; the
\* server stops.
LEMMA EmptyingFailures ==
    ASSUME Uncut, Typed, Emptying, Land \/ HangUp \/ Crash
    PROVE  Emptying'
  <1> USE DEF Emptying
  <1>1. CASE Land
    <2>1. PICK m \in late : Store(m) /\ late' = late \ {m}
      BY <1>1 DEF Land
    <2>2. Mutation(m) /\ m.op \in {"delete", "found"} /\ UNCHANGED <<handler, ctl>>
      BY <1>1 DEF Land, Typed, Uncut
    <2>3. CASE m.op = "delete"
      <3>1. ns' = ns /\ objs' \subseteq objs
        BY <2>1, <2>3, Deleted
      <3> QED BY <2>1, <2>2, <3>1 DEF EmptiedBeforeGone, Writes, Passes, Empty, Left
    <2>4. CASE m.op = "found"
      <3>1. m.was = {} /\ (\A n \in m.to : Active(n)) /\ objs' = objs
        BY <2>1, <2>4, Moved DEF Writes
      <3>2. CASE ns = {}
        <4>1. ns' = m.to /\ Empty /\ ctl.pc \notin {"gc", "finalize"}
          BY <2>1, <2>4, <3>1, <3>2, Moved DEF EmptiedBeforeGone, Empty, Exempt, Passes
        <4>2. handler # Idle =>
                 ~Makes(handler) /\ handler.op \notin {"mark", "finalize", "remove"}
          BY <3>2 DEF Writes
        <4>3. Writes'
          BY <2>1, <2>2, <3>1, <4>1, <4>2 DEF Writes, Makes
        <4> QED BY <2>2, <3>1, <4>1, <4>3 DEF EmptiedBeforeGone, Empty, Exempt, Passes
      <3>3. CASE ns # {}
        <4>1. ns' = ns
          BY <2>1, <2>4, <3>1, <3>3, Moved
        <4> QED BY <2>1, <2>2, <3>1, <4>1 DEF EmptiedBeforeGone, Empty, Exempt, Passes, Writes, Left
      <3> QED BY <3>2, <3>3
    <2> QED BY <2>2, <2>3, <2>4
  <1>2. CASE HangUp
    <2>1. /\ UNCHANGED <<ns, objs, ctl>> /\ handler' = Idle
          /\ handler # Idle /\ handler.op \in {"delete", "found"}
          /\ late' \subseteq late \cup {handler}
      BY <1>2 DEF HangUp, store, Uncut
    <2>2. Writes'
      BY <2>1 DEF Writes
    <2> QED BY <2>1, <2>2 DEF EmptiedBeforeGone, Passes, Empty, Left
  <1>3. CASE Crash
    <2>1. UNCHANGED <<ns, objs>> /\ handler' = Idle /\ late' = {} /\ ctl' = Idle
      BY <1>3 DEF Crash, store
    <2>2. handler = Idle \/ handler.op # "remove"
      BY <1>3 DEF Crash, Uncut, Typed, Mutation, Makes
    <2> QED BY <2>1, <2>2 DEF EmptiedBeforeGone, Passes, Writes, Idle
  <1> QED BY <1>1, <1>2, <1>3

\* A pass of the controller.
LEMMA EmptyingPass ==
    ASSUME Typed, Emptying, reconcile_namespace \/ gc_list \/ gc_delete \/ gc_end \/ Answered
    PROVE  Emptying'
  <1> USE DEF Emptying
  <1>1. UNCHANGED <<ns, handler, late>> /\ objs' \subseteq objs
    BY DEF reconcile_namespace, gc_list, gc_delete, gc_end, Answered, ctlOnly, store
  <1>2. EmptiedBeforeGone'
    BY <1>1 DEF EmptiedBeforeGone
  <1>3. handler # Idle => handler.op \notin {"finalize", "remove"}
    <2>1. CASE Answered
      BY <2>1 DEF Answered, Controllers
    <2>2. CASE reconcile_namespace
      <3>1. ctl.pc = "idle"
        BY <2>2 DEF reconcile_namespace, Idle
      <3> QED BY <3>1 DEF Writes
    <2>3. CASE gc_list \/ gc_delete \/ gc_end
      <3>1. ctl.pc = "gc"
        BY <2>3 DEF gc_list, gc_delete, gc_end
      <3> QED BY <3>1 DEF Writes
    <2> QED BY <2>1, <2>2, <2>3
  <1>4. Writes'
    BY <1>1, <1>3 DEF Writes
  <1>5. CASE reconcile_namespace
    <2>1. PICK n \in ns :
            ctl' = IF n.terminating
                   THEN [pc |-> "gc", todo |-> Collected, items |-> {}, count |-> 0]
                   ELSE IF Stored("sa", "default") = {} THEN [pc |-> "provision"] ELSE Idle
      BY <1>5 DEF reconcile_namespace
    <2>2. CASE n.terminating
      <3>1. ctl' = [pc |-> "gc", todo |-> Collected, items |-> {}, count |-> 0]
        BY <2>1, <2>2
      <3>2. Ending(n)
        BY <1>3, <2>2 DEF Writes, Active
      <3>3. \A o \in objs : Exempt(o) \/ o.kind \in {"sa", "pod", "svc"}
        BY KindsAre, CollectedAre DEF Typed, Objects, Object, Exempt
      <3>4. /\ Len(Collected) = 3 /\ Collected[1] = "pod" /\ Collected[2] = "svc"
            /\ Collected[3] = "sa"
        BY DEF Collected
      <3>5. {"sa", "pod", "svc"} \subseteq Left'
        BY <3>1, <3>4 DEF Left
      <3>6. Passes'
        BY <1>1, <3>1, <3>2, <3>3, <3>5 DEF Passes
      <3> QED BY <1>2, <1>4, <3>6
    <2>3. CASE ~n.terminating
      BY <1>2, <1>4, <2>1, <2>3 DEF Passes, Idle
    <2> QED BY <2>2, <2>3
  <1>6. CASE gc_list
    <2> DEFINE items == {o \in objs : o.kind = Head(ctl.todo)}
    <2>1. /\ ctl \in [pc : {"gc"}, todo : Seq(Kinds), items : SUBSET Objects, count : Nat]
          /\ ctl.todo # <<>> /\ ctl.items = {} /\ objs' = objs
          /\ ctl' = [ctl EXCEPT !.todo = Tail(@), !.items = items]
      BY <1>6 DEF gc_list, Typed, Pass, ctlOnly, store
    <2>2. /\ ctl'.pc = "gc" /\ ctl'.todo = Tail(ctl.todo) /\ ctl'.items = items
          /\ ctl'.count = ctl.count
      BY <2>1
    <2>3. \A k \in Left : k = Head(ctl.todo) \/ k \in Left'
      <3> SUFFICES ASSUME NEW i \in 1..Len(ctl.todo), i # 1 PROVE ctl.todo[i] \in Left'
        BY <2>1 DEF Left
      <3>1. i - 1 \in 1..Len(Tail(ctl.todo)) /\ Tail(ctl.todo)[i - 1] = ctl.todo[i]
        BY <2>1
      <3> QED BY <2>2, <3>1 DEF Left
    <2>4. Passes'
      BY <1>1, <2>1, <2>2, <2>3 DEF Passes
    <2> QED BY <1>2, <1>4, <2>4
  <1>7. CASE gc_delete
    <2>1. PICK o \in ctl.items :
            /\ ctl' = [ctl EXCEPT !.items = @ \ {o},
                                  !.count = @ + Cardinality(Stored(o.kind, o.name))]
            /\ objs' = objs \ Stored(o.kind, o.name)
      BY <1>7 DEF gc_delete
    <2> DEFINE now == Stored(o.kind, o.name)
    <2>2. ctl \in [pc : {"gc"}, todo : Seq(Kinds), items : SUBSET Objects, count : Nat]
      BY <1>7 DEF gc_delete, Typed, Pass
    <2>3. /\ ctl'.pc = "gc" /\ ctl'.todo = ctl.todo /\ ctl'.items = ctl.items \ {o}
          /\ ctl'.count = ctl.count + Cardinality(now)
      BY <2>1, <2>2
    <2>4. Cardinality(now) \in Nat /\ (Cardinality(now) = 0 => now = {})
      BY StoredIsOne
    <2>5. Left' = Left
      BY <2>3 DEF Left
    <2>6. ctl'.count = 0 => ctl.count = 0 /\ now = {}
      BY <2>2, <2>3, <2>4
    <2>7. ASSUME ctl'.count = 0, NEW p \in objs', ~Exempt(p), p.kind \notin Left'
          PROVE  \E i \in ctl'.items : i.kind = p.kind /\ i.name = p.name
      <3>1. PICK i \in ctl.items : i.kind = p.kind /\ i.name = p.name
        BY <1>1, <2>2, <2>5, <2>6, <2>7 DEF Passes
      <3>2. i # o
        BY <1>1, <2>6, <2>7, <3>1 DEF Stored
      <3> QED BY <2>3, <3>1, <3>2
    <2>8. Passes'
      BY <1>1, <2>2, <2>3, <2>7 DEF Passes
    <2> QED BY <1>2, <1>4, <2>8
  <1>8. CASE gc_end
    <2>1. /\ ctl.pc = "gc" /\ ctl.items = {} /\ ctl.todo = <<>> /\ objs' = objs
          /\ ctl' = IF ctl.count = 0 /\ \E n \in ns : n.finalizer
                    THEN [pc |-> "finalize", was |-> ns] ELSE Idle
      BY <1>8 DEF gc_end, ctlOnly, store
    <2>2. Left = {}
      BY <2>1 DEF Left
    <2>3. ctl.count = 0 => Empty
      BY <2>1, <2>2 DEF Passes, Empty
    <2>4. Passes'
      BY <1>1, <2>1, <2>3 DEF Passes, Empty, Idle
    <2> QED BY <1>2, <1>4, <2>4
  <1>9. CASE Answered
    BY <1>2, <1>4, <1>9 DEF Answered, Passes, Idle
  <1> QED BY <1>5, <1>6, <1>7, <1>8, <1>9

LEMMA EmptyingStepwise ==
    ASSUME Uncut, Typed, Emptying, [Next]_vars
    PROVE  Emptying'
  <1>1. CASE Commit \/ RemoveNamespace
    <2>1. handler # Idle /\ Mutation(handler)
      BY <1>1 DEF Typed, Commit, RemoveNamespace, Idle
    <2>2. RemoveNamespace => handler.op = "remove"
      BY <2>1 DEF RemoveNamespace, Mutation, Makes
    <2> QED BY <1>1, <2>1, <2>2, FiveOps, EmptyingObjects, EmptyingNamespace DEF Makes
  <1>2. CASE UNCHANGED vars
    BY <1>2 DEF vars, Emptying, EmptiedBeforeGone, Writes, Passes, Empty, Left
  <1> QED BY <1>1, <1>2, EmptyingRequest, EmptyingFailures, EmptyingPass
      DEF Next, Users, Handler, Controller

\* A Namespace that is gone has left nothing of the collected kinds but what was
\* applied while it was terminating, whatever was created, deleted and dropped
\* before and while it was being emptied (write.rs, delete_namespace;
\* controllers lib.rs, collect_terminating_namespace).  That
\* needs both hypotheses: with a crash between the commit that clears the
\* finalizer and the one that removes the Namespace, a pass begun for one
\* Namespace may finalize the next of its name (NamespaceMixed.cfg).
THEOREM NamespacesAreEmptied ==
    ASSUME Uncut
    PROVE  Spec => []EmptiedBeforeGone
  <1>1. Init => Typed /\ Emptying
    BY TypedInitially
    DEF Init, Emptying, EmptiedBeforeGone, Writes, Passes, Active, Idle
  <1>2. (Typed /\ Emptying) /\ [Next]_vars => (Typed /\ Emptying)'
    BY TypedStepwise, EmptyingStepwise
  <1>3. Typed /\ Emptying => EmptiedBeforeGone
    BY DEF Emptying
  <1> QED BY <1>1, <1>2, <1>3, PTL DEF Spec
=============================================================================
