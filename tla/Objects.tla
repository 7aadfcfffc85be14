------------------------------ MODULE Objects -------------------------------
(***************************************************************************)
(* Writes of one object through the API (h3s-apiserver): create, PUT,      *)
(* merge patches, the status subresource, delete, and server-side apply    *)
(* with its field ownership (apply.rs).  Several servers share a registry; *)
(* each runs one mutation at a time, from its read of the stored object to *)
(* the compare-and-set that commits it.                                    *)
(*                                                                         *)
(* An object's fields are a tree, kept as a function from the paths of its *)
(* leaves to their values.  A list whose items have names is keyed by      *)
(* them: the item x of env holds <<"env","x","name">> and may hold         *)
(* <<"env","x","value">>; an empty list is a leaf, <<"env">>.  An item     *)
(* that lost its name keeps its value v as the leaf <<"env","",v>>, so     *)
(* equal items without a name count once.                                  *)
(***************************************************************************)
EXTENDS Naturals, FiniteSets, FiniteSetsExt, Sequences, SequencesExt, Functions

CONSTANTS
    Kinds,        \* a subset of {"Deployment", "Secret"}
    Managers,     \* field managers, numbered in the order of their names
    Clients,      \* clients that read an object and put it back
    Servers,
    Words,        \* names, keys and values that occur
    Order,        \* every path a body has, in the order of a set of paths
    Bodies(_),    \* the objects of a kind that a client sends
    Edits(_),     \* the changes of one: [set, drop]
    Statuses,
    RevisionLimit   \* bound on the revision a request may start at

VARIABLES
    kind,      \* what the object is
    stored,    \* the object in the registry, or Absent
    revision,  \* the registry's revision
    pending,   \* by server: the mutation it will commit
    copy,      \* by client: the object it read last
    said       \* history: by manager, the paths of its applies of this object

ovars == <<kind, stored, revision, pending, copy, said>>

Env == <<"env">>
Name(i) == <<"env", i, "name">>
Value(i) == <<"env", i, "value">>
Nameless(v) == <<"env", "", v>>
Fixed == IF kind = "Deployment" THEN <<"selector">> ELSE <<"type">>

\* Which kinds have a status; of these two it is also the one that has a
\* generation.
HasStatus == kind = "Deployment"

\* managedFields, read back as it was written: by manager, the paths it owns,
\* none if it has no entry.
Entries == [Managers -> SUBSET Range(Order)]

Absent == [rev |-> 0, uid |-> 0, gen |-> 0, tree |-> <<>>, status |-> "",
           managed |-> [m \in Managers |-> {}]]
Idle == [op |-> "none"]

\* Fields other than env are at most two segments deep; replicas is a number.
Leaf ==
    {p \in Seq(Words) :
        \/ p = Env
        \/ Len(p) = 3 /\ p[1] = "env"
        \/ Len(p) \in {1, 2} /\ p[1] # "env" /\ (p[1] = "replicas" => Len(p) = 1)}
Tree(t) ==
    /\ DOMAIN t \subseteq Leaf /\ t \in [DOMAIN t -> Words]
    /\ \A p, q \in DOMAIN t : IsPrefix(p, q) => p = q
    /\ Env \in DOMAIN t => t[Env] = "[]"
    /\ \A v \in Words : Nameless(v) \in DOMAIN t => t[Nameless(v)] = v

ASSUME ObjectsAssumption ==
    /\ Kinds \subseteq {"Deployment", "Secret"} /\ Managers \subseteq Nat
    /\ {"env", "name", "value", "", "[]", "replicas", "1"} \subseteq Words
    /\ Order \in Seq(Leaf) /\ "new" \in Statuses
    /\ RevisionLimit \in Nat
    /\ \A k \in Kinds :
          /\ \A b \in Bodies(k) : Tree(b) /\ DOMAIN b \subseteq Range(Order)
          /\ \A e \in Edits(k) : Tree(e.set) /\ e.drop \subseteq Seq(Words)

OTypeOK ==
    /\ kind \in Kinds /\ revision \in Nat
    /\ \A o \in {stored} \cup Range(copy) :
          /\ o.rev \in 0..revision /\ o.uid \in 0..o.rev /\ o.gen \in Nat
          /\ Tree(o.tree) /\ o.status \in Statuses \cup {""}
          /\ o.managed \in Entries
    /\ \A s \in Servers : pending[s].op \in
          {"none", "create", "put", "status", "patch", "apply", "delete"}
    /\ said \in Entries

OInit ==
    /\ kind \in Kinds
    /\ stored = Absent /\ revision = 0
    /\ pending = [s \in Servers |-> Idle]
    /\ copy = [c \in Clients |-> Absent]
    /\ said = [m \in Managers |-> {}]

-----------------------------------------------------------------------------
(* Trees                                                                   *)

Under(t, p) == {q \in DOMAIN t : IsPrefix(p, q)}
At(t, p) == Restrict(t, Under(t, p))
Without(t, P) == Restrict(t, DOMAIN t \ P)
With(t, p, v) == [q \in DOMAIN t \cup {p} |-> IF q = p THEN v ELSE t[q]]

\* A list that lost its last item is an empty list.
Relisted(before, t) ==
    IF Under(before, Env) # {} /\ Under(t, Env) = {} THEN With(t, Env, "[]") ELSE t

\* Every leaf of body is put in place of what is above and below it.
Overlay(t, body) ==
    LET off == {q \in DOMAIN t : \E p \in DOMAIN body : IsPrefix(p, q) \/ IsPrefix(q, p)}
    IN [q \in (DOMAIN t \ off) \cup DOMAIN body |->
           IF q \in DOMAIN body THEN body[q] ELSE t[q]]

\* An item is found by its name, its name included in what can be removed:
\* the fields that are removed after it are no longer found.
remove(t, p) ==
    IF Len(p) < 3 THEN Without(t, Under(t, p))
    ELSE LET i == p[2]
         IN IF Name(i) \notin DOMAIN t THEN t
            ELSE IF p = Name(i) /\ Value(i) \in DOMAIN t
            THEN With(Without(t, {Name(i), Value(i)}), Nameless(t[Value(i)]), t[Value(i)])
            ELSE Relisted(t, Without(t, {p}))

OnlyNamed(t) ==
    {q \in DOMAIN t : Len(q) = 3 /\ q[2] # "" /\ Under(t, SubSeq(q, 1, 2)) = {Name(q[2])}}
Prune(t) == Relisted(t, Without(t, OnlyNamed(t)))

-----------------------------------------------------------------------------
(* Server-side apply                                                       *)

Declared(body) == DOMAIN body

Owners(managed, m, p) == {n \in Managers \ {m} : \E o \in managed[n] : IsPrefix(o, p)}
\* Fault: an apply does not test ownership of fields it declared before.
ContestedNewly(managed, m, body, p) ==
    /\ p \notin managed[m]
    /\ Owners(managed, m, p) # {} /\ At(stored.tree, p) # At(body, p)

Contested(managed, m, body, p) ==
    Owners(managed, m, p) # {} /\ At(stored.tree, p) # At(body, p)

\* What is left of the others' entries by a forced apply: the owner of a
\* contested field keeps the paths that lead to it.
Forced(m, body) ==
    LET take(managed, p) ==
            IF p \in Declared(body) /\ Contested(managed, m, body, p)
            THEN [managed EXCEPT ![Min(Owners(managed, m, p))] =
                     {o \in @ : IsPrefix(o, p)}]
            ELSE managed
    IN FoldLeft(take, stored.managed, Order)

Dropped(m, body) ==
    {p \in stored.managed[m] : ~ \E d \in Declared(body) : IsPrefix(p, d)}

\* What the manager no longer declares is removed, field by field.
Kept(m, body) ==
    LET drop(t, p) == IF p \in Dropped(m, body) THEN remove(t, p) ELSE t
    IN FoldLeft(drop, stored.tree, Order)

\* Fault: taking a field over moves the owner's whole entry to the taker.
MergedGreedily(m, body) ==
    LET forced == Forced(m, body)
        gained == UNION {stored.managed[n] \ forced[n] : n \in Managers}
    IN [tree |-> Overlay(Prune(Kept(m, body)), body),
        managed |-> [forced EXCEPT ![m] = Declared(body) \cup gained]]

\* The tree and the entries server_side makes of what is stored.
Merged(m, body) ==
    [tree |-> Overlay(Prune(Kept(m, body)), body),
     managed |-> [Forced(m, body) EXCEPT ![m] = Declared(body)]]

-----------------------------------------------------------------------------
(* The write pipeline                                                      *)

Exists == stored # Absent

\* Defaults of a kind, and what its strategy refuses.
Defaulted(t) ==
    IF kind = "Deployment" /\ <<"replicas">> \notin DOMAIN t
    THEN With(t, <<"replicas">>, "1") ELSE t

Immutable(t) == <<"immutable">> \in DOMAIN t /\ t[<<"immutable">>] = "true"

Valid(t) ==
    /\ kind = "Deployment" => Fixed \in DOMAIN t
    /\ Exists => At(t, Fixed) = At(stored.tree, Fixed)
    /\ kind = "Secret" /\ Exists /\ Immutable(stored.tree) =>
          Immutable(t) /\ At(t, <<"data">>) = At(stored.tree, <<"data">>)
\* Fault: only a change of the leaves there were before counts.
GenerationOfOld(t) ==
    IF ~HasStatus THEN 0
    ELSE IF ~Exists THEN 1
    ELSE stored.gen + (IF \A q \in DOMAIN stored.tree : At(t, q) = At(stored.tree, q)
                       THEN 0 ELSE 1)

Generation(t) ==
    IF ~HasStatus THEN 0
    ELSE IF ~Exists THEN 1
    ELSE stored.gen + (IF t = stored.tree THEN 0 ELSE 1)

\* The object a write of the tree t and the entries would store: its status
\* and identity are those of the stored object.
Prepared(t, managed) ==
    [stored EXCEPT !.tree = t, !.managed = managed, !.gen = Generation(t),
                   !.status = IF ~Exists /\ HasStatus THEN "new" ELSE @]

\* Server s has read the registry and holds its lock until the commit.
Begin(s) == pending[s] = Idle /\ revision < RevisionLimit

Request(s, r) ==
    /\ pending' = [pending EXCEPT ![s] = r]
    /\ UNCHANGED <<kind, stored, revision, copy, said>>

\* A write of a tree the kind's strategy admits.
Write(s, op, t, managed, seen, args) ==
    LET full == Defaulted(t)
    IN /\ Valid(full)
       /\ Request(s, [op |-> op, new |-> Prepared(full, managed), seen |-> seen,
                      expected |-> stored.rev, args |-> args])

CreateRequest(s) ==
    /\ Begin(s) /\ ~Exists
    /\ \E b \in Bodies(kind) : Write(s, "create", b, Absent.managed, Absent, <<>>)

ApplyRequest(s, m) ==
    /\ Begin(s)
    /\ \E b \in Bodies(kind), force \in BOOLEAN :
          /\ force \/ \A p \in Declared(b) : ~Contested(stored.managed, m, b, p)
          /\ LET merged == Merged(m, b)
             IN Write(s, "apply", merged.tree, merged.managed, stored,
                      [by |-> m, body |-> b, force |-> force])

\* The changes of a whole object or a JSON merge: a list is given whole.
JsonMerged(t, e) ==
    LET lists == IF Under(e.set, Env) = {} THEN {} ELSE Under(t, Env)
    IN Overlay(Without(t, lists \cup UNION {Under(t, p) : p \in e.drop}), e.set)

\* A strategic merge keeps the items it does not name; all must have names.
StrategicMerged(t, e) ==
    Overlay(Relisted(t, Without(t, UNION {Under(t, p) : p \in e.drop})), e.set)
Strategic(t, e) ==
    \A p \in DOMAIN e.set \cup e.drop : IsPrefix(Env, p) =>
        ~ \E q \in Under(t, Env) : Len(q) = 3 /\ q[2] = ""

\* Helm's Secrets may be put without the revision that was read.
PutRequest(s, c) ==
    /\ Begin(s) /\ Exists /\ copy[c] # Absent
    /\ \E e \in Edits(kind), blind \in BOOLEAN :
          /\ blind => kind = "Secret"
          /\ blind \/ copy[c].rev = stored.rev
          /\ copy[c].uid = stored.uid
          /\ Write(s, "put", JsonMerged(copy[c].tree, e), copy[c].managed,
                   IF blind THEN stored ELSE copy[c], <<>>)

PatchRequest(s) ==
    /\ Begin(s) /\ Exists
    /\ \E e \in Edits(kind) :
          \/ Write(s, "patch", JsonMerged(stored.tree, e), stored.managed, stored, <<>>)
          \/ /\ kind = "Deployment" => Strategic(stored.tree, e)
             /\ Write(s, "patch", StrategicMerged(stored.tree, e), stored.managed, stored, <<>>)

\* The status subresource keeps everything but the status.
StatusRequest(s, c) ==
    /\ Begin(s) /\ Exists /\ HasStatus /\ copy[c].rev = stored.rev
    /\ \E st \in Statuses :
          Request(s, [op |-> "status", new |-> [stored EXCEPT !.status = st],
                      seen |-> copy[c], expected |-> stored.rev, args |-> <<>>])

DeleteRequest(s) ==
    /\ Begin(s) /\ Exists
    /\ Request(s, [op |-> "delete", new |-> Absent, seen |-> stored,
                   expected |-> stored.rev, args |-> <<>>])

\* The registry compares the revision and stores; a conflict is the answer of
\* a request that comes too late.
Compared(r) == stored.rev = r.expected

Commit(s) ==
    LET r == pending[s]
        next == revision + 1
    IN /\ r # Idle
       /\ pending' = [pending EXCEPT ![s] = Idle]
       /\ IF Compared(r)
          THEN /\ revision' = next
               /\ stored' = IF r.op = "delete" THEN Absent
                            ELSE [r.new EXCEPT !.rev = next,
                                               !.uid = IF r.expected = 0 THEN next ELSE @]
               /\ said' = CASE r.op = "apply" ->
                                 [said EXCEPT ![r.args.by] = @ \cup Declared(r.args.body)]
                            [] r.op = "delete" -> [m \in Managers |-> {}]
                            [] OTHER -> said
          ELSE UNCHANGED <<revision, stored, said>>
       /\ UNCHANGED <<kind, copy>>

\* A server stops before its commit.
Crash(s) == pending[s] # Idle /\ Request(s, Idle)

ClientRead(c) ==
    /\ copy' = [copy EXCEPT ![c] = stored]
    /\ UNCHANGED <<kind, stored, revision, pending, said>>

ONext ==
    \/ \E s \in Servers :
          \/ CreateRequest(s) \/ PatchRequest(s) \/ DeleteRequest(s)
          \/ \E m \in Managers : ApplyRequest(s, m)
          \/ \E c \in Clients : PutRequest(s, c) \/ StatusRequest(s, c)
          \/ Commit(s) \/ Crash(s)
    \/ \E c \in Clients : ClientRead(c)

OSpec == OInit /\ [][ONext]_ovars

-----------------------------------------------------------------------------
(* Properties                                                              *)

Committed(s) == pending[s] # Idle /\ pending'[s] = Idle /\ stored' # stored
Applied(s) == Committed(s) /\ pending[s].op = "apply"
Leaves(t, u) == {q \in DOMAIN t \cup DOMAIN u : At(t, q) # At(u, q)}

\* What a write commits over is what its author had read: a client's PUT
\* (write.rs, concurrency) the copy the client edited, and a patch, an apply
\* or a delete what the server read, whatever other servers did meanwhile.
NoLostUpdate == [][\A s \in Servers : Committed(s) => pending[s].seen = stored]_ovars

\* An apply changes only fields its manager declares or had declared, and
\* the items they are in; apart from these, it drops the items that are only
\* a name (apply.rs, server_side and prune).
AppliesTouchTheirOwn ==
    [][\A s \in Servers : Applied(s) =>
          LET r == pending[s].args
              mine == Declared(r.body) \cup said[r.by]
              near(p, q) == \/ IsPrefix(p, q) \/ IsPrefix(q, p)
                            \/ Len(p) = 3 /\ Len(q) = 3 /\ q[2] \in {"", p[2]}
          IN \A q \in Leaves(stored.tree, stored'.tree) :
                \/ \E p \in mine : near(p, q)
                \/ q \in Leaves(stored.tree, Prune(stored.tree))
                \/ ~Exists /\ q = <<"replicas">>]_ovars

\* An apply without force never gives another value to a field that another
\* manager owns (one it owned too and drops is removed, and may be defaulted):
\* it is refused even when the owner came in between.
NoSilentOverwrite ==
    [][\A s \in Servers : Applied(s) /\ ~pending[s].args.force =>
          LET r == pending[s].args
          IN \A n \in Managers \ {r.by} : \A o \in stored.managed[n] \ Dropped(r.by, r.body) :
             o \in DOMAIN stored.tree \cap DOMAIN stored'.tree =>
                stored'.tree[o] = stored.tree[o]]_ovars

\* An apply stays within what its manager may change.
OwnershipKept == AppliesTouchTheirOwn /\ NoSilentOverwrite

\* Ownership is never invented nor inherited: a manager's entry holds paths
\* that it declared in its own applies of this very object, and no others,
\* through patches, PUTs of older copies, takeovers and re-creation (apply.rs,
\* server_side).
OwnersDeclared == OTypeOK /\ \A m \in Managers : stored.managed[m] \subseteq said[m]

\* As long as an object lives its generation counts the changes of its fields
\* one by one, and no write changes both fields and status (strategy.rs,
\* prepare): the controllers' observedGeneration rests on it.
GenerationCounts ==
    [][Exists /\ stored'.uid = stored.uid =>
          LET changed == stored'.tree # stored.tree
          IN /\ stored'.gen = stored.gen + (IF changed /\ HasStatus THEN 1 ELSE 0)
             /\ ~(changed /\ stored'.status # stored.status)]_ovars

\* By no kind of write does a live object change its selector or type, or an
\* immutable Secret its data or its mark (strategy.rs, prepare).
ImmutableStays ==
    [][Exists /\ stored'.uid = stored.uid =>
          /\ At(stored'.tree, Fixed) = At(stored.tree, Fixed)
          /\ kind = "Secret" /\ Immutable(stored.tree) =>
                /\ Immutable(stored'.tree)
                /\ At(stored'.tree, <<"data">>) = At(stored.tree, <<"data">>)]_ovars

\* What a write may never do to the object it replaces.
UpdatesAreSound == NoLostUpdate /\ GenerationCounts /\ ImmutableStays

\* "A field the applying manager no longer declares is removed" (the head of
\* apply.rs): nothing of an item whose fields a manager drops is left behind.
DroppedFieldsGo ==
    [][\A s \in Servers : Applied(s) =>
          \A q \in DOMAIN stored'.tree \ DOMAIN stored.tree : Len(q) = 3 => q[2] # ""]_ovars

\* "... unless the request forces it, in which case ownership moves here"
\* (apply.rs, server_side): no other manager still owns a field that a forced
\* apply changed.
ForceMovesOwnership ==
    [][\A s \in Servers : Applied(s) =>
          \A p \in Declared(pending[s].args.body) :
             At(stored.tree, p) # At(pending[s].args.body, p) =>
                Owners(stored'.managed, pending[s].args.by, p) = {}]_ovars
=============================================================================
