--------------------------- MODULE RolloutProofs ---------------------------
(***************************************************************************)
(* Proofs about Rollout, for any templates and any Deployments: pruning    *)
(* takes the set of no Pod, and Recreate never mixes templates.            *)
(*                                                                         *)
(* Both rest on one fact about what the two controllers read late: a set   *)
(* whose scale-down to zero has been observed has no reconciliation in     *)
(* progress that could still create a Pod (Settled).                       *)
(***************************************************************************)
EXTENDS Rollout, FiniteSetTheorems, WellFoundedInduction, TLAPS

\* A ReplicaSet, with what the provers need of the types of its fields.
IsSet(s) ==
    /\ s \in [replicas : {s.replicas}, generation : Nat, observed : Nat,
              count : {s.count}, available : {s.available}]
    /\ s.observed <= s.generation

\* A reconciliation of a set: what was decided on the Pods that were listed
\* creates none when the set asks for none.
IsReconciliation(r) ==
    \/ r = SetIdle
    \/ r \in [pc : {"list"}, set : {r.set}]
    \/ /\ r \in [pc : {"live", "write", "relist", "status"}, set : {r.set}, seen : {r.seen},
                 create : {r.create}, victims : {r.victims}]
       /\ r.set.replicas = 0 => r.create = 0

\* What the Deployment controller is about: one creation or scaling, or only
\* prunings.
IsPlan(todo) ==
    \/ \A w \in todo : w.op = "prune" /\ w.set \in Templates
    \/ \E w : todo = {w} /\ w.op \in {"create", "scale"} /\ w.set \in Templates

IsDeploying(c) ==
    \/ c = DepIdle
    \/ c \in [pc : {"list", "status"}, d : Deployment]
    \/ /\ c \in [pc : {"pods", "live", "write"}, d : Deployment, todo : {c.todo},
                 sets : {c.sets}]
       /\ IsPlan(c.todo)

Typed ==
    /\ setting \in Settings /\ dep \subseteq Deployment
    /\ sets = [t \in Templates |-> sets[t]] /\ rc = [t \in Templates |-> rc[t]]
    /\ \A t \in Templates : sets[t] = {} \/ \E s : sets[t] = {s} /\ IsSet(s)
    /\ pods \subseteq Pod /\ IsFiniteSet(pods)
    /\ \A t \in Templates : IsReconciliation(rc[t])
    /\ IsDeploying(dc)

\* No Pod of t will be created on what has been read so far.
Quiet(t) == rc[t].pc # "idle" => rc[t].set.replicas = 0

Emptied(s) == s.observed = s.generation /\ s.replicas = 0

\* An observed scale-down to zero is final: only its own reconciliation
\* observes it, and that one has ended.
Settled == \A t \in Templates : \A s \in sets[t] : Emptied(s) => Quiet(t)

\* A set that is pruned has been emptied and, once the Pods were listed, no Pod
\* names it; one that is gone has no Pod and gets none.
Pruned ==
    dep # {} =>
        /\ \A t \in Templates : sets[t] = {} => Owned(pods, t) = {} /\ Quiet(t)
        /\ dc.pc \in {"pods", "live", "write"} =>
              \A w \in dc.todo : w.op = "prune" =>
                  /\ \A s \in sets[w.set] : Emptied(s)
                  /\ dc.pc # "pods" => Owned(pods, w.set) = {}

\* Nothing of t is there or to come.
Cold(t) == /\ Owned(pods, t) = {} /\ Quiet(t)
           /\ \A s \in sets[t] : s.replicas = 0

ScalesUp(w) == w.op = "scale" /\ w.replicas # 0

\* Recreate: all templates but one are cold, and those but the one that is
\* about to be scaled up.
Recreating ==
    Strategy = "Recreate" =>
        /\ \A t \in Templates : \A s \in sets[t] : s.replicas \in Nat
        /\ dc.pc \in {"pods", "live", "write"} =>
              \A w \in dc.todo : w.op = "scale" => w.replicas \in Nat
        /\ \A t, u \in Templates : t # u => Cold(t) \/ Cold(u)
        /\ dc.pc = "pods" =>
              \A w \in dc.todo : ScalesUp(w) =>
                  /\ w.set = dc.d.template
                  /\ \A u \in Templates \ {w.set} :
                        /\ \A s \in sets[u] : Emptied(s)
                        /\ dc.sets[u] = {} => sets[u] = {}
        /\ dc.pc = "write" \/ (dc.pc = "live" /\ dep # {}) =>
              \A w \in dc.todo : ScalesUp(w) => \A u \in Templates \ {w.set} : Cold(u)

IInv == Typed /\ Settled /\ Pruned /\ Recreating

-----------------------------------------------------------------------------
(* Types.                                                                  *)

LEMMA SettingIs ==
    ASSUME setting \in Settings
    PROVE  Replicas \subseteq Nat /\ Burst \in Nat \ {0} /\ MaxPods \in Nat
  BY RolloutAssumption DEF Replicas, Burst, MaxPods

\* The Deployment of a behaviour never changes its kind.
LEMMA SameTypes ==
    ASSUME setting' = setting
    PROVE  Deployment' = Deployment /\ Pod' = Pod /\ Strategy' = Strategy /\ Replicas' = Replicas
  BY DEF Deployment, Replicas, Pod, MaxPods, Strategy

LEMMA OwnedAreFinite ==
    ASSUME NEW S, IsFiniteSet(S), NEW t
    PROVE  Owned(S, t) \subseteq S /\ Cardinality(Owned(S, t)) \in Nat
  <1>1. Owned(S, t) \subseteq S
    BY DEF Owned
  <1> QED BY <1>1, FS_Subset, FS_CardinalityType

\* The uid of a new Pod is an unused one.
LEMMA LeastUnused ==
    ASSUME setting \in Settings, Unused # {}
    PROVE  (CHOOSE u \in Unused : \A v \in Unused : u <= v) \in Unused
  <1>1. Unused \subseteq Nat
    BY SettingIs DEF Unused
  <1>2. PICK u \in Unused : \A v \in Unused : <<v, u>> \notin OpToRel(<, Nat)
    BY <1>1, NatLessThanWellFounded, WFMin
  <1>3. \A v \in Unused : ~(v < u)
    BY <1>1, <1>2, Zenon DEF OpToRel
  <1>4. \A v \in Unused : u <= v
    BY <1>1, <1>3
  <1> QED BY <1>4

LEMMA TypedInit ==
    ASSUME Init
    PROVE  Typed
  <1>1. PICK t \in Templates, n \in Replicas :
            /\ n <= MaxPods
            /\ dep = {[template |-> t, replicas |-> n, paused |-> FALSE, generation |-> 1]}
            /\ sets = [u \in Templates |->
                         IF u = t THEN {[replicas |-> n, generation |-> 1, observed |-> 1,
                                         count |-> n, available |-> n]}
                         ELSE {}]
            /\ pods = { [uid |-> i, owner |-> t, available |-> TRUE] : i \in 1..n }
            /\ dc = DepIdle
            /\ rc = [u \in Templates |-> SetIdle]
    BY DEF Init
  <1>2. setting \in Settings
    BY DEF Init
  <1>3. n \in Nat /\ MaxPods \in Nat
    BY <1>2, SettingIs
  <1>4. dep \subseteq Deployment
    BY <1>1, <1>3 DEF Deployment
  <1>5. pods \subseteq Pod
    <2>1. \A i \in 1..n : i \in 1..MaxPods
      BY <1>1, <1>3
    <2>2. \A i \in 1..n : [uid |-> i, owner |-> t, available |-> TRUE] \in Pod
      BY <2>1 DEF Pod
    <2> QED BY <1>1, <2>2
  <1>6. IsFiniteSet(pods)
    <2> DEFINE f == [i \in 1..n |-> [uid |-> i, owner |-> t, available |-> TRUE]]
    <2>1. IsFiniteSet(1..n)
      BY <1>3, FS_Interval
    <2>2. f \in Surjection(1..n, pods)
      BY <1>1 DEF Surjection
    <2> QED BY <2>1, <2>2, FS_Surjection
  <1>7. \A u \in Templates : sets[u] = {} \/ \E s : sets[u] = {s} /\ IsSet(s)
    <2> DEFINE s == [replicas |-> n, generation |-> 1, observed |-> 1,
                     count |-> n, available |-> n]
    <2>1. IsSet(s)
      BY DEF IsSet
    <2>2. \A u \in Templates : sets[u] = {} \/ sets[u] = {s}
      BY <1>1
    <2> QED BY <2>1, <2>2
  <1> QED BY <1>1, <1>2, <1>4, <1>5, <1>6, <1>7 DEF Typed, IsReconciliation, IsDeploying

\* Users, failures and the collector.
LEMMA TypedSurroundings ==
    ASSUME Typed,
           UserEdit \/ PodDelete \/ PodReady \/ PodUnready \/ Collector \/ ServerRestart
    PROVE  Typed'
  <1> USE DEF Typed
  <1>0. /\ setting' = setting
        /\ Deployment' = Deployment /\ Pod' = Pod
    <2>1. setting' = setting
      BY DEF UserEdit, PodDelete, PodReady, PodUnready, PodBecomes, Collector, GcPod, GcSet,
             ServerRestart
    <2> QED BY <2>1, SameTypes
  <1>1. CASE UserEdit
    <2>1. dep' \subseteq Deployment
      <3>1. PICK d \in dep :
               \/ \E t \in Templates : Edited([d EXCEPT !.template = t])
               \/ \E n \in Replicas : Edited([d EXCEPT !.replicas = n])
               \/ Edited([d EXCEPT !.paused = ~@])
               \/ dep' = {}
        BY <1>1 DEF UserEdit
      <3>2. \/ dep' = {}
            \/ \E e \in Deployment : dep' = {[e EXCEPT !.generation = @ + 1]}
        BY <3>1 DEF Deployment, Edited
      <3> QED BY <3>2 DEF Deployment
    <2>2. UNCHANGED <<sets, pods, dc, rc>>
      BY <1>1 DEF UserEdit
    <2> QED BY <1>0, <2>1, <2>2 DEF IsDeploying
  <1>2. CASE PodDelete \/ PodReady \/ PodUnready \/ GcPod
    <2>1. UNCHANGED <<dep, sets, dc, rc>>
      BY <1>2 DEF PodDelete, PodReady, PodUnready, PodBecomes, GcPod
    <2>2. PICK p \in pods : \/ pods' = pods \ {p}
                            \/ \E a \in BOOLEAN : pods' = (pods \ {p}) \cup {[p EXCEPT !.available = a]}
      BY <1>2 DEF PodDelete, PodReady, PodUnready, PodBecomes, GcPod
    <2>3. pods' \subseteq Pod
      BY <2>2 DEF Pod
    <2>4. IsFiniteSet(pods')
      <3>1. IsFiniteSet(pods \ {p})
        BY FS_RemoveElement
      <3>2. \A x : IsFiniteSet((pods \ {p}) \cup {x})
        BY <3>1, FS_AddElement
      <3> QED BY <3>1, <3>2, <2>2
    <2> QED BY <1>0, <2>1, <2>3, <2>4 DEF IsDeploying
  <1>3. CASE \E t \in Templates : GcSet(t)
    <2>1. UNCHANGED <<dep, pods, dc, rc>>
      BY <1>3 DEF GcSet
    <2>2. PICK t \in Templates : sets' = [sets EXCEPT ![t] = {}]
      BY <1>3 DEF GcSet
    <2>3. \A u \in Templates : sets'[u] = {} \/ sets'[u] = sets[u]
      BY <2>2
    <2>4. sets' = [u \in Templates |-> sets'[u]]
      BY <2>2
    <2> QED BY <1>0, <2>1, <2>3, <2>4 DEF IsDeploying
  <1>4. CASE ServerRestart
    BY <1>0, <1>4 DEF ServerRestart, IsReconciliation, IsDeploying
  <1> QED BY <1>1, <1>2, <1>3, <1>4 DEF Collector

\* The ReplicaSet controller.
LEMMA TypedSetController ==
    ASSUME Typed, NEW t \in Templates, ReplicaSetController(t)
    PROVE  Typed'
  <1> USE DEF Typed
  <1>0. /\ UNCHANGED <<setting, dep, dc>>
        /\ Deployment' = Deployment /\ Pod' = Pod
    <2>1. UNCHANGED <<setting, dep, dc>>
      BY DEF ReplicaSetController, RsGet, RsList, RsLive, RsCreate, RsDelete, RsRelist, RsStatus
    <2> QED BY <2>1, SameTypes
  <1>1. ASSUME UNCHANGED sets, pods' \subseteq Pod, IsFiniteSet(pods'),
               NEW r, rc' = [rc EXCEPT ![t] = r], IsReconciliation(r)
        PROVE  Typed'
    <2>1. \A u \in Templates : IsReconciliation(rc'[u])
      BY <1>1
    <2>2. rc' = [u \in Templates |-> rc'[u]]
      BY <1>1
    <2> QED BY <1>0, <1>1, <2>1, <2>2 DEF IsDeploying
  <1>2. CASE RsGet(t)
    <2>1. PICK s \in sets[t] : rc' = [rc EXCEPT ![t] = [pc |-> "list", set |-> s]]
      BY <1>2 DEF RsGet, SetGoes
    <2>2. UNCHANGED <<sets, pods>>
      BY <1>2 DEF RsGet
    <2> QED BY <1>1, <2>1, <2>2 DEF IsReconciliation
  <1>3. CASE RsList(t)
    <2> DEFINE s == rc[t].set
               own == Owned(pods, t)
    <2>1. Cardinality(own) \in Nat
      BY OwnedAreFinite
    <2>2. PICK pc, create, victims :
             /\ pc \in {"live", "status"}
             /\ rc' = [rc EXCEPT ![t] = [pc |-> pc, set |-> s, seen |-> own,
                                          create |-> create, victims |-> victims]]
             /\ create = 0 \/ Cardinality(own) < s.replicas
      BY <1>3 DEF RsList, SetGoes
    <2>3. UNCHANGED <<sets, pods>>
      BY <1>3 DEF RsList
    <2>4. s.replicas = 0 => create = 0
      BY <2>1, <2>2
    <2> QED BY <1>1, <2>2, <2>3, <2>4 DEF IsReconciliation
  <1>4. CASE RsLive(t)
    <2>1. PICK pc \in {"write", "status", "relist"} : rc' = [rc EXCEPT ![t] = [rc[t] EXCEPT !.pc = pc]]
      BY <1>4 DEF RsLive, SetGoes
    <2>2. UNCHANGED <<sets, pods>> /\ rc[t].pc = "live"
      BY <1>4 DEF RsLive
    <2> QED BY <1>1, <2>1, <2>2 DEF IsReconciliation, SetIdle
  <1>5. CASE RsCreate(t)
    <2> DEFINE u == CHOOSE u \in Unused : \A v \in Unused : u <= v
               p == [uid |-> u, owner |-> t, available |-> FALSE]
               r == [rc[t] EXCEPT !.pc = IF rc[t].create > 1 THEN "live" ELSE "status",
                                  !.create = @ - 1, !.seen = @ \cup {p}]
    <2>1. /\ UNCHANGED sets /\ rc[t].pc = "write" /\ rc[t].create > 0
          /\ pods' = pods \cup {p} /\ rc' = [rc EXCEPT ![t] = r]
      BY <1>5 DEF RsCreate, SetGoes
    <2>2. p \in Pod
      <3>1. u \in Unused
        BY <1>5, LeastUnused DEF RsCreate
      <3> HIDE DEF u
      <3> QED BY <3>1 DEF Pod, Unused
    <2>3. IsFiniteSet(pods')
      BY <2>1, FS_AddElement
    <2>4. IsReconciliation(r)
      <3>1. /\ rc[t] \in [pc : {"write"}, set : {rc[t].set}, seen : {rc[t].seen},
                          create : {rc[t].create}, victims : {rc[t].victims}]
            /\ rc[t].set.replicas # 0
        BY <2>1 DEF IsReconciliation, SetIdle
      <3> HIDE DEF p
      <3>2. /\ r \in [pc : {"live", "status"}, set : {rc[t].set}, seen : {r.seen},
                      create : {r.create}, victims : {r.victims}]
            /\ r.set = rc[t].set
        BY <3>1
      <3> QED BY <3>1, <3>2 DEF IsReconciliation
    <2> HIDE DEF p, r
    <2> QED BY <1>1, <2>1, <2>2, <2>3, <2>4
  <1>6. CASE RsDelete(t)
    <2>1. PICK p \in rc[t].victims :
             /\ pods' = pods \ {p}
             /\ rc' = [rc EXCEPT ![t] =
                         [rc[t] EXCEPT !.pc = IF rc[t].victims = {p} THEN "relist" ELSE "live",
                                       !.victims = @ \ {p}]]
      BY <1>6 DEF RsDelete, SetGoes
    <2> DEFINE r == [rc[t] EXCEPT !.pc = IF rc[t].victims = {p} THEN "relist" ELSE "live",
                                  !.victims = @ \ {p}]
    <2>2. UNCHANGED sets /\ rc[t].pc = "write"
      BY <1>6 DEF RsDelete
    <2>3. IsReconciliation(r)
      <3>1. /\ rc[t] \in [pc : {"write"}, set : {rc[t].set}, seen : {rc[t].seen},
                          create : {rc[t].create}, victims : {rc[t].victims}]
            /\ rc[t].set.replicas = 0 => rc[t].create = 0
        BY <2>2 DEF IsReconciliation, SetIdle
      <3>2. /\ r \in [pc : {"live", "relist"}, set : {rc[t].set}, seen : {r.seen},
                      create : {rc[t].create}, victims : {r.victims}]
            /\ r.set = rc[t].set /\ r.create = rc[t].create
        BY <3>1
      <3> QED BY <3>1, <3>2 DEF IsReconciliation
    <2>4. IsFiniteSet(pods')
      BY <2>1, FS_RemoveElement
    <2> HIDE DEF r
    <2>5. rc' = [rc EXCEPT ![t] = r]
      BY <2>1 DEF r
    <2> QED BY <1>1, <2>1, <2>2, <2>3, <2>4, <2>5
  <1>7. CASE RsRelist(t)
    <2>1. /\ rc' = [rc EXCEPT ![t] = [rc[t] EXCEPT !.pc = "status", !.seen = Owned(pods, t)]]
          /\ UNCHANGED <<sets, pods>> /\ rc[t].pc = "relist"
      BY <1>7 DEF RsRelist, SetGoes
    <2> DEFINE r == [rc[t] EXCEPT !.pc = "status", !.seen = Owned(pods, t)]
    <2>2. IsReconciliation(r)
      <3>1. /\ rc[t] \in [pc : {"relist"}, set : {rc[t].set}, seen : {rc[t].seen},
                          create : {rc[t].create}, victims : {rc[t].victims}]
            /\ rc[t].set.replicas = 0 => rc[t].create = 0
        BY <2>1 DEF IsReconciliation, SetIdle
      <3>2. /\ r \in [pc : {"status"}, set : {rc[t].set}, seen : {r.seen},
                      create : {rc[t].create}, victims : {rc[t].victims}]
            /\ r.set = rc[t].set /\ r.create = rc[t].create
        BY <3>1
      <3> QED BY <3>1, <3>2 DEF IsReconciliation
    <2> QED BY <1>1, <2>1, <2>2
  <1>8. CASE RsStatus(t)
    <2>1. PICK count, available :
             sets' = IF sets[t] = {rc[t].set}
                     THEN [sets EXCEPT ![t] =
                             {[rc[t].set EXCEPT !.observed = rc[t].set.generation,
                                                !.count = count, !.available = available]}]
                     ELSE sets
      BY <1>8 DEF RsStatus
    <2>2. UNCHANGED pods /\ rc' = [rc EXCEPT ![t] = SetIdle]
      BY <1>8 DEF RsStatus, SetGoes
    <2> DEFINE new == [rc[t].set EXCEPT !.observed = rc[t].set.generation,
                                        !.count = count, !.available = available]
    <2>3. \A u \in Templates : sets'[u] = {} \/ \E s : sets'[u] = {s} /\ IsSet(s)
      <3>1. CASE sets[t] = {rc[t].set}
        <4>1. IsSet(rc[t].set)
          BY <3>1
        <4>2. IsSet(new)
          <5>1. /\ new \in [replicas : {new.replicas}, generation : Nat, observed : Nat,
                            count : {new.count}, available : {new.available}]
                /\ new.observed = rc[t].set.generation
                /\ new.generation = rc[t].set.generation
            BY <4>1 DEF IsSet
          <5> QED BY <4>1, <5>1 DEF IsSet
        <4>3. \A u \in Templates : sets'[u] = IF u = t THEN {new} ELSE sets[u]
          BY <2>1, <3>1
        <4> QED BY <4>2, <4>3
      <3>2. CASE sets[t] # {rc[t].set}
        BY <2>1, <3>2
      <3> QED BY <3>1, <3>2
    <2>4. sets' = [u \in Templates |-> sets'[u]]
      BY <2>1
    <2>5. \A u \in Templates : IsReconciliation(rc'[u])
      BY <2>2 DEF IsReconciliation
    <2>6. rc' = [u \in Templates |-> rc'[u]]
      BY <2>2
    <2> QED BY <1>0, <2>2, <2>3, <2>4, <2>5, <2>6 DEF IsDeploying
  <1> QED BY <1>2, <1>3, <1>4, <1>5, <1>6, <1>7, <1>8 DEF ReplicaSetController

-----------------------------------------------------------------------------
(* What the Deployment controller decides on the sets it listed.           *)

LEMMA TheOnly ==
    ASSUME NEW x
    PROVE  The({x}) = x
  BY DEF The

\* A plan scales one set.
LEMMA PlanScales ==
    ASSUME NEW d, d.template \in Templates, NEW w \in plan(d, sets)
    PROVE  w.op = "scale" /\ w.set \in Templates
  <1>1. Old(d, sets) \subseteq Templates
    BY DEF Old
  <1>2. \A t, n : Scale(t, n).op = "scale" /\ Scale(t, n).set = t
    BY DEF Scale
  <1>3. CASE w \in plan_recreate(d, sets)
    <2>1. \/ \E t \in Old(d, sets) : w = Scale(t, 0)
          \/ w = Scale(d.template, d.replicas)
      BY <1>3 DEF plan_recreate
    <2> QED BY <1>1, <1>2, <2>1
  <1>4. CASE w \in plan_rolling(d, sets)
    <2>1. \/ \E n : w = Scale(d.template, n)
          \/ \E t \in Old(d, sets) : \E n : w = Scale(t, n)
      BY <1>4 DEF plan_rolling
    <2> QED BY <1>1, <1>2, <2>1
  <1> QED BY <1>3, <1>4 DEF plan

\* Recreate waits for every set to be observed, and scales up the new one only
\* when all others are at zero.
LEMMA PlanRecreates ==
    ASSUME Typed, Recreating, Strategy = "Recreate", NEW d, NEW w \in plan(d, sets)
    PROVE  \/ w.replicas = 0
           \/ /\ w.set = d.template /\ w.replicas = d.replicas
              /\ \A u \in Templates \ {d.template} : \A s \in sets[u] : Emptied(s)
  <1>1. /\ w \in plan_recreate(d, sets)
        /\ \A t \in Templates : \A s \in sets[t] : IsObserved(s)
    BY DEF plan
  <1> DEFINE up == { t \in Old(d, sets) : The(sets[t]).replicas > 0 }
  <1>2. \A t, n : Scale(t, n).set = t /\ Scale(t, n).replicas = n
    BY DEF Scale
  <1>3. \/ \E t \in up : w = Scale(t, 0)
        \/ /\ w = Scale(d.template, d.replicas)
           /\ \A o \in Old(d, sets) : The(sets[o]).count = 0
    BY <1>1 DEF plan_recreate
  <1>4. CASE up # {}
    <2>1. \E t \in up : w = Scale(t, 0)
      BY <1>1, <1>4 DEF plan_recreate
    <2> QED BY <1>2, <2>1
  <1>5. CASE up = {}
    <2>1. w = Scale(d.template, d.replicas)
      BY <1>1, <1>5 DEF plan_recreate
    <2>2. ASSUME NEW u \in Templates \ {d.template}, NEW s \in sets[u]
          PROVE  Emptied(s)
      <3>1. sets[u] = {s} /\ The(sets[u]) = s
        BY <2>2, TheOnly DEF Typed
      <3>2. u \in Old(d, sets)
        BY <3>1 DEF Old
      <3>3. ~(s.replicas > 0) /\ s.replicas \in Nat
        BY <1>5, <2>2, <3>1, <3>2 DEF Recreating
      <3> QED BY <1>1, <3>3 DEF Emptied, IsObserved
    <2> QED BY <1>2, <2>1, <2>2
  <1> QED BY <1>4, <1>5

\* Only sets that have been emptied are pruned.
LEMMA PrunableAreEmptied ==
    ASSUME Typed, NEW d, NEW P \in Prunable(d, sets)
    PROVE  P \subseteq Templates /\ \A t \in P : \A s \in sets[t] : Emptied(s)
  <1> DEFINE old == { t \in Old(d, sets) : IsObserved(The(sets[t])) /\ The(sets[t]).count = 0 }
  <1>1. CASE P = {}
    BY <1>1
  <1>2. CASE P # {}
    <2>1. P \subseteq old /\ \A t \in Old(d, sets) : The(sets[t]).replicas = 0
      BY <1>2 DEF Prunable
    <2>2. ASSUME NEW t \in P, NEW s \in sets[t]
          PROVE  Emptied(s)
      <3>1. t \in Old(d, sets) /\ t \in Templates
        BY <2>1 DEF Old
      <3>2. The(sets[t]) = s
        BY <2>2, <3>1, TheOnly DEF Typed
      <3> QED BY <2>1, <2>2, <3>1, <3>2 DEF Emptied, IsObserved
    <2>3. P \subseteq Templates
      BY <2>1 DEF Old
    <2> QED BY <2>2, <2>3
  <1> QED BY <1>1, <1>2

LEMMA DeployingIs ==
    ASSUME Typed, dc.pc \in {"pods", "live", "write"}
    PROVE  /\ dc \in [pc : {"pods", "live", "write"}, d : Deployment, todo : {dc.todo},
                      sets : {dc.sets}]
           /\ IsPlan(dc.todo)
           /\ \A w \in dc.todo : w.set \in Templates
  <1>1. /\ dc \in [pc : {"pods", "live", "write"}, d : Deployment, todo : {dc.todo},
                   sets : {dc.sets}]
        /\ IsPlan(dc.todo)
    BY DEF Typed, IsDeploying, DepIdle
  <1> QED BY <1>1 DEF IsPlan

\* The list decides on one scaling or creation, which may await the Pods, or on
\* prunings, which do.
LEMMA DepListDecides ==
    ASSUME Typed, DepList
    PROVE  /\ dc.d \in Deployment
           /\ \/ dc' = [pc |-> "status", d |-> dc.d]
              \/ dc' = [pc |-> "live", d |-> dc.d, todo |-> {Create(dc.d.template)}, sets |-> sets]
              \/ \E w \in plan(dc.d, sets), pc \in {"pods", "live"} :
                    /\ dc' = [pc |-> pc, d |-> dc.d, todo |-> {w}, sets |-> sets]
                    /\ sets[dc.d.template] # {}
                    /\ pc = "pods" <=> (Strategy = "Recreate" /\ w.set = dc.d.template
                                        /\ w.replicas > 0)
              \/ \E P \in Prunable(dc.d, sets) :
                    /\ P # {}
                    /\ dc' = [pc |-> "pods", d |-> dc.d, todo |-> { Prune(t) : t \in P },
                              sets |-> sets]
  <1>1. dc.pc = "list" /\ dc.d \in Deployment
    BY DEF DepList, Typed, IsDeploying, DepIdle
  <1> QED BY <1>1 DEF DepList, Goes

\* The Deployment controller.
LEMMA TypedDeploymentController ==
    ASSUME Typed, DeploymentController
    PROVE  Typed'
  <1>0. /\ UNCHANGED <<setting, dep, pods, rc>>
        /\ Deployment' = Deployment /\ Pod' = Pod
    <2>1. UNCHANGED <<setting, dep, pods, rc>>
      BY DEF DeploymentController, DepGet, DepList, DepPods, DepLive, DepWrite, DepStatus
    <2> QED BY <2>1, SameTypes
  <1>1. ASSUME UNCHANGED sets, IsDeploying(dc')
        PROVE  Typed'
    <2>1. IsDeploying(dc)'
      BY <1>0, <1>1 DEF IsDeploying
    <2> QED BY <1>0, <1>1, <2>1 DEF Typed
  <1>2. CASE DepGet
    <2>1. PICK d \in dep : dc' = [pc |-> "list", d |-> d]
      BY <1>2 DEF DepGet, Goes
    <2>2. IsDeploying(dc')
      BY <2>1 DEF Typed, IsDeploying
    <2> QED BY <1>1, <1>2, <2>2 DEF DepGet
  <1>3. CASE DepList
    <2>1. ASSUME NEW todo, NEW pc \in {"pods", "live"}, IsPlan(todo),
                 dc' = [pc |-> pc, d |-> dc.d, todo |-> todo, sets |-> sets]
          PROVE  IsDeploying(dc')
      BY <1>3, <2>1, DepListDecides DEF IsDeploying
    <2>2. dc.d.template \in Templates
      BY <1>3, DepListDecides DEF Deployment
    <2>3. IsPlan({Create(dc.d.template)})
      <3>1. Create(dc.d.template).op = "create" /\ Create(dc.d.template).set = dc.d.template
        BY DEF Create
      <3> QED BY <2>2, <3>1 DEF IsPlan
    <2>4. \A w \in plan(dc.d, sets) : IsPlan({w})
      BY <2>2, PlanScales DEF IsPlan
    <2>5. \A P \in Prunable(dc.d, sets) : IsPlan({ Prune(t) : t \in P })
      <3> SUFFICES ASSUME NEW P \in Prunable(dc.d, sets)
                   PROVE  \A w \in { Prune(t) : t \in P } : w.op = "prune" /\ w.set \in Templates
        BY DEF IsPlan
      <3>1. P \subseteq Templates
        BY PrunableAreEmptied
      <3> QED BY <3>1 DEF Prune
    <2>7. IsDeploying(dc')
      <3>1. CASE dc' = [pc |-> "status", d |-> dc.d]
        BY <1>3, <3>1, DepListDecides DEF IsDeploying
      <3>2. CASE dc' = [pc |-> "live", d |-> dc.d, todo |-> {Create(dc.d.template)}, sets |-> sets]
        BY <2>1, <2>3, <3>2
      <3>3. CASE \E w \in plan(dc.d, sets), pc \in {"pods", "live"} :
                    dc' = [pc |-> pc, d |-> dc.d, todo |-> {w}, sets |-> sets]
        BY <2>1, <2>4, <3>3
      <3>4. CASE \E P \in Prunable(dc.d, sets) :
                    dc' = [pc |-> "pods", d |-> dc.d, todo |-> { Prune(t) : t \in P }, sets |-> sets]
        BY <2>1, <2>5, <3>4
      <3> QED BY <1>3, DepListDecides, <3>1, <3>2, <3>3, <3>4
    <2> QED BY <1>1, <1>3, <2>7 DEF DepList
  <1>4. CASE DepPods
    <2> DEFINE todo == { w \in dc.todo : StillAllowed(w) }
    <2>1. /\ dc' = IF todo = {} THEN [pc |-> "status", d |-> dc.d]
                   ELSE [dc EXCEPT !.pc = "live", !.todo = todo]
          /\ dc.pc = "pods" /\ UNCHANGED sets
      BY <1>4 DEF DepPods, Goes
    <2>2. todo \subseteq dc.todo
      OBVIOUS
    <2> HIDE DEF todo
    <2>3. todo # {} => IsPlan(todo)
      BY <2>1, <2>2, DeployingIs DEF IsPlan
    <2>4. dc \in [pc : {"pods", "live", "write"}, d : Deployment, todo : {dc.todo},
                  sets : {dc.sets}]
      BY <2>1, DeployingIs
    <2>5. CASE todo = {}
      BY <1>1, <2>1, <2>4, <2>5 DEF IsDeploying
    <2>6. CASE todo # {}
      <3>1. /\ dc' \in [pc : {"live"}, d : Deployment, todo : {dc'.todo}, sets : {dc'.sets}]
            /\ dc'.todo = todo
        BY <2>1, <2>4, <2>6
      <3> QED BY <1>1, <2>1, <2>3, <2>6, <3>1 DEF IsDeploying
    <2> QED BY <2>5, <2>6
  <1>5. CASE DepLive
    <2>1. /\ \/ dc' = [dc EXCEPT !.pc = "write"]
             \/ dc' = [pc |-> "status", d |-> dc.d]
          /\ dc.pc = "live" /\ UNCHANGED sets
      BY <1>5 DEF DepLive, Goes
    <2>2. IsDeploying(dc')
      BY <2>1, DeployingIs DEF IsDeploying
    <2> QED BY <1>1, <2>1, <2>2
  <1>6. CASE DepWrite
    <2>1. PICK w \in dc.todo :
             /\ sets' = [sets EXCEPT ![w.set] = Written(w)]
             /\ dc' = IF dc.todo = {w} THEN [pc |-> "status", d |-> dc.d]
                      ELSE [dc EXCEPT !.pc = "live", !.todo = @ \ {w}]
      BY <1>6 DEF DepWrite, Goes
    <2>2. dc.pc = "write" /\ w.set \in Templates
      BY <1>6, DeployingIs DEF DepWrite
    <2>3. Written(w) = {} \/ \E s : Written(w) = {s} /\ IsSet(s)
      <3> DEFINE fresh == [replicas |-> 0, generation |-> 1, observed |-> 0,
                           count |-> 0, available |-> 0]
                 to(s) == [s EXCEPT !.replicas = w.replicas, !.generation = @ + 1]
      <3>1. \/ Written(w) \in {{}, sets[w.set], {fresh}}
            \/ Written(w) = { to(s) : s \in sets[w.set] }
        BY DEF Written
      <3>2. IsSet(fresh)
        BY DEF IsSet
      <3>3. ASSUME NEW s, IsSet(s)
            PROVE  IsSet(to(s))
        <4>1. /\ s \in [replicas : {s.replicas}, generation : Nat, observed : Nat,
                        count : {s.count}, available : {s.available}]
              /\ s.observed <= s.generation
          BY <3>3 DEF IsSet
        <4>2. /\ to(s) \in [replicas : {w.replicas}, generation : Nat, observed : Nat,
                            count : {s.count}, available : {s.available}]
              /\ to(s).observed = s.observed /\ to(s).generation = s.generation + 1
              /\ to(s).replicas = w.replicas /\ to(s).count = s.count
              /\ to(s).available = s.available
          <5>1. to(s) \in [replicas : {w.replicas}, generation : Nat, observed : Nat,
                           count : {s.count}, available : {s.available}]
            <6>1. PICK g \in Nat : g = s.generation + 1
              BY <4>1
            <6>2. [s EXCEPT !.replicas = w.replicas, !.generation = g]
                    \in [replicas : {w.replicas}, generation : Nat, observed : Nat,
                         count : {s.count}, available : {s.available}]
              BY <4>1
            <6> QED BY <6>1, <6>2
          <5>2. to(s).observed = s.observed
            BY <4>1
          <5>3. to(s).generation = s.generation + 1
            BY <4>1
          <5> HIDE DEF to
          <5> QED BY <5>1, <5>2, <5>3
        <4> HIDE DEF to
        <4> QED BY <4>1, <4>2 DEF IsSet
      <3>4. sets[w.set] = {} \/ \E s : sets[w.set] = {s} /\ IsSet(s)
        BY <2>2 DEF Typed
      <3> HIDE DEF fresh, to
      <3> QED BY <3>1, <3>2, <3>3, <3>4
    <2>4. /\ \A u \in Templates : sets'[u] = {} \/ \E s : sets'[u] = {s} /\ IsSet(s)
          /\ sets' = [u \in Templates |-> sets'[u]]
      BY <2>1, <2>2, <2>3 DEF Typed
    <2>5. dc.todo # {w} => IsPlan(dc.todo \ {w})
      BY <2>1, <2>2, DeployingIs DEF IsPlan
    <2>6. IsDeploying(dc)'
      BY <1>0, <2>1, <2>2, <2>5, DeployingIs DEF IsDeploying
    <2> QED BY <1>0, <2>4, <2>6 DEF Typed
  <1>7. CASE DepStatus
    BY <1>1, <1>7 DEF DepStatus, Goes, IsDeploying
  <1> QED BY <1>2, <1>3, <1>4, <1>5, <1>6, <1>7 DEF DeploymentController

LEMMA TypedNext ==
    ASSUME Typed, [Next]_vars
    PROVE  Typed'
  <1>1. CASE UNCHANGED vars
    <2>1. UNCHANGED <<setting, dep, sets, pods, rc, dc>>
      BY <1>1 DEF vars
    <2> QED BY <2>1, SameTypes DEF Typed, IsDeploying
  <1>2. CASE Next
    BY <1>2, TypedSurroundings, TypedSetController, TypedDeploymentController DEF Next
  <1> QED BY <1>1, <1>2

-----------------------------------------------------------------------------
(* The invariant.                                                          *)

LEMMA IInvInit ==
    ASSUME Init
    PROVE  IInv
  <1>1. Typed
    BY TypedInit
  <1>2. PICK t \in Templates, n \in Replicas :
            /\ sets = [u \in Templates |->
                         IF u = t THEN {[replicas |-> n, generation |-> 1, observed |-> 1,
                                         count |-> n, available |-> n]}
                         ELSE {}]
            /\ pods = { [uid |-> i, owner |-> t, available |-> TRUE] : i \in 1..n }
            /\ dc = DepIdle
            /\ rc = [u \in Templates |-> SetIdle]
    BY DEF Init
  <1>3. n \in Nat
    BY <1>1, SettingIs DEF Typed
  <1>4. \A u \in Templates : Quiet(u)
    BY <1>2 DEF Quiet, SetIdle
  <1>5. \A u \in Templates \ {t} : sets[u] = {} /\ Owned(pods, u) = {}
    BY <1>2 DEF Owned
  <1>6. sets[t] # {} /\ \A s \in sets[t] : s.replicas \in Nat
    <2> DEFINE r == [replicas |-> n, generation |-> 1, observed |-> 1,
                     count |-> n, available |-> n]
    <2>1. sets[t] = {r}
      BY <1>2
    <2>2. r.replicas = n
      OBVIOUS
    <2> QED BY <1>3, <2>1, <2>2
  <1>7. dc.pc = "idle"
    BY <1>2 DEF DepIdle
  <1> QED BY <1>1, <1>4, <1>5, <1>6, <1>7 DEF IInv, Settled, Pruned, Recreating, Cold

\* The set of an awaited pruning is cold.
LEMMA PrunedAreCold ==
    ASSUME Typed, Settled, Pruned, dep # {}, dc.pc \in {"live", "write"},
           NEW w \in dc.todo, w.op = "prune"
    PROVE  Cold(w.set)
  <1>1. w.set \in Templates
    BY DeployingIs
  <1>2. Owned(pods, w.set) = {} /\ \A s \in sets[w.set] : Emptied(s)
    BY DEF Pruned
  <1>3. Quiet(w.set)
    BY <1>1, <1>2 DEF Settled, Pruned
  <1> QED BY <1>2, <1>3 DEF Cold, Emptied

\* A step that leaves the sets alone, and what is cold cold, keeps the rest.
LEMMA Calm ==
    ASSUME IInv, Settled', UNCHANGED <<setting, sets>>, dc' = dc \/ dc' = DepIdle,
           dep' # {} => dep # {},
           \A t \in Templates : Cold(t) => Cold(t)'
    PROVE  Pruned' /\ Recreating'
  <1> USE DEF IInv
  <1>1. Pruned'
    <2> SUFFICES ASSUME dep' # {} PROVE Pruned'
      BY DEF Pruned
    <2>1. dep # {}
      OBVIOUS
    <2>2. ASSUME NEW t \in Templates, sets'[t] = {}
          PROVE  Owned(pods', t) = {} /\ Quiet(t)'
      <3>1. Cold(t)
        BY <2>1, <2>2 DEF Pruned, Cold
      <3> QED BY <3>1 DEF Cold
    <2>3. ASSUME dc'.pc \in {"pods", "live", "write"}, NEW w \in dc'.todo, w.op = "prune"
          PROVE  /\ \A s \in sets'[w.set] : Emptied(s)
                 /\ dc'.pc # "pods" => Owned(pods', w.set) = {}
      <3>1. dc' = dc
        BY <2>3 DEF DepIdle
      <3>2. \A s \in sets'[w.set] : Emptied(s)
        BY <2>1, <2>3, <3>1 DEF Pruned
      <3>3. w.set \in Templates
        BY <2>3, <3>1, DeployingIs
      <3>4. dc.pc # "pods" => Cold(w.set)
        BY <2>1, <2>3, <3>1, PrunedAreCold
      <3> QED BY <3>1, <3>2, <3>3, <3>4 DEF Cold
    <2> QED BY <2>2, <2>3 DEF Pruned
  <1>2. Recreating'
    <2> SUFFICES ASSUME Strategy = "Recreate" PROVE Recreating'
      BY DEF Recreating, Strategy
    <2>1. CASE dc' = DepIdle
      BY <2>1 DEF Recreating, DepIdle
    <2>2. CASE dc' = dc
      BY <2>2, DeployingIs DEF Recreating
    <2> QED BY <2>1, <2>2
  <1> QED BY <1>1, <1>2

\* Users, failures and the collector of Pods.
LEMMA SurroundingsKeep ==
    ASSUME IInv, UserEdit \/ PodDelete \/ PodReady \/ PodUnready \/ GcPod \/ ServerRestart
    PROVE  IInv'
  <1> USE DEF IInv
  <1>1. Typed'
    BY TypedSurroundings DEF Collector
  <1>2. /\ UNCHANGED <<setting, sets>> /\ (dc' = dc \/ dc' = DepIdle)
        /\ dep' # {} => dep # {}
        /\ rc' = rc \/ rc' = [t \in Templates |-> SetIdle]
    BY DEF UserEdit, PodDelete, PodReady, PodUnready, PodBecomes, GcPod, ServerRestart
  <1>3. \A t : Owned(pods, t) = {} => Owned(pods', t) = {}
    <2>1. CASE UserEdit \/ ServerRestart
      BY <2>1 DEF UserEdit, ServerRestart
    <2>2. CASE PodDelete \/ PodReady \/ PodUnready \/ GcPod
      <3>1. PICK p \in pods : \/ pods' = pods \ {p}
                              \/ \E a \in BOOLEAN : pods' = (pods \ {p}) \cup {[p EXCEPT !.available = a]}
        BY <2>2 DEF PodDelete, PodReady, PodUnready, PodBecomes, GcPod
      <3>2. \A a \in BOOLEAN : [p EXCEPT !.available = a].owner = p.owner
        BY DEF Typed, Pod
      <3> QED BY <3>1, <3>2 DEF Owned
    <2> QED BY <2>1, <2>2
  <1>4. \A t \in Templates : Quiet(t) => Quiet(t)'
    BY <1>2 DEF Quiet, SetIdle
  <1>5. \A t \in Templates : Cold(t) => Cold(t)'
    BY <1>2, <1>3, <1>4 DEF Cold
  <1>6. Settled'
    BY <1>2, <1>4 DEF Settled
  <1> QED BY <1>1, <1>2, <1>5, <1>6, Calm

\* A reconciliation of a set that asks for no Pod creates none.
LEMMA ReconciliationKeeps ==
    ASSUME IInv, NEW t \in Templates,
           RsGet(t) \/ RsList(t) \/ RsLive(t) \/ RsCreate(t) \/ RsDelete(t) \/ RsRelist(t)
    PROVE  IInv'
  <1> USE DEF IInv
  <1>1. Typed'
    BY TypedSetController DEF ReplicaSetController
  <1>2. /\ UNCHANGED <<setting, dep, sets, dc>>
        /\ \A u \in Templates \ {t} : rc'[u] = rc[u]
    BY DEF RsGet, RsList, RsLive, RsCreate, RsDelete, RsRelist, SetGoes, Typed
  <1>3. CASE RsGet(t)
    <2>1. PICK s \in sets[t] : rc' = [rc EXCEPT ![t] = [pc |-> "list", set |-> s]]
      BY <1>3 DEF RsGet, SetGoes
    <2>2. sets[t] = {s} /\ rc'[t].set = s
      BY <2>1 DEF Typed
    <2>3. \A u \in Templates : Cold(u) => Cold(u)'
      BY <1>2, <1>3, <2>2 DEF Cold, Quiet, RsGet
    <2>4. Settled'
      BY <1>2, <2>2 DEF Settled, Quiet, Emptied
    <2> QED BY <1>1, <1>2, <2>3, <2>4, Calm
  <1>4. CASE RsList(t) \/ RsLive(t) \/ RsCreate(t) \/ RsDelete(t) \/ RsRelist(t)
    <2>1. rc[t].pc # "idle" /\ rc'[t].set = rc[t].set
      <3>1. CASE RsList(t)
        BY <3>1 DEF RsList, SetGoes, Typed
      <3>2. CASE RsLive(t) \/ RsCreate(t) \/ RsDelete(t) \/ RsRelist(t)
        <4>1. rc[t] \in [pc : {"live", "write", "relist", "status"}, set : {rc[t].set},
                         seen : {rc[t].seen}, create : {rc[t].create},
                         victims : {rc[t].victims}]
          <5>1. rc[t].pc \in {"live", "write", "relist"} /\ IsReconciliation(rc[t])
            BY <3>2 DEF RsLive, RsCreate, RsDelete, RsRelist, Typed
          <5> QED BY <5>1 DEF IsReconciliation, SetIdle
        <4>2. CASE RsLive(t)
          BY <4>1, <4>2 DEF RsLive, SetGoes, Typed
        <4>3. CASE RsCreate(t)
          BY <4>1, <4>3 DEF RsCreate, SetGoes, Typed
        <4>4. CASE RsDelete(t)
          <5>1. PICK p \in rc[t].victims :
                   rc' = [rc EXCEPT ![t] = [rc[t] EXCEPT
                             !.pc = IF rc[t].victims = {p} THEN "relist" ELSE "live",
                             !.victims = @ \ {p}]]
            BY <4>4 DEF RsDelete, SetGoes
          <5>2. PICK pc, V : rc'[t] = [rc[t] EXCEPT !.pc = pc, !.victims = V]
            BY <5>1 DEF Typed
          <5>3. rc[t].pc = "write"
            BY <4>4 DEF RsDelete
          <5> QED BY <4>1, <5>2, <5>3
        <4>5. CASE RsRelist(t)
          BY <4>1, <4>5 DEF RsRelist, SetGoes, Typed
        <4> QED BY <3>2, <4>1, <4>2, <4>3, <4>4, <4>5 DEF RsLive, RsCreate, RsDelete, RsRelist
      <3> QED BY <1>4, <3>1, <3>2
    <2>2. \A u \in Templates : Quiet(u) => Quiet(u)'
      BY <1>2, <2>1 DEF Quiet
    <2>3. RsCreate(t) => ~Quiet(t)
      BY DEF RsCreate, Quiet, Typed, IsReconciliation, SetIdle
    <2>4. \/ pods' \subseteq pods
          \/ RsCreate(t) /\ \A u \in Templates \ {t} : Owned(pods', u) = Owned(pods, u)
      <3>1. CASE RsCreate(t)
        <4>1. PICK u : pods' = pods \cup {[uid |-> u, owner |-> t, available |-> FALSE]}
          BY <3>1 DEF RsCreate
        <4> QED BY <3>1, <4>1 DEF Owned
      <3>2. CASE ~RsCreate(t)
        BY <1>4, <3>2 DEF RsList, RsLive, RsDelete, RsRelist
      <3> QED BY <3>1, <3>2
    <2>5. \A u \in Templates : Cold(u) => Cold(u)'
      BY <1>2, <2>2, <2>3, <2>4 DEF Cold, Owned
    <2>6. Settled'
      BY <1>2, <2>2 DEF Settled
    <2> QED BY <1>1, <1>2, <2>5, <2>6, Calm
  <1> QED BY <1>3, <1>4

\* A status write ends its reconciliation and leaves what the set asks for.
LEMMA RsStatusKeeps ==
    ASSUME IInv, NEW t \in Templates, RsStatus(t)
    PROVE  IInv'
  <1> USE DEF IInv
  <1>1. Typed'
    BY TypedSetController DEF ReplicaSetController
  <1>2. /\ UNCHANGED <<setting, dep, pods, dc>>
        /\ rc' = [rc EXCEPT ![t] = SetIdle]
    BY DEF RsStatus, SetGoes
  <1>3. \A u \in Templates : Quiet(u) => Quiet(u)'
    BY <1>2 DEF Quiet, SetIdle
  <1>4. Quiet(t)'
    BY <1>2 DEF Quiet, SetIdle, Typed
  <1>5. \A u \in Templates \ {t} : sets'[u] = sets[u]
    BY DEF RsStatus, Typed
  <1>6. \/ sets'[t] = sets[t]
        \/ \E s, new : /\ sets[t] = {s} /\ sets'[t] = {new}
                       /\ new.replicas = s.replicas
                       /\ Emptied(s) => Emptied(new)
    <2> DEFINE s == rc[t].set
               new == [s EXCEPT !.observed = s.generation,
                                !.count = Cardinality(rc[t].seen),
                                !.available = Cardinality(Available(rc[t].seen))]
    <2>1. sets' = IF sets[t] = {s} THEN [sets EXCEPT ![t] = {new}] ELSE sets
      BY DEF RsStatus
    <2>2. CASE sets[t] # {s}
      BY <2>1, <2>2
    <2>3. CASE sets[t] = {s}
      <3>1. IsSet(s)
        BY <2>3 DEF Typed
      <3>2. new.replicas = s.replicas /\ new.observed = s.generation /\ new.generation = s.generation
        BY <3>1 DEF IsSet
      <3>3. sets'[t] = {new}
        BY <2>1, <2>3 DEF Typed
      <3> HIDE DEF s, new
      <3> QED BY <2>3, <3>2, <3>3 DEF Emptied
    <2> QED BY <2>2, <2>3
  <1>7. \A u \in Templates : Cold(u) => Cold(u)'
    BY <1>2, <1>3, <1>5, <1>6 DEF Cold
  <1>8. Settled'
    BY <1>2, <1>3, <1>4, <1>5 DEF Settled
  <1>9. Pruned'
    <2> SUFFICES ASSUME dep # {} PROVE Pruned'
      BY <1>2 DEF Pruned
    <2>1. \A u \in Templates : sets'[u] = {} => Owned(pods', u) = {} /\ Quiet(u)'
      BY <1>2, <1>3, <1>5, <1>6 DEF Pruned
    <2>2. ASSUME dc.pc \in {"pods", "live", "write"}, NEW w \in dc.todo, w.op = "prune"
          PROVE  \A s \in sets'[w.set] : Emptied(s)
      <3>1. w.set \in Templates /\ \A s \in sets[w.set] : Emptied(s)
        BY <2>2, DeployingIs DEF Pruned
      <3> QED BY <3>1, <1>5, <1>6
    <2> QED BY <1>2, <2>1, <2>2 DEF Pruned
  <1>10. Recreating'
    <2> SUFFICES ASSUME Strategy = "Recreate" PROVE Recreating'
      BY <1>2 DEF Recreating, Strategy
    <2>1. \A u \in Templates : \A s \in sets'[u] : s.replicas \in Nat
      BY <1>5, <1>6 DEF Recreating
    <2>2. ASSUME dc.pc = "pods", NEW w \in dc.todo, ScalesUp(w), NEW u \in Templates \ {w.set}
          PROVE  /\ \A s \in sets'[u] : Emptied(s)
                 /\ dc.sets[u] = {} => sets'[u] = {}
      <3>1. /\ \A s \in sets[u] : Emptied(s)
            /\ dc.sets[u] = {} => sets[u] = {}
        BY <2>2 DEF Recreating
      <3> QED BY <3>1, <1>5, <1>6
    <2> QED BY <1>2, <1>7, <2>1, <2>2, DeployingIs DEF Recreating
  <1> QED BY <1>1, <1>8, <1>9, <1>10

\* Sets are collected only after their Deployment.
LEMMA GcSetKeeps ==
    ASSUME IInv, NEW t \in Templates, GcSet(t)
    PROVE  IInv'
  <1> USE DEF IInv
  <1>1. Typed'
    BY TypedSurroundings DEF Collector
  <1>2. /\ UNCHANGED <<setting, dep, pods, dc, rc>> /\ dep = {}
        /\ sets' = [sets EXCEPT ![t] = {}]
    BY DEF GcSet
  <1>3. \A u \in Templates : sets'[u] \in {{}, sets[u]}
    BY <1>2 DEF Typed
  <1>4. \A u \in Templates : Quiet(u)' = Quiet(u)
    BY <1>2 DEF Quiet
  <1>5. \A u \in Templates : Cold(u) => Cold(u)'
    BY <1>2, <1>3, <1>4 DEF Cold
  <1>6. Settled'
    BY <1>3, <1>4 DEF Settled
  <1>7. Recreating'
    <2> SUFFICES ASSUME Strategy = "Recreate" PROVE Recreating'
      BY <1>2 DEF Recreating, Strategy
    <2> QED BY <1>2, <1>3, <1>5, DeployingIs DEF Recreating
  <1> QED BY <1>1, <1>2, <1>6, <1>7 DEF Pruned

\* The reads of the Deployment controller.
LEMMA DepReads ==
    ASSUME IInv, DepGet \/ DepList \/ DepPods \/ DepLive \/ DepStatus
    PROVE  IInv'
  <1> USE DEF IInv
  <1>1. Typed'
    BY TypedDeploymentController DEF DeploymentController
  <1>2. UNCHANGED <<setting, dep, sets, pods, rc>>
    BY DEF DepGet, DepList, DepPods, DepLive, DepStatus
  <1>3. /\ Settled'
        /\ \A t \in Templates : (Quiet(t) <=> Quiet(t)') /\ (Cold(t) <=> Cold(t)')
    BY <1>2 DEF Settled, Quiet, Cold
  <1>4. ASSUME dc'.pc \notin {"pods", "live", "write"}
        PROVE  Pruned' /\ Recreating'
    BY <1>2, <1>3, <1>4 DEF Pruned, Recreating, Strategy
  <1>5. CASE DepGet \/ DepStatus
    <2>1. dc'.pc \in {"list", "idle"}
      BY <1>5 DEF DepGet, DepStatus, Goes, DepIdle
    <2> QED BY <1>1, <1>3, <1>4, <2>1
  <1>6. CASE DepList
    <2>1. CASE dc' = [pc |-> "status", d |-> dc.d]
      BY <1>1, <1>3, <1>4, <2>1
    <2>2. CASE dc' = [pc |-> "live", d |-> dc.d, todo |-> {Create(dc.d.template)}, sets |-> sets]
      <3>1. dc'.pc = "live" /\ \A w \in dc'.todo : w.op = "create"
        BY <2>2 DEF Create
      <3> QED BY <1>1, <1>2, <1>3, <3>1 DEF Pruned, Recreating, Strategy, ScalesUp
    <2>3. ASSUME NEW w \in plan(dc.d, sets), NEW pc \in {"pods", "live"},
                 dc' = [pc |-> pc, d |-> dc.d, todo |-> {w}, sets |-> sets],
                 pc = "pods" <=> (Strategy = "Recreate" /\ w.set = dc.d.template
                                  /\ w.replicas > 0)
          PROVE  IInv'
      <3>1. dc.d \in Deployment /\ dc.d.template \in Templates /\ dc.d.replicas \in Nat
        BY <1>6, DepListDecides, SettingIs DEF Deployment, Typed
      <3>2. w.op = "scale" /\ w.set \in Templates
        BY <3>1, PlanScales
      <3>3. dc'.pc = pc /\ dc'.todo = {w} /\ dc'.d = dc.d /\ dc'.sets = sets
        BY <2>3
      <3>4. Pruned'
        BY <1>2, <1>3, <3>2, <3>3 DEF Pruned
      <3>5. Recreating'
        <4> SUFFICES ASSUME Strategy = "Recreate" PROVE Recreating'
          BY <1>2 DEF Recreating, Strategy
        <4>1. \/ w.replicas = 0
              \/ /\ w.set = dc.d.template /\ w.replicas = dc.d.replicas
                 /\ \A u \in Templates \ {dc.d.template} : \A s \in sets[u] : Emptied(s)
          BY PlanRecreates
        <4>2. w.replicas \in Nat
          BY <3>1, <4>1
        <4>3. ScalesUp(w) => /\ pc = "pods" /\ w.set = dc.d.template
                             /\ \A u \in Templates \ {w.set} : \A s \in sets[u] : Emptied(s)
          BY <2>3, <4>1, <4>2 DEF ScalesUp
        <4> QED BY <1>2, <1>3, <3>3, <4>2, <4>3 DEF Recreating
      <3> QED BY <1>1, <1>3, <3>4, <3>5
    <2>4. ASSUME NEW P \in Prunable(dc.d, sets),
                 dc' = [pc |-> "pods", d |-> dc.d, todo |-> { Prune(t) : t \in P }, sets |-> sets]
          PROVE  IInv'
      <3>1. P \subseteq Templates /\ \A t \in P : \A s \in sets[t] : Emptied(s)
        BY PrunableAreEmptied
      <3>2. dc'.pc = "pods" /\ dc'.todo = { Prune(t) : t \in P }
        BY <2>4
      <3>3. \A t : Prune(t).op = "prune" /\ Prune(t).set = t
        BY DEF Prune
      <3>4. Pruned'
        BY <1>2, <1>3, <3>1, <3>2, <3>3 DEF Pruned
      <3>5. \A w \in dc'.todo : w.op = "prune"
        BY <3>2, <3>3
      <3>6. Recreating'
        BY <1>2, <1>3, <3>5 DEF Recreating, Strategy, ScalesUp
      <3> QED BY <1>1, <1>3, <3>4, <3>6
    <2> QED BY <1>6, DepListDecides, <2>1, <2>2, <2>3, <2>4
  <1>7. CASE DepPods
    <2> DEFINE todo == { w \in dc.todo : StillAllowed(w) }
    <2>1. /\ dc.pc = "pods"
          /\ dc' = IF todo = {} THEN [pc |-> "status", d |-> dc.d]
                   ELSE [dc EXCEPT !.pc = "live", !.todo = todo]
      BY <1>7 DEF DepPods, Goes
    <2>2. CASE todo = {}
      BY <1>1, <1>3, <1>4, <2>1, <2>2
    <2>3. CASE todo # {}
      <3>1. dc'.pc = "live" /\ dc'.todo = todo
        BY <2>1, <2>3, DeployingIs
      <3>2. todo \subseteq dc.todo /\ \A w \in todo : StillAllowed(w)
        OBVIOUS
      <3> HIDE DEF todo
      <3>3. Pruned'
        <4> SUFFICES ASSUME dep # {} PROVE Pruned'
          BY <1>2 DEF Pruned
        <4>1. ASSUME NEW w \in todo, w.op = "prune"
              PROVE  (\A s \in sets[w.set] : Emptied(s)) /\ Owned(pods, w.set) = {}
          BY <2>1, <3>2, <4>1 DEF Pruned, StillAllowed
        <4> QED BY <1>2, <1>3, <3>1, <4>1 DEF Pruned
      <3>4. Recreating'
        <4> SUFFICES ASSUME Strategy = "Recreate" PROVE Recreating'
          BY <1>2 DEF Recreating, Strategy
        <4>1. ASSUME dep # {}, NEW w \in todo, ScalesUp(w), NEW u \in Templates \ {w.set}
              PROVE  Cold(u)
          <5>1. /\ w.set = dc.d.template
                /\ \A s \in sets[u] : Emptied(s)
                /\ dc.sets[u] = {} => sets[u] = {}
            BY <2>1, <3>2, <4>1 DEF Recreating
          <5>2. Quiet(u)
            BY <4>1, <5>1 DEF Settled, Pruned
          <5>3. Owned(pods, u) = {}
            <6>1. CASE dc.sets[u] = {}
              BY <4>1, <5>1, <6>1 DEF Pruned
            <6>2. CASE dc.sets[u] # {}
              <7>1. u \in Old(dc.d, dc.sets)
                BY <4>1, <5>1, <6>2 DEF Old
              <7> QED BY <3>2, <4>1, <7>1 DEF StillAllowed, ScalesUp
            <6> QED BY <6>1, <6>2
          <5> QED BY <5>1, <5>2, <5>3 DEF Cold, Emptied
        <4>2. \A w \in todo : w.op = "scale" => w.replicas \in Nat
          BY <2>1, <3>2 DEF Recreating
        <4>3. \A w \in todo : w.set \in Templates
          BY <2>1, <3>2, DeployingIs
        <4> QED BY <1>2, <1>3, <3>1, <4>1, <4>2, <4>3 DEF Recreating
      <3> QED BY <1>1, <1>3, <3>3, <3>4
    <2> QED BY <2>2, <2>3
  <1>8. CASE DepLive
    <2>1. /\ dc.pc = "live"
          /\ \/ dc' = [pc |-> "status", d |-> dc.d]
             \/ dep # {} /\ dc' = [dc EXCEPT !.pc = "write"]
      BY <1>8 DEF DepLive, Goes
    <2>2. CASE dc' = [pc |-> "status", d |-> dc.d]
      BY <1>1, <1>3, <1>4, <2>2
    <2>3. CASE dep # {} /\ dc' = [dc EXCEPT !.pc = "write"]
      <3>1. dc'.pc = "write" /\ dc'.todo = dc.todo
        BY <2>1, <2>3, DeployingIs
      <3>2. Pruned'
        BY <1>2, <1>3, <2>1, <3>1 DEF Pruned
      <3>3. Recreating'
        BY <1>2, <1>3, <2>1, <2>3, <3>1 DEF Recreating, Strategy
      <3> QED BY <1>1, <1>3, <3>2, <3>3
    <2> QED BY <2>1, <2>2, <2>3
  <1> QED BY <1>5, <1>6, <1>7, <1>8

\* A write leaves its set, empties its place, or makes a set not yet observed.
LEMMA WrittenIs ==
    ASSUME Typed, NEW w, w.op \in {"create", "scale", "prune"}, w.set \in Templates
    PROVE  \/ Written(w) = sets[w.set]
           \/ w.op = "prune" /\ Written(w) = {}
           \/ \E x : /\ Written(w) = {x} /\ ~Emptied(x) /\ w.op # "prune"
                     /\ x.replicas = IF w.op = "scale" THEN w.replicas ELSE 0
  <1> DEFINE fresh == [replicas |-> 0, generation |-> 1, observed |-> 0,
                       count |-> 0, available |-> 0]
  <1>1. CASE sets[w.set] # dc.sets[w.set]
    BY <1>1 DEF Written
  <1>2. CASE w.op = "prune"
    BY <1>2 DEF Written
  <1>3. CASE sets[w.set] = dc.sets[w.set] /\ w.op = "create"
    <2>1. Written(w) = {fresh}
      BY <1>3 DEF Written
    <2>2. ~Emptied(fresh) /\ fresh.replicas = 0
      BY DEF Emptied
    <2> HIDE DEF fresh
    <2> QED BY <1>3, <2>1, <2>2
  <1>4. CASE sets[w.set] = dc.sets[w.set] /\ w.op = "scale"
    <2>1. CASE sets[w.set] = {}
      BY <1>4, <2>1 DEF Written
    <2>2. CASE sets[w.set] # {}
      <3>1. PICK s : sets[w.set] = {s} /\ IsSet(s)
        BY <2>2 DEF Typed
      <3> DEFINE x == [s EXCEPT !.replicas = w.replicas, !.generation = @ + 1]
      <3>2. Written(w) = {x}
        BY <1>4, <3>1 DEF Written
      <3>3. x.replicas = w.replicas /\ x.observed = s.observed /\ x.generation = s.generation + 1
        BY <3>1 DEF IsSet
      <3>4. x.observed # x.generation
        BY <3>1, <3>3 DEF IsSet
      <3> HIDE DEF x
      <3> QED BY <1>4, <3>2, <3>3, <3>4 DEF Emptied
    <2> QED BY <2>1, <2>2
  <1> QED BY <1>1, <1>2, <1>3, <1>4

LEMMA DepWriteKeeps ==
    ASSUME IInv, DepWrite
    PROVE  IInv'
  <1> USE DEF IInv
  <1>1. Typed'
    BY TypedDeploymentController DEF DeploymentController
  <1>2. UNCHANGED <<setting, dep, pods, rc>> /\ dc.pc = "write"
    BY DEF DepWrite
  <1>3. PICK w \in dc.todo :
           /\ sets' = [sets EXCEPT ![w.set] = Written(w)]
           /\ dc' = IF dc.todo = {w} THEN [pc |-> "status", d |-> dc.d]
                    ELSE [dc EXCEPT !.pc = "live", !.todo = @ \ {w}]
    BY DEF DepWrite, Goes
  <1> DEFINE t == w.set
  <1>4. t \in Templates /\ w.op \in {"create", "scale", "prune"}
    BY <1>2, DeployingIs DEF IsPlan
  <1>5. /\ sets'[t] = Written(w)
        /\ \A u \in Templates \ {t} : sets'[u] = sets[u]
    BY <1>3, <1>4 DEF Typed
  <1>6. \A u \in Templates : Quiet(u)' = Quiet(u)
    BY <1>2 DEF Quiet
  <1>7. \A u \in Templates \ {t} : Cold(u) => Cold(u)'
    BY <1>2, <1>5, <1>6 DEF Cold
  <1>8. \/ dc'.pc = "status"
        \/ /\ dc'.pc = "live" /\ dc'.todo \subseteq dc.todo
           /\ \A v \in dc.todo : v.op = "prune"
    BY <1>2, <1>3, DeployingIs DEF IsPlan
  <1>9. Settled'
    <2> SUFFICES ASSUME NEW u \in Templates, NEW s \in sets'[u], Emptied(s) PROVE Quiet(u)'
      BY DEF Settled
    <2>1. s \in sets[u]
      BY <1>4, <1>5, WrittenIs
    <2> QED BY <1>6, <2>1 DEF Settled
  <1>10. Pruned'
    <2> SUFFICES ASSUME dep # {} PROVE Pruned'
      BY <1>2 DEF Pruned
    <2>1. ASSUME NEW u \in Templates, sets'[u] = {}
          PROVE  Owned(pods', u) = {} /\ Quiet(u)'
      <3>1. CASE sets[u] = {}
        BY <1>2, <1>6, <3>1 DEF Pruned
      <3>2. CASE sets[u] # {}
        <4>1. u = t /\ w.op = "prune"
          BY <1>4, <1>5, <2>1, <3>2, WrittenIs
        <4>2. Cold(u)
          BY <1>2, <4>1, PrunedAreCold
        <4> QED BY <1>2, <1>6, <4>2 DEF Cold
      <3> QED BY <3>1, <3>2
    <2>2. ASSUME dc'.pc = "live", NEW v \in dc'.todo
          PROVE  (\A s \in sets'[v.set] : Emptied(s)) /\ Owned(pods', v.set) = {}
      <3>1. v \in dc.todo /\ v.op = "prune" /\ w.op = "prune"
        BY <1>8, <2>2
      <3>2. (\A s \in sets[v.set] : Emptied(s)) /\ Owned(pods, v.set) = {} /\ v.set \in Templates
        BY <1>2, <3>1, DeployingIs DEF Pruned
      <3>3. sets'[v.set] \subseteq sets[v.set]
        BY <1>4, <1>5, <3>1, <3>2, WrittenIs
      <3> QED BY <1>2, <3>2, <3>3
    <2> QED BY <1>8, <2>1, <2>2 DEF Pruned
  <1>11. Recreating'
    <2> SUFFICES ASSUME Strategy = "Recreate" PROVE Recreating'
      BY <1>2 DEF Recreating, Strategy
    <2>1. \A u \in Templates : \A s \in sets'[u] : s.replicas \in Nat
      <3>1. w.op = "scale" => w.replicas \in Nat
        BY <1>2 DEF Recreating
      <3>2. \A s \in sets'[t] : s.replicas \in Nat
        BY <1>4, <1>5, <3>1, WrittenIs DEF Recreating
      <3> QED BY <1>5, <3>2 DEF Recreating
    <2>2. ASSUME NEW u \in Templates, NEW v \in Templates, u # v
          PROVE  Cold(u)' \/ Cold(v)'
      <3>1. CASE ScalesUp(w)
        <4>1. \A x \in Templates \ {t} : Cold(x)
          BY <1>2, <3>1 DEF Recreating
        <4> QED BY <1>7, <2>2, <4>1
      <3>2. CASE ~ScalesUp(w)
        <4>1. Cold(t) => \A s \in sets'[t] : s.replicas = 0
          BY <1>4, <1>5, <3>2, WrittenIs DEF Cold, ScalesUp
        <4>2. Cold(t) => Cold(t)'
          BY <1>2, <1>4, <1>6, <4>1 DEF Cold
        <4> QED BY <1>7, <2>2, <4>2 DEF Recreating
      <3> QED BY <3>1, <3>2
    <2> QED BY <1>8, <2>1, <2>2 DEF Recreating, ScalesUp
  <1> QED BY <1>1, <1>9, <1>10, <1>11

-----------------------------------------------------------------------------
(* Sums over the sets.                                                     *)

\* g sums the weights w over the subsets of X, element by element.
IsSum(g, w, X) ==
    g = [T \in SUBSET X |-> IF T = {} THEN 0 ELSE w[The(T)] + g[T \ {The(T)}]]

SumOf(w, X) == (CHOOSE g : IsSum(g, w, X))[X]

LEMMA LeastNumber ==
    ASSUME NEW S, S \subseteq Nat, S # {}
    PROVE  \E m \in S : \A n \in S : m <= n
  <1> DEFINE R == {ss \in Nat \X Nat : ss[1] < ss[2]}
  <1>1. IsWellFoundedOn(R, Nat)
    BY NatLessThanWellFounded DEF OpToRel
  <1>2. \A m, n \in Nat : m < n => <<m, n>> \in R
    OBVIOUS
  <1> HIDE DEF R
  <1>3. PICK m \in S : \A n \in S : <<n, m>> \notin R
    BY <1>1, WFMin
  <1>4. \A n \in S : ~(n < m)
    BY <1>2, <1>3
  <1> QED BY <1>4

LEMMA SmallestFails ==
    ASSUME NEW X, IsFiniteSet(X), NEW Bad, Bad \subseteq SUBSET X, Bad # {}
    PROVE  \E T \in Bad : \A V \in Bad : Cardinality(T) <= Cardinality(V)
  <1> DEFINE Sizes == { Cardinality(T) : T \in Bad }
  <1>1. \A T \in Bad : IsFiniteSet(T) /\ Cardinality(T) \in Nat
    BY FS_Subset, FS_CardinalityType
  <1>2. Sizes \subseteq Nat /\ Sizes # {}
    BY <1>1
  <1>3. PICK m \in Sizes : \A n \in Sizes : m <= n
    <2> HIDE DEF Sizes
    <2> QED BY <1>2, LeastNumber
  <1> QED BY <1>3

LEMMA Smaller ==
    ASSUME NEW X, IsFiniteSet(X), NEW T, T \subseteq X, NEW x \in T
    PROVE  /\ IsFiniteSet(T) /\ T \ {x} \subseteq X /\ IsFiniteSet(T \ {x})
           /\ Cardinality(T) \in Nat /\ Cardinality(T \ {x}) \in Nat
           /\ Cardinality(T) = Cardinality(T \ {x}) + 1
           /\ ~(Cardinality(T) <= Cardinality(T \ {x}))
  <1>1. IsFiniteSet(T)
    BY FS_Subset
  <1>2. /\ IsFiniteSet(T \ {x}) /\ Cardinality(T \ {x}) = Cardinality(T) - 1
    BY <1>1, FS_RemoveElement
  <1>3. Cardinality(T) \in Nat /\ Cardinality(T \ {x}) \in Nat
    BY <1>1, <1>2, FS_CardinalityType
  <1> QED BY <1>1, <1>2, <1>3

LEMMA TheIsIn ==
    ASSUME NEW T, T # {}
    PROVE  The(T) \in T
  BY DEF The

LEMMA SumStep ==
    ASSUME NEW g, NEW w, NEW X, IsSum(g, w, X), NEW T, T \subseteq X
    PROVE  /\ T = {} => g[T] = 0
           /\ T # {} => g[T] = w[The(T)] + g[T \ {The(T)}]
  BY DEF IsSum

\* Two of them agree, and give a number.
LEMMA SumsAgree ==
    ASSUME NEW U, NEW w \in [U -> Nat], NEW X, X \subseteq U, IsFiniteSet(X), NEW Y, Y \subseteq U,
           NEW g, IsSum(g, w, X), NEW h, IsSum(h, w, Y), NEW T, T \subseteq X, T \subseteq Y
    PROVE  g[T] = h[T] /\ g[T] \in Nat
  <1> DEFINE Bad == { V \in SUBSET X : V \subseteq Y /\ ~(g[V] = h[V] /\ g[V] \in Nat) }
  <1> SUFFICES ASSUME Bad # {} PROVE FALSE
    OBVIOUS
  <1>1. PICK V \in Bad : \A W \in Bad : Cardinality(V) <= Cardinality(W)
    <2>1. Bad \subseteq SUBSET X
      OBVIOUS
    <2> HIDE DEF Bad
    <2> QED BY <2>1, SmallestFails
  <1>2. V \subseteq X /\ V \subseteq Y /\ ~(g[V] = h[V] /\ g[V] \in Nat)
    OBVIOUS
  <1>3. V # {}
    <2>1. V = {} => g[V] = 0 /\ h[V] = 0
      BY <1>2, SumStep
    <2> QED BY <1>2, <2>1
  <1>4. PICK x \in V : x = The(V)
    BY <1>3, TheIsIn
  <1>5. V \ {x} \notin Bad
    <2> HIDE DEF Bad
    <2>1. ~(Cardinality(V) <= Cardinality(V \ {x}))
      BY <1>2, <1>4, Smaller
    <2> QED BY <1>1, <2>1
  <1>6. g[V \ {x}] = h[V \ {x}] /\ g[V \ {x}] \in Nat
    BY <1>2, <1>5
  <1>7. g[V] = w[x] + g[V \ {x}] /\ h[V] = w[x] + h[V \ {x}]
    BY <1>2, <1>3, <1>4, SumStep
  <1>8. w[x] \in Nat
    BY <1>2, <1>4
  <1> QED BY <1>2, <1>6, <1>7, <1>8

\* The elements may be taken in any order.
LEMMA SumTakes ==
    ASSUME NEW U, NEW w \in [U -> Nat], NEW X, X \subseteq U, IsFiniteSet(X),
           NEW g, IsSum(g, w, X), NEW T, T \subseteq X, NEW x \in T
    PROVE  g[T] = w[x] + g[T \ {x}]
  <1> DEFINE Bad == { V \in SUBSET X : \E y \in V : g[V] # w[y] + g[V \ {y}] }
  <1> SUFFICES ASSUME Bad # {} PROVE FALSE
    OBVIOUS
  <1>1. PICK V \in Bad : \A W \in Bad : Cardinality(V) <= Cardinality(W)
    <2>1. Bad \subseteq SUBSET X
      OBVIOUS
    <2> HIDE DEF Bad
    <2> QED BY <2>1, SmallestFails
  <1>2. PICK y \in V : g[V] # w[y] + g[V \ {y}]
    OBVIOUS
  <1>3. V \subseteq X /\ V # {}
    OBVIOUS
  <1>4. PICK c \in V : g[V] = w[c] + g[V \ {c}]
    BY <1>3, SumStep, TheIsIn
  <1>5. c # y
    BY <1>2, <1>4
  <1>6. \A z \in V : V \ {z} \notin Bad
    <2> HIDE DEF Bad
    <2>1. \A z \in V : ~(Cardinality(V) <= Cardinality(V \ {z}))
      BY <1>3, Smaller
    <2> QED BY <1>1, <2>1
  <1>7. g[V \ {c}] = w[y] + g[(V \ {c}) \ {y}]
    BY <1>3, <1>5, <1>6
  <1>8. g[V \ {y}] = w[c] + g[(V \ {y}) \ {c}]
    BY <1>3, <1>5, <1>6
  <1>9. (V \ {c}) \ {y} = (V \ {y}) \ {c}
    OBVIOUS
  <1>10. g[(V \ {y}) \ {c}] \in Nat
    <2> DEFINE W == (V \ {y}) \ {c}
    <2>1. W \subseteq X
      BY <1>3
    <2> HIDE DEF W
    <2>2. g[W] \in Nat
      BY <2>1, SumsAgree
    <2> QED BY <2>2 DEF W
  <1>11. PICK a \in Nat, b \in Nat, k \in Nat :
            w[c] = a /\ w[y] = b /\ g[(V \ {y}) \ {c}] = k
    BY <1>3, <1>10
  <1>12. g[V \ {c}] = b + k /\ g[V \ {y}] = a + k
    BY <1>7, <1>8, <1>9, <1>11
  <1>13. g[V] = a + (b + k) /\ g[V] # b + (a + k)
    BY <1>2, <1>4, <1>11, <1>12
  <1> QED BY <1>13

\* There is one: at each size it extends the one below.
LEMMA SumExists ==
    ASSUME NEW w, NEW X, IsFiniteSet(X)
    PROVE  \E g : IsSum(g, w, X)
  <1> DEFINE Upto(g, n) ==
               g = [T \in SUBSET X |->
                      IF T = {} \/ Cardinality(T) > n THEN 0
                      ELSE w[The(T)] + g[T \ {The(T)}]]
             Bad == { n \in Nat : ~ \E g : Upto(g, n) }
  <1>0. \A T \in SUBSET X : IsFiniteSet(T) /\ Cardinality(T) \in Nat
    BY FS_Subset, FS_CardinalityType
  <1>1. Bad = {}
    <2> SUFFICES ASSUME Bad # {} PROVE FALSE
      OBVIOUS
    <2>1. PICK n \in Bad : \A m \in Bad : n <= m
      <3>1. Bad \subseteq Nat
        OBVIOUS
      <3> HIDE DEF Bad
      <3> QED BY <3>1, LeastNumber
    <2>7. n \in Nat /\ ~ \E g : Upto(g, n)
      OBVIOUS
    <2>2. n # 0
      <3>1. \A T \in SUBSET X : T = {} \/ Cardinality(T) > 0
        BY <1>0, FS_EmptySet
      <3> DEFINE z == [T \in SUBSET X |-> 0]
      <3>2. Upto(z, 0)
        BY <3>1
      <3> QED BY <2>7, <3>2
    <2>3. PICK g : Upto(g, n - 1)
      <3>1. n - 1 \in Nat /\ ~(n <= n - 1)
        BY <2>7, <2>2
      <3>2. n - 1 \notin Bad
        <4> HIDE DEF Bad
        <4> QED BY <2>1, <3>1
      <3> QED BY <3>1, <3>2
    <2> DEFINE h == [T \in SUBSET X |-> IF T = {} \/ Cardinality(T) > n THEN 0
                                        ELSE w[The(T)] + g[T \ {The(T)}]]
    <2>4. \A T \in SUBSET X : T # {} /\ Cardinality(T) <= n =>
             g[T \ {The(T)}] = h[T \ {The(T)}]
      <3> SUFFICES ASSUME NEW T \in SUBSET X, T # {}, Cardinality(T) <= n
                   PROVE  g[T \ {The(T)}] = h[T \ {The(T)}]
        OBVIOUS
      <3> DEFINE V == T \ {The(T)}
      <3>1. V \in SUBSET X /\ Cardinality(V) \in Nat /\ Cardinality(V) <= n - 1
        BY TheIsIn, Smaller
      <3> HIDE DEF V
      <3>2. g[V] = IF V = {} \/ Cardinality(V) > n - 1 THEN 0 ELSE w[The(V)] + g[V \ {The(V)}]
        BY <2>3, <3>1
      <3>3. h[V] = IF V = {} \/ Cardinality(V) > n THEN 0 ELSE w[The(V)] + g[V \ {The(V)}]
        BY <3>1
      <3>4. ~(Cardinality(V) > n - 1) /\ ~(Cardinality(V) > n)
        BY <3>1
      <3>5. g[V] = h[V]
        BY <3>2, <3>3, <3>4
      <3> QED BY <3>5 DEF V
    <2>5. h = [T \in SUBSET X |-> IF T = {} \/ Cardinality(T) > n THEN 0
                                  ELSE w[The(T)] + h[T \ {The(T)}]]
      <3>1. \A T \in SUBSET X : (T = {} \/ Cardinality(T) > n) \/
               w[The(T)] + g[T \ {The(T)}] = w[The(T)] + h[T \ {The(T)}]
        <4>1. \A T \in SUBSET X : Cardinality(T) > n \/ Cardinality(T) <= n
          BY <1>0, <2>7
        <4> HIDE DEF h, Bad
        <4> QED BY <2>4, <4>1
      <3>2. \A T \in SUBSET X :
               (IF T = {} \/ Cardinality(T) > n THEN 0 ELSE w[The(T)] + g[T \ {The(T)}])
                 = (IF T = {} \/ Cardinality(T) > n THEN 0 ELSE w[The(T)] + h[T \ {The(T)}])
        <4> HIDE DEF h
        <4> QED BY <3>1
      <3> QED BY <3>2, Zenon
    <2>6. Upto(h, n)
      BY <2>5, Zenon
    <2> HIDE DEF h
    <2> QED BY <2>7, <2>6
  <1> DEFINE n == Cardinality(X)
  <1>2. PICK g : Upto(g, n)
    BY <1>0, <1>1
  <1>3. \A T \in SUBSET X : ~(Cardinality(T) > n)
    BY <1>0, FS_Subset
  <1>4. IsSum(g, w, X)
    BY <1>2, <1>3 DEF IsSum
  <1> QED BY <1>4

\* The sum over a set, and over one element more.
LEMMA SumFacts ==
    ASSUME NEW U, NEW w \in [U -> Nat], NEW X, X \subseteq U, IsFiniteSet(X)
    PROVE  /\ SumOf(w, X) \in Nat
           /\ \A g : IsSum(g, w, X) => g[X] = SumOf(w, X)
           /\ \A x \in X : SumOf(w, X) = w[x] + SumOf(w, X \ {x})
  <1> DEFINE G(Y) == CHOOSE g : IsSum(g, w, Y)
  <1>1. \A Y : IsFiniteSet(Y) => IsSum(G(Y), w, Y)
    BY SumExists
  <1>2. IsSum(G(X), w, X) /\ SumOf(w, X) = G(X)[X]
    BY <1>1 DEF SumOf
  <1> HIDE DEF G
  <1>3. SumOf(w, X) \in Nat
    BY <1>2, SumsAgree
  <1>4. ASSUME NEW g, IsSum(g, w, X)
        PROVE  g[X] = SumOf(w, X)
    BY <1>2, <1>4, SumsAgree
  <1>5. ASSUME NEW x \in X
        PROVE  SumOf(w, X) = w[x] + SumOf(w, X \ {x})
    <2>1. PICK Y : Y = X \ {x}
      OBVIOUS
    <2>2. IsFiniteSet(Y) /\ Y \subseteq U /\ Y \subseteq X
      BY <2>1, FS_Subset
    <2>3. IsSum(G(Y), w, Y) /\ SumOf(w, Y) = G(Y)[Y]
      BY <1>1, <2>2 DEF SumOf, G
    <2>4. G(X)[X] = w[x] + G(X)[Y]
      BY <1>2, <2>1, SumTakes
    <2>5. G(X)[Y] = G(Y)[Y]
      BY <1>2, <2>2, <2>3, SumsAgree
    <2> QED BY <1>2, <2>1, <2>3, <2>4, <2>5
  <1> QED BY <1>3, <1>4, <1>5

-----------------------------------------------------------------------------
(* What the sets ask for together.                                         *)

\* What the sets of ss ask for, and what they have available.
Demand(ss) == Total(ss, SpecOf)
Serving(ss) == Total(ss, AvailableOf)

\* Numbers, uniqueness and what is still to be written have their types.
Numbered ==
    /\ \A t \in Templates : sets[t] \subseteq ReplicaSet
    /\ IsFiniteSet(Existing(sets))
    /\ \A t \in Templates : rc[t].pc \notin {"idle", "list"} =>
          rc[t].seen \subseteq Pod /\ IsFiniteSet(rc[t].seen)
    /\ dc.pc \in {"pods", "live", "write"} => dc.todo # {} /\ dc.todo \subseteq Work
    /\ \A p, q \in pods : p.uid = q.uid => p = q
    /\ dep = {} \/ \E d \in dep : dep = {d}
    /\ edits \in 0..setting.maxEdits

\* Scaling as w says leaves the sets at n Pods and their surge.
Fits(w, n) ==
    \A s \in sets[w.set] :
        \/ w.replicas <= s.replicas
        \/ Demand(sets) + (w.replicas - s.replicas) <= n + surge(n)

\* A scaling that is about to be written fits below the surge whatever happened
\* since its list: nobody else changes what the sets ask for.
Within ==
    Strategy = "RollingUpdate" /\ "scale" \notin setting.edits =>
        \A d \in dep :
            /\ Demand(sets) <= d.replicas + surge(d.replicas)
            /\ dc.pc # "idle" => dc.d.replicas = d.replicas
            /\ dc.pc \in {"pods", "live", "write"} =>
                  \A w \in dc.todo : w.op = "scale" => Fits(w, d.replicas)

Asked == [e \in ReplicaSet \X Templates |-> e[1].replicas]

LEMMA BoundsAreNumbers ==
    ASSUME setting \in Settings, NEW n \in Nat
    PROVE  surge(n) \in Nat /\ unavailable(n) \in Nat
  <1>1. /\ setting.surge \in [n : Nat, percent : BOOLEAN]
        /\ setting.unavailable \in [n : Nat, percent : BOOLEAN]
    BY RolloutAssumption
  <1>2. ASSUME NEW v \in [n : Nat, percent : BOOLEAN], NEW ceil \in BOOLEAN
        PROVE  fraction(v, n, ceil) \in Nat
    <2>1. PICK m \in Nat : m = v.n
      BY <1>2
    <2>2. n * m \in Nat
      BY <2>1
    <2>3. (n * m) \div 100 \in Nat
      BY <2>2
    <2> QED BY <2>1, <2>3 DEF fraction
  <1>3. surge(n) \in Nat /\ fraction(setting.unavailable, n, FALSE) \in Nat
    BY <1>1, <1>2 DEF surge
  <1> QED BY <1>3 DEF unavailable, LesserOf

\* The total is a number, each set has its share in it, and replacing the set of
\* a template changes it by the difference.
LEMMA TotalOf ==
    ASSUME NEW ss, \A t \in Templates : ss[t] \subseteq ReplicaSet, IsFiniteSet(Existing(ss))
    PROVE  /\ Demand(ss) = SumOf(Asked, Existing(ss))
           /\ Demand(ss) \in Nat
           /\ Serving(ss) \in Nat
  <1> DEFINE U == ReplicaSet \X Templates
             E == Existing(ss)
             w == [e \in U |-> e[1].available]
  <1>1. E \subseteq U
    BY DEF Existing
  <1>2. Asked \in [U -> Nat] /\ w \in [U -> Nat]
    BY DEF Asked, ReplicaSet
  <1>3. \A e \in U : Asked[e] = e[1].replicas /\ w[e] = e[1].available
    BY DEF Asked
  <1> HIDE DEF U, w
  <1>4. Demand(ss) = SumOf(Asked, E)
    <2> DEFINE Adds(i) == i = [T \in SUBSET E |->
                                 IF T = {} THEN 0
                                 ELSE (CHOOSE x \in T : TRUE)[1].replicas
                                        + i[T \ {CHOOSE x \in T : TRUE}]]
               iter == CHOOSE i : Adds(i)
    <2>1. Demand(ss) = iter[E]
      BY DEF Demand, Total, SpecOf, MapThenSumSet, MapThenFoldSet
    <2>2. ASSUME NEW i
          PROVE  IsSum(i, Asked, E) <=> Adds(i)
      <3>1. ASSUME NEW T \in SUBSET E, T # {}
            PROVE  Asked[The(T)] + i[T \ {The(T)}]
                     = (CHOOSE x \in T : TRUE)[1].replicas + i[T \ {CHOOSE x \in T : TRUE}]
        <4>1. Asked[The(T)] = The(T)[1].replicas
          BY <1>1, <1>3, <3>1, TheIsIn
        <4> QED BY <4>1 DEF The
      <3> QED BY <3>1 DEF IsSum
    <2>3. PICK g : IsSum(g, Asked, E)
      BY SumExists
    <2>4. IsSum(iter, Asked, E)
      <3> HIDE DEF Adds
      <3> QED BY <2>2, <2>3
    <2> HIDE DEF iter
    <2> QED BY <1>1, <1>2, <2>1, <2>4, SumFacts
  <1>5. Serving(ss) = SumOf(w, E)
    <2> DEFINE Adds(i) == i = [T \in SUBSET E |->
                                 IF T = {} THEN 0
                                 ELSE (CHOOSE x \in T : TRUE)[1].available
                                        + i[T \ {CHOOSE x \in T : TRUE}]]
               iter == CHOOSE i : Adds(i)
    <2>1. Serving(ss) = iter[E]
      BY DEF Serving, Total, AvailableOf, MapThenSumSet, MapThenFoldSet
    <2>2. ASSUME NEW i
          PROVE  IsSum(i, w, E) <=> Adds(i)
      <3>1. ASSUME NEW T \in SUBSET E, T # {}
            PROVE  w[The(T)] + i[T \ {The(T)}]
                     = (CHOOSE x \in T : TRUE)[1].available + i[T \ {CHOOSE x \in T : TRUE}]
        <4>1. w[The(T)] = The(T)[1].available
          BY <1>1, <1>3, <3>1, TheIsIn
        <4> QED BY <4>1 DEF The
      <3> QED BY <3>1 DEF IsSum
    <2>3. PICK g : IsSum(g, w, E)
      BY SumExists
    <2>4. IsSum(iter, w, E)
      <3> HIDE DEF Adds
      <3> QED BY <2>2, <2>3
    <2> HIDE DEF iter
    <2> QED BY <1>1, <1>2, <2>1, <2>4, SumFacts
  <1>6. SumOf(Asked, E) \in Nat /\ SumOf(w, E) \in Nat
    BY <1>1, <1>2, SumFacts
  <1> QED BY <1>4, <1>5, <1>6

\* The sets of the templates, one of them or none, and ss with another one at t.
Sets(ss) ==
    /\ ss = [t \in Templates |-> ss[t]]
    /\ \A t \in Templates : ss[t] \subseteq ReplicaSet
    /\ IsFiniteSet(Existing(ss))

Single(S) == S \subseteq ReplicaSet /\ (S = {} \/ \E s : S = {s})

Moved(ss, t, S) == [ss EXCEPT ![t] = S]

LEMMA TotalMoves ==
    ASSUME NEW ss, Sets(ss), NEW t \in Templates, Single(ss[t]), NEW S, Single(S),
           NEW now, now = Moved(ss, t, S)
    PROVE  /\ IsFiniteSet(Existing(now)) /\ Demand(now) \in Nat
           /\ \E before \in Nat, after \in Nat :
                 /\ Demand(now) = Demand(ss) - before + after
                 /\ before <= Demand(ss)
                 /\ IF ss[t] = {} THEN before = 0 ELSE \A s \in ss[t] : before = s.replicas
                 /\ IF S = {} THEN after = 0 ELSE \A s \in S : after = s.replicas
  <1>0. /\ ss = [u \in Templates |-> ss[u]] /\ now = [ss EXCEPT ![t] = S]
        /\ \A u \in Templates : ss[u] \subseteq ReplicaSet
        /\ IsFiniteSet(Existing(ss))
        /\ ss[t] = {} \/ \E s : ss[t] = {s}
        /\ S \in SUBSET ReplicaSet /\ (S = {} \/ \E s : S = {s})
    BY DEF Sets, Single, Moved
  <1> DEFINE U == ReplicaSet \X Templates
             rest == Existing(ss) \ (ss[t] \X {t})
  <1>1. \A u \in Templates : now[u] = IF u = t THEN S ELSE ss[u]
    BY <1>0
  <1>2. Existing(now) = rest \cup (S \X {t})
    BY <1>1 DEF Existing
  <1>3. Existing(ss) = rest \cup (ss[t] \X {t})
    BY <1>0 DEF Existing
  <1>4. rest \subseteq U /\ IsFiniteSet(rest)
    <2>1. IsFiniteSet(Existing(ss)) /\ \A u \in Templates : ss[u] \subseteq ReplicaSet
      BY <1>0
    <2>2. Existing(ss) \subseteq U
      BY <2>1 DEF Existing
    <2>3. rest \subseteq Existing(ss)
      OBVIOUS
    <2> HIDE DEF U, rest
    <2> QED BY <2>1, <2>2, <2>3, FS_Subset
  <1>5. \A s : <<s, t>> \notin rest
    BY DEF Existing
  <1>6. Asked \in [U -> Nat] /\ \A s \in ReplicaSet : Asked[<<s, t>>] = s.replicas
    BY DEF Asked, ReplicaSet
  <1> HIDE DEF U, rest
  <1>7. PICK r \in Nat : SumOf(Asked, rest) = r
    BY <1>4, <1>6, SumFacts
  <1>8. ASSUME NEW V \in SUBSET ReplicaSet, V = {} \/ \E s : V = {s}
        PROVE  /\ IsFiniteSet(rest \cup (V \X {t}))
               /\ \E n \in Nat : /\ SumOf(Asked, rest \cup (V \X {t})) = r + n
                                 /\ IF V = {} THEN n = 0 ELSE \A s \in V : n = s.replicas
    <2>1. CASE V = {}
      <3>1. PICK Y : Y = rest \cup (V \X {t})
        OBVIOUS
      <3>2. Y = rest
        BY <2>1, <3>1
      <3>3. IsFiniteSet(Y) /\ SumOf(Asked, Y) = r + 0
        BY <1>4, <1>7, <3>2
      <3> QED BY <2>1, <3>1, <3>3
    <2>2. ASSUME NEW s \in ReplicaSet, V = {s}
          PROVE  /\ IsFiniteSet(rest \cup (V \X {t}))
                 /\ SumOf(Asked, rest \cup (V \X {t})) = r + s.replicas
                 /\ s.replicas \in Nat
      <3>1. PICK e : e = <<s, t>>
        OBVIOUS
      <3>2. rest \cup (V \X {t}) = rest \cup {e} /\ e \notin rest
        BY <1>5, <2>2, <3>1
      <3>3. e \in U /\ Asked[e] = s.replicas
        BY <1>6, <2>2, <3>1 DEF U
      <3>4. PICK X : X = rest \cup {e}
        OBVIOUS
      <3>5. X \subseteq U /\ IsFiniteSet(X) /\ X \ {e} = rest /\ e \in X
        BY <1>4, <3>2, <3>3, <3>4, FS_AddElement
      <3>6. SumOf(Asked, X) = Asked[e] + SumOf(Asked, rest)
        BY <1>6, <3>5, SumFacts
      <3>7. s.replicas \in Nat
        BY DEF ReplicaSet
      <3>8. PICK k \in Nat : k = s.replicas
        BY <3>7
      <3>9. SumOf(Asked, X) = r + k
        BY <1>7, <3>3, <3>6, <3>8
      <3> QED BY <3>2, <3>4, <3>5, <3>8, <3>9
    <2> QED BY <1>8, <2>1, <2>2
  <1>9. \A u \in Templates : now[u] \subseteq ReplicaSet
    BY <1>0, <1>1
  <1>10. IsFiniteSet(Existing(now)) /\ Demand(now) = SumOf(Asked, Existing(now))
    BY <1>0, <1>2, <1>8, <1>9, TotalOf
  <1>11. Demand(ss) = SumOf(Asked, Existing(ss))
    BY <1>0, TotalOf
  <1>12. PICK before \in Nat :
            /\ Demand(ss) = r + before
            /\ IF ss[t] = {} THEN before = 0 ELSE \A s \in ss[t] : before = s.replicas
    BY <1>0, <1>3, <1>8, <1>11
  <1>13. PICK after \in Nat :
            /\ Demand(now) = r + after
            /\ IF S = {} THEN after = 0 ELSE \A s \in S : after = s.replicas
    BY <1>0, <1>2, <1>8, <1>10
  <1>14. r + before \in Nat /\ r + after \in Nat
    OBVIOUS
  <1>15. /\ r + after = (r + before) - before + after
         /\ before <= r + before
    OBVIOUS
  <1>16. /\ Demand(now) \in Nat
         /\ Demand(now) = Demand(ss) - before + after
         /\ before <= Demand(ss)
    BY <1>12, <1>13, <1>14, <1>15
  <1> QED BY <1>10, <1>12, <1>13, <1>16

LEMMA NumberedInit ==
    ASSUME Init
    PROVE  Numbered /\ Within
  <1> DEFINE R(n) == [replicas |-> n, generation |-> 1, observed |-> 1,
                      count |-> n, available |-> n]
             Q(t, n) == [u \in Templates |-> IF u = t THEN {R(n)} ELSE {}]
             D(t, n) == [template |-> t, replicas |-> n, paused |-> FALSE, generation |-> 1]
  <1>1. PICK t \in Templates, n \in Replicas :
            /\ dep = {D(t, n)} /\ sets = Q(t, n)
            /\ pods = { [uid |-> i, owner |-> t, available |-> TRUE] : i \in 1..n }
    BY DEF Init
  <1>2. /\ edits = 0 /\ dc = DepIdle /\ rc = [u \in Templates |-> SetIdle]
        /\ setting \in Settings
    BY DEF Init
  <1>3. n \in Nat
    BY <1>1, <1>2, SettingIs
  <1>4. R(n) \in ReplicaSet /\ R(n).replicas = n
    BY <1>3 DEF ReplicaSet
  <1>5. D(t, n).replicas = n
    OBVIOUS
  <1> HIDE DEF R, D
  <1>6. \A u \in Templates : sets[u] = IF u = t THEN {R(n)} ELSE {}
    BY <1>1
  <1>7. \A u \in Templates : sets[u] \subseteq ReplicaSet
    BY <1>4, <1>6
  <1>8. PICK e : e = <<R(n), t>>
    OBVIOUS
  <1>9. Existing(sets) = {e}
    BY <1>6, <1>8 DEF Existing
  <1>10. IsFiniteSet(Existing(sets))
    BY <1>9, FS_Singleton
  <1>11. Demand(sets) = n
    <2>1. PICK E : E = Existing(sets)
      OBVIOUS
    <2>2. /\ Demand(sets) = SumOf(Asked, E)
          /\ E \subseteq ReplicaSet \X Templates /\ IsFiniteSet(E)
      BY <1>4, <1>7, <1>8, <1>9, <1>10, <2>1, TotalOf
    <2>3. Asked \in [ReplicaSet \X Templates -> Nat] /\ Asked[e] = n
      BY <1>4, <1>8 DEF Asked, ReplicaSet
    <2>4. e \in E /\ E \ {e} = {}
      BY <1>9, <2>1
    <2>5. SumOf(Asked, E) = Asked[e] + SumOf(Asked, {})
      BY <2>2, <2>3, <2>4, SumFacts
    <2>6. SumOf(Asked, {}) = 0
      <3>1. IsFiniteSet({})
        BY FS_EmptySet
      <3>2. PICK g : IsSum(g, Asked, {})
        BY <3>1, SumExists
      <3>3. g[{}] = SumOf(Asked, {})
        BY <2>3, <3>1, <3>2, SumFacts
      <3>4. g[{}] = 0
        BY <3>2, SumStep
      <3> QED BY <3>3, <3>4
    <2> QED BY <1>3, <2>2, <2>3, <2>5, <2>6
  <1>12. surge(n) \in Nat
    BY <1>2, <1>3, BoundsAreNumbers
  <1>13. edits \in 0..setting.maxEdits
    BY <1>2, RolloutAssumption
  <1>14. \A p, q \in pods : p.uid = q.uid => p = q
    <2>1. \A p \in pods : p = [uid |-> p.uid, owner |-> t, available |-> TRUE]
      BY <1>1
    <2> QED BY <2>1
  <1>15. Numbered
    BY <1>1, <1>2, <1>7, <1>10, <1>13, <1>14 DEF Numbered, DepIdle, SetIdle
  <1>16. n <= n + surge(n)
    BY <1>3, <1>12
  <1>17. Within
    BY <1>1, <1>2, <1>5, <1>11, <1>16 DEF Within, DepIdle
  <1> QED BY <1>15, <1>17

\* Nothing that the sets ask for changes, nor what is about to be written.
LEMMA Steady ==
    ASSUME Typed, Numbered, Within, UNCHANGED <<setting, sets>>, dc' = dc \/ dc' = DepIdle,
           \A e \in dep' : \E d \in dep : "scale" \notin setting.edits => e.replicas = d.replicas
    PROVE  /\ Within'
           /\ \A t \in Templates : sets'[t] \subseteq ReplicaSet'
           /\ IsFiniteSet(Existing(sets'))
           /\ dc'.pc \in {"pods", "live", "write"} => dc'.todo # {} /\ dc'.todo \subseteq Work'
  <1>1. /\ Strategy' = Strategy /\ \A n : surge(n)' = surge(n)
        /\ ReplicaSet' = ReplicaSet /\ Work' = Work
    BY DEF Strategy, surge, ReplicaSet, Work
  <1>2. dc'.pc \in {"pods", "live", "write"} => dc' = dc
    BY DEF DepIdle
  <1>3. dc'.pc # "idle" => dc' = dc
    BY DEF DepIdle
  <1>4. Within'
    <2> SUFFICES ASSUME Strategy = "RollingUpdate", "scale" \notin setting.edits, NEW e \in dep'
                 PROVE  /\ Demand(sets) <= e.replicas + surge(e.replicas)
                        /\ dc'.pc # "idle" => dc'.d.replicas = e.replicas
                        /\ dc'.pc \in {"pods", "live", "write"} =>
                              \A w \in dc'.todo : w.op = "scale" => Fits(w, e.replicas)
      BY <1>1 DEF Within, Fits, Demand
    <2>1. PICK d \in dep : e.replicas = d.replicas
      OBVIOUS
    <2>2. /\ Demand(sets) <= d.replicas + surge(d.replicas)
          /\ dc.pc # "idle" => dc.d.replicas = d.replicas
          /\ dc.pc \in {"pods", "live", "write"} =>
                \A w \in dc.todo : w.op = "scale" => Fits(w, d.replicas)
      BY DEF Within
    <2> QED BY <1>2, <1>3, <2>1, <2>2
  <1> QED BY <1>1, <1>2, <1>4 DEF Numbered

\* Users, failures and the collector of Pods.
LEMMA SurroundingsCount ==
    ASSUME Typed, Numbered, Within,
           UserEdit \/ PodDelete \/ PodReady \/ PodUnready \/ GcPod \/ ServerRestart
    PROVE  Numbered' /\ Within'
  <1>1. /\ UNCHANGED <<setting, sets>> /\ (dc' = dc \/ dc' = DepIdle)
        /\ rc' = rc \/ rc' = [t \in Templates |-> SetIdle]
    BY DEF UserEdit, PodDelete, PodReady, PodUnready, PodBecomes, GcPod, ServerRestart
  <1>2. dep' = {} \/ \E d \in dep' : dep' = {d}
    <2>1. CASE dep' = dep
      BY <2>1 DEF Numbered
    <2>2. CASE dep' # dep
      BY <2>2 DEF UserEdit, Edited, PodDelete, PodReady, PodUnready, PodBecomes, GcPod,
                  ServerRestart
    <2> QED BY <2>1, <2>2
  <1>3. \A e \in dep' : \E d \in dep : "scale" \notin setting.edits => e.replicas = d.replicas
    <2>1. CASE dep' = dep
      BY <2>1
    <2>2. CASE dep' # dep
      <3>1. UserEdit
        BY <2>2 DEF PodDelete, PodReady, PodUnready, PodBecomes, GcPod, ServerRestart
      <3>2. PICK d \in dep :
               \/ \E t \in Templates : Edited([d EXCEPT !.template = t])
               \/ "scale" \in setting.edits /\ \E n \in Replicas : Edited([d EXCEPT !.replicas = n])
               \/ Edited([d EXCEPT !.paused = ~@])
               \/ dep' = {}
        BY <3>1 DEF UserEdit, May
      <3>3. d \in Deployment
        BY DEF Typed
      <3>4. CASE \E x \in Deployment : x.replicas = d.replicas /\ Edited(x)
        <4>1. PICK x \in Deployment : x.replicas = d.replicas /\ Edited(x)
          BY <3>4
        <4>2. \A e \in dep' : e.replicas = x.replicas
          BY <4>1 DEF Edited, Deployment
        <4> QED BY <4>1, <4>2
      <3>5. CASE "scale" \in setting.edits \/ dep' = {}
        BY <3>5
      <3>6. ASSUME NEW t \in Templates
            PROVE  /\ [d EXCEPT !.template = t] \in Deployment
                   /\ [d EXCEPT !.template = t].replicas = d.replicas
        BY <3>3 DEF Deployment
      <3>7. /\ [d EXCEPT !.paused = ~@] \in Deployment
            /\ [d EXCEPT !.paused = ~@].replicas = d.replicas
        BY <3>3 DEF Deployment
      <3> QED BY <3>2, <3>4, <3>5, <3>6, <3>7
    <2> QED BY <2>1, <2>2
  <1>4. edits' \in 0..setting'.maxEdits
    <2>1. edits' = edits \/ (edits < setting.maxEdits /\ edits' = edits + 1)
      BY DEF UserEdit, PodDelete, PodReady, PodUnready, PodBecomes, GcPod, ServerRestart, May
    <2>2. setting.maxEdits \in Nat /\ setting' = setting
      BY <1>1, RolloutAssumption DEF Typed
    <2> QED BY <2>1, <2>2 DEF Numbered
  <1>5. \A p, q \in pods' : p.uid = q.uid => p = q
    <2>1. CASE pods' \subseteq pods
      BY <2>1 DEF Numbered
    <2>2. CASE ~(pods' \subseteq pods)
      <3>1. PICK p \in pods, a \in BOOLEAN : pods' = (pods \ {p}) \cup {[p EXCEPT !.available = a]}
        BY <2>2 DEF UserEdit, PodDelete, PodReady, PodUnready, PodBecomes, GcPod, ServerRestart
      <3>2. PICK x : x = [p EXCEPT !.available = a]
        OBVIOUS
      <3>3. x.uid = p.uid
        BY <3>2 DEF Typed, Pod
      <3>4. \A y, z \in pods : y.uid = z.uid => y = z
        BY DEF Numbered
      <3>5. pods' = (pods \ {p}) \cup {x}
        BY <3>1, <3>2
      <3> QED BY <3>3, <3>4, <3>5
    <2> QED BY <2>1, <2>2
  <1>6. Pod' = Pod
    BY <1>1, SameTypes
  <1>7. \A t \in Templates : rc'[t].pc \notin {"idle", "list"} =>
           rc'[t].seen \subseteq Pod' /\ IsFiniteSet(rc'[t].seen)
    BY <1>1, <1>6 DEF Numbered, SetIdle
  <1> QED BY <1>1, <1>2, <1>3, <1>4, <1>5, <1>7, Steady DEF Numbered

\* Sets are collected only after their Deployment.
LEMMA GcSetCounts ==
    ASSUME Typed, Numbered, Within, NEW t \in Templates, GcSet(t)
    PROVE  Numbered' /\ Within'
  <1>1. /\ UNCHANGED <<setting, dep, pods, edits, dc, rc>> /\ dep = {}
        /\ sets' = [sets EXCEPT ![t] = {}]
    BY DEF GcSet
  <1>2. /\ ReplicaSet' = ReplicaSet /\ Work' = Work /\ Pod' = Pod
    BY <1>1, SameTypes DEF ReplicaSet, Work
  <1>3. \A u \in Templates : sets'[u] \subseteq sets[u]
    BY <1>1 DEF Typed
  <1>4. Existing(sets') \subseteq Existing(sets)
    BY <1>3 DEF Existing
  <1>5. IsFiniteSet(Existing(sets'))
    BY <1>4, FS_Subset DEF Numbered
  <1> QED BY <1>1, <1>2, <1>3, <1>5 DEF Numbered, Within

\* A reconciliation of a set leaves the sets, but for their status.
LEMMA ReconciliationCounts ==
    ASSUME Typed, Numbered, Within, NEW t \in Templates,
           RsGet(t) \/ RsList(t) \/ RsLive(t) \/ RsCreate(t) \/ RsDelete(t) \/ RsRelist(t)
    PROVE  Numbered' /\ Within'
  <1>1. UNCHANGED <<setting, dep, sets, edits, dc>>
    BY DEF RsGet, RsList, RsLive, RsCreate, RsDelete, RsRelist
  <1>2. PICK r : rc' = [rc EXCEPT ![t] = r]
    BY DEF RsGet, RsList, RsLive, RsCreate, RsDelete, RsRelist, SetGoes
  <1>3. \A u \in Templates : rc'[u] = IF u = t THEN r ELSE rc[u]
    BY <1>2 DEF Typed
  <1>4. Pod' = Pod
    BY <1>1, SameTypes
  <1>5. /\ Owned(pods, t) \subseteq Pod /\ IsFiniteSet(Owned(pods, t))
    BY FS_Subset DEF Owned, Typed
  <1>6. ASSUME r.pc \in {"idle", "list"} \/ (r.seen \subseteq Pod /\ IsFiniteSet(r.seen)),
               \A p, q \in pods' : p.uid = q.uid => p = q
        PROVE  Numbered' /\ Within'
    <2>1. \A u \in Templates : rc'[u].pc \notin {"idle", "list"} =>
             rc'[u].seen \subseteq Pod' /\ IsFiniteSet(rc'[u].seen)
      BY <1>3, <1>4, <1>6 DEF Numbered
    <2> QED BY <1>1, <1>6, <2>1, Steady DEF Numbered
  <1>7. rc'[t] = r
    BY <1>3
  <1>8. rc[t].pc \in {"live", "write", "relist"} =>
           /\ rc[t] = [pc |-> rc[t].pc, set |-> rc[t].set, seen |-> rc[t].seen,
                       create |-> rc[t].create, victims |-> rc[t].victims]
           /\ rc[t].seen \subseteq Pod /\ IsFiniteSet(rc[t].seen)
    <2>1. rc[t].pc \in {"live", "write", "relist"} =>
             rc[t] = [pc |-> rc[t].pc, set |-> rc[t].set, seen |-> rc[t].seen,
                      create |-> rc[t].create, victims |-> rc[t].victims]
      BY DEF Typed, IsReconciliation, SetIdle
    <2> QED BY <2>1 DEF Numbered
  <1>9. CASE RsGet(t)
    <2>1. r.pc = "list" /\ pods' = pods
      BY <1>7, <1>9 DEF RsGet, SetGoes, Typed
    <2> QED BY <1>6, <2>1 DEF Numbered
  <1>10. CASE RsList(t)
    <2>1. r.seen = Owned(pods, t) /\ pods' = pods
      BY <1>7, <1>10 DEF RsList, SetGoes, Typed
    <2> QED BY <1>5, <1>6, <2>1 DEF Numbered
  <1>11. CASE RsLive(t)
    <2>1. PICK pc : r = [rc[t] EXCEPT !.pc = pc]
      BY <1>7, <1>11 DEF RsLive, SetGoes, Typed
    <2>2. rc[t].pc = "live" /\ pods' = pods
      BY <1>11 DEF RsLive
    <2>3. r.seen = rc[t].seen
      BY <1>8, <2>1, <2>2
    <2> QED BY <1>6, <1>8, <2>2, <2>3 DEF Numbered
  <1>12. CASE RsCreate(t)
    <2> DEFINE u == CHOOSE u \in Unused : \A v \in Unused : u <= v
    <2>1. PICK p, pc, n :
             /\ p = [uid |-> u, owner |-> t, available |-> FALSE]
             /\ pods' = pods \cup {p}
             /\ r = [rc[t] EXCEPT !.pc = pc, !.create = n, !.seen = @ \cup {p}]
      BY <1>7, <1>12 DEF RsCreate, SetGoes, Typed
    <2>2. u \in Unused
      BY <1>12, LeastUnused DEF RsCreate, Typed
    <2> HIDE DEF u
    <2>3. rc[t].pc = "write"
      BY <1>12 DEF RsCreate
    <2>4. p \in Pod /\ \A q \in pods : p.uid # q.uid
      BY <2>1, <2>2 DEF Unused, Pod
    <2>5. r.seen = rc[t].seen \cup {p}
      BY <1>8, <2>1, <2>3
    <2>6. r.seen \subseteq Pod /\ IsFiniteSet(r.seen)
      BY <1>8, <2>3, <2>4, <2>5, FS_AddElement
    <2>7. \A x, y \in pods' : x.uid = y.uid => x = y
      BY <2>1, <2>4 DEF Numbered
    <2> QED BY <1>6, <2>6, <2>7
  <1>13. CASE RsDelete(t)
    <2>4. PICK p \in rc[t].victims :
             /\ pods' = pods \ {p}
             /\ rc' = [rc EXCEPT ![t] =
                         [rc[t] EXCEPT !.pc = IF rc[t].victims = {p} THEN "relist" ELSE "live",
                                       !.victims = @ \ {p}]]
      BY <1>13 DEF RsDelete, SetGoes
    <2>1. /\ pods' = pods \ {p}
          /\ r = [rc[t] EXCEPT !.pc = IF rc[t].victims = {p} THEN "relist" ELSE "live",
                               !.victims = @ \ {p}]
      BY <1>7, <2>4 DEF Typed
    <2>2. rc[t].pc = "write"
      BY <1>13 DEF RsDelete
    <2>3. r.seen = rc[t].seen
      BY <1>8, <2>1, <2>2
    <2> QED BY <1>6, <1>8, <2>1, <2>2, <2>3 DEF Numbered
  <1>14. CASE RsRelist(t)
    <2>1. r = [rc[t] EXCEPT !.pc = "status", !.seen = Owned(pods, t)] /\ pods' = pods
      BY <1>7, <1>14 DEF RsRelist, SetGoes, Typed
    <2>2. rc[t].pc = "relist"
      BY <1>14 DEF RsRelist
    <2>3. r.seen = Owned(pods, t)
      BY <1>8, <2>1, <2>2
    <2> QED BY <1>5, <1>6, <2>1, <2>3 DEF Numbered
  <1> QED BY <1>9, <1>10, <1>11, <1>12, <1>13, <1>14

\* The status of a set is not what it asks for.
LEMMA RsStatusCounts ==
    ASSUME Typed, Numbered, Within, NEW t \in Templates, RsStatus(t)
    PROVE  Numbered' /\ Within'
  <1>1. /\ UNCHANGED <<setting, dep, pods, edits, dc>>
        /\ rc' = [rc EXCEPT ![t] = SetIdle] /\ rc[t].pc = "status"
    BY DEF RsStatus, SetGoes
  <1>2. /\ ReplicaSet' = ReplicaSet /\ Work' = Work /\ Pod' = Pod /\ Strategy' = Strategy
        /\ \A n : surge(n)' = surge(n)
    BY <1>1, SameTypes DEF ReplicaSet, Work, surge
  <1>3. \A u \in Templates : rc'[u] = IF u = t THEN SetIdle ELSE rc[u]
    BY <1>1 DEF Typed
  <1>4. \A u \in Templates : rc'[u].pc \notin {"idle", "list"} =>
           rc'[u].seen \subseteq Pod /\ IsFiniteSet(rc'[u].seen)
    BY <1>3 DEF Numbered, SetIdle
  <1> DEFINE s == rc[t].set
             count == Cardinality(rc[t].seen)
             available == Cardinality(Available(rc[t].seen))
  <1>5. sets' = IF sets[t] = {s}
                THEN [sets EXCEPT ![t] = {[s EXCEPT !.observed = s.generation,
                                                    !.count = count, !.available = available]}]
                ELSE sets
    BY DEF RsStatus
  <1>6. count \in Nat /\ available \in Nat
    <2>1. IsFiniteSet(rc[t].seen)
      BY <1>1 DEF Numbered
    <2>2. Available(rc[t].seen) \subseteq rc[t].seen
      BY DEF Available
    <2> QED BY <2>1, <2>2, FS_Subset, FS_CardinalityType
  <1> HIDE DEF count, available
  <1>7. ASSUME sets' = sets
        PROVE  Numbered' /\ Within'
    BY <1>1, <1>2, <1>4, <1>7, Steady DEF Numbered
  <1>8. CASE sets[t] = {s}
    <2>1. s \in ReplicaSet
      BY <1>8 DEF Numbered
    <2>2. PICK new : new = [s EXCEPT !.observed = s.generation,
                                     !.count = count, !.available = available]
      OBVIOUS
    <2>3. new \in ReplicaSet /\ new.replicas = s.replicas
      BY <1>6, <2>1, <2>2 DEF ReplicaSet
    <2> HIDE DEF s
    <2>4. sets' = [sets EXCEPT ![t] = {new}]
      BY <1>5, <1>8, <2>2
    <2>5. \A u \in Templates : sets'[u] = IF u = t THEN {new} ELSE sets[u]
      BY <2>4 DEF Typed
    <2>6. \A u \in Templates : sets'[u] \subseteq ReplicaSet
      BY <2>3, <2>5 DEF Numbered
    <2>7. IsFiniteSet(Existing(sets')) /\ Demand(sets') = Demand(sets)
      <3>1. Sets(sets)
        BY DEF Typed, Numbered, Sets
      <3>2. PICK S : S = {new}
        OBVIOUS
      <3>3. Single(S)
        BY <2>3, <3>2 DEF Single
      <3>4. Single(sets[t])
        BY <1>8, <2>1 DEF Single
      <3>5. sets' = Moved(sets, t, S)
        BY <2>4, <3>2 DEF Moved
      <3>6. PICK before \in Nat, after \in Nat :
               /\ IsFiniteSet(Existing(sets'))
               /\ Demand(sets') = Demand(sets) - before + after
               /\ IF sets[t] = {} THEN before = 0 ELSE \A x \in sets[t] : before = x.replicas
               /\ IF S = {} THEN after = 0 ELSE \A x \in S : after = x.replicas
        BY <3>1, <3>3, <3>4, <3>5, TotalMoves
      <3>7. before = s.replicas /\ after = new.replicas
        BY <1>8, <3>2, <3>6
      <3>8. Demand(sets) \in Nat
        BY <3>1, TotalOf DEF Sets
      <3> QED BY <2>3, <3>6, <3>7, <3>8
    <2>8. ASSUME NEW w \in Work, NEW x \in sets'[w.set]
          PROVE  \E y \in sets[w.set] : x.replicas = y.replicas
      <3>1. w.set \in Templates
        BY DEF Work
      <3> QED BY <1>8, <2>3, <2>5, <2>8, <3>1
    <2>9. Demand(sets)' = Demand(sets')
      BY DEF Demand
    <2>10. Numbered'
      BY <1>1, <1>2, <1>4, <2>6, <2>7 DEF Numbered
    <2>11. dc.pc \in {"pods", "live", "write"} => dc.todo \subseteq Work
      BY DEF Numbered
    <2>12. Within'
      BY <1>1, <1>2, <2>7, <2>8, <2>9, <2>11 DEF Within, Fits
    <2> QED BY <2>10, <2>12
  <1>9. CASE sets[t] # {s}
    BY <1>5, <1>7, <1>9
  <1> QED BY <1>8, <1>9

-----------------------------------------------------------------------------
(* What the Deployment controller plans, and writes.                       *)

\* A scaling that is planned fits, by what the list shows.
LEMMA PlanFits ==
    ASSUME Typed, Numbered, NEW d \in Deployment, sets[d.template] # {},
           NEW w \in plan(d, sets)
    PROVE  w \in Work /\ (Strategy = "RollingUpdate" => Fits(w, d.replicas))
  <1>1. d.template \in Templates /\ d.replicas \in Nat
    BY SettingIs DEF Deployment, Typed
  <1>2. \A t, n : /\ Scale(t, n).op = "scale" /\ Scale(t, n).set = t
                  /\ Scale(t, n).replicas = n
    BY DEF Scale
  <1>3. ASSUME NEW t \in Templates, NEW n \in Nat
        PROVE  Scale(t, n) \in Work
    BY <1>3 DEF Scale, Work
  <1>4. \A t \in Old(d, sets) : t \in Templates /\ sets[t] # {}
    BY DEF Old
  <1>5. ASSUME NEW t \in Templates, sets[t] # {}
        PROVE  \E s \in ReplicaSet : sets[t] = {s} /\ The(sets[t]) = s
    <2>1. PICK s : sets[t] = {s}
      BY <1>5 DEF Typed
    <2>2. s \in ReplicaSet
      BY <2>1 DEF Numbered
    <2> QED BY <2>1, <2>2, TheOnly
  <1>6. CASE w \in plan_recreate(d, sets) /\ Strategy # "RollingUpdate"
    <2>1. \/ \E t \in Old(d, sets) : w = Scale(t, 0)
          \/ w = Scale(d.template, d.replicas)
      BY <1>6 DEF plan_recreate
    <2> QED BY <1>1, <1>3, <1>4, <1>6, <2>1
  <1>7. CASE w \in plan_rolling(d, sets)
    <2>1. PICK s \in ReplicaSet : sets[d.template] = {s} /\ The(sets[d.template]) = s
      BY <1>1, <1>5
    <2>2. PICK new \in Nat : s.replicas = new
      BY DEF ReplicaSet
    <2>3. PICK total \in Nat : Demand(sets) = total
      BY TotalOf DEF Numbered
    <2>4. PICK sur \in Nat : surge(d.replicas) = sur
      BY <1>1, BoundsAreNumbers DEF Typed
    <2>5. PICK D \in Nat : D = d.replicas
      BY <1>1
    <2> DEFINE room == D + sur - total
    <2>6. \/ new > D /\ w = Scale(d.template, D)
          \/ new < D /\ room > 0 /\ w = Scale(d.template, new + LesserOf(D - new, room))
          \/ \E t \in Old(d, sets) :
                Removable(d, sets, t) > 0 /\ w = Scale(t, The(sets[t]).replicas - Removable(d, sets, t))
      BY <1>7, <2>1, <2>2, <2>3, <2>4, <2>5 DEF plan_rolling, Demand
    <2>7. CASE new > D /\ w = Scale(d.template, D)
      <3>1. w.set = d.template /\ w.replicas = D
        BY <1>2, <2>7
      <3>2. D <= new
        BY <2>7
      <3> QED BY <1>1, <1>3, <2>1, <2>2, <2>7, <3>1, <3>2 DEF Fits
    <2>8. CASE new < D /\ room > 0 /\ w = Scale(d.template, new + LesserOf(D - new, room))
      <3>0. D - new \in Nat /\ room \in Nat
        BY <2>8
      <3>1. PICK m \in Nat : m = LesserOf(D - new, room)
        BY <3>0 DEF LesserOf
      <3>2. m <= room
        BY <2>8, <3>1 DEF LesserOf
      <3>3. w.set = d.template /\ w.replicas = new + m
        BY <1>2, <2>8, <3>1
      <3>4. total + ((new + m) - new) <= D + sur
        BY <3>2
      <3>5. Fits(w, d.replicas)
        BY <2>1, <2>2, <2>3, <2>4, <2>5, <3>3, <3>4 DEF Fits
      <3> QED BY <1>1, <1>3, <2>8, <3>1, <3>5
    <2>9. CASE \E t \in Old(d, sets) :
                  Removable(d, sets, t) > 0 /\ w = Scale(t, The(sets[t]).replicas - Removable(d, sets, t))
      <3>1. PICK t \in Old(d, sets) :
               Removable(d, sets, t) > 0 /\ w = Scale(t, The(sets[t]).replicas - Removable(d, sets, t))
        BY <2>9
      <3>2. PICK x \in ReplicaSet : sets[t] = {x} /\ The(sets[t]) = x
        BY <1>4, <1>5
      <3>3. PICK n \in Nat, a \in Nat : x.replicas = n /\ x.available = a
        BY DEF ReplicaSet
      <3>4. PICK r : r = Removable(d, sets, t)
        OBVIOUS
      <3>5. r \in Int /\ r <= n
        <4>1. PICK ready \in Nat : ready = Serving(sets)
          BY TotalOf DEF Numbered
        <4>2. PICK off \in Nat : off = unavailable(d.replicas)
          BY <1>1, BoundsAreNumbers DEF Typed
        <4>3. PICK e \in Int : e = GreaterOf(ready - (D - off), 0)
          BY DEF GreaterOf
        <4>4. PICK b \in Int : b = GreaterOf(n - a, 0)
          BY DEF GreaterOf
        <4>5. r = LesserOf(n, b + e)
          BY <2>5, <3>2, <3>3, <3>4, <4>1, <4>2, <4>3, <4>4 DEF Removable, Serving
        <4> QED BY <4>5 DEF LesserOf
      <3>6. r > 0 /\ w = Scale(t, n - r)
        BY <3>1, <3>2, <3>3, <3>4
      <3>7. n - r \in Nat /\ n - r <= n
        BY <3>5, <3>6
      <3>8. w.set = t /\ w.replicas = n - r /\ w \in Work
        BY <1>2, <1>3, <1>4, <3>6, <3>7
      <3>9. Fits(w, d.replicas)
        BY <3>2, <3>3, <3>7, <3>8 DEF Fits
      <3> QED BY <3>8, <3>9
    <2> QED BY <2>6, <2>7, <2>8, <2>9
  <1>8. w \in IF Strategy = "Recreate" THEN plan_recreate(d, sets) ELSE plan_rolling(d, sets)
    BY DEF plan
  <1> QED BY <1>6, <1>7, <1>8

\* The reads of the Deployment controller.
LEMMA DepReadsCount ==
    ASSUME Typed, Numbered, Within, DepGet \/ DepList \/ DepPods \/ DepLive \/ DepStatus
    PROVE  Numbered' /\ Within'
  <1>1. UNCHANGED <<setting, dep, sets, pods, edits, rc>>
    BY DEF DepGet, DepList, DepPods, DepLive, DepStatus
  <1>2. /\ ReplicaSet' = ReplicaSet /\ Work' = Work /\ Pod' = Pod /\ Strategy' = Strategy
        /\ \A n : surge(n)' = surge(n)
    BY <1>1, SameTypes DEF ReplicaSet, Work, surge
  <1> DEFINE Same(d) == "scale" \notin setting.edits => \A e \in dep : d.replicas = e.replicas
  <1>3. ASSUME dc'.pc # "idle" => (Strategy = "RollingUpdate" => Same(dc'.d)),
               dc'.pc \in {"pods", "live", "write"} =>
                  /\ dc'.todo # {} /\ dc'.todo \subseteq Work
                  /\ (Strategy = "RollingUpdate" /\ "scale" \notin setting.edits) =>
                        \A e \in dep : \A w \in dc'.todo : w.op = "scale" => Fits(w, e.replicas)
        PROVE  Numbered' /\ Within'
    <2>1. Numbered'
      BY <1>1, <1>2, <1>3 DEF Numbered
    <2>2. Within'
      BY <1>1, <1>2, <1>3 DEF Within, Fits, Demand
    <2> QED BY <2>1, <2>2
  <1>4. dc.pc # "idle" => (Strategy = "RollingUpdate" => Same(dc.d))
    BY DEF Within
  <1>5. dc.pc \in {"pods", "live", "write"} =>
           /\ dc.todo # {} /\ dc.todo \subseteq Work
           /\ (Strategy = "RollingUpdate" /\ "scale" \notin setting.edits) =>
                 \A e \in dep : \A w \in dc.todo : w.op = "scale" => Fits(w, e.replicas)
    BY DEF Within, Numbered
  <1> HIDE DEF Same
  <1>6. CASE DepGet
    <2>1. PICK d \in dep : dc' = [pc |-> "list", d |-> d]
      BY <1>6 DEF DepGet, Goes
    <2>2. Same(d)
      BY DEF Numbered, Same
    <2> QED BY <1>3, <2>1, <2>2
  <1>7. CASE DepStatus
    BY <1>3, <1>7 DEF DepStatus, Goes, DepIdle
  <1>8. CASE DepList
    <2>1. dc.pc = "list" /\ dc.d \in Deployment
      BY <1>8, DepListDecides DEF DepList
    <2>2. Strategy = "RollingUpdate" => Same(dc.d)
      BY <1>4, <2>1
    <2>3. CASE dc' = [pc |-> "status", d |-> dc.d]
      BY <1>3, <2>2, <2>3
    <2>4. CASE dc' = [pc |-> "live", d |-> dc.d, todo |-> {Create(dc.d.template)}, sets |-> sets]
      <3>1. Create(dc.d.template) \in Work /\ Create(dc.d.template).op = "create"
        BY <2>1 DEF Create, Work, Deployment
      <3> QED BY <1>3, <2>2, <2>4, <3>1
    <2>5. ASSUME NEW w \in plan(dc.d, sets), NEW pc, sets[dc.d.template] # {},
                 dc' = [pc |-> pc, d |-> dc.d, todo |-> {w}, sets |-> sets]
          PROVE  Numbered' /\ Within'
      <3>1. w \in Work /\ (Strategy = "RollingUpdate" => Fits(w, dc.d.replicas))
        BY <2>1, <2>5, PlanFits
      <3>2. dc'.todo = {w} /\ dc'.d = dc.d
        BY <2>5
      <3>3. (Strategy = "RollingUpdate" /\ "scale" \notin setting.edits) =>
               \A e \in dep : Fits(w, e.replicas)
        BY <2>2, <3>1 DEF Same
      <3> QED BY <1>3, <2>2, <3>1, <3>2, <3>3
    <2>6. ASSUME NEW P \in Prunable(dc.d, sets), P # {},
                 dc' = [pc |-> "pods", d |-> dc.d, todo |-> { Prune(t) : t \in P }, sets |-> sets]
          PROVE  Numbered' /\ Within'
      <3>1. P \subseteq Templates
        BY PrunableAreEmptied
      <3>2. \A t \in Templates : Prune(t) \in Work /\ Prune(t).op = "prune"
        BY DEF Prune, Work
      <3>3. dc'.todo = { Prune(t) : t \in P } /\ dc'.d = dc.d
        BY <2>6
      <3>4. dc'.todo # {} /\ dc'.todo \subseteq Work /\ \A w \in dc'.todo : w.op # "scale"
        BY <2>6, <3>1, <3>2, <3>3
      <3> QED BY <1>3, <2>2, <3>3, <3>4
    <2> QED BY <1>8, DepListDecides, <2>3, <2>4, <2>5, <2>6
  <1>9. CASE DepPods
    <2> DEFINE todo == { w \in dc.todo : StillAllowed(w) }
    <2>1. /\ dc.pc = "pods"
          /\ dc' = IF todo = {} THEN [pc |-> "status", d |-> dc.d]
                   ELSE [dc EXCEPT !.pc = "live", !.todo = todo]
      BY <1>9 DEF DepPods, Goes
    <2>2. todo \subseteq dc.todo
      OBVIOUS
    <2> HIDE DEF todo
    <2>3. CASE todo = {}
      BY <1>3, <1>4, <2>1, <2>3
    <2>4. CASE todo # {}
      <3>1. dc'.todo = todo /\ dc'.d = dc.d
        BY <2>1, <2>4, DeployingIs
      <3>2. \A w \in todo : w \in dc.todo
        BY <2>2
      <3> QED BY <1>3, <1>4, <1>5, <2>1, <2>4, <3>1, <3>2
    <2> QED BY <2>3, <2>4
  <1>10. CASE DepLive
    <2>1. /\ dc.pc = "live"
          /\ \/ dc' = [pc |-> "status", d |-> dc.d]
             \/ dc' = [dc EXCEPT !.pc = "write"]
      BY <1>10 DEF DepLive, Goes
    <2>2. CASE dc' = [pc |-> "status", d |-> dc.d]
      BY <1>3, <1>4, <2>1, <2>2
    <2>3. CASE dc' = [dc EXCEPT !.pc = "write"]
      <3>1. dc'.todo = dc.todo /\ dc'.d = dc.d
        BY <2>1, <2>3, DeployingIs
      <3> QED BY <1>3, <1>4, <1>5, <2>1, <3>1
    <2> QED BY <2>1, <2>2, <2>3
  <1> QED BY <1>6, <1>7, <1>8, <1>9, <1>10

LEMMA DepWriteCounts ==
    ASSUME Typed, Numbered, Within, DepWrite
    PROVE  Numbered' /\ Within'
  <1>1. UNCHANGED <<setting, dep, pods, edits, rc>> /\ dc.pc = "write"
    BY DEF DepWrite
  <1>2. /\ ReplicaSet' = ReplicaSet /\ Work' = Work /\ Pod' = Pod /\ Strategy' = Strategy
        /\ \A n : surge(n)' = surge(n)
    BY <1>1, SameTypes DEF ReplicaSet, Work, surge
  <1>3. PICK w \in dc.todo :
           /\ sets' = [sets EXCEPT ![w.set] = Written(w)]
           /\ dc' = IF dc.todo = {w} THEN [pc |-> "status", d |-> dc.d]
                    ELSE [dc EXCEPT !.pc = "live", !.todo = @ \ {w}]
    BY DEF DepWrite, Goes
  <1>4. /\ dc.todo \subseteq Work /\ w \in Work
        /\ w.set \in Templates /\ w.replicas \in Nat /\ w.op \in {"create", "scale", "prune"}
    BY <1>1, <1>3 DEF Numbered, Work
  <1>5. /\ dc'.d = dc.d /\ dc'.pc \in {"status", "live"}
        /\ dc'.pc = "live" => /\ dc'.todo = dc.todo \ {w} /\ dc'.todo # {}
                              /\ \A v \in dc.todo : v.op = "prune"
    <2>1. dc.todo # {w} => \A v \in dc.todo : v.op = "prune"
      BY <1>1, DeployingIs DEF IsPlan
    <2> QED BY <1>1, <1>3, <2>1, DeployingIs
  <1>6. \E T : sets[w.set] = T /\ (T = {} \/ \E s \in ReplicaSet : T = {s})
    BY <1>4 DEF Typed, Numbered
  <1>7. \/ Written(w) = sets[w.set] \/ Written(w) = {}
        \/ /\ sets[w.set] = {} \/ w.op # "scale"
           /\ \E x \in ReplicaSet : Written(w) = {x} /\ x.replicas = 0
        \/ /\ w.op = "scale"
           /\ \E s \in sets[w.set], x \in ReplicaSet : Written(w) = {x} /\ x.replicas = w.replicas
    <2> DEFINE fresh == [replicas |-> 0, generation |-> 1, observed |-> 0,
                         count |-> 0, available |-> 0]
    <2>1. fresh \in ReplicaSet /\ fresh.replicas = 0
      BY DEF ReplicaSet
    <2> HIDE DEF fresh
    <2>2. CASE sets[w.set] = {} \/ sets[w.set] # dc.sets[w.set] \/ w.op # "scale"
      <3>1. Written(w) \in {{}, sets[w.set], {fresh}}
        BY <1>4, <2>2 DEF Written, fresh
      <3>2. Written(w) = {fresh} => sets[w.set] = {fresh} \/ w.op # "scale"
        BY <2>2 DEF Written, fresh
      <3> QED BY <2>1, <3>1, <3>2
    <2>3. CASE sets[w.set] # {} /\ sets[w.set] = dc.sets[w.set] /\ w.op = "scale"
      <3>1. PICK s \in ReplicaSet : sets[w.set] = {s}
        BY <1>6, <2>3
      <3>2. PICK x : x = [s EXCEPT !.replicas = w.replicas, !.generation = @ + 1]
        OBVIOUS
      <3>3. Written(w) = {x}
        BY <2>3, <3>1, <3>2 DEF Written
      <3>4. PICK g \in Nat, n \in Nat : g = s.generation + 1 /\ n = w.replicas
        BY <1>4 DEF ReplicaSet
      <3>5. x = [s EXCEPT !.replicas = n, !.generation = g]
        BY <3>2, <3>4 DEF ReplicaSet
      <3>6. x \in ReplicaSet /\ x.replicas = n
        BY <3>5 DEF ReplicaSet
      <3> QED BY <2>3, <3>1, <3>3, <3>4, <3>6
    <2> QED BY <2>2, <2>3
  <1>8. \A u \in Templates : sets'[u] = IF u = w.set THEN Written(w) ELSE sets[u]
    BY <1>3 DEF Typed
  <1>9. Written(w) \in SUBSET ReplicaSet /\ (Written(w) = {} \/ \E x : Written(w) = {x})
    BY <1>6, <1>7
  <1>10. PICK before \in Nat, after \in Nat :
            /\ IsFiniteSet(Existing(sets'))
            /\ Demand(sets') = Demand(sets) - before + after
            /\ IF sets[w.set] = {} THEN before = 0 ELSE \A s \in sets[w.set] : before = s.replicas
            /\ IF Written(w) = {} THEN after = 0 ELSE \A s \in Written(w) : after = s.replicas
    <2>1. Sets(sets)
      BY DEF Typed, Numbered, Sets
    <2>0. Single(sets[w.set])
      BY <1>6 DEF Single
    <2>2. PICK S : S = Written(w)
      OBVIOUS
    <2>3. Single(S)
      BY <1>9, <2>2 DEF Single
    <2>4. PICK u \in Templates : u = w.set
      BY <1>4
    <2>5. sets' = Moved(sets, u, S) /\ Single(sets[u])
      BY <1>3, <2>0, <2>2, <2>4 DEF Moved
    <2>6. \E before \in Nat, after \in Nat :
             /\ IsFiniteSet(Existing(sets'))
             /\ Demand(sets') = Demand(sets) - before + after
             /\ IF sets[u] = {} THEN before = 0 ELSE \A s \in sets[u] : before = s.replicas
             /\ IF S = {} THEN after = 0 ELSE \A s \in S : after = s.replicas
      BY <2>1, <2>3, <2>5, TotalMoves
    <2> QED BY <2>2, <2>4, <2>6
  <1>11. Numbered'
    <2>1. \A u \in Templates : sets'[u] \subseteq ReplicaSet
      BY <1>8, <1>9 DEF Numbered
    <2>2. dc'.pc \in {"pods", "live", "write"} => dc'.todo # {} /\ dc'.todo \subseteq Work
      BY <1>4, <1>5
    <2> QED BY <1>1, <1>2, <1>10, <2>1, <2>2 DEF Numbered
  <1>12. Within'
    <2> SUFFICES ASSUME Strategy = "RollingUpdate", "scale" \notin setting.edits, NEW d \in dep
                 PROVE  /\ Demand(sets') <= d.replicas + surge(d.replicas)
                        /\ dc.d.replicas = d.replicas
      BY <1>1, <1>2, <1>5 DEF Within, Demand
    <2>1. /\ Demand(sets) <= d.replicas + surge(d.replicas)
          /\ dc.d.replicas = d.replicas
          /\ w.op = "scale" => Fits(w, d.replicas)
      BY <1>1 DEF Within
    <2>2. PICK total \in Nat, most \in Nat : total = Demand(sets) /\ most = d.replicas + surge(d.replicas)
      <3>1. Demand(sets) \in Nat
        BY TotalOf DEF Numbered
      <3>2. d.replicas \in Nat
        BY SettingIs DEF Deployment, Typed
      <3>3. surge(d.replicas) \in Nat
        BY <3>2, BoundsAreNumbers DEF Typed
      <3> QED BY <3>1, <3>2, <3>3
    <2>3. after <= before \/ total + (after - before) <= most
      <3>1. CASE Written(w) = sets[w.set] \/ Written(w) = {}
        <4>1. after = before \/ after = 0
          BY <1>6, <1>10, <3>1
        <4> QED BY <4>1
      <3>2. CASE \E x \in ReplicaSet : Written(w) = {x} /\ x.replicas = 0
        <4>1. after = 0
          BY <1>10, <3>2
        <4> QED BY <4>1
      <3>3. CASE /\ w.op = "scale"
                 /\ \E s \in sets[w.set], x \in ReplicaSet : Written(w) = {x} /\ x.replicas = w.replicas
        <4>1. PICK s \in sets[w.set] : TRUE
          BY <3>3
        <4>2. before = s.replicas /\ after = w.replicas
          BY <1>10, <3>3
        <4>3. \/ w.replicas <= s.replicas
              \/ Demand(sets) + (w.replicas - s.replicas) <= d.replicas + surge(d.replicas)
          BY <2>1, <3>3 DEF Fits
        <4> QED BY <2>2, <4>2, <4>3
      <3> QED BY <1>7, <3>1, <3>2, <3>3
    <2>4. total <= most
      BY <2>1, <2>2
    <2>5. total - before + after <= most
      BY <2>3, <2>4
    <2> QED BY <1>10, <2>1, <2>2, <2>5
  <1> QED BY <1>11, <1>12

LEMMA CountsNext ==
    ASSUME Typed, Numbered, Within, [Next]_vars
    PROVE  Numbered' /\ Within'
  <1>1. CASE UNCHANGED vars
    <2>1. UNCHANGED <<setting, dep, sets, pods, edits, rc, dc>>
      BY <1>1 DEF vars
    <2>2. Pod' = Pod
      BY <2>1, SameTypes
    <2> QED BY <2>1, <2>2, Steady DEF Numbered
  <1>2. CASE UserEdit \/ PodDelete \/ PodReady \/ PodUnready \/ GcPod \/ ServerRestart
    BY <1>2, SurroundingsCount
  <1>3. CASE DeploymentController
    BY <1>3, DepReadsCount, DepWriteCounts DEF DeploymentController
  <1>4. CASE \E t \in Templates : ReplicaSetController(t)
    BY <1>4, ReconciliationCounts, RsStatusCounts DEF ReplicaSetController
  <1>5. CASE \E t \in Templates : GcSet(t)
    BY <1>5, GcSetCounts
  <1> QED BY <1>1, <1>2, <1>3, <1>4, <1>5 DEF Next, Collector

-----------------------------------------------------------------------------
(* The theorems.                                                           *)

LEMMA IInvNext ==
    ASSUME IInv, [Next]_vars
    PROVE  IInv'
  <1>1. CASE UNCHANGED vars
    <2>1. UNCHANGED <<setting, dep, sets, pods, rc, dc>>
      BY <1>1 DEF vars
    <2>2. Typed'
      BY <1>1, TypedNext DEF IInv
    <2>3. /\ Settled'
          /\ \A t \in Templates : Cold(t) => Cold(t)'
      BY <2>1 DEF IInv, Settled, Cold, Quiet
    <2> QED BY <2>1, <2>2, <2>3, Calm DEF IInv
  <1>2. CASE UserEdit \/ PodDelete \/ PodReady \/ PodUnready \/ GcPod \/ ServerRestart
    BY <1>2, SurroundingsKeep
  <1>3. CASE DeploymentController
    BY <1>3, DepReads, DepWriteKeeps DEF DeploymentController
  <1>4. CASE \E t \in Templates : ReplicaSetController(t)
    BY <1>4, ReconciliationKeeps, RsStatusKeeps DEF ReplicaSetController
  <1>5. CASE \E t \in Templates : GcSet(t)
    BY <1>5, GcSetKeeps
  <1> QED BY <1>1, <1>2, <1>3, <1>4, <1>5 DEF Next, Collector

\* The invariant that the two theorems rest on: an observed scale-down to zero
\* leaves no reconciliation that still creates Pods.
THEOREM InvariantHolds == Spec => []IInv
  <1>1. Init => IInv
    BY IInvInit
  <1>2. IInv /\ [Next]_vars => IInv'
    BY IInvNext
  <1> QED BY <1>1, <1>2, PTL DEF Spec

\* Pruning the history takes the set of no Pod while the Deployment is there,
\* whatever the two controllers read late (deployment.rs:285-286).
THEOREM PrunedSetsHadNoPods == Spec => []PodsHaveSets
  <1>1. IInv => PodsHaveSets
    <2> SUFFICES ASSUME IInv, dep # {}, NEW p \in pods PROVE sets[p.owner] # {}
      BY DEF PodsHaveSets
    <2>1. p.owner \in Templates /\ p \in Owned(pods, p.owner)
      BY DEF IInv, Typed, Pod, Owned
    <2> QED BY <2>1 DEF IInv, Pruned
  <1> QED BY <1>1, InvariantHolds, PTL

\* Recreate never has Pods of two templates at once, also when the template
\* changes under a plan that is being written (deployment.rs:273).
THEOREM RecreateNeverMixes == Spec => []NoOverlap
  <1>1. IInv => NoOverlap
    <2> SUFFICES ASSUME IInv, Strategy = "Recreate", NEW p \in pods, NEW q \in pods,
                        p.owner # q.owner
                 PROVE  FALSE
      BY DEF NoOverlap
    <2>1. /\ p.owner \in Templates /\ p \in Owned(pods, p.owner)
          /\ q.owner \in Templates /\ q \in Owned(pods, q.owner)
      BY DEF IInv, Typed, Pod, Owned
    <2> QED BY <2>1 DEF IInv, Recreating, Cold
  <1> QED BY <1>1, InvariantHolds, PTL

\* Whatever both controllers read late, objects keep their types, a rolling
\* update that is not rescaled stays within its surge (deployment.rs:118-130)
\* and Recreate never mixes templates: for any number of templates, any bounds
\* and percentages, and any length of the history.
THEOREM StrategyIsKept == Spec => []StrategyKept
  <1>1. Init => Numbered /\ Within
    BY NumberedInit
  <1>2. IInv /\ Numbered /\ Within /\ [Next]_vars => (Numbered /\ Within)'
    BY CountsNext DEF IInv
  <1>3. IInv /\ Numbered /\ Within /\ NoOverlap => StrategyKept
    <2> SUFFICES ASSUME IInv, Numbered, Within, NoOverlap PROVE StrategyKept
      OBVIOUS
    <2>1. Typed
      BY DEF IInv
    <2>2. ASSUME NEW S, S = {} \/ \E s : S = {s}
          PROVE  Cardinality(S) <= 1
      <3>1. CASE S = {}
        <4>1. Cardinality(S) = 0
          BY <3>1, FS_EmptySet
        <4> QED BY <4>1
      <3>2. ASSUME NEW s, S = {s}
            PROVE  Cardinality(S) <= 1
        <4>1. Cardinality(S) = 1
          BY <3>2, FS_Singleton
        <4> QED BY <4>1
      <3> QED BY <2>2, <3>1, <3>2
    <2>3. dep \subseteq Deployment /\ Cardinality(dep) <= 1
      BY <2>1, <2>2 DEF Typed, Numbered
    <2>4. \A t \in Templates : sets[t] \subseteq ReplicaSet /\ Cardinality(sets[t]) <= 1
      BY <2>1, <2>2 DEF Typed, Numbered
    <2>5. dc.pc \in {"idle", "list", "pods", "live", "write", "status"}
      BY <2>1 DEF Typed, IsDeploying, DepIdle
    <2>6. \A t \in Templates : rc[t].pc \in {"idle", "list", "live", "write", "relist", "status"}
      BY <2>1 DEF Typed, IsReconciliation, SetIdle
    <2>7. TypeOK
      BY <2>1, <2>3, <2>4, <2>5, <2>6 DEF TypeOK, Typed, Numbered
    <2>8. SpecWithinSurge
      BY DEF Within, SpecWithinSurge, Demand
    <2> QED BY <2>7, <2>8 DEF StrategyKept
  <1> QED BY <1>1, <1>2, <1>3, InvariantHolds, RecreateNeverMixes, PTL DEF Spec
=============================================================================
