------------------------------ MODULE Rollout ------------------------------
(***************************************************************************)
(* The Deployment and ReplicaSet controllers and the workload collector    *)
(* (h3s-controllers/src/workload) over one Deployment: its ReplicaSets,    *)
(* one per Pod template, and their Pods.                                   *)
(*                                                                         *)
(* Each API call of a reconciliation is a step: the parent GET, the LISTs, *)
(* the `live' re-check, each write.  So both controllers act on what they  *)
(* read some steps ago, and the API's preconditions decide: a write is     *)
(* refused (409) unless the object is still the one that was read.  An     *)
(* object is its content here: one that changed and changed back is the    *)
(* same as one read later.                                                 *)
(*                                                                         *)
(* Labels and selectors are not modelled: a Pod or a set always matches    *)
(* the owner it was created for, so nothing is adopted or released.        *)
(***************************************************************************)
EXTENDS Integers, FiniteSets, FiniteSetsExt

CONSTANTS
    Templates,  \* Pod templates; each names one ReplicaSet
    Settings    \* the Deployments and surroundings to consider, records of:
                \*   strategy        "RollingUpdate" or "Recreate"
                \*   surge, unavailable   [n |-> Nat, percent |-> BOOLEAN]
                \*   replicas        values of spec.replicas a user may set
                \*   burst           creations or deletions per reconcile (8)
                \*   history         revisionHistoryLimit
                \*   edits           what may happen: "template", "scale",
                \*                   "pause", "delete", "podDelete",
                \*                   "podUnready", "restart"
                \*   maxEdits        bound on how often
                \*   maxPods         bound on Pods that exist at once

ASSUME RolloutAssumption ==
    \A s \in Settings :
        /\ s.strategy \in {"RollingUpdate", "Recreate"}
        /\ {s.surge, s.unavailable} \subseteq [n : Nat, percent : BOOLEAN]
        /\ s.replicas \subseteq Nat
        /\ s.burst \in Nat \ {0} /\ s.history \in Nat
        /\ s.maxEdits \in Nat /\ s.maxPods \in Nat

VARIABLES
    setting,   \* one of Settings, never changed
    dep,       \* the Deployment, {} once deleted
    depStatus, \* its status
    sets,      \* sets[t]: the ReplicaSet of template t, or {}
    pods,      \* the active Pods
    edits,     \* changes, failures and restarts so far
    dc,        \* the Deployment controller's reconciliation in progress
    rc         \* rc[t]: the ReplicaSet controller's one on the set of t

vars == <<setting, dep, depStatus, sets, pods, edits, dc, rc>>

Strategy == setting.strategy
Replicas == setting.replicas
Burst == setting.burst
History == setting.history
MaxPods == setting.maxPods

Pod == [uid : 1..MaxPods, owner : Templates, available : BOOLEAN]

Deployment == [template : Templates, replicas : Replicas, paused : BOOLEAN, generation : Nat]

ReplicaSet == [replicas : Nat, generation : Nat, observed : Nat,
               count : Nat, available : Nat]

\* What the Deployment controller still has to write.
Work == [op : {"create", "scale", "prune"}, set : Templates, replicas : Nat]

DepIdle == [pc |-> "idle"]
SetIdle == [pc |-> "idle"]

\* Objects and local copies have their type, and uids are unique.
TypeOK ==
    /\ setting \in Settings
    /\ dep \subseteq Deployment /\ Cardinality(dep) <= 1
    /\ \A t \in Templates : sets[t] \subseteq ReplicaSet /\ Cardinality(sets[t]) <= 1
    /\ pods \subseteq Pod
    /\ \A p, q \in pods : p.uid = q.uid => p = q
    /\ edits \in 0..setting.maxEdits
    /\ dc.pc \in {"idle", "list", "pods", "live", "write", "status"}
    /\ dc.pc \in {"pods", "live", "write"} => dc.todo # {} /\ dc.todo \subseteq Work
    /\ \A t \in Templates :
         /\ rc[t].pc \in {"idle", "list", "live", "write", "relist", "status"}
         /\ rc[t].pc \notin {"idle", "list"} => rc[t].seen \subseteq Pod

Owned(S, t) == { p \in S : p.owner = t }
Available(S) == { p \in S : p.available }

\* A Deployment that has run for a while: its set is complete and observed.
Init ==
    /\ setting \in Settings
    /\ \E t \in Templates, n \in Replicas :
        /\ n <= MaxPods
        /\ dep = {[template |-> t, replicas |-> n, paused |-> FALSE, generation |-> 1]}
        /\ depStatus = [observed |-> 1, complete |-> TRUE]
        /\ sets = [u \in Templates |->
                     IF u = t THEN {[replicas |-> n, generation |-> 1, observed |-> 1,
                                     count |-> n, available |-> n]}
                     ELSE {}]
        /\ pods = { [uid |-> i, owner |-> t, available |-> TRUE] : i \in 1..n }
        /\ edits = 0
        /\ dc = DepIdle
        /\ rc = [u \in Templates |-> SetIdle]

-----------------------------------------------------------------------------
(* Users, failures, and the kubelet reporting readiness.                   *)

\* One more of the things that may happen.
May(kind) ==
    /\ kind \in setting.edits
    /\ edits < setting.maxEdits /\ edits' = edits + 1

Edited(d) == dep' = {[d EXCEPT !.generation = @ + 1]}

UserEdit ==
    /\ \E d \in dep :
         \/ May("template") /\ \E t \in Templates \ {d.template} :
                Edited([d EXCEPT !.template = t])
         \/ May("scale") /\ \E n \in Replicas \ {d.replicas} :
                Edited([d EXCEPT !.replicas = n])
         \/ May("pause") /\ Edited([d EXCEPT !.paused = ~@])
         \/ May("delete") /\ dep' = {}
    /\ UNCHANGED <<setting, depStatus, sets, pods, dc, rc>>

PodBecomes(p, a) ==
    /\ p.available # a
    /\ pods' = (pods \ {p}) \cup {[p EXCEPT !.available = a]}
    /\ UNCHANGED <<setting, dep, depStatus, sets, dc, rc>>

PodReady == UNCHANGED edits /\ \E p \in pods : PodBecomes(p, TRUE)
PodUnready == May("podUnready") /\ \E p \in pods : PodBecomes(p, FALSE)

PodDelete ==
    /\ May("podDelete")
    /\ \E p \in pods : pods' = pods \ {p}
    /\ UNCHANGED <<setting, dep, depStatus, sets, dc, rc>>

-----------------------------------------------------------------------------
(* The ReplicaSet controller.  An error or a refusal leaves the rest to    *)
(* the next reconciliation.                                                *)

SetGoes(t, r) == rc' = [rc EXCEPT ![t] = r]

RsGet(t) ==
    /\ rc[t].pc = "idle"
    /\ \E s \in sets[t] : SetGoes(t, [pc |-> "list", set |-> s])
    /\ UNCHANGED <<setting, dep, depStatus, sets, pods, edits, dc>>

\* The Pods a scale-down takes: unready ones first; among equals the choice
\* is by node, age and uid, any order here.
Victims(own, n) ==
    { V \in SUBSET own : /\ Cardinality(V) = n
                         /\ \A p \in V, q \in own \ V : p.available => q.available }

Unused == 1..MaxPods \ { p.uid : p \in pods }

LesserOf(a, b) == IF a <= b THEN a ELSE b
GreaterOf(a, b) == IF a >= b THEN a ELSE b

\* The Pod LIST, and what sync decides on it: how many to create, which to
\* delete, at most Burst of either.
RsList(t) ==
    /\ rc[t].pc = "list"
    /\ LET s == rc[t].set
           own == Owned(pods, t)
           n == Cardinality(own)
           Go(pc, create, victims) ==
               SetGoes(t, [pc |-> pc, set |-> s, seen |-> own,
                           create |-> create, victims |-> victims])
       IN  \/ n = s.replicas /\ Go("status", 0, {})
           \/ n < s.replicas /\ Go("live", LesserOf(s.replicas - n, Burst), {})
           \/ /\ n > s.replicas
              /\ \E V \in Victims(own, LesserOf(n - s.replicas, Burst)) : Go("live", 0, V)
    /\ UNCHANGED <<setting, dep, depStatus, sets, pods, edits, dc>>

\* live: the set still exists with the generation that was read.
RsLive(t) ==
    /\ rc[t].pc = "live"
    /\ LET r == rc[t]
           isLive == \E s \in sets[t] : s.generation = r.set.generation
       IN  SetGoes(t, [r EXCEPT !.pc = IF isLive THEN "write"
                                       ELSE IF r.create > 0 THEN "status" ELSE "relist"])
    /\ UNCHANGED <<setting, dep, depStatus, sets, pods, edits, dc>>

RsCreate(t) ==
    /\ rc[t].pc = "write" /\ rc[t].create > 0
    /\ Unused # {}
    /\ LET r == rc[t]
           p == [uid |-> CHOOSE u \in Unused : \A v \in Unused : u <= v,
                 owner |-> t, available |-> FALSE]
       IN  /\ pods' = pods \cup {p}
           /\ SetGoes(t, [r EXCEPT !.pc = IF r.create > 1 THEN "live" ELSE "status",
                                   !.create = @ - 1,
                                   !.seen = @ \cup {p}])
    /\ UNCHANGED <<setting, dep, depStatus, sets, edits, dc>>

\* A delete carries the uid and resourceVersion that were listed: a Pod that
\* changed since stays (409).  The end of a scale-down lists the Pods again.
RsDelete(t) ==
    /\ rc[t].pc = "write" /\ rc[t].create = 0
    /\ \E p \in rc[t].victims :
         /\ pods' = pods \ {p}
         /\ SetGoes(t, [rc[t] EXCEPT !.pc = IF rc[t].victims = {p} THEN "relist" ELSE "live",
                                     !.victims = @ \ {p}])
    /\ UNCHANGED <<setting, dep, depStatus, sets, edits, dc>>

RsRelist(t) ==
    /\ rc[t].pc = "relist"
    /\ SetGoes(t, [rc[t] EXCEPT !.pc = "status", !.seen = Owned(pods, t)])
    /\ UNCHANGED <<setting, dep, depStatus, sets, pods, edits, dc>>

\* The status write, refused when the set is no longer the one that was read.
RsStatus(t) ==
    /\ rc[t].pc = "status"
    /\ LET s == rc[t].set
           new == [s EXCEPT !.observed = s.generation,
                            !.count = Cardinality(rc[t].seen),
                            !.available = Cardinality(Available(rc[t].seen))]
       IN  sets' = IF sets[t] = {s} THEN [sets EXCEPT ![t] = {new}] ELSE sets
    /\ SetGoes(t, SetIdle)
    /\ UNCHANGED <<setting, dep, depStatus, pods, edits, dc>>

-----------------------------------------------------------------------------
(* The Deployment controller.                                              *)

Goes(r) == dc' = r

\* Fault: percentages are always rounded down.
fraction_floor(v, n, ceil) == IF v.percent THEN (n * v.n) \div 100 ELSE v.n

\* A rounded fraction of n: a number, or a percentage rounded up or down.
fraction(v, n, ceil) ==
    IF ~v.percent THEN v.n
    ELSE (n * v.n) \div 100 + (IF ceil /\ (n * v.n) % 100 # 0 THEN 1 ELSE 0)

surge(n) == fraction(setting.surge, n, TRUE)
unavailable(n) == LesserOf(fraction(setting.unavailable, n, FALSE), n)
BoundsHold(n) == n = 0 \/ surge(n) > 0 \/ unavailable(n) > 0

\* Sums over the ReplicaSets of a list.
Existing(ss) == UNION { ss[t] \X {t} : t \in Templates }
Total(ss, f(_)) == MapThenSumSet(LAMBDA e : f(e[1]), Existing(ss))
SpecOf(s) == s.replicas
CountOf(s) == s.count
AvailableOf(s) == s.available

IsObserved(s) == s.observed = s.generation

\* Fault: a set that is scaled to zero no longer counts as old.
Old_scaled(d, ss) ==
    { t \in Templates \ {d.template} : \E s \in ss[t] : s.replicas > 0 }

\* plan: the change of replicas to make, as the set of the possible ones,
\* empty when it waits.  Old sets are taken in age order, any order here.
Old(d, ss) == { t \in Templates \ {d.template} : ss[t] # {} }
The(S) == CHOOSE s \in S : TRUE
Scale(t, n) == [op |-> "scale", set |-> t, replicas |-> n]

plan_recreate(d, ss) ==
    LET up == { t \in Old(d, ss) : The(ss[t]).replicas > 0 }
    IN  IF up # {} THEN { Scale(t, 0) : t \in up }
        ELSE { Scale(d.template, d.replicas) :
                 t \in { u \in {d.template} :
                         /\ \A o \in Old(d, ss) : The(ss[o]).count = 0
                         /\ The(ss[u]).replicas # d.replicas } }

Removable(d, ss, t) ==
    LET s == The(ss[t])
        excess == GreaterOf(Total(ss, AvailableOf) - (d.replicas - unavailable(d.replicas)), 0)
    IN  LesserOf(s.replicas, GreaterOf(s.replicas - s.available, 0) + excess)

plan_rolling(d, ss) ==
    LET new == The(ss[d.template]).replicas
        room == d.replicas + surge(d.replicas) - Total(ss, SpecOf)
    IN  IF new > d.replicas THEN {Scale(d.template, d.replicas)}
        ELSE IF new < d.replicas /\ room > 0
        THEN {Scale(d.template, new + LesserOf(d.replicas - new, room))}
        ELSE { Scale(t, The(ss[t]).replicas - Removable(d, ss, t)) :
                 t \in { u \in Old(d, ss) : Removable(d, ss, u) > 0 } }

plan(d, ss) ==
    IF \E t \in Templates : \E s \in ss[t] : ~IsObserved(s) THEN {}
    ELSE IF Strategy = "Recreate" THEN plan_recreate(d, ss) ELSE plan_rolling(d, ss)

\* Fault: an old set is pruned before its controller observed the scale-down.
Prunable_unobserved(d, ss) ==
    LET new == The(ss[d.template])
        old == Old(d, ss)
        done == /\ new.available >= d.replicas /\ new.replicas = d.replicas
                /\ \A t \in old : The(ss[t]).replicas = 0
    IN  IF ~done THEN {{}}
        ELSE { S \in SUBSET old : Cardinality(S) = GreaterOf(Cardinality(old) - History, 0) }

\* The old sets that may be pruned: once the new set alone is scaled up and
\* available, the observed empty ones beyond the history limit.
Prunable(d, ss) ==
    LET new == The(ss[d.template])
        old == { t \in Old(d, ss) : IsObserved(The(ss[t])) /\ The(ss[t]).count = 0 }
        done == /\ new.available >= d.replicas /\ new.replicas = d.replicas
                /\ \A t \in Old(d, ss) : The(ss[t]).replicas = 0
    IN  IF ~done THEN {{}}
        ELSE { S \in SUBSET old : Cardinality(S) = GreaterOf(Cardinality(old) - History, 0) }

Prune(t) == [op |-> "prune", set |-> t, replicas |-> 0]
Create(t) == [op |-> "create", set |-> t, replicas |-> 0]

DepGet ==
    /\ dc.pc = "idle"
    /\ \E d \in dep : Goes([pc |-> "list", d |-> d])
    /\ UNCHANGED <<setting, dep, depStatus, sets, pods, edits, rc>>

\* A paused Deployment waits, and one whose bounds allow no step.
Waits(d) ==
    \/ d.paused
    \/ Strategy = "RollingUpdate" /\ sets[d.template] # {} /\ ~BoundsHold(d.replicas)

\* The ReplicaSet LIST, and what sync decides on it.
DepList ==
    /\ dc.pc = "list"
    /\ LET d == dc.d
           Stop == Goes([pc |-> "status", d |-> d])
           Do(pc, todo) == Goes([pc |-> pc, d |-> d, todo |-> todo, sets |-> sets])
       IN  \/ Waits(d) /\ Stop
           \/ ~d.paused /\ sets[d.template] = {} /\ Do("live", {Create(d.template)})
           \/ /\ ~Waits(d) /\ sets[d.template] # {}
              /\ \/ \E w \in plan(d, sets) :
                      Do(IF Strategy = "Recreate" /\ w.set = d.template /\ w.replicas > 0
                         THEN "pods" ELSE "live", {w})
                 \/ /\ plan(d, sets) = {}
                    /\ \E P \in Prunable(d, sets) :
                         IF P = {} THEN Stop ELSE Do("pods", { Prune(t) : t \in P })
    /\ UNCHANGED <<setting, dep, depStatus, sets, pods, edits, rc>>

\* The Pod LIST: Recreate waits for the old Pods, and a set that a Pod still
\* names is not pruned.
StillAllowed(w) ==
    IF w.op = "prune" THEN Owned(pods, w.set) = {}
    ELSE \A t \in Old(dc.d, dc.sets) : Owned(pods, t) = {}

DepPods ==
    /\ dc.pc = "pods"
    /\ LET todo == { w \in dc.todo : StillAllowed(w) }
       IN  Goes(IF todo = {} THEN [pc |-> "status", d |-> dc.d]
                ELSE [dc EXCEPT !.pc = "live", !.todo = todo])
    /\ UNCHANGED <<setting, dep, depStatus, sets, pods, edits, rc>>

DepLive ==
    /\ dc.pc = "live"
    /\ Goes(IF \E d \in dep : d.generation = dc.d.generation
            THEN [dc EXCEPT !.pc = "write"]
            ELSE [pc |-> "status", d |-> dc.d])
    /\ UNCHANGED <<setting, dep, depStatus, sets, pods, edits, rc>>

\* One write: each is refused unless the set is still the one that was listed.
Written(w) ==
    LET listed == dc.sets[w.set] IN
    IF sets[w.set] # listed THEN sets[w.set]
    ELSE IF w.op = "create" THEN {[replicas |-> 0, generation |-> 1, observed |-> 0,
                                   count |-> 0, available |-> 0]}
    ELSE IF w.op = "prune" THEN {}
    ELSE { [s EXCEPT !.replicas = w.replicas, !.generation = @ + 1] : s \in listed }

DepWrite ==
    /\ dc.pc = "write"
    /\ \E w \in dc.todo :
         /\ sets' = [sets EXCEPT ![w.set] = Written(w)]
         /\ Goes(IF dc.todo = {w} THEN [pc |-> "status", d |-> dc.d]
                 ELSE [dc EXCEPT !.pc = "live", !.todo = @ \ {w}])
    /\ UNCHANGED <<setting, dep, depStatus, pods, edits, rc>>

\* deployment_status on a second LIST, refused when the Deployment changed.
IsComplete(d, ss) ==
    /\ Total([t \in Templates |-> IF t = d.template THEN ss[t] ELSE {}], CountOf) = d.replicas
    /\ Total(ss, CountOf) = d.replicas
    /\ Total(ss, AvailableOf) >= d.replicas

DepStatus ==
    /\ dc.pc = "status"
    /\ depStatus' = IF dep = {dc.d}
                    THEN [observed |-> dc.d.generation, complete |-> IsComplete(dc.d, sets)]
                    ELSE depStatus
    /\ Goes(DepIdle)
    /\ UNCHANGED <<setting, dep, sets, pods, edits, rc>>

-----------------------------------------------------------------------------
(* The collector: an owner's uid is never used again, so that the LIST, the *)
(* owner GET and the delete are one step.                                  *)

\* Fault: a set is collected only once its Pods are gone.
GcSet_after_pods(t) ==
    /\ dep = {} /\ sets[t] # {} /\ Owned(pods, t) = {}
    /\ sets' = [sets EXCEPT ![t] = {}]
    /\ UNCHANGED <<setting, dep, depStatus, pods, edits, dc, rc>>

GcSet(t) ==
    /\ dep = {} /\ sets[t] # {}
    /\ sets' = [sets EXCEPT ![t] = {}]
    /\ UNCHANGED <<setting, dep, depStatus, pods, edits, dc, rc>>

GcPod ==
    /\ \E p \in pods : sets[p.owner] = {} /\ pods' = pods \ {p}
    /\ UNCHANGED <<setting, dep, depStatus, sets, edits, dc, rc>>

\* The server restarts: the controllers are tasks of it and keep nothing.
ServerRestart ==
    /\ May("restart")
    /\ dc' = DepIdle /\ rc' = [t \in Templates |-> SetIdle]
    /\ UNCHANGED <<setting, dep, depStatus, sets, pods>>

-----------------------------------------------------------------------------
DeploymentController ==
    DepGet \/ DepList \/ DepPods \/ DepLive \/ DepWrite \/ DepStatus

ReplicaSetController(t) ==
    RsGet(t) \/ RsList(t) \/ RsLive(t) \/ RsCreate(t) \/ RsDelete(t)
        \/ RsRelist(t) \/ RsStatus(t)

Collector == GcPod \/ \E t \in Templates : GcSet(t)

Next ==
    \/ UserEdit
    \/ PodDelete
    \/ PodReady
    \/ PodUnready
    \/ DeploymentController
    \/ \E t \in Templates : ReplicaSetController(t)
    \/ Collector
    \/ ServerRestart

Spec == Init /\ [][Next]_vars

\* The controllers and the collector requeue every 2 seconds and started Pods
\* become ready.
FairSpec ==
    /\ Spec
    /\ WF_vars(DeploymentController)
    /\ \A t \in Templates : WF_vars(ReplicaSetController(t))
    /\ WF_vars(Collector)
    /\ WF_vars(PodReady)

-----------------------------------------------------------------------------
(* Properties.                                                             *)

\* A rolling update keeps desired - maxUnavailable Pods available, whatever
\* both controllers read late, as long as no Pod fails (deployment.rs:89-91).
AvailabilityKept ==
    Strategy = "RollingUpdate" =>
        \A d \in dep : Cardinality(Available(pods)) >= d.replicas - unavailable(d.replicas)

\* Unless it is rescaled, the sets together never ask for more than desired +
\* maxSurge Pods, also when the template changes back between the plan and its
\* write (deployment.rs:118-130).
SpecWithinSurge ==
    Strategy = "RollingUpdate" /\ "scale" \notin setting.edits =>
        \A d \in dep : Total(sets, SpecOf) <= d.replicas + surge(d.replicas)

\* Recreate never has Pods of two templates at once (deployment.rs:273).
NoOverlap ==
    Strategy = "Recreate" => \A p, q \in pods : p.owner = q.owner

\* What its strategy promises of a Deployment, of objects of their types.
StrategyKept == TypeOK /\ SpecWithinSurge /\ NoOverlap

\* While the Deployment exists no Pod loses its set: pruning history cannot
\* leave one that no controller counts (deployment.rs:285-286).
PodsHaveSets == dep # {} => \A p \in pods : sets[p.owner] # {}

RolledOut(d) ==
    /\ Cardinality(pods) = d.replicas
    /\ \A p \in pods : p.owner = d.template /\ p.available
    /\ depStatus = [observed |-> d.generation, complete |-> TRUE]

\* Once users stop, an unpaused Deployment is rolled out and says so, for good.
RolloutCompletes == <>[](\A d \in dep : ~d.paused => RolledOut(d))

\* A deleted Deployment takes its sets and Pods with it, also the Pods that a
\* reconciliation in progress creates meanwhile, for good.
CascadeCompletes == <>[](dep = {} => pods = {} /\ \A t \in Templates : sets[t] = {})
=============================================================================
