----------------------------- MODULE Scheduler -----------------------------
(***************************************************************************)
(* The native scheduler (h3s-scheduler) and the Pod binding endpoint of    *)
(* the API server (h3s-apiserver/src/write.rs, bind).                      *)
(*                                                                         *)
(* A cycle lists the Nodes, then their Leases, then the Pods, and places   *)
(* the pending Pods of that snapshot one after the other.  Each API call   *)
(* is a step: users, the kubelets and other schedulers act in between, and *)
(* the API refuses a write to a Pod that is not the one listed.            *)
(*                                                                         *)
(* A Pod's spec is fixed by its name: its requests, its priority and the   *)
(* Nodes its selectors, affinity and tolerations admit, with their rank.   *)
(***************************************************************************)
EXTENDS Integers, FiniteSets, FiniteSetsExt

CONSTANTS
    Pods, Nodes,   \* Nodes are numbers in the order of their names
    Resources,     \* "pods" and others, such as "cpu" and "memory"
    Request,       \* Request[p][r], of Pods whose requests are accounted
    Capacity,      \* Capacity[n][r], the Node's allocatable
    Unaccounted,   \* Pods whose requests cannot be accounted
    Gated,         \* Pods with scheduling gates or unsupported constraints
    Priority,      \* Priority[p]
    Rank,          \* Rank[p]: the Nodes that admit p, less preferred higher
    Schedulers,    \* one per server process
    ListLimit,     \* the objects of one complete list (4096)
    MaxEdits       \* bound on what users, Nodes and failures do

ASSUME SchedulerAssumption ==
    /\ Nodes \subseteq Nat \ {0} /\ IsFiniteSet(Pods)
    /\ "pods" \in Resources
    /\ Request \in [Pods -> [Resources -> Nat]]
    /\ \A p \in Pods : Request[p]["pods"] = 1
    /\ Capacity \in [Nodes -> [Resources -> Nat]]
    /\ Priority \in [Pods -> Int]
    /\ \A p \in Pods : DOMAIN Rank[p] \subseteq Nodes
    /\ ListLimit \in Nat /\ MaxEdits \in Nat

VARIABLES
    pod,     \* pod[p]: the Pod object named p, or {}
    node,    \* the Nodes' objects: "ready", "unready" (cordoned, under
             \* pressure, not reporting) or "gone"
    lease,   \* the Nodes with a fresh Lease
    sch,     \* sch[s]: the cycle of scheduler s in progress
    edits    \* what users, Nodes and failures have done so far

vars == <<pod, node, lease, sch, edits>>

\* PodScheduled: not reported, a reason for False, or True as the scheduler
\* or the kubelet reports it.
Refusals == {"SchedulingGated", "UnsupportedResources", "Unschedulable"}
Positive == {"Scheduled", "KubeletObserved"}
Condition == {"none"} \cup Refusals \cup Positive

\* A Pod: `node' is 0 while it is unassigned, `direct' if a user assigned it.
Object == [uid : 0..MaxEdits, rev : Nat, node : Nodes \cup {0}, direct : BOOLEAN,
           terminal : BOOLEAN, cond : Condition]

\* What a scheduler holds between two calls: the snapshot, the candidates
\* left, and the Pod it has bound and still has to report.
Cycle == [pc : {"idle", "leases", "pods", "place", "confirm", "report"},
          nodes : SUBSET Nodes, leases : SUBSET Nodes,
          seen : [Pods -> SUBSET Object], queue : SUBSET Pods,
          bound : SUBSET (Pods \X Object)]

Idle == [pc |-> "idle", nodes |-> {}, leases |-> {}, seen |-> [p \in Pods |-> {}],
         queue |-> {}, bound |-> {}]

\* Objects and snapshots have their type; a name has at most one object, and
\* a scheduler that reports has one Pod to report.
TypeOK ==
    /\ pod \in [Pods -> SUBSET Object]
    /\ \A p \in Pods : \A o, q \in pod[p] : o = q
    /\ node \in [Nodes -> {"ready", "unready", "gone"}]
    /\ lease \subseteq Nodes
    /\ sch \in [Schedulers -> Cycle]
    /\ \A s \in Schedulers :
         /\ \A p \in Pods : \A o, q \in sch[s].seen[p] : o = q
         /\ sch[s].pc \in {"confirm", "report"} <=> sch[s].bound # {}
         /\ \A b, c \in sch[s].bound : b = c
    /\ edits \in 0..MaxEdits

NewPod(id, n) == [uid |-> id, rev |-> 0, node |-> n, direct |-> n # 0,
                  terminal |-> FALSE, cond |-> "none"]

\* Any Pods wait, and any Nodes are fit.
Init ==
    /\ \E P \in SUBSET Pods : pod = [p \in Pods |-> IF p \in P THEN {NewPod(0, 0)} ELSE {}]
    /\ node \in [Nodes -> {"ready", "unready"}]
    /\ lease = Nodes
    /\ sch = [s \in Schedulers |-> Idle]
    /\ edits = 0

-----------------------------------------------------------------------------
(* Placement.                                                              *)

pending(o) == o.node = 0 /\ ~o.terminal

\* The Pods of a snapshot that take capacity on n.
On(S, n) == { p \in Pods : \E o \in S[p] : o.node = n /\ ~o.terminal }

requested(P, r) == MapThenSumSet(LAMBDA p : Request[p][r], P)

Fits(P, n) == \A r \in Resources : requested(P, r) <= Capacity[n][r]

\* The Nodes among `up' that may take p: one whose load is not accounted never.
feasible(S, up, p) ==
    { n \in up \cap DOMAIN Rank[p] :
        On(S, n) \cap Unaccounted = {} /\ Fits(On(S, n) \cup {p}, n) }

\* n comes before m: by rank, then by its number of Pods, then by name.
Before(S, p, n, m) ==
    LET load(k) == Cardinality(On(S, k))
    IN  \/ Rank[p][n] < Rank[p][m]
        \/ /\ Rank[p][n] = Rank[p][m]
           /\ load(n) < load(m) \/ (load(n) = load(m) /\ n <= m)

select(S, up, p) ==
    { n \in feasible(S, up, p) :
        p \notin Gated \cup Unaccounted /\ \A m \in feasible(S, up, p) : Before(S, p, n, m) }

reason(p) ==
    IF p \in Gated THEN "SchedulingGated"
    ELSE IF p \in Unaccounted THEN "UnsupportedResources" ELSE "Unschedulable"

-----------------------------------------------------------------------------
(* The binding and status endpoints: what they do to a Pod.                *)

\* The Pod is unassigned and the one that was listed.
bindable(o, listed) == o.node = 0 /\ o.uid = listed.uid /\ o.rev = listed.rev

\* Fault: the status is written whatever has been written since.
current_uid(o, read) == o.uid = read.uid

current(o, read) == o.uid = read.uid /\ o.rev = read.rev

Becomes(p, o) == pod' = [pod EXCEPT ![p] = {[o EXCEPT !.rev = @ + 1]}]

\* Write condition c over what was read: not if it says so already, and
\* refused if the Pod has changed.
condition(p, read, c) ==
    \/ read.cond # c /\ \E o \in pod[p] :
          current(o, read) /\ Becomes(p, [o EXCEPT !.cond = c])
    \/ /\ read.cond = c \/ \A o \in pod[p] : ~current(o, read)
       /\ UNCHANGED pod

-----------------------------------------------------------------------------
(* One cycle of a scheduler.                                               *)

To(s, c) == sch' = [sch EXCEPT ![s] = c]

ListNodes(s) ==
    /\ sch[s].pc = "idle"
    /\ To(s, [Idle EXCEPT !.pc = "leases", !.nodes = { n \in Nodes : node[n] = "ready" }])
    /\ UNCHANGED <<pod, node, lease, edits>>

ListLeases(s) ==
    /\ sch[s].pc = "leases"
    /\ To(s, [sch[s] EXCEPT !.pc = "pods", !.leases = lease])
    /\ UNCHANGED <<pod, node, lease, edits>>

\* Fault: a Pod that was refused once is not a candidate again.
candidates_once(S) == { p \in Pods : \E o \in S[p] : pending(o) /\ o.cond = "none" }

candidates(S) == { p \in Pods : \E o \in S[p] : pending(o) }

\* A list that is not complete ends the cycle.
ListPods(s) ==
    /\ sch[s].pc = "pods"
    /\ IF Cardinality({ p \in Pods : pod[p] # {} }) > ListLimit THEN To(s, Idle)
       ELSE To(s, [sch[s] EXCEPT !.pc = "place", !.seen = pod, !.queue = candidates(pod)])
    /\ UNCHANGED <<pod, node, lease, edits>>

\* The highest priority is next; age and uid, which decide between equals,
\* are left open.
NextCandidate(s, p) ==
    /\ sch[s].pc = "place" /\ p \in sch[s].queue
    /\ \A q \in sch[s].queue : Priority[q] <= Priority[p]

Choice(s, p) == select(sch[s].seen, sch[s].nodes \cap sch[s].leases, p)

Skipped(s, p) == [sch[s] EXCEPT !.queue = @ \ {p}]

\* Fault: the Pods bound in this cycle do not count for the next ones.
Reserved_late(s, p, n, o) ==
    [Skipped(s, p) EXCEPT !.pc = "confirm", !.bound = {<<p, o>>}]

Reserved(s, p, n, o) ==
    [Skipped(s, p) EXCEPT !.pc = "confirm", !.bound = {<<p, o>>},
                          !.seen[p] = {[o EXCEPT !.node = n]}]

\* The binding is accepted; its answer may be lost with the cycle.
Bind(s, p) ==
    /\ NextCandidate(s, p)
    /\ \E n \in Choice(s, p), o \in pod[p], listed \in sch[s].seen[p] :
         /\ node[n] # "gone" /\ bindable(o, listed)
         /\ Becomes(p, [o EXCEPT !.node = n])
         /\ \/ To(s, Reserved(s, p, n, listed)) /\ UNCHANGED edits
            \/ edits < MaxEdits /\ edits' = edits + 1 /\ To(s, Idle)
    /\ UNCHANGED <<node, lease>>

\* The binding is refused (404, 409): the next candidate.
BindRefused(s, p) ==
    /\ NextCandidate(s, p)
    /\ \E n \in Choice(s, p), listed \in sch[s].seen[p] :
         node[n] = "gone" \/ \A o \in pod[p] : ~bindable(o, listed)
    /\ To(s, Skipped(s, p))
    /\ UNCHANGED <<pod, node, lease, edits>>

\* No Node is found: the condition says why.
Refuse(s, p) ==
    /\ NextCandidate(s, p) /\ Choice(s, p) = {}
    /\ \E listed \in sch[s].seen[p] : condition(p, listed, reason(p))
    /\ To(s, Skipped(s, p))
    /\ UNCHANGED <<node, lease, edits>>

\* After a binding the Pod is read again ...
Confirm(s) ==
    /\ sch[s].pc = "confirm"
    /\ \E b \in sch[s].bound :
         LET same == { o \in pod[b[1]] : o.uid = b[2].uid }
         IN  To(s, [sch[s] EXCEPT !.pc = IF same = {} THEN "place" ELSE "report",
                                  !.bound = {b[1]} \X same])
    /\ UNCHANGED <<pod, node, lease, edits>>

\* ... and reported as scheduled.
Report(s) ==
    /\ sch[s].pc = "report"
    /\ \E b \in sch[s].bound : condition(b[1], b[2], "Scheduled")
    /\ To(s, [sch[s] EXCEPT !.pc = "place", !.bound = {}])
    /\ UNCHANGED <<node, lease, edits>>

EndCycle(s) ==
    /\ sch[s].pc = "place" /\ sch[s].queue = {}
    /\ To(s, Idle)
    /\ UNCHANGED <<pod, node, lease, edits>>

Scheduling(s) ==
    \/ ListNodes(s) \/ ListLeases(s) \/ ListPods(s)
    \/ \E p \in Pods : Bind(s, p) \/ BindRefused(s, p) \/ Refuse(s, p)
    \/ Confirm(s) \/ Report(s) \/ EndCycle(s)

-----------------------------------------------------------------------------
(* Users, kubelets, Nodes and failures.                                    *)

Edit == edits < MaxEdits /\ edits' = edits + 1

\* A user or a controller creates a Pod; a user may assign it at once.
Create(p) ==
    /\ Edit /\ pod[p] = {}
    /\ \E n \in Nodes \cup {0} : pod' = [pod EXCEPT ![p] = {NewPod(edits', n)}]
    /\ UNCHANGED <<node, lease, sch>>

\* A user binds a Pod, with no precondition but the endpoint's own.
UserBind(p) ==
    /\ Edit /\ \E o \in pod[p], n \in Nodes :
         /\ node[n] # "gone" /\ o.node = 0
         /\ Becomes(p, [o EXCEPT !.node = n, !.direct = TRUE])
    /\ UNCHANGED <<node, lease, sch>>

\* Deletion removes the object at once.
Delete(p) ==
    /\ Edit /\ pod[p] # {}
    /\ pod' = [pod EXCEPT ![p] = {}]
    /\ UNCHANGED <<node, lease, sch>>

\* A change of labels or images.
Touch(p) ==
    /\ Edit /\ \E o \in pod[p] : Becomes(p, o)
    /\ UNCHANGED <<node, lease, sch>>

\* An assigned Pod succeeds or fails.
Finish(p) ==
    /\ Edit /\ \E o \in pod[p] :
         o.node # 0 /\ ~o.terminal /\ Becomes(p, [o EXCEPT !.terminal = TRUE])
    /\ UNCHANGED <<node, lease, sch>>

\* The kubelet's status of an assigned Pod.
Publish(p) ==
    /\ \E o \in pod[p] :
         o.node # 0 /\ o.cond # "KubeletObserved" /\ Becomes(p, [o EXCEPT !.cond = "KubeletObserved"])
    /\ UNCHANGED <<node, lease, sch, edits>>

\* A Node is cordoned, reports pressure, recovers, is removed, registers.
NodeChange(n) ==
    /\ Edit /\ \E x \in {"ready", "unready", "gone"} \ {node[n]} : node' = [node EXCEPT ![n] = x]
    /\ UNCHANGED <<pod, lease, sch>>

\* A Lease is renewed or gets too old.
LeaseChange(n) ==
    /\ Edit /\ lease' = (lease \ {n}) \cup ({n} \ lease)
    /\ UNCHANGED <<pod, node, sch>>

\* Its age is taken at each placement: a listed Lease may expire meanwhile.
LeaseAges(s, n) ==
    /\ Edit /\ n \in sch[s].leases
    /\ To(s, [sch[s] EXCEPT !.leases = @ \ {n}])
    /\ UNCHANGED <<pod, node, lease>>

\* An API error, the deadline of the cycle, a restart.
Abandon(s) ==
    /\ Edit /\ sch[s].pc # "idle"
    /\ To(s, Idle)
    /\ UNCHANGED <<pod, node, lease>>

Next ==
    \/ \E s \in Schedulers : Scheduling(s) \/ Abandon(s) \/ \E n \in Nodes : LeaseAges(s, n)
    \/ \E p \in Pods : Create(p) \/ UserBind(p) \/ Delete(p) \/ Touch(p) \/ Finish(p) \/ Publish(p)
    \/ \E n \in Nodes : NodeChange(n) \/ LeaseChange(n)

Spec == Init /\ [][Next]_vars

\* A scheduler goes on with its cycle and starts one every two seconds.
FairSpec == Spec /\ \A s \in Schedulers : WF_vars(Scheduling(s))

-----------------------------------------------------------------------------
(* Properties.                                                             *)

\* Each binding leaves the Node within its allocatable, counting every Pod on
\* it that is not done, but the ones users have assigned since the cycle's list.
\* It takes the reservations of the cycle (lib.rs:129), of all the cycles
\* before, answers lost with a cycle and bindings refused half way.
NoOvercommit ==
    [][\A s \in Schedulers, p \in Pods : Bind(s, p) =>
         \A o \in pod'[p] :
            Fits({ q \in On(pod', o.node) : \A x \in pod[q] :
                     x.direct => \E y \in sch[s].seen[q] : y.uid = x.uid /\ y.node # 0 }, o.node)]_vars

\* A Pod object is assigned once and then stays where it is, whatever two
\* schedulers, users and replacements of the same name do.
AssignedOnce ==
    [][\A p \in Pods : \A o \in pod[p], q \in pod'[p] :
         o.uid = q.uid /\ o.node # 0 => q.node = o.node]_vars

\* PodScheduled is True of assigned Pods only and never goes back to False:
\* a refusal decided on an old list does not overwrite it.
ConditionFollowsBinding ==
    [][\A p \in Pods : \A q \in pod'[p] :
         /\ q.cond \in Positive => q.node # 0
         /\ \A o \in pod[p] : o.uid = q.uid /\ o.cond \in Positive => q.cond \in Positive]_vars

\* In the end no Pod waits that a Node could take, while the lists are
\* complete: neither errors nor refusals nor other Pods starve one.
NoneWaitsInVain ==
    <>[](Cardinality({ p \in Pods : pod[p] # {} }) <= ListLimit =>
           \A p \in Pods : (\E o \in pod[p] : pending(o)) =>
              select(pod, { n \in lease : node[n] = "ready" }, p) = {})
=============================================================================
