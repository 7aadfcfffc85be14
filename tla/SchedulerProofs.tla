-------------------------- MODULE SchedulerProofs --------------------------
(***************************************************************************)
(* Proofs for Scheduler, for any number of Pods and Nodes, and of          *)
(* schedulers but for NoOvercommitCorrect, which is about one.             *)
(*                                                                         *)
(* A Pod object only ever advances (Advances): it is replaced by a later   *)
(* revision of itself, or by a new object.  What a cycle may rely on       *)
(* meanwhile is Relies.                                                    *)
(***************************************************************************)
EXTENDS Scheduler, FiniteSetTheorems, WellFoundedInduction, TLAPS

\* What holds between two revisions of one Pod object.
Advance(o, q) ==
    /\ q.uid = o.uid /\ q.rev = o.rev + 1
    /\ o.node # 0 => q.node = o.node
    /\ q.cond \in Positive => q.node # 0
    /\ o.cond \in Positive => q.cond \in Positive
    /\ (o.direct => q.direct) /\ (o.terminal => q.terminal)

\* The Pods P become P2 when e edits become e2.
Advances(P, P2, e, e2) ==
    \A p \in Pods : \A q \in P2[p] :
        \/ q \in P[p]
        \/ \E o \in P[p] : Advance(o, q)
        \/ q.uid > e /\ q.uid <= e2 /\ q.cond = "none" /\ (q.node # 0 => q.direct)

Typed(P) == P \in [Pods -> SUBSET Object] /\ \A p \in Pods : \A o, q \in P[p] : o = q

\* Uids are those of edits made; True conditions are of assigned Pods.
Honest(P, e) ==
    \A p \in Pods : \A o \in P[p] : o.uid <= e /\ (o.cond \in Positive => o.node # 0)

\* What a cycle may rely on: a listed Pod has not changed unless its revision
\* has, the candidates were unassigned, and the Pod to report is assigned.
Relies(c, P, e) ==
    /\ \A p \in Pods : \A y \in c.seen[p] :
         /\ y.uid <= e
         /\ \A o \in P[p] : o.uid = y.uid => y.rev < o.rev \/ y = o
         /\ p \in c.queue => y.node = 0 /\ ~y.terminal
    /\ \A b \in c.bound :
         /\ b[2].uid <= e
         /\ \A o \in P[b[1]] : o.uid = b[2].uid => o.node # 0

\* A cycle has its type.
Formed(c) ==
    /\ c \in Cycle
    /\ \A p \in Pods : \A o, q \in c.seen[p] : o = q
    /\ c.pc \in {"confirm", "report"} <=> c.bound # {}
    /\ \A b, d \in c.bound : b = d

Good(c, P, e) == Formed(c) /\ Relies(c, P, e)

IInv ==
    /\ Typed(pod) /\ Honest(pod, edits)
    /\ node \in [Nodes -> {"ready", "unready", "gone"}] /\ lease \subseteq Nodes
    /\ sch \in [Schedulers -> Cycle] /\ \A s \in Schedulers : Good(sch[s], pod, edits)
    /\ edits \in 0..MaxEdits

-----------------------------------------------------------------------------
(* Lemmas on Pods and cycles, without actions.                             *)

\* A Pod that is written over by a later revision advances (Becomes).
LEMMA Becoming ==
    ASSUME NEW P, Typed(P), NEW p \in Pods, NEW o \in P[p], NEW x \in Object,
           x.uid = o.uid, x.rev = o.rev,
           o.node # 0 => x.node = o.node,
           x.cond \in Positive => x.node # 0,
           o.cond \in Positive => x.cond \in Positive,
           o.direct => x.direct, o.terminal => x.terminal,
           NEW P2, P2 = [P EXCEPT ![p] = {[x EXCEPT !.rev = @ + 1]}],
           NEW e, NEW e2
    PROVE  Advances(P, P2, e, e2) /\ Typed(P2)
  <1> DEFINE q == [x EXCEPT !.rev = @ + 1]
  <1>1. q \in Object /\ Advance(o, q)
    BY DEF Object, Advance, Typed
  <1>2. P2[p] = {q} /\ \A r \in Pods \ {p} : P2[r] = P[r]
    BY DEF Typed
  <1> QED BY <1>1, <1>2 DEF Advances, Typed

\* Pods that stay as they are advance.
LEMMA Staying ==
    ASSUME NEW P, NEW e, NEW e2
    PROVE  Advances(P, P, e, e2)
  BY DEF Advances

\* The objects stay honest when they advance.
LEMMA HonestKept ==
    ASSUME NEW P, Typed(P), NEW P2, Typed(P2), NEW e \in Nat, NEW e2 \in Nat, e2 >= e,
           Advances(P, P2, e, e2), Honest(P, e)
    PROVE  Honest(P2, e2)
  <1> SUFFICES ASSUME NEW p \in Pods, NEW q \in P2[p]
               PROVE  q.uid <= e2 /\ (q.cond \in Positive => q.node # 0)
    BY DEF Honest
  <1>1. q \in Object /\ \A o \in P[p] : o \in Object
    BY DEF Typed
  <1>2. CASE q \in P[p]
    BY <1>1, <1>2 DEF Honest, Object
  <1>3. CASE \E o \in P[p] : Advance(o, q)
    BY <1>1, <1>3 DEF Honest, Object, Advance
  <1>4. CASE q.uid > e /\ q.uid <= e2 /\ q.cond = "none"
    BY <1>4 DEF Positive
  <1> QED BY <1>2, <1>3, <1>4 DEF Advances

\* What a cycle relies on survives whatever happens to the Pods.
LEMMA ReliesKept ==
    ASSUME NEW P, Typed(P), NEW P2, Typed(P2), NEW e \in Nat, NEW e2 \in Nat, e2 >= e,
           Advances(P, P2, e, e2), NEW c, Good(c, P, e)
    PROVE  Good(c, P2, e2)
  <1>1. \A p \in Pods : \A y \in c.seen[p] : y \in Object
    BY DEF Good, Formed, Cycle
  <1>2. \A b \in c.bound : b[1] \in Pods /\ b[2] \in Object
    BY DEF Good, Formed, Cycle
  <1>3. \A p \in Pods : (\A o \in P[p] : o \in Object) /\ (\A q \in P2[p] : q \in Object)
    BY DEF Typed
  <1>4. ASSUME NEW p \in Pods, NEW y \in c.seen[p]
        PROVE  /\ y.uid <= e2
               /\ \A q \in P2[p] : q.uid = y.uid => y.rev < q.rev \/ y = q
               /\ p \in c.queue => y.node = 0 /\ ~y.terminal
    <2>1. y.uid <= e /\ (p \in c.queue => y.node = 0 /\ ~y.terminal)
      BY DEF Good, Relies
    <2>2. ASSUME NEW q \in P2[p], q.uid = y.uid
          PROVE  y.rev < q.rev \/ y = q
      <3>1. CASE q \in P[p]
        BY <2>2, <3>1 DEF Good, Relies
      <3>2. CASE \E o \in P[p] : Advance(o, q)
        <4>1. PICK o \in P[p] : Advance(o, q)
          BY <3>2
        <4>2. y.rev < o.rev \/ y = o
          BY <2>2, <4>1 DEF Good, Relies, Advance
        <4> QED BY <1>1, <1>3, <4>1, <4>2 DEF Advance, Object
      <3>3. CASE q.uid > e
        BY <1>1, <1>3, <2>1, <2>2, <3>3 DEF Object
      <3> QED BY <3>1, <3>2, <3>3 DEF Advances
    <2> QED BY <1>1, <2>1, <2>2 DEF Object
  <1>5. ASSUME NEW b \in c.bound
        PROVE  b[2].uid <= e2 /\ \A q \in P2[b[1]] : q.uid = b[2].uid => q.node # 0
    <2>1. b[2].uid <= e
      BY DEF Good, Relies
    <2>2. ASSUME NEW q \in P2[b[1]], q.uid = b[2].uid
          PROVE  q.node # 0
      <3>1. CASE q \in P[b[1]]
        BY <2>2, <3>1 DEF Good, Relies
      <3>2. CASE \E o \in P[b[1]] : Advance(o, q)
        BY <2>2, <3>2 DEF Good, Relies, Advance
      <3>3. CASE q.uid > e
        BY <1>2, <1>3, <2>1, <2>2, <3>3 DEF Object
      <3> QED BY <1>2, <3>1, <3>2, <3>3 DEF Advances
    <2> QED BY <1>2, <2>1, <2>2 DEF Object
  <1> QED BY <1>4, <1>5 DEF Good, Relies

\* An empty cycle relies on nothing.
LEMMA GoodIdle ==
    ASSUME NEW P, NEW e
    PROVE  Good(Idle, P, e)
  BY DEF Good, Formed, Relies, Idle, Cycle

\* A cycle relies on no more when candidates are dropped.
LEMMA GoodFewer ==
    ASSUME NEW c, NEW P, NEW e, Good(c, P, e), NEW p
    PROVE  Good([c EXCEPT !.queue = @ \ {p}], P, e)
  <1>1. c \in Cycle
    BY DEF Good, Formed
  <1>2. [c EXCEPT !.queue = @ \ {p}] \in Cycle
    BY <1>1 DEF Cycle
  <1> QED BY <1>1, <1>2 DEF Good, Formed, Relies, Cycle

\* A cycle does not rely on the Leases it has listed.
LEMMA GoodAged ==
    ASSUME NEW c, NEW P, NEW e, Good(c, P, e), NEW n
    PROVE  Good([c EXCEPT !.leases = @ \ {n}], P, e)
  <1>1. c \in Cycle
    BY DEF Good, Formed
  <1>2. [c EXCEPT !.leases = @ \ {n}] \in Cycle
    BY <1>1 DEF Cycle
  <1> QED BY <1>1, <1>2 DEF Good, Formed, Relies, Cycle

-----------------------------------------------------------------------------
(* Steps.                                                                  *)

\* What a step has to show of the Pods, and of a cycle it changes.
PodsMove == Typed(pod') /\ Advances(pod, pod', edits, edits')
                /\ edits' \in 0..MaxEdits /\ edits' >= edits

NodesMove == node' \in [Nodes -> {"ready", "unready", "gone"}] /\ lease' \subseteq Nodes

\* A step that changes no cycle, or one to a good one.
LEMMA Step ==
    ASSUME SchedulerAssumption, IInv, PodsMove, NodesMove,
           \/ sch' = sch
           \/ \E s \in Schedulers : \E c \in {sch'[s]} :
                 sch' = [sch EXCEPT ![s] = c] /\ Good(c, pod', edits')
    PROVE  IInv'
  <1>1. edits \in Nat /\ edits' \in Nat
    BY DEF IInv, PodsMove, SchedulerAssumption
  <1>2. Honest(pod', edits')
    BY <1>1, HonestKept DEF IInv, PodsMove
  <1>3. \A s \in Schedulers : Good(sch[s], pod', edits')
    BY <1>1, ReliesKept DEF IInv, PodsMove
  <1>4. sch' \in [Schedulers -> Cycle] /\ \A s \in Schedulers : Good(sch'[s], pod', edits')
    <2>1. CASE sch' = sch
      BY <1>3, <2>1 DEF IInv
    <2>2. CASE \E s \in Schedulers : \E c \in {sch'[s]} :
                 sch' = [sch EXCEPT ![s] = c] /\ Good(c, pod', edits')
      BY <1>3, <2>2 DEF IInv, Good, Formed
    <2> QED BY <2>1, <2>2
  <1> QED BY <1>2, <1>4 DEF IInv, PodsMove, NodesMove

\* A write of PodScheduled that does not turn it back (condition).
LEMMA Reporting ==
    ASSUME SchedulerAssumption, IInv, NEW p \in Pods, NEW read \in Object, NEW c \in Condition,
           condition(p, read, c), UNCHANGED edits,
           \A o \in pod[p] : current(o, read) =>
              (c \in Positive => o.node # 0) /\ (o.cond \in Positive => c \in Positive)
    PROVE  PodsMove
  <1>1. CASE \E o \in pod[p] : current(o, read) /\ Becomes(p, [o EXCEPT !.cond = c])
    <2>1. PICK o \in pod[p] : current(o, read) /\ Becomes(p, [o EXCEPT !.cond = c])
      BY <1>1
    <2> DEFINE x == [o EXCEPT !.cond = c]
    <2>2. o \in Object
      BY DEF IInv, Typed
    <2>3. /\ x \in Object /\ x.uid = o.uid /\ x.rev = o.rev /\ x.node = o.node /\ x.cond = c
          /\ x.direct = o.direct /\ x.terminal = o.terminal
          /\ c \in Positive => x.node # 0
          /\ o.cond \in Positive => c \in Positive
      BY <2>1, <2>2 DEF Object
    <2>4. pod' = [pod EXCEPT ![p] = {[x EXCEPT !.rev = @ + 1]}]
      BY <2>1 DEF Becomes
    <2>5. Advances(pod, pod', edits, edits') /\ Typed(pod')
      <3> HIDE DEF x
      <3> QED BY <2>3, <2>4, Becoming DEF IInv
    <2> QED BY <2>5 DEF IInv, PodsMove
  <1>2. CASE pod' = pod
    BY <1>2, Staying DEF IInv, PodsMove
  <1> QED BY <1>1, <1>2 DEF condition

\* The calls of a cycle.
LEMMA ScheduleStep ==
    ASSUME SchedulerAssumption, IInv, NEW s \in Schedulers, Scheduling(s)
    PROVE  IInv' /\ PodsMove
  <1> USE SchedulerAssumption
  <1>0. sch[s] \in Cycle /\ Good(sch[s], pod, edits) /\ edits \in Nat
    BY DEF IInv
  <1>1. ASSUME UNCHANGED <<pod, edits>> PROVE PodsMove
    BY <1>1, Staying DEF IInv, PodsMove
  <1>2. ASSUME UNCHANGED <<node, lease>> PROVE NodesMove
    BY <1>2 DEF IInv, NodesMove
  <1>3. ASSUME NEW c, To(s, c) PROVE sch' = [sch EXCEPT ![s] = c] /\ sch'[s] = c
    BY <1>3 DEF To, IInv
  <1>4. ASSUME NEW c, To(s, c), Good(c, pod', edits'), PodsMove, UNCHANGED <<node, lease>>
        PROVE  IInv' /\ PodsMove
    <2>1. \E t \in Schedulers : \E d \in {sch'[t]} :
             sch' = [sch EXCEPT ![t] = d] /\ Good(d, pod', edits')
      BY <1>3, <1>4
    <2> QED BY <1>2, <1>4, <2>1, Step
  <1>5. CASE ListNodes(s)
    <2> DEFINE c == [Idle EXCEPT !.pc = "leases", !.nodes = { n \in Nodes : node[n] = "ready" }]
    <2>1. Good(c, pod', edits')
      BY DEF Good, Formed, Relies, Idle, Cycle
    <2>2. To(s, c) /\ UNCHANGED <<pod, node, lease, edits>>
      BY <1>5 DEF ListNodes
    <2> HIDE DEF c
    <2> QED BY <1>1, <1>4, <2>1, <2>2
  <1>6. CASE ListLeases(s)
    <2> DEFINE c == [sch[s] EXCEPT !.pc = "pods", !.leases = lease]
    <2>1. To(s, c) /\ UNCHANGED <<pod, node, lease, edits>> /\ sch[s].pc = "leases"
      BY <1>6 DEF ListLeases
    <2>2. c \in Cycle
      BY <1>0 DEF Cycle, IInv
    <2>3. Good(c, pod', edits')
      BY <1>0, <2>1, <2>2 DEF Good, Formed, Relies, Cycle
    <2> HIDE DEF c
    <2> QED BY <1>1, <1>4, <2>1, <2>3
  <1>7. CASE ListPods(s)
    <2> DEFINE c == [sch[s] EXCEPT !.pc = "place", !.seen = pod, !.queue = candidates(pod)]
    <2>1. /\ To(s, c) \/ To(s, Idle)
          /\ UNCHANGED <<pod, node, lease, edits>> /\ sch[s].pc = "pods"
      BY <1>7 DEF ListPods
    <2>2. c \in Cycle
      BY <1>0 DEF Cycle, IInv, Typed, candidates
    <2>3. c.bound = {}
      BY <1>0, <2>1 DEF Good, Formed, Cycle
    <2>4. Formed(c)
      BY <2>2, <2>3, <1>0 DEF Formed, Cycle, IInv, Typed
    <2>5. \A p \in Pods : \A y \in pod[p] :
             /\ y.uid <= edits
             /\ \A o \in pod[p] : o = y
             /\ p \in candidates(pod) => y.node = 0 /\ ~y.terminal
      BY DEF IInv, Typed, Honest, candidates, pending
    <2>6. Relies(c, pod', edits')
      BY <1>0, <2>1, <2>3, <2>5 DEF Relies, Cycle
    <2>7. Good(c, pod', edits')
      BY <2>4, <2>6 DEF Good
    <2> HIDE DEF c
    <2> QED BY <1>1, <1>4, <2>1, <2>7, GoodIdle
  <1>8. ASSUME NEW p \in Pods, Bind(s, p)
        PROVE  IInv' /\ PodsMove
    <2>1. PICK n \in Choice(s, p), o \in pod[p], listed \in sch[s].seen[p] :
            /\ node[n] # "gone" /\ bindable(o, listed)
            /\ Becomes(p, [o EXCEPT !.node = n])
            /\ \/ To(s, Reserved(s, p, n, listed)) /\ UNCHANGED edits
               \/ edits < MaxEdits /\ edits' = edits + 1 /\ To(s, Idle)
      BY <1>8 DEF Bind
    <2>2. n \in Nodes /\ n # 0
      BY <1>0, <2>1 DEF Choice, select, feasible, Cycle, SchedulerAssumption
    <2>3. o \in Object /\ listed \in Object /\ UNCHANGED <<node, lease>>
      BY <1>0, <1>8 DEF IInv, Typed, Cycle, Bind
    <2> DEFINE x == [o EXCEPT !.node = n]
               q == [x EXCEPT !.rev = @ + 1]
    <2>4. /\ x \in Object /\ x.uid = o.uid /\ x.rev = o.rev /\ o.node = 0 /\ x.node # 0
          /\ x.cond = o.cond /\ x.direct = o.direct /\ x.terminal = o.terminal
      BY <2>1, <2>2, <2>3 DEF Object, bindable
    <2>5. pod' = [pod EXCEPT ![p] = {q}] /\ edits' >= edits /\ edits' \in 0..MaxEdits
      BY <1>0, <2>1 DEF Becomes, IInv, SchedulerAssumption
    <2>6. PodsMove
      <3>1. Advances(pod, pod', edits, edits') /\ Typed(pod')
        <4> HIDE DEF x
        <4> QED BY <2>4, <2>5, Becoming DEF IInv
      <3> QED BY <2>5, <3>1 DEF PodsMove
    <2>7. CASE To(s, Idle)
      BY <1>4, <2>3, <2>6, <2>7, GoodIdle
    <2>8. CASE To(s, Reserved(s, p, n, listed)) /\ UNCHANGED edits
      <3> DEFINE y == [listed EXCEPT !.node = n]
                 c == Reserved(s, p, n, listed)
      <3>1. c.queue = sch[s].queue \ {p} /\ c.bound = {<<p, listed>>}
            /\ c.seen = [sch[s].seen EXCEPT ![p] = {y}] /\ c.pc = "confirm"
        BY <1>0 DEF Reserved, Skipped, Cycle
      <3>2. y \in Object /\ y.uid = listed.uid /\ y.rev = listed.rev
        BY <2>2, <2>3 DEF Object
      <3>3. c \in Cycle
        <4>1. [sch[s].seen EXCEPT ![p] = {y}] \in [Pods -> SUBSET Object]
          BY <1>0, <3>2 DEF Cycle
        <4>2. {<<p, listed>>} \in SUBSET (Pods \X Object)
          BY <2>3
        <4>3. Skipped(s, p) \in Cycle /\ Skipped(s, p).seen = sch[s].seen
          BY <1>0 DEF Skipped, Cycle
        <4>4. c = [Skipped(s, p) EXCEPT !.pc = "confirm", !.bound = {<<p, listed>>},
                     !.seen = [sch[s].seen EXCEPT ![p] = {y}]]
          BY <4>3 DEF Reserved
        <4> HIDE DEF c, y
        <4> QED BY <4>1, <4>2, <4>3, <4>4 DEF Cycle
      <3>4. Formed(c)
        BY <1>0, <3>1, <3>3 DEF Formed, Good, Cycle
      <3>5. /\ q.uid = listed.uid /\ q.rev = listed.rev + 1 /\ q.node = n
            /\ pod'[p] = {q} /\ \A r \in Pods \ {p} : pod'[r] = pod[r]
        BY <2>1, <2>3, <2>5 DEF bindable, Object, IInv, Typed
      <3>6. listed.uid <= edits
        BY <1>0 DEF Good, Relies
      <3>7. ASSUME NEW r \in Pods, NEW z \in c.seen[r]
            PROVE  /\ z.uid <= edits
                   /\ \A a \in pod'[r] : a.uid = z.uid => z.rev < a.rev \/ z = a
                   /\ r \in c.queue => z.node = 0 /\ ~z.terminal
        <4>1. CASE r = p
          <5> HIDE DEF y, q, x
          <5>1. c.seen[p] = {y}
            BY <1>0, <3>1 DEF Cycle
          <5> QED BY <2>3, <3>1, <3>2, <3>5, <3>6, <4>1, <5>1 DEF Object
        <4>2. CASE r # p
          BY <1>0, <3>1, <3>5, <4>2 DEF Cycle, Good, Relies
        <4> QED BY <4>1, <4>2
      <3>8. Relies(c, pod', edits')
        <4> HIDE DEF q, y, c
        <4> QED BY <2>2, <2>8, <3>1, <3>5, <3>6, <3>7 DEF Relies
      <3>9. Good(c, pod', edits')
        BY <3>4, <3>8 DEF Good
      <3> HIDE DEF c
      <3> QED BY <1>4, <2>3, <2>6, <2>8, <3>9 DEF c
    <2> QED BY <2>1, <2>7, <2>8
  <1>9. ASSUME NEW p, NEW P, NEW e, Good(sch[s], P, e) PROVE Good(Skipped(s, p), P, e)
    BY <1>9, GoodFewer DEF Skipped
  <1>10. ASSUME NEW p \in Pods, BindRefused(s, p)
         PROVE  IInv' /\ PodsMove
    <2>1. NextCandidate(s, p) /\ To(s, Skipped(s, p)) /\ UNCHANGED <<pod, node, lease, edits>>
      BY <1>10 DEF BindRefused
    <2>2. Good(Skipped(s, p), pod, edits)
      BY <1>0, <1>9
    <2> QED BY <1>1, <1>4, <2>1, <2>2
  <1>11. ASSUME NEW p \in Pods, Refuse(s, p)
         PROVE  IInv' /\ PodsMove
    <2>1. PICK listed \in sch[s].seen[p] : condition(p, listed, reason(p))
      BY <1>11 DEF Refuse
    <2>2. NextCandidate(s, p) /\ To(s, Skipped(s, p)) /\ UNCHANGED <<node, lease, edits>>
      BY <1>11 DEF Refuse
    <2>3. listed \in Object /\ reason(p) \in Condition /\ reason(p) \notin Positive
      BY <1>0 DEF Cycle, reason, Condition, Refusals, Positive
    <2>4. listed.node = 0
      BY <1>0, <2>2 DEF Good, Relies, NextCandidate
    <2>5. ASSUME NEW o \in pod[p], current(o, listed)
          PROVE  o.cond \notin Positive
      <3>1. o = listed
        BY <1>0, <2>3, <2>5 DEF Good, Relies, current, Object, IInv, Typed
      <3> QED BY <2>4, <3>1 DEF IInv, Honest
    <2>6. PodsMove
      BY <2>1, <2>2, <2>3, <2>5, Reporting
    <2>7. Good(sch[s], pod', edits')
      BY <1>0, <2>2, <2>6, ReliesKept DEF PodsMove, IInv
    <2>8. Good(Skipped(s, p), pod', edits')
      BY <1>9, <2>7
    <2> QED BY <1>4, <2>2, <2>6, <2>8
  <1>12. CASE Confirm(s)
    <2>1. PICK b \in sch[s].bound :
            To(s, [sch[s] EXCEPT
                     !.pc = IF { o \in pod[b[1]] : o.uid = b[2].uid } = {} THEN "place" ELSE "report",
                     !.bound = {b[1]} \X { o \in pod[b[1]] : o.uid = b[2].uid }])
      BY <1>12 DEF Confirm
    <2> DEFINE same == { o \in pod[b[1]] : o.uid = b[2].uid }
               c == [sch[s] EXCEPT !.pc = IF same = {} THEN "place" ELSE "report",
                                   !.bound = {b[1]} \X same]
    <2>2. b[1] \in Pods /\ b[2] \in Object /\ same \in SUBSET Object
          /\ \A o, q \in same : o = q
      BY <1>0 DEF Cycle, IInv, Typed
    <2>3. c \in Cycle /\ c.seen = sch[s].seen /\ c.queue = sch[s].queue
          /\ c.bound = {b[1]} \X same /\ c.pc = IF same = {} THEN "place" ELSE "report"
      <3> HIDE DEF same
      <3> QED BY <1>0, <2>2 DEF Cycle
    <2>4. Formed(c)
      <3>1. c.bound # {} <=> same # {}
        <4> HIDE DEF c, same
        <4>1. \A o \in same : <<b[1], o>> \in c.bound
          BY <2>3
        <4>2. \A d \in c.bound : d[2] \in same
          BY <2>3
        <4> QED BY <4>1, <4>2
      <3>2. \A d, f \in c.bound : d = f
        <4> HIDE DEF c, same
        <4> QED BY <2>2, <2>3
      <3> HIDE DEF c, same
      <3> QED BY <1>0, <2>3, <3>1, <3>2 DEF Good, Formed
    <2>5. \A d \in c.bound : d[1] = b[1] /\ d[2] \in same
      <3> HIDE DEF c, same
      <3> QED BY <2>3
    <2>6. b[2].uid <= edits /\ \A o \in pod[b[1]] : o.uid = b[2].uid => o.node # 0
      BY <1>0 DEF Good, Relies
    <2>7. Relies(c, pod, edits)
      <3>1. \A d \in c.bound : d[2].uid = b[2].uid
        <4>1. \A o \in same : o.uid = b[2].uid
          OBVIOUS
        <4> HIDE DEF c, same
        <4> QED BY <2>5, <4>1
      <3> HIDE DEF c, same
      <3> QED BY <1>0, <2>3, <2>5, <2>6, <3>1 DEF Good, Relies
    <2>8. To(s, c) /\ UNCHANGED <<pod, node, lease, edits>>
      BY <1>12, <2>1 DEF Confirm
    <2> HIDE DEF c
    <2> QED BY <1>1, <1>4, <2>4, <2>7, <2>8 DEF Good
  <1>13. CASE Report(s)
    <2>1. PICK b \in sch[s].bound : condition(b[1], b[2], "Scheduled")
      BY <1>13 DEF Report
    <2> DEFINE c == [sch[s] EXCEPT !.pc = "place", !.bound = {}]
    <2>2. b[1] \in Pods /\ b[2] \in Object /\ "Scheduled" \in Condition
          /\ "Scheduled" \in Positive
      BY <1>0 DEF Cycle, Condition, Positive
    <2>3. \A o \in pod[b[1]] : current(o, b[2]) => o.node # 0
      BY <1>0 DEF Good, Relies, current
    <2>4. To(s, c) /\ UNCHANGED <<node, lease, edits>>
      BY <1>13 DEF Report
    <2>5. PodsMove
      BY <2>1, <2>2, <2>3, <2>4, Reporting
    <2>6. Good(sch[s], pod', edits')
      BY <1>0, <2>4, <2>5, ReliesKept DEF PodsMove, IInv
    <2>7. c \in Cycle
      BY <1>0 DEF Cycle
    <2>8. Good(c, pod', edits')
      BY <1>0, <2>6, <2>7 DEF Good, Formed, Relies, Cycle
    <2> HIDE DEF c
    <2> QED BY <1>4, <2>4, <2>5, <2>8
  <1>14. CASE EndCycle(s)
    BY <1>1, <1>4, <1>14, GoodIdle DEF EndCycle
  <1> QED BY <1>5, <1>6, <1>7, <1>8, <1>10, <1>11, <1>12, <1>13, <1>14 DEF Scheduling

\* What users, kubelets, Nodes and failures do.
LEMMA OtherStep ==
    ASSUME SchedulerAssumption, IInv,
           \/ \E s \in Schedulers : Abandon(s) \/ \E n \in Nodes : LeaseAges(s, n)
           \/ \E p \in Pods : Create(p) \/ UserBind(p) \/ Delete(p) \/ Touch(p) \/ Finish(p) \/ Publish(p)
           \/ \E n \in Nodes : NodeChange(n) \/ LeaseChange(n)
    PROVE  IInv' /\ PodsMove
  <1>1. edits \in Nat /\ MaxEdits \in Nat
    BY DEF IInv, SchedulerAssumption
  <1>2. ASSUME Edit PROVE edits' = edits + 1 /\ edits' \in 0..MaxEdits /\ edits' >= edits
    BY <1>1, <1>2 DEF Edit
  <1>3. ASSUME Edit, UNCHANGED pod PROVE PodsMove
    BY <1>2, <1>3, Staying DEF IInv, PodsMove
  <1>4. ASSUME UNCHANGED <<node, lease>> PROVE NodesMove
    BY <1>4 DEF IInv, NodesMove
  <1>5. ASSUME NEW p \in Pods, NEW o \in pod[p], NEW x \in Object, Becomes(p, x),
               x.uid = o.uid, x.rev = o.rev, o.node # 0 => x.node = o.node,
               x.cond \in Positive => x.node # 0, o.cond \in Positive => x.cond \in Positive,
               o.direct => x.direct, o.terminal => x.terminal,
               Edit \/ UNCHANGED edits, UNCHANGED <<node, lease, sch>>
        PROVE  IInv' /\ PodsMove
    <2>1. pod' = [pod EXCEPT ![p] = {[x EXCEPT !.rev = @ + 1]}]
      BY <1>5 DEF Becomes
    <2>2. Advances(pod, pod', edits, edits') /\ Typed(pod')
      BY <1>5, <2>1, Becoming DEF IInv
    <2>3. PodsMove
      BY <1>1, <1>2, <1>5, <2>2 DEF PodsMove, IInv
    <2> QED BY <1>4, <1>5, <2>3, Step
  <1>6. \A p \in Pods : \A o \in pod[p] : o \in Object /\ (o.cond \in Positive => o.node # 0)
    BY DEF IInv, Typed, Honest
  <1>7. ASSUME NEW s \in Schedulers, NEW c, Good(c, pod, edits), Edit, To(s, c),
               UNCHANGED <<pod, node, lease>>
        PROVE  IInv' /\ PodsMove
    <2>1. PodsMove
      BY <1>3, <1>7
    <2>2. Good(c, pod', edits')
      BY <1>1, <1>2, <1>7, <2>1, ReliesKept DEF PodsMove, IInv
    <2>3. sch' = [sch EXCEPT ![s] = c] /\ sch'[s] = c
      BY <1>7 DEF To, IInv
    <2>4. \E t \in Schedulers : \E d \in {sch'[t]} :
             sch' = [sch EXCEPT ![t] = d] /\ Good(d, pod', edits')
      BY <2>2, <2>3
    <2> QED BY <1>4, <1>7, <2>1, <2>4, Step
  <1>8. ASSUME NEW s \in Schedulers, Abandon(s) PROVE IInv' /\ PodsMove
    BY <1>7, <1>8, GoodIdle DEF Abandon
  <1>9. ASSUME NEW s \in Schedulers, NEW n \in Nodes, LeaseAges(s, n) PROVE IInv' /\ PodsMove
    <2>1. Good([sch[s] EXCEPT !.leases = @ \ {n}], pod, edits)
      BY GoodAged DEF IInv
    <2> QED BY <1>7, <1>9, <2>1 DEF LeaseAges
  <1>10. ASSUME NEW p \in Pods, Create(p) PROVE IInv' /\ PodsMove
    <2>1. PICK n \in Nodes \cup {0} : pod' = [pod EXCEPT ![p] = {NewPod(edits', n)}]
      BY <1>10 DEF Create
    <2> DEFINE q == NewPod(edits', n)
    <2>2. Edit /\ UNCHANGED <<node, lease, sch>>
      BY <1>10 DEF Create
    <2>3. q \in Object /\ q.uid = edits' /\ q.cond = "none" /\ (q.node # 0 => q.direct)
      BY <1>2, <2>2 DEF NewPod, Object, Condition
    <2> HIDE DEF q
    <2>4. pod'[p] = {q} /\ \A r \in Pods \ {p} : pod'[r] = pod[r]
      BY <2>1 DEF IInv, Typed, q
    <2>5. Typed(pod')
      <3>1. pod' \in [Pods -> SUBSET Object]
        BY <2>1, <2>3 DEF IInv, Typed, q
      <3> QED BY <2>4, <3>1 DEF IInv, Typed
    <2>6. Advances(pod, pod', edits, edits')
      BY <1>1, <1>2, <2>2, <2>3, <2>4 DEF Advances
    <2>7. PodsMove
      BY <1>2, <2>2, <2>5, <2>6 DEF PodsMove
    <2> QED BY <1>4, <2>2, <2>7, Step
  <1>11. ASSUME NEW p \in Pods, UserBind(p) PROVE IInv' /\ PodsMove
    <2>1. PICK o \in pod[p], n \in Nodes :
            o.node = 0 /\ Becomes(p, [o EXCEPT !.node = n, !.direct = TRUE])
      BY <1>11 DEF UserBind
    <2>2. Edit /\ UNCHANGED <<node, lease, sch>>
      BY <1>11 DEF UserBind
    <2>3. o \in Object
      BY <1>6
    <2> DEFINE x == [o EXCEPT !.node = n, !.direct = TRUE]
    <2>4. /\ x \in Object /\ x.uid = o.uid /\ x.rev = o.rev /\ x.cond = o.cond
          /\ x.direct /\ x.terminal = o.terminal
      BY <2>3 DEF Object
    <2> HIDE DEF x
    <2> QED BY <1>5, <1>6, <2>1, <2>2, <2>4 DEF x
  <1>12. ASSUME NEW p \in Pods, Delete(p) PROVE IInv' /\ PodsMove
    <2>1. Edit /\ pod' = [pod EXCEPT ![p] = {}] /\ UNCHANGED <<node, lease, sch>>
      BY <1>12 DEF Delete
    <2>2. Typed(pod') /\ Advances(pod, pod', edits, edits')
      BY <2>1 DEF IInv, Typed, Advances
    <2>3. PodsMove
      BY <1>2, <2>1, <2>2 DEF PodsMove
    <2> QED BY <1>4, <2>1, <2>3, Step
  <1>13. ASSUME NEW p \in Pods, Touch(p) PROVE IInv' /\ PodsMove
    BY <1>5, <1>6, <1>13 DEF Touch
  <1>14. ASSUME NEW p \in Pods, Finish(p) PROVE IInv' /\ PodsMove
    <2>1. PICK o \in pod[p] : o.node # 0 /\ Becomes(p, [o EXCEPT !.terminal = TRUE])
      BY <1>14 DEF Finish
    <2>2. Edit /\ UNCHANGED <<node, lease, sch>>
      BY <1>14 DEF Finish
    <2>3. o \in Object
      BY <1>6
    <2> DEFINE x == [o EXCEPT !.terminal = TRUE]
    <2>4. /\ x \in Object /\ x.uid = o.uid /\ x.rev = o.rev /\ x.cond = o.cond
          /\ x.node = o.node /\ x.direct = o.direct /\ x.terminal
      BY <2>3 DEF Object
    <2> HIDE DEF x
    <2> QED BY <1>5, <1>6, <2>1, <2>2, <2>4 DEF x
  <1>15. ASSUME NEW p \in Pods, Publish(p) PROVE IInv' /\ PodsMove
    <2>1. PICK o \in pod[p] : o.node # 0 /\ Becomes(p, [o EXCEPT !.cond = "KubeletObserved"])
      BY <1>15 DEF Publish
    <2>2. UNCHANGED <<node, lease, sch, edits>>
      BY <1>15 DEF Publish
    <2>3. o \in Object
      BY <1>6
    <2> DEFINE x == [o EXCEPT !.cond = "KubeletObserved"]
    <2>4. /\ x \in Object /\ x.uid = o.uid /\ x.rev = o.rev /\ x.node = o.node
          /\ x.cond \in Positive /\ x.direct = o.direct /\ x.terminal = o.terminal
      BY <2>3 DEF Object, Condition, Positive
    <2> HIDE DEF x
    <2> QED BY <1>5, <1>6, <2>1, <2>2, <2>4 DEF x
  <1>16. ASSUME NEW n \in Nodes, NodeChange(n) PROVE IInv' /\ PodsMove
    <2>1. Edit /\ UNCHANGED <<pod, lease, sch>> /\ NodesMove
      BY <1>16 DEF NodeChange, NodesMove, IInv
    <2> QED BY <1>3, <2>1, Step
  <1>17. ASSUME NEW n \in Nodes, LeaseChange(n) PROVE IInv' /\ PodsMove
    <2>1. Edit /\ UNCHANGED <<pod, node, sch>> /\ NodesMove
      BY <1>17 DEF LeaseChange, NodesMove, IInv
    <2> QED BY <1>3, <2>1, Step
  <1> QED BY <1>8, <1>9, <1>10, <1>11, <1>12, <1>13, <1>14, <1>15, <1>16, <1>17

\* Every step keeps the invariant, and Pods only advance.
LEMMA NextStep ==
    ASSUME SchedulerAssumption, IInv, [Next]_vars
    PROVE  IInv' /\ PodsMove
  <1>1. CASE Next
    BY <1>1, ScheduleStep, OtherStep DEF Next
  <1>2. CASE UNCHANGED vars
    <2>1. PodsMove
      BY <1>2, Staying DEF vars, PodsMove, IInv
    <2>2. NodesMove
      BY <1>2 DEF vars, NodesMove, IInv
    <2> QED BY <1>2, <2>1, <2>2, Step DEF vars
  <1> QED BY <1>1, <1>2

\* The invariant holds at first.
LEMMA InitGood == SchedulerAssumption /\ Init => IInv
  <1> SUFFICES ASSUME SchedulerAssumption, Init PROVE IInv
    OBVIOUS
  <1>1. PICK P \in SUBSET Pods : pod = [p \in Pods |-> IF p \in P THEN {NewPod(0, 0)} ELSE {}]
    BY DEF Init
  <1>2. NewPod(0, 0) \in Object /\ NewPod(0, 0).uid = 0 /\ NewPod(0, 0).cond = "none"
    BY DEF SchedulerAssumption, NewPod, Object, Condition
  <1>3. Typed(pod)
    BY <1>1, <1>2 DEF Typed
  <1>4. Honest(pod, edits)
    BY <1>1, <1>2 DEF Honest, Init, Positive
  <1>5. Idle \in Cycle
    BY GoodIdle DEF Good, Formed
  <1>6. sch \in [Schedulers -> Cycle] /\ \A s \in Schedulers : Good(sch[s], pod, edits)
    BY <1>5, GoodIdle DEF Init
  <1> QED BY <1>3, <1>4, <1>6 DEF Init, IInv, SchedulerAssumption

LEMMA Invariance == Spec => []IInv
  <1>1. Init => IInv
    BY SchedulerAssumption, InitGood
  <1>2. IInv /\ [Next]_vars => IInv'
    BY SchedulerAssumption, NextStep
  <1> QED BY <1>1, <1>2, PTL DEF Spec

-----------------------------------------------------------------------------
(* Sums of requests.                                                       *)

Some(S) == CHOOSE x \in S : TRUE

\* g sums the weights w over the subsets of X, element by element.
IsSum(g, w, X) ==
    g = [T \in SUBSET X |-> IF T = {} THEN 0 ELSE w[Some(T)] + g[T \ {Some(T)}]]

SumOf(w, X) == (CHOOSE g : IsSum(g, w, X))[X]

LEMMA LeastNumber ==
    ASSUME NEW S, S \subseteq Nat, S # {}
    PROVE  \E m \in S : \A n \in S : m <= n
  <1> DEFINE R == {ss \in Nat \X Nat : ss[1] < ss[2]}
  <1>1. IsWellFoundedOn(R, Nat)
    BY NatLessThanWellFounded DEF OpToRel
  <1>2. \A m, n \in Nat : m < n => <<m, n>> \in R
    OBVIOUS
  <1> HIDE DEF R
  <1>3. PICK m \in S : \A n \in S : <<n, m>> \notin R
    BY <1>1, WFMin
  <1>4. \A n \in S : ~(n < m)
    BY <1>2, <1>3
  <1> QED BY <1>4

LEMMA SmallestFails ==
    ASSUME NEW X, IsFiniteSet(X), NEW Bad, Bad \subseteq SUBSET X, Bad # {}
    PROVE  \E T \in Bad : \A V \in Bad : Cardinality(T) <= Cardinality(V)
  <1> DEFINE Sizes == { Cardinality(T) : T \in Bad }
  <1>1. \A T \in Bad : IsFiniteSet(T) /\ Cardinality(T) \in Nat
    BY FS_Subset, FS_CardinalityType
  <1>2. Sizes \subseteq Nat /\ Sizes # {}
    BY <1>1
  <1>3. PICK m \in Sizes : \A n \in Sizes : m <= n
    <2> HIDE DEF Sizes
    <2> QED BY <1>2, LeastNumber
  <1> QED BY <1>3

LEMMA Smaller ==
    ASSUME NEW X, IsFiniteSet(X), NEW T, T \subseteq X, NEW x \in T
    PROVE  /\ IsFiniteSet(T) /\ T \ {x} \subseteq X /\ IsFiniteSet(T \ {x})
           /\ Cardinality(T) \in Nat /\ Cardinality(T \ {x}) \in Nat
           /\ Cardinality(T) = Cardinality(T \ {x}) + 1
           /\ ~(Cardinality(T) <= Cardinality(T \ {x}))
  <1>1. IsFiniteSet(T)
    BY FS_Subset
  <1>2. /\ IsFiniteSet(T \ {x}) /\ Cardinality(T \ {x}) = Cardinality(T) - 1
    BY <1>1, FS_RemoveElement
  <1>3. Cardinality(T) \in Nat /\ Cardinality(T \ {x}) \in Nat
    BY <1>1, <1>2, FS_CardinalityType
  <1> QED BY <1>1, <1>2, <1>3

LEMMA SomeIsIn ==
    ASSUME NEW T, T # {}
    PROVE  Some(T) \in T
  BY DEF Some

LEMMA SumStep ==
    ASSUME NEW g, NEW w, NEW X, IsSum(g, w, X), NEW T, T \subseteq X
    PROVE  /\ T = {} => g[T] = 0
           /\ T # {} => g[T] = w[Some(T)] + g[T \ {Some(T)}]
  BY DEF IsSum

\* Two of them agree, and give a number.
LEMMA SumsAgree ==
    ASSUME NEW U, NEW w \in [U -> Nat], NEW X, X \subseteq U, IsFiniteSet(X), NEW Y, Y \subseteq U,
           NEW g, IsSum(g, w, X), NEW h, IsSum(h, w, Y), NEW T, T \subseteq X, T \subseteq Y
    PROVE  g[T] = h[T] /\ g[T] \in Nat
  <1> DEFINE Bad == { V \in SUBSET X : V \subseteq Y /\ ~(g[V] = h[V] /\ g[V] \in Nat) }
  <1> SUFFICES ASSUME Bad # {} PROVE FALSE
    OBVIOUS
  <1>1. PICK V \in Bad : \A W \in Bad : Cardinality(V) <= Cardinality(W)
    <2>1. Bad \subseteq SUBSET X
      OBVIOUS
    <2> HIDE DEF Bad
    <2> QED BY <2>1, SmallestFails
  <1>2. V \subseteq X /\ V \subseteq Y /\ ~(g[V] = h[V] /\ g[V] \in Nat)
    OBVIOUS
  <1>3. V # {}
    <2>1. V = {} => g[V] = 0 /\ h[V] = 0
      BY <1>2, SumStep
    <2> QED BY <1>2, <2>1
  <1>4. PICK x \in V : x = Some(V)
    BY <1>3, SomeIsIn
  <1>5. V \ {x} \notin Bad
    <2> HIDE DEF Bad
    <2>1. ~(Cardinality(V) <= Cardinality(V \ {x}))
      BY <1>2, <1>4, Smaller
    <2> QED BY <1>1, <2>1
  <1>6. g[V \ {x}] = h[V \ {x}] /\ g[V \ {x}] \in Nat
    BY <1>2, <1>5
  <1>7. g[V] = w[x] + g[V \ {x}] /\ h[V] = w[x] + h[V \ {x}]
    BY <1>2, <1>3, <1>4, SumStep
  <1>8. w[x] \in Nat
    BY <1>2, <1>4
  <1> QED BY <1>2, <1>6, <1>7, <1>8

\* The elements may be taken in any order.
LEMMA SumTakes ==
    ASSUME NEW U, NEW w \in [U -> Nat], NEW X, X \subseteq U, IsFiniteSet(X),
           NEW g, IsSum(g, w, X), NEW T, T \subseteq X, NEW x \in T
    PROVE  g[T] = w[x] + g[T \ {x}]
  <1> DEFINE Bad == { V \in SUBSET X : \E y \in V : g[V] # w[y] + g[V \ {y}] }
  <1> SUFFICES ASSUME Bad # {} PROVE FALSE
    OBVIOUS
  <1>1. PICK V \in Bad : \A W \in Bad : Cardinality(V) <= Cardinality(W)
    <2>1. Bad \subseteq SUBSET X
      OBVIOUS
    <2> HIDE DEF Bad
    <2> QED BY <2>1, SmallestFails
  <1>2. PICK y \in V : g[V] # w[y] + g[V \ {y}]
    OBVIOUS
  <1>3. V \subseteq X /\ V # {}
    OBVIOUS
  <1>4. PICK c \in V : g[V] = w[c] + g[V \ {c}]
    BY <1>3, SumStep, SomeIsIn
  <1>5. c # y
    BY <1>2, <1>4
  <1>6. \A z \in V : V \ {z} \notin Bad
    <2> HIDE DEF Bad
    <2>1. \A z \in V : ~(Cardinality(V) <= Cardinality(V \ {z}))
      BY <1>3, Smaller
    <2> QED BY <1>1, <2>1
  <1>7. g[V \ {c}] = w[y] + g[(V \ {c}) \ {y}]
    BY <1>3, <1>5, <1>6
  <1>8. g[V \ {y}] = w[c] + g[(V \ {y}) \ {c}]
    BY <1>3, <1>5, <1>6
  <1>9. (V \ {c}) \ {y} = (V \ {y}) \ {c}
    OBVIOUS
  <1>10. g[(V \ {y}) \ {c}] \in Nat
    <2> DEFINE W == (V \ {y}) \ {c}
    <2>1. W \subseteq X
      BY <1>3
    <2> HIDE DEF W
    <2>2. g[W] \in Nat
      BY <2>1, SumsAgree
    <2> QED BY <2>2 DEF W
  <1>11. PICK a \in Nat, b \in Nat, k \in Nat :
            w[c] = a /\ w[y] = b /\ g[(V \ {y}) \ {c}] = k
    BY <1>3, <1>10
  <1>12. g[V \ {c}] = b + k /\ g[V \ {y}] = a + k
    BY <1>7, <1>8, <1>9, <1>11
  <1>13. g[V] = a + (b + k) /\ g[V] # b + (a + k)
    BY <1>2, <1>4, <1>11, <1>12
  <1> QED BY <1>13

\* There is one: at each size it extends the one below.
LEMMA SumExists ==
    ASSUME NEW w, NEW X, IsFiniteSet(X)
    PROVE  \E g : IsSum(g, w, X)
  <1> DEFINE Upto(g, n) ==
               g = [T \in SUBSET X |->
                      IF T = {} \/ Cardinality(T) > n THEN 0
                      ELSE w[Some(T)] + g[T \ {Some(T)}]]
             Bad == { n \in Nat : ~ \E g : Upto(g, n) }
  <1>0. \A T \in SUBSET X : IsFiniteSet(T) /\ Cardinality(T) \in Nat
    BY FS_Subset, FS_CardinalityType
  <1>1. Bad = {}
    <2> SUFFICES ASSUME Bad # {} PROVE FALSE
      OBVIOUS
    <2>1. PICK n \in Bad : \A m \in Bad : n <= m
      <3>1. Bad \subseteq Nat
        OBVIOUS
      <3> HIDE DEF Bad
      <3> QED BY <3>1, LeastNumber
    <2>7. n \in Nat /\ ~ \E g : Upto(g, n)
      OBVIOUS
    <2>2. n # 0
      <3>1. \A T \in SUBSET X : T = {} \/ Cardinality(T) > 0
        BY <1>0, FS_EmptySet
      <3> DEFINE z == [T \in SUBSET X |-> 0]
      <3>2. Upto(z, 0)
        BY <3>1
      <3> QED BY <2>7, <3>2
    <2>3. PICK g : Upto(g, n - 1)
      <3>1. n - 1 \in Nat /\ ~(n <= n - 1)
        BY <2>7, <2>2
      <3>2. n - 1 \notin Bad
        <4> HIDE DEF Bad
        <4> QED BY <2>1, <3>1
      <3> QED BY <3>1, <3>2
    <2> DEFINE h == [T \in SUBSET X |-> IF T = {} \/ Cardinality(T) > n THEN 0
                                        ELSE w[Some(T)] + g[T \ {Some(T)}]]
    <2>4. \A T \in SUBSET X : T # {} /\ Cardinality(T) <= n =>
             g[T \ {Some(T)}] = h[T \ {Some(T)}]
      <3> SUFFICES ASSUME NEW T \in SUBSET X, T # {}, Cardinality(T) <= n
                   PROVE  g[T \ {Some(T)}] = h[T \ {Some(T)}]
        OBVIOUS
      <3> DEFINE V == T \ {Some(T)}
      <3>1. V \in SUBSET X /\ Cardinality(V) \in Nat /\ Cardinality(V) <= n - 1
        BY SomeIsIn, Smaller
      <3> HIDE DEF V
      <3>2. g[V] = IF V = {} \/ Cardinality(V) > n - 1 THEN 0 ELSE w[Some(V)] + g[V \ {Some(V)}]
        BY <2>3, <3>1
      <3>3. h[V] = IF V = {} \/ Cardinality(V) > n THEN 0 ELSE w[Some(V)] + g[V \ {Some(V)}]
        BY <3>1
      <3>4. ~(Cardinality(V) > n - 1) /\ ~(Cardinality(V) > n)
        BY <3>1
      <3>5. g[V] = h[V]
        BY <3>2, <3>3, <3>4
      <3> QED BY <3>5 DEF V
    <2>5. h = [T \in SUBSET X |-> IF T = {} \/ Cardinality(T) > n THEN 0
                                  ELSE w[Some(T)] + h[T \ {Some(T)}]]
      <3>1. \A T \in SUBSET X : (T = {} \/ Cardinality(T) > n) \/
               w[Some(T)] + g[T \ {Some(T)}] = w[Some(T)] + h[T \ {Some(T)}]
        <4>1. \A T \in SUBSET X : Cardinality(T) > n \/ Cardinality(T) <= n
          BY <1>0, <2>7
        <4> HIDE DEF h, Bad
        <4> QED BY <2>4, <4>1
      <3>2. \A T \in SUBSET X :
               (IF T = {} \/ Cardinality(T) > n THEN 0 ELSE w[Some(T)] + g[T \ {Some(T)}])
                 = (IF T = {} \/ Cardinality(T) > n THEN 0 ELSE w[Some(T)] + h[T \ {Some(T)}])
        <4> HIDE DEF h
        <4> QED BY <3>1
      <3> QED BY <3>2, Zenon
    <2>6. Upto(h, n)
      BY <2>5, Zenon
    <2> HIDE DEF h
    <2> QED BY <2>7, <2>6
  <1> DEFINE n == Cardinality(X)
  <1>2. PICK g : Upto(g, n)
    BY <1>0, <1>1
  <1>3. \A T \in SUBSET X : ~(Cardinality(T) > n)
    BY <1>0, FS_Subset
  <1>4. IsSum(g, w, X)
    BY <1>2, <1>3 DEF IsSum
  <1> QED BY <1>4

\* The sum over a set, and over one element more.
LEMMA SumFacts ==
    ASSUME NEW U, NEW w \in [U -> Nat], NEW X, X \subseteq U, IsFiniteSet(X)
    PROVE  /\ SumOf(w, X) \in Nat
           /\ \A g : IsSum(g, w, X) => g[X] = SumOf(w, X)
           /\ \A x \in X : SumOf(w, X) = w[x] + SumOf(w, X \ {x})
  <1> DEFINE G(Y) == CHOOSE g : IsSum(g, w, Y)
  <1>1. \A Y : IsFiniteSet(Y) => IsSum(G(Y), w, Y)
    BY SumExists
  <1>2. IsSum(G(X), w, X) /\ SumOf(w, X) = G(X)[X]
    BY <1>1 DEF SumOf
  <1> HIDE DEF G
  <1>3. SumOf(w, X) \in Nat
    BY <1>2, SumsAgree
  <1>4. ASSUME NEW g, IsSum(g, w, X)
        PROVE  g[X] = SumOf(w, X)
    BY <1>2, <1>4, SumsAgree
  <1>5. ASSUME NEW x \in X
        PROVE  SumOf(w, X) = w[x] + SumOf(w, X \ {x})
    <2>1. PICK Y : Y = X \ {x}
      OBVIOUS
    <2>2. IsFiniteSet(Y) /\ Y \subseteq U /\ Y \subseteq X
      BY <2>1, FS_Subset
    <2>3. IsSum(G(Y), w, Y) /\ SumOf(w, Y) = G(Y)[Y]
      BY <1>1, <2>2 DEF SumOf, G
    <2>4. G(X)[X] = w[x] + G(X)[Y]
      BY <1>2, <2>1, SumTakes
    <2>5. G(X)[Y] = G(Y)[Y]
      BY <1>2, <2>2, <2>3, SumsAgree
    <2> QED BY <1>2, <2>1, <2>3, <2>4, <2>5
  <1> QED BY <1>3, <1>4, <1>5

\* A part of a set of Pods requests no more than the whole.
LEMMA RequestsGrow ==
    ASSUME SchedulerAssumption, NEW C, NEW D, C \subseteq D, D \subseteq Pods, NEW r \in Resources
    PROVE  /\ requested(C, r) \in Nat /\ requested(D, r) \in Nat
           /\ requested(C, r) <= requested(D, r)
  <1> DEFINE w == [p \in Pods |-> Request[p][r]]
  <1>1. w \in [Pods -> Nat]
    BY DEF SchedulerAssumption
  <1>2. \A X \in SUBSET Pods : IsFiniteSet(X)
    BY FS_Subset DEF SchedulerAssumption
  <1>3. \A p \in Pods : w[p] = Request[p][r]
    OBVIOUS
  <1> HIDE DEF w
  <1>4. ASSUME NEW X \in SUBSET Pods
        PROVE  requested(X, r) = SumOf(w, X) /\ SumOf(w, X) \in Nat
    <2> DEFINE Adds(i) == i = [T \in SUBSET X |->
                                 IF T = {} THEN 0
                                 ELSE Request[Some(T)][r] + i[T \ {Some(T)}]]
               iter == CHOOSE i : Adds(i)
    <2>1. requested(X, r) = iter[X]
      BY DEF requested, MapThenSumSet, MapThenFoldSet, Some
    <2>2. ASSUME NEW i
          PROVE  IsSum(i, w, X) <=> Adds(i)
      <3>1. ASSUME NEW T \in SUBSET X, T # {}
            PROVE  w[Some(T)] = Request[Some(T)][r]
        BY <1>3, <3>1, SomeIsIn
      <3> QED BY <3>1 DEF IsSum
    <2>3. PICK g : IsSum(g, w, X)
      BY <1>2, SumExists
    <2>4. IsSum(iter, w, X)
      <3> HIDE DEF Adds
      <3> QED BY <2>2, <2>3
    <2> HIDE DEF iter
    <2> QED BY <1>1, <1>2, <2>1, <2>4, SumFacts
  <1>5. SumOf(w, C) <= SumOf(w, D)
    <2> DEFINE Bad == { X \in SUBSET D : C \subseteq X /\ ~(SumOf(w, C) <= SumOf(w, X)) }
    <2> SUFFICES ASSUME Bad # {} PROVE FALSE
      BY <1>4
    <2>1. PICK X \in Bad : \A Y \in Bad : Cardinality(X) <= Cardinality(Y)
      <3>1. Bad \subseteq SUBSET D /\ IsFiniteSet(D)
        BY <1>2
      <3> HIDE DEF Bad
      <3> QED BY <3>1, SmallestFails
    <2>2. X \subseteq D /\ C \subseteq X /\ ~(SumOf(w, C) <= SumOf(w, X))
      OBVIOUS
    <2>3. SumOf(w, C) \in Nat
      BY <1>4
    <2>8. X # C
      BY <2>2, <2>3
    <2>4. PICK x \in X : x \notin C
      BY <2>2, <2>8
    <2>5. X \ {x} \notin Bad
      <3> HIDE DEF Bad
      <3>1. ~(Cardinality(X) <= Cardinality(X \ {x}))
        BY <1>2, <2>2, Smaller
      <3> QED BY <2>1, <3>1
    <2>6. SumOf(w, C) <= SumOf(w, X \ {x})
      BY <2>2, <2>4, <2>5
    <2>7. SumOf(w, X) = w[x] + SumOf(w, X \ {x}) /\ SumOf(w, X \ {x}) \in Nat /\ w[x] \in Nat
      BY <1>1, <1>2, <1>4, <2>2, SumFacts
    <2> QED BY <2>2, <2>3, <2>6, <2>7
  <1> QED BY <1>4, <1>5

-----------------------------------------------------------------------------
(* What the cycle of the only scheduler accounts for.                      *)

\* The cycle knows where x is: a user has not assigned it since the list.
Counts(c, p, x) == x.direct => \E y \in c.seen[p] : y.uid = x.uid /\ y.node # 0

\* What a cycle has on a Node, by its list and its own bindings, is what is
\* there, but for the Pods that users have assigned or ended meanwhile.
Accounts(c, P) ==
    c.pc \in {"place", "confirm", "report"} =>
        \A p \in Pods : \A x \in P[p] :
            /\ \A y \in c.seen[p] : y.uid = x.uid /\ y.node # 0 => x.node = y.node
            /\ x.node # 0 /\ ~x.terminal /\ Counts(c, p, x) =>
                  \E y \in c.seen[p] : y.uid = x.uid /\ y.node = x.node /\ ~y.terminal

\* Nobody but a user assigns a Pod.
Directed(P, P2) ==
    \A p \in Pods : \A o \in P[p], q \in P2[p] :
        q.uid = o.uid /\ o.node = 0 /\ q.node # 0 => q.direct

LEMMA AccountsKept ==
    ASSUME NEW P, Typed(P), NEW P2, Typed(P2), NEW e \in Nat, NEW e2,
           Advances(P, P2, e, e2), Directed(P, P2), NEW c, Good(c, P, e), Accounts(c, P)
    PROVE  Accounts(c, P2)
  <1> SUFFICES ASSUME c.pc \in {"place", "confirm", "report"}, NEW p \in Pods, NEW q \in P2[p]
               PROVE  /\ \A y \in c.seen[p] : y.uid = q.uid /\ y.node # 0 => q.node = y.node
                      /\ q.node # 0 /\ ~q.terminal /\ Counts(c, p, q) =>
                            \E y \in c.seen[p] : y.uid = q.uid /\ y.node = q.node /\ ~y.terminal
    BY DEF Accounts
  <1>1. /\ \A y \in c.seen[p] : y \in Object /\ y.uid <= e
        /\ q \in Object /\ \A o \in P[p] : o \in Object
    BY DEF Good, Formed, Relies, Cycle, Typed
  <1>2. ASSUME NEW o \in P[p]
        PROVE  /\ \A y \in c.seen[p] : y.uid = o.uid /\ y.node # 0 => o.node = y.node
               /\ o.node # 0 /\ ~o.terminal /\ Counts(c, p, o) =>
                     \E y \in c.seen[p] : y.uid = o.uid /\ y.node = o.node /\ ~y.terminal
    BY DEF Accounts
  <1>3. CASE q \in P[p]
    BY <1>2, <1>3
  <1>4. ASSUME NEW o \in P[p], Advance(o, q)
        PROVE  /\ \A y \in c.seen[p] : y.uid = q.uid /\ y.node # 0 => q.node = y.node
               /\ q.node # 0 /\ ~q.terminal /\ Counts(c, p, q) =>
                     \E y \in c.seen[p] : y.uid = q.uid /\ y.node = q.node /\ ~y.terminal
    <2>1. /\ q.uid = o.uid /\ (o.node # 0 => q.node = o.node)
          /\ (o.direct => q.direct) /\ (o.terminal => q.terminal)
          /\ o.node = 0 /\ q.node # 0 => q.direct
      BY <1>4 DEF Advance, Directed
    <2>2. ASSUME NEW y \in c.seen[p], y.uid = q.uid, y.node # 0
          PROVE  q.node = y.node /\ o.node # 0
      BY <1>2, <2>1, <2>2
    <2>3. ASSUME q.node # 0, ~q.terminal, Counts(c, p, q)
          PROVE  \E y \in c.seen[p] : y.uid = q.uid /\ y.node = q.node /\ ~y.terminal
      <3>1. o.node # 0
        BY <2>1, <2>2, <2>3 DEF Counts
      <3>2. Counts(c, p, o) /\ ~o.terminal
        BY <2>1, <2>3 DEF Counts
      <3> QED BY <1>2, <2>1, <3>1, <3>2
    <2> QED BY <2>2, <2>3
  <1>5. CASE q.uid > e /\ (q.node # 0 => q.direct)
    <2>1. \A y \in c.seen[p] : y.uid # q.uid
      BY <1>1, <1>5 DEF Object
    <2> QED BY <1>5, <2>1 DEF Counts
  <1> QED BY <1>3, <1>4, <1>5 DEF Advances

\* A Pod written over without another Node, or by a user.
LEMMA DirectedWrite ==
    ASSUME NEW P, Typed(P), NEW p \in Pods, NEW o \in P[p], NEW x \in Object,
           x.node = o.node \/ x.direct,
           NEW P2, P2 = [P EXCEPT ![p] = {[x EXCEPT !.rev = @ + 1]}]
    PROVE  Directed(P, P2)
  <1> DEFINE q == [x EXCEPT !.rev = @ + 1]
  <1>1. q.node = x.node /\ q.direct = x.direct
    BY DEF Object
  <1>2. P2[p] = {q} /\ \A r \in Pods \ {p} : P2[r] = P[r]
    BY DEF Typed
  <1>3. \A r \in Pods : \A a, b \in P[r] : a = b
    BY DEF Typed
  <1> HIDE DEF q
  <1> QED BY <1>1, <1>2, <1>3 DEF Directed

LEMMA DirectedStays ==
    ASSUME NEW P, Typed(P)
    PROVE  Directed(P, P)
  BY DEF Directed, Typed

\* Only a binding of a scheduler assigns a Pod that no user has assigned.
LEMMA OnlyBindingsAssign ==
    ASSUME SchedulerAssumption, IInv, [Next]_vars,
           ~ \E s \in Schedulers, p \in Pods : Bind(s, p)
    PROVE  Directed(pod, pod')
  <1>1. Typed(pod) /\ Directed(pod, pod) /\ \A p \in Pods : \A o \in pod[p] : o \in Object
    BY DirectedStays DEF IInv, Typed
  <1>2. ASSUME NEW p \in Pods, NEW o \in pod[p], NEW x \in Object, Becomes(p, x),
               x.node = o.node \/ x.direct
        PROVE  Directed(pod, pod')
    BY <1>1, <1>2, DirectedWrite DEF Becomes
  <1>3. CASE pod' = pod
    BY <1>1, <1>3
  <1>4. ASSUME NEW p \in Pods, NEW read, NEW c \in Condition, condition(p, read, c)
        PROVE  Directed(pod, pod')
    <2>1. ASSUME NEW o \in pod[p], Becomes(p, [o EXCEPT !.cond = c])
          PROVE  Directed(pod, pod')
      <3>1. PICK x : x = [o EXCEPT !.cond = c]
        OBVIOUS
      <3>2. x \in Object /\ x.node = o.node
        BY <1>1, <3>1 DEF Object
      <3> QED BY <1>2, <2>1, <3>1, <3>2
    <2> QED BY <1>3, <1>4, <2>1 DEF condition
  <1>5. ASSUME NEW s \in Schedulers, Scheduling(s)
        PROVE  Directed(pod, pod')
    <2>1. CASE ListNodes(s) \/ ListLeases(s) \/ ListPods(s) \/ Confirm(s) \/ EndCycle(s)
      BY <1>3, <2>1 DEF ListNodes, ListLeases, ListPods, Confirm, EndCycle
    <2>2. CASE \E p \in Pods : BindRefused(s, p)
      BY <1>3, <2>2 DEF BindRefused
    <2>3. CASE \E p \in Pods : Refuse(s, p)
      <3>1. \A p : reason(p) \in Condition
        BY DEF reason, Condition, Refusals
      <3> QED BY <1>4, <2>3, <3>1 DEF Refuse
    <2>4. CASE Report(s)
      <3>1. PICK b \in sch[s].bound : condition(b[1], b[2], "Scheduled")
        BY <2>4 DEF Report
      <3>2. b[1] \in Pods /\ "Scheduled" \in Condition
        BY DEF IInv, Cycle, Condition, Positive
      <3> QED BY <1>4, <3>1, <3>2
    <2> QED BY <1>5, <2>1, <2>2, <2>3, <2>4 DEF Scheduling
  <1>6. ASSUME NEW p \in Pods, Create(p)
        PROVE  Directed(pod, pod')
    <2>1. \A r \in Pods : pod[r] = {} \/ pod'[r] = pod[r]
      BY <1>1, <1>6 DEF Create, Typed
    <2> QED BY <1>1, <2>1 DEF Directed
  <1>7. ASSUME NEW p \in Pods, Delete(p)
        PROVE  Directed(pod, pod')
    <2>1. \A r \in Pods : pod'[r] = {} \/ pod'[r] = pod[r]
      BY <1>1, <1>7 DEF Delete, Typed
    <2> QED BY <1>1, <2>1 DEF Directed
  <1>8. ASSUME NEW p \in Pods, NEW o \in pod[p], NEW n \in Nodes,
               Becomes(p, [o EXCEPT !.node = n, !.direct = TRUE])
        PROVE  Directed(pod, pod')
    <2>1. PICK x : x = [o EXCEPT !.node = n, !.direct = TRUE]
      OBVIOUS
    <2>3. o \in Object
      BY <1>1
    <2>2. x \in Object /\ x.direct
      BY <2>1, <2>3 DEF Object
    <2> QED BY <1>2, <1>8, <2>1, <2>2
  <1>9. ASSUME NEW p \in Pods, NEW o \in pod[p], Becomes(p, [o EXCEPT !.terminal = TRUE])
        PROVE  Directed(pod, pod')
    <2>1. PICK x : x = [o EXCEPT !.terminal = TRUE]
      OBVIOUS
    <2>3. o \in Object
      BY <1>1
    <2>2. x \in Object /\ x.node = o.node
      BY <2>1, <2>3 DEF Object
    <2> QED BY <1>2, <1>9, <2>1, <2>2
  <1>10. ASSUME NEW p \in Pods, NEW o \in pod[p], Becomes(p, [o EXCEPT !.cond = "KubeletObserved"])
        PROVE  Directed(pod, pod')
    <2>1. PICK x : x = [o EXCEPT !.cond = "KubeletObserved"]
      OBVIOUS
    <2>2. x \in Object /\ x.node = o.node
      BY <1>1, <2>1 DEF Object, Condition, Positive
    <2> QED BY <1>2, <1>10, <2>1, <2>2
  <1>11. CASE \E s \in Schedulers : Abandon(s) \/ \E n \in Nodes : LeaseAges(s, n)
    BY <1>3, <1>11 DEF Abandon, LeaseAges
  <1>12. CASE \E n \in Nodes : NodeChange(n) \/ LeaseChange(n)
    BY <1>3, <1>12 DEF NodeChange, LeaseChange
  <1>13. CASE \E p \in Pods : UserBind(p) \/ Touch(p) \/ Finish(p) \/ Publish(p)
    BY <1>1, <1>2, <1>8, <1>9, <1>10, <1>13 DEF UserBind, Touch, Finish, Publish
  <1>14. CASE UNCHANGED vars
    BY <1>3, <1>14 DEF vars
  <1> QED BY <1>5, <1>6, <1>7, <1>11, <1>12, <1>13, <1>14 DEF Next

\* The cycle of the only scheduler keeps its account.
LEMMA AccountsStep ==
    ASSUME SchedulerAssumption, \A s, t \in Schedulers : s = t,
           IInv, [Next]_vars, NEW s \in Schedulers, Accounts(sch[s], pod)
    PROVE  Accounts(sch'[s], pod')
  <1>1. PodsMove /\ Typed(pod) /\ Good(sch[s], pod, edits) /\ edits \in Nat
    BY NextStep DEF IInv
  <1>2. /\ Typed(pod') /\ Advances(pod, pod', edits, edits')
        /\ \A p \in Pods : \A y \in sch[s].seen[p] : y \in Object
        /\ \A p \in Pods : \A o \in pod[p] : o \in Object
        /\ sch[s] \in Cycle
    BY <1>1 DEF PodsMove, Typed, Good, Formed, Cycle
  <1>3. ASSUME Directed(pod, pod')
        PROVE  Accounts(sch[s], pod')
    BY <1>1, <1>2, <1>3, AccountsKept
  <1>4. CASE \E p \in Pods : Bind(s, p)
    <2>1. PICK p \in Pods : Bind(s, p)
      BY <1>4
    <2>2. PICK n \in Choice(s, p), o \in pod[p], listed \in sch[s].seen[p] :
            /\ bindable(o, listed)
            /\ Becomes(p, [o EXCEPT !.node = n])
            /\ To(s, Reserved(s, p, n, listed)) \/ To(s, Idle)
      BY <2>1 DEF Bind
    <2>3. n \in Nodes /\ n # 0 /\ o \in Object /\ listed \in Object
      BY <1>2, <2>2 DEF Choice, select, feasible, Cycle, SchedulerAssumption
    <2>4. PICK q : q = [[o EXCEPT !.node = n] EXCEPT !.rev = @ + 1]
      OBVIOUS
    <2>5. pod'[p] = {q} /\ \A r \in Pods \ {p} : pod'[r] = pod[r]
      BY <1>1, <2>2, <2>4 DEF Becomes, Typed
    <2>6. q.uid = listed.uid /\ q.node = n
      BY <2>2, <2>3, <2>4 DEF Object, bindable
    <2>7. PICK y : y = [listed EXCEPT !.node = n]
      OBVIOUS
    <2>8. y.uid = listed.uid /\ y.node = n /\ y.terminal = listed.terminal
      BY <2>3, <2>7 DEF Object
    <2>9. CASE To(s, Idle)
      <3>1. sch'[s].pc = "idle"
        BY <2>9 DEF To, Idle, IInv
      <3> QED BY <3>1 DEF Accounts
    <2>10. CASE To(s, Reserved(s, p, n, listed))
      <3>1. sch'[s] = Reserved(s, p, n, listed)
        BY <2>10 DEF To, IInv
      <3>2. sch'[s].seen = [sch[s].seen EXCEPT ![p] = {y}]
        BY <1>2, <2>7, <3>1 DEF Reserved, Skipped, Cycle
      <3>3. sch'[s].seen[p] = {y} /\ \A r \in Pods \ {p} : sch'[s].seen[r] = sch[s].seen[r]
        BY <1>2, <3>2 DEF Cycle
      <3>4. sch[s].pc = "place"
        BY <2>1 DEF Bind, NextCandidate
      <3>5. ~listed.terminal
        <4>1. p \in sch[s].queue
          BY <2>1 DEF Bind, NextCandidate
        <4>2. Relies(sch[s], pod, edits)
          BY <1>1 DEF Good
        <4> QED BY <2>2, <4>1, <4>2 DEF Relies
      <3>6. ASSUME NEW r \in Pods, NEW x \in pod'[r]
            PROVE  /\ \A z \in sch'[s].seen[r] : z.uid = x.uid /\ z.node # 0 => x.node = z.node
                   /\ x.node # 0 /\ ~x.terminal /\ Counts(sch'[s], r, x) =>
                         \E z \in sch'[s].seen[r] : z.uid = x.uid /\ z.node = x.node /\ ~z.terminal
        <4>1. CASE r = p
          BY <2>5, <2>6, <2>8, <3>3, <3>5, <4>1
        <4>2. CASE r # p
          BY <2>5, <3>3, <3>4, <4>2 DEF Accounts, Counts
        <4> QED BY <4>1, <4>2
      <3> QED BY <3>6 DEF Accounts
    <2> QED BY <2>2, <2>9, <2>10
  <1>5. CASE ~ \E p \in Pods : Bind(s, p)
    <2>1. Accounts(sch[s], pod')
      BY <1>3, <1>5, OnlyBindingsAssign
    <2>2. ASSUME sch'[s].pc \notin {"place", "confirm", "report"}
          PROVE  Accounts(sch'[s], pod')
      BY <2>2 DEF Accounts
    <2>3. ASSUME sch'[s].seen = sch[s].seen,
                 sch'[s].pc \in {"place", "confirm", "report"} =>
                    sch[s].pc \in {"place", "confirm", "report"}
          PROVE  Accounts(sch'[s], pod')
      BY <2>1, <2>3 DEF Accounts, Counts
    <2>4. ASSUME NEW c, To(s, c) PROVE sch'[s] = c
      BY <2>4 DEF To, IInv
    <2>5. CASE ListNodes(s) \/ EndCycle(s) \/ Abandon(s)
      <3>1. ASSUME NEW up, To(s, [Idle EXCEPT !.pc = "leases", !.nodes = up])
            PROVE  sch'[s].pc = "leases"
        BY <2>4, <3>1 DEF Idle
      <3>2. ASSUME To(s, Idle)
            PROVE  sch'[s].pc = "idle"
        BY <2>4, <3>2 DEF Idle
      <3> QED BY <2>2, <2>5, <3>1, <3>2 DEF ListNodes, EndCycle, Abandon
    <2>6. CASE ListLeases(s)
      <3>1. sch'[s].pc = "pods"
        BY <1>2, <2>4, <2>6 DEF ListLeases, Cycle
      <3> QED BY <2>2, <3>1
    <2>7. CASE ListPods(s)
      <3>1. CASE To(s, Idle)
        BY <2>2, <2>4, <3>1 DEF Idle
      <3>2. CASE To(s, [sch[s] EXCEPT !.pc = "place", !.seen = pod, !.queue = candidates(pod)])
        <4>1. PICK Q : Q = candidates(pod)
          OBVIOUS
        <4>2. sch'[s] = [sch[s] EXCEPT !.pc = "place", !.seen = pod, !.queue = Q]
          BY <2>4, <3>2, <4>1
        <4>3. sch'[s].seen = pod
          BY <1>2, <4>2 DEF Cycle
        <4>4. pod' = pod
          BY <2>7 DEF ListPods
        <4> QED BY <1>1, <4>3, <4>4 DEF Accounts, Typed
      <3> QED BY <2>7, <3>1, <3>2 DEF ListPods
    <2>8. CASE \E p \in Pods : BindRefused(s, p) \/ Refuse(s, p)
      <3>1. sch[s].pc = "place" /\ \E p \in Pods : sch'[s] = Skipped(s, p)
        BY <2>4, <2>8 DEF BindRefused, Refuse, NextCandidate
      <3>2. sch'[s].seen = sch[s].seen
        BY <1>2, <3>1 DEF Skipped, Cycle
      <3> QED BY <2>3, <3>1, <3>2
    <2>9. CASE Confirm(s)
      <3>1. PICK pc, B : sch'[s] = [sch[s] EXCEPT !.pc = pc, !.bound = B]
        <4>1. PICK b \in sch[s].bound :
                 To(s, [sch[s] EXCEPT
                          !.pc = IF { o \in pod[b[1]] : o.uid = b[2].uid } = {} THEN "place" ELSE "report",
                          !.bound = {b[1]} \X { o \in pod[b[1]] : o.uid = b[2].uid }])
          BY <2>9 DEF Confirm
        <4> QED BY <2>4, <4>1
      <3>2. sch'[s].seen = sch[s].seen
        BY <1>2, <3>1 DEF Cycle
      <3>3. sch[s].pc = "confirm"
        BY <2>9 DEF Confirm
      <3> QED BY <2>3, <3>2, <3>3
    <2>10. CASE Report(s)
      <3>1. /\ sch[s].pc = "report"
            /\ sch'[s] = [sch[s] EXCEPT !.pc = "place", !.bound = {}]
        BY <2>4, <2>10 DEF Report
      <3>2. sch'[s].seen = sch[s].seen
        BY <1>2, <3>1 DEF Cycle
      <3> QED BY <2>3, <3>1, <3>2
    <2>11. CASE \E n \in Nodes : LeaseAges(s, n)
      <3>1. \E n \in Nodes : sch'[s] = [sch[s] EXCEPT !.leases = @ \ {n}]
        BY <2>4, <2>11 DEF LeaseAges
      <3>2. sch'[s].seen = sch[s].seen /\ sch'[s].pc = sch[s].pc
        BY <1>2, <3>1 DEF Cycle
      <3> QED BY <2>3, <3>2
    <2>12. CASE sch' = sch
      BY <2>3, <2>12
    <2>13. \/ \E t \in Schedulers : Scheduling(t) \/ Abandon(t) \/ \E n \in Nodes : LeaseAges(t, n)
           \/ sch' = sch
      BY DEF Next, Create, UserBind, Delete, Touch, Finish, Publish, NodeChange, LeaseChange, vars
    <2>14. \/ Scheduling(s) \/ Abandon(s) \/ \E n \in Nodes : LeaseAges(s, n)
           \/ sch' = sch
      BY <2>13
    <2> QED BY <1>5, <2>5, <2>6, <2>7, <2>8, <2>9, <2>10, <2>11, <2>12, <2>14 DEF Scheduling
  <1> QED BY <1>4, <1>5

\* What fits by the account fits.
LEMMA BindingFits ==
    ASSUME SchedulerAssumption, IInv, NEW s \in Schedulers, Accounts(sch[s], pod),
           NEW p \in Pods, Bind(s, p), NEW o \in pod'[p]
    PROVE  Fits({ q \in On(pod', o.node) : \A x \in pod[q] :
                     x.direct => \E y \in sch[s].seen[q] : y.uid = x.uid /\ y.node # 0 }, o.node)
  <1>1. PICK n \in Choice(s, p), a \in pod[p] : Becomes(p, [a EXCEPT !.node = n])
    BY DEF Bind
  <1>2. sch[s] \in Cycle /\ Typed(pod)
    BY DEF IInv
  <1>3. /\ n \in Nodes /\ a \in Object
        /\ n \in feasible(sch[s].seen, sch[s].nodes \cap sch[s].leases, p)
    BY <1>1, <1>2 DEF Choice, select, feasible, Cycle, Typed
  <1>4. PICK x : x = [a EXCEPT !.node = n]
    OBVIOUS
  <1>5. pod' = [pod EXCEPT ![p] = {[x EXCEPT !.rev = @ + 1]}]
    BY <1>1, <1>4 DEF Becomes
  <1>6. pod'[p] = {[x EXCEPT !.rev = @ + 1]} /\ \A q \in Pods \ {p} : pod'[q] = pod[q]
    BY <1>2, <1>5 DEF Typed
  <1>7. o.node = n
    <2>1. x.node = n /\ x \in Object
      BY <1>3, <1>4 DEF Object
    <2> QED BY <1>6, <2>1 DEF Object
  <1>8. sch[s].pc = "place"
    BY DEF Bind, NextCandidate
  <1> DEFINE C == { q \in On(pod', n) : \A z \in pod[q] :
                       z.direct => \E y \in sch[s].seen[q] : y.uid = z.uid /\ y.node # 0 }
             D == On(sch[s].seen, n) \cup {p}
  <1>9. C \subseteq D /\ D \subseteq Pods
    <2>1. ASSUME NEW q \in C, q # p
          PROVE  q \in On(sch[s].seen, n)
      <3>1. q \in Pods /\ q \in On(pod', n)
        BY <2>1 DEF On
      <3>2. PICK z \in pod[q] : z.node = n /\ ~z.terminal
        BY <1>6, <2>1, <3>1 DEF On
      <3>3. Counts(sch[s], q, z)
        BY <2>1 DEF Counts
      <3>4. n # 0
        BY <1>3 DEF SchedulerAssumption
      <3>5. \E y \in sch[s].seen[q] : y.uid = z.uid /\ y.node = n /\ ~y.terminal
        BY <1>8, <3>1, <3>2, <3>3, <3>4 DEF Accounts
      <3> QED BY <3>1, <3>5 DEF On
    <2> QED BY <2>1 DEF On
  <1>10. \A r \in Resources : requested(D, r) <= Capacity[n][r]
    BY <1>3 DEF feasible, Fits
  <1> HIDE DEF C, D
  <1>11. ASSUME NEW r \in Resources
         PROVE  requested(C, r) <= Capacity[n][r]
    <2>1. /\ requested(C, r) \in Nat /\ requested(D, r) \in Nat
          /\ requested(C, r) <= requested(D, r)
      BY <1>9, RequestsGrow
    <2>2. n \in Nodes
      BY <1>3
    <2>3. Capacity \in [Nodes -> [Resources -> Nat]]
      BY DEF SchedulerAssumption
    <2>4. Capacity[n][r] \in Nat
      <3>1. Capacity[n] \in [Resources -> Nat]
        BY <2>2, <2>3
      <3> QED BY <3>1
    <2>5. requested(D, r) <= Capacity[n][r]
      BY <1>10, <1>11
    <2> QED BY <2>1, <2>4, <2>5
  <1>12. Fits(C, n)
    BY <1>11 DEF Fits
  <1> QED BY <1>7, <1>12 DEF C

-----------------------------------------------------------------------------
(* Theorems.                                                               *)

\* Objects, snapshots and cycles keep their types, whatever the interleaving:
\* one object per name and one Pod to report per scheduler.
THEOREM TypeCorrect == Spec => []TypeOK
  <1>1. IInv => TypeOK
    BY DEF IInv, Typed, Good, Formed, TypeOK
  <1> QED BY <1>1, Invariance, PTL

\* No Pod object is ever moved from one Node to another, by any number of
\* schedulers and users that bind it (the precondition of bind in write.rs).
THEOREM AssignedOnceCorrect == Spec => AssignedOnce
  <1>1. IInv /\ [Next]_vars =>
          [\A p \in Pods : \A o \in pod[p], q \in pod'[p] :
             o.uid = q.uid /\ o.node # 0 => q.node = o.node]_vars
    <2> SUFFICES ASSUME IInv, [Next]_vars, NEW p \in Pods, NEW o \in pod[p], NEW q \in pod'[p],
                        o.uid = q.uid, o.node # 0
                 PROVE  q.node = o.node
      OBVIOUS
    <2>1. PodsMove
      BY SchedulerAssumption, NextStep
    <2>2. o \in Object /\ o.uid <= edits /\ edits \in Nat
      BY SchedulerAssumption DEF IInv, Typed, Honest
    <2>3. CASE q \in pod[p]
      BY <2>3 DEF IInv, Typed
    <2>4. CASE \E x \in pod[p] : Advance(x, q)
      BY <2>4 DEF IInv, Typed, Advance
    <2>5. CASE q.uid > edits
      BY <2>2, <2>5 DEF Object
    <2> QED BY <2>1, <2>3, <2>4, <2>5 DEF PodsMove, Advances
  <1> QED BY <1>1, Invariance, PTL DEF Spec, AssignedOnce

\* PodScheduled is True of assigned Pods only and stays True: a refusal of a
\* Pod that has been bound since it was listed is not written (lib.rs, the
\* resource version the scheduler sends with a status).
THEOREM ConditionCorrect == Spec => ConditionFollowsBinding
  <1>1. IInv /\ [Next]_vars =>
          [\A p \in Pods : \A q \in pod'[p] :
             /\ q.cond \in Positive => q.node # 0
             /\ \A o \in pod[p] : o.uid = q.uid /\ o.cond \in Positive => q.cond \in Positive]_vars
    <2> SUFFICES ASSUME IInv, [Next]_vars, NEW p \in Pods, NEW q \in pod'[p]
                 PROVE  /\ q.cond \in Positive => q.node # 0
                        /\ \A o \in pod[p] : o.uid = q.uid /\ o.cond \in Positive => q.cond \in Positive
      OBVIOUS
    <2>1. PodsMove /\ IInv'
      BY SchedulerAssumption, NextStep
    <2>2. q.cond \in Positive => q.node # 0
      BY <2>1 DEF IInv, Honest
    <2>3. ASSUME NEW o \in pod[p], o.uid = q.uid, o.cond \in Positive
          PROVE  q.cond \in Positive
      <3>1. o \in Object /\ o.uid <= edits /\ edits \in Nat
        BY SchedulerAssumption DEF IInv, Typed, Honest
      <3>2. CASE q \in pod[p]
        BY <2>3, <3>2 DEF IInv, Typed
      <3>3. CASE \E x \in pod[p] : Advance(x, q)
        BY <2>3, <3>3 DEF IInv, Typed, Advance
      <3>4. CASE q.uid > edits
        BY <2>3, <3>1, <3>4 DEF Object
      <3> QED BY <2>1, <3>2, <3>3, <3>4 DEF PodsMove, Advances
    <2> QED BY <2>2, <2>3
  <1> QED BY <1>1, Invariance, PTL DEF Spec, ConditionFollowsBinding

\* No binding of the only scheduler overfills a Node, whatever was bound in
\* this cycle, in cycles whose answers were lost and before restarts, and
\* whatever Pods have ended, gone or come again under their names (lib.rs:129).
THEOREM NoOvercommitCorrect ==
    ASSUME \A s, t \in Schedulers : s = t
    PROVE  Spec => NoOvercommit
  <1> DEFINE Accounted == \A s \in Schedulers : Accounts(sch[s], pod)
  <1>1. Init => Accounted
    BY DEF Init, Accounts, Idle
  <1>2. IInv /\ Accounted /\ [Next]_vars => Accounted'
    BY SchedulerAssumption, AccountsStep
  <1>3. IInv /\ Accounted /\ [Next]_vars =>
          [\A s \in Schedulers, p \in Pods : Bind(s, p) =>
             \A o \in pod'[p] :
                Fits({ q \in On(pod', o.node) : \A x \in pod[q] :
                     x.direct => \E y \in sch[s].seen[q] : y.uid = x.uid /\ y.node # 0 }, o.node)]_vars
    BY SchedulerAssumption, BindingFits
  <1> QED BY <1>1, <1>2, <1>3, Invariance, PTL DEF Spec, NoOvercommit
=============================================================================
