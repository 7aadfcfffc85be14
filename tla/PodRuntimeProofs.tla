-------------------------- MODULE PodRuntimeProofs --------------------------
(***************************************************************************)
(* Proofs for PodRuntime, for any Pods, thresholds and number of failures: *)
(* a Pod runs once and on its volume, Ready is only published of what      *)
(* passed its probe, and neither a count of restarts nor a container that  *)
(* ended for good is taken back.                                           *)
(*                                                                         *)
(* The argument.  A Pod has at most one sandbox, since run makes one only  *)
(* where the listing the sweep holds has none that is left (Seen, AtBox).  *)
(* In a sandbox only the last container runs: stop and the check of        *)
(* should_restart come before create (AtCtr, Superseded).  A sandbox that  *)
(* may still be used holds a container with at least the published count   *)
(* of restarts, until the Pod is terminating or gone (Counted).            *)
(*                                                                         *)
(* Most steps make no sandbox and no container and start none (Winds): for *)
(* those the runtime's part of the invariant is proved once.               *)
(***************************************************************************)
EXTENDS PodRuntime, FiniteSetTheorems, TLAPS

\* Types of what the model keeps in memory: readiness entries and the sweep.
Reading == [id : Nat, success : Nat, failure : Nat, ready : BOOLEAN]
Agent == [pc : Steps, todo : SUBSET Pod, pod : SUBSET Pod, desired : SUBSET Uids,
          seen : SUBSET Box, doomed : SUBSET Box, box : Nat, want : Nat, cur : Nat,
          obs : {"created", "running", "done", "failed"}, ready : BOOLEAN, live : SUBSET Nat]

\* Where the sweep is at a Pod; where it knows its sandbox, and its container.
Between == {"idle", "boxes", "next", "orphans", "dirs"}
InBox == {"run", "look", "env", "pull", "stop", "create", "start", "status", "reclaim",
          "probe", "publish"}
InCtr == InBox \ {"run", "look"}

\* What the types say of every variable, and that a sweep at a Pod holds one.
Typed ==
    /\ spec \in Specs /\ api \in [Names -> SUBSET Pod] /\ conf \in Nat
    /\ cri \in [boxes : SUBSET Box, ctrs : SUBSET Ctr, next : Ids]
    /\ vol \in [Uids -> Volume] /\ agent \in Agent /\ events \in 0..MaxEvents
    /\ probes \subseteq Reading
    /\ IF agent.pc \in Between THEN agent.pod = {} ELSE \E p \in Pod : agent.pod = {p}

\* Uids are used once.
Used == 1..(events + Cardinality(Names))
Identified ==
    /\ \A n \in Names : \A p \in api[n] : p.name = n /\ p.uid \in Used
    /\ \A m, n \in Names : \A p \in api[m], q \in api[n] : m = n \/ p.uid = q.uid => p = q

\* A Pod has one sandbox.
Boxed ==
    /\ \A b \in cri.boxes : b.id < cri.next /\ b.uid \in Used
    /\ \A a, b \in cri.boxes : a.id = b.id \/ a.uid = b.uid => a = b
    /\ \A c \in cri.ctrs : c.id < cri.next /\ \E b \in cri.boxes : b.id = c.box /\ b.uid = c.uid
    /\ \A c, d \in cri.ctrs : c.id = d.id => c = d

\* A container that has ended for good, under the restart policy.
Over(c) == \/ c.st = "done" /\ spec.policy # "Always"
           \/ c.st = "failed" /\ spec.policy = "Never"

\* Only the last container of a sandbox runs.
Superseded ==
    \A c, d \in cri.ctrs : c.box = d.box /\ c.id < d.id =>
        /\ c.n < d.n /\ c.st # "running" /\ c.hash <= d.hash
        /\ c.hash = d.hash => c.st \in Exited /\ ~Over(c)

\* ..data names one complete generation, wherever a container runs.
Projected ==
    \A u \in Uids :
        /\ vol[u].data \subseteq vol[u].gens
        /\ \A g, h \in vol[u].data : g.whole /\ g = h
        /\ (\E c \in cri.ctrs : c.uid = u /\ c.st = "running") => vol[u].mounted /\ vol[u].data # {}

\* The Pods the sweep has still to do or is at: what it read of them is old,
\* but for their status, which only the sweep itself writes.
Open == agent.todo \cup agent.pod
Listing ==
    /\ agent.todo \cap agent.pod = {}
    /\ \A p \in Open : p.uid \in Used \cap agent.desired
    /\ \A p, q \in Open : p.uid = q.uid => p = q
    /\ \A p \in Open, n \in Names : \A q \in api[n] : p.uid = q.uid =>
          /\ p.name = n /\ p.status = q.status /\ p.hash <= q.hash
          /\ p.terminating => q.terminating
    /\ \A n \in Names : \A p \in api[n], c \in cri.ctrs : c.uid = p.uid => c.hash <= p.hash
    /\ \A p \in Open, c \in cri.ctrs : c.uid = p.uid => c.hash <= p.hash
    /\ agent.pc # "idle" =>
          \A b \in cri.boxes, n \in Names : \A q \in api[n] : b.uid = q.uid => b.uid \in agent.desired

\* The sandboxes as listed: those of a Pod whose sandbox the sweep has yet to
\* choose are all among them.
Awaiting == agent.todo \cup (IF agent.pc \in {"prepare", "project"} THEN agent.pod ELSE {})
Seen ==
    /\ \A x \in agent.seen : x.id < cri.next
    /\ \A x, y \in agent.seen : x.uid = y.uid => x = y
    /\ \A x \in agent.seen, b \in cri.boxes :
          x.id = b.id => x.uid = b.uid /\ (b.ready => x.ready)
    /\ agent.pc \notin {"idle", "boxes"} =>
          \A p \in Awaiting, b \in cri.boxes : b.uid = p.uid => \E x \in agent.seen : x.id = b.id
    /\ agent.doomed \subseteq agent.seen
    /\ agent.pc \in {"idle", "boxes"} => agent.seen = {}

\* What the sweep knows of the Pod it is at, of its volume and its sandbox.
AtBox ==
    /\ agent.pc = "orphans" => \A x \in agent.doomed : x.uid \notin agent.desired
    /\ \A p \in agent.pod :
          /\ p.terminating <=> agent.pc \in {"terminate", "erase"}
          /\ agent.pc = "terminate" => \A x \in agent.doomed : x.uid = p.uid
          /\ agent.pc = "project" => vol[p.uid].mounted
          /\ agent.pc = "stale" =>
                /\ \A x \in agent.doomed : ~x.ready /\ x.uid = p.uid /\ x.id # agent.box
                /\ \A b \in cri.boxes : b.uid = p.uid =>
                      b.id = agent.box \/ \E x \in agent.doomed : x.id = b.id
          /\ agent.pc \in InBox => \A b \in cri.boxes : b.uid = p.uid => b.id = agent.box
          /\ agent.pc \in InBox \cup {"stale"} =>
                /\ agent.box < cri.next
                /\ \A b \in cri.boxes : b.id = agent.box => b.uid = p.uid
                /\ vol[p.uid].mounted /\ vol[p.uid].data # {}

\* From look on it is at the last container of the sandbox, or there is none.
Last(c) == c.box = agent.box /\ \A d \in cri.ctrs : d.box = c.box => d.id <= c.id
AtCtr ==
    /\ agent.pc \notin InCtr \cup {"error"} => agent.cur = 0
    /\ agent.pc \in {"stop", "start", "status", "reclaim", "probe", "publish"} => agent.cur # 0
    /\ agent.pc \in InCtr /\ agent.cur = 0 => \A c \in cri.ctrs : c.box # agent.box
    /\ agent.pc \in InCtr /\ agent.cur # 0 => \E c \in cri.ctrs : c.id = agent.cur /\ Last(c)
    /\ agent.pc \in {"env", "pull", "stop", "create"} =>
          \A p \in agent.pod, c \in cri.ctrs :
             c.id = agent.cur /\ c.hash = p.hash => c.st \in Exited /\ ~Over(c)
    /\ agent.pc = "create" => \A c \in cri.ctrs : c.id = agent.cur => c.st # "running"

\* A sandbox the agent may still use: it is or was ready.
Usable(b) == b.ready \/ b.id = agent.box \/ \E x \in agent.seen : x.id = b.id /\ x.ready
\* It holds no less than the count of restarts that was published.
Counted ==
    \A n \in Names : \A q \in api[n], b \in cri.boxes, c \in cri.ctrs :
        /\ ~q.terminating /\ b.uid = q.uid /\ Usable(b) /\ c.box = b.id
        /\ \A d \in cri.ctrs : d.box = b.id => d.id <= c.id
        => c.n >= q.status.restarts

\* An entry in memory is ready only of a container that passed, and so is what
\* the sweep is about to publish.
Probed ==
    /\ ReadyWasProbed
    /\ \A e \in probes : e.ready => e.id \in passed
    /\ agent.pc = "publish" /\ agent.ready /\ spec.probe => agent.cur \in passed

World == Identified /\ Boxed /\ Superseded /\ Projected
AgentInv == Listing /\ Seen /\ AtBox /\ AtCtr
IInv == Typed /\ World /\ AgentInv /\ Counted

-----------------------------------------------------------------------------
(* Types.                                                                  *)

LEMMA Constants ==
    /\ Uids \subseteq Nat \ {0} /\ Cardinality(Names) \in Nat
    /\ NoVolume \in Volume /\ Idle \in Agent /\ Unreported \in Status
    /\ Idle.pc = "idle" /\ Idle.pod = {} /\ Idle.todo = {}
  <1>1. Cardinality(Names) \in Nat /\ MaxEvents \in Nat
    BY PodRuntimeAssumption, FS_CardinalityType
  <1>2. NoVolume \in Volume /\ Unreported \in Status
    BY DEF NoVolume, Volume, Unreported, Status
  <1>3. Idle \in Agent /\ Idle.pc = "idle" /\ Idle.pod = {} /\ Idle.todo = {}
    BY DEF Idle, Agent, Steps
  <1> QED BY <1>1, <1>2, <1>3 DEF Uids

\* The Pod the sweep is at.
LEMMA AtPod ==
    ASSUME Typed, agent.pc \notin Between
    PROVE  agent.pod = {Mine} /\ Mine \in Pod
  BY DEF Typed, Mine, ThePod

\* The sweep is at rest, goes on to the next Pod or reports a failure.
LEMMA Resting ==
    ASSUME Typed, agent' = Idle
    PROVE  agent' \in Agent /\ agent'.pc \in Between /\ agent'.pod = {}
  BY Constants DEF Between

LEMMA GoingOn ==
    ASSUME Typed, agent' = Onward
    PROVE  /\ agent' \in Agent /\ agent'.pc \in Between /\ agent'.pod = {}
           /\ agent' = [pc |-> "next", todo |-> agent.todo, pod |-> {}, desired |-> agent.desired,
                  seen |-> agent.seen, doomed |-> {}, box |-> 0, want |-> 0, cur |-> 0,
                  obs |-> "created", ready |-> FALSE, live |-> agent.live]
  <1>1. agent' = [pc |-> "next", todo |-> agent.todo, pod |-> {}, desired |-> agent.desired,
                  seen |-> agent.seen, doomed |-> {}, box |-> 0, want |-> 0, cur |-> 0,
                  obs |-> "created", ready |-> FALSE, live |-> agent.live]
    BY DEF Onward, Idle
  <1> QED BY <1>1 DEF Typed, Agent, Steps, Between

LEMMA Failing ==
    ASSUME Typed, agent' = Failed
    PROVE  /\ agent' \in Agent
           /\ IF agent'.pc \in Between THEN agent'.pod = {} ELSE \E p \in Pod : agent'.pod = {p}
  <1>1. CASE agent.pc \in SyncSteps
    <2>1. agent' = [agent EXCEPT !.pc = "error"]
      BY <1>1 DEF Failed
    <2>2. agent' \in Agent /\ agent'.pod = agent.pod /\ agent'.pc = "error"
      BY <2>1 DEF Typed, Agent, Steps
    <2> QED BY <1>1, <2>2 DEF Typed, SyncSteps, Between
  <1>2. CASE agent.pc \notin SyncSteps
    BY <1>2, Resting DEF Failed
  <1> QED BY <1>1, <1>2

\* The parts of Typed that concern the runtime and the Pod of the sweep.
CriType == [boxes : SUBSET Box, ctrs : SUBSET Ctr, next : Ids]
PodFits == IF agent.pc \in Between THEN agent.pod = {} ELSE \E p \in Pod : agent.pod = {p}

LEMMA StopType ==
    ASSUME Typed, NEW c \in cri.ctrs
    PROVE  StopCtr(c) \in CriType /\ DropCtr(c) \in CriType
  <1>1. [c EXCEPT !.st = "failed", !.due = FALSE] \in Ctr
    BY DEF Typed, Ctr
  <1> QED BY <1>1 DEF Typed, CriType, StopCtr, DropCtr

LEMMA RemovalType ==
    ASSUME Typed, NEW b
    PROVE  removal(b) \in CriType
  <1>1. CASE CtrsOf(b.id) # {}
    <2> DEFINE c == CHOOSE c \in CtrsOf(b.id) : TRUE
    <2>1. c \in cri.ctrs
      BY <1>1 DEF CtrsOf
    <2>2. removal(b) = IF c.st = "running" THEN StopCtr(c) ELSE DropCtr(c)
      BY <1>1 DEF removal
    <2> QED BY <2>1, <2>2, StopType
  <1>2. CASE CtrsOf(b.id) = {}
    <2> DEFINE M == {[x EXCEPT !.ready = FALSE] : x \in {y \in cri.boxes : y.id = b.id /\ y.ready}}
               B == {x \in cri.boxes : x.id # b.id} \cup M
    <2>1. \A x \in Box : [x EXCEPT !.ready = FALSE] \in Box
      BY DEF Box
    <2>2. B \subseteq Box
      BY <2>1 DEF Typed
    <2>3. removal(b) = [cri EXCEPT !.boxes = B]
      BY <1>2 DEF removal
    <2> QED BY <2>2, <2>3 DEF Typed, CriType
  <1> QED BY <1>1, <1>2

LEMMA PodKept ==
    ASSUME Typed, agent'.pod = agent.pod, agent'.pc \notin Between, agent.pc \notin Between
    PROVE  PodFits'
  BY DEF Typed, PodFits

\* A call's effect has its type, so has what follows it.
LEMMA RpcTyped ==
    ASSUME Typed, NEW changed \in CriType, NEW done, Rpc(changed, done), spec' = spec,
           agent' = done => agent' \in Agent /\ PodFits'
    PROVE  Typed'
  <1>1. cri' \in CriType
    BY DEF Rpc, Typed, CriType
  <1>2. agent' \in Agent /\ PodFits'
    BY Failing DEF Rpc, PodFits
  <1>3. events' \in 0..MaxEvents
    BY PodRuntimeAssumption DEF Rpc, Typed, Spend
  <1> QED BY <1>1, <1>2, <1>3 DEF Rpc, Typed, CriType, PodFits

LEMMA LocalTyped ==
    ASSUME Typed, NEW done, Local(done), spec' = spec, agent' \in Agent /\ PodFits'
    PROVE  Typed'
  BY DEF Local, Typed, PodFits

LEMMA RemovalTyped ==
    ASSUME Typed, NEW done, Removal(done), spec' = spec, agent.pc \in Steps,
           agent' = done => agent' \in Agent /\ PodFits'
    PROVE  Typed'
  <1>1. CASE agent.doomed = {}
    BY <1>1, LocalTyped DEF Removal, Local
  <1>2. ASSUME NEW b \in agent.doomed,
               Rpc(removal(b), IF \E x \in removal(b).boxes : x.id = b.id THEN agent
                               ELSE [agent EXCEPT !.doomed = @ \ {b}])
        PROVE  Typed'
    <2>1. removal(b) \in CriType
      BY RemovalType
    <2>2. agent \in Agent /\ [agent EXCEPT !.doomed = @ \ {b}] \in Agent
      BY DEF Typed, Agent
    <2>3. agent' = agent \/ agent' = [agent EXCEPT !.doomed = @ \ {b}] =>
             agent'.pod = agent.pod /\ agent'.pc = agent.pc
      BY DEF Typed, Agent
    <2>4. agent' = agent \/ agent' = [agent EXCEPT !.doomed = @ \ {b}] => agent' \in Agent /\ PodFits'
      BY <2>2, <2>3 DEF PodFits, Typed
    <2> DEFINE r == removal(b)
               done2 == IF \E x \in r.boxes : x.id = b.id THEN agent
                        ELSE [agent EXCEPT !.doomed = @ \ {b}]
    <2>5. agent' = done2 => agent' \in Agent /\ PodFits'
      BY <2>4
    <2>6. Rpc(r, done2)
      BY <1>2
    <2> HIDE DEF r, done2
    <2> QED BY <2>1, <2>5, <2>6, RpcTyped DEF r
  <1> QED BY <1>1, <1>2 DEF Removal

LEMMA VolumesTyped ==
    ASSUME Typed, NEW u \in Uids
    PROVE  /\ [NoVolume EXCEPT !.dir = TRUE] \in Volume
           /\ [NoVolume EXCEPT !.dir = TRUE, !.mounted = TRUE] \in Volume
           /\ \A w \in Volume : [vol EXCEPT ![u] = w] \in [Uids -> Volume]
           /\ [x \in Uids |-> [NoVolume EXCEPT !.dir = vol[x].dir]] \in [Uids -> Volume]
  BY DEF Typed, Volume, NoVolume

LEMMA ProjectionTyped ==
    ASSUME NEW v \in Volume, NEW want \in Nat
    PROVE  projection(v, want) \in Volume
  <1> DEFINE part == [v |-> want, whole |-> FALSE]
             full == [v |-> want, whole |-> TRUE]
  <1>1. part \in Generation /\ full \in Generation
    BY DEF Generation
  <1> HIDE DEF part, full
  <1>2. /\ [v EXCEPT !.gens = {full}] \in Volume
        /\ [v EXCEPT !.data = {full}] \in Volume
        /\ [v EXCEPT !.gens = (@ \ {part}) \cup {full}] \in Volume
        /\ [v EXCEPT !.gens = @ \cup {part}] \in Volume
    BY <1>1 DEF Volume
  <1> QED BY <1>2 DEF projection, part, full

LEMMA ErasureTyped ==
    ASSUME Typed, NEW U \in SUBSET Uids, NEW done, Erasure(U, done), spec' = spec,
           agent' = done => agent' \in Agent /\ PodFits'
    PROVE  Typed'
  <1> DEFINE left == {u \in U : vol[u] # NoVolume}
  <1>1. CASE left = {}
    BY <1>1, LocalTyped DEF Erasure, Local
  <1>2. ASSUME NEW u \in left,
               vol[u].mounted /\ \E c \in cri.ctrs : c.uid = u /\ c.st = "running", Local(Idle)
        PROVE  Typed'
    BY <1>2, LocalTyped, Resting DEF Local, PodFits
  <1>3. ASSUME NEW u \in left,
               vol' = [vol EXCEPT ![u] = IF @.mounted THEN [NoVolume EXCEPT !.dir = TRUE]
                                             ELSE NoVolume],
               UNCHANGED <<api, conf, cri, agent, probes, passed, events>>
        PROVE  Typed'
    <2>1. vol' \in [Uids -> Volume]
      BY <1>3, VolumesTyped, Constants
    <2> QED BY <1>3, <2>1 DEF Typed
  <1> QED BY <1>1, <1>2, <1>3 DEF Erasure

LEMMA CountedTyped ==
    ASSUME NEW e \in Reading, NEW ok \in BOOLEAN
    PROVE  counted(e, ok) \in Reading
  <1>1. \A k \in Nat, m \in Nat : Bounded(k, m) \in Nat
    BY DEF Bounded
  <1> QED BY <1>1, PodRuntimeAssumption DEF counted, Reading

LEMMA EntryTyped ==
    ASSUME Typed, NEW id \in Nat
    PROVE  Entry(id) \in Reading /\ Entry(id).id = id
  BY DEF Typed, Entry, Reading

LEMMA StatusTyped ==
    ASSUME Typed, agent.pc \notin Between, NEW status \in Status, Put(status), spec' = spec
    PROVE  Typed'
  <1> DEFINE p == Mine
             put == [api EXCEPT ![p.name] = IF @ = {p} THEN {[p EXCEPT !.status = status]} ELSE @]
  <1>1. p \in Pod /\ agent.pod = {p}
    BY AtPod
  <1>2. [p EXCEPT !.status = status] \in Pod
    BY <1>1 DEF Pod
  <1>3. put \in [Names -> SUBSET Pod]
    BY <1>1, <1>2 DEF Typed, Pod
  <1>4. api' \in {api, put}
    BY DEF Put
  <1>5. agent' = Onward \/ agent' = Idle
    BY DEF Put
  <1>6. agent' \in Agent /\ PodFits'
    BY <1>5, GoingOn, Resting DEF PodFits
  <1>7. events' \in 0..MaxEvents
    BY PodRuntimeAssumption DEF Put, Typed, Spend
  <1> QED BY <1>3, <1>4, <1>6, <1>7 DEF Put, Typed, PodFits

LEMMA TypedAgent ==
    ASSUME Typed, spec' = spec,
           \/ ReadFails \/ List \/ ListBoxes \/ NextPod \/ EndPods \/ Terminate
           \/ RemoveStale \/ RemoveOrphans \/ Erase \/ EraseOrphans \/ EndSweep
    PROVE  Typed'
  <1> USE DEF SyncSteps, Steps, Between
  <1>1. CASE ReadFails
    <2>1. events' \in 0..MaxEvents
      BY <1>1, PodRuntimeAssumption DEF ReadFails, Typed, Spend
    <2> QED BY <1>1, <2>1, Failing DEF ReadFails, Typed
  <1>2. CASE List
    <2> DEFINE P == UNION {api[n] : n \in Names}
               D == {p.uid : p \in P}
    <2>1. P \subseteq Pod
      BY DEF Typed
    <2>2. D \subseteq Uids
      BY <2>1 DEF Pod
    <2> HIDE DEF P, D
    <2>3. agent' = [Idle EXCEPT !.pc = "boxes", !.todo = P, !.desired = D]
      BY <1>2 DEF List, Local, P, D
    <2>4. agent' \in Agent /\ agent'.pc = "boxes" /\ agent'.pod = {}
      BY <2>1, <2>2, <2>3 DEF Idle, Agent
    <2> QED BY <1>2, <2>4 DEF List, Local, Typed
  <1>3. CASE ListBoxes
    <2>1. agent' \in Agent /\ agent'.pc = "next" /\ agent'.pod = agent.pod
      BY <1>3 DEF ListBoxes, Local, Typed, Agent
    <2> QED BY <1>3, <2>1 DEF ListBoxes, Local, Typed
  <1>4. CASE NextPod
    <2>1. PICK p \in agent.todo :
            LET taken == [agent EXCEPT !.todo = @ \ {p}, !.pod = {p}] IN
            IF p.terminating
            THEN Local([taken EXCEPT !.pc = "terminate", !.doomed = Own(p)])
            ELSE Local([taken EXCEPT !.pc = "prepare"])
      BY <1>4 DEF NextPod
    <2> DEFINE taken == [agent EXCEPT !.todo = @ \ {p}, !.pod = {p}]
    <2>2. p \in Pod /\ taken \in Agent /\ taken.pod = {p}
      BY DEF Typed, Agent
    <2>3. Own(p) \subseteq Box
      BY DEF Typed, Agent, Own
    <2>4. /\ [taken EXCEPT !.pc = "terminate", !.doomed = Own(p)] \in Agent
          /\ [taken EXCEPT !.pc = "terminate", !.doomed = Own(p)].pod = {p}
          /\ [taken EXCEPT !.pc = "terminate", !.doomed = Own(p)].pc = "terminate"
          /\ [taken EXCEPT !.pc = "prepare"] \in Agent
          /\ [taken EXCEPT !.pc = "prepare"].pod = {p}
          /\ [taken EXCEPT !.pc = "prepare"].pc = "prepare"
      <3> HIDE DEF taken
      <3> QED BY <2>2, <2>3 DEF Agent
    <2>5. agent' \in Agent /\ agent'.pod = {p} /\ agent'.pc \notin Between
      BY <2>1, <2>4 DEF Local
    <2> QED BY <2>1, <2>2, <2>5 DEF Local, Typed
  <1>5. CASE EndPods
    <2>1. Orphaned \subseteq Box
      BY DEF Orphaned, Typed, Agent
    <2>2. agent' \in Agent /\ agent'.pc = "orphans" /\ agent'.pod = agent.pod
      BY <1>5, <2>1 DEF EndPods, Local, Typed, Agent
    <2> QED BY <1>5, <2>2 DEF EndPods, Local, Typed
  <1>6. CASE Terminate
    <2> DEFINE done == [agent EXCEPT !.pc = "erase"]
    <2>1. agent' = done => agent' \in Agent /\ PodFits'
      BY <1>6 DEF Terminate, Typed, Agent, PodFits
    <2> HIDE DEF done
    <2> QED BY <1>6, <2>1, RemovalTyped DEF Terminate, done
  <1>7. CASE RemoveStale
    <2> DEFINE done == [agent EXCEPT !.pc = "run"]
    <2>1. agent' = done => agent' \in Agent /\ PodFits'
      BY <1>7 DEF RemoveStale, Typed, Agent, PodFits
    <2> HIDE DEF done
    <2> QED BY <1>7, <2>1, RemovalTyped DEF RemoveStale, done
  <1>8. CASE RemoveOrphans
    <2> DEFINE done == [agent EXCEPT !.pc = "dirs"]
    <2>1. agent' = done => agent' \in Agent /\ PodFits'
      BY <1>8 DEF RemoveOrphans, Typed, Agent, PodFits
    <2> HIDE DEF done
    <2> QED BY <1>8, <2>1, RemovalTyped DEF RemoveOrphans, done
  <1>9. CASE Erase
    <2>1. Mine.uid \in Uids
      BY <1>9, AtPod DEF Erase, Pod
    <2>2. agent' = Onward => agent' \in Agent /\ PodFits'
      BY GoingOn DEF PodFits
    <2> QED BY <1>9, <2>1, <2>2, ErasureTyped DEF Erase
  <1>10. CASE EraseOrphans
    <2>1. agent' = agent => agent' \in Agent /\ PodFits'
      BY DEF PodFits, Typed
    <2> QED BY <1>10, <2>1, ErasureTyped DEF EraseOrphans
  <1>11. CASE EndSweep
    <2>1. probes' \subseteq Reading
      BY <1>11 DEF EndSweep, Typed
    <2> QED BY <1>11, <2>1, Resting DEF EndSweep, Typed
  <1> QED BY <1>1, <1>2, <1>3, <1>4, <1>5, <1>6, <1>7, <1>8, <1>9, <1>10, <1>11

\* The container the sweep is at exists.
LEMMA AtContainer ==
    ASSUME Typed, Boxed, AtCtr, agent.pc \in InCtr, agent.cur # 0
    PROVE  /\ TheCtr(agent.cur) \in cri.ctrs /\ TheCtr(agent.cur).id = agent.cur
           /\ Last(TheCtr(agent.cur)) /\ TheCtr(agent.cur) \in Ctr
           /\ \A c \in cri.ctrs : c.id = agent.cur => c = TheCtr(agent.cur)
  <1>1. PICK c \in cri.ctrs : c.id = agent.cur /\ Last(c)
    BY DEF AtCtr
  <1>2. \A d \in cri.ctrs : d.id = agent.cur => d = c
    BY <1>1 DEF Boxed
  <1>3. TheCtr(agent.cur) = c
    BY <1>1, <1>2 DEF TheCtr
  <1> QED BY <1>1, <1>2, <1>3 DEF Typed

LEMMA TypedSync ==
    ASSUME Typed, Boxed, AtCtr, spec' = spec,
           \/ Prepare \/ Project \/ Run \/ Look \/ Env \/ Pull
           \/ Stop \/ Create \/ Start \/ Observe \/ Reclaim
    PROVE  Typed'
  <1> USE DEF SyncSteps, Steps, Between
  <1>p. /\ agent.pc \notin Between /\ agent.pc # "error"
        /\ Mine \in Pod /\ agent.pod = {Mine} /\ Mine.uid \in Uids
        /\ vol[Mine.uid] \in Volume /\ agent.want \in Nat
    <2>1. agent.pc \notin Between /\ agent.pc # "error"
      BY DEF Prepare, Project, Run, Look, Env, Pull, Stop, Create, Start, Observe, Reclaim
    <2> QED BY <2>1, AtPod DEF Typed, Pod, Agent
  <1>f. ASSUME Local(Failed) PROVE Typed'
    BY <1>f, Failing, LocalTyped DEF Local, PodFits
  <1>1. CASE Prepare
    <2>1. CASE ~Resolved
      BY <1>1, <1>f, <2>1 DEF Prepare
    <2>2. CASE Resolved
      <3>1. vol' \in [Uids -> Volume]
        BY <1>1, <1>p, <2>2, VolumesTyped DEF Prepare, SetVolume
      <3>2. agent' \in Agent /\ agent'.pod = agent.pod /\ agent'.pc = "project"
        <4>1. agent' = [agent EXCEPT !.pc = "project", !.want = conf]
          BY <1>1, <2>2 DEF Prepare
        <4> QED BY <4>1 DEF Typed, Agent
      <3> QED BY <1>1, <1>p, <2>2, <3>1, <3>2 DEF Prepare, SetVolume, Typed
    <2> QED BY <2>1, <2>2
  <1>2. CASE Project
    <2> DEFINE v == vol[Mine.uid]
               own == Own(Mine)
               w == projection(v, agent.want)
               box == IF Existing(own) = {} THEN 0 ELSE (CHOOSE b \in Existing(own) : TRUE).id
    <2>1. CASE w # v
      <3>1. w \in Volume
        BY <1>p, ProjectionTyped
      <3>2. vol' = [vol EXCEPT ![Mine.uid] = w] /\ UNCHANGED <<api, conf, cri, probes, passed, events, agent>>
        BY <1>2, <2>1 DEF Project, SetVolume
      <3>3. vol' \in [Uids -> Volume]
        BY <1>p, <3>1, <3>2, VolumesTyped
      <3> QED BY <3>2, <3>3 DEF Typed
    <2>2. CASE w = v
      <3>1. own \subseteq Box /\ Existing(own) \subseteq own /\ StaleBoxes(own) \subseteq own
        BY DEF Typed, Agent, Own, Existing, StaleBoxes
      <3>2. box \in Nat
        BY <3>1 DEF Box, Ids
      <3>3. Local([agent EXCEPT !.pc = "stale", !.doomed = StaleBoxes(own), !.box = box])
        BY <1>2, <2>2 DEF Project
      <3> HIDE DEF own, box, w, v
      <3>4. agent' \in Agent /\ agent'.pod = agent.pod /\ agent'.pc = "stale"
        BY <3>1, <3>2, <3>3 DEF Local, Typed, Agent
      <3> QED BY <1>p, <3>3, <3>4, LocalTyped, PodKept DEF Local
    <2> QED BY <2>1, <2>2
  <1>3. CASE Run
    <2>1. CASE agent.box # 0
      <3>1. agent' \in Agent /\ agent'.pod = agent.pod /\ agent'.pc = "look"
        BY <1>3, <2>1 DEF Run, Local, Typed, Agent
      <3> QED BY <1>3, <1>p, <2>1, <3>1, LocalTyped, PodKept DEF Run, Local
    <2>2. CASE agent.box = 0
      <3> DEFINE box == [id |-> cri.next, uid |-> Mine.uid, ready |-> TRUE]
                 changed == [cri EXCEPT !.next = @ + 1, !.boxes = @ \cup {box}]
                 done == [agent EXCEPT !.pc = "look", !.box = cri.next]
      <3>1. box \in Box
        BY <1>p DEF Box, Typed
      <3> HIDE DEF box
      <3>2. changed \in CriType
        <4>1. cri.next + 1 \in Ids /\ cri.boxes \cup {box} \subseteq Box
          BY <3>1 DEF Typed, Ids
        <4> QED BY <4>1 DEF CriType, Typed
      <3>3. agent' = done => agent' \in Agent /\ agent'.pod = agent.pod /\ agent'.pc = "look"
        <4>1. PICK n \in Nat : n = cri.next
          BY DEF Typed, Ids
        <4>2. agent \in Agent /\ done = [agent EXCEPT !.pc = "look", !.box = n]
          BY <4>1 DEF Typed
        <4> HIDE DEF done
        <4> QED BY <4>2 DEF Agent
      <3>4. Rpc(changed, done)
        BY <1>3, <2>2 DEF Run, box
      <3>5. agent' = done => agent' \in Agent /\ PodFits'
        BY <1>p, <3>3, PodKept
      <3> HIDE DEF changed, done
      <3> QED BY <3>2, <3>4, <3>5, RpcTyped
    <2> QED BY <2>1, <2>2
  <1>4. CASE Look
    <2>1. CASE Latest = {} /\ Local([agent EXCEPT !.pc = "env"])
      <3>1. agent' \in Agent /\ agent'.pod = agent.pod /\ agent'.pc = "env"
        BY <2>1 DEF Local, Typed, Agent
      <3> QED BY <1>p, <2>1, <3>1, LocalTyped, PodKept DEF Local
    <2>2. ASSUME NEW c \in Latest,
            Local([agent EXCEPT !.cur = c.id, !.obs = c.st,
                     !.pc = IF should_restart(c) /\ retry_due(c) THEN "env"
                            ELSE IF ~should_restart(c) /\ c.st = "created" THEN "start"
                            ELSE "reclaim"])
          PROVE Typed'
      <3>1. c \in Ctr
        BY DEF Latest, CtrsOf, Typed
      <3> DEFINE pc == IF should_restart(c) /\ retry_due(c) THEN "env"
                            ELSE IF ~should_restart(c) /\ c.st = "created" THEN "start"
                            ELSE "reclaim"
      <3>2. pc \in {"env", "start", "reclaim"}
        OBVIOUS
      <3> HIDE DEF pc
      <3>3. agent' = [agent EXCEPT !.cur = c.id, !.obs = c.st, !.pc = pc]
        BY <2>2 DEF Local, pc
      <3>4. agent' \in Agent /\ agent'.pod = agent.pod /\ agent'.pc = pc
        BY <3>1, <3>2, <3>3 DEF Typed, Agent, Ctr, Ids
      <3> QED BY <1>p, <2>2, <3>2, <3>4, LocalTyped, PodKept DEF Local
    <2> QED BY <1>4, <2>1, <2>2 DEF Look
  <1>5. CASE Env
    <2>1. CASE Resolved
      <3>1. agent' \in Agent /\ agent'.pod = agent.pod /\ agent'.pc = "pull"
        BY <1>5, <2>1 DEF Env, Local, Typed, Agent
      <3> QED BY <1>5, <1>p, <2>1, <3>1, LocalTyped, PodKept DEF Env, Local
    <2> QED BY <1>5, <1>f, <2>1 DEF Env
  <1>6. CASE Pull
    <2>1. agent' \in Agent /\ agent'.pod = agent.pod /\ agent'.pc \in {"create", "stop"}
      BY <1>6 DEF Pull, Local, Typed, Agent
    <2> QED BY <1>6, <1>p, <2>1, LocalTyped, PodKept DEF Pull, Local
  <1>7. CASE Stop
    <2>1. TheCtr(agent.cur) \in cri.ctrs
      BY <1>7, AtContainer DEF Stop, AtCtr, InCtr, InBox
    <2> DEFINE changed == StopCtr(TheCtr(agent.cur))
               done == [agent EXCEPT !.pc = "create"]
    <2>2. changed \in CriType
      BY <2>1, StopType
    <2>3. agent' = done => agent' \in Agent /\ agent'.pod = agent.pod /\ agent'.pc = "create"
      BY DEF Typed, Agent
    <2>4. agent' = done => agent' \in Agent /\ PodFits'
      BY <1>p, <2>3, PodKept
    <2>5. Rpc(changed, done)
      BY <1>7 DEF Stop
    <2> HIDE DEF changed, done
    <2> QED BY <2>2, <2>4, <2>5, RpcTyped
  <1>8. CASE Create
    <2>1. CASE ~BoxReady
      BY <1>8, <1>f, <2>1 DEF Create
    <2>2. CASE BoxReady
      <3> DEFINE c == [id |-> cri.next, box |-> agent.box, uid |-> Mine.uid, n |-> attempt,
                       hash |-> Mine.hash, st |-> "created", due |-> FALSE]
                 changed == [cri EXCEPT !.next = @ + 1, !.ctrs = @ \cup {c}]
                 done == [agent EXCEPT !.pc = "start", !.cur = cri.next]
      <3>1. attempt \in Nat
        <4>1. CASE agent.cur = 0
          BY <1>p, <4>1 DEF attempt, Pod, Status
        <4>2. CASE agent.cur # 0
          <5>1. TheCtr(agent.cur) \in Ctr
            BY <1>8, <4>2, AtContainer DEF Create, InCtr, InBox
          <5> QED BY <4>2, <5>1 DEF attempt, Ctr
        <4> QED BY <4>1, <4>2
      <3>2. agent.box \in Ids
        BY <2>2 DEF BoxReady, Typed, Box
      <3>3. c \in Ctr
        BY <1>p, <3>1, <3>2 DEF Ctr, Typed, Pod
      <3> HIDE DEF c
      <3>4. changed \in CriType
        <4>1. cri.next + 1 \in Ids /\ cri.ctrs \cup {c} \subseteq Ctr
          BY <3>3 DEF Typed, Ids
        <4> QED BY <4>1 DEF CriType, Typed
      <3>5. agent' = done => agent' \in Agent /\ agent'.pod = agent.pod /\ agent'.pc = "start"
        <4>1. agent \in Agent /\ cri.next \in Nat /\ "start" \in Steps
          BY DEF Typed, Ids, Steps, SyncSteps
        <4> QED BY <4>1 DEF Agent
      <3>6. agent' = done => agent' \in Agent /\ PodFits'
        BY <1>p, <3>5, PodKept
      <3>7. Rpc(changed, done)
        BY <1>8, <2>2 DEF Create, c
      <3> HIDE DEF changed, done
      <3> QED BY <3>4, <3>6, <3>7, RpcTyped
    <2> QED BY <2>1, <2>2
  <1>9. CASE Start
    <2> DEFINE c == TheCtr(agent.cur)
               changed == [cri EXCEPT !.ctrs = (@ \ {c}) \cup {[c EXCEPT !.st = "running"]}]
               done == [agent EXCEPT !.pc = "status"]
    <2>1. c \in Ctr
      BY <1>9, AtContainer DEF Start, AtCtr, InCtr, InBox
    <2>2. CASE ~BoxReady \/ c.st # "created"
      BY <1>9, <1>f, <2>2 DEF Start
    <2>3. CASE ~(~BoxReady \/ c.st # "created")
      <3>1. changed \in CriType
        <4>1. [c EXCEPT !.st = "running"] \in Ctr
          BY <2>1 DEF Ctr
        <4> HIDE DEF c
        <4> QED BY <4>1 DEF CriType, Typed
      <3>2. agent' = done => agent' \in Agent /\ agent'.pod = agent.pod /\ agent'.pc = "status"
        BY DEF Typed, Agent
      <3>3. agent' = done => agent' \in Agent /\ PodFits'
        BY <1>p, <3>2, PodKept
      <3>4. Rpc(changed, done)
        BY <1>9, <2>3 DEF Start
      <3> HIDE DEF changed, done
      <3> QED BY <3>1, <3>3, <3>4, RpcTyped
    <2> QED BY <2>2, <2>3
  <1>10. CASE Observe
    <2>1. TheCtr(agent.cur).st \in {"created", "running", "done", "failed"}
      BY <1>10, AtContainer DEF Observe, AtCtr, InCtr, InBox, Ctr
    <2>2. agent' = [agent EXCEPT !.pc = "reclaim", !.obs = TheCtr(agent.cur).st]
      BY <1>10 DEF Observe, Local
    <2>3. agent' \in Agent /\ agent'.pod = agent.pod /\ agent'.pc = "reclaim"
      BY <2>1, <2>2 DEF Typed, Agent
    <2> QED BY <1>10, <1>p, <2>3, LocalTyped, PodKept DEF Observe, Local
  <1>11. CASE Reclaim
    <2> DEFINE old == {c \in CtrsOf(agent.box) : c.id # agent.cur}
    <2>1. CASE old = {}
      <3>1. agent' = [agent EXCEPT !.pc = "probe"]
        BY <1>11, <2>1 DEF Reclaim, Local
      <3>2. agent' \in Agent /\ agent'.pod = agent.pod /\ agent'.pc = "probe"
        BY <3>1 DEF Typed, Agent
      <3> QED BY <1>11, <1>p, <2>1, <3>2, LocalTyped, PodKept DEF Reclaim, Local
    <2>2. CASE old # {}
      <3>1. PICK c \in old : Rpc(IF c.st = "running" THEN StopCtr(c) ELSE DropCtr(c), agent)
        BY <1>11, <2>2 DEF Reclaim
      <3>2. c \in cri.ctrs
        BY DEF CtrsOf
      <3>3. (IF c.st = "running" THEN StopCtr(c) ELSE DropCtr(c)) \in CriType
        BY <3>2, StopType
      <3>4. agent' = agent => agent' \in Agent /\ PodFits'
        BY DEF Typed, PodFits
      <3> QED BY <3>1, <3>3, <3>4, RpcTyped
    <2> QED BY <2>1, <2>2
  <1> QED BY <1>1, <1>2, <1>3, <1>4, <1>5, <1>6, <1>7, <1>8, <1>9, <1>10, <1>11

LEMMA TypedReport ==
    ASSUME Typed, Boxed, AtCtr, spec' = spec,
           ProbePasses \/ ProbeFails \/ ProbeWaits \/ NoProbe \/ Publish \/ PublishError
    PROVE  Typed'
  <1> USE DEF Steps, Between
  <1>p. /\ agent.pc \notin Between /\ agent.cur \in Nat /\ agent.ready \in BOOLEAN
        /\ Mine \in Pod /\ agent.pod = {Mine} /\ agent.obs \in {"created", "running", "done", "failed"}
    <2>1. agent.pc \notin Between
      BY DEF ProbePasses, ProbeFails, ProbeWaits, NoProbe, Checking, Publish, PublishError
    <2> QED BY <2>1, AtPod DEF Typed, Agent
  <1>t. ASSUME NEW ready \in BOOLEAN, agent' = ToPublish(ready)
        PROVE  agent' \in Agent /\ agent'.pod = agent.pod /\ agent'.pc = "publish"
    BY <1>p, <1>t DEF ToPublish, Typed, Agent
  <1>e. Entry(agent.cur) \in Reading
    BY <1>p, EntryTyped
  <1>1. ASSUME NEW ok \in BOOLEAN, Checked(ok), events' \in 0..MaxEvents PROVE Typed'
    <2> DEFINE e == counted(Entry(agent.cur), ok)
    <2>1. e \in Reading
      BY <1>e, CountedTyped
    <2>2. probes' \subseteq Reading
      BY <1>1, <2>1 DEF Checked, Typed
    <2>3. e.ready \in BOOLEAN
      BY <2>1 DEF Reading
    <2>4. agent' \in Agent /\ agent'.pod = agent.pod /\ agent'.pc = "publish"
      BY <1>1, <1>t, <2>3 DEF Checked
    <2> QED BY <1>1, <1>p, <2>2, <2>4 DEF Checked, Typed
  <1>2. CASE ProbePasses
    BY <1>1, <1>2 DEF ProbePasses, Typed
  <1>3. CASE ProbeFails
    <2>1. events' \in 0..MaxEvents
      BY <1>3, PodRuntimeAssumption DEF ProbeFails, Typed, Spend
    <2> QED BY <1>1, <1>3, <2>1 DEF ProbeFails
  <1>4. CASE ProbeWaits
    <2>1. Entry(agent.cur).ready \in BOOLEAN
      BY <1>e DEF Reading
    <2> QED BY <1>4, <1>p, <1>t, <2>1, LocalTyped, PodKept DEF ProbeWaits, Local
  <1>5. CASE NoProbe
    BY <1>5, <1>p, <1>t, LocalTyped, PodKept DEF NoProbe, Local
  <1>6. CASE Publish
    <2>1. TheCtr(agent.cur).n \in Nat
      BY <1>6, AtContainer DEF Publish, AtCtr, InCtr, InBox, Ctr
    <2> DEFINE status == [phase |-> phase(agent.obs), restarts |-> TheCtr(agent.cur).n,
                          ready |-> agent.ready, cid |-> agent.cur]
    <2>2. phase(agent.obs) \in {"none", "Pending", "Running", "Succeeded", "Failed"}
      BY DEF phase
    <2>3. status \in Status
      BY <1>p, <2>1, <2>2 DEF Status
    <2>4. Put(status)
      BY <1>6 DEF Publish
    <2> HIDE DEF status
    <2> QED BY <1>p, <2>3, <2>4, StatusTyped
  <1>7. CASE PublishError
    <2> DEFINE status == [Mine.status EXCEPT !.ready = FALSE,
                            !.phase = IF @ = "none" THEN "Pending" ELSE @]
    <2>1. status \in Status
      BY <1>p DEF Pod, Status
    <2>2. Put(status)
      BY <1>7 DEF PublishError
    <2> HIDE DEF status
    <2> QED BY <1>p, <2>1, <2>2, StatusTyped
  <1> QED BY <1>2, <1>3, <1>4, <1>5, <1>6, <1>7

LEMMA TypedEnvironment ==
    ASSUME Typed, spec' = spec,
           Exit \/ DelayPasses \/ BoxDies \/ AgentRestart \/ Reboot \/ UserEdits \/ ConfEdit
    PROVE  Typed'
  <1>e. ASSUME Spend PROVE events' \in 0..MaxEvents
    BY <1>e, PodRuntimeAssumption DEF Typed, Spend
  <1>c. ASSUME NEW c \in cri.ctrs, NEW st \in Exited, NEW due \in BOOLEAN
        PROVE  /\ [c EXCEPT !.st = st, !.due = due] \in Ctr
               /\ [c EXCEPT !.due = due] \in Ctr
    BY DEF Typed, Ctr, Exited
  <1>b. \A b \in cri.boxes : [b EXCEPT !.ready = FALSE] \in Box
    BY DEF Typed, Box
  <1>1. CASE Exit
    <2>1. PICK c \in cri.ctrs, st \in Exited :
            cri' = [cri EXCEPT !.ctrs = (@ \ {c}) \cup {[c EXCEPT !.st = st, !.due = FALSE]}]
      BY <1>1 DEF Exit
    <2>2. cri' \in CriType
      <3> DEFINE d == [c EXCEPT !.st = st, !.due = FALSE]
      <3>1. d \in Ctr
        BY <1>c
      <3> HIDE DEF d
      <3> QED BY <2>1, <3>1 DEF Typed, CriType, d
    <2> QED BY <1>1, <1>e, <2>2 DEF Exit, Typed, CriType
  <1>2. CASE DelayPasses
    <2>1. PICK c \in cri.ctrs : cri' = [cri EXCEPT !.ctrs = (@ \ {c}) \cup {[c EXCEPT !.due = TRUE]}]
      BY <1>2 DEF DelayPasses
    <2>2. cri' \in CriType
      <3> DEFINE d == [c EXCEPT !.due = TRUE]
      <3>1. d \in Ctr
        BY <1>c DEF Exited
      <3> HIDE DEF d
      <3> QED BY <2>1, <3>1 DEF Typed, CriType, d
    <2> QED BY <1>2, <2>2 DEF DelayPasses, Typed, CriType
  <1>3. CASE BoxDies
    <2>1. PICK b \in cri.boxes :
            cri' = [cri EXCEPT !.boxes = (@ \ {b}) \cup {[b EXCEPT !.ready = FALSE]}]
      BY <1>3 DEF BoxDies
    <2>2. cri' \in CriType
      <3> DEFINE d == [b EXCEPT !.ready = FALSE]
      <3>1. d \in Box
        BY <1>b
      <3> HIDE DEF d
      <3> QED BY <2>1, <3>1 DEF Typed, CriType, d
    <2> QED BY <1>3, <1>e, <2>2 DEF BoxDies, Typed, CriType
  <1>4. CASE AgentRestart
    <2>1. agent' \in Agent /\ agent'.pc \in Between /\ agent'.pod = {}
      BY <1>4, Resting DEF AgentRestart
    <2> QED BY <1>4, <1>e, <2>1 DEF AgentRestart, Typed
  <1>5. CASE Reboot
    <2> DEFINE B == {[b EXCEPT !.ready = FALSE] : b \in cri.boxes}
               C == {IF c.st = "running" THEN [c EXCEPT !.st = "failed", !.due = FALSE] ELSE c : c \in cri.ctrs}
    <2>1. B \subseteq Box
      BY <1>b
    <2>2. C \subseteq Ctr
      <3>1. \A c \in cri.ctrs : [c EXCEPT !.st = "failed", !.due = FALSE] \in Ctr /\ c \in Ctr
        BY <1>c DEF Typed, Exited
      <3> QED BY <3>1
    <2>3. cri' = [cri EXCEPT !.boxes = B, !.ctrs = C]
      BY <1>5 DEF Reboot
    <2> HIDE DEF B, C
    <2>4. cri' \in CriType
      BY <2>1, <2>2, <2>3 DEF Typed, CriType
    <2>5. vol' \in [Uids -> Volume]
      <3>1. vol' = [u \in Uids |-> [NoVolume EXCEPT !.dir = vol[u].dir]]
        BY <1>5 DEF Reboot
      <3> QED BY <3>1 DEF Typed, Volume, NoVolume
    <2>6. agent' \in Agent /\ agent'.pc \in Between /\ agent'.pod = {}
      BY <1>5, Resting DEF Reboot
    <2> QED BY <1>5, <1>e, <2>4, <2>5, <2>6 DEF Reboot, Typed, CriType
  <1>6. CASE UserEdits
    <2>1. ASSUME NEW n \in Names, NEW p \in Pod, api' = [api EXCEPT ![n] = {p}]
          PROVE  api' \in [Names -> SUBSET Pod]
      BY <2>1 DEF Typed
    <2>2. ASSUME NEW n \in Names, NEW p \in api[n]
          PROVE  [p EXCEPT !.hash = @ + 1] \in Pod /\ [p EXCEPT !.terminating = TRUE] \in Pod
      <3>1. p \in Pod
        BY DEF Typed
      <3>2. p.hash + 1 \in Nat
        BY <3>1 DEF Pod
      <3> QED BY <3>1, <3>2 DEF Pod
    <2>3. ASSUME NEW n \in Names, NEW u \in Uids PROVE NewPod(n, u) \in Pod
      BY Constants DEF NewPod, Pod
    <2>4. api' \in [Names -> SUBSET Pod]
      <3>1. PICK n \in Names :
             \/ \E p \in api[n] : api' = [api EXCEPT ![n] = {[p EXCEPT !.hash = @ + 1]}]
             \/ \E p \in api[n] : api' = [api EXCEPT ![n] = {[p EXCEPT !.terminating = TRUE]}]
             \/ api' = [api EXCEPT ![n] = {}]
             \/ \E u \in Uids : api' = [api EXCEPT ![n] = {NewPod(n, u)}]
        BY <1>6 DEF UserEdits
      <3>2. api' = [api EXCEPT ![n] = {}] => api' \in [Names -> SUBSET Pod]
        BY DEF Typed
      <3> QED BY <2>1, <2>2, <2>3, <3>1, <3>2
    <2> QED BY <1>6, <1>e, <2>4 DEF UserEdits, Typed
  <1>7. CASE ConfEdit
    BY <1>7, <1>e DEF ConfEdit, Typed
  <1> QED BY <1>1, <1>2, <1>3, <1>4, <1>5, <1>6, <1>7

LEMMA TypedNext ==
    ASSUME Typed, Boxed, AtCtr, [Next]_vars
    PROVE  Typed'
  <1>1. CASE UNCHANGED vars
    BY <1>1 DEF vars, Typed
  <1>2. CASE Next
    BY <1>2, TypedAgent, TypedSync, TypedReport, TypedEnvironment
       DEF Next, AgentStep, Environment
  <1> QED BY <1>1, <1>2

-----------------------------------------------------------------------------
(* Nothing new: calls that only stop or remove, exits and losses.          *)

\* One container, in whatever state.
Same(c, d) == c.id = d.id /\ c.box = d.box /\ c.uid = d.uid /\ c.n = d.n /\ c.hash = d.hash
\* Sandboxes and containers are lost or come to an end, and no sandbox goes
\* before its containers.
Winds ==
    /\ cri'.next = cri.next
    /\ \A b \in cri'.boxes : \E a \in cri.boxes : a.id = b.id /\ a.uid = b.uid /\ (b.ready => a.ready)
    /\ \A a, b \in cri'.boxes : a.id = b.id => a = b
    /\ \A c \in cri'.ctrs : \E d \in cri.ctrs :
          Same(c, d) /\ (c.st = d.st \/ (d.st = "running" /\ c.st \in Exited))
    /\ \A c, d \in cri'.ctrs : c.id = d.id => c = d
    /\ \A c \in cri'.ctrs, b \in cri.boxes : c.box = b.id => \E a \in cri'.boxes : a.id = b.id

\* The last containers are left.
Leaves == \A c \in cri.ctrs : \E d \in cri'.ctrs : Same(d, c)

LEMMA Idling ==
    ASSUME Typed, Boxed, cri' = cri
    PROVE  Winds /\ Leaves
  <1>1. /\ \A a, b \in cri'.boxes : a.id = b.id => a = b
        /\ \A c, d \in cri'.ctrs : c.id = d.id => c = d
    BY DEF Boxed
  <1>2. \A c \in cri.ctrs : Same(c, c) /\ c.st = c.st
    BY DEF Same
  <1> QED BY <1>1, <1>2 DEF Winds, Leaves

\* One container is exchanged for itself in another state.
LEMMA Exchanging ==
    ASSUME Typed, Boxed, NEW c \in cri.ctrs, NEW d, Same(d, c),
           d.st = c.st \/ (c.st = "running" /\ d.st \in Exited),
           cri'.next = cri.next, cri'.boxes = cri.boxes, cri'.ctrs = (cri.ctrs \ {c}) \cup {d}
    PROVE  Winds /\ Leaves
  <1>1. /\ \A a, b \in cri'.boxes : a.id = b.id => a = b
        /\ \A x, y \in cri.ctrs : x.id = y.id => x = y
    BY DEF Boxed
  <1>2. \A x, y \in cri'.ctrs : x.id = y.id => x = y
    BY <1>1 DEF Same
  <1>3. \A x \in cri'.ctrs : \E y \in cri.ctrs :
          Same(x, y) /\ (x.st = y.st \/ (y.st = "running" /\ x.st \in Exited))
    <2> SUFFICES ASSUME NEW x \in cri'.ctrs
                 PROVE  \E y \in cri.ctrs : Same(x, y) /\ (x.st = y.st \/ (y.st = "running" /\ x.st \in Exited))
      OBVIOUS
    <2>1. CASE x = d
      BY <2>1
    <2>2. CASE x # d
      BY <2>2 DEF Same
    <2> QED BY <2>1, <2>2
  <1>4. Leaves
    <2>1. \A x \in cri.ctrs : x # c => Same(x, x) /\ x \in cri'.ctrs
      BY DEF Same
    <2> QED BY <2>1 DEF Leaves
  <1> QED BY <1>1, <1>2, <1>3, <1>4 DEF Winds

LEMMA Stopping ==
    ASSUME Typed, Boxed, NEW c \in cri.ctrs, cri' = StopCtr(c)
    PROVE  /\ Winds /\ Leaves
           /\ \A x \in cri.ctrs : x = c \/ x \in cri'.ctrs
           /\ \A x \in cri'.ctrs : x.id = c.id => x.st # "running"
           /\ cri'.boxes = cri.boxes
  <1>0. \A x, y \in cri.ctrs : x.id = y.id => x = y
    BY DEF Boxed
  <1>1. CASE c.st = "running"
    <2> DEFINE d == [c EXCEPT !.st = "failed", !.due = FALSE]
    <2>1. cri' = [cri EXCEPT !.ctrs = (@ \ {c}) \cup {d}]
      BY <1>1 DEF StopCtr
    <2>2. Same(d, c) /\ d.st = "failed"
      BY DEF Same, Typed, Ctr
    <2> HIDE DEF d
    <2>3. cri'.next = cri.next /\ cri'.boxes = cri.boxes /\ cri'.ctrs = (cri.ctrs \ {c}) \cup {d}
      BY <2>1 DEF Typed
    <2>4. Winds /\ Leaves
      BY <1>1, <2>2, <2>3, Exchanging DEF Exited
    <2> QED BY <1>0, <2>2, <2>3, <2>4
  <1>2. CASE c.st # "running"
    <2>1. cri' = cri
      BY <1>2 DEF StopCtr, Typed
    <2> QED BY <1>0, <1>2, <2>1, Idling
  <1> QED BY <1>1, <1>2

LEMMA Dropping ==
    ASSUME Typed, Boxed, NEW c \in cri.ctrs, cri' = DropCtr(c)
    PROVE  /\ Winds /\ cri'.boxes = cri.boxes
           /\ \A d \in cri.ctrs : d = c \/ d \in cri'.ctrs
  <1>1. cri'.next = cri.next /\ cri'.boxes = cri.boxes /\ cri'.ctrs = cri.ctrs \ {c}
    BY DEF DropCtr, Typed
  <1>2. /\ \A a, b \in cri'.boxes : a.id = b.id => a = b
        /\ \A x, y \in cri'.ctrs : x.id = y.id => x = y
    BY <1>1 DEF Boxed
  <1>3. \A x \in cri'.ctrs : x \in cri.ctrs /\ Same(x, x)
    BY <1>1 DEF Same
  <1> QED BY <1>1, <1>2, <1>3 DEF Winds

\* Sandboxes are lost or marked, those with containers are not lost.
LEMMA Losing ==
    ASSUME Typed, Boxed, cri'.next = cri.next, cri'.ctrs = cri.ctrs,
           \A b \in cri'.boxes : \E a \in cri.boxes : a.id = b.id /\ a.uid = b.uid /\ (b.ready => a.ready),
           \A a, b \in cri'.boxes : a.id = b.id => a = b,
           \A c \in cri.ctrs, b \in cri.boxes : c.box = b.id => \E a \in cri'.boxes : a.id = b.id
    PROVE  Winds /\ Leaves
  <1>1. \A c, d \in cri'.ctrs : c.id = d.id => c = d
    BY DEF Boxed
  <1>2. \A c \in cri.ctrs : Same(c, c)
    BY DEF Same
  <1> QED BY <1>1, <1>2 DEF Winds, Leaves

\* A removal only touches its sandbox.
LEMMA Removing ==
    ASSUME Typed, Boxed, NEW b \in Box, cri' = removal(b)
    PROVE  /\ Winds
           /\ \A c \in cri.ctrs : c.box # b.id => c \in cri'.ctrs
           /\ \A a \in cri'.boxes : a \in cri.boxes \/ a.id = b.id
  <1>1. CASE CtrsOf(b.id) # {}
    <2> DEFINE c == CHOOSE c \in CtrsOf(b.id) : TRUE
    <2>1. c \in cri.ctrs /\ c.box = b.id
      BY <1>1 DEF CtrsOf
    <2>2. cri' = IF c.st = "running" THEN StopCtr(c) ELSE DropCtr(c)
      BY <1>1 DEF removal
    <2> HIDE DEF c
    <2>3. CASE c.st = "running"
      BY <2>1, <2>2, <2>3, Stopping
    <2>4. CASE c.st # "running"
      BY <2>1, <2>2, <2>4, Dropping
    <2> QED BY <2>3, <2>4
  <1>2. CASE CtrsOf(b.id) = {}
    <2> DEFINE M == {[x EXCEPT !.ready = FALSE] : x \in {y \in cri.boxes : y.id = b.id /\ y.ready}}
               B == {x \in cri.boxes : x.id # b.id} \cup M
    <2>1. cri' = [cri EXCEPT !.boxes = B]
      BY <1>2 DEF removal
    <2>2. \A x \in M : \E y \in cri.boxes : y.id = b.id /\ x = [y EXCEPT !.ready = FALSE]
      OBVIOUS
    <2> HIDE DEF M
    <2>3. \A y \in cri.boxes : LET x == [y EXCEPT !.ready = FALSE] IN
             x.id = y.id /\ x.uid = y.uid /\ ~x.ready
      BY DEF Typed, Box
    <2>4. \A a, c \in cri.boxes : a.id = c.id => a = c
      BY DEF Boxed
    <2>5. \A x, y \in M : x = y
      BY <2>2, <2>4
    <2>6. ASSUME NEW x \in M
          PROVE  x.id = b.id /\ ~x.ready /\ \E y \in cri.boxes : y.id = b.id /\ y.uid = x.uid
      <3>1. PICK y \in cri.boxes : y.id = b.id /\ x = [y EXCEPT !.ready = FALSE]
        BY <2>2
      <3>2. x.id = y.id /\ x.uid = y.uid /\ ~x.ready
        BY <2>3, <3>1
      <3> QED BY <3>1, <3>2
    <2>7. cri'.next = cri.next /\ cri'.ctrs = cri.ctrs /\ cri'.boxes = B
      BY <2>1 DEF Typed
    <2>8. \A c \in cri.ctrs : c.box # b.id
      BY <1>2 DEF CtrsOf
    <2>9. \A x \in cri'.boxes : \E a \in cri.boxes : a.id = x.id /\ a.uid = x.uid /\ (x.ready => a.ready)
      BY <2>6, <2>7
    <2>10. \A x, y \in cri'.boxes : x.id = y.id => x = y
      BY <2>4, <2>5, <2>6, <2>7
    <2>11. \A c \in cri.ctrs, y \in cri.boxes : c.box = y.id => \E a \in cri'.boxes : a.id = y.id
      BY <2>7, <2>8
    <2> QED BY <2>6, <2>7, <2>9, <2>10, <2>11, Losing
  <1> QED BY <1>1, <1>2

LEMMA UsedGrows ==
    ASSUME Typed, Typed', events' >= events
    PROVE  Used \subseteq Used'
  BY Constants DEF Used, Typed

\* Where nothing is made and nothing starts, the runtime stays in order.
LEMMA WindingBoxes ==
    ASSUME Typed, Typed', World, Winds, spec' = spec, events' >= events
    PROVE  Boxed' /\ Superseded'
  <1>0. Used \subseteq Used'
    BY UsedGrows
  <1>1. \A c \in cri'.ctrs : \E d \in cri.ctrs :
           Same(c, d) /\ (c.st = d.st \/ (d.st = "running" /\ c.st \in Exited))
    BY DEF Winds
  <1>2. Boxed'
    <2>1. \A b \in cri'.boxes : b.id < cri'.next /\ b.uid \in Used'
      BY <1>0 DEF World, Boxed, Winds
    <2>2. ASSUME NEW a \in cri'.boxes, NEW b \in cri'.boxes, a.id = b.id \/ a.uid = b.uid PROVE a = b
      <3>1. PICK x \in cri.boxes : x.id = a.id /\ x.uid = a.uid
        BY DEF Winds
      <3>2. PICK y \in cri.boxes : y.id = b.id /\ y.uid = b.uid
        BY DEF Winds
      <3>3. x = y
        BY <2>2, <3>1, <3>2 DEF World, Boxed
      <3> QED BY <3>1, <3>2, <3>3 DEF Winds
    <2>3. ASSUME NEW c \in cri'.ctrs
          PROVE  c.id < cri'.next /\ \E b \in cri'.boxes : b.id = c.box /\ b.uid = c.uid
      <3>1. PICK d \in cri.ctrs : Same(c, d)
        BY <1>1
      <3>2. PICK y \in cri.boxes : d.id < cri.next /\ y.id = d.box /\ y.uid = d.uid
        BY DEF World, Boxed
      <3>3. PICK b \in cri'.boxes : b.id = y.id
        BY <3>1, <3>2 DEF Winds, Same
      <3>4. PICK z \in cri.boxes : z.id = b.id /\ z.uid = b.uid
        BY DEF Winds
      <3>5. z = y
        BY <3>3, <3>4 DEF World, Boxed
      <3> QED BY <3>1, <3>2, <3>3, <3>4, <3>5 DEF Winds, Same
    <2>4. \A c, d \in cri'.ctrs : c.id = d.id => c = d
      BY DEF Winds
    <2> QED BY <2>1, <2>2, <2>3, <2>4 DEF Boxed
  <1>3. Superseded'
    <2> SUFFICES ASSUME NEW c \in cri'.ctrs, NEW d \in cri'.ctrs, c.box = d.box, c.id < d.id
                 PROVE  /\ c.n < d.n /\ c.st # "running" /\ c.hash <= d.hash
                        /\ c.hash = d.hash => c.st \in Exited /\ ~Over(c)'
      BY DEF Superseded
    <2>1. PICK x \in cri.ctrs : Same(c, x) /\ (c.st = x.st \/ (x.st = "running" /\ c.st \in Exited))
      BY <1>1
    <2>2. PICK y \in cri.ctrs : Same(d, y)
      BY <1>1
    <2>3. /\ x.n < y.n /\ x.st # "running" /\ x.hash <= y.hash
          /\ x.hash = y.hash => x.st \in Exited /\ ~Over(x)
      BY <2>1, <2>2 DEF World, Superseded, Same
    <2>4. c.st = x.st
      BY <2>1, <2>3
    <2> QED BY <2>1, <2>2, <2>3, <2>4 DEF Same, Over
  <1> QED BY <1>2, <1>3

LEMMA WindingVolumes ==
    ASSUME Typed, Typed', World, Winds, \A u \in Uids : vol'[u] = vol[u]
    PROVE  Projected'
  <1>1. \A c \in cri'.ctrs : \E d \in cri.ctrs :
           Same(c, d) /\ (c.st = d.st \/ (d.st = "running" /\ c.st \in Exited))
    BY DEF Winds
  <1>4. Projected'
    <2> SUFFICES ASSUME NEW u \in Uids
                 PROVE  /\ vol'[u].data \subseteq vol'[u].gens
                        /\ \A g, h \in vol'[u].data : g.whole /\ g = h
                        /\ (\E c \in cri'.ctrs : c.uid = u /\ c.st = "running")
                              => vol'[u].mounted /\ vol'[u].data # {}
      BY DEF Projected
    <2>1. (\E c \in cri'.ctrs : c.uid = u /\ c.st = "running")
             => (\E c \in cri.ctrs : c.uid = u /\ c.st = "running")
      BY <1>1 DEF Same, Exited
    <2> QED BY <2>1 DEF World, Projected
  <1> QED BY <1>4

\* A sweep that goes on with what it has listed.
Keeps ==
    /\ agent.pc = "idle" => agent'.pc = "idle"
    /\ agent.pc \in {"idle", "boxes"} <=> agent'.pc \in {"idle", "boxes"}
    /\ agent'.todo \subseteq agent.todo /\ Open' \subseteq Open /\ Awaiting' \subseteq Awaiting
    /\ agent'.todo \cap agent'.pod = {}
    /\ agent'.seen = agent.seen /\ agent'.desired = agent.desired
    /\ agent'.doomed \subseteq agent.seen

LEMMA ListingKept ==
    ASSUME Typed, Typed', Listing, Winds, Keeps, api' = api, events' >= events
    PROVE  Listing'
  <1>0. Used \subseteq Used'
    BY UsedGrows
  <1>1. \A c \in cri'.ctrs : \E d \in cri.ctrs : c.uid = d.uid /\ c.hash = d.hash
    BY DEF Winds, Same
  <1>2. \A b \in cri'.boxes : \E a \in cri.boxes : b.uid = a.uid
    BY DEF Winds
  <1>3. \A p \in Open' : p \in Open
    BY DEF Keeps
  <1>4. \A p \in Open' : p.uid \in Used' \cap agent'.desired
    BY <1>0, <1>3 DEF Listing, Keeps
  <1>5. \A p, q \in Open' : p.uid = q.uid => p = q
    BY <1>3 DEF Listing
  <1>6. \A p \in Open', n \in Names : \A q \in api'[n] : p.uid = q.uid =>
          /\ p.name = n /\ p.status = q.status /\ p.hash <= q.hash
          /\ p.terminating => q.terminating
    BY <1>3 DEF Listing
  <1>7. \A n \in Names : \A p \in api'[n], c \in cri'.ctrs : c.uid = p.uid => c.hash <= p.hash
    BY <1>1 DEF Listing
  <1>8. \A p \in Open', c \in cri'.ctrs : c.uid = p.uid => c.hash <= p.hash
    BY <1>1, <1>3 DEF Listing
  <1>9. agent'.pc # "idle" => \A b \in cri'.boxes, n \in Names : \A q \in api'[n] : b.uid = q.uid => b.uid \in agent'.desired
    BY <1>2 DEF Listing, Keeps
  <1> HIDE DEF Open
  <1> QED BY <1>4, <1>5, <1>6, <1>7, <1>8, <1>9 DEF Listing, Keeps

LEMMA SeenKept ==
    ASSUME Typed, Typed', Seen, Winds, Keeps
    PROVE  Seen'
  <1>1. \A b \in cri'.boxes : \E a \in cri.boxes : a.id = b.id /\ a.uid = b.uid /\ (b.ready => a.ready)
    BY DEF Winds
  <1>2. \A x \in agent'.seen, b \in cri'.boxes :
          x.id = b.id => x.uid = b.uid /\ (b.ready => x.ready)
    BY <1>1 DEF Seen, Keeps
  <1>3. agent'.pc \notin {"idle", "boxes"} => \A p \in Awaiting', b \in cri'.boxes : b.uid = p.uid => \E x \in agent'.seen : x.id = b.id
    BY <1>1 DEF Seen, Keeps
  <1>4. (\A x \in agent'.seen : x.id < cri'.next) /\ (\A x, y \in agent'.seen : x.uid = y.uid => x = y)
    BY DEF Seen, Keeps, Winds
  <1> QED BY <1>2, <1>3, <1>4 DEF Seen, Keeps

\* The sweep ends; the next one starts with nothing.
LEMMA Rests ==
    ASSUME Typed, Typed', Listing, Winds, api' = api, agent' = Idle
    PROVE  Listing' /\ Seen' /\ AtBox' /\ AtCtr'
  <1>1. /\ agent'.pc = "idle" /\ agent'.todo = {} /\ agent'.pod = {} /\ agent'.seen = {}
        /\ agent'.doomed = {} /\ agent'.cur = 0
    BY DEF Idle
  <1>2. \A c \in cri'.ctrs : \E d \in cri.ctrs : c.uid = d.uid /\ c.hash = d.hash
    BY DEF Winds, Same
  <1>3. \A n \in Names : \A p \in api'[n], c \in cri'.ctrs : c.uid = p.uid => c.hash <= p.hash
    BY <1>2 DEF Listing
  <1>4. Listing'
    BY <1>1, <1>3 DEF Listing, Open
  <1>5. Seen'
    BY <1>1 DEF Seen, Awaiting
  <1>6. AtBox'
    BY <1>1 DEF AtBox
  <1>7. AtCtr'
    BY <1>1 DEF AtCtr, InCtr, InBox
  <1> QED BY <1>4, <1>5, <1>6, <1>7

\* It goes on to the next Pod, after it has reported this one or erased it.
LEMMA GoesOn ==
    ASSUME Typed, Typed', Listing, Seen, Winds, api' = api, events' >= events,
           agent.pc \notin {"idle", "boxes"}, agent' = Onward
    PROVE  Listing' /\ Seen' /\ AtBox' /\ AtCtr'
  <1>1. /\ agent'.pc = "next" /\ agent'.todo = agent.todo /\ agent'.pod = {}
        /\ agent'.seen = agent.seen /\ agent'.desired = agent.desired
        /\ agent'.doomed = {} /\ agent'.cur = 0
    BY GoingOn
  <1>2. Keeps
    BY <1>1 DEF Keeps, Open, Awaiting
  <1>3. AtBox' /\ AtCtr'
    BY <1>1 DEF AtBox, AtCtr, InCtr, InBox
  <1> QED BY <1>2, <1>3, ListingKept, SeenKept

\* It reports a failure or is given up.
LEMMA Fails ==
    ASSUME Typed, Typed', Listing, Seen, AtBox, Winds, api' = api, events' >= events, agent' = Failed
    PROVE  Listing' /\ Seen' /\ AtBox' /\ AtCtr'
  <1>1. CASE agent.pc \notin SyncSteps
    BY <1>1, Rests DEF Failed
  <1>2. CASE agent.pc \in SyncSteps
    <2>1. /\ agent'.pc = "error" /\ agent'.todo = agent.todo /\ agent'.pod = agent.pod
          /\ agent'.seen = agent.seen /\ agent'.desired = agent.desired
          /\ agent'.doomed = agent.doomed
      BY <1>2 DEF Failed, Typed, Agent
    <2>2. Keeps
      BY <1>2, <2>1 DEF Keeps, Open, Awaiting, Listing, Seen, SyncSteps
    <2>3. \A p \in agent'.pod : ~p.terminating
      BY <1>2, <2>1 DEF AtBox, SyncSteps
    <2>4. AtBox'
      BY <2>1, <2>3 DEF AtBox, InBox, Typed, Pod
    <2>5. AtCtr'
      BY <2>1 DEF AtCtr, InCtr, InBox
    <2> QED BY <2>2, <2>4, <2>5, ListingKept, SeenKept
  <1> QED BY <1>1, <1>2

\* Published counts stand while the last containers of the sandboxes that may
\* still be used do.
UsableStays ==
    \A b \in cri'.boxes : Usable(b)' => \E a \in cri.boxes : a.id = b.id /\ a.uid = b.uid /\ Usable(a)
Leads ==
    \A n \in Names : \A q \in api[n], b \in cri.boxes, c \in cri.ctrs :
        ~q.terminating /\ b.uid = q.uid /\ Usable(b) /\ c.box = b.id
        => \E d \in cri'.ctrs : d.box = c.box /\ d.id >= c.id

LEMMA CountedKept ==
    ASSUME Typed, Typed', Counted, Winds, UsableStays, Leads,
           \A n \in Names : \A q \in api'[n] : ~q.terminating =>
              (\A c \in cri.ctrs : c.uid # q.uid) \/ \E p \in api[n] :
                 p.uid = q.uid /\ ~p.terminating /\ p.status.restarts = q.status.restarts,
           Boxed
    PROVE  Counted'
  <1> SUFFICES ASSUME NEW n \in Names, NEW q \in api'[n], NEW b \in cri'.boxes, NEW c \in cri'.ctrs,
                      ~q.terminating, b.uid = q.uid, Usable(b)', c.box = b.id,
                      \A d \in cri'.ctrs : d.box = b.id => d.id <= c.id
               PROVE  c.n >= q.status.restarts
    BY DEF Counted
  <1>1. PICK a \in cri.boxes : a.id = b.id /\ a.uid = b.uid /\ Usable(a)
    BY DEF UsableStays
  <1>2. PICK d \in cri.ctrs : Same(c, d)
    BY DEF Winds
  <1>3. d.uid = q.uid
    <2>1. PICK x \in cri.boxes : x.id = d.box /\ x.uid = d.uid
      BY DEF Boxed
    <2>2. x = a
      BY <1>1, <1>2, <2>1 DEF Boxed, Same
    <2> QED BY <1>1, <2>1, <2>2
  <1>4. PICK p \in api[n] : p.uid = q.uid /\ ~p.terminating /\ p.status.restarts = q.status.restarts
    BY <1>3
  <1>5. \A e \in cri.ctrs : e.box = a.id => e.id <= d.id
    <2> SUFFICES ASSUME NEW e \in cri.ctrs, e.box = a.id PROVE e.id <= d.id
      OBVIOUS
    <2>1. PICK x \in cri'.ctrs : x.box = e.box /\ x.id >= e.id
      BY <1>1, <1>4 DEF Leads
    <2>2. x.id <= c.id
      BY <1>1, <2>1
    <2>3. e.id \in Nat /\ x.id \in Nat /\ c.id \in Nat
      BY DEF Typed, Ctr, Ids
    <2> QED BY <1>2, <2>1, <2>2, <2>3 DEF Same
  <1>6. d.n >= p.status.restarts
    BY <1>1, <1>2, <1>4, <1>5 DEF Counted, Same
  <1> QED BY <1>2, <1>4, <1>6 DEF Same

\* Nothing more becomes usable.
LEMMA UsableFewer ==
    ASSUME Typed, Typed', Winds, agent'.seen \subseteq agent.seen,
           \/ agent'.box \in {0, agent.box}
           \/ \E x \in agent.seen : x.id = agent'.box /\ x.ready
    PROVE  UsableStays
  <1> SUFFICES ASSUME NEW b \in cri'.boxes, Usable(b)'
               PROVE  \E a \in cri.boxes : a.id = b.id /\ a.uid = b.uid /\ Usable(a)
    BY DEF UsableStays
  <1>1. PICK a \in cri.boxes : a.id = b.id /\ a.uid = b.uid /\ (b.ready => a.ready)
    BY DEF Winds
  <1>2. a.id \in Nat \ {0}
    BY DEF Typed, Box, Ids
  <1>3. CASE b.ready
    BY <1>1, <1>3 DEF Usable
  <1>4. CASE b.id = agent'.box
    BY <1>1, <1>2, <1>4 DEF Usable
  <1>5. CASE \E x \in agent'.seen : x.id = b.id /\ x.ready
    BY <1>1, <1>5 DEF Usable
  <1> QED BY <1>3, <1>4, <1>5 DEF Usable

LEMMA LeavesLead ==
    ASSUME Typed, Leaves
    PROVE  Leads
  BY DEF Leaves, Leads, Same, Typed, Ctr, Ids

\* The container the sweep is at outlasts what ends or is stopped.
LEMMA CtrAfter ==
    ASSUME Typed, AtCtr, Winds, Leaves
    PROVE  /\ agent.pc \in InCtr /\ agent.cur = 0 => \A c \in cri'.ctrs : c.box # agent.box
           /\ agent.pc \in InCtr /\ agent.cur # 0 =>
                 \E c \in cri'.ctrs : /\ c.id = agent.cur /\ c.box = agent.box
                                       /\ \A d \in cri'.ctrs : d.box = c.box => d.id <= c.id
           /\ agent.pc \in {"env", "pull", "stop", "create"} =>
                 \A p \in agent.pod, c \in cri'.ctrs :
                    c.id = agent.cur /\ c.hash = p.hash => c.st \in Exited /\ ~Over(c)
  <1>1. \A c \in cri'.ctrs : \E d \in cri.ctrs :
           Same(c, d) /\ (c.st = d.st \/ (d.st = "running" /\ c.st \in Exited))
    BY DEF Winds
  <1>2. agent.pc \in InCtr /\ agent.cur = 0 => \A c \in cri'.ctrs : c.box # agent.box
    BY <1>1 DEF AtCtr, Same
  <1>3. ASSUME agent.pc \in InCtr, agent.cur # 0
        PROVE  \E c \in cri'.ctrs : /\ c.id = agent.cur /\ c.box = agent.box
                                     /\ \A d \in cri'.ctrs : d.box = c.box => d.id <= c.id
    <2>1. PICK c \in cri.ctrs : c.id = agent.cur /\ Last(c)
      BY <1>3 DEF AtCtr
    <2>2. PICK d \in cri'.ctrs : Same(d, c)
      BY DEF Leaves
    <2>3. \A e \in cri'.ctrs : e.box = d.box => e.id <= d.id
      BY <1>1, <2>1, <2>2 DEF Last, Same
    <2> QED BY <2>1, <2>2, <2>3 DEF Last, Same
  <1>4. ASSUME agent.pc \in {"env", "pull", "stop", "create"}, NEW p \in agent.pod,
               NEW c \in cri'.ctrs, c.id = agent.cur, c.hash = p.hash
        PROVE  c.st \in Exited /\ ~Over(c)
    <2>1. PICK d \in cri.ctrs : Same(c, d) /\ (c.st = d.st \/ (d.st = "running" /\ c.st \in Exited))
      BY <1>1
    <2>2. d.st \in Exited /\ ~Over(d)
      BY <1>4, <2>1 DEF AtCtr, Same
    <2>3. c.st = d.st
      BY <2>1, <2>2 DEF Exited
    <2> QED BY <2>2, <2>3 DEF Over
  <1> QED BY <1>2, <1>3, <1>4

\* The sweep waits while something ends or is lost.
LEMMA Waits ==
    ASSUME Typed, Typed', AgentInv, Winds, Leaves, api' = api, spec' = spec, agent' = agent,
           \A u \in Uids : vol'[u] = vol[u], events' >= events
    PROVE  AgentInv'
  <1> USE DEF AgentInv
  <1>1. Listing' /\ Seen'
    <2>1. Keeps
      BY DEF Keeps, Open, Awaiting, Listing, Seen
    <2> QED BY <2>1, ListingKept, SeenKept
  <1>2. AtBox'
    <2>1. \A b \in cri'.boxes : \E a \in cri.boxes : a.id = b.id /\ a.uid = b.uid
      BY DEF Winds
    <2>2. \A p \in agent.pod : p.uid \in Uids
      BY DEF Typed, Agent, Pod
    <2> QED BY <2>1, <2>2 DEF AtBox, Winds
  <1>3. AtCtr'
    <2>1. \A c : Over(c)' = Over(c)
      BY DEF Over
    <2>2. \A c : Last(c)' <=> c.box = agent.box /\ \A d \in cri'.ctrs : d.box = c.box => d.id <= c.id
      BY DEF Last
    <2>3. agent.pc = "create" => \A c \in cri'.ctrs : c.id = agent.cur => c.st # "running"
      BY DEF AtCtr, Same, Exited, Winds
    <2>4. /\ agent.pc \notin InCtr \cup {"error"} => agent.cur = 0
          /\ agent.pc \in {"stop", "start", "status", "reclaim", "probe", "publish"} => agent.cur # 0
      BY DEF AtCtr
    <2> QED BY <2>1, <2>2, <2>3, <2>4, CtrAfter DEF AtCtr
  <1> QED BY <1>1, <1>2, <1>3

\* The Pods in the API stay, so do their uids.
LEMMA Unedited ==
    ASSUME Typed, Typed', Identified, api' = api, events' >= events
    PROVE  Identified'
  BY UsedGrows DEF Identified

LEMMA EventsGrow ==
    ASSUME Typed, Spend \/ UNCHANGED events
    PROVE  events' >= events
  BY DEF Typed, Spend

\* Of a step that makes nothing, the part that the sweep has not in it.
LEMMA Around ==
    ASSUME IInv, Typed', Winds, api' = api, spec' = spec, events' >= events,
           \A u \in Uids : vol'[u] = vol[u]
    PROVE  World'
  BY WindingBoxes, WindingVolumes, Unedited DEF IInv, World

LEMMA Standing ==
    ASSUME IInv, Typed', Winds, UsableStays, Leads, api' = api
    PROVE  Counted'
  <1>1. \A n \in Names : \A q \in api'[n] : ~q.terminating => \E p \in api[n] :
                 p.uid = q.uid /\ ~p.terminating /\ p.status.restarts = q.status.restarts
    OBVIOUS
  <1> QED BY <1>1, CountedKept DEF IInv, World

LEMMA UsableHere ==
    ASSUME Typed, Typed', Winds,
           \/ agent' = agent
           \/ agent' = Idle
           \/ agent' = Failed
           \/ agent' = Onward
    PROVE  UsableStays
  <1>1. CASE agent' = agent
    BY <1>1, UsableFewer
  <1>2. CASE agent' = Idle
    <2>1. agent'.seen = {} /\ agent'.box = 0
      BY <1>2 DEF Idle
    <2> QED BY <2>1, UsableFewer
  <1>3. CASE agent' = Failed
    <2>1. agent' = Idle \/ (agent'.seen = agent.seen /\ agent'.box = agent.box)
      BY <1>3 DEF Failed, Typed, Agent
    <2> QED BY <1>2, <2>1, UsableFewer
  <1>4. CASE agent' = Onward
    <2>1. agent'.seen = agent.seen /\ agent'.box = 0
      BY <1>4, GoingOn
    <2> QED BY <2>1, UsableFewer
  <1> QED BY <1>1, <1>2, <1>3, <1>4

\* A step at which no container is made, started or removed.
LEMMA Nothing ==
    ASSUME IInv, Typed', Winds, Leaves, api' = api, spec' = spec, events' >= events,
           \A u \in Uids : vol'[u] = vol[u], AgentInv', UsableStays
    PROVE  IInv'
  BY Around, Standing, LeavesLead DEF IInv

\* Failures of reads, ends of containers and losses of sandboxes or the agent.
LEMMA EnvironmentKeeps ==
    ASSUME IInv, Typed', spec' = spec,
           ReadFails \/ Exit \/ DelayPasses \/ BoxDies \/ AgentRestart \/ ConfEdit
    PROVE  IInv'
  <1> USE DEF IInv, World
  <1>0. events' >= events
    BY EventsGrow DEF ReadFails, Exit, DelayPasses, BoxDies, AgentRestart, ConfEdit
  <1>w. ASSUME Winds, Leaves, agent' = agent, api' = api, vol' = vol PROVE IInv'
    BY <1>w, <1>0, Waits, UsableHere, Nothing
  <1>1. CASE ReadFails
    <2>1. cri' = cri /\ api' = api /\ vol' = vol /\ agent' = Failed
      BY <1>1 DEF ReadFails
    <2>2. Winds /\ Leaves
      BY <2>1, Idling
    <2>3. AgentInv'
      BY <1>0, <2>1, <2>2, Fails DEF AgentInv
    <2> QED BY <1>0, <2>1, <2>2, <2>3, UsableHere, Nothing
  <1>2. CASE Exit
    <2>1. PICK c \in cri.ctrs, st \in Exited : c.st = "running" /\
            cri' = [cri EXCEPT !.ctrs = (@ \ {c}) \cup {[c EXCEPT !.st = st, !.due = FALSE]}]
      BY <1>2 DEF Exit
    <2> DEFINE d == [c EXCEPT !.st = st, !.due = FALSE]
    <2>2. Same(d, c) /\ d.st = st
      BY DEF Same, Typed, Ctr
    <2>3. cri'.next = cri.next /\ cri'.boxes = cri.boxes /\ cri'.ctrs = (cri.ctrs \ {c}) \cup {d}
      <3> HIDE DEF d
      <3> QED BY <2>1 DEF Typed, d
    <2> HIDE DEF d
    <2>4. Winds /\ Leaves
      BY <2>1, <2>2, <2>3, Exchanging
    <2> QED BY <1>2, <1>w, <2>4 DEF Exit
  <1>3. CASE DelayPasses
    <2>1. PICK c \in cri.ctrs :
            cri' = [cri EXCEPT !.ctrs = (@ \ {c}) \cup {[c EXCEPT !.due = TRUE]}]
      BY <1>3 DEF DelayPasses
    <2> DEFINE d == [c EXCEPT !.due = TRUE]
    <2>2. Same(d, c) /\ d.st = c.st
      BY DEF Same, Typed, Ctr
    <2>3. cri'.next = cri.next /\ cri'.boxes = cri.boxes /\ cri'.ctrs = (cri.ctrs \ {c}) \cup {d}
      <3> HIDE DEF d
      <3> QED BY <2>1 DEF Typed, d
    <2> HIDE DEF d
    <2>4. Winds /\ Leaves
      BY <2>1, <2>2, <2>3, Exchanging
    <2> QED BY <1>3, <1>w, <2>4 DEF DelayPasses
  <1>4. CASE BoxDies
    <2>1. PICK b \in cri.boxes :
            cri' = [cri EXCEPT !.boxes = (@ \ {b}) \cup {[b EXCEPT !.ready = FALSE]}]
      BY <1>4 DEF BoxDies
    <2> DEFINE d == [b EXCEPT !.ready = FALSE]
    <2>2. d.id = b.id /\ d.uid = b.uid /\ ~d.ready
      BY DEF Typed, Box
    <2>3. cri'.next = cri.next /\ cri'.ctrs = cri.ctrs /\ cri'.boxes = (cri.boxes \ {b}) \cup {d}
      <3> HIDE DEF d
      <3> QED BY <2>1 DEF Typed, d
    <2> HIDE DEF d
    <2>4. \A x, y \in cri.boxes : x.id = y.id => x = y
      BY DEF Boxed
    <2>5. Winds /\ Leaves
      BY <2>2, <2>3, <2>4, Losing
    <2> QED BY <1>4, <1>w, <2>5 DEF BoxDies
  <1>5. CASE AgentRestart
    <2>1. cri' = cri /\ api' = api /\ vol' = vol /\ agent' = Idle
      BY <1>5 DEF AgentRestart
    <2>2. Winds /\ Leaves
      BY <2>1, Idling
    <2>3. AgentInv'
      BY <2>1, <2>2, Rests DEF AgentInv
    <2> QED BY <1>0, <2>1, <2>2, <2>3, UsableHere, Nothing
  <1>6. CASE ConfEdit
    <2>1. cri' = cri /\ api' = api /\ vol' = vol /\ agent' = agent
      BY <1>6 DEF ConfEdit
    <2>2. Winds /\ Leaves
      BY <2>1, Idling
    <2> QED BY <1>w, <2>1, <2>2
  <1> QED BY <1>1, <1>2, <1>3, <1>4, <1>5, <1>6

\* A reboot ends what runs and unmounts what it ran on.
LEMMA RebootKeeps ==
    ASSUME IInv, Typed', spec' = spec, Reboot
    PROVE  IInv'
  <1> USE DEF IInv, World
  <1> DEFINE down(b) == [b EXCEPT !.ready = FALSE]
             over(c) == IF c.st = "running" THEN [c EXCEPT !.st = "failed", !.due = FALSE] ELSE c
             B == {down(b) : b \in cri.boxes}
             C == {over(c) : c \in cri.ctrs}
  <1>1. cri'.next = cri.next /\ cri'.boxes = B /\ cri'.ctrs = C
    <2> DEFINE B0 == B  C0 == C
    <2>1. cri' = [cri EXCEPT !.boxes = B0, !.ctrs = C0]
      BY DEF Reboot
    <2> HIDE DEF B0, C0
    <2>2. cri'.next = cri.next /\ cri'.boxes = B0 /\ cri'.ctrs = C0
      BY <2>1 DEF Typed
    <2> QED BY <2>2 DEF B0, C0
  <1>2. \A b \in cri.boxes : down(b).id = b.id /\ down(b).uid = b.uid /\ ~down(b).ready
    BY DEF Typed, Box
  <1>3. \A c \in cri.ctrs : /\ Same(over(c), c) /\ over(c).st # "running"
                            /\ over(c).st = c.st \/ (c.st = "running" /\ over(c).st \in Exited)
    BY DEF Typed, Ctr, Same, Exited
  <1> HIDE DEF down, over
  <1>4. /\ \A b \in cri'.boxes : \E a \in cri.boxes : b = down(a)
        /\ \A a \in cri.boxes : down(a) \in cri'.boxes
        /\ \A c \in cri'.ctrs : \E d \in cri.ctrs : c = over(d)
        /\ \A d \in cri.ctrs : over(d) \in cri'.ctrs
    BY <1>1
  <1>5. /\ \A x, y \in cri.boxes : x.id = y.id => x = y
        /\ \A x, y \in cri.ctrs : x.id = y.id => x = y
    BY DEF Boxed
  <1> HIDE DEF B, C
  <1>6. Winds
    <2>1. \A b \in cri'.boxes : \E a \in cri.boxes : a.id = b.id /\ a.uid = b.uid /\ (b.ready => a.ready)
      BY <1>2, <1>4
    <2>2. \A a, b \in cri'.boxes : a.id = b.id => a = b
      BY <1>2, <1>4, <1>5
    <2>3. \A c \in cri'.ctrs : \E d \in cri.ctrs :
            Same(c, d) /\ (c.st = d.st \/ (d.st = "running" /\ c.st \in Exited))
      BY <1>3, <1>4
    <2>4. \A c, d \in cri'.ctrs : c.id = d.id => c = d
      BY <1>3, <1>4, <1>5 DEF Same
    <2>5. \A c \in cri'.ctrs, b \in cri.boxes : c.box = b.id => \E a \in cri'.boxes : a.id = b.id
      BY <1>2, <1>4
    <2> QED BY <1>1, <2>1, <2>2, <2>3, <2>4, <2>5 DEF Winds
  <1>7. Leaves
    BY <1>3, <1>4 DEF Leaves
  <1>8. api' = api /\ agent' = Idle /\ events' >= events
    BY EventsGrow DEF Reboot
  <1>9. AgentInv'
    BY <1>6, <1>8, Rests DEF AgentInv
  <1>10. Counted'
    BY <1>6, <1>7, <1>8, UsableHere, LeavesLead, Standing
  <1>11. Boxed' /\ Superseded'
    BY <1>6, <1>8, WindingBoxes
  <1>12. Projected'
    <2>1. \A c \in cri'.ctrs : c.st # "running"
      BY <1>3, <1>4
    <2>2. \A u \in Uids : vol'[u].data = {}
      BY DEF Reboot, NoVolume
    <2> QED BY <2>1, <2>2 DEF Projected
  <1> QED BY <1>8, <1>9, <1>10, <1>11, <1>12, Unedited

\* A Pod is changed, or it is a new one.
Continues(q, p) == /\ q.uid = p.uid /\ q.name = p.name /\ q.status = p.status
                   /\ p.hash <= q.hash /\ (p.terminating => q.terminating)

LEMMA EditsKeep ==
    ASSUME IInv, Typed', spec' = spec, UserEdits
    PROVE  IInv'
  <1> USE DEF IInv, World, AgentInv
  <1> DEFINE u == events + Cardinality(Names) + 1
  <1>1. cri' = cri /\ vol' = vol /\ agent' = agent /\ events' = events + 1
    BY DEF UserEdits, Spend
  <1>2. Winds /\ Leaves /\ events' >= events
    BY <1>1, Idling DEF Typed
  <1>3. Used \subseteq Used' /\ u \in Used' /\ u \notin Used
    BY <1>1, Constants DEF Used, Typed
  <1>4. PICK n \in Names :
          /\ \A m \in Names : m # n => api'[m] = api[m]
          /\ \/ \E p \in api[n] : api'[n] = {[p EXCEPT !.hash = @ + 1]}
             \/ \E p \in api[n] : api'[n] = {[p EXCEPT !.terminating = TRUE]}
             \/ api'[n] = {}
             \/ api'[n] = {NewPod(n, u)}
    BY DEF UserEdits, Fresh, Typed
  <1>5. \A p \in api[n] : /\ Continues([p EXCEPT !.hash = @ + 1], p)
                          /\ Continues([p EXCEPT !.terminating = TRUE], p)
    BY DEF Continues, Typed, Pod
  <1>6. NewPod(n, u).uid = u /\ NewPod(n, u).name = n
    BY DEF NewPod
  <1> HIDE DEF u
  <1>7. /\ \A q \in api'[n] : (\E p \in api[n] : Continues(q, p)) \/ (q.uid = u /\ q.name = n)
        /\ \A p, q \in api'[n] : p = q
    BY <1>4, <1>5, <1>6
  <1>8. \A m \in Names : \A q \in api'[m] :
          (\E p \in api[m] : Continues(q, p)) \/ (m = n /\ q.uid = u /\ q.name = n)
    <2>1. \A m \in Names : \A q \in api[m] : Continues(q, q)
      BY DEF Continues, Typed, Pod
    <2> QED BY <1>4, <1>7, <2>1
  <1>9. \A c \in cri.ctrs : c.uid # u
    BY <1>3 DEF Boxed
  <1>10. \A b \in cri.boxes : b.uid # u
    BY <1>3 DEF Boxed
  <1>11. Identified'
    <2>1. \A m \in Names : \A q \in api'[m] : q.name = m /\ q.uid \in Used'
      BY <1>3, <1>8 DEF Identified, Continues
    <2>2. ASSUME NEW k \in Names, NEW m \in Names, NEW p \in api'[k], NEW q \in api'[m],
                 k = m \/ p.uid = q.uid
          PROVE  p = q
      <3>1. k = m
        BY <1>3, <1>8, <2>2 DEF Identified, Continues
      <3>2. CASE m = n
        BY <1>7, <3>1, <3>2
      <3>3. CASE m # n
        BY <1>4, <3>1, <3>3 DEF Identified
      <3> QED BY <3>2, <3>3
    <2> QED BY <2>1, <2>2 DEF Identified
  <1>12. Listing'
    <2>1. Open' = Open
      BY <1>1 DEF Open
    <2>2. \A p \in Open, m \in Names : \A q \in api'[m] : p.uid = q.uid =>
          /\ p.name = m /\ p.status = q.status /\ p.hash <= q.hash
          /\ p.terminating => q.terminating
      <3> SUFFICES ASSUME NEW p \in Open, NEW m \in Names, NEW q \in api'[m], p.uid = q.uid
                   PROVE  /\ p.name = m /\ p.status = q.status /\ p.hash <= q.hash
                          /\ p.terminating => q.terminating
        OBVIOUS
      <3>1. q.uid # u
        BY <1>3 DEF Listing
      <3>2. PICK r \in api[m] : Continues(q, r)
        BY <1>8, <3>1
      <3>3. /\ p.name = m /\ p.status = r.status /\ p.hash <= r.hash
            /\ p.terminating => r.terminating
        BY <3>2 DEF Listing, Continues
      <3>4. p.hash \in Nat /\ r.hash \in Nat /\ q.hash \in Nat
        BY DEF Open, Typed, Agent, Pod
      <3> QED BY <3>2, <3>3, <3>4 DEF Continues
    <2>3. \A m \in Names : \A p \in api'[m], c \in cri.ctrs : c.uid = p.uid => c.hash <= p.hash
      <3> SUFFICES ASSUME NEW m \in Names, NEW p \in api'[m], NEW c \in cri.ctrs, c.uid = p.uid
                   PROVE  c.hash <= p.hash
        OBVIOUS
      <3>1. PICK r \in api[m] : Continues(p, r)
        BY <1>8, <1>9
      <3>2. c.hash <= r.hash
        BY <3>1 DEF Listing, Continues
      <3>3. c.hash \in Nat /\ r.hash \in Nat /\ p.hash \in Nat
        BY DEF Typed, Pod, Ctr
      <3> QED BY <3>1, <3>2, <3>3 DEF Continues
    <2>4. agent.pc # "idle" =>
            \A b \in cri.boxes, m \in Names : \A q \in api'[m] : b.uid = q.uid => b.uid \in agent.desired
      BY <1>8, <1>10 DEF Listing, Continues
    <2>5. \A p \in Open : p.uid \in Used' \cap agent.desired
      BY <1>3 DEF Listing
    <2>6. /\ agent.todo \cap agent.pod = {}
          /\ \A p, q \in Open : p.uid = q.uid => p = q
          /\ \A p \in Open, c \in cri.ctrs : c.uid = p.uid => c.hash <= p.hash
      BY DEF Listing
    <2> HIDE DEF Open
    <2> QED BY <1>1, <2>1, <2>2, <2>3, <2>4, <2>5, <2>6 DEF Listing
  <1>13. Seen' /\ AtBox'
    BY <1>1 DEF Seen, AtBox, Awaiting
  <1>14. AtCtr'
    <2>1. \A c \in cri.ctrs : Last(c)' = Last(c) /\ Over(c)' = Over(c)
      BY <1>1 DEF Last, Over
    <2> QED BY <1>1, <2>1 DEF AtCtr
  <1>15. Counted'
    <2>1. \A m \in Names : \A q \in api'[m] : ~q.terminating =>
              (\A c \in cri.ctrs : c.uid # q.uid) \/ \E p \in api[m] :
                 p.uid = q.uid /\ ~p.terminating /\ p.status.restarts = q.status.restarts
      BY <1>8, <1>9 DEF Continues
    <2> QED BY <1>1, <1>2, <2>1, UsableHere, LeavesLead, CountedKept
  <1>16. Boxed' /\ Superseded' /\ Projected'
    BY <1>1, <1>2, WindingBoxes, WindingVolumes
  <1> QED BY <1>11, <1>12, <1>13, <1>14, <1>15, <1>16

-----------------------------------------------------------------------------
(* The sweep.                                                              *)

\* A step of the agent that leaves the runtime, the API and the volumes alone.
LEMMA Alone ==
    ASSUME IInv, Typed', spec' = spec, UNCHANGED <<api, cri, vol, events>>, AgentInv',
           \/ agent'.seen \subseteq agent.seen /\ agent'.box \in {0, agent.box}
           \/ agent'.seen \subseteq agent.seen /\ \E x \in agent.seen : x.id = agent'.box /\ x.ready
           \/ agent'.seen = cri.boxes /\ agent'.box = agent.box
    PROVE  IInv'
  <1> USE DEF IInv, World
  <1>1. Winds /\ Leaves /\ events' >= events
    BY Idling DEF Typed
  <1>2. UsableStays
    <2>1. CASE agent'.seen \subseteq agent.seen
      BY <1>1, <2>1, UsableFewer
    <2>2. CASE agent'.seen = cri.boxes /\ agent'.box = agent.box
      <3>1. \A b \in cri.boxes : Usable(b)' => Usable(b)
        BY <2>2 DEF Usable, Boxed
      <3> QED BY <3>1 DEF UsableStays
    <2> QED BY <2>1, <2>2
  <1> QED BY <1>1, <1>2, Nothing

\* What does not depend on the agent does not change.
LEMMA ListingAlone ==
    ASSUME Typed, Typed', Boxed, Listing, Seen, UNCHANGED <<api, cri, vol, events>>, Keeps
    PROVE  Listing' /\ Seen'
  <1>1. Winds /\ events' >= events
    BY Idling DEF Typed
  <1> QED BY <1>1, ListingKept, SeenKept

LEMMA ListKeeps ==
    ASSUME IInv, Typed', spec' = spec, List
    PROVE  IInv'
  <1> USE DEF IInv, World, AgentInv
  <1> DEFINE P == UNION {api[n] : n \in Names}
             D == {p.uid : p \in P}
  <1>1. UNCHANGED <<api, cri, vol, events>>
    BY DEF List, Local
  <1>2. \A p \in P : \E n \in Names : p \in api[n]
    OBVIOUS
  <1>3. \A n \in Names : \A p \in api[n] : p \in P /\ p.uid \in D
    OBVIOUS
  <1>4. agent' = [Idle EXCEPT !.pc = "boxes", !.todo = P, !.desired = D]
    BY DEF List, Local
  <1> HIDE DEF P, D
  <1>5. /\ agent'.pc = "boxes" /\ agent'.todo = P /\ agent'.desired = D /\ agent'.pod = {}
        /\ agent'.seen = {} /\ agent'.doomed = {} /\ agent'.box = 0 /\ agent'.cur = 0
    BY <1>4 DEF Idle
  <1>6. Listing'
    <2>1. Open' = P /\ Used' = Used
      BY <1>1, <1>5 DEF Open, Used
    <2>2. \A p \in P : p.uid \in Used' \cap agent'.desired
      BY <1>2, <1>3, <1>5, <2>1 DEF Identified
    <2>3. \A p, q \in P : p.uid = q.uid => p = q
      BY <1>2 DEF Identified
    <2>4. \A p \in P, n \in Names : \A q \in api[n] : p.uid = q.uid => p = q /\ p.name = n /\ p.hash <= q.hash
      <3>1. \A p \in P, n \in Names : \A q \in api[n] : p.uid = q.uid => p = q /\ p.name = n
        BY <1>2 DEF Identified
      <3>2. \A n \in Names : \A q \in api[n] : q.hash \in Nat
        BY DEF Typed, Pod
      <3> QED BY <3>1, <3>2
    <2>5. \A p \in P, c \in cri.ctrs : c.uid = p.uid => c.hash <= p.hash
      BY <1>2 DEF Listing
    <2>6. \A b \in cri.boxes, n \in Names : \A q \in api[n] : b.uid = q.uid => b.uid \in D
      BY <1>3
    <2>7. \A n \in Names : \A p \in api[n], c \in cri.ctrs : c.uid = p.uid => c.hash <= p.hash
      BY DEF Listing
    <2> QED BY <1>1, <1>5, <2>1, <2>2, <2>3, <2>4, <2>5, <2>6, <2>7 DEF Listing
  <1>7. Seen'
    BY <1>5 DEF Seen
  <1>8. AtBox' /\ AtCtr'
    BY <1>5 DEF AtBox, AtCtr, InCtr, InBox
  <1> QED BY <1>1, <1>5, <1>6, <1>7, <1>8, Alone

LEMMA ListBoxesKeeps ==
    ASSUME IInv, Typed', spec' = spec, ListBoxes
    PROVE  IInv'
  <1> USE DEF IInv, World, AgentInv
  <1>1. UNCHANGED <<api, cri, vol, events>>
    BY DEF ListBoxes, Local
  <1>2. /\ agent'.pc = "next" /\ agent'.todo = agent.todo /\ agent'.desired = agent.desired
        /\ agent'.pod = agent.pod /\ agent'.seen = cri.boxes /\ agent'.doomed = agent.doomed
        /\ agent'.box = agent.box /\ agent'.cur = agent.cur
    BY DEF ListBoxes, Local, Typed, Agent
  <1>3. agent.pc = "boxes" /\ agent.pod = {} /\ agent.doomed = {} /\ agent.cur = 0
    BY DEF ListBoxes, Typed, Between, Seen, AtCtr, InCtr, InBox
  <1>4. Listing'
    BY <1>1, <1>2, <1>3 DEF Listing, Open, Used
  <1>5. Seen'
    BY <1>1, <1>2, <1>3 DEF Seen, Awaiting, Boxed
  <1>6. AtBox' /\ AtCtr'
    BY <1>2, <1>3 DEF AtBox, AtCtr, InCtr, InBox
  <1> QED BY <1>1, <1>2, <1>4, <1>5, <1>6, Alone

LEMMA NextPodKeeps ==
    ASSUME IInv, Typed', spec' = spec, NextPod
    PROVE  IInv'
  <1> USE DEF IInv, World, AgentInv
  <1>1. UNCHANGED <<api, cri, vol, events>>
    BY DEF NextPod, Local
  <1>2. agent.pc = "next" /\ agent.pod = {} /\ agent.cur = 0
    BY DEF NextPod, Typed, Between, AtCtr, InCtr, InBox
  <1>3. PICK p \in agent.todo :
          /\ agent'.todo = agent.todo \ {p} /\ agent'.pod = {p}
          /\ agent'.desired = agent.desired /\ agent'.seen = agent.seen
          /\ agent'.box = agent.box /\ agent'.cur = agent.cur
          /\ \/ p.terminating /\ agent'.pc = "terminate" /\ agent'.doomed = Own(p)
             \/ ~p.terminating /\ agent'.pc = "prepare" /\ agent'.doomed = agent.doomed
    <2>1. PICK p \in agent.todo :
            LET taken == [agent EXCEPT !.todo = @ \ {p}, !.pod = {p}] IN
            IF p.terminating
            THEN agent' = [taken EXCEPT !.pc = "terminate", !.doomed = Own(p)]
            ELSE agent' = [taken EXCEPT !.pc = "prepare"]
      BY DEF NextPod, Local
    <2>2. PICK taken : taken = [agent EXCEPT !.todo = @ \ {p}, !.pod = {p}]
      OBVIOUS
    <2>3. /\ taken \in Agent /\ taken.todo = agent.todo \ {p} /\ taken.pod = {p}
          /\ taken.desired = agent.desired /\ taken.seen = agent.seen /\ taken.box = agent.box
          /\ taken.cur = agent.cur /\ taken.doomed = agent.doomed
      BY <2>2 DEF Typed, Agent
    <2>4. CASE p.terminating
      <3>1. agent' = [taken EXCEPT !.pc = "terminate", !.doomed = Own(p)]
        BY <2>1, <2>2, <2>4
      <3> QED BY <2>3, <2>4, <3>1 DEF Agent
    <2>5. CASE ~p.terminating
      <3>1. agent' = [taken EXCEPT !.pc = "prepare"]
        BY <2>1, <2>2, <2>5
      <3> QED BY <2>3, <2>5, <3>1 DEF Agent
    <2> QED BY <2>4, <2>5
  <1>4. Keeps
    BY <1>2, <1>3 DEF Keeps, Open, Awaiting, Own, Seen
  <1>5. AtBox'
    <2>1. p.terminating \in BOOLEAN
      BY DEF Typed, Agent, Pod
    <2> QED BY <1>3, <2>1 DEF AtBox, InBox, Own
  <1>6. AtCtr'
    BY <1>2, <1>3 DEF AtCtr, InCtr, InBox
  <1> QED BY <1>1, <1>3, <1>4, <1>5, <1>6, ListingAlone, Alone

LEMMA EndKeeps ==
    ASSUME IInv, Typed', spec' = spec, EndPods \/ EndSweep
    PROVE  IInv'
  <1> USE DEF IInv, World, AgentInv
  <1>1. UNCHANGED <<api, cri, vol, events>>
    BY DEF EndPods, EndSweep, Local
  <1>2. CASE EndPods
    <2>1. agent.pc = "next" /\ agent.pod = {} /\ agent.cur = 0
      BY <1>2 DEF EndPods, Typed, Between, AtCtr, InCtr, InBox
    <2>2. /\ agent'.pc = "orphans" /\ agent'.todo = agent.todo /\ agent'.desired = agent.desired
          /\ agent'.pod = agent.pod /\ agent'.seen = agent.seen /\ agent'.doomed = Orphaned
          /\ agent'.box = agent.box /\ agent'.cur = agent.cur
      BY <1>2 DEF EndPods, Local, Typed, Agent
    <2>3. Keeps
      BY <2>1, <2>2 DEF Keeps, Open, Awaiting, Orphaned
    <2>4. AtBox' /\ AtCtr'
      BY <2>1, <2>2 DEF AtBox, AtCtr, InCtr, InBox, Orphaned
    <2> QED BY <1>1, <2>2, <2>3, <2>4, ListingAlone, Alone
  <1>3. CASE EndSweep
    <2>1. agent' = Idle
      BY <1>3 DEF EndSweep
    <2>2. AgentInv'
      BY <1>1, <2>1, Idling, Rests
    <2>3. agent'.seen = {} /\ agent'.box = 0
      BY <2>1 DEF Idle
    <2> QED BY <1>1, <2>2, <2>3, Alone
  <1> QED BY <1>2, <1>3

\* A removal takes no container away that may still be counted on.
LEMMA RemovalLeads ==
    ASSUME IInv, agent.pc \in {"terminate", "stale", "orphans"}, NEW b \in agent.doomed,
           cri' = removal(b)
    PROVE  Winds /\ Leads
  <1> USE DEF IInv, World, AgentInv
  <1>1. b \in Box /\ b \in agent.seen
    BY DEF Typed, Agent, Seen
  <1>2. Winds /\ \A c \in cri.ctrs : c.box # b.id => c \in cri'.ctrs
    BY <1>1, Removing
  <1>3. ASSUME NEW n \in Names, NEW q \in api[n], NEW a \in cri.boxes,
               ~q.terminating, a.uid = q.uid, Usable(a), a.id = b.id
        PROVE  FALSE
    <2>1. a.uid = b.uid /\ (a.ready => b.ready)
      BY <1>1, <1>3 DEF Seen
    <2>2. CASE agent.pc = "orphans"
      <3>1. b.uid \notin agent.desired
        BY <2>2 DEF AtBox
      <3>2. a.uid \in agent.desired
        BY <1>3, <2>2 DEF Listing
      <3> QED BY <2>1, <3>1, <3>2
    <2>3. ASSUME agent.pc \in {"terminate", "stale"}
          PROVE  \E p \in agent.pod : p \in Open
      BY <2>3 DEF Typed, Between, Open
    <2>4. CASE agent.pc = "terminate"
      <3>1. PICK p \in agent.pod : p \in Open
        BY <2>3, <2>4
      <3>2. p.terminating /\ b.uid = p.uid
        BY <2>4 DEF AtBox
      <3> QED BY <1>3, <2>1, <3>1, <3>2 DEF Listing
    <2>5. CASE agent.pc = "stale"
      <3>1. ~b.ready /\ b.id # agent.box
        BY <2>3, <2>5 DEF AtBox
      <3>2. PICK x \in agent.seen : x.id = a.id /\ x.ready
        BY <1>3, <2>1, <3>1 DEF Usable
      <3>3. x.uid = b.uid
        BY <1>3, <2>1, <3>2 DEF Seen
      <3> QED BY <1>1, <3>1, <3>2, <3>3 DEF Seen
    <2> QED BY <2>2, <2>4, <2>5
  <1>4. \A c \in cri.ctrs : c.id >= c.id
    BY DEF Typed, Ctr, Ids
  <1> QED BY <1>2, <1>3, <1>4 DEF Leads

LEMMA RemovalKeeps ==
    ASSUME IInv, Typed', spec' = spec, agent.pc \in {"terminate", "stale", "orphans"},
           NEW b \in agent.doomed,
           Rpc(removal(b), IF \E x \in removal(b).boxes : x.id = b.id THEN agent
                           ELSE [agent EXCEPT !.doomed = @ \ {b}])
    PROVE  IInv'
  <1> USE DEF IInv, World, AgentInv
  <1>1. api' = api /\ vol' = vol /\ events' >= events /\ cri' \in {cri, removal(b)}
    BY EventsGrow DEF Rpc
  <1>2. Winds /\ Leads
    BY <1>1, RemovalLeads, Idling, LeavesLead
  <1>3. \/ agent' = Failed
        \/ agent' = agent
        \/ /\ agent' = [agent EXCEPT !.doomed = @ \ {b}]
           /\ \A x \in cri'.boxes : x.id # b.id
    BY DEF Rpc
  <1>4. World'
    BY <1>1, <1>2, Around
  <1>5. CASE agent' = Failed
    <2>1. AgentInv'
      BY <1>1, <1>2, <1>5, Fails
    <2> QED BY <1>1, <1>2, <1>4, <1>5, <2>1, UsableHere, Standing
  <1>6. ASSUME NEW D \in SUBSET agent.doomed, agent' = [agent EXCEPT !.doomed = D],
               \A x \in agent.doomed \ D : \A y \in cri'.boxes : y.id # x.id
        PROVE  IInv'
    <2>1. /\ agent'.pc = agent.pc /\ agent'.todo = agent.todo /\ agent'.desired = agent.desired
          /\ agent'.pod = agent.pod /\ agent'.seen = agent.seen /\ agent'.doomed = D
          /\ agent'.box = agent.box /\ agent'.cur = agent.cur
      BY <1>6 DEF Typed, Agent
    <2>2. Keeps
      BY <2>1 DEF Keeps, Open, Awaiting, Listing, Seen
    <2>3. Listing' /\ Seen'
      BY <1>1, <1>2, <2>2, ListingKept, SeenKept
    <2>4. \A y \in cri'.boxes : \E a \in cri.boxes : a.id = y.id /\ a.uid = y.uid
      BY <1>2 DEF Winds
    <2>5. AtBox'
      <3>1. ASSUME NEW p \in agent.pod, agent.pc = "stale", NEW y \in cri'.boxes, y.uid = p.uid
            PROVE  y.id = agent.box \/ \E x \in D : x.id = y.id
        BY <1>6, <2>4, <3>1 DEF AtBox
      <3>2. agent.pc \notin InBox
        BY DEF InBox
      <3> QED BY <1>1, <1>2, <2>1, <2>4, <3>1, <3>2 DEF AtBox, Winds
    <2>6. AtCtr'
      BY <2>1 DEF AtCtr, InCtr, InBox
    <2>7. UsableStays
      BY <1>2, <2>1, UsableFewer
    <2> QED BY <1>1, <1>2, <1>4, <2>3, <2>5, <2>6, <2>7, Standing
  <1>7. CASE agent' = agent
    <2>1. agent' = [agent EXCEPT !.doomed = agent.doomed]
      BY <1>7 DEF Typed, Agent
    <2> QED BY <1>6, <2>1
  <1>8. CASE /\ agent' = [agent EXCEPT !.doomed = @ \ {b}]
             /\ \A x \in cri'.boxes : x.id # b.id
    <2> DEFINE D == agent.doomed \ {b}
    <2>1. D \in SUBSET agent.doomed /\ agent' = [agent EXCEPT !.doomed = D]
      BY <1>8
    <2>2. \A x \in agent.doomed \ D : x = b
      OBVIOUS
    <2> HIDE DEF D
    <2> QED BY <1>6, <1>8, <2>1, <2>2
  <1> QED BY <1>3, <1>5, <1>7, <1>8

LEMMA RemovalsKeep ==
    ASSUME IInv, Typed', spec' = spec, Terminate \/ RemoveStale \/ RemoveOrphans
    PROVE  IInv'
  <1> USE DEF IInv, World, AgentInv
  <1>1. agent.pc \in {"terminate", "stale", "orphans"}
    BY DEF Terminate, RemoveStale, RemoveOrphans
  <1>2. CASE agent.doomed # {}
    BY <1>1, <1>2, RemovalKeeps DEF Terminate, RemoveStale, RemoveOrphans, Removal
  <1>3. CASE agent.doomed = {}
    <2>1. UNCHANGED <<api, cri, vol, events>>
      BY <1>3 DEF Terminate, RemoveStale, RemoveOrphans, Removal, Local
    <2>2. \/ agent.pc = "terminate" /\ agent' = [agent EXCEPT !.pc = "erase"]
          \/ agent.pc = "stale" /\ agent' = [agent EXCEPT !.pc = "run"]
          \/ agent.pc = "orphans" /\ agent' = [agent EXCEPT !.pc = "dirs"]
      BY <1>3 DEF Terminate, RemoveStale, RemoveOrphans, Removal, Local
    <2>3. /\ agent'.todo = agent.todo /\ agent'.desired = agent.desired
          /\ agent'.pod = agent.pod /\ agent'.seen = agent.seen /\ agent'.doomed = {}
          /\ agent'.box = agent.box /\ agent'.cur = agent.cur
          /\ \/ agent.pc = "terminate" /\ agent'.pc = "erase"
             \/ agent.pc = "stale" /\ agent'.pc = "run"
             \/ agent.pc = "orphans" /\ agent'.pc = "dirs"
      BY <1>3, <2>2 DEF Typed, Agent
    <2>4. Keeps
      BY <2>3 DEF Keeps, Open, Awaiting, Listing
    <2>5. AtBox'
      BY <1>3, <2>1, <2>3 DEF AtBox, InBox
    <2>6. AtCtr'
      BY <2>3 DEF AtCtr, InCtr, InBox
    <2> QED BY <2>1, <2>3, <2>4, <2>5, <2>6, ListingAlone, Alone
  <1> QED BY <1>2, <1>3

-----------------------------------------------------------------------------
(* Volumes.                                                                *)

\* A step on the volume of a Pod.
LEMMA VolumeKeeps ==
    ASSUME IInv, Typed', spec' = spec, UNCHANGED <<api, cri, events>>, NEW u \in Uids,
           \A w \in Uids : w # u => vol'[w] = vol[w],
           /\ vol'[u].data \subseteq vol'[u].gens
           /\ \A g, h \in vol'[u].data : g.whole /\ g = h,
           \/ \A c \in cri.ctrs : c.uid = u => c.st # "running"
           \/ vol[u].mounted => vol'[u].mounted /\ (vol[u].data # {} => vol'[u].data # {}),
           AgentInv', agent'.seen = agent.seen, agent'.box = agent.box
    PROVE  IInv'
  <1> USE DEF IInv, World
  <1>1. Winds /\ Leaves /\ events' >= events
    BY Idling DEF Typed
  <1>2. Identified' /\ Boxed' /\ Superseded'
    BY <1>1, Unedited, WindingBoxes
  <1>3. Projected'
    BY DEF Projected
  <1>4. UsableStays
    BY <1>1, UsableFewer
  <1> QED BY <1>1, <1>2, <1>3, <1>4, LeavesLead, Standing

LEMMA ErasureKeeps ==
    ASSUME IInv, Typed', spec' = spec, Erase \/ EraseOrphans
    PROVE  IInv'
  <1> USE DEF IInv, World, AgentInv
  <1>0. agent.pc \in {"erase", "dirs"}
    BY DEF Erase, EraseOrphans
  <1>1. ASSUME UNCHANGED <<api, cri, vol, events>>, agent' = Idle PROVE IInv'
    <2>1. AgentInv'
      BY <1>1, Idling, Rests
    <2>2. agent'.seen = {} /\ agent'.box = 0
      BY <1>1 DEF Idle
    <2> QED BY <1>1, <2>1, <2>2, Alone
  <1>2. ASSUME UNCHANGED <<api, cri, vol, events>>, agent' = Onward PROVE IInv'
    <2>1. Winds /\ events' >= events
      BY <1>2, Idling DEF Typed
    <2>2. AgentInv'
      BY <1>0, <1>2, <2>1, GoesOn
    <2>3. agent'.seen = agent.seen /\ agent'.box = 0
      BY <1>2, GoingOn
    <2> QED BY <1>2, <2>2, <2>3, Alone
  <1>3. ASSUME NEW u \in Uids, UNCHANGED <<api, cri, events, agent>>,
               ~(vol[u].mounted /\ \E c \in cri.ctrs : c.uid = u /\ c.st = "running"),
               vol' = [vol EXCEPT ![u] = IF @.mounted THEN [NoVolume EXCEPT !.dir = TRUE]
                                         ELSE NoVolume]
        PROVE  IInv'
    <2>1. vol'[u].data = {} /\ \A w \in Uids : w # u => vol'[w] = vol[w]
      BY <1>3 DEF Typed, NoVolume
    <2>2. \A c \in cri.ctrs : c.uid = u => c.st # "running"
      BY <1>3 DEF Projected
    <2>3. AgentInv'
      <3>1. Listing' /\ Seen'
        BY <1>3 DEF Listing, Seen, Open, Awaiting, Used
      <3>2. AtBox'
        BY <1>0, <1>3 DEF AtBox, InBox
      <3>3. AtCtr'
        BY <1>0, <1>3 DEF AtCtr, InCtr, InBox
      <3> QED BY <3>1, <3>2, <3>3
    <2> QED BY <1>3, <2>1, <2>2, <2>3, VolumeKeeps
  <1>4. ASSUME NEW U \in SUBSET Uids, Erasure(U, Onward), agent.pc = "erase" PROVE IInv'
    BY <1>1, <1>2, <1>3, <1>4 DEF Erasure, Local
  <1>5. ASSUME NEW U \in SUBSET Uids, \E u \in U : vol[u] # NoVolume, Erasure(U, agent) PROVE IInv'
    BY <1>1, <1>3, <1>5 DEF Erasure, Local
  <1>6. CASE Erase
    <2>1. Mine.uid \in Uids
      BY <1>6, AtPod DEF Erase, Between, Pod
    <2> QED BY <1>4, <1>6, <2>1 DEF Erase
  <1>7. CASE EraseOrphans
    BY <1>5, <1>7 DEF EraseOrphans
  <1> QED BY <1>6, <1>7

\* The ..data name is of one complete generation that is there.
Sound(v) == v.data \subseteq v.gens /\ \A g, h \in v.data : g.whole /\ g = h

\* A projection keeps a volume sound, and only ends with a published generation.
LEMMA Projecting ==
    ASSUME NEW v \in Volume, NEW want \in Nat, Sound(v)
    PROVE  LET w == projection(v, want) IN
           /\ Sound(w) /\ w.mounted = v.mounted /\ (v.data # {} => w.data # {})
           /\ w = v => w.data # {}
  <1> USE DEF Sound
  <1> DEFINE part == [v |-> want, whole |-> FALSE]
             full == [v |-> want, whole |-> TRUE]
             w == projection(v, want)
  <1> SUFFICES /\ Sound(w) /\ w.mounted = v.mounted /\ (v.data # {} => w.data # {})
               /\ (w = v => w.data # {})
    OBVIOUS
  <1>1. full.whole /\ ~part.whole
    OBVIOUS
  <1>2. w = IF v.data = {full} THEN [v EXCEPT !.gens = {full}]
            ELSE IF full \in v.gens THEN [v EXCEPT !.data = {full}]
            ELSE IF part \in v.gens THEN [v EXCEPT !.gens = (@ \ {part}) \cup {full}]
            ELSE [v EXCEPT !.gens = @ \cup {part}]
    BY DEF projection
  <1> HIDE DEF part, full, w
  <1>3. CASE v.data = {full}
    <2>1. w.gens = {full} /\ w.data = v.data /\ w.mounted = v.mounted
      BY <1>2, <1>3 DEF Volume
    <2> QED BY <1>1, <1>3, <2>1
  <1>4. CASE v.data # {full} /\ full \in v.gens
    <2>1. w.gens = v.gens /\ w.data = {full} /\ w.mounted = v.mounted
      BY <1>2, <1>4 DEF Volume
    <2> QED BY <1>1, <1>4, <2>1
  <1>5. CASE v.data # {full} /\ full \notin v.gens /\ part \in v.gens
    <2>1. w.gens = (v.gens \ {part}) \cup {full} /\ w.data = v.data /\ w.mounted = v.mounted
      BY <1>2, <1>5 DEF Volume
    <2> QED BY <1>1, <1>5, <2>1
  <1>6. CASE v.data # {full} /\ full \notin v.gens /\ part \notin v.gens
    <2>1. w.gens = v.gens \cup {part} /\ w.data = v.data /\ w.mounted = v.mounted
      BY <1>2, <1>6 DEF Volume
    <2> QED BY <1>1, <1>6, <2>1
  <1> QED BY <1>3, <1>4, <1>5, <1>6

\* A step that fails without an effect on the runtime.
LEMMA FailedKeeps ==
    ASSUME IInv, Typed', spec' = spec, UNCHANGED <<api, cri, vol>>, events' >= events,
           agent' = Failed
    PROVE  IInv'
  <1> USE DEF IInv, World, AgentInv
  <1>1. Winds /\ Leaves
    BY Idling
  <1>2. AgentInv'
    BY <1>1, Fails
  <1> QED BY <1>1, <1>2, UsableHere, Nothing

LEMMA PrepareKeeps ==
    ASSUME IInv, Typed', spec' = spec, Prepare
    PROVE  IInv'
  <1> USE DEF IInv, World, AgentInv
  <1>1. CASE ~Resolved
    <2>1. UNCHANGED <<api, cri, vol, events>> /\ agent' = Failed
      BY <1>1 DEF Prepare, Local
    <2> QED BY <2>1, FailedKeeps DEF Typed
  <1>2. CASE Resolved
    <2>1. agent.pc = "prepare" /\ agent.pod = {Mine} /\ Mine \in Pod /\ agent.cur = 0
      BY AtPod DEF Prepare, Between, AtCtr, InCtr, InBox
    <2> DEFINE u == Mine.uid
    <2>2. u \in Uids /\ vol[u] \in Volume
      BY <2>1 DEF Pod, Typed
    <2>3. /\ vol' = [vol EXCEPT ![u] = IF vol[u].mounted THEN vol[u]
                                       ELSE [NoVolume EXCEPT !.dir = TRUE, !.mounted = TRUE]]
          /\ UNCHANGED <<api, cri, events>>
      BY <1>2 DEF Prepare, SetVolume
    <2>4. [NoVolume EXCEPT !.dir = TRUE, !.mounted = TRUE].data = {}
           /\ [NoVolume EXCEPT !.dir = TRUE, !.mounted = TRUE].mounted
      BY DEF NoVolume
    <2>5. /\ \A w \in Uids : w # u => vol'[w] = vol[w]
          /\ vol'[u].mounted
          /\ vol'[u].data \subseteq vol'[u].gens
          /\ \A g, h \in vol'[u].data : g.whole /\ g = h
          /\ vol[u].mounted => vol'[u].mounted /\ (vol[u].data # {} => vol'[u].data # {})
      BY <2>2, <2>3, <2>4 DEF Projected, Typed
    <2>6. agent' = [agent EXCEPT !.pc = "project", !.want = conf]
      BY <1>2 DEF Prepare
    <2>7. /\ agent'.pc = "project" /\ agent'.todo = agent.todo /\ agent'.desired = agent.desired
          /\ agent'.pod = agent.pod /\ agent'.seen = agent.seen /\ agent'.doomed = agent.doomed
          /\ agent'.box = agent.box /\ agent'.cur = agent.cur
      BY <2>6 DEF Typed, Agent
    <2>8. Listing' /\ Seen'
      BY <2>1, <2>3, <2>7 DEF Listing, Seen, Open, Awaiting, Used
    <2>9. AtBox'
      BY <2>1, <2>5, <2>7 DEF AtBox, InBox
    <2>10. AtCtr'
      BY <2>1, <2>7 DEF AtCtr, InCtr, InBox
    <2> QED BY <2>2, <2>3, <2>5, <2>7, <2>8, <2>9, <2>10, VolumeKeeps
  <1> QED BY <1>1, <1>2

LEMMA ProjectKeeps ==
    ASSUME IInv, Typed', spec' = spec, Project
    PROVE  IInv'
  <1> USE DEF IInv, World, AgentInv
  <1> DEFINE p == Mine
             u == p.uid
             v == vol[u]
             w == projection(v, agent.want)
             own == Own(p)
             box == IF Existing(own) = {} THEN 0 ELSE (CHOOSE b \in Existing(own) : TRUE).id
  <1>1. agent.pc = "project" /\ agent.pod = {p} /\ p \in Pod /\ agent.cur = 0
    BY AtPod DEF Project, Between, AtCtr, InCtr, InBox
  <1>2. u \in Uids /\ v \in Volume /\ agent.want \in Nat /\ v.mounted
    BY <1>1 DEF Pod, Typed, Agent, AtBox
  <1>3. /\ w.data \subseteq w.gens /\ \A g, h \in w.data : g.whole /\ g = h
        /\ w.mounted = v.mounted /\ (v.data # {} => w.data # {})
        /\ w = v => w.data # {}
    <2>1. Sound(v)
      BY <1>2 DEF Projected, Sound
    <2>2. /\ Sound(w) /\ w.mounted = v.mounted /\ (v.data # {} => w.data # {})
          /\ w = v => w.data # {}
      <3> HIDE DEF v
      <3> QED BY <1>2, <2>1, Projecting
    <2> HIDE DEF w, v
    <2> QED BY <2>2 DEF Sound
  <1>4. CASE w # v
    <2>1. vol' = [vol EXCEPT ![u] = w] /\ UNCHANGED <<api, cri, events, agent>>
      BY <1>4 DEF Project, SetVolume
    <2> HIDE DEF w
    <2>2. vol'[u] = w /\ \A x \in Uids : x # u => vol'[x] = vol[x]
      BY <1>2, <2>1 DEF Typed
    <2>6. /\ vol'[u].mounted /\ vol'[u].data \subseteq vol'[u].gens
          /\ \A g, h \in vol'[u].data : g.whole /\ g = h
          /\ vol[u].data # {} => vol'[u].data # {}
      BY <1>2, <1>3, <2>2
    <2>3. Listing' /\ Seen'
      BY <2>1 DEF Listing, Seen, Open, Awaiting, Used
    <2>4. AtBox'
      <3>1. agent'.pc = "project" /\ agent'.pod = {p} /\ cri' = cri
        BY <1>1, <2>1
      <3> HIDE DEF p
      <3> QED BY <1>1, <2>1, <2>6, <3>1 DEF AtBox, InBox
    <2>5. AtCtr'
      BY <1>1, <2>1 DEF AtCtr, InCtr, InBox
    <2> HIDE DEF p
    <2> QED BY <1>2, <2>1, <2>2, <2>3, <2>4, <2>5, <2>6, VolumeKeeps
  <1>5. CASE w = v
    <2>1. UNCHANGED <<api, cri, vol, events>>
          /\ agent' = [agent EXCEPT !.pc = "stale", !.doomed = StaleBoxes(own), !.box = box]
      BY <1>5 DEF Project, Local
    <2>2. v.data # {}
      BY <1>3, <1>5
    <2>3. \A x, y \in own : x = y
      BY DEF Own, Seen
    <2>4. \A x \in own : x \in agent.seen /\ x.uid = u /\ x.id \in Nat /\ x.id < cri.next
      BY DEF Own, Seen, Typed, Agent, Box, Ids
    <2>5. \A x \in own : x \in Existing(own) <=> x.ready
      BY <2>3, <2>4 DEF Existing
    <2>6. \/ Existing(own) = {} /\ box = 0
          \/ \E e \in own : e \in Existing(own) /\ box = e.id
      <3>1. CASE Existing(own) # {}
        <4>1. (CHOOSE b \in Existing(own) : TRUE) \in Existing(own)
          BY <3>1
        <4> QED BY <3>1, <4>1 DEF Existing
      <3> QED BY <3>1
    <2>7. \A b \in cri.boxes : b.uid = u => \E x \in own : x.id = b.id
      <3> SUFFICES ASSUME NEW b \in cri.boxes, b.uid = u PROVE \E x \in own : x.id = b.id
        OBVIOUS
      <3>1. p \in Awaiting
        BY <1>1 DEF Awaiting
      <3>2. PICK x \in agent.seen : x.id = b.id
        BY <1>1, <3>1 DEF Seen
      <3> QED BY <3>2 DEF Seen, Own
    <2> DEFINE D == StaleBoxes(own)
    <2>8. \A x \in own : x \in D <=> ~x.ready
      BY <2>5 DEF StaleBoxes
    <2>9. D \subseteq own
      BY DEF StaleBoxes
    <2> HIDE DEF own, box, w, v, D
    <2>10. /\ agent'.pc = "stale" /\ agent'.todo = agent.todo /\ agent'.desired = agent.desired
           /\ agent'.pod = agent.pod /\ agent'.seen = agent.seen /\ agent'.doomed = D
           /\ agent'.box = box /\ agent'.cur = agent.cur
      BY <2>1 DEF Typed, Agent, D
    <2>11. Keeps
      BY <1>1, <2>4, <2>9, <2>10 DEF Keeps, Open, Awaiting, Listing
    <2>12. \A x \in D : ~x.ready /\ x.uid = u /\ x.id # box
      <3> SUFFICES ASSUME NEW x \in D PROVE ~x.ready /\ x.uid = u /\ x.id # box
        OBVIOUS
      <3>1. x \in own /\ ~x.ready /\ x.uid = u
        BY <2>4, <2>8, <2>9
      <3>2. x.id # 0
        BY <3>1, <2>4 DEF Typed, Agent, Box, Ids
      <3> QED BY <2>3, <2>5, <2>6, <3>1, <3>2
    <2>13. \A b \in cri.boxes : b.uid = u => b.id = box \/ \E x \in D : x.id = b.id
      <3> SUFFICES ASSUME NEW b \in cri.boxes, b.uid = u, \A x \in D : x.id # b.id PROVE b.id = box
        OBVIOUS
      <3>1. PICK x \in own : x.id = b.id
        BY <2>7
      <3>2. x \in Existing(own)
        BY <2>5, <2>8, <3>1
      <3> QED BY <2>3, <2>6, <3>1, <3>2
    <2>14. box < cri.next /\ \A b \in cri.boxes : b.id = box => b.uid = u
      <3>1. CASE box = 0
        <4>1. \A b \in cri.boxes : b.id # 0
          BY DEF Typed, Box, Ids
        <4> QED BY <3>1, <4>1 DEF Typed, Ids
      <3>2. CASE \E e \in own : box = e.id
        BY <2>4, <3>2 DEF Seen
      <3> QED BY <2>6, <3>1, <3>2
    <2>15. ~p.terminating
      BY <1>1 DEF AtBox
    <2>16. AtBox'
      BY <1>1, <1>2, <2>1, <2>2, <2>10, <2>12, <2>13, <2>14, <2>15 DEF AtBox, InBox, v
    <2>17. AtCtr'
      BY <1>1, <2>10 DEF AtCtr, InCtr, InBox
    <2>18. box = 0 \/ \E x \in agent.seen : x.id = box /\ x.ready
      BY <2>4, <2>5, <2>6
    <2>19. IInv'
      <3>1. UNCHANGED <<api, cri, vol, events>>
        BY <2>1
      <3>2. Listing' /\ Seen'
        BY <2>11, <3>1, ListingAlone
      <3> QED BY <2>10, <2>16, <2>17, <2>18, <3>1, <3>2, Alone
    <2> QED BY <2>19
  <1> QED BY <1>4, <1>5

-----------------------------------------------------------------------------
(* Sandbox and container.                                                  *)

\* Within a sandbox the sweep goes on.
LEMMA Moves ==
    ASSUME IInv, Typed', spec' = spec, Winds, Leads, api' = api, vol' = vol, events' >= events,
           agent.pc \in InBox, agent'.pc \in InBox,
           agent'.todo = agent.todo, agent'.pod = agent.pod, agent'.desired = agent.desired,
           agent'.seen = agent.seen, agent'.doomed = agent.doomed, agent'.box = agent.box,
           AtCtr'
    PROVE  IInv'
  <1> USE DEF IInv, World, AgentInv
  <1>1. Keeps
    BY DEF Keeps, InBox, Open, Awaiting, Listing, Seen
  <1>2. Listing' /\ Seen'
    BY <1>1, ListingKept, SeenKept
  <1>3. AtBox'
    <2>1. \A b \in cri'.boxes : \E a \in cri.boxes : a.id = b.id /\ a.uid = b.uid
      BY DEF Winds
    <2> QED BY <2>1 DEF AtBox, Winds, InBox
  <1>4. UsableStays
    BY UsableFewer
  <1>5. World'
    BY Around
  <1> QED BY <1>2, <1>3, <1>4, <1>5, Standing

\* In a sandbox with containers one is the last.
LEMMA LastExists ==
    ASSUME Typed, Boxed, NEW b, CtrsOf(b) # {}
    PROVE  \E c \in CtrsOf(b) : \A d \in CtrsOf(b) : d.id <= c.id
  <1> DEFINE I == 1..(cri.next - 1)
             Above(c) == {i \in I : \E d \in CtrsOf(b) : d.id = i /\ i > c.id}
             T == {Above(c) : c \in CtrsOf(b)}
  <1>1. \A c \in CtrsOf(b) : c.id \in I
    BY DEF CtrsOf, Boxed, Typed, Ctr, Ids
  <1>2. IsFiniteSet(I)
    <2>1. 1 \in Int /\ cri.next - 1 \in Int
      BY DEF Typed, Ids
    <2> QED BY <2>1, FS_Interval
  <1>3. T \subseteq FiniteSubsetsOf(I) /\ T # {}
    <2>1. T \subseteq SUBSET I /\ T # {}
      OBVIOUS
    <2> QED BY <1>2, <2>1, FS_FiniteSubsetsOfFinite
  <1>4. PICK U \in T : \A V \in T : <<V, U>> \notin StrictSubsetOrdering(I)
    BY <1>2, <1>3, FS_StrictSubsetOrderingWellFounded, WFMin
  <1>5. PICK c \in CtrsOf(b) : U = Above(c)
    BY <1>4
  <1>6. \A d \in CtrsOf(b) : d.id <= c.id
    <2> SUFFICES ASSUME NEW d \in CtrsOf(b), d.id > c.id PROVE FALSE
      BY <1>1
    <2>1. Above(d) \in T
      OBVIOUS
    <2>2. \A i \in Above(d) : i \in Above(c)
      BY <1>1
    <2>3. d.id \in Above(c) /\ d.id \notin Above(d)
      BY <1>1
    <2>4. <<Above(d), U>> \in StrictSubsetOrdering(I)
      BY <1>5, <2>2, <2>3 DEF StrictSubsetOrdering
    <2> QED BY <1>4, <2>1, <2>4
  <1> QED BY <1>6

\* The container of the latest attempt is the last one made.
LEMMA LatestIsLast ==
    ASSUME Typed, Boxed, Superseded
    PROVE  /\ \A c \in Latest : c \in cri.ctrs /\ Last(c)
           /\ Latest = {} => \A c \in cri.ctrs : c.box # agent.box
  <1>0. \A c \in CtrsOf(agent.box) : c \in cri.ctrs /\ c.box = agent.box /\ c.id \in Nat /\ c.n \in Nat
    BY DEF CtrsOf, Typed, Ctr, Ids
  <1>1. ASSUME NEW c \in Latest PROVE c \in cri.ctrs /\ Last(c)
    <2>1. c \in CtrsOf(agent.box) /\ \A d \in CtrsOf(agent.box) : d.n <= c.n
      BY DEF Latest
    <2>2. ASSUME NEW d \in cri.ctrs, d.box = c.box PROVE d.id <= c.id
      <3>1. d \in CtrsOf(agent.box)
        BY <1>0, <2>1, <2>2 DEF CtrsOf
      <3>2. c.id < d.id => c.n < d.n
        BY <1>0, <2>1, <2>2 DEF Superseded
      <3> QED BY <1>0, <2>1, <3>1, <3>2
    <2> QED BY <1>0, <2>1, <2>2 DEF Last
  <1>2. ASSUME Latest = {} PROVE \A c \in cri.ctrs : c.box # agent.box
    <2> SUFFICES ASSUME CtrsOf(agent.box) # {} PROVE FALSE
      BY DEF CtrsOf
    <2>1. PICK c \in CtrsOf(agent.box) : \A d \in CtrsOf(agent.box) : d.id <= c.id
      BY LastExists
    <2>2. \A d \in CtrsOf(agent.box) : d.n <= c.n
      <3> SUFFICES ASSUME NEW d \in CtrsOf(agent.box) PROVE d.n <= c.n
        OBVIOUS
      <3>1. CASE d.id = c.id
        <4>1. d = c
          BY <1>0, <3>1 DEF Boxed
        <4> QED BY <1>0, <4>1
      <3>2. CASE d.id < c.id
        BY <1>0, <3>2 DEF Superseded
      <3> QED BY <1>0, <2>1, <3>1, <3>2
    <2> QED BY <1>2, <2>1, <2>2 DEF Latest
  <1> QED BY <1>1, <1>2

LEMMA LookKeeps ==
    ASSUME IInv, Typed', spec' = spec, Look
    PROVE  IInv'
  <1> USE DEF IInv, World, AgentInv
  <1>0. agent.pc = "look" /\ agent.pod = {Mine} /\ agent.cur = 0
    BY AtPod DEF Look, Between, AtCtr, InCtr, InBox
  <1>1. UNCHANGED <<api, cri, vol, events>>
    BY DEF Look, Local
  <1>2. Winds /\ Leads /\ events' >= events
    BY <1>1, Idling, LeavesLead DEF Typed
  <1>3. \A c : Last(c)' <=> c.box = agent'.box /\ \A d \in cri.ctrs : d.box = c.box => d.id <= c.id
    BY <1>1 DEF Last
  <1>4. CASE Latest = {} /\ Local([agent EXCEPT !.pc = "env"])
    <2>1. /\ agent'.pc = "env" /\ agent'.cur = agent.cur
          /\ agent'.todo = agent.todo /\ agent'.pod = agent.pod /\ agent'.desired = agent.desired
          /\ agent'.seen = agent.seen /\ agent'.doomed = agent.doomed /\ agent'.box = agent.box
      BY <1>4 DEF Local, Typed, Agent
    <2>2. \A c \in cri.ctrs : c.box # agent.box
      BY <1>4, LatestIsLast
    <2>3. \A c \in cri.ctrs : c.id # 0
      BY DEF Typed, Ctr, Ids
    <2>4. AtCtr'
      BY <1>0, <1>1, <2>1, <2>2, <2>3 DEF AtCtr, InCtr, InBox
    <2> QED BY <1>0, <1>1, <1>2, <2>1, <2>4, Moves DEF InBox
  <1>5. ASSUME NEW c \in Latest,
            Local([agent EXCEPT !.cur = c.id, !.obs = c.st,
                     !.pc = IF should_restart(c) /\ retry_due(c) THEN "env"
                            ELSE IF ~should_restart(c) /\ c.st = "created" THEN "start"
                            ELSE "reclaim"])
        PROVE IInv'
    <2> DEFINE pc == IF should_restart(c) /\ retry_due(c) THEN "env"
                     ELSE IF ~should_restart(c) /\ c.st = "created" THEN "start"
                     ELSE "reclaim"
    <2>1. pc \in {"env", "start", "reclaim"} /\ (pc = "env" => should_restart(c))
      OBVIOUS
    <2>2. c \in cri.ctrs /\ Last(c) /\ c.id \in Nat \ {0}
      BY LatestIsLast DEF Typed, Ctr, Ids
    <2>3. should_restart(c) /\ c.hash = Mine.hash => c.st \in Exited /\ ~Over(c)
      BY PodRuntimeAssumption DEF should_restart, Over, Exited, Typed
    <2> HIDE DEF pc
    <2>4. agent' = [agent EXCEPT !.cur = c.id, !.obs = c.st, !.pc = pc]
      BY <1>5 DEF Local, pc
    <2>5. /\ agent'.pc = pc /\ agent'.cur = c.id
          /\ agent'.todo = agent.todo /\ agent'.pod = agent.pod /\ agent'.desired = agent.desired
          /\ agent'.seen = agent.seen /\ agent'.doomed = agent.doomed /\ agent'.box = agent.box
      BY <2>4 DEF Typed, Agent
    <2>6. Last(c)'
      BY <1>3, <2>2, <2>5 DEF Last
    <2>7. \A d \in cri.ctrs : d.id = c.id => d = c
      BY <2>2 DEF Boxed
    <2>8. Over(c)' = Over(c)
      BY DEF Over
    <2>9. AtCtr'
      BY <1>0, <1>1, <2>1, <2>2, <2>3, <2>5, <2>6, <2>7, <2>8 DEF AtCtr, InCtr, InBox
    <2> QED BY <1>0, <1>1, <1>2, <2>1, <2>5, <2>9, Moves DEF InBox
  <1> QED BY <1>4, <1>5 DEF Look

\* A step of the sweep that changes its place only.
LEMMA PlaceOnly ==
    ASSUME Typed, NEW pc, agent' = [agent EXCEPT !.pc = pc]
    PROVE  /\ agent'.pc = pc /\ agent'.cur = agent.cur /\ agent'.obs = agent.obs
           /\ agent'.todo = agent.todo /\ agent'.pod = agent.pod /\ agent'.desired = agent.desired
           /\ agent'.seen = agent.seen /\ agent'.doomed = agent.doomed /\ agent'.box = agent.box
  BY DEF Typed, Agent

LEMMA ErrorPlace ==
    ASSUME Typed, agent.pc \in SyncSteps, agent' = Failed
    PROVE  /\ agent'.pc = "error" /\ agent'.cur = agent.cur
           /\ agent'.todo = agent.todo /\ agent'.pod = agent.pod /\ agent'.desired = agent.desired
           /\ agent'.seen = agent.seen /\ agent'.doomed = agent.doomed /\ agent'.box = agent.box
  <1>1. agent' = [agent EXCEPT !.pc = "error"]
    BY DEF Failed
  <1> QED BY <1>1, PlaceOnly

\* Steps that only move on with the same container.
LEMMA StepsKeep ==
    ASSUME IInv, Typed', spec' = spec, Env \/ Pull \/ Observe
    PROVE  IInv'
  <1> USE DEF IInv, World, AgentInv
  <1>1. UNCHANGED <<api, cri, vol, events>>
    BY DEF Env, Pull, Observe, Local
  <1>2. Winds /\ Leaves /\ Leads /\ events' >= events
    BY <1>1, Idling, LeavesLead DEF Typed
  <1>3. CASE agent' = Failed
    BY <1>1, <1>2, <1>3, FailedKeeps
  <1>4. CASE agent' # Failed
    <2>1. /\ \/ agent.pc = "env" /\ agent'.pc = "pull"
             \/ agent.pc = "pull" /\ agent.cur = 0 /\ agent'.pc = "create"
             \/ agent.pc = "pull" /\ agent.cur # 0 /\ agent'.pc = "stop"
             \/ agent.pc = "status" /\ agent'.pc = "reclaim"
          /\ agent'.cur = agent.cur
          /\ agent'.todo = agent.todo /\ agent'.pod = agent.pod /\ agent'.desired = agent.desired
          /\ agent'.seen = agent.seen /\ agent'.doomed = agent.doomed /\ agent'.box = agent.box
      <3>1. CASE Env
        <4>1. agent.pc = "env" /\ agent' = [agent EXCEPT !.pc = "pull"]
          BY <1>4, <3>1 DEF Env, Local
        <4> QED BY <4>1, PlaceOnly
      <3>2. CASE Pull
        <4>1. /\ agent.pc = "pull"
              /\ agent' = [agent EXCEPT !.pc = IF agent.cur = 0 THEN "create" ELSE "stop"]
          BY <3>2 DEF Pull, Local
        <4> QED BY <4>1, PlaceOnly
      <3>3. CASE Observe
        <4>1. agent.pc = "status" /\ agent' = [agent EXCEPT !.pc = "reclaim", !.obs = TheCtr(agent.cur).st]
          BY <3>3 DEF Observe, Local
        <4> QED BY <4>1 DEF Typed, Agent
      <3> QED BY <3>1, <3>2, <3>3
    <2>2. \A c \in cri.ctrs : c.id # 0
      BY DEF Typed, Ctr, Ids
    <2>3. \A c : Last(c)' = Last(c) /\ Over(c)' = Over(c)
      BY <1>1, <2>1 DEF Last, Over
    <2>4. AtCtr'
      BY <1>1, <2>1, <2>2, <2>3 DEF AtCtr, InCtr, InBox
    <2> QED BY <1>1, <1>2, <2>1, <2>4, Moves DEF InBox
  <1> QED BY <1>3, <1>4

LEMMA StopKeeps ==
    ASSUME IInv, Typed', spec' = spec, Stop
    PROVE  IInv'
  <1> USE DEF IInv, World, AgentInv
  <1> DEFINE c == TheCtr(agent.cur)
  <1>0. agent.pc = "stop" /\ agent.cur # 0 /\ c \in cri.ctrs /\ c.id = agent.cur
    BY AtContainer DEF Stop, AtCtr, InCtr, InBox
  <1>1. /\ api' = api /\ vol' = vol /\ events' >= events /\ cri' \in {cri, StopCtr(c)}
        /\ \/ agent' = Failed
           \/ agent' = [agent EXCEPT !.pc = "create"] /\ cri' = StopCtr(c)
    BY EventsGrow DEF Stop, Rpc
  <1> HIDE DEF c
  <1>2. Winds /\ Leaves
    BY <1>0, <1>1, Idling, Stopping
  <1>3. CASE agent' = Failed
    <2>1. AgentInv'
      BY <1>1, <1>2, <1>3, Fails
    <2> QED BY <1>1, <1>2, <1>3, <2>1, UsableHere, Nothing
  <1>4. CASE agent' = [agent EXCEPT !.pc = "create"] /\ cri' = StopCtr(c)
    <2>1. /\ agent'.pc = "create" /\ agent'.cur = agent.cur
          /\ agent'.todo = agent.todo /\ agent'.pod = agent.pod /\ agent'.desired = agent.desired
          /\ agent'.seen = agent.seen /\ agent'.doomed = agent.doomed /\ agent'.box = agent.box
      BY <1>4 DEF Typed, Agent
    <2>2. \A x \in cri'.ctrs : x.id = agent.cur => x.st # "running"
      BY <1>0, <1>4, Stopping
    <2>3. \A x : Over(x)' = Over(x)
      BY DEF Over
    <2>4. \A x : Last(x)' <=> x.box = agent.box /\ \A d \in cri'.ctrs : d.box = x.box => d.id <= x.id
      BY <2>1 DEF Last
    <2>5. AtCtr'
      BY <1>0, <1>2, <2>1, <2>2, <2>3, <2>4, CtrAfter DEF AtCtr, InCtr, InBox
    <2> QED BY <1>0, <1>1, <1>2, <2>1, <2>5, LeavesLead, Moves DEF InBox
  <1> QED BY <1>1, <1>3, <1>4

\* Only containers older than the one the sweep is at are reclaimed.
LEMMA ReclaimKeeps ==
    ASSUME IInv, Typed', spec' = spec, Reclaim
    PROVE  IInv'
  <1> USE DEF IInv, World, AgentInv
  <1> DEFINE old == {c \in CtrsOf(agent.box) : c.id # agent.cur}
  <1>a. agent.pc = "reclaim" /\ agent.cur # 0
    BY DEF Reclaim, AtCtr
  <1>b. PICK k \in cri.ctrs : k.id = agent.cur /\ Last(k)
    BY <1>a DEF AtCtr, InCtr, InBox
  <1>0. /\ agent.pc = "reclaim" /\ agent.cur # 0
        /\ k \in cri.ctrs /\ k.id = agent.cur /\ Last(k)
    BY <1>a, <1>b
  <1>1. CASE old = {}
    <2>1. UNCHANGED <<api, cri, vol, events>> /\ agent' = [agent EXCEPT !.pc = "probe"]
      BY <1>1 DEF Reclaim, Local
    <2>2. Winds /\ Leads /\ events' >= events
      BY <2>1, Idling, LeavesLead DEF Typed
    <2>3. /\ agent'.pc = "probe" /\ agent'.cur = agent.cur
          /\ agent'.todo = agent.todo /\ agent'.pod = agent.pod /\ agent'.desired = agent.desired
          /\ agent'.seen = agent.seen /\ agent'.doomed = agent.doomed /\ agent'.box = agent.box
      BY <2>1 DEF Typed, Agent
    <2>4. Last(k)'
      BY <1>0, <2>1, <2>3 DEF Last
    <2>5. AtCtr'
      BY <1>0, <2>1, <2>3, <2>4 DEF AtCtr, InCtr, InBox
    <2> QED BY <1>0, <2>1, <2>2, <2>3, <2>5, Moves DEF InBox
  <1>2. CASE old # {}
    <2>1. PICK c \in old : Rpc(IF c.st = "running" THEN StopCtr(c) ELSE DropCtr(c), agent)
      BY <1>2 DEF Reclaim
    <2>2. c \in cri.ctrs /\ c.box = agent.box /\ c.id # agent.cur
      BY DEF CtrsOf
    <2>3. /\ api' = api /\ vol' = vol /\ events' >= events
          /\ cri' \in {cri, StopCtr(c), DropCtr(c)} /\ (agent' = agent \/ agent' = Failed)
      BY <2>1, EventsGrow DEF Rpc
    <2>4. Winds /\ \A x \in cri.ctrs : x = c \/ x \in cri'.ctrs
      BY <2>2, <2>3, Idling, Stopping, Dropping
    <2>5. k \in cri'.ctrs
      BY <1>0, <2>2, <2>4
    <2>6. Leads
      <3> SUFFICES ASSUME NEW x \in cri.ctrs PROVE \E d \in cri'.ctrs : d.box = x.box /\ d.id >= x.id
        BY DEF Leads
      <3>1. x.id \in Nat /\ k.id \in Nat
        BY <1>0 DEF Typed, Ctr, Ids
      <3>2. CASE x = c
        BY <1>0, <2>2, <2>5, <3>1, <3>2 DEF Last
      <3>3. CASE x \in cri'.ctrs
        BY <3>1, <3>3
      <3> QED BY <2>4, <3>2, <3>3
    <2>7. CASE agent' = Failed
      <3>1. AgentInv'
        BY <2>3, <2>4, <2>7, Fails
      <3> QED BY <2>3, <2>4, <2>6, <2>7, <3>1, UsableHere, Around, Standing
    <2>8. CASE agent' = agent
      <3>1. \A e \in cri'.ctrs : \E d \in cri.ctrs : Same(e, d)
        BY <2>4 DEF Winds
      <3>2. Last(k)'
        <4>1. \A e \in cri'.ctrs : e.box = k.box => e.id <= k.id
          BY <1>0, <3>1 DEF Last, Same
        <4> QED BY <1>0, <2>8, <4>1 DEF Last
      <3>3. AtCtr'
        BY <1>0, <2>5, <2>8, <3>2 DEF AtCtr, InCtr, InBox
      <3> QED BY <1>0, <2>3, <2>4, <2>6, <2>8, <3>3, Moves DEF InBox
    <2> QED BY <2>3, <2>7, <2>8
  <1> QED BY <1>1, <1>2

\* A sandbox is made for a Pod that has none.
LEMMA RunKeeps ==
    ASSUME IInv, Typed', spec' = spec, Run
    PROVE  IInv'
  <1> USE DEF IInv, World, AgentInv
  <1> DEFINE nb == [id |-> cri.next, uid |-> Mine.uid, ready |-> TRUE]
             changed == [cri EXCEPT !.next = @ + 1, !.boxes = @ \cup {nb}]
             done == [agent EXCEPT !.pc = "look", !.box = cri.next]
  <1>0. /\ agent.pc = "run" /\ agent.pod = {Mine} /\ Mine \in Pod /\ agent.cur = 0
        /\ Mine \in Open
    BY AtPod DEF Run, Between, AtCtr, InCtr, InBox, Open
  <1>1. CASE agent.box # 0
    <2>1. UNCHANGED <<api, cri, vol, events>> /\ agent' = [agent EXCEPT !.pc = "look"]
      BY <1>1 DEF Run, Local
    <2>2. Winds /\ Leads /\ events' >= events
      BY <2>1, Idling, LeavesLead DEF Typed
    <2>3. /\ agent'.pc = "look" /\ agent'.cur = agent.cur
          /\ agent'.todo = agent.todo /\ agent'.pod = agent.pod /\ agent'.desired = agent.desired
          /\ agent'.seen = agent.seen /\ agent'.doomed = agent.doomed /\ agent'.box = agent.box
      BY <2>1 DEF Typed, Agent
    <2>4. AtCtr'
      BY <1>0, <2>3 DEF AtCtr, InCtr, InBox
    <2> QED BY <1>0, <2>1, <2>2, <2>3, <2>4, Moves DEF InBox
  <1>2. CASE agent.box = 0
    <2>1. /\ api' = api /\ vol' = vol /\ events' >= events
          /\ \/ cri' = cri /\ agent' = Failed
             \/ cri' = changed /\ agent' \in {done, Failed}
      BY <1>2, EventsGrow DEF Run, Rpc
    <2>2. CASE cri' = cri /\ agent' = Failed
      BY <2>1, <2>2, FailedKeeps
    <2>3. CASE cri' = changed /\ agent' \in {done, Failed}
      <3>1. nb.id = cri.next /\ nb.uid = Mine.uid /\ nb.ready
        OBVIOUS
      <3> HIDE DEF nb
      <3>2. cri'.next = cri.next + 1 /\ cri'.ctrs = cri.ctrs /\ cri'.boxes = cri.boxes \cup {nb}
        BY <2>3 DEF Typed
      <3>3. /\ agent'.todo = agent.todo /\ agent'.pod = agent.pod /\ agent'.desired = agent.desired
            /\ agent'.seen = agent.seen /\ agent'.doomed = agent.doomed /\ agent'.cur = agent.cur
            /\ \/ agent'.pc = "look" /\ agent'.box = cri.next
               \/ agent'.pc = "error" /\ agent'.box = agent.box
        <4>1. CASE agent' = done
          BY <1>0, <4>1 DEF Typed, Agent
        <4>2. CASE agent' = Failed
          BY <1>0, <4>2, ErrorPlace DEF SyncSteps
        <4> QED BY <2>3, <4>1, <4>2
      <3>4. \A b \in cri.boxes : b.uid # Mine.uid /\ b.id # cri.next /\ b.id # 0 /\ b.id < cri.next
        BY <1>0, <1>2 DEF AtBox, InBox, Boxed, Typed, Box, Ids
      <3>5. cri.next \in Nat \ {0} /\ Used \subseteq Used' /\ Mine.uid \in Used
        BY <1>0, <2>1, UsedGrows DEF Typed, Ids, Listing
      <3>6. Identified'
        BY <2>1, Unedited
      <3>7. Boxed'
        <4>1. \A b \in cri'.boxes : b.id < cri'.next /\ b.uid \in Used'
          BY <3>1, <3>2, <3>4, <3>5 DEF Boxed, Typed, Box, Ids
        <4>2. \A a, b \in cri'.boxes : a.id = b.id \/ a.uid = b.uid => a = b
          BY <3>1, <3>2, <3>4 DEF Boxed
        <4>3. \A c \in cri'.ctrs : c.id < cri'.next /\ \E b \in cri'.boxes : b.id = c.box /\ b.uid = c.uid
          BY <3>2, <3>5 DEF Boxed, Typed, Ctr, Ids
        <4>4. \A c, d \in cri'.ctrs : c.id = d.id => c = d
          BY <3>2 DEF Boxed
        <4> QED BY <4>1, <4>2, <4>3, <4>4 DEF Boxed
      <3>8. Superseded' /\ Projected'
        BY <2>1, <3>2 DEF Superseded, Projected, Over
      <3>9. Listing'
        <4>1. Open' = Open
          BY <3>3 DEF Open
        <4>2. \A b \in cri'.boxes, n \in Names : \A q \in api[n] : b.uid = q.uid => b.uid \in agent.desired
          BY <1>0, <3>1, <3>2 DEF Listing
        <4> HIDE DEF Open
        <4> QED BY <2>1, <3>2, <3>3, <3>5, <4>1, <4>2 DEF Listing
      <3>10. Seen'
        <4>1. \A x \in agent.seen : x.id < cri.next + 1 /\ x.id # cri.next
          BY <3>5 DEF Seen, Typed, Agent, Box, Ids
        <4>2. \A p \in Awaiting' : p \in agent.todo /\ p.uid # Mine.uid /\ p \in Awaiting
          <5>1. \A p \in Awaiting' : p \in agent.todo
            BY <3>3 DEF Awaiting
          <5>2. \A p \in agent.todo : p \in Open /\ p \in Awaiting /\ p # Mine
            BY <1>0 DEF Open, Awaiting, Listing
          <5> QED BY <1>0, <5>1, <5>2 DEF Listing
        <4>3. \A x \in agent.seen, b \in cri'.boxes : x.id = b.id => x.uid = b.uid /\ (b.ready => x.ready)
          BY <3>1, <3>2, <4>1 DEF Seen
        <4>4. \A p \in Awaiting', b \in cri'.boxes : b.uid = p.uid => \E x \in agent.seen : x.id = b.id
          BY <1>0, <3>1, <3>2, <4>2 DEF Seen
        <4> QED BY <1>0, <3>2, <3>3, <4>1, <4>3, <4>4 DEF Seen
      <3>11. AtBox'
        <4>1. ~Mine.terminating /\ vol[Mine.uid].mounted /\ vol[Mine.uid].data # {}
          BY <1>0 DEF AtBox, InBox
        <4>2. cri.next < cri'.next
          BY <3>2, <3>5
        <4>3. \A b \in cri'.boxes : b.uid = Mine.uid <=> b.id = cri.next
          BY <3>1, <3>2, <3>4
        <4> DEFINE p == Mine
        <4>4. agent'.pod = {p}
          BY <1>0, <3>3
        <4> HIDE DEF p
        <4> QED BY <2>1, <3>3, <4>1, <4>2, <4>3, <4>4 DEF AtBox, InBox, p
      <3>12. AtCtr'
        BY <1>0, <3>3 DEF AtCtr, InCtr, InBox
      <3>13. Counted'
        <4>1. \A c \in cri.ctrs : c.box # cri.next
          BY <3>4 DEF Boxed
        <4>2. \A b \in cri.boxes : Usable(b)' => Usable(b)
          BY <3>3, <3>4 DEF Usable
        <4> QED BY <2>1, <3>1, <3>2, <4>1, <4>2 DEF Counted
      <3> QED BY <3>6, <3>7, <3>8, <3>9, <3>10, <3>11, <3>12, <3>13
    <2> QED BY <2>1, <2>2, <2>3
  <1> QED BY <1>1, <1>2

\* What the sweep knows where it makes or starts a container.
LEMMA InOrder ==
    ASSUME IInv, agent.pc \in InCtr, BoxReady
    PROVE  /\ agent.pod = {Mine} /\ Mine \in Pod /\ Mine \in Open
           /\ \E b \in cri.boxes : b.id = agent.box /\ b.uid = Mine.uid
           /\ \A b \in cri.boxes : b.id = agent.box <=> b.uid = Mine.uid
           /\ \A c \in cri.ctrs : c.box = agent.box <=> c.uid = Mine.uid
  <1> USE DEF IInv, World, AgentInv
  <1>1. agent.pod = {Mine} /\ Mine \in Pod /\ Mine \in Open
    BY AtPod DEF InCtr, InBox, Between, Open
  <1>2. \A b \in cri.boxes : b.id = agent.box <=> b.uid = Mine.uid
    BY <1>1 DEF AtBox, InCtr
  <1>3. PICK b \in cri.boxes : b.id = agent.box
    BY DEF BoxReady
  <1>4. \A c \in cri.ctrs : c.box = agent.box <=> c.uid = Mine.uid
    <2> SUFFICES ASSUME NEW c \in cri.ctrs PROVE c.box = agent.box <=> c.uid = Mine.uid
      OBVIOUS
    <2>1. PICK x \in cri.boxes : x.id = c.box /\ x.uid = c.uid
      BY DEF Boxed
    <2> QED BY <1>2, <2>1
  <1> QED BY <1>1, <1>2, <1>3, <1>4

\* The attempt is above all others in the sandbox, and not below the published
\* count; what it replaces has not ended for good with this spec.
LEMMA Attempt ==
    ASSUME IInv, agent.pc = "create", BoxReady
    PROVE  /\ attempt \in Nat
           /\ \A n \in Names : \A q \in api[n] :
                 q.uid = Mine.uid /\ ~q.terminating => attempt >= q.status.restarts
           /\ \A d \in cri.ctrs : d.box = agent.box =>
                 /\ d.n < attempt /\ d.st # "running" /\ d.hash <= Mine.hash
                 /\ d.hash = Mine.hash => d.st \in Exited /\ ~Over(d)
  <1> USE DEF IInv, World, AgentInv
  <1>1. /\ agent.pod = {Mine} /\ Mine \in Pod /\ Mine \in Open
        /\ \E b \in cri.boxes : b.id = agent.box /\ b.uid = Mine.uid
        /\ \A c \in cri.ctrs : c.box = agent.box <=> c.uid = Mine.uid
    BY InOrder DEF InCtr, InBox
  <1>2. \A d \in cri.ctrs : d.box = agent.box => d.hash <= Mine.hash
    BY <1>1 DEF Listing
  <1>3. CASE agent.cur = 0
    <2>1. attempt = Mine.status.restarts
      BY <1>3 DEF attempt
    <2>2. \A d \in cri.ctrs : d.box # agent.box
      BY <1>3 DEF AtCtr, InCtr, InBox
    <2>3. \A n \in Names : \A q \in api[n] : q.uid = Mine.uid => q.status = Mine.status
      BY <1>1 DEF Listing
    <2>4. attempt \in Nat
      BY <1>1, <2>1 DEF Pod, Status
    <2> QED BY <2>1, <2>2, <2>3, <2>4
  <1>4. CASE agent.cur # 0
    <2> DEFINE k == TheCtr(agent.cur)
    <2>1. k \in cri.ctrs /\ k.id = agent.cur /\ Last(k) /\ k.n \in Nat
      BY <1>4, AtContainer DEF InCtr, InBox, Ctr
    <2>2. attempt = k.n + 1
      BY <1>4 DEF attempt
    <2> HIDE DEF k
    <2>3. k.st # "running" /\ (k.hash = Mine.hash => k.st \in Exited /\ ~Over(k))
      BY <1>1, <2>1 DEF AtCtr
    <2>4. \A d \in cri.ctrs : d.box = agent.box /\ d # k =>
             /\ d.n < k.n /\ d.st # "running" /\ d.hash <= k.hash
             /\ d.hash = k.hash => d.st \in Exited /\ ~Over(d)
      <3> SUFFICES ASSUME NEW d \in cri.ctrs, d.box = agent.box, d # k
                   PROVE  /\ d.n < k.n /\ d.st # "running" /\ d.hash <= k.hash
                          /\ d.hash = k.hash => d.st \in Exited /\ ~Over(d)
        OBVIOUS
      <3>1. d.id <= k.id /\ d.id # k.id /\ d.box = k.box
        BY <2>1 DEF Last, Boxed
      <3>2. d.id \in Nat /\ k.id \in Nat
        BY <2>1 DEF Typed, Ctr, Ids
      <3> QED BY <2>1, <3>1, <3>2 DEF Superseded
    <2>5. k.hash <= Mine.hash /\ k.hash \in Nat /\ Mine.hash \in Nat
          /\ \A d \in cri.ctrs : d.hash \in Nat /\ d.n \in Nat
      BY <1>1, <1>2, <2>1 DEF Last, Typed, Ctr, Pod
    <2>6. ASSUME NEW d \in cri.ctrs, d.box = agent.box
          PROVE  /\ d.n < attempt /\ d.st # "running" /\ d.hash <= Mine.hash
                 /\ d.hash = Mine.hash => d.st \in Exited /\ ~Over(d)
      <3>1. CASE d = k
        BY <2>1, <2>2, <2>3, <2>5, <3>1
      <3>2. CASE d # k
        <4>1. d.n < attempt /\ d.hash <= Mine.hash /\ (d.hash = Mine.hash => d.hash = k.hash)
          BY <2>1, <2>2, <2>4, <2>5, <2>6, <3>2
        <4> QED BY <2>4, <2>6, <3>2, <4>1
      <3> QED BY <3>1, <3>2
    <2>7. ASSUME NEW n \in Names, NEW q \in api[n], q.uid = Mine.uid, ~q.terminating
          PROVE  attempt >= q.status.restarts
      <3>1. PICK b \in cri.boxes : b.id = agent.box /\ b.uid = Mine.uid
        BY <1>1
      <3>2. k.n >= q.status.restarts
        BY <2>1, <2>7, <3>1 DEF Counted, Usable, Last
      <3>3. q.status.restarts \in Nat
        BY <2>7 DEF Typed, Pod, Status
      <3> QED BY <2>1, <2>2, <3>2, <3>3
    <2> QED BY <2>1, <2>2, <2>6, <2>7
  <1> QED BY <1>3, <1>4

\* A container is made after all others of its sandbox.
LEMMA CreateKeeps ==
    ASSUME IInv, Typed', spec' = spec, Create
    PROVE  IInv'
  <1> USE DEF IInv, World, AgentInv
  <1>0. agent.pc = "create"
    BY DEF Create
  <1>1. CASE ~BoxReady
    <2>1. UNCHANGED <<api, cri, vol, events>> /\ agent' = Failed
      BY <1>1 DEF Create, Local
    <2> QED BY <2>1, FailedKeeps DEF Typed
  <1>2. CASE BoxReady
    <2> DEFINE nc == [id |-> cri.next, box |-> agent.box, uid |-> Mine.uid, n |-> attempt,
                      hash |-> Mine.hash, st |-> "created", due |-> FALSE]
               changed == [cri EXCEPT !.next = @ + 1, !.ctrs = @ \cup {nc}]
               done == [agent EXCEPT !.pc = "start", !.cur = cri.next]
    <2>1. /\ api' = api /\ vol' = vol /\ events' >= events
          /\ \/ cri' = cri /\ agent' = Failed
             \/ cri' = changed /\ agent' \in {done, Failed}
      BY <1>2, EventsGrow DEF Create, Rpc
    <2>2. CASE cri' = cri /\ agent' = Failed
      BY <2>1, <2>2, FailedKeeps
    <2>3. CASE cri' = changed /\ agent' \in {done, Failed}
      <3>1. PICK m : m = nc
        OBVIOUS
      <3>2. /\ m.id = cri.next /\ m.box = agent.box /\ m.uid = Mine.uid /\ m.n = attempt
            /\ m.hash = Mine.hash /\ m.st = "created"
        BY <3>1
      <3>3. cri'.next = cri.next + 1 /\ cri'.boxes = cri.boxes /\ cri'.ctrs = cri.ctrs \cup {m}
        <4> HIDE DEF nc
        <4> QED BY <2>3, <3>1 DEF Typed
      <3>4. /\ agent'.todo = agent.todo /\ agent'.pod = agent.pod /\ agent'.desired = agent.desired
            /\ agent'.seen = agent.seen /\ agent'.doomed = agent.doomed /\ agent'.box = agent.box
            /\ \/ agent'.pc = "start" /\ agent'.cur = cri.next
               \/ agent'.pc = "error"
        <4>1. CASE agent' = done
          BY <4>1 DEF Typed, Agent
        <4>2. CASE agent' = Failed
          BY <1>0, <4>2, ErrorPlace DEF SyncSteps
        <4> QED BY <2>3, <4>1, <4>2
      <3> HIDE DEF nc, changed, done
      <3>5. /\ agent.pod = {Mine} /\ Mine \in Pod /\ Mine \in Open
            /\ \E b \in cri.boxes : b.id = agent.box /\ b.uid = Mine.uid
            /\ \A b \in cri.boxes : b.id = agent.box <=> b.uid = Mine.uid
            /\ \A c \in cri.ctrs : c.box = agent.box <=> c.uid = Mine.uid
        BY <1>0, <1>2, InOrder DEF InCtr, InBox
      <3>6. /\ \A n \in Names : \A q \in api[n] :
                 q.uid = Mine.uid /\ ~q.terminating => attempt >= q.status.restarts
            /\ \A d \in cri.ctrs : d.box = agent.box =>
                 /\ d.n < attempt /\ d.st # "running" /\ d.hash <= Mine.hash
                 /\ d.hash = Mine.hash => d.st \in Exited /\ ~Over(d)
        BY <1>0, <1>2, Attempt
      <3>7. /\ \A c \in cri.ctrs : c.id < cri.next /\ c.id # cri.next /\ c.id \in Nat
            /\ cri.next \in Nat \ {0} /\ Used \subseteq Used'
        BY <2>1, UsedGrows DEF Boxed, Typed, Ctr, Ids
      <3>8. Identified'
        BY <2>1, Unedited
      <3>9. Boxed'
        <4>1. \A b \in cri'.boxes : b.id < cri'.next /\ b.uid \in Used'
          BY <3>3, <3>7 DEF Boxed, Typed, Box, Ids
        <4>2. \A a, b \in cri'.boxes : a.id = b.id \/ a.uid = b.uid => a = b
          BY <3>3 DEF Boxed
        <4>3. \A c \in cri'.ctrs : c.id < cri'.next /\ \E b \in cri'.boxes : b.id = c.box /\ b.uid = c.uid
          BY <3>2, <3>3, <3>5, <3>7 DEF Boxed
        <4>4. \A c, d \in cri'.ctrs : c.id = d.id => c = d
          BY <3>2, <3>3, <3>7 DEF Boxed
        <4> QED BY <4>1, <4>2, <4>3, <4>4 DEF Boxed
      <3>10. Superseded'
        <4> SUFFICES ASSUME NEW c \in cri'.ctrs, NEW d \in cri'.ctrs, c.box = d.box, c.id < d.id
                     PROVE  /\ c.n < d.n /\ c.st # "running" /\ c.hash <= d.hash
                            /\ c.hash = d.hash => c.st \in Exited /\ ~Over(c)'
          BY DEF Superseded
        <4>1. Over(c)' = Over(c)
          BY DEF Over
        <4>2. c # m
          BY <3>2, <3>3, <3>7
        <4>3. CASE d = m
          BY <3>2, <3>3, <3>6, <4>1, <4>2, <4>3
        <4>4. CASE d # m
          BY <3>3, <4>1, <4>2, <4>4 DEF Superseded
        <4> QED BY <4>3, <4>4
      <3>11. Projected'
        BY <2>1, <3>2, <3>3 DEF Projected
      <3>12. Listing'
        <4>1. Open' = Open
          BY <3>4 DEF Open
        <4>2. \A n \in Names : \A p \in api[n], c \in cri'.ctrs : c.uid = p.uid => c.hash <= p.hash
          BY <3>2, <3>3, <3>5 DEF Listing
        <4>3. \A p \in Open, c \in cri'.ctrs : c.uid = p.uid => c.hash <= p.hash
          <5>1. \A p \in Open : Mine.uid = p.uid => Mine.hash <= p.hash
            BY <3>5 DEF Listing, Pod
          <5> QED BY <3>2, <3>3, <5>1 DEF Listing
        <4> HIDE DEF Open
        <4> QED BY <1>0, <2>1, <3>3, <3>4, <3>7, <4>1, <4>2, <4>3 DEF Listing
      <3>13. Seen'
        <4>1. \A x \in agent.seen : x.id < cri.next + 1
          BY <3>7 DEF Seen, Typed, Agent, Box, Ids
        <4>2. \A p \in Awaiting' : p \in Awaiting
          BY <1>0, <3>4 DEF Awaiting
        <4> QED BY <1>0, <3>3, <3>4, <4>1, <4>2 DEF Seen
      <3>14. AtBox'
        <4>1. agent.box < cri.next + 1
          BY <1>0, <3>5, <3>7 DEF AtBox, InBox, Typed, Agent
        <4> QED BY <1>0, <2>1, <3>3, <3>4, <4>1 DEF AtBox, InBox
      <3>15. AtCtr'
        <4>1. \A d \in cri'.ctrs : d.id <= cri.next
          BY <3>2, <3>3, <3>7
        <4>2. agent'.cur = cri.next => m.id = agent'.cur /\ Last(m)'
          BY <3>2, <3>4, <4>1 DEF Last
        <4> QED BY <3>3, <3>4, <3>7, <4>2 DEF AtCtr, InCtr, InBox
      <3>16. Counted'
        <4> SUFFICES ASSUME NEW n \in Names, NEW q \in api[n], NEW b \in cri.boxes, NEW c \in cri'.ctrs,
                            ~q.terminating, b.uid = q.uid, Usable(b)', c.box = b.id,
                            \A d \in cri'.ctrs : d.box = b.id => d.id <= c.id
                     PROVE  c.n >= q.status.restarts
          BY <2>1, <3>3 DEF Counted
        <4>1. Usable(b)
          BY <3>4 DEF Usable
        <4>2. CASE c = m
          BY <3>2, <3>5, <3>6, <4>2
        <4>3. CASE c # m
          BY <3>3, <4>1, <4>3 DEF Counted
        <4> QED BY <4>2, <4>3
      <3> QED BY <3>8, <3>9, <3>10, <3>11, <3>12, <3>13, <3>14, <3>15, <3>16
    <2> QED BY <2>1, <2>2, <2>3
  <1> QED BY <1>1, <1>2


\* A container is started where all others of the Pod are over.
LEMMA StartKeeps ==
    ASSUME IInv, Typed', spec' = spec, Start
    PROVE  IInv'
  <1> USE DEF IInv, World, AgentInv
  <1>0. agent.pc = "start" /\ agent.cur # 0
    BY DEF Start, AtCtr
  <1>1. PICK k : k = TheCtr(agent.cur)
    OBVIOUS
  <1>2. k \in cri.ctrs /\ k.id = agent.cur /\ Last(k) /\ k \in Ctr
    BY <1>0, <1>1, AtContainer DEF InCtr, InBox
  <1>3. CASE ~BoxReady \/ k.st # "created"
    <2>1. UNCHANGED <<api, cri, vol, events>> /\ agent' = Failed
      BY <1>1, <1>3 DEF Start, Local
    <2> QED BY <2>1, FailedKeeps DEF Typed
  <1>4. CASE BoxReady /\ k.st = "created"
    <2>1. PICK r : r = [k EXCEPT !.st = "running"]
      OBVIOUS
    <2>2. Same(r, k) /\ r.st = "running"
      BY <1>2, <2>1 DEF Same, Ctr
    <2>3. /\ api' = api /\ vol' = vol /\ events' >= events
          /\ \/ cri' = cri /\ agent' = Failed
             \/ /\ cri' = [cri EXCEPT !.ctrs = (@ \ {k}) \cup {r}]
                /\ agent' \in {[agent EXCEPT !.pc = "status"], Failed}
      BY <1>1, <1>4, <2>1, EventsGrow DEF Start, Rpc
    <2>4. CASE cri' = cri /\ agent' = Failed
      BY <2>3, <2>4, FailedKeeps
    <2>5. CASE /\ cri' = [cri EXCEPT !.ctrs = (@ \ {k}) \cup {r}]
               /\ agent' \in {[agent EXCEPT !.pc = "status"], Failed}
      <3>1. cri'.next = cri.next /\ cri'.boxes = cri.boxes /\ cri'.ctrs = (cri.ctrs \ {k}) \cup {r}
        BY <2>5 DEF Typed
      <3>2. /\ agent'.todo = agent.todo /\ agent'.pod = agent.pod /\ agent'.desired = agent.desired
            /\ agent'.seen = agent.seen /\ agent'.doomed = agent.doomed /\ agent'.box = agent.box
            /\ agent'.cur = agent.cur /\ agent'.pc \in {"status", "error"}
        BY <1>0, <2>5, PlaceOnly, ErrorPlace DEF SyncSteps
      <3>3. /\ agent.pod = {Mine} /\ Mine \in Pod /\ Mine \in Open
            /\ \A c \in cri.ctrs : c.box = agent.box <=> c.uid = Mine.uid
        BY <1>0, <1>4, InOrder DEF InCtr, InBox
      <3>4. \A x \in cri'.ctrs : x = r \/ (x \in cri.ctrs /\ x # k /\ x.id # r.id)
        BY <1>2, <2>2, <3>1 DEF Same, Boxed
      <3>5. \A x \in cri'.ctrs : \E y \in cri.ctrs : Same(x, y)
        BY <1>2, <2>2, <3>4 DEF Same
      <3>6. Used \subseteq Used'
        BY <2>3, UsedGrows
      <3>7. Identified'
        BY <2>3, Unedited
      <3>8. Boxed'
        <4>1. \A b \in cri'.boxes : b.id < cri'.next /\ b.uid \in Used'
          BY <3>1, <3>6 DEF Boxed
        <4>2. \A c \in cri'.ctrs : c.id < cri'.next /\ \E b \in cri'.boxes : b.id = c.box /\ b.uid = c.uid
          BY <3>1, <3>5 DEF Boxed, Same
        <4>3. \A c, d \in cri'.ctrs : c.id = d.id => c = d
          BY <3>4 DEF Boxed
        <4>4. \A a, b \in cri'.boxes : a.id = b.id \/ a.uid = b.uid => a = b
          BY <3>1 DEF Boxed
        <4> QED BY <4>1, <4>2, <4>3, <4>4 DEF Boxed
      <3>9. Superseded'
        <4> SUFFICES ASSUME NEW c \in cri'.ctrs, NEW d \in cri'.ctrs, c.box = d.box, c.id < d.id
                     PROVE  /\ c.n < d.n /\ c.st # "running" /\ c.hash <= d.hash
                            /\ c.hash = d.hash => c.st \in Exited /\ ~Over(c)'
          BY DEF Superseded
        <4>1. Over(c)' = Over(c)
          BY DEF Over
        <4>2. PICK e \in cri.ctrs : Same(d, e)
          BY <3>5
        <4>3. c # r
          <5> SUFFICES ASSUME c = r PROVE FALSE
            OBVIOUS
          <5>1. e.box = k.box /\ e.id > k.id
            BY <2>2, <4>2 DEF Same
          <5>2. e.id \in Nat /\ k.id \in Nat
            BY <1>2 DEF Typed, Ctr, Ids
          <5> QED BY <1>2, <5>1, <5>2 DEF Last
        <4>4. c \in cri.ctrs
          BY <3>4, <4>3
        <4> QED BY <4>1, <4>2, <4>4 DEF Superseded, Same
      <3>10. Projected'
        <4>1. r.uid = Mine.uid /\ vol[Mine.uid].mounted /\ vol[Mine.uid].data # {}
          BY <1>0, <1>2, <2>2, <3>3 DEF Last, Same, AtBox, InBox
        <4> QED BY <2>3, <3>4, <4>1 DEF Projected
      <3>11. Listing'
        <4>1. Open' = Open
          BY <3>2 DEF Open
        <4> HIDE DEF Open
        <4>2. \A n \in Names : \A p \in api[n], c \in cri'.ctrs : c.uid = p.uid => c.hash <= p.hash
          BY <3>5 DEF Listing, Same
        <4>3. \A p \in Open, c \in cri'.ctrs : c.uid = p.uid => c.hash <= p.hash
          BY <3>5 DEF Listing, Same
        <4> QED BY <1>0, <2>3, <3>1, <3>2, <3>6, <4>1, <4>2, <4>3 DEF Listing
      <3>12. Seen'
        <4>1. \A p \in Awaiting' : p \in Awaiting
          BY <3>2 DEF Awaiting
        <4> QED BY <1>0, <3>1, <3>2, <4>1 DEF Seen
      <3>13. AtBox'
        BY <1>0, <2>3, <3>1, <3>2 DEF AtBox, InBox
      <3>14. AtCtr'
        <4>1. r \in cri'.ctrs /\ r.id = agent'.cur
          BY <1>2, <2>2, <3>1, <3>2 DEF Same
        <4>2. Last(r)'
          <5>1. \A d \in cri'.ctrs : d.box = r.box => d.id <= r.id
            BY <1>2, <2>2, <3>5 DEF Last, Same
          <5> QED BY <1>2, <2>2, <3>2, <5>1 DEF Last, Same
        <4> QED BY <1>0, <3>2, <4>1, <4>2 DEF AtCtr, InCtr, InBox
      <3>15. Counted'
        <4> SUFFICES ASSUME NEW n \in Names, NEW q \in api[n], NEW b \in cri.boxes, NEW c \in cri'.ctrs,
                            ~q.terminating, b.uid = q.uid, Usable(b)', c.box = b.id,
                            \A d \in cri'.ctrs : d.box = b.id => d.id <= c.id
                     PROVE  c.n >= q.status.restarts
          BY <2>3, <3>1 DEF Counted
        <4>1. Usable(b)
          BY <3>2 DEF Usable
        <4>2. PICK y \in cri.ctrs : Same(c, y)
          BY <3>5
        <4>3. \A d \in cri.ctrs : \E x \in cri'.ctrs : Same(x, d)
          BY <2>2, <3>1 DEF Same
        <4>4. \A d \in cri.ctrs : d.box = b.id => d.id <= y.id
          BY <4>2, <4>3 DEF Same
        <4> QED BY <4>1, <4>2, <4>4 DEF Counted, Same
      <3> QED BY <3>7, <3>8, <3>9, <3>10, <3>11, <3>12, <3>13, <3>14, <3>15
    <2> QED BY <2>3, <2>4, <2>5
  <1> QED BY <1>3, <1>4

\* A readiness check is of the container the sweep is at.
LEMMA ProbesKeep ==
    ASSUME IInv, Typed', spec' = spec, ProbePasses \/ ProbeFails \/ ProbeWaits \/ NoProbe
    PROVE  IInv'
  <1> USE DEF IInv, World, AgentInv
  <1>1. /\ agent.pc = "probe" /\ UNCHANGED <<api, cri, vol>> /\ events' >= events
        /\ \E ready : agent' = ToPublish(ready)
    BY EventsGrow DEF ProbePasses, ProbeFails, ProbeWaits, NoProbe, Checking, Checked, Local
  <1>2. Winds /\ Leads
    BY <1>1, Idling, LeavesLead
  <1>3. /\ agent'.pc = "publish" /\ agent'.cur = agent.cur
        /\ agent'.todo = agent.todo /\ agent'.pod = agent.pod /\ agent'.desired = agent.desired
        /\ agent'.seen = agent.seen /\ agent'.doomed = agent.doomed /\ agent'.box = agent.box
    BY <1>1 DEF ToPublish, Typed, Agent
  <1>4. PICK k \in cri.ctrs : k.id = agent.cur /\ Last(k)
    BY <1>1 DEF AtCtr, InCtr, InBox
  <1>5. Last(k)'
    BY <1>1, <1>3, <1>4 DEF Last
  <1>6. AtCtr'
    BY <1>1, <1>3, <1>4, <1>5 DEF AtCtr, InCtr, InBox
  <1> QED BY <1>1, <1>2, <1>3, <1>6, Moves DEF InBox

-----------------------------------------------------------------------------
(* Status.                                                                 *)

\* A write of the status replaces the Pod that was listed, or nothing.
LEMMA PutKeeps ==
    ASSUME IInv, Typed', spec' = spec, agent.pc \in {"publish", "error"}, NEW status, Put(status),
           ~Mine.terminating =>
              \A b \in cri.boxes, c \in cri.ctrs :
                 /\ b.uid = Mine.uid /\ Usable(b) /\ c.box = b.id
                 /\ \A d \in cri.ctrs : d.box = b.id => d.id <= c.id
                 /\ api[Mine.name] = {Mine}
                 => c.n >= status.restarts
    PROVE  IInv'
  <1> USE DEF IInv, World, AgentInv
  <1>1. PICK p : p = Mine
    OBVIOUS
  <1>2. /\ agent.pod = {p} /\ p \in Pod /\ p.name \in Names /\ p \in Open
        /\ \A x \in agent.todo : x \in Open /\ x # p /\ x.uid # p.uid
    <2>1. agent.pod = {p} /\ p \in Pod
      BY <1>1, AtPod DEF Between
    <2>2. \A x \in agent.todo : x \in Open /\ x # p
      BY <2>1 DEF Open, Listing
    <2> QED BY <2>1, <2>2 DEF Open, Listing, Pod
  <1>3. PICK new : new = [p EXCEPT !.status = status]
    OBVIOUS
  <1>4. /\ new.uid = p.uid /\ new.name = p.name /\ new.hash = p.hash
        /\ new.terminating = p.terminating /\ new.status = status
    BY <1>2, <1>3 DEF Pod
  <1>5. /\ cri' = cri /\ vol' = vol /\ events' >= events /\ agent' \in {Onward, Idle}
        /\ \/ api' = api
           \/ api' = [api EXCEPT ![p.name] = IF @ = {p} THEN {new} ELSE @]
    BY <1>1, <1>3, EventsGrow DEF Put
  <1>6. Winds /\ Leaves /\ UsableStays
    BY <1>5, Idling, UsableHere
  <1>7. CASE api' = api
    <2>1. AgentInv'
      BY <1>5, <1>6, <1>7, GoesOn, Rests
    <2> QED BY <1>5, <1>6, <1>7, <2>1, Nothing
  <1>8. CASE api[p.name] = {p} /\ api' = [api EXCEPT ![p.name] = {new}]
    <2>1. /\ p \in api[p.name] /\ api'[p.name] = {new}
          /\ \A n \in Names : n # p.name => api'[n] = api[n]
      BY <1>2, <1>8 DEF Typed
    <2>2. \A n \in Names : \A q \in api'[n] :
             \/ q \in api[n] /\ n # p.name /\ q.uid # p.uid
             \/ q = new /\ n = p.name
      BY <1>2, <2>1 DEF Identified
    <2>3. Used \subseteq Used'
      BY <1>5, UsedGrows
    <2>4. Identified'
      <3>1. \A n \in Names : \A q \in api'[n] : q.name = n /\ q.uid \in Used'
        BY <1>2, <1>4, <2>1, <2>2, <2>3 DEF Identified
      <3>2. \A m, n \in Names : \A x \in api'[m], y \in api'[n] : m = n \/ x.uid = y.uid => x = y
        BY <1>4, <2>1, <2>2 DEF Identified
      <3> QED BY <3>1, <3>2 DEF Identified
    <2>5. Boxed' /\ Superseded' /\ Projected'
      BY <1>5, <1>6, WindingBoxes, WindingVolumes
    <2>6. /\ agent'.pod = {} /\ agent'.todo \subseteq agent.todo /\ agent'.doomed = {}
          /\ agent'.cur = 0
          /\ \/ agent'.pc = "next" /\ agent'.seen = agent.seen /\ agent'.desired = agent.desired
             \/ agent'.pc = "idle" /\ agent'.seen = {} /\ agent'.todo = {}
      <3>1. CASE agent' = Onward
        BY <3>1, GoingOn
      <3>2. CASE agent' = Idle
        BY <3>2 DEF Idle
      <3> QED BY <1>5, <3>1, <3>2
    <2>7. \A x \in Open' : x \in agent.todo /\ x \in Open /\ x.uid # p.uid /\ agent'.pc = "next"
      BY <1>2, <2>6 DEF Open
    <2>8. Listing'
      <3>1. \A x \in Open' : x.uid \in Used' \cap agent'.desired
        BY <2>3, <2>6, <2>7 DEF Listing
      <3>2. \A x, y \in Open' : x.uid = y.uid => x = y
        BY <2>7 DEF Listing
      <3>3. \A x \in Open', n \in Names : \A q \in api'[n] : x.uid = q.uid =>
               /\ x.name = n /\ x.status = q.status /\ x.hash <= q.hash
               /\ x.terminating => q.terminating
        BY <1>4, <2>2, <2>7 DEF Listing
      <3>4. \A n \in Names : \A q \in api'[n], c \in cri'.ctrs : c.uid = q.uid => c.hash <= q.hash
        BY <1>2, <1>4, <1>5, <2>1, <2>2 DEF Listing
      <3>5. \A x \in Open', c \in cri'.ctrs : c.uid = x.uid => c.hash <= x.hash
        BY <1>5, <2>7 DEF Listing
      <3>6. agent'.pc # "idle" =>
               \A b \in cri'.boxes, n \in Names : \A q \in api'[n] : b.uid = q.uid => b.uid \in agent'.desired
        BY <1>2, <1>4, <1>5, <2>1, <2>2, <2>6 DEF Listing
      <3>7. agent'.todo \cap agent'.pod = {}
        BY <2>6
      <3> HIDE DEF Open
      <3> QED BY <3>1, <3>2, <3>3, <3>4, <3>5, <3>6, <3>7 DEF Listing
    <2>9. Seen'
      <3>1. \A x \in Awaiting' : x \in Awaiting /\ agent'.pc = "next"
        BY <2>6 DEF Awaiting
      <3> QED BY <1>5, <2>6, <3>1 DEF Seen
    <2>10. AtBox' /\ AtCtr'
      BY <2>6 DEF AtBox, AtCtr, InCtr, InBox
    <2>11. Counted'
      <3> SUFFICES ASSUME NEW n \in Names, NEW q \in api'[n], NEW b \in cri.boxes, NEW c \in cri.ctrs,
                          ~q.terminating, b.uid = q.uid, Usable(b)', c.box = b.id,
                          \A d \in cri.ctrs : d.box = b.id => d.id <= c.id
                   PROVE  c.n >= q.status.restarts
        BY <1>5 DEF Counted
      <3>1. Usable(b)
        BY <1>5, <1>6 DEF UsableStays, Boxed
      <3>2. CASE q = new
        BY <1>1, <1>4, <1>8, <3>1, <3>2
      <3>3. CASE q # new
        BY <2>2, <3>1, <3>3 DEF Counted
      <3> QED BY <3>2, <3>3
    <2> QED BY <2>4, <2>5, <2>8, <2>9, <2>10, <2>11
  <1>9. api' = api \/ (api[p.name] = {p} /\ api' = [api EXCEPT ![p.name] = {new}])
    <2>1. api = [api EXCEPT ![p.name] = api[p.name]]
      BY DEF Typed
    <2> QED BY <1>5, <2>1
  <1> QED BY <1>7, <1>8, <1>9

\* What is published is the attempt of the last container; a failure leaves
\* the count as it was.
LEMMA PublishKeeps ==
    ASSUME IInv, Typed', spec' = spec, Publish \/ PublishError
    PROVE  IInv'
  <1> USE DEF IInv, World, AgentInv
  <1>1. agent.pod = {Mine} /\ Mine \in Pod
    BY AtPod DEF Publish, PublishError, Between
  <1>2. CASE Publish
    <2>1. agent.pc = "publish" /\ agent.cur # 0
      BY <1>2 DEF Publish, AtCtr
    <2>2. PICK k : k = TheCtr(agent.cur)
      OBVIOUS
    <2>3. k \in cri.ctrs /\ k.id = agent.cur /\ Last(k) /\ k.n \in Nat
      BY <2>1, <2>2, AtContainer DEF InCtr, InBox, Ctr
    <2>4. PICK status : status = [phase |-> phase(agent.obs), restarts |-> k.n,
                                   ready |-> agent.ready, cid |-> agent.cur]
      OBVIOUS
    <2>5. Put(status) /\ status.restarts = k.n
      BY <1>2, <2>2, <2>4 DEF Publish
    <2>6. ASSUME NEW b \in cri.boxes, NEW c \in cri.ctrs, b.uid = Mine.uid, c.box = b.id,
                 \A d \in cri.ctrs : d.box = b.id => d.id <= c.id
          PROVE  c.n >= k.n
      <3>1. b.id = agent.box
        BY <1>1, <2>1, <2>6 DEF AtBox, InBox
      <3>2. c.id <= k.id /\ k.id <= c.id
        BY <2>3, <2>6, <3>1 DEF Last
      <3>3. c.id = k.id
        BY <2>3, <3>2 DEF Typed, Ctr, Ids
      <3> QED BY <2>3, <3>3 DEF Boxed
    <2> QED BY <2>1, <2>5, <2>6, PutKeeps
  <1>3. CASE PublishError
    <2>1. agent.pc = "error"
      BY <1>3 DEF PublishError
    <2>2. PICK status : status = [Mine.status EXCEPT !.ready = FALSE,
                                     !.phase = IF @ = "none" THEN "Pending" ELSE @]
      OBVIOUS
    <2>3. Put(status) /\ status.restarts = Mine.status.restarts
      <3>1. Put(status)
        BY <1>3, <2>2 DEF PublishError
      <3> QED BY <1>1, <2>2, <3>1 DEF Pod, Status
    <2>4. api[Mine.name] = {Mine} => Mine \in api[Mine.name] /\ Mine.name \in Names
      BY <1>1 DEF Pod
    <2> QED BY <2>1, <2>3, <2>4, PutKeeps DEF Counted
  <1> QED BY <1>2, <1>3

-----------------------------------------------------------------------------
(* The invariant.                                                          *)

LEMMA InitKeeps == Init => IInv
  <1> SUFFICES ASSUME Init PROVE IInv
    OBVIOUS
  <1> USE DEF IInv, World, AgentInv
  <1>1. PICK uid \in Injection(Names, 1..Cardinality(Names)) :
          api = [n \in Names |-> {NewPod(n, uid[n])}]
    BY DEF Init
  <1>2. /\ \A n \in Names : uid[n] \in 1..Cardinality(Names)
        /\ \A m, n \in Names : uid[m] = uid[n] => m = n
    BY DEF Injection, IsInjective
  <1>3. \A n, u : NewPod(n, u).name = n /\ NewPod(n, u).uid = u
          /\ ~NewPod(n, u).terminating /\ NewPod(n, u).status.restarts = 0
    BY DEF NewPod, Unreported
  <1>4. \A n \in Names : api[n] = {NewPod(n, uid[n])}
    BY <1>1
  <1>5. /\ cri.boxes = {} /\ cri.ctrs = {} /\ cri.next = 1
        /\ agent = Idle /\ events = 0 /\ probes = {}
        /\ \A u \in Uids : vol[u] = NoVolume
    BY DEF Init
  <1>6. /\ agent.pc = "idle" /\ agent.todo = {} /\ agent.pod = {} /\ agent.seen = {}
        /\ agent.doomed = {} /\ agent.cur = 0
    BY <1>5 DEF Idle
  <1>7. Typed
    <2>1. 1..Cardinality(Names) \subseteq Uids
      BY Constants, PodRuntimeAssumption DEF Uids
    <2>2. \A n \in Names : NewPod(n, uid[n]) \in Pod
      BY <1>2, <2>1, Constants DEF NewPod, Pod
    <2>3. api \in [Names -> SUBSET Pod]
      BY <1>1, <2>2
    <2>4. cri \in [boxes : SUBSET Box, ctrs : SUBSET Ctr, next : Ids]
      BY DEF Init, Ids
    <2>5. vol \in [Uids -> Volume]
      BY Constants DEF Init
    <2>6. spec \in Specs /\ conf \in Nat /\ events \in 0..MaxEvents /\ probes \subseteq Reading
      BY PodRuntimeAssumption DEF Init
    <2>7. agent \in Agent /\ agent.pc \in Between
      BY <1>5, <1>6, Constants DEF Between
    <2> QED BY <1>6, <2>3, <2>4, <2>5, <2>6, <2>7 DEF Typed
  <1>8. Identified
    <2>1. Used = 1..Cardinality(Names)
      BY <1>5, Constants DEF Used
    <2> QED BY <1>2, <1>3, <1>4, <2>1 DEF Identified
  <1>9. Boxed /\ Superseded
    BY <1>5 DEF Boxed, Superseded
  <1>10. Projected
    BY <1>5 DEF Projected, NoVolume
  <1>11. Listing /\ Seen /\ AtBox /\ AtCtr
    BY <1>5, <1>6 DEF Listing, Open, Seen, Awaiting, AtBox, AtCtr, InCtr, InBox
  <1>12. Counted
    BY <1>5 DEF Counted
  <1> QED BY <1>7, <1>8, <1>9, <1>10, <1>11, <1>12

LEMMA StutterKeeps ==
    ASSUME IInv, UNCHANGED vars
    PROVE  IInv'
  <1> USE DEF IInv, World, AgentInv
  <1>1. /\ spec' = spec /\ api' = api /\ conf' = conf /\ cri' = cri /\ vol' = vol
        /\ agent' = agent /\ probes' = probes /\ passed' = passed /\ events' = events
    BY DEF vars
  <1>2. Typed'
    BY TypedNext
  <1>3. Winds /\ Leaves
    BY <1>1, Idling
  <1>4. events' >= events
    BY <1>1 DEF Typed
  <1> QED BY <1>1, <1>2, <1>3, <1>4, Waits, UsableHere, Nothing

LEMMA NextKeeps == IInv /\ [Next]_vars => IInv'
  <1> SUFFICES ASSUME IInv, [Next]_vars PROVE IInv'
    OBVIOUS
  <1>1. Typed'
    BY TypedNext DEF IInv, World, AgentInv
  <1>2. CASE UNCHANGED vars
    BY <1>2, StutterKeeps
  <1>3. CASE Next
    <2>1. spec' = spec
      BY <1>3 DEF Next
    <2>2. CASE Environment \/ DelayPasses
      BY <1>1, <2>1, <2>2, EnvironmentKeeps, RebootKeeps, EditsKeep DEF Environment
    <2>3. CASE List \/ ListBoxes \/ NextPod \/ EndPods \/ EndSweep
      BY <1>1, <2>1, <2>3, ListKeeps, ListBoxesKeeps, NextPodKeeps, EndKeeps
    <2>4. CASE Terminate \/ RemoveStale \/ RemoveOrphans \/ Erase \/ EraseOrphans
      BY <1>1, <2>1, <2>4, RemovalsKeep, ErasureKeeps
    <2>5. CASE Prepare \/ Project \/ Run \/ Look \/ Env \/ Pull \/ Observe
      BY <1>1, <2>1, <2>5, PrepareKeeps, ProjectKeeps, RunKeeps, LookKeeps, StepsKeep
    <2>6. CASE Stop \/ Create \/ Start \/ Reclaim
      BY <1>1, <2>1, <2>6, StopKeeps, CreateKeeps, StartKeeps, ReclaimKeeps
    <2>7. CASE ProbePasses \/ ProbeFails \/ ProbeWaits \/ NoProbe \/ Publish \/ PublishError
      BY <1>1, <2>1, <2>7, ProbesKeep, PublishKeeps
    <2> QED BY <1>3, <2>2, <2>3, <2>4, <2>5, <2>6, <2>7 DEF Next, AgentStep
  <1> QED BY <1>2, <1>3

\* The invariant of every behaviour.
THEOREM Invariant == Spec => []IInv
  <1> QED BY InitKeeps, NextKeeps, PTL DEF Spec

-----------------------------------------------------------------------------
(* Readiness.                                                              *)

\* Steps without a readiness check, a write or an edit.
LEMMA ProbedStays ==
    ASSUME Typed, Probed, spec' = spec, passed' = passed, probes' \subseteq probes, api' = api,
           agent' = agent \/ agent'.pc # "publish"
    PROVE  Probed'
  BY DEF Probed, ReadyWasProbed

\* What follows a call of the runtime, or its failure.
LEMMA NotPublishing ==
    ASSUME Typed, agent' = Failed \/ agent' = Idle \/ agent' = Onward
    PROVE  agent'.pc # "publish"
  <1>1. CASE agent' = Idle
    BY <1>1, Constants
  <1>2. CASE agent' = Onward
    BY <1>2, GoingOn DEF Between
  <1>3. CASE agent' = Failed
    BY <1>1, <1>3 DEF Failed, Typed, Agent
  <1> QED BY <1>1, <1>2, <1>3

LEMMA SweepProbes ==
    ASSUME Typed, Probed, spec' = spec,
           \/ List \/ ListBoxes \/ NextPod \/ EndPods \/ Terminate \/ RemoveStale
           \/ RemoveOrphans \/ Erase \/ EraseOrphans \/ EndSweep
    PROVE  Probed'
  <1>1. CASE List
    <2>1. agent'.pc = "boxes"
      BY <1>1 DEF List, Local, Idle
    <2> QED BY <1>1, <2>1, ProbedStays DEF List, Local
  <1>2. CASE ListBoxes \/ EndPods
    <2>1. agent'.pc \in {"next", "orphans"}
      BY <1>2 DEF ListBoxes, EndPods, Local, Typed, Agent
    <2> QED BY <1>2, <2>1, ProbedStays DEF ListBoxes, EndPods, Local
  <1>3. CASE NextPod
    <2>1. agent'.pc \in {"terminate", "prepare"}
      BY <1>3 DEF NextPod, Local, Typed, Agent
    <2> QED BY <1>3, <2>1, ProbedStays DEF NextPod, Local
  <1>4. ASSUME agent.pc \in {"terminate", "stale", "orphans"}, NEW pc \in {"erase", "run", "dirs"},
               Removal([agent EXCEPT !.pc = pc])
        PROVE  Probed'
    <2>1. \/ agent' = [agent EXCEPT !.pc = pc]
          \/ agent' = Failed \/ agent' = agent
          \/ \E b : agent' = [agent EXCEPT !.doomed = @ \ {b}]
      BY <1>4 DEF Removal, Rpc, Local
    <2>2. api' = api /\ probes' = probes /\ passed' = passed
      BY <1>4 DEF Removal, Rpc, Local
    <2>3. agent'.pc # "publish"
      BY <1>4, <2>1, NotPublishing DEF Typed, Agent
    <2> QED BY <2>2, <2>3, ProbedStays
  <1>5. CASE Terminate \/ RemoveStale \/ RemoveOrphans
    BY <1>4, <1>5 DEF Terminate, RemoveStale, RemoveOrphans
  <1>6. CASE Erase \/ EraseOrphans
    <2>1. /\ agent' = agent \/ agent' = Idle \/ agent' = Onward
          /\ api' = api /\ probes' = probes /\ passed' = passed
      BY <1>6 DEF Erase, EraseOrphans, Erasure, Local
    <2> QED BY <2>1, NotPublishing, ProbedStays
  <1>7. CASE EndSweep
    BY <1>7, NotPublishing, ProbedStays DEF EndSweep
  <1> QED BY <1>1, <1>2, <1>3, <1>5, <1>6, <1>7

LEMMA SyncProbes ==
    ASSUME Typed, Probed, spec' = spec,
           \/ Prepare \/ Project \/ Run \/ Look \/ Env \/ Pull
           \/ Stop \/ Create \/ Start \/ Observe \/ Reclaim
    PROVE  Probed'
  <1>1. api' = api /\ probes' = probes /\ passed' = passed
    BY DEF Prepare, Project, Run, Look, Env, Pull, Stop, Create, Start, Observe, Reclaim,
           Rpc, Local, SetVolume
  <1>2. agent' # Failed => agent'.pc # "publish"
    <2>1. CASE Prepare \/ Project
      BY <2>1 DEF Prepare, Project, Local, SetVolume, Typed, Agent
    <2>2. CASE Run \/ Create \/ Stop
      BY <2>2 DEF Run, Create, Stop, Rpc, Local, Typed, Agent
    <2>3. CASE Start \/ Reclaim
      BY <2>3 DEF Start, Reclaim, Rpc, Local, Typed, Agent
    <2>4. CASE Env \/ Pull \/ Observe
      BY <2>4 DEF Env, Pull, Observe, Local, Typed, Agent
    <2>5. CASE Look
      <3>1. agent' = [agent EXCEPT !.pc = "env"] \/ \E c \in Latest, pc \in {"env", "start", "reclaim"} :
               agent' = [agent EXCEPT !.cur = c.id, !.obs = c.st, !.pc = pc]
        BY <2>5 DEF Look, Local
      <3> QED BY <3>1 DEF Typed, Agent
    <2> QED BY <2>1, <2>2, <2>3, <2>4, <2>5
  <1> QED BY <1>1, <1>2, NotPublishing, ProbedStays

\* An entry becomes ready by a check that succeeds.
LEMMA ChecksProbe ==
    ASSUME Typed, Probed, spec' = spec, ProbePasses \/ ProbeFails \/ ProbeWaits \/ NoProbe
    PROVE  Probed'
  <1>1. /\ agent.cur \in Nat /\ Entry(agent.cur) \in Reading /\ Entry(agent.cur).id = agent.cur
        /\ api' = api /\ passed \subseteq passed'
    BY EntryTyped DEF Typed, Agent, ProbePasses, ProbeFails, ProbeWaits, NoProbe, Checked, Local
  <1>2. Entry(agent.cur).ready => agent.cur \in passed
    BY <1>1 DEF Entry, Probed
  <1>3. ReadyWasProbed'
    BY <1>1 DEF Probed, ReadyWasProbed
  <1>4. \A ready : agent' = ToPublish(ready) =>
           agent'.cur = agent.cur /\ agent'.pc = "publish" /\ agent'.ready = ready
    BY DEF ToPublish, Typed, Agent
  <1>5. ASSUME NEW ok \in BOOLEAN, Checked(ok) PROVE Probed'
    <2>1. PICK e : e = counted(Entry(agent.cur), ok)
      OBVIOUS
    <2>2. e.id = agent.cur /\ (e.ready => ok \/ Entry(agent.cur).ready)
      BY <1>1, <2>1 DEF counted, Reading
    <2>3. e.ready => e.id \in passed'
      BY <1>2, <1>5, <2>2 DEF Checked
    <2>4. probes' = {x \in probes : x.id # agent.cur} \cup {e} /\ agent' = ToPublish(e.ready)
      BY <1>5, <2>1 DEF Checked
    <2>5. \A x \in probes' : x.ready => x.id \in passed'
      BY <1>1, <2>3, <2>4 DEF Probed
    <2> QED BY <1>3, <1>4, <2>2, <2>3, <2>4, <2>5 DEF Probed
  <1>6. CASE ProbePasses \/ ProbeFails
    BY <1>5, <1>6 DEF ProbePasses, ProbeFails
  <1>7. CASE ProbeWaits
    <2>1. agent' = ToPublish(Entry(agent.cur).ready) /\ probes' = probes /\ passed' = passed
      BY <1>7 DEF ProbeWaits, Local
    <2> QED BY <1>2, <1>3, <1>4, <2>1 DEF Probed
  <1>8. CASE NoProbe
    <2>1. /\ agent' = ToPublish(agent.obs = "running") /\ probes' = probes /\ passed' = passed
          /\ ~(agent.obs = "running" /\ spec.probe)
      BY <1>8 DEF NoProbe, Local, Checking
    <2> QED BY <1>3, <1>4, <2>1 DEF Probed
  <1> QED BY <1>6, <1>7, <1>8

\* What is published as ready is the container the sweep is at.
LEMMA PublishProbes ==
    ASSUME Typed, Probed, spec' = spec, Publish \/ PublishError
    PROVE  Probed'
  <1>1. agent.pod = {Mine} /\ Mine \in Pod /\ agent.pc \in {"publish", "error"}
    BY AtPod DEF Publish, PublishError, Between
  <1>2. ASSUME NEW status, Put(status), status.ready /\ spec.probe => status.cid \in passed
        PROVE  Probed'
    <2>1. PICK new : new = [Mine EXCEPT !.status = status]
      OBVIOUS
    <2>2. new.status = status
      BY <1>1, <2>1 DEF Pod
    <2>3. /\ passed' = passed /\ probes' = probes /\ (agent' = Onward \/ agent' = Idle)
          /\ \/ api' = api
             \/ api' = [api EXCEPT ![Mine.name] = IF @ = {Mine} THEN {new} ELSE @]
      BY <1>2, <2>1 DEF Put
    <2>4. \A n \in Names : \A q \in api'[n] : q \in api[n] \/ q = new
      BY <2>3 DEF Typed
    <2>5. ReadyWasProbed'
      BY <1>2, <2>2, <2>3, <2>4 DEF Probed, ReadyWasProbed
    <2>6. agent'.pc # "publish"
      BY <2>3, NotPublishing
    <2> QED BY <2>3, <2>5, <2>6 DEF Probed
  <1>3. CASE Publish
    <2>1. PICK status : status = [phase |-> phase(agent.obs), restarts |-> TheCtr(agent.cur).n,
                                   ready |-> agent.ready, cid |-> agent.cur]
      OBVIOUS
    <2>2. status.ready = agent.ready /\ status.cid = agent.cur
      BY <2>1
    <2> QED BY <1>2, <1>3, <2>1, <2>2 DEF Publish, Probed
  <1>4. CASE PublishError
    <2>1. PICK status : status = [Mine.status EXCEPT !.ready = FALSE,
                                     !.phase = IF @ = "none" THEN "Pending" ELSE @]
      OBVIOUS
    <2>2. ~status.ready
      BY <1>1, <2>1 DEF Pod, Status
    <2> QED BY <1>2, <1>4, <2>1, <2>2 DEF PublishError
  <1> QED BY <1>3, <1>4

LEMMA WorldProbes ==
    ASSUME Typed, Probed, spec' = spec,
           \/ ReadFails \/ Exit \/ DelayPasses \/ BoxDies \/ AgentRestart \/ Reboot \/ UserEdits
           \/ ConfEdit
    PROVE  Probed'
  <1>1. CASE ~UserEdits
    BY <1>1, NotPublishing, ProbedStays
       DEF ReadFails, Exit, DelayPasses, BoxDies, AgentRestart, Reboot, ConfEdit
  <1>2. CASE UserEdits
    <2>1. agent' = agent /\ probes' = probes /\ passed' = passed
      BY <1>2 DEF UserEdits
    <2>2. \A n \in Names : \A q \in api'[n] : ~q.status.ready \/ \E p \in api[n] : q.status = p.status
      <3>1. \A n, u : ~NewPod(n, u).status.ready
        BY DEF NewPod, Unreported
      <3>2. \A n \in Names : \A p \in api[n] : /\ [p EXCEPT !.hash = @ + 1].status = p.status
                                               /\ [p EXCEPT !.terminating = TRUE].status = p.status
        BY DEF Typed, Pod
      <3>3. PICK n \in Names :
          /\ \A m \in Names : m # n => api'[m] = api[m]
          /\ \/ \E p \in api[n] : api'[n] = {[p EXCEPT !.hash = @ + 1]}
             \/ \E p \in api[n] : api'[n] = {[p EXCEPT !.terminating = TRUE]}
             \/ api'[n] = {}
             \/ \E u : api'[n] = {NewPod(n, u)}
        BY <1>2 DEF UserEdits, Typed
      <3>4. \A q \in api'[n] : ~q.status.ready \/ \E p \in api[n] : q.status = p.status
        <4>1. \A u : ~NewPod(n, u).status.ready
          BY <3>1
        <4>2. \A p \in api[n] : \/ api'[n] = {[p EXCEPT !.hash = @ + 1]}
                               \/ api'[n] = {[p EXCEPT !.terminating = TRUE]}
                => \A q \in api'[n] : q.status = p.status
          BY <3>2
        <4> QED BY <3>3, <4>1, <4>2
      <3> QED BY <3>3, <3>4
    <2>3. ReadyWasProbed'
      BY <2>1, <2>2 DEF Probed, ReadyWasProbed
    <2> QED BY <2>1, <2>3 DEF Probed
  <1> QED BY <1>1, <1>2

LEMMA NextProbes == Typed /\ Probed /\ [Next]_vars => Probed'
  <1> SUFFICES ASSUME Typed, Probed, [Next]_vars PROVE Probed'
    OBVIOUS
  <1>1. CASE UNCHANGED vars
    BY <1>1, ProbedStays DEF vars
  <1>2. CASE Next
    BY <1>2, SweepProbes, SyncProbes, ChecksProbe, PublishProbes, WorldProbes
       DEF Next, AgentStep, Environment
  <1> QED BY <1>1, <1>2

\* Ready is only published of a container that passed its probe.
THEOREM ReadyCorrect == Spec => []ReadyWasProbed
  <1>1. Init => Probed
    BY Constants DEF Init, Probed, ReadyWasProbed, NewPod, Unreported
  <1>2. IInv => Typed
    BY DEF IInv
  <1>3. Probed => ReadyWasProbed
    BY DEF Probed
  <1> QED BY <1>1, <1>2, <1>3, Invariant, NextProbes, PTL DEF Spec

-----------------------------------------------------------------------------
(* A Pod runs once, and on its volume.                                     *)

\* A set of which any two members are equal has at most one.
LEMMA AtMostOne ==
    ASSUME NEW S, \A x, y \in S : x = y
    PROVE  Cardinality(S) <= 1
  <1>1. CASE S = {}
    <2>1. Cardinality(S) = 0
      BY <1>1, FS_EmptySet
    <2> QED BY <2>1
  <1>2. CASE S # {}
    <2>1. PICK x : S = {x}
      BY <1>2
    <2>2. Cardinality(S) = 1
      BY <2>1, FS_Singleton
    <2> QED BY <2>2
  <1> QED BY <1>1, <1>2

LEMMA RunsInv == IInv => RunsOnceOnItsVolume
  <1> SUFFICES ASSUME IInv PROVE RunsOnceOnItsVolume
    OBVIOUS
  <1> USE DEF IInv, World, AgentInv
  <1>1. \A c, d \in cri.ctrs : c.uid = d.uid => c.box = d.box
    <2> SUFFICES ASSUME NEW c \in cri.ctrs, NEW d \in cri.ctrs, c.uid = d.uid PROVE c.box = d.box
      OBVIOUS
    <2>1. PICK a \in cri.boxes : a.id = c.box /\ a.uid = c.uid
      BY DEF Boxed
    <2>2. PICK b \in cri.boxes : b.id = d.box /\ b.uid = d.uid
      BY DEF Boxed
    <2> QED BY <2>1, <2>2 DEF Boxed
  <1>2. \A c, d \in cri.ctrs : c.id \in Nat /\ c.n \in Nat /\ (c.id = d.id => c = d)
    BY DEF Typed, Ctr, Ids, Boxed
  <1>3. TypeOK
    <2>1. \A n \in Names : Cardinality(api[n]) <= 1
      BY AtMostOne DEF Identified
    <2>2. \A u \in Uids : Cardinality(vol[u].data) <= 1
      BY AtMostOne DEF Projected
    <2>3. \A c, d \in cri.ctrs : c.box = d.box /\ c.n = d.n => c = d
      <3> SUFFICES ASSUME NEW c \in cri.ctrs, NEW d \in cri.ctrs, c.box = d.box, c.n = d.n, c # d
                   PROVE  FALSE
        OBVIOUS
      <3>1. c.id < d.id \/ d.id < c.id
        BY <1>2
      <3>2. c.n < d.n \/ d.n < c.n
        BY <3>1 DEF Superseded
      <3> QED BY <1>2, <3>2
    <2> QED BY <1>2, <2>1, <2>2, <2>3 DEF TypeOK, Typed, Agent
  <1>4. RunsOnce
    <2> SUFFICES ASSUME NEW c \in cri.ctrs, NEW d \in cri.ctrs, c.uid = d.uid,
                        c.st = "running", d.st = "running", c # d
                 PROVE  FALSE
      BY DEF RunsOnce
    <2>1. c.box = d.box /\ (c.id < d.id \/ d.id < c.id)
      BY <1>1, <1>2
    <2> QED BY <2>1 DEF Superseded
  <1>5. RunsOnItsVolume
    <2>1. \A c \in cri.ctrs : c.uid \in Uids
      BY DEF Typed, Ctr
    <2> QED BY <2>1 DEF RunsOnItsVolume, Projected
  <1> QED BY <1>3, <1>4, <1>5 DEF RunsOnceOnItsVolume

\* Of a Pod's containers at most one runs, whatever answers of the runtime
\* were lost and whichever of the agent, a sandbox and the node restarted, and
\* it runs on a mounted volume with one complete generation.
THEOREM RunsOnceCorrect == Spec => []RunsOnceOnItsVolume
  <1> QED BY Invariant, RunsInv, PTL

-----------------------------------------------------------------------------
(* Nothing is taken back.                                                  *)

\* A write of the count goes up; an edit leaves it, or is a Pod of another uid.
LEMMA CountsGrow ==
    ASSUME IInv, [Next]_vars, NEW n \in Names, NEW p \in api[n], NEW q \in api'[n], p.uid = q.uid
    PROVE  q.status.restarts >= p.status.restarts
  <1> USE DEF IInv, World, AgentInv
  <1>1. p.status.restarts \in Nat
    BY DEF Typed, Pod, Status
  <1>2. \A x \in api[n] : x.uid = q.uid => x = p
    BY DEF Identified
  <1>3. CASE q \in api[n]
    BY <1>1, <1>2, <1>3
  <1>4. CASE Publish \/ PublishError
    <2>1. agent.pod = {Mine} /\ Mine \in Pod /\ Mine \in Open
      BY <1>4, AtPod DEF Publish, PublishError, Between, Open
    <2>2. ASSUME NEW status, Put(status), status.restarts >= Mine.status.restarts
          PROVE  q.status.restarts >= p.status.restarts
      <3>1. PICK new : new = [Mine EXCEPT !.status = status]
        OBVIOUS
      <3>2. new.uid = Mine.uid /\ new.status = status
        BY <2>1, <3>1 DEF Pod
      <3>3. \/ api' = api
            \/ api' = [api EXCEPT ![Mine.name] = IF @ = {Mine} THEN {new} ELSE @]
        BY <2>2, <3>1 DEF Put
      <3>4. q \in api[n] \/ (q = new /\ n = Mine.name /\ api[n] = {Mine})
        BY <2>1, <3>3 DEF Typed, Pod
      <3> QED BY <1>3, <2>2, <3>2, <3>4
    <2>3. CASE PublishError
      <3>1. PICK status : status = [Mine.status EXCEPT !.ready = FALSE,
                                      !.phase = IF @ = "none" THEN "Pending" ELSE @]
        OBVIOUS
      <3>2. status.restarts = Mine.status.restarts /\ Mine.status.restarts \in Nat
        BY <2>1, <3>1 DEF Pod, Status
      <3>3. Put(status)
        BY <2>3, <3>1 DEF PublishError
      <3>4. status.restarts >= Mine.status.restarts
        BY <3>2
      <3> HIDE DEF IInv
      <3> QED BY <2>2, <3>3, <3>4
    <2>4. CASE Publish
      <3>1. agent.pc = "publish" /\ agent.cur # 0
        BY <2>4 DEF Publish, AtCtr
      <3>2. PICK k : k = TheCtr(agent.cur)
        OBVIOUS
      <3>3. k \in cri.ctrs /\ k.id = agent.cur /\ Last(k) /\ k.n \in Nat
        BY <3>1, <3>2, AtContainer DEF InCtr, InBox, Ctr
      <3>4. PICK status : status = [phase |-> phase(agent.obs), restarts |-> k.n,
                                     ready |-> agent.ready, cid |-> agent.cur]
        OBVIOUS
      <3>5. Put(status) /\ status.restarts = k.n
        BY <2>4, <3>2, <3>4 DEF Publish
      <3>6. CASE p = Mine
        <4>1. ~p.terminating /\ n = p.name
          BY <2>1, <3>1, <3>6 DEF AtBox, Identified
        <4>2. PICK b \in cri.boxes : b.id = k.box /\ b.uid = k.uid
          BY <3>3 DEF Boxed
        <4>3. b.id = agent.box /\ b.uid = p.uid
          BY <2>1, <3>1, <3>3, <3>6, <4>2 DEF Last, AtBox, InBox
        <4>4. k.n >= p.status.restarts
          BY <3>3, <4>1, <4>2, <4>3 DEF Counted, Usable, Last
        <4> QED BY <2>2, <3>5, <3>6, <4>4
      <3>7. CASE p # Mine
        <4>1. PICK new : new = [Mine EXCEPT !.status = status]
          OBVIOUS
        <4>2. \/ api' = api
              \/ api' = [api EXCEPT ![Mine.name] = IF @ = {Mine} THEN {new} ELSE @]
          BY <3>5, <4>1 DEF Put
        <4>3. q \in api[n] \/ (n = Mine.name /\ api[n] = {Mine})
          BY <2>1, <4>2 DEF Typed, Pod
        <4> QED BY <1>3, <3>7, <4>3
      <3> QED BY <3>6, <3>7
    <2> QED BY <1>4, <2>3, <2>4
  <1>5. CASE UserEdits
    <2>1. PICK m \in Names :
          /\ \A k \in Names : k # m => api'[k] = api[k]
          /\ \/ \E x \in api[m] : api'[m] = {[x EXCEPT !.hash = @ + 1]}
             \/ \E x \in api[m] : api'[m] = {[x EXCEPT !.terminating = TRUE]}
             \/ api'[m] = {}
             \/ \E u : Fresh(u) /\ api'[m] = {NewPod(m, u)}
      BY <1>5 DEF UserEdits, Typed
    <2>2. \A x \in api[m] : Continues([x EXCEPT !.hash = @ + 1], x)
                            /\ Continues([x EXCEPT !.terminating = TRUE], x)
      BY DEF Continues, Typed, Pod
    <2>3. \A u : Fresh(u) => NewPod(m, u).uid = u /\ u \notin Used
      BY Constants DEF NewPod, Fresh, Used, Typed
    <2>4. q \in api[n] \/ (\E x \in api[n] : Continues(q, x)) \/ q.uid \notin Used
      <3>1. CASE n # m
        BY <2>1, <3>1
      <3>2. CASE n = m
        <4>1. (\E x \in api[m] : Continues(q, x)) \/ \E u : Fresh(u) /\ q = NewPod(m, u)
          <5> HIDE DEF IInv
          <5> QED BY <2>1, <2>2, <3>2
        <4> QED BY <2>3, <3>2, <4>1
      <3> QED BY <3>1, <3>2
    <2>5. q.uid \in Used
      BY DEF Identified
    <2> QED BY <1>1, <1>2, <2>4, <2>5 DEF Continues
  <1>6. CASE api' = api
    BY <1>3, <1>6
  <1>7. Publish \/ PublishError \/ UserEdits \/ api' = api
    BY DEF Next, AgentStep, Environment, vars, List, ListBoxes, NextPod, EndPods, Terminate,
           RemoveStale, RemoveOrphans, Erase, EraseOrphans, EndSweep, Prepare, Project, Run, Look,
           Env, Pull, Stop, Create, Start, Observe, Reclaim, ProbePasses, ProbeFails, ProbeWaits,
           NoProbe, ReadFails, Exit, BoxDies, AgentRestart, Reboot, ConfEdit, DelayPasses, Removal,
           Erasure, Rpc, Local, SetVolume, Checked
  <1> QED BY <1>4, <1>5, <1>6, <1>7

\* Only create makes containers: all others are known.
LEMMA MadeByCreate ==
    ASSUME IInv, [Next]_vars, ~Create
    PROVE  \A c \in cri'.ctrs : c.id < cri.next
  <1> USE DEF IInv, World, AgentInv
  <1>0. \A c \in cri.ctrs : c.id < cri.next
    BY DEF Boxed
  <1>1. Winds => \A c \in cri'.ctrs : c.id < cri.next
    BY <1>0 DEF Winds, Same
  <1>2. cri'.ctrs = cri.ctrs => \A c \in cri'.ctrs : c.id < cri.next
    BY <1>0
  <1>3. CASE Terminate \/ RemoveStale \/ RemoveOrphans
    <2>1. cri' = cri \/ \E b \in agent.doomed : cri' = removal(b)
      BY <1>3 DEF Terminate, RemoveStale, RemoveOrphans, Removal, Rpc, Local
    <2>2. agent.pc \in {"terminate", "stale", "orphans"}
      BY <1>3 DEF Terminate, RemoveStale, RemoveOrphans
    <2> QED BY <1>1, <1>2, <2>1, <2>2, RemovalLeads
  <1>4. ASSUME NEW c \in cri.ctrs, cri' \in {cri, StopCtr(c), DropCtr(c)}
        PROVE  \A d \in cri'.ctrs : d.id < cri.next
    BY <1>1, <1>2, <1>4, Stopping, Dropping
  <1>5. CASE Stop
    <2>1. TheCtr(agent.cur) \in cri.ctrs
      BY <1>5, AtContainer DEF Stop, AtCtr, InCtr, InBox
    <2>2. cri' \in {cri, StopCtr(TheCtr(agent.cur))}
      BY <1>5 DEF Stop, Rpc
    <2> QED BY <1>4, <2>1, <2>2
  <1>6. CASE Reclaim
    <2>1. cri' = cri \/ \E c \in cri.ctrs : cri' \in {cri, StopCtr(c), DropCtr(c)}
      BY <1>6 DEF Reclaim, Rpc, Local, CtrsOf
    <2> QED BY <1>2, <1>4, <2>1
  <1>7. ASSUME NEW c \in cri.ctrs, NEW d, d.id = c.id,
               cri' = [cri EXCEPT !.ctrs = (@ \ {c}) \cup {d}]
        PROVE  \A x \in cri'.ctrs : x.id < cri.next
    <2>1. cri'.ctrs = (cri.ctrs \ {c}) \cup {d}
      BY <1>7 DEF Typed
    <2> QED BY <1>0, <1>7, <2>1
  <1>8. CASE Start
    <2>1. PICK k : k = TheCtr(agent.cur)
      OBVIOUS
    <2>2. k \in cri.ctrs /\ k \in Ctr
      BY <1>8, <2>1, AtContainer DEF Start, AtCtr, InCtr, InBox
    <2>3. PICK r : r = [k EXCEPT !.st = "running"]
      OBVIOUS
    <2>4. r.id = k.id
      BY <2>2, <2>3 DEF Ctr
    <2>5. cri' = cri \/ cri' = [cri EXCEPT !.ctrs = (@ \ {k}) \cup {r}]
      BY <1>8, <2>1, <2>3 DEF Start, Rpc, Local
    <2> QED BY <1>2, <1>7, <2>2, <2>4, <2>5
  <1>9. CASE Exit \/ DelayPasses
    <2>1. \A c \in cri.ctrs : \A st : /\ [c EXCEPT !.st = st, !.due = FALSE].id = c.id
                                  /\ [c EXCEPT !.due = TRUE].id = c.id
      BY DEF Typed, Ctr
    <2>2. \E c \in cri.ctrs : \E d : d.id = c.id /\ cri' = [cri EXCEPT !.ctrs = (@ \ {c}) \cup {d}]
      BY <1>9, <2>1 DEF Exit, DelayPasses
    <2> QED BY <1>7, <2>2
  <1>10. CASE BoxDies \/ Run
    <2>1. cri'.ctrs = cri.ctrs
      BY <1>10 DEF BoxDies, Run, Rpc, Local, Typed
    <2> QED BY <1>2, <2>1
  <1>11. CASE Reboot
    <2>1. \A c \in cri.ctrs : [c EXCEPT !.st = "failed", !.due = FALSE].id = c.id
      BY DEF Typed, Ctr
    <2>2. cri'.ctrs = {IF c.st = "running" THEN [c EXCEPT !.st = "failed", !.due = FALSE] ELSE c : c \in cri.ctrs}
      BY <1>11 DEF Reboot, Typed
    <2>3. \A x \in cri'.ctrs : \E c \in cri.ctrs : x.id = c.id
      BY <2>1, <2>2
    <2> QED BY <1>0, <2>3
  <1>12. \/ Terminate \/ RemoveStale \/ RemoveOrphans \/ Stop \/ Reclaim \/ Start \/ Exit
         \/ DelayPasses \/ BoxDies \/ Run \/ Reboot \/ cri' = cri
    BY DEF Next, AgentStep, Environment, vars, List, ListBoxes, NextPod, EndPods, Erase,
           EraseOrphans, EndSweep, Prepare, Project, Look, Env, Pull, Observe, ProbePasses,
           ProbeFails, ProbeWaits, NoProbe, Publish, PublishError, ReadFails, AgentRestart,
           UserEdits, ConfEdit, Erasure, Local, SetVolume, Checked, Put
  <1> QED BY <1>2, <1>3, <1>5, <1>6, <1>8, <1>9, <1>10, <1>11, <1>12

\* What create replaces in a sandbox, for the same spec, has not ended for good.
LEMMA FinishedStays ==
    ASSUME IInv, [Next]_vars, NEW c \in cri'.ctrs, NEW d \in cri.ctrs,
           c.box = d.box, c.hash = d.hash, c.id >= cri.next
    PROVE  ~Finished(d)
  <1> USE DEF IInv, World, AgentInv
  <1>0. c.id \in Nat /\ cri.next \in Nat /\ \A x \in cri.ctrs : x.id < cri.next
    <2>1. Typed'
      BY TypedNext
    <2> QED BY <2>1 DEF Typed, Ctr, Ids, Boxed
  <1>1. Create
    BY <1>0, MadeByCreate
  <1>2. agent.pc = "create" /\ BoxReady
    BY <1>0, <1>1 DEF Create, Local
  <1>3. PICK nc : nc = [id |-> cri.next, box |-> agent.box, uid |-> Mine.uid, n |-> attempt,
                        hash |-> Mine.hash, st |-> "created", due |-> FALSE]
    OBVIOUS
  <1>4. nc.box = agent.box /\ nc.hash = Mine.hash
    BY <1>3
  <1>5. cri' = cri \/ cri' = [cri EXCEPT !.next = @ + 1, !.ctrs = @ \cup {nc}]
    BY <1>1, <1>2, <1>3 DEF Create, Rpc
  <1>6. c \in cri.ctrs \/ c = nc
    BY <1>5 DEF Typed
  <1>7. d.box = agent.box /\ d.hash = Mine.hash
    BY <1>0, <1>4, <1>6
  <1>8. ~Over(d)
    BY <1>2, <1>7, Attempt
  <1> QED BY <1>8 DEF Finished, Over

\* A published count of restarts never goes back, although it is read from
\* containers that are lost with their sandbox; and no container is made for a
\* spec in a sandbox where one has ended for good.
THEOREM NeverBackCorrect == Spec => NeverGoesBack
  <1>1. IInv /\ [Next]_vars =>
          [\A n \in Names : \A p \in api[n], q \in api'[n] :
             p.uid = q.uid => q.status.restarts >= p.status.restarts]_vars
    BY CountsGrow
  <1>2. IInv /\ [Next]_vars =>
          [\A c \in cri'.ctrs, d \in cri.ctrs :
             c.box = d.box /\ c.hash = d.hash /\ c.id >= cri.next => ~Finished(d)]_vars
    BY FinishedStays
  <1> QED BY <1>1, <1>2, Invariant, PTL DEF Spec, NeverGoesBack, RestartsGrow, FinishedStaysFinished
=============================================================================
