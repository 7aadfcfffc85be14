----------------------------- MODULE PodRuntime -----------------------------
(***************************************************************************)
(* The agent's Pod runtime (h3s-kubelet/src/runtime.rs, with probe.rs and  *)
(* volumes.rs): a sweep lists the assigned Pods and the node's sandboxes,  *)
(* brings every Pod's volume, sandbox and container to its spec, publishes *)
(* its status and then collects what no listed Pod owns.                   *)
(*                                                                         *)
(* The API server and the container runtime (CRI) are external: each call  *)
(* to them is a step that may fail, and a failed CRI call or status write  *)
(* may have taken effect.  Containers exit, sandboxes die, the agent and   *)
(* the node restart and users replace Pods between any two steps.          *)
(*                                                                         *)
(* A Pod has one container and one projected volume.  Sandboxes and        *)
(* containers are named by the order of their creation.                    *)
(***************************************************************************)
EXTENDS Integers, FiniteSets, FiniteSetsExt

CONSTANTS
    Names,             \* names of Pods assigned to this node
    Specs,             \* the kinds of Pods: restart policy, and if there is a probe
    SuccessThreshold, FailureThreshold,   \* of the readiness probe
    MaxEvents          \* bound on failures, exits, restarts and user edits

ASSUME PodRuntimeAssumption ==
    /\ Specs \subseteq [policy : {"Always", "OnFailure", "Never"}, probe : BOOLEAN]
    /\ SuccessThreshold \in Nat \ {0} /\ FailureThreshold \in Nat \ {0}
    /\ MaxEvents \in Nat /\ IsFiniteSet(Names)

VARIABLES
    spec,     \* of the Pods of this run, one of Specs
    api,      \* api[n]: {} or the one Pod of that name
    conf,     \* the content of the ConfigMap the volumes project, 0: absent
    cri,      \* the runtime: [boxes, ctrs, next], next the next identity
    vol,      \* vol[u]: the local directory of Pod uid u
    agent,    \* the sweep in progress
    probes,   \* readiness entries in the agent's memory
    passed,   \* history: containers of which a readiness check succeeded
    events    \* failures, exits, restarts and edits so far

vars == <<spec, api, conf, cri, vol, agent, probes, passed, events>>

Uids == 1..(MaxEvents + Cardinality(Names))
Ids == Nat \ {0}

Status == [phase : {"none", "Pending", "Running", "Succeeded", "Failed"},
           restarts : Nat, ready : BOOLEAN, cid : Nat]
Pod == [uid : Uids, name : Names, hash : Nat, terminating : BOOLEAN, status : Status]
Box == [id : Ids, uid : Uids, ready : BOOLEAN]
\* `n' is the attempt; `due' says the restart delay has passed since the exit.
Ctr == [id : Ids, box : Ids, uid : Uids, n : Nat, hash : Nat,
        st : {"created", "running", "done", "failed"}, due : BOOLEAN]
Exited == {"done", "failed"}

\* A directory, its tmpfs, the generations in it and the one ..data names.
Generation == [v : Nat, whole : BOOLEAN]
Volume == [dir : BOOLEAN, mounted : BOOLEAN, gens : SUBSET Generation,
           data : SUBSET Generation]
NoVolume == [dir |-> FALSE, mounted |-> FALSE, gens |-> {}, data |-> {}]

\* Where a failure fails one Pod (sync), and where it ends the sweep.
SyncSteps == {"prepare", "project", "stale", "run", "look", "env", "pull", "stop",
              "create", "start", "status", "reclaim", "probe"}
Steps == SyncSteps \cup {"idle", "boxes", "next", "terminate", "erase", "publish",
                         "error", "orphans", "dirs"}

Idle == [pc |-> "idle", todo |-> {}, pod |-> {}, desired |-> {}, seen |-> {},
         doomed |-> {}, box |-> 0, want |-> 0, cur |-> 0, obs |-> "created",
         ready |-> FALSE, live |-> {}]

\* Between two Pods only what concerns the whole sweep is kept.
Onward == [Idle EXCEPT !.pc = "next", !.todo = agent.todo, !.desired = agent.desired,
             !.seen = agent.seen, !.live = agent.live]

ThePod(S) == CHOOSE p \in S : TRUE
Mine == ThePod(agent.pod)
CtrsOf(b) == {c \in cri.ctrs : c.box = b}
TheCtr(id) == CHOOSE c \in cri.ctrs : c.id = id

\* Objects and the sweep's snapshots have their types; a name has one Pod, an
\* identity one sandbox or container, and ..data one target (sync, project).
TypeOK ==
    /\ api \in [Names -> SUBSET Pod] /\ \A n \in Names : Cardinality(api[n]) <= 1
    /\ conf \in Nat /\ spec \in Specs
    /\ cri.boxes \subseteq Box /\ cri.ctrs \subseteq Ctr
    /\ \A c, d \in cri.ctrs : c.id = d.id => c = d
    /\ \A c, d \in cri.ctrs : c.box = d.box /\ c.n = d.n => c = d
    /\ vol \in [Uids -> Volume] /\ \A u \in Uids : Cardinality(vol[u].data) <= 1
    /\ agent.pc \in Steps /\ agent.seen \subseteq Box
    /\ events \in 0..MaxEvents

Unreported == [phase |-> "none", restarts |-> 0, ready |-> FALSE, cid |-> 0]
NewPod(n, u) ==
    [uid |-> u, name |-> n, hash |-> 0, terminating |-> FALSE, status |-> Unreported]

Init ==
    /\ spec \in Specs
    /\ \E uid \in Injection(Names, 1..Cardinality(Names)) :
         api = [n \in Names |-> {NewPod(n, uid[n])}]
    /\ conf = 1
    /\ cri = [boxes |-> {}, ctrs |-> {}, next |-> 1]
    /\ vol = [u \in Uids |-> NoVolume]
    /\ agent = Idle
    /\ probes = {} /\ passed = {} /\ events = 0

-----------------------------------------------------------------------------
(* Failures                                                                *)

Spend == events < MaxEvents /\ events' = events + 1

\* What the agent does after a failed step: report the Pod's failure, or give
\* the sweep up.
Failed == IF agent.pc \in SyncSteps THEN [agent EXCEPT !.pc = "error"] ELSE Idle

\* A call that changes the runtime: it succeeds, or it fails with or without
\* its effect.
Rpc(changed, done) ==
    /\ \/ cri' = changed /\ agent' = done /\ UNCHANGED events
       \/ Spend /\ cri' \in {cri, changed} /\ agent' = Failed
    /\ UNCHANGED <<api, conf, vol, probes, passed>>

\* A step of the agent alone.
Local(done) ==
    agent' = done /\ UNCHANGED <<api, conf, cri, vol, probes, passed, events>>

\* A read of the API or of the runtime, a pull, or a file operation fails.
ReadFails ==
    /\ agent.pc \in {"idle", "boxes", "prepare", "project", "look", "env", "pull", "status"}
    /\ Spend
    /\ agent' = Failed
    /\ UNCHANGED <<api, conf, cri, vol, probes, passed>>

-----------------------------------------------------------------------------
(* The sweep                                                               *)

List ==
    /\ agent.pc = "idle"
    /\ LET P == UNION {api[n] : n \in Names} IN
       Local([Idle EXCEPT !.pc = "boxes", !.todo = P, !.desired = {p.uid : p \in P}])

ListBoxes ==
    /\ agent.pc = "boxes"
    /\ Local([agent EXCEPT !.pc = "next", !.seen = cri.boxes])

Own(p) == {b \in agent.seen : b.uid = p.uid}

NextPod ==
    /\ agent.pc = "next"
    /\ \E p \in agent.todo :
         LET taken == [agent EXCEPT !.todo = @ \ {p}, !.pod = {p}] IN
         IF p.terminating
         THEN Local([taken EXCEPT !.pc = "terminate", !.doomed = Own(p)])
         ELSE Local([taken EXCEPT !.pc = "prepare"])

\* Fault: only sandboxes that are ready are collected.
Orphaned_ready == {b \in agent.seen : b.ready /\ b.uid \notin agent.desired}

\* Only a complete snapshot establishes absence.
Orphaned == {b \in agent.seen : b.uid \notin agent.desired}

EndPods ==
    /\ agent.pc = "next" /\ agent.todo = {}
    /\ Local([agent EXCEPT !.pc = "orphans", !.doomed = Orphaned])

\* One call of remove: stop and remove the containers, then the sandbox.
StopCtr(c) == [cri EXCEPT !.ctrs = IF c.st = "running"
                            THEN (@ \ {c}) \cup {[c EXCEPT !.st = "failed", !.due = FALSE]}
                            ELSE @]
DropCtr(c) == [cri EXCEPT !.ctrs = @ \ {c}]

removal(b) ==
    IF CtrsOf(b.id) # {}
    THEN LET c == CHOOSE c \in CtrsOf(b.id) : TRUE IN
         IF c.st = "running" THEN StopCtr(c) ELSE DropCtr(c)
    ELSE [cri EXCEPT !.boxes = {x \in @ : x.id # b.id} \cup
            {[x EXCEPT !.ready = FALSE] : x \in {y \in @ : y.id = b.id /\ y.ready}}]

\* Removes the doomed sandboxes and goes on with `done'.
Removal(done) ==
    IF agent.doomed = {} THEN Local(done)
    ELSE \E b \in agent.doomed :
           Rpc(removal(b), IF \E x \in removal(b).boxes : x.id = b.id THEN agent
                           ELSE [agent EXCEPT !.doomed = @ \ {b}])

Terminate == agent.pc = "terminate" /\ Removal([agent EXCEPT !.pc = "erase"])
RemoveStale == agent.pc = "stale" /\ Removal([agent EXCEPT !.pc = "run"])
RemoveOrphans == agent.pc = "orphans" /\ Removal([agent EXCEPT !.pc = "dirs"])

\* Unmounts and removes the directories of U; a busy mount ends the sweep.
Erasure(U, done) ==
    LET left == {u \in U : vol[u] # NoVolume} IN
    IF left = {} THEN Local(done)
    ELSE \E u \in left :
           IF vol[u].mounted /\ \E c \in cri.ctrs : c.uid = u /\ c.st = "running"
           THEN Local(Idle)
           ELSE /\ vol' = [vol EXCEPT ![u] = IF @.mounted THEN [NoVolume EXCEPT !.dir = TRUE]
                                             ELSE NoVolume]
                /\ UNCHANGED <<api, conf, cri, agent, probes, passed, events>>

Erase == agent.pc = "erase" /\ Erasure({Mine.uid}, Onward)
EraseOrphans ==
    /\ agent.pc = "dirs"
    /\ \E u \in Uids \ agent.desired : vol[u] # NoVolume
    /\ Erasure(Uids \ agent.desired, agent)

\* Readiness entries of containers not observed in this sweep are forgotten.
EndSweep ==
    /\ agent.pc = "dirs"
    /\ \A u \in Uids \ agent.desired : vol[u] = NoVolume
    /\ probes' = {e \in probes : e.id \in agent.live}
    /\ agent' = Idle
    /\ UNCHANGED <<api, conf, cri, vol, passed, events>>

-----------------------------------------------------------------------------
(* Volumes                                                                 *)

SetVolume(u, v) ==
    vol' = [vol EXCEPT ![u] = v] /\ UNCHANGED <<api, conf, cri, probes, passed, events>>

\* The references of a Pod resolve: the object and its keys exist.
Resolved == conf # 0

\* Inputs are resolved before anything is mutated; then the tmpfs is mounted.
Prepare ==
    /\ agent.pc = "prepare"
    /\ IF ~Resolved THEN Local(Failed)
       ELSE /\ SetVolume(Mine.uid, IF vol[Mine.uid].mounted THEN vol[Mine.uid]
                                   ELSE [NoVolume EXCEPT !.dir = TRUE, !.mounted = TRUE])
            /\ agent' = [agent EXCEPT !.pc = "project", !.want = conf]

\* The next file operation of project: a new generation is begun, completed
\* and published, then the others are removed.
projection(v, want) ==
    LET part == [v |-> want, whole |-> FALSE]
        full == [v |-> want, whole |-> TRUE] IN
    IF v.data = {full} THEN [v EXCEPT !.gens = {full}]
    ELSE IF full \in v.gens THEN [v EXCEPT !.data = {full}]
    ELSE IF part \in v.gens THEN [v EXCEPT !.gens = (@ \ {part}) \cup {full}]
    ELSE [v EXCEPT !.gens = @ \cup {part}]

Existing(S) == {b \in S : b.ready /\ \A c \in S : c.ready => c.id <= b.id}
\* Fault: the sandbox runs on, whatever was created in the others.
StaleBoxes_kept(S) == {b \in S : b.ready} \ Existing(S)

StaleBoxes(S) == S \ Existing(S)

Project ==
    /\ agent.pc = "project"
    /\ LET v == vol[Mine.uid]   own == Own(Mine)   w == projection(v, agent.want) IN
       IF w # v THEN SetVolume(Mine.uid, w) /\ UNCHANGED agent
       ELSE Local([agent EXCEPT !.pc = "stale", !.doomed = StaleBoxes(own),
                     !.box = IF Existing(own) = {} THEN 0
                             ELSE (CHOOSE b \in Existing(own) : TRUE).id])

-----------------------------------------------------------------------------
(* Sandbox and container                                                   *)

Run ==
    /\ agent.pc = "run"
    /\ IF agent.box # 0 THEN Local([agent EXCEPT !.pc = "look"])
       ELSE Rpc([cri EXCEPT !.next = @ + 1, !.boxes = @ \cup
                   {[id |-> cri.next, uid |-> Mine.uid, ready |-> TRUE]}],
                [agent EXCEPT !.pc = "look", !.box = cri.next])

\* The container of the latest attempt in the sandbox.
Latest == {c \in CtrsOf(agent.box) : \A d \in CtrsOf(agent.box) : d.n <= c.n}
\* Fault: finished containers are created again under every policy but Never.
should_restart_onfailure(c) ==
    \/ c.hash # Mine.hash
    \/ c.st \in Exited /\ spec.policy # "Never"

should_restart(c) ==
    \/ c.hash # Mine.hash
    \/ c.st \in Exited /\ spec.policy = "Always"
    \/ c.st = "failed" /\ spec.policy = "OnFailure"
retry_due(c) == c.st \in Exited /\ c.hash = Mine.hash => c.due

\* A container of another spec is replaced at once, an exited one after its
\* delay, and one that was created and not started is started.
Look ==
    /\ agent.pc = "look"
    /\ \/ Latest = {} /\ Local([agent EXCEPT !.pc = "env"])
       \/ \E c \in Latest :
            Local([agent EXCEPT !.cur = c.id, !.obs = c.st,
                     !.pc = IF should_restart(c) /\ retry_due(c) THEN "env"
                            ELSE IF ~should_restart(c) /\ c.st = "created" THEN "start"
                            ELSE "reclaim"])

\* The environment is resolved, and the image pulled, before the container is
\* replaced.
Env ==
    /\ agent.pc = "env"
    /\ Local(IF Resolved THEN [agent EXCEPT !.pc = "pull"] ELSE Failed)

Pull ==
    /\ agent.pc = "pull"
    /\ Local([agent EXCEPT !.pc = IF agent.cur = 0 THEN "create" ELSE "stop"])

Stop ==
    /\ agent.pc = "stop"
    /\ Rpc(StopCtr(TheCtr(agent.cur)), [agent EXCEPT !.pc = "create"])

\* After a lost sandbox the attempts go on from the published count.
attempt == IF agent.cur = 0 THEN Mine.status.restarts ELSE TheCtr(agent.cur).n + 1

BoxReady == \E b \in cri.boxes : b.id = agent.box /\ b.ready

Create ==
    /\ agent.pc = "create"
    /\ IF ~BoxReady THEN Local(Failed)
       ELSE Rpc([cri EXCEPT !.next = @ + 1, !.ctrs = @ \cup
                   {[id |-> cri.next, box |-> agent.box, uid |-> Mine.uid, n |-> attempt,
                     hash |-> Mine.hash, st |-> "created", due |-> FALSE]}],
                [agent EXCEPT !.pc = "start", !.cur = cri.next])

Start ==
    /\ agent.pc = "start"
    /\ LET c == TheCtr(agent.cur) IN
       IF ~BoxReady \/ c.st # "created" THEN Local(Failed)
       ELSE Rpc([cri EXCEPT !.ctrs = (@ \ {c}) \cup {[c EXCEPT !.st = "running"]}],
                [agent EXCEPT !.pc = "status"])

Observe ==
    /\ agent.pc = "status"
    /\ Local([agent EXCEPT !.pc = "reclaim", !.obs = TheCtr(agent.cur).st])

\* Superseded containers go once their replacement has been observed.
Reclaim ==
    /\ agent.pc = "reclaim"
    /\ LET old == {c \in CtrsOf(agent.box) : c.id # agent.cur} IN
       IF old = {} THEN Local([agent EXCEPT !.pc = "probe"])
       ELSE \E c \in old : Rpc(IF c.st = "running" THEN StopCtr(c) ELSE DropCtr(c), agent)

-----------------------------------------------------------------------------
(* Readiness                                                               *)
\* Fault: readiness is kept per Pod.
Entry_any(id) == IF probes # {} THEN [(CHOOSE e \in probes : TRUE) EXCEPT !.id = id]
                 ELSE [id |-> id, success |-> 0, failure |-> 0, ready |-> FALSE]

Entry(id) == IF \E e \in probes : e.id = id THEN CHOOSE e \in probes : e.id = id
             ELSE [id |-> id, success |-> 0, failure |-> 0, ready |-> FALSE]

Bounded(n, bound) == IF n < bound THEN n + 1 ELSE bound
counted(e, ok) ==
    IF ok THEN [e EXCEPT !.success = Bounded(@, SuccessThreshold), !.failure = 0,
                  !.ready = @ \/ e.success + 1 >= SuccessThreshold]
    ELSE [e EXCEPT !.failure = Bounded(@, FailureThreshold), !.success = 0,
            !.ready = @ /\ e.failure + 1 < FailureThreshold]

ToPublish(ready) == [agent EXCEPT !.pc = "publish", !.ready = ready, !.live = @ \cup {agent.cur}]

Checking == agent.pc = "probe" /\ agent.obs = "running" /\ spec.probe
Alive == TheCtr(agent.cur).st = "running"

Checked(ok) ==
    LET e == counted(Entry(agent.cur), ok) IN
    /\ probes' = {x \in probes : x.id # agent.cur} \cup {e}
    /\ passed' = IF ok THEN passed \cup {agent.cur} ELSE passed
    /\ agent' = ToPublish(e.ready)
    /\ UNCHANGED <<api, conf, cri, vol>>

ProbePasses == Checking /\ Alive /\ Checked(TRUE) /\ UNCHANGED events
ProbeFails == Checking /\ Checked(FALSE) /\ (Alive => Spend) /\ (~Alive => UNCHANGED events)

\* The initial delay or the period has not passed.
ProbeWaits == Checking /\ Local(ToPublish(Entry(agent.cur).ready))

NoProbe ==
    /\ agent.pc = "probe" /\ ~Checking
    /\ Local(ToPublish(agent.obs = "running"))

-----------------------------------------------------------------------------
(* Status                                                                  *)

phase(st) ==
    IF st \in Exited /\ spec.policy # "Always" /\ (spec.policy = "Never" \/ st = "done")
    THEN IF st = "done" THEN "Succeeded" ELSE "Failed"
    ELSE IF st = "created" THEN "Pending" ELSE "Running"

\* The write replaces the Pod as it was listed, or nothing.
Put(status) ==
    LET p == Mine   n == p.name
        put == [api EXCEPT ![n] = IF @ = {p} THEN {[p EXCEPT !.status = status]} ELSE @] IN
    /\ \/ api' = (IF p.status = status THEN api ELSE put)
          /\ agent' = Onward /\ UNCHANGED events
       \/ p.status # status /\ Spend /\ api' \in {api, put} /\ agent' = Idle
    /\ UNCHANGED <<conf, cri, vol, probes, passed>>

Publish ==
    /\ agent.pc = "publish"
    /\ Put([phase |-> phase(agent.obs), restarts |-> TheCtr(agent.cur).n,
            ready |-> agent.ready, cid |-> agent.cur])

PublishError ==
    /\ agent.pc = "error"
    /\ Put([Mine.status EXCEPT !.ready = FALSE,
              !.phase = IF @ = "none" THEN "Pending" ELSE @])

-----------------------------------------------------------------------------
(* The node, its containers, and users                                     *)

Exit ==
    /\ \E c \in cri.ctrs, st \in Exited :
         /\ c.st = "running"
         /\ cri' = [cri EXCEPT !.ctrs = (@ \ {c}) \cup {[c EXCEPT !.st = st, !.due = FALSE]}]
    /\ Spend /\ UNCHANGED <<api, conf, vol, agent, probes, passed>>

DelayPasses ==
    /\ \E c \in cri.ctrs :
         /\ c.st \in Exited /\ ~c.due
         /\ cri' = [cri EXCEPT !.ctrs = (@ \ {c}) \cup {[c EXCEPT !.due = TRUE]}]
    /\ UNCHANGED <<api, conf, vol, agent, probes, passed, events>>

\* The sandbox's own process dies; its containers go on.
BoxDies ==
    /\ \E b \in cri.boxes :
         b.ready /\ cri' = [cri EXCEPT !.boxes = (@ \ {b}) \cup {[b EXCEPT !.ready = FALSE]}]
    /\ Spend /\ UNCHANGED <<api, conf, vol, agent, probes, passed>>

AgentRestart ==
    /\ agent' = Idle /\ probes' = {}
    /\ Spend /\ UNCHANGED <<api, conf, cri, vol, passed>>

\* Everything in memory goes: processes, the tmpfs and the agent.
Reboot ==
    /\ cri' = [cri EXCEPT
         !.boxes = {[b EXCEPT !.ready = FALSE] : b \in @},
         !.ctrs = {IF c.st = "running" THEN [c EXCEPT !.st = "failed", !.due = FALSE] ELSE c : c \in @}]
    /\ vol' = [u \in Uids |-> [NoVolume EXCEPT !.dir = vol[u].dir]]
    /\ agent' = Idle /\ probes' = {}
    /\ Spend /\ UNCHANGED <<api, conf, passed>>

\* A uid is fresh if no object or leftover of an earlier Pod has it.
Fresh(u) == u = events + Cardinality(Names) + 1
UserEdits ==
    /\ \E n \in Names :
         \/ \E p \in api[n] : api' = [api EXCEPT ![n] = {[p EXCEPT !.hash = @ + 1]}]
         \/ \E p \in api[n] : ~p.terminating
                              /\ api' = [api EXCEPT ![n] = {[p EXCEPT !.terminating = TRUE]}]
         \/ api[n] # {} /\ api' = [api EXCEPT ![n] = {}]
         \/ \E u \in Uids : Fresh(u) /\ api' = [api EXCEPT ![n] = {NewPod(n, u)}]
    /\ Spend /\ UNCHANGED <<conf, cri, vol, agent, probes, passed>>

\* The ConfigMap is changed, or deleted and made again.
ConfEdit ==
    /\ conf' \in {0, 1, 2} \ {conf}
    /\ Spend /\ UNCHANGED <<api, cri, vol, agent, probes, passed>>

-----------------------------------------------------------------------------
AgentStep ==
    \/ List \/ ListBoxes \/ NextPod \/ EndPods \/ Terminate \/ RemoveStale \/ RemoveOrphans
    \/ Erase \/ EraseOrphans \/ EndSweep \/ Prepare \/ Project \/ Run \/ Look \/ Env \/ Pull
    \/ Stop \/ Create \/ Start \/ Observe \/ Reclaim \/ ProbePasses \/ ProbeFails
    \/ ProbeWaits \/ NoProbe \/ Publish \/ PublishError

Environment ==
    \/ ReadFails \/ Exit \/ BoxDies \/ AgentRestart \/ Reboot \/ UserEdits \/ ConfEdit

Next == (AgentStep \/ Environment \/ DelayPasses) /\ UNCHANGED spec

Spec == Init /\ [][Next]_vars

\* The sweep is a loop with a pause; time passes, so delays end and a probe is
\* not only answered from its last result.  No failure is ever obliged.
FairSpec == Spec /\ WF_vars(AgentStep /\ UNCHANGED spec)
            /\ WF_vars(DelayPasses /\ UNCHANGED spec) /\ SF_vars(ProbePasses /\ UNCHANGED spec)

-----------------------------------------------------------------------------
\* A Pod never runs twice: sync stops a container and removes every other
\* sandbox before it creates, whatever answers were lost before.
RunsOnce == \A c, d \in cri.ctrs : c.uid = d.uid /\ c.st = "running" /\ d.st = "running" => c = d

\* While a container runs its volume is mounted and ..data names a complete
\* generation: prepare comes before every start, the atomic switch keeps
\* readers safe, and cleanup only follows the removal of the sandboxes.
RunsOnItsVolume ==
    \A c \in cri.ctrs : c.st = "running" =>
        /\ vol[c.uid].mounted
        /\ vol[c.uid].data # {} /\ vol[c.uid].data \subseteq vol[c.uid].gens
        /\ \A g \in vol[c.uid].data : g.whole

\* What runs, runs once and on its volume; with the types.
RunsOnceOnItsVolume == TypeOK /\ RunsOnce /\ RunsOnItsVolume

\* A Pod with a readiness probe is Ready only with a container that passed it:
\* entries are of containers, and a replacement starts unready.
ReadyWasProbed ==
    \A n \in Names : \A p \in api[n] : p.status.ready /\ spec.probe => p.status.cid \in passed

\* The restart count of a Pod never goes back, whatever sandboxes are lost.
RestartsGrow ==
    [][\A n \in Names : \A p \in api[n], q \in api'[n] :
         p.uid = q.uid => q.status.restarts >= p.status.restarts]_vars

\* What finished for good in a sandbox is not run again there: only another
\* spec replaces it.
Finished(d) == \E p \in agent.pod :
    p.uid = d.uid /\ \/ d.st = "done" /\ spec.policy # "Always"
                     \/ d.st = "failed" /\ spec.policy = "Never"
FinishedStaysFinished ==
    [][\A c \in cri'.ctrs, d \in cri.ctrs :
         c.box = d.box /\ c.hash = d.hash /\ c.id >= cri.next => ~Finished(d)]_vars

\* Neither a count of restarts nor a container that finished is taken back.
NeverGoesBack == RestartsGrow /\ FinishedStaysFinished

\* What has to become of a Pod: its container runs or has ended for good, and
\* the API says so.
Reported(p) ==
    \E c \in cri.ctrs :
        /\ \A d \in cri.ctrs : d.uid = p.uid => d = c
        /\ c.uid = p.uid /\ c.hash = p.hash
        /\ \/ c.st = "running"
           \/ c.st = "done" /\ spec.policy # "Always"
           \/ c.st = "failed" /\ spec.policy = "Never"
        /\ p.status = [phase |-> phase(c.st), restarts |-> c.n,
                       ready |-> c.st = "running", cid |-> c.id]
        /\ vol[p.uid].data = {[v |-> conf, whole |-> TRUE]}

\* Once failures end, every Pod runs with its current spec and content and is
\* reported, and nothing of a deleted or terminating Pod is left: a lost
\* answer, a crash or a reboot is made good by the next sweeps.
Settles ==
    <>[](LET P == {p \in UNION {api[n] : n \in Names} : ~p.terminating} IN
         /\ conf # 0 => \A p \in P : Reported(p)
         /\ \A b \in cri.boxes : \E p \in P : p.uid = b.uid
         /\ \A u \in Uids : vol[u] = NoVolume \/ \E p \in P : p.uid = u)
=============================================================================
