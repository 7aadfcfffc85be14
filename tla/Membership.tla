----------------------------- MODULE Membership -----------------------------
(***************************************************************************)
(* How a worker becomes and stays a member of the cluster: enrollment       *)
(* (h3s-kubelet/src/lib.rs with h3s-apiserver/src/bootstrap.rs), its Node   *)
(* and Lease heartbeats, its serving certificate and the supervisor tunnel  *)
(* (h3s-supervisor).  All agents here are configured with one node name:   *)
(* one of them may be a worker rebuilt without its data directory.         *)
(*                                                                         *)
(* Servers share a registry; each has its own admission lock and its own   *)
(* hub of tunnels, and an agent talks to one of them.                      *)
(***************************************************************************)
EXTENDS Integers, FiniteSets

CONSTANTS
    Agents,     \* data directories of agents
    Servers,
    Home,       \* the server of each agent
    MaxEvents   \* bound on faults and on acts of administrators

ASSUME MembershipAssumption ==
    /\ IsFiniteSet(Agents) /\ IsFiniteSet(Servers)
    /\ Home \in [Agents -> Servers] /\ MaxEvents \in Nat

VARIABLES
    identity,   \* identity.json: "none", "key" (pending enrollment) or "cert"
    serving,    \* serving.json: the same
    pc,         \* where the agent's process is
    hb,         \* where its heartbeat is, and what it has read
    record,     \* the enrollment record: {} or whose password it holds
    node,       \* {} or the Node
    healthy,    \* the worker's runtime and service proxy work
    lease,      \* {} or the uid of the Node that owns the Lease
    join,       \* what each server's lock holder is about to write
    tun,        \* the tunnel an agent holds, 0 if none
    conns,      \* the servers' ends of tunnels
    hub,        \* the tunnel each server has listed for the node, 0 if none
    events

files == <<identity, serving>>
registry == <<record, node, lease>>
tunnels == <<tun, conns, hub>>
vars == <<files, pc, hb, registry, join, tunnels, healthy, events>>

Idle == [pc |-> "idle"]
Ids == 1..(MaxEvents + 2)
Stages == {"none", "key", "cert"}
Conn == [id : Ids, server : Servers, up : BOOLEAN, releasing : BOOLEAN]

TypeOK ==
    /\ {identity, serving} \subseteq [Agents -> Stages]
    /\ pc \in [Agents -> {"down", "start", "joining", "joined", "register", "serving", "up"}]
    /\ \A a \in Agents : hb[a].pc \in {"idle", "post", "put", "lease", "leased"}
    /\ record \subseteq Agents /\ Cardinality(record) <= 1
    /\ node \subseteq [uid : Nat, net : BOOLEAN, ready : BOOLEAN] /\ Cardinality(node) <= 1
    /\ lease \subseteq Nat /\ Cardinality(lease) <= 1
    /\ \A s \in Servers : join[s].pc \in {"idle", "sign"}
    /\ conns \subseteq Conn /\ \A c, d \in conns : c.id = d.id => c = d
    /\ tun \in [Agents -> Ids \cup {0}] /\ hub \in [Servers -> Ids \cup {0}]
    /\ healthy \in BOOLEAN /\ events \in 0..MaxEvents

Init ==
    /\ identity = [a \in Agents |-> "none"] /\ serving = identity
    /\ pc = [a \in Agents |-> "down"] /\ hb = [a \in Agents |-> Idle]
    /\ record = {} /\ node = {} /\ lease = {}
    /\ join = [s \in Servers |-> Idle] /\ healthy = FALSE
    /\ tun = [a \in Agents |-> 0] /\ conns = {} /\ hub = [s \in Servers |-> 0]
    /\ events = 0

Spend == events < MaxEvents /\ events' = events + 1
Goto(a, l) == pc' = [pc EXCEPT ![a] = l]

\* The process ends: its memory goes, its sockets close or just fall silent.
Stops(a) ==
    /\ Goto(a, "down")
    /\ hb' = [hb EXCEPT ![a] = Idle]
    /\ tun' = [tun EXCEPT ![a] = 0]
    /\ conns' = {IF c.id = tun[a] THEN [c EXCEPT !.up = FALSE] ELSE c : c \in conns}
    /\ join' = [s \in Servers |-> IF join[s].pc = "sign" /\ join[s].agent = a
                                  THEN [join[s] EXCEPT !.waiting = FALSE] ELSE join[s]]
    /\ UNCHANGED hub
Continues == UNCHANGED <<hb, join, tunnels>>

-----------------------------------------------------------------------------
(* Enrollment                                                              *)

\* A key pair and a password are saved before anything is sent; an agent that
\* has its certificate does not join again.
Start(a) ==
    /\ pc[a] = "down"
    /\ identity' = [identity EXCEPT ![a] = IF @ = "none" THEN "key" ELSE @]
    /\ Goto(a, IF identity[a] = "cert" THEN "register" ELSE "start")
    /\ Continues /\ UNCHANGED <<serving, registry, healthy, events>>

\* The server, under its lock: a name that has a record needs its password, and
\* a Node without a record is nobody's to take.
Join(a) ==
    LET s == Home[a] IN
    /\ pc[a] = "start" /\ join[s] = Idle
    /\ IF record \subseteq {a} /\ (record = {} => node = {})
       THEN /\ join' = [join EXCEPT ![s] = [pc |-> "sign", agent |-> a, known |-> record # {},
                                            waiting |-> TRUE]]
            /\ Goto(a, "joining") /\ UNCHANGED <<hb, tunnels>>
       ELSE Stops(a)
    /\ UNCHANGED <<files, registry, healthy, events>>

Enrolls(j) == IF j.known \/ record # {} THEN record ELSE {j.agent}

\* Fault: a record that is already there counts as created.
JoinCommit_trusting(s) ==
    LET j == join[s] IN
    /\ j.pc = "sign"
    /\ record' = Enrolls(j)
    /\ join' = [join EXCEPT ![s] = Idle]
    /\ pc' = IF j.waiting THEN [pc EXCEPT ![j.agent] = "joined"] ELSE pc
    /\ UNCHANGED <<files, hb, node, lease, tunnels, healthy, events>>

\* The certificate is signed and, for a new name, the record created, which
\* fails if the other server has created one; then the agent is answered.
JoinCommit(s) ==
    LET j == join[s] IN
    /\ j.pc = "sign"
    /\ record' = Enrolls(j)
    /\ join' = [join EXCEPT ![s] = Idle]
    /\ pc' = IF ~j.waiting THEN pc
             ELSE [pc EXCEPT ![j.agent] = IF j.known \/ record = {} THEN "joined" ELSE "down"]
    /\ UNCHANGED <<files, hb, node, lease, tunnels, healthy, events>>

\* The handler of a client that is gone may be dropped instead.
JoinDropped(s) ==
    /\ join[s].pc = "sign" /\ ~join[s].waiting
    /\ join' = [join EXCEPT ![s] = Idle]
    /\ UNCHANGED <<files, pc, hb, registry, tunnels, healthy, events>>

SaveCertificate(a) ==
    /\ pc[a] = "joined"
    /\ identity' = [identity EXCEPT ![a] = "cert"]
    /\ Goto(a, "register")
    /\ Continues /\ UNCHANGED <<serving, registry, healthy, events>>

-----------------------------------------------------------------------------
(* Heartbeats: read, modify and write the Node's status, then the Lease     *)

Beat(a, next) == hb' = [hb EXCEPT ![a] = next]
Alive(a) == pc[a] \in {"register", "serving", "up"} /\ identity[a] = "cert"
beats == UNCHANGED <<files, join, tunnels, healthy, events>>

GetNode(a) ==
    /\ Alive(a) /\ pc[a] # "serving" /\ hb[a] = Idle
    /\ Beat(a, IF node = {} THEN [pc |-> "post", ready |-> healthy]
               ELSE [pc |-> "put", read |-> node, ready |-> healthy])
    /\ beats /\ UNCHANGED <<pc, registry>>

\* An error that a retry may heal starts the pass again, now or at the next
\* tick; any other one ends a process that is still registering.
Retry(a) == Beat(a, Idle) /\ UNCHANGED <<pc, join, tunnels>>
Fail(a) == IF pc[a] = "register" THEN Stops(a) ELSE Retry(a)

\* Uids are unique; one that nothing refers to any more is as good as a new one.
Uids == 1..(Cardinality(Agents) + 3)
Referred == lease \cup {n.uid : n \in node}
            \cup UNION {CASE hb[a].pc = "put" -> {n.uid : n \in hb[a].read}
                          [] hb[a].pc = "lease" -> hb[a].owner
                          [] OTHER -> {} : a \in Agents}
Fresh == [uid |-> CHOOSE u \in Uids : u \notin Referred, net |-> FALSE, ready |-> FALSE]

PostNode(a) ==
    /\ hb[a].pc = "post"
    /\ IF node = {}
       THEN /\ node' = {Fresh}
            /\ Beat(a, [pc |-> "put", read |-> node', ready |-> hb[a].ready])
            /\ UNCHANGED <<pc, join, tunnels>>
       ELSE node' = node /\ Retry(a)
    /\ UNCHANGED <<files, record, lease, healthy, events>>

\* Only the Ready condition is the agent's: the others are put back as they were
\* read, and the write is refused if the Node has changed since.
Status(read, ready) == {[n EXCEPT !.ready = ready] : n \in read}
\* Fault: the status is put without the revision it was read at.
PutStatus_blind(a) ==
    /\ hb[a].pc = "put"
    /\ IF node # {}
       THEN /\ node' = Status(hb[a].read, hb[a].ready)
            /\ Beat(a, [pc |-> "lease", owner |-> {n.uid : n \in node}])
            /\ UNCHANGED <<pc, join, tunnels>>
       ELSE node' = node /\ Fail(a)
    /\ UNCHANGED <<files, record, lease, healthy, events>>

PutStatus(a) ==
    /\ hb[a].pc = "put"
    /\ IF node = hb[a].read
       THEN /\ node' = Status(hb[a].read, hb[a].ready)
            /\ Beat(a, [pc |-> "lease", owner |-> {n.uid : n \in node}])
            /\ UNCHANGED <<pc, join, tunnels>>
       ELSE node' = node /\ (IF node = {} THEN Fail(a) ELSE Retry(a))
    /\ UNCHANGED <<files, record, lease, healthy, events>>

\* The Lease may have outlived its Node, so its owner is stated anew.
Owner(read, uid) == uid

PutLease(a) ==
    /\ hb[a].pc = "lease"
    /\ lease' = Owner(lease, hb[a].owner)
    /\ Beat(a, Idle)
    /\ Goto(a, IF pc[a] = "register" THEN "serving" ELSE pc[a])
    /\ UNCHANGED <<files, record, node, join, tunnels, healthy, events>>

\* A serving certificate is for nodes that are registered and enrolled.
Serving(a) ==
    /\ pc[a] = "serving"
    /\ serving' = [serving EXCEPT ![a] = IF @ = "none" THEN "key"
                                         ELSE IF node # {} /\ record # {} THEN "cert" ELSE @]
    /\ IF serving[a] = "key" /\ (node = {} \/ record = {})
       THEN Stops(a)
       ELSE Goto(a, IF serving[a] = "none" THEN "serving" ELSE "up") /\ Continues
    /\ UNCHANGED <<identity, registry, healthy, events>>

-----------------------------------------------------------------------------
(* The tunnel                                                              *)

NewId == CHOOSE i \in Ids : \A c \in conns : c.id # i

\* The server lists at most one tunnel of a node and refuses another until the
\* first is released.
Reservable(s) == hub[s] = 0

Connect(a) ==
    LET s == Home[a] IN
    /\ pc[a] = "up" /\ tun[a] = 0
    /\ node # {} /\ record # {} /\ Reservable(s)
    /\ tun' = [tun EXCEPT ![a] = NewId]
    /\ conns' = conns \cup {[id |-> NewId, server |-> s, up |-> TRUE, releasing |-> FALSE]}
    /\ hub' = [hub EXCEPT ![s] = NewId]
    /\ UNCHANGED <<files, pc, hb, registry, join, healthy, events>>

\* A server's end finishes: at once when it is told, or when no matching pong
\* has come for too long. It is marked stopped, then taken off the list.
Release(c) ==
    /\ ~c.up /\ ~c.releasing
    /\ conns' = (conns \ {c}) \cup {[c EXCEPT !.releasing = TRUE]}
    /\ UNCHANGED <<files, pc, hb, registry, join, tun, hub, healthy, events>>
\* Fault: a tunnel that ends stays on the list.
Unlist_kept(c) ==
    /\ c.releasing
    /\ conns' = conns \ {c}
    /\ UNCHANGED <<files, pc, hb, registry, join, tun, hub, healthy, events>>

Unlist(c) ==
    /\ c.releasing
    /\ conns' = conns \ {c}
    /\ hub' = [hub EXCEPT ![c.server] = 0]
    /\ UNCHANGED <<files, pc, hb, registry, join, tun, healthy, events>>

-----------------------------------------------------------------------------
(* Faults and administrators                                               *)

AgentStops(a) ==
    /\ pc[a] # "down" /\ Spend /\ Stops(a)
    /\ UNCHANGED <<files, healthy, registry>>

\* A tunnel breaks: each side learns of it in its own time.
TunnelBreaks(a) ==
    /\ tun[a] # 0 /\ Spend
    /\ conns' = {IF c.id = tun[a] THEN [c EXCEPT !.up = FALSE] ELSE c : c \in conns}
    /\ tun' = [tun EXCEPT ![a] = 0]
    /\ UNCHANGED <<files, pc, hb, healthy, registry, join, hub>>

\* A server stops and starts again: its handler, its hub and its sockets go; an
\* agent that waited for its answer ends.
ServerStops(s) ==
    /\ Spend
    /\ join' = [join EXCEPT ![s] = Idle]
    /\ hub' = [hub EXCEPT ![s] = 0]
    /\ conns' = {c \in conns : c.server # s}
    /\ tun' = [a \in Agents |-> IF Home[a] = s THEN 0 ELSE tun[a]]
    /\ pc' = [a \in Agents |-> IF Home[a] = s /\ pc[a] = "joining" THEN "down" ELSE pc[a]]
    /\ UNCHANGED <<files, hb, healthy, registry>>

DeleteNode ==
    /\ node # {} /\ Spend /\ node' = {}
    /\ UNCHANGED <<files, pc, hb, healthy, record, lease, join, tunnels>>

CreateNode ==
    /\ node = {} /\ Spend /\ node' = {Fresh}
    /\ UNCHANGED <<files, pc, hb, healthy, record, lease, join, tunnels>>

\* The network plugin reports its condition of the Node.
ReportNetwork ==
    /\ \E n \in node : ~n.net /\ node' = {[n EXCEPT !.net = TRUE]}
    /\ UNCHANGED <<files, pc, hb, record, lease, join, tunnels, healthy, events>>

HealthChanges ==
    /\ Spend /\ healthy' = ~healthy
    /\ UNCHANGED <<files, pc, hb, registry, join, tunnels>>

AgentStep(a) ==
    \/ Start(a) \/ Join(a) \/ SaveCertificate(a)
    \/ GetNode(a) \/ PostNode(a) \/ PutStatus(a) \/ PutLease(a) \/ Serving(a)
TunnelStep == \E c \in conns : Release(c) \/ Unlist(c)
Fault ==
    \/ \E a \in Agents : AgentStops(a) \/ TunnelBreaks(a)
    \/ \E s \in Servers : ServerStops(s)
    \/ DeleteNode \/ CreateNode \/ HealthChanges

Next ==
    \/ \E a \in Agents : AgentStep(a) \/ Connect(a)
    \/ \E s \in Servers : JoinCommit(s) \/ JoinDropped(s)
    \/ TunnelStep \/ ReportNetwork \/ Fault

Spec == Init /\ [][Next]_vars

\* The service manager starts an agent again, its loops go on, and silent sockets
\* are closed after the pong deadline.
FairSpec ==
    /\ Spec
    /\ \A a \in Agents : WF_vars(AgentStep(a)) /\ SF_vars(Connect(a))
    /\ \A s \in Servers : WF_vars(JoinCommit(s) \/ JoinDropped(s))
    /\ WF_vars(TunnelStep)

-----------------------------------------------------------------------------
\* No two data directories ever hold a certificate for the node's name, though
\* they may join at two servers at a time.
OneHolder == \A a \in Agents : identity[a] = "cert" \/ pc[a] = "joined" => record = {a}

\* A tunnel that is not being released is the one its server lists, whatever
\* tunnel before it is still being taken off the list.
TunnelsAreListed ==
    \A c \in conns : ~c.releasing => hub[c.server] = c.id

\* One directory holds the name, and one tunnel each server's list.
OneHolderOneTunnel == TypeOK /\ OneHolder /\ TunnelsAreListed

\* The network condition of a Node is never lost to a heartbeat that read the
\* Node before it was reported.
ConditionsKept ==
    [][\A n \in node, m \in node' : n.uid = m.uid /\ n.net => m.net]_vars

\* An enrolled agent attaches again after every fault.
Attached(a) == tun[a] # 0 /\ hub[Home[a]] = tun[a]
Reattaches == \A a \in Agents : record = {a} ~> Attached(a)

\* The Node of an enrolled worker comes to tell the health of its runtime.
ReadyFollowsHealth ==
    \A h \in BOOLEAN : (record # {} /\ healthy = h)
                          ~> (healthy # h \/ \E n \in node : n.ready = h)

\* The Lease comes to be owned by the Node there is, also after the Node was
\* deleted and made again.
LeaseFollowsNode ==
    \A u \in Uids : (record # {} /\ \E n \in node : n.uid = u)
                      ~> (lease = {u} \/ ~\E n \in node : n.uid = u)

\* The Node and the Lease of a worker are what it reported, and come to be so.
NodeIsKept == ConditionsKept /\ ReadyFollowsHealth /\ LeaseFollowsNode
=============================================================================
