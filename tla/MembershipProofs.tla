-------------------------- MODULE MembershipProofs --------------------------
(***************************************************************************)
(* Proofs for Membership, for any number of data directories and servers.  *)
(*                                                                         *)
(* The enrollment record is made once and kept.  All else that is shared,  *)
(* the name, the Node's uids, the servers' lists of tunnels, is sound      *)
(* because only the directory the record names gets to use it.             *)
(***************************************************************************)
EXTENDS Membership, FiniteSetTheorems, TLAPS

NodeObject == [uid : Nat, net : BOOLEAN, ready : BOOLEAN]
One(S, T) == S = {} \/ \E x \in T : S = {x}

\* What a heartbeat has read, and what the handler of a join request holds.
Beats ==
    {Idle} \cup [pc : {"post"}, ready : BOOLEAN]
           \cup [pc : {"put"}, read : {{n} : n \in NodeObject}, ready : BOOLEAN]
           \cup [pc : {"lease"}, owner : {{u} : u \in Nat}]
Joins == {Idle} \cup [pc : {"sign"}, agent : Agents, known : BOOLEAN, waiting : BOOLEAN]

Typed ==
    /\ identity \in [Agents -> Stages] /\ serving \in [Agents -> Stages]
    /\ pc \in [Agents -> {"down", "start", "joining", "joined", "register", "serving", "up"}]
    /\ hb \in [Agents -> Beats] /\ join \in [Servers -> Joins]
    /\ One(record, Agents) /\ One(node, NodeObject) /\ One(lease, Nat)
    /\ tun \in [Agents -> Ids \cup {0}] /\ hub \in [Servers -> Ids \cup {0}]
    /\ healthy \in BOOLEAN /\ events \in 0..MaxEvents

\* Whoever works under the name has the certificate; only it can be reporting.
Holders ==
    /\ OneHolder
    /\ \A a \in Agents : pc[a] \in {"register", "serving", "up"} => identity[a] = "cert"
    /\ \A a \in Agents : hb[a] # Idle => identity[a] = "cert"

\* A handler that found a record found its own client's.
Signs ==
    \A s \in Servers : join[s] # Idle /\ join[s].known => record = {join[s].agent}

\* There is at most one tunnel, also of those that are being released: the
\* listed one of the server of the directory that holds the name.
Listed ==
    /\ One(conns, Conn)
    /\ \A c \in conns : /\ hub[c.server] = c.id
                        /\ \E a \in record : c.server = Home[a]

IInv == Typed /\ Holders /\ Signs /\ Listed

-----------------------------------------------------------------------------
(* Lemmas on the pieces the actions are made of.                           *)

\* A tunnel that breaks is marked where it is.
Broken(C, i) == {IF c.id = i THEN [c EXCEPT !.up = FALSE] ELSE c : c \in C}
LEMMA Marking ==
    ASSUME NEW C, One(C, Conn), NEW i, NEW D, D = Broken(C, i)
    PROVE  /\ One(D, Conn)
           /\ \A d \in D : \E c \in C : d.id = c.id /\ d.server = c.server
  <1>1. CASE C = {}
    BY <1>1 DEF One, Broken
  <1>2. CASE \E c \in Conn : C = {c}
    <2>1. PICK c \in Conn : C = {c}
      BY <1>2
    <2> DEFINE e == IF c.id = i THEN [c EXCEPT !.up = FALSE] ELSE c
    <2>2. e \in Conn /\ e.id = c.id /\ e.server = c.server
      BY DEF Conn
    <2>3. D = {e}
      BY <2>1 DEF Broken
    <2> QED BY <2>1, <2>2, <2>3 DEF One
  <1> QED BY <1>1, <1>2 DEF One

\* A process that stops leaves everything sound; so does every action that
\* stops one and changes no file and no object.
LEMMA Stopping ==
    ASSUME IInv, NEW a \in Agents, Stops(a), UNCHANGED <<identity, registry, healthy>>,
           serving' \in [Agents -> Stages], events' \in 0..MaxEvents
    PROVE  IInv'
  <1> USE DEF IInv, Stops, Goto, registry
  <1>1. /\ One(conns', Conn)
        /\ \A d \in conns' : \E c \in conns : d.id = c.id /\ d.server = c.server
    <2>1. conns' = Broken(conns, tun[a]) /\ One(conns, Conn)
      BY DEF Broken, Listed
    <2> HIDE DEF IInv, Stops
    <2> QED BY <2>1, Marking
  <1>2. hb' \in [Agents -> Beats] /\ \A b \in Agents : hb'[b] # Idle => hb'[b] = hb[b]
    BY DEF Typed, Beats
  <1>3. /\ join' \in [Servers -> Joins]
        /\ \A s \in Servers : join'[s] # Idle =>
              join[s] # Idle /\ join'[s].agent = join[s].agent /\ join'[s].known = join[s].known
    <2> SUFFICES ASSUME NEW s \in Servers
                 PROVE  /\ join'[s] \in Joins
                        /\ join'[s] # Idle =>
                            join[s] # Idle /\ join'[s].agent = join[s].agent
                            /\ join'[s].known = join[s].known
      OBVIOUS
    <2>1. join[s] \in Joins
      BY DEF Typed
    <2> QED BY <2>1 DEF Joins, Idle
  <1>4. pc' = [pc EXCEPT ![a] = "down"] /\ tun' = [tun EXCEPT ![a] = 0] /\ hub' = hub
    OBVIOUS
  <1>5. Typed'
    BY <1>1, <1>2, <1>3, <1>4 DEF Typed, Ids
  <1>6. Holders'
    BY <1>2, <1>4 DEF Typed, Holders, OneHolder
  <1>7. Signs' /\ Listed'
    BY <1>1, <1>3, <1>4 DEF Typed, Signs, Listed
  <1> QED BY <1>5, <1>6, <1>7

\* At most three uids are in use while one process reports, so there is
\* another one.
LEMMA FreshIsNew ==
    ASSUME IInv, node = {}
    PROVE  Fresh \in NodeObject /\ Fresh.net = FALSE
  <1> DEFINE Held(a) == CASE hb[a].pc = "put" -> {n.uid : n \in hb[a].read}
                          [] hb[a].pc = "lease" -> hb[a].owner
                          [] OTHER -> {}
  <1>1. \A a \in Agents : Held(a) = {} \/ \E u \in Nat : Held(a) = {u}
    BY DEF IInv, Typed, Beats, Idle, NodeObject
  <1>2. \A a, b \in Agents : Held(a) # {} /\ Held(b) # {} => a = b
    BY DEF IInv, Holders, OneHolder, Idle
  <1>3. \E u : \A a \in Agents : Held(a) \subseteq {u}
    <2> HIDE DEF Held
    <2>1. CASE \A a \in Agents : Held(a) = {}
      BY <2>1
    <2>2. CASE \E a \in Agents : Held(a) # {}
      <3>1. PICK a \in Agents : Held(a) # {}
        BY <2>2
      <3>2. PICK u : Held(a) = {u}
        BY <1>1, <3>1
      <3>3. \A b \in Agents : Held(b) \subseteq {u}
        BY <1>2, <3>1, <3>2
      <3> QED BY <3>3
    <2> QED BY <2>1, <2>2
  <1>9. PICK u : \A a \in Agents : Held(a) \subseteq {u}
    BY <1>3
  <1>4. PICK v : lease \subseteq {v}
    BY DEF IInv, Typed, One
  <1>5. Referred \subseteq {u, v}
    BY <1>4, <1>9 DEF Referred
  <1>6. {1, 2, 3} \subseteq Uids
    BY FS_CardinalityType, MembershipAssumption DEF Uids
  <1>7. Uids \subseteq Nat
    BY DEF Uids
  <1>8. \E w \in Uids : w \notin Referred
    BY <1>5, <1>6
  <1> QED BY <1>7, <1>8 DEF Fresh, NodeObject

\* An action that lets heartbeats, handlers, tunnels and the registry alone.
LEMMA Going ==
    ASSUME IInv, UNCHANGED <<hb, join, tunnels, registry, healthy, events>>,
           identity' \in [Agents -> Stages], serving' \in [Agents -> Stages],
           NEW a \in Agents,
           NEW l \in {"down", "start", "joining", "joined", "register", "serving", "up"},
           Goto(a, l),
           \A b \in Agents : identity[b] = "cert" => identity'[b] = "cert",
           \A b \in Agents : identity'[b] = "cert" => identity[b] = "cert" \/ pc[b] = "joined",
           l \in {"joined", "register", "serving", "up"} => identity'[a] = "cert"
    PROVE  IInv'
  <1> USE DEF IInv, Goto, registry, tunnels
  <1>1. Typed'
    BY DEF Typed, Ids
  <1>2. Holders'
    BY DEF Typed, Holders, OneHolder
  <1>3. Signs' /\ Listed'
    BY DEF Signs, Listed
  <1> QED BY <1>1, <1>2, <1>3

\* A heartbeat goes on, and may have written the Node or the Lease.
LEMMA Beating ==
    ASSUME IInv, NEW a \in Agents, NEW next \in Beats, Beat(a, next), identity[a] = "cert",
           UNCHANGED <<files, record, join, tunnels, healthy, events>>,
           pc' = pc \/ Goto(a, IF pc[a] = "register" THEN "serving" ELSE pc[a]),
           One(node', NodeObject), One(lease', Nat)
    PROVE  IInv'
  <1> USE DEF IInv, Goto, Beat, files, tunnels
  <1>1. Typed'
    BY DEF Typed, Ids
  <1>2. Holders'
    BY DEF Typed, Holders, OneHolder
  <1>3. Signs' /\ Listed'
    BY DEF Signs, Listed
  <1> QED BY <1>1, <1>2, <1>3

-----------------------------------------------------------------------------
(* The invariant, action by action.                                        *)

LEMMA Enrolling ==
    ASSUME IInv, NEW a \in Agents, Start(a) \/ Join(a) \/ SaveCertificate(a) \/ Serving(a)
    PROVE  IInv'
  <1> USE DEF IInv
  <1>1. CASE Start(a)
    <2> DEFINE l == IF identity[a] = "cert" THEN "register" ELSE "start"
    <2>1. /\ identity' \in [Agents -> Stages] /\ serving' \in [Agents -> Stages]
          /\ \A b \in Agents : identity'[b] = "cert" <=> identity[b] = "cert"
      BY <1>1 DEF Start, Typed, Stages
    <2> QED BY <1>1, <2>1, Going DEF Start, Continues, registry
  <1>2. CASE Join(a)
    <2>1. CASE Stops(a)
      BY <1>2, <2>1, Stopping DEF Join, files, Typed
    <2>2. CASE ~Stops(a)
      <3> DEFINE j == [pc |-> "sign", agent |-> a, known |-> record # {}, waiting |-> TRUE]
      <3>1. /\ join' = [join EXCEPT ![Home[a]] = j] /\ Goto(a, "joining")
            /\ UNCHANGED <<files, hb, registry, tunnels, healthy, events>>
            /\ record \subseteq {a}
        BY <1>2, <2>2 DEF Join
      <3>2. j \in Joins /\ j.known = (record # {}) /\ j.agent = a
        BY DEF Joins
      <3>3. Home[a] \in Servers
        BY MembershipAssumption
      <3> HIDE DEF j
      <3>4. Typed'
        BY <3>1, <3>2, <3>3 DEF Typed, Ids, Goto, files, registry, tunnels
      <3>5. Holders'
        BY <3>1 DEF Typed, Holders, OneHolder, Goto, files, registry
      <3>6. Signs'
        <4>1. \A s \in Servers : join'[s] = IF s = Home[a] THEN j ELSE join[s]
          BY <3>1, <3>3 DEF Typed
        <4>2. record' = record /\ (record # {} => record = {a})
          BY <3>1 DEF registry
        <4> QED BY <3>2, <4>1, <4>2 DEF Signs
      <3>7. Listed'
        BY <3>1 DEF Listed, registry, tunnels
      <3> QED BY <3>4, <3>5, <3>6, <3>7
    <2> QED BY <2>1, <2>2
  <1>3. CASE SaveCertificate(a)
    <2>1. identity' \in [Agents -> Stages] /\ serving' \in [Agents -> Stages]
      BY <1>3 DEF SaveCertificate, Typed, Stages
    <2> QED BY <1>3, <2>1, Going DEF SaveCertificate, Continues, registry, Typed
  <1>4. CASE Serving(a)
    <2>1. serving' \in [Agents -> Stages]
      BY <1>4 DEF Serving, Typed, Stages
    <2>2. CASE Stops(a)
      BY <1>4, <2>1, <2>2, Stopping DEF Serving, Typed
    <2>3. CASE ~Stops(a)
      <3> DEFINE l == IF serving[a] = "none" THEN "serving" ELSE "up"
      <3>1. Goto(a, l) /\ Continues
        BY <1>4, <2>3 DEF Serving
      <3>2. identity[a] = "cert" /\ identity' = identity
        BY <1>4 DEF Serving, Holders
      <3> QED BY <1>4, <2>1, <3>1, <3>2, Going DEF Serving, Continues, registry, Typed
    <2> QED BY <2>2, <2>3
  <1> QED BY <1>1, <1>2, <1>3, <1>4

LEMMA Reporting ==
    ASSUME IInv, NEW a \in Agents, GetNode(a) \/ PostNode(a) \/ PutStatus(a) \/ PutLease(a)
    PROVE  IInv'
  <1> USE DEF IInv, registry, files, tunnels
  <1>1. identity[a] = "cert" /\ hb[a] \in Beats /\ One(node, NodeObject) /\ One(lease, Nat)
    BY DEF GetNode, Alive, PostNode, PutStatus, PutLease, Holders, Typed, Idle
  <1>2. Idle \in Beats
    BY DEF Beats
  <1>3. CASE GetNode(a)
    <2> DEFINE next == IF node = {} THEN [pc |-> "post", ready |-> healthy]
                       ELSE [pc |-> "put", read |-> node, ready |-> healthy]
    <2>1. next \in Beats
      BY <1>1 DEF Beats, One, Typed
    <2> QED BY <1>1, <1>3, <2>1, Beating DEF GetNode, beats
  <1>4. CASE PostNode(a)
    <2>1. CASE node = {}
      <3> DEFINE next == [pc |-> "put", read |-> {Fresh}, ready |-> hb[a].ready]
      <3>1. Fresh \in NodeObject
        BY <2>1, FreshIsNew
      <3>2. hb[a].ready \in BOOLEAN
        BY <1>1, <1>4 DEF PostNode, Beats, Idle
      <3>3. next \in Beats /\ One({Fresh}, NodeObject)
        BY <3>1, <3>2 DEF Beats, One
      <3>4. Beat(a, next) /\ node' = {Fresh} /\ UNCHANGED <<pc, join, tunnels>>
        BY <1>4, <2>1 DEF PostNode
      <3> HIDE DEF next
      <3> QED BY <1>1, <1>4, <3>3, <3>4, Beating DEF PostNode
    <2>2. CASE node # {}
      BY <1>1, <1>2, <1>4, <2>2, Beating DEF PostNode, Retry
    <2> QED BY <2>1, <2>2
  <1>5. CASE PutStatus(a)
    <2>1. CASE node = hb[a].read
      <3>1. /\ hb[a].ready \in BOOLEAN
            /\ \E n \in NodeObject : hb[a].read = {n}
        BY <1>1, <1>5 DEF PutStatus, Beats, Idle
      <3>2. PICK n \in NodeObject : hb[a].read = {n}
        BY <3>1
      <3> DEFINE next == [pc |-> "lease", owner |-> {n.uid}]
      <3>3. Beat(a, next) /\ UNCHANGED <<pc, join, tunnels>>
        BY <1>5, <2>1, <3>2 DEF PutStatus
      <3>4. node' = {[n EXCEPT !.ready = hb[a].ready]}
        BY <1>5, <2>1, <3>2 DEF PutStatus, Status
      <3>5. One(node', NodeObject) /\ next \in Beats
        BY <3>1, <3>2, <3>4 DEF One, NodeObject, Beats
      <3> HIDE DEF next
      <3> QED BY <1>1, <1>5, <3>3, <3>5, Beating DEF PutStatus
    <2>2. CASE node # hb[a].read
      <3>1. node' = node /\ (Stops(a) \/ Retry(a))
        BY <1>5, <2>2 DEF PutStatus, Fail
      <3>2. CASE Stops(a)
        BY <1>5, <3>1, <3>2, Stopping DEF PutStatus, Typed
      <3>3. CASE Retry(a)
        BY <1>1, <1>2, <1>5, <3>1, <3>3, Beating DEF PutStatus, Retry
      <3> QED BY <3>1, <3>2, <3>3
    <2> QED BY <2>1, <2>2
  <1>6. CASE PutLease(a)
    <2>1. One(lease', Nat)
      BY <1>1, <1>6 DEF PutLease, Owner, Beats, Idle, One
    <2> QED BY <1>1, <1>2, <1>6, <2>1, Beating DEF PutLease
  <1> QED BY <1>3, <1>4, <1>5, <1>6

LEMMA Answering ==
    ASSUME IInv, NEW s \in Servers, JoinCommit(s) \/ JoinDropped(s)
    PROVE  IInv'
  <1> USE DEF IInv, files, tunnels, registry
  <1> DEFINE j == join[s]
  <1>1. j \in Joins /\ j # Idle /\ j.pc = "sign" /\ j.agent \in Agents
    BY DEF JoinCommit, JoinDropped, Typed, Joins, Idle
  <1>2. CASE JoinDropped(s)
    <2>1. Typed'
      BY <1>2 DEF JoinDropped, Typed, Joins, Ids
    <2>2. Holders' /\ Signs' /\ Listed'
      BY <1>2 DEF JoinDropped, Typed, Holders, OneHolder, Signs, Listed
    <2> QED BY <2>1, <2>2
  <1>3. CASE JoinCommit(s)
    <2> DEFINE l == IF j.known \/ record = {} THEN "joined" ELSE "down"
    <2>1. /\ pc' = pc \/ pc' = [pc EXCEPT ![j.agent] = l]
          /\ record' = Enrolls(j) /\ join' = [join EXCEPT ![s] = Idle]
          /\ UNCHANGED <<files, hb, node, lease, tunnels, healthy, events>>
      BY <1>3 DEF JoinCommit
    <2>2. /\ record' = record \/ record = {}
          /\ l = "joined" => record' = {j.agent}
          /\ One(record', Agents)
      BY <1>1, <2>1 DEF Enrolls, Signs, Typed, One
    <2> HIDE DEF j, l
    <2>3. l \in {"joined", "down"}
      BY DEF l
    <2>4. Typed'
      BY <1>1, <2>1, <2>2, <2>3 DEF Typed, Joins, Ids
    <2>5. Holders'
      BY <1>1, <2>1, <2>2, <2>3 DEF Typed, Holders, OneHolder
    <2>6. Signs'
      BY <1>1, <2>1, <2>2 DEF Typed, Signs
    <2>7. Listed'
      BY <2>1, <2>2 DEF Listed
    <2> QED BY <2>4, <2>5, <2>6, <2>7
  <1> QED BY <1>2, <1>3

LEMMA Tunnelling ==
    ASSUME IInv,
           \/ \E a \in Agents : Connect(a) \/ TunnelBreaks(a)
           \/ TunnelStep
    PROVE  IInv'
  <1> USE DEF IInv, files, registry
  <1>1. CASE \E a \in Agents : Connect(a)
    <2>1. PICK a \in Agents : Connect(a)
      BY <1>1
    <2>2. record = {a} /\ Home[a] \in Servers
      BY <2>1, MembershipAssumption DEF Connect, Holders, OneHolder
    <2>3. conns = {}
      BY <2>1, <2>2 DEF Connect, Reservable, Listed, One, Conn, Ids
    <2>4. NewId \in Ids
      BY <2>3, MembershipAssumption DEF NewId, Ids
    <2> DEFINE c == [id |-> NewId, server |-> Home[a], up |-> TRUE, releasing |-> FALSE]
    <2>5. /\ tun' = [tun EXCEPT ![a] = NewId] /\ hub' = [hub EXCEPT ![Home[a]] = NewId]
          /\ conns' = {c} /\ c \in Conn /\ c.server = Home[a] /\ c.id = NewId
      BY <2>1, <2>2, <2>3, <2>4 DEF Connect, Conn
    <2> HIDE DEF c
    <2>6. Typed'
      BY <2>1, <2>2, <2>4, <2>5 DEF Connect, Typed, Ids
    <2>7. Holders' /\ Signs'
      BY <2>1 DEF Connect, Holders, OneHolder, Signs
    <2>8. Listed'
      BY <2>1, <2>2, <2>5 DEF Connect, Typed, Listed, One
    <2> QED BY <2>6, <2>7, <2>8
  <1>2. CASE \E a \in Agents : TunnelBreaks(a)
    <2>1. PICK a \in Agents : TunnelBreaks(a)
      BY <1>2
    <2>2. /\ One(conns', Conn)
          /\ \A d \in conns' : \E c \in conns : d.id = c.id /\ d.server = c.server
      <3>1. conns' = Broken(conns, tun[a]) /\ One(conns, Conn)
        BY <2>1 DEF TunnelBreaks, Broken, Listed
      <3> QED BY <3>1, Marking
    <2>3. Typed'
      BY <2>1, <2>2, MembershipAssumption DEF TunnelBreaks, Typed, Ids, Spend
    <2>4. Holders' /\ Signs'
      BY <2>1 DEF TunnelBreaks, Holders, OneHolder, Signs
    <2>5. Listed'
      BY <2>1, <2>2 DEF TunnelBreaks, Listed
    <2> QED BY <2>3, <2>4, <2>5
  <1>3. CASE TunnelStep
    <2>1. PICK c \in conns : Release(c) \/ Unlist(c)
      BY <1>3 DEF TunnelStep
    <2>2. /\ UNCHANGED <<files, pc, hb, registry, join, tun, healthy, events>>
          /\ \/ hub' = hub
             \/ hub' = [hub EXCEPT ![c.server] = 0] /\ conns' = conns \ {c}
      BY <2>1 DEF Release, Unlist
    <2>3. /\ One(conns', Conn)
          /\ \A d \in conns' : \E e \in conns : d.id = e.id /\ d.server = e.server
      <3>1. One(conns, Conn)
        BY DEF Listed
      <3>2. CASE Release(c)
        BY <3>1, <3>2 DEF Release, One, Conn
      <3>3. CASE Unlist(c)
        BY <3>1, <3>3 DEF Unlist, One, Conn
      <3> QED BY <2>1, <3>2, <3>3
    <2>4. Typed'
      BY <2>2, <2>3 DEF Typed, Ids
    <2>5. Holders' /\ Signs'
      BY <2>2 DEF Holders, OneHolder, Signs
    <2>6. hub' # hub => conns' = {}
      BY <2>1, <2>2 DEF Listed, One
    <2>7. Listed'
      BY <2>2, <2>3, <2>6 DEF Listed
    <2> QED BY <2>4, <2>5, <2>7
  <1> QED BY <1>1, <1>2, <1>3

LEMMA Failing ==
    ASSUME IInv,
           \/ \E a \in Agents : AgentStops(a)
           \/ \E s \in Servers : ServerStops(s)
           \/ DeleteNode \/ CreateNode \/ HealthChanges \/ ReportNetwork
    PROVE  IInv'
  <1> USE DEF IInv, files, registry, tunnels
  <1>1. CASE \E a \in Agents : AgentStops(a)
    <2>1. PICK a \in Agents : AgentStops(a)
      BY <1>1
    <2>2. events' \in 0..MaxEvents /\ serving' \in [Agents -> Stages]
      BY <2>1, MembershipAssumption DEF AgentStops, Spend, Typed
    <2> QED BY <2>1, <2>2, Stopping DEF AgentStops
  <1>2. CASE \E s \in Servers : ServerStops(s)
    <2>1. PICK s \in Servers : ServerStops(s)
      BY <1>2
    <2>2. Typed'
      BY <2>1, MembershipAssumption DEF ServerStops, Spend, Typed, Joins, Ids
    <2>3. Holders' /\ Signs'
      BY <2>1 DEF ServerStops, Typed, Holders, OneHolder, Signs
    <2>4. Listed'
      BY <2>1 DEF ServerStops, Typed, Listed, One, Conn
    <2> QED BY <2>2, <2>3, <2>4
  <1>3. CASE DeleteNode \/ CreateNode \/ HealthChanges \/ ReportNetwork
    <2>1. UNCHANGED <<files, pc, hb, record, lease, join, tunnels>>
      BY <1>3 DEF DeleteNode, CreateNode, HealthChanges, ReportNetwork
    <2>2. events' \in 0..MaxEvents /\ healthy' \in BOOLEAN
      <3>1. events \in 0..MaxEvents /\ healthy \in BOOLEAN
        BY DEF Typed
      <3>2. events' = events \/ Spend
        BY <1>3 DEF DeleteNode, CreateNode, HealthChanges, ReportNetwork
      <3>3. events' \in 0..MaxEvents
        BY <3>1, <3>2, MembershipAssumption DEF Spend
      <3>4. healthy' = healthy \/ healthy' = ~healthy
        BY <1>3 DEF DeleteNode, CreateNode, HealthChanges, ReportNetwork
      <3> QED BY <3>1, <3>3, <3>4
    <2>3. One(node', NodeObject)
      <3>1. CASE DeleteNode \/ HealthChanges
        BY <3>1 DEF DeleteNode, HealthChanges, Typed, One
      <3>2. CASE CreateNode
        BY <3>2, FreshIsNew DEF CreateNode, One
      <3>3. CASE ReportNetwork
        <4>1. PICK n \in node : node' = {[n EXCEPT !.net = TRUE]}
          BY <3>3 DEF ReportNetwork
        <4>2. n \in NodeObject
          BY DEF Typed, One
        <4>3. [n EXCEPT !.net = TRUE] \in NodeObject
          BY <4>2 DEF NodeObject
        <4> QED BY <4>1, <4>3 DEF One
      <3> QED BY <1>3, <3>1, <3>2, <3>3
    <2>4. Typed'
      BY <2>1, <2>2, <2>3 DEF Typed, Ids
    <2>5. Holders' /\ Signs' /\ Listed'
      BY <2>1 DEF Holders, OneHolder, Signs, Listed
    <2> QED BY <2>4, <2>5
  <1> QED BY <1>1, <1>2, <1>3

LEMMA Initially == Init => IInv
  <1> SUFFICES ASSUME Init PROVE IInv
    OBVIOUS
  <1>1. Typed
    <2>1. /\ identity \in [Agents -> Stages] /\ serving \in [Agents -> Stages]
          /\ hb \in [Agents -> Beats] /\ join \in [Servers -> Joins]
      BY DEF Init, Stages, Beats, Joins
    <2>2. /\ pc \in [Agents -> {"down", "start", "joining", "joined", "register", "serving", "up"}]
          /\ tun \in [Agents -> Ids \cup {0}] /\ hub \in [Servers -> Ids \cup {0}]
      BY DEF Init
    <2>3. One(record, Agents) /\ One(node, NodeObject) /\ One(lease, Nat) /\ healthy \in BOOLEAN
      BY DEF Init, One
    <2>4. events \in 0..MaxEvents
      BY MembershipAssumption DEF Init
    <2> QED BY <2>1, <2>2, <2>3, <2>4 DEF Typed
  <1>2. Holders /\ Signs /\ Listed
    BY DEF Init, Holders, OneHolder, Signs, Listed, One
  <1> QED BY <1>1, <1>2 DEF IInv

LEMMA Stepwise == IInv /\ [Next]_vars => IInv'
  <1> SUFFICES ASSUME IInv, [Next]_vars PROVE IInv'
    OBVIOUS
  <1>1. CASE UNCHANGED vars
    BY <1>1 DEF vars, files, registry, tunnels, IInv, Typed, Ids, Holders, OneHolder, Signs,
                Listed
  <1>2. CASE \E a \in Agents : AgentStep(a) \/ Connect(a)
    BY <1>2, Enrolling, Reporting, Tunnelling DEF AgentStep
  <1>3. CASE \E s \in Servers : JoinCommit(s) \/ JoinDropped(s)
    BY <1>3, Answering
  <1>4. CASE TunnelStep \/ ReportNetwork \/ Fault
    BY <1>4, Tunnelling, Failing DEF Fault
  <1> QED BY <1>1, <1>2, <1>3, <1>4 DEF Next

\* A set of at most one element counts at most one.
LEMMA OneCounts == ASSUME NEW S, NEW T, One(S, T) PROVE Cardinality(S) <= 1
  BY FS_EmptySet, FS_Singleton DEF One

LEMMA Implied == IInv => OneHolderOneTunnel
  <1> SUFFICES ASSUME IInv PROVE OneHolderOneTunnel
    OBVIOUS
  <1>1. record \subseteq Agents /\ node \subseteq NodeObject /\ lease \subseteq Nat
    BY DEF IInv, Typed, One
  <1>2. \A a \in Agents : hb[a].pc \in {"idle", "post", "put", "lease", "leased"}
    BY DEF IInv, Typed, Beats, Idle
  <1>3. \A s \in Servers : join[s].pc \in {"idle", "sign"}
    BY DEF IInv, Typed, Joins, Idle
  <1>4. conns \subseteq Conn /\ \A c, d \in conns : c.id = d.id => c = d
    BY DEF IInv, Listed, One
  <1>5. Cardinality(record) <= 1 /\ Cardinality(node) <= 1 /\ Cardinality(lease) <= 1
    BY OneCounts DEF IInv, Typed
  <1>6. TypeOK
    BY <1>1, <1>2, <1>3, <1>4, <1>5 DEF IInv, Typed, TypeOK, NodeObject
  <1> QED BY <1>6 DEF OneHolderOneTunnel, IInv, Holders, Listed, TunnelsAreListed

-----------------------------------------------------------------------------
(* The theorems.                                                           *)

\* Every state keeps what the two theorems below it rest on: who holds the name,
\* what the servers have signed and which tunnels they list (bootstrap.rs, join;
\* supervisor lib.rs, reserve).
THEOREM InvariantHolds == Spec => []IInv
  BY Initially, Stepwise, PTL DEF Spec

\* However many directories claim a node's name, at however many servers at a
\* time, at most one of them ever holds a certificate for it, and the server
\* lists its tunnel as long as that is not being released (bootstrap.rs, join;
\* supervisor lib.rs, reserve and release).
THEOREM NameAndTunnelAreOnes == Spec => []OneHolderOneTunnel
  BY InvariantHolds, Implied, PTL

\* The record that a name is enrolled with is never replaced nor removed: the
\* first directory keeps the name for good (bootstrap.rs, join).
RecordIsKept == [][record # {} => record' = record]_vars
THEOREM RecordStays == Spec => RecordIsKept
  <1>1. ASSUME IInv, [Next]_vars
        PROVE  [record # {} => record' = record]_vars
    <2> SUFFICES ASSUME record # {}, record' # record PROVE FALSE
      BY DEF vars
    <2>1. PICK s \in Servers : JoinCommit(s)
      BY <1>1 DEF Next, vars, registry, AgentStep, Start, Join, SaveCertificate, GetNode, beats,
                  PostNode, PutStatus, PutLease, Serving, Connect, JoinDropped, TunnelStep,
                  Release, Unlist, ReportNetwork, Fault, AgentStops, TunnelBreaks, ServerStops,
                  DeleteNode, CreateNode, HealthChanges
    <2> QED BY <2>1 DEF JoinCommit, Enrolls
  <1> QED BY <1>1, InvariantHolds, PTL DEF Spec, RecordIsKept

\* A heartbeat that read the Node before its network was reported does not put
\* back what it read: the write is refused (kubelet lib.rs, heartbeat).
THEOREM NetworkStaysReported == Spec => ConditionsKept
  <1>1. ASSUME IInv, [Next]_vars
        PROVE  \A n \in node, m \in node' : n.uid = m.uid /\ n.net => m.net
    <2> SUFFICES ASSUME NEW n \in node, NEW m \in node', n.uid = m.uid, n.net
                 PROVE  m.net
      OBVIOUS
    <2>1. node = {n} /\ n \in NodeObject
      BY <1>1 DEF IInv, Typed, One
    <2>2. CASE node' = node
      BY <2>1, <2>2
    <2>3. CASE node' # node
      <3>1. \/ \E a \in Agents : PostNode(a) \/ PutStatus(a)
            \/ DeleteNode \/ CreateNode \/ ReportNetwork
        BY <1>1, <2>3 DEF Next, vars, registry, AgentStep, Start, Join, SaveCertificate, GetNode,
            beats, PutLease, Serving, Connect, JoinCommit, JoinDropped, TunnelStep, Release,
            Unlist, Fault, AgentStops, TunnelBreaks, ServerStops, HealthChanges
      <3>2. CASE \E a \in Agents : PutStatus(a)
        <4>1. PICK a \in Agents : PutStatus(a)
          BY <3>2
        <4>2. m = [n EXCEPT !.ready = hb[a].ready]
          BY <2>1, <2>3, <4>1 DEF PutStatus, Status
        <4> QED BY <2>1, <4>2 DEF NodeObject
      <3>3. CASE ReportNetwork
        BY <2>1, <3>3 DEF ReportNetwork, NodeObject
      <3> QED BY <2>1, <2>3, <3>1, <3>2, <3>3 DEF PostNode, DeleteNode, CreateNode
    <2> QED BY <2>2, <2>3
  <1> QED BY <1>1, InvariantHolds, PTL DEF Spec, ConditionsKept
=============================================================================
