------------------------------ MODULE NodeCidr ------------------------------
(***************************************************************************)
(* Pod subnets of Nodes: the API's durable ledger (h3s-apiserver           *)
(* node_cidrs.rs), the Node writes that reserve in it, and the controller  *)
(* that assigns subnets through the API (h3s-controllers node_cidrs.rs).   *)
(*                                                                         *)
(* Every server runs the API and a controller over the shared registry.  A *)
(* Node write holds its own server's admission mutex from its first read   *)
(* to its commit; servers exclude each other only by compare-and-set.  The *)
(* storage calls of a write are its steps.  The registry is the contract   *)
(* of the Storage trait: an update or create succeeds at one revision.     *)
(***************************************************************************)
EXTENDS Integers, FiniteSets

CONSTANTS
    Nodes,     \* Node names, numbered in the order in which a LIST returns them
    Size,      \* subnets of the pool, numbered in the order `subnets' yields
    Servers,   \* API servers
    MaxOps     \* bound on user requests, cancellations and crashes

ASSUME NodeCidrAssumption ==
    Nodes \subseteq Nat /\ Size \in Nat \ {0} /\ MaxOps \in Nat

VARIABLES
    rev,     \* the registry's revision
    ledger,  \* the allocations object: its revision (0 when absent) and map
    node,    \* node[n]: the Node's revision (0 when absent) and podCIDR
    req,     \* req[s]: the Node write that holds the mutex of s
    ctl,     \* ctl[s]: the controller pass of s
    ops      \* user requests, cancellations and crashes so far

vars == <<rev, ledger, node, req, ctl, ops>>

Subnets == 1..Size
None == 0
Cidr == Subnets \cup {None}

Allocation == [Nodes -> Cidr]
NodeState == [rev : Nat, cidr : Cidr]
Absent == [rev |-> 0, cidr |-> None]

\* What a server does: stopped, starting, ready, or within a Node write.
Idle == [pc |-> "idle"]
Down == [pc |-> "down"]
Saved == [rev : Nat, of : Allocation]
Starting == [pc : {"starting"}, seen : Saved]
Importing == [pc : {"importing"}, seen : Saved, of : Allocation]
Write == [pc : {"load", "reserve", "commit"}, node : Nodes, cidr : Cidr,
          expected : Nat, seen : Saved, ours : BOOLEAN]

\* A write with the ledger as it is now.
WriteAt(pc, n, c, expected, ours) ==
    [pc |-> pc, node |-> n, cidr |-> c, expected |-> expected, seen |-> ledger, ours |-> ours]

\* A controller pass: idle, with the snapshot, or with the Nodes still to do.
Item == [name : Nodes, rev : Nat, cidr : Cidr]
Pass == {Idle} \cup [pc : {"list"}, of : Allocation]
              \cup [pc : {"each", "wait"}, of : Allocation, left : SUBSET Item]

PassAt(pc, of, left) == [pc |-> pc, of |-> of, left |-> left]

\* Every variable has its type, and so have the local copies.
TypeOK ==
    /\ rev \in Nat /\ ops \in 0..MaxOps
    /\ ledger \in Saved
    /\ node \in [Nodes -> NodeState]
    /\ req \in [Servers -> {Idle, Down} \cup Starting \cup Importing \cup Write]
    /\ ctl \in [Servers -> Pass]

\* Before the first start there is no ledger, and Nodes may have any subnets.
Init ==
    /\ node \in [Nodes -> {Absent} \cup [rev : {1}, cidr : Cidr]]
    /\ rev = 1
    /\ ledger = [rev |-> 0, of |-> [n \in Nodes |-> None]]
    /\ req = [s \in Servers |-> Down]
    /\ ctl = [s \in Servers |-> Idle]
    /\ ops = 0

Goes(s, r) == req' = [req EXCEPT ![s] = r]
Passes(s, c) == ctl' = [ctl EXCEPT ![s] = c]
Op == ops < MaxOps /\ ops' = ops + 1

-----------------------------------------------------------------------------
(* NodeCidrAllocations (h3s-api network.rs)                                *)

\* reserve: the name's own subnet again, or one nobody has.
may_reserve(of, n, c) ==
    \/ of[n] = c
    \/ of[n] = None /\ \A m \in Nodes : of[m] # c

reserve(of, n, c) == [of EXCEPT ![n] = c]

\* Fault: the name's own reservation counts as taken.
next_afresh(of, n) ==
    LET free == { c \in Subnets : \A m \in Nodes : of[m] # c }
    IN  { c \in free : \A d \in free : c <= d }

\* next: the reservation of the name, else the first free subnet; empty when
\* the pool is exhausted.
next(of, n) ==
    IF of[n] # None THEN {of[n]}
    ELSE LET free == { c \in Subnets : \A m \in Nodes : of[m] # c }
         IN  { c \in free : \A d \in free : c <= d }

-----------------------------------------------------------------------------
(* Starting a server: initialize loads the ledger and imports the Nodes.   *)

StartLoad(s) ==
    /\ req[s] = Down
    /\ Goes(s, [pc |-> "starting", seen |-> ledger])
    /\ UNCHANGED <<rev, ledger, node, ctl, ops>>

\* Fault: the Nodes are compared with the ledger, not with each other.
importable_shared(of) ==
    /\ \A n \in Nodes : node[n].cidr # None => of[n] \in {None, node[n].cidr}
    /\ \A m, n \in Nodes : m # n /\ node[n].cidr # None => of[m] # node[n].cidr

\* `reserve' of every Node in turn succeeds.
importable(of) ==
    /\ \A n \in Nodes : node[n].cidr # None => of[n] \in {None, node[n].cidr}
    /\ \A m, n \in Nodes : m # n /\ node[n].cidr # None =>
                              node[n].cidr \notin {of[m], node[m].cidr}

imported(of) == [n \in Nodes |-> IF node[n].cidr # None THEN node[n].cidr ELSE of[n]]

\* The Nodes of one revision; a collision ends the process.
StartList(s) ==
    /\ req[s].pc = "starting"
    /\ Goes(s, IF importable(req[s].seen.of)
               THEN [pc |-> "importing", seen |-> req[s].seen, of |-> imported(req[s].seen.of)]
               ELSE Down)
    /\ UNCHANGED <<rev, ledger, node, ctl, ops>>

\* So does a lost race for the ledger; the process is started again.
StartCommit(s) ==
    /\ req[s].pc = "importing"
    /\ LET r == req[s]
           writes == r.seen.rev = 0 \/ r.of # r.seen.of
       IN  \/ /\ writes /\ ledger.rev = r.seen.rev
              /\ rev' = rev + 1 /\ ledger' = [rev |-> rev + 1, of |-> r.of]
              /\ Goes(s, Idle)
           \/ /\ writes /\ ledger.rev # r.seen.rev
              /\ Goes(s, Down) /\ UNCHANGED <<rev, ledger>>
           \/ /\ ~writes
              /\ Goes(s, Idle) /\ UNCHANGED <<rev, ledger>>
    /\ UNCHANGED <<node, ctl, ops>>

-----------------------------------------------------------------------------
(* A Node write, under the server's mutex.                                 *)

\* Fault: an assigned subnet may be changed or cleared.
Admitted_mutable(n, c, expected) == node[n].rev = expected

\* concurrency and admit: a create needs an absent Node; an update names the
\* revision it observed and may not change an assigned subnet.
Admitted(n, c, expected) ==
    /\ node[n].rev = expected
    /\ node[n].cidr # None => c = node[n].cidr

Begin(s, n, c, expected, ours) ==
    Goes(s, WriteAt(IF c = None THEN "commit" ELSE "load", n, c, expected, ours))

\* A user or an agent creates or updates a Node.
UserWrite(s) ==
    /\ Op /\ req[s] = Idle
    /\ \E n \in Nodes, c \in Cidr :
         Admitted(n, c, node[n].rev) /\ Begin(s, n, c, node[n].rev, FALSE)
    /\ UNCHANGED <<rev, ledger, node, ctl>>

UserDelete(s) ==
    /\ Op /\ req[s] = Idle
    /\ \E n \in Nodes :
         /\ node[n].rev # 0
         /\ node' = [node EXCEPT ![n] = Absent]
    /\ rev' = rev + 1
    /\ UNCHANGED <<ledger, req, ctl>>

\* How a write ends; the controller's pass goes on, or stops at an error.
Ends(s, ok) ==
    /\ Goes(s, Idle)
    /\ IF req[s].ours /\ ctl[s].pc = "wait"
       THEN Passes(s, IF ok
                      THEN PassAt("each", reserve(ctl[s].of, req[s].node, req[s].cidr),
                                  ctl[s].left)
                      ELSE Idle)
       ELSE UNCHANGED ctl

WriteLoad(s) ==
    /\ req[s].pc = "load"
    /\ LET w == req[s] IN
       IF ledger.rev # 0 /\ may_reserve(ledger.of, w.node, w.cidr)
       THEN /\ Goes(s, WriteAt(IF ledger.of[w.node] = w.cidr THEN "commit" ELSE "reserve",
                               w.node, w.cidr, w.expected, w.ours))
            /\ UNCHANGED ctl
       ELSE Ends(s, FALSE)
    /\ UNCHANGED <<rev, ledger, node, ops>>

\* Fault: a lost race for the ledger is taken for a reservation.
WriteReserve_anyway(s) ==
    /\ req[s].pc = "reserve"
    /\ LET w == req[s] IN
       IF ledger.rev = w.seen.rev
       THEN /\ rev' = rev + 1
            /\ ledger' = [rev |-> rev + 1, of |-> reserve(w.seen.of, w.node, w.cidr)]
       ELSE UNCHANGED <<rev, ledger>>
    /\ Goes(s, [req[s] EXCEPT !.pc = "commit"])
    /\ UNCHANGED <<node, ctl, ops>>

WriteReserve(s) ==
    /\ req[s].pc = "reserve"
    /\ LET w == req[s] IN
       IF ledger.rev = w.seen.rev
       THEN /\ rev' = rev + 1
            /\ ledger' = [rev |-> rev + 1, of |-> reserve(w.seen.of, w.node, w.cidr)]
            /\ Goes(s, [w EXCEPT !.pc = "commit"])
            /\ UNCHANGED ctl
       ELSE Ends(s, FALSE) /\ UNCHANGED <<rev, ledger>>
    /\ UNCHANGED <<node, ops>>

WriteCommit(s) ==
    /\ req[s].pc = "commit"
    /\ LET w == req[s]
           ok == node[w.node].rev = w.expected
       IN  /\ IF ok THEN /\ rev' = rev + 1
                         /\ node' = [node EXCEPT ![w.node] = [rev |-> rev + 1, cidr |-> w.cidr]]
                    ELSE UNCHANGED <<rev, node>>
           /\ Ends(s, ok)
    /\ UNCHANGED <<ledger, ops>>

\* The client gives up, or the process stops, between two storage calls.
Cancel(s) ==
    /\ Op /\ req[s] \in Write
    /\ Ends(s, FALSE)
    /\ UNCHANGED <<rev, ledger, node>>

Crash(s) ==
    /\ Op /\ req[s] # Down
    /\ Goes(s, Down) /\ Passes(s, Idle)
    /\ UNCHANGED <<rev, ledger, node>>

-----------------------------------------------------------------------------
(* The controller: node_cidrs_once, every 2 seconds.                       *)

CtlSnapshot(s) ==
    /\ req[s].pc \notin {"down", "starting", "importing"} /\ ctl[s] = Idle
    /\ ledger.rev # 0
    /\ Passes(s, [pc |-> "list", of |-> ledger.of])
    /\ UNCHANGED <<rev, ledger, node, req, ops>>

CtlList(s) ==
    /\ ctl[s].pc = "list"
    /\ Passes(s, [pc |-> "each", of |-> ctl[s].of,
                  left |-> { [name |-> n, rev |-> node[n].rev, cidr |-> node[n].cidr] :
                               n \in { m \in Nodes : node[m].rev # 0 } }])
    /\ UNCHANGED <<rev, ledger, node, req, ops>>

\* The Nodes are done in the order of the list, and the first error ends the
\* pass: a Node that cannot be served keeps those after it waiting.
Foremost(left) == { i \in left : \A j \in left : i.name <= j.name }

\* The next Node of the list: take note of its subnet, or PATCH one in.
CtlNote(s) ==
    /\ ctl[s].pc = "each"
    /\ \E i \in Foremost(ctl[s].left) :
         /\ i.cidr # None
         /\ Passes(s, IF may_reserve(ctl[s].of, i.name, i.cidr)
                      THEN PassAt("each", reserve(ctl[s].of, i.name, i.cidr), ctl[s].left \ {i})
                      ELSE Idle)
    /\ UNCHANGED <<rev, ledger, node, req, ops>>

CtlPatch(s) ==
    /\ ctl[s].pc = "each" /\ req[s] = Idle
    /\ \E i \in Foremost(ctl[s].left) :
         /\ i.cidr = None
         /\ LET cs == next(ctl[s].of, i.name) IN
            \/ /\ \E c \in cs : /\ Admitted(i.name, c, i.rev)
                                /\ Begin(s, i.name, c, i.rev, TRUE)
               /\ Passes(s, PassAt("wait", ctl[s].of, ctl[s].left \ {i}))
            \/ /\ \A c \in cs : ~Admitted(i.name, c, i.rev)
               /\ Passes(s, Idle) /\ UNCHANGED req
    /\ UNCHANGED <<rev, ledger, node, ops>>

CtlDone(s) ==
    /\ ctl[s].pc = "each" /\ ctl[s].left = {}
    /\ Passes(s, Idle)
    /\ UNCHANGED <<rev, ledger, node, req, ops>>

\* The pass's deadline: its request may still be running.
CtlTimeout(s) ==
    /\ Op /\ ctl[s] # Idle
    /\ Passes(s, Idle)
    /\ UNCHANGED <<rev, ledger, node, req>>

-----------------------------------------------------------------------------
Server(s) ==
    StartLoad(s) \/ StartList(s) \/ StartCommit(s)
        \/ WriteLoad(s) \/ WriteReserve(s) \/ WriteCommit(s)

Controller(s) ==
    CtlSnapshot(s) \/ CtlList(s) \/ CtlNote(s) \/ CtlPatch(s) \/ CtlDone(s)

Users(s) == UserWrite(s) \/ UserDelete(s) \/ Cancel(s) \/ Crash(s) \/ CtlTimeout(s)

Next == \E s \in Servers : Server(s) \/ Controller(s) \/ Users(s)

Spec == Init /\ [][Next]_vars

\* Requests are served, a stopped server is started again, and the controller
\* runs every two seconds.
FairSpec ==
    Spec /\ \A s \in Servers : WF_vars(Server(s)) /\ WF_vars(Controller(s))

-----------------------------------------------------------------------------
(* Properties.                                                             *)

\* Once a server has started, no two Nodes have the same subnet, whatever
\* servers, controllers and users do at once: each write reserves its subnet
\* with a compare-and-set of the whole ledger (node_cidrs.rs:117-128).
Distinct == \A m, n \in Nodes : m # n /\ node[m].cidr # None => node[m].cidr # node[n].cidr
CidrsDisjoint == ledger.rev # 0 => Distinct

\* No subnet is reserved twice, and once there is a ledger an assigned subnet
\* is reserved for its Node: reserve before publish (node_cidrs.rs:2).
Disjoint(of) == \A m, n \in Nodes : m # n /\ of[m] # None => of[m] # of[n]
Covers(of) == \A n \in Nodes : node[n].cidr # None => of[n] = node[n].cidr

LedgerCovers == ledger.rev # 0 => Disjoint(ledger.of) /\ Covers(ledger.of)

\* A reservation is kept: through deletion, failed writes and restarts the
\* name has the same subnet (network.rs:15, docs/node-cidr-allocation.md:37).
ReservationsAreKept ==
    [][\A n \in Nodes : ledger.of[n] # None => ledger'.of[n] = ledger.of[n]]_vars

\* A Node's subnet is never changed or cleared while the Node exists, not even
\* by a write admitted before it was assigned (node_cidrs.rs:107-113).
AssignmentIsImmutable ==
    [][\A n \in Nodes : node[n].cidr # None /\ node'[n].rev # 0 =>
                          node'[n].cidr = node[n].cidr]_vars

\* What was reserved or assigned once is kept.
SubnetsAreKept == ReservationsAreKept /\ AssignmentIsImmutable

\* Unless the Nodes collided to begin with, every Node has a subnet in the end,
\* whatever was interrupted, but for the Nodes from one on that the exhausted
\* pool has nothing for: its error ends every pass (node_cidrs.rs:60).
Exhausted == \A c \in Subnets : \E n \in Nodes : ledger.of[n] = c
Unserved(n) == node[n].rev # 0 /\ node[n].cidr = None
NodesGetSubnets ==
    Distinct => <>[](\A n \in Nodes : Unserved(n) =>
                        Exhausted /\ \E m \in Nodes :
                                       m <= n /\ Unserved(m) /\ ledger.of[m] = None)

\* What docs/node-cidr-allocation.md:26 says: a Node whose name has a
\* reservation is given it by a later pass.  It does not hold of a Node that
\* comes after one the pool is exhausted for.
ReservationsResume ==
    Distinct => <>[](\A n \in Nodes : Unserved(n) => ledger.of[n] = None)

=============================================================================
