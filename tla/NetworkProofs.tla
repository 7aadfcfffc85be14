--------------------------- MODULE NetworkProofs ---------------------------
(***************************************************************************)
(* Proofs about the cluster's network.                                     *)
(*                                                                         *)
(* NodeCidr: for every set of Nodes, pool size, set of servers and number  *)
(* of faults.  Traffic: for every set of Pods, slice size and number of    *)
(* edits and failures.  The two share no state; what Traffic takes from    *)
(* NodeCidr is that the node's Pod CIDR comes and goes.                    *)
(***************************************************************************)
EXTENDS NodeCidr, Traffic, FiniteSetTheorems, TLAPS

-----------------------------------------------------------------------------
(* Pod subnets of the Nodes (NodeCidr).                                    *)

Request == {Idle, Down} \cup Starting \cup Importing \cup Write

-----------------------------------------------------------------------------
(* The inductive invariant.  The registry is (v, l, nd): its revision, its *)
(* ledger and its Nodes.                                                   *)

CoversIn(of, nd) == \A n \in Nodes : nd[n].cidr # None => of[n] = nd[n].cidr
Kept(of, of2) == \A n \in Nodes : of[n] # None => of2[n] = of[n]

\* Revisions are in the past, and the ledger is right once there is one.
Consistent(v, l, nd) ==
    /\ l.rev <= v
    /\ \A n \in Nodes : nd[n].rev <= v
    /\ l.rev = 0 => \A n \in Nodes : l.of[n] = None
    /\ l.rev # 0 => Disjoint(l.of) /\ CoversIn(l.of, nd)

\* What request r may rely on: a copy of the ledger is current unless its
\* revision is stale, and a write about to commit has its reservation.
Fits(r, v, l, nd) ==
    /\ r.pc \in {"idle", "load", "reserve", "commit"} => l.rev # 0
    /\ r.pc \in {"starting", "importing", "load", "reserve", "commit"} =>
         r.seen.rev <= l.rev /\ (r.seen.rev = l.rev => r.seen.of = l.of)
    /\ r.pc = "importing" /\ r.seen.rev = l.rev =>
         Disjoint(r.of) /\ CoversIn(r.of, nd) /\ Kept(l.of, r.of)
    /\ r.pc \in {"load", "reserve", "commit"} =>
         /\ r.expected <= v
         /\ nd[r.node].rev = r.expected => nd[r.node].cidr \in {None, r.cidr}
    /\ r.pc \in {"load", "reserve"} => r.cidr # None
    /\ r.pc = "reserve" => may_reserve(r.seen.of, r.node, r.cidr)
    /\ r.pc = "commit" /\ r.cidr # None => l.of[r.node] = r.cidr

IInv ==
    /\ TypeOK
    /\ Consistent(rev, ledger, node)
    /\ \A s \in Servers : Fits(req[s], rev, ledger, node)

-----------------------------------------------------------------------------
(* The ledger's operators.                                                 *)

\* Reserving a subnet a name may have keeps the ledger a ledger: no subnet is
\* shared, and no reservation is lost.
LEMMA ReserveKeeps ==
    ASSUME NEW of \in Allocation, NEW n \in Nodes, NEW c \in Cidr,
           c # None, Disjoint(of), may_reserve(of, n, c)
    PROVE  /\ reserve(of, n, c) \in Allocation
           /\ Disjoint(reserve(of, n, c))
           /\ Kept(of, reserve(of, n, c))
           /\ reserve(of, n, c)[n] = c
BY DEF Allocation, Disjoint, may_reserve, reserve, Kept

\* What `next' chooses is a subnet of the pool.
LEMMA NextIsASubnet ==
    ASSUME NEW of \in Allocation, NEW n \in Nodes
    PROVE  next(of, n) \subseteq Subnets
BY DEF next, Allocation, Cidr, None, Subnets

\* An import keeps every reservation and covers every Node.
LEMMA ImportKeeps ==
    ASSUME NEW of \in Allocation, TypeOK, Disjoint(of), importable(of)
    PROVE  /\ imported(of) \in Allocation
           /\ Disjoint(imported(of))
           /\ CoversIn(imported(of), node)
           /\ Kept(of, imported(of))
<1>1. \A n \in Nodes : node[n].cidr \in Cidr
  BY DEF TypeOK, NodeState
<1>2. imported(of) \in Allocation /\ CoversIn(imported(of), node)
  BY <1>1 DEF imported, Allocation, CoversIn
<1>3. Kept(of, imported(of))
  BY DEF imported, importable, Kept
<1>4. ASSUME NEW m \in Nodes, NEW n \in Nodes, m # n, imported(of)[m] # None
      PROVE  imported(of)[m] # imported(of)[n]
  <2>1. CASE node[m].cidr # None
    BY <1>4, <2>1 DEF imported, importable
  <2>2. CASE node[m].cidr = None /\ node[n].cidr # None
    BY <1>4, <2>2 DEF imported, importable
  <2>3. CASE node[m].cidr = None /\ node[n].cidr = None
    BY <1>4, <2>3 DEF imported, Disjoint
  <2> QED BY <2>1, <2>2, <2>3
<1> QED BY <1>2, <1>3, <1>4 DEF Disjoint

-----------------------------------------------------------------------------
(* What the other servers' requests make of a write to the registry.       *)

\* A request is of one kind, which its pc tells.
LEMMA KindOf ==
    ASSUME NEW r \in Request
    PROVE  /\ r.pc = "idle" <=> r = Idle
           /\ r.pc = "down" <=> r = Down
           /\ r.pc = "starting" <=> r \in Starting
           /\ r.pc = "importing" <=> r \in Importing
           /\ r.pc \in {"load", "reserve", "commit"} <=> r \in Write
BY DEF Request, Idle, Down, Starting, Importing, Write

\* The ledger gains reservations, at a new revision: every copy goes stale,
\* and no reservation is withdrawn.
LEMMA LedgerGrows ==
    ASSUME NEW r \in Request, NEW v \in Nat, NEW l \in Saved, NEW l2 \in Saved, NEW nd,
           Fits(r, v, l, nd), l.rev <= v, l2.rev = v + 1, Kept(l.of, l2.of)
    PROVE  Fits(r, v + 1, l2, nd)
<1>1. CASE r \in {Idle, Down}
  BY <1>1 DEF Fits, Idle, Down
<1>2. CASE r \in Starting
  BY <1>2 DEF Fits, Starting, Saved
<1>3. CASE r \in Importing
  BY <1>3 DEF Fits, Importing, Saved
<1>4. CASE r \in Write
  BY <1>4 DEF Fits, Write, Saved, Kept
<1> QED BY <1>1, <1>2, <1>3, <1>4 DEF Request

\* A Node is written with a subnet the ledger has for it, at a new revision.
LEMMA NodeWritten ==
    ASSUME NEW r \in Request, NEW v \in Nat, NEW l \in Saved,
           NEW nd \in [Nodes -> NodeState], NEW n \in Nodes, NEW x \in NodeState,
           Fits(r, v, l, nd), x.rev = v + 1, x.cidr # None => l.of[n] = x.cidr
    PROVE  Fits(r, v + 1, l, [nd EXCEPT ![n] = x])
<1>1. CASE r \in {Idle, Down}
  BY <1>1 DEF Fits, Idle, Down
<1>2. CASE r \in Starting
  BY <1>2 DEF Fits, Starting, Saved
<1>3. CASE r \in Importing
  BY <1>3 DEF Fits, Importing, Saved, CoversIn, Kept
<1>4. CASE r \in Write
  BY <1>4 DEF Fits, Write, Saved
<1> QED BY <1>1, <1>2, <1>3, <1>4 DEF Request

\* A Node is deleted.
LEMMA NodeRemoved ==
    ASSUME NEW r \in Request, NEW v \in Nat, NEW l \in Saved,
           NEW nd \in [Nodes -> NodeState], NEW n \in Nodes, Fits(r, v, l, nd)
    PROVE  Fits(r, v + 1, l, [nd EXCEPT ![n] = Absent])
<1>1. CASE r \in {Idle, Down}
  BY <1>1 DEF Fits, Idle, Down
<1>2. CASE r \in Starting
  BY <1>2 DEF Fits, Starting, Saved
<1>3. CASE r \in Importing
  BY <1>3 DEF Fits, Importing, Saved, CoversIn, Absent
<1>4. CASE r \in Write
  BY <1>4 DEF Fits, Write, Saved, Absent
<1> QED BY <1>1, <1>2, <1>3, <1>4 DEF Request

-----------------------------------------------------------------------------
(* Types.                                                                  *)

\* A Node write is begun with values of their types.
LEMMA BeginType ==
    ASSUME TypeOK, NEW s \in Servers, NEW n \in Nodes, NEW c \in Cidr, NEW e \in Nat,
           NEW o \in BOOLEAN, Begin(s, n, c, e, o)
    PROVE  req' \in [Servers -> Request]
<1>1. WriteAt(IF c = None THEN "commit" ELSE "load", n, c, e, o) \in Write
  BY DEF Write, WriteAt, TypeOK
<1> QED BY <1>1 DEF Begin, Goes, TypeOK, Request

\* A write ends, and its pass goes on or stops.
LEMMA EndsType ==
    ASSUME TypeOK, NEW s \in Servers, req[s] \in Write, NEW ok \in BOOLEAN, Ends(s, ok)
    PROVE  /\ req' = [req EXCEPT ![s] = Idle]
           /\ req' \in [Servers -> Request]
           /\ ctl' \in [Servers -> Pass]
<1>1. req' = [req EXCEPT ![s] = Idle] /\ req' \in [Servers -> Request]
  BY DEF Ends, Goes, TypeOK, Request
<1>2. CASE req[s].ours /\ ctl[s].pc = "wait"
  <2>1. /\ ctl[s] \in [pc : {"each", "wait"}, of : Allocation, left : SUBSET Item]
        /\ req[s].node \in Nodes /\ req[s].cidr \in Cidr
    BY <1>2 DEF TypeOK, Pass, Idle, Write
  <2>2. reserve(ctl[s].of, req[s].node, req[s].cidr) \in Allocation
    BY <2>1 DEF reserve, Allocation
  <2>3. ctl[s].left \in SUBSET Item
    BY <2>1
  <2>4. PassAt("each", reserve(ctl[s].of, req[s].node, req[s].cidr), ctl[s].left) \in Pass
    BY <2>2, <2>3 DEF Pass, PassAt
  <2>5. Idle \in Pass
    BY DEF Pass
  <2>6. PICK c \in Pass : ctl' = [ctl EXCEPT ![s] = c]
    BY <1>2, <2>4, <2>5 DEF Ends, Passes
  <2> QED BY <1>1, <2>6 DEF TypeOK
<1>3. CASE ~(req[s].ours /\ ctl[s].pc = "wait")
  BY <1>1, <1>3 DEF Ends, TypeOK
<1> QED BY <1>1, <1>2, <1>3

\* A step of a controller pass keeps the pass's type.
LEMMA PassType ==
    ASSUME TypeOK, NEW s \in Servers, Controller(s)
    PROVE  TypeOK'
<1> Idle \in Pass
  BY DEF Pass
<1>1. CASE CtlSnapshot(s)
  <2>1. [pc |-> "list", of |-> ledger.of] \in Pass
    BY DEF TypeOK, Saved, Pass
  <2> QED BY <1>1, <2>1 DEF CtlSnapshot, Passes, TypeOK
<1>2. CASE CtlList(s)
  <2>1. ctl[s].of \in Allocation
    BY <1>2 DEF CtlList, TypeOK, Pass, Idle
  <2>2. { [name |-> n, rev |-> node[n].rev, cidr |-> node[n].cidr] :
            n \in { m \in Nodes : node[m].rev # 0 } } \in SUBSET Item
    BY DEF TypeOK, NodeState, Item
  <2>3. [pc |-> "each", of |-> ctl[s].of,
         left |-> { [name |-> n, rev |-> node[n].rev, cidr |-> node[n].cidr] :
                      n \in { m \in Nodes : node[m].rev # 0 } }] \in Pass
    BY <2>1, <2>2 DEF Pass
  <2> QED BY <1>2, <2>3 DEF CtlList, Passes, TypeOK
<1>3. ASSUME ctl[s].pc = "each"
      PROVE  ctl[s] \in [pc : {"each", "wait"}, of : Allocation, left : SUBSET Item]
  BY <1>3 DEF TypeOK, Pass, Idle
<1>4. CASE CtlNote(s)
  <2>1. PICK i \in ctl[s].left :
          Passes(s, IF may_reserve(ctl[s].of, i.name, i.cidr)
                    THEN PassAt("each", reserve(ctl[s].of, i.name, i.cidr), ctl[s].left \ {i})
                    ELSE Idle)
    BY <1>4 DEF CtlNote, Foremost
  <2>2. ctl[s] \in [pc : {"each", "wait"}, of : Allocation, left : SUBSET Item] /\ i \in Item
    BY <1>4, <1>3 DEF CtlNote
  <2>3. reserve(ctl[s].of, i.name, i.cidr) \in Allocation
    BY <2>2 DEF reserve, Allocation, Item
  <2>4. PassAt("each", reserve(ctl[s].of, i.name, i.cidr), ctl[s].left \ {i}) \in Pass
    BY <2>2, <2>3 DEF Pass, PassAt
  <2> QED BY <1>4, <2>1, <2>4 DEF CtlNote, Passes, TypeOK
<1>5. CASE CtlPatch(s)
  <2>1. PICK i \in ctl[s].left :
          \/ /\ \E c \in next(ctl[s].of, i.name) : Begin(s, i.name, c, i.rev, TRUE)
             /\ Passes(s, PassAt("wait", ctl[s].of, ctl[s].left \ {i}))
          \/ Passes(s, Idle) /\ UNCHANGED req
    BY <1>5 DEF CtlPatch, Foremost
  <2>2. ctl[s] \in [pc : {"each", "wait"}, of : Allocation, left : SUBSET Item] /\ i \in Item
    BY <1>5, <1>3 DEF CtlPatch
  <2>3. PassAt("wait", ctl[s].of, ctl[s].left \ {i}) \in Pass
    BY <2>2 DEF Pass, PassAt
  <2>4. ctl' \in [Servers -> Pass]
    BY <2>1, <2>3 DEF Passes, TypeOK
  <2>5. next(ctl[s].of, i.name) \subseteq Cidr /\ i.name \in Nodes /\ i.rev \in Nat
    BY <2>2, NextIsASubnet DEF Item, Cidr
  <2>6. req' \in [Servers -> Request]
    BY <2>1, <2>5, BeginType DEF TypeOK, Request
  <2> QED BY <1>5, <2>4, <2>6 DEF CtlPatch, TypeOK, Request
<1>6. CASE CtlDone(s)
  BY <1>6 DEF CtlDone, Passes, TypeOK
<1> QED BY <1>1, <1>2, <1>4, <1>5, <1>6 DEF Controller

-----------------------------------------------------------------------------
(* Steps.                                                                  *)

\* A server goes on without touching the registry.
LEMMA ServerMoves ==
    ASSUME IInv, NEW s \in Servers, NEW r \in Request, Goes(s, r),
           Fits(r, rev, ledger, node), UNCHANGED <<rev, ledger, node>>,
           ctl' \in [Servers -> Pass], ops' \in 0..MaxOps
    PROVE  IInv'
<1>1. TypeOK'
  BY DEF IInv, TypeOK, Goes, Request
<1>2. \A t \in Servers : Fits(req'[t], rev, ledger, node)
  BY DEF IInv, TypeOK, Goes
<1> QED BY <1>1, <1>2 DEF IInv

\* The registry's state, typed.
LEMMA RegistryTypes ==
    ASSUME IInv
    PROVE  /\ rev \in Nat /\ ledger \in Saved /\ ledger.of \in Allocation /\ ledger.rev \in Nat
           /\ node \in [Nodes -> NodeState]
           /\ \A s \in Servers : req[s] \in Request /\ Fits(req[s], rev, ledger, node)
           /\ ctl \in [Servers -> Pass] /\ ops \in 0..MaxOps
BY DEF IInv, TypeOK, Request, Saved

\* A write commits to the ledger: every other server's copy goes stale.
LEMMA LedgerMoves ==
    ASSUME IInv, NEW s \in Servers, NEW r \in Request, Goes(s, r),
           NEW of \in Allocation, Kept(ledger.of, of), Disjoint(of), CoversIn(of, node),
           rev' = rev + 1, ledger' = [rev |-> rev + 1, of |-> of],
           Fits(r, rev + 1, ledger', node),
           UNCHANGED <<node, ctl, ops>>
    PROVE  IInv'
<1>1. TypeOK'
  BY DEF IInv, TypeOK, Goes, Request, Saved
<1>2. Consistent(rev', ledger', node')
  BY RegistryTypes DEF IInv, Consistent, NodeState
<1>3. ASSUME NEW t \in Servers PROVE Fits(req'[t], rev + 1, ledger', node)
  <2>1. ledger' \in Saved /\ ledger'.rev = rev + 1 /\ Kept(ledger.of, ledger'.of)
    BY RegistryTypes DEF Saved
  <2>2. Fits(req[t], rev + 1, ledger', node)
    BY <2>1, RegistryTypes, LedgerGrows DEF IInv, Consistent
  <2> QED BY <2>2 DEF Goes, IInv, TypeOK
<1> QED BY <1>1, <1>2, <1>3 DEF IInv

\* StartLoad, StartList and StartCommit preserve the invariant.
LEMMA StartStep ==
    ASSUME IInv, NEW s \in Servers, StartLoad(s) \/ StartList(s) \/ StartCommit(s)
    PROVE  IInv'
<1> Idle \in Request /\ Down \in Request
  BY DEF Request
<1> Fits(Down, rev, ledger, node)
  BY DEF Fits, Down
<1>1. CASE StartLoad(s)
  <2>1. [pc |-> "starting", seen |-> ledger] \in Request
    BY DEF Request, Starting, IInv, TypeOK
  <2>2. Fits([pc |-> "starting", seen |-> ledger], rev, ledger, node)
    BY RegistryTypes DEF Fits
  <2> QED BY <1>1, <2>1, <2>2, ServerMoves, RegistryTypes DEF StartLoad
<1>2. CASE StartList(s)
  <2> DEFINE of == req[s].seen.of
             r == [pc |-> "importing", seen |-> req[s].seen, of |-> imported(of)]
  <2>1. req[s] \in Starting /\ req[s].seen \in Saved /\ of \in Allocation
    BY <1>2, RegistryTypes, KindOf DEF StartList, Starting, Saved
  <2>2. CASE ~importable(of)
    BY <1>2, <2>2, ServerMoves, RegistryTypes DEF StartList
  <2>3. CASE importable(of)
    <3>1. imported(of) \in Allocation
      BY <2>1, <2>3 DEF imported, Allocation, IInv, TypeOK, NodeState
    <3>2. r \in Request
      BY <2>1, <3>1 DEF Request, Importing
    <3>3. ASSUME req[s].seen.rev = ledger.rev
          PROVE  /\ Disjoint(imported(of))
                 /\ CoversIn(imported(of), node)
                 /\ Kept(ledger.of, imported(of))
      <4>1. of = ledger.of
        BY <1>2, <3>3, RegistryTypes DEF StartList, Fits
      <4>2. Disjoint(of)
        BY <4>1 DEF IInv, Consistent, Disjoint
      <4> QED BY <4>1, <4>2, <2>1, <2>3, ImportKeeps DEF IInv, Consistent
    <3>4. Fits(r, rev, ledger, node)
      BY <1>2, <3>3, RegistryTypes DEF StartList, Fits
    <3> QED BY <1>2, <2>3, <3>2, <3>4, ServerMoves, RegistryTypes DEF StartList
  <2> QED BY <2>2, <2>3
<1>3. CASE StartCommit(s)
  <2> DEFINE r == req[s]
             writes == r.seen.rev = 0 \/ r.of # r.seen.of
  <2>1. r \in Importing /\ r.of \in Allocation /\ r.seen \in Saved
    BY <1>3, RegistryTypes, KindOf DEF StartCommit, Importing
  <2>2. CASE writes /\ ledger.rev = r.seen.rev
    <3>1. /\ Goes(s, Idle)
          /\ rev' = rev + 1 /\ ledger' = [rev |-> rev + 1, of |-> r.of]
          /\ UNCHANGED <<node, ctl, ops>>
      BY <1>3, <2>2 DEF StartCommit
    <3>2. Disjoint(r.of) /\ CoversIn(r.of, node) /\ Kept(ledger.of, r.of)
      BY <1>3, <2>2, RegistryTypes DEF StartCommit, Fits
    <3>3. Fits(Idle, rev + 1, ledger', node)
      BY <3>1, RegistryTypes DEF Fits, Idle
    <3> QED BY <2>1, <3>1, <3>2, <3>3, LedgerMoves
  <2>3. CASE writes /\ ledger.rev # r.seen.rev
    BY <1>3, <2>3, ServerMoves, RegistryTypes DEF StartCommit
  <2>4. CASE ~writes
    <3>1. ledger.rev # 0
      BY <1>3, <2>1, <2>4, RegistryTypes DEF StartCommit, Fits, Saved
    <3>2. Fits(Idle, rev, ledger, node)
      BY <3>1 DEF Fits, Idle
    <3> QED BY <1>3, <2>4, <3>2, ServerMoves, RegistryTypes DEF StartCommit
  <2> QED BY <2>2, <2>3, <2>4
<1> QED BY <1>1, <1>2, <1>3

\* A write that ends without reaching the registry.
LEMMA WriteEnds ==
    ASSUME IInv, NEW s \in Servers, req[s] \in Write, NEW ok \in BOOLEAN, Ends(s, ok),
           UNCHANGED <<rev, ledger, node>>, ops' \in 0..MaxOps
    PROVE  IInv'
<1>1. Goes(s, Idle) /\ ctl' \in [Servers -> Pass] /\ Idle \in Request
  BY EndsType DEF IInv, Goes, Request
<1>2. Fits(Idle, rev, ledger, node)
  BY RegistryTypes DEF Fits, Idle, Write
<1> QED BY <1>1, <1>2, ServerMoves

\* WriteLoad: a granted reservation is checked against the ledger just read.
LEMMA WriteLoadStep ==
    ASSUME IInv, NEW s \in Servers, WriteLoad(s)
    PROVE  IInv'
<1> DEFINE w == req[s]
           pc == IF ledger.of[w.node] = w.cidr THEN "commit" ELSE "reserve"
           w2 == WriteAt(pc, w.node, w.cidr, w.expected, w.ours)
<1>1. w \in Write
  BY RegistryTypes, KindOf DEF WriteLoad
<1>2. CASE ledger.rev # 0 /\ may_reserve(ledger.of, w.node, w.cidr)
  <2>1. Goes(s, w2) /\ UNCHANGED <<rev, ledger, node, ctl, ops>>
    BY <1>2 DEF WriteLoad
  <2>2. w2 \in Request
    BY <1>1, RegistryTypes DEF WriteAt, Write, Request
  <2>3. Fits(w2, rev, ledger, node)
    <3>1. /\ w.expected <= rev
          /\ node[w.node].rev = w.expected => node[w.node].cidr \in {None, w.cidr}
          /\ w.cidr # None
      BY RegistryTypes DEF WriteLoad, Fits
    <3>2. ledger.rev <= ledger.rev
      BY RegistryTypes
    <3> QED BY <1>2, <3>1, <3>2 DEF Fits, WriteAt
  <2> QED BY <2>1, <2>2, <2>3, ServerMoves, RegistryTypes
<1>3. CASE ~(ledger.rev # 0 /\ may_reserve(ledger.of, w.node, w.cidr))
  BY <1>1, <1>3, WriteEnds, RegistryTypes DEF WriteLoad
<1> QED BY <1>2, <1>3

\* WriteReserve: the compare-and-set grants what was checked, or nothing.
LEMMA WriteReserveStep ==
    ASSUME IInv, NEW s \in Servers, WriteReserve(s)
    PROVE  IInv'
<1> DEFINE w == req[s]
           of == reserve(w.seen.of, w.node, w.cidr)
           w2 == [w EXCEPT !.pc = "commit"]
<1>1. w \in Write /\ w.seen.of \in Allocation /\ w.node \in Nodes /\ w.cidr \in Cidr
  BY RegistryTypes, KindOf DEF WriteReserve, Write, Saved
<1>2. CASE ledger.rev = w.seen.rev
  <2>1. /\ rev' = rev + 1 /\ ledger' = [rev |-> rev + 1, of |-> of]
        /\ Goes(s, w2) /\ UNCHANGED <<node, ctl, ops>>
    BY <1>2 DEF WriteReserve
  <2>2. /\ ledger.rev # 0 /\ w.seen.of = ledger.of /\ w.cidr # None
        /\ may_reserve(ledger.of, w.node, w.cidr)
    BY <1>2, RegistryTypes DEF WriteReserve, Fits
  <2>3. of \in Allocation /\ Disjoint(of) /\ Kept(ledger.of, of) /\ of[w.node] = w.cidr
    BY <1>1, <2>2, ReserveKeeps DEF IInv, Consistent
  <2>4. CoversIn(of, node)
    BY <2>2, <2>3 DEF IInv, Consistent, CoversIn, Kept
  <2>5. w2 \in Request
    BY <1>1 DEF Write, Request
  <2>6. Fits(w2, rev + 1, ledger', node)
    <3>1. /\ w.expected <= rev + 1 /\ w.seen.rev <= rev + 1 /\ w.seen.rev # rev + 1
          /\ node[w.node].rev = w.expected => node[w.node].cidr \in {None, w.cidr}
      BY <1>1, <1>2, RegistryTypes DEF WriteReserve, Fits, Write, Saved, IInv, Consistent
    <3> QED BY <1>1, <2>1, <2>3, <3>1, RegistryTypes DEF Fits, Write
  <2> QED BY <2>1, <2>3, <2>4, <2>5, <2>6, LedgerMoves
<1>3. CASE ledger.rev # w.seen.rev
  BY <1>1, <1>3, WriteEnds, RegistryTypes DEF WriteReserve
<1> QED BY <1>2, <1>3

\* WriteCommit: the Node has the subnet that is reserved for it, if it has any.
LEMMA WriteCommitStep ==
    ASSUME IInv, NEW s \in Servers, WriteCommit(s)
    PROVE  IInv'
<1> DEFINE w == req[s]
           x == [rev |-> rev + 1, cidr |-> w.cidr]
<1>1. w \in Write /\ w.node \in Nodes /\ w.cidr \in Cidr
  BY RegistryTypes, KindOf DEF WriteCommit, Write
<1>2. CASE node[w.node].rev = w.expected
  <2>1. /\ rev' = rev + 1 /\ node' = [node EXCEPT ![w.node] = x]
        /\ Ends(s, TRUE) /\ UNCHANGED <<ledger, ops>>
    BY <1>2 DEF WriteCommit
  <2>2. ledger.rev # 0 /\ (w.cidr # None => ledger.of[w.node] = w.cidr)
    BY RegistryTypes DEF WriteCommit, Fits
  <2>3. x \in NodeState
    BY <1>1, RegistryTypes DEF NodeState
  <2>4. /\ req' = [req EXCEPT ![s] = Idle] /\ req' \in [Servers -> Request]
        /\ ctl' \in [Servers -> Pass]
    BY <1>1, <2>1, EndsType DEF IInv
  <2>5. TypeOK'
    BY <1>1, <2>1, <2>3, <2>4, RegistryTypes DEF TypeOK, Request
  <2>6. CoversIn(ledger.of, node')
    BY <1>1, <2>1, <2>2, RegistryTypes DEF IInv, Consistent, CoversIn
  <2>8. Consistent(rev', ledger', node')
    BY <1>1, <2>1, <2>6, RegistryTypes DEF IInv, Consistent, NodeState
  <2>9. ASSUME NEW t \in Servers PROVE Fits(req'[t], rev + 1, ledger, node')
    <3>1. Fits(req[t], rev + 1, ledger, node')
      BY <1>1, <2>1, <2>2, <2>3, RegistryTypes, NodeWritten
    <3>2. Fits(Idle, rev + 1, ledger, node')
      BY <2>2 DEF Fits, Idle
    <3> QED BY <2>4, <3>1, <3>2, RegistryTypes
  <2> QED BY <2>1, <2>5, <2>8, <2>9 DEF IInv
<1>3. CASE node[w.node].rev # w.expected
  BY <1>1, <1>3, WriteEnds, RegistryTypes DEF WriteCommit
<1> QED BY <1>2, <1>3

\* UserDelete: a Node goes, its reservation stays.
LEMMA UserDeleteStep ==
    ASSUME IInv, NEW s \in Servers, UserDelete(s)
    PROVE  IInv'
<1>1. PICK n \in Nodes : node' = [node EXCEPT ![n] = Absent]
  BY DEF UserDelete
<1>2. rev' = rev + 1 /\ UNCHANGED <<ledger, req, ctl>> /\ ops' \in 0..MaxOps /\ req[s] = Idle
  BY RegistryTypes, NodeCidrAssumption DEF UserDelete, Op
<1>3. Absent \in NodeState
  BY NodeCidrAssumption DEF Absent, NodeState, Cidr
<1>4. TypeOK'
  BY <1>1, <1>2, <1>3, RegistryTypes DEF IInv, TypeOK
<1>5. Consistent(rev', ledger', node')
  BY <1>1, <1>2, RegistryTypes DEF IInv, Consistent, Absent, NodeState, CoversIn
<1>6. \A t \in Servers : Fits(req[t], rev + 1, ledger, node')
  BY <1>1, RegistryTypes, NodeRemoved
<1> QED BY <1>2, <1>4, <1>5, <1>6 DEF IInv

\* A Node write is begun with what the API admits.
LEMMA BeginFits ==
    ASSUME IInv, NEW s \in Servers, req[s] = Idle, NEW n \in Nodes, NEW c \in Cidr,
           NEW e \in Nat, NEW o \in BOOLEAN, Admitted(n, c, e), Begin(s, n, c, e, o),
           UNCHANGED <<rev, ledger, node>>, ctl' \in [Servers -> Pass], ops' \in 0..MaxOps
    PROVE  IInv'
<1> DEFINE pc == IF c = None THEN "commit" ELSE "load"
           w == WriteAt(pc, n, c, e, o)
<1>1. w \in Request
  BY RegistryTypes DEF WriteAt, Write, Request
<1>2. Fits(w, rev, ledger, node)
  BY RegistryTypes DEF Fits, WriteAt, Idle, Admitted, IInv, Consistent, NodeState
<1> QED BY <1>1, <1>2, ServerMoves DEF Begin

\* UserWrite, Cancel, Crash and CtlTimeout preserve the invariant.
LEMMA UserStep ==
    ASSUME IInv, NEW s \in Servers,
           UserWrite(s) \/ Cancel(s) \/ Crash(s) \/ CtlTimeout(s)
    PROVE  IInv'
<1>1. ops' \in 0..MaxOps
  <2>1. Op
    BY DEF UserWrite, Cancel, Crash, CtlTimeout
  <2> QED BY <2>1, RegistryTypes, NodeCidrAssumption DEF Op
<1> Idle \in Pass /\ Down \in Request
  BY DEF Pass, Request
<1>2. CASE UserWrite(s)
  <2>1. PICK n \in Nodes, c \in Cidr :
          Admitted(n, c, node[n].rev) /\ Begin(s, n, c, node[n].rev, FALSE)
    BY <1>2 DEF UserWrite
  <2>2. node[n].rev \in Nat
    BY RegistryTypes DEF NodeState
  <2> QED BY <1>1, <1>2, <2>1, <2>2, BeginFits, RegistryTypes DEF UserWrite
<1>3. CASE Cancel(s)
  BY <1>1, <1>3, WriteEnds DEF Cancel
<1>4. CASE Crash(s)
  <2>1. Fits(Down, rev, ledger, node)
    BY DEF Fits, Down
  <2>2. ctl' \in [Servers -> Pass]
    BY <1>4, RegistryTypes DEF Crash, Passes
  <2> QED BY <1>1, <1>4, <2>1, <2>2, ServerMoves DEF Crash
<1>5. CASE CtlTimeout(s)
  <2>1. TypeOK'
    BY <1>1, <1>5 DEF CtlTimeout, Passes, IInv, TypeOK
  <2> QED BY <1>5, <2>1 DEF IInv, CtlTimeout
<1> QED BY <1>2, <1>3, <1>4, <1>5

\* The controller touches the registry only through Node writes.
LEMMA ControllerStep ==
    ASSUME IInv, NEW s \in Servers, Controller(s)
    PROVE  IInv'
<1>1. TypeOK'
  BY PassType DEF IInv
<1>2. CASE CtlPatch(s) /\ ~UNCHANGED req
  <2>1. PICK i \in ctl[s].left : \E c \in next(ctl[s].of, i.name) :
          Admitted(i.name, c, i.rev) /\ Begin(s, i.name, c, i.rev, TRUE)
    BY <1>2 DEF CtlPatch, Foremost
  <2>2. ctl[s].of \in Allocation /\ i \in Item
    BY <1>2, RegistryTypes DEF CtlPatch, Pass, Idle
  <2>3. next(ctl[s].of, i.name) \subseteq Cidr /\ i.name \in Nodes /\ i.rev \in Nat
    BY <2>2, NextIsASubnet DEF Item, Cidr
  <2>4. ctl' \in [Servers -> Pass] /\ ops' \in 0..MaxOps
    BY <1>1 DEF TypeOK
  <2> QED BY <1>2, <2>1, <2>3, <2>4, BeginFits DEF CtlPatch
<1>3. CASE UNCHANGED req
  <2>1. UNCHANGED <<rev, ledger, node>>
    BY DEF Controller, CtlSnapshot, CtlList, CtlNote, CtlPatch, CtlDone
  <2> QED BY <1>1, <1>3, <2>1 DEF IInv
<1>4. CtlPatch(s) \/ UNCHANGED req
  BY DEF Controller, CtlSnapshot, CtlList, CtlNote, CtlDone
<1> QED BY <1>2, <1>3, <1>4

-----------------------------------------------------------------------------
(* The theorems.                                                           *)

\* The initial states satisfy the invariant: there is no ledger.
LEMMA InvInit == Init => IInv
<1> SUFFICES ASSUME Init PROVE IInv
  OBVIOUS
<1>1. node \in [Nodes -> NodeState] /\ \A n \in Nodes : node[n].rev <= 1
  BY NodeCidrAssumption DEF Init, Absent, NodeState, Cidr, None
<1>2. [n \in Nodes |-> None] \in Allocation
  BY DEF Allocation, Cidr
<1>3. TypeOK
  BY <1>1, <1>2, NodeCidrAssumption DEF Init, TypeOK, Saved, Pass
<1>4. Consistent(rev, ledger, node)
  BY <1>1 DEF Init, Consistent
<1>5. \A s \in Servers : Fits(req[s], rev, ledger, node)
  BY DEF Init, Fits, Down
<1> QED BY <1>3, <1>4, <1>5 DEF IInv

\* Every step of the system preserves it.
LEMMA InvStep == IInv /\ [Next]_vars => IInv'
<1> SUFFICES ASSUME IInv, [Next]_vars PROVE IInv'
  OBVIOUS
<1>1. CASE UNCHANGED vars
  BY <1>1 DEF vars, IInv, TypeOK
<1>2. ASSUME NEW s \in Servers, Server(s) PROVE IInv'
  BY <1>2, StartStep, WriteLoadStep, WriteReserveStep, WriteCommitStep DEF Server
<1>3. ASSUME NEW s \in Servers, Controller(s) PROVE IInv'
  BY <1>3, ControllerStep
<1>4. ASSUME NEW s \in Servers, Users(s) PROVE IInv'
  BY <1>4, UserStep, UserDeleteStep DEF Users
<1> QED BY <1>1, <1>2, <1>3, <1>4 DEF Next

LEMMA Invariance == Spec => []IInv
BY InvInit, InvStep, PTL DEF Spec

\* Every variable always has its type.
THEOREM TypeCorrect == Spec => []TypeOK
<1>1. IInv => TypeOK
  BY DEF IInv
<1> QED BY <1>1, Invariance, PTL

\* Once a server has started, no two Nodes ever have the same subnet, whatever
\* servers, controllers and users do at once (node_cidrs.rs:117-128).
THEOREM CidrsDisjointCorrect == Spec => []CidrsDisjoint
<1>1. IInv => CidrsDisjoint
  BY DEF IInv, Consistent, CoversIn, Disjoint, Distinct, CidrsDisjoint
<1> QED BY <1>1, Invariance, PTL

\* Once there is a ledger it shares no subnet and covers every Node: a write
\* is published only under its reservation (node_cidrs.rs:2).
THEOREM LedgerCoversCorrect == Spec => []LedgerCovers
<1>1. IInv => LedgerCovers
  BY DEF IInv, Consistent, CoversIn, Covers, LedgerCovers
<1> QED BY <1>1, Invariance, PTL

\* Only a committed import and a granted reservation write the ledger.
LEMMA LedgerStep ==
    ASSUME IInv, [Next]_vars, NEW n \in Nodes, ledger.of[n] # None
    PROVE  ledger'.of[n] = ledger.of[n]
<1>1. CASE UNCHANGED ledger
  BY <1>1
<1>2. ASSUME NEW s \in Servers, StartCommit(s), ~UNCHANGED ledger
      PROVE  ledger'.of[n] = ledger.of[n]
  <2>1. /\ ledger.rev = req[s].seen.rev /\ req[s].pc = "importing"
        /\ ledger' = [rev |-> rev + 1, of |-> req[s].of]
    BY <1>2 DEF StartCommit
  <2> QED BY <2>1, RegistryTypes DEF Fits, Kept
<1>3. ASSUME NEW s \in Servers, WriteReserve(s), ~UNCHANGED ledger
      PROVE  ledger'.of[n] = ledger.of[n]
  <2> DEFINE w == req[s]
  <2>1. /\ ledger.rev = w.seen.rev /\ w.pc = "reserve"
        /\ ledger' = [rev |-> rev + 1, of |-> reserve(w.seen.of, w.node, w.cidr)]
    BY <1>3 DEF WriteReserve
  <2>2. /\ w \in Write /\ w.node \in Nodes /\ w.cidr \in Cidr /\ w.cidr # None
        /\ w.seen.of = ledger.of /\ may_reserve(ledger.of, w.node, w.cidr)
    BY <2>1, RegistryTypes, KindOf DEF Fits, Write
  <2>3. Kept(ledger.of, reserve(ledger.of, w.node, w.cidr))
    BY <2>2, RegistryTypes DEF Kept, reserve, may_reserve, Allocation
  <2> QED BY <2>1, <2>2, <2>3 DEF Kept
<1>4. UNCHANGED ledger \/ \E s \in Servers : StartCommit(s) \/ WriteReserve(s)
  BY DEF Next, vars, Server, Controller, Users, StartLoad, StartList, WriteLoad, WriteCommit,
         CtlSnapshot, CtlList, CtlNote, CtlPatch, CtlDone,
         UserWrite, UserDelete, Cancel, Crash, CtlTimeout
<1> QED BY <1>1, <1>2, <1>3, <1>4

\* A name keeps its reservation through every write, deletion, lost race and
\* restart (network.rs:15).
THEOREM ReservationsAreKeptCorrect == Spec => ReservationsAreKept
<1>1. IInv /\ [Next]_vars =>
        [\A n \in Nodes : ledger.of[n] # None => ledger'.of[n] = ledger.of[n]]_vars
  BY LedgerStep
<1> QED BY <1>1, Invariance, PTL DEF Spec, ReservationsAreKept

\* Only a committed write and a deletion touch a Node.
LEMMA NodeStep ==
    ASSUME IInv, [Next]_vars, NEW n \in Nodes, node[n].cidr # None, node'[n].rev # 0
    PROVE  node'[n].cidr = node[n].cidr
<1>1. CASE UNCHANGED node
  BY <1>1
<1>2. ASSUME NEW s \in Servers, WriteCommit(s), ~UNCHANGED node
      PROVE  node'[n].cidr = node[n].cidr
  <2> DEFINE w == req[s]
  <2>1. /\ node[w.node].rev = w.expected /\ w.pc = "commit"
        /\ node' = [node EXCEPT ![w.node] = [rev |-> rev + 1, cidr |-> w.cidr]]
    BY <1>2 DEF WriteCommit
  <2>2. node[w.node].cidr \in {None, w.cidr}
    BY <2>1, RegistryTypes DEF Fits
  <2> QED BY <2>1, <2>2, RegistryTypes
<1>3. ASSUME NEW s \in Servers, UserDelete(s)
      PROVE  node'[n].cidr = node[n].cidr
  <2>1. PICK m \in Nodes : node' = [node EXCEPT ![m] = Absent]
    BY <1>3 DEF UserDelete
  <2> QED BY <2>1, RegistryTypes DEF Absent
<1>4. UNCHANGED node \/ \E s \in Servers : WriteCommit(s) \/ UserDelete(s)
  BY DEF Next, vars, Server, Controller, Users, StartLoad, StartList, StartCommit,
         WriteLoad, WriteReserve, CtlSnapshot, CtlList, CtlNote, CtlPatch, CtlDone,
         UserWrite, Cancel, Crash, CtlTimeout
<1> QED BY <1>1, <1>2, <1>3, <1>4

\* A Node's subnet is never changed or cleared while the Node exists
\* (node_cidrs.rs:107-113).
THEOREM AssignmentIsImmutableCorrect == Spec => AssignmentIsImmutable
<1>1. IInv /\ [Next]_vars =>
        [\A n \in Nodes : node[n].cidr # None /\ node'[n].rev # 0 =>
                            node'[n].cidr = node[n].cidr]_vars
  BY NodeStep
<1> QED BY <1>1, Invariance, PTL DEF Spec, AssignmentIsImmutable

\* What was reserved or assigned once is kept, through every crash and race.
THEOREM SubnetsAreKeptCorrect == Spec => SubnetsAreKept
BY ReservationsAreKeptCorrect, AssignmentIsImmutableCorrect, PTL DEF SubnetsAreKept

-----------------------------------------------------------------------------
(* Traffic: the plan of a Service's slices.                                *)

\* Pods of a set have positions of their own, below the number of Pods.
LEMMA Positions ==
    ASSUME NEW S \in SUBSET Pods, NEW p \in S
    PROVE  /\ Position(p, S) \in Nat /\ Position(p, S) <= Cardinality(Pods) - 1
           /\ \A q \in S : Position(q, S) = Position(p, S) => q = p
  <1>1. IsFiniteSet(S) /\ IsFiniteSet(Pods) /\ p \in Pods /\ Pods \subseteq Nat
    BY TrafficAssumption, FS_Subset
  <1>2. PICK L : L = {q \in S : q < p}
    OBVIOUS
  <1>3. /\ IsFiniteSet(Pods \ {p}) /\ Cardinality(Pods \ {p}) = Cardinality(Pods) - 1
        /\ Cardinality(Pods) \in Nat
    BY <1>1, FS_RemoveElement, FS_CardinalityType
  <1>4. L \in SUBSET (Pods \ {p})
    <2>1. p \in Nat
      BY <1>1
    <2>2. ASSUME NEW q \in L
          PROVE  q \in Pods \ {p}
      <3>1. q \in S /\ q < p /\ q \in Nat
        BY <1>1, <1>2
      <3> QED BY <2>1, <3>1
    <2> QED BY <2>2
  <1>5. /\ IsFiniteSet(L) /\ Cardinality(L) \in Nat
        /\ Cardinality(L) <= Cardinality(Pods) - 1
    BY <1>3, <1>4, FS_Subset, FS_CardinalityType
  <1>6. Position(p, S) = Cardinality(L)
    BY <1>2 DEF Position
  <1>7. ASSUME NEW a \in S, NEW b \in S, a < b
        PROVE  Position(a, S) # Position(b, S)
    <2>1. PICK A : A = {q \in S : q < a}
      OBVIOUS
    <2>2. PICK B : B = {q \in S : q < b}
      OBVIOUS
    <2>3. a \in Nat /\ b \in Nat /\ S \subseteq Nat
      BY <1>1
    <2>4. A \in SUBSET B /\ a \in B /\ a \notin A /\ B \in SUBSET S
      <3>1. a \in B /\ B \in SUBSET S
        BY <1>7, <2>2
      <3>2. a \notin A
        BY <2>1, <2>3
      <3>3. ASSUME NEW q \in A
            PROVE  q \in B
        <4>1. q \in S /\ q < a /\ q \in Nat
          BY <2>1, <2>3
        <4>2. q < b
          BY <1>7, <2>3, <4>1
        <4> QED BY <2>2, <4>1, <4>2
      <3> QED BY <3>1, <3>2, <3>3
    <2>5. Cardinality(B) # Cardinality(A)
      BY <1>1, <2>4, FS_Subset
    <2> QED BY <2>1, <2>2, <2>5 DEF Position
  <1>8. ASSUME NEW q \in S, Position(q, S) = Position(p, S)
        PROVE  q = p
    <2>1. q \in Nat /\ p \in Nat
      BY <1>1
    <2>2. ~(q < p) /\ ~(p < q)
      BY <1>7, <1>8
    <2> QED BY <2>1, <2>2
  <1> QED BY <1>5, <1>6, <1>8

\* The chunk of a position is one of a Service that selects every Pod.
LEMMA ChunkOfPosition ==
    ASSUME NEW i \in Nat, i <= Cardinality(Pods) - 1
    PROVE  /\ i \div SliceSize \in 0..(Cardinality(Pods) - 1) \div SliceSize
           /\ (i \div SliceSize) * SliceSize <= i
           /\ i <= (i \div SliceSize) * SliceSize + SliceSize - 1
           /\ Cardinality(Pods) <= SliceSize => i \div SliceSize = 0
  <1>1. PICK n \in Nat : n = Cardinality(Pods)
    BY TrafficAssumption, FS_CardinalityType
  <1>2. PICK k \in Nat \ {0} : k = SliceSize
    BY TrafficAssumption
  <1>3. i <= n - 1
    BY <1>1
  <1>4. i \div k \in Nat /\ (n - 1) \div k \in Nat /\ i \div k <= (n - 1) \div k
    BY <1>3
  <1>5. (i \div k) * k <= i /\ i <= (i \div k) * k + k - 1
    OBVIOUS
  <1>6. n <= k => i \div k = 0
    BY <1>3
  <1> QED BY <1>1, <1>2, <1>4, <1>5, <1>6

\* Endpoints of Pods whose positions are in one chunk fill one slice at most.
LEMMA ChunkFits ==
    ASSUME NEW S \in SUBSET Pods, NEW k \in Nat, NEW E,
           \A e \in E : e.pod \in S /\ Position(e.pod, S) \div SliceSize = k,
           \A e, f \in E : e.pod = f.pod => e = f
    PROVE  IsFiniteSet(E) /\ Cardinality(E) <= SliceSize
  <1>1. PICK z \in Nat \ {0} : z = SliceSize
    BY TrafficAssumption
  <1>2. PICK a \in Nat, b \in Nat : a = k * z /\ b = k * z + z - 1
    OBVIOUS
  <1>3. PICK f : f = [e \in E |-> Position(e.pod, S)]
    OBVIOUS
  <1>4. ASSUME NEW e \in E
        PROVE  f[e] \in a..b
    <2>1. PICK i \in Nat : i = Position(e.pod, S) /\ i <= Cardinality(Pods) - 1
      BY Positions
    <2>2. i \div SliceSize = k
      BY <2>1
    <2>3. k * z <= i /\ i <= k * z + z - 1
      BY <1>1, <2>1, <2>2, ChunkOfPosition
    <2> QED BY <1>2, <1>3, <2>1, <2>3
  <1>5. ASSUME NEW e \in E, NEW g \in E, f[e] = f[g]
        PROVE  e = g
    <2>1. e.pod \in S /\ g.pod \in S /\ Position(e.pod, S) = Position(g.pod, S)
      BY <1>3, <1>5
    <2>2. e.pod = g.pod
      BY <2>1, Positions
    <2> QED BY <2>2
  <1>6. f \in Injection(E, a..b)
    BY <1>3, <1>4, <1>5 DEF Injection, IsInjective
  <1>7. IsFiniteSet(a..b) /\ Cardinality(a..b) = IF a > b THEN 0 ELSE b - a + 1
    BY FS_Interval
  <1>8. IsFiniteSet(E) /\ Cardinality(E) <= Cardinality(a..b)
    BY <1>6, <1>7, FS_Injection
  <1>9. Cardinality(a..b) <= z
    BY <1>2, <1>7
  <1>10. Cardinality(E) \in Nat /\ Cardinality(a..b) \in Nat
    BY <1>7, <1>8, FS_CardinalityType
  <1> QED BY <1>1, <1>8, <1>9, <1>10

Policies == [all : BOOLEAN, local : BOOLEAN]

\* The plan of a Service are slices of its own, of one name each, with the
\* selected Pods as they were listed; while the Pods fit in one slice it is
\* one, with every selected Pod.
LEMMA PlannedSlices ==
    ASSUME policy \in Policies, NEW s \in Service, NEW P \in [Pods -> PodState]
    PROVE  /\ \A d \in plan(s, P) :
                /\ d \in Slice /\ d.owner = s.uid /\ Cardinality(d.eps) <= SliceSize
                /\ \A e \in d.eps : e.pod \in selected(s, P) /\ e = EndpointOf(e.pod, P)
           /\ \A d, f \in plan(s, P) : SameName(d, f) => d = f
           /\ Cardinality(Pods) <= SliceSize =>
                \A d \in plan(s, P), p \in selected(s, P) : EndpointOf(p, P) \in d.eps
  <1>1. PICK S : S = selected(s, P)
    OBVIOUS
  <1>2. S \in SUBSET Pods
    BY <1>1 DEF selected, Service
  <1>3. PICK C : C = {[owner |-> s.uid, port |-> s.port, chunk |-> k,
                       eps |-> {EndpointOf(p, P) : p \in {q \in S : Position(q, S) \div SliceSize = k}}]
                        : k \in Chunks(S)}
    OBVIOUS
  <1>4. plan(s, P) = C
    BY <1>1, <1>3 DEF plan
  <1>5. s.uid \in Uids /\ s.port \in Ports
    BY DEF Service
  <1>6. ASSUME NEW d \in C
        PROVE  /\ d \in Slice /\ d.owner = s.uid /\ Cardinality(d.eps) <= SliceSize
               /\ \A e \in d.eps : e.pod \in S /\ e = EndpointOf(e.pod, P)
               /\ Cardinality(Pods) <= SliceSize => \A p \in S : EndpointOf(p, P) \in d.eps
    <2>1. PICK k \in Chunks(S) :
             d = [owner |-> s.uid, port |-> s.port, chunk |-> k,
                  eps |-> {EndpointOf(p, P) : p \in {q \in S : Position(q, S) \div SliceSize = k}}]
      BY <1>3, <1>6
    <2>2. PICK E : E = {EndpointOf(p, P) : p \in {q \in S : Position(q, S) \div SliceSize = k}}
      OBVIOUS
    <2>3. d = [owner |-> s.uid, port |-> s.port, chunk |-> k, eps |-> E]
      BY <2>1, <2>2
    <2>4. \A p \in Pods : EndpointOf(p, P) \in Endpoint /\ EndpointOf(p, P).pod = p
      BY DEF EndpointOf, Endpoint, Policies
    <2>5. \A e \in E : e.pod \in S /\ e = EndpointOf(e.pod, P) /\ e \in Endpoint
                       /\ Position(e.pod, S) \div SliceSize = k
      BY <1>2, <2>2, <2>4
    <2>6. k \in 0..(Cardinality(Pods) - 1) \div SliceSize
      <3>1. CASE S = {}
        <4>1. Cardinality(Pods) \in Nat /\ Cardinality(Pods) # 0
          BY TrafficAssumption, FS_CardinalityType, FS_EmptySet
        <4>2. 0 <= Cardinality(Pods) - 1
          BY <4>1
        <4>3. PICK n \in Nat : n = Cardinality(Pods) - 1
          BY <4>1, <4>2
        <4>4. PICK z \in Nat \ {0} : z = SliceSize
          BY TrafficAssumption
        <4>5. 0 \in 0..n \div z
          OBVIOUS
        <4> QED BY <2>1, <3>1, <4>3, <4>4, <4>5 DEF Chunks
      <3>2. CASE S # {}
        <4>1. PICK p \in S : k = Position(p, S) \div SliceSize
          BY <2>1, <3>2 DEF Chunks
        <4>2. PICK i \in Nat : i = Position(p, S) /\ i <= Cardinality(Pods) - 1
          BY <1>2, Positions
        <4> QED BY <4>1, <4>2, ChunkOfPosition
      <3> QED BY <3>1, <3>2
    <2>7. k \in Nat
      BY <2>6
    <2>8. \A e, f \in E : e.pod = f.pod => e = f
      BY <2>5
    <2>9. Cardinality(E) <= SliceSize
      BY <1>2, <2>5, <2>7, <2>8, ChunkFits
    <2>10. d \in Slice
      <3>1. E \in SUBSET Endpoint
        BY <2>5
      <3> QED BY <1>5, <2>3, <2>6, <3>1 DEF Slice
    <2>11. ASSUME Cardinality(Pods) <= SliceSize, NEW p \in S
           PROVE  EndpointOf(p, P) \in d.eps
      <3>1. \A q \in S : Position(q, S) \div SliceSize = 0
        <4> SUFFICES ASSUME NEW q \in S
                     PROVE  Position(q, S) \div SliceSize = 0
          OBVIOUS
        <4>1. PICK i \in Nat : i = Position(q, S) /\ i <= Cardinality(Pods) - 1
          BY <1>2, Positions
        <4> QED BY <2>11, <4>1, ChunkOfPosition
      <3>2. k = 0
        BY <2>1, <2>11, <3>1 DEF Chunks
      <3>3. EndpointOf(p, P) \in E
        BY <2>2, <3>1, <3>2
      <3> QED BY <2>3, <3>3
    <2> QED BY <2>3, <2>5, <2>9, <2>10, <2>11
  <1>7. ASSUME NEW d \in C, NEW f \in C, SameName(d, f)
        PROVE  d = f
    <2>1. PICK k \in Chunks(S) :
             d = [owner |-> s.uid, port |-> s.port, chunk |-> k,
                  eps |-> {EndpointOf(p, P) : p \in {q \in S : Position(q, S) \div SliceSize = k}}]
      BY <1>3, <1>7
    <2>2. PICK l \in Chunks(S) :
             f = [owner |-> s.uid, port |-> s.port, chunk |-> l,
                  eps |-> {EndpointOf(p, P) : p \in {q \in S : Position(q, S) \div SliceSize = l}}]
      BY <1>3, <1>7
    <2>3. d.chunk = k /\ f.chunk = l
      BY <2>1, <2>2
    <2>4. k = l
      BY <1>7, <2>3 DEF SameName
    <2> QED BY <2>1, <2>2, <2>4
  <1> QED BY <1>1, <1>4, <1>6, <1>7

\* A Service's plan depends on the policy and what was listed only.
LEMMA PlanStays ==
    ASSUME policy' = policy, NEW s, NEW P
    PROVE  plan(s, P)' = plan(s, P)
BY DEF plan, selected, EndpointOf

-----------------------------------------------------------------------------
(* The inductive invariant.                                                *)

Sole(S, T) == S = {} \/ \E x \in T : S = {x}

PassState ==
    [pc : {"idle", "pods", "slices", "publish", "put", "collect", "drop"},
     svc : SUBSET Service, pods : [Pods -> PodState],
     seen : SUBSET Slice, todo : SUBSET Slice, item : SUBSET Slice]

ProxyState ==
    [pc : {"list", "reconcile", "wait"}, got : SUBSET {"svc", "slices"},
     svc : SUBSET Service, slices : SUBSET Slice, cidr : BOOLEAN,
     rules : Rules, desired : SUBSET Rules, valid : BOOLEAN,
     planned : BOOLEAN, ready : BOOLEAN]

SlicesTyped(T) ==
    /\ T \subseteq Slice
    /\ \A s, t \in T : SameName(s, t) => s = t
    /\ \A s \in T : Cardinality(s.eps) <= SliceSize

TTyped ==
    /\ policy \in Policies /\ Sole(svc, Service) /\ pod \in [Pods -> PodState]
    /\ SlicesTyped(slices) /\ pass \in PassState /\ proxy \in ProxyState
    /\ Sole(kernel, Rules) /\ cidr \in BOOLEAN /\ events \in 0..MaxEvents

\* Endpoints that may get traffic were fit to serve (F) their Service; rules
\* only forward to such, and under Local to Pods of the node.
Earned(T, F) ==
    \A t \in T : \A e \in t.eps : e.ready /\ ~e.terminating => <<t.owner, e.pod>> \in F
Right(a, R, F) ==
    \A r \in R : \A b \in r.backends : <<r.svc, b.pod>> \in F /\ (a.local => b.pod \in Local)

World ==
    /\ \A x \in svc : x.uid <= events
    /\ Fit(svc, pod) \subseteq fit
    /\ Earned(slices, fit)
    /\ \A K \in kernel : Right(policy, K, fit)

ProxyFits(a, y, F) ==
    /\ Earned(y.slices, F) /\ Right(a, y.rules, F)
    /\ \A K \in y.desired : Right(a, K, F)

\* A pass c whose plan is D, in the world of the Service S, the slices T, the
\* history F and n events.  While the Service of the pass lives, what the
\* pass has listed is still earned, and what it has published is there.
Slicing(c, D) ==
    /\ Sole(c.svc, Service) /\ (c.pc # "idle" <=> c.svc # {})
    /\ c.pc \in {"put", "drop"} => \E t \in Slice : c.item = {t}
    /\ c.pc = "publish" => c.item = {}
    /\ c.pc \in {"publish", "put"} => c.todo \cup c.item \subseteq D
    /\ c.pc \in {"collect", "drop"} => (c.todo \cup c.item) \cap D = {}

Alive(c, S) == {s \in c.svc : \E x \in S : x.uid = s.uid}
Serves(a, st) == st = "ready" \/ (a.all /\ st \in {"unready", "terminating"})

PassFits(a, c, D, S, T, F, n) ==
    /\ Slicing(c, D)
    /\ \A s \in c.svc : s.uid <= n /\ \A x \in S : x.uid = s.uid => x.sel = s.sel
    /\ c.pc \notin {"idle", "pods"} =>
         \A s \in Alive(c, S) : \A p \in s.sel : Serves(a, c.pods[p]) => <<s.uid, p>> \in F
    /\ c.pc = "put" => Earned(c.item, F)
    /\ c.pc \in {"publish", "put", "collect", "drop"} /\ Alive(c, S) # {} =>
         D \ (c.todo \cup c.item) \subseteq T

PlanOf(c) == plan(The(c.svc), c.pods)

TInv ==
    /\ TTyped /\ World
    /\ PassFits(policy, pass, PlanOf(pass), svc, slices, fit, events)
    /\ ProxyFits(policy, proxy, fit)

-----------------------------------------------------------------------------
(* Facts that several steps need.                                          *)

LEMMA EarnedStays ==
    ASSUME NEW T, NEW F, NEW F2, Earned(T, F), F \subseteq F2
    PROVE  Earned(T, F2)
BY DEF Earned

LEMMA RightStays ==
    ASSUME NEW a, NEW R, NEW F, NEW F2, Right(a, R, F), F \subseteq F2
    PROVE  Right(a, R, F2)
BY DEF Right

LEMMA ProxyStays ==
    ASSUME NEW a, NEW y, NEW F, NEW F2, ProxyFits(a, y, F), F \subseteq F2
    PROVE  ProxyFits(a, y, F2)
BY EarnedStays, RightStays DEF ProxyFits

\* What a pass relies on stays when the Service keeps its selector or gets a
\* new uid, Pods become fit, and slices of living Services stay.
LEMMA PassStays ==
    ASSUME NEW a, NEW c, NEW D, NEW S, NEW T, NEW F, NEW n \in Int, NEW S2, NEW T2, NEW F2, NEW n2 \in Int,
           c.svc \subseteq Service, S2 \subseteq Service, n <= n2, F \subseteq F2,
           PassFits(a, c, D, S, T, F, n),
           \A x \in S2 : x.uid > n \/ \E y \in S : y.uid = x.uid /\ y.sel = x.sel,
           Alive(c, S2) # {} => D \cap T \subseteq T2
    PROVE  PassFits(a, c, D, S2, T2, F2, n2)
  <1>1. \A s \in Service : s.uid \in Int
    BY TrafficAssumption DEF Service, Uids
  <1>2. Alive(c, S2) \subseteq Alive(c, S)
    BY <1>1 DEF Alive, PassFits
  <1>3. \A s \in c.svc : s.uid <= n2 /\ \A x \in S2 : x.uid = s.uid => x.sel = s.sel
    BY <1>1 DEF PassFits
  <1>4. \A s \in Alive(c, S2) : \A p \in s.sel :
          c.pc \notin {"idle", "pods"} /\ Serves(a, c.pods[p]) => <<s.uid, p>> \in F2
    BY <1>2 DEF PassFits
  <1>5. c.pc = "put" => Earned(c.item, F2)
    BY EarnedStays DEF PassFits
  <1>6. c.pc \in {"publish", "put", "collect", "drop"} /\ Alive(c, S2) # {} =>
          D \ (c.todo \cup c.item) \subseteq T2
    BY <1>2 DEF PassFits
  <1> QED BY <1>3, <1>4, <1>5, <1>6 DEF PassFits

\* No pass at all relies on nothing.
LEMMA NoPassFits ==
    ASSUME NEW a, NEW D, NEW S, NEW T, NEW F, NEW n
    PROVE  NoPass \in PassState /\ PassFits(a, NoPass, D, S, T, F, n)
  <1>1. /\ NoPass.pc = "idle" /\ NoPass.svc = {} /\ NoPass.item = {}
        /\ NoPass.todo = {} /\ NoPass.seen = {} /\ NoPass.pods = [p \in Pods |-> "gone"]
    BY DEF NoPass
  <1>2. NoPass \in PassState
    BY DEF NoPass, PassState, PodState
  <1> QED BY <1>1, <1>2 DEF PassFits, Slicing, Sole, Alive

\* The plan of the next pass, by the policy, which nothing changes.
LEMMA NextPlan ==
    ASSUME policy' = policy, NEW c, c = pass'
    PROVE  PlanOf(pass)' = PlanOf(c)
BY PlanStays DEF PlanOf

LEMMA FitGrows ==
    ASSUME policy' = policy, fit \subseteq fit', NEW S, NEW P, S = svc', P = pod',
           Fit(S, P) \subseteq fit'
    PROVE  Fit(svc, pod)' \subseteq fit'
BY DEF Fit, FitNow

-----------------------------------------------------------------------------
(* The controller's steps.                                                 *)

\* The world and the proxy's loop while only the controller moves.
LEMMA PassMoves ==
    ASSUME TInv, UNCHANGED <<policy, svc, pod, cidr, fit, proxy, kernel>>, events' \in 0..MaxEvents,
           events <= events',
           SlicesTyped(slices'), Earned(slices', fit),
           NEW c, c = pass', c \in PassState,
           PassFits(policy, c, PlanOf(c), svc, slices', fit, events')
    PROVE  TInv'
  <1>1. TTyped'
    BY DEF TInv, TTyped, SlicesTyped, SameName
  <1>2. World'
    <2>1. \A x \in svc : x.uid \in Int
      BY TrafficAssumption DEF TInv, TTyped, Sole, Service, Uids
    <2>2. events \in Int /\ events' \in Int
      BY TrafficAssumption DEF TInv, TTyped
    <2>3. \A x \in svc : x.uid <= events'
      BY <2>1, <2>2 DEF TInv, World
    <2>4. Fit(svc, pod)' \subseteq fit'
      <3>1. PICK S, P : S = svc /\ P = pod
        OBVIOUS
      <3> QED BY <3>1, FitGrows DEF TInv, World
    <2> QED BY <2>3, <2>4 DEF TInv, World, Earned, Right
  <1>3. PassFits(policy, pass, PlanOf(pass), svc, slices, fit, events)'
    BY NextPlan DEF PassFits, Slicing, Earned, Alive, Serves, Sole
  <1>4. ProxyFits(policy, proxy, fit)'
    BY DEF TInv, ProxyFits, Earned, Right
  <1> QED BY <1>1, <1>2, <1>3, <1>4 DEF TInv

\* What there is to say of a pass in TInv.
LEMMA PassNow ==
    ASSUME TInv
    PROVE  /\ pass \in PassState /\ policy \in Policies /\ SlicesTyped(slices) /\ Earned(slices, fit)
           /\ PassFits(policy, pass, PlanOf(pass), svc, slices, fit, events)
           /\ events \in 0..MaxEvents /\ events \in Int
           /\ Sole(svc, Service) /\ svc \subseteq Service /\ pod \in [Pods -> PodState]
           /\ pass.pc # "idle" => The(pass.svc) \in Service /\ pass.svc = {The(pass.svc)}
  <1>1. pass.pc # "idle" => The(pass.svc) \in Service /\ pass.svc = {The(pass.svc)}
    BY DEF TInv, PassFits, Slicing, Sole, The
  <1> QED BY <1>1, TrafficAssumption DEF TInv, TTyped, World, Sole

LEMMA GetServiceStep ==
    ASSUME TInv, GetService
    PROVE  TInv'
  <1>1. PICK c : c = [NoPass EXCEPT !.pc = "pods", !.svc = svc]
    OBVIOUS
  <1>2. /\ NoPass \in PassState /\ svc \in SUBSET Service /\ svc # {} /\ Sole(svc, Service)
        /\ \A x, y \in svc : x = y
    BY PassNow, NoPassFits DEF GetService, Sole
  <1>3. /\ c \in PassState /\ c.pc = "pods" /\ c.svc = svc /\ c.item = {} /\ c.todo = {}
    BY <1>1, <1>2 DEF PassState, NoPass
  <1>4. PassFits(policy, c, PlanOf(c), svc, slices, fit, events)
    BY <1>2, <1>3 DEF PassFits, Slicing, TInv, World
  <1> QED BY <1>1, <1>3, <1>4, PassNow, PassMoves DEF GetService, ctlOnly, apiVars

LEMMA ListPodsStep ==
    ASSUME TInv, ListPods
    PROVE  TInv'
  <1>1. PICK c : c = [pass EXCEPT !.pc = "slices", !.pods = pod]
    OBVIOUS
  <1>2. /\ pass \in PassState /\ pass.pc = "pods" /\ pod \in [Pods -> PodState]
        /\ PassFits(policy, pass, PlanOf(pass), svc, slices, fit, events)
        /\ Fit(svc, pod) \subseteq fit
    BY PassNow DEF ListPods, TInv, World
  <1>3. c \in PassState /\ c.pc = "slices" /\ c.svc = pass.svc /\ c.pods = pod
    BY <1>1, <1>2 DEF PassState
  <1>4. ASSUME NEW s \in Alive(c, svc), NEW p \in s.sel, Serves(policy, c.pods[p])
        PROVE  <<s.uid, p>> \in fit
    <2>1. PICK x \in svc : x.uid = s.uid
      BY DEF Alive
    <2>2. x.sel = s.sel /\ s \in Service
      BY <1>2, <1>3, <2>1 DEF Alive, PassFits, PassState
    <2>3. p \in Pods
      BY <2>2 DEF Service
    <2>4. <<x.uid, p>> \in FitNow(svc, pod)
      BY <1>3, <1>4, <2>3 DEF FitNow, Serves
    <2>5. <<x.uid, p>> \in Fit(svc, pod)
      BY <2>2, <2>4 DEF Fit
    <2> QED BY <1>2, <2>1, <2>5
  <1>5. PassFits(policy, c, PlanOf(c), svc, slices, fit, events)
    BY <1>2, <1>3, <1>4 DEF PassFits, Slicing, Sole
  <1> QED BY <1>1, <1>3, <1>5, PassNow, PassMoves DEF ListPods, ctlOnly, apiVars

\* What follows the slices or a publication that are in order.
LEMMA OnwardFits ==
    ASSUME policy \in Policies, NEW c \in PassState, NEW S, NEW T, NEW F, NEW n,
           c.pc \in {"slices", "put"},
           Sole(c.svc, Service), c.svc # {}, c.todo \subseteq PlanOf(c),
           \A s \in c.svc : s.uid <= n /\ \A x \in S : x.uid = s.uid => x.sel = s.sel,
           \A s \in Alive(c, S) : \A p \in s.sel : Serves(policy, c.pods[p]) => <<s.uid, p>> \in F,
           Alive(c, S) # {} => PlanOf(c) \ c.todo \subseteq T
    PROVE  /\ Onward(c) \in PassState
           /\ PassFits(policy, Onward(c), PlanOf(Onward(c)), S, T, F, n)
  <1>1. CASE c.todo # {}
    <2>1. PICK d : d = [c EXCEPT !.pc = "publish", !.item = {}]
      OBVIOUS
    <2>2. /\ d \in PassState /\ d.pc = "publish" /\ d.item = {} /\ d.todo = c.todo
          /\ d.svc = c.svc /\ d.pods = c.pods
      BY <2>1 DEF PassState
    <2>3. PlanOf(d) = PlanOf(c) /\ Alive(d, S) = Alive(c, S)
      BY <2>2 DEF PlanOf, Alive
    <2>4. PassFits(policy, d, PlanOf(d), S, T, F, n)
      BY <2>2, <2>3 DEF PassFits, Slicing
    <2> QED BY <1>1, <2>1, <2>2, <2>4 DEF Onward
  <1>2. CASE c.todo = {}
    <2>1. PICK O : O = Obsolete(The(c.svc), c.pods, c.seen)
      OBVIOUS
    <2>2. O \subseteq c.seen /\ O \cap PlanOf(c) = {}
      BY <2>1 DEF Obsolete, SameName, PlanOf
    <2>3. PICK d : d = [c EXCEPT !.pc = "collect", !.item = {}, !.todo = O]
      OBVIOUS
    <2>4. O \in SUBSET Slice
      BY <2>2 DEF PassState
    <2>5. /\ d \in PassState /\ d.pc = "collect" /\ d.item = {} /\ d.todo = O
          /\ d.svc = c.svc /\ d.pods = c.pods
      BY <2>3, <2>4 DEF PassState
    <2>6. PlanOf(d) = PlanOf(c) /\ Alive(d, S) = Alive(c, S)
      BY <2>5 DEF PlanOf, Alive
    <2>7. PassFits(policy, d, PlanOf(d), S, T, F, n)
      BY <1>2, <2>2, <2>5, <2>6 DEF PassFits, Slicing
    <2> QED BY <1>2, <2>1, <2>3, <2>5, <2>7 DEF Onward
  <1> QED BY <1>1, <1>2

LEMMA ListSlicesStep ==
    ASSUME TInv, ListSlices
    PROVE  TInv'
  <1>1. PICK D : D = PlanOf(pass)
    OBVIOUS
  <1>2. /\ pass \in PassState /\ pass.pc = "slices" /\ policy \in Policies
        /\ PassFits(policy, pass, D, svc, slices, fit, events) /\ SlicesTyped(slices)
        /\ The(pass.svc) \in Service /\ pass.svc # {}
    BY <1>1, PassNow DEF ListSlices
  <1>3. D \in SUBSET Slice
    <2>1. pass.pods \in [Pods -> PodState]
      BY <1>2 DEF PassState
    <2> QED BY <1>1, <1>2, <2>1, PlannedSlices DEF PlanOf
  <1>4. PICK c : c = [pass EXCEPT !.seen = slices, !.todo = D \ slices]
    OBVIOUS
  <1>5. /\ c \in PassState /\ c.pc = "slices" /\ c.svc = pass.svc /\ c.pods = pass.pods
        /\ c.todo = D \ slices
    BY <1>2, <1>3, <1>4 DEF PassState, SlicesTyped
  <1>6. PlanOf(c) = D /\ Alive(c, svc) = Alive(pass, svc)
    BY <1>1, <1>5 DEF PlanOf, Alive
  <1>7. PICK d : d = Onward(c)
    OBVIOUS
  <1>8. /\ Sole(c.svc, Service) /\ c.svc # {} /\ c.todo \subseteq PlanOf(c)
        /\ \A s \in c.svc : s.uid <= events /\ \A x \in svc : x.uid = s.uid => x.sel = s.sel
        /\ \A s \in Alive(c, svc) : \A p \in s.sel : Serves(policy, c.pods[p]) => <<s.uid, p>> \in fit
        /\ PlanOf(c) \ c.todo \subseteq slices
    BY <1>2, <1>5, <1>6 DEF PassFits, Slicing
  <1>9. d \in PassState /\ PassFits(policy, d, PlanOf(d), svc, slices, fit, events)
    BY <1>2, <1>5, <1>7, <1>8, OnwardFits
  <1>10. pass' = d
    BY <1>1, <1>4, <1>7 DEF ListSlices, PlanOf
  <1> QED BY <1>9, <1>10, PassNow, PassMoves DEF ListSlices, ctlOnly, apiVars

\* The slices a pass plans while its Service lives are earned by the Pods it
\* has listed.
LEMMA PlanIsEarned ==
    ASSUME TInv, pass.pc \notin {"idle", "pods"}, NEW d \in PlanOf(pass), Alive(pass, svc) # {}
    PROVE  Earned({d}, fit)
  <1>1. PICK s, P : s = The(pass.svc) /\ P = pass.pods
    OBVIOUS
  <1>2. /\ s \in Service /\ P \in [Pods -> PodState] /\ s \in Alive(pass, svc) /\ policy \in Policies
        /\ d \in plan(s, P)
        /\ \A p \in s.sel : Serves(policy, P[p]) => <<s.uid, p>> \in fit
    BY <1>1, PassNow DEF PassFits, Alive, PassState, PlanOf
  <1>3. d.owner = s.uid /\ \A e \in d.eps : e.pod \in selected(s, P) /\ e = EndpointOf(e.pod, P)
    BY <1>2, PlannedSlices
  <1>4. ASSUME NEW e \in d.eps, e.ready, ~e.terminating
        PROVE  <<d.owner, e.pod>> \in fit
    <2>1. PICK p : p = e.pod
      OBVIOUS
    <2>2. p \in selected(s, P) /\ EndpointOf(p, P).ready /\ ~EndpointOf(p, P).terminating
      BY <1>3, <1>4, <2>1
    <2>3. p \in s.sel /\ p \in Pods /\ P[p] \notin {"gone", "finished", "terminating"}
          /\ (policy.all \/ P[p] = "ready")
      BY <1>2, <2>2 DEF selected, EndpointOf, Service
    <2>4. Serves(policy, P[p])
      BY <1>2, <2>3 DEF Serves, PodState
    <2> QED BY <1>2, <1>3, <2>1, <2>3, <2>4
  <1> QED BY <1>4 DEF Earned

LEMMA CheckPublishStep ==
    ASSUME TInv, CheckPublish
    PROVE  TInv'
  <1>1. PICK t \in pass.todo :
          pass' = IF unchanged
                  THEN [pass EXCEPT !.pc = "put", !.todo = @ \ {t}, !.item = {t}] ELSE NoPass
    BY DEF CheckPublish
  <1>2. CASE unchanged
    <2>1. PICK c : c = [pass EXCEPT !.pc = "put", !.todo = @ \ {t}, !.item = {t}]
      OBVIOUS
    <2>2. /\ pass \in PassState /\ pass.pc = "publish" /\ svc # {} /\ svc = pass.svc
          /\ PassFits(policy, pass, PlanOf(pass), svc, slices, fit, events)
      BY <1>2, PassNow DEF CheckPublish, unchanged
    <2>3. pass.item = {} /\ pass.todo \subseteq PlanOf(pass) /\ t \in Slice
      BY <2>2 DEF PassFits, Slicing, PassState
    <2>4. /\ c \in PassState /\ c.pc = "put" /\ c.svc = pass.svc /\ c.pods = pass.pods
          /\ c.todo = pass.todo \ {t} /\ c.item = {t}
      BY <2>1, <2>2, <2>3 DEF PassState
    <2>5. PlanOf(c) = PlanOf(pass) /\ Alive(c, svc) = Alive(pass, svc) /\ Alive(pass, svc) # {}
      BY <2>2, <2>4 DEF PlanOf, Alive
    <2>6. Earned(c.item, fit)
      BY <2>2, <2>3, <2>4, <2>5, PlanIsEarned
    <2>7. Slicing(c, PlanOf(c))
      BY <2>2, <2>3, <2>4, <2>5 DEF PassFits, Slicing
    <2>8. PassFits(policy, c, PlanOf(c), svc, slices, fit, events)
      BY <2>2, <2>3, <2>4, <2>5, <2>6, <2>7 DEF PassFits
    <2> QED BY <1>1, <1>2, <2>1, <2>4, <2>8, PassNow, PassMoves DEF CheckPublish, ctlOnly, apiVars
  <1>3. CASE ~unchanged
    <2>1. PICK c : c = NoPass
      OBVIOUS
    <2>2. c \in PassState /\ PassFits(policy, c, PlanOf(c), svc, slices, fit, events)
      BY <2>1, NoPassFits
    <2> QED BY <1>1, <1>3, <2>1, <2>2, PassNow, PassMoves DEF CheckPublish, ctlOnly, apiVars
  <1> QED BY <1>2, <1>3

LEMMA CheckCollectStep ==
    ASSUME TInv, CheckCollect
    PROVE  TInv'
  <1>0. UNCHANGED <<policy, svc, pod, cidr, fit, proxy, kernel, slices, events>>
    BY DEF CheckCollect, ctlOnly, apiVars
  <1>1. CASE pass' = NoPass
    <2>1. PICK c : c = NoPass
      OBVIOUS
    <2>2. c \in PassState /\ PassFits(policy, c, PlanOf(c), svc, slices, fit, events)
      BY <2>1, NoPassFits
    <2> QED BY <1>0, <1>1, <2>1, <2>2, PassNow, PassMoves
  <1>2. ASSUME NEW t \in pass.todo,
               pass' = [pass EXCEPT !.pc = "drop", !.todo = @ \ {t}, !.item = {t}]
        PROVE  TInv'
    <2>1. PICK c : c = [pass EXCEPT !.pc = "drop", !.todo = @ \ {t}, !.item = {t}]
      OBVIOUS
    <2>2. /\ pass \in PassState /\ pass.pc = "collect"
          /\ PassFits(policy, pass, PlanOf(pass), svc, slices, fit, events)
      BY PassNow DEF CheckCollect
    <2>3. t \in Slice /\ (pass.todo \cup pass.item) \cap PlanOf(pass) = {}
      BY <1>2, <2>2 DEF PassFits, Slicing, PassState
    <2>4. /\ c \in PassState /\ c.pc = "drop" /\ c.svc = pass.svc /\ c.pods = pass.pods
          /\ c.todo = pass.todo \ {t} /\ c.item = {t}
      BY <2>1, <2>2, <2>3 DEF PassState
    <2>5. PlanOf(c) = PlanOf(pass) /\ Alive(c, svc) = Alive(pass, svc)
      BY <2>4 DEF PlanOf, Alive
    <2>6. Slicing(c, PlanOf(c))
      BY <1>2, <2>2, <2>3, <2>4, <2>5 DEF PassFits, Slicing
    <2>7. PassFits(policy, c, PlanOf(c), svc, slices, fit, events)
      BY <1>2, <2>2, <2>3, <2>4, <2>5, <2>6 DEF PassFits
    <2> QED BY <1>0, <1>2, <2>1, <2>4, <2>7, PassNow, PassMoves
  <1> QED BY <1>1, <1>2 DEF CheckCollect

\* Slices that go leave the rest in order.
LEMMA SlicesStay ==
    ASSUME NEW T, NEW U, SlicesTyped(T), U \subseteq T
    PROVE  SlicesTyped(U) /\ \A F : Earned(T, F) => Earned(U, F)
BY DEF SlicesTyped, Earned

LEMMA DropStep ==
    ASSUME TInv, Drop
    PROVE  TInv'
  <1>1. PICK c, T : c = [pass EXCEPT !.pc = "collect", !.item = {}] /\ T = slices \ pass.item
    OBVIOUS
  <1>2. /\ pass \in PassState /\ pass.pc = "drop"
        /\ PassFits(policy, pass, PlanOf(pass), svc, slices, fit, events)
    BY PassNow DEF Drop
  <1>3. (pass.todo \cup pass.item) \cap PlanOf(pass) = {}
    BY <1>2 DEF PassFits, Slicing
  <1>4. /\ c \in PassState /\ c.pc = "collect" /\ c.svc = pass.svc /\ c.pods = pass.pods
        /\ c.todo = pass.todo /\ c.item = {}
    BY <1>1, <1>2 DEF PassState
  <1>5. PlanOf(c) = PlanOf(pass) /\ Alive(c, svc) = Alive(pass, svc)
    BY <1>4 DEF PlanOf, Alive
  <1>6. Slicing(c, PlanOf(c))
    BY <1>2, <1>3, <1>4, <1>5 DEF PassFits, Slicing
  <1>7. Alive(c, svc) # {} => PlanOf(c) \ (c.todo \cup c.item) \subseteq T
    BY <1>1, <1>2, <1>3, <1>4, <1>5 DEF PassFits
  <1>8. PassFits(policy, c, PlanOf(c), svc, T, fit, events)
    BY <1>2, <1>4, <1>5, <1>6, <1>7 DEF PassFits
  <1>9. slices' = T /\ pass' = c
    BY <1>1 DEF Drop
  <1>10. SlicesTyped(T) /\ Earned(T, fit)
    <2>1. T \subseteq slices /\ SlicesTyped(slices) /\ Earned(slices, fit)
      BY <1>1, PassNow
    <2> QED BY <2>1, SlicesStay
  <1> QED BY <1>4, <1>8, <1>9, <1>10, PassNow, PassMoves DEF Drop

\* The slices after a write of slice t over what has its name.
LEMMA PutSlices ==
    ASSUME NEW T, NEW F, NEW t \in Slice, NEW now, now = {x \in T : SameName(t, x)},
           SlicesTyped(T), Earned(T, F), Earned({t}, F), Cardinality(t.eps) <= SliceSize
    PROVE  SlicesTyped((T \ now) \cup {t}) /\ Earned((T \ now) \cup {t}, F)
BY DEF SlicesTyped, Earned, SameName

LEMMA PutStep ==
    ASSUME TInv, Put
    PROVE  TInv'
  <1>1. /\ pass \in PassState /\ pass.pc = "put" /\ SlicesTyped(slices) /\ Earned(slices, fit)
        /\ PassFits(policy, pass, PlanOf(pass), svc, slices, fit, events)
        /\ policy \in Policies /\ The(pass.svc) \in Service /\ pass.svc # {}
        /\ events \in Int /\ events \in 0..MaxEvents
    BY PassNow DEF Put
  <1>2. PICK t : t \in Slice /\ pass.item = {t}
    BY <1>1 DEF PassFits, Slicing
  <1>3. PICK now : now = {x \in slices : SameName(t, x)}
    OBVIOUS
  <1>4. PICK after : after = (slices \ now) \cup {t}
    OBVIOUS
  <1>5. The(pass.item) = t
    BY <1>2 DEF The
  <1>6. PICK c : c = Onward(pass)
    OBVIOUS
  <1>7. /\ UNCHANGED <<policy, svc, pod, cidr, fit, proxy, kernel>>
        /\ \/ slices' = after /\ pass' = c /\ UNCHANGED events
           \/ slices' \in {slices, after} /\ pass' = NoPass /\ Spend
           \/ slices' = slices /\ pass' = NoPass /\ UNCHANGED events
    BY <1>3, <1>4, <1>5, <1>6 DEF Put
  <1>8. /\ t \in PlanOf(pass) /\ pass.todo \subseteq PlanOf(pass)
        /\ Earned({t}, fit)
    BY <1>1, <1>2 DEF PassFits, Slicing
  <1>9. /\ \A d \in PlanOf(pass) : Cardinality(d.eps) <= SliceSize
        /\ \A d \in PlanOf(pass) : SameName(t, d) => d = t
    <2>1. pass.pods \in [Pods -> PodState]
      BY <1>1 DEF PassState
    <2> QED BY <1>1, <1>8, <2>1, PlannedSlices DEF PlanOf
  <1>10. SlicesTyped(after) /\ Earned(after, fit)
    BY <1>1, <1>2, <1>3, <1>4, <1>8, <1>9, PutSlices
  <1>11. events' \in 0..MaxEvents /\ events <= events'
    BY <1>1, <1>7, TrafficAssumption DEF Spend
  <1>12. CASE pass' = c /\ slices' = after /\ UNCHANGED events
    <2>1. Alive(pass, svc) # {} => PlanOf(pass) \ pass.todo \subseteq after
      BY <1>1, <1>2, <1>3, <1>4, <1>9 DEF PassFits
    <2>2. /\ pass.pc \in {"slices", "put"} /\ Sole(pass.svc, Service)
          /\ \A s \in pass.svc : s.uid <= events /\ \A x \in svc : x.uid = s.uid => x.sel = s.sel
          /\ \A s \in Alive(pass, svc) : \A p \in s.sel :
                Serves(policy, pass.pods[p]) => <<s.uid, p>> \in fit
      BY <1>1 DEF PassFits, Slicing
    <2>3. c \in PassState /\ PassFits(policy, c, PlanOf(c), svc, after, fit, events)
      BY <1>1, <1>6, <1>8, <2>1, <2>2, OnwardFits
    <2> QED BY <1>7, <1>10, <1>11, <1>12, <2>3, PassMoves
  <1>13. CASE pass' = NoPass /\ slices' \in {slices, after}
    <2>1. PICK d : d = NoPass
      OBVIOUS
    <2>2. d \in PassState /\ PassFits(policy, d, PlanOf(d), svc, slices', fit, events')
      BY <2>1, NoPassFits
    <2>3. SlicesTyped(slices') /\ Earned(slices', fit)
      BY <1>1, <1>10, <1>13
    <2> QED BY <1>7, <1>11, <1>13, <2>1, <2>2, <2>3, PassMoves
  <1> QED BY <1>7, <1>12, <1>13

-----------------------------------------------------------------------------
(* The steps of the others.                                                *)

\* The pass and the proxy go on when users, Pods and the collector move.
LEMMA OthersMove ==
    ASSUME TInv, UNCHANGED <<policy, pass, proxy, kernel>>, TTyped', fit \subseteq fit',
           events <= events', svc' \subseteq Service,
           \A x \in svc' : x.uid <= events' /\ (x.uid > events \/ \E y \in svc : y.uid = x.uid /\ y.sel = x.sel),
           Earned(slices', fit'), Fit(svc, pod)' \subseteq fit',
           Alive(pass, svc') # {} => PlanOf(pass) \cap slices \subseteq slices'
    PROVE  TInv'
  <1>1. PICK c : c = pass
    OBVIOUS
  <1>2. /\ events \in Int /\ c.svc \subseteq Service
        /\ PassFits(policy, c, PlanOf(c), svc, slices, fit, events)
    BY <1>1, PassNow DEF PassState
  <1>3. events' \in Int
    BY TrafficAssumption DEF TTyped
  <1>4. PassFits(policy, c, PlanOf(c), svc', slices', fit', events')
    BY <1>1, <1>2, <1>3, PassStays
  <1>5. PassFits(policy, pass, PlanOf(pass), svc, slices, fit, events)'
    BY <1>1, <1>4, NextPlan DEF PassFits, Slicing, Earned, Alive, Serves, Sole
  <1>6. World'
    BY RightStays DEF TInv, World, Earned, Right
  <1>7. ProxyFits(policy, proxy, fit)'
    <2>1. ProxyFits(policy, proxy, fit')
      BY ProxyStays DEF TInv
    <2> QED BY <2>1 DEF ProxyFits, Earned, Right
  <1> QED BY <1>5, <1>6, <1>7 DEF TInv

LEMMA CollectorStep ==
    ASSUME TInv, endpoint_gc_once
    PROVE  TInv'
  <1>1. PICK t \in slices : ~OwnerLives(t) /\ slices' = slices \ {t}
    BY DEF endpoint_gc_once
  <1>2. SlicesTyped(slices') /\ Earned(slices', fit)
    BY <1>1, PassNow, SlicesStay
  <1>3. TTyped'
    BY <1>2, PassNow DEF TInv, TTyped, endpoint_gc_once, SlicesTyped, SameName
  <1>4. ASSUME Alive(pass, svc) # {}, NEW d \in PlanOf(pass) \cap slices
        PROVE  d \in slices'
    <2>1. pass.pc # "idle"
      BY <1>4 DEF TInv, PassFits, Slicing, Sole, Alive
    <2>2. /\ The(pass.svc) \in Service /\ pass.pods \in [Pods -> PodState] /\ policy \in Policies
          /\ \E x \in svc : x.uid = The(pass.svc).uid
      BY <1>4, <2>1, PassNow DEF PassState, Alive
    <2>3. d.owner = The(pass.svc).uid
      BY <1>4, <2>2, PlannedSlices DEF PlanOf
    <2> QED BY <1>1, <1>4, <2>2, <2>3 DEF OwnerLives
  <1>5. Fit(svc, pod)' \subseteq fit'
    BY DEF TInv, World, endpoint_gc_once, Fit, FitNow
  <1> QED BY <1>2, <1>3, <1>4, <1>5, PassNow, OthersMove DEF endpoint_gc_once, TInv, World

\* The Service is gone, edited or another one.
Follows(S2, S, n, n2) ==
    /\ Sole(S2, Service) /\ S2 \subseteq Service
    /\ \A x \in S2 : x.uid <= n2 /\ (x.uid > n \/ \E y \in S : y.uid = x.uid /\ y.sel = x.sel)

LEMMA OneFollows ==
    ASSUME NEW x \in Service, NEW S, NEW n, NEW n2, x.uid <= n2,
           x.uid > n \/ \E y \in S : y.uid = x.uid /\ y.sel = x.sel
    PROVE  Follows({x}, S, n, n2)
BY DEF Follows, Sole

LEMMA LoadBalancerStep ==
    ASSUME TInv, servicelb_once
    PROVE  TInv'
  <1>1. /\ UNCHANGED <<policy, pod, slices, cidr, fit, pass, proxy, kernel, events>>
        /\ svc' = {[s EXCEPT !.ingress = TRUE] : s \in svc}
    BY DEF servicelb_once
  <1>2. svc = {} \/ \E x \in Service : svc = {x}
    BY PassNow DEF Sole
  <1>3. Follows(svc', svc, events, events)
    <2>1. CASE svc = {}
      BY <1>1, <2>1 DEF Follows, Sole
    <2>2. ASSUME NEW x \in Service, svc = {x}
          PROVE  Follows(svc', svc, events, events)
      <3>1. PICK y : y = [x EXCEPT !.ingress = TRUE]
        OBVIOUS
      <3>2. y \in Service /\ y.uid = x.uid /\ y.sel = x.sel
        BY <2>2, <3>1 DEF Service
      <3>3. svc' = {y} /\ x \in svc
        BY <1>1, <2>2, <3>1
      <3>4. y.uid <= events
        BY <3>2, <3>3 DEF TInv, World
      <3> QED BY <3>2, <3>3, <3>4, OneFollows
    <2> QED BY <1>2, <2>1, <2>2
  <1>4. Fit(svc, pod)' \subseteq fit'
    <2>1. \A s \in svc' : \E y \in svc : y.uid = s.uid /\ y.sel = s.sel
      <3>1. \A x \in svc' : x \in Service /\ x.uid <= events
        BY <1>3 DEF Follows
      <3>2. events \in Int /\ \A x \in Service : x.uid \in Int
        BY PassNow, TrafficAssumption DEF Service, Uids
      <3> QED BY <1>3, <3>1, <3>2 DEF Follows
    <2> QED BY <1>1, <2>1 DEF Fit, FitNow, TInv, World
  <1>5. TTyped'
    BY <1>1, <1>3 DEF TInv, TTyped, SlicesTyped, SameName, Follows
  <1>6. Earned(slices', fit') /\ events <= events' /\ fit \subseteq fit'
    BY <1>1, PassNow
  <1> QED BY <1>1, <1>3, <1>4, <1>5, <1>6, OthersMove DEF Follows

LEMMA PodMovesStep ==
    ASSUME TInv, PodMoves
    PROVE  TInv'
  <1>1. /\ UNCHANGED <<policy, svc, slices, cidr, pass, proxy, kernel>> /\ events' = events + 1
        /\ events < MaxEvents /\ fit' = fit \cup Fit(svc, pod')
    BY DEF PodMoves, Spend
  <1>2. pod' \in [Pods -> PodState]
    BY PassNow DEF PodMoves
  <1>3. events' \in 0..MaxEvents /\ events <= events' /\ events \in Int
    BY <1>1, PassNow, TrafficAssumption
  <1>4. TTyped'
    BY <1>1, <1>2, <1>3 DEF TInv, TTyped, SlicesTyped, SameName
  <1>5. Fit(svc, pod)' \subseteq fit'
    <2>1. PICK S, P : S = svc /\ P = pod'
      OBVIOUS
    <2> QED BY <1>1, <2>1, FitGrows
  <1>6. Earned(slices', fit')
    BY <1>1, PassNow, EarnedStays
  <1>7. \A x \in svc' : x.uid <= events'
    <2>1. \A x \in svc : x.uid \in Int /\ x.uid <= events
      BY PassNow, TrafficAssumption DEF TInv, World, Service, Uids
    <2> QED BY <1>1, <1>3, <2>1
  <1> QED BY <1>1, <1>3, <1>4, <1>5, <1>6, <1>7, PassNow, OthersMove

LEMMA UserEditsStep ==
    ASSUME TInv, UserEdits
    PROVE  TInv'
  <1>1. /\ UNCHANGED <<policy, pod, slices, cidr, pass, proxy, kernel>> /\ events' = events + 1
        /\ events < MaxEvents /\ fit' = fit \cup Fit(svc', pod)
    BY DEF UserEdits, Spend
  <1>2. events' \in 0..MaxEvents /\ events <= events' /\ events \in Int /\ events' \in Uids
    BY <1>1, PassNow, TrafficAssumption DEF Uids
  <1>3. \A x \in svc : x.uid \in Int /\ x.uid <= events
    BY PassNow, TrafficAssumption DEF TInv, World, Service, Uids
  <1>4. Follows(svc', svc, events, events')
    <2>1. ASSUME NEW s \in svc, NEW port \in Ports, svc' = {[s EXCEPT !.port = port]}
          PROVE  Follows(svc', svc, events, events')
      <3>1. PICK x : x = [s EXCEPT !.port = port]
        OBVIOUS
      <3>2. s \in Service
        BY PassNow
      <3>3. x \in Service /\ x.uid = s.uid /\ x.sel = s.sel
        BY <3>1, <3>2 DEF Service
      <3>4. x.uid <= events'
        BY <1>1, <1>2, <1>3, <3>3
      <3>5. svc' = {x}
        BY <2>1, <3>1
      <3> QED BY <3>3, <3>4, <3>5, OneFollows
    <2>2. CASE svc' = {}
      BY <2>2 DEF Follows, Sole
    <2>3. ASSUME NEW r \in Remade,
                 svc' = {[uid |-> events + 1, port |-> r.port, sel |-> r.sel, ingress |-> FALSE]}
          PROVE  Follows(svc', svc, events, events')
      <3>1. PICK x : x = [uid |-> events + 1, port |-> r.port, sel |-> r.sel, ingress |-> FALSE]
        OBVIOUS
      <3>2. x \in Service /\ x.uid = events + 1
        BY <1>1, <1>2, <3>1, TrafficAssumption DEF Service
      <3>3. x.uid <= events' /\ x.uid > events
        BY <1>1, <1>2, <3>2
      <3> QED BY <2>3, <3>1, <3>2, <3>3, OneFollows
    <2> QED BY <2>1, <2>2, <2>3 DEF UserEdits
  <1>5. TTyped'
    BY <1>1, <1>2, <1>4 DEF TInv, TTyped, SlicesTyped, SameName, Follows
  <1>6. Fit(svc, pod)' \subseteq fit'
    <2>1. PICK S, P : S = svc' /\ P = pod
      OBVIOUS
    <2> QED BY <1>1, <2>1, FitGrows
  <1>7. Earned(slices', fit')
    BY <1>1, PassNow, EarnedStays
  <1> QED BY <1>1, <1>2, <1>4, <1>5, <1>6, <1>7, OthersMove DEF Follows

\* The proxy, its table and the node's Pod CIDR move by themselves.
LEMMA NodeMoves ==
    ASSUME TInv, UNCHANGED <<policy, svc, pod, slices, fit, pass>>, cidr' \in BOOLEAN,
           events' \in 0..MaxEvents, events <= events',
           NEW y \in ProxyState, y = proxy', ProxyFits(policy, y, fit),
           Sole(kernel', Rules), \A K \in kernel' : Right(policy, K, fit)
    PROVE  TInv'
  <1>1. PICK c : c = pass
    OBVIOUS
  <1>2. events \in Int /\ events' \in Int /\ \A x \in svc : x.uid \in Int
    BY PassNow, TrafficAssumption DEF Service, Uids
  <1>3. TTyped'
    BY DEF TInv, TTyped, SlicesTyped, SameName
  <1>4. World'
    <2>1. \A x \in svc : x.uid <= events'
      BY <1>2 DEF TInv, World
    <2>2. Fit(svc, pod)' \subseteq fit'
      BY DEF TInv, World, Fit, FitNow
    <2> QED BY <2>1, <2>2 DEF TInv, World, Earned, Right
  <1>5. PassFits(policy, pass, PlanOf(pass), svc, slices, fit, events)'
    <2>1. /\ PassFits(policy, c, PlanOf(c), svc, slices, fit, events) /\ c.svc \subseteq Service
          /\ svc \subseteq Service
      BY <1>1, PassNow DEF PassState
    <2>2. PassFits(policy, c, PlanOf(c), svc, slices, fit, events')
      BY <1>2, <2>1, PassStays
    <2> QED BY <1>1, <2>2, NextPlan DEF PassFits, Slicing, Earned, Alive, Serves, Sole
  <1>6. ProxyFits(policy, proxy, fit)'
    BY DEF ProxyFits, Earned, Right
  <1> QED BY <1>3, <1>4, <1>5, <1>6 DEF TInv

\* What there is to say of the proxy's loop in TInv.
LEMMA ProxyNow ==
    ASSUME TInv
    PROVE  /\ proxy \in ProxyState /\ ProxyFits(policy, proxy, fit) /\ policy \in Policies
           /\ Sole(kernel, Rules) /\ \A K \in kernel : Right(policy, K, fit)
           /\ events \in Int /\ events \in 0..MaxEvents /\ cidr \in BOOLEAN
           /\ svc \subseteq Service /\ slices \subseteq Slice /\ Earned(slices, fit)
BY PassNow DEF TInv, TTyped, World, SlicesTyped

\* Rules are of the snapshot's Services, and of slices that are theirs.
LEMMA RenderIsRight ==
    ASSUME NEW S \in SUBSET Service, NEW L \in SUBSET Slice, NEW F, Earned(L, F)
    PROVE  render(S, L) \in Rules /\ Right(policy, render(S, L), F)
  <1>1. ASSUME NEW s \in S, NEW b \in backends(s, L)
        PROVE  b \in Backend /\ <<s.uid, b.pod>> \in F /\ (policy.local => b.pod \in Local)
    <2>1. PICK t \in L : /\ t.owner = s.uid
                         /\ b \in {[pod |-> e.pod, port |-> t.port] : e \in {x \in t.eps : Usable(x)}}
      BY <1>1 DEF backends
    <2>2. PICK e \in t.eps : Usable(e) /\ b = [pod |-> e.pod, port |-> t.port]
      BY <2>1
    <2>3. e \in Endpoint /\ t.port \in Ports
      BY <2>2 DEF Slice
    <2>4. <<t.owner, e.pod>> \in F
      BY <2>2 DEF Earned, Usable
    <2> QED BY <2>1, <2>2, <2>3, <2>4 DEF Backend, Endpoint, Usable
  <1>2. ASSUME NEW r \in render(S, L)
        PROVE  /\ r \in [svc : Uids, backends : SUBSET Backend]
               /\ \A b \in r.backends : <<r.svc, b.pod>> \in F /\ (policy.local => b.pod \in Local)
    <2>1. PICK s \in S : r = [svc |-> s.uid, backends |-> backends(s, L)]
      BY <1>2 DEF render
    <2>2. backends(s, L) \in SUBSET Backend /\ s.uid \in Uids
      BY <1>1, <2>1 DEF Service
    <2> QED BY <1>1, <2>1, <2>2
  <1> QED BY <1>2 DEF Rules, Right

\* What the lists of a snapshot make of the loop.
LEMMA PlanFits ==
    ASSUME NEW p \in ProxyState, NEW F, ProxyFits(policy, p, F)
    PROVE  Plan(p) \in ProxyState /\ ProxyFits(policy, Plan(p), F)
  <1>1. PICK q : q = [p EXCEPT !.got = {}, !.svc = {}, !.slices = {}, !.cidr = FALSE]
    OBVIOUS
  <1>2. /\ q \in ProxyState /\ q.slices = {} /\ q.rules = p.rules
        /\ q.desired = p.desired
    BY <1>1 DEF ProxyState
  <1>3. CASE p.cidr
    <2>1. PICK R : R = render(p.svc, p.slices)
      OBVIOUS
    <2>2. p.svc \in SUBSET Service /\ p.slices \in SUBSET Slice /\ Earned(p.slices, F)
      BY DEF ProxyState, ProxyFits
    <2>3. R \in Rules /\ Right(policy, R, F)
      BY <2>1, <2>2, RenderIsRight
    <2>4. PICK d : d = [q EXCEPT !.pc = "reconcile", !.planned = TRUE, !.rules = R]
      OBVIOUS
    <2>5. /\ d \in ProxyState /\ d.slices = {} /\ d.rules = R
          /\ d.desired = p.desired
      BY <1>2, <2>3, <2>4 DEF ProxyState
    <2>6. Earned(d.slices, F)
      BY <2>5 DEF Earned
    <2>7. ProxyFits(policy, d, F)
      BY <2>3, <2>5, <2>6 DEF ProxyFits
    <2>8. Plan(p) = d
      BY <1>1, <1>3, <2>1, <2>4 DEF Plan
    <2> QED BY <2>5, <2>7, <2>8
  <1>4. CASE ~p.cidr
    <2>1. PICK d : d = [q EXCEPT !.pc = "wait", !.planned = FALSE, !.valid = FALSE, !.ready = FALSE]
      OBVIOUS
    <2>2. /\ d \in ProxyState /\ d.slices = {} /\ d.rules = p.rules
          /\ d.desired = p.desired
      BY <1>2, <2>1 DEF ProxyState
    <2>3. Earned(d.slices, F)
      BY <2>2 DEF Earned
    <2>4. ProxyFits(policy, d, F)
      BY <2>2, <2>3 DEF ProxyFits
    <2>5. Plan(p) = d
      BY <1>1, <1>4, <2>1 DEF Plan
    <2> QED BY <2>2, <2>4, <2>5
  <1> QED BY <1>3, <1>4

LEMMA SnapshotPartStep ==
    ASSUME TInv, SnapshotPart
    PROVE  TInv'
  <1>1. PICK part \in {"svc", "slices"} \ proxy.got :
          LET p == [proxy EXCEPT !.got = @ \cup {part},
                      !.svc = IF part = "svc" THEN svc ELSE @,
                      !.slices = IF part = "slices" THEN slices ELSE @,
                      !.cidr = IF part = "slices" THEN cidr ELSE @] IN
          proxy' = IF p.got = {"svc", "slices"} THEN Plan(p) ELSE p
    BY DEF SnapshotPart
  <1>2. PICK S, L, k : /\ S = IF part = "svc" THEN svc ELSE proxy.svc
                       /\ L = IF part = "slices" THEN slices ELSE proxy.slices
                       /\ k = IF part = "slices" THEN cidr ELSE proxy.cidr
    OBVIOUS
  <1>3. PICK p : p = [proxy EXCEPT !.got = @ \cup {part}, !.svc = S, !.slices = L, !.cidr = k]
    OBVIOUS
  <1>4. proxy \in ProxyState /\ ProxyFits(policy, proxy, fit)
    BY ProxyNow
  <1>5. S \in SUBSET Service /\ L \in SUBSET Slice /\ k \in BOOLEAN /\ Earned(L, fit)
    BY <1>2, <1>4, ProxyNow DEF ProxyState, ProxyFits
  <1>6. /\ p \in ProxyState /\ p.slices = L /\ p.rules = proxy.rules
        /\ p.desired = proxy.desired
    BY <1>3, <1>4, <1>5 DEF ProxyState
  <1>7. ProxyFits(policy, p, fit)
    BY <1>4, <1>5, <1>6 DEF ProxyFits
  <1>8. PICK y : y = IF p.got = {"svc", "slices"} THEN Plan(p) ELSE p
    OBVIOUS
  <1>9. proxy' = y
    BY <1>1, <1>2, <1>3, <1>8
  <1>10. y \in ProxyState /\ ProxyFits(policy, y, fit)
    BY <1>6, <1>7, <1>8, PlanFits
  <1>11. UNCHANGED <<policy, svc, pod, slices, cidr, fit, pass, kernel, events>>
    BY DEF SnapshotPart, proxyOnly, apiVars
  <1> QED BY <1>9, <1>10, <1>11, ProxyNow, NodeMoves

LEMMA SnapshotFailsStep ==
    ASSUME TInv, SnapshotFails
    PROVE  TInv'
  <1>1. PICK y : y = [proxy EXCEPT !.got = {}, !.svc = {}, !.slices = {}, !.cidr = FALSE]
    OBVIOUS
  <1>2. /\ proxy' = y /\ UNCHANGED <<policy, svc, pod, slices, cidr, fit, pass, kernel>>
        /\ events < MaxEvents /\ events' = events + 1
    BY <1>1 DEF SnapshotFails, proxyOnly, apiVars, Spend
  <1>3. proxy \in ProxyState /\ ProxyFits(policy, proxy, fit)
    BY ProxyNow
  <1>4. /\ y \in ProxyState /\ y.slices = {} /\ y.rules = proxy.rules
        /\ y.desired = proxy.desired
    BY <1>1, <1>2, <1>3 DEF ProxyState
  <1>5. ProxyFits(policy, y, fit)
    BY <1>2, <1>3, <1>4 DEF ProxyFits, Earned
  <1>6. events' \in 0..MaxEvents /\ events <= events'
    BY <1>2, ProxyNow, TrafficAssumption
  <1> QED BY <1>2, <1>4, <1>5, <1>6, ProxyNow, NodeMoves

\* A transaction on the table, applied or not.
LEMMA TableMoves ==
    ASSUME TInv, proxyOnly, NEW R \in Rules, Right(policy, R, fit),
           NEW good \in ProxyState, ProxyFits(policy, good, fit),
           NEW bad \in ProxyState, ProxyFits(policy, bad, fit),
           reconcile(R, good, bad)
    PROVE  TInv'
  <1>1. UNCHANGED <<policy, svc, pod, slices, cidr, fit, pass>>
    BY DEF proxyOnly, apiVars
  <1>2. Sole({R}, Rules) /\ \A K \in {R} : Right(policy, K, fit)
    BY DEF Sole
  <1>3. CASE kernel' = {R} /\ proxy' = good /\ UNCHANGED events
    BY <1>1, <1>2, <1>3, ProxyNow, NodeMoves
  <1>4. CASE Spend /\ proxy' = bad /\ kernel' \in {kernel, {R}}
    <2>1. events' \in 0..MaxEvents /\ events <= events'
      BY <1>4, ProxyNow, TrafficAssumption DEF Spend
    <2>2. Sole(kernel', Rules) /\ \A K \in kernel' : Right(policy, K, fit)
      BY <1>2, <1>4, ProxyNow
    <2> QED BY <1>1, <1>4, <2>1, <2>2, ProxyNow, NodeMoves
  <1> QED BY <1>3, <1>4 DEF reconcile

LEMMA ReconcileStep ==
    ASSUME TInv, Reconcile
    PROVE  TInv'
  <1>1. PICK R : R = proxy.rules
    OBVIOUS
  <1>2. /\ proxy \in ProxyState /\ ProxyFits(policy, proxy, fit)
        /\ R \in Rules /\ Right(policy, R, fit)
    BY <1>1, ProxyNow DEF ProxyState, ProxyFits
  <1>3. {} \in Rules /\ Right(policy, {}, fit)
    BY DEF Rules, Right
  <1>4. PICK good : good = [proxy EXCEPT !.pc = "list", !.desired = {R}, !.valid = TRUE,
                              !.ready = TRUE, !.rules = {}]
    OBVIOUS
  <1>5. PICK bad : bad = [proxy EXCEPT !.pc = "wait", !.ready = FALSE, !.rules = {}]
    OBVIOUS
  <1>6. /\ good \in ProxyState /\ good.slices = proxy.slices /\ good.rules = {}
        /\ good.desired = {R}
    BY <1>2, <1>3, <1>4 DEF ProxyState
  <1>7. ProxyFits(policy, good, fit)
    BY <1>2, <1>3, <1>6 DEF ProxyFits
  <1>8. /\ bad \in ProxyState /\ bad.slices = proxy.slices /\ bad.rules = {}
        /\ bad.desired = proxy.desired
    BY <1>2, <1>3, <1>5 DEF ProxyState
  <1>9. ProxyFits(policy, bad, fit)
    BY <1>2, <1>3, <1>8 DEF ProxyFits
  <1>10. reconcile(R, good, bad) /\ proxyOnly
    BY <1>1, <1>4, <1>5 DEF Reconcile
  <1> QED BY <1>2, <1>6, <1>7, <1>8, <1>9, <1>10, TableMoves

LEMMA RepairStep ==
    ASSUME TInv, Repair
    PROVE  TInv'
  <1>1. proxy \in ProxyState /\ ProxyFits(policy, proxy, fit) /\ proxyOnly
    BY ProxyNow DEF Repair
  <1>2. CASE proxy.desired = {}
    <2>1. PICK y : y = [proxy EXCEPT !.pc = "list"]
      OBVIOUS
    <2>2. /\ y \in ProxyState /\ y.slices = proxy.slices /\ y.rules = proxy.rules
          /\ y.desired = proxy.desired
      BY <1>1, <2>1 DEF ProxyState
    <2>3. ProxyFits(policy, y, fit)
      BY <1>1, <2>2 DEF ProxyFits
    <2>4. proxy' = y /\ UNCHANGED <<policy, svc, pod, slices, cidr, fit, pass, kernel, events>>
      BY <1>1, <1>2, <2>1 DEF Repair, proxyOnly, apiVars
    <2> QED BY <2>2, <2>3, <2>4, ProxyNow, NodeMoves
  <1>3. CASE proxy.desired # {}
    <2>1. PICK R : R = The(proxy.desired)
      OBVIOUS
    <2>2. R \in proxy.desired
      BY <1>3, <2>1 DEF The
    <2>3. R \in Rules /\ Right(policy, R, fit)
      BY <1>1, <2>2 DEF ProxyState, ProxyFits
    <2>4. PICK good : good = [proxy EXCEPT !.pc = "list", !.ready = proxy.valid]
      OBVIOUS
    <2>5. PICK bad : bad = [proxy EXCEPT !.pc = "list", !.ready = FALSE]
      OBVIOUS
    <2>6. /\ good \in ProxyState /\ good.slices = proxy.slices
          /\ good.rules = proxy.rules /\ good.desired = proxy.desired
      BY <1>1, <2>4 DEF ProxyState
    <2>7. ProxyFits(policy, good, fit)
      BY <1>1, <1>3, <2>6 DEF ProxyFits
    <2>8. /\ bad \in ProxyState /\ bad.slices = proxy.slices
          /\ bad.rules = proxy.rules /\ bad.desired = proxy.desired
      BY <1>1, <2>5 DEF ProxyState
    <2>9. ProxyFits(policy, bad, fit)
      BY <1>1, <2>8 DEF ProxyFits
    <2>10. reconcile(R, good, bad)
      BY <1>3, <2>1, <2>4, <2>5 DEF Repair
    <2> QED BY <1>1, <2>3, <2>6, <2>7, <2>8, <2>9, <2>10, TableMoves
  <1> QED BY <1>2, <1>3

\* A loop that starts relies on nothing.
LEMMA StartFits ==
    ASSUME NEW a, NEW F
    PROVE  Start \in ProxyState /\ ProxyFits(a, Start, F)
  <1>1. Start.slices = {} /\ Start.rules = {} /\ Start.desired = {}
    BY DEF Start
  <1>2. Start \in ProxyState
    BY DEF Start, ProxyState, Rules
  <1> QED BY <1>1, <1>2 DEF ProxyFits, Earned, Right

LEMMA NodeFailures ==
    ASSUME TInv, CidrChanges \/ AgentRestarts \/ TableLost
    PROVE  TInv'
  <1>1. /\ UNCHANGED <<policy, svc, pod, slices, fit, pass>> /\ Spend
        /\ cidr' = cidr \/ cidr' = ~cidr
        /\ kernel' = kernel \/ kernel' = {}
        /\ proxy' = proxy \/ proxy' = Start
    BY DEF CidrChanges, AgentRestarts, TableLost, apiVars
  <1>2. PICK y : y = proxy'
    OBVIOUS
  <1>3. y \in ProxyState /\ ProxyFits(policy, y, fit)
    BY <1>1, <1>2, ProxyNow, StartFits
  <1>4. Sole(kernel', Rules) /\ \A K \in kernel' : Right(policy, K, fit)
    BY <1>1, ProxyNow DEF Sole
  <1>5. cidr' \in BOOLEAN
    BY <1>1, ProxyNow
  <1>6. events' \in 0..MaxEvents /\ events <= events'
    BY <1>1, ProxyNow, TrafficAssumption DEF Spend
  <1> QED BY <1>1, <1>2, <1>3, <1>4, <1>5, <1>6, NodeMoves

LEMMA ControllersRestartStep ==
    ASSUME TInv, ControllersRestart
    PROVE  TInv'
  <1>1. /\ UNCHANGED <<policy, svc, pod, cidr, fit, proxy, kernel, slices>> /\ Spend
        /\ pass' = NoPass
    BY DEF ControllersRestart, apiVars
  <1>2. PICK c : c = NoPass
    OBVIOUS
  <1>3. c \in PassState /\ PassFits(policy, c, PlanOf(c), svc, slices, fit, events')
    BY <1>2, NoPassFits
  <1>4. events' \in 0..MaxEvents /\ events <= events'
    BY <1>1, ProxyNow, TrafficAssumption DEF Spend
  <1> QED BY <1>1, <1>2, <1>3, <1>4, PassNow, PassMoves

-----------------------------------------------------------------------------
(* The invariant.                                                          *)

LEMMA TrafficStarts == TInit => TInv
  <1> SUFFICES ASSUME TInit PROVE TInv
    OBVIOUS
  <1>1. PICK s, P : /\ s = [uid |-> 0, port |-> The(Ports), sel |-> Pods, ingress |-> TRUE]
                    /\ P = [p \in Pods |-> "ready"]
    OBVIOUS
  <1>0. policy \in Policies
    BY DEF TInit, Policies
  <1>2. /\ policy \in Policies /\ svc = {s} /\ pod = P /\ slices = plan(s, P) /\ pass = NoPass
        /\ proxy = Start /\ kernel = {} /\ cidr = TRUE /\ fit = Fit(svc, pod) /\ events = 0
    BY <1>0, <1>1 DEF TInit
  <1>3. The(Ports) \in Ports
    BY TrafficAssumption DEF The
  <1>4. s \in Service /\ P \in [Pods -> PodState] /\ s.uid = 0 /\ s.sel = Pods
    BY <1>1, <1>3, TrafficAssumption DEF Service, Uids, PodState
  <1>5. SlicesTyped(plan(s, P))
    BY <1>2, <1>4, PlannedSlices DEF SlicesTyped
  <1>6. Earned(plan(s, P), fit)
    <2> SUFFICES ASSUME NEW t \in plan(s, P), NEW e \in t.eps
                 PROVE  <<t.owner, e.pod>> \in fit
      BY DEF Earned
    <2>1. t.owner = s.uid /\ e.pod \in selected(s, P)
      BY <1>2, <1>4, PlannedSlices
    <2>2. e.pod \in Pods /\ e.pod \in s.sel /\ P[e.pod] = "ready"
      BY <1>1, <1>4, <2>1 DEF selected
    <2>3. <<s.uid, e.pod>> \in FitNow(svc, pod)
      BY <1>2, <2>2 DEF FitNow
    <2> QED BY <1>2, <2>1, <2>2, <2>3 DEF Fit
  <1>7. TTyped
    BY <1>2, <1>4, <1>5, NoPassFits, StartFits, TrafficAssumption DEF TTyped, Sole
  <1>8. World
    BY <1>2, <1>4, <1>6 DEF World
  <1> QED BY <1>2, <1>7, <1>8, NoPassFits, StartFits DEF TInv

LEMMA TrafficStep == TInv /\ [TNext]_tvars => TInv'
  <1> SUFFICES ASSUME TInv, [TNext]_tvars PROVE TInv'
    OBVIOUS
  <1>1. CASE UNCHANGED tvars
    <2>1. PICK y : y = proxy
      OBVIOUS
    <2>2. UNCHANGED <<policy, svc, pod, slices, fit, pass, cidr, kernel, events>> /\ proxy' = y
      BY <1>1, <2>1 DEF tvars
    <2> QED BY <2>1, <2>2, ProxyNow, NodeMoves
  <1>2. CASE TNext
    BY <1>2, GetServiceStep, ListPodsStep, ListSlicesStep, CheckPublishStep, PutStep,
       CheckCollectStep, DropStep, CollectorStep, LoadBalancerStep, SnapshotPartStep,
       ReconcileStep, RepairStep, SnapshotFailsStep, PodMovesStep, UserEditsStep,
       NodeFailures, ControllersRestartStep
       DEF TNext, EndpointController, Proxy
  <1> QED BY <1>1, <1>2

LEMMA TrafficInvariance == TSpec => []TInv
  <1> QED BY TrafficStarts, TrafficStep, PTL DEF TSpec

\* Types are kept, and rules only forward traffic for a Service to Pods that were
\* fit to serve that very Service and, under the Local policy, are on the node:
\* for every number of Pods, slice size and number of edits, failures and restarts.
THEOREM RulesAreSoundCorrect == TSpec => []RulesAreSound
  <1>1. TInv => RulesAreSound
    <2> SUFFICES ASSUME TInv PROVE RulesAreSound
      OBVIOUS
    <2>1. ASSUME NEW S, NEW T, Sole(S, T)
          PROVE  Cardinality(S) <= 1
      <3>1. CASE S = {}
        BY <3>1, FS_EmptySet
      <3>2. ASSUME NEW x \in T, S = {x}
            PROVE  Cardinality(S) <= 1
        BY <3>2, FS_Singleton
      <3> QED BY <2>1, <3>1, <3>2 DEF Sole
    <2>2. TTypeOK
      <3>1. Cardinality(svc) <= 1 /\ Cardinality(kernel) <= 1 /\ svc \subseteq Service
        BY <2>1, PassNow, ProxyNow
      <3>2. /\ slices \subseteq Slice /\ \A s \in slices : Cardinality(s.eps) <= SliceSize
            /\ \A s, t \in slices : s.owner = t.owner /\ s.port = t.port /\ s.chunk = t.chunk => s = t
        BY PassNow DEF SlicesTyped, SameName
      <3>3. /\ pass.pc \in {"idle", "pods", "slices", "publish", "put", "collect", "drop"}
            /\ proxy.pc \in {"list", "reconcile", "wait"}
        BY PassNow, ProxyNow DEF PassState, ProxyState
      <3> QED BY <3>1, <3>2, <3>3, PassNow DEF TTypeOK
    <2>3. BackendsBelong
      BY ProxyNow DEF Right, BackendsBelong
    <2> QED BY <2>2, <2>3 DEF RulesAreSound
  <1> QED BY <1>1, TrafficInvariance, PTL

\* The inductive invariant behind ReadyIsEarned: a loop that has not installed
\* the rules of its round is not ready, and what it installed with success may
\* only be claimed again while the newest snapshot made a plan.
Readiness ==
    /\ ReadyIsEarned
    /\ proxy.pc = "reconcile" => proxy.planned
    /\ proxy.pc = "wait" => ~proxy.ready /\ (proxy.valid => proxy.planned)
    /\ \A K, L \in proxy.desired : K = L

LEMMA ReadinessStep ==
    ASSUME TInv, Readiness, [TNext]_tvars
    PROVE  Readiness'
  <1> USE DEF Readiness, ReadyIsEarned
  <1>1. PICK x : x = proxy
    OBVIOUS
  <1>2. x \in ProxyState
    BY <1>1, ProxyNow
  <1>3. CASE UNCHANGED <<proxy, kernel>>
    BY <1>3
  <1>4. CASE SnapshotPart
    <2>0. PICK part \in {"svc", "slices"} \ x.got :
            LET p == [x EXCEPT !.got = @ \cup {part},
                        !.svc = IF part = "svc" THEN svc ELSE @,
                        !.slices = IF part = "slices" THEN slices ELSE @,
                        !.cidr = IF part = "slices" THEN cidr ELSE @] IN
            proxy' = IF p.got = {"svc", "slices"} THEN Plan(p) ELSE p
      BY <1>1, <1>4 DEF SnapshotPart
    <2>1. PICK p : p = [x EXCEPT !.got = @ \cup {part},
                          !.svc = IF part = "svc" THEN svc ELSE @,
                          !.slices = IF part = "slices" THEN slices ELSE @,
                          !.cidr = IF part = "slices" THEN cidr ELSE @]
      OBVIOUS
    <2>2. proxy' \in {Plan(p), p}
      BY <2>0, <2>1
    <2>3. /\ p.pc = x.pc /\ p.desired = x.desired /\ p.valid = x.valid
          /\ p.planned = x.planned /\ p.ready = x.ready
      BY <1>2, <2>1 DEF ProxyState
    <2>4. PICK y : y = Plan(p)
      OBVIOUS
    <2>5. /\ y.desired = p.desired
          /\ \/ y.pc = "reconcile" /\ y.planned /\ y.valid = p.valid /\ y.ready = p.ready
             \/ y.pc = "wait" /\ ~y.valid /\ ~y.ready
      BY <1>2, <2>1, <2>4 DEF Plan, ProxyState
    <2>6. kernel' = kernel /\ x.pc = "list" /\ proxy' \in {y, p}
      BY <1>1, <1>4, <2>2, <2>4 DEF SnapshotPart
    <2> QED BY <1>1, <2>3, <2>5, <2>6
  <1>5. CASE SnapshotFails
    <2>1. PICK y : y = [x EXCEPT !.got = {}, !.svc = {}, !.slices = {}, !.cidr = FALSE]
      OBVIOUS
    <2>2. /\ y.pc = x.pc /\ y.desired = x.desired /\ y.valid = x.valid
          /\ y.planned = x.planned /\ y.ready = x.ready
      BY <1>2, <2>1 DEF ProxyState
    <2>3. kernel' = kernel /\ proxy' = y
      BY <1>1, <1>5, <2>1 DEF SnapshotFails
    <2> QED BY <1>1, <2>2, <2>3
  <1>6. CASE Reconcile
    <2>1. PICK R : R = x.rules
      OBVIOUS
    <2>2. PICK good : good = [x EXCEPT !.pc = "list", !.desired = {R}, !.valid = TRUE,
                                !.ready = TRUE, !.rules = {}]
      OBVIOUS
    <2>3. PICK bad : bad = [x EXCEPT !.pc = "wait", !.ready = FALSE, !.rules = {}]
      OBVIOUS
    <2>4. /\ good.pc = "list" /\ good.desired = {R} /\ good.planned = x.planned
          /\ bad.pc = "wait" /\ ~bad.ready /\ bad.desired = x.desired
          /\ bad.planned = x.planned
      BY <1>2, <2>2, <2>3 DEF ProxyState
    <2>5. x.planned /\ (proxy' = bad \/ (proxy' = good /\ kernel' = {R}))
      BY <1>1, <1>6, <2>1, <2>2, <2>3 DEF Reconcile, reconcile
    <2>6. CASE proxy' = bad
      BY <1>1, <2>4, <2>5, <2>6
    <2>7. CASE proxy' = good /\ kernel' = {R}
      <3>1. proxy'.desired = {R} /\ proxy'.planned /\ proxy'.pc = "list"
        BY <2>4, <2>5, <2>7
      <3> QED BY <2>7, <3>1
    <2> QED BY <2>5, <2>6, <2>7
  <1>7. CASE Repair
    <2>1. PICK R : R = The(x.desired)
      OBVIOUS
    <2>2. PICK good : good = [x EXCEPT !.pc = "list", !.ready = x.valid]
      OBVIOUS
    <2>3. PICK bad : bad = [x EXCEPT !.pc = "list", !.ready = FALSE]
      OBVIOUS
    <2>4. PICK y : y = [x EXCEPT !.pc = "list"]
      OBVIOUS
    <2>5. /\ good.pc = "list" /\ good.desired = x.desired /\ good.planned = x.planned
          /\ good.ready = x.valid
          /\ bad.pc = "list" /\ ~bad.ready /\ bad.desired = x.desired
          /\ y.pc = "list" /\ y.ready = x.ready /\ y.desired = x.desired
      BY <1>2, <2>2, <2>3, <2>4 DEF ProxyState
    <2>6. ~x.ready /\ (x.valid => x.planned)
      BY <1>1, <1>7 DEF Repair
    <2>7. \/ proxy' = y
          \/ proxy' = bad
          \/ proxy' = good /\ kernel' = {R} /\ x.desired # {}
      BY <1>1, <1>7, <2>1, <2>2, <2>3, <2>4 DEF Repair, reconcile
    <2>8. x.desired # {} => x.desired = {R}
      BY <1>1, <2>1 DEF The
    <2> QED BY <1>1, <2>5, <2>6, <2>7, <2>8
  <1>8. CASE CidrChanges \/ AgentRestarts \/ TableLost
    <2>1. /\ kernel' = kernel \/ kernel' = {}
          /\ proxy' = x \/ proxy' = Start
      BY <1>1, <1>8 DEF CidrChanges, AgentRestarts, TableLost
    <2>2. Start.pc = "list" /\ ~Start.ready /\ Start.desired = {}
      BY DEF Start
    <2> QED BY <1>1, <2>1, <2>2
  <1>9. ASSUME \/ EndpointController \/ endpoint_gc_once \/ servicelb_once \/ PodMoves
               \/ UserEdits \/ ControllersRestart \/ UNCHANGED tvars
        PROVE  UNCHANGED <<proxy, kernel>>
    BY <1>9 DEF EndpointController, GetService, ListPods, ListSlices, CheckPublish, Put,
       CheckCollect, Drop, ctlOnly, endpoint_gc_once, servicelb_once, PodMoves, UserEdits,
       ControllersRestart, tvars
  <1> QED BY <1>3, <1>4, <1>5, <1>6, <1>7, <1>8, <1>9 DEF TNext, Proxy

\* While the proxy is ready, the table is the one it last installed with success,
\* unless it was lost since, and the newest whole snapshot made a plan: after any
\* number of refused rules, failed helpers, lost tables and restarts.
THEOREM ReadyIsEarnedCorrect == TSpec => []ReadyIsEarned
  <1>1. TInit => Readiness
    <2>1. Start.pc = "list" /\ ~Start.ready /\ Start.desired = {}
      BY DEF Start
    <2> QED BY <2>1 DEF TInit, Readiness, ReadyIsEarned
  <1>2. TInv /\ Readiness /\ [TNext]_tvars => Readiness'
    BY ReadinessStep
  <1>3. Readiness => ReadyIsEarned
    BY DEF Readiness
  <1> QED BY <1>1, <1>2, <1>3, TrafficInvariance, PTL DEF TSpec

\* While the Pods fit in one slice, no write leaves a gap: an endpoint that the
\* lists of the pass show ready and that some slice of the living Service has
\* ready stays in one (endpoints_once: publish first, then collect; the
\* collector goes by the owner's uid).  With more slices it is false.
THEOREM NoGapCorrect ==
    ASSUME Cardinality(Pods) <= SliceSize
    PROVE  TSpec => NoGap
  <1>1. ASSUME TInv, [TNext]_tvars, slices' # slices,
               NEW s \in pass.svc, OwnerLives([owner |-> s.uid]),
               NEW p \in Serving(slices, s.uid) \ Serving(slices', s.uid),
               p \in selected(s, pass.pods), EndpointOf(p, pass.pods).ready
        PROVE  FALSE
    <2>1. /\ pass.pc # "idle" /\ s = The(pass.svc) /\ s \in Service /\ policy \in Policies
          /\ pass.pods \in [Pods -> PodState] /\ Alive(pass, svc) # {}
          /\ PassFits(policy, pass, PlanOf(pass), svc, slices, fit, events)
      BY <1>1, PassNow DEF OwnerLives, Alive, PassFits, Slicing, Sole, PassState
    <2>2. PICK P : P = pass.pods
      OBVIOUS
    <2>3. \A d \in plan(s, P) : d.owner = s.uid /\ EndpointOf(p, P) \in d.eps
      BY <1>1, <2>1, <2>2, PlannedSlices
    <2>4. EndpointOf(p, P).pod = p
      BY DEF EndpointOf
    <2>5. \A T : T \cap plan(s, P) # {} => p \in Serving(T, s.uid)
      BY <1>1, <2>2, <2>3, <2>4 DEF Serving
    <2>6. plan(s, P) \cap slices' = {}
      BY <1>1, <2>5
    <2>7. PlanOf(pass) = plan(s, P)
      BY <2>1, <2>2 DEF PlanOf
    <2>8. plan(s, P) # {}
      <3>1. PICK S : S = selected(s, P)
        OBVIOUS
      <3>2. PICK k \in Chunks(S) : TRUE
        BY DEF Chunks
      <3> QED BY <3>1, <3>2 DEF plan
    <2>9. CASE Put
      <3>1. PICK t : pass.item = {t} /\ t \in plan(s, P)
        BY <2>1, <2>7, <2>9 DEF PassFits, Slicing, Put
      <3>2. The(pass.item) = t
        BY <3>1 DEF The
      <3>3. t \in slices'
        BY <1>1, <2>9, <3>2 DEF Put
      <3> QED BY <2>6, <3>1, <3>3
    <2>10. CASE Drop
      <3>1. /\ (pass.todo \cup pass.item) \cap plan(s, P) = {}
            /\ plan(s, P) \ (pass.todo \cup pass.item) \subseteq slices
        BY <2>1, <2>7, <2>10 DEF PassFits, Slicing, Drop
      <3>2. slices' = slices \ pass.item
        BY <2>10 DEF Drop
      <3> QED BY <2>6, <2>8, <3>1, <3>2
    <2>11. CASE endpoint_gc_once
      <3>1. PICK t \in slices : ~OwnerLives(t) /\ slices' = slices \ {t}
        BY <2>11 DEF endpoint_gc_once
      <3>2. t.owner # s.uid
        BY <1>1, <3>1 DEF OwnerLives
      <3>3. Serving(slices, s.uid) = Serving(slices', s.uid)
        BY <3>1, <3>2 DEF Serving
      <3> QED BY <1>1, <3>3
    <2>12. slices' = slices \/ Put \/ Drop \/ endpoint_gc_once
      BY <1>1 DEF TNext, tvars, EndpointController, Proxy, GetService, ListPods, ListSlices,
         CheckPublish, CheckCollect, servicelb_once, SnapshotPart, SnapshotFails, Reconcile,
         Repair, PodMoves, UserEdits, CidrChanges, ControllersRestart, AgentRestarts, TableLost,
         ctlOnly, proxyOnly, apiVars
    <2> QED BY <1>1, <2>9, <2>10, <2>11, <2>12
  <1>2. TInv /\ [TNext]_tvars =>
          [slices' # slices =>
             \A s \in {x \in pass.svc : OwnerLives([owner |-> x.uid])} :
             \A p \in Serving(slices, s.uid) \ Serving(slices', s.uid) :
                ~(p \in selected(s, pass.pods) /\ EndpointOf(p, pass.pods).ready)]_tvars
    BY <1>1
  <1> QED BY <1>2, TrafficInvariance, PTL DEF TSpec, NoGap

=============================================================================
