------------------------------ MODULE Traffic ------------------------------
(***************************************************************************)
(* From ready Pods to forwarding rules: the EndpointSlice controller and   *)
(* its collector (h3s-controllers/src/workload/endpoints.rs), the service  *)
(* load balancer (servicelb.rs) and one node's Service proxy (h3s-proxy).  *)
(*                                                                         *)
(* They share the API only.  Every read and write of it is a step, between *)
(* which users change the one Service name, Pods come, become ready and    *)
(* go, writes lose their answers, processes restart and the kernel's table *)
(* is lost.  A revision stands for the content it is the revision of.      *)
(***************************************************************************)
EXTENDS Integers, FiniteSets, FiniteSetsExt

CONSTANTS
    Pods,         \* numbers, in the order of the Pods' uids
    Local,        \* the Pods of the proxy's node
    Ports,        \* the target ports a Service may name
    Remade,       \* the ports and selectors users make the Service again with
    SliceSize,    \* endpoints of one slice (100)
    MaxEvents     \* bound on what users, Pods and failures do

ASSUME TrafficAssumption ==
    /\ Pods \subseteq Nat /\ IsFiniteSet(Pods) /\ Pods # {} /\ Local \subseteq Pods
    /\ Ports # {} /\ Remade \subseteq [port : Ports, sel : SUBSET Pods]
    /\ SliceSize \in Nat \ {0} /\ MaxEvents \in Nat

VARIABLES
    policy,   \* of the Services of this run: publishNotReadyAddresses, Local
    svc,      \* {} or the Service
    pod,      \* pod[p]
    slices,   \* the EndpointSlices of the controller
    pass,      \* the controller's pass in progress
    proxy,    \* the proxy's loop
    kernel,   \* {} or the table h3s_proxy
    cidr,     \* the node has its Pod CIDR
    fit,      \* history: which Pods ever were fit to serve which Service
    events

tvars == <<policy, svc, pod, slices, pass, proxy, kernel, cidr, fit, events>>
apiVars == <<policy, svc, pod, slices, cidr, fit>>

The(S) == CHOOSE x \in S : TRUE

Uids == 0..MaxEvents
Service == [uid : Uids, port : Ports, sel : SUBSET Pods, ingress : BOOLEAN]
PodState == {"gone", "unready", "ready", "terminating", "finished"}
Endpoint == [pod : Pods, ready : BOOLEAN, terminating : BOOLEAN]
Slice == [owner : Uids, port : Ports, chunk : 0..(Cardinality(Pods) - 1) \div SliceSize, eps : SUBSET Endpoint]
Backend == [pod : Pods, port : Ports]
Rules == SUBSET [svc : Uids, backends : SUBSET Backend]

NoPass == [pc |-> "idle", svc |-> {}, pods |-> [p \in Pods |-> "gone"], seen |-> {},
           todo |-> {}, item |-> {}]
Start == [pc |-> "list", got |-> {}, svc |-> {}, slices |-> {}, cidr |-> FALSE,
          rules |-> {}, desired |-> {}, valid |-> FALSE,
          planned |-> FALSE, ready |-> FALSE]

\* Objects have their types, there is one slice of an owner, port and chunk
\* (the slice's name is their digest), and there are no more slices than the
\* Pods need, none of them oversized.
TTypeOK ==
    /\ svc \subseteq Service /\ Cardinality(svc) <= 1
    /\ pod \in [Pods -> PodState]
    /\ slices \subseteq Slice
    /\ \A s, t \in slices : s.owner = t.owner /\ s.port = t.port /\ s.chunk = t.chunk => s = t
    /\ \A s \in slices : Cardinality(s.eps) <= SliceSize
    /\ pass.pc \in {"idle", "pods", "slices", "publish", "put", "collect", "drop"}
    /\ proxy.pc \in {"list", "reconcile", "wait"}
    /\ Cardinality(kernel) <= 1
    /\ events \in 0..MaxEvents

\* The Pods that serve Service s now.
FitNow(S, P) == {<<s.uid, p>> : s \in S, p \in {q \in Pods :
                    P[q] = "ready" \/ (policy.all /\ P[q] \in {"unready", "terminating"})}}
Fit(S, P) == {x \in FitNow(S, P) : \E s \in S : x[2] \in s.sel}

Spend == events < MaxEvents /\ events' = events + 1

-----------------------------------------------------------------------------
(* The plan of a Service's slices                                          *)

selected(s, P) == {p \in s.sel : P[p] \notin {"gone", "finished"}}

EndpointOf(p, P) ==
    [pod |-> p, ready |-> policy.all \/ P[p] = "ready", terminating |-> P[p] = "terminating"]

\* The position of p among the selected, in the order of the uids.
Position(p, S) == Cardinality({q \in S : q < p})
Chunks(S) == IF S = {} THEN {0} ELSE {Position(p, S) \div SliceSize : p \in S}

\* One slice per chunk, and an empty one for a Service without Pods.
plan(s, P) ==
    LET S == selected(s, P) IN
    {[owner |-> s.uid, port |-> s.port, chunk |-> k,
      eps |-> {EndpointOf(p, P) : p \in {q \in S : Position(q, S) \div SliceSize = k}}]
       : k \in Chunks(S)}

\* A cluster that is at work, and a node that joins it.
TInit ==
    /\ \E all, local \in BOOLEAN : ~(all /\ local) /\ policy = [all |-> all, local |-> local]
    /\ svc = {[uid |-> 0, port |-> The(Ports), sel |-> Pods, ingress |-> TRUE]}
    /\ pod = [p \in Pods |-> "ready"]
    /\ slices = UNION {plan(s, pod) : s \in svc} /\ pass = NoPass
    /\ proxy = Start /\ kernel = {} /\ cidr = TRUE
    /\ fit = Fit(svc, pod)
    /\ events = 0

SameName(s, t) == s.owner = t.owner /\ s.port = t.port /\ s.chunk = t.chunk
unchanged == svc # {} /\ svc = pass.svc

-----------------------------------------------------------------------------
(* The EndpointSlice controller                                            *)

ctlOnly == UNCHANGED <<apiVars, proxy, kernel, events>>

GetService ==
    /\ pass.pc = "idle" /\ svc # {}
    /\ pass' = [NoPass EXCEPT !.pc = "pods", !.svc = svc]
    /\ ctlOnly

ListPods ==
    /\ pass.pc = "pods"
    /\ pass' = [pass EXCEPT !.pc = "slices", !.pods = pod]
    /\ ctlOnly

Obsolete(s, P, S) == {t \in S : t.owner = s.uid /\ \A d \in plan(s, P) : ~SameName(t, d)}

\* Fault: obsolete slices go first.
Onward_collecting(c) ==
    IF c.pc = "slices"
    THEN [c EXCEPT !.pc = "collect", !.todo = Obsolete(The(c.svc), c.pods, c.seen)]
    ELSE [c EXCEPT !.pc = IF c.todo = {} THEN "collect" ELSE "publish", !.item = {}]

\* Replacements are published first, then what is obsolete is collected.
Onward(c) ==
    IF c.todo # {} THEN [c EXCEPT !.pc = "publish", !.item = {}]
    ELSE [c EXCEPT !.pc = "collect", !.item = {},
            !.todo = Obsolete(The(c.svc), c.pods, c.seen)]

\* Slices of the Service that are already as desired need nothing.
ListSlices ==
    /\ pass.pc = "slices"
    /\ pass' = Onward([pass EXCEPT !.seen = slices,
                        !.todo = plan(The(pass.svc), pass.pods) \ slices])
    /\ ctlOnly

\* Before each write the Service is read again.
CheckPublish ==
    /\ pass.pc = "publish"
    /\ \E s \in pass.todo :
         /\ \A t \in pass.todo : s.chunk <= t.chunk
         /\ pass' = IF unchanged
                   THEN [pass EXCEPT !.pc = "put", !.todo = @ \ {s}, !.item = {s}] ELSE NoPass
    /\ ctlOnly

\* A replacement is of the slice as listed, a creation of a free name; every
\* other answer ends the pass.
Put ==
    /\ pass.pc = "put"
    /\ LET s == The(pass.item)
           old == {t \in pass.seen : SameName(s, t)}
           now == {t \in slices : SameName(s, t)}
           after == IF old = now THEN (slices \ now) \cup {s} ELSE slices IN
       \/ /\ slices' = after
          /\ pass' = IF old = now THEN Onward(pass) ELSE NoPass
          /\ UNCHANGED events
       \/ Spend /\ slices' \in {slices, after} /\ pass' = NoPass
    /\ UNCHANGED <<policy, svc, pod, cidr, fit, proxy, kernel>>

CheckCollect ==
    /\ pass.pc = "collect"
    /\ IF pass.todo = {} THEN pass' = NoPass
       ELSE \E s \in pass.todo :
              pass' = IF unchanged
                     THEN [pass EXCEPT !.pc = "drop", !.todo = @ \ {s}, !.item = {s}]
                     ELSE NoPass
    /\ ctlOnly

\* Deletes the slice as it was seen; a slice that changed or is gone is left.
Drop ==
    /\ pass.pc = "drop"
    /\ slices' = slices \ pass.item
    /\ pass' = [pass EXCEPT !.pc = "collect", !.item = {}]
    /\ UNCHANGED <<policy, svc, pod, cidr, fit, proxy, kernel, events>>

-----------------------------------------------------------------------------
(* The collector of slices whose Service is gone                           *)
\* Fault: slices are collected by the owner's name.
OwnerLives_byname(s) == svc # {}

OwnerLives(s) == \E x \in svc : x.uid = s.owner

\* A Service that is gone stays gone (no uid returns) and a slice is deleted only
\* as it was listed, so the listing, the look for the owner and the deletion have
\* the effect of one step at the time of the deletion.
endpoint_gc_once ==
    /\ \E s \in slices : ~OwnerLives(s) /\ slices' = slices \ {s}
    /\ UNCHANGED <<policy, svc, pod, cidr, fit, pass, proxy, kernel, events>>

-----------------------------------------------------------------------------
(* The service load balancer                                               *)

needs_address == {s \in svc : ~s.ingress}

\* The patch is of the Service as it was listed, so the list and the patch are
\* one step; a conflict is a pass that did nothing.
servicelb_once ==
    /\ needs_address # {}
    /\ svc' = {[s EXCEPT !.ingress = TRUE] : s \in svc}
    /\ UNCHANGED <<policy, pod, slices, cidr, fit, pass, proxy, kernel, events>>

-----------------------------------------------------------------------------
(* The node's Service proxy                                                *)

proxyOnly == UNCHANGED <<apiVars, pass>>

\* Endpoints that are not ready, that terminate or, under the Local policy,
\* are elsewhere get no traffic; nor does another Service's slice.
Usable(e) == e.ready /\ ~e.terminating /\ (policy.local => e.pod \in Local)
\* Fault: slices are matched by the Service's name alone.
backends_byname(s, S) ==
    UNION {{[pod |-> e.pod, port |-> t.port] : e \in {x \in t.eps : Usable(x)}} : t \in S}

backends(s, S) ==
    UNION {{[pod |-> e.pod, port |-> t.port] : e \in {x \in t.eps : Usable(x)}}
             : t \in {y \in S : y.owner = s.uid}}
render(S, L) == {[svc |-> s.uid, backends |-> backends(s, L)] : s \in S}

\* Without the node's Pod CIDR there is no plan.
Plan(p) ==
    LET q == [p EXCEPT !.got = {}, !.svc = {}, !.slices = {}, !.cidr = FALSE] IN
    IF p.cidr
    THEN [q EXCEPT !.pc = "reconcile", !.planned = TRUE, !.rules = render(p.svc, p.slices)]
    ELSE [q EXCEPT !.pc = "wait", !.planned = FALSE, !.valid = FALSE, !.ready = FALSE]

\* The lists of a snapshot are fetched concurrently; the last makes a plan.
SnapshotPart ==
    /\ proxy.pc = "list"
    /\ \E part \in {"svc", "slices"} \ proxy.got :
         LET p == [proxy EXCEPT !.got = @ \cup {part},
                      !.svc = IF part = "svc" THEN svc ELSE @,
                      !.slices = IF part = "slices" THEN slices ELSE @,
                      !.cidr = IF part = "slices" THEN cidr ELSE @] IN
         proxy' = IF p.got = {"svc", "slices"} THEN Plan(p) ELSE p
    /\ proxyOnly /\ UNCHANGED <<kernel, events>>

\* No partial snapshot is used: an error keeps the rules and starts over.
SnapshotFails ==
    /\ proxy.pc = "list" /\ Spend
    /\ proxy' = [proxy EXCEPT !.got = {}, !.svc = {}, !.slices = {}, !.cidr = FALSE]
    /\ proxyOnly /\ UNCHANGED kernel

\* One transaction replaces the table, unless it is as it was applied; a
\* failed helper may have run it.
reconcile(rules, good, bad) ==
    \/ /\ kernel' = {rules}
       /\ proxy' = good
       /\ UNCHANGED events
    \/ /\ Spend
       /\ proxy' = bad
       /\ kernel' \in {kernel, {rules}}

\* Fault: the rules are refused and the proxy stays as ready as it was.
Reconcile_asbefore ==
    /\ proxy.pc = "reconcile"
    /\ reconcile(proxy.rules,
         [proxy EXCEPT !.pc = "list", !.desired = {proxy.rules}, !.valid = TRUE,
            !.ready = TRUE, !.rules = {}],
         [proxy EXCEPT !.pc = "wait", !.rules = {}])
    /\ proxyOnly

Reconcile ==
    /\ proxy.pc = "reconcile"
    /\ reconcile(proxy.rules,
         [proxy EXCEPT !.pc = "list", !.desired = {proxy.rules}, !.valid = TRUE,
            !.ready = TRUE, !.rules = {}],
         [proxy EXCEPT !.pc = "wait", !.ready = FALSE, !.rules = {}])
    /\ proxyOnly

\* A loop that installed nothing looks at the table it installed last.
Repair ==
    /\ proxy.pc = "wait"
    /\ IF proxy.desired = {}
       THEN proxy' = [proxy EXCEPT !.pc = "list"] /\ UNCHANGED <<kernel, events>>
       ELSE reconcile(The(proxy.desired),
              [proxy EXCEPT !.pc = "list", !.ready = proxy.valid],
              [proxy EXCEPT !.pc = "list", !.ready = FALSE])
    /\ proxyOnly

-----------------------------------------------------------------------------
(* Pods, users and failures                                                *)

Becomes(st) ==
    CASE st = "gone" -> {"unready"}
      [] st = "unready" -> {"ready", "terminating", "finished", "gone"}
      [] st = "ready" -> {"unready", "terminating", "finished", "gone"}
      [] OTHER -> {"gone"}

PodMoves ==
    /\ Spend
    /\ \E p \in Pods, st \in PodState :
         st \in Becomes(pod[p]) /\ pod' = [pod EXCEPT ![p] = st]
    /\ fit' = fit \cup Fit(svc, pod')
    /\ UNCHANGED <<policy, svc, slices, cidr, pass, proxy, kernel>>

\* A Service is edited, deleted, or made again under its name.
UserEdits ==
    /\ Spend
    /\ \/ \E s \in svc, port \in Ports : port # s.port /\ svc' = {[s EXCEPT !.port = port]}
       \/ svc # {} /\ svc' = {}
       \/ \E r \in Remade :
            svc' = {[uid |-> events + 1, port |-> r.port, sel |-> r.sel, ingress |-> FALSE]}
    /\ fit' = fit \cup Fit(svc', pod)
    /\ UNCHANGED <<policy, pod, slices, cidr, pass, proxy, kernel>>

CidrChanges ==
    /\ Spend /\ cidr' = ~cidr
    /\ UNCHANGED <<policy, svc, pod, slices, fit, pass, proxy, kernel>>

\* The server restarts, or a pass fails or times out.
ControllersRestart ==
    /\ Spend /\ pass' = NoPass
    /\ UNCHANGED <<apiVars, proxy, kernel>>

\* The agent restarts, and with the node the table goes as well.
AgentRestarts ==
    /\ Spend /\ proxy' = Start /\ kernel' \in {kernel, {}}
    /\ UNCHANGED <<apiVars, pass>>

TableLost ==
    /\ Spend /\ kernel' = {}
    /\ UNCHANGED <<apiVars, pass, proxy>>

EndpointController == GetService \/ ListPods \/ ListSlices \/ CheckPublish \/ Put
              \/ CheckCollect \/ Drop
Proxy == SnapshotPart \/ Reconcile \/ Repair

TNext == EndpointController \/ endpoint_gc_once \/ servicelb_once \/ Proxy \/ SnapshotFails \/ PodMoves
        \/ UserEdits \/ CidrChanges \/ ControllersRestart \/ AgentRestarts \/ TableLost

TSpec == TInit /\ [][TNext]_tvars

\* Every loop runs on a timer; nothing obliges a failure.
TFairSpec == /\ TSpec /\ WF_tvars(EndpointController) /\ WF_tvars(endpoint_gc_once)
            /\ WF_tvars(servicelb_once) /\ WF_tvars(Proxy)

-----------------------------------------------------------------------------
\* Traffic for a Service only reaches Pods that were fit to serve that very
\* Service: slices of an older Service of the name, Pods that were never
\* ready and, under Local, Pods elsewhere never become backends.
BackendsBelong ==
    \A rules \in kernel : \A r \in rules : \A b \in r.backends :
        <<r.svc, b.pod>> \in fit /\ (policy.local => b.pod \in Local)

\* The rules of a node forward where they should.
RulesAreSound == TTypeOK /\ BackendsBelong

\* While the proxy is ready, the table is the one it last installed with
\* success, unless the table was lost since, and the newest whole snapshot made
\* a plan: not after a helper that failed and had run its transaction all the
\* same, nor after the repair of older rules behind a plan that failed.
ReadyIsEarned ==
    proxy.ready => /\ proxy.desired # {} /\ kernel \in {proxy.desired, {}}
                   /\ proxy.planned

\* It is not said that these are the rules of the newest plan.  When nft has
\* refused those, the loop goes on to repair the older ones and is ready again
\* (lib.rs:124-127, 150-155), where docs/service-networking.md:41 has the node
\* unready: a round whose rules were refused does end ready.
RefusedIsUnready == [][proxy.pc = "wait" /\ proxy.planned => ~proxy'.ready]_tvars

\* While a Service lives, no write drops an endpoint that the lists of the
\* controller's pass show ready: the replacements of a port group are published
\* before the old one is collected, and the collector takes none of them.
Serving(S, u) == {e.pod : e \in UNION {{x \in s.eps : x.ready} : s \in {t \in S : t.owner = u}}}
NoGap ==
    [][slices' # slices =>
         \A s \in {x \in pass.svc : OwnerLives([owner |-> x.uid])} :
         \A p \in Serving(slices, s.uid) \ Serving(slices', s.uid) :
            ~(p \in selected(s, pass.pods) /\ EndpointOf(p, pass.pods).ready)]_tvars

\* When changes end, the kernel forwards the Service to exactly its ready
\* Pods at its port, its slices are the planned ones, those of former Services
\* are gone, and the load balancer's address is published.
Converges ==
    <>[](/\ slices = UNION {plan(s, pod) : s \in svc}
         /\ \A s \in svc : s.ingress
         /\ cidr => kernel = {{[svc |-> s.uid, backends |->
                {[pod |-> p, port |-> s.port] : p \in {q \in selected(s, pod) :
                    pod[q] # "terminating" /\ Usable(EndpointOf(q, pod))}}] : s \in svc}}
         /\ proxy.ready = cidr)
=============================================================================
