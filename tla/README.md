# A TLA+ verification of h3s

h3s is a single-binary Kubernetes-like system: an API server over an MVCC
registry, controllers and a scheduler that are clients of that API, and agents
that run Pods through a CRI runtime and forward Services in the kernel. This
directory models the parts where the order of steps decides whether the system is
correct, checks them with TLC on small instances, and proves the main invariants
with TLAPS for every instance.

Source paths below are relative to `src/`. `PROJECT.json` maps each definition
to the lines it models and lists the hazards each property is aimed at.

## 1. Inventory

| Component | State | Operations | Interacts with |
|---|---|---|---|
| Storage trait (`h3s-storage/src/lib.rs`) | one revision counter, one compaction floor, versions of keyed objects | get, list, watch, create, update, delete, compact, maintain, leases | every API handler |
| SQLite store (`sqlite.rs`) | `registry_versions`, `registry_meta`, `registry_leases`; a mutex per connection | transactions in `run` closures; streams that poll | one process, one connection (registry lock) |
| PostgreSQL store (`postgres.rs`) | the same tables, shared by servers | transactions at READ COMMITTED behind a per-process client mutex | several servers |
| Geode custody (`geode.rs`) | vault file, entry counter | seal, open | both stores, for Secrets |
| Durability (`backup.rs`, `h3s/src/main.rs`) | database files, TLS directory, token | backup, restore, rotate-token | offline, under the registry lock |
| API write path (`h3s-apiserver/src/write.rs`, `strategy.rs`, `patch*`) | admission mutexes | create, update, patch, delete, bind | store; admission of Namespaces, Services, Nodes, accounts, claims |
| Server-side apply (`apply.rs`) | `managedFields` of each object | apply, with and without force | write path |
| API reads (`read.rs`, `selectors.rs`) | none | get, list, watch | store streams |
| Service addresses (`services.rs`) | stored Services | assign | write path |
| Accounts, tokens, claims (`serviceaccounts.rs`, `token.rs`, `pvc.rs`) | token records, volumes | admission of Pods, TokenRequest, authenticate, bind | write path |
| Namespace controller (`h3s-controllers/src/lib.rs`) | Namespaces, default content | provision, collect, finalize | write path admission |
| Node subnets (`node_cidrs.rs` in API and controllers, `h3s-api/src/network.rs`) | the ledger object, Node specs | initialize, admit, snapshot; the 2 s controller | store, Node writes |
| Workload controllers (`h3s-controllers/src/workload`) | Deployments, ReplicaSets, Pods, status | reconcile, plan, prune, burst, collect | API; kubelet readiness |
| EndpointSlices, load balancer (`workload/endpoints.rs`, `servicelb.rs`) | slices, Service status | endpoints_once, endpoint_gc_once, servicelb_once | Services, Pods |
| Scheduler (`h3s-scheduler`) | none between cycles | three LISTs, placement, bind | Nodes, Leases, Pods |
| Enrollment and heartbeat (`h3s-kubelet/src/lib.rs`, `bootstrap.rs`) | identity files, enrollment record, Node, Lease | connect, join, register, heartbeat | write path |
| Supervisor tunnel (`h3s-supervisor`) | registrations, slots, streams | reserve, serve, open_kubelet | API exec/logs, agents |
| Kubelet runtime (`runtime.rs`, `probe.rs`, `volumes.rs`) | sandboxes and containers in CRI, Pod directories, probe memory | sweep, sync, remove, publish | API, CRI |
| Service proxy (`h3s-proxy`) | kernel rules, last desired rules, readiness | run loop | API, nftables |
| Authorization, certificates, packaging, OpenAPI | keys, static data | pure checks, I/O | - |

What is hard, and what makes each part correct:

- **Storage.** Compaction must not change a snapshot the store still accepts; a
  watch must deliver every selected change once, in order, or fail; a writer
  that reads a version and updates it must not overwrite another. Hard because a
  stream is many transactions, maintenance is two, a write on SQLite reads back
  after its commit, and PostgreSQL gives each statement its own snapshot.
- **Reads.** A selected LIST in pages is one snapshot, and a client that follows a
  selected watch knows exactly what is selected. Hard because pages are read at an
  old revision that may be compacted, a selector turns changes into additions and
  deletions, and bookmarks pass over what was not selected.
- **Writes.** What is stored was prepared against what it replaces; apply stays
  within its manager's fields; no two Services have one address; a Namespace that
  goes is empty. Hard because each rule is decided on reads before the commit,
  under locks of one process, while requests are dropped and servers stop.
- **Node subnets.** No two Nodes share a subnet, a reservation is permanent, an
  assignment immutable, and Nodes get theirs while the pool lasts. Hard because a Node write is up to
  three store calls, servers exclude each other only by compare-and-set, and
  crashes and cancellations fall between the calls.
- **Workloads.** A rolling update keeps its surge bound, Recreate never overlaps,
  no Pod is orphaned, updates complete. Hard because two controllers act on lists
  taken several calls ago, in bursts.
- **Scheduling.** A binding never overcommits a Node, a Pod's condition follows its
  binding, no Pod waits in vain. Hard because a cycle decides on three lists of
  different times, call after call, while others change what it listed, and any
  error ends it.
- **Membership.** One data directory holds a Node's name, the listed tunnel is the
  live one, the Node says what its worker reports. Hard because every step is a call
  whose answer may be lost, between processes that restart on their own.
- **Pod runtime.** A Pod runs once, on a mounted volume; it is ready only after a
  probe; counts do not go back; in the end what runs is what is asked for. Hard
  because a failed call may have taken effect and the agent keeps nothing on disk.
- **Traffic.** The kernel routes a Service to its ready Pods only, a change of all
  of them leaves no gap, and readiness is not claimed for rules that are not in the
  kernel. Hard because Services, Pods and slices are read at different times on their way
  through three loops.

## 2. Modules

| Module | Models |
|---|---|
| `Registry` | queries on the versions table: newest, LIST pages, change batches, previous version, what compaction retains, the maintenance target |
| `VersionedStore` | what both stores share: the database, what clients and streams hold of it, the statements on it, and the refinement mapping to `StoreContract` |
| `SqliteStore` | writes with read-back, LIST, watch, compaction, maintenance, restarts; any number of connections, clients, watchers |
| `StoreContract` | the abstract store: one immutable snapshot per revision between a floor and the head |
| `PostgresStore` | the same store, statement by statement, on several servers |
| `Reads` | LIST in pages and watch of selected objects, and a client of them |
| `Objects` | create, PUT, patches, status, delete and server-side apply of one object |
| `Admission` | locks, creates and applies, lifecycle of a Namespace and its controller, Service addresses, accounts |
| `NodeCidr` | ledger, import, Node writes and subnet controllers on several servers |
| `Rollout` | Deployment and ReplicaSet controllers and the collector, API call by API call |
| `Scheduler` | cycles of the scheduler, the binding endpoint, the PodScheduled condition |
| `Membership` | enrollment, Node and Lease heartbeats, serving certificate, supervisor tunnel |
| `PodRuntime` | the agent's sweeps over the API and the container runtime, probes, volumes |
| `Traffic` | EndpointSlice controller and collector, load balancer status, Service proxy |
| `StoreProofs` (both stores), `ApiProofs` (`Reads` and `Objects`), `AdmissionProofs`, `NetworkProofs` (`NodeCidr` and `Traffic`), `RolloutProofs`, `SchedulerProofs`, `MembershipProofs`, `PodRuntimeProofs` | theorems and proofs; those of the stores also show the refinement |
| `MC*` | constants that a `.cfg` cannot write, symmetry |

`VersionedStore` composes a store with its contract. The other modules use the
registry by that contract: a read is of one revision, a write is a compare-and-set.
`Traffic` composes two controllers and a node's proxy over the API objects they
share, `Membership` the agents, servers and the registry, `Admission` the write
path and the namespace controller.

`Fault` definitions, such as `retained_no_baseline`, are plausible mistakes
in the operator that follows them. Nothing uses them: they are substituted for
that operator to show that a property notices.

### Correspondence with the code

**VersionedStore.** `rows`, `revision` and `floor` are the tables. `view` and `seen`
are not in the store: they are the cache a client builds, so that what a stream
delivers can be compared with the registry. `hist` is a history variable, every row
ever inserted. Values are opaque and keys are numbers in key order. `insert`,
`discard`, `replay_page`, `next_batch` and the two deliveries are what both backends
do in one statement or between two; each backend says when, and who waits.

**SqliteStore.** A transaction is
one action, since SQLite serializes them; what the code does in several
transactions is several actions: `mutate` and `ReadBack` (sqlite.rs:138-204),
`MaintainHead` and `MaintainCompact` (519-538), `WatchStart`, `ReplayPage`,
`Poll` and the delivery of each event (409-451). `busy[c]` is the mutex of
connection c held by a write that has committed and not read back. The object a
write answers with has the payload it was given and the revision that was read
back, so one write can only be taken for another by its revision.

**PostgresStore.** A server's mutex is held over the statements of one call, and
each statement sees what is committed at its start (READ COMMITTED). A write is
compare, take a revision from `registry_meta` (which locks its row) and insert;
`changes` is a head statement and a rows statement; compaction is head,
delete, set floor. What both modules would define differently has the prefix `Pg`
here, so that one module can prove about both.

**Reads.** `log` is the registry's history and `floor` what compaction left of it.
A client lists in pages (`StartList`, `ListPage` with the scan of read.rs:87-120
and its token) or takes initial events (`WatchInitial`, `InitialEvent`,
`InitialEnd`), follows the stream (`Event`, `Bookmark`) and resumes or starts again
(`WatchEnds`, `Expired`). `view` and `seen` are the client's. An object is the
revision of its last change and a label, which is all that is told apart.

**Objects.** `stored` is the object, its fields a function from the paths of leaves
to values, with the owners of paths in `managed`. A request is `Begin`: the read,
the preparation and the object that results, held in `pending[s]` by the server's
admission mutex; `Commit` is the compare-and-set. `said` is history: all
that a manager's applies of this very object declared. `remove`, `Overlay` and `Prune` are the functions of apply.rs
on trees, `JsonMerged` and `StrategicMerged` those of patches. One list with one
item stands for the keyed lists; JSON Patch, retained keys and element order, and
restrictions of single kinds (Pod updates, EndpointSlices) are left out.

**Admission.** `handler` is the mutation that holds the admission mutex: its reads
and its decision are one step, since nothing else writes meanwhile, and `Commit` is
the store's. `HangUp` drops the handler and leaves its commit in `late`, to `Land`
at any time (`run` in sqlite.rs:116-128 hands the closure to a blocking thread).
`RemoveNamespace` is the delete that `persist` makes after an update that removed
the last finalizer. `ctl` is the namespace controller's pass (lib.rs:98-200): one
list per kind, one delete at a time, then the finalizer. Addresses and node ports
are one pool. A server-side apply of an object that is not there creates it
(`UserApplies`), but its verb is "patch": neither the check of a terminating Namespace
(write.rs:142) nor that of a Pod's account (write.rs:336) looks at it. What it makes in a
terminating Namespace is marked as a `stray`, for the properties to tell apart.
Each kind has one name but Services; Ingresses stand for the kinds that the
controller does not collect.

**NodeCidr.** `ledger` is `/registry/h3s-node-cidrs/allocations`, `node` the
Nodes' revision and `podCIDR`. `req[s]` is the Node write that holds the
admission mutex of server s, or the start of that server (`initialize`); each
store call is a step (`StartLoad`, `StartList`, `StartCommit`, `WriteLoad`,
`WriteReserve`, `WriteCommit`). `ctl[s]` is the pass of its controller: ledger
snapshot, Node list, then one PATCH at a time, which is such a write. The reads
under the mutex before the ledger's load are taken together with the beginning
of the write: between them and the commit another server may write, and the
commit's revision decides. Subnets are numbered in the order `subnets` yields, and
Nodes in the order a LIST has them, in which the pass takes them (`Foremost`).

**Rollout.** Each API call of a reconciliation is a step, with the stale lists it
has read kept in `dc` and `rc[t]`; the API refuses a write whose object has
changed. An object is its content: one that changed and changed back counts as
unchanged. `setting` is the Deployment that TLC considers, chosen at the start:
strategy, bounds, burst limit, history and what users and Pods may do to it.

**Scheduler.** `sch[s]` is what `reconcile_once` holds between two API calls: the
snapshot (`nodes`, `leases`, `seen`), the candidates left (`queue`) and the Pod it
has bound and not yet reported (`bound`). A step is one call: the three lists, then
for each candidate the binding, the read after it and the status, or the status
of a refusal. `pod[p]` is the object named p with its uid and revision, `direct`
if a user has assigned it. `bindable` is the test in `bind` of write.rs
with the uid and resourceVersion the scheduler sends; a user's binding (`UserBind`)
has none to send. A Pod's requests, priority and the Nodes that its selectors,
affinity and tolerations admit are constants (`Rank`), since they are immutable;
capacity too, so a Node that is registered again comes back as it was. A Lease's age
is taken at each placement, so a listed one may expire during the cycle (`LeaseAges`).
Pods are created with a uid that is the number of the user's step that made them.

**Membership.** `identity[a]` and `serving[a]` are the files of agent a's data
directory, written by one atomic rename each; `pc[a]` and `hb[a]` are its process and
its heartbeat, call by call (`GetNode`, `PostNode`, `PutStatus`, `PutLease`).
`record` is the enrollment record and `join[s]` the join that holds the mutex of
server s, between its read and its create. A tunnel has an end in the agent (`tun`),
one in the server (`conns`) and an entry in the server's list (`hub`): `Release` and
`Unlist` are the two steps of a registration that is dropped (supervisor
lib.rs:110-121 and what runs before it), between which the agent may connect again.
All agents are configured with one node name.

**PodRuntime.** `agent` is the sweep in progress: the lists it has read, the Pod it
is at and the place in `sync`. Each call to the runtime or the API is a step, which
may fail, and a failed CRI call or status write may have taken effect (`Rpc`). `vol[u]`
is a Pod's directory: its mount, its generations (complete or not) and what `..data`
names. `probes` is the agent's memory, lost when it restarts; `passed` is history. A
Pod has one container and one projected volume; containers are numbered as created,
where the code orders them by creation time. Uids are never given twice: the Pods of
the start have one each, and every later Pod the next. A call of an agent that has died is
taken to land before the next agent starts.

**Traffic.** `pass` is the EndpointSlice controller's pass, call by call; the
collector and the load balancer make one step of each of their passes. `slices`
are records of owner, port and endpoints; the plan cuts the Pods in chunks of
`SliceSize`. `proxy` is the loop of h3s-proxy: three lists that may fail
(`SnapshotPart`, `SnapshotFails`), `Reconcile` with a plan and its installation,
`Repair` of the kernel's table, and readiness. A plan that is refused is
represented by a missing Pod CIDR. `fit` is history: which Pods were ever ready for
which Service. Installation replaces the table at once, as one nft transaction does.
The Service is any of the default kind, of one that publishes unready Pods, and of one
whose traffic stays on the node (`TInit`); it may be deleted and made again, with the
port and selector of a record in `Remade`.

## 3. Runs

Passing:

| Run | Shows |
|---|---|
| `sqlite` | two clients and a watcher on one connection, maintenance and restarts: no update is lost and no client is told of another's write as its own, a client's cache is always the registry at the revision it would resume from, compaction at any revision changes no snapshot and maintenance keeps the window, the store implements `StoreContract`, and every change reaches a live stream or the stream ends |
| `postgres_one_server` | with one server the client mutex hides the statement snapshots; crashes included |
| `reads` | a client of a selected LIST and watch knows exactly one snapshot at every moment, through pages, labels that come and go, compaction and resumption, and catches up |
| `objects` | two servers: no update is lost, an apply changes only what its manager declares or had declared and no one else owns, owners have declared what they own, the generation counts the changes of the spec, what is immutable stays |
| `admission` | names and addresses are unique, a Namespace that goes has no content but what was applied after its deletion, and goes, and an active one gets its default account back |
| `node_cidr` | two servers: subnets are disjoint, reserved before published, kept and immutable, and in the end every Node has one but those from one on that an exhausted pool has nothing for |
| `rollout` | three Deployments: desired + maxSurge is never exceeded by the sets together, Recreate never has Pods of two templates, pruning orphans no Pod, updates complete and say so, a deleted Deployment leaves nothing |
| `scheduler` | no binding overcommits a Node, PodScheduled follows the binding, no Pod waits in vain |
| `membership` | two directories that claim one name: one of them gets a certificate and the record, each server lists the live tunnel, an enrolled agent attaches again, the Node keeps the network condition and comes to tell the worker's health, the Lease comes to be owned by the Node there is |
| `pod_runtime` | three restart policies: a Pod runs once and on its volume, is ready only if probed, its restart count and its final state do not go back, and once failures end, what runs is what is asked for and nothing else is left |
| `traffic` | rules reach only Pods fit for that very Service, no replacement of slices drops an endpoint that stays ready, while the proxy is ready the rules it last installed are in the kernel (unless they were lost since) and its newest snapshot made a plan, and rules, slices and the load balancer's address converge |

Violated (the finding in `PROJECT.json` quotes the lines it contradicts):

| Run | Shows |
|---|---|
| `postgres_two_servers_cas` | two servers both pass the unlocked compare: an update is lost |

### Further counterexamples

These configurations are no part of the runs above; TLC finds each violated, and each
is about something a document or comment of the repository says.

| Configuration (module, property) | Shows |
|---|---|
| `PgTwoServersFloor.cfg` (`MCPostgresStore`, `SnapshotsSurviveCompaction`) | compact compares with the floor and sets it in different statements (postgres.rs:333): the floor moves back over deleted rows, and reads there are accepted and incomplete |
| `PgTwoServersWatch.cfg` (`MCPostgresStore`, `DeliveryIsMonotonic`) | the cursor of a poll can be older than its events (postgres.rs:548): they are delivered twice and bookmarks go back |
| `RolloutConflict.cfg` (`MCRollout`, `AvailabilityKept`) | a set counts as observed while surplus Pods remain, after a refused delete (or the first of several bursts); `plan` counts them as availability and removes too much (deployment.rs:131), against docs/workload-controllers.md:33-34 |
| `AdmissionCancelled.cfg` (`MCAdmission`, `AddressesAreUnique`) | a client that hangs up drops its handler and the mutexes (write.rs:37), while the blocking task of the store (sqlite.rs:116-128) still commits: a second request has not seen the address and takes it. services.rs:1-3 has callers hold the mutex through the mutation |
| `NamespaceApplied.cfg` (`MCAdmission`, `NothingOutlives`) | a server-side apply creates in a terminating Namespace, since its verb is "patch" and write.rs:142 refuses only "create"; applied after the controller has listed the kind, the object outlives the Namespace and is found in the next one of its name, against docs/admission.md:11 "Namespaced creates also require an existing namespace and fail with 403 if it is terminating" |
| `NamespaceMixed.cfg` (`MCAdmission`, `EmptiedBeforeGone`) | after such a stop, a pass of the controller that began for the leftover finalizes the next Namespace of the name, which was made, filled and marked in the meantime: the pass reads the Namespace again by name only (controllers lib.rs:165-197), and its content outlives it |
| `NamespaceEnds.cfg` (`MCAdmission`, `MarkedNamespacesGo`) | a stop between the update that clears the last finalizer and the delete (write.rs:373-381) leaves a Namespace Terminating, which nothing takes up, against write.rs:368-369 |
| `NodeCidrStarved.cfg` (`MCNodeCidr`, `ReservationsResume`) | a Node that the exhausted pool has nothing for ends every pass with an error (controllers node_cidrs.rs:60), and a Node listed after it waits for ever though the subnet is reserved in its name, against docs/node-cidr-allocation.md:26-27 "A retry or controller restart resumes the same name's reservation" |
| `TrafficStale.cfg` (`MCTraffic`, `RefusedIsUnready`) | nft refuses the rules of the newest plan and the proxy is unready; the same round then puts the older rules back with success and is ready again, from the flag of the last plan that was installed (proxy lib.rs:124-127 and 150-155), against docs/service-networking.md:41-42, by which broken nft execution makes networking unready |
| `ApplyForce.cfg` (`MCObjects`, `ForceMovesOwnership`) | a forced apply keeps, of the former owner's paths, those the contested path starts with and drops the others (apply.rs:396-400), against apply.rs:376-377 "ownership moves here" |
| `ApplyDrop.cfg` (`MCObjects`, `DroppedFieldsGo`) | dropping a named list item removes its `name` first; its other fields are then not found and a nameless item stays (apply.rs:405-409 with 200-234), against apply.rs:4-5 |
| `TrafficSlices.cfg` (`MCTraffic`, `NoGap`) | a Pod that comes or goes shifts the others over the slices' borders, here of one endpoint each, in the code of 100: a slice is replaced before the one that takes over its last endpoint is written, and a ready endpoint is in neither (endpoints.rs:101-132, "Publish replacements before collecting obsolete port groups/slices") |

TLC finds no error in one more, `SqliteValues.cfg` (`MCSqliteStore`, `NoLostUpdate`): two
clients that write two values, through four revisions.

What the passing runs leave out of these on purpose: `EmptiedBeforeGone` excepts strays
and `NodesGetSubnets` the Nodes behind one that is refused, and `ReadyIsEarned` does not say
that the rules are the newest plan's; in `admission` clients hang up
within the commit of a delete of content or of the creation of the Namespace only
(`HangUps`): a creation or an apply, an update of a Service or the mark of a Namespace that lands
after the mutex is free breaks `AddressesAreUnique` (in the run a part of
`ObjectsAreSound`) or `EmptiedBeforeGone`. Nor does
the server stop between the two writes that remove a Namespace (`CutShort`); `postgres_one_server` has one server; `AvailabilityKept`,
`ForceMovesOwnership`, `DroppedFieldsGo` and `MarkedNamespacesGo` are checked only
where they are violated. `NodeCidr`, `Objects` and `Membership` use several servers
over a registry that compares and sets in one step: what they show is under the
condition that the store keeps its contract, which `postgres_two_servers_cas` shows
the PostgreSQL store does not always do.

Two more conditions are stated by constants. `NoLostUpdate` holds on SQLite through
one connection, which is what the server opens: with two `Conns` TLC finds a write
whose read-back returns the revision of another, as it does with one whose mutex is
free before the read-back. And `CacheIsASnapshot` is checked in
`postgres_one_server` with `EmptyWatch = FALSE`: a watch that starts on an empty
registry replays its pages at revision 0, which means the current revision, so pages
may be of different revisions.

### Bounds

- Batches and pages are 2 and 1 where the code has 256, with 3 or 4 revisions
  and 2 keys, so full and partial batches, several pages and compaction of a
  version still being read all happen. The window is 1 where the code has 1024. In
  `reads` a response has 1 item and a scan looks at 2 of 3 keys, so a page may end
  for either reason, and five changes let an object leave and enter a selection.
- `MaxRevision` (`RevisionLimit` in `Objects`) bounds writes, `MaxOps` and `MaxEvents` user requests, cancellations,
  crashes, lost answers and timeouts, `MaxEdits` user changes, failures and restarts,
  `MaxPods` the Pods that exist at once. Each is a guard of the actions it bounds.
  Server steps, controller passes, sweeps and cycles are not bounded.
- `node_cidr` has two Nodes for one subnet, so that the pool is exhausted, the other
  Node waits, and either may be the one that is listed first; two operations, of users or
  failures, are a Node deleted and made again, or one made and a request cut off. The
  races in it are between two servers that start, two controllers and the
  operations. For its safety properties the proofs drop the bounds.
- `scheduler` has one scheduler, three Pods that compete for two Nodes, of which
  one takes a whole Node, one has a choice, and one cannot be accounted. Its lists
  hold two Pods, so a third makes them incomplete. Two schedulers may overcommit,
  as bindings check the Pod and not the Node: a server process runs one, and
  `NoOvercommit` is about one, and so is the theorem of it. The other theorems of
  `SchedulerProofs` hold for any number.
- `rollout` has bursts of 8 and of 1, absolute and percentage bounds, so that a step
  is cut and both roundings occur. Two templates allow an update, a rollback and an
  update reversed half way.
- `objects` allows three writes: what two managers apply, a third write of another
  kind in between, and an apply after it. The second server is there for the
  commits that a mutex does not order.
- `admission` has five events: enough to make a Namespace, fill it, delete it, lose an
  answer or stop, and make it again.
- `membership` has four faults, of any kind; two agents start with nothing, so all
  orders of two enrollments are among them.
- `pod_runtime` has one name, whose Pod may be replaced, and three failures: two that
  a recovery has to survive and one in the midst of it. Pods do not interact but for
  a failure that ends the sweep.
- `traffic` has two Pods on two nodes in slices of two, two ports, so that all
  endpoints may change at once, and two events. With slices smaller than the set
  of Pods `NoGap` is false of the code (`TrafficSlices.cfg`).
- Symmetry is used in `postgres_one_server` and `objects`, which check no liveness.
- Deadlock is checked in every run but `rollout`, `admission` and `membership`,
  where the bounded users and faults may leave nothing to do: a deleted Deployment, a
  Namespace that is gone, and agents that were refused the name.

### Fairness

- `SqliteStore`: a closure that has started ends (`run` finishes its blocking
  task), and a stream that is polled goes on reading and yielding; nothing is
  assumed of writers, maintenance or clients that come and go.
- `Reads`: a client that can go on does: it asks for the next page, reads its stream,
  starts again when refused. Nothing is assumed of bookmarks or ends of streams.
- `Admission`: a handler goes on and the store finishes what it was given. The
  controller is strongly fair, since it needs the admission mutex again and again,
  which is first come first served (tokio's mutex).
- `Rollout`: each controller and the collector keep reconciling, which their
  requeue intervals and loops ensure, and a Pod that exists becomes ready in
  time. Users, restarts and losses are not fair.
- `NodeCidr`: a request in progress goes on, a server that ended is started
  again, as its service manager does, and the controller passes every two
  seconds. Crashes, cancellations and deadlines are not fair and are bounded.
- `Scheduler`: a scheduler goes on with its cycle and starts the next (`run` is
  a loop with a sleep of two seconds). Which of several calls it makes is decided
  by its state and the candidates' order, so weak fairness of the whole is enough.
- `Membership`: an agent is started again and its loops go on; a join in progress
  commits or is dropped; silent tunnels are closed after the pong deadline. To
  connect is strongly fair: the agent tries again for ever, and an attempt at a time
  when the list is free succeeds.
- `PodRuntime`: the sweep is a loop, delays end, and a probe that goes on being made
  is at some time not answered from its last result. No failure is fair.
- `Traffic`: the controller, the collector, the load balancer's pass and the proxy's
  loop run on timers.

## 4. Assumptions on the constants

Each is a named `ASSUME` in the module that declares the constant: keys are
numbers (an order for paging), batch, page and limits are positive, windows and
bounds are natural numbers, the pool has at least one subnet, requests and capacities
are natural numbers and each Pod takes one of the resource "pods". Nothing is assumed
of the sets of clients, watchers, connections, servers, Nodes or values. The Pods of
`Scheduler`, `Traffic` and of one node (`PodRuntime`) are finitely many; `Traffic` has at
least one Pod name and one port. Bursts and replicas of `Rollout` are natural numbers,
and so are the numbers that surge and unavailability are computed from. In `Objects`
what a client sends is a tree over the paths of `Order` and the constants of `Words`: no
path is below another, a path outside `env` has at most two segments (`replicas` one),
and an empty list has the value "[]"; these are the objects the code gets from its
parser, in the leaves that are told apart. "new" is among the `Statuses`.

## 5. Proofs

All proofs are checked by TLAPS, for all values of the constants.

**SqliteStore** (`StoreProofs`). `SnapshotsSurviveCompaction` alone is not
inductive: it compares LIST results, and says nothing of rows that a later
compaction would need. `RowsInv` strengthens it: the table is part of the
history, revisions identify rows, each key's newest row is in the table
(`NewestExists`), and the table has everything above the floor and each key's
baseline at it (`Retained`). A write adds a row above all others, and a
compaction keeps the baseline at its target, so a second one only finds rows the
first has kept. From it:

- `TypeCorrect`, `RowsCorrect`, `SnapshotsCorrect`;
- `WindowCorrect`: `TargetIsOld` says that a target which `maintain` has computed and
  not yet applied stays in the past of the window, because the head only grows,
  whoever else compacts meanwhile;
- `HeldCorrect` and `NoLostUpdateCorrect`, under one connection: `HeldInv` adds
  that a write not yet read back is still the newest of its key, with the revision it
  was given, which holds since it keeps the mutex. So what a commit replaces is what its
  client was told of (`HeldIsCommitted`), and what a client is told of its own write is
  that write (`ReadBackReportsOwn`). This hypothesis is necessary: with two connections
  TLC finds a counterexample. `HeldIsCommitted` itself is proved and not checked by
  a run, since `NoLostUpdate` rests on it.

- `CachesCorrect`: `CacheIsASnapshot`, for any number of watchers. `CacheOf` says of
  each phase what the client has and what is on its way to it: a LIST or a replay has
  the part of one snapshot up to its continuation key, a live stream has a snapshot
  and, undelivered, exactly the changes from it to the cursor. `PageEnds` and
  `BatchEnds` say that a page or batch that is cut by its limit ends at its last key or
  revision without skipping any, `QueriesAreExact` that a query at a revision which
  passes the floor check reads in the table what it would read in the history, the
  previous version of an event included, and `NextSnapshot` that the next change
  applied to a snapshot gives the next. A finite table is part of the invariant;
- `ContractCorrect`: the store implements `StoreContract`. The initial state maps to
  an initial state, a write to Create, Update or Delete, an effective compaction to
  Compact, and every other step to a stutter.

**PostgresStore** (`StoreProofs`). The lemmas above are about `VersionedStore` and serve
both backends. Two theorems hold for any number of servers: `PgTypeCorrect`, and
`RevisionsAreSharedCorrect`, that no revision is given to two rows, the half of
postgres.rs:780-781 that the violated run does not refute. The others assume one server,
`\A s, t \in Servers : s = t`, without which TLC finds a counterexample to each of
`PgNoLostUpdate`, `SnapshotsSurviveCompaction` and `DeliveryIsMonotonic`. What
a second server would break is the link between the statements of one operation, so
this link is the invariant:

- `CheckHolds`, in `PgRowsInv`: the version a mutation compared is still the one its
  client holds when it commits, and a compaction's target is still above the floor
  and behind the window. The client mutex, which no other operation can have, keeps
  it. With `RowsInv` it gives `HistoryIsKeptCorrect` and `PgNoLostUpdateCorrect`, and
  by it a commit is a step of the contract (`PgContractCorrect`);
- `PollHolds`: the revision that the head statement of a page or a poll accepted is
  still readable, and the head the same, when its rows are read. So each stream step
  is one that the lemmas on `CacheOf` cover. `AnchorOf` adds that a replay stays
  at its anchor, of which also the first page was read, so that the bookmark after it
  names the cursor. It gives `PgCachesCorrect`, which assumes `EmptyWatch = FALSE`: an
  anchor of 0 means the current revision to `list`, and the replay may be torn.

**Reads** (`ApiProofs`). A revision that is written selects the same objects for
ever (`Settled`), and the selection at the next one differs by what its change enters
or leaves (`Advancing`). So `KnowsOneSnapshot` is strengthened by `Following`, that the
view of a watching client is the selection at the position its stream has read, which
may be beyond the last revision it was told of, and by `Anchored`, that a list or
replay which has begun is at a revision not older than what the client knew. Nothing
is assumed of compaction but that it refuses what it took away. It gives
`OneSnapshotIsKnown` and `RevisionsOnlyGrow`, which is the safety half of `CatchesUp`.

**Admission** (`AdmissionProofs`). `Typed` (the types, and no name stored twice) needs no
hypothesis: it holds whatever hangs up, stops or lands late. `Allocated` says that uids
are used once and that the addresses a create, apply or update is
about to write are disjoint from those of every other object stored; it assumes `Undisturbed`,
that no client hangs up within one of these, without which
`AddressesAreUnique` is false (`AdmissionCancelled.cfg`). With `Typed` it gives
`ObjectsStaySound`. `Emptying` says that what is about to be
made belongs to the Namespace there is, which is active unless the object is a stray
(`Writes`), that what the controller's pass has still to list or delete covers what is
there (`Passes`), and that a finalizer is only cleared of the Namespace stored, with
nothing left in it but strays and kinds that are not collected (`Empty`). A stray may
land at any point of a pass, so it is exempt from all three, and `NamespacesAreEmptied`
is about everything else. It
assumes `Uncut`: no abandoned create, apply, update or mark, and no stop between the two
commits of a removal. That second half came from the proof: with a stop there, TLC
finds a pass of the controller that was begun for a leftover Namespace, and that
finalizes the next Namespace of the name, with its content (`NamespaceMixed.cfg`).

**Membership** (`MembershipProofs`). A certificate is signed for the owner of the record
only, so `Holders` ties every certificate, and every answer on its way, to the record,
which is created once (`RecordStays`). `Signs`
says that a join handler which found a record found its own client's. `Listed` ties a
tunnel's ends: there is at most one connection, that of the record's owner, and its
server lists it until it is released. It gives
`NameAndTunnelAreOnes` and `NetworkStaysReported`, the safety half of `NodeIsKept`.

**Rollout** (`RolloutProofs`). What makes pruning safe is that a set whose scale-down to
zero has been observed has no reconciliation in progress which would still create a
Pod: a reconciliation reads the set before its Pods and writes the status after them,
so the one that wrote `observed` was the last that could (`Settled`). `Pruned` then says
that a set the plan may prune has no Pods, nor will get any, and `Recreating` that
under Recreate at most one template has Pods or replicas that are wanted or being
made. It gives `PrunedSetsHadNoPods` and `RecreateNeverMixes`.

`StrategyIsKept`, that the sets of a rolling update never want more than desired +
maxSurge together, is about a sum over the sets, and the sum is a fold. `SumExists`
shows, by the well-foundedness of the numbers below the size of the set, that there is
a function which unfolds as the fold does; `SumsAgree` and `SumTakes` that the sum changes
by what one term changes by. `Within` says that while the desired number of replicas is not
edited, the sets together ask for no more than it and the surge, and that each
scaling still to be written fits below that as things are now (`Fits`): a plan is
one list of writes, of which one raises a set, and nobody else changes what the sets ask for.
`Numbered` has the types this needs.

**PodRuntime** (`PodRuntimeProofs`). What a sweep does to a Pod rests on lists it read
many steps before, while containers exit, sandboxes die and Pods are replaced. The
invariant has a part for the world and one for the sweep:

- a Pod has one sandbox (`Boxed`). `Run` makes one when `existing` found none, so
  every sandbox of the Pod must be among those the sweep has listed until it has
  removed them (`Seen`, and `AtBox` at "stale" and after): nobody else makes any, and a
  sandbox made by a call whose answer was lost is in the next sweep's list;
- only the last container of a sandbox runs, and one that it replaced had exited and
  not for good, or had another spec (`Superseded`). `create` comes after `stop` of the
  container that `look` found to be the last (`AtCtr`), and a reported spec only grows;
- the volume is mounted and has one complete generation wherever a container runs
  (`Projected`), which `AtBox` carries from `project` to `start`;
- a sandbox that may still be used, because it is or was ready when listed or is the
  one the sweep is at, has as its last container one with at least the published
  count (`Counted`); the first container of a new sandbox starts from that count. A
  sandbox that was not ready is removed and its containers with it, so the invariant
  says nothing of those: that the count survives is exactly that the sweep reads it
  from the API.

Two facts carry most steps: those that make and start nothing (`Winds`) keep the
world's part, and those that leave the last containers there (`Leads`) keep `Counted`.
It gives `RunsOnceCorrect` and `NeverBackCorrect`. `ReadyCorrect` needs the types and
`Probed` only: an entry in memory is ready only of a container that passed, so a
replacement starts unready.

**NodeCidr** (`NetworkProofs`). `IInv` says of the registry that the ledger,
once there is one, shares no subnet and covers every assigned Node, and of each
request what it may still rely on (`Fits`): its copy of the ledger is current
unless its revision is stale; an import that would commit covers every Node and
keeps every reservation; a write about to reserve may have its subnet; a write
about to commit has its reservation, and if its Node still has the revision it
was admitted at, the Node has no other subnet. Three lemmas say that a step of another server
preserves `Fits`: `LedgerGrows` (all copies go stale), `NodeWritten` and
`NodeRemoved`. It gives `TypeCorrect`, `CidrsDisjointCorrect`,
`LedgerCoversCorrect` and, for steps, `ReservationsAreKeptCorrect` and
`AssignmentIsImmutableCorrect`, together `SubnetsAreKeptCorrect`.

**Scheduler** (`SchedulerProofs`). Every step makes each Pod object *advance*
(`Advances`): it stays, is replaced by its next revision, which keeps its Node and a
True condition, or is a new object with a new uid. `IInv` adds to the types that
True conditions are of assigned Pods (`Honest`) and what each cycle relies on
(`Relies`): a listed Pod that has not changed its revision has not changed, a
candidate was unassigned, the Pod bound and not reported is assigned. `ReliesKept`
shows that advancing Pods, whoever advances them, leave all this true, so each action
is only asked for its own cycle. From `IInv` and `Advances` follow `TypeCorrect`,
`AssignedOnceCorrect` and `ConditionCorrect`, for any number of schedulers.

`NoOvercommitCorrect` is under one scheduler; bindings check the Pod and not the Node,
and with two TLC finds an overcommitted one. `Accounts` says that a cycle has on each Node,
by its list and its own bindings, every Pod that is there now, but for those that
users have assigned or ended since. What a set of Pods requests is a fold again, and `RequestsGrow`
says that a part of a set requests no more than the whole: so what fits by the
account fits (`BindingFits`).

**Traffic** (`NetworkProofs`). `TInv` has the types with what a slice may hold (`TTyped`),
what was ever fit (`World`), and what the two loops rely on. `PassFits`: the controller's copies of Service
and Pods may be old, but while the Service of the pass lives, the Pods it plans for were
fit for it, and what it has published is there; a slice it is about to write is of such Pods. `ProxyFits`:
of the three lists a reconciliation takes, each may be of another moment, but the rules
are of endpoints that were fit. A plan cuts the Pods into chunks by their position
(`Positions`, `ChunkFits`), which gives `PlannedSlices`. `Readiness` adds to
`ReadyIsEarned` that a round which has not installed its rules is not ready, and that what
was installed before may only be claimed again while the newest snapshot made a plan.
`RulesAreSoundCorrect` and `ReadyIsEarnedCorrect` are without hypothesis; `NoGapCorrect` assumes that the Pods fit in one slice, without which it is
false (`TrafficSlices.cfg`).

**Objects** (`ApiProofs`). A server prepares a write from the object it read and commits
it if the revision is still that one. `OInv` says of each request that, if the registry
would take it now, it was made of what is stored now (`Sound`), also when the object
was deleted and the revision it compares with is 0 again; and that it claims for
a manager only what that manager declared, by this apply at the latest (`Owned`). `UpdatesAreSoundHolds` and
`OwnersDeclaredHolds` follow. The proof corrected the latter: entries are not within
what a manager declared *last*, since a PUT of an older copy of a Secret without its
revision brings older entries back, but within all it declared of this object, which is what
is checked and proved now.

`OwnershipKeptHolds` needs what the functions of apply.rs do to a tree. They
are folds over paths, unfolded like the sums above (`FoldExists`, `FoldStays`,
`KeptFolds`, `ForcedFolds`). Two paths are `Near` if one is above the other or they are
fields of one item; what is below a path that is far from p is far from p
(`BelowIsFar`), removing p leaves alone what is far from it (`RemoveLeavesFar`) and
changes no value (`RemoveKeepsValues`), trees that agree on their lists are pruned alike
(`PrunedAlike`), and a default adds `replicas` only to a new object (`StoredScaled`). So
an apply, made of what is stored, changes what is near its manager's fields
(`FarFieldsStay`) and no value that another manager owns (`ValuesStay`); `AInv` carries that
(`Respects`) from the request to its commit.

**Only model-checked.** Liveness, which is outside the prover's reach. What a recursive definition computes for every input is not shown
as such; where a sum or a fold matters, the proofs unfold it step by step, as above.
The counterexamples of section 3 are TLC's.

## 6. Not modelled

`PROJECT.json` lists every component with its status and reason. Not modelled at all:
authorization, cryptography, validation of manifests, rendering, byte streams,
packaging; Geode custody, whose vault is an external program; backup and restore, which
run offline on files. In the modelled components these are left out:

- stores: leases (nothing in the program takes one) and the sealing of Secret values,
  payload encoding and schema migration;
- reads: the check of a Node's right to read each item, field selectors, Greater and
  Less, errors in the middle of a response;
- writes: JSON Patch operations, retained keys and element order of strategic patches,
  Pod and EndpointSlice restrictions, and several list items of one key;
- admission: bound tokens and the binding of claims, which are decided once and by
  nothing that others change meanwhile, and the policies of Pods;
- subnets: `podCIDRs` as a field apart from `podCIDR`, Node finalizers, a change of the
  configured pool (refused by every load);
- workloads: label selectors, adoption, several Deployments;
- scheduling: a Node registered again with other labels, taints or capacity, and
  candidates' ages;
- membership: streams through a tunnel, their slots and budgets, the 30 s limit of
  the first registration, and what readiness is computed from. Nothing in the code
  marks the Node of a dead worker not ready: its Lease is only read by the scheduler;
- Pod runtime: more than one container or volume, refresh of tokens, files of the top
  level of a volume, DNS files, and calls of a dead agent that land after its
  successor has started;
- traffic: several Services and their interference in one plan (an error in one
  keeps all rules), affinity, more Pods than one slice, Traefik.

## 7. Plan

Done: the store and its contract, the PostgreSQL store, rollouts, Node subnets, the
scheduler; then reads, writes and apply, admission, membership, the Pod runtime,
traffic, and the proofs above: a theorem states every safety property that a passing
run checks. If the code comes to compare under the lock of the meta row, the
hypothesis of one server can go from `PgNoLostUpdateCorrect`, with an invariant on
that lock in the place of `CheckHolds`.

Next, models: several Services in one proxy plan, slices of more Pods than one
holds, store leases should a component come to use them.
