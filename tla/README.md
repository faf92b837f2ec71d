# TLA+ models of zstack-ovn-kubernetes

zstack-ovn-kubernetes is a Kubernetes CNI on OVN: controllers turn Subnets,
Pods, Services and NetworkPolicies into rows of the OVN northbound database,
and an agent on every node answers the container runtime. This directory holds
TLA+ models of its parts, TLC configurations that check them on small
instances, and theorems checked by TLAPS for every value of the constants.

Paths below are relative to `src/`.

## 1. The system

### 1.1 Components

| component | source | state | operations |
|---|---|---|---|
| Bitmap, IP allocator | `pkg/allocator` | bits and a counter; exclude set | NewSubnetAllocator, AllocateNext, Allocate, Release, queries |
| Pod controller | `pkg/ovn/pod_controller.go`, `pkg/util/annotation.go` | `podAllocations` (pod key to address); in the API server: finalizer and network annotation | Reconcile, configurePodNetwork, handleDeletion, the event filter |
| Subnet controller | `pkg/ovn/subnet_controller.go` | `allocators` (subnet name to allocator); status, finalizer | reconcileSubnet, ensureLogicalSwitch, ensureIPAllocator, updateStatus*, handleDeletion |
| ZStack compatibility | `pkg/ovndb/zstack.go`, `logical_switch.go` | ownership markers on logical switches | SafeCreate, SafeDelete, Validate, CheckForConflicts |
| Logical switch ports, transactions | `pkg/ovndb/logical_switch_port.go`, `transact.go` | rows of the northbound database | Get, Create, Delete; retry until connected |
| OVN client, external database manager | `pkg/ovndb/client.go`, `external.go` | connection, health-check goroutine, attempt counter | Connect, healthCheckLoop, attemptReconnect, Close |
| Service controller | `pkg/ovn/service_controller.go`, `pkg/ovndb/load_balancer.go` | tracked load balancers; VIPs | ensureClusterIP/NodePortLoadBalancer, cleanupStale, handleDeletion |
| Network policy controller | `pkg/ovn/policy_controller.go`, `pkg/ovndb/acl.go` | ACLs of a policy | processNetworkPolicy: clean up, then create |
| Node controller | `pkg/node/node_controller.go` | cluster subnet allocator, node-to-subnet map, node annotations | Reconcile, SyncExistingNodes, handleNodeDelete |
| Gateway, tunnel, node agent | `pkg/node/gateway.go`, `tunnel.go`, `cmd/zstack-ovnkube-node` | OVS bridges and external_ids, NAT rules, routes | runNodeAgent, Configure, CleanupSNAT |
| CNI server and handler | `pkg/cni/cniserver.go`, `handler.go` | none beyond the request; pod annotation, ports | ADD (poll for the annotation), DEL, CHECK |
| CNI plugin and interface helper | `cmd/zstack-ovn-cni`, `pkg/cni/helper_linux.go`, `cni.go` | veth pairs, OVS ports | SetupInterface, TeardownInterface, CheckInterface |
| DPDK, config, events, logging, metrics, controller binary | `pkg/dpdk`, `pkg/config`, `cmd`, ... | static or per request | I/O, parsing, output |

### 1.2 How they interact

    user / kubelet --writes--> API server --watch--> informer cache --> work queue
                                   ^                       |                |
                                   | Update (optimistic)   +--- Get ------- v
                                   +------------------------------- Pod reconciler (1 worker)
                                                                     |           |
                               Subnet reconciler --allocators--------+           v
                               (1 worker)  --switches-->           OVN northbound DB
                               Service, NetworkPolicy reconcilers --->   ^    ^   ^
                               (1 worker each)                           |    |   |
                                                                  ZStack-+    |   |
    every node agent: Node reconciler over all nodes ---switches--------------+   |
    container runtime --> CNI plugin --> CNI server --(polls annotation, DEL port)+
                                            |
                                            +--> OVS bridge, veth pairs
    start of a node agent --> Open_vSwitch external_ids, br-ex, iptables, tunnels

The Pod and Subnet reconcilers run concurrently in one process and share the
`allocators` map. Everything the Pod reconciler reads of a pod comes from the
informer cache, which may be behind; everything it writes goes through
`client.Update`, which the API server refuses when the version is not current.
The port in OVN and the annotation in the API server are written one after the
other, with no transaction around them, and the address is taken in memory
before both. A restart loses the memory and keeps the other two.

### 1.3 What is hard, and what makes a component correct

* **IP allocator**: boundaries (network, broadcast, a range that leaves the
  subnet or wraps), a counter kept beside the bits, releases of addresses that
  are free or excluded. Correct: it is a pool that grants each free usable
  address to one caller at a time, and says "exhausted" only when it is.
* **Pod controller**: stale cache, refused and lost writes, retries of a
  half-done configuration, pods replaced under the same name, a second
  deletion run, restarts, subnets that become ready between two attempts.
  Correct: no two live pods share an address; an annotation never changes;
  what was allocated is given back; nothing is left in OVN; every pod gets its
  network and every deletion completes.
* **Subnet controller**: a Subnet edited, deleted or created again under the
  reconcile, deletion under live pods, switches shared with ZStack, a status
  read in two pieces. Correct: an address in use stays taken in the allocator; a
  switch of ZStack's is left alone and one of ours goes only with its Subnet;
  the settled switch and status are those of the spec.
* **External database manager**: a mutex held while waiting for a goroutine that
  needs it, reconnects that overlap or outlive Close. Correct: no connection is
  lost sight of, "connected" means that there is one, Close closes for good,
  and the manager gets its connection back.
* **Service controller**: several ports on one row, edits during a reconcile,
  clean-up from memory, failures that are only logged. Correct once it has
  settled: each load balancer has the VIPs that follow from the Service and its
  endpoints, on every switch, and none is left over.
* **Network policy controller**: clean-up and creation in separate transactions.
  Correct: never an allow rule without its denial, never rules for two
  selections side by side, and in the end exactly the policy's ACLs.
* **CNI**: requests without a lock, by pod name; a DEL of an old sandbox, an ADD
  that is cut off. Correct: an ADD answered well stays whole while its sandbox
  runs, every request ends, and nothing outlives the sandboxes.
* **Node controller**: decoding of an index, several agents on one node, old
  caches. Correct: no agent takes a node's subnet away, switch and annotations
  agree in the end, and no two nodes share a subnet.
* **Node agent with gateway and tunnels**: a start that was cut short leaves half
  of the settings. Correct: a gateway or tunnel that reports itself configured
  is, and the agent comes up.

`PROJECT.json` lists each hazard at its line with the properties that would
catch it, or with a note where none does.

## 2. The plan

Done, in this order: Bitmap and SubnetAllocator with the abstract IPPool and the
exclude loop; the Pod controller with the API server, the informer, the queue,
OVN and the allocators around it; then SubnetController, ExternalDBManager,
ServiceController, PolicyController, CNI, NodeController and NodeHost; and the
proofs of section 5, first about the allocator and the pods, then about every
other module. Each safety property that a passing run checks is now a theorem.

Next:

1. The Pod and the Subnet controller in one module, so that a pod's finalizer
   and a Subnet's deletion meet, with uniqueness of addresses carried over to it.
2. What `PortsFollowPods` leaves to its exceptions: how far the port and the
   annotation of a pod with a choice of subnets can drift apart.

## 3. The modules

| module | models |
|---|---|
| `Bitmap` | `pkg/allocator/bitmap.go`: a bitmap as a value (size, set of 1 bits, counter); one operator per method |
| `SubnetAllocator` | `pkg/allocator/subnet_allocator.go`: an allocator as a value, one operator per method; addresses are numbers modulo `AddressSpace` |
| `IPPool` | abstract specification of an allocator: a pool, the addresses held, the last answer |
| `SubnetAllocatorService` | one allocator and any number of callers; refines `IPPool` through `held <- Held(alloc)` |
| `ExcludeLoop` | the constructor, one step per loop iteration, against the closed form `NewSubnetAllocator` |
| `PodController` | the Pod reconciler and everything it races with, on top of `SubnetAllocator` |
| `SubnetController` | the Subnet reconciler, its logical switches, ZStack beside it, the pod worker's use of the allocators |
| `ExternalDBManager` | the manager's goroutines, its mutex and the clients' connections |
| `ServiceController` | a Service, its endpoints, and the load balancer rows made for it |
| `PolicyController` | a NetworkPolicy, its conversion, and the ACL rows made for it |
| `CNI` | ADD, DEL and CHECK of several sandboxes of one pod name |
| `NodeController` | node agents over the nodes, each with an allocator of its own, on top of `SubnetAllocator` |
| `NodeHost` | the start of a node agent: OVS settings, gateway, tunnels |
| `SubnetAllocatorLemmas`, `SubnetAllocatorProofs` | the proofs about the allocator, its pool and the exclude loop |
| `PodControllerProofs`, `SubnetControllerProofs`, `PolicyControllerProofs`, `CNIProofs` | the proofs about the module of that name |
| `OVNProofs` | the proofs about `ExternalDBManager` and `ServiceController` |
| `NodeProofs` | the proofs about `NodeController` and `NodeHost` |
| `MC*` | constants for TLC |

All methods of the allocator and of the bitmap hold their mutex for their whole
body, so each is one atomic step and the order of the steps is all the
interleaving there is.

A definition whose comment begins with "Mutation of" is that definition with a
plausible mistake in it; no specification uses it. Checking a run with it in
place shows that the run's property can fail.

Two conventions are common to the modules. A controller's reconcile is a record
`work` with a program counter, and a step is one call out of the process with
the in-memory work up to the next call. `history` variables (`causes`,
`excused`, `unseen`, `forgotten`, `robbed`, `halfway`, `orphaned`, `missed`,
`excuses`, `freed`) are written by the actions that may cause a known shortcoming and read
by properties only: a property of the form "P unless cause" says that the causes
named are all there are.

### PodController

State and what it is in the code:

* `log[p]`: the versions of the pod named p from the one in the informer cache
  (`Head`) to the one the API server stores (last). A watch event is the removal
  of the head. A version holds what the controller can see: uid, our finalizer,
  the annotation's address and subnet, deletion timestamp, phase, and a counter
  for other status writes, so that two versions are equal exactly when their
  resourceVersions are. A pod being deleted is dropped by `Stored` when it has
  neither the finalizer nor containers left to stop.
* `queue`, `backoff`: the work queue and the keys waiting for a rate-limited
  retry. `work`: the reconcile in progress; controller-runtime runs one worker.
* `tracked`: `podAllocations`. `allocators`, `active`: the Subnet reconciler's
  map and the subnets whose status is Active. `port`: the logical switch port of
  each name with the switch it is on.

Steps: `AddFinalizer`; `FindSubnet` (choice of subnet and allocation, no call
between); `GetPort`; `CreatePort`; `Annotate`; `DeletePort` (with the release and
the tracking entry, which follow it without a call); `RemoveFinalizer`. The
error returns are actions of their own or disjuncts of `Update`.

External behaviour assumed, from how the code uses it: optimistic concurrency of
`client.Update`; an informer that delivers every version in order; `Get` of a
port by name returns the row that is there (the source configures no monitor of
its own); OVN refuses to delete a port that another switch refers to; a call may
fail before or after it took effect.

Abstracted: MAC addresses, gateways and routes of the annotation (functions of
the address and the subnet); events and logs; the order of a subnet list (any of
the matching subnets). Subnets are disjoint, each has a switch of its own, and
none is deleted in this module.

### SubnetController

* `log`, `queue`, `backoff`, `work`: as in PodController, for Subnets (finalizer,
  CIDR, standalone or external switch, phase).
* `rows`: the northbound database's switches by name, with the CIDR and the
  ownership markers the code reads. A name is taken to be unique, as the models'
  comment "Unique identifier for the switch" says.
* `allocators`: the map behind `allocatorsMu`; `grabbed` is the pointer the pod
  worker has from `GetAllocator`, which stays usable after the map has dropped
  the allocator; `holds` is what the pods have.

`GetSwitch`, `UpdateSwitch` and `CreateSwitch` are the separate transactions of
ensureLogicalSwitch and SafeCreate; `GetForDelete` and `DeleteSwitch` those of
SafeDelete; `ReadAvailable`, `ReadUsed` and `updateStatusActive` the two reads and
the write of the status. ZStack is external: `ZStackWrites` creates, marks or
removes a switch at any point.

### ExternalDBManager

Goroutines: callers of Connect and Close, health-check loops, reconnect
goroutines. `proc` is each one's program counter and the client it has in hand;
`mu` is a variable only for the two calls that hold the mutex while they wait;
other critical sections are one step. `open` says which of a client's two
connections are up, `done` counts the closings of `healthCheckDone` (a second one
panics). `Limits` gives the configured numbers of attempts, 0 for no limit.

### ServiceController and PolicyController

The cache (`svc`, `conditions`, `nodes`, `active`; `policy`, `pods`, `ips`)
changes together with the event that queues the key, where there is such an
event; changes of nodes, subnets and pods bring none. `lbs`, `attached` and
`acls` are the northbound rows, and each transaction is a step that succeeds,
fails, or succeeds with its answer lost. `tracked` is `serviceLBs`.
`Vips` and `PolicyACLs` say what a Service or a policy comes to, in the terms of
the code (the VIP builders, `createIngressACLs` and its twin), and the settled rows
are compared with them; a match is the record of what it asks for.

### CNI

`add` and `del` are each sandbox's request with its program counter: `Wait` (the
poll for the annotation), `SetupVeth`, `AddPort`, `BringUp`; `Find`, `RemovePort`,
`RemoveLink`, `DeleteLSP`. A DEL takes the OVS port and the veth pair with two
commands, and other requests may come between them; either may fail, which the
code only logs. `LinkDel` is the second command where it works. `ovs`, `veth` and
`eth0` are the node; `lsp` and `annotation` the pod controller's work, which
`Provide` does. CHECK changes nothing: `HandleCheck` is
its verdict. The container runtime, the kubelet and the pod controller are
external; a DEL may come at any time, also while the ADD is under way.

### NodeController

`node` is the API server, `seen[a]` the cache of agent a, `queue`, `work`,
`alloc` and `tracked` are an agent's own, `switches` is shared. The cluster
subnet allocator is `SubnetAllocator` over subnet numbers, with the decoding of
the address it returns (`DecodeIndex`) byte by byte. `Restart` empties an agent's
memory: SyncExistingNodes reads a cache that has not been started.

### NodeHost

`host` maps each setting (keys of `external_ids`, bridges and their ports, NAT
rules) to its value: the cluster CIDRs that are masqueraded, and the pairs of a
cluster and a service CIDR that are excepted from it, as iptables knows the rules.
A function of the code is a list of commands, and the step
that runs it chooses the command that fails or at which the process dies. The
Open_vSwitch database survives a reboot, iptables rules a process. `Companion`
names the settings that are made only along with another (a bridge's port, a
rule's exception); `Cut` notes that the first was made and the second was not, and
nothing of a run that failed before the first.

## 4. The runs

| run | question | instance |
|---|---|---|
| `allocator` | does the bitmap allocator implement the pool, with the counter exact and the excluded addresses safe? | a /29 with a gateway and a range that leaves the subnet |
| `exclude_loop` | does the constructor's loop end, and leave what the closed form says? | all lists of up to two entries; blocks at both ends of an address space of 8, and all of it |
| `pods` | unique addresses, guarded by the finalizer, ports that follow pods, annotations that stay | two names, two lives each, two addresses, a subnet that becomes ready late; one fault and one restart anywhere |
| `pods_live` | does a running pod get its network unless it is looked at before every subnet, and does a deletion complete? | one pod with a grace period, a default subnet and one of its namespace, neither of them ready at first; a fault, a restart, a status write |
| `subnets` | are allocators, switches and status right and ZStack's switches left alone; does a Subnet settle? | one name, two lives, two CIDRs and one too small, both modes; one edit, ZStack write, fault or restart |
| `extdb` | is the connection accounted for; does Close return, and the connection come back? | a caller, two loops, two reconnects; limits 0 and 1; three calls; the databases away, or an attempt given up, once |
| `services` | do settled load balancers follow the Service, is nothing left over, does it settle? | five specs, two endpoints on two nodes, two switches; three changes and two faults or restarts |
| `policies` | is there no allow without deny in any window; do settled ACLs follow the policy? | three policies, two pods; five changes and two faults or restarts |
| `cni` | does a ready sandbox keep its path, is nothing left, is CHECK right, does every request end? | two sandboxes, two pods of the name, three DELs, one fault or restart |
| `nodes` | does a node keep its subnet, and do switch and annotations agree in the end? | two agents, one node with two lives, four subnets, one fault, restart or user's write |
| `host` | are gateway and tunnels as reported, and does the agent come up? | one interface that may be missing, two cluster and two service CIDRs, two addresses; two crashes, failures, reboots or new configurations |
| `node_subnets` (violated) | "Node 1 gets 10.244.0.0/24", "Node 2 gets 10.244.1.0/24" (`pkg/node/node_controller.go:101`) | one agent, two nodes, no fault |

`UniqueUnlessReleasedInUse` is uniqueness up to a complete list of causes: a
restart, a second handleDeletion for one pod, and the undoing of an allocation
whose annotation was stored although its answer was lost. The action that can
release an address in use records it in `causes`; the invariant says that
without one of the three, no interleaving gives two live pods the same address.

`node_subnets` fails when the second node gets its annotation. AllocateSubnet reads the index
from bytes 0 to 3 of the slice that AllocateNext returns, and `net.IPv4` makes
slices of 16 bytes: the index is 0 for every node. For the same reason the
release of subnet 0 is refused and the allocator's bits run out, one for each
node; `NodesSettle` excepts an agent to which that has happened.

**Bounds.** Every bound is a constant with "bound" in its comment. Two pods and
two addresses are the least for one pod's address to be given to another, and
two lives per name the least for replacement under a name; the same holds for
Subnets, nodes and sandboxes. A lag of one lets a reconcile work from a copy that
its own last write has made old. One fault is enough for each error path, and
with two of them (`services`, `policies`, `host`) one may hit the retry of the
other. `services` has room for a Service, its endpoints and an edit under the reconcile;
`policies` for a policy, its pods, and changes of both.
`pods` has no grace period and `pods_live` has one: a second run of
handleDeletion shows in `pods` through a failed removal of the finalizer. In
`pods_live` a subnet has room for every life of the pod, because an address
leaked before a crash would otherwise exhaust it. `AddressSpace` is small
everywhere: only wrap-around depends on it, and `exclude_loop` places blocks at
both ends of it. Deadlock checking is off where a run can stop because all
bounds are used up (and in `exclude_loop`, where the loop ends).

**Fairness** (the specification of each module whose name begins with `Fair`).

* Informers, back-off timers and workers are goroutines that keep running: weak
  fairness. Starting the reconcile of a given key has strong fairness where
  there are several keys or events that interrupt it, since the work queue is
  first in first out although the worker is busy again and again.
* The Subnet reconciler that makes subnets ready in PodController, and containers
  of a deleted pod, which the kubelet kills: weak fairness.
* ExternalDBManager: goroutines go on, the ticker ticks, the databases come back;
  a `select` with two ready channels does not take the same one for ever (Go
  chooses at random), hence strong fairness of StopLoop.
* CNI: the steps of a request are fair, because the server runs them and the
  wait has a deadline; the runtime, the kubelet and the pod controller are not.
* NodeHost: Kubernetes starts a process that has died, and a process goes on.
* Nothing is assumed of users, of ZStack, of faults (bounded) or of restarts.

## 5. The proofs

For every subnet, exclude list and address space (`SubnetAllocatorProofs`):

* The inductive invariant `AllocInv` says that the bits are indices of the
  subnet, the counter is their number, and the exclude set is that of the
  exclude list with every excluded bit 1. Types alone are not inductive: that
  the counter stays right needs the bits finite, and that an excluded bit stays
  1 needs the exclude set fixed. From it: `TypeCorrect`, `CounterTheorem`,
  `ExcludedTheorem`.
* `Refinement`: each call is a step of `IPPool` under the mapping. The lemmas
  say what a call does in terms of addresses (`AllocateNextGrants`,
  `ExhaustedMeansFull`, `AllocateGrants`, `ReleaseGivesBack`), from that index
  and address determine each other (`IndexRoundTrip`) and that the scan finds
  the least clear bit.
* `LoopInvariance`, for every exclude list: at each iteration of the
  constructor's loop, the allocator under construction has excluded exactly the
  usable ones of the addresses visited so far (`LoopInv`). That the loop over a
  range visits the whole range, and stops, is an argument on how far the cursor
  is from the range's first address (`Distance`, modulo the address space): the
  next address is one further unless it is the one to stop at. A sound allocator
  with given excludes is unique, so when the list is done the result is the
  closed form that the other modules use (`LoopAlwaysExact`).

For any number of pods, subnets, faults and restarts (`PodControllerProofs`):

* `Invariance`: types, every allocator sound for its subnet (`AllocInv`), a
  reconcile that is giving out an address works from a version that had the
  finalizer and no address, and a name without a pod has no address.
* `TypeCorrect` follows. `AnnotationsAreFinal` needs the third part: the only
  step that writes an address writes over exactly the version that was read
  (optimistic concurrency), and that version had none.

Uniqueness and the guard rest on what an old copy of a pod
still tells, since the informer may be any number of versions behind:

* `Precedes(v, S, cur, b, f)` relates a copy `v` to the versions `S` after it and
  to the server's, `cur`: uids only grow; a copy with the server's uid has only
  versions of that pod after it; and if the copy has an address that was not
  released, then so has the server, behind the finalizer. `Logs` says this of
  every version between the cache and the server and `WorkCopy` of the copy the
  reconcile works on. A write keeps it because a version is followed
  (`Follows`) by one of the same pod, by none, or by a pod with a new uid. These
  facts about values are proved first (`PrecedesNext`, `LogAppend`, `LogTail`,
  `LogFreed`), so that the lemma of each action only has to say which of them it
  is. `AddressesAreGuarded` is `Logs` at the last version.
* `Ownership`: as long as no release was irregular, the addresses a name claims
  (its tracking entry, and its annotation until released) are all in use in some
  allocator, and no two names claim the same. An allocator grants only an address
  that is in use in no subnet (`GrantIsFresh`: blocks are disjoint); annotating a
  pod writes the address already tracked for it (`WorkAddress`); handleDeletion
  and UndoAllocation release an address of the pod's own claim
  (`DeletePortClaims`, `UndoClaims`), by what `WorkCopy` says of their copy.
  `AddressesAreUnique` follows: a pod with its network has its address in its
  claim. Without `WorkCopy` the invariant is not inductive: a reconcile could
  then release, from a stale copy, an address that has become another pod's.

`PortsFollowPods` (`PortsAlwaysFollow`) needs `PortInv`, which adds to these, for
a pod that can be given one subnet only (`OneChoice`):

* `Subnets`: whatever it was given is of that subnet;
* `Owned`: as long as OVN answered every call, a port is of the pod all versions
  under way are of, its address not released, the finalizer in place; and what a
  reconcile has learnt of the port still holds when it uses it;
* `Told`: without a restart, the port has the tracked address, and so has the
  annotation.

Of a pod with a choice of subnets this cannot be said: its port may be on one
switch and its annotation name another (section 6).

For any number of Subnets, lives, versions and writes of ZStack's, and any CIDRs
of finite pools (`SubnetControllerProofs`), the invariant has four parts beside
the types:

* `IpamInv`: what the pods hold is taken from the allocator that the map has, and
  held once, unless that allocator was dropped in use (`forgotten`); the pointer
  the pod worker took from the map is still the map's; between the two reads of a
  status, `avail` and what is taken make up the pool unless the count moved in
  between (`torn`). From it `AllocatorsAreSound` and `StatusAlwaysAddsUp`.
* `LogInv`: what a copy of a Subnet, however old, still tells. A version with the
  finalizer that is not being deleted is followed only by versions of the same
  life with the finalizer, and deletion is final.
* `RowInv`: a row that is ours belongs to the present life of its Subnet, and the
  UUID a reconcile holds is no other switch's. It is what makes the two
  transactions of an update or a deletion safe: whatever ZStack does between
  them, the second one cannot hit a row of ZStack's. From it `ZStackIsRespected`
  and `DeletionOnly`.
* `SpecInv`: a switch that is not as the spec says is queued, waiting, worked on,
  or an event on its way. From it `SwitchAlwaysFollowsSpec`.

For any policies, pods, priorities and edits (`PolicyControllerProofs`):

* `SoundInv`: the ACLs there are sound, and so will they be with those still to be
  created. The order in which the code lists a policy's ACLs does it, denial
  first (`AlwaysDenied`).
* `FollowInv` and `LeftInv`: unless the policy is queued, the rows and what the
  reconcile in progress has still to write are together what the policy comes to
  (`ACLsAlwaysFollow`, `NothingIsLeft`).
* `PolicyACLs` flattens a sequence of rules. What is needed of it (that it is the
  rules' ACLs one after the other, in order) goes by least counterexample: if it failed, it would
  fail at a least number of rules, and one rule fewer would do
  (`LeastElement`, from the library's facts on finite sets). This takes the place of
  the induction theorems, which the provers cannot apply.

For any Services, with any number of ports, endpoints, nodes and switches
(`OVNProofs`), `ServiceInv` has these parts beside the types:

* `Place` and `Progress`: a reconcile has come to a place in the list of its
  Service's items; the load balancers of the items passed are there, keep the
  source where they must, and have the VIPs of the last item of each name, the
  later of two ports of one protocol overwriting the earlier. That is of the
  Service and endpoints it has read, which are those there are unless the key is
  queued again.
* `Result`: so the last reconcile has left the whole list. `LoadBalancersAreSound`
  then follows from there being a last item of each name (`LeastElement` again).
* `Attachments`: a load balancer is on all active switches unless it is being
  attached, or the attachment failed and was only logged (`excused`).
* `Recorded`: every load balancer there is can be found again: it is tracked, in
  the list of a deletion under way, or excused. From it `NothingIsLeftBehind`.

For any callers, loops, reconnects and attempts of the external database manager
(also `OVNProofs`): a client is dialed by one goroutine at a time and is not the
manager's yet (`Hands`); `healthCheckDone` is closed once for each loop that has
ended, and none ends before `stopCh` is closed (`Ends`); until Connect is called
again there is one loop (`Once`), and a reconnect that is the only one has the
connection to itself (`Alone`). `ClientsAreSound` (no client leaks, "connected"
means that there is one) and `ClosedForGood` follow; both except what a second Connect, overlapping
reconnects or one that outlives Close can do, and the invariant shows that there
is no other cause.

For any number of agents, nodes and node subnets (`NodeProofs`):

* `Invariance`: types, every agent's allocator sound for the cluster (the lemmas
  about SubnetAllocator apply to it as they stand), a UUID for every row, and
  `Faithful`: a reconcile that is about to write a node's subnet works from a
  version whose subnet, if it had one, is the one it will write.
* `TypeCorrect` follows, and so does `SubnetsAreFinal` (`SubnetsStay`): the only
  step of an agent that writes a node writes over exactly the version it read.
  Without `Faithful` the property is not inductive: a reconcile could hold a
  subnet of its own choice against a copy that has one.
* `EveryIndexIsZero`: AllocateSubnet gives subnet 0 whatever the allocator found,
  which is why `node_subnets` fails on every instance with two nodes.

For any interfaces, addresses, CIDRs and interruptions of a node agent's start
(also `NodeProofs`): `HostInv` says which parts run at each phase, and what the
settings left by all earlier starts can be. A bridge to the wire has the
interface, unless a run was cut off between the two commands (`BridgeHasUplink`);
a remote in the database is the configuration's or an earlier one's
(`RemoteExplained`); a masqueraded cluster has its exception, and an exception is
for the configured service CIDR (`ExceptionsFollow`), unless that has been changed
since one was made, which is what `Current` widens; a tunnel that reports itself configured has its three
settings (`TunnelsSet`). Without `ExceptionsFollow` a new configuration could leave
exceptions for other services behind with no excuse. `GatewayIsSound` and `TunnelsAlwaysFollow` follow.

For any number of sandboxes of a pod name, pods, DELs and failures (`CNIProofs`):

* `Invariance`: types, and for each sandbox `Consistent`: an ADD past a step has
  made that part of the path, unless a DEL of another sandbox has taken it
  (`robbed`); a DEL under way is for a sandbox that is stopping or gone, and one
  between its two commands is at a port of its own or one noted in `robbed`. The
  second is what keeps a sandbox's own DEL from taking the path of a ready one,
  the first what lets the last step of an ADD answer well. `OneSandbox` does the
  work: a step for one sandbox leaves the others as they are or robs them.
* `ReadySandboxes` (`ReadyHasPath`) follows.
* `LeftInvariance` is about what is left. A DEL takes some port of the pod name,
  not its own sandbox's, so which port belongs to which DEL is not an invariant;
  their number is: there are never more ports than sandboxes whose DEL is still
  to take one (`Covered`). `HostIsSound` follows (when all sandboxes are gone no
  port is left). It also says that a robbed sandbox has no address, except while
  the DEL is between its two commands or has stopped there (`LinkLeft`): with that
  `ChecksAreSound` follows, which makes the same exception.

Each invariant was checked by TLC as an invariant of a run of its module before
it was proved.

Assumptions: those of the modules' `ASSUME`s, which TLC evaluates in the runs.
Beside the types of the constants they say that the sets counted over (Subnets and
their pools, sandboxes, agents and nodes, health-check loops) are finite, that a
goroutine is of one kind, that Subnets are disjoint (the Pod controller), and that
a Service other than an ExternalName or headless one has a port, as the API server
demands.

Only model-checked: liveness, for fairness and ENABLED are beyond the prover
(`Terminates`, `PodGetsNetwork`, `DeletionOfRunningCompletes`, `SubnetSettles`,
`CloseReturnsUnlessChecking`, `Recovers`, `ServiceSettles`, `PolicySettles`,
`RequestsEnd`, `NodesSettle`, `AgentComesUp`), and the counterexample of
`node_subnets`, whose cause `EveryIndexIsZero` proves.

## 6. What the models show of the code beside the properties

These are behaviours of the code that the models contain and the properties make
exceptions for, at the line where they come from.

Pods and subnets:

* After a restart the allocators start empty and configured pods are not entered
  again: the next pods may be given their addresses (`subnet_controller.go:303`).
* A second handleDeletion for one pod releases an address that may be another
  pod's by then (`pod_controller.go:495`).
* A pod that is deleted before its annotation is stored leaks its address: the
  deletion drops the tracking entry without a release (`:488`).
* A retry that finds another subnet keeps the first one's address, and the
  switch in the annotation is not the one the port is on (`:382`).
* A pod that has run to an end keeps the finalizer, for whether a pod is managed
  is asked first (`:148`); a pod that found no subnet is not tried again when one
  becomes ready, because Reconcile drops the Requeue that configurePodNetwork
  asks for (`:176`, `:231`).
* A range written high-low in an exclude list excludes the addresses outside it
  (`subnet_allocator.go:114`).
* An edit of a Subnet's CIDR changes the switch and the status but not the
  allocator (`subnet_controller.go:303`); deleting a Subnet drops the allocator
  while pods use it (`:377`).

OVN connection:

* Close holds the mutex while it waits for the health-check loop, and a loop with
  a check in hand waits for the mutex (`external.go:336`). A second Connect starts
  a second loop; both close `healthCheckDone`, and the second panics.
* The binaries use `Client` and not the manager; `Client.Connect` holds its own
  mutex through the whole retry (`client.go:231`).

Services and policies:

* Two ports of one protocol share a load balancer, and the last one's VIPs are
  the ones left (`service_controller.go:447`).
* Changes of nodes and subnets queue nothing (`:859`). A Service that becomes
  ExternalName keeps its load balancers, `skip_snat` is never taken off, and a
  target port given by name becomes 0 (`:211`).
* A policy's ACLs are deleted and made again in separate transactions
  (`policy_controller.go:122`): between them the pods are open. Changes of pods
  queue nothing. A rule whose peers are selectors only allows every address.
  While no selected pod has an address there is no denial, and an allow rule's
  match names no pods.
* `AddACLsToLogicalSwitch` has no caller: the ACLs are rows that no switch refers
  to. The models compare rows.

Nodes:

* A DEL of an old sandbox removes the port, and the logical switch port, of the
  next sandbox of the pod name; nobody makes the switch port again, although the
  comment above HandleAdd has "Creates OVN Logical Switch Port if not exists"
  (`handler.go:119`).
* Between the two commands of a DEL, and for good if the second fails or the
  server stops there, CHECK passes for a sandbox whose port is gone as long as
  another port of the pod name is whole (`helper_linux.go:404`, `:461`).
* A tunnel that could not be configured is not tried again ("tunnels may be
  configured later", `cmd/zstack-ovnkube-node/main.go:369`).
* What a run left out between a bridge and its port, or between the two NAT rules,
  no later run adds (`gateway.go:284`, `:345`). For the same reason a service CIDR
  that is changed while its cluster is masqueraded is not excepted until the node
  has been rebooted.

## 7. Not modelled

* The controller binary: it connects the client and registers the controllers;
  what matters of it (one worker per controller, a restart with empty maps) is in
  the controllers' modules.
* DPDK: files and sysfs entries of a device, which neither the controllers nor
  the CNI server reach.
* Configuration: parsing, defaults and validation; the settings the node agent
  goes by are in `NodeHost`. Events, logging and metrics: output only.
* Functions nothing calls: AllocateIPForPod and ReleaseIPForPod, the port setters,
  CheckForConflicts, the lists of switches, AddVip, RemoveVip and UpdateBackends,
  the ACL logging and the match builders outside the policy controller, AddRoute,
  DeleteRoute, CleanupSNAT, tunnel ports and getters.
* NewClient's validation and TLS set-up and the read-only queries of the manager;
  JSON, routes and MTU in the CNI plugin.
* IPv6 and dual stack: the allocator converts every address to four bytes.
* Several Services or policies at once: no two share a row, and each controller
  has one worker.
