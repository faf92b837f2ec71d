---------------------------- MODULE PodController ---------------------------
(***************************************************************************)
(* pkg/ovn/pod_controller.go: the Pod reconciler, with the parts it works  *)
(* against: the API server and the informer cache it reads through, the    *)
(* controller's work queue, the subnets' IP allocators kept by the Subnet  *)
(* reconciler, and the ports in the OVN northbound database.               *)
(*                                                                         *)
(* One step is one call that leaves the process (an API write, an OVN      *)
(* call) together with the in-memory work up to the next one, so the       *)
(* users, the kubelet, the informer and the Subnet reconciler interleave   *)
(* wherever the code waits.  One worker runs (MaxConcurrentReconciles is   *)
(* left at 1).  freed and causes are history variables: they record what   *)
(* happened and no action of the system reads them.                        *)
(***************************************************************************)
EXTENDS SubnetAllocator, Sequences

CONSTANTS
  Pod,               \* pod names (namespace/name)
  Subnet,            \* Subnet objects
  NoPod, NoSubnet,   \* neither of those
  CidrOf,            \* Spec.CIDR of each subnet
  ExcludesOf,        \* Spec.ExcludeIPs of each subnet, its gateway included
  Explicit,          \* the subnet a pod's own annotation names, or NoSubnet
  NamespaceSubnets,  \* the subnets that list the pod's namespace
  DefaultSubnets,    \* the subnets with Spec.Default
  InitiallyActive,   \* subnets reconciled before the first pod appears
  HostNetworkPods,   \* host-network and mirror pods
  CompletingPods,    \* pods whose containers may run to an end
  Graceful,          \* whether a deletion leaves containers time to stop
  MaxBirths,         \* bound: pods created under one name
  MaxStatus,         \* bound: further status writes by the kubelet per pod
  MaxFaults,         \* bound: calls that fail or whose answer is lost
  MaxRestarts,       \* bound: restarts of the controller
  MaxLag             \* bound: versions the informer may be behind

ASSUME PodAssumption ==
  /\ NoPod \notin Pod /\ NoSubnet \notin Subnet
  /\ CidrOf \in [Subnet -> AllocatableCIDRs]
  /\ ExcludesOf \in [Subnet -> SUBSET ExcludeSpecs]
  /\ Explicit \in [Pod -> Subnet \cup {NoSubnet}]
  /\ NamespaceSubnets \in [Pod -> SUBSET Subnet]
  /\ DefaultSubnets \subseteq Subnet /\ InitiallyActive \subseteq Subnet
  /\ HostNetworkPods \subseteq Pod /\ CompletingPods \subseteq Pod
  /\ Graceful \in BOOLEAN
  /\ {MaxBirths, MaxStatus, MaxFaults, MaxRestarts, MaxLag} \subseteq Nat

\* Two subnets share no address, so an address belongs to one allocator.
ASSUME DisjointSubnets ==
  \A s, t \in Subnet : s # t =>
    \/ CidrOf[s].base + CidrOf[s].total <= CidrOf[t].base
    \/ CidrOf[t].base + CidrOf[t].total <= CidrOf[s].base

VARIABLES
  log,         \* per name: versions from the one in the cache to the API server's
  births,      \* per name: pods created so far
  queue,       \* keys in the work queue
  backoff,     \* keys to be queued again after a rate-limited delay
  work,        \* the reconcile in progress
  tracked,     \* podAllocations: name -> address, 0 for no entry
  allocators,  \* subnet name -> allocator, of the subnets that have one
  active,      \* subnets whose status says Active
  port,        \* OVN: logical switch port of each name
  faults, restarts,
  freed,       \* history: uid of the last pod of this name whose IP was released
  causes       \* history: irregular releases that have happened

vars == <<log, births, queue, backoff, work, tracked, allocators, active,
          port, faults, restarts, freed, causes>>

apiVars    == <<log, births>>
queueVars  == <<queue, backoff>>
memoryVars == <<tracked, allocators>>
history    == <<freed, causes>>

-----------------------------------------------------------------------------
(* Pods.  A version of a pod is all of it that the controller can see; a   *)
(* write always changes it and never back, so two versions are equal just  *)
(* when their resourceVersions are.                                        *)

PodVersions ==
  [uid : Nat,                       \* 0: no pod of this name
   fin : BOOLEAN,                   \* our finalizer
   ip : Nat,                        \* network annotation: address, 0 if not set
   subnet : Subnet \cup {NoSubnet}, \* network annotation: subnet
   del : BOOLEAN,                   \* DeletionTimestamp is set
   grace : BOOLEAN,                 \* the kubelet has yet to stop the containers
   done : BOOLEAN,                  \* phase Succeeded or Failed
   status : Nat]                    \* other status writes

Absent == [uid |-> 0, fin |-> FALSE, ip |-> 0, subnet |-> NoSubnet,
           del |-> FALSE, grace |-> FALSE, done |-> FALSE, status |-> 0]

NoPort == [ip |-> 0, subnet |-> NoSubnet, uid |-> 0]

Cached(p) == Head(log[p])
Server(p) == log[p][Len(log[p])]

Exists(v) == v.uid # 0

HasPodAnnotation(v) == v.ip # 0

shouldManagePod(p, v) == p \notin HostNetworkPods /\ ~ v.done

\* What the API server keeps of a version: nothing, once a pod that is being
\* deleted has neither a finalizer nor containers left to stop.
Stored(v) == IF v.del /\ ~ v.fin /\ ~ v.grace THEN Absent ELSE v

Write(p, v) == log' = [log EXCEPT ![p] = Append(@, Stored(v))]

-----------------------------------------------------------------------------
(* The reconcile in progress.                                              *)

Idle == [pc |-> "idle", pod |-> NoPod, obj |-> Absent, ip |-> 0, subnet |-> NoSubnet]

At(pc, p, v) == [pc |-> pc, pod |-> p, obj |-> v, ip |-> 0, subnet |-> NoSubnet]

Steps == {"idle", "addFinalizer", "findSubnet", "getPort", "createPort",
          "annotate", "deletePort", "removeFinalizer"}

Init ==
  /\ log = [p \in Pod |-> <<Absent>>]
  /\ births = [p \in Pod |-> 0]
  /\ queue = {} /\ backoff = {}
  /\ work = Idle
  /\ tracked = [p \in Pod |-> 0]
  /\ allocators = [s \in InitiallyActive |-> NewSubnetAllocator(CidrOf[s], ExcludesOf[s])]
  /\ active = InitiallyActive
  /\ port = [p \in Pod |-> NoPort]
  /\ faults = 0 /\ restarts = 0
  /\ freed = [p \in Pod |-> 0]
  /\ causes = {}

-----------------------------------------------------------------------------
(* The API server's other clients: users and the kubelet.                  *)

NotBehind(p) == Len(log[p]) <= MaxLag

CreatePod(p) ==
  /\ NotBehind(p) /\ ~ Exists(Server(p)) /\ births[p] < MaxBirths
  /\ births' = [births EXCEPT ![p] = @ + 1]
  /\ Write(p, [Absent EXCEPT !.uid = births[p] + 1])
  /\ UNCHANGED <<queueVars, work, memoryVars, active, port, faults, restarts, history>>

ChangePod(p, v) ==
  /\ NotBehind(p) /\ Exists(Server(p))
  /\ Write(p, v)
  /\ UNCHANGED <<births, queueVars, work, memoryVars, active, port, faults,
                 restarts, history>>

DeletePod(p) ==
  /\ ~ Server(p).del
  /\ ChangePod(p, [Server(p) EXCEPT !.del = TRUE,
                                    !.grace = Graceful /\ ~ Server(p).done])

CompletePod(p) ==
  /\ p \in CompletingPods /\ ~ Server(p).done
  /\ ChangePod(p, [Server(p) EXCEPT !.done = TRUE])

UpdatePodStatus(p) ==
  /\ Server(p).status < MaxStatus
  /\ ChangePod(p, [Server(p) EXCEPT !.status = @ + 1])

\* The containers of a pod that is being deleted have stopped.
StopContainers(p) ==
  /\ Server(p).grace
  /\ ChangePod(p, [Server(p) EXCEPT !.grace = FALSE])

-----------------------------------------------------------------------------
(* The informer and the work queue.                                        *)

\* Mutation of podEventFilter: a pod that starts to be deleted is treated as
\* any other update.
FilterIgnoresDeletion(p, old, new) ==
  \/ ~ Exists(new)
  \/ ~ Exists(old) /\ shouldManagePod(p, new)
  \/ /\ Exists(old) /\ Exists(new) /\ shouldManagePod(p, new)
     /\ \/ HasPodAnnotation(old) # HasPodAnnotation(new)
        \/ old.fin # new.fin

\* podEventFilter, for the event that takes the cache from old to new.
podEventFilter(p, old, new) ==
  \/ ~ Exists(new)
  \/ ~ Exists(old) /\ shouldManagePod(p, new)
  \/ /\ Exists(old) /\ Exists(new)
     /\ \/ new.del
        \/ /\ shouldManagePod(p, new)
           /\ \/ HasPodAnnotation(old) # HasPodAnnotation(new)
              \/ old.fin # new.fin

Deliver(p) ==
  /\ Len(log[p]) > 1
  /\ log' = [log EXCEPT ![p] = Tail(@)]
  /\ queue' = IF podEventFilter(p, log[p][1], log[p][2]) THEN queue \cup {p} ELSE queue
  /\ UNCHANGED <<births, backoff, work, memoryVars, active, port, faults, restarts, history>>

BackoffExpires(p) ==
  /\ p \in backoff
  /\ backoff' = backoff \ {p}
  /\ queue' = queue \cup {p}
  /\ UNCHANGED <<apiVars, work, memoryVars, active, port, faults, restarts, history>>

\* The reconcile returns; again says whether with an error or Requeue.
Return(again) ==
  /\ work' = Idle
  /\ backoff' = IF again THEN backoff \cup {work.pod} ELSE backoff
  /\ UNCHANGED queue

-----------------------------------------------------------------------------
(* Reconcile, up to its first call.                                        *)

\* Mutation of FirstStep: the network comes before the finalizer.
FirstStepUnguarded(v) == IF v.del THEN "deletePort" ELSE "findSubnet"

\* What the cached version asks for.
FirstStep(v) ==
  CASE v.del                 -> "deletePort"
    [] ~ v.del /\ ~ v.fin    -> "addFinalizer"
    [] ~ v.del /\ v.fin      -> "findSubnet"

\* Mutation of NothingToDo: a pod that has its annotation is configured again.
NothingIfUnmanaged(p, v) == ~ shouldManagePod(p, v)

NothingToDo(p, v) ==
  \/ ~ shouldManagePod(p, v)
  \/ ~ v.del /\ v.fin /\ HasPodAnnotation(v)

\* The cached pod is gone: only the tracking entry is dropped.
ReconcileGone(p) ==
  /\ work.pc = "idle" /\ p \in queue /\ ~ Exists(Cached(p))
  /\ queue' = queue \ {p}
  /\ tracked' = [tracked EXCEPT ![p] = 0]
  /\ UNCHANGED <<apiVars, backoff, work, allocators, active, port, faults,
                 restarts, history>>

ReconcileNothing(p) ==
  /\ work.pc = "idle" /\ p \in queue /\ Exists(Cached(p))
  /\ NothingToDo(p, Cached(p))
  /\ queue' = queue \ {p}
  /\ UNCHANGED <<apiVars, backoff, work, memoryVars, active, port, faults,
                 restarts, history>>

Reconcile(p) ==
  /\ work.pc = "idle" /\ p \in queue /\ Exists(Cached(p))
  /\ ~ NothingToDo(p, Cached(p))
  /\ queue' = queue \ {p}
  /\ work' = At(FirstStep(Cached(p)), p, Cached(p))
  /\ UNCHANGED <<apiVars, backoff, memoryVars, active, port, faults, restarts, history>>

-----------------------------------------------------------------------------
(* client.Update: the write is refused unless the object still has the     *)
(* version that was read; it may fail, or be done and its answer be lost.  *)

Current == Server(work.pod) = work.obj

Fault == faults < MaxFaults /\ faults' = faults + 1

Update(v, ok) ==
  \/ ok /\ Current /\ Write(work.pod, v) /\ UNCHANGED faults
  \/ ~ ok /\ ~ Current /\ UNCHANGED <<log, faults>>
  \/ ~ ok /\ Fault /\ (UNCHANGED log \/ (Current /\ Write(work.pod, v)))

\* Mutation of AddFinalizer: the reconcile ends without Requeue or error, for
\* the event of the new finalizer to bring the pod back.
AddFinalizerOnce ==
  /\ work.pc = "addFinalizer"
  /\ \E ok \in BOOLEAN : Update([work.obj EXCEPT !.fin = TRUE], ok)
  /\ Return(FALSE)
  /\ UNCHANGED <<births, memoryVars, active, port, restarts, history>>

AddFinalizer ==
  /\ work.pc = "addFinalizer"
  /\ \E ok \in BOOLEAN : Update([work.obj EXCEPT !.fin = TRUE], ok)
  /\ Return(TRUE)
  /\ UNCHANGED <<births, memoryVars, active, port, restarts, history>>

-----------------------------------------------------------------------------
(* configurePodNetwork.                                                    *)

\* The subnets findSubnetForPod may return: the order of the listed subnets
\* is not defined, so any of the matching ones.
SubnetChoices(p) ==
  LET byNamespace == NamespaceSubnets[p] \cap active
      byDefault   == DefaultSubnets \cap active
  IN  IF Explicit[p] # NoSubnet THEN {Explicit[p]} \cap active
      ELSE IF byNamespace # {} THEN byNamespace
      ELSE IF byDefault # {} THEN byDefault
      ELSE active

\* Reconcile drops the Requeue that configurePodNetwork asks for when there
\* is no subnet yet; a subnet named by the pod that is not active is an error.
FindNoSubnet ==
  /\ work.pc = "findSubnet" /\ SubnetChoices(work.pod) = {}
  /\ Return(Explicit[work.pod] # NoSubnet)
  /\ UNCHANGED <<apiVars, memoryVars, active, port, faults, restarts, history>>

\* The allocator has not been created yet, or has no address left.
CannotAllocate(s) ==
  s \in DOMAIN allocators => tracked[work.pod] = 0 /\ Exhausted(allocators[s])

AllocateFails ==
  /\ work.pc = "findSubnet"
  /\ \E s \in SubnetChoices(work.pod) : CannotAllocate(s)
  /\ Return(TRUE)
  /\ UNCHANGED <<apiVars, memoryVars, active, port, faults, restarts, history>>

\* An address tracked under the pod's name is used again, from whichever
\* subnet it came.
AllocateIP(s) ==
  IF tracked[work.pod] # 0
  THEN /\ work' = [work EXCEPT !.pc = "getPort", !.subnet = s, !.ip = tracked[work.pod]]
       /\ UNCHANGED memoryVars
  ELSE LET ip == NextIP(allocators[s]) IN
       /\ work' = [work EXCEPT !.pc = "getPort", !.subnet = s, !.ip = ip]
       /\ allocators' = [allocators EXCEPT ![s] = AllocateNext(@)]
       /\ tracked' = [tracked EXCEPT ![work.pod] = ip]

FindSubnet ==
  /\ work.pc = "findSubnet"
  /\ \E s \in SubnetChoices(work.pod) : ~ CannotAllocate(s) /\ AllocateIP(s)
  /\ UNCHANGED <<apiVars, queueVars, active, port, faults, restarts, history>>

\* Mutation of UndoAllocation: the tracking entry outlives the release.
UndoKeepsEntry ==
  /\ allocators' = [allocators EXCEPT ![work.subnet] = Release(@, work.ip)]
  /\ Return(TRUE)
  /\ UNCHANGED <<tracked, history>>

\* The address is released in the allocator of the subnet of this attempt.
\* History: the release is irregular if the pod has been given the address
\* for good by an earlier attempt.
UndoAllocation ==
  /\ allocators' = [allocators EXCEPT ![work.subnet] = Release(@, work.ip)]
  /\ tracked' = [tracked EXCEPT ![work.pod] = 0]
  /\ causes' = IF Server(work.pod).uid = work.obj.uid /\ Server(work.pod).ip = work.ip
               THEN causes \cup {"undo"} ELSE causes
  /\ Return(TRUE)
  /\ UNCHANGED freed

\* createLogicalSwitchPort: a port of that name is taken for this pod's.
GetPort ==
  /\ work.pc = "getPort"
  /\ work' = [work EXCEPT !.pc = IF port[work.pod] # NoPort THEN "annotate" ELSE "createPort"]
  /\ UNCHANGED <<apiVars, queueVars, memoryVars, active, port, faults, restarts, history>>

GetPortFails ==
  /\ work.pc = "getPort" /\ Fault
  /\ UndoAllocation
  /\ UNCHANGED <<apiVars, active, port, restarts>>

\* Mutation of NewPort: the pod's UID is left out of the external IDs.
NewPortWithoutUID == [ip |-> work.ip, subnet |-> work.subnet]

NewPort == [ip |-> work.ip, subnet |-> work.subnet, uid |-> work.obj.uid]

CreatePort ==
  /\ work.pc = "createPort"
  /\ port' = [port EXCEPT ![work.pod] = NewPort]
  /\ work' = [work EXCEPT !.pc = "annotate"]
  /\ UNCHANGED <<apiVars, queueVars, memoryVars, active, faults, restarts, history>>

\* The transaction fails, or its answer is lost.
CreatePortFails ==
  /\ work.pc = "createPort" /\ Fault
  /\ \/ UNCHANGED port
     \/ port' = [port EXCEPT ![work.pod] = NewPort]
  /\ UndoAllocation
  /\ UNCHANGED <<apiVars, active, restarts>>

\* If the Update fails, the address stays tracked and the port stays.
Annotate ==
  /\ work.pc = "annotate"
  /\ \E ok \in BOOLEAN :
       /\ Update([work.obj EXCEPT !.ip = work.ip, !.subnet = work.subnet], ok)
       /\ Return(~ ok)
  /\ UNCHANGED <<births, memoryVars, active, port, restarts, history>>

-----------------------------------------------------------------------------
(* handleDeletion.                                                         *)

\* Release of the annotation's address, without looking whether it has been
\* released before.
ReleaseAnnotated ==
  LET s == work.obj.subnet IN
  IF HasPodAnnotation(work.obj) /\ s \in DOMAIN allocators
  THEN allocators' = [allocators EXCEPT ![s] = Release(@, work.obj.ip)]
  ELSE UNCHANGED allocators

\* Mutation of PortRemoved: a pod without an annotation is taken to have no
\* port.
RemovedIfAnnotated ==
  port' = IF HasPodAnnotation(work.obj) THEN [port EXCEPT ![work.pod] = NoPort] ELSE port

\* A pod that has its annotation names the switch to take the port from; OVN
\* refuses to delete a port that another switch still refers to.  Without an
\* annotation the port itself says which switch it is on.
RemovesPort ==
  HasPodAnnotation(work.obj) => port[work.pod].subnet = work.obj.subnet

PortRemoved ==
  port' = IF RemovesPort THEN [port EXCEPT ![work.pod] = NoPort] ELSE port

\* A failure to delete the port is logged and passed over.  The address is
\* released and the tracking entry dropped in the same step.
DeletePort ==
  /\ work.pc = "deletePort"
  /\ \/ PortRemoved /\ UNCHANGED faults
     \/ Fault /\ (UNCHANGED port \/ PortRemoved)
  /\ ReleaseAnnotated
  /\ tracked' = [tracked EXCEPT ![work.pod] = 0]
  /\ freed' = [freed EXCEPT ![work.pod] = work.obj.uid]
  /\ causes' = IF freed[work.pod] = work.obj.uid THEN causes \cup {"rerun"} ELSE causes
  /\ IF work.obj.fin
     THEN work' = [work EXCEPT !.pc = "removeFinalizer"] /\ UNCHANGED queueVars
     ELSE Return(FALSE)
  /\ UNCHANGED <<apiVars, active, restarts>>

RemoveFinalizer ==
  /\ work.pc = "removeFinalizer"
  /\ \E ok \in BOOLEAN : Update([work.obj EXCEPT !.fin = FALSE], ok) /\ Return(~ ok)
  /\ UNCHANGED <<births, memoryVars, active, port, restarts, history>>

-----------------------------------------------------------------------------
(* The Subnet reconciler, as far as the Pod reconciler depends on it, and  *)
(* a restart of the process.                                               *)

\* A new allocator knows of the subnet's exclude list and of no pod.
EnsureIPAllocator(s) ==
  /\ s \notin DOMAIN allocators
  /\ allocators' = [t \in DOMAIN allocators \cup {s} |->
                      IF t = s THEN NewSubnetAllocator(CidrOf[s], ExcludesOf[s])
                               ELSE allocators[t]]
  /\ UNCHANGED <<apiVars, queueVars, work, tracked, active, port, faults, restarts, history>>

UpdateStatusActive(s) ==
  /\ s \in DOMAIN allocators /\ s \notin active
  /\ active' = active \cup {s}
  /\ UNCHANGED <<apiVars, queueVars, work, memoryVars, port, faults, restarts, history>>

\* All maps and queues are lost; the informer lists the pods anew and queues
\* those that pass the filter for created objects.
Restart ==
  /\ restarts < MaxRestarts
  /\ restarts' = restarts + 1
  /\ log' = [p \in Pod |-> <<Server(p)>>]
  /\ queue' = {p \in Pod : Exists(Server(p)) /\ shouldManagePod(p, Server(p))}
  /\ backoff' = {}
  /\ work' = Idle
  /\ tracked' = [p \in Pod |-> 0]
  /\ allocators' = [s \in {} |-> EmptyAllocator(CidrOf[s])]
  /\ causes' = causes \cup {"restart"}
  /\ UNCHANGED <<births, active, port, faults, freed>>

-----------------------------------------------------------------------------
Cluster(p) ==
  CreatePod(p) \/ DeletePod(p) \/ CompletePod(p) \/ UpdatePodStatus(p) \/ StopContainers(p)

Dequeue(p) == ReconcileGone(p) \/ ReconcileNothing(p) \/ Reconcile(p)

Worker ==
  \/ AddFinalizer \/ FindNoSubnet \/ AllocateFails \/ FindSubnet
  \/ GetPort \/ GetPortFails \/ CreatePort \/ CreatePortFails \/ Annotate
  \/ DeletePort \/ RemoveFinalizer

SubnetSide(s) == EnsureIPAllocator(s) \/ UpdateStatusActive(s)

Next ==
  \/ \E p \in Pod : Cluster(p) \/ Deliver(p) \/ BackoffExpires(p) \/ Dequeue(p)
  \/ Worker
  \/ \E s \in Subnet : SubnetSide(s)
  \/ Restart

Spec == Init /\ [][Next]_vars

\* The informer, the timers, the worker and the Subnet reconciler keep
\* running and containers stop in the end.  The work queue is first in, first
\* out, so no key waits forever while others are taken: strong fairness.
Fairness ==
  /\ \A p \in Pod : /\ WF_vars(Deliver(p)) /\ WF_vars(BackoffExpires(p))
                    /\ SF_vars(Dequeue(p)) /\ WF_vars(StopContainers(p))
  /\ WF_vars(Worker)
  /\ \A s \in Subnet : WF_vars(SubnetSide(s))

FairSpec == Spec /\ Fairness

-----------------------------------------------------------------------------
(* Properties                                                              *)

Ports == [ip : Nat, subnet : Subnet \cup {NoSubnet}, uid : Nat]

Works == [pc : Steps, pod : Pod \cup {NoPod}, obj : PodVersions, ip : Nat,
          subnet : Subnet \cup {NoSubnet}]

TypeOK ==
  /\ log \in [Pod -> Seq(PodVersions)]
  /\ \A p \in Pod : log[p] # <<>>
  /\ births \in [Pod -> Nat]
  /\ queue \subseteq Pod /\ backoff \subseteq Pod
  /\ work \in Works
  /\ work.pc = "idle" \/ work.pod \in Pod
  /\ tracked \in [Pod -> Nat]
  /\ DOMAIN allocators \subseteq Subnet
  /\ \A s \in DOMAIN allocators : allocators[s] \in Allocators(CidrOf[s])
  /\ active \subseteq Subnet
  /\ port \in [Pod -> Ports]
  /\ faults \in Nat /\ restarts \in Nat
  /\ freed \in [Pod -> Nat]
  /\ causes \subseteq {"restart", "rerun", "undo"}

\* The addresses the allocators have handed out.
TakenIPs == UNION {Held(allocators[s]) : s \in DOMAIN allocators}

\* A pod that has its network and is not on its way out.
Networked(p) == HasPodAnnotation(Server(p)) /\ ~ Server(p).del

\* Two pods of the cluster never have the same address.
UniqueIPs ==
  \A p, q \in Pod : p # q /\ Networked(p) /\ Networked(q) => Server(p).ip # Server(q).ip

\* The complete list of what can break it: a restart, a second run of
\* handleDeletion for the same pod, or a failed OVN call that undoes an
\* allocation the pod already has in its annotation.  Conflicts, retries,
\* stale reads and pods that are replaced under the same name do not.
UniqueUnlessReleasedInUse == causes = {} => UniqueIPs

\* Once a pod's network is decided it stays: whatever stale copy a reconcile
\* worked from, it never gives a pod another address or removes it.
KeepsAnnotations ==
  \A p \in Pod :
    (HasPodAnnotation(Server(p)) /\ Server(p)'.uid = Server(p).uid)
      => Server(p)'.ip = Server(p).ip /\ Server(p)'.subnet = Server(p).subnet

AnnotationNeverChanges == [][KeepsAnnotations]_vars

\* A pod with an address cannot leave the API server before handleDeletion
\* has run for it: until then our finalizer holds it there.
AddressIsGuarded ==
  \A p \in Pod : HasPodAnnotation(Server(p)) /\ freed[p] # Server(p).uid => Server(p).fin

\* A pod that can only be given one subnet.  Others may have a port on the
\* switch of one and, by a retry, the annotation of another.
OneChoice(p) == Explicit[p] # NoSubnet \/ \E s \in Subnet : Subnet = {s}

\* No port outlives its pod, as long as OVN answers.
NoOrphanPort ==
  faults = 0 => \A p \in Pod : OneChoice(p) /\ port[p] # NoPort =>
                  Exists(Server(p)) /\ Server(p).fin /\ port[p].uid = Server(p).uid

\* The port OVN has carries the address the pod was told about, as long as
\* OVN answers and the controller keeps its memory.
PortMatchesAnnotation ==
  (faults = 0 /\ restarts = 0) =>
    \A p \in Pod : OneChoice(p) /\ Networked(p) =>
      /\ port[p].ip = Server(p).ip /\ port[p].subnet = Server(p).subnet
      /\ port[p].uid = Server(p).uid

\* The ports OVN has follow the pods the API server has.
PortsFollowPods == NoOrphanPort /\ PortMatchesAnnotation

\* A pod that is being deleted loses our finalizer in the end, unless it has
\* run to an end by then.
DeletionOfRunningCompletes ==
  \A p \in Pod : Exists(Server(p)) /\ Server(p).del
                   ~> ~ Server(p).fin \/ ~ Exists(Server(p)) \/ Server(p).done

\* A reconcile of the pod is about to find that there is no subnet at all: what
\* Reconcile returns then has neither an error nor the Requeue asked for.
LooksInVain(p) ==
  work.pc = "findSubnet" /\ work.pod = p /\ Explicit[p] = NoSubnet /\ SubnetChoices(p) = {}

\* The controller has yet to see the pod, or has its key or is at work on it.
Pending(p) ==
  Exists(Server(p)) /\ (p \in queue \cup backoff \/ work.pod = p \/ Cached(p).uid # Server(p).uid)

\* A pod the controller has to do with gets its network, unless it is deleted or
\* finished first, or a reconcile of it comes before every subnet.  That one is
\* not tried again: when a subnet becomes ready, nothing brings the pod back.
PodGetsNetwork ==
  \A p \in Pod : Pending(p)
                   ~> \/ HasPodAnnotation(Server(p))
                      \/ ~ Exists(Server(p)) \/ Server(p).del \/ Server(p).done
                      \/ LooksInVain(p)
=============================================================================
