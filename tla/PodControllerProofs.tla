------------------------ MODULE PodControllerProofs -------------------------
(***************************************************************************)
(* Proofs about PodController, for any number of pods and subnets and any  *)
(* values of the bounds: state stays well formed and annotations are       *)
(* final; an address is guarded until it is released, it is unique as long *)
(* as no release was irregular, and the ports follow the pods.             *)
(***************************************************************************)
EXTENDS PodController, SubnetAllocatorLemmas, SequenceTheorems

-----------------------------------------------------------------------------
(* The inductive invariant.                                                *)

\* The parts of the state have their types; an allocator is one that was
\* made for its subnet, with its exclude set and its counter intact.
ApiTypes ==
  /\ log \in [Pod -> Seq(PodVersions)]
  /\ \A p \in Pod : log[p] # <<>>
  /\ births \in [Pod -> Nat]

QueueTypes == queue \subseteq Pod /\ backoff \subseteq Pod

WorkTypes == work \in Works /\ (work.pc = "idle" \/ work.pod \in Pod)

AllocatorsSound ==
  /\ DOMAIN allocators \subseteq Subnet
  /\ \A s \in DOMAIN allocators : AllocInv(CidrOf[s], ExcludesOf[s], allocators[s])

TrackedTypes == tracked \in [Pod -> Nat]

OvnTypes == port \in [Pod -> Ports] /\ active \subseteq Subnet

CountTypes ==
  /\ faults \in Nat /\ restarts \in Nat
  /\ freed \in [Pod -> Nat]
  /\ causes \subseteq {"restart", "rerun", "undo"}

Types == /\ ApiTypes /\ QueueTypes /\ WorkTypes /\ AllocatorsSound /\ TrackedTypes
         /\ OvnTypes /\ CountTypes

\* The steps at which a reconcile is giving a pod its network.
Configuring == {"findSubnet", "getPort", "createPort", "annotate"}

\* A reconcile works on a version of some pod; while it is giving out an
\* address, on one that had the finalizer and no address.  A name without a
\* pod has no address either.
WorkSound ==
  /\ work.pc # "idle" => Exists(work.obj)
  /\ work.pc \in Configuring => ~ HasPodAnnotation(work.obj) /\ work.obj.fin

AbsentUnannotated == \A p \in Pod : HasPodAnnotation(Server(p)) => Exists(Server(p))

Inv == Types /\ WorkSound /\ AbsentUnannotated

-----------------------------------------------------------------------------
(* Facts about the helpers.                                                *)

\* The null values are of the types they stand in for.
LEMMA AbsentIsVersion == Absent \in PodVersions /\ NoPort \in Ports
BY DEF Absent, PodVersions, NoPort, Ports

\* The API server keeps a version as it is written or drops the pod.
LEMMA StoredIsVersion ==
  ASSUME NEW v \in PodVersions
  PROVE  Stored(v) \in PodVersions /\ (Stored(v) = v \/ Stored(v) = Absent)
BY AbsentIsVersion DEF Stored

\* The oldest and the newest version of a pod.
LEMMA VersionsTyped ==
  ASSUME ApiTypes, NEW p \in Pod
  PROVE  Server(p) \in PodVersions /\ Cached(p) \in PodVersions
<1>1. log[p] \in Seq(PodVersions) /\ log[p] # <<>>
  BY DEF ApiTypes
<1>2. Len(log[p]) \in 1 .. Len(log[p])
  BY <1>1, EmptySeq, LenProperties
<1> QED BY <1>1, <1>2, ElementOfSeq, HeadTailProperties DEF Server, Cached

\* A write appends what is stored of the new version and touches no other pod.
LEMMA WriteAppends ==
  ASSUME ApiTypes, NEW p \in Pod, NEW v \in PodVersions, Write(p, v)
  PROVE  /\ log' \in [Pod -> Seq(PodVersions)] /\ \A q \in Pod : log'[q] # <<>>
         /\ Server(p)' = Stored(v)
         /\ \A q \in Pod \ {p} : Server(q)' = Server(q)
<1>1. log[p] \in Seq(PodVersions) /\ Stored(v) \in PodVersions
  BY StoredIsVersion DEF ApiTypes
<1>2. log' = [log EXCEPT ![p] = Append(log[p], Stored(v))]
  BY DEF Write
<1>3. /\ Append(log[p], Stored(v)) \in Seq(PodVersions)
      /\ Append(log[p], Stored(v)) # <<>>
      /\ Len(Append(log[p], Stored(v))) = Len(log[p]) + 1
      /\ Append(log[p], Stored(v))[Len(log[p]) + 1] = Stored(v)
  BY <1>1, AppendProperties
<1>4. log'[p] = Append(log[p], Stored(v)) /\ \A q \in Pod \ {p} : log'[q] = log[q]
  BY <1>2 DEF ApiTypes
<1>5. log' \in [Pod -> Seq(PodVersions)] /\ \A q \in Pod : log'[q] # <<>>
  BY <1>2, <1>3, <1>4 DEF ApiTypes
<1> QED BY <1>3, <1>4, <1>5 DEF Server

\* Delivering an event leaves the newest version alone.
LEMMA TailKeepsServer ==
  ASSUME NEW V, NEW s \in Seq(V), Len(s) > 1
  PROVE  Tail(s) \in Seq(V) /\ Tail(s) # <<>> /\ Tail(s)[Len(Tail(s))] = s[Len(s)]
<1>1. s # <<>> /\ Len(s) \in Nat
  BY EmptySeq, LenProperties
<1>2. Tail(s) \in Seq(V) /\ Len(Tail(s)) = Len(s) - 1
  BY <1>1, HeadTailProperties
<1>3. \A i \in 1 .. Len(Tail(s)) : Tail(s)[i] = s[i + 1]
  BY <1>1, HeadTailProperties
<1>4. Len(Tail(s)) \in 1 .. Len(Tail(s)) /\ Len(Tail(s)) + 1 = Len(s)
  BY <1>1, <1>2
<1>5. Tail(s) # <<>>
  <2> SUFFICES ASSUME Tail(s) = <<>> PROVE FALSE
    OBVIOUS
  <2>1. Len(Tail(s)) = 0
    BY EmptySeq
  <2> QED BY <1>4, <2>1
<1>6. Tail(s)[Len(Tail(s))] = s[Len(s)]
  BY <1>3, <1>4
<1> QED BY <1>2, <1>5, <1>6

\* client.Update appends a version or none; it changes no other pod.
LEMMA UpdateWrites ==
  ASSUME Types, NEW p \in Pod, work.pod = p, NEW v \in PodVersions, NEW ok, Update(v, ok)
  PROVE  /\ log' \in [Pod -> Seq(PodVersions)] /\ \A q \in Pod : log'[q] # <<>>
         /\ faults' \in Nat
         /\ \/ Server(p)' = Server(p)
            \/ Server(p) = work.obj /\ Server(p)' = Stored(v)
         /\ \A q \in Pod \ {p} : Server(q)' = Server(q)
<1>1. faults' \in Nat
  BY DEF Update, Fault, Types, CountTypes
<1>2. CASE UNCHANGED log
  BY <1>1, <1>2 DEF Server, Types, ApiTypes
<1>3. CASE Current /\ Write(p, v)
  <2>1. Server(p) = work.obj
    BY <1>3 DEF Current
  <2> QED BY <1>1, <1>3, <2>1, WriteAppends DEF Types
<1> QED BY <1>2, <1>3 DEF Update

\* A reconcile that returns leaves well-formed queues and an idle worker.
LEMMA ReturnTypes ==
  ASSUME Types, work.pod \in Pod, NEW again \in BOOLEAN, Return(again)
  PROVE  QueueTypes' /\ WorkTypes' /\ work'.pc = "idle"
BY AbsentIsVersion DEF Types, Return, QueueTypes, WorkTypes, Idle, Works, Steps

\* Another allocator of the same subnet takes the place of one.
LEMMA ReplaceAllocator ==
  ASSUME AllocatorsSound, NEW s, NEW a,
         s \in DOMAIN allocators => AllocInv(CidrOf[s], ExcludesOf[s], a),
         allocators' = [allocators EXCEPT ![s] = a]
  PROVE  AllocatorsSound'
BY DEF AllocatorsSound

\* A release leaves a sound allocator, whatever address it is given.
LEMMA ReleaseSound ==
  ASSUME AllocatorsSound, NEW s, NEW ip \in Nat,
         allocators' = [allocators EXCEPT ![s] = Release(@, ip)]
  PROVE  AllocatorsSound'
<1>1. s \in DOMAIN allocators => AllocInv(CidrOf[s], ExcludesOf[s], Release(allocators[s], ip))
  <2> SUFFICES ASSUME s \in DOMAIN allocators
               PROVE  AllocInv(CidrOf[s], ExcludesOf[s], Release(allocators[s], ip))
    OBVIOUS
  <2>1. s \in Subnet /\ AllocInv(CidrOf[s], ExcludesOf[s], allocators[s])
    BY DEF AllocatorsSound
  <2>2. CidrOf[s] \in AllocatableCIDRs /\ ExcludesOf[s] \in SUBSET ExcludeSpecs
    BY <2>1, PodAssumption
  <2> QED BY <2>1, <2>2, ReleaseGivesBack
<1>2. allocators' = [allocators EXCEPT ![s] = Release(allocators[s], ip)]
  OBVIOUS
<1> QED BY <1>1, <1>2, ReplaceAllocator

-----------------------------------------------------------------------------
(* The initial state.                                                      *)

\* The invariant holds before the first pod appears.
LEMMA InitInv == Init => Inv
<1> SUFFICES ASSUME Init PROVE Inv
  OBVIOUS
<1>1. ApiTypes
  <2>1. <<Absent>> \in Seq(PodVersions) /\ <<Absent>> # <<>>
    BY AbsentIsVersion
  <2> QED BY <2>1 DEF Init, ApiTypes
<1>2. QueueTypes /\ TrackedTypes /\ CountTypes
  BY DEF Init, QueueTypes, TrackedTypes, CountTypes
<1>3. WorkTypes
  BY AbsentIsVersion DEF Init, WorkTypes, Idle, Works, Steps
<1>4. AllocatorsSound
  <2>1. \A s \in InitiallyActive : AllocInv(CidrOf[s], ExcludesOf[s],
                                            NewSubnetAllocator(CidrOf[s], ExcludesOf[s]))
    BY PodAssumption, NewSubnetAllocatorSound
  <2> QED BY <2>1, PodAssumption DEF Init, AllocatorsSound
<1>5. OvnTypes
  BY AbsentIsVersion, PodAssumption DEF Init, OvnTypes
<1>6. WorkSound /\ AbsentUnannotated
  BY DEF Init, WorkSound, AbsentUnannotated, Idle, Configuring, Server, HasPodAnnotation, Absent
<1> QED BY <1>1, <1>2, <1>3, <1>4, <1>5, <1>6 DEF Inv, Types

-----------------------------------------------------------------------------
(* The cluster's other clients.                                            *)

\* What a client may write: a version with the same address, or the first
\* version of a new pod.
LEMMA ClientWrite ==
  ASSUME Inv, NEW p \in Pod, NEW v \in PodVersions, Write(p, v),
         births' \in [Pod -> Nat],
         IF Exists(Server(p)) THEN v.ip = Server(p).ip /\ v.subnet = Server(p).subnet /\ Exists(v)
                              ELSE ~ HasPodAnnotation(v),
         UNCHANGED <<queueVars, work, memoryVars, active, port, faults, restarts, history>>
  PROVE  Inv' /\ KeepsAnnotations
<1>1. ApiTypes'
  BY WriteAppends DEF Inv, Types, ApiTypes
<1>2. QueueTypes' /\ WorkTypes' /\ AllocatorsSound' /\ TrackedTypes' /\ OvnTypes' /\ CountTypes'
  BY DEF Inv, Types, QueueTypes, WorkTypes, AllocatorsSound, TrackedTypes, OvnTypes, CountTypes,
         queueVars, memoryVars, history
<1>3. Server(p)' = Stored(v) /\ \A q \in Pod \ {p} : Server(q)' = Server(q)
  BY WriteAppends DEF Inv, Types
<1>4. CASE Stored(v) = Absent
  BY <1>1, <1>2, <1>3, <1>4
     DEF Inv, Types, WorkSound, AbsentUnannotated, KeepsAnnotations, HasPodAnnotation, Exists, Absent
<1>5. CASE Stored(v) = v
  BY <1>1, <1>2, <1>3, <1>5
     DEF Inv, Types, WorkSound, AbsentUnannotated, KeepsAnnotations, HasPodAnnotation, Exists
<1> QED BY <1>4, <1>5, StoredIsVersion

\* Users and the kubelet keep the invariant; they never touch an annotation.
LEMMA ClusterSteps ==
  ASSUME Inv, NEW p \in Pod, Cluster(p)
  PROVE  Inv' /\ KeepsAnnotations
<1>1. Server(p) \in PodVersions
  BY VersionsTyped DEF Inv, Types
<1>3. CASE CreatePod(p)
  <2> DEFINE v == [Absent EXCEPT !.uid = births[p] + 1]
  <2>1. births[p] + 1 \in Nat /\ births' \in [Pod -> Nat]
    BY <1>3 DEF CreatePod, Inv, Types, ApiTypes
  <2>2. v \in PodVersions /\ ~ HasPodAnnotation(v)
    BY <2>1, AbsentIsVersion DEF PodVersions, Absent, HasPodAnnotation
  <2> QED BY <1>3, <2>1, <2>2, ClientWrite DEF CreatePod
<1>4. ASSUME NEW v \in PodVersions, ChangePod(p, v),
             v.ip = Server(p).ip, v.subnet = Server(p).subnet, v.uid = Server(p).uid
      PROVE  Inv' /\ KeepsAnnotations
  <2>1. births' \in [Pod -> Nat]
    BY <1>4 DEF ChangePod, Inv, Types, ApiTypes
  <2>2. Exists(Server(p)) /\ Exists(v)
    BY <1>4 DEF ChangePod, Exists
  <2> QED BY <1>4, <2>1, <2>2, ClientWrite DEF ChangePod
<1>5. CASE DeletePod(p)
  <2> DEFINE v == [Server(p) EXCEPT !.del = TRUE, !.grace = Graceful /\ ~ Server(p).done]
  <2>1. v \in PodVersions /\ v.ip = Server(p).ip /\ v.subnet = Server(p).subnet /\ v.uid = Server(p).uid
    BY <1>1, PodAssumption DEF PodVersions
  <2>2. ChangePod(p, v)
    BY <1>5 DEF DeletePod
  <2> HIDE DEF v
  <2> QED BY <1>4, <2>1, <2>2
<1>6. CASE CompletePod(p)
  <2> DEFINE v == [Server(p) EXCEPT !.done = TRUE]
  <2>1. v \in PodVersions /\ v.ip = Server(p).ip /\ v.subnet = Server(p).subnet /\ v.uid = Server(p).uid
    BY <1>1 DEF PodVersions
  <2>2. ChangePod(p, v)
    BY <1>6 DEF CompletePod
  <2> HIDE DEF v
  <2> QED BY <1>4, <2>1, <2>2
<1>7. CASE UpdatePodStatus(p)
  <2> DEFINE v == [Server(p) EXCEPT !.status = @ + 1]
  <2>1. v \in PodVersions /\ v.ip = Server(p).ip /\ v.subnet = Server(p).subnet /\ v.uid = Server(p).uid
    BY <1>1 DEF PodVersions
  <2>2. ChangePod(p, v)
    BY <1>7 DEF UpdatePodStatus
  <2> HIDE DEF v
  <2> QED BY <1>4, <2>1, <2>2
<1>8. CASE StopContainers(p)
  <2> DEFINE v == [Server(p) EXCEPT !.grace = FALSE]
  <2>1. v \in PodVersions /\ v.ip = Server(p).ip /\ v.subnet = Server(p).subnet /\ v.uid = Server(p).uid
    BY <1>1 DEF PodVersions
  <2>2. ChangePod(p, v)
    BY <1>8 DEF StopContainers
  <2> HIDE DEF v
  <2> QED BY <1>4, <2>1, <2>2
<1> QED BY <1>3, <1>5, <1>6, <1>7, <1>8 DEF Cluster

-----------------------------------------------------------------------------
(* The informer, the queue and the start of a reconcile.                   *)

\* The informer, the timers and the start of a reconcile keep the invariant
\* and write nothing to the API server.
LEMMA QueueSteps ==
  ASSUME Inv, NEW p \in Pod, Deliver(p) \/ BackoffExpires(p) \/ Dequeue(p)
  PROVE  Inv' /\ \A q \in Pod : Server(q)' = Server(q)
<1>1. CASE Deliver(p)
  <2>1. log[p] \in Seq(PodVersions) /\ Len(log[p]) > 1
    BY <1>1 DEF Deliver, Inv, Types, ApiTypes
  <2>2. /\ Tail(log[p]) \in Seq(PodVersions) /\ Tail(log[p]) # <<>>
        /\ Tail(log[p])[Len(Tail(log[p]))] = log[p][Len(log[p])]
    BY <2>1, TailKeepsServer
  <2>3. log' = [log EXCEPT ![p] = Tail(log[p])]
    BY <1>1 DEF Deliver
  <2>4. log'[p] = Tail(log[p]) /\ \A q \in Pod \ {p} : log'[q] = log[q]
    BY <2>3 DEF Inv, Types, ApiTypes
  <2>5. ApiTypes'
    BY <1>1, <2>2, <2>3, <2>4 DEF Deliver, Inv, Types, ApiTypes
  <2>6. \A q \in Pod : Server(q)' = Server(q)
    BY <2>2, <2>4 DEF Server
  <2>7. QueueTypes'
    BY <1>1 DEF Deliver, Inv, Types, QueueTypes
  <2>8. WorkTypes' /\ AllocatorsSound' /\ TrackedTypes' /\ OvnTypes' /\ CountTypes'
    BY <1>1 DEF Deliver, Inv, Types, WorkTypes, AllocatorsSound, TrackedTypes, OvnTypes, CountTypes,
                memoryVars, history
  <2>9. WorkSound' /\ AbsentUnannotated'
    BY <1>1, <2>6 DEF Deliver, Inv, WorkSound, AbsentUnannotated
  <2> QED BY <2>5, <2>6, <2>7, <2>8, <2>9 DEF Inv, Types
<1>2. CASE BackoffExpires(p)
  <2>1. QueueTypes'
    BY <1>2 DEF BackoffExpires, Inv, Types, QueueTypes
  <2>2. /\ ApiTypes' /\ WorkTypes' /\ AllocatorsSound' /\ TrackedTypes' /\ OvnTypes' /\ CountTypes'
        /\ WorkSound' /\ AbsentUnannotated'
    BY <1>2 DEF BackoffExpires, Inv, Types, ApiTypes, WorkTypes, AllocatorsSound, TrackedTypes, OvnTypes,
                CountTypes, apiVars, memoryVars, history, WorkSound, AbsentUnannotated, Server
  <2>3. \A q \in Pod : Server(q)' = Server(q)
    BY <1>2 DEF BackoffExpires, apiVars, Server
  <2> QED BY <2>1, <2>2, <2>3 DEF Inv, Types
<1>3. CASE ReconcileGone(p)
  <2>1. QueueTypes' /\ TrackedTypes'
    BY <1>3 DEF ReconcileGone, Inv, Types, QueueTypes, TrackedTypes
  <2>2. ApiTypes' /\ WorkTypes' /\ AllocatorsSound' /\ OvnTypes' /\ CountTypes' /\ WorkSound' /\ AbsentUnannotated'
    BY <1>3 DEF ReconcileGone, Inv, Types, ApiTypes, WorkTypes, AllocatorsSound, OvnTypes,
                CountTypes, apiVars, history, WorkSound, AbsentUnannotated, Server
  <2>3. \A q \in Pod : Server(q)' = Server(q)
    BY <1>3 DEF ReconcileGone, apiVars, Server
  <2> QED BY <2>1, <2>2, <2>3 DEF Inv, Types
<1>4. CASE ReconcileNothing(p)
  <2>1. QueueTypes'
    BY <1>4 DEF ReconcileNothing, Inv, Types, QueueTypes
  <2>2. /\ ApiTypes' /\ WorkTypes' /\ AllocatorsSound' /\ TrackedTypes' /\ OvnTypes' /\ CountTypes'
        /\ WorkSound' /\ AbsentUnannotated'
    BY <1>4 DEF ReconcileNothing, Inv, Types, ApiTypes, WorkTypes, AllocatorsSound, TrackedTypes, OvnTypes,
                CountTypes, apiVars, memoryVars, history, WorkSound, AbsentUnannotated, Server
  <2>3. \A q \in Pod : Server(q)' = Server(q)
    BY <1>4 DEF ReconcileNothing, apiVars, Server
  <2> QED BY <2>1, <2>2, <2>3 DEF Inv, Types
<1>5. CASE Reconcile(p)
  <2> DEFINE v == Cached(p)
  <2>1. v \in PodVersions
    BY VersionsTyped DEF Inv, Types
  <2>2. work' = At(FirstStep(v), p, v)
    BY <1>5 DEF Reconcile
  <2>3. FirstStep(v) \in {"deletePort", "addFinalizer", "findSubnet"}
    BY <2>1 DEF FirstStep, PodVersions
  <2>4. FirstStep(v) = "findSubnet" => ~ HasPodAnnotation(v) /\ v.fin
    BY <1>5, <2>1 DEF Reconcile, NothingToDo, FirstStep, PodVersions
  <2>5. QueueTypes'
    BY <1>5 DEF Reconcile, Inv, Types, QueueTypes
  <2> HIDE DEF v
  <2>6. WorkTypes'
    BY <2>1, <2>2, <2>3 DEF WorkTypes, At, Works, Steps
  <2>7. ApiTypes' /\ AllocatorsSound' /\ TrackedTypes' /\ OvnTypes' /\ CountTypes'
    BY <1>5 DEF Reconcile, Inv, Types, ApiTypes, AllocatorsSound, TrackedTypes, OvnTypes,
                CountTypes, apiVars, memoryVars, history
  <2>8. \A q \in Pod : Server(q)' = Server(q)
    BY <1>5 DEF Reconcile, apiVars, Server
  <2>9. Exists(v)
    BY <1>5 DEF Reconcile, v
  <2>10. WorkSound' /\ AbsentUnannotated'
    BY <2>2, <2>3, <2>4, <2>8, <2>9 DEF Inv, WorkSound, AbsentUnannotated, At, Configuring
  <2> QED BY <2>5, <2>6, <2>7, <2>8, <2>10 DEF Inv, Types
<1> QED BY <1>1, <1>2, <1>3, <1>4, <1>5 DEF Dequeue

-----------------------------------------------------------------------------
(* The steps of a reconcile.                                               *)

\* The three steps that end in client.Update.  An address is only ever
\* written over a version that has none.
LEMMA UpdateSteps ==
  ASSUME Inv, AddFinalizer \/ Annotate \/ RemoveFinalizer
  PROVE  Inv' /\ KeepsAnnotations
<1>1. work \in Works /\ work.pod \in Pod /\ Exists(work.obj)
  BY DEF Inv, Types, WorkTypes, WorkSound, AddFinalizer, Annotate, RemoveFinalizer
<1>2. PICK p \in Pod : work.pod = p
  BY <1>1
<1>3. work.obj \in PodVersions /\ work.ip \in Nat /\ work.subnet \in Subnet \cup {NoSubnet}
  BY <1>1 DEF Works
<1>4. PICK v \in PodVersions, ok \in BOOLEAN, again \in BOOLEAN :
        /\ Update(v, ok) /\ Return(again) /\ Exists(v)
        /\ HasPodAnnotation(work.obj) => v.ip = work.obj.ip /\ v.subnet = work.obj.subnet
  <2>1. CASE AddFinalizer
    <3> DEFINE v == [work.obj EXCEPT !.fin = TRUE]
    <3>1. v \in PodVersions /\ v.ip = work.obj.ip /\ v.subnet = work.obj.subnet /\ Exists(v)
      BY <1>1, <1>3 DEF PodVersions, Exists
    <3>2. \E ok \in BOOLEAN : Update(v, ok) /\ Return(TRUE)
      BY <2>1 DEF AddFinalizer
    <3> HIDE DEF v
    <3> QED BY <3>1, <3>2
  <2>2. CASE Annotate
    <3> DEFINE v == [work.obj EXCEPT !.ip = work.ip, !.subnet = work.subnet]
    <3>1. v \in PodVersions /\ Exists(v)
      BY <1>1, <1>3 DEF PodVersions, Exists
    <3>2. \E ok \in BOOLEAN : Update(v, ok) /\ Return(~ ok)
      BY <2>2 DEF Annotate
    <3>3. ~ HasPodAnnotation(work.obj)
      BY <2>2 DEF Annotate, Inv, WorkSound, Configuring
    <3> HIDE DEF v
    <3> QED BY <3>1, <3>2, <3>3
  <2>3. CASE RemoveFinalizer
    <3> DEFINE v == [work.obj EXCEPT !.fin = FALSE]
    <3>1. v \in PodVersions /\ v.ip = work.obj.ip /\ v.subnet = work.obj.subnet /\ Exists(v)
      BY <1>1, <1>3 DEF PodVersions, Exists
    <3>2. \E ok \in BOOLEAN : Update(v, ok) /\ Return(~ ok)
      BY <2>3 DEF RemoveFinalizer
    <3> HIDE DEF v
    <3> QED BY <3>1, <3>2
  <2> QED BY <2>1, <2>2, <2>3
<1>5. UNCHANGED <<births, memoryVars, active, port, restarts, history>>
  BY DEF AddFinalizer, Annotate, RemoveFinalizer
<1>6. /\ log' \in [Pod -> Seq(PodVersions)] /\ \A q \in Pod : log'[q] # <<>>
      /\ faults' \in Nat
      /\ \/ Server(p)' = Server(p)
         \/ Server(p) = work.obj /\ Server(p)' = Stored(v)
      /\ \A q \in Pod \ {p} : Server(q)' = Server(q)
  BY <1>2, <1>4, UpdateWrites DEF Inv
<1>7. QueueTypes' /\ WorkTypes' /\ work'.pc = "idle"
  BY <1>1, <1>4, ReturnTypes DEF Inv
<1>8. ApiTypes' /\ AllocatorsSound' /\ TrackedTypes' /\ OvnTypes' /\ CountTypes'
  BY <1>5, <1>6 DEF Inv, Types, ApiTypes, AllocatorsSound, TrackedTypes, OvnTypes, CountTypes,
                    memoryVars, history
<1>9. WorkSound'
  BY <1>7 DEF WorkSound, Configuring
<1>10. CASE Server(p)' = Server(p)
  BY <1>6, <1>7, <1>8, <1>9, <1>10 DEF Inv, Types, AbsentUnannotated, KeepsAnnotations
<1>11. CASE Server(p) = work.obj /\ Server(p)' = Stored(v)
  <2>1. CASE Stored(v) = Absent
    <3>1. Server(p)'.uid = 0 /\ Server(p)'.ip = 0
      BY <1>11, <2>1 DEF Absent
    <3>2. AbsentUnannotated'
      BY <1>6, <3>1 DEF Inv, AbsentUnannotated, HasPodAnnotation, Exists
    <3>3. KeepsAnnotations
      BY <1>6, <3>1 DEF Inv, AbsentUnannotated, KeepsAnnotations, Exists
    <3> QED BY <1>7, <1>8, <1>9, <3>2, <3>3 DEF Inv, Types
  <2>2. CASE Stored(v) = v
    BY <1>4, <1>6, <1>7, <1>8, <1>9, <1>11, <2>2
       DEF Inv, Types, AbsentUnannotated, KeepsAnnotations, HasPodAnnotation, Exists
  <2> QED BY <2>1, <2>2, StoredIsVersion
<1> QED BY <1>6, <1>10, <1>11

\* A step that leaves the pods alone, and goes on with the reconcile of the
\* same version or ends it.
LEMMA OtherStep ==
  ASSUME Inv, UNCHANGED apiVars,
         QueueTypes', WorkTypes', AllocatorsSound', TrackedTypes', OvnTypes', CountTypes',
         \/ work'.pc = "idle"
         \/ work'.obj = work.obj /\ work.pc # "idle"
            /\ (work'.pc \in Configuring => work.pc \in Configuring)
  PROVE  Inv' /\ KeepsAnnotations
<1>1. ApiTypes' /\ \A p \in Pod : Server(p)' = Server(p)
  BY DEF Inv, Types, ApiTypes, apiVars, Server
<1>2. WorkSound'
  BY DEF Inv, WorkSound, Configuring
<1> QED BY <1>1, <1>2 DEF Inv, Types, AbsentUnannotated, KeepsAnnotations

\* What UndoAllocation, which ends three of the error paths, does.
LEMMA UndoTypes ==
  ASSUME Inv, work.pod \in Pod, UndoAllocation
  PROVE  /\ QueueTypes' /\ WorkTypes' /\ work'.pc = "idle"
         /\ AllocatorsSound' /\ TrackedTypes'
         /\ freed' = freed /\ causes' \subseteq {"restart", "rerun", "undo"}
<1>1. QueueTypes' /\ WorkTypes' /\ work'.pc = "idle"
  BY ReturnTypes DEF Inv, UndoAllocation
<1>2. work.ip \in Nat
  BY DEF Inv, Types, WorkTypes, Works
<1>3. AllocatorsSound'
  BY <1>2, ReleaseSound DEF Inv, Types, UndoAllocation
<1>4. TrackedTypes'
  BY DEF Inv, Types, TrackedTypes, UndoAllocation
<1>5. freed' = freed /\ causes' \subseteq {"restart", "rerun", "undo"}
  BY DEF Inv, Types, CountTypes, UndoAllocation
<1> QED BY <1>1, <1>3, <1>4, <1>5

\* Taking an address keeps the invariant: AllocateNext leaves a sound
\* allocator and the address it grants is a number.
LEMMA FindSubnetStep ==
  ASSUME Inv, FindSubnet
  PROVE  Inv' /\ KeepsAnnotations
<1>1. work \in Works /\ work.pc = "findSubnet" /\ work.pod \in Pod
  BY DEF Inv, Types, WorkTypes, FindSubnet
<1>2. PICK s \in SubnetChoices(work.pod) : ~ CannotAllocate(s) /\ AllocateIP(s)
  BY DEF FindSubnet
<1>3. s \in DOMAIN allocators /\ s \in Subnet
  BY <1>2 DEF CannotAllocate, Inv, Types, AllocatorsSound
<1>4. UNCHANGED <<apiVars, queueVars, active, port, faults, restarts, history>>
  BY DEF FindSubnet
<1>5. QueueTypes' /\ OvnTypes' /\ CountTypes'
  BY <1>4 DEF Inv, Types, QueueTypes, OvnTypes, CountTypes, queueVars, history
<1>6. ASSUME NEW ip \in Nat,
             work' = [work EXCEPT !.pc = "getPort", !.subnet = s, !.ip = ip]
      PROVE  WorkTypes' /\ work'.obj = work.obj
  BY <1>1, <1>3, <1>6 DEF WorkTypes, Works, Steps
<1>7. CASE tracked[work.pod] # 0
  <2>1. tracked[work.pod] \in Nat
    BY <1>1 DEF Inv, Types, TrackedTypes
  <2>2. work' = [work EXCEPT !.pc = "getPort", !.subnet = s, !.ip = tracked[work.pod]]
    BY <1>2, <1>7 DEF AllocateIP
  <2>3. WorkTypes' /\ work'.obj = work.obj
    BY <1>6, <2>1, <2>2
  <2>4. AllocatorsSound' /\ TrackedTypes'
    BY <1>2, <1>7 DEF AllocateIP, memoryVars, Inv, Types, AllocatorsSound, TrackedTypes
  <2> QED BY <1>1, <1>4, <1>5, <2>3, <2>4, OtherStep DEF Configuring
<1>8. CASE tracked[work.pod] = 0
  <2> DEFINE ip == NextIP(allocators[s])
  <2>1. ~ Exhausted(allocators[s])
    BY <1>2, <1>8 DEF CannotAllocate
  <2>2. CidrOf[s] \in AllocatableCIDRs /\ ExcludesOf[s] \in SUBSET ExcludeSpecs
    BY <1>3, PodAssumption
  <2>3. AllocInv(CidrOf[s], ExcludesOf[s], allocators[s])
    BY <1>3 DEF Inv, Types, AllocatorsSound
  <2>4. /\ AllocInv(CidrOf[s], ExcludesOf[s], AllocateNext(allocators[s]))
        /\ ip \in Free(CidrOf[s], ExcludesOf[s])
    BY <2>1, <2>2, <2>3, AllocateNextGrants
  <2>5. ip \in Nat
    BY <2>2, <2>4, UsableIsAddress, AddressSpaceAssumption DEF Free, Address
  <2>6. /\ work' = [work EXCEPT !.pc = "getPort", !.subnet = s, !.ip = ip]
        /\ allocators' = [allocators EXCEPT ![s] = AllocateNext(allocators[s])]
        /\ tracked' = [tracked EXCEPT ![work.pod] = ip]
    BY <1>2, <1>8 DEF AllocateIP
  <2> HIDE DEF ip
  <2>7. WorkTypes' /\ work'.obj = work.obj
    BY <1>6, <2>5, <2>6
  <2>8. AllocatorsSound'
    BY <2>4, <2>6, ReplaceAllocator DEF Inv, Types
  <2>9. TrackedTypes'
    BY <2>5, <2>6 DEF Inv, Types, TrackedTypes
  <2> QED BY <1>1, <1>4, <1>5, <2>7, <2>8, <2>9, OtherStep DEF Configuring
<1> QED BY <1>7, <1>8

\* So do the steps that look a port up and create it, and their failures.
LEMMA PortSteps ==
  ASSUME Inv, GetPort \/ GetPortFails \/ CreatePort \/ CreatePortFails
  PROVE  Inv' /\ KeepsAnnotations
<1>1. work \in Works /\ work.pod \in Pod /\ work.pc \in {"getPort", "createPort"}
  BY DEF Inv, Types, WorkTypes, GetPort, GetPortFails, CreatePort, CreatePortFails
<1>2. NewPort \in Ports
  BY <1>1 DEF NewPort, Works, Ports, PodVersions
<1>3. faults' \in Nat /\ restarts' \in Nat
  BY DEF Inv, Types, CountTypes, Fault, GetPort, GetPortFails, CreatePort, CreatePortFails
<1>4. OvnTypes'
  BY <1>1, <1>2 DEF Inv, Types, OvnTypes, GetPort, GetPortFails, CreatePort, CreatePortFails
<1>5. UNCHANGED apiVars
  BY DEF GetPort, GetPortFails, CreatePort, CreatePortFails
<1>6. CASE GetPort \/ CreatePort
  <2>1. QueueTypes' /\ AllocatorsSound' /\ TrackedTypes' /\ CountTypes'
    BY <1>3, <1>6 DEF Inv, Types, QueueTypes, AllocatorsSound, TrackedTypes, CountTypes,
                      GetPort, CreatePort, queueVars, memoryVars, history
  <2>2. /\ WorkTypes' /\ work'.obj = work.obj
    BY <1>1, <1>6 DEF WorkTypes, Works, Steps, GetPort, CreatePort
  <2> QED BY <1>1, <1>4, <1>5, <2>1, <2>2, OtherStep DEF Configuring
<1>7. CASE GetPortFails \/ CreatePortFails
  <2>1. UndoAllocation
    BY <1>7 DEF GetPortFails, CreatePortFails
  <2>2. CountTypes'
    BY <1>1, <1>3, <2>1, UndoTypes DEF Inv, Types, CountTypes
  <2> QED BY <1>1, <1>4, <1>5, <2>1, <2>2, UndoTypes, OtherStep
<1> QED BY <1>6, <1>7

\* So do the ends of configurePodNetwork that change nothing else.
LEMMA ReturnSteps ==
  ASSUME Inv, FindNoSubnet \/ AllocateFails
  PROVE  Inv' /\ KeepsAnnotations
<1>1. work.pod \in Pod
  BY DEF Inv, Types, WorkTypes, FindNoSubnet, AllocateFails
<1>2. PICK again \in BOOLEAN : Return(again)
  BY DEF FindNoSubnet, AllocateFails
<1>3. QueueTypes' /\ WorkTypes' /\ work'.pc = "idle"
  BY <1>1, <1>2, ReturnTypes DEF Inv
<1>4. UNCHANGED <<apiVars, memoryVars, active, port, faults, restarts, history>>
  BY DEF FindNoSubnet, AllocateFails
<1>5. AllocatorsSound' /\ TrackedTypes' /\ OvnTypes' /\ CountTypes'
  BY <1>4 DEF Inv, Types, AllocatorsSound, TrackedTypes, OvnTypes, CountTypes, memoryVars, history
<1> QED BY <1>3, <1>4, <1>5, OtherStep

\* So does the part of handleDeletion that gives up the port and the address.
LEMMA DeletePortStep ==
  ASSUME Inv, DeletePort
  PROVE  Inv' /\ KeepsAnnotations
<1>1. work \in Works /\ work.pod \in Pod /\ work.pc = "deletePort"
  BY DEF Inv, Types, WorkTypes, DeletePort
<1>2. work.obj \in PodVersions /\ work.obj.uid \in Nat /\ work.obj.ip \in Nat
  BY <1>1 DEF Works, PodVersions
<1>3. QueueTypes' /\ WorkTypes'
  <2>1. CASE work.obj.fin
    BY <1>1, <2>1 DEF DeletePort, Inv, Types, QueueTypes, WorkTypes, Works, Steps, queueVars
  <2>2. CASE ~ work.obj.fin
    BY <1>1, <2>2, ReturnTypes DEF DeletePort, Inv
  <2> QED BY <2>1, <2>2
<1>4. work'.pc = "idle" \/ (work'.obj = work.obj /\ work'.pc = "removeFinalizer")
  BY <1>1 DEF DeletePort, Return, Idle, Works
<1>5. AllocatorsSound'
  <2>1. CASE allocators' = allocators
    BY <2>1 DEF Inv, Types, AllocatorsSound
  <2>2. CASE allocators' = [allocators EXCEPT ![work.obj.subnet] = Release(@, work.obj.ip)]
    BY <1>2, <2>2, ReleaseSound DEF Inv, Types
  <2> QED BY <2>1, <2>2 DEF DeletePort, ReleaseAnnotated
<1>6. TrackedTypes' /\ OvnTypes'
  BY AbsentIsVersion DEF DeletePort, PortRemoved, Inv, Types, TrackedTypes, OvnTypes
<1>7. CountTypes'
  <2>1. faults' \in Nat
    BY DEF DeletePort, Fault, Inv, Types, CountTypes
  <2>2. restarts' \in Nat
    BY DEF DeletePort, Inv, Types, CountTypes
  <2>3. freed' \in [Pod -> Nat]
    BY <1>2 DEF DeletePort, Inv, Types, CountTypes
  <2>4. causes' \subseteq {"restart", "rerun", "undo"}
    <3>1. causes' = causes \/ causes' = causes \cup {"rerun"}
      BY DEF DeletePort
    <3> QED BY <3>1 DEF Inv, Types, CountTypes
  <2> QED BY <2>1, <2>2, <2>3, <2>4 DEF CountTypes
<1>8. UNCHANGED apiVars
  BY DEF DeletePort
<1> QED BY <1>1, <1>3, <1>4, <1>5, <1>6, <1>7, <1>8, OtherStep DEF Configuring

-----------------------------------------------------------------------------
(* The Subnet reconciler and restarts.                                     *)

\* A new allocator is sound and no existing one is touched.
LEMMA SubnetSteps ==
  ASSUME Inv, NEW s \in Subnet, SubnetSide(s)
  PROVE  Inv' /\ KeepsAnnotations
<1>1. UNCHANGED <<apiVars, queueVars, work, tracked, port, faults, restarts, history>>
  <2>1. CASE EnsureIPAllocator(s)
    BY <2>1 DEF EnsureIPAllocator
  <2>2. CASE UpdateStatusActive(s)
    BY <2>2 DEF UpdateStatusActive, memoryVars
  <2> QED BY <2>1, <2>2 DEF SubnetSide
<1>2. QueueTypes' /\ WorkTypes' /\ TrackedTypes' /\ CountTypes' /\ WorkSound'
  BY <1>1 DEF Inv, Types, QueueTypes, WorkTypes, TrackedTypes, CountTypes, WorkSound,
              queueVars, history
<1>3. ApiTypes' /\ \A p \in Pod : Server(p)' = Server(p)
  BY <1>1 DEF Inv, Types, ApiTypes, apiVars, Server
<1>4. OvnTypes'
  BY <1>1 DEF SubnetSide, EnsureIPAllocator, UpdateStatusActive, Inv, Types, OvnTypes
<1>5. AllocatorsSound'
  <2>1. AllocInv(CidrOf[s], ExcludesOf[s], NewSubnetAllocator(CidrOf[s], ExcludesOf[s]))
    BY PodAssumption, NewSubnetAllocatorSound
  <2> QED BY <2>1 DEF SubnetSide, EnsureIPAllocator, UpdateStatusActive, memoryVars,
                      Inv, Types, AllocatorsSound
<1> QED BY <1>2, <1>3, <1>4, <1>5 DEF Inv, Types, AbsentUnannotated, KeepsAnnotations

\* A restart forgets the process's maps and keeps what is stored.
LEMMA RestartStep ==
  ASSUME Inv, Restart
  PROVE  Inv' /\ KeepsAnnotations
<1>1. log' = [p \in Pod |-> <<Server(p)>>] /\ births' = births
  BY DEF Restart
<1>2. \A p \in Pod : Server(p) \in PodVersions
  BY VersionsTyped DEF Inv, Types
<1>3. ApiTypes'
  BY <1>1, <1>2 DEF Inv, Types, ApiTypes
<1>4. \A p \in Pod : Server(p)' = Server(p)
  <2> SUFFICES ASSUME NEW p \in Pod PROVE log'[p][Len(log'[p])] = Server(p)
    BY DEF Server
  <2>1. log'[p] = <<Server(p)>>
    BY <1>1
  <2> QED BY <2>1
<1>5. QueueTypes'
  BY DEF Restart, QueueTypes
<1>6. WorkTypes' /\ work'.pc = "idle"
  BY AbsentIsVersion DEF Restart, WorkTypes, Works, Steps, Idle
<1>7. AllocatorsSound' /\ TrackedTypes'
  BY DEF Restart, AllocatorsSound, TrackedTypes
<1>8. OvnTypes' /\ CountTypes'
  BY DEF Restart, Inv, Types, OvnTypes, CountTypes
<1>9. WorkSound'
  BY <1>6 DEF WorkSound, Configuring
<1> QED BY <1>3, <1>4, <1>5, <1>6, <1>7, <1>8, <1>9
        DEF Inv, Types, AbsentUnannotated, KeepsAnnotations

-----------------------------------------------------------------------------
(* The theorems.                                                           *)

\* Every step keeps the invariant and every pod's annotation.
LEMMA NextInv ==
  ASSUME Inv, [Next]_vars
  PROVE  Inv' /\ [KeepsAnnotations]_vars
<1>1. ASSUME NEW p \in Pod, Cluster(p) PROVE Inv' /\ KeepsAnnotations
  BY <1>1, ClusterSteps
<1>2. ASSUME NEW p \in Pod, Deliver(p) \/ BackoffExpires(p) \/ Dequeue(p)
      PROVE  Inv' /\ KeepsAnnotations
  <2>1. Inv' /\ \A q \in Pod : Server(q)' = Server(q)
    BY <1>2, QueueSteps
  <2> QED BY <2>1 DEF KeepsAnnotations
<1>3. CASE Worker
  BY <1>3, UpdateSteps, FindSubnetStep, PortSteps, ReturnSteps, DeletePortStep DEF Worker
<1>4. ASSUME NEW s \in Subnet, SubnetSide(s) PROVE Inv' /\ KeepsAnnotations
  BY <1>4, SubnetSteps
<1>5. CASE Restart
  BY <1>5, RestartStep
<1>6. CASE UNCHANGED vars
  <2>1. Types'
    BY <1>6 DEF vars, Inv, Types, ApiTypes, QueueTypes, WorkTypes, AllocatorsSound, TrackedTypes,
                OvnTypes, CountTypes
  <2>2. WorkSound' /\ AbsentUnannotated'
    BY <1>6 DEF vars, Inv, WorkSound, AbsentUnannotated, Server
  <2> QED BY <1>6, <2>1, <2>2 DEF Inv
<1> QED BY <1>1, <1>2, <1>3, <1>4, <1>5, <1>6 DEF Next

\* The invariant holds through every interleaving of users, kubelet,
\* informer, worker, Subnet reconciler, faults and restarts.
THEOREM Invariance == Spec => []Inv
<1>1. Inv /\ [Next]_vars => Inv'
  BY NextInv
<1> QED BY InitInv, <1>1, PTL DEF Spec

\* Every part of the state keeps its type; above all, every allocator fits
\* its subnet and every address given out is a number of the address space.
THEOREM TypeCorrect == Spec => []TypeOK
<1>1. Inv => TypeOK
  <2> SUFFICES ASSUME Inv PROVE TypeOK
    OBVIOUS
  <2>1. \A s \in DOMAIN allocators : allocators[s] \in Allocators(CidrOf[s])
    BY DEF Inv, Types, AllocatorsSound, AllocInv, Sound
  <2> QED BY <2>1 DEF Inv, Types, ApiTypes, QueueTypes, WorkTypes, AllocatorsSound, TrackedTypes,
                      OvnTypes, CountTypes, TypeOK
<1> QED BY <1>1, Invariance, PTL

\* However stale the copy a reconcile works from, no step gives a pod that
\* has its network another address.
THEOREM AnnotationsAreFinal == Spec => AnnotationNeverChanges
<1>1. Inv /\ [Next]_vars => [KeepsAnnotations]_vars
  BY NextInv
<1> QED BY <1>1, Invariance, PTL DEF Spec, AnnotationNeverChanges


-----------------------------------------------------------------------------
(* What an old copy of a pod still tells about it.  cur is the version at  *)
(* the API server, b counts the pods created under the name so far and f   *)
(* is the last of them whose address was released.                         *)

\* The copy v of a pod, and the versions S the cache has yet to go through.
\* Names are used again but uids never are, so a copy with the server's uid
\* has no other pod after it; and an address that is not released yet is
\* still in the annotation, behind the finalizer.
Precedes(v, S, cur, b, f) ==
  /\ v.uid <= b
  /\ HasPodAnnotation(v) => Exists(v)
  /\ Exists(v) => f <= v.uid
  /\ Exists(v) /\ f = v.uid => v.del
  /\ \A w \in S : Exists(w) => v.uid <= w.uid
  /\ \A w \in S : Exists(v) /\ v.del /\ w.uid = v.uid => w.del
  /\ Exists(v) /\ v.uid = cur.uid => /\ \A w \in S : w.uid = v.uid
                                     /\ v.del => cur.del
  /\ Exists(v) /\ v.fin /\ f # v.uid => cur.uid = v.uid /\ cur.fin
  /\ HasPodAnnotation(v) /\ f # v.uid => v.fin /\ cur.ip = v.ip

\* The same of all versions between the cache and the server; once a pod has
\* its annotation nothing of an earlier pod is left in between, and only a
\* pod that is being deleted has its address released.
LogSound(s, b, f) ==
  LET cur == s[Len(s)] IN
  /\ \A i \in 1 .. Len(s) : Precedes(s[i], {s[j] : j \in i .. Len(s)}, cur, b, f)
  /\ f <= b
  /\ HasPodAnnotation(cur) => \A i \in 1 .. Len(s) : s[i].uid = cur.uid
  /\ Exists(cur) /\ f = cur.uid => cur.del

Logs == \A p \in Pod : LogSound(log[p], births[p], freed[p])

Versions(p) == {log[p][j] : j \in 1 .. Len(log[p])}

\* What a reconcile relies on in the copy it has read.
WorkCopy ==
  work.pc # "idle" =>
    LET p == work.pod IN
    /\ Precedes(work.obj, Versions(p), Server(p), births[p], freed[p])
    /\ HasPodAnnotation(Server(p)) => work.obj.uid = Server(p).uid
    /\ work.obj.del <=> work.pc \in {"deletePort", "removeFinalizer"}
    /\ work.pc = "removeFinalizer" => freed[p] = work.obj.uid

History == Inv /\ Logs /\ WorkCopy

\* The address being given out is the one tracked under the pod's name.
WorkAddress ==
  work.pc \in {"getPort", "createPort", "annotate"} =>
    work.ip # 0 /\ work.ip = tracked[work.pod]

\* The pods whose annotation holds an address that was not released.
Holds(p) == HasPodAnnotation(Server(p)) /\ freed[p] # Server(p).uid

\* The addresses a name has a claim to.
Claims(p) == ({tracked[p]} \ {0}) \cup (IF Holds(p) THEN {Server(p).ip} ELSE {})

\* Nobody else is given a claimed address: the allocators know it is in use,
\* and no two names claim the same.
Ownership ==
  causes = {} => /\ \A p \in Pod : Claims(p) \subseteq TakenIPs
                 /\ \A p, q \in Pod : p # q => Claims(p) \cap Claims(q) = {}

SafetyInv == History /\ WorkAddress /\ Ownership

-----------------------------------------------------------------------------
(* Versions that follow one another.                                       *)

\* What the next version n of a pod may be after cur: none, once the address
\* was released; the first of a new pod; or a later one of the same pod,
\* which keeps the deletion mark and an address, and holds a new address
\* behind the finalizer.
Follows(n, cur, b, c, f) ==
  \/ n = Absent /\ c = b /\ (Exists(cur) /\ cur.fin => f = cur.uid)
  \/ ~ Exists(cur) /\ c = b + 1 /\ n.uid = c /\ ~ HasPodAnnotation(n)
  \/ /\ Exists(cur) /\ c = b /\ n.uid = cur.uid
     /\ cur.del => n.del
     /\ HasPodAnnotation(cur) => n.ip = cur.ip
     /\ cur.fin \/ HasPodAnnotation(n) => n.fin \/ f = n.uid

\* An old copy still tells the same when another version follows.
LEMMA PrecedesNext ==
  ASSUME NEW v \in PodVersions, NEW S \in SUBSET PodVersions, NEW cur \in S, NEW b \in Nat,
         NEW c \in Nat, NEW f \in Nat, NEW n \in PodVersions,
         Precedes(v, S, cur, b, f), Follows(n, cur, b, c, f)
  PROVE  Precedes(v, S \cup {n}, n, c, f)
<1>1. /\ v.uid \in Nat /\ cur.uid \in Nat /\ n.uid \in Nat /\ v.uid <= b
      /\ HasPodAnnotation(v) => Exists(v)
      /\ Exists(v) => f <= v.uid
      /\ Exists(v) /\ f = v.uid => v.del
      /\ \A w \in S : Exists(w) => v.uid <= w.uid
      /\ \A w \in S : Exists(v) /\ v.del /\ w.uid = v.uid => w.del
      /\ Exists(v) /\ v.uid = cur.uid => (\A w \in S : w.uid = v.uid) /\ (v.del => cur.del)
      /\ Exists(v) /\ v.fin /\ f # v.uid => cur.uid = v.uid /\ cur.fin
      /\ HasPodAnnotation(v) /\ f # v.uid => v.fin /\ cur.ip = v.ip
  BY DEF Precedes, PodVersions
<1>2. CASE n = Absent /\ c = b /\ (Exists(cur) /\ cur.fin => f = cur.uid)
  <2>1. n.uid = 0 /\ ~ Exists(n)
    BY <1>2 DEF Absent, Exists
  <2> QED BY <1>1, <1>2, <2>1 DEF Precedes, Exists, HasPodAnnotation
<1>3. CASE ~ Exists(cur) /\ c = b + 1 /\ n.uid = c /\ ~ HasPodAnnotation(n)
  BY <1>1, <1>3 DEF Precedes, Exists, HasPodAnnotation
<1>4. CASE /\ Exists(cur) /\ c = b /\ n.uid = cur.uid
           /\ cur.del => n.del
           /\ HasPodAnnotation(cur) => n.ip = cur.ip
           /\ cur.fin \/ HasPodAnnotation(n) => n.fin \/ f = n.uid
  BY <1>1, <1>4 DEF Precedes, Exists, HasPodAnnotation
<1> QED BY <1>2, <1>3, <1>4 DEF Follows

\* And the next version tells as much of itself.
LEMMA NextPrecedes ==
  ASSUME NEW cur \in PodVersions, NEW b \in Nat, NEW c \in Nat, NEW f \in Nat,
         NEW n \in PodVersions, Precedes(cur, {cur}, cur, b, f), f <= b,
         Exists(cur) /\ f = cur.uid => cur.del,
         Follows(n, cur, b, c, f)
  PROVE  /\ Precedes(n, {n}, n, c, f) /\ f <= c
         /\ Exists(n) /\ f = n.uid => n.del
<1>1. CASE n = Absent /\ c = b
  BY <1>1 DEF Precedes, Exists, HasPodAnnotation, Absent
<1>2. CASE n.uid = b + 1 /\ c = b + 1 /\ ~ HasPodAnnotation(n)
  BY <1>2 DEF Precedes, Exists
<1>3. CASE /\ Exists(cur) /\ c = b /\ n.uid = cur.uid /\ (cur.del => n.del)
           /\ HasPodAnnotation(n) => n.fin \/ f = n.uid
  BY <1>3 DEF Precedes, Exists, PodVersions
<1> QED BY <1>1, <1>2, <1>3 DEF Follows

\* Fewer versions to go through make a copy no worse.
LEMMA PrecedesFewer ==
  ASSUME NEW v, NEW S, NEW T \in SUBSET S, NEW cur, NEW b, NEW f, Precedes(v, S, cur, b, f)
  PROVE  Precedes(v, T, cur, b, f)
BY DEF Precedes

\* Once the pod of a copy is released, that is the last release there was.
LEMMA PrecedesFreed ==
  ASSUME NEW v \in PodVersions, NEW S \in SUBSET PodVersions, NEW cur \in S,
         NEW b \in Nat, NEW f \in Nat, Precedes(v, S, cur, b, f), Exists(v), v.del,
         NEW u \in S, NEW T \in SUBSET S, Precedes(u, T, cur, b, f)
  PROVE  Precedes(u, T, cur, b, v.uid) /\ Precedes(v, S, cur, b, v.uid)
BY DEF Precedes, PodVersions, Exists, HasPodAnnotation

-----------------------------------------------------------------------------
(* The versions between the cache and the server.                          *)

\* The last version is one of them, and they are all versions.
LEMMA LogFacts ==
  ASSUME NEW s \in Seq(PodVersions), s # <<>>
  PROVE  /\ Len(s) \in Nat /\ Len(s) \in 1 .. Len(s) /\ 1 \in 1 .. Len(s)
         /\ \A i \in 1 .. Len(s) : s[i] \in PodVersions
<1>1. Len(s) \in Nat /\ Len(s) # 0
  BY EmptySeq, LenProperties
<1>2. \A i \in 1 .. Len(s) : s[i] \in PodVersions
  BY ElementOfSeq
<1> QED BY <1>1, <1>2

\* A write puts the next version at the end.
LEMMA LogAppend ==
  ASSUME NEW s \in Seq(PodVersions), s # <<>>, NEW b \in Nat, NEW c \in Nat, NEW f \in Nat,
         NEW n \in PodVersions, LogSound(s, b, f), Follows(n, s[Len(s)], b, c, f),
         HasPodAnnotation(n) => \A i \in 1 .. Len(s) : s[i].uid = n.uid
  PROVE  LogSound(Append(s, n), c, f)
<1> DEFINE t == Append(s, n)
<1> DEFINE k == Len(s)
<1>1. k \in Nat /\ k \in 1 .. k /\ \A i \in 1 .. k : s[i] \in PodVersions
  BY LogFacts
<1>2. Len(t) = k + 1 /\ t[k + 1] = n /\ \A i \in 1 .. k : t[i] = s[i]
  BY <1>1, AppendProperties
<1>3. /\ \A i \in 1 .. k : Precedes(s[i], {s[j] : j \in i .. k}, s[k], b, f)
      /\ f <= b /\ (Exists(s[k]) /\ f = s[k].uid => s[k].del)
  BY DEF LogSound
<1> HIDE DEF t
<1>4. /\ Precedes(n, {n}, n, c, f) /\ f <= c
      /\ Exists(n) /\ f = n.uid => n.del
  <2>1. Precedes(s[k], {s[k]}, s[k], b, f)
    <3>1. {s[j] : j \in k .. k} = {s[k]}
      BY <1>1
    <3> QED BY <1>1, <1>3, <3>1
  <2> HIDE DEF k
  <2> QED BY <1>1, <1>3, <2>1, NextPrecedes DEF k
<1>5. ASSUME NEW i \in 1 .. k
      PROVE  Precedes(t[i], {t[j] : j \in i .. (k + 1)}, n, c, f)
  <2> DEFINE S == {s[j] : j \in i .. k}
  <2>1. S \in SUBSET PodVersions /\ s[k] \in S
    BY <1>1, <1>5
  <2>2. {t[j] : j \in i .. (k + 1)} = S \cup {n}
    BY <1>1, <1>2, <1>5
  <2>3. s[i] \in PodVersions /\ t[i] = s[i] /\ Precedes(s[i], S, s[k], b, f)
    BY <1>1, <1>2, <1>3, <1>5
  <2> HIDE DEF S, k
  <2>4. Precedes(s[i], S \cup {n}, n, c, f)
    BY <2>1, <2>3, PrecedesNext DEF k
  <2> QED BY <2>2, <2>3, <2>4
<1>6. {t[j] : j \in (k + 1) .. (k + 1)} = {n}
  BY <1>1, <1>2
<1>7. \A i \in 1 .. (k + 1) : Precedes(t[i], {t[j] : j \in i .. (k + 1)}, n, c, f)
  <2> SUFFICES ASSUME NEW i \in 1 .. (k + 1), i \notin 1 .. k
               PROVE  Precedes(t[i], {t[j] : j \in i .. (k + 1)}, n, c, f)
    BY <1>5
  <2>1. i = k + 1
    BY <1>1
  <2> QED BY <1>2, <1>4, <1>6, <2>1
<1>8. HasPodAnnotation(n) => \A i \in 1 .. (k + 1) : t[i].uid = n.uid
  BY <1>1, <1>2
<1> QED BY <1>2, <1>4, <1>7, <1>8 DEF LogSound, t

\* The informer takes the first version off.
LEMMA LogTail ==
  ASSUME NEW s \in Seq(PodVersions), Len(s) > 1, NEW b, NEW f, LogSound(s, b, f)
  PROVE  LogSound(Tail(s), b, f) /\ {Tail(s)[j] : j \in 1 .. Len(Tail(s))} \subseteq {s[j] : j \in 1 .. Len(s)}
<1> DEFINE t == Tail(s)
<1>1. s # <<>> /\ Len(s) \in Nat
  BY EmptySeq, LenProperties
<1>2. /\ Len(t) = Len(s) - 1 /\ \A i \in 1 .. Len(t) : t[i] = s[i + 1]
  BY <1>1, HeadTailProperties
<1> DEFINE k == Len(t)
<1> HIDE DEF t
<1>3. k \in Nat /\ k \in 1 .. k /\ Len(s) = k + 1 /\ t[k] = s[k + 1]
  BY <1>1, <1>2
<1>4. ASSUME NEW i \in 1 .. k
      PROVE  {t[j] : j \in i .. k} = {s[j] : j \in (i + 1) .. (k + 1)}
  <2>1. \A j \in i .. k : t[j] = s[j + 1] /\ j + 1 \in (i + 1) .. (k + 1)
    BY <1>2, <1>3, <1>4
  <2>2. ASSUME NEW j \in (i + 1) .. (k + 1) PROVE s[j] \in {t[x] : x \in i .. k}
    <3>1. j - 1 \in i .. k /\ (j - 1) + 1 = j
      BY <1>3, <1>4, <2>2
    <3> QED BY <2>1, <3>1
  <2>3. {s[j] : j \in (i + 1) .. (k + 1)} \subseteq {t[j] : j \in i .. k}
    BY <2>2
  <2>4. {t[j] : j \in i .. k} \subseteq {s[j] : j \in (i + 1) .. (k + 1)}
    BY <2>1
  <2> QED BY <2>3, <2>4
<1>5. \A i \in 1 .. k : i + 1 \in 1 .. (k + 1) /\ t[i] = s[i + 1]
  BY <1>2, <1>3
<1>6. \A i \in 1 .. k : Precedes(t[i], {t[j] : j \in i .. k}, t[k], b, f)
  BY <1>3, <1>4, <1>5 DEF LogSound
<1>7. LogSound(t, b, f)
  BY <1>3, <1>5, <1>6 DEF LogSound
<1>8. {t[j] : j \in 1 .. k} \subseteq {s[j] : j \in 1 .. Len(s)}
  BY <1>3, <1>5
<1> QED BY <1>7, <1>8 DEF t

\* handleDeletion releases the address of a copy's pod.
LEMMA LogFreed ==
  ASSUME NEW s \in Seq(PodVersions), s # <<>>, NEW b \in Nat, NEW f \in Nat, LogSound(s, b, f),
         NEW v \in PodVersions, Exists(v), v.del,
         Precedes(v, {s[j] : j \in 1 .. Len(s)}, s[Len(s)], b, f)
  PROVE  /\ LogSound(s, b, v.uid)
         /\ Precedes(v, {s[j] : j \in 1 .. Len(s)}, s[Len(s)], b, v.uid)
<1> DEFINE k == Len(s)
<1> DEFINE S == {s[j] : j \in 1 .. k}
<1>1. k \in Nat /\ k \in 1 .. k /\ \A i \in 1 .. k : s[i] \in PodVersions
  BY LogFacts
<1>2. S \in SUBSET PodVersions /\ s[k] \in S /\ Precedes(v, S, s[k], b, f)
  BY <1>1
<1>3. ASSUME NEW i \in 1 .. k
      PROVE  Precedes(s[i], {s[j] : j \in i .. k}, s[k], b, v.uid) /\ Precedes(v, S, s[k], b, v.uid)
  <2>1. s[i] \in S /\ {s[j] : j \in i .. k} \in SUBSET S
    BY <1>1, <1>3
  <2>2. Precedes(s[i], {s[j] : j \in i .. k}, s[k], b, f)
    BY <1>3 DEF LogSound
  <2> HIDE DEF S, k
  <2> QED BY <1>2, <2>1, <2>2, PrecedesFreed
<1>4. v.uid <= b /\ (Exists(s[k]) /\ v.uid = s[k].uid => s[k].del)
  BY <1>2 DEF Precedes, Exists
<1> QED BY <1>1, <1>3, <1>4 DEF LogSound

\* A restarted informer starts from the last version.
LEMMA LogLast ==
  ASSUME NEW s \in Seq(PodVersions), s # <<>>, NEW b, NEW f, LogSound(s, b, f)
  PROVE  LogSound(<<s[Len(s)]>>, b, f)
<1> DEFINE cur == s[Len(s)]
<1> DEFINE t == <<cur>>
<1>1. Len(s) \in 1 .. Len(s) /\ Len(s) \in Nat
  BY LogFacts
<1>2. {s[j] : j \in Len(s) .. Len(s)} = {cur}
  BY <1>1
<1>3. Precedes(cur, {cur}, cur, b, f) /\ f <= b /\ (Exists(cur) /\ f = cur.uid => cur.del)
  BY <1>1, <1>2 DEF LogSound
<1>4. Len(t) = 1 /\ t[1] = cur
  OBVIOUS
<1> HIDE DEF t, cur
<1>5. \A i \in 1 .. Len(t) : t[i] = cur /\ {t[j] : j \in i .. Len(t)} = {cur}
  BY <1>4
<1>6. t[Len(t)] = cur
  BY <1>4
<1>7. LogSound(t, b, f)
  BY <1>3, <1>5, <1>6 DEF LogSound
<1> QED BY <1>7 DEF t, cur

-----------------------------------------------------------------------------
(* Every step keeps what the copies tell.                                  *)

\* What the invariant says of one pod.
LEMMA PodFacts ==
  ASSUME Inv, NEW p \in Pod
  PROVE  /\ log[p] \in Seq(PodVersions) /\ log[p] # <<>>
         /\ births[p] \in Nat /\ freed[p] \in Nat
         /\ Server(p) = log[p][Len(log[p])]
         /\ Server(p) \in Versions(p) /\ Versions(p) \in SUBSET PodVersions
         /\ Server(p) \in PodVersions
<1>1. /\ log[p] \in Seq(PodVersions) /\ log[p] # <<>>
      /\ births[p] \in Nat /\ freed[p] \in Nat
  BY DEF Inv, Types, ApiTypes, CountTypes
<1>2. Len(log[p]) \in 1 .. Len(log[p]) /\ \A i \in 1 .. Len(log[p]) : log[p][i] \in PodVersions
  BY <1>1, LogFacts
<1> QED BY <1>1, <1>2 DEF Server, Versions

\* A step that writes nothing, releases nothing and goes on with the same
\* copy, not to a deletion, or ends the reconcile.
LEMMA SameCopy ==
  ASSUME Logs, WorkCopy, UNCHANGED apiVars, freed' = freed,
         \/ work' = work
         \/ work'.pc = "idle"
         \/ /\ work.pc \in Configuring /\ work'.pod = work.pod /\ work'.obj = work.obj
            /\ work'.pc \in Configuring
  PROVE  Logs' /\ WorkCopy'
<1>1. Logs'
  BY DEF Logs, apiVars
<1>2. WorkCopy'
  BY DEF WorkCopy, Versions, Server, apiVars, Configuring
<1> QED BY <1>1, <1>2

\* A write of a version that may follow the server's.
LEMMA WriteKeeps ==
  ASSUME History, NEW p \in Pod, NEW n \in PodVersions,
         log' = [log EXCEPT ![p] = Append(@, n)],
         births' \in [Pod -> Nat], \A q \in Pod \ {p} : births'[q] = births[q],
         freed' = freed,
         Follows(n, Server(p), births[p], births'[p], freed[p]),
         HasPodAnnotation(n) => \A i \in 1 .. Len(log[p]) : log[p][i].uid = n.uid,
         \/ work'.pc = "idle"
         \/ work' = work /\ (HasPodAnnotation(n) => HasPodAnnotation(Server(p)) /\ n.uid = Server(p).uid)
  PROVE  Logs' /\ WorkCopy'
<1> DEFINE s == log[p]
<1>1. /\ s \in Seq(PodVersions) /\ s # <<>>
      /\ births[p] \in Nat /\ births'[p] \in Nat /\ freed[p] \in Nat
      /\ Server(p) = s[Len(s)]
      /\ Server(p) \in Versions(p) /\ Versions(p) \in SUBSET PodVersions
  BY PodFacts DEF History
<1>2. log'[p] = Append(s, n) /\ \A q \in Pod \ {p} : log'[q] = log[q]
  BY DEF History, Inv, Types, ApiTypes
<1>3. LogSound(s, births[p], freed[p])
  BY DEF History, Logs
<1>4. LogSound(log'[p], births'[p], freed[p])
  <2> HIDE DEF s
  <2> QED BY <1>1, <1>2, <1>3, LogAppend DEF s
<1>5. Logs'
  <2>1. \A q \in Pod \ {p} : LogSound(log'[q], births'[q], freed'[q])
    BY <1>2 DEF History, Logs
  <2> QED BY <1>4, <2>1 DEF Logs
<1>6. /\ Server(p)' = n /\ Versions(p)' = Versions(p) \cup {n}
      /\ \A q \in Pod \ {p} : Server(q)' = Server(q) /\ Versions(q)' = Versions(q)
  <2>1. Len(s) \in Nat /\ Len(log'[p]) = Len(s) + 1 /\ log'[p][Len(s) + 1] = n
        /\ \A i \in 1 .. Len(s) : log'[p][i] = s[i]
    BY <1>1, <1>2, LogFacts, AppendProperties
  <2> QED BY <1>2, <2>1 DEF Server, Versions
<1>7. WorkCopy'
  <2> SUFFICES ASSUME work' = work, work.pc # "idle",
                      HasPodAnnotation(n) => HasPodAnnotation(Server(p)) /\ n.uid = Server(p).uid
               PROVE  WorkCopy'
    BY DEF WorkCopy
  <2>1. work.pod \in Pod /\ work.obj \in PodVersions
    BY DEF History, Inv, Types, WorkTypes, Works
  <2>2. CASE work.pod = p
    <3>1. Precedes(work.obj, Versions(p), Server(p), births[p], freed[p])
      BY <2>2 DEF History, WorkCopy
    <3>2. Precedes(work.obj, Versions(p) \cup {n}, n, births'[p], freed[p])
      BY <1>1, <2>1, <3>1, PrecedesNext
    <3> QED BY <1>6, <2>2, <3>2 DEF History, WorkCopy
  <2>3. CASE work.pod # p
    BY <1>6, <2>1, <2>3 DEF History, WorkCopy
  <2> QED BY <2>2, <2>3
<1> QED BY <1>5, <1>7

\* A guarded address cannot be lost to a write that drops the pod.
LEMMA AnnotatedIsGuarded ==
  ASSUME History, NEW p \in Pod, HasPodAnnotation(Server(p)), freed[p] # Server(p).uid
  PROVE  Server(p).fin
<1>1. Len(log[p]) \in 1 .. Len(log[p]) /\ Server(p) = log[p][Len(log[p])]
  BY PodFacts, LogFacts DEF History
<1>2. LogSound(log[p], births[p], freed[p])
  BY DEF History, Logs
<1> QED BY <1>1, <1>2 DEF LogSound, Precedes

\* A client changes a pod: address, finalizer and deletion mark stay.
LEMMA ChangeKeeps ==
  ASSUME History, NEW p \in Pod, NEW v \in PodVersions, ChangePod(p, v),
         v.uid = Server(p).uid, v.ip = Server(p).ip, v.fin = Server(p).fin,
         Server(p).del => v.del
  PROVE  Logs' /\ WorkCopy'
<1> DEFINE n == Stored(v)
<1>1. n \in PodVersions /\ (n = v \/ (n = Absent /\ ~ v.fin))
  BY StoredIsVersion DEF Stored
<1>2. Exists(Server(p)) /\ births' = births /\ work' = work /\ freed' = freed
  BY DEF ChangePod, history
<1>3. log' = [log EXCEPT ![p] = Append(@, n)]
  BY DEF ChangePod, Write
<1>4. births' \in [Pod -> Nat]
  BY <1>2 DEF History, Inv, Types, ApiTypes
<1>5. LogSound(log[p], births[p], freed[p]) /\ Server(p) = log[p][Len(log[p])]
  BY PodFacts DEF History, Logs
<1> HIDE DEF n
<1>6. CASE n = v
  <2>1. Follows(n, Server(p), births[p], births'[p], freed[p])
    BY <1>2, <1>6, AnnotatedIsGuarded DEF Follows, HasPodAnnotation
  <2>2. HasPodAnnotation(n) => HasPodAnnotation(Server(p)) /\ n.uid = Server(p).uid
    BY <1>6 DEF HasPodAnnotation
  <2>3. HasPodAnnotation(n) => \A i \in 1 .. Len(log[p]) : log[p][i].uid = n.uid
    BY <1>5, <2>2 DEF LogSound
  <2> QED BY <1>1, <1>2, <1>3, <1>4, <2>1, <2>2, <2>3, WriteKeeps
<1>7. CASE n = Absent /\ ~ v.fin
  <2>1. Follows(n, Server(p), births[p], births'[p], freed[p])
    BY <1>2, <1>7, AnnotatedIsGuarded DEF Follows
  <2>2. ~ HasPodAnnotation(n)
    BY <1>7 DEF HasPodAnnotation, Absent
  <2> QED BY <1>1, <1>2, <1>3, <1>4, <2>1, <2>2, WriteKeeps
<1> QED BY <1>1, <1>6, <1>7

\* Users and the kubelet.
LEMMA ClusterKeeps ==
  ASSUME History, NEW p \in Pod, Cluster(p)
  PROVE  Logs' /\ WorkCopy'
<1>1. Server(p) \in PodVersions /\ births[p] \in Nat
  BY PodFacts DEF History
<1>2. CASE CreatePod(p)
  <2> DEFINE v == [Absent EXCEPT !.uid = births[p] + 1]
  <2>1. v \in PodVersions /\ v.uid = births[p] + 1 /\ ~ HasPodAnnotation(v) /\ ~ v.del
    <3>1. births[p] + 1 \in Nat
      BY <1>1
    <3>2. v \in PodVersions
      BY <3>1, AbsentIsVersion DEF PodVersions
    <3>3. v.uid = births[p] + 1 /\ v.ip = 0 /\ v.del = FALSE
      BY DEF Absent
    <3> QED BY <3>2, <3>3 DEF HasPodAnnotation
  <2>2. /\ ~ Exists(Server(p)) /\ births' = [births EXCEPT ![p] = @ + 1] /\ Write(p, v)
        /\ work' = work /\ freed' = freed
    BY <1>2 DEF CreatePod, history
  <2> HIDE DEF v
  <2>3. Stored(v) = v
    BY <2>1 DEF Stored
  <2>4. log' = [log EXCEPT ![p] = Append(@, v)]
    BY <2>2, <2>3 DEF Write
  <2>5. births' \in [Pod -> Nat] /\ births'[p] = births[p] + 1 /\ \A q \in Pod \ {p} : births'[q] = births[q]
    BY <2>2 DEF History, Inv, Types, ApiTypes
  <2>6. Follows(v, Server(p), births[p], births'[p], freed[p])
    BY <2>1, <2>2, <2>5 DEF Follows
  <2>7. work' = work /\ freed' = freed
    BY <2>2
  <2> QED BY <2>1, <2>4, <2>5, <2>6, <2>7, WriteKeeps
<1>3. CASE DeletePod(p)
  <2> DEFINE v == [Server(p) EXCEPT !.del = TRUE, !.grace = Graceful /\ ~ Server(p).done]
  <2>1. v \in PodVersions /\ v.ip = Server(p).ip /\ v.uid = Server(p).uid /\ v.fin = Server(p).fin /\ v.del
    BY <1>1, PodAssumption DEF PodVersions
  <2>2. ChangePod(p, v)
    BY <1>3 DEF DeletePod
  <2> HIDE DEF v
  <2> QED BY <2>1, <2>2, ChangeKeeps
<1>4. CASE CompletePod(p)
  <2> DEFINE v == [Server(p) EXCEPT !.done = TRUE]
  <2>1. v \in PodVersions /\ v.ip = Server(p).ip /\ v.uid = Server(p).uid /\ v.fin = Server(p).fin
        /\ v.del = Server(p).del
    BY <1>1 DEF PodVersions
  <2>2. ChangePod(p, v)
    BY <1>4 DEF CompletePod
  <2> HIDE DEF v
  <2> QED BY <2>1, <2>2, ChangeKeeps
<1>5. CASE UpdatePodStatus(p)
  <2> DEFINE v == [Server(p) EXCEPT !.status = @ + 1]
  <2>1. v \in PodVersions /\ v.ip = Server(p).ip /\ v.uid = Server(p).uid /\ v.fin = Server(p).fin
        /\ v.del = Server(p).del
    BY <1>1 DEF PodVersions
  <2>2. ChangePod(p, v)
    BY <1>5 DEF UpdatePodStatus
  <2> HIDE DEF v
  <2> QED BY <2>1, <2>2, ChangeKeeps
<1>6. CASE StopContainers(p)
  <2> DEFINE v == [Server(p) EXCEPT !.grace = FALSE]
  <2>1. v \in PodVersions /\ v.ip = Server(p).ip /\ v.uid = Server(p).uid /\ v.fin = Server(p).fin
        /\ v.del = Server(p).del
    BY <1>1 DEF PodVersions
  <2>2. ChangePod(p, v)
    BY <1>6 DEF StopContainers
  <2> HIDE DEF v
  <2> QED BY <2>1, <2>2, ChangeKeeps
<1> QED BY <1>2, <1>3, <1>4, <1>5, <1>6 DEF Cluster

\* The informer, the timers and the start of a reconcile: the copy a
\* reconcile starts from is the first of the versions.
LEMMA QueueKeeps ==
  ASSUME History, NEW p \in Pod, Deliver(p) \/ BackoffExpires(p) \/ Dequeue(p)
  PROVE  Logs' /\ WorkCopy'
<1>1. CASE Deliver(p)
  <2>1. /\ Len(log[p]) > 1 /\ log' = [log EXCEPT ![p] = Tail(@)]
        /\ births' = births /\ work' = work /\ freed' = freed
    BY <1>1 DEF Deliver, history
  <2>2. log'[p] = Tail(log[p]) /\ \A q \in Pod \ {p} : log'[q] = log[q]
    BY <2>1 DEF History, Inv, Types, ApiTypes
  <2>3. LogSound(log[p], births[p], freed[p]) /\ log[p] \in Seq(PodVersions)
    BY PodFacts DEF History, Logs
  <2>4. LogSound(log'[p], births[p], freed[p]) /\ Versions(p)' \subseteq Versions(p)
    BY <2>1, <2>2, <2>3, LogTail DEF Versions
  <2>5. Logs'
    BY <2>1, <2>2, <2>4 DEF History, Logs
  <2>6. \A q \in Pod : Server(q)' = Server(q) /\ Versions(q)' \subseteq Versions(q)
    <3>1. \A q \in Pod : Server(q)' = Server(q)
      BY <1>1, QueueSteps DEF History
    <3> QED BY <2>2, <2>4, <3>1 DEF Versions
  <2>7. WorkCopy'
    <3> SUFFICES ASSUME work.pc # "idle" PROVE WorkCopy'
      BY <2>1 DEF WorkCopy
    <3>1. PICK q \in Pod : q = work.pod
      BY DEF History, Inv, Types, WorkTypes
    <3>2. Precedes(work.obj, Versions(q), Server(q), births[q], freed[q])
      BY <3>1 DEF History, WorkCopy
    <3>3. Versions(q)' \in SUBSET Versions(q)
      BY <2>6
    <3>4. Precedes(work.obj, Versions(q)', Server(q), births[q], freed[q])
      <4> DEFINE T == Versions(q)'
      <4> HIDE DEF T
      <4>1. T \in SUBSET Versions(q)
        BY <3>3 DEF T
      <4>2. Precedes(work.obj, T, Server(q), births[q], freed[q])
        BY <3>2, <4>1, PrecedesFewer
      <4> QED BY <4>2 DEF T
    <3> QED BY <2>1, <2>6, <3>1, <3>4 DEF History, WorkCopy
  <2> QED BY <2>5, <2>7
<1>2. CASE BackoffExpires(p) \/ ReconcileGone(p) \/ ReconcileNothing(p)
  <2>1. UNCHANGED apiVars /\ freed' = freed /\ work' = work
    BY <1>2 DEF BackoffExpires, ReconcileGone, ReconcileNothing, history
  <2> QED BY <2>1, SameCopy DEF History
<1>3. CASE Reconcile(p)
  <2> DEFINE v == Cached(p)
  <2>1. UNCHANGED apiVars /\ freed' = freed /\ work' = At(FirstStep(v), p, v)
    BY <1>3 DEF Reconcile, history
  <2>2. /\ v = log[p][1] /\ v \in PodVersions /\ 1 \in 1 .. Len(log[p])
    <3>1. log[p] \in Seq(PodVersions) /\ log[p] # <<>>
      BY PodFacts DEF History
    <3> QED BY <3>1, LogFacts, HeadTailProperties DEF Cached
  <2>3. LogSound(log[p], births[p], freed[p]) /\ Server(p) = log[p][Len(log[p])]
    BY PodFacts DEF History, Logs
  <2>4. /\ Precedes(v, Versions(p), Server(p), births[p], freed[p])
        /\ HasPodAnnotation(Server(p)) => v.uid = Server(p).uid
    BY <2>2, <2>3 DEF LogSound, Versions
  <2>5. FirstStep(v) \in {"deletePort", "addFinalizer", "findSubnet"}
        /\ (FirstStep(v) = "deletePort" <=> v.del)
    BY <2>2 DEF FirstStep, PodVersions
  <2>6. Logs'
    BY <2>1 DEF History, Logs, apiVars
  <2>7. Server(p)' = Server(p) /\ Versions(p)' = Versions(p) /\ births' = births
    BY <2>1 DEF apiVars, Server, Versions
  <2> HIDE DEF v
  <2>8. WorkCopy'
    <3>1. work'.pc = FirstStep(v) /\ work'.pod = p /\ work'.obj = v
      BY <2>1 DEF At
    <3> QED BY <2>1, <2>4, <2>5, <2>7, <3>1 DEF WorkCopy
  <2> QED BY <2>6, <2>8
<1> QED BY <1>1, <1>2, <1>3 DEF Dequeue

\* client.Update: the version written follows the server's, as that is the
\* one that was read.
LEMMA UpdateKeeps ==
  ASSUME History, work.pc # "idle", NEW p \in Pod, work.pod = p,
         NEW v \in PodVersions, NEW ok, Update(v, ok),
         v.uid = work.obj.uid, work.obj.del => v.del,
         HasPodAnnotation(work.obj) => v.ip = work.obj.ip,
         v.fin \/ freed[p] = work.obj.uid,
         work'.pc = "idle", births' = births, freed' = freed
  PROVE  Logs' /\ WorkCopy'
<1>1. CASE UNCHANGED log
  BY <1>1, SameCopy DEF History, apiVars
<1>2. CASE Current /\ Write(p, v)
  <2> DEFINE n == Stored(v)
  <2>1. n \in PodVersions /\ (n = v \/ (n = Absent /\ ~ v.fin))
    BY StoredIsVersion DEF Stored
  <2>2. Server(p) = work.obj /\ Exists(work.obj) /\ log' = [log EXCEPT ![p] = Append(@, n)]
    BY <1>2 DEF Current, Write, History, Inv, WorkSound
  <2>3. births' \in [Pod -> Nat] /\ births'[p] = births[p] /\ \A q \in Pod \ {p} : births'[q] = births[q]
    BY DEF History, Inv, Types, ApiTypes
  <2> HIDE DEF n
  <2>4. Follows(n, Server(p), births[p], births'[p], freed[p])
    BY <2>1, <2>2, <2>3 DEF Follows
  <2>5. HasPodAnnotation(n) => \A i \in 1 .. Len(log[p]) : log[p][i].uid = n.uid
    <3> SUFFICES ASSUME HasPodAnnotation(n), NEW i \in 1 .. Len(log[p])
                 PROVE  log[p][i].uid = n.uid
      OBVIOUS
    <3>1. n = v
      BY <2>1 DEF HasPodAnnotation, Absent
    <3>2. Precedes(work.obj, Versions(p), Server(p), births[p], freed[p])
      BY DEF History, WorkCopy
    <3>3. log[p][i] \in Versions(p)
      BY DEF Versions
    <3> QED BY <2>2, <3>1, <3>2, <3>3 DEF Precedes
  <2> QED BY <2>1, <2>2, <2>3, <2>4, <2>5, WriteKeeps
<1> QED BY <1>1, <1>2 DEF Update

\* The three steps that end in client.Update.
LEMMA UpdateStepsKeep ==
  ASSUME History, AddFinalizer \/ Annotate \/ RemoveFinalizer
  PROVE  Logs' /\ WorkCopy'
<1>1. /\ work \in Works /\ work.pod \in Pod /\ work.obj \in PodVersions
      /\ work.ip \in Nat /\ work.subnet \in Subnet \cup {NoSubnet} /\ work.pc # "idle"
  BY DEF History, Inv, Types, WorkTypes, Works, AddFinalizer, Annotate, RemoveFinalizer
<1>2. births' = births /\ freed' = freed /\ work'.pc = "idle"
  BY DEF AddFinalizer, Annotate, RemoveFinalizer, Return, Idle, history
<1>3. CASE AddFinalizer
  <2> DEFINE v == [work.obj EXCEPT !.fin = TRUE]
  <2>1. v \in PodVersions /\ v.fin /\ v.uid = work.obj.uid /\ v.ip = work.obj.ip /\ v.del = work.obj.del
    BY <1>1 DEF PodVersions
  <2>2. \E ok \in BOOLEAN : Update(v, ok)
    BY <1>3 DEF AddFinalizer
  <2> HIDE DEF v
  <2> QED BY <1>1, <1>2, <2>1, <2>2, UpdateKeeps
<1>4. CASE Annotate
  <2> DEFINE v == [work.obj EXCEPT !.ip = work.ip, !.subnet = work.subnet]
  <2>1. v \in PodVersions /\ v.uid = work.obj.uid /\ v.fin = work.obj.fin /\ v.del = work.obj.del
    BY <1>1 DEF PodVersions
  <2>2. \E ok \in BOOLEAN : Update(v, ok)
    BY <1>4 DEF Annotate
  <2>3. work.obj.fin /\ ~ HasPodAnnotation(work.obj)
    BY <1>4 DEF Annotate, Configuring, History, Inv, WorkSound
  <2> HIDE DEF v
  <2> QED BY <1>1, <1>2, <2>1, <2>2, <2>3, UpdateKeeps
<1>5. CASE RemoveFinalizer
  <2> DEFINE v == [work.obj EXCEPT !.fin = FALSE]
  <2>1. v \in PodVersions /\ v.uid = work.obj.uid /\ v.ip = work.obj.ip /\ v.del = work.obj.del
    BY <1>1 DEF PodVersions
  <2>2. \E ok \in BOOLEAN : Update(v, ok)
    BY <1>5 DEF RemoveFinalizer
  <2>3. freed[work.pod] = work.obj.uid
    BY <1>5 DEF RemoveFinalizer, History, WorkCopy
  <2> HIDE DEF v
  <2> QED BY <1>1, <1>2, <2>1, <2>2, <2>3, UpdateKeeps
<1> QED BY <1>3, <1>4, <1>5

\* The other steps of configurePodNetwork.
LEMMA ConfigureKeeps ==
  ASSUME History,
         FindNoSubnet \/ AllocateFails \/ FindSubnet
           \/ GetPort \/ GetPortFails \/ CreatePort \/ CreatePortFails
  PROVE  Logs' /\ WorkCopy'
<1>1. UNCHANGED apiVars /\ freed' = freed /\ work.pc \in Configuring /\ work \in Works
  BY DEF FindNoSubnet, AllocateFails, FindSubnet, GetPort, GetPortFails, CreatePort, CreatePortFails,
         UndoAllocation, history, History, Inv, Types, WorkTypes, Configuring
<1>2. \/ work'.pc = "idle"
      \/ work'.pod = work.pod /\ work'.obj = work.obj /\ work'.pc \in Configuring
  <2>1. CASE FindNoSubnet \/ AllocateFails \/ GetPortFails \/ CreatePortFails
    BY <2>1 DEF FindNoSubnet, AllocateFails, GetPortFails, CreatePortFails, UndoAllocation, Return, Idle
  <2>2. CASE FindSubnet \/ GetPort \/ CreatePort
    BY <1>1, <2>2 DEF FindSubnet, AllocateIP, GetPort, CreatePort, Works, Configuring
  <2> QED BY <2>1, <2>2
<1> QED BY <1>1, <1>2, SameCopy DEF History

\* handleDeletion releases the pod of its copy.
LEMMA DeletePortKeeps ==
  ASSUME History, DeletePort
  PROVE  Logs' /\ WorkCopy'
<1> DEFINE p == work.pod
<1> DEFINE v == work.obj
<1>1. p \in Pod /\ v \in PodVersions /\ work \in Works /\ work.pc = "deletePort"
  BY DEF DeletePort, History, Inv, Types, WorkTypes, Works
<1>2. Exists(v) /\ v.del /\ Precedes(v, Versions(p), Server(p), births[p], freed[p])
  BY <1>1 DEF History, Inv, WorkSound, WorkCopy
<1>3. UNCHANGED apiVars /\ freed' = [freed EXCEPT ![p] = v.uid]
  BY DEF DeletePort
<1>4. freed'[p] = v.uid /\ \A q \in Pod \ {p} : freed'[q] = freed[q]
  BY <1>1, <1>3 DEF History, Inv, Types, CountTypes
<1>5. /\ log[p] \in Seq(PodVersions) /\ log[p] # <<>> /\ births[p] \in Nat /\ freed[p] \in Nat
      /\ Server(p) = log[p][Len(log[p])] /\ LogSound(log[p], births[p], freed[p])
  BY <1>1, PodFacts DEF History, Logs
<1>6. /\ work'.pc = "idle" \/ (work'.pc = "removeFinalizer" /\ work'.pod = p /\ work'.obj = v)
  BY <1>1 DEF DeletePort, Return, Idle, Works
<1> HIDE DEF p, v
<1>7. LogSound(log[p], births[p], v.uid) /\ Precedes(v, Versions(p), Server(p), births[p], v.uid)
  <2> DEFINE s == log[p]
  <2>1. Precedes(v, {s[j] : j \in 1 .. Len(s)}, s[Len(s)], births[p], freed[p])
    BY <1>2, <1>5 DEF Versions
  <2>2. s \in Seq(PodVersions) /\ s # <<>> /\ LogSound(s, births[p], freed[p])
    BY <1>5
  <2> HIDE DEF s
  <2>3. /\ LogSound(s, births[p], v.uid)
        /\ Precedes(v, {s[j] : j \in 1 .. Len(s)}, s[Len(s)], births[p], v.uid)
    BY <1>1, <1>2, <1>5, <2>1, <2>2, LogFreed
  <2> QED BY <1>5, <2>3 DEF s, Versions
<1>8. Logs'
  BY <1>3, <1>4, <1>7 DEF History, Logs, apiVars
<1>9. \A q : Server(q)' = Server(q) /\ Versions(q)' = Versions(q)
  BY <1>3 DEF apiVars, Server, Versions
<1>10. HasPodAnnotation(Server(p)) => v.uid = Server(p).uid
  BY <1>1 DEF History, WorkCopy, p, v
<1>11. WorkCopy'
  BY <1>2, <1>3, <1>4, <1>6, <1>7, <1>9, <1>10 DEF WorkCopy, apiVars
<1> QED BY <1>8, <1>11

\* A restart keeps the last versions and drops the reconcile.
LEMMA RestartKeeps ==
  ASSUME History, Restart
  PROVE  Logs' /\ WorkCopy'
<1>1. /\ log' = [p \in Pod |-> <<Server(p)>>] /\ births' = births /\ freed' = freed
      /\ work' = Idle
  BY DEF Restart
<1>2. Logs'
  <2> SUFFICES ASSUME NEW p \in Pod PROVE LogSound(log'[p], births[p], freed[p])
    BY <1>1 DEF Logs
  <2>1. log[p] \in Seq(PodVersions) /\ log[p] # <<>> /\ LogSound(log[p], births[p], freed[p])
    BY PodFacts DEF History, Logs
  <2>2. log'[p] = <<log[p][Len(log[p])]>>
    BY <1>1 DEF Server
  <2> QED BY <2>1, <2>2, LogLast
<1>3. WorkCopy'
  BY <1>1 DEF WorkCopy, Idle
<1> QED BY <1>2, <1>3

\* The invariant of the copies holds at the start.
LEMMA InitHistory == Init => History
<1> SUFFICES ASSUME Init PROVE History
  OBVIOUS
<1>1. Logs
  <2> SUFFICES ASSUME NEW p \in Pod PROVE LogSound(<<Absent>>, 0, 0)
    BY DEF Init, Logs
  <2> DEFINE s == <<Absent>>
  <2>1. Len(s) = 1 /\ s[1] = Absent
    OBVIOUS
  <2>2. Absent.uid = 0 /\ Absent.ip = 0
    BY DEF Absent
  <2> HIDE DEF s
  <2>3. \A i \in 1 .. Len(s) : s[i] = Absent
    BY <2>1
  <2>4. \A i \in 1 .. Len(s) : Precedes(s[i], {s[j] : j \in i .. Len(s)}, s[Len(s)], 0, 0)
    BY <2>1, <2>2, <2>3 DEF Precedes, Exists, HasPodAnnotation
  <2>5. LogSound(s, 0, 0)
    BY <2>1, <2>2, <2>4 DEF LogSound, Exists, HasPodAnnotation
  <2> QED BY <2>5 DEF s
<1>2. WorkCopy
  BY DEF Init, WorkCopy, Idle
<1> QED BY <1>1, <1>2, InitInv DEF History

\* And through every step.
LEMMA NextHistory ==
  ASSUME History, [Next]_vars
  PROVE  History'
<1>1. Inv'
  BY NextInv DEF History
<1> SUFFICES Logs' /\ WorkCopy'
  BY <1>1 DEF History
<1>2. ASSUME NEW p \in Pod, Cluster(p) PROVE Logs' /\ WorkCopy'
  BY <1>2, ClusterKeeps
<1>3. ASSUME NEW p \in Pod, Deliver(p) \/ BackoffExpires(p) \/ Dequeue(p) PROVE Logs' /\ WorkCopy'
  BY <1>3, QueueKeeps
<1>4. CASE Worker
  BY <1>4, UpdateStepsKeep, ConfigureKeeps, DeletePortKeeps DEF Worker
<1>5. ASSUME NEW s \in Subnet, SubnetSide(s) PROVE Logs' /\ WorkCopy'
  <2>1. UNCHANGED apiVars /\ freed' = freed /\ work' = work
    BY <1>5 DEF SubnetSide, EnsureIPAllocator, UpdateStatusActive, history
  <2> QED BY <2>1, SameCopy DEF History
<1>6. CASE Restart
  BY <1>6, RestartKeeps
<1>7. CASE UNCHANGED vars
  <2>1. UNCHANGED apiVars /\ freed' = freed /\ work' = work
    BY <1>7 DEF vars, apiVars
  <2> QED BY <2>1, SameCopy DEF History
<1> QED BY <1>2, <1>3, <1>4, <1>5, <1>6, <1>7 DEF Next

\* A pod with an address that was not released has our finalizer: no stale
\* copy, lost answer, restart or reuse of a name lets it slip away before
\* handleDeletion has run for it.
THEOREM AddressesAreGuarded == Spec => []AddressIsGuarded
<1>1. History => AddressIsGuarded
  BY AnnotatedIsGuarded DEF AddressIsGuarded
<1>2. History /\ [Next]_vars => History'
  BY NextHistory
<1> QED BY <1>1, <1>2, InitHistory, PTL DEF Spec

-----------------------------------------------------------------------------
(* The addresses in use.                                                   *)

\* An allocator only has addresses of its own block in use.
LEMMA HeldInBlock ==
  ASSUME AllocatorsSound, NEW s \in DOMAIN allocators
  PROVE  Held(allocators[s]) \subseteq Free(CidrOf[s], ExcludesOf[s])
<1>1. s \in Subnet /\ AllocInv(CidrOf[s], ExcludesOf[s], allocators[s])
  BY DEF AllocatorsSound
<1>2. CidrOf[s] \in AllocatableCIDRs /\ ExcludesOf[s] \in SUBSET ExcludeSpecs
  BY <1>1, PodAssumption
<1> QED BY <1>1, <1>2, HeldByBits

\* Blocks of different subnets have no address in common, and 0 is in none.
LEMMA BlocksApart ==
  ASSUME NEW s \in Subnet, NEW ip \in Free(CidrOf[s], ExcludesOf[s])
  PROVE  ip # 0 /\ ip \in Nat /\ \A t \in Subnet \ {s} : ip \notin Free(CidrOf[t], ExcludesOf[t])
<1>1. \A t \in Subnet : CidrOf[t].base \in Nat /\ CidrOf[t].total \in Nat
  BY PodAssumption, CidrFacts
<1>2. ip \in Usable(CidrOf[s])
  BY DEF Free
<1>3. ip \in Nat /\ CidrOf[s].base < ip /\ ip < CidrOf[s].base + CidrOf[s].total
  BY <1>1, <1>2 DEF Usable
<1>4. ASSUME NEW t \in Subnet \ {s}, ip \in Free(CidrOf[t], ExcludesOf[t]) PROVE FALSE
  <2>1. ip \in Usable(CidrOf[t])
    BY <1>4 DEF Free
  <2>2. CidrOf[t].base < ip /\ ip < CidrOf[t].base + CidrOf[t].total
    BY <1>1, <1>3, <2>1 DEF Usable
  <2> QED BY <1>1, <1>3, <2>2, DisjointSubnets
<1> QED BY <1>1, <1>3, <1>4

\* A granted address was in use in no subnet.
LEMMA GrantIsFresh ==
  ASSUME AllocatorsSound, NEW s \in DOMAIN allocators, ~ Exhausted(allocators[s]),
         allocators' = [allocators EXCEPT ![s] = AllocateNext(allocators[s])]
  PROVE  /\ NextIP(allocators[s]) # 0 /\ NextIP(allocators[s]) \notin TakenIPs
         /\ TakenIPs \cup {NextIP(allocators[s])} \subseteq TakenIPs'
<1> DEFINE ip == NextIP(allocators[s])
<1>1. s \in Subnet /\ AllocInv(CidrOf[s], ExcludesOf[s], allocators[s])
      /\ CidrOf[s] \in AllocatableCIDRs /\ ExcludesOf[s] \in SUBSET ExcludeSpecs
  BY PodAssumption DEF AllocatorsSound
<1>2. /\ ip \in Free(CidrOf[s], ExcludesOf[s]) \ Held(allocators[s])
      /\ Held(AllocateNext(allocators[s])) = Held(allocators[s]) \cup {ip}
  BY <1>1, AllocateNextGrants
<1> HIDE DEF ip
<1>3. ASSUME NEW t \in DOMAIN allocators PROVE ip \notin Held(allocators[t])
  <2>1. t \in Subnet /\ Held(allocators[t]) \subseteq Free(CidrOf[t], ExcludesOf[t])
    BY HeldInBlock DEF AllocatorsSound
  <2> QED BY <1>1, <1>2, <2>1, BlocksApart
<1>4. /\ DOMAIN allocators' = DOMAIN allocators
      /\ \A t \in DOMAIN allocators :
           allocators'[t] = IF t = s THEN AllocateNext(allocators[s]) ELSE allocators[t]
  OBVIOUS
<1>5. ip # 0
  BY <1>1, <1>2, BlocksApart
<1>6. ip \notin TakenIPs
  BY <1>3 DEF TakenIPs
<1>7. TakenIPs \cup {ip} \subseteq TakenIPs'
  BY <1>2, <1>4 DEF TakenIPs
<1> QED BY <1>5, <1>6, <1>7 DEF ip

\* A release gives back no other address.
LEMMA ReleaseTakesOne ==
  ASSUME AllocatorsSound, NEW s, NEW ip \in Nat,
         allocators' = [allocators EXCEPT ![s] = Release(@, ip)]
  PROVE  TakenIPs \ {ip} \subseteq TakenIPs'
<1>1. /\ DOMAIN allocators' = DOMAIN allocators
      /\ \A t \in DOMAIN allocators :
           allocators'[t] = IF t = s THEN Release(allocators[t], ip) ELSE allocators[t]
  OBVIOUS
<1>2. ASSUME NEW t \in DOMAIN allocators
      PROVE  Held(allocators[t]) \ {ip} \subseteq Held(allocators'[t])
  <2> DEFINE a == allocators[t]
  <2> DEFINE c == CidrOf[t]
  <2> DEFINE xs == ExcludesOf[t]
  <2>1. c \in AllocatableCIDRs /\ xs \in SUBSET ExcludeSpecs /\ AllocInv(c, xs, a) /\ ip \in Int
    BY PodAssumption DEF AllocatorsSound
  <2>2. Held(Release(a, ip)) = Held(a) \ {ip}
    <3> HIDE DEF a, c, xs
    <3> QED BY <2>1, ReleaseGivesBack
  <2>3. allocators'[t] = Release(allocators[t], ip) \/ allocators'[t] = allocators[t]
    BY <1>1
  <2> QED BY <2>2, <2>3
<1> QED BY <1>1, <1>2 DEF TakenIPs

-----------------------------------------------------------------------------
(* Every step keeps the claims.                                            *)

\* A step that adds no claim, and gives up the addresses X that are in
\* nobody's claim after it.
LEMMA ClaimsShrink ==
  ASSUME Ownership, NEW X,
         causes' = {} => causes = {} /\ \A p \in Pod : Claims(p)' \subseteq Claims(p) \ X,
         TakenIPs \ X \subseteq TakenIPs'
  PROVE  Ownership'
<1> SUFFICES ASSUME causes' = {}
             PROVE  /\ \A p \in Pod : Claims(p)' \subseteq TakenIPs'
                    /\ \A p, q \in Pod : p # q => Claims(p)' \cap Claims(q)' = {}
  BY DEF Ownership
<1>1. causes = {} /\ \A p \in Pod : Claims(p)' \subseteq Claims(p) \ X
  OBVIOUS
<1>2. \A p \in Pod : Claims(p) \subseteq TakenIPs
  BY <1>1 DEF Ownership
<1>3. \A p, q \in Pod : p # q => Claims(p) \cap Claims(q) = {}
  BY <1>1 DEF Ownership
<1>4. \A p \in Pod : Claims(p)' \subseteq TakenIPs'
  BY <1>1, <1>2
<1>5. \A p, q \in Pod : p # q => Claims(p)' \cap Claims(q)' = {}
  BY <1>1, <1>3
<1> QED BY <1>4, <1>5

\* No version of the pod with another address appears.
NoNewAddress(p) ==
  HasPodAnnotation(Server(p)') => Server(p)'.ip = Server(p).ip /\ Server(p)'.uid = Server(p).uid

\* Then a name whose tracking entry stays, or goes, claims no more.
LEMMA NoNewClaim ==
  ASSUME NEW p \in Pod, NoNewAddress(p), freed'[p] = freed[p],
         tracked'[p] = tracked[p] \/ tracked'[p] = 0
  PROVE  Claims(p)' \subseteq Claims(p)
<1>1. Holds(p)' => Holds(p) /\ Server(p)'.ip = Server(p).ip
  BY DEF Holds, NoNewAddress, HasPodAnnotation
<1> QED BY <1>1 DEF Claims

\* Clients of the API server leave an address as it is, or start a new pod.
LEMMA ClusterWrites ==
  ASSUME Inv, NEW p \in Pod, Cluster(p)
  PROVE  \E v \in PodVersions :
           /\ Write(p, v)
           /\ \/ v.ip = 0
              \/ v.ip = Server(p).ip /\ v.subnet = Server(p).subnet /\ v.uid = Server(p).uid
<1>1. Server(p) \in PodVersions /\ births[p] \in Nat
  BY PodFacts
<1>2. CASE CreatePod(p)
  <2> DEFINE v == [Absent EXCEPT !.uid = births[p] + 1]
  <2>1. births[p] + 1 \in Nat
    BY <1>1
  <2>2. v \in PodVersions
    BY <2>1, AbsentIsVersion DEF PodVersions
  <2>3. v.ip = 0
    BY DEF Absent
  <2> QED BY <1>2, <2>2, <2>3 DEF CreatePod
<1>3. CASE DeletePod(p)
  <2> DEFINE v == [Server(p) EXCEPT !.del = TRUE, !.grace = Graceful /\ ~ Server(p).done]
  <2>1. v \in PodVersions /\ v.ip = Server(p).ip /\ v.subnet = Server(p).subnet /\ v.uid = Server(p).uid
    BY <1>1, PodAssumption DEF PodVersions
  <2> QED BY <1>3, <2>1 DEF DeletePod, ChangePod
<1>4. CASE CompletePod(p)
  <2> DEFINE v == [Server(p) EXCEPT !.done = TRUE]
  <2>1. v \in PodVersions /\ v.ip = Server(p).ip /\ v.subnet = Server(p).subnet /\ v.uid = Server(p).uid
    BY <1>1 DEF PodVersions
  <2> QED BY <1>4, <2>1 DEF CompletePod, ChangePod
<1>5. CASE UpdatePodStatus(p)
  <2> DEFINE v == [Server(p) EXCEPT !.status = @ + 1]
  <2>1. v \in PodVersions /\ v.ip = Server(p).ip /\ v.subnet = Server(p).subnet /\ v.uid = Server(p).uid
    BY <1>1 DEF PodVersions
  <2> QED BY <1>5, <2>1 DEF UpdatePodStatus, ChangePod
<1>6. CASE StopContainers(p)
  <2> DEFINE v == [Server(p) EXCEPT !.grace = FALSE]
  <2>1. v \in PodVersions /\ v.ip = Server(p).ip /\ v.subnet = Server(p).subnet /\ v.uid = Server(p).uid
    BY <1>1 DEF PodVersions
  <2> QED BY <1>6, <2>1 DEF StopContainers, ChangePod
<1> QED BY <1>2, <1>3, <1>4, <1>5, <1>6 DEF Cluster

\* Clients of the API server give out no address.
LEMMA ClusterClaims ==
  ASSUME SafetyInv, NEW p \in Pod, Cluster(p)
  PROVE  WorkAddress' /\ Ownership'
<1>1. Server(p) \in PodVersions /\ births[p] \in Nat /\ ApiTypes
  BY PodFacts DEF SafetyInv, History, Inv, Types
<1>2. UNCHANGED <<queueVars, work, memoryVars, active, port, faults, restarts, history>>
  BY DEF Cluster, CreatePod, DeletePod, CompletePod, UpdatePodStatus, StopContainers, ChangePod
<1>3. PICK v \in PodVersions :
        /\ Write(p, v)
        /\ v.ip = 0 \/ (v.ip = Server(p).ip /\ v.uid = Server(p).uid)
  BY ClusterWrites DEF SafetyInv, History
<1>4. Server(p)' = Stored(v) /\ \A q \in Pod \ {p} : Server(q)' = Server(q)
  BY <1>1, <1>3, WriteAppends
<1>5. Stored(v) = v \/ Stored(v) = Absent
  BY StoredIsVersion
<1>6. Absent.ip = 0
  BY DEF Absent
<1>7. \A q \in Pod : NoNewAddress(q)
  BY <1>3, <1>4, <1>5, <1>6 DEF NoNewAddress, HasPodAnnotation
<1>8. \A q \in Pod : Claims(q)' \subseteq Claims(q)
  BY <1>2, <1>7, NoNewClaim DEF memoryVars, history
<1>9. causes' = causes /\ TakenIPs' = TakenIPs
  BY <1>2 DEF history, memoryVars, TakenIPs
<1>10. Ownership'
  BY <1>8, <1>9, ClaimsShrink DEF SafetyInv
<1>11. WorkAddress'
  BY <1>2 DEF SafetyInv, WorkAddress, memoryVars
<1> QED BY <1>10, <1>11

\* Steps that leave the pods, the releases and the allocators' grants alone.
LEMMA SameClaims ==
  ASSUME SafetyInv, \A p \in Pod : Server(p)' = Server(p), history' = history,
         \A p \in Pod : tracked'[p] = tracked[p] \/ tracked'[p] = 0,
         TakenIPs \subseteq TakenIPs'
  PROVE  Ownership'
<1>1. \A p \in Pod : NoNewAddress(p)
  BY DEF NoNewAddress
<1>2. causes' = causes /\ freed' = freed
  BY DEF history
<1>3. \A p \in Pod : Claims(p)' \subseteq Claims(p)
  BY <1>1, <1>2, NoNewClaim
<1> QED BY <1>2, <1>3, ClaimsShrink DEF SafetyInv

\* The informer, the timers and the start of a reconcile.
LEMMA QueueClaims ==
  ASSUME SafetyInv, NEW p \in Pod, Deliver(p) \/ BackoffExpires(p) \/ Dequeue(p)
  PROVE  WorkAddress' /\ Ownership'
<1>1. \A q \in Pod : Server(q)' = Server(q)
  BY QueueSteps DEF SafetyInv, History
<1>2. history' = history /\ allocators' = allocators
  BY DEF Deliver, BackoffExpires, Dequeue, ReconcileGone, ReconcileNothing, Reconcile,
         memoryVars, history
<1>3. \A q \in Pod : tracked'[q] = tracked[q] \/ tracked'[q] = 0
  BY DEF Deliver, BackoffExpires, Dequeue, ReconcileGone, ReconcileNothing, Reconcile,
         memoryVars, SafetyInv, History, Inv, Types, TrackedTypes
<1>4. TakenIPs' = TakenIPs
  BY <1>2 DEF TakenIPs
<1>5. Ownership'
  BY <1>1, <1>2, <1>3, <1>4, SameClaims
<1>6. WorkAddress'
  <2>1. CASE Deliver(p) \/ BackoffExpires(p) \/ ReconcileNothing(p)
    BY <2>1 DEF Deliver, BackoffExpires, ReconcileNothing, memoryVars, SafetyInv, WorkAddress
  <2>2. CASE ReconcileGone(p)
    BY <2>2 DEF ReconcileGone, WorkAddress
  <2>3. CASE Reconcile(p)
    <3>1. Cached(p) \in PodVersions
      BY VersionsTyped DEF SafetyInv, History, Inv, Types
    <3>2. work'.pc \in {"deletePort", "addFinalizer", "findSubnet"}
      BY <2>3, <3>1 DEF Reconcile, At, FirstStep, PodVersions
    <3> QED BY <3>2 DEF WorkAddress
  <2> QED BY <2>1, <2>2, <2>3 DEF Dequeue
<1> QED BY <1>5, <1>6

\* client.Update: only annotate writes a new address.
LEMMA WorkerWrites ==
  ASSUME Inv, AddFinalizer \/ Annotate \/ RemoveFinalizer
  PROVE  \E v \in PodVersions, ok \in BOOLEAN :
           /\ Update(v, ok) /\ v.uid = work.obj.uid
           /\ \/ v.ip = work.obj.ip /\ v.subnet = work.obj.subnet
              \/ work.pc = "annotate" /\ v.ip = work.ip /\ v.subnet = work.subnet
<1>1. /\ work \in Works /\ work.obj \in PodVersions
      /\ work.ip \in Nat /\ work.subnet \in Subnet \cup {NoSubnet}
  BY DEF Inv, Types, WorkTypes, Works
<1>2. CASE AddFinalizer
  <2> DEFINE v == [work.obj EXCEPT !.fin = TRUE]
  <2>1. v \in PodVersions /\ v.uid = work.obj.uid /\ v.ip = work.obj.ip /\ v.subnet = work.obj.subnet
    BY <1>1 DEF PodVersions
  <2> QED BY <1>2, <2>1 DEF AddFinalizer
<1>3. CASE Annotate
  <2> DEFINE v == [work.obj EXCEPT !.ip = work.ip, !.subnet = work.subnet]
  <2>1. v \in PodVersions /\ v.uid = work.obj.uid /\ v.ip = work.ip /\ v.subnet = work.subnet
    BY <1>1 DEF PodVersions
  <2> QED BY <1>3, <2>1 DEF Annotate
<1>4. CASE RemoveFinalizer
  <2> DEFINE v == [work.obj EXCEPT !.fin = FALSE]
  <2>1. v \in PodVersions /\ v.uid = work.obj.uid /\ v.ip = work.obj.ip /\ v.subnet = work.obj.subnet
    BY <1>1 DEF PodVersions
  <2> QED BY <1>4, <2>1 DEF RemoveFinalizer
<1> QED BY <1>2, <1>3, <1>4

\* client.Update: the address annotate writes is tracked under the pod's
\* name already.
LEMMA UpdateClaims ==
  ASSUME SafetyInv, AddFinalizer \/ Annotate \/ RemoveFinalizer
  PROVE  WorkAddress' /\ Ownership'
<1>1. /\ work \in Works /\ work.pod \in Pod /\ work.obj \in PodVersions
      /\ work.ip \in Nat /\ work.subnet \in Subnet \cup {NoSubnet} /\ Types
  BY DEF SafetyInv, History, Inv, Types, WorkTypes, Works, AddFinalizer, Annotate, RemoveFinalizer
<1>2. PICK p \in Pod : work.pod = p
  BY <1>1
<1>3. memoryVars' = memoryVars /\ history' = history /\ work'.pc = "idle"
  BY DEF AddFinalizer, Annotate, RemoveFinalizer, Return, Idle
<1>4. PICK v \in PodVersions, ok \in BOOLEAN :
        /\ Update(v, ok) /\ v.uid = work.obj.uid
        /\ v.ip = work.obj.ip \/ (v.ip = tracked[p] /\ tracked[p] # 0)
  <2>1. work.pc = "annotate" => work.ip # 0 /\ work.ip = tracked[p]
    BY <1>2 DEF SafetyInv, WorkAddress
  <2> QED BY <2>1, WorkerWrites DEF SafetyInv, History
<1>5. /\ \/ Server(p)' = Server(p)
         \/ Server(p) = work.obj /\ Server(p)' = Stored(v)
      /\ \A q \in Pod \ {p} : Server(q)' = Server(q)
  BY <1>1, <1>2, <1>4, UpdateWrites
<1>6. Stored(v) = v \/ Stored(v).ip = 0
  BY StoredIsVersion DEF Absent
<1>7. tracked' = tracked /\ allocators' = allocators /\ freed' = freed /\ causes' = causes
  BY <1>3 DEF memoryVars, history
<1>8. Claims(p)' \subseteq Claims(p)
  <2>1. CASE NoNewAddress(p)
    BY <1>7, <2>1, NoNewClaim
  <2>2. CASE ~ NoNewAddress(p)
    <3>1. Server(p)'.ip = tracked[p] /\ tracked[p] # 0
      BY <1>4, <1>5, <1>6, <2>2 DEF NoNewAddress, HasPodAnnotation
    <3> QED BY <1>7, <3>1 DEF Claims
  <2> QED BY <2>1, <2>2
<1>9. \A q \in Pod \ {p} : Claims(q)' \subseteq Claims(q)
  BY <1>5, <1>7, NoNewClaim DEF NoNewAddress
<1>10. TakenIPs' = TakenIPs
  BY <1>7 DEF TakenIPs
<1>11. Ownership'
  BY <1>7, <1>8, <1>9, <1>10, ClaimsShrink DEF SafetyInv
<1> QED BY <1>3, <1>11 DEF WorkAddress

\* FindSubnet adds one claim, to an address that nobody can have claimed.
LEMMA FindSubnetClaims ==
  ASSUME SafetyInv, FindSubnet
  PROVE  WorkAddress' /\ Ownership'
<1>1. work \in Works /\ work.pod \in Pod /\ AllocatorsSound /\ tracked \in [Pod -> Nat]
  BY DEF SafetyInv, History, Inv, Types, WorkTypes, TrackedTypes, FindSubnet
<1>2. PICK p \in Pod : work.pod = p
  BY <1>1
<1>3. PICK s \in SubnetChoices(work.pod) : ~ CannotAllocate(s) /\ AllocateIP(s)
  BY DEF FindSubnet
<1>4. UNCHANGED <<apiVars, history>>
  BY DEF FindSubnet
<1>5. \A q \in Pod : Server(q)' = Server(q)
  BY <1>4 DEF apiVars, Server
<1>6. CASE tracked[p] # 0
  <2>1. /\ work' = [work EXCEPT !.pc = "getPort", !.subnet = s, !.ip = tracked[p]]
        /\ UNCHANGED memoryVars
    BY <1>2, <1>3, <1>6 DEF AllocateIP
  <2>2. WorkAddress'
    BY <1>1, <1>2, <1>6, <2>1 DEF WorkAddress, Works, memoryVars
  <2>3. Ownership'
    BY <1>4, <1>5, <2>1, SameClaims DEF memoryVars, TakenIPs
  <2> QED BY <2>2, <2>3
<1>7. CASE tracked[p] = 0
  <2> DEFINE ip == NextIP(allocators[s])
  <2>1. s \in DOMAIN allocators /\ ~ Exhausted(allocators[s])
    BY <1>2, <1>3, <1>7 DEF CannotAllocate
  <2>2. /\ work' = [work EXCEPT !.pc = "getPort", !.subnet = s, !.ip = ip]
        /\ allocators' = [allocators EXCEPT ![s] = AllocateNext(allocators[s])]
        /\ tracked' = [tracked EXCEPT ![p] = ip]
    BY <1>2, <1>3, <1>7 DEF AllocateIP
  <2>3. ip # 0 /\ ip \notin TakenIPs /\ TakenIPs \cup {ip} \subseteq TakenIPs'
    BY <1>1, <2>1, <2>2, GrantIsFresh
  <2>4. PICK a : a = ip
    OBVIOUS
  <2> HIDE DEF ip
  <2>5. WorkAddress'
    BY <1>1, <1>2, <2>2, <2>3 DEF WorkAddress, Works
  <2>6. Ownership'
    <3> SUFFICES ASSUME causes' = {}
                 PROVE  /\ \A q \in Pod : Claims(q)' \subseteq TakenIPs'
                        /\ \A q, r \in Pod : q # r => Claims(q)' \cap Claims(r)' = {}
      BY DEF Ownership
    <3>1. \A q \in Pod : Claims(q) \subseteq TakenIPs
      BY <1>4 DEF SafetyInv, Ownership, history
    <3>2. \A q, r \in Pod : q # r => Claims(q) \cap Claims(r) = {}
      BY <1>4 DEF SafetyInv, Ownership, history
    <3>3. \A q \in Pod \ {p} : tracked'[q] = tracked[q]
      BY <1>1, <2>2
    <3>4. \A q \in Pod \ {p} : Claims(q)' \subseteq Claims(q)
      BY <1>4, <1>5, <3>3, NoNewClaim DEF NoNewAddress, history
    <3>5. Claims(p)' \subseteq Claims(p) \cup {a}
      <4>1. tracked'[p] = a
        BY <1>1, <2>2, <2>4
      <4>2. Holds(p)' => Holds(p) /\ Server(p)' = Server(p)
        BY <1>4, <1>5 DEF Holds, history
      <4> QED BY <4>1, <4>2 DEF Claims
    <3>6. a \notin TakenIPs /\ TakenIPs \cup {a} \subseteq TakenIPs'
      BY <2>3, <2>4
    <3>7. \A q \in Pod : Claims(q)' \subseteq TakenIPs'
      BY <3>1, <3>4, <3>5, <3>6
    <3>8. \A q \in Pod \ {p} : Claims(p)' \cap Claims(q)' = {}
      BY <3>1, <3>2, <3>4, <3>5, <3>6
    <3>9. \A q, r \in Pod : q # r => Claims(q)' \cap Claims(r)' = {}
      BY <3>2, <3>4, <3>8
    <3> QED BY <3>7, <3>9
  <2> QED BY <2>5, <2>6
<1> QED BY <1>6, <1>7

\* UndoAllocation gives up the pod's own claim; what it releases is not in
\* the annotation, or the release counts as irregular.
LEMMA UndoClaims ==
  ASSUME SafetyInv, UndoAllocation, UNCHANGED apiVars, work.pc \in {"getPort", "createPort"}
  PROVE  WorkAddress' /\ Ownership'
<1>1. /\ work \in Works /\ work.pod \in Pod /\ AllocatorsSound /\ work.ip \in Nat
      /\ tracked \in [Pod -> Nat] /\ causes \subseteq {"restart", "rerun", "undo"}
  BY DEF SafetyInv, History, Inv, Types, WorkTypes, Works, TrackedTypes, CountTypes
<1>2. PICK p \in Pod : work.pod = p
  BY <1>1
<1>3. PICK x \in Nat : work.ip = x
  BY <1>1
<1>4. /\ allocators' = [allocators EXCEPT ![work.subnet] = Release(@, x)]
      /\ tracked' = [tracked EXCEPT ![p] = 0] /\ freed' = freed /\ work'.pc = "idle"
      /\ causes' = IF Server(p).uid = work.obj.uid /\ Server(p).ip = x
                   THEN causes \cup {"undo"} ELSE causes
  BY <1>2, <1>3 DEF UndoAllocation, Return, Idle
<1>5. TakenIPs \ {x} \subseteq TakenIPs'
  BY <1>1, <1>4, ReleaseTakesOne
<1>6. tracked[p] = x /\ x # 0
  BY <1>2, <1>3 DEF SafetyInv, WorkAddress
<1>7. \A q \in Pod : Server(q)' = Server(q)
  BY DEF apiVars, Server
<1>8. causes' = {} => /\ causes = {}
                      /\ ~ (Server(p).uid = work.obj.uid /\ Server(p).ip = x)
  BY <1>4
<1>9. HasPodAnnotation(Server(p)) => work.obj.uid = Server(p).uid
  BY <1>2 DEF SafetyInv, History, WorkCopy
<1>10. ASSUME causes' = {}, NEW q \in Pod PROVE Claims(q)' \subseteq Claims(q) \ {x}
  <2>1. tracked'[q] = IF q = p THEN 0 ELSE tracked[q]
    BY <1>1, <1>4
  <2>2. Claims(q)' \subseteq Claims(q)
    BY <1>4, <1>7, <2>1, NoNewClaim DEF NoNewAddress
  <2>3. CASE q = p
    <3>1. x \notin Claims(p)'
      BY <1>4, <1>6, <1>7, <1>8, <1>9, <1>10, <2>1, <2>3 DEF Claims, Holds
    <3> QED BY <2>2, <2>3, <3>1
  <2>4. CASE q # p
    <3>1. x \in Claims(p)
      BY <1>6 DEF Claims
    <3>2. Claims(p) \cap Claims(q) = {}
      BY <1>8, <1>10, <2>4 DEF SafetyInv, Ownership
    <3> QED BY <2>2, <3>1, <3>2
  <2> QED BY <2>3, <2>4
<1>11. Ownership'
  BY <1>5, <1>8, <1>10, ClaimsShrink DEF SafetyInv
<1> QED BY <1>4, <1>11 DEF WorkAddress

\* The steps that look a port up and create it, and the returns.
LEMMA PortClaims ==
  ASSUME SafetyInv,
         FindNoSubnet \/ AllocateFails \/ GetPort \/ GetPortFails \/ CreatePort \/ CreatePortFails
  PROVE  WorkAddress' /\ Ownership'
<1>1. CASE GetPortFails \/ CreatePortFails
  BY <1>1, UndoClaims DEF GetPortFails, CreatePortFails, apiVars
<1>2. CASE FindNoSubnet \/ AllocateFails \/ GetPort \/ CreatePort
  <2>1. UNCHANGED <<apiVars, memoryVars, history>>
    BY <1>2 DEF FindNoSubnet, AllocateFails, GetPort, CreatePort
  <2>2. (\A p \in Pod : Server(p)' = Server(p)) /\ TakenIPs' = TakenIPs
    BY <2>1 DEF apiVars, memoryVars, Server, TakenIPs
  <2>3. Ownership'
    BY <2>1, <2>2, SameClaims DEF memoryVars
  <2>4. WorkAddress'
    <3>1. work \in Works
      BY DEF SafetyInv, History, Inv, Types, WorkTypes
    <3> QED BY <1>2, <2>1, <3>1
            DEF SafetyInv, WorkAddress, Works, memoryVars, FindNoSubnet, AllocateFails, GetPort, CreatePort,
                Return, Idle
  <2> QED BY <2>3, <2>4
<1> QED BY <1>1, <1>2

\* handleDeletion releases an address the pod had a claim to, unless it has
\* run for the pod before.
LEMMA DeletePortClaims ==
  ASSUME SafetyInv, DeletePort
  PROVE  WorkAddress' /\ Ownership'
<1>1. /\ work \in Works /\ work.pod \in Pod /\ work.obj \in PodVersions /\ AllocatorsSound
      /\ tracked \in [Pod -> Nat] /\ causes \subseteq {"restart", "rerun", "undo"}
      /\ freed \in [Pod -> Nat] /\ work.pc = "deletePort"
  BY DEF SafetyInv, History, Inv, Types, WorkTypes, Works, TrackedTypes, CountTypes, DeletePort
<1>2. PICK p \in Pod : work.pod = p
  BY <1>1
<1>3. PICK v \in PodVersions : work.obj = v
  BY <1>1
<1>4. /\ tracked' = [tracked EXCEPT ![p] = 0] /\ freed' = [freed EXCEPT ![p] = v.uid]
      /\ causes' = IF freed[p] = v.uid THEN causes \cup {"rerun"} ELSE causes
      /\ UNCHANGED apiVars
  BY <1>2, <1>3 DEF DeletePort
<1>5. /\ Precedes(v, Versions(p), Server(p), births[p], freed[p])
      /\ HasPodAnnotation(Server(p)) => v.uid = Server(p).uid
  BY <1>1, <1>2, <1>3 DEF SafetyInv, History, WorkCopy
<1> DEFINE X == IF HasPodAnnotation(v) THEN {v.ip} ELSE {}
<1>6. TakenIPs \ X \subseteq TakenIPs'
  <2>1. CASE allocators' = allocators
    BY <2>1 DEF TakenIPs
  <2>2. CASE HasPodAnnotation(v) /\ allocators' = [allocators EXCEPT ![v.subnet] = Release(@, v.ip)]
    <3>1. v.ip \in Nat
      BY DEF PodVersions
    <3> QED BY <1>1, <2>2, <3>1, ReleaseTakesOne
  <2> QED BY <1>3, <2>1, <2>2 DEF DeletePort, ReleaseAnnotated
<1>7. causes' = {} => causes = {} /\ freed[p] # v.uid
  BY <1>4
<1>8. \A q \in Pod : Server(q)' = Server(q)
  BY <1>4 DEF apiVars, Server
<1>9. Claims(p)' = {}
  <2>1. tracked'[p] = 0 /\ freed'[p] = v.uid
    BY <1>1, <1>4
  <2> QED BY <1>5, <1>8, <2>1 DEF Claims, Holds
<1>10. ASSUME causes' = {}, NEW q \in Pod, q # p PROVE Claims(q)' \subseteq Claims(q) \ X
  <2>1. tracked'[q] = tracked[q] /\ freed'[q] = freed[q]
    BY <1>1, <1>4, <1>10
  <2>2. Claims(q)' \subseteq Claims(q)
    BY <1>8, <2>1, NoNewClaim DEF NoNewAddress
  <2>3. X \subseteq Claims(p)
    <3> SUFFICES ASSUME HasPodAnnotation(v) PROVE v.ip \in Claims(p)
      OBVIOUS
    <3>1. Server(p).uid = v.uid /\ Server(p).ip = v.ip /\ freed[p] # v.uid
      BY <1>5, <1>7, <1>10 DEF Precedes
    <3> QED BY <3>1 DEF Claims, Holds, HasPodAnnotation
  <2>4. Claims(p) \cap Claims(q) = {}
    BY <1>7, <1>10 DEF SafetyInv, Ownership
  <2> QED BY <2>2, <2>3, <2>4
<1> HIDE DEF X
<1>11. \A q \in Pod : causes' = {} => Claims(q)' \subseteq Claims(q) \ X
  BY <1>9, <1>10
<1>12. Ownership'
  BY <1>6, <1>7, <1>11, ClaimsShrink DEF SafetyInv
<1>13. work'.pc \in {"idle", "removeFinalizer"}
  BY <1>1 DEF DeletePort, Return, Idle, Works
<1> QED BY <1>12, <1>13 DEF WorkAddress

\* A new allocator has no address in use and the others stay.
LEMMA SubnetClaims ==
  ASSUME SafetyInv, NEW s \in Subnet, SubnetSide(s)
  PROVE  WorkAddress' /\ Ownership'
<1>1. UNCHANGED <<apiVars, work, tracked, history>>
  BY DEF SubnetSide, EnsureIPAllocator, UpdateStatusActive, memoryVars
<1>2. \A p \in Pod : Server(p)' = Server(p)
  BY <1>1 DEF apiVars, Server
<1>3. TakenIPs \subseteq TakenIPs'
  <2>1. \A t \in DOMAIN allocators : t \in DOMAIN allocators' /\ allocators'[t] = allocators[t]
    BY DEF SubnetSide, EnsureIPAllocator, UpdateStatusActive, memoryVars
  <2> QED BY <2>1 DEF TakenIPs
<1>4. Ownership'
  BY <1>1, <1>2, <1>3, SameClaims
<1>5. WorkAddress'
  BY <1>1 DEF SafetyInv, WorkAddress
<1> QED BY <1>4, <1>5

\* At the start nobody claims an address.
LEMMA InitSafety == Init => SafetyInv
<1> SUFFICES ASSUME Init PROVE SafetyInv
  OBVIOUS
<1>1. \A p \in Pod : Server(p).ip = 0
  BY DEF Init, Server, Absent
<1>2. \A p \in Pod : Claims(p) = {}
  BY <1>1 DEF Init, Claims, Holds, HasPodAnnotation
<1>3. Ownership
  BY <1>2 DEF Ownership
<1>4. WorkAddress
  BY DEF Init, Idle, WorkAddress
<1> QED BY <1>3, <1>4, InitHistory DEF SafetyInv

\* Every step keeps the claims in order.
LEMMA NextSafety ==
  ASSUME SafetyInv, [Next]_vars
  PROVE  SafetyInv'
<1>1. History'
  BY NextHistory DEF SafetyInv
<1> SUFFICES WorkAddress' /\ Ownership'
  BY <1>1 DEF SafetyInv
<1>2. ASSUME NEW p \in Pod, Cluster(p) PROVE WorkAddress' /\ Ownership'
  BY <1>2, ClusterClaims
<1>3. ASSUME NEW p \in Pod, Deliver(p) \/ BackoffExpires(p) \/ Dequeue(p)
      PROVE  WorkAddress' /\ Ownership'
  BY <1>3, QueueClaims
<1>4. CASE Worker
  BY <1>4, UpdateClaims, FindSubnetClaims, PortClaims, DeletePortClaims DEF Worker
<1>5. ASSUME NEW s \in Subnet, SubnetSide(s) PROVE WorkAddress' /\ Ownership'
  BY <1>5, SubnetClaims
<1>6. CASE Restart
  <2>1. causes' # {} /\ work'.pc = "idle"
    BY <1>6 DEF Restart, Idle
  <2> QED BY <2>1 DEF WorkAddress, Ownership
<1>7. CASE UNCHANGED vars
  <2>1. UNCHANGED <<apiVars, work, tracked, allocators, history>>
    BY <1>7 DEF vars, apiVars, history
  <2>2. (\A p \in Pod : Server(p)' = Server(p)) /\ TakenIPs' = TakenIPs
    BY <2>1 DEF apiVars, Server, TakenIPs
  <2>3. Ownership'
    BY <2>1, <2>2, SameClaims
  <2> QED BY <2>1, <2>3 DEF SafetyInv, WorkAddress
<1> QED BY <1>2, <1>3, <1>4, <1>5, <1>6, <1>7 DEF Next

\* Conflicts, retries, stale reads and names used again never give two pods
\* the same address: that takes a restart, a second handleDeletion of the
\* same pod or an undone allocation that was final.
THEOREM AddressesAreUnique == Spec => []UniqueUnlessReleasedInUse
<1>1. SafetyInv => UniqueUnlessReleasedInUse
  <2> SUFFICES ASSUME SafetyInv, causes = {}, NEW p \in Pod, NEW q \in Pod,
                      p # q, Networked(p), Networked(q)
               PROVE  Server(p).ip # Server(q).ip
    BY DEF UniqueUnlessReleasedInUse, UniqueIPs
  <2>1. ASSUME NEW r \in Pod, Networked(r) PROVE Server(r).ip \in Claims(r)
    <3>1. LogSound(log[r], births[r], freed[r]) /\ Server(r) = log[r][Len(log[r])]
      BY PodFacts DEF SafetyInv, History, Logs
    <3>2. HasPodAnnotation(Server(r)) => Exists(Server(r))
      BY DEF SafetyInv, History, Inv, AbsentUnannotated
    <3>3. Holds(r)
      BY <2>1, <3>1, <3>2 DEF LogSound, Networked, Holds
    <3> QED BY <3>3 DEF Claims
  <2>2. Claims(p) \cap Claims(q) = {}
    BY DEF SafetyInv, Ownership
  <2> QED BY <2>1, <2>2
<1>2. SafetyInv /\ [Next]_vars => SafetyInv'
  BY NextSafety
<1> QED BY <1>1, <1>2, InitSafety, PTL DEF Spec

-----------------------------------------------------------------------------
(* The ports.  For a pod that can only be given one subnet, the port OVN   *)
(* has is the port of the pod the API server has; with every call answered *)
(* and the controller's memory intact it carries the tracked address,      *)
(* which is the one in the annotation.                                     *)

\* The subnet of a pod that has no choice.
ItsSubnet(p) == IF Explicit[p] # NoSubnet THEN Explicit[p] ELSE CHOOSE s \in Subnet : TRUE

\* Whatever is given to such a pod is of its subnet: in the annotation, in
\* the copies of it that are still under way, and in the reconcile.
Subnets ==
  \A p \in Pod : OneChoice(p) =>
    /\ \A v \in Versions(p) : HasPodAnnotation(v) => v.subnet = ItsSubnet(p)
    /\ work.pc # "idle" /\ work.pod = p =>
         /\ HasPodAnnotation(work.obj) => work.obj.subnet = ItsSubnet(p)
         /\ work.pc \in {"getPort", "createPort", "annotate"} => work.subnet = ItsSubnet(p)

\* A port is of the pod that all copies under way are of; its address was
\* not released and the finalizer holds the pod.
PortOwned(p) ==
  port[p] # NoPort =>
    /\ Exists(Server(p)) /\ Server(p).fin
    /\ \A v \in Versions(p) : v.uid = port[p].uid
    /\ freed[p] # port[p].uid
    /\ port[p].subnet = ItsSubnet(p)

\* What a reconcile has learnt of the port still holds.
PortLearnt ==
  /\ work.pc = "annotate" => port[work.pod] # NoPort
  /\ work.pc = "createPort" => port[work.pod] = NoPort

Owned == faults = 0 => PortLearnt /\ \A p \in Pod : OneChoice(p) => PortOwned(p)

\* The port has the tracked address, and every address a pod was told of and
\* has not given back is on its port.
PortTold(p) ==
  /\ port[p] # NoPort => port[p].ip = tracked[p] /\ tracked[p] # 0
  /\ Holds(p) => port[p] # NoPort /\ port[p].ip = Server(p).ip

Told == faults = 0 /\ restarts = 0 => \A p \in Pod : OneChoice(p) => PortTold(p)

PortInv == SafetyInv /\ Subnets /\ Owned /\ Told

\* A pod without a choice is given its subnet.
LEMMA OnlyChoice ==
  ASSUME Inv, NEW p \in Pod, OneChoice(p), NEW s \in SubnetChoices(p)
  PROVE  s = ItsSubnet(p)
<1>1. CASE Explicit[p] # NoSubnet
  BY <1>1 DEF SubnetChoices, ItsSubnet
<1>2. CASE Explicit[p] = NoSubnet
  <2>1. PICK t \in Subnet : Subnet = {t}
    BY <1>2 DEF OneChoice
  <2>2. s \in active
    BY <1>2 DEF SubnetChoices
  <2>3. s \in Subnet
    BY <2>2 DEF Inv, Types, OvnTypes
  <2>4. \A u \in Subnet : u = t
    BY <2>1
  <2>5. (CHOOSE u \in Subnet : TRUE) \in Subnet
    BY <2>1
  <2> QED BY <1>2, <2>3, <2>4, <2>5 DEF ItsSubnet
<1> QED BY <1>1, <1>2

\* A copy with the finalizer whose address was not released is of the pod
\* that the last version is of, and that pod still has both.
LEMMA LogTells ==
  ASSUME NEW s \in Seq(PodVersions), NEW b, NEW f, LogSound(s, b, f),
         NEW v \in {s[j] : j \in 1 .. Len(s)}, Exists(v), v.fin, f # v.uid
  PROVE  /\ s[Len(s)].uid = v.uid /\ s[Len(s)].fin
         /\ HasPodAnnotation(v) => s[Len(s)].ip = v.ip
<1>1. PICK i \in 1 .. Len(s) : v = s[i]
  OBVIOUS
<1>2. Precedes(v, {s[j] : j \in i .. Len(s)}, s[Len(s)], b, f)
  BY <1>1 DEF LogSound
<1> QED BY <1>2 DEF Precedes

\* A version that is appended is the server's from then on.
LEMMA AppendMoves ==
  ASSUME Inv, NEW p \in Pod, NEW v \in PodVersions, Write(p, v), NEW q \in Pod
  PROVE  Server(q) \in Versions(q)' /\ Versions(q)' \subseteq Versions(q) \cup {Server(q)'}
<1> DEFINE s == log[p]
<1> DEFINE n == Stored(v)
<1>1. s \in Seq(PodVersions) /\ s # <<>> /\ n \in PodVersions /\ Server(p) = s[Len(s)]
  BY PodFacts, StoredIsVersion
<1>2. log' = [log EXCEPT ![p] = Append(s, n)]
  BY DEF Write
<1>3. log'[p] = Append(s, n) /\ \A r \in Pod \ {p} : log'[r] = log[r]
  BY <1>2 DEF Inv, Types, ApiTypes
<1>4. CASE q = p
  <2> HIDE DEF s, n
  <2>1. /\ Len(s) \in Nat /\ Len(s) \in 1 .. Len(s)
        /\ Len(log'[p]) = Len(s) + 1 /\ log'[p][Len(s) + 1] = n
        /\ \A i \in 1 .. Len(s) : log'[p][i] = s[i]
    BY <1>1, <1>3, LogFacts, AppendProperties
  <2>2. Server(p)' = n /\ Versions(p)' = Versions(p) \cup {n}
    BY <2>1 DEF Server, Versions, s
  <2> QED BY <1>1, <1>4, <2>2, PodFacts
<1>5. CASE q # p
  BY <1>3, <1>5, PodFacts DEF Server, Versions
<1> QED BY <1>4, <1>5

\* No step loses the version the server had without the cache having gone
\* past it, and none adds a version other than the one the server has now.
LEMMA LogMoves ==
  ASSUME History, [Next]_vars, NEW p \in Pod
  PROVE  Server(p) \in Versions(p)' /\ Versions(p)' \subseteq Versions(p) \cup {Server(p)'}
<1>1. ASSUME log' = log
      PROVE  Server(p) \in Versions(p)' /\ Versions(p)' \subseteq Versions(p) \cup {Server(p)'}
  BY <1>1, PodFacts DEF History, Server, Versions
<1>2. ASSUME NEW q \in Pod, NEW v \in PodVersions, Write(q, v)
      PROVE  Server(p) \in Versions(p)' /\ Versions(p)' \subseteq Versions(p) \cup {Server(p)'}
  BY <1>2, AppendMoves DEF History
<1>3. ASSUME NEW q \in Pod, Cluster(q)
      PROVE  Server(p) \in Versions(p)' /\ Versions(p)' \subseteq Versions(p) \cup {Server(p)'}
  BY <1>2, <1>3, ClusterWrites DEF History
<1>4. ASSUME NEW q \in Pod, Deliver(q)
      PROVE  Server(p) \in Versions(p)' /\ Versions(p)' \subseteq Versions(p) \cup {Server(p)'}
  <2> DEFINE s == log[q]
  <2>1. /\ s \in Seq(PodVersions) /\ Len(s) > 1 /\ Server(q) = s[Len(s)]
        /\ LogSound(s, births[q], freed[q])
    BY <1>4, PodFacts DEF Deliver, History, Logs
  <2>2. log'[q] = Tail(s) /\ \A r \in Pod \ {q} : log'[r] = log[r]
    BY <1>4 DEF Deliver, History, Inv, Types, ApiTypes
  <2>3. CASE p = q
    <3> HIDE DEF s
    <3>1. Tail(s) \in Seq(PodVersions) /\ Tail(s) # <<>> /\ Tail(s)[Len(Tail(s))] = s[Len(s)]
      BY <2>1, TailKeepsServer
    <3>2. Len(Tail(s)) \in 1 .. Len(Tail(s))
      BY <3>1, LogFacts
    <3>3. {Tail(s)[j] : j \in 1 .. Len(Tail(s))} \subseteq {s[j] : j \in 1 .. Len(s)}
      BY <2>1, LogTail
    <3>4. Versions(p) = {s[j] : j \in 1 .. Len(s)} /\ Server(p) = s[Len(s)]
      BY <2>1, <2>3 DEF Versions, s
    <3> DEFINE u == Tail(s)
    <3>5. Versions(p)' = {u[j] : j \in 1 .. Len(u)}
      BY <2>2, <2>3 DEF Versions
    <3>6. Server(p) \in {u[j] : j \in 1 .. Len(u)}
      BY <3>1, <3>2, <3>4
    <3> QED BY <3>3, <3>4, <3>5, <3>6
  <2>4. CASE p # q
    BY <2>2, <2>4, PodFacts DEF History, Server, Versions
  <2> QED BY <2>3, <2>4
<1>5. CASE AddFinalizer \/ Annotate \/ RemoveFinalizer
  <2>1. PICK v \in PodVersions, ok \in BOOLEAN : Update(v, ok)
    BY <1>5, WorkerWrites DEF History
  <2>2. work.pod \in Pod
    BY <1>5 DEF History, Inv, Types, WorkTypes, AddFinalizer, Annotate, RemoveFinalizer
  <2>3. log' = log \/ Write(work.pod, v)
    BY <2>1 DEF Update
  <2> QED BY <1>1, <1>2, <2>2, <2>3
<1>6. CASE Restart
  <2>1. log'[p] = <<Server(p)>>
    BY <1>6 DEF Restart
  <2>2. Server(p)' = Server(p) /\ Versions(p)' = {Server(p)}
    <3> DEFINE t == <<Server(p)>>
    <3>1. Len(t) = 1 /\ t[1] = Server(p)
      OBVIOUS
    <3> HIDE DEF t
    <3>2. t[Len(t)] = Server(p) /\ {t[j] : j \in 1 .. Len(t)} = {Server(p)}
      BY <3>1
    <3>3. log'[p] = t
      BY <2>1 DEF t
    <3> QED BY <3>2, <3>3 DEF Server, Versions
  <2> QED BY <2>2
<1>7. CASE log' # log
  <2>1. \/ \E q \in Pod : Cluster(q) \/ Deliver(q)
        \/ AddFinalizer \/ Annotate \/ RemoveFinalizer \/ Restart
    BY <1>7 DEF Next, Dequeue, Worker, SubnetSide, BackoffExpires, ReconcileGone, ReconcileNothing,
                Reconcile, FindNoSubnet, AllocateFails, FindSubnet, GetPort, GetPortFails, CreatePort,
                CreatePortFails, DeletePort, EnsureIPAllocator, UpdateStatusActive, vars, apiVars
  <2> QED BY <1>3, <1>4, <1>5, <1>6, <2>1
<1> QED BY <1>1, <1>7

\* An address the server has after a step it had before, or annotate has
\* written it.
LEMMA NewAnnotation ==
  ASSUME History, [Next]_vars, NEW p \in Pod, HasPodAnnotation(Server(p)')
  PROVE  \/ /\ Server(p)'.ip = Server(p).ip /\ Server(p)'.subnet = Server(p).subnet
            /\ Server(p)'.uid = Server(p).uid
         \/ /\ work.pc = "annotate" /\ work.pod = p /\ Annotate
            /\ Server(p)'.ip = work.ip /\ Server(p)'.subnet = work.subnet
            /\ Server(p)'.uid = work.obj.uid
<1> DEFINE Same(q) == /\ Server(q)'.ip = Server(q).ip /\ Server(q)'.subnet = Server(q).subnet
                      /\ Server(q)'.uid = Server(q).uid
<1>1. Absent.ip = 0
  BY DEF Absent
<1>2. ASSUME NEW q \in Pod, Cluster(q) PROVE Same(p)
  <2>1. PICK v \in PodVersions :
          /\ Write(q, v)
          /\ \/ v.ip = 0
             \/ v.ip = Server(q).ip /\ v.subnet = Server(q).subnet /\ v.uid = Server(q).uid
    BY <1>2, ClusterWrites DEF History
  <2>2. Server(q)' = Stored(v) /\ \A r \in Pod \ {q} : Server(r)' = Server(r)
    BY <2>1, WriteAppends DEF History, Inv, Types
  <2> QED BY <1>1, <2>1, <2>2, StoredIsVersion DEF HasPodAnnotation
<1>3. ASSUME NEW q \in Pod, Deliver(q) \/ BackoffExpires(q) \/ Dequeue(q) PROVE Same(p)
  BY <1>3, QueueSteps DEF History
<1>4. CASE AddFinalizer \/ Annotate \/ RemoveFinalizer
  <2>1. PICK v \in PodVersions, ok \in BOOLEAN :
          /\ Update(v, ok) /\ v.uid = work.obj.uid
          /\ \/ v.ip = work.obj.ip /\ v.subnet = work.obj.subnet
             \/ work.pc = "annotate" /\ v.ip = work.ip /\ v.subnet = work.subnet
    BY <1>4, WorkerWrites DEF History
  <2>2. work.pod \in Pod
    BY <1>4 DEF History, Inv, Types, WorkTypes, AddFinalizer, Annotate, RemoveFinalizer
  <2>3. PICK q \in Pod : q = work.pod
    BY <2>2
  <2>4. /\ \/ Server(q)' = Server(q)
           \/ Server(q) = work.obj /\ Server(q)' = Stored(v)
        /\ \A r \in Pod \ {q} : Server(r)' = Server(r)
    BY <2>1, <2>3, UpdateWrites DEF History, Inv
  <2>5. work.pc = "annotate" => Annotate
    BY <1>4 DEF AddFinalizer, RemoveFinalizer
  <2> QED BY <1>1, <2>1, <2>3, <2>4, <2>5, StoredIsVersion DEF HasPodAnnotation
<1>5. CASE Restart
  <2>1. log'[p] = <<Server(p)>>
    BY <1>5 DEF Restart
  <2> QED BY <2>1 DEF Server
<1>6. CASE log' = log
  BY <1>6 DEF Server
<1>7. CASE log' # log
  <2>1. \/ \E q \in Pod : Cluster(q) \/ Deliver(q)
        \/ AddFinalizer \/ Annotate \/ RemoveFinalizer \/ Restart
    BY <1>7 DEF Next, Dequeue, Worker, SubnetSide, BackoffExpires, ReconcileGone, ReconcileNothing,
                Reconcile, FindNoSubnet, AllocateFails, FindSubnet, GetPort, GetPortFails, CreatePort,
                CreatePortFails, DeletePort, EnsureIPAllocator, UpdateStatusActive, vars, apiVars
  <2> QED BY <1>2, <1>3, <1>4, <1>5, <2>1
<1> QED BY <1>6, <1>7

\* So a pod with the finalizer stays, with its address, until that is
\* released.
LEMMA PodStays ==
  ASSUME History, History', [Next]_vars, NEW p \in Pod,
         Exists(Server(p)), Server(p).fin, freed'[p] # Server(p).uid
  PROVE  /\ Server(p)'.uid = Server(p).uid /\ Server(p)'.fin
         /\ HasPodAnnotation(Server(p)) => Server(p)'.ip = Server(p).ip
<1> DEFINE s == log'[p]
<1> DEFINE v == Server(p)
<1>1. s \in Seq(PodVersions) /\ LogSound(s, births'[p], freed'[p])
  BY DEF History, Inv, Types, ApiTypes, Logs
<1>2. v \in {s[j] : j \in 1 .. Len(s)}
  BY LogMoves DEF Versions
<1>3. Server(p)' = s[Len(s)]
  BY DEF Server
<1>4. Exists(v) /\ v.fin /\ freed'[p] # v.uid
  OBVIOUS
<1> HIDE DEF s, v
<1>5. s[Len(s)].uid = v.uid /\ s[Len(s)].fin /\ (HasPodAnnotation(v) => s[Len(s)].ip = v.ip)
  BY <1>1, <1>2, <1>4, LogTells
<1> QED BY <1>3, <1>5 DEF v

\* How a step moves the reconcile.
LEMMA WorkMoves ==
  ASSUME History, [Next]_vars
  PROVE  \/ work' = work
         \/ work'.pc = "idle"
         \/ \E q \in Pod : work'.pod = q /\ work'.obj = Cached(q)
                           /\ work'.pc \in {"deletePort", "addFinalizer", "findSubnet"}
         \/ FindSubnet /\ work'.pod = work.pod /\ work'.obj = work.obj
                       /\ work'.subnet \in SubnetChoices(work.pod)
         \/ /\ work.pc \in {"getPort", "createPort", "deletePort"}
            /\ work'.pc \in {"createPort", "annotate"} => work.pc \in {"getPort", "createPort"}
            /\ work'.pc \in {"createPort", "annotate", "removeFinalizer"}
            /\ work'.pod = work.pod /\ work'.obj = work.obj /\ work'.subnet = work.subnet
<1>1. work \in Works
  BY DEF History, Inv, Types, WorkTypes
<1>2. ASSUME NEW q \in Pod, Reconcile(q)
      PROVE  work'.pod = q /\ work'.obj = Cached(q)
             /\ work'.pc \in {"deletePort", "addFinalizer", "findSubnet"}
  <2>1. Cached(q) \in PodVersions
    BY VersionsTyped DEF History, Inv, Types
  <2> QED BY <1>2, <2>1 DEF Reconcile, At, FirstStep, PodVersions
<1>3. CASE FindSubnet
  BY <1>1, <1>3 DEF FindSubnet, AllocateIP, Works
<1>4. CASE GetPort \/ CreatePort
  BY <1>1, <1>4 DEF GetPort, CreatePort, Works
<1>5. CASE DeletePort
  BY <1>1, <1>5 DEF DeletePort, Return, Idle, Works
<1>6. CASE AddFinalizer \/ FindNoSubnet \/ AllocateFails \/ GetPortFails \/ CreatePortFails
             \/ Annotate \/ RemoveFinalizer \/ Restart
  BY <1>6 DEF AddFinalizer, FindNoSubnet, AllocateFails, GetPortFails, CreatePortFails, UndoAllocation,
              Annotate, RemoveFinalizer, Restart, Return, Idle
<1>7. CASE UNCHANGED vars
  BY <1>7 DEF vars
<1>8. ASSUME NEW q \in Pod, Cluster(q) \/ Deliver(q) \/ BackoffExpires(q) \/ ReconcileGone(q)
                             \/ ReconcileNothing(q)
      PROVE  work' = work
  BY <1>8 DEF Cluster, CreatePod, DeletePod, CompletePod, UpdatePodStatus, StopContainers, ChangePod,
              Deliver, BackoffExpires, ReconcileGone, ReconcileNothing
<1>9. ASSUME NEW s \in Subnet, SubnetSide(s) PROVE work' = work
  BY <1>9 DEF SubnetSide, EnsureIPAllocator, UpdateStatusActive
<1> QED BY <1>2, <1>3, <1>4, <1>5, <1>6, <1>7, <1>8, <1>9 DEF Next, Dequeue, Worker

\* The version in the cache is one of those under way.
LEMMA CachedIsVersion ==
  ASSUME Inv, NEW p \in Pod
  PROVE  Cached(p) \in Versions(p)
<1>1. log[p] \in Seq(PodVersions) /\ log[p] # <<>>
  BY PodFacts
<1>2. 1 \in 1 .. Len(log[p]) /\ Head(log[p]) = log[p][1]
  BY <1>1, LogFacts, HeadTailProperties
<1> QED BY <1>2 DEF Cached, Versions

\* No step gives a pod without a choice anything of another subnet.
LEMMA NextSubnets ==
  ASSUME SafetyInv, Subnets, [Next]_vars
  PROVE  Subnets'
<1>1. History /\ Inv
  BY DEF SafetyInv, History
<1>2. ASSUME NEW p \in Pod, OneChoice(p), NEW v \in Versions(p)', HasPodAnnotation(v)
      PROVE  v.subnet = ItsSubnet(p)
  <2>1. \A w \in Versions(p) : HasPodAnnotation(w) => w.subnet = ItsSubnet(p)
    BY <1>2 DEF Subnets
  <2>2. v \in Versions(p) \/ v = Server(p)'
    BY <1>1, <1>2, LogMoves
  <2>3. CASE v = Server(p)'
    <3>1. CASE v.ip = Server(p).ip /\ v.subnet = Server(p).subnet
      BY <1>1, <1>2, <2>1, <3>1, PodFacts DEF HasPodAnnotation
    <3>2. CASE work.pc = "annotate" /\ work.pod = p /\ v.subnet = work.subnet
      BY <1>2, <3>2 DEF Subnets
    <3> QED BY <1>1, <1>2, <2>3, <3>1, <3>2, NewAnnotation
  <2> QED BY <1>2, <2>1, <2>2, <2>3
<1>3. ASSUME NEW p \in Pod, OneChoice(p), work'.pc # "idle", work'.pod = p
      PROVE  /\ HasPodAnnotation(work'.obj) => work'.obj.subnet = ItsSubnet(p)
             /\ work'.pc \in {"getPort", "createPort", "annotate"} => work'.subnet = ItsSubnet(p)
  <2>1. work.pc # "idle" /\ work.pod = p =>
          /\ HasPodAnnotation(work.obj) => work.obj.subnet = ItsSubnet(p)
          /\ work.pc \in {"getPort", "createPort", "annotate"} => work.subnet = ItsSubnet(p)
    BY <1>3 DEF Subnets
  <2>2. CASE work' = work
    BY <1>3, <2>1, <2>2
  <2>3. CASE /\ work'.obj = Cached(p)
             /\ work'.pc \in {"deletePort", "addFinalizer", "findSubnet"}
    BY <1>1, <1>3, <2>3, CachedIsVersion DEF Subnets
  <2>4. CASE FindSubnet /\ work'.pod = work.pod /\ work'.obj = work.obj
                        /\ work'.subnet \in SubnetChoices(work.pod)
    <3>1. work.pc # "idle"
      BY <2>4 DEF FindSubnet
    <3>2. work'.subnet = ItsSubnet(p)
      BY <1>1, <1>3, <2>4, OnlyChoice
    <3> QED BY <1>3, <2>1, <2>4, <3>1, <3>2
  <2>5. CASE /\ work.pc \in {"getPort", "createPort", "deletePort"}
             /\ work'.pc \in {"createPort", "annotate"} => work.pc \in {"getPort", "createPort"}
             /\ work'.pc \in {"createPort", "annotate", "removeFinalizer"}
             /\ work'.pod = work.pod /\ work'.obj = work.obj /\ work'.subnet = work.subnet
    BY <1>3, <2>1, <2>5
  <2> QED BY <1>1, <1>3, <2>2, <2>3, <2>4, <2>5, WorkMoves
<1> QED BY <1>2, <1>3 DEF Subnets, OneChoice, ItsSubnet

\* The port of a pod is still its own when neither it nor the history of
\* releases has changed.
LEMMA SamePortOwned ==
  ASSUME SafetyInv, SafetyInv', [Next]_vars, NEW p \in Pod, PortOwned(p),
         port'[p] = port[p], freed'[p] = freed[p]
  PROVE  PortOwned(p)'
<1> SUFFICES ASSUME port[p] # NoPort
             PROVE  /\ Exists(Server(p)') /\ Server(p)'.fin
                    /\ \A v \in Versions(p)' : v.uid = port[p].uid
                    /\ freed[p] # port[p].uid
                    /\ port[p].subnet = ItsSubnet(p)
  BY DEF PortOwned, ItsSubnet
<1>1. History /\ History'
  BY DEF SafetyInv
<1>2. /\ Exists(Server(p)) /\ Server(p).fin
      /\ \A v \in Versions(p) : v.uid = port[p].uid
      /\ freed[p] # port[p].uid
      /\ port[p].subnet = ItsSubnet(p)
  BY DEF PortOwned
<1>3. Server(p).uid = port[p].uid
  BY <1>1, <1>2, PodFacts DEF History
<1>4. Server(p)'.uid = Server(p).uid /\ Server(p)'.fin
  BY <1>1, <1>2, <1>3, PodStays
<1>5. Versions(p)' \subseteq Versions(p) \cup {Server(p)'}
  BY <1>1, LogMoves
<1> QED BY <1>2, <1>3, <1>4, <1>5 DEF Exists

\* The copy createPort works from is of the pod the server has, as nothing
\* of it was released.
LEMMA CreatesForServer ==
  ASSUME SafetyInv, work.pc \in Configuring
  PROVE  /\ Exists(work.obj) /\ Exists(Server(work.pod)) /\ Server(work.pod).fin
         /\ \A v \in Versions(work.pod) : v.uid = work.obj.uid
         /\ freed[work.pod] # work.obj.uid
<1>1. /\ Exists(work.obj) /\ work.obj.fin /\ ~ work.obj.del
      /\ Precedes(work.obj, Versions(work.pod), Server(work.pod), births[work.pod], freed[work.pod])
  BY DEF SafetyInv, History, Inv, WorkSound, WorkCopy, Configuring
<1>2. freed[work.pod] # work.obj.uid
  BY <1>1 DEF Precedes
<1> QED BY <1>1, <1>2 DEF Precedes, Exists

\* A deletion that meets no fault leaves the pod without a port.
LEMMA DeleteRemoves ==
  ASSUME SafetyInv, Subnets, Owned, DeletePort, faults' = 0, OneChoice(work.pod)
  PROVE  port'[work.pod] = NoPort
<1>1. work.pod \in Pod /\ faults \in Nat /\ work.pc = "deletePort" /\ port \in [Pod -> Ports]
  BY DEF SafetyInv, History, Inv, Types, WorkTypes, CountTypes, OvnTypes, DeletePort
<1>2. PortRemoved /\ faults = 0
  BY <1>1 DEF DeletePort, Fault
<1>3. CASE port[work.pod] = NoPort
  BY <1>1, <1>2, <1>3 DEF PortRemoved
<1>4. CASE port[work.pod] # NoPort
  <2>1. port[work.pod].subnet = ItsSubnet(work.pod)
    BY <1>1, <1>2, <1>4 DEF Owned, PortOwned
  <2>2. HasPodAnnotation(work.obj) => work.obj.subnet = ItsSubnet(work.pod)
    BY <1>1 DEF Subnets
  <2> QED BY <1>1, <1>2, <2>1, <2>2 DEF PortRemoved, RemovesPort
<1> QED BY <1>3, <1>4

\* Steps that leave the ports, the releases and the reconcile's knowledge of
\* the port alone.
LEMMA QuietOwned ==
  ASSUME SafetyInv, SafetyInv', [Next]_vars, Owned, faults' = 0 => faults = 0,
         port' = port, freed' = freed,
         work' = work \/ work'.pc \notin {"createPort", "annotate"}
  PROVE  Owned'
<1> SUFFICES ASSUME faults' = 0
             PROVE  PortLearnt' /\ \A p \in Pod : OneChoice(p) => PortOwned(p)'
  BY DEF Owned, OneChoice
<1>1. PortLearnt /\ \A p \in Pod : OneChoice(p) => PortOwned(p)
  BY DEF Owned
<1>2. PortLearnt'
  BY <1>1 DEF PortLearnt
<1>3. ASSUME NEW p \in Pod, OneChoice(p) PROVE PortOwned(p)'
  BY <1>1, <1>3, SamePortOwned
<1> QED BY <1>2, <1>3

\* Every step keeps the ports with their pods.
LEMMA NextOwned ==
  ASSUME SafetyInv, SafetyInv', Subnets, Owned, [Next]_vars
  PROVE  Owned'
<1>1. /\ History /\ work \in Works /\ faults \in Nat /\ port \in [Pod -> Ports]
      /\ freed \in [Pod -> Nat] /\ (work.pc = "idle" \/ work.pod \in Pod)
  BY DEF SafetyInv, History, Inv, Types, WorkTypes, CountTypes, OvnTypes
<1>2. ASSUME NEW q \in Pod, Cluster(q) \/ Deliver(q) \/ BackoffExpires(q) \/ ReconcileGone(q)
                             \/ ReconcileNothing(q)
      PROVE  Owned'
  <2>1. faults' = faults /\ port' = port /\ freed' = freed /\ work' = work
    BY <1>2 DEF Cluster, CreatePod, DeletePod, CompletePod, UpdatePodStatus, StopContainers, ChangePod,
                Deliver, BackoffExpires, ReconcileGone, ReconcileNothing, history
  <2> QED BY <2>1, QuietOwned
<1>3. ASSUME NEW q \in Pod, Reconcile(q) PROVE Owned'
  <2>1. Cached(q) \in PodVersions
    BY <1>1, VersionsTyped DEF History, Inv, Types
  <2>2. faults' = faults /\ port' = port /\ freed' = freed
        /\ work'.pc \notin {"createPort", "annotate"}
    BY <1>3, <2>1 DEF Reconcile, At, FirstStep, PodVersions, history
  <2> QED BY <2>2, QuietOwned
<1>4. ASSUME NEW s \in Subnet, SubnetSide(s) PROVE Owned'
  <2>1. faults' = faults /\ port' = port /\ freed' = freed /\ work' = work
    BY <1>4 DEF SubnetSide, EnsureIPAllocator, UpdateStatusActive, history
  <2> QED BY <2>1, QuietOwned
<1>5. CASE FindNoSubnet \/ AllocateFails \/ FindSubnet
  <2>1. faults' = faults /\ port' = port /\ freed' = freed
    BY <1>5 DEF FindNoSubnet, AllocateFails, FindSubnet, history
  <2>2. CASE FindNoSubnet \/ AllocateFails
    BY <2>1, <2>2, QuietOwned DEF FindNoSubnet, AllocateFails, Return, Idle
  <2>3. CASE FindSubnet
    <3>1. work'.pc = "getPort"
      BY <1>1, <2>3 DEF FindSubnet, AllocateIP, Works
    <3> QED BY <2>1, <3>1, QuietOwned
  <2> QED BY <1>5, <2>2, <2>3
<1>6. CASE AddFinalizer \/ Annotate \/ RemoveFinalizer
  <2>1. PICK v \in PodVersions, ok \in BOOLEAN : Update(v, ok)
    BY <1>1, <1>6, WorkerWrites DEF History
  <2>2. faults' = 0 => faults = 0
    BY <1>1, <2>1 DEF Update, Fault
  <2>3. port' = port /\ freed' = freed /\ work'.pc \notin {"createPort", "annotate"}
    BY <1>6 DEF AddFinalizer, Annotate, RemoveFinalizer, Return, Idle, history
  <2> QED BY <2>2, <2>3, QuietOwned
<1>7. CASE GetPortFails \/ CreatePortFails
  <2>1. faults' # 0
    BY <1>1, <1>7 DEF GetPortFails, CreatePortFails, Fault
  <2> QED BY <2>1 DEF Owned
<1>8. CASE Restart
  <2>1. faults' = faults /\ port' = port /\ freed' = freed
        /\ work'.pc \notin {"createPort", "annotate"}
    BY <1>8 DEF Restart, Idle
  <2> QED BY <2>1, QuietOwned
<1>9. CASE UNCHANGED vars
  <2>1. faults' = faults /\ port' = port /\ freed' = freed /\ work' = work
    BY <1>9 DEF vars
  <2> QED BY <2>1, QuietOwned
<1>10. CASE GetPort
  <2> SUFFICES ASSUME faults' = 0
               PROVE  PortLearnt' /\ \A p \in Pod : OneChoice(p) => PortOwned(p)'
    BY DEF Owned, OneChoice
  <2>1. faults' = faults /\ port' = port /\ freed' = freed
    BY <1>10 DEF GetPort, history
  <2>2. PortLearnt'
    BY <1>1, <1>10 DEF GetPort, PortLearnt, Works
  <2>3. ASSUME NEW p \in Pod, OneChoice(p) PROVE PortOwned(p)'
    BY <2>1, <2>3, SamePortOwned DEF Owned
  <2> QED BY <2>2, <2>3
<1>11. CASE CreatePort
  <2> SUFFICES ASSUME faults' = 0
               PROVE  PortLearnt' /\ \A p \in Pod : OneChoice(p) => PortOwned(p)'
    BY DEF Owned, OneChoice
  <2>1. PICK q \in Pod : q = work.pod
    BY <1>1, <1>11 DEF CreatePort
  <2>2. /\ faults' = faults /\ freed' = freed /\ log' = log
        /\ port' = [port EXCEPT ![q] = NewPort]
        /\ work'.pc = "annotate" /\ work'.pod = q /\ work.pc = "createPort"
    BY <1>1, <1>11, <2>1 DEF CreatePort, history, apiVars, Works
  <2>3. port'[q] = NewPort /\ \A p \in Pod \ {q} : port'[p] = port[p]
    BY <1>1, <2>2
  <2>4. /\ Exists(work.obj) /\ Exists(Server(q)) /\ Server(q).fin
        /\ \A v \in Versions(q) : v.uid = work.obj.uid
        /\ freed[q] # work.obj.uid
    BY <2>1, <2>2, CreatesForServer DEF Configuring
  <2>5. NewPort.uid = work.obj.uid /\ NewPort.subnet = work.subnet
    BY DEF NewPort
  <2>6. PortLearnt'
    <3>1. NewPort # NoPort
      BY <2>4, <2>5 DEF NoPort, Exists
    <3> QED BY <2>2, <2>3, <3>1 DEF PortLearnt
  <2>7. ASSUME OneChoice(q) PROVE PortOwned(q)'
    <3>1. work.subnet = ItsSubnet(q)
      BY <2>1, <2>2, <2>7 DEF Subnets
    <3>2. Server(q)' = Server(q) /\ Versions(q)' = Versions(q) /\ ItsSubnet(q)' = ItsSubnet(q)
      BY <2>2 DEF Server, Versions, ItsSubnet
    <3> QED BY <2>2, <2>3, <2>4, <2>5, <3>1, <3>2 DEF PortOwned
  <2>8. ASSUME NEW p \in Pod \ {q}, OneChoice(p) PROVE PortOwned(p)'
    BY <2>2, <2>3, <2>8, SamePortOwned DEF Owned
  <2> QED BY <2>6, <2>7, <2>8
<1>12. CASE DeletePort
  <2> SUFFICES ASSUME faults' = 0
               PROVE  PortLearnt' /\ \A p \in Pod : OneChoice(p) => PortOwned(p)'
    BY DEF Owned, OneChoice
  <2>1. PICK q \in Pod : q = work.pod
    BY <1>1, <1>12 DEF DeletePort
  <2>2. faults = 0 /\ freed' = [freed EXCEPT ![q] = work.obj.uid]
    BY <1>1, <1>12, <2>1 DEF DeletePort, Fault
  <2>3. port' = [port EXCEPT ![q] = NoPort] \/ port' = port
    BY <1>12, <2>1 DEF DeletePort, PortRemoved
  <2>4. PortLearnt'
    BY <1>1, <1>12 DEF DeletePort, Return, Idle, Works, PortLearnt
  <2>5. ASSUME OneChoice(q) PROVE PortOwned(q)'
    BY <1>12, <2>1, <2>5, DeleteRemoves DEF PortOwned
  <2>6. ASSUME NEW p \in Pod \ {q}, OneChoice(p) PROVE PortOwned(p)'
    <3>1. port'[p] = port[p] /\ freed'[p] = freed[p]
      BY <1>1, <2>2, <2>3
    <3> QED BY <2>2, <2>6, <3>1, SamePortOwned DEF Owned
  <2> QED BY <2>4, <2>5, <2>6
<1> QED BY <1>2, <1>3, <1>4, <1>5, <1>6, <1>7, <1>8, <1>9, <1>10, <1>11, <1>12
        DEF Next, Dequeue, Worker

\* Steps that change neither the port, nor what is tracked, nor what was
\* released, nor the annotation.
LEMMA SamePortTold ==
  ASSUME SafetyInv, NEW p \in Pod, PortTold(p), NoNewAddress(p),
         port'[p] = port[p], tracked'[p] = tracked[p], freed'[p] = freed[p]
  PROVE  PortTold(p)'
<1>1. Holds(p)' => Holds(p) /\ Server(p)'.ip = Server(p).ip
  BY DEF Holds, NoNewAddress, HasPodAnnotation
<1> QED BY <1>1 DEF PortTold

\* Only annotate gives a pod an address.
LEMMA OnlyAnnotate ==
  ASSUME SafetyInv, [Next]_vars, NEW p \in Pod, ~ Annotate \/ work.pod # p
  PROVE  NoNewAddress(p)
BY NewAnnotation DEF SafetyInv, NoNewAddress

\* Steps that leave all of that alone, for every pod.
LEMMA QuietTold ==
  ASSUME SafetyInv, [Next]_vars, Told, ~ Annotate,
         faults' = 0 /\ restarts' = 0 => faults = 0 /\ restarts = 0,
         port' = port, tracked' = tracked, freed' = freed
  PROVE  Told'
<1> SUFFICES ASSUME faults' = 0, restarts' = 0, NEW p \in Pod, OneChoice(p) PROVE PortTold(p)'
  BY DEF Told, OneChoice
<1>1. PortTold(p)
  BY DEF Told
<1> QED BY <1>1, OnlyAnnotate, SamePortTold

\* Annotate tells the pod the tracked address, which is its port's.
LEMMA AnnotateTold ==
  ASSUME SafetyInv, Owned, Told, [Next]_vars, Annotate
  PROVE  Told'
<1>1. /\ work.pc = "annotate" /\ faults \in Nat
      /\ port' = port /\ tracked' = tracked /\ freed' = freed /\ restarts' = restarts
  BY DEF SafetyInv, History, Inv, Types, CountTypes, Annotate, memoryVars, history
<1>2. faults' = 0 => faults = 0
  <2>1. PICK v \in PodVersions, ok \in BOOLEAN : Update(v, ok)
    BY WorkerWrites DEF SafetyInv, History
  <2> QED BY <1>1, <2>1 DEF Update, Fault
<1> SUFFICES ASSUME faults' = 0, restarts' = 0, NEW p \in Pod, OneChoice(p) PROVE PortTold(p)'
  BY DEF Told, OneChoice
<1>3. PortTold(p) /\ PortLearnt
  BY <1>1, <1>2 DEF Told, Owned
<1>4. CASE NoNewAddress(p)
  BY <1>1, <1>3, <1>4, SamePortTold
<1>5. CASE ~ NoNewAddress(p)
  <2>1. work.pod = p /\ Server(p)'.ip = work.ip
    BY <1>5, NewAnnotation DEF SafetyInv, NoNewAddress
  <2>2. port[p] # NoPort /\ port[p].ip = tracked[p] /\ tracked[p] # 0 /\ work.ip = tracked[p]
    BY <1>1, <1>3, <2>1 DEF PortTold, PortLearnt, SafetyInv, WorkAddress
  <2> QED BY <1>1, <2>1, <2>2 DEF PortTold
<1> QED BY <1>4, <1>5

\* Every step keeps what the pods were told and what the ports say together.
LEMMA NextTold ==
  ASSUME SafetyInv, Subnets, Owned, Told, [Next]_vars
  PROVE  Told'
<1>1. /\ History /\ work \in Works /\ faults \in Nat /\ restarts \in Nat /\ port \in [Pod -> Ports]
      /\ freed \in [Pod -> Nat] /\ tracked \in [Pod -> Nat] /\ (work.pc = "idle" \/ work.pod \in Pod)
  BY DEF SafetyInv, History, Inv, Types, WorkTypes, CountTypes, OvnTypes, TrackedTypes
<1>2. CASE Annotate
  BY <1>2, AnnotateTold
<1> SUFFICES ASSUME ~ Annotate PROVE Told'
  BY <1>2
<1>3. ASSUME NEW q \in Pod, Cluster(q) \/ Deliver(q) \/ BackoffExpires(q) \/ ReconcileNothing(q)
                             \/ Reconcile(q)
      PROVE  Told'
  <2>1. faults' = faults /\ restarts' = restarts /\ port' = port /\ tracked' = tracked /\ freed' = freed
    BY <1>3 DEF Cluster, CreatePod, DeletePod, CompletePod, UpdatePodStatus, StopContainers, ChangePod,
                Deliver, BackoffExpires, ReconcileNothing, Reconcile, memoryVars, history
  <2> QED BY <2>1, QuietTold
<1>4. ASSUME NEW q \in Pod, ReconcileGone(q) PROVE Told'
  <2> SUFFICES ASSUME faults' = 0, restarts' = 0, NEW p \in Pod, OneChoice(p) PROVE PortTold(p)'
    BY DEF Told, OneChoice
  <2>1. /\ faults' = faults /\ restarts' = restarts /\ port' = port /\ freed' = freed
        /\ tracked' = [tracked EXCEPT ![q] = 0] /\ ~ Exists(Cached(q))
    BY <1>4 DEF ReconcileGone, history
  <2>2. PortTold(p) /\ PortOwned(p)
    BY <2>1 DEF Told, Owned
  <2>3. NoNewAddress(p)
    BY OnlyAnnotate
  <2>4. CASE port[p] = NoPort
    BY <2>1, <2>2, <2>3, <2>4 DEF PortTold, Holds, NoNewAddress, HasPodAnnotation
  <2>5. CASE port[p] # NoPort
    <3>1. Cached(p).uid = Server(p).uid /\ Exists(Server(p))
      BY <1>1, <2>2, <2>5, CachedIsVersion, PodFacts DEF History, PortOwned
    <3>2. p # q
      BY <2>1, <3>1 DEF Exists
    <3>3. tracked'[p] = tracked[p]
      BY <1>1, <2>1, <3>2
    <3> QED BY <2>1, <2>2, <2>3, <3>3, SamePortTold
  <2> QED BY <2>4, <2>5
<1>5. ASSUME NEW s \in Subnet, SubnetSide(s) PROVE Told'
  <2>1. faults' = faults /\ restarts' = restarts /\ port' = port /\ tracked' = tracked /\ freed' = freed
    BY <1>5 DEF SubnetSide, EnsureIPAllocator, UpdateStatusActive, memoryVars, history
  <2> QED BY <2>1, QuietTold
<1>6. CASE AddFinalizer \/ RemoveFinalizer
  <2>1. PICK v \in PodVersions, ok \in BOOLEAN : Update(v, ok)
    BY <1>1, <1>6, WorkerWrites DEF History
  <2>2. faults' = 0 => faults = 0
    BY <1>1, <2>1 DEF Update, Fault
  <2>3. restarts' = restarts /\ port' = port /\ tracked' = tracked /\ freed' = freed
    BY <1>6 DEF AddFinalizer, RemoveFinalizer, memoryVars, history
  <2> QED BY <2>2, <2>3, QuietTold
<1>7. CASE FindNoSubnet \/ AllocateFails \/ GetPort
  <2>1. faults' = faults /\ restarts' = restarts /\ port' = port /\ tracked' = tracked /\ freed' = freed
    BY <1>7 DEF FindNoSubnet, AllocateFails, GetPort, memoryVars, history
  <2> QED BY <2>1, QuietTold
<1>8. CASE FindSubnet
  <2> SUFFICES ASSUME faults' = 0, restarts' = 0, NEW p \in Pod, OneChoice(p) PROVE PortTold(p)'
    BY DEF Told, OneChoice
  <2>1. faults' = faults /\ restarts' = restarts /\ port' = port /\ freed' = freed
    BY <1>8 DEF FindSubnet, history
  <2>2. PortTold(p) /\ NoNewAddress(p)
    BY <2>1, OnlyAnnotate DEF Told
  <2>3. tracked[p] # 0 => tracked'[p] = tracked[p]
    BY <1>1, <1>8 DEF FindSubnet, AllocateIP, memoryVars
  <2>4. CASE port[p] = NoPort
    BY <2>1, <2>2, <2>4 DEF PortTold, Holds, NoNewAddress, HasPodAnnotation
  <2>5. CASE port[p] # NoPort
    <3>1. tracked'[p] = tracked[p]
      BY <2>2, <2>3, <2>5 DEF PortTold
    <3> QED BY <2>1, <2>2, <3>1, SamePortTold
  <2> QED BY <2>4, <2>5
<1>9. CASE GetPortFails \/ CreatePortFails \/ Restart
  <2>1. faults' # 0 \/ restarts' # 0
    BY <1>1, <1>9 DEF GetPortFails, CreatePortFails, Restart, Fault
  <2> QED BY <2>1 DEF Told
<1>10. CASE CreatePort
  <2> SUFFICES ASSUME faults' = 0, restarts' = 0, NEW p \in Pod, OneChoice(p) PROVE PortTold(p)'
    BY DEF Told, OneChoice
  <2>1. /\ faults' = faults /\ restarts' = restarts /\ tracked' = tracked /\ freed' = freed
        /\ port' = [port EXCEPT ![work.pod] = NewPort] /\ work.pc = "createPort"
    BY <1>10 DEF CreatePort, memoryVars, history
  <2>2. PortTold(p) /\ NoNewAddress(p) /\ PortLearnt
    BY <2>1, OnlyAnnotate DEF Told, Owned
  <2>3. CASE work.pod = p
    <3>1. port'[p] = NewPort /\ NewPort.ip = tracked[p] /\ tracked[p] # 0
      BY <1>1, <2>1, <2>3 DEF NewPort, SafetyInv, WorkAddress
    <3>2. ~ Holds(p)
      BY <2>1, <2>2, <2>3 DEF PortLearnt, PortTold
    <3>3. ~ Holds(p)'
      BY <2>1, <2>2, <3>2 DEF Holds, NoNewAddress, HasPodAnnotation
    <3> QED BY <2>1, <3>1, <3>3 DEF PortTold
  <2>4. CASE work.pod # p
    <3>1. port'[p] = port[p]
      BY <1>1, <2>1, <2>4
    <3> QED BY <2>1, <2>2, <3>1, SamePortTold
  <2> QED BY <2>3, <2>4
<1>11. CASE DeletePort
  <2> SUFFICES ASSUME faults' = 0, restarts' = 0, NEW p \in Pod, OneChoice(p) PROVE PortTold(p)'
    BY DEF Told, OneChoice
  <2>1. /\ faults = 0 /\ restarts' = restarts
        /\ tracked' = [tracked EXCEPT ![work.pod] = 0]
        /\ freed' = [freed EXCEPT ![work.pod] = work.obj.uid]
        /\ work.pc = "deletePort" /\ UNCHANGED apiVars
    BY <1>1, <1>11 DEF DeletePort, Fault
  <2>2. PortTold(p) /\ NoNewAddress(p)
    BY <2>1, OnlyAnnotate DEF Told
  <2>3. CASE work.pod = p
    <3>1. port'[p] = NoPort
      BY <1>11, <2>3, DeleteRemoves
    <3>2. HasPodAnnotation(Server(p)) => work.obj.uid = Server(p).uid
      BY <1>1, <2>1, <2>3 DEF History, WorkCopy
    <3>3. freed'[p] = work.obj.uid /\ Server(p)' = Server(p)
      BY <1>1, <2>1, <2>3 DEF apiVars, Server
    <3> QED BY <3>1, <3>2, <3>3 DEF PortTold, Holds
  <2>4. CASE work.pod # p
    <3>1. port'[p] = port[p] /\ tracked'[p] = tracked[p] /\ freed'[p] = freed[p]
      BY <1>1, <1>11, <2>1, <2>4 DEF DeletePort, PortRemoved
    <3> QED BY <2>2, <3>1, SamePortTold
  <2> QED BY <2>3, <2>4
<1>12. CASE UNCHANGED vars
  <2>1. faults' = faults /\ restarts' = restarts /\ port' = port /\ tracked' = tracked /\ freed' = freed
    BY <1>12 DEF vars
  <2> QED BY <2>1, QuietTold
<1> QED BY <1>3, <1>4, <1>5, <1>6, <1>7, <1>8, <1>9, <1>10, <1>11, <1>12
        DEF Next, Dequeue, Worker

\* At the start there is no port and nothing to be told.
LEMMA InitPorts == Init => PortInv
<1> SUFFICES ASSUME Init PROVE PortInv
  OBVIOUS
<1>1. \A p \in Pod : Server(p) = Absent /\ Versions(p) = {Absent} /\ ~ HasPodAnnotation(Absent)
  <2> SUFFICES ASSUME NEW p \in Pod
               PROVE  log[p][Len(log[p])] = Absent /\ {log[p][j] : j \in 1 .. Len(log[p])} = {Absent}
    BY DEF Server, Versions, HasPodAnnotation, Absent
  <2> DEFINE s == <<Absent>>
  <2>1. Len(s) = 1 /\ s[1] = Absent
    OBVIOUS
  <2>2. log[p] = s
    BY DEF Init
  <2> HIDE DEF s
  <2>3. s[Len(s)] = Absent /\ {s[j] : j \in 1 .. Len(s)} = {Absent}
    BY <2>1
  <2> QED BY <2>2, <2>3
<1>2. Subnets
  BY <1>1 DEF Init, Subnets, Idle
<1>3. Owned
  BY DEF Init, Owned, PortLearnt, PortOwned, Idle
<1>4. Told
  BY <1>1 DEF Init, Told, PortTold, Holds
<1> QED BY <1>2, <1>3, <1>4, InitSafety DEF PortInv

\* As long as OVN answers, every port is the port of a pod the API server
\* still has; as long as the controller also keeps its memory, it carries
\* the address that the pod was told of.  Stale copies, conflicts, pods that
\* are deleted half way and names that are used again change nothing in
\* that.  For pods that can only be given one subnet.
THEOREM PortsAlwaysFollow == Spec => []PortsFollowPods
<1>1. PortInv => PortsFollowPods
  <2> SUFFICES ASSUME PortInv PROVE PortsFollowPods
    OBVIOUS
  <2>1. Inv
    BY DEF PortInv, SafetyInv, History
  <2>2. NoOrphanPort
    <3> SUFFICES ASSUME faults = 0, NEW p \in Pod, OneChoice(p), port[p] # NoPort
                 PROVE  Exists(Server(p)) /\ Server(p).fin /\ port[p].uid = Server(p).uid
      BY DEF NoOrphanPort
    <3> QED BY <2>1, PodFacts DEF PortInv, Owned, PortOwned
  <2>3. PortMatchesAnnotation
    <3> SUFFICES ASSUME faults = 0, restarts = 0, NEW p \in Pod, OneChoice(p), Networked(p)
                 PROVE  /\ port[p].ip = Server(p).ip /\ port[p].subnet = Server(p).subnet
                        /\ port[p].uid = Server(p).uid
      BY DEF PortMatchesAnnotation
    <3>1. LogSound(log[p], births[p], freed[p]) /\ Server(p) = log[p][Len(log[p])]
      BY <2>1, PodFacts DEF PortInv, SafetyInv, History, Logs
    <3>2. HasPodAnnotation(Server(p)) => Exists(Server(p))
      BY <2>1 DEF Inv, AbsentUnannotated
    <3>3. Holds(p)
      BY <3>1, <3>2 DEF LogSound, Networked, Holds
    <3>4. PortTold(p) /\ PortOwned(p)
      BY DEF PortInv, Told, Owned
    <3>5. Server(p) \in Versions(p)
      BY <2>1, PodFacts
    <3>6. Server(p).subnet = ItsSubnet(p)
      BY <3>3, <3>5 DEF PortInv, Subnets, Holds
    <3> QED BY <3>3, <3>4, <3>5, <3>6 DEF PortTold, PortOwned
  <2> QED BY <2>2, <2>3 DEF PortsFollowPods
<1>2. PortInv /\ [Next]_vars => PortInv'
  BY NextSafety, NextSubnets, NextOwned, NextTold DEF PortInv
<1> QED BY <1>1, <1>2, InitPorts, PTL DEF Spec
=============================================================================
