----------------------- MODULE SubnetControllerProofs -----------------------
(***************************************************************************)
(* Proofs about SubnetController, for any number of subnets, pods and      *)
(* switches and any values of the bounds.                                  *)
(***************************************************************************)
EXTENDS SubnetController, SequenceTheorems, FiniteSetTheorems, TLAPS

-----------------------------------------------------------------------------
(* The inductive invariant: types.                                         *)

Works == [pc : Steps, s : Subnet \cup {NoSubnet}, obj : Versions, row : Rows,
          avail : Nat, used : Nat, behind : BOOLEAN, torn : BOOLEAN]

\* An allocator has handed out addresses of its own CIDR only.
Allocators ==
  {NoPool} \cup {a \in [cidr : DOMAIN PoolOf, taken : SUBSET Nat] : a.taken \subseteq PoolOf[a.cidr]}

Addresses == [s : Subnet \cup {NoSubnet}, ip : Nat]

LogTypes == log \in [Subnet -> Seq(Versions)] /\ \A s \in Subnet : log[s] # <<>>

QueueTypes == queue \subseteq Subnet /\ backoff \subseteq Subnet

WorkTypes ==
  /\ work \in Works
  /\ work.pc = "idle" => work = Idle
  /\ work.pc # "idle" => work.s \in Subnet

RowTypes == config \in {"standalone", "external"} /\ rows \in [Switches -> Rows]

IpamTypes ==
  /\ allocators \in [Subnet -> Allocators]
  /\ grabbed \in [s : Subnet \cup {NoSubnet}, own : Allocators]
  /\ holds \in [Pods -> Addresses]
  /\ forgotten \in BOOLEAN

CountTypes == spent \in [births : Nat, foreign : Nat, other : Nat]

Types == LogTypes /\ QueueTypes /\ WorkTypes /\ RowTypes /\ IpamTypes /\ CountTypes

-----------------------------------------------------------------------------
(* The allocators, and the counts read from them.                          *)

\* The pod worker's pointer is to an allocator that is there; while none was
\* dropped in use it is the subnet's own, and what the pods hold is taken from
\* it and held once.
PointerSound ==
  /\ grabbed # NoPointer => grabbed.s \in Subnet
  /\ grabbed # NoPointer /\ grabbed.own = NoPool => allocators[grabbed.s] # NoPool
  /\ ~ forgotten => grabbed.own = NoPool

HoldsSound ==
  /\ \A p \in Pods : holds[p] # NoAddress => holds[p].s \in Subnet
  /\ ~ forgotten => \A p, q \in Pods : p # q /\ holds[p] # NoAddress => holds[p] # holds[q]

Counting == {"readAvailable", "readUsed", "statusActive"}

\* While the counts are read the subnet has an allocator.
CountsSound ==
  /\ work.pc \in Counting => allocators[work.s] # NoPool
  /\ work.pc = "readUsed" /\ ~ work.torn =>
       work.avail + Taken(allocators[work.s]) = Size(allocators[work.s])
  /\ StatusAddsUp

IpamInv == PointerSound /\ HoldsSound /\ HeldIsTaken /\ CountsSound

-----------------------------------------------------------------------------
(* The versions of a subnet, and the copy a reconcile works on.            *)

Serving == {"getSwitch", "update", "create", "allocator", "readAvailable", "readUsed",
            "statusActive", "statusFailed"}
Deleting == {"getForDelete", "deleteSwitch", "dropAllocator", "removeFinalizer"}

\* Versions of one life of a subnet's name.
Same(u, v) == u.uid = v.uid /\ u.ext = v.ext

\* What a version is by itself: a subnet that is not there has nothing, and only
\* our finalizer holds one that is being deleted; it is one of the lives so far.
VersionSound(v, births) ==
  /\ ~ Exists(v) => v = Absent
  /\ v.del => v.fin
  /\ v.uid <= births

\* A subnet keeps the finalizer until a reconcile has seen it being deleted, and
\* once it is being deleted it stays so.
HistorySound(s) ==
  \A i, j \in DOMAIN log[s] : i <= j =>
    /\ VersionSound(log[s][i], spent.births)
    /\ log[s][i].fin /\ ~ log[s][i].del => Same(log[s][i], log[s][j]) /\ log[s][j].fin
    /\ log[s][i].del /\ log[s][i].uid = log[s][j].uid => log[s][j].del

\* A copy that is not behind is the API server's, but for the phase to come.
CopyIsCurrent ==
  Len(log[work.s]) = 1 /\ work.obj = [Server(work.s) EXCEPT !.phase = work.obj.phase]

WorkSound ==
  /\ work.pc # "idle" => Exists(work.obj) /\ work.obj.uid <= spent.births
  /\ work.pc # "idle" /\ ~ work.behind => CopyIsCurrent
  /\ work.pc = "addFinalizer" => ~ work.obj.del
  /\ work.pc \in Serving =>
       /\ work.obj.fin /\ ~ work.obj.del
       /\ \A i \in DOMAIN log[work.s] : Same(log[work.s][i], work.obj) /\ log[work.s][i].fin
  /\ work.pc \in Deleting =>
       /\ work.obj.fin /\ work.obj.del
       /\ \A i \in DOMAIN log[work.s] : log[work.s][i].uid = work.obj.uid => log[work.s][i].del

LogInv == (\A s \in Subnet : HistorySound(s)) /\ WorkSound

-----------------------------------------------------------------------------
(* The rows.                                                               *)

\* A row has a UUID of its own, and is ours or marked by ZStack.
RowsSound ==
  /\ \A n \in Switches : rows[n] # NoRow =>
       rows[n].uuid # 0 /\ (IsOurManaged(rows[n]) \/ IsZStackManaged(rows[n]))
  /\ \A m, n \in Switches : rows[m] # NoRow /\ rows[m].uuid = rows[n].uuid => m = n

\* A row that is ours belongs to the subnet's present life, which has the
\* finalizer in every version of it that is still to be seen.
OwnedSound ==
  \A s \in Subnet : IsOurManaged(rows[s]) =>
    /\ \A i \in DOMAIN log[s] : /\ Same(log[s][i], Server(s))
                                /\ log[s][i].fin /\ ~ log[s][i].ext
    /\ work.s = s => work.obj.uid = Server(s).uid

\* The row a reconcile remembers was ours, and its UUID is no other switch's.
Holding == {"update", "deleteSwitch"}

RememberedSound ==
  /\ work.pc \in Holding => IsOurManaged(work.row) /\ work.row.uuid # 0
  /\ work.pc \in {"update", "create", "getForDelete", "deleteSwitch"} => ~ work.obj.ext
  /\ work.pc = "update" => \A n \in Switches : rows[n].uuid = work.row.uuid => n = work.s
  /\ work.pc \in {"dropAllocator", "removeFinalizer"} /\ ~ work.obj.ext => ~ IsOurManaged(rows[work.s])

RowInv == RowsSound /\ OwnedSound /\ RememberedSound

-----------------------------------------------------------------------------
(* What is still to be done.                                               *)

\* The row of s is as version v wants it.
Carries(s, v) == rows[s].managedBy = "ours" /\ rows[s].cidr = v.cidr

Active(v) == Exists(v) /\ ~ v.ext /\ v.phase = "Active"

\* A subnet whose row is not as it should be is queued, waits for its backoff,
\* is being worked on, or has an event on the way.
PendingSound ==
  spent.foreign = 0 =>
    \A s \in Subnet :
      Active(Server(s)) => Carries(s, Server(s)) \/ s \in queue \cup backoff
                           \/ work.s = s \/ Len(log[s]) > 1

\* A reconcile past the switch has made it what its copy says.
ServedSound ==
  /\ spent.foreign = 0 /\ work.pc = "update" => rows[work.s] = work.row
  /\ spent.foreign = 0 /\ ~ work.obj.ext /\ work.pc \in {"allocator"} \cup Counting
       => Carries(work.s, work.obj)

SpecInv == PendingSound /\ ServedSound

Inv == Types /\ IpamInv /\ LogInv /\ RowInv /\ SpecInv

-----------------------------------------------------------------------------
(* Facts about the helpers.                                                *)

\* The null values are of the types they stand in for.
LEMMA NullsTyped ==
  /\ Absent \in Versions /\ ~ Exists(Absent) /\ ~ Absent.fin /\ ~ Absent.del /\ ~ Absent.ext
  /\ NoRow \in Rows /\ NoPool \in Allocators /\ NoAddress \in Addresses
  /\ NoPointer \in [s : Subnet \cup {NoSubnet}, own : Allocators]
  /\ Idle \in Works /\ Idle.pc = "idle" /\ Idle.s = NoSubnet /\ NoSubnet \notin Subnet
<1>1. /\ Absent \in Versions /\ ~ Exists(Absent) /\ ~ Absent.fin /\ ~ Absent.del /\ ~ Absent.ext
      /\ Absent.phase = ""
  BY SubnetAssumption DEF Absent, Versions, Exists
<1>2. NoRow \in Rows
  BY DEF NoRow, Rows
<1>3. NoPool \in Allocators /\ NoAddress \in Addresses
  BY DEF Allocators, NoAddress, Addresses
<1>4. NoPointer \in [s : Subnet \cup {NoSubnet}, own : Allocators]
  BY <1>3 DEF NoPointer
<1>5. Idle \in Works /\ Idle.pc = "idle" /\ Idle.s = NoSubnet
  BY <1>1, <1>2 DEF Idle, Works, Steps
<1> QED BY <1>1, <1>2, <1>3, <1>4, <1>5, SubnetAssumption

\* What the API server makes of a version that is written.
Stored(v) == IF v.del /\ ~ v.fin THEN Absent ELSE v

\* The oldest and the newest version of a subnet.
LEMMA VersionsTyped ==
  ASSUME LogTypes, NEW s \in Subnet
  PROVE  /\ Len(log[s]) \in Nat \ {0} /\ DOMAIN log[s] = 1 .. Len(log[s])
         /\ \A i \in DOMAIN log[s] : log[s][i] \in Versions
         /\ Server(s) \in Versions /\ Cached(s) \in Versions /\ Cached(s) = log[s][1]
<1>1. log[s] \in Seq(Versions) /\ log[s] # <<>>
  BY DEF LogTypes
<1>2. Len(log[s]) \in Nat \ {0} /\ DOMAIN log[s] = 1 .. Len(log[s])
  BY <1>1, EmptySeq, LenProperties
<1>3. \A i \in DOMAIN log[s] : log[s][i] \in Versions
  BY <1>1, <1>2, ElementOfSeq
<1>4. Cached(s) = log[s][1]
  BY <1>1 DEF Cached
<1> QED BY <1>2, <1>3, <1>4 DEF Server

\* A write appends what is stored and touches no other subnet.
LEMMA WriteAppends ==
  ASSUME LogTypes, NEW s \in Subnet, NEW v \in Versions, Write(s, v)
  PROVE  /\ LogTypes' /\ Stored(v) \in Versions /\ log' # log
         /\ \A t \in Subnet \ {s} : log'[t] = log[t]
         /\ Len(log'[s]) = Len(log[s]) + 1 /\ Server(s)' = Stored(v)
         /\ DOMAIN log'[s] = 1 .. Len(log[s]) + 1
         /\ \A i \in DOMAIN log[s] : log'[s][i] = log[s][i]
         /\ log'[s][Len(log[s]) + 1] = Stored(v)
<1>1. log[s] \in Seq(Versions) /\ log \in [Subnet -> Seq(Versions)]
  BY DEF LogTypes
<1>2. Stored(v) \in Versions
  BY NullsTyped DEF Stored
<1>3. log' = [log EXCEPT ![s] = Append(log[s], Stored(v))]
  BY DEF Write, Stored
<1>4. /\ Append(log[s], Stored(v)) \in Seq(Versions) /\ Append(log[s], Stored(v)) # <<>>
      /\ Len(Append(log[s], Stored(v))) = Len(log[s]) + 1
      /\ \A i \in 1 .. Len(log[s]) : Append(log[s], Stored(v))[i] = log[s][i]
      /\ Append(log[s], Stored(v))[Len(log[s]) + 1] = Stored(v)
  BY <1>1, <1>2, AppendProperties
<1>5. log'[s] = Append(log[s], Stored(v)) /\ \A t \in Subnet \ {s} : log'[t] = log[t]
  BY <1>1, <1>3
<1>6. LogTypes'
  BY <1>1, <1>3, <1>4, <1>5 DEF LogTypes
<1>7. Len(log[s]) \in Nat /\ DOMAIN log[s] = 1 .. Len(log[s])
  BY VersionsTyped
<1>8. DOMAIN log'[s] = 1 .. Len(log[s]) + 1
  BY <1>1, <1>2, <1>4, <1>5, LenProperties
<1>9. log' # log
  BY <1>4, <1>5, <1>7
<1> QED BY <1>2, <1>4, <1>5, <1>6, <1>7, <1>8, <1>9 DEF Server

\* The informer's cache moves on to the next version.
LEMMA DeliverMoves ==
  ASSUME LogTypes, NEW s \in Subnet, Deliver(s)
  PROVE  /\ LogTypes' /\ \A t \in Subnet \ {s} : log'[t] = log[t]
         /\ Len(log'[s]) = Len(log[s]) - 1 /\ Server(s)' = Server(s)
         /\ DOMAIN log'[s] = 1 .. Len(log[s]) - 1
         /\ \A i \in DOMAIN log'[s] : i + 1 \in DOMAIN log[s] /\ log'[s][i] = log[s][i + 1]
<1>1. log[s] \in Seq(Versions) /\ log[s] # <<>> /\ log \in [Subnet -> Seq(Versions)]
  BY DEF LogTypes
<1>2. /\ Tail(log[s]) \in Seq(Versions) /\ Len(Tail(log[s])) = Len(log[s]) - 1
      /\ \A i \in 1 .. Len(Tail(log[s])) : Tail(log[s])[i] = log[s][i + 1]
  BY <1>1, HeadTailProperties
<1>3. log' = [log EXCEPT ![s] = Tail(log[s])] /\ Len(log[s]) > 1
  BY DEF Deliver
<1>4. log'[s] = Tail(log[s]) /\ \A t \in Subnet \ {s} : log'[t] = log[t]
  BY <1>1, <1>3
<1>5. Len(log[s]) \in Nat /\ DOMAIN log[s] = 1 .. Len(log[s])
  BY VersionsTyped
<1>6. DOMAIN Tail(log[s]) = 1 .. Len(log[s]) - 1 /\ Tail(log[s]) # <<>>
  BY <1>2, <1>3, <1>5, LenProperties, EmptySeq
<1>7. LogTypes'
  BY <1>1, <1>2, <1>3, <1>4, <1>6 DEF LogTypes
<1>8. Server(s)' = Server(s)
  <2>1. Len(log[s]) - 1 \in 1 .. Len(Tail(log[s]))
    BY <1>2, <1>3, <1>5
  <2> QED BY <1>2, <1>4, <1>5, <2>1 DEF Server
<1>9. \A i \in DOMAIN log'[s] : i + 1 \in DOMAIN log[s] /\ log'[s][i] = log[s][i + 1]
  BY <1>2, <1>4, <1>5, <1>6
<1> QED BY <1>2, <1>4, <1>6, <1>7, <1>8, <1>9

\* A restart starts the cache at the newest version.
LEMMA RestartLists ==
  ASSUME LogTypes, Restart
  PROVE  /\ LogTypes'
         /\ \A s \in Subnet : /\ log'[s] = <<Server(s)>> /\ Server(s)' = Server(s)
                              /\ DOMAIN log'[s] = {1} /\ Len(log'[s]) = 1
<1>0. \A v \in Versions : <<v>> \in Seq(Versions) /\ <<v>> # <<>> /\ Len(<<v>>) = 1 /\ <<v>>[1] = v
  OBVIOUS
<1>1. \A s \in Subnet : log'[s] = <<Server(s)>> /\ Server(s) \in Versions
  BY VersionsTyped DEF Restart
<1>2. \A s \in Subnet : log'[s] \in Seq(Versions) /\ log'[s] # <<>> /\ Len(log'[s]) = 1 /\ log'[s][1] = Server(s)
  <2> SUFFICES ASSUME NEW s \in Subnet
               PROVE  log'[s] \in Seq(Versions) /\ log'[s] # <<>> /\ Len(log'[s]) = 1 /\ log'[s][1] = Server(s)
    OBVIOUS
  <2>1. PICK v \in Versions : v = Server(s)
    BY <1>1
  <2>2. log'[s] = <<v>>
    BY <1>1, <2>1
  <2> QED BY <1>0, <2>1, <2>2
<1>3. DOMAIN log' = Subnet /\ log' = [s \in Subnet |-> log'[s]]
  BY DEF Restart
<1>4. LogTypes'
  BY <1>2, <1>3 DEF LogTypes
<1>5. \A s \in Subnet : DOMAIN log'[s] = {1} /\ Server(s)' = Server(s)
  BY <1>1, <1>2 DEF Server
<1> QED BY <1>1, <1>2, <1>4, <1>5

\* The log is left as it is, or a version is written.
LEMMA UpdateWrites ==
  ASSUME NEW v, NEW ok \in BOOLEAN, Update(v, ok)
  PROVE  /\ UNCHANGED log \/ (~ work.behind /\ Write(work.s, v))
         /\ UNCHANGED spent \/ Fails
         /\ ok => ~ work.behind /\ Write(work.s, v)
<1>1. CASE ok
  BY <1>1, Zenon DEF Update
<1>2. CASE ~ ok
  BY <1>2, Zenon DEF Update
<1> QED BY <1>1, <1>2

-----------------------------------------------------------------------------
(* What a step of the worker does to the reconcile in progress.            *)

\* The least of a set of numbers is one of them.
LEMMA MinIsMember ==
  ASSUME NEW S \in SUBSET Nat, S # {}
  PROVE  Min(S) \in S
<1> DEFINE T == {0 .. i : i \in S}
<1>1. IsWellFoundedOn(StrictSubsetOrdering(Nat), FiniteSubsetsOf(Nat))
  BY FS_StrictSubsetOrderingWellFounded
<1>2. T \subseteq FiniteSubsetsOf(Nat)
  <2> SUFFICES ASSUME NEW i \in S PROVE 0 .. i \in FiniteSubsetsOf(Nat)
    OBVIOUS
  <2>1. IsFiniteSet(0 .. i)
    BY FS_Interval
  <2> QED BY <2>1 DEF FiniteSubsetsOf
<1>3. T # {}
  OBVIOUS
<1>4. \E x \in T : \A y \in T : <<y, x>> \notin StrictSubsetOrdering(Nat)
  <2> HIDE DEF T
  <2> QED BY <1>1, <1>2, <1>3, WFMin
<1>5. PICK i \in S : \A y \in T : <<y, 0 .. i>> \notin StrictSubsetOrdering(Nat)
  BY <1>4
<1>6. ASSUME NEW j \in S, j < i PROVE FALSE
  <2>1. i \in 0 .. i /\ i \notin 0 .. j /\ 0 .. j \subseteq 0 .. i
    BY <1>6
  <2>2. 0 .. j \in T /\ 0 .. j \in SUBSET Nat /\ 0 .. i \in SUBSET Nat
    OBVIOUS
  <2> QED BY <1>5, <2>1, <2>2 DEF StrictSubsetOrdering
<1>7. \A j \in S : i <= j
  BY <1>6
<1> QED BY <1>7 DEF Min

\* A new UUID is a number that no row and no reconcile has.
LEMMA NewUUIDIsNew ==
  ASSUME RowTypes, WorkTypes
  PROVE  NewUUID \in Nat \ {0} /\ NewUUID # work.row.uuid
         /\ \A n \in Switches : rows[n].uuid # NewUUID
<1> DEFINE f == [n \in Switches |-> rows[n].uuid]
           U == {rows[n].uuid : n \in Switches}
           C == Cardinality(Switches)
           S == (1 .. C + 2) \ (U \cup {work.row.uuid})
<1>1. IsFiniteSet(Switches) /\ C \in Nat
  BY SubnetAssumption, FS_AddElement, FS_CardinalityType DEF Switches
<1>2. f \in Surjection(Switches, U)
  BY DEF Surjection
<1>3. IsFiniteSet(U) /\ Cardinality(U) <= C
  <2> HIDE DEF f
  <2> QED BY <1>1, <1>2, FS_Surjection
<1>4. IsFiniteSet(U \cup {work.row.uuid}) /\ Cardinality(U \cup {work.row.uuid}) <= C + 1
  <2> HIDE DEF U, C
  <2>1. Cardinality(U) \in Nat
    BY <1>3, FS_CardinalityType
  <2> QED BY <1>1, <1>3, <2>1, FS_AddElement
<1>5. S # {}
  <2> SUFFICES ASSUME S = {} PROVE FALSE
    OBVIOUS
  <2>1. 1 .. C + 2 \subseteq U \cup {work.row.uuid}
    OBVIOUS
  <2>2. Cardinality(1 .. C + 2) = C + 2
    <3> HIDE DEF C
    <3> QED BY <1>1, FS_Interval
  <2>3. Cardinality(1 .. C + 2) <= Cardinality(U \cup {work.row.uuid})
    BY <1>4, <2>1, FS_Subset
  <2>4. Cardinality(U \cup {work.row.uuid}) \in Nat
    BY <1>4, FS_CardinalityType
  <2> HIDE DEF C, U
  <2> QED BY <1>1, <1>4, <2>2, <2>3, <2>4
<1>6. S \subseteq Nat \ {0}
  <2> HIDE DEF C, U
  <2> QED BY <1>1
<1>7. NewUUID = Min(S)
  BY DEF NewUUID
<1>8. Min(S) \in S
  <2> HIDE DEF S
  <2> QED BY <1>5, <1>6, MinIsMember
<1> QED BY <1>6, <1>7, <1>8

\* The numbers of an allocator.
LEMMA CountsTyped ==
  ASSUME NEW a \in Allocators, a # NoPool
  PROVE  /\ a.cidr \in DOMAIN PoolOf /\ a.taken \subseteq PoolOf[a.cidr]
         /\ a = [cidr |-> a.cidr, taken |-> a.taken]
         /\ Size(a) \in Nat /\ Taken(a) \in Nat /\ Size(a) - Taken(a) \in Nat
<1>1. a.cidr \in DOMAIN PoolOf /\ a.taken \subseteq PoolOf[a.cidr] /\ a = [cidr |-> a.cidr, taken |-> a.taken]
  BY DEF Allocators
<1>2. IsFiniteSet(PoolOf[a.cidr])
  BY <1>1, SubnetAssumption
<1>3. Cardinality(a.taken) <= Cardinality(PoolOf[a.cidr]) /\ IsFiniteSet(a.taken)
  BY <1>1, <1>2, FS_Subset
<1>4. Cardinality(a.taken) \in Nat /\ Cardinality(PoolOf[a.cidr]) \in Nat
  BY <1>2, <1>3, FS_CardinalityType
<1> QED BY <1>1, <1>3, <1>4 DEF Size, Taken

\* The reconcile in progress goes on with the same subnet, and with its copy but
\* for the phase; it never gets back to another phase of its life.
Moved ==
  /\ work' \in Works /\ work'.s = work.s /\ work'.pc # "idle" /\ work'.pc # "addFinalizer"
  /\ work'.obj = [work.obj EXCEPT !.phase = work'.obj.phase]
  /\ work.behind => work'.behind
  /\ work'.pc \in Serving => work.pc \in Serving
  /\ work'.pc \in Deleting => work.pc \in Deleting

\* What becomes of a step that goes to pc.
LEMMA GotoMoves ==
  ASSUME WorkTypes, NEW pc \in Steps, pc # "idle", pc # "addFinalizer",
         pc \in Serving => work.pc \in Serving, pc \in Deleting => work.pc \in Deleting,
         Goto(pc) \/ Forget(pc)
  PROVE  Moved /\ work'.pc = pc /\ work'.obj = work.obj /\ work'.behind = work.behind
         /\ UNCHANGED <<queue, backoff>>
<1>1. work \in Works /\ NoRow \in Rows
  BY NullsTyped DEF WorkTypes
<1>2. /\ work' \in Works /\ work'.pc = pc /\ work'.s = work.s /\ work'.obj = work.obj
      /\ work'.behind = work.behind
  BY <1>1 DEF Goto, Forget, Works
<1>3. work.obj = [work.obj EXCEPT !.phase = work.obj.phase]
  BY <1>1 DEF Works, Versions
<1> QED BY <1>2, <1>3 DEF Moved, Goto, Forget

\* Every step of the worker ends the reconcile or moves it.
LEMMA WorkerMoves ==
  ASSUME Types, CountsSound, Worker
  PROVE  work.pc # "idle" /\ (work' = Idle \/ Moved)
<1> USE DEF Types
<1>1. WorkTypes /\ work \in Works /\ RowTypes
  BY DEF WorkTypes
<1> DEFINE G == work.pc # "idle" /\ (work' = Idle \/ Moved)
<1>2. CASE AddFinalizer
  BY <1>2 DEF AddFinalizer, Return
<1>3. CASE GetSwitch
  <2> DEFINE row == rows[SwitchName(work.s, work.obj)]
  <2>1. row \in Rows
    <3>1. work.pc = "getSwitch" /\ work.s \in Subnet
      BY <1>1, <1>3 DEF GetSwitch, WorkTypes
    <3> QED BY <1>1, <3>1 DEF RowTypes, SwitchName, Switches
  <2>2. AfterGet(row) \in {"create", "update", "statusFailed", "allocator"}
    BY <1>1 DEF AfterGet, Validated, Works, Versions
  <2>3. CASE Goto("statusFailed")
    BY <1>1, <1>3, <2>3, GotoMoves DEF GetSwitch, Steps, Serving, Deleting
  <2>4. CASE work' = [work EXCEPT !.pc = AfterGet(row), !.row = IF AfterGet(row) = "update" THEN row ELSE NoRow]
    <3> HIDE DEF row
    <3>1. /\ work' \in Works /\ work'.pc = AfterGet(row) /\ work'.s = work.s /\ work'.obj = work.obj
          /\ work'.behind = work.behind
      BY <1>1, <2>1, <2>2, <2>4, NullsTyped DEF Works, Steps
    <3>2. work.obj = [work.obj EXCEPT !.phase = work.obj.phase]
      BY <1>1 DEF Works, Versions
    <3>3. work.pc = "getSwitch"
      BY <1>3 DEF GetSwitch
    <3> QED BY <2>2, <3>1, <3>2, <3>3 DEF Moved, Serving, Deleting
  <2> QED BY <1>3, <2>3, <2>4 DEF GetSwitch
<1>4. CASE UpdateSwitch
  <2>1. Forget("allocator") \/ Forget("statusFailed")
    BY <1>4 DEF UpdateSwitch, Transact
  <2> QED BY <1>1, <1>4, <2>1, GotoMoves DEF UpdateSwitch, Steps, Serving, Deleting
<1>5. CASE CreateSwitch
  <2>1. Forget("allocator") \/ Forget("statusFailed")
    BY <1>5 DEF CreateSwitch, Transact
  <2> QED BY <1>1, <1>5, <2>1, GotoMoves DEF CreateSwitch, Steps, Serving, Deleting
<1>6. CASE ensureIPAllocator
  BY <1>1, <1>6, GotoMoves DEF ensureIPAllocator, Steps, Serving, Deleting
<1>7. CASE ReadAvailable
  <2> DEFINE n == Size(allocators[work.s]) - Taken(allocators[work.s])
  <2>1. n \in Nat
    <3>1. work.s \in Subnet /\ allocators[work.s] # NoPool
      BY <1>1, <1>7 DEF ReadAvailable, WorkTypes, CountsSound, Counting
    <3>2. allocators[work.s] \in Allocators
      BY <3>1 DEF IpamTypes
    <3> QED BY <3>1, <3>2, CountsTyped
  <2>2. work' = [work EXCEPT !.pc = "readUsed", !.avail = n] /\ work.pc = "readAvailable"
    BY <1>7 DEF ReadAvailable
  <2> HIDE DEF n
  <2>3. /\ work' \in Works /\ work'.pc = "readUsed" /\ work'.s = work.s /\ work'.obj = work.obj
        /\ work'.behind = work.behind
    BY <1>1, <2>1, <2>2 DEF Works, Steps
  <2>4. work.obj = [work.obj EXCEPT !.phase = work.obj.phase]
    BY <1>1 DEF Works, Versions
  <2> QED BY <2>2, <2>3, <2>4 DEF Moved, Serving, Deleting
<1>8. CASE ReadUsed
  <2> DEFINE n == Taken(allocators[work.s])
             o == [work.obj EXCEPT !.phase = "Active"]
  <2>1. n \in Nat
    <3>1. work.s \in Subnet /\ allocators[work.s] # NoPool
      BY <1>1, <1>8 DEF ReadUsed, WorkTypes, CountsSound, Counting
    <3>2. allocators[work.s] \in Allocators
      BY <3>1 DEF IpamTypes
    <3> QED BY <3>1, <3>2, CountsTyped
  <2>2. o \in Versions /\ o.phase = "Active"
    BY <1>1 DEF Works, Versions
  <2>3. work' = [work EXCEPT !.pc = "statusActive", !.obj = o, !.used = n] /\ work.pc = "readUsed"
    BY <1>1, <1>8 DEF ReadUsed, Works
  <2>4. o = [work.obj EXCEPT !.phase = o.phase]
    BY <2>2
  <2> HIDE DEF n, o
  <2>5. /\ work' \in Works /\ work'.pc = "statusActive" /\ work'.s = work.s /\ work'.obj = o
        /\ work'.behind = work.behind
    BY <1>1, <2>1, <2>2, <2>3 DEF Works, Steps
  <2> QED BY <2>3, <2>4, <2>5 DEF Moved, Serving, Deleting
<1>9. CASE updateStatusActive
  <2>1. work.pc = "statusActive"
    BY <1>9 DEF updateStatusActive
  <2>2. CASE work' = [work EXCEPT !.pc = "statusFailed", !.behind = @ \/ log' # log,
                                  !.avail = 0, !.used = 0, !.torn = FALSE]
    <3>1. /\ work' \in Works /\ work'.pc = "statusFailed" /\ work'.s = work.s /\ work'.obj = work.obj
          /\ work'.behind = (work.behind \/ log' # log)
      BY <1>1, <2>2 DEF Works, Steps
    <3>2. work.obj = [work.obj EXCEPT !.phase = work.obj.phase]
      BY <1>1 DEF Works, Versions
    <3> QED BY <2>1, <3>1, <3>2 DEF Moved, Serving, Deleting
  <2> QED BY <1>9, <2>1, <2>2 DEF updateStatusActive, Return
<1>10. CASE updateStatusFailed
  BY <1>10 DEF updateStatusFailed, Return
<1>11. CASE GetForDelete
  <2> DEFINE row == rows[SwitchName(work.s, work.obj)]
  <2>1. work.pc = "getForDelete"
    BY <1>11 DEF GetForDelete
  <2>2. row \in Rows
    BY <1>1, <2>1 DEF RowTypes, SwitchName, Switches, WorkTypes
  <2>3. CASE Goto("dropAllocator")
    BY <1>1, <2>1, <2>3, GotoMoves DEF Steps, Serving, Deleting
  <2>4. CASE work' = [work EXCEPT !.row = row, !.pc = "deleteSwitch"]
    <3> HIDE DEF row
    <3>1. /\ work' \in Works /\ work'.pc = "deleteSwitch" /\ work'.s = work.s /\ work'.obj = work.obj
          /\ work'.behind = work.behind
      BY <1>1, <2>2, <2>4 DEF Works, Steps
    <3>2. work.obj = [work.obj EXCEPT !.phase = work.obj.phase]
      BY <1>1 DEF Works, Versions
    <3> QED BY <2>1, <3>1, <3>2 DEF Moved, Serving, Deleting
  <2> QED BY <1>11, <2>1, <2>3, <2>4 DEF GetForDelete, Return
<1>12. CASE DeleteSwitch
  <2>1. Forget("dropAllocator") \/ work' = Idle
    BY <1>12 DEF DeleteSwitch, Return
  <2> QED BY <1>1, <1>12, <2>1, GotoMoves DEF DeleteSwitch, Steps, Serving, Deleting
<1>13. CASE DropAllocator
  <2>1. Goto("removeFinalizer") \/ work' = Idle
    BY <1>13 DEF DropAllocator, Return
  <2> QED BY <1>1, <1>13, <2>1, GotoMoves DEF DropAllocator, Steps, Serving, Deleting
<1>14. CASE RemoveFinalizer
  BY <1>14 DEF RemoveFinalizer, Return
<1> QED BY <1>2, <1>3, <1>4, <1>5, <1>6, <1>7, <1>8, <1>9, <1>10, <1>11, <1>12, <1>13, <1>14 DEF Worker

-----------------------------------------------------------------------------
(* Every step keeps the types.                                             *)

\* A new version is written, the cache moves on or starts again, or the versions
\* stay.
LEMMA LogSteps ==
  ASSUME Types, [Next]_vars
  PROVE  \/ UNCHANGED log
         \/ \E s \in Subnet, v \in Versions : Write(s, v)
         \/ \E s \in Subnet : Deliver(s)
         \/ Restart
<1> USE DEF Types
<1> DEFINE G == \/ UNCHANGED log
                \/ \E s \in Subnet, v \in Versions : Write(s, v)
                \/ \E s \in Subnet : Deliver(s)
                \/ Restart
<1> SUFFICES G
  OBVIOUS
<1>0. work \in Works
  BY DEF WorkTypes
<1>1. ASSUME NEW s \in Subnet, CreateSubnet(s) PROVE G
  <2>1. PICK ext \in BOOLEAN, c \in DOMAIN PoolOf :
          UserWrites(s, [Absent EXCEPT !.uid = spent.births + 1, !.ext = ext, !.cidr = c])
    BY <1>1 DEF CreateSubnet
  <2>2. spent.births + 1 \in Nat
    BY DEF CountTypes
  <2>3. [Absent EXCEPT !.uid = spent.births + 1, !.ext = ext, !.cidr = c] \in Versions
    BY <2>2, NullsTyped DEF Versions
  <2> QED BY <2>1, <2>3 DEF UserWrites
<1>2. ASSUME NEW s \in Subnet, EditSubnet(s) PROVE G
  <2>1. PICK c \in DOMAIN PoolOf : UserWrites(s, [Server(s) EXCEPT !.cidr = c])
    BY <1>2 DEF EditSubnet
  <2>2. [Server(s) EXCEPT !.cidr = c] \in Versions
    BY VersionsTyped DEF Versions
  <2> QED BY <2>1, <2>2 DEF UserWrites
<1>3. ASSUME NEW s \in Subnet, DeleteSubnet(s) PROVE G
  <2>1. [Server(s) EXCEPT !.del = TRUE] \in Versions
    BY VersionsTyped DEF Versions
  <2> QED BY <1>3, <2>1 DEF DeleteSubnet, UserWrites
<1>4. ASSUME NEW s \in Subnet,
             Deliver(s) \/ BackoffExpires(s) \/ Reconcile(s) \/ GetAllocator(s)
      PROVE  G
  BY <1>4 DEF BackoffExpires, Reconcile, GetAllocator
<1>5. ASSUME NEW p \in Pods, AllocateNext(p) \/ Release(p) PROVE G
  BY <1>5 DEF AllocateNext, Release
<1>6. CASE Worker
  <2>1. ASSUME NEW v \in Versions, NEW ok \in BOOLEAN, Update(v, ok), work.pc # "idle" PROVE G
    BY <2>1, UpdateWrites DEF WorkTypes
  <2>2. CASE AddFinalizer
    <3>1. [work.obj EXCEPT !.fin = TRUE] \in Versions /\ work.pc # "idle"
      BY <1>0, <2>2 DEF Works, Versions, AddFinalizer
    <3> QED BY <2>1, <2>2, <3>1 DEF AddFinalizer
  <2>3. CASE updateStatusActive
    <3>1. work.obj \in Versions /\ work.pc # "idle"
      BY <1>0, <2>3 DEF Works, updateStatusActive
    <3> QED BY <2>1, <2>3, <3>1 DEF updateStatusActive
  <2>4. CASE updateStatusFailed
    <3>1. [work.obj EXCEPT !.phase = "Failed"] \in Versions /\ work.pc # "idle"
      BY <1>0, <2>4 DEF Works, Versions, updateStatusFailed
    <3> QED BY <2>1, <2>4, <3>1 DEF updateStatusFailed
  <2>5. CASE RemoveFinalizer
    <3>1. [work.obj EXCEPT !.fin = FALSE] \in Versions /\ work.pc # "idle"
      BY <1>0, <2>5 DEF Works, Versions, RemoveFinalizer
    <3> QED BY <2>1, <2>5, <3>1 DEF RemoveFinalizer
  <2>6. CASE GetSwitch \/ UpdateSwitch \/ CreateSwitch \/ ensureIPAllocator \/ ReadAvailable
             \/ ReadUsed \/ GetForDelete \/ DeleteSwitch \/ DropAllocator
    BY <2>6 DEF GetSwitch, UpdateSwitch, CreateSwitch, ensureIPAllocator, ReadAvailable,
                ReadUsed, GetForDelete, DeleteSwitch, DropAllocator
  <2> QED BY <1>6, <2>2, <2>3, <2>4, <2>5, <2>6 DEF Worker
<1>7. CASE ZStackWrites \/ Restart
  BY <1>7 DEF ZStackWrites
<1>8. CASE UNCHANGED vars
  BY <1>8 DEF vars
<1> QED BY <1>1, <1>2, <1>3, <1>4, <1>5, <1>6, <1>7, <1>8 DEF Next

\* Versions written are versions, and the log keeps one.
LEMMA LogTypesKept ==
  ASSUME Types, [Next]_vars
  PROVE  LogTypes'
<1> USE DEF Types
<1>1. CASE UNCHANGED log
  BY <1>1 DEF LogTypes
<1>2. ASSUME NEW s \in Subnet, NEW v \in Versions, Write(s, v) PROVE LogTypes'
  BY <1>2, WriteAppends
<1>3. ASSUME NEW s \in Subnet, Deliver(s) PROVE LogTypes'
  BY <1>3, DeliverMoves
<1>4. CASE Restart
  BY <1>4, RestartLists
<1> QED BY <1>1, <1>2, <1>3, <1>4, LogSteps

\* Births are counted by CreateSubnet, ZStack's writes by ZStackWrites.
LEMMA CountsGrow ==
  ASSUME Types, [Next]_vars
  PROVE  /\ CountTypes'
         /\ spent'.births = spent.births \/ \E s \in Subnet : CreateSubnet(s)
         /\ spent'.births >= spent.births
         /\ spent'.foreign = spent.foreign \/ ZStackWrites
<1> USE DEF Types
<1> DEFINE G == /\ CountTypes'
                /\ spent'.births = spent.births \/ \E s \in Subnet : CreateSubnet(s)
                /\ spent'.births >= spent.births
                /\ spent'.foreign = spent.foreign \/ ZStackWrites
<1> SUFFICES G
  OBVIOUS
<1>1. spent \in [births : Nat, foreign : Nat, other : Nat]
  BY DEF CountTypes
<1>2. CASE UNCHANGED spent
  BY <1>1, <1>2 DEF CountTypes
<1>3. CASE Upset("other")
  <2>1. spent' = [spent EXCEPT !.other = @ + 1]
    BY <1>1, <1>3 DEF Upset
  <2> QED BY <1>1, <2>1 DEF CountTypes
<1>4. CASE ZStackWrites
  <2>1. spent' = [spent EXCEPT !.foreign = @ + 1]
    BY <1>1, <1>4 DEF Upset, ZStackWrites
  <2> QED BY <1>1, <1>4, <2>1 DEF CountTypes
<1>5. ASSUME NEW s \in Subnet, CreateSubnet(s) PROVE G
  <2>1. spent' = [spent EXCEPT !.births = @ + 1]
    BY <1>5 DEF CreateSubnet
  <2> QED BY <1>1, <1>5, <2>1 DEF CountTypes
<1>6. CASE Worker
  <2>1. ASSUME NEW v, NEW ok \in BOOLEAN, Update(v, ok) PROVE UNCHANGED spent \/ Fails
    BY <2>1, UpdateWrites
  <2>2. UNCHANGED spent \/ Fails
    <3>1. CASE AddFinalizer \/ updateStatusFailed \/ RemoveFinalizer
      BY <2>1, <3>1 DEF AddFinalizer, updateStatusFailed, RemoveFinalizer
    <3>2. CASE updateStatusActive
      BY <2>1, <3>2 DEF updateStatusActive
    <3>3. CASE GetSwitch \/ GetForDelete \/ DeleteSwitch
      BY <3>3 DEF GetSwitch, GetForDelete, DeleteSwitch
    <3>4. CASE UpdateSwitch \/ CreateSwitch
      BY <3>4 DEF UpdateSwitch, CreateSwitch, Transact
    <3>5. CASE ensureIPAllocator \/ ReadAvailable \/ ReadUsed \/ DropAllocator
      BY <3>5 DEF ensureIPAllocator, ReadAvailable, ReadUsed, DropAllocator
    <3> QED BY <1>6, <3>1, <3>2, <3>3, <3>4, <3>5 DEF Worker
  <2> QED BY <1>2, <1>3, <2>2 DEF Fails
<1>7. CASE Restart
  BY <1>3, <1>7 DEF Restart
<1>8. ASSUME NEW s \in Subnet, EditSubnet(s) \/ DeleteSubnet(s) PROVE G
  BY <1>2, <1>3, <1>8 DEF EditSubnet, DeleteSubnet
<1>9. ASSUME NEW s \in Subnet,
             Deliver(s) \/ BackoffExpires(s) \/ Reconcile(s) \/ GetAllocator(s)
      PROVE  G
  BY <1>2, <1>9 DEF Deliver, BackoffExpires, Reconcile, GetAllocator
<1>10. ASSUME NEW p \in Pods, AllocateNext(p) \/ Release(p) PROVE G
  BY <1>2, <1>10 DEF AllocateNext, Release
<1>11. CASE UNCHANGED vars
  BY <1>2, <1>11 DEF vars
<1> QED BY <1>4, <1>5, <1>6, <1>7, <1>8, <1>9, <1>10, <1>11 DEF Next

\* The worker requeues the subnet it works on, if any.
LEMMA WorkerRequeues ==
  ASSUME Types, Worker
  PROVE  /\ UNCHANGED queue /\ backoff' \in {backoff, backoff \cup {work.s}}
         /\ \/ backoff' = backoff \cup {work.s}
            \/ work' # Idle
            \/ work.pc \in {"statusActive", "dropAllocator", "removeFinalizer"}
<1>0. work \in Works /\ Idle.pc = "idle"
  BY NullsTyped DEF Types, WorkTypes
<1>1. CASE AddFinalizer
  BY <1>1 DEF AddFinalizer, Return
<1>2. CASE updateStatusFailed
  BY <1>2 DEF updateStatusFailed, Return
<1>3. CASE RemoveFinalizer
  BY <1>3 DEF RemoveFinalizer, Return
<1>4. CASE updateStatusActive
  BY <1>4 DEF updateStatusActive, Return
<1>5. CASE GetSwitch
  <2>1. UNCHANGED <<queue, backoff>>
    BY <1>5 DEF GetSwitch, Goto
  <2>2. AfterGet(rows[SwitchName(work.s, work.obj)]) # "idle"
    BY <1>0 DEF AfterGet, Validated, Works, Versions
  <2>3. work' # Idle
    BY <1>0, <1>5, <2>2 DEF GetSwitch, Goto, Works
  <2> QED BY <2>1, <2>3
<1>6. CASE UpdateSwitch \/ CreateSwitch
  <2>1. Forget("allocator") \/ Forget("statusFailed")
    BY <1>6 DEF UpdateSwitch, CreateSwitch, Transact
  <2> QED BY <1>0, <2>1 DEF Forget, Works
<1>7. CASE ensureIPAllocator
  BY <1>0, <1>7 DEF ensureIPAllocator, Goto, Works
<1>8. CASE ReadAvailable
  BY <1>0, <1>8 DEF ReadAvailable, Works
<1>9. CASE ReadUsed
  BY <1>0, <1>9 DEF ReadUsed, Works
<1>10. CASE GetForDelete
  <2> DEFINE row == rows[SwitchName(work.s, work.obj)]
  <2>1. CASE Return(TRUE)
    BY <2>1 DEF Return
  <2>2. CASE Goto("dropAllocator") \/ (work' = [work EXCEPT !.row = row, !.pc = "deleteSwitch"] /\ UNCHANGED <<queue, backoff>>)
    <3> HIDE DEF row
    <3> QED BY <1>0, <2>2 DEF Goto, Works
  <2> QED BY <1>10, <2>1, <2>2 DEF GetForDelete
<1>11. CASE DeleteSwitch
  BY <1>0, <1>11 DEF DeleteSwitch, Return, Forget, Works
<1>12. CASE DropAllocator
  <2>1. work.pc = "dropAllocator" /\ (Goto("removeFinalizer") \/ Return(FALSE))
    BY <1>12 DEF DropAllocator
  <2> QED BY <2>1 DEF Goto, Return
<1> QED BY <1>1, <1>2, <1>3, <1>4, <1>5, <1>6, <1>7, <1>8, <1>9, <1>10, <1>11, <1>12 DEF Worker

\* Only subnets are queued or wait for a retry.
LEMMA QueueTypesKept ==
  ASSUME Types, [Next]_vars
  PROVE  QueueTypes'
<1> USE DEF Types, QueueTypes
<1>1. CASE Worker
  <2>1. work.s \in Subnet
    BY <1>1 DEF WorkTypes, Worker, AddFinalizer, GetSwitch, UpdateSwitch, CreateSwitch, ensureIPAllocator,
                ReadAvailable, ReadUsed, updateStatusActive, updateStatusFailed, GetForDelete,
                DeleteSwitch, DropAllocator, RemoveFinalizer
  <2> QED BY <1>1, <2>1, WorkerRequeues
<1>2. ASSUME NEW s \in Subnet, CreateSubnet(s) \/ EditSubnet(s) \/ DeleteSubnet(s) PROVE QueueTypes'
  BY <1>2 DEF CreateSubnet, EditSubnet, DeleteSubnet, UserWrites
<1>3. ASSUME NEW s \in Subnet,
             Deliver(s) \/ BackoffExpires(s) \/ Reconcile(s) \/ GetAllocator(s)
      PROVE  QueueTypes'
  BY <1>3 DEF Deliver, BackoffExpires, Reconcile, GetAllocator
<1>4. ASSUME NEW p \in Pods, AllocateNext(p) \/ Release(p) PROVE QueueTypes'
  BY <1>4 DEF AllocateNext, Release
<1>5. CASE ZStackWrites \/ Restart
  BY <1>5 DEF ZStackWrites, Restart
<1>6. CASE UNCHANGED vars
  BY <1>6 DEF vars
<1> QED BY <1>1, <1>2, <1>3, <1>4, <1>5, <1>6 DEF Next

\* What a step does to the reconcile in progress: the worker's step, a start, a
\* mark that others have written, a restart, or nothing.
Started(s) ==
  /\ Reconcile(s) /\ Exists(Cached(s))
  /\ work' = [Idle EXCEPT !.pc = FirstStep(Cached(s)), !.s = s, !.obj = Cached(s),
                          !.behind = Len(log[s]) > 1]

Marked ==
  /\ work'.pc = work.pc /\ work'.s = work.s /\ work'.obj = work.obj /\ work'.row = work.row
  /\ work'.avail = work.avail /\ work'.used = work.used
  /\ work.behind => work'.behind
  /\ work.torn => work'.torn

\* Each of the worker's steps leaves a well-formed reconcile.
LEMMA WorkSteps ==
  ASSUME Types, CountsSound, [Next]_vars
  PROVE  /\ WorkTypes'
         /\ \/ Worker /\ (work' = Idle \/ Moved)
            \/ \E s \in Subnet : Started(s) /\ work' \in Works /\ work'.s = s /\ work'.obj = Cached(s)
                                 /\ work'.pc = FirstStep(Cached(s)) /\ work.pc = "idle"
                                 /\ (work'.behind <=> Len(log[s]) > 1) /\ work'.pc # "idle"
            \/ Marked
            \/ Restart
<1> USE DEF Types
<1> DEFINE M == \/ Worker /\ (work' = Idle \/ Moved)
                \/ \E s \in Subnet : Started(s) /\ work' \in Works /\ work'.s = s /\ work'.obj = Cached(s)
                                     /\ work'.pc = FirstStep(Cached(s)) /\ work.pc = "idle"
                                     /\ (work'.behind <=> Len(log[s]) > 1) /\ work'.pc # "idle"
                \/ Marked
                \/ Restart
           G == WorkTypes' /\ M
<1> SUFFICES G
  OBVIOUS
<1>0. work \in Works /\ Idle \in Works /\ Idle.pc = "idle"
  BY NullsTyped DEF WorkTypes
<1>1. CASE UNCHANGED work
  BY <1>1 DEF WorkTypes, Marked
<1>2. CASE Worker
  <2>1. work.pc # "idle" /\ (work' = Idle \/ Moved)
    BY <1>2, WorkerMoves
  <2>2. WorkTypes'
    BY <1>0, <2>1 DEF WorkTypes, Moved
  <2> QED BY <1>2, <2>1, <2>2
<1>3. ASSUME NEW s \in Subnet, CreateSubnet(s) \/ EditSubnet(s) \/ DeleteSubnet(s) PROVE G
  <2>1. work' = IF work.s = s THEN [work EXCEPT !.behind = TRUE] ELSE work
    BY <1>3 DEF CreateSubnet, EditSubnet, DeleteSubnet, UserWrites
  <2>2. CASE work.s = s
    <3>1. work' = [work EXCEPT !.behind = TRUE]
      BY <2>1, <2>2
    <3>2. work.pc # "idle"
      BY <2>2, NullsTyped DEF WorkTypes
    <3>3. work' \in Works
      BY <1>0, <3>1 DEF Works
    <3>4. /\ work'.pc = work.pc /\ work'.s = work.s /\ work'.obj = work.obj /\ work'.row = work.row
          /\ work'.avail = work.avail /\ work'.used = work.used /\ work'.torn = work.torn
          /\ work'.behind = TRUE
      BY <1>0, <3>1 DEF Works
    <3> QED BY <3>2, <3>3, <3>4 DEF WorkTypes, Marked
  <2> QED BY <1>1, <2>1, <2>2
<1>4. ASSUME NEW s \in Subnet, Reconcile(s) PROVE G
  <2>1. CASE Exists(Cached(s))
    <3>1. work' = [Idle EXCEPT !.pc = FirstStep(Cached(s)), !.s = s, !.obj = Cached(s),
                               !.behind = Len(log[s]) > 1]
      BY <1>4, <2>1 DEF Reconcile
    <3>2. FirstStep(Cached(s)) \in Steps \ {"idle"}
      BY DEF FirstStep, Steps
    <3>3. Cached(s) \in Versions
      BY VersionsTyped
    <3>4. /\ work' \in Works /\ work'.s = s /\ work'.obj = Cached(s)
          /\ work'.pc = FirstStep(Cached(s)) /\ (work'.behind <=> Len(log[s]) > 1)
      <4> DEFINE b == Len(log[s]) > 1
      <4>1. b \in BOOLEAN
        OBVIOUS
      <4>2. work' = [Idle EXCEPT !.pc = FirstStep(Cached(s)), !.s = s, !.obj = Cached(s), !.behind = b]
        BY <3>1
      <4> HIDE DEF b
      <4>3. /\ work' \in Works /\ work'.s = s /\ work'.obj = Cached(s)
            /\ work'.pc = FirstStep(Cached(s)) /\ work'.behind = b
        BY <1>0, <3>2, <3>3, <4>1, <4>2 DEF Works
      <4> USE DEF b
      <4> QED BY <4>3
    <3>5. WorkTypes'
      BY <3>2, <3>4 DEF WorkTypes
    <3>6. Started(s) /\ work.pc = "idle"
      BY <1>4, <2>1, <3>1 DEF Started, Reconcile
    <3> QED BY <3>2, <3>4, <3>5, <3>6
  <2> QED BY <1>1, <1>4, <2>1 DEF Reconcile
<1>5. ASSUME PoolChanged PROVE G
  <2>1. CASE work.pc = "readUsed"
    <3>1. work' = [work EXCEPT !.torn = TRUE]
      BY <1>5, <2>1 DEF PoolChanged
    <3>2. work' \in Works
      BY <1>0, <3>1 DEF Works
    <3>3. /\ work'.pc = work.pc /\ work'.s = work.s /\ work'.obj = work.obj /\ work'.row = work.row
          /\ work'.avail = work.avail /\ work'.used = work.used /\ work'.torn = TRUE
          /\ work'.behind = work.behind
      BY <1>0, <3>1 DEF Works
    <3> QED BY <2>1, <3>2, <3>3 DEF WorkTypes, Marked
  <2> QED BY <1>1, <1>5, <2>1 DEF PoolChanged
<1>6. ASSUME NEW p \in Pods, AllocateNext(p) \/ Release(p) PROVE G
  <2>1. UNCHANGED work \/ PoolChanged
    BY <1>6 DEF AllocateNext, Release
  <2> QED BY <1>1, <1>5, <2>1
<1>7. ASSUME NEW s \in Subnet, Deliver(s) \/ BackoffExpires(s) \/ GetAllocator(s) PROVE G
  BY <1>1, <1>7 DEF Deliver, BackoffExpires, GetAllocator
<1>8. CASE ZStackWrites
  BY <1>1, <1>8 DEF ZStackWrites
<1>9. CASE Restart
  BY <1>0, <1>9 DEF Restart, WorkTypes
<1>10. CASE UNCHANGED vars
  BY <1>1, <1>10 DEF vars
<1> HIDE DEF G
<1> QED BY <1>2, <1>3, <1>4, <1>6, <1>7, <1>8, <1>9, <1>10 DEF Next

\* The rows a reconcile writes.
LEMMA WantedTyped ==
  ASSUME RowTypes, WorkTypes, NEW row \in Rows
  PROVE  /\ Wanted(row) \in Rows /\ Wanted(row).uuid = row.uuid /\ Wanted(row).managedBy = "ours"
         /\ Wanted(row).cidr = work.obj.cidr
<1> DEFINE b == config = "external" /\ row.vpc
<1>1. b \in BOOLEAN
  OBVIOUS
<1>2. work.obj.cidr \in DOMAIN PoolOf
  BY DEF WorkTypes, Works, Versions
<1>3. Wanted(row) = [row EXCEPT !.managedBy = "ours", !.cidr = work.obj.cidr, !.vpc = b]
  BY DEF Wanted
<1> HIDE DEF b
<1> QED BY <1>1, <1>2, <1>3 DEF Rows

\* The switches keep their type.
LEMMA RowTypesKept ==
  ASSUME Types, [Next]_vars
  PROVE  RowTypes'
<1> USE DEF Types
<1>0. /\ rows \in [Switches -> Rows] /\ NoRow \in Rows
      /\ work \in Works /\ work.row \in Rows /\ Wanted(work.row) \in Rows
      /\ Wanted(NoRow) \in Rows /\ NewUUID \in Nat
  BY NullsTyped, WantedTyped, NewUUIDIsNew DEF RowTypes, WorkTypes, Works
<1>1. UNCHANGED config
  BY DEF Next, vars, Worker, CreateSubnet, EditSubnet, DeleteSubnet, UserWrites, Deliver, BackoffExpires,
         Reconcile, GetAllocator, AllocateNext, Release, ZStackWrites, Restart, AddFinalizer, GetSwitch,
         UpdateSwitch, CreateSwitch, ensureIPAllocator, ReadAvailable, ReadUsed, updateStatusActive,
         updateStatusFailed, GetForDelete, DeleteSwitch, DropAllocator, RemoveFinalizer
<1>2. CASE UNCHANGED rows
  BY <1>1, <1>2 DEF RowTypes
<1>3. CASE UpdateSwitch
  <2> DEFINE new == [n \in Switches |-> IF rows[n].uuid = work.row.uuid
                                        THEN Wanted(work.row) ELSE rows[n]]
  <2>1. new \in [Switches -> Rows]
    BY <1>0
  <2>2. rows' = new \/ rows' = rows
    BY <1>3 DEF UpdateSwitch, Transact
  <2> HIDE DEF new
  <2> QED BY <1>0, <1>1, <2>1, <2>2 DEF RowTypes
<1>4. CASE CreateSwitch
  <2> DEFINE row == [Wanted(NoRow) EXCEPT !.uuid = NewUUID]
             new == [rows EXCEPT ![SwitchName(work.s, work.obj)] = row]
  <2>1. row \in Rows
    BY <1>0 DEF Rows
  <2>2. rows' = new \/ rows' = rows
    BY <1>4 DEF CreateSwitch, Transact
  <2>3. new \in [Switches -> Rows]
    <3> HIDE DEF row
    <3> QED BY <1>0, <2>1
  <2> HIDE DEF new
  <2> QED BY <1>0, <1>1, <2>2, <2>3 DEF RowTypes
<1>5. CASE DeleteSwitch
  <2> DEFINE new == [rows EXCEPT ![SwitchName(work.s, work.obj)] = NoRow]
  <2>1. rows' = new \/ rows' = rows
    BY <1>5 DEF DeleteSwitch
  <2>2. new \in [Switches -> Rows]
    BY <1>0
  <2> HIDE DEF new
  <2> QED BY <1>0, <1>1, <2>1, <2>2 DEF RowTypes
<1>6. CASE ZStackWrites
  <2>1. PICK n \in Switches :
          \/ /\ rows[n] = NoRow
             /\ \E m \in {"", "zstack"} :
                  rows' = [rows EXCEPT ![n] = [uuid |-> NewUUID, managedBy |-> m, vpc |-> TRUE, cidr |-> 0]]
          \/ /\ rows[n] # NoRow
             /\ \/ rows' = [rows EXCEPT ![n].vpc = TRUE, ![n].managedBy = "zstack"]
                \/ rows' = [rows EXCEPT ![n] = NoRow]
    BY <1>6 DEF ZStackWrites
  <2>2. ASSUME NEW r \in Rows, rows' = [rows EXCEPT ![n] = r] PROVE rows' \in [Switches -> Rows]
    BY <1>0, <2>2
  <2>3. \A m \in {"", "zstack"} : [uuid |-> NewUUID, managedBy |-> m, vpc |-> TRUE, cidr |-> 0] \in Rows
    BY <1>0 DEF Rows
  <2>4. [rows[n] EXCEPT !.vpc = TRUE, !.managedBy = "zstack"] \in Rows
    <3>1. rows[n] \in Rows
      BY <1>0
    <3> QED BY <3>1 DEF Rows
  <2>5. [rows EXCEPT ![n].vpc = TRUE, ![n].managedBy = "zstack"]
          = [rows EXCEPT ![n] = [rows[n] EXCEPT !.vpc = TRUE, !.managedBy = "zstack"]]
    BY <1>0
  <2>6. rows' \in [Switches -> Rows]
    BY <1>0, <2>1, <2>2, <2>3, <2>4, <2>5
  <2> QED BY <1>1, <2>6 DEF RowTypes
<1>7. UNCHANGED rows \/ UpdateSwitch \/ CreateSwitch \/ DeleteSwitch \/ ZStackWrites
  BY DEF Next, vars, Worker, CreateSubnet, EditSubnet, DeleteSubnet, UserWrites, Deliver, BackoffExpires,
         Reconcile, GetAllocator, AllocateNext, Release, Restart, AddFinalizer, GetSwitch,
         ensureIPAllocator, ReadAvailable, ReadUsed, updateStatusActive,
         updateStatusFailed, GetForDelete, DropAllocator, RemoveFinalizer
<1> QED BY <1>2, <1>3, <1>4, <1>5, <1>6, <1>7

\* The steps that change the allocators, the pointer or what pods hold.
LEMMA IpamSteps ==
  ASSUME [Next]_vars
  PROVE  \/ UNCHANGED <<ipam, holds>>
         \/ \E p \in Pods : AllocateNext(p) \/ Release(p)
         \/ \E s \in Subnet : GetAllocator(s)
         \/ ensureIPAllocator \/ DropAllocator \/ Restart
BY DEF Next, vars, ipam, Worker, CreateSubnet, EditSubnet, DeleteSubnet, UserWrites, Deliver, BackoffExpires,
       Reconcile, ZStackWrites, AddFinalizer, GetSwitch, UpdateSwitch, CreateSwitch, ReadAvailable,
       ReadUsed, updateStatusActive, updateStatusFailed, GetForDelete, DeleteSwitch, RemoveFinalizer

\* An allocator stays one of its CIDR when an address is taken or given back.
LEMMA PoolsTyped ==
  ASSUME NEW a \in Allocators, NEW ip
  PROVE  /\ a # NoPool /\ ip \in PoolOf[a.cidr] =>
              LET b == [a EXCEPT !.taken = @ \cup {ip}] IN
              b \in Allocators /\ b # NoPool /\ b.cidr = a.cidr /\ b.taken = a.taken \cup {ip}
         /\ LET b == [a EXCEPT !.taken = @ \ {ip}] IN
            /\ b \in Allocators /\ b.cidr = a.cidr /\ b.taken = a.taken \ {ip}
            /\ b # NoPool <=> a # NoPool
<1>1. CASE a = NoPool
  <2>1. a = [cidr |-> 0, taken |-> {}]
    BY <1>1 DEF NoPool
  <2>2. [a EXCEPT !.taken = @ \ {ip}] = [cidr |-> 0, taken |-> {}]
    BY <2>1
  <2> QED BY <1>1, <2>1, <2>2, NullsTyped DEF NoPool
<1>2. CASE a # NoPool
  <2>1. a.cidr \in DOMAIN PoolOf /\ a.taken \subseteq PoolOf[a.cidr] /\ a = [cidr |-> a.cidr, taken |-> a.taken]
    BY <1>2, CountsTyped
  <2>2. a.cidr # 0 /\ PoolOf[a.cidr] \subseteq Nat
    BY <2>1, SubnetAssumption
  <2>3. ASSUME NEW t \in SUBSET PoolOf[a.cidr]
        PROVE  LET b == [a EXCEPT !.taken = t]
               IN  b \in Allocators /\ b # NoPool /\ b.cidr = a.cidr /\ b.taken = t
    <3>1. [a EXCEPT !.taken = t] = [cidr |-> a.cidr, taken |-> t]
      BY <2>1
    <3>2. [cidr |-> a.cidr, taken |-> t] \in Allocators
      BY <2>1, <2>2 DEF Allocators
    <3>3. [cidr |-> a.cidr, taken |-> t] # NoPool
      BY <2>2 DEF NoPool
    <3> QED BY <3>1, <3>2, <3>3
  <2>4. [a EXCEPT !.taken = @ \ {ip}] = [a EXCEPT !.taken = a.taken \ {ip}]
        /\ [a EXCEPT !.taken = @ \cup {ip}] = [a EXCEPT !.taken = a.taken \cup {ip}]
    OBVIOUS
  <2> QED BY <1>2, <2>1, <2>3, <2>4
<1> QED BY <1>1, <1>2

-----------------------------------------------------------------------------
(* The allocators: every step keeps IpamInv.                               *)

\* What AllocateNext does: nothing, or an address of the pool in hand that was
\* free is the pod's, and taken in it.
LEMMA AllocateTakes ==
  ASSUME IpamTypes, PointerSound, NEW p \in Pods, AllocateNext(p)
  PROVE  /\ grabbed' = NoPointer /\ UNCHANGED forgotten /\ holds[p] = NoAddress
         /\ grabbed # NoPointer /\ grabbed.s \in Subnet
         /\ \/ UNCHANGED <<allocators, holds, work>>
            \/ \E ip \in Nat :
                 /\ holds' = [holds EXCEPT ![p] = [s |-> grabbed.s, ip |-> ip]]
                 /\ \/ grabbed.own # NoPool /\ UNCHANGED <<allocators, work>>
                    \/ /\ grabbed.own = NoPool /\ PoolChanged
                       /\ allocators[grabbed.s] # NoPool
                       /\ ip \in PoolOf[allocators[grabbed.s].cidr] \ allocators[grabbed.s].taken
                       /\ allocators' = [allocators EXCEPT ![grabbed.s] =
                                           [allocators[grabbed.s] EXCEPT !.taken = @ \cup {ip}]]
<1> DEFINE a == IF grabbed.own # NoPool THEN grabbed.own ELSE allocators[grabbed.s]
           free == PoolOf[a.cidr] \ a.taken
<1>1. grabbed # NoPointer /\ grabbed.s \in Subnet
  BY DEF AllocateNext, PointerSound
<1>2. a \in Allocators /\ a # NoPool
  BY <1>1 DEF IpamTypes, PointerSound
<1>3. CASE free = {}
  BY <1>1, <1>3 DEF AllocateNext
<1>4. CASE free # {}
  <2>1. a.cidr \in DOMAIN PoolOf /\ free \in SUBSET Nat
    <3> HIDE DEF a
    <3> QED BY <1>2, CountsTyped, SubnetAssumption
  <2>2. Min(free) \in free
    <3> HIDE DEF free
    <3> QED BY <1>4, <2>1, MinIsMember
  <2>3. /\ holds' = [holds EXCEPT ![p] = [s |-> grabbed.s, ip |-> Min(free)]]
        /\ IF grabbed.own # NoPool THEN UNCHANGED <<allocators, work>>
           ELSE /\ allocators' = [allocators EXCEPT ![grabbed.s].taken = @ \cup {Min(free)}]
                /\ PoolChanged
        /\ grabbed' = NoPointer /\ UNCHANGED forgotten /\ holds[p] = NoAddress
    BY <1>4 DEF AllocateNext
  <2>4. PICK ip \in Nat : ip = Min(free)
    BY <2>1, <2>2
  <2>5. CASE grabbed.own # NoPool
    BY <1>1, <2>3, <2>4, <2>5
  <2>6. CASE grabbed.own = NoPool
    <3>1. a = allocators[grabbed.s]
      BY <2>6
    <3>2. allocators' = [allocators EXCEPT ![grabbed.s] = [allocators[grabbed.s] EXCEPT !.taken = @ \cup {ip}]]
      BY <2>3, <2>4, <2>6
    <3>3. ip \in PoolOf[allocators[grabbed.s].cidr] \ allocators[grabbed.s].taken
      BY <2>2, <2>4, <3>1
    <3>4. holds' = [holds EXCEPT ![p] = [s |-> grabbed.s, ip |-> ip]]
      BY <2>3, <2>4
    <3> HIDE DEF free, a
    <3> QED BY <1>1, <1>2, <2>3, <2>6, <3>1, <3>2, <3>3, <3>4
  <2> QED BY <2>5, <2>6
<1> QED BY <1>3, <1>4

\* What Release does.
LEMMA ReleaseFrees ==
  ASSUME IpamTypes, HoldsSound, NEW p \in Pods, Release(p)
  PROVE  /\ grabbed = NoPointer /\ UNCHANGED <<grabbed, forgotten>> /\ PoolChanged
         /\ holds[p] # NoAddress /\ holds[p].s \in Subnet
         /\ holds' = [holds EXCEPT ![p] = NoAddress]
         /\ allocators' = [allocators EXCEPT ![holds[p].s] =
                             [allocators[holds[p].s] EXCEPT !.taken = @ \ {holds[p].ip}]]
<1>1. holds[p] # NoAddress /\ holds[p].s \in Subnet
  BY DEF Release, HoldsSound
<1>2. allocators' = [allocators EXCEPT ![holds[p].s].taken = @ \ {holds[p].ip}]
  BY DEF Release
<1>3. allocators' = [allocators EXCEPT ![holds[p].s] =
                       [allocators[holds[p].s] EXCEPT !.taken = @ \ {holds[p].ip}]]
  BY <1>2
<1> QED BY <1>1, <1>3 DEF Release

\* What the steps that drop allocators leave.
LEMMA DropsLeave ==
  ASSUME IpamTypes, NEW D \in SUBSET Subnet, Dropped(D)
  PROVE  /\ allocators' \in [Subnet -> Allocators]
         /\ \A s \in D : allocators'[s] = NoPool
         /\ \A s \in Subnet \ D : allocators'[s] = allocators[s]
         /\ forgotten' \in BOOLEAN
         /\ ~ forgotten' => ~ forgotten /\ \A s \in D : grabbed.s # s /\ allocators[s].taken = {}
<1>1. forgotten' <=> (forgotten \/ \E s \in D : grabbed.s = s \/ allocators[s].taken # {})
  BY DEF Dropped, IpamTypes
<1>2. forgotten' \in BOOLEAN
  BY DEF Dropped, IpamTypes
<1>3. /\ allocators' \in [Subnet -> Allocators]
      /\ \A s \in D : allocators'[s] = NoPool
      /\ \A s \in Subnet \ D : allocators'[s] = allocators[s]
  BY NullsTyped DEF Dropped, IpamTypes
<1> QED BY <1>1, <1>2, <1>3

\* A new allocator is one.
LEMMA NewPoolTyped ==
  ASSUME WorkTypes
  PROVE  NewPool \in Allocators /\ NewPool # NoPool /\ NewPool.taken = {}
<1>1. work.obj.cidr \in DOMAIN PoolOf
  BY DEF WorkTypes, Works, Versions
<1>2. work.obj.cidr # 0
  BY <1>1, SubnetAssumption
<1>3. NewPool \in Allocators /\ NewPool.taken = {} /\ NewPool.cidr = work.obj.cidr
  BY <1>1 DEF NewPool, Allocators
<1> QED BY <1>2, <1>3 DEF NoPool

\* The allocators, the pointer and what pods hold keep their types.
LEMMA IpamTypesKept ==
  ASSUME Types, PointerSound, HoldsSound, [Next]_vars
  PROVE  IpamTypes'
<1> USE DEF Types
<1>0. /\ allocators \in [Subnet -> Allocators] /\ holds \in [Pods -> Addresses] /\ forgotten \in BOOLEAN
      /\ grabbed \in [s : Subnet \cup {NoSubnet}, own : Allocators]
      /\ NoPool \in Allocators /\ NoAddress \in Addresses
      /\ NoPointer \in [s : Subnet \cup {NoSubnet}, own : Allocators]
  BY NullsTyped DEF IpamTypes
<1>1. CASE UNCHANGED <<ipam, holds>>
  BY <1>0, <1>1 DEF IpamTypes, ipam
<1>2. ASSUME NEW p \in Pods, AllocateNext(p) PROVE IpamTypes'
  <2>1. CASE UNCHANGED <<allocators, holds, work>>
    BY <1>0, <1>2, <2>1, AllocateTakes DEF IpamTypes
  <2>2. ASSUME NEW ip \in Nat, holds' = [holds EXCEPT ![p] = [s |-> grabbed.s, ip |-> ip]]
        PROVE  holds' \in [Pods -> Addresses]
    <3>1. [s |-> grabbed.s, ip |-> ip] \in Addresses
      BY <1>0 DEF Addresses
    <3> QED BY <1>0, <2>2, <3>1
  <2>3. ASSUME NEW ip \in Nat, allocators[grabbed.s] # NoPool, grabbed.s \in Subnet,
               ip \in PoolOf[allocators[grabbed.s].cidr],
               allocators' = [allocators EXCEPT ![grabbed.s] = [allocators[grabbed.s] EXCEPT !.taken = @ \cup {ip}]]
        PROVE  allocators' \in [Subnet -> Allocators]
    <3>1. [allocators[grabbed.s] EXCEPT !.taken = @ \cup {ip}] \in Allocators
      BY <1>0, <2>3, PoolsTyped
    <3> QED BY <1>0, <2>3, <3>1
  <2>4. \/ UNCHANGED <<allocators, holds, work>>
        \/ allocators' \in [Subnet -> Allocators] /\ holds' \in [Pods -> Addresses]
    BY <1>0, <1>2, <2>2, <2>3, AllocateTakes
  <2> QED BY <1>0, <1>2, <2>1, <2>4, AllocateTakes DEF IpamTypes
<1>3. ASSUME NEW p \in Pods, Release(p) PROVE IpamTypes'
  <2>1. [allocators[holds[p].s] EXCEPT !.taken = @ \ {holds[p].ip}] \in Allocators
    BY <1>0, <1>3, ReleaseFrees, PoolsTyped
  <2>2. allocators' \in [Subnet -> Allocators]
    BY <1>0, <1>3, <2>1, ReleaseFrees
  <2>3. holds' \in [Pods -> Addresses]
    BY <1>0, <1>3, ReleaseFrees
  <2> QED BY <1>0, <1>3, <2>2, <2>3, ReleaseFrees DEF IpamTypes
<1>4. ASSUME NEW s \in Subnet, GetAllocator(s) PROVE IpamTypes'
  <2>1. grabbed' = [NoPointer EXCEPT !.s = s] /\ UNCHANGED <<allocators, forgotten, holds>>
    BY <1>4 DEF GetAllocator
  <2>2. grabbed' \in [s : Subnet \cup {NoSubnet}, own : Allocators]
    BY <1>0, <2>1
  <2> QED BY <1>0, <2>1, <2>2 DEF IpamTypes
<1>5. CASE ensureIPAllocator
  <2>1. allocators' \in [Subnet -> Allocators]
    BY <1>0, <1>5, NewPoolTyped DEF ensureIPAllocator
  <2> QED BY <1>0, <1>5, <2>1 DEF ensureIPAllocator, IpamTypes
<1>6. CASE DropAllocator
  <2>1. work.s \in Subnet
    BY <1>6 DEF DropAllocator, WorkTypes
  <2>2. allocators' \in [Subnet -> Allocators] /\ forgotten' \in BOOLEAN
    BY <1>6, <2>1, DropsLeave DEF DropAllocator
  <2>3. grabbed' \in [s : Subnet \cup {NoSubnet}, own : Allocators]
    <3>1. allocators[work.s] \in Allocators
      BY <1>0, <2>1
    <3> QED BY <1>0, <1>6, <3>1 DEF DropAllocator
  <2> QED BY <1>0, <1>6, <2>2, <2>3 DEF DropAllocator, IpamTypes
<1>7. CASE Restart
  BY <1>0, <1>7, DropsLeave DEF Restart, IpamTypes
<1> QED BY <1>1, <1>2, <1>3, <1>4, <1>5, <1>6, <1>7, IpamSteps

\* All types are kept.
LEMMA TypesKept ==
  ASSUME Types, PointerSound, HoldsSound, CountsSound, [Next]_vars
  PROVE  Types'
<1>1. LogTypes' /\ QueueTypes' /\ RowTypes' /\ IpamTypes'
  BY LogTypesKept, QueueTypesKept, RowTypesKept, IpamTypesKept
<1>2. WorkTypes' /\ CountTypes'
  BY WorkSteps, CountsGrow
<1> QED BY <1>1, <1>2 DEF Types

\* The pod worker's pointer stays to an allocator that is there.
LEMMA PointerKept ==
  ASSUME Types, PointerSound, HoldsSound, [Next]_vars
  PROVE  PointerSound'
<1> USE DEF Types
<1>0. allocators \in [Subnet -> Allocators] /\ NoPointer.own = NoPool /\ NoPointer.s = NoSubnet
  BY DEF IpamTypes, NoPointer
<1>1. CASE UNCHANGED <<ipam, holds>>
  BY <1>1 DEF PointerSound, ipam
<1>2. ASSUME NEW p \in Pods, AllocateNext(p) \/ Release(p) PROVE PointerSound'
  BY <1>0, <1>2, AllocateTakes, ReleaseFrees DEF PointerSound
<1>3. ASSUME NEW s \in Subnet, GetAllocator(s) PROVE PointerSound'
  <2>1. grabbed' = [NoPointer EXCEPT !.s = s] /\ allocators' = allocators /\ allocators[s] # NoPool
    BY <1>3 DEF GetAllocator
  <2>2. grabbed'.s = s /\ grabbed'.own = NoPool
    BY <2>1 DEF NoPointer
  <2> QED BY <2>1, <2>2 DEF PointerSound
<1>4. CASE ensureIPAllocator
  <2>1. grabbed' = grabbed /\ forgotten' = forgotten
    BY <1>4 DEF ensureIPAllocator
  <2>2. \A s \in Subnet : allocators[s] # NoPool => allocators'[s] # NoPool
    BY <1>0, <1>4, NewPoolTyped DEF ensureIPAllocator
  <2> QED BY <2>1, <2>2 DEF PointerSound
<1>5. CASE DropAllocator
  <2>1. work.s \in Subnet
    BY <1>5 DEF DropAllocator, WorkTypes
  <2>2. /\ \A s \in Subnet \ {work.s} : allocators'[s] = allocators[s]
        /\ ~ forgotten' => ~ forgotten /\ grabbed.s # work.s
    BY <1>5, <2>1, DropsLeave DEF DropAllocator
  <2>3. CASE grabbed.s = work.s /\ grabbed.own = NoPool
    <3>1. grabbed' = [grabbed EXCEPT !.own = allocators[work.s]]
      BY <1>5, <2>3 DEF DropAllocator
    <3>2. grabbed'.s = grabbed.s /\ grabbed'.own = allocators[work.s]
      BY <3>1 DEF IpamTypes
    <3>3. grabbed # NoPointer
      BY <1>0, <2>1, <2>3, NullsTyped
    <3>4. allocators[work.s] # NoPool
      BY <2>3, <3>3 DEF PointerSound
    <3> QED BY <2>1, <2>2, <2>3, <3>2, <3>4 DEF PointerSound
  <2>4. CASE ~ (grabbed.s = work.s /\ grabbed.own = NoPool)
    <3>1. grabbed' = grabbed
      BY <1>5, <2>4 DEF DropAllocator
    <3> QED BY <2>2, <2>4, <3>1 DEF PointerSound
  <2> QED BY <2>3, <2>4
<1>6. CASE Restart
  BY <1>0, <1>6 DEF Restart, PointerSound
<1> QED BY <1>1, <1>2, <1>3, <1>4, <1>5, <1>6, IpamSteps

\* What pods hold stays apart and taken.
LEMMA HoldsKept ==
  ASSUME Types, PointerSound, HoldsSound, HeldIsTaken, [Next]_vars
  PROVE  HoldsSound' /\ HeldIsTaken'
<1> USE DEF Types
<1>0. /\ allocators \in [Subnet -> Allocators] /\ NoAddress.s = NoSubnet /\ NoSubnet \notin Subnet
      /\ holds \in [Pods -> Addresses]
  BY NullsTyped DEF IpamTypes, NoAddress
<1>1. CASE UNCHANGED <<ipam, holds>>
  BY <1>1 DEF HoldsSound, HeldIsTaken, ipam
<1>2. ASSUME NEW p \in Pods, AllocateNext(p) PROVE HoldsSound' /\ HeldIsTaken'
  <2>1. CASE UNCHANGED <<allocators, holds, work>>
    BY <1>2, <2>1, AllocateTakes DEF HoldsSound, HeldIsTaken
  <2>2. ASSUME NEW ip \in Nat, holds' = [holds EXCEPT ![p] = [s |-> grabbed.s, ip |-> ip]],
               grabbed.own # NoPool, UNCHANGED allocators
        PROVE  HoldsSound' /\ HeldIsTaken'
    <3>1. forgotten'
      BY <1>2, <2>2, AllocateTakes DEF PointerSound
    <3>2. \A q \in Pods : holds'[q] # NoAddress => holds'[q].s \in Subnet
      BY <1>0, <1>2, <2>2, AllocateTakes DEF HoldsSound
    <3> QED BY <3>1, <3>2 DEF HoldsSound, HeldIsTaken
  <2>3. ASSUME NEW ip \in Nat, holds' = [holds EXCEPT ![p] = [s |-> grabbed.s, ip |-> ip]],
               allocators[grabbed.s] # NoPool,
               ip \in PoolOf[allocators[grabbed.s].cidr] \ allocators[grabbed.s].taken,
               allocators' = [allocators EXCEPT ![grabbed.s] =
                                [allocators[grabbed.s] EXCEPT !.taken = @ \cup {ip}]]
        PROVE  HoldsSound' /\ HeldIsTaken'
    <3>1. grabbed.s \in Subnet /\ forgotten' = forgotten /\ holds[p] = NoAddress
      BY <1>2, AllocateTakes
    <3>2. /\ \A s \in Subnet \ {grabbed.s} : allocators'[s] = allocators[s]
          /\ allocators'[grabbed.s].taken = allocators[grabbed.s].taken \cup {ip}
      BY <1>0, <2>3, <3>1, PoolsTyped
    <3>3. /\ holds'[p].s = grabbed.s /\ holds'[p].ip = ip
          /\ \A q \in Pods \ {p} : holds'[q] = holds[q]
      BY <1>0, <2>3
    <3>4. \A q \in Pods : holds'[q] # NoAddress => holds'[q].s \in Subnet
      BY <3>1, <3>3 DEF HoldsSound
    <3>5. ASSUME ~ forgotten PROVE HeldIsTaken' /\ \A q \in Pods \ {p} : holds[q] # holds'[p]
      <4>1. \A q \in Pods \ {p} : holds[q] # NoAddress =>
              holds[q].s \in Subnet /\ holds[q].ip \in allocators[holds[q].s].taken
        BY <3>5 DEF HeldIsTaken, HoldsSound
      <4>2. HeldIsTaken'
        BY <3>1, <3>2, <3>3, <4>1 DEF HeldIsTaken
      <4>3. \A q \in Pods \ {p} : holds[q] # holds'[p]
        BY <1>0, <2>3, <3>1, <3>3, <4>1
      <4> QED BY <4>2, <4>3
    <3>6. HoldsSound'
      BY <3>1, <3>3, <3>4, <3>5 DEF HoldsSound
    <3> QED BY <3>1, <3>5, <3>6 DEF HeldIsTaken
  <2> QED BY <1>2, <2>1, <2>2, <2>3, AllocateTakes
<1>3. ASSUME NEW p \in Pods, Release(p) PROVE HoldsSound' /\ HeldIsTaken'
  <2> DEFINE s == holds[p].s
  <2>1. /\ s \in Subnet /\ forgotten' = forgotten /\ holds[p] # NoAddress
        /\ holds'[p] = NoAddress /\ \A q \in Pods \ {p} : holds'[q] = holds[q]
    BY <1>0, <1>3, ReleaseFrees
  <2>2. /\ \A t \in Subnet \ {s} : allocators'[t] = allocators[t]
        /\ allocators'[s].taken = allocators[s].taken \ {holds[p].ip}
    <3>1. [allocators[s] EXCEPT !.taken = @ \ {holds[p].ip}].taken = allocators[s].taken \ {holds[p].ip}
      BY <1>0, <2>1, PoolsTyped
    <3>2. allocators' = [allocators EXCEPT ![s] = [allocators[s] EXCEPT !.taken = @ \ {holds[p].ip}]]
      BY <1>3, ReleaseFrees
    <3> HIDE DEF s
    <3> QED BY <1>0, <2>1, <3>1, <3>2
  <2>3. HoldsSound'
    BY <2>1 DEF HoldsSound
  <2>4. ASSUME ~ forgotten, NEW q \in Pods \ {p}, holds[q] # NoAddress
        PROVE  holds[q].ip \in allocators'[holds[q].s].taken
    <3>1. holds[q].s \in Subnet /\ holds[q].ip \in allocators[holds[q].s].taken /\ holds[q] # holds[p]
      BY <2>1, <2>4 DEF HeldIsTaken, HoldsSound
    <3>2. holds[q].s # holds[p].s \/ holds[q].ip # holds[p].ip
      BY <1>0, <3>1 DEF Addresses
    <3> QED BY <2>2, <3>1, <3>2
  <2> QED BY <2>1, <2>3, <2>4 DEF HeldIsTaken
<1>4. ASSUME NEW s \in Subnet, GetAllocator(s) PROVE HoldsSound' /\ HeldIsTaken'
  BY <1>4 DEF GetAllocator, HoldsSound, HeldIsTaken
<1>5. CASE ensureIPAllocator
  <2>1. holds' = holds /\ forgotten' = forgotten
    BY <1>5 DEF ensureIPAllocator
  <2>2. \A s \in Subnet : allocators[s].taken \subseteq allocators'[s].taken
    <3>1. NoPool.taken = {}
      BY DEF NoPool
    <3> QED BY <1>0, <1>5, <3>1 DEF ensureIPAllocator
  <2>3. HoldsSound'
    BY <2>1 DEF HoldsSound
  <2> QED BY <2>1, <2>2, <2>3 DEF HoldsSound, HeldIsTaken
<1>6. ASSUME NEW D \in SUBSET Subnet, Dropped(D), UNCHANGED holds PROVE HoldsSound' /\ HeldIsTaken'
  <2>1. /\ \A s \in Subnet \ D : allocators'[s] = allocators[s]
        /\ ~ forgotten' => ~ forgotten /\ \A s \in D : allocators[s].taken = {}
    BY <1>6, DropsLeave
  <2>2. HoldsSound'
    BY <1>6, <2>1 DEF HoldsSound
  <2>3. HeldIsTaken'
    BY <1>6, <2>1 DEF HoldsSound, HeldIsTaken
  <2> QED BY <2>2, <2>3
<1>7. CASE DropAllocator
  <2>1. work.s \in Subnet
    BY <1>7 DEF DropAllocator, WorkTypes
  <2> QED BY <1>6, <1>7, <2>1 DEF DropAllocator
<1>8. CASE Restart
  BY <1>6, <1>8 DEF Restart
<1> QED BY <1>1, <1>2, <1>3, <1>4, <1>5, <1>7, <1>8, IpamSteps

\* The counts: a count is read from the allocator as it is, and a pool that
\* changes between the two reads marks the reconcile.
LEMMA CountsKept ==
  ASSUME Types, PointerSound, HoldsSound, CountsSound, [Next]_vars
  PROVE  CountsSound'
<1> USE DEF Types
<1>0. /\ allocators \in [Subnet -> Allocators] /\ work \in Works
      /\ Idle.pc = "idle" /\ WorkTypes
  BY NullsTyped DEF IpamTypes, WorkTypes
<1>1. CASE work'.pc \notin Counting
  BY <1>1 DEF CountsSound, StatusAddsUp, Counting
\* A step that only marks the reconcile, with the pools as they were.
<1>2. CASE Marked /\ UNCHANGED allocators
  BY <1>2 DEF CountsSound, StatusAddsUp, Marked, Size, Taken
\* A step that changes the pool, and leaves its CIDR.
<1>3. ASSUME NEW s \in Subnet, NEW a \in Allocators, PoolChanged,
             allocators' = [allocators EXCEPT ![s] = a], a.cidr = allocators[s].cidr,
             a # NoPool <=> allocators[s] # NoPool
      PROVE  CountsSound'
  <2>1. /\ work'.pc = work.pc /\ work'.s = work.s /\ work'.avail = work.avail /\ work'.used = work.used
        /\ work.torn => work'.torn
        /\ work.pc = "readUsed" => work'.torn
    BY <1>0, <1>3 DEF PoolChanged, Works
  <2>2. \A t \in Subnet : /\ allocators'[t].cidr = allocators[t].cidr
                          /\ allocators'[t] # NoPool <=> allocators[t] # NoPool
    BY <1>0, <1>3
  <2>3. work.pc \in Counting => work.s \in Subnet
    BY DEF Counting, WorkTypes
  <2> QED BY <2>1, <2>2, <2>3 DEF CountsSound, StatusAddsUp, Size, Counting
<1>4. ASSUME NEW p \in Pods, AllocateNext(p) PROVE CountsSound'
  <2>1. UNCHANGED <<allocators, work>> => CountsSound'
    BY DEF CountsSound, StatusAddsUp, Size, Taken
  <2>2. ASSUME NEW ip \in Nat, PoolChanged, allocators[grabbed.s] # NoPool, grabbed.s \in Subnet,
               ip \in PoolOf[allocators[grabbed.s].cidr] \ allocators[grabbed.s].taken,
               allocators' = [allocators EXCEPT ![grabbed.s] =
                                [allocators[grabbed.s] EXCEPT !.taken = @ \cup {ip}]]
        PROVE  CountsSound'
    <3> DEFINE a == [allocators[grabbed.s] EXCEPT !.taken = @ \cup {ip}]
    <3>1. a \in Allocators /\ a # NoPool /\ a.cidr = allocators[grabbed.s].cidr
      BY <1>0, <2>2, PoolsTyped
    <3>2. allocators' = [allocators EXCEPT ![grabbed.s] = a]
      BY <2>2
    <3> HIDE DEF a
    <3> QED BY <1>3, <2>2, <3>1, <3>2
  <2> QED BY <1>4, <2>1, <2>2, AllocateTakes
<1>5. ASSUME NEW p \in Pods, Release(p) PROVE CountsSound'
  <2> DEFINE s == holds[p].s
             a == [allocators[s] EXCEPT !.taken = @ \ {holds[p].ip}]
  <2>1. /\ s \in Subnet /\ PoolChanged /\ allocators' = [allocators EXCEPT ![s] = a]
    BY <1>5, ReleaseFrees
  <2>2. a \in Allocators /\ a.cidr = allocators[s].cidr /\ (a # NoPool <=> allocators[s] # NoPool)
    BY <1>0, <2>1, PoolsTyped
  <2> HIDE DEF a, s
  <2> QED BY <1>3, <2>1, <2>2
<1>6. CASE Worker
  <2>1. CASE ensureIPAllocator
    <3>1. work.s \in Subnet /\ work'.pc = "readAvailable" /\ work'.s = work.s
      BY <1>0, <2>1 DEF ensureIPAllocator, WorkTypes, Goto, Works
    <3>2. allocators'[work.s] # NoPool
      BY <1>0, <2>1, <3>1, NewPoolTyped DEF ensureIPAllocator
    <3> QED BY <3>1, <3>2 DEF CountsSound, StatusAddsUp
  <2>2. CASE ReadAvailable
    <3> DEFINE a == allocators[work.s]
    <3>1. work.s \in Subnet /\ a # NoPool
      BY <2>2 DEF ReadAvailable, WorkTypes, CountsSound, Counting
    <3>2. Size(a) \in Nat /\ Taken(a) \in Nat
      BY <1>0, <3>1, CountsTyped
    <3>3. work' = [work EXCEPT !.pc = "readUsed", !.avail = Size(a) - Taken(a)] /\ UNCHANGED allocators
      BY <2>2 DEF ReadAvailable, ipam
    <3>4. work'.pc = "readUsed" /\ work'.s = work.s /\ work'.avail = Size(a) - Taken(a)
      BY <1>0, <3>3 DEF Works
    <3>5. Size(a)' = Size(a) /\ Taken(a)' = Taken(a) /\ a' = a
      BY <3>3, <3>4 DEF Size, Taken
    <3>6. work'.avail + Taken(a) = Size(a)
      BY <3>2, <3>4
    <3> QED BY <3>1, <3>3, <3>4, <3>5, <3>6 DEF CountsSound, StatusAddsUp
  <2>3. CASE ReadUsed
    <3> DEFINE a == allocators[work.s]
    <3>1. work.s \in Subnet /\ a # NoPool /\ (~ work.torn => work.avail + Taken(a) = Size(a))
      BY <2>3 DEF ReadUsed, WorkTypes, CountsSound, Counting
    <3>2. work' = [work EXCEPT !.pc = "statusActive", !.obj = [work.obj EXCEPT !.phase = "Active"],
                               !.used = Taken(a)] /\ UNCHANGED allocators
      BY <1>0, <2>3 DEF ReadUsed, ipam, Works
    <3>3. /\ work'.pc = "statusActive" /\ work'.s = work.s /\ work'.avail = work.avail
          /\ work'.used = Taken(a) /\ work'.torn = work.torn
      BY <1>0, <3>2 DEF Works
    <3>4. Size(a)' = Size(a) /\ a' = a
      BY <3>2, <3>3 DEF Size
    <3> QED BY <3>1, <3>2, <3>3, <3>4 DEF CountsSound, StatusAddsUp
  <2>4. CASE \/ AddFinalizer \/ updateStatusFailed \/ RemoveFinalizer \/ updateStatusActive
             \/ UpdateSwitch \/ CreateSwitch \/ DeleteSwitch \/ DropAllocator
    <3>1. work' = Idle \/ work'.pc \notin Counting
      BY <1>0, <2>4 DEF AddFinalizer, updateStatusFailed, RemoveFinalizer, updateStatusActive, UpdateSwitch,
          CreateSwitch, DeleteSwitch, DropAllocator, Return, Goto, Forget, Transact, Works, Counting
    <3> QED BY <1>0, <1>1, <3>1 DEF Counting
  <2>5. CASE GetSwitch
    <3>1. AfterGet(rows[SwitchName(work.s, work.obj)]) \notin Counting
      BY <1>0 DEF AfterGet, Validated, Works, Versions, Counting
    <3>2. work'.pc \notin Counting
      BY <1>0, <2>5, <3>1 DEF GetSwitch, Goto, Works, Counting
    <3> QED BY <1>1, <3>2
  <2>6. CASE GetForDelete
    <3> DEFINE row == rows[SwitchName(work.s, work.obj)]
    <3>1. \/ Goto("dropAllocator") \/ Return(TRUE)
          \/ work' = [work EXCEPT !.row = row, !.pc = "deleteSwitch"]
      BY <2>6 DEF GetForDelete
    <3> HIDE DEF row
    <3>2. work'.pc \notin Counting
      BY <1>0, <3>1 DEF Goto, Return, Works, Counting
    <3> QED BY <1>1, <3>2
  <2> QED BY <1>6, <2>1, <2>2, <2>3, <2>4, <2>5, <2>6 DEF Worker
<1>7. ASSUME NEW s \in Subnet, Started(s) PROVE CountsSound'
  <2>1. work'.pc \notin Counting
    <3>1. FirstStep(Cached(s)) \notin Counting
      BY DEF FirstStep, Counting
    <3>2. work'.pc = FirstStep(Cached(s))
      BY <1>7, NullsTyped DEF Started, Works
    <3> QED BY <3>1, <3>2
  <2> QED BY <1>1, <2>1
<1>8. CASE Restart
  BY <1>0, <1>1, <1>8 DEF Restart, Counting
<1>9. CASE UNCHANGED <<ipam, holds>>
  <2>1. CASE Marked
    BY <1>2, <1>9, <2>1 DEF ipam
  <2> QED BY <1>6, <1>7, <1>8, <1>9, <2>1, WorkSteps
<1>10. ASSUME NEW s \in Subnet, GetAllocator(s) PROVE CountsSound'
  BY <1>10 DEF GetAllocator, CountsSound, StatusAddsUp, Size, Taken
<1> QED BY <1>4, <1>5, <1>6, <1>8, <1>9, <1>10, IpamSteps DEF Worker

\* The part of the invariant about the allocators is kept.
LEMMA IpamInvKept ==
  ASSUME Types, IpamInv, [Next]_vars
  PROVE  IpamInv'
BY PointerKept, HoldsKept, CountsKept DEF IpamInv

-----------------------------------------------------------------------------
(* The versions: every step keeps LogInv.                                  *)

\* A version written by somebody else after u: the API server keeps a finalizer,
\* a deletion stays, and another life has a UID of its own.
UserFollows(u, w) ==
  /\ u.fin => Same(u, w) /\ w.fin
  /\ w.uid = u.uid /\ u.del => w.del
  /\ w.uid # u.uid => w.uid = 0 \/ w.uid > spent.births

\* What a user or the API server writes follows what was there.
LEMMA UserVersions ==
  ASSUME Types, NEW s \in Subnet, HistorySound(s),
         CreateSubnet(s) \/ EditSubnet(s) \/ DeleteSubnet(s)
  PROVE  \E v \in Versions : /\ UserWrites(s, v) /\ UserFollows(Server(s), Stored(v))
                             /\ VersionSound(Stored(v), spent'.births)
                             /\ v.phase = Server(s).phase \/ v.phase = ""
<1> USE DEF Types
<1>1. Server(s) \in Versions /\ VersionSound(Server(s), spent.births)
  <2>1. Len(log[s]) \in DOMAIN log[s]
    BY VersionsTyped
  <2> QED BY <2>1, VersionsTyped DEF HistorySound, Server
<1>2. spent.births \in Nat
  BY DEF CountTypes
<1>3. CASE CreateSubnet(s)
  <2>1. PICK ext \in BOOLEAN, c \in DOMAIN PoolOf :
          UserWrites(s, [Absent EXCEPT !.uid = spent.births + 1, !.ext = ext, !.cidr = c])
    BY <1>3 DEF CreateSubnet
  <2> DEFINE v == [Absent EXCEPT !.uid = spent.births + 1, !.ext = ext, !.cidr = c]
  <2>2. spent.births + 1 \in Nat /\ spent'.births = spent.births + 1
    <3>1. spent' = [spent EXCEPT !.births = @ + 1]
      BY <1>3 DEF CreateSubnet
    <3> QED BY <1>2, <3>1 DEF CountTypes
  <2>3. v \in Versions /\ v.uid = spent.births + 1 /\ ~ v.del /\ ~ v.fin /\ v.phase = ""
    <3>1. Absent \in Versions /\ ~ Absent.fin /\ ~ Absent.del /\ Absent.phase = ""
      BY NullsTyped DEF Absent
    <3> QED BY <2>2, <3>1 DEF Versions
  <2>4. UserWrites(s, v)
    BY <2>1
  <2>5. ~ Exists(Server(s))
    BY <1>3 DEF CreateSubnet
  <2> HIDE DEF v
  <2>6. Stored(v) = v
    BY <2>3 DEF Stored
  <2>7. Server(s).uid = 0 /\ ~ Server(s).fin /\ ~ Server(s).del
    BY <1>1, <2>5, NullsTyped DEF Exists, VersionSound
  <2>8. UserFollows(Server(s), v) /\ VersionSound(v, spent'.births)
    <3>1. v.uid # 0 /\ v.uid > spent.births /\ v.uid <= spent'.births
      <4>1. \A n \in Nat : n + 1 # 0 /\ n + 1 > n /\ n + 1 <= n + 1
        OBVIOUS
      <4> QED BY <1>2, <2>2, <2>3, <4>1
    <3> QED BY <2>3, <2>7, <3>1 DEF UserFollows, VersionSound, Exists
  <2> QED BY <2>3, <2>4, <2>6, <2>8
<1>4. CASE EditSubnet(s)
  <2>1. PICK c \in DOMAIN PoolOf : UserWrites(s, [Server(s) EXCEPT !.cidr = c])
    BY <1>4 DEF EditSubnet
  <2> DEFINE v == [Server(s) EXCEPT !.cidr = c]
  <2>2. /\ v \in Versions /\ v.uid = Server(s).uid /\ v.ext = Server(s).ext /\ v.fin = Server(s).fin
        /\ v.del = Server(s).del /\ v.phase = Server(s).phase
    BY <1>1 DEF Versions
  <2>3. UserWrites(s, v) /\ Exists(Server(s)) /\ ~ Server(s).del
    BY <1>4, <2>1 DEF EditSubnet
  <2>4. spent'.births = spent.births
    BY <1>4 DEF EditSubnet, Upset, CountTypes
  <2> HIDE DEF v
  <2>5. Stored(v) = v
    BY <2>2, <2>3 DEF Stored
  <2>6. UserFollows(Server(s), v) /\ VersionSound(v, spent'.births)
    BY <1>1, <1>2, <2>2, <2>3, <2>4 DEF UserFollows, VersionSound, Exists, Same
  <2> QED BY <2>2, <2>3, <2>5, <2>6
<1>5. CASE DeleteSubnet(s)
  <2> DEFINE v == [Server(s) EXCEPT !.del = TRUE]
  <2>1. UserWrites(s, v) /\ Exists(Server(s)) /\ ~ Server(s).del /\ spent' = spent
    BY <1>5 DEF DeleteSubnet
  <2>2. /\ v \in Versions /\ v.uid = Server(s).uid /\ v.ext = Server(s).ext /\ v.fin = Server(s).fin
        /\ v.del /\ v.phase = Server(s).phase
    BY <1>1 DEF Versions
  <2> HIDE DEF v
  <2>3. CASE Server(s).fin
    <3>1. Stored(v) = v
      BY <2>2, <2>3 DEF Stored
    <3>2. UserFollows(Server(s), v) /\ VersionSound(v, spent'.births)
      BY <1>1, <1>2, <2>1, <2>2, <2>3 DEF UserFollows, VersionSound, Exists, Same
    <3> QED BY <2>1, <2>2, <3>1, <3>2
  <2>4. CASE ~ Server(s).fin
    <3>1. Stored(v) = Absent
      BY <2>2, <2>4 DEF Stored
    <3>2. Absent.uid = 0 /\ ~ Absent.del
      BY NullsTyped DEF Exists
    <3>3. UserFollows(Server(s), Absent) /\ VersionSound(Absent, spent'.births)
      BY <1>1, <1>2, <2>1, <2>4, <3>2 DEF UserFollows, VersionSound, Exists
    <3> QED BY <2>1, <2>2, <3>1, <3>3
  <2> QED BY <2>3, <2>4
<1> QED BY <1>3, <1>4, <1>5

\* The version a worker's step writes, over the one its copy was read from.
WorkerWrite(v) ==
  /\ Write(work.s, v) /\ ~ work.behind
  /\ \/ work.pc = "addFinalizer" /\ v = [work.obj EXCEPT !.fin = TRUE] /\ work' = Idle
     \/ work.pc = "statusActive" /\ v = work.obj
        /\ (work' = Idle \/ (work'.behind /\ work'.pc = "statusFailed" /\ work'.obj = work.obj))
     \/ work.pc = "statusFailed" /\ v = [work.obj EXCEPT !.phase = "Failed"] /\ work' = Idle
     \/ work.pc = "removeFinalizer" /\ v = [work.obj EXCEPT !.fin = FALSE] /\ work' = Idle

\* What a reconcile writes follows what was there.
LEMMA WorkerVersions ==
  ASSUME Types, Worker
  PROVE  UNCHANGED log \/ \E v \in Versions : WorkerWrite(v)
<1> USE DEF Types
<1>0. work \in Works
  BY DEF WorkTypes
<1>1. ASSUME NEW v \in Versions, NEW ok \in BOOLEAN, Update(v, ok)
      PROVE  UNCHANGED log \/ (~ work.behind /\ Write(work.s, v))
  BY <1>1, UpdateWrites
<1>2. CASE AddFinalizer
  <2>1. [work.obj EXCEPT !.fin = TRUE] \in Versions
    BY <1>0 DEF Works, Versions
  <2> QED BY <1>1, <1>2, <2>1 DEF AddFinalizer, WorkerWrite, Return
<1>3. CASE updateStatusActive
  <2>1. work.obj \in Versions /\ work.pc = "statusActive"
    BY <1>0, <1>3 DEF Works, updateStatusActive
  <2>2. CASE Update(work.obj, TRUE) /\ Return(FALSE)
    <3>1. ~ work.behind /\ Write(work.s, work.obj) /\ work' = Idle
      BY <2>2, UpdateWrites DEF Return
    <3>2. WorkerWrite(work.obj)
      BY <2>1, <3>1, Zenon DEF WorkerWrite
    <3> QED BY <2>1, <3>2, Zenon
  <2>3. CASE UNCHANGED log
    BY <2>3
  <2>4. CASE /\ Update(work.obj, FALSE)
             /\ work' = [work EXCEPT !.pc = "statusFailed", !.behind = @ \/ log' # log,
                                     !.avail = 0, !.used = 0, !.torn = FALSE]
             /\ log' # log
    <3>1. ~ work.behind /\ Write(work.s, work.obj)
      BY <1>1, <2>1, <2>4
    <3>2. work'.behind /\ work'.pc = "statusFailed" /\ work'.obj = work.obj
      BY <1>0, <2>4 DEF Works
    <3> QED BY <2>1, <3>1, <3>2 DEF WorkerWrite
  <2> QED BY <1>3, <2>2, <2>3, <2>4 DEF updateStatusActive
<1>4. CASE updateStatusFailed
  <2>1. [work.obj EXCEPT !.phase = "Failed"] \in Versions
    BY <1>0 DEF Works, Versions
  <2> QED BY <1>1, <1>4, <2>1 DEF updateStatusFailed, WorkerWrite, Return
<1>5. CASE RemoveFinalizer
  <2>1. [work.obj EXCEPT !.fin = FALSE] \in Versions
    BY <1>0 DEF Works, Versions
  <2> QED BY <1>1, <1>5, <2>1 DEF RemoveFinalizer, WorkerWrite, Return
<1>6. CASE GetSwitch \/ UpdateSwitch \/ CreateSwitch \/ ensureIPAllocator \/ ReadAvailable
           \/ ReadUsed \/ GetForDelete \/ DeleteSwitch \/ DropAllocator
  BY <1>6 DEF GetSwitch, UpdateSwitch, CreateSwitch, ensureIPAllocator, ReadAvailable,
              ReadUsed, GetForDelete, DeleteSwitch, DropAllocator
<1> QED BY <1>2, <1>3, <1>4, <1>5, <1>6 DEF Worker

\* A version that is written keeps the finalizer on a subnet that stays, and
\* removing the finalizer is the end of one that is being deleted.
LEMMA WorkerFollows ==
  ASSUME Types, LogInv, NEW v \in Versions, WorkerWrite(v)
  PROVE  /\ work.s \in Subnet /\ Len(log[work.s]) = 1 /\ Server(work.s).uid = work.obj.uid
         /\ Server(work.s).ext = work.obj.ext /\ Server(work.s).cidr = work.obj.cidr
         /\ work.pc # "removeFinalizer" =>
              /\ Stored(v) = v /\ v.fin /\ ~ v.del /\ ~ Server(work.s).del /\ v.cidr = work.obj.cidr
              /\ Same(Server(work.s), v) /\ Exists(v) /\ v.uid = work.obj.uid
         /\ work.pc = "removeFinalizer" =>
              /\ Stored(v) = Absent /\ Server(work.s).del /\ Server(work.s).uid # 0
         /\ VersionSound(Stored(v), spent.births)
<1> USE DEF Types, LogInv
<1>0. work \in Works /\ work.obj \in Versions /\ spent.births \in Nat
  BY DEF WorkTypes, Works, CountTypes
<1>1. work.s \in Subnet /\ work.pc # "idle" /\ ~ work.behind
  BY DEF WorkerWrite, WorkTypes
<1>2. CopyIsCurrent /\ Exists(work.obj) /\ work.obj.uid <= spent.births
  BY <1>1 DEF WorkSound
<1>3. Server(work.s) \in Versions
  BY <1>1, VersionsTyped
<1>4. /\ Server(work.s).uid = work.obj.uid /\ Server(work.s).ext = work.obj.ext
      /\ Server(work.s).cidr = work.obj.cidr /\ Server(work.s).fin = work.obj.fin
      /\ Server(work.s).del = work.obj.del
  BY <1>0, <1>2, <1>3 DEF CopyIsCurrent, Versions
<1>5. CASE work.pc # "removeFinalizer"
  <2>1. ~ work.obj.del /\ (work.pc # "addFinalizer" => work.obj.fin)
    BY <1>5 DEF WorkerWrite, WorkSound, Serving
  <2>2. /\ v.uid = work.obj.uid /\ v.ext = work.obj.ext /\ v.cidr = work.obj.cidr /\ ~ v.del /\ v.fin
    BY <1>0, <1>5, <2>1 DEF WorkerWrite, Versions
  <2> QED BY <1>1, <1>2, <1>4, <1>5, <2>1, <2>2
          DEF Stored, Same, Exists, VersionSound, CopyIsCurrent
<1>6. CASE work.pc = "removeFinalizer"
  <2>1. work.obj.del
    BY <1>6 DEF WorkSound, Deleting
  <2>2. v = [work.obj EXCEPT !.fin = FALSE]
    BY <1>6 DEF WorkerWrite
  <2>3. v.del /\ ~ v.fin
    BY <1>0, <2>1, <2>2 DEF Versions
  <2>4. VersionSound(Absent, spent.births)
    BY <1>0, NullsTyped DEF VersionSound, Exists
  <2> QED BY <1>1, <1>2, <1>4, <1>6, <2>1, <2>3, <2>4 DEF Stored, CopyIsCurrent, Exists
<1> QED BY <1>5, <1>6

\* A history stays sound when a version is added that is sound beside each.
LEMMA HistoryGrows ==
  ASSUME LogTypes, NEW s \in Subnet, NEW v \in Versions, HistorySound(s), Write(s, v),
         spent.births \in Nat, spent'.births \in Nat, spent'.births >= spent.births,
         VersionSound(Stored(v), spent'.births),
         \A i \in DOMAIN log[s] :
           /\ log[s][i].fin /\ ~ log[s][i].del => Same(log[s][i], Stored(v)) /\ Stored(v).fin
           /\ log[s][i].del /\ log[s][i].uid = Stored(v).uid => Stored(v).del
  PROVE  HistorySound(s)'
<1> DEFINE w == Stored(v)
           n == Len(log[s]) + 1
<1>1. /\ DOMAIN log'[s] = 1 .. n /\ log'[s][n] = w
      /\ \A i \in DOMAIN log[s] : log'[s][i] = log[s][i]
  BY WriteAppends
<1>2. Len(log[s]) \in Nat /\ DOMAIN log[s] = 1 .. Len(log[s]) /\ DOMAIN log[s] = 1 .. (n - 1)
  BY VersionsTyped
<1>3. VersionSound(w, spent'.births)
  OBVIOUS
<1>4. \A i \in DOMAIN log[s] : VersionSound(log[s][i], spent.births) /\ VersionSound(log'[s][i], spent'.births)
  <2> SUFFICES ASSUME NEW i \in DOMAIN log[s]
               PROVE  VersionSound(log[s][i], spent.births) /\ VersionSound(log'[s][i], spent'.births)
    OBVIOUS
  <2>1. VersionSound(log[s][i], spent.births) /\ log'[s][i] = log[s][i] /\ log[s][i].uid \in Nat
    <3>1. log[s][i] \in Versions
      BY VersionsTyped
    <3>2. i <= i
      BY <1>2
    <3> QED BY <1>1, <3>1, <3>2 DEF HistorySound, Versions
  <2> QED BY <2>1 DEF VersionSound, Exists
<1>5. ASSUME NEW i \in 1 .. n, NEW j \in 1 .. n, i <= j
      PROVE  /\ VersionSound(log'[s][i], spent'.births)
             /\ log'[s][i].fin /\ ~ log'[s][i].del => Same(log'[s][i], log'[s][j]) /\ log'[s][j].fin
             /\ log'[s][i].del /\ log'[s][i].uid = log'[s][j].uid => log'[s][j].del
  <2> HIDE DEF w
  <2>1. CASE j # n
    <3>1. i \in DOMAIN log[s] /\ j \in DOMAIN log[s]
      BY <1>2, <1>5, <2>1
    <3> QED BY <1>1, <1>4, <1>5, <3>1 DEF HistorySound
  <2>2. CASE i = n
    <3>1. j = n
      BY <1>2, <1>5, <2>2
    <3> QED BY <1>1, <1>3, <2>2, <3>1 DEF Same
  <2>3. CASE j = n /\ i # n
    <3>1. i \in DOMAIN log[s]
      BY <1>2, <1>5, <2>3
    <3> QED BY <1>1, <1>4, <2>3, <3>1 DEF w
  <2> QED BY <2>1, <2>2, <2>3
<1> HIDE DEF n, w
<1> QED BY <1>1, <1>5 DEF HistorySound

\* Where a change of the versions comes from.
LEMMA LogCauses ==
  ASSUME Types, [Next]_vars
  PROVE  \/ UNCHANGED log
         \/ \E s \in Subnet : CreateSubnet(s) \/ EditSubnet(s) \/ DeleteSubnet(s)
         \/ Worker /\ \E v \in Versions : WorkerWrite(v)
         \/ \E s \in Subnet : Deliver(s)
         \/ Restart
<1>1. CASE Worker
  BY <1>1, WorkerVersions
<1>2. CASE UNCHANGED vars
  BY <1>2 DEF vars
<1>3. ASSUME NEW s \in Subnet, BackoffExpires(s) \/ Reconcile(s) \/ GetAllocator(s) PROVE UNCHANGED log
  BY <1>3 DEF BackoffExpires, Reconcile, GetAllocator
<1>4. ASSUME NEW p \in Pods, AllocateNext(p) \/ Release(p) PROVE UNCHANGED log
  BY <1>4 DEF AllocateNext, Release
<1>5. ZStackWrites => UNCHANGED log
  BY DEF ZStackWrites
<1> QED BY <1>1, <1>2, <1>3, <1>4, <1>5 DEF Next

\* A history that gets no version stays sound.
LEMMA HistoryStays ==
  ASSUME LogTypes, NEW s \in Subnet, HistorySound(s), log'[s] = log[s],
         spent.births \in Nat, spent'.births \in Nat, spent'.births >= spent.births
  PROVE  HistorySound(s)'
<1>1. \A i \in DOMAIN log[s] : log[s][i].uid \in Nat
  BY VersionsTyped DEF Versions
<1>2. \A i \in DOMAIN log[s] : VersionSound(log[s][i], spent.births) => VersionSound(log[s][i], spent'.births)
  <2> SUFFICES ASSUME NEW i \in DOMAIN log[s], VersionSound(log[s][i], spent.births)
               PROVE  VersionSound(log[s][i], spent'.births)
    OBVIOUS
  <2> QED BY <1>1 DEF VersionSound
<1> QED BY <1>2 DEF HistorySound

\* What a sound history says of the newest version and each before.
LEMMA HistoryEnds ==
  ASSUME LogTypes, NEW s \in Subnet, HistorySound(s), NEW i \in DOMAIN log[s]
  PROVE  /\ VersionSound(log[s][i], spent.births) /\ log[s][i] \in Versions
         /\ log[s][i].fin /\ ~ log[s][i].del => Same(log[s][i], Server(s)) /\ Server(s).fin
         /\ log[s][i].del /\ log[s][i].uid = Server(s).uid => Server(s).del
         /\ 1 \in DOMAIN log[s] /\ Len(log[s]) \in DOMAIN log[s]
<1>1. /\ i <= Len(log[s]) /\ Len(log[s]) \in DOMAIN log[s] /\ log[s][i] \in Versions
      /\ Server(s) = log[s][Len(log[s])] /\ 1 \in DOMAIN log[s] /\ i <= i
  BY VersionsTyped DEF Server
<1> QED BY <1>1 DEF HistorySound

\* The versions still to be seen stay consistent with each other.
LEMMA HistoryKept ==
  ASSUME Types, LogInv, [Next]_vars, NEW t \in Subnet
  PROVE  HistorySound(t)'
<1> USE DEF Types
<1>0. /\ HistorySound(t) /\ \A s \in Subnet : HistorySound(s)
      /\ spent.births \in Nat /\ spent'.births \in Nat /\ spent'.births >= spent.births
  BY CountsGrow DEF LogInv, CountTypes
<1>1. CASE log'[t] = log[t]
  BY <1>0, <1>1, HistoryStays
<1>2. ASSUME CreateSubnet(t) \/ EditSubnet(t) \/ DeleteSubnet(t) PROVE HistorySound(t)'
  <2>1. PICK v \in Versions : /\ UserWrites(t, v) /\ UserFollows(Server(t), Stored(v))
                              /\ VersionSound(Stored(v), spent'.births)
    BY <1>0, <1>2, UserVersions
  <2>2. ASSUME NEW i \in DOMAIN log[t]
        PROVE  /\ log[t][i].fin /\ ~ log[t][i].del => Same(log[t][i], Stored(v)) /\ Stored(v).fin
               /\ log[t][i].del /\ log[t][i].uid = Stored(v).uid => Stored(v).del
    <3>1. /\ VersionSound(log[t][i], spent.births) /\ log[t][i] \in Versions
          /\ log[t][i].fin /\ ~ log[t][i].del => Same(log[t][i], Server(t)) /\ Server(t).fin
          /\ log[t][i].del /\ log[t][i].uid = Server(t).uid => Server(t).del
      BY <1>0, HistoryEnds
    <3>2. /\ log[t][i].uid \in Nat /\ log[t][i].uid <= spent.births
          /\ log[t][i].uid = 0 => ~ log[t][i].del
      BY <3>1, NullsTyped DEF VersionSound, Versions, Exists
    <3>3. log[t][i].uid = Stored(v).uid => ~ (Stored(v).uid > spent.births)
      BY <1>0, <3>2
    <3> QED BY <2>1, <3>1, <3>2, <3>3 DEF UserFollows, Same
  <2> QED BY <1>0, <2>1, <2>2, HistoryGrows DEF UserWrites
<1>3. ASSUME NEW v \in Versions, WorkerWrite(v), work.s = t PROVE HistorySound(t)'
  <2>1. /\ Len(log[t]) = 1 /\ Write(t, v) /\ VersionSound(Stored(v), spent.births)
        /\ \/ Same(Server(t), Stored(v)) /\ Stored(v).fin /\ ~ Server(t).del
           \/ Server(t).del /\ Stored(v) = Absent /\ Server(t).uid # 0
    BY <1>3, WorkerFollows DEF WorkerWrite
  <2>2. VersionSound(Stored(v), spent'.births)
    <3>1. Stored(v).uid \in Nat
      BY NullsTyped DEF Stored, Versions
    <3> QED BY <1>0, <2>1, <3>1 DEF VersionSound
  <2>3. \A i \in DOMAIN log[t] : log[t][i] = Server(t)
    BY <2>1, VersionsTyped DEF Server
  <2>4. Absent.uid = 0
    BY NullsTyped DEF Exists
  <2>5. \A i \in DOMAIN log[t] :
          /\ log[t][i].fin /\ ~ log[t][i].del => Same(log[t][i], Stored(v)) /\ Stored(v).fin
          /\ log[t][i].del /\ log[t][i].uid = Stored(v).uid => Stored(v).del
    BY <2>1, <2>3, <2>4
  <2> QED BY <1>0, <2>1, <2>2, <2>5, HistoryGrows
<1>4. ASSUME NEW s \in Subnet, Deliver(s) PROVE HistorySound(t)'
  <2>1. CASE s # t
    BY <1>1, <1>4, <2>1, DeliverMoves
  <2>2. CASE s = t
    <3>1. /\ DOMAIN log'[t] = 1 .. Len(log[t]) - 1 /\ spent' = spent
          /\ \A i \in DOMAIN log'[t] : i + 1 \in DOMAIN log[t] /\ log'[t][i] = log[t][i + 1]
      BY <1>4, <2>2, DeliverMoves DEF Deliver
    <3>2. ASSUME NEW i \in DOMAIN log'[t], NEW j \in DOMAIN log'[t], i <= j
          PROVE  /\ VersionSound(log'[t][i], spent'.births)
                 /\ log'[t][i].fin /\ ~ log'[t][i].del => Same(log'[t][i], log'[t][j]) /\ log'[t][j].fin
                 /\ log'[t][i].del /\ log'[t][i].uid = log'[t][j].uid => log'[t][j].del
      <4>1. Len(log[t]) \in Nat
        BY VersionsTyped
      <4>2. i + 1 <= j + 1
        BY <3>1, <3>2, <4>1
      <4> QED BY <1>0, <3>1, <4>2 DEF HistorySound
    <3> QED BY <3>2 DEF HistorySound
  <2> QED BY <2>1, <2>2
<1>5. CASE Restart
  <2>1. log'[t] = <<Server(t)>> /\ DOMAIN log'[t] = {1} /\ log'[t][1] = Server(t)
    BY <1>5, RestartLists
  <2>2. VersionSound(Server(t), spent.births) /\ Server(t).uid \in Nat /\ Len(log[t]) \in DOMAIN log[t]
    <3>1. 1 \in DOMAIN log[t]
      BY VersionsTyped
    <3>2. Len(log[t]) \in DOMAIN log[t]
      BY VersionsTyped
    <3>3. VersionSound(Server(t), spent.births)
      BY <1>0, <3>2, HistoryEnds DEF Server
    <3> QED BY <3>2, <3>3, VersionsTyped DEF Versions
  <2>3. VersionSound(Server(t), spent'.births)
    BY <1>0, <2>2 DEF VersionSound
  <2>4. \A i \in DOMAIN log'[t] : log'[t][i] = Server(t)
    BY <2>1
  <2> QED BY <2>3, <2>4 DEF HistorySound, Same
<1>6. ASSUME NEW s \in Subnet, CreateSubnet(s) \/ EditSubnet(s) \/ DeleteSubnet(s), s # t
      PROVE  HistorySound(t)'
  <2>1. PICK v \in Versions : UserWrites(s, v)
    BY <1>0, <1>6, UserVersions
  <2> QED BY <1>1, <1>6, <2>1, WriteAppends DEF UserWrites
<1>7. ASSUME NEW v \in Versions, WorkerWrite(v), work.s # t PROVE HistorySound(t)'
  BY <1>1, <1>7, WorkerFollows, WriteAppends DEF WorkerWrite
<1> QED BY <1>1, <1>2, <1>3, <1>4, <1>5, <1>6, <1>7, LogCauses

\* The reconcile's copy.
LEMMA WorkSoundKept ==
  ASSUME Types, CountsSound, LogInv, [Next]_vars
  PROVE  WorkSound'
<1> USE DEF Types
<1>0. /\ WorkSound /\ work \in Works /\ work.obj \in Versions /\ WorkTypes
      /\ spent.births \in Nat /\ spent'.births \in Nat /\ spent'.births >= spent.births
  BY CountsGrow DEF LogInv, CountTypes, WorkTypes, Works
<1>00. \A n \in Nat : n <= spent.births => n <= spent'.births
  BY <1>0
<1>1. CASE work'.pc = "idle"
  BY <1>1 DEF WorkSound, Serving, Deleting
<1>2. CASE work' = Idle
  BY <1>1, <1>2, NullsTyped
<1>3. CASE UNCHANGED log /\ (Moved \/ Marked)
  <2>1. /\ work'.s = work.s
        /\ work'.obj.uid = work.obj.uid /\ work'.obj.ext = work.obj.ext /\ work'.obj.fin = work.obj.fin
        /\ work'.obj.del = work.obj.del /\ work'.obj = [work.obj EXCEPT !.phase = work'.obj.phase]
    <3>1. CASE Moved
      BY <1>0, <3>1 DEF Moved, Versions
    <3>2. CASE Marked
      <4>1. work.obj = [work.obj EXCEPT !.phase = work.obj.phase]
        BY <1>0 DEF Versions
      <4> QED BY <1>0, <3>2, <4>1 DEF Marked
    <3> QED BY <1>3, <3>1, <3>2
  <2>2. /\ work.behind => work'.behind
        /\ work'.pc \in Serving => work.pc \in Serving
        /\ work'.pc \in Deleting => work.pc \in Deleting
        /\ work'.pc # "idle" => work.pc # "idle"
        /\ work'.pc = "addFinalizer" => work.pc = "addFinalizer"
    <3>1. CASE Moved
      <4>1. work.pc # "idle"
        <5>1. CASE work.pc = "idle"
          <6>1. work'.pc \in Serving \cup Deleting
            BY <3>1 DEF Moved, Works, Steps, Serving, Deleting
          <6> QED BY <3>1, <5>1, <6>1 DEF Moved, Serving, Deleting
        <5> QED BY <5>1
      <4> QED BY <3>1, <4>1 DEF Moved
    <3>2. CASE Marked
      BY <3>2 DEF Marked
    <3> QED BY <1>3, <3>1, <3>2
  <2>3. work'.pc # "idle" /\ ~ work'.behind => CopyIsCurrent'
    <3>1. ASSUME work'.pc # "idle", ~ work'.behind PROVE CopyIsCurrent'
      <4>1. Len(log[work.s]) = 1 /\ work.obj = [Server(work.s) EXCEPT !.phase = work.obj.phase]
        BY <1>0, <2>2, <3>1 DEF WorkSound, CopyIsCurrent
      <4>2. Server(work.s)' = Server(work.s) /\ Len(log'[work'.s]) = 1
        <5>1. log'[work'.s] = log[work.s]
          BY <1>3, <2>1
        <5> QED BY <4>1, <5>1 DEF Server
      <4>3. work.s \in Subnet /\ Server(work.s) \in Versions
        BY <1>0, <2>2, <3>1, VersionsTyped DEF WorkTypes
      <4>4. work'.obj = [Server(work.s) EXCEPT !.phase = work'.obj.phase]
        <5>1. \A u, v \in Versions : \A x, y :
                u = [v EXCEPT !.phase = x] => [u EXCEPT !.phase = y] = [v EXCEPT !.phase = y]
          BY DEF Versions
        <5> QED BY <1>0, <2>1, <4>1, <4>3, <5>1
      <4> QED BY <4>2, <4>4 DEF CopyIsCurrent
    <3> QED BY <3>1
  <2>4. work'.pc # "idle" => Exists(work'.obj) /\ work'.obj.uid <= spent'.births
    <3>1. work.obj.uid \in Nat
      BY <1>0 DEF Versions
    <3> QED BY <1>0, <1>00, <2>1, <2>2, <3>1 DEF WorkSound, Exists
  <2>5. work'.pc \in Serving =>
          /\ work'.obj.fin /\ ~ work'.obj.del
          /\ \A i \in DOMAIN log'[work'.s] : Same(log'[work'.s][i], work'.obj) /\ log'[work'.s][i].fin
    BY <1>0, <1>3, <2>1, <2>2 DEF WorkSound, Same
  <2>6. work'.pc \in Deleting =>
          /\ work'.obj.fin /\ work'.obj.del
          /\ \A i \in DOMAIN log'[work'.s] : log'[work'.s][i].uid = work'.obj.uid => log'[work'.s][i].del
    BY <1>0, <1>3, <2>1, <2>2 DEF WorkSound
  <2>7. work'.pc = "addFinalizer" => ~ work'.obj.del
    BY <1>0, <2>1, <2>2 DEF WorkSound
  <2> QED BY <2>3, <2>4, <2>5, <2>6, <2>7 DEF WorkSound
\* A start.
<1>4. ASSUME NEW s \in Subnet, Started(s), work'.s = s, work'.obj = Cached(s),
             work'.pc = FirstStep(Cached(s)), work'.behind <=> Len(log[s]) > 1
      PROVE  WorkSound'
  <2> DEFINE v == Cached(s)
  <2>1. /\ v = log[s][1] /\ v \in Versions /\ Exists(v) /\ 1 \in DOMAIN log[s] /\ HistorySound(s)
        /\ log' = log /\ spent' = spent /\ VersionSound(v, spent.births)
        /\ Len(log[s]) \in Nat \ {0} /\ DOMAIN log[s] = 1 .. Len(log[s])
    <3>1. v = log[s][1] /\ v \in Versions /\ 1 \in DOMAIN log[s] /\ Len(log[s]) \in Nat \ {0}
          /\ DOMAIN log[s] = 1 .. Len(log[s])
      BY VersionsTyped
    <3>2. Exists(v) /\ log' = log /\ spent' = spent
      BY <1>4 DEF Started, Reconcile
    <3>3. HistorySound(s)
      BY DEF LogInv
    <3>4. VersionSound(v, spent.births)
      BY <3>1, <3>3, HistoryEnds
    <3> QED BY <3>1, <3>2, <3>3, <3>4
  <2> HIDE DEF v
  <2>2. \A i \in DOMAIN log[s] :
          /\ v.fin /\ ~ v.del => Same(v, log[s][i]) /\ log[s][i].fin
          /\ v.del /\ v.uid = log[s][i].uid => log[s][i].del
    <3> SUFFICES ASSUME NEW i \in DOMAIN log[s]
                 PROVE  /\ v.fin /\ ~ v.del => Same(v, log[s][i]) /\ log[s][i].fin
                        /\ v.del /\ v.uid = log[s][i].uid => log[s][i].del
      OBVIOUS
    <3>1. 1 <= i
      BY <2>1
    <3> QED BY <2>1, <3>1 DEF HistorySound
  <2>3. /\ work'.pc \in Serving => v.fin /\ ~ v.del
        /\ work'.pc \in Deleting => v.del
        /\ work'.pc = "addFinalizer" => ~ v.del
    BY <1>4 DEF v, FirstStep, Serving, Deleting
  <2>4. v.del => v.fin
    BY <2>1 DEF VersionSound
  <2>5. ~ work'.behind => CopyIsCurrent'
    <3>1. ASSUME ~ work'.behind PROVE Len(log[s]) = 1 /\ Server(s) = v
      <4>1. ~ (Len(log[s]) > 1)
        BY <1>4, <3>1
      <4>2. Len(log[s]) = 1
        <5>1. \A n \in Nat \ {0} : ~ (n > 1) => n = 1
          OBVIOUS
        <5> QED BY <2>1, <4>1, <5>1
      <4> QED BY <2>1, <4>2 DEF Server
    <3>2. v = [v EXCEPT !.phase = v.phase]
      BY <2>1 DEF Versions
    <3>3. Server(work.s)' = Server(s) /\ log'[work'.s] = log[s]
      BY <1>4, <2>1 DEF Server
    <3> QED BY <1>4, <2>1, <3>1, <3>2, <3>3 DEF CopyIsCurrent, v
  <2>6. Exists(work'.obj) /\ work'.obj.uid <= spent'.births
    BY <1>4, <2>1 DEF v, VersionSound
  <2>7. work'.obj = v /\ log' = log /\ work'.s = s
    BY <1>4, <2>1 DEF v
  <2> QED BY <2>2, <2>3, <2>4, <2>5, <2>6, <2>7 DEF WorkSound, Same
\* A status whose answer is lost.
<1>5. ASSUME NEW v \in Versions, WorkerWrite(v), work' # Idle, Moved PROVE WorkSound'
  <2>1. /\ work.pc = "statusActive" /\ v = work.obj /\ work'.behind /\ work'.pc = "statusFailed"
        /\ work'.obj = work.obj /\ work'.s = work.s /\ Write(work.s, v) /\ work.s \in Subnet
    BY <1>5 DEF WorkerWrite, Moved, WorkTypes
  <2>2. /\ work.obj.fin /\ ~ work.obj.del /\ Exists(work.obj) /\ work.obj.uid <= spent.births
        /\ \A i \in DOMAIN log[work.s] : Same(log[work.s][i], work.obj) /\ log[work.s][i].fin
    BY <1>0, <2>1 DEF WorkSound, Serving
  <2>3. Stored(v) = v
    BY <2>1, <2>2 DEF Stored
  <2>4. \A i \in DOMAIN log'[work.s] : \/ i \in DOMAIN log[work.s] /\ log'[work.s][i] = log[work.s][i]
                                       \/ log'[work.s][i] = work.obj
    <3>1. /\ DOMAIN log'[work.s] = 1 .. Len(log[work.s]) + 1
          /\ \A i \in DOMAIN log[work.s] : log'[work.s][i] = log[work.s][i]
          /\ log'[work.s][Len(log[work.s]) + 1] = v
      BY <2>1, <2>3, WriteAppends
    <3>2. DOMAIN log[work.s] = 1 .. Len(log[work.s]) /\ Len(log[work.s]) \in Nat
      BY <2>1, VersionsTyped
    <3>3. \A n \in Nat : \A i \in 1 .. n + 1 : i \in 1 .. n \/ i = n + 1
      OBVIOUS
    <3> QED BY <2>1, <3>1, <3>2, <3>3
  <2>5. \A i \in DOMAIN log'[work.s] : Same(log'[work.s][i], work.obj) /\ log'[work.s][i].fin
    BY <2>2, <2>4 DEF Same
  <2>6. work.obj.uid <= spent'.births
    <3>1. work.obj.uid \in Nat
      BY <1>0 DEF Versions
    <3> QED BY <1>00, <2>2, <3>1
  <2> QED BY <2>1, <2>2, <2>5, <2>6 DEF WorkSound, Serving, Deleting
\* Somebody else's write.
<1>6. ASSUME NEW s \in Subnet, CreateSubnet(s) \/ EditSubnet(s) \/ DeleteSubnet(s) PROVE WorkSound'
  <2>1. PICK v \in Versions : UserWrites(s, v) /\ UserFollows(Server(s), Stored(v))
    BY <1>6, UserVersions DEF LogInv
  <2>2. /\ Write(s, v) /\ work' = IF work.s = s THEN [work EXCEPT !.behind = TRUE] ELSE work
    BY <2>1 DEF UserWrites
  <2>3. /\ work'.pc = work.pc /\ work'.s = work.s /\ work'.obj = work.obj
        /\ work.behind => work'.behind
        /\ work.s = s => work'.behind
    BY <1>0, <2>2 DEF Works
  <2>4. CASE work.s # s
    <3>1. work.pc # "idle" => work.s \in Subnet \ {s}
      BY <1>0, <2>4 DEF WorkTypes
    <3>2. work.pc # "idle" => log'[work.s] = log[work.s] /\ Server(work.s)' = Server(work.s)
      BY <2>2, <2>3, <3>1, WriteAppends DEF Server
    <3>3. work.pc # "idle" /\ ~ work'.behind => CopyIsCurrent'
      BY <1>0, <2>3, <3>2 DEF WorkSound, CopyIsCurrent
    <3>4. work.pc # "idle" => work.obj.uid <= spent'.births /\ Exists(work.obj)
      <4>1. work.obj.uid \in Nat
        BY <1>0 DEF Versions
      <4> QED BY <1>0, <1>00, <4>1 DEF WorkSound
    <3>5. "idle" \notin Serving /\ "idle" \notin Deleting
      BY DEF Serving, Deleting
    <3> QED BY <1>0, <2>3, <3>2, <3>3, <3>4, <3>5 DEF WorkSound
  <2>5. CASE work.s = s
    <3>1. work.pc # "idle"
      BY <1>0, <2>5, NullsTyped DEF WorkTypes
    <3>2. /\ DOMAIN log'[s] = 1 .. Len(log[s]) + 1
          /\ \A i \in DOMAIN log[s] : log'[s][i] = log[s][i]
          /\ log'[s][Len(log[s]) + 1] = Stored(v)
      BY <2>2, WriteAppends
    <3>3. DOMAIN log[s] = 1 .. Len(log[s]) /\ Len(log[s]) \in Nat /\ Len(log[s]) \in DOMAIN log[s]
      BY VersionsTyped
    <3>4. \A n \in Nat : \A i \in 1 .. n + 1 : i \in 1 .. n \/ i = n + 1
      OBVIOUS
    <3>5. \A i \in DOMAIN log'[s] : \/ i \in DOMAIN log[s] /\ log'[s][i] = log[s][i]
                                    \/ log'[s][i] = Stored(v)
      BY <3>2, <3>3, <3>4
    <3>6. ASSUME work.pc \in Serving
          PROVE  \A i \in DOMAIN log'[s] : Same(log'[s][i], work.obj) /\ log'[s][i].fin
      <4>1. \A i \in DOMAIN log[s] : Same(log[s][i], work.obj) /\ log[s][i].fin
        BY <1>0, <2>5, <3>6 DEF WorkSound
      <4>2. Same(Stored(v), work.obj) /\ Stored(v).fin
        BY <2>1, <3>3, <4>1 DEF UserFollows, Same, Server
      <4> QED BY <3>5, <4>1, <4>2
    <3>7. ASSUME work.pc \in Deleting
          PROVE  \A i \in DOMAIN log'[s] : log'[s][i].uid = work.obj.uid => log'[s][i].del
      <4>1. \A i \in DOMAIN log[s] : log[s][i].uid = work.obj.uid => log[s][i].del
        BY <1>0, <2>5, <3>7 DEF WorkSound
      <4>2. work.obj.uid # 0 /\ work.obj.uid <= spent.births /\ work.obj.uid \in Nat
        BY <1>0, <3>1 DEF WorkSound, Exists, Versions
      <4>3. Stored(v).uid = work.obj.uid => ~ (Stored(v).uid > spent.births)
        BY <1>0, <4>2
      <4>4. Stored(v).uid = work.obj.uid => Stored(v).del
        BY <2>1, <3>3, <4>1, <4>2, <4>3 DEF UserFollows, Server
      <4> QED BY <3>5, <4>1, <4>4
    <3>8. work.obj.uid <= spent'.births /\ Exists(work.obj)
      <4>1. work.obj.uid \in Nat
        BY <1>0 DEF Versions
      <4> QED BY <1>0, <1>00, <3>1, <4>1 DEF WorkSound
    <3> QED BY <1>0, <2>3, <2>5, <3>6, <3>7, <3>8 DEF WorkSound
  <2> QED BY <2>4, <2>5
\* The cache moves on.
<1>7. ASSUME NEW s \in Subnet, Deliver(s) PROVE WorkSound'
  <2>1. work' = work /\ spent' = spent /\ Len(log[s]) > 1
    BY <1>7 DEF Deliver
  <2>2. /\ \A t \in Subnet \ {s} : log'[t] = log[t]
        /\ \A i \in DOMAIN log'[s] : i + 1 \in DOMAIN log[s] /\ log'[s][i] = log[s][i + 1]
    BY <1>7, DeliverMoves
  <2>3. work.pc # "idle" => work.s \in Subnet
    BY <1>0 DEF WorkTypes
  <2>4. \A i \in DOMAIN log'[work.s] : work.s \in Subnet => \E j \in DOMAIN log[work.s] : log'[work.s][i] = log[work.s][j]
    BY <2>2
  <2>5. work.pc # "idle" /\ ~ work.behind => CopyIsCurrent'
    <3>1. ASSUME work.pc # "idle", ~ work.behind PROVE CopyIsCurrent'
      <4>1. CopyIsCurrent
        BY <1>0, <3>1 DEF WorkSound
      <4>2. work.s # s
        <5>1. Len(log[work.s]) = 1 /\ Len(log[s]) # 1
          <6>1. ~ (1 > 1)
            OBVIOUS
          <6> QED BY <2>1, <4>1, <6>1 DEF CopyIsCurrent
        <5> QED BY <5>1
      <4> QED BY <2>1, <2>2, <2>3, <3>1, <4>1, <4>2 DEF CopyIsCurrent, Server
    <3> QED BY <3>1
  <2>6. "idle" \notin Serving /\ "idle" \notin Deleting
    BY DEF Serving, Deleting
  <2>7. /\ work.pc \in Serving =>
            \A i \in DOMAIN log'[work.s] : Same(log'[work.s][i], work.obj) /\ log'[work.s][i].fin
        /\ work.pc \in Deleting =>
            \A i \in DOMAIN log'[work.s] : log'[work.s][i].uid = work.obj.uid => log'[work.s][i].del
    BY <1>0, <2>3, <2>4, <2>6 DEF WorkSound
  <2> QED BY <1>0, <2>1, <2>5, <2>7 DEF WorkSound
<1>8. CASE Restart
  BY <1>2, <1>8 DEF Restart
<1>9. CASE Worker
  <2>1. work' = Idle \/ Moved
    BY <1>9, WorkerMoves
  <2> QED BY <1>2, <1>3, <1>5, <1>9, <2>1, WorkerVersions
<1>10. CASE UNCHANGED log
  BY <1>2, <1>3, <1>4, <1>8, <1>9, <1>10, WorkSteps
<1> QED BY <1>6, <1>7, <1>8, <1>9, <1>10, LogCauses

\* The part of the invariant about versions is kept.
LEMMA LogInvKept ==
  ASSUME Types, CountsSound, LogInv, [Next]_vars
  PROVE  LogInv'
BY HistoryKept, WorkSoundKept DEF LogInv

-----------------------------------------------------------------------------
(* The rows: every step keeps RowInv.                                      *)

\* A row a reconcile writes for the subnet it serves: rows' is rows, or has the
\* subnet's own row as wanted, under a UUID no other row has.
Serves(row) ==
  /\ row \in Rows /\ IsOurManaged(row) /\ row.uuid # 0 /\ row.cidr = work.obj.cidr
  /\ \A m \in Switches \ {work.s} : rows[m].uuid # row.uuid
  /\ rows' = [rows EXCEPT ![work.s] = row]

\* What creating or updating a switch does to the rows.
LEMMA ServingWrites ==
  ASSUME Types, RowInv, UpdateSwitch \/ CreateSwitch
  PROVE  /\ work.pc \in Serving /\ work.s \in Subnet /\ ~ work.obj.ext /\ UNCHANGED log
         /\ work'.s = work.s /\ work'.obj = work.obj /\ work'.pc \in {"allocator", "statusFailed"}
         /\ rows' = rows \/ \E row \in Rows : Serves(row)
         /\ work'.pc = "allocator" => spent' = spent
<1> USE DEF Types, RowInv
<1>0. work \in Works /\ work.row \in Rows /\ NoRow \in Rows /\ rows \in [Switches -> Rows] /\ NoRow.uuid = 0
  BY NullsTyped DEF WorkTypes, Works, RowTypes, NoRow
<1>1. work.pc \in {"update", "create"} /\ work.s \in Subnet /\ work.s \in Switches
  BY DEF UpdateSwitch, CreateSwitch, WorkTypes, Switches
<1>2. work.pc \in Serving /\ ~ work.obj.ext /\ UNCHANGED log
  BY <1>1 DEF Serving, RememberedSound, UpdateSwitch, CreateSwitch
<1>3. (Forget("allocator") /\ spent' = spent) \/ Forget("statusFailed")
  BY DEF UpdateSwitch, CreateSwitch, Transact
<1>4. /\ work'.s = work.s /\ work'.obj = work.obj /\ work'.pc \in {"allocator", "statusFailed"}
      /\ work'.pc = "allocator" => spent' = spent
  BY <1>0, <1>3 DEF Forget, Works
<1>5. rows' = rows \/ \E row \in Rows : Serves(row)
  <2>1. CASE UpdateSwitch
    <3> DEFINE new == [n \in Switches |-> IF rows[n].uuid = work.row.uuid
                                          THEN Wanted(work.row) ELSE rows[n]]
    <3>1. rows' = new \/ rows' = rows
      BY <2>1 DEF UpdateSwitch, Transact
    <3>2. work.pc = "update"
      BY <2>1 DEF UpdateSwitch
    <3>3. \A n \in Switches : rows[n].uuid = work.row.uuid => n = work.s
      BY <3>2 DEF RememberedSound
    <3>4. work.row.uuid # 0
      BY <3>2 DEF RememberedSound, Holding
    <3>5. CASE rows[work.s].uuid = work.row.uuid
      <4>1. new = [rows EXCEPT ![work.s] = Wanted(work.row)]
        BY <1>0, <1>1, <3>3, <3>5
      <4>2. /\ Wanted(work.row) \in Rows /\ Wanted(work.row).uuid = work.row.uuid
            /\ Wanted(work.row).managedBy = "ours" /\ Wanted(work.row).cidr = work.obj.cidr
        BY <1>0, WantedTyped
      <4>3. rows' = new => Serves(Wanted(work.row))
        BY <3>3, <3>4, <4>1, <4>2 DEF Serves, IsOurManaged
      <4> HIDE DEF new
      <4> QED BY <3>1, <4>2, <4>3
    <3>6. CASE rows[work.s].uuid # work.row.uuid
      <4>1. new = rows
        BY <1>0, <3>3, <3>6
      <4> QED BY <3>1, <4>1
    <3> QED BY <3>5, <3>6
  <2>2. CASE CreateSwitch
    <3> DEFINE row == [Wanted(NoRow) EXCEPT !.uuid = NewUUID]
    <3>1. rows' = rows \/ rows' = [rows EXCEPT ![work.s] = row]
      BY <1>2, <2>2 DEF CreateSwitch, Transact, SwitchName
    <3>2. /\ Wanted(NoRow) \in Rows /\ Wanted(NoRow).managedBy = "ours"
          /\ Wanted(NoRow).cidr = work.obj.cidr
      BY <1>0, WantedTyped
    <3>3. NewUUID \in Nat \ {0} /\ \A m \in Switches : rows[m].uuid # NewUUID
      BY NewUUIDIsNew
    <3>4. row \in Rows /\ row.uuid = NewUUID /\ row.managedBy = "ours" /\ row.cidr = work.obj.cidr
      BY <3>2, <3>3 DEF Rows
    <3> HIDE DEF row
    <3>5. rows' = [rows EXCEPT ![work.s] = row] => Serves(row)
      BY <3>3, <3>4 DEF Serves, IsOurManaged
    <3> QED BY <3>1, <3>4, <3>5
  <2> QED BY <2>1, <2>2
<1> QED BY <1>1, <1>2, <1>4, <1>5

\* What a deletion leaves.
LEMMA DeletingWrites ==
  ASSUME Types, RowInv, DeleteSwitch
  PROVE  /\ work.s \in Subnet /\ ~ work.obj.ext /\ UNCHANGED log /\ work.pc = "deleteSwitch"
         /\ rows' = rows \/ rows' = [rows EXCEPT ![work.s] = NoRow]
         /\ \/ work' = Idle
            \/ work'.pc = "dropAllocator" /\ work'.s = work.s /\ work'.obj = work.obj
               /\ rows' = [rows EXCEPT ![work.s] = NoRow]
<1>1. work.pc = "deleteSwitch" /\ work.s \in Subnet /\ UNCHANGED log /\ work \in Works
  BY DEF DeleteSwitch, Types, WorkTypes
<1>2. ~ work.obj.ext
  BY <1>1 DEF RowInv, RememberedSound
<1>3. SwitchName(work.s, work.obj) = work.s
  BY <1>2 DEF SwitchName
<1>4. \/ rows' = [rows EXCEPT ![work.s] = NoRow] /\ Forget("dropAllocator")
      \/ rows' \in {rows, [rows EXCEPT ![work.s] = NoRow]} /\ Return(TRUE)
  BY <1>3 DEF DeleteSwitch
<1> QED BY <1>1, <1>2, <1>4 DEF Forget, Return, Works

\* What ZStack writes: a row that is not ours, under a UUID of its own.
LEMMA ForeignWrites ==
  ASSUME Types, ZStackWrites
  PROVE  /\ UNCHANGED <<work, log, queue, backoff>>
         /\ \E n \in Switches, row \in Rows :
              /\ rows' = [rows EXCEPT ![n] = row] /\ ~ IsOurManaged(row)
              /\ \/ row = NoRow
                 \/ /\ IsZStackManaged(row) /\ row.uuid # 0
                    /\ \A m \in Switches : rows[m].uuid # row.uuid
                    /\ work.row.uuid # row.uuid
                 \/ /\ IsZStackManaged(row) /\ row.uuid = rows[n].uuid /\ rows[n] # NoRow
<1> USE DEF Types
<1>0. /\ rows \in [Switches -> Rows] /\ NoRow \in Rows /\ NoRow.managedBy = ""
  BY NullsTyped DEF RowTypes, NoRow
<1>1. PICK n \in Switches :
        \/ \E m \in {"", "zstack"} :
             rows' = [rows EXCEPT ![n] = [uuid |-> NewUUID, managedBy |-> m, vpc |-> TRUE, cidr |-> 0]]
        \/ /\ rows[n] # NoRow
           /\ \/ rows' = [rows EXCEPT ![n].vpc = TRUE, ![n].managedBy = "zstack"]
              \/ rows' = [rows EXCEPT ![n] = NoRow]
  BY DEF ZStackWrites
<1>2. ASSUME NEW m \in {"", "zstack"},
             rows' = [rows EXCEPT ![n] = [uuid |-> NewUUID, managedBy |-> m, vpc |-> TRUE, cidr |-> 0]]
      PROVE  \E row \in Rows :
               /\ rows' = [rows EXCEPT ![n] = row] /\ ~ IsOurManaged(row)
               /\ IsZStackManaged(row) /\ row.uuid # 0
               /\ \A k \in Switches : rows[k].uuid # row.uuid
               /\ work.row.uuid # row.uuid
  <2> DEFINE row == [uuid |-> NewUUID, managedBy |-> m, vpc |-> TRUE, cidr |-> 0]
  <2>1. /\ NewUUID \in Nat \ {0} /\ NewUUID # work.row.uuid
        /\ \A k \in Switches : rows[k].uuid # NewUUID
    BY NewUUIDIsNew
  <2>2. row \in Rows /\ row.uuid = NewUUID /\ ~ IsOurManaged(row) /\ IsZStackManaged(row)
    BY <2>1 DEF Rows, IsOurManaged, IsZStackManaged
  <2>3. rows' = [rows EXCEPT ![n] = row]
    BY <1>2
  <2> HIDE DEF row
  <2> QED BY <2>1, <2>2, <2>3
<1>3. ASSUME rows[n] # NoRow, rows' = [rows EXCEPT ![n].vpc = TRUE, ![n].managedBy = "zstack"]
      PROVE  \E row \in Rows :
               /\ rows' = [rows EXCEPT ![n] = row] /\ ~ IsOurManaged(row)
               /\ IsZStackManaged(row) /\ row.uuid = rows[n].uuid /\ rows[n] # NoRow
  <2> DEFINE row == [rows[n] EXCEPT !.vpc = TRUE, !.managedBy = "zstack"]
  <2>1. rows' = [rows EXCEPT ![n] = row]
    BY <1>0, <1>3
  <2>2. rows[n] \in Rows
    BY <1>0
  <2>3. row \in Rows /\ row.uuid = rows[n].uuid /\ ~ IsOurManaged(row) /\ IsZStackManaged(row)
    BY <2>2 DEF Rows, IsOurManaged, IsZStackManaged
  <2> HIDE DEF row
  <2> QED BY <1>3, <2>1, <2>3
<1>4. ASSUME rows' = [rows EXCEPT ![n] = NoRow]
      PROVE  rows' = [rows EXCEPT ![n] = NoRow] /\ ~ IsOurManaged(NoRow) /\ NoRow \in Rows
  BY <1>0, <1>4 DEF IsOurManaged
<1> QED BY <1>1, <1>2, <1>3, <1>4 DEF ZStackWrites

\* Three steps of a reconcile write rows, and ZStack does.
LEMMA RowSteps ==
  ASSUME [Next]_vars
  PROVE  UNCHANGED rows \/ UpdateSwitch \/ CreateSwitch \/ DeleteSwitch \/ ZStackWrites
BY DEF Next, vars, Worker, CreateSubnet, EditSubnet, DeleteSubnet, UserWrites, Deliver, BackoffExpires,
       Reconcile, GetAllocator, AllocateNext, Release, Restart, AddFinalizer, GetSwitch,
       ensureIPAllocator, ReadAvailable, ReadUsed, updateStatusActive,
       updateStatusFailed, GetForDelete, DropAllocator, RemoveFinalizer

\* Rows keep UUIDs of their own.
LEMMA RowsKept ==
  ASSUME Types, RowInv, [Next]_vars
  PROVE  RowsSound'
<1> USE DEF Types, RowInv
<1>0. rows \in [Switches -> Rows] /\ RowsSound /\ NoRow.uuid = 0
  BY DEF RowTypes, NoRow
<1>1. CASE UNCHANGED rows
  BY <1>0, <1>1 DEF RowsSound
\* One row changes: it is gone, or keeps its UUID, or has a new one.
<1>2. ASSUME NEW n \in Switches, NEW row \in Rows, rows' = [rows EXCEPT ![n] = row],
             \/ row = NoRow
             \/ row.uuid # 0 /\ (IsOurManaged(row) \/ IsZStackManaged(row))
                /\ \A m \in Switches \ {n} : rows[m].uuid # row.uuid
      PROVE  RowsSound'
  <2>1. rows'[n] = row /\ \A m \in Switches \ {n} : rows'[m] = rows[m]
    BY <1>0, <1>2
  <2>2. ASSUME NEW m \in Switches, rows'[m] # NoRow
        PROVE  rows'[m].uuid # 0 /\ (IsOurManaged(rows'[m]) \/ IsZStackManaged(rows'[m]))
    BY <1>0, <1>2, <2>1, <2>2 DEF RowsSound
  <2>3. ASSUME NEW m \in Switches, NEW k \in Switches, rows'[m] # NoRow, rows'[m].uuid = rows'[k].uuid
        PROVE  m = k
    BY <1>0, <1>2, <2>1, <2>2, <2>3 DEF RowsSound
  <2> QED BY <2>2, <2>3 DEF RowsSound, IsOurManaged, IsZStackManaged
<1>3. CASE UpdateSwitch \/ CreateSwitch
  <2>1. ASSUME NEW row \in Rows, Serves(row) PROVE RowsSound'
    <3>1. work.s \in Switches
      BY <1>3, ServingWrites DEF Switches
    <3> QED BY <1>2, <2>1, <3>1 DEF Serves
  <2> QED BY <1>1, <1>3, <2>1, ServingWrites
<1>4. CASE DeleteSwitch
  <2>1. work.s \in Switches
    BY <1>4, DeletingWrites DEF Switches
  <2> QED BY <1>1, <1>2, <1>4, <2>1, DeletingWrites, NullsTyped
<1>5. CASE ZStackWrites
  <2>1. PICK n \in Switches, row \in Rows :
              /\ rows' = [rows EXCEPT ![n] = row] /\ ~ IsOurManaged(row)
              /\ \/ row = NoRow
                 \/ /\ IsZStackManaged(row) /\ row.uuid # 0
                    /\ \A m \in Switches : rows[m].uuid # row.uuid
                    /\ work.row.uuid # row.uuid
                 \/ /\ IsZStackManaged(row) /\ row.uuid = rows[n].uuid /\ rows[n] # NoRow
    BY <1>5, ForeignWrites
  <2>2. rows[n] # NoRow => rows[n].uuid # 0 /\ \A m \in Switches \ {n} : rows[m].uuid # rows[n].uuid
    BY <1>0 DEF RowsSound
  <2> QED BY <1>2, <2>1, <2>2
<1> QED BY <1>1, <1>3, <1>4, <1>5, RowSteps

\* While a row is ours nobody ends the subnet's life in the versions.
LEMMA OwnedLife ==
  ASSUME Types, LogInv, RowInv, [Next]_vars, NEW s \in Subnet, IsOurManaged(rows[s])
  PROVE  /\ \A i \in DOMAIN log'[s] : /\ Same(log'[s][i], Server(s)')
                                      /\ log'[s][i].fin /\ ~ log'[s][i].ext
         /\ Server(s)'.uid = Server(s).uid
<1> USE DEF Types, LogInv, RowInv
<1> DEFINE G == /\ \A i \in DOMAIN log'[s] : /\ Same(log'[s][i], Server(s)')
                                             /\ log'[s][i].fin /\ ~ log'[s][i].ext
                /\ Server(s)'.uid = Server(s).uid
<1> SUFFICES G
  OBVIOUS
<1>0. /\ \A i \in DOMAIN log[s] : /\ Same(log[s][i], Server(s)) /\ log[s][i].fin /\ ~ log[s][i].ext
      /\ DOMAIN log[s] = 1 .. Len(log[s]) /\ Len(log[s]) \in Nat /\ Len(log[s]) \in DOMAIN log[s]
      /\ Server(s).fin /\ ~ Server(s).ext
  BY VersionsTyped DEF OwnedSound, Server
<1>1. CASE log'[s] = log[s]
  <2>1. Server(s)' = Server(s)
    BY <1>1 DEF Server
  <2> QED BY <1>0, <1>1, <2>1
\* A version of the same life is added.
<1>2. ASSUME NEW v \in Versions, Write(s, v), Same(Server(s), Stored(v)), Stored(v).fin PROVE G
  <2>1. /\ DOMAIN log'[s] = 1 .. Len(log[s]) + 1 /\ Server(s)' = Stored(v)
        /\ \A i \in DOMAIN log[s] : log'[s][i] = log[s][i]
        /\ log'[s][Len(log[s]) + 1] = Stored(v)
    BY <1>2, WriteAppends
  <2>2. \A n \in Nat : \A i \in 1 .. n + 1 : i \in 1 .. n \/ i = n + 1
    OBVIOUS
  <2>3. \A i \in DOMAIN log'[s] : (i \in DOMAIN log[s] /\ log'[s][i] = log[s][i])
                                  \/ log'[s][i] = Stored(v)
    BY <1>0, <2>1, <2>2
  <2> QED BY <1>0, <1>2, <2>1, <2>3 DEF Same
<1>3. ASSUME NEW t \in Subnet, CreateSubnet(t) \/ EditSubnet(t) \/ DeleteSubnet(t) PROVE G
  <2>1. PICK v \in Versions : UserWrites(t, v) /\ UserFollows(Server(t), Stored(v))
    BY <1>3, UserVersions
  <2>2. CASE t # s
    BY <1>1, <2>1, <2>2, WriteAppends DEF UserWrites
  <2>3. CASE t = s
    BY <1>0, <1>2, <2>1, <2>3 DEF UserWrites, UserFollows
  <2> QED BY <2>2, <2>3
<1>4. ASSUME NEW v \in Versions, WorkerWrite(v) PROVE G
  <2>1. CASE work.s # s
    BY <1>1, <1>4, <2>1, WorkerFollows, WriteAppends DEF WorkerWrite
  <2>2. CASE work.s = s
    <3>1. work.pc # "removeFinalizer"
      <4>1. ASSUME work.pc = "removeFinalizer" PROVE FALSE
        <5>1. ~ work.obj.ext
          BY <1>0, <1>4, <2>2, WorkerFollows
        <5> QED BY <2>2, <4>1, <5>1 DEF RememberedSound
      <4> QED BY <4>1
    <3> QED BY <1>2, <1>4, <2>2, <3>1, WorkerFollows DEF WorkerWrite
  <2> QED BY <2>1, <2>2
<1>5. ASSUME NEW t \in Subnet, Deliver(t) PROVE G
  <2>1. CASE t # s
    BY <1>1, <1>5, <2>1, DeliverMoves
  <2>2. CASE t = s
    BY <1>0, <1>5, <2>2, DeliverMoves
  <2> QED BY <2>1, <2>2
<1>6. CASE Restart
  BY <1>0, <1>6, RestartLists DEF Same
<1>7. CASE UNCHANGED log
  BY <1>1, <1>7
<1> QED BY <1>3, <1>4, <1>5, <1>6, <1>7, LogCauses

\* A reconcile that works on the subnet then works on the same life.
LEMMA OwnedWork ==
  ASSUME Types, CountsSound, RowInv, [Next]_vars, NEW s \in Subnet, IsOurManaged(rows[s]), work'.s = s
  PROVE  work'.obj.uid = Server(s).uid
<1> USE DEF Types, RowInv
<1>0. work \in Works /\ Idle.s \notin Subnet
  BY NullsTyped DEF WorkTypes
<1>1. work' # Idle
  BY <1>0
<1>2. CASE Moved
  BY <1>0, <1>2 DEF Moved, OwnedSound, Works, Versions
<1>3. CASE Marked
  BY <1>3 DEF Marked, OwnedSound
<1>4. ASSUME NEW t \in Subnet, Started(t), work'.s = t, work'.obj = Cached(t)
      PROVE  work'.obj.uid = Server(s).uid
  <2>1. Cached(s) = log[s][1] /\ 1 \in DOMAIN log[s]
    BY VersionsTyped
  <2> QED BY <1>4, <2>1 DEF OwnedSound, Same
<1>5. CASE Restart
  BY <1>1, <1>5 DEF Restart
<1> QED BY <1>1, <1>2, <1>3, <1>4, <1>5, WorkSteps

\* A row of ours keeps belonging to the subnet's present life.
LEMMA OwnedKept ==
  ASSUME Types, CountsSound, LogInv, RowInv, [Next]_vars
  PROVE  OwnedSound'
<1> USE DEF Types
<1> SUFFICES ASSUME NEW s \in Subnet, IsOurManaged(rows'[s])
             PROVE  /\ \A i \in DOMAIN log'[s] : /\ Same(log'[s][i], Server(s)')
                                                 /\ log'[s][i].fin /\ ~ log'[s][i].ext
                    /\ work'.s = s => work'.obj.uid = Server(s)'.uid
  BY DEF OwnedSound, IsOurManaged
<1>0. rows \in [Switches -> Rows] /\ s \in Switches /\ NoRow.managedBy = ""
  BY DEF RowTypes, Switches, NoRow
<1>1. CASE IsOurManaged(rows[s])
  BY <1>1, OwnedLife, OwnedWork
<1>2. CASE ~ IsOurManaged(rows[s])
  <2>1. rows'[s] # rows[s]
    BY <1>2
  <2>2. ~ DeleteSwitch
    <3>1. ASSUME DeleteSwitch PROVE FALSE
      <4>1. rows'[s] \in {rows[s], NoRow}
        BY <1>0, <3>1, DeletingWrites
      <4> QED BY <1>0, <2>1, <4>1 DEF IsOurManaged
    <3> QED BY <3>1
  <2>3. ~ ZStackWrites
    BY <1>0, <2>1, ForeignWrites
  <2>4. UpdateSwitch \/ CreateSwitch
    BY <2>1, <2>2, <2>3, RowSteps
  <2>5. work.s = s
    <3>1. \E row \in Rows : Serves(row)
      BY <2>1, <2>4, ServingWrites
    <3> QED BY <1>0, <2>1, <2>4, <3>1, ServingWrites DEF Serves
  <2>6. /\ \A i \in DOMAIN log[s] : Same(log[s][i], work.obj) /\ log[s][i].fin
        /\ ~ work.obj.ext /\ log' = log /\ work'.obj = work.obj
    BY <2>4, <2>5, ServingWrites DEF LogInv, WorkSound
  <2>7. Server(s)' = Server(s) /\ Same(Server(s), work.obj)
    BY <2>6, VersionsTyped DEF Server
  <2> QED BY <2>6, <2>7 DEF Same
<1> QED BY <1>1, <1>2

\* What the worker goes to, and from where.
LEMMA WorkerGoes ==
  ASSUME Types, Worker, work' # Idle
  PROVE  /\ work'.pc \in {"update", "create"} => GetSwitch
         /\ work'.pc # "getForDelete"
         /\ work'.pc = "deleteSwitch" => GetForDelete
         /\ work'.pc = "dropAllocator" => GetForDelete \/ DeleteSwitch
         /\ work'.pc = "removeFinalizer" => DropAllocator
<1>0. work \in Works
  BY DEF Types, WorkTypes
<1>1. CASE AddFinalizer \/ updateStatusFailed \/ RemoveFinalizer
  BY <1>1 DEF AddFinalizer, updateStatusFailed, RemoveFinalizer, Return
<1>2. CASE GetSwitch
  <2>1. AfterGet(rows[SwitchName(work.s, work.obj)]) \in {"create", "update", "statusFailed", "allocator"}
    BY <1>0 DEF AfterGet, Validated, Works, Versions
  <2>2. work'.pc \in {"create", "update", "statusFailed", "allocator"}
    BY <1>0, <1>2, <2>1 DEF GetSwitch, Goto, Works
  <2> QED BY <1>2, <2>2
<1>3. CASE UpdateSwitch \/ CreateSwitch
  <2>1. work'.pc \in {"allocator", "statusFailed"}
    BY <1>0, <1>3 DEF UpdateSwitch, CreateSwitch, Transact, Forget, Works
  <2> QED BY <2>1
<1>4. CASE ensureIPAllocator \/ ReadAvailable \/ ReadUsed \/ updateStatusActive
  <2>1. work'.pc \in {"readAvailable", "readUsed", "statusActive", "statusFailed"}
    BY <1>0, <1>4 DEF ensureIPAllocator, ReadAvailable, ReadUsed, updateStatusActive, Goto, Return, Works
  <2> QED BY <2>1
<1>5. CASE GetForDelete
  <2> DEFINE row == rows[SwitchName(work.s, work.obj)]
  <2>1. work' = [work EXCEPT !.row = row, !.pc = "deleteSwitch"] \/ Goto("dropAllocator")
    BY <1>5 DEF GetForDelete, Return
  <2> HIDE DEF row
  <2>2. work'.pc \in {"deleteSwitch", "dropAllocator"}
    BY <1>0, <2>1 DEF Goto, Works
  <2> QED BY <1>5, <2>2
<1>6. CASE DeleteSwitch
  <2>1. work'.pc = "dropAllocator"
    BY <1>0, <1>6 DEF DeleteSwitch, Forget, Return, Works
  <2> QED BY <1>6, <2>1
<1>7. CASE DropAllocator
  <2>1. work'.pc = "removeFinalizer"
    BY <1>0, <1>7 DEF DropAllocator, Goto, Return, Works
  <2> QED BY <1>7, <2>1
<1> QED BY <1>1, <1>2, <1>3, <1>4, <1>5, <1>6, <1>7 DEF Worker

\* What a reconcile remembers of the row stays true of it.
LEMMA RememberedKept ==
  ASSUME Types, CountsSound, LogInv, RowInv, [Next]_vars
  PROVE  RememberedSound'
<1> USE DEF Types, RowInv
<1>0. /\ work \in Works /\ work.obj \in Versions /\ rows \in [Switches -> Rows] /\ NoRow.managedBy = ""
      /\ NoRow.uuid = 0 /\ Idle.pc = "idle" /\ RememberedSound /\ RowsSound
      /\ \A s \in Subnet : s \in Switches
  BY NullsTyped DEF WorkTypes, Works, RowTypes, NoRow, Switches
<1>1. CASE work'.pc \notin {"update", "create", "getForDelete", "deleteSwitch",
                            "dropAllocator", "removeFinalizer"}
  BY <1>1 DEF RememberedSound, Holding
<1>2. CASE work' = Idle
  BY <1>0, <1>1, <1>2
<1>3. CASE GetSwitch
  <2> DEFINE row == rows[SwitchName(work.s, work.obj)]
  <2>1. work.pc = "getSwitch" /\ work.s \in Subnet /\ rows' = rows
    BY <1>3 DEF GetSwitch, WorkTypes
  <2>2. CASE Goto("statusFailed")
    BY <1>0, <1>1, <2>2 DEF Goto, Works
  <2>3. CASE work' = [work EXCEPT !.pc = AfterGet(row), !.row = IF AfterGet(row) = "update" THEN row ELSE NoRow]
    <3>1. /\ AfterGet(row) \in {"create", "update", "statusFailed", "allocator"}
          /\ AfterGet(row) \in {"create", "update"} => ~ work.obj.ext
          /\ AfterGet(row) = "update" => IsOurManaged(row) /\ row # NoRow
      BY <1>0 DEF AfterGet, Validated, Versions
    <3>2. ~ work.obj.ext => row = rows[work.s]
      BY DEF SwitchName
    <3> HIDE DEF row
    <3>3. /\ work'.pc = AfterGet(row) /\ work'.obj = work.obj /\ work'.s = work.s
          /\ AfterGet(row) = "update" => work'.row = row
      BY <1>0, <2>3 DEF Works
    <3>4. CASE AfterGet(row) = "update"
      <4>1. row.uuid # 0 /\ \A n \in Switches : rows[n].uuid = row.uuid => n = work.s
        BY <1>0, <2>1, <3>1, <3>2, <3>4 DEF RowsSound
      <4> QED BY <2>1, <3>1, <3>3, <3>4, <4>1 DEF RememberedSound, Holding, IsOurManaged
    <3>5. CASE AfterGet(row) = "create"
      BY <3>1, <3>3, <3>5 DEF RememberedSound, Holding
    <3> QED BY <1>1, <3>1, <3>3, <3>4, <3>5
  <2> QED BY <1>3, <2>2, <2>3 DEF GetSwitch
<1>4. CASE GetForDelete
  <2> DEFINE row == rows[work.s]
  <2>1. work.pc = "getForDelete" /\ work.s \in Subnet /\ rows' = rows
    BY <1>4 DEF GetForDelete, WorkTypes
  <2>2. ~ work.obj.ext
    BY <1>0, <2>1 DEF RememberedSound
  <2>3. SwitchName(work.s, work.obj) = work.s
    BY <2>2 DEF SwitchName
  <2>4. \/ Return(TRUE)
        \/ ~ (row # NoRow /\ IsOurManaged(row)) /\ Goto("dropAllocator")
        \/ row # NoRow /\ IsOurManaged(row) /\ work' = [work EXCEPT !.row = row, !.pc = "deleteSwitch"]
    BY <1>4, <2>3 DEF GetForDelete, MayDelete
  <2>5. CASE Return(TRUE)
    BY <1>2, <2>5 DEF Return
  <2>6. CASE ~ (row # NoRow /\ IsOurManaged(row)) /\ Goto("dropAllocator")
    <3>1. ~ IsOurManaged(row)
      BY <1>0, <2>6 DEF IsOurManaged
    <3>2. work'.pc = "dropAllocator" /\ work'.s = work.s
      BY <1>0, <2>6 DEF Goto, Works
    <3> QED BY <2>1, <3>1, <3>2 DEF RememberedSound, Holding, IsOurManaged
  <2>7. CASE row # NoRow /\ IsOurManaged(row) /\ work' = [work EXCEPT !.row = row, !.pc = "deleteSwitch"]
    <3>1. row.uuid # 0
      BY <1>0, <2>1, <2>7 DEF RowsSound
    <3> HIDE DEF row
    <3>2. work'.pc = "deleteSwitch" /\ work'.row = row /\ work'.obj = work.obj
      BY <1>0, <2>7 DEF Works
    <3> QED BY <2>2, <2>7, <3>1, <3>2 DEF RememberedSound, Holding, IsOurManaged
  <2> QED BY <2>4, <2>5, <2>6, <2>7
<1>5. CASE DeleteSwitch
  <2>1. ASSUME work' # Idle PROVE RememberedSound'
    <3>1. /\ work'.pc = "dropAllocator" /\ work'.s = work.s /\ work.s \in Subnet
          /\ rows' = [rows EXCEPT ![work.s] = NoRow]
      BY <1>5, <2>1, DeletingWrites
    <3>2. rows'[work.s] = NoRow
      BY <1>0, <3>1
    <3> QED BY <1>0, <3>1, <3>2 DEF RememberedSound, Holding, IsOurManaged
  <2> QED BY <1>2, <2>1
<1>6. CASE DropAllocator
  <2>1. work.pc = "dropAllocator" /\ rows' = rows
    BY <1>6 DEF DropAllocator
  <2>2. CASE Goto("removeFinalizer")
    <3>1. work'.pc = "removeFinalizer" /\ work'.s = work.s /\ work'.obj = work.obj
      BY <1>0, <2>2 DEF Goto, Works
    <3> QED BY <1>0, <2>1, <3>1 DEF RememberedSound, Holding, IsOurManaged
  <2> QED BY <1>2, <1>6, <2>2 DEF DropAllocator, Return
<1>7. CASE Worker
  <2>1. ASSUME ~ (GetSwitch \/ GetForDelete \/ DeleteSwitch \/ DropAllocator), work' # Idle
        PROVE  RememberedSound'
    BY <1>1, <1>7, <2>1, WorkerGoes
  <2> QED BY <1>2, <1>3, <1>4, <1>5, <1>6, <2>1
\* A start.
<1>8. ASSUME NEW s \in Subnet, Started(s), work'.obj = Cached(s), work'.pc = FirstStep(Cached(s))
      PROVE  RememberedSound'
  <2>1. /\ work'.pc \in {"getForDelete", "dropAllocator", "addFinalizer", "statusFailed", "getSwitch"}
        /\ work'.pc = "getForDelete" => ~ work'.obj.ext
        /\ work'.pc = "dropAllocator" => work'.obj.ext
    BY <1>8 DEF FirstStep
  <2> QED BY <2>1 DEF RememberedSound, Holding
<1>9. CASE Restart
  BY <1>2, <1>9 DEF Restart
<1>10. CASE Marked /\ UNCHANGED rows
  BY <1>0, <1>10 DEF Marked, RememberedSound, IsOurManaged
<1>11. CASE ZStackWrites
  <2>1. work' = work
    BY <1>11, ForeignWrites
  <2>2. PICK n \in Switches, row \in Rows :
              /\ rows' = [rows EXCEPT ![n] = row] /\ ~ IsOurManaged(row)
              /\ \/ row = NoRow
                 \/ work.row.uuid # row.uuid
                 \/ row.uuid = rows[n].uuid
    BY <1>11, ForeignWrites
  <2>3. rows'[n] = row /\ \A m \in Switches \ {n} : rows'[m] = rows[m]
    BY <1>0, <2>2
  <2>4. ASSUME NEW s \in Subnet, IsOurManaged(rows'[s]) PROVE IsOurManaged(rows[s])
    BY <1>0, <2>2, <2>3, <2>4 DEF IsOurManaged
  <2>5. work.pc # "idle" => work.s \in Subnet
    BY DEF WorkTypes
  <2>6. ASSUME work.pc = "update", NEW m \in Switches, rows'[m].uuid = work.row.uuid PROVE m = work.s
    <3>1. work.row.uuid # 0
      BY <1>0, <2>6 DEF RememberedSound, Holding
    <3>2. rows[m].uuid = work.row.uuid
      BY <1>0, <2>2, <2>3, <2>6, <3>1
    <3> QED BY <1>0, <2>6, <3>2 DEF RememberedSound
  <2>7. work.pc \in {"dropAllocator", "removeFinalizer"} /\ ~ work.obj.ext => ~ IsOurManaged(rows'[work.s])
    BY <1>0, <2>4, <2>5 DEF RememberedSound
  <2> QED BY <1>0, <2>1, <2>6, <2>7 DEF RememberedSound, IsOurManaged
<1>12. UNCHANGED rows \/ Worker \/ ZStackWrites
  BY RowSteps DEF Worker
<1>13. CASE UNCHANGED rows
  BY <1>7, <1>8, <1>9, <1>10, <1>13, WorkSteps
<1> QED BY <1>7, <1>11, <1>12, <1>13

\* The part of the invariant about the rows is kept.
LEMMA RowInvKept ==
  ASSUME Types, CountsSound, LogInv, RowInv, [Next]_vars
  PROVE  RowInv'
BY RowsKept, OwnedKept, RememberedKept DEF RowInv

-----------------------------------------------------------------------------
(* What is still to be done: every step keeps SpecInv.                     *)

\* Only ZStack counts its writes.
LEMMA NoForeignWrite ==
  ASSUME Types, [Next]_vars, spent'.foreign = 0
  PROVE  spent.foreign = 0 /\ ~ ZStackWrites
<1>1. spent \in [births : Nat, foreign : Nat, other : Nat]
  BY DEF Types, CountTypes
<1>2. ~ ZStackWrites
  <2>1. ASSUME ZStackWrites PROVE FALSE
    <3>1. spent' = [spent EXCEPT !.foreign = @ + 1]
      BY <2>1 DEF ZStackWrites, Upset
    <3>2. spent'.foreign = spent.foreign + 1 /\ spent.foreign \in Nat
      BY <1>1, <3>1
    <3>3. \A n \in Nat : n + 1 # 0
      OBVIOUS
    <3> QED BY <3>2, <3>3
  <2> QED BY <2>1
<1> QED BY <1>2, CountsGrow

\* A reconcile past the switch has made it what its copy says.
LEMMA ServedKept ==
  ASSUME Types, CountsSound, RowInv, ServedSound, [Next]_vars
  PROVE  ServedSound'
<1> USE DEF Types, RowInv
<1> SUFFICES ASSUME spent'.foreign = 0
             PROVE  /\ work'.pc = "update" => rows'[work'.s] = work'.row
                    /\ ~ work'.obj.ext /\ work'.pc \in {"allocator"} \cup Counting
                         => rows'[work'.s].managedBy = "ours" /\ rows'[work'.s].cidr = work'.obj.cidr
  BY DEF ServedSound, Carries
<1> DEFINE G == /\ work'.pc = "update" => rows'[work'.s] = work'.row
                /\ ~ work'.obj.ext /\ work'.pc \in {"allocator"} \cup Counting
                     => rows'[work'.s].managedBy = "ours" /\ rows'[work'.s].cidr = work'.obj.cidr
<1>0. /\ spent.foreign = 0 /\ ~ ZStackWrites
      /\ work \in Works /\ work.obj \in Versions /\ work.row \in Rows /\ rows \in [Switches -> Rows]
      /\ Idle.pc = "idle" /\ \A s \in Subnet : s \in Switches
      /\ work.pc = "update" => rows[work.s] = work.row
      /\ ~ work.obj.ext /\ work.pc \in {"allocator"} \cup Counting
           => rows[work.s].managedBy = "ours" /\ rows[work.s].cidr = work.obj.cidr
  BY NoForeignWrite, NullsTyped DEF WorkTypes, Works, RowTypes, Switches, ServedSound, Carries
<1>1. CASE work'.pc \notin {"update", "allocator"} \cup Counting
  BY <1>1
<1>2. CASE GetSwitch
  <2> DEFINE row == rows[SwitchName(work.s, work.obj)]
  <2>1. rows' = rows
    BY <1>2 DEF GetSwitch
  <2>2. CASE Goto("statusFailed")
    BY <1>0, <1>1, <2>2 DEF Goto, Works, Counting
  <2>3. CASE work' = [work EXCEPT !.pc = AfterGet(row), !.row = IF AfterGet(row) = "update" THEN row ELSE NoRow]
    <3>1. ~ work.obj.ext => row = rows[work.s]
      BY DEF SwitchName
    <3>2. /\ AfterGet(row) \in {"create", "update", "statusFailed", "allocator"}
          /\ AfterGet(row) = "update" => ~ work.obj.ext
          /\ AfterGet(row) = "allocator" /\ ~ work.obj.ext => Wanted(row) = row
      BY <1>0 DEF AfterGet, Validated, Versions
    <3>3. row \in Rows
      BY <1>0, <1>2 DEF GetSwitch, WorkTypes, SwitchName, Switches
    <3>4. Wanted(row).managedBy = "ours" /\ Wanted(row).cidr = work.obj.cidr
      BY <3>3, WantedTyped
    <3> HIDE DEF row
    <3>5. /\ work'.pc = AfterGet(row) /\ work'.obj = work.obj /\ work'.s = work.s
          /\ AfterGet(row) = "update" => work'.row = row
      BY <1>0, <2>3 DEF Works
    <3> QED BY <2>1, <3>1, <3>2, <3>4, <3>5 DEF Counting
  <2> QED BY <1>2, <2>2, <2>3 DEF GetSwitch
<1>3. CASE UpdateSwitch
  <2> DEFINE new == [n \in Switches |-> IF rows[n].uuid = work.row.uuid
                                        THEN Wanted(work.row) ELSE rows[n]]
  <2>1. work.pc = "update" /\ work.s \in Switches
    BY <1>0, <1>3 DEF UpdateSwitch, WorkTypes
  <2>2. (rows' = new /\ Forget("allocator")) \/ Forget("statusFailed")
    BY <1>3 DEF UpdateSwitch, Transact
  <2>3. CASE Forget("statusFailed")
    BY <1>0, <1>1, <2>3 DEF Forget, Works, Counting
  <2>4. CASE rows' = new /\ Forget("allocator")
    <3>1. rows'[work.s] = Wanted(work.row)
      BY <1>0, <2>1, <2>4
    <3>2. work'.pc = "allocator" /\ work'.s = work.s /\ work'.obj = work.obj
      BY <1>0, <2>4 DEF Forget, Works
    <3>3. Wanted(work.row).managedBy = "ours" /\ Wanted(work.row).cidr = work.obj.cidr
      BY <1>0, WantedTyped
    <3> QED BY <3>1, <3>2, <3>3
  <2> QED BY <2>2, <2>3, <2>4
<1>4. CASE CreateSwitch
  <2> DEFINE row == [Wanted(NoRow) EXCEPT !.uuid = NewUUID]
  <2>1. work.pc = "create" /\ work.s \in Switches /\ ~ work.obj.ext
    BY <1>0, <1>4 DEF CreateSwitch, WorkTypes, RememberedSound
  <2>2. (rows' = [rows EXCEPT ![work.s] = row] /\ Forget("allocator")) \/ Forget("statusFailed")
    BY <1>4, <2>1 DEF CreateSwitch, Transact, SwitchName
  <2>3. CASE Forget("statusFailed")
    BY <1>0, <1>1, <2>3 DEF Forget, Works, Counting
  <2>4. CASE rows' = [rows EXCEPT ![work.s] = row] /\ Forget("allocator")
    <3>1. rows'[work.s] = row
      BY <1>0, <2>1, <2>4
    <3>2. work'.pc = "allocator" /\ work'.s = work.s /\ work'.obj = work.obj
      BY <1>0, <2>4 DEF Forget, Works
    <3>3. Wanted(NoRow).managedBy = "ours" /\ Wanted(NoRow).cidr = work.obj.cidr /\ Wanted(NoRow) \in Rows
      BY NullsTyped, WantedTyped
    <3>4. row.managedBy = "ours" /\ row.cidr = work.obj.cidr
      BY <3>3 DEF Rows
    <3> QED BY <3>1, <3>2, <3>4
  <2> QED BY <2>2, <2>3, <2>4
<1>5. CASE ensureIPAllocator \/ ReadAvailable \/ ReadUsed
  <2>1. work.pc \in {"allocator", "readAvailable", "readUsed"} /\ rows' = rows
    BY <1>5 DEF ensureIPAllocator, ReadAvailable, ReadUsed
  <2>2. /\ work'.pc # "update" /\ work'.s = work.s
        /\ work'.obj.ext = work.obj.ext /\ work'.obj.cidr = work.obj.cidr
    <3>1. CASE ensureIPAllocator
      BY <1>0, <3>1 DEF ensureIPAllocator, Goto, Works
    <3>2. CASE ReadAvailable
      BY <1>0, <3>2 DEF ReadAvailable, Works
    <3>3. CASE ReadUsed
      <4>1. work' = [work EXCEPT !.pc = "statusActive", !.obj = [work.obj EXCEPT !.phase = "Active"],
                                 !.used = Taken(allocators[work.s])]
        BY <1>0, <3>3 DEF ReadUsed, Works
      <4>2. /\ [work.obj EXCEPT !.phase = "Active"].ext = work.obj.ext
            /\ [work.obj EXCEPT !.phase = "Active"].cidr = work.obj.cidr
        BY <1>0 DEF Versions
      <4> QED BY <1>0, <4>1, <4>2 DEF Works
    <3> QED BY <1>5, <3>1, <3>2, <3>3
  <2> QED BY <1>0, <2>1, <2>2 DEF Counting
<1>6. CASE \/ AddFinalizer \/ updateStatusActive \/ updateStatusFailed \/ DeleteSwitch
           \/ DropAllocator \/ RemoveFinalizer
  <2>1. work' = Idle \/ work'.pc \in {"statusFailed", "dropAllocator", "removeFinalizer"}
    BY <1>0, <1>6 DEF AddFinalizer, updateStatusActive, updateStatusFailed, DeleteSwitch,
                      DropAllocator, RemoveFinalizer, Return, Forget, Goto, Works
  <2> QED BY <1>0, <1>1, <2>1 DEF Counting
<1>7. CASE GetForDelete
  <2> DEFINE row == rows[SwitchName(work.s, work.obj)]
  <2>1. \/ work' = Idle \/ Goto("dropAllocator")
        \/ work' = [work EXCEPT !.row = row, !.pc = "deleteSwitch"]
    BY <1>7 DEF GetForDelete, Return
  <2> HIDE DEF row
  <2>2. work'.pc \notin {"update", "allocator"} \cup Counting
    BY <1>0, <2>1 DEF Goto, Works, Counting
  <2> QED BY <1>1, <2>2
<1>8. CASE Worker
  BY <1>2, <1>3, <1>4, <1>5, <1>6, <1>7, <1>8 DEF Worker
<1>9. CASE UNCHANGED rows
  <2>1. CASE Marked
    BY <1>0, <1>9, <2>1 DEF Marked
  <2>2. ASSUME NEW s \in Subnet, work'.pc = FirstStep(Cached(s)) PROVE G
    BY <2>2 DEF FirstStep, Counting
  <2>3. CASE Restart
    BY <1>0, <1>1, <2>3 DEF Restart, Counting
  <2> QED BY <1>8, <2>1, <2>2, <2>3, WorkSteps
<1> QED BY <1>0, <1>8, <1>9, RowSteps DEF Worker

\* What a step leaves to do for subnet s.
Awaited(s) ==
  \/ Carries(s, Server(s)) \/ s \in queue \cup backoff
  \/ work.s = s \/ Len(log[s]) > 1

\* A subnet whose row is not as it should be is not forgotten.
LEMMA PendingKept ==
  ASSUME Types, CountsSound, LogInv, RowInv, SpecInv, [Next]_vars
  PROVE  PendingSound'
<1> USE DEF Types, RowInv
<1> SUFFICES ASSUME spent'.foreign = 0, NEW s \in Subnet, Active(Server(s)')
             PROVE  Awaited(s)'
  BY DEF PendingSound, Awaited, Active, Exists, Carries, Server
<1>0. /\ spent.foreign = 0 /\ ~ ZStackWrites /\ work \in Works /\ rows \in [Switches -> Rows]
      /\ Idle.s = NoSubnet /\ NoSubnet \notin Subnet /\ s \in Switches
      /\ Active(Server(s)) => Awaited(s)
  BY NoForeignWrite, NullsTyped DEF WorkTypes, RowTypes, Switches, SpecInv, PendingSound, Awaited
\* A step that leaves what is of s.
<1>1. CASE /\ log'[s] = log[s] /\ rows'[s] = rows[s] /\ (work.s = s => work'.s = s)
           /\ s \in queue \cup backoff => s \in queue' \cup backoff'
  <2>1. Server(s)' = Server(s) /\ (Carries(s, Server(s)) => Carries(s, Server(s))')
    BY <1>1 DEF Server, Carries
  <2>2. Awaited(s)
    BY <1>0, <2>1
  <2> QED BY <1>1, <2>1, <2>2 DEF Awaited
\* A version is on its way.
<1>2. ASSUME NEW v \in Versions, Write(s, v) PROVE Awaited(s)'
  <2>1. Len(log'[s]) = Len(log[s]) + 1 /\ Len(log[s]) \in Nat \ {0}
    BY <1>2, WriteAppends, VersionsTyped
  <2>2. \A n \in Nat \ {0} : n + 1 > 1
    OBVIOUS
  <2>3. Len(log'[s]) > 1
    BY <2>1, <2>2
  <2> QED BY <2>3 DEF Awaited
<1>3. ASSUME NEW t \in Subnet, CreateSubnet(t) \/ EditSubnet(t) \/ DeleteSubnet(t) PROVE Awaited(s)'
  <2>1. PICK v \in Versions : UserWrites(t, v)
    BY <1>3, UserVersions DEF LogInv
  <2>2. CASE t = s
    BY <1>2, <2>1, <2>2 DEF UserWrites
  <2>3. CASE t # s
    <3>1. work'.s = work.s
      BY <1>0, <2>1 DEF UserWrites, Works
    <3> QED BY <1>1, <2>1, <2>3, <3>1, WriteAppends DEF UserWrites
  <2> QED BY <2>2, <2>3
<1>4. ASSUME NEW t \in Subnet, Deliver(t) PROVE Awaited(s)'
  <2>1. CASE t = s
    BY <1>4, <2>1 DEF Deliver, Awaited
  <2>2. CASE t # s
    BY <1>1, <1>4, <2>2, DeliverMoves DEF Deliver
  <2> QED BY <2>1, <2>2
<1>5. ASSUME NEW t \in Subnet, BackoffExpires(t) \/ GetAllocator(t) PROVE Awaited(s)'
  BY <1>1, <1>5 DEF BackoffExpires, GetAllocator
<1>6. ASSUME NEW t \in Subnet, Reconcile(t) PROVE Awaited(s)'
  <2>1. /\ work.pc = "idle" /\ log' = log /\ rows' = rows /\ queue' = queue \ {t} /\ backoff' = backoff
        /\ work.s # s
    BY <1>0, <1>6 DEF Reconcile, WorkTypes
  <2>2. CASE t # s
    BY <1>1, <2>1, <2>2
  <2>3. CASE t = s /\ Exists(Cached(s))
    <3>1. work' = [Idle EXCEPT !.pc = FirstStep(Cached(s)), !.s = s, !.obj = Cached(s),
                               !.behind = Len(log[s]) > 1]
      BY <1>6, <2>3 DEF Reconcile
    <3>2. work'.s = s
      BY <3>1 DEF Idle
    <3> QED BY <3>2 DEF Awaited
  <2>4. CASE t = s /\ ~ Exists(Cached(s))
    <3>1. Server(s)' = Server(s) /\ Exists(Server(s))
      BY <2>1 DEF Server, Active
    <3>2. Cached(s) = log[s][1] /\ Len(log[s]) \in Nat \ {0}
      BY VersionsTyped
    <3>3. Len(log[s]) # 1
      BY <2>4, <3>1, <3>2 DEF Server
    <3>4. \A n \in Nat \ {0} : n # 1 => n > 1
      OBVIOUS
    <3>5. Len(log'[s]) > 1
      BY <2>1, <3>2, <3>3, <3>4
    <3> QED BY <3>5 DEF Awaited
  <2> QED BY <2>2, <2>3, <2>4
<1>7. ASSUME NEW p \in Pods, AllocateNext(p) \/ Release(p) PROVE Awaited(s)'
  <2>1. UNCHANGED <<log, rows, queue, backoff>> /\ (work' = work \/ PoolChanged)
    BY <1>7 DEF AllocateNext, Release
  <2>2. work'.s = work.s
    BY <1>0, <2>1 DEF PoolChanged, Works
  <2> QED BY <1>1, <2>1, <2>2
<1>8. CASE Restart
  <2>1. Exists(Server(s))
    BY <1>8, RestartLists DEF Active
  <2> QED BY <1>8, <2>1 DEF Restart, Awaited
\* The worker, busy with another subnet.
<1>9. CASE Worker /\ work.s # s
  <2>1. log'[s] = log[s]
    <3>1. ASSUME NEW v \in Versions, WorkerWrite(v) PROVE log'[s] = log[s]
      BY <1>9, <3>1, WorkerFollows, WriteAppends DEF WorkerWrite
    <3> QED BY <1>9, <3>1, WorkerVersions
  <2>2. rows'[s] = rows[s]
    <3>1. CASE UpdateSwitch \/ CreateSwitch
      BY <1>0, <1>9, <3>1, ServingWrites DEF Serves
    <3>2. CASE DeleteSwitch
      BY <1>0, <1>9, <3>2, DeletingWrites
    <3> QED BY <1>0, <3>1, <3>2, RowSteps
  <2>3. s \in queue \cup backoff => s \in queue' \cup backoff'
    BY <1>9, WorkerRequeues
  <2> QED BY <1>1, <1>9, <2>1, <2>2, <2>3
\* The worker, done with s.
<1>10. CASE Worker /\ work.s = s
  <2>1. CASE work' # Idle
    <3>1. work'.s = s
      BY <1>10, <2>1, WorkerMoves DEF Moved
    <3> QED BY <3>1 DEF Awaited
  <2>2. CASE s \in backoff'
    BY <2>2 DEF Awaited
  <2>3. CASE work' = Idle /\ s \notin backoff'
    <3>1. work.pc \in {"statusActive", "dropAllocator", "removeFinalizer"}
      BY <1>10, <2>3, WorkerRequeues
    <3>2. CASE work.pc = "statusActive"
      <4>1. updateStatusActive
        BY <1>10, <3>2 DEF Worker, AddFinalizer, GetSwitch, UpdateSwitch, CreateSwitch, ensureIPAllocator,
               ReadAvailable, ReadUsed, updateStatusFailed, GetForDelete, DeleteSwitch, DropAllocator,
               RemoveFinalizer
      <4>2. /\ rows' = rows
            /\ \/ Write(s, work.obj)
               \/ Server(s) = work.obj /\ log' = log
        <5>1. Idle.pc = "idle"
          BY NullsTyped
        <5>2. \/ Update(work.obj, TRUE)
              \/ Server(work.s) = work.obj /\ log' = log
              \/ work' = [work EXCEPT !.pc = "statusFailed", !.behind = @ \/ log' # log,
                                      !.avail = 0, !.used = 0, !.torn = FALSE]
          BY <4>1 DEF updateStatusActive
        <5>3. Update(work.obj, TRUE) \/ (Server(work.s) = work.obj /\ log' = log)
          BY <1>0, <2>3, <5>1, <5>2 DEF Works
        <5>4. ASSUME Update(work.obj, TRUE) PROVE Write(work.s, work.obj)
          BY <5>4, UpdateWrites
        <5> QED BY <1>10, <4>1, <5>3, <5>4 DEF updateStatusActive
      <4>3. CASE Write(s, work.obj)
        <5>1. work.obj \in Versions
          BY <1>0 DEF Works
        <5> QED BY <1>2, <4>3, <5>1
      <4>4. CASE Server(s) = work.obj /\ log' = log
        <5>1. Server(s)' = Server(s) /\ ~ work.obj.ext
          BY <4>4 DEF Server, Active
        <5>2. Carries(s, work.obj)
          BY <1>0, <1>10, <3>2, <5>1 DEF SpecInv, ServedSound, Counting
        <5>3. Carries(s, Server(s))'
          BY <4>2, <4>4, <5>1, <5>2 DEF Carries
        <5> QED BY <5>3 DEF Awaited
      <4> QED BY <4>2, <4>3, <4>4
    <3>3. CASE work.pc = "dropAllocator"
      <4>1. DropAllocator
        BY <1>10, <3>3 DEF Worker, AddFinalizer, GetSwitch, UpdateSwitch, CreateSwitch, ensureIPAllocator,
               ReadAvailable, ReadUsed, updateStatusActive, updateStatusFailed, GetForDelete, DeleteSwitch,
               RemoveFinalizer
      <4>2. work.obj.fin
        BY <3>3 DEF LogInv, WorkSound, Deleting
      <4>3. work'.pc = "removeFinalizer"
        BY <1>0, <4>1, <4>2 DEF DropAllocator, Goto, Works
      <4> QED BY <2>3, <4>3, NullsTyped
    <3>4. CASE work.pc = "removeFinalizer"
      <4>1. RemoveFinalizer
        BY <1>10, <3>4 DEF Worker, AddFinalizer, GetSwitch, UpdateSwitch, CreateSwitch, ensureIPAllocator,
               ReadAvailable, ReadUsed, updateStatusActive, updateStatusFailed, GetForDelete, DeleteSwitch,
               DropAllocator
      <4>2. PICK ok \in BOOLEAN : Update([work.obj EXCEPT !.fin = FALSE], ok) /\ Return(~ ok)
        BY <4>1 DEF RemoveFinalizer
      <4>3. ok
        BY <1>10, <2>3, <4>2 DEF Return
      <4>4. Write(s, [work.obj EXCEPT !.fin = FALSE])
        BY <1>10, <4>2, <4>3, UpdateWrites
      <4>5. [work.obj EXCEPT !.fin = FALSE] \in Versions
        BY <1>0 DEF Works, Versions
      <4> QED BY <1>2, <4>4, <4>5
    <3> QED BY <3>1, <3>2, <3>3, <3>4
  <2> QED BY <2>1, <2>2, <2>3
<1>11. CASE UNCHANGED vars
  BY <1>1, <1>11 DEF vars
<1> QED BY <1>0, <1>3, <1>4, <1>5, <1>6, <1>7, <1>8, <1>9, <1>10, <1>11 DEF Next

\* The part of the invariant about what is still to be done is kept.
LEMMA SpecInvKept ==
  ASSUME Types, CountsSound, LogInv, RowInv, SpecInv, [Next]_vars
  PROVE  SpecInv'
BY ServedKept, PendingKept DEF SpecInv

-----------------------------------------------------------------------------
(* The theorems.                                                           *)

\* The invariant holds at the start.
LEMMA InvInit == Init => Inv
<1> SUFFICES ASSUME Init PROVE Inv
  OBVIOUS
<1> USE DEF Init
<1>1. /\ \A v \in Versions : <<v>> \in Seq(Versions) /\ <<v>> # <<>> /\ Len(<<v>>) = 1 /\ <<v>>[1] = v
                             /\ DOMAIN <<v>> = {1}
      /\ Absent \in Versions
  BY NullsTyped
<1>2. \A s \in Subnet : /\ log[s] = <<Absent>> /\ Len(log[s]) = 1 /\ DOMAIN log[s] = {1}
                        /\ log[s][1] = Absent /\ Server(s) = Absent
  BY <1>1 DEF Server
<1>3. work = Idle /\ work.pc = "idle" /\ work.s = NoSubnet /\ NoSubnet \notin Subnet
  BY NullsTyped
<1>4. spent.births = 0 /\ spent.foreign = 0
  OBVIOUS
<1>5. ~ Exists(Absent) /\ ~ Absent.fin /\ ~ Absent.del /\ Absent.uid = 0
  BY NullsTyped DEF Exists
<1>6. Types
  <2>1. LogTypes
    BY <1>1 DEF LogTypes
  <2>2. QueueTypes /\ WorkTypes
    BY <1>3, NullsTyped DEF QueueTypes, WorkTypes
  <2>3. RowTypes /\ IpamTypes
    BY NullsTyped DEF RowTypes, IpamTypes
  <2>4. CountTypes
    BY DEF CountTypes
  <2> QED BY <2>1, <2>2, <2>3, <2>4 DEF Types
<1>7. IpamInv
  BY <1>3 DEF IpamInv, PointerSound, HoldsSound, HeldIsTaken, CountsSound, StatusAddsUp, Counting, NoPointer
<1>8. LogInv
  <2>1. \A s \in Subnet : HistorySound(s)
    BY <1>2, <1>4, <1>5 DEF HistorySound, VersionSound, Same
  <2> QED BY <1>3, <2>1 DEF LogInv, WorkSound, Serving, Deleting
<1>9. RowInv
  <2>1. \A n \in Switches : rows[n] = NoRow
    OBVIOUS
  <2>2. \A s \in Subnet : ~ IsOurManaged(rows[s])
    BY <2>1 DEF IsOurManaged, Switches, NoRow
  <2> QED BY <1>3, <2>1, <2>2 DEF RowInv, RowsSound, OwnedSound, RememberedSound, Holding
<1>10. SpecInv
  BY <1>2, <1>3, <1>5 DEF SpecInv, PendingSound, ServedSound, Active, Counting
<1> QED BY <1>6, <1>7, <1>8, <1>9, <1>10 DEF Inv

\* The invariant is kept by every step of the specification.
LEMMA InvKept == Inv /\ [Next]_vars => Inv'
<1> SUFFICES ASSUME Inv, [Next]_vars PROVE Inv'
  OBVIOUS
<1>1. Types /\ IpamInv /\ LogInv /\ RowInv /\ SpecInv
  BY DEF Inv
<1>2. PointerSound /\ HoldsSound /\ CountsSound
  BY <1>1 DEF IpamInv
<1>3. Types' /\ IpamInv'
  BY <1>1, <1>2, TypesKept, IpamInvKept
<1>4. LogInv' /\ RowInv' /\ SpecInv'
  BY <1>1, <1>2, LogInvKept, RowInvKept, SpecInvKept
<1> QED BY <1>3, <1>4 DEF Inv

\* The inductive invariant: state well formed, allocators and pointer consistent
\* with what pods hold, versions, copy and rows consistent with each other, and
\* every switch that is not as its spec says on somebody's list, for any number
\* of subnets, pods, failures and restarts.
THEOREM Invariance == Spec => []Inv
BY InvInit, InvKept, PTL DEF Spec

\* The types of the invariant are those the runs check.
LEMMA TypesImplyTypeOK == Types => TypeOK
<1> SUFFICES ASSUME Types PROVE TypeOK
  OBVIOUS
<1> USE DEF Types
<1>1. \A s \in Subnet : log[s] # <<>> /\ \A i \in DOMAIN log[s] : log[s][i] \in Versions
  BY VersionsTyped DEF LogTypes
<1>2. Allocators \subseteq Pools
  <2> SUFFICES ASSUME NEW a \in Allocators, a # NoPool PROVE a \in Pools
    BY DEF Pools
  <2>1. a.cidr \in DOMAIN PoolOf /\ a.taken \subseteq PoolOf[a.cidr] /\ a = [cidr |-> a.cidr, taken |-> a.taken]
    BY CountsTyped
  <2>2. a.taken \in SUBSET UNION {PoolOf[c] : c \in DOMAIN PoolOf}
    BY <2>1
  <2> QED BY <2>1, <2>2 DEF Pools
<1>3. \A s \in Subnet : allocators[s] \in Pools
  BY <1>2 DEF IpamTypes
<1>4. grabbed \in [s : Subnet \cup {NoSubnet}, own : Pools]
  BY <1>2 DEF IpamTypes
<1>5. /\ config \in {"standalone", "external"} /\ queue \cup backoff \subseteq Subnet
      /\ rows \in [Switches -> Rows] /\ forgotten \in BOOLEAN
      /\ holds \in [Pods -> [s : Subnet \cup {NoSubnet}, ip : Nat]]
  BY DEF RowTypes, QueueTypes, IpamTypes, Addresses
<1>6. work \in [pc : Steps, s : Subnet \cup {NoSubnet}, obj : Versions, row : Rows,
                avail : Nat, used : Nat, behind : BOOLEAN, torn : BOOLEAN]
  BY DEF WorkTypes, Works
<1> QED BY <1>1, <1>3, <1>4, <1>5, <1>6 DEF TypeOK

\* State stays well formed, and an address a pod holds stays taken in the
\* allocator its subnet has, unless an allocator was dropped in use: no retry,
\* failure, stale copy or reconcile beside the pod worker replaces one.
THEOREM AllocatorsAreSound == Spec => []AllocatorsSound
<1>1. Inv => AllocatorsSound
  BY TypesImplyTypeOK DEF Inv, IpamInv, AllocatorsSound
<1> QED BY <1>1, Invariance, PTL

\* The counts of an Active status add up to the size of the subnet's pool unless
\* a pod took or gave back an address between the two reads.
THEOREM StatusAlwaysAddsUp == Spec => []StatusAddsUp
<1>1. Inv => StatusAddsUp
  BY DEF Inv, IpamInv, CountsSound
<1> QED BY <1>1, Invariance, PTL

\* Once everything has settled an Active subnet's own switch is ours and carries
\* the CIDR of the spec as it is now, if no other program wrote to the database.
THEOREM SwitchAlwaysFollowsSpec == Spec => []SwitchFollowsSpec
<1>1. Inv => SwitchFollowsSpec
  <2> SUFFICES ASSUME Inv, Settled, spent.foreign = 0, NEW s \in Subnet,
                      Exists(Server(s)), ~ Server(s).ext, Server(s).phase = "Active"
               PROVE  rows[s].managedBy = "ours" /\ rows[s].cidr = Server(s).cidr
    BY DEF SwitchFollowsSpec
  <2>1. /\ queue \cup backoff = {} /\ work.s # s /\ Len(log[s]) = 1 /\ ~ (1 > 1)
    BY NullsTyped DEF Settled
  <2>2. Carries(s, Server(s))
    BY <2>1 DEF Inv, SpecInv, PendingSound, Active
  <2> QED BY <2>2 DEF Carries
<1> QED BY <1>1, Invariance, PTL

\* A step of ours changes or removes a switch that ZStack has marked only if the
\* row has changed since the reconcile read it.
THEOREM ZStackIsRespected == Spec => RespectsZStack
<1>1. Inv /\ [Next]_vars =>
        [\A n \in Switches :
           IsZStackManaged(rows[n]) /\ rows'[n] # rows[n] /\ spent'.foreign = spent.foreign
             => work.row # rows[n]]_vars
  <2> SUFFICES ASSUME Inv, [Next]_vars, NEW n \in Switches, IsZStackManaged(rows[n]),
                      rows'[n] # rows[n], spent'.foreign = spent.foreign, work.row = rows[n]
               PROVE  FALSE
    OBVIOUS
  <2>1. ~ IsOurManaged(rows[n])
    BY DEF IsZStackManaged, IsOurManaged
  <2>2. ~ ZStackWrites
    <3>1. ASSUME ZStackWrites PROVE FALSE
      <4>1. spent \in [births : Nat, foreign : Nat, other : Nat]
        BY DEF Inv, Types, CountTypes
      <4>2. spent' = [spent EXCEPT !.foreign = @ + 1]
        BY <3>1 DEF ZStackWrites, Upset
      <4>3. spent'.foreign = spent.foreign + 1 /\ spent.foreign \in Nat
        BY <4>1, <4>2
      <4>4. \A k \in Nat : k + 1 # k
        OBVIOUS
      <4> QED BY <4>3, <4>4
    <3> QED BY <3>1
  <2>3. CASE UpdateSwitch \/ DeleteSwitch
    <3>1. work.pc \in Holding
      BY <2>3 DEF UpdateSwitch, DeleteSwitch, Holding
    <3> QED BY <2>1, <3>1 DEF Inv, RowInv, RememberedSound
  <2>4. CASE CreateSwitch
    <3>1. /\ work.s \in Subnet /\ ~ work.obj.ext /\ rows \in [Switches -> Rows]
          /\ rows' = rows \/ \E row \in Rows : Serves(row)
      BY <2>4, ServingWrites DEF Inv, Types, RowTypes
    <3>2. n = work.s
      BY <3>1 DEF Serves
    <3>3. rows[n] = NoRow
      <4>1. SwitchName(work.s, work.obj) = n
        BY <3>1, <3>2 DEF SwitchName
      <4>2. ASSUME rows[n] # NoRow PROVE rows' = rows
        BY <2>4, <4>1, <4>2 DEF CreateSwitch
      <4> QED BY <4>2
    <3>4. NoRow.managedBy = "" /\ NoRow.vpc = FALSE
      BY DEF NoRow
    <3>5. ~ IsZStackManaged(NoRow)
      BY <3>4, Zenon DEF IsZStackManaged
    <3> QED BY <3>3, <3>5
  <2> QED BY <2>2, <2>3, <2>4, RowSteps
<1> QED BY <1>1, Invariance, PTL DEF Spec, RespectsZStack

\* Only a subnet that is being deleted, or is gone, takes its switch along.
THEOREM DeletionOnly == Spec => OnlyDeletionRemoves
<1>1. Inv /\ [Next]_vars =>
        [\A s \in Subnet :
           rows[s] # NoRow /\ rows'[s] = NoRow /\ spent'.foreign = spent.foreign
             => Server(s).del \/ ~ Exists(Server(s)) \/ IsZStackManaged(rows[s])]_vars
  <2> SUFFICES ASSUME Inv, [Next]_vars, NEW s \in Subnet, rows[s] # NoRow, rows'[s] = NoRow,
                      spent'.foreign = spent.foreign
               PROVE  Server(s).del \/ ~ Exists(Server(s)) \/ IsZStackManaged(rows[s])
    OBVIOUS
  <2>0. /\ rows \in [Switches -> Rows] /\ s \in Switches /\ NoRow.uuid = 0
    BY DEF Inv, Types, RowTypes, Switches, NoRow
  <2>1. ~ ZStackWrites
    <3>1. ASSUME ZStackWrites PROVE FALSE
      <4>1. spent \in [births : Nat, foreign : Nat, other : Nat]
        BY DEF Inv, Types, CountTypes
      <4>2. spent' = [spent EXCEPT !.foreign = @ + 1]
        BY <3>1 DEF ZStackWrites, Upset
      <4>3. spent'.foreign = spent.foreign + 1 /\ spent.foreign \in Nat
        BY <4>1, <4>2
      <4>4. \A k \in Nat : k + 1 # k
        OBVIOUS
      <4> QED BY <4>3, <4>4
    <3> QED BY <3>1
  <2>2. ~ (UpdateSwitch \/ CreateSwitch)
    <3>1. ASSUME UpdateSwitch \/ CreateSwitch PROVE FALSE
      <4>1. \E row \in Rows : Serves(row)
        BY <3>1, ServingWrites DEF Inv
      <4>2. PICK row \in Rows : rows' = [rows EXCEPT ![work.s] = row] /\ row.uuid # 0
        BY <4>1 DEF Serves
      <4> QED BY <2>0, <4>2
    <3> QED BY <3>1
  <2>3. DeleteSwitch
    BY <2>1, <2>2, RowSteps
  <2>4. work.s = s /\ work.pc = "deleteSwitch"
    BY <2>0, <2>3, DeletingWrites DEF Inv
  <2>5. CASE IsOurManaged(rows[s])
    <3>1. work.obj.uid = Server(s).uid
      BY <2>4, <2>5 DEF Inv, RowInv, OwnedSound
    <3>2. Len(log[s]) \in DOMAIN log[s]
      BY VersionsTyped DEF Inv, Types
    <3> QED BY <2>4, <3>1, <3>2 DEF Inv, LogInv, WorkSound, Deleting, Server
  <2>6. CASE ~ IsOurManaged(rows[s])
    BY <2>0, <2>6 DEF Inv, RowInv, RowsSound
  <2> QED BY <2>5, <2>6
<1> QED BY <1>1, Invariance, PTL DEF Spec, OnlyDeletionRemoves
=============================================================================
