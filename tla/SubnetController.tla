-------------------------- MODULE SubnetController --------------------------
(***************************************************************************)
(* pkg/ovn/subnet_controller.go with pkg/ovndb/zstack.go and               *)
(* logical_switch.go: the Subnet reconciler, the logical switches it       *)
(* shares with ZStack, and the pod controller's use of the allocators it   *)
(* keeps.  A step is one call out of the process, or one critical section  *)
(* of allocatorsMu.  An allocator is the IPPool that SubnetAllocator       *)
(* implements, with the lowest free address handed out first.              *)
(***************************************************************************)
EXTENDS Naturals, Sequences, FiniteSetsExt

CONSTANTS
  Subnet,        \* Subnet names; a subnet's own switch has its name
  NoSubnet,
  ExternalName,  \* the switch an external-mode subnet refers to
  Pods,          \* holders of addresses
  PoolOf,        \* addresses of each CIDR a spec may name; {} is too small
  MaxBirths,     \* bound: subnets created
  MaxUpsets,     \* bound: edits, ZStack's writes, faults and restarts together
  MaxLag         \* bound: versions the informer may be behind

ASSUME SubnetAssumption ==
  /\ IsFiniteSet(Subnet) /\ NoSubnet \notin Subnet /\ ExternalName \notin Subnet
  /\ DOMAIN PoolOf # {} /\ 0 \notin DOMAIN PoolOf
  /\ \A c \in DOMAIN PoolOf : PoolOf[c] \subseteq Nat \ {0} /\ IsFiniteSet(PoolOf[c])
  /\ {MaxBirths, MaxUpsets, MaxLag} \subseteq Nat

VARIABLES
  config,      \* "standalone" or "external": the controller's mode
  log,         \* per subnet: versions from the cache's to the API server's
  queue, backoff,
  work,        \* the reconcile in progress
  rows,        \* OVN: switch name -> row
  allocators,  \* subnet -> its allocator: CIDR and addresses taken
  grabbed,     \* the pod worker's pointer from GetAllocator
  holds,       \* pod -> subnet and address
  forgotten,   \* history: an allocator was dropped while in use
  spent        \* bounds used up: births, ZStack's writes, other upsets

vars == <<config, log, queue, backoff, work, rows, allocators, grabbed,
          holds, forgotten, spent>>

ipam == <<allocators, grabbed, forgotten>>

Switches == Subnet \cup {ExternalName}

Upset(what) ==
  /\ spent.foreign + spent.other < MaxUpsets
  /\ spent' = [spent EXCEPT ![what] = @ + 1]

-----------------------------------------------------------------------------
(* Subnets and switch rows.                                                *)

Versions ==
  [uid : Nat, ext : BOOLEAN, cidr : DOMAIN PoolOf, fin : BOOLEAN, del : BOOLEAN,
   phase : {"", "Active", "Failed"}]

Absent == [uid |-> 0, ext |-> FALSE, cidr |-> CHOOSE c \in DOMAIN PoolOf : TRUE,
           fin |-> FALSE, del |-> FALSE, phase |-> ""]

Exists(v) == v.uid # 0
Cached(s) == Head(log[s])
Server(s) == log[s][Len(log[s])]

\* GetLogicalSwitchName.
SwitchName(s, v) == IF v.ext THEN ExternalName ELSE s

\* managedBy is the zstack.io/managed-by external ID, vpc whether one of
\* ZStack's own UUID keys is there.
Rows == [uuid : Nat, managedBy : {"", "zstack", "ours"}, vpc : BOOLEAN,
         cidr : DOMAIN PoolOf \cup {0}]

NoRow == [uuid |-> 0, managedBy |-> "", vpc |-> FALSE, cidr |-> 0]

IsZStackManaged(row) ==
  IF row.managedBy # "" THEN row.managedBy = "zstack" ELSE row.vpc

IsOurManaged(row) == row.managedBy = "ours"

NoPool == [cidr |-> 0, taken |-> {}]
NoAddress == [s |-> NoSubnet, ip |-> 0]

\* own is the allocator held when it is no longer its subnet's.
NoPointer == [s |-> NoSubnet, own |-> NoPool]

Idle == [pc |-> "idle", s |-> NoSubnet, obj |-> Absent, row |-> NoRow, avail |-> 0, used |-> 0,
         behind |-> FALSE, torn |-> FALSE]

Steps == {"idle", "addFinalizer", "getSwitch", "update", "create",
          "allocator", "readAvailable", "readUsed", "statusActive", "statusFailed",
          "getForDelete", "deleteSwitch", "dropAllocator", "removeFinalizer"}

Init ==
  /\ config \in {"standalone", "external"}
  /\ log = [s \in Subnet |-> <<Absent>>]
  /\ queue = {} /\ backoff = {} /\ work = Idle
  /\ rows = [n \in Switches |-> NoRow]
  /\ allocators = [s \in Subnet |-> NoPool]
  /\ grabbed = NoPointer
  /\ holds = [p \in Pods |-> NoAddress]
  /\ forgotten = FALSE
  /\ spent = [births |-> 0, foreign |-> 0, other |-> 0]

-----------------------------------------------------------------------------
(* The API server, its users and the informer.                             *)

Write(s, v) ==
  log' = [log EXCEPT ![s] = Append(@, IF v.del /\ ~ v.fin THEN Absent ELSE v)]

\* Somebody else's write: a reconcile of this subnet now works on an old copy.
UserWrites(s, v) ==
  /\ Len(log[s]) <= MaxLag
  /\ Write(s, v)
  /\ work' = IF work.s = s THEN [work EXCEPT !.behind = TRUE] ELSE work
  /\ UNCHANGED <<config, queue, backoff, rows, ipam, holds>>

CreateSubnet(s) ==
  /\ ~ Exists(Server(s)) /\ spent.births < MaxBirths
  /\ spent' = [spent EXCEPT !.births = @ + 1]
  /\ \E ext \in BOOLEAN, c \in DOMAIN PoolOf :
       UserWrites(s, [Absent EXCEPT !.uid = spent.births + 1, !.ext = ext, !.cidr = c])

EditSubnet(s) ==
  /\ Exists(Server(s)) /\ ~ Server(s).del /\ Upset("other")
  /\ \E c \in DOMAIN PoolOf \ {Server(s).cidr} :
       UserWrites(s, [Server(s) EXCEPT !.cidr = c])

DeleteSubnet(s) ==
  /\ Exists(Server(s)) /\ ~ Server(s).del
  /\ UserWrites(s, [Server(s) EXCEPT !.del = TRUE])
  /\ UNCHANGED spent

\* SetupWithManager has no predicate: every event queues the subnet.
Deliver(s) ==
  /\ Len(log[s]) > 1
  /\ log' = [log EXCEPT ![s] = Tail(@)]
  /\ queue' = queue \cup {s}
  /\ UNCHANGED <<config, backoff, work, rows, ipam, holds, spent>>

BackoffExpires(s) ==
  /\ s \in backoff
  /\ backoff' = backoff \ {s} /\ queue' = queue \cup {s}
  /\ UNCHANGED <<config, log, work, rows, ipam, holds, spent>>

\* A UUID that no row has and no reconcile remembers.
NewUUID == Min((1 .. Cardinality(Switches) + 2)
                 \ ({rows[n].uuid : n \in Switches} \cup {work.row.uuid}))

\* ZStack, in the same northbound database: it makes a switch, marks one with
\* its VPC, or removes one.
ZStackWrites ==
  /\ Upset("foreign")
  /\ \E n \in Switches :
       \/ /\ rows[n] = NoRow
          /\ \E m \in {"", "zstack"} :
               rows' = [rows EXCEPT ![n] = [uuid |-> NewUUID, managedBy |-> m,
                                            vpc |-> TRUE, cidr |-> 0]]
       \/ /\ rows[n] # NoRow
          /\ \/ rows' = [rows EXCEPT ![n].vpc = TRUE, ![n].managedBy = "zstack"]
             \/ rows' = [rows EXCEPT ![n] = NoRow]
  /\ UNCHANGED <<config, log, queue, backoff, work, ipam, holds>>

-----------------------------------------------------------------------------
(* Reconcile.                                                              *)

Return(again) ==
  /\ work' = Idle
  /\ backoff' = IF again THEN backoff \cup {work.s} ELSE backoff
  /\ UNCHANGED queue

Goto(pc) == work' = [work EXCEPT !.pc = pc] /\ UNCHANGED <<queue, backoff>>

\* The same, and the row read before is not used any more.
Forget(pc) == work' = [work EXCEPT !.pc = pc, !.row = NoRow] /\ UNCHANGED <<queue, backoff>>

Fails == Upset("other")

\* Mutation of FirstStep: an invalid subnet is cleaned up after.
FirstStepCleansUp(v) ==
  IF v.del \/ PoolOf[v.cidr] = {} THEN "getForDelete"
  ELSE IF ~ v.fin THEN "addFinalizer" ELSE "getSwitch"

\* Mutation of FirstStep: the deletion timestamp is looked at only once the
\* finalizer is known to be there, and then as any other change.
FirstStepIgnoresDeletion(v) == IF v.fin THEN "getSwitch" ELSE "addFinalizer"

\* Up to the first call; validateSubnet makes none.
FirstStep(v) ==
  IF v.del THEN IF v.ext THEN "dropAllocator" ELSE "getForDelete"
  ELSE IF ~ v.fin THEN "addFinalizer"
  ELSE IF PoolOf[v.cidr] = {} THEN "statusFailed" ELSE "getSwitch"

Reconcile(s) ==
  /\ work.pc = "idle" /\ s \in queue
  /\ queue' = queue \ {s}
  /\ work' = IF Exists(Cached(s))
             THEN [Idle EXCEPT !.pc = FirstStep(Cached(s)), !.s = s, !.obj = Cached(s),
                               !.behind = Len(log[s]) > 1]
             ELSE work
  /\ UNCHANGED <<config, log, backoff, rows, ipam, holds, spent>>

\* client.Update: refused for a copy that is behind; it may fail, or be done
\* and its answer lost.
Update(v, ok) ==
  \/ ok /\ ~ work.behind /\ Write(work.s, v) /\ UNCHANGED spent
  \/ ~ ok /\ work.behind /\ UNCHANGED <<log, spent>>
  \/ ~ ok /\ Fails /\ (UNCHANGED log \/ (~ work.behind /\ Write(work.s, v)))

AddFinalizer ==
  /\ work.pc = "addFinalizer"
  /\ \E ok \in BOOLEAN : Update([work.obj EXCEPT !.fin = TRUE], ok)
  /\ Return(TRUE)
  /\ UNCHANGED <<config, rows, ipam, holds>>

\* Mutation of Wanted: other_config is left as it was.
WantedKeepsConfig(row) == [row EXCEPT !.managedBy = "ours", !.vpc = config = "external" /\ row.vpc]

\* The row a subnet's reconcile wants, from the one it read.
Wanted(row) ==
  [row EXCEPT !.managedBy = "ours", !.cidr = work.obj.cidr,
              !.vpc = config = "external" /\ row.vpc]

\* ValidateExternalLogicalSwitch: the switch has only to be there.
Validated(row) == IF row = NoRow THEN "statusFailed" ELSE "allocator"

\* Mutation of AfterGet: any marked switch may be updated in external mode.
AfterGetTakesOver(row) ==
  CASE work.obj.ext  -> Validated(row)
    [] ~ work.obj.ext /\ row = NoRow -> "create"
    [] ~ work.obj.ext /\ row # NoRow -> "update"

\* verifyExternalLogicalSwitch, ensureLogicalSwitch and
\* SafeCreateLogicalSwitch: what is done about the row found.
AfterGet(row) ==
  CASE work.obj.ext -> Validated(row)
    [] ~ work.obj.ext /\ row = NoRow -> "create"
    [] ~ work.obj.ext /\ row # NoRow ->
         IF ~ IsOurManaged(row) THEN "statusFailed"
         ELSE IF config = "standalone" /\ Wanted(row) = row THEN "allocator" ELSE "update"

GetSwitch ==
  /\ work.pc = "getSwitch"
  /\ LET row == rows[SwitchName(work.s, work.obj)] IN
       \/ /\ work' = [work EXCEPT !.pc = AfterGet(row),
                                  !.row = IF AfterGet(row) = "update" THEN row ELSE NoRow]
          /\ UNCHANGED <<queue, backoff, spent>>
       \/ Fails /\ Goto("statusFailed")
  /\ UNCHANGED <<config, log, rows, ipam, holds>>

\* An OVN transaction that makes the database's rows new: it is done and the
\* reconcile goes on, or it fails or its answer is lost.
Transact(new, next, fail) ==
  \/ rows' = new /\ Forget(next) /\ UNCHANGED spent
  \/ Fails /\ rows' \in {rows, new} /\ Forget(fail)

\* All of external_ids and other_config is written, from the copy read before.
\* Rows are found by UUID: one that is gone takes no update, without an error.
UpdateSwitch ==
  /\ work.pc = "update"
  /\ Transact([n \in Switches |-> IF rows[n].uuid = work.row.uuid
                                  THEN Wanted(work.row) ELSE rows[n]],
              "allocator", "statusFailed")
  /\ UNCHANGED <<config, log, ipam, holds>>

\* The name has been taken since: names are unique.
CreateSwitch ==
  /\ work.pc = "create"
  /\ LET n == SwitchName(work.s, work.obj)
         row == [Wanted(NoRow) EXCEPT !.uuid = NewUUID]
     IN  IF rows[n] # NoRow
         THEN Forget("statusFailed") /\ UNCHANGED <<rows, spent>>
         ELSE Transact([rows EXCEPT ![n] = row], "allocator", "statusFailed")
  /\ UNCHANGED <<config, log, ipam, holds>>

NewPool == [cidr |-> work.obj.cidr, taken |-> {}]

\* Mutation of ensureIPAllocator: the allocator is made anew each time.
EnsureAfresh ==
  /\ work.pc = "allocator"
  /\ allocators' = [allocators EXCEPT ![work.s] = NewPool]
  /\ Goto("readAvailable")
  /\ UNCHANGED <<config, log, rows, grabbed, holds, forgotten, spent>>

\* An allocator that is there is kept, whatever the spec says by now.
ensureIPAllocator ==
  /\ work.pc = "allocator"
  /\ allocators' = IF allocators[work.s] # NoPool THEN allocators
                    ELSE [allocators EXCEPT ![work.s] = NewPool]
  /\ Goto("readAvailable")
  /\ UNCHANGED <<config, log, rows, grabbed, holds, forgotten, spent>>

Size(a) == Cardinality(PoolOf[a.cidr])

Taken(a) == Cardinality(a.taken)

\* updateStatusActive reads the counts under two locks, then writes.
ReadAvailable ==
  /\ work.pc = "readAvailable"
  /\ LET a == allocators[work.s] IN
     work' = [work EXCEPT !.pc = "readUsed", !.avail = Size(a) - Taken(a)]
  /\ UNCHANGED <<config, log, queue, backoff, rows, ipam, holds, spent>>

\* Mutation of ReadUsed: only addresses of the spec's CIDR are counted.
ReadUsedOfSpec ==
  /\ work.pc = "readUsed"
  /\ work' = [work EXCEPT !.pc = "statusActive", !.obj.phase = "Active",
                          !.used = Cardinality(allocators[work.s].taken \cap PoolOf[work.obj.cidr])]
  /\ UNCHANGED <<config, log, queue, backoff, rows, ipam, holds, spent>>

ReadUsed ==
  /\ work.pc = "readUsed"
  /\ work' = [work EXCEPT !.pc = "statusActive", !.obj.phase = "Active",
                          !.used = Taken(allocators[work.s])]
  /\ UNCHANGED <<config, log, queue, backoff, rows, ipam, holds, spent>>

\* LastUpdateTime has whole seconds: a second write of the same counts within
\* one is no change and makes no event.
updateStatusActive ==
  /\ work.pc = "statusActive"
  /\ \/ Update(work.obj, TRUE) /\ Return(FALSE)
     \/ ~ work.behind /\ Server(work.s) = work.obj /\ Return(FALSE) /\ UNCHANGED <<log, spent>>
     \/ /\ Update(work.obj, FALSE)
        /\ work' = [work EXCEPT !.pc = "statusFailed", !.behind = @ \/ log' # log,
                               !.avail = 0, !.used = 0, !.torn = FALSE]
        /\ UNCHANGED <<queue, backoff>>
  /\ UNCHANGED <<config, rows, ipam, holds>>

updateStatusFailed ==
  /\ work.pc = "statusFailed"
  /\ \E ok \in BOOLEAN : Update([work.obj EXCEPT !.phase = "Failed"], ok)
  /\ Return(TRUE)
  /\ UNCHANGED <<config, rows, ipam, holds>>

-----------------------------------------------------------------------------
(* handleDeletion.                                                         *)

MayDelete(row) == IsOurManaged(row)

\* SafeDeleteLogicalSwitch refuses a row that is not ours, and the deletion is
\* tried again; the standalone branch leaves such a row where it is.
GetForDelete ==
  /\ work.pc = "getForDelete"
  /\ LET row == rows[SwitchName(work.s, work.obj)] IN
       \/ /\ row = NoRow \/ MayDelete(row) \/ config = "standalone"
          /\ IF row # NoRow /\ MayDelete(row)
             THEN /\ work' = [work EXCEPT !.row = row, !.pc = "deleteSwitch"]
                  /\ UNCHANGED <<queue, backoff>>
             ELSE Goto("dropAllocator")
          /\ UNCHANGED spent
       \/ row # NoRow /\ ~ MayDelete(row) /\ config = "external" /\ Return(TRUE) /\ UNCHANGED spent
       \/ Fails /\ Return(TRUE)
  /\ UNCHANGED <<config, log, rows, ipam, holds>>

\* DeleteLogicalSwitch goes by name: whatever row has it now.
DeleteSwitch ==
  /\ work.pc = "deleteSwitch"
  /\ LET new == [rows EXCEPT ![SwitchName(work.s, work.obj)] = NoRow] IN
       \/ rows' = new /\ Forget("dropAllocator") /\ UNCHANGED spent
       \/ Fails /\ rows' \in {rows, new} /\ Return(TRUE)
  /\ UNCHANGED <<config, log, ipam, holds>>

\* What is left of the pod worker's pointer, and what is on record, once the
\* allocators of D are dropped: the worker keeps the one it has in hand.
Dropped(D) ==
  /\ allocators' = [s \in Subnet |-> IF s \in D THEN NoPool ELSE allocators[s]]
  /\ forgotten' = (forgotten \/ \E s \in D : grabbed.s = s \/ allocators[s].taken # {})

DropAllocator ==
  /\ work.pc = "dropAllocator"
  /\ Dropped({work.s})
  /\ grabbed' = IF grabbed.s = work.s /\ grabbed.own = NoPool
                THEN [grabbed EXCEPT !.own = allocators[work.s]] ELSE grabbed
  /\ IF work.obj.fin THEN Goto("removeFinalizer") ELSE Return(FALSE)
  /\ UNCHANGED <<config, log, rows, holds, spent>>

RemoveFinalizer ==
  /\ work.pc = "removeFinalizer"
  /\ \E ok \in BOOLEAN : Update([work.obj EXCEPT !.fin = FALSE], ok) /\ Return(~ ok)
  /\ UNCHANGED <<config, rows, ipam, holds>>

-----------------------------------------------------------------------------
(* The pod worker: GetAllocator, then AllocateNext on what it returned.    *)

PoolChanged == work' = IF work.pc = "readUsed" THEN [work EXCEPT !.torn = TRUE] ELSE work

GetAllocator(s) ==
  /\ grabbed = NoPointer /\ Cached(s).phase = "Active" /\ allocators[s] # NoPool
  /\ grabbed' = [NoPointer EXCEPT !.s = s]
  /\ UNCHANGED <<config, log, queue, backoff, work, rows, allocators, forgotten, holds, spent>>

AllocateNext(p) ==
  /\ grabbed # NoPointer /\ holds[p] = NoAddress
  /\ LET a == IF grabbed.own # NoPool THEN grabbed.own ELSE allocators[grabbed.s]
         free == PoolOf[a.cidr] \ a.taken
     IN  IF free = {} THEN UNCHANGED <<allocators, holds, work>>
         ELSE /\ holds' = [holds EXCEPT ![p] = [s |-> grabbed.s, ip |-> Min(free)]]
              /\ IF grabbed.own # NoPool THEN UNCHANGED <<allocators, work>>
                 ELSE /\ allocators' = [allocators EXCEPT ![grabbed.s].taken = @ \cup {Min(free)}]
                      /\ PoolChanged
  /\ grabbed' = NoPointer
  /\ UNCHANGED <<config, log, queue, backoff, rows, forgotten, spent>>

\* A deleted pod's address goes to the allocator its subnet has now.
Release(p) ==
  /\ holds[p] # NoAddress /\ grabbed = NoPointer
  /\ allocators' = [allocators EXCEPT ![holds[p].s].taken = @ \ {holds[p].ip}]
  /\ PoolChanged
  /\ holds' = [holds EXCEPT ![p] = NoAddress]
  /\ UNCHANGED <<config, log, queue, backoff, rows, forgotten, grabbed, spent>>

Restart ==
  /\ Upset("other")
  /\ log' = [s \in Subnet |-> <<Server(s)>>]
  /\ queue' = {s \in Subnet : Exists(Server(s))} /\ backoff' = {} /\ work' = Idle
  /\ Dropped(Subnet)
  /\ grabbed' = NoPointer
  /\ UNCHANGED <<config, rows, holds>>

-----------------------------------------------------------------------------
Worker ==
  \/ AddFinalizer \/ GetSwitch \/ UpdateSwitch \/ CreateSwitch
  \/ ensureIPAllocator \/ ReadAvailable \/ ReadUsed \/ updateStatusActive
  \/ updateStatusFailed \/ GetForDelete \/ DeleteSwitch \/ DropAllocator \/ RemoveFinalizer

Next ==
  \/ \E s \in Subnet : \/ CreateSubnet(s) \/ EditSubnet(s) \/ DeleteSubnet(s)
                       \/ Deliver(s) \/ BackoffExpires(s) \/ Reconcile(s) \/ GetAllocator(s)
  \/ \E p \in Pods : AllocateNext(p) \/ Release(p)
  \/ Worker \/ ZStackWrites \/ Restart

Spec == Init /\ [][Next]_vars

Fairness ==
  /\ WF_vars(Worker)
  /\ \A s \in Subnet : WF_vars(Deliver(s)) /\ WF_vars(BackoffExpires(s)) /\ SF_vars(Reconcile(s))

FairSpec == Spec /\ Fairness

-----------------------------------------------------------------------------
(* Properties                                                              *)

Pools == {NoPool} \cup {[cidr |-> c, taken |-> t] : c \in DOMAIN PoolOf, t \in SUBSET UNION {PoolOf[c] : c \in DOMAIN PoolOf}}

TypeOK ==
  /\ config \in {"standalone", "external"}
  /\ \A s \in Subnet : log[s] # <<>> /\ \A i \in DOMAIN log[s] : log[s][i] \in Versions
  /\ queue \cup backoff \subseteq Subnet
  /\ work \in [pc : Steps, s : Subnet \cup {NoSubnet}, obj : Versions, row : Rows,
               avail : Nat, used : Nat, behind : BOOLEAN, torn : BOOLEAN]
  /\ rows \in [Switches -> Rows]
  /\ \A s \in Subnet : allocators[s] \in Pools
  /\ grabbed \in [s : Subnet \cup {NoSubnet}, own : Pools]
  /\ holds \in [Pods -> [s : Subnet \cup {NoSubnet}, ip : Nat]]
  /\ forgotten \in BOOLEAN

\* An address a pod holds stays taken in the allocator its subnet has now, so
\* it is given to no other pod, unless an allocator was dropped while it was in
\* use (a deleted Subnet or a restart: nothing in the code prevents either):
\* retries, failures, stale copies and reconciles beside the pod worker never
\* replace or reset one.
HeldIsTaken ==
  ~ forgotten => \A p \in Pods : holds[p] # NoAddress =>
                   holds[p].ip \in allocators[holds[p].s].taken

\* The allocators' side of the controller: well formed state, and no address of
\* a pod free to be handed out again.
AllocatorsSound == TypeOK /\ HeldIsTaken

\* A step of ours changes or removes a switch that ZStack has marked only if
\* that happened between our look at it and our write, which are separate
\* transactions: the check by itself never lets one through.
RespectsZStack ==
  [][\A n \in Switches :
       IsZStackManaged(rows[n]) /\ rows'[n] # rows[n] /\ spent'.foreign = spent.foreign
         => work.row # rows[n]]_vars

\* Only a Subnet that is being deleted, or is gone, takes its switch along,
\* although the reconcile goes by a copy that may be of an earlier Subnet of
\* the name.
OnlyDeletionRemoves ==
  [][\A s \in Subnet :
       rows[s] # NoRow /\ rows'[s] = NoRow /\ spent'.foreign = spent.foreign
         => Server(s).del \/ ~ Exists(Server(s)) \/ IsZStackManaged(rows[s])]_vars

\* The counts of an Active status add up to a size the subnet's CIDR has had,
\* unless a pod took or gave back an address between the two reads.
StatusAddsUp ==
  work.pc = "statusActive" /\ ~ work.torn =>
    work.avail + work.used = Size(allocators[work.s])

\* Once everything has settled, an Active subnet's own switch carries the CIDR
\* of the spec as it is now, if no other program wrote to it: edits made while
\* a reconcile was under way are not lost.
Settled == work = Idle /\ queue = {} /\ backoff = {} /\ \A s \in Subnet : Len(log[s]) = 1

SwitchFollowsSpec ==
  Settled /\ spent.foreign = 0 =>
    \A s \in Subnet : Exists(Server(s)) /\ ~ Server(s).ext /\ Server(s).phase = "Active"
      => rows[s].managedBy = "ours" /\ rows[s].cidr = Server(s).cidr

\* A subnet that can be served becomes Active, and one being deleted goes, if
\* the switch of its name is not another program's.
Serveable(s) == PoolOf[Server(s).cidr] # {} /\ ~ Server(s).ext

Occupied(s) == rows[s] # NoRow /\ ~ IsOurManaged(rows[s])

SubnetSettles ==
  \A s \in Subnet :
    /\ Exists(Server(s)) /\ Serveable(s)
         ~> Server(s).phase = "Active" \/ ~ Exists(Server(s)) \/ ~ Serveable(s) \/ Occupied(s)
    /\ Server(s).del ~> ~ Server(s).del \/ Occupied(s)
=============================================================================
