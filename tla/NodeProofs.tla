------------------------------ MODULE NodeProofs ------------------------------
(***************************************************************************)
(* Proofs about NodeController and NodeHost, the two sides of a node agent *)
(* in one module: for any number of agents, nodes and node subnets, and    *)
(* for any interfaces, addresses and cluster CIDRs of a host; whatever the *)
(* values of the bounds.                                                   *)
(***************************************************************************)
EXTENDS NodeController, NodeHost, SubnetAllocatorLemmas, SequenceTheorems

-----------------------------------------------------------------------------
(* The inductive invariant.                                                *)

Choices == Subnets \cup {None, Foreign}

Cluster == [base |-> 0, total |-> NumSubnets]

ApiTypes == node \in [Node -> Versions] /\ spent \in [births : Nat, upsets : Nat]

Rows == [id : Nat, subnet : Choices]

OvnTypes ==
  /\ switches \in [Node -> Rows]
  /\ \A n \in Node : switches[n] = NoRow \/ (switches[n].id > 0 /\ switches[n].subnet # None)

Works == [pc : Steps, n : Node, obj : Versions, subnet : Choices, id : Nat]

AgentTypes ==
  /\ seen \in [Agent -> [Node -> Versions]]
  /\ queue \in [Agent -> SUBSET Node]
  /\ work \in [Agent -> Works]
  /\ tracked \in [Agent -> [Node -> Choices]]
  /\ orphaned \subseteq Node

\* Every agent's allocator is one made for the cluster, with its counter right.
AllocatorsSound ==
  /\ alloc = [a \in Agent |-> alloc[a]]
  /\ \A a \in Agent : AllocInv(Cluster, {}, alloc[a])

Types == ApiTypes /\ OvnTypes /\ AgentTypes /\ AllocatorsSound

\* The steps at which a reconcile is giving a node its subnet.
Writing == {"update", "create", "annotate"}

\* While it is, it works from a version of a node that is there, and what it is
\* going to write is that version's subnet, if it has one; a row to update had
\* a UUID.
Faithful(w) ==
  w.pc \in Writing =>
    /\ w.obj.uid # 0 /\ w.subnet # None
    /\ w.obj.subnet # None => w.subnet = w.obj.subnet
    /\ w.pc = "update" => w.id > 0

WorkFits == \A a \in Agent : Faithful(work[a])

Inv == Types /\ WorkFits

-----------------------------------------------------------------------------
(* The cluster subnet allocator.                                           *)

\* The cluster is a block that an allocator can be made for.
LEMMA ClusterIsAllocatable == Cluster \in AllocatableCIDRs /\ {} \in SUBSET ExcludeSpecs
BY NodeAssumption, AddressSpaceAssumption
DEF Cluster, AllocatableCIDRs, CIDRs, BigEnough, UsableIPs, Address

\* Bytes 0 to 3 of what net.IPv4 returns are zeros: whatever the allocator has
\* found, AllocateSubnet gives subnet 0.
THEOREM EveryIndexIsZero ==
  ASSUME NEW b
  PROVE  AllocateSubnet(b) = 0
<1> DEFINE ip == IPv4(NextIP(b))
<1>1. ip[0] = 0 /\ ip[1] = 0 /\ ip[2] = 0 /\ ip[3] = 0
  BY DEF IPv4
<1> HIDE DEF ip
<1>2. DecodeIndex(ip) = 0
  BY <1>1 DEF DecodeIndex
<1> QED BY <1>2 DEF AllocateSubnet, ip

\* The operations keep an allocator sound.
LEMMA ClusterAllocatorKept ==
  ASSUME NEW b, AllocInv(Cluster, {}, b), NEW s \in Choices
  PROVE  /\ ~ Exhausted(b) => AllocInv(Cluster, {}, AllocateNext(b))
         /\ AllocInv(Cluster, {}, AllocateSpecificSubnet(b, s))
         /\ AllocInv(Cluster, {}, ReleaseSubnet(b, s))
<1>1. ~ Exhausted(b) => AllocInv(Cluster, {}, AllocateNext(b))
  BY ClusterIsAllocatable, AllocateNextGrants
<1>2. AllocInv(Cluster, {}, AllocateSpecificSubnet(b, s))
  <2>1. CASE s \in Subnets /\ CanAllocate(b, s)
    <3>1. s \in Int
      BY <2>1 DEF Subnets
    <3>2. AllocInv(Cluster, {}, Allocate(b, s))
      BY <2>1, <3>1, ClusterIsAllocatable, AllocateGrants
    <3> QED BY <2>1, <3>2 DEF AllocateSpecificSubnet
  <2>2. CASE ~ (s \in Subnets /\ CanAllocate(b, s))
    BY <2>2 DEF AllocateSpecificSubnet
  <2> QED BY <2>1, <2>2
<1>3. AllocInv(Cluster, {}, ReleaseSubnet(b, s))
  <2>1. CASE s \in Subnets
    <3>1. s \in Int
      BY <2>1 DEF Subnets
    <3>2. AllocInv(Cluster, {}, Release(b, s))
      BY <3>1, ClusterIsAllocatable, ReleaseGivesBack
    <3> QED BY <2>1, <3>2 DEF ReleaseSubnet
  <2>2. CASE s \notin Subnets
    BY <2>2 DEF ReleaseSubnet
  <2> QED BY <2>1, <2>2
<1> QED BY <1>1, <1>2, <1>3

\* A new process has a sound one.
LEMMA NewClusterAllocatorSound == AllocInv(Cluster, {}, NewClusterSubnetAllocator)
BY ClusterIsAllocatable, NewSubnetAllocatorSound DEF NewClusterSubnetAllocator, Cluster

-----------------------------------------------------------------------------
(* Facts about values.                                                     *)

\* Subnet numbers, and what stands for the annotations that are none.
LEMMA ChoiceFacts ==
  /\ 0 \in Subnets /\ Subnets \subseteq Nat
  /\ None \in Choices /\ Foreign \in Choices /\ None \notin Subnets /\ None # Foreign
  /\ Presets \subseteq Choices
BY NodeAssumption, AddressSpaceAssumption DEF Subnets, Choices, None, Foreign

\* The null values are of the types they stand in for.
LEMMA NullsTyped ==
  /\ Absent \in Versions /\ Absent.uid = 0 /\ NoRow \in Rows
  /\ Idle \in Works /\ Idle.pc = "idle" /\ Faithful(Idle)
<1>1. Absent \in Versions /\ Absent.uid = 0 /\ NoRow \in Rows
  BY ChoiceFacts DEF Absent, Versions, NoRow, Rows, Choices
<1>2. (CHOOSE n \in Node : TRUE) \in Node
  BY NodeAssumption
<1>3. Idle \in Works /\ Idle.pc = "idle"
  BY <1>1, <1>2, ChoiceFacts DEF Idle, Works, Steps
<1> QED BY <1>1, <1>3 DEF Faithful, Writing

\* Another client's write makes a version of a version.
LEMMA EditTyped ==
  ASSUME NEW v \in Versions, NEW s \in Subnets \cup {None, Foreign}
  PROVE  [v EXCEPT !.subnet = s, !.others = @ + 1] \in Versions
<1> DEFINE w == [v EXCEPT !.subnet = s]
<1>1. w \in Versions /\ w.others = v.others
  BY DEF Versions
<1>2. [w EXCEPT !.others = w.others + 1] \in Versions
  <2> HIDE DEF w
  <2> QED BY <1>1 DEF Versions
<1>3. [v EXCEPT !.subnet = s, !.others = @ + 1] = [w EXCEPT !.others = w.others + 1]
  BY DEF Versions
<1> QED BY <1>2, <1>3

\* So does an agent's.
LEMMA AnnotationTyped ==
  ASSUME NEW v \in Versions, NEW s \in Subnets \cup {None, Foreign}
  PROVE  LET w == [v EXCEPT !.subnet = s, !.gateway = s] IN
         w \in Versions /\ w.uid = v.uid /\ w.others = v.others /\ w.subnet = s
BY DEF Versions

\* There is always a UUID that no row and no reconcile has.
LEMMA NewIdExists ==
  ASSUME OvnTypes, AgentTypes
  PROVE  NewId \in Nat /\ NewId > 0
<1> DEFINE ofRows == [n \in Node |-> switches[n].id]
<1> DEFINE ofWork == [a \in Agent |-> work[a].id]
<1> DEFINE S == {switches[n].id : n \in Node}
<1> DEFINE T == {work[a].id : a \in Agent}
<1> DEFINE K == Cardinality(Agent) + Cardinality(Node)
<1>1. /\ Cardinality(Agent) \in Nat /\ Cardinality(Node) \in Nat
      /\ IsFiniteSet(Agent) /\ IsFiniteSet(Node)
  BY NodeAssumption, FS_CardinalityType
<1>2. IsFiniteSet(S) /\ Cardinality(S) <= Cardinality(Node)
  <2>1. ofRows \in Surjection(Node, S)
    BY DEF Surjection
  <2> HIDE DEF ofRows, S
  <2> QED BY <1>1, <2>1, FS_Surjection
<1>3. IsFiniteSet(T) /\ Cardinality(T) <= Cardinality(Agent)
  <2>1. ofWork \in Surjection(Agent, T)
    BY DEF Surjection
  <2> HIDE DEF ofWork, T
  <2> QED BY <1>1, <2>1, FS_Surjection
<1>4. \E i \in 1 .. (K + 1) : i \notin S \cup T
  <2> HIDE DEF S, T
  <2> SUFFICES ASSUME 1 .. (K + 1) \subseteq S \cup T PROVE FALSE
    OBVIOUS
  <2>1. IsFiniteSet(S \cup T) /\ Cardinality(S \cup T) <= K
    <3>1. IsFiniteSet(S \cap T)
      BY <1>2, FS_Subset
    <3>2. Cardinality(S) \in Nat /\ Cardinality(T) \in Nat /\ Cardinality(S \cap T) \in Nat
      BY <1>2, <1>3, <3>1, FS_CardinalityType
    <3> QED BY <1>1, <1>2, <1>3, <3>2, FS_Union
  <2>2. Cardinality(1 .. (K + 1)) = K + 1
    BY <1>1, FS_Interval
  <2>3. Cardinality(1 .. (K + 1)) <= Cardinality(S \cup T)
    BY <2>1, FS_Subset
  <2>4. Cardinality(S \cup T) \in Nat
    BY <2>1, FS_CardinalityType
  <2> QED BY <1>1, <2>1, <2>2, <2>3, <2>4
<1>5. NewId \in 1 .. (K + 1)
  <2>1. PICK i \in 1 .. (K + 1) : i \notin S \cup T
    BY <1>4
  <2>2. (\A n \in Node : switches[n].id # i) /\ (\A a \in Agent : work[a].id # i)
    BY <2>1
  <2> HIDE DEF S, T
  <2> QED BY <2>1, <2>2 DEF NewId
<1> QED BY <1>1, <1>5

-----------------------------------------------------------------------------
(* What the parts of the actions do to the state.                          *)

\* An agent's reconcile becomes a well-formed one.
LEMMA WorkSet ==
  ASSUME Inv, NEW a \in Agent, NEW w \in Works, Faithful(w), work' = [work EXCEPT ![a] = w]
  PROVE  work' \in [Agent -> Works] /\ WorkFits'
<1>1. work \in [Agent -> Works] /\ WorkFits
  BY DEF Inv, Types, AgentTypes
<1>2. work' \in [Agent -> Works]
  BY <1>1
<1>3. \A b \in Agent : Faithful(work'[b])
  BY <1>1 DEF WorkFits
<1> QED BY <1>2, <1>3 DEF WorkFits

\* An agent's allocator becomes a sound one.
LEMMA AllocSet ==
  ASSUME AllocatorsSound, NEW a \in Agent, NEW b, AllocInv(Cluster, {}, b),
         alloc' = [alloc EXCEPT ![a] = b]
  PROVE  AllocatorsSound'
<1>1. \A c \in Agent : alloc'[c] = IF c = a THEN b ELSE alloc[c]
  BY DEF AllocatorsSound
<1>2. alloc' = [c \in Agent |-> alloc'[c]]
  BY DEF AllocatorsSound
<1> QED BY <1>1, <1>2 DEF AllocatorsSound

\* A reconcile that ends leaves a well-formed queue.
LEMMA Returned ==
  ASSUME Inv, NEW a \in Agent, NEW ok, Return(a, ok)
  PROVE  work' \in [Agent -> Works] /\ WorkFits' /\ queue' \in [Agent -> SUBSET Node]
<1>1. work' \in [Agent -> Works] /\ WorkFits'
  BY NullsTyped, WorkSet DEF Return
<1>2. queue \in [Agent -> SUBSET Node] /\ work[a].n \in Node
  BY DEF Inv, Types, AgentTypes, Works
<1> QED BY <1>1, <1>2 DEF Return

\* A count of what has been spent stays one.
LEMMA Spending ==
  ASSUME ApiTypes, Upset \/ UNCHANGED spent
  PROVE  spent' \in [births : Nat, upsets : Nat]
<1>1. spent \in [births : Nat, upsets : Nat]
  BY DEF ApiTypes
<1> QED BY <1>1 DEF Upset

\* A transaction puts in the row it was given or leaves the switches alone.
LEMMA Transacted ==
  ASSUME Inv, NEW a \in Agent, work[a].pc \in Writing, NEW row \in Rows,
         row = NoRow \/ (row.id > 0 /\ row.subnet # None), Transact(a, row)
  PROVE  /\ OvnTypes' /\ work' \in [Agent -> Works] /\ WorkFits'
         /\ queue' \in [Agent -> SUBSET Node] /\ spent' \in [births : Nat, upsets : Nat]
<1> DEFINE new == [switches EXCEPT ![work[a].n] = row]
<1>1. switches \in [Node -> Rows] /\ work[a] \in Works /\ queue \in [Agent -> SUBSET Node]
  BY DEF Inv, Types, OvnTypes, AgentTypes
<1>2. /\ new \in [Node -> Rows]
      /\ \A n \in Node : new[n] = NoRow \/ (new[n].id > 0 /\ new[n].subnet # None)
  BY <1>1 DEF Inv, Types, OvnTypes
<1>3. switches' \in {switches, new}
  BY DEF Transact
<1>4. OvnTypes'
  <2>1. CASE switches' = switches
    BY <2>1 DEF Inv, Types, OvnTypes
  <2>2. CASE switches' = new
    <3> HIDE DEF new
    <3> QED BY <1>2, <2>2 DEF OvnTypes
  <2> QED BY <1>3, <2>1, <2>2
<1>5. CASE Upset /\ Return(a, FALSE)
  BY <1>4, <1>5, Returned, Spending DEF Inv, Types
<1>6. CASE /\ UNCHANGED <<queue, spent>>
           /\ work' = [work EXCEPT ![a].pc = "annotate", ![a].id = 0]
  <2> DEFINE w == [work[a] EXCEPT !.pc = "annotate", !.id = 0]
  <2>1. work' = [work EXCEPT ![a] = w]
    BY <1>1, <1>6 DEF Inv, Types, AgentTypes
  <2>2. w \in Works
    BY <1>1 DEF Works, Steps
  <2>3. Faithful(w)
    <3>1. Faithful(work[a])
      BY DEF Inv, WorkFits
    <3>2. w.obj = work[a].obj /\ w.subnet = work[a].subnet /\ w.pc = "annotate"
      BY <1>1 DEF Works
    <3> HIDE DEF w
    <3> QED BY <3>1, <3>2 DEF Faithful
  <2>4. work' \in [Agent -> Works] /\ WorkFits'
    <3> HIDE DEF w
    <3> QED BY <2>1, <2>2, <2>3, WorkSet
  <2> QED BY <1>1, <1>4, <1>6, <2>4 DEF Inv, Types, ApiTypes
<1>7. (Upset /\ Return(a, FALSE)) \/ (/\ UNCHANGED <<queue, spent>>
        /\ work' = [work EXCEPT ![a].pc = "annotate", ![a].id = 0])
  BY DEF Transact
<1> QED BY <1>5, <1>6, <1>7

\* The reconcile that has found out a node's subnet is well formed.
LEMMA Tracked ==
  ASSUME Inv, NEW a \in Agent, NEW n \in Node, NEW s \in Choices, s # None,
         seen[a][n].uid # 0, seen[a][n].subnet # None => s = seen[a][n].subnet,
         Track(a, n, s)
  PROVE  work' \in [Agent -> Works] /\ WorkFits' /\ tracked' \in [Agent -> [Node -> Choices]]
<1> DEFINE w == [pc |-> IF switches[n] = NoRow THEN "create" ELSE "update", n |-> n,
                 obj |-> seen[a][n], subnet |-> s, id |-> switches[n].id]
<1>1. seen[a][n] \in Versions /\ switches[n].id \in Nat
  BY DEF Inv, Types, AgentTypes, OvnTypes, Rows
<1>2. w \in Works
  BY <1>1 DEF Works, Steps
<1>3. Faithful(w)
  <2>1. switches[n] # NoRow => switches[n].id > 0
    BY DEF Inv, Types, OvnTypes
  <2> QED BY <1>1, <2>1 DEF Faithful
<1>4. work' = [work EXCEPT ![a] = w]
  BY DEF Track
<1>5. work' \in [Agent -> Works] /\ WorkFits'
  <2> HIDE DEF w
  <2> QED BY <1>2, <1>3, <1>4, WorkSet
<1>6. tracked' \in [Agent -> [Node -> Choices]]
  BY DEF Track, Inv, Types, AgentTypes
<1> QED BY <1>5, <1>6

-----------------------------------------------------------------------------
(* Every action keeps the invariant.                                       *)

\* Init.
LEMMA Initially == Init => Inv
<1> SUFFICES ASSUME Init PROVE Inv
  OBVIOUS
<1>1. ApiTypes /\ OvnTypes
  BY NullsTyped DEF Init, ApiTypes, OvnTypes
<1>2. seen = [a \in Agent |-> [n \in Node |-> Absent]] /\ tracked = [a \in Agent |-> [n \in Node |-> None]]
  BY DEF Init, Nothing
<1>3. AgentTypes
  BY <1>2, NullsTyped, ChoiceFacts DEF Init, AgentTypes
<1>4. AllocatorsSound
  BY NewClusterAllocatorSound DEF Init, AllocatorsSound
<1>5. WorkFits
  BY NullsTyped DEF Init, WorkFits
<1> QED BY <1>1, <1>3, <1>4, <1>5 DEF Inv, Types

\* The API server's other clients.
LEMMA ClientsKeep ==
  ASSUME Inv, NEW n \in Node, CreateNode(n) \/ EditNode(n) \/ DeleteNode(n)
  PROVE  Inv'
<1>1. node[n] \in Versions /\ node \in [Node -> Versions] /\ spent \in [births : Nat, upsets : Nat]
  BY DEF Inv, Types, ApiTypes
<1>2. UNCHANGED <<switches, seen, queue, work, alloc, tracked, orphaned>>
  BY DEF CreateNode, EditNode, DeleteNode, External, memory
<1>3. ApiTypes'
  <2>1. CASE CreateNode(n)
    <3>1. [Absent EXCEPT !.uid = spent.births + 1] \in Versions
      BY <1>1, NullsTyped DEF Versions
    <3> QED BY <1>1, <2>1, <3>1 DEF CreateNode, ApiTypes
  <2>2. CASE EditNode(n)
    <3>1. PICK s \in Presets \cup {node[n].subnet} :
            node' = [node EXCEPT ![n].subnet = s, ![n].others = @ + 1]
      BY <2>2 DEF EditNode
    <3>2. s \in Subnets \cup {None, Foreign}
      BY <1>1, <3>1, ChoiceFacts DEF Versions, Choices
    <3>3. [node[n] EXCEPT !.subnet = s, !.others = @ + 1] \in Versions
      BY <1>1, <3>2, EditTyped
    <3>4. node' = [node EXCEPT ![n] = [node[n] EXCEPT !.subnet = s, !.others = @ + 1]]
      BY <1>1, <3>1
    <3>5. node' \in [Node -> Versions]
      BY <1>1, <3>3, <3>4
    <3>6. spent' \in [births : Nat, upsets : Nat]
      BY <2>2, Spending DEF EditNode, Inv, Types
    <3> QED BY <3>5, <3>6 DEF ApiTypes
  <2>3. CASE DeleteNode(n)
    BY <1>1, <2>3, NullsTyped DEF DeleteNode, ApiTypes
  <2> QED BY <2>1, <2>2, <2>3
<1>4. OvnTypes' /\ AgentTypes' /\ AllocatorsSound' /\ WorkFits'
  BY <1>2 DEF Inv, Types, OvnTypes, AgentTypes, AllocatorsSound, WorkFits
<1> QED BY <1>3, <1>4 DEF Inv, Types

\* An event reaches an informer.
LEMMA DeliverKeeps ==
  ASSUME Inv, NEW a \in Agent, NEW n \in Node, Deliver(a, n)
  PROVE  Inv'
<1>1. UNCHANGED <<node, switches, work, alloc, tracked, orphaned, spent>>
  BY DEF Deliver, memory
<1>2. seen' \in [Agent -> [Node -> Versions]] /\ queue' \in [Agent -> SUBSET Node]
  BY DEF Deliver, Inv, Types, ApiTypes, AgentTypes
<1>3. ApiTypes' /\ OvnTypes' /\ AgentTypes' /\ AllocatorsSound' /\ WorkFits'
  BY <1>1, <1>2 DEF Inv, Types, ApiTypes, OvnTypes, AgentTypes, AllocatorsSound, WorkFits
<1> QED BY <1>3 DEF Inv, Types

\* A reconcile begins: the node is gone, or has a subnet, or is to get one.
LEMMA ReconcileKeeps ==
  ASSUME Inv, NEW a \in Agent, NEW n \in Node, Reconcile(a, n)
  PROVE  Inv'
<1>1. UNCHANGED <<node, switches, seen, orphaned, spent>>
  BY DEF Reconcile
<1>2. queue' \in [Agent -> SUBSET Node]
  BY DEF Reconcile, Inv, Types, AgentTypes
<1>3. seen[a][n] \in Versions /\ AllocInv(Cluster, {}, alloc[a])
  BY DEF Inv, Types, AgentTypes, AllocatorsSound
<1>4. seen[a][n].subnet \in Choices
  BY <1>3 DEF Versions, Choices
<1>5. /\ work' \in [Agent -> Works] /\ WorkFits' /\ tracked' \in [Agent -> [Node -> Choices]]
      /\ AllocatorsSound'
  <2>1. CASE handleNodeDelete(a, n)
    <3> DEFINE w == [Idle EXCEPT !.pc = "deleteSwitch", !.n = n, !.subnet = tracked[a][n]]
    <3>1. tracked \in [Agent -> [Node -> Choices]] /\ tracked[a][n] \in Choices
      BY DEF Inv, Types, AgentTypes
    <3>2. w \in Works /\ w.pc = "deleteSwitch"
      BY <3>1, NullsTyped DEF Works, Steps
    <3>3. Faithful(w)
      BY <3>2 DEF Faithful, Writing
    <3>4. work' = [work EXCEPT ![a] = w]
      BY <2>1 DEF handleNodeDelete
    <3>5. work' \in [Agent -> Works] /\ WorkFits'
      <4> HIDE DEF w
      <4> QED BY <3>2, <3>3, <3>4, WorkSet
    <3>6. tracked' \in [Agent -> [Node -> Choices]]
      BY <2>1, <3>1, ChoiceFacts DEF handleNodeDelete
    <3> QED BY <2>1, <3>5, <3>6 DEF handleNodeDelete, AllocatorsSound, Inv, Types
  <2>2. CASE seen[a][n].uid # 0 /\ KeepSubnet(a, n)
    <3> DEFINE s == seen[a][n].subnet
    <3>1. s # None /\ Track(a, n, s) /\ alloc' = [alloc EXCEPT ![a] = AllocateSpecificSubnet(@, s)]
      BY <2>2 DEF KeepSubnet
    <3>2. alloc' = [alloc EXCEPT ![a] = AllocateSpecificSubnet(alloc[a], s)]
      BY <3>1 DEF Inv, Types, AllocatorsSound
    <3>3. AllocatorsSound'
      BY <1>3, <1>4, <3>2, ClusterAllocatorKept, AllocSet DEF Inv, Types
    <3> QED BY <1>4, <2>2, <3>1, <3>3, Tracked
  <2>3. CASE seen[a][n].uid # 0 /\ GetSubnet(a, n)
    <3>1. /\ seen[a][n].subnet = None /\ ~ Exhausted(alloc[a]) /\ Track(a, n, 0)
          /\ alloc' = [alloc EXCEPT ![a] = AllocateNext(@)]
      BY <2>3, EveryIndexIsZero DEF GetSubnet
    <3>2. alloc' = [alloc EXCEPT ![a] = AllocateNext(alloc[a])]
      BY <3>1 DEF Inv, Types, AllocatorsSound
    <3>3. AllocatorsSound'
      BY <1>3, <1>4, <3>1, <3>2, ClusterAllocatorKept, AllocSet DEF Inv, Types
    <3>4. 0 \in Choices /\ 0 # None
      BY ChoiceFacts DEF Choices
    <3> QED BY <2>3, <3>1, <3>3, <3>4, Tracked
  <2> QED BY <2>1, <2>2, <2>3 DEF Reconcile
<1>6. ApiTypes' /\ OvnTypes' /\ AgentTypes'
  BY <1>1, <1>2, <1>5 DEF Inv, Types, ApiTypes, OvnTypes, AgentTypes
<1> QED BY <1>5, <1>6 DEF Inv, Types

\* The transactions on a node's switch.
LEMMA SwitchKeeps ==
  ASSUME Inv, NEW a \in Agent, UpdateSwitch(a) \/ CreateSwitch(a)
  PROVE  Inv'
<1>1. UNCHANGED <<node, seen, alloc, tracked, orphaned>>
  BY DEF UpdateSwitch, CreateSwitch, memory
<1>2. work[a] \in Works /\ Row(a) \in Rows /\ work[a].pc \in Writing
  BY DEF Row, UpdateSwitch, CreateSwitch, Writing, Inv, Types, OvnTypes, AgentTypes, Works
<1>3. work[a].subnet \in Choices /\ work[a].subnet # None /\ work[a].n \in Node
  BY <1>2 DEF Inv, WorkFits, Faithful, Works
<1>4. Row(a) = NoRow \/ (Row(a).id > 0 /\ Row(a).subnet # None)
  BY <1>3 DEF Row, Inv, Types, OvnTypes
<1>5. /\ OvnTypes' /\ work' \in [Agent -> Works] /\ WorkFits'
      /\ queue' \in [Agent -> SUBSET Node] /\ spent' \in [births : Nat, upsets : Nat]
  <2>1. CASE UpdateSwitch(a)
    <3> DEFINE row == IF Row(a).id = work[a].id THEN [Row(a) EXCEPT !.subnet = work[a].subnet] ELSE Row(a)
    <3>1. CASE Row(a).id = work[a].id /\ Row(a) # NoRow
      <4>1. row \in Rows /\ row.id > 0 /\ row.subnet # None
        BY <1>2, <1>3, <1>4, <3>1 DEF Rows
      <4>2. Transact(a, row)
        BY <2>1 DEF UpdateSwitch
      <4> HIDE DEF row
      <4> QED BY <1>2, <4>1, <4>2, Transacted
    <3>2. CASE Row(a).id # work[a].id
      <4>1. Transact(a, Row(a))
        BY <2>1, <3>2 DEF UpdateSwitch
      <4> QED BY <1>2, <1>4, <4>1, Transacted
    <3>3. ~ (Row(a).id = work[a].id /\ Row(a) = NoRow)
      <4>1. work[a].id > 0
        BY <2>1, <1>2 DEF UpdateSwitch, Inv, WorkFits, Faithful
      <4> QED BY <4>1 DEF NoRow
    <3> QED BY <3>1, <3>2, <3>3
  <2>2. CASE CreateSwitch(a) /\ Row(a) # NoRow
    <3>1. Return(a, FALSE) /\ UNCHANGED <<switches, spent>>
      BY <2>2 DEF CreateSwitch
    <3> QED BY <3>1, Returned DEF Inv, Types, OvnTypes, ApiTypes
  <2>3. CASE CreateSwitch(a) /\ Row(a) = NoRow
    <3> DEFINE row == [id |-> NewId, subnet |-> work[a].subnet]
    <3>1. row \in Rows /\ row.id > 0 /\ row.subnet # None
      BY <1>3, NewIdExists DEF Rows, Inv, Types
    <3>2. Transact(a, row)
      BY <2>3 DEF CreateSwitch
    <3> HIDE DEF row
    <3> QED BY <1>2, <3>1, <3>2, Transacted
  <2> QED BY <2>1, <2>2, <2>3
<1>6. ApiTypes' /\ AgentTypes' /\ AllocatorsSound'
  BY <1>1, <1>5 DEF Inv, Types, ApiTypes, AgentTypes, AllocatorsSound
<1> QED BY <1>5, <1>6 DEF Inv, Types

\* What Annotate does to the nodes: nothing, or, if the copy that was read is
\* still current, it gives the node the subnet the reconcile is about.
LEMMA AnnotateWrites ==
  ASSUME Inv, NEW a \in Agent, Annotate(a)
  PROVE  \/ UNCHANGED node
         \/ /\ node[work[a].n] = work[a].obj
            /\ node' = [node EXCEPT ![work[a].n] =
                 [@ EXCEPT !.subnet = work[a].subnet, !.gateway = work[a].subnet]]
<1>1. node \in [Node -> Versions] /\ work[a].n \in Node
  BY DEF Inv, Types, ApiTypes, AgentTypes, Works
<1> DEFINE n == work[a].n
<1> DEFINE new == [node EXCEPT ![n].subnet = work[a].subnet, ![n].gateway = work[a].subnet]
<1>2. new = [node EXCEPT ![n] = [@ EXCEPT !.subnet = work[a].subnet, !.gateway = work[a].subnet]]
  BY <1>1
<1>3. UNCHANGED node \/ (node[n] = work[a].obj /\ node' = new)
  BY DEF Annotate, IsCurrent
<1> QED BY <1>2, <1>3

\* The annotations are written.
LEMMA AnnotateKeeps ==
  ASSUME Inv, NEW a \in Agent, Annotate(a)
  PROVE  Inv'
<1>1. UNCHANGED <<switches, seen, alloc, tracked, orphaned>>
  BY DEF Annotate, memory
<1>2. work' \in [Agent -> Works] /\ WorkFits' /\ queue' \in [Agent -> SUBSET Node]
  BY Returned DEF Annotate
<1>3. spent' \in [births : Nat, upsets : Nat]
  BY Spending DEF Annotate, Inv, Types
<1>4. node' \in [Node -> Versions]
  <2>1. node \in [Node -> Versions] /\ work[a] \in Works
    BY DEF Inv, Types, ApiTypes, AgentTypes
  <2>2. work[a].subnet \in Subnets \cup {None, Foreign} /\ work[a].n \in Node
    BY <2>1 DEF Works, Choices
  <2>3. [node[work[a].n] EXCEPT !.subnet = work[a].subnet, !.gateway = work[a].subnet] \in Versions
    BY <2>1, <2>2, AnnotationTyped
  <2> QED BY <2>1, <2>2, <2>3, AnnotateWrites
<1>5. ApiTypes' /\ OvnTypes' /\ AgentTypes' /\ AllocatorsSound'
  BY <1>1, <1>2, <1>3, <1>4 DEF Inv, Types, ApiTypes, OvnTypes, AgentTypes, AllocatorsSound
<1> QED BY <1>2, <1>5 DEF Inv, Types

\* A node's switch is deleted and its subnet released.
LEMMA DeleteSwitchKeeps ==
  ASSUME Inv, NEW a \in Agent, DeleteSwitch(a)
  PROVE  Inv'
<1>1. UNCHANGED <<node, seen, tracked, orphaned>>
  BY DEF DeleteSwitch
<1>2. work' \in [Agent -> Works] /\ WorkFits' /\ queue' \in [Agent -> SUBSET Node]
  BY Returned DEF DeleteSwitch
<1>3. spent' \in [births : Nat, upsets : Nat]
  BY Spending DEF DeleteSwitch, Inv, Types
<1>4. OvnTypes'
  <2>1. switches' \in {switches, [switches EXCEPT ![work[a].n] = NoRow]}
    BY DEF DeleteSwitch
  <2> QED BY <2>1, NullsTyped DEF Inv, Types, OvnTypes
<1>5. AllocatorsSound'
  <2>1. AllocInv(Cluster, {}, alloc[a]) /\ work[a].subnet \in Choices
    BY DEF Inv, Types, AllocatorsSound, AgentTypes, Works
  <2>2. CASE alloc' = [alloc EXCEPT ![a] = ReleaseSubnet(@, work[a].subnet)]
    <3>1. alloc' = [alloc EXCEPT ![a] = ReleaseSubnet(alloc[a], work[a].subnet)]
      BY <2>2 DEF Inv, Types, AllocatorsSound
    <3> QED BY <2>1, <3>1, ClusterAllocatorKept, AllocSet DEF Inv, Types
  <2>3. CASE UNCHANGED alloc
    BY <2>3 DEF Inv, Types, AllocatorsSound
  <2> QED BY <2>2, <2>3 DEF DeleteSwitch
<1>6. ApiTypes' /\ AgentTypes'
  BY <1>1, <1>2, <1>3 DEF Inv, Types, ApiTypes, AgentTypes
<1> QED BY <1>2, <1>4, <1>5, <1>6 DEF Inv, Types

\* An agent starts anew.
LEMMA RestartKeeps ==
  ASSUME Inv, NEW a \in Agent, Restart(a)
  PROVE  Inv'
<1>1. UNCHANGED <<node, switches>>
  BY DEF Restart
<1>2. work' \in [Agent -> Works] /\ WorkFits'
  BY NullsTyped, WorkSet DEF Restart
<1>3. /\ seen' \in [Agent -> [Node -> Versions]] /\ queue' \in [Agent -> SUBSET Node]
      /\ orphaned' \subseteq Node
  BY DEF Restart, Inv, Types, ApiTypes, AgentTypes
<1>4. tracked' \in [Agent -> [Node -> Choices]]
  BY ChoiceFacts DEF Restart, Nothing, Inv, Types, AgentTypes
<1>5. AllocatorsSound'
  BY NewClusterAllocatorSound, AllocSet DEF Restart, Inv, Types
<1>6. spent' \in [births : Nat, upsets : Nat]
  BY Spending DEF Restart, Inv, Types
<1>7. ApiTypes' /\ OvnTypes' /\ AgentTypes'
  BY <1>1, <1>2, <1>3, <1>4, <1>6 DEF Inv, Types, ApiTypes, OvnTypes, AgentTypes
<1> QED BY <1>2, <1>5, <1>7 DEF Inv, Types

\* Every step.
LEMMA StepKeeps == Inv /\ [Next]_vars => Inv'
<1> SUFFICES ASSUME Inv, [Next]_vars PROVE Inv'
  OBVIOUS
<1>1. CASE UNCHANGED vars
  BY <1>1 DEF vars, Inv, Types, WorkFits, ApiTypes, OvnTypes, AgentTypes, AllocatorsSound
<1>2. ASSUME NEW n \in Node, CreateNode(n) \/ EditNode(n) \/ DeleteNode(n) PROVE Inv'
  BY <1>2, ClientsKeep
<1>3. ASSUME NEW a \in Agent, Worker(a) PROVE Inv'
  BY <1>3, SwitchKeeps, AnnotateKeeps, DeleteSwitchKeeps DEF Worker
<1>4. ASSUME NEW a \in Agent, Restart(a) PROVE Inv'
  BY <1>4, RestartKeeps
<1>5. ASSUME NEW a \in Agent, NEW n \in Node, Deliver(a, n) \/ Reconcile(a, n) PROVE Inv'
  BY <1>5, DeliverKeeps, ReconcileKeeps
<1> QED BY <1>1, <1>2, <1>3, <1>4, <1>5 DEF Next

-----------------------------------------------------------------------------
(* The theorems.                                                           *)

\* The controllers' state stays well formed, and a reconcile that is about to
\* annotate a node works from a version whose subnet, if any, is the one it
\* will write, for any number of agents, nodes, failures and restarts.
THEOREM Invariance == Spec => []Inv
BY Initially, StepKeeps, PTL DEF Spec

\* The state of the controllers always has its type.
THEOREM TypeCorrect == Spec => []TypeOK
<1>1. Inv => TypeOK
  <2> SUFFICES ASSUME Inv PROVE TypeOK
    OBVIOUS
  <2>1. \A a \in Agent : alloc[a] \in Allocators([base |-> 0, total |-> NumSubnets])
    BY DEF Inv, Types, AllocatorsSound, AllocInv, Sound, Cluster
  <2>2. \A a \in Agent : work[a].pc \in Steps
    BY DEF Inv, Types, AgentTypes, Works
  <2>3. \A a \in Agent : work[a].pc \in {"update", "create", "annotate"}
                           => work[a].obj.uid # 0 /\ work[a].subnet # None
    BY DEF Inv, WorkFits, Faithful, Writing
  <2> QED BY <2>1, <2>2, <2>3
          DEF Inv, Types, ApiTypes, OvnTypes, AgentTypes, Choices, TypeOK
<1> QED BY <1>1, Invariance, PTL

\* No step takes from a node the subnet it has: the controllers write over the
\* version they read only, and then what that version had.
LEMMA NoStepTakesASubnet == Inv /\ [Next]_vars => KeepsSubnets \/ UNCHANGED vars
<1> SUFFICES ASSUME Inv, Next, NEW n \in Node,
                    node[n].subnet # None, node'[n].uid = node[n].uid, node'[n].others = node[n].others
             PROVE  node'[n].subnet = node[n].subnet
  BY DEF KeepsSubnets
<1>1. node \in [Node -> Versions] /\ node[n] \in Versions /\ spent \in [births : Nat, upsets : Nat]
  BY DEF Inv, Types, ApiTypes
<1>2. CASE UNCHANGED node
  BY <1>2
<1>3. ASSUME NEW m \in Node, CreateNode(m) PROVE node'[n].subnet = node[n].subnet
  <2>1. CASE n = m
    <3>1. node[n].uid = 0 /\ node'[n] = [Absent EXCEPT !.uid = spent.births + 1]
      BY <1>1, <1>3, <2>1 DEF CreateNode
    <3>2. node'[n].uid = spent.births + 1
      BY <3>1 DEF Absent
    <3> QED BY <1>1, <3>1, <3>2
  <2>2. CASE n # m
    BY <1>1, <1>3, <2>2 DEF CreateNode
  <2> QED BY <2>1, <2>2
<1>4. ASSUME NEW m \in Node, EditNode(m) PROVE node'[n].subnet = node[n].subnet
  <2>1. CASE n = m
    <3>1. node'[n].others = node[n].others + 1 /\ node[n].others \in Nat
      BY <1>1, <1>4, <2>1 DEF EditNode, Versions
    <3> QED BY <3>1
  <2>2. CASE n # m
    BY <1>1, <1>4, <2>2 DEF EditNode
  <2> QED BY <2>1, <2>2
<1>5. ASSUME NEW m \in Node, DeleteNode(m) PROVE node'[n].subnet = node[n].subnet
  <2>1. CASE n = m
    <3>1. node[n].uid # 0 /\ node'[n].uid = 0
      BY <1>1, <1>5, <2>1, NullsTyped DEF DeleteNode
    <3> QED BY <3>1
  <2>2. CASE n # m
    BY <1>1, <1>5, <2>2 DEF DeleteNode
  <2> QED BY <2>1, <2>2
<1>6. ASSUME NEW a \in Agent, Annotate(a) PROVE node'[n].subnet = node[n].subnet
  <2>1. CASE /\ node[work[a].n] = work[a].obj
             /\ node' = [node EXCEPT ![work[a].n] =
                  [@ EXCEPT !.subnet = work[a].subnet, !.gateway = work[a].subnet]]
    <3>1. work[a].subnet \in Subnets \cup {None, Foreign} /\ work[a].n \in Node
      BY DEF Inv, Types, AgentTypes, Works, Choices
    <3>2. CASE n = work[a].n
      <4>1. work[a].subnet = node[n].subnet
        BY <1>6, <2>1, <3>2 DEF Annotate, Inv, WorkFits, Faithful, Writing
      <4>2. node'[n].subnet = work[a].subnet
        BY <1>1, <2>1, <3>1, <3>2, AnnotationTyped
      <4> QED BY <4>1, <4>2
    <3>3. CASE n # work[a].n
      BY <1>1, <2>1, <3>3
    <3> QED BY <3>2, <3>3
  <2> QED BY <1>2, <1>6, <2>1, AnnotateWrites
<1>7. ASSUME NEW a \in Agent, NEW m \in Node,
             UpdateSwitch(a) \/ CreateSwitch(a) \/ DeleteSwitch(a) \/ Restart(a)
               \/ Deliver(a, m) \/ Reconcile(a, m)
      PROVE  UNCHANGED node
  BY <1>7 DEF UpdateSwitch, CreateSwitch, DeleteSwitch, Restart, Deliver, Reconcile
<1> QED BY <1>2, <1>3, <1>4, <1>5, <1>6, <1>7 DEF Next, Worker

\* Whatever old copy an agent works from, and however many agents there are, a
\* node keeps the subnet that it, another agent or a user has put there.
THEOREM SubnetsAreFinal == Spec => SubnetsStay
<1>1. Inv /\ [Next]_vars => [KeepsSubnets]_vars
  BY NoStepTakesASubnet
<1> QED BY <1>1, Invariance, PTL DEF Spec, SubnetsStay

-----------------------------------------------------------------------------
(* The host's settings.                                                    *)

\* What the proofs need of a setting's value: only rules are sets, and a
\* setting that a command has given its value is set.
HostTypes ==
  /\ config \in Configs /\ missing \subseteq Nic /\ nodeIP \in Ip
  /\ host = [s \in Settings |-> host[s]]
  /\ host["masquerade"] \subseteq Cidr /\ host["exception"] \subseteq Cidr \X Service
  /\ host["uplink"] \in Nic \cup {Unset} /\ host["encap-ip"] \in Ip \cup {Unset}
  /\ excuses \subseteq {"uplink", "exception", "service", "ovn-remote"}
  /\ upsets \in 0 .. MaxHostUpsets

\* The parts of the agent that run are those its start has come to.
Phases ==
  /\ phase \in {"down", "cni", "gateway", "tunnels", "running"}
  /\ cni \in BOOLEAN /\ (cni <=> phase \in {"gateway", "tunnels", "running"})
  /\ gateway \in BOOLEAN /\ tunnels \in BOOLEAN
  /\ gateway => phase \in {"tunnels", "running"}
  /\ tunnels => phase = "running"

\* Where there is a bridge to the wire there is the interface, and a gateway
\* that reports itself configured has the bridge.
BridgeHasUplink ==
  /\ gateway => host["br-ex"] # Unset
  /\ host["br-ex"] # Unset /\ config.nic # "" => host["uplink"] = config.nic \/ "uplink" \in excuses

\* Exceptions are for the configured service CIDR, unless there is the excuse that
\* it has been changed.
ExceptionsFollow == \A e \in host["exception"] : e[2] \in Current

\* A remote in the database is that of the configuration or of an earlier one.
RemoteExplained == host["ovn-remote"] # Unset => config.external \/ "ovn-remote" \in excuses

TunnelsSet ==
  tunnels => /\ host["encap-type"] = config.encap /\ host["encap-ip"] = nodeIP
             /\ config.external => host["ovn-remote"] # Unset

HostInv ==
  /\ HostTypes /\ Phases /\ BridgeHasUplink /\ ServicesExcepted /\ ExceptionsFollow
  /\ RemoteExplained /\ TunnelsSet

\* What two lists of commands have between them.
LEMMA RangeConcat ==
  ASSUME NEW S, NEW s \in Seq(S), NEW t \in Seq(S)
  PROVE  s \o t \in Seq(S) /\ Range(s \o t) = Range(s) \cup Range(t)
<1> DEFINE m == Len(s)
<1> DEFINE n == Len(t)
<1>1. /\ s \o t \in Seq(S) /\ Len(s \o t) = m + n /\ m \in Nat /\ n \in Nat
      /\ \A i \in 1 .. m + n : (s \o t)[i] = IF i <= m THEN s[i] ELSE t[i - m]
      /\ DOMAIN s = 1 .. m /\ DOMAIN t = 1 .. n /\ DOMAIN (s \o t) = 1 .. m + n
  BY ConcatProperties, LenProperties
<1>2. Range(s \o t) \subseteq Range(s) \cup Range(t)
  <2> SUFFICES ASSUME NEW i \in 1 .. m + n
               PROVE  (s \o t)[i] \in Range(s) \cup Range(t)
    BY <1>1 DEF Range
  <2>1. CASE i <= m
    BY <1>1, <2>1 DEF Range
  <2>2. CASE i > m
    <3>1. i - m \in 1 .. n /\ (s \o t)[i] = t[i - m]
      BY <1>1, <2>2
    <3> QED BY <1>1, <3>1 DEF Range
  <2> QED BY <1>1, <2>1, <2>2
<1>3. Range(s) \subseteq Range(s \o t)
  <2> SUFFICES ASSUME NEW i \in 1 .. m PROVE s[i] \in Range(s \o t)
    BY <1>1 DEF Range
  <2>1. i \in 1 .. m + n /\ (s \o t)[i] = s[i]
    BY <1>1
  <2> QED BY <1>1, <2>1 DEF Range
<1>4. Range(t) \subseteq Range(s \o t)
  <2> SUFFICES ASSUME NEW i \in 1 .. n PROVE t[i] \in Range(s \o t)
    BY <1>1 DEF Range
  <2>1. i + m \in 1 .. m + n /\ (s \o t)[i + m] = t[i]
    BY <1>1
  <2> QED BY <1>1, <2>1 DEF Range
<1> QED BY <1>1, <1>2, <1>3, <1>4

\* The commands that are done are commands of the list; if the list counts as
\* done, all are but those whose failure is passed over; and without anything
\* breaking all are.
LEMMA DoneCommands ==
  ASSUME NEW S, NEW cmds \in Seq(S), NEW b \in 0 .. Len(cmds), NEW dies \in BOOLEAN
  PROVE  /\ Done(cmds, b, dies) \subseteq Range(cmds)
         /\ Succeeds(cmds, b, dies) => Range(cmds) \ WarnOnly \subseteq Done(cmds, b, dies)
<1>1. Len(cmds) \in Nat /\ DOMAIN cmds = 1 .. Len(cmds)
  BY LenProperties
<1>2. Range(cmds) = {cmds[i] : i \in DOMAIN cmds}
  BY DEF Range
<1>3. CASE b = 0
  BY <1>3 DEF Done
<1>4. CASE b # 0
  <2> DEFINE D == {j \in DOMAIN cmds : j < b \/ (j > b /\ ~ dies /\ cmds[b] \in WarnOnly)}
  <2>1. Done(cmds, b, dies) = {cmds[i] : i \in D}
    BY <1>4 DEF Done
  <2>2. Done(cmds, b, dies) \subseteq Range(cmds)
    BY <1>2, <2>1
  <2>3. ASSUME Succeeds(cmds, b, dies), NEW i \in DOMAIN cmds, cmds[i] \notin WarnOnly
        PROVE  cmds[i] \in Done(cmds, b, dies)
    <3>1. ~ dies /\ cmds[b] \in WarnOnly /\ i # b
      BY <1>4, <2>3 DEF Succeeds
    <3>2. i \in D
      BY <1>1, <3>1
    <3> QED BY <2>1, <3>2
  <2> QED BY <1>2, <2>2, <2>3
<1> QED BY <1>3, <1>4

\* The names of the commands: the settings, and the detection of the
\* node's address.
CommandNames == Settings \cup {"node-ip", "local-ip"}

\* What the lists are made of.
LEMMA OVSContents ==
  /\ OVSCommands \in Seq(CommandNames)
  /\ Range(OVSCommands) = {"br-int", "system-id", "hostname", "ovn-bridge"}
                            \cup (IF config.external THEN {"ovn-remote"} ELSE {})
<1> DEFINE s == <<"br-int", "system-id", "hostname", "ovn-bridge">>
<1>1. s \in Seq(CommandNames) /\ Range(s) = {"br-int", "system-id", "hostname", "ovn-bridge"}
  BY DEF CommandNames, Settings, Range
<1>2. Remote \in Seq(CommandNames) /\ Range(Remote) = IF config.external THEN {"ovn-remote"} ELSE {}
  BY DEF Remote, CommandNames, Settings, Range
<1> HIDE DEF s
<1>3. Range(s \o Remote) = Range(s) \cup Range(Remote) /\ s \o Remote \in Seq(CommandNames)
  BY <1>1, <1>2, RangeConcat
<1>4. OVSCommands = s \o Remote
  BY DEF OVSCommands, s
<1> QED BY <1>1, <1>2, <1>3, <1>4

LEMMA TunnelContents ==
  /\ TunnelCommands \in Seq(CommandNames)
  /\ Range(TunnelCommands) = {"local-ip", "encap-type", "encap-ip", "ovn-bridge", "encap-csum"}
                               \cup (IF config.external THEN {"ovn-remote"} ELSE {})
<1> DEFINE s == <<"local-ip", "encap-type", "encap-ip">>
<1> DEFINE t == <<"ovn-bridge", "encap-csum">>
<1>1. /\ s \in Seq(CommandNames) /\ Range(s) = {"local-ip", "encap-type", "encap-ip"}
      /\ t \in Seq(CommandNames) /\ Range(t) = {"ovn-bridge", "encap-csum"}
  BY DEF CommandNames, Settings, Range
<1>2. Remote \in Seq(CommandNames) /\ Range(Remote) = IF config.external THEN {"ovn-remote"} ELSE {}
  BY DEF Remote, CommandNames, Settings, Range
<1> DEFINE u == s \o Remote
<1> HIDE DEF s, t
<1>3. u \in Seq(CommandNames) /\ Range(u) = Range(s) \cup Range(Remote)
  BY <1>1, <1>2, RangeConcat
<1>4. TunnelCommands = u \o t
  BY DEF TunnelCommands, s, t
<1> HIDE DEF u
<1>5. u \o t \in Seq(CommandNames) /\ Range(u \o t) = Range(u) \cup Range(t)
  BY <1>1, <1>3, RangeConcat
<1> QED BY <1>1, <1>2, <1>3, <1>4, <1>5

LEMMA GatewayContents ==
  /\ GatewayCommands \in Seq(CommandNames)
  /\ Range(GatewayCommands) =
       {"node-ip", "bridge-mappings", "gateway-mode"}
         \cup (IF host["br-ex"] = Unset
               THEN {"br-ex"} \cup (IF config.nic # "" THEN {"uplink"} ELSE {}) ELSE {})
         \cup (IF config.cidr \notin host["masquerade"]
               THEN {"masquerade"}
                      \cup (IF <<config.cidr, config.service>> \notin host["exception"]
                            THEN {"exception"} ELSE {})
               ELSE {})
<1> DEFINE s == <<"node-ip">>
<1> DEFINE t == <<"bridge-mappings", "gateway-mode">>
<1>1. /\ s \in Seq(CommandNames) /\ Range(s) = {"node-ip"}
      /\ t \in Seq(CommandNames) /\ Range(t) = {"bridge-mappings", "gateway-mode"}
  BY DEF CommandNames, Settings, Range
<1>2. /\ BridgeCommands \in Seq(CommandNames)
      /\ Range(BridgeCommands) =
           IF host["br-ex"] = Unset
           THEN {"br-ex"} \cup (IF config.nic # "" THEN {"uplink"} ELSE {}) ELSE {}
  <2> DEFINE x == <<"br-ex">>
  <2> DEFINE y == IF config.nic # "" THEN <<"uplink">> ELSE <<>>
  <2>1. /\ x \in Seq(CommandNames) /\ Range(x) = {"br-ex"}
        /\ <<>> \in Seq(CommandNames) /\ Range(<<>>) = {}
        /\ <<"uplink">> \in Seq(CommandNames) /\ Range(<<"uplink">>) = {"uplink"}
    BY DEF CommandNames, Settings, Range
  <2>2. y \in Seq(CommandNames)
    BY <2>1
  <2>3. Range(y) = IF config.nic # "" THEN {"uplink"} ELSE {}
    BY <2>1
  <2>4. BridgeCommands = IF host["br-ex"] # Unset THEN <<>> ELSE x \o y
    BY DEF BridgeCommands
  <2> HIDE DEF x, y
  <2>5. x \in Seq(CommandNames)
    BY <2>1
  <2>6. x \o y \in Seq(CommandNames) /\ Range(x \o y) = Range(x) \cup Range(y)
    BY <2>2, <2>5, RangeConcat
  <2> QED BY <2>1, <2>4, <2>6, <2>3
<1> DEFINE pair == <<config.cidr, config.service>>
<1>3. /\ SNATCommands \in Seq(CommandNames)
      /\ Range(SNATCommands) =
           IF config.cidr \notin host["masquerade"]
           THEN {"masquerade"} \cup (IF pair \notin host["exception"] THEN {"exception"} ELSE {})
           ELSE {}
  <2> DEFINE x == <<"masquerade">>
  <2> DEFINE y == IF pair \in host["exception"] THEN <<>> ELSE <<"exception">>
  <2>1. /\ x \in Seq(CommandNames) /\ Range(x) = {"masquerade"}
        /\ <<>> \in Seq(CommandNames) /\ Range(<<>>) = {}
        /\ <<"exception">> \in Seq(CommandNames) /\ Range(<<"exception">>) = {"exception"}
    BY DEF CommandNames, Settings, Range
  <2>2. y \in Seq(CommandNames)
    BY <2>1
  <2>3. Range(y) = IF pair \notin host["exception"] THEN {"exception"} ELSE {}
    BY <2>1
  <2>4. SNATCommands = IF config.cidr \in host["masquerade"] THEN <<>> ELSE x \o y
    BY DEF SNATCommands
  <2> HIDE DEF x, y
  <2>5. x \in Seq(CommandNames)
    BY <2>1
  <2>6. x \o y \in Seq(CommandNames) /\ Range(x \o y) = Range(x) \cup Range(y)
    BY <2>2, <2>5, RangeConcat
  <2> QED BY <2>1, <2>4, <2>6, <2>3
<1> DEFINE u == s \o BridgeCommands
<1> DEFINE v == u \o t
<1>4. GatewayCommands = v \o SNATCommands
  BY DEF GatewayCommands
<1> HIDE DEF s, t
<1>5. s \in Seq(CommandNames) /\ BridgeCommands \in Seq(CommandNames)
  BY <1>1, <1>2
<1>6. u \in Seq(CommandNames) /\ Range(u) = Range(s) \cup Range(BridgeCommands)
  BY <1>5, RangeConcat
<1> HIDE DEF u
<1>7. v \in Seq(CommandNames) /\ Range(v) = Range(u) \cup Range(t)
  BY <1>1, <1>6, RangeConcat
<1> HIDE DEF v
<1>8. v \o SNATCommands \in Seq(CommandNames) /\ Range(v \o SNATCommands) = Range(v) \cup Range(SNATCommands)
  BY <1>3, <1>7, RangeConcat
<1> QED BY <1>1, <1>2, <1>3, <1>4, <1>6, <1>7, <1>8

-----------------------------------------------------------------------------
(* The initial state and the steps of the agent.                           *)

\* The host's invariant holds before the agent first starts.
LEMMA InitHost == HostInit => HostInv
<1> SUFFICES ASSUME HostInit PROVE HostInv
  OBVIOUS
<1>1. /\ host = [s \in Settings |-> host[s]]
      /\ \A s \in Rules : host[s] = {}
      /\ \A s \in Settings \ Rules : host[s] = Unset
  BY DEF HostInit, Fresh, Settings, Rules
<1>2. /\ host["masquerade"] = {} /\ host["exception"] = {} /\ host["uplink"] = Unset /\ host["encap-ip"] = Unset
      /\ host["br-ex"] = Unset /\ host["ovn-remote"] = Unset
  BY <1>1 DEF Settings, Rules
<1>3. upsets \in 0 .. MaxHostUpsets
  <2>1. MaxHostUpsets \in Nat /\ upsets = 0
    BY NodeHostAssumption DEF HostInit
  <2> QED BY <2>1
<1>4. HostTypes
  <2>1. config \in Configs /\ missing \subseteq Nic /\ nodeIP \in Ip /\ excuses = {}
    BY DEF HostInit
  <2> QED BY <1>1, <1>2, <1>3, <2>1 DEF HostTypes
<1>5. ~ cni /\ ~ gateway /\ ~ tunnels /\ cni \in BOOLEAN /\ gateway \in BOOLEAN /\ tunnels \in BOOLEAN
  BY Zenon DEF HostInit
<1>6. Phases
  <2>1. phase = "down"
    BY DEF HostInit
  <2> QED BY <1>5, <2>1 DEF Phases
<1> QED BY <1>2, <1>4, <1>5, <1>6 DEF HostInv, BridgeHasUplink, ServicesExcepted, Current, ExceptionsFollow,
            RemoteExplained, TunnelsSet

\* A process that is gone has left nothing running.
LEMMA DeadIsDown == ASSUME Dead PROVE Phases' /\ ~ tunnels' /\ ~ gateway'
<1>1. phase' = "down" /\ ~ cni' /\ ~ gateway' /\ ~ tunnels'
  BY Zenon DEF Dead
<1>2. cni' \in BOOLEAN /\ gateway' \in BOOLEAN /\ tunnels' \in BOOLEAN
  BY Zenon DEF Dead
<1> QED BY <1>1, <1>2 DEF Phases

\* A failure or a crash is counted within the bound.
LEMMA UpsetCounts == ASSUME HostTypes, HostUpset PROVE upsets' \in 0 .. MaxHostUpsets
<1>1. MaxHostUpsets \in Nat /\ upsets \in 0 .. MaxHostUpsets
  BY NodeHostAssumption DEF HostTypes
<1>2. upsets < MaxHostUpsets /\ upsets' = upsets + 1
  BY DEF HostUpset
<1> QED BY <1>1, <1>2

\* What the commands that are done make of the settings.
LEMMA ApplySets ==
  ASSUME HostTypes, NEW done, Apply(done)
  PROVE  /\ host' = [s \in Settings |-> host'[s]]
         /\ host'["br-ex"] = IF "br-ex" \in done THEN "set" ELSE host["br-ex"]
         /\ host'["ovn-remote"] = IF "ovn-remote" \in done THEN "set" ELSE host["ovn-remote"]
         /\ host'["uplink"] = IF "uplink" \in done THEN config.nic ELSE host["uplink"]
         /\ host'["encap-type"] = IF "encap-type" \in done THEN config.encap ELSE host["encap-type"]
         /\ host'["encap-ip"] = IF "encap-ip" \in done THEN nodeIP ELSE host["encap-ip"]
         /\ host'["masquerade"] = IF "masquerade" \in done THEN host["masquerade"] \cup {config.cidr}
                                  ELSE host["masquerade"]
         /\ host'["exception"] = IF "exception" \in done
                                 THEN host["exception"] \cup {<<config.cidr, config.service>>}
                                 ELSE host["exception"]
<1>1. /\ host' = [s \in Settings |-> host'[s]]
      /\ \A s \in Settings : host'[s] = IF s \in done THEN Value(s) ELSE host[s]
  BY DEF Apply
<1>2. /\ Value("br-ex") = "set" /\ Value("ovn-remote") = "set"
      /\ Value("uplink") = config.nic /\ Value("encap-type") = config.encap
      /\ Value("encap-ip") = nodeIP
  BY DEF Value
<1>3. /\ Value("masquerade") = host["masquerade"] \cup {config.cidr}
      /\ Value("exception") = host["exception"] \cup {<<config.cidr, config.service>>}
  BY DEF Value
<1>4. {"br-ex", "ovn-remote", "uplink", "encap-type", "encap-ip", "masquerade", "exception"} \subseteq Settings
  BY DEF Settings
<1> QED BY <1>1, <1>2, <1>3, <1>4

\* The types survive a list of commands.
LEMMA ApplyTypes ==
  ASSUME HostTypes, NEW done, Apply(done), UNCHANGED <<config, missing, nodeIP>>,
         excuses' \subseteq {"uplink", "exception", "service", "ovn-remote"}, upsets' \in 0 .. MaxHostUpsets
  PROVE  HostTypes'
<1>1. config.cidr \in Cidr /\ config.service \in Service /\ config.nic \in Nic \cup {""}
  BY DEF HostTypes, Configs
<1> DEFINE pair == <<config.cidr, config.service>>
<1>2. pair \in Cidr \X Service
  BY <1>1
<1>3. host'["exception"] \in {host["exception"], host["exception"] \cup {pair}}
  BY ApplySets
<1> HIDE DEF pair
<1>4. host'["exception"] \subseteq Cidr \X Service
  BY <1>2, <1>3 DEF HostTypes
<1>5. /\ host' = [s \in Settings |-> host'[s]]
      /\ host'["uplink"] \in {host["uplink"], config.nic} /\ host'["encap-ip"] \in {host["encap-ip"], nodeIP}
      /\ host'["masquerade"] \in {host["masquerade"], host["masquerade"] \cup {config.cidr}}
  BY ApplySets
<1>6. /\ host'["uplink"] \in Nic \cup {Unset} /\ host'["encap-ip"] \in Ip \cup {Unset}
      /\ host'["masquerade"] \subseteq Cidr
  BY <1>1, <1>5 DEF HostTypes, Unset
<1> QED BY <1>4, <1>5, <1>6 DEF HostTypes

\* Whatever breaks, the number of upsets stays within its bound.
LEMMA BreaksCounts ==
  ASSUME HostTypes, NEW cmds, NEW b, NEW dies, Breaks(cmds, b, dies)
  PROVE  upsets' \in 0 .. MaxHostUpsets
<1>1. CASE UNCHANGED upsets
  BY <1>1 DEF HostTypes
<1>2. CASE HostUpset
  BY <1>2, UpsetCounts
<1> QED BY <1>1, <1>2 DEF Breaks

\* configureOVS: of what the invariant is about it sets only the remote.
LEMMA OVSKeeps == ASSUME HostInv, configureOVS PROVE HostInv'
<1>1. PICK b \in 0 .. Len(OVSCommands), dies \in BOOLEAN :
        /\ Breaks(OVSCommands, b, dies)
        /\ Apply(Done(OVSCommands, b, dies))
        /\ IF Succeeds(OVSCommands, b, dies)
           THEN Alive("cni") /\ UNCHANGED <<gateway, tunnels>>
           ELSE Dead
  BY DEF configureOVS
<1>2. phase = "down" /\ UNCHANGED <<config, missing, nodeIP, excuses>>
  BY DEF configureOVS
<1> DEFINE done == Done(OVSCommands, b, dies)
<1>3. done \subseteq Range(OVSCommands)
  BY DoneCommands, OVSContents
<1>4. done \subseteq {"br-int", "system-id", "hostname", "ovn-bridge"}
                       \cup (IF config.external THEN {"ovn-remote"} ELSE {})
  BY <1>3, OVSContents
<1>5. Apply(done)
  BY <1>1
<1> HIDE DEF done
<1>6. HostTypes'
  BY <1>1, <1>2, <1>5, ApplyTypes, BreaksCounts DEF HostInv, HostTypes
<1>7. /\ host'["br-ex"] = host["br-ex"] /\ host'["uplink"] = host["uplink"]
      /\ host'["masquerade"] = host["masquerade"] /\ host'["exception"] = host["exception"]
      /\ host'["ovn-remote"] = host["ovn-remote"] \/ config.external
  BY <1>4, <1>5, ApplySets DEF HostInv
<1>8. Phases' /\ ~ tunnels' /\ ~ gateway'
  <2>1. CASE Succeeds(OVSCommands, b, dies)
    <3>1. phase' = "cni" /\ cni' = cni /\ gateway' = gateway /\ tunnels' = tunnels
      BY <1>1, <2>1 DEF Alive
    <3>2. ~ cni /\ ~ gateway /\ ~ tunnels /\ cni \in BOOLEAN /\ gateway \in BOOLEAN /\ tunnels \in BOOLEAN
      BY <1>2 DEF HostInv, Phases
    <3> QED BY <3>1, <3>2 DEF Phases
  <2>2. CASE ~ Succeeds(OVSCommands, b, dies)
    BY <1>1, <2>2, DeadIsDown
  <2> QED BY <2>1, <2>2
<1> QED BY <1>2, <1>6, <1>7, <1>8
        DEF HostInv, BridgeHasUplink, ServicesExcepted, Current, ExceptionsFollow,
            RemoteExplained, TunnelsSet

\* configureGateway: the interface comes with the bridge and the exception
\* with the masquerading, or an excuse is noted.
LEMMA GatewayKeeps == ASSUME HostInv, configureGateway PROVE HostInv'
<1>1. phase = "gateway" /\ UNCHANGED <<config, missing, nodeIP>> /\ ~ tunnels
  BY DEF configureGateway, HostInv, Phases
<1>2. CASE AfterGateway(FALSE) /\ UNCHANGED <<host, excuses, upsets>>
  <2>1. Phases' /\ gateway' = gateway /\ tunnels' = tunnels
    BY <1>1, <1>2 DEF HostInv, Phases, AfterGateway, Alive
  <2> QED BY <1>1, <1>2, <2>1
          DEF HostInv, HostTypes, BridgeHasUplink, ServicesExcepted, Current, ExceptionsFollow,
            RemoteExplained, TunnelsSet
<1>3. ASSUME NEW b \in 0 .. Len(GatewayCommands), NEW dies \in BOOLEAN,
             Breaks(GatewayCommands, b, dies),
             Apply(Done(GatewayCommands, b, dies)),
             Cut(GatewayCommands, Done(GatewayCommands, b, dies)),
             IF Succeeds(GatewayCommands, b, dies)
             THEN Alive("tunnels") /\ gateway' = TRUE /\ UNCHANGED tunnels
             ELSE AfterGateway(dies)
      PROVE  HostInv'
  <2> DEFINE done == Done(GatewayCommands, b, dies)
  <2> DEFINE all == Range(GatewayCommands)
  <2> DEFINE pair == <<config.cidr, config.service>>
  <2>1. /\ done \subseteq all
        /\ Succeeds(GatewayCommands, b, dies) => all \ WarnOnly \subseteq done
    BY DoneCommands, GatewayContents
  <2>2. /\ "ovn-remote" \notin all /\ "encap-type" \notin all /\ "encap-ip" \notin all
        /\ host["br-ex"] = Unset => "br-ex" \in all /\ (config.nic # "" => "uplink" \in all)
        /\ "masquerade" \in all => pair \in host["exception"] \/ "exception" \in all
        /\ "masquerade" \notin all => config.cidr \in host["masquerade"]
    BY GatewayContents
  <2>3. /\ excuses \subseteq excuses' /\ excuses' \subseteq excuses \cup {"uplink", "exception"}
        /\ "br-ex" \in done /\ "uplink" \in all \ done => "uplink" \in excuses'
        /\ "masquerade" \in done /\ "exception" \in all \ done => "exception" \in excuses'
        /\ Apply(done)
    <3> DEFINE halves == {x \in Companion : x[1] \in done /\ x[2] \in all \ done}
    <3>1. excuses' = excuses \cup {x[2] : x \in halves} /\ Apply(done)
      BY <1>3 DEF Cut
    <3>2. \A x \in Companion : x[2] \in {"uplink", "exception"}
      BY DEF Companion
    <3>3. /\ "br-ex" \in done /\ "uplink" \in all \ done => <<"br-ex", "uplink">> \in halves
          /\ "masquerade" \in done /\ "exception" \in all \ done => <<"masquerade", "exception">> \in halves
      BY DEF Companion
    <3>4. <<"br-ex", "uplink">>[2] = "uplink" /\ <<"masquerade", "exception">>[2] = "exception"
      OBVIOUS
    <3>5. \A x \in halves : x \in Companion /\ x[2] \in {y[2] : y \in halves}
      OBVIOUS
    <3> HIDE DEF halves
    <3>6. /\ <<"br-ex", "uplink">> \in halves => "uplink" \in excuses'
          /\ <<"masquerade", "exception">> \in halves => "exception" \in excuses'
      BY <3>1, <3>4, <3>5
    <3>7. excuses' \subseteq excuses \cup {"uplink", "exception"}
      BY <3>1, <3>2, <3>5
    <3> QED BY <3>1, <3>3, <3>6, <3>7
  <2>4. Succeeds(GatewayCommands, b, dies) =>
          /\ host["br-ex"] = Unset => "br-ex" \in done
          /\ "masquerade" \in all => "masquerade" \in done
    BY <2>1, <2>2 DEF WarnOnly
  <2> HIDE DEF done, all
  <2>5. upsets' \in 0 .. MaxHostUpsets /\ excuses' \subseteq {"uplink", "exception", "service", "ovn-remote"}
    BY <1>3, <2>3, BreaksCounts DEF HostInv, HostTypes
  <2>6. HostTypes'
    BY <1>1, <2>3, <2>5, ApplyTypes DEF HostInv
  <2>7. /\ host'["br-ex"] = IF "br-ex" \in done THEN "set" ELSE host["br-ex"]
        /\ host'["uplink"] = IF "uplink" \in done THEN config.nic ELSE host["uplink"]
        /\ host'["masquerade"] = IF "masquerade" \in done THEN host["masquerade"] \cup {config.cidr}
                                 ELSE host["masquerade"]
        /\ host'["exception"] = IF "exception" \in done THEN host["exception"] \cup {pair}
                                ELSE host["exception"]
        /\ host'["ovn-remote"] = host["ovn-remote"]
    BY <2>1, <2>2, <2>3, ApplySets DEF HostInv
  <2>8. /\ Phases' /\ ~ tunnels'
        /\ gateway' => Succeeds(GatewayCommands, b, dies)
    <3>1. cni /\ ~ gateway /\ ~ tunnels /\ cni \in BOOLEAN /\ gateway \in BOOLEAN /\ tunnels \in BOOLEAN
      BY <1>1 DEF HostInv, Phases
    <3>2. CASE Succeeds(GatewayCommands, b, dies)
      <4>1. phase' = "tunnels" /\ cni' = cni /\ tunnels' = tunnels
        BY <1>3, <3>2 DEF Alive
      <4>2. gateway' /\ gateway' \in BOOLEAN
        BY <1>3, <3>2, Zenon
      <4> QED BY <3>1, <3>2, <4>1, <4>2 DEF Phases
    <3>3. CASE ~ Succeeds(GatewayCommands, b, dies) /\ ~ dies
      <4>1. phase' = "tunnels" /\ cni' = cni /\ gateway' = gateway /\ tunnels' = tunnels
        BY <1>3, <3>3 DEF AfterGateway, Alive
      <4> QED BY <3>1, <4>1 DEF Phases
    <3>4. CASE ~ Succeeds(GatewayCommands, b, dies) /\ dies
      BY <1>3, <3>4, DeadIsDown DEF AfterGateway
    <3> QED BY <3>2, <3>3, <3>4
  <2>9. BridgeHasUplink'
    <3>1. host'["br-ex"] # Unset /\ config.nic # "" => host'["uplink"] = config.nic \/ "uplink" \in excuses'
      BY <2>2, <2>3, <2>7 DEF HostInv, BridgeHasUplink
    <3>2. gateway' => host'["br-ex"] # Unset
      BY <2>4, <2>7, <2>8 DEF Unset
    <3> QED BY <1>1, <3>1, <3>2 DEF BridgeHasUplink
  <2>10. Current' = Current /\ config.service \in Current /\ config' = config
    <3>1. "service" \in excuses' <=> "service" \in excuses
      BY <2>3
    <3>2. config.service \in Service
      BY DEF HostInv, HostTypes, Configs
    <3> QED BY <1>1, <3>1, <3>2 DEF Current
  <2>11. ServicesExcepted'
    <3>1. gateway' => config.cidr \in host'["masquerade"]
      BY <2>2, <2>4, <2>7, <2>8
    <3>2. ASSUME NEW c \in host'["masquerade"], "exception" \notin excuses'
          PROVE  \E s \in Current : <<c, s>> \in host'["exception"]
      <4>1. CASE c \in host["masquerade"]
        <5>1. \E s \in Current : <<c, s>> \in host["exception"]
          BY <2>3, <3>2, <4>1 DEF HostInv, ServicesExcepted
        <5> QED BY <2>7, <5>1
      <4>2. CASE c \notin host["masquerade"]
        <5>1. c = config.cidr /\ "masquerade" \in all /\ "masquerade" \in done
          BY <2>1, <2>7, <3>2, <4>2
        <5>2. "exception" \in all => "exception" \in done
          BY <2>3, <3>2, <5>1
        <5>3. pair \in host'["exception"]
          BY <2>2, <2>7, <5>1, <5>2
        <5> QED BY <2>10, <5>1, <5>3
      <4> QED BY <4>1, <4>2
    <3> QED BY <2>10, <3>1, <3>2 DEF ServicesExcepted
  <2>12. ExceptionsFollow'
    <3> SUFFICES ASSUME NEW e \in host'["exception"] PROVE e[2] \in Current
      BY <2>10 DEF ExceptionsFollow
    <3>1. e \in host["exception"] \/ e = pair
      BY <2>7
    <3> QED BY <2>10, <3>1 DEF HostInv, ExceptionsFollow
  <2>13. RemoteExplained' /\ TunnelsSet'
    BY <1>1, <2>3, <2>7, <2>8 DEF HostInv, RemoteExplained, TunnelsSet
  <2> QED BY <2>6, <2>8, <2>9, <2>13, <2>11, <2>12 DEF HostInv
<1> QED BY <1>2, <1>3 DEF configureGateway

\* configureTunnels: reported as done, the commands that matter are.
LEMMA TunnelsKeep == ASSUME HostInv, configureTunnels PROVE HostInv'
<1>1. PICK b \in 0 .. Len(TunnelCommands), dies \in BOOLEAN :
        /\ Breaks(TunnelCommands, b, dies)
        /\ Apply(Done(TunnelCommands, b, dies))
        /\ IF dies THEN Dead
           ELSE Alive("running") /\ tunnels' = Succeeds(TunnelCommands, b, dies) /\ UNCHANGED gateway
  BY DEF configureTunnels
<1>2. phase = "tunnels" /\ UNCHANGED <<config, missing, nodeIP, excuses>>
  BY DEF configureTunnels
<1> DEFINE done == Done(TunnelCommands, b, dies)
<1> DEFINE all == Range(TunnelCommands)
<1>3. done \subseteq all /\ (Succeeds(TunnelCommands, b, dies) => all \ WarnOnly \subseteq done)
  BY DoneCommands, TunnelContents
<1>4. /\ done \subseteq {"local-ip", "encap-type", "encap-ip", "ovn-bridge", "encap-csum"}
                          \cup (IF config.external THEN {"ovn-remote"} ELSE {})
      /\ Succeeds(TunnelCommands, b, dies) => /\ "encap-type" \in done /\ "encap-ip" \in done
                                              /\ config.external => "ovn-remote" \in done
  BY <1>3, TunnelContents DEF WarnOnly
<1>5. Apply(done)
  BY <1>1
<1> HIDE DEF done, all
<1>6. HostTypes'
  BY <1>1, <1>2, <1>5, ApplyTypes, BreaksCounts DEF HostInv, HostTypes
<1>7. /\ host'["br-ex"] = host["br-ex"] /\ host'["uplink"] = host["uplink"]
      /\ host'["masquerade"] = host["masquerade"] /\ host'["exception"] = host["exception"]
      /\ host'["ovn-remote"] = host["ovn-remote"] \/ config.external
  BY <1>4, <1>5, ApplySets DEF HostInv
<1>8. /\ Phases' /\ (gateway' => gateway)
      /\ tunnels' => Succeeds(TunnelCommands, b, dies)
  <2>1. CASE dies
    BY <1>1, <2>1, DeadIsDown
  <2>2. CASE ~ dies
    <3>1. cni /\ ~ tunnels /\ cni \in BOOLEAN /\ gateway \in BOOLEAN
      BY <1>2 DEF HostInv, Phases
    <3>2. phase' = "running" /\ cni' = cni /\ gateway' = gateway
      BY <1>1, <2>2 DEF Alive
    <3>3. tunnels' = Succeeds(TunnelCommands, b, dies)
      BY <1>1, <2>2
    <3>4. tunnels' \in BOOLEAN /\ (tunnels' => Succeeds(TunnelCommands, b, dies))
      BY <3>3, Zenon DEF Succeeds
    <3> QED BY <3>1, <3>2, <3>4 DEF Phases
  <2> QED BY <2>1, <2>2
<1>9. TunnelsSet'
  <2> SUFFICES ASSUME tunnels'
               PROVE  /\ host'["encap-type"] = config.encap /\ host'["encap-ip"] = nodeIP
                      /\ config.external => host'["ovn-remote"] # Unset
    BY <1>2 DEF TunnelsSet
  <2>1. Succeeds(TunnelCommands, b, dies)
    BY <1>8
  <2> QED BY <1>4, <1>5, <2>1, ApplySets DEF HostInv, Unset
<1> QED BY <1>2, <1>6, <1>7, <1>8, <1>9
        DEF HostInv, BridgeHasUplink, ServicesExcepted, Current, ExceptionsFollow, RemoteExplained

\* What happens to the agent and to its node.
LEMMA OutsideKeeps == ASSUME HostInv, StartCNI \/ Crash \/ NewConfig \/ Reboot PROVE HostInv'
<1>1. upsets' \in 0 .. MaxHostUpsets
  <2>1. HostUpset \/ UNCHANGED upsets
    BY DEF StartCNI, Crash, NewConfig, Reboot
  <2> QED BY <2>1, UpsetCounts DEF HostInv, HostTypes
<1>2. Phases' /\ ~ tunnels' /\ ~ gateway'
  <2>1. CASE Dead
    BY <2>1, DeadIsDown
  <2>2. CASE StartCNI /\ phase' = "gateway" /\ cni' = TRUE /\ UNCHANGED <<gateway, tunnels, upsets>>
    <3>1. ~ gateway /\ ~ tunnels /\ gateway \in BOOLEAN /\ tunnels \in BOOLEAN
      BY <2>2 DEF HostInv, Phases, StartCNI
    <3>2. phase' = "gateway" /\ gateway' = gateway /\ tunnels' = tunnels
      BY <2>2
    <3>3. cni' /\ cni' \in BOOLEAN
      BY <2>2, Zenon
    <3> QED BY <3>1, <3>2, <3>3 DEF Phases
  <2> QED BY <2>1, <2>2 DEF StartCNI, Crash, NewConfig, Reboot
<1>3. CASE StartCNI \/ Crash
  BY <1>1, <1>2, <1>3 DEF StartCNI, Crash, HostInv, HostTypes, BridgeHasUplink, ServicesExcepted, Current,
                          ExceptionsFollow, RemoteExplained, TunnelsSet
<1>4. CASE NewConfig
  <2>1. /\ UNCHANGED <<missing, nodeIP, host>> /\ config' \in Configs
        /\ excuses' = excuses
             \cup (IF config'.nic # config.nic /\ host["br-ex"] # Unset THEN {"uplink"} ELSE {})
             \cup (IF config'.service # config.service /\ host["exception"] # {} THEN {"service"} ELSE {})
             \cup (IF config.external /\ ~ config'.external THEN {"ovn-remote"} ELSE {})
    BY <1>4 DEF NewConfig
  <2>2. excuses \subseteq excuses' /\ excuses' \subseteq {"uplink", "exception", "service", "ovn-remote"}
    BY <2>1 DEF HostInv, HostTypes
  <2>3. HostTypes'
    BY <1>1, <2>1, <2>2 DEF HostInv, HostTypes
  <2>4. BridgeHasUplink' /\ RemoteExplained' /\ TunnelsSet'
    BY <1>2, <2>1, <2>2 DEF HostInv, BridgeHasUplink, RemoteExplained, TunnelsSet
  <2>5. host["exception"] = {} \/ Current \subseteq Current'
    <3>1. config.service \in Service
      BY DEF HostInv, HostTypes, Configs
    <3>2. CASE "service" \in excuses
      BY <2>2, <3>2 DEF Current
    <3>3. CASE config'.service = config.service
      BY <2>2, <3>1, <3>3 DEF Current
    <3>4. CASE config'.service # config.service /\ host["exception"] # {}
      BY <2>1, <3>1, <3>4 DEF Current
    <3> QED BY <3>2, <3>3, <3>4
  <2>6. ServicesExcepted' /\ ExceptionsFollow'
    BY <1>2, <2>1, <2>2, <2>5 DEF HostInv, ServicesExcepted, ExceptionsFollow
  <2> QED BY <1>2, <2>3, <2>4, <2>6 DEF HostInv
<1>5. CASE Reboot
  <2>1. /\ host' = [host EXCEPT !["masquerade"] = {}, !["exception"] = {}]
        /\ nodeIP' \in Ip /\ missing' \in SUBSET missing
        /\ excuses' = excuses \ {"exception", "service"} /\ config' = config
    BY <1>5 DEF Reboot
  <2>2. /\ host' = [s \in Settings |-> host'[s]]
        /\ host'["masquerade"] = {} /\ host'["exception"] = {}
        /\ \A s \in Settings \ Rules : host'[s] = host[s]
    BY <2>1 DEF HostInv, HostTypes, Settings, Rules
  <2>3. /\ host'["br-ex"] = host["br-ex"] /\ host'["uplink"] = host["uplink"]
        /\ host'["encap-ip"] = host["encap-ip"] /\ host'["ovn-remote"] = host["ovn-remote"]
    BY <2>2 DEF Settings, Rules
  <2> QED BY <1>1, <1>2, <2>1, <2>2, <2>3
          DEF HostInv, HostTypes, Rules, BridgeHasUplink, ServicesExcepted, Current, ExceptionsFollow,
            RemoteExplained, TunnelsSet
<1> QED BY <1>3, <1>4, <1>5

-----------------------------------------------------------------------------
(* The theorems about the host.                                            *)

\* Every step of the agent and everything that happens to it keeps the
\* host's settings in order.
LEMMA NextHost ==
  ASSUME HostInv, [HostNext]_hostVars
  PROVE  HostInv'
<1>1. CASE HostNext
  BY <1>1, OVSKeeps, GatewayKeeps, TunnelsKeep, OutsideKeeps DEF HostNext, runNodeAgent
<1>2. CASE UNCHANGED hostVars
  BY <1>2 DEF hostVars, HostInv, HostTypes, Phases, BridgeHasUplink, ServicesExcepted, Current,
              ExceptionsFollow, RemoteExplained, TunnelsSet
<1> QED BY <1>1, <1>2

\* The invariant holds over any number of failures, crashes, reboots and new
\* configurations.
THEOREM HostInvariance == HostSpec => []HostInv
BY InitHost, NextHost, PTL DEF HostSpec

\* Wherever a run of the agent is cut short: a gateway that reports itself
\* configured reaches the wire and the services of a masqueraded cluster are
\* excepted, unless a named excuse was met.
THEOREM GatewayIsSound == HostSpec => []GatewaySound
<1>1. HostInv => GatewaySound
  <2> SUFFICES ASSUME HostInv PROVE GatewaySound
    OBVIOUS
  <2>1. cni \in BOOLEAN /\ (cni <=> phase \in {"gateway", "tunnels", "running"})
    BY DEF HostInv, Phases
  <2>2. cni = (phase \in {"gateway", "tunnels", "running"})
    <3>1. ASSUME NEW x \in BOOLEAN, NEW y \in BOOLEAN, x <=> y PROVE x = y
      BY <3>1, Zenon
    <3>2. ASSUME NEW S PROVE (phase \in S) \in BOOLEAN
      OBVIOUS
    <3> DEFINE up == {"gateway", "tunnels", "running"}
    <3>3. (phase \in up) \in BOOLEAN /\ (cni <=> phase \in up)
      BY <2>1, <3>2
    <3> HIDE DEF up
    <3>4. cni = (phase \in up)
      BY <2>1, <3>1, <3>3
    <3> QED BY <3>4 DEF up
  <2>3. HostTypeOK
    BY <2>2 DEF HostInv, HostTypes, Phases, HostTypeOK
  <2>4. GatewayHasUplink
    BY DEF HostInv, BridgeHasUplink, GatewayHasUplink
  <2> QED BY <2>3, <2>4 DEF HostInv, GatewaySound
<1> QED BY <1>1, HostInvariance, PTL

\* An agent whose tunnels are configured has the encapsulation, address and
\* remote of its own configuration, whatever earlier runs left behind.
THEOREM TunnelsAlwaysFollow == HostSpec => []TunnelsFollowConfig
<1>1. HostInv => TunnelsFollowConfig
  BY DEF HostInv, HostTypes, Configs, RemoteExplained, TunnelsSet, TunnelsFollowConfig
<1> QED BY <1>1, HostInvariance, PTL
=============================================================================
