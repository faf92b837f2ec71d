--------------------------- MODULE NodeController ----------------------------
(***************************************************************************)
(* pkg/node/node_controller.go: the node controllers.  Every node agent    *)
(* runs one over all the nodes, without a leader and with a cluster subnet *)
(* allocator of its own; they meet in the API server and in the northbound *)
(* database.  A step is one call out of the process.  Node subnet number i *)
(* is the i-th block of the cluster CIDR.                                  *)
(***************************************************************************)
EXTENDS SubnetAllocator

CONSTANTS
  Agent,       \* node agents
  Node,        \* node names
  NumSubnets,  \* node subnets in the cluster CIDR, a power of two
  Presets,     \* annotations that users give to nodes
  MaxBirths,   \* bound: nodes created
  MaxUpsets    \* bound: other clients' writes, failed calls and restarts

None == -1     \* no subnet annotation, or one that is not a CIDR
Foreign == -2  \* a CIDR outside the cluster CIDR or of another size

Subnets == 0 .. (NumSubnets - 1)

ASSUME NodeAssumption ==
  /\ IsFiniteSet(Agent) /\ IsFiniteSet(Node) /\ Node # {}
  /\ NumSubnets \in 4 .. AddressSpace
  /\ Presets \subseteq Subnets \cup {Foreign}
  /\ {MaxBirths, MaxUpsets} \subseteq Nat

VARIABLES
  node,      \* the API server's nodes
  switches,  \* OVN: the row of each node's logical switch
  seen,      \* agent -> its informer's cache
  queue,     \* agent -> names queued or waiting out a back-off
  work,      \* agent -> the reconcile in progress
  alloc,     \* agent -> the bitmap inside its ClusterSubnetAllocator
  tracked,   \* agent -> nodeSubnets
  orphaned,  \* history: deletions an agent had not handled when it stopped
  spent

vars == <<node, switches, seen, queue, work, alloc, tracked, orphaned, spent>>

memory == <<alloc, tracked>>

\* gateway stands for the gateway and switch annotations, which follow from a
\* subnet; others counts writes of other clients.  Agents never write a
\* version back, so two versions are equal when their resourceVersions are.
Versions == [uid : Nat, subnet : Subnets \cup {None, Foreign},
             gateway : Subnets \cup {None, Foreign}, others : Nat]

Absent == [uid |-> 0, subnet |-> None, gateway |-> None, others |-> 0]

NoRow == [id |-> 0, subnet |-> None]

Idle == [pc |-> "idle", n |-> CHOOSE n \in Node : TRUE, obj |-> Absent, subnet |-> None, id |-> 0]

Steps == {"idle", "update", "create", "annotate", "deleteSwitch"}

\* NewClusterSubnetAllocator: subnet numbers are allocated as addresses of
\* 0.0.0.0/n, whose first and last address a SubnetAllocator never gives.
NewClusterSubnetAllocator == NewSubnetAllocator([base |-> 0, total |-> NumSubnets], {})

Nothing == [n \in Node |-> None]

Init ==
  /\ node = [n \in Node |-> Absent]
  /\ switches = [n \in Node |-> NoRow]
  /\ seen = [a \in Agent |-> node]
  /\ queue = [a \in Agent |-> {}]
  /\ work = [a \in Agent |-> Idle]
  /\ alloc = [a \in Agent |-> NewClusterSubnetAllocator]
  /\ tracked = [a \in Agent |-> Nothing]
  /\ orphaned = {}
  /\ spent = [births |-> 0, upsets |-> 0]

Upset == spent.upsets < MaxUpsets /\ spent' = [spent EXCEPT !.upsets = @ + 1]

-----------------------------------------------------------------------------
(* The cluster subnet allocator.                                           *)

\* The 16 bytes of net.IPv4 of a number: four zeros do not come last.
IPv4(n) == [i \in 0 .. 15 |-> CASE i < 10 -> 0
                                [] i \in {10, 11} -> 255
                                [] OTHER -> (n \div 256 ^ (15 - i)) % 256]

\* AllocateSubnet reads the number from bytes 0 to 3.
DecodeIndex(ip) == ip[3] + 256 * (ip[2] + 256 * (ip[1] + 256 * ip[0]))

AllocateSubnet(b) == DecodeIndex(IPv4(NextIP(b)))

\* The caller ignores the errors: outside the cluster CIDR, or taken already.
AllocateSpecificSubnet(b, s) == IF s \in Subnets /\ CanAllocate(b, s) THEN Allocate(b, s) ELSE b

ReleaseSubnet(b, s) == IF s \in Subnets THEN Release(b, s) ELSE b

-----------------------------------------------------------------------------
(* The API server's other clients, and the informers.                      *)

External == UNCHANGED <<switches, queue, work, memory, orphaned>>

CreateNode(n) ==
  /\ node[n].uid = 0 /\ spent.births < MaxBirths
  /\ spent' = [spent EXCEPT !.births = @ + 1]
  /\ node' = [node EXCEPT ![n] = [Absent EXCEPT !.uid = spent.births + 1]]
  /\ External /\ UNCHANGED seen

\* The kubelet's status, or somebody's annotation.
EditNode(n) ==
  /\ node[n].uid # 0 /\ Upset
  /\ \E s \in Presets \cup {node[n].subnet} :
       node' = [node EXCEPT ![n].subnet = s, ![n].others = @ + 1]
  /\ External /\ UNCHANGED seen

DeleteNode(n) ==
  /\ node[n].uid # 0
  /\ node' = [node EXCEPT ![n] = Absent]
  /\ External /\ UNCHANGED <<seen, spent>>

Deliver(a, n) ==
  /\ seen[a][n] # node[n]
  /\ seen' = [seen EXCEPT ![a][n] = node[n]]
  /\ queue' = [queue EXCEPT ![a] = @ \cup {n}]
  /\ UNCHANGED <<node, switches, work, memory, orphaned, spent>>

-----------------------------------------------------------------------------
(* Reconcile.                                                              *)

\* The agent's reconcile ends; one that failed is queued again.
Return(a, ok) ==
  /\ work' = [work EXCEPT ![a] = Idle]
  /\ queue' = IF ok THEN queue ELSE [queue EXCEPT ![a] = @ \cup {work[a].n}]

Goto(a, pc) == work' = [work EXCEPT ![a].pc = pc] /\ UNCHANGED queue

\* handleNodeDelete: the entry goes first, the subnet is released last.
handleNodeDelete(a, n) ==
  /\ work' = [work EXCEPT ![a] = [Idle EXCEPT !.pc = "deleteSwitch", !.n = n,
                                              !.subnet = tracked[a][n]]]
  /\ tracked' = [tracked EXCEPT ![a][n] = None]
  /\ UNCHANGED alloc

\* The node's switch is looked for right away: nothing that happens between
\* the two reads could not have happened before both, in an older cache.
Track(a, n, s) ==
  /\ tracked' = [tracked EXCEPT ![a][n] = s]
  /\ work' = [work EXCEPT ![a] =
       [pc |-> IF switches[n] = NoRow THEN "create" ELSE "update", n |-> n,
        obj |-> seen[a][n], subnet |-> s, id |-> switches[n].id]]

\* Mutation of KeepSubnet: an annotation that is no CIDR is kept.
KeepSubnetUnparsed(a, n) ==
  /\ alloc' = [alloc EXCEPT ![a] = AllocateSpecificSubnet(@, seen[a][n].subnet)]
  /\ Track(a, n, seen[a][n].subnet)

\* handleNodeCreateOrUpdate, as far as the first write.
KeepSubnet(a, n) ==
  LET s == seen[a][n].subnet IN
  /\ s # None
  /\ alloc' = [alloc EXCEPT ![a] = AllocateSpecificSubnet(@, s)]
  /\ Track(a, n, s)

\* With none left the reconcile fails and the name stays queued.
GetSubnet(a, n) ==
  /\ seen[a][n].subnet = None /\ ~ Exhausted(alloc[a])
  /\ alloc' = [alloc EXCEPT ![a] = AllocateNext(@)]
  /\ Track(a, n, AllocateSubnet(alloc[a]))

Reconcile(a, n) ==
  /\ work[a].pc = "idle" /\ n \in queue[a]
  /\ \/ seen[a][n].uid = 0 /\ handleNodeDelete(a, n)
     \/ seen[a][n].uid # 0 /\ (KeepSubnet(a, n) \/ GetSubnet(a, n))
  /\ queue' = [queue EXCEPT ![a] = @ \ {n}]
  /\ UNCHANGED <<node, switches, seen, orphaned, spent>>

Row(a) == switches[work[a].n]

\* A UUID of no row and no reconcile.
NewId == CHOOSE i \in 1 .. (Cardinality(Agent) + Cardinality(Node) + 1) :
           /\ \A n \in Node : switches[n].id # i
           /\ \A a \in Agent : work[a].id # i

\* An OVN transaction: done, failed, or done and its answer lost.
Transact(a, row) ==
  LET new == [switches EXCEPT ![work[a].n] = row] IN
  \/ /\ switches' = new /\ UNCHANGED <<queue, spent>>
     /\ work' = [work EXCEPT ![a].pc = "annotate", ![a].id = 0]
  \/ Upset /\ switches' \in {switches, new} /\ Return(a, FALSE)

\* A row that is gone takes no update, without an error.
UpdateSwitch(a) ==
  /\ work[a].pc = "update"
  /\ Transact(a, IF Row(a).id = work[a].id THEN [Row(a) EXCEPT !.subnet = work[a].subnet] ELSE Row(a))
  /\ UNCHANGED <<node, seen, memory, orphaned>>

\* Another agent has made the switch since: names are unique.
CreateSwitch(a) ==
  /\ work[a].pc = "create"
  /\ IF Row(a) # NoRow
     THEN Return(a, FALSE) /\ UNCHANGED <<switches, spent>>
     ELSE Transact(a, [id |-> NewId, subnet |-> work[a].subnet])
  /\ UNCHANGED <<node, seen, memory, orphaned>>

Annotated(a) == [work[a].obj EXCEPT !.subnet = work[a].subnet, !.gateway = work[a].subnet]

\* Mutation of IsCurrent: the update is a patch, without a resourceVersion.
IsCurrentOrPatched(a) == node[work[a].n].uid # 0

IsCurrent(a) == node[work[a].n] = work[a].obj

\* updateNodeAnnotations writes the copy it was given, if it changes anything.
\* The next reconcile comes with the event of the write.
Annotate(a) ==
  /\ work[a].pc = "annotate"
  /\ LET n == work[a].n
         new == [node EXCEPT ![n].subnet = work[a].subnet, ![n].gateway = work[a].subnet]
     IN
       \/ Annotated(a) = work[a].obj /\ Return(a, TRUE) /\ UNCHANGED <<node, spent>>
       \/ Annotated(a) # work[a].obj /\
            \/ IsCurrent(a) /\ node' = new /\ Return(a, TRUE) /\ UNCHANGED spent
            \/ ~ IsCurrent(a) /\ Return(a, FALSE) /\ UNCHANGED <<node, spent>>
            \/ Upset /\ node' \in {node, IF IsCurrent(a) THEN new ELSE node} /\ Return(a, FALSE)
  /\ UNCHANGED <<switches, seen, memory, orphaned>>

\* Mutation of DeleteSwitch: a failed delete is only logged.
DeleteSwitchLogged(a) ==
  /\ work[a].pc = "deleteSwitch"
  /\ \/ switches' = [switches EXCEPT ![work[a].n] = NoRow] /\ UNCHANGED spent
     \/ Upset /\ UNCHANGED switches
  /\ Return(a, TRUE)
  /\ alloc' = [alloc EXCEPT ![a] = ReleaseSubnet(@, work[a].subnet)]
  /\ UNCHANGED <<node, seen, tracked, orphaned>>

\* The rest of handleNodeDelete: after an error the subnet is not released,
\* and the next run finds no entry to release.
DeleteSwitch(a) ==
  /\ work[a].pc = "deleteSwitch"
  /\ LET new == [switches EXCEPT ![work[a].n] = NoRow] IN
       \/ /\ switches' = new /\ Return(a, TRUE) /\ UNCHANGED spent
          /\ alloc' = [alloc EXCEPT ![a] = ReleaseSubnet(@, work[a].subnet)]
       \/ Upset /\ switches' \in {switches, new} /\ Return(a, FALSE) /\ UNCHANGED alloc
  /\ UNCHANGED <<node, seen, tracked, orphaned>>

\* A new process lists the nodes there are and queues each.  SyncExistingNodes
\* reads through a cache that has not started and recovers nothing.
Restart(a) ==
  /\ Upset
  /\ seen' = [seen EXCEPT ![a] = node]
  /\ queue' = [queue EXCEPT ![a] = {n \in Node : node[n].uid # 0}]
  /\ work' = [work EXCEPT ![a] = Idle]
  /\ alloc' = [alloc EXCEPT ![a] = NewClusterSubnetAllocator]
  /\ tracked' = [tracked EXCEPT ![a] = Nothing]
  /\ orphaned' = orphaned \cup
       {n \in Node : node[n].uid = 0 /\ (\/ seen[a][n].uid # 0 \/ n \in queue[a]
                                         \/ work[a].pc # "idle" /\ work[a].n = n)}
  /\ UNCHANGED <<node, switches>>

Worker(a) == UpdateSwitch(a) \/ CreateSwitch(a) \/ Annotate(a) \/ DeleteSwitch(a)

Next ==
  \/ \E n \in Node : CreateNode(n) \/ EditNode(n) \/ DeleteNode(n)
  \/ \E a \in Agent : Worker(a) \/ Restart(a) \/ \E n \in Node : Deliver(a, n) \/ Reconcile(a, n)

Spec == Init /\ [][Next]_vars

\* Informers and workers keep running; the work queue is first in, first out,
\* so no name waits while others are taken over and over.
FairSpec ==
  /\ Spec
  /\ \A a \in Agent :
       /\ WF_vars(Worker(a))
       /\ \A n \in Node : WF_vars(Deliver(a, n)) /\ SF_vars(Reconcile(a, n))

-----------------------------------------------------------------------------
(* Properties                                                              *)

TypeOK ==
  /\ node \in [Node -> Versions]
  /\ \A n \in Node : switches[n] = NoRow \/ (switches[n].id > 0 /\ switches[n].subnet # None)
  /\ seen \in [Agent -> [Node -> Versions]]
  /\ queue \in [Agent -> SUBSET Node]
  /\ \A a \in Agent : /\ work[a].pc \in Steps
                      /\ work[a].pc \in {"update", "create", "annotate"}
                           => work[a].obj.uid # 0 /\ work[a].subnet # None
                      /\ alloc[a] \in Allocators([base |-> 0, total |-> NumSubnets])
  /\ tracked \in [Agent -> [Node -> Subnets \cup {None, Foreign}]]
  /\ orphaned \subseteq Node

\* No two nodes are given the same subnet, as NewClusterSubnetAllocator's
\* example has it.  (Only subnets the agents have chosen: no presets.)
UniqueNodeSubnets ==
  \A m, n \in Node : m # n /\ node[m].subnet # None => node[m].subnet # node[n].subnet

\* Whatever old copy an agent works from, it never takes from a node the
\* subnet that the node, another agent or a user has put there.
KeepsSubnets ==
  \A n \in Node :
    (node[n].subnet # None /\ node'[n].uid = node[n].uid /\ node'[n].others = node[n].others)
      => node'[n].subnet = node[n].subnet

SubnetsStay == [][KeepsSubnets]_vars

Settled(n) ==
  IF node[n].uid = 0
  THEN switches[n] = NoRow \/ n \in orphaned
  ELSE /\ node[n].subnet # None /\ node[n].gateway = node[n].subnet
       /\ switches[n].subnet = node[n].subnet

\* Although all agents write all switches and annotations from copies of
\* different age, in the end a node's switch and annotations agree on its
\* subnet and a deleted node has no switch, unless an agent stopped before it
\* had handled the deletion.  An agent whose allocator has run dry may give up.
NodesSettle == <>[] \A n \in Node : Settled(n) \/ \E a \in Agent : Exhausted(alloc[a])
=============================================================================
