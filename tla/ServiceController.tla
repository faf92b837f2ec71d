-------------------------- MODULE ServiceController --------------------------
(***************************************************************************)
(* pkg/ovn/service_controller.go with pkg/ovndb/load_balancer.go: one      *)
(* Service, whose load balancers nobody else writes.  The controller has   *)
(* one worker, so a load balancer's Get and the write it leads to are one  *)
(* step; every transaction is a step of its own.  svc, conditions, nodes   *)
(* and active are the manager's cache: what it holds changes together with *)
(* the event that queues the Service, where there is one.                  *)
(***************************************************************************)
EXTENDS Naturals, Sequences, FiniteSets, SequencesExt

CONSTANTS
  Specs,       \* Service specs: [type, local, ports]
  Endpoint,
  Conditions,  \* conditions an endpoint may have
  Node,
  NodeOf,      \* endpoint -> its node
  Switch,      \* logical switches of the subnets
  MaxEdits,    \* bound: changes made from outside
  MaxUpsets    \* bound: failed calls, lost answers and restarts

CONSTANT NoService

Ports == [proto : STRING, num : Nat, target : Nat, nodePort : Nat]

ASSUME ServiceAssumption ==
  /\ NodeOf \in [Endpoint -> Node] /\ NoService \notin Specs
  /\ Specs \subseteq [type : STRING, local : BOOLEAN, ports : Seq(Ports)]
  /\ \A s \in Specs : s.type \notin {"ExternalName", "Headless"} => s.ports # <<>>
  /\ {MaxEdits, MaxUpsets} \subseteq Nat

VARIABLES
  svc,
  conditions,  \* of the endpoints there are
  nodes,       \* nodes with an internal IP
  active,      \* switches of the Active subnets
  lbs,         \* OVN: name -> load balancer
  attached,    \* OVN: switch -> names of its load balancers
  tracked,     \* serviceLBs: the names this process has made or updated
  queued,      \* "no", "yes", or "backoff"
  work,        \* the reconcile in progress
  excused,     \* history: <<what, name>> that a fault cost
  unseen,      \* history: the nodes have changed since a reconcile looked
  spent

serviceVars == <<svc, conditions, nodes, active, lbs, attached, tracked, queued,
          work, excused, unseen, spent>>

cluster == <<svc, conditions, nodes, active>>
database == <<lbs, attached>>

-----------------------------------------------------------------------------
(* Load balancers.  A name is the pair of protocol and kind that            *)
(* buildLoadBalancerName puts into it; a VIP a pair of IP and port.         *)

Protocols == {p.proto : p \in UNION {Range(s.ports) : s \in Specs}}

Names == Protocols \X {"clusterip", "nodeport"}

NoLB == [vips |-> <<>>, skipSNAT |-> FALSE, here |-> FALSE]

shouldManageService(s) == s # NoService /\ s.type \notin {"ExternalName", "Headless"}

\* getEndpointsForService: a missing Ready or Serving counts as true.
Included(c) ==
  (c.ready # "false" \/ c.serving # "false") /\ c.terminating # "true"

getEndpoints == {e \in DOMAIN conditions : Included(conditions[e])}

\* A target port given by name is 0 in the spec's record: IntValue makes it so.
buildBackends(eps, port) == {<<e, port.target>> : e \in eps}

Clusterwide(eps, port) ==
  [v \in IF eps = {} THEN {} ELSE {<<"ClusterIP", port.num>>} |-> buildBackends(eps, port)]

\* eps is the list made when the reconcile began; the Local policy reads the
\* endpoints again.
NodePortVips(s, eps, port) ==
  LET local(n) == {e \in getEndpoints : NodeOf[e] = n}
      at == IF eps = {} THEN {} ELSE IF s.local THEN {n \in nodes : local(n) # {}} ELSE nodes
  IN  [v \in {<<n, port.nodePort>> : n \in at} |->
         buildBackends(IF s.local THEN local(v[1]) ELSE eps, port)]

Item(kind, port) == [name |-> <<port.proto, kind>>, port |-> port]

\* The calls of a reconcile, in the order of the ports.
Items(s) ==
  FlattenSeq([i \in DOMAIN s.ports |->
    IF s.type \in {"NodePort", "LoadBalancer"} /\ s.ports[i].nodePort > 0
    THEN <<Item("clusterip", s.ports[i]), Item("nodeport", s.ports[i])>>
    ELSE <<Item("clusterip", s.ports[i])>>])

Current(s) == {it.name : it \in Range(Items(s))}

Vips(s, eps, it) ==
  IF it.name[2] = "clusterip" THEN Clusterwide(eps, it.port) ELSE NodePortVips(s, eps, it.port)

SkipsSNAT(s, it) == it.name[2] = "nodeport" /\ s.local

Present == {n \in Names : lbs[n].here}

-----------------------------------------------------------------------------
NoWork == [pc |-> "idle", svc |-> NoService, eps |-> {}, todo |-> <<>>, left |-> {}]

ServiceInit ==
  /\ svc = NoService
  /\ conditions = <<>>
  /\ nodes = Node /\ active = Switch
  /\ lbs = [n \in Names |-> NoLB] /\ attached = [w \in Switch |-> {}]
  /\ tracked = {} /\ queued = "no" /\ work = NoWork
  /\ excused = {} /\ unseen = FALSE
  /\ spent = [edits |-> 0, upsets |-> 0]

Edit ==
  /\ spent.edits < MaxEdits
  /\ spent' = [spent EXCEPT !.edits = @ + 1]
  /\ UNCHANGED <<lbs, tracked, work>>

Upset == spent.upsets < MaxUpsets /\ spent' = [spent EXCEPT !.upsets = @ + 1]

Excuse(what, N) == excused \cup (what \X N)
Cleared(N) == {x \in excused : x[2] \notin N}

\* For(&Service{}): created, changed or deleted.
EditService ==
  /\ Edit
  /\ \E s \in (Specs \cup {NoService}) \ {svc} : svc' = s
  /\ queued' = "yes"
  /\ UNCHANGED <<conditions, nodes, active, attached, excused, unseen>>

\* Mutation of EditEndpoints: only the Service itself is watched.
EditEndpointsUnwatched ==
  /\ Edit
  /\ \E E \in SUBSET Endpoint : conditions' \in [E -> Conditions] \ {conditions}
  /\ UNCHANGED <<svc, nodes, active, attached, queued, excused, unseen>>

\* endpointSliceToService: the slices name their Service, there or not.
EditEndpoints ==
  /\ Edit
  /\ \E E \in SUBSET Endpoint : conditions' \in [E -> Conditions] \ {conditions}
  /\ queued' = "yes"
  /\ UNCHANGED <<svc, nodes, active, attached, excused, unseen>>

\* Nodes are not watched.
EditNodes ==
  /\ Edit
  /\ \E n \in Node : nodes' \in {nodes \cup {n}, nodes \ {n}} \ {nodes}
  /\ unseen' = TRUE
  /\ UNCHANGED <<svc, conditions, active, attached, queued, excused>>

\* Nor are subnets: a switch that comes later has none of the load balancers.
EditSubnets ==
  /\ Edit
  /\ \E w \in Switch :
       /\ active' \in {active \cup {w}, active \ {w}} \ {active}
       /\ attached' = [attached EXCEPT ![w] = {}]
       /\ excused' = IF w \in active THEN excused ELSE Excuse({"attach"}, Present)
  /\ UNCHANGED <<svc, conditions, nodes, queued, unseen>>

BackoffExpires ==
  /\ queued = "backoff" /\ queued' = "yes"
  /\ UNCHANGED <<cluster, database, tracked, work, excused, unseen, spent>>

-----------------------------------------------------------------------------
(* Reconcile.                                                               *)

Reconcile ==
  /\ work = NoWork /\ queued = "yes" /\ queued' = "no"
  /\ work' = CASE svc = NoService -> [NoWork EXCEPT !.pc = "list"]
               [] shouldManageService(svc) ->
                    [NoWork EXCEPT !.pc = "ensure", !.svc = svc, !.eps = getEndpoints,
                                 !.todo = Items(svc)]
               [] OTHER -> NoWork
  /\ unseen' = FALSE
  /\ UNCHANGED <<cluster, database, tracked, excused, spent>>

\* An error is returned: the Service comes back, if no event brings it sooner.
Fail == work' = NoWork /\ queued' = IF queued = "no" THEN "backoff" ELSE queued

Goto(w) == work' = w /\ UNCHANGED queued

\* On to the next call, or to the clean-up after the last.
Advance == [work EXCEPT !.todo = Tail(@), !.pc = IF Len(work.todo) = 1 THEN "cleanup" ELSE "ensure"]

\* A transaction that makes the load balancers new: done, or failed, or done
\* with its answer lost.
Done(new) == lbs' = new /\ UNCHANGED spent
Failed(new) == Upset /\ lbs' \in {lbs, new}

Doing == Head(work.todo)

\* The port's VIPs replace whatever the load balancer had.
SetVips(n, vips) == [lbs EXCEPT ![n].vips = vips]

UpdateLB ==
  /\ work.pc = "ensure" /\ lbs[Doing.name].here
  /\ LET n == Doing.name
         new == SetVips(n, Vips(work.svc, work.eps, Doing))
     IN  \/ /\ Done(new)
            /\ tracked' = tracked \cup {n}
            /\ excused' = excused \ ({"stale", "untracked"} \X {n})
            /\ Goto(IF SkipsSNAT(work.svc, Doing) THEN [work EXCEPT !.pc = "options"] ELSE Advance)
         \/ Failed(new) /\ Fail /\ UNCHANGED <<tracked, excused>>
  /\ UNCHANGED <<cluster, attached, unseen>>

\* Only ever set; a failure is logged and the reconcile goes on.
SetOptions ==
  /\ work.pc = "options"
  /\ LET n == Doing.name
         new == [lbs EXCEPT ![n].skipSNAT = TRUE]
     IN  \/ Done(new) /\ excused' = excused \ {<<"options", n>>}
         \/ Failed(new) /\ excused' = Excuse({"options"}, {n})
  /\ Goto(Advance)
  /\ UNCHANGED <<cluster, attached, tracked, unseen>>

\* Mutation of CreateLB: an error is only logged.
CreateLBOnce ==
  /\ work.pc = "ensure" /\ ~ lbs[Doing.name].here
  /\ LET n == Doing.name
         new == [lbs EXCEPT ![n] = [vips |-> Vips(work.svc, work.eps, Doing),
                                    skipSNAT |-> SkipsSNAT(work.svc, Doing), here |-> TRUE]]
     IN  \/ /\ Done(new)
            /\ tracked' = tracked \cup {n} /\ excused' = Cleared({n})
            /\ Goto([work EXCEPT !.pc = "attach"])
         \/ /\ Failed(new) /\ Goto(Advance) /\ UNCHANGED tracked
            /\ excused' = IF lbs' = lbs THEN excused ELSE Excuse({"attach", "untracked"}, {n})
  /\ UNCHANGED <<cluster, attached, unseen>>

\* After a create whose answer is lost, the next reconcile finds the row and
\* updates it: it is attached to no switch.
CreateLB ==
  /\ work.pc = "ensure" /\ ~ lbs[Doing.name].here
  /\ LET n == Doing.name
         new == [lbs EXCEPT ![n] = [vips |-> Vips(work.svc, work.eps, Doing),
                                    skipSNAT |-> SkipsSNAT(work.svc, Doing), here |-> TRUE]]
     IN  \/ /\ Done(new)
            /\ tracked' = tracked \cup {n} /\ excused' = Cleared({n})
            /\ Goto([work EXCEPT !.pc = "attach"])
         \/ /\ Failed(new) /\ Fail /\ UNCHANGED tracked
            /\ excused' = IF lbs' = lbs THEN excused ELSE Excuse({"attach", "untracked"}, {n})
  /\ UNCHANGED <<cluster, attached, unseen>>

\* The switches' load balancers when some transactions, those on W, are done.
With(n, W) == [w \in Switch |-> IF w \in W THEN attached[w] \cup {n} ELSE attached[w]]
Without(n, W) == [w \in Switch |-> IF w \in W THEN attached[w] \ {n} ELSE attached[w]]

\* attachLoadBalancerToSwitches: one transaction per Active subnet, whose
\* failures are logged.
attachToSwitches ==
  /\ work.pc = "attach"
  /\ \/ /\ attached' = With(Doing.name, active)
        /\ UNCHANGED <<excused, spent>>
     \/ /\ Upset /\ \E W \in SUBSET active : attached' = With(Doing.name, W)
        /\ excused' = Excuse({"attach"}, {Doing.name})
  /\ Goto(Advance)
  /\ UNCHANGED <<cluster, lbs, tracked, unseen>>

\* A deleted row takes the weak references to it along.
Delete(N) ==
  /\ lbs' = [n \in Names |-> IF n \in N THEN NoLB ELSE lbs[n]]
  /\ attached' = [w \in Switch |-> attached[w] \ N]

\* DeleteLoadBalancer for each of N: a failure is logged and not tried again.
DeleteAll(N) ==
  \/ Delete(N) /\ excused' = Cleared(N) /\ UNCHANGED spent
  \/ /\ Upset
     /\ \E D \in SUBSET N : /\ Delete(D)
                            /\ excused' = Cleared(D) \cup ({"stale"} \X ((N \ D) \cap Present))

\* Mutation of Stale: what is left of a NodePort that is no more is not seen.
StaleProtocols == {n \in tracked : \A c \in Current(work.svc) : c[1] # n[1]}

Stale == tracked \ Current(work.svc)

\* cleanupStaleLoadBalancers: what it deletes stays tracked.
cleanupStale ==
  /\ work.pc = "cleanup"
  /\ DeleteAll(Stale) /\ Goto(NoWork)
  /\ UNCHANGED <<cluster, tracked, unseen>>

-----------------------------------------------------------------------------
(* handleDeletion.                                                         *)

\* By owner and Service in external_ids; an error leaves an empty list.
ListForDelete ==
  /\ work.pc = "list"
  /\ \/ Goto([work EXCEPT !.pc = "detach", !.left = Present]) /\ UNCHANGED <<excused, spent>>
     \/ /\ Upset /\ Goto([work EXCEPT !.pc = "detach"])
        /\ excused' = Excuse({"stale"}, Present)
  /\ UNCHANGED <<cluster, database, tracked, unseen>>

Leaving == CHOOSE n \in work.left : TRUE

\* detachLoadBalancerFromSwitches: what fails is logged.  The row is without
\* its switches from here to its deletion, or for good if that fails.
Detach ==
  /\ work.pc = "detach" /\ work.left # {}
  /\ \/ attached' = Without(Leaving, Switch) /\ UNCHANGED spent
     \/ Upset /\ \E W \in SUBSET Switch : attached' = Without(Leaving, W)
  /\ excused' = Excuse({"attach"}, {Leaving})
  /\ Goto([work EXCEPT !.pc = "delete"])
  /\ UNCHANGED <<cluster, lbs, tracked, unseen>>

DeleteLB ==
  /\ work.pc = "delete"
  /\ DeleteAll({Leaving})
  /\ Goto([work EXCEPT !.pc = "detach", !.left = @ \ {Leaving}])
  /\ UNCHANGED <<cluster, tracked, unseen>>

Forget ==
  /\ work.pc = "detach" /\ work.left = {}
  /\ tracked' = {} /\ Goto(NoWork)
  /\ UNCHANGED <<cluster, database, excused, unseen, spent>>

\* serviceLBs is lost, and so is the event of a Service that is gone.
Restart ==
  /\ Upset
  /\ work' = NoWork /\ tracked' = {}
  /\ queued' = IF svc = NoService THEN "no" ELSE "yes"
  /\ excused' = Excuse({"untracked"} \cup (IF svc = NoService THEN {"stale"} ELSE {}), Present)
                 \cup (IF work.pc = "attach" THEN {<<"attach", Doing.name>>} ELSE {})
  /\ UNCHANGED <<cluster, database, unseen>>

-----------------------------------------------------------------------------
Worker ==
  \/ Reconcile \/ UpdateLB \/ SetOptions \/ CreateLB \/ attachToSwitches \/ cleanupStale
  \/ ListForDelete \/ Detach \/ DeleteLB \/ Forget

ServiceNext ==
  \/ EditService \/ EditEndpoints \/ EditNodes \/ EditSubnets
  \/ Worker \/ BackoffExpires \/ Restart

ServiceSpec == ServiceInit /\ [][ServiceNext]_serviceVars

FairServiceSpec == ServiceSpec /\ WF_serviceVars(Worker) /\ WF_serviceVars(BackoffExpires)

-----------------------------------------------------------------------------
(* Properties                                                              *)

ServiceTypeOK ==
  /\ svc \in Specs \cup {NoService}
  /\ DOMAIN conditions \subseteq Endpoint /\ Range(conditions) \subseteq Conditions
  /\ nodes \subseteq Node /\ active \subseteq Switch
  /\ DOMAIN lbs = Names /\ attached \in [Switch -> SUBSET Names]
  /\ \A n \in Names : lbs[n].here \in BOOLEAN /\ lbs[n].skipSNAT \in BOOLEAN
  /\ tracked \subseteq Names /\ queued \in {"no", "yes", "backoff"}
  /\ work.pc \in {"idle", "ensure", "options", "attach", "cleanup", "list", "detach", "delete"}
  /\ (work.todo # <<>>) = (work.pc \in {"ensure", "options", "attach"})
  /\ excused \subseteq {"attach", "options", "stale", "untracked"} \X Names

Settled == work = NoWork /\ queued = "no"
Managed == shouldManageService(svc)

\* The last port of each protocol and kind: the one whose VIPs are left.
LastItem(n) ==
  LET its == Items(svc)
  IN  its[CHOOSE i \in DOMAIN its : its[i].name = n /\ \A j \in (i + 1) .. Len(its) : its[j].name # n]

VipsNow ==
  \A n \in Current(svc) : lbs[n].here /\ lbs[n].vips = Vips(svc, getEndpoints, LastItem(n))

\* When the controller has nothing left to do, every load balancer a managed
\* Service is due has the VIPs and backends that follow from the spec and the
\* endpoints as they are now (for the last port of its protocol), whatever was
\* edited during a reconcile, failed or was lost; only nodes may have changed
\* unseen.
VipsFollow == Settled /\ Managed /\ ~ unseen => VipsNow

\* Then, too, the load balancers of protocols and NodePorts that are no more
\* are gone, and all of them once the Service is, except those whose deletion
\* failed or went by unseen, and those a restart or a lost answer kept off
\* the record.
Left(whats) == {x[2] : x \in {y \in excused : y[1] \in whats}}

NothingLeftBehind ==
  Settled =>
    /\ Managed => Present \ Current(svc) \subseteq Left({"stale", "untracked"})
    /\ svc = NoService => Present \subseteq Left({"stale"})

\* Then, too, each load balancer is on every switch of an Active subnet that was
\* one when it was created, unless attaching it failed or its creation was cut
\* off from it.
AttachedWhereActive ==
  Settled /\ Managed =>
    \A n \in Current(svc) \ Left({"attach"}), w \in active : n \in attached[w]

\* A NodePort under the Local policy keeps the clients' addresses, also if the
\* policy was changed later, unless setting the option failed.
LocalKeepsSource ==
  Settled /\ Managed =>
    \A it \in Range(Items(svc)) :
      SkipsSNAT(svc, it) => lbs[it.name].skipSNAT \/ it.name \in Left({"options"})

\* What a settled controller owes a Service that is there: its load balancers
\* have the right VIPs, are on the right switches and keep the client's source.
LoadBalancersSound == ServiceTypeOK /\ VipsFollow /\ AttachedWhereActive /\ LocalKeepsSource

\* A Service that is to be served is, by and by.
ServiceSettles == Managed ~> ~ Managed \/ VipsNow \/ unseen
=============================================================================
