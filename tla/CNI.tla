--------------------------------- MODULE CNI ---------------------------------
(***************************************************************************)
(* pkg/cni and cmd/zstack-ovn-cni: the node agent's CNI server, with the   *)
(* plugin that calls it and the OVS bridge, interfaces and logical switch  *)
(* port it works on, for one pod name.  The server runs every request in a *)
(* goroutine of its own and takes no lock, so requests interleave at each  *)
(* command they issue.  The container runtime, the kubelet and the pod     *)
(* controller are external: a pod life is named by its number, which also  *)
(* stands for the address its annotation carries.                          *)
(***************************************************************************)
EXTENDS Naturals, FiniteSets

CONSTANTS
  Container,   \* sandboxes the runtime makes for the pod name
  MaxBirths,   \* bound: pods created under the name
  MaxDels,     \* bound: DEL commands
  MaxUpsets    \* bound: failed commands, answers lost and restarts

ASSUME CNIAssumption == {MaxBirths, MaxDels, MaxUpsets} \subseteq Nat /\ IsFiniteSet(Container)

VARIABLES
  uid,         \* the pod of the name now, 0 for none
  annotation,  \* the address its annotation carries, 0 for none
  lsp,         \* OVN: the pod the logical switch port was made for, or 0
  sandbox,     \* container -> its state and the pod it is for
  ovs,         \* OVS: ports of br-int with the pod's iface-id
  veth,        \* host ends of veth pairs
  eth0,        \* container -> address of its interface, 0 for none
  running,     \* the CNI server
  add, del,    \* container -> its ADD and its DEL in progress
  robbed,      \* history: containers whose port another one's DEL removed
  halfway,     \* history: containers whose interface a DEL left after that
  causes,      \* history: faults that leave something behind
  spent

vars == <<uid, annotation, lsp, sandbox, ovs, veth, eth0, running, add, del,
          robbed, halfway, causes, spent>>

pod == <<uid, annotation, lsp>>
host == <<ovs, veth, eth0>>
history == <<robbed, halfway, causes>>

\* A port is named for the container that made it: generateVethName is random.
Init ==
  /\ uid = 0 /\ annotation = 0 /\ lsp = 0
  /\ sandbox = [c \in Container |-> [state |-> "new", uid |-> 0]]
  /\ ovs = {} /\ veth = {} /\ eth0 = [c \in Container |-> 0]
  /\ running = TRUE
  /\ add = [c \in Container |-> [pc |-> "idle", ip |-> 0]]
  /\ del = [c \in Container |-> [pc |-> "idle", port |-> c]]
  /\ robbed = {} /\ halfway = {} /\ causes = {}
  /\ spent = [births |-> 0, dels |-> 0, upsets |-> 0]

Upset == spent.upsets < MaxUpsets /\ spent' = [spent EXCEPT !.upsets = @ + 1]

-----------------------------------------------------------------------------
(* The API server and the pod controller.                                  *)

CreatePod ==
  /\ uid = 0 /\ spent.births < MaxBirths
  /\ uid' = spent.births + 1 /\ spent' = [spent EXCEPT !.births = @ + 1]
  /\ UNCHANGED <<annotation, lsp, sandbox, host, running, add, del, history>>

\* The controller makes the port, then the annotation; a pod that has one it
\* leaves alone.
Provide ==
  /\ uid # 0 /\ annotation = 0
  /\ IF lsp = 0 THEN lsp' = uid /\ UNCHANGED annotation
                ELSE annotation' = uid /\ UNCHANGED lsp
  /\ UNCHANGED <<uid, sandbox, host, running, add, del, history, spent>>

\* Its finalizer goes once the port is gone.
DeletePod ==
  /\ uid # 0
  /\ uid' = 0 /\ annotation' = 0 /\ lsp' = 0
  /\ UNCHANGED <<sandbox, host, running, add, del, history, spent>>

-----------------------------------------------------------------------------
(* The runtime and the plugin.                                             *)

State(c, state) == sandbox' = [sandbox EXCEPT ![c].state = state]

\* CmdAdd: a server that is not there is an error, after which the runtime
\* takes the sandbox down.
CmdAdd(c) ==
  /\ sandbox[c].state = "new" /\ uid # 0
  /\ \A d \in Container : sandbox[d].uid = uid => sandbox[d].state \in {"stopping", "gone"}
  /\ sandbox' = [sandbox EXCEPT ![c] = [state |-> IF running THEN "adding" ELSE "stopping",
                                        uid |-> uid]]
  /\ add' = IF running THEN [add EXCEPT ![c].pc = "wait"] ELSE add
  /\ UNCHANGED <<pod, host, running, del, history, spent>>

\* The pod is deleted, or its sandbox is to be replaced.
StopSandbox(c) ==
  /\ sandbox[c].state = "ready" /\ State(c, "stopping")
  /\ UNCHANGED <<pod, host, running, add, del, history, spent>>

\* Its netns goes with the sandbox, and both ends of the pair with the netns.
\* The runtime does this after the DEL, whatever that has done.
Removed(c) ==
  /\ State(c, "gone")
  /\ eth0' = [eth0 EXCEPT ![c] = 0]

\* CmdDel returns no error, not even when there is no server to do it: for the
\* runtime the DEL is done.  It may ask again for a sandbox long gone.
CmdDel(c) ==
  /\ sandbox[c].state \in {"stopping", "gone"} /\ del[c].pc = "idle"
  /\ spent.dels < MaxDels /\ spent' = [spent EXCEPT !.dels = @ + 1]
  /\ IF running
     THEN /\ del' = [del EXCEPT ![c].pc = "find"]
          /\ UNCHANGED <<sandbox, eth0, veth, causes>>
     ELSE /\ Removed(c) /\ veth' = veth \ {c}
          /\ causes' = causes \cup {"lostDel"} /\ UNCHANGED del
  /\ UNCHANGED <<pod, ovs, running, add, robbed, halfway>>

-----------------------------------------------------------------------------
(* HandleAdd.                                                              *)

Step(c, pc) == add' = [add EXCEPT ![c].pc = pc]

\* The answer to an ADD, as the runtime takes it.
Answer(c, ok) ==
  /\ add' = [add EXCEPT ![c] = [pc |-> "idle", ip |-> 0]]
  /\ sandbox' = IF sandbox[c].state = "adding"
                THEN [sandbox EXCEPT ![c].state = IF ok THEN "ready" ELSE "stopping"]
                ELSE sandbox

\* Mutation of Wait: the wait for an annotation has no limit.
WaitForever(c) ==
  /\ add[c].pc = "wait" /\ annotation # 0
  /\ add' = [add EXCEPT ![c] = [pc |-> "veth", ip |-> annotation]] /\ UNCHANGED sandbox
  /\ UNCHANGED <<pod, host, running, del, history, spent>>

\* waitForPodAnnotation asks by name, until there is one or 60 s are over.
Wait(c) ==
  /\ add[c].pc = "wait"
  /\ IF annotation # 0
     THEN add' = [add EXCEPT ![c] = [pc |-> "veth", ip |-> annotation]] /\ UNCHANGED sandbox
     ELSE Answer(c, FALSE)
  /\ UNCHANGED <<pod, host, running, del, history, spent>>

\* LinkDel takes both ends of the pair.
LinkDel(c) == veth' = veth \ {c} /\ eth0' = [eth0 EXCEPT ![c] = 0]

\* After a step of an ADD that failed; that LinkDel fails too is only logged.
cleanupVeth(c) == LinkDel(c) \/ UNCHANGED <<veth, eth0>>

\* ip.SetupVeth and setupNetwork in the container's netns, if it is there yet.
SetupVeth(c) ==
  /\ add[c].pc = "veth"
  /\ \/ /\ sandbox[c].state # "gone"
        /\ veth' = veth \cup {c} /\ eth0' = [eth0 EXCEPT ![c] = add[c].ip]
        /\ Step(c, "ovs") /\ UNCHANGED <<sandbox, spent>>
     \/ /\ IF sandbox[c].state = "gone" THEN UNCHANGED spent ELSE Upset
        /\ cleanupVeth(c) /\ Answer(c, FALSE)
  /\ UNCHANGED <<pod, ovs, running, del, history>>

\* Mutation of AddPort: ovs-vsctl's error is logged.
AddPortLogged(c) ==
  /\ add[c].pc = "ovs"
  /\ \/ ovs' = ovs \cup {c} /\ UNCHANGED spent
     \/ Upset /\ UNCHANGED ovs
  /\ Step(c, "up")
  /\ UNCHANGED <<pod, veth, eth0, sandbox, running, del, history>>

\* configureOVS: ovs-vsctl add-port, with the iface-id.
AddPort(c) ==
  /\ add[c].pc = "ovs"
  /\ \/ ovs' = ovs \cup {c} /\ Step(c, "up") /\ UNCHANGED <<veth, eth0, sandbox, spent>>
     \/ Upset /\ cleanupVeth(c) /\ Answer(c, FALSE) /\ UNCHANGED ovs
  /\ UNCHANGED <<pod, running, del, history>>

\* configureOVS: LinkByName and LinkSetUp of the host end.  When this fails the
\* OVS port stays.  The answer is lost if the wait has used the server's write
\* timeout up.
BringUp(c) ==
  /\ add[c].pc = "up"
  /\ \/ c \in veth /\ Answer(c, TRUE) /\ UNCHANGED <<host, causes, spent>>
     \/ Upset /\ Answer(c, FALSE) /\ UNCHANGED <<host, causes>>
     \/ /\ IF c \in veth THEN Upset ELSE UNCHANGED spent
        /\ cleanupVeth(c) /\ Answer(c, FALSE) /\ UNCHANGED ovs
        /\ causes' = IF c \in ovs THEN causes \cup {"bareport"} ELSE causes
  /\ UNCHANGED <<pod, running, del, robbed, halfway>>

\* The runtime dies or gives up: the request's context ends the wait, but
\* nothing after it.
GiveUp(c) ==
  /\ sandbox[c].state = "adding" /\ Upset
  /\ State(c, "stopping")
  /\ add' = IF add[c].pc = "wait" THEN [add EXCEPT ![c].pc = "idle"] ELSE add
  /\ causes' = IF add[c].pc = "wait" THEN causes ELSE causes \cup {"late"}
  /\ UNCHANGED <<pod, host, running, del, robbed, halfway>>

-----------------------------------------------------------------------------
(* HandleDel.                                                              *)

DelStep(c, pc) == del' = [del EXCEPT ![c].pc = pc]

\* findOVSPortByIfaceID: the first interface with the pod's name, whichever
\* container it is of.
Find(c) ==
  /\ del[c].pc = "find"
  /\ \/ /\ \E p \in ovs : del' = [del EXCEPT ![c] = [pc |-> "port", port |-> p]]
        /\ UNCHANGED <<causes, spent>>
     \/ ovs = {} /\ DelStep(c, "lsp") /\ UNCHANGED <<causes, spent>>
     \/ Upset /\ DelStep(c, "lsp") /\ causes' = causes \cup {"find"}
  /\ UNCHANGED <<pod, sandbox, host, running, add, robbed, halfway>>

\* Mutation of RemovePort: the OVS port is left to become invalid when its
\* interface goes.
KeepPort(c) ==
  /\ del[c].pc = "port"
  /\ robbed' = robbed \cup ({del[c].port} \ {c})
  /\ DelStep(c, "link")
  /\ UNCHANGED <<pod, host, sandbox, running, add, halfway, causes, spent>>

\* removeOVSPort: an error is logged.
RemovePort(c) ==
  /\ del[c].pc = "port"
  /\ LET p == del[c].port IN
       /\ \/ /\ ovs' = ovs \ {p} /\ UNCHANGED spent
             /\ causes' = IF p \in ovs THEN causes ELSE causes \cup {"same"}
          \/ Upset /\ UNCHANGED ovs /\ causes' = causes \cup {"removal"}
       /\ robbed' = robbed \cup ({p} \ {c})
  /\ DelStep(c, "link")
  /\ UNCHANGED <<pod, veth, eth0, sandbox, running, add, halfway>>

\* Mutation of RemoveLink: the veth pair is left to go with its netns.
KeepLink(c) ==
  /\ del[c].pc = "link"
  /\ DelStep(c, "lsp")
  /\ UNCHANGED <<pod, host, sandbox, running, add, history, spent>>

\* cleanupVeth of the port found, whatever became of the port: an error is
\* logged.
RemoveLink(c) ==
  /\ del[c].pc = "link"
  /\ LET p == del[c].port IN
       \/ LinkDel(p) /\ UNCHANGED <<halfway, spent>>
       \/ Upset /\ halfway' = halfway \cup {p} /\ UNCHANGED <<veth, eth0>>
  /\ DelStep(c, "lsp")
  /\ UNCHANGED <<pod, ovs, sandbox, running, add, robbed, causes>>

\* The switch port of the pod's name, whichever pod it was made for; an error,
\* or a connection that is down, is no error.  Then the answer, and the runtime
\* removes the sandbox.
DeleteLSP(c) ==
  /\ del[c].pc = "lsp"
  /\ \/ lsp' = 0 /\ UNCHANGED spent
     \/ Upset /\ UNCHANGED lsp
  /\ DelStep(c, "idle") /\ Removed(c) /\ veth' = veth \ {c}
  /\ UNCHANGED <<uid, annotation, ovs, running, add, history>>

-----------------------------------------------------------------------------
(* Server.Stop, or the end of the process: the requests that are not done in  *)
(* time are cut off where they are; the plugin makes an error of it for an    *)
(* ADD and none for a DEL.                                                    *)

\* Containers whose port a DEL has had removed and whose interface it has not.
BeforeLink == {del[c].port : c \in {d \in Container : del[d].pc = "link"}}

Stop ==
  /\ running /\ Upset
  /\ running' = FALSE
  /\ add' = [c \in Container |-> [pc |-> "idle", ip |-> 0]]
  /\ del' = [c \in Container |-> [pc |-> "idle", port |-> c]]
  /\ LET cut == {c \in Container : del[c].pc # "idle"} IN
       /\ sandbox' = [c \in Container |->
            IF c \in cut THEN [sandbox[c] EXCEPT !.state = "gone"]
            ELSE IF sandbox[c].state = "adding" THEN [sandbox[c] EXCEPT !.state = "stopping"]
            ELSE sandbox[c]]
       /\ eth0' = [c \in Container |-> IF c \in cut THEN 0 ELSE eth0[c]]
       /\ veth' = veth \ cut
       /\ causes' = IF cut = {} THEN causes ELSE causes \cup {"lostDel"}
  /\ halfway' = halfway \cup BeforeLink
  /\ UNCHANGED <<pod, ovs, robbed>>

\* Server.Start removes the old socket and listens anew.
Start ==
  /\ ~ running /\ running' = TRUE
  /\ UNCHANGED <<pod, sandbox, host, add, del, history, spent>>

-----------------------------------------------------------------------------
Serve(c) ==
  \/ Wait(c) \/ SetupVeth(c) \/ AddPort(c) \/ BringUp(c)
  \/ Find(c) \/ RemovePort(c) \/ RemoveLink(c) \/ DeleteLSP(c)

Next ==
  \/ CreatePod \/ Provide \/ DeletePod \/ Stop \/ Start
  \/ \E c \in Container : CmdAdd(c) \/ StopSandbox(c) \/ CmdDel(c) \/ GiveUp(c) \/ Serve(c)

Spec == Init /\ [][Next]_vars

FairSpec == Spec /\ \A c \in Container : WF_vars(Serve(c))

-----------------------------------------------------------------------------
(* Properties                                                              *)

TypeOK ==
  /\ {uid, annotation, lsp} \subseteq 0 .. MaxBirths
  /\ sandbox \in [Container -> [state : {"new", "adding", "ready", "stopping", "gone"},
                                uid : 0 .. MaxBirths]]
  /\ ovs \cup veth \cup robbed \cup halfway \subseteq Container /\ running \in BOOLEAN
  /\ eth0 \in [Container -> 0 .. MaxBirths]
  /\ add \in [Container -> [pc : {"idle", "wait", "veth", "ovs", "up"}, ip : 0 .. MaxBirths]]
  /\ del \in [Container -> [pc : {"idle", "find", "port", "link", "lsp"}, port : Container]]

\* A sandbox whose ADD was answered well has its whole path, from the address in
\* its netns through the veth pair to the OVS port, for as long as it runs,
\* unless a DEL of another sandbox of the pod name has taken the port.
ReadyHasPath ==
  \A c \in Container : sandbox[c].state = "ready" =>
    c \in robbed \/ (c \in ovs /\ c \in veth /\ eth0[c] # 0)

\* When all sandboxes are gone and nothing is under way, no port is left on the
\* bridge and no interface on the host, whatever order ADDs and DELs of several
\* sandboxes came in, unless a DEL never reached the server, a command of one
\* failed, an ADD failed between its OVS port and its link, a DEL came in the
\* middle of the ADD it was to undo, or two DELs at once found the same port.
Quiet == \A c \in Container : sandbox[c].state \in {"new", "gone"} /\ add[c].pc = "idle" /\ del[c].pc = "idle"

NothingLeft == Quiet /\ causes = {} => ovs = {} /\ veth = {}

\* The state of the host is well formed and nothing of a sandbox outlives it.
HostSound == TypeOK /\ NothingLeft

\* Sandboxes that have their interface although a DEL has been at their port.
LinkLeft == halfway \cup BeforeLink

\* CHECK goes by whichever port it finds under the pod's name and by the address
\* in the sandbox, and yet it tells when the sandbox has lost its own path to
\* another one's DEL, as soon as that DEL has taken the interface as well.  It
\* passes wrongly only between the DEL's two commands, or for good if the DEL
\* fails or is cut off there.
CheckInterface(c) ==
  /\ \E p \in ovs : p \in veth
  /\ annotation # 0 /\ eth0[c] = annotation

HandleCheck(c) == CheckInterface(c) /\ lsp # 0

CheckIsSound ==
  \A c \in Container : sandbox[c].state = "ready" /\ HandleCheck(c) =>
    c \in LinkLeft \/ (c \in ovs /\ c \in veth)

\* Every request is answered, even if the pod never gets its annotation.
RequestsEnd ==
  \A c \in Container : /\ add[c].pc # "idle" ~> add[c].pc = "idle"
                       /\ del[c].pc # "idle" ~> del[c].pc = "idle"
=============================================================================
