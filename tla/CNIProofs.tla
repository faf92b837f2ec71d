------------------------------ MODULE CNIProofs -----------------------------
(***************************************************************************)
(* Proofs about CNI, for any number of sandboxes, pods and DELs.           *)
(***************************************************************************)
EXTENDS CNI, FiniteSetTheorems, TLAPS

-----------------------------------------------------------------------------
(* The inductive invariant.                                                *)

Sandboxes == [state : {"new", "adding", "ready", "stopping", "gone"}, uid : 0 .. MaxBirths]
Adds == [pc : {"idle", "wait", "veth", "ovs", "up"}, ip : 0 .. MaxBirths]
Dels == [pc : {"idle", "find", "port", "link", "lsp"}, port : Container]

Counts == spent \in [births : 0 .. MaxBirths, dels : Nat, upsets : Nat]

\* A sandbox's path up to the OVS port.
Linked(c) == c \in veth /\ eth0[c] # 0

\* What the requests of one sandbox have to do with its state and its path: a
\* sandbox that has not been asked for has no request, a DEL is for one that is
\* on its way out, and an ADD has made as much of the path as it says, unless
\* another sandbox's DEL has taken it.
Consistent(c) ==
  /\ sandbox[c].state = "new" => add[c].pc = "idle"
  /\ del[c].pc # "idle" => sandbox[c].state \in {"stopping", "gone"}
  /\ del[c].pc = "link" => del[c].port \in robbed \cup {c}
  /\ add[c].pc \in {"veth", "ovs", "up"} => add[c].ip # 0
  /\ sandbox[c].state = "adding" /\ add[c].pc \in {"ovs", "up"} => c \in robbed \/ Linked(c)
  /\ sandbox[c].state = "adding" /\ add[c].pc = "up" => c \in robbed \/ c \in ovs
  /\ sandbox[c].state = "ready" =>
       add[c].pc = "idle" /\ (c \in robbed \/ (c \in ovs /\ Linked(c)))

Inv == TypeOK /\ Counts /\ \A c \in Container : Consistent(c)

-----------------------------------------------------------------------------
(* Init, and every action.                                                 *)

\* Init.
LEMMA Initially == Init => Inv
BY CNIAssumption DEF Init, Inv, TypeOK, Counts, Consistent, Linked

\* The API server, the pod controller and the server's start.
LEMMA OutsideKeeps ==
  ASSUME Inv, CreatePod \/ Provide \/ DeletePod \/ Start
  PROVE  Inv'
<1>1. UNCHANGED <<sandbox, ovs, veth, eth0, add, del, robbed, halfway, causes>>
  BY DEF CreatePod, Provide, DeletePod, Start, host, history
<1>2. {uid', annotation', lsp'} \subseteq 0 .. MaxBirths /\ running' \in BOOLEAN /\ Counts'
  <2>1. /\ {uid, annotation, lsp} \subseteq 0 .. MaxBirths /\ running \in BOOLEAN
        /\ spent \in [births : 0 .. MaxBirths, dels : Nat, upsets : Nat] /\ MaxBirths \in Nat
    BY CNIAssumption DEF Inv, TypeOK, Counts
  <2>2. CASE CreatePod
    <3>1. spent.births + 1 \in 0 .. MaxBirths
      BY <2>1, <2>2 DEF CreatePod
    <3> QED BY <2>1, <2>2, <3>1 DEF CreatePod, Counts
  <2>3. CASE Provide
    BY <2>1, <2>3 DEF Provide, Counts
  <2>4. CASE DeletePod
    BY <2>1, <2>4 DEF DeletePod, Counts
  <2>5. CASE Start
    BY <2>1, <2>5 DEF Start, pod, Counts
  <2> QED BY <2>2, <2>3, <2>4, <2>5
<1>4. TypeOK'
  BY <1>1, <1>2 DEF Inv, TypeOK
<1>3. \A c \in Container : Consistent(c)'
  BY <1>1 DEF Inv, Consistent, Linked
<1> QED BY <1>2, <1>3, <1>4 DEF Inv

\* What is spent is counted.
LEMMA Spending ==
  ASSUME Inv, Upset \/ UNCHANGED spent
  PROVE  Counts'
BY DEF Inv, Counts, Upset

\* The parts of a well-formed state, for one sandbox.
LEMMA Parts ==
  ASSUME Inv, NEW c \in Container
  PROVE  /\ sandbox \in [Container -> Sandboxes] /\ sandbox[c] \in Sandboxes
         /\ add \in [Container -> Adds] /\ add[c] \in Adds
         /\ del \in [Container -> Dels] /\ del[c] \in Dels
         /\ eth0 \in [Container -> 0 .. MaxBirths]
         /\ Consistent(c) /\ MaxBirths \in Nat /\ 0 \in 0 .. MaxBirths
<1>1. MaxBirths \in Nat
  BY CNIAssumption
<1> QED BY <1>1 DEF Inv, TypeOK, Sandboxes, Adds, Dels

\* A step that is about one sandbox: it keeps the types, leaves the other
\* sandboxes' requests and paths alone or robs them, and leaves its own right.
LEMMA OneSandbox ==
  ASSUME Inv, NEW c \in Container,
         UNCHANGED <<uid, annotation, running>>, lsp' \in {lsp, 0},
         NEW s \in Sandboxes, sandbox' = [sandbox EXCEPT ![c] = s],
         NEW a \in Adds, add' = [add EXCEPT ![c] = a],
         NEW d \in Dels, del' = [del EXCEPT ![c] = d],
         eth0' \in [Container -> 0 .. MaxBirths],
         ovs' \cup veth' \cup robbed' \cup halfway' \subseteq Container, robbed \subseteq robbed',
         \A b \in Container \ {c} : \/ b \in robbed'
                                    \/ /\ b \in ovs => b \in ovs'
                                       /\ b \in veth => b \in veth'
                                       /\ eth0'[b] = eth0[b],
         Consistent(c)', Upset \/ UNCHANGED spent \/ Counts'
  PROVE  Inv'
<1>1. /\ sandbox' \in [Container -> Sandboxes] /\ add' \in [Container -> Adds]
      /\ del' \in [Container -> Dels]
  BY Parts
<1>2. TypeOK'
  <2>1. 0 \in 0 .. MaxBirths
    BY Parts
  <2> QED BY <1>1, <2>1 DEF Inv, TypeOK, Sandboxes, Adds, Dels
<1>3. Counts'
  BY Spending
<1>4. ASSUME NEW b \in Container \ {c} PROVE Consistent(b)'
  <2>1. sandbox'[b] = sandbox[b] /\ add'[b] = add[b] /\ del'[b] = del[b]
    BY Parts
  <2>2. Consistent(b)
    BY DEF Inv
  <2> QED BY <2>1, <2>2 DEF Consistent, Linked
<1> QED BY <1>2, <1>3, <1>4 DEF Inv

\* The runtime's commands.
LEMMA RuntimeKeeps ==
  ASSUME Inv, NEW c \in Container, CmdAdd(c) \/ StopSandbox(c) \/ CmdDel(c) \/ GiveUp(c)
  PROVE  Inv'
<1>1. CASE CmdAdd(c)
  <2> DEFINE s == [state |-> IF running THEN "adding" ELSE "stopping", uid |-> uid]
  <2> DEFINE a == IF running THEN [add[c] EXCEPT !.pc = "wait"] ELSE add[c]
  <2>1. s \in Sandboxes /\ a \in Adds /\ sandbox' = [sandbox EXCEPT ![c] = s]
    BY <1>1, Parts DEF CmdAdd, Sandboxes, Adds, Inv, TypeOK
  <2>2. add' = [add EXCEPT ![c] = a] /\ del' = [del EXCEPT ![c] = del[c]]
    BY <1>1, Parts DEF CmdAdd
  <2>3. Consistent(c)'
    <3>1. sandbox[c].state = "new" /\ add[c].pc = "idle" /\ del[c].pc = "idle"
      BY <1>1, Parts DEF CmdAdd, Consistent
    <3>2. sandbox'[c] = s /\ add'[c] = a /\ del'[c] = del[c]
      BY <2>1, <2>2, Parts
    <3>3. a.pc \in {"idle", "wait"}
      BY <3>1, Parts DEF Adds
    <3> QED BY <3>1, <3>2, <3>3 DEF Consistent
  <2> HIDE DEF s, a
  <2>4. UNCHANGED <<uid, annotation, running, lsp, eth0, ovs, veth, robbed, halfway, spent>>
    BY <1>1 DEF CmdAdd, pod, host, history
  <2> QED BY <2>1, <2>2, <2>3, <2>4, Parts, OneSandbox DEF Inv, TypeOK
<1>2. CASE StopSandbox(c)
  <2> DEFINE s == [sandbox[c] EXCEPT !.state = "stopping"]
  <2>1. s \in Sandboxes /\ s.state = "stopping" /\ sandbox' = [sandbox EXCEPT ![c] = s]
    BY <1>2, Parts DEF StopSandbox, State, Sandboxes
  <2>2. add' = [add EXCEPT ![c] = add[c]] /\ del' = [del EXCEPT ![c] = del[c]]
    BY <1>2, Parts DEF StopSandbox
  <2>3. UNCHANGED <<uid, annotation, running, lsp, eth0, ovs, veth, robbed, halfway, spent>>
    BY <1>2 DEF StopSandbox, pod, host, history
  <2> HIDE DEF s
  <2>4. Consistent(c)'
    BY <2>1, <2>2, <2>3, Parts DEF Consistent
  <2> QED BY <2>1, <2>2, <2>3, <2>4, Parts, OneSandbox DEF Inv, TypeOK
<1>3. CASE CmdDel(c)
  <2>1. UNCHANGED <<uid, annotation, running, lsp, ovs, robbed, halfway>> /\ add' = [add EXCEPT ![c] = add[c]]
    BY <1>3, Parts DEF CmdDel, pod
  <2>2. Counts'
    BY <1>3 DEF CmdDel, Inv, Counts
  <2>3. sandbox[c].state \in {"stopping", "gone"}
    BY <1>3 DEF CmdDel
  <2>4. CASE running
    <3> DEFINE d == [del[c] EXCEPT !.pc = "find"]
    <3>1. /\ d \in Dels /\ d.pc = "find" /\ del' = [del EXCEPT ![c] = d]
          /\ sandbox' = [sandbox EXCEPT ![c] = sandbox[c]]
      BY <1>3, <2>4, Parts DEF CmdDel, Dels
    <3>2. UNCHANGED <<eth0, veth>>
      BY <1>3, <2>4 DEF CmdDel
    <3> HIDE DEF d
    <3>3. Consistent(c)'
      BY <2>1, <2>3, <3>1, <3>2, Parts DEF Consistent
    <3> QED BY <2>1, <2>2, <3>1, <3>2, <3>3, Parts, OneSandbox DEF Inv, TypeOK
  <2>5. CASE ~ running
    <3> DEFINE s == [sandbox[c] EXCEPT !.state = "gone"]
    <3>1. s \in Sandboxes /\ s.state = "gone" /\ sandbox' = [sandbox EXCEPT ![c] = s]
      BY <1>3, <2>5, Parts DEF CmdDel, Removed, State, Sandboxes
    <3>2. del' = [del EXCEPT ![c] = del[c]]
      BY <1>3, <2>5, Parts DEF CmdDel
    <3>3. eth0' = [eth0 EXCEPT ![c] = 0] /\ veth' = veth \ {c}
      BY <1>3, <2>5 DEF CmdDel, Removed
    <3> HIDE DEF s
    <3>4. Consistent(c)'
      BY <2>1, <3>1, <3>2, Parts DEF Consistent
    <3>5. eth0' \in [Container -> 0 .. MaxBirths] /\ \A b \in Container \ {c} : eth0'[b] = eth0[b]
      BY <3>3, Parts
    <3> QED BY <2>1, <2>2, <3>1, <3>2, <3>3, <3>4, <3>5, Parts, OneSandbox DEF Inv, TypeOK
  <2> QED BY <2>4, <2>5
<1>4. CASE GiveUp(c)
  <2> DEFINE s == [sandbox[c] EXCEPT !.state = "stopping"]
  <2> DEFINE a == IF add[c].pc = "wait" THEN [add[c] EXCEPT !.pc = "idle"] ELSE add[c]
  <2>1. s \in Sandboxes /\ s.state = "stopping" /\ sandbox' = [sandbox EXCEPT ![c] = s]
    BY <1>4, Parts DEF GiveUp, State, Sandboxes
  <2>2. a \in Adds /\ add' = [add EXCEPT ![c] = a] /\ del' = [del EXCEPT ![c] = del[c]]
    BY <1>4, Parts DEF GiveUp, Adds
  <2>3. UNCHANGED <<uid, annotation, running, lsp, eth0, ovs, veth, robbed, halfway>> /\ Upset
    BY <1>4 DEF GiveUp, pod, host
  <2>4. a.ip = add[c].ip /\ a.pc \in {"idle", add[c].pc}
    BY Parts DEF Adds
  <2> HIDE DEF s, a
  <2>5. Consistent(c)'
    BY <2>1, <2>2, <2>3, <2>4, Parts DEF Consistent
  <2> QED BY <2>1, <2>2, <2>3, <2>5, Parts, OneSandbox DEF Inv, TypeOK
<1> QED BY <1>1, <1>2, <1>3, <1>4

-----------------------------------------------------------------------------
(* HandleAdd.                                                              *)

\* The answer to an ADD makes the sandbox ready only if there is the whole path.
LEMMA AnswerKeeps ==
  ASSUME Inv, NEW c \in Container, NEW ok \in BOOLEAN, Answer(c, ok),
         add[c].pc # "idle",
         UNCHANGED <<uid, annotation, running, lsp, robbed, halfway, del>>,
         Upset \/ UNCHANGED spent,
         \/ UNCHANGED <<ovs, veth, eth0>> \/ (~ ok /\ UNCHANGED ovs /\ cleanupVeth(c)),
         ok => add[c].pc = "up" /\ c \in veth
  PROVE  Inv'
<1> DEFINE s == IF sandbox[c].state = "adding"
                THEN [sandbox[c] EXCEPT !.state = IF ok THEN "ready" ELSE "stopping"]
                ELSE sandbox[c]
<1> DEFINE a == [pc |-> "idle", ip |-> 0]
<1>1. s \in Sandboxes /\ sandbox' = [sandbox EXCEPT ![c] = s]
  BY Parts DEF Answer, Sandboxes
<1>2. a \in Adds /\ add' = [add EXCEPT ![c] = a] /\ del' = [del EXCEPT ![c] = del[c]]
  BY Parts DEF Answer, Adds
<1>3. /\ eth0' \in [Container -> 0 .. MaxBirths] /\ veth' \subseteq veth /\ UNCHANGED ovs
      /\ \A b \in Container \ {c} : eth0'[b] = eth0[b] /\ (b \in veth => b \in veth')
  BY Parts DEF cleanupVeth, LinkDel
<1>4. Consistent(c)'
  <2>1. sandbox'[c] = s /\ add'[c] = a /\ del'[c] = del[c]
    BY <1>1, <1>2, Parts
  <2>2. sandbox[c].state \notin {"new", "ready"}
    BY Parts DEF Consistent
  <2>3. s.state # "new" /\ s.state # "adding"
    BY <2>2, Parts DEF Sandboxes
  <2>4. ASSUME s.state = "ready" PROVE c \in robbed \/ (c \in ovs /\ Linked(c))
    <3>1. ok /\ sandbox[c].state = "adding"
      BY <2>2, <2>4, Parts DEF Sandboxes
    <3> QED BY <3>1, Parts DEF Consistent
  <2>5. s.state = "ready" => UNCHANGED <<ovs, veth, eth0>>
    BY <2>2, Parts DEF Sandboxes
  <2>6. /\ del[c].pc # "idle" => s.state \in {"stopping", "gone"}
        /\ del[c].pc = "link" => del[c].port \in robbed \cup {c}
    BY Parts DEF Consistent
  <2> HIDE DEF s
  <2> QED BY <2>1, <2>3, <2>4, <2>5, <2>6 DEF Consistent, Linked
<1> HIDE DEF s, a
<1> QED BY <1>1, <1>2, <1>3, <1>4, Parts, OneSandbox DEF Inv, TypeOK

\* A step of an ADD that goes on.
LEMMA OnKeeps ==
  ASSUME Inv, NEW c \in Container, NEW a \in Adds, add' = [add EXCEPT ![c] = a],
         UNCHANGED <<uid, annotation, running, lsp, robbed, halfway, del, sandbox, spent>>,
         ovs' \in {ovs, ovs \cup {c}}, veth' \in {veth, veth \cup {c}},
         eth0' \in [Container -> 0 .. MaxBirths],
         \A b \in Container \ {c} : eth0'[b] = eth0[b],
         add[c].pc # "idle",
         a.pc \in {"veth", "ovs", "up"} => a.ip # 0,
         sandbox[c].state = "adding" /\ a.pc \in {"ovs", "up"} => c \in robbed \/ Linked(c)',
         sandbox[c].state = "adding" /\ a.pc = "up" => c \in robbed \/ c \in ovs'
  PROVE  Inv'
<1>1. sandbox' = [sandbox EXCEPT ![c] = sandbox[c]] /\ del' = [del EXCEPT ![c] = del[c]]
  BY Parts
<1>2. Consistent(c)'
  <2>1. add'[c] = a
    BY Parts
  <2>2. sandbox[c].state \notin {"new", "ready"}
    BY Parts DEF Consistent
  <2>3. /\ del[c].pc # "idle" => sandbox[c].state \in {"stopping", "gone"}
        /\ del[c].pc = "link" => del[c].port \in robbed \cup {c}
    BY Parts DEF Consistent
  <2> QED BY <2>1, <2>2, <2>3 DEF Consistent
<1>3. ovs' \cup veth' \cup robbed' \cup halfway' \subseteq Container
  BY DEF Inv, TypeOK
<1> QED BY <1>1, <1>2, <1>3, Parts, OneSandbox

LEMMA AddKeeps ==
  ASSUME Inv, NEW c \in Container, Wait(c) \/ SetupVeth(c) \/ AddPort(c) \/ BringUp(c)
  PROVE  Inv'
<1>1. CASE Wait(c)
  <2>1. /\ UNCHANGED <<uid, annotation, lsp, running, ovs, veth, eth0, del, robbed, halfway, spent>>
        /\ add[c].pc = "wait"
    BY <1>1 DEF Wait, pod, host, history
  <2>2. CASE annotation # 0
    <3> DEFINE a == [pc |-> "veth", ip |-> annotation]
    <3>1. a \in Adds /\ add' = [add EXCEPT ![c] = a] /\ UNCHANGED sandbox
      BY <1>1, <2>2 DEF Wait, Adds, Inv, TypeOK
    <3>2. a.pc = "veth" /\ a.ip # 0
      BY <2>2
    <3> HIDE DEF a
    <3> QED BY <2>1, <3>1, <3>2, Parts, OnKeeps
  <2>3. CASE annotation = 0
    BY <1>1, <2>1, <2>3, AnswerKeeps DEF Wait
  <2> QED BY <2>2, <2>3
<1>2. CASE SetupVeth(c)
  <2>1. UNCHANGED <<uid, annotation, lsp, running, ovs, del, robbed, halfway>> /\ add[c].pc = "veth"
    BY <1>2 DEF SetupVeth, pod, history
  <2>2. CASE /\ veth' = veth \cup {c} /\ eth0' = [eth0 EXCEPT ![c] = add[c].ip]
             /\ Step(c, "ovs") /\ UNCHANGED <<sandbox, spent>>
    <3> DEFINE a == [add[c] EXCEPT !.pc = "ovs"]
    <3>1. /\ a \in Adds /\ add' = [add EXCEPT ![c] = a] /\ a.pc = "ovs"
          /\ a.ip = add[c].ip /\ a.ip # 0
      BY <2>1, <2>2, Parts DEF Step, Adds, Consistent
    <3>2. /\ eth0' \in [Container -> 0 .. MaxBirths] /\ eth0'[c] = add[c].ip
          /\ \A b \in Container \ {c} : eth0'[b] = eth0[b]
      BY <2>2, Parts DEF Adds
    <3> HIDE DEF a
    <3>3. Linked(c)'
      BY <2>2, <3>1, <3>2 DEF Linked
    <3> QED BY <2>1, <2>2, <3>1, <3>2, <3>3, OnKeeps
  <2>3. CASE (UNCHANGED spent \/ Upset) /\ cleanupVeth(c) /\ Answer(c, FALSE)
    BY <2>1, <2>3, AnswerKeeps
  <2> QED BY <1>2, <2>2, <2>3 DEF SetupVeth
<1>3. CASE AddPort(c)
  <2>1. UNCHANGED <<uid, annotation, lsp, running, del, robbed, halfway>> /\ add[c].pc = "ovs"
    BY <1>3 DEF AddPort, pod, history
  <2>2. CASE ovs' = ovs \cup {c} /\ Step(c, "up") /\ UNCHANGED <<veth, eth0, sandbox, spent>>
    <3> DEFINE a == [add[c] EXCEPT !.pc = "up"]
    <3>1. /\ a \in Adds /\ add' = [add EXCEPT ![c] = a] /\ a.pc = "up"
          /\ a.ip = add[c].ip /\ a.ip # 0
      BY <2>1, <2>2, Parts DEF Step, Adds, Consistent
    <3> HIDE DEF a
    <3>2. sandbox[c].state = "adding" => c \in robbed \/ Linked(c)'
      BY <2>1, <2>2, Parts DEF Consistent, Linked
    <3> QED BY <2>1, <2>2, <3>1, <3>2, Parts, OnKeeps
  <2>3. CASE Upset /\ cleanupVeth(c) /\ Answer(c, FALSE) /\ UNCHANGED ovs
    BY <2>1, <2>3, AnswerKeeps
  <2> QED BY <1>3, <2>2, <2>3 DEF AddPort
<1>4. CASE BringUp(c)
  <2>1. UNCHANGED <<uid, annotation, lsp, running, del, robbed, halfway>> /\ add[c].pc = "up"
    BY <1>4 DEF BringUp, pod
  <2>2. CASE c \in veth /\ Answer(c, TRUE) /\ UNCHANGED <<ovs, veth, eth0, spent>>
    BY <2>1, <2>2, AnswerKeeps
  <2>3. CASE Upset /\ Answer(c, FALSE) /\ UNCHANGED <<ovs, veth, eth0>>
    BY <2>1, <2>3, AnswerKeeps
  <2>4. CASE (Upset \/ UNCHANGED spent) /\ cleanupVeth(c) /\ Answer(c, FALSE) /\ UNCHANGED ovs
    BY <2>1, <2>4, AnswerKeeps
  <2> QED BY <1>4, <2>2, <2>3, <2>4 DEF BringUp, host
<1> QED BY <1>1, <1>2, <1>3, <1>4

-----------------------------------------------------------------------------
(* HandleDel, and the server's end.                                        *)

LEMMA DelKeeps ==
  ASSUME Inv, NEW c \in Container, Find(c) \/ RemovePort(c) \/ RemoveLink(c) \/ DeleteLSP(c)
  PROVE  Inv'
<1> DEFINE out == sandbox[c].state \in {"stopping", "gone"}
<1>1. out /\ add' = [add EXCEPT ![c] = add[c]] /\ UNCHANGED <<uid, annotation, running>>
  BY Parts DEF Consistent, Find, RemovePort, RemoveLink, DeleteLSP, pod
<1>2. CASE Find(c)
  <2>1. PICK d \in Dels : d.pc # "link" /\ del' = [del EXCEPT ![c] = d]
    <3>1. CASE \E p \in ovs : del' = [del EXCEPT ![c] = [pc |-> "port", port |-> p]]
      BY <3>1 DEF Inv, TypeOK, Dels
    <3>2. CASE DelStep(c, "lsp")
      <4>1. [del[c] EXCEPT !.pc = "lsp"] \in Dels /\ [del[c] EXCEPT !.pc = "lsp"].pc = "lsp"
        BY Parts DEF Dels
      <4>2. del' = [del EXCEPT ![c] = [del[c] EXCEPT !.pc = "lsp"]]
        BY <3>2, Parts DEF DelStep
      <4> QED BY <4>1, <4>2
    <3> QED BY <1>2, <3>1, <3>2 DEF Find
  <2>2. /\ UNCHANGED <<lsp, eth0, ovs, veth, robbed, halfway>> /\ (Upset \/ UNCHANGED spent)
        /\ sandbox' = [sandbox EXCEPT ![c] = sandbox[c]]
    BY <1>2, Parts DEF Find, pod, host
  <2>3. Consistent(c)'
    BY <1>1, <2>1, <2>2, Parts DEF Consistent, Linked
  <2> QED BY <1>1, <2>1, <2>2, <2>3, Parts, OneSandbox DEF Inv, TypeOK
<1>3. CASE RemovePort(c)
  <2> DEFINE p == del[c].port
  <2> DEFINE d == [del[c] EXCEPT !.pc = "link"]
  <2>1. /\ d \in Dels /\ d.port = p /\ del' = [del EXCEPT ![c] = d] /\ p \in Container
        /\ sandbox' = [sandbox EXCEPT ![c] = sandbox[c]] /\ UNCHANGED <<lsp, veth, eth0, halfway>>
    BY <1>3, Parts DEF RemovePort, DelStep, Dels, pod
  <2>2. /\ ovs' \in {ovs, ovs \ {p}}
        /\ robbed' = robbed \cup ({p} \ {c}) /\ (Upset \/ UNCHANGED spent)
    BY <1>3 DEF RemovePort
  <2> HIDE DEF p, d
  <2>3. \A b \in Container \ {c} : \/ b \in robbed'
                                   \/ b \in ovs => b \in ovs'
    BY <2>2
  <2>4. Consistent(c)'
    <3>1. p \in robbed' \cup {c}
      BY <2>2
    <3> QED BY <1>1, <2>1, <3>1, Parts DEF Consistent
  <2>5. ovs' \cup veth' \cup robbed' \cup halfway' \subseteq Container /\ robbed \subseteq robbed'
    BY <2>1, <2>2 DEF Inv, TypeOK
  <2>6. eth0' \in [Container -> 0 .. MaxBirths]
    BY <2>1, Parts
  <2> QED BY <1>1, <2>1, <2>2, <2>3, <2>4, <2>5, <2>6, Parts, OneSandbox
<1>5. CASE RemoveLink(c)
  <2> DEFINE p == del[c].port
  <2> DEFINE d == [del[c] EXCEPT !.pc = "lsp"]
  <2>1. /\ d \in Dels /\ d.pc = "lsp" /\ del' = [del EXCEPT ![c] = d] /\ p \in Container
        /\ sandbox' = [sandbox EXCEPT ![c] = sandbox[c]] /\ UNCHANGED <<lsp, ovs, robbed>>
    BY <1>5, Parts DEF RemoveLink, DelStep, Dels, pod
  <2>2. /\ \/ UNCHANGED <<veth, eth0>>
           \/ veth' = veth \ {p} /\ eth0' = [eth0 EXCEPT ![p] = 0]
        /\ halfway' \in {halfway, halfway \cup {p}} /\ (Upset \/ UNCHANGED spent)
    BY <1>5 DEF RemoveLink, LinkDel
  <2>3. p \in robbed \cup {c}
    BY <1>5, Parts DEF RemoveLink, Consistent
  <2> HIDE DEF p, d
  <2>4. /\ eth0' \in [Container -> 0 .. MaxBirths]
        /\ \A b \in Container \ {c} : \/ b \in robbed
                                      \/ (b \in veth => b \in veth') /\ eth0'[b] = eth0[b]
    BY <2>1, <2>2, <2>3, Parts
  <2>5. Consistent(c)'
    BY <1>1, <2>1, Parts DEF Consistent
  <2>6. ovs' \cup veth' \cup robbed' \cup halfway' \subseteq Container
    BY <2>1, <2>2 DEF Inv, TypeOK
  <2> QED BY <1>1, <2>1, <2>2, <2>4, <2>5, <2>6, Parts, OneSandbox
<1>4. CASE DeleteLSP(c)
  <2> DEFINE s == [sandbox[c] EXCEPT !.state = "gone"]
  <2> DEFINE d == [del[c] EXCEPT !.pc = "idle"]
  <2>1. /\ s \in Sandboxes /\ s.state = "gone" /\ sandbox' = [sandbox EXCEPT ![c] = s]
        /\ d \in Dels /\ d.pc = "idle" /\ del' = [del EXCEPT ![c] = d]
    <3>1. s \in Sandboxes /\ s.state = "gone"
      BY Parts DEF Sandboxes
    <3>4. d \in Dels /\ d.pc = "idle"
      BY Parts DEF Dels
    <3>2. sandbox' = [sandbox EXCEPT ![c] = s]
      <4>1. sandbox' = [sandbox EXCEPT ![c].state = "gone"]
        BY <1>4 DEF DeleteLSP, Removed, State
      <4> QED BY <4>1, Parts
    <3>3. del' = [del EXCEPT ![c] = d]
      <4>1. del' = [del EXCEPT ![c].pc = "idle"]
        BY <1>4 DEF DeleteLSP, DelStep
      <4> QED BY <4>1, Parts
    <3> QED BY <3>1, <3>2, <3>3, <3>4
  <2>2. /\ lsp' \in {lsp, 0} /\ UNCHANGED <<ovs, robbed, halfway>> /\ (Upset \/ UNCHANGED spent)
        /\ veth' = veth \ {c} /\ eth0' = [eth0 EXCEPT ![c] = 0]
    BY <1>4 DEF DeleteLSP, Removed, history
  <2> HIDE DEF s, d
  <2>3. eth0' \in [Container -> 0 .. MaxBirths] /\ \A b \in Container \ {c} : eth0'[b] = eth0[b]
    BY <2>2, Parts
  <2>4. Consistent(c)'
    BY <1>1, <2>1, Parts DEF Consistent
  <2> QED BY <1>1, <2>1, <2>2, <2>3, <2>4, Parts, OneSandbox DEF Inv, TypeOK
<1> QED BY <1>2, <1>3, <1>4, <1>5

\* Every request is cut off, and no ready sandbox loses anything but by a DEL,
\* which none has.
LEMMA StopKeeps ==
  ASSUME Inv, Stop
  PROVE  Inv'
<1> DEFINE cut == {c \in Container : del[c].pc # "idle"}
<1> DEFINE after(c) == IF c \in cut THEN [sandbox[c] EXCEPT !.state = "gone"]
                       ELSE IF sandbox[c].state = "adding" THEN [sandbox[c] EXCEPT !.state = "stopping"]
                       ELSE sandbox[c]
<1>1. /\ sandbox' = [c \in Container |-> after(c)] /\ veth' = veth \ cut
      /\ eth0' = [c \in Container |-> IF c \in cut THEN 0 ELSE eth0[c]]
      /\ add' = [c \in Container |-> [pc |-> "idle", ip |-> 0]]
      /\ del' = [c \in Container |-> [pc |-> "idle", port |-> c]]
      /\ UNCHANGED <<uid, annotation, lsp, ovs, robbed>> /\ running' = FALSE /\ Upset
      /\ halfway' = halfway \cup BeforeLink
  BY DEF Stop, pod
<1>2. \A c \in Container : after(c) \in Sandboxes
  BY Parts DEF Sandboxes
<1>3. TypeOK'
  <2>1. add' \in [Container -> Adds] /\ del' \in [Container -> Dels]
    BY <1>1, CNIAssumption DEF Adds, Dels
  <2>2. sandbox' \in [Container -> Sandboxes] /\ eth0' \in [Container -> 0 .. MaxBirths]
    <3>1. sandbox' \in [Container -> Sandboxes]
      <4> HIDE DEF after
      <4> QED BY <1>1, <1>2
    <3>2. 0 \in 0 .. MaxBirths /\ eth0 \in [Container -> 0 .. MaxBirths]
      BY CNIAssumption DEF Inv, TypeOK
    <3>3. eth0' \in [Container -> 0 .. MaxBirths]
      <4> HIDE DEF cut
      <4> QED BY <1>1, <3>2
    <3> QED BY <3>1, <3>3
  <2>3. halfway' \subseteq Container
    BY <1>1, Parts DEF BeforeLink, Dels, Inv, TypeOK
  <2> QED BY <1>1, <2>1, <2>2, <2>3 DEF Inv, TypeOK, Sandboxes, Adds, Dels
<1>4. ASSUME NEW c \in Container PROVE Consistent(c)'
  <2>1. sandbox'[c] = after(c) /\ add'[c].pc = "idle" /\ del'[c].pc = "idle"
    BY <1>1
  <2>2. after(c).state = "ready" => c \notin cut /\ sandbox[c].state = "ready"
    BY Parts DEF Sandboxes
  <2>3. c \notin cut => eth0'[c] = eth0[c] /\ (c \in veth => c \in veth')
    BY <1>1
  <2> HIDE DEF after, cut
  <2> QED BY <1>1, <2>1, <2>2, <2>3, Parts DEF Consistent, Linked
<1> QED BY <1>1, <1>3, <1>4, Spending DEF Inv

-----------------------------------------------------------------------------
(* The theorems.                                                           *)

\* Every action of the server, the runtime, the API server and the controller
\* keeps the invariant, for any number of sandboxes, pods and requests.
THEOREM Invariance == Spec => []Inv
<1>1. ASSUME Inv, [Next]_vars PROVE Inv'
  <2>1. CASE UNCHANGED vars
    BY <1>1, <2>1 DEF vars, Inv, TypeOK, Counts, Consistent, Linked
  <2>2. CASE CreatePod \/ Provide \/ DeletePod \/ Start
    BY <1>1, <2>2, OutsideKeeps
  <2>3. CASE Stop
    BY <1>1, <2>3, StopKeeps
  <2>4. CASE \E c \in Container : CmdAdd(c) \/ StopSandbox(c) \/ CmdDel(c) \/ GiveUp(c)
    BY <1>1, <2>4, RuntimeKeeps
  <2>5. CASE \E c \in Container : Wait(c) \/ SetupVeth(c) \/ AddPort(c) \/ BringUp(c)
    BY <1>1, <2>5, AddKeeps
  <2>6. CASE \E c \in Container : Find(c) \/ RemovePort(c) \/ RemoveLink(c) \/ DeleteLSP(c)
    BY <1>1, <2>6, DelKeeps
  <2> QED BY <1>1, <2>1, <2>2, <2>3, <2>4, <2>5, <2>6 DEF Next, Serve
<1> QED BY Initially, <1>1, PTL DEF Spec

\* A sandbox whose ADD was answered well keeps its whole path, whichever way the
\* requests of the other sandboxes of the pod name interleave with its own, as
\* long as none of their DELs takes its port.
THEOREM ReadySandboxes == Spec => []ReadyHasPath
<1>1. Inv => ReadyHasPath
  BY DEF Inv, Consistent, Linked, ReadyHasPath
<1> QED BY <1>1, Invariance, PTL
-----------------------------------------------------------------------------
(* What is left on the host.                                               *)

\* An ADD that has made its OVS port, or is over.
Through(c) == add[c].pc \in {"up", "idle"} /\ sandbox[c].state # "new"

\* Only a port that has been made can be found and taken, so what a robbed
\* sandbox has lost is not made again.
Robbing ==
  /\ \A c \in ovs \cup robbed : Through(c)
  /\ \A c \in Container : del[c].pc = "port" => Through(del[c].port)
  /\ \A c \in robbed : eth0[c] = 0 \/ c \in LinkLeft

\* An interface goes with its sandbox.
Living == \A c \in veth : sandbox[c].state \notin {"new", "gone"}

\* Unless the runtime gave up in the middle of it, an ADD is one that the
\* runtime waits for.
Awaited == causes = {} => \A c \in Container : add[c].pc # "idle" => sandbox[c].state = "adding"

\* A sandbox whose DEL is still to take a port from the bridge.
Owes(c) ==
  \/ sandbox[c].state = "adding" /\ add[c].pc = "up"
  \/ sandbox[c].state \in {"ready", "stopping"} /\ del[c].pc \notin {"link", "lsp"}

Owing == {c \in Container : Owes(c)}

\* Which of the ports a DEL takes does not matter: there are no more of them
\* than DELs to take one.
Covered == causes = {} => Cardinality(ovs) <= Cardinality(Owing)

Left == Robbing /\ Living /\ Awaited /\ Covered

\* Init.
LEMMA LeftInitially == Init => Left
<1> SUFFICES ASSUME Init PROVE Left
  OBVIOUS
<1>1. Robbing /\ Living /\ Awaited
  BY DEF Init, Robbing, Living, Awaited
<1>2. Cardinality(ovs) = 0
  BY FS_EmptySet DEF Init
<1>3. IsFiniteSet(Owing)
  BY CNIAssumption, FS_Subset DEF Owing
<1>4. Cardinality(Owing) \in Nat
  BY <1>3, FS_CardinalityType
<1>5. Covered
  BY <1>2, <1>4 DEF Covered
<1> QED BY <1>1, <1>5 DEF Left

\* What a step does to the state of one sandbox and to its interface.
LEMMA SandboxSteps ==
  ASSUME Inv, [Next]_vars, NEW b \in Container
  PROVE  /\ sandbox'[b].state = "new" => sandbox[b].state = "new"
         /\ sandbox[b].state = "gone" => sandbox'[b].state = "gone"
         /\ b \in veth' => b \in veth \/ (add[b].pc = "veth" /\ UNCHANGED sandbox /\ sandbox[b].state # "gone")
         /\ sandbox'[b].state = "gone" => b \notin veth' \/ (sandbox[b].state = "gone" /\ b \in veth)
<1> DEFINE G == /\ sandbox'[b].state = "new" => sandbox[b].state = "new"
                /\ sandbox[b].state = "gone" => sandbox'[b].state = "gone"
                /\ b \in veth' => b \in veth \/ (add[b].pc = "veth" /\ UNCHANGED sandbox /\ sandbox[b].state # "gone")
                /\ sandbox'[b].state = "gone" => b \notin veth' \/ (sandbox[b].state = "gone" /\ b \in veth)
<1> SUFFICES G
  OBVIOUS
<1>1. CASE UNCHANGED <<sandbox, veth>>
  BY <1>1
<1>2. CASE Stop
  BY <1>2, Parts DEF Stop, Sandboxes
<1>3. ASSUME NEW c \in Container, Answer(c, FALSE) \/ Answer(c, TRUE), add[c].pc # "idle",
             veth' \subseteq veth
      PROVE  G
  <2>1. sandbox[c].state \notin {"new", "ready"}
    BY <1>3, Parts DEF Consistent
  <2>2. sandbox' = sandbox \/ \E s \in {"ready", "stopping"} : sandbox[c].state = "adding" /\ sandbox' = [sandbox EXCEPT ![c].state = s]
    BY <1>3 DEF Answer
  <2>3. sandbox'[b] = sandbox[b] \/ (b = c /\ sandbox[c].state = "adding" /\ sandbox'[c].state \in {"ready", "stopping"})
    BY <2>2, Parts DEF Sandboxes
  <2> QED BY <1>3, <2>3
<1>4. ASSUME NEW c \in Container, Wait(c) PROVE G
  BY <1>1, <1>3, <1>4 DEF Wait, host
<1>5. ASSUME NEW c \in Container, SetupVeth(c) PROVE G
  <2>1. CASE sandbox[c].state # "gone" /\ veth' = veth \cup {c} /\ add[c].pc = "veth" /\ UNCHANGED sandbox
    BY <2>1
  <2>2. CASE cleanupVeth(c) /\ Answer(c, FALSE) /\ add[c].pc = "veth"
    BY <1>3, <2>2 DEF cleanupVeth, LinkDel
  <2> QED BY <1>5, <2>1, <2>2 DEF SetupVeth
<1>6. ASSUME NEW c \in Container, AddPort(c) PROVE G
  BY <1>1, <1>3, <1>6 DEF AddPort, cleanupVeth, LinkDel
<1>7. ASSUME NEW c \in Container, BringUp(c) PROVE G
  BY <1>1, <1>3, <1>7 DEF BringUp, cleanupVeth, LinkDel, host
<1>8. ASSUME NEW c \in Container, CmdAdd(c) PROVE G
  <2>1. /\ sandbox[c].state = "new" /\ UNCHANGED veth
        /\ sandbox' = [sandbox EXCEPT ![c] = [state |-> IF running THEN "adding" ELSE "stopping", uid |-> uid]]
    BY <1>8 DEF CmdAdd, host
  <2>2. sandbox'[b] = sandbox[b] \/ (b = c /\ sandbox'[c].state \in {"adding", "stopping"})
    BY <2>1, Parts
  <2> QED BY <2>1, <2>2
<1>9. ASSUME NEW c \in Container, NEW s \in {"stopping", "gone"}, State(c, s),
             sandbox[c].state \in {"adding", "ready", "stopping", "gone"}, sandbox[c].state = "gone" => s = "gone",
             IF s = "gone" THEN veth' = veth \ {c} ELSE UNCHANGED veth
      PROVE  G
  <2>1. sandbox'[b] = sandbox[b] \/ (b = c /\ sandbox'[c].state = s)
    BY <1>9, Parts DEF State, Sandboxes
  <2> QED BY <1>9, <2>1
<1>10. ASSUME NEW c \in Container, StopSandbox(c) \/ GiveUp(c) \/ CmdDel(c) \/ DeleteLSP(c) PROVE G
  <2>1. CASE StopSandbox(c)
    BY <1>9, <2>1 DEF StopSandbox, host
  <2>2. CASE GiveUp(c)
    BY <1>9, <2>2 DEF GiveUp, host
  <2>3. CASE CmdDel(c)
    BY <1>1, <1>9, <2>3 DEF CmdDel, Removed
  <2>4. CASE DeleteLSP(c)
    <3>1. sandbox[c].state \in {"stopping", "gone"}
      BY <2>4, Parts DEF DeleteLSP, Consistent
    <3> QED BY <1>9, <2>4, <3>1 DEF DeleteLSP, Removed
  <2> QED BY <1>10, <2>1, <2>2, <2>3, <2>4
<1>11. ASSUME NEW c \in Container, Find(c) \/ RemovePort(c) \/ RemoveLink(c) PROVE G
  BY <1>1, <1>11 DEF Find, RemovePort, RemoveLink, LinkDel, host
<1>12. CASE CreatePod \/ Provide \/ DeletePod \/ Start \/ UNCHANGED vars
  BY <1>1, <1>12 DEF CreatePod, Provide, DeletePod, Start, vars, host
<1> HIDE DEF G
<1> QED BY <1>2, <1>4, <1>5, <1>6, <1>7, <1>8, <1>10, <1>11, <1>12 DEF Next, Serve

\* What a step does to the ADD of one sandbox.
LEMMA AddSteps ==
  ASSUME Inv, [Next]_vars, NEW b \in Container
  PROVE  \/ add'[b].pc \in {add[b].pc, "idle"}
         \/ sandbox[b].state = "new"
         \/ add[b].pc = "wait" /\ add'[b].pc = "veth"
         \/ add[b].pc = "veth" /\ add'[b].pc = "ovs"
         \/ add[b].pc = "ovs" /\ add'[b].pc = "up"
<1> DEFINE G == \/ add'[b].pc \in {add[b].pc, "idle"}
                \/ sandbox[b].state = "new"
                \/ add[b].pc = "wait" /\ add'[b].pc = "veth"
                \/ add[b].pc = "veth" /\ add'[b].pc = "ovs"
                \/ add[b].pc = "ovs" /\ add'[b].pc = "up"
<1> SUFFICES G
  OBVIOUS
<1>1. CASE UNCHANGED add \/ Stop
  BY <1>1 DEF Stop
<1>2. ASSUME NEW c \in Container, NEW ok \in BOOLEAN, Answer(c, ok) PROVE G
  BY <1>2, Parts DEF Answer, Adds
<1>3. ASSUME NEW c \in Container, NEW a \in Adds, add' = [add EXCEPT ![c] = a],
             \/ a.pc \in {add[c].pc, "idle"}
             \/ sandbox[c].state = "new"
             \/ add[c].pc = "wait" /\ a.pc = "veth"
             \/ add[c].pc = "veth" /\ a.pc = "ovs"
             \/ add[c].pc = "ovs" /\ a.pc = "up"
      PROVE  G
  <2>1. add'[b] = add[b] \/ (b = c /\ add'[c] = a)
    BY <1>3, Parts
  <2> QED BY <1>3, <2>1
<1>4. ASSUME NEW c \in Container, NEW pc \in {"wait", "veth", "ovs", "up", "idle"}, add' = [add EXCEPT ![c].pc = pc],
             \/ pc = "idle"
             \/ sandbox[c].state = "new"
             \/ add[c].pc = "veth" /\ pc = "ovs"
             \/ add[c].pc = "ovs" /\ pc = "up"
      PROVE  G
  <2>1. /\ [add[c] EXCEPT !.pc = pc] \in Adds /\ [add[c] EXCEPT !.pc = pc].pc = pc
        /\ add' = [add EXCEPT ![c] = [add[c] EXCEPT !.pc = pc]]
    BY <1>4, Parts DEF Adds
  <2> DEFINE a == [add[c] EXCEPT !.pc = pc]
  <2> HIDE DEF a, G
  <2>2. a \in Adds /\ a.pc = pc /\ add' = [add EXCEPT ![c] = a]
    BY <2>1 DEF a
  <2> QED BY <1>3, <1>4, <2>2
<1>5. ASSUME NEW c \in Container, Wait(c) PROVE G
  <2>1. CASE annotation # 0
    <3>1. add[c].pc = "wait" /\ add' = [add EXCEPT ![c] = [pc |-> "veth", ip |-> annotation]]
      BY <1>5, <2>1 DEF Wait
    <3>2. [pc |-> "veth", ip |-> annotation] \in Adds
      BY DEF Adds, Inv, TypeOK
    <3> HIDE DEF G
    <3> QED BY <1>3, <3>1, <3>2
  <2>2. CASE annotation = 0
    BY <1>2, <1>5, <2>2 DEF Wait
  <2> QED BY <2>1, <2>2
<1>6. ASSUME NEW c \in Container, SetupVeth(c) PROVE G
  BY <1>2, <1>4, <1>6 DEF SetupVeth, Step
<1>7. ASSUME NEW c \in Container, AddPort(c) PROVE G
  BY <1>2, <1>4, <1>7 DEF AddPort, Step
<1>8. ASSUME NEW c \in Container, BringUp(c) PROVE G
  BY <1>2, <1>8 DEF BringUp
<1>9. ASSUME NEW c \in Container, CmdAdd(c) PROVE G
  BY <1>1, <1>4, <1>9 DEF CmdAdd
<1>10. ASSUME NEW c \in Container, GiveUp(c) PROVE G
  BY <1>1, <1>4, <1>10 DEF GiveUp
<1>11. ASSUME NEW c \in Container, StopSandbox(c) \/ CmdDel(c) \/ Find(c) \/ RemovePort(c) \/ RemoveLink(c) \/ DeleteLSP(c) PROVE G
  BY <1>1, <1>11 DEF StopSandbox, CmdDel, Find, RemovePort, RemoveLink, DeleteLSP
<1>12. CASE CreatePod \/ Provide \/ DeletePod \/ Start \/ UNCHANGED vars
  BY <1>1, <1>12 DEF CreatePod, Provide, DeletePod, Start, vars
<1> HIDE DEF G
<1> QED BY <1>1, <1>5, <1>6, <1>7, <1>8, <1>9, <1>10, <1>11, <1>12 DEF Next, Serve

\* A port once made stays known as one that was.
LEMMA ThroughStays ==
  ASSUME Inv, [Next]_vars, NEW b \in Container, Through(b)
  PROVE  Through(b)'
BY SandboxSteps, AddSteps DEF Through

LEMMA LivingKept ==
  ASSUME Inv, Inv', [Next]_vars, Living
  PROVE  Living'
<1> SUFFICES ASSUME NEW b \in veth' PROVE sandbox'[b].state \notin {"new", "gone"}
  BY DEF Living
<1>1. b \in Container
  BY DEF Inv, TypeOK
<1> QED BY <1>1, SandboxSteps, Parts DEF Living, Consistent

\* What a step does to the path of one sandbox, and to what its DEL has found.
LEMMA HostSteps ==
  ASSUME Inv, [Next]_vars, NEW b \in Container
  PROVE  /\ b \in ovs' => b \in ovs \/ (add[b].pc = "ovs" /\ add'[b].pc = "up" /\ UNCHANGED sandbox)
         /\ b \in robbed' => \/ b \in robbed
                             \/ b \in LinkLeft' /\ \E c \in Container : del[c].pc = "port" /\ del[c].port = b
         /\ eth0'[b] \in {eth0[b], 0} \/ add[b].pc = "veth"
         /\ b \in LinkLeft => b \in LinkLeft' \/ eth0'[b] = 0
         /\ del'[b].pc = "port" => del'[b] = del[b] \/ del'[b].port \in ovs
         /\ causes \subseteq causes'
<1> DEFINE G == /\ b \in ovs' => b \in ovs \/ (add[b].pc = "ovs" /\ add'[b].pc = "up" /\ UNCHANGED sandbox)
                /\ b \in robbed' => \/ b \in robbed
                                    \/ b \in LinkLeft' /\ \E c \in Container : del[c].pc = "port" /\ del[c].port = b
                /\ eth0'[b] \in {eth0[b], 0} \/ add[b].pc = "veth"
                /\ b \in LinkLeft => b \in LinkLeft' \/ eth0'[b] = 0
                /\ del'[b].pc = "port" => del'[b] = del[b] \/ del'[b].port \in ovs
                /\ causes \subseteq causes'
<1> SUFFICES G
  OBVIOUS
<1>1. CASE UNCHANGED <<ovs, eth0, robbed, halfway, causes, del>>
  BY <1>1 DEF LinkLeft, BeforeLink
<1>2. CASE Stop
  BY <1>2 DEF Stop, LinkLeft
<1>3. ASSUME NEW c \in Container, cleanupVeth(c), UNCHANGED <<ovs, robbed, halfway, del>>, causes \subseteq causes' PROVE G
  BY <1>3, Parts DEF cleanupVeth, LinkDel, LinkLeft, BeforeLink
<1>4. ASSUME NEW c \in Container, Wait(c) \/ BringUp(c) PROVE G
  <2>1. CASE Wait(c)
    BY <1>1, <2>1 DEF Wait, host, history
  <2>2. CASE BringUp(c)
    BY <1>1, <1>3, <2>2 DEF BringUp, host
  <2> QED BY <1>4, <2>1, <2>2
<1>5. ASSUME NEW c \in Container, SetupVeth(c) PROVE G
  <2>1. CASE add[c].pc = "veth" /\ eth0' = [eth0 EXCEPT ![c] = add[c].ip] /\ UNCHANGED <<ovs, robbed, halfway, causes, del>>
    BY <2>1, Parts DEF LinkLeft, BeforeLink
  <2>2. CASE cleanupVeth(c) /\ UNCHANGED <<ovs, robbed, halfway, causes, del>>
    BY <1>3, <2>2
  <2> QED BY <1>5, <2>1, <2>2 DEF SetupVeth, history
<1>6. ASSUME NEW c \in Container, AddPort(c) PROVE G
  <2>1. CASE /\ add[c].pc = "ovs" /\ ovs' = ovs \cup {c} /\ Step(c, "up")
             /\ UNCHANGED <<sandbox, eth0, robbed, halfway, causes, del>>
    <3>1. add'[c].pc = "up"
      BY <2>1, Parts DEF Step, Adds
    <3> QED BY <2>1, <3>1 DEF LinkLeft, BeforeLink
  <2>2. CASE cleanupVeth(c) /\ UNCHANGED <<ovs, robbed, halfway, causes, del>>
    BY <1>3, <2>2
  <2> QED BY <1>6, <2>1, <2>2 DEF AddPort, history
<1>7. ASSUME NEW c \in Container, CmdAdd(c) \/ StopSandbox(c) \/ GiveUp(c) PROVE G
  BY <1>1, <1>7 DEF CmdAdd, StopSandbox, GiveUp, host, history, LinkLeft, BeforeLink
<1>8. ASSUME NEW c \in Container, NEW pc \in {"find", "link", "lsp", "idle"}, DelStep(c, pc)
      PROVE  /\ del'[b].pc = "port" => del'[b] = del[b]
             /\ del'[c].port = del[c].port /\ del'[c].pc = pc
             /\ \A d \in Container \ {c} : del'[d] = del[d]
             /\ del[c].pc # "link" /\ halfway \subseteq halfway' => LinkLeft \subseteq LinkLeft'
  <2>1. /\ del'[c].port = del[c].port /\ del'[c].pc = pc
        /\ \A d \in Container \ {c} : del'[d] = del[d]
    BY <1>8, Parts DEF DelStep, Dels
  <2> QED BY <2>1 DEF LinkLeft, BeforeLink
<1>9. ASSUME NEW c \in Container, CmdDel(c) PROVE G
  <2>1. CASE running
    <3>1. DelStep(c, "find") /\ UNCHANGED <<ovs, eth0, robbed, halfway, causes>>
      BY <1>9, <2>1 DEF CmdDel, DelStep
    <3>2. del[c].pc = "idle"
      BY <1>9 DEF CmdDel
    <3> QED BY <1>8, <3>1, <3>2
  <2>2. CASE ~ running
    <3>1. UNCHANGED <<ovs, robbed, halfway, del>> /\ causes \subseteq causes' /\ eth0' = [eth0 EXCEPT ![c] = 0]
      BY <1>9, <2>2 DEF CmdDel, Removed
    <3> QED BY <3>1, Parts DEF LinkLeft, BeforeLink
  <2> QED BY <2>1, <2>2
<1>10. ASSUME NEW c \in Container, Find(c) PROVE G
  <2>1. UNCHANGED <<ovs, eth0, robbed, halfway>> /\ causes \subseteq causes'
    BY <1>10 DEF Find, host
  <2>2. CASE \E p \in ovs : del' = [del EXCEPT ![c] = [pc |-> "port", port |-> p]]
    <3>1. PICK p \in ovs : del' = [del EXCEPT ![c] = [pc |-> "port", port |-> p]]
      BY <2>2
    <3>2. del'[b] = del[b] \/ del'[b].port \in ovs
      BY <3>1, Parts
    <3>3. BeforeLink \subseteq BeforeLink'
      <4>1. del[c].pc = "find" /\ \A d \in Container \ {c} : del'[d] = del[d]
        BY <1>10, <3>1, Parts DEF Find
      <4> QED BY <4>1 DEF BeforeLink
    <3> QED BY <2>1, <3>2, <3>3 DEF LinkLeft
  <2>3. CASE DelStep(c, "lsp")
    <3>1. del[c].pc # "link"
      BY <1>10 DEF Find
    <3> QED BY <1>8, <2>1, <2>3, <3>1
  <2> QED BY <1>10, <2>2, <2>3 DEF Find
<1>11. ASSUME NEW c \in Container, RemovePort(c) PROVE G
  <2> DEFINE p == del[c].port
  <2>1. /\ del[c].pc = "port" /\ ovs' \subseteq ovs /\ UNCHANGED <<eth0, halfway>>
        /\ robbed' = robbed \cup ({p} \ {c}) /\ causes \subseteq causes' /\ DelStep(c, "link")
    BY <1>11 DEF RemovePort
  <2>2. p \in LinkLeft'
    BY <1>8, <2>1 DEF LinkLeft, BeforeLink
  <2>3. b \in robbed' => b \in robbed \/ (b \in LinkLeft' /\ b = p)
    BY <2>1, <2>2
  <2>4. LinkLeft \subseteq LinkLeft'
    BY <1>8, <2>1
  <2> QED BY <1>8, <2>1, <2>3, <2>4
<1>14. ASSUME NEW c \in Container, RemoveLink(c) PROVE G
  <2> DEFINE p == del[c].port
  <2>1. /\ del[c].pc = "link" /\ UNCHANGED <<ovs, robbed, causes>> /\ DelStep(c, "lsp")
        /\ \/ eth0' = [eth0 EXCEPT ![p] = 0] /\ UNCHANGED halfway
           \/ UNCHANGED eth0 /\ halfway' = halfway \cup {p}
    BY <1>14 DEF RemoveLink, LinkDel
  <2>2. eth0'[b] \in {eth0[b], 0} /\ (eth0'[b] = 0 \/ b # p \/ b \in halfway')
    BY <2>1, Parts
  <2>3. LinkLeft \ {p} \subseteq LinkLeft'
    <3>1. \A d \in Container \ {c} : del'[d] = del[d]
      BY <1>8, <2>1
    <3> QED BY <2>1, <3>1 DEF LinkLeft, BeforeLink
  <2>4. b \in LinkLeft => b \in LinkLeft' \/ eth0'[b] = 0
    BY <2>2, <2>3 DEF LinkLeft
  <2> QED BY <1>8, <2>1, <2>2, <2>4
<1>12. ASSUME NEW c \in Container, DeleteLSP(c) PROVE G
  <2>1. /\ DelStep(c, "idle") /\ UNCHANGED <<ovs, robbed, halfway, causes>> /\ eth0' = [eth0 EXCEPT ![c] = 0]
    BY <1>12 DEF DeleteLSP, Removed, history
  <2>2. eth0'[b] \in {eth0[b], 0} /\ del[c].pc # "link"
    BY <1>12, <2>1, Parts DEF DeleteLSP
  <2> QED BY <1>8, <2>1, <2>2
<1>13. CASE CreatePod \/ Provide \/ DeletePod \/ Start \/ UNCHANGED vars
  BY <1>1, <1>13 DEF CreatePod, Provide, DeletePod, Start, vars, host, history
<1> HIDE DEF G
<1> QED BY <1>2, <1>4, <1>5, <1>6, <1>7, <1>9, <1>10, <1>11, <1>12, <1>13, <1>14 DEF Next, Serve

\* What is found and taken has been made, and stays away.
LEMMA RobbingKept ==
  ASSUME Inv, Inv', [Next]_vars, Robbing
  PROVE  Robbing'
<1>1. ASSUME NEW b \in ovs' \cup robbed' PROVE Through(b)'
  <2>1. b \in Container
    BY DEF Inv, TypeOK
  <2>2. CASE b \in ovs \cup robbed
    BY <2>1, <2>2, ThroughStays DEF Robbing
  <2>3. CASE b \in ovs' /\ b \notin ovs
    <3>1. add[b].pc = "ovs" /\ add'[b].pc = "up" /\ UNCHANGED sandbox
      BY <2>1, <2>3, HostSteps
    <3> QED BY <2>1, <3>1, Parts DEF Through, Consistent
  <2>4. CASE b \in robbed' /\ b \notin robbed
    <3>1. \E c \in Container : del[c].pc = "port" /\ del[c].port = b
      BY <2>1, <2>4, HostSteps
    <3>2. Through(b)
      BY <3>1 DEF Robbing
    <3> QED BY <2>1, <3>2, ThroughStays
  <2> QED BY <2>2, <2>3, <2>4
<1>2. ASSUME NEW c \in Container, NEW q \in Container, del'[c].pc = "port", del'[c].port = q
      PROVE  Through(q)'
  <2>1. del'[c] = del[c] \/ q \in ovs
    BY <1>2, HostSteps
  <2>2. Through(q)
    BY <1>2, <2>1 DEF Robbing
  <2> QED BY <2>2, ThroughStays
<1>3. ASSUME NEW b \in robbed' PROVE eth0'[b] = 0 \/ b \in LinkLeft'
  <2>1. b \in Container
    BY DEF Inv, TypeOK
  <2>2. CASE b \in robbed
    <3>1. (eth0[b] = 0 \/ b \in LinkLeft) /\ add[b].pc # "veth"
      BY <2>2 DEF Robbing, Through
    <3>2. /\ eth0'[b] \in {eth0[b], 0} \/ add[b].pc = "veth"
          /\ b \in LinkLeft => b \in LinkLeft' \/ eth0'[b] = 0
      BY <2>1, HostSteps
    <3> QED BY <3>1, <3>2
  <2>3. CASE b \notin robbed
    BY <2>1, <2>3, HostSteps
  <2> QED BY <2>2, <2>3
<1> QED BY <1>1, <1>2, <1>3 DEF Robbing, Inv, TypeOK
\* An answer ends an ADD and, if the runtime waits for it, the wait.
LEMMA Answered ==
  ASSUME Inv, NEW c \in Container, NEW ok \in BOOLEAN, Answer(c, ok), add[c].pc # "idle"
  PROVE  /\ add' = [add EXCEPT ![c] = [pc |-> "idle", ip |-> 0]]
         /\ \A b \in Container \ {c} : sandbox'[b] = sandbox[b] /\ add'[b] = add[b]
         /\ add'[c].pc = "idle"
         /\ \/ sandbox[c].state = "adding" /\ sandbox'[c].state \in {"ready", "stopping"}
            \/ sandbox[c].state # "adding" /\ sandbox'[c] = sandbox[c]
<1>1. add' = [add EXCEPT ![c] = [pc |-> "idle", ip |-> 0]]
  BY DEF Answer
<1>2. \A b \in Container \ {c} : sandbox'[b] = sandbox[b] /\ add'[b] = add[b]
  BY Parts DEF Answer
<1>3. add'[c].pc = "idle"
  BY <1>1, Parts
<1>4. CASE sandbox[c].state = "adding"
  <2>1. sandbox'[c].state \in {"ready", "stopping"}
    BY <1>4, Parts DEF Answer, Sandboxes
  <2> QED BY <1>1, <1>2, <1>3, <1>4, <2>1
<1>5. CASE sandbox[c].state # "adding"
  <2>1. sandbox' = sandbox
    BY <1>5 DEF Answer
  <2> QED BY <1>1, <1>2, <1>3, <1>5, <2>1
<1> QED BY <1>4, <1>5

\* A step of the server for one sandbox, seen from the requests: an ADD goes on
\* or is answered, or a DEL goes on.
LEMMA AddStep ==
  ASSUME Inv, NEW c \in Container, Wait(c) \/ SetupVeth(c) \/ AddPort(c) \/ BringUp(c)
  PROVE  /\ add[c].pc # "idle" /\ UNCHANGED del /\ causes \subseteq causes'
         /\ ovs' \in {ovs, ovs \cup {c}}
         /\ \/ UNCHANGED ovs /\ \E ok \in BOOLEAN : Answer(c, ok)
            \/ /\ UNCHANGED sandbox /\ \A b \in Container \ {c} : add'[b] = add[b]
               /\ \/ add[c].pc \in {"wait", "veth"} /\ add'[c].pc \in {"veth", "ovs"} /\ UNCHANGED ovs
                  \/ add[c].pc = "ovs" /\ add'[c].pc = "up"
<1> DEFINE G == /\ add[c].pc # "idle" /\ UNCHANGED del /\ causes \subseteq causes'
                /\ ovs' \in {ovs, ovs \cup {c}}
                /\ \/ UNCHANGED ovs /\ \E ok \in BOOLEAN : Answer(c, ok)
                   \/ /\ UNCHANGED sandbox /\ \A b \in Container \ {c} : add'[b] = add[b]
                      /\ \/ add[c].pc \in {"wait", "veth"} /\ add'[c].pc \in {"veth", "ovs"} /\ UNCHANGED ovs
                         \/ add[c].pc = "ovs" /\ add'[c].pc = "up"
<1> SUFFICES G
  OBVIOUS
<1>1. ASSUME NEW pc \in {"ovs", "up"}, Step(c, pc)
      PROVE  add'[c].pc = pc /\ \A b \in Container \ {c} : add'[b] = add[b]
  BY <1>1, Parts DEF Step, Adds
<1>2. CASE Wait(c)
  <2>1. CASE annotation # 0
    <3>1. add' = [add EXCEPT ![c] = [pc |-> "veth", ip |-> annotation]]
      BY <1>2, <2>1 DEF Wait
    <3>2. add'[c].pc = "veth" /\ \A b \in Container \ {c} : add'[b] = add[b]
      BY <3>1, Parts
    <3> QED BY <1>2, <2>1, <3>2 DEF Wait, host, history
  <2>2. CASE annotation = 0
    BY <1>2, <2>2 DEF Wait, host, history
  <2> QED BY <2>1, <2>2
<1>3. CASE SetupVeth(c)
  BY <1>1, <1>3 DEF SetupVeth, history
<1>4. CASE AddPort(c)
  BY <1>1, <1>4 DEF AddPort, history
<1>5. CASE BringUp(c)
  BY <1>5 DEF BringUp, host
<1> HIDE DEF G
<1> QED BY <1>2, <1>3, <1>4, <1>5

\* The runtime gives up only on waits, as long as no cause is recorded.
LEMMA AwaitedKept ==
  ASSUME Inv, [Next]_vars, Awaited
  PROVE  Awaited'
<1> SUFFICES ASSUME causes' = {}, NEW b \in Container, add'[b].pc # "idle"
             PROVE  sandbox'[b].state = "adding"
  BY DEF Awaited
<1>1. causes = {}
  BY HostSteps
<1>2. add[b].pc # "idle" => sandbox[b].state = "adding"
  BY <1>1 DEF Awaited
<1>3. CASE UNCHANGED <<add, sandbox>>
  BY <1>2, <1>3
<1>4. CASE Stop
  BY <1>4 DEF Stop
<1>5. ASSUME NEW c \in Container, Wait(c) \/ SetupVeth(c) \/ AddPort(c) \/ BringUp(c)
      PROVE  sandbox'[b].state = "adding"
  <2>1. CASE \E ok \in BOOLEAN : Answer(c, ok)
    BY <1>2, <1>5, <2>1, AddStep, Answered
  <2>2. CASE UNCHANGED sandbox /\ \A d \in Container \ {c} : add'[d] = add[d]
    BY <1>2, <1>5, <2>2, AddStep
  <2> QED BY <1>5, <2>1, <2>2, AddStep
<1>6. ASSUME NEW c \in Container, CmdAdd(c) PROVE sandbox'[b].state = "adding"
  <2>1. b # c => add'[b] = add[b] /\ sandbox'[b] = sandbox[b]
    BY <1>6, Parts DEF CmdAdd
  <2>2. CASE b = c
    <3>1. sandbox[c].state = "new" /\ add[c].pc = "idle"
      BY <1>6, Parts DEF CmdAdd, Consistent
    <3>2. running
      BY <1>6, <2>2, <3>1 DEF CmdAdd
    <3> QED BY <1>6, <2>2, <3>2, Parts DEF CmdAdd
  <2> QED BY <1>2, <2>1, <2>2
<1>7. ASSUME NEW c \in Container, StopSandbox(c) PROVE sandbox'[b].state = "adding"
  <2>1. sandbox[c].state = "ready" /\ add' = add /\ (b # c => sandbox'[b] = sandbox[b])
    BY <1>7, Parts DEF StopSandbox, State
  <2> QED BY <1>2, <2>1
<1>8. ASSUME NEW c \in Container, GiveUp(c) PROVE sandbox'[b].state = "adding"
  <2>1. add[c].pc = "wait" /\ add' = [add EXCEPT ![c].pc = "idle"] /\ (b # c => sandbox'[b] = sandbox[b])
    BY <1>8, Parts DEF GiveUp, State
  <2>2. (b # c => add'[b] = add[b]) /\ add'[c].pc = "idle"
    BY <2>1, Parts DEF Adds
  <2> QED BY <1>2, <2>1, <2>2
<1>9. ASSUME NEW c \in Container, CmdDel(c) \/ Find(c) \/ RemovePort(c) \/ RemoveLink(c) \/ DeleteLSP(c)
      PROVE  sandbox'[b].state = "adding"
  <2>1. sandbox[c].state \in {"stopping", "gone"} /\ add' = add
    BY <1>9, Parts DEF CmdDel, Find, RemovePort, RemoveLink, DeleteLSP, Consistent
  <2>2. b # c => sandbox'[b] = sandbox[b]
    BY <1>9, Parts DEF CmdDel, Find, RemovePort, RemoveLink, DeleteLSP, Removed, State
  <2> QED BY <1>2, <2>1, <2>2
<1>10. CASE CreatePod \/ Provide \/ DeletePod \/ Start \/ UNCHANGED vars
  BY <1>3, <1>10 DEF CreatePod, Provide, DeletePod, Start, vars
<1> QED BY <1>4, <1>5, <1>6, <1>7, <1>8, <1>9, <1>10 DEF Next, Serve

\* Counting: fewer ports, or more DELs to come, or one of each more or less.
LEMMA Counting ==
  ASSUME NEW S, NEW T, NEW S2, NEW T2,
         IsFiniteSet(S), IsFiniteSet(T), IsFiniteSet(T2), Cardinality(S) <= Cardinality(T),
         \/ S2 \subseteq S /\ T \subseteq T2
         \/ \E c \in T2 \ T : S2 \subseteq S \cup {c} /\ T \subseteq T2
         \/ \E p \in S : \E c : S2 = S \ {p} /\ T \ {c} \subseteq T2
         \/ S2 = {}
  PROVE  Cardinality(S2) <= Cardinality(T2)
<1>1. Cardinality(S) \in Nat /\ Cardinality(T) \in Nat /\ Cardinality(T2) \in Nat
  BY FS_CardinalityType
<1>2. CASE S2 \subseteq S /\ T \subseteq T2
  <2>1. Cardinality(S2) <= Cardinality(S) /\ Cardinality(T) <= Cardinality(T2) /\ Cardinality(S2) \in Nat
    BY <1>2, FS_Subset, FS_CardinalityType
  <2> QED BY <1>1, <2>1
<1>3. ASSUME NEW c \in T2 \ T, S2 \subseteq S \cup {c}, T \subseteq T2
      PROVE  Cardinality(S2) <= Cardinality(T2)
  <2>1. /\ IsFiniteSet(S \cup {c}) /\ Cardinality(S \cup {c}) <= Cardinality(S) + 1
        /\ Cardinality(S \cup {c}) \in Nat
    <3>1. IsFiniteSet(S \cup {c}) /\ Cardinality(S \cup {c}) \in {Cardinality(S), Cardinality(S) + 1}
      BY FS_AddElement
    <3> QED BY <1>1, <3>1
  <2>2. Cardinality(S2) <= Cardinality(S \cup {c}) /\ Cardinality(S2) \in Nat
    BY <1>3, <2>1, FS_Subset, FS_CardinalityType
  <2>3. IsFiniteSet(T \cup {c}) /\ Cardinality(T \cup {c}) = Cardinality(T) + 1
    BY <1>3, FS_AddElement
  <2>4. Cardinality(T \cup {c}) <= Cardinality(T2)
    <3>1. T \cup {c} \subseteq T2
      BY <1>3
    <3> QED BY <3>1, FS_Subset
  <2> QED BY <1>1, <2>1, <2>2, <2>3, <2>4
<1>4. ASSUME NEW p \in S, NEW c, S2 = S \ {p}, T \ {c} \subseteq T2
      PROVE  Cardinality(S2) <= Cardinality(T2)
  <2>1. Cardinality(S2) = Cardinality(S) - 1
    BY <1>4, FS_RemoveElement
  <2>2. Cardinality(T) - 1 <= Cardinality(T \ {c}) /\ Cardinality(T \ {c}) \in Nat
    <3>1. CASE c \in T
      <4>1. /\ IsFiniteSet(T \ {c}) /\ Cardinality(T \ {c}) = Cardinality(T) - 1
        BY <3>1, FS_RemoveElement
      <4>2. Cardinality(T \ {c}) \in Nat
        BY <4>1, FS_CardinalityType
      <4> QED BY <1>1, <4>1, <4>2
    <3>2. CASE c \notin T
      <4>1. T \ {c} = T
        BY <3>2
      <4> QED BY <1>1, <4>1
    <3> QED BY <3>1, <3>2
  <2>3. Cardinality(T \ {c}) <= Cardinality(T2)
    BY <1>4, FS_Subset
  <2> QED BY <1>1, <2>1, <2>2, <2>3
<1>5. CASE S2 = {}
  BY <1>1, <1>5, FS_EmptySet
<1> QED BY <1>2, <1>3, <1>4, <1>5

\* Every step keeps the count.
LEMMA CoveredKept ==
  ASSUME Inv, [Next]_vars, Awaited, Covered
  PROVE  Covered'
<1> SUFFICES ASSUME causes' = {} PROVE Cardinality(ovs') <= Cardinality(Owing')
  BY DEF Covered
<1>1. causes = {}
  <2>1. \A b \in Container : causes \subseteq causes'
    BY HostSteps
  <2>2. CASE Container = {}
    BY <2>2 DEF Next, vars, CreatePod, Provide, DeletePod, Start, Stop, history
  <2> QED BY <2>1, <2>2
<1>2. IsFiniteSet(ovs) /\ IsFiniteSet(Owing) /\ IsFiniteSet(Owing')
  <2>1. ovs \subseteq Container /\ Owing \subseteq Container /\ Owing' \subseteq Container
    BY DEF Owing, Inv, TypeOK
  <2> QED BY <2>1, CNIAssumption, FS_Subset
<1>3. Cardinality(ovs) <= Cardinality(Owing)
  BY <1>1 DEF Covered
<1> DEFINE G == \/ ovs' \subseteq ovs /\ Owing \subseteq Owing'
                \/ \E c \in Owing' \ Owing : ovs' \subseteq ovs \cup {c} /\ Owing \subseteq Owing'
                \/ \E p \in ovs : \E c : ovs' = ovs \ {p} /\ Owing \ {c} \subseteq Owing'
                \/ ovs' = {}
<1> SUFFICES G
  BY <1>2, <1>3, Counting
<1>4. ASSUME UNCHANGED <<ovs, sandbox, add, del>> PROVE G
  BY <1>4 DEF Owing, Owes
<1>5. CASE Stop
  <2>1. UNCHANGED ovs
    BY <1>5 DEF Stop
  <2>2. ASSUME NEW b \in Container, Owes(b) PROVE Owes(b)'
    <3>1. del[b].pc = "idle"
      BY <1>5 DEF Stop
    <3>2. sandbox'[b].state \in {"ready", "stopping"} /\ del'[b].pc = "idle"
      BY <1>5, <2>2, <3>1, Parts DEF Stop, Owes, Sandboxes
    <3> QED BY <3>2 DEF Owes
  <2> QED BY <2>1, <2>2 DEF Owing
<1>6. ASSUME NEW c \in Container, \A b \in Container \ {c} : sandbox'[b] = sandbox[b] /\ add'[b] = add[b],
             UNCHANGED del
      PROVE  \A b \in Container \ {c} : Owes(b) => Owes(b)'
  BY <1>6 DEF Owes
<1>7. ASSUME NEW c \in Container, Wait(c) \/ SetupVeth(c) \/ AddPort(c) \/ BringUp(c)
      PROVE  G
  <2>1. add[c].pc # "idle" /\ sandbox[c].state = "adding" /\ UNCHANGED del /\ del[c].pc = "idle"
    BY <1>1, <1>7, AddStep, Parts DEF Awaited, Consistent
  <2>2. CASE UNCHANGED ovs /\ \E ok \in BOOLEAN : Answer(c, ok)
    <3>1. /\ \A b \in Container \ {c} : sandbox'[b] = sandbox[b] /\ add'[b] = add[b]
          /\ sandbox'[c].state \in {"ready", "stopping"}
      BY <2>1, <2>2, Answered
    <3>2. Owes(c)' /\ \A b \in Container \ {c} : Owes(b) => Owes(b)'
      BY <1>6, <2>1, <3>1 DEF Owes
    <3> QED BY <2>2, <3>2 DEF Owing
  <2>3. CASE /\ UNCHANGED sandbox /\ \A b \in Container \ {c} : add'[b] = add[b]
             /\ add[c].pc \in {"wait", "veth"} /\ UNCHANGED ovs
    <3>1. ~ Owes(c) /\ \A b \in Container \ {c} : Owes(b) => Owes(b)'
      BY <1>6, <2>1, <2>3 DEF Owes
    <3> QED BY <2>3, <3>1 DEF Owing
  <2>4. CASE /\ UNCHANGED sandbox /\ \A b \in Container \ {c} : add'[b] = add[b]
             /\ add[c].pc = "ovs" /\ add'[c].pc = "up" /\ ovs' \in {ovs, ovs \cup {c}}
    <3>1. ~ Owes(c) /\ Owes(c)' /\ \A b \in Container \ {c} : Owes(b) => Owes(b)'
      BY <1>6, <2>1, <2>4 DEF Owes
    <3>2. c \in Owing' \ Owing /\ Owing \subseteq Owing' /\ ovs' \subseteq ovs \cup {c}
      BY <2>4, <3>1 DEF Owing
    <3> QED BY <3>2
  <2> HIDE DEF G
  <2> QED BY <1>7, <2>2, <2>3, <2>4, AddStep
<1>8. ASSUME NEW c \in Container, CmdAdd(c) \/ StopSandbox(c) \/ GiveUp(c) PROVE G
  <2>1. UNCHANGED <<ovs, del>>
    BY <1>8 DEF CmdAdd, StopSandbox, GiveUp, host
  <2>2. \A b \in Container \ {c} : sandbox'[b] = sandbox[b] /\ add'[b] = add[b]
    BY <1>8, Parts DEF CmdAdd, StopSandbox, GiveUp, State
  <2>3. Owes(c) => Owes(c)'
    <3>1. CASE CmdAdd(c)
      BY <3>1 DEF CmdAdd, Owes
    <3>2. CASE StopSandbox(c) \/ GiveUp(c)
      <4>1. sandbox'[c].state = "stopping"
        BY <3>2, Parts DEF StopSandbox, GiveUp, State, Sandboxes
      <4>2. del[c].pc = "idle"
        BY <3>2, Parts DEF StopSandbox, GiveUp, Consistent
      <4> QED BY <2>1, <4>1, <4>2 DEF Owes
    <3> QED BY <1>8, <3>1, <3>2
  <2> QED BY <1>6, <2>1, <2>2, <2>3 DEF Owing
<1>9. ASSUME NEW c \in Container, CmdDel(c) PROVE G
  <2>1. running
    BY <1>9 DEF CmdDel
  <2>2. /\ UNCHANGED <<ovs, sandbox, add>> /\ del[c].pc = "idle"
        /\ del' = [del EXCEPT ![c].pc = "find"]
    BY <1>9, <2>1 DEF CmdDel
  <2>3. \A b \in Container : Owes(b) => Owes(b)'
    <3>1. \A b \in Container : del'[b] = del[b] \/ del'[b].pc = "find"
      BY <2>2, Parts DEF Dels
    <3> QED BY <2>2, <3>1 DEF Owes
  <2> QED BY <2>2, <2>3 DEF Owing
<1>10. ASSUME NEW c \in Container, NEW d \in Dels, del' = [del EXCEPT ![c] = d], UNCHANGED <<sandbox, add>>
       PROVE  /\ Owing \ {c} \subseteq Owing'
              /\ d.pc \notin {"link", "lsp"} => Owing \subseteq Owing'
  <2>1. \A b \in Container : b # c => del'[b] = del[b]
    BY <1>10, Parts
  <2>2. del'[c] = d
    BY <1>10, Parts
  <2> QED BY <1>10, <2>1, <2>2 DEF Owing, Owes
<1>11. ASSUME NEW c \in Container, Find(c) PROVE G
  <2>1. UNCHANGED <<ovs, sandbox, add>>
    BY <1>11 DEF Find, host
  <2>2. CASE \E p \in ovs : del' = [del EXCEPT ![c] = [pc |-> "port", port |-> p]]
    <3>1. PICK p \in ovs : del' = [del EXCEPT ![c] = [pc |-> "port", port |-> p]]
      BY <2>2
    <3>2. [pc |-> "port", port |-> p] \in Dels
      BY DEF Dels, Inv, TypeOK
    <3>3. Owing \subseteq Owing'
      BY <1>10, <2>1, <3>1, <3>2
    <3> QED BY <2>1, <3>3
  <2>3. CASE ovs = {}
    BY <2>1, <2>3
  <2> HIDE DEF G
  <2> QED BY <1>11, <2>2, <2>3 DEF Find
<1>12. ASSUME NEW c \in Container, RemovePort(c) PROVE G
  <2>1. /\ UNCHANGED <<sandbox, add>> /\ DelStep(c, "link") /\ del[c].port \in ovs
        /\ ovs' = ovs \ {del[c].port}
    BY <1>12 DEF RemovePort
  <2>2. /\ [del[c] EXCEPT !.pc = "link"] \in Dels
        /\ del' = [del EXCEPT ![c] = [del[c] EXCEPT !.pc = "link"]]
    BY <2>1, Parts DEF DelStep, Dels
  <2>3. Owing \ {c} \subseteq Owing'
    BY <1>10, <2>1, <2>2
  <2> QED BY <2>1, <2>3
<1>15. ASSUME NEW c \in Container, RemoveLink(c) PROVE G
  <2>1. UNCHANGED <<ovs, sandbox, add>> /\ DelStep(c, "lsp") /\ del[c].pc = "link"
    BY <1>15 DEF RemoveLink
  <2>2. ~ Owes(c) \/ (add[c].pc = "up" /\ sandbox[c].state = "adding")
    BY <2>1 DEF Owes
  <2>3. \A b \in Container \ {c} : del'[b] = del[b]
    BY <2>1, Parts DEF DelStep
  <2>4. Owing \subseteq Owing'
    BY <2>1, <2>2, <2>3 DEF Owing, Owes
  <2> QED BY <2>1, <2>4
<1>13. ASSUME NEW c \in Container, DeleteLSP(c) PROVE G
  <2>1. /\ UNCHANGED <<ovs, add>> /\ del[c].pc = "lsp" /\ sandbox[c].state \in {"stopping", "gone"}
    BY <1>13, Parts DEF DeleteLSP, Consistent
  <2>2. ~ Owes(c)
    BY <2>1 DEF Owes
  <2>3. \A b \in Container \ {c} : sandbox'[b] = sandbox[b] /\ del'[b] = del[b]
    BY <1>13, Parts DEF DeleteLSP, Removed, State, DelStep
  <2>4. Owing \subseteq Owing'
    BY <2>1, <2>2, <2>3 DEF Owing, Owes
  <2> QED BY <2>1, <2>4
<1>14. CASE CreatePod \/ Provide \/ DeletePod \/ Start \/ UNCHANGED vars
  BY <1>4, <1>14 DEF CreatePod, Provide, DeletePod, Start, vars, host
<1> HIDE DEF G
<1> QED BY <1>5, <1>7, <1>8, <1>9, <1>11, <1>12, <1>13, <1>14, <1>15 DEF Next, Serve

\* The second invariant, on top of the first.
THEOREM LeftInvariance == Spec => []Left
<1>1. Init => Left
  BY LeftInitially
<1>2. Inv /\ Inv' /\ Left /\ [Next]_vars => Left'
  BY RobbingKept, LivingKept, AwaitedKept, CoveredKept DEF Left
<1> QED BY <1>1, <1>2, Invariance, PTL DEF Spec

\* When all sandboxes are gone and nothing is under way, no port is left on the
\* bridge and no interface on the host, whatever order the requests of several
\* sandboxes came in, unless one of the causes was met.
THEOREM HostIsSound == Spec => []HostSound
<1>1. Inv /\ Left => HostSound
  <2> SUFFICES ASSUME Inv, Left, Quiet, causes = {} PROVE ovs = {} /\ veth = {}
    BY DEF HostSound, NothingLeft, Inv
  <2>1. veth = {}
    BY DEF Left, Living, Quiet, Inv, TypeOK
  <2>2. Owing = {}
    BY DEF Quiet, Owing, Owes
  <2>3. Cardinality(Owing) = 0
    BY <2>2, FS_EmptySet
  <2>4. IsFiniteSet(ovs) /\ Cardinality(ovs) \in Nat
    BY CNIAssumption, FS_Subset, FS_CardinalityType DEF Inv, TypeOK
  <2>5. Cardinality(ovs) <= 0
    BY <2>3 DEF Left, Covered
  <2>6. Cardinality(ovs) = 0
    BY <2>4, <2>5
  <2> QED BY <2>1, <2>4, <2>6, FS_EmptySet
<1> QED BY <1>1, Invariance, LeftInvariance, PTL

\* A sandbox that passes CHECK has its own path whole, although CHECK may have
\* looked at another one's port: robbing takes the address as soon as it takes
\* the interface.  Only a DEL between its two commands, or one that failed or was
\* cut off there, lets CHECK pass on a path that is not.
THEOREM ChecksAreSound == Spec => []CheckIsSound
<1>1. Inv /\ Left => CheckIsSound
  <2> SUFFICES ASSUME Inv, Left, NEW c \in Container, sandbox[c].state = "ready", HandleCheck(c),
                      c \notin LinkLeft
               PROVE  c \in ovs /\ c \in veth
    BY DEF CheckIsSound
  <2>1. eth0[c] # 0
    BY DEF HandleCheck, CheckInterface
  <2>2. c \notin robbed
    BY <2>1 DEF Left, Robbing
  <2> QED BY <2>2, Parts DEF Consistent, Linked
<1> QED BY <1>1, Invariance, LeftInvariance, PTL
=============================================================================
