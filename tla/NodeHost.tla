------------------------------ MODULE NodeHost -------------------------------
(***************************************************************************)
(* cmd/zstack-ovnkube-node with pkg/node/gateway.go and tunnel.go: what a  *)
(* node agent sets on its node from start to mgr.Start, and what is left   *)
(* of earlier starts: the Open_vSwitch database survives a reboot, the     *)
(* iptables rules survive a process.  Only one goroutine issues the        *)
(* commands, so a function is one step; the command that fails, or at      *)
(* which the process dies, is chosen in it.                                *)
(***************************************************************************)
EXTENDS Naturals, Sequences, FiniteSets, Functions

CONSTANTS
  Nic,            \* names the gateway's interface may have in the configuration
  Cidr,           \* cluster CIDRs
  Service,        \* service CIDRs
  Ip,             \* addresses of the node
  MaxHostUpsets  \* bound: failures, crashes, reboots and new configurations

ASSUME NodeHostAssumption ==
  "" \notin Nic /\ MaxHostUpsets \in Nat /\ {} \notin {Ip, Cidr, Service}

VARIABLES
  config,    \* the agent's configuration
  missing,   \* interfaces the node does not have
  nodeIP,    \* the node's address
  host,      \* setting -> value
  phase,     \* where runNodeAgent is
  cni,       \* the CNI server is running
  gateway,   \* the gateway controller's configured
  tunnels,   \* the tunnel controller's configured
  excuses,   \* history: what explains a setting that is not as configured
  upsets

hostVars == <<config, missing, nodeIP, host, phase, cni, gateway, tunnels, excuses, upsets>>

Configs == [mode : {"disabled", "local", "shared"}, nic : Nic \cup {""}, cidr : Cidr,
            service : Service, external : BOOLEAN, encap : {"vxlan", "geneve"}]

\* Keys of external_ids, bridges with their port, and NAT rules: cluster CIDRs
\* masqueraded, and cluster CIDRs with the service CIDR that is excepted.
Settings == {"br-int", "system-id", "hostname", "ovn-bridge", "ovn-remote", "br-ex", "uplink",
             "bridge-mappings", "gateway-mode", "masquerade", "exception",
             "encap-type", "encap-ip", "encap-csum"}

Rules == {"masquerade", "exception"}

Unset == ""

Fresh == [s \in Settings |-> IF s \in Rules THEN {} ELSE Unset]

HostInit ==
  /\ config \in Configs /\ nodeIP \in Ip
  /\ missing \in SUBSET Nic
  /\ host = Fresh
  /\ phase = "down"
  /\ cni = FALSE /\ gateway = FALSE /\ tunnels = FALSE
  /\ excuses = {} /\ upsets = 0

HostUpset == upsets < MaxHostUpsets /\ upsets' = upsets + 1

-----------------------------------------------------------------------------
(* Running a list of commands.                                             *)

\* The value a command gives its setting; "-A" and "-I" add a rule.
Value(s) ==
  CASE s = "masquerade"     -> host[s] \cup {config.cidr}
    [] s = "exception"      -> host[s] \cup {<<config.cidr, config.service>>}
    [] s = "uplink"         -> config.nic
    [] s = "gateway-mode"   -> config.mode
    [] s = "encap-type"     -> config.encap
    [] s = "encap-ip"       -> nodeIP
    [] OTHER                -> "set"

\* Failures that are logged and passed over.
WarnOnly == {"hostname", "uplink", "gateway-mode", "exception", "encap-csum"}

\* The commands done when number b breaks, 0 for none, with or without the
\* process.
Done(cmds, b, dies) ==
  IF b = 0 THEN Range(cmds)
  ELSE {cmds[i] : i \in {j \in DOMAIN cmds : j < b \/ (j > b /\ ~ dies /\ cmds[b] \in WarnOnly)}}

Apply(done) == host' = [s \in Settings |-> IF s \in done THEN Value(s) ELSE host[s]]

Succeeds(cmds, b, dies) == b = 0 \/ (~ dies /\ cmds[b] \in WarnOnly)

\* Chooses what breaks.
Breaks(cmds, b, dies) ==
  \/ b = 0 /\ ~ dies /\ UNCHANGED upsets
  \/ b # 0 /\ b \in DOMAIN cmds /\ HostUpset

\* The process is gone; Kubernetes starts it again.
Dead == phase' = "down" /\ cni' = FALSE /\ gateway' = FALSE /\ tunnels' = FALSE

Alive(next) == phase' = next /\ UNCHANGED cni

\* Settings with the one that is only made along with them.
Companion == {<<"br-ex", "uplink">>, <<"masquerade", "exception">>}

\* Excuses: the first of two has been made, and the second, which was to follow,
\* has not; no later run makes it.
Cut(cmds, done) ==
  LET halves == {c \in Companion : c[1] \in done /\ c[2] \in Range(cmds) \ done}
  IN  excuses' = excuses \cup {c[2] : c \in halves}

-----------------------------------------------------------------------------
(* runNodeAgent.                                                           *)

Remote == IF config.external THEN <<"ovn-remote">> ELSE <<>>

OVSCommands == <<"br-int", "system-id", "hostname", "ovn-bridge">> \o Remote

\* createOVNClient and configureOVS: an error ends the process.
configureOVS ==
  /\ phase = "down"
  /\ \E b \in 0 .. Len(OVSCommands), dies \in BOOLEAN :
       /\ Breaks(OVSCommands, b, dies)
       /\ Apply(Done(OVSCommands, b, dies))
       /\ IF Succeeds(OVSCommands, b, dies)
          THEN Alive("cni") /\ UNCHANGED <<gateway, tunnels>>
          ELSE Dead
  /\ UNCHANGED <<config, missing, nodeIP, excuses>>

StartCNI ==
  /\ phase = "cni"
  /\ \/ phase' = "gateway" /\ cni' = TRUE /\ UNCHANGED <<gateway, tunnels, upsets>>
     \/ HostUpset /\ Dead
  /\ UNCHANGED <<config, missing, nodeIP, host, excuses>>

\* ensureExternalBridge: the port is added by the run that makes the bridge.
BridgeCommands ==
  IF host["br-ex"] # Unset THEN <<>>
  ELSE <<"br-ex">> \o (IF config.nic # "" THEN <<"uplink">> ELSE <<>>)

\* Mutation of SNATCommands: the exception is forgotten.
SNATWithoutException == IF config.cidr \in host["masquerade"] THEN <<>> ELSE <<"masquerade">>

\* configureSNAT: with the first rule there, it is done, whichever service CIDR
\* that rule was made along with.
SNATCommands ==
  IF config.cidr \in host["masquerade"] THEN <<>>
  ELSE <<"masquerade">> \o
         (IF <<config.cidr, config.service>> \in host["exception"] THEN <<>> ELSE <<"exception">>)

\* Configure, after detectNodeIP.
GatewayCommands == <<"node-ip">> \o BridgeCommands \o <<"bridge-mappings", "gateway-mode">>
                     \o SNATCommands

\* configureGateway with ValidateGatewayConfig.
GatewayWanted == config.mode # "disabled" /\ config.nic \notin missing

\* Mutation of AfterGateway: an error ends the process, as the others do.
AfterGatewayFatal(dies) ==
  IF dies \/ config.nic \in missing THEN Dead ELSE Alive("tunnels") /\ UNCHANGED <<gateway, tunnels>>

\* What becomes of the process when the gateway is not configured.
AfterGateway(dies) == IF dies THEN Dead ELSE Alive("tunnels") /\ UNCHANGED <<gateway, tunnels>>

configureGateway ==
  /\ phase = "gateway"
  /\ \/ ~ GatewayWanted /\ AfterGateway(FALSE) /\ UNCHANGED <<host, excuses, upsets>>
     \/ /\ GatewayWanted
        /\ \E b \in 0 .. Len(GatewayCommands), dies \in BOOLEAN :
             /\ Breaks(GatewayCommands, b, dies)
             /\ Apply(Done(GatewayCommands, b, dies))
             /\ Cut(GatewayCommands, Done(GatewayCommands, b, dies))
             /\ IF Succeeds(GatewayCommands, b, dies)
                THEN Alive("tunnels") /\ gateway' = TRUE /\ UNCHANGED tunnels
                ELSE AfterGateway(dies)
  /\ UNCHANGED <<config, missing, nodeIP>>

\* Mutation of TunnelCommands: an encapsulation that is set is kept.
TunnelCommandsOnce ==
  IF host["encap-type"] # Unset THEN <<"local-ip">>
  ELSE <<"local-ip", "encap-type", "encap-ip">> \o Remote \o <<"ovn-bridge", "encap-csum">>

TunnelCommands == <<"local-ip", "encap-type", "encap-ip">> \o Remote \o <<"ovn-bridge", "encap-csum">>

\* configureTunnels, then mgr.Start: an error is logged, nobody tries again.
configureTunnels ==
  /\ phase = "tunnels"
  /\ \E b \in 0 .. Len(TunnelCommands), dies \in BOOLEAN :
       /\ Breaks(TunnelCommands, b, dies)
       /\ Apply(Done(TunnelCommands, b, dies))
       /\ IF dies THEN Dead
          ELSE Alive("running") /\ tunnels' = Succeeds(TunnelCommands, b, dies) /\ UNCHANGED gateway
  /\ UNCHANGED <<config, missing, nodeIP, excuses>>

-----------------------------------------------------------------------------
(* What happens to the agent and its node.                                 *)

Crash ==
  /\ phase # "down" /\ HostUpset /\ Dead
  /\ UNCHANGED <<config, missing, nodeIP, host, excuses>>

\* A signal stops a running agent; the next one reads another configuration.
\* What earlier ones have made is an excuse where the code leaves it.
NewConfig ==
  /\ phase = "running" /\ HostUpset /\ Dead
  /\ config' \in Configs \ {config}
  /\ excuses' = excuses
       \cup (IF config'.nic # config.nic /\ host["br-ex"] # Unset THEN {"uplink"} ELSE {})
       \cup (IF config'.service # config.service /\ host["exception"] # {} THEN {"service"} ELSE {})
       \cup (IF config.external /\ ~ config'.external THEN {"ovn-remote"} ELSE {})
  /\ UNCHANGED <<missing, nodeIP, host>>

\* The node may come back with another address and interfaces.
Reboot ==
  /\ HostUpset /\ Dead
  /\ host' = [host EXCEPT !["masquerade"] = {}, !["exception"] = {}]
  /\ nodeIP' \in Ip /\ missing' \in SUBSET missing
  /\ excuses' = excuses \ {"exception", "service"}
  /\ UNCHANGED config

runNodeAgent == configureOVS \/ StartCNI \/ configureGateway \/ configureTunnels

HostNext == runNodeAgent \/ Crash \/ NewConfig \/ Reboot

HostSpec == HostInit /\ [][HostNext]_hostVars

\* Kubernetes starts a process that has died, and a process goes on.
FairHostSpec == HostSpec /\ WF_hostVars(runNodeAgent)

-----------------------------------------------------------------------------
(* Properties                                                              *)

HostTypeOK ==
  /\ config \in Configs /\ missing \subseteq Nic /\ nodeIP \in Ip
  /\ DOMAIN host = Settings
  /\ host["masquerade"] \subseteq Cidr /\ host["exception"] \subseteq Cidr \X Service
  /\ host["uplink"] \in Nic \cup {Unset} /\ host["encap-ip"] \in Ip \cup {Unset}
  /\ phase \in {"down", "cni", "gateway", "tunnels", "running"}
  /\ cni = (phase \in {"gateway", "tunnels", "running"})
  /\ (gateway => phase \in {"tunnels", "running"}) /\ (tunnels => phase = "running")
  /\ excuses \subseteq {"uplink", "exception", "service", "ovn-remote"}
  /\ upsets \in 0 .. MaxHostUpsets

\* A gateway that reports itself configured reaches the wire: its interface is
\* a port of br-ex, unless a run was cut short between bridge and port, the
\* port could not be added, or there was a bridge before the interface was configured.
GatewayHasUplink ==
  gateway /\ config.nic # "" => host["uplink"] = config.nic \/ "uplink" \in excuses

\* Service CIDRs an exception may be for: the configured one, or any once there
\* is the excuse that it has been changed.
Current == IF "service" \in excuses THEN Service ELSE {config.service}

\* Pods leave through the node's address but reach services with their own: a
\* reported gateway masquerades the cluster, and wherever a cluster is
\* masqueraded, now or by an earlier configuration, the services are excepted,
\* unless a run was cut short between the two rules or the second failed, or the
\* service CIDR has been changed since an exception was made.
ServicesExcepted ==
  /\ gateway => config.cidr \in host["masquerade"]
  /\ \A c \in host["masquerade"] :
       "exception" \in excuses \/ \E s \in Current : <<c, s>> \in host["exception"]

\* What a reported gateway and the NAT rules promise, over every run of the
\* agent that was cut short.
GatewaySound == HostTypeOK /\ GatewayHasUplink /\ ServicesExcepted

\* A running agent whose tunnels are configured has left no setting of an
\* earlier configuration or address behind that ovn-controller goes by,
\* but for the remote of an external database.
TunnelsFollowConfig ==
  tunnels => /\ host["encap-type"] = config.encap /\ host["encap-ip"] = nodeIP
             /\ (host["ovn-remote"] # Unset) = config.external \/ "ovn-remote" \in excuses

\* Whatever the configuration asks for and the node lacks, the agent comes up
\* once commands have stopped failing.
AgentComesUp == <>[](phase = "running")
=============================================================================
