------------------------- MODULE MCServiceController -------------------------
(* A small instance of ServiceController.                                  *)
EXTENDS ServiceController, TLC

CONSTANTS e1, e2, n1, n2

Port(proto, num, nodePort) == [proto |-> proto, num |-> num, target |-> 0, nodePort |-> nodePort]

\* Two ports of one protocol, a NodePort under either policy, another
\* protocol, and a Service that is not load balanced.
SmallSpecs ==
  {[type |-> "ClusterIP", local |-> FALSE, ports |-> <<Port("tcp", 1, 0), Port("tcp", 2, 0)>>],
   [type |-> "NodePort", local |-> FALSE, ports |-> <<Port("tcp", 1, 7)>>],
   [type |-> "NodePort", local |-> TRUE, ports |-> <<Port("tcp", 1, 7)>>],
   [type |-> "ClusterIP", local |-> FALSE, ports |-> <<Port("udp", 1, 0)>>],
   [type |-> "ExternalName", local |-> FALSE, ports |-> <<>>]}

TwoNodes == e1 :> n1 @@ e2 :> n2

Condition(r, s, t) == [ready |-> r, serving |-> s, terminating |-> t]

\* Ready, and on its way out.
SomeConditions ==
  {Condition("true", "true", "false"), Condition("false", "true", "true")}
=============================================================================
