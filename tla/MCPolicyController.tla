------------------------- MODULE MCPolicyController -------------------------
(* A small instance of PolicyController.                                   *)
EXTENDS PolicyController, TLC

Block(c) == [kind |-> "ipBlock", cidr |-> c]
Selector == [kind |-> "podSelector", cidr |-> 0]

\* Both directions and two rules; a rule for every port with two peers; and
\* more rules than there are priorities.
SmallPolicies ==
  {[types |-> <<"Ingress", "Egress">>,
    Ingress |-> <<[peers |-> <<Block(1)>>, ports |-> {}], [peers |-> <<>>, ports |-> {80}]>>,
    Egress |-> <<>>],
   [types |-> <<"Ingress">>,
    Ingress |-> <<[peers |-> <<Block(1), Selector>>, ports |-> {}]>>,
    Egress |-> <<>>],
   [types |-> <<"Egress">>,
    Ingress |-> <<>>,
    Egress |-> [i \in 1 .. 3 |-> [peers |-> <<>>, ports |-> {i}]]]}
=============================================================================
