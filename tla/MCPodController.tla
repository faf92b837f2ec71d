--------------------------- MODULE MCPodController --------------------------
(* Small clusters for PodController.                                       *)
EXTENDS PodController, TLC

CONSTANTS p1, p2, s1, s2

\* One subnet with two addresses to hand out, 1 and 2: enough for two pods
\* to compete, and few enough for a freed address to be given out again.
OneCidr == s1 :> [base |-> 0, total |-> 4]
NoExcludes == [s \in Subnet |-> {}]
NoExplicit == [p \in Pod |-> NoSubnet]
NoNamespaces == [p \in Pod |-> {}]

\* Two subnets of four addresses each.  The pod's namespace belongs to s2; s1 is
\* the default it gets as long as s2 is not ready.
TwoCidrs == s1 :> [base |-> 0, total |-> 4] @@ s2 :> [base |-> 4, total |-> 4]
SecondNamespace == [p \in Pod |-> {s2}]

PodSymmetry == Permutations(Pod)
=============================================================================
