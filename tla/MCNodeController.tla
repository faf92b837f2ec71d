-------------------------- MODULE MCNodeController ---------------------------
(* Up to two agents and two nodes, four node subnets.                       *)
EXTENDS NodeController

CONSTANTS a1, a2, n1, n2
=============================================================================
