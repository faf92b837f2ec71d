------------------------- MODULE MCSubnetController -------------------------
(* A small instance of SubnetController.                                   *)
EXTENDS SubnetController, TLC

\* Two CIDRs of one address each; the third is too small for an allocator.
SmallPools == <<{1}, {2}, {}>>
=============================================================================
