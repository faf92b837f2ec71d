---------------------- MODULE MCSubnetAllocatorService ----------------------
(* A block of eight addresses (a /29) that does not start at 0, with a     *)
(* gateway, a one-address overlap with it and a range that leaves the      *)
(* subnet; four or so addresses remain to be handed out.                   *)
EXTENDS SubnetAllocatorService

MCCidr == [base |-> 8, total |-> 8]
MCExcludes == {[first |-> 9, last |-> 9], [first |-> 14, last |-> 17]}
=============================================================================
