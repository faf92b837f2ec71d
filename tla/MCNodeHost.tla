------------------------------ MODULE MCNodeHost -----------------------------
(* One interface that may be missing, two cluster CIDRs, two service CIDRs *)
(* and two addresses.                                                      *)
EXTENDS NodeHost
=============================================================================
