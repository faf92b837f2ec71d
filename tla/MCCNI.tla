-------------------------------- MODULE MCCNI --------------------------------
(* A small instance of CNI.                                                *)
EXTENDS CNI
=============================================================================
