---------------------------- MODULE MCExcludeLoop ---------------------------
(* Blocks of four addresses and the whole space of eight, at the start, in *)
(* the middle and at the end of the address space.                         *)
EXTENDS ExcludeLoop

MCBlocks == {[base |-> 0, total |-> 4], [base |-> 4, total |-> 4],
             [base |-> 0, total |-> 8]}
=============================================================================
