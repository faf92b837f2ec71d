------------------------------- MODULE Bitmap -------------------------------
(***************************************************************************)
(* pkg/allocator/bitmap.go: the bitmap under every IP allocator.           *)
(*                                                                         *)
(* A bitmap is a value here, [size, bits, allocated]: bits is the set of   *)
(* the indices whose bit is 1 (the code packs them eight to a byte) and    *)
(* allocated is the separate counter the code keeps beside them.  Every    *)
(* method takes the bitmap's own mutex for its whole body, so each is one  *)
(* atomic operator: CanX is the condition under which X returns no error,  *)
(* X the bitmap it leaves.                                                 *)
(***************************************************************************)
EXTENDS Integers

\* The struct: its fields and the values they range over.
Bitmaps == [size : Nat, bits : SUBSET Nat, allocated : Int]

NewBitmap(size) == [size |-> size, bits |-> {}, allocated |-> 0]

\* The bounds check shared by Set, Clear and IsSet.
InRange(b, index) == 0 <= index /\ index < b.size

IsSet(b, index) == InRange(b, index) /\ index \in b.bits

\* Set fails on an index out of range and on a bit that is already 1.
CanSet(b, index) == InRange(b, index) /\ index \notin b.bits

Set(b, index) ==
  IF CanSet(b, index)
  THEN [b EXCEPT !.bits = @ \cup {index}, !.allocated = @ + 1]
  ELSE b

\* Mutation of Clear: the decrement escapes the "is it set" test.
ClearCountsTwice(b, index) ==
  IF InRange(b, index)
  THEN [b EXCEPT !.bits = @ \ {index}, !.allocated = @ - 1]
  ELSE b

\* Clear is idempotent: clearing a 0 bit is no error and changes nothing.
Clear(b, index) ==
  IF IsSet(b, index)
  THEN [b EXCEPT !.bits = @ \ {index}, !.allocated = @ - 1]
  ELSE b

ClearIndices(b) == {index \in 0 .. (b.size - 1) : index \notin b.bits}

\* The scan from 0 upwards; -1 when every bit is 1.
FindFirstClear(b) ==
  IF ClearIndices(b) = {}
  THEN -1
  ELSE CHOOSE i \in ClearIndices(b) : \A j \in ClearIndices(b) : i <= j

Allocated(b) == b.allocated
Available(b) == b.size - b.allocated
=============================================================================
