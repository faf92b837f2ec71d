----------------------- MODULE SubnetAllocatorLemmas ------------------------
(***************************************************************************)
(* What the operators of Bitmap and SubnetAllocator return and preserve,   *)
(* for every block that NewSubnetAllocator accepts and every exclude list. *)
(***************************************************************************)
EXTENDS SubnetAllocator, FiniteSetTheorems, TLAPS

-----------------------------------------------------------------------------
(* Facts about blocks and about numbers.                                   *)

\* The numbers of a block, with the assumptions spelled out.
LEMMA CidrFacts ==
  ASSUME NEW c \in AllocatableCIDRs
  PROVE  /\ AddressSpace \in Nat \ {0}
         /\ c = [base |-> c.base, total |-> c.total]
         /\ c.base \in Nat /\ c.total \in Nat /\ c.total > 2
         /\ c.base + c.total <= AddressSpace
         /\ UsableIPs(c) = c.total - 2 /\ UsableIPs(c) \in Nat
BY AddressSpaceAssumption DEF AllocatableCIDRs, CIDRs, BigEnough, UsableIPs, Address

\* A nonempty set of natural numbers has a least element: what the upward
\* scan of FindFirstClear finds.
LEMMA LeastElement ==
  ASSUME NEW S \in SUBSET Nat, S # {}
  PROVE  \E i \in S : \A j \in S : i <= j
<1> DEFINE T == {0 .. i : i \in S}
<1>1. IsWellFoundedOn(StrictSubsetOrdering(Nat), FiniteSubsetsOf(Nat))
  BY FS_StrictSubsetOrderingWellFounded
<1>2. T \subseteq FiniteSubsetsOf(Nat)
  <2> SUFFICES ASSUME NEW i \in S PROVE 0 .. i \in FiniteSubsetsOf(Nat)
    OBVIOUS
  <2>1. IsFiniteSet(0 .. i)
    BY FS_Interval
  <2> QED BY <2>1 DEF FiniteSubsetsOf
<1>3. T # {}
  OBVIOUS
<1>4. \E x \in T : \A y \in T : <<y, x>> \notin StrictSubsetOrdering(Nat)
  <2> HIDE DEF T
  <2> QED BY <1>1, <1>2, <1>3, WFMin
<1>5. PICK i \in S : \A y \in T : <<y, 0 .. i>> \notin StrictSubsetOrdering(Nat)
  BY <1>4
<1>6. ASSUME NEW j \in S PROVE i <= j
  <2> SUFFICES ASSUME j < i PROVE FALSE
    BY DEF T
  <2>1. 0 .. j \subseteq 0 .. i /\ 0 .. j # 0 .. i
    <3>1. i \in 0 .. i /\ i \notin 0 .. j
      OBVIOUS
    <3> QED BY <3>1
  <2>2. 0 .. j \in T /\ 0 .. j \in SUBSET Nat /\ 0 .. i \in SUBSET Nat
    OBVIOUS
  <2> QED BY <1>5, <2>1, <2>2 DEF StrictSubsetOrdering
<1> QED BY <1>6

\* FindFirstClear returns the lowest clear index, or -1 when there is none.
LEMMA FindFirstClearIsLeast ==
  ASSUME NEW b, b.size \in Nat
  PROVE  \/ ClearIndices(b) = {} /\ FindFirstClear(b) = -1
         \/ /\ FindFirstClear(b) \in ClearIndices(b)
            /\ \A j \in ClearIndices(b) : FindFirstClear(b) <= j
<1>1. ClearIndices(b) \in SUBSET Nat
  BY DEF ClearIndices
<1>2. CASE ClearIndices(b) = {}
  BY <1>2 DEF FindFirstClear
<1>3. CASE ClearIndices(b) # {}
  <2>1. \E i \in ClearIndices(b) : \A j \in ClearIndices(b) : i <= j
    BY <1>1, <1>3, LeastElement
  <2> QED BY <1>3, <2>1 DEF FindFirstClear
<1> QED BY <1>2, <1>3

-----------------------------------------------------------------------------
(* Indices and addresses.                                                  *)

\* The addresses that have an index are the usable ones.
LEMMA HasIndexIffUsable ==
  ASSUME NEW c \in AllocatableCIDRs, NEW a, a.subnet = c, a.size = UsableIPs(c),
         NEW ip \in Int
  PROVE  /\ HasIndex(a, ip) <=> ip \in Usable(c)
         /\ ip \in Usable(c) => ipToIndex(a, ip) \in Indices(c)
BY CidrFacts DEF HasIndex, ipToIndex, Contains, Usable, Indices, UsableIPs

\* Usable addresses have different indices.
LEMMA IndexInjective ==
  ASSUME NEW c \in AllocatableCIDRs, NEW a, a.subnet = c, NEW ip \in Usable(c), NEW jp \in Usable(c),
         ipToIndex(a, ip) = ipToIndex(a, jp)
  PROVE  ip = jp
BY CidrFacts DEF ipToIndex, Usable

\* Usable addresses are addresses.
LEMMA UsableIsAddress ==
  ASSUME NEW c \in AllocatableCIDRs
  PROVE  Usable(c) \subseteq Address
BY CidrFacts DEF Usable, Address

\* indexToIP inverts ipToIndex; no wrap-around happens inside a subnet.
LEMMA IndexRoundTrip ==
  ASSUME NEW c \in AllocatableCIDRs, NEW a, a.subnet = c, NEW i \in Indices(c)
  PROVE  indexToIP(a, i) \in Usable(c) /\ ipToIndex(a, indexToIP(a, i)) = i
<1>1. c.base + i + 1 \in 0 .. (AddressSpace - 1)
  BY CidrFacts DEF Indices, UsableIPs
<1>2. (c.base + i + 1) % AddressSpace = c.base + i + 1
  BY <1>1, CidrFacts
<1> QED BY <1>2, CidrFacts DEF indexToIP, ipToIndex, Usable, Indices, UsableIPs

-----------------------------------------------------------------------------
(* What the operations do to an allocator of a block.                      *)

\* An allocator of the block whose counter is right.
Sound(c, a) == /\ a \in Allocators(c)
               /\ a.bitmap.allocated = Cardinality(a.bitmap.bits)

\* There are only finitely many bits to set.
LEMMA BitsAreFinite ==
  ASSUME NEW c \in AllocatableCIDRs, NEW bm \in BitmapsOf(c)
  PROVE  IsFiniteSet(bm.bits) /\ Cardinality(bm.bits) \in Nat
<1>1. bm.bits \in SUBSET Indices(c)
  BY DEF BitmapsOf
<1>2. IsFiniteSet(Indices(c))
  <2>1. UsableIPs(c) - 1 \in Int /\ 0 \in Int
    BY CidrFacts
  <2> QED BY <2>1, FS_Interval DEF Indices
<1>3. IsFiniteSet(bm.bits)
  BY <1>1, <1>2, FS_Subset
<1> QED BY <1>3, FS_CardinalityType

\* Setting a clear bit adds it and counts it.
LEMMA SetSound ==
  ASSUME NEW c \in AllocatableCIDRs, NEW a, Sound(c, a), NEW i \in Indices(c), i \notin a.bitmap.bits
  PROVE  LET b == [a EXCEPT !.bitmap = Set(@, i)] IN
         Sound(c, b) /\ b.excludeIPs = a.excludeIPs /\ b.bitmap.bits = a.bitmap.bits \cup {i}
<1> DEFINE bm == a.bitmap
<1>1. bm \in BitmapsOf(c) /\ a \in Allocators(c) /\ bm.allocated = Cardinality(bm.bits)
  BY DEF Sound, Allocators
<1>2. bm.size = UsableIPs(c) /\ bm.bits \subseteq Indices(c) /\ bm.allocated \in Int
  BY <1>1 DEF BitmapsOf
<1>3. Set(bm, i) = [bm EXCEPT !.bits = @ \cup {i}, !.allocated = @ + 1]
  BY <1>2, CidrFacts DEF Set, CanSet, InRange, Indices
<1>4. /\ Set(bm, i) \in BitmapsOf(c)
      /\ Set(bm, i).bits = bm.bits \cup {i}
      /\ Set(bm, i).allocated = bm.allocated + 1
  <2>1. bm.bits \cup {i} \in SUBSET Indices(c) /\ bm.allocated + 1 \in Int
    BY <1>2
  <2> DEFINE B == bm.bits \cup {i}
  <2> DEFINE n == bm.allocated + 1
  <2>2. Set(bm, i) = [bm EXCEPT !.bits = B, !.allocated = n]
    BY <1>3
  <2>3. B \in SUBSET Indices(c) /\ n \in Int
    BY <2>1
  <2> HIDE DEF B, n, bm
  <2>4. Set(bm, i) \in BitmapsOf(c) /\ Set(bm, i).bits = B /\ Set(bm, i).allocated = n
    BY <1>1, <2>2, <2>3 DEF BitmapsOf
  <2> QED BY <2>4 DEF B, n
<1>5. Cardinality(bm.bits \cup {i}) = Cardinality(bm.bits) + 1
  BY <1>1, BitsAreFinite, FS_AddElement
<1>6. Set(bm, i).allocated = Cardinality(Set(bm, i).bits)
  BY <1>1, <1>4, <1>5
<1> HIDE DEF bm
<1>7. LET b == [a EXCEPT !.bitmap = Set(bm, i)] IN
        Sound(c, b) /\ b.excludeIPs = a.excludeIPs /\ b.bitmap = Set(bm, i)
  BY <1>1, <1>4, <1>6 DEF Allocators, Sound
<1> QED BY <1>4, <1>7 DEF bm

\* Clearing a bit removes it, and counts it only if it was set.
LEMMA ClearSound ==
  ASSUME NEW c \in AllocatableCIDRs, NEW a, Sound(c, a), NEW i \in Indices(c)
  PROVE  LET b == [a EXCEPT !.bitmap = Clear(@, i)] IN
         Sound(c, b) /\ b.excludeIPs = a.excludeIPs /\ b.bitmap.bits = a.bitmap.bits \ {i}
<1> DEFINE bm == a.bitmap
<1>1. bm \in BitmapsOf(c) /\ a \in Allocators(c) /\ bm.allocated = Cardinality(bm.bits)
  BY DEF Sound, Allocators
<1>2. bm.size = UsableIPs(c) /\ bm.bits \subseteq Indices(c) /\ bm.allocated \in Int
  BY <1>1 DEF BitmapsOf
<1>3. IsSet(bm, i) <=> i \in bm.bits
  BY <1>2, CidrFacts DEF IsSet, InRange, Indices
<1>4. CASE i \in bm.bits
  <2>1. Clear(bm, i) = [bm EXCEPT !.bits = @ \ {i}, !.allocated = @ - 1]
    BY <1>3, <1>4 DEF Clear
  <2>2. /\ Clear(bm, i) \in BitmapsOf(c)
        /\ Clear(bm, i).bits = bm.bits \ {i}
        /\ Clear(bm, i).allocated = bm.allocated - 1
    <3>1. bm.bits \ {i} \in SUBSET Indices(c) /\ bm.allocated - 1 \in Int
      BY <1>2
    <3> DEFINE B == bm.bits \ {i}
    <3> DEFINE n == bm.allocated - 1
    <3>2. Clear(bm, i) = [bm EXCEPT !.bits = B, !.allocated = n]
      BY <2>1
    <3>3. B \in SUBSET Indices(c) /\ n \in Int
      BY <3>1
    <3> HIDE DEF B, n, bm
    <3>4. Clear(bm, i) \in BitmapsOf(c) /\ Clear(bm, i).bits = B /\ Clear(bm, i).allocated = n
      BY <1>1, <3>2, <3>3 DEF BitmapsOf
    <3> QED BY <3>4 DEF B, n
  <2>3. Cardinality(bm.bits \ {i}) = Cardinality(bm.bits) - 1
    BY <1>1, <1>4, BitsAreFinite, FS_RemoveElement
  <2>4. Clear(bm, i).allocated = Cardinality(Clear(bm, i).bits)
    BY <1>1, <2>2, <2>3
  <2> HIDE DEF bm
  <2>5. LET b == [a EXCEPT !.bitmap = Clear(bm, i)] IN
          Sound(c, b) /\ b.excludeIPs = a.excludeIPs /\ b.bitmap = Clear(bm, i)
    BY <1>1, <2>2, <2>4 DEF Allocators, Sound
  <2> QED BY <2>2, <2>5 DEF bm
<1>5. CASE i \notin bm.bits
  <2>1. Clear(bm, i) = bm /\ bm.bits \ {i} = bm.bits
    BY <1>3, <1>5 DEF Clear
  <2> HIDE DEF bm
  <2>2. [a EXCEPT !.bitmap = Clear(bm, i)] = a
    BY <1>1, <2>1 DEF bm, Allocators
  <2> QED BY <2>1, <2>2 DEF bm
<1> QED BY <1>4, <1>5

\* The next index is a clear one, and there is one unless all bits are set.
LEMMA NextIndexIsClear ==
  ASSUME NEW c \in AllocatableCIDRs, NEW a, Sound(c, a)
  PROVE  /\ ~ Exhausted(a) => NextIndex(a) \in Indices(c) \ a.bitmap.bits
         /\ Exhausted(a) => Indices(c) \subseteq a.bitmap.bits
<1>1. a.bitmap.size \in Nat /\ ClearIndices(a.bitmap) = Indices(c) \ a.bitmap.bits
  BY CidrFacts DEF Sound, Allocators, BitmapsOf, ClearIndices, Indices
<1>2. -1 \notin Indices(c)
  BY CidrFacts DEF Indices, UsableIPs
<1> QED BY <1>1, <1>2, FindFirstClearIsLeast DEF Exhausted, NextIndex

-----------------------------------------------------------------------------
(* The invariant of an allocator made from an exclude list.                *)

\* The usable addresses the exclude list names.
Named(c, xs) == {ip \in UNION {RangeIPs(spec) : spec \in xs} : ip \in Usable(c)}

\* The counter is right, the excluded addresses are those of the exclude
\* list, and their bits are set.
AllocInv(c, xs, a) ==
  /\ Sound(c, a)
  /\ a.excludeIPs = Named(c, xs)
  /\ \A ip \in Named(c, xs) : ipToIndex(a, ip) \in a.bitmap.bits

\* The constructor counts an address once however often it is listed.
LEMMA NewSubnetAllocatorSound ==
  ASSUME NEW c \in AllocatableCIDRs, NEW xs \in SUBSET ExcludeSpecs
  PROVE  LET a == NewSubnetAllocator(c, xs) IN
         AllocInv(c, xs, a) /\ a.bitmap.bits = {ipToIndex(a, ip) : ip \in Named(c, xs)}
<1> DEFINE e == EmptyAllocator(c)
<1> DEFINE bits == {ipToIndex(e, ip) : ip \in Named(c, xs)}
<1> DEFINE bm == [size |-> UsableIPs(c), bits |-> bits, allocated |-> Cardinality(Named(c, xs))]
<1>1. e.subnet = c /\ e.size = UsableIPs(c)
  BY DEF EmptyAllocator
<1>2. \A ip \in UNION {RangeIPs(spec) : spec \in xs} : ip \in Int
  BY DEF RangeIPs, Address
<1>3. Named(c, xs) = {ip \in UNION {RangeIPs(spec) : spec \in xs} : HasIndex(e, ip)}
  <2> HIDE DEF e
  <2> QED BY <1>1, <1>2, HasIndexIffUsable DEF Named
<1>4. Named(c, xs) \subseteq Usable(c) /\ IsFiniteSet(Named(c, xs))
  <2>1. Named(c, xs) \subseteq Usable(c)
    BY DEF Named
  <2>2. c.base + 1 \in Int /\ c.base + c.total - 2 \in Int
    BY CidrFacts
  <2>3. IsFiniteSet(Usable(c))
    BY <2>2, FS_Interval DEF Usable
  <2> QED BY <2>1, <2>3, FS_Subset
<1>5. bits \subseteq Indices(c)
  <2> HIDE DEF e
  <2> SUFFICES ASSUME NEW ip \in Named(c, xs) PROVE ipToIndex(e, ip) \in Indices(c)
    OBVIOUS
  <2> QED BY <1>1, <1>4, HasIndexIffUsable, UsableIsAddress DEF Address
<1>6. Cardinality(bits) = Cardinality(Named(c, xs))
  <2> DEFINE f == [ip \in Named(c, xs) |-> ipToIndex(e, ip)]
  <2>1. \A ip, jp \in Named(c, xs) : ipToIndex(e, ip) = ipToIndex(e, jp) => ip = jp
    <3> HIDE DEF e
    <3> QED BY <1>1, <1>4, IndexInjective
  <2>2. f \in Bijection(Named(c, xs), bits)
    <3> HIDE DEF e
    <3> QED BY <2>1 DEF Bijection, Injection, Surjection, IsInjective
  <2> QED BY <2>2, <1>4, FS_Bijection DEF ExistsBijection
<1>7. Cardinality(Named(c, xs)) \in Nat
  BY <1>4, FS_CardinalityType
<1>8. bm \in BitmapsOf(c) /\ bm.allocated = Cardinality(bm.bits) /\ bm.bits = bits
  <2> HIDE DEF bits
  <2> QED BY <1>5, <1>6, <1>7 DEF BitmapsOf
<1>9. NewSubnetAllocator(c, xs) = [e EXCEPT !.excludeIPs = Named(c, xs), !.bitmap = bm]
  BY <1>3 DEF NewSubnetAllocator
<1>10. NewSubnetAllocator(c, xs)
         = [subnet |-> c, size |-> UsableIPs(c), bitmap |-> bm, excludeIPs |-> Named(c, xs)]
  <2> HIDE DEF bm
  <2> QED BY <1>9 DEF EmptyAllocator
<1>11. \A ip \in Named(c, xs) : ipToIndex(NewSubnetAllocator(c, xs), ip) = ipToIndex(e, ip)
  <2> HIDE DEF bm
  <2> QED BY <1>1, <1>10 DEF ipToIndex
<1> HIDE DEF bm
<1>12. Sound(c, NewSubnetAllocator(c, xs))
  BY <1>4, <1>8, <1>10 DEF Sound, Allocators
<1>13. NewSubnetAllocator(c, xs).bitmap.bits = bits
  BY <1>8, <1>10
<1>14. bits = {ipToIndex(NewSubnetAllocator(c, xs), ip) : ip \in Named(c, xs)}
  BY <1>11
<1>15. NewSubnetAllocator(c, xs).excludeIPs = Named(c, xs)
  BY <1>10
<1> HIDE DEF bits
<1> QED BY <1>12, <1>13, <1>14, <1>15 DEF AllocInv

\* Whether an address is taken, in terms of the bits.
LEMMA TakenByBits ==
  ASSUME NEW c \in AllocatableCIDRs, NEW a, Sound(c, a), NEW ip \in Int
  PROVE  /\ IsAllocated(a, ip) <=> ip \in Usable(c) /\ ipToIndex(a, ip) \in a.bitmap.bits
         /\ CanAllocate(a, ip) <=> ip \in Usable(c) /\ ipToIndex(a, ip) \notin a.bitmap.bits
         /\ ip \in Address => (ip \in AllocatedIPs(a) <=> IsAllocated(a, ip))
<1>1. a.subnet = c /\ a.size = UsableIPs(c) /\ a.bitmap \in BitmapsOf(c)
  BY DEF Sound, Allocators
<1>2. HasIndex(a, ip) <=> ip \in Usable(c)
  BY <1>1, HasIndexIffUsable
<1>3. ip \in Usable(c) => (IsSet(a.bitmap, ipToIndex(a, ip)) <=> ipToIndex(a, ip) \in a.bitmap.bits)
  <2>1. ip \in Usable(c) => ipToIndex(a, ip) \in Indices(c)
    BY <1>1, HasIndexIffUsable
  <2>2. a.bitmap.size = UsableIPs(c)
    BY <1>1 DEF BitmapsOf
  <2> QED BY <2>1, <2>2, CidrFacts DEF IsSet, InRange, Indices
<1> QED BY <1>2, <1>3 DEF IsAllocated, CanAllocate, AllocatedIPs

\* The addresses in use are those free to hand out whose bit is set.
LEMMA HeldByBits ==
  ASSUME NEW c \in AllocatableCIDRs, NEW xs \in SUBSET ExcludeSpecs,
         NEW a, AllocInv(c, xs, a)
  PROVE  \A ip : ip \in Held(a) <=> ip \in Free(c, xs) /\ ipToIndex(a, ip) \in a.bitmap.bits
<1>1. \A ip : ip \in AllocatedIPs(a) <=> ip \in Usable(c) /\ ipToIndex(a, ip) \in a.bitmap.bits
  <2>1. \A ip : ip \in AllocatedIPs(a) => ip \in Address /\ ip \in Int
    BY DEF AllocatedIPs, Address
  <2>2. \A ip \in Address : ip \in AllocatedIPs(a)
               <=> ip \in Usable(c) /\ ipToIndex(a, ip) \in a.bitmap.bits
    BY TakenByBits DEF AllocInv, Address
  <2> QED BY <2>1, <2>2, UsableIsAddress
<1>2. \A ip \in Usable(c) : ip \in a.excludeIPs <=> ip \notin Free(c, xs)
  BY DEF AllocInv, Named, Free
<1> QED BY <1>1, <1>2 DEF Held, Free

\* Setting the bit of a free address takes that address and no other.
LEMMA HeldGrows ==
  ASSUME NEW c \in AllocatableCIDRs, NEW xs \in SUBSET ExcludeSpecs,
         NEW a, AllocInv(c, xs, a), NEW b, AllocInv(c, xs, b), NEW ip \in Free(c, xs),
         b.bitmap.bits = a.bitmap.bits \cup {ipToIndex(a, ip)}
  PROVE  Held(b) = Held(a) \cup {ip}
<1>1. a.subnet = c /\ b.subnet = c
  BY DEF AllocInv, Sound, Allocators
<1>2. \A jp : ipToIndex(b, jp) = ipToIndex(a, jp)
  BY <1>1 DEF ipToIndex
<1>3. \A jp \in Free(c, xs) : ipToIndex(a, jp) = ipToIndex(a, ip) => jp = ip
  BY <1>1, IndexInjective DEF Free
<1> QED BY <1>2, <1>3, HeldByBits

\* Clearing it gives back that address and no other.
LEMMA HeldShrinks ==
  ASSUME NEW c \in AllocatableCIDRs, NEW xs \in SUBSET ExcludeSpecs,
         NEW a, AllocInv(c, xs, a), NEW b, AllocInv(c, xs, b), NEW ip \in Free(c, xs),
         b.bitmap.bits = a.bitmap.bits \ {ipToIndex(a, ip)}
  PROVE  Held(b) = Held(a) \ {ip}
<1>1. a.subnet = c /\ b.subnet = c
  BY DEF AllocInv, Sound, Allocators
<1>2. \A jp : ipToIndex(b, jp) = ipToIndex(a, jp)
  BY <1>1 DEF ipToIndex
<1>3. \A jp \in Free(c, xs) : ipToIndex(a, jp) = ipToIndex(a, ip) => jp = ip
  BY <1>1, IndexInjective DEF Free
<1> QED BY <1>2, <1>3, HeldByBits

-----------------------------------------------------------------------------
(* The operations in terms of the addresses in use.                        *)

\* AllocateNext grants a free address that nobody uses.
LEMMA AllocateNextGrants ==
  ASSUME NEW c \in AllocatableCIDRs, NEW xs \in SUBSET ExcludeSpecs,
         NEW a, AllocInv(c, xs, a), ~ Exhausted(a)
  PROVE  /\ AllocInv(c, xs, AllocateNext(a))
         /\ NextIP(a) \in Free(c, xs) \ Held(a)
         /\ Held(AllocateNext(a)) = Held(a) \cup {NextIP(a)}
<1> DEFINE i == NextIndex(a)
<1> DEFINE b == AllocateNext(a)
<1>1. Sound(c, a) /\ a.subnet = c
  BY DEF AllocInv, Sound, Allocators
<1>2. i \in Indices(c) /\ i \notin a.bitmap.bits
  BY <1>1, NextIndexIsClear
<1>3. b = [a EXCEPT !.bitmap = Set(@, i)]
  BY DEF AllocateNext
<1>4. NextIP(a) \in Usable(c) /\ ipToIndex(a, NextIP(a)) = i
  BY <1>1, <1>2, IndexRoundTrip DEF NextIP
<1> HIDE DEF i, b
<1>5. Sound(c, b) /\ b.excludeIPs = a.excludeIPs /\ b.bitmap.bits = a.bitmap.bits \cup {i}
  BY <1>1, <1>2, <1>3, SetSound
<1>6. b.subnet = c
  BY <1>5 DEF Sound, Allocators
<1>7. AllocInv(c, xs, b)
  BY <1>1, <1>5, <1>6 DEF AllocInv, ipToIndex
<1>8. NextIP(a) \in Free(c, xs) /\ NextIP(a) \notin Held(a)
  <2>1. NextIP(a) \notin Named(c, xs)
    BY <1>2, <1>4 DEF AllocInv
  <2> QED BY <1>2, <1>4, <2>1, HeldByBits DEF Named, Free
<1>9. Held(b) = Held(a) \cup {NextIP(a)}
  BY <1>4, <1>5, <1>7, <1>8, HeldGrows
<1> QED BY <1>7, <1>8, <1>9 DEF b

\* It finds none only when every address to hand out is in use.
LEMMA ExhaustedMeansFull ==
  ASSUME NEW c \in AllocatableCIDRs, NEW xs \in SUBSET ExcludeSpecs,
         NEW a, AllocInv(c, xs, a), Exhausted(a)
  PROVE  Free(c, xs) \subseteq Held(a)
<1>1. Sound(c, a) /\ a.subnet = c /\ a.size = UsableIPs(c)
  BY DEF AllocInv, Sound, Allocators
<1>2. Indices(c) \subseteq a.bitmap.bits
  BY <1>1, NextIndexIsClear
<1>3. \A ip \in Usable(c) : ip \in Int /\ ipToIndex(a, ip) \in Indices(c)
  BY <1>1, HasIndexIffUsable, UsableIsAddress DEF Address
<1> QED BY <1>2, <1>3, HeldByBits DEF Free

\* Allocate grants the address asked for just when it is free and unused.
LEMMA AllocateGrants ==
  ASSUME NEW c \in AllocatableCIDRs, NEW xs \in SUBSET ExcludeSpecs,
         NEW a, AllocInv(c, xs, a), NEW ip \in Int
  PROVE  /\ CanAllocate(a, ip) <=> ip \in Free(c, xs) \ Held(a)
         /\ CanAllocate(a, ip) => /\ AllocInv(c, xs, Allocate(a, ip))
                                  /\ Held(Allocate(a, ip)) = Held(a) \cup {ip}
<1> DEFINE i == ipToIndex(a, ip)
<1> DEFINE b == Allocate(a, ip)
<1>1. Sound(c, a) /\ a.subnet = c /\ a.size = UsableIPs(c)
  BY DEF AllocInv, Sound, Allocators
<1>2. CanAllocate(a, ip) <=> ip \in Usable(c) /\ i \notin a.bitmap.bits
  BY <1>1, TakenByBits
<1>3. CanAllocate(a, ip) <=> ip \in Free(c, xs) \ Held(a)
  BY <1>2, HeldByBits DEF AllocInv, Named, Free
<1>4. ASSUME CanAllocate(a, ip) PROVE AllocInv(c, xs, b) /\ Held(b) = Held(a) \cup {ip}
  <2>1. i \in Indices(c) /\ i \notin a.bitmap.bits
    BY <1>1, <1>2, <1>4, HasIndexIffUsable
  <2>2. b = [a EXCEPT !.bitmap = Set(@, i)]
    BY DEF Allocate
  <2>3. Sound(c, b) /\ b.excludeIPs = a.excludeIPs /\ b.bitmap.bits = a.bitmap.bits \cup {i}
    <3> HIDE DEF i, b
    <3> QED BY <1>1, <2>1, <2>2, SetSound
  <2> HIDE DEF b
  <2>4. b.subnet = c
    BY <2>3 DEF Sound, Allocators
  <2>5. AllocInv(c, xs, b)
    BY <1>1, <2>3, <2>4 DEF AllocInv, ipToIndex
  <2> QED BY <1>3, <1>4, <2>3, <2>5, HeldGrows
<1> QED BY <1>3, <1>4

\* Release gives back the address, unless it is excluded or outside; the
\* bit of another address is out of its reach, as indices are unique.
LEMMA ReleaseGivesBack ==
  ASSUME NEW c \in AllocatableCIDRs, NEW xs \in SUBSET ExcludeSpecs,
         NEW a, AllocInv(c, xs, a), NEW ip \in Int
  PROVE  /\ CanRelease(a, ip) <=> ip \in Free(c, xs)
         /\ AllocInv(c, xs, Release(a, ip))
         /\ Held(Release(a, ip)) = Held(a) \ {ip}
<1> DEFINE i == ipToIndex(a, ip)
<1> DEFINE b == Release(a, ip)
<1>1. Sound(c, a) /\ a.subnet = c /\ a.size = UsableIPs(c)
  BY DEF AllocInv, Sound, Allocators
<1>2. CanRelease(a, ip) <=> ip \in Free(c, xs)
  BY <1>1, HasIndexIffUsable DEF CanRelease, AllocInv, Named, Free
<1>3. CASE ~ CanRelease(a, ip)
  <2>1. Release(a, ip) = a
    BY <1>3 DEF Release
  <2>2. ip \notin Held(a)
    BY <1>2, <1>3, HeldByBits
  <2> QED BY <1>2, <2>1, <2>2
<1>4. CASE CanRelease(a, ip)
  <2>1. ip \in Free(c, xs) /\ ip \in Usable(c) /\ ip \notin Named(c, xs) /\ i \in Indices(c)
    BY <1>1, <1>2, <1>4, HasIndexIffUsable DEF Free, Named
  <2>2. b = [a EXCEPT !.bitmap = Clear(@, i)]
    BY <1>4 DEF Release
  <2>3. \A jp \in Named(c, xs) : ipToIndex(a, jp) # i
    BY <1>1, <2>1, IndexInjective DEF Named
  <2>4. Sound(c, b) /\ b.excludeIPs = a.excludeIPs /\ b.bitmap.bits = a.bitmap.bits \ {i}
    <3> HIDE DEF i, b
    <3> QED BY <1>1, <2>1, <2>2, ClearSound
  <2> HIDE DEF b
  <2>5. b.subnet = c
    BY <2>4 DEF Sound, Allocators
  <2>6. AllocInv(c, xs, b)
    <3> HIDE DEF i
    <3> QED BY <1>1, <2>3, <2>4, <2>5 DEF AllocInv, ipToIndex
  <2>7. Held(b) = Held(a) \ {ip}
    BY <2>1, <2>4, <2>6, HeldShrinks
  <2> QED BY <1>2, <2>6, <2>7 DEF b
<1> QED BY <1>3, <1>4

\* Nobody uses an address of a new allocator.
LEMMA NewIsEmpty ==
  ASSUME NEW c \in AllocatableCIDRs, NEW xs \in SUBSET ExcludeSpecs
  PROVE  Held(NewSubnetAllocator(c, xs)) = {}
<1> DEFINE a == NewSubnetAllocator(c, xs)
<1>1. AllocInv(c, xs, a) /\ a.bitmap.bits = {ipToIndex(a, ip) : ip \in Named(c, xs)}
  BY NewSubnetAllocatorSound
<1> HIDE DEF a
<1>2. a.subnet = c
  BY <1>1 DEF AllocInv, Sound, Allocators
<1>3. ASSUME NEW ip \in Held(a) PROVE FALSE
  <2>1. ip \in Free(c, xs) /\ ipToIndex(a, ip) \in a.bitmap.bits
    BY <1>1, <1>3, HeldByBits
  <2>2. PICK jp \in Named(c, xs) : ipToIndex(a, jp) = ipToIndex(a, ip)
    BY <1>1, <2>1
  <2>3. jp = ip
    BY <1>2, <2>1, <2>2, IndexInjective DEF Named, Free
  <2> QED BY <2>1, <2>3 DEF Named, Free
<1> QED BY <1>3 DEF a
=============================================================================
