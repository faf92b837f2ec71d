----------------------- MODULE SubnetAllocatorProofs ------------------------
(***************************************************************************)
(* Proofs about an allocator: that SubnetAllocatorService is a pool, for   *)
(* every subnet, exclude list and order of calls, and that ExcludeLoop     *)
(* constructs it, for every exclude list and address space.                *)
(***************************************************************************)
EXTENDS SubnetAllocatorService, ExcludeLoop, SubnetAllocatorLemmas

\* CounterAccurate and ExcludedStaysTaken are inductive together with the
\* type and with the fact that the exclude set stays that of the exclude list.
Inv ==
  /\ AllocInv(Cidr, Excludes, alloc)
  /\ reply \in [kind : {"none", "granted", "refused", "released", "exhausted"},
                ip : Address]

\* The module's constants as the lemmas want them.
LEMMA Constants == Cidr \in AllocatableCIDRs /\ Excludes \in SUBSET ExcludeSpecs
BY ServiceAssumption

\* Addresses that can be handed out are addresses.
LEMMA FreeIsAddress == Free(Cidr, Excludes) \subseteq Address
BY Constants, UsableIsAddress DEF Free

\* A new allocator is sound.
LEMMA InitInv == Init => Inv
<1> SUFFICES ASSUME Init PROVE Inv
  OBVIOUS
<1>1. AllocInv(Cidr, Excludes, alloc)
  BY Constants, NewSubnetAllocatorSound DEF Init
<1>2. 0 \in Address
  BY AddressSpaceAssumption DEF Address
<1> QED BY <1>1, <1>2 DEF Init, Inv, Answer

-----------------------------------------------------------------------------
(* Each call keeps the invariant and is a step of the abstract pool.       *)

\* AllocateNext keeps the invariant and is an Acquire of the pool.
LEMMA AllocateNextStep ==
  ASSUME Inv, CallAllocateNext
  PROVE  Inv' /\ Pool!Acquire
<1>1. AllocInv(Cidr, Excludes, alloc)
  BY DEF Inv
<1>2. CASE Exhausted(alloc)
  <2>1. alloc' = alloc /\ reply' = Answer("exhausted", 0)
    BY <1>2 DEF CallAllocateNext
  <2>2. Free(Cidr, Excludes) \subseteq Held(alloc)
    BY <1>1, <1>2, Constants, ExhaustedMeansFull
  <2>3. 0 \in Address
    BY AddressSpaceAssumption DEF Address
  <2> QED BY <1>1, <2>1, <2>2, <2>3 DEF Inv, Answer, Pool!Acquire, Pool!Answer
<1>3. CASE ~ Exhausted(alloc)
  <2>1. alloc' = AllocateNext(alloc) /\ reply' = Answer("granted", NextIP(alloc))
    BY <1>3 DEF CallAllocateNext
  <2>2. /\ AllocInv(Cidr, Excludes, alloc')
        /\ NextIP(alloc) \in Free(Cidr, Excludes) \ Held(alloc)
        /\ Held(alloc') = Held(alloc) \cup {NextIP(alloc)}
    BY <1>1, <1>3, <2>1, Constants, AllocateNextGrants
  <2>3. NextIP(alloc) \in Address
    BY <2>2, FreeIsAddress
  <2> QED BY <2>1, <2>2, <2>3 DEF Inv, Answer, Pool!Acquire, Pool!Answer
<1> QED BY <1>2, <1>3

\* Allocate keeps the invariant and is a Claim of the pool.
LEMMA AllocateStep ==
  ASSUME Inv, NEW ip \in Address, CallAllocate(ip)
  PROVE  Inv' /\ Pool!Claim(ip)
<1>1. AllocInv(Cidr, Excludes, alloc) /\ ip \in Int
  BY DEF Inv, Address
<1>2. CanAllocate(alloc, ip) <=> ip \in Free(Cidr, Excludes) \ Held(alloc)
  BY <1>1, Constants, AllocateGrants
<1>3. CASE CanAllocate(alloc, ip)
  <2>1. alloc' = Allocate(alloc, ip) /\ reply' = Answer("granted", ip)
    BY <1>3 DEF CallAllocate
  <2>2. AllocInv(Cidr, Excludes, alloc') /\ Held(alloc') = Held(alloc) \cup {ip}
    BY <1>1, <1>3, <2>1, Constants, AllocateGrants
  <2> QED BY <1>2, <1>3, <2>1, <2>2 DEF Inv, Answer, Pool!Claim, Pool!Answer
<1>4. CASE ~ CanAllocate(alloc, ip)
  <2>1. alloc' = alloc /\ reply' = Answer("refused", ip)
    BY <1>4 DEF CallAllocate
  <2> QED BY <1>1, <1>2, <1>4, <2>1 DEF Inv, Answer, Pool!Claim, Pool!Answer
<1> QED BY <1>3, <1>4

\* Release keeps the invariant and is a Return to the pool.
LEMMA ReleaseStep ==
  ASSUME Inv, NEW ip \in Address, CallRelease(ip)
  PROVE  Inv' /\ Pool!Return(ip)
<1>1. AllocInv(Cidr, Excludes, alloc) /\ ip \in Int
  BY DEF Inv, Address
<1>2. CanRelease(alloc, ip) <=> ip \in Free(Cidr, Excludes)
  BY <1>1, Constants, ReleaseGivesBack
<1>3. CASE CanRelease(alloc, ip)
  <2>1. alloc' = Release(alloc, ip) /\ reply' = Answer("released", ip)
    BY <1>3 DEF CallRelease
  <2>2. AllocInv(Cidr, Excludes, alloc') /\ Held(alloc') = Held(alloc) \ {ip}
    BY <1>1, <2>1, Constants, ReleaseGivesBack
  <2> QED BY <1>2, <1>3, <2>1, <2>2 DEF Inv, Answer, Pool!Return, Pool!Answer
<1>4. CASE ~ CanRelease(alloc, ip)
  <2>1. alloc' = alloc /\ reply' = Answer("refused", ip)
    BY <1>4 DEF CallRelease
  <2> QED BY <1>1, <1>2, <1>4, <2>1 DEF Inv, Answer, Pool!Return, Pool!Answer
<1> QED BY <1>3, <1>4

\* Every call keeps the invariant and is a step of the pool.
LEMMA NextStep ==
  ASSUME Inv, [Next]_vars
  PROVE  Inv' /\ [Pool!PoolNext]_Pool!poolVars
<1>1. CASE CallAllocateNext
  BY <1>1, AllocateNextStep DEF Pool!PoolNext
<1>2. ASSUME NEW ip \in Address, CallAllocate(ip)
      PROVE  Inv' /\ [Pool!PoolNext]_Pool!poolVars
  BY <1>2, AllocateStep DEF Pool!PoolNext
<1>3. ASSUME NEW ip \in Address, CallRelease(ip)
      PROVE  Inv' /\ [Pool!PoolNext]_Pool!poolVars
  BY <1>3, ReleaseStep DEF Pool!PoolNext
<1>4. CASE UNCHANGED vars
  BY <1>4 DEF vars, Inv, Pool!poolVars
<1> QED BY <1>1, <1>2, <1>3, <1>4 DEF Next

-----------------------------------------------------------------------------
(* The theorems.                                                           *)

\* The invariant holds through every sequence of calls.
THEOREM Invariance == Spec => []Inv
<1>1. Inv /\ [Next]_vars => Inv'
  BY NextStep
<1> QED BY InitInv, <1>1, PTL DEF Spec

\* The bits, sizes, exclude set and answers always fit the subnet.
THEOREM TypeCorrect == Spec => []TypeOK
<1>1. Inv => TypeOK
  BY DEF Inv, AllocInv, Sound, TypeOK
<1> QED BY <1>1, Invariance, PTL

\* The counter agrees with the bits after every sequence of calls.
THEOREM CounterTheorem == Spec => []CounterAccurate
<1>1. Inv => CounterAccurate
  BY DEF Inv, AllocInv, Sound, CounterAccurate
<1> QED BY <1>1, Invariance, PTL

\* No sequence of calls frees an excluded address.
THEOREM ExcludedTheorem == Spec => []ExcludedStaysTaken
<1>1. Inv => ExcludedStaysTaken
  <2> SUFFICES ASSUME Inv, NEW ip \in alloc.excludeIPs PROVE IsAllocated(alloc, ip)
    BY DEF ExcludedStaysTaken
  <2>1. Sound(Cidr, alloc) /\ ip \in Usable(Cidr) /\ ipToIndex(alloc, ip) \in alloc.bitmap.bits
    BY DEF Inv, AllocInv, Named
  <2>2. ip \in Int
    BY <2>1, Constants, UsableIsAddress DEF Address
  <2> QED BY <2>1, <2>2, Constants, TakenByBits
<1> QED BY <1>1, Invariance, PTL

\* The bitmap allocator implements the abstract pool of free addresses.
THEOREM Refinement == Spec => ImplementsPool
<1>1. Init => Pool!PoolInit
  BY Constants, NewIsEmpty DEF Init, Answer, Pool!PoolInit, Pool!Answer
<1>2. Inv /\ [Next]_vars => [Pool!PoolNext]_Pool!poolVars
  BY NextStep
<1> QED BY <1>1, <1>2, Invariance, PTL DEF Spec, ImplementsPool, Pool!PoolSpec

-----------------------------------------------------------------------------
(* The loop of the constructor.  It visits the addresses of a range one    *)
(* after the other, round the end of the address space if need be.         *)

\* How far the loop is at an address, counted from the first of its range.
Distance(from, ip) == (ip - from) % AddressSpace

\* The addresses visited on the way to one.
Walked(from, ip) == {jp \in Address : Distance(from, jp) < Distance(from, ip)}

\* Remainders of numbers that are off by one turn of the address space.
LEMMA OneTurn ==
  ASSUME NEW n \in Nat \ {0}, NEW x \in Int, -n < x, x < 2 * n
  PROVE  x % n = IF x < 0 THEN x + n ELSE IF x < n THEN x ELSE x - n
<1>1. CASE x < 0
  BY <1>1
<1>2. CASE 0 <= x /\ x < n
  BY <1>2
<1>3. CASE n <= x
  BY <1>3
<1> QED BY <1>1, <1>2, <1>3

\* Distances are less than a turn, and no two addresses are equally far.
LEMMA DistanceFacts ==
  ASSUME NEW from \in Address, NEW ip \in Address
  PROVE  /\ Distance(from, ip) = IF ip < from THEN ip - from + AddressSpace ELSE ip - from
         /\ Distance(from, ip) \in 0 .. (AddressSpace - 1)
<1>1. AddressSpace \in Nat \ {0} /\ from \in 0 .. (AddressSpace - 1) /\ ip \in 0 .. (AddressSpace - 1)
  BY AddressSpaceAssumption DEF Address
<1>2. Distance(from, ip) = IF ip < from THEN ip - from + AddressSpace ELSE ip - from
  <2> DEFINE x == ip - from
  <2>1. x \in Int /\ -AddressSpace < x /\ x < AddressSpace /\ x < 2 * AddressSpace /\ (x < 0 <=> ip < from)
    BY <1>1
  <2>2. Distance(from, ip) = x % AddressSpace
    BY DEF Distance
  <2> HIDE DEF x
  <2>3. x % AddressSpace = IF x < 0 THEN x + AddressSpace ELSE x
    BY <1>1, <2>1, OneTurn
  <2> QED BY <2>1, <2>2, <2>3 DEF x
<1> QED BY <1>1, <1>2

\* incrementIP moves on by one and from the last address to the first.
LEMMA IncrementFacts ==
  ASSUME NEW ip \in Address
  PROVE  /\ incrementIP(ip) = IF ip = AddressSpace - 1 THEN 0 ELSE ip + 1
         /\ incrementIP(ip) \in Address
<1>1. AddressSpace \in Nat \ {0} /\ ip \in 0 .. (AddressSpace - 1)
  BY AddressSpaceAssumption DEF Address
<1> DEFINE x == ip + 1
<1>2. x \in Int /\ 0 <= x /\ -AddressSpace < x /\ x <= AddressSpace /\ x < 2 * AddressSpace
  BY <1>1
<1>3. incrementIP(ip) = x % AddressSpace
  BY DEF incrementIP
<1> HIDE DEF x
<1>4. x % AddressSpace
        = IF x < 0 THEN x + AddressSpace ELSE IF x < AddressSpace THEN x ELSE x - AddressSpace
  BY <1>1, <1>2, OneTurn
<1>5. x = ip + 1
  BY DEF x
<1> QED BY <1>1, <1>2, <1>3, <1>4, <1>5 DEF Address

\* A range is what the loop walks up to the address at which it stops.
LEMMA RangeIsWalked ==
  ASSUME NEW spec \in ExcludeSpecs
  PROVE  /\ StopAt(spec) \in Address
         /\ RangeIPs(spec) = Walked(spec.first, StopAt(spec))
<1>1. spec.first \in Address /\ spec.last \in Address
  BY DEF ExcludeSpecs
<1>2. /\ AddressSpace \in Nat \ {0}
      /\ spec.first \in 0 .. (AddressSpace - 1) /\ spec.last \in 0 .. (AddressSpace - 1)
  BY <1>1, AddressSpaceAssumption DEF Address
<1>3. /\ StopAt(spec) = IF spec.last = AddressSpace - 1 THEN 0 ELSE spec.last + 1
      /\ StopAt(spec) \in Address
  BY <1>1, IncrementFacts DEF StopAt
<1> DEFINE x == spec.last + 1 - spec.first
<1>4. x \in Int /\ -AddressSpace < x /\ x < 2 * AddressSpace
  BY <1>2
<1>5. (spec.last + 1 - spec.first) % AddressSpace
        = IF x < 0 THEN x + AddressSpace ELSE IF x < AddressSpace THEN x ELSE x - AddressSpace
  <2>1. x % AddressSpace
          = IF x < 0 THEN x + AddressSpace ELSE IF x < AddressSpace THEN x ELSE x - AddressSpace
    <3> HIDE DEF x
    <3> QED BY <1>2, <1>4, OneTurn
  <2> QED BY <2>1
<1>6. Distance(spec.first, StopAt(spec)) = (spec.last + 1 - spec.first) % AddressSpace
  BY <1>1, <1>2, <1>3, <1>5, DistanceFacts
<1> QED BY <1>3, <1>6 DEF RangeIPs, Walked, Distance

\* The next address is one further, unless the walk has come full circle.
LEMMA WalkGrows ==
  ASSUME NEW from \in Address, NEW stop \in Address, NEW ip \in Address,
         Distance(from, ip) <= Distance(from, stop), ip # stop
  PROVE  /\ Distance(from, incrementIP(ip)) = Distance(from, ip) + 1
         /\ Distance(from, incrementIP(ip)) <= Distance(from, stop)
         /\ Walked(from, incrementIP(ip)) = Walked(from, ip) \cup {ip}
<1>1. /\ AddressSpace \in Nat \ {0} /\ from \in 0 .. (AddressSpace - 1)
      /\ ip \in 0 .. (AddressSpace - 1) /\ stop \in 0 .. (AddressSpace - 1)
  BY AddressSpaceAssumption DEF Address
<1>2. Distance(from, ip) < Distance(from, stop)
  BY <1>1, DistanceFacts
<1>3. Distance(from, incrementIP(ip)) = Distance(from, ip) + 1
  BY <1>1, <1>2, DistanceFacts, IncrementFacts
<1>4. \A jp \in Address : Distance(from, jp) < Distance(from, ip) + 1
                            <=> Distance(from, jp) < Distance(from, ip) \/ jp = ip
  <2> SUFFICES ASSUME NEW jp \in Address
               PROVE  Distance(from, jp) < Distance(from, ip) + 1
                        <=> Distance(from, jp) < Distance(from, ip) \/ jp = ip
    OBVIOUS
  <2>1. /\ Distance(from, ip) = IF ip < from THEN ip - from + AddressSpace ELSE ip - from
        /\ Distance(from, jp) = IF jp < from THEN jp - from + AddressSpace ELSE jp - from
    BY DistanceFacts
  <2>2. jp \in 0 .. (AddressSpace - 1)
    BY DEF Address
  <2> QED BY <1>1, <2>1, <2>2
<1>5. /\ Distance(from, ip) \in Int /\ Distance(from, stop) \in Int
      /\ Distance(from, ip) + 1 <= Distance(from, stop)
  BY <1>1, <1>2, DistanceFacts
<1>6. Walked(from, incrementIP(ip)) = Walked(from, ip) \cup {ip}
  BY <1>3, <1>4 DEF Walked
<1> QED BY <1>3, <1>5, <1>6

-----------------------------------------------------------------------------
(* What excludeIP has made of an allocator after a set of addresses.       *)

\* The allocator after the addresses of V, in whatever order and however
\* often each.
Excluded(c, V, a) ==
  /\ Sound(c, a)
  /\ a.excludeIPs = V \cap Usable(c)
  /\ a.bitmap.bits = {ip - c.base - 1 : ip \in V \cap Usable(c)}

\* A new allocator has nothing excluded.
LEMMA NothingExcluded ==
  ASSUME NEW c \in AllocatableCIDRs
  PROVE  Excluded(c, {}, EmptyAllocator(c))
<1>1. UsableIPs(c) \in Nat /\ Cardinality({}) = 0
  BY CidrFacts, FS_EmptySet
<1> QED BY <1>1 DEF Excluded, Sound, EmptyAllocator, Allocators, BitmapsOf, NewBitmap

\* excludeIP adds its address, whether it is usable, excluded already, or
\* neither.
LEMMA ExcludeAdds ==
  ASSUME NEW c \in AllocatableCIDRs, NEW V, NEW a, Excluded(c, V, a), NEW ip \in Address
  PROVE  Excluded(c, V \cup {ip}, excludeIP(a, ip))
<1>1. ip \in Int /\ Sound(c, a) /\ a.subnet = c /\ a.size = UsableIPs(c) /\ a.bitmap \in BitmapsOf(c)
  BY DEF Address, Excluded, Sound, Allocators
<1>2. HasIndex(a, ip) <=> ip \in Usable(c)
  BY <1>1, HasIndexIffUsable
<1>3. CASE ip \notin Usable(c)
  BY <1>2, <1>3 DEF excludeIP, Excluded
<1>4. CASE ip \in Usable(c)
  <2> DEFINE i == ip - c.base - 1
  <2> DEFINE U == V \cap Usable(c)
  <2> DEFINE W == (V \cup {ip}) \cap Usable(c)
  <2>1. ipToIndex(a, ip) = i /\ i \in Indices(c)
    BY <1>1, <1>4, HasIndexIffUsable DEF ipToIndex
  <2>2. W = U \cup {ip} /\ {jp - c.base - 1 : jp \in W} = {jp - c.base - 1 : jp \in U} \cup {i}
    BY <1>4
  <2>3. excludeIP(a, ip) = [a EXCEPT !.excludeIPs = @ \cup {ip}, !.bitmap = Set(@, i)]
    BY <1>2, <1>4, <2>1 DEF excludeIP
  <2>4. a.excludeIPs = U /\ a.bitmap.bits = {jp - c.base - 1 : jp \in U}
    BY DEF Excluded
  <2> HIDE DEF i
  <2>5. /\ Set(a.bitmap, i) \in BitmapsOf(c)
        /\ Set(a.bitmap, i).bits = a.bitmap.bits \cup {i}
        /\ Set(a.bitmap, i).allocated = Cardinality(Set(a.bitmap, i).bits)
    <3>1. CASE i \in a.bitmap.bits
      <4>1. Set(a.bitmap, i) = a.bitmap
        BY <3>1 DEF Set, CanSet
      <4> QED BY <1>1, <3>1, <4>1 DEF Sound
    <3>2. CASE i \notin a.bitmap.bits
      <4> DEFINE b == [a EXCEPT !.bitmap = Set(@, i)]
      <4>1. Sound(c, b) /\ b.bitmap.bits = a.bitmap.bits \cup {i}
        BY <1>1, <2>1, <3>2, SetSound
      <4>2. b.bitmap = Set(a.bitmap, i)
        BY <1>1 DEF Sound, Allocators
      <4> QED BY <4>1, <4>2 DEF Sound, Allocators
    <3> QED BY <3>1, <3>2
  <2>6. a.excludeIPs \cup {ip} \in SUBSET Usable(c) /\ a.excludeIPs \cup {ip} = W
    BY <1>4, <2>2, <2>4
  <2>7. /\ excludeIP(a, ip) \in Allocators(c)
        /\ excludeIP(a, ip).excludeIPs = W /\ excludeIP(a, ip).bitmap = Set(a.bitmap, i)
    <3> DEFINE x == a.excludeIPs \cup {ip}
    <3> DEFINE b == Set(a.bitmap, i)
    <3>1. excludeIP(a, ip) = [a EXCEPT !.excludeIPs = x, !.bitmap = b]
      BY <2>3
    <3>2. x \in SUBSET Usable(c) /\ b \in BitmapsOf(c) /\ x = W
      BY <2>5, <2>6
    <3> HIDE DEF x, b, W
    <3>3. /\ excludeIP(a, ip) \in Allocators(c)
          /\ excludeIP(a, ip).excludeIPs = x /\ excludeIP(a, ip).bitmap = b
      BY <1>1, <3>1, <3>2 DEF Sound, Allocators
    <3> QED BY <3>2, <3>3 DEF b
  <2>8. Sound(c, excludeIP(a, ip))
    BY <2>5, <2>7 DEF Sound
  <2> QED BY <2>2, <2>4, <2>5, <2>7, <2>8 DEF Excluded
<1> QED BY <1>3, <1>4

\* The closed form is the allocator after the addresses of its ranges.
LEMMA ClosedFormExcludes ==
  ASSUME NEW c \in AllocatableCIDRs, NEW xs \in SUBSET ExcludeSpecs, NEW a,
         Excluded(c, UNION {RangeIPs(spec) : spec \in xs}, a)
  PROVE  a = NewSubnetAllocator(c, xs)
<1> DEFINE n == NewSubnetAllocator(c, xs)
<1>1. AllocInv(c, xs, n) /\ n.bitmap.bits = {ipToIndex(n, ip) : ip \in Named(c, xs)}
  BY NewSubnetAllocatorSound
<1> HIDE DEF n
<1>2. Named(c, xs) = (UNION {RangeIPs(spec) : spec \in xs}) \cap Usable(c)
  BY DEF Named
<1>3. Sound(c, n) /\ n.subnet = c /\ n.excludeIPs = Named(c, xs)
  BY <1>1 DEF AllocInv, Sound, Allocators
<1>4. n.bitmap.bits = {ip - c.base - 1 : ip \in Named(c, xs)}
  BY <1>1, <1>3 DEF ipToIndex
<1>5. Sound(c, a) /\ a.excludeIPs = n.excludeIPs /\ a.bitmap.bits = n.bitmap.bits
  <2> DEFINE V == UNION {RangeIPs(spec) : spec \in xs}
  <2>1. Excluded(c, V, a) /\ Named(c, xs) = V \cap Usable(c)
    BY <1>2
  <2> HIDE DEF V
  <2> QED BY <1>3, <1>4, <2>1 DEF Excluded
<1>6. a.bitmap = n.bitmap
  <2>1. /\ a.bitmap \in BitmapsOf(c) /\ n.bitmap \in BitmapsOf(c)
        /\ a.bitmap.allocated = n.bitmap.allocated
    BY <1>3, <1>5 DEF Sound, Allocators
  <2> QED BY <1>5, <2>1 DEF BitmapsOf
<1>7. a \in Allocators(c) /\ n \in Allocators(c)
  BY <1>3, <1>5 DEF Sound
<1>8. a = n
  BY <1>5, <1>6, <1>7 DEF Allocators
<1> QED BY <1>8 DEF n

-----------------------------------------------------------------------------
(* The loop and its closed form.                                           *)

\* The entries that are finished, and the addresses the loop has been at.
Passed == Len(given) - Len(todo)

Before == UNION {RangeIPs(given[i]) : i \in 1 .. Passed}

Visited == Before \cup (IF cursor = Outside THEN {} ELSE Walked(Head(todo).first, cursor))

\* What is to be done is the rest of the list.
Rest ==
  /\ given \in Seq(ExcludeSpecs) /\ todo \in Seq(ExcludeSpecs)
  /\ Len(todo) <= Len(given)
  /\ \A i \in 1 .. Len(todo) : todo[i] = given[Passed + i]

\* The loop over a range has not gone past the address at which it stops.
Underway ==
  cursor # Outside =>
    /\ todo # <<>> /\ cursor \in Address
    /\ Distance(Head(todo).first, cursor) <= Distance(Head(todo).first, StopAt(Head(todo)))

LoopInv ==
  /\ Rest /\ Underway
  /\ built.subnet \in AllocatableCIDRs
  /\ Excluded(built.subnet, Visited, built)

\* The first entry to be done and the list without it.
LEMMA RestOfList ==
  ASSUME Rest, todo # <<>>
  PROVE  /\ Head(todo) \in ExcludeSpecs /\ Head(todo).first \in Address
         /\ Tail(todo) \in Seq(ExcludeSpecs) /\ Len(Tail(todo)) = Len(todo) - 1
         /\ \A i \in 1 .. Len(todo) - 1 : Tail(todo)[i] = todo[i + 1]
         /\ Passed \in Nat /\ Len(todo) > 0 /\ Head(todo) = given[Passed + 1]
<1>1. /\ todo \in Seq(ExcludeSpecs) /\ given \in Seq(ExcludeSpecs)
      /\ Len(todo) \in Nat /\ Len(given) \in Nat /\ Len(todo) > 0 /\ Len(todo) <= Len(given)
  BY DEF Rest
<1>2. /\ Head(todo) = todo[1] /\ Head(todo) \in ExcludeSpecs
      /\ Tail(todo) \in Seq(ExcludeSpecs) /\ Len(Tail(todo)) = Len(todo) - 1
      /\ \A i \in 1 .. Len(todo) - 1 : Tail(todo)[i] = todo[i + 1]
  BY <1>1
<1>3. Passed \in Nat /\ 1 \in 1 .. Len(todo)
  BY <1>1 DEF Passed
<1>4. todo[1] = given[Passed + 1]
  BY <1>3 DEF Rest
<1>5. Head(todo).first \in Address
  BY <1>2 DEF ExcludeSpecs
<1> QED BY <1>1, <1>2, <1>3, <1>4, <1>5

\* Before the loop nothing is excluded.
LEMMA InitLoop == LoopInit => LoopInv
<1> SUFFICES ASSUME LoopInit PROVE LoopInv
  OBVIOUS
<1>1. PICK n \in 0 .. MaxEntries : given \in [1 .. n -> ExcludeSpecs]
  BY DEF LoopInit
<1>2. n \in Nat
  BY LoopAssumption
<1>3. given \in Seq(ExcludeSpecs) /\ Len(given) \in Nat
  BY <1>1, <1>2
<1>4. todo = given /\ cursor = Outside
  BY DEF LoopInit
<1>5. Passed = 0 /\ Rest
  <2>1. Passed = 0
    BY <1>3, <1>4 DEF Passed
  <2> QED BY <1>3, <1>4, <2>1 DEF Rest
<1>6. Visited = {}
  BY <1>4, <1>5 DEF Visited, Before
<1>7. PICK c \in Blocks : built = EmptyAllocator(c)
  BY DEF LoopInit
<1>8. c \in AllocatableCIDRs /\ built.subnet = c
  BY <1>7, LoopAssumption DEF EmptyAllocator
<1> QED BY <1>4, <1>5, <1>6, <1>7, <1>8, NothingExcluded DEF LoopInv, Underway

\* A range begins with nothing of it visited.
LEMMA StartKeeps == ASSUME LoopInv, StartEntry PROVE LoopInv'
<1>1. todo # <<>> /\ cursor = Outside /\ cursor' = Head(todo).first /\ UNCHANGED <<given, todo, built>>
  BY DEF StartEntry
<1>2. Rest /\ Head(todo) \in ExcludeSpecs /\ cursor' \in Address /\ StopAt(Head(todo)) \in Address
  BY <1>1, RestOfList, RangeIsWalked DEF LoopInv
<1>3. /\ Distance(cursor', cursor') = 0
      /\ \A ip \in Address : Distance(cursor', ip) \in Int /\ Distance(cursor', ip) >= 0
  <2>1. AddressSpace \in Nat \ {0} /\ cursor' \in Int
    BY <1>2, AddressSpaceAssumption DEF Address
  <2> QED BY <1>2, <2>1, DistanceFacts
<1>4. Rest' /\ Before' = Before /\ Underway'
  BY <1>1, <1>2, <1>3 DEF Rest, Passed, Before, Underway, StopAt
<1>5. Visited' = Visited
  BY <1>1, <1>3, <1>4 DEF Visited, Walked
<1> QED BY <1>1, <1>4, <1>5 DEF LoopInv

\* An iteration visits one address more.
LEMMA StepKeeps == ASSUME LoopInv, Step PROVE LoopInv'
<1> DEFINE from == Head(todo).first
<1> DEFINE stop == StopAt(Head(todo))
<1>1. /\ cursor # Outside /\ cursor # stop
      /\ built' = excludeIP(built, cursor) /\ cursor' = incrementIP(cursor)
      /\ UNCHANGED <<given, todo>>
  BY DEF Step
<1>2. todo # <<>> /\ cursor \in Address /\ Distance(from, cursor) <= Distance(from, stop)
  BY <1>1 DEF LoopInv, Underway
<1>3. from \in Address /\ stop \in Address
  BY <1>2, RestOfList, RangeIsWalked DEF LoopInv
<1>4. /\ Distance(from, cursor') <= Distance(from, stop)
      /\ Walked(from, cursor') = Walked(from, cursor) \cup {cursor}
      /\ cursor' \in Address
  BY <1>1, <1>2, <1>3, WalkGrows, IncrementFacts
<1>5. cursor' # Outside
  BY <1>4, AddressSpaceAssumption DEF Address, Outside
<1>6. Rest' /\ Before' = Before
  BY <1>1 DEF LoopInv, Rest, Passed, Before
<1>7. Underway'
  BY <1>1, <1>2, <1>4 DEF Underway, StopAt
<1>8. Visited' = Visited \cup {cursor}
  BY <1>1, <1>4, <1>5, <1>6 DEF Visited
<1>9. Excluded(built.subnet, Visited', built')
  BY <1>1, <1>2, <1>8, ExcludeAdds DEF LoopInv
<1>10. built'.subnet = built.subnet
  BY <1>9 DEF Excluded, Sound, Allocators
<1> QED BY <1>6, <1>7, <1>9, <1>10 DEF LoopInv

\* At its end a range has been visited whole.
LEMMA EndKeeps == ASSUME LoopInv, EndEntry PROVE LoopInv'
<1>1. /\ cursor # Outside /\ cursor = StopAt(Head(todo)) /\ cursor' = Outside
      /\ todo' = Tail(todo) /\ UNCHANGED <<given, built>>
  BY DEF EndEntry
<1>2. todo # <<>> /\ Rest
  BY <1>1 DEF LoopInv, Underway
<1>3. /\ given \in Seq(ExcludeSpecs) /\ Len(given) \in Nat /\ Len(todo) \in Nat
      /\ todo' \in Seq(ExcludeSpecs) /\ Len(todo') = Len(todo) - 1
      /\ Passed \in Nat /\ Len(todo) > 0
  BY <1>1, <1>2, RestOfList DEF Rest
<1>4. Passed' = Passed + 1
  BY <1>1, <1>3 DEF Passed
<1>5. Rest'
  <2>1. ASSUME NEW i \in 1 .. Len(todo') PROVE todo'[i] = given[Passed' + i]
    <3>1. i \in 1 .. Len(todo) - 1 /\ i + 1 \in 1 .. Len(todo)
      BY <1>3
    <3>2. todo'[i] = todo[i + 1]
      BY <1>1, <1>2, <3>1, RestOfList
    <3>3. ASSUME NEW k \in 1 .. Len(todo), k = i + 1 PROVE todo[k] = given[Passed + k]
      BY <1>2 DEF Rest
    <3>4. todo[i + 1] = given[Passed + (i + 1)]
      BY <3>1, <3>3
    <3>5. Passed + (i + 1) = Passed' + i
      BY <1>3, <1>4
    <3> QED BY <3>2, <3>4, <3>5
  <2>2. Len(todo') <= Len(given')
    BY <1>1, <1>2, <1>3 DEF Rest
  <2> QED BY <1>1, <1>3, <2>1, <2>2 DEF Rest
<1>6. Before' = Before \cup RangeIPs(Head(todo))
  <2>1. 1 .. Passed' = (1 .. Passed) \cup {Passed + 1}
    BY <1>3, <1>4
  <2>2. Before' = UNION {RangeIPs(given[i]) : i \in 1 .. Passed'}
    BY <1>1 DEF Before
  <2>3. Head(todo) = given[Passed + 1]
    BY <1>2, RestOfList
  <2> QED BY <2>1, <2>2, <2>3 DEF Before
<1>7. RangeIPs(Head(todo)) = Walked(Head(todo).first, cursor)
  BY <1>1, <1>2, RestOfList, RangeIsWalked
<1>8. Visited' = Visited
  BY <1>1, <1>6, <1>7 DEF Visited
<1> QED BY <1>1, <1>5, <1>8 DEF LoopInv, Underway

\* The invariant holds through every exclude list.
THEOREM LoopInvariance == LoopSpec => []LoopInv
<1>1. LoopInv /\ UNCHANGED loopVars => LoopInv'
  BY DEF loopVars, LoopInv, Rest, Underway, Visited, Before, Passed
<1>2. LoopInv /\ [LoopNext]_loopVars => LoopInv'
  BY <1>1, StartKeeps, StepKeeps, EndKeeps DEF LoopNext
<1> QED BY InitLoop, <1>2, PTL DEF LoopSpec

\* A proper range is walked from its first address to its last.
LEMMA ProperRange ==
  ASSUME NEW spec \in ExcludeSpecs, spec.first <= spec.last, ~ WholeSpace(spec)
  PROVE  RangeIPs(spec) = {ip \in Address : spec.first <= ip /\ ip <= spec.last}
<1>1. /\ AddressSpace \in Nat \ {0} /\ spec.first \in Address /\ spec.last \in Address
      /\ spec.first \in 0 .. (AddressSpace - 1) /\ spec.last \in 0 .. (AddressSpace - 1)
  BY AddressSpaceAssumption DEF ExcludeSpecs, Address
<1>2. /\ StopAt(spec) = IF spec.last = AddressSpace - 1 THEN 0 ELSE spec.last + 1
      /\ StopAt(spec) \in Address /\ StopAt(spec) # spec.first
  BY <1>1, IncrementFacts DEF StopAt, WholeSpace, incrementIP
<1>3. Distance(spec.first, StopAt(spec)) = spec.last + 1 - spec.first
  <2>1. Distance(spec.first, StopAt(spec))
          = IF StopAt(spec) < spec.first THEN StopAt(spec) - spec.first + AddressSpace
            ELSE StopAt(spec) - spec.first
    BY <1>1, <1>2, DistanceFacts
  <2>2. CASE spec.last = AddressSpace - 1
    <3>1. StopAt(spec) = 0 /\ spec.first > 0
      BY <1>1, <1>2, <2>2
    <3> QED BY <1>1, <2>1, <2>2, <3>1
  <2>3. CASE spec.last # AddressSpace - 1
    BY <1>1, <1>2, <2>1, <2>3
  <2> QED BY <2>2, <2>3
<1>4. ASSUME NEW ip \in Address
      PROVE  Distance(spec.first, ip) < Distance(spec.first, StopAt(spec))
               <=> spec.first <= ip /\ ip <= spec.last
  <2>1. ip \in 0 .. (AddressSpace - 1)
    BY DEF Address
  <2>2. Distance(spec.first, ip) = IF ip < spec.first THEN ip - spec.first + AddressSpace ELSE ip - spec.first
    BY <1>1, DistanceFacts
  <2> QED BY <1>1, <1>3, <2>1, <2>2
<1> QED BY <1>4, RangeIsWalked DEF Walked

\* The loop leaves the allocator of the closed form, and for proper ranges the
\* addresses excluded are those a reader of the list expects: for every block,
\* every list of any length, overlapping entries and ranges that leave the
\* subnet or run round the address space.
THEOREM LoopAlwaysExact == LoopSpec => []LoopIsExact
<1>1. LoopInv => LoopIsExact
  <2> SUFFICES ASSUME LoopInv, Finished PROVE LoopIsExact
    BY DEF LoopIsExact, MatchesClosedForm, OrderedRangesExact
  <2> DEFINE c == built.subnet
  <2>1. Rest /\ cursor = Outside /\ c \in AllocatableCIDRs /\ Excluded(c, Visited, built)
    BY DEF LoopInv, Underway, Finished
  <2>2. Passed = Len(given) /\ given \in Seq(ExcludeSpecs) /\ DOMAIN given = 1 .. Len(given)
    BY <2>1 DEF Rest, Passed, Finished
  <2>3. Visited = UNION {RangeIPs(spec) : spec \in Entries}
    BY <2>1, <2>2 DEF Visited, Before, Entries
  <2>4. Entries \in SUBSET ExcludeSpecs
    BY <2>2 DEF Entries
  <2>5. MatchesClosedForm
    BY <2>1, <2>3, <2>4, ClosedFormExcludes DEF MatchesClosedForm
  <2>6. OrderedRangesExact
    <3> SUFFICES ASSUME \A s \in Entries : s.first <= s.last /\ ~ WholeSpace(s)
                 PROVE  built.excludeIPs = {ip \in Usable(c) : InSomeRange(ip)}
      BY DEF OrderedRangesExact
    <3>1. built.excludeIPs = Visited \cap Usable(c)
      BY <2>1 DEF Excluded
    <3>2. Visited = UNION {{ip \in Address : s.first <= ip /\ ip <= s.last} : s \in Entries}
      BY <2>3, <2>4, ProperRange
    <3>3. Usable(c) \subseteq Address
      BY <2>1, UsableIsAddress
    <3>4. \A ip \in Address : ip \in Visited <=> InSomeRange(ip)
      BY <3>2 DEF InSomeRange
    <3> QED BY <3>1, <3>3, <3>4
  <2> QED BY <2>5, <2>6 DEF LoopIsExact
<1> QED BY <1>1, LoopInvariance, PTL
=============================================================================
