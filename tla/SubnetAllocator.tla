-------------------------- MODULE SubnetAllocator ---------------------------
(***************************************************************************)
(* pkg/allocator/subnet_allocator.go: the allocator of one subnet, as a    *)
(* value [subnet, size, bitmap, excludeIPs].  IPv4 addresses are the       *)
(* numbers 0 .. AddressSpace - 1 (2^32 in the code); a CIDR block is its   *)
(* first address and its number of addresses.  All methods hold a.mu for   *)
(* their whole body, so each is one atomic operator.                       *)
(***************************************************************************)
EXTENDS Bitmap, FiniteSets

CONSTANT AddressSpace  \* number of addresses of the address family

ASSUME AddressSpaceAssumption == AddressSpace \in Nat \ {0}

Address == 0 .. (AddressSpace - 1)

\* What net.ParseCIDR can return: a block inside the address space.
CIDRs == {c \in [base : Address, total : 1 .. AddressSpace] :
            c.base + c.total <= AddressSpace}

\* One entry of excludeIPs: "a" is [first |-> a, last |-> a], "a-b" is
\* [first |-> a, last |-> b]; nothing in the code asks for a <= b.
ExcludeSpecs == [first : Address, last : Address]

Contains(cidr, ip) == cidr.base <= ip /\ ip < cidr.base + cidr.total

incrementIP(ip) == (ip + 1) % AddressSpace

\* The subnet less its network and its broadcast address.
UsableIPs(cidr) == cidr.total - 2

\* The usable addresses, and the indices of their bits.
Usable(cidr) == (cidr.base + 1) .. (cidr.base + cidr.total - 2)
Indices(cidr) == 0 .. (UsableIPs(cidr) - 1)

\* The allocators of a block: bits, sizes and exclude set fit it.
BitmapsOf(cidr) == [size : {UsableIPs(cidr)}, bits : SUBSET Indices(cidr), allocated : Int]

Allocators(cidr) == [subnet : {cidr}, size : {UsableIPs(cidr)}, bitmap : BitmapsOf(cidr),
                     excludeIPs : SUBSET Usable(cidr)]

\* NewSubnetAllocator's "too small for allocation" test.
BigEnough(cidr) == UsableIPs(cidr) > 0

AllocatableCIDRs == {cidr \in CIDRs : BigEnough(cidr)}

\* Mutation of HasIndex: the bound lets the broadcast address through.
HasIndexUpToBroadcast(a, ip) ==
  /\ Contains(a.subnet, ip)
  /\ ip > a.subnet.base
  /\ ip - a.subnet.base - 1 <= a.size

\* The condition under which ipToIndex returns no error, and its result.
HasIndex(a, ip) ==
  /\ Contains(a.subnet, ip)
  /\ ip > a.subnet.base
  /\ ip - a.subnet.base - 1 < a.size

ipToIndex(a, ip) == ip - a.subnet.base - 1

indexToIP(a, index) == (a.subnet.base + index + 1) % AddressSpace

\* Mutation of excludeIP: the address is recorded but its bit stays 0.
ExcludeWithoutBit(a, ip) ==
  IF HasIndex(a, ip)
  THEN [a EXCEPT !.excludeIPs = @ \cup {ip}]
  ELSE a

\* An address outside the usable range is ignored; one that is already
\* excluded keeps its bit.
excludeIP(a, ip) ==
  IF HasIndex(a, ip)
  THEN [a EXCEPT !.excludeIPs = @ \cup {ip},
                 !.bitmap = Set(@, ipToIndex(a, ip))]
  ELSE a

\* The allocator NewSubnetAllocator has before it looks at the exclude list.
EmptyAllocator(cidr) ==
  [subnet     |-> cidr,
   size       |-> UsableIPs(cidr),
   bitmap     |-> NewBitmap(UsableIPs(cidr)),
   excludeIPs |-> {}]

\* The addresses parseAndExclude's loop visits: from first upwards, round
\* the end of the address space, until the successor of last.
RangeIPs(spec) ==
  {ip \in Address : (ip - spec.first) % AddressSpace
                      < (spec.last + 1 - spec.first) % AddressSpace}

\* What the loop over the exclude list leaves, in closed form; ExcludeLoop
\* is the loop itself.
NewSubnetAllocator(cidr, excludes) ==
  LET empty == EmptyAllocator(cidr)
      gone  == {ip \in UNION {RangeIPs(spec) : spec \in excludes} :
                  HasIndex(empty, ip)}
  IN  [empty EXCEPT
         !.excludeIPs = gone,
         !.bitmap = [size      |-> UsableIPs(cidr),
                     bits      |-> {ipToIndex(empty, ip) : ip \in gone},
                     allocated |-> Cardinality(gone)]]

\* The addresses whose bit is 1, the excluded ones included.
AllocatedIPs(a) == {ip \in Address : HasIndex(a, ip) /\ IsSet(a.bitmap, ipToIndex(a, ip))}

\* The addresses callers hold, and those an allocator made from this block
\* and exclude list has to give.
Held(a) == AllocatedIPs(a) \ a.excludeIPs
Free(cidr, excludes) == Usable(cidr) \ UNION {RangeIPs(spec) : spec \in excludes}

-----------------------------------------------------------------------------
(* The operations.  NextIndex is -1 when the subnet is exhausted.          *)

NextIndex(a) == FindFirstClear(a.bitmap)

Exhausted(a) == NextIndex(a) = -1

\* Mutation of NextIP: the result is computed without the skipped network
\* address.
NextIPOffByOne(a) == indexToIP(a, NextIndex(a) - 1)

NextIP(a) == indexToIP(a, NextIndex(a))

AllocateNext(a) == [a EXCEPT !.bitmap = Set(@, NextIndex(a))]

\* Allocate of a given address fails out of range and when it is taken.
CanAllocate(a, ip) == HasIndex(a, ip) /\ ~ IsSet(a.bitmap, ipToIndex(a, ip))

Allocate(a, ip) == [a EXCEPT !.bitmap = Set(@, ipToIndex(a, ip))]

\* Mutation of CanRelease: the exclude list is not consulted.
ReleasesExcluded(a, ip) == HasIndex(a, ip)

\* Release fails on an excluded address and out of range; an address that
\* is not allocated is released without an error.
CanRelease(a, ip) == ip \notin a.excludeIPs /\ HasIndex(a, ip)

Release(a, ip) ==
  IF CanRelease(a, ip)
  THEN [a EXCEPT !.bitmap = Clear(@, ipToIndex(a, ip))]
  ELSE a

IsAllocated(a, ip) == HasIndex(a, ip) /\ IsSet(a.bitmap, ipToIndex(a, ip))
=============================================================================
