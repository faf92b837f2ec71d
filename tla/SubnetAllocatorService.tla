----------------------- MODULE SubnetAllocatorService -----------------------
(***************************************************************************)
(* One shared SubnetAllocator and the callers that race for it.  A call is *)
(* one step, because every method holds the allocator's mutex throughout;  *)
(* the interleaving of the callers is the order of the steps.  Callers may *)
(* name any address: taken, free, excluded or outside the subnet.          *)
(***************************************************************************)
EXTENDS SubnetAllocator

CONSTANTS Cidr,      \* the subnet's block
          Excludes   \* its exclude list, the gateway's entry included

ASSUME ServiceAssumption ==
  /\ Cidr \in AllocatableCIDRs
  /\ Excludes \subseteq ExcludeSpecs

VARIABLES alloc,   \* the allocator
          reply    \* answer of the last call

vars == <<alloc, reply>>

Answer(kind, ip) == [kind |-> kind, ip |-> ip]

Init ==
  /\ alloc = NewSubnetAllocator(Cidr, Excludes)
  /\ reply = Answer("none", 0)

CallAllocateNext ==
  \/ /\ Exhausted(alloc)
     /\ reply' = Answer("exhausted", 0)
     /\ UNCHANGED alloc
  \/ /\ ~ Exhausted(alloc)
     /\ alloc' = AllocateNext(alloc)
     /\ reply' = Answer("granted", NextIP(alloc))

CallAllocate(ip) ==
  \/ /\ CanAllocate(alloc, ip)
     /\ alloc' = Allocate(alloc, ip)
     /\ reply' = Answer("granted", ip)
  \/ /\ ~ CanAllocate(alloc, ip)
     /\ reply' = Answer("refused", ip)
     /\ UNCHANGED alloc

CallRelease(ip) ==
  \/ /\ CanRelease(alloc, ip)
     /\ alloc' = Release(alloc, ip)
     /\ reply' = Answer("released", ip)
  \/ /\ ~ CanRelease(alloc, ip)
     /\ reply' = Answer("refused", ip)
     /\ UNCHANGED alloc

Next ==
  \/ CallAllocateNext
  \/ \E ip \in Address : CallAllocate(ip) \/ CallRelease(ip)

Spec == Init /\ [][Next]_vars

-----------------------------------------------------------------------------
(* Properties                                                              *)

\* The type of the allocator and of its answers: the bits, the exclude set
\* and the sizes fit the subnet.
TypeOK ==
  /\ alloc \in Allocators(Cidr)
  /\ reply \in [kind : {"none", "granted", "refused", "released", "exhausted"},
                ip : Address]

\* The counter behind Available() and Used() (what a Subnet's status shows)
\* agrees with the bits, whatever mix of successful, failed and repeated
\* calls came before: a release of a free address must not count.
CounterAccurate ==
  alloc.bitmap.allocated = Cardinality(alloc.bitmap.bits)

\* An excluded address, the gateway above all, keeps its bit through every
\* later Allocate and Release, so no call can ever hand it out.
ExcludedStaysTaken ==
  \A ip \in alloc.excludeIPs : IsAllocated(alloc, ip)

\* The abstract pool seen through the bitmap: in use are the addresses whose
\* bit is 1 and that are not excluded.
Pool == INSTANCE IPPool
          WITH Pool  <- Free(Cidr, Excludes),
               Asked <- Address,
               held  <- Held(alloc)

\* The allocator implements the pool: AllocateNext and Allocate grant only
\* free, usable, unexcluded addresses and "exhausted" is said only when every
\* such address is in use.
ImplementsPool == Pool!PoolSpec
=============================================================================
