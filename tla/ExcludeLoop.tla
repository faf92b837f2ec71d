----------------------------- MODULE ExcludeLoop ----------------------------
(***************************************************************************)
(* The construction of a SubnetAllocator, one step per iteration of        *)
(* parseAndExclude's loop                                                  *)
(*     for ip := start; !ip.Equal(incrementIP(end)); ip = incrementIP(ip)  *)
(* over every exclude list of up to MaxEntries entries, ranges whose first *)
(* address lies above their last one included.                             *)
(***************************************************************************)
EXTENDS SubnetAllocator, Sequences

CONSTANTS Blocks,      \* the CIDR blocks to construct allocators for
          MaxEntries   \* bound: entries of an exclude list

ASSUME LoopAssumption ==
  /\ Blocks \subseteq AllocatableCIDRs
  /\ MaxEntries \in Nat

VARIABLES given,    \* the exclude list passed in
          todo,     \* the entries not yet finished
          cursor,   \* the loop variable ip, or Outside
          built     \* the allocator under construction

loopVars == <<given, todo, cursor, built>>

Outside == -1  \* not in a loop

LoopInit ==
  /\ given \in UNION {[1 .. n -> ExcludeSpecs] : n \in 0 .. MaxEntries}
  /\ todo = given
  /\ cursor = Outside
  /\ built \in {EmptyAllocator(c) : c \in Blocks}

\* The address at which the loop over a range stops.
StopAt(spec) == incrementIP(spec.last)

StartEntry ==
  /\ cursor = Outside /\ todo # <<>>
  /\ cursor' = Head(todo).first
  /\ UNCHANGED <<given, todo, built>>

\* Mutation of Step: "continue" skips the increment as well.
StepStuckOutside ==
  /\ cursor # Outside /\ cursor # StopAt(Head(todo))
  /\ built' = excludeIP(built, cursor)
  /\ cursor' = IF HasIndex(built, cursor) THEN incrementIP(cursor) ELSE cursor
  /\ UNCHANGED <<given, todo>>

\* One iteration; an address outside the subnet is skipped by "continue",
\* whose post statement still moves to the next address.
Step ==
  /\ cursor # Outside /\ cursor # StopAt(Head(todo))
  /\ built' = excludeIP(built, cursor)
  /\ cursor' = incrementIP(cursor)
  /\ UNCHANGED <<given, todo>>

EndEntry ==
  /\ cursor # Outside /\ cursor = StopAt(Head(todo))
  /\ cursor' = Outside
  /\ todo' = Tail(todo)
  /\ UNCHANGED <<given, built>>

LoopNext == StartEntry \/ Step \/ EndEntry

LoopSpec == LoopInit /\ [][LoopNext]_loopVars

\* The constructor is straight-line code on one goroutine: it keeps running.
FairLoopSpec == LoopSpec /\ WF_loopVars(LoopNext)

-----------------------------------------------------------------------------
Finished == todo = <<>>

Entries == {given[i] : i \in DOMAIN given}

\* The loop leaves exactly the allocator of the closed form that the other
\* modules start from: bits, counter and exclude set, for overlapping entries
\* and for entries that leave the subnet.
MatchesClosedForm == Finished => built = NewSubnetAllocator(built.subnet, Entries)

\* The addresses a reader of the exclude list would call "in range".
InSomeRange(ip) == \E s \in Entries : s.first <= ip /\ ip <= s.last

\* The range over the whole address space: the successor of its last address
\* is its first one, so the loop ends before its first iteration.
WholeSpace(s) == (s.last + 1) % AddressSpace = s.first

\* A proper range excludes the usable addresses from its first to its last
\* inclusive and no others.  (A range written high-low excludes the addresses
\* outside it instead: the loop goes round the address space.)
OrderedRangesExact ==
  (Finished /\ \A s \in Entries : s.first <= s.last /\ ~ WholeSpace(s))
    => built.excludeIPs = {ip \in Usable(built.subnet) : InSomeRange(ip)}

\* The loop over the exclude list is exact in both senses: the closed form the
\* other modules use, and, for proper ranges, the addresses a reader expects.
LoopIsExact == MatchesClosedForm /\ OrderedRangesExact

\* The loop always ends, also when its first address lies above its last
\* one and it has to go round the whole address space.
Terminates == <>Finished
=============================================================================
