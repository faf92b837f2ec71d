------------------------------- MODULE IPPool -------------------------------
(***************************************************************************)
(* What a subnet's allocator promises its callers: a pool of addresses, a  *)
(* set of those in use, and an address handed out only while nobody uses   *)
(* it.  Each call also says what it answered.                              *)
(***************************************************************************)
EXTENDS Naturals

CONSTANTS Pool,   \* addresses that may be handed out
          Asked   \* addresses a caller may name, in the pool or not

VARIABLES held,   \* addresses in use
          reply   \* answer of the last call

poolVars == <<held, reply>>

Answer(kind, ip) == [kind |-> kind, ip |-> ip]

PoolInit == held = {} /\ reply = Answer("none", 0)

\* Some free address, or the report that there is none.
Acquire ==
  \/ \E ip \in Pool \ held :
       held' = held \cup {ip} /\ reply' = Answer("granted", ip)
  \/ /\ Pool \subseteq held
     /\ reply' = Answer("exhausted", 0)
     /\ UNCHANGED held

Claim(ip) ==
  \/ /\ ip \in Pool \ held
     /\ held' = held \cup {ip}
     /\ reply' = Answer("granted", ip)
  \/ /\ ip \notin Pool \ held
     /\ reply' = Answer("refused", ip)
     /\ UNCHANGED held

Return(ip) ==
  \/ /\ ip \in Pool
     /\ held' = held \ {ip}
     /\ reply' = Answer("released", ip)
  \/ /\ ip \notin Pool
     /\ reply' = Answer("refused", ip)
     /\ UNCHANGED held

PoolNext == Acquire \/ \E ip \in Asked : Claim(ip) \/ Return(ip)

PoolSpec == PoolInit /\ [][PoolNext]_poolVars
=============================================================================
