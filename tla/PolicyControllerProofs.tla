----------------------- MODULE PolicyControllerProofs -----------------------
(***************************************************************************)
(* Proofs about PolicyController, for any set of policies, each with any   *)
(* number of rules and peers, any pods and any values of the bounds.       *)
(***************************************************************************)
EXTENDS PolicyController, SequenceTheorems, FiniteSetTheorems, TLAPS

-----------------------------------------------------------------------------
(* Induction.                                                              *)

\* A nonempty set of natural numbers has a least element.
LEMMA LeastElement ==
  ASSUME NEW S \in SUBSET Nat, S # {}
  PROVE  \E i \in S : \A j \in S : i <= j
<1> DEFINE T == {0 .. i : i \in S}
<1>1. IsWellFoundedOn(StrictSubsetOrdering(Nat), FiniteSubsetsOf(Nat))
  BY FS_StrictSubsetOrderingWellFounded
<1>2. T \subseteq FiniteSubsetsOf(Nat)
  <2> SUFFICES ASSUME NEW i \in S PROVE 0 .. i \in FiniteSubsetsOf(Nat)
    OBVIOUS
  <2>1. IsFiniteSet(0 .. i)
    BY FS_Interval
  <2> QED BY <2>1 DEF FiniteSubsetsOf
<1>3. T # {}
  OBVIOUS
<1>4. \E x \in T : \A y \in T : <<y, x>> \notin StrictSubsetOrdering(Nat)
  <2> HIDE DEF T
  <2> QED BY <1>1, <1>2, <1>3, WFMin
<1>5. PICK i \in S : \A y \in T : <<y, 0 .. i>> \notin StrictSubsetOrdering(Nat)
  BY <1>4
<1>6. ASSUME NEW j \in S, j < i PROVE FALSE
  <2>1. i \in 0 .. i /\ i \notin 0 .. j /\ 0 .. j \subseteq 0 .. i
    BY <1>6
  <2>2. 0 .. j \in T /\ 0 .. j \in SUBSET Nat /\ 0 .. i \in SUBSET Nat
    OBVIOUS
  <2> QED BY <1>5, <2>1, <2>2 DEF StrictSubsetOrdering
<1> QED BY <1>6

\* Induction up to n, with a set in the place of a predicate.
LEMMA UpTo ==
  ASSUME NEW n \in Nat, NEW G,
         n > 0 => 1 \in G, \A i \in 1 .. n : i \in G /\ i < n => i + 1 \in G
  PROVE  \A i \in 1 .. n : i \in G
<1> DEFINE Bad == (1 .. n) \ G
<1> SUFFICES ASSUME Bad # {} PROVE FALSE
  OBVIOUS
<1>1. PICK i \in Bad : \A j \in Bad : i <= j
  <2>1. Bad \in SUBSET Nat
    OBVIOUS
  <2> HIDE DEF Bad
  <2> QED BY <2>1, LeastElement
<1>2. i \in 1 .. n /\ i \notin G
  OBVIOUS
<1>3. i # 1
  BY <1>2
<1>4. i - 1 \in 1 .. n /\ i - 1 < n /\ ~ (i <= i - 1) /\ i - 1 + 1 = i
  BY <1>2, <1>3
<1>5. i - 1 \notin G
  BY <1>2, <1>4
<1> QED BY <1>1, <1>4, <1>5

-----------------------------------------------------------------------------
(* FlattenSeq.                                                             *)

\* f holds the sequences of seqs joined one after the other, up to the n-th.
Joins(f, seqs, n) ==
  f = [i \in 1 .. n |-> IF i = 1 THEN seqs[i] ELSE f[i-1] \o seqs[i]]

\* There is such a function.
LEMMA JoinsExist ==
  ASSUME NEW seqs, NEW n \in Nat
  PROVE  n > 0 => \E f : Joins(f, seqs, n)
<1> DEFINE G == {i \in 1 .. n : \E f : Joins(f, seqs, i)}
<1>1. n > 0 => 1 \in G
  <2> SUFFICES ASSUME n > 0 PROVE \E f : Joins(f, seqs, 1)
    OBVIOUS
  <2> DEFINE f == [i \in 1 .. 1 |-> seqs[i]]
  <2>1. \A i \in 1 .. 1 : i = 1
    OBVIOUS
  <2>2. f = [i \in 1 .. 1 |-> IF i = 1 THEN seqs[i] ELSE f[i-1] \o seqs[i]]
    BY <2>1
  <2>3. Joins(f, seqs, 1)
    BY <2>2 DEF Joins
  <2> QED BY <2>3
<1>2. ASSUME NEW i \in 1 .. n, i \in G, i < n PROVE i + 1 \in G
  <2>1. PICK f : Joins(f, seqs, i)
    BY <1>2
  <2>2. DOMAIN f = 1 .. i
    BY <2>1 DEF Joins
  <2> DEFINE g == [j \in 1 .. i + 1 |-> IF j = i + 1 THEN f[i] \o seqs[i + 1] ELSE f[j]]
  <2>3. ASSUME NEW j \in 1 .. i + 1
        PROVE  g[j] = IF j = 1 THEN seqs[j] ELSE g[j-1] \o seqs[j]
    <3>1. CASE j = i + 1
      <4>1. j # 1 /\ j - 1 = i /\ i # i + 1 /\ i \in 1 .. i + 1
        BY <3>1
      <4>2. g[j-1] = f[i]
        BY <4>1
      <4> QED BY <3>1, <4>1, <4>2
    <3>2. CASE j # i + 1
      <4>1. j \in 1 .. i /\ g[j] = f[j]
        BY <3>2
      <4>2. f[j] = IF j = 1 THEN seqs[j] ELSE f[j-1] \o seqs[j]
        BY <2>1, <4>1 DEF Joins
      <4>3. j # 1 => j - 1 \in 1 .. i + 1 /\ j - 1 # i + 1
        BY <4>1
      <4>4. j # 1 => g[j-1] = f[j-1]
        BY <4>3
      <4> QED BY <4>1, <4>2, <4>4
    <3> QED BY <3>1, <3>2
  <2>4. Joins(g, seqs, i + 1)
    <3>1. g = [j \in 1 .. i + 1 |-> g[j]]
      OBVIOUS
    <3> HIDE DEF g
    <3> QED BY <2>3, <3>1 DEF Joins
  <2>5. \E h : Joins(h, seqs, i + 1)
    BY <2>4
  <2>6. i + 1 \in 1 .. n
    BY <1>2
  <2> QED BY <2>5, <2>6
<1> HIDE DEF G
<1>3. \A i \in 1 .. n : i \in G
  BY <1>1, <1>2, UpTo
<1>4. n > 0 => n \in G
  BY <1>3
<1> QED BY <1>4 DEF G

\* What FlattenSeq yields is the last of them.
LEMMA FlattenSeqJoins ==
  ASSUME NEW seqs, Len(seqs) \in Nat, Len(seqs) > 0
  PROVE  \E f : Joins(f, seqs, Len(seqs)) /\ FlattenSeq(seqs) = f[Len(seqs)]
<1> DEFINE f == CHOOSE g : Joins(g, seqs, Len(seqs))
<1>1. Joins(f, seqs, Len(seqs))
  BY JoinsExist
<1>2. Len(seqs) # 0
  OBVIOUS
<1>3. FlattenSeq(seqs) = f[Len(seqs)]
  BY <1>2 DEF FlattenSeq, Joins
<1> QED BY <1>1, <1>3

-----------------------------------------------------------------------------
(* Sequences that are joined.                                              *)

\* Every element of s is one of t's, and what stands before it in t stands
\* before it in s.
InOrder(s, k, t) ==
  \E m \in DOMAIN t :
    s[k] = t[m] /\ \A m2 \in 1 .. m : \E k2 \in 1 .. k : s[k2] = t[m2]

\* What is in order in one of two sequences is so in the two joined.
LEMMA InOrderConcat ==
  ASSUME NEW S, NEW s \in Seq(S), NEW t \in Seq(S)
  PROVE  /\ s \o t \in Seq(S)
         /\ \A u : \A k \in DOMAIN s : InOrder(s, k, u) => InOrder(s \o t, k, u)
         /\ \A k \in DOMAIN (s \o t) : k \in DOMAIN s \/ InOrder(s \o t, k, t)
<1>1. /\ s \o t \in Seq(S) /\ Len(s) \in Nat /\ Len(t) \in Nat
      /\ DOMAIN s = 1 .. Len(s) /\ DOMAIN t = 1 .. Len(t)
      /\ DOMAIN (s \o t) = 1 .. Len(s) + Len(t)
      /\ \A i \in 1 .. Len(s) + Len(t) :
           (s \o t)[i] = IF i <= Len(s) THEN s[i] ELSE t[i - Len(s)]
  BY ConcatProperties, LenProperties
<1> DEFINE c == s \o t
           a == Len(s)
           b == Len(t)
<1>2. a \in Nat /\ b \in Nat /\ \A i \in 1 .. a + b : c[i] = IF i <= a THEN s[i] ELSE t[i - a]
  BY <1>1
<1>3. ASSUME NEW u, NEW k \in DOMAIN s, InOrder(s, k, u) PROVE InOrder(c, k, u)
  <2>1. PICK m \in DOMAIN u : s[k] = u[m] /\ \A m2 \in 1 .. m : \E k2 \in 1 .. k : s[k2] = u[m2]
    BY <1>3 DEF InOrder
  <2>2. k \in 1 .. a
    BY <1>1
  <2> HIDE DEF c, a, b
  <2>3. \A i \in 1 .. k : c[i] = s[i]
    BY <1>2, <2>2
  <2> QED BY <2>1, <2>2, <2>3 DEF InOrder
<1>4. ASSUME NEW k \in DOMAIN c, k \notin DOMAIN s PROVE InOrder(c, k, t)
  <2>1. k \in 1 .. a + b /\ k > a /\ DOMAIN t = 1 .. b
    BY <1>1, <1>4
  <2> HIDE DEF c, a, b
  <2>2. k - a \in 1 .. b /\ c[k] = t[k - a]
    BY <1>2, <2>1
  <2>3. ASSUME NEW m \in 1 .. k - a PROVE m + a \in 1 .. k /\ c[m + a] = t[m]
    <3>1. m + a \in 1 .. a + b /\ m + a > a /\ m + a - a = m /\ m + a \in 1 .. k
      BY <1>2, <2>1
    <3> QED BY <1>2, <3>1
  <2> QED BY <2>1, <2>2, <2>3 DEF InOrder
<1> QED BY <1>1, <1>3, <1>4

\* FlattenSeq of sequences over S is one; its elements are those of the
\* sequences, each after those that stand before it in its own.
LEMMA FlattenSeqInOrder ==
  ASSUME NEW S, NEW seqs \in Seq(Seq(S))
  PROVE  /\ FlattenSeq(seqs) \in Seq(S)
         /\ \A k \in DOMAIN FlattenSeq(seqs) :
              \E i \in DOMAIN seqs : InOrder(FlattenSeq(seqs), k, seqs[i])
<1> DEFINE n == Len(seqs)
<1>1. n \in Nat /\ DOMAIN seqs = 1 .. n /\ \A i \in 1 .. n : seqs[i] \in Seq(S)
  BY LenProperties, ElementOfSeq
<1>2. CASE n = 0
  <2>1. FlattenSeq(seqs) = seqs /\ seqs = <<>>
    BY <1>2, EmptySeq DEF FlattenSeq
  <2> QED BY <2>1, EmptySeq
<1>3. CASE n > 0
  <2>1. PICK f : Joins(f, seqs, n) /\ FlattenSeq(seqs) = f[n]
    BY <1>1, <1>3, FlattenSeqJoins
  <2> DEFINE Good(i) == /\ f[i] \in Seq(S)
                        /\ \A k \in DOMAIN f[i] : \E j \in 1 .. n : InOrder(f[i], k, seqs[j])
             G == {i \in 1 .. n : Good(i)}
  <2>2. \A i \in 1 .. n : f[i] = IF i = 1 THEN seqs[i] ELSE f[i-1] \o seqs[i]
    BY <2>1 DEF Joins
  <2>3. 1 \in G
    <3>1. 1 \in 1 .. n /\ f[1] = seqs[1]
      BY <1>1, <1>3, <2>2
    <3>2. ASSUME NEW k \in DOMAIN seqs[1] PROVE InOrder(seqs[1], k, seqs[1])
      <4>1. DOMAIN seqs[1] = 1 .. Len(seqs[1]) /\ Len(seqs[1]) \in Nat
        BY <1>1, <3>1, LenProperties
      <4> QED BY <4>1 DEF InOrder
    <3> QED BY <1>1, <3>1, <3>2
  <2>4. ASSUME NEW i \in 1 .. n, i \in G, i < n PROVE i + 1 \in G
    <3>1. /\ i + 1 \in 1 .. n /\ i + 1 # 1 /\ i + 1 - 1 = i
          /\ f[i] \in Seq(S) /\ seqs[i + 1] \in Seq(S)
      BY <1>1, <2>4
    <3>2. f[i + 1] = f[i] \o seqs[i + 1]
      <4>1. ASSUME NEW k \in 1 .. n, k = i + 1 PROVE f[k] = f[i] \o seqs[k]
        <5>1. k # 1 /\ k - 1 = i
          BY <1>1, <4>1
        <5>2. f[k] = f[k - 1] \o seqs[k]
          BY <2>2, <5>1
        <5> QED BY <5>1, <5>2
      <4> QED BY <3>1, <4>1
    <3>3. /\ f[i + 1] \in Seq(S)
          /\ \A u : \A k \in DOMAIN f[i] : InOrder(f[i], k, u) => InOrder(f[i + 1], k, u)
          /\ \A k \in DOMAIN f[i + 1] : k \in DOMAIN f[i] \/ InOrder(f[i + 1], k, seqs[i + 1])
      BY <3>1, <3>2, InOrderConcat
    <3>4. \A k \in DOMAIN f[i] : \E j \in 1 .. n : InOrder(f[i], k, seqs[j])
      BY <2>4
    <3>5. \A k \in DOMAIN f[i + 1] : \E j \in 1 .. n : InOrder(f[i + 1], k, seqs[j])
      BY <3>1, <3>3, <3>4
    <3> QED BY <3>1, <3>3, <3>5
  <2> HIDE DEF G
  <2>5. \A i \in 1 .. n : i \in G
    BY <1>1, <2>3, <2>4, UpTo
  <2>6. n \in G
    BY <1>1, <1>3, <2>5
  <2>7. Good(n)
    BY <2>6 DEF G
  <2> QED BY <1>1, <2>1, <2>7
<1> QED BY <1>1, <1>2, <1>3

-----------------------------------------------------------------------------
(* The ACLs of a policy.                                                   *)

\* ACLs for one direction and one selection of pods.
Of(dir, selected) == {a \in ACLs : a.dir = dir /\ a.match.pods = selected}

\* What holds of the ACLs at every moment of a replacement: each allow rule has
\* its default deny before it, and all are for the same pods.
Denied(s) ==
  \A i \in DOMAIN s :
    s[i].action = "allow" /\ s[i].match.pods # {} =>
      \E j \in 1 .. i : s[j] = DefaultDeny(s[i].dir, s[i].match.pods)[1]

Uniform(s) == \A i, j \in DOMAIN s : s[i].match.pods = s[j].match.pods

Sound(s) == Denied(s) /\ Uniform(s)

\* It holds of the beginning of a sequence if it holds of the sequence.
LEMMA SoundPrefix ==
  ASSUME NEW s \in Seq(ACLs), NEW t \in Seq(ACLs), Sound(s),
         Len(t) <= Len(s), \A i \in 1 .. Len(t) : t[i] = s[i]
  PROVE  Sound(t)
<1>1. /\ DOMAIN s = 1 .. Len(s) /\ DOMAIN t = 1 .. Len(t)
      /\ Len(s) \in Nat /\ Len(t) \in Nat
  BY LenProperties
<1>2. \A i \in 1 .. Len(t) : i \in DOMAIN s /\ \A j \in 1 .. i : j \in 1 .. Len(t)
  BY <1>1
<1>3. Denied(t)
  BY <1>1, <1>2 DEF Sound, Denied
<1>4. Uniform(t)
  BY <1>1, <1>2 DEF Sound, Uniform
<1> QED BY <1>3, <1>4 DEF Sound

\* The default deny is one ACL, or none when no pod has an address.
LEMMA DefaultDenyTyped ==
  ASSUME NEW dir \in {"Ingress", "Egress"}, NEW selected \in SUBSET Pods
  PROVE  /\ DefaultDeny(dir, selected) \in Seq(Of(dir, selected))
         /\ selected # {} => Len(DefaultDeny(dir, selected)) = 1
<1> DEFINE m == DenyMatch(selected)
           d == [dir |-> dir, rule |-> 0, priority |-> RuleBase - 1, action |-> "drop", match |-> m]
<1>1. RuleBase - 1 \in Nat
  BY PolicyAssumption
<1>2. m = [pods |-> selected, cidrs |-> {}, ports |-> {}]
  BY DEF DenyMatch, Empty
<1>3. m \in [pods : SUBSET Pods, cidrs : SUBSET Nat, ports : SUBSET Nat] /\ m.pods = selected
  BY <1>2
<1> HIDE DEF m
<1>4. d \in ACLs /\ d.dir = dir /\ d.match.pods = selected
  BY <1>1, <1>3 DEF ACLs
<1>5. d \in Of(dir, selected)
  BY <1>4 DEF Of
<1>6. DefaultDeny(dir, selected) = IF selected = {} THEN <<>> ELSE <<d>>
  BY DEF DefaultDeny, m
<1> HIDE DEF d
<1> QED BY <1>5, <1>6

\* The ACLs of a rule are for its direction and the selected pods.
LEMMA AllowTyped ==
  ASSUME NEW dir \in {"Ingress", "Egress"}, NEW selected \in SUBSET Pods,
         NEW idx \in Nat \ {0}, NEW rule \in Rules
  PROVE  Allow(dir, selected, idx, rule) \in Seq(Of(dir, selected))
<1> DEFINE m == ConvertRule(selected, rule)
           a == [dir |-> dir, rule |-> idx, priority |-> GetACLPriority(idx), action |-> "allow", match |-> m]
<1>1. GetACLPriority(idx) \in Nat
  BY PolicyAssumption DEF GetACLPriority
<1>2. SourceCIDRs(rule) \in SUBSET Nat
  <2>1. \A q \in Range(rule.peers) : q \in Peers
    BY RangeOfSeq DEF Rules
  <2> QED BY <2>1 DEF SourceCIDRs, Peers
<1>3. m \in [pods : SUBSET Pods, cidrs : SUBSET Nat, ports : SUBSET Nat] /\ m.pods = selected
  BY <1>2 DEF ConvertRule, Rules
<1> HIDE DEF m
<1>4. a \in ACLs /\ a.dir = dir /\ a.match.pods = selected
  BY <1>1, <1>3 DEF ACLs
<1>5. a \in Of(dir, selected)
  BY <1>4 DEF Of
<1>6. PeerCount(rule) \in Nat
  BY LenProperties DEF PeerCount, Rules
<1>7. Allow(dir, selected, idx, rule) = IF m = Empty THEN <<>> ELSE [i \in 1 .. PeerCount(rule) |-> a]
  BY DEF Allow, m
<1> HIDE DEF a
<1>8. [i \in 1 .. PeerCount(rule) |-> a] \in Seq(Of(dir, selected))
  BY <1>5, <1>6, IsASeq
<1> QED BY <1>7, <1>8

\* A direction's ACLs begin with its default deny.
LEMMA DirectionTyped ==
  ASSUME NEW p \in Policies, NEW dir \in {"Ingress", "Egress"}, NEW selected \in SUBSET Pods
  PROVE  /\ DirectionACLs(p, dir, selected) \in Seq(Of(dir, selected))
         /\ selected # {} => DirectionACLs(p, dir, selected)[1] = DefaultDeny(dir, selected)[1]
<1> DEFINE deny == DefaultDeny(dir, selected)
           seqs == [i \in DOMAIN p[dir] |-> Allow(dir, selected, i, p[dir][i])]
           rest == FlattenSeq(seqs)
<1>1. p[dir] \in Seq(Rules)
  BY PolicyAssumption
<1>2. seqs \in Seq(Seq(Of(dir, selected)))
  <2>1. /\ DOMAIN p[dir] = 1 .. Len(p[dir]) /\ Len(p[dir]) \in Nat
        /\ \A i \in DOMAIN p[dir] : p[dir][i] \in Rules /\ i \in Nat \ {0}
    BY <1>1, LenProperties, ElementOfSeq
  <2>2. \A i \in 1 .. Len(p[dir]) : Allow(dir, selected, i, p[dir][i]) \in Seq(Of(dir, selected))
    BY <2>1, AllowTyped
  <2> QED BY <2>1, <2>2, IsASeq
<1>3. rest \in Seq(Of(dir, selected))
  BY <1>2, FlattenSeqInOrder
<1>4. deny \in Seq(Of(dir, selected)) /\ (selected # {} => Len(deny) = 1)
  BY DefaultDenyTyped
<1>5. DirectionACLs(p, dir, selected) = deny \o rest
  BY DEF DirectionACLs
<1> HIDE DEF deny, rest
<1>6. /\ deny \o rest \in Seq(Of(dir, selected))
      /\ selected # {} => (deny \o rest)[1] = deny[1]
  BY <1>3, <1>4, ConcatProperties, LenProperties
<1> QED BY <1>5, <1>6 DEF deny

\* A policy's ACLs are sound, whatever its rules and however many.
LEMMA PolicyACLsSound ==
  ASSUME NEW p \in Policies, NEW selected \in SUBSET Pods
  PROVE  PolicyACLs(p, selected) \in Seq(ACLs) /\ Sound(PolicyACLs(p, selected))
<1> DEFINE part(i) == DirectionACLs(p, p.types[i], selected)
           seqs == [i \in DOMAIN p.types |-> part(i)]
           all == FlattenSeq(seqs)
<1>1. p.types \in Seq({"Ingress", "Egress"})
  BY PolicyAssumption
<1>2. /\ DOMAIN p.types = 1 .. Len(p.types) /\ Len(p.types) \in Nat
      /\ \A i \in DOMAIN p.types : p.types[i] \in {"Ingress", "Egress"}
  BY <1>1, LenProperties, ElementOfSeq
<1>3. ASSUME NEW i \in DOMAIN p.types
      PROVE  /\ part(i) \in Seq(Of(p.types[i], selected)) /\ part(i) \in Seq(ACLs)
             /\ selected # {} => part(i)[1] = DefaultDeny(p.types[i], selected)[1]
  <2>1. /\ part(i) \in Seq(Of(p.types[i], selected))
        /\ selected # {} => part(i)[1] = DefaultDeny(p.types[i], selected)[1]
    BY <1>2, DirectionTyped
  <2>2. Of(p.types[i], selected) \subseteq ACLs
    BY DEF Of
  <2> QED BY <2>1, <2>2, SeqMonotonic
<1> HIDE DEF part
<1>4. seqs \in Seq(Seq(ACLs)) /\ DOMAIN seqs = DOMAIN p.types /\ \A i \in DOMAIN p.types : seqs[i] = part(i)
  BY <1>2, <1>3, IsASeq
<1> HIDE DEF seqs
<1>5. /\ all \in Seq(ACLs)
      /\ \A k \in DOMAIN all : \E i \in DOMAIN p.types : InOrder(all, k, part(i))
  BY <1>4, FlattenSeqInOrder
<1>6. PolicyACLs(p, selected) = all
  BY DEF PolicyACLs, seqs, part
<1> HIDE DEF all
<1>7. ASSUME NEW k \in DOMAIN all
      PROVE  /\ all[k].match.pods = selected
             /\ selected # {} => \E j \in 1 .. k : all[j] = DefaultDeny(all[k].dir, selected)[1]
  <2>1. PICK i \in DOMAIN p.types : InOrder(all, k, part(i))
    BY <1>5
  <2>2. PICK m \in DOMAIN part(i) :
          all[k] = part(i)[m] /\ \A m2 \in 1 .. m : \E k2 \in 1 .. k : all[k2] = part(i)[m2]
    BY <2>1 DEF InOrder
  <2>3. part(i)[m] \in Of(p.types[i], selected) /\ m \in Nat /\ m >= 1
    BY <1>3, <2>2, ElementOfSeq, LenProperties
  <2>4. all[k].dir = p.types[i] /\ all[k].match.pods = selected /\ 1 \in 1 .. m
    BY <2>2, <2>3 DEF Of
  <2>5. \E k2 \in 1 .. k : all[k2] = part(i)[1]
    BY <2>2, <2>4
  <2> QED BY <1>3, <2>4, <2>5
<1>8. Denied(all)
  BY <1>7 DEF Denied
<1>9. Uniform(all)
  BY <1>7 DEF Uniform
<1> QED BY <1>5, <1>6, <1>8, <1>9 DEF Sound

-----------------------------------------------------------------------------
(* The inductive invariant.                                                *)

Works == [pc : {"idle", "cleanup", "create"}, todo : Seq(ACLs)]

Types ==
  /\ policy \in Policies \cup {NoPolicy}
  /\ pods \in SUBSET Pods /\ ips \in SUBSET pods
  /\ acls \in Seq(ACLs) /\ work \in Works
  /\ queued \in {"no", "yes", "backoff"} /\ unseen \in BOOLEAN /\ missed \in BOOLEAN
  /\ work.pc = "idle" => work = Idle
  /\ work.pc = "create" => work.todo # <<>>

\* The ACLs that are there are sound, and will be with those still to come.
SoundInv ==
  /\ Sound(acls)
  /\ work.pc = "cleanup" => Sound(work.todo)
  /\ work.pc = "create" => Sound(acls \o work.todo)

\* Unless the policy is queued, the reconcile in progress, or the last one, goes
\* by the policy and the pods as they are.
FollowInv ==
  queued = "no" /\ policy # NoPolicy /\ pods # {} /\ ~ unseen =>
    /\ work.pc = "idle" => acls = PolicyACLs(policy, ips)
    /\ work.pc = "cleanup" => work.todo = PolicyACLs(policy, ips)
    /\ work.pc = "create" => acls \o work.todo = PolicyACLs(policy, ips)

\* Unless it is queued, a policy that is gone has been seen to be gone.
LeftInv ==
  queued = "no" /\ policy = NoPolicy =>
    /\ work.todo = <<>>
    /\ work.pc = "idle" => acls = <<>> \/ missed

Inv == Types /\ SoundInv /\ FollowInv /\ LeftInv

\* No ACLs at all are sound.
LEMMA NoneSound == Sound(<<>>)
BY DEF Sound, Denied, Uniform

\* The next ACL put behind the others is the beginning of all of them.
LEMMA Moves ==
  ASSUME NEW s \in Seq(ACLs), NEW t \in Seq(ACLs), t # <<>>
  PROVE  /\ Head(t) \in ACLs /\ Tail(t) \in Seq(ACLs) /\ Append(s, Head(t)) \in Seq(ACLs)
         /\ Append(s, Head(t)) \o Tail(t) = s \o t
         /\ Tail(t) = <<>> => Append(s, Head(t)) = s \o t
         /\ Sound(s \o t) => Sound(Append(s, Head(t)))
<1> DEFINE a == Append(s, Head(t))
           r == Tail(t)
           c == s \o t
<1>1. Head(t) \in ACLs /\ r \in Seq(ACLs) /\ a \in Seq(ACLs) /\ c \in Seq(ACLs)
  BY HeadTailProperties, AppendProperties, ConcatProperties
<1>2. /\ Len(s) \in Nat /\ Len(t) \in Nat /\ Len(t) > 0 /\ Len(r) = Len(t) - 1
      /\ Len(a) = Len(s) + 1 /\ Len(c) = Len(s) + Len(t)
      /\ \A i \in 1 .. Len(r) : r[i] = t[i + 1]
      /\ t[1] = Head(t)
  BY HeadTailProperties, AppendProperties, ConcatProperties, LenProperties, EmptySeq
<1>3. \A i \in 1 .. Len(s) + Len(t) : c[i] = IF i <= Len(s) THEN s[i] ELSE t[i - Len(s)]
  BY ConcatProperties
<1>4. \A i \in 1 .. Len(s) + 1 : a[i] = IF i = Len(s) + 1 THEN Head(t) ELSE s[i]
  BY <1>1, AppendProperties
<1> HIDE DEF a, r, c
<1>5. \A i \in 1 .. Len(a) : a[i] = c[i]
  BY <1>2, <1>3, <1>4
<1>6. Len(a) <= Len(c)
  BY <1>2
<1>7. Sound(c) => Sound(a)
  BY <1>1, <1>5, <1>6, SoundPrefix
<1>8. a \o r = c
  <2>1. /\ a \o r \in Seq(ACLs) /\ Len(a \o r) = Len(a) + Len(r)
        /\ \A i \in 1 .. Len(a) + Len(r) : (a \o r)[i] = IF i <= Len(a) THEN a[i] ELSE r[i - Len(a)]
    BY <1>1, ConcatProperties
  <2>2. Len(a) + Len(r) = Len(c)
    BY <1>2
  <2>3. ASSUME NEW i \in 1 .. Len(c) PROVE (a \o r)[i] = c[i]
    <3>1. CASE i <= Len(a)
      BY <1>2, <1>5, <2>1, <2>2, <3>1
    <3>2. CASE ~ (i <= Len(a))
      <4>1. i - Len(a) \in 1 .. Len(r) /\ i - Len(a) + 1 = i - Len(s) /\ ~ (i <= Len(s))
        BY <1>2, <2>2, <3>2
      <4>2. (a \o r)[i] = r[i - Len(a)] /\ r[i - Len(a)] = t[i - Len(s)] /\ c[i] = t[i - Len(s)]
        BY <1>2, <1>3, <2>1, <2>2, <3>2, <4>1
      <4> QED BY <4>2
    <3> QED BY <3>1, <3>2
  <2> QED BY <1>1, <2>1, <2>2, <2>3, SeqEqual
<1>9. r = <<>> => a = c
  BY <1>1, <1>8, ConcatEmptySeq
<1> QED BY <1>1, <1>7, <1>8, <1>9 DEF a, r, c

\* The invariant holds at the start.
LEMMA InvInit == Init => Inv
<1> SUFFICES ASSUME Init PROVE Inv
  OBVIOUS
<1>1. Idle \in Works /\ Idle.pc = "idle" /\ Idle.todo = <<>>
  BY EmptySeq DEF Idle, Works
<1>2. Types
  BY <1>1, EmptySeq DEF Init, Types
<1>3. SoundInv
  BY <1>1, NoneSound DEF Init, SoundInv
<1>4. FollowInv
  BY <1>1 DEF Init, FollowInv
<1>5. LeftInv
  BY <1>1 DEF Init, LeftInv
<1> QED BY <1>2, <1>3, <1>4, <1>5 DEF Inv

\* A transaction that succeeds, or fails, leaves the worker in one of these.
LEMMA ThenTyped ==
  ASSUME NEW todo \in Seq(ACLs), Then(todo)
  PROVE  /\ work' \in Works /\ queued' = queued
         /\ work'.pc = "idle" => work' = Idle /\ todo = <<>>
         /\ work'.pc = "create" => work'.todo = todo /\ todo # <<>>
         /\ work'.pc # "cleanup"
<1>1. Idle \in Works /\ Idle.pc = "idle" /\ Idle.todo = <<>>
  BY EmptySeq DEF Idle, Works
<1> QED BY <1>1 DEF Then, Works

\* Every step keeps the invariant.
LEMMA InvKept ==
  ASSUME Inv, [Next]_vars
  PROVE  Inv'
<1>0. /\ policy \in Policies \cup {NoPolicy}
      /\ pods \in SUBSET Pods /\ ips \in SUBSET pods
      /\ acls \in Seq(ACLs) /\ work \in Works
      /\ queued \in {"no", "yes", "backoff"} /\ unseen \in BOOLEAN /\ missed \in BOOLEAN
      /\ work.pc = "idle" => work = Idle
      /\ work.pc = "create" => work.todo # <<>>
  BY DEF Inv, Types
<1>1. work.pc \in {"idle", "cleanup", "create"} /\ work.todo \in Seq(ACLs)
  BY <1>0 DEF Works
<1>2. Idle \in Works /\ Idle.pc = "idle" /\ Idle.todo = <<>>
  BY EmptySeq DEF Idle, Works
<1>3. Sound(acls) /\ SoundInv /\ FollowInv /\ LeftInv
  BY DEF Inv, SoundInv
<1>4. CASE EditPolicy
  <2>1. /\ policy' \in Policies \cup {NoPolicy} /\ queued' = "yes"
        /\ UNCHANGED <<pods, ips, unseen, acls, work, missed>>
    BY <1>4 DEF EditPolicy, Edit
  <2>2. Types'
    BY <1>0, <2>1 DEF Types
  <2>3. SoundInv'
    BY <1>3, <2>1 DEF SoundInv
  <2> QED BY <2>1, <2>2, <2>3 DEF Inv, FollowInv, LeftInv
<1>5. CASE EditPods
  <2>1. /\ unseen' = TRUE /\ UNCHANGED <<policy, queued, acls, work, missed>>
        /\ pods' \in SUBSET Pods /\ ips' \in SUBSET pods'
    BY <1>0, <1>5 DEF EditPods, Edit
  <2>2. Types'
    BY <1>0, <2>1 DEF Types
  <2>3. SoundInv'
    BY <1>3, <2>1 DEF SoundInv
  <2>4. LeftInv'
    BY <1>3, <2>1 DEF LeftInv
  <2> QED BY <2>1, <2>2, <2>3, <2>4 DEF Inv, FollowInv
<1>6. CASE BackoffExpires
  <2>1. queued' = "yes" /\ UNCHANGED <<policy, pods, ips, acls, work, unseen, missed>>
    BY <1>6 DEF BackoffExpires, cluster
  <2>2. Types'
    BY <1>0, <2>1 DEF Types
  <2>3. SoundInv'
    BY <1>3, <2>1 DEF SoundInv
  <2> QED BY <2>1, <2>2, <2>3 DEF Inv, FollowInv, LeftInv
<1>7. CASE Reconcile
  <2>1. /\ work = Idle /\ queued' = "no" /\ unseen' = FALSE
        /\ UNCHANGED <<policy, pods, ips, acls, missed>>
    BY <1>7 DEF Reconcile, cluster
  <2>2. \/ policy = NoPolicy /\ work' = [Idle EXCEPT !.pc = "cleanup"]
        \/ policy # NoPolicy /\ pods = {} /\ work' = Idle
        \/ policy # NoPolicy /\ work' = [pc |-> "cleanup", todo |-> PolicyACLs(policy, ips)]
    BY <1>7 DEF Reconcile
  <2>3. CASE policy = NoPolicy /\ work' = [Idle EXCEPT !.pc = "cleanup"]
    <3>1. work' \in Works /\ work'.pc = "cleanup" /\ work'.todo = <<>>
      BY <1>2, <2>3 DEF Works
    <3>2. Types'
      BY <1>0, <2>1, <3>1 DEF Types
    <3>3. SoundInv'
      BY <1>3, <2>1, <3>1, NoneSound DEF SoundInv
    <3>4. FollowInv' /\ LeftInv'
      BY <2>1, <2>3, <3>1 DEF FollowInv, LeftInv
    <3> QED BY <3>2, <3>3, <3>4 DEF Inv
  <2>4. CASE policy # NoPolicy /\ pods = {} /\ work' = Idle
    <3>1. Types'
      BY <1>0, <1>2, <2>1, <2>4 DEF Types
    <3>2. SoundInv'
      BY <1>2, <1>3, <2>1, <2>4 DEF SoundInv
    <3>3. FollowInv' /\ LeftInv'
      BY <2>1, <2>4 DEF FollowInv, LeftInv
    <3> QED BY <3>1, <3>2, <3>3 DEF Inv
  <2>5. CASE policy # NoPolicy /\ work' = [pc |-> "cleanup", todo |-> PolicyACLs(policy, ips)]
    <3>1. PolicyACLs(policy, ips) \in Seq(ACLs) /\ Sound(PolicyACLs(policy, ips))
      BY <1>0, <2>5, PolicyACLsSound
    <3>2. work' \in Works /\ work'.pc = "cleanup" /\ work'.todo = PolicyACLs(policy, ips)
      BY <2>5, <3>1 DEF Works
    <3>3. Types'
      BY <1>0, <2>1, <3>2 DEF Types
    <3>4. SoundInv'
      BY <1>3, <2>1, <3>1, <3>2 DEF SoundInv
    <3>5. FollowInv' /\ LeftInv'
      BY <2>1, <2>5, <3>2 DEF FollowInv, LeftInv
    <3> QED BY <3>3, <3>4, <3>5 DEF Inv
  <2> QED BY <2>2, <2>3, <2>4, <2>5
<1>8. ASSUME Fail, acls' \in Seq(ACLs), Sound(acls'), UNCHANGED <<policy, pods, ips, unseen, missed>>
      PROVE  Inv'
  <2>1. work' = Idle /\ queued' \in {"yes", "backoff"}
    BY <1>0, <1>8 DEF Fail
  <2>2. Types'
    BY <1>0, <1>2, <1>8, <2>1 DEF Types
  <2>3. SoundInv'
    BY <1>2, <1>8, <2>1 DEF SoundInv
  <2> QED BY <2>1, <2>2, <2>3 DEF Inv, FollowInv, LeftInv
<1>9. CASE CleanupACLs
  <2>1. /\ work.pc = "cleanup" /\ UNCHANGED <<policy, pods, ips, unseen, missed>>
        /\ \/ acls' = <<>> /\ Then(work.todo)
           \/ acls' \in {acls, <<>>} /\ Fail
    BY <1>9 DEF CleanupACLs, Transact, cluster
  <2>2. CASE acls' \in {acls, <<>>} /\ Fail
    <3>1. acls' \in Seq(ACLs) /\ Sound(acls')
      BY <1>0, <1>3, <2>2, NoneSound, EmptySeq
    <3> QED BY <1>8, <2>1, <2>2, <3>1
  <2>3. CASE acls' = <<>> /\ Then(work.todo)
    <3>1. /\ work' \in Works /\ queued' = queued
          /\ work'.pc = "idle" => work' = Idle /\ work.todo = <<>>
          /\ work'.pc = "create" => work'.todo = work.todo /\ work.todo # <<>>
          /\ work'.pc # "cleanup"
      BY <1>1, <2>3, ThenTyped
    <3>2. <<>> \o work.todo = work.todo
      BY <1>1, ConcatEmptySeq
    <3>3. Types'
      BY <1>0, <2>1, <2>3, <3>1, EmptySeq DEF Types
    <3>4. SoundInv'
      BY <1>3, <2>1, <2>3, <3>1, <3>2, NoneSound DEF SoundInv
    <3>5. FollowInv'
      BY <1>3, <2>1, <2>3, <3>1, <3>2 DEF FollowInv
    <3>6. LeftInv'
      BY <1>2, <1>3, <2>1, <2>3, <3>1 DEF LeftInv, Works
    <3> QED BY <3>3, <3>4, <3>5, <3>6 DEF Inv
  <2> QED BY <2>1, <2>2, <2>3
<1>10. CASE CreateACL
  <2> DEFINE h == Head(work.todo)
             r == Tail(work.todo)
             a == Append(acls, h)
  <2>1. /\ work.pc = "create" /\ UNCHANGED <<policy, pods, ips, unseen, missed>>
        /\ \/ acls' = a /\ Then(r)
           \/ acls' \in {acls, a} /\ Fail
    BY <1>10 DEF CreateACL, Transact, cluster
  <2>2. work.todo # <<>> /\ Sound(acls \o work.todo)
    BY <1>0, <1>3, <2>1 DEF SoundInv
  <2>3. /\ r \in Seq(ACLs) /\ a \in Seq(ACLs) /\ a \o r = acls \o work.todo
        /\ r = <<>> => a = acls \o work.todo
        /\ Sound(a)
    BY <1>0, <1>1, <2>2, Moves
  <2> HIDE DEF h, r, a
  <2>4. CASE acls' \in {acls, a} /\ Fail
    <3>1. acls' \in Seq(ACLs) /\ Sound(acls')
      BY <1>0, <1>3, <2>3, <2>4
    <3> QED BY <1>8, <2>1, <2>4, <3>1
  <2>5. CASE acls' = a /\ Then(r)
    <3>1. /\ work' \in Works /\ queued' = queued
          /\ work'.pc = "idle" => work' = Idle /\ r = <<>>
          /\ work'.pc = "create" => work'.todo = r /\ r # <<>>
          /\ work'.pc # "cleanup"
      BY <2>3, <2>5, ThenTyped
    <3>2. Types'
      BY <1>0, <2>1, <2>3, <2>5, <3>1 DEF Types
    <3>3. SoundInv'
      BY <2>2, <2>3, <2>5, <3>1 DEF SoundInv
    <3>4. FollowInv'
      BY <1>3, <2>1, <2>3, <2>5, <3>1 DEF FollowInv
    <3>5. LeftInv'
      BY <1>3, <2>1, <2>2, <3>1 DEF LeftInv
    <3> QED BY <3>2, <3>3, <3>4, <3>5 DEF Inv
  <2> QED BY <2>1, <2>4, <2>5
<1>11. CASE Restart
  <2>1. /\ work' = Idle /\ UNCHANGED <<policy, pods, ips, acls, unseen>>
        /\ queued' = IF policy = NoPolicy THEN "no" ELSE "yes"
        /\ missed' = (missed \/ (policy = NoPolicy /\ acls # <<>>))
    BY <1>11 DEF Restart, cluster
  <2>2. missed' \in BOOLEAN /\ (policy = NoPolicy => acls = <<>> \/ missed')
    BY <1>0, <2>1
  <2>3. Types'
    BY <1>0, <1>2, <2>1, <2>2 DEF Types
  <2>4. SoundInv'
    BY <1>2, <1>3, <2>1 DEF SoundInv
  <2>5. FollowInv' /\ LeftInv'
    BY <1>2, <2>1, <2>2 DEF FollowInv, LeftInv
  <2> QED BY <2>3, <2>4, <2>5 DEF Inv
<1>12. CASE UNCHANGED vars
  <2>1. UNCHANGED <<policy, pods, ips, acls, queued, work, unseen, missed>>
    BY <1>12 DEF vars
  <2> QED BY <2>1 DEF Inv, Types, SoundInv, FollowInv, LeftInv, Sound, Denied, Uniform
<1> QED BY <1>4, <1>5, <1>6, <1>7, <1>9, <1>10, <1>11, <1>12 DEF Next, Worker

-----------------------------------------------------------------------------
(* The theorems.                                                           *)

\* The ACLs in the database, with those still to be made, are sound at every
\* moment, and are those of the policy as it is unless it is queued.
THEOREM Invariance == Spec => []Inv
<1>1. Init => Inv
  BY InvInit
<1>2. Inv /\ [Next]_vars => Inv'
  BY InvKept
<1> QED BY <1>1, <1>2, PTL DEF Spec

\* State stays well formed, no allow rule is without the default deny of its
\* pods, and no two selections of pods stand side by side, between any two
\* transactions and after any failure or restart.
THEOREM AlwaysDenied == Spec => []DeniesSound
<1>1. Inv => DeniesSound
  <2> SUFFICES ASSUME Inv PROVE DeniesSound
    OBVIOUS
  <2>1. TypeOK
    <3>1. acls \in Seq(ACLs) /\ work.todo \in Seq(ACLs) /\ work.pc \in {"idle", "cleanup", "create"}
      BY DEF Inv, Types, Works
    <3>2. Range(acls) \subseteq ACLs /\ Range(work.todo) \subseteq ACLs
      BY <3>1, RangeOfSeq
    <3> QED BY <3>1, <3>2 DEF Inv, Types, TypeOK
  <2>2. DenyFirst /\ OneSelection
    BY DEF Inv, SoundInv, Sound, Denied, Uniform, DenyFirst, OneSelection
  <2> QED BY <2>1, <2>2 DEF DeniesSound
<1> QED BY <1>1, Invariance, PTL

\* When the controller has nothing left to do, the ACLs are those of the policy
\* and the pods as they are.
THEOREM ACLsAlwaysFollow == Spec => []ACLsFollow
<1>1. Inv => ACLsFollow
  <2>1. Idle.pc = "idle"
    BY DEF Idle
  <2> QED BY <2>1 DEF Inv, FollowInv, ACLsFollow, Settled
<1> QED BY <1>1, Invariance, PTL

\* Then a policy that is gone has none, unless it went while the controller was
\* down.
THEOREM NothingIsLeft == Spec => []NoACLsLeft
<1>1. Inv => NoACLsLeft
  <2>1. Idle.pc = "idle"
    BY DEF Idle
  <2> QED BY <2>1 DEF Inv, LeftInv, NoACLsLeft, Settled
<1> QED BY <1>1, Invariance, PTL
=============================================================================
