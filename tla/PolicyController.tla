-------------------------- MODULE PolicyController --------------------------
(***************************************************************************)
(* pkg/ovn/policy_controller.go with pkg/ovndb/acl.go: one NetworkPolicy   *)
(* and the ACLs made for it.  There is one worker; a step is one           *)
(* transaction.  policy, pods and ips are the manager's cache.  A match is *)
(* the record of the addresses, CIDRs and ports it asks for, where an      *)
(* empty set asks for nothing.                                             *)
(***************************************************************************)
EXTENDS Naturals, Sequences, FiniteSets, SequencesExt

CONSTANTS
  Policies,     \* specs: [types, Ingress, Egress]
  NoPolicy,
  Pods,
  MaxPriority,  \* the highest priority OVN takes
  RuleBase,     \* ACLPriorityAllowRuleBase
  MaxEdits,     \* bound: changes made from outside
  MaxUpsets     \* bound: failed calls, lost answers and restarts

Peers == [kind : {"ipBlock", "podSelector", "namespaceSelector"}, cidr : Nat]

Rules == [peers : Seq(Peers), ports : SUBSET Nat]

ASSUME PolicyAssumption ==
  /\ NoPolicy \notin Policies
  /\ Policies \subseteq [types : Seq({"Ingress", "Egress"}), Ingress : Seq(Rules), Egress : Seq(Rules)]
  /\ {MaxPriority, RuleBase, MaxEdits, MaxUpsets} \subseteq Nat /\ 0 < RuleBase

VARIABLES
  policy,
  pods,      \* pods of the namespace that the policy's selector matches
  ips,       \* those of them that have an address
  acls,      \* OVN: the policy's ACLs, in the order of creation
  queued,    \* "no", "yes", or "backoff"
  work,      \* the reconcile in progress
  unseen,    \* history: the pods have changed since a reconcile looked
  missed,    \* history: the policy went while the controller was down
  spent

vars == <<policy, pods, ips, acls, queued, work, unseen, missed, spent>>

cluster == <<policy, pods, ips>>

-----------------------------------------------------------------------------
(* Conversion of a policy to ACLs.                                         *)

\* getIngressSourceCIDRs and getEgressDestCIDRs: peers that are selectors of
\* pods or namespaces add nothing, so a rule with no other matches any address.
SourceCIDRs(rule) == {p.cidr : p \in {q \in Range(rule.peers) : q.kind = "ipBlock"}}

\* getIngressPeerCount and getEgressPeerCount.
PeerCount(rule) == IF rule.peers = <<>> THEN 1 ELSE Len(rule.peers)

\* ConvertIngressRuleToACLMatch and its twin; "" when nothing is asked for.
ConvertRule(selected, rule) == [pods |-> selected, cidrs |-> SourceCIDRs(rule), ports |-> rule.ports]

Empty == [pods |-> {}, cidrs |-> {}, ports |-> {}]

DenyMatch(selected) == [Empty EXCEPT !.pods = selected]

GetACLPriority(idx) == RuleBase + idx - 1

\* buildDefaultDenyMatch is empty, and no ACL made, when no pod has an address.
DefaultDeny(dir, selected) ==
  IF selected = {} THEN <<>>
  ELSE <<[dir |-> dir, rule |-> 0, priority |-> RuleBase - 1, action |-> "drop",
          match |-> DenyMatch(selected)]>>

\* One ACL for each peer of a rule, all of them for the whole rule.
Allow(dir, selected, idx, rule) ==
  IF ConvertRule(selected, rule) = Empty THEN <<>>
  ELSE [i \in 1 .. PeerCount(rule) |->
          [dir |-> dir, rule |-> idx, priority |-> GetACLPriority(idx), action |-> "allow",
           match |-> ConvertRule(selected, rule)]]

\* createIngressACLs and createEgressACLs, in the order of policyTypes.
DirectionACLs(p, dir, selected) ==
  DefaultDeny(dir, selected)
    \o FlattenSeq([i \in DOMAIN p[dir] |-> Allow(dir, selected, i, p[dir][i])])

PolicyACLs(p, selected) ==
  FlattenSeq([i \in DOMAIN p.types |-> DirectionACLs(p, p.types[i], selected)])

-----------------------------------------------------------------------------
Idle == [pc |-> "idle", todo |-> <<>>]

Init ==
  /\ policy = NoPolicy /\ pods = {} /\ ips = {}
  /\ acls = <<>> /\ queued = "no" /\ work = Idle
  /\ unseen = FALSE /\ missed = FALSE
  /\ spent = [edits |-> 0, upsets |-> 0]

Edit ==
  /\ spent.edits < MaxEdits
  /\ spent' = [spent EXCEPT !.edits = @ + 1]
  /\ UNCHANGED <<acls, work, missed>>

EditPolicy ==
  /\ Edit
  /\ \E p \in (Policies \cup {NoPolicy}) \ {policy} : policy' = p
  /\ queued' = "yes"
  /\ UNCHANGED <<pods, ips, unseen>>

\* Pods come, get their address and go; SetupWithManager watches policies only.
EditPods ==
  /\ Edit
  /\ \E p \in Pods :
       \/ p \notin pods /\ pods' = pods \cup {p} /\ UNCHANGED ips
       \/ p \in pods \ ips /\ ips' = ips \cup {p} /\ UNCHANGED pods
       \/ p \in pods /\ pods' = pods \ {p} /\ ips' = ips \ {p}
  /\ unseen' = TRUE
  /\ UNCHANGED <<policy, queued>>

BackoffExpires ==
  /\ queued = "backoff" /\ queued' = "yes"
  /\ UNCHANGED <<cluster, acls, work, unseen, missed, spent>>

Upset == spent.upsets < MaxUpsets /\ spent' = [spent EXCEPT !.upsets = @ + 1]

\* Mutation of Reconcile: without pods there is nothing to look at at all.
ReconcileByPods ==
  /\ work = Idle /\ queued = "yes" /\ queued' = "no"
  /\ work' = IF pods = {} THEN Idle
             ELSE IF policy = NoPolicy THEN [Idle EXCEPT !.pc = "cleanup"]
             ELSE [pc |-> "cleanup", todo |-> PolicyACLs(policy, ips)]
  /\ unseen' = FALSE
  /\ UNCHANGED <<cluster, acls, missed, spent>>

\* Reconcile and processNetworkPolicy up to the first transaction.  When the
\* policy selects no pod, the ACLs are left as they are.
Reconcile ==
  /\ work = Idle /\ queued = "yes" /\ queued' = "no"
  /\ work' = IF policy = NoPolicy THEN [Idle EXCEPT !.pc = "cleanup"]
             ELSE IF pods = {} THEN Idle
             ELSE [pc |-> "cleanup", todo |-> PolicyACLs(policy, ips)]
  /\ unseen' = FALSE
  /\ UNCHANGED <<cluster, acls, missed, spent>>

\* An error is returned: the policy comes back, if no event brings it sooner.
Fail ==
  /\ work' = Idle
  /\ queued' = IF queued = "no" THEN "backoff" ELSE queued

Then(todo) ==
  /\ work' = IF todo = <<>> THEN Idle ELSE [pc |-> "create", todo |-> todo]
  /\ UNCHANGED queued

\* A transaction that makes the ACLs new: done; or failed, or done with its
\* answer lost.
Transact(new, todo) ==
  \/ acls' = new /\ Then(todo) /\ UNCHANGED spent
  \/ Upset /\ acls' \in {acls, new} /\ Fail

\* Mutation of CleanupACLs: one ACL to a transaction, the oldest first.
CleanupOneByOne ==
  /\ work.pc = "cleanup"
  /\ IF acls = <<>> THEN Then(work.todo) /\ UNCHANGED <<acls, spent>>
     ELSE \/ acls' = Tail(acls) /\ UNCHANGED <<work, queued, spent>>
          \/ Upset /\ acls' \in {acls, Tail(acls)} /\ Fail
  /\ UNCHANGED <<cluster, unseen, missed>>

\* DeleteACLsByPolicy: all of them in one transaction, or none when there are
\* none.
CleanupACLs ==
  /\ work.pc = "cleanup"
  /\ Transact(<<>>, work.todo)
  /\ UNCHANGED <<cluster, unseen, missed>>

\* Mutation of CreateACL: an ACL that fails is left out.
CreateACLOrSkip ==
  /\ work.pc = "create"
  /\ \/ /\ Head(work.todo).priority <= MaxPriority
        /\ acls' = Append(acls, Head(work.todo)) /\ UNCHANGED spent
     \/ Upset /\ UNCHANGED acls
     \/ Head(work.todo).priority > MaxPriority /\ UNCHANGED <<acls, spent>>
  /\ Then(Tail(work.todo))
  /\ UNCHANGED <<cluster, unseen, missed>>

\* A priority out of range is refused before the transaction, each time.
CreateACL ==
  /\ work.pc = "create"
  /\ IF Head(work.todo).priority > MaxPriority
     THEN Fail /\ UNCHANGED <<acls, spent>>
     ELSE Transact(Append(acls, Head(work.todo)), Tail(work.todo))
  /\ UNCHANGED <<cluster, unseen, missed>>

\* The initial list brings the policy back, if it is still there.
Restart ==
  /\ Upset
  /\ work' = Idle
  /\ queued' = IF policy = NoPolicy THEN "no" ELSE "yes"
  /\ missed' = (missed \/ (policy = NoPolicy /\ acls # <<>>))
  /\ UNCHANGED <<cluster, acls, unseen>>

-----------------------------------------------------------------------------
Worker == Reconcile \/ CleanupACLs \/ CreateACL

Next == EditPolicy \/ EditPods \/ Worker \/ BackoffExpires \/ Restart

Spec == Init /\ [][Next]_vars

FairSpec == Spec /\ WF_vars(Worker) /\ WF_vars(BackoffExpires)

-----------------------------------------------------------------------------
(* Properties                                                              *)

ACLs == [dir : {"Ingress", "Egress"}, rule : Nat, priority : Nat,
         action : {"drop", "allow"}, match : [pods : SUBSET Pods, cidrs : SUBSET Nat, ports : SUBSET Nat]]

TypeOK ==
  /\ policy \in Policies \cup {NoPolicy} /\ ips \subseteq pods /\ pods \subseteq Pods
  /\ Range(acls) \cup Range(work.todo) \subseteq ACLs
  /\ queued \in {"no", "yes", "backoff"} /\ work.pc \in {"idle", "cleanup", "create"}
  /\ {unseen, missed} \subseteq BOOLEAN

Settled == work = Idle /\ queued = "no"

\* When the controller has nothing left to do, the ACLs are exactly those of the
\* policy as it is now, each made once, for the pods as they are now: answers
\* that were lost, failures half way and edits under way leave no doubles and
\* nothing of an older version.  The pods may have changed unseen, and a policy
\* that selects none leaves what was there.
ACLsFollow ==
  Settled /\ policy # NoPolicy /\ pods # {} /\ ~ unseen => acls = PolicyACLs(policy, ips)

\* Then, too, a policy that is gone has no ACLs, unless it went while the
\* controller was down.
NoACLsLeft == Settled /\ policy = NoPolicy => acls = <<>> \/ missed

\* At no time is there an allow rule for pods whose default deny is missing:
\* deletions are in one transaction and the denial is made first.
DenyFirst ==
  \A i \in DOMAIN acls :
    acls[i].action = "allow" /\ acls[i].match.pods # {} =>
      \E j \in 1 .. i : acls[j] = DefaultDeny(acls[i].dir, acls[i].match.pods)[1]

\* At no time do ACLs for two different selections of pods stand side by side.
OneSelection ==
  \A i, j \in DOMAIN acls : acls[i].match.pods = acls[j].match.pods

\* What holds in every window between the two transactions of a replacement.
DeniesSound == TypeOK /\ DenyFirst /\ OneSelection

\* A policy's ACLs get there, by and by, unless a rule has a priority beyond
\* OVN's range.
InRange(p) == \A i \in DOMAIN PolicyACLs(p, Pods) : PolicyACLs(p, Pods)[i].priority <= MaxPriority

Served(p) == policy = p /\ pods # {} /\ InRange(p) /\ ~ unseen

PolicySettles ==
  \A p \in Policies : Served(p) ~> ~ Served(p) \/ acls = PolicyACLs(p, ips)
=============================================================================
