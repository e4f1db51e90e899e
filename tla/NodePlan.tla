------------------------------ MODULE NodePlan ------------------------------
(***************************************************************************)
(* ComputeNodePlan: from the pods, nodes and DaemonSets a reconcile of a   *)
(* node-scoped PodSequence has listed, which groups are satisfied on each  *)
(* node, which gated pods may start, and when to look again.               *)
(*                                                                         *)
(* v is what was listed: v.pod, v.node and v.ds (the DaemonSets that are   *)
(* not being deleted).  A pod that is terminating or finished takes no     *)
(* part in any decision (IsActive), and neither does a missing one: both   *)
(* are "absent".  A timestamp is replaced by its age.                      *)
(*                                                                         *)
(* A definition marked "Fault" is a variant of the one after it with an    *)
(* error that code like this could have.  No specification uses it: put in *)
(* that one's place, it has to violate a property.                         *)
(***************************************************************************)
EXTENDS Integers, FiniteSets, FiniteSetsExt

CONSTANTS
    Pod, Node, DaemonSet,
    NumGroups,    \* len(spec.podGroups)
    Matches,      \* the groups whose podSelector matches a pod
    OptedIn,      \* pods and DaemonSets labelled with the sequence's name
    Bypassed,     \* pods with the bypass annotation
    Terms,        \* the node each of a pod's required affinity terms names (or None)
    Owner,        \* the DaemonSet that controls a pod, or None
    Selects,      \* the groups whose podSelector matches a DaemonSet's template
    RunsOn,       \* the nodes that a DaemonSet's template can run on, taints aside
    Tolerates,    \* the kinds of taint that a DaemonSet's template tolerates
    Require,      \* groups with policy RequireOnNode; the others are skipped
    Wait,         \* waitDuration of a group
    GateTimeout,  \* spec.gateTimeout; 0 when it is not set
    None

Group == 0 .. NumGroups - 1

\* Taints by what the controller makes of them: the sequence's own eligibility
\* taint, lifecycle taints of a booting node, taints every daemon pod tolerates
\* (unschedulable, resource pressure), and all others.
TaintKind == {"own", "transient", "pressure", "other"}

ASSUME PlanAssumption ==
    /\ NumGroups \in Nat \ {0}
    /\ Matches \in [Pod -> SUBSET Group] /\ Selects \in [DaemonSet -> SUBSET Group]
    /\ OptedIn \subseteq Pod \union DaemonSet /\ Bypassed \subseteq Pod
    /\ None \notin Node \union DaemonSet
    /\ Terms \in [Pod -> SUBSET (Node \union {None})]
    /\ Owner \in [Pod -> DaemonSet \union {None}]
    /\ RunsOn \in [DaemonSet -> SUBSET Node]
    /\ Tolerates \in [DaemonSet -> SUBSET TaintKind]
    /\ Require \subseteq Group /\ Wait \in [Group -> Nat] /\ GateTimeout \in Nat

\* A cluster has finitely many pods.
ASSUME FinitePods == IsFiniteSet(Pod)

NoGroup == -1
Unset   == -1      \* no such label or taint on the node

-----------------------------------------------------------------------------
(* Pods and DaemonSets.                                                    *)

IsActive(v, p) == v.pod[p].st # "absent"
HasGate(v, p)  == v.pod[p].st = "gated"

\* The first group a pod belongs to.
GroupIndexForPod ==
    [p \in Pod |-> IF Matches[p] = {} THEN NoGroup ELSE Min(Matches[p])]

\* The node a pod is pinned to: every affinity term names the same one.
PinnedTo ==
    [p \in Pod |-> IF \E n \in Node : Terms[p] = {n}
                     THEN CHOOSE n \in Node : Terms[p] = {n} ELSE None]

TargetNode(v, p) == IF v.pod[p].on # None THEN v.pod[p].on ELSE PinnedTo[p]

\* Fault: the groups of a node wait for every node.
PodsAnywhere(v, n, g) ==
    {p \in Pod : IsActive(v, p) /\ GroupIndexForPod[p] = g /\ TargetNode(v, p) # None}

PodsHere(v, n, g) ==
    {p \in Pod : IsActive(v, p) /\ GroupIndexForPod[p] = g /\ TargetNode(v, p) = n}

DaemonSetsForGroup(v, g) == {d \in v.ds : g \in Selects[d]}

TaintsOn(v, n) ==
    v.node[n].taints \union (IF v.node[n].taint = Unset THEN {} ELSE {"own"})

RunsDespite(d, n, taints) ==
    n \in RunsOn[d] /\ taints \subseteq Tolerates[d] \union {"pressure"}

DaemonSetShouldRunOnNode(v, d, n) == RunsDespite(d, n, TaintsOn(v, n))

\* Fault: no taint is thought of as temporary.
ExpectedOnNodeNow(v, d, n) == DaemonSetShouldRunOnNode(v, d, n)

\* A DaemonSet kept off the node by taints that will go is still expected there.
DaemonSetExpectedOnNode(v, d, n) ==
    RunsDespite(d, n, TaintsOn(v, n) \ {"own", "transient"})

-----------------------------------------------------------------------------
(* Groups on a node.                                                       *)

\* How much longer a Ready pod has to stay so.
ReadyRemaining(v, p, wait) == IF v.pod[p].age >= wait THEN 0 ELSE wait - v.pod[p].age

\* All that group g needs on node n, except for its waitDuration.
Running(v, n, g) ==
    /\ \A d \in DaemonSetsForGroup(v, g) :
          DaemonSetExpectedOnNode(v, d, n) => \E p \in PodsHere(v, n, g) : Owner[p] = d
    /\ g \in Require => PodsHere(v, n, g) # {}
    /\ \A p \in PodsHere(v, n, g) : v.pod[p].st = "ready"

Remaining(v, n, g) ==
    Max({0} \union {ReadyRemaining(v, p, Wait[g]) : p \in PodsHere(v, n, g)})

GroupSatisfiedOnNode(v, n, g) ==
    /\ Running(v, n, g)
    /\ \A p \in PodsHere(v, n, g) : ReadyRemaining(v, p, Wait[g]) = 0

Exists(v, n) == v.node[n].st # "absent"

\* Selected by spec.nodeSelector, and not being deleted.
Participating(v, n) == v.node[n].st = "in"

\* The number of consecutive groups, from the first, that are satisfied.
Satisfied(v, n) ==
    CHOOSE k \in 0 .. NumGroups :
        /\ \A g \in 0 .. k - 1 : GroupSatisfiedOnNode(v, n, g)
        /\ k < NumGroups => ~GroupSatisfiedOnNode(v, n, k)

-----------------------------------------------------------------------------
(* Gated pods.                                                             *)

Stray(p) == GroupIndexForPod[p] = NoGroup /\ p \in OptedIn

MayStart(v, p) ==
    LET n == TargetNode(v, p) IN
    \/ Stray(p)
    \/ /\ GroupIndexForPod[p] # NoGroup
       /\ \/ p \in Bypassed
          \/ n = None
          \/ ~Exists(v, n)
          \/ ~Participating(v, n)
          \/ Satisfied(v, n) >= GroupIndexForPod[p]

Ungate(v) == {p \in Pod : HasGate(v, p) /\ MayStart(v, p)}

StillGated(v) ==
    {p \in Pod : HasGate(v, p) /\ GroupIndexForPod[p] # NoGroup /\ ~MayStart(v, p)}

TimedOut(v) == {p \in StillGated(v) : GateTimeout > 0 /\ v.pod[p].age >= GateTimeout}

\* The first unsatisfied group of a node, when only its waitDuration is missing.
HeldByWait(v) ==
    {h \in Node \X Group : /\ Participating(v, h[1])
                           /\ h[2] = Satisfied(v, h[1])
                           /\ Running(v, h[1], h[2])}

WaitTimers(v) == {Remaining(v, h[1], h[2]) : h \in HeldByWait(v)}

\* Fault: the timeouts are forgotten.
TimersOfWaits(v) == WaitTimers(v)

\* What is left of those, and of the timeouts.
Timers(v) ==
    WaitTimers(v) \union
        (IF GateTimeout = 0 THEN {}
         ELSE {GateTimeout - v.pod[p].age : p \in StillGated(v) \ TimedOut(v)})

\* Fault: the last of the times counts.
RequeueAfterLast(v, resync) == Max(Timers(v) \union {resync})

\* When to reconcile again: the first of these times, at most the resync period.
RequeueAfter(v, resync) == Min(Timers(v) \union {resync})

\* Fault: the first group is not looked at.
MissingTolerationLater(v, method) ==
    {d \in v.ds : method = "Taint" /\ 1 \in Selects[d] /\ "own" \notin Tolerates[d]}

\* DaemonSets of the sequence that its own taint would keep off a node.
MissingToleration(v, method) ==
    {d \in v.ds : method = "Taint" /\ Selects[d] # {} /\ "own" \notin Tolerates[d]}

-----------------------------------------------------------------------------
(* Steering pods whose node the scheduler chooses.                         *)

\* What an unpinned pod gets before its gate goes; a bypassed one gets nothing.
Constraint(v, p, method) ==
    IF p \in Bypassed \/ GroupIndexForPod[p] = NoGroup \/ TargetNode(v, p) # None THEN {}
    ELSE IF method = "Taint" THEN {"tolerations"}
    ELSE IF GroupIndexForPod[p] >= 1 THEN {"affinity"}
    ELSE {}

\* The affinity of group k: "Gt k-1" on the node's label.
\* Fault: off by one.
EligibilityRequirementAtLeast(k, label) == label # Unset /\ label >= k - 1

EligibilityRequirement(k, label) == label # Unset /\ label > k - 1

\* Fault: off by one.
EligibilityTolerationsEarly(k, value) == k = 0 \/ value \in k - 1 .. NumGroups - 1

\* The tolerations of group k: any value for the first group, else one each for k to N-1.
EligibilityTolerations(k, value) == k = 0 \/ value \in k .. NumGroups - 1
=============================================================================
