------------------------------ MODULE NodeScope ------------------------------
(***************************************************************************)
(* What a reconcile of a node-scoped PodSequence makes of its plan: the    *)
(* label and taint of each node, the status, the events that run it again, *)
(* and how the scheduler and the controllers of pods respond to it.        *)
(*                                                                         *)
(* v is a state of the cluster, as the server has it or as it was listed.  *)
(***************************************************************************)
EXTENDS NodePlan

\* A DaemonSet's pods are pinned to their nodes and carry the labels of its template.
ASSUME DaemonPodAssumption ==
    \A p \in Pod : Owner[p] # None => /\ \E n \in Node : Terms[p] = {n}
                                     /\ Matches[p] \subseteq Selects[Owner[p]]

Methods == {"NodeLabel", "Taint"}

ReleasedLabelValue == 999999

NoPod  == [st |-> "absent", age |-> 0, on |-> None, rule |-> {}]
NoNode == [st |-> "absent", taints |-> {}, label |-> Unset, taint |-> Unset]

-----------------------------------------------------------------------------
(* What the reconciler wants.                                              *)

\* Pods not scheduled yet still require the eligibility label.
PendingRequiredKeys(v) ==
    \E p \in Pod : IsActive(v, p) /\ v.pod[p].on = None /\ "affinity" \in v.pod[p].rule

\* syncNodeEligibility: the label and the taint that a node should have.
WantLabel(v, n, method) ==
    IF method = "Taint" /\ v.node[n].label # Unset /\ PendingRequiredKeys(v) THEN ReleasedLabelValue
    ELSE IF method = "NodeLabel" /\ Participating(v, n) THEN Satisfied(v, n)
    ELSE Unset

\* Fault: a satisfied node keeps a taint.
WantTaintAlways(v, n, method) ==
    IF method = "Taint" /\ Participating(v, n) THEN Satisfied(v, n) ELSE Unset

WantTaint(v, n, method) ==
    IF method = "Taint" /\ Participating(v, n) /\ Satisfied(v, n) < NumGroups
      THEN Satisfied(v, n) ELSE Unset

\* setNodeScopedStatus, with the counts as the sets that are counted.
NodeScopedStatus(v, method) ==
    LET total     == {n \in Node : Participating(v, n)}
        satisfied == {n \in total : Satisfied(v, n) >= NumGroups}
        failed    == {TargetNode(v, p) : p \in TimedOut(v)} IN
    [phase     |-> IF satisfied = total THEN "Active" ELSE "InProgress",
     idx       |-> Min({NumGroups} \union {Satisfied(v, n) : n \in total}),
     satisfied |-> satisfied,
     failed    |-> failed,
     gated     |-> Cardinality(StillGated(v)),
     degraded  |-> failed # {} \/ MissingToleration(v, method) # {}]

NoStatus == [phase |-> "none", idx |-> 0, satisfied |-> {}, failed |-> {}, gated |-> 0,
             degraded |-> FALSE]

-----------------------------------------------------------------------------
(* Which events enqueue the sequence: a pod's (mapPod), a DaemonSet's      *)
(* (mapDaemonSet), and those of nodes that the predicate lets through.     *)

MapPod(p)       == p \in OptedIn \/ GroupIndexForPod[p] # NoGroup
MapDaemonSet(d) == d \in OptedIn \/ Selects[d] # {}

\* Fault: label changes are not watched.
NodeChangePredicateOnlyTaints(old, new) ==
    \/ old.st = "absent" \/ new.st = "absent"
    \/ old.taints # new.taints \/ old.taint # new.taint

\* Creations, removals and changes of labels or taints: a deletion mark, or a change of
\* a node's status, goes unnoticed.
NodeChangePredicate(old, new) ==
    \/ old.st = "absent" \/ new.st = "absent"
    \/ old.taints # new.taints \/ old.taint # new.taint
    \/ old.label # new.label \/ {old.st, new.st} = {"in", "out"}

-----------------------------------------------------------------------------
(* Pods and the rest of the cluster.                                       *)

\* A daemon pod is created for a node that its DaemonSet should run on.
MayCreate(v, p) ==
    /\ v.pod[p] = NoPod
    /\ Owner[p] # None => /\ Owner[p] \in v.ds /\ Exists(v, TargetNode(v, p))
                          /\ DaemonSetShouldRunOnNode(v, Owner[p], TargetNode(v, p))

\* Pods of a removed node or DaemonSet are deleted too.
Garbage(v, p) ==
    /\ v.pod[p] # NoPod
    /\ \/ \E n \in Node : TargetNode(v, p) = n /\ ~Exists(v, n)
       \/ Owner[p] \in DaemonSet \ v.ds

Tolerated(v, p, n) ==
    IF Owner[p] # None
      THEN TaintsOn(v, n) \subseteq Tolerates[Owner[p]] \union {"pressure"}
      ELSE /\ v.node[n].taints = {}
           /\ \/ v.node[n].taint = Unset
              \/ /\ "tolerations" \in v.pod[p].rule
                 /\ EligibilityTolerations(GroupIndexForPod[p], v.node[n].taint)

CanBind(v, p, n) ==
    /\ Exists(v, n) /\ PinnedTo[p] \in {n, None}
    /\ Tolerated(v, p, n)
    /\ "affinity" \in v.pod[p].rule =>
          EligibilityRequirement(GroupIndexForPod[p], v.node[n].label)
=============================================================================
