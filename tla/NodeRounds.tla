----------------------------- MODULE NodeRounds -----------------------------
(***************************************************************************)
(* A node-scoped PodSequence, one reconcile at a time: the cluster changes *)
(* between two rounds and each round lists everything at one moment and    *)
(* writes all that its plan asks for (Round is the whole of                *)
(* reconcileNodeScoped).  It shows whether the plan is the right one and   *)
(* whether the watches and timers run it often enough.                     *)
(*                                                                         *)
(* A Tick is one unit of time.  Ages stop at the longest delay anything    *)
(* waits for, so time is not bounded.                                      *)
(*                                                                         *)
(* A definition marked "Fault" is a variant of the one after it with an    *)
(* error that code like this could have.  No specification uses it: put in *)
(* that one's place, it has to violate a property.                         *)
(***************************************************************************)
EXTENDS NodeScope

CONSTANTS
    Present,    \* nodes and DaemonSets that are there when the controller starts
    FailOpen,   \* pods that may be created without the gate
    Churning,   \* pods that users and controllers may delete (and recreate)
    Flaky,      \* pods that may lose readiness
    Slow,       \* pods that need not ever become ready
    Volatile,   \* nodes that may leave and join, change labels and foreign taints
    Foreign,    \* the taints that others put on them and take away
    JoinTaint,  \* the value of the eligibility taint a node registers with, 0 or Unset
    Specs,      \* the specifications users may choose from: method, valid
    MayEdit,    \* users may go from one to another
    NodeResync

ASSUME RoundsAssumption ==
    /\ Present \subseteq Node \union DaemonSet /\ FailOpen \subseteq Pod
    /\ Churning \subseteq Pod /\ Flaky \subseteq Pod /\ Slow \subseteq Pod
    /\ Volatile \subseteq Node /\ Foreign \subseteq TaintKind \ {"own"}
    /\ JoinTaint \in {0, Unset}
    /\ Specs \subseteq [method : Methods, valid : BOOLEAN] /\ MayEdit \in BOOLEAN
    /\ NodeResync \in Nat \ {0}

VARIABLES
    pod,      \* the pods: state, age in it, node bound to, placement rules added
    node,     \* the nodes: state, foreign taints, eligibility label and taint
    ds,       \* the DaemonSets
    spec,     \* the fields of spec that users change
    status,
    queued,   \* the work queue holds the sequence's key
    timer,    \* time left until a delayed requeue; 0 when there is none
    reached   \* history: the most groups ever satisfied on a node since it joined

vars == <<pod, node, ds, spec, status, queued, timer, reached>>

Listed == [pod |-> pod, node |-> node, ds |-> ds]

AgeCap == Max({GateTimeout} \union {Wait[g] : g \in Group})

\* Types.  A taint's value stays below the number of groups: the taint of a node where
\* every group is satisfied is gone.
TypeOK ==
    /\ pod \in [Pod -> [st : {"absent", "gated", "pending", "ready"}, age : 0 .. AgeCap,
                        on : Node \union {None}, rule : SUBSET {"affinity", "tolerations"}]]
    /\ node \in [Node -> [st : {"absent", "in", "out", "deleting"},
                          taints : SUBSET (TaintKind \ {"own"}),
                          label : 0 .. NumGroups \union {Unset, ReleasedLabelValue},
                          taint : Group \union {Unset}]]
    /\ ds \subseteq DaemonSet /\ spec \in Specs
    /\ status \in [phase : {"none", "InProgress", "Active", "Failed"}, idx : 0 .. NumGroups,
                   satisfied : SUBSET Node, failed : SUBSET Node,
                   gated : 0 .. Cardinality(Pod), degraded : BOOLEAN]
    /\ queued \in BOOLEAN /\ timer \in 0 .. NodeResync
    /\ reached \in [Node -> 0 .. NumGroups]

-----------------------------------------------------------------------------
(* What the API server holds from here on.                                 *)

Store(pod1, node1, ds1) ==
    /\ pod' = pod1 /\ node' = node1 /\ ds' = ds1
    /\ reached' = [n \in Node |->
                     IF ~Exists(Listed', n) THEN 0
                     ELSE IF /\ Participating(Listed', n)
                             /\ Satisfied(Listed', n) > reached[n] THEN Satisfied(Listed', n)
                     ELSE reached[n]]

PodEvent(p, r) ==
    /\ Store([pod EXCEPT ![p] = r], node, ds)
    /\ queued' = (queued \/ MapPod(p))
    /\ UNCHANGED <<spec, status, timer>>

DaemonSetEvent(d, ds1) ==
    /\ Store(pod, node, ds1)
    /\ queued' = (queued \/ MapDaemonSet(d))
    /\ UNCHANGED <<spec, status, timer>>

NodeEvent(n, r) ==
    /\ Store(pod, [node EXCEPT ![n] = r], ds)
    /\ queued' = (queued \/ NodeChangePredicate(node[n], r))
    /\ UNCHANGED <<spec, status, timer>>

-----------------------------------------------------------------------------
(* Users, the DaemonSet controller, the scheduler and the kubelet.         *)

\* With the gate, or without it (the webhook was unavailable).
Create(p) ==
    /\ MayCreate(Listed, p)
    /\ \E s \in {"gated", "pending"} :
         /\ s = "pending" => p \in FailOpen
         /\ PodEvent(p, [NoPod EXCEPT !.st = s])

Delete(p) ==
    /\ pod[p] # NoPod
    /\ p \in Churning \/ Garbage(Listed, p)
    /\ PodEvent(p, NoPod)

Bind(p, n) ==
    /\ pod[p].st = "pending" /\ pod[p].on = None /\ CanBind(Listed, p, n)
    /\ PodEvent(p, [pod[p] EXCEPT !.on = n])

BecomeReady(p) ==
    /\ pod[p].st = "pending" /\ pod[p].on # None
    /\ PodEvent(p, [pod[p] EXCEPT !.st = "ready"])

BecomeUnready(p) ==
    /\ p \in Flaky /\ pod[p].st = "ready"
    /\ PodEvent(p, [pod[p] EXCEPT !.st = "pending", !.age = 0])

\* A node registers with the lifecycle taints of a booting node.
Join(n) ==
    /\ node[n] = NoNode
    /\ \E s \in {"in", "out"} :
         /\ n \in Volatile \/ s = "in"
         /\ NodeEvent(n, [NoNode EXCEPT !.st = s, !.taints = {"transient"}, !.taint = JoinTaint])

Booted(n) ==
    /\ "transient" \in node[n].taints
    /\ NodeEvent(n, [node[n] EXCEPT !.taints = @ \ {"transient"}])

\* Another taint comes or goes, or the labels that spec.nodeSelector looks at change.
Relabel(n) ==
    /\ n \in Volatile /\ Exists(Listed, n)
    /\ \/ \E t \in Foreign :
            NodeEvent(n, [node[n] EXCEPT !.taints = IF t \in @ THEN @ \ {t} ELSE @ \union {t}])
       \/ node[n].st = "in"  /\ NodeEvent(n, [node[n] EXCEPT !.st = "out"])
       \/ node[n].st = "out" /\ NodeEvent(n, [node[n] EXCEPT !.st = "in"])

\* A finalizer keeps a deleted node for a while; no watch event passes the predicate.
MarkDeleted(n) ==
    /\ n \in Volatile /\ node[n].st \in {"in", "out"}
    /\ NodeEvent(n, [node[n] EXCEPT !.st = "deleting"])

Vanish(n) ==
    /\ node[n].st = "deleting"
    /\ NodeEvent(n, NoNode)

AddDaemonSet(d)    == d \notin ds /\ DaemonSetEvent(d, ds \union {d})
RemoveDaemonSet(d) == MayEdit /\ d \in ds /\ DaemonSetEvent(d, ds \ {d})

EditSpec(s) ==
    /\ MayEdit /\ s # spec
    /\ spec' = s /\ queued' = TRUE
    /\ UNCHANGED <<pod, node, ds, status, timer, reached>>

Older(r) == IF r.st \in {"gated", "ready"} /\ r.age < AgeCap THEN [r EXCEPT !.age = @ + 1]
                                                            ELSE r

\* Time passes for everything that is measured, and the delayed requeue fires at 0.
Tick ==
    /\ Store([p \in Pod |-> Older(pod[p])], node, ds)
    /\ timer' = IF timer = 0 THEN 0 ELSE timer - 1
    /\ queued' = (queued \/ timer = 1)
    /\ UNCHANGED <<spec, status>>

-----------------------------------------------------------------------------
(* The controller.                                                         *)

\* setNodeKey: what a node's label and taint become.
SyncNodeEligibility(n) ==
    IF Exists(Listed, n) THEN [node[n] EXCEPT !.label = WantLabel(Listed, n, spec.method),
                                            !.taint = WantTaint(Listed, n, spec.method)]
                         ELSE node[n]

\* applyPodAction: the rules are added and the gate is removed.
ApplyPodAction(p) ==
    [pod[p] EXCEPT !.st = "pending", !.age = 0,
                   !.rule = @ \union Constraint(Listed, p, spec.method)]

\* A delayed requeue does not replace an earlier one that is still to come.
Requeue(after) == timer' = IF timer = 0 THEN after ELSE Min({timer, after})

\* reconcileNodeScoped, with every write going through; each of them is an event.
Round ==
    /\ queued /\ spec.valid
    /\ Store([p \in Pod |-> IF p \in Ungate(Listed) THEN ApplyPodAction(p) ELSE pod[p]],
             [n \in Node |-> SyncNodeEligibility(n)], ds)
    /\ status' = NodeScopedStatus(Listed, spec.method)
    /\ Requeue(RequeueAfter(Listed, NodeResync))
    /\ queued' = (<<pod, node, status>>' # <<pod, node, status>>)
    /\ UNCHANGED spec

\* ComputeNodePlan refuses the spec; nothing but an event brings the sequence back.
RejectSpec ==
    /\ queued /\ ~spec.valid
    /\ status' = [status EXCEPT !.phase = "Failed"]
    /\ queued' = (status' # status)
    /\ UNCHANGED <<pod, node, ds, spec, timer, reached>>

-----------------------------------------------------------------------------
Init ==
    /\ pod = [p \in Pod |-> NoPod]
    /\ node = [n \in Node |-> IF n \in Present THEN [NoNode EXCEPT !.st = "in"] ELSE NoNode]
    /\ ds = DaemonSet \intersect Present /\ spec \in Specs
    /\ status = NoStatus
    /\ queued = TRUE /\ timer = 0
    /\ reached = [n \in Node |-> IF n \in Present THEN Satisfied(Listed, n) ELSE 0]

Workload ==
    \/ \E p \in Pod : \/ Create(p) \/ Delete(p) \/ BecomeReady(p) \/ BecomeUnready(p)
                      \/ \E n \in Node : Bind(p, n)
    \/ \E d \in DaemonSet : AddDaemonSet(d) \/ RemoveDaemonSet(d)

Machines == \E n \in Node : Join(n) \/ Booted(n) \/ Relabel(n) \/ MarkDeleted(n) \/ Vanish(n)

Next ==
    \/ Workload \/ Machines \/ \E s \in Specs : EditSpec(s)
    \/ Tick
    \/ Round \/ RejectSpec

Spec == Init /\ [][Next]_vars

(* Fairness.  The worker takes what is queued and time passes.  That nodes *)
(* join and boot, that workloads create their pods, that the scheduler     *)
(* binds what it can and that pods become ready, but for the Slow ones, is *)
(* an assumption about the cluster.                                        *)
Progress ==
    \/ \E n \in Node : Join(n) \/ Booted(n)
    \/ \E d \in DaemonSet : AddDaemonSet(d)
    \/ \E p \in Pod : Create(p) \/ \E n \in Node : Bind(p, n)
    \/ \E p \in Pod \ Slow : BecomeReady(p)

Fairness == WF_vars(Round) /\ WF_vars(RejectSpec) /\ WF_vars(Tick) /\ WF_vars(Progress)

LiveSpec == Spec /\ Fairness

-----------------------------------------------------------------------------
(* Safety.                                                                 *)

Settled == ~queued /\ spec.valid

\* No wake-up is missing and no timer late: when nothing is queued, no pod that may
\* start is still gated, but for one whose node has only been marked as deleted, which
\* no watch reports and the next requeue notices.
NothingWithheld ==
    Settled => \A p \in Ungate(Listed) : \E n \in Node :
                  TargetNode(Listed, p) = n /\ node[n].st = "deleting" /\ timer > 0

Held(q, g) == pod[q].st = "ready" /\ pod[q].age >= Wait[g]

LosesGate(p) == pod[p].st = "gated" /\ pod'[p].st = "pending"

InOrder(p, n) ==
    \A g \in Group : g < GroupIndexForPod[p] =>
        /\ \A q \in PodsHere(Listed, n, g) : Held(q, g)
        /\ \A d \in ds :
             /\ g \in Selects[d] /\ n \in RunsOn[d]
             /\ "other" \in node[n].taints => "other" \in Tolerates[d]
             => \E q \in PodsHere(Listed, n, g) : Owner[q] = d /\ Held(q, g)

\* A pod that is pinned to a participating node loses its gate only when every pod of
\* an earlier group there has been Ready for the group's waitDuration, and every
\* DaemonSet of an earlier group that will run there has such a pod, also one that
\* the node's own or lifecycle taints keep away for now.
StartsInOrder ==
    [][\A p \in Pod \ Bypassed, n \in Node :
          LosesGate(p) /\ TargetNode(Listed, p) = n /\ Participating(Listed, n)
             => InOrder(p, n)]_vars

\* A steered pod is bound only to a node on which, since the node joined, all groups
\* before the pod's own have been satisfied, however late its label or taint is.  As
\* documented, a label released for pending pods matches any node, and a node without
\* the taint does not hold back a pod that only has the tolerations.
SteeredInOrder ==
    [][\A p \in Pod, n \in Node :
          /\ pod[p].on = None /\ pod'[p].on = n
          /\ \/ "affinity" \in pod[p].rule /\ node[n].label # ReleasedLabelValue
             \/ "tolerations" \in pod[p].rule /\ node[n].taint # Unset
          => reached[n] >= GroupIndexForPod[p]]_vars

Rules == IF spec.method = "Taint" THEN {"tolerations"} ELSE {"affinity"}

\* Once settled, the placement rules, labels and taints agree with one another: a
\* steered pod can go to a participating node that has nothing else against it exactly
\* when the groups before the pod's own are satisfied there.
SteeringExact ==
    Settled => \A p \in Pod, n \in Node :
        /\ pod[p].rule = Rules /\ pod[p].on = None
        /\ Participating(Listed, n) /\ node[n].taints = {}
        => (CanBind(Listed, p, n) <=> Satisfied(Listed, n) >= GroupIndexForPod[p])

\* Once settled, the status is the truth: a node is reported as failed exactly when a
\* pod gated there has outlived the gateTimeout, the sequence is Active exactly when
\* every participating node has every group satisfied, and then nothing is gated.
StatusTruthful ==
    Settled /\ (\A n \in Node : node[n].st # "deleting") =>
        /\ status.failed = {n \in Node : /\ Participating(Listed, n)
                                         /\ \E p \in StillGated(Listed) :
                                              /\ TargetNode(Listed, p) = n
                                              /\ pod[p].age >= GateTimeout /\ GateTimeout > 0}
        /\ status.phase = "Active" <=>
              \A n \in Node : Participating(Listed, n) => Satisfied(Listed, n) = NumGroups
        /\ status.phase = "Active" => \A p \in Pod : HasGate(Listed, p) => ~MapPod(p)

Quiet ==
    /\ Settled
    /\ \A n \in Node : Exists(Listed, n) => node[n].taints = {} /\ node[n].st # "deleting"
    /\ \A p \in Pod :
         /\ ~Garbage(Listed, p)
         /\ pod[p] = NoPod => Owner[p] \notin ds \/ ~\E n \in Node :
                PinnedTo[p] = n /\ Exists(Listed, n) /\ DaemonSetShouldRunOnNode(Listed, Owner[p], n)
         /\ pod[p].st = "pending" => pod[p].on = None /\ ~\E n \in Node : CanBind(Listed, p, n)
         /\ pod[p].st = "ready" => pod[p].age = AgeCap

\* Nobody waits for ever unnoticed: when nothing but time can pass, all that was waited
\* for has elapsed and a pod is still gated, then the status says why (a DaemonSet does
\* not tolerate the sequence's taint), or a group that is required has no pod there.
StuckIsReported ==
    Quiet => \A p \in StillGated(Listed) :
        \/ status.degraded /\ MissingToleration(Listed, spec.method) # {}
        \/ \E g \in Require : PodsHere(Listed, TargetNode(Listed, p), g) = {}

\* Not what the code does: the eligibility label of a sequence switched to Taint mode is
\* written "so that those pods' Gt k-1 affinity matches every node" (ReleasedLabelValue).
\* A node that never had the label does not get it.
ReleasedEverywhere ==
    Settled /\ spec.method = "Taint" => \A p \in Pod, n \in Node :
        pod[p].on = None /\ "affinity" \in pod[p].rule /\ Participating(Listed, n)
            => EligibilityRequirement(GroupIndexForPod[p], node[n].label)

(* Liveness.                                                               *)

Disruption ==
    \/ \E p \in Pod : Delete(p) \/ BecomeUnready(p)
    \/ \E n \in Node : Relabel(n) \/ MarkDeleted(n) \/ Vanish(n)
    \/ \E d \in DaemonSet : RemoveDaemonSet(d)
    \/ \E s \in Specs : EditSpec(s)

SlowNodes == {PinnedTo[p] : p \in Slow}

\* "A slow node never holds up another node": whatever happens on the nodes of Slow
\* pods, every other pod that is pinned to a node gets to run, and every pod that is not
\* pinned does too, as long as one node goes all the way.
OthersRun ==
    <>[][~Disruption]_vars =>
        \A p \in Pod : PinnedTo[p] \notin SlowNodes => <>(pod[p].st = "ready")
=============================================================================
