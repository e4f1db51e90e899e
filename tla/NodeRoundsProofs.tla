-------------------------- MODULE NodeRoundsProofs --------------------------
(***************************************************************************)
(* Proofs about NodeRounds, for any pods, nodes, groups, waits and edits.  *)
(*                                                                         *)
(* The invariant says what holds while nothing is queued: the last round   *)
(* has left nothing to do, and the requeue will fire before the passing of *)
(* time can change what a round would do.  Every event that could change   *)
(* it enqueues the sequence; that the others leave the plan as it is, and  *)
(* a Tick too until the requeue, is the heart of the proof.                *)
(***************************************************************************)
EXTENDS NodeRounds, NodePlanProofs

\* Only pods of a group whose node the scheduler chooses have placement rules.
PodOK(p, r) ==
    /\ r.st = "absent" => r = NoPod
    /\ r.rule # {} => GroupIndexForPod[p] # NoGroup /\ PinnedTo[p] = None
    /\ PinnedTo[p] # None => r.on \in {None, PinnedTo[p]}

PodsOK == \A p \in Pod : PodOK(p, pod[p])

\* Labels and taints never promise more groups than were satisfied.
NodesOK ==
    \A n \in Node :
        /\ ~Exists(Listed, n) => node[n] = NoNode
        /\ Participating(Listed, n) => Satisfied(Listed, n) <= reached[n]
        /\ node[n].label \in {Unset, ReleasedLabelValue} \/ node[n].label <= reached[n]
        /\ node[n].taint = Unset \/ node[n].taint <= reached[n]

NodeDone(n) ==
    Participating(Listed, n) =>
        /\ node[n].label = WantLabel(Listed, n, spec.method)
        /\ node[n].taint = WantTaint(Listed, n, spec.method)

Deleting(n) == n \in Node /\ node[n].st = "deleting"

\* No event is reported when a node is marked as deleted; all else is as it should be.
SettledOK ==
    Settled =>
        /\ \A p \in Ungate(Listed) : Deleting(TargetNode(Listed, p))
        /\ \A n \in Node : NodeDone(n)
        /\ timer > 0 /\ \A t \in Timers(Listed) : timer <= t
        /\ (\A n \in Node : ~Deleting(n)) => status = NodeScopedStatus(Listed, spec.method)

IInv == TypeOK /\ PodsOK /\ NodesOK /\ SettledOK

-----------------------------------------------------------------------------
(* Types.                                                                  *)

\* Ages stop at no less than any delay.
LEMMA AgeCapIs ==
  AgeCap \in Nat /\ GateTimeout <= AgeCap /\ \A g \in Group : Wait[g] <= AgeCap
<1> DEFINE Delays == {GateTimeout} \union {Wait[g] : g \in Group}
           Waits  == {Wait[g] : g \in Group}
<1>1. GateTimeout \in Nat /\ NumGroups \in Nat /\ Wait \in [Group -> Nat]
  BY PlanAssumption DEF PlanAssumption
<1>2. IsFiniteSet(Group)
  BY <1>1, FS_Interval DEF Group
<1>3. Wait \in Surjection(Group, Waits)
  BY <1>1 DEF Surjection
<1>4. IsFiniteSet(Waits)
  <2> HIDE DEF Waits
  <2> QED BY <1>2, <1>3, FS_Surjection
<1>5. IsFiniteSet(Delays)
  <2> HIDE DEF Waits
  <2>1. Delays = Waits \union {GateTimeout}
    BY DEF Waits
  <2> QED BY <1>4, <2>1, FS_AddElement
<1>6. Delays \in SUBSET Nat /\ Delays # {}
  BY <1>1
<1>7. Max(Delays) \in Delays /\ \A x \in Delays : x <= Max(Delays)
  <2> HIDE DEF Delays
  <2> QED BY <1>5, <1>6, MaxOfFinite
<1>8. AgeCap = Max(Delays)
  BY DEF AgeCap
<1> QED BY <1>6, <1>7, <1>8

\* What the types say of what a round lists.
LEMMA ListedTypes ==
  ASSUME TypeOK
  PROVE  \A p \in Pod : Listed.pod[p].age \in Nat /\ Listed.pod[p].on \in Node \union {None}
BY AgeCapIs DEF TypeOK, Listed

\* The server's state keeps its type, and the history its meaning: it is at least what
\* is satisfied, and only grows while the node is there.
LEMMA StoreOK ==
  ASSUME TypeOK, NEW pod1, NEW node1, NEW ds1, Store(pod1, node1, ds1)
  PROVE  /\ reached' \in [Node -> 0 .. NumGroups]
         /\ \A n \in Node :
              /\ Participating(Listed', n) => Satisfied(Listed', n) <= reached'[n]
              /\ Exists(Listed', n) => reached[n] <= reached'[n]
<1>1. NumGroups \in Nat
  BY PlanAssumption DEF PlanAssumption
<1>2. reached \in [Node -> 0 .. NumGroups]
  BY DEF TypeOK
<1>3. \A n \in Node : Satisfied(Listed', n) \in 0 .. NumGroups
  BY SatisfiedIs
<1>4. reached' = [n \in Node |->
                     IF ~Exists(Listed', n) THEN 0
                     ELSE IF /\ Participating(Listed', n)
                             /\ Satisfied(Listed', n) > reached[n] THEN Satisfied(Listed', n)
                     ELSE reached[n]]
  BY DEF Store
<1>5. \A n \in Node : Participating(Listed', n) => Exists(Listed', n)
  BY DEF Participating, Exists
<1> QED BY <1>1, <1>2, <1>3, <1>4, <1>5

Pods == [Pod -> [st : {"absent", "gated", "pending", "ready"}, age : 0 .. AgeCap,
                 on : Node \union {None}, rule : SUBSET {"affinity", "tolerations"}]]

Nodes == [Node -> [st : {"absent", "in", "out", "deleting"}, taints : SUBSET (TaintKind \ {"own"}),
                   label : 0 .. NumGroups \union {Unset, ReleasedLabelValue},
                   taint : Group \union {Unset}]]

LEMMA StoreTypes ==
  ASSUME TypeOK, NEW pod1 \in Pods, NEW node1 \in Nodes, NEW ds1 \in SUBSET DaemonSet,
         Store(pod1, node1, ds1)
  PROVE  pod' \in Pods /\ node' \in Nodes /\ ds' \subseteq DaemonSet
         /\ reached' \in [Node -> 0 .. NumGroups]
BY StoreOK DEF Store

LEMMA PodEventTypes ==
  ASSUME TypeOK, NEW p \in Pod, NEW r, PodEvent(p, r),
         r \in [st : {"absent", "gated", "pending", "ready"}, age : 0 .. AgeCap,
                on : Node \union {None}, rule : SUBSET {"affinity", "tolerations"}]
  PROVE  TypeOK'
<1>1. pod \in Pods /\ node \in Nodes /\ ds \in SUBSET DaemonSet
  BY DEF TypeOK, Pods, Nodes
<1>2. [pod EXCEPT ![p] = r] \in Pods
  BY <1>1 DEF Pods
<1>3. pod' \in Pods /\ node' \in Nodes /\ ds' \subseteq DaemonSet /\ reached' \in [Node -> 0 .. NumGroups]
  BY <1>1, <1>2, StoreTypes DEF PodEvent
<1>4. queued' \in BOOLEAN /\ UNCHANGED <<spec, status, timer>>
  BY DEF PodEvent, TypeOK
<1> QED BY <1>3, <1>4 DEF TypeOK, Pods, Nodes

LEMMA NodeEventTypes ==
  ASSUME TypeOK, NEW n \in Node, NEW r, NodeEvent(n, r),
         r \in [st : {"absent", "in", "out", "deleting"}, taints : SUBSET (TaintKind \ {"own"}),
                label : 0 .. NumGroups \union {Unset, ReleasedLabelValue},
                taint : Group \union {Unset}]
  PROVE  TypeOK'
<1>1. pod \in Pods /\ node \in Nodes /\ ds \in SUBSET DaemonSet
  BY DEF TypeOK, Pods, Nodes
<1>2. [node EXCEPT ![n] = r] \in Nodes
  BY <1>1 DEF Nodes
<1>3. pod' \in Pods /\ node' \in Nodes /\ ds' \subseteq DaemonSet /\ reached' \in [Node -> 0 .. NumGroups]
  BY <1>1, <1>2, StoreTypes DEF NodeEvent
<1>4. queued' \in BOOLEAN /\ UNCHANGED <<spec, status, timer>>
  BY DEF NodeEvent, TypeOK
<1> QED BY <1>3, <1>4 DEF TypeOK, Pods, Nodes

LEMMA DaemonSetEventTypes ==
  ASSUME TypeOK, NEW d, NEW ds1 \in SUBSET DaemonSet, DaemonSetEvent(d, ds1)
  PROVE  TypeOK'
<1>1. pod \in Pods /\ node \in Nodes
  BY DEF TypeOK, Pods, Nodes
<1>2. pod' \in Pods /\ node' \in Nodes /\ ds' \subseteq DaemonSet /\ reached' \in [Node -> 0 .. NumGroups]
  BY <1>1, StoreTypes DEF DaemonSetEvent
<1>3. queued' \in BOOLEAN /\ UNCHANGED <<spec, status, timer>>
  BY DEF DaemonSetEvent, TypeOK
<1> QED BY <1>2, <1>3 DEF TypeOK, Pods, Nodes

\* The requeue that a round asks for is neither 0 nor later than the resync period.
LEMMA RequeueTypes ==
  ASSUME TypeOK, Requeue(RequeueAfter(Listed, NodeResync))
  PROVE  timer' \in 1 .. NodeResync /\ timer' <= RequeueAfter(Listed, NodeResync)
<1> DEFINE after == RequeueAfter(Listed, NodeResync)
<1>1. NodeResync \in Nat \ {0} /\ timer \in 0 .. NodeResync
  BY RoundsAssumption DEF RoundsAssumption, TypeOK
<1>2. after \in 1 .. NodeResync
  BY <1>1, ListedTypes, RequeueInTime
<1>3. timer' = IF timer = 0 THEN after ELSE Min({timer, after})
  BY DEF Requeue
<1> HIDE DEF after
<1>4. {timer, after} \in SUBSET Nat /\ {timer, after} # {}
  BY <1>1, <1>2
<1>5. Min({timer, after}) \in {timer, after} /\ Min({timer, after}) <= after
  BY <1>4, MinOfNaturals
<1>6. timer' \in 1 .. NodeResync /\ timer' <= after
  BY <1>1, <1>2, <1>3, <1>5
<1> QED BY <1>6 DEF after

LEMMA WorkloadTypes ==
  ASSUME TypeOK, Workload
  PROVE  TypeOK'
<1>1. pod \in Pods /\ node \in Nodes /\ ds \in SUBSET DaemonSet /\ AgeCap \in Nat
  BY AgeCapIs DEF TypeOK, Pods, Nodes
<1>2. ASSUME NEW p \in Pod, Create(p) PROVE TypeOK'
  <2>1. PICK s \in {"gated", "pending"} : PodEvent(p, [NoPod EXCEPT !.st = s])
    BY <1>2 DEF Create
  <2> QED BY <1>1, <2>1, PodEventTypes DEF NoPod
<1>3. ASSUME NEW p \in Pod, Delete(p) PROVE TypeOK'
  BY <1>1, <1>3, PodEventTypes DEF Delete, NoPod
<1>4. ASSUME NEW p \in Pod, NEW n \in Node, Bind(p, n) PROVE TypeOK'
  BY <1>1, <1>4, PodEventTypes DEF Bind, Pods
<1>5. ASSUME NEW p \in Pod, BecomeReady(p) PROVE TypeOK'
  BY <1>1, <1>5, PodEventTypes DEF BecomeReady, Pods
<1>6. ASSUME NEW p \in Pod, BecomeUnready(p) PROVE TypeOK'
  <2>1. 0 \in 0 .. AgeCap
    BY <1>1
  <2>2. [pod[p] EXCEPT !.st = "pending", !.age = 0]
          \in [st : {"absent", "gated", "pending", "ready"}, age : 0 .. AgeCap,
              on : Node \union {None}, rule : SUBSET {"affinity", "tolerations"}]
    BY <1>1, <2>1 DEF Pods
  <2> QED BY <1>6, <2>2, PodEventTypes DEF BecomeUnready
<1>7. ASSUME NEW d \in DaemonSet, AddDaemonSet(d) \/ RemoveDaemonSet(d) PROVE TypeOK'
  BY <1>1, <1>7, DaemonSetEventTypes DEF AddDaemonSet, RemoveDaemonSet
<1> QED BY <1>2, <1>3, <1>4, <1>5, <1>6, <1>7 DEF Workload

LEMMA MachineTypes ==
  ASSUME TypeOK, Machines
  PROVE  TypeOK'
<1>1. node \in Nodes
  BY DEF TypeOK, Nodes
<1>2. ASSUME NEW n \in Node, Join(n) PROVE TypeOK'
  <2>1. PICK s \in {"in", "out"} :
           NodeEvent(n, [NoNode EXCEPT !.st = s, !.taints = {"transient"}, !.taint = JoinTaint])
    BY <1>2 DEF Join
  <2>2. JoinTaint \in Group \union {Unset}
    BY RoundsAssumption, PlanAssumption DEF RoundsAssumption, PlanAssumption, Group
  <2>3. [NoNode EXCEPT !.st = s, !.taints = {"transient"}, !.taint = JoinTaint]
          \in [st : {"absent", "in", "out", "deleting"}, taints : SUBSET (TaintKind \ {"own"}),
              label : 0 .. NumGroups \union {Unset, ReleasedLabelValue},
              taint : Group \union {Unset}]
    BY <2>2 DEF NoNode, TaintKind
  <2> QED BY <2>1, <2>3, NodeEventTypes
<1>3. ASSUME NEW n \in Node, Booted(n) PROVE TypeOK'
  BY <1>1, <1>3, NodeEventTypes DEF Booted, Nodes
<1>4. ASSUME NEW n \in Node, NEW t \in Foreign,
             NodeEvent(n, [node[n] EXCEPT !.taints = IF t \in @ THEN @ \ {t} ELSE @ \union {t}])
      PROVE  TypeOK'
  <2>1. t \in TaintKind \ {"own"}
    BY RoundsAssumption DEF RoundsAssumption
  <2>2. (IF t \in node[n].taints THEN node[n].taints \ {t} ELSE node[n].taints \union {t})
          \in SUBSET (TaintKind \ {"own"})
    BY <1>1, <2>1 DEF Nodes
  <2> QED BY <1>1, <1>4, <2>2, NodeEventTypes DEF Nodes
<1>5. ASSUME NEW n \in Node, Relabel(n) PROVE TypeOK'
  <2>1. ASSUME NEW s \in {"in", "out"}, NodeEvent(n, [node[n] EXCEPT !.st = s]) PROVE TypeOK'
    BY <1>1, <2>1, NodeEventTypes DEF Nodes
  <2> QED BY <1>4, <1>5, <2>1 DEF Relabel
<1>6. ASSUME NEW n \in Node, MarkDeleted(n) PROVE TypeOK'
  BY <1>1, <1>6, NodeEventTypes DEF MarkDeleted, Nodes
<1>7. ASSUME NEW n \in Node, Vanish(n) PROVE TypeOK'
  BY <1>7, NodeEventTypes DEF Vanish, NoNode
<1> QED BY <1>2, <1>3, <1>5, <1>6, <1>7 DEF Machines

LEMMA TickTypes ==
  ASSUME TypeOK, Tick
  PROVE  TypeOK'
<1>1. pod \in Pods /\ node \in Nodes /\ ds \in SUBSET DaemonSet /\ AgeCap \in Nat
  BY AgeCapIs DEF TypeOK, Pods, Nodes
<1>2. [p \in Pod |-> Older(pod[p])] \in Pods
  <2> SUFFICES ASSUME NEW p \in Pod
               PROVE  Older(pod[p]) \in [st : {"absent", "gated", "pending", "ready"},
                                         age : 0 .. AgeCap, on : Node \union {None},
                                         rule : SUBSET {"affinity", "tolerations"}]
    BY DEF Pods
  <2>1. pod[p].age \in 0 .. AgeCap /\ pod[p].age < AgeCap => pod[p].age + 1 \in 0 .. AgeCap
    BY <1>1
  <2> QED BY <1>1, <2>1 DEF Pods, Older
<1>3. pod' \in Pods /\ node' \in Nodes /\ ds' \subseteq DaemonSet /\ reached' \in [Node -> 0 .. NumGroups]
  BY <1>1, <1>2, StoreTypes DEF Tick
<1>4. timer' \in 0 .. NodeResync
  BY RoundsAssumption DEF RoundsAssumption, Tick, TypeOK
<1>5. queued' \in BOOLEAN /\ UNCHANGED <<spec, status>>
  BY DEF Tick, TypeOK
<1> QED BY <1>3, <1>4, <1>5 DEF TypeOK, Pods, Nodes

LEMMA RoundTypes ==
  ASSUME TypeOK, Round
  PROVE  TypeOK'
<1>1. pod \in Pods /\ node \in Nodes /\ ds \in SUBSET DaemonSet /\ AgeCap \in Nat
  BY AgeCapIs DEF TypeOK, Pods, Nodes
<1> DEFINE pod1  == [p \in Pod |-> IF p \in Ungate(Listed) THEN ApplyPodAction(p) ELSE pod[p]]
           node1 == [n \in Node |-> SyncNodeEligibility(n)]
<1>2. pod1 \in Pods
  <2>1. ASSUME NEW p \in Pod
        PROVE  ApplyPodAction(p) \in [st : {"absent", "gated", "pending", "ready"},
                                      age : 0 .. AgeCap, on : Node \union {None},
                                      rule : SUBSET {"affinity", "tolerations"}]
    <3>1. Constraint(Listed, p, spec.method) \in SUBSET {"affinity", "tolerations"}
      BY ConstraintType
    <3>2. pod[p].rule \union Constraint(Listed, p, spec.method)
            \in SUBSET {"affinity", "tolerations"}
      BY <1>1, <3>1 DEF Pods
    <3>3. 0 \in 0 .. AgeCap
      BY <1>1
    <3> QED BY <1>1, <3>2, <3>3 DEF Pods, ApplyPodAction
  <2> QED BY <1>1, <2>1 DEF Pods
<1>3. node1 \in Nodes
  <2>1. ASSUME NEW n \in Node
        PROVE  SyncNodeEligibility(n) \in
                 [st : {"absent", "in", "out", "deleting"}, taints : SUBSET (TaintKind \ {"own"}),
                  label : 0 .. NumGroups \union {Unset, ReleasedLabelValue},
                  taint : Group \union {Unset}]
    <3>1. WantLabel(Listed, n, spec.method) \in 0 .. NumGroups \union {Unset, ReleasedLabelValue}
      BY WantTypes
    <3>2. WantTaint(Listed, n, spec.method) \in Group \union {Unset}
      BY WantTypes
    <3> QED BY <1>1, <3>1, <3>2 DEF Nodes, SyncNodeEligibility
  <2> QED BY <2>1 DEF Nodes
<1>4. pod' \in Pods /\ node' \in Nodes /\ ds' \subseteq DaemonSet /\ reached' \in [Node -> 0 .. NumGroups]
  <2>1. Store(pod1, node1, ds)
    BY DEF Round
  <2> HIDE DEF pod1, node1
  <2> QED BY <1>1, <1>2, <1>3, <2>1, StoreTypes
<1>5. status' \in [phase : {"InProgress", "Active"}, idx : 0 .. NumGroups, satisfied : SUBSET Node,
                   failed : SUBSET Node, gated : 0 .. Cardinality(Pod), degraded : BOOLEAN]
  BY ListedTypes, StatusType DEF Round
<1>6. timer' \in 0 .. NodeResync
  BY RequeueTypes, RoundsAssumption DEF Round, RoundsAssumption
<1>7. queued' \in BOOLEAN /\ spec' = spec
  BY DEF Round
<1> QED BY <1>4, <1>5, <1>6, <1>7 DEF TypeOK, Pods, Nodes

LEMMA TypeStep ==
  ASSUME TypeOK, [Next]_vars
  PROVE  TypeOK'
<1>1. CASE \E s \in Specs : EditSpec(s)
  BY <1>1 DEF EditSpec, TypeOK
<1>2. CASE RejectSpec
  <2>1. status' \in [phase : {"none", "InProgress", "Active", "Failed"}, idx : 0 .. NumGroups,
                     satisfied : SUBSET Node, failed : SUBSET Node,
                     gated : 0 .. Cardinality(Pod), degraded : BOOLEAN]
    BY <1>2 DEF RejectSpec, TypeOK
  <2> QED BY <1>2, <2>1 DEF RejectSpec, TypeOK
<1>3. CASE UNCHANGED vars
  BY <1>3 DEF vars, TypeOK
<1> QED BY <1>1, <1>2, <1>3, WorkloadTypes, MachineTypes, TickTypes, RoundTypes DEF Next

LEMMA InitTypes ==
  ASSUME Init
  PROVE  TypeOK
<1>1. AgeCap \in Nat /\ NumGroups \in Nat /\ NodeResync \in Nat
  BY AgeCapIs, PlanAssumption, RoundsAssumption DEF PlanAssumption, RoundsAssumption
<1>2. pod \in Pods /\ node \in Nodes
  BY <1>1 DEF Init, Pods, Nodes, NoPod, NoNode
<1>3. Cardinality(Pod) \in Nat
  BY FinitePods, FS_CardinalityType
<1>4. status \in [phase : {"none", "InProgress", "Active", "Failed"}, idx : 0 .. NumGroups,
                  satisfied : SUBSET Node, failed : SUBSET Node,
                  gated : 0 .. Cardinality(Pod), degraded : BOOLEAN]
  BY <1>1, <1>3 DEF Init, NoStatus
<1>5. reached \in [Node -> 0 .. NumGroups]
  BY <1>1, SatisfiedIs DEF Init
<1> QED BY <1>1, <1>2, <1>4, <1>5 DEF Init, TypeOK, Pods, Nodes

-----------------------------------------------------------------------------
(* Pods.                                                                   *)

\* An event of one pod.
LEMMA PodEventOK ==
  ASSUME TypeOK, PodsOK, NEW p \in Pod, NEW r, PodEvent(p, r), PodOK(p, r)
  PROVE  PodsOK'
<1>1. pod' = [pod EXCEPT ![p] = r] /\ pod \in [Pod -> {pod[q] : q \in Pod}]
  BY DEF PodEvent, Store, TypeOK
<1>2. \A q \in Pod : pod'[q] = IF q = p THEN r ELSE pod[q]
  BY <1>1
<1> QED BY <1>2 DEF PodsOK

\* What pods keep, whatever happens.
LEMMA PodsStep ==
  ASSUME TypeOK, PodsOK, [Next]_vars
  PROVE  PodsOK'
<1>1. \A p \in Pod : PodOK(p, pod[p])
  BY DEF PodsOK
<1>2. pod \in Pods
  BY DEF TypeOK, Pods
<1>3. ASSUME UNCHANGED pod PROVE PodsOK'
  BY <1>3 DEF PodsOK
<1>4. ASSUME NEW p \in Pod, Create(p) \/ Delete(p) PROVE PodsOK'
  <2>1. ASSUME NEW r, PodEvent(p, r), r.rule = {}, r.on = None, r.st = "absent" => r = NoPod
        PROVE  PodsOK'
    BY <2>1, PodEventOK DEF PodOK
  <2>2. CASE Create(p)
    <3>1. PICK s \in {"gated", "pending"} : PodEvent(p, [NoPod EXCEPT !.st = s])
      BY <2>2 DEF Create
    <3> QED BY <2>1, <3>1 DEF NoPod
  <2>3. CASE Delete(p)
    BY <2>1, <2>3 DEF Delete, NoPod
  <2> QED BY <1>4, <2>2, <2>3
<1>5. ASSUME NEW p \in Pod, NEW n \in Node, Bind(p, n) PROVE PodsOK'
  <2>1. PodOK(p, [pod[p] EXCEPT !.on = n])
    <3>1. PinnedTo[p] \in {n, None} /\ pod[p].st = "pending"
      BY <1>5 DEF Bind, CanBind
    <3> QED BY <1>1, <1>2, <3>1 DEF PodOK, Pods
  <2> QED BY <1>5, <2>1, PodEventOK DEF Bind
<1>6. ASSUME NEW p \in Pod, BecomeReady(p) PROVE PodsOK'
  <2>1. PodOK(p, [pod[p] EXCEPT !.st = "ready"])
    BY <1>1, <1>2 DEF PodOK, Pods
  <2> QED BY <1>6, <2>1, PodEventOK DEF BecomeReady
<1>7. ASSUME NEW p \in Pod, BecomeUnready(p) PROVE PodsOK'
  <2>1. PodOK(p, [pod[p] EXCEPT !.st = "pending", !.age = 0])
    BY <1>1, <1>2 DEF PodOK, Pods
  <2> QED BY <1>7, <2>1, PodEventOK DEF BecomeUnready
<1>8. ASSUME Machines \/ (\E s \in Specs : EditSpec(s)) \/ RejectSpec
             \/ \E d \in DaemonSet : AddDaemonSet(d) \/ RemoveDaemonSet(d)
      PROVE  UNCHANGED pod
  BY <1>8 DEF Machines, Join, Booted, Relabel, MarkDeleted, Vanish, NodeEvent, EditSpec,
              RejectSpec, AddDaemonSet, RemoveDaemonSet, DaemonSetEvent, Store
<1>9. CASE Tick
  <2>1. \A p \in Pod : pod'[p] = Older(pod[p])
    BY <1>9 DEF Tick, Store
  <2>2. ASSUME NEW p \in Pod PROVE PodOK(p, Older(pod[p]))
    BY <1>1, <1>2 DEF PodOK, Pods, Older
  <2> QED BY <2>1, <2>2 DEF PodsOK
<1>10. CASE Round
  <2>1. \A p \in Pod : pod'[p] = IF p \in Ungate(Listed) THEN ApplyPodAction(p) ELSE pod[p]
    BY <1>10 DEF Round, Store
  <2>2. ASSUME NEW p \in Pod PROVE PodOK(p, ApplyPodAction(p))
    <3> DEFINE new == Constraint(Listed, p, spec.method)
    <3>1. new # {} => GroupIndexForPod[p] # NoGroup /\ PinnedTo[p] = None
      BY ConstraintType DEF TargetNode
    <3>2. ApplyPodAction(p).rule = pod[p].rule \union new /\ ApplyPodAction(p).on = pod[p].on
          /\ ApplyPodAction(p).st = "pending"
      BY <1>2 DEF Pods, ApplyPodAction
    <3> HIDE DEF new
    <3> QED BY <1>1, <3>1, <3>2 DEF PodOK
  <2> QED BY <1>1, <2>1, <2>2 DEF PodsOK
<1>11. CASE Workload
  BY <1>3, <1>4, <1>5, <1>6, <1>7, <1>8, <1>11 DEF Workload
<1>12. CASE UNCHANGED vars
  BY <1>3, <1>12 DEF vars
<1> QED BY <1>3, <1>8, <1>9, <1>10, <1>11, <1>12 DEF Next

-----------------------------------------------------------------------------
(* Nodes.                                                                  *)

\* A label or taint that promises no more groups than were satisfied.
Promised(n, r) ==
    \/ r = NoNode
    \/ /\ r.st # "absent"
       /\ r.label \in {Unset, ReleasedLabelValue} \/ r.label <= reached[n]
       /\ r.taint = Unset \/ r.taint <= reached[n]

\* It still does after a step, for the history only grows while the node is there.
LEMMA StorePromised ==
  ASSUME TypeOK, TypeOK', NEW pod1, NEW node1, NEW ds1, Store(pod1, node1, ds1),
         \A n \in Node : Promised(n, node1[n])
  PROVE  NodesOK'
<1>1. node' = node1 /\ NumGroups \in Nat
  BY PlanAssumption DEF Store, PlanAssumption
<1>2. SUFFICES ASSUME NEW n \in Node
               PROVE  /\ ~Exists(Listed', n) => node'[n] = NoNode
                      /\ Participating(Listed', n) => Satisfied(Listed', n) <= reached'[n]
                      /\ node'[n].label \in {Unset, ReleasedLabelValue} \/ node'[n].label <= reached'[n]
                      /\ node'[n].taint = Unset \/ node'[n].taint <= reached'[n]
  BY DEF NodesOK
<1>3. Exists(Listed', n) <=> node'[n].st # "absent"
  BY DEF Exists, Listed
<1>4. /\ Participating(Listed', n) => Satisfied(Listed', n) <= reached'[n]
      /\ Exists(Listed', n) => reached[n] <= reached'[n]
  BY StoreOK
<1>5. reached[n] \in Nat /\ reached'[n] \in Nat
  BY <1>1 DEF TypeOK
<1>6. node'[n].label \in Int /\ node'[n].taint \in Int
  BY <1>1 DEF TypeOK, Group, Unset, ReleasedLabelValue
<1>7. CASE node'[n] = NoNode
  BY <1>4, <1>7 DEF NoNode
<1>8. CASE node'[n] # NoNode
  <2>1. /\ node'[n].st # "absent"
        /\ node'[n].label \in {Unset, ReleasedLabelValue} \/ node'[n].label <= reached[n]
        /\ node'[n].taint = Unset \/ node'[n].taint <= reached[n]
    BY <1>1, <1>8 DEF Promised
  <2>2. reached[n] <= reached'[n]
    BY <1>3, <1>4, <2>1
  <2>3. node'[n].label <= reached[n] => node'[n].label <= reached'[n]
    BY <1>5, <1>6, <2>2
  <2>4. node'[n].taint <= reached[n] => node'[n].taint <= reached'[n]
    BY <1>5, <1>6, <2>2
  <2> QED BY <1>3, <1>4, <2>1, <2>3, <2>4
<1> QED BY <1>7, <1>8

\* What nodes have been promised.
LEMMA NodesPromised ==
  ASSUME TypeOK, NodesOK, NEW n \in Node
  PROVE  Promised(n, node[n])
<1>1. Exists(Listed, n) <=> node[n].st # "absent"
  BY DEF Exists, Listed
<1> QED BY <1>1 DEF NodesOK, Promised

\* A round promises what it finds satisfied, no step of others adds a promise, and a node
\* joins with a promise of nothing.
LEMMA NodesStep ==
  ASSUME TypeOK, TypeOK', NodesOK, [Next]_vars
  PROVE  NodesOK'
<1>1. \A n \in Node : Promised(n, node[n])
  BY NodesPromised
<1>2. node \in Nodes /\ reached \in [Node -> Nat]
  BY PlanAssumption DEF TypeOK, Nodes, PlanAssumption
<1>3. ASSUME UNCHANGED <<pod, node, ds, reached>> PROVE NodesOK'
  BY <1>3 DEF NodesOK, Listed, Exists, Participating
<1>4. ASSUME NEW pod1, NEW ds1, Store(pod1, node, ds1) PROVE NodesOK'
  BY <1>1, <1>4, StorePromised
<1>5. ASSUME NEW n \in Node, NEW r, NodeEvent(n, r), Promised(n, r) PROVE NodesOK'
  <2>1. \A m \in Node : Promised(m, [node EXCEPT ![n] = r][m])
    BY <1>1, <1>2, <1>5 DEF Nodes
  <2> QED BY <1>5, <2>1, StorePromised DEF NodeEvent
<1>6. ASSUME NEW n \in Node, NEW r, NodeEvent(n, r), node[n].st # "absent",
             r.st # "absent", r.label = node[n].label, r.taint = node[n].taint
      PROVE  NodesOK'
  <2>1. Promised(n, r)
    BY <1>1, <1>6 DEF Promised, NoNode
  <2> QED BY <1>5, <1>6, <2>1
<1>7. CASE Workload
  BY <1>4, <1>7 DEF Workload, Create, Delete, Bind, BecomeReady, BecomeUnready, PodEvent,
                    AddDaemonSet, RemoveDaemonSet, DaemonSetEvent
<1>8. ASSUME NEW n \in Node, Join(n) PROVE NodesOK'
  <2>1. PICK s \in {"in", "out"} :
           NodeEvent(n, [NoNode EXCEPT !.st = s, !.taints = {"transient"}, !.taint = JoinTaint])
    BY <1>8 DEF Join
  <2>2. JoinTaint = Unset \/ JoinTaint <= reached[n]
    BY <1>2, RoundsAssumption DEF RoundsAssumption
  <2>3. Promised(n, [NoNode EXCEPT !.st = s, !.taints = {"transient"}, !.taint = JoinTaint])
    BY <2>2 DEF Promised, NoNode
  <2> QED BY <1>5, <2>1, <2>3
<1>9. ASSUME NEW n \in Node, Booted(n) PROVE NodesOK'
  <2>1. node[n].st # "absent"
    BY <1>1, <1>9 DEF Booted, Promised, NoNode
  <2> QED BY <1>2, <1>6, <1>9, <2>1 DEF Booted, Nodes
<1>10. ASSUME NEW n \in Node, Relabel(n) PROVE NodesOK'
  <2>1. node[n].st # "absent"
    BY <1>10 DEF Relabel, Exists, Listed
  <2>2. ASSUME NEW ts, NodeEvent(n, [node[n] EXCEPT !.taints = ts]) PROVE NodesOK'
    BY <1>2, <1>6, <2>1, <2>2 DEF Nodes
  <2>3. ASSUME NEW s \in {"in", "out"}, NodeEvent(n, [node[n] EXCEPT !.st = s]) PROVE NodesOK'
    BY <1>2, <1>6, <2>1, <2>3 DEF Nodes
  <2> QED BY <1>10, <2>2, <2>3 DEF Relabel
<1>11. ASSUME NEW n \in Node, MarkDeleted(n) PROVE NodesOK'
  BY <1>2, <1>6, <1>11 DEF MarkDeleted, Nodes
<1>12. ASSUME NEW n \in Node, Vanish(n) PROVE NodesOK'
  BY <1>5, <1>12 DEF Vanish, Promised
<1>13. CASE Round
  <2> DEFINE node1 == [n \in Node |-> SyncNodeEligibility(n)]
  <2>1. ASSUME NEW n \in Node PROVE Promised(n, SyncNodeEligibility(n))
    <3>1. CASE ~Exists(Listed, n)
      BY <1>1, <3>1 DEF SyncNodeEligibility
    <3>2. CASE Exists(Listed, n)
      <4>1. Participating(Listed, n) => Satisfied(Listed, n) <= reached[n]
        BY DEF NodesOK
      <4>2. WantLabel(Listed, n, spec.method) \in {Unset, ReleasedLabelValue}
            \/ WantLabel(Listed, n, spec.method) <= reached[n]
        BY <4>1 DEF WantLabel
      <4>3. WantTaint(Listed, n, spec.method) = Unset
            \/ WantTaint(Listed, n, spec.method) <= reached[n]
        BY <4>1 DEF WantTaint
      <4> QED BY <1>2, <3>2, <4>2, <4>3 DEF Promised, SyncNodeEligibility, Nodes, Exists, Listed
    <3> QED BY <3>1, <3>2
  <2>2. \A n \in Node : Promised(n, node1[n])
    BY <2>1
  <2>3. PICK pod1 : Store(pod1, node1, ds)
    BY <1>13 DEF Round
  <2> HIDE DEF node1
  <2> QED BY <2>2, <2>3, StorePromised
<1>14. CASE Tick
  BY <1>4, <1>14 DEF Tick
<1>15. CASE (\E s \in Specs : EditSpec(s)) \/ RejectSpec \/ UNCHANGED vars
  BY <1>3, <1>15 DEF EditSpec, RejectSpec, vars
<1>16. CASE Machines
  BY <1>8, <1>9, <1>10, <1>11, <1>12, <1>16 DEF Machines
<1> QED BY <1>7, <1>13, <1>14, <1>15, <1>16 DEF Next

-----------------------------------------------------------------------------
(* Nothing is forgotten: events that nobody is told of.                    *)

\* What may happen unnoticed: something to a pod that no group matches and that is not
\* labelled, to a DaemonSet that no group selects, and that nodes are marked as deleted.
Unnoticed ==
    /\ \A p \in Pod : MapPod(p) => pod'[p] = pod[p]
    /\ {d \in ds : Selects[d] # {}}' = {d \in ds : Selects[d] # {}}
    /\ \A n \in Node : \/ node'[n] = node[n]
                       \/ /\ node[n].st \in {"in", "out"}
                          /\ node'[n] = [node[n] EXCEPT !.st = "deleting"]
    /\ UNCHANGED <<spec, status, timer>>

\* Every node has the taints that it had, and takes part only if it did.
LEMMA UnnoticedNodes ==
  ASSUME TypeOK, Unnoticed, NEW n \in Node
  PROVE  /\ node'[n].label = node[n].label /\ node'[n].taint = node[n].taint
         /\ TaintsOn(Listed', n) = TaintsOn(Listed, n)
         /\ Exists(Listed', n) <=> Exists(Listed, n)
         /\ Deleting(n) => Deleting(n)'
         /\ Participating(Listed', n) => Participating(Listed, n)
         /\ Participating(Listed, n) => Participating(Listed', n) \/ Deleting(n)'
<1>1. node \in Nodes
  BY DEF TypeOK, Nodes
<1>2. /\ node'[n].label = node[n].label /\ node'[n].taint = node[n].taint
      /\ node'[n].taints = node[n].taints
      /\ \/ node'[n].st = node[n].st
         \/ node[n].st \in {"in", "out"} /\ node'[n].st = "deleting"
  <2>1. CASE node'[n] = node[n]
    BY <2>1
  <2>2. CASE node[n].st \in {"in", "out"} /\ node'[n] = [node[n] EXCEPT !.st = "deleting"]
    BY <1>1, <2>2 DEF Nodes
  <2> QED BY <2>1, <2>2 DEF Unnoticed
<1>3. Listed.node = node /\ Listed'.node = node'
  BY DEF Listed
<1>4. TaintsOn(Listed', n) = TaintsOn(Listed, n)
  BY <1>2, <1>3 DEF TaintsOn
<1>5. /\ Exists(Listed', n) <=> Exists(Listed, n)
      /\ Participating(Listed', n) => Participating(Listed, n)
  BY <1>2, <1>3 DEF Exists, Participating
<1>6. /\ Deleting(n) => Deleting(n)'
      /\ Participating(Listed, n) => Participating(Listed', n) \/ Deleting(n)'
  BY <1>2, <1>3 DEF Deleting, Participating
<1> QED BY <1>2, <1>4, <1>5, <1>6

\* The groups of a node look the same.
LEMMA UnnoticedGroups ==
  ASSUME TypeOK, Unnoticed, NEW n \in Node
  PROVE  /\ \A g \in Group : /\ Running(Listed, n, g) <=> Running(Listed', n, g)
                             /\ Remaining(Listed, n, g) = Remaining(Listed', n, g)
         /\ Satisfied(Listed, n) = Satisfied(Listed', n)
<1>1. TaintsOn(Listed, n) = TaintsOn(Listed', n)
  BY UnnoticedNodes
<1>2. \A p \in Pod : GroupIndexForPod[p] # NoGroup => Listed.pod[p] = Listed'.pod[p]
  BY DEF Unnoticed, MapPod, Listed
<1>3. {d \in Listed.ds : Selects[d] # {}} = {d \in Listed'.ds : Selects[d] # {}}
  BY DEF Unnoticed, Listed
<1> QED BY <1>1, <1>2, <1>3, SameGroups

\* A pod of the sequence may start, unless it could before, only because its node has
\* been marked as deleted.
LEMMA UnnoticedStarts ==
  ASSUME TypeOK, Unnoticed, NEW p \in Pod, MapPod(p)
  PROVE  /\ HasGate(Listed', p) <=> HasGate(Listed, p)
         /\ IsActive(Listed', p) <=> IsActive(Listed, p)
         /\ TargetNode(Listed', p) = TargetNode(Listed, p)
         /\ MayStart(Listed, p) => MayStart(Listed', p)
         /\ MayStart(Listed', p) => MayStart(Listed, p) \/ Deleting(TargetNode(Listed, p))'
<1>1. Listed'.pod[p] = Listed.pod[p]
  BY DEF Unnoticed, Listed
<1>2. TargetNode(Listed', p) = TargetNode(Listed, p) /\ HasGate(Listed', p) = HasGate(Listed, p)
      /\ IsActive(Listed', p) = IsActive(Listed, p)
  BY <1>1 DEF TargetNode, HasGate, IsActive
<1>3. TargetNode(Listed, p) \in Node \union {None}
  BY ListedTypes, TargetNodeType
<1>4. CASE TargetNode(Listed, p) = None
  BY <1>2, <1>4 DEF MayStart
<1>5. CASE TargetNode(Listed, p) \in Node
  <2>1. PICK n \in Node : n = TargetNode(Listed, p)
    BY <1>5
  <2>2. /\ Exists(Listed', n) <=> Exists(Listed, n)
        /\ Participating(Listed', n) => Participating(Listed, n)
        /\ Participating(Listed, n) => Participating(Listed', n) \/ Deleting(n)'
        /\ Satisfied(Listed', n) = Satisfied(Listed, n)
    BY UnnoticedNodes, UnnoticedGroups
  <2>3. MayStart(Listed, p) <=>
           \/ Stray(p)
           \/ /\ GroupIndexForPod[p] # NoGroup
              /\ \/ p \in Bypassed \/ n = None \/ ~Exists(Listed, n) \/ ~Participating(Listed, n)
                 \/ Satisfied(Listed, n) >= GroupIndexForPod[p]
    BY <2>1 DEF MayStart
  <2>4. MayStart(Listed', p) <=>
           \/ Stray(p)
           \/ /\ GroupIndexForPod[p] # NoGroup
              /\ \/ p \in Bypassed \/ n = None \/ ~Exists(Listed', n) \/ ~Participating(Listed', n)
                 \/ Satisfied(Listed', n) >= GroupIndexForPod[p]
    BY <1>2, <2>1 DEF MayStart
  <2>5. Deleting(n)' => Deleting(TargetNode(Listed, p))'
    BY <1>2, <2>1
  <2> QED BY <1>2, <2>2, <2>3, <2>4, <2>5
<1> QED BY <1>3, <1>4, <1>5

\* A pod that has to wait had to before, and has been waiting as long.
LEMMA UnnoticedGates ==
  ASSUME TypeOK, Unnoticed
  PROVE  /\ StillGated(Listed') \subseteq StillGated(Listed)
         /\ \A p \in StillGated(Listed') : /\ pod'[p] = pod[p]
                                          /\ TargetNode(Listed', p) = TargetNode(Listed, p)
         /\ TimedOut(Listed') = TimedOut(Listed) \intersect StillGated(Listed')
         /\ (\A n \in Node : ~Deleting(n)') => StillGated(Listed') = StillGated(Listed)
<1>1. ASSUME NEW p \in Pod, GroupIndexForPod[p] # NoGroup
      PROVE  /\ MapPod(p) /\ pod'[p] = pod[p]
             /\ TargetNode(Listed', p) = TargetNode(Listed, p)
             /\ HasGate(Listed', p) <=> HasGate(Listed, p)
             /\ MayStart(Listed, p) => MayStart(Listed', p)
             /\ MayStart(Listed', p) => MayStart(Listed, p) \/ Deleting(TargetNode(Listed, p))'
  <2>1. MapPod(p)
    BY <1>1 DEF MapPod
  <2> QED BY <2>1, UnnoticedStarts DEF Unnoticed
<1>2. StillGated(Listed') \subseteq StillGated(Listed)
  BY <1>1 DEF StillGated
<1>3. \A p \in StillGated(Listed') : p \in Pod /\ GroupIndexForPod[p] # NoGroup
  BY DEF StillGated
<1>4. \A p \in StillGated(Listed') : /\ pod'[p] = pod[p]
                                     /\ TargetNode(Listed', p) = TargetNode(Listed, p)
  BY <1>1, <1>3
<1>5. TimedOut(Listed') = TimedOut(Listed) \intersect StillGated(Listed')
  BY <1>2, <1>4 DEF TimedOut, Listed
<1>6. ASSUME \A n \in Node : ~Deleting(n)' PROVE StillGated(Listed') = StillGated(Listed)
  <2>1. \A p \in Pod : ~Deleting(TargetNode(Listed, p))'
    BY <1>6 DEF Deleting
  <2> QED BY <1>1, <2>1 DEF StillGated
<1> QED BY <1>2, <1>4, <1>5, <1>6

\* No time comes to be waited for that was not.
LEMMA UnnoticedTimers ==
  ASSUME TypeOK, Unnoticed
  PROVE  Timers(Listed') \subseteq Timers(Listed)
<1>1. ASSUME NEW h \in HeldByWait(Listed')
      PROVE  h \in HeldByWait(Listed) /\ Remaining(Listed', h[1], h[2]) = Remaining(Listed, h[1], h[2])
  <2>1. /\ h \in Node \X Group /\ h[1] \in Node /\ h[2] \in Group
        /\ Participating(Listed', h[1]) /\ h[2] = Satisfied(Listed', h[1])
        /\ Running(Listed', h[1], h[2])
    BY <1>1 DEF HeldByWait
  <2>2. PICK n \in Node, g \in Group : h[1] = n /\ h[2] = g
    BY <2>1
  <2>3. /\ Participating(Listed, n) /\ g = Satisfied(Listed, n) /\ Running(Listed, n, g)
        /\ Remaining(Listed', n, g) = Remaining(Listed, n, g)
    BY <2>1, <2>2, UnnoticedNodes, UnnoticedGroups
  <2> QED BY <2>1, <2>2, <2>3 DEF HeldByWait
<1>2. WaitTimers(Listed') \subseteq WaitTimers(Listed)
  BY <1>1 DEF WaitTimers
<1>3. ASSUME NEW p \in StillGated(Listed') \ TimedOut(Listed')
      PROVE  /\ p \in StillGated(Listed) \ TimedOut(Listed)
             /\ Listed'.pod[p].age = Listed.pod[p].age
  BY <1>3, UnnoticedGates DEF Listed
<1> QED BY <1>2, <1>3 DEF Timers

\* A node that takes part should have the label and taint it should have had.
LEMMA UnnoticedWants ==
  ASSUME TypeOK, TypeOK', PodsOK, PodsOK', Unnoticed, NEW n \in Node, Participating(Listed', n)
  PROVE  /\ WantLabel(Listed', n, spec.method) = WantLabel(Listed, n, spec.method)
         /\ WantTaint(Listed', n, spec.method) = WantTaint(Listed, n, spec.method)
<1>1. Participating(Listed, n) /\ Satisfied(Listed', n) = Satisfied(Listed, n)
      /\ node'[n].label = node[n].label
  BY UnnoticedNodes, UnnoticedGroups
<1>2. ASSUME NEW p \in Pod
      PROVE  /\ "affinity" \in pod[p].rule => MapPod(p)
             /\ "affinity" \in pod'[p].rule => MapPod(p)
  BY DEF PodsOK, PodOK, MapPod
<1>3. \A p \in Pod : MapPod(p) => /\ pod'[p] = pod[p]
                                  /\ IsActive(Listed', p) <=> IsActive(Listed, p)
  BY UnnoticedStarts DEF Unnoticed
<1>4. PendingRequiredKeys(Listed') <=> PendingRequiredKeys(Listed)
  BY <1>2, <1>3 DEF PendingRequiredKeys, Listed
<1>5. WantTaint(Listed', n, spec.method) = WantTaint(Listed, n, spec.method)
  BY <1>1 DEF WantTaint
<1>6. WantLabel(Listed', n, spec.method) = WantLabel(Listed, n, spec.method)
  <2>1. Listed'.node[n].label = Listed.node[n].label
    BY <1>1 DEF Listed
  <2> QED BY <1>1, <1>4, <2>1 DEF WantLabel
<1> QED BY <1>5, <1>6

\* The status is the same, unless a node is marked as deleted.
LEMMA UnnoticedStatus ==
  ASSUME TypeOK, Unnoticed, \A n \in Node : ~Deleting(n)', NEW method
  PROVE  NodeScopedStatus(Listed', method) = NodeScopedStatus(Listed, method)
<1>1. {n \in Node : Participating(Listed', n)} = {n \in Node : Participating(Listed, n)}
  BY UnnoticedNodes
<1>2. \A n \in Node : Satisfied(Listed', n) = Satisfied(Listed, n)
  BY UnnoticedGroups
<1>3. StillGated(Listed') = StillGated(Listed)
  BY UnnoticedGates
<1>4. TimedOut(Listed') = TimedOut(Listed)
  BY <1>3, UnnoticedGates DEF TimedOut
<1>5. \A p \in TimedOut(Listed) : TargetNode(Listed', p) = TargetNode(Listed, p)
  BY <1>3, UnnoticedGates DEF TimedOut
<1>6. {TargetNode(Listed', p) : p \in TimedOut(Listed')} = {TargetNode(Listed, p) : p \in TimedOut(Listed)}
  BY <1>4, <1>5
<1>7. MissingToleration(Listed', method) = MissingToleration(Listed, method)
  BY DEF MissingToleration, Unnoticed, Listed
<1> DEFINE total == {n \in Node : Participating(Listed, n)}
<1>8. {n \in total : Satisfied(Listed', n) >= NumGroups} = {n \in total : Satisfied(Listed, n) >= NumGroups}
      /\ {Satisfied(Listed', n) : n \in total} = {Satisfied(Listed, n) : n \in total}
  BY <1>2
<1> QED BY <1>1, <1>3, <1>6, <1>7, <1>8 DEF NodeScopedStatus

\* So what the last round has left done stays done.
LEMMA UnnoticedSettled ==
  ASSUME TypeOK, TypeOK', PodsOK, PodsOK', SettledOK, Settled, Unnoticed
  PROVE  SettledOK'
<1>1. /\ \A p \in Ungate(Listed) : Deleting(TargetNode(Listed, p))
      /\ \A n \in Node : NodeDone(n)
      /\ timer > 0 /\ \A t \in Timers(Listed) : timer <= t
      /\ (\A n \in Node : ~Deleting(n)) => status = NodeScopedStatus(Listed, spec.method)
  BY DEF SettledOK
<1>2. spec' = spec /\ timer' = timer /\ status' = status
  BY DEF Unnoticed
<1>3. ASSUME NEW p \in Ungate(Listed)' PROVE Deleting(TargetNode(Listed, p))'
  <2>1. p \in Pod /\ HasGate(Listed', p) /\ MayStart(Listed', p) /\ MapPod(p)
    BY <1>3 DEF Ungate, MayStart, Stray, MapPod
  <2>2. HasGate(Listed, p) /\ TargetNode(Listed', p) = TargetNode(Listed, p)
        /\ (MayStart(Listed, p) \/ Deleting(TargetNode(Listed, p))')
    BY <2>1, UnnoticedStarts
  <2>3. CASE MayStart(Listed, p)
    <3>1. Deleting(TargetNode(Listed, p))
      BY <1>1, <2>1, <2>2, <2>3 DEF Ungate
    <3>2. PICK n \in Node : n = TargetNode(Listed, p)
      BY <3>1 DEF Deleting
    <3>3. Deleting(n)'
      BY <3>1, <3>2, UnnoticedNodes
    <3> QED BY <2>2, <3>2, <3>3
  <2> QED BY <2>2, <2>3
<1>4. ASSUME NEW n \in Node PROVE NodeDone(n)'
  <2>1. SUFFICES ASSUME Participating(Listed', n)
                 PROVE  /\ node'[n].label = WantLabel(Listed', n, spec.method)
                        /\ node'[n].taint = WantTaint(Listed', n, spec.method)
    BY <1>2 DEF NodeDone
  <2>2. Participating(Listed, n) /\ node'[n].label = node[n].label /\ node'[n].taint = node[n].taint
    BY <2>1, UnnoticedNodes
  <2>3. /\ node[n].label = WantLabel(Listed, n, spec.method)
        /\ node[n].taint = WantTaint(Listed, n, spec.method)
    BY <1>1, <2>2 DEF NodeDone
  <2> QED BY <2>1, <2>2, <2>3, UnnoticedWants
<1>5. timer' > 0 /\ \A t \in Timers(Listed') : timer' <= t
  BY <1>1, <1>2, UnnoticedTimers
<1>6. ASSUME \A n \in Node : ~Deleting(n)' PROVE status' = NodeScopedStatus(Listed', spec.method)
  <2>1. \A n \in Node : ~Deleting(n)
    BY <1>6, UnnoticedNodes
  <2> QED BY <1>1, <1>2, <1>6, <2>1, UnnoticedStatus
<1> QED BY <1>2, <1>3, <1>4, <1>5, <1>6 DEF SettledOK

-----------------------------------------------------------------------------
(* Nothing is forgotten: time passes.                                      *)

\* All that time changes is how long pods have been gated or Ready.
LEMMA TickPods ==
  ASSUME TypeOK, Tick
  PROVE  /\ Listed'.node = Listed.node /\ Listed'.ds = Listed.ds
         /\ \A p \in Pod :
              /\ Listed'.pod[p].st = Listed.pod[p].st /\ Listed'.pod[p].on = Listed.pod[p].on
              /\ Listed'.pod[p].rule = Listed.pod[p].rule
              /\ Listed'.pod[p].age = IF pod[p].st \in {"gated", "ready"} /\ pod[p].age < AgeCap
                                        THEN pod[p].age + 1 ELSE pod[p].age
              /\ HasGate(Listed', p) <=> HasGate(Listed, p)
              /\ IsActive(Listed', p) <=> IsActive(Listed, p)
              /\ TargetNode(Listed', p) = TargetNode(Listed, p)
<1>1. /\ Listed'.node = node /\ Listed'.ds = ds /\ Listed.node = node /\ Listed.ds = ds
      /\ Listed.pod = pod /\ Listed'.pod = pod'
      /\ \A p \in Pod : pod'[p] = Older(pod[p])
  BY DEF Tick, Store, Listed
<1>2. ASSUME NEW p \in Pod
      PROVE  /\ pod'[p].st = pod[p].st /\ pod'[p].on = pod[p].on /\ pod'[p].rule = pod[p].rule
             /\ pod'[p].age = IF pod[p].st \in {"gated", "ready"} /\ pod[p].age < AgeCap
                                THEN pod[p].age + 1 ELSE pod[p].age
  <2>1. pod[p] \in [st : {"absent", "gated", "pending", "ready"}, age : 0 .. AgeCap,
                    on : Node \union {None}, rule : SUBSET {"affinity", "tolerations"}]
    BY DEF TypeOK
  <2> QED BY <1>1, <2>1 DEF Older
<1> QED BY <1>1, <1>2 DEF HasGate, IsActive, TargetNode

\* The groups have the same pods, and miss the same.
LEMMA TickGroups ==
  ASSUME TypeOK, Tick, NEW n, NEW g \in Group
  PROVE  /\ PodsHere(Listed', n, g) = PodsHere(Listed, n, g)
         /\ Running(Listed', n, g) <=> Running(Listed, n, g)
<1>1. PodsHere(Listed', n, g) = PodsHere(Listed, n, g)
  BY TickPods DEF PodsHere
<1>2. DaemonSetsForGroup(Listed', g) = DaemonSetsForGroup(Listed, g)
  BY TickPods DEF DaemonSetsForGroup
<1>3. TaintsOn(Listed', n) = TaintsOn(Listed, n)
  BY TickPods DEF TaintsOn
<1>4. \A p \in PodsHere(Listed, n, g) : Listed'.pod[p].st = Listed.pod[p].st
  BY TickPods DEF PodsHere
<1> QED BY <1>1, <1>2, <1>3, <1>4 DEF Running, DaemonSetExpectedOnNode

\* A Ready pod has one less to go, as long as there is something to go: ages are counted
\* up to the longest wait.
LEMMA TickRemaining ==
  ASSUME TypeOK, Tick, NEW p \in Pod, NEW g \in Group, Listed.pod[p].st = "ready"
  PROVE  LET r == ReadyRemaining(Listed, p, Wait[g]) IN
           ReadyRemaining(Listed', p, Wait[g]) = IF r = 0 THEN 0 ELSE r - 1
<1>1. /\ Listed.pod[p].age = pod[p].age /\ pod[p].age \in 0 .. AgeCap /\ pod[p].st = "ready"
      /\ Listed'.pod[p].age = IF pod[p].age < AgeCap THEN pod[p].age + 1 ELSE pod[p].age
  BY TickPods DEF TypeOK, Listed
<1>2. AgeCap \in Nat /\ Wait[g] \in Nat /\ Wait[g] <= AgeCap
  BY AgeCapIs, PlanAssumption DEF PlanAssumption
<1> QED BY <1>1, <1>2 DEF ReadyRemaining

\* Of a group that only its waitDuration holds back, with two units or more to go, one
\* is over.
LEMMA TickHeld ==
  ASSUME TypeOK, Tick, NEW n, NEW g \in Group, Running(Listed, n, g), Remaining(Listed, n, g) >= 2
  PROVE  /\ Remaining(Listed', n, g) = Remaining(Listed, n, g) - 1
         /\ ~GroupSatisfiedOnNode(Listed', n, g)
<1> DEFINE r(p) == ReadyRemaining(Listed, p, Wait[g])
           s(p) == ReadyRemaining(Listed', p, Wait[g])
           R == Remaining(Listed, n, g)
           S == Remaining(Listed', n, g)
           here == PodsHere(Listed, n, g)
<1>1. /\ TypeOK' /\ Wait[g] \in Nat
      /\ \A p \in Pod : Listed.pod[p].age \in Nat /\ Listed'.pod[p].age \in Nat
  <2>1. TypeOK'
    BY TickTypes
  <2>2. \A p \in Pod : Listed'.pod[p].age \in Nat
    BY <2>1, AgeCapIs DEF TypeOK, Listed
  <2> QED BY <2>1, <2>2, ListedTypes, PlanAssumption DEF PlanAssumption
<1>2. /\ R \in 0 .. Wait[g] /\ \A p \in here : r(p) <= R
      /\ R > 0 => \E p \in here : R = r(p)
  BY <1>1, RemainingBounds
<1>3. PodsHere(Listed', n, g) = here /\ Running(Listed', n, g)
  BY TickGroups
<1>4. /\ S \in 0 .. Wait[g] /\ \A p \in here : s(p) <= S
      /\ S > 0 => \E p \in here : S = s(p)
  <2>1. /\ S \in 0 .. Wait[g] /\ \A p \in PodsHere(Listed', n, g) : s(p) <= S
        /\ S > 0 => \E p \in PodsHere(Listed', n, g) : S = s(p)
    BY <1>1, RemainingBounds
  <2> QED BY <1>3, <2>1
<1>5. ASSUME NEW p \in here
      PROVE  /\ p \in Pod /\ r(p) \in Nat /\ s(p) \in Nat
             /\ s(p) = IF r(p) = 0 THEN 0 ELSE r(p) - 1
  <2>1. p \in Pod /\ Listed.pod[p].st = "ready"
    BY DEF Running, PodsHere
  <2>2. r(p) \in 0 .. Wait[g] /\ s(p) \in 0 .. Wait[g]
    BY <1>1, <2>1, ReadyRemainingType
  <2>3. s(p) = IF r(p) = 0 THEN 0 ELSE r(p) - 1
    BY <2>1, TickRemaining
  <2> QED BY <2>1, <2>2, <2>3
<1> HIDE DEF r, s, R, S, here
<1>6. R >= 2
  BY DEF R
<1>7. PICK q \in here : R = r(q)
  BY <1>1, <1>2, <1>6
<1>8. s(q) = R - 1 /\ s(q) <= S
  BY <1>4, <1>5, <1>6, <1>7
<1>9. PICK t \in here : S = s(t)
  BY <1>1, <1>2, <1>4, <1>6, <1>8
<1>10. S = R - 1
  BY <1>1, <1>2, <1>4, <1>5, <1>6, <1>8, <1>9
<1>11. s(q) # 0
  BY <1>1, <1>2, <1>6, <1>8
<1>12. ~GroupSatisfiedOnNode(Listed', n, g)
  BY <1>3, <1>11 DEF GroupSatisfiedOnNode, s, here
<1> QED BY <1>10, <1>12 DEF R, S

\* Before the requeue fires, no group of a participating node gets to be satisfied.
LEMMA TickSatisfied ==
  ASSUME TypeOK, Tick, \A t \in Timers(Listed) : t >= 2,
         NEW n \in Node, Participating(Listed, n)
  PROVE  Satisfied(Listed', n) = Satisfied(Listed, n)
<1> DEFINE k == Satisfied(Listed, n)
<1>1. NumGroups \in Nat
  BY PlanAssumption DEF PlanAssumption
<1>2. /\ k \in 0 .. NumGroups
      /\ \A g \in 0 .. k - 1 : GroupSatisfiedOnNode(Listed, n, g)
      /\ k < NumGroups => ~GroupSatisfiedOnNode(Listed, n, k)
  BY SatisfiedIs
<1>3. ASSUME NEW g \in 0 .. k - 1 PROVE GroupSatisfiedOnNode(Listed', n, g)
  <2>1. g \in Group /\ Running(Listed, n, g)
        /\ \A p \in PodsHere(Listed, n, g) : ReadyRemaining(Listed, p, Wait[g]) = 0
    BY <1>1, <1>2 DEF Group, GroupSatisfiedOnNode
  <2>2. Running(Listed', n, g) /\ PodsHere(Listed', n, g) = PodsHere(Listed, n, g)
    BY <2>1, TickGroups
  <2>3. \A p \in PodsHere(Listed, n, g) : p \in Pod /\ Listed.pod[p].st = "ready"
    BY <2>1 DEF Running, PodsHere
  <2>4. \A p \in PodsHere(Listed, n, g) : ReadyRemaining(Listed', p, Wait[g]) = 0
    BY <2>1, <2>3, TickRemaining
  <2> QED BY <2>2, <2>4 DEF GroupSatisfiedOnNode
<1>4. ASSUME k < NumGroups PROVE ~GroupSatisfiedOnNode(Listed', n, k)
  <2>1. k \in Group
    BY <1>1, <1>2, <1>4 DEF Group
  <2>2. CASE ~Running(Listed, n, k)
    BY <2>1, <2>2, TickGroups DEF GroupSatisfiedOnNode
  <2>3. CASE Running(Listed, n, k)
    <3>1. <<n, k>> \in HeldByWait(Listed)
      BY <2>1, <2>3 DEF HeldByWait
    <3>2. Remaining(Listed, <<n, k>>[1], <<n, k>>[2]) \in Timers(Listed)
      <4> HIDE DEF k
      <4> QED BY <3>1 DEF Timers, WaitTimers
    <3>3. Remaining(Listed, n, k) >= 2
      BY <3>2
    <3> QED BY <2>1, <2>3, <3>3, TickHeld
  <2> QED BY <2>2, <2>3
<1> HIDE DEF k
<1>5. Satisfied(Listed', n) = k
  BY <1>2, <1>3, <1>4, SatisfiedUnique
<1> QED BY <1>5 DEF k

\* So the same pods may start, and the same pods wait.
LEMMA TickGates ==
  ASSUME TypeOK, Tick, \A t \in Timers(Listed) : t >= 2
  PROVE  /\ Ungate(Listed') = Ungate(Listed)
         /\ StillGated(Listed') = StillGated(Listed)
         /\ TimedOut(Listed') = TimedOut(Listed)
<1>1. ASSUME NEW p \in Pod PROVE MayStart(Listed', p) <=> MayStart(Listed, p)
  <2>1. TargetNode(Listed, p) \in Node \union {None} /\ TargetNode(Listed', p) = TargetNode(Listed, p)
    BY ListedTypes, TargetNodeType, TickPods
  <2>2. CASE TargetNode(Listed, p) = None
    BY <2>1, <2>2 DEF MayStart
  <2>3. CASE TargetNode(Listed, p) \in Node
    <3>1. PICK n \in Node : n = TargetNode(Listed, p)
      BY <2>3
    <3>2. /\ Exists(Listed', n) <=> Exists(Listed, n)
          /\ Participating(Listed', n) <=> Participating(Listed, n)
          /\ Participating(Listed, n) => Satisfied(Listed', n) = Satisfied(Listed, n)
      BY TickPods, TickSatisfied DEF Exists, Participating
    <3> QED BY <2>1, <3>1, <3>2 DEF MayStart
  <2> QED BY <2>1, <2>2, <2>3
<1>2. Ungate(Listed') = Ungate(Listed) /\ StillGated(Listed') = StillGated(Listed)
  BY <1>1, TickPods DEF Ungate, StillGated
<1>3. ASSUME NEW p \in StillGated(Listed)
      PROVE  GateTimeout > 0 =>
                (Listed'.pod[p].age >= GateTimeout <=> Listed.pod[p].age >= GateTimeout)
  <2>1. SUFFICES ASSUME GateTimeout > 0
                 PROVE  Listed'.pod[p].age >= GateTimeout <=> Listed.pod[p].age >= GateTimeout
    OBVIOUS
  <2>2. /\ p \in Pod /\ Listed.pod[p].age \in Nat /\ GateTimeout \in Nat
        /\ \/ Listed'.pod[p].age = Listed.pod[p].age
           \/ Listed'.pod[p].age = Listed.pod[p].age + 1
    BY ListedTypes, TickPods, PlanAssumption DEF PlanAssumption, StillGated, Listed
  <2>3. ASSUME ~(Listed.pod[p].age >= GateTimeout) PROVE GateTimeout - Listed.pod[p].age >= 2
    <3>1. p \in StillGated(Listed) \ TimedOut(Listed)
      BY <2>3 DEF TimedOut
    <3>2. GateTimeout - Listed.pod[p].age \in Timers(Listed)
      BY <2>1, <2>2, <3>1 DEF Timers
    <3> QED BY <3>2
  <2> QED BY <2>2, <2>3
<1>4. TimedOut(Listed') = TimedOut(Listed)
  BY <1>2, <1>3 DEF TimedOut
<1> QED BY <1>2, <1>4

\* What is waited for is one unit nearer.
LEMMA TickTimers ==
  ASSUME TypeOK, Tick, \A t \in Timers(Listed) : t >= 2, NEW t \in Timers(Listed')
  PROVE  t \in Int /\ t + 1 \in Timers(Listed)
<1>1. ASSUME NEW h \in HeldByWait(Listed')
      PROVE  LET r == Remaining(Listed', h[1], h[2]) IN r \in Int /\ r + 1 \in WaitTimers(Listed)
  <2>1. PICK n \in Node, g \in Group : h = <<n, g>>
    BY DEF HeldByWait
  <2>2. Participating(Listed', n) /\ g = Satisfied(Listed', n) /\ Running(Listed', n, g)
    BY <2>1 DEF HeldByWait
  <2>3. Participating(Listed, n)
    BY <2>2, TickPods DEF Participating
  <2>4. g = Satisfied(Listed, n) /\ Running(Listed, n, g)
    BY <2>2, <2>3, TickGroups, TickSatisfied
  <2>5. h \in HeldByWait(Listed)
    BY <2>1, <2>3, <2>4 DEF HeldByWait
  <2>6. Remaining(Listed, h[1], h[2]) \in WaitTimers(Listed)
    BY <2>5 DEF WaitTimers
  <2>7. Remaining(Listed, n, g) \in WaitTimers(Listed)
    BY <2>1, <2>6
  <2>8. Remaining(Listed, n, g) >= 2
    BY <2>7 DEF Timers
  <2>9. Remaining(Listed', n, g) = Remaining(Listed, n, g) - 1
    BY <2>4, <2>8, TickHeld
  <2>10. Remaining(Listed, n, g) \in Int
    BY ListedTypes, RemainingBounds, PlanAssumption DEF PlanAssumption
  <2>11. Remaining(Listed', n, g) \in Int /\ Remaining(Listed', n, g) + 1 = Remaining(Listed, n, g)
    BY <2>9, <2>10
  <2> QED BY <2>1, <2>7, <2>11
<1>2. ASSUME GateTimeout # 0, NEW p \in StillGated(Listed') \ TimedOut(Listed'),
             t = GateTimeout - Listed'.pod[p].age
      PROVE  t \in Int /\ t + 1 \in Timers(Listed)
  <2>1. p \in StillGated(Listed) \ TimedOut(Listed) /\ p \in Pod
    BY TickGates DEF StillGated
  <2>2. Listed.pod[p].age \in Nat /\ GateTimeout \in Nat /\ GateTimeout <= AgeCap /\ AgeCap \in Nat
    BY <2>1, ListedTypes, AgeCapIs, PlanAssumption DEF PlanAssumption
  <2>3. Listed.pod[p].age < GateTimeout /\ pod[p].st = "gated" /\ Listed.pod[p].age = pod[p].age
    BY <1>2, <2>1, <2>2 DEF TimedOut, StillGated, HasGate, Listed
  <2>4. Listed'.pod[p].age = Listed.pod[p].age + 1
    BY <2>1, <2>2, <2>3, TickPods
  <2>5. t \in Int /\ t + 1 = GateTimeout - Listed.pod[p].age
    BY <1>2, <2>2, <2>4
  <2> QED BY <1>2, <2>1, <2>5 DEF Timers
<1>3. CASE t \in WaitTimers(Listed')
  <2>1. PICK h \in HeldByWait(Listed') : t = Remaining(Listed', h[1], h[2])
    BY <1>3 DEF WaitTimers
  <2> QED BY <1>1, <2>1 DEF Timers
<1>4. CASE t \notin WaitTimers(Listed')
  BY <1>2, <1>4 DEF Timers
<1> QED BY <1>3, <1>4

\* The labels, the taints and the status that a round would write are the same.
LEMMA TickWants ==
  ASSUME TypeOK, Tick, \A t \in Timers(Listed) : t >= 2, NEW method
  PROVE  /\ \A n \in Node : Participating(Listed', n) =>
               /\ Participating(Listed, n)
               /\ WantLabel(Listed', n, method) = WantLabel(Listed, n, method)
               /\ WantTaint(Listed', n, method) = WantTaint(Listed, n, method)
         /\ NodeScopedStatus(Listed', method) = NodeScopedStatus(Listed, method)
<1>1. \A n \in Node : /\ Participating(Listed', n) <=> Participating(Listed, n)
                      /\ Participating(Listed, n) => Satisfied(Listed', n) = Satisfied(Listed, n)
  BY TickPods, TickSatisfied DEF Participating
<1>2. PendingRequiredKeys(Listed') <=> PendingRequiredKeys(Listed)
  BY TickPods DEF PendingRequiredKeys
<1>3. ASSUME NEW n \in Node, Participating(Listed', n)
      PROVE  /\ WantLabel(Listed', n, method) = WantLabel(Listed, n, method)
             /\ WantTaint(Listed', n, method) = WantTaint(Listed, n, method)
  <2>1. Listed'.node[n] = Listed.node[n]
    BY TickPods
  <2> QED BY <1>1, <1>2, <1>3, <2>1 DEF WantLabel, WantTaint
<1>4. {n \in Node : Participating(Listed', n)} = {n \in Node : Participating(Listed, n)}
  BY <1>1
<1> DEFINE total == {n \in Node : Participating(Listed, n)}
<1>5. \A n \in total : Satisfied(Listed', n) = Satisfied(Listed, n)
  BY <1>1
<1>6. {n \in total : Satisfied(Listed', n) >= NumGroups} = {n \in total : Satisfied(Listed, n) >= NumGroups}
      /\ {Satisfied(Listed', n) : n \in total} = {Satisfied(Listed, n) : n \in total}
  BY <1>5
<1>7. \A p \in TimedOut(Listed) : TargetNode(Listed', p) = TargetNode(Listed, p)
  BY TickPods DEF TimedOut, StillGated
<1>8. /\ {TargetNode(Listed', p) : p \in TimedOut(Listed')} = {TargetNode(Listed, p) : p \in TimedOut(Listed)}
      /\ StillGated(Listed') = StillGated(Listed)
  BY <1>7, TickGates
<1>9. MissingToleration(Listed', method) = MissingToleration(Listed, method)
  BY TickPods DEF MissingToleration
<1>10. NodeScopedStatus(Listed', method) = NodeScopedStatus(Listed, method)
  BY <1>4, <1>6, <1>8, <1>9 DEF NodeScopedStatus
<1> QED BY <1>1, <1>3, <1>10

\* While the requeue is still to come, there is nothing for it to do yet.
LEMMA TickSettled ==
  ASSUME TypeOK, SettledOK, Tick
  PROVE  SettledOK'
<1>1. SUFFICES ASSUME Settled' PROVE SettledOK'
  BY DEF SettledOK
<1>2. Settled /\ timer # 1 /\ spec' = spec /\ status' = status
  BY <1>1 DEF Tick, Settled
<1>3. /\ \A p \in Ungate(Listed) : Deleting(TargetNode(Listed, p))
      /\ \A n \in Node : NodeDone(n)
      /\ timer > 0 /\ \A t \in Timers(Listed) : timer <= t
      /\ (\A n \in Node : ~Deleting(n)) => status = NodeScopedStatus(Listed, spec.method)
  BY <1>2 DEF SettledOK
<1>4. timer \in Nat /\ timer >= 2 /\ timer' = timer - 1
  BY <1>2, <1>3, RoundsAssumption DEF Tick, TypeOK, RoundsAssumption
<1>5. \A t \in Timers(Listed) : t \in Int /\ t >= 2
  BY <1>3, <1>4, ListedTypes, TimersArePositive
<1>6. node' = node
  BY DEF Tick, Store
<1>7. ASSUME NEW p \in Ungate(Listed)' PROVE Deleting(TargetNode(Listed, p))'
  <2>1. p \in Ungate(Listed) /\ p \in Pod
    BY <1>5, TickGates DEF Ungate
  <2>2. Deleting(TargetNode(Listed, p)) /\ TargetNode(Listed', p) = TargetNode(Listed, p)
    BY <1>3, <2>1, TickPods
  <2> QED BY <1>6, <2>2 DEF Deleting
<1>8. ASSUME NEW n \in Node PROVE NodeDone(n)'
  BY <1>2, <1>3, <1>5, <1>6, TickWants DEF NodeDone
<1>9. timer' > 0 /\ \A t \in Timers(Listed') : timer' <= t
  <2>1. ASSUME NEW t \in Timers(Listed') PROVE timer' <= t
    <3>1. t \in Int /\ t + 1 \in Timers(Listed)
      BY <1>5, TickTimers
    <3>2. timer <= t + 1
      BY <1>3, <3>1
    <3> QED BY <1>4, <3>1, <3>2
  <2> QED BY <1>4, <2>1
<1>10. ASSUME \A n \in Node : ~Deleting(n)' PROVE status' = NodeScopedStatus(Listed', spec'.method)
  <2>1. \A n \in Node : ~Deleting(n)
    BY <1>6, <1>10 DEF Deleting
  <2> QED BY <1>2, <1>3, <1>5, <2>1, TickWants
<1> QED BY <1>7, <1>8, <1>9, <1>10 DEF SettledOK

-----------------------------------------------------------------------------
(* Nothing is forgotten: a round, and all steps together.                  *)

\* A round that changes nothing has nothing to do, and asks to be run again in time.
LEMMA RoundSettled ==
  ASSUME TypeOK, Round
  PROVE  SettledOK'
<1>1. SUFFICES ASSUME ~queued' PROVE SettledOK'
  BY DEF SettledOK, Settled
<1>2. pod' = pod /\ node' = node /\ status' = status /\ ds' = ds /\ spec' = spec
  BY <1>1 DEF Round, Store
<1>3. Listed' = Listed
  BY <1>2 DEF Listed
<1>4. Ungate(Listed) = {}
  <2> SUFFICES ASSUME NEW p \in Ungate(Listed) PROVE FALSE
    OBVIOUS
  <2>1. p \in Pod /\ pod[p].st = "gated"
    BY DEF Ungate, HasGate, Listed
  <2>2. pod'[p] = ApplyPodAction(p)
    BY <2>1 DEF Round, Store
  <2>3. ApplyPodAction(p).st = "pending"
    BY <2>1 DEF ApplyPodAction, TypeOK
  <2> QED BY <1>2, <2>1, <2>2, <2>3
<1>5. ASSUME NEW n \in Node PROVE NodeDone(n)
  <2>1. SUFFICES ASSUME Participating(Listed, n) PROVE NodeDone(n)
    BY DEF NodeDone
  <2>2. Exists(Listed, n) /\ node'[n] = SyncNodeEligibility(n)
    BY <2>1 DEF Round, Store, Participating, Exists
  <2>3. SyncNodeEligibility(n).label = WantLabel(Listed, n, spec.method)
        /\ SyncNodeEligibility(n).taint = WantTaint(Listed, n, spec.method)
    BY <2>2 DEF SyncNodeEligibility, TypeOK
  <2> QED BY <1>2, <2>2, <2>3 DEF NodeDone
<1>6. timer' > 0 /\ \A t \in Timers(Listed) : timer' <= t
  <2>1. timer' \in 1 .. NodeResync /\ timer' <= RequeueAfter(Listed, NodeResync)
    BY RequeueTypes DEF Round
  <2>2. /\ RequeueAfter(Listed, NodeResync) \in 1 .. NodeResync
        /\ \A t \in Timers(Listed) : RequeueAfter(Listed, NodeResync) <= t
    BY ListedTypes, RequeueInTime, RoundsAssumption DEF RoundsAssumption
  <2>3. Timers(Listed) \subseteq Nat
    BY ListedTypes, TimersArePositive
  <2>4. NodeResync \in Nat
    BY RoundsAssumption DEF RoundsAssumption
  <2>5. ASSUME NEW t \in Timers(Listed) PROVE timer' <= t
    <3>1. t \in Nat /\ RequeueAfter(Listed, NodeResync) <= t
      BY <2>2, <2>3
    <3> QED BY <2>1, <2>2, <2>4, <3>1
  <2> QED BY <2>1, <2>4, <2>5
<1>7. status' = NodeScopedStatus(Listed, spec.method)
  BY DEF Round
<1> QED BY <1>2, <1>3, <1>4, <1>5, <1>6, <1>7 DEF SettledOK, NodeDone, Deleting

\* An event of a pod, unless it enqueues the sequence.
LEMMA PodEventSettled ==
  ASSUME TypeOK, PodsOK, SettledOK, PodsOK', TypeOK', NEW p \in Pod, NEW r, PodEvent(p, r)
  PROVE  SettledOK'
<1>1. SUFFICES ASSUME Settled' PROVE SettledOK'
  BY DEF SettledOK
<1>2. Settled /\ ~MapPod(p)
  BY <1>1 DEF PodEvent, Settled
<1>3. pod' = [pod EXCEPT ![p] = r] /\ UNCHANGED <<node, ds, spec, status, timer>>
  BY DEF PodEvent, Store
<1>4. \A q \in Pod : q # p => pod'[q] = pod[q]
  BY <1>3 DEF TypeOK
<1>5. Unnoticed
  BY <1>2, <1>3, <1>4 DEF Unnoticed
<1> QED BY <1>2, <1>5, UnnoticedSettled

\* All other events enqueue the sequence but the one that marks a node as deleted.
LEMMA NodeEventSettled ==
  ASSUME TypeOK, PodsOK, SettledOK, PodsOK', TypeOK', Machines
  PROVE  SettledOK'
<1>1. SUFFICES ASSUME Settled' PROVE SettledOK'
  BY DEF SettledOK
<1>2. node \in Nodes
  BY DEF TypeOK, Nodes
<1>3. ASSUME NEW n \in Node, NEW r, NodeEvent(n, r) PROVE Settled /\ ~NodeChangePredicate(node[n], r)
  BY <1>1, <1>3 DEF NodeEvent, Settled
<1>4. ASSUME NEW n \in Node, Join(n) PROVE FALSE
  <2>1. PICK r : NodeEvent(n, r)
    BY <1>4 DEF Join
  <2> QED BY <1>3, <1>4, <2>1 DEF Join, NodeChangePredicate, NoNode
<1>5. ASSUME NEW n \in Node, NEW ts, ts # node[n].taints,
             NodeEvent(n, [node[n] EXCEPT !.taints = ts])
      PROVE  FALSE
  <2>1. [node[n] EXCEPT !.taints = ts].taints = ts
    BY <1>2 DEF Nodes
  <2>2. ~NodeChangePredicate(node[n], [node[n] EXCEPT !.taints = ts])
    BY <1>3, <1>5
  <2> QED BY <1>5, <2>1, <2>2 DEF NodeChangePredicate
<1>6. ASSUME NEW n \in Node, Booted(n) PROVE FALSE
  <2>1. node[n].taints \ {"transient"} # node[n].taints
        /\ NodeEvent(n, [node[n] EXCEPT !.taints = node[n].taints \ {"transient"}])
    BY <1>6 DEF Booted
  <2> QED BY <1>5, <2>1
<1>7. ASSUME NEW n \in Node, Relabel(n) PROVE FALSE
  <2>1. ASSUME NEW t \in Foreign,
               NodeEvent(n, [node[n] EXCEPT !.taints = IF t \in @ THEN @ \ {t} ELSE @ \union {t}])
        PROVE  FALSE
    <3> DEFINE ts == IF t \in node[n].taints THEN node[n].taints \ {t} ELSE node[n].taints \union {t}
    <3>1. ts # node[n].taints
      OBVIOUS
    <3>2. NodeEvent(n, [node[n] EXCEPT !.taints = ts])
      BY <2>1
    <3> HIDE DEF ts
    <3> QED BY <1>5, <3>1, <3>2
  <2>2. ASSUME NEW s, {node[n].st, s} = {"in", "out"}, NodeEvent(n, [node[n] EXCEPT !.st = s])
        PROVE  FALSE
    <3>1. [node[n] EXCEPT !.st = s].st = s
      BY <1>2 DEF Nodes
    <3>2. ~NodeChangePredicate(node[n], [node[n] EXCEPT !.st = s])
      BY <1>3, <2>2
    <3> QED BY <2>2, <3>1, <3>2 DEF NodeChangePredicate
  <2>3. {"in", "out"} = {"out", "in"}
    OBVIOUS
  <2>4. ASSUME node[n].st = "in", NodeEvent(n, [node[n] EXCEPT !.st = "out"]) PROVE FALSE
    BY <2>2, <2>4
  <2>5. ASSUME node[n].st = "out", NodeEvent(n, [node[n] EXCEPT !.st = "in"]) PROVE FALSE
    BY <2>2, <2>3, <2>5
  <2> QED BY <1>7, <2>1, <2>4, <2>5 DEF Relabel
<1>8. ASSUME NEW n \in Node, Vanish(n) PROVE FALSE
  BY <1>3, <1>8 DEF Vanish, NodeChangePredicate, NoNode
<1>9. ASSUME NEW n \in Node, MarkDeleted(n) PROVE SettledOK'
  <2>1. /\ Settled /\ node[n].st \in {"in", "out"} /\ UNCHANGED <<pod, ds, spec, status, timer>>
        /\ node' = [node EXCEPT ![n] = [node[n] EXCEPT !.st = "deleting"]]
    BY <1>3, <1>9 DEF MarkDeleted, NodeEvent, Store
  <2>2. \A m \in Node : \/ node'[m] = node[m]
                        \/ /\ node[m].st \in {"in", "out"}
                           /\ node'[m] = [node[m] EXCEPT !.st = "deleting"]
    BY <1>2, <2>1 DEF Nodes
  <2>3. Unnoticed
    BY <2>1, <2>2 DEF Unnoticed
  <2> QED BY <2>1, <2>3, UnnoticedSettled
<1> QED BY <1>4, <1>6, <1>7, <1>8, <1>9 DEF Machines

\* A DaemonSet that comes or goes, unless it enqueues the sequence.
LEMMA DaemonSetEventSettled ==
  ASSUME TypeOK, PodsOK, SettledOK, PodsOK', TypeOK', NEW d \in DaemonSet,
         AddDaemonSet(d) \/ RemoveDaemonSet(d)
  PROVE  SettledOK'
<1>1. SUFFICES ASSUME Settled' PROVE SettledOK'
  BY DEF SettledOK
<1>2. /\ UNCHANGED <<pod, node, spec, status, timer>> /\ Settled /\ ~MapDaemonSet(d)
      /\ ds' \in {ds \union {d}, ds \ {d}}
  BY <1>1 DEF AddDaemonSet, RemoveDaemonSet, DaemonSetEvent, Store, Settled
<1>3. {e \in ds' : Selects[e] # {}} = {e \in ds : Selects[e] # {}}
  BY <1>2 DEF MapDaemonSet
<1>4. Unnoticed
  BY <1>2, <1>3 DEF Unnoticed
<1> QED BY <1>2, <1>4, UnnoticedSettled

\* Any step.
LEMMA SettledStep ==
  ASSUME TypeOK, PodsOK, SettledOK, PodsOK', TypeOK', [Next]_vars
  PROVE  SettledOK'
<1>1. CASE Workload
  <2>1. ASSUME NEW p \in Pod, NEW r, PodEvent(p, r) PROVE SettledOK'
    BY <2>1, PodEventSettled
  <2>2. ASSUME NEW p \in Pod, Create(p) \/ Delete(p) \/ BecomeReady(p) \/ BecomeUnready(p)
                              \/ \E n \in Node : Bind(p, n)
        PROVE  SettledOK'
    BY <2>1, <2>2 DEF Create, Delete, BecomeReady, BecomeUnready, Bind
  <2> QED BY <1>1, <2>2, DaemonSetEventSettled DEF Workload
<1>2. CASE (\E s \in Specs : EditSpec(s)) \/ RejectSpec
  BY <1>2 DEF EditSpec, RejectSpec, SettledOK, Settled
<1>3. CASE UNCHANGED vars
  BY <1>3 DEF vars, SettledOK, Settled, NodeDone, Deleting, Listed
<1> QED BY <1>1, <1>2, <1>3, NodeEventSettled, TickSettled, RoundSettled DEF Next

-----------------------------------------------------------------------------
(* The theorems.                                                           *)

\* The inductive invariant holds in every reachable state.
THEOREM Invariance == Spec => []IInv
<1>1. Init => IInv
  <2> SUFFICES ASSUME Init PROVE IInv
    OBVIOUS
  <2>1. TypeOK
    BY InitTypes
  <2>2. PodsOK
    BY DEF Init, PodsOK, PodOK, NoPod
  <2>3. SettledOK
    BY DEF Init, SettledOK, Settled
  <2>4. ASSUME NEW n \in Node
        PROVE  /\ ~Exists(Listed, n) => node[n] = NoNode
               /\ Participating(Listed, n) => Satisfied(Listed, n) <= reached[n]
               /\ node[n].label = Unset /\ node[n].taint = Unset
    <3>1. node[n] = (IF n \in Present THEN [NoNode EXCEPT !.st = "in"] ELSE NoNode)
          /\ reached[n] = (IF n \in Present THEN Satisfied(Listed, n) ELSE 0)
      BY DEF Init
    <3>2. Satisfied(Listed, n) \in Nat
      BY SatisfiedIs, PlanAssumption DEF PlanAssumption
    <3> QED BY <3>1, <3>2 DEF Exists, Participating, Listed, NoNode
  <2>5. NodesOK
    BY <2>4 DEF NodesOK
  <2> QED BY <2>1, <2>2, <2>3, <2>5 DEF IInv
<1>2. IInv /\ [Next]_vars => IInv'
  BY TypeStep, PodsStep, NodesStep, SettledStep DEF IInv
<1> QED BY <1>1, <1>2, PTL DEF Spec

\* Every variable keeps its type: in particular a node's taint is the number of a group,
\* and the timer never exceeds the resync period.
THEOREM TypeCorrect == Spec => []TypeOK
<1>1. IInv => TypeOK
  BY DEF IInv
<1> QED BY <1>1, Invariance, PTL

\* No wake-up is missing and no timer late: a pod that may start is still gated, with
\* nothing queued, only if its node has been marked as deleted, and then a requeue comes.
THEOREM NothingIsWithheld == Spec => []NothingWithheld
<1>1. IInv => NothingWithheld
  <2> SUFFICES ASSUME IInv, Settled, NEW p \in Ungate(Listed)
               PROVE  \E n \in Node :
                         TargetNode(Listed, p) = n /\ node[n].st = "deleting" /\ timer > 0
    BY DEF NothingWithheld
  <2> QED BY DEF IInv, SettledOK, Deleting
<1> QED BY <1>1, Invariance, PTL

\* A steered pod, which no DaemonSet owns, can be bound to a node exactly when its rules
\* agree with the node's label and taint.
LEMMA SteeredBinding ==
  ASSUME IInv, NEW p \in Pod, NEW n \in Node, pod[p].rule # {},
         Participating(Listed, n), node[n].taints = {}
  PROVE  /\ GroupIndexForPod[p] \in Group /\ Owner[p] = None
         /\ CanBind(Listed, p, n) <=>
              /\ \/ node[n].taint = Unset
                 \/ /\ "tolerations" \in pod[p].rule
                    /\ EligibilityTolerations(GroupIndexForPod[p], node[n].taint)
              /\ "affinity" \in pod[p].rule =>
                    EligibilityRequirement(GroupIndexForPod[p], node[n].label)
<1>1. GroupIndexForPod[p] # NoGroup /\ PinnedTo[p] = None
  BY DEF IInv, PodsOK, PodOK
<1>2. GroupIndexForPod[p] \in Group
  BY <1>1, GroupIndexType
<1>3. Owner[p] = None
  <2> SUFFICES ASSUME Owner[p] # None PROVE FALSE
    OBVIOUS
  <2>1. PICK m \in Node : Terms[p] = {m}
    BY DaemonPodAssumption
  <2>2. PinnedTo[p] \in Node
    BY <2>1 DEF PinnedTo
  <2> QED BY <1>1, <2>2, PlanAssumption DEF PlanAssumption
<1>4. Exists(Listed, n)
  BY DEF Participating, Exists
<1>5. Tolerated(Listed, p, n) <=> \/ node[n].taint = Unset
                                  \/ /\ "tolerations" \in pod[p].rule
                                     /\ EligibilityTolerations(GroupIndexForPod[p], node[n].taint)
  BY <1>3 DEF Tolerated, Listed
<1>6. CanBind(Listed, p, n) <=>
         /\ Tolerated(Listed, p, n)
         /\ "affinity" \in pod[p].rule =>
               EligibilityRequirement(GroupIndexForPod[p], node[n].label)
  BY <1>1, <1>4 DEF CanBind, Listed
<1> QED BY <1>2, <1>3, <1>5, <1>6

\* Once settled, a steered pod can go to a participating node with nothing else against
\* it exactly when the groups before the pod's own are satisfied there.
THEOREM SteeringIsExact == Spec => []SteeringExact
<1>1. IInv => SteeringExact
  <2> SUFFICES ASSUME IInv, Settled, NEW p \in Pod, NEW n \in Node,
                      pod[p].rule = Rules, Participating(Listed, n), node[n].taints = {}
               PROVE  CanBind(Listed, p, n) <=> Satisfied(Listed, n) >= GroupIndexForPod[p]
    BY DEF SteeringExact
  <2> DEFINE s == Satisfied(Listed, n)
             g == GroupIndexForPod[p]
  <2>1. /\ g \in Group
        /\ CanBind(Listed, p, n) <=>
              /\ \/ node[n].taint = Unset
                 \/ "tolerations" \in Rules /\ EligibilityTolerations(g, node[n].taint)
              /\ "affinity" \in Rules => EligibilityRequirement(g, node[n].label)
    BY SteeredBinding DEF Rules
  <2>2. /\ node[n].label = WantLabel(Listed, n, spec.method)
        /\ node[n].taint = WantTaint(Listed, n, spec.method)
    BY DEF IInv, SettledOK, NodeDone
  <2>3. s \in 0 .. NumGroups /\ NumGroups \in Nat
    BY SatisfiedIs, PlanAssumption DEF PlanAssumption
  <2>4. EligibilityRequirement(g, s) <=> s >= g
    BY <2>1, <2>3, MethodsAgree
  <2>5. s < NumGroups => (EligibilityTolerations(g, s) <=> s >= g)
    BY <2>1, <2>3, MethodsAgree
  <2>6. spec.method \in Methods
    BY RoundsAssumption DEF RoundsAssumption, IInv, TypeOK
  <2>7. CASE spec.method = "Taint"
    <3>1. Rules = {"tolerations"} /\ node[n].taint = IF s < NumGroups THEN s ELSE Unset
      BY <2>2, <2>7 DEF Rules, WantTaint
    <3>2. CASE s < NumGroups
      <4>1. node[n].taint = s /\ s # Unset
        BY <2>3, <3>1, <3>2 DEF Unset
      <4> QED BY <2>1, <2>5, <3>1, <3>2, <4>1
    <3>3. CASE ~(s < NumGroups)
      <4>1. s >= g
        BY <2>1, <2>3, <3>3 DEF Group
      <4> QED BY <2>1, <3>1, <3>3, <4>1
    <3> QED BY <3>2, <3>3
  <2>8. CASE spec.method = "NodeLabel"
    <3>1. Rules = {"affinity"} /\ node[n].taint = Unset /\ node[n].label = s
      BY <2>2, <2>8 DEF Rules, WantTaint, WantLabel
    <3> QED BY <2>1, <2>4, <3>1
  <2> QED BY <2>6, <2>7, <2>8 DEF Methods
<1> QED BY <1>1, Invariance, PTL

\* A steered pod is bound only to a node on which, since the node joined, all groups
\* before the pod's own have been satisfied.
THEOREM SteeredToReachedNodes == Spec => SteeredInOrder
<1>1. IInv /\ [Next]_vars =>
        \A p \in Pod, n \in Node :
          /\ pod[p].on = None /\ pod'[p].on = n
          /\ \/ "affinity" \in pod[p].rule /\ node[n].label # ReleasedLabelValue
             \/ "tolerations" \in pod[p].rule /\ node[n].taint # Unset
          => reached[n] >= GroupIndexForPod[p]
  <2> SUFFICES ASSUME IInv, [Next]_vars, NEW p \in Pod, NEW n \in Node,
                      pod[p].on = None, pod'[p].on = n,
                      \/ "affinity" \in pod[p].rule /\ node[n].label # ReleasedLabelValue
                      \/ "tolerations" \in pod[p].rule /\ node[n].taint # Unset
               PROVE  reached[n] >= GroupIndexForPod[p]
    OBVIOUS
  <2>1. None \notin Node /\ pod \in Pods /\ node \in Nodes
    BY PlanAssumption DEF PlanAssumption, IInv, TypeOK, Pods, Nodes
  <2>2. ASSUME NEW q \in Pod, NEW r, PodEvent(q, r), r.on = None \/ r.on = pod[q].on PROVE FALSE
    BY <2>1, <2>2 DEF PodEvent, Store, Pods
  <2>3. PICK q \in Pod, m \in Node : Bind(q, m)
    <3>1. CASE Workload
      <4>1. ASSUME NEW q \in Pod, Create(q) PROVE FALSE
        BY <2>2, <4>1 DEF Create, NoPod
      <4>2. ASSUME NEW q \in Pod, Delete(q) PROVE FALSE
        BY <2>2, <4>2 DEF Delete, NoPod
      <4>3. ASSUME NEW q \in Pod, BecomeReady(q) \/ BecomeUnready(q) PROVE FALSE
        BY <2>1, <2>2, <4>3 DEF BecomeReady, BecomeUnready, Pods
      <4>4. ASSUME NEW d \in DaemonSet, AddDaemonSet(d) \/ RemoveDaemonSet(d) PROVE FALSE
        BY <2>1, <4>4 DEF AddDaemonSet, RemoveDaemonSet, DaemonSetEvent, Store
      <4> QED BY <3>1, <4>1, <4>2, <4>3, <4>4 DEF Workload
    <3>2. CASE Machines
      BY <2>1, <3>2 DEF Machines, Join, Booted, Relabel, MarkDeleted, Vanish, NodeEvent, Store
    <3>3. CASE (\E s \in Specs : EditSpec(s)) \/ RejectSpec \/ UNCHANGED vars
      BY <2>1, <3>3 DEF EditSpec, RejectSpec, vars
    <3>4. CASE Tick
      BY <2>1, <3>4, TickPods DEF IInv, Listed
    <3>5. CASE Round
      <4>1. pod'[p] = (IF p \in Ungate(Listed) THEN ApplyPodAction(p) ELSE pod[p])
        BY <3>5 DEF Round, Store
      <4>2. ApplyPodAction(p).on = pod[p].on
        BY <2>1 DEF ApplyPodAction, Pods
      <4> QED BY <2>1, <4>1, <4>2
    <3> QED BY <3>1, <3>2, <3>3, <3>4, <3>5 DEF Next
  <2>4. q = p /\ m = n
    BY <2>1, <2>3 DEF Bind, PodEvent, Store, Pods
  <2>5. CanBind(Listed, p, n) /\ pod[p].rule # {}
    BY <2>3, <2>4 DEF Bind
  <2>6. GroupIndexForPod[p] \in Group /\ Owner[p] = None
    <3>1. GroupIndexForPod[p] # NoGroup /\ PinnedTo[p] = None
      BY <2>5 DEF IInv, PodsOK, PodOK
    <3>2. Owner[p] # None => PinnedTo[p] \in Node
      BY DaemonPodAssumption DEF PinnedTo
    <3> QED BY <2>1, <3>1, <3>2, GroupIndexType
  <2>7. /\ node[n].taint # Unset => EligibilityTolerations(GroupIndexForPod[p], node[n].taint)
        /\ "affinity" \in pod[p].rule => EligibilityRequirement(GroupIndexForPod[p], node[n].label)
    BY <2>5, <2>6 DEF CanBind, Tolerated, Listed
  <2>8. /\ node[n].label \in {Unset, ReleasedLabelValue} \/ node[n].label <= reached[n]
        /\ node[n].taint = Unset \/ node[n].taint <= reached[n]
    BY DEF IInv, NodesOK
  <2>9. GroupIndexForPod[p] \in Nat /\ reached[n] \in Nat /\ node[n].label \in Int
        /\ node[n].taint \in Int
    BY <2>1, <2>6, PlanAssumption
       DEF PlanAssumption, Group, IInv, TypeOK, Nodes, Unset, ReleasedLabelValue
  <2>10. CASE "affinity" \in pod[p].rule /\ node[n].label # ReleasedLabelValue
    <3>1. node[n].label # Unset /\ node[n].label > GroupIndexForPod[p] - 1
      BY <2>7, <2>10 DEF EligibilityRequirement
    <3>2. node[n].label <= reached[n]
      BY <2>8, <2>10, <3>1
    <3> QED BY <2>9, <3>1, <3>2
  <2>11. CASE "tolerations" \in pod[p].rule /\ node[n].taint # Unset
    <3>1. GroupIndexForPod[p] = 0 \/ node[n].taint \in GroupIndexForPod[p] .. NumGroups - 1
      BY <2>7, <2>11 DEF EligibilityTolerations
    <3>2. node[n].taint <= reached[n]
      BY <2>8, <2>11
    <3> QED BY <2>9, <3>1, <3>2
  <2> QED BY <2>10, <2>11
<1> QED BY <1>1, Invariance, PTL DEF Spec, SteeredInOrder

\* Once settled, the status is the truth: about failed nodes, about being Active, and an
\* Active sequence has nothing gated.
THEOREM StatusIsTruthful == Spec => []StatusTruthful
<1>1. IInv => StatusTruthful
  <2> SUFFICES ASSUME IInv, Settled, \A n \in Node : node[n].st # "deleting"
               PROVE  /\ status.failed = {n \in Node :
                            /\ Participating(Listed, n)
                            /\ \E p \in StillGated(Listed) :
                                 /\ TargetNode(Listed, p) = n
                                 /\ pod[p].age >= GateTimeout /\ GateTimeout > 0}
                      /\ status.phase = "Active" <=>
                            \A n \in Node : Participating(Listed, n) => Satisfied(Listed, n) = NumGroups
                      /\ status.phase = "Active" => \A p \in Pod : HasGate(Listed, p) => ~MapPod(p)
    BY DEF StatusTruthful
  <2> DEFINE total     == {n \in Node : Participating(Listed, n)}
             satisfied == {n \in total : Satisfied(Listed, n) >= NumGroups}
             failed    == {TargetNode(Listed, p) : p \in TimedOut(Listed)}
  <2>1. /\ \A p \in Ungate(Listed) : FALSE
        /\ status = NodeScopedStatus(Listed, spec.method)
    BY DEF IInv, SettledOK, Deleting
  <2>2. /\ status.failed = failed
        /\ status.phase = IF satisfied = total THEN "Active" ELSE "InProgress"
    BY <2>1 DEF NodeScopedStatus
  <2>3. ASSUME NEW p \in StillGated(Listed)
        PROVE  /\ p \in Pod /\ GroupIndexForPod[p] \in Group /\ TargetNode(Listed, p) \in Node
               /\ Participating(Listed, TargetNode(Listed, p))
               /\ Satisfied(Listed, TargetNode(Listed, p)) < GroupIndexForPod[p]
    <3>1. p \in Pod
      BY DEF StillGated
    <3> QED BY <3>1, ListedTypes, WaitsForAnEarlierGroup DEF IInv
  <2>4. \A p \in TimedOut(Listed) : p \in StillGated(Listed)
    BY DEF TimedOut
  <2>5. failed = {n \in Node : /\ Participating(Listed, n)
                               /\ \E p \in StillGated(Listed) :
                                    /\ TargetNode(Listed, p) = n
                                    /\ pod[p].age >= GateTimeout /\ GateTimeout > 0}
    <3>1. \A p \in StillGated(Listed) : p \in TimedOut(Listed) <=>
             pod[p].age >= GateTimeout /\ GateTimeout > 0
      BY DEF TimedOut, Listed
    <3> QED BY <2>3, <2>4, <3>1
  <2>6. \A n \in Node : Satisfied(Listed, n) \in 0 .. NumGroups
    BY SatisfiedIs
  <2>7. NumGroups \in Nat
    BY PlanAssumption DEF PlanAssumption
  <2>8. satisfied = total <=>
           \A n \in Node : Participating(Listed, n) => Satisfied(Listed, n) = NumGroups
    BY <2>6, <2>7
  <2>9. ASSUME satisfied = total, NEW p \in Pod, HasGate(Listed, p), MapPod(p) PROVE FALSE
    <3>1. ~MayStart(Listed, p)
      BY <2>1, <2>9 DEF Ungate
    <3>2. GroupIndexForPod[p] # NoGroup
      BY <2>9, <3>1 DEF MayStart, Stray, MapPod
    <3>3. p \in StillGated(Listed)
      BY <2>9, <3>1, <3>2 DEF StillGated
    <3>4. Satisfied(Listed, TargetNode(Listed, p)) = NumGroups
      BY <2>3, <2>8, <2>9, <3>3
    <3>5. NumGroups < GroupIndexForPod[p] /\ GroupIndexForPod[p] \in Group
      BY <2>3, <3>3, <3>4
    <3> QED BY <2>7, <3>5 DEF Group
  <2>10. status.phase = "Active" <=> satisfied = total
    BY <2>2
  <2> HIDE DEF satisfied, total, failed
  <2> QED BY <2>2, <2>5, <2>8, <2>9, <2>10
<1> QED BY <1>1, Invariance, PTL

\* A pinned pod loses its gate only when every earlier group on its node, with every
\* DaemonSet that will run there, has been Ready for as long as it has to be.
THEOREM PinnedStartInOrder == Spec => StartsInOrder
<1>1. IInv /\ [Next]_vars =>
        \A p \in Pod \ Bypassed, n \in Node :
          LosesGate(p) /\ TargetNode(Listed, p) = n /\ Participating(Listed, n)
             => InOrder(p, n)
  <2> SUFFICES ASSUME IInv, [Next]_vars, NEW p \in Pod \ Bypassed, NEW n \in Node,
                      LosesGate(p), TargetNode(Listed, p) = n, Participating(Listed, n)
               PROVE  InOrder(p, n)
    OBVIOUS
  <2>1. pod \in Pods /\ node \in Nodes /\ pod[p].st = "gated" /\ pod'[p].st = "pending"
    BY DEF IInv, TypeOK, Pods, Nodes, LosesGate
  <2>2. ASSUME NEW q \in Pod, NEW r, PodEvent(q, r), q = p => r.st # "pending" PROVE FALSE
    BY <2>1, <2>2 DEF PodEvent, Store, Pods
  <2>3. Round
    <3>1. ~Workload
      <4>1. ASSUME NEW q \in Pod, Create(q) PROVE FALSE
        BY <2>1, <2>2, <4>1 DEF Create, MayCreate, NoPod, Listed
      <4>2. ASSUME NEW q \in Pod, Delete(q) PROVE FALSE
        BY <2>2, <4>2 DEF Delete, NoPod
      <4>3. ASSUME NEW q \in Pod, BecomeReady(q) \/ BecomeUnready(q) \/ \E m \in Node : Bind(q, m)
            PROVE  FALSE
        BY <2>1, <2>2, <4>3 DEF BecomeReady, BecomeUnready, Bind, Pods
      <4>4. ASSUME NEW d \in DaemonSet, AddDaemonSet(d) \/ RemoveDaemonSet(d) PROVE FALSE
        BY <2>1, <4>4 DEF AddDaemonSet, RemoveDaemonSet, DaemonSetEvent, Store
      <4> QED BY <4>1, <4>2, <4>3, <4>4 DEF Workload
    <3>2. ~Machines
      BY <2>1 DEF Machines, Join, Booted, Relabel, MarkDeleted, Vanish, NodeEvent, Store
    <3>3. ~((\E s \in Specs : EditSpec(s)) \/ RejectSpec \/ UNCHANGED vars)
      BY <2>1 DEF EditSpec, RejectSpec, vars
    <3>4. ~Tick
      BY <2>1, TickPods DEF IInv, Listed
    <3> QED BY <3>1, <3>2, <3>3, <3>4 DEF Next
  <2>4. p \in Ungate(Listed)
    BY <2>1, <2>3 DEF Round, Store
  <2>5. None \notin Node /\ NumGroups \in Nat
    BY PlanAssumption DEF PlanAssumption
  <2>6. Exists(Listed, n)
    BY DEF Exists, Participating
  <2>7. GroupIndexForPod[p] = NoGroup \/ Satisfied(Listed, n) >= GroupIndexForPod[p]
    BY <2>4, <2>5, <2>6 DEF Ungate, MayStart, Stray
  <2> SUFFICES ASSUME NEW g \in Group, g < GroupIndexForPod[p]
               PROVE  /\ \A q \in PodsHere(Listed, n, g) : Held(q, g)
                      /\ \A d \in ds :
                           /\ g \in Selects[d] /\ n \in RunsOn[d]
                           /\ "other" \in node[n].taints => "other" \in Tolerates[d]
                           => \E q \in PodsHere(Listed, n, g) : Owner[q] = d /\ Held(q, g)
    BY DEF InOrder
  <2>8. GroupSatisfiedOnNode(Listed, n, g)
    <3>1. GroupIndexForPod[p] # NoGroup /\ GroupIndexForPod[p] \in Group /\ g >= 0
      BY <2>5, GroupIndexType DEF Group, NoGroup
    <3>2. Satisfied(Listed, n) \in 0 .. NumGroups
          /\ \A k \in 0 .. Satisfied(Listed, n) - 1 : GroupSatisfiedOnNode(Listed, n, k)
      BY SatisfiedIs
    <3>3. g \in 0 .. Satisfied(Listed, n) - 1
      BY <2>5, <2>7, <3>1, <3>2 DEF Group
    <3> QED BY <3>2, <3>3
  <2>9. ASSUME NEW q \in PodsHere(Listed, n, g) PROVE Held(q, g)
    <3>1. q \in Pod /\ pod[q].st = "ready" /\ ReadyRemaining(Listed, q, Wait[g]) = 0
      BY <2>8 DEF GroupSatisfiedOnNode, Running, PodsHere, Listed
    <3>2. pod[q].age \in Nat /\ Wait[g] \in Nat
      BY <3>1, ListedTypes, PlanAssumption DEF PlanAssumption, IInv, Listed
    <3>3. pod[q].age >= Wait[g]
      BY <3>1, <3>2 DEF ReadyRemaining, Listed
    <3> QED BY <3>1, <3>3 DEF Held
  <2>10. ASSUME NEW d \in ds, g \in Selects[d], n \in RunsOn[d],
                "other" \in node[n].taints => "other" \in Tolerates[d]
         PROVE  \E q \in PodsHere(Listed, n, g) : Owner[q] = d
    <3>1. TaintsOn(Listed, n) \ {"own", "transient"} \subseteq {"pressure", "other"} \intersect node[n].taints
      BY <2>1 DEF TaintsOn, Nodes, TaintKind, Listed
    <3>2. DaemonSetExpectedOnNode(Listed, d, n)
      BY <2>10, <3>1 DEF DaemonSetExpectedOnNode, RunsDespite
    <3>3. d \in DaemonSetsForGroup(Listed, g)
      BY <2>10 DEF DaemonSetsForGroup, Listed
    <3> QED BY <2>8, <3>2, <3>3 DEF GroupSatisfiedOnNode, Running
  <2> QED BY <2>9, <2>10
<1> QED BY <1>1, Invariance, PTL DEF Spec, StartsInOrder

\* The pods of the instance are those of a cluster: DaemonSets alone pin their pods to a
\* node, and each has one for every node it can run on, in each group that selects it.
DaemonSetsAreWhole ==
    /\ \A p \in Pod : PinnedTo[p] # None => Owner[p] # None
    /\ \A d \in DaemonSet : \A n \in RunsOn[d], g \in Selects[d] :
          \E p \in Pod : Owner[p] = d /\ PinnedTo[p] = n /\ GroupIndexForPod[p] = g

\* A DaemonSet that the sequence's own taint keeps off a node is reported.
LEMMA KeptOffIsReported ==
  ASSUME IInv, Settled, \A n \in Node : ~Deleting(n), NEW n \in Node, Participating(Listed, n),
         NEW d \in ds, Selects[d] # {}, node[n].taint # Unset, "own" \notin Tolerates[d]
  PROVE  status.degraded /\ MissingToleration(Listed, spec.method) # {}
<1>1. /\ node[n].taint = WantTaint(Listed, n, spec.method)
      /\ status = NodeScopedStatus(Listed, spec.method)
  BY DEF IInv, SettledOK, NodeDone
<1>2. spec.method = "Taint"
  BY <1>1 DEF WantTaint
<1>3. d \in MissingToleration(Listed, spec.method)
  BY <1>2 DEF MissingToleration, Listed
<1>4. status.degraded
  BY <1>1, <1>3 DEF NodeScopedStatus
<1> QED BY <1>3, <1>4

\* Nobody waits for ever unnoticed: when only time can pass and a pod is still gated, the
\* status says why, or a required group has no pod on the pod's node.
THEOREM StuckPodsAreReported ==
  ASSUME DaemonSetsAreWhole
  PROVE  Spec => []StuckIsReported
<1>1. IInv => StuckIsReported
  <2> SUFFICES ASSUME IInv, Quiet, NEW p \in StillGated(Listed),
                      \A g \in Require : PodsHere(Listed, TargetNode(Listed, p), g) # {}
               PROVE  status.degraded /\ MissingToleration(Listed, spec.method) # {}
    BY DEF StuckIsReported
  <2>1. p \in Pod /\ Settled
    BY DEF StillGated, Quiet
  <2>2. PICK n \in Node : n = TargetNode(Listed, p)
    BY <2>1, ListedTypes, WaitsForAnEarlierGroup DEF IInv
  <2> DEFINE k == Satisfied(Listed, n)
  <2>3. Participating(Listed, n) /\ k < GroupIndexForPod[p] /\ GroupIndexForPod[p] \in Group
    BY <2>1, <2>2, ListedTypes, WaitsForAnEarlierGroup DEF IInv
  <2>4. k \in Group /\ ~GroupSatisfiedOnNode(Listed, n, k) /\ k # NoGroup
    <3>1. NumGroups \in Nat /\ k \in 0 .. NumGroups
          /\ (k < NumGroups => ~GroupSatisfiedOnNode(Listed, n, k))
      BY SatisfiedIs, PlanAssumption DEF PlanAssumption
    <3> HIDE DEF k
    <3> QED BY <2>3, <3>1 DEF Group, NoGroup
  <2>5. /\ node[n].st = "in" /\ node[n].taints = {} /\ Exists(Listed, n)
        /\ \A m \in Node : ~Deleting(m)
    <3>1. node[n].st = "in" /\ Exists(Listed, n)
      BY <2>3 DEF Participating, Exists, Listed
    <3>2. \A m \in Node : ~Deleting(m)
      BY DEF Quiet, Deleting, Exists, Listed
    <3> QED BY <3>1, <3>2 DEF Quiet
  <2>6. TaintsOn(Listed, n) = IF node[n].taint = Unset THEN {} ELSE {"own"}
    BY <2>5 DEF TaintsOn, Listed
  <2>7. SUFFICES ASSUME \A d \in ds : k \in Selects[d] /\ node[n].taint # Unset => "own" \in Tolerates[d]
                 PROVE  FALSE
    <3> HIDE DEF k
    <3> QED BY <2>1, <2>3, <2>5, KeptOffIsReported
  <2>8. ASSUME NEW q \in PodsHere(Listed, n, k) PROVE pod[q].st = "ready"
    <3>1. /\ q \in Pod /\ pod[q].st # "absent" /\ GroupIndexForPod[q] = k
          /\ TargetNode(Listed, q) = n
      BY <2>8 DEF PodsHere, IsActive, Listed
    <3>2. pod[q].st \in {"absent", "gated", "pending", "ready"}
      BY <3>1 DEF IInv, TypeOK
    <3>3. CASE pod[q].st = "gated"
      <4>1. q \in Ungate(Listed)
        <5>1. k >= GroupIndexForPod[q]
          BY <2>4, <3>1, PlanAssumption DEF PlanAssumption, Group
        <5>2. MayStart(Listed, q)
          BY <2>4, <3>1, <5>1 DEF MayStart
        <5> QED BY <3>1, <3>3, <5>2 DEF Ungate, HasGate, Listed
      <4>2. Deleting(TargetNode(Listed, q))
        BY <2>1, <4>1 DEF IInv, SettledOK
      <4> QED BY <2>5, <3>1, <4>2
    <3>4. CASE pod[q].st = "pending"
      <4>1. pod[q].on = None /\ ~CanBind(Listed, q, n) /\ ~Garbage(Listed, q)
        BY <3>1, <3>4 DEF Quiet
      <4>2. PinnedTo[q] = n /\ n # None
        BY <3>1, <4>1, PlanAssumption DEF TargetNode, Listed, PlanAssumption
      <4>3. Owner[q] \in DaemonSet /\ Owner[q] # None
        BY <3>1, <4>2, PlanAssumption DEF DaemonSetsAreWhole, PlanAssumption
      <4>4. Owner[q] \in ds
        BY <3>1, <3>4, <4>1, <4>3 DEF Garbage, NoPod, Listed
      <4>5. pod[q].rule = {}
        BY <3>1, <4>2 DEF IInv, PodsOK, PodOK
      <4>6. k \in Selects[Owner[q]]
        BY <2>4, <3>1, <4>3, GroupIndexType, DaemonPodAssumption
      <4>7. Tolerated(Listed, q, n)
        BY <2>6, <2>7, <4>3, <4>4, <4>6 DEF Tolerated
      <4>8. CanBind(Listed, q, n)
        BY <2>5, <4>2, <4>5, <4>7 DEF CanBind, Listed
      <4> QED BY <4>1, <4>8
    <3> QED BY <3>1, <3>2, <3>3, <3>4
  <2>9. ASSUME NEW q \in PodsHere(Listed, n, k) PROVE ReadyRemaining(Listed, q, Wait[k]) = 0
    <3>1. q \in Pod /\ pod[q].age = AgeCap
      BY <2>8 DEF PodsHere, Quiet
    <3>2. AgeCap >= Wait[k]
      BY <2>4, AgeCapIs, PlanAssumption DEF PlanAssumption
    <3> QED BY <3>1, <3>2 DEF ReadyRemaining, Listed
  <2>10. ~Running(Listed, n, k)
    BY <2>4, <2>9 DEF GroupSatisfiedOnNode
  <2>11. PICK d \in DaemonSetsForGroup(Listed, k) :
            /\ DaemonSetExpectedOnNode(Listed, d, n)
            /\ ~\E q \in PodsHere(Listed, n, k) : Owner[q] = d
    <3>1. \A q \in PodsHere(Listed, n, k) : Listed.pod[q].st = "ready"
      BY <2>8 DEF Listed
    <3>2. k \in Require => PodsHere(Listed, n, k) # {}
      BY <2>2
    <3> QED BY <2>10, <3>1, <3>2 DEF Running
  <2>12. d \in ds /\ d \in DaemonSet /\ k \in Selects[d] /\ n \in RunsOn[d]
    BY <2>11 DEF DaemonSetsForGroup, DaemonSetExpectedOnNode, RunsDespite, Listed, IInv, TypeOK
  <2>13. PICK q \in Pod : Owner[q] = d /\ PinnedTo[q] = n /\ GroupIndexForPod[q] = k
    BY <2>12 DEF DaemonSetsAreWhole
  <2>14. CASE pod[q].st = "absent"
    <3>1. pod[q] = NoPod
      BY <2>14 DEF IInv, PodsOK, PodOK
    <3>2. ~DaemonSetShouldRunOnNode(Listed, d, n)
      BY <2>5, <2>12, <2>13, <3>1 DEF Quiet
    <3>3. "own" \in TaintsOn(Listed, n) /\ "own" \notin Tolerates[d]
      BY <2>6, <2>12, <3>2 DEF DaemonSetShouldRunOnNode, RunsDespite
    <3> QED BY <2>6, <2>7, <2>12, <3>3
  <2>15. CASE pod[q].st # "absent"
    <3>1. n # None /\ pod[q].on \in {None, n}
      BY <2>13, PlanAssumption DEF IInv, PodsOK, PodOK, PlanAssumption
    <3>2. TargetNode(Listed, q) = n
      BY <2>13, <3>1 DEF TargetNode, Listed
    <3>3. q \in PodsHere(Listed, n, k)
      BY <2>13, <2>15, <3>2 DEF PodsHere, IsActive, Listed
    <3> QED BY <2>11, <2>13, <3>3
  <2> QED BY <2>14, <2>15
<1> QED BY <1>1, Invariance, PTL
=============================================================================
