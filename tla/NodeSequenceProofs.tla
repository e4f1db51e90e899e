-------------------------- MODULE NodeSequenceProofs --------------------------
(***************************************************************************)
(* Proofs about NodeSequence, for any pods, nodes, groups and any number   *)
(* of mishaps: what a reconcile's writes rest on, what they never change,  *)
(* and that they keep the order of the groups.                             *)
(***************************************************************************)
EXTENDS NodeSequence, NodePlanProofs

-----------------------------------------------------------------------------
(* The inductive invariant.                                                *)

\* A copy that counts as current is; of a node's change there will be an event.
CopiesOK ==
    /\ \A p \in Pod \intersect cur : cache.pod[p] = server.pod[p]
    /\ \A n \in Node \intersect cur : cache.node[n] = server.node[n]
    /\ Sequence \in cur => cache.method = server.method
    /\ ~noticed => Node \subseteq cur

\* Only pods of a group whose node the scheduler chooses have placement rules.
Steerable(p) == GroupIndexForPod[p] # NoGroup /\ PinnedTo[p] = None

PodOK(p, r) ==
    /\ r.st = "absent" => r = NoPod
    /\ r.rule # {} => Steerable(p)

PodsOK ==
    \A p \in Pod :
        /\ PodOK(p, server.pod[p]) /\ PodOK(p, cache.pod[p])
        /\ plan.rules[p] # {} => Steerable(p)

\* A pod that waits for the scheduler to choose among nodes where its group may run.
ToSteer(p) ==
    p \notin Bypassed /\ TargetNode(server, p) = None /\ GroupIndexForPod[p] >= 1

\* What the reconcile holds of a node or a pod that it has yet to patch.
HeldOK ==
    /\ ~busy => todo = {} /\ held = None
    /\ \A n \in Node \intersect todo : view[n].st # "absent"
    /\ \A n \in Node \intersect todo \intersect fresh : Copy(n) = server.node[n]
    /\ \A p \in Pod \intersect todo \intersect fresh :
          /\ HasGate(server, p)
          /\ ToSteer(p) => \/ server.pod[p].rule # {}
                           \/ held # p /\ plan.rules[p] # {}

SafeInv == TypeOK /\ CopiesOK /\ PodsOK /\ HeldOK

-----------------------------------------------------------------------------
(* Types.                                                                  *)

PodStates  == [st : {"absent", "gated", "pending", "ready"}, age : {0},
               on : Node \union {None}, rule : Rules]
NodeStates == [st : {"absent", "in"}, taints : SUBSET (TaintKind \ {"own"}),
               label : Label, taint : Group \union {Unset}]
Plans      == [label : [Node -> Label], taint : [Node -> Group \union {Unset}],
               rules : [Pod -> Rules], status : Statuses]

WithPod(s, p, r)  == [s EXCEPT !.pod[p] = r]
WithNode(s, n, r) == [s EXCEPT !.node[n] = r]

\* The parts of a cluster.
LEMMA ClusterParts ==
  ASSUME NEW s \in Clusters
  PROVE  /\ s.pod \in [Pod -> PodStates] /\ s.node \in [Node -> NodeStates]
         /\ s.ds = DaemonSet /\ s.method \in Methods
         /\ \A p \in Pod : s.pod[p].on \in Node \union {None} /\ s.pod[p].age \in Nat
BY DEF Clusters, PodStates, Nodes, NodeStates

\* Clusters with the same parts are the same.
LEMMA ClusterEqual ==
  ASSUME NEW s \in Clusters, NEW t \in Clusters,
         \A p \in Pod : s.pod[p] = t.pod[p], \A n \in Node : s.node[n] = t.node[n],
         s.method = t.method
  PROVE  s = t
<1>1. s.pod = t.pod /\ s.node = t.node /\ s.ds = t.ds
  BY ClusterParts
<1> QED BY <1>1 DEF Clusters

\* A pod of a cluster is replaced.
LEMMA WithPodIs ==
  ASSUME NEW s \in Clusters, NEW p \in Pod, NEW r \in PodStates
  PROVE  /\ WithPod(s, p, r) \in Clusters
         /\ WithPod(s, p, r).pod = [s.pod EXCEPT ![p] = r]
         /\ WithPod(s, p, r).node = s.node /\ WithPod(s, p, r).ds = s.ds
         /\ WithPod(s, p, r).method = s.method
BY DEF WithPod, Clusters, PodStates

\* A node of a cluster is replaced.
LEMMA WithNodeIs ==
  ASSUME NEW s \in Clusters, NEW n \in Node, NEW r \in NodeStates
  PROVE  /\ WithNode(s, n, r) \in Clusters
         /\ WithNode(s, n, r).node = [s.node EXCEPT ![n] = r]
         /\ WithNode(s, n, r).pod = s.pod /\ WithNode(s, n, r).ds = s.ds
         /\ WithNode(s, n, r).method = s.method
BY DEF WithNode, Clusters, Nodes, NodeStates

\* The method of a cluster's sequence is replaced.
LEMMA WithMethodIs ==
  ASSUME NEW s \in Clusters, NEW m \in Methods
  PROVE  LET t == [s EXCEPT !.method = m] IN
           t \in Clusters /\ t.pod = s.pod /\ t.node = s.node /\ t.ds = s.ds /\ t.method = m
BY DEF Clusters

\* An object is of one kind.
LEMMA Kinds ==
  /\ Sequence \notin Pod /\ Sequence \notin Node /\ None \notin Pod /\ None \notin Node
  /\ Pod \intersect Node = {} /\ Foreign \subseteq TaintKind \ {"own"} /\ MaxMishaps \in Nat
BY SequenceAssumption, PlanAssumption DEF SequenceAssumption, PlanAssumption

\* The plan.
LEMMA PlanType ==
  ASSUME NEW v \in Clusters
  PROVE  /\ Plan(v) \in Plans
         /\ Ungate(v) \subseteq Pod
         /\ \A p \in Pod : Plan(v).rules[p] # {} => Steerable(p)
<1>1. NodeScopedStatus(v, v.method) \in Statuses
  BY ClusterParts, StatusType DEF Statuses
<1>2. \A n \in Node : WantLabel(v, n, v.method) \in Label
                      /\ WantTaint(v, n, v.method) \in Group \union {Unset}
  BY WantTypes DEF Label
<1>3. \A p \in Pod : Constraint(v, p, v.method) \in Rules
  BY ConstraintType DEF Rules
<1>4. ASSUME NEW p \in Pod, Constraint(v, p, v.method) # {} PROVE Steerable(p)
  BY <1>4, ConstraintType, ClusterParts DEF Steerable, TargetNode
<1>5. \A p \in Pod : Plan(v).rules[p] \in Rules
                     /\ (Plan(v).rules[p] # {} => Constraint(v, p, v.method) # {})
  BY <1>3 DEF Plan, Rules
<1>6. Plan(v).rules \in [Pod -> Rules]
  BY <1>3 DEF Plan, Rules
<1>7. Ungate(v) \subseteq Pod
  BY DEF Ungate
<1> QED BY <1>1, <1>2, <1>4, <1>5, <1>6, <1>7 DEF Plan, Plans

\* The constants of the specification.
LEMMA Empties ==
  NoPod \in PodStates /\ NoNode \in NodeStates /\ NoView \in Nodes /\ Cluster \in Clusters
  /\ NoPlan \in Plans /\ NoStatus \in Statuses
<1>1. NoPod \in PodStates
  BY DEF NoPod, PodStates, Rules
<1>2. NoNode \in NodeStates
  BY DEF NoNode, NodeStates, Label
<1>3. NoView \in Nodes
  BY <1>2 DEF NoView, Nodes, NodeStates
<1>4. Cluster \in Clusters
  BY <1>1, <1>3 DEF Cluster, Clusters, PodStates, Methods
<1>5. NoPlan \in Plans
  BY <1>4, PlanType DEF NoPlan
<1>6. Cardinality(Pod) \in Nat /\ NumGroups \in Nat
  BY FinitePods, FS_CardinalityType, PlanAssumption DEF PlanAssumption
<1>7. NoStatus \in Statuses
  BY <1>6 DEF NoStatus, Statuses
<1> QED BY <1>1, <1>2, <1>3, <1>4, <1>5, <1>7

-----------------------------------------------------------------------------
(* What the steps do to the server's objects.                              *)

\* An object is stored: it and nothing else becomes news, unless nothing has changed.
LEMMA StoreIs ==
  ASSUME TypeOK, NEW o \in Objects, NEW s \in Clusters, Store(o, s)
  PROVE  /\ server' = s /\ cur' \subseteq cur /\ cur \ {o} \subseteq cur'
         /\ cur' \subseteq Objects /\ (o \in cur' => s = server) /\ (s = server => cur' = cur)
         /\ noticed' \in BOOLEAN /\ (noticed => noticed')
         /\ o \in Node /\ s.node[o] # server.node[o] => noticed'
         /\ \A p : p \in earned' <=> /\ p \in Pod /\ HasGate(s, p)
                                     /\ \/ p \in earned
                                        \/ \E n \in Node : /\ TargetNode(s, p) = n
                                                           /\ Satisfied(s, n) >= GroupIndexForPod[p]
         /\ reached' \in [Node -> 0 .. NumGroups]
         /\ \A n \in Node : reached[n] <= reached'[n] /\ Satisfied(s, n) <= reached'[n]
<1>1. server' = s /\ cur' = IF s = server THEN cur ELSE cur \ {o}
  BY DEF Store
<1>2. cur \subseteq Objects /\ noticed \in BOOLEAN /\ NumGroups \in Nat
      /\ reached \in [Node -> 0 .. NumGroups]
  BY PlanAssumption DEF TypeOK, PlanAssumption
<1>3. noticed' = (noticed \/ (o \in Node /\ NodeChangePredicate(server.node[o], s.node[o])))
  BY DEF Store
<1>4. o \in Node /\ s.node[o] # server.node[o] => NodeChangePredicate(server.node[o], s.node[o])
  <2> SUFFICES ASSUME o \in Node, s.node[o] # server.node[o]
               PROVE  NodeChangePredicate(server.node[o], s.node[o])
    OBVIOUS
  <2>1. s.node[o] \in NodeStates /\ server.node[o] \in NodeStates
    BY ClusterParts DEF TypeOK
  <2> QED BY <2>1 DEF NodeStates, NodeChangePredicate
<1>5. noticed' \in BOOLEAN /\ (noticed => noticed')
      /\ (o \in Node /\ s.node[o] # server.node[o] => noticed')
  BY <1>2, <1>3, <1>4
<1>6. \A p : p \in earned' <=> /\ p \in Pod /\ HasGate(s, p)
                               /\ \/ p \in earned
                                  \/ \E n \in Node : /\ TargetNode(s, p) = n
                                                     /\ Satisfied(s, n) >= GroupIndexForPod[p]
  BY DEF Store
<1>7. ASSUME NEW n \in Node
      PROVE  /\ Max({Satisfied(s, n), reached[n]}) \in 0 .. NumGroups
             /\ reached[n] <= Max({Satisfied(s, n), reached[n]})
             /\ Satisfied(s, n) <= Max({Satisfied(s, n), reached[n]})
  <2>1. Satisfied(s, n) \in 0 .. NumGroups /\ reached[n] \in 0 .. NumGroups
    BY <1>2, SatisfiedIs
  <2> DEFINE S == {Satisfied(s, n), reached[n]}
  <2>2. S \in SUBSET Nat /\ S # {} /\ \A x \in S : x \in 0 .. NumGroups /\ x <= NumGroups
    BY <1>2, <2>1
  <2>3. Max(S) \in S /\ \A x \in S : x <= Max(S)
    <3> HIDE DEF S
    <3> QED BY <1>2, <2>2, MaxOfNaturals
  <2> QED BY <2>2, <2>3
<1>8. reached' = [n \in Node |-> Max({Satisfied(s, n), reached[n]})]
  BY DEF Store
<1>9. reached' \in [Node -> 0 .. NumGroups]
      /\ \A n \in Node : reached[n] <= reached'[n] /\ Satisfied(s, n) <= reached'[n]
  BY <1>7, <1>8
<1> QED BY <1>1, <1>2, <1>5, <1>6, <1>9

\* What users, the scheduler and the kubelet do to a pod.  A gated pod is new, and loses
\* its gate only with its life.
PodEvent(p, r) ==
    /\ PodChange(p, r)
    /\ r = NoPod \/ (r.st # "absent" /\ r.rule \subseteq server.pod[p].rule)
    /\ r.st = "gated" => server.pod[p] = NoPod
    /\ server.pod[p].st = "gated" => r = NoPod

Event(p) ==
    \/ Create(p) \/ Delete(p) \/ BecomeUnready(p)
    \/ \E n \in Node : Bind(p, n) \/ BecomeReady(p, n)

\* Each action of users, the scheduler and the kubelet is such a change.
LEMMA EventIs ==
  ASSUME TypeOK, NEW p \in Pod, Event(p)
  PROVE  /\ \E r \in PodStates : PodEvent(p, r)
         /\ mishaps' \in 0 .. MaxMishaps
<1> DEFINE r0 == server.pod[p]
<1>1. server \in Clusters /\ r0 \in PodStates /\ NoPod \in PodStates
      /\ mishaps \in 0 .. MaxMishaps /\ MaxMishaps \in Nat
  BY Empties, Kinds, ClusterParts DEF TypeOK
<1> HIDE DEF r0
<1>2. Mishap => mishaps' \in 0 .. MaxMishaps
  BY <1>1 DEF Mishap
<1>3. CASE Create(p)
  <2>1. server.pod[p] = NoPod /\ UNCHANGED mishaps /\ PodChange(p, [NoPod EXCEPT !.st = "gated"])
    BY <1>3 DEF Create, MayCreate
  <2>2. [NoPod EXCEPT !.st = "gated"] \in PodStates /\ NoPod.st = "absent"
        /\ [NoPod EXCEPT !.st = "gated"].st = "gated" /\ [NoPod EXCEPT !.st = "gated"].rule = {}
    BY DEF PodStates, NoPod, Rules
  <2> QED BY <1>1, <2>1, <2>2 DEF PodEvent
<1>4. CASE Delete(p)
  <2>1. PodChange(p, NoPod) /\ mishaps' \in 0 .. MaxMishaps
    BY <1>1, <1>2, <1>4 DEF Delete
  <2>2. NoPod.st = "absent"
    BY DEF NoPod
  <2> QED BY <1>1, <2>1, <2>2 DEF PodEvent
<1>5. CASE BecomeUnready(p)
  <2>1. r0.st = "ready" /\ PodChange(p, [r0 EXCEPT !.st = "pending"]) /\ mishaps' \in 0 .. MaxMishaps
    BY <1>2, <1>5 DEF BecomeUnready, r0
  <2>2. [r0 EXCEPT !.st = "pending"] \in PodStates /\ [r0 EXCEPT !.st = "pending"].st = "pending"
        /\ [r0 EXCEPT !.st = "pending"].rule = r0.rule
    BY <1>1 DEF PodStates
  <2> QED BY <2>1, <2>2 DEF PodEvent, r0
<1>6. CASE \E n \in Node : Bind(p, n) \/ BecomeReady(p, n)
  <2> PICK n \in Node : Bind(p, n) \/ BecomeReady(p, n)
    BY <1>6
  <2>1. CASE Bind(p, n)
    <3>1. r0.st = "pending" /\ PodChange(p, [r0 EXCEPT !.on = n]) /\ UNCHANGED mishaps
      BY <2>1 DEF Bind, r0
    <3>2. [r0 EXCEPT !.on = n] \in PodStates /\ [r0 EXCEPT !.on = n].st = r0.st
          /\ [r0 EXCEPT !.on = n].rule = r0.rule
      BY <1>1 DEF PodStates
    <3> QED BY <1>1, <3>1, <3>2 DEF PodEvent, r0
  <2>2. CASE BecomeReady(p, n)
    <3>1. r0.st = "pending" /\ PodChange(p, [r0 EXCEPT !.st = "ready", !.on = n])
          /\ UNCHANGED mishaps
      BY <2>2 DEF BecomeReady, r0
    <3>2. [r0 EXCEPT !.st = "ready", !.on = n] \in PodStates
          /\ [r0 EXCEPT !.st = "ready", !.on = n].st = "ready"
          /\ [r0 EXCEPT !.st = "ready", !.on = n].rule = r0.rule
      BY <1>1 DEF PodStates
    <3> QED BY <1>1, <3>1, <3>2 DEF PodEvent, r0
  <2> QED BY <2>1, <2>2
<1> QED BY <1>3, <1>4, <1>5, <1>6 DEF Event

\* So is each step of Workload.
LEMMA WorkloadIs ==
  ASSUME TypeOK, Workload
  PROVE  /\ \E p \in Pod : Event(p) /\ \E r \in PodStates : PodEvent(p, r)
         /\ mishaps' \in 0 .. MaxMishaps
<1>1. PICK p \in Pod : Event(p)
  BY DEF Workload, Event
<1> QED BY <1>1, EventIs

\* What happens to a node beside the controller's keys: they are lost with it.
NodeEvent(n, r) ==
    /\ NodeChange(n, r)
    /\ r.label \in {Unset, server.node[n].label} /\ r.taint \in {Unset, server.node[n].taint}
    /\ r.taints \subseteq server.node[n].taints \union Foreign

\* Each step of Machines is such a change.
LEMMA MachinesAre ==
  ASSUME TypeOK, Machines
  PROVE  /\ \E n \in Node, r \in NodeStates : NodeEvent(n, r)
         /\ mishaps' \in 0 .. MaxMishaps
<1> PICK n \in Node : Join(n) \/ Leave(n) \/ Retaint(n)
  BY DEF Machines
<1> DEFINE r0 == server.node[n]
<1>1. server \in Clusters /\ r0 \in NodeStates /\ NoNode \in NodeStates
      /\ mishaps \in 0 .. MaxMishaps /\ MaxMishaps \in Nat
  BY Empties, Kinds, ClusterParts DEF TypeOK
<1> HIDE DEF r0
<1>2. Mishap => mishaps' \in 0 .. MaxMishaps
  BY <1>1 DEF Mishap
<1>3. CASE Join(n)
  <2>1. NodeChange(n, [NoNode EXCEPT !.st = "in"]) /\ UNCHANGED mishaps
    BY <1>3 DEF Join
  <2>2. [NoNode EXCEPT !.st = "in"] \in NodeStates /\ [NoNode EXCEPT !.st = "in"].label = Unset
        /\ [NoNode EXCEPT !.st = "in"].taint = Unset /\ [NoNode EXCEPT !.st = "in"].taints = {}
    BY <1>1 DEF NodeStates, NoNode
  <2> QED BY <1>1, <2>1, <2>2 DEF NodeEvent
<1>4. CASE Leave(n)
  <2>1. NodeChange(n, NoNode) /\ mishaps' \in 0 .. MaxMishaps
    BY <1>2, <1>4 DEF Leave
  <2>2. NoNode.label = Unset /\ NoNode.taint = Unset /\ NoNode.taints = {}
    BY DEF NoNode
  <2> QED BY <1>1, <2>1, <2>2 DEF NodeEvent
<1>5. CASE Retaint(n)
  <2>1. PICK t \in Foreign :
          NodeChange(n, [r0 EXCEPT !.taints = IF t \in @ THEN @ \ {t} ELSE @ \union {t}])
    BY <1>5 DEF Retaint, r0
  <2> DEFINE T == IF t \in r0.taints THEN r0.taints \ {t} ELSE r0.taints \union {t}
  <2>2. T \in SUBSET (TaintKind \ {"own"}) /\ T \subseteq r0.taints \union Foreign
    BY <1>1, Kinds DEF NodeStates
  <2>3. NodeChange(n, [r0 EXCEPT !.taints = T])
    BY <2>1
  <2> HIDE DEF T
  <2>4. [r0 EXCEPT !.taints = T] \in NodeStates /\ [r0 EXCEPT !.taints = T].label = r0.label
        /\ [r0 EXCEPT !.taints = T].taint = r0.taint /\ [r0 EXCEPT !.taints = T].taints = T
    BY <1>1, <2>2 DEF NodeStates
  <2>5. mishaps' \in 0 .. MaxMishaps
    BY <1>2, <1>5 DEF Retaint
  <2> QED BY <2>2, <2>3, <2>4, <2>5 DEF NodeEvent, r0
<1> QED BY <1>3, <1>4, <1>5

-----------------------------------------------------------------------------
(* What the reconciler's own writes are.                                   *)

\* Cluster s is the server's, but for object o.
OnlyAt(o, s) ==
    /\ \A p \in Pod \ {o} : s.pod[p] = server.pod[p]
    /\ \A n \in Node \ {o} : s.node[n] = server.node[n]
    /\ o # Sequence => s.method = server.method

\* A cluster with another revision of one pod ...
LEMMA OnlyAtPod ==
  ASSUME TypeOK, NEW p \in Pod, NEW r \in PodStates
  PROVE  LET s == WithPod(server, p, r) IN
           s \in Clusters /\ OnlyAt(p, s) /\ s.pod[p] = r
<1> DEFINE s == WithPod(server, p, r)
<1>1. server \in Clusters /\ server.pod \in [Pod -> PodStates]
  BY ClusterParts DEF TypeOK
<1>2. /\ s \in Clusters /\ s.pod = [server.pod EXCEPT ![p] = r] /\ s.node = server.node
      /\ s.method = server.method
  BY <1>1, WithPodIs
<1> HIDE DEF s
<1>3. OnlyAt(p, s) /\ s.pod[p] = r
  BY <1>1, <1>2 DEF OnlyAt
<1> QED BY <1>2, <1>3 DEF s

\* ... or of one node.
LEMMA OnlyAtNode ==
  ASSUME TypeOK, NEW n \in Node, NEW r \in NodeStates
  PROVE  LET s == WithNode(server, n, r) IN
           s \in Clusters /\ OnlyAt(n, s) /\ s.node[n] = r
<1> DEFINE s == WithNode(server, n, r)
<1>1. server \in Clusters /\ server.node \in [Node -> NodeStates]
  BY ClusterParts DEF TypeOK
<1>2. /\ s \in Clusters /\ s.node = [server.node EXCEPT ![n] = r] /\ s.pod = server.pod
      /\ s.method = server.method
  BY <1>1, WithNodeIs
<1> HIDE DEF s
<1>3. OnlyAt(n, s) /\ s.node[n] = r
  BY <1>1, <1>2 DEF OnlyAt
<1> QED BY <1>2, <1>3 DEF s

\* What the parts of a reconcile are.
LEMMA PassTypes ==
  ASSUME TypeOK
  PROVE  /\ \A n \in Node : view[n] \in NodeStates /\ reply \in NodeStates /\ Copy(n) \in NodeStates
         /\ \A n \in Node : plan.label[n] \in Label /\ plan.taint[n] \in Group \union {Unset}
         /\ \A p \in Pod : plan.rules[p] \in Rules
         /\ plan.status \in Statuses
         /\ \A n \in Node : n \in Objects
         /\ \A p \in Pod : p \in Objects
         /\ Sequence \in Objects
<1>1. \A n \in Node : [m \in Node |-> reply][n] \in NodeStates /\ view[n] \in NodeStates
  BY DEF TypeOK, Nodes, NodeStates
<1>2. \A n \in Node : Copy(n) \in {reply, view[n]}
  BY DEF Copy
<1>3. plan \in Plans
  BY DEF TypeOK, Plans
<1> QED BY <1>1, <1>2, <1>3 DEF Plans, Objects

\* A label patch stores a revision with that label.
LEMMA SetLabelIs ==
  ASSUME TypeOK, NEW n \in Node, NEW l \in Label, SetLabel(n, l)
  PROVE  \E r \in NodeStates :
            /\ Store(n, WithNode(server, n, r)) /\ UNCHANGED status
            /\ r.st = server.node[n].st /\ r.taints = server.node[n].taints
            /\ r.label = l /\ r.taint = server.node[n].taint
<1> DEFINE r0 == server.node[n]
           r  == [r0 EXCEPT !.label = l]
<1>1. r0 \in NodeStates
  BY ClusterParts DEF TypeOK
<1>2. r \in NodeStates /\ r.st = r0.st /\ r.taints = r0.taints /\ r.label = l /\ r.taint = r0.taint
  BY <1>1 DEF NodeStates
<1>3. [server EXCEPT !.node[n].label = l] = WithNode(server, n, r)
  BY DEF WithNode
<1>4. Store(n, WithNode(server, n, r)) /\ UNCHANGED status
  BY <1>3 DEF SetLabel, Write
<1> QED BY <1>2, <1>4

\* A taint patch stores one with that taint, and the list of taints that was held.
LEMMA SetTaintIs ==
  ASSUME TypeOK, NEW n \in Node, SetTaint(n)
  PROVE  \E r \in NodeStates :
            /\ Store(n, WithNode(server, n, r)) /\ UNCHANGED status
            /\ r.st = server.node[n].st /\ r.taints = Copy(n).taints
            /\ r.label = server.node[n].label /\ r.taint = plan.taint[n]
<1> DEFINE r0 == server.node[n]
           r  == [r0 EXCEPT !.taint = plan.taint[n], !.taints = Copy(n).taints]
<1>1. r0 \in NodeStates /\ plan.taint[n] \in Group \union {Unset}
      /\ Copy(n).taints \in SUBSET (TaintKind \ {"own"})
  BY ClusterParts, PassTypes DEF TypeOK, NodeStates
<1>2. r \in NodeStates /\ r.st = r0.st /\ r.taints = Copy(n).taints /\ r.label = r0.label
      /\ r.taint = plan.taint[n]
  BY <1>1 DEF NodeStates
<1>3. [server EXCEPT !.node[n].taint = plan.taint[n], !.node[n].taints = Copy(n).taints]
        = WithNode(server, n, r)
  <2>1. server.node \in [Node -> NodeStates] /\ server \in Clusters
    BY ClusterParts DEF TypeOK
  <2> QED BY <1>1, <2>1 DEF WithNode, Clusters, Nodes, NodeStates
<1>4. Store(n, WithNode(server, n, r)) /\ UNCHANGED status
  BY <1>3 DEF SetTaint, Write
<1> QED BY <1>2, <1>4

\* The first patch of a pod stores one with more rules.
LEMMA SetRulesIs ==
  ASSUME TypeOK, NEW p \in Pod, SetRules(p)
  PROVE  \E r \in PodStates :
            /\ Store(p, WithPod(server, p, r)) /\ UNCHANGED status
            /\ r.st = server.pod[p].st /\ r.on = server.pod[p].on
            /\ r.rule = server.pod[p].rule \union plan.rules[p]
<1> DEFINE r0 == server.pod[p]
           R  == r0.rule \union plan.rules[p]
           r  == [r0 EXCEPT !.rule = R]
<1>1. r0 \in PodStates /\ plan.rules[p] \in Rules
  BY ClusterParts, PassTypes DEF TypeOK
<1>2. R \in Rules
  BY <1>1 DEF PodStates, Rules
<1>3. r \in PodStates /\ r.st = r0.st /\ r.on = r0.on /\ r.rule = R
  <2> HIDE DEF R
  <2> QED BY <1>1, <1>2 DEF PodStates
<1>4. [server EXCEPT !.pod[p].rule = @ \union plan.rules[p]] = WithPod(server, p, r)
  BY DEF WithPod
<1>5. Store(p, WithPod(server, p, r)) /\ UNCHANGED status
  BY <1>4 DEF SetRules, Write
<1> QED BY <1>3, <1>5

\* The second stores one without the gate.
LEMMA UngatedIs ==
  ASSUME TypeOK, NEW p \in Pod, Ungated(p)
  PROVE  \E r \in PodStates :
            /\ Store(p, WithPod(server, p, r)) /\ UNCHANGED status
            /\ r.st = "pending" /\ r.on = server.pod[p].on /\ r.rule = server.pod[p].rule
<1> DEFINE r0 == server.pod[p]
           r  == [r0 EXCEPT !.st = "pending"]
<1>1. r0 \in PodStates
  BY ClusterParts DEF TypeOK
<1>2. r \in PodStates /\ r.st = "pending" /\ r.on = r0.on /\ r.rule = r0.rule
  BY <1>1 DEF PodStates
<1>3. [server EXCEPT !.pod[p].st = "pending"] = WithPod(server, p, r)
  BY DEF WithPod
<1>4. Store(p, WithPod(server, p, r)) /\ UNCHANGED status
  BY <1>3 DEF Ungated, Write
<1> QED BY <1>2, <1>4

-----------------------------------------------------------------------------
(* Safety: every step keeps what a reconcile's writes rest on.             *)

\* An object is stored, and the caches have yet to hear of it.
LEMMA StoreSafe ==
  ASSUME SafeInv, NEW o \in Objects, NEW s \in Clusters, OnlyAt(o, s), Store(o, s),
         UNCHANGED cache
  PROVE  /\ CopiesOK' /\ cache' \in Clusters /\ server' \in Clusters /\ cur' \subseteq Objects
         /\ noticed' \in BOOLEAN /\ earned' \subseteq Pod /\ reached' \in [Node -> 0 .. NumGroups]
<1>1. server \in Clusters /\ cache \in Clusters /\ TypeOK /\ CopiesOK
  BY DEF SafeInv, TypeOK
<1>2. /\ server' = s /\ cur' \subseteq cur /\ cur \ {o} \subseteq cur' /\ cur' \subseteq Objects
      /\ o \in cur' => s = server
      /\ s = server => cur' = cur
      /\ noticed' \in BOOLEAN /\ (noticed => noticed')
      /\ o \in Node /\ s.node[o] # server.node[o] => noticed'
      /\ reached' \in [Node -> 0 .. NumGroups]
  BY <1>1, StoreIs
<1>3. earned' \subseteq Pod
  BY <1>1, StoreIs
<1>4. ASSUME NEW p \in Pod \intersect cur' PROVE cache'.pod[p] = server'.pod[p]
  BY <1>1, <1>2, <1>4 DEF CopiesOK, OnlyAt
<1>5. ASSUME NEW n \in Node \intersect cur' PROVE cache'.node[n] = server'.node[n]
  BY <1>1, <1>2, <1>5 DEF CopiesOK, OnlyAt
<1>6. Sequence \in cur' => cache'.method = server'.method
  BY <1>1, <1>2 DEF CopiesOK, OnlyAt
<1>7. ASSUME ~noticed' PROVE Node \subseteq cur'
  <2>1. Node \subseteq cur
    BY <1>1, <1>2, <1>7 DEF CopiesOK
  <2>2. CASE o \in Node
    <3>1. \A p \in Pod : s.pod[p] = server.pod[p]
      BY <2>2, Kinds DEF OnlyAt
    <3>2. \A n \in Node : s.node[n] = server.node[n]
      BY <1>2, <1>7, <2>2 DEF OnlyAt
    <3>3. s.method = server.method
      BY <2>2, Kinds DEF OnlyAt
    <3>4. s = server
      BY <1>1, <3>1, <3>2, <3>3, ClusterEqual
    <3> QED BY <1>2, <2>1, <3>4
  <2>3. CASE o \notin Node
    BY <1>2, <2>1, <2>3
  <2> QED BY <2>2, <2>3
<1>8. CopiesOK'
  BY <1>4, <1>5, <1>6, <1>7 DEF CopiesOK
<1> QED BY <1>1, <1>2, <1>3, <1>8

\* Somebody else changes an object.
LEMMA ChangeSafe ==
  ASSUME SafeInv, NEW o \in Objects, NEW s \in Clusters, OnlyAt(o, s), Change(o, s),
         \A p \in Pod : PodOK(p, s.pod[p]), mishaps' \in 0 .. MaxMishaps
  PROVE  SafeInv'
<1>1. TypeOK /\ CopiesOK /\ PodsOK /\ HeldOK
  BY DEF SafeInv
<1>2. Store(o, s) /\ server' = s /\ fresh' = fresh \ {o}
      /\ UNCHANGED <<cache, status, queued, busy, view, plan, todo, held, reply, failed, late>>
  BY DEF Change, Store, reading, writing
<1>3. /\ CopiesOK' /\ cache' \in Clusters /\ server' \in Clusters /\ cur' \subseteq Objects
      /\ noticed' \in BOOLEAN /\ earned' \subseteq Pod /\ reached' \in [Node -> 0 .. NumGroups]
  BY <1>2, StoreSafe
<1>4. TypeOK'
  BY <1>1, <1>2, <1>3 DEF TypeOK
<1>5. PodsOK'
  BY <1>1, <1>2 DEF PodsOK
<1>6. HeldOK'
  <2>1. ~busy' => todo' = {} /\ held' = None
    BY <1>1, <1>2 DEF HeldOK
  <2>2. \A n \in Node \intersect todo' : view'[n].st # "absent"
    BY <1>1, <1>2 DEF HeldOK
  <2>3. ASSUME NEW n \in Node \intersect todo' \intersect fresh' PROVE (Copy(n))' = server'.node[n]
    <3>1. (Copy(n))' = Copy(n)
      BY <1>2 DEF Copy
    <3>2. n \in todo /\ n \in fresh /\ n # o
      BY <1>2, <2>3
    <3> QED BY <1>1, <1>2, <3>1, <3>2 DEF HeldOK, OnlyAt
  <2>4. ASSUME NEW p \in Pod \intersect todo' \intersect fresh'
        PROVE  /\ (HasGate(server, p))'
               /\ (ToSteer(p))' => \/ server'.pod[p].rule # {}
                                   \/ held' # p /\ plan'.rules[p] # {}
    <3>1. p \in todo /\ p \in fresh /\ p # o
      BY <1>2, <2>4
    <3>2. server'.pod[p] = server.pod[p]
      BY <1>2, <3>1 DEF OnlyAt
    <3>3. (ToSteer(p))' = ToSteer(p) /\ (HasGate(server, p))' = HasGate(server, p)
      BY <3>2 DEF ToSteer, TargetNode, HasGate
    <3> QED BY <1>1, <1>2, <3>1, <3>2, <3>3 DEF HeldOK
  <2> QED BY <2>1, <2>2, <2>3, <2>4 DEF HeldOK
<1> QED BY <1>3, <1>4, <1>5, <1>6 DEF SafeInv

\* What users, the scheduler and the kubelet do keeps the invariant.
LEMMA WorkloadSafe ==
  ASSUME SafeInv, Workload
  PROVE  SafeInv'
<1>1. TypeOK /\ PodsOK
  BY DEF SafeInv
<1>2. PICK p \in Pod, r \in PodStates : PodEvent(p, r)
  BY <1>1, WorkloadIs
<1> DEFINE s == WithPod(server, p, r)
<1>3. s \in Clusters /\ OnlyAt(p, s) /\ s.pod[p] = r
  BY <1>1, OnlyAtPod
<1>4. Change(p, s)
  BY <1>2 DEF PodEvent, PodChange, WithPod
<1>5. PodOK(p, r)
  BY <1>1, <1>2 DEF PodsOK, PodOK, PodEvent, NoPod
<1> HIDE DEF s
<1>6. \A q \in Pod : PodOK(q, s.pod[q])
  BY <1>1, <1>3, <1>5 DEF PodsOK, OnlyAt
<1> QED BY <1>1, <1>3, <1>4, <1>6, WorkloadIs, ChangeSafe, PassTypes

\* Nodes that come, go and are tainted keep it.
LEMMA MachinesSafe ==
  ASSUME SafeInv, Machines
  PROVE  SafeInv'
<1>1. TypeOK /\ PodsOK
  BY DEF SafeInv
<1>2. PICK n \in Node, r \in NodeStates : NodeEvent(n, r)
  BY <1>1, MachinesAre
<1> DEFINE s == WithNode(server, n, r)
<1>3. s \in Clusters /\ OnlyAt(n, s) /\ s.node[n] = r
  BY <1>1, OnlyAtNode
<1>4. Change(n, s)
  BY <1>2 DEF NodeEvent, NodeChange, WithNode
<1> HIDE DEF s
<1>5. \A q \in Pod : PodOK(q, s.pod[q])
  BY <1>1, <1>3, Kinds DEF PodsOK, OnlyAt
<1> QED BY <1>1, <1>3, <1>4, <1>5, MachinesAre, ChangeSafe, PassTypes

\* An edit of the sequence keeps it.
LEMMA EditSafe ==
  ASSUME SafeInv, NEW m \in Methods, EditMethod(m)
  PROVE  SafeInv'
<1> DEFINE s == [server EXCEPT !.method = m]
<1>1. TypeOK /\ PodsOK /\ server \in Clusters
  BY DEF SafeInv, TypeOK
<1>2. s \in Clusters /\ s.pod = server.pod /\ s.node = server.node
  BY <1>1, WithMethodIs
<1>3. Change(Sequence, s)
  BY DEF EditMethod
<1>4. mishaps' \in 0 .. MaxMishaps
  BY <1>1, Kinds DEF EditMethod, Mishap, TypeOK
<1> HIDE DEF s
<1>5. OnlyAt(Sequence, s) /\ \A q \in Pod : PodOK(q, s.pod[q])
  BY <1>1, <1>2 DEF PodsOK, OnlyAt
<1> QED BY <1>1, <1>2, <1>3, <1>4, <1>5, ChangeSafe, PassTypes

\* A cache catches up.
LEMMA DeliverSafe ==
  ASSUME SafeInv, Deliver
  PROVE  SafeInv'
<1>1. TypeOK /\ CopiesOK /\ PodsOK /\ HeldOK
  BY DEF SafeInv
<1>2. UNCHANGED <<server, status, busy, view, plan, fresh, todo, held, reply, failed, late, earned,
                  reached, mishaps>>
  BY DEF Deliver, DeliverPods, DeliverNodes, DeliverSequence, reading, writing, history
<1>3. HeldOK'
  BY <1>1, <1>2 DEF HeldOK, Copy, ToSteer, TargetNode, HasGate
<1>4. /\ cache' \in Clusters /\ cur' \subseteq Objects /\ noticed' \in BOOLEAN
      /\ queued' \in BOOLEAN /\ CopiesOK' /\ \A p \in Pod : PodOK(p, cache'.pod[p])
  <2>1. server \in Clusters /\ cache \in Clusters /\ cur \subseteq Objects
    BY <1>1 DEF TypeOK
  <2>2. CASE DeliverPods
    <3>1. /\ cache' = [cache EXCEPT !.pod = server.pod] /\ cur' = cur \union Pod
          /\ noticed' = noticed /\ queued' = (queued \/ \E p \in Pod \ cur : MapPod(p))
      BY <2>2 DEF DeliverPods
    <3>2. cache' \in Clusters /\ cache'.pod = server.pod /\ cache'.node = cache.node
          /\ cache'.method = cache.method
      BY <2>1, <3>1 DEF Clusters
    <3>3. queued' \in BOOLEAN /\ cur' \subseteq Objects
      BY <1>1, <2>1, <3>1 DEF TypeOK, Objects
    <3>4. CopiesOK'
      BY <1>1, <1>2, <3>1, <3>2, Kinds DEF CopiesOK
    <3> QED BY <1>1, <3>1, <3>2, <3>3, <3>4 DEF TypeOK, PodsOK
  <2>3. CASE DeliverNodes
    <3>1. /\ cache' = [cache EXCEPT !.node = server.node] /\ cur' = cur \union Node
          /\ noticed' = FALSE /\ queued' = (queued \/ noticed)
      BY <2>3 DEF DeliverNodes
    <3>2. cache' \in Clusters /\ cache'.node = server.node /\ cache'.pod = cache.pod
          /\ cache'.method = cache.method
      BY <2>1, <3>1 DEF Clusters
    <3>3. queued' \in BOOLEAN /\ cur' \subseteq Objects
      BY <1>1, <2>1, <3>1 DEF TypeOK, Objects
    <3>4. CopiesOK'
      BY <1>1, <1>2, <3>1, <3>2, Kinds DEF CopiesOK
    <3> QED BY <1>1, <3>1, <3>2, <3>3, <3>4 DEF TypeOK, PodsOK
  <2>4. CASE DeliverSequence
    <3>1. /\ cache' = [cache EXCEPT !.method = server.method] /\ cur' = cur \union {Sequence}
          /\ noticed' = noticed /\ queued' = TRUE
      BY <2>4 DEF DeliverSequence
    <3>2. cache' \in Clusters /\ cache'.node = cache.node /\ cache'.pod = cache.pod
          /\ cache'.method = server.method
      BY <2>1, <3>1 DEF Clusters
    <3>3. cur' \subseteq Objects
      BY <2>1, <3>1 DEF Objects
    <3>4. CopiesOK'
      BY <1>1, <1>2, <3>1, <3>2, Kinds DEF CopiesOK
    <3> QED BY <1>1, <3>1, <3>2, <3>3, <3>4 DEF TypeOK, PodsOK
  <2> QED BY <2>2, <2>3, <2>4 DEF Deliver
<1>5. TypeOK'
  BY <1>1, <1>2, <1>4 DEF TypeOK
<1>6. PodsOK'
  BY <1>1, <1>2, <1>4 DEF PodsOK
<1> QED BY <1>3, <1>4, <1>5, <1>6 DEF SafeInv

\* A pod that may start and has to be steered gets a rule, unless it has one.
LEMMA PlannedRule ==
  ASSUME NEW v \in Clusters, NEW p \in Ungate(v), p \notin Bypassed, TargetNode(v, p) = None,
         GroupIndexForPod[p] >= 1
  PROVE  v.pod[p].rule # {} \/ Plan(v).rules[p] # {}
<1>1. p \in Pod /\ GroupIndexForPod[p] # NoGroup /\ v.method \in Methods
  BY ClusterParts DEF Ungate, NoGroup
<1>2. Constraint(v, p, v.method) # {}
  BY <1>1 DEF Constraint
<1>3. Plan(v).rules[p] = Constraint(v, p, v.method) \ v.pod[p].rule
  BY <1>1 DEF Plan
<1> QED BY <1>2, <1>3

\* A reconcile that starts holds what the caches have, fresh where they are current.
LEMMA BeginSafe ==
  ASSUME SafeInv, Begin
  PROVE  SafeInv'
<1>1. TypeOK /\ CopiesOK /\ PodsOK /\ HeldOK /\ cache \in Clusters
  BY DEF SafeInv, TypeOK
<1>2. /\ ~busy /\ busy' = TRUE /\ queued' = FALSE /\ view' = cache.node /\ fresh' = cur
      /\ plan' = Plan(cache)
      /\ todo' = {n \in Node : Exists(cache, n)} \union Ungate(cache)
      /\ UNCHANGED <<server, cache, status, cur, noticed, held, reply, failed, late, earned,
                     reached, mishaps>>
  BY DEF Begin, history
<1>3. held = None
  BY <1>1, <1>2 DEF HeldOK
<1>4. Plan(cache) \in Plans /\ Ungate(cache) \subseteq Pod
      /\ \A p \in Pod : Plan(cache).rules[p] # {} => Steerable(p)
  BY <1>1, PlanType
<1>5. TypeOK'
  <2>1. view' \in Nodes /\ plan' \in Plans /\ todo' \subseteq Node \union Pod
    BY <1>1, <1>2, <1>4 DEF Clusters
  <2> HIDE DEF Plan
  <2> QED BY <1>1, <1>2, <1>3, <2>1 DEF TypeOK, Plans
<1>6. CopiesOK'
  BY <1>1, <1>2 DEF CopiesOK
<1>7. PodsOK'
  BY <1>1, <1>2, <1>4 DEF PodsOK
<1>8. HeldOK'
  <2>1. \A n \in Node \intersect todo' : Exists(cache, n)
    BY <1>2, <1>4, Kinds
  <2>2. \A n \in Node \intersect todo' : view'[n].st # "absent"
    BY <1>2, <2>1 DEF Exists
  <2>3. ASSUME NEW n \in Node \intersect todo' \intersect fresh' PROVE (Copy(n))' = server'.node[n]
    <3>1. (Copy(n))' = cache.node[n]
      BY <1>2, <1>3, Kinds DEF Copy
    <3> QED BY <1>1, <1>2, <2>3, <3>1 DEF CopiesOK
  <2>4. ASSUME NEW p \in Pod \intersect todo' \intersect fresh'
        PROVE  /\ (HasGate(server, p))'
               /\ (ToSteer(p))' => \/ server'.pod[p].rule # {}
                                   \/ held' # p /\ plan'.rules[p] # {}
    <3>1. p \in Ungate(cache) /\ p \in cur /\ cache.pod[p] = server.pod[p]
      BY <1>1, <1>2, <2>4, Kinds DEF CopiesOK
    <3>2. HasGate(cache, p)
      BY <3>1 DEF Ungate
    <3>3. (HasGate(server, p))'
      BY <1>2, <3>1, <3>2 DEF HasGate
    <3>4. ASSUME (ToSteer(p))' PROVE server'.pod[p].rule # {} \/ plan'.rules[p] # {}
      <4>1. p \notin Bypassed /\ TargetNode(cache, p) = None /\ GroupIndexForPod[p] >= 1
        BY <1>2, <3>1, <3>4 DEF ToSteer, TargetNode
      <4>2. cache.pod[p].rule # {} \/ Plan(cache).rules[p] # {}
        BY <1>1, <3>1, <4>1, PlannedRule
      <4> QED BY <1>2, <3>1, <4>2
    <3> QED BY <1>2, <1>3, <3>3, <3>4, Kinds
  <2> QED BY <1>2, <2>2, <2>3, <2>4 DEF HeldOK
<1> QED BY <1>5, <1>6, <1>7, <1>8 DEF SafeInv

\* The loop goes on: whatever it still holds is as it was.
LEMMA GoOnSafe ==
  ASSUME SafeInv, NEW o \in Objects, NEW e \in BOOLEAN, GoOn(o, e), Turn(o),
         \A p \in Pod \ {o} : server'.pod[p] = server.pod[p],
         \A n \in Node \ {o} : server'.node[n] = server.node[n],
         fresh' \subseteq fresh
  PROVE  /\ HeldOK' /\ todo' \subseteq Node \union Pod /\ held' \in todo' \union {None}
         /\ failed' \in BOOLEAN /\ ([n \in Node |-> reply] \in Nodes)'
         /\ busy' = busy /\ plan' = plan /\ view' = view /\ queued' = queued /\ cache' = cache
<1>1. TypeOK /\ HeldOK
  BY DEF SafeInv
<1>2. /\ todo' = todo \ {o} /\ held' = None /\ reply' = NoNode
      /\ failed' = (failed \/ e)
      /\ UNCHANGED <<cache, queued, busy, view, plan>>
      /\ busy /\ o \in todo /\ held \in {None, o}
  BY DEF GoOn, reading, Turn
<1>3. \A n \in Node \intersect todo' : view'[n].st # "absent"
  BY <1>1, <1>2 DEF HeldOK
<1>4. ASSUME NEW n \in Node \intersect todo' \intersect fresh' PROVE (Copy(n))' = server'.node[n]
  <2>1. (Copy(n))' = view[n] /\ Copy(n) = view[n]
    BY <1>2, <1>4, Kinds DEF Copy
  <2>2. n \in Node \intersect todo \intersect fresh /\ n # o
    BY <1>2, <1>4
  <2> QED BY <1>1, <2>1, <2>2 DEF HeldOK
<1>5. ASSUME NEW p \in Pod \intersect todo' \intersect fresh'
      PROVE  /\ (HasGate(server, p))'
             /\ (ToSteer(p))' => \/ server'.pod[p].rule # {}
                                 \/ held' # p /\ plan'.rules[p] # {}
  <2>1. p \in Pod \intersect todo \intersect fresh /\ p # o
    BY <1>2, <1>5
  <2>2. (ToSteer(p))' = ToSteer(p) /\ (HasGate(server, p))' = HasGate(server, p)
    BY <2>1 DEF ToSteer, TargetNode, HasGate
  <2> QED BY <1>1, <1>2, <2>1, <2>2, Kinds DEF HeldOK
<1>6. HeldOK'
  BY <1>2, <1>3, <1>4, <1>5 DEF HeldOK
<1>7. ([n \in Node |-> reply] \in Nodes)'
  BY <1>2, Empties DEF NoView
<1> QED BY <1>1, <1>2, <1>6, <1>7 DEF TypeOK

\* A write keeps the types, and what is known of copies and pods.
LEMMA StoreTypes ==
  ASSUME SafeInv, NEW o \in Objects, NEW s \in Clusters, OnlyAt(o, s), Store(o, s),
         UNCHANGED <<cache, plan>>, \A p \in Pod : PodOK(p, s.pod[p])
  PROVE  /\ CopiesOK' /\ PodsOK' /\ cache' \in Clusters /\ server' \in Clusters
         /\ cur' \subseteq Objects /\ noticed' \in BOOLEAN /\ earned' \subseteq Pod
         /\ reached' \in [Node -> 0 .. NumGroups]
         /\ server' = s
<1>1. server' = s /\ UNCHANGED cache /\ PodsOK
  BY DEF Store, SafeInv
<1>2. PodsOK'
  BY <1>1 DEF PodsOK
<1> QED BY <1>1, <1>2, StoreSafe

\* One of the reconciler's own writes of a node.
LEMMA NodeWriteSafe ==
  ASSUME SafeInv, NEW n \in Node, NEW r \in NodeStates, Store(n, WithNode(server, n, r)),
         UNCHANGED <<cache, plan>>
  PROVE  /\ CopiesOK' /\ PodsOK' /\ cache' \in Clusters /\ server' \in Clusters
         /\ cur' \subseteq Objects /\ noticed' \in BOOLEAN /\ earned' \subseteq Pod
         /\ reached' \in [Node -> 0 .. NumGroups]
         /\ server' = WithNode(server, n, r)
         /\ \A p \in Pod : server'.pod[p] = server.pod[p]
         /\ \A m \in Node \ {n} : server'.node[m] = server.node[m]
         /\ server'.node[n] = r
<1> DEFINE s == WithNode(server, n, r)
<1>1. s \in Clusters /\ OnlyAt(n, s) /\ s.node[n] = r /\ PodsOK /\ TypeOK
  BY OnlyAtNode DEF SafeInv
<1>2. Store(n, s) /\ n \in Objects
  BY <1>1, PassTypes
<1> HIDE DEF s
<1>3. \A p \in Pod : s.pod[p] = server.pod[p]
  BY <1>1, Kinds DEF OnlyAt
<1>4. \A p \in Pod : PodOK(p, s.pod[p])
  BY <1>1, <1>3 DEF PodsOK
<1>5. \A m \in Node \ {n} : s.node[m] = server.node[m]
  BY <1>1 DEF OnlyAt
<1>6. server' = s
  BY <1>2 DEF Store
<1> QED BY <1>1, <1>2, <1>3, <1>4, <1>5, <1>6, StoreTypes DEF s

\* One of its writes of a pod.
LEMMA PodWriteSafe ==
  ASSUME SafeInv, NEW p \in Pod, NEW r \in PodStates, Store(p, WithPod(server, p, r)),
         UNCHANGED <<cache, plan>>, r.st # "absent", r.rule # {} => Steerable(p)
  PROVE  /\ CopiesOK' /\ PodsOK' /\ cache' \in Clusters /\ server' \in Clusters
         /\ cur' \subseteq Objects /\ noticed' \in BOOLEAN /\ earned' \subseteq Pod
         /\ reached' \in [Node -> 0 .. NumGroups]
         /\ server' = WithPod(server, p, r)
         /\ \A q \in Pod \ {p} : server'.pod[q] = server.pod[q]
         /\ \A n \in Node : server'.node[n] = server.node[n]
         /\ server'.pod[p] = r
<1> DEFINE s == WithPod(server, p, r)
<1>1. s \in Clusters /\ OnlyAt(p, s) /\ s.pod[p] = r /\ PodsOK /\ TypeOK
  BY OnlyAtPod DEF SafeInv
<1>2. Store(p, s) /\ p \in Objects
  BY <1>1, PassTypes
<1> HIDE DEF s
<1>3. \A n \in Node : s.node[n] = server.node[n]
  BY <1>1, Kinds DEF OnlyAt
<1>4. \A q \in Pod \ {p} : s.pod[q] = server.pod[q]
  BY <1>1 DEF OnlyAt
<1>5. \A q \in Pod : PodOK(q, s.pod[q])
  BY <1>1, <1>4 DEF PodsOK, PodOK
<1>6. server' = s
  BY <1>2 DEF Store
<1> QED BY <1>1, <1>2, <1>3, <1>4, <1>5, <1>6, StoreTypes DEF s

\* An object is not written, and the loop goes on.
LEMMA SkipSafe ==
  ASSUME SafeInv, NEW o \in Objects, NEW e \in BOOLEAN, Turn(o), GoOn(o, e), Unstored,
         UNCHANGED fresh, late' \in SUBSET (Node \X Label),
         mishaps' \in 0 .. MaxMishaps
  PROVE  SafeInv'
<1>1. TypeOK /\ CopiesOK /\ PodsOK
  BY DEF SafeInv
<1>2. UNCHANGED <<server, status, cur, noticed, earned, reached>>
  BY DEF Unstored, history
<1>3. /\ HeldOK' /\ todo' \subseteq Node \union Pod /\ held' \in todo' \union {None}
      /\ failed' \in BOOLEAN /\ ([n \in Node |-> reply] \in Nodes)'
      /\ busy' = busy /\ plan' = plan /\ view' = view /\ queued' = queued /\ cache' = cache
  BY <1>2, GoOnSafe
<1>4. TypeOK'
  BY <1>1, <1>2, <1>3 DEF TypeOK
<1>5. CopiesOK' /\ PodsOK'
  BY <1>1, <1>2, <1>3 DEF CopiesOK, PodsOK
<1> QED BY <1>3, <1>4, <1>5 DEF SafeInv

\* mishaps stay within their bound.
LEMMA MishapType ==
  ASSUME TypeOK, UNCHANGED mishaps \/ Mishap
  PROVE  mishaps' \in 0 .. MaxMishaps
BY Kinds DEF TypeOK, Mishap

\* Patches that are refused, lost or not due keep the invariant.
LEMMA RefusedSafe ==
  ASSUME SafeInv, NEW o \in Node \union Pod,
         \/ NotFound(o) \/ Conflict(o) \/ PatchFails(o)
         \/ o \in Node /\ KeepNode(o)
  PROVE  SafeInv'
<1>1. o \in Objects /\ TypeOK
  BY PassTypes DEF SafeInv
<1>2. mishaps' \in 0 .. MaxMishaps
  BY <1>1, MishapType DEF NotFound, Conflict, PatchFails, KeepNode
<1>3. Turn(o) /\ Unstored /\ UNCHANGED fresh /\ late' \in SUBSET (Node \X Label)
  BY <1>1 DEF NotFound, Conflict, PatchFails, KeepNode, TypeOK
<1>4. \E e \in BOOLEAN : GoOn(o, e)
  BY DEF NotFound, Conflict, PatchFails, KeepNode
<1> QED BY <1>1, <1>2, <1>3, <1>4, SkipSafe

\* A label patch keeps it: the answer is the node as it is now.
LEMMA PatchLabelSafe ==
  ASSUME SafeInv, NEW n \in Node, PatchLabel(n)
  PROVE  SafeInv'
<1>1. TypeOK /\ HeldOK /\ plan.label[n] \in Label /\ mishaps' \in 0 .. MaxMishaps
  BY PassTypes, MishapType DEF SafeInv, PatchLabel
<1>2. /\ SetLabel(n, plan.label[n]) /\ fresh' = fresh \union {n}
      /\ busy /\ n \in todo /\ held \in {None, n} /\ held # n
      /\ held' = n /\ reply' = server'.node[n]
      /\ UNCHANGED <<cache, queued, busy, view, plan, todo, failed, late>>
  BY DEF PatchLabel, Answered, Turn, LabelDue, reading
<1>3. PICK r \in NodeStates : /\ Store(n, WithNode(server, n, r)) /\ UNCHANGED status
                              /\ r.st = server.node[n].st
  BY <1>1, <1>2, SetLabelIs
<1>4. /\ CopiesOK' /\ PodsOK' /\ cache' \in Clusters /\ server' \in Clusters
      /\ cur' \subseteq Objects /\ noticed' \in BOOLEAN /\ earned' \subseteq Pod
      /\ reached' \in [Node -> 0 .. NumGroups]
      /\ \A p \in Pod : server'.pod[p] = server.pod[p]
      /\ \A m \in Node \ {n} : server'.node[m] = server.node[m]
      /\ server'.node[n] = r
  BY <1>2, <1>3, NodeWriteSafe
<1>5. ([m \in Node |-> reply] \in Nodes)' /\ fresh' \subseteq Objects
  BY <1>1, <1>2, <1>4, PassTypes DEF TypeOK, Nodes, NodeStates
<1>6. TypeOK'
  BY <1>1, <1>2, <1>3, <1>4, <1>5 DEF TypeOK
<1>7. HeldOK'
  <2>1. \A m \in Node \intersect todo' : view'[m].st # "absent"
    BY <1>1, <1>2 DEF HeldOK
  <2>2. ASSUME NEW m \in Node \intersect todo' \intersect fresh' PROVE (Copy(m))' = server'.node[m]
    <3>1. CASE m = n
      BY <1>2, <3>1 DEF Copy
    <3>2. CASE m # n
      <4>1. (Copy(m))' = view[m] /\ Copy(m) = view[m] /\ m \in Node \intersect todo \intersect fresh
        BY <1>2, <2>2, <3>2, Kinds DEF Copy
      <4> QED BY <1>1, <1>4, <3>2, <4>1 DEF HeldOK
    <3> QED BY <3>1, <3>2
  <2>3. ASSUME NEW p \in Pod \intersect todo' \intersect fresh'
        PROVE  /\ (HasGate(server, p))'
               /\ (ToSteer(p))' => \/ server'.pod[p].rule # {}
                                   \/ held' # p /\ plan'.rules[p] # {}
    <3>1. p \in Pod \intersect todo \intersect fresh /\ held' # p
      BY <1>2, <2>3, Kinds
    <3>2. (ToSteer(p))' = ToSteer(p) /\ (HasGate(server, p))' = HasGate(server, p)
      BY <1>4 DEF ToSteer, TargetNode, HasGate
    <3> QED BY <1>1, <1>2, <1>4, <3>1, <3>2 DEF HeldOK
  <2> QED BY <1>2, <2>1, <2>2, <2>3 DEF HeldOK
<1> QED BY <1>4, <1>6, <1>7 DEF SafeInv

\* One of a node that is gone keeps it: no copy of that is fresh.
LEMMA PatchLabelNotFoundSafe ==
  ASSUME SafeInv, NEW n \in Node, PatchLabelNotFound(n)
  PROVE  SafeInv'
<1>1. TypeOK /\ HeldOK /\ CopiesOK /\ PodsOK /\ mishaps' \in 0 .. MaxMishaps
  BY MishapType DEF SafeInv, PatchLabelNotFound
<1>2. /\ busy /\ n \in todo /\ held = None
      /\ held' = n /\ reply' = view[n]
      /\ UNCHANGED <<cache, queued, busy, view, plan, todo, failed, late, fresh,
                     server, status, cur, noticed, earned, reached>>
  BY DEF PatchLabelNotFound, Answered, Turn, LabelDue, reading, Unstored, history
<1>3. ([m \in Node |-> reply] \in Nodes)'
  BY <1>1, <1>2, PassTypes DEF Nodes, NodeStates
<1>4. TypeOK'
  BY <1>1, <1>2, <1>3 DEF TypeOK
<1>5. CopiesOK' /\ PodsOK'
  BY <1>1, <1>2 DEF CopiesOK, PodsOK
<1>6. \A m \in Node : (Copy(m))' = view[m] /\ Copy(m) = view[m]
  BY <1>2, Kinds DEF Copy
<1>7. \A p \in Pod : /\ (ToSteer(p))' = ToSteer(p) /\ (HasGate(server, p))' = HasGate(server, p)
                     /\ held' # p /\ held # p
  BY <1>2, Kinds DEF ToSteer, TargetNode, HasGate
<1>8. HeldOK'
  BY <1>1, <1>2, <1>6, <1>7 DEF HeldOK
<1> QED BY <1>4, <1>5, <1>8 DEF SafeInv

\* A node is written, and the loop goes on.
LEMMA NodeDoneSafe ==
  ASSUME SafeInv, NEW n \in Node, NEW r \in NodeStates, Store(n, WithNode(server, n, r)),
         UNCHANGED status, NEW e \in BOOLEAN, Turn(n), GoOn(n, e), fresh' \subseteq fresh,
         UNCHANGED late, mishaps' \in 0 .. MaxMishaps
  PROVE  SafeInv'
<1>1. TypeOK /\ n \in Objects /\ UNCHANGED <<cache, plan>>
  BY PassTypes DEF SafeInv, GoOn, reading
<1>2. /\ CopiesOK' /\ PodsOK' /\ cache' \in Clusters /\ server' \in Clusters
      /\ cur' \subseteq Objects /\ noticed' \in BOOLEAN /\ earned' \subseteq Pod
      /\ reached' \in [Node -> 0 .. NumGroups]
      /\ \A p \in Pod : server'.pod[p] = server.pod[p]
      /\ \A m \in Node \ {n} : server'.node[m] = server.node[m]
  BY <1>1, NodeWriteSafe
<1>3. /\ HeldOK' /\ todo' \subseteq Node \union Pod /\ held' \in todo' \union {None}
      /\ failed' \in BOOLEAN /\ ([m \in Node |-> reply] \in Nodes)'
      /\ busy' = busy /\ plan' = plan /\ view' = view /\ queued' = queued
  BY <1>1, <1>2, GoOnSafe
<1>4. TypeOK'
  BY <1>1, <1>2, <1>3 DEF TypeOK
<1> QED BY <1>2, <1>3, <1>4 DEF SafeInv

\* A pod is written, and the loop goes on.
LEMMA PodDoneSafe ==
  ASSUME SafeInv, NEW p \in Pod, NEW r \in PodStates, Store(p, WithPod(server, p, r)),
         r.st # "absent", r.rule # {} => Steerable(p),
         UNCHANGED status, NEW e \in BOOLEAN, Turn(p), GoOn(p, e), fresh' \subseteq fresh,
         UNCHANGED late, mishaps' \in 0 .. MaxMishaps
  PROVE  SafeInv'
<1>1. TypeOK /\ p \in Objects /\ UNCHANGED <<cache, plan>>
  BY PassTypes DEF SafeInv, GoOn, reading
<1>2. /\ CopiesOK' /\ PodsOK' /\ cache' \in Clusters /\ server' \in Clusters
      /\ cur' \subseteq Objects /\ noticed' \in BOOLEAN /\ earned' \subseteq Pod
      /\ reached' \in [Node -> 0 .. NumGroups]
      /\ \A q \in Pod \ {p} : server'.pod[q] = server.pod[q]
      /\ \A n \in Node : server'.node[n] = server.node[n]
  BY <1>1, PodWriteSafe
<1>3. /\ HeldOK' /\ todo' \subseteq Node \union Pod /\ held' \in todo' \union {None}
      /\ failed' \in BOOLEAN /\ ([m \in Node |-> reply] \in Nodes)'
      /\ busy' = busy /\ plan' = plan /\ view' = view /\ queued' = queued
  BY <1>1, <1>2, GoOnSafe
<1>4. TypeOK'
  BY <1>1, <1>2, <1>3 DEF TypeOK
<1> QED BY <1>2, <1>3, <1>4 DEF SafeInv

\* One that is lost, or late, keeps it: the reconcile goes on to the next node.
LEMMA PatchLabelUnansweredSafe ==
  ASSUME SafeInv, NEW n \in Node, PatchLabelUnanswered(n)
  PROVE  SafeInv'
<1>1. TypeOK /\ n \in Objects /\ plan.label[n] \in Label /\ mishaps' \in 0 .. MaxMishaps
      /\ Turn(n) /\ GoOn(n, TRUE)
  BY PassTypes, MishapType DEF SafeInv, PatchLabelUnanswered
<1>2. CASE SetLabel(n, plan.label[n]) /\ fresh' = fresh \ {n} /\ UNCHANGED late
  <2>1. PICK r \in NodeStates : Store(n, WithNode(server, n, r)) /\ UNCHANGED status
    BY <1>1, <1>2, SetLabelIs
  <2> QED BY <1>1, <1>2, <2>1, NodeDoneSafe
<1>3. CASE late' = {<<n, plan.label[n]>>} /\ Unstored /\ UNCHANGED fresh
  <2>1. late' \in SUBSET (Node \X Label)
    BY <1>1, <1>3
  <2> QED BY <1>1, <1>3, <2>1, SkipSafe
<1> QED BY <1>2, <1>3 DEF PatchLabelUnanswered

\* A taint patch keeps it.
LEMMA PatchTaintSafe ==
  ASSUME SafeInv, NEW n \in Node, PatchTaint(n)
  PROVE  SafeInv'
<1>1. TypeOK /\ mishaps' \in 0 .. MaxMishaps /\ Turn(n) /\ SetTaint(n) /\ UNCHANGED <<fresh, late>>
  BY MishapType DEF SafeInv, PatchTaint
<1>2. PICK e \in BOOLEAN : GoOn(n, e)
  BY DEF PatchTaint
<1>3. PICK r \in NodeStates : Store(n, WithNode(server, n, r)) /\ UNCHANGED status
  BY <1>1, SetTaintIs
<1> QED BY <1>1, <1>2, <1>3, NodeDoneSafe

\* Rules are only added to pods that are to be steered.
LEMMA AddedRules ==
  ASSUME SafeInv, NEW p \in Pod, NEW r, r.rule = server.pod[p].rule \union plan.rules[p]
  PROVE  r.rule # {} => Steerable(p)
BY DEF SafeInv, PodsOK, PodOK

\* Placement rules without an answer keep it: the pod is not ungated in this pass.
LEMMA AddRulesUnansweredSafe ==
  ASSUME SafeInv, NEW p \in Pod, AddRulesUnanswered(p)
  PROVE  SafeInv'
<1>1. TypeOK /\ HeldOK /\ mishaps' \in 0 .. MaxMishaps /\ Turn(p) /\ SetRules(p)
      /\ fresh' = fresh \ {p} /\ UNCHANGED late /\ GoOn(p, TRUE)
      /\ p \in Pod \intersect todo \intersect fresh
  BY MishapType DEF SafeInv, AddRulesUnanswered, Turn
<1>2. PICK r \in PodStates : /\ Store(p, WithPod(server, p, r)) /\ UNCHANGED status
                             /\ r.st = server.pod[p].st
                             /\ r.rule = server.pod[p].rule \union plan.rules[p]
  BY <1>1, SetRulesIs
<1>3. r.st # "absent"
  BY <1>1, <1>2 DEF HeldOK, HasGate
<1> QED BY <1>1, <1>2, <1>3, AddedRules, PodDoneSafe

\* The patch that ungates a pod keeps it.
LEMMA RemoveGateSafe ==
  ASSUME SafeInv, NEW p \in Pod, RemoveGate(p)
  PROVE  SafeInv'
<1>1. TypeOK /\ mishaps' \in 0 .. MaxMishaps /\ Turn(p) /\ Ungated(p)
      /\ UNCHANGED <<fresh, late>> /\ (server.pod[p].rule # {} => Steerable(p))
  BY MishapType DEF SafeInv, RemoveGate, PodsOK, PodOK
<1>2. PICK e \in BOOLEAN : GoOn(p, e)
  BY DEF RemoveGate
<1>3. PICK r \in PodStates : /\ Store(p, WithPod(server, p, r)) /\ UNCHANGED status
                             /\ r.st = "pending" /\ r.rule = server.pod[p].rule
  BY <1>1, UngatedIs
<1> QED BY <1>1, <1>2, <1>3, PodDoneSafe

\* Placement rules keep it: the pod has them when its gate is to go.
LEMMA AddRulesSafe ==
  ASSUME SafeInv, NEW p \in Pod, AddRules(p)
  PROVE  SafeInv'
<1>1. TypeOK /\ HeldOK /\ mishaps' \in 0 .. MaxMishaps /\ Turn(p) /\ SetRules(p)
      /\ p \in Pod \intersect todo \intersect fresh
  BY MishapType DEF SafeInv, AddRules, Turn
<1>2. /\ busy /\ held = None /\ held' = p /\ reply' = NoNode /\ plan.rules[p] # {}
      /\ UNCHANGED <<cache, queued, busy, view, plan, todo, failed, late, fresh, mishaps>>
  BY DEF AddRules, Turn, RulesDue, Answered, reading
<1>3. PICK r \in PodStates : /\ Store(p, WithPod(server, p, r)) /\ UNCHANGED status
                             /\ r.st = server.pod[p].st /\ r.on = server.pod[p].on
                             /\ r.rule = server.pod[p].rule \union plan.rules[p]
  BY <1>1, SetRulesIs
<1>4. r.st # "absent" /\ r.rule # {} /\ Steerable(p)
  BY <1>1, <1>2, <1>3, AddedRules DEF HeldOK, HasGate
<1>5. /\ CopiesOK' /\ PodsOK' /\ cache' \in Clusters /\ server' \in Clusters
      /\ cur' \subseteq Objects /\ noticed' \in BOOLEAN /\ earned' \subseteq Pod
      /\ reached' \in [Node -> 0 .. NumGroups]
      /\ \A q \in Pod \ {p} : server'.pod[q] = server.pod[q]
      /\ \A n \in Node : server'.node[n] = server.node[n]
      /\ server'.pod[p] = r
  BY <1>2, <1>3, <1>4, PodWriteSafe
<1>6. ([n \in Node |-> reply] \in Nodes)'
  BY <1>2, Empties DEF NoView
<1>7. TypeOK'
  BY <1>1, <1>2, <1>3, <1>5, <1>6 DEF TypeOK
<1>8. \A n \in Node : (Copy(n))' = view[n] /\ Copy(n) = view[n]
  BY <1>2, Kinds DEF Copy
<1>9. ASSUME NEW q \in Pod \intersect todo' \intersect fresh'
      PROVE  /\ (HasGate(server, q))'
             /\ (ToSteer(q))' => \/ server'.pod[q].rule # {}
                                 \/ held' # q /\ plan'.rules[q] # {}
  <2>1. CASE q = p
    BY <1>1, <1>3, <1>4, <1>5, <2>1 DEF HeldOK, HasGate
  <2>2. CASE q # p
    <3>1. (ToSteer(q))' = ToSteer(q) /\ (HasGate(server, q))' = HasGate(server, q)
      BY <1>5, <2>2 DEF ToSteer, TargetNode, HasGate
    <3> QED BY <1>1, <1>2, <1>5, <1>9, <2>2, <3>1 DEF HeldOK
  <2> QED BY <2>1, <2>2
<1>10. HeldOK'
  BY <1>1, <1>2, <1>5, <1>8, <1>9 DEF HeldOK
<1> QED BY <1>5, <1>7, <1>10 DEF SafeInv

\* A reconcile ends, in one way or another.
LEMMA FinishIs ==
  ASSUME SafeInv, Finish
  PROVE  /\ HeldOK' /\ busy' = FALSE /\ failed' = FALSE /\ todo' = {} /\ held' = None
         /\ view' \in Nodes /\ plan' \in Plans /\ fresh' = {}
         /\ ([n \in Node |-> reply] \in Nodes)'
         /\ \A p \in Pod : plan'.rules[p] # {} => Steerable(p)
<1>1. /\ busy' = FALSE /\ failed' = FALSE /\ todo' = {} /\ held' = None
      /\ view' = NoView /\ plan' = NoPlan /\ fresh' = {} /\ reply' = NoNode
  BY DEF Finish
<1>2. \A p \in Pod : NoPlan.rules[p] # {} => Steerable(p)
  BY Empties, PlanType DEF NoPlan
<1>3. HeldOK'
  BY <1>1 DEF HeldOK
<1> QED BY <1>1, <1>2, <1>3, Empties DEF NoView

\* The end of a reconcile keeps the invariant ...
LEMMA ReturnSafe ==
  ASSUME SafeInv, NEW e \in BOOLEAN, Return(e), status' \in Statuses,
         cur' = cur \/ cur' = cur \ {Sequence}, mishaps' \in 0 .. MaxMishaps
  PROVE  SafeInv'
<1>1. TypeOK /\ CopiesOK /\ PodsOK /\ Finish
  BY DEF SafeInv, Return
<1>2. queued' = (queued \/ e) /\ UNCHANGED <<server, cache, noticed, late, earned, reached>>
  BY DEF Return, history
<1>3. /\ HeldOK' /\ busy' = FALSE /\ failed' = FALSE /\ todo' = {} /\ held' = None
      /\ view' \in Nodes /\ plan' \in Plans /\ fresh' = {}
      /\ ([n \in Node |-> reply] \in Nodes)'
      /\ \A p \in Pod : plan'.rules[p] # {} => Steerable(p)
  BY <1>1, FinishIs
<1>4. TypeOK'
  BY <1>1, <1>2, <1>3 DEF TypeOK, Plans
<1>5. CopiesOK' /\ PodsOK'
  BY <1>1, <1>2, <1>3, Kinds DEF CopiesOK, PodsOK
<1> QED BY <1>3, <1>4, <1>5 DEF SafeInv

\* ... with whatever becomes of the status ...
LEMMA EndSafe ==
  ASSUME SafeInv, KeepStatus \/ WriteStatus \/ StatusFails
  PROVE  SafeInv'
<1>1. mishaps' \in 0 .. MaxMishaps /\ failed \in BOOLEAN /\ status \in Statuses
      /\ plan.status \in Statuses
  BY MishapType, PassTypes DEF SafeInv, KeepStatus, WriteStatus, StatusFails, TypeOK
<1>2. CASE KeepStatus
  BY <1>1, <1>2, ReturnSafe DEF KeepStatus
<1>3. CASE WriteStatus
  <2>1. status' = plan.status /\ cur' = cur \ {Sequence}
        /\ \E lost \in BOOLEAN : Return(failed \/ lost)
    BY <1>3 DEF WriteStatus
  <2> QED BY <1>1, <2>1, ReturnSafe
<1>4. CASE StatusFails
  BY <1>1, <1>4, ReturnSafe DEF StatusFails
<1> QED BY <1>2, <1>3, <1>4

\* ... and so does a crash.
LEMMA CrashSafe ==
  ASSUME SafeInv, Crash
  PROVE  SafeInv'
<1>1. TypeOK /\ PodsOK /\ Finish /\ mishaps' \in 0 .. MaxMishaps
  BY MishapType DEF SafeInv, Crash
<1>2. cache' = server /\ cur' = Objects /\ noticed' = FALSE /\ queued' = TRUE
      /\ UNCHANGED <<server, status, late, earned, reached>>
  BY DEF Crash, history
<1>3. /\ HeldOK' /\ busy' = FALSE /\ failed' = FALSE /\ todo' = {} /\ held' = None
      /\ view' \in Nodes /\ plan' \in Plans /\ fresh' = {}
      /\ ([n \in Node |-> reply] \in Nodes)'
      /\ \A p \in Pod : plan'.rules[p] # {} => Steerable(p)
  BY <1>1, FinishIs
<1>4. TypeOK'
  BY <1>1, <1>2, <1>3 DEF TypeOK, Plans
<1>5. CopiesOK' /\ PodsOK'
  BY <1>1, <1>2, <1>3 DEF CopiesOK, PodsOK, Objects
<1> QED BY <1>3, <1>4, <1>5 DEF SafeInv

\* So does a label patch that the server gets to late.
LEMMA LatePatchSafe ==
  ASSUME SafeInv, LatePatch
  PROVE  SafeInv'
<1>1. TypeOK /\ CopiesOK /\ PodsOK /\ HeldOK /\ late \subseteq Node \X Label
  BY DEF SafeInv, TypeOK
<1>2. PICK patch \in late :
        /\ late' = {}
        /\ IF Exists(server, patch[1])
             THEN SetLabel(patch[1], patch[2]) /\ fresh' = fresh \ {patch[1]}
             ELSE Unstored /\ UNCHANGED fresh
        /\ UNCHANGED <<cache, queued, busy, view, plan, todo, held, reply, failed, mishaps>>
  BY DEF LatePatch, reading, writing
<1>3. PICK n \in Node, l \in Label : n = patch[1] /\ l = patch[2]
  BY <1>1
<1>4. CASE Exists(server, n)
  <2>1. PICK r \in NodeStates : Store(n, WithNode(server, n, r)) /\ UNCHANGED status
    BY <1>1, <1>2, <1>3, <1>4, SetLabelIs
  <2>2. /\ CopiesOK' /\ PodsOK' /\ cache' \in Clusters /\ server' \in Clusters
        /\ cur' \subseteq Objects /\ noticed' \in BOOLEAN /\ earned' \subseteq Pod
        /\ reached' \in [Node -> 0 .. NumGroups]
        /\ \A p \in Pod : server'.pod[p] = server.pod[p]
        /\ \A m \in Node \ {n} : server'.node[m] = server.node[m]
    BY <1>2, <2>1, NodeWriteSafe
  <2>3. fresh' = fresh \ {n}
    BY <1>2, <1>3, <1>4
  <2>4. TypeOK'
    BY <1>1, <1>2, <2>1, <2>2, <2>3 DEF TypeOK
  <2>5. \A m \in Node : (Copy(m))' = Copy(m)
    BY <1>2 DEF Copy
  <2>6. \A p \in Pod : (ToSteer(p))' = ToSteer(p) /\ (HasGate(server, p))' = HasGate(server, p)
    BY <2>2 DEF ToSteer, TargetNode, HasGate
  <2>7. HeldOK'
    BY <1>1, <1>2, <2>2, <2>3, <2>5, <2>6 DEF HeldOK
  <2> QED BY <2>2, <2>4, <2>7 DEF SafeInv
<1>5. CASE ~Exists(server, n)
  <2>1. UNCHANGED <<server, status, cur, noticed, earned, reached, fresh>>
    BY <1>2, <1>3, <1>5 DEF Unstored, history
  <2>2. TypeOK'
    BY <1>1, <1>2, <2>1 DEF TypeOK
  <2>3. CopiesOK' /\ PodsOK' /\ HeldOK'
    BY <1>1, <1>2, <2>1 DEF CopiesOK, PodsOK, HeldOK, Copy, ToSteer, TargetNode, HasGate
  <2> QED BY <2>2, <2>3 DEF SafeInv
<1> QED BY <1>4, <1>5

\* So does the requeue after a minute.
LEMMA ResyncSafe ==
  ASSUME SafeInv, Resync \/ UNCHANGED vars
  PROVE  SafeInv'
<1>1. TypeOK /\ CopiesOK /\ PodsOK /\ HeldOK
  BY DEF SafeInv
<1>2. /\ UNCHANGED <<server, cache, status, cur, noticed, busy, view, plan, fresh, todo, held, reply,
                     failed, late, earned, reached, mishaps>>
      /\ queued' \in BOOLEAN
  BY <1>1 DEF Resync, vars, reading, writing, history, TypeOK
<1>3. TypeOK'
  BY <1>1, <1>2 DEF TypeOK
<1>4. CopiesOK' /\ PodsOK' /\ HeldOK'
  BY <1>1, <1>2 DEF CopiesOK, PodsOK, HeldOK, Copy, ToSteer, TargetNode, HasGate
<1> QED BY <1>3, <1>4 DEF SafeInv

\* The invariant holds initially.
LEMMA SafeInit ==
  ASSUME Init
  PROVE  SafeInv
<1>1. PICK m \in MethodsUsed :
         server = [Cluster EXCEPT
                     !.node = [n \in Node |-> IF n \in Present THEN [NoNode EXCEPT !.st = "in"]
                                                               ELSE NoNode],
                     !.method = m]
  BY DEF Init
<1> DEFINE N == [n \in Node |-> IF n \in Present THEN [NoNode EXCEPT !.st = "in"] ELSE NoNode]
<1>2. N \in Nodes
  <2>1. NoNode \in NodeStates /\ [NoNode EXCEPT !.st = "in"] \in NodeStates
    BY Empties DEF NodeStates
  <2> QED BY <2>1 DEF Nodes, NodeStates
<1>3. m \in Methods /\ Cluster \in Clusters /\ MaxMishaps \in Nat
  BY Empties, SequenceAssumption DEF SequenceAssumption
<1>4. server = [Cluster EXCEPT !.node = N, !.method = m]
  BY <1>1
<1> HIDE DEF N
<1>5. server \in Clusters /\ server.pod = [p \in Pod |-> NoPod]
  BY <1>2, <1>3, <1>4 DEF Clusters, Cluster
<1>6. /\ cache = server /\ status = NoStatus /\ cur = Objects /\ noticed = FALSE
      /\ queued = TRUE /\ busy = FALSE /\ view = NoView /\ plan = NoPlan /\ fresh = {}
      /\ todo = {} /\ held = None /\ reply = NoNode /\ failed = FALSE
      /\ late = {} /\ mishaps = 0 /\ earned = {}
      /\ reached = [n \in Node |-> Satisfied(server, n)]
  BY DEF Init
<1>7. reached \in [Node -> 0 .. NumGroups]
  BY <1>6, SatisfiedIs
<1>8. [n \in Node |-> reply] \in Nodes
  BY <1>6, Empties DEF NoView
<1>9. TypeOK
  <2>1. server \in Clusters /\ cache \in Clusters /\ status \in Statuses /\ view \in Nodes
        /\ plan \in Plans
    BY <1>5, <1>6, Empties
  <2>2. noticed \in BOOLEAN /\ queued \in BOOLEAN /\ busy \in BOOLEAN /\ failed \in BOOLEAN
    BY <1>6
  <2>3. mishaps \in 0 .. MaxMishaps
    BY <1>3, <1>6
  <2>4. cur \subseteq Objects /\ held \in todo \union {None}
    BY <1>6
  <2>5. fresh \subseteq Objects /\ todo \subseteq Node \union Pod
        /\ late \subseteq Node \X Label /\ earned \subseteq Pod
    BY <1>6
  <2> QED BY <1>7, <1>8, <2>1, <2>2, <2>3, <2>4, <2>5 DEF TypeOK, Plans
<1>10. CopiesOK
  BY <1>6 DEF CopiesOK, Objects
<1>11. \A p \in Pod : NoPlan.rules[p] # {} => Steerable(p)
  BY Empties, PlanType DEF NoPlan
<1>12. PodsOK
  <2>1. \A p \in Pod : PodOK(p, NoPod)
    BY DEF PodOK, NoPod
  <2>2. \A p \in Pod : server.pod[p] = NoPod /\ cache.pod[p] = NoPod
    BY <1>5, <1>6
  <2>3. plan = NoPlan
    BY <1>6
  <2> QED BY <1>11, <2>1, <2>2, <2>3 DEF PodsOK
<1>13. HeldOK
  BY <1>6 DEF HeldOK
<1> QED BY <1>9, <1>10, <1>12, <1>13 DEF SafeInv

\* Every step keeps it.
LEMMA SafeStep ==
  ASSUME SafeInv, [Next]_vars
  PROVE  SafeInv'
<1>1. CASE Workload
  BY <1>1, WorkloadSafe
<1>2. CASE Machines
  BY <1>2, MachinesSafe
<1>3. CASE \E m \in Methods : EditMethod(m)
  BY <1>3, EditSafe
<1>4. CASE Deliver
  BY <1>4, DeliverSafe
<1>5. CASE Begin
  BY <1>5, BeginSafe
<1>6. ASSUME NEW n \in Node,
             \/ PatchLabel(n) \/ PatchLabelNotFound(n) \/ PatchLabelUnanswered(n)
             \/ PatchTaint(n) \/ KeepNode(n)
      PROVE  SafeInv'
  BY <1>6, PatchLabelSafe, PatchLabelNotFoundSafe, PatchLabelUnansweredSafe, PatchTaintSafe,
     RefusedSafe
<1>7. ASSUME NEW p \in Pod, AddRules(p) \/ AddRulesUnanswered(p) \/ RemoveGate(p)
      PROVE  SafeInv'
  BY <1>7, AddRulesSafe, AddRulesUnansweredSafe, RemoveGateSafe
<1>8. ASSUME NEW o \in Node \union Pod, NotFound(o) \/ Conflict(o) \/ PatchFails(o)
      PROVE  SafeInv'
  BY <1>8, RefusedSafe
<1>9. CASE KeepStatus \/ WriteStatus \/ StatusFails
  BY <1>9, EndSafe
<1>10. CASE LatePatch
  BY <1>10, LatePatchSafe
<1>11. CASE Crash
  BY <1>11, CrashSafe
<1>12. CASE Resync \/ UNCHANGED vars
  BY <1>12, ResyncSafe
<1>13. CASE Reconcile
  BY <1>5, <1>6, <1>7, <1>8, <1>9, <1>13 DEF Reconcile
<1> QED BY <1>1, <1>2, <1>3, <1>4, <1>10, <1>11, <1>12, <1>13 DEF Next

\* A reconcile's writes rest on what is: wherever it is, whatever others have done since
\* it read, a copy with which the lock lets it write is the server's.
THEOREM Invariance == Spec => []SafeInv
<1>1. Init => SafeInv
  BY SafeInit
<1>2. SafeInv /\ [Next]_vars => SafeInv'
  BY SafeStep
<1> QED BY <1>1, <1>2, PTL DEF Spec

\* Every variable keeps its type.
THEOREM TypeCorrect == Spec => []TypeOK
<1>1. SafeInv => TypeOK
  BY DEF SafeInv
<1> QED BY <1>1, Invariance, PTL

-----------------------------------------------------------------------------
(* What the reconciler never does.                                         *)

\* A label patch leaves everything but one label as it is.
LEMMA LabelEffect ==
  ASSUME SafeInv, NEW n \in Node, NEW l \in Label, SetLabel(n, l), UNCHANGED <<cache, plan>>
  PROVE  /\ \A p \in Pod : server'.pod[p] = server.pod[p]
         /\ \A m \in Node : /\ server'.node[m].taints = server.node[m].taints
                            /\ server'.node[m].taint = server.node[m].taint
                            /\ server'.node[m].st = server.node[m].st
                            /\ server'.node[m].label \in {server.node[m].label, l}
         /\ \A m \in Node \ {n} : server'.node[m] = server.node[m]
         /\ server'.node[n].label = l
<1>1. TypeOK
  BY DEF SafeInv
<1>2. PICK r \in NodeStates :
            /\ Store(n, WithNode(server, n, r)) /\ UNCHANGED status
            /\ r.st = server.node[n].st /\ r.taints = server.node[n].taints
            /\ r.label = l /\ r.taint = server.node[n].taint
  BY <1>1, SetLabelIs
<1>3. /\ \A p \in Pod : server'.pod[p] = server.pod[p]
      /\ \A m \in Node \ {n} : server'.node[m] = server.node[m]
      /\ server'.node[n] = r
  BY <1>2, NodeWriteSafe
<1> QED BY <1>2, <1>3

\* A step of Reconcile that writes the server, and which of it.
LEMMA ReconcileWrites ==
  ASSUME SafeInv, Reconcile
  PROVE  \/ UNCHANGED <<server, earned, reached>> /\ cur' \subseteq cur
         \/ \E n \in Node : /\ SetLabel(n, plan.label[n]) /\ UNCHANGED <<cache, plan>>
                            /\ plan.label[n] \in Label
         \/ \E n \in Node : PatchTaint(n)
         \/ \E p \in Pod : AddRules(p) \/ AddRulesUnanswered(p)
         \/ \E p \in Pod : RemoveGate(p)
<1>1. \A n \in Node : plan.label[n] \in Label
  BY PassTypes DEF SafeInv
<1>2. CASE Begin \/ KeepStatus \/ WriteStatus \/ StatusFails
  BY <1>2 DEF Begin, KeepStatus, WriteStatus, StatusFails, Return, history
<1>3. ASSUME NEW o \in Node \union Pod, NotFound(o) \/ Conflict(o) \/ PatchFails(o)
      PROVE  UNCHANGED <<server, earned, reached>> /\ cur' \subseteq cur
  BY <1>3 DEF NotFound, Conflict, PatchFails, Unstored, history
<1>4. ASSUME NEW n \in Node, KeepNode(n) \/ PatchLabelNotFound(n)
      PROVE  UNCHANGED <<server, earned, reached>> /\ cur' \subseteq cur
  BY <1>4 DEF KeepNode, PatchLabelNotFound, Unstored, history
<1>5. ASSUME NEW n \in Node, PatchLabel(n)
      PROVE  SetLabel(n, plan.label[n]) /\ UNCHANGED <<cache, plan>>
  BY <1>5 DEF PatchLabel, Answered, reading
<1>6. ASSUME NEW n \in Node, PatchLabelUnanswered(n)
      PROVE  \/ UNCHANGED <<server, earned, reached>> /\ cur' \subseteq cur
             \/ SetLabel(n, plan.label[n]) /\ UNCHANGED <<cache, plan>>
  BY <1>6 DEF PatchLabelUnanswered, GoOn, reading, Unstored, history
<1> QED BY <1>1, <1>2, <1>3, <1>4, <1>5, <1>6 DEF Reconcile

\* What a taint patch does.
LEMMA TaintEffect ==
  ASSUME SafeInv, NEW n \in Node, PatchTaint(n)
  PROVE  /\ \A p \in Pod : server'.pod[p] = server.pod[p]
         /\ \A m \in Node \ {n} : server'.node[m] = server.node[m]
         /\ server'.node[n].taints = server.node[n].taints
         /\ server'.node[n].taint = plan.taint[n]
         /\ server'.node[n].st = server.node[n].st
         /\ server'.node[n].label = server.node[n].label
         /\ server'.node[n] # server.node[n]
<1>1. /\ TypeOK /\ HeldOK /\ SetTaint(n) /\ UNCHANGED <<cache, plan>>
      /\ n \in Node \intersect todo \intersect fresh /\ Copy(n).taint # plan.taint[n]
  BY DEF PatchTaint, Turn, TaintDue, GoOn, reading, SafeInv
<1>2. PICK r \in NodeStates :
            /\ Store(n, WithNode(server, n, r)) /\ UNCHANGED status
            /\ r.st = server.node[n].st /\ r.taints = Copy(n).taints
            /\ r.label = server.node[n].label /\ r.taint = plan.taint[n]
  BY <1>1, SetTaintIs
<1>3. /\ \A p \in Pod : server'.pod[p] = server.pod[p]
      /\ \A m \in Node \ {n} : server'.node[m] = server.node[m]
      /\ server'.node[n] = r
  BY <1>1, <1>2, NodeWriteSafe
<1>4. Copy(n) = server.node[n]
  BY <1>1 DEF HeldOK
<1> QED BY <1>1, <1>2, <1>3, <1>4

\* What the first patch of a pod does.
LEMMA RulesEffect ==
  ASSUME SafeInv, NEW p \in Pod, AddRules(p) \/ AddRulesUnanswered(p)
  PROVE  /\ \A q \in Pod \ {p} : server'.pod[q] = server.pod[q]
         /\ \A n \in Node : server'.node[n] = server.node[n]
         /\ server.pod[p].st = "gated" /\ server'.pod[p].st = "gated"
         /\ server'.pod[p].on = server.pod[p].on
         /\ server'.pod[p].rule = server.pod[p].rule \union plan.rules[p]
<1>1. /\ TypeOK /\ HeldOK /\ SetRules(p) /\ UNCHANGED <<cache, plan>>
      /\ p \in Pod \intersect todo \intersect fresh
  BY DEF AddRules, AddRulesUnanswered, Turn, GoOn, Answered, reading, SafeInv
<1>2. PICK r \in PodStates : /\ Store(p, WithPod(server, p, r)) /\ UNCHANGED status
                             /\ r.st = server.pod[p].st /\ r.on = server.pod[p].on
                             /\ r.rule = server.pod[p].rule \union plan.rules[p]
  BY <1>1, SetRulesIs
<1>3. server.pod[p].st = "gated"
  BY <1>1 DEF HeldOK, HasGate
<1>4. /\ \A q \in Pod \ {p} : server'.pod[q] = server.pod[q]
      /\ \A n \in Node : server'.node[n] = server.node[n]
      /\ server'.pod[p] = r
  BY <1>1, <1>2, <1>3, AddedRules, PodWriteSafe
<1> QED BY <1>2, <1>3, <1>4

\* What the second one does.
LEMMA GateEffect ==
  ASSUME SafeInv, NEW p \in Pod, RemoveGate(p)
  PROVE  /\ \A q \in Pod \ {p} : server'.pod[q] = server.pod[q]
         /\ \A n \in Node : server'.node[n] = server.node[n]
         /\ server.pod[p].st = "gated" /\ server'.pod[p].st = "pending"
         /\ server'.pod[p].on = server.pod[p].on
         /\ server'.pod[p].rule = server.pod[p].rule
<1>1. /\ TypeOK /\ HeldOK /\ Ungated(p) /\ UNCHANGED <<cache, plan>>
      /\ p \in Pod \intersect todo \intersect fresh
      /\ (server.pod[p].rule # {} => Steerable(p))
  BY DEF RemoveGate, Turn, GoOn, reading, SafeInv, PodsOK, PodOK
<1>2. PICK r \in PodStates : /\ Store(p, WithPod(server, p, r)) /\ UNCHANGED status
                             /\ r.st = "pending" /\ r.on = server.pod[p].on
                             /\ r.rule = server.pod[p].rule
  BY <1>1, UngatedIs
<1>3. server.pod[p].st = "gated"
  BY <1>1 DEF HeldOK, HasGate
<1>4. /\ \A q \in Pod \ {p} : server'.pod[q] = server.pod[q]
      /\ \A n \in Node : server'.node[n] = server.node[n]
      /\ server'.pod[p] = r
  BY <1>1, <1>2, PodWriteSafe
<1> QED BY <1>2, <1>3, <1>4

\* "Concurrent writers are not lost": the reconciler never changes a taint of others.
THEOREM OthersTaintsAreKept == Spec => OthersTaintsKept
<1>1. SafeInv /\ Reconcile =>
        \A n \in Node : server'.node[n].taints = server.node[n].taints
  <2> SUFFICES ASSUME SafeInv, Reconcile, NEW n \in Node
               PROVE  server'.node[n].taints = server.node[n].taints
    OBVIOUS
  <2>1. CASE UNCHANGED server
    BY <2>1
  <2>2. CASE \E m \in Node : /\ SetLabel(m, plan.label[m]) /\ UNCHANGED <<cache, plan>>
                             /\ plan.label[m] \in Label
    BY <2>2, LabelEffect
  <2>3. CASE \E m \in Node : PatchTaint(m)
    <3>1. PICK m \in Node : PatchTaint(m)
      BY <2>3
    <3> QED BY <3>1, TaintEffect
  <2>4. CASE \E p \in Pod : AddRules(p) \/ AddRulesUnanswered(p)
    <3>1. PICK p \in Pod : AddRules(p) \/ AddRulesUnanswered(p)
      BY <2>4
    <3> QED BY <3>1, RulesEffect
  <2>5. CASE \E p \in Pod : RemoveGate(p)
    <3>1. PICK p \in Pod : RemoveGate(p)
      BY <2>5
    <3> QED BY <3>1, GateEffect
  <2> QED BY <2>1, <2>2, <2>3, <2>4, <2>5, ReconcileWrites
<1>2. SafeInv /\ [Next]_vars =>
        [Reconcile => \A n \in Node : server'.node[n].taints = server.node[n].taints]_vars
  BY <1>1
<1> QED BY <1>2, Invariance, PTL DEF Spec, OthersTaintsKept

\* What changes a pod.
LEMMA PodChanged ==
  ASSUME SafeInv, [Next]_vars, NEW p \in Pod, server'.pod[p] # server.pod[p]
  PROVE  Event(p) \/ AddRules(p) \/ AddRulesUnanswered(p) \/ RemoveGate(p)
<1>1. TypeOK
  BY DEF SafeInv
<1>3. CASE Workload
  <2>1. PICK q \in Pod, r \in PodStates : Event(q) /\ PodEvent(q, r)
    BY <1>1, <1>3, WorkloadIs
  <2>2. server' = WithPod(server, q, r)
    BY <2>1 DEF PodEvent, PodChange, Change, Store, WithPod
  <2>3. OnlyAt(q, server')
    BY <1>1, <2>2, OnlyAtPod
  <2>4. q = p
    BY <2>3 DEF OnlyAt
  <2> QED BY <2>1, <2>4
<1>4. CASE Machines
  <2>1. PICK n \in Node, r \in NodeStates : NodeEvent(n, r)
    BY <1>1, <1>4, MachinesAre
  <2>2. server' = WithNode(server, n, r)
    BY <2>1 DEF NodeEvent, NodeChange, Change, Store, WithNode
  <2>3. OnlyAt(n, server')
    BY <1>1, <2>2, OnlyAtNode
  <2> QED BY <2>3, Kinds DEF OnlyAt
<1>5. CASE \E m \in Methods : EditMethod(m)
  <2>1. PICK m \in Methods : server' = [server EXCEPT !.method = m]
    BY <1>5 DEF EditMethod, Change, Store
  <2>2. server'.pod = server.pod
    BY <1>1, <2>1, WithMethodIs DEF TypeOK
  <2> QED BY <2>2
<1>6. CASE Deliver \/ Resync \/ Crash \/ UNCHANGED vars
  BY <1>6 DEF Deliver, DeliverPods, DeliverNodes, DeliverSequence, Resync, Crash, vars
<1>7. CASE LatePatch
  <2>1. PICK patch \in late : \/ UNCHANGED server
                              \/ SetLabel(patch[1], patch[2]) /\ UNCHANGED <<cache, plan>>
    BY <1>7 DEF LatePatch, Unstored, reading
  <2>2. patch[1] \in Node /\ patch[2] \in Label
    BY <1>1 DEF TypeOK
  <2> QED BY <2>1, <2>2, LabelEffect
<1>8. CASE Reconcile
  <2>1. CASE UNCHANGED server
    BY <2>1
  <2>2. CASE \E m \in Node : /\ SetLabel(m, plan.label[m]) /\ UNCHANGED <<cache, plan>>
                             /\ plan.label[m] \in Label
    BY <2>2, LabelEffect
  <2>3. CASE \E m \in Node : PatchTaint(m)
    BY <2>3, TaintEffect
  <2>4. CASE \E q \in Pod : AddRules(q) \/ AddRulesUnanswered(q)
    <3>1. PICK q \in Pod : AddRules(q) \/ AddRulesUnanswered(q)
      BY <2>4
    <3> QED BY <3>1, RulesEffect
  <2>5. CASE \E q \in Pod : RemoveGate(q)
    <3>1. PICK q \in Pod : RemoveGate(q)
      BY <2>5
    <3> QED BY <3>1, GateEffect
  <2> QED BY <1>8, <2>1, <2>2, <2>3, <2>4, <2>5, ReconcileWrites
<1> QED BY <1>3, <1>4, <1>5, <1>6, <1>7, <1>8 DEF Next

\* Only one step removes the gate of a pod that goes on to live.
LEMMA GateLost ==
  ASSUME SafeInv, [Next]_vars, NEW p \in Pod, LosesGate(p)
  PROVE  RemoveGate(p)
<1>1. /\ server.pod[p].st = "gated" /\ server'.pod[p].st # "gated" /\ server'.pod[p] # NoPod
      /\ TypeOK
  BY DEF LosesGate, HasGate, SafeInv
<1>2. ~Event(p)
  <2> SUFFICES ASSUME Event(p) PROVE FALSE
    OBVIOUS
  <2>1. PICK r \in PodStates : PodEvent(p, r)
    BY <1>1, EventIs
  <2>2. server' = WithPod(server, p, r) /\ r = NoPod
    BY <1>1, <2>1 DEF PodEvent, PodChange, Change, Store, WithPod
  <2>3. server'.pod[p] = r
    BY <1>1, <2>2, OnlyAtPod
  <2> QED BY <1>1, <2>2, <2>3
<1>3. ~AddRules(p) /\ ~AddRulesUnanswered(p)
  BY <1>1, RulesEffect
<1> QED BY <1>1, <1>2, <1>3, PodChanged

\* Between its two patches a pod of a later group never goes without its placement rules,
\* whatever fails there.
THEOREM RulesComeFirst == Spec => RulesBeforeGate
<1>1. SafeInv /\ [Next]_vars =>
        \A p \in Pod \ Bypassed :
          LosesGate(p) /\ TargetNode(server, p) = None /\ GroupIndexForPod[p] >= 1
             => server.pod[p].rule # {}
  <2> SUFFICES ASSUME SafeInv, [Next]_vars, NEW p \in Pod \ Bypassed, LosesGate(p),
                      TargetNode(server, p) = None, GroupIndexForPod[p] >= 1
               PROVE  server.pod[p].rule # {}
    OBVIOUS
  <2>1. RemoveGate(p) /\ HeldOK
    BY GateLost DEF SafeInv
  <2>2. p \in Pod \intersect todo \intersect fresh /\ (held = p \/ plan.rules[p] = {})
    BY <2>1 DEF RemoveGate, Turn, RulesDue
  <2> QED BY <2>1, <2>2 DEF HeldOK, ToSteer
<1>2. SafeInv /\ [Next]_vars =>
        [\A p \in Pod \ Bypassed :
          LosesGate(p) /\ TargetNode(server, p) = None /\ GroupIndexForPod[p] >= 1
             => server.pod[p].rule # {}]_vars
  BY <1>1
<1> QED BY <1>2, Invariance, PTL DEF Spec, RulesBeforeGate

-----------------------------------------------------------------------------
(* Order: what the caches show together, though they lag apart.            *)

\* No DaemonSet of the sequence stays off a node because of these taints.
Bearable(taints) ==
    \A d \in DaemonSet :
        Selects[d] # {} => taints \subseteq Tolerates[d] \union {"transient", "pressure"}

\* What others put on nodes is of that kind.  With any other taint, pods and nodes of two
\* moments may show a group as satisfied that was so at none.
OthersTaintsAreBearable == Bearable(Foreign)

\* A group counts as satisfied only on pods that were there at one moment.
EarnedOK ==
    \A p \in Pod, n \in Node :
        /\ /\ HasGate(server, p) /\ TargetNode(server, p) = n
           /\ Satisfied(server, n) >= GroupIndexForPod[p]
           => p \in earned
        /\ /\ p \in cur /\ HasGate(cache, p) /\ TargetNode(cache, p) = n
           /\ Satisfied(cache, n) >= GroupIndexForPod[p]
           => p \in earned
        /\ /\ p \in todo /\ p \in fresh /\ p \notin Bypassed
           /\ TargetNode(server, p) = n /\ view[n].st = "in"
           => p \in earned

\* A label or taint promises no more than has been.
PromisedBy(n, t) == t = Unset \/ t <= reached[n]
Promised(n, l)   == l = ReleasedLabelValue \/ PromisedBy(n, l)

ReachedOK ==
    /\ \A n \in Node :
          /\ Satisfied(server, n) <= reached[n] /\ Satisfied(cache, n) <= reached[n]
          /\ Promised(n, server.node[n].label) /\ Promised(n, plan.label[n])
          /\ PromisedBy(n, server.node[n].taint) /\ PromisedBy(n, plan.taint[n])
    /\ \A patch \in late : Promised(patch[1], patch[2])

KnownTaintsOK ==
    \A n \in Node : Bearable(server.node[n].taints) /\ Bearable(cache.node[n].taints)

OrderInv == EarnedOK /\ ReachedOK /\ KnownTaintsOK

\* With bearable taints what is satisfied on a node depends on the pods only.
LEMMA SatisfiedByPods ==
  ASSUME NEW v \in Clusters, NEW w \in Clusters, NEW n \in Node,
         \A p \in Pod : v.pod[p] = w.pod[p],
         Bearable(v.node[n].taints), Bearable(w.node[n].taints)
  PROVE  Satisfied(v, n) = Satisfied(w, n)
<1>1. ASSUME NEW u \in Clusters, Bearable(u.node[n].taints), NEW d \in DaemonSet, Selects[d] # {}
      PROVE  DaemonSetExpectedOnNode(u, d, n) <=> n \in RunsOn[d]
  <2>1. u.node[n].taints \subseteq Tolerates[d] \union {"transient", "pressure"}
    BY <1>1 DEF Bearable
  <2>2. TaintsOn(u, n) \ {"own", "transient"} \subseteq Tolerates[d] \union {"pressure"}
    BY <2>1 DEF TaintsOn
  <2> QED BY <2>2 DEF DaemonSetExpectedOnNode, RunsDespite
<1>2. \A d \in DaemonSet : Selects[d] # {} =>
         (DaemonSetExpectedOnNode(v, d, n) <=> DaemonSetExpectedOnNode(w, d, n))
  BY <1>1
<1>3. v.ds = DaemonSet /\ w.ds = DaemonSet
  BY ClusterParts
<1>4. ASSUME NEW g \in Group
      PROVE  /\ PodsHere(v, n, g) = PodsHere(w, n, g)
             /\ \A p \in PodsHere(v, n, g) : v.pod[p] = w.pod[p]
             /\ DaemonSetsForGroup(v, g) = DaemonSetsForGroup(w, g)
             /\ \A d \in DaemonSetsForGroup(v, g) : d \in DaemonSet /\ Selects[d] # {}
  BY <1>3 DEF PodsHere, IsActive, TargetNode, DaemonSetsForGroup
<1>5. ASSUME NEW g \in Group
      PROVE  GroupSatisfiedOnNode(v, n, g) <=> GroupSatisfiedOnNode(w, n, g)
  <2>1. Running(v, n, g) <=> Running(w, n, g)
    BY <1>2, <1>4, <1>5 DEF Running
  <2>2. \A p \in PodsHere(v, n, g) : ReadyRemaining(v, p, Wait[g]) = ReadyRemaining(w, p, Wait[g])
    BY <1>4, <1>5 DEF ReadyRemaining
  <2> QED BY <1>4, <1>5, <2>1, <2>2 DEF GroupSatisfiedOnNode
<1> QED BY <1>5, SatisfiedSame

\* What the history makes of a step.
LEMMA HistoryStep ==
  ASSUME SafeInv, [Next]_vars
  PROVE  \/ UNCHANGED <<server, earned, reached>> /\ (Deliver \/ Crash \/ cur' \subseteq cur)
         \/ /\ \A p \in Pod : HasGate(server', p) =>
                 (p \in earned' <=> \/ p \in earned
                                    \/ \E n \in Node : /\ TargetNode(server', p) = n
                                                       /\ Satisfied(server', n) >= GroupIndexForPod[p])
            /\ \A n \in Node : reached[n] <= reached'[n] /\ Satisfied(server', n) <= reached'[n]
            /\ cache' = cache /\ cur' \subseteq cur
<1> DEFINE Goal ==
         /\ \A p \in Pod : HasGate(server', p) =>
              (p \in earned' <=> \/ p \in earned
                                 \/ \E n \in Node : /\ TargetNode(server', p) = n
                                                    /\ Satisfied(server', n) >= GroupIndexForPod[p])
         /\ \A n \in Node : reached[n] <= reached'[n] /\ Satisfied(server', n) <= reached'[n]
         /\ cache' = cache /\ cur' \subseteq cur
<1>1. TypeOK
  BY DEF SafeInv
<1>2. ASSUME NEW o \in Objects, NEW s \in Clusters, Store(o, s), cache' = cache
      PROVE  Goal
  <2>1. /\ server' = s /\ cur' \subseteq cur
        /\ \A n \in Node : reached[n] <= reached'[n] /\ Satisfied(s, n) <= reached'[n]
    BY <1>1, <1>2, StoreIs
  <2>2. \A p : p \in earned' <=> /\ p \in Pod /\ HasGate(s, p)
                                 /\ \/ p \in earned
                                    \/ \E n \in Node : /\ TargetNode(s, p) = n
                                                       /\ Satisfied(s, n) >= GroupIndexForPod[p]
    BY <1>1, <1>2, StoreIs
  <2> QED BY <1>2, <2>1, <2>2
<1> HIDE DEF Goal
<1>3. CASE Workload
  <2>1. PICK p \in Pod, r \in PodStates : PodEvent(p, r)
    BY <1>1, <1>3, WorkloadIs
  <2>2. Store(p, WithPod(server, p, r)) /\ cache' = cache
    BY <2>1 DEF PodEvent, PodChange, Change, WithPod
  <2>3. WithPod(server, p, r) \in Clusters /\ p \in Objects
    BY <1>1, OnlyAtPod, PassTypes
  <2> QED BY <1>2, <2>2, <2>3 DEF Goal
<1>4. CASE Machines
  <2>1. PICK n \in Node, r \in NodeStates : NodeEvent(n, r)
    BY <1>1, <1>4, MachinesAre
  <2>2. Store(n, WithNode(server, n, r)) /\ cache' = cache
    BY <2>1 DEF NodeEvent, NodeChange, Change, WithNode
  <2>3. WithNode(server, n, r) \in Clusters /\ n \in Objects
    BY <1>1, OnlyAtNode, PassTypes
  <2> QED BY <1>2, <2>2, <2>3 DEF Goal
<1>5. CASE \E m \in Methods : EditMethod(m)
  <2>1. PICK m \in Methods : Store(Sequence, [server EXCEPT !.method = m]) /\ cache' = cache
    BY <1>5 DEF EditMethod, Change
  <2>2. [server EXCEPT !.method = m] \in Clusters /\ Sequence \in Objects
    BY <1>1, WithMethodIs DEF TypeOK, Objects
  <2> QED BY <1>2, <2>1, <2>2 DEF Goal
<1>6. CASE Deliver \/ Resync \/ Crash \/ UNCHANGED vars
  BY <1>6 DEF Deliver, DeliverPods, DeliverNodes, DeliverSequence, Resync, Crash, vars, history
<1>7. ASSUME NEW n \in Node, NEW l \in Label, SetLabel(n, l), cache' = cache
      PROVE  Goal
  <2>1. PICK r \in NodeStates : Store(n, WithNode(server, n, r))
    BY <1>1, <1>7, SetLabelIs
  <2>2. WithNode(server, n, r) \in Clusters /\ n \in Objects
    BY <1>1, OnlyAtNode, PassTypes
  <2> QED BY <1>2, <1>7, <2>1, <2>2 DEF Goal
<1>8. CASE LatePatch
  <2>1. PICK patch \in late : \/ UNCHANGED <<server, cur, earned, reached>>
                              \/ SetLabel(patch[1], patch[2]) /\ cache' = cache
    BY <1>8 DEF LatePatch, Unstored, history
  <2>2. patch[1] \in Node /\ patch[2] \in Label
    BY <1>1 DEF TypeOK
  <2> QED BY <1>7, <2>1, <2>2 DEF Goal
<1>9. CASE Reconcile
  <2>1. ASSUME NEW n \in Node, PatchTaint(n) PROVE Goal
    <3>1. SetTaint(n) /\ cache' = cache
      BY <2>1 DEF PatchTaint, GoOn
    <3>2. PICK r \in NodeStates : Store(n, WithNode(server, n, r))
      BY <1>1, <3>1, SetTaintIs
    <3>3. WithNode(server, n, r) \in Clusters /\ n \in Objects
      BY <1>1, OnlyAtNode, PassTypes
    <3> QED BY <1>2, <3>1, <3>2, <3>3
  <2>2. ASSUME NEW p \in Pod, AddRules(p) \/ AddRulesUnanswered(p) \/ RemoveGate(p) PROVE Goal
    <3>1. cache' = cache /\ (SetRules(p) \/ Ungated(p))
      BY <2>2 DEF AddRules, AddRulesUnanswered, RemoveGate, Answered, GoOn
    <3>2. PICK r \in PodStates : Store(p, WithPod(server, p, r))
      BY <1>1, <3>1, SetRulesIs, UngatedIs
    <3>3. WithPod(server, p, r) \in Clusters /\ p \in Objects
      BY <1>1, OnlyAtPod, PassTypes
    <3> QED BY <1>2, <3>1, <3>2, <3>3
  <2> QED BY <1>7, <1>9, <2>1, <2>2, ReconcileWrites DEF Goal
<1> QED BY <1>3, <1>4, <1>5, <1>6, <1>8, <1>9 DEF Next, Goal

\* Where a node's label, taint and other taints come from.
LEMMA NodeStep ==
  ASSUME SafeInv, [Next]_vars, NEW n \in Node
  PROVE  /\ server'.node[n].taints \subseteq server.node[n].taints \union Foreign
         /\ \/ server'.node[n].label \in {Unset, server.node[n].label, plan.label[n]}
            \/ <<n, server'.node[n].label>> \in late
         /\ server'.node[n].taint \in {Unset, server.node[n].taint, plan.taint[n]}
<1> DEFINE Goal == /\ server'.node[n].taints \subseteq server.node[n].taints \union Foreign
                   /\ \/ server'.node[n].label \in {Unset, server.node[n].label, plan.label[n]}
                      \/ <<n, server'.node[n].label>> \in late
                   /\ server'.node[n].taint \in {Unset, server.node[n].taint, plan.taint[n]}
<1>1. TypeOK
  BY DEF SafeInv
<1>2. CASE server'.node[n] = server.node[n]
  BY <1>2
<1>3. CASE Workload
  <2>1. PICK p \in Pod, r \in PodStates : PodEvent(p, r)
    BY <1>1, <1>3, WorkloadIs
  <2>2. server' = WithPod(server, p, r)
    BY <2>1 DEF PodEvent, PodChange, Change, Store, WithPod
  <2>3. OnlyAt(p, server')
    BY <1>1, <2>2, OnlyAtPod
  <2> QED BY <1>2, <2>3, Kinds DEF OnlyAt
<1>4. CASE Machines
  <2>1. PICK m \in Node, r \in NodeStates : NodeEvent(m, r)
    BY <1>1, <1>4, MachinesAre
  <2>2. server' = WithNode(server, m, r)
    BY <2>1 DEF NodeEvent, NodeChange, Change, Store, WithNode
  <2>3. OnlyAt(m, server') /\ server'.node[m] = r
    BY <1>1, <2>2, OnlyAtNode
  <2>4. CASE m = n
    BY <2>1, <2>3, <2>4 DEF NodeEvent
  <2> QED BY <1>2, <2>3, <2>4 DEF OnlyAt
<1>5. CASE \E m \in Methods : EditMethod(m)
  <2>1. PICK m \in Methods : server' = [server EXCEPT !.method = m]
    BY <1>5 DEF EditMethod, Change, Store
  <2>2. server'.node = server.node
    BY <1>1, <2>1, WithMethodIs DEF TypeOK
  <2> QED BY <1>2, <2>2
<1>6. CASE Deliver \/ Resync \/ Crash \/ UNCHANGED vars
  BY <1>2, <1>6 DEF Deliver, DeliverPods, DeliverNodes, DeliverSequence, Resync, Crash, vars
<1>7. CASE LatePatch
  <2>1. PICK patch \in late : \/ UNCHANGED server
                              \/ SetLabel(patch[1], patch[2]) /\ UNCHANGED <<cache, plan>>
    BY <1>7 DEF LatePatch, Unstored, reading
  <2>2. PICK m \in Node, l \in Label : patch = <<m, l>>
    BY <1>1 DEF TypeOK
  <2>3. CASE UNCHANGED server
    BY <1>2, <2>3
  <2>4. CASE SetLabel(m, l) /\ UNCHANGED <<cache, plan>>
    <3>1. CASE m = n
      BY <2>1, <2>2, <2>4, <3>1, LabelEffect
    <3>2. CASE m # n
      BY <1>2, <2>4, <3>2, LabelEffect
    <3> QED BY <3>1, <3>2
  <2> QED BY <2>1, <2>2, <2>3, <2>4
<1>8. CASE Reconcile
  <2>1. CASE UNCHANGED server
    BY <1>2, <2>1
  <2>2. ASSUME NEW m \in Node, SetLabel(m, plan.label[m]), UNCHANGED <<cache, plan>>,
               plan.label[m] \in Label
        PROVE  Goal
    <3>1. CASE m = n
      BY <2>2, <3>1, LabelEffect
    <3>2. CASE m # n
      BY <1>2, <2>2, <3>2, LabelEffect
    <3> QED BY <3>1, <3>2
  <2>3. ASSUME NEW m \in Node, PatchTaint(m) PROVE Goal
    <3>1. CASE m = n
      BY <2>3, <3>1, TaintEffect
    <3>2. CASE m # n
      BY <1>2, <2>3, <3>2, TaintEffect
    <3> QED BY <3>1, <3>2
  <2>4. ASSUME NEW p \in Pod, AddRules(p) \/ AddRulesUnanswered(p) PROVE Goal
    BY <1>2, <2>4, RulesEffect
  <2>5. ASSUME NEW p \in Pod, RemoveGate(p) PROVE Goal
    BY <1>2, <2>5, GateEffect
  <2> HIDE DEF Goal
  <2>6. Goal
    BY <1>8, <2>1, <2>2, <2>3, <2>4, <2>5, ReconcileWrites DEF Goal
  <2> QED BY <2>6 DEF Goal
<1> QED BY <1>3, <1>4, <1>5, <1>6, <1>7, <1>8 DEF Next

\* A reconcile begins, has ended, or goes on with what it has read.
LEMMA PassStep ==
  ASSUME SafeInv, [Next]_vars
  PROVE  \/ Begin
         \/ todo' = {} /\ plan' = NoPlan
         \/ todo' \subseteq todo /\ view' = view /\ plan' = plan
            /\ fresh' \subseteq fresh \union Node
<1>1. CASE Workload \/ Machines \/ \E m \in Methods : EditMethod(m)
  BY <1>1 DEF Workload, Machines, EditMethod, Create, Delete, BecomeUnready, Bind, BecomeReady,
              Join, Leave, Retaint, PodChange, NodeChange, Change, reading, writing
<1>2. CASE Deliver \/ Resync \/ UNCHANGED vars
  BY <1>2 DEF Deliver, DeliverPods, DeliverNodes, DeliverSequence, Resync, vars, reading, writing
<1>3. CASE LatePatch
  BY <1>3 DEF LatePatch, reading, writing, Unstored
<1>4. CASE KeepStatus \/ WriteStatus \/ StatusFails \/ Crash
  BY <1>4 DEF KeepStatus, WriteStatus, StatusFails, Crash, Return, Finish
<1>5. ASSUME NEW n \in Node,
             \/ PatchLabel(n) \/ PatchLabelNotFound(n) \/ PatchLabelUnanswered(n)
             \/ PatchTaint(n) \/ KeepNode(n)
      PROVE  todo' \subseteq todo /\ view' = view /\ plan' = plan
             /\ fresh' \subseteq fresh \union Node
  BY <1>5 DEF PatchLabel, PatchLabelNotFound, PatchLabelUnanswered, PatchTaint, KeepNode, GoOn,
              Answered, reading
<1>6. ASSUME NEW p \in Pod, AddRules(p) \/ AddRulesUnanswered(p) \/ RemoveGate(p)
      PROVE  todo' \subseteq todo /\ view' = view /\ plan' = plan
             /\ fresh' \subseteq fresh \union Node
  BY <1>6 DEF AddRules, AddRulesUnanswered, RemoveGate, GoOn, Answered, reading
<1>7. ASSUME NEW o \in Node \union Pod, NotFound(o) \/ Conflict(o) \/ PatchFails(o)
      PROVE  todo' \subseteq todo /\ view' = view /\ plan' = plan
             /\ fresh' \subseteq fresh \union Node
  BY <1>7 DEF NotFound, Conflict, PatchFails, GoOn, reading
<1> QED BY <1>1, <1>2, <1>3, <1>4, <1>5, <1>6, <1>7 DEF Next, Reconcile

\* Only a label patch is ever late.
LEMMA LateStep ==
  ASSUME SafeInv, [Next]_vars, NEW patch \in late'
  PROVE  patch \in late \/ \E n \in Node : patch = <<n, plan.label[n]>>
<1>1. CASE Workload \/ Machines \/ \E m \in Methods : EditMethod(m)
  BY <1>1 DEF Workload, Machines, EditMethod, Create, Delete, BecomeUnready, Bind, BecomeReady,
              Join, Leave, Retaint, PodChange, NodeChange, Change
<1>2. CASE Deliver \/ Resync \/ LatePatch \/ Crash \/ UNCHANGED vars
  BY <1>2 DEF Deliver, DeliverPods, DeliverNodes, DeliverSequence, Resync, LatePatch, Crash, vars
<1>3. CASE Begin \/ KeepStatus \/ WriteStatus \/ StatusFails
  BY <1>3 DEF Begin, KeepStatus, WriteStatus, StatusFails, Return
<1>4. ASSUME NEW n \in Node,
             \/ PatchLabel(n) \/ PatchLabelNotFound(n) \/ PatchLabelUnanswered(n)
             \/ PatchTaint(n) \/ KeepNode(n)
      PROVE  patch \in late \/ \E m \in Node : patch = <<m, plan.label[m]>>
  BY <1>4 DEF PatchLabel, PatchLabelNotFound, PatchLabelUnanswered, PatchTaint, KeepNode,
              Answered
<1>5. ASSUME NEW p \in Pod, AddRules(p) \/ AddRulesUnanswered(p) \/ RemoveGate(p)
      PROVE  patch \in late
  BY <1>5 DEF AddRules, AddRulesUnanswered, RemoveGate, Answered
<1>6. ASSUME NEW o \in Node \union Pod, NotFound(o) \/ Conflict(o) \/ PatchFails(o)
      PROVE  patch \in late
  BY <1>6 DEF NotFound, Conflict, PatchFails
<1> QED BY <1>1, <1>2, <1>3, <1>4, <1>5, <1>6 DEF Next, Reconcile

\* Where what the cache holds comes from.
LEMMA CacheStep ==
  ASSUME SafeInv, [Next]_vars
  PROVE  /\ \/ \A p \in Pod : cache'.pod[p] = cache.pod[p]
            \/ \A p \in Pod : cache'.pod[p] = server.pod[p]
         /\ \A n \in Node : cache'.node[n] \in {cache.node[n], server.node[n]}
         /\ cache' # cache => server' = server
         /\ \A p \in Pod \intersect cur' : p \in cur \/ (\A q \in Pod : cache'.pod[q] = server.pod[q])
<1>1. cache \in Clusters /\ server \in Clusters /\ TypeOK
  BY DEF SafeInv, TypeOK
<1>2. CASE Deliver
  <2>1. CASE DeliverPods
    <3>1. cache'.pod = server.pod /\ cache'.node = cache.node /\ server' = server
      BY <1>1, <2>1 DEF DeliverPods, Clusters
    <3> QED BY <3>1
  <2>2. CASE DeliverNodes
    <3>1. cache'.pod = cache.pod /\ cache'.node = server.node /\ server' = server
          /\ cur' = cur \union Node
      BY <1>1, <2>2 DEF DeliverNodes, Clusters
    <3> QED BY <3>1, Kinds
  <2>3. CASE DeliverSequence
    <3>1. cache'.pod = cache.pod /\ cache'.node = cache.node /\ server' = server
          /\ cur' = cur \union {Sequence}
      BY <1>1, <2>3 DEF DeliverSequence, Clusters
    <3> QED BY <3>1, Kinds
  <2> QED BY <1>2, <2>1, <2>2, <2>3 DEF Deliver
<1>3. CASE Crash
  BY <1>3 DEF Crash
<1>4. CASE ~Deliver /\ ~Crash
  <2>1. cache' = cache
    BY <1>4 DEF Next, Workload, Machines, EditMethod, Create, Delete, BecomeUnready, Bind, BecomeReady,
              Join, Leave, Retaint, PodChange, NodeChange, Change, Resync, LatePatch, vars,
              Reconcile, Begin, KeepStatus, WriteStatus, StatusFails, Return,
              PatchLabel, PatchLabelNotFound, PatchLabelUnanswered, PatchTaint, KeepNode,
              AddRules, AddRulesUnanswered, RemoveGate, NotFound, Conflict, PatchFails,
              Answered, GoOn
  <2>2. cur' \subseteq cur
    BY <1>4, HistoryStep
  <2> QED BY <2>1, <2>2
<1> QED BY <1>2, <1>3, <1>4

\* No promise is broken by a step.
LEMMA ReachedStep ==
  ASSUME SafeInv, SafeInv', OrderInv, [Next]_vars
  PROVE  \A n \in Node : /\ reached[n] \in Nat /\ reached'[n] \in Nat
                         /\ reached[n] <= reached'[n] /\ Satisfied(server', n) <= reached'[n]
                         /\ \A l \in Label : Promised(n, l) => Promised(n, l)'
                         /\ \A t \in Group \union {Unset} : PromisedBy(n, t) => PromisedBy(n, t)'
<1>1. /\ reached \in [Node -> 0 .. NumGroups] /\ reached' \in [Node -> 0 .. NumGroups]
      /\ NumGroups \in Nat
  BY PlanAssumption DEF SafeInv, TypeOK, PlanAssumption
<1>2. \A n \in Node : reached[n] <= reached'[n] /\ Satisfied(server', n) <= reached'[n]
  <2>1. CASE UNCHANGED <<server, earned, reached>>
    BY <1>1, <2>1 DEF OrderInv, ReachedOK
  <2>2. CASE ~UNCHANGED <<server, earned, reached>>
    BY <2>2, HistoryStep
  <2> QED BY <2>1, <2>2
<1>3. Label \subseteq Int /\ Group \union {Unset} \subseteq Int
  BY <1>1 DEF Label, Group, Unset, ReleasedLabelValue
<1>4. ASSUME NEW n \in Node, NEW t \in Int, PromisedBy(n, t) PROVE PromisedBy(n, t)'
  BY <1>1, <1>2, <1>4 DEF PromisedBy
<1>5. ASSUME NEW n \in Node, NEW l \in Label, Promised(n, l) PROVE Promised(n, l)'
  BY <1>3, <1>4, <1>5 DEF Promised
<1> QED BY <1>1, <1>2, <1>3, <1>4, <1>5

\* What is satisfied according to the cache after a step was so before, there or in truth.
LEMMA CachedSatisfied ==
  ASSUME SafeInv, SafeInv', KnownTaintsOK, KnownTaintsOK', [Next]_vars, NEW n \in Node
  PROVE  /\ (\A p \in Pod : cache'.pod[p] = cache.pod[p])
               => Satisfied(cache', n) = Satisfied(cache, n)
         /\ (\A p \in Pod : cache'.pod[p] = server.pod[p])
               => Satisfied(cache', n) = Satisfied(server, n)
         /\ Satisfied(cache', n) \in {Satisfied(cache, n), Satisfied(server, n)}
<1>1. cache \in Clusters /\ cache' \in Clusters /\ server \in Clusters
  BY DEF SafeInv, TypeOK
<1>2. Bearable(cache'.node[n].taints) /\ Bearable(cache.node[n].taints)
      /\ Bearable(server.node[n].taints)
  BY DEF KnownTaintsOK
<1>3. (\A p \in Pod : cache'.pod[p] = cache.pod[p]) => Satisfied(cache', n) = Satisfied(cache, n)
  BY <1>1, <1>2, SatisfiedByPods
<1>4. (\A p \in Pod : cache'.pod[p] = server.pod[p]) => Satisfied(cache', n) = Satisfied(server, n)
  BY <1>1, <1>2, SatisfiedByPods
<1> QED BY <1>3, <1>4, CacheStep

\* A plan promises what the cache shows.
LEMMA PlanPromises ==
  ASSUME SafeInv, OrderInv, NEW n \in Node
  PROVE  /\ Promised(n, Plan(cache).label[n]) /\ PromisedBy(n, Plan(cache).taint[n])
         /\ Promised(n, NoPlan.label[n]) /\ PromisedBy(n, NoPlan.taint[n])
<1>1. Satisfied(cache, n) <= reached[n]
  BY DEF OrderInv, ReachedOK
<1>2. Promised(n, Plan(cache).label[n]) /\ PromisedBy(n, Plan(cache).taint[n])
  BY <1>1 DEF Plan, WantLabel, WantTaint, Promised, PromisedBy
<1>3. Cluster.method = "NodeLabel" /\ Cluster.node[n].st = "absent"
  BY DEF Cluster, NoView, NoNode
<1>4. NoPlan.label[n] = Unset /\ NoPlan.taint[n] = Unset
  BY <1>3 DEF NoPlan, Plan, WantLabel, WantTaint, Participating
<1> QED BY <1>2, <1>4 DEF Promised, PromisedBy

\* Taints stay bearable.
LEMMA KnownTaintsStep ==
  ASSUME SafeInv, KnownTaintsOK, OthersTaintsAreBearable, [Next]_vars
  PROVE  KnownTaintsOK'
<1> SUFFICES ASSUME NEW n \in Node
             PROVE  Bearable(server'.node[n].taints) /\ Bearable(cache'.node[n].taints)
  BY DEF KnownTaintsOK
<1>1. Bearable(server'.node[n].taints)
  BY NodeStep DEF KnownTaintsOK, OthersTaintsAreBearable, Bearable
<1>2. cache'.node[n] \in {cache.node[n], server.node[n]}
  BY CacheStep
<1> QED BY <1>1, <1>2 DEF KnownTaintsOK

\* Labels and taints keep promising no more than has been.
LEMMA PromisesStep ==
  ASSUME SafeInv, SafeInv', OrderInv, KnownTaintsOK', [Next]_vars
  PROVE  ReachedOK'
<1>1. \A n \in Node : /\ server.node[n].label \in Label /\ plan.label[n] \in Label
                      /\ server.node[n].taint \in Group \union {Unset}
                      /\ plan.taint[n] \in Group \union {Unset}
                      /\ Plan(cache).label[n] \in Label /\ NoPlan.label[n] \in Label
                      /\ Plan(cache).taint[n] \in Group \union {Unset}
                      /\ NoPlan.taint[n] \in Group \union {Unset}
  <2>1. TypeOK /\ cache \in Clusters /\ server \in Clusters
    BY DEF SafeInv, TypeOK
  <2>2. Plan(cache) \in Plans /\ NoPlan \in Plans
    BY <2>1, PlanType, Empties
  <2>3. \A n \in Node : /\ plan.label[n] \in Label /\ plan.taint[n] \in Group \union {Unset}
                        /\ server.node[n] \in NodeStates
    BY <2>1, PassTypes, ClusterParts
  <2> QED BY <2>2, <2>3 DEF Plans, NodeStates
<1>2. \A patch \in late : patch[1] \in Node /\ patch[2] \in Label
  BY DEF SafeInv, TypeOK
<1>3. ASSUME NEW n \in Node
      PROVE  Satisfied(server', n) <= reached'[n] /\ Satisfied(cache', n) <= reached'[n]
  <2>1. Satisfied(cache', n) \in {Satisfied(cache, n), Satisfied(server, n)}
    BY CachedSatisfied DEF OrderInv
  <2>2. Satisfied(cache', n) <= reached[n]
    BY <2>1 DEF OrderInv, ReachedOK
  <2>3. Satisfied(cache', n) \in Nat
    BY SatisfiedIs, PlanAssumption DEF PlanAssumption
  <2>4. reached[n] \in Nat /\ reached'[n] \in Nat /\ reached[n] <= reached'[n]
        /\ Satisfied(server', n) <= reached'[n]
    BY ReachedStep
  <2> QED BY <2>2, <2>3, <2>4
<1>4. ASSUME NEW n \in Node
      PROVE  Promised(n, plan.label[n])' /\ PromisedBy(n, plan.taint[n])'
  <2>1. \/ plan' = Plan(cache) \/ plan' = NoPlan \/ plan' = plan
    BY PassStep DEF Begin
  <2>2. /\ Promised(n, plan'.label[n]) /\ PromisedBy(n, plan'.taint[n])
        /\ plan'.label[n] \in Label /\ plan'.taint[n] \in Group \union {Unset}
    BY <1>1, <2>1, PlanPromises DEF OrderInv, ReachedOK
  <2>3. /\ \A l \in Label : Promised(n, l) => Promised(n, l)'
        /\ \A t \in Group \union {Unset} : PromisedBy(n, t) => PromisedBy(n, t)'
    BY ReachedStep
  <2>4. Promised(n, plan.label[n])'
    BY <2>2, <2>3 DEF Promised, PromisedBy
  <2>5. PromisedBy(n, plan.taint[n])'
    BY <2>2, <2>3 DEF PromisedBy
  <2> QED BY <2>4, <2>5
<1>5. ASSUME NEW n \in Node
      PROVE  Promised(n, server.node[n].label)' /\ PromisedBy(n, server.node[n].taint)'
  <2>1. /\ \/ server'.node[n].label \in {Unset, server.node[n].label, plan.label[n]}
           \/ <<n, server'.node[n].label>> \in late
        /\ server'.node[n].taint \in {Unset, server.node[n].taint, plan.taint[n]}
    BY NodeStep
  <2>2. Promised(n, server'.node[n].label) /\ PromisedBy(n, server'.node[n].taint)
    BY <2>1 DEF OrderInv, ReachedOK, Promised, PromisedBy
  <2>3. server'.node[n].label \in Label /\ server'.node[n].taint \in Group \union {Unset}
    BY ClusterParts DEF SafeInv, TypeOK, NodeStates
  <2>4. /\ \A l \in Label : Promised(n, l) => Promised(n, l)'
        /\ \A t \in Group \union {Unset} : PromisedBy(n, t) => PromisedBy(n, t)'
    BY ReachedStep
  <2>5. Promised(n, server.node[n].label)'
    BY <2>2, <2>3, <2>4 DEF Promised, PromisedBy
  <2>6. PromisedBy(n, server.node[n].taint)'
    BY <2>2, <2>3, <2>4 DEF PromisedBy
  <2> QED BY <2>5, <2>6
<1>6. ASSUME NEW patch \in late' PROVE Promised(patch[1], patch[2])'
  <2>1. patch[1] \in Node /\ patch[2] \in Label /\ Promised(patch[1], patch[2])
    <3>1. CASE patch \in late
      BY <1>2, <3>1 DEF OrderInv, ReachedOK
    <3>2. CASE \E n \in Node : patch = <<n, plan.label[n]>>
      BY <1>1, <3>2 DEF OrderInv, ReachedOK
    <3> QED BY <3>1, <3>2, LateStep
  <2> QED BY <2>1, ReachedStep
<1> QED BY <1>3, <1>4, <1>5, <1>6 DEF ReachedOK

\* A pod that may start has earned it, and what has been earned stays so.
LEMMA EarnedStep ==
  ASSUME SafeInv, SafeInv', OrderInv, KnownTaintsOK', [Next]_vars
  PROVE  EarnedOK'
<1> SUFFICES ASSUME NEW p \in Pod, NEW n \in Node
             PROVE  /\ /\ HasGate(server', p) /\ TargetNode(server', p) = n
                       /\ Satisfied(server', n) >= GroupIndexForPod[p]
                       => p \in earned'
                    /\ /\ p \in cur' /\ HasGate(cache', p) /\ TargetNode(cache', p) = n
                       /\ Satisfied(cache', n) >= GroupIndexForPod[p]
                       => p \in earned'
                    /\ /\ p \in todo' /\ p \in fresh' /\ p \notin Bypassed
                       /\ TargetNode(server', p) = n /\ view'[n].st = "in"
                       => p \in earned'
  BY DEF EarnedOK
<1>1. EarnedOK /\ KnownTaintsOK /\ CopiesOK /\ HeldOK /\ CopiesOK' /\ HeldOK' /\ TypeOK
  BY DEF OrderInv, SafeInv
<1>2. ASSUME HasGate(server', p), p \in earned PROVE p \in earned'
  BY <1>2, HistoryStep
<1>3. ASSUME HasGate(server', p), TargetNode(server', p) = n,
             Satisfied(server', n) >= GroupIndexForPod[p]
      PROVE  p \in earned'
  <2>1. CASE UNCHANGED <<server, earned, reached>>
    BY <1>1, <1>3, <2>1 DEF EarnedOK
  <2>2. CASE ~UNCHANGED <<server, earned, reached>>
    BY <1>3, <2>2, HistoryStep
  <2> QED BY <2>1, <2>2
<1>4. ASSUME p \in cur', HasGate(cache', p), TargetNode(cache', p) = n,
             Satisfied(cache', n) >= GroupIndexForPod[p]
      PROVE  p \in earned'
  <2>1. HasGate(server', p)
    BY <1>1, <1>4 DEF CopiesOK, HasGate
  <2>2. CASE \A q \in Pod : cache'.pod[q] = server.pod[q]
    <3>1. Satisfied(server, n) >= GroupIndexForPod[p]
      BY <1>1, <1>4, <2>2, CachedSatisfied
    <3>2. HasGate(server, p) /\ TargetNode(server, p) = n
      BY <1>4, <2>2 DEF HasGate, TargetNode
    <3> QED BY <1>1, <1>2, <2>1, <3>1, <3>2 DEF EarnedOK
  <2>3. CASE p \in cur /\ \A q \in Pod : cache'.pod[q] = cache.pod[q]
    <3>1. Satisfied(cache, n) >= GroupIndexForPod[p]
      BY <1>1, <1>4, <2>3, CachedSatisfied
    <3>2. HasGate(cache, p) /\ TargetNode(cache, p) = n
      BY <1>4, <2>3 DEF HasGate, TargetNode
    <3> QED BY <1>1, <1>2, <2>1, <2>3, <3>1, <3>2 DEF EarnedOK
  <2> QED BY <1>4, <2>2, <2>3, CacheStep
<1>5. ASSUME p \in todo', p \in fresh', p \notin Bypassed,
             TargetNode(server', p) = n, view'[n].st = "in"
      PROVE  p \in earned'
  <2>1. HasGate(server', p)
    BY <1>1, <1>5 DEF HeldOK
  <2>2. CASE Begin
    <3>1. server' = server /\ view' = cache.node /\ fresh' = cur
          /\ todo' = {m \in Node : Exists(cache, m)} \union Ungate(cache)
      BY <2>2 DEF Begin
    <3>2. p \in Ungate(cache) /\ p \in cur /\ cache.pod[p] = server.pod[p]
      BY <1>1, <1>5, <3>1, Kinds DEF CopiesOK
    <3>3. HasGate(cache, p) /\ MayStart(cache, p) /\ TargetNode(cache, p) = n
      BY <1>5, <3>1, <3>2 DEF Ungate, TargetNode
    <3>4. n # None /\ Exists(cache, n) /\ Participating(cache, n)
      BY <1>5, <3>1, Kinds DEF Exists, Participating
    <3>5. Satisfied(cache, n) >= GroupIndexForPod[p]
      <4>1. CASE Stray(p)
        BY <4>1, SatisfiedIs, PlanAssumption DEF Stray, NoGroup, PlanAssumption
      <4>2. CASE ~Stray(p)
        BY <1>5, <3>3, <3>4, <4>2 DEF MayStart
      <4> QED BY <4>1, <4>2
    <3> QED BY <1>1, <1>2, <2>1, <3>2, <3>3, <3>5 DEF EarnedOK
  <2>3. CASE todo' = {}
    BY <1>5, <2>3
  <2>4. CASE todo' \subseteq todo /\ view' = view /\ fresh' \subseteq fresh \union Node
    <3>1. p \in todo /\ p \in fresh
      BY <1>5, <2>4, Kinds
    <3>2. HasGate(server, p)
      BY <1>1, <3>1 DEF HeldOK
    <3>3. server'.pod[p].on = server.pod[p].on
      <4>1. CASE server'.pod[p] = server.pod[p]
        BY <4>1
      <4>2. CASE Event(p)
        <5>1. PICK r \in PodStates : PodEvent(p, r)
          BY <1>1, <4>2, EventIs
        <5>2. server' = WithPod(server, p, r) /\ r = NoPod
          BY <3>2, <5>1 DEF PodEvent, PodChange, Change, Store, WithPod, HasGate
        <5>3. server'.pod[p] = NoPod
          BY <1>1, <5>2, OnlyAtPod
        <5> QED BY <2>1, <5>3 DEF HasGate, NoPod
      <4>3. CASE AddRules(p) \/ AddRulesUnanswered(p)
        BY <4>3, RulesEffect
      <4>4. CASE RemoveGate(p)
        BY <4>4, GateEffect
      <4> QED BY <4>1, <4>2, <4>3, <4>4, PodChanged
    <3>4. TargetNode(server, p) = n
      BY <1>5, <3>3 DEF TargetNode
    <3> QED BY <1>1, <1>2, <1>5, <2>1, <2>4, <3>1, <3>4 DEF EarnedOK
  <2> QED BY <2>2, <2>3, <2>4, PassStep
<1> QED BY <1>3, <1>4, <1>5

\* At first no pod is there, and no node has a label or taint.
LEMMA OrderInit ==
  ASSUME Init, SafeInv
  PROVE  OrderInv
<1>1. /\ cache = server /\ cur = Objects /\ todo = {} /\ plan = NoPlan /\ late = {}
      /\ reached = [n \in Node |-> Satisfied(server, n)]
  BY DEF Init
<1>2. \A p \in Pod : server.pod[p] = NoPod
  BY DEF Init, Cluster
<1>3. \A n \in Node : server.node[n].taints = {} /\ server.node[n].label = Unset
                      /\ server.node[n].taint = Unset
  <2>1. PICK m \in MethodsUsed :
          server = [Cluster EXCEPT !.node = [n \in Node |-> IF n \in Present
                                               THEN [NoNode EXCEPT !.st = "in"] ELSE NoNode],
                                   !.method = m]
    BY DEF Init
  <2>2. server.node = [n \in Node |-> IF n \in Present
                                      THEN [NoNode EXCEPT !.st = "in"] ELSE NoNode]
    BY <2>1 DEF Cluster
  <2> QED BY <2>2 DEF NoNode
<1>4. EarnedOK
  BY <1>1, <1>2 DEF EarnedOK, HasGate, NoPod
<1>5. KnownTaintsOK
  BY <1>1, <1>3 DEF KnownTaintsOK, Bearable
<1>6. ReachedOK
  <2>1. \A n \in Node : NoPlan.label[n] = Unset /\ NoPlan.taint[n] = Unset
    BY DEF NoPlan, Plan, WantLabel, WantTaint, Participating, Cluster, NoView, NoNode
  <2>2. \A n \in Node : Satisfied(server, n) <= reached[n]
    BY <1>1, SatisfiedIs, PlanAssumption DEF PlanAssumption
  <2> QED BY <1>1, <1>3, <2>1, <2>2 DEF ReachedOK, Promised, PromisedBy
<1> QED BY <1>4, <1>5, <1>6 DEF OrderInv

\* The order that the caches show together was there at one moment.
THEOREM OrderInvariance ==
  ASSUME OthersTaintsAreBearable
  PROVE  Spec => [](SafeInv /\ OrderInv)
<1>1. Init => SafeInv /\ OrderInv
  BY SafeInit, OrderInit
<1>2. SafeInv /\ OrderInv /\ [Next]_vars => (SafeInv /\ OrderInv)'
  <2> SUFFICES ASSUME SafeInv, OrderInv, [Next]_vars PROVE SafeInv' /\ OrderInv'
    OBVIOUS
  <2>1. SafeInv'
    BY SafeStep
  <2>2. KnownTaintsOK'
    BY KnownTaintsStep DEF OrderInv
  <2> QED BY <2>1, <2>2, PromisesStep, EarnedStep DEF OrderInv
<1> QED BY <1>1, <1>2, PTL DEF Spec

\* If others' taints are bearable, a pinned pod starts only where every earlier group has been
\* satisfied, at one moment of the pod's own life.
THEOREM PinnedStartInOrder ==
  ASSUME OthersTaintsAreBearable
  PROVE  Spec => StartsInOrder
<1>1. SafeInv /\ OrderInv /\ [Next]_vars =>
        \A p \in Pod \ Bypassed, n \in Node :
          LosesGate(p) /\ TargetNode(server, p) = n /\ view[n].st = "in" => p \in earned
  <2> SUFFICES ASSUME SafeInv, OrderInv, [Next]_vars, NEW p \in Pod \ Bypassed, NEW n \in Node,
                      LosesGate(p), TargetNode(server, p) = n, view[n].st = "in"
               PROVE  p \in earned
    OBVIOUS
  <2>1. RemoveGate(p)
    BY GateLost
  <2>2. p \in todo /\ p \in fresh
    BY <2>1 DEF RemoveGate, Turn
  <2> QED BY <2>2 DEF OrderInv, EarnedOK
<1> QED BY <1>1, OrderInvariance, PTL DEF Spec, StartsInOrder

\* What binds a pod, where.
LEMMA PodBound ==
  ASSUME SafeInv, [Next]_vars, NEW p \in Pod, NEW n \in Node,
         server.pod[p].on = None, server'.pod[p].on = n, server.pod[p].rule # {}
  PROVE  CanBind(server, p, n)
<1>1. /\ TypeOK /\ server.pod \in [Pod -> PodStates] /\ None \notin Node
      /\ PinnedTo[p] = None
  BY ClusterParts, Kinds DEF SafeInv, TypeOK, PodsOK, PodOK, Steerable
<1>2. Event(p)
  <2>1. Event(p) \/ AddRules(p) \/ AddRulesUnanswered(p) \/ RemoveGate(p)
    BY <1>1, PodChanged
  <2> QED BY <1>1, <2>1, RulesEffect, GateEffect
<1>3. ASSUME NEW r \in PodStates, PodChange(p, r) PROVE server'.pod[p] = r
  <2>1. server' = WithPod(server, p, r)
    BY <1>3 DEF PodChange, Change, Store, WithPod
  <2> QED BY <1>1, <2>1, OnlyAtPod
<1>4. NoPod \in PodStates /\ NoPod.on = None
  BY Empties DEF NoPod
<1>5. CASE Create(p)
  <2>1. server.pod[p] = NoPod /\ NoPod.rule = {}
    BY <1>5 DEF Create, MayCreate, NoPod
  <2> QED BY <2>1
<1>6. CASE Delete(p)
  BY <1>1, <1>3, <1>4, <1>6 DEF Delete
<1>7. CASE BecomeUnready(p)
  <2>1. PodChange(p, [server.pod[p] EXCEPT !.st = "pending"])
    BY <1>7 DEF BecomeUnready
  <2>2. /\ [server.pod[p] EXCEPT !.st = "pending"] \in PodStates
        /\ [server.pod[p] EXCEPT !.st = "pending"].on = server.pod[p].on
    BY <1>1 DEF PodStates
  <2> QED BY <1>1, <1>3, <2>1, <2>2
<1>8. ASSUME NEW m \in Node, Bind(p, m) PROVE CanBind(server, p, n)
  <2>1. PodChange(p, [server.pod[p] EXCEPT !.on = m]) /\ CanBind(server, p, m)
    BY <1>8 DEF Bind
  <2>2. /\ [server.pod[p] EXCEPT !.on = m] \in PodStates
        /\ [server.pod[p] EXCEPT !.on = m].on = m
    BY <1>1 DEF PodStates
  <2> QED BY <1>3, <2>1, <2>2
<1>9. ASSUME NEW m \in Node, BecomeReady(p, m) PROVE FALSE
  BY <1>1, <1>9 DEF BecomeReady
<1> QED BY <1>2, <1>5, <1>6, <1>7, <1>8, <1>9 DEF Event

\* If others' taints are bearable, a steered pod is bound only where every earlier group has been
\* satisfied once.
THEOREM SteeredToReachedNodes ==
  ASSUME OthersTaintsAreBearable
  PROVE  Spec => SteeredInOrder
<1>1. SafeInv /\ OrderInv /\ [Next]_vars =>
        \A p \in Pod, n \in Node :
          /\ server.pod[p].on = None /\ server'.pod[p].on = n
          /\ \/ /\ "affinity" \in server.pod[p].rule
                /\ server.node[n].label # ReleasedLabelValue
             \/ "tolerations" \in server.pod[p].rule /\ server.node[n].taint # Unset
          => reached[n] >= GroupIndexForPod[p]
  <2> SUFFICES ASSUME SafeInv, OrderInv, [Next]_vars, NEW p \in Pod, NEW n \in Node,
                      server.pod[p].on = None, server'.pod[p].on = n,
                      \/ /\ "affinity" \in server.pod[p].rule
                         /\ server.node[n].label # ReleasedLabelValue
                      \/ "tolerations" \in server.pod[p].rule /\ server.node[n].taint # Unset
               PROVE  reached[n] >= GroupIndexForPod[p]
    OBVIOUS
  <2> DEFINE k == GroupIndexForPod[p]
  <2>1. CanBind(server, p, n)
    BY PodBound
  <2>2. PinnedTo[p] = None /\ k # NoGroup
    BY DEF SafeInv, PodsOK, PodOK, Steerable
  <2>3. k \in Group
    BY <2>2, GroupIndexType
  <2>4. /\ server.node \in [Node -> NodeStates] /\ reached[n] \in 0 .. NumGroups
        /\ NumGroups \in Nat
    BY ClusterParts, PlanAssumption DEF SafeInv, TypeOK, PlanAssumption
  <2>5. Promised(n, server.node[n].label) /\ PromisedBy(n, server.node[n].taint)
    BY DEF OrderInv, ReachedOK
  <2>6. Owner[p] = None
    <3>1. ASSUME NEW m \in Node, Terms[p] = {m} PROVE PinnedTo[p] # None
      <4>1. (CHOOSE q \in Node : Terms[p] = {q}) \in Node
        BY <3>1
      <4> QED BY <3>1, <4>1, Kinds DEF PinnedTo
    <3> QED BY <2>2, <3>1, DaemonPodAssumption
  <2>7. CASE "affinity" \in server.pod[p].rule /\ server.node[n].label # ReleasedLabelValue
    <3>1. server.node[n].label # Unset /\ server.node[n].label > k - 1
      BY <2>1, <2>7 DEF CanBind, EligibilityRequirement
    <3>2. server.node[n].label <= reached[n]
      BY <2>5, <2>7, <3>1 DEF Promised, PromisedBy
    <3>3. server.node[n].label \in 0 .. NumGroups
      BY <2>4, <2>7, <3>1 DEF NodeStates, Label
    <3>4. reached[n] >= k
      <4> HIDE DEF k
      <4> QED BY <2>3, <2>4, <3>1, <3>2, <3>3 DEF Group
    <3> QED BY <3>4
  <2>8. CASE "tolerations" \in server.pod[p].rule /\ server.node[n].taint # Unset
    <3>1. EligibilityTolerations(k, server.node[n].taint)
      BY <2>1, <2>6, <2>8 DEF CanBind, Tolerated
    <3>2. server.node[n].taint <= reached[n]
      BY <2>5, <2>8 DEF PromisedBy
    <3>3. server.node[n].taint \in Group
      BY <2>4, <2>8 DEF NodeStates
    <3>4. reached[n] >= k
      <4> HIDE DEF k
      <4> QED BY <2>3, <2>4, <3>1, <3>2, <3>3 DEF Group, EligibilityTolerations
    <3> QED BY <3>4
  <2> QED BY <2>7, <2>8
<1> QED BY <1>1, OrderInvariance, PTL DEF Spec, SteeredInOrder
=============================================================================
