----------------------------- MODULE NodeWakeupProofs -----------------------------
(***************************************************************************)
(* NodeSequence leaves nothing undone, for any pods, nodes, groups and any *)
(* number of mishaps: what has changed enqueues the sequence, and a        *)
(* reconcile that nothing enqueues again has done all there is to do.      *)
(***************************************************************************)
EXTENDS NodeSequenceProofs

-----------------------------------------------------------------------------
(* The inductive invariant.                                                *)

\* Objects whose events enqueue the sequence.
Watched == {p \in Pod : MapPod(p)} \union Node \union {Sequence}

AsPlanned(n) ==
    /\ cache.node[n].label = Plan(cache).label[n]
    /\ cache.node[n].taint = Plan(cache).taint[n]

\* A reconcile that is not to be repeated works on what the caches have, and has done its
\* work where they are current.
RunningOK ==
    /\ view = cache.node /\ plan = Plan(cache)
    /\ Sequence \in cur => Sequence \in fresh
    /\ held \in Node => held \notin cur
    /\ ~failed => /\ \A n \in Node : n \in cur /\ n \notin todo /\ Exists(cache, n) => AsPlanned(n)
                  /\ \A p \in Ungate(cache) : p \in cur => p \in todo

DoneOK ==
    /\ \A n \in Node : Exists(cache, n) => AsPlanned(n)
    /\ Ungate(cache) = {}
    /\ status = Plan(cache).status

WakeOK ==
    /\ ~queued /\ busy => RunningOK
    /\ ~queued /\ ~busy /\ Watched \subseteq cur => DoneOK

\* What is planned depends on nodes, the sequence and the pods whose events enqueue it.
LEMMA SamePlan ==
  ASSUME NEW v \in Clusters, NEW w \in Clusters, v.node = w.node, v.method = w.method,
         \A p \in Pod : MapPod(p) => v.pod[p] = w.pod[p],
         \A p \in Pod : PodOK(p, v.pod[p]) /\ PodOK(p, w.pod[p])
  PROVE  Plan(v) = Plan(w) /\ Ungate(v) = Ungate(w)
<1>1. v.ds = w.ds
  BY ClusterParts
<1>2. \A p \in Pod : GroupIndexForPod[p] # NoGroup => v.pod[p] = w.pod[p]
  BY DEF MapPod
<1>3. \A n \in Node : Satisfied(v, n) = Satisfied(w, n)
  BY <1>1, <1>2, SameGroups DEF TaintsOn
<1>4. \A n \in Node : /\ Participating(v, n) = Participating(w, n)
                      /\ Exists(v, n) = Exists(w, n)
  BY DEF Participating, Exists
<1>5. PendingRequiredKeys(v) = PendingRequiredKeys(w)
  <2>1. \A p \in Pod : "affinity" \in v.pod[p].rule \/ "affinity" \in w.pod[p].rule
                          => v.pod[p] = w.pod[p]
    BY <1>2 DEF PodOK, Steerable
  <2> QED BY <2>1 DEF PendingRequiredKeys, IsActive
<1>6. \A n \in Node : /\ WantLabel(v, n, v.method) = WantLabel(w, n, w.method)
                      /\ WantTaint(v, n, v.method) = WantTaint(w, n, w.method)
  BY <1>3, <1>4, <1>5 DEF WantLabel, WantTaint
<1>7. \A p \in Pod : MapPod(p) => /\ HasGate(v, p) = HasGate(w, p)
                                  /\ TargetNode(v, p) = TargetNode(w, p)
                                  /\ TargetNode(v, p) \in Node \union {None}
                                  /\ v.pod[p] = w.pod[p]
  BY ClusterParts, TargetNodeType DEF HasGate, TargetNode
<1>8. \A p \in Pod : MapPod(p) => MayStart(v, p) = MayStart(w, p)
  <2> SUFFICES ASSUME NEW p \in Pod, MapPod(p) PROVE MayStart(v, p) = MayStart(w, p)
    OBVIOUS
  <2>1. CASE TargetNode(v, p) = None
    BY <1>7, <2>1 DEF MayStart
  <2>2. CASE TargetNode(v, p) \in Node
    <3>1. /\ Exists(v, TargetNode(v, p)) = Exists(w, TargetNode(w, p))
          /\ Participating(v, TargetNode(v, p)) = Participating(w, TargetNode(w, p))
          /\ Satisfied(v, TargetNode(v, p)) = Satisfied(w, TargetNode(w, p))
          /\ TargetNode(v, p) = TargetNode(w, p)
      BY <1>3, <1>4, <1>7, <2>2
    <3> QED BY <3>1 DEF MayStart
  <2> QED BY <1>7, <2>1, <2>2
<1>9. \A p \in Pod : /\ MayStart(v, p) \/ MayStart(w, p) => MapPod(p)
                     /\ GroupIndexForPod[p] # NoGroup => MapPod(p)
  BY DEF MayStart, Stray, MapPod
<1>10. Ungate(v) = Ungate(w)
  BY <1>7, <1>8, <1>9 DEF Ungate
<1>11. \A p \in Pod : Plan(v).rules[p] = Plan(w).rules[p]
  <2> SUFFICES ASSUME NEW p \in Pod PROVE Plan(v).rules[p] = Plan(w).rules[p]
    OBVIOUS
  <2>1. CASE p \in Ungate(v)
    <3>1. MapPod(p)
      BY <1>9, <2>1 DEF Ungate
    <3>2. Constraint(v, p, v.method) = Constraint(w, p, w.method) /\ v.pod[p] = w.pod[p]
      BY <1>7, <3>1 DEF Constraint
    <3> QED BY <1>10, <2>1, <3>2 DEF Plan
  <2>2. CASE p \notin Ungate(v)
    BY <1>10, <2>2 DEF Plan
  <2> QED BY <2>1, <2>2
<1>12. StillGated(v) = StillGated(w)
  BY <1>7, <1>8, <1>9 DEF StillGated
<1>13. TimedOut(v) = TimedOut(w)
  <2>1. TimedOut(v) = {} /\ TimedOut(w) = {}
    BY NothingWaits DEF NothingWaits, TimedOut
  <2> QED BY <2>1
<1>14. NodeScopedStatus(v, v.method) = NodeScopedStatus(w, w.method)
  <2> DEFINE T(u) == {n \in Node : Participating(u, n)}
             S(u) == {n \in T(u) : Satisfied(u, n) >= NumGroups}
             F(u) == {TargetNode(u, p) : p \in TimedOut(u)}
             I(u) == {NumGroups} \union {Satisfied(u, n) : n \in T(u)}
  <2>1. T(v) = T(w)
    BY <1>4
  <2>2. S(v) = S(w) /\ I(v) = I(w)
    BY <1>3, <2>1
  <2>3. F(v) = {} /\ F(w) = {}
    BY NothingWaits DEF NothingWaits, TimedOut
  <2>4. MissingToleration(v, v.method) = MissingToleration(w, w.method)
    BY <1>1 DEF MissingToleration
  <2>5. \A u : NodeScopedStatus(u, u.method) =
          [phase |-> IF S(u) = T(u) THEN "Active" ELSE "InProgress", idx |-> Min(I(u)),
           satisfied |-> S(u), failed |-> F(u), gated |-> Cardinality(StillGated(u)),
           degraded |-> F(u) # {} \/ MissingToleration(u, u.method) # {}]
    BY DEF NodeScopedStatus
  <2> HIDE DEF T, S, F, I
  <2> QED BY <1>12, <2>1, <2>2, <2>3, <2>4, <2>5
<1>15. Plan(v) = Plan(w)
  <2>1. /\ Plan(v).label = Plan(w).label /\ Plan(v).taint = Plan(w).taint
        /\ Plan(v).status = Plan(w).status
    BY <1>6, <1>14 DEF Plan
  <2>2. Plan(v).rules = Plan(w).rules
    BY <1>11 DEF Plan
  <2>3. Plan(v) \in Plans /\ Plan(w) \in Plans
    BY PlanType
  <2> QED BY <2>1, <2>2, <2>3 DEF Plans
<1> QED BY <1>10, <1>15

\* The pods that a reconcile ungates are among those.
LEMMA UngatedAreWatched ==
  ASSUME NEW v PROVE Ungate(v) \subseteq Watched
BY DEF Ungate, MayStart, Stray, Watched, MapPod

\* A step that a reconcile may not notice, and that makes no copy current.
LEMMA QuietStep ==
  ASSUME WakeOK, UNCHANGED <<cache, status, queued, busy, view, plan, todo, held, failed>>,
         cur' \subseteq cur, Sequence \in cur' /\ Sequence \in fresh => Sequence \in fresh'
  PROVE  WakeOK'
<1>1. \A n \in Node : (AsPlanned(n))' = AsPlanned(n)
  BY DEF AsPlanned
<1>2. RunningOK => RunningOK'
  BY <1>1 DEF RunningOK
<1>3. DoneOK => DoneOK'
  BY <1>1 DEF DoneOK
<1> QED BY <1>2, <1>3 DEF WakeOK

\* Somebody else changes the sequence, a pod or a node.
LEMMA ChangeWakes ==
  ASSUME SafeInv, WakeOK, NEW o \in Objects, NEW s \in Clusters, Change(o, s),
         o = Sequence => s # server
  PROVE  WakeOK'
<1>1. TypeOK /\ Store(o, s) /\ fresh' = fresh \ {o}
      /\ UNCHANGED <<cache, status, queued, busy, view, plan, todo, held, failed>>
  BY DEF SafeInv, Change, reading, writing
<1>2. cur' \subseteq cur /\ (o \in cur' => s = server)
  BY <1>1, StoreIs
<1> QED BY <1>1, <1>2, QuietStep

\* A delivery without an enqueueing is one of pods that are not watched.
LEMMA DeliveryWakes ==
  ASSUME SafeInv, SafeInv', WakeOK, Deliver
  PROVE  WakeOK'
<1> SUFFICES ASSUME ~queued' PROVE WakeOK'
  BY DEF WakeOK
<1>1. DeliverPods
  <2>1. ~DeliverSequence
    BY DEF DeliverSequence
  <2>2. ~DeliverNodes
    BY DEF DeliverNodes, SafeInv, CopiesOK
  <2> QED BY <2>1, <2>2 DEF Deliver
<1>2. /\ cache' = [cache EXCEPT !.pod = server.pod] /\ cur' = cur \union Pod
      /\ ~queued /\ \A p \in Pod : MapPod(p) => p \in cur
      /\ UNCHANGED <<server, status, busy, view, plan, todo, held, failed, fresh>>
  BY <1>1 DEF DeliverPods, reading, writing
<1>3. cache \in Clusters /\ cache' \in Clusters /\ server \in Clusters
  BY DEF SafeInv, TypeOK
<1>4. cache'.pod = server.pod /\ cache'.node = cache.node /\ cache'.method = cache.method
  BY <1>2, <1>3 DEF Clusters
<1>5. \A p \in Pod : MapPod(p) => cache.pod[p] = cache'.pod[p]
  BY <1>2, <1>4 DEF SafeInv, CopiesOK
<1>6. \A p \in Pod : PodOK(p, cache.pod[p]) /\ PodOK(p, cache'.pod[p])
  BY <1>4 DEF SafeInv, PodsOK
<1>7. Plan(cache) = Plan(cache') /\ Ungate(cache) = Ungate(cache')
  BY <1>3, <1>4, <1>5, <1>6, SamePlan
<1>8. \A n \in Node : (AsPlanned(n))' = AsPlanned(n) /\ Exists(cache', n) = Exists(cache, n)
  BY <1>4, <1>7 DEF AsPlanned, Exists
<1>9. Watched \intersect cur' \subseteq cur
  BY <1>2, Kinds DEF Watched
<1>10. RunningOK => RunningOK'
  <2> SUFFICES ASSUME RunningOK PROVE RunningOK'
    OBVIOUS
  <2>1. view' = cache'.node /\ plan' = Plan(cache')
    BY <1>2, <1>4, <1>7 DEF RunningOK
  <2>2. Sequence \in cur' => Sequence \in fresh'
    BY <1>2, <1>9 DEF RunningOK, Watched
  <2>3. held' \in Node => held' \notin cur'
    BY <1>2, <1>9 DEF RunningOK, Watched
  <2>4. ASSUME ~failed', NEW n \in Node, n \in cur', n \notin todo', Exists(cache', n)
        PROVE  (AsPlanned(n))'
    BY <1>2, <1>8, <1>9, <2>4 DEF RunningOK, Watched
  <2>5. ASSUME ~failed', NEW p \in Ungate(cache'), p \in cur' PROVE p \in todo'
    BY <1>2, <1>7, <1>9, <2>5, UngatedAreWatched DEF RunningOK
  <2> QED BY <2>1, <2>2, <2>3, <2>4, <2>5 DEF RunningOK
<1>11. DoneOK => DoneOK'
  BY <1>2, <1>7, <1>8 DEF DoneOK
<1>12. Watched \subseteq cur' => Watched \subseteq cur
  BY <1>9
<1> QED BY <1>2, <1>10, <1>11, <1>12 DEF WakeOK

\* A reconcile starts with everything to do.
LEMMA BeginWakes ==
  ASSUME SafeInv, Begin
  PROVE  WakeOK'
<1>1. /\ ~busy /\ busy' = TRUE /\ view' = cache.node /\ fresh' = cur /\ plan' = Plan(cache)
      /\ todo' = {n \in Node : Exists(cache, n)} \union Ungate(cache)
      /\ UNCHANGED <<cache, cur, held, failed>>
  BY DEF Begin
<1>2. held' = None /\ None \notin Node
  BY <1>1, Kinds DEF SafeInv, HeldOK
<1>3. RunningOK'
  <2>1. \A n \in Node : Exists(cache', n) => n \in todo'
    BY <1>1
  <2>2. \A p \in Ungate(cache') : p \in todo'
    BY <1>1
  <2>3. view' = cache'.node /\ plan' = Plan(cache') /\ fresh' = cur'
    BY <1>1
  <2> QED BY <1>2, <2>1, <2>2, <2>3 DEF RunningOK
<1> QED BY <1>1, <1>3 DEF WakeOK

\* The loop goes on: what it leaves is as planned, or not known to be current, or the
\* reconcile is to be repeated.
LEMMA GoOnWakes ==
  ASSUME SafeInv, WakeOK, NEW o \in Node \union Pod, NEW e \in BOOLEAN, Turn(o), GoOn(o, e),
         cur' \subseteq cur, Sequence \in fresh => Sequence \in fresh',
         \/ e \/ o \notin cur'
         \/ o \in Node /\ (RunningOK => AsPlanned(o))
         \/ o \in Pod /\ o \notin Ungate(cache)
  PROVE  WakeOK'
<1>1. /\ busy /\ todo' = todo \ {o} /\ held' = None /\ failed' = (failed \/ e)
      /\ UNCHANGED <<cache, queued, busy, view, plan>>
  BY DEF Turn, GoOn, reading
<1>2. \A n \in Node : (AsPlanned(n))' = AsPlanned(n)
  BY <1>1 DEF AsPlanned
<1>3. None \notin Node /\ Pod \intersect Node = {} /\ Ungate(cache) \subseteq Pod
  BY Kinds DEF Ungate
<1>4. RunningOK => RunningOK'
  <2> SUFFICES ASSUME RunningOK PROVE RunningOK'
    OBVIOUS
  <2>1. view' = cache'.node /\ plan' = Plan(cache')
    BY <1>1 DEF RunningOK
  <2>2. Sequence \in cur' => Sequence \in fresh'
    BY DEF RunningOK
  <2>3. held' \in Node => held' \notin cur'
    BY <1>1, <1>3
  <2>4. ASSUME ~failed', NEW n \in Node, n \in cur', n \notin todo', Exists(cache', n)
        PROVE  (AsPlanned(n))'
    BY <1>1, <1>2, <1>3, <2>4 DEF RunningOK
  <2>5. ASSUME ~failed', NEW p \in Ungate(cache'), p \in cur' PROVE p \in todo'
    BY <1>1, <1>3, <2>5 DEF RunningOK
  <2> QED BY <2>1, <2>2, <2>3, <2>4, <2>5 DEF RunningOK
<1> QED BY <1>1, <1>4 DEF WakeOK

\* The loop waits for an answer, with a copy of the node that is newer than the cache's.
LEMMA AnswerWakes ==
  ASSUME WakeOK, NEW o, NEW r, busy, Answered(o, r), cur' \subseteq cur,
         Sequence \in fresh => Sequence \in fresh',
         o \in Node => (~queued /\ RunningOK => o \notin cur')
  PROVE  WakeOK'
<1>1. /\ held' = o /\ UNCHANGED <<cache, queued, busy, view, plan, todo, failed>>
  BY DEF Answered, reading
<1>2. \A n \in Node : (AsPlanned(n))' = AsPlanned(n)
  BY <1>1 DEF AsPlanned
<1>3. ~queued /\ RunningOK => RunningOK'
  BY <1>1, <1>2 DEF RunningOK
<1> QED BY <1>1, <1>3 DEF WakeOK

\* A write makes the copy of what it changes a stale one.
LEMMA NodeWriteIs ==
  ASSUME TypeOK, NEW n \in Node, NEW r \in NodeStates, Store(n, WithNode(server, n, r))
  PROVE  cur' \subseteq cur /\ server'.node[n] = r /\ (n \in cur' => r = server.node[n])
<1> DEFINE s == WithNode(server, n, r)
<1>1. s \in Clusters /\ s.node[n] = r /\ n \in Objects
  BY OnlyAtNode, PassTypes
<1> HIDE DEF s
<1>2. server' = s /\ cur' \subseteq cur /\ (n \in cur' => s = server)
  BY <1>1, StoreIs DEF s
<1> QED BY <1>1, <1>2

\* The same of a pod.
LEMMA PodWriteIs ==
  ASSUME TypeOK, NEW p \in Pod, NEW r \in PodStates, Store(p, WithPod(server, p, r))
  PROVE  cur' \subseteq cur /\ server'.pod[p] = r /\ (p \in cur' => r = server.pod[p])
<1> DEFINE s == WithPod(server, p, r)
<1>1. s \in Clusters /\ s.pod[p] = r /\ p \in Objects
  BY OnlyAtPod, PassTypes
<1> HIDE DEF s
<1>2. server' = s /\ cur' \subseteq cur /\ (p \in cur' => s = server)
  BY <1>1, StoreIs DEF s
<1> QED BY <1>1, <1>2

\* A label patch: what the caches have of the node has another label.
LEMMA PatchLabelWakes ==
  ASSUME SafeInv, WakeOK, NEW n \in Node, PatchLabel(n)
  PROVE  WakeOK'
<1>1. /\ TypeOK /\ CopiesOK /\ busy /\ view[n].label # plan.label[n] /\ SetLabel(n, plan.label[n])
      /\ fresh' = fresh \union {n} /\ Answered(n, server'.node[n]) /\ plan.label[n] \in Label
  BY PassTypes DEF PatchLabel, SafeInv, LabelDue, Turn
<1>2. PICK r \in NodeStates : Store(n, WithNode(server, n, r)) /\ r.label = plan.label[n]
  BY <1>1, SetLabelIs
<1>3. cur' \subseteq cur /\ (n \in cur' => r = server.node[n])
  BY <1>1, <1>2, NodeWriteIs
<1>4. RunningOK => n \notin cur'
  BY <1>1, <1>2, <1>3 DEF RunningOK, CopiesOK
<1> QED BY <1>1, <1>3, <1>4, AnswerWakes

\* A node that is gone was there when it was read.
LEMMA GoneIsStale ==
  ASSUME SafeInv, NEW n \in Node, Turn(n), ~Exists(server, n), RunningOK
  PROVE  n \notin cur
<1>1. view[n].st # "absent" /\ view = cache.node /\ CopiesOK
  BY DEF SafeInv, HeldOK, Turn, RunningOK
<1> QED BY <1>1 DEF CopiesOK, Exists

\* That holds of a label patch, too.
LEMMA PatchLabelNotFoundWakes ==
  ASSUME SafeInv, WakeOK, NEW n \in Node, PatchLabelNotFound(n)
  PROVE  WakeOK'
<1>1. /\ Turn(n) /\ ~Exists(server, n) /\ Answered(n, view[n]) /\ UNCHANGED <<cur, fresh>> /\ busy
  BY DEF PatchLabelNotFound, Unstored, Turn
<1>2. RunningOK => n \notin cur'
  BY <1>1, GoneIsStale
<1> QED BY <1>1, <1>2, AnswerWakes

\* A label patch without an answer is an error: the reconcile is to be repeated.
LEMMA PatchLabelUnansweredWakes ==
  ASSUME SafeInv, WakeOK, NEW n \in Node, PatchLabelUnanswered(n)
  PROVE  WakeOK'
<1>1. /\ TypeOK /\ Turn(n) /\ GoOn(n, TRUE) /\ plan.label[n] \in Label /\ Sequence # n
      /\ \/ SetLabel(n, plan.label[n]) /\ fresh' = fresh \ {n}
         \/ UNCHANGED <<cur, fresh>>
  BY PassTypes, Kinds DEF PatchLabelUnanswered, SafeInv, Unstored
<1>2. cur' \subseteq cur
  <2>1. CASE SetLabel(n, plan.label[n])
    <3>1. PICK r \in NodeStates : Store(n, WithNode(server, n, r))
      BY <1>1, <2>1, SetLabelIs
    <3> QED BY <1>1, <3>1, NodeWriteIs
  <2> QED BY <1>1, <2>1
<1>3. Sequence \in fresh => Sequence \in fresh'
  BY <1>1
<1> QED BY <1>1, <1>2, <1>3, GoOnWakes

\* A taint patch that is applied changes the node.
LEMMA PatchTaintWakes ==
  ASSUME SafeInv, WakeOK, NEW n \in Node, PatchTaint(n)
  PROVE  WakeOK'
<1>1. TypeOK /\ Turn(n) /\ SetTaint(n) /\ (\E e \in BOOLEAN : GoOn(n, e)) /\ UNCHANGED fresh
  BY DEF PatchTaint, SafeInv
<1>2. PICK r \in NodeStates : Store(n, WithNode(server, n, r))
  BY <1>1, SetTaintIs
<1>3. server'.node[n] # server.node[n]
  BY TaintEffect
<1>4. cur' \subseteq cur /\ n \notin cur'
  BY <1>1, <1>2, <1>3, NodeWriteIs
<1> QED BY <1>1, <1>4, GoOnWakes

\* A node is left as it is only if it is as planned.
LEMMA KeepNodeWakes ==
  ASSUME SafeInv, WakeOK, NEW n \in Node, KeepNode(n)
  PROVE  WakeOK'
<1>1. Turn(n) /\ ~Due(n) /\ GoOn(n, FALSE) /\ UNCHANGED <<cur, fresh>>
  BY DEF KeepNode, Unstored
<1>2. CASE n \in cur /\ RunningOK
  <2>1. held # n /\ view = cache.node /\ plan = Plan(cache)
    BY <1>2 DEF RunningOK
  <2>2. view[n].label = plan.label[n] /\ Copy(n).taint = plan.taint[n]
    BY <1>1, <2>1 DEF Due, LabelDue, TaintDue
  <2>3. AsPlanned(n)
    BY <2>1, <2>2 DEF Copy, AsPlanned
  <2> QED BY <1>1, <2>3, GoOnWakes
<1>3. CASE n \in cur /\ ~RunningOK
  BY <1>1, <1>3, GoOnWakes
<1>4. CASE n \notin cur
  BY <1>1, <1>4, GoOnWakes
<1> QED BY <1>2, <1>3, <1>4

\* Placement rules do not end the work on a pod.
LEMMA AddRulesWakes ==
  ASSUME SafeInv, WakeOK, NEW p \in Pod, AddRules(p)
  PROVE  WakeOK'
<1>1. TypeOK /\ busy /\ SetRules(p) /\ Answered(p, NoNode) /\ UNCHANGED fresh /\ p \notin Node
  BY Kinds DEF AddRules, SafeInv, Turn
<1>2. PICK r \in PodStates : Store(p, WithPod(server, p, r))
  BY <1>1, SetRulesIs
<1>3. cur' \subseteq cur
  BY <1>1, <1>2, PodWriteIs
<1> QED BY <1>1, <1>3, AnswerWakes

\* Without an answer to them the reconcile is to be repeated.
LEMMA AddRulesUnansweredWakes ==
  ASSUME SafeInv, WakeOK, NEW p \in Pod, AddRulesUnanswered(p)
  PROVE  WakeOK'
<1>1. TypeOK /\ Turn(p) /\ SetRules(p) /\ GoOn(p, TRUE) /\ fresh' = fresh \ {p} /\ p # Sequence
  BY Kinds DEF AddRulesUnanswered, SafeInv
<1>2. PICK r \in PodStates : Store(p, WithPod(server, p, r))
  BY <1>1, SetRulesIs
<1>3. cur' \subseteq cur /\ (Sequence \in fresh => Sequence \in fresh')
  BY <1>1, <1>2, PodWriteIs
<1> QED BY <1>1, <1>3, GoOnWakes

\* A pod that is ungated is a changed one.
LEMMA RemoveGateWakes ==
  ASSUME SafeInv, WakeOK, NEW p \in Pod, RemoveGate(p)
  PROVE  WakeOK'
<1>1. TypeOK /\ Turn(p) /\ Ungated(p) /\ (\E e \in BOOLEAN : GoOn(p, e)) /\ UNCHANGED fresh
  BY DEF RemoveGate, SafeInv
<1>2. PICK r \in PodStates : Store(p, WithPod(server, p, r))
  BY <1>1, UngatedIs
<1>3. server'.pod[p] # server.pod[p]
  BY GateEffect
<1>4. cur' \subseteq cur /\ p \notin cur'
  BY <1>1, <1>2, <1>3, PodWriteIs
<1> QED BY <1>1, <1>4, GoOnWakes

\* A patch that is not applied: what it was for is gone, or an error is remembered.
LEMMA RefusedWakes ==
  ASSUME SafeInv, WakeOK, NEW o \in Node \union Pod, NotFound(o) \/ Conflict(o) \/ PatchFails(o)
  PROVE  WakeOK'
<1>1. Turn(o) /\ UNCHANGED <<cur, fresh>>
  BY DEF NotFound, Conflict, PatchFails, Unstored
<1>2. CASE Conflict(o) \/ PatchFails(o)
  <2>1. GoOn(o, TRUE)
    BY <1>2 DEF Conflict, PatchFails
  <2> QED BY <1>1, <2>1, GoOnWakes
<1>3. CASE NotFound(o)
  <2>1. GoOn(o, FALSE)
    BY <1>3 DEF NotFound
  <2>2. CASE o \in Node /\ ~queued
    <3>1. ~Exists(server, o) /\ RunningOK
      BY <1>1, <1>3, <2>2 DEF NotFound, WakeOK, Turn
    <3>2. o \notin cur
      BY <1>1, <2>2, <3>1, GoneIsStale
    <3> QED BY <1>1, <2>1, <3>2, GoOnWakes
  <2>3. CASE queued
    BY <2>1, <2>3 DEF GoOn, WakeOK
  <2>4. CASE o \in Pod
    <3>1. server.pod[o] = NoPod
      BY <1>3, <2>4, Kinds DEF NotFound
    <3>2. o \in cur => o \notin Ungate(cache)
      BY <2>4, <3>1 DEF SafeInv, CopiesOK, Ungate, HasGate, NoPod
    <3> QED BY <1>1, <2>1, <2>4, <3>2, GoOnWakes
  <2> QED BY <2>2, <2>3, <2>4
<1> QED BY <1>2, <1>3

\* The end: without an error, and with every copy current, all has been done.
LEMMA EndWakes ==
  ASSUME SafeInv, WakeOK, KeepStatus \/ WriteStatus \/ StatusFails
  PROVE  WakeOK'
<1>1. /\ busy /\ busy' = FALSE /\ todo = {} /\ UNCHANGED cache
      /\ \E e \in BOOLEAN : queued' = (queued \/ e)
  BY DEF KeepStatus, WriteStatus, StatusFails, Return, Finish, SafeInv, TypeOK
<1>2. SUFFICES ASSUME ~queued', Watched \subseteq cur' PROVE DoneOK'
  BY <1>1 DEF WakeOK
<1>3. Sequence \in Watched
  BY DEF Watched
<1>4. KeepStatus
  BY <1>2, <1>3 DEF WriteStatus, StatusFails, Return
<1>5. (StatusDue => Sequence \notin fresh) /\ UNCHANGED <<status, cur>>
  BY <1>4 DEF KeepStatus
<1>6. RunningOK /\ ~failed
  BY <1>1, <1>2, <1>4 DEF KeepStatus, Return, WakeOK
<1>7. status = plan.status
  BY <1>2, <1>3, <1>5, <1>6 DEF RunningOK, StatusDue
<1>8. \A n \in Node : (AsPlanned(n))' = AsPlanned(n)
  BY <1>1 DEF AsPlanned
<1>9. \A n \in Node : n \in cur
  BY <1>2, <1>5 DEF Watched
<1>10. \A p \in Ungate(cache) : p \in cur
  BY <1>2, <1>5, UngatedAreWatched
<1> QED BY <1>1, <1>5, <1>6, <1>7, <1>8, <1>9, <1>10 DEF DoneOK, RunningOK

\* A late patch makes the copy of its node a stale one.
LEMMA LatePatchWakes ==
  ASSUME SafeInv, WakeOK, LatePatch
  PROVE  WakeOK'
<1>1. PICK patch \in late :
        /\ IF Exists(server, patch[1])
             THEN SetLabel(patch[1], patch[2]) /\ fresh' = fresh \ {patch[1]}
             ELSE Unstored /\ UNCHANGED fresh
        /\ UNCHANGED <<cache, queued, busy, view, plan, todo, held, failed>>
  BY DEF LatePatch, reading, writing
<1>2. TypeOK /\ patch[1] \in Node /\ patch[2] \in Label /\ patch[1] # Sequence
  BY Kinds DEF SafeInv, TypeOK
<1>3. CASE Exists(server, patch[1])
  <2>1. PICK r \in NodeStates :
          Store(patch[1], WithNode(server, patch[1], r)) /\ UNCHANGED status
    BY <1>1, <1>2, <1>3, SetLabelIs
  <2>2. cur' \subseteq cur
    BY <1>2, <2>1, NodeWriteIs
  <2> QED BY <1>1, <1>2, <1>3, <2>1, <2>2, QuietStep
<1>4. CASE ~Exists(server, patch[1])
  <2>1. UNCHANGED <<status, cur, fresh>>
    BY <1>1, <1>4 DEF Unstored
  <2> QED BY <1>1, <2>1, QuietStep
<1> QED BY <1>3, <1>4

\* So do users, the scheduler and the kubelet with that of a pod ...
LEMMA WorkloadWakes ==
  ASSUME SafeInv, WakeOK, Workload
  PROVE  WakeOK'
<1>1. TypeOK
  BY DEF SafeInv
<1>2. PICK p \in Pod, r \in PodStates : PodEvent(p, r)
  BY <1>1, WorkloadIs
<1>3. Change(p, WithPod(server, p, r))
  BY <1>2 DEF PodEvent, PodChange, WithPod
<1>4. p \in Objects /\ p # Sequence /\ WithPod(server, p, r) \in Clusters
  BY <1>1, OnlyAtPod, PassTypes, Kinds
<1> QED BY <1>3, <1>4, ChangeWakes

\* ... and whoever changes a node ...
LEMMA MachinesWakes ==
  ASSUME SafeInv, WakeOK, Machines
  PROVE  WakeOK'
<1>1. TypeOK
  BY DEF SafeInv
<1>2. PICK n \in Node, r \in NodeStates : NodeEvent(n, r)
  BY <1>1, MachinesAre
<1>3. Change(n, WithNode(server, n, r))
  BY <1>2 DEF NodeEvent, NodeChange, WithNode
<1>4. n \in Objects /\ n # Sequence /\ WithNode(server, n, r) \in Clusters
  BY <1>1, OnlyAtNode, PassTypes, Kinds
<1> QED BY <1>3, <1>4, ChangeWakes

\* ... and an edit with the sequence's.
LEMMA EditWakes ==
  ASSUME SafeInv, WakeOK, NEW m \in Methods, EditMethod(m)
  PROVE  WakeOK'
<1> DEFINE s == [server EXCEPT !.method = m]
<1>1. /\ server \in Clusters /\ Sequence \in Objects /\ m # server.method
      /\ Change(Sequence, s)
  BY PassTypes DEF EditMethod, SafeInv, TypeOK
<1>2. s \in Clusters /\ s.method = m
  BY <1>1, WithMethodIs
<1>3. s # server
  BY <1>1, <1>2
<1> HIDE DEF s
<1> QED BY <1>1, <1>2, <1>3, ChangeWakes

\* Every step keeps the invariant.
LEMMA WakeStep ==
  ASSUME SafeInv, SafeInv', WakeOK, [Next]_vars
  PROVE  WakeOK'
<1>1. CASE Workload
  BY <1>1, WorkloadWakes
<1>2. CASE Machines
  BY <1>2, MachinesWakes
<1>3. CASE \E m \in Methods : EditMethod(m)
  BY <1>3, EditWakes
<1>4. CASE Deliver
  BY <1>4, DeliveryWakes
<1>5. CASE Begin
  BY <1>5, BeginWakes
<1>6. ASSUME NEW n \in Node,
             \/ PatchLabel(n) \/ PatchLabelNotFound(n) \/ PatchLabelUnanswered(n)
             \/ PatchTaint(n) \/ KeepNode(n)
      PROVE  WakeOK'
  BY <1>6, PatchLabelWakes, PatchLabelNotFoundWakes, PatchLabelUnansweredWakes, PatchTaintWakes,
     KeepNodeWakes
<1>7. ASSUME NEW p \in Pod, AddRules(p) \/ AddRulesUnanswered(p) \/ RemoveGate(p)
      PROVE  WakeOK'
  BY <1>7, AddRulesWakes, AddRulesUnansweredWakes, RemoveGateWakes
<1>8. ASSUME NEW o \in Node \union Pod, NotFound(o) \/ Conflict(o) \/ PatchFails(o)
      PROVE  WakeOK'
  BY <1>8, RefusedWakes
<1>9. CASE KeepStatus \/ WriteStatus \/ StatusFails
  BY <1>9, EndWakes
<1>10. CASE LatePatch
  BY <1>10, LatePatchWakes
<1>11. CASE Crash \/ Resync
  BY <1>11 DEF Crash, Resync, WakeOK
<1>12. CASE UNCHANGED vars
  BY <1>12, QuietStep DEF vars, reading, writing
<1>13. CASE Reconcile
  BY <1>5, <1>6, <1>7, <1>8, <1>9, <1>13 DEF Reconcile
<1> QED BY <1>1, <1>2, <1>3, <1>4, <1>10, <1>11, <1>12, <1>13 DEF Next

\* Whatever failed, was lost or was read late: when nothing is queued and every copy is
\* current, each node's label and taint, each gate and the status are what the plan says
\* of the cluster.
THEOREM NothingIsLeftUndone == Spec => []NothingLeftUndone
<1>1. Init => SafeInv /\ WakeOK
  <2> SUFFICES ASSUME Init PROVE SafeInv /\ WakeOK
    OBVIOUS
  <2> QED BY SafeInit DEF Init, WakeOK
<1>2. SafeInv /\ WakeOK /\ [Next]_vars => (SafeInv /\ WakeOK)'
  <2> SUFFICES ASSUME SafeInv, WakeOK, [Next]_vars PROVE SafeInv' /\ WakeOK'
    OBVIOUS
  <2>1. SafeInv'
    BY SafeStep
  <2> QED BY <2>1, WakeStep
<1>3. SafeInv /\ WakeOK => NothingLeftUndone
  <2> SUFFICES ASSUME SafeInv, WakeOK, Idle
               PROVE  /\ \A n \in Node : Participating(server, n) =>
                            /\ server.node[n].label = WantLabel(server, n, server.method)
                            /\ server.node[n].taint = WantTaint(server, n, server.method)
                      /\ Ungate(server) = {}
                      /\ status = NodeScopedStatus(server, server.method)
    BY DEF NothingLeftUndone
  <2>1. ~queued /\ ~busy /\ cur = Objects
    BY DEF Idle
  <2>2. cache = server
    <3>1. server \in Clusters /\ cache \in Clusters /\ CopiesOK
      BY DEF SafeInv, TypeOK
    <3>2. /\ \A p \in Pod : cache.pod[p] = server.pod[p]
          /\ \A n \in Node : cache.node[n] = server.node[n]
          /\ cache.method = server.method
      BY <2>1, <3>1 DEF CopiesOK, Objects
    <3> QED BY <3>1, <3>2, ClusterEqual
  <2>3. DoneOK
    <3>1. Watched \subseteq cur
      BY <2>1 DEF Watched, Objects
    <3> QED BY <2>1, <3>1 DEF WakeOK
  <2>4. ASSUME NEW n \in Node, Participating(server, n)
        PROVE  /\ server.node[n].label = WantLabel(server, n, server.method)
               /\ server.node[n].taint = WantTaint(server, n, server.method)
    <3>1. AsPlanned(n)
      BY <2>2, <2>3, <2>4 DEF DoneOK, Exists, Participating
    <3> QED BY <2>2, <3>1 DEF AsPlanned, Plan
  <2>5. Ungate(server) = {} /\ status = NodeScopedStatus(server, server.method)
    BY <2>2, <2>3 DEF DoneOK, Plan
  <2> QED BY <2>4, <2>5
<1> QED BY <1>1, <1>2, <1>3, PTL DEF Spec
=============================================================================
