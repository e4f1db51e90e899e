-------------------------- MODULE SequenceLifeProofs --------------------------
(***************************************************************************)
(* Proofs about SequenceLife, for every set of pods and nodes: types, and  *)
(* that what a sequence adds to nodes and pods it sends under its          *)
(* finalizer, and rules, however late, are stored under it.                *)
(***************************************************************************)
EXTENDS SequenceLife, TLAPS

USE DEF Labels

-----------------------------------------------------------------------------
(* The inductive invariant.                                                *)

Protected(q) == q.life = "live" /\ q.fin

\* What the cached sequence tells of the server's: a finalizer that it shows has not been
\* taken from a sequence without the cache having seen the deletion.
CopiesOK ==
    /\ server.seq.fin => Exists(server.seq)
    /\ "seq" \in cur => cache.seq = server.seq
    /\ Protected(cache.seq) => server.seq.fin
    /\ cache.seq.life = "deleting" => ~Protected(server.seq)

\* What the reconciler holds, and knows of the server's sequence wherever it is: a sequence
\* it works for still has the finalizer, and one that it clears away after has no successor
\* with one.
ReconcileOK ==
    /\ "seq" \in fresh["reconciler"] =>
         (At("finalizer") \/ At("pods") \/ At("nodes")) /\ server.seq = mine
    /\ At("finalizer") =>
         /\ mine.life = "live" /\ ~mine.fin
         /\ "seq" \in fresh["reconciler"] => cache.seq = mine
    /\ At("pods") => mine.life = "deleting"
    /\ At("nodes") => Exists(mine)
    /\ At("pods") \/ At("nodes") =>
         /\ mine.life = "live" => server.seq.fin
         /\ mine.life = "deleting" => ~Protected(server.seq) /\ ~Protected(cache.seq)
    /\ frees # {} => At("pods") \/ At("nodes")

\* There is something to patch on every node that worker w is still to patch.
TurnOK(w) ==
    /\ todo[w] # {} => stage[w] = "nodes"
    /\ \A n \in todo[w] : LabelDue(aim[w], view[w][n]) \/ TaintDue(aim[w], view[w][n])

\* Only a reconcile of a live sequence puts keys on nodes.
TurnsOK ==
    /\ aim["reconciler"].sync # "no" => At("nodes") /\ mine.life = "live"
    /\ aim["cleaner"].sync = "no"
    /\ \A w \in Workers : TurnOK(w)

\* What may still come to pods: the pods that the reconciler is to release wait for it, and
\* rules that are late find the pod as the reconciler and the cache know it, under the
\* finalizer, so that a deletion comes upon it.
PodsLateOK ==
    /\ \A p \in Pod : p \in cur => cache.pod[p] = server.pod[p]
    /\ \A p \in frees \intersect fresh["reconciler"] :
         /\ server.pod[p] \in {"gated", "ruled"}
         /\ server.pod[p] = "gated" => p \in cur
    /\ \A p \in Pod : <<p, "ruled">> \in late =>
         /\ server.pod[p] = "gated" /\ p \in cur /\ server.seq.fin
         /\ mine.life = "deleting" => p \in frees \/ failed

\* What may still come to the sequence: a finalizer to one that nobody works for yet, and
\* the end to one for which nobody writes any more.
SeqLateOK ==
    /\ <<"seq", "finalizer">> \in late =>
         /\ server.seq.life = "live" /\ ~server.seq.fin /\ cache.seq = server.seq
         /\ ~At("pods") /\ ~At("nodes")
    /\ <<"seq", "gone">> \in late =>
         /\ server.seq.life = "deleting" /\ ~Protected(cache.seq)
         /\ At("pods") \/ At("nodes") => mine.life # "live"
         /\ \A p \in Pod : <<p, "ruled">> \notin late

IInv == TypeOK /\ CopiesOK /\ ReconcileOK /\ TurnsOK /\ PodsLateOK /\ SeqLateOK

-----------------------------------------------------------------------------
(* Types of what the actions store.                                        *)

NodeStates == [label : {"unset", "value", "released"}, taint : BOOLEAN]
PodStates  == {"absent", "gated", "ruled", "steered", "out"}

\* The sequence, a pod or a node of the cluster is replaced.
LEMMA ClusterUpdates ==
    ASSUME NEW s \in Clusters
    PROVE  /\ s.seq \in Sequences /\ s.pod \in Pods /\ s.node \in Nodes
           /\ \A q \in Sequences : LET t == [s EXCEPT !.seq = q] IN
                /\ (q.life = "deleting" => q.fin) => t \in Clusters
                /\ t.seq = q /\ t.pod = s.pod /\ t.node = s.node
           /\ \A f \in Pods : LET t == [s EXCEPT !.pod = f] IN
                t \in Clusters /\ t.seq = s.seq /\ t.pod = f /\ t.node = s.node
           /\ \A f \in Nodes : LET t == [s EXCEPT !.node = f] IN
                t \in Clusters /\ t.seq = s.seq /\ t.pod = s.pod /\ t.node = f
BY DEF Clusters

\* A pod changes its state.
LEMMA PodUpdates ==
    ASSUME NEW s \in Clusters, NEW p \in Pod, NEW st \in PodStates
    PROVE  LET t == [s EXCEPT !.pod[p] = st] IN
             /\ t \in Clusters /\ t.seq = s.seq /\ t.node = s.node
             /\ t.pod = [s.pod EXCEPT ![p] = st]
BY DEF Clusters, Pods, PodStates

\* A node gets a label or loses one, and likewise a taint.
LEMMA NodeUpdates ==
    ASSUME NEW s \in Clusters, NEW n \in Node
    PROVE  /\ s.node[n] \in NodeStates
           /\ \A l \in {"unset", "value", "released"} : LET t == [s EXCEPT !.node[n].label = l] IN
                /\ t \in Clusters /\ t.seq = s.seq /\ t.pod = s.pod
                /\ t.node = [s.node EXCEPT ![n].label = l]
           /\ \A b \in BOOLEAN : LET t == [s EXCEPT !.node[n].taint = b] IN
                /\ t \in Clusters /\ t.seq = s.seq /\ t.pod = s.pod
                /\ t.node = [s.node EXCEPT ![n].taint = b]
<1>1. s.node[n] \in NodeStates
  BY DEF Clusters, Nodes, NodeStates
<1>2. ASSUME NEW l \in {"unset", "value", "released"}
      PROVE  LET t == [s EXCEPT !.node[n].label = l] IN
                /\ t \in Clusters /\ t.seq = s.seq /\ t.pod = s.pod
                /\ t.node = [s.node EXCEPT ![n].label = l]
  BY DEF Clusters, Nodes
<1>3. ASSUME NEW b \in BOOLEAN
      PROVE  LET t == [s EXCEPT !.node[n].taint = b] IN
                /\ t \in Clusters /\ t.seq = s.seq /\ t.pod = s.pod
                /\ t.node = [s.node EXCEPT ![n].taint = b]
  BY DEF Clusters, Nodes
<1> QED BY <1>1, <1>2, <1>3

\* What is wanted on a node is a label and a taint.
LEMMA WantTypes ==
    ASSUME NEW a \in Aims, NEW node \in NodeStates
    PROVE  /\ WantLabel(a, node.label) \in {"unset", "value", "released"}
           /\ WantTaint(a, node.taint) \in BOOLEAN
BY DEF Aims, NodeStates, WantLabel, WantTaint

\* Nothing is held before the first reconcile and after each.
LEMMA NothingTypes ==
    /\ NoSeq \in Sequences /\ NoAim \in Aims /\ NoView \in Nodes /\ NoNode \in NodeStates
    /\ ~Exists(NoSeq) /\ ~NoSeq.fin
    /\ NoAim.sync = "no"
BY DEF NoSeq, Sequences, NoAim, Aims, NoView, Nodes, NoNode, NodeStates, Exists

-----------------------------------------------------------------------------
(* TypeOK, step by step.                                                   *)

LEMMA StoreTypes ==
    ASSUME TypeOK, NEW o \in Objects, NEW s \in Clusters, Store(o, s)
    PROVE  server' \in Clusters /\ cur' \subseteq Objects /\ late' \subseteq Writes
BY DEF TypeOK, Store

\* mishaps counts up to its bound.
LEMMA MishapTypes ==
    ASSUME TypeOK, Mishap \/ UNCHANGED mishaps
    PROVE  mishaps' \in 0 .. MaxMishaps
BY LifeAssumption DEF TypeOK, Mishap

\* What has been asked for may come later.
LEMMA GiveUpTypes ==
    ASSUME TypeOK, NEW requests \in SUBSET Writes, GiveUp(requests)
    PROVE  server' \in Clusters /\ cur' \subseteq Objects /\ late' \subseteq Writes
BY DEF TypeOK, GiveUp

\* Users and the scheduler change one object.
LEMMA ChangeTypes ==
    ASSUME TypeOK, NEW o \in Objects, NEW s \in Clusters, Change(o, s),
           Mishap \/ UNCHANGED mishaps
    PROVE  TypeOK'
<1>1. /\ server' \in Clusters /\ cur' \subseteq Objects /\ late' \subseteq Writes
      /\ mishaps' \in 0 .. MaxMishaps
  BY StoreTypes, MishapTypes DEF Change
<1>2. fresh' \in [Workers -> SUBSET Objects]
  BY DEF TypeOK, Change
<1> QED BY <1>1, <1>2 DEF TypeOK, Change

LEMMA UserTypes ==
    ASSUME TypeOK, User
    PROVE  TypeOK'
<1> USE DEF TypeOK
<1>0. "seq" \in Objects /\ Pod \subseteq Objects
  BY DEF Objects
<1>1. CASE \E method \in MethodsUsed : CreateSeq(method)
  <2>1. PICK method \in MethodsUsed : CreateSeq(method)
    BY <1>1
  <2>2. [life |-> "live", fin |-> FALSE, method |-> method] \in Sequences
    BY LifeAssumption DEF Sequences
  <2>3. [server EXCEPT !.seq = [life |-> "live", fin |-> FALSE, method |-> method]] \in Clusters
    BY <2>2, ClusterUpdates
  <2> QED BY <1>0, <2>1, <2>3, ChangeTypes DEF CreateSeq
<1>2. CASE \E method \in MethodsUsed : EditSeq(method)
  <2>1. PICK method \in MethodsUsed : EditSeq(method)
    BY <1>2
  <2>2. server.seq.life = "live" /\ server.seq \in Sequences /\ method \in {"NodeLabel", "Taint"}
    BY <2>1, ClusterUpdates, LifeAssumption DEF EditSeq
  <2>3. [server.seq EXCEPT !.method = method] \in Sequences
        /\ [server.seq EXCEPT !.method = method].life = "live"
    BY <2>2 DEF Sequences
  <2>4. [server EXCEPT !.seq = [server.seq EXCEPT !.method = method]] \in Clusters
    BY <2>3, ClusterUpdates
  <2>5. [server EXCEPT !.seq.method = method]
          = [server EXCEPT !.seq = [server.seq EXCEPT !.method = method]]
    BY DEF Clusters
  <2> QED BY <1>0, <2>1, <2>4, <2>5, ChangeTypes DEF EditSeq
<1>3. CASE DeleteSeq
  <2>1. server.seq \in Sequences
    BY ClusterUpdates
  <2> DEFINE q == IF server.seq.fin THEN [server.seq EXCEPT !.life = "deleting"] ELSE NoSeq
  <2>2. q \in Sequences /\ (q.life = "deleting" => q.fin)
    BY <2>1 DEF Sequences, NoSeq
  <2>3. [server EXCEPT !.seq = q] \in Clusters
    BY <2>2, ClusterUpdates
  <2> QED BY <1>0, <1>3, <2>3, ChangeTypes DEF DeleteSeq
<1>4. CASE \E p \in Pod : CreatePod(p) \/ DeletePod(p) \/ Bind(p)
  <2>1. PICK p \in Pod : CreatePod(p) \/ DeletePod(p) \/ Bind(p)
    BY <1>4
  <2>2. \A st \in PodStates : [server EXCEPT !.pod[p] = st] \in Clusters
    BY PodUpdates
  <2> QED BY <1>0, <2>1, <2>2, ChangeTypes DEF CreatePod, DeletePod, Bind, PodStates
<1> QED BY <1>1, <1>2, <1>3, <1>4 DEF User

\* Events replace a part of the cache.
LEMMA DeliverTypes ==
    ASSUME TypeOK, DeliverSeq \/ DeliverPods \/ DeliverNodes
    PROVE  TypeOK'
<1>1. server.seq \in Sequences /\ server.pod \in Pods /\ server.node \in Nodes
      /\ (server.seq.life = "deleting" => server.seq.fin)
  BY DEF TypeOK, Clusters
<1>2. /\ [cache EXCEPT !.seq = server.seq] \in Clusters
      /\ [cache EXCEPT !.pod = server.pod] \in Clusters
      /\ [cache EXCEPT !.node = server.node] \in Clusters
  BY <1>1, ClusterUpdates DEF TypeOK
<1>3. cache' \in Clusters /\ cur' \subseteq Objects
  BY <1>2 DEF TypeOK, DeliverSeq, DeliverPods, DeliverNodes, Deliver, Objects
<1>4. queued' \in BOOLEAN
  BY DEF TypeOK, DeliverSeq, DeliverPods, DeliverNodes, Exists
<1> QED BY <1>3, <1>4 DEF TypeOK, DeliverSeq, DeliverPods, DeliverNodes, Deliver, working

\* After Return the reconciler holds nothing.
LEMMA ReturnTypes ==
    ASSUME TypeOK, NEW error \in BOOLEAN, Return(error),
           server' \in Clusters, cur' \subseteq Objects, late' \subseteq Writes,
           mishaps' \in 0 .. MaxMishaps
    PROVE  TypeOK'
<1>1. stage' \in Stages /\ stage'["reconciler"] = "idle"
  BY DEF TypeOK, Return, GoTo, Stages, Workers
<1>2. /\ aim' \in [Workers -> Aims] /\ view' \in [Workers -> Nodes]
      /\ fresh' \in [Workers -> SUBSET Objects] /\ todo' \in [Workers -> SUBSET Node]
  BY NothingTypes DEF TypeOK, Return, Forget, Workers
<1> QED BY <1>1, <1>2, NothingTypes DEF TypeOK, Return

LEMMA UpdateTypes ==
    ASSUME TypeOK, NEW q \in Sequences, q.life = "deleting" => q.fin, Update(q)
    PROVE  TypeOK'
<1>1. [server EXCEPT !.seq = q] \in Clusters /\ "seq" \in Objects
  BY ClusterUpdates DEF TypeOK, Objects
<1>2. server' \in Clusters /\ cur' \subseteq Objects /\ late' \subseteq Writes
  <2>1. CASE Store("seq", [server EXCEPT !.seq = q])
    BY <1>1, <2>1, StoreTypes
  <2>2. CASE UNCHANGED <<server, cur, late>>
    BY <2>2 DEF TypeOK
  <2> DEFINE requests == {<<o, IF q = NoSeq THEN "gone" ELSE "finalizer">> :
                              o \in {"seq"} \intersect fresh["reconciler"]}
  <2>3. CASE GiveUp(requests)
    <3>1. requests \in SUBSET Writes
      BY DEF Writes
    <3> QED BY <2>3, <3>1, GiveUpTypes
  <2> QED BY <2>1, <2>2, <2>3 DEF Update
<1>3. mishaps' \in 0 .. MaxMishaps
  BY MishapTypes DEF Update, GiveUp
<1>4. \E error \in BOOLEAN : Return(error)
  BY DEF Update, Exists
<1> QED BY <1>2, <1>3, <1>4, ReturnTypes

\* Worker w turns to nodes that it has listed.
LEMMA LookTypes ==
    ASSUME TypeOK, NEW w \in Workers, NEW a, Look(w, NodesDue(a))
    PROVE  view' \in [Workers -> Nodes] /\ todo' \in [Workers -> SUBSET Node]
<1>1. NodesDue(a) \subseteq Node
  BY DEF NodesDue
<1>2. [n \in Node |-> IF n \in NodesDue(a) THEN cache.node[n] ELSE NoNode] \in Nodes
  BY NodeUpdates, NothingTypes DEF TypeOK, Nodes, NodeStates
<1> QED BY <1>1, <1>2 DEF TypeOK, Look

LEMMA BeginTypes ==
    ASSUME TypeOK, Begin
    PROVE  TypeOK'
<1> USE DEF TypeOK
<1> DEFINE q == cache.seq
<1>1. q \in Sequences /\ (q.life = "deleting" => q.fin)
  BY DEF Clusters
<1>2. Phase(q) \in {"idle", "finalizer", "pods", "nodes"} /\ Aim(q) \in Aims
      /\ (Phase(q) \in {"pods", "nodes"} => q.fin)
  BY <1>1 DEF Phase, Aim, Aims, PendingRequiredKeys, Sequences, Exists
<1>3. stage' \in Stages /\ stage'["reconciler"] = Phase(q)
  BY <1>2 DEF Begin, GoTo, Stages, Workers
<1>4. mine' \in Sequences /\ (stage'["reconciler"] \in {"pods", "nodes"} => mine'.fin)
  BY <1>1, <1>2, <1>3, NothingTypes DEF Begin
<1>5. aim' \in [Workers -> Aims] /\ frees' \subseteq Pod /\ fresh' \in [Workers -> SUBSET Objects]
  <2>1. ASSUME NEW S, Hold(S) PROVE fresh' \in [Workers -> SUBSET Objects]
    BY <2>1 DEF Hold, Workers
  <2>2. [aim EXCEPT !["reconciler"] = Aim(q)] \in [Workers -> Aims]
    BY <1>2
  <2>3. GatedIn(cache) \subseteq Pod
    BY DEF GatedIn
  <2> QED BY <1>2, <2>1, <2>2, <2>3 DEF Begin
<1>6. view' \in [Workers -> Nodes] /\ todo' \in [Workers -> SUBSET Node]
  <2>1. CASE Phase(q) = "nodes"
    BY <2>1, LookTypes DEF Begin, Workers
  <2>2. CASE Phase(q) # "nodes"
    BY <1>2, <2>2 DEF Begin
  <2> QED BY <2>1, <2>2
<1> QED BY <1>3, <1>4, <1>5, <1>6 DEF Begin

\* Writes to pods.
LEMMA GoOnTypes ==
    ASSUME TypeOK, NEW p \in Pod, NEW error \in BOOLEAN, GoOn(p, error),
           server' \in Clusters, cur' \subseteq Objects, late' \subseteq Writes,
           mishaps' \in 0 .. MaxMishaps,
           UNCHANGED fresh
    PROVE  TypeOK'
BY DEF TypeOK, GoOn

LEMMA PodStepTypes ==
    ASSUME TypeOK, NEW p \in Pod, AddRules(p) \/ RemoveGate(p) \/ PodPatchFails(p)
    PROVE  TypeOK'
<1>1. p \in Objects /\ \A st \in PodStates : [server EXCEPT !.pod[p] = st] \in Clusters
  BY PodUpdates DEF TypeOK, Objects
<1>2. mishaps' \in 0 .. MaxMishaps
  BY MishapTypes DEF AddRules, RemoveGate, PodPatchFails, GiveUp
<1>3. CASE AddRules(p)
  <2>1. server' \in Clusters /\ cur' \subseteq Objects /\ late' \subseteq Writes
    BY <1>1, <1>3, StoreTypes DEF AddRules, PodStates
  <2>2. CASE UNCHANGED <<cache, full, queued, working, mishaps>>
    BY <2>1, <2>2 DEF TypeOK, working
  <2>3. CASE GoOn(p, TRUE) /\ UNCHANGED fresh
    BY <1>2, <2>1, <2>3, GoOnTypes
  <2> QED BY <1>3, <2>2, <2>3 DEF AddRules
<1>4. CASE RemoveGate(p)
  <2>1. PICK st \in PodStates : Store(p, [server EXCEPT !.pod[p] = st])
    <3>1. CASE server.pod[p] = "ruled"
      BY <1>4, <3>1 DEF RemoveGate, PodStates
    <3>2. CASE server.pod[p] # "ruled"
      BY <1>4, <3>2 DEF RemoveGate, PodStates
    <3> QED BY <3>1, <3>2
  <2>2. server' \in Clusters /\ cur' \subseteq Objects /\ late' \subseteq Writes
    BY <1>1, <2>1, StoreTypes
  <2> QED BY <1>2, <1>4, <2>2, GoOnTypes DEF RemoveGate
<1>5. CASE PodPatchFails(p)
  <2>1. \E error \in BOOLEAN : GoOn(p, error)
    BY <1>5 DEF PodPatchFails
  <2>2. server' \in Clusters /\ cur' \subseteq Objects /\ late' \subseteq Writes
    <3> DEFINE requests == {<<o, Patched(o)>> : o \in {p} \intersect fresh["reconciler"]}
    <3>1. requests \in SUBSET Writes
      BY DEF Writes, Patched
    <3>2. CASE GiveUp(requests)
      BY <3>1, <3>2, GiveUpTypes
    <3>3. CASE UNCHANGED <<server, cur, late>>
      BY <3>3 DEF TypeOK
    <3> QED BY <1>5, <3>2, <3>3 DEF PodPatchFails
  <2> QED BY <1>2, <1>5, <2>1, <2>2, GoOnTypes DEF PodPatchFails
<1> QED BY <1>3, <1>4, <1>5

LEMMA ListNodesTypes ==
    ASSUME TypeOK, ListNodes
    PROVE  TypeOK'
<1>1. stage' \in Stages /\ mine' = mine /\ mine.fin
  BY DEF TypeOK, ListNodes, GoTo, Stages, Workers, NodesLeft, At
<1>2. view' \in [Workers -> Nodes] /\ todo' \in [Workers -> SUBSET Node]
  BY LookTypes DEF ListNodes, Workers
<1>3. fresh' \in [Workers -> SUBSET Objects]
  BY DEF TypeOK, ListNodes, Workers
<1> QED BY <1>1, <1>2, <1>3 DEF TypeOK, ListNodes

LEMMA EndTypes ==
    ASSUME TypeOK, AddFinalizer \/ End
    PROVE  TypeOK'
<1>1. CASE AddFinalizer
  <2>1. [mine EXCEPT !.fin = TRUE] \in Sequences /\ [mine EXCEPT !.fin = TRUE].fin
    BY DEF TypeOK, Sequences
  <2> QED BY <1>1, <2>1, UpdateTypes DEF AddFinalizer
<1>2. CASE End
  <2>1. CASE Update(NoSeq)
    BY <2>1, UpdateTypes, NothingTypes DEF NoSeq
  <2>2. CASE Return(failed) /\ UNCHANGED <<server, cur, late, mishaps>>
    BY <2>2, ReturnTypes DEF TypeOK
  <2> QED BY <1>2, <2>1, <2>2 DEF End
<1> QED BY <1>1, <1>2

\* Writes to nodes.
LEMMA NextNodeTypes ==
    ASSUME TypeOK, NEW w \in Workers, NEW n \in Node, NEW error \in BOOLEAN,
           NextNode(w, n, error),
           server' \in Clusters, cur' \subseteq Objects, late' \subseteq Writes,
           mishaps' \in 0 .. MaxMishaps,
           fresh' \in [Workers -> SUBSET Objects]
    PROVE  TypeOK'
<1>1. [view[w] EXCEPT ![n] = NoNode] \in Nodes
  BY NothingTypes DEF TypeOK, Nodes, NodeStates
<1>2. view' \in [Workers -> Nodes] /\ todo' \in [Workers -> SUBSET Node] /\ failed' \in BOOLEAN
  BY <1>1 DEF TypeOK, NextNode
<1> QED BY <1>2 DEF TypeOK, NextNode

LEMMA NodeStepTypes ==
    ASSUME TypeOK, NEW w \in Workers, NEW n \in Node,
           PatchLabel(w, n) \/ PatchTaint(w, n) \/ NodePatchFails(w, n)
    PROVE  TypeOK'
<1>1. n \in Objects /\ view[w][n] \in NodeStates /\ aim[w] \in Aims
  BY DEF TypeOK, Objects, Nodes, NodeStates
<1>2. /\ NewLabel(w, n) \in Clusters
      /\ [server EXCEPT !.node[n].taint = WantTaint(aim[w], view[w][n].taint)] \in Clusters
  <2>1. /\ WantLabel(aim[w], view[w][n].label) \in {"unset", "value", "released"}
        /\ WantTaint(aim[w], view[w][n].taint) \in BOOLEAN
    BY <1>1, WantTypes
  <2>2. server \in Clusters
    BY DEF TypeOK
  <2>3. NewLabel(w, n) \in Clusters
    BY <2>1, <2>2, NodeUpdates DEF NewLabel
  <2>4. [server EXCEPT !.node[n].taint = WantTaint(aim[w], view[w][n].taint)] \in Clusters
    BY <2>1, <2>2, NodeUpdates
  <2> QED BY <2>3, <2>4
<1>3. server' \in Clusters /\ cur' \subseteq Objects /\ late' \subseteq Writes
  <2>1. NodeRequests(w, n) \in SUBSET Writes
    <3>1. <<n, WantLabel(aim[w], view[w][n].label)>> \in Writes
      BY <1>1, WantTypes DEF Writes
    <3>2. <<n, "tainted">> \in Writes /\ <<n, "untainted">> \in Writes
      BY DEF Writes
    <3> QED BY <3>1, <3>2 DEF NodeRequests
  <2>2. CASE GiveUp(NodeRequests(w, n))
    BY <2>1, <2>2, GiveUpTypes
  <2>3. CASE UNCHANGED <<server, cur, late>>
    BY <2>3 DEF TypeOK
  <2> QED BY <1>1, <1>2, <2>2, <2>3, StoreTypes DEF PatchLabel, PatchTaint, NodePatchFails
<1>4. mishaps' \in 0 .. MaxMishaps
  BY MishapTypes DEF PatchLabel, PatchTaint, NodePatchFails, GiveUp
<1>5. CASE PatchLabel(w, n)
  <2> DEFINE old == IF server' = server THEN {} ELSE {n}
             more == TaintDue(aim[w], server'.node[n])
  <2>1. fresh' = [v \in Workers |-> IF v # w THEN fresh[v] \ old
                                    ELSE IF more THEN fresh[v] \union {n} ELSE fresh[v] \ {n}]
    BY <1>5 DEF PatchLabel
  <2>2. fresh' \in [Workers -> SUBSET Objects]
    BY <1>1, <2>1 DEF TypeOK
  <2>3. CASE NextNode(w, n, FALSE)
    BY <1>3, <1>4, <2>2, <2>3, NextNodeTypes
  <2>4. CASE /\ view' = [view EXCEPT ![w][n] = server'.node[n]]
             /\ UNCHANGED <<cache, full, queued, stage, mine, aim, todo, frees, failed>>
    <3>1. server'.node[n] \in NodeStates
      BY <1>3, NodeUpdates
    <3>2. [view[w] EXCEPT ![n] = server'.node[n]] \in Nodes
      BY <3>1 DEF TypeOK, Nodes, NodeStates
    <3>3. view' \in [Workers -> Nodes]
      BY <2>4, <3>2 DEF TypeOK
    <3> QED BY <1>3, <1>4, <2>2, <2>4, <3>3 DEF TypeOK
  <2> QED BY <1>5, <2>3, <2>4 DEF PatchLabel
<1>6. CASE PatchTaint(w, n)
  <2>1. fresh' \in [Workers -> SUBSET Objects]
    BY <1>6 DEF PatchTaint, TypeOK
  <2> QED BY <1>3, <1>4, <1>6, <2>1, NextNodeTypes DEF PatchTaint
<1>7. CASE NodePatchFails(w, n)
  <2>1. fresh' \in [Workers -> SUBSET Objects]
    BY <1>7 DEF NodePatchFails, TypeOK
  <2> QED BY <1>3, <1>4, <1>7, <2>1, NextNodeTypes DEF NodePatchFails
<1> QED BY <1>5, <1>6, <1>7

\* The cleaner between its patches.
LEMMA CleanTypes ==
    ASSUME TypeOK, CleanList \/ CleanLook \/ CleanDone
    PROVE  TypeOK'
<1>1. ASSUME NEW st \in {"idle", "listed", "nodes"}, CleanTo(st)
      PROVE  stage' \in Stages /\ stage'["reconciler"] = stage["reconciler"]
  BY <1>1 DEF TypeOK, CleanTo, Stages, Workers
<1>2. ASSUME Forget("cleaner")
      PROVE  /\ aim' \in [Workers -> Aims] /\ view' \in [Workers -> Nodes]
             /\ fresh' \in [Workers -> SUBSET Objects] /\ todo' \in [Workers -> SUBSET Node]
  BY <1>2, NothingTypes DEF TypeOK, Forget, Workers
<1>3. CASE CleanList
  <2>1. aim' \in [Workers -> Aims]
    BY <1>3 DEF TypeOK, CleanList, Exists, Aims, Workers
  <2> QED BY <1>1, <1>3, <2>1 DEF TypeOK, CleanList
<1>4. CASE CleanLook
  <2> DEFINE a == [aim["cleaner"] EXCEPT !.used = PendingRequiredKeys(cache)]
  <2>1. a \in Aims
    BY DEF TypeOK, Aims, Workers, PendingRequiredKeys
  <2>2. CASE CleanTo("idle") /\ Forget("cleaner")
    BY <1>1, <1>2, <1>4, <2>2 DEF TypeOK, CleanLook
  <2>3. CASE /\ CleanTo("nodes") /\ Look("cleaner", NodesDue(a))
             /\ aim' = [aim EXCEPT !["cleaner"] = a]
             /\ fresh' = [fresh EXCEPT !["cleaner"] = cur \intersect NodesDue(a)]
    <3>1. view' \in [Workers -> Nodes] /\ todo' \in [Workers -> SUBSET Node]
      BY <2>3, LookTypes DEF Workers
    <3>2. aim' \in [Workers -> Aims] /\ fresh' \in [Workers -> SUBSET Objects]
      BY <2>1, <2>3 DEF TypeOK, Workers
    <3> QED BY <1>1, <1>4, <2>3, <3>1, <3>2 DEF TypeOK, CleanLook
  <2> QED BY <1>4, <2>2, <2>3 DEF CleanLook
<1>5. CASE CleanDone
  BY <1>1, <1>2, <1>5 DEF TypeOK, CleanDone
<1> QED BY <1>3, <1>4, <1>5

\* A late write makes of the cluster what its request says.
LEMMA CarriedOutTypes ==
    ASSUME TypeOK, NEW r \in late
    PROVE  /\ r[1] \in Objects
           /\ CarriedOut(r[1], r[2]) \in Clusters
<1> USE DEF TypeOK, Objects
<1>1. CASE \E what \in {"finalizer", "gone"} : r = <<"seq", what>>
  <2>1. server.seq \in Sequences /\ [server.seq EXCEPT !.fin = TRUE] \in Sequences
        /\ [server.seq EXCEPT !.fin = TRUE].fin
    BY DEF Clusters, Sequences
  <2>2. [server EXCEPT !.seq.fin = TRUE] = [server EXCEPT !.seq = [server.seq EXCEPT !.fin = TRUE]]
    BY DEF Clusters
  <2>3. [server EXCEPT !.seq = [server.seq EXCEPT !.fin = TRUE]] \in Clusters
    BY <2>1, ClusterUpdates
  <2>4. [server EXCEPT !.seq = NoSeq] \in Clusters
    BY ClusterUpdates, NothingTypes DEF NoSeq
  <2> QED BY <1>1, <2>2, <2>3, <2>4 DEF CarriedOut
<1>2. CASE \E p \in Pod, what \in {"ruled", "steered", "out"} : r = <<p, what>>
  <2>1. PICK p \in Pod, what \in {"ruled", "steered", "out"} : r = <<p, what>>
    BY <1>2
  <2>2. CarriedOut(r[1], r[2]) = [server EXCEPT !.pod[p] = what]
    BY <2>1 DEF CarriedOut
  <2>3. [server EXCEPT !.pod[p] = what] \in Clusters
    BY <2>1, PodUpdates DEF PodStates
  <2> QED BY <2>1, <2>2, <2>3
<1>3. CASE \E n \in Node, what \in Labels \union {"tainted", "untainted"} : r = <<n, what>>
  <2>1. PICK n \in Node, what \in Labels \union {"tainted", "untainted"} : r = <<n, what>>
    BY <1>3
  <2>2. CASE what \in Labels
    <3>1. CarriedOut(r[1], r[2]) = [server EXCEPT !.node[n].label = what]
      BY <2>1, <2>2 DEF CarriedOut
    <3>2. [server EXCEPT !.node[n].label = what] \in Clusters
      BY <2>2, NodeUpdates
    <3> QED BY <2>1, <3>1, <3>2
  <2>3. CASE what \in {"tainted", "untainted"}
    <3>1. CarriedOut(r[1], r[2]) = [server EXCEPT !.node[n].taint = (what = "tainted")]
      BY <2>1, <2>3 DEF CarriedOut
    <3>2. [server EXCEPT !.node[n].taint = (what = "tainted")] \in Clusters
      BY NodeUpdates
    <3> QED BY <2>1, <3>1, <3>2
  <2> QED BY <2>2, <2>3
<1> QED BY <1>1, <1>2, <1>3 DEF Writes

LEMMA LateWriteTypes ==
    ASSUME TypeOK, LateWrite
    PROVE  TypeOK'
<1>1. PICK r \in late : LET s == CarriedOut(r[1], r[2]) IN
         /\ server' = s
         /\ cur' = IF s = server THEN cur ELSE cur \ {r[1]}
         /\ late' = {q \in late \ {r} : s = server \/ q[1] # r[1] \/ q[2] \in Labels}
         /\ fresh' = [w \in Workers |-> IF s = server THEN fresh[w] ELSE fresh[w] \ {r[1]}]
         /\ UNCHANGED <<cache, full, queued, stage, mine, aim, view, todo, frees, failed, mishaps>>
  BY DEF LateWrite
<1>2. server' \in Clusters /\ cur' \subseteq Objects /\ late' \subseteq Writes
  BY <1>1, CarriedOutTypes DEF TypeOK
<1>3. fresh' \in [Workers -> SUBSET Objects]
  BY <1>1 DEF TypeOK
<1> QED BY <1>1, <1>2, <1>3 DEF TypeOK

LEMMA RestartTypes ==
    ASSUME TypeOK, Restart
    PROVE  TypeOK'
<1>1. mishaps' \in 0 .. MaxMishaps
  BY MishapTypes DEF Restart
<1>2. stage' \in Stages /\ stage'["reconciler"] = "idle"
  BY DEF Restart, Stages, Workers
<1>3. /\ aim' \in [Workers -> Aims] /\ view' \in [Workers -> Nodes]
      /\ fresh' \in [Workers -> SUBSET Objects] /\ todo' \in [Workers -> SUBSET Node]
  BY NothingTypes DEF Restart
<1> QED BY <1>1, <1>2, <1>3, NothingTypes DEF TypeOK, Restart

LEMMA InitTypes ==
    ASSUME Init
    PROVE  TypeOK
<1>1. [NoSeq EXCEPT !.life = "unborn"] \in Sequences
      /\ [NoSeq EXCEPT !.life = "unborn"].life = "unborn"
  BY DEF NoSeq, Sequences
<1>2. [p \in Pod |-> "absent"] \in Pods /\ NoView \in Nodes
  BY NothingTypes DEF Pods
<1>3. server \in Clusters
  BY <1>1, <1>2 DEF Init, Clusters
<1>4. stage \in Stages /\ stage["reconciler"] = "idle"
  BY DEF Init, Stages, Workers
<1>5. /\ aim \in [Workers -> Aims] /\ view \in [Workers -> Nodes]
      /\ fresh \in [Workers -> SUBSET Objects] /\ todo \in [Workers -> SUBSET Node]
  BY NothingTypes DEF Init
<1>6. mishaps \in 0 .. MaxMishaps /\ mine \in Sequences
  BY NothingTypes, LifeAssumption DEF Init
<1>7. cache \in Clusters /\ cur \subseteq Objects /\ late \subseteq Writes
      /\ full \in BOOLEAN /\ queued \in BOOLEAN /\ frees \subseteq Pod /\ failed \in BOOLEAN
  BY <1>3 DEF Init
<1> QED BY <1>3, <1>4, <1>5, <1>6, <1>7 DEF TypeOK

LEMMA TypeStep ==
    ASSUME TypeOK, [Next]_vars
    PROVE  TypeOK'
<1>1. CASE \E w \in Workers : OnNodes(w)
  BY <1>1, NodeStepTypes DEF OnNodes
<1>2. CASE Reconcile /\ ~OnNodes("reconciler")
  BY <1>2, BeginTypes, EndTypes, ListNodesTypes, PodStepTypes DEF Reconcile
<1>3. CASE Clean /\ ~OnNodes("cleaner")
  BY <1>3, CleanTypes DEF Clean
<1>4. CASE User \/ DeliverSeq \/ DeliverPods \/ DeliverNodes \/ LateWrite \/ Restart
  BY <1>4, UserTypes, DeliverTypes, LateWriteTypes, RestartTypes
<1>5. CASE Resync \/ UNCHANGED vars
  BY <1>5 DEF Resync, TypeOK, vars, working
<1> QED BY <1>1, <1>2, <1>3, <1>4, <1>5 DEF Next, Reconcile, Clean, Workers

\* Every variable keeps its type; a deletion never waits without a finalizer.
THEOREM TypeCorrect == Spec => []TypeOK
<1>1. Init => TypeOK
  BY InitTypes
<1>2. TypeOK /\ [Next]_vars => TypeOK'
  BY TypeStep
<1> QED BY <1>1, <1>2, PTL DEF Spec

-----------------------------------------------------------------------------
(* The copies of the sequence, and the turns, step by step.                *)

\* Steps that leave every copy of the sequence, and the reconciler, where they are.
LEMMA SeqKept ==
    ASSUME IInv, server'.seq = server.seq, cache'.seq = cache.seq, mine' = mine,
           "seq" \in cur' => "seq" \in cur,
           stage'["reconciler"] = stage["reconciler"],
           "seq" \in fresh'["reconciler"] => "seq" \in fresh["reconciler"],
           frees' \subseteq frees
    PROVE  CopiesOK' /\ ReconcileOK'
<1>1. CopiesOK'
  BY DEF IInv, CopiesOK, Protected, Exists
<1>2. ReconcileOK'
  BY DEF IInv, ReconcileOK, Protected, Exists, At
<1> QED BY <1>1, <1>2

\* Steps that patch no node.
LEMMA TurnsKept ==
    ASSUME IInv, UNCHANGED <<stage, mine, aim, view, todo>>
    PROVE  TurnsOK'
BY DEF IInv, TurnsOK, TurnOK, At, LabelDue, TaintDue

\* After Return the reconciler knows nothing, and the cleaner goes on.
LEMMA ReturnOK ==
    ASSUME IInv, NEW error, Return(error)
    PROVE  ReconcileOK' /\ TurnsOK'
<1>1. /\ stage'["reconciler"] = "idle" /\ fresh'["reconciler"] = {} /\ frees' = {}
      /\ todo'["reconciler"] = {} /\ aim'["reconciler"].sync = "no"
  BY NothingTypes DEF IInv, TypeOK, Return, GoTo, Forget, Stages, Workers
<1>2. /\ stage'["cleaner"] = stage["cleaner"] /\ todo'["cleaner"] = todo["cleaner"]
      /\ aim'["cleaner"] = aim["cleaner"] /\ view'["cleaner"] = view["cleaner"]
  BY DEF IInv, TypeOK, Return, GoTo, Forget, Stages, Workers
<1>3. ReconcileOK'
  BY <1>1 DEF ReconcileOK, At
<1>4. TurnsOK'
  BY <1>1, <1>2 DEF IInv, TurnsOK, TurnOK, LabelDue, TaintDue, Workers
<1> QED BY <1>3, <1>4

\* A changed object is no longer current, and nobody holds its current revision.
LEMMA ChangeEffect ==
    ASSUME NEW o, NEW s, Change(o, s)
    PROVE  /\ UNCHANGED <<cache, stage, mine, aim, view, todo, frees>> /\ server' = s
           /\ fresh'["reconciler"] = fresh["reconciler"] \ {o}
           /\ cur' \subseteq cur /\ (o \in cur' => server' = server)
BY DEF Change, Store, Workers

\* Users make, edit and delete sequences; only the finalizer lasts.
LEMMA UserOK ==
    ASSUME IInv, User
    PROVE  CopiesOK' /\ ReconcileOK' /\ TurnsOK'
<1>2. TurnsOK'
  BY TurnsKept DEF User, CreateSeq, EditSeq, DeleteSeq, CreatePod, DeletePod, Bind, Change
<1>3. CASE \E p \in Pod : CreatePod(p) \/ DeletePod(p) \/ Bind(p)
  <2>1. PICK p \in Pod, st \in PodStates : Change(p, [server EXCEPT !.pod[p] = st])
    BY <1>3 DEF CreatePod, DeletePod, Bind, PodStates
  <2>2. server'.seq = server.seq
    <3>1. server' = [server EXCEPT !.pod[p] = st]
      BY <2>1, ChangeEffect
    <3> QED BY <3>1, PodUpdates DEF IInv, TypeOK
  <2> QED BY <1>2, <2>1, <2>2, ChangeEffect, SeqKept
<1>4. ASSUME NEW q \in Sequences, q.life = "deleting" => q.fin,
             Change("seq", [server EXCEPT !.seq = q]),
             q.fin <=> server.seq.fin,
             q.fin => Exists(q),
             q.life = "live" => server.seq.life = "live" \/ ~q.fin
      PROVE  CopiesOK' /\ ReconcileOK' /\ TurnsOK'
  <2>1. server \in Clusters /\ server'.seq = q
    <3>1. server' = [server EXCEPT !.seq = q]
      BY <1>4, ChangeEffect
    <3> QED BY <3>1, ClusterUpdates DEF IInv, TypeOK
  <2>2. /\ "seq" \notin fresh'["reconciler"]
        /\ "seq" \in cur' => server' = server /\ "seq" \in cur
        /\ UNCHANGED <<cache, stage, mine, frees>>
    BY <1>4, ChangeEffect
  <2>3. Protected(q) => Protected(server.seq)
    BY <1>4 DEF Protected
  <2>4. CopiesOK'
    BY <1>4, <2>1, <2>2, <2>3 DEF IInv, CopiesOK, Protected
  <2>5. ReconcileOK'
    BY <1>4, <2>1, <2>2, <2>3 DEF IInv, ReconcileOK, At, Protected
  <2> QED BY <1>2, <2>4, <2>5
<1>5. CASE \E method \in MethodsUsed : CreateSeq(method)
  <2>1. PICK method \in MethodsUsed : CreateSeq(method)
    BY <1>5
  <2>2. [life |-> "live", fin |-> FALSE, method |-> method] \in Sequences
    BY LifeAssumption DEF Sequences
  <2>3. ~server.seq.fin
    BY <2>1 DEF CreateSeq, IInv, CopiesOK, Exists
  <2> QED BY <1>4, <2>1, <2>2, <2>3 DEF CreateSeq
<1>6. CASE \E method \in MethodsUsed : EditSeq(method)
  <2>1. PICK method \in MethodsUsed : EditSeq(method)
    BY <1>6
  <2>2. server.seq.life = "live" /\ server.seq \in Sequences /\ method \in {"NodeLabel", "Taint"}
    BY <2>1, ClusterUpdates, LifeAssumption DEF EditSeq, IInv, TypeOK
  <2> DEFINE q == [server.seq EXCEPT !.method = method]
  <2>3. q \in Sequences /\ q.life = "live" /\ q.fin = server.seq.fin
    BY <2>2 DEF Sequences
  <2>4. Change("seq", [server EXCEPT !.seq = q])
    <3>1. [server EXCEPT !.seq.method = method] = [server EXCEPT !.seq = q]
      BY DEF IInv, TypeOK, Clusters
    <3> QED BY <2>1, <3>1 DEF EditSeq
  <2> QED BY <1>4, <2>2, <2>3, <2>4 DEF Exists
<1>7. CASE DeleteSeq
  <2>1. server.seq \in Sequences
    BY ClusterUpdates DEF IInv, TypeOK
  <2> DEFINE q == IF server.seq.fin THEN [server.seq EXCEPT !.life = "deleting"] ELSE NoSeq
  <2>2. q \in Sequences /\ q.life # "live" /\ q.fin = server.seq.fin /\ (q.fin => Exists(q))
    BY <2>1 DEF Sequences, NoSeq, Exists
  <2>3. q.life = "deleting" => q.fin
    BY <2>1 DEF Sequences, NoSeq
  <2>4. Change("seq", [server EXCEPT !.seq = q])
    BY <1>7 DEF DeleteSeq
  <2> HIDE DEF q
  <2> QED BY <1>4, <2>2, <2>3, <2>4
<1> QED BY <1>3, <1>5, <1>6, <1>7 DEF User

\* Events: the cache sees the server's sequence, or the same one as before.
LEMMA DeliverOK ==
    ASSUME IInv, DeliverSeq \/ DeliverPods \/ DeliverNodes
    PROVE  CopiesOK' /\ ReconcileOK' /\ TurnsOK'
<1> USE DEF Deliver, working
<1>1. TurnsOK'
  BY TurnsKept DEF DeliverSeq, DeliverPods, DeliverNodes
<1>2. CASE DeliverSeq
  <2>1. cache'.seq = server.seq /\ cache \in Clusters
    BY <1>2, ClusterUpdates DEF DeliverSeq, IInv, TypeOK, Clusters
  <2>2. UNCHANGED <<server, stage, mine, fresh, frees>>
    BY <1>2 DEF DeliverSeq
  <2>3. CopiesOK'
    BY <2>1, <2>2 DEF IInv, CopiesOK, Protected
  <2>4. ReconcileOK'
    BY <2>1, <2>2 DEF IInv, ReconcileOK, At, Protected, Exists
  <2> QED BY <1>1, <2>3, <2>4
<1>3. CASE DeliverPods \/ DeliverNodes
  <2>1. cache'.seq = cache.seq
    BY <1>3, ClusterUpdates DEF DeliverPods, DeliverNodes, IInv, TypeOK, Clusters
  <2>2. "seq" \in cur' => "seq" \in cur
    BY <1>3, LifeAssumption DEF DeliverPods, DeliverNodes
  <2>3. UNCHANGED <<server, stage, mine, fresh, frees>>
    BY <1>3 DEF DeliverPods, DeliverNodes
  <2> QED BY <1>1, <2>1, <2>2, <2>3, SeqKept
<1> QED BY <1>2, <1>3

\* Begin: the reconciler starts with what the cache shows.
LEMMA BeginOK ==
    ASSUME IInv, Begin
    PROVE  CopiesOK' /\ ReconcileOK' /\ TurnsOK'
<1> DEFINE q == cache.seq
<1>1. q \in Sequences /\ (q.life = "deleting" => q.fin)
  BY DEF IInv, TypeOK, Clusters
<1>2. At("idle") /\ stage'["reconciler"] = Phase(q) /\ stage'["cleaner"] = stage["cleaner"]
      /\ UNCHANGED <<server, cache, cur>>
  BY DEF Begin, GoTo, IInv, TypeOK, Stages, Workers
<1>3. /\ Phase(q) \in {"idle", "finalizer", "pods", "nodes"}
      /\ Phase(q) = "finalizer" => q.life = "live" /\ ~q.fin
      /\ Phase(q) = "pods" => q.life = "deleting"
      /\ Phase(q) = "nodes" => q.life = "live" /\ q.fin
  BY <1>1 DEF Phase, Exists, Sequences
<1>4. Phase(q) # "idle" => mine' = q
  BY DEF Begin
<1>5. "seq" \notin fresh["reconciler"] /\ frees = {} /\ todo["reconciler"] = {}
      /\ aim["reconciler"].sync = "no"
  BY <1>2 DEF IInv, ReconcileOK, TurnsOK, TurnOK, At, Workers
<1>6. /\ "seq" \in fresh'["reconciler"] => Phase(q) # "idle" /\ "seq" \in cur
      /\ frees' # {} => Phase(q) \in {"pods", "nodes"}
  <2>1. ASSUME NEW S, Hold(S) PROVE fresh'["reconciler"] = cur \intersect S
    BY <2>1 DEF Hold, IInv, TypeOK, Workers
  <2> QED BY <1>2, <1>3, <1>5, <2>1 DEF Begin
<1>7. CopiesOK'
  BY <1>2 DEF IInv, CopiesOK, Protected
<1>8. ReconcileOK'
  <2>1. q.life = "deleting" => ~Protected(server.seq) /\ ~Protected(q)
    BY DEF IInv, CopiesOK, Protected
  <2>2. Protected(q) => server.seq.fin
    BY DEF IInv, CopiesOK
  <2>3. "seq" \in cur => q = server.seq
    BY DEF IInv, CopiesOK
  <2> QED BY <1>2, <1>3, <1>4, <1>6, <2>1, <2>2, <2>3 DEF ReconcileOK, At, Protected, Exists
<1>9. TurnsOK'
  <2>0. \/ Phase(q) \in {"idle", "finalizer"} /\ UNCHANGED <<aim, todo, view>>
        \/ /\ Phase(q) = "pods" /\ aim' = [aim EXCEPT !["reconciler"] = Aim(q)]
           /\ UNCHANGED <<todo, view>>
        \/ /\ Phase(q) = "nodes" /\ aim' = [aim EXCEPT !["reconciler"] = Aim(q)]
           /\ Look("reconciler", NodesDue(Aim(q)))
    BY <1>3 DEF Begin
  <2>1. /\ aim'["cleaner"] = aim["cleaner"] /\ view'["cleaner"] = view["cleaner"]
        /\ todo'["cleaner"] = todo["cleaner"]
    BY <2>0 DEF Look, IInv, TypeOK, Workers
  <2>2. CASE Phase(q) \in {"idle", "finalizer", "pods"}
    <3>1. aim'["reconciler"].sync = "no" /\ todo'["reconciler"] = {}
      <4>1. q.life = "deleting" => Aim(q).sync = "no"
        BY DEF Aim
      <4> QED BY <1>3, <1>5, <2>0, <2>2, <4>1 DEF IInv, TypeOK, Workers
    <3> QED BY <1>2, <2>1, <3>1 DEF IInv, TurnsOK, TurnOK, Workers, LabelDue, TaintDue
  <2>3. CASE Phase(q) = "nodes"
    <3>1. aim'["reconciler"] = Aim(q) /\ todo'["reconciler"] = NodesDue(Aim(q))
          /\ \A n \in NodesDue(Aim(q)) : view'["reconciler"][n] = cache.node[n]
      BY <2>0, <2>3 DEF Look, IInv, TypeOK, Workers, NodesDue
    <3>2. stage'["reconciler"] = "nodes" /\ mine'.life = "live"
      BY <1>2, <1>3, <1>4, <2>3
    <3>3. TurnOK("reconciler")'
      BY <3>1, <3>2 DEF TurnOK, NodesDue, LabelDue, TaintDue
    <3>4. TurnOK("cleaner")'
      BY <1>2, <2>1 DEF IInv, TurnsOK, TurnOK, Workers, LabelDue, TaintDue
    <3> QED BY <2>1, <3>2, <3>3, <3>4 DEF IInv, TurnsOK, Workers, At
  <2> QED BY <1>3, <2>2, <2>3
<1> QED BY <1>7, <1>8, <1>9

\* AddFinalizer and End: of the writes of the sequence only the finalizer's two go through.
LEMMA UpdateOK ==
    ASSUME IInv, AddFinalizer \/ End
    PROVE  CopiesOK' /\ ReconcileOK' /\ TurnsOK'
<1>1. \E error : Return(error)
  BY DEF AddFinalizer, End, Update
<1>2. ReconcileOK' /\ TurnsOK'
  BY <1>1, ReturnOK
<1>3. cache' = cache
  BY <1>1 DEF Return
<1>4. CASE UNCHANGED <<server, cur>>
  BY <1>2, <1>3, <1>4 DEF IInv, CopiesOK, Protected
<1>5. ASSUME NEW q \in Sequences, "seq" \in fresh["reconciler"],
             Store("seq", [server EXCEPT !.seq = q])
      PROVE  server'.seq = q /\ server.seq = mine
             /\ ("seq" \in cur' => server' = server /\ "seq" \in cur)
  BY <1>5, ClusterUpdates DEF Store, IInv, TypeOK, ReconcileOK
<1>6. CASE AddFinalizer /\ ~UNCHANGED <<server, cur>>
  <2> DEFINE q == [mine EXCEPT !.fin = TRUE]
  <2>1. "seq" \in fresh["reconciler"] /\ Store("seq", [server EXCEPT !.seq = q])
    BY <1>6 DEF AddFinalizer, Update, GiveUp
  <2>2. mine.life = "live" /\ ~mine.fin /\ cache.seq = mine
    BY <1>6, <2>1 DEF AddFinalizer, IInv, ReconcileOK
  <2>3. q \in Sequences /\ q.life = "live" /\ q.fin
    BY <2>2 DEF IInv, TypeOK, Sequences
  <2>4. server'.seq = q /\ ("seq" \in cur' => server' = server /\ "seq" \in cur)
    BY <1>5, <2>1, <2>3
  <2> HIDE DEF q
  <2>5. CopiesOK'
    BY <1>3, <2>2, <2>3, <2>4 DEF IInv, CopiesOK, Protected, Exists
  <2> QED BY <1>2, <2>5
<1>7. CASE End /\ ~UNCHANGED <<server, cur>>
  <2>1. /\ "seq" \in fresh["reconciler"] /\ Store("seq", [server EXCEPT !.seq = NoSeq])
        /\ mine.life = "deleting" /\ (At("pods") \/ At("nodes"))
    BY <1>7 DEF End, Update, GiveUp
  <2>2. ~Protected(cache.seq)
    BY <2>1 DEF IInv, ReconcileOK
  <2>3. server'.seq = NoSeq /\ ("seq" \in cur' => server' = server /\ "seq" \in cur)
    BY <1>5, <2>1, NothingTypes
  <2>4. CopiesOK'
    BY <1>3, <2>2, <2>3 DEF IInv, CopiesOK, Protected, NoSeq
  <2> QED BY <1>2, <2>4
<1> QED BY <1>4, <1>6, <1>7

\* Writes to pods.
LEMMA PodStepOK ==
    ASSUME IInv, NEW p \in Pod, AddRules(p) \/ RemoveGate(p) \/ PodPatchFails(p)
    PROVE  CopiesOK' /\ ReconcileOK' /\ TurnsOK'
<1>1. UNCHANGED <<cache, stage, mine, aim, view, todo, fresh>> /\ frees' \subseteq frees
  BY DEF AddRules, RemoveGate, PodPatchFails, GoOn, working
<1>2. server'.seq = server.seq /\ cur' \subseteq cur
  <2>1. CASE UNCHANGED <<server, cur>>
    BY <2>1
  <2>2. ASSUME NEW st \in PodStates, Store(p, [server EXCEPT !.pod[p] = st])
        PROVE  server'.seq = server.seq /\ cur' \subseteq cur
    BY <2>2, PodUpdates DEF IInv, TypeOK, Store
  <2>3. CASE AddRules(p)
    BY <2>2, <2>3 DEF AddRules, PodStates
  <2>4. CASE RemoveGate(p)
    <3>1. CASE server.pod[p] = "ruled"
      BY <2>2, <2>4, <3>1 DEF RemoveGate, PodStates
    <3>2. CASE server.pod[p] # "ruled"
      BY <2>2, <2>4, <3>2 DEF RemoveGate, PodStates
    <3> QED BY <3>1, <3>2
  <2> QED BY <2>1, <2>3, <2>4 DEF PodPatchFails, GiveUp
<1>3. TurnsOK'
  BY <1>1, TurnsKept
<1> QED BY <1>1, <1>2, <1>3, SeqKept

\* The deletion turns to the nodes.
LEMMA ListNodesOK ==
    ASSUME IInv, ListNodes
    PROVE  CopiesOK' /\ ReconcileOK' /\ TurnsOK'
<1> DEFINE a == aim["reconciler"]
<1>1. /\ At("pods") /\ mine.life = "deleting" /\ UNCHANGED <<server, cache, cur, mine, aim, frees>>
      /\ stage'["reconciler"] = "nodes" /\ stage'["cleaner"] = stage["cleaner"]
  BY DEF ListNodes, NodesLeft, GoTo, IInv, TypeOK, Stages, Workers
<1>2. "seq" \in fresh'["reconciler"] => "seq" \in fresh["reconciler"]
  BY LifeAssumption DEF ListNodes, NodesDue, IInv, TypeOK, Workers
<1>3. CopiesOK'
  BY <1>1 DEF IInv, CopiesOK, Protected
<1>4. ReconcileOK'
  BY <1>1, <1>2 DEF IInv, ReconcileOK, At, Protected, Exists
<1>5. TurnsOK'
  <2>1. /\ view'["cleaner"] = view["cleaner"] /\ todo'["cleaner"] = todo["cleaner"]
        /\ todo'["reconciler"] = NodesDue(a)
        /\ \A n \in NodesDue(a) : view'["reconciler"][n] = cache.node[n]
    BY DEF ListNodes, Look, IInv, TypeOK, Workers, NodesDue
  <2>2. a.sync = "no"
    BY <1>1 DEF IInv, TurnsOK, At
  <2>3. TurnOK("reconciler")'
    BY <1>1, <2>1 DEF TurnOK, NodesDue, LabelDue, TaintDue
  <2>4. TurnOK("cleaner")'
    BY <1>1, <2>1 DEF IInv, TurnsOK, TurnOK, Workers, LabelDue, TaintDue
  <2> QED BY <1>1, <2>2, <2>3, <2>4 DEF IInv, TurnsOK, Workers
<1> QED BY <1>3, <1>4, <1>5

\* The next node's turn.
LEMMA NextNodeOK ==
    ASSUME IInv, NEW w \in Workers, NEW n \in Node, NEW error, NextNode(w, n, error)
    PROVE  TurnsOK'
<1>1. /\ \A v \in Workers : todo'[v] \subseteq todo[v]
      /\ \A v \in Workers, m \in Node : v # w \/ m # n => view'[v][m] = view[v][m]
      /\ n \notin todo'[w]
  BY DEF NextNode, IInv, TypeOK, Nodes
<1>2. UNCHANGED <<stage, mine, aim>>
  BY DEF NextNode
<1>3. \A v \in Workers : todo[v] \subseteq Node
  BY DEF IInv, TypeOK
<1>4. ASSUME NEW v \in Workers, NEW m \in todo'[v]
      PROVE  LabelDue(aim[v], view[v][m])' \/ TaintDue(aim[v], view[v][m])'
  <2>1. view'[v][m] = view[v][m] /\ m \in todo[v]
    BY <1>1, <1>3, <1>4
  <2> QED BY <1>2, <2>1 DEF IInv, TurnsOK, TurnOK, LabelDue, TaintDue
<1>5. \A v \in Workers : TurnOK(v)'
  BY <1>1, <1>2, <1>4 DEF IInv, TurnsOK, TurnOK
<1> QED BY <1>2, <1>5 DEF IInv, TurnsOK, At

\* What a patch of a node leaves alone.
LEMMA NodeStepFrame ==
    ASSUME IInv, NEW w \in Workers, NEW n \in Node,
           PatchLabel(w, n) \/ PatchTaint(w, n) \/ NodePatchFails(w, n)
    PROVE  /\ UNCHANGED <<cache, stage, mine, aim, frees>> /\ cur' \subseteq cur
           /\ server'.seq = server.seq /\ server'.pod = server.pod
           /\ "seq" \in fresh'["reconciler"] => "seq" \in fresh["reconciler"]
<1>1. server \in Clusters /\ view[w][n] \in NodeStates /\ aim[w] \in Aims
  BY DEF IInv, TypeOK, Nodes, NodeStates
<1>2. UNCHANGED <<cache, stage, mine, aim, frees>>
  BY DEF PatchLabel, PatchTaint, NodePatchFails, NextNode
<1>3. /\ WantLabel(aim[w], view[w][n].label) \in {"unset", "value", "released"}
      /\ WantTaint(aim[w], view[w][n].taint) \in BOOLEAN
  BY <1>1, WantTypes
<1>4. \/ UNCHANGED <<server, cur>>
      \/ Store(n, NewLabel(w, n))
      \/ Store(n, [server EXCEPT !.node[n].taint = WantTaint(aim[w], view[w][n].taint)])
  BY DEF PatchLabel, PatchTaint, NodePatchFails, GiveUp
<1>5. cur' \subseteq cur
  BY <1>4 DEF Store
<1>6. server'.seq = server.seq /\ server'.pod = server.pod
  <2>1. CASE Store(n, NewLabel(w, n))
    <3>1. server' = [server EXCEPT !.node[n].label = WantLabel(aim[w], view[w][n].label)]
      BY <2>1 DEF Store, NewLabel
    <3> QED BY <1>1, <1>3, <3>1, NodeUpdates
  <2>2. CASE Store(n, [server EXCEPT !.node[n].taint = WantTaint(aim[w], view[w][n].taint)])
    <3>1. server' = [server EXCEPT !.node[n].taint = WantTaint(aim[w], view[w][n].taint)]
      BY <2>2 DEF Store
    <3> QED BY <1>1, <1>3, <3>1, NodeUpdates
  <2> QED BY <1>4, <2>1, <2>2
<1>7. "seq" \in fresh'["reconciler"] => "seq" \in fresh["reconciler"]
  <2>1. n # "seq"
    BY LifeAssumption
  <2>2. \A v \in Workers : fresh'[v] \subseteq fresh[v] \union {n}
    <3>1. CASE PatchLabel(w, n)
      BY <3>1 DEF PatchLabel
    <3>2. CASE PatchTaint(w, n)
      BY <3>2 DEF PatchTaint
    <3>3. CASE NodePatchFails(w, n)
      BY <3>3 DEF NodePatchFails, IInv, TypeOK
    <3> QED BY <3>1, <3>2, <3>3
  <2> QED BY <2>1, <2>2 DEF Workers
<1> QED BY <1>2, <1>5, <1>6, <1>7

\* Writes to nodes, of the reconciler or of the cleaner.
LEMMA NodeStepOK ==
    ASSUME IInv, NEW w \in Workers, NEW n \in Node,
           PatchLabel(w, n) \/ PatchTaint(w, n) \/ NodePatchFails(w, n)
    PROVE  CopiesOK' /\ ReconcileOK' /\ TurnsOK'
<1>1. CopiesOK' /\ ReconcileOK'
  BY NodeStepFrame, SeqKept
<1>2. ASSUME NEW error, NextNode(w, n, error) PROVE TurnsOK'
  BY <1>2, NextNodeOK
<1>3. CASE /\ TaintDue(aim[w], server'.node[n])
           /\ view' = [view EXCEPT ![w][n] = server'.node[n]]
           /\ UNCHANGED <<stage, mine, aim, todo>>
  <2>1. view'[w][n] = server'.node[n]
        /\ \A v \in Workers, m \in Node : v # w \/ m # n => view'[v][m] = view[v][m]
    BY <1>3 DEF IInv, TypeOK, Nodes
  <2>2. \A v \in Workers : todo[v] \subseteq Node
    BY DEF IInv, TypeOK
  <2>3. ASSUME NEW v \in Workers, NEW m \in todo'[v]
        PROVE  LabelDue(aim[v], view[v][m])' \/ TaintDue(aim[v], view[v][m])'
    <3>1. CASE v = w /\ m = n
      BY <1>3, <2>1, <3>1 DEF TaintDue
    <3>2. CASE v # w \/ m # n
      <4>1. view'[v][m] = view[v][m] /\ m \in todo[v]
        BY <1>3, <2>1, <2>2, <2>3, <3>2
      <4> QED BY <1>3, <4>1 DEF IInv, TurnsOK, TurnOK, LabelDue, TaintDue
    <3> QED BY <3>1, <3>2
  <2>4. \A v \in Workers : TurnOK(v)'
    BY <1>3, <2>3 DEF IInv, TurnsOK, TurnOK
  <2> QED BY <1>1, <1>3, <2>4 DEF IInv, TurnsOK, At
<1>4. CASE PatchLabel(w, n)
  <2>1. CASE TaintDue(aim[w], server'.node[n])
    <3>1. view' = [view EXCEPT ![w][n] = server'.node[n]]
          /\ UNCHANGED <<stage, mine, aim, todo>>
      BY <1>4, <2>1 DEF PatchLabel
    <3> QED BY <1>1, <1>3, <2>1, <3>1
  <2>2. CASE ~TaintDue(aim[w], server'.node[n])
    <3>1. NextNode(w, n, FALSE)
      BY <1>4, <2>2 DEF PatchLabel
    <3> QED BY <1>1, <1>2, <3>1
  <2> QED BY <2>1, <2>2
<1>5. CASE PatchTaint(w, n) \/ NodePatchFails(w, n)
  <2>1. \E error : NextNode(w, n, error)
    BY <1>5 DEF PatchTaint, NodePatchFails
  <2> QED BY <1>1, <1>2, <2>1
<1> QED BY <1>4, <1>5

\* The cleaner between its patches.
LEMMA CleanOK ==
    ASSUME IInv, CleanList \/ CleanLook \/ CleanDone
    PROVE  CopiesOK' /\ ReconcileOK' /\ TurnsOK'
<1>1. ASSUME NEW st, CleanTo(st)
      PROVE  stage'["reconciler"] = stage["reconciler"] /\ stage'["cleaner"] = st
  BY <1>1 DEF IInv, TypeOK, CleanTo, Stages, Workers
<1>2. UNCHANGED <<server, cache, cur, mine, frees>>
      /\ stage'["reconciler"] = stage["reconciler"]
  BY <1>1 DEF CleanList, CleanLook, CleanDone
<1>3. /\ aim'["reconciler"] = aim["reconciler"] /\ view'["reconciler"] = view["reconciler"]
      /\ todo'["reconciler"] = todo["reconciler"] /\ fresh'["reconciler"] = fresh["reconciler"]
  BY DEF IInv, TypeOK, CleanList, CleanLook, CleanDone, Forget, Look, Workers
<1>4. CopiesOK' /\ ReconcileOK'
  BY <1>2, <1>3, SeqKept
<1>5. aim'["cleaner"].sync = "no" /\ TurnOK("cleaner")'
  <2>1. aim["cleaner"].sync = "no" /\ aim["cleaner"] \in Aims
    BY DEF IInv, TurnsOK, TypeOK, Workers
  <2>2. CASE CleanList
    <3>1. todo' = todo /\ todo["cleaner"] = {}
      BY <2>2 DEF CleanList, IInv, TurnsOK, TurnOK, Workers
    <3>2. aim'["cleaner"].sync = "no"
      BY <2>1, <2>2 DEF CleanList, IInv, TypeOK, Aims, Workers
    <3> QED BY <3>1, <3>2 DEF TurnOK
  <2>3. CASE Forget("cleaner")
    <3>1. aim'["cleaner"] = NoAim /\ todo'["cleaner"] = {}
      BY <2>3 DEF Forget, IInv, TypeOK, Workers
    <3> QED BY <3>1, NothingTypes DEF TurnOK
  <2>4. CASE CleanLook /\ ~Forget("cleaner")
    <3> DEFINE a == [aim["cleaner"] EXCEPT !.used = PendingRequiredKeys(cache)]
    <3>1. CleanTo("nodes") /\ Look("cleaner", NodesDue(a)) /\ aim' = [aim EXCEPT !["cleaner"] = a]
      BY <2>4 DEF CleanLook
    <3>2. a.sync = "no"
      BY <2>1 DEF Aims
    <3>3. aim'["cleaner"] = a
      BY <3>1 DEF IInv, TypeOK, Workers
    <3> HIDE DEF a
    <3>4. todo'["cleaner"] = NodesDue(a) /\ stage'["cleaner"] = "nodes"
          /\ \A n \in NodesDue(a) : view'["cleaner"][n] = cache.node[n]
      BY <1>1, <3>1 DEF Look, IInv, TypeOK, Workers, NodesDue
    <3> QED BY <3>2, <3>3, <3>4 DEF TurnOK, NodesDue, LabelDue, TaintDue
  <2> QED BY <2>2, <2>3, <2>4 DEF CleanDone
<1>6. TurnOK("reconciler")'
  BY <1>2, <1>3 DEF IInv, TurnsOK, TurnOK, Workers, LabelDue, TaintDue
<1>7. TurnsOK'
  BY <1>2, <1>3, <1>5, <1>6 DEF IInv, TurnsOK, Workers, At
<1> QED BY <1>4, <1>7

\* After a restart, every copy is the server's.
LEMMA RestartOK ==
    ASSUME IInv, Restart
    PROVE  CopiesOK' /\ ReconcileOK' /\ TurnsOK'
<1>1. cache' = server /\ server' = server
  BY DEF Restart
<1>2. stage'["reconciler"] = "idle" /\ fresh'["reconciler"] = {} /\ frees' = {}
  BY DEF Restart, Workers
<1>3. \A w \in Workers : todo'[w] = {} /\ aim'[w].sync = "no"
  BY NothingTypes DEF Restart
<1>4. CopiesOK'
  BY <1>1 DEF IInv, CopiesOK, Protected
<1>5. ReconcileOK'
  BY <1>2 DEF ReconcileOK, At
<1>6. TurnsOK'
  BY <1>3 DEF TurnsOK, TurnOK, Workers
<1> QED BY <1>4, <1>5, <1>6

LEMMA InitOK == Init => IInv
<1> SUFFICES ASSUME Init PROVE IInv
  OBVIOUS
<1>1. ~server.seq.fin /\ server.seq.life = "unborn" /\ cache = server
  BY DEF Init, NoSeq
<1>2. stage["reconciler"] = "idle" /\ fresh["reconciler"] = {} /\ frees = {}
  BY DEF Init, Workers
<1>3. \A w \in Workers : todo[w] = {} /\ aim[w].sync = "no"
  BY NothingTypes DEF Init
<1>4. CopiesOK
  BY <1>1 DEF CopiesOK, Protected
<1>5. ReconcileOK
  BY <1>2 DEF ReconcileOK, At
<1>6. TurnsOK
  BY <1>3 DEF TurnsOK, TurnOK, Workers
<1>7. PodsLateOK /\ SeqLateOK
  BY <1>1, <1>2 DEF Init, PodsLateOK, SeqLateOK
<1> QED BY <1>4, <1>5, <1>6, <1>7, InitTypes DEF IInv

-----------------------------------------------------------------------------
(* Late writes.                                                            *)

\* What makes a late write late.
LateEffect(r) ==
    LET s == CarriedOut(r[1], r[2]) IN
    /\ server' = s
    /\ cur' = IF s = server THEN cur ELSE cur \ {r[1]}
    /\ late' = {q \in late \ {r} : s = server \/ q[1] # r[1] \/ q[2] \in Labels}
    /\ fresh'["reconciler"] = IF s = server THEN fresh["reconciler"]
                                            ELSE fresh["reconciler"] \ {r[1]}
    /\ UNCHANGED <<cache, stage, mine, aim, view, todo, frees, failed>>

\* A late write is one of the sequence, of a pod or of a node.
LEMMA LateCases ==
    ASSUME IInv, LateWrite
    PROVE  \E r \in late :
             /\ LateEffect(r)
             /\ \/ r = <<"seq", "finalizer">>
                \/ r = <<"seq", "gone">>
                \/ \E p \in Pod, what \in {"ruled", "steered", "out"} : r = <<p, what>>
                \/ \E n \in Node, what \in Labels \union {"tainted", "untainted"} : r = <<n, what>>
<1>1. PICK r \in late : LateEffect(r)
  BY DEF LateWrite, LateEffect, Workers
<1>2. r \in Writes
  BY DEF IInv, TypeOK
<1> QED BY <1>1, <1>2 DEF Writes

\* What a late write makes of its object.
LEMMA LateResults ==
    ASSUME IInv
    PROVE  /\ CarriedOut("seq", "finalizer").seq = [server.seq EXCEPT !.fin = TRUE]
           /\ CarriedOut("seq", "gone").seq = NoSeq
           /\ \A what \in {"finalizer", "gone"} :
                /\ CarriedOut("seq", what).pod = server.pod
                /\ CarriedOut("seq", what).node = server.node
           /\ \A p \in Pod, what \in {"ruled", "steered", "out"} :
                /\ CarriedOut(p, what).seq = server.seq /\ CarriedOut(p, what).node = server.node
                /\ CarriedOut(p, what).pod = [server.pod EXCEPT ![p] = what]
           /\ \A n \in Node, what \in Labels \union {"tainted", "untainted"} :
                CarriedOut(n, what).seq = server.seq /\ CarriedOut(n, what).pod = server.pod
<1> USE DEF IInv, TypeOK
<1>1. /\ CarriedOut("seq", "finalizer") = [server EXCEPT !.seq.fin = TRUE]
      /\ CarriedOut("seq", "gone") = [server EXCEPT !.seq = NoSeq]
  BY DEF CarriedOut
<1>2. ASSUME NEW p \in Pod, NEW what \in {"ruled", "steered", "out"}
      PROVE  /\ CarriedOut(p, what).seq = server.seq /\ CarriedOut(p, what).node = server.node
             /\ CarriedOut(p, what).pod = [server.pod EXCEPT ![p] = what]
  <2>1. CarriedOut(p, what) = [server EXCEPT !.pod[p] = what]
    BY DEF CarriedOut
  <2> QED BY <2>1, PodUpdates DEF PodStates
<1>3. ASSUME NEW n \in Node, NEW what \in Labels \union {"tainted", "untainted"}
      PROVE  CarriedOut(n, what).seq = server.seq /\ CarriedOut(n, what).pod = server.pod
  <2>1. CASE what \in Labels
    <3>1. CarriedOut(n, what) = [server EXCEPT !.node[n].label = what]
      BY <2>1 DEF CarriedOut
    <3> QED BY <2>1, <3>1, NodeUpdates
  <2>2. CASE what \in {"tainted", "untainted"}
    <3>1. CarriedOut(n, what) = [server EXCEPT !.node[n].taint = (what = "tainted")]
      BY <2>2 DEF CarriedOut
    <3> QED BY <3>1, NodeUpdates
  <2> QED BY <2>1, <2>2
<1>4. /\ CarriedOut("seq", "finalizer").seq = [server.seq EXCEPT !.fin = TRUE]
      /\ CarriedOut("seq", "gone").seq = NoSeq
      /\ \A what \in {"finalizer", "gone"} :
            CarriedOut("seq", what).pod = server.pod /\ CarriedOut("seq", what).node = server.node
  BY <1>1 DEF Clusters
<1> QED BY <1>2, <1>3, <1>4

\* The copies of the sequence stand a late write of it, and the reconciler works for none
\* then that the write would surprise.
LEMMA LateWriteOK ==
    ASSUME IInv, LateWrite
    PROVE  CopiesOK' /\ ReconcileOK' /\ TurnsOK'
<1>1. PICK r \in late :
         /\ LateEffect(r)
         /\ \/ r = <<"seq", "finalizer">>
            \/ r = <<"seq", "gone">>
            \/ \E p \in Pod, what \in {"ruled", "steered", "out"} : r = <<p, what>>
            \/ \E n \in Node, what \in Labels \union {"tainted", "untainted"} : r = <<n, what>>
  BY LateCases
<1>2. /\ server' = CarriedOut(r[1], r[2]) /\ UNCHANGED <<cache, stage, mine, frees>>
      /\ cur' \subseteq cur /\ fresh'["reconciler"] \subseteq fresh["reconciler"]
      /\ server' # server => r[1] \notin cur' /\ r[1] \notin fresh'["reconciler"]
  BY <1>1 DEF LateEffect
<1>3. TurnsOK'
  BY <1>1, TurnsKept DEF LateEffect
<1>4. CASE r = <<"seq", "finalizer">>
  <2>1. /\ server.seq.life = "live" /\ ~server.seq.fin /\ cache.seq = server.seq
        /\ ~At("pods") /\ ~At("nodes")
    BY <1>4 DEF IInv, SeqLateOK
  <2>2. server'.seq.life = "live" /\ server'.seq.fin
    <3>1. server'.seq = [server.seq EXCEPT !.fin = TRUE] /\ server.seq \in Sequences
      BY <1>2, <1>4, LateResults DEF IInv, TypeOK, Clusters
    <3> QED BY <2>1, <3>1 DEF Sequences
  <2>3. "seq" \notin cur' /\ "seq" \notin fresh'["reconciler"]
    BY <1>2, <1>4, <2>1, <2>2
  <2>4. CopiesOK'
    BY <1>2, <2>1, <2>2, <2>3 DEF CopiesOK, Protected, Exists
  <2>5. ReconcileOK'
    BY <1>2, <2>1, <2>3 DEF IInv, ReconcileOK, At
  <2> QED BY <1>3, <2>4, <2>5
<1>5. CASE r = <<"seq", "gone">>
  <2>1. /\ server.seq.life = "deleting" /\ ~Protected(cache.seq)
        /\ At("pods") \/ At("nodes") => mine.life # "live"
    BY <1>5 DEF IInv, SeqLateOK
  <2>2. server'.seq = NoSeq
    BY <1>2, <1>5, LateResults
  <2>3. "seq" \notin cur' /\ "seq" \notin fresh'["reconciler"]
    BY <1>2, <1>5, <2>1, <2>2 DEF NoSeq
  <2>4. CopiesOK'
    BY <1>2, <2>1, <2>2, <2>3 DEF CopiesOK, Protected, NoSeq
  <2>5. ReconcileOK'
    BY <1>2, <2>1, <2>2, <2>3 DEF IInv, ReconcileOK, At, Protected, NoSeq
  <2> QED BY <1>3, <2>4, <2>5
<1>6. CASE \/ \E p \in Pod, what \in {"ruled", "steered", "out"} : r = <<p, what>>
           \/ \E n \in Node, what \in Labels \union {"tainted", "untainted"} : r = <<n, what>>
  <2>1. ASSUME NEW p \in Pod, NEW what \in {"ruled", "steered", "out"}, r = <<p, what>>
        PROVE  server'.seq = server.seq
    BY <1>2, <2>1, LateResults
  <2>2. ASSUME NEW n \in Node, NEW what \in Labels \union {"tainted", "untainted"}, r = <<n, what>>
        PROVE  server'.seq = server.seq
    BY <1>2, <2>2, LateResults
  <2>3. server'.seq = server.seq
    BY <1>6, <2>1, <2>2
  <2> QED BY <1>2, <1>3, <2>3, SeqKept
<1> QED BY <1>1, <1>4, <1>5, <1>6

\* Steps that leave the sequences and the pods where they are, and begin no reconcile.
LEMMA LateKept ==
    ASSUME IInv, server'.seq = server.seq, server'.pod = server.pod,
           cache'.seq = cache.seq, cache'.pod = cache.pod,
           \A p \in Pod : p \in cur' <=> p \in cur,
           frees' \subseteq frees,
           \A p \in Pod : p \in fresh'["reconciler"] => p \in fresh["reconciler"],
           mine'.life = "deleting" => mine' = mine /\ frees' = frees /\ (failed => failed'),
           At("pods")' \/ At("nodes")' => mine' = mine /\ (At("pods") \/ At("nodes")),
           \A r \in late' : r \in late \/ r[1] \in Node
    PROVE  PodsLateOK' /\ SeqLateOK'
<1>1. /\ \A p \in Pod : <<p, "ruled">> \in late' => <<p, "ruled">> \in late
      /\ \A what : <<"seq", what>> \in late' => <<"seq", what>> \in late
  BY LifeAssumption
<1>2. frees \subseteq Pod
  BY DEF IInv, TypeOK
<1>3. PodsLateOK'
  BY <1>1, <1>2 DEF IInv, PodsLateOK
<1>4. SeqLateOK'
  BY <1>1 DEF IInv, SeqLateOK, Protected
<1> QED BY <1>3, <1>4

\* What Store does to p's late writes.
LEMMA PodStored ==
    ASSUME IInv, NEW p \in Pod, NEW st \in PodStates, Store(p, [server EXCEPT !.pod[p] = st])
    PROVE  /\ server'.seq = server.seq /\ server'.pod = [server.pod EXCEPT ![p] = st]
           /\ server.pod \in Pods
           /\ \A q \in Pod : q # p => (q \in cur' <=> q \in cur)
           /\ late' \subseteq late
           /\ st # server.pod[p] => \A what : <<p, what>> \in late' => what \in Labels
           /\ st = server.pod[p] => cur' = cur
<1>1. server'.seq = server.seq /\ server'.pod = [server.pod EXCEPT ![p] = st]
  BY PodUpdates DEF IInv, TypeOK, Store
<1>2. server \in Clusters /\ server.pod \in Pods
  BY ClusterUpdates DEF IInv, TypeOK
<1>3. st # server.pod[p] => server' # server
  BY <1>1, <1>2 DEF Pods
<1>4. st = server.pod[p] => [server EXCEPT !.pod[p] = st] = server
  BY <1>2 DEF Clusters, Pods
<1> QED BY <1>1, <1>2, <1>3, <1>4 DEF Store

\* A pod that users or the scheduler change is no longer what a late write is based on.
LEMMA LateUser ==
    ASSUME IInv, User
    PROVE  PodsLateOK' /\ SeqLateOK'
<1>0. server \in Clusters /\ server.seq \in Sequences /\ "seq" \notin Pod
  BY LifeAssumption, ClusterUpdates DEF IInv, TypeOK
<1>1. CASE \E p \in Pod : CreatePod(p) \/ DeletePod(p) \/ Bind(p)
  <2>1. PICK p \in Pod, st \in PodStates \ {"ruled"} : Change(p, [server EXCEPT !.pod[p] = st])
    BY <1>1 DEF CreatePod, DeletePod, Bind, PodStates
  <2>2. Store(p, [server EXCEPT !.pod[p] = st]) /\ st \in PodStates
        /\ UNCHANGED <<cache, stage, mine, frees, failed>>
        /\ fresh'["reconciler"] = fresh["reconciler"] \ {p}
    BY <2>1, ChangeEffect DEF Change
  <2>3. /\ server'.seq = server.seq /\ server'.pod = [server.pod EXCEPT ![p] = st]
        /\ server.pod \in Pods /\ late' \subseteq late
        /\ \A q \in Pod : q # p => (q \in cur' <=> q \in cur)
        /\ st # server.pod[p] => \A what : <<p, what>> \in late' => what \in Labels
        /\ st = server.pod[p] => cur' = cur
    BY <2>2, PodStored
  <2>4. st # server.pod[p] => p \notin cur'
    <3>1. CASE p \in cur'
      <4>1. server' = server
        BY <2>1, <3>1, ChangeEffect
      <4> QED BY <2>3, <4>1 DEF Pods
    <3> QED BY <3>1
  <2>5. frees \subseteq Pod
    BY DEF IInv, TypeOK
  <2>6. PodsLateOK'
    BY <2>2, <2>3, <2>4, <2>5 DEF IInv, PodsLateOK, Pods
  <2>7. SeqLateOK'
    BY <2>2, <2>3 DEF IInv, SeqLateOK, At, Protected
  <2> QED BY <2>6, <2>7
<1>2. ASSUME NEW q, Change("seq", [server EXCEPT !.seq = q]), q # server.seq,
             server.seq.fin => q.fin
      PROVE  PodsLateOK' /\ SeqLateOK'
  <2>1. server'.seq = q /\ server'.pod = server.pod
    BY <1>0, <1>2 DEF Clusters, Change, Store
  <2>2. /\ UNCHANGED <<cache, stage, mine, frees, failed>>
        /\ fresh'["reconciler"] = fresh["reconciler"] \ {"seq"}
    BY <1>2, ChangeEffect DEF Change
  <2>3. cur' = cur \ {"seq"} /\ late' = {r \in late : r[1] # "seq" \/ r[2] \in Labels}
    BY <1>2, <2>1 DEF Change, Store
  <2>4. frees \subseteq Pod
    BY DEF IInv, TypeOK
  <2>5. PodsLateOK'
    BY <1>0, <1>2, <2>1, <2>2, <2>3, <2>4 DEF IInv, PodsLateOK
  <2>6. SeqLateOK'
    BY <2>3 DEF SeqLateOK
  <2> QED BY <2>5, <2>6
<1>3. CASE \E method \in MethodsUsed : CreateSeq(method)
  <2>1. ~server.seq.fin /\ server.seq.life # "live"
    BY <1>3 DEF CreateSeq, IInv, CopiesOK, Exists
  <2> QED BY <1>2, <1>3, <2>1 DEF CreateSeq
<1>4. CASE \E method \in MethodsUsed : EditSeq(method)
  <2>1. PICK method \in MethodsUsed : EditSeq(method)
    BY <1>4
  <2> DEFINE q == [server.seq EXCEPT !.method = method]
  <2>2. [server EXCEPT !.seq.method = method] = [server EXCEPT !.seq = q]
    BY <1>0 DEF Clusters
  <2>3. q # server.seq /\ q.fin = server.seq.fin
    BY <1>0, <2>1 DEF EditSeq, Sequences
  <2> QED BY <1>2, <2>1, <2>2, <2>3 DEF EditSeq
<1>5. CASE DeleteSeq
  <2> DEFINE q == IF server.seq.fin THEN [server.seq EXCEPT !.life = "deleting"] ELSE NoSeq
  <2>1. q # server.seq /\ (server.seq.fin => q.fin)
    BY <1>0, <1>5 DEF DeleteSeq, Sequences, NoSeq
  <2>2. Change("seq", [server EXCEPT !.seq = q])
    BY <1>5 DEF DeleteSeq
  <2> HIDE DEF q
  <2> QED BY <1>2, <2>1, <2>2
<1> QED BY <1>1, <1>3, <1>4, <1>5 DEF User

\* News of the sequence and of the pods.
LEMMA LateDeliver ==
    ASSUME IInv, DeliverSeq \/ DeliverPods \/ DeliverNodes
    PROVE  PodsLateOK' /\ SeqLateOK'
<1> USE DEF Deliver, working
<1>0. cache \in Clusters /\ "seq" \notin Pod /\ Pod \intersect Node = {} /\ frees \subseteq Pod
  BY LifeAssumption DEF IInv, TypeOK
<1>1. CASE DeliverSeq
  <2>1. /\ cache'.seq = server.seq /\ cache'.pod = cache.pod /\ cur' = cur \union {"seq"}
        /\ UNCHANGED <<server, late, stage, mine, fresh, frees, failed>>
    BY <1>0, <1>1 DEF DeliverSeq, Clusters
  <2>2. PodsLateOK'
    BY <1>0, <2>1 DEF IInv, PodsLateOK
  <2>3. SeqLateOK'
    BY <2>1 DEF IInv, SeqLateOK, At, Protected
  <2> QED BY <2>2, <2>3
<1>2. CASE DeliverPods
  <2>1. /\ cache'.seq = cache.seq /\ cache'.pod = server.pod /\ cur' = cur \union Pod
        /\ UNCHANGED <<server, late, stage, mine, fresh, frees, failed>>
    BY <1>0, <1>2 DEF DeliverPods, Clusters
  <2>2. PodsLateOK'
    BY <1>0, <2>1 DEF IInv, PodsLateOK
  <2>3. SeqLateOK'
    BY <2>1 DEF IInv, SeqLateOK, At, Protected
  <2> QED BY <2>2, <2>3
<1>3. CASE DeliverNodes
  <2>1. /\ cache'.seq = cache.seq /\ cache'.pod = cache.pod /\ cur' = cur \union Node
        /\ UNCHANGED <<server, late, stage, mine, fresh, frees, failed>>
    BY <1>0, <1>3 DEF DeliverNodes, Clusters
  <2>2. PodsLateOK'
    BY <1>0, <2>1 DEF IInv, PodsLateOK
  <2>3. SeqLateOK'
    BY <2>1 DEF IInv, SeqLateOK, At, Protected
  <2> QED BY <2>2, <2>3
<1> QED BY <1>1, <1>2, <1>3

\* A reconcile that begins finds the pods with late rules among those it is to release.
LEMMA LateBegin ==
    ASSUME IInv, Begin
    PROVE  PodsLateOK' /\ SeqLateOK'
<1> DEFINE q == cache.seq
<1>1. /\ stage'["reconciler"] = Phase(q) /\ UNCHANGED <<server, cache, cur, late, failed>>
      /\ frees \subseteq Pod /\ NoSeq.life # "deleting" /\ At("idle")
  BY DEF Begin, GoTo, IInv, TypeOK, Stages, Workers, NoSeq
<1>2. frees = {}
  BY <1>1 DEF IInv, ReconcileOK, At
<1>3. mine' = IF Phase(q) = "idle" THEN NoSeq ELSE q
  BY DEF Begin
<1>4. \/ Phase(q) \in {"idle", "finalizer"} /\ frees' = {}
      \/ Phase(q) = "pods" /\ frees' = GatedIn(cache) /\ fresh'["reconciler"] \subseteq cur
      \/ /\ Phase(q) = "nodes" /\ frees' \subseteq GatedIn(cache)
         /\ fresh'["reconciler"] \subseteq cur
  <2>1. Phase(q) \in {"idle", "finalizer", "pods", "nodes"}
    BY DEF Phase
  <2>2. ASSUME NEW S, Hold(S) PROVE fresh'["reconciler"] \subseteq cur
    BY <2>2 DEF Hold, IInv, TypeOK, Workers
  <2>3. CASE Phase(q) \in {"idle", "finalizer"}
    BY <1>2, <2>3 DEF Begin
  <2>4. CASE Phase(q) = "pods"
    BY <2>2, <2>4 DEF Begin
  <2>5. CASE Phase(q) = "nodes"
    BY <2>2, <2>5 DEF Begin
  <2> QED BY <2>1, <2>3, <2>4, <2>5
<1>5. /\ Phase(q) \in {"finalizer", "nodes"} => q.life # "deleting"
      /\ Phase(q) = "nodes" => Protected(q)
      /\ Phase(q) \in {"pods", "nodes"} => q.fin
      /\ Phase(q) = "pods" => q.life = "deleting"
  BY DEF Phase, Exists, Protected
<1>6. frees' \subseteq GatedIn(cache)
  BY <1>4
<1>7. \A p \in frees' : p \in Pod /\ cache.pod[p] \in {"gated", "ruled"}
  BY <1>6 DEF GatedIn
<1>8. ASSUME NEW p \in Pod, <<p, "ruled">> \in late, mine'.life = "deleting"
      PROVE  p \in frees'
  <2>1. cache.pod[p] = "gated"
    BY <1>8 DEF IInv, PodsLateOK
  <2>2. Phase(q) = "pods"
    BY <1>1, <1>3, <1>4, <1>5, <1>8
  <2> QED BY <1>4, <2>1, <2>2 DEF GatedIn
<1>9. PodsLateOK'
  <2>1. ASSUME NEW p \in frees', p \in fresh'["reconciler"]
        PROVE  p \in cur /\ server.pod[p] \in {"gated", "ruled"}
    BY <1>4, <1>7, <2>1 DEF IInv, PodsLateOK
  <2> QED BY <1>1, <1>8, <2>1 DEF IInv, PodsLateOK
<1>10. SeqLateOK'
  BY <1>1, <1>3, <1>5 DEF IInv, SeqLateOK, At, Protected
<1> QED BY <1>9, <1>10

\* A write of the sequence that goes through leaves no late one; a late end finds no rules
\* on their way.
LEMMA LateUpdate ==
    ASSUME IInv, AddFinalizer \/ End
    PROVE  PodsLateOK' /\ SeqLateOK'
<1>1. PICK error : Return(error)
  BY DEF AddFinalizer, End, Update
<1>2. /\ cache' = cache /\ mine' = NoSeq /\ frees' = {} /\ NoSeq.life = "gone"
      /\ stage'["reconciler"] = "idle" /\ fresh'["reconciler"] = {}
  BY <1>1 DEF Return, GoTo, Forget, IInv, TypeOK, Stages, Workers, NoSeq
<1>3. ~At("pods")' /\ ~At("nodes")' /\ server \in Clusters /\ "seq" \notin Pod
  BY <1>2, LifeAssumption DEF At, IInv, TypeOK
<1>4. CASE UNCHANGED <<server, cur, late>>
  BY <1>2, <1>3, <1>4 DEF IInv, PodsLateOK, SeqLateOK, Protected
<1>5. ASSUME NEW q, Store("seq", [server EXCEPT !.seq = q]), q # server.seq,
             q.fin \/ \A p \in Pod : <<p, "ruled">> \notin late
      PROVE  PodsLateOK' /\ SeqLateOK'
  <2>1. server'.seq = q /\ server'.pod = server.pod
    BY <1>3, <1>5 DEF Clusters, Store
  <2>2. cur' = cur \ {"seq"} /\ late' = {r \in late : r[1] # "seq" \/ r[2] \in Labels}
    BY <1>5, <2>1 DEF Store
  <2>3. PodsLateOK'
    BY <1>2, <1>3, <1>5, <2>1, <2>2 DEF IInv, PodsLateOK
  <2>4. SeqLateOK'
    BY <2>2 DEF SeqLateOK
  <2> QED BY <2>3, <2>4
<1>6. CASE AddFinalizer
  <2> DEFINE q == [mine EXCEPT !.fin = TRUE]
             requests == {<<o, IF q = NoSeq THEN "gone" ELSE "finalizer">> :
                              o \in {"seq"} \intersect fresh["reconciler"]}
  <2>1. mine.life = "live" /\ ~mine.fin /\ q # NoSeq /\ q.fin
    BY <1>6 DEF AddFinalizer, IInv, ReconcileOK, TypeOK, Sequences, NoSeq
  <2>2. "seq" \in fresh["reconciler"] => server.seq = mine /\ cache.seq = mine
    BY <1>6 DEF AddFinalizer, IInv, ReconcileOK
  <2>3. \/ "seq" \in fresh["reconciler"] /\ Store("seq", [server EXCEPT !.seq = q])
        \/ UNCHANGED <<server, cur, late>>
        \/ GiveUp(requests)
    BY <1>6 DEF AddFinalizer, Update
  <2>4. CASE GiveUp(requests)
    <3>1. UNCHANGED <<server, cur>> /\ \A r \in late' : r \in late \/ r \in requests
      BY <2>4 DEF GiveUp
    <3>2. \A r \in requests : r = <<"seq", "finalizer">> /\ "seq" \in fresh["reconciler"]
      BY <2>1
    <3>3. PodsLateOK'
      BY <1>2, <1>3, <3>1, <3>2 DEF IInv, PodsLateOK
    <3>4. SeqLateOK'
      BY <1>2, <1>3, <2>1, <2>2, <3>1, <3>2 DEF IInv, SeqLateOK, Protected
    <3> QED BY <3>3, <3>4
  <2>5. "seq" \in fresh["reconciler"] => q # server.seq
    BY <2>1, <2>2
  <2> HIDE DEF q
  <2> QED BY <1>4, <1>5, <2>1, <2>3, <2>4, <2>5
<1>7. CASE End
  <2> DEFINE requests == {<<o, "gone">> : o \in {"seq"} \intersect fresh["reconciler"]}
  <2>1. CASE mine.life = "deleting" /\ ~failed
    <3>1. /\ frees = {}
          /\ \/ "seq" \in fresh["reconciler"] /\ Store("seq", [server EXCEPT !.seq = NoSeq])
             \/ UNCHANGED <<server, cur, late>>
             \/ GiveUp(requests)
      BY <1>7, <2>1 DEF End, Update
    <3>2. \A p \in Pod : <<p, "ruled">> \notin late
      BY <2>1, <3>1 DEF IInv, PodsLateOK
    <3>3. "seq" \in fresh["reconciler"] => server.seq = mine
      BY DEF IInv, ReconcileOK
    <3>4. ~Protected(cache.seq)
      BY <1>7, <2>1 DEF End, IInv, ReconcileOK
    <3>5. CASE GiveUp(requests)
      <4>1. UNCHANGED <<server, cur>> /\ \A r \in late' : r \in late \/ r \in requests
        BY <3>5 DEF GiveUp
      <4>2. \A r \in requests : r = <<"seq", "gone">> /\ "seq" \in fresh["reconciler"]
        OBVIOUS
      <4>3. PodsLateOK'
        BY <1>2, <1>3, <4>1, <4>2 DEF IInv, PodsLateOK
      <4>4. SeqLateOK'
        BY <1>2, <1>3, <2>1, <3>2, <3>3, <3>4, <4>1, <4>2 DEF IInv, SeqLateOK, Protected
      <4> QED BY <4>3, <4>4
    <3>6. "seq" \in fresh["reconciler"] => NoSeq # server.seq
      BY <1>2, <2>1, <3>3
    <3> QED BY <1>4, <1>5, <3>1, <3>2, <3>5, <3>6
  <2>2. CASE ~(mine.life = "deleting" /\ ~failed)
    BY <1>4, <1>7, <2>2 DEF End
  <2> QED BY <2>1, <2>2
<1> QED BY <1>6, <1>7

\* Rules are sent to a gated pod, under the finalizer, and for a sequence that lives; what
\* a deletion cannot patch it remembers as an error.
LEMMA LatePod ==
    ASSUME IInv, NEW p \in Pod, AddRules(p) \/ RemoveGate(p) \/ PodPatchFails(p)
    PROVE  PodsLateOK' /\ SeqLateOK'
<1>1. UNCHANGED <<cache, stage, mine, fresh>> /\ p \in frees /\ frees \subseteq Pod
      /\ "seq" \notin Pod
  BY LifeAssumption
  DEF AddRules, RemoveGate, PodPatchFails, GoOn, Gated, working, IInv, TypeOK
<1>2. (At("pods") \/ At("nodes")) /\ (At("pods")' \/ At("nodes")' <=> At("pods") \/ At("nodes"))
      /\ (mine.life = "live" => server.seq.fin)
  BY <1>1 DEF IInv, ReconcileOK, At
<1>3. ASSUME NEW st \in PodStates, Store(p, [server EXCEPT !.pod[p] = st]),
             st = server.pod[p] => st # "gated",
             \/ UNCHANGED <<frees, failed>> /\ st = "ruled"
             \/ frees' = frees \ {p} /\ (failed => failed')
      PROVE  PodsLateOK' /\ SeqLateOK'
  <2>1. /\ server'.seq = server.seq /\ server'.pod = [server.pod EXCEPT ![p] = st]
        /\ server.pod \in Pods /\ late' \subseteq late
        /\ \A q \in Pod : q # p => (q \in cur' <=> q \in cur)
        /\ st # server.pod[p] => \A what : <<p, what>> \in late' => what \in Labels
        /\ st = server.pod[p] => cur' = cur
    BY <1>3, PodStored
  <2>2. <<p, "ruled">> \notin late'
    <3>1. CASE st = server.pod[p]
      BY <1>3, <2>1, <3>1 DEF IInv, PodsLateOK
    <3>2. CASE st # server.pod[p]
      BY <2>1, <3>2
    <3> QED BY <3>1, <3>2
  <2>3. st # server.pod[p] => p \notin cur'
    BY <1>3, <2>1 DEF Store, Pods
  <2>4. PodsLateOK'
    BY <1>1, <1>3, <2>1, <2>2, <2>3 DEF IInv, PodsLateOK, Pods
  <2>5. SeqLateOK'
    BY <1>1, <2>1 DEF IInv, SeqLateOK, At, Protected
  <2> QED BY <2>4, <2>5
<1>4. CASE AddRules(p)
  <2>1. Store(p, [server EXCEPT !.pod[p] = "ruled"]) /\ server.pod[p] = "gated"
    BY <1>4 DEF AddRules
  <2>2. UNCHANGED <<frees, failed>> \/ (frees' = frees \ {p} /\ (failed => failed'))
    <3>1. CASE UNCHANGED working
      BY <3>1 DEF working
    <3>2. CASE GoOn(p, TRUE)
      BY <3>2 DEF GoOn
    <3> QED BY <1>4, <3>1, <3>2 DEF AddRules
  <2> QED BY <1>3, <2>1, <2>2 DEF PodStates
<1>5. CASE RemoveGate(p)
  <2>1. /\ Store(p, [server EXCEPT !.pod[p] = IF server.pod[p] = "ruled" THEN "steered" ELSE "out"])
        /\ frees' = frees \ {p} /\ (failed => failed')
    BY <1>5 DEF RemoveGate, GoOn
  <2>2. CASE server.pod[p] = "ruled"
    BY <1>3, <2>1, <2>2 DEF PodStates
  <2>3. CASE server.pod[p] # "ruled"
    BY <1>3, <2>1, <2>3 DEF PodStates
  <2> QED BY <2>2, <2>3
<1>6. CASE PodPatchFails(p)
  <2> DEFINE requests == {<<o, Patched(o)>> : o \in {p} \intersect fresh["reconciler"]}
  <2>1. /\ UNCHANGED <<server, cur>> /\ frees' = frees \ {p} /\ (failed => failed')
        /\ \A r \in late' : r \in late \/ r \in requests
        /\ server.pod[p] = "gated" => failed'
    <3>1. CASE GoOn(p, TRUE) /\ GiveUp(requests)
      BY <3>1 DEF GoOn, GiveUp
    <3>2. CASE \E error \in BOOLEAN :
                  /\ server.pod[p] # "out" => error = (server.pod[p] # "absent")
                  /\ GoOn(p, error) /\ UNCHANGED <<server, cur, late>>
      BY <3>2 DEF GoOn
    <3> QED BY <1>6, <3>1, <3>2 DEF PodPatchFails
  <2>2. \A r \in requests : r = <<p, Patched(p)>> /\ p \in fresh["reconciler"]
    OBVIOUS
  <2>3. ASSUME <<p, "ruled">> \in requests
        PROVE  /\ server.pod[p] = "gated" /\ p \in cur
               /\ mine.life = "live" /\ server.seq.fin
    <3>1. p \in fresh["reconciler"] /\ Patched(p) = "ruled"
      BY <2>2, <2>3
    <3>2. server.pod[p] # "ruled" /\ Rules
      BY <3>1 DEF Patched
    <3> QED BY <1>1, <1>2, <3>1, <3>2 DEF IInv, PodsLateOK, Rules
  <2>4. \A q \in Pod : <<q, "ruled">> \in late' =>
           <<q, "ruled">> \in late \/ (q = p /\ <<p, "ruled">> \in requests)
    BY <2>1, <2>2
  <2>5. PodsLateOK'
    BY <1>1, <2>1, <2>3, <2>4 DEF IInv, PodsLateOK
  <2>6. \A what : <<"seq", what>> \in late' => <<"seq", what>> \in late
    BY <1>1, <2>1, <2>2
  <2> HIDE DEF requests
  <2>7. SeqLateOK'
    BY <1>1, <1>2, <2>1, <2>3, <2>4, <2>6 DEF IInv, SeqLateOK, At, Protected
  <2> QED BY <2>5, <2>7
<1> QED BY <1>4, <1>5, <1>6

\* Writes to nodes are none to pods, late or not.
LEMMA LateNodeStep ==
    ASSUME IInv, NEW w \in Workers, NEW n \in Node,
           PatchLabel(w, n) \/ PatchTaint(w, n) \/ NodePatchFails(w, n)
    PROVE  PodsLateOK' /\ SeqLateOK'
<1>1. n \notin Pod
  BY LifeAssumption
<1>2. /\ UNCHANGED <<cache, stage, mine, frees>>
      /\ server'.seq = server.seq /\ server'.pod = server.pod
  BY NodeStepFrame
<1>3. /\ failed => failed'
      /\ \A p \in Pod : p \in cur' <=> p \in cur
      /\ \A r \in late' : r \in late \/ r[1] \in Node
  <2>1. \A r \in NodeRequests(w, n) : r[1] \in Node
    BY DEF NodeRequests
  <2> QED BY <1>1, <2>1 DEF PatchLabel, PatchTaint, NodePatchFails, NextNode, Store, GiveUp
<1>4. \A p \in Pod : p \in fresh'["reconciler"] => p \in fresh["reconciler"]
  <2>1. CASE PatchLabel(w, n)
    BY <1>1, <2>1 DEF PatchLabel, Workers
  <2>2. CASE PatchTaint(w, n)
    BY <2>2 DEF PatchTaint, Workers
  <2>3. CASE NodePatchFails(w, n)
    BY <2>3 DEF NodePatchFails, IInv, TypeOK, Workers
  <2> QED BY <2>1, <2>2, <2>3
<1> QED BY <1>2, <1>3, <1>4, LateKept DEF At

\* The cleaner, and the deletion that turns to the nodes.
LEMMA LateQuiet ==
    ASSUME IInv, CleanList \/ CleanLook \/ CleanDone \/ ListNodes \/ Resync \/ UNCHANGED vars
    PROVE  PodsLateOK' /\ SeqLateOK'
<1>1. UNCHANGED <<server, cache, cur, late, mine, frees, failed>>
  BY DEF CleanList, CleanLook, CleanDone, ListNodes, Resync, vars, working
<1>2. At("pods")' \/ At("nodes")' => At("pods") \/ At("nodes")
  BY DEF CleanList, CleanLook, CleanDone, CleanTo, ListNodes, NodesLeft, GoTo, Resync, vars,
         working, IInv, TypeOK, Stages, Workers, At
<1>3. \A p \in Pod : p \in fresh'["reconciler"] => p \in fresh["reconciler"]
  <2>1. CASE ListNodes
    BY <2>1, LifeAssumption DEF ListNodes, NodesDue, IInv, TypeOK, Workers
  <2>2. CASE CleanList \/ CleanLook \/ CleanDone \/ Resync \/ UNCHANGED vars
    BY <2>2 DEF CleanList, CleanLook, CleanDone, Forget, Resync, vars, working, IInv, TypeOK,
                Workers
  <2> QED BY <2>1, <2>2
<1> QED BY <1>1, <1>2, <1>3, LateKept

\* A late write drops those that are based on what it changes.
LEMMA LateLate ==
    ASSUME IInv, LateWrite
    PROVE  PodsLateOK' /\ SeqLateOK'
<1>0. /\ "seq" \notin Pod /\ "seq" \notin Node /\ Pod \intersect Node = {} /\ frees \subseteq Pod
      /\ server \in Clusters /\ server.pod \in Pods
  BY LifeAssumption, ClusterUpdates DEF IInv, TypeOK
<1>1. PICK r \in late :
         /\ LateEffect(r)
         /\ \/ r = <<"seq", "finalizer">>
            \/ r = <<"seq", "gone">>
            \/ \E p \in Pod, what \in {"ruled", "steered", "out"} : r = <<p, what>>
            \/ \E n \in Node, what \in Labels \union {"tainted", "untainted"} : r = <<n, what>>
  BY LateCases
<1>2. /\ server' = CarriedOut(r[1], r[2]) /\ late' \subseteq late
      /\ UNCHANGED <<cache, stage, mine, frees, failed>>
      /\ \A o : o # r[1] => (o \in cur' <=> o \in cur)
      /\ fresh'["reconciler"] \subseteq fresh["reconciler"]
      /\ server' # server => /\ r[1] \notin cur' /\ r[1] \notin fresh'["reconciler"]
                             /\ \A q \in late' : q[1] # r[1] \/ q[2] \in Labels
      /\ server' = server => cur' = cur
  BY <1>1 DEF LateEffect
<1>3. CASE \E what \in {"finalizer", "gone"} : r = <<"seq", what>>
  <2>1. server'.pod = server.pod
    BY <1>2, <1>3, LateResults
  <2>2. server'.seq # server.seq
        /\ (server'.seq.fin \/ \A p \in Pod : <<p, "ruled">> \notin late)
    <3>1. CASE r = <<"seq", "finalizer">>
      <4>1. server'.seq = [server.seq EXCEPT !.fin = TRUE] /\ server.seq \in Sequences
        BY <1>0, <1>2, <3>1, LateResults DEF Clusters
      <4>2. ~server.seq.fin
        BY <3>1 DEF IInv, SeqLateOK
      <4> QED BY <4>1, <4>2 DEF Sequences
    <3>2. CASE r = <<"seq", "gone">>
      <4>1. server'.seq = NoSeq
        BY <1>2, <3>2, LateResults
      <4> QED BY <3>2, <4>1 DEF IInv, SeqLateOK, NoSeq
    <3> QED BY <1>3, <3>1, <3>2
  <2>3. \A what : <<"seq", what>> \in late' => what \in Labels
    BY <1>2, <1>3, <2>2
  <2>4. PodsLateOK'
    BY <1>0, <1>2, <1>3, <2>1, <2>2 DEF IInv, PodsLateOK
  <2> QED BY <2>3, <2>4 DEF SeqLateOK
<1>4. CASE \E p \in Pod, what \in {"ruled", "steered", "out"} : r = <<p, what>>
  <2>1. PICK p \in Pod, what \in {"ruled", "steered", "out"} : r = <<p, what>>
    BY <1>4
  <2>2. server'.seq = server.seq /\ server'.pod = [server.pod EXCEPT ![p] = what]
    BY <1>2, <2>1, LateResults
  <2>3. server' # server => /\ p \notin cur' /\ p \notin fresh'["reconciler"]
                            /\ <<p, "ruled">> \notin late'
    BY <1>2, <2>1
  <2>4. PodsLateOK'
    <3>1. CASE server' = server
      BY <1>2, <3>1 DEF IInv, PodsLateOK
    <3>2. CASE server' # server
      BY <1>0, <1>2, <2>1, <2>2, <2>3, <3>2 DEF IInv, PodsLateOK, Pods
    <3> QED BY <3>1, <3>2
  <2>5. SeqLateOK'
    BY <1>2, <2>2 DEF IInv, SeqLateOK, At, Protected
  <2> QED BY <2>4, <2>5
<1>5. CASE \E n \in Node, what \in Labels \union {"tainted", "untainted"} : r = <<n, what>>
  <2>1. PICK n \in Node, what \in Labels \union {"tainted", "untainted"} : r = <<n, what>>
    BY <1>5
  <2>2. server'.seq = server.seq /\ server'.pod = server.pod
    BY <1>2, <2>1, LateResults
  <2> QED BY <1>0, <1>2, <2>1, <2>2, LateKept DEF At
<1> QED BY <1>1, <1>3, <1>4, <1>5

\* Writes are late also for a manager that did not send them.
LEMMA LateRestart ==
    ASSUME IInv, Restart
    PROVE  PodsLateOK' /\ SeqLateOK'
<1>1. /\ cache' = server /\ UNCHANGED <<server, late>> /\ Pod \subseteq cur'
      /\ stage'["reconciler"] = "idle" /\ frees' = {} /\ mine'.life = "gone"
  BY DEF Restart, Workers, Objects, NoSeq
<1>2. PodsLateOK'
  BY <1>1 DEF IInv, PodsLateOK
<1>3. SeqLateOK'
  BY <1>1 DEF IInv, SeqLateOK, At, Protected
<1> QED BY <1>2, <1>3

\* Every step keeps the invariant.
LEMMA StepOK == IInv /\ [Next]_vars => IInv'
<1> SUFFICES ASSUME IInv, [Next]_vars
             PROVE  CopiesOK' /\ ReconcileOK' /\ TurnsOK' /\ PodsLateOK' /\ SeqLateOK'
  BY TypeStep DEF IInv
<1>1. CASE \E w \in Workers : OnNodes(w)
  BY <1>1, NodeStepOK, LateNodeStep DEF OnNodes
<1>2. CASE Reconcile /\ ~OnNodes("reconciler")
  BY <1>2, BeginOK, UpdateOK, ListNodesOK, PodStepOK, LateBegin, LateUpdate, LateQuiet, LatePod
  DEF Reconcile
<1>3. CASE Clean /\ ~OnNodes("cleaner")
  BY <1>3, CleanOK, LateQuiet DEF Clean
<1>4. CASE User \/ DeliverSeq \/ DeliverPods \/ DeliverNodes
  BY <1>4, UserOK, DeliverOK, LateUser, LateDeliver
<1>5. CASE LateWrite \/ Restart
  BY <1>5, LateWriteOK, RestartOK, LateLate, LateRestart
<1>6. CASE Resync \/ UNCHANGED vars
  <2>1. UNCHANGED <<server, cache, cur, stage, mine, aim, view, todo, fresh, frees>>
    BY <1>6 DEF Resync, vars, working
  <2> QED BY <1>6, <2>1, SeqKept, TurnsKept, LateQuiet
<1> QED BY <1>1, <1>2, <1>3, <1>4, <1>5, <1>6 DEF Next, Reconcile, Clean, Workers

\* The inductive invariant holds in every reachable state.
THEOREM Invariance == Spec => []IInv
BY InitOK, StepOK, PTL DEF Spec

-----------------------------------------------------------------------------
(* Writes under the finalizer.                                             *)

LabelAppears(n) == server'.node[n].label = "value" /\ server.node[n].label # "value"
TaintAppears(n) == server'.node[n].taint /\ ~server.node[n].taint
RulesAppear(p)  == server.pod[p] = "gated" /\ server'.pod[p] = "ruled"

\* Only workers write to nodes, and a key appears on one only by a reconcile that is to put
\* it there.
LEMMA KeysBySync ==
    ASSUME IInv, NEW w \in Workers, NEW m \in Node,
           PatchLabel(w, m) \/ PatchTaint(w, m) \/ NodePatchFails(w, m),
           NEW n \in Node, LabelAppears(n) \/ TaintAppears(n)
    PROVE  aim[w].sync # "no"
<1>1. server \in Clusters /\ view[w][m] \in NodeStates /\ aim[w] \in Aims
  BY DEF IInv, TypeOK, Nodes, NodeStates
<1>2. /\ WantLabel(aim[w], view[w][m].label) \in {"unset", "value", "released"}
      /\ WantTaint(aim[w], view[w][m].taint) \in BOOLEAN
  BY <1>1, WantTypes
<1>3. CASE LabelTurn(w, m) /\ Store(m, NewLabel(w, m))
  <2>1. server' = [server EXCEPT !.node[m].label = WantLabel(aim[w], view[w][m].label)]
    BY <1>3 DEF Store, NewLabel
  <2>2. server'.node = [server.node EXCEPT ![m].label = WantLabel(aim[w], view[w][m].label)]
    BY <1>1, <1>2, <2>1, NodeUpdates
  <2>3. server'.node[n].taint = server.node[n].taint
        /\ server'.node[n].label \in {server.node[n].label, WantLabel(aim[w], view[w][m].label)}
    BY <1>1, <2>2 DEF Clusters, Nodes
  <2>4. WantLabel(aim[w], view[w][m].label) = "value"
    BY <2>3 DEF LabelAppears, TaintAppears
  <2>5. view[w][m].label # WantLabel(aim[w], view[w][m].label)
    BY <1>3 DEF LabelTurn, LabelDue
  <2> QED BY <2>4, <2>5 DEF WantLabel
<1>4. CASE /\ TaintTurn(w, m)
           /\ Store(m, [server EXCEPT !.node[m].taint = WantTaint(aim[w], view[w][m].taint)])
  <2>1. server' = [server EXCEPT !.node[m].taint = WantTaint(aim[w], view[w][m].taint)]
    BY <1>4 DEF Store
  <2>2. server'.node = [server.node EXCEPT ![m].taint = WantTaint(aim[w], view[w][m].taint)]
    BY <1>1, <1>2, <2>1, NodeUpdates
  <2>3. server'.node[n].label = server.node[n].label
        /\ server'.node[n].taint \in {server.node[n].taint, WantTaint(aim[w], view[w][m].taint)}
    BY <1>1, <2>2 DEF Clusters, Nodes
  <2>4. WantTaint(aim[w], view[w][m].taint)
    BY <2>3 DEF LabelAppears, TaintAppears
  <2>5. TaintDue(aim[w], view[w][m])
    BY <1>4 DEF TaintTurn, IInv, TurnsOK, TurnOK
  <2> QED BY <1>1, <2>4, <2>5 DEF WantTaint, TaintDue, NodeStates
<1>5. CASE server' = server
  BY <1>5 DEF LabelAppears, TaintAppears
<1> QED BY <1>3, <1>4, <1>5 DEF PatchLabel, PatchTaint, NodePatchFails, GiveUp

\* Nodes change by what a worker patches, now or late.
LEMMA NodesFrame ==
    ASSUME IInv, [Next]_vars
    PROVE  server'.node = server.node \/ LateWrite \/ \E w \in Workers : OnNodes(w)
<1> USE DEF IInv, TypeOK
<1>1. CASE User
  <2>1. \/ \E q : server' = [server EXCEPT !.seq = q]
        \/ \E method : server' = [server EXCEPT !.seq.method = method]
        \/ \E p \in Pod, st \in PodStates : server' = [server EXCEPT !.pod[p] = st]
    BY <1>1 DEF User, CreateSeq, EditSeq, DeleteSeq, CreatePod, DeletePod, Bind, Change, Store,
       PodStates
  <2>2. CASE \/ \E q : server' = [server EXCEPT !.seq = q]
             \/ \E method : server' = [server EXCEPT !.seq.method = method]
    BY <2>2 DEF Clusters
  <2>3. CASE \E p \in Pod, st \in PodStates : server' = [server EXCEPT !.pod[p] = st]
    BY <2>3, PodUpdates
  <2> QED BY <2>1, <2>2, <2>3
<1>2. CASE \E p \in Pod : AddRules(p) \/ RemoveGate(p) \/ PodPatchFails(p)
  <2>1. \/ server' = server
        \/ \E p \in Pod, st \in PodStates : server' = [server EXCEPT !.pod[p] = st]
    BY <1>2 DEF AddRules, RemoveGate, PodPatchFails, Store, GiveUp, PodStates
  <2>2. CASE \E p \in Pod, st \in PodStates : server' = [server EXCEPT !.pod[p] = st]
    BY <2>2, PodUpdates
  <2> QED BY <2>1, <2>2
<1>3. CASE AddFinalizer \/ End
  <2>1. server' = server \/ \E q : server' = [server EXCEPT !.seq = q]
    BY <1>3 DEF AddFinalizer, End, Update, Store, GiveUp
  <2> QED BY <2>1 DEF Clusters
<1>4. CASE \/ Begin \/ ListNodes \/ CleanList \/ CleanLook \/ CleanDone \/ DeliverSeq
           \/ DeliverPods \/ DeliverNodes \/ Restart \/ Resync \/ UNCHANGED vars
  BY <1>4 DEF Begin, ListNodes, CleanList, CleanLook, CleanDone, DeliverSeq, DeliverPods,
     DeliverNodes, Deliver, Restart, Resync, vars
<1> QED BY <1>1, <1>2, <1>3, <1>4 DEF Next, Reconcile, Clean, Workers

\* Rules are added by AddRules, or by a late write of it.
LEMMA PodsFrame ==
    ASSUME IInv, [Next]_vars
    PROVE  \/ \A q \in Pod : server.pod[q] = "gated" => server'.pod[q] # "ruled"
           \/ \E q \in Pod : AddRules(q)
           \/ \E q \in Pod : <<q, "ruled">> \in late
<1>1. CASE server'.pod = server.pod
  BY <1>1
<1>2. ASSUME NEW p \in Pod, NEW st \in PodStates \ {"ruled"},
             server' = [server EXCEPT !.pod[p] = st]
      PROVE  \A q \in Pod : server.pod[q] = "gated" => server'.pod[q] # "ruled"
  <2>1. server'.pod = [server.pod EXCEPT ![p] = st] /\ server.pod \in Pods
    BY <1>2, PodUpdates, ClusterUpdates DEF IInv, TypeOK
  <2> QED BY <1>2, <2>1 DEF Pods
<1>3. CASE User
  <2>1. \/ \E q : server' = [server EXCEPT !.seq = q]
        \/ \E method : server' = [server EXCEPT !.seq.method = method]
        \/ \E p \in Pod, st \in PodStates \ {"ruled"} : server' = [server EXCEPT !.pod[p] = st]
    BY <1>3 DEF User, CreateSeq, EditSeq, DeleteSeq, CreatePod, DeletePod, Bind, Change, Store,
       PodStates
  <2> QED BY <1>1, <1>2, <2>1 DEF IInv, TypeOK, Clusters
<1>4. CASE \E w \in Workers : OnNodes(w)
  BY <1>1, <1>4, NodeStepFrame DEF OnNodes
<1>5. CASE \E p \in Pod : RemoveGate(p) \/ PodPatchFails(p)
  <2>1. \/ server' = server
        \/ \E p \in Pod, st \in PodStates \ {"ruled"} : server' = [server EXCEPT !.pod[p] = st]
    BY <1>5 DEF RemoveGate, PodPatchFails, Store, GiveUp, PodStates
  <2> QED BY <1>1, <1>2, <2>1
<1>6. CASE AddFinalizer \/ End
  <2>1. server' = server \/ \E q : server' = [server EXCEPT !.seq = q]
    BY <1>6 DEF AddFinalizer, End, Update, Store, GiveUp
  <2> QED BY <1>1, <2>1 DEF IInv, TypeOK, Clusters
<1>7. CASE \/ Begin \/ ListNodes \/ CleanList \/ CleanLook \/ CleanDone \/ DeliverSeq
           \/ DeliverPods \/ DeliverNodes \/ Restart \/ Resync \/ UNCHANGED vars
  BY <1>1, <1>7 DEF Begin, ListNodes, CleanList, CleanLook, CleanDone, DeliverSeq, DeliverPods,
     DeliverNodes, Deliver, Restart, Resync, vars
<1>8. CASE LateWrite
  <2>1. PICK r \in late :
           /\ LateEffect(r)
           /\ \/ r = <<"seq", "finalizer">>
              \/ r = <<"seq", "gone">>
              \/ \E p \in Pod, what \in {"ruled", "steered", "out"} : r = <<p, what>>
              \/ \E n \in Node, what \in Labels \union {"tainted", "untainted"} : r = <<n, what>>
    BY <1>8, LateCases
  <2>2. server' = CarriedOut(r[1], r[2])
    BY <2>1 DEF LateEffect
  <2>3. CASE \E p \in Pod, what \in {"steered", "out"} : r = <<p, what>>
    <3>1. PICK p \in Pod, what \in {"steered", "out"} : r = <<p, what>>
      BY <2>3
    <3>2. server'.pod = [server.pod EXCEPT ![p] = what]
      <4>1. server' = CarriedOut(p, what)
        BY <2>2, <3>1
      <4>2. CarriedOut(p, what).pod = [server.pod EXCEPT ![p] = what]
        BY LateResults
      <4> QED BY <4>1, <4>2
    <3>3. server.pod \in Pods
      BY ClusterUpdates DEF IInv, TypeOK
    <3> QED BY <3>1, <3>2, <3>3 DEF Pods
  <2>4. CASE \E what \in {"finalizer", "gone"} : r = <<"seq", what>>
    BY <1>1, <2>2, <2>4, LateResults
  <2>5. CASE \E n \in Node, what \in Labels \union {"tainted", "untainted"} : r = <<n, what>>
    <3>1. PICK n \in Node, what \in Labels \union {"tainted", "untainted"} : r = <<n, what>>
      BY <2>5
    <3> QED BY <1>1, <2>2, <3>1, LateResults
  <2>6. CASE \E p \in Pod : r = <<p, "ruled">>
    BY <2>6
  <2> QED BY <2>1, <2>3, <2>4, <2>5, <2>6
<1> QED BY <1>3, <1>4, <1>5, <1>6, <1>7, <1>8 DEF Next, Reconcile, Clean, Workers

\* What is sent and perhaps late: a key only by a worker that is to put it on a node.
LEMMA RequestsBySync ==
    ASSUME IInv, [Next]_vars, NEW r \in late' \ late, r[2] \in {"value", "tainted"}
    PROVE  \E w \in Workers : aim[w].sync # "no"
<1>1. CASE \E w \in Workers : OnNodes(w)
  <2>1. PICK w \in Workers, n \in Node :
           PatchLabel(w, n) \/ PatchTaint(w, n) \/ NodePatchFails(w, n)
    BY <1>1 DEF OnNodes
  <2>2. n \in todo[w] /\ r \in NodeRequests(w, n)
    BY <2>1 DEF PatchLabel, PatchTaint, NodePatchFails, Store, GiveUp
  <2>3. view[w][n] \in NodeStates /\ aim[w] \in Aims
    BY DEF IInv, TypeOK, Nodes, NodeStates
  <2>4. CASE LabelTurn(w, n)
    <3>1. r[2] = WantLabel(aim[w], view[w][n].label)
          /\ WantLabel(aim[w], view[w][n].label) \in Labels
      BY <2>2, <2>3, <2>4, WantTypes DEF NodeRequests
    <3>2. view[w][n].label # WantLabel(aim[w], view[w][n].label)
      BY <2>4 DEF LabelTurn, LabelDue
    <3>3. WantLabel(aim[w], view[w][n].label) = "value"
      BY <3>1
    <3> QED BY <3>2, <3>3 DEF WantLabel
  <2>5. CASE ~LabelTurn(w, n)
    <3>1. r[2] = IF WantTaint(aim[w], view[w][n].taint) THEN "tainted" ELSE "untainted"
      BY <2>2, <2>5 DEF NodeRequests
    <3>2. WantTaint(aim[w], view[w][n].taint)
      BY <3>1
    <3>3. TaintDue(aim[w], view[w][n])
      BY <2>2, <2>5 DEF LabelTurn, IInv, TurnsOK, TurnOK
    <3> QED BY <2>3, <3>2, <3>3 DEF WantTaint, TaintDue, NodeStates
  <2> QED BY <2>4, <2>5
<1>2. CASE \E p \in Pod : AddRules(p) \/ RemoveGate(p) \/ PodPatchFails(p)
  <2>1. \E p \in Pod : r = <<p, Patched(p)>>
    BY <1>2 DEF AddRules, RemoveGate, PodPatchFails, Store, GiveUp
  <2> QED BY <2>1 DEF Patched
<1>3. CASE AddFinalizer \/ End
  <2>1. ASSUME NEW q, Update(q) PROVE r[2] \in {"finalizer", "gone"}
    <3>1. CASE late' \subseteq late
      BY <3>1
    <3>2. CASE GiveUp({<<o, IF q = NoSeq THEN "gone" ELSE "finalizer">> :
                           o \in {"seq"} \intersect fresh["reconciler"]})
      <4>1. r = <<"seq", IF q = NoSeq THEN "gone" ELSE "finalizer">>
        BY <3>2 DEF GiveUp
      <4> QED BY <4>1
    <3> QED BY <2>1, <3>1, <3>2 DEF Update, Store
  <2>2. late' = late \/ \E q : Update(q)
    BY <1>3 DEF AddFinalizer, End
  <2> QED BY <2>1, <2>2
<1>4. CASE \/ User \/ Begin \/ ListNodes \/ CleanList \/ CleanLook \/ CleanDone \/ DeliverSeq
           \/ DeliverPods \/ DeliverNodes \/ LateWrite \/ Restart \/ Resync \/ UNCHANGED vars
  <2>1. late' \subseteq late
    BY <1>4 DEF User, CreateSeq, EditSeq, DeleteSeq, CreatePod, DeletePod, Bind, Change, Store,
       Begin, ListNodes, CleanList, CleanLook, CleanDone, DeliverSeq, DeliverPods,
       DeliverNodes, Deliver, LateWrite, Restart, Resync, vars
  <2> QED BY <2>1
<1> QED BY <1>1, <1>2, <1>3, <1>4 DEF Next, Reconcile, Clean, Workers

\* A live sequence that the reconciler works for has its finalizer.
LEMMA SyncUnderFinalizer ==
    ASSUME IInv, NEW w \in Workers, aim[w].sync # "no"
    PROVE  server.seq.fin
BY DEF IInv, TurnsOK, ReconcileOK, Workers, At

\* What a sequence adds to nodes and pods it sends under its finalizer; rules are also
\* stored under it, however late, and a key that is stored without it is a late one.
THEOREM UnderFinalizer == Spec => WritesUnderFinalizer
<1>1. ASSUME IInv, [Next]_vars, NEW n \in Node, LabelAppears(n) \/ TaintAppears(n)
      PROVE  server.seq.fin \/ LateWrite
  <2>1. CASE \E w \in Workers : OnNodes(w)
    BY <1>1, <2>1, KeysBySync, SyncUnderFinalizer DEF OnNodes
  <2>2. CASE server'.node = server.node
    BY <1>1, <2>2 DEF LabelAppears, TaintAppears
  <2> QED BY <1>1, <2>1, <2>2, NodesFrame
<1>2. ASSUME IInv, [Next]_vars, NEW p \in Pod, RulesAppear(p)
      PROVE  server.seq.fin
  <2>1. CASE \E q \in Pod : AddRules(q)
    <3>1. mine.life = "live" /\ frees # {}
      BY <2>1 DEF AddRules, Gated, Rules
    <3> QED BY <1>2, <3>1 DEF IInv, ReconcileOK
  <2>2. CASE \A q \in Pod : server.pod[q] = "gated" => server'.pod[q] # "ruled"
    BY <1>2, <2>2 DEF RulesAppear
  <2>3. CASE \E q \in Pod : <<q, "ruled">> \in late
    BY <1>2, <2>3 DEF IInv, PodsLateOK
  <2> QED BY <1>2, <2>1, <2>2, <2>3, PodsFrame
<1>3. ASSUME IInv, [Next]_vars, NEW r \in late' \ late, r[2] \in {"value", "tainted"}
      PROVE  server.seq.fin
  BY <1>3, RequestsBySync, SyncUnderFinalizer
<1>4. IInv /\ [Next]_vars =>
        [/\ \A p \in Pod :
              server.pod[p] = "gated" /\ server'.pod[p] = "ruled" => server.seq.fin
         /\ \A n \in Node : LET old == server.node[n] new == server'.node[n] IN
              (new.label = "value" /\ old.label # "value") \/ (new.taint /\ ~old.taint) =>
                  server.seq.fin \/ LateWrite
         /\ \A r \in late' \ late : r[2] \in {"value", "tainted"} => server.seq.fin]_vars
  BY <1>1, <1>2, <1>3 DEF LabelAppears, TaintAppears, RulesAppear
<1> QED BY <1>4, Invariance, PTL DEF Spec, WritesUnderFinalizer
=============================================================================
