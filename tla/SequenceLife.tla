----------------------------- MODULE SequenceLife -----------------------------
(***************************************************************************)
(* The life of a node-scoped PodSequence, from creation to deletion and to *)
(* the next sequence of that name, and what it leaves on the nodes: the    *)
(* finalizer, handleDeletion, the orphan cleaner that runs beside the      *)
(* reconciler, the webhook that gates pods, and the two modes of the       *)
(* manager.  (The life of a cluster-scoped one is in ClusterSequence.)     *)
(*                                                                         *)
(* Which pods a live sequence releases, and with what value it labels a    *)
(* node, is the matter of NodeSequence; here a reconcile releases any of   *)
(* the gated pods.  All pods are of a later group and placed by the        *)
(* scheduler; all nodes participate and have a group left to satisfy.  As  *)
(* there, a resourceVersion is one bit: whether a copy is the current      *)
(* revision.                                                               *)
(*                                                                         *)
(* A definition marked "Fault" is a variant of the one after it with an    *)
(* error that code like this could have.  No specification uses it: put in *)
(* that one's place, it has to violate a property.                         *)
(***************************************************************************)
EXTENDS Naturals, FiniteSets

CONSTANTS
    Pod, Node,
    MethodsUsed, \* eligibility methods that users choose from, and go from one to another
    MaxMishaps   \* how many edits, recreated sequences, deleted pods, failed writes, restarts

ASSUME LifeAssumption ==
    /\ MethodsUsed \subseteq {"NodeLabel", "Taint"}
    /\ MaxMishaps \in Nat
    /\ Pod \intersect Node = {} /\ "seq" \notin Pod \union Node

VARIABLES
    server,   \* the API server's sequence, pods and nodes
    cache,    \* the informers' copies, which reconciler, cleaner and webhook share
    cur,      \* objects whose cached copy is the current revision
    late,     \* writes given up on that the server may still carry out: to what, and which
    full,     \* the manager runs in full mode (--enable-webhook)
    queued,   \* the work queue holds the sequence's key
    stage,    \* where the reconciler and the cleaner are
    mine,     \* the sequence as the reconcile has read it
    aim,      \* what each is up to, by the sequences and pods that it has listed
    view,     \* the nodes still to do, as each has listed them, and patched them since
    fresh,    \* objects of which each holds the current revision
    todo,     \* nodes that each has yet to patch
    frees,    \* pods from which the reconcile has yet to take the gate
    failed,   \* it has collected an error
    mishaps   \* what has gone wrong so far

working == <<stage, mine, aim, view, fresh, todo, frees, failed>>
vars    == <<server, cache, cur, late, full, queued, working, mishaps>>

Workers == {"reconciler", "cleaner"}
Objects == Pod \union Node \union {"seq"}

Stages == [Workers -> {"idle", "finalizer", "pods", "nodes", "listed"}]

Labels == {"unset", "value", "released"}

\* A pod with the gate; with the gate and the rules; with the rules only; with neither,
\* or scheduled, so that it does not matter any more.
Pods  == [Pod -> {"absent", "gated", "ruled", "steered", "out"}]
Nodes == [Node -> [label : Labels, taint : BOOLEAN]]

Sequences == [life : {"unborn", "live", "deleting", "gone"}, fin : BOOLEAN,
              method : {"NodeLabel", "Taint"}]

NoSeq  == [life |-> "gone", fin |-> FALSE, method |-> "NodeLabel"]
NoNode == [label |-> "unset", taint |-> FALSE]
NoView == [n \in Node |-> NoNode]

\* Whether the key is to be taken from nodes, or is to be the label or the taint, and
\* whether pods require the label.
Aims  == [stale : BOOLEAN, used : BOOLEAN, sync : {"no", "NodeLabel", "Taint"}]
NoAim == [stale |-> FALSE, used |-> FALSE, sync |-> "no"]

Clusters == {s \in [seq : Sequences, pod : Pods, node : Nodes] :
                s.seq.life = "deleting" => s.seq.fin}

\* Writes by what they make of their object.
Writes == ({"seq"} \X {"finalizer", "gone"})
          \union (Pod \X {"ruled", "steered", "out"})
          \union (Node \X (Labels \union {"tainted", "untainted"}))

\* Types.  A sequence marked for deletion has its finalizer, and so has one that the
\* reconciler works for.
TypeOK ==
    /\ server \in Clusters /\ cache \in Clusters
    /\ cur \subseteq Objects /\ late \subseteq Writes
    /\ full \in BOOLEAN /\ queued \in BOOLEAN
    /\ stage \in Stages /\ mine \in Sequences
    /\ aim \in [Workers -> Aims]
    /\ view \in [Workers -> Nodes] /\ fresh \in [Workers -> SUBSET Objects]
    /\ todo \in [Workers -> SUBSET Node] /\ frees \subseteq Pod /\ failed \in BOOLEAN
    /\ stage["reconciler"] \in {"pods", "nodes"} => mine.fin
    /\ mishaps \in 0 .. MaxMishaps

-----------------------------------------------------------------------------
(* What the code asks of what it has read.                                 *)

Exists(q) == q.life \in {"live", "deleting"}

\* The webhook gates pods of a sequence that it finds and that is not being deleted.
FindSequence(v) == v.seq.life = "live"

PendingRequiredKeys(v) == \E p \in Pod : v.pod[p] \in {"ruled", "steered"}

GatedIn(v) == {p \in Pod : v.pod[p] \in {"gated", "ruled"}}

\* Fault: a label that pods still require is left as it is.
WantLabelInUse(a, has) ==
    IF a.sync = "NodeLabel" THEN "value"
    ELSE IF a.stale /\ ~a.used THEN "unset" ELSE has

\* setNodeKey and releaseNodeKeys: what becomes of the label and of the taint that a node
\* has.
WantLabel(a, has) ==
    IF a.sync = "NodeLabel" THEN "value"
    ELSE IF has = "unset" \/ ~a.stale THEN has
    ELSE IF a.used THEN "released" ELSE "unset"

WantTaint(a, has) == a.sync = "Taint" \/ (has /\ ~a.stale)

LabelDue(a, node) == node.label # WantLabel(a, node.label)
TaintDue(a, node) == node.taint # WantTaint(a, node.taint)

-----------------------------------------------------------------------------
(* The server, users and the scheduler.                                    *)

\* The server has a new revision of o (of none, if nothing changes).  All writes but those
\* of labels carry a lock, which then refuses the ones that are late.
Store(o, s) ==
    /\ server' = s
    /\ cur' = IF s = server THEN cur ELSE cur \ {o}
    /\ late' = IF s = server THEN late ELSE {r \in late : r[1] # o \/ r[2] \in Labels}

Change(o, s) ==
    /\ Store(o, s)
    /\ fresh' = [w \in Workers |-> fresh[w] \ {o}]
    /\ UNCHANGED <<cache, full, queued, stage, mine, aim, view, todo, frees, failed>>

Mishap == mishaps < MaxMishaps /\ mishaps' = mishaps + 1

CreateSeq(method) ==
    /\ Change("seq", [server EXCEPT !.seq = [life |-> "live", fin |-> FALSE, method |-> method]])
    /\ \/ server.seq.life = "unborn" /\ UNCHANGED mishaps
       \/ server.seq.life = "gone" /\ Mishap

EditSeq(method) ==
    /\ server.seq.life = "live" /\ server.seq.method # method
    /\ Change("seq", [server EXCEPT !.seq.method = method])
    /\ Mishap

\* Without a finalizer the object goes at once.
DeleteSeq ==
    /\ server.seq.life = "live"
    /\ Change("seq", [server EXCEPT !.seq = IF @.fin THEN [@ EXCEPT !.life = "deleting"]
                                                     ELSE NoSeq])
    /\ UNCHANGED mishaps

\* PodGateInjector.Handle.  A pod that it does not gate, or that is created while it is
\* not available, is of no interest here.  In lite mode, the template has the gate.
CreatePod(p) ==
    /\ server.pod[p] = "absent"
    /\ full => FindSequence(cache)
    /\ Change(p, [server EXCEPT !.pod[p] = "gated"])
    /\ UNCHANGED mishaps

DeletePod(p) ==
    /\ server.pod[p] \in {"gated", "ruled", "steered"}
    /\ Change(p, [server EXCEPT !.pod[p] = "absent"])
    /\ Mishap

\* A required affinity needs the label; its value may be too low, unless it is released.
Bind(p) ==
    /\ server.pod[p] = "steered" /\ \E n \in Node : server.node[n].label # "unset"
    /\ Change(p, [server EXCEPT !.pod[p] = "out"])
    /\ UNCHANGED mishaps

CertainlyBind(p) ==
    /\ \E n \in Node : server.node[n].label = "released"
    /\ Bind(p)

-----------------------------------------------------------------------------
(* The informers.  mapPod and mapNode look for the sequence in the cache;  *)
(* nodes are only watched in full mode.                                    *)

Deliver(objects, c) ==
    /\ ~(objects \subseteq cur)
    /\ cache' = c /\ cur' = cur \union objects
    /\ UNCHANGED <<server, late, full, working, mishaps>>

DeliverSeq ==
    /\ Deliver({"seq"}, [cache EXCEPT !.seq = server.seq])
    /\ queued' = TRUE

DeliverPods ==
    /\ Deliver(Pod, [cache EXCEPT !.pod = server.pod])
    /\ queued' = (queued \/ Exists(cache.seq))

\* Fault: changes of nodes do not enqueue.
DeliverNodesQuietly ==
    /\ Deliver(Node, [cache EXCEPT !.node = server.node])
    /\ UNCHANGED queued

DeliverNodes ==
    /\ Deliver(Node, [cache EXCEPT !.node = server.node])
    /\ queued' = (queued \/ (full /\ Exists(cache.seq)))

-----------------------------------------------------------------------------
(* Reconcile, but for its writes to nodes.                                 *)

\* The nodes that w now lists and finds not to be as it wants.
NodesDue(a) == {n \in Node : LabelDue(a, cache.node[n]) \/ TaintDue(a, cache.node[n])}

\* w turns to them.
Look(w, nodes) ==
    /\ todo' = [todo EXCEPT ![w] = nodes]
    /\ view' = [view EXCEPT ![w] = [n \in Node |-> IF n \in nodes THEN cache.node[n] ELSE NoNode]]

At(st) == stage["reconciler"] = st

GoTo(st) == stage' = [stage EXCEPT !["reconciler"] = st]

Forget(w) ==
    /\ view' = [view EXCEPT ![w] = NoView] /\ fresh' = [fresh EXCEPT ![w] = {}]
    /\ todo' = [todo EXCEPT ![w] = {}] /\ aim' = [aim EXCEPT ![w] = NoAim]

\* Fault: an error is logged and that is it.
ReturnQuietly(error) ==
    /\ GoTo("idle") /\ Forget("reconciler")
    /\ mine' = NoSeq /\ frees' = {} /\ failed' = FALSE
    /\ UNCHANGED <<cache, full, queued>>

\* With an error the key is queued again.
Return(error) ==
    /\ GoTo("idle") /\ Forget("reconciler")
    /\ mine' = NoSeq /\ frees' = {} /\ failed' = FALSE
    /\ queued' = (queued \/ error)
    /\ UNCHANGED <<cache, full>>

\* Fault: the finalizer is not waited for.
PhaseUnprotected(q) ==
    IF ~Exists(q) THEN "idle"
    ELSE IF q.life = "deleting" THEN "pods"
    ELSE IF full THEN "nodes" ELSE "idle"

\* What is left to do with the copy q that the cache returns.
Phase(q) ==
    IF ~Exists(q) \/ (q.life = "deleting" /\ ~q.fin) THEN "idle"
    ELSE IF ~q.fin THEN "finalizer"
    ELSE IF q.life = "deleting" THEN "pods"
    ELSE IF full THEN "nodes" ELSE "idle"

\* What it is to do to nodes.
Aim(q) == [stale |-> TRUE, used |-> PendingRequiredKeys(cache),
           sync |-> IF q.life = "live" THEN q.method ELSE "no"]

Hold(objects) == fresh' = [fresh EXCEPT !["reconciler"] = cur \intersect objects]

\* A live sequence sees to the nodes and then to the pods that its plan says; a deletion
\* to all pods, and then it lists the nodes.
Begin ==
    /\ At("idle") /\ queued /\ queued' = FALSE
    /\ LET q == cache.seq nodes == NodesDue(Aim(q)) IN
         /\ GoTo(Phase(q))
         /\ mine' = IF Phase(q) = "idle" THEN NoSeq ELSE q
         /\ CASE Phase(q) = "idle" -> UNCHANGED <<aim, fresh, frees, todo, view>>
              [] Phase(q) = "finalizer" -> Hold({"seq"}) /\ UNCHANGED <<aim, frees, todo, view>>
              [] Phase(q) = "pods" ->
                   /\ aim' = [aim EXCEPT !["reconciler"] = Aim(q)]
                   /\ frees' = GatedIn(cache) /\ Hold({"seq"} \union frees')
                   /\ UNCHANGED <<todo, view>>
              [] Phase(q) = "nodes" ->
                   /\ aim' = [aim EXCEPT !["reconciler"] = Aim(q)]
                   /\ frees' \in SUBSET GatedIn(cache) /\ Hold(nodes \union frees')
                   /\ Look("reconciler", nodes)
    /\ UNCHANGED <<server, cache, cur, late, full, failed, mishaps>>

\* A request gets no answer: the server has not seen it yet, and perhaps never does.
GiveUp(requests) ==
    /\ Mishap /\ UNCHANGED <<server, cur>>
    /\ late' \in {late} \union {late \union {r} : r \in requests}

\* A write of the sequence, under a lock; NotFound is an error unless it is its removal.
Update(q) ==
    \/ /\ "seq" \in fresh["reconciler"]
       /\ Store("seq", [server EXCEPT !.seq = q])
       /\ \E lost \in BOOLEAN : Return(lost)
       /\ UNCHANGED mishaps
    \/ /\ "seq" \notin fresh["reconciler"]
       /\ Return(mine.life = "live" \/ Exists(server.seq))
       /\ UNCHANGED <<server, cur, late, mishaps>>
    \/ /\ Return(TRUE)
       /\ GiveUp({<<o, IF q = NoSeq THEN "gone" ELSE "finalizer">> :
                      o \in {"seq"} \intersect fresh["reconciler"]})

AddFinalizer == At("finalizer") /\ Update([mine EXCEPT !.fin = TRUE])

Rules == mine.life = "live" /\ mine.method = "NodeLabel"

Gated(p) == p \in frees /\ todo["reconciler"] = {}

GoOn(p, error) ==
    /\ frees' = frees \ {p} /\ failed' = (failed \/ error)
    /\ UNCHANGED <<cache, full, queued, stage, mine, aim, view, todo>>

\* applyPodAction, first patch.  If the answer is lost, it is an error, and that is all.
AddRules(p) ==
    /\ Gated(p) /\ Rules /\ p \in fresh["reconciler"] /\ server.pod[p] = "gated"
    /\ Store(p, [server EXCEPT !.pod[p] = "ruled"])
    /\ \/ UNCHANGED <<cache, full, queued, working, mishaps>>
       \/ GoOn(p, TRUE) /\ UNCHANGED fresh /\ Mishap

\* removeGate; if the answer is lost, it is an error.
RemoveGate(p) ==
    /\ Gated(p) /\ (Rules => server.pod[p] = "ruled") /\ p \in fresh["reconciler"]
    /\ Store(p, [server EXCEPT !.pod[p] = IF @ = "ruled" THEN "steered" ELSE "out"])
    /\ \E lost \in BOOLEAN : GoOn(p, lost)
    /\ UNCHANGED <<fresh, mishaps>>

\* What the pod becomes by the patch that is next.
Patched(p) ==
    IF server.pod[p] = "ruled" THEN "steered" ELSE IF Rules THEN "ruled" ELSE "out"

\* The lock refuses the patch, the pod is gone, or the write fails in some other way.
PodPatchFails(p) ==
    /\ Gated(p)
    /\ \/ /\ p \notin fresh["reconciler"]
          /\ \E error \in BOOLEAN :
               /\ server.pod[p] # "out" => error = (server.pod[p] # "absent")
               /\ GoOn(p, error)
          /\ UNCHANGED <<server, cur, late, mishaps>>
       \/ /\ GoOn(p, TRUE)
          /\ GiveUp({<<o, Patched(o)>> : o \in {p} \intersect fresh["reconciler"]})
    /\ UNCHANGED fresh

NodesLeft == At("pods") /\ mine.life = "deleting" /\ full

ListNodes ==
    /\ NodesLeft /\ frees = {}
    /\ GoTo("nodes")
    /\ LET nodes == NodesDue(aim["reconciler"]) IN
         /\ Look("reconciler", nodes)
         /\ fresh' = [fresh EXCEPT !["reconciler"] = @ \union (cur \intersect nodes)]
    /\ UNCHANGED <<server, cache, cur, late, full, queued, mine, aim, frees, failed, mishaps>>

End ==
    /\ At("pods") \/ At("nodes")
    /\ ~NodesLeft /\ frees = {} /\ todo["reconciler"] = {}
    /\ IF mine.life = "deleting" /\ ~failed
         THEN Update(NoSeq)
         ELSE Return(failed) /\ UNCHANGED <<server, cur, late, mishaps>>

-----------------------------------------------------------------------------
(* Writes to nodes: of setNodeKey and releaseNodeKeys in a reconcile, and  *)
(* of releaseNodeKeys in the cleaner.                                      *)

LabelTurn(w, n) == n \in todo[w] /\ LabelDue(aim[w], view[w][n])
TaintTurn(w, n) == n \in todo[w] /\ ~LabelDue(aim[w], view[w][n])

NewLabel(w, n) == [server EXCEPT !.node[n].label = WantLabel(aim[w], view[w][n].label)]

NextNode(w, n, error) ==
    /\ todo' = [todo EXCEPT ![w] = @ \ {n}] /\ view' = [view EXCEPT ![w][n] = NoNode]
    /\ failed' = (failed \/ (error /\ w = "reconciler"))
    /\ UNCHANGED <<cache, full, queued, stage, mine, aim, frees>>

\* A merge patch without a lock.  It answers with the node, on whose taints what follows
\* is based.
PatchLabel(w, n) ==
    /\ LabelTurn(w, n)
    /\ Store(n, NewLabel(w, n))
    /\ LET answer == server'.node[n]
           more == TaintDue(aim[w], answer)
           old == IF server' = server THEN {} ELSE {n} IN
         /\ IF more THEN /\ view' = [view EXCEPT ![w][n] = answer]
                         /\ UNCHANGED <<cache, full, queued, stage, mine, aim, todo, frees, failed>>
                    ELSE NextNode(w, n, FALSE)
         /\ fresh' = [v \in Workers |-> IF v # w THEN fresh[v] \ old
                                        ELSE IF more THEN fresh[v] \union {n} ELSE fresh[v] \ {n}]
    /\ UNCHANGED mishaps

\* The list of taints is replaced, under a lock.  If the answer is lost, it is an error.
PatchTaint(w, n) ==
    /\ TaintTurn(w, n) /\ n \in fresh[w]
    /\ Store(n, [server EXCEPT !.node[n].taint = WantTaint(aim[w], view[w][n].taint)])
    /\ \E lost \in BOOLEAN : NextNode(w, n, lost)
    /\ fresh' = [v \in Workers |-> fresh[v] \ {n}]
    /\ UNCHANGED mishaps

\* The patch that w has begun to send.
NodeRequests(w, n) ==
    IF LabelTurn(w, n) THEN {<<n, WantLabel(aim[w], view[w][n].label)>>}
    ELSE {<<o, IF WantTaint(aim[w], view[w][o].taint) THEN "tainted" ELSE "untainted">> :
              o \in {n} \intersect fresh[w]}

\* The lock refuses the patch, or a patch fails in some other way, perhaps only after the
\* label has been written.
NodePatchFails(w, n) ==
    /\ \/ /\ TaintTurn(w, n) /\ n \notin fresh[w]
          /\ UNCHANGED <<server, cur, late, fresh, mishaps>>
       \/ /\ n \in todo[w] /\ GiveUp(NodeRequests(w, n))
          /\ fresh' = [fresh EXCEPT ![w] = @ \ {n}]
       \/ /\ LabelTurn(w, n) /\ Mishap /\ Store(n, NewLabel(w, n))
          /\ fresh' = [v \in Workers |-> fresh[v] \ {n}]
    /\ NextNode(w, n, TRUE)

-----------------------------------------------------------------------------
(* The orphan cleaner: at the start, and every OrphanCleanupInterval.      *)

CleanTo(st) == stage' = [stage EXCEPT !["cleaner"] = st]

\* Keys of sequences in the cache are not stale, even if these are being deleted.
CleanList ==
    /\ full /\ stage["cleaner"] = "idle" /\ CleanTo("listed")
    /\ aim' = [aim EXCEPT !["cleaner"].stale = ~Exists(cache.seq)]
    /\ UNCHANGED <<server, cache, cur, late, full, queued, mine, view, fresh, todo, frees,
                   failed, mishaps>>

CleanLook ==
    /\ stage["cleaner"] = "listed"
    /\ LET a == [aim["cleaner"] EXCEPT !.used = PendingRequiredKeys(cache)]
           nodes == NodesDue(a) IN
         IF nodes = {} THEN CleanTo("idle") /\ Forget("cleaner")
         ELSE /\ CleanTo("nodes") /\ Look("cleaner", nodes)
              /\ aim' = [aim EXCEPT !["cleaner"] = a]
              /\ fresh' = [fresh EXCEPT !["cleaner"] = cur \intersect nodes]
    /\ UNCHANGED <<server, cache, cur, late, full, queued, mine, frees, failed, mishaps>>

CleanDone ==
    /\ stage["cleaner"] = "nodes" /\ todo["cleaner"] = {}
    /\ CleanTo("idle") /\ Forget("cleaner")
    /\ UNCHANGED <<server, cache, cur, late, full, queued, mine, frees, failed, mishaps>>

-----------------------------------------------------------------------------
\* What a late write makes of the cluster.
CarriedOut(o, what) ==
    CASE what = "finalizer" -> [server EXCEPT !.seq.fin = TRUE]
      [] what = "gone"      -> [server EXCEPT !.seq = NoSeq]
      [] what \in Labels    -> [server EXCEPT !.node[o].label = what]
      [] what \in {"tainted", "untainted"} ->
           [server EXCEPT !.node[o].taint = (what = "tainted")]
      [] OTHER              -> [server EXCEPT !.pod[o] = what]

\* The server carries out a request long after its sender has given up.
LateWrite ==
    \E r \in late : LET s == CarriedOut(r[1], r[2]) IN
        /\ server' = s
        /\ cur' = IF s = server THEN cur ELSE cur \ {r[1]}
        /\ late' = {q \in late \ {r} : s = server \/ q[1] # r[1] \/ q[2] \in Labels}
        /\ fresh' = [w \in Workers |-> IF s = server THEN fresh[w] ELSE fresh[w] \ {r[1]}]
        /\ UNCHANGED <<cache, full, queued, stage, mine, aim, view, todo, frees, failed, mishaps>>

\* The manager dies, or is deployed anew, in one mode or the other.  That full mode comes
\* back is no mishap: a sequence that ends in lite mode is to meet it again.
Restart ==
    /\ full' \in BOOLEAN
    /\ cache' = server /\ cur' = Objects /\ queued' = TRUE
    /\ stage' = [w \in Workers |-> "idle"] /\ mine' = NoSeq
    /\ aim' = [w \in Workers |-> NoAim] /\ view' = [w \in Workers |-> NoView]
    /\ fresh' = [w \in Workers |-> {}] /\ todo' = [w \in Workers |-> {}]
    /\ frees' = {} /\ failed' = FALSE
    /\ UNCHANGED <<server, late>>
    /\ IF ~full /\ full' THEN UNCHANGED mishaps ELSE Mishap

\* RequeueAfter: a minute after it last ran, a sequence is reconciled again.
Resync ==
    /\ At("idle") /\ ~queued /\ Exists(cache.seq) /\ queued' = TRUE
    /\ UNCHANGED <<server, cache, cur, late, full, working, mishaps>>

Init ==
    /\ server = [seq |-> [NoSeq EXCEPT !.life = "unborn"], pod |-> [p \in Pod |-> "absent"],
                 node |-> NoView]
    /\ cache = server /\ cur = Objects /\ full \in BOOLEAN /\ queued = FALSE
    /\ stage = [w \in Workers |-> "idle"] /\ mine = NoSeq
    /\ aim = [w \in Workers |-> NoAim] /\ view = [w \in Workers |-> NoView]
    /\ fresh = [w \in Workers |-> {}] /\ todo = [w \in Workers |-> {}]
    /\ frees = {} /\ failed = FALSE /\ late = {} /\ mishaps = 0

User ==
    \/ \E method \in MethodsUsed : CreateSeq(method) \/ EditSeq(method)
    \/ DeleteSeq
    \/ \E p \in Pod : CreatePod(p) \/ DeletePod(p) \/ Bind(p)

OnNodes(w) ==
    \E n \in Node : PatchLabel(w, n) \/ PatchTaint(w, n) \/ NodePatchFails(w, n)

Reconcile ==
    \/ Begin \/ AddFinalizer \/ ListNodes \/ End
    \/ \E p \in Pod : AddRules(p) \/ RemoveGate(p) \/ PodPatchFails(p)
    \/ OnNodes("reconciler")

Clean == CleanList \/ CleanLook \/ CleanDone \/ OnNodes("cleaner")

Next ==
    \/ User \/ DeliverSeq \/ DeliverPods \/ DeliverNodes
    \/ Reconcile \/ Clean
    \/ LateWrite \/ Restart \/ Resync

Spec == Init /\ [][Next]_vars

\* The informers, the reconciler, the cleaner's ticker and the scheduler go on; users need
\* not do anything, and the resync is not relied on.
Fairness ==
    /\ WF_vars(DeliverSeq) /\ WF_vars(DeliverPods) /\ WF_vars(DeliverNodes)
    /\ WF_vars(Reconcile) /\ WF_vars(Clean)
    /\ \A p \in Pod : WF_vars(CertainlyBind(p))

LiveSpec == Spec /\ Fairness

-----------------------------------------------------------------------------
(* Properties.                                                             *)

\* However a sequence ended (in full mode, in lite mode between two times of full mode, or
\* after refused writes), a manager that stays in full mode takes its label and its taint
\* from every node; also a label that was released for pending pods, and one that was
\* written after the end by a late patch.
KeysCollected ==
    <>[](full /\ ~Exists(server.seq)) =>
        <>[](\A n \in Node : server.node[n] = NoNode)

Steers == server.seq.life = "live" /\ server.seq.method = "NodeLabel"

\* The cleaner and the sequence's predecessor do not get in the way of a sequence that
\* lives: whatever they take from a node for want of news comes back.
KeysMaintained ==
    <>[](full /\ Steers) => <>[](\A n \in Node : server.node[n].label = "value")

\* A deletion is carried through, in either mode, beside the cleaner.
DeletionCompletes == server.seq.life = "deleting" ~> server.seq.life # "deleting"

\* What a reconcile adds to nodes and pods it sends while the server's sequence has the
\* finalizer, whichever of the sequences of that name it has read; so a deletion can come
\* only after it.  Rules, which go with a pod that a deletion has to patch, are also stored
\* under the finalizer, however late.  A key can be stored on a node after the sequence's
\* end if its patch is late: that is KeysCollected's matter.
WritesUnderFinalizer ==
    [][/\ \A p \in Pod :
            server.pod[p] = "gated" /\ server'.pod[p] = "ruled" => server.seq.fin
       /\ \A n \in Node : LET old == server.node[n] new == server'.node[n] IN
            (new.label = "value" /\ old.label # "value") \/ (new.taint /\ ~old.taint) =>
                server.seq.fin \/ LateWrite
       /\ \A r \in late' \ late : r[2] \in {"value", "tainted"} => server.seq.fin]_vars
=============================================================================
