----------------------------- MODULE NodeSequence -----------------------------
(***************************************************************************)
(* reconcileNodeScoped taken apart: lists from caches that move            *)
(* independently, one patch at a time, some refused, lost or late, and     *)
(* crashes in between, while the cluster goes on.  NodeRounds is about     *)
(* time, specs and the plan itself; here nothing waits (no waitDuration,   *)
(* no gateTimeout), every DaemonSet is there from the start, every node is *)
(* selected, and only the interleaving matters.                            *)
(*                                                                         *)
(* A resourceVersion is one bit: whether a copy of an object is its        *)
(* current revision, which is all an optimistic lock asks.  What a         *)
(* reconcile reads it reads in one step: each cache lags as it likes, so   *)
(* what lists at three moments return, lists at the last one could return. *)
(*                                                                         *)
(* A definition marked "Fault" is a variant of the one after it with an    *)
(* error that code like this could have.  No specification uses it: put in *)
(* that one's place, it has to violate a property.                         *)
(***************************************************************************)
EXTENDS NodeScope

CONSTANTS
    Present,     \* nodes that are there when the controller starts
    Churning,    \* pods that users may delete (and recreate)
    Flaky,       \* pods that may lose readiness
    Volatile,    \* nodes that may leave and come back
    Foreign,     \* taints that others put on nodes and take away
    MethodsUsed, \* eligibility methods that users may choose from
    MayEdit,     \* users may go from one to another
    Sequence,    \* stands for the PodSequence where objects are named
    MaxMishaps   \* how many mishaps there are at most

ASSUME SequenceAssumption ==
    /\ Present \subseteq Node /\ Churning \subseteq Pod /\ Flaky \subseteq Pod
    /\ Volatile \subseteq Node /\ Foreign \subseteq TaintKind \ {"own"}
    /\ MethodsUsed \subseteq Methods /\ MayEdit \in BOOLEAN
    /\ Pod \intersect Node = {} /\ Sequence \notin Pod \union Node /\ None \notin Pod
    /\ MaxMishaps \in Nat

ASSUME NothingWaits == GateTimeout = 0 /\ \A g \in Group : Wait[g] = 0

VARIABLES
    server,   \* the API server's objects: pods, nodes, DaemonSets, spec.nodeEligibility
    cache,    \* the informers' copies
    status,   \* the status of the sequence at the server
    cur,      \* objects whose cached copy is the current revision
    noticed,  \* of the node events to be delivered, one will enqueue the sequence
    queued,   \* the work queue holds the sequence's key
    busy,     \* a reconcile is running
    view,     \* the nodes that it has read
    plan,     \* what it makes of all that it has read
    fresh,    \* objects of which it holds the current revision
    todo,     \* nodes and pods it has yet to patch
    held,     \* the one of them whose first patch was answered, or None
    reply,    \* the node that this answer showed
    failed,   \* some write has returned an error
    mishaps,  \* the number of them so far
    late,     \* a label patch given up on that the server may still apply
    earned,   \* history: gated pods of which all earlier groups have been satisfied on
              \* their node, at one moment since the pod was created
    reached   \* history: the most groups that have been satisfied on a node

reading == <<busy, view, plan>>
writing == <<todo, held, reply, failed>>
history == <<earned, reached>>
vars    == <<server, cache, status, cur, noticed, queued, reading, fresh, writing, mishaps, late,
             history>>

Objects == Pod \union Node \union {Sequence}

NoView  == [n \in Node |-> NoNode]

Cluster == [pod |-> [p \in Pod |-> NoPod], ds |-> DaemonSet, node |-> NoView,
            method |-> "NodeLabel"]

\* ComputeNodePlan, and all that is decided from it before the first write.
Plan(v) ==
    [label  |-> [n \in Node |-> WantLabel(v, n, v.method)],
     taint  |-> [n \in Node |-> WantTaint(v, n, v.method)],
     rules  |-> [p \in Pod |-> IF p \in Ungate(v)
                                 THEN Constraint(v, p, v.method) \ v.pod[p].rule ELSE {}],
     status |-> NodeScopedStatus(v, v.method)]

NoPlan == Plan(Cluster)

-----------------------------------------------------------------------------
(* Types.                                                                  *)

Label == 0 .. NumGroups \union {Unset, ReleasedLabelValue}
Rules == SUBSET {"affinity", "tolerations"}

Nodes == [Node -> [st : {"absent", "in"}, taints : SUBSET (TaintKind \ {"own"}),
                   label : Label, taint : Group \union {Unset}]]

Statuses == [phase : {"none", "InProgress", "Active"}, idx : 0 .. NumGroups,
             satisfied : SUBSET Node, failed : SUBSET Node,
             gated : 0 .. Cardinality(Pod), degraded : BOOLEAN]

Clusters ==
    [pod : [Pod -> [st : {"absent", "gated", "pending", "ready"}, age : {0},
                    on : Node \union {None}, rule : Rules]],
     node : Nodes, ds : {DaemonSet}, method : Methods]

\* Types.  A taint's value stays below the number of groups: the taint of a node where
\* every group is satisfied is gone.
TypeOK ==
    /\ server \in Clusters /\ cache \in Clusters /\ status \in Statuses
    /\ cur \subseteq Objects /\ noticed \in BOOLEAN /\ queued \in BOOLEAN
    /\ busy \in BOOLEAN /\ view \in Nodes
    /\ plan \in [label : [Node -> Label], taint : [Node -> Group \union {Unset}],
                 rules : [Pod -> Rules], status : Statuses]
    /\ fresh \subseteq Objects /\ todo \subseteq Node \union Pod
    /\ held \in todo \union {None} /\ failed \in BOOLEAN
    /\ [n \in Node |-> reply] \in Nodes
    /\ late \subseteq Node \X Label /\ mishaps \in 0 .. MaxMishaps
    /\ earned \subseteq Pod /\ reached \in [Node -> 0 .. NumGroups]

-----------------------------------------------------------------------------
(* The server and the caches.                                              *)

\* The server has a new revision of object o (of none, if nothing changes).
Store(o, s) ==
    /\ server' = s
    /\ cur' = IF s = server THEN cur ELSE cur \ {o}
    /\ noticed' = (noticed \/ (o \in Node /\ NodeChangePredicate(server.node[o], s.node[o])))
    /\ LET sat == [n \in Node |-> Satisfied(s, n)] IN
         /\ earned' = {p \in Pod : /\ HasGate(s, p)
                                   /\ \/ p \in earned
                                      \/ \E n \in Node : /\ TargetNode(s, p) = n
                                                        /\ sat[n] >= GroupIndexForPod[p]}
         /\ reached' = [n \in Node |-> Max({sat[n], reached[n]})]

Unstored == UNCHANGED <<server, status, cur, noticed, history>>

\* Somebody else changes object o.
Change(o, s) ==
    /\ Store(o, s)
    /\ fresh' = fresh \ {o}
    /\ UNCHANGED <<cache, status, queued, reading, writing, late>>

PodChange(p, r)  == Change(p, [server EXCEPT !.pod[p] = r])
NodeChange(n, r) == Change(n, [server EXCEPT !.node[n] = r])

\* Informers deliver what has changed, each for its type, and the handlers enqueue.
DeliverPods ==
    /\ ~(Pod \subseteq cur)
    /\ cache' = [cache EXCEPT !.pod = server.pod]
    /\ cur' = cur \union Pod
    /\ queued' = (queued \/ \E p \in Pod \ cur : MapPod(p))
    /\ UNCHANGED <<server, status, noticed, reading, fresh, writing, late, history, mishaps>>

DeliverNodes ==
    /\ ~(Node \subseteq cur)
    /\ cache' = [cache EXCEPT !.node = server.node]
    /\ cur' = cur \union Node
    /\ queued' = (queued \/ noticed) /\ noticed' = FALSE
    /\ UNCHANGED <<server, status, reading, fresh, writing, late, history, mishaps>>

DeliverSequence ==
    /\ Sequence \notin cur
    /\ cache' = [cache EXCEPT !.method = server.method]
    /\ cur' = cur \union {Sequence}
    /\ queued' = TRUE
    /\ UNCHANGED <<server, status, noticed, reading, fresh, writing, late, history, mishaps>>

-----------------------------------------------------------------------------
(* Users, the DaemonSet controller, the scheduler and the kubelet.         *)

\* What may go wrong, but MaxMishaps times at most.
Mishap == mishaps < MaxMishaps /\ mishaps' = mishaps + 1

Create(p) ==
    /\ MayCreate(server, p)
    /\ PodChange(p, [NoPod EXCEPT !.st = "gated"])
    /\ UNCHANGED mishaps

Delete(p) ==
    /\ server.pod[p] # NoPod
    /\ \/ Garbage(server, p) /\ UNCHANGED mishaps
       \/ p \in Churning /\ Mishap
    /\ PodChange(p, NoPod)

Bind(p, n) ==
    /\ server.pod[p].st = "pending" /\ server.pod[p].on = None /\ CanBind(server, p, n)
    /\ PinnedTo[p] = None
    /\ PodChange(p, [server.pod[p] EXCEPT !.on = n])
    /\ UNCHANGED mishaps

\* For a pinned pod, to be bound makes no difference until it is ready.
BecomeReady(p, n) ==
    /\ server.pod[p].st = "pending"
    /\ \/ server.pod[p].on = n
       \/ PinnedTo[p] = n /\ CanBind(server, p, n)
    /\ PodChange(p, [server.pod[p] EXCEPT !.st = "ready", !.on = n])
    /\ UNCHANGED mishaps

BecomeUnready(p) ==
    /\ p \in Flaky /\ server.pod[p].st = "ready"
    /\ PodChange(p, [server.pod[p] EXCEPT !.st = "pending"])
    /\ Mishap

Join(n) ==
    /\ ~Exists(server, n)
    /\ NodeChange(n, [NoNode EXCEPT !.st = "in"])
    /\ UNCHANGED mishaps

Leave(n) ==
    /\ n \in Volatile /\ Exists(server, n)
    /\ NodeChange(n, NoNode)
    /\ Mishap

\* Others taint a node and take their taint away again.
Retaint(n) ==
    /\ Exists(server, n)
    /\ \E t \in Foreign :
         NodeChange(n, [server.node[n] EXCEPT !.taints = IF t \in @ THEN @ \ {t}
                                                                  ELSE @ \union {t}])
    /\ Mishap

EditMethod(m) ==
    /\ MayEdit /\ m \in MethodsUsed \ {server.method}
    /\ Change(Sequence, [server EXCEPT !.method = m])
    /\ Mishap

-----------------------------------------------------------------------------
(* A reconcile: what it reads, and the plan that it makes.                 *)

Begin ==
    /\ ~busy /\ queued
    /\ busy' = TRUE /\ queued' = FALSE
    /\ view' = cache.node /\ fresh' = cur
    /\ plan' = Plan(cache)
    /\ todo' = {n \in Node : Exists(cache, n)} \union Ungate(cache)
    /\ UNCHANGED <<server, cache, status, cur, noticed, held, reply, failed, late, history, mishaps>>

-----------------------------------------------------------------------------
(* A reconcile: what it writes, nodes first.                               *)

Turn(o) ==
    /\ busy /\ o \in todo /\ held \in {None, o}
    /\ o \in Pod => todo \intersect Node = {}

\* setNodeKey takes the taints from the answer to the label patch, if there was one.
Copy(n) == IF held = n THEN reply ELSE view[n]

LabelDue(n) == held # n /\ view[n].label # plan.label[n]
TaintDue(n) == ~LabelDue(n) /\ Copy(n).taint # plan.taint[n]
RulesDue(p) == held # p /\ plan.rules[p] # {}

Due(o) == o \in Node => LabelDue(o) \/ TaintDue(o)

\* The loop goes on to the next node or pod, with or without an error to remember.
GoOn(o, error) ==
    /\ todo' = todo \ {o} /\ held' = None /\ reply' = NoNode
    /\ failed' = (failed \/ error)
    /\ UNCHANGED <<cache, queued, reading>>

\* The answer to a first patch holds the current revision.
Answered(o, copy) ==
    /\ held' = o /\ reply' = copy
    /\ UNCHANGED <<cache, queued, reading, todo, failed, late>>

Write(o, s) == Store(o, s) /\ UNCHANGED status

SetLabel(n, l) == Write(n, [server EXCEPT !.node[n].label = l])

SetTaint(n) == Write(n, [server EXCEPT !.node[n].taint = plan.taint[n],
                                       !.node[n].taints = Copy(n).taints])

SetRules(p) == Write(p, [server EXCEPT !.pod[p].rule = @ \union plan.rules[p]])

Ungated(p) == Write(p, [server EXCEPT !.pod[p].st = "pending"])

\* A merge patch without a lock.
PatchLabel(n) ==
    /\ Turn(n) /\ LabelDue(n) /\ Exists(server, n)
    /\ SetLabel(n, plan.label[n]) /\ fresh' = fresh \union {n}
    /\ Answered(n, server'.node[n])
    /\ UNCHANGED mishaps

\* The node is gone: not an error, and on to its taint.
PatchLabelNotFound(n) ==
    /\ Turn(n) /\ LabelDue(n) /\ ~Exists(server, n)
    /\ Answered(n, view[n])
    /\ Unstored /\ UNCHANGED <<fresh, mishaps>>

\* No answer: the patch was applied, or will be when nobody waits for it any more.
PatchLabelUnanswered(n) ==
    /\ Turn(n) /\ LabelDue(n) /\ Exists(server, n)
    /\ \/ SetLabel(n, plan.label[n]) /\ fresh' = fresh \ {n} /\ UNCHANGED late
       \/ /\ late = {} /\ late' = {<<n, plan.label[n]>>}
          /\ Unstored /\ UNCHANGED fresh
    /\ GoOn(n, TRUE)
    /\ Mishap

\* Fault: the whole list of taints is replaced, whatever it has become.
PatchTaintUnlocked(n) ==
    /\ Turn(n) /\ TaintDue(n) /\ Exists(server, n)
    /\ SetTaint(n)
    /\ \E lost \in BOOLEAN : GoOn(n, lost)
    /\ UNCHANGED <<fresh, late, mishaps>>

\* The list of taints is replaced, under a lock.  If the answer is lost, it is an error.
PatchTaint(n) ==
    /\ Turn(n) /\ TaintDue(n) /\ n \in fresh
    /\ SetTaint(n)
    /\ \E lost \in BOOLEAN : GoOn(n, lost)
    /\ UNCHANGED <<fresh, late, mishaps>>

\* Label and taint are as they should be.
KeepNode(n) ==
    /\ Turn(n) /\ ~Due(n)
    /\ GoOn(n, FALSE)
    /\ Unstored /\ UNCHANGED <<fresh, late, mishaps>>

\* applyPodAction, first patch: the placement rules, while the pod is still gated.
AddRules(p) ==
    /\ Turn(p) /\ RulesDue(p) /\ p \in fresh
    /\ SetRules(p)
    /\ Answered(p, NoNode)
    /\ UNCHANGED <<fresh, mishaps>>

AddRulesUnanswered(p) ==
    /\ Turn(p) /\ RulesDue(p) /\ p \in fresh
    /\ SetRules(p) /\ fresh' = fresh \ {p}
    /\ GoOn(p, TRUE)
    /\ UNCHANGED late
    /\ Mishap

\* Fault: whichever pod has the name now loses its gate.
RemoveGateUnlocked(p) ==
    /\ Turn(p) /\ ~RulesDue(p) /\ HasGate(server, p)
    /\ Ungated(p)
    /\ \E lost \in BOOLEAN : GoOn(p, lost)
    /\ UNCHANGED <<fresh, late, mishaps>>

\* The second patch.
RemoveGate(p) ==
    /\ Turn(p) /\ ~RulesDue(p) /\ p \in fresh
    /\ Ungated(p)
    /\ \E lost \in BOOLEAN : GoOn(p, lost)
    /\ UNCHANGED <<fresh, late, mishaps>>

\* NotFound is not an error of a locked patch either.
NotFound(o) ==
    /\ Turn(o) /\ Due(o) /\ (o \in Node => ~LabelDue(o))
    /\ IF o \in Node THEN ~Exists(server, o) ELSE server.pod[o] = NoPod
    /\ GoOn(o, FALSE)
    /\ Unstored /\ UNCHANGED <<fresh, late, mishaps>>

\* Its copy is stale: the lock refuses the patch.
Conflict(o) ==
    /\ Turn(o) /\ Due(o) /\ o \notin fresh /\ (o \in Node => ~LabelDue(o))
    /\ GoOn(o, TRUE)
    /\ Unstored /\ UNCHANGED <<fresh, late, mishaps>>

\* Any patch: failed in some other way.
PatchFails(o) ==
    /\ Turn(o) /\ Due(o)
    /\ GoOn(o, TRUE)
    /\ Unstored /\ UNCHANGED <<fresh, late>>
    /\ Mishap

-----------------------------------------------------------------------------
(* The end of a reconcile.                                                 *)

Finish ==
    /\ busy' = FALSE /\ view' = NoView /\ plan' = NoPlan /\ fresh' = {}
    /\ todo' = {} /\ held' = None /\ reply' = NoNode /\ failed' = FALSE

\* Fault: an error is logged and that is it.
ReturnQuietly(error) ==
    /\ Finish
    /\ queued' = queued
    /\ UNCHANGED <<server, cache, noticed, late, history>>

\* With an error the key is queued again at once, else in a minute.
Return(error) ==
    /\ Finish
    /\ queued' = (queued \/ error)
    /\ UNCHANGED <<server, cache, noticed, late, history>>

\* patchStatus compares with the status it has read: the server's, if that is current.
StatusDue == plan.status # status \/ Sequence \notin fresh

\* Nothing to write, or refused because of the lock, which is ignored.
KeepStatus ==
    /\ busy /\ todo = {} /\ (StatusDue => Sequence \notin fresh)
    /\ Return(failed)
    /\ UNCHANGED <<status, cur, mishaps>>

WriteStatus ==
    /\ busy /\ todo = {} /\ StatusDue /\ Sequence \in fresh
    /\ status' = plan.status /\ cur' = cur \ {Sequence}
    /\ \E lost \in BOOLEAN : Return(failed \/ lost)
    /\ UNCHANGED mishaps

StatusFails ==
    /\ busy /\ todo = {} /\ StatusDue
    /\ Return(TRUE)
    /\ UNCHANGED <<status, cur>>
    /\ Mishap

\* The requeue after a minute.
Resync ==
    /\ ~busy /\ ~queued /\ queued' = TRUE
    /\ UNCHANGED <<server, cache, status, cur, noticed, reading, fresh, writing, late, history, mishaps>>

\* The server gets to a label patch whose sender is no longer waiting.
LatePatch ==
    \E patch \in late :
        /\ late' = {}
        /\ IF Exists(server, patch[1])
             THEN SetLabel(patch[1], patch[2]) /\ fresh' = fresh \ {patch[1]}
             ELSE Unstored /\ UNCHANGED fresh
        /\ UNCHANGED <<cache, queued, reading, writing, mishaps>>

\* The process dies, or another one becomes the leader; it starts with filled caches and
\* a queue that holds every sequence.
Crash ==
    /\ Finish
    /\ cache' = server /\ cur' = Objects /\ noticed' = FALSE /\ queued' = TRUE
    /\ UNCHANGED <<server, status, late, history>>
    /\ Mishap

-----------------------------------------------------------------------------
Init ==
    /\ \E m \in MethodsUsed :
         server = [Cluster EXCEPT
                     !.node = [n \in Node |-> IF n \in Present THEN [NoNode EXCEPT !.st = "in"]
                                                               ELSE NoNode],
                     !.method = m]
    /\ cache = server /\ status = NoStatus /\ cur = Objects /\ noticed = FALSE
    /\ queued = TRUE /\ busy = FALSE /\ view = NoView /\ plan = NoPlan /\ fresh = {}
    /\ todo = {} /\ held = None /\ reply = NoNode /\ failed = FALSE
    /\ late = {} /\ mishaps = 0 /\ earned = {}
    /\ reached = [n \in Node |-> Satisfied(server, n)]

Workload == \E p \in Pod : \/ Create(p) \/ Delete(p) \/ BecomeUnready(p)
                           \/ \E n \in Node : Bind(p, n) \/ BecomeReady(p, n)

Machines == \E n \in Node : Join(n) \/ Leave(n) \/ Retaint(n)

Deliver == DeliverPods \/ DeliverNodes \/ DeliverSequence

Reconcile ==
    \/ Begin
    \/ \E n \in Node : \/ PatchLabel(n) \/ PatchLabelNotFound(n) \/ PatchLabelUnanswered(n)
                       \/ PatchTaint(n) \/ KeepNode(n)
    \/ \E p \in Pod : AddRules(p) \/ AddRulesUnanswered(p) \/ RemoveGate(p)
    \/ \E o \in Node \union Pod : NotFound(o) \/ Conflict(o) \/ PatchFails(o)
    \/ KeepStatus \/ WriteStatus \/ StatusFails

Next ==
    \/ Workload \/ Machines \/ \E m \in Methods : EditMethod(m)
    \/ Deliver \/ Reconcile
    \/ Resync \/ LatePatch \/ Crash

Spec == Init /\ [][Next]_vars

-----------------------------------------------------------------------------
(* Properties.                                                             *)

\* Nothing is under way: what the controller knows is current.
Idle == ~busy /\ ~queued /\ cur = Objects /\ late = {}

\* "Watches drive normal progress": when nothing is queued, no write has been lost for
\* good and no event missed, whatever failed before.  Each node has the label and taint
\* it should have, each gated pod waits for a reason and the status is that of the
\* cluster, with nothing left to the periodic resync.
NothingLeftUndone ==
    Idle => LET s == server m == s.method IN
        /\ \A n \in Node : Participating(s, n) =>
              /\ s.node[n].label = WantLabel(s, n, m)
              /\ s.node[n].taint = WantTaint(s, n, m)
        /\ Ungate(s) = {}
        /\ status = NodeScopedStatus(s, m)

LosesGate(p) == HasGate(server, p) /\ ~HasGate(server', p) /\ server'.pod[p] # NoPod

\* A pinned pod loses its gate only when, at one moment of its own life, every group
\* before its own was satisfied on its node; however old what the reconcile has read is,
\* and whatever else became of the node.  The exception is a node that the reconcile does
\* not know or knows to be leaving.
StartsInOrder ==
    [][\A p \in Pod \ Bypassed, n \in Node :
          LosesGate(p) /\ TargetNode(server, p) = n /\ view[n].st = "in"
             => p \in earned]_vars

\* A steered pod is bound only where all groups before its own have been satisfied once,
\* however late, lost or repeated the patches of the node are.  As documented, a label
\* released for pending pods matches any node, and a node without the taint does not
\* hold back a pod that only has the tolerations.
SteeredInOrder ==
    [][\A p \in Pod, n \in Node :
          /\ server.pod[p].on = None /\ server'.pod[p].on = n
          /\ \/ /\ "affinity" \in server.pod[p].rule
                /\ server.node[n].label # ReleasedLabelValue
             \/ "tolerations" \in server.pod[p].rule /\ server.node[n].taint # Unset
          => reached[n] >= GroupIndexForPod[p]]_vars

\* applyPodAction adds the placement rules "while the pod is still gated": a crash or a
\* refused patch between the two never lets a pod of a later group go without them.
RulesBeforeGate ==
    [][\A p \in Pod \ Bypassed :
          LosesGate(p) /\ TargetNode(server, p) = None /\ GroupIndexForPod[p] >= 1
             => server.pod[p].rule # {}]_vars

\* patchNodeTaints: "concurrent writers are not lost".  No step of the controller
\* changes a taint of others.
OthersTaintsKept ==
    [][Reconcile => \A n \in Node : server'.node[n].taints = server.node[n].taints]_vars

\* Not what the code does: "Later groups stay SchedulingGated until that node's earlier
\* groups pass", also on "newly participating nodes" (README.md:216).  A pod that is seen
\* before its node is released at once, and one whose node is seen to be tainted before the
\* pods of the earlier group are seen, too.
LaterGroupsStayGated ==
    [][\A p \in Pod \ Bypassed, n \in Node :
          LosesGate(p) /\ TargetNode(server, p) = n /\ Participating(server, n)
             => p \in earned]_vars
=============================================================================
