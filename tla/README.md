# A verification of podsequencing

podsequencing is a Kubernetes controller.  A `PodSequence` lists groups of pods in
order; a group's pods carry a scheduling gate until every earlier group is ready.
This directory holds TLA+ models of the controller, the TLC runs that check them
on small instances, and proofs that TLAPS checks for every instance.

Contents: [inventory](#inventory), [modules](#modules),
[abstractions](#what-is-abstracted), [runs](#runs), [fairness](#fairness),
[proofs](#proofs), [findings](#findings), [known limits](#known-limits),
[not modelled](#not-modelled), [plan](#plan).  The tables of `PROJECT.json` give the
exact source lines of each definition, the hazards of the code and the properties that
cover them.

## Inventory

| Component | State | Operations | Interacts through |
|---|---|---|---|
| Cluster-scoped reconciler (`podsequence_controller.go`: `Reconcile`, `reconcileClusterScoped`, `getPodsInGroup`, `removeGate`, `patchStatus`, `handleDeletion`) | `status.currentIndex`, `status.phase`, the finalizer; in memory the copies it has read | release the current group, release recreated pods of passed groups, hold while the previous group regresses, wait, advance, complete, fail, delete | reads the informer caches, patches pods under an optimistic lock, updates the status under one |
| Node plan (`nodeplan.go`, `daemonset.go`, `sequence.go`) | none: a function of the listed objects and the time | satisfied groups of each node, pods to release, timeouts, earliest requeue | called by the node-scoped reconciler |
| Node-scoped reconciler (`reconcileNodeScoped`, `syncNodeEligibility`, `setNodeKey`, `applyPodAction`, `setNodeScopedStatus`) | the eligibility label or taint of every node, the placement rules and gates of pods, `status` | one round: synchronise nodes, release pods, write the status, choose a requeue | lists nodes, pods and DaemonSets; patches nodes and pods; the scheduler acts on labels, taints, affinity and tolerations |
| Watches (`SetupWithManager`, `mapPod`, `mapNode`, `mapDaemonSet`, `nodeChangePredicate`) | the work queue | map an event to the sequences to reconcile | informers, the sequence cache |
| Node keys and the orphan cleaner (`releaseNodeKeys`, `cleanupOrphanedNodeKeys`, `orphanCleaner`) | labels and taints left behind | remove stale keys, keep labels that pending pods require | a goroutine beside the reconciler |
| Webhooks (`podsequence_webhook.go`) | none | inject the gate, inject the toleration; fail open | API server, sequence cache |
| Manager (`cmd/main.go`) | leader lease | start, die, be replaced | |
| API types, metrics, manifests | | declarations, counters, deployment data | |

What makes the code hard: everything is read from caches that lag behind the
server and behind one another; every write can be refused, lost or applied
without an answer; the process can die between two writes; the work queue only
runs a sequence when some event, error or timer says so; in node scope, pods
wait for pods on every node separately, the scheduler acts on labels and taints
that lag behind readiness, and waiting has two kinds of timers.

What makes each component correct:

* cluster scope: no pod starts before its predecessors have been ready, the index
  is never wrong however old the view it was computed from, it moves by one, no
  pod is forgotten, a deletion releases what it has seen and finishes;
* node plan and node scope: the same order on each node, no pod skipped ahead
  because a DaemonSet is kept off its node for a moment, no pod withheld after
  its time, steering that admits a pod exactly where it belongs, a status that
  tells the truth, no node waiting for another;
* watches: nothing that changes a decision goes unnoticed for good;
* node keys: whatever a sequence puts on nodes and pods it sends there under its
  finalizer, its deletion finishes, no key outlives it for ever where the manager stays
  in full mode, and no cleaner takes one from a living sequence for good.

## Modules

| Module | Content |
|---|---|
| `OrderedRelease` | abstract specification: gated pods, the groups that have been ready, how many groups have been passed; a pod is released once its turn has come, groups pass one by one |
| `ClusterSequence` | the reconciler of one cluster-scoped sequence with API server, caches, queue, users and kubelet; refines `OrderedRelease` |
| `ClusterSequenceProofs` | its inductive invariant and theorems |
| `ClusterWakeupProofs` | more of it: no wake-up is lost, a deletion releases what it has read |
| `NodePlan` | `ComputeNodePlan` and its helpers, as operators over what was listed |
| `NodePlanProofs` | facts about these operators, and that the requeue is in time |
| `NodeScope` | what is made of the plan: label, taint and status; which events enqueue; how scheduler and pod controllers respond |
| `NodeRounds` | a node-scoped sequence: whole rounds of the reconciler between changes of the cluster, with time, scheduler, labels, taints and edits of the spec |
| `NodeRoundsProofs` | its inductive invariant and theorems |
| `NodeSequence` | the same reconcile taken apart: caches, one patch at a time, locks, refused, lost and late writes, crashes |
| `NodeSequenceProofs`, `NodeWakeupProofs` | its inductive invariants and theorems: order and foreign keys; nothing is left undone |
| `SequenceLife` | a node-scoped sequence from creation to deletion to the next of its name: finalizer, `handleDeletion`, orphan cleaner, webhook, restarts in full and lite mode |
| `SequenceLifeProofs` | its inductive invariant, and that keys are written under the finalizer |
| `MCClusterSequence`, `MCNodeRounds`, `MCNodeSequence`, `MCSequenceLife` | the instances for TLC |

`NodeRounds` and `NodeSequence` both extend `NodeScope`, which extends `NodePlan`:
one is about *what* a reconcile decides, whatever state time, nodes and DaemonSets
are in, the other about *what happens between* its reads and writes.  `SequenceLife`
leaves the plan out (a live reconcile may release any gated pod) and is about what
a sequence leaves behind.

A definition whose comment begins with "Fault" is not part of a specification:
it is a variant of the definition after it, with an error that code like this
could have.  Put in that definition's place it makes TLC report the property
named under "mutants" in `PROJECT.json`.

### ClusterSequence and the code

State: `pods` and `seq` are the API server's objects; `podCache` and `seqCache`
the informers' copies; `podCur`, `seqCur`, `recCur` and `fresh` say which copy is
the current revision, which is all that an optimistic lock ever asks.  `stage`,
`cursor`, `unread`, `view`, `prevReady`, `todo`, `failed` and `rec` are the local
variables of a running `Reconcile` and its position.  `wasReady` and
`wasComplete` are history, for the properties only.

| Action | Code |
|---|---|
| `Ignore`, `AddFinalizer`, `Start` | head of `Reconcile`: Get from the cache, deletion, finalizer, which path to take |
| `ReadCurrent`, `ReadPrev`, `ReadGated` | `getPodsInGroup` and the List of `handleDeletion`: one List for a selector group, one Get per pod for a named one, each at its own time |
| `RejectSelector` | its error for the current group: phase Failed, and the error is returned |
| `CurrentRead`, `NextPassed`, `PrevIsReady`, `PrevNotReady` | the loop over groups already passed and the check of the previous group |
| `RemoveGate`, `...NotFound`, `...Conflict`, `...Error`, `...LostReply` | `removeGate` and what each caller does with its result (`OnError`) |
| `WaitForGroup`, `RejectWait`, `HoldForWait`, `Advance` | counting, `waitDuration`, advancing |
| `NextCompleted`, `FinishCompleted` | the path of a completed sequence |
| `RetryDeletion`, `RemoveFinalizer` | end of `handleDeletion` |
| `PatchStatus` (operator) | `patchStatus`: skipped, applied, refused and ignored, failed, or applied with the answer lost |
| `DeliverPods`, `DeliverSeq` | an informer applies events; `mapPod` drops pod events while it does not know the sequence |
| `Crash` | the process dies or leadership moves |
| `Finish` | a pod succeeds, fails or is evicted: it stays listed and is not Ready |
| `Create` ... `DeleteSeq` | users, workload controllers, kubelet |

### NodePlan, NodeRounds and the code

`v` in `NodePlan` is what a reconcile listed.  A pod is absent, gated, pending or
ready with its age in that state (a gated pod's age is what `gateTimeout` is
measured against, a ready one's what `waitDuration` is); `on` is `spec.nodeName`,
`rule` the placement rules the controller has added.  A node is absent, selected
(`in`), not selected (`out`) or marked as deleted, with the taints that others
put on it by kind and with the sequence's own label and taint.

`Round` is the whole of `reconcileNodeScoped`: the plan (`NodePlan`), the nodes
(`SyncNodeEligibility`), the pods (`ApplyPodAction`), the status
(`NodeScopedStatus`) and the requeue.  `RejectSpec` is the early return for a
spec the plan refuses.  `PodEvent`, `DaemonSetEvent` and `NodeEvent` put the
sequence into the queue as `mapPod`, `mapDaemonSet` and `mapNode` with
`nodeChangePredicate` do.  `Tick` is a unit of time: pods age and the delayed
requeue comes closer.  The others are the scheduler (`Bind`), kubelet, users and
the DaemonSet controller, whose decision to create a pod is the function the
code itself emulates, `DaemonSetShouldRunOnNode`.

### NodeSequence and the code

State: `server` and `cache` are what the API server and the informers hold, `cur`
and `fresh` the copies that are current revisions, `view` and `plan` what a running
reconcile has read and decided, `todo` the nodes and pods it has yet to patch,
`held` and `reply` the object whose first of two patches has been answered, and the
answer.  `noticed` says that among the node events under way one passes
`nodeChangePredicate`.  `earned` and `reached` are history, for the properties only.

| Action | Code |
|---|---|
| `Begin` | the lists of `reconcileNodeScoped`, `ComputeNodePlan`, and what `syncNodeEligibility` decides |
| `PatchLabel`, `PatchLabelNotFound`, `PatchLabelUnanswered`, `LatePatch` | `patchNodeLabels`, a merge patch without a lock: applied, no such node, applied or to be applied with nobody waiting |
| `PatchTaint` | `patchNodeTaints`: the whole list, under a lock, based on the answer to the label patch if there was one |
| `KeepNode` | `setNodeKey` finds nothing to change |
| `AddRules`, `AddRulesUnanswered`, `RemoveGate` | the two patches of `applyPodAction`, both locked |
| `NotFound`, `Conflict`, `PatchFails` | `IgnoreNotFound`, a refused lock, any other error: the loops go on and remember errors |
| `KeepStatus`, `WriteStatus`, `StatusFails` | `patchStatus` and the aggregate of the errors |
| `Deliver...`, `Resync`, `Crash` | informers with `mapPod` and `mapNode`, the requeue after a minute, the process |
| the others | users, DaemonSet controller, scheduler, kubelet |

The reads are one step although they are three lists: each cache lags as it likes,
so that what three lists return at different moments they could all have returned
at the last of them.

### SequenceLife and the code

`reconciler` and `cleaner` are the two goroutines; `stage`, `aim`, `view`, `fresh` and
`todo` have a value for each.  They share `OnNodes`, the writes of `setNodeKey` and
`releaseNodeKeys` (`WantLabel`, `WantTaint`).

| Action | Code |
|---|---|
| `Begin` | `Reconcile` up to its first write: which of the paths to take (`Phase`), with which pods and nodes |
| `AddFinalizer`, `End` | the two writes of the object (`Update`): applied, applied with the answer lost, refused by the lock, failed |
| `AddRules`, `RemoveGate`, `PodPatchFails` | `applyPodAction`, and `removeGate` in `handleDeletion` |
| `ListNodes` | `handleDeletion` turns to the nodes, only in full mode |
| `PatchLabel`, `PatchTaint`, `NodePatchFails` | `releaseNodeKeys` and `setNodeKey` with their two patches |
| `CleanList`, `CleanLook`, `CleanDone` | `cleanupOrphanedNodeKeys`: the sequences first, pods and nodes later |
| `CreatePod` | `PodGateInjector` with `FindSequence` in the cache; in lite mode the pod template has the gate |
| `GiveUp` (operator), `LateWrite` | a request that gets no answer, and the server carrying it out later: a merge patch of labels whatever has become of the node, any other write if its object is still the revision that the lock names |
| `Restart` | the process dies or is deployed anew, with or without `--enable-webhook` |
| `CreateSeq`, `EditSeq`, `DeleteSeq`, `DeletePod`, `Bind` | users and the scheduler |

## What is abstracted

Common to all models: names, labels and selectors are replaced by the relation
they define (`GroupOf`, `Matches`, `Selects`); parts of the status that no decision reads are left out (a write
they cause is still allowed for in `PatchStatus`); events, logs and metrics are
left out; an informer delivers the whole of its type at once (the caches of
different types move independently); a resourceVersion is one bit, whether a copy
is current.  The groups of a sequence do not overlap, as `README.md` of the
repository asks, and are never edited.

Cluster model: time is abstracted, so that a positive `waitDuration` has, or has
not, elapsed when it is looked at and a requeue is immediate; the sequence lives once.
A finished pod is listed and counted like any other, and never Ready again: nothing in
`getPodsInGroup` filters it (`finished` in `PodState`).  A terminating pod is one that
may lose its readiness and then goes; it is gone at one moment.

Node models: a terminating or finished pod is an absent one, since `IsActive`
(`sequence.go:186`) filters both.  A Ready condition has a `lastTransitionTime`, which the
kubelet sets: the case that it has none (`sequence.go:229`) is left out.

`NodeRounds`: a round lists everything at one moment and all its writes succeed;
ages stop at the longest delay in use (`AgeCap`), which no decision can tell from
a longer one; `valid` stands for everything `ComputeNodePlan` can refuse; taints
are kept by what the controller makes of them (`TaintKind`); the list of nodes in
the status is a set, without its limit of 50.

`NodeSequence`: nothing waits (`NothingWaits`), every DaemonSet exists from the
start and every node is selected: all of that is in `NodeRounds`.

`SequenceLife`: all pods are of a later group and placed by the scheduler, all nodes
participate and have a group left, so that a label has the value of the sequence
(`value`), the released one or none.  Which pods a live reconcile releases is any
choice.  Every write that is given up on may be carried out at any later moment, as long
as its lock holds; one whose answer is lost is carried out at once.  `spec.scope` is
immutable (validation rule in `podsequence_types.go:91`).

## Runs

Every run is exhaustive.  Model values: pods `a`, `b`, `c`; nodes `n1`, `n2`;
DaemonSets `dA` (first group) and `dB` (second) with pods `a1`, `b1`, `a2`, `b2`;
`u` and `w` are placed by the scheduler, `x` matches no group.

| Run | Question | Bounds |
|---|---|---|
| `cluster_faults` | order, no lost wake-up, the index, deletion and the refinement of `OrderedRelease`, under every fault | 2 groups (named, selector) of 1 pod, both pods deleted and recreated and flaky, the first may finish, deletion |
| `cluster_named` | a named group of two, one pod coming, finishing and going, before a group with a refused selector | 3 pods |
| `cluster_three` | the loop over several groups already passed, an invalid `waitDuration`, deletion | 3 groups, 3 pods, the middle one may finish and is deleted and recreated |
| `cluster_live` | completion, release, deletion, with waits, and what a finished pod holds up | 2 pods, the first may finish, the second is deleted and recreated |
| `node_start` | order, timeliness and status for pinned pods, with `waitDuration` 2, `gateTimeout` 3, resync 4 | 1 node that leaves, joins, boots, is tainted and deselected; 2 DaemonSets, a stray pod |
| `node_edit` | method switched, spec invalid for a while, DaemonSets coming and going, one without the toleration; label against affinity, taint against tolerations | 1 node, 3 pods |
| `node_live` | a slow node holds up nobody | 2 nodes, 4 pods |
| `node_stranded` | the sentence about the released label value | 2 nodes, 1 pod |
| `round_daemons` | order and lost wake-ups with every patch a step, daemon pods | 1 node that may leave, 2 pods, 1 mishap |
| `round_steered` | the two patches of a node, the two of a pod, a switched method, foreign taints | 1 node, 2 pods, 1 mishap |
| `round_early` | the sentence about newly participating nodes | 1 node that joins, 2 pods, no mishap |
| `life` | finalizer, deletion, orphan cleaner, two modes, late writes, a second sequence of the name | 1 node, 1 pod, 2 methods, 1 mishap |

Why these bounds are enough to be interesting: two groups have a first and a
last, three also a middle, with which the loop over passed groups runs twice;
two pods in a group make the difference between reading them together and one
by one; one pod that is deleted and recreated, or that loses readiness, meets
every interleaving with a reconcile because there is no limit on how often it
does.  On the node side the plan treats nodes independently, so one node that
changes in every way is combined with everything else, and two nodes are used
where nodes could influence each other.  Delays differ from one another by at
least one tick so that each order of expiry occurs.

`MaxMishaps` bounds, in `NodeSequence` and `SequenceLife`, how many things go wrong
in a behaviour (failed and lost writes, crashes, deleted pods, edits, departed
nodes, recreated sequences, restarts); stale caches and the conflicts they cause do not count
and are not bounded, nor are answers that get lost, nor a restart that brings full mode
back: with one mishap `life` has sequences that are created in full mode, end in lite mode
and meet full mode again.  One mishap meets a reconcile at
each of its steps and the reconciles after it, with caches in every state of lag;
the hazards listed are each about one failure and what follows from it.  The safety
properties of these two modules are proved for any number; the liveness properties of
`life` are checked with one.  There is no bound on the number of steps: the
state spaces are finite because a revision is a bit and an age is capped.

Deadlock is checked in every run but `life`, where a manager in lite mode that has
seen the end of the sequence has nothing to do until a user comes along, and users
may have used up what they may do.

What the runs show, beyond the names of their properties:

* `IndexJustified` speaks of readiness that has been, not of readiness now: a
  group may regress after it was passed, and the code does not go back.  For a
  named group it says that each pod has been Ready, for a selector group that
  the whole group was at one moment (see [known limits](#known-limits)).
* `NothingForgotten` and `NothingWithheld` are about wake-ups.  They are
  invariants of quiet states: nothing queued, nothing running, nothing on its
  way.  The exception in `NothingWithheld` is a node marked as deleted, an update
  that `nodeChangePredicate` ignores: the next resync notices it, and the
  property says that there is one.
* The completion of a job is not readiness (`README.md:236` of the repository): a pod of
  the current group that has finished keeps the group from passing, and one of the group
  just passed keeps the current group gated, for as long as the pod is there.
  `EventuallyCompleted` and `EventuallyReleased` except exactly that (`HoldsUp`), and
  `HeldBack` says that it does happen: after the last news have arrived, no pod of the
  current group is released, however often one is created.  That the sequence goes on
  when the finished pod is deleted is part of `NothingForgotten`.
* `StartsInOrder` states when a pod pinned to a node may start without using the
  plan's own account of satisfied groups: it looks at pods, DaemonSets and the
  one kind of taint that keeps a DaemonSet away for good.
* `SteeredInOrder` has the documented exception: pods with tolerations are not
  held back by a node that does not carry the taint (`README.md`, "New nodes have
  a gap before tainting").
* `StuckIsReported` finds the one way the taint method blocks itself, a DaemonSet
  without the toleration, and shows that it is always reported.
* `NodeSequence!StartsInOrder` speaks of every moment since the pod was created, not
  of the present: what the reconcile knows is old.  That a pod recreated under the
  same name does not profit from its predecessor's turn is due to the lock on the
  gate's removal.  Pods of nodes that the reconcile does not know are exempt, which
  is what `round_early` is about.
* `NothingLeftUndone` says that no failure is left to the periodic resync: errors are
  requeued, everything else is noticed by a watch.  It fails if either is missing.
* `NodeSequence!SteeredInOrder` compares with what the node has reached at some time,
  since a label patch may be applied late and readiness may be lost after it.
* `KeysMaintained`: a cleaner that listed the sequences before this one existed does
  take its label from a node, under the run's own assumptions; the watch on nodes
  brings it back.
* `WritesUnderFinalizer` is what makes a deletion find everything that it has to clear
  away.  It holds across sequences of one name: a reconcile that has read the earlier
  one cannot send anything for it once the later one is there without its finalizer,
  because the earlier one ends only by that reconciler's own hand.  It is about sending.
  Rules are stored under the finalizer too, however late, since the deletion has to patch
  the same pod and one of the two locks is refused.  A key is not: a label patch has no
  lock, and a taint patch only one on the node, so either can be carried out after the
  deletion has seen a clean node and the sequence has gone.
* `KeysCollected` covers that key too: the cleaner of a manager that stays in full mode
  takes it away.  It does so whatever mode the sequence ended in.

## Fairness

`ClusterSequence!Fairness`: the worker keeps running (`WF` of `Reconcile`, whose
steps are those of one goroutine) and watches deliver (`WF`), which is what
controller-runtime does while the process lives.  A write that is tried again and
again goes through at some time (`SF` of each write that matters): errors are
requeued with back-off, so tries do not end.  `SF` of `Advance` stands for time
as well: the requeue after `remaining` comes when the wait is over.  That the
sequence and the pods get created and pods become ready is an assumption about
the cluster, without which nothing can be promised.  The liveness properties
assume that crashes, deletions of pods, lost readiness and failing gate patches
end at some time, and say so in their formulas (`Disruption`).

`NodeRounds!Fairness`: rounds are run, time passes, and the cluster makes
progress (`Progress`) except for the pods in `Slow`, which need not become ready.

`NodeSequence` states safety only and assumes no fairness.

`SequenceLife!Fairness`: informers deliver (`WF`), the reconciler goes on when it has
something queued or begun (`WF` of `Reconcile`), the cleaner runs again and again
(`WF` of `Clean`: `orphanCleaner.Start` is a ticker's loop), and a pod whose affinity
matches any value is bound (`CertainlyBind`).  Nothing is assumed of users, of writes
that keep failing (their number is bounded by `MaxMishaps`) or of `Resync`.

## Proofs

Every safety property of every passing run is a theorem, for every value of the
constants that the named assumptions of the modules admit.  Liveness is not: fairness
and ENABLED are out of the prover's reach, so `EventuallyCompleted`,
`EventuallyReleased`, the two `DeletionCompletes`, `OthersRun`, `KeysCollected` and
`KeysMaintained` are model-checked only, and so is `HeldBack`.

### Assumptions

The `ASSUME`s say what kind of thing each constant is, and of the cluster:

* `FinitePods`: there are finitely many pods (the plan counts them and takes maxima of
  their times).
* `DaemonPodAssumption`: a pod that a DaemonSet owns is pinned to one node, and matches
  only groups that select the DaemonSet's template: the DaemonSet controller copies the
  template's labels and adds the affinity.
* `JoinTaint` is 0 or none: a node may register with the sequence's taint
  (`README.md:239`), whose value is then the one that says that no group is satisfied.
* Pods, nodes and the sequence are different objects.
* `NothingWaits` restricts `NodeSequence` to what it is for.

Two hypotheses are of theorems only:

* `DaemonSetsAreWhole` of `StuckPodsAreReported`: only DaemonSets pin their pods to
  nodes, and each has a pod for each of its nodes.  The first part is needed (see
  [known limits](#known-limits)); the second says that the constant `Pod` has what the
  DaemonSet controller would create.
* `OthersTaintsAreBearable` of the order theorems of `NodeSequence`: others put only
  taints on nodes that go by themselves, that every daemon pod tolerates, or that the
  DaemonSets of the sequence tolerate.  It is needed (see [known limits](#known-limits)).

### ClusterSequence

| Theorem | Statement |
|---|---|
| `Invariance` | `Spec => []IInv` |
| `TypeCorrect` | `Spec => []TypeOK` |
| `IndexIsJustified` | `Spec => []IndexJustified` |
| `NoPodReleasedEarly` | `Spec => NoEarlyRelease` |
| `IndexMovesByOne` | `Spec => OneGroupAtATime` |
| `OrderKept` | `Spec => KeepsOrder`, the refinement of `OrderedRelease` |
| `WakeInvariance` | `Spec => [](IInv /\ WInv)` |
| `NoWakeupLost` | `Spec => []NothingForgotten` |
| `DeletionReleases` | `Spec => DeletionReleasesRead` |

`IndexJustified` is not inductive: whether `Advance` may move the index depends
on what the view shows, and that on what the cache showed.  `IInv` adds what is
missing:

* `CopiesOK`: a copy that counts as current is equal to the server's object, and
  the index of an old copy is not larger than the server's.  With the optimistic
  lock this makes the index move by one.
* `LifeOK`: a copy that shows the end of the sequence is right, because the end
  is final, so a deletion pass never runs for a sequence that goes on.
* `WitnessOK`: whatever the server, the cache or the view shows as ready has been
  ready (pod by pod in a named group, all at once in a selector group).  A
  selector group's view is the cache at one moment, which is why it can be said
  of the whole group.
* `PlaceOK`: which groups the loops can be at and whose pods `todo` holds.

The proof has a lemma for each action, and in it a step for each conjunct.
`ReturnOK` and `PatchStatusOK` are shared by the many actions that leave
`Reconcile`.  The action properties and the refinement follow from the invariant
and one case for each action; the refinement needs the invariant to map `Advance`
to `Pass` (the group has been ready) and a gate's removal to `Release` (the pod's
group is not beyond the index).

`NothingForgotten` is about quiet states, so its invariant `WInv` has to say what every
unquiet state owes.  Its core, `WakeOK`, speaks only of states in which nothing is
queued: a `Reconcile` that is running then works on the cached sequence and has not gone
past a pod that is due (`AheadOK`, one case for each place in the code), and if nothing
is running and the copy of the sequence is current, nothing is due.  A pod is due if it
is gated and the cache has heard of it: with an empty queue, due pods only become
fewer, since every delivery enqueues.  `PassOK` says that a deletion pass without errors
has in `todo` every pod of which it holds the current revision, from which
`DeletionReleasesRead` follows.

### NodePlan

| Theorem | Statement |
|---|---|
| `RequeueInTime` | `RequeueAfter` is between 1 and the resync period and no later than any timer |
| `MethodsAgree` | affinity to the label and toleration of the taint let a pod in for the same counts |

The lemmas before them are what all node proofs rest on: minima and maxima of finite
sets, that `Satisfied` (a CHOOSE) exists and is unique, what `Remaining` is, and
`SameGroups`: what is satisfied on a node depends on its taints, on the pods of groups
and on the DaemonSets that some group selects.

### NodeRounds

| Theorem | Statement |
|---|---|
| `Invariance` | `Spec => []IInv` |
| `TypeCorrect` | `Spec => []TypeOK` |
| `NothingIsWithheld` | `Spec => []NothingWithheld` |
| `SteeringIsExact` | `Spec => []SteeringExact` |
| `StatusIsTruthful` | `Spec => []StatusTruthful` |
| `StuckPodsAreReported` | `DaemonSetsAreWhole` implies `Spec => []StuckIsReported` |
| `SteeredToReachedNodes` | `Spec => SteeredInOrder` |
| `PinnedStartInOrder` | `Spec => StartsInOrder` |

`IInv` has `PodsOK` (which pods carry placement rules, where a pinned pod can be),
`NodesOK` (no label or taint promises more groups than have been satisfied since the
node joined) and `SettledOK`: while nothing is queued there is no pod to release except on
nodes marked as deleted, every participating node has its label and taint, the status is
that of the plan, and the requeue is no later than any timer of the plan.  The proof
that steps keep `SettledOK` has three parts: a round establishes it; an event that
could change the plan enqueues (by `SameGroups` the others do not change it); and a
`Tick` before the requeue lets no group become satisfied and no pod time out, since each
of those is a timer of the plan.

### NodeSequence

| Theorem | Statement |
|---|---|
| `Invariance` | `Spec => []SafeInv` |
| `TypeCorrect` | `Spec => []TypeOK` |
| `OthersTaintsAreKept` | `Spec => OthersTaintsKept` |
| `RulesComeFirst` | `Spec => RulesBeforeGate` |
| `OrderInvariance` | `OthersTaintsAreBearable` implies `Spec => [](SafeInv /\ OrderInv)` |
| `PinnedStartInOrder` | `OthersTaintsAreBearable` implies `Spec => StartsInOrder` |
| `SteeredToReachedNodes` | `OthersTaintsAreBearable` implies `Spec => SteeredInOrder` |
| `NothingIsLeftUndone` | `Spec => []NothingLeftUndone` |

`SafeInv` says what a reconcile's writes rest on.  `CopiesOK`: a copy that counts as
current is the server's, and if a node's is not, a node event that enqueues is under
way.  `HeldOK`: of a node or pod that is still to be patched and of which the reconcile
holds the current revision, what it holds is what the server has; such a pod has its gate,
and if it is to be steered it has its rules or is to get them first.  From this a taint
patch that the lock lets through writes back the foreign taints as they are.

`OrderInv` is about lists of different moments.  `EarnedOK` says that a gated pod for
which server or cache show the earlier groups as satisfied has earned it, and so has
every pinned pod that the reconcile may yet release; `ReachedOK` that no label or taint
that is written, planned or on its way late promises more than the node has reached.  The cache's
pods are those of one moment; that its nodes are of another does not matter if the
taints on them do not change what is expected there (`SatisfiedByPods`), which
is what `KnownTaintsOK` keeps.

`WakeOK` is the counterpart of that of `ClusterSequence`: while nothing is queued, a
running reconcile works on what the caches have, and without an error it has done its
work on each object whose copy is current and no longer in `todo`; with nothing running and every
watched object current, everything is as planned.  Each write makes the copy of its object a
stale one, so that an event will come; `SamePlan` says that pods without an event of
their own change nothing in the plan.

### SequenceLife

| Theorem | Statement |
|---|---|
| `TypeCorrect` | `Spec => []TypeOK` |
| `Invariance` | `Spec => []IInv` |
| `UnderFinalizer` | `Spec => WritesUnderFinalizer` |

`IInv` follows the finalizer through the copies: one that the cache shows on a live
sequence is on the server's (`CopiesOK`); a reconcile past `ensureFinalizer` holds a
live sequence only while the server's has the finalizer, and one that is being
deleted only while neither server nor cache have a successor with one (`ReconcileOK`);
and only a reconcile of a live sequence puts keys on nodes, never the cleaner (`TurnsOK`).
Late writes need two more parts.  `PodsLateOK`: rules on their way find the pod as the
cache shows it and the finalizer in place, and a deletion either has that pod still to
patch or has failed.  `SeqLateOK`: a late finalizer comes to a live sequence for which
nobody works yet, a late end to one for which nobody writes any more.

## Findings

* `node_stranded`: after a switch from NodeLabel to Taint, the released label value
  is written to nodes that still have the label; `sequence.go:39-41` says that the
  affinity of pods released earlier then "matches every node".  A node that joins
  after the switch, or did not participate before it, never gets the label.
* `round_early`: `README.md:216` says that later groups stay gated until the node's
  earlier groups pass, and that this "is evaluated again for replacement pods and newly
  participating nodes".  Nodes and pods come from caches that move independently: a
  daemon pod of a new node that is seen before the node counts as one whose node is
  missing (`nodeplan.go:200`) and loses its gate at once.

## Known limits

Met while modelling and proving; the code is explicit about none of them, and no run is
spent on them.

* The deletion of a sequence releases the gated pods that its cache shows
  (`podsequence_controller.go:617`), not "every pod still gated by the sequence"
  (:607).  A pod created shortly before, or one that the webhook gates from a cache
  that does not show the end yet, stays gated until somebody removes the gate.
* Taints of others and the order of groups, met while proving `StartsInOrder` of
  `NodeSequence`.  A node cache that already shows a taint which keeps a DaemonSet off the
  node (`nodeplan.go:242`), and a pod cache that does not yet show the pod it got there
  before the taint (`:256`), together make the DaemonSet's group count as satisfied,
  which it was at no moment; pods of the next group lose their gates.  `README.md:216`
  says that they stay gated.  In the instance of `round_daemons` with `Foreign = {"other"}`
  and nothing else that goes wrong, TLC finds it in nine steps: create `b`, deliver pods,
  create `a`, taint the node, deliver nodes, begin, patch the label, go on, remove
  `b`'s gate.
* A named group is read by one Get per pod (:577-588): it can pass although its pods
  were never Ready at one moment.
* A key can be stored on a node after its sequence has ended, if its patch comes late
  (`podsequence_controller.go:514`, `:521`; see `WritesUnderFinalizer`).  The orphan cleaner
  of a manager in full mode removes it; if the manager stays in lite mode, as with all keys
  of sequences that end there, nobody does.
* A steered pod can be left without a label that it requires: the deletion, with a pod
  cache that does not show the affinity yet, or the cleaner, with a list of sequences
  from before, removes the label, and after the sequence's end nothing writes one.
* A round whose node patch failed still releases the pods of its plan; they may then be
  bound before the node shows its new label or taint.
* A pod that pins itself to a node without a DaemonSet gets no tolerations: only unpinned
  pods do (`nodeplan.go:195`, `:222`).  With the taint method the sequence's own taint
  keeps it off its node, its gate goes, and if its group is what the taint waits for,
  nothing reports it.  `README.md:88-93` speaks of DaemonSet pods only.
* The eligibility key and the webhook's lookup go by name; two sequences with one name
  in two namespaces that target the same pods are outside every model.

## Not modelled

`MutateDaemonSet`: whether a DaemonSet's template tolerates the taint is a constant of
`NodePlan`, and `StuckIsReported` covers the case that it does not.  The webhook's
search through other namespaces.  The fan-out of an event to several sequences: models
have one, and sequences share nothing but nodes' other keys.  The taints of earlier
versions that the cleaner also removes.  Two leaders at once, which leader election
excludes up to clock skew.  Edits of `podGroups`.  API types, generated code,
manifests, metrics and the wiring in `main.go` have no behaviour of their own to check;
their validation rules are assumptions on constants.  The truncation of the node list
at 50 and of messages is presentation.

## Plan

Done: all modules, all safety properties as theorems.  Next:

1. An abstract specification of node-scoped sequencing, with `NodeSequence` shown to
   implement it as `ClusterSequence` implements `OrderedRelease`.
2. The safety part of what `KeysCollected` and `KeysMaintained` promise in `SequenceLife`:
   in a quiet state no key is without its sequence and none of a live one is missing.
3. Edits of `podGroups`, which move the meaning of `currentIndex`.
