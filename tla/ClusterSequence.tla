--------------------------- MODULE ClusterSequence ---------------------------
(***************************************************************************)
(* The reconciler of one cluster-scoped PodSequence, with everything it    *)
(* shares state with: the API server's objects, the informer caches it     *)
(* reads from, its work queue, the kubelet and the users.                  *)
(*                                                                         *)
(* The controller reads from caches that lag the server and writes with    *)
(* optimistic locks.  A resourceVersion is only ever compared for          *)
(* equality, so a copy of an object carries one bit: whether it is still   *)
(* the server's current revision (podCur, fresh for pods; seqCur, recCur   *)
(* for the sequence).                                                      *)
(*                                                                         *)
(* Time is abstracted: RequeueAfter puts the item back at once, and a      *)
(* positive waitDuration has elapsed, or has not, when it is looked at.    *)
(*                                                                         *)
(* A definition marked "Fault" is a variant of the one after it with an    *)
(* error that code like this could have.  No specification uses it: put in *)
(* that one's place, it has to violate a property.                         *)
(***************************************************************************)
EXTENDS Naturals, FiniteSets

CONSTANTS
    Pod,        \* pods that may match the sequence
    NumGroups,  \* len(spec.podGroups)
    GroupOf,    \* the one group a pod belongs to (groups do not overlap)
    Named,      \* groups given by pod names; the others have a selector
    Broken,     \* groups whose selector the API machinery rejects
    Wait,       \* waitDuration of a group: "none", "positive" or "invalid"
    Churning,   \* pods that users and controllers may delete (and recreate)
    Flaky,      \* pods that may lose readiness
    Ending,     \* pods that may finish (Succeeded, Failed, evicted)
    MayDelete   \* the user may delete the sequence

Group == 0 .. NumGroups - 1

ASSUME ConfigAssumption ==
    /\ NumGroups \in Nat
    /\ GroupOf \in [Pod -> Group]
    /\ Named \subseteq Group /\ \A g \in Named : \E p \in Pod : GroupOf[p] = g
    /\ Broken \subseteq Group \ Named
    /\ Wait \in [Group -> {"none", "positive", "invalid"}]
    /\ Churning \subseteq Pod /\ Flaky \subseteq Pod /\ Ending \subseteq Pod
    /\ MayDelete \in BOOLEAN

VARIABLES
    pods,        \* the API server's pods
    podCache,    \* the pod informer's copy of them
    podCur,      \* pods whose cached copy is the current revision
    seq,         \* the API server's PodSequence
    seqCache,    \* the PodSequence informer's copy of it
    seqCur,      \* that copy is the current revision
    queued,      \* the work queue holds the sequence's key
    stage,       \* where the running Reconcile is; "idle" between two of them
    rec,         \* the PodSequence this Reconcile works on
    recCur,      \* rec is the current revision
    cursor,      \* the group whose pods the loops over groups are at
    unread,      \* pods this getPodsInGroup or List has still to read
    view,        \* the pods read for the current group
    prevReady,   \* every pod read so far of the previous group is Ready
    todo,        \* gated pods this loop has still to release
    fresh,       \* gated pods whose held copy is the current revision
    failed,      \* an error has been collected (completed and deletion paths)
    wasReady,    \* history: pods of named groups that have been Ready
    wasComplete  \* history: groups that have been complete at one moment

podVars   == <<pods, podCache, podCur>>
seqVars   == <<seq, seqCache, seqCur>>
loopVars  == <<cursor, unread, view, prevReady, todo, fresh, failed>>
localVars == <<stage, rec, recCur, loopVars>>
history   == <<wasReady, wasComplete>>
vars      == <<podVars, seqVars, queued, localVars, history>>

\* A finished pod is listed until it is deleted, and is not Ready any more.
PodState == {"absent", "gated", "pending", "ready", "finished"}
Life     == {"unborn", "live", "deleting", "gone"}
Phase    == {"none", "InProgress", "Failed", "Completed"}
Stage    == {"idle", "readCurrent", "passed", "prev", "current",
             "completed", "deletion"}

Sequence == [life : Life, finalizer : BOOLEAN, idx : 0 .. NumGroups, phase : Phase]

NoPods   == [p \in Pod |-> "absent"]
Unborn   == [life |-> "unborn", finalizer |-> FALSE, idx |-> 0, phase |-> "none"]

Members(g)  == {p \in Pod : GroupOf[p] = g}
Gated(s, S) == {p \in S : s[p] = "gated"}

\* Types.  The server's index never exceeds the number of groups, and neither does
\* that of a copy, however old, nor any cursor.
TypeOK ==
    /\ pods \in [Pod -> PodState] /\ podCache \in [Pod -> PodState]
    /\ podCur \subseteq Pod
    /\ seq \in Sequence /\ seqCache \in Sequence /\ rec \in Sequence
    /\ seqCur \in BOOLEAN /\ recCur \in BOOLEAN /\ queued \in BOOLEAN
    /\ prevReady \in BOOLEAN /\ failed \in BOOLEAN
    /\ stage \in Stage
    /\ cursor \in 0 .. NumGroups
    /\ unread \subseteq Pod /\ todo \subseteq Pod /\ fresh \subseteq Pod
    /\ view \in [Pod -> PodState]
    /\ wasReady \subseteq Pod /\ wasComplete \subseteq Group

-----------------------------------------------------------------------------
(* When a group lets the next one go, as the code counts its pods in s.    *)

Present(s, g) == {p \in Members(g) : s[p] # "absent"}

\* Fault: named pods that do not exist are not waited for.
AllCreatedIgnoringNames(s, g) == Present(s, g) # {}

\* Fault: an empty selector group counts as created.
AllCreatedOrNone(s, g) == g \in Named => Present(s, g) = Members(g)

AllCreated(s, g) ==
    /\ Present(s, g) # {}
    /\ g \in Named => Present(s, g) = Members(g)

\* Fault: readiness is not waited for.
CompleteWhenCreated(s, g) == AllCreated(s, g)

Complete(s, g) == AllCreated(s, g) /\ \A p \in Present(s, g) : s[p] = "ready"

\* Evidence that group g has been ready.  A selector group is listed in one
\* read, so it was complete at one moment; the pods of a named group are read
\* one at a time, so each was Ready, not necessarily at the same moment.
Passable(g) == IF g \in Named THEN Members(g) \subseteq wasReady
                              ELSE g \in wasComplete

EarlierPassable(g) == \A h \in Group : h < g => Passable(h)

-----------------------------------------------------------------------------
(* Steps of the API server.                                                *)

\* The server stores state s for pod p; the cached copy is now an old one.
StorePod(p, s) ==
    /\ pods' = [pods EXCEPT ![p] = s]
    /\ podCur' = podCur \ {p}
    /\ wasReady' = IF s = "ready" /\ GroupOf[p] \in Named
                      THEN wasReady \union {p} ELSE wasReady
    /\ wasComplete' = IF Complete(pods', GroupOf[p])
                         THEN wasComplete \union {GroupOf[p]} ELSE wasComplete

\* The server stores record r for the sequence.
StoreSeq(r) == seq' = r /\ seqCur' = FALSE

-----------------------------------------------------------------------------
(* Users, the scheduler and the kubelet.  A pod is created with the gate,  *)
(* or without it (template without gate, webhook unavailable: fail open).  *)

PodChange(p, s) ==
    /\ StorePod(p, s)
    /\ fresh' = fresh \ {p}
    /\ UNCHANGED <<podCache, seqVars, queued, stage, rec, recCur, cursor, unread,
                   view, prevReady, todo, failed>>

Create(p, s) == pods[p] = "absent" /\ s \in {"gated", "pending"} /\ PodChange(p, s)

Delete(p) == p \in Churning /\ pods[p] # "absent" /\ PodChange(p, "absent")

BecomeReady(p) == pods[p] = "pending" /\ PodChange(p, "ready")

BecomeUnready(p) == p \in Flaky /\ pods[p] = "ready" /\ PodChange(p, "pending")

Finish(p) == p \in Ending /\ pods[p] \in {"pending", "ready"} /\ PodChange(p, "finished")

CreateSeq ==
    /\ seq.life = "unborn"
    /\ StoreSeq([seq EXCEPT !.life = "live"])
    /\ recCur' = FALSE
    /\ UNCHANGED <<podVars, seqCache, queued, stage, rec, loopVars, history>>

\* kubectl delete: the object stays, marked, for as long as it has a finalizer.
DeleteSeq ==
    /\ MayDelete /\ seq.life = "live"
    /\ StoreSeq([seq EXCEPT !.life = IF seq.finalizer THEN "deleting" ELSE "gone"])
    /\ recCur' = FALSE
    /\ UNCHANGED <<podVars, seqCache, queued, stage, rec, loopVars, history>>

-----------------------------------------------------------------------------
(* The informers.  An event updates the cache and enqueues the sequence: a *)
(* pod event through mapPod, which looks the sequence up in its cache.     *)

\* Fault: pod events do not enqueue.
DeliverPodsQuietly ==
    /\ podCur # Pod
    /\ podCache' = pods /\ podCur' = Pod
    /\ UNCHANGED <<pods, seqVars, queued, localVars, history>>

DeliverPods ==
    /\ podCur # Pod
    /\ podCache' = pods /\ podCur' = Pod
    /\ queued' = (queued \/ seqCache.life \in {"live", "deleting"})
    /\ UNCHANGED <<pods, seqVars, localVars, history>>

DeliverSeq ==
    /\ ~seqCur
    /\ seqCache' = seq /\ seqCur' = TRUE
    /\ queued' = TRUE
    /\ UNCHANGED <<podVars, seq, localVars, history>>

-----------------------------------------------------------------------------
(* Reconcile.                                                              *)

\* Leave Reconcile: everything it held in memory is gone.
Return ==
    /\ stage' = "idle" /\ rec' = Unborn /\ recCur' = FALSE
    /\ cursor' = 0 /\ unread' = {} /\ todo' = {} /\ fresh' = {}
    /\ view' = NoPods /\ prevReady' = FALSE /\ failed' = FALSE

\* The process dies, or leadership moves: the new one fills its caches before it
\* starts and finds the sequence, if there is one, in its first list.
Crash ==
    /\ Return
    /\ podCache' = pods /\ podCur' = Pod
    /\ seqCache' = seq /\ seqCur' = TRUE
    /\ queued' = (seq.life \in {"live", "deleting"})
    /\ UNCHANGED <<pods, seq, history>>

\* Begin to read pods S, at group c of a loop over the groups.
Read(st, c, S) ==
    /\ stage' = st /\ cursor' = c /\ unread' = S /\ todo' = {}

\* The key is taken from the queue and the sequence from the cache.
Dequeue ==
    /\ stage = "idle" /\ queued
    /\ UNCHANGED <<podVars, seqCache, history>>

Ignore ==
    /\ Dequeue
    /\ \/ seqCache.life \in {"unborn", "gone"}
       \/ seqCache.life = "deleting" /\ ~seqCache.finalizer
    /\ queued' = FALSE
    /\ UNCHANGED <<seq, seqCur, localVars>>

\* Update with the finalizer; a conflict, a missing object or any other error is returned.
AddFinalizer ==
    /\ Dequeue
    /\ seqCache.life = "live" /\ ~seqCache.finalizer
    /\ \/ seqCur /\ StoreSeq([seq EXCEPT !.finalizer = TRUE]) /\ queued' \in BOOLEAN
       \/ queued' = TRUE /\ UNCHANGED <<seq, seqCur>>
    /\ UNCHANGED localVars

Start ==
    /\ Dequeue
    /\ queued' = FALSE
    /\ seqCache.finalizer
    /\ rec' = seqCache /\ recCur' = seqCur
    /\ \/ seqCache.life = "deleting" /\ Read("deletion", 0, Pod)
       \/ /\ seqCache.life = "live" /\ seqCache.idx >= NumGroups
          /\ Read("completed", 0, Members(0))
       \/ /\ seqCache.life = "live" /\ seqCache.idx < NumGroups
          /\ Read("readCurrent", seqCache.idx, Members(seqCache.idx))
    /\ UNCHANGED <<seq, seqCur, view, prevReady, fresh, failed>>

\* Fault: no optimistic lock.
PatchStatusUnlocked(idx, phase, requeue) ==
    /\ Return
    /\ seq.life \in {"live", "deleting"}
    /\ StoreSeq([seq EXCEPT !.idx = idx, !.phase = phase])
    /\ queued' = (queued \/ requeue)
    /\ UNCHANGED <<podVars, seqCache, history>>

\* patchStatus: skipped when the status is as it was, ignored on conflict or when
\* the object is gone; any other error is returned, also after the write went
\* through.  Parts of the status that are not modelled can make a write of their own.
PatchStatus(idx, phase, requeue) ==
    /\ Return
    /\ \/ /\ recCur
          /\ StoreSeq([seq EXCEPT !.idx = idx, !.phase = phase])
          /\ queued' \in {queued \/ requeue, TRUE}
       \/ /\ ~recCur \/ (idx = rec.idx /\ phase = rec.phase)
          /\ queued' = (queued \/ requeue)
          /\ UNCHANGED <<seq, seqCur>>
       \/ queued' = TRUE /\ UNCHANGED <<seq, seqCur>>
    /\ UNCHANGED <<podVars, seqCache, history>>

\* getPodsInGroup on a group with names: one Get for each.  On a group with a
\* selector, and in handleDeletion: one List.
Batch == IF stage = "deletion" \/ cursor \notin Named THEN {unread}
                                                     ELSE {{p} : p \in unread}

Reading == unread # {}

\* The current group's pods are kept: released, counted and evaluated later.
ReadCurrent ==
    /\ stage = "readCurrent" /\ Reading /\ cursor \notin Broken
    /\ \E S \in Batch :
         /\ view' = [p \in Pod |-> IF p \in S THEN podCache[p] ELSE view[p]]
         /\ fresh' = fresh \union (Gated(podCache, S) \intersect podCur)
         /\ unread' = unread \ S
    /\ UNCHANGED <<podVars, seqVars, queued, stage, rec, recCur, cursor, prevReady,
                   todo, failed, history>>

\* Of the previous group only the readiness of its pods is looked at.
ReadPrev ==
    /\ stage = "prev" /\ Reading
    /\ \E S \in Batch :
         /\ prevReady' = (prevReady /\ \A p \in S : podCache[p] \in {"absent", "ready"})
         /\ unread' = unread \ S
    /\ UNCHANGED <<podVars, seqVars, queued, stage, rec, recCur, cursor, view, todo,
                   fresh, failed, history>>

\* Elsewhere only the pods that carry the gate matter.
ReadGated ==
    /\ stage \in {"passed", "completed", "deletion"} /\ Reading
    /\ \E S \in Batch :
         /\ todo' = todo \union Gated(podCache, S)
         /\ fresh' = fresh \union (Gated(podCache, S) \intersect podCur)
         /\ unread' = unread \ S
    /\ UNCHANGED <<podVars, seqVars, queued, stage, rec, recCur, cursor, view,
                   prevReady, failed, history>>

\* Fault: the error is not returned.
RejectSelectorForGood ==
    /\ stage = "readCurrent" /\ cursor \in Broken
    /\ PatchStatus(rec.idx, "Failed", FALSE)

\* getPodsInGroup fails for the current group: status Failed, and the error is returned.
RejectSelector ==
    /\ stage = "readCurrent" /\ cursor \in Broken
    /\ PatchStatus(rec.idx, "Failed", TRUE)

-----------------------------------------------------------------------------
(* removeGate: a patch under an optimistic lock.                           *)

Releasing(p) == p \in todo /\ ~Reading

\* Fault: the error is not collected.
OnErrorForgotten(p, current) ==
    \/ /\ stage \in {"passed", "current"}
       /\ Return /\ queued' = TRUE
    \/ /\ stage \in {"completed", "deletion"}
       /\ todo' = todo \ {p} /\ fresh' = current
       /\ UNCHANGED <<queued, stage, rec, recCur, cursor, unread, view, prevReady, failed>>

\* What the caller does with an error: the loops of an unfinished sequence return
\* it, the completed and deletion paths collect it and go on.  current: what is
\* left of fresh.
OnError(p, current) ==
    \/ /\ stage \in {"passed", "current"}
       /\ Return /\ queued' = TRUE
    \/ /\ stage \in {"completed", "deletion"}
       /\ todo' = todo \ {p} /\ failed' = TRUE /\ fresh' = current
       /\ UNCHANGED <<queued, stage, rec, recCur, cursor, unread, view, prevReady>>

\* The held copy is replaced by the server's answer, which has no gate.
RemoveGate(p) ==
    /\ Releasing(p) /\ p \in fresh
    /\ StorePod(p, "pending")
    /\ todo' = todo \ {p} /\ fresh' = fresh \ {p}
    /\ view' = IF stage = "current" THEN [view EXCEPT ![p] = "pending"] ELSE view
    /\ UNCHANGED <<podCache, seqVars, queued, stage, rec, recCur, cursor, unread,
                   prevReady, failed>>

\* NotFound is ignored; the held copy has lost its gate all the same.
RemoveGateNotFound(p) ==
    /\ Releasing(p) /\ pods[p] = "absent"
    /\ todo' = todo \ {p}
    /\ view' = IF stage = "current" THEN [view EXCEPT ![p] = "pending"] ELSE view
    /\ UNCHANGED <<podVars, seqVars, queued, stage, rec, recCur, cursor, unread,
                   prevReady, fresh, failed, history>>

\* The held copy is an old revision.
RemoveGateConflict(p) ==
    /\ Releasing(p) /\ p \notin fresh /\ pods[p] # "absent"
    /\ OnError(p, fresh)
    /\ UNCHANGED <<podVars, seqVars, history>>

\* The request fails on its way to the server, or its answer on the way back.
RemoveGateError(p) ==
    /\ Releasing(p)
    /\ OnError(p, fresh)
    /\ UNCHANGED <<podVars, seqVars, history>>

RemoveGateLostReply(p) ==
    /\ Releasing(p) /\ p \in fresh
    /\ StorePod(p, "pending")
    /\ OnError(p, fresh \ {p})
    /\ UNCHANGED <<podCache, seqVars>>

-----------------------------------------------------------------------------
(* reconcileClusterScoped, between the reads and the patches.              *)

LoopDone(st) == stage = st /\ ~Reading /\ todo = {}

\* Begin to release the current group.
BeginCurrent ==
    /\ stage' = "current"
    /\ todo' = Gated(view, Members(rec.idx))
    /\ UNCHANGED <<cursor, unread, prevReady>>

\* Fault: the loop over passed groups takes every pod.
CurrentReadWidely ==
    /\ stage = "readCurrent" /\ ~Reading /\ cursor \notin Broken
    /\ IF rec.idx > 0 THEN Read("passed", 0, Pod) /\ UNCHANGED prevReady
                      ELSE BeginCurrent
    /\ UNCHANGED <<podVars, seqVars, queued, rec, recCur, view, fresh, failed, history>>

\* The current group has been read; groups before it come first.
CurrentRead ==
    /\ stage = "readCurrent" /\ ~Reading /\ cursor \notin Broken
    /\ IF rec.idx > 0 THEN Read("passed", 0, Members(0)) /\ UNCHANGED prevReady
                      ELSE BeginCurrent
    /\ UNCHANGED <<podVars, seqVars, queued, rec, recCur, view, fresh, failed, history>>

\* The next group already passed, or the check of the one just before the current.
NextPassed ==
    /\ LoopDone("passed")
    /\ IF cursor + 1 < rec.idx
         THEN Read("passed", cursor + 1, Members(cursor + 1)) /\ UNCHANGED prevReady
         ELSE Read("prev", rec.idx - 1, Members(rec.idx - 1)) /\ prevReady' = TRUE
    /\ UNCHANGED <<podVars, seqVars, queued, rec, recCur, view, fresh, failed, history>>

\* Fault: the readiness of the previous group is not looked at.
PrevIsPassed ==
    /\ LoopDone("prev")
    /\ BeginCurrent
    /\ UNCHANGED <<podVars, seqVars, queued, rec, recCur, view, fresh, failed, history>>

PrevIsReady ==
    /\ LoopDone("prev") /\ prevReady
    /\ BeginCurrent
    /\ UNCHANGED <<podVars, seqVars, queued, rec, recCur, view, fresh, failed, history>>

PrevNotReady ==
    /\ LoopDone("prev") /\ ~prevReady
    /\ PatchStatus(rec.idx, "InProgress", TRUE)

WaitForGroup ==
    /\ LoopDone("current") /\ ~Complete(view, rec.idx)
    /\ PatchStatus(rec.idx, "InProgress", TRUE)

RejectWait ==
    /\ LoopDone("current") /\ Complete(view, rec.idx)
    /\ Wait[rec.idx] = "invalid"
    /\ PatchStatus(rec.idx, "Failed", FALSE)

\* Fault: no requeue for the waitDuration.
HoldForWaitForGood ==
    /\ LoopDone("current") /\ Complete(view, rec.idx)
    /\ Wait[rec.idx] = "positive"
    /\ PatchStatus(rec.idx, "InProgress", FALSE)

HoldForWait ==
    /\ LoopDone("current") /\ Complete(view, rec.idx)
    /\ Wait[rec.idx] = "positive"
    /\ PatchStatus(rec.idx, "InProgress", TRUE)

\* Fault: the group is not looked at.
AdvanceUnready ==
    /\ LoopDone("current")
    /\ Wait[rec.idx] # "invalid"
    /\ PatchStatus(rec.idx + 1, "InProgress", TRUE)

Advance ==
    /\ LoopDone("current") /\ Complete(view, rec.idx)
    /\ Wait[rec.idx] # "invalid"
    /\ PatchStatus(rec.idx + 1, "InProgress", TRUE)

NextCompleted ==
    /\ LoopDone("completed") /\ cursor + 1 < NumGroups
    /\ Read("completed", cursor + 1, Members(cursor + 1))
    /\ UNCHANGED <<podVars, seqVars, queued, rec, recCur, view, prevReady, fresh,
                   failed, history>>

\* Fault: the index moves on once more.
FinishCompletedAdvancing ==
    /\ LoopDone("completed") /\ cursor + 1 >= NumGroups
    /\ PatchStatus(rec.idx + 1, "Completed", failed)

\* Fault: collected errors are not returned.
FinishCompletedAnyway ==
    /\ LoopDone("completed") /\ cursor + 1 >= NumGroups
    /\ PatchStatus(rec.idx, "Completed", FALSE)

FinishCompleted ==
    /\ LoopDone("completed") /\ cursor + 1 >= NumGroups
    /\ PatchStatus(rec.idx, "Completed", failed)

\* Fault: collected errors are not returned.
RetryDeletionNever ==
    /\ LoopDone("deletion") /\ failed
    /\ Return /\ UNCHANGED queued
    /\ UNCHANGED <<podVars, seqVars, history>>

\* handleDeletion returns the collected errors ...
RetryDeletion ==
    /\ LoopDone("deletion") /\ failed
    /\ Return /\ queued' = TRUE
    /\ UNCHANGED <<podVars, seqVars, history>>

\* Fault: collected errors do not keep the finalizer.
RemoveFinalizerAnyway ==
    /\ LoopDone("deletion") /\ recCur
    /\ Return
    /\ StoreSeq([seq EXCEPT !.finalizer = FALSE, !.life = "gone"])
    /\ UNCHANGED <<podVars, seqCache, queued, history>>

\* ... or lets the object go; the Update returns a conflict or any other error,
\* except that the object is gone already.
RemoveFinalizer ==
    /\ LoopDone("deletion") /\ ~failed
    /\ Return
    /\ \/ /\ recCur
          /\ StoreSeq([seq EXCEPT !.finalizer = FALSE, !.life = "gone"])
          /\ queued' \in {queued, TRUE}
       \/ seq.life = "gone" /\ UNCHANGED <<seq, seqCur, queued>>
       \/ queued' = TRUE /\ UNCHANGED <<seq, seqCur>>
    /\ UNCHANGED <<podVars, seqCache, history>>

-----------------------------------------------------------------------------
Init ==
    /\ pods = NoPods /\ podCache = NoPods /\ podCur = Pod
    /\ seq = Unborn /\ seqCache = Unborn /\ seqCur = TRUE
    /\ queued = FALSE
    /\ stage = "idle" /\ rec = Unborn /\ recCur = FALSE
    /\ cursor = 0 /\ unread = {} /\ todo = {} /\ fresh = {}
    /\ view = NoPods /\ prevReady = FALSE /\ failed = FALSE
    /\ wasReady = {} /\ wasComplete = {}

Environment ==
    \/ \E p \in Pod : \/ \E s \in PodState : Create(p, s)
                      \/ Delete(p) \/ BecomeReady(p) \/ BecomeUnready(p) \/ Finish(p)
    \/ CreateSeq
    \/ DeleteSeq

Release(p) ==
    \/ RemoveGate(p) \/ RemoveGateNotFound(p) \/ RemoveGateConflict(p)
    \/ RemoveGateError(p) \/ RemoveGateLostReply(p)

Reconcile ==
    \/ Ignore \/ AddFinalizer \/ Start
    \/ ReadCurrent \/ ReadPrev \/ ReadGated \/ RejectSelector
    \/ \E p \in Pod : Release(p)
    \/ CurrentRead \/ NextPassed \/ PrevIsReady \/ PrevNotReady
    \/ WaitForGroup \/ RejectWait \/ HoldForWait \/ Advance
    \/ NextCompleted \/ FinishCompleted
    \/ RetryDeletion \/ RemoveFinalizer

Next == Environment \/ DeliverPods \/ DeliverSeq \/ Reconcile \/ Crash

Spec == Init /\ [][Next]_vars

(* Fairness.  The worker keeps taking work and the watches keep delivering; *)
(* a write that is retried for ever goes through in the end, and so does a  *)
(* waitDuration (its requeue comes back when it is over).  That workloads   *)
(* create their pods, and that pods become ready, is an assumption about    *)
(* the cluster.                                                             *)
Fairness ==
    /\ WF_vars(Reconcile) /\ WF_vars(DeliverPods) /\ WF_vars(DeliverSeq)
    /\ SF_vars(AddFinalizer /\ seq' # seq)
    /\ SF_vars(Advance /\ seq' # seq)
    /\ SF_vars(FinishCompleted /\ seq' # seq)
    /\ SF_vars(RemoveFinalizer /\ seq' # seq)
    /\ WF_vars(CreateSeq)
    /\ \A p \in Pod : WF_vars(\E s \in PodState : Create(p, s)) /\ WF_vars(BecomeReady(p))

LiveSpec == Spec /\ Fairness

-----------------------------------------------------------------------------
(* Safety.                                                                 *)

\* Every group that status.currentIndex has gone past has been ready, also for an
\* index advanced from a view that was old and for groups that regressed since.
IndexJustified == \A g \in Group : g < seq.idx => Passable(g)

Ended == seq.life \in {"deleting", "gone"}

Released(p) == pods[p] = "gated" /\ pods'[p] = "pending"

ReleasedInOrder(p) == EarlierPassable(GroupOf[p]) /\ GroupOf[p] <= seq.idx

\* A pod loses its gate, outside the deletion of the sequence, only after every
\* earlier group has been ready and the server's index has reached its group.
NoEarlyRelease ==
    [][\A p \in Pod : Released(p) => ReleasedInOrder(p) \/ Ended]_vars

\* The index moves one group at a time and never back, however old the copy was that
\* a reconcile computed it from and however often the same group is found ready.
OneGroupAtATime == [][seq'.idx \in {seq.idx, seq.idx + 1}]_vars

Settled == stage = "idle" /\ ~queued /\ podCur = Pod /\ seqCur

\* No wake-up is lost: when nothing is queued, running or on its way to a cache, the
\* sequence is completed, or its waitDuration is refused, no pod the index has reached
\* is left gated, and no deletion is pending.
NothingForgotten ==
    Settled /\ seq.life \in {"live", "deleting"} =>
        /\ seq.life = "live"
        /\ \/ seq.phase = "Completed" /\ seq.idx = NumGroups
           \/ seq.phase = "Failed" /\ seq.idx < NumGroups /\ Wait[seq.idx] = "invalid"
        /\ \A p \in Pod : pods[p] = "gated" => GroupOf[p] > seq.idx

Goes == seq.life = "deleting" /\ seq'.life = "gone"

\* A failed patch keeps the finalizer: of the pods the deletion pass has read, none is
\* still at the gated revision it read when the sequence goes.
DeletionReleasesRead == [][Goes => \A p \in fresh : pods[p] # "gated"]_vars

OrderedPod == [p \in Pod |-> IF pods[p] \in {"absent", "gated"} THEN pods[p] ELSE "free"]

Proven == {g \in Group : Passable(g)}

Ordered == INSTANCE OrderedRelease WITH
    pod <- OrderedPod, proven <- Proven, passed <- seq.idx, ended <- Ended

\* The promise of OrderedRelease is kept.
KeepsOrder == Ordered!Spec

(* Liveness.                                                               *)

\* What may go wrong now and then, but not for ever.
Disruption ==
    \/ Crash
    \/ \E p \in Pod : Delete(p) \/ BecomeUnready(p) \/ RemoveGateError(p)
                      \/ RemoveGateLostReply(p)

\* The completion of a job is not readiness: a finished pod of the current group, or of the
\* one just passed, holds the sequence up for as long as it is there.
HoldsUp(q) ==
    /\ pods[q] = "finished"
    /\ seq.idx < NumGroups /\ seq.idx \in {GroupOf[q], GroupOf[q] + 1}

\* Once disruptions end, the sequence runs to its end, unless it is deleted or a finished
\* pod holds it up, if no group is Broken and no waitDuration invalid: every requeue that
\* it needs happens.
EventuallyCompleted ==
    <>[][~Disruption]_vars =>
        <>[](\/ seq.phase = "Completed" \/ seq.life \in {"deleting", "gone"}
             \/ \E q \in Pod : HoldsUp(q))

\* Once disruptions end, no pod of a sequence that is not deleted remains gated, unless a
\* finished pod of an earlier group holds the sequence up; also a pod recreated after the
\* sequence completed, and one whose first patch failed.
EventuallyReleased ==
    <>[][~Disruption]_vars =>
        <>[](seq.life = "live" =>
                \A p \in Pod : pods[p] = "gated" =>
                    \E q \in Pod : HoldsUp(q) /\ GroupOf[q] < GroupOf[p])

\* While a pod of the group just passed is finished, the current group is held back, also
\* pods of it that are created meanwhile: only news that are still on their way let some go.
HeldBack ==
    <>[](seq.life = "live" /\ \E q \in Pod : HoldsUp(q) /\ GroupOf[q] < seq.idx) =>
        <>[][\A p \in Pod : Released(p) => GroupOf[p] < seq.idx]_vars

\* Once disruptions end, a deletion is carried through.
DeletionCompletes ==
    <>[][~Disruption]_vars => <>[](seq.life # "deleting")
=============================================================================
