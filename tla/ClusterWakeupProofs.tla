------------------------- MODULE ClusterWakeupProofs -------------------------
(***************************************************************************)
(* Proofs about ClusterSequence, continued: no wake-up is lost, and a      *)
(* deletion keeps the finalizer while a pod it has read is gated.          *)
(***************************************************************************)
EXTENDS ClusterSequenceProofs

-----------------------------------------------------------------------------
(* The inductive invariant.                                                *)

\* Between two reconciles nothing is held; what a deletion pass without errors holds it
\* has still to release.
PassOK ==
    /\ stage = "idle" => fresh = {} /\ ~failed
    /\ stage = "deletion" /\ ~failed => fresh \subseteq todo

\* What is being deleted has the finalizer, in every copy.
FinalizerOK ==
    /\ seq.life = "deleting" => seq.finalizer
    /\ seqCache.life = "deleting" => seqCache.finalizer

\* Gated pods of which the cache has heard: while nothing is queued they become fewer.
Due == {p \in podCur : pods[p] = "gated"}

\* Wherever Reconcile is, it has not gone past a pod that is due.
AheadOK ==
    /\ stage = "readCurrent" =>
         \A p \in Due : GroupOf[p] = rec.idx => p \in unread \/ view[p] = "gated"
    /\ stage \in {"passed", "prev"} =>
         \A p \in Due : GroupOf[p] = rec.idx => view[p] = "gated"
    /\ stage = "passed" =>
         \A p \in Due : GroupOf[p] > cursor \/ (GroupOf[p] = cursor /\ p \in unread \union todo)
    /\ stage = "prev" => \A p \in Due : GroupOf[p] >= rec.idx
    /\ stage = "current" => \A p \in Due : GroupOf[p] > rec.idx \/ p \in todo
    /\ stage = "completed" /\ ~failed =>
         \A p \in Due : GroupOf[p] > cursor \/ p \in unread \union todo

\* A Reconcile that nothing has been queued behind works on the cached sequence.
RunningOK ==
    /\ rec = seqCache /\ (seqCur => recCur)
    /\ rec.life = IF stage = "deletion" THEN "deleting" ELSE "live"
    /\ AheadOK

\* No event, error or timer is needed any more.
Done ==
    /\ seq.life = "live"
    /\ \/ seq.phase = "Completed" /\ seq.idx = NumGroups
       \/ seq.phase = "Failed" /\ seq.idx < NumGroups /\ Wait[seq.idx] = "invalid"
    /\ \A p \in Due : GroupOf[p] > seq.idx

WakeOK ==
    /\ ~queued /\ stage # "idle" => RunningOK
    /\ ~queued /\ stage = "idle" /\ seqCur /\ seq.life \in {"live", "deleting"} => Done

WInv == PassOK /\ FinalizerOK /\ WakeOK

-----------------------------------------------------------------------------
(* Steps that leave Reconcile where it is.                                 *)

\* A stored pod is not due: its cached copy is an old one.
LEMMA StoreDue ==
    ASSUME NEW p \in Pod, NEW s, IInv, StorePod(p, s)
    PROVE  Due' \subseteq Due /\ p \notin Due'
BY DEF StorePod, Due, IInv, TypeOK

\* Fewer due pods, and no newer copy of the sequence: nothing needs to be woken.
LEMMA QuietOK ==
    ASSUME IInv, WakeOK, Due' \subseteq Due,
           UNCHANGED <<queued, stage, rec, cursor, unread, view, todo, failed, seqCache>>,
           seqCur' => seqCur /\ UNCHANGED <<seq, recCur>>
    PROVE  WakeOK'
<1>1. RunningOK => RunningOK'
  <2>1. AheadOK => AheadOK'
    BY DEF AheadOK
  <2> QED BY <2>1 DEF RunningOK
<1>2. seqCur' /\ Done => Done'
  BY DEF Done
<1> QED BY <1>1, <1>2 DEF WakeOK

\* Users, the kubelet and the deliveries.
LEMMA WorldWakes ==
    ASSUME IInv, WInv,
           Environment \/ DeliverPods \/ DeliverSeq \/ Crash \/ UNCHANGED vars
    PROVE  WakeOK'
<1>1. CASE \E p \in Pod, s \in PodState : PodChange(p, s)
  BY <1>1, StoreDue, QuietOK DEF PodChange, WInv, seqVars
<1>2. CASE CreateSeq \/ DeleteSeq
  <2>1. Due' = Due /\ ~seqCur'
    BY <1>2 DEF CreateSeq, DeleteSeq, StoreSeq, podVars, Due
  <2> QED BY <1>2, <2>1, QuietOK DEF CreateSeq, DeleteSeq, WInv, loopVars
<1>3. CASE UNCHANGED vars
  <2>1. Due' = Due
    BY <1>3 DEF vars, podVars, Due
  <2> QED BY <1>3, <2>1, QuietOK DEF vars, seqVars, localVars, loopVars, WInv
<1>4. CASE DeliverPods
  <2>1. CASE queued'
    BY <2>1 DEF WakeOK
  <2>2. CASE ~queued'
    <3>1. ~queued /\ seqCache.life \notin {"live", "deleting"}
      BY <1>4, <2>2 DEF DeliverPods
    <3>2. stage = "idle"
      BY <3>1 DEF WInv, WakeOK, RunningOK
    <3>3. stage' = "idle" /\ seqCur' = seqCur /\ seq' = seq
      BY <1>4, <3>2 DEF DeliverPods, seqVars, localVars
    <3>4. seqCur => seq.life \notin {"live", "deleting"}
      BY <3>1 DEF IInv, CopiesOK
    <3> QED BY <3>3, <3>4 DEF WakeOK
  <2> QED BY <2>1, <2>2
<1>5. CASE DeliverSeq
  BY <1>5 DEF DeliverSeq, WakeOK
<1>6. CASE Crash
  <2>1. stage' = "idle" /\ (queued' \/ seq'.life \notin {"live", "deleting"})
    BY <1>6 DEF Crash, Return
  <2> QED BY <2>1 DEF WakeOK
<1> QED
  <2>1. {"absent", "pending", "ready", "finished"} \subseteq PodState
    BY DEF PodState
  <2> QED BY <1>1, <1>2, <1>3, <1>4, <1>5, <1>6, <2>1
          DEF Environment, Create, Delete, BecomeReady, BecomeUnready, Finish

-----------------------------------------------------------------------------
(* Steps of Reconcile.                                                     *)

\* The group of a pod, the index and the cursor can be compared.
LEMMA Numbers ==
    ASSUME IInv
    PROVE  /\ NumGroups \in Nat /\ rec.idx \in 0 .. NumGroups /\ cursor \in 0 .. NumGroups
           /\ Due \subseteq Pod
           /\ \A p \in Pod : GroupOf[p] \in 0 .. NumGroups - 1
           /\ \A p \in Due : podCache[p] = "gated"
<1> USE ConfigAssumption
<1>1. NumGroups \in Nat /\ rec.idx \in 0 .. NumGroups /\ cursor \in 0 .. NumGroups
  BY DEF IInv, TypeOK, Sequence
<1>2. Due \subseteq Pod /\ \A p \in Due : podCache[p] = "gated"
  BY DEF IInv, TypeOK, CopiesOK, Due
<1>3. \A p \in Pod : GroupOf[p] \in 0 .. NumGroups - 1
  BY DEF Group
<1> QED BY <1>1, <1>2, <1>3

\* Start: a Reconcile begins with everything still to be read.
LEMMA StartWakes ==
    ASSUME IInv, WInv, Start
    PROVE  WakeOK'
<1> USE ConfigAssumption
<1>1. rec' = seqCache /\ seqCache' = seqCache /\ (seqCur' => recCur')
      /\ seqCur' = seqCur /\ seq' = seq /\ Due' = Due /\ view' = view /\ failed' = failed
  BY DEF Start, Dequeue, podVars, Due
<1>2. Due \subseteq Pod /\ \A p \in Pod : GroupOf[p] \in 0 .. NumGroups - 1
  BY Numbers
<1>3. seqCache.idx \in 0 .. NumGroups
  BY DEF IInv, TypeOK, Sequence
<1>4. CASE seqCache.life = "deleting" /\ Read("deletion", 0, Pod)
  BY <1>1, <1>4 DEF WakeOK, RunningOK, AheadOK, Read
<1>5. CASE /\ seqCache.life = "live" /\ seqCache.idx >= NumGroups
           /\ Read("completed", 0, Members(0))
  <2>1. \A p \in Due : GroupOf[p] > 0 \/ p \in Members(0)
    BY <1>2 DEF Members
  <2> QED BY <1>1, <1>5, <2>1 DEF WakeOK, RunningOK, AheadOK, Read
<1>6. CASE /\ seqCache.life = "live" /\ seqCache.idx < NumGroups
           /\ Read("readCurrent", seqCache.idx, Members(seqCache.idx))
  <2>1. \A p \in Due : GroupOf[p] = seqCache.idx => p \in Members(seqCache.idx)
    BY <1>2 DEF Members
  <2> QED BY <1>1, <1>6, <2>1 DEF WakeOK, RunningOK, AheadOK, Read
<1> QED BY <1>4, <1>5, <1>6 DEF Start

\* ReadCurrent: a pod is read as gated if it is due.
LEMMA ReadCurrentWakes ==
    ASSUME IInv, WInv, ReadCurrent
    PROVE  WakeOK'
<1>1. PICK S \in Batch : /\ view' = [p \in Pod |-> IF p \in S THEN podCache[p] ELSE view[p]]
                         /\ unread' = unread \ S
  BY DEF ReadCurrent
<1>2. /\ stage = "readCurrent" /\ Due' = Due
      /\ UNCHANGED <<queued, stage, rec, recCur, seq, seqCache, seqCur>>
  BY DEF ReadCurrent, podVars, seqVars, Due
<1>3. Due \subseteq Pod /\ \A p \in Due : podCache[p] = "gated"
  BY Numbers
<1>4. RunningOK => RunningOK'
  BY <1>1, <1>2, <1>3 DEF RunningOK, AheadOK
<1> QED BY <1>2, <1>4 DEF WInv, WakeOK

\* ReadPrev: no pod of the previous group is due.
LEMMA ReadPrevWakes ==
    ASSUME IInv, WInv, ReadPrev
    PROVE  WakeOK'
<1>1. /\ stage = "prev" /\ Due' = Due
      /\ UNCHANGED <<queued, stage, rec, recCur, seq, seqCache, seqCur, view>>
  BY DEF ReadPrev, podVars, seqVars, Due
<1>2. RunningOK => RunningOK'
  BY <1>1 DEF RunningOK, AheadOK
<1> QED BY <1>1, <1>2 DEF WInv, WakeOK

\* ReadGated: what is due and no longer to be read is to be released.
LEMMA ReadGatedWakes ==
    ASSUME IInv, WInv, ReadGated
    PROVE  WakeOK'
<1>1. PICK S \in Batch : todo' = todo \union Gated(podCache, S) /\ unread' = unread \ S
  BY DEF ReadGated
<1>2. /\ stage \in {"passed", "completed", "deletion"} /\ Due' = Due
      /\ UNCHANGED <<queued, stage, rec, recCur, seq, seqCache, seqCur, view, cursor, failed>>
  BY DEF ReadGated, podVars, seqVars, Due
<1>3. \A p \in Due : p \in unread \union todo => p \in (unread \union todo)'
  BY <1>1, Numbers DEF Gated
<1>4. RunningOK => RunningOK'
  BY <1>2, <1>3 DEF RunningOK, AheadOK
<1> QED BY <1>2, <1>4 DEF WInv, WakeOK

\* What is due in the current group is what BeginCurrent takes up.
LEMMA BeginCurrentWakes ==
    ASSUME IInv, BeginCurrent, Due' = Due,
           UNCHANGED <<seq, seqCache, seqCur, queued, rec, recCur, view, failed>>,
           RunningOK, stage # "deletion",
           \A p \in Due : GroupOf[p] >= rec.idx,
           \A p \in Due : GroupOf[p] = rec.idx => view[p] = "gated"
    PROVE  RunningOK'
<1>1. stage' = "current" /\ \A p \in Due : GroupOf[p] > rec.idx \/ p \in todo'
  BY Numbers DEF BeginCurrent, Gated, Members
<1> QED BY <1>1 DEF RunningOK, AheadOK

\* CurrentRead: the whole of the current group has been read.
LEMMA CurrentReadWakes ==
    ASSUME IInv, WInv, CurrentRead
    PROVE  WakeOK'
<1>1. /\ stage = "readCurrent" /\ unread = {} /\ Due' = Due /\ stage' # "idle"
      /\ UNCHANGED <<seq, seqCache, seqCur, queued, rec, recCur, view, failed>>
  BY DEF CurrentRead, Reading, podVars, seqVars, Due, Read, BeginCurrent
<1>2. ASSUME RunningOK PROVE RunningOK'
  <2>1. \A p \in Due : GroupOf[p] = rec.idx => view[p] = "gated"
    BY <1>1, <1>2 DEF RunningOK, AheadOK
  <2>2. CASE rec.idx > 0
    <3>1. Read("passed", 0, Members(0))
      BY <2>2 DEF CurrentRead
    <3>2. \A p \in Due : GroupOf[p] > 0 \/ (GroupOf[p] = 0 /\ p \in Members(0))
      BY Numbers DEF Members
    <3> QED BY <1>1, <1>2, <2>1, <3>1, <3>2 DEF RunningOK, AheadOK, Read
  <2>3. CASE ~(rec.idx > 0)
    <3>1. \A p \in Due : GroupOf[p] >= rec.idx
      BY <2>3, Numbers
    <3> QED BY <1>1, <1>2, <2>1, <2>3, <3>1, BeginCurrentWakes DEF CurrentRead
  <2> QED BY <2>2, <2>3
<1> QED BY <1>1, <1>2 DEF WInv, WakeOK

\* NextPassed: no pod of a group left behind is due.
LEMMA NextPassedWakes ==
    ASSUME IInv, WInv, NextPassed
    PROVE  WakeOK'
<1>1. /\ stage = "passed" /\ unread = {} /\ todo = {} /\ Due' = Due /\ stage' # "idle"
      /\ UNCHANGED <<seq, seqCache, seqCur, queued, rec, recCur, view, failed>>
  BY DEF NextPassed, LoopDone, Reading, podVars, seqVars, Due, Read
<1>2. ASSUME RunningOK PROVE RunningOK'
  <2>1. \A p \in Due : GroupOf[p] > cursor
    BY <1>1, <1>2 DEF RunningOK, AheadOK
  <2>2. CASE cursor + 1 < rec.idx
    <3>1. Read("passed", cursor + 1, Members(cursor + 1))
      BY <2>2 DEF NextPassed
    <3>2. \A p \in Due : \/ GroupOf[p] > cursor + 1
                         \/ GroupOf[p] = cursor + 1 /\ p \in Members(cursor + 1)
      BY <2>1, Numbers DEF Members
    <3> QED BY <1>1, <1>2, <3>1, <3>2 DEF RunningOK, AheadOK, Read
  <2>3. CASE ~(cursor + 1 < rec.idx)
    <3>1. Read("prev", rec.idx - 1, Members(rec.idx - 1))
      BY <2>3 DEF NextPassed
    <3>2. \A p \in Due : GroupOf[p] >= rec.idx
      BY <2>1, <2>3, Numbers
    <3> QED BY <1>1, <1>2, <3>1, <3>2 DEF RunningOK, AheadOK, Read
  <2> QED BY <2>2, <2>3
<1> QED BY <1>1, <1>2 DEF WInv, WakeOK

\* PrevIsReady: the current group is next.
LEMMA PrevIsReadyWakes ==
    ASSUME IInv, WInv, PrevIsReady
    PROVE  WakeOK'
<1>1. /\ stage = "prev" /\ Due' = Due /\ stage' # "idle" /\ BeginCurrent
      /\ UNCHANGED <<seq, seqCache, seqCur, queued, rec, recCur, view, failed>>
  BY DEF PrevIsReady, LoopDone, podVars, seqVars, Due, BeginCurrent
<1>2. ASSUME RunningOK PROVE RunningOK'
  BY <1>1, <1>2, BeginCurrentWakes DEF RunningOK, AheadOK
<1> QED BY <1>1, <1>2 DEF WInv, WakeOK

\* NextCompleted: as NextPassed.
LEMMA NextCompletedWakes ==
    ASSUME IInv, WInv, NextCompleted
    PROVE  WakeOK'
<1>1. /\ stage = "completed" /\ unread = {} /\ todo = {} /\ Due' = Due
      /\ Read("completed", cursor + 1, Members(cursor + 1))
      /\ UNCHANGED <<seq, seqCache, seqCur, queued, rec, recCur, view, failed>>
  BY DEF NextCompleted, LoopDone, Reading, podVars, seqVars, Due
<1>2. \A p \in Due : GroupOf[p] > cursor => GroupOf[p] > cursor + 1 \/ p \in Members(cursor + 1)
  BY Numbers DEF Members
<1>3. RunningOK => RunningOK'
  BY <1>1, <1>2 DEF RunningOK, AheadOK, Read
<1> QED BY <1>1, <1>3 DEF WInv, WakeOK, Read

\* A patch that leaves its pod not due, and collects no error, may take it off the list.
LEMMA PatchedWakes ==
    ASSUME IInv, WInv, NEW p \in Pod, Releasing(p), p \notin Due',
           Due' \subseteq Due, todo' = todo \ {p},
           view' = IF stage = "current" THEN [view EXCEPT ![p] = "pending"] ELSE view,
           UNCHANGED <<seqVars, queued, stage, rec, recCur, cursor, unread, failed>>
    PROVE  WakeOK'
<1>1. ASSUME RunningOK PROVE RunningOK'
  <2>1. \A q \in Due' : q \in Due /\ (q \in todo <=> q \in todo')
    OBVIOUS
  <2>2. AheadOK'
    BY <1>1, <2>1 DEF RunningOK, AheadOK, Releasing
  <2> QED BY <1>1, <2>2 DEF RunningOK, seqVars
<1>2. Done /\ seqCur => Done'
  BY DEF Done, seqVars
<1> QED BY <1>1, <1>2 DEF WInv, WakeOK, seqVars

\* An error queues the sequence again, at once or when the loop has ended.
LEMMA OnErrorWakes ==
    ASSUME IInv, WInv, NEW p \in Pod, NEW current, OnError(p, current), UNCHANGED seqVars,
           Due' \subseteq Due
    PROVE  WakeOK'
<1>1. CASE queued'
  BY <1>1 DEF WakeOK
<1>2. CASE /\ stage \in {"completed", "deletion"} /\ todo' = todo \ {p} /\ failed' = TRUE
           /\ UNCHANGED <<queued, stage, rec, recCur, cursor, unread, view, prevReady>>
  <2>1. RunningOK => RunningOK'
    BY <1>2 DEF RunningOK, AheadOK, seqVars
  <2> QED BY <1>2, <2>1 DEF WInv, WakeOK
<1> QED BY <1>1, <1>2 DEF OnError

\* Every outcome of a gate patch.
LEMMA ReleaseWakes ==
    ASSUME IInv, WInv, NEW p \in Pod, Release(p)
    PROVE  WakeOK'
<1>1. CASE RemoveGate(p)
  BY <1>1, StoreDue, PatchedWakes DEF RemoveGate
<1>2. CASE RemoveGateNotFound(p)
  <2>1. Due' = Due /\ p \notin Due
    BY <1>2 DEF RemoveGateNotFound, podVars, Due
  <2> QED BY <1>2, <2>1, PatchedWakes DEF RemoveGateNotFound
<1>3. CASE RemoveGateConflict(p) \/ RemoveGateError(p)
  <2>1. Due' = Due /\ OnError(p, fresh) /\ UNCHANGED seqVars
    BY <1>3 DEF RemoveGateConflict, RemoveGateError, podVars, Due
  <2> QED BY <2>1, OnErrorWakes
<1>4. CASE RemoveGateLostReply(p)
  BY <1>4, StoreDue, OnErrorWakes DEF RemoveGateLostReply
<1> QED BY <1>1, <1>2, <1>3, <1>4 DEF Release

\* A status write without a requeue leaves nothing to do, or an event to come.
LEMMA PatchStatusWakes ==
    ASSUME IInv, WInv, NEW idx, NEW phase, NEW requeue \in BOOLEAN,
           PatchStatus(idx, phase, requeue), stage # "idle",
           ~queued /\ ~requeue /\ recCur /\ rec.idx = idx /\ rec.phase = phase => Done
    PROVE  WakeOK'
<1>1. CASE queued'
  BY <1>1 DEF WakeOK
<1>2. CASE ~seqCur'
  BY <1>2 DEF WakeOK, PatchStatus, Return
<1>3. CASE ~queued' /\ seqCur'
  <2>1. ~queued /\ ~requeue /\ UNCHANGED <<seq, seqCur>>
        /\ (~recCur \/ (idx = rec.idx /\ phase = rec.phase))
    BY <1>3 DEF PatchStatus, StoreSeq
  <2>2. recCur
    BY <1>3, <2>1 DEF WInv, WakeOK, RunningOK
  <2>3. Done /\ Due' = Due
    BY <2>1, <2>2 DEF PatchStatus, podVars, Due
  <2>4. Done'
    BY <2>1, <2>3 DEF Done
  <2> QED BY <2>4 DEF WakeOK, PatchStatus, Return
<1> QED BY <1>1, <1>2, <1>3

\* The ways in which reconcileClusterScoped can end.
LEMMA StatusWakes ==
    ASSUME IInv, WInv,
           \/ RejectSelector \/ PrevNotReady \/ WaitForGroup \/ RejectWait \/ HoldForWait
           \/ Advance \/ FinishCompleted
    PROVE  WakeOK'
<1>1. CASE RejectSelector \/ PrevNotReady \/ WaitForGroup \/ HoldForWait \/ Advance
  <2>1. \E idx, phase : PatchStatus(idx, phase, TRUE) /\ stage # "idle"
    BY <1>1 DEF RejectSelector, PrevNotReady, WaitForGroup, HoldForWait, Advance, LoopDone
  <2> QED BY <2>1, PatchStatusWakes
<1>2. CASE RejectWait
  <2>1. stage = "current" /\ todo = {} /\ Wait[rec.idx] = "invalid" /\ rec.idx < NumGroups
    BY <1>2 DEF RejectWait, LoopDone, IInv, PlaceOK
  <2>2. ASSUME ~queued, recCur, rec.phase = "Failed" PROVE Done
    <3>1. RunningOK
      BY <2>1, <2>2 DEF WInv, WakeOK
    <3>2. rec = seq /\ seq.life = "live"
      BY <2>1, <2>2, <3>1 DEF RunningOK, IInv, CopiesOK
    <3> QED BY <2>1, <2>2, <3>1, <3>2 DEF RunningOK, AheadOK, Done
  <2> QED BY <1>2, <2>1, <2>2, PatchStatusWakes DEF RejectWait
<1>3. CASE FinishCompleted
  <2>1. /\ stage = "completed" /\ todo = {} /\ unread = {} /\ cursor + 1 >= NumGroups
        /\ rec.idx = NumGroups
    BY <1>3 DEF FinishCompleted, LoopDone, Reading, IInv, PlaceOK
  <2>2. ASSUME ~queued, ~failed, recCur, rec.phase = "Completed" PROVE Done
    <3>1. RunningOK
      BY <2>1, <2>2 DEF WInv, WakeOK
    <3>2. rec = seq /\ seq.life = "live"
      BY <2>1, <2>2, <3>1 DEF RunningOK, IInv, CopiesOK
    <3>3. \A p \in Due : GroupOf[p] > cursor
      BY <2>1, <2>2, <3>1 DEF RunningOK, AheadOK
    <3>4. Due = {}
      BY <2>1, <3>3, Numbers
    <3> QED BY <2>1, <2>2, <3>2, <3>4 DEF Done
  <2>3. failed \in BOOLEAN
    BY DEF IInv, TypeOK
  <2> QED BY <1>3, <2>1, <2>2, <2>3, PatchStatusWakes DEF FinishCompleted
<1> QED BY <1>1, <1>2, <1>3

\* The head of Reconcile and the end of a deletion.
LEMMA LifeWakes ==
    ASSUME IInv, WInv, Ignore \/ AddFinalizer \/ RetryDeletion \/ RemoveFinalizer
    PROVE  WakeOK'
<1>1. CASE Ignore
  <2>1. seqCache.life \in {"unborn", "gone"}
    BY <1>1 DEF Ignore, WInv, FinalizerOK
  <2>2. /\ stage' = "idle" /\ seqCur' = seqCur /\ seq' = seq
        /\ (seqCur => seq.life \in {"unborn", "gone"})
    BY <1>1, <2>1 DEF Ignore, Dequeue, localVars, IInv, CopiesOK
  <2> QED BY <2>2 DEF WakeOK
<1>2. CASE AddFinalizer
  BY <1>2 DEF AddFinalizer, Dequeue, StoreSeq, localVars, WakeOK
<1>3. CASE RetryDeletion
  BY <1>3 DEF RetryDeletion, WakeOK
<1>4. CASE RemoveFinalizer
  BY <1>4 DEF RemoveFinalizer, Return, StoreSeq, WakeOK
<1> QED BY <1>1, <1>2, <1>3, <1>4

-----------------------------------------------------------------------------
(* The theorems.                                                           *)

\* Every step keeps WakeOK.
LEMMA WakeStep ==
    ASSUME IInv, WInv, [Next]_vars
    PROVE  WakeOK'
<1>1. CASE Environment \/ DeliverPods \/ DeliverSeq \/ Crash \/ UNCHANGED vars
  BY <1>1, WorldWakes
<1>2. CASE \E p \in Pod : Release(p)
  BY <1>2, ReleaseWakes
<1>3. CASE Reconcile /\ ~\E p \in Pod : Release(p)
  BY <1>3, StartWakes, ReadCurrentWakes, ReadPrevWakes, ReadGatedWakes, CurrentReadWakes,
     NextPassedWakes, PrevIsReadyWakes, NextCompletedWakes, StatusWakes, LifeWakes
     DEF Reconcile
<1> QED BY <1>1, <1>2, <1>3 DEF Next, Reconcile

\* The steps that store the sequence.
LEMMA SeqChanges ==
    ASSUME [Next]_vars
    PROVE  \/ seq' = seq
           \/ CreateSeq \/ DeleteSeq \/ AddFinalizer \/ RemoveFinalizer
           \/ \E idx, phase, requeue : PatchStatus(idx, phase, requeue)
<1>1. CASE Environment \/ DeliverPods \/ DeliverSeq \/ Crash \/ UNCHANGED vars
  BY <1>1 DEF Environment, Create, Delete, BecomeReady, BecomeUnready, Finish, PodChange,
     DeliverPods, DeliverSeq, Crash, vars, seqVars
<1>2. CASE \E p \in Pod : Release(p)
  BY <1>2 DEF Release, RemoveGate, RemoveGateNotFound, RemoveGateConflict, RemoveGateError,
     RemoveGateLostReply, seqVars
<1>3. CASE \/ RejectSelector \/ PrevNotReady \/ WaitForGroup \/ RejectWait \/ HoldForWait
           \/ Advance \/ FinishCompleted
  BY <1>3 DEF RejectSelector, PrevNotReady, WaitForGroup, RejectWait, HoldForWait, Advance,
     FinishCompleted
<1>4. CASE \/ Ignore \/ Start \/ ReadCurrent \/ ReadPrev \/ ReadGated \/ CurrentRead
           \/ NextPassed \/ PrevIsReady \/ NextCompleted \/ RetryDeletion
  BY <1>4 DEF Ignore, Start, ReadCurrent, ReadPrev, ReadGated, CurrentRead, NextPassed,
     PrevIsReady, NextCompleted, RetryDeletion, seqVars
<1> QED BY <1>1, <1>2, <1>3, <1>4 DEF Next, Reconcile

\* Every step keeps PassOK.
LEMMA PassStep ==
    ASSUME IInv, WInv, [Next]_vars
    PROVE  PassOK'
<1>1. CASE Return
  BY <1>1 DEF Return, PassOK
<1>2. CASE UNCHANGED <<stage, todo, failed>> /\ fresh' \subseteq fresh
  BY <1>2 DEF WInv, PassOK
<1>3. CASE \E p \in Pod : Release(p)
  <2>1. PICK p \in Pod : Release(p)
    BY <1>3
  <2>2. CASE RemoveGate(p) \/ RemoveGateNotFound(p)
    <3>1. /\ stage' = stage /\ failed' = failed /\ todo' = todo \ {p}
          /\ fresh' \subseteq fresh /\ p \notin fresh'
      BY <2>2 DEF RemoveGate, RemoveGateNotFound, IInv, CopiesOK
    <3> QED BY <3>1 DEF WInv, PassOK
  <2>3. ASSUME NEW current, OnError(p, current) PROVE PassOK'
    BY <1>1, <2>3 DEF OnError, PassOK
  <2> QED BY <2>1, <2>2, <2>3 DEF Release, RemoveGateConflict, RemoveGateError,
          RemoveGateLostReply
<1>4. CASE Start
  <2>1. fresh' = {} /\ stage' # "idle"
    BY <1>4 DEF Start, Dequeue, Read, WInv, PassOK
  <2> QED BY <2>1 DEF PassOK
<1>5. CASE ReadCurrent \/ ReadPrev \/ CurrentRead \/ NextPassed \/ PrevIsReady \/ NextCompleted
  <2>1. stage' \in {"readCurrent", "prev", "passed", "current", "completed"}
    BY <1>5 DEF ReadCurrent, ReadPrev, CurrentRead, NextPassed, PrevIsReady, NextCompleted,
       Read, BeginCurrent
  <2> QED BY <2>1 DEF PassOK
<1>6. CASE ReadGated
  BY <1>6 DEF ReadGated, WInv, PassOK
<1>7. CASE Environment \/ DeliverPods \/ DeliverSeq \/ UNCHANGED vars
  <2>1. UNCHANGED <<stage, todo, failed>> /\ fresh' \subseteq fresh
    BY <1>7 DEF Environment, Create, Delete, BecomeReady, BecomeUnready, Finish, PodChange,
       CreateSeq, DeleteSeq, DeliverPods, DeliverSeq, vars, localVars, loopVars
  <2> QED BY <1>2, <2>1
<1>8. CASE Crash \/ RetryDeletion \/ RemoveFinalizer
  BY <1>1, <1>8 DEF Crash, RetryDeletion, RemoveFinalizer
<1>9. CASE Ignore \/ AddFinalizer
  BY <1>2, <1>9 DEF Ignore, AddFinalizer, localVars, loopVars
<1>10. CASE \/ RejectSelector \/ PrevNotReady \/ WaitForGroup \/ RejectWait \/ HoldForWait
            \/ Advance \/ FinishCompleted
  BY <1>1, <1>10 DEF RejectSelector, PrevNotReady, WaitForGroup, RejectWait, HoldForWait,
     Advance, FinishCompleted, PatchStatus
<1> QED BY <1>3, <1>4, <1>5, <1>6, <1>7, <1>8, <1>9, <1>10 DEF Next, Reconcile

\* Every step keeps FinalizerOK: only an object with a finalizer is marked for deletion, and
\* with the finalizer it goes.
LEMMA FinalizerStep ==
    ASSUME IInv, WInv, [Next]_vars
    PROVE  FinalizerOK'
<1> SUFFICES /\ seq'.life = "deleting" => seq'.finalizer
             /\ seqCache' \in {seqCache, seq}
  BY DEF FinalizerOK, WInv
<1>1. seqCache' \in {seqCache, seq}
  <2>1. CASE Environment \/ DeliverPods \/ DeliverSeq \/ Crash \/ UNCHANGED vars
    BY <2>1 DEF Environment, Create, Delete, BecomeReady, BecomeUnready, Finish, PodChange,
       CreateSeq, DeleteSeq, DeliverPods, DeliverSeq, Crash, vars, seqVars
  <2>2. CASE \E p \in Pod : Release(p)
    BY <2>2 DEF Release, RemoveGate, RemoveGateNotFound, RemoveGateConflict, RemoveGateError,
       RemoveGateLostReply, seqVars
  <2>3. CASE Reconcile /\ ~\E p \in Pod : Release(p)
    BY <2>3 DEF Reconcile, Ignore, AddFinalizer, Start, Dequeue, ReadCurrent, ReadPrev,
       ReadGated, RejectSelector, CurrentRead, NextPassed, PrevIsReady, PrevNotReady,
       WaitForGroup, RejectWait, HoldForWait, Advance, NextCompleted, FinishCompleted,
       RetryDeletion, RemoveFinalizer, PatchStatus, seqVars
  <2> QED BY <2>1, <2>2, <2>3 DEF Next, Reconcile
<1>2. seq'.life = "deleting" => seq'.finalizer
  <2> USE DEF IInv, TypeOK, Sequence, WInv, FinalizerOK
  <2>1. CASE seq' = seq
    BY <2>1
  <2>2. CASE CreateSeq
    BY <2>2 DEF CreateSeq, StoreSeq
  <2>3. CASE DeleteSeq
    BY <2>3 DEF DeleteSeq, StoreSeq
  <2>4. CASE AddFinalizer
    BY <2>4 DEF AddFinalizer, StoreSeq
  <2>5. CASE RemoveFinalizer
    BY <2>5 DEF RemoveFinalizer, StoreSeq
  <2>6. ASSUME NEW idx, NEW phase, NEW requeue, PatchStatus(idx, phase, requeue)
        PROVE  seq'.life = "deleting" => seq'.finalizer
    BY <2>6 DEF PatchStatus, StoreSeq
  <2> QED BY <2>1, <2>2, <2>3, <2>4, <2>5, <2>6, SeqChanges
<1> QED BY <1>1, <1>2

\* The invariant of the wake-ups holds in every reachable state.
THEOREM WakeInvariance == Spec => [](IInv /\ WInv)
<1>1. Init => IInv /\ WInv
  BY InitOK DEF Init, Unborn, WInv, PassOK, FinalizerOK, WakeOK
<1>2. IInv /\ WInv /\ [Next]_vars => (IInv /\ WInv)'
  BY StepOK, WakeStep, PassStep, FinalizerStep DEF WInv
<1> QED BY <1>1, <1>2, PTL DEF Spec

\* No wake-up is lost: a sequence with nothing queued, running or on its way is done, and
\* every pod that the index has reached has lost its gate.
THEOREM NoWakeupLost == Spec => []NothingForgotten
<1>1. ASSUME IInv, WInv PROVE NothingForgotten
  <2>1. podCur = Pod => \A p \in Pod : pods[p] = "gated" => p \in Due
    BY DEF Due
  <2> QED BY <1>1, <2>1 DEF NothingForgotten, Settled, WInv, WakeOK, Done
<1> QED BY <1>1, WakeInvariance, PTL

\* The sequence goes with the finalizer, in RemoveFinalizer, and in no other step.
LEMMA GoesAtTheEnd ==
    ASSUME IInv, [Next]_vars, Goes
    PROVE  LoopDone("deletion") /\ ~failed
<1> USE DEF Goes, IInv, TypeOK, Sequence
<1>1. CASE CreateSeq
  BY <1>1 DEF CreateSeq
<1>2. CASE DeleteSeq
  BY <1>2 DEF DeleteSeq
<1>3. CASE AddFinalizer
  BY <1>3 DEF AddFinalizer, StoreSeq
<1>4. CASE RemoveFinalizer
  BY <1>4 DEF RemoveFinalizer
<1>5. ASSUME NEW idx, NEW phase, NEW requeue, PatchStatus(idx, phase, requeue) PROVE FALSE
  BY <1>5 DEF PatchStatus, StoreSeq
<1> QED BY <1>1, <1>2, <1>3, <1>4, <1>5, SeqChanges

\* A deletion ends only when every pod it has read has lost the gate it was read with.
THEOREM DeletionReleases == Spec => DeletionReleasesRead
<1>1. ASSUME IInv, WInv, [Next]_vars, Goes PROVE \A p \in fresh : pods[p] # "gated"
  BY <1>1, GoesAtTheEnd DEF LoopDone, WInv, PassOK
<1>2. IInv /\ WInv /\ [Next]_vars => [Goes => \A p \in fresh : pods[p] # "gated"]_vars
  BY <1>1
<1> QED BY <1>2, WakeInvariance, PTL DEF Spec, DeletionReleasesRead
=============================================================================
