------------------------ MODULE ClusterSequenceProofs ------------------------
(***************************************************************************)
(* Proofs about ClusterSequence, for every set of pods, number of groups   *)
(* and kind of group.                                                      *)
(***************************************************************************)
EXTENDS ClusterSequence, TLAPS

-----------------------------------------------------------------------------
(* The inductive invariant.                                                *)

\* A copy marked current is the server's object, the index of any other copy is an
\* earlier one, and between two reconciles none is held.
CopiesOK ==
    /\ seqCur => seqCache = seq
    /\ recCur => rec = seq
    /\ stage = "idle" => ~recCur
    /\ seqCache.idx <= seq.idx /\ rec.idx <= seq.idx
    /\ \A p \in podCur : podCache[p] = pods[p]
    /\ \A p \in fresh : pods[p] = "gated"

\* The end of a sequence is final, so a copy that shows it is right.
LifeOK ==
    /\ seqCache.life \in {"deleting", "gone"} => Ended
    /\ stage = "deletion" => Ended

\* What a view of the pods shows to be ready has been ready: pod by pod in a named
\* group, all at once in a selector group.
ShownReady(s) == \A p \in Pod : s[p] = "ready" /\ GroupOf[p] \in Named => p \in wasReady

ShownComplete(s) == \A g \in Group \ Named : Complete(s, g) => g \in wasComplete

WitnessOK ==
    /\ ShownReady(pods) /\ ShownReady(podCache) /\ ShownReady(view)
    /\ ShownComplete(pods) /\ ShownComplete(podCache) /\ ShownComplete(view)

\* Where Reconcile is, and which groups its loops can be at.
PlaceOK ==
    /\ stage \in {"readCurrent", "passed", "prev", "current"} => rec.idx < NumGroups
    /\ stage = "readCurrent" =>
         /\ cursor = rec.idx
         /\ unread \subseteq Members(cursor)
         /\ cursor \notin Named => unread \in {{}, Members(cursor)}
    /\ stage = "passed" => cursor < rec.idx
    /\ stage = "prev" => rec.idx > 0
    /\ stage = "completed" => rec.idx = NumGroups
    /\ stage # "deletion" => \A p \in unread \union todo : GroupOf[p] <= rec.idx

IInv == TypeOK /\ CopiesOK /\ LifeOK /\ WitnessOK /\ PlaceOK /\ IndexJustified

-----------------------------------------------------------------------------
(* What the shared operators of the actions preserve.                      *)

\* The records the actions store for the sequence are sequences.
LEMMA SequenceTypes ==
    /\ Unborn \in Sequence
    /\ \A r \in Sequence :
         /\ \A l \in Life : [r EXCEPT !.life = l] \in Sequence
         /\ [r EXCEPT !.finalizer = TRUE] \in Sequence
         /\ [r EXCEPT !.finalizer = FALSE, !.life = "gone"] \in Sequence
         /\ \A i \in 0 .. NumGroups, ph \in Phase :
              [r EXCEPT !.idx = i, !.phase = ph] \in Sequence
<1>1. Unborn \in Sequence
  BY ConfigAssumption DEF Unborn, Sequence, Life, Phase
<1>2. ASSUME NEW r \in Sequence, NEW l \in Life PROVE [r EXCEPT !.life = l] \in Sequence
  BY DEF Sequence
<1>3. ASSUME NEW r \in Sequence
      PROVE  /\ [r EXCEPT !.finalizer = TRUE] \in Sequence
             /\ [r EXCEPT !.finalizer = FALSE, !.life = "gone"] \in Sequence
  BY DEF Sequence, Life
<1>4. ASSUME NEW r \in Sequence, NEW i \in 0 .. NumGroups, NEW ph \in Phase
      PROVE  [r EXCEPT !.idx = i, !.phase = ph] \in Sequence
  BY DEF Sequence
<1> QED BY <1>1, <1>2, <1>3, <1>4

\* After Return the local variables have their types, and hold nothing.
LEMMA ReturnTypes ==
    ASSUME Return
    PROVE  /\ stage' \in Stage /\ rec' \in Sequence /\ recCur' \in BOOLEAN
           /\ cursor' \in 0 .. NumGroups
           /\ unread' \subseteq Pod /\ todo' \subseteq Pod /\ fresh' \subseteq Pod
           /\ view' \in [Pod -> PodState]
           /\ prevReady' \in BOOLEAN /\ failed' \in BOOLEAN
<1>1. rec' \in Sequence
  BY SequenceTypes DEF Return
<1>2. view' \in [Pod -> PodState]
  BY DEF Return, NoPods, PodState
<1>3. recCur' \in BOOLEAN /\ prevReady' \in BOOLEAN /\ failed' \in BOOLEAN
  BY DEF Return
<1>4. stage' \in Stage /\ cursor' \in 0 .. NumGroups
  BY ConfigAssumption DEF Return, Stage
<1>5. unread' \subseteq Pod /\ todo' \subseteq Pod /\ fresh' \subseteq Pod
  BY DEF Return
<1> QED BY <1>1, <1>2, <1>3, <1>4, <1>5

\* Return leaves the witnesses and the place of the loops in order.
LEMMA ReturnOK ==
    ASSUME IInv, Return, UNCHANGED history,
           pods' = pods, podCache' \in {podCache, pods}
    PROVE  WitnessOK' /\ PlaceOK'
<1>1. WitnessOK'
  BY DEF IInv, WitnessOK, ShownReady, ShownComplete, Complete, AllCreated, Present, Members, Return, NoPods, history
<1>2. PlaceOK'
  BY DEF PlaceOK, Return
<1> QED BY <1>1, <1>2

\* A status write keeps the invariant when it stores the index it read, or the next
\* one for a group that has been ready.
LEMMA PatchStatusOK ==
    ASSUME IInv, NEW idx \in 0 .. NumGroups, NEW phase \in Phase, NEW requeue \in BOOLEAN,
           PatchStatus(idx, phase, requeue),
           \/ idx = rec.idx
           \/ idx = rec.idx + 1 /\ rec.idx < NumGroups /\ Passable(rec.idx)
    PROVE  IInv'
<1> USE ConfigAssumption DEF PatchStatus
<1>1. Return /\ UNCHANGED <<podVars, seqCache, history>>
  OBVIOUS
<1>2. CASE UNCHANGED <<seq, seqCur>>
  <2>1. TypeOK'
    <3>1. queued' \in BOOLEAN
      BY <1>2 DEF IInv, TypeOK
    <3> QED BY <1>1, <1>2, <3>1, ReturnTypes DEF IInv, TypeOK, podVars, history
  <2>2. CopiesOK' /\ LifeOK' /\ IndexJustified'
    BY <1>1, <1>2 DEF IInv, TypeOK, CopiesOK, LifeOK, IndexJustified, Passable, Ended,
                      Return, Unborn, Sequence, podVars, history
  <2> QED BY <1>1, <2>1, <2>2, ReturnOK DEF IInv, podVars
<1>3. CASE recCur /\ StoreSeq([seq EXCEPT !.idx = idx, !.phase = phase])
             /\ queued' \in {queued \/ requeue, TRUE}
  <2>1. seq' = [seq EXCEPT !.idx = idx, !.phase = phase] /\ seqCur' = FALSE
    BY <1>3 DEF StoreSeq
  <2>2. seq \in Sequence /\ rec = seq
    BY <1>3 DEF IInv, TypeOK, CopiesOK
  <2>3. seq'.idx = idx /\ seq'.life = seq.life
    BY <2>1, <2>2 DEF Sequence
  <2>4. TypeOK'
    <3>1. queued' \in BOOLEAN
      BY <1>3 DEF IInv, TypeOK
    <3>2. seq' \in Sequence /\ seqCur' \in BOOLEAN
      BY <2>1, <2>2, SequenceTypes
    <3> QED BY <1>1, <3>1, <3>2, ReturnTypes DEF IInv, TypeOK, podVars, history
  <2>5. CopiesOK' /\ LifeOK'
    BY <1>1, <2>1, <2>2, <2>3 DEF IInv, TypeOK, CopiesOK, LifeOK, Ended, Return, Unborn,
                                  Sequence, podVars
  <2>6. IndexJustified'
    BY <1>1, <2>2, <2>3 DEF IInv, TypeOK, IndexJustified, Passable, Group, Sequence, history
  <2> QED BY <1>1, <2>4, <2>5, <2>6, ReturnOK DEF IInv, podVars
<1> QED BY <1>2, <1>3

-----------------------------------------------------------------------------
(* Steps that change no pod.                                               *)

\* CreateSeq: the index of a sequence that did not exist is 0 already.
LEMMA CreateSeqOK ==
    ASSUME IInv, CreateSeq
    PROVE  IInv'
<1> USE ConfigAssumption
<1>1. TypeOK'
  <2>1. seq' \in Sequence /\ seqCur' \in BOOLEAN /\ recCur' \in BOOLEAN
    BY SequenceTypes DEF IInv, TypeOK, CreateSeq, StoreSeq, Life
  <2> QED BY <2>1 DEF IInv, TypeOK, vars, podVars, seqVars, localVars, loopVars,
     history, CreateSeq
<1>2. CopiesOK'
  BY DEF IInv, TypeOK, Sequence, CopiesOK, Unborn, CreateSeq, StoreSeq, vars,
     podVars, seqVars, localVars, loopVars, history
<1>3. LifeOK'
  BY DEF IInv, LifeOK, CopiesOK, Ended, Unborn, Sequence, TypeOK, CreateSeq,
     StoreSeq, vars, podVars, seqVars, localVars, loopVars, history
<1>4. WitnessOK'
  BY DEF IInv, WitnessOK, ShownReady, ShownComplete, Complete, AllCreated, Present,
     Members, NoPods, TypeOK, PlaceOK, CreateSeq, StoreSeq, vars, podVars, seqVars,
     localVars, loopVars, history
<1>5. PlaceOK'
  BY DEF IInv, PlaceOK, Members, TypeOK, Sequence, Group, CopiesOK, Unborn,
     CreateSeq, StoreSeq, vars, podVars, seqVars, localVars, loopVars, history
<1>6. IndexJustified'
  BY DEF IInv, IndexJustified, Passable, TypeOK, CopiesOK, CreateSeq, StoreSeq,
     vars, podVars, seqVars, localVars, loopVars, history
<1> QED BY <1>1, <1>2, <1>3, <1>4, <1>5, <1>6 DEF IInv

\* DeleteSeq: from here on the sequence has ended.
LEMMA DeleteSeqOK ==
    ASSUME IInv, DeleteSeq
    PROVE  IInv'
<1> USE ConfigAssumption
<1>1. TypeOK'
  <2>1. seq' \in Sequence /\ seqCur' \in BOOLEAN /\ recCur' \in BOOLEAN
    BY SequenceTypes DEF IInv, TypeOK, DeleteSeq, StoreSeq, Life
  <2> QED BY <2>1 DEF IInv, TypeOK, vars, podVars, seqVars, localVars, loopVars,
     history, DeleteSeq
<1>2. CopiesOK'
  BY DEF IInv, TypeOK, Sequence, CopiesOK, Unborn, DeleteSeq, StoreSeq, vars,
     podVars, seqVars, localVars, loopVars, history
<1>3. LifeOK'
  BY DEF IInv, LifeOK, CopiesOK, Ended, Unborn, Sequence, TypeOK, DeleteSeq,
     StoreSeq, vars, podVars, seqVars, localVars, loopVars, history
<1>4. WitnessOK'
  BY DEF IInv, WitnessOK, ShownReady, ShownComplete, Complete, AllCreated, Present,
     Members, NoPods, TypeOK, PlaceOK, DeleteSeq, StoreSeq, vars, podVars, seqVars,
     localVars, loopVars, history
<1>5. PlaceOK'
  BY DEF IInv, PlaceOK, Members, TypeOK, Sequence, Group, CopiesOK, Unborn,
     DeleteSeq, StoreSeq, vars, podVars, seqVars, localVars, loopVars, history
<1>6. IndexJustified'
  BY DEF IInv, IndexJustified, Passable, TypeOK, CopiesOK, DeleteSeq, StoreSeq,
     vars, podVars, seqVars, localVars, loopVars, history
<1> QED BY <1>1, <1>2, <1>3, <1>4, <1>5, <1>6 DEF IInv

\* DeliverPods: the cache shows the server's pods, whose witnesses exist.
LEMMA DeliverPodsOK ==
    ASSUME IInv, DeliverPods
    PROVE  IInv'
<1> USE ConfigAssumption
<1>1. TypeOK'
  BY DEF IInv, TypeOK, Sequence, Life, Phase, Stage, PodState, Members, Group,
     PlaceOK, DeliverPods, vars, podVars, seqVars, localVars, loopVars, history
<1>2. CopiesOK'
  BY DEF IInv, TypeOK, Sequence, CopiesOK, Unborn, DeliverPods, vars, podVars,
     seqVars, localVars, loopVars, history
<1>3. LifeOK'
  BY DEF IInv, LifeOK, CopiesOK, Ended, Unborn, Sequence, TypeOK, DeliverPods, vars,
     podVars, seqVars, localVars, loopVars, history
<1>4. WitnessOK'
  BY DEF IInv, WitnessOK, ShownReady, ShownComplete, Complete, AllCreated, Present,
     Members, NoPods, TypeOK, PlaceOK, DeliverPods, vars, podVars, seqVars,
     localVars, loopVars, history
<1>5. PlaceOK'
  BY DEF IInv, PlaceOK, Members, TypeOK, Sequence, Group, CopiesOK, Unborn,
     DeliverPods, vars, podVars, seqVars, localVars, loopVars, history
<1>6. IndexJustified'
  BY DEF IInv, IndexJustified, Passable, TypeOK, CopiesOK, DeliverPods, vars,
     podVars, seqVars, localVars, loopVars, history
<1> QED BY <1>1, <1>2, <1>3, <1>4, <1>5, <1>6 DEF IInv

\* DeliverSeq: the cached copy is the current one.
LEMMA DeliverSeqOK ==
    ASSUME IInv, DeliverSeq
    PROVE  IInv'
<1> USE ConfigAssumption
<1>1. TypeOK'
  BY DEF IInv, TypeOK, Sequence, Life, Phase, Stage, PodState, Members, Group,
     PlaceOK, DeliverSeq, vars, podVars, seqVars, localVars, loopVars, history
<1>2. CopiesOK'
  BY DEF IInv, TypeOK, Sequence, CopiesOK, Unborn, DeliverSeq, vars, podVars,
     seqVars, localVars, loopVars, history
<1>3. LifeOK'
  BY DEF IInv, LifeOK, CopiesOK, Ended, Unborn, Sequence, TypeOK, DeliverSeq, vars,
     podVars, seqVars, localVars, loopVars, history
<1>4. WitnessOK'
  BY DEF IInv, WitnessOK, ShownReady, ShownComplete, Complete, AllCreated, Present,
     Members, NoPods, TypeOK, PlaceOK, DeliverSeq, vars, podVars, seqVars,
     localVars, loopVars, history
<1>5. PlaceOK'
  BY DEF IInv, PlaceOK, Members, TypeOK, Sequence, Group, CopiesOK, Unborn,
     DeliverSeq, vars, podVars, seqVars, localVars, loopVars, history
<1>6. IndexJustified'
  BY DEF IInv, IndexJustified, Passable, TypeOK, CopiesOK, DeliverSeq, vars,
     podVars, seqVars, localVars, loopVars, history
<1> QED BY <1>1, <1>2, <1>3, <1>4, <1>5, <1>6 DEF IInv

\* Crash: Reconcile's memory is lost and the caches are filled from the server.
LEMMA CrashOK ==
    ASSUME IInv, Crash
    PROVE  IInv'
<1> USE ConfigAssumption
<1>1. TypeOK'
  <2>1. queued' \in BOOLEAN /\ seqCur' \in BOOLEAN
    BY DEF Crash
  <2>2. seqCache' \in Sequence /\ podCache' \in [Pod -> PodState] /\ podCur' \subseteq Pod
    BY DEF IInv, TypeOK, Crash
  <2> QED BY <2>1, <2>2, ReturnTypes DEF IInv, TypeOK, Crash, history
<1>2. CopiesOK'
  BY DEF IInv, TypeOK, Sequence, CopiesOK, Unborn, Crash, Return, vars, podVars,
     seqVars, localVars, loopVars, history
<1>3. LifeOK'
  BY DEF IInv, LifeOK, CopiesOK, Ended, Unborn, Sequence, TypeOK, Crash, Return,
     vars, podVars, seqVars, localVars, loopVars, history
<1>4. WitnessOK'
  BY DEF IInv, WitnessOK, ShownReady, ShownComplete, Complete, AllCreated, Present,
     Members, NoPods, TypeOK, PlaceOK, Crash, Return, vars, podVars, seqVars,
     localVars, loopVars, history
<1>5. PlaceOK'
  BY DEF IInv, PlaceOK, Members, TypeOK, Sequence, Group, CopiesOK, Unborn, Crash,
     Return, vars, podVars, seqVars, localVars, loopVars, history
<1>6. IndexJustified'
  BY DEF IInv, IndexJustified, Passable, TypeOK, CopiesOK, Crash, Return, vars,
     podVars, seqVars, localVars, loopVars, history
<1> QED BY <1>1, <1>2, <1>3, <1>4, <1>5, <1>6 DEF IInv

\* Ignore: the key is dropped.
LEMMA IgnoreOK ==
    ASSUME IInv, Ignore
    PROVE  IInv'
<1> USE ConfigAssumption
<1>1. TypeOK'
  <2>1. queued' \in BOOLEAN
    BY DEF Ignore
  <2> QED BY <2>1 DEF IInv, TypeOK, vars, podVars, seqVars, localVars, loopVars,
     history, Ignore, Dequeue
<1>2. CopiesOK'
  BY DEF IInv, TypeOK, Sequence, CopiesOK, Unborn, Ignore, Dequeue, vars, podVars,
     seqVars, localVars, loopVars, history
<1>3. LifeOK'
  BY DEF IInv, LifeOK, CopiesOK, Ended, Unborn, Sequence, TypeOK, Ignore, Dequeue,
     vars, podVars, seqVars, localVars, loopVars, history
<1>4. WitnessOK'
  BY DEF IInv, WitnessOK, ShownReady, ShownComplete, Complete, AllCreated, Present,
     Members, NoPods, TypeOK, PlaceOK, Ignore, Dequeue, vars, podVars, seqVars,
     localVars, loopVars, history
<1>5. PlaceOK'
  BY DEF IInv, PlaceOK, Members, TypeOK, Sequence, Group, CopiesOK, Unborn, Ignore,
     Dequeue, vars, podVars, seqVars, localVars, loopVars, history
<1>6. IndexJustified'
  BY DEF IInv, IndexJustified, Passable, TypeOK, CopiesOK, Ignore, Dequeue, vars,
     podVars, seqVars, localVars, loopVars, history
<1> QED BY <1>1, <1>2, <1>3, <1>4, <1>5, <1>6 DEF IInv

\* AddFinalizer: life and index of the sequence stay.
LEMMA AddFinalizerOK ==
    ASSUME IInv, AddFinalizer
    PROVE  IInv'
<1> USE ConfigAssumption
<1>0. seq'.idx = seq.idx /\ seq'.life = seq.life /\ ~recCur'
  BY DEF IInv, TypeOK, Sequence, CopiesOK, AddFinalizer, Dequeue, StoreSeq, localVars
<1>1. TypeOK'
  <2>1. queued' \in BOOLEAN /\ seqCur' \in BOOLEAN
    BY DEF IInv, TypeOK, AddFinalizer, StoreSeq
  <2>2. seq' \in Sequence
    BY SequenceTypes DEF IInv, TypeOK, AddFinalizer, StoreSeq
  <2> QED BY <2>1, <2>2 DEF IInv, TypeOK, vars, podVars, seqVars, localVars,
     loopVars, history, AddFinalizer, Dequeue
<1>2. CopiesOK'
  BY <1>0 DEF IInv, TypeOK, Sequence, CopiesOK, AddFinalizer, Dequeue, StoreSeq, vars, podVars, seqVars, localVars, loopVars, history
<1>3. LifeOK'
  BY DEF IInv, LifeOK, CopiesOK, Ended, Unborn, Sequence, TypeOK, AddFinalizer,
     Dequeue, StoreSeq, vars, podVars, seqVars, localVars, loopVars, history
<1>4. WitnessOK'
  BY DEF IInv, WitnessOK, ShownReady, ShownComplete, Complete, AllCreated, Present,
     Members, NoPods, TypeOK, PlaceOK, AddFinalizer, Dequeue, StoreSeq, vars,
     podVars, seqVars, localVars, loopVars, history
<1>5. PlaceOK'
  BY DEF IInv, PlaceOK, Members, TypeOK, Sequence, Group, CopiesOK, Unborn,
     AddFinalizer, Dequeue, StoreSeq, vars, podVars, seqVars, localVars, loopVars,
     history
<1>6. IndexJustified'
  BY <1>0 DEF IInv, IndexJustified, Passable, AddFinalizer, Dequeue, vars, podVars, seqVars, localVars, loopVars, history
<1> QED BY <1>1, <1>2, <1>3, <1>4, <1>5, <1>6 DEF IInv

\* Start: the copy that Reconcile works on is as old as the cached one.
LEMMA StartOK ==
    ASSUME IInv, Start
    PROVE  IInv'
<1> USE ConfigAssumption
<1>1. TypeOK'
  <2>1. queued' \in BOOLEAN /\ recCur' \in BOOLEAN /\ rec' \in Sequence
    BY DEF IInv, TypeOK, Start
  <2>2. stage' \in Stage /\ cursor' \in 0 .. NumGroups /\ unread' \subseteq Pod /\ todo' \subseteq Pod /\ fresh' \subseteq Pod
    BY DEF IInv, TypeOK, Sequence, Start, Read, Stage, Members
  <2> QED BY <2>1, <2>2 DEF IInv, TypeOK, vars, podVars, seqVars, localVars,
     loopVars, history, Start, Dequeue
<1>2. CopiesOK'
  BY DEF IInv, TypeOK, Sequence, CopiesOK, Unborn, Start, Dequeue, Read, vars,
     podVars, seqVars, localVars, loopVars, history
<1>3. LifeOK'
  BY DEF IInv, LifeOK, CopiesOK, Ended, Unborn, Sequence, TypeOK, Start, Dequeue,
     Read, vars, podVars, seqVars, localVars, loopVars, history
<1>4. WitnessOK'
  BY DEF IInv, WitnessOK, ShownReady, ShownComplete, Complete, AllCreated, Present,
     Members, NoPods, TypeOK, PlaceOK, Start, Dequeue, Read, vars, podVars, seqVars,
     localVars, loopVars, history
<1>5. PlaceOK'
  BY DEF IInv, PlaceOK, Members, TypeOK, Sequence, Group, CopiesOK, Unborn, Start,
     Dequeue, Read, vars, podVars, seqVars, localVars, loopVars, history
<1>6. IndexJustified'
  BY DEF IInv, IndexJustified, Passable, TypeOK, CopiesOK, Start, Dequeue, Read,
     vars, podVars, seqVars, localVars, loopVars, history
<1> QED BY <1>1, <1>2, <1>3, <1>4, <1>5, <1>6 DEF IInv

\* ReadCurrent: a selector group is read at once, so what it shows is what the cache shows.
LEMMA ReadCurrentOK ==
    ASSUME IInv, ReadCurrent
    PROVE  IInv'
<1> USE ConfigAssumption
<1>1. TypeOK'
  BY DEF IInv, TypeOK, Sequence, Life, Phase, Stage, PodState, Members, Group,
     PlaceOK, ReadCurrent, Reading, Batch, Gated, vars, podVars, seqVars, localVars,
     loopVars, history
<1>2. CopiesOK'
  BY DEF IInv, TypeOK, Sequence, CopiesOK, Unborn, ReadCurrent, Reading, Batch,
     Gated, vars, podVars, seqVars, localVars, loopVars, history
<1>3. LifeOK'
  BY DEF IInv, LifeOK, CopiesOK, Ended, Unborn, Sequence, TypeOK, ReadCurrent,
     Reading, Batch, Gated, vars, podVars, seqVars, localVars, loopVars, history
<1>4. WitnessOK'
  BY DEF IInv, WitnessOK, ShownReady, ShownComplete, Complete, AllCreated, Present,
     Members, NoPods, TypeOK, PlaceOK, ReadCurrent, Reading, Batch, Gated, vars,
     podVars, seqVars, localVars, loopVars, history
<1>5. PlaceOK'
  BY DEF IInv, PlaceOK, Members, TypeOK, Sequence, Group, CopiesOK, Unborn,
     ReadCurrent, Reading, Batch, Gated, vars, podVars, seqVars, localVars,
     loopVars, history
<1>6. IndexJustified'
  BY DEF IInv, IndexJustified, Passable, TypeOK, CopiesOK, ReadCurrent, Reading,
     Batch, Gated, vars, podVars, seqVars, localVars, loopVars, history
<1> QED BY <1>1, <1>2, <1>3, <1>4, <1>5, <1>6 DEF IInv

\* ReadPrev keeps readiness only.
LEMMA ReadPrevOK ==
    ASSUME IInv, ReadPrev
    PROVE  IInv'
<1> USE ConfigAssumption
<1>1. TypeOK'
  BY DEF IInv, TypeOK, Sequence, Life, Phase, Stage, PodState, Members, Group,
     PlaceOK, ReadPrev, Reading, Batch, vars, podVars, seqVars, localVars, loopVars,
     history
<1>2. CopiesOK'
  BY DEF IInv, TypeOK, Sequence, CopiesOK, Unborn, ReadPrev, Reading, Batch, vars,
     podVars, seqVars, localVars, loopVars, history
<1>3. LifeOK'
  BY DEF IInv, LifeOK, CopiesOK, Ended, Unborn, Sequence, TypeOK, ReadPrev, Reading,
     Batch, vars, podVars, seqVars, localVars, loopVars, history
<1>4. WitnessOK'
  BY DEF IInv, WitnessOK, ShownReady, ShownComplete, Complete, AllCreated, Present,
     Members, NoPods, TypeOK, PlaceOK, ReadPrev, Reading, Batch, vars, podVars,
     seqVars, localVars, loopVars, history
<1>5. PlaceOK'
  BY DEF IInv, PlaceOK, Members, TypeOK, Sequence, Group, CopiesOK, Unborn,
     ReadPrev, Reading, Batch, vars, podVars, seqVars, localVars, loopVars, history
<1>6. IndexJustified'
  BY DEF IInv, IndexJustified, Passable, TypeOK, CopiesOK, ReadPrev, Reading, Batch,
     vars, podVars, seqVars, localVars, loopVars, history
<1> QED BY <1>1, <1>2, <1>3, <1>4, <1>5, <1>6 DEF IInv

\* ReadGated: the pods to release belong to the group the loop is at.
LEMMA ReadGatedOK ==
    ASSUME IInv, ReadGated
    PROVE  IInv'
<1> USE ConfigAssumption
<1>1. TypeOK'
  BY DEF IInv, TypeOK, Sequence, Life, Phase, Stage, PodState, Members, Group,
     PlaceOK, ReadGated, Reading, Batch, Gated, vars, podVars, seqVars, localVars,
     loopVars, history
<1>2. CopiesOK'
  BY DEF IInv, TypeOK, Sequence, CopiesOK, Unborn, ReadGated, Reading, Batch, Gated,
     vars, podVars, seqVars, localVars, loopVars, history
<1>3. LifeOK'
  BY DEF IInv, LifeOK, CopiesOK, Ended, Unborn, Sequence, TypeOK, ReadGated,
     Reading, Batch, Gated, vars, podVars, seqVars, localVars, loopVars, history
<1>4. WitnessOK'
  BY DEF IInv, WitnessOK, ShownReady, ShownComplete, Complete, AllCreated, Present,
     Members, NoPods, TypeOK, PlaceOK, ReadGated, Reading, Batch, Gated, vars,
     podVars, seqVars, localVars, loopVars, history
<1>5. PlaceOK'
  BY DEF IInv, PlaceOK, Members, TypeOK, Sequence, Group, CopiesOK, Unborn,
     ReadGated, Reading, Batch, Gated, vars, podVars, seqVars, localVars, loopVars,
     history
<1>6. IndexJustified'
  BY DEF IInv, IndexJustified, Passable, TypeOK, CopiesOK, ReadGated, Reading,
     Batch, Gated, vars, podVars, seqVars, localVars, loopVars, history
<1> QED BY <1>1, <1>2, <1>3, <1>4, <1>5, <1>6 DEF IInv

\* CurrentRead: the loop over passed groups starts below the index.
LEMMA CurrentReadOK ==
    ASSUME IInv, CurrentRead
    PROVE  IInv'
<1> USE ConfigAssumption
<1>1. TypeOK'
  BY DEF IInv, TypeOK, Sequence, Life, Phase, Stage, PodState, Members, Group,
     PlaceOK, CurrentRead, Reading, Read, BeginCurrent, Gated, vars, podVars,
     seqVars, localVars, loopVars, history
<1>2. CopiesOK'
  BY DEF IInv, TypeOK, Sequence, CopiesOK, Unborn, CurrentRead, Reading, Read,
     BeginCurrent, Gated, vars, podVars, seqVars, localVars, loopVars, history
<1>3. LifeOK'
  BY DEF IInv, LifeOK, CopiesOK, Ended, Unborn, Sequence, TypeOK, CurrentRead,
     Reading, Read, BeginCurrent, Gated, vars, podVars, seqVars, localVars,
     loopVars, history
<1>4. WitnessOK'
  BY DEF IInv, WitnessOK, ShownReady, ShownComplete, Complete, AllCreated, Present,
     Members, NoPods, TypeOK, PlaceOK, CurrentRead, Reading, Read, BeginCurrent,
     Gated, vars, podVars, seqVars, localVars, loopVars, history
<1>5. PlaceOK'
  BY DEF IInv, PlaceOK, Members, TypeOK, Sequence, Group, CopiesOK, Unborn,
     CurrentRead, Reading, Read, BeginCurrent, Gated, vars, podVars, seqVars,
     localVars, loopVars, history
<1>6. IndexJustified'
  BY DEF IInv, IndexJustified, Passable, TypeOK, CopiesOK, CurrentRead, Reading,
     Read, BeginCurrent, Gated, vars, podVars, seqVars, localVars, loopVars, history
<1> QED BY <1>1, <1>2, <1>3, <1>4, <1>5, <1>6 DEF IInv

\* NextPassed: that loop stays below the index.
LEMMA NextPassedOK ==
    ASSUME IInv, NextPassed
    PROVE  IInv'
<1> USE ConfigAssumption
<1>1. TypeOK'
  <2>1. stage' \in Stage /\ unread' \subseteq Pod /\ todo' \subseteq Pod /\ prevReady' \in BOOLEAN
    BY DEF IInv, TypeOK, NextPassed, Read, Stage, Members
  <2>2. cursor' \in 0 .. NumGroups
    BY DEF IInv, TypeOK, PlaceOK, Sequence, NextPassed, LoopDone, Read
  <2> QED BY <2>1, <2>2 DEF IInv, TypeOK, vars, podVars, seqVars, localVars,
     loopVars, history, NextPassed
<1>2. CopiesOK'
  BY DEF IInv, TypeOK, Sequence, CopiesOK, Unborn, NextPassed, LoopDone, Reading,
     Read, vars, podVars, seqVars, localVars, loopVars, history
<1>3. LifeOK'
  BY DEF IInv, LifeOK, CopiesOK, Ended, Unborn, Sequence, TypeOK, NextPassed,
     LoopDone, Reading, Read, vars, podVars, seqVars, localVars, loopVars, history
<1>4. WitnessOK'
  BY DEF IInv, WitnessOK, ShownReady, ShownComplete, Complete, AllCreated, Present,
     Members, NoPods, TypeOK, PlaceOK, NextPassed, LoopDone, Reading, Read, vars,
     podVars, seqVars, localVars, loopVars, history
<1>5. PlaceOK'
  BY DEF IInv, PlaceOK, Members, TypeOK, Sequence, Group, CopiesOK, Unborn,
     NextPassed, LoopDone, Reading, Read, vars, podVars, seqVars, localVars,
     loopVars, history
<1>6. IndexJustified'
  BY DEF IInv, IndexJustified, Passable, TypeOK, CopiesOK, NextPassed, LoopDone,
     Reading, Read, vars, podVars, seqVars, localVars, loopVars, history
<1> QED BY <1>1, <1>2, <1>3, <1>4, <1>5, <1>6 DEF IInv

\* PrevIsReady: the pods to release belong to the current group.
LEMMA PrevIsReadyOK ==
    ASSUME IInv, PrevIsReady
    PROVE  IInv'
<1> USE ConfigAssumption
<1>1. TypeOK'
  BY DEF IInv, TypeOK, Sequence, Life, Phase, Stage, PodState, Members, Group,
     PlaceOK, PrevIsReady, LoopDone, Reading, BeginCurrent, Gated, vars, podVars,
     seqVars, localVars, loopVars, history
<1>2. CopiesOK'
  BY DEF IInv, TypeOK, Sequence, CopiesOK, Unborn, PrevIsReady, LoopDone, Reading,
     BeginCurrent, Gated, vars, podVars, seqVars, localVars, loopVars, history
<1>3. LifeOK'
  BY DEF IInv, LifeOK, CopiesOK, Ended, Unborn, Sequence, TypeOK, PrevIsReady,
     LoopDone, Reading, BeginCurrent, Gated, vars, podVars, seqVars, localVars,
     loopVars, history
<1>4. WitnessOK'
  BY DEF IInv, WitnessOK, ShownReady, ShownComplete, Complete, AllCreated, Present,
     Members, NoPods, TypeOK, PlaceOK, PrevIsReady, LoopDone, Reading, BeginCurrent,
     Gated, vars, podVars, seqVars, localVars, loopVars, history
<1>5. PlaceOK'
  BY DEF IInv, PlaceOK, Members, TypeOK, Sequence, Group, CopiesOK, Unborn,
     PrevIsReady, LoopDone, Reading, BeginCurrent, Gated, vars, podVars, seqVars,
     localVars, loopVars, history
<1>6. IndexJustified'
  BY DEF IInv, IndexJustified, Passable, TypeOK, CopiesOK, PrevIsReady, LoopDone,
     Reading, BeginCurrent, Gated, vars, podVars, seqVars, localVars, loopVars,
     history
<1> QED BY <1>1, <1>2, <1>3, <1>4, <1>5, <1>6 DEF IInv

\* NextCompleted: every group is below the index of a completed sequence.
LEMMA NextCompletedOK ==
    ASSUME IInv, NextCompleted
    PROVE  IInv'
<1> USE ConfigAssumption
<1>1. TypeOK'
  BY DEF IInv, TypeOK, Sequence, Life, Phase, Stage, PodState, Members, Group,
     PlaceOK, NextCompleted, LoopDone, Reading, Read, vars, podVars, seqVars,
     localVars, loopVars, history
<1>2. CopiesOK'
  BY DEF IInv, TypeOK, Sequence, CopiesOK, Unborn, NextCompleted, LoopDone, Reading,
     Read, vars, podVars, seqVars, localVars, loopVars, history
<1>3. LifeOK'
  BY DEF IInv, LifeOK, CopiesOK, Ended, Unborn, Sequence, TypeOK, NextCompleted,
     LoopDone, Reading, Read, vars, podVars, seqVars, localVars, loopVars, history
<1>4. WitnessOK'
  BY DEF IInv, WitnessOK, ShownReady, ShownComplete, Complete, AllCreated, Present,
     Members, NoPods, TypeOK, PlaceOK, NextCompleted, LoopDone, Reading, Read, vars,
     podVars, seqVars, localVars, loopVars, history
<1>5. PlaceOK'
  BY DEF IInv, PlaceOK, Members, TypeOK, Sequence, Group, CopiesOK, Unborn,
     NextCompleted, LoopDone, Reading, Read, vars, podVars, seqVars, localVars,
     loopVars, history
<1>6. IndexJustified'
  BY DEF IInv, IndexJustified, Passable, TypeOK, CopiesOK, NextCompleted, LoopDone,
     Reading, Read, vars, podVars, seqVars, localVars, loopVars, history
<1> QED BY <1>1, <1>2, <1>3, <1>4, <1>5, <1>6 DEF IInv

\* RetryDeletion changes no object.
LEMMA RetryDeletionOK ==
    ASSUME IInv, RetryDeletion
    PROVE  IInv'
<1> USE ConfigAssumption
<1>1. TypeOK'
  <2>1. queued' \in BOOLEAN
    BY DEF RetryDeletion
  <2> QED BY <2>1, ReturnTypes DEF IInv, TypeOK, RetryDeletion, podVars, seqVars,
     history
<1>2. CopiesOK'
  BY DEF IInv, TypeOK, Sequence, CopiesOK, Unborn, RetryDeletion, Return, vars,
     podVars, seqVars, localVars, loopVars, history
<1>3. LifeOK'
  BY DEF IInv, LifeOK, CopiesOK, Ended, Unborn, Sequence, TypeOK, RetryDeletion,
     Return, vars, podVars, seqVars, localVars, loopVars, history
<1>4. WitnessOK'
  BY DEF IInv, WitnessOK, ShownReady, ShownComplete, Complete, AllCreated, Present,
     Members, NoPods, TypeOK, PlaceOK, RetryDeletion, Return, vars, podVars,
     seqVars, localVars, loopVars, history
<1>5. PlaceOK'
  BY DEF IInv, PlaceOK, Members, TypeOK, Sequence, Group, CopiesOK, Unborn,
     RetryDeletion, Return, vars, podVars, seqVars, localVars, loopVars, history
<1>6. IndexJustified'
  BY DEF IInv, IndexJustified, Passable, TypeOK, CopiesOK, RetryDeletion, Return,
     vars, podVars, seqVars, localVars, loopVars, history
<1> QED BY <1>1, <1>2, <1>3, <1>4, <1>5, <1>6 DEF IInv

\* RemoveFinalizer: the sequence ends, its index stays.
LEMMA RemoveFinalizerOK ==
    ASSUME IInv, RemoveFinalizer
    PROVE  IInv'
<1> USE ConfigAssumption
<1>0. seq'.idx = seq.idx
  BY DEF IInv, TypeOK, Sequence, RemoveFinalizer, StoreSeq
<1>1. TypeOK'
  <2>1. queued' \in BOOLEAN /\ seqCur' \in BOOLEAN
    BY DEF IInv, TypeOK, RemoveFinalizer, StoreSeq
  <2>2. seq' \in Sequence
    BY SequenceTypes DEF IInv, TypeOK, RemoveFinalizer, StoreSeq
  <2> QED BY <2>1, <2>2, ReturnTypes DEF IInv, TypeOK, RemoveFinalizer, podVars,
     history
<1>2. CopiesOK'
  <2>1. seqCur' => seqCache' = seq'
    BY DEF IInv, CopiesOK, RemoveFinalizer, StoreSeq
  <2>2. rec'.idx = 0 /\ ~recCur' /\ fresh' = {}
    BY DEF RemoveFinalizer, Return, Unborn
  <2>3. seqCache'.idx <= seq'.idx /\ 0 <= seq'.idx
    BY <1>0 DEF IInv, TypeOK, Sequence, CopiesOK, RemoveFinalizer
  <2>4. \A p \in podCur' : podCache'[p] = pods'[p]
    BY DEF IInv, CopiesOK, RemoveFinalizer, podVars
  <2> QED BY <2>1, <2>2, <2>3, <2>4 DEF CopiesOK
<1>3. LifeOK'
  BY DEF IInv, LifeOK, CopiesOK, Ended, Unborn, Sequence, TypeOK, RemoveFinalizer,
     LoopDone, Return, StoreSeq, vars, podVars, seqVars, localVars, loopVars,
     history
<1>4. WitnessOK'
  BY DEF IInv, WitnessOK, ShownReady, ShownComplete, Complete, AllCreated, Present,
     Members, NoPods, TypeOK, PlaceOK, RemoveFinalizer, LoopDone, Return, StoreSeq,
     vars, podVars, seqVars, localVars, loopVars, history
<1>5. PlaceOK'
  BY DEF IInv, PlaceOK, Members, TypeOK, Sequence, Group, CopiesOK, Unborn,
     RemoveFinalizer, LoopDone, Return, StoreSeq, vars, podVars, seqVars, localVars,
     loopVars, history
<1>6. IndexJustified'
  BY <1>0 DEF IInv, IndexJustified, Passable, RemoveFinalizer, vars, podVars, seqVars, localVars, loopVars, history
<1> QED BY <1>1, <1>2, <1>3, <1>4, <1>5, <1>6 DEF IInv

\* The status writes: the group passed by Advance was complete in the view it was
\* evaluated on.
LEMMA StatusOK ==
    ASSUME IInv,
           \/ RejectSelector \/ PrevNotReady \/ WaitForGroup \/ RejectWait
           \/ HoldForWait \/ Advance \/ FinishCompleted
    PROVE  IInv'
<1> USE ConfigAssumption
<1>1. /\ rec.idx \in 0 .. NumGroups /\ failed \in BOOLEAN
      /\ {"InProgress", "Failed", "Completed"} \subseteq Phase
  BY DEF IInv, TypeOK, Sequence, Phase
<1>2. CASE Advance
  <2>1. LoopDone("current") /\ Complete(view, rec.idx)
    BY <1>2 DEF Advance
  <2>2. rec.idx < NumGroups
    BY <2>1 DEF IInv, PlaceOK, LoopDone
  <2>3. Passable(rec.idx)
    BY <1>1, <2>1, <2>2 DEF IInv, WitnessOK, ShownReady, ShownComplete, Passable,
       Complete, AllCreated, Present, Members, Group
  <2>4. rec.idx + 1 \in 0 .. NumGroups
    BY <1>1, <2>2
  <2>5. PatchStatus(rec.idx + 1, "InProgress", TRUE)
    BY <1>2 DEF Advance
  <2> QED BY <1>1, <2>2, <2>3, <2>4, <2>5, PatchStatusOK
<1>3. CASE \/ RejectSelector \/ PrevNotReady \/ WaitForGroup \/ RejectWait
           \/ HoldForWait \/ FinishCompleted
  <2>1. \E phase \in Phase, requeue \in BOOLEAN : PatchStatus(rec.idx, phase, requeue)
    BY <1>1, <1>3 DEF RejectSelector, PrevNotReady, WaitForGroup, RejectWait, HoldForWait,
                      FinishCompleted
  <2> QED BY <1>1, <2>1, PatchStatusOK
<1> QED BY <1>2, <1>3

-----------------------------------------------------------------------------
(* Steps that change a pod, or release one.                                *)

\* A stored pod keeps the witnesses: they only grow, and they cover the new state.
LEMMA StorePodOK ==
    ASSUME IInv, NEW p \in Pod, NEW s \in PodState, StorePod(p, s)
    PROVE  /\ pods' \in [Pod -> PodState] /\ podCur' \subseteq Pod
           /\ wasReady' \subseteq Pod /\ wasComplete' \subseteq Group
           /\ wasReady \subseteq wasReady' /\ wasComplete \subseteq wasComplete'
           /\ ShownReady(pods)' /\ ShownComplete(pods)'
           /\ \A q \in Pod : q # p => pods'[q] = pods[q]
           /\ \A q \in podCur' : q # p /\ q \in podCur
<1> USE ConfigAssumption
<1>1. /\ pods' \in [Pod -> PodState] /\ podCur' \subseteq Pod
      /\ wasReady' \subseteq Pod /\ wasComplete' \subseteq Group
      /\ wasReady \subseteq wasReady' /\ wasComplete \subseteq wasComplete'
      /\ \A q \in Pod : q # p => pods'[q] = pods[q]
      /\ \A q \in podCur' : q # p /\ q \in podCur
  BY DEF IInv, TypeOK, StorePod
<1>2. ShownReady(pods)'
  BY <1>1 DEF IInv, TypeOK, WitnessOK, ShownReady, StorePod
<1>3. ShownComplete(pods)'
  <2> SUFFICES ASSUME NEW g \in Group \ Named, Complete(pods', g) PROVE g \in wasComplete'
    BY DEF ShownComplete, Complete, AllCreated, Present, Members
  <2>1. CASE g = GroupOf[p]
    BY <2>1 DEF StorePod
  <2>2. CASE g # GroupOf[p]
    BY <1>1, <2>2 DEF IInv, WitnessOK, ShownComplete, Complete, AllCreated, Present, Members
  <2> QED BY <2>1, <2>2
<1> QED BY <1>1, <1>2, <1>3

\* Witnesses that grow keep what they justify.
LEMMA PassableKept ==
    ASSUME wasReady \subseteq wasReady', wasComplete \subseteq wasComplete',
           NEW g \in Group, Passable(g)
    PROVE  Passable(g)'
BY DEF Passable, Members

\* ... and every view that has not changed.
LEMMA ShownKept ==
    ASSUME WitnessOK, wasReady \subseteq wasReady', wasComplete \subseteq wasComplete'
    PROVE  /\ podCache' = podCache => ShownReady(podCache)' /\ ShownComplete(podCache)'
           /\ view' = view => ShownReady(view)' /\ ShownComplete(view)'
           /\ view' = NoPods => ShownReady(view)' /\ ShownComplete(view)'
<1>1. ASSUME podCache' = podCache PROVE ShownReady(podCache)' /\ ShownComplete(podCache)'
  BY <1>1 DEF WitnessOK, ShownReady, ShownComplete, Complete, AllCreated, Present, Members
<1>2. ASSUME view' = view PROVE ShownReady(view)' /\ ShownComplete(view)'
  BY <1>2 DEF WitnessOK, ShownReady, ShownComplete, Complete, AllCreated, Present, Members
<1>3. ASSUME view' = NoPods PROVE ShownReady(view)' /\ ShownComplete(view)'
  BY <1>3 DEF NoPods, ShownReady, ShownComplete, Complete, AllCreated, Present, Members
<1> QED BY <1>1, <1>2, <1>3

\* A pod shown without its gate makes no group complete.
LEMMA UngatedView ==
    ASSUME IInv, NEW p \in Pod,
           wasReady \subseteq wasReady', wasComplete \subseteq wasComplete',
           view' = IF stage = "current" THEN [view EXCEPT ![p] = "pending"] ELSE view
    PROVE  ShownReady(view)' /\ ShownComplete(view)' /\ view' \in [Pod -> PodState]
<1>1. view' \in [Pod -> PodState] /\ ShownReady(view)'
  BY DEF IInv, TypeOK, PodState, WitnessOK, ShownReady
<1>2. ShownComplete(view)'
  <2> SUFFICES ASSUME NEW g \in Group \ Named, Complete(view', g) PROVE g \in wasComplete'
    BY DEF ShownComplete, Complete, AllCreated, Present, Members
  <2>1. CASE view' = view
    BY <2>1 DEF IInv, WitnessOK, ShownComplete, Complete, AllCreated, Present, Members
  <2>2. CASE view' = [view EXCEPT ![p] = "pending"]
    <3>1. GroupOf[p] # g
      BY <2>2 DEF IInv, TypeOK, Complete, Present, Members
    <3>2. \A q \in Members(g) : view'[q] = view[q]
      BY <2>2, <3>1 DEF IInv, TypeOK, Members
    <3> QED BY <3>2 DEF IInv, WitnessOK, ShownComplete, Complete, AllCreated, Present, Members
  <2> QED BY <2>1, <2>2
<1> QED BY <1>1, <1>2

\* Users and the kubelet change a pod under the controller's feet.
LEMMA PodChangeOK ==
    ASSUME IInv, NEW p \in Pod, NEW s \in PodState, PodChange(p, s)
    PROVE  IInv'
<1> USE ConfigAssumption
<1>1. StorePod(p, s) /\ fresh' = fresh \ {p}
  BY DEF PodChange
<1>2. TypeOK'
  BY <1>1, StorePodOK DEF IInv, TypeOK, PodChange, seqVars
<1>3. CopiesOK' /\ LifeOK'
  BY <1>1, StorePodOK DEF IInv, TypeOK, CopiesOK, LifeOK, Ended, PodChange, seqVars
<1>4. WitnessOK'
  BY <1>1, StorePodOK, ShownKept DEF IInv, WitnessOK, PodChange
<1>5. PlaceOK'
  BY DEF IInv, PlaceOK, Members, PodChange
<1>6. IndexJustified'
  BY <1>1, StorePodOK, PassableKept DEF IInv, IndexJustified, PodChange, seqVars
<1> QED BY <1>2, <1>3, <1>4, <1>5, <1>6 DEF IInv

\* An error that ends the reconcile, or is collected.
LEMMA OnErrorOK ==
    ASSUME IInv, NEW p \in Pod, NEW f \in SUBSET Pod, OnError(p, f)
    PROVE  /\ stage' \in Stage /\ rec' \in Sequence /\ recCur' \in BOOLEAN
           /\ queued' \in BOOLEAN /\ cursor' \in 0 .. NumGroups
           /\ unread' \subseteq Pod /\ todo' \subseteq Pod /\ fresh' \subseteq Pod
           /\ view' \in [Pod -> PodState]
           /\ prevReady' \in BOOLEAN /\ failed' \in BOOLEAN
           /\ fresh' \in {{}, f}
           /\ \/ rec' = Unborn /\ recCur' = FALSE
              \/ UNCHANGED <<stage, rec, recCur>>
           /\ stage' \in {"idle", stage}
           /\ view' = view \/ view' = NoPods
           /\ PlaceOK'
<1>1. CASE Return /\ queued' = TRUE
  BY <1>1, ReturnTypes DEF Return, PlaceOK
<1>2. CASE /\ stage \in {"completed", "deletion"}
           /\ todo' = todo \ {p} /\ failed' = TRUE /\ fresh' = f
           /\ UNCHANGED <<queued, stage, rec, recCur, cursor, unread, view, prevReady>>
  BY <1>2 DEF IInv, TypeOK, PlaceOK, Members
<1> QED BY <1>1, <1>2 DEF OnError

\* A patch that fails without effect.
LEMMA RemoveGateFailsOK ==
    ASSUME IInv, NEW p \in Pod, RemoveGateConflict(p) \/ RemoveGateError(p)
    PROVE  IInv'
<1>1. OnError(p, fresh) /\ UNCHANGED <<podVars, seqVars, history>>
  BY DEF RemoveGateConflict, RemoveGateError
<1>2. fresh \in SUBSET Pod
  BY DEF IInv, TypeOK
<1>3. TypeOK'
  BY <1>1, <1>2, OnErrorOK DEF IInv, TypeOK, podVars, seqVars, history
<1>4. CopiesOK'
  <2>1. rec'.idx <= seq'.idx
    <3>1. seq' = seq /\ rec.idx <= seq.idx /\ 0 <= seq.idx
      BY <1>1 DEF IInv, TypeOK, Sequence, CopiesOK, seqVars
    <3>2. rec' = Unborn \/ rec' = rec
      BY <1>1, <1>2, OnErrorOK
    <3> QED BY <3>1, <3>2 DEF Unborn
  <2>2. (recCur' => rec' = seq') /\ (stage' = "idle" => ~recCur')
    BY <1>1, <1>2, OnErrorOK DEF IInv, CopiesOK, seqVars, OnError, Return
  <2> QED BY <1>1, <1>2, <2>1, <2>2, OnErrorOK DEF IInv, CopiesOK, podVars, seqVars
<1>5. LifeOK'
  BY <1>1, <1>2, OnErrorOK DEF IInv, LifeOK, Ended, seqVars
<1>6. WitnessOK'
  BY <1>1, <1>2, OnErrorOK, ShownKept DEF IInv, WitnessOK, ShownReady, ShownComplete,
     Complete, AllCreated, Present, Members, podVars, history
<1>7. PlaceOK'
  BY <1>1, <1>2, OnErrorOK
<1>8. IndexJustified'
  BY <1>1 DEF IInv, IndexJustified, Passable, seqVars, history
<1> QED BY <1>3, <1>4, <1>5, <1>6, <1>7, <1>8 DEF IInv

\* A patch that takes effect while its answer is lost.
LEMMA RemoveGateLostReplyOK ==
    ASSUME IInv, NEW p \in Pod, RemoveGateLostReply(p)
    PROVE  IInv'
<1>1. /\ StorePod(p, "pending") /\ OnError(p, fresh \ {p})
      /\ UNCHANGED <<podCache, seqVars>>
      /\ "pending" \in PodState
  BY DEF RemoveGateLostReply, PodState
<1>2. fresh \ {p} \in SUBSET Pod
  BY DEF IInv, TypeOK
<1>3. TypeOK'
  BY <1>1, <1>2, OnErrorOK, StorePodOK DEF IInv, TypeOK, seqVars
<1>4. CopiesOK'
  <2>1. rec'.idx <= seq'.idx
    <3>1. seq' = seq /\ rec.idx <= seq.idx /\ 0 <= seq.idx
      BY <1>1 DEF IInv, TypeOK, Sequence, CopiesOK, seqVars
    <3>2. rec' = Unborn \/ rec' = rec
      BY <1>1, <1>2, OnErrorOK
    <3> QED BY <3>1, <3>2 DEF Unborn
  <2>2. (recCur' => rec' = seq') /\ (stage' = "idle" => ~recCur')
    BY <1>1, <1>2, OnErrorOK DEF IInv, CopiesOK, seqVars, OnError, Return
  <2>3. \A q \in fresh' : pods'[q] = "gated"
    BY <1>1, <1>2, OnErrorOK, StorePodOK DEF IInv, TypeOK, CopiesOK
  <2>4. \A q \in podCur' : podCache'[q] = pods'[q]
    BY <1>1, StorePodOK DEF IInv, TypeOK, CopiesOK
  <2> QED BY <1>1, <2>1, <2>2, <2>3, <2>4 DEF IInv, CopiesOK, seqVars
<1>5. LifeOK'
  BY <1>1, <1>2, OnErrorOK DEF IInv, LifeOK, Ended, seqVars
<1>6. WitnessOK'
  BY <1>1, <1>2, OnErrorOK, StorePodOK, ShownKept DEF IInv, WitnessOK
<1>7. PlaceOK'
  BY <1>1, <1>2, OnErrorOK
<1>8. IndexJustified'
  BY <1>1, StorePodOK, PassableKept DEF IInv, IndexJustified, seqVars
<1> QED BY <1>3, <1>4, <1>5, <1>6, <1>7, <1>8 DEF IInv

\* A patch that takes effect.
LEMMA RemoveGateOK ==
    ASSUME IInv, NEW p \in Pod, RemoveGate(p)
    PROVE  IInv'
<1>1. StorePod(p, "pending") /\ "pending" \in PodState
  BY DEF RemoveGate, PodState
<1>2. ShownReady(view)' /\ ShownComplete(view)' /\ view' \in [Pod -> PodState]
  BY <1>1, StorePodOK, UngatedView DEF RemoveGate
<1>3. TypeOK'
  BY <1>1, <1>2, StorePodOK DEF IInv, TypeOK, RemoveGate, seqVars
<1>4. CopiesOK' /\ LifeOK'
  BY <1>1, StorePodOK DEF IInv, TypeOK, CopiesOK, LifeOK, Ended, RemoveGate, seqVars
<1>5. WitnessOK'
  BY <1>1, <1>2, StorePodOK, ShownKept DEF IInv, WitnessOK, RemoveGate
<1>6. PlaceOK'
  BY DEF IInv, PlaceOK, Members, RemoveGate
<1>7. IndexJustified'
  BY <1>1, StorePodOK, PassableKept DEF IInv, IndexJustified, RemoveGate, seqVars
<1> QED BY <1>3, <1>4, <1>5, <1>6, <1>7 DEF IInv

\* A patch for a pod that is gone.
LEMMA RemoveGateNotFoundOK ==
    ASSUME IInv, NEW p \in Pod, RemoveGateNotFound(p)
    PROVE  IInv'
<1>1. UNCHANGED history
  BY DEF RemoveGateNotFound
<1>2. ShownReady(view)' /\ ShownComplete(view)' /\ view' \in [Pod -> PodState]
  BY <1>1, UngatedView DEF RemoveGateNotFound, history
<1>3. TypeOK'
  BY <1>2 DEF IInv, TypeOK, RemoveGateNotFound, podVars, seqVars, history
<1>4. CopiesOK' /\ LifeOK'
  BY DEF IInv, TypeOK, CopiesOK, LifeOK, Ended, RemoveGateNotFound, podVars, seqVars
<1>5. WitnessOK'
  BY <1>1, <1>2, ShownKept DEF IInv, WitnessOK, ShownReady, ShownComplete, Complete,
     AllCreated, Present, Members, RemoveGateNotFound, podVars, history
<1>6. PlaceOK'
  BY DEF IInv, PlaceOK, Members, RemoveGateNotFound
<1>7. IndexJustified'
  BY DEF IInv, IndexJustified, Passable, RemoveGateNotFound, seqVars, history
<1> QED BY <1>3, <1>4, <1>5, <1>6, <1>7 DEF IInv

-----------------------------------------------------------------------------
(* The theorems.                                                           *)

\* Nothing has happened yet.
LEMMA InitOK == Init => IInv
<1> SUFFICES ASSUME Init PROVE IInv
  OBVIOUS
<1> USE ConfigAssumption
<1>1. TypeOK
  <2>1. NoPods \in [Pod -> PodState] /\ Unborn \in Sequence
    BY SequenceTypes DEF NoPods, PodState
  <2>2. stage \in Stage /\ cursor \in 0 .. NumGroups
    BY DEF Init, Stage
  <2> QED BY <2>1, <2>2 DEF Init, TypeOK
<1>2. CopiesOK /\ LifeOK /\ PlaceOK /\ IndexJustified
  BY DEF Init, CopiesOK, LifeOK, PlaceOK, IndexJustified, Unborn, Group
<1>3. WitnessOK
  BY DEF Init, WitnessOK, ShownReady, ShownComplete, Complete, AllCreated, Present, Members, NoPods
<1> QED BY <1>1, <1>2, <1>3 DEF IInv

\* Every step keeps the invariant.
LEMMA StepOK == IInv /\ [Next]_vars => IInv'
<1> SUFFICES ASSUME IInv, [Next]_vars PROVE IInv'
  OBVIOUS
<1>1. CASE Environment
  <2>1. ASSUME NEW p \in Pod, NEW s \in PodState, PodChange(p, s) PROVE IInv'
    BY <2>1, PodChangeOK
  <2>2. {"absent", "pending", "ready", "finished"} \subseteq PodState
    BY DEF PodState
  <2> QED BY <1>1, <2>1, <2>2, CreateSeqOK, DeleteSeqOK
          DEF Environment, Create, Delete, BecomeReady, BecomeUnready, Finish
<1>2. CASE \E p \in Pod : Release(p)
  BY <1>2, RemoveGateOK, RemoveGateNotFoundOK, RemoveGateFailsOK, RemoveGateLostReplyOK
     DEF Release
<1>3. CASE DeliverPods \/ DeliverSeq \/ Crash
  BY <1>3, DeliverPodsOK, DeliverSeqOK, CrashOK
<1>4. CASE Reconcile /\ ~\E p \in Pod : Release(p)
  BY <1>4, IgnoreOK, AddFinalizerOK, StartOK, ReadCurrentOK, ReadPrevOK, ReadGatedOK,
     CurrentReadOK, NextPassedOK, PrevIsReadyOK, NextCompletedOK, RetryDeletionOK,
     RemoveFinalizerOK, StatusOK
     DEF Reconcile
<1>5. CASE UNCHANGED vars
  <2>1. TypeOK'
    BY <1>5 DEF IInv, TypeOK, vars, podVars, seqVars, localVars, loopVars, history
  <2>2. CopiesOK' /\ LifeOK' /\ PlaceOK' /\ IndexJustified'
    BY <1>5 DEF IInv, CopiesOK, LifeOK, Ended, PlaceOK, Members, IndexJustified, Passable,
                vars, podVars, seqVars, localVars, loopVars, history
  <2>3. WitnessOK'
    BY <1>5 DEF IInv, WitnessOK, ShownReady, ShownComplete, Complete, AllCreated, Present,
                Members, vars, podVars, localVars, loopVars, history
  <2> QED BY <2>1, <2>2, <2>3 DEF IInv
<1> QED BY <1>1, <1>2, <1>3, <1>4, <1>5 DEF Next

\* The inductive invariant holds in every reachable state.
THEOREM Invariance == Spec => []IInv
BY InitOK, StepOK, PTL DEF Spec

\* Every variable keeps its type, for every number of pods and groups.
THEOREM TypeCorrect == Spec => []TypeOK
<1>1. IInv => TypeOK
  BY DEF IInv
<1> QED BY <1>1, Invariance, PTL

\* status.currentIndex never runs ahead of what has been seen ready.
THEOREM IndexIsJustified == Spec => []IndexJustified
<1>1. IInv => IndexJustified
  BY DEF IInv
<1> QED BY <1>1, Invariance, PTL

-----------------------------------------------------------------------------
(* What a step can do to the pods and to the sequence.                     *)

\* Pods and witnesses change only through users, the kubelet and a gate patch.
LEMMA PodFrame ==
    ASSUME [Next]_vars
    PROVE  \/ UNCHANGED <<pods, history>>
           \/ \E p \in Pod, s \in {"gated", "pending"} : Create(p, s)
           \/ \E p \in Pod : Delete(p) \/ BecomeReady(p) \/ BecomeUnready(p) \/ Finish(p)
           \/ \E p \in Pod : RemoveGate(p) \/ RemoveGateLostReply(p)
<1>1. CASE Environment
  <2>1. ASSUME NEW p \in Pod, NEW s \in PodState, Create(p, s)
        PROVE  s \in {"gated", "pending"} /\ Create(p, s)
    BY <2>1 DEF Create
  <2>2. ASSUME CreateSeq \/ DeleteSeq PROVE UNCHANGED <<pods, history>>
    BY <2>2 DEF CreateSeq, DeleteSeq, podVars
  <2> QED BY <1>1, <2>1, <2>2 DEF Environment
<1>2. CASE \E p \in Pod : Release(p)
  BY <1>2 DEF Release, RemoveGateNotFound, RemoveGateConflict, RemoveGateError, podVars
<1>3. CASE DeliverPods \/ DeliverSeq \/ Crash
  BY <1>3 DEF DeliverPods, DeliverSeq, Crash, podVars
<1>4. CASE Reconcile /\ ~\E p \in Pod : Release(p)
  BY <1>4 DEF Reconcile, Ignore, AddFinalizer, Start, Dequeue, ReadCurrent, ReadPrev,
     ReadGated, RejectSelector, CurrentRead, NextPassed, PrevIsReady, PrevNotReady,
     WaitForGroup, RejectWait, HoldForWait, Advance, NextCompleted, FinishCompleted,
     RetryDeletion, RemoveFinalizer, PatchStatus, podVars
<1>5. CASE UNCHANGED vars
  BY <1>5 DEF vars, podVars
<1> QED BY <1>1, <1>2, <1>3, <1>4, <1>5 DEF Next

\* Of the sequence, a status write changes the index only.
LEMMA PatchStatusFrame ==
    ASSUME IInv, NEW idx \in Nat, NEW phase, NEW requeue, PatchStatus(idx, phase, requeue)
    PROVE  /\ seq'.life = seq.life
           /\ seq'.idx = seq.idx \/ (rec = seq /\ seq'.idx = idx)
<1>1. CASE seq' = seq
  BY <1>1
<1>2. CASE recCur /\ seq' = [seq EXCEPT !.idx = idx, !.phase = phase]
  BY <1>2 DEF IInv, TypeOK, Sequence, CopiesOK
<1> QED BY <1>1, <1>2 DEF PatchStatus, StoreSeq

\* The index moves by one, past a group that has been ready, and the end is final.
LEMMA SeqFrame ==
    ASSUME IInv, [Next]_vars
    PROVE  \/ /\ seq'.idx = seq.idx
              /\ Ended' = Ended \/ Ended'
           \/ /\ seq'.idx = seq.idx + 1 /\ Ended' = Ended
              /\ Passable(seq.idx) /\ seq.idx \in Group
              /\ UNCHANGED <<pods, history>>
<1> USE ConfigAssumption
<1>1. CASE Advance
  <2>1. rec.idx \in Group /\ rec.idx + 1 \in Nat
    BY <1>1 DEF IInv, TypeOK, Sequence, PlaceOK, Advance, LoopDone, Group
  <2>2. Passable(rec.idx)
    BY <1>1, <2>1 DEF IInv, WitnessOK, ShownReady, ShownComplete, Passable, Complete,
       AllCreated, Present, Members, Advance
  <2>3. PatchStatus(rec.idx + 1, "InProgress", TRUE)
    BY <1>1 DEF Advance
  <2>4. UNCHANGED <<pods, history>>
    BY <2>3 DEF PatchStatus, podVars
  <2>5. Ended' = Ended /\ (seq'.idx = seq.idx \/ (rec = seq /\ seq'.idx = rec.idx + 1))
    BY <2>1, <2>3, PatchStatusFrame DEF Ended
  <2> QED BY <2>1, <2>2, <2>4, <2>5
<1>2. CASE \/ RejectSelector \/ PrevNotReady \/ WaitForGroup \/ RejectWait
           \/ HoldForWait \/ FinishCompleted
  <2>1. \E phase, requeue : PatchStatus(rec.idx, phase, requeue)
    BY <1>2 DEF RejectSelector, PrevNotReady, WaitForGroup, RejectWait, HoldForWait,
                FinishCompleted
  <2>2. rec.idx \in Nat
    BY DEF IInv, TypeOK, Sequence
  <2> QED BY <2>1, <2>2, PatchStatusFrame DEF Ended
<1>3. CASE CreateSeq \/ DeleteSeq \/ AddFinalizer \/ RemoveFinalizer
  <2>1. seq \in Sequence
    BY DEF IInv, TypeOK
  <2>2. CASE CreateSeq
    BY <2>1, <2>2 DEF CreateSeq, StoreSeq, Sequence, Ended
  <2>3. CASE DeleteSeq
    BY <2>1, <2>3 DEF DeleteSeq, StoreSeq, Sequence, Ended
  <2>4. CASE AddFinalizer
    BY <2>1, <2>4 DEF AddFinalizer, StoreSeq, Sequence, Ended
  <2>5. CASE RemoveFinalizer
    BY <2>1, <2>5 DEF RemoveFinalizer, StoreSeq, Sequence, Ended
  <2> QED BY <1>3, <2>2, <2>3, <2>4, <2>5
<1>4. CASE seq' = seq
  BY <1>4 DEF Ended
<1>5. CASE \E p \in Pod : Release(p)
  BY <1>4, <1>5 DEF Release, RemoveGate, RemoveGateNotFound, RemoveGateConflict,
     RemoveGateError, RemoveGateLostReply, seqVars
<1>6. CASE \E p \in Pod, s \in PodState : PodChange(p, s)
  BY <1>4, <1>6 DEF PodChange, seqVars
<1>7. CASE \/ DeliverPods \/ DeliverSeq \/ Crash \/ Ignore \/ Start \/ ReadCurrent
           \/ ReadPrev \/ ReadGated \/ CurrentRead \/ NextPassed \/ PrevIsReady
           \/ NextCompleted \/ RetryDeletion \/ UNCHANGED vars
  BY <1>4, <1>7 DEF DeliverPods, DeliverSeq, Crash, Ignore, Start, ReadCurrent, ReadPrev,
     ReadGated, CurrentRead, NextPassed, PrevIsReady, NextCompleted, RetryDeletion, seqVars,
     vars
<1> QED
  <2>1. {"absent", "pending", "ready", "finished"} \subseteq PodState
    BY DEF PodState
  <2> QED BY <1>1, <1>2, <1>3, <1>5, <1>6, <1>7, <2>1 DEF Next, Environment, Reconcile,
          Create, Delete, BecomeReady, BecomeUnready, Finish

-----------------------------------------------------------------------------
(* The order is kept.                                                      *)

\* What the loops release is in order.
LEMMA ReleaseInOrder ==
    ASSUME IInv, NEW p \in Pod, p \in todo
    PROVE  Ended \/ ReleasedInOrder(p)
<1> USE ConfigAssumption
<1>1. CASE stage = "deletion"
  BY <1>1 DEF IInv, LifeOK
<1>2. CASE stage # "deletion"
  <2>1. GroupOf[p] <= rec.idx /\ rec.idx <= seq.idx
    BY <1>2 DEF IInv, PlaceOK, CopiesOK
  <2>2. GroupOf[p] \in Nat /\ rec.idx \in Nat /\ seq.idx \in Nat /\ Group \subseteq Nat
    BY DEF IInv, TypeOK, Sequence, Group
  <2> QED BY <2>1, <2>2 DEF IInv, IndexJustified, ReleasedInOrder, EarlierPassable
<1> QED BY <1>1, <1>2

\* No pod is released early, however old the caches are and whatever fails.
THEOREM NoPodReleasedEarly == Spec => NoEarlyRelease
<1>1. ASSUME IInv, [Next]_vars, NEW p \in Pod, Released(p)
      PROVE  ReleasedInOrder(p) \/ Ended
  <2>1. pods[p] = "gated" /\ pods'[p] = "pending" /\ pods \in [Pod -> PodState]
    BY <1>1 DEF Released, IInv, TypeOK
  <2>2. PICK q \in Pod : RemoveGate(q) \/ RemoveGateLostReply(q)
    <3>1. ASSUME NEW q \in Pod, NEW s \in {"gated", "pending"}, Create(q, s) PROVE FALSE
      BY <2>1, <3>1 DEF Create, PodChange, StorePod
    <3>2. ASSUME NEW q \in Pod,
                 Delete(q) \/ BecomeReady(q) \/ BecomeUnready(q) \/ Finish(q)
          PROVE  FALSE
      BY <2>1, <3>2 DEF Delete, BecomeReady, BecomeUnready, Finish, PodChange, StorePod
    <3> QED BY <1>1, <2>1, <3>1, <3>2, PodFrame
  <2>3. p = q
    BY <2>1, <2>2 DEF RemoveGate, RemoveGateLostReply, StorePod
  <2> QED BY <1>1, <2>2, <2>3, ReleaseInOrder DEF RemoveGate, RemoveGateLostReply, Releasing
<1>2. IInv /\ [Next]_vars => [\A p \in Pod : Released(p) => ReleasedInOrder(p) \/ Ended]_vars
  BY <1>1
<1> QED BY <1>2, Invariance, PTL DEF Spec, NoEarlyRelease

\* The index moves one group at a time, and never back.
THEOREM IndexMovesByOne == Spec => OneGroupAtATime
<1>1. IInv /\ [Next]_vars => [seq'.idx \in {seq.idx, seq.idx + 1}]_vars
  BY SeqFrame
<1> QED BY <1>1, Invariance, PTL DEF Spec, OneGroupAtATime

\* A stored pod proves its own group, if any.
LEMMA StoreProves ==
    ASSUME NEW p \in Pod, NEW s, StorePod(p, s)
    PROVE  Proven' \in {Proven, Proven \union {GroupOf[p]}}
<1>1. \A g \in Group : g # GroupOf[p] => (Passable(g)' <=> Passable(g))
  BY DEF StorePod, Passable, Members
<1>2. GroupOf[p] \in Group
  BY ConfigAssumption
<1>3. Passable(GroupOf[p]) => Passable(GroupOf[p])'
  BY DEF StorePod, Passable, Members
<1> QED BY <1>1, <1>2, <1>3 DEF Proven, Group

\* Every step of the controller and its world is a step of OrderedRelease.
LEMMA StepRefines ==
    ASSUME IInv, [Next]_vars
    PROVE  [Ordered!Next]_(Ordered!vars)
<1> DEFINE Mapped(s) == IF s \in {"absent", "gated"} THEN s ELSE "free"
<1>1. CASE UNCHANGED <<pods, history>>
  <2>1. OrderedPod' = OrderedPod /\ Proven' = Proven
    BY <1>1 DEF OrderedPod, Proven, Passable, Members, history
  <2>2. CASE seq'.idx = seq.idx /\ Ended' = Ended
    BY <2>1, <2>2 DEF Ordered!vars
  <2>3. CASE seq'.idx = seq.idx /\ Ended'
    <3>1. Ended' = TRUE
      BY <2>3 DEF Ended
    <3> QED BY <2>1, <2>3, <3>1 DEF Ordered!Next, Ordered!End
  <2>4. CASE /\ seq'.idx = seq.idx + 1 /\ Ended' = Ended
             /\ Passable(seq.idx) /\ seq.idx \in Group
    <3>1. seq.idx \in Proven
      BY <2>4 DEF Proven
    <3> QED BY <2>1, <2>4, <3>1 DEF Ordered!Next, Ordered!Pass
  <2> QED BY <2>2, <2>3, <2>4, SeqFrame
<1>2. ASSUME NEW p \in Pod, NEW s \in PodState, StorePod(p, s), UNCHANGED seqVars
      PROVE  /\ OrderedPod' = [OrderedPod EXCEPT ![p] = Mapped(s)]
             /\ OrderedPod[p] = Mapped(pods[p])
             /\ Ordered!Proves(p)
             /\ seq' = seq /\ Ended' = Ended
  <2>1. OrderedPod' = [OrderedPod EXCEPT ![p] = Mapped(s)] /\ OrderedPod[p] = Mapped(pods[p])
    BY <1>2 DEF IInv, TypeOK, StorePod, OrderedPod
  <2>2. Ordered!Proves(p)
    BY <1>2, StoreProves DEF Ordered!Proves
  <2> QED BY <1>2, <2>1, <2>2 DEF seqVars, Ended
<1>3. ASSUME NEW p \in Pod, NEW s \in {"gated", "pending"}, Create(p, s)
      PROVE  Ordered!Next
  <2>1. StorePod(p, s) /\ UNCHANGED seqVars /\ s \in PodState /\ pods[p] = "absent"
    BY <1>3 DEF Create, PodChange, PodState
  <2>2. Ordered!Arrive(p)
    BY <1>2, <2>1 DEF Ordered!Arrive
  <2> QED BY <2>2 DEF Ordered!Next
<1>4. ASSUME NEW p \in Pod, Delete(p) PROVE Ordered!Next
  <2>1. StorePod(p, "absent") /\ UNCHANGED seqVars /\ "absent" \in PodState
    BY <1>4 DEF Delete, PodChange, PodState
  <2>2. Ordered!Leave(p)
    BY <1>2, <2>1 DEF Ordered!Leave
  <2> QED BY <2>2 DEF Ordered!Next
<1>5. ASSUME NEW p \in Pod, BecomeReady(p) \/ BecomeUnready(p) \/ Finish(p)
      PROVE  Ordered!Next
  <2>1. PICK s \in {"pending", "ready", "finished"} : StorePod(p, s)
    BY <1>5 DEF BecomeReady, BecomeUnready, Finish, PodChange
  <2>2. UNCHANGED seqVars /\ s \in PodState /\ Mapped(pods[p]) = "free"
    BY <1>5 DEF BecomeReady, BecomeUnready, Finish, PodChange, PodState
  <2>3. OrderedPod' = [OrderedPod EXCEPT ![p] = "free"] /\ OrderedPod[p] = "free"
    BY <1>2, <2>1, <2>2
  <2>4. OrderedPod' = OrderedPod
    BY <2>3 DEF OrderedPod
  <2>5. Ordered!Run(p)
    BY <1>2, <2>1, <2>2, <2>3, <2>4 DEF Ordered!Run
  <2> QED BY <2>5 DEF Ordered!Next
<1>6. ASSUME NEW p \in Pod, RemoveGate(p) \/ RemoveGateLostReply(p) PROVE Ordered!Next
  <2>1. /\ StorePod(p, "pending") /\ UNCHANGED seqVars /\ "pending" \in PodState
        /\ p \in todo /\ p \in fresh
    BY <1>6 DEF RemoveGate, RemoveGateLostReply, Releasing, PodState
  <2>2. pods[p] = "gated" /\ (GroupOf[p] <= seq.idx \/ Ended)
    BY <2>1, ReleaseInOrder DEF IInv, CopiesOK, ReleasedInOrder
  <2>3. Ordered!Release(p)
    BY <1>2, <2>1, <2>2 DEF Ordered!Release
  <2> QED BY <2>3 DEF Ordered!Next
<1> QED BY <1>1, <1>3, <1>4, <1>5, <1>6, PodFrame

\* The controller implements OrderedRelease.
THEOREM OrderKept == Spec => KeepsOrder
<1>1. Init => Ordered!Init
  <2> SUFFICES ASSUME Init PROVE Ordered!Init
    OBVIOUS
  <2>1. OrderedPod = [p \in Pod |-> "absent"] /\ seq.idx = 0 /\ Ended = FALSE
    BY DEF Init, OrderedPod, NoPods, Unborn, Ended
  <2>2. Proven = {}
    BY ConfigAssumption DEF Init, Proven, Passable, Members
  <2> QED BY <2>1, <2>2 DEF Ordered!Init
<1>2. IInv /\ [Next]_vars => [Ordered!Next]_(Ordered!vars)
  BY StepRefines
<1> QED BY <1>1, <1>2, Invariance, PTL DEF Spec, KeepsOrder, Ordered!Spec

=============================================================================
