--------------------------- MODULE OrderedRelease ---------------------------
(***************************************************************************)
(* What a cluster-scoped PodSequence promises, without the controller, its *)
(* caches or its work queue: the pods of a group stay gated until every    *)
(* earlier group has been seen ready, groups are passed one at a time and  *)
(* in order, and only the end of the sequence (its deletion) lifts the     *)
(* order.                                                                  *)
(***************************************************************************)
EXTENDS Naturals

CONSTANTS
    Pod,        \* the pods that may come and go
    NumGroups,  \* how many groups the sequence has
    GroupOf     \* the group a pod belongs to

VARIABLES
    pod,        \* "absent", "gated" or "free", for each pod
    proven,     \* groups that have been ready
    passed,     \* how many groups the sequence has passed
    ended       \* the sequence is being deleted, or is gone

vars == <<pod, proven, passed, ended>>

Group == 0 .. NumGroups - 1

Init ==
    /\ pod = [p \in Pod |-> "absent"]
    /\ proven = {}
    /\ passed = 0
    /\ ended = FALSE

\* A change to a pod can make its own group ready, and nothing else: a group
\* that has been ready once stays proven.
Proves(p) == proven' \in {proven, proven \union {GroupOf[p]}}

Arrive(p) ==
    /\ pod[p] = "absent"
    /\ \E s \in {"gated", "free"} : pod' = [pod EXCEPT ![p] = s]
    /\ Proves(p)
    /\ UNCHANGED <<passed, ended>>

Leave(p) ==
    /\ pod' = [pod EXCEPT ![p] = "absent"]
    /\ Proves(p)
    /\ UNCHANGED <<passed, ended>>

\* A pod that runs becomes ready, and may be the last of its group to do so.
Run(p) ==
    /\ pod[p] = "free"
    /\ Proves(p)
    /\ UNCHANGED <<pod, passed, ended>>

\* The order: a pod is released once every earlier group has been passed.
Release(p) ==
    /\ pod[p] = "gated"
    /\ GroupOf[p] <= passed \/ ended
    /\ pod' = [pod EXCEPT ![p] = "free"]
    /\ Proves(p)
    /\ UNCHANGED <<passed, ended>>

\* One group at a time, and only a group that has been ready.
Pass ==
    /\ passed \in proven
    /\ passed' = passed + 1
    /\ UNCHANGED <<pod, proven, ended>>

End ==
    /\ ended' = TRUE
    /\ UNCHANGED <<pod, proven, passed>>

Next ==
    \/ \E p \in Pod : Arrive(p) \/ Leave(p) \/ Run(p) \/ Release(p)
    \/ Pass
    \/ End

Spec == Init /\ [][Next]_vars
=============================================================================
