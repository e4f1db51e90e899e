--------------------------- MODULE MCNodeSequence ---------------------------
(* Instances of NodeSequence for TLC: one node n1; DaemonSets dA (group 0) *)
(* and dB (group 1) with the pods a and b, and a pod u of group 1 that the *)
(* scheduler places.                                                       *)
EXTENDS NodeSequence, TLC

CONSTANTS a, b, u, n1, dA, dB

MCMatches == [p \in Pod |-> IF p = a THEN {0} ELSE {1}]
MCTerms   == [p \in Pod |-> IF p = u THEN {} ELSE {n1}]
MCOwner   == [p \in Pod |-> IF p = a THEN dA ELSE IF p = b THEN dB ELSE None]
MCSelects == [d \in DaemonSet |-> IF d = dA THEN {0} ELSE {1}]
Anywhere  == [d \in DaemonSet |-> Node]
Tolerant  == [d \in DaemonSet |-> {"own", "transient"}]
NoWait    == [g \in Group |-> 0]
=============================================================================
