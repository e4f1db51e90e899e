---------------------------- MODULE MCNodeRounds ----------------------------
(* Instances of NodeRounds for TLC: DaemonSets dA (group 0) and dB (group  *)
(* 1) with the pods a1, a2, b1 and b2 on nodes n1 and n2, a pod u of group *)
(* 1 and a pod w of group 0 that the scheduler places, and a stray x.      *)
EXTENDS NodeRounds, TLC

CONSTANTS a1, a2, b1, b2, u, w, x, n1, n2, dA, dB

MCMatches == [p \in Pod |-> IF p \in {a1, a2, w} THEN {0} ELSE IF p = x THEN {} ELSE {1}]
MCTerms   == [p \in Pod |-> IF p \in {a1, b1} THEN {n1}
                            ELSE IF p \in {a2, b2} THEN {n2} ELSE {}]
MCOwner   == [p \in Pod |-> IF p \in {a1, a2} THEN dA ELSE IF p \in {b1, b2} THEN dB ELSE None]
MCSelects == [d \in DaemonSet |-> IF d = dA THEN {0} ELSE {1}]
Anywhere  == [d \in DaemonSet |-> Node]

TolerateOwn    == [d \in DaemonSet |-> {"own", "transient"}]
OnlyBTolerates == [d \in DaemonSet |-> IF d = dB THEN {"own", "transient"} ELSE {}]

FirstWaits    == [g \in Group |-> IF g = 0 THEN 2 ELSE 0]
FirstWaitsOne == [g \in Group |-> IF g = 0 THEN 1 ELSE 0]

Labels == [method : {"NodeLabel"}, valid : {TRUE}]
Taints == [method : {"Taint"}, valid : {TRUE}]
Valid  == [method : Methods, valid : {TRUE}]
All    == [method : Methods, valid : BOOLEAN]
=============================================================================
