-------------------------- MODULE MCClusterSequence --------------------------
(* Instances of ClusterSequence for TLC: pods a, b and c, spread over two  *)
(* or three groups.                                                        *)
EXTENDS ClusterSequence, TLC

CONSTANTS a, b, c

OneOne     == (a :> 0) @@ (b :> 1)
TwoOne     == (a :> 0) @@ (b :> 0) @@ (c :> 1)
OneOneOne  == (a :> 0) @@ (b :> 1) @@ (c :> 2)

NoWait      == [g \in Group |-> "none"]
AllWait     == [g \in Group |-> "positive"]
LastInvalid == [g \in Group |-> IF g = NumGroups - 1 THEN "invalid" ELSE "none"]
=============================================================================
