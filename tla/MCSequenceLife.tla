---------------------------- MODULE MCSequenceLife ----------------------------
(* An instance of SequenceLife for TLC: one pod p1 and one node n1.         *)
EXTENDS SequenceLife, TLC

CONSTANTS p1, n1
=============================================================================
