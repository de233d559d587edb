---------------------------- MODULE MCGroupWork ----------------------------
(* Instances of GroupWork for TLC. *)
EXTENDS GroupWork

CONSTANTS c1, c2, t1, t2, m, n
=============================================================================
