----------------------------- MODULE MCWorkloop -----------------------------
(* Instances of Workloop for TLC. *)
EXTENDS Workloop

CONSTANTS c1, c2, t1, t2, t3
=============================================================================
