-------------------------- MODULE MCDispatchSource --------------------------
(* An instance of DispatchSource for TLC. *)
EXTENDS DispatchSource

CONSTANTS c1, c2, s1, h1

SharedHandler == [s \in Sources |-> h1]
=============================================================================
