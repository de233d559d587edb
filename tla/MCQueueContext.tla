--------------------------- MODULE MCQueueContext ---------------------------
(* Instances of QueueContext for TLC. *)
EXTENDS QueueContext

CONSTANTS c1, c2, q, r
=============================================================================
