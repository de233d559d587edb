-------------------------- MODULE MCQueueSpecific --------------------------
(* Instances of QueueSpecific for TLC: queue q targets r, and the key objects *)
(* k and l have the same address.                                             *)
EXTENDS QueueSpecific, TLC

CONSTANTS c1, c2, q, r, k, l, v1, v2

Targets == [p \in Queues |-> IF p = q THEN <<q, r>> ELSE <<r>>]
SameAddress == [j \in Keys |-> 1]
(* Threads, values and the two keys, whose address is the same, are alike. *)
Alike == Permutations(Clients) \cup Permutations(Values) \cup Permutations(Keys)
=============================================================================
