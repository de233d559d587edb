-------------------------- MODULE MCDispatchQueue --------------------------
(***************************************************************************)
(* Instances of DispatchQueue for TLC.  Every .cfg that names this module  *)
(* picks its constants from the definitions below.                         *)
(***************************************************************************)
EXTENDS DispatchQueue, TLC

CONSTANTS c1, c2, t1, t2, t3, f, q, p

NoTargets == [x \in Queues |-> NoQueue]
QToP == {<<q, p>>}
ToPAndBack == {<<q, p>>, <<q, NoQueue>>}
NoPairs == {}

OneFunc == [t \in Tasks |-> f]

NeverSuspended == [x \in Queues |-> 0]
SuspendP == [x \in Queues |-> IF x = p THEN 1 ELSE 0]

Barriers == {"run_async", "barrier_async", "barrier_sync"}
SyncAfter == {"run_sync", "after"}

(* Tasks of one callable are interchangeable.                                  *)
TaskSymmetry == Permutations(Tasks)
=============================================================================
