--------------------------- MODULE QueueContract ---------------------------
(***************************************************************************)
(* What a dispatch queue promises to the Python code that uses it: the     *)
(* abstract specification behind cygcd's Queue methods (docstrings of      *)
(* Queue, run_async, run_sync, barrier_async, barrier_sync, after).        *)
(*                                                                         *)
(* A task is requested by a method call, accepted by the queue, runs once  *)
(* and is done.  A task never starts before the tasks it must follow, and  *)
(* never beside a task of the same queue that excludes it.  There are no   *)
(* threads, interpreter lock, suspension or native queue here.             *)
(***************************************************************************)
CONSTANTS Tasks, Queues, SerialQueues, GlobalQueues, NoQueue, NoMethod

VARIABLES
    status,     \* status[t]: "new", "requested", "accepted", "running", "done"
    where,      \* where[t]: the queue t was submitted to
    how,        \* how[t]: the Queue method that submitted it
    preds       \* preds[t]: the tasks of its queue accepted before t was requested

vars == <<status, where, how, preds>>

TaskMethods == {"run_async", "run_sync", "barrier_async", "barrier_sync", "after"}
BarrierMethods == {"barrier_async", "barrier_sync"}

(* On one queue two tasks exclude each other when the queue is serial, or when *)
(* one of them is a barrier and the queue is one the program created.          *)
Conflict(t, u) ==
    /\ where[t] = where[u]
    /\ \/ where[t] \in SerialQueues
       \/ where[t] \notin GlobalQueues /\ {how[t], how[u]} \cap BarrierMethods # {}

Init ==
    /\ status = [t \in Tasks |-> "new"]
    /\ where = [t \in Tasks |-> NoQueue]
    /\ how = [t \in Tasks |-> NoMethod]
    /\ preds = [t \in Tasks |-> {}]

Request(t, q, m) ==
    /\ status[t] = "new"
    /\ status' = [status EXCEPT ![t] = "requested"]
    /\ where' = [where EXCEPT ![t] = q]
    /\ how' = [how EXCEPT ![t] = m]
    /\ preds' = [preds EXCEPT ![t] =
           {u \in Tasks : m # "after" /\ where[u] = q
                          /\ status[u] \in {"accepted", "running", "done"}}]

Accept(t) ==
    /\ status[t] = "requested"
    /\ status' = [status EXCEPT ![t] = "accepted"]
    /\ UNCHANGED <<where, how, preds>>

Start(t) ==
    /\ status[t] = "accepted"
    /\ \A u \in preds[t] : Conflict(u, t) => status[u] = "done"
    /\ \A u \in Tasks : status[u] = "running" => ~Conflict(u, t)
    /\ status' = [status EXCEPT ![t] = "running"]
    /\ UNCHANGED <<where, how, preds>>

Finish(t) ==
    /\ status[t] = "running"
    /\ status' = [status EXCEPT ![t] = "done"]
    /\ UNCHANGED <<where, how, preds>>

Next ==
    \E t \in Tasks :
        \/ \E q \in Queues, m \in TaskMethods : Request(t, q, m)
        \/ Accept(t)
        \/ Start(t)
        \/ Finish(t)

Spec == Init /\ [][Next]_vars

-----------------------------------------------------------------------------
(* What a program may conclude from the contract: tasks that exclude each other   *)
(* never run at once ...                                                          *)
Exclusive ==
    \A t, u \in Tasks :
        t # u /\ status[t] = "running" /\ status[u] = "running" => ~Conflict(t, u)

(* ... and one that has started found those of its predecessors done that it      *)
(* conflicts with.                                                                *)
Ordered ==
    \A t \in Tasks : status[t] \in {"running", "done"} =>
        \A u \in preds[t] : Conflict(u, t) => status[u] = "done"
=============================================================================
