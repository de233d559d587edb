--------------------------- MODULE DispatchQueue ---------------------------
(***************************************************************************)
(* The Queue class of cygcd (src/src/cygcd/_core.pyx) over libdispatch.    *)
(*                                                                         *)
(* Contexts are the Python threads of the program (Clients) and the        *)
(* callables that libdispatch is running (Tasks).  A context executes      *)
(* Python only while it holds the interpreter lock `gil`.  Every Queue     *)
(* method takes a reference on the callable under that lock, gives the     *)
(* lock up ("with nogil") and makes one libdispatch call; libdispatch      *)
(* calls the trampoline _python_callback on a thread of its own, which     *)
(* waits for the lock, runs the callable and drops the reference.          *)
(*                                                                         *)
(* libdispatch is not part of the repository: NativeEnqueue, AfterFires    *)
(* and NativeInvoke model what _core.pyx relies on it to do.               *)
(***************************************************************************)
EXTENDS Integers, FiniteSets

CONSTANTS
    Clients,        \* Python threads
    Tasks,          \* submissions: one call of a Queue method with a callable
    Queues,         \* Queue objects, global queues included
    Funcs, Func,    \* callables, and the callable of each task
    Concurrent,     \* queues created with concurrent=True, and the global ones
    Global,         \* queues returned by global_queue(): not owned
    InitInactive,   \* queues created with inactive=True
    InitTarget,     \* target given to the constructor, or NoQueue
    Retargets,      \* <<q, p>>: the program may call q.set_target_queue(p), p a queue or
                    \* NoQueue for None
    Methods,        \* the submitting methods the program uses
    SyncFrom,       \* <<q, p>>: a task on q may call run_sync/barrier_sync on p
    Droppable,      \* queues whose wrapper the program may let go
    MaxSuspend,     \* MaxSuspend[q]: bound on nested suspensions of q
    NoQueue, NoMethod, Free

AllMethods == {"run_async", "run_sync", "barrier_async", "barrier_sync", "after"}

ASSUME FiniteAssumption == IsFiniteSet(Tasks) /\ IsFiniteSet(Queues)
ASSUME FuncAssumption == Func \in [Tasks -> Funcs]
ASSUME QueueAssumption ==
    /\ Global \subseteq Concurrent /\ Concurrent \subseteq Queues
    /\ InitInactive \subseteq Queues \ Global
    /\ InitTarget \in [Queues -> Queues \cup {NoQueue}]
    /\ Retargets \subseteq (Queues \ Global) \X (Queues \cup {NoQueue})
    /\ SyncFrom \subseteq Queues \X Queues
    /\ NoQueue \notin Queues
ASSUME MethodAssumption == Methods \subseteq AllMethods /\ NoMethod \notin AllMethods
ASSUME BoundAssumption == MaxSuspend \in [Queues -> Nat] /\ Droppable \subseteq Queues
ASSUME ContextAssumption ==
    /\ Free \notin Clients \cup Tasks
    /\ Clients \cap Tasks = {}
    /\ Tasks \cap Queues = {} /\ NoQueue \notin Tasks

VARIABLES
    gil,        \* the context that holds the interpreter lock, or Free
    call,       \* call[c]: the libdispatch call c is in the middle of
    alive,      \* alive[q]: the Queue wrapper object exists
    inactive,   \* inactive[q]: its _inactive flag
    active,     \* active[q]: the native queue has been activated
    suspends,   \* suspends[q]: suspension count of the native queue
    target,     \* target[q]: target of the native queue, or NoQueue
    phase,      \* phase[t]: where the submission is
    at, kind,   \* at[t], kind[t]: queue and method it was submitted with
    ahead,      \* ahead[t]: unfinished items of the queue when t was enqueued
    before,     \* history: tasks already enqueued when t's method was called
    refs,       \* refs[f]: reference count of callable f
    pyref       \* pyref[f]: the program itself still refers to f

Ctx == Clients \cup Tasks
NoCall == [op |-> "none", on |-> NoQueue, arg |-> NoQueue]

vars == <<gil, call, alive, inactive, active, suspends, target,
          phase, at, kind, ahead, before, refs, pyref>>
wrapperVars == <<alive, inactive>>
nativeVars == <<active, suspends, target>>
taskVars == <<phase, at, kind, ahead, before>>
refVars == <<refs, pyref>>

-----------------------------------------------------------------------------
(* Definitions named ..._Wrong are deliberately faulty variants of the one that *)
(* follows: each breaks a property below, which shows what the property is for. *)

(* The libdispatch function behind each method, and what it implies. *)

(* barrier_async and run_async copied from each other. *)
Primitive_BarrierWrong(m) ==
    CASE m \in {"run_async", "barrier_async"} -> "dispatch_async_f"
      [] m = "run_sync"      -> "dispatch_sync_f"
      [] m = "barrier_sync"  -> "dispatch_barrier_sync_f"
      [] m = "after"         -> "dispatch_after_f"

Primitive(m) ==
    CASE m = "run_async"     -> "dispatch_async_f"
      [] m = "run_sync"      -> "dispatch_sync_f"
      [] m = "barrier_async" -> "dispatch_barrier_async_f"
      [] m = "barrier_sync"  -> "dispatch_barrier_sync_f"
      [] m = "after"         -> "dispatch_after_f"

Synchronous(m) == Primitive(m) \in {"dispatch_sync_f", "dispatch_barrier_sync_f"}
NativeBarrier(t) ==
    Primitive(kind[t]) \in {"dispatch_barrier_async_f", "dispatch_barrier_sync_f"}

(* The two branches of the attribute swapped. *)
NativeSerial_Wrong(q) == q \in Concurrent

(* The attribute passed to dispatch_queue_create. *)
NativeSerial(q) == q \notin Concurrent

(* q with all its direct and indirect targets. *)
Up(q) == {p \in Queues :
            \A S \in SUBSET Queues :
               (q \in S /\ \A r \in S : target[r] \in S \cup {NoQueue}) => p \in S}

Open(q) == \A p \in Up(q) : active[p] /\ suspends[p] = 0

InFlight == {"held", "delayed", "queued", "invoked", "running"}
Enqueued == {"queued", "invoked", "running"}
Executing == {"invoked", "running"}

(* Items of the same queue that libdispatch never runs side by side. *)
NativeConflict(t, u) ==
    /\ at[t] = at[u]
    /\ \/ NativeSerial(at[t])
       \/ at[t] \notin Global /\ (NativeBarrier(t) \/ NativeBarrier(u))

(* Whether an executing u keeps t from being invoked, through a shared target. *)
Excludes(u, t) ==
    \E p \in Up(at[u]) \cap Up(at[t]) :
        \/ NativeSerial(p)
        \/ p \notin Global /\ at[u] = p /\ NativeBarrier(u)
        \/ p \notin Global /\ at[t] = p /\ NativeBarrier(t)

-----------------------------------------------------------------------------
Init ==
    /\ gil = Free
    /\ call = [c \in Ctx |-> NoCall]
    /\ alive = [q \in Queues |-> TRUE]
    /\ inactive = [q \in Queues |-> q \in InitInactive]
    /\ active = [q \in Queues |-> q \notin InitInactive]
    /\ suspends = [q \in Queues |-> 0]
    /\ target = InitTarget
    /\ phase = [t \in Tasks |-> "new"]
    /\ at = [t \in Tasks |-> NoQueue]
    /\ kind = [t \in Tasks |-> NoMethod]
    /\ ahead = [t \in Tasks |-> {}]
    /\ before = [t \in Tasks |-> {}]
    /\ refs = [f \in Funcs |-> 1]
    /\ pyref = [f \in Funcs |-> TRUE]

-----------------------------------------------------------------------------
(* The interpreter lock. *)

Runnable(c) == c \in Tasks => phase[c] = "running"

(* A libdispatch call that is over: the context only needs the lock to go on.   *)
Returning == {"none", "activated"}

(* Steps of Python code, which need the lock, outside any libdispatch call. *)
InPython(c) == gil = c /\ Runnable(c) /\ call[c] = NoCall

TakeGIL(c) ==
    /\ gil = Free
    /\ Runnable(c)
    /\ call[c].op \in Returning
    /\ gil' = c
    /\ UNCHANGED <<call, wrapperVars, nativeVars, taskVars, refVars>>

(* The interpreter's switch interval: a context may lose the lock between steps. *)
DropGIL(c) ==
    /\ gil = c /\ Runnable(c) /\ call[c].op \in Returning
    /\ gil' = Free
    /\ UNCHANGED <<call, wrapperVars, nativeVars, taskVars, refVars>>

(* The call made without "with nogil". *)
EnterNative_Wrong(c, op, q, x) ==
    /\ gil' = gil
    /\ call' = [call EXCEPT ![c] = [op |-> op, on |-> q, arg |-> x]]

EnterNative(c, op, q, x) ==
    /\ gil' = Free
    /\ call' = [call EXCEPT ![c] = [op |-> op, on |-> q, arg |-> x]]

LeaveNative(c) == call' = [call EXCEPT ![c] = NoCall]

Pending(op, q) == Cardinality({d \in Ctx : call[d].op = op /\ call[d].on = q})

-----------------------------------------------------------------------------
(* run_async, run_sync, barrier_async, barrier_sync, after: up to "with nogil". *)

MaySync(c, q) == c \in Tasks => <<at[c], q>> \in SyncFrom

(* Without Py_INCREF(func). *)
Submit_Wrong(c, q, t, m) ==
    /\ InPython(c)
    /\ phase[t] = "new"
    /\ alive[q] /\ pyref[Func[t]]
    /\ m \in Methods
    /\ Synchronous(m) => MaySync(c, q)
    /\ phase' = [phase EXCEPT ![t] = "held"]
    /\ at' = [at EXCEPT ![t] = q]
    /\ kind' = [kind EXCEPT ![t] = m]
    /\ UNCHANGED before
    /\ EnterNative(c, "submit", q, t)
    /\ UNCHANGED <<wrapperVars, nativeVars, ahead, refVars>>

Submit(c, q, t, m) ==
    /\ InPython(c)
    /\ phase[t] = "new"
    /\ alive[q] /\ pyref[Func[t]]
    /\ m \in Methods
    /\ \A d \in Ctx : call[d].op = "retarget" => call[d].on \notin Up(q)
    /\ Synchronous(m) => MaySync(c, q)
    /\ refs' = [refs EXCEPT ![Func[t]] = @ + 1]
    /\ phase' = [phase EXCEPT ![t] = "held"]
    /\ at' = [at EXCEPT ![t] = q]
    /\ kind' = [kind EXCEPT ![t] = m]
    /\ before' = [before EXCEPT ![t] =
           {u \in Tasks : m # "after" /\ at[u] = q /\ phase[u] \in Enqueued \cup {"done"}}]
    /\ EnterNative(c, "submit", q, t)
    /\ UNCHANGED <<wrapperVars, nativeVars, ahead, pyref>>

(* The items of t's queue that libdispatch puts t behind. *)
Behind(t) == {u \in Tasks : at[u] = at[t] /\ phase[u] \in Enqueued}

(* The libdispatch call itself: dispatch_*_f puts the item on the queue; the   *)
(* synchronous ones then block the calling thread.                             *)
NativeEnqueue(c) ==
    /\ call[c].op = "submit"
    /\ LET t == call[c].arg IN
       /\ IF Primitive(kind[t]) = "dispatch_after_f"
          THEN /\ phase' = [phase EXCEPT ![t] = "delayed"]
               /\ UNCHANGED ahead
          ELSE /\ phase' = [phase EXCEPT ![t] = "queued"]
               /\ ahead' = [ahead EXCEPT ![t] = Behind(t)]
       /\ IF Synchronous(kind[t])
          THEN call' = [call EXCEPT ![c].op = "wait"]
          ELSE LeaveNative(c)
    /\ UNCHANGED <<gil, wrapperVars, nativeVars, at, kind, before, refVars>>

AfterFires(t) ==
    /\ phase[t] = "delayed"
    /\ phase' = [phase EXCEPT ![t] = "queued"]
    /\ ahead' = [ahead EXCEPT ![t] = Behind(t)]
    /\ UNCHANGED <<gil, call, wrapperVars, nativeVars, at, kind, before, refVars>>

(* libdispatch takes the item off an open queue and calls the trampoline. *)
NativeInvoke(t) ==
    /\ phase[t] = "queued"
    /\ Open(at[t])
    /\ \A u \in ahead[t] : NativeConflict(u, t) => phase[u] = "done"
    /\ \A u \in Tasks : phase[u] \in Executing => ~Excludes(u, t)
    /\ phase' = [phase EXCEPT ![t] = "invoked"]
    /\ UNCHANGED <<gil, call, wrapperVars, nativeVars, at, kind, ahead, before, refVars>>

(* _python_callback: "with gil", then func() begins. *)
TrampolineBegin(t) ==
    /\ phase[t] = "invoked"
    /\ gil = Free
    /\ gil' = t
    /\ phase' = [phase EXCEPT ![t] = "running"]
    /\ UNCHANGED <<call, wrapperVars, nativeVars, at, kind, ahead, before, refVars>>

(* The reference dropped both in the except and in the finally clause. *)
TrampolineEnd_TwiceWrong(t) ==
    /\ InPython(t)
    /\ refs' = [refs EXCEPT ![Func[t]] = @ - 2]
    /\ phase' = [phase EXCEPT ![t] = "done"]
    /\ gil' = Free
    /\ UNCHANGED <<call, wrapperVars, nativeVars, at, kind, ahead, before, pyref>>

(* The reference dropped only when func() raises. *)
TrampolineEnd_Wrong(t) ==
    /\ InPython(t)
    /\ phase' = [phase EXCEPT ![t] = "done"]
    /\ gil' = Free
    /\ UNCHANGED <<call, wrapperVars, nativeVars, at, kind, ahead, before, refVars>>

(* func() returned or raised (the exception is printed): the finally clause    *)
(* drops the reference, the lock is released and libdispatch completes the item.*)
TrampolineEnd(t) ==
    /\ InPython(t)
    /\ refs' = [refs EXCEPT ![Func[t]] = @ - 1]
    /\ phase' = [phase EXCEPT ![t] = "done"]
    /\ gil' = Free
    /\ UNCHANGED <<call, wrapperVars, nativeVars, at, kind, ahead, before, pyref>>

(* dispatch_sync_f / dispatch_barrier_sync_f return once the item is complete. *)
SyncReturn(c) ==
    /\ call[c].op = "wait"
    /\ phase[call[c].arg] = "done"
    /\ LeaveNative(c)
    /\ UNCHANGED <<gil, wrapperVars, nativeVars, taskVars, refVars>>

-----------------------------------------------------------------------------
(* suspend, resume, activate, set_target_queue. *)

Suspend(c, q) ==
    /\ InPython(c) /\ alive[q] /\ q \notin Global
    /\ suspends[q] + Pending("suspend", q) < MaxSuspend[q]
    /\ EnterNative(c, "suspend", q, NoQueue)
    /\ UNCHANGED <<wrapperVars, nativeVars, taskVars, refVars>>

NativeSuspend(c) ==
    /\ call[c].op = "suspend"
    /\ suspends' = [suspends EXCEPT ![call[c].on] = @ + 1]
    /\ LeaveNative(c)
    /\ UNCHANGED <<gil, wrapperVars, active, target, taskVars, refVars>>

(* The program balances its calls: it resumes only what is suspended and not   *)
(* already being resumed ("Calls to resume must balance previous calls").       *)
Resume(c, q) ==
    /\ InPython(c) /\ alive[q]
    /\ suspends[q] > Pending("resume", q)
    /\ EnterNative(c, "resume", q, NoQueue)
    /\ UNCHANGED <<wrapperVars, nativeVars, taskVars, refVars>>

NativeResume(c) ==
    /\ call[c].op = "resume"
    /\ suspends' = [suspends EXCEPT ![call[c].on] = @ - 1]
    /\ LeaveNative(c)
    /\ UNCHANGED <<gil, wrapperVars, active, target, taskVars, refVars>>

(* activate(): the flag is read before the lock is given up ...                *)
Activate(c, q) ==
    /\ InPython(c) /\ alive[q]
    /\ inactive[q]
    /\ EnterNative(c, "activate", q, NoQueue)
    /\ UNCHANGED <<wrapperVars, nativeVars, taskVars, refVars>>

NativeActivate(c) ==
    /\ call[c].op = "activate"
    /\ active' = [active EXCEPT ![call[c].on] = TRUE]
    /\ call' = [call EXCEPT ![c].op = "activated"]
    /\ UNCHANGED <<gil, wrapperVars, suspends, target, taskVars, refVars>>

(* ... and cleared once the lock is held again.                                *)
ActivateReturn(c) ==
    /\ gil = c
    /\ call[c].op = "activated"
    /\ inactive' = [inactive EXCEPT ![call[c].on] = FALSE]
    /\ LeaveNative(c)
    /\ UNCHANGED <<gil, alive, nativeVars, taskVars, refVars>>

(* set_target_queue(): documented for a queue that has been given no task yet   *)
(* ("Changing the target queue after tasks have been submitted may result in    *)
(* undefined behavior"), so the program does not submit meanwhile either.  None *)
(* gives the queue its default target back.                                     *)
SetTarget(c, q, p) ==
    /\ InPython(c) /\ alive[q]
    /\ p # NoQueue => alive[p]
    /\ <<q, p>> \in Retargets
    /\ \A t \in Tasks : at[t] # NoQueue => q \notin Up(at[t])
    /\ EnterNative(c, "retarget", q, p)
    /\ UNCHANGED <<wrapperVars, nativeVars, taskVars, refVars>>

NativeSetTarget(c) ==
    /\ call[c].op = "retarget"
    /\ target' = [target EXCEPT ![call[c].on] = call[c].arg]
    /\ LeaveNative(c)
    /\ UNCHANGED <<gil, wrapperVars, active, suspends, taskVars, refVars>>

-----------------------------------------------------------------------------
(* Reference counts the program itself holds. *)

(* The program drops its last reference to f; a call that is being made with f  *)
(* keeps the caller's reference on the stack.                                   *)
DropRef(c, f) ==
    /\ InPython(c)
    /\ pyref[f]
    /\ \A d \in Ctx : call[d].op \in {"submit", "wait"} => Func[call[d].arg] # f
    /\ pyref' = [pyref EXCEPT ![f] = FALSE]
    /\ refs' = [refs EXCEPT ![f] = @ - 1]
    /\ UNCHANGED <<gil, call, wrapperVars, nativeVars, taskVars>>

(* __dealloc__, when the last reference to the wrapper goes: a bound method in  *)
(* progress holds one.  The program balances suspend() before it lets go.       *)
DropWrapper_Wrong(c, q) ==  \* released without dispatch_activate
    /\ InPython(c)
    /\ q \in Droppable /\ alive[q] /\ suspends[q] = 0
    /\ \A d \in Ctx : call[d] # NoCall => q \notin {call[d].on, call[d].arg}
    /\ alive' = [alive EXCEPT ![q] = FALSE]
    /\ UNCHANGED <<gil, call, inactive, nativeVars, taskVars, refVars>>

DropWrapper(c, q) ==
    /\ InPython(c)
    /\ q \in Droppable /\ alive[q] /\ suspends[q] = 0
    /\ \A d \in Ctx : call[d] # NoCall => q \notin {call[d].on, call[d].arg}
    /\ alive' = [alive EXCEPT ![q] = FALSE]
    /\ active' = [active EXCEPT ![q] = @ \/ (q \notin Global /\ inactive[q])]
    /\ UNCHANGED <<gil, call, inactive, suspends, target, taskVars, refVars>>

-----------------------------------------------------------------------------
Native(c) ==
    \/ NativeEnqueue(c) \/ SyncReturn(c)
    \/ NativeSuspend(c) \/ NativeResume(c) \/ NativeActivate(c) \/ NativeSetTarget(c)

Next ==
    \/ \E c \in Ctx :
        \/ TakeGIL(c) \/ DropGIL(c)
        \/ \E q \in Queues :
            \/ \E t \in Tasks, m \in Methods : Submit(c, q, t, m)
            \/ Suspend(c, q) \/ Resume(c, q) \/ Activate(c, q)
            \/ \E p \in Queues \cup {NoQueue} : SetTarget(c, q, p)
            \/ DropWrapper(c, q)
        \/ ActivateReturn(c)
        \/ \E f \in Funcs : DropRef(c, f)
        \/ NativeEnqueue(c) \/ SyncReturn(c)
        \/ NativeSuspend(c) \/ NativeResume(c) \/ NativeActivate(c) \/ NativeSetTarget(c)
    \/ \E t \in Tasks :
        AfterFires(t) \/ NativeInvoke(t) \/ TrampolineBegin(t) \/ TrampolineEnd(t)

Spec == Init /\ [][Next]_vars

(* libdispatch calls and timers make progress (weak fairness); a thread that    *)
(* asks for the interpreter lock again and again gets it, and a callable        *)
(* returns, although both may be interrupted by lock switches (strong).         *)
Fairness ==
    /\ \A c \in Ctx : WF_vars(Native(c)) /\ SF_vars(TakeGIL(c)) /\ SF_vars(ActivateReturn(c))
    /\ \A c \in Ctx : WF_vars(DropGIL(c))
    /\ \A t \in Tasks : /\ WF_vars(AfterFires(t)) /\ WF_vars(NativeInvoke(t))
                        /\ SF_vars(TrampolineBegin(t)) /\ SF_vars(TrampolineEnd(t))

FairSpec == Spec /\ Fairness

-----------------------------------------------------------------------------
Calls == [op : {"none", "submit", "wait", "suspend", "resume",
                "activate", "activated", "retarget"},
          on : Queues \cup {NoQueue},
          arg : Tasks \cup Queues \cup {NoQueue}]

(* The types of the variables: no reference count goes below zero, and a call   *)
(* in progress is one of those the methods make.                                *)
TypeOK ==
    /\ gil \in Ctx \cup {Free}
    /\ call \in [Ctx -> Calls]
    /\ alive \in [Queues -> BOOLEAN]
    /\ inactive \in [Queues -> BOOLEAN]
    /\ active \in [Queues -> BOOLEAN]
    /\ suspends \in [Queues -> Int]
    /\ target \in [Queues -> Queues \cup {NoQueue}]
    /\ phase \in [Tasks -> {"new", "done"} \cup InFlight]
    /\ at \in [Tasks -> Queues \cup {NoQueue}]
    /\ kind \in [Tasks -> Methods \cup {NoMethod}]
    /\ ahead \in [Tasks -> SUBSET Tasks]
    /\ before \in [Tasks -> SUBSET Tasks]
    /\ refs \in [Funcs -> Nat]
    /\ pyref \in [Funcs -> BOOLEAN]

-----------------------------------------------------------------------------
(* Safety. *)

Held(f) == {t \in Tasks : Func[t] = f /\ phase[t] \in InFlight}

(* Reference counting across threads: a callable is referenced once by the      *)
(* program while it keeps it, and once per submission that has not finished; no *)
(* interleaving of submissions, trampolines and drops leaks or loses one.       *)
RefAccounting ==
    \A f \in Funcs : refs[f] = (IF pyref[f] THEN 1 ELSE 0) + Cardinality(Held(f))

(* The pointer libdispatch keeps as the context of an item is never dangling,   *)
(* even when the program has dropped the callable before the item runs.         *)
CallableAlive == \A t \in Tasks : phase[t] \in InFlight => refs[Func[t]] > 0

(* Two callables never run at once when their queues share a serial queue in    *)
(* their target hierarchy, a suspension or activation notwithstanding.          *)
HierarchyExclusion ==
    \A t, u \in Tasks :
        t # u /\ phase[t] = "running" /\ phase[u] = "running"
            => Up(at[t]) \cap Up(at[u]) \subseteq Concurrent

BarrierMethods == {"barrier_async", "barrier_sync"}

(* While the callable of a barrier runs no other callable of that queue runs;   *)
(* for the queues the program created.                                          *)
BarrierExclusive ==
    \A t, u \in Tasks :
        /\ t # u /\ at[t] = at[u] /\ at[t] \notin Global
        /\ phase[t] = "running" /\ kind[t] \in BarrierMethods
        => phase[u] # "running"

(* A callable starts only when every callable submitted to its queue before its *)
(* own submitting call was made has finished, if the queue is serial or one of  *)
(* the two is a barrier: first in, first out, across threads and methods.       *)
StartsInOrder ==
    \A t \in Tasks :
        phase[t] \in {"running", "done"} =>
            \A u \in before[t] :
                \/ phase[u] = "done"
                \/ /\ at[t] \in Concurrent
                   /\ at[t] \in Global \/ {kind[t], kind[u]} \cap BarrierMethods = {}

(* Whoever holds the interpreter lock can go on and give it up: it is a thread,  *)
(* or a callable that has begun and not ended, and not inside libdispatch, where  *)
(* it might wait for a trampoline that needs the lock; and a callable that is     *)
(* inside libdispatch has not ended either.                                       *)
LockUsable ==
    \A c \in Ctx :
        /\ gil = c => Runnable(c) /\ call[c].op \in Returning
        /\ call[c] # NoCall => Runnable(c)

(* The queue keeps its contract: an item is a requested, accepted, running or   *)
(* done task of QueueContract.                                                  *)
StatusOf(x) ==
    CASE x = "new"                     -> "new"
      [] x \in {"held", "delayed"}     -> "requested"
      [] x \in {"queued", "invoked"}   -> "accepted"
      [] x = "running"                 -> "running"
      [] x = "done"                    -> "done"

Status == [t \in Tasks |-> StatusOf(phase[t])]

Contract == INSTANCE QueueContract
    WITH status <- Status, where <- at, how <- kind, preds <- before,
         SerialQueues <- Queues \ Concurrent, GlobalQueues <- Global

(* Every behaviour of DispatchQueue is one of QueueContract: the threads, the   *)
(* interpreter lock, the suspensions and the target hierarchy only delay tasks. *)
ImplementsContract == Contract!Spec

-----------------------------------------------------------------------------
(* The inductive invariant the proofs of DispatchQueue_proofs rest on. *)

(* A call in progress names what it acts on, and a task is being enqueued by at *)
(* most one context, which found it new.                                        *)
CallsNamed ==
    \A c \in Ctx :
        /\ call[c].op \in {"submit", "wait"} => call[c].arg \in Tasks
        /\ call[c].op = "submit" => phase[call[c].arg] = "held"
        /\ call[c].op \notin {"none", "submit", "wait"} => call[c].on \in Queues
        /\ call[c].op = "retarget" => call[c].arg \in Queues \cup {NoQueue}

EnqueuedByOne ==
    \A c, d \in Ctx :
        call[c].op = "submit" /\ call[d].op = "submit" /\ call[c].arg = call[d].arg
            => c = d

Addressed == \A t \in Tasks : phase[t] # "new" => at[t] \in Queues /\ kind[t] \in Methods

(* What t has to wait for is never lost: a task enqueued before t was submitted *)
(* is on the list libdispatch put t behind, or done; and done once t is invoked *)
(* if the two conflict.                                                         *)
OrderKept ==
    \A t \in Tasks : \A u \in before[t] :
        /\ phase[t] # "new" /\ phase[u] \in Enqueued \cup {"done"} /\ at[u] = at[t]
        /\ phase[t] = "queued" => u \in ahead[t] \/ phase[u] = "done"
        /\ phase[t] \in Executing \cup {"done"} /\ NativeConflict(u, t) => phase[u] = "done"

NoConflictExecutes ==
    \A t, u \in Tasks :
        t # u /\ phase[t] \in Executing /\ phase[u] \in Executing => ~NativeConflict(t, u)

(* The strengthening of RefAccounting, BarrierExclusive, StartsInOrder and      *)
(* ImplementsContract that every step preserves: calls name what they act on,   *)
(* no earlier task is forgotten, and conflicting items do not execute together. *)
QueueInv ==
    /\ TypeOK /\ CallsNamed /\ EnqueuedByOne /\ Addressed
    /\ RefAccounting /\ OrderKept /\ NoConflictExecutes

(* A queue is retargeted only above queues that were given no task, so the       *)
(* hierarchy of a task is the same from its submission to its end ...            *)
RetargetsAway ==
    \A c \in Ctx, t \in Tasks :
        call[c].op = "retarget" /\ at[t] # NoQueue => call[c].on \notin Up(at[t])

(* ... and two tasks that libdispatch executes share no serial queue in theirs.  *)
SerialApart ==
    \A t, u \in Tasks :
        t # u /\ phase[t] \in Executing /\ phase[u] \in Executing
            => Up(at[t]) \cap Up(at[u]) \subseteq Concurrent

(* The strengthening of HierarchyExclusion that every step preserves.            *)
HierarchyInv == QueueInv /\ RetargetsAway /\ SerialApart

-----------------------------------------------------------------------------
(* Liveness, under Fairness. *)

(* The program resumes and activates in the end every queue it still has.       *)
StaysOpen == <>[](\A q \in Queues : alive[q] => active[q] /\ suspends[q] = 0)

(* Work left on a queue whose wrapper is gone is still done, the queue having   *)
(* been created inactive and never activated by the program included            *)
(* ("Must activate inactive queues before releasing").                          *)
DroppedDrains ==
    StaysOpen =>
        \A q \in Queues, t \in Tasks :
            (~alive[q] /\ at[t] = q /\ phase[t] = "queued") ~> phase[t] = "done"

(* A submitting call returns, the blocking ones included: no call keeps the     *)
(* lock its own task needs, and nested calls that respect SyncFrom do not wait  *)
(* for each other.                                                              *)
CallsReturn ==
    StaysOpen => \A c \in Ctx : call[c].op = "submit" ~> call[c] = NoCall

-----------------------------------------------------------------------------
(* A claim of the documentation that the code does not keep (see README). *)

(* "On a concurrent queue, barrier tasks ... execute exclusively", a queue from *)
(* global_queue() ("a global concurrent queue") included.                       *)
BarrierExclusiveEverywhere ==
    \A t, u \in Tasks :
        t # u /\ at[t] = at[u] /\ phase[t] = "running" /\ kind[t] \in BarrierMethods
        => phase[u] # "running"

=============================================================================
