------------------------------ MODULE Workloop ------------------------------
(***************************************************************************)
(* The Workloop class of cygcd (src/src/cygcd/_core.pyx): its activation,  *)
(* run_async, and run_sync, which is built on run_async and a Semaphore of *)
(* its own because libdispatch forbids dispatch_sync on a workloop.        *)
(*                                                                         *)
(* No libdispatch call is made here with the interpreter lock held, except *)
(* in __dealloc__, so each action is one stretch of code under the lock or *)
(* one libdispatch call, and the lock is no variable.                      *)
(*                                                                         *)
(* libdispatch terminates the process when work is submitted to a workloop *)
(* that is not active, when the autorelease frequency of an active one is  *)
(* set, and when an inactive one is released (workloop.h, object.h).       *)
(***************************************************************************)
EXTENDS Integers, FiniteSets

CONSTANTS
    Clients,        \* Python threads
    Tasks,          \* submissions; each has a semaphore, used if it is synchronous
    NoTask

ASSUME WorkloopAssumption ==
    /\ IsFiniteSet(Clients) /\ IsFiniteSet(Tasks)
    /\ NoTask \notin Tasks /\ Clients \cap Tasks = {}

VARIABLES
    inactive,   \* the _inactive flag
    native,     \* the native workloop: "inactive" or "active"
    released,   \* __dealloc__ has run
    call,       \* call[c]: the method call c is in the middle of
    task,       \* task[t]: where submission t is
    result,     \* result[t]: how the callable of t ended
    info,       \* info[t]: what exception_info holds
    outcome,    \* outcome[t]: how the run_sync call of t ended
    raced,      \* history: set_autorelease_frequency and activate have overlapped
    refs,       \* refs[t]: references on what t hands to libdispatch, its callable or the
                \* wrapper that run_sync makes of it, beyond those of the program
    terminated, \* libdispatch has terminated the process
    value, wait \* of the semaphores

callVars == <<inactive, native, released>>
taskVars == <<task, result, info, outcome, refs>>
vars == <<callVars, call, taskVars, raced, terminated, value, wait>>

(* A context is a thread, or a callable that the workloop runs. *)
Ctx == Clients \cup Tasks

Sem == INSTANCE Semaphore WITH
           Sems <- Tasks, Initial <- [t \in Tasks |-> 0], Waiters <- Ctx, NoSem <- NoTask

NoCall == [op |-> "none", t |-> NoTask]
Results == {"returned", "Exception", "BaseException"}

(* Definitions named ..._Wrong are deliberately faulty variants of the one that *)
(* follows: each breaks a property below, which shows what the property is for. *)

Init ==
    /\ inactive \in BOOLEAN
    /\ native = IF inactive THEN "inactive" ELSE "active"
    /\ released = FALSE
    /\ call = [c \in Ctx |-> NoCall]
    /\ task = [t \in Tasks |-> "new"]
    /\ result = [t \in Tasks |-> "none"]
    /\ info = [t \in Tasks |-> "none"]
    /\ outcome = [t \in Tasks |-> "none"]
    /\ refs = [t \in Tasks |-> 0]
    /\ raced = FALSE
    /\ terminated = FALSE
    /\ Sem!SemInit

Goto(c, op) == call' = [call EXCEPT ![c].op = op]
Begun(c, op, t) ==
    /\ call[c] = NoCall /\ ~released
    /\ c \in Tasks => task[c] = "running"
    /\ call' = [call EXCEPT ![c] = [op |-> op, t |-> t]]
Ended(c) == call' = [call EXCEPT ![c] = NoCall]
Terminates(crime) == terminated' = (terminated \/ crime)
Busy(op) == \E c \in Ctx : call[c].op = op

-----------------------------------------------------------------------------
(* activate and set_autorelease_frequency: the flag is tested before the lock is  *)
(* given up, and activate clears it when it has the lock again.                   *)
Activate_Wrong(c) ==  \* the flag cleared before the libdispatch call
    /\ inactive
    /\ Begun(c, "activate", NoTask)
    /\ inactive' = FALSE
    /\ raced' = (raced \/ Busy("frequency"))
    /\ UNCHANGED <<native, released, taskVars, terminated, value, wait>>

Activate(c) ==
    /\ inactive
    /\ Begun(c, "activate", NoTask)
    /\ raced' = (raced \/ Busy("frequency"))
    /\ UNCHANGED <<callVars, taskVars, terminated, value, wait>>

NativeActivate(c) ==
    /\ call[c].op = "activate"
    /\ native' = "active"
    /\ Goto(c, "activated")
    /\ UNCHANGED <<inactive, released, taskVars, raced, terminated, value, wait>>

ActivateReturn(c) ==
    /\ call[c].op = "activated"
    /\ inactive' = FALSE
    /\ Ended(c)
    /\ UNCHANGED <<native, released, taskVars, raced, terminated, value, wait>>

SetFrequency(c) ==
    /\ inactive
    /\ Begun(c, "frequency", NoTask)
    /\ raced' = (raced \/ Busy("activate") \/ Busy("activated"))
    /\ UNCHANGED <<callVars, taskVars, terminated, value, wait>>

NativeSetFrequency(c) ==
    /\ call[c].op = "frequency"
    /\ Terminates(native = "active")
    /\ Ended(c)
    /\ UNCHANGED <<callVars, taskVars, raced, value, wait>>

(* __dealloc__: whoever may still call a method keeps the wrapper alive.          *)
Dealloc_Wrong ==  \* not activated first
    /\ ~released /\ \A c \in Ctx : call[c] = NoCall
    /\ released' = TRUE
    /\ Terminates(native = "inactive")
    /\ UNCHANGED <<inactive, native, call, taskVars, raced, value, wait>>

Dealloc ==
    /\ ~released /\ \A c \in Ctx : call[c] = NoCall
    /\ released' = TRUE
    /\ native' = IF inactive THEN "active" ELSE native
    /\ Terminates(native' = "inactive")
    /\ UNCHANGED <<inactive, call, taskVars, raced, value, wait>>

-----------------------------------------------------------------------------
(* run_async, and run_sync as far as its call of run_async: rejected while the    *)
(* flag is set, and a step up to "with nogil" otherwise, which takes a reference. *)
(* run_sync tests the flag twice, and makes the semaphore and the wrapper, which  *)
(* its frame keeps, in between.                                                   *)
RunAsync_Wrong(c, t) ==  \* without Py_INCREF(func)
    /\ ~inactive /\ task[t] = "new"
    /\ Begun(c, "async", t)
    /\ task' = [task EXCEPT ![t] = "given"]
    /\ UNCHANGED <<callVars, result, info, outcome, refs, raced, terminated, value, wait>>

RunAsync(c, t) ==
    /\ ~inactive /\ task[t] = "new"
    /\ Begun(c, "async", t)
    /\ task' = [task EXCEPT ![t] = "given"]
    /\ refs' = [refs EXCEPT ![t] = @ + 1]
    /\ UNCHANGED <<callVars, result, info, outcome, raced, terminated, value, wait>>

RunSync(c, t) ==
    /\ ~inactive /\ task[t] = "new"
    /\ Begun(c, "sync", t)
    /\ task' = [task EXCEPT ![t] = "given"]
    /\ outcome' = [outcome EXCEPT ![t] = "waiting"]
    /\ refs' = [refs EXCEPT ![t] = @ + 2]
    /\ UNCHANGED <<callVars, result, info, raced, terminated, value, wait>>

NativeEnqueue(c) ==
    /\ call[c].op \in {"async", "sync"}
    /\ task' = [task EXCEPT ![call[c].t] = "queued"]
    /\ Terminates(native = "inactive")
    /\ IF call[c].op = "async" THEN Ended(c) ELSE Goto(c, "enqueued")
    /\ UNCHANGED <<callVars, result, info, outcome, refs, raced, value, wait>>

(* sem.wait(), and what run_sync does once it is over.                            *)
SyncWait(c) ==
    /\ call[c].op = "enqueued"
    /\ Sem!WaitEnter(c, call[c].t, FALSE)
    /\ Goto(c, "waiting")
    /\ UNCHANGED <<callVars, taskVars, raced, terminated>>

SyncReturn_Wrong(c) ==  \* the exception not raised again
    /\ call[c].op = "waiting"
    /\ Sem!WaitReturn(c)
    /\ outcome' = [outcome EXCEPT ![call[c].t] = "returned"]
    /\ refs' = [refs EXCEPT ![call[c].t] = @ - 1]
    /\ Ended(c)
    /\ UNCHANGED <<callVars, task, result, info, raced, terminated>>

SyncReturn(c) ==
    /\ call[c].op = "waiting"
    /\ Sem!WaitReturn(c)
    /\ outcome' = [outcome EXCEPT ![call[c].t] =
                       IF info[call[c].t] # "none" THEN "raised" ELSE "returned"]
    /\ refs' = [refs EXCEPT ![call[c].t] = @ - 1]
    /\ Ended(c)
    /\ UNCHANGED <<callVars, task, result, info, raced, terminated>>

-----------------------------------------------------------------------------
(* The workloop runs one callable at a time, each by _python_callback.            *)
Synchronous(t) == outcome[t] # "none"
Executing == {"running", "signalling", "ending"}

Begin(t) ==
    /\ task[t] = "queued" /\ native = "active"
    /\ \A u \in Tasks : task[u] \notin Executing
    /\ task' = [task EXCEPT ![t] = "running"]
    /\ UNCHANGED <<callVars, call, result, info, outcome, refs, raced, terminated, value,
                   wait>>

(* The callable ends.  The wrapper of run_sync has then still to signal, in its    *)
(* finally clause, and keeps an Exception, but no other BaseException.            *)
Signals_Wrong(t, r) == Synchronous(t) /\ r # "BaseException"  \* no finally clause
Signals(t, r) == Synchronous(t)

Kept(t, r) == IF Synchronous(t) /\ r = "Exception" THEN r ELSE "none"

End(t, r) ==
    /\ task[t] = "running" /\ call[t] = NoCall
    /\ result' = [result EXCEPT ![t] = r]
    /\ info' = [info EXCEPT ![t] = Kept(t, r)]
    /\ task' = [task EXCEPT ![t] = IF Signals(t, r) THEN "signalling" ELSE "ending"]
    /\ UNCHANGED <<callVars, call, outcome, refs, raced, terminated, value, wait>>

(* The sem.signal() of the wrapper. *)
SignalDone_Wrong(t) ==  \* signalled a second time on its way out
    /\ task[t] = "signalling"
    /\ value' = [value EXCEPT ![t] = @ + 2]
    /\ wait' = [c \in Ctx |-> IF c \in Sem!Sleepers(t)
                                  THEN [wait[c] EXCEPT !.at = "granted"] ELSE wait[c]]
    /\ task' = [task EXCEPT ![t] = "ending"]
    /\ UNCHANGED <<callVars, call, result, info, outcome, refs, raced, terminated>>

SignalDone(t) ==
    /\ task[t] = "signalling"
    /\ Sem!Signal(t)
    /\ task' = [task EXCEPT ![t] = "ending"]
    /\ UNCHANGED <<callVars, call, result, info, outcome, refs, raced, terminated>>

(* What is left of _python_callback: an exception that got so far is printed, and  *)
(* the reference that run_async took is dropped.                                  *)
TrampolineEnd(t) ==
    /\ task[t] = "ending"
    /\ task' = [task EXCEPT ![t] = "done"]
    /\ refs' = [refs EXCEPT ![t] = @ - 1]
    /\ UNCHANGED <<callVars, call, result, info, outcome, raced, terminated, value, wait>>

CallStep(c) ==
    \/ NativeActivate(c) \/ ActivateReturn(c) \/ NativeSetFrequency(c)
    \/ NativeEnqueue(c) \/ SyncWait(c) \/ SyncReturn(c)
TaskStep(t) ==
    \/ Begin(t) \/ SignalDone(t) \/ TrampolineEnd(t)
    \/ \E r \in Results : End(t, r)

Next ==
    /\ ~terminated
    /\ \/ \E c \in Ctx :
            \/ Activate(c) \/ SetFrequency(c) \/ CallStep(c)
            \/ \E t \in Tasks : RunAsync(c, t) \/ RunSync(c, t)
       \/ \E t \in Tasks : TaskStep(t)
       \/ Dealloc

Spec == Init /\ [][Next]_vars

(* Calls under way, the workloop and the callables make progress; nobody is bound *)
(* to make a call.  A thread that asks for the interpreter lock gets it.          *)
FairSpec ==
    /\ Spec
    /\ \A c \in Ctx : WF_vars(~terminated /\ CallStep(c))
    /\ \A t \in Tasks : WF_vars(~terminated /\ TaskStep(t))

-----------------------------------------------------------------------------
(* The types of the variables. *)
TypeOK ==
    /\ inactive \in BOOLEAN /\ native \in {"inactive", "active"} /\ released \in BOOLEAN
    /\ call \in [Ctx -> [op : {"none", "activate", "activated", "frequency", "async",
                              "sync", "enqueued", "waiting"},
                        t : Tasks \cup {NoTask}]]
    /\ task \in [Tasks -> {"new", "given", "queued", "done"} \cup Executing]
    /\ result \in [Tasks -> Results \cup {"none"}]
    /\ info \in [Tasks -> {"none", "Exception"}]
    /\ outcome \in [Tasks -> {"none", "waiting", "returned", "raised"}]
    /\ refs \in [Tasks -> Nat]
    /\ raced \in BOOLEAN /\ terminated \in BOOLEAN
    /\ Sem!SemTypeOK

(* The flag that the methods test lags behind the workloop but is never ahead of  *)
(* it: whatever the calls that race, nothing is submitted to an inactive workloop *)
(* and none is released, and libdispatch does not terminate the process, unless   *)
(* set_autorelease_frequency and activate overlap.                                *)
OnlyRacesTerminate == terminated => raced

One(b) == IF b THEN 1 ELSE 0
InHand(t) == task[t] \in {"given", "queued"} \cup Executing

(* What libdispatch has been given to call is referenced once until it has been   *)
(* called, and a wrapper once more by the run_sync that waits for it: whichever   *)
(* of the two is through first, neither frees it early and the last does free it. *)
CallableRefs ==
    \A t \in Tasks : refs[t] = One(InHand(t)) + One(outcome[t] = "waiting")

(* run_sync returns only after its callable has ended; it raises an Exception of  *)
(* the callable again, and nothing if the callable returned.  Of a BaseException  *)
(* that is no Exception it claims nothing: see RaisedAgain.                       *)
SyncOutcome ==
    /\ TypeOK
    /\ \A t \in Tasks : outcome[t] \in {"returned", "raised"} =>
        /\ task[t] \in {"signalling", "ending", "done"}
        /\ \/ result[t] = "returned" /\ outcome[t] = "returned"
           \/ result[t] = "Exception" /\ outcome[t] = "raised"
           \/ result[t] = "BaseException"

(* When frame and wrapper of a run_sync are gone, and the semaphore with them, its *)
(* value is the one it was created with: nobody sleeps on it any more, for which  *)
(* libdispatch would stop the process, and each signal was one for a wait.        *)
SemDisposable ==
    \A t \in Tasks : Synchronous(t) /\ refs[t] = 0 => value[t] = 0

(* run_sync returns, whichever way the callable ends, as long as no callable that *)
(* the workloop runs calls run_sync of this workloop: that call waits for a       *)
(* callable the workloop takes up only after the one that waits.                  *)
WaitsForItself == \E u \in Tasks : call[u].op \in {"sync", "enqueued", "waiting"}

SyncReturns ==
    \A t \in Tasks :
        outcome[t] = "waiting" ~> outcome[t] # "waiting" \/ terminated \/ WaitsForItself

-----------------------------------------------------------------------------
(* Claims that the code does not keep (see README). *)

(* "Raises: RuntimeError: If the workloop has already been activated": setting    *)
(* the autorelease frequency too late is an error the caller can handle.          *)
NeverTerminates == ~terminated

(* run_sync hands on whatever its callable raises: it returns normally only if    *)
(* the callable did.  The wrapper catches Exception alone, so a SystemExit or     *)
(* KeyboardInterrupt is printed by the trampoline, and run_sync returns.          *)
RaisedAgain == \A t \in Tasks : outcome[t] = "returned" => result[t] = "returned"
=============================================================================
