--------------------------- MODULE DispatchSource ---------------------------
(***************************************************************************)
(* The event sources of cygcd: Timer, SignalSource, ReadSource,            *)
(* WriteSource and ProcessSource (src/src/cygcd/_core.pyx).  The five      *)
(* classes share one life cycle, modelled here once; they differ in the    *)
(* events that arrive, and in Timer having set_timer().                    *)
(*                                                                         *)
(* A source is created suspended; start() resumes it, cancel() cancels it, *)
(* and __dealloc__ does whatever of the two is left before releasing it.   *)
(* libdispatch calls _python_timer_callback for an event and, once, after  *)
(* cancellation, _python_timer_cancel_callback, which drops the reference  *)
(* the constructor took on the handler.                                    *)
(***************************************************************************)
EXTENDS Integers, FiniteSets

CONSTANTS
    Clients,            \* Python threads
    Sources,            \* source objects
    Handlers, Handler,  \* callables, and the handler each source is created with
    MaxEvents,          \* bound on the events of one source
    Free, NoSource

ASSUME SourceAssumption ==
    /\ IsFiniteSet(Sources)
    /\ NoSource \notin Sources
ASSUME HandlerAssumption == Handler \in [Sources -> Handlers]
ASSUME EventAssumption == MaxEvents \in Nat
ASSUME ContextAssumption ==
    /\ Free \notin Clients \cup Sources
    /\ Clients \cap Sources = {}

VARIABLES
    gil,        \* the context that holds the interpreter lock, or Free
    call,       \* call[c]: the libdispatch call c is in the middle of
    wrapper,    \* wrapper[s]: "unborn", "alive" or "gone"
    started,    \* started[s], cancelled[s]: the _started and _cancelled flags
    cancelled,
    suspends,   \* suspends[s]: suspension count of the native source
    stopped,    \* stopped[s]: dispatch_source_cancel has been called on it
    released,   \* released[s]: dispatch_release has been called on it
    timers,     \* the sources made as Timer, the class that has set_timer()
    armed,      \* armed[s]: it can still produce events
    repeating,  \* repeating[s]: an event leaves it armed
    pending,    \* pending[s]: an event waits to be delivered
    events,     \* events[s]: how many have arrived
    event,      \* event[s]: event trampoline "idle", "invoked" or "running"
    farewell,   \* farewell[s]: cancel trampoline "none", "invoked" or "done"
    told,       \* history: some cancel() of s has returned
    refs,       \* refs[h]: reference count of handler h
    pyref       \* pyref[h]: the program itself still refers to h

Ctx == Clients \cup Sources      \* a source is the context its handler runs in
NoCall == [op |-> "none", on |-> NoSource]

vars == <<gil, call, wrapper, started, cancelled, suspends, stopped, released, timers,
          armed, repeating, pending, events, event, farewell, told, refs, pyref>>
wrapperVars == <<wrapper, started, cancelled>>
nativeVars == <<suspends, stopped, released>>
eventVars == <<timers, armed, repeating, pending, events>>
trampolineVars == <<event, farewell>>
refVars == <<refs, pyref>>

(* Definitions named ..._Wrong are deliberately faulty variants of the one that   *)
(* follows: each breaks a property below, which shows what the property is for.   *)

-----------------------------------------------------------------------------
Init ==
    /\ gil = Free
    /\ call = [c \in Ctx |-> NoCall]
    /\ wrapper = [s \in Sources |-> "unborn"]
    /\ started = [s \in Sources |-> FALSE]
    /\ cancelled = [s \in Sources |-> FALSE]
    /\ suspends = [s \in Sources |-> 0]
    /\ stopped = [s \in Sources |-> FALSE]
    /\ released = [s \in Sources |-> FALSE]
    /\ timers = {}
    /\ armed = [s \in Sources |-> FALSE]
    /\ repeating = [s \in Sources |-> TRUE]
    /\ pending = [s \in Sources |-> FALSE]
    /\ events = [s \in Sources |-> 0]
    /\ event = [s \in Sources |-> "idle"]
    /\ farewell = [s \in Sources |-> "none"]
    /\ told = [s \in Sources |-> FALSE]
    /\ refs = [h \in Handlers |-> 1]
    /\ pyref = [h \in Handlers |-> TRUE]

-----------------------------------------------------------------------------
(* The interpreter lock, as in DispatchQueue. *)

Runnable(c) == c \in Sources => event[c] = "running"
Returning == {"none", "stopped"}
InPython(c) == gil = c /\ Runnable(c) /\ call[c] = NoCall

TakeGIL(c) ==
    /\ gil = Free /\ Runnable(c) /\ call[c].op \in Returning
    /\ gil' = c
    /\ UNCHANGED <<call, wrapperVars, nativeVars, eventVars, trampolineVars, told, refVars>>

DropGIL(c) ==
    /\ gil = c /\ Runnable(c) /\ call[c].op \in Returning
    /\ gil' = Free
    /\ UNCHANGED <<call, wrapperVars, nativeVars, eventVars, trampolineVars, told, refVars>>

EnterNative(c, op, s) ==
    /\ gil' = Free
    /\ call' = [call EXCEPT ![c] = [op |-> op, on |-> s]]

LeaveNative(c) == call' = [call EXCEPT ![c] = NoCall]

-----------------------------------------------------------------------------
(* __init__: dispatch_source_create, then the handler with one reference for     *)
(* libdispatch and one in self._handler, then the two trampolines.  Nobody else  *)
(* can reach the object before the constructor returns.                          *)
Construct_Wrong(c, s, again) ==  \* without Py_INCREF(handler)
    /\ InPython(c)
    /\ wrapper[s] = "unborn" /\ pyref[Handler[s]]
    /\ wrapper' = [wrapper EXCEPT ![s] = "alive"]
    /\ suspends' = [suspends EXCEPT ![s] = 1]
    /\ armed' = [armed EXCEPT ![s] = TRUE]
    /\ repeating' = [repeating EXCEPT ![s] = again]
    /\ refs' = [refs EXCEPT ![Handler[s]] = @ + 1]
    /\ UNCHANGED <<gil, call, started, cancelled, stopped, released, pending, events,
                   trampolineVars, told, pyref>>

Construct(c, s, again) ==
    /\ InPython(c)
    /\ wrapper[s] = "unborn" /\ pyref[Handler[s]]
    /\ wrapper' = [wrapper EXCEPT ![s] = "alive"]
    /\ suspends' = [suspends EXCEPT ![s] = 1]
    /\ armed' = [armed EXCEPT ![s] = TRUE]
    /\ repeating' = [repeating EXCEPT ![s] = again]
    /\ refs' = [refs EXCEPT ![Handler[s]] = @ + 2]
    /\ UNCHANGED <<gil, call, started, cancelled, stopped, released, pending, events,
                   trampolineVars, told, pyref>>

(* A timer repeats or fires once; a process source that monitors PROC_EXIT alone *)
(* has one event; the others go on.  Which class it is makes no other difference.*)
NewTimer(c, s) ==
    timers' = timers \cup {s} /\ \E again \in BOOLEAN : Construct(c, s, again)
NewSignalSource(c, s) == UNCHANGED timers /\ Construct(c, s, TRUE)
NewReadSource(c, s) == UNCHANGED timers /\ Construct(c, s, TRUE)
NewWriteSource(c, s) == UNCHANGED timers /\ Construct(c, s, TRUE)
NewProcessSource(c, s) ==
    UNCHANGED timers /\ \E again \in BOOLEAN : Construct(c, s, again)

New(c, s) ==
    \/ NewTimer(c, s) \/ NewSignalSource(c, s) \/ NewReadSource(c, s)
    \/ NewWriteSource(c, s) \/ NewProcessSource(c, s)

Start_Wrong(c, s) ==  \* without _started = True
    /\ InPython(c)
    /\ wrapper[s] = "alive" /\ ~started[s] /\ ~cancelled[s]
    /\ EnterNative(c, "resume", s)
    /\ UNCHANGED <<wrapperVars, nativeVars, eventVars, trampolineVars, told, refVars>>

(* start(): the flag is set under the lock, before the libdispatch call; a       *)
(* cancelled source raises RuntimeError.                                         *)
Start(c, s) ==
    /\ InPython(c)
    /\ wrapper[s] = "alive" /\ ~started[s] /\ ~cancelled[s]
    /\ started' = [started EXCEPT ![s] = TRUE]
    /\ EnterNative(c, "resume", s)
    /\ UNCHANGED <<wrapper, cancelled, nativeVars, eventVars, trampolineVars, told, refVars>>

NativeResume(c) ==
    /\ call[c].op = "resume"
    /\ suspends' = [suspends EXCEPT ![call[c].on] = @ - 1]
    /\ LeaveNative(c)
    /\ UNCHANGED <<gil, wrapperVars, stopped, released, eventVars, trampolineVars, told,
                   refVars>>

(* cancel(): the first caller sets the flag and calls libdispatch ...            *)
Cancel(c, s) ==
    /\ InPython(c)
    /\ wrapper[s] = "alive" /\ ~cancelled[s]
    /\ cancelled' = [cancelled EXCEPT ![s] = TRUE]
    /\ EnterNative(c, "cancel", s)
    /\ UNCHANGED <<wrapper, started, nativeVars, eventVars, trampolineVars, told, refVars>>

NativeCancel(c) ==
    /\ call[c].op = "cancel"
    /\ stopped' = [stopped EXCEPT ![call[c].on] = TRUE]
    /\ call' = [call EXCEPT ![c].op = "stopped"]
    /\ UNCHANGED <<gil, wrapperVars, suspends, released, eventVars, trampolineVars, told,
                   refVars>>

(* ... and returns once it holds the lock again; any later caller returns at once. *)
CancelReturn(c) ==
    /\ gil = c
    /\ call[c].op = "stopped"
    /\ told' = [told EXCEPT ![call[c].on] = TRUE]
    /\ LeaveNative(c)
    /\ UNCHANGED <<gil, wrapperVars, nativeVars, eventVars, trampolineVars, refVars>>

CancelAgain(c, s) ==
    /\ InPython(c)
    /\ wrapper[s] = "alive" /\ cancelled[s]
    /\ told' = [told EXCEPT ![s] = TRUE]
    /\ UNCHANGED <<gil, call, wrapperVars, nativeVars, eventVars, trampolineVars, refVars>>

(* Timer.set_timer(): a new schedule; libdispatch forgets what the old one left.  *)
SetTimer(c, s) ==
    /\ InPython(c)
    /\ wrapper[s] = "alive" /\ s \in timers
    /\ \E op \in {"repeat", "oneshot"} : EnterNative(c, op, s)
    /\ UNCHANGED <<wrapperVars, nativeVars, eventVars, trampolineVars, told, refVars>>

NativeSetTimer(c) ==
    /\ call[c].op \in {"repeat", "oneshot"}
    /\ armed' = [armed EXCEPT ![call[c].on] = TRUE]
    /\ repeating' = [repeating EXCEPT ![call[c].on] = call[c].op = "repeat"]
    /\ pending' = [pending EXCEPT ![call[c].on] = FALSE]
    /\ LeaveNative(c)
    /\ UNCHANGED <<gil, wrapperVars, nativeVars, timers, events, trampolineVars, told,
                   refVars>>

Dealloc_Wrong(c, s) ==  \* without dispatch_source_cancel
    /\ InPython(c)
    /\ wrapper[s] = "alive"
    /\ \A d \in Ctx : call[d].on # s
    /\ wrapper' = [wrapper EXCEPT ![s] = "gone"]
    /\ suspends' = [suspends EXCEPT ![s] = IF started[s] THEN @ ELSE @ - 1]
    /\ released' = [released EXCEPT ![s] = TRUE]
    /\ refs' = [refs EXCEPT ![Handler[s]] = @ - 1]
    /\ UNCHANGED <<gil, call, started, cancelled, stopped, eventVars, trampolineVars, told,
                   pyref>>

(* __dealloc__, under the lock: cancel and resume unless that was done, then       *)
(* release; the object's own reference to the handler goes with it.                *)
Dealloc(c, s) ==
    /\ InPython(c)
    /\ wrapper[s] = "alive"
    /\ \A d \in Ctx : call[d].on # s
    /\ wrapper' = [wrapper EXCEPT ![s] = "gone"]
    /\ stopped' = [stopped EXCEPT ![s] = @ \/ ~cancelled[s]]
    /\ suspends' = [suspends EXCEPT ![s] = IF started[s] THEN @ ELSE @ - 1]
    /\ released' = [released EXCEPT ![s] = TRUE]
    /\ refs' = [refs EXCEPT ![Handler[s]] = @ - 1]
    /\ UNCHANGED <<gil, call, started, cancelled, eventVars, trampolineVars, told, pyref>>

(* The program drops its own reference to a handler. *)
DropRef(c, h) ==
    /\ InPython(c)
    /\ pyref[h]
    /\ pyref' = [pyref EXCEPT ![h] = FALSE]
    /\ refs' = [refs EXCEPT ![h] = @ - 1]
    /\ UNCHANGED <<gil, call, wrapperVars, nativeVars, eventVars, trampolineVars, told>>

-----------------------------------------------------------------------------
(* libdispatch: events, and the two trampolines. *)

Live(s) == wrapper[s] # "unborn" /\ suspends[s] = 0

(* An event arrives on a source that is not suspended; events waiting are merged. *)
EventArrives(s) ==
    /\ Live(s) /\ ~stopped[s] /\ armed[s]
    /\ events[s] < MaxEvents
    /\ events' = [events EXCEPT ![s] = @ + 1]
    /\ pending' = [pending EXCEPT ![s] = TRUE]
    /\ armed' = [armed EXCEPT ![s] = repeating[s]]
    /\ UNCHANGED <<gil, call, wrapperVars, nativeVars, timers, repeating, trampolineVars,
                   told, refVars>>

InvokeEvent(s) ==
    /\ Live(s) /\ ~stopped[s] /\ pending[s] /\ event[s] = "idle"
    /\ pending' = [pending EXCEPT ![s] = FALSE]
    /\ event' = [event EXCEPT ![s] = "invoked"]
    /\ UNCHANGED <<gil, call, wrapperVars, nativeVars, timers, armed, repeating, events,
                   farewell, told, refVars>>

(* _python_timer_callback: takes the lock, runs the handler, keeps the reference.  *)
EventBegin(s) ==
    /\ event[s] = "invoked" /\ gil = Free
    /\ gil' = s
    /\ event' = [event EXCEPT ![s] = "running"]
    /\ UNCHANGED <<call, wrapperVars, nativeVars, eventVars, farewell, told, refVars>>

EventEnd_LockWrong(s) ==  \* returning to libdispatch with the lock held
    /\ InPython(s)
    /\ event' = [event EXCEPT ![s] = "idle"]
    /\ UNCHANGED <<gil, call, wrapperVars, nativeVars, eventVars, farewell, told, refVars>>

EventEnd(s) ==
    /\ InPython(s)
    /\ gil' = Free
    /\ event' = [event EXCEPT ![s] = "idle"]
    /\ UNCHANGED <<call, wrapperVars, nativeVars, eventVars, farewell, told, refVars>>

(* The cancel handler is called once, after the last event handler has returned.   *)
InvokeFarewell(s) ==
    /\ Live(s) /\ stopped[s] /\ event[s] = "idle" /\ farewell[s] = "none"
    /\ farewell' = [farewell EXCEPT ![s] = "invoked"]
    /\ UNCHANGED <<gil, call, wrapperVars, nativeVars, eventVars, event, told, refVars>>

Farewell_Wrong(s) ==  \* without Py_DECREF
    /\ farewell[s] = "invoked" /\ gil = Free
    /\ farewell' = [farewell EXCEPT ![s] = "done"]
    /\ UNCHANGED <<gil, call, wrapperVars, nativeVars, eventVars, event, told, refVars>>

(* _python_timer_cancel_callback: takes the lock, drops the handler's reference.   *)
Farewell(s) ==
    /\ farewell[s] = "invoked" /\ gil = Free
    /\ farewell' = [farewell EXCEPT ![s] = "done"]
    /\ refs' = [refs EXCEPT ![Handler[s]] = @ - 1]
    /\ UNCHANGED <<gil, call, wrapperVars, nativeVars, eventVars, event, told, pyref>>

-----------------------------------------------------------------------------
Native(c) == NativeResume(c) \/ NativeCancel(c) \/ NativeSetTimer(c)

Next ==
    \/ \E c \in Ctx :
        \/ TakeGIL(c) \/ DropGIL(c)
        \/ \E s \in Sources :
            \/ New(c, s) \/ Start(c, s) \/ Cancel(c, s) \/ CancelAgain(c, s)
            \/ SetTimer(c, s) \/ Dealloc(c, s)
        \/ CancelReturn(c)
        \/ NativeResume(c) \/ NativeCancel(c) \/ NativeSetTimer(c)
        \/ \E h \in Handlers : DropRef(c, h)
    \/ \E s \in Sources :
        \/ EventArrives(s) \/ InvokeEvent(s) \/ EventBegin(s) \/ EventEnd(s)
        \/ InvokeFarewell(s) \/ Farewell(s)

Spec == Init /\ [][Next]_vars

Delivery(s) ==
    InvokeEvent(s) \/ EventBegin(s) \/ EventEnd(s) \/ InvokeFarewell(s) \/ Farewell(s)

(* libdispatch calls and a context that may give the lock up make progress; a      *)
(* thread or trampoline that asks for the lock again and again gets it, and a      *)
(* handler returns, although lock switches may interrupt both (strong fairness).   *)
(* The steps of one Delivery follow each other, so that none is starved by another.*)
Fairness ==
    /\ \A c \in Ctx : /\ WF_vars(Native(c) \/ DropGIL(c))
                      /\ SF_vars(TakeGIL(c)) /\ SF_vars(CancelReturn(c))
    /\ \A s \in Sources : SF_vars(Delivery(s))

FairSpec == Spec /\ Fairness

-----------------------------------------------------------------------------
(* The types of the variables: no reference count goes below zero.               *)
TypeOK ==
    /\ gil \in Ctx \cup {Free}
    /\ call \in [Ctx -> [op : {"none", "resume", "cancel", "stopped", "repeat", "oneshot"},
                         on : Sources \cup {NoSource}]]
    /\ wrapper \in [Sources -> {"unborn", "alive", "gone"}]
    /\ started \in [Sources -> BOOLEAN] /\ cancelled \in [Sources -> BOOLEAN]
    /\ suspends \in [Sources -> Int]
    /\ stopped \in [Sources -> BOOLEAN] /\ released \in [Sources -> BOOLEAN]
    /\ timers \subseteq Sources
    /\ armed \in [Sources -> BOOLEAN] /\ repeating \in [Sources -> BOOLEAN]
    /\ pending \in [Sources -> BOOLEAN]
    /\ events \in [Sources -> 0..MaxEvents]
    /\ event \in [Sources -> {"idle", "invoked", "running"}]
    /\ farewell \in [Sources -> {"none", "invoked", "done"}]
    /\ told \in [Sources -> BOOLEAN]
    /\ refs \in [Handlers -> Nat] /\ pyref \in [Handlers -> BOOLEAN]

Kept(h) == {s \in Sources : Handler[s] = h /\ wrapper[s] = "alive"}
Owed(h) == {s \in Sources : Handler[s] = h /\ wrapper[s] # "unborn" /\ farewell[s] # "done"}

(* The handler is referenced by the program, by each wrapper that keeps it in     *)
(* _handler, and by each native source until its cancel handler has run: whatever *)
(* the order of cancel(), start() and __dealloc__, it is given back exactly once. *)
HandlerRefs ==
  /\ TypeOK
  /\ \A h \in Handlers :
        refs[h] = (IF pyref[h] THEN 1 ELSE 0) + Cardinality(Kept(h)) + Cardinality(Owed(h))

(* libdispatch never holds a trampoline over a handler that has been freed.       *)
HandlerAlive ==
    \A s \in Sources :
        event[s] # "idle" \/ farewell[s] = "invoked" => refs[Handler[s]] > 0

(* The native source is resumed exactly once, by start() or by __dealloc__:       *)
(* resuming an object that is not suspended is a crash, and so is releasing one   *)
(* that is.  Concurrent start() calls and a start() racing a cancel() included.   *)
ResumedOnce ==
    \A s \in Sources :
        /\ suspends[s] >= 0
        /\ released[s] => suspends[s] = 0 /\ stopped[s]
        /\ wrapper[s] = "alive" /\ suspends[s] = 0 => started[s]

(* A source that was started and cancelled, or whose wrapper is gone, gives its   *)
(* handler back.                                                                  *)
HandlerGivenBack ==
    \A s \in Sources :
        (wrapper[s] = "gone" \/ (started[s] /\ cancelled[s])) ~> farewell[s] = "done"

(* An event that arrived on a source is taken up, unless the source is cancelled  *)
(* first, and a handler that was taken up does run.                               *)
EventHandled ==
    \A s \in Sources :
        /\ pending[s] ~> (~pending[s] \/ stopped[s])
        /\ event[s] = "invoked" ~> event[s] = "running"

-----------------------------------------------------------------------------
(* Claims of the documentation that the code does not keep (see README). *)

(* "After cancellation, the timer will not fire again": no handler begins after   *)
(* a cancel() has returned.                                                       *)
NoFireAfterCancel ==
    [][\A s \in Sources : event[s] # "running" /\ event'[s] = "running" => ~told[s]]_vars

(* "This is safe to call from any thread": when a cancel() has returned, the      *)
(* source is cancelled.                                                           *)
CancelledWhenTold == \A s \in Sources : told[s] => stopped[s]
=============================================================================
