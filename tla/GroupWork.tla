----------------------------- MODULE GroupWork -----------------------------
(***************************************************************************)
(* The Group class of cygcd (src/src/cygcd/_core.pyx) with the work that   *)
(* programs do in groups: callables that run on a limited number of        *)
(* threads and use Semaphores there, some to be let in a few at a time,    *)
(* some to wait for what others provide.                                   *)
(*                                                                         *)
(* A member of the group is a task (run_async) or a mark (enter and        *)
(* leave).  No libdispatch call is made with the interpreter lock held, so *)
(* each action is one stretch of code under the lock or one libdispatch    *)
(* call, and the lock is no variable.                                      *)
(***************************************************************************)
EXTENDS Integers, FiniteSets

CONSTANTS
    Clients,            \* Python threads
    Tasks, Marks, Notes,\* callables for run_async, enters, callables for notify
    Throttled,          \* tasks that pass through the semaphore gate
    Awaiting, Providing,\* tasks that wait for the semaphore latch, or signal it
    Gate, Latch,
    Capacity,           \* the initial value of the gate; that of the latch is 0
    Pool,               \* bound: threads that run tasks and notifications
    Nothing

Members == Tasks \cup Marks
Capacities == [s \in {Gate, Latch} |-> IF s = Gate THEN Capacity ELSE 0]

(* Tasks that wait for others must leave a thread free to those, and have one.   *)
ASSUME GroupAssumption ==
    /\ IsFiniteSet(Clients) /\ IsFiniteSet(Members)
    /\ Tasks \cap Marks = {} /\ Members \cap Notes = {} /\ Nothing \notin Members \cup Notes
    /\ Throttled \cup Awaiting \cup Providing \subseteq Tasks
    /\ Awaiting \cap Providing = {}
    /\ Cardinality(Awaiting) <= Cardinality(Providing) /\ Cardinality(Awaiting) < Pool
    /\ Gate # Latch /\ Nothing \notin {Gate, Latch} /\ Capacity \in Nat \ {0}

VARIABLES
    member,     \* member[m]: how far member m is
    note,       \* note[n]: how far notification n is
    count,      \* the native count of members that have not left
    refs,       \* refs[x]: references on a callable beyond the program's own
    call,       \* call[c]: the call c is in the middle of
    expected,   \* history: expected[n]: the members notification n was to wait for
    dropped,    \* the wrapper is gone
    value, wait \* of the semaphores

groupVars == <<member, note, count>>
vars == <<groupVars, refs, call, expected, dropped, value, wait>>

Sem == INSTANCE Semaphore WITH
           Sems <- {Gate, Latch}, Initial <- Capacities, Waiters <- Tasks, NoSem <- Nothing

NewCall(op, x) == [op |-> op, x |-> x, seconds |-> 0, until |-> "none", for |-> {}]
NoCall == NewCall("none", Nothing)

(* Definitions named ..._Wrong are deliberately faulty variants of the one that *)
(* follows: each breaks a property below, which shows what the property is for. *)

Init ==
    /\ member = [m \in Members |-> "none"]
    /\ note = [n \in Notes |-> "none"]
    /\ count = 0
    /\ refs = [x \in Tasks \cup Notes |-> 0]
    /\ call = [c \in Clients |-> NoCall]
    /\ expected = [n \in Notes |-> {}]
    /\ dropped = FALSE
    /\ Sem!SemInit

Inside == {m \in Members : member[m] \notin {"none", "given", "left"}}
Executing == {t \in Tasks : member[t] \notin {"none", "given", "queued", "left"}}
                \cup {n \in Notes : note[n] = "running"}

Begun(c, new) == call[c] = NoCall /\ ~dropped /\ call' = [call EXCEPT ![c] = new]
Ended(c) == call' = [call EXCEPT ![c] = NoCall]
Advance(m, l) == member' = [member EXCEPT ![m] = l]

(* What libdispatch does when a member has left: with the last one it submits the *)
(* notifications that are waiting, and wakes whoever is in wait().                *)
NativeLeave(m) ==
    /\ Advance(m, "left")
    /\ count' = count - 1
    /\ note' = [n \in Notes |-> IF count = 1 /\ note[n] = "registered" THEN "queued" ELSE note[n]]
    /\ call' = [c \in Clients |-> IF count = 1 /\ call[c].op = "asleep"
                                  THEN [call[c] EXCEPT !.op = "granted"] ELSE call[c]]

-----------------------------------------------------------------------------
(* run_async up to "with nogil", and dispatch_group_async_f. *)
RunAsync_Wrong(c, t) ==  \* without Py_INCREF
    /\ member[t] = "none"
    /\ Begun(c, NewCall("async", t))
    /\ Advance(t, "given")
    /\ UNCHANGED <<note, count, refs, expected, dropped, value, wait>>

RunAsync(c, t) ==
    /\ member[t] = "none"
    /\ Begun(c, NewCall("async", t))
    /\ Advance(t, "given")
    /\ refs' = [refs EXCEPT ![t] = @ + 1]
    /\ UNCHANGED <<note, count, expected, dropped, value, wait>>

NativeAsync(c) ==
    /\ call[c].op = "async"
    /\ Advance(call[c].x, "queued")
    /\ count' = count + 1
    /\ Ended(c)
    /\ UNCHANGED <<note, refs, expected, dropped, value, wait>>

(* enter and leave: calls of leave balance calls of enter. *)
Enter(c, m) ==
    /\ member[m] = "none" /\ call[c] = NoCall /\ ~dropped
    /\ Advance(m, "entered")
    /\ count' = count + 1
    /\ UNCHANGED <<note, refs, call, expected, dropped, value, wait>>

Leave(c, m) ==
    /\ member[m] = "entered" /\ call[c] = NoCall /\ ~dropped
    /\ NativeLeave(m)
    /\ UNCHANGED <<refs, expected, dropped, value, wait>>

(* notify, up to "with nogil", and dispatch_group_notify_f. *)
Notify(c, n) ==
    /\ note[n] = "none"
    /\ Begun(c, NewCall("notify", n))
    /\ note' = [note EXCEPT ![n] = "given"]
    /\ refs' = [refs EXCEPT ![n] = @ + 1]
    /\ expected' = [expected EXCEPT ![n] = Inside]
    /\ UNCHANGED <<member, count, dropped, value, wait>>

NativeNotify_Wrong(c) ==  \* submitted without regard to the group
    /\ call[c].op = "notify"
    /\ note' = [note EXCEPT ![call[c].x] = "queued"]
    /\ Ended(c)
    /\ UNCHANGED <<member, count, refs, expected, dropped, value, wait>>

NativeNotify(c) ==
    /\ call[c].op = "notify"
    /\ note' = [note EXCEPT ![call[c].x] = IF count = 0 THEN "queued" ELSE "registered"]
    /\ Ended(c)
    /\ UNCHANGED <<member, count, refs, expected, dropped, value, wait>>

(* wait(timeout_seconds): a negative number of seconds means for ever.  At most  *)
(* one thread waits at a time, for libdispatch leaves open what two would get.   *)
Timeout_Wrong(seconds) == "ever"  \* the argument not converted
Timeout(seconds) == IF seconds < 0 THEN "ever" ELSE "deadline"

StartWait(c, seconds) ==
    /\ \A d \in Clients : call[d].op \notin {"asleep", "granted", "refused"}
    /\ Begun(c, [op |-> IF count = 0 THEN "granted" ELSE "asleep",
                 x |-> Nothing, seconds |-> seconds, until |-> Timeout(seconds), for |-> Inside])
    /\ UNCHANGED <<groupVars, refs, expected, dropped, value, wait>>

WaitTimeOut(c) ==
    /\ call[c].op = "asleep" /\ call[c].until = "deadline"
    /\ call' = [call EXCEPT ![c].op = "refused"]
    /\ UNCHANGED <<groupVars, refs, expected, dropped, value, wait>>

Result_Wrong(op) == TRUE  \* a time-out not told from success
Result(op) == op = "granted"

WaitReturn(c) ==
    /\ call[c].op \in {"granted", "refused"}
    /\ Ended(c)
    /\ UNCHANGED <<groupVars, refs, expected, dropped, value, wait>>

(* __dealloc__: the native group stays as long as it has members. *)
Dealloc ==
    /\ ~dropped /\ \A c \in Clients : call[c] = NoCall
    /\ dropped' = TRUE
    /\ UNCHANGED <<groupVars, refs, call, expected, value, wait>>

-----------------------------------------------------------------------------
(* The work.  A task holds its thread until it has ended, also while it sleeps.   *)
PastGate(t) == IF t \in Awaiting THEN "ready" ELSE "worked"

Begin(t) ==
    /\ member[t] = "queued" /\ Cardinality(Executing) < Pool
    /\ Advance(t, IF t \in Throttled THEN "running" ELSE PastGate(t))
    /\ UNCHANGED <<note, count, refs, call, expected, dropped, value, wait>>

(* Those that are throttled may give up after some time, and do without.          *)
Ask(t, timed) ==
    /\ \/ member[t] = "running" /\ Sem!WaitEnter(t, Gate, timed)
       \/ member[t] = "ready" /\ ~timed /\ Sem!WaitEnter(t, Latch, FALSE)
    /\ Advance(t, "asking")
    /\ UNCHANGED <<note, count, refs, call, expected, dropped>>

AskTimeOut(t) ==
    /\ Sem!TimeOut(t)
    /\ UNCHANGED <<groupVars, refs, call, expected, dropped>>

Asked(t) ==
    /\ member[t] = "asking"
    /\ Sem!WaitReturn(t)
    /\ Advance(t, IF wait[t].sem = Latch THEN "worked"
                  ELSE IF Sem!Granted(t) THEN "inside" ELSE PastGate(t))
    /\ UNCHANGED <<note, count, refs, call, expected, dropped>>

SignalGate(t) ==
    /\ member[t] = "inside"
    /\ Sem!Signal(Gate)
    /\ Advance(t, PastGate(t))
    /\ UNCHANGED <<note, count, refs, call, expected, dropped>>

Provide(t) ==
    /\ member[t] = "worked" /\ t \in Providing
    /\ Sem!Signal(Latch)
    /\ Advance(t, "provided")
    /\ UNCHANGED <<note, count, refs, call, expected, dropped>>

(* The end of _python_callback, whether the callable returned or raised, and what *)
(* libdispatch does next.                                                         *)
CallableEnd(t) ==
    /\ member[t] = IF t \in Providing THEN "provided" ELSE "worked"
    /\ Advance(t, "leaving")
    /\ refs' = [refs EXCEPT ![t] = @ - 1]
    /\ UNCHANGED <<note, count, call, expected, dropped, value, wait>>

TaskLeave(t) ==
    /\ member[t] = "leaving"
    /\ NativeLeave(t)
    /\ UNCHANGED <<refs, expected, dropped, value, wait>>

NoteBegin(n) ==
    /\ note[n] = "queued" /\ Cardinality(Executing) < Pool
    /\ note' = [note EXCEPT ![n] = "running"]
    /\ UNCHANGED <<member, count, refs, call, expected, dropped, value, wait>>

NoteEnd(n) ==
    /\ note[n] = "running"
    /\ note' = [note EXCEPT ![n] = "done"]
    /\ refs' = [refs EXCEPT ![n] = @ - 1]
    /\ expected' = [expected EXCEPT ![n] = {}]
    /\ UNCHANGED <<member, count, call, dropped, value, wait>>

CallStep(c) == NativeAsync(c) \/ NativeNotify(c) \/ WaitTimeOut(c) \/ WaitReturn(c)
TaskStep(t) ==
    \/ Begin(t) \/ \E timed \in BOOLEAN : Ask(t, timed)
    \/ AskTimeOut(t) \/ Asked(t) \/ SignalGate(t) \/ Provide(t) \/ CallableEnd(t)
    \/ TaskLeave(t)
NoteStep(n) == NoteBegin(n) \/ NoteEnd(n)

Next ==
    \/ \E c \in Clients :
        \/ \E t \in Tasks : RunAsync(c, t)
        \/ \E m \in Marks : Enter(c, m) \/ Leave(c, m)
        \/ \E n \in Notes : Notify(c, n)
        \/ \E seconds \in {-1, 1} : StartWait(c, seconds)
        \/ CallStep(c)
    \/ \E t \in Tasks : TaskStep(t)
    \/ \E n \in Notes : NoteStep(n)
    \/ Dealloc

Spec == Init /\ [][Next]_vars

(* Calls under way, deadlines, threads and callables make progress, a sleeper that *)
(* was signalled wakes up, and the pool serves each of the waiting in the end.    *)
(* Nobody is bound to make a call.                                                *)
FairSpec ==
    /\ Spec
    /\ \A c \in Clients : WF_vars(CallStep(c))
    /\ \A t \in Tasks : WF_vars(TaskStep(t)) /\ SF_vars(Begin(t))
    /\ \A n \in Notes : WF_vars(NoteStep(n)) /\ SF_vars(NoteBegin(n))

-----------------------------------------------------------------------------
(* The types of the variables: neither the count of the group nor a reference     *)
(* count goes below zero.                                                         *)
TypeOK ==
    /\ member \in [Members -> {"none", "given", "queued", "entered", "running", "asking",
                               "inside", "ready", "worked", "provided", "leaving", "left"}]
    /\ note \in [Notes -> {"none", "given", "registered", "queued", "running", "done"}]
    /\ count \in Nat
    /\ refs \in [Tasks \cup Notes -> Nat]
    /\ call \in [Clients -> [op : {"none", "async", "notify", "asleep", "granted", "refused"},
                            x : Members \cup Notes \cup {Nothing}, seconds : Int,
                            until : {"none", "ever", "deadline"}, for : SUBSET Members]]
    /\ expected \in [Notes -> SUBSET Members]
    /\ dropped \in BOOLEAN
    /\ Sem!SemTypeOK

(* When wait() is about to return True, every member that was in the group when   *)
(* it was called has left, and the group keeps none of their callables alive.     *)
WaitTrue ==
    \A c \in Clients : call[c].op \in {"granted", "refused"} /\ Result(call[c].op) =>
        \A m \in call[c].for : member[m] = "left" /\ (m \in Tasks => refs[m] = 0)

(* A notification begins only when every member that was in the group when        *)
(* notify() was called has left, whoever enters and leaves in between.            *)
NotifyAfter ==
    \A n \in Notes : note[n] = "running" =>
        \A m \in expected[n] : member[m] = "left"

(* The gate lets no more callables in than its capacity, although waits time out  *)
(* while it is being signalled; and when nobody uses it its value is the one it   *)
(* was created with, as libdispatch demands of a semaphore that is freed.         *)
Insiders ==
    {t \in Tasks : member[t] = "inside" \/ (wait[t].at = "granted" /\ wait[t].sem = Gate)}
GateHolds ==
    /\ Cardinality(Insiders) <= Capacity
    /\ (\A t \in Tasks : member[t] # "inside" /\ wait[t].sem # Gate) => value[Gate] = Capacity

(* No signal is lost, and none counted twice, when it races a time-out; nor is    *)
(* any count lost, of the group, of a semaphore, or of references.                *)
CountsKept ==
    /\ TypeOK
    /\ Sem!NoLostSignal
    /\ count = Cardinality(Inside)
    /\ \A t \in Tasks : refs[t] = IF member[t] \in {"none", "leaving", "left"} THEN 0 ELSE 1
    /\ \A n \in Notes : refs[n] = IF note[n] \in {"none", "done"} THEN 0 ELSE 1

(* A wait() with a deadline returns in any case; one without returns, and         *)
(* notifications run, for all that tasks compete for threads and semaphores,      *)
(* unless a member stays: a mark whose leave() is not called, or a task that      *)
(* waits for what nobody provides.                                                *)
Stays == \/ \E m \in Marks : member[m] = "entered"
         \/ \E t \in Awaiting, u \in Providing : member[t] = "asking" /\ member[u] = "none"
WaitsReturn ==
    /\ \A c \in Clients :
          call[c].op = "asleep" ~> call[c].op # "asleep" \/ (call[c].seconds < 0 /\ Stays)
    /\ \A n \in Notes : note[n] = "given" ~> note[n] = "done" \/ Stays
=============================================================================
