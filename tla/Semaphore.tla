----------------------------- MODULE Semaphore -----------------------------
(***************************************************************************)
(* The Semaphore class of cygcd (src/src/cygcd/_core.pyx), as a component: *)
(* a module that uses semaphores says who calls the operations, and when.  *)
(* Each method gives the interpreter lock up for its one libdispatch call, *)
(* which is one step here, or, for a wait that sleeps, two.                *)
(*                                                                         *)
(* libdispatch decrements on wait and sleeps when the result is negative,  *)
(* increments on signal and wakes a sleeper when the value was negative,   *)
(* and increments again when a wait times out: a signal and a time-out     *)
(* that race for the same sleeper cannot both have it.                     *)
(***************************************************************************)
EXTENDS Integers, FiniteSets

CONSTANTS
    Sems, Initial,  \* Semaphore objects, and the value, in Nat, each is created with
    Waiters,        \* threads and callables that call wait()
    NoSem

VARIABLES
    value,  \* value[s]: the native value, minus the number of sleepers if negative
    wait    \* wait[w]: where the wait() of w is, and whether it may time out

semVars == <<value, wait>>
NoWait == [at |-> "none", sem |-> NoSem, timed |-> FALSE]

SemInit ==
    /\ value = Initial
    /\ wait = [w \in Waiters |-> NoWait]

Sleepers(s) == {w \in Waiters : wait[w].sem = s /\ wait[w].at = "asleep"}

(* wait(timeout_seconds): a negative number of seconds means for ever.            *)
WaitEnter(w, s, timed) ==
    /\ wait[w] = NoWait
    /\ value' = [value EXCEPT ![s] = @ - 1]
    /\ wait' = [wait EXCEPT ![w] = [at |-> IF value[s] > 0 THEN "granted" ELSE "asleep",
                                    sem |-> s, timed |-> timed]]

(* The deadline of a wait has passed, at once if it is not in the future.         *)
TimeOut_Wrong(w) ==  \* the value not restored
    /\ wait[w].at = "asleep" /\ wait[w].timed
    /\ wait' = [wait EXCEPT ![w].at = "refused"]
    /\ UNCHANGED value

TimeOut(w) ==
    /\ wait[w].at = "asleep" /\ wait[w].timed
    /\ wait' = [wait EXCEPT ![w].at = "refused"]
    /\ value' = [value EXCEPT ![wait[w].sem] = @ + 1]

(* wait() returns whether the native result is zero, which means granted.        *)
Granted_Wrong(w) == TRUE  \* a time-out not told from success
Granted(w) == wait[w].at = "granted"

WaitReturn(w) ==
    /\ wait[w].at \in {"granted", "refused"}
    /\ wait' = [wait EXCEPT ![w] = NoWait]
    /\ UNCHANGED value

(* signal(): it returns True exactly when it woke a thread.                       *)
Signal_Wrong(s) ==  \* a sleeper woken only when the value becomes positive
    /\ value' = [value EXCEPT ![s] = @ + 1]
    /\ IF value[s] < 0 /\ value[s] + 1 > 0
       THEN \E w \in Sleepers(s) : wait' = [wait EXCEPT ![w].at = "granted"]
       ELSE UNCHANGED wait

Signal(s) ==
    /\ value' = [value EXCEPT ![s] = @ + 1]
    /\ IF value[s] < 0
       THEN \E w \in Sleepers(s) : wait' = [wait EXCEPT ![w].at = "granted"]
       ELSE UNCHANGED wait

-----------------------------------------------------------------------------
SemTypeOK ==
    /\ value \in [Sems -> Int]
    /\ wait \in [Waiters -> [at : {"none", "asleep", "granted", "refused"},
                             sem : Sems \cup {NoSem}, timed : BOOLEAN]]

(* No signal is lost and none is counted twice, also when it races a time-out:    *)
(* a semaphore whose value is negative has that many sleepers, any other none.    *)
NoLostSignal ==
    \A s \in Sems :
        Cardinality(Sleepers(s)) = IF value[s] < 0 THEN -value[s] ELSE 0
=============================================================================
