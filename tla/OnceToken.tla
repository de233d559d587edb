----------------------------- MODULE OnceToken -----------------------------
(***************************************************************************)
(* The Once class of cygcd (src/src/cygcd/_core.pyx): threads call one     *)
(* token, each with a callable.  __call__ reads the native predicate under *)
(* the interpreter lock and returns at once when it is not zero; otherwise *)
(* it takes a reference on the callable and calls dispatch_once_f without  *)
(* the lock.                                                               *)
(*                                                                         *)
(* A call is made by a thread from its program or, while a thread runs the *)
(* callable, from inside it: Calls are the calls, and Inside[k] the call   *)
(* within whose callable k is made, or NoOne.  No libdispatch call is made *)
(* with the interpreter lock held here, so the lock only makes CallToken   *)
(* and the ends of _python_callback single steps.                          *)
(***************************************************************************)
EXTENDS Integers, FiniteSets

CONSTANTS Calls, Inside, NoOne, Funcs, Func

ASSUME CallAssumption ==
    /\ IsFiniteSet(Calls) /\ NoOne \notin Calls
    /\ Inside \in [Calls -> Calls \cup {NoOne}]
ASSUME FuncAssumption == Func \in [Calls -> Funcs]

VARIABLES
    predicate,  \* the native predicate: "zero", "running" or "done"
    pc,         \* pc[k]: where call k is
    runs,       \* how many callables have begun
    refs,       \* refs[f]: references on f beyond the program's own
    losers      \* history: the calls that waited for the callable of another

vars == <<predicate, pc, runs, refs, losers>>

(* Definitions named ..._Wrong are deliberately faulty variants of the one that *)
(* follows: each breaks a property below, which shows what the property is for. *)

Init ==
    /\ predicate = "zero"
    /\ pc = [k \in Calls |-> "idle"]
    /\ runs = 0
    /\ refs = [f \in Funcs |-> 0]
    /\ losers = {}

Goto(k, l) == pc' = [pc EXCEPT ![k] = l]

(* A nested call is made while the callable of its outer call runs, and the      *)
(* outer callable goes on once the nested call has returned.                     *)
CanCall(k) == Inside[k] # NoOne => pc[Inside[k]] = "running"
Suspended(k) == \E j \in Calls : Inside[j] = k /\ pc[j] \notin {"idle", "returned"}

(* The test of the predicate and Py_INCREF are one step under the lock, which    *)
(* "with nogil" ends.                                                            *)
CallToken_CheckWrong(k) ==  \* without the test
    /\ pc[k] = "idle" /\ CanCall(k)
    /\ Goto(k, "entering")
    /\ refs' = [refs EXCEPT ![Func[k]] = @ + 1]
    /\ UNCHANGED <<predicate, runs, losers>>

CallToken_RefWrong(k) ==  \* without Py_INCREF
    /\ pc[k] = "idle" /\ CanCall(k)
    /\ IF predicate # "zero" THEN Goto(k, "returned") ELSE Goto(k, "entering")
    /\ UNCHANGED <<predicate, runs, refs, losers>>

CallToken_DirectWrong(k) ==  \* the callable run without dispatch_once_f
    /\ pc[k] = "idle" /\ CanCall(k)
    /\ IF predicate # "zero"
       THEN /\ Goto(k, "returned")
            /\ UNCHANGED refs
       ELSE /\ Goto(k, "invoked")
            /\ refs' = [refs EXCEPT ![Func[k]] = @ + 1]
    /\ UNCHANGED <<predicate, runs, losers>>

CallToken(k) ==
    /\ pc[k] = "idle" /\ CanCall(k)
    /\ IF predicate # "zero"
       THEN /\ Goto(k, "returned")
            /\ UNCHANGED refs
       ELSE /\ Goto(k, "entering")
            /\ refs' = [refs EXCEPT ![Func[k]] = @ + 1]
    /\ UNCHANGED <<predicate, runs, losers>>

(* dispatch_once_f: the first to come runs its function, the others wait.        *)
Enter(k) ==
    /\ pc[k] = "entering"
    /\ IF predicate = "zero"
       THEN predicate' = "running" /\ Goto(k, "invoked")
       ELSE UNCHANGED predicate /\ Goto(k, "waiting")
    /\ UNCHANGED <<runs, refs, losers>>

Wake(k) ==
    /\ pc[k] = "waiting" /\ predicate = "done"
    /\ Goto(k, "lost")
    /\ losers' = losers \cup {k}
    /\ UNCHANGED <<predicate, runs, refs>>

(* _python_callback, as in DispatchQueue.                                        *)
Begin(k) ==
    /\ pc[k] = "invoked"
    /\ Goto(k, "running")
    /\ runs' = runs + 1
    /\ UNCHANGED <<predicate, refs, losers>>

End(k) ==
    /\ pc[k] = "running" /\ ~Suspended(k)
    /\ predicate' = "done"
    /\ Goto(k, "ran")
    /\ refs' = [refs EXCEPT ![Func[k]] = @ - 1]
    /\ UNCHANGED <<runs, losers>>

(* The call takes the lock again and returns. *)
Return(k) ==
    /\ pc[k] \in {"ran", "lost"}
    /\ Goto(k, "returned")
    /\ UNCHANGED <<predicate, runs, refs, losers>>

Next ==
    \E k \in Calls :
        CallToken(k) \/ Enter(k) \/ Wake(k) \/ Begin(k) \/ End(k) \/ Return(k)

Spec == Init /\ [][Next]_vars

(* libdispatch makes progress, a thread that asks for the interpreter lock gets   *)
(* it, and callables return.  Nobody is bound to make a call.                     *)
FairSpec ==
    /\ Spec
    /\ \A k \in Calls :
          WF_vars(Enter(k) \/ Wake(k) \/ Begin(k) \/ End(k) \/ Return(k))

-----------------------------------------------------------------------------
(* The types of the variables: no reference count goes below zero.               *)
TypeOK ==
    /\ predicate \in {"zero", "running", "done"}
    /\ pc \in [Calls -> {"idle", "entering", "waiting", "invoked", "running", "ran",
                         "lost", "returned"}]
    /\ runs \in Nat
    /\ refs \in [Funcs -> Nat]
    /\ losers \in SUBSET Calls

(* The callable of one call runs, and only one, however many threads call and     *)
(* whether or not the callable calls the token again ("Will only be called once").*)
RunsOnce == runs <= 1 /\ (predicate = "done" => runs = 1)

UnderWay(f) == {k \in Calls : Func[k] = f /\ pc[k] \in {"entering", "waiting", "invoked", "running"}}
Lost(f) == {k \in losers : Func[k] = f}

(* What becomes of the references: a callable is kept for every call that is      *)
(* under way in dispatch_once_f, and for every call that lost the race after it   *)
(* had passed the test; those are never given back.  Nothing else is kept, and    *)
(* the callable that runs is never freed under way.                               *)
OnceRefs ==
    /\ TypeOK
    /\ \A f \in Funcs : refs[f] = Cardinality(UnderWay(f)) + Cardinality(Lost(f))

(* A call that has got to dispatch_once_f returns, although calls are also made   *)
(* from inside the callable (those return at the test of the predicate).          *)
CallReturns == \A k \in Calls : pc[k] = "entering" ~> pc[k] = "returned"

-----------------------------------------------------------------------------
(* A claim of the documentation that the code does not keep (see README). *)

(* "only one will execute the callable, and all will wait for completion": a call *)
(* made by a thread of the program returns only once the callable is done.        *)
AllWait == \A k \in Calls : pc[k] = "returned" /\ Inside[k] = NoOne => predicate = "done"
=============================================================================
