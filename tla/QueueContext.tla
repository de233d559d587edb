---------------------------- MODULE QueueContext ----------------------------
(***************************************************************************)
(* Context data of a Queue (src/src/cygcd/_core.pyx): set_context, the     *)
(* registry _object_contexts that keeps value and finalizer under a        *)
(* number, and the native finalizer that libdispatch calls with that       *)
(* number after the queue's last release.                                  *)
(*                                                                         *)
(* Python code between two points where the interpreter lock may be given  *)
(* up is one step.  set_context has two such points: the call of the old   *)
(* context's finalizer, which is Python code of the program, and the "with *)
(* nogil" around dispatch_set_context.  A finalizer that itself calls      *)
(* set_context behaves as another thread that runs during the first.       *)
(***************************************************************************)
EXTENDS Integers, FiniteSets

CONSTANTS
    Clients,        \* Python threads
    Queues,         \* owned Queue objects
    FirstId,        \* _context_counter when the model starts
    MaxContexts,    \* bound on the set_context calls
    None

ASSUME ContextAssumption ==
    /\ FirstId \in Nat /\ MaxContexts \in Nat
    /\ None \notin Nat /\ None \notin Queues

Null == 0           \* the context pointer a number is converted to
Ids == FirstId..(FirstId + MaxContexts - 1)

VARIABLES
    counter,    \* _context_counter
    registry,   \* the numbers in _object_contexts
    current,    \* current[q]: _context_id, or None while _has_context is False
    native,     \* native[q]: the context pointer of the native queue
    wrapper,    \* wrapper[q]: "alive", "released" or "gone" (native queue disposed of)
    pc,         \* pc[c]: "idle", "finalizing" or "native"
    on, ctx,    \* on[c], ctx[c]: queue and context number c is busy with
    finalized,  \* finalized[i]: how often the finalizer of context i has been called
    owner,      \* history: owner[i]: the queue context i was set on
    raced       \* history: the queues on which two set_context calls have overlapped

vars == <<counter, registry, current, native, wrapper, pc, on, ctx, finalized, owner, raced>>

(* Definitions named ..._Wrong are deliberately faulty variants of the one that *)
(* follows: each breaks a property below, which shows what the property is for. *)

Init ==
    /\ counter = FirstId
    /\ registry = {}
    /\ current = [q \in Queues |-> None]
    /\ native = [q \in Queues |-> Null]
    /\ wrapper = [q \in Queues |-> "alive"]
    /\ pc = [c \in Clients |-> "idle"]
    /\ on = [c \in Clients |-> None]
    /\ ctx = [c \in Clients |-> None]
    /\ finalized = [i \in Ids |-> 0]
    /\ owner = [i \in Ids |-> None]
    /\ raced = {}

(* A set_context call on q begins. *)
Begun(c, q) ==
    raced' = IF \E d \in Clients \ {c} : pc[d] # "idle" /\ on[d] = q THEN raced \cup {q} ELSE raced

(* Starting the call of context i's finalizer, popped from the registry first;    *)
(* an entry that is no longer there is not finalized again.                       *)
Unregister(i) == registry' = registry \ {i}
Registered(q) == current[q] # None /\ current[q] \in registry

(* _register_context and the two assignments that follow it, then "with nogil".   *)
Register_Wrong(c, q, left) ==  \* _context_id kept once _has_context is True
    /\ counter \in Ids
    /\ counter' = counter + 1
    /\ registry' = left \cup {counter}
    /\ current' = [current EXCEPT ![q] = IF @ = None THEN counter ELSE @]
    /\ pc' = [pc EXCEPT ![c] = "native"]
    /\ on' = [on EXCEPT ![c] = q]
    /\ ctx' = [ctx EXCEPT ![c] = counter]
    /\ owner' = [owner EXCEPT ![counter] = q]

Register(c, q, left) ==
    /\ counter \in Ids
    /\ counter' = counter + 1
    /\ registry' = left \cup {counter}
    /\ current' = [current EXCEPT ![q] = counter]
    /\ pc' = [pc EXCEPT ![c] = "native"]
    /\ on' = [on EXCEPT ![c] = q]
    /\ ctx' = [ctx EXCEPT ![c] = counter]
    /\ owner' = [owner EXCEPT ![counter] = q]

(* set_context on a queue whose context, if any, is not in the registry. *)
SetContext(c, q) ==
    /\ pc[c] = "idle" /\ wrapper[q] = "alive"
    /\ ~Registered(q)
    /\ Begun(c, q)
    /\ Register(c, q, registry)
    /\ UNCHANGED <<native, wrapper, finalized>>

(* set_context on a queue that has one: the old entry leaves the registry and its *)
(* finalizer is called, during which other threads run ...                        *)
ReplaceContext_Wrong(c, q) ==  \* the entry found, and left in the registry
    /\ pc[c] = "idle" /\ wrapper[q] = "alive"
    /\ Registered(q) /\ counter \in Ids
    /\ Begun(c, q)
    /\ finalized' = [finalized EXCEPT ![current[q]] = @ + 1]
    /\ pc' = [pc EXCEPT ![c] = "finalizing"]
    /\ on' = [on EXCEPT ![c] = q]
    /\ ctx' = [ctx EXCEPT ![c] = current[q]]
    /\ UNCHANGED <<counter, registry, current, native, wrapper, owner>>

ReplaceContext(c, q) ==
    /\ pc[c] = "idle" /\ wrapper[q] = "alive"
    /\ Registered(q) /\ counter \in Ids
    /\ Begun(c, q)
    /\ Unregister(current[q])
    /\ finalized' = [finalized EXCEPT ![current[q]] = @ + 1]
    /\ pc' = [pc EXCEPT ![c] = "finalizing"]
    /\ on' = [on EXCEPT ![c] = q]
    /\ ctx' = [ctx EXCEPT ![c] = current[q]]
    /\ UNCHANGED <<counter, current, native, wrapper, owner>>

(* ... and the new context is registered when it has returned or raised.          *)
FinalizerReturns(c) ==
    /\ pc[c] = "finalizing"
    /\ Register(c, on[c], registry)
    /\ UNCHANGED <<native, wrapper, finalized, raced>>

(* dispatch_set_context, dispatch_set_finalizer_f. *)
NativeSetContext_Wrong(c) ==  \* without dispatch_set_finalizer_f
    /\ pc[c] = "native"
    /\ pc' = [pc EXCEPT ![c] = "idle"]
    /\ UNCHANGED <<counter, registry, current, native, wrapper, on, ctx, finalized, owner, raced>>

NativeSetContext(c) ==
    /\ pc[c] = "native"
    /\ native' = [native EXCEPT ![on[c]] = ctx[c]]
    /\ pc' = [pc EXCEPT ![c] = "idle"]
    /\ UNCHANGED <<counter, registry, current, wrapper, on, ctx, finalized, owner, raced>>

(* Queue.__dealloc__, no call on the queue being under way. *)
Dealloc(q) ==
    /\ wrapper[q] = "alive"
    /\ \A c \in Clients : pc[c] # "idle" => on[c] # q
    /\ wrapper' = [wrapper EXCEPT ![q] = "released"]
    /\ UNCHANGED <<counter, registry, current, native, pc, on, ctx, finalized, owner, raced>>

(* _python_context_finalizer, which libdispatch calls with the context pointer    *)
(* when it disposes of the queue; it does nothing for the null pointer.           *)
NativeFinalize(q) ==
    /\ wrapper[q] = "released"
    /\ wrapper' = [wrapper EXCEPT ![q] = "gone"]
    /\ IF native[q] # Null /\ native[q] \in registry
       THEN /\ Unregister(native[q])
            /\ finalized' = [finalized EXCEPT ![native[q]] = @ + 1]
       ELSE UNCHANGED <<registry, finalized>>
    /\ UNCHANGED <<counter, current, native, pc, on, ctx, owner, raced>>

Next ==
    \/ \E c \in Clients :
        \/ \E q \in Queues : SetContext(c, q) \/ ReplaceContext(c, q)
        \/ FinalizerReturns(c) \/ NativeSetContext(c)
    \/ \E q \in Queues : Dealloc(q) \/ NativeFinalize(q)

Spec == Init /\ [][Next]_vars

-----------------------------------------------------------------------------
(* The types of the variables: context numbers stay within those given out.        *)
TypeOK ==
    /\ counter \in FirstId..(FirstId + MaxContexts)
    /\ registry \subseteq Ids
    /\ current \in [Queues -> Ids \cup {None}]
    /\ native \in [Queues -> Ids \cup {Null}]
    /\ wrapper \in [Queues -> {"alive", "released", "gone"}]
    /\ pc \in [Clients -> {"idle", "finalizing", "native"}]
    /\ on \in [Clients -> Queues \cup {None}]
    /\ ctx \in [Clients -> Ids \cup {None}]
    /\ finalized \in [Ids -> 0..2]
    /\ owner \in [Ids -> Queues \cup {None}]
    /\ raced \subseteq Queues

(* No finalizer is called twice, whichever of replacement by two threads and       *)
(* disposal of the queue comes first, and none while its context is registered.    *)
FinalizedOnce ==
    \A i \in Ids : finalized[i] <= 1 /\ (finalized[i] = 1 => i \notin registry)

(* Except while a replacement calls the old finalizer, the context number of a     *)
(* queue is one the registry knows: get_context() finds the value that was set     *)
(* last, also after a race of two set_context calls.                               *)
CurrentRegistered ==
  /\ TypeOK
  /\ \A q \in Queues :
        /\ wrapper[q] = "alive" /\ current[q] # None
        /\ \A c \in Clients : pc[c] = "finalizing" => on[c] # q
        => current[q] \in registry /\ finalized[current[q]] = 0

(* If no two set_context calls on a queue have overlapped, then all the contexts   *)
(* ever set on it have been finalized, once each, when the queue is disposed of,   *)
(* but for the one whose number makes it the null pointer.                         *)
QuietFinalized ==
    \A q \in Queues \ raced : wrapper[q] = "gone" =>
        \A i \in Ids \ {Null} : owner[i] = q => finalized[i] = 1

-----------------------------------------------------------------------------
(* A claim of the documentation that the code does not keep (see README). *)

(* "finalizer: Optional callable with no arguments, called when the queue is       *)
(* deallocated or context is replaced": once every queue has been disposed of, no  *)
(* context is left whose finalizer was never called.                               *)
AllFinalized == (\A q \in Queues : wrapper[q] = "gone") => registry = {}

=============================================================================
