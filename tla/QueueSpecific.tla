--------------------------- MODULE QueueSpecific ---------------------------
(***************************************************************************)
(* Queue-specific data (src/src/cygcd/_core.pyx): set_specific, the two    *)
(* forms of get_specific, the dictionaries _queue_specific_data and        *)
(* _queue_specific_keys, and the destructor libdispatch runs for a value   *)
(* that is replaced, removed or disposed of with its queue.                *)
(*                                                                         *)
(* Keys and queues are named by their addresses, id(): two objects have    *)
(* the same address only if the first was freed before the second was      *)
(* created.  Python code between two points where the interpreter lock is  *)
(* given up is one step.                                                   *)
(***************************************************************************)
EXTENDS Integers, FiniteSets, Sequences

CONSTANTS
    Clients,            \* Python threads
    Queues,             \* the addresses of Queue objects
    Hierarchy,          \* Hierarchy[q]: q, its target, the target of that, ...
    Keys, Address,      \* key objects, and the address of each
    Values,             \* the objects stored
    MaxSets,            \* bound on the set_specific calls
    None

ASSUME SpecificAssumption ==
    /\ IsFiniteSet(Clients) /\ IsFiniteSet(Queues) /\ IsFiniteSet(Keys)
    /\ \A q \in Queues : Hierarchy[q] \in Seq(Queues) /\ Hierarchy[q] # <<>> /\ Hierarchy[q][1] = q
    /\ MaxSets \in Nat
    /\ None \notin Values \cup Keys \cup Queues

Addresses == {Address[k] : k \in Keys}
Slots == Queues \X Addresses

VARIABLES
    key,        \* key[k]: "unborn", "held" by the program, or "dropped" by it
    kept,       \* the keys in _queue_specific_keys
    storage,    \* storage[s]: the value in _queue_specific_data, or None
    table,      \* table[s]: what libdispatch holds for queue and key, and (history)
                \*           under which key object it was set
    destroying, \* destroying[v]: destructor calls for v that libdispatch has still to make
    refs,       \* refs[v]: references on v beyond those of the program
    held,       \* the values the program itself refers to
    wrapper,    \* wrapper[q]: "alive", "released" or "gone" (native queue disposed of)
    call,       \* call[c]: the call c is in the middle of
    sets,       \* the number of set_specific calls
    intact      \* history: intact[c]: where c has read, for as long as that is not written

vars == <<key, kept, storage, table, destroying, refs, held, wrapper, call, sets, intact>>

NoEntry == [v |-> None, by |-> None]
Idle == [at |-> "idle", q |-> None, k |-> None, v |-> None]

(* Definitions named ..._Wrong are deliberately faulty variants of the one that *)
(* follows: each breaks a property below, which shows what the property is for. *)

Init ==
    /\ key = [k \in Keys |-> "unborn"]
    /\ kept = {}
    /\ storage = [s \in Slots |-> None]
    /\ table = [s \in Slots |-> NoEntry]
    /\ destroying = [v \in Values |-> 0]
    /\ refs = [v \in Values |-> 0]
    /\ held = Values
    /\ wrapper = [q \in Queues |-> "alive"]
    /\ call = [c \in Clients |-> Idle]
    /\ sets = 0
    /\ intact = [c \in Clients |-> None]

-----------------------------------------------------------------------------
(* The life of the objects. *)

KeyAlive(k) == key[k] = "held" \/ k \in kept \/ \E c \in Clients : call[c].k = k

(* A value is alive while the program, a dictionary, libdispatch or the argument  *)
(* of a call refers to it.                                                        *)
Alive(v) == v \in held \/ refs[v] > 0 \/ \E c \in Clients : call[c].at = "set" /\ call[c].v = v

NewKey(k) ==
    /\ key[k] = "unborn"
    /\ \A j \in Keys : KeyAlive(j) => Address[j] # Address[k]
    /\ key' = [key EXCEPT ![k] = "held"]
    /\ UNCHANGED <<kept, storage, table, destroying, refs, held, wrapper, call, sets, intact>>

DropKey(k) ==
    /\ key[k] = "held"
    /\ key' = [key EXCEPT ![k] = "dropped"]
    /\ UNCHANGED <<kept, storage, table, destroying, refs, held, wrapper, call, sets, intact>>

DropValue(v) ==
    /\ v \in held
    /\ held' = held \ {v}
    /\ UNCHANGED <<key, kept, storage, table, destroying, refs, wrapper, call, sets, intact>>

-----------------------------------------------------------------------------
(* set_specific up to "with nogil": the key is kept for good, and a value gets    *)
(* one reference from the dictionary, in place of the former value, and one that  *)
(* is handed to libdispatch.  None asks to remove the value.                      *)
Keep_Wrong(k) == kept  \* the key not kept
Keep(k) == kept \cup {k}

One(b) == IF b THEN 1 ELSE 0

Handed_Wrong(v) == [u \in Values |-> 0]  \* without Py_INCREF
Handed(v) == [u \in Values |-> One(u = v)]

SetSpecific(c, q, k, v) ==
    /\ call[c] = Idle /\ wrapper[q] = "alive" /\ key[k] = "held" /\ sets < MaxSets
    /\ sets' = sets + 1
    /\ kept' = Keep(k)
    /\ call' = [call EXCEPT ![c] = [at |-> "set", q |-> q, k |-> k, v |-> v]]
    /\ \/ /\ v = None
          /\ UNCHANGED <<storage, refs>>
       \/ /\ v \in held
          /\ storage' = [storage EXCEPT ![<<q, Address[k]>>] = v]
          /\ refs' = [u \in Values |->
                refs[u] + Handed(v)[u] + One(u = v) - One(u = storage[<<q, Address[k]>>])]
    /\ UNCHANGED <<key, table, destroying, held, wrapper, intact>>

(* dispatch_queue_set_specific: the former value is left to its destructor.       *)
NativeSet(c) ==
    LET slot == <<call[c].q, Address[call[c].k]>>  v == call[c].v  old == table[slot].v IN
    /\ call[c].at = "set"
    /\ table' = [table EXCEPT ![slot] =
                    IF v = None THEN NoEntry ELSE [v |-> v, by |-> call[c].k]]
    /\ destroying' = [u \in Values |-> destroying[u] + One(u = old)]
    /\ call' = [call EXCEPT ![c] = IF v = None THEN [@ EXCEPT !.at = "pop"] ELSE Idle]
    /\ intact' = [d \in Clients |-> IF intact[d] = slot THEN None ELSE intact[d]]
    /\ UNCHANGED <<key, kept, storage, refs, held, wrapper, sets>>

(* After a removal, with the lock again: the dictionary's entry goes too.         *)
PopStorage(c) ==
    LET slot == <<call[c].q, Address[call[c].k]>> IN
    /\ call[c].at = "pop"
    /\ storage' = [storage EXCEPT ![slot] = None]
    /\ refs' = [u \in Values |-> refs[u] - One(u = storage[slot])]
    /\ call' = [call EXCEPT ![c] = Idle]
    /\ UNCHANGED <<key, kept, table, destroying, held, wrapper, sets, intact>>

(* _specific_destructor, which runs on a thread of libdispatch with the lock.     *)
Destructor_Wrong(v) ==  \* without Py_DECREF
    /\ destroying[v] > 0
    /\ destroying' = [destroying EXCEPT ![v] = @ - 1]
    /\ UNCHANGED <<key, kept, storage, table, refs, held, wrapper, call, sets, intact>>

Destructor(v) ==
    /\ destroying[v] > 0
    /\ destroying' = [destroying EXCEPT ![v] = @ - 1]
    /\ refs' = [refs EXCEPT ![v] = @ - 1]
    /\ UNCHANGED <<key, kept, storage, table, held, wrapper, call, sets, intact>>

-----------------------------------------------------------------------------
(* Queue.get_specific asks one queue; the function get_specific, called by code   *)
(* that a queue runs, needs no wrapper of that queue.  Both get by without the    *)
(* lock between the native call and the return, with a plain pointer in hand.     *)
GetSpecific(c, q, k, from) ==
    /\ call[c] = Idle /\ key[k] = "held"
    /\ wrapper[q] = "alive" \/ (from = "current" /\ wrapper[q] = "released")
    /\ call' = [call EXCEPT ![c] = [at |-> from, q |-> q, k |-> k, v |-> None]]
    /\ UNCHANGED <<key, kept, storage, table, destroying, refs, held, wrapper, sets, intact>>

Asked(c) == IF call[c].at = "queue" THEN <<call[c].q>> ELSE Hierarchy[call[c].q]

(* libdispatch: the slot of the first of the queues that has an entry for address *)
(* a, or None.                                                                    *)
Found(slot, queues, a) ==
    \/ /\ slot = None
       /\ \A i \in DOMAIN queues : table[<<queues[i], a>>] = NoEntry
    \/ \E i \in DOMAIN queues :
          /\ slot = <<queues[i], a>> /\ table[<<queues[i], a>>] # NoEntry
          /\ \A j \in 1..(i - 1) : table[<<queues[j], a>>] = NoEntry

NativeGet(c) ==
    /\ call[c].at \in {"queue", "current"}
    /\ \E slot \in Slots \cup {None} :
        /\ Found(slot, Asked(c), Address[call[c].k])
        /\ call' = [call EXCEPT ![c] =
                 [at |-> IF call[c].at = "queue" THEN "queueRead" ELSE "currentRead",
                  q |-> call[c].q, k |-> call[c].k,
                  v |-> IF slot = None THEN None ELSE table[slot].v]]
        /\ intact' = [intact EXCEPT ![c] = slot]
    /\ UNCHANGED <<key, kept, storage, table, destroying, refs, held, wrapper, sets>>

Reading(c) == call[c].at \in {"queueRead", "currentRead"}

(* With the lock again, "return <object>result" takes the reference.  For a value *)
(* that was freed in between the program has no defined continuation.             *)
GetReturn(c) ==
    /\ Reading(c)
    /\ call[c].v # None => Alive(call[c].v)
    /\ held' = held \cup ({call[c].v} \ {None})
    /\ call' = [call EXCEPT ![c] = Idle]
    /\ intact' = [intact EXCEPT ![c] = None]
    /\ UNCHANGED <<key, kept, storage, table, destroying, refs, wrapper, sets>>

-----------------------------------------------------------------------------
(* Queue.__dealloc__: no method of the queue is being called, as the call would   *)
(* hold its self; code that the queue runs may call get_specific.                 *)
Dealloc(q) ==
    /\ wrapper[q] = "alive"
    /\ \A c \in Clients : call[c].q = q => call[c].at \in {"current", "currentRead"}
    /\ wrapper' = [wrapper EXCEPT ![q] = "released"]
    /\ UNCHANGED <<key, kept, storage, table, destroying, refs, held, call, sets, intact>>

(* The native queue goes once it runs no code and no other queue targets it; all  *)
(* that it holds is left to the destructor.  Nothing touches the dictionary.      *)
NativeDispose(q) ==
    /\ wrapper[q] = "released"
    /\ \A c \in Clients : call[c].q # q
    /\ \A r \in Queues \ {q} :
          q \in {Hierarchy[r][i] : i \in DOMAIN Hierarchy[r]} => wrapper[r] = "gone"
    /\ wrapper' = [wrapper EXCEPT ![q] = "gone"]
    /\ table' = [s \in Slots |-> IF s[1] = q THEN NoEntry ELSE table[s]]
    /\ destroying' = [u \in Values |->
          destroying[u] + Cardinality({a \in Addresses : table[<<q, a>>].v = u})]
    /\ intact' = [c \in Clients |->
          IF intact[c] \in {q} \X Addresses THEN None ELSE intact[c]]
    /\ UNCHANGED <<key, kept, storage, refs, held, call, sets>>

(* A new Queue at the address of one that is gone: what the dictionary still has  *)
(* for that address is now taken for the new queue's.                             *)
Reuse(q) ==
    /\ wrapper[q] = "gone"
    /\ \A i \in 2..Len(Hierarchy[q]) : wrapper[Hierarchy[q][i]] = "alive"
    /\ wrapper' = [wrapper EXCEPT ![q] = "alive"]
    /\ UNCHANGED <<key, kept, storage, table, destroying, refs, held, call, sets, intact>>

Next ==
    \/ \E k \in Keys : NewKey(k) \/ DropKey(k)
    \/ \E v \in Values : DropValue(v) \/ Destructor(v)
    \/ \E c \in Clients :
        \/ \E q \in Queues, k \in Keys :
            \/ \E v \in Values \cup {None} : SetSpecific(c, q, k, v)
            \/ \E from \in {"queue", "current"} : GetSpecific(c, q, k, from)
        \/ NativeSet(c) \/ PopStorage(c) \/ NativeGet(c) \/ GetReturn(c)
    \/ \E q \in Queues : Dealloc(q) \/ NativeDispose(q) \/ Reuse(q)

Spec == Init /\ [][Next]_vars

-----------------------------------------------------------------------------
(* The types of the variables: no reference count goes below zero.               *)
TypeOK ==
    /\ key \in [Keys -> {"unborn", "held", "dropped"}]
    /\ kept \subseteq Keys
    /\ storage \in [Slots -> Values \cup {None}]
    /\ table \in [Slots -> [v : Values \cup {None}, by : Keys \cup {None}]]
    /\ destroying \in [Values -> Nat]
    /\ refs \in [Values -> Nat]
    /\ held \subseteq Values
    /\ wrapper \in [Queues -> {"alive", "released", "gone"}]
    /\ call \in [Clients -> [at : {"idle", "set", "pop", "queue", "current",
                                   "queueRead", "currentRead"},
                             q : Queues \cup {None}, k : Keys \cup {None},
                             v : Values \cup {None}]]
    /\ sets \in 0..MaxSets
    /\ intact \in [Clients -> Slots \cup {None}]

(* The references on a value are those of the dictionary, of libdispatch's table, *)
(* of destructor calls still to come and of calls on their way to libdispatch,    *)
(* whatever the order in which racing calls reach dictionary and table.           *)
SpecificRefs ==
  /\ TypeOK
  /\ \A v \in Values :
        refs[v] = Cardinality({s \in Slots : storage[s] = v})
                + Cardinality({s \in Slots : table[s].v = v})
                + destroying[v]
                + Cardinality({c \in Clients : call[c].at = "set" /\ call[c].v = v})

(* A value that get_specific has read without the lock is still there when it     *)
(* takes its reference, unless its place was written in between: that place alone *)
(* keeps it, whatever becomes of the dictionary's entry, of the wrapper and of    *)
(* the same value elsewhere.                                                      *)
GetAlive ==
    \A c \in Clients :
        Reading(c) /\ call[c].v # None /\ intact[c] # None => Alive(call[c].v)

(* Keys are told apart by address, yet none is found under the address of another *)
(* that has been freed: a value is read with the key object it was set with.      *)
KeysNotConfused ==
    \A k \in Keys, s \in Slots :
        key[k] = "held" /\ s[2] = Address[k] /\ table[s] # NoEntry => table[s].by = k

-----------------------------------------------------------------------------
(* A claim of the documentation that the code does not keep (see README). *)

(* "Returns: The stored value, or None if not set": what get_specific is about to *)
(* return is an object that has not been freed.                                   *)
ReturnsStored ==
    \A c \in Clients : Reading(c) /\ call[c].v # None => Alive(call[c].v)
=============================================================================
