------------------------ MODULE QueueContext_proofs ------------------------
(***************************************************************************)
(* Proofs about QueueContext, for every set of threads and queues and      *)
(* every number of contexts, wherever the counting begins.                 *)
(***************************************************************************)
EXTENDS QueueContext, TLAPS

(* A number not given out yet belongs to nobody; no finalizer is called twice.    *)
Numbers ==
    \A i \in Ids :
        /\ i >= counter => i \notin registry /\ finalized[i] = 0 /\ owner[i] = None
        /\ finalized[i] <= 1
        /\ i \in registry => finalized[i] = 0

(* The numbers a queue, its native queue and a call on it know are the queue's.   *)
Owned ==
    /\ \A q \in Queues :
        /\ current[q] # None => owner[current[q]] = q
        /\ native[q] # Null => owner[native[q]] = q
    /\ \A c \in Clients :
        /\ pc[c] # "idle" => on[c] \in Queues /\ wrapper[on[c]] = "alive"
        /\ pc[c] = "native" => ctx[c] \in Ids /\ owner[ctx[c]] = on[c]

(* Unless a call on it is in the old finalizer, a queue's context is registered.  *)
Known ==
    \A q \in Queues :
        /\ wrapper[q] # "gone" /\ current[q] # None
        /\ \A c \in Clients : pc[c] = "finalizing" => on[c] # q
        => current[q] \in registry

(* As long as no two calls on a queue have overlapped, all of its contexts but    *)
(* the current one are finalized, and the native queue knows the current one      *)
(* except while a call is about to set it.                                        *)
Quiet ==
    \A q \in Queues \ raced :
        /\ \A c, d \in Clients :
              pc[c] # "idle" /\ pc[d] # "idle" /\ on[c] = q /\ on[d] = q => c = d
        /\ \A i \in Ids : owner[i] = q =>
              finalized[i] = 1 \/ (wrapper[q] # "gone" /\ i = current[q])
                               \/ (wrapper[q] = "gone" /\ i = Null)
        /\ (\A c \in Clients : pc[c] = "native" => on[c] # q) =>
              native[q] = IF current[q] = None THEN Null ELSE current[q]
        /\ \A c \in Clients : on[c] = q =>
              /\ pc[c] = "native" => ctx[c] = current[q]
              /\ pc[c] = "finalizing" => current[q] # None /\ finalized[current[q]] = 1

(* The inductive invariant. *)
ContextInv == TypeOK /\ Numbers /\ Owned /\ Known /\ Quiet

-----------------------------------------------------------------------------
(* Context numbers are natural numbers, and None is not one. *)
LEMMA IdFacts ==
    /\ Ids \subseteq Nat /\ None \notin Ids /\ None \notin Queues /\ Null \in Nat
    /\ \A i : i \in Ids <=> i \in Int /\ FirstId <= i /\ i < FirstId + MaxContexts
    /\ FirstId \in Nat /\ MaxContexts \in Nat
  BY ContextAssumption DEF Ids, Null

(* Giving out a number keeps the invariant: what set_context does once an earlier *)
(* context of the queue, if there is one, is out of the registry.                 *)
LEMMA RegisterStep ==
    ASSUME ContextInv, NEW c \in Clients, NEW q \in Queues, Register(c, q, registry),
           wrapper[q] = "alive", UNCHANGED <<native, wrapper, finalized>>,
           raced \subseteq raced', raced' \subseteq Queues,
           q \notin raced' => \A d \in Clients \ {c} : pc[d] # "idle" => on[d] # q,
           pc[c] = "idle" \/ (pc[c] = "finalizing" /\ on[c] = q),
           q \notin raced' => current[q] = None \/ finalized[current[q]] = 1
    PROVE  ContextInv'
<1>. USE IdFacts DEF Register
<1>1. TypeOK'
  BY DEF ContextInv, TypeOK
<1>2. Numbers'
  BY DEF ContextInv, TypeOK, Numbers
<1>3. Owned'
  BY DEF ContextInv, TypeOK, Numbers, Owned
<1>4. Known'
  BY DEF ContextInv, TypeOK, Numbers, Owned, Known
<1>5. Quiet'
  BY DEF ContextInv, TypeOK, Numbers, Owned, Quiet
<1>. QED
  BY <1>1, <1>2, <1>3, <1>4, <1>5 DEF ContextInv

(* Every step keeps the invariant. *)
LEMMA ContextStep ==
    ASSUME ContextInv, [Next]_vars
    PROVE  ContextInv'
<1>. USE IdFacts
<1>1. ASSUME NEW c \in Clients, NEW q \in Queues, SetContext(c, q)
      PROVE  ContextInv'
  <2>1. q \notin raced' => current[q] = None
    BY <1>1 DEF SetContext, Begun, Registered, ContextInv, TypeOK, Known
  <2>. QED
    BY <1>1, <2>1, RegisterStep DEF SetContext, Begun, ContextInv, TypeOK
<1>2. ASSUME NEW c \in Clients, NEW q \in Queues, ReplaceContext(c, q)
      PROVE  ContextInv'
  <2>. USE <1>2 DEF ReplaceContext, Registered, Begun, Unregister
  <2>1. TypeOK'
    <3>1. current[q] \in Ids /\ finalized[current[q]] = 0
      BY DEF ContextInv, TypeOK, Numbers
    <3>2. finalized' \in [Ids -> 0..2]
      BY <3>1 DEF ContextInv, TypeOK
    <3>. QED
      BY <3>1, <3>2 DEF ContextInv, TypeOK
  <2>2. Numbers'
    BY DEF ContextInv, TypeOK, Numbers
  <2>3. Owned'
    BY DEF ContextInv, TypeOK, Owned
  <2>4. Known'
    BY DEF ContextInv, TypeOK, Owned, Known
  <2>5. Quiet'
    BY DEF ContextInv, TypeOK, Numbers, Owned, Quiet
  <2>. QED
    BY <2>1, <2>2, <2>3, <2>4, <2>5 DEF ContextInv
<1>3. ASSUME NEW c \in Clients, FinalizerReturns(c)
      PROVE  ContextInv'
  <2>1. on[c] \in Queues /\ wrapper[on[c]] = "alive"
    BY <1>3 DEF FinalizerReturns, ContextInv, Owned
  <2>2. on[c] \notin raced' =>
          /\ \A d \in Clients \ {c} : pc[d] # "idle" => on[d] # on[c]
          /\ current[on[c]] = None \/ finalized[current[on[c]]] = 1
    BY <1>3, <2>1 DEF FinalizerReturns, ContextInv, Quiet
  <2>. QED
    BY <1>3, <2>1, <2>2, RegisterStep DEF FinalizerReturns, ContextInv, TypeOK
<1>4. ASSUME NEW c \in Clients, NativeSetContext(c)
      PROVE  ContextInv'
  <2>. USE <1>4 DEF NativeSetContext
  <2>1. TypeOK' /\ Numbers' /\ Owned' /\ Known'
    BY DEF ContextInv, TypeOK, Numbers, Owned, Known
  <2>2. Quiet'
    BY DEF ContextInv, TypeOK, Owned, Quiet
  <2>. QED
    BY <2>1, <2>2 DEF ContextInv
<1>5. ASSUME NEW q \in Queues, Dealloc(q)
      PROVE  ContextInv'
  BY <1>5 DEF Dealloc, ContextInv, TypeOK, Numbers, Owned, Known, Quiet
<1>6. ASSUME NEW q \in Queues, NativeFinalize(q)
      PROVE  ContextInv'
  <2>. USE <1>6 DEF NativeFinalize, Unregister
  <2>1. TypeOK'
    <3>1. native[q] \in registry => native[q] \in Ids /\ finalized[native[q]] = 0
      BY DEF ContextInv, TypeOK, Numbers
    <3>2. finalized' \in [Ids -> 0..2]
      BY <3>1 DEF ContextInv, TypeOK
    <3>. QED
      BY <3>1, <3>2 DEF ContextInv, TypeOK
  <2>2. Numbers'
    BY DEF ContextInv, TypeOK, Numbers
  <2>3. Owned'
    BY DEF ContextInv, TypeOK, Owned
  <2>4. Known'
    BY DEF ContextInv, TypeOK, Owned, Known
  <2>5. Quiet'
    BY DEF ContextInv, TypeOK, Numbers, Owned, Known, Quiet
  <2>. QED
    BY <2>1, <2>2, <2>3, <2>4, <2>5 DEF ContextInv
<1>7. CASE UNCHANGED vars
  BY <1>7 DEF vars, ContextInv, TypeOK, Numbers, Owned, Known, Quiet
<1>. QED
  BY <1>1, <1>2, <1>3, <1>4, <1>5, <1>6, <1>7 DEF Next

-----------------------------------------------------------------------------
(* The inductive invariant holds of every execution. *)
THEOREM ContextInvariant == Spec => []ContextInv
<1>1. Init => ContextInv
  BY IdFacts DEF Init, ContextInv, TypeOK, Numbers, Owned, Known, Quiet
<1>2. ContextInv /\ [Next]_vars => ContextInv'
  BY ContextStep
<1>. QED
  BY <1>1, <1>2, PTL DEF Spec

(* Whatever replaces contexts and disposes of queues, and in whatever order, no   *)
(* finalizer is called twice.                                                     *)
THEOREM ContextFinalizedOnce == Spec => []FinalizedOnce
<1>1. ContextInv => FinalizedOnce
  BY IdFacts DEF ContextInv, TypeOK, Numbers, FinalizedOnce
<1>. QED
  BY <1>1, ContextInvariant, PTL

(* What get_context() looks up is registered, also after set_context calls raced. *)
THEOREM ContextCurrentRegistered == Spec => []CurrentRegistered
<1>1. ContextInv => CurrentRegistered
  BY IdFacts DEF ContextInv, TypeOK, Numbers, Known, CurrentRegistered
<1>. QED
  BY <1>1, ContextInvariant, PTL

(* On a queue whose set_context calls never overlap, every finalizer has been     *)
(* called once when the queue is disposed of, the null one excepted.              *)
THEOREM ContextQuietFinalized == Spec => []QuietFinalized
<1>1. ContextInv => QuietFinalized
  BY DEF ContextInv, Quiet, QuietFinalized
<1>. QED
  BY <1>1, ContextInvariant, PTL
=============================================================================
