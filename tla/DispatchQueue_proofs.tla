----------------------- MODULE DispatchQueue_proofs -----------------------
(***************************************************************************)
(* Proofs about DispatchQueue, for every set of threads, submissions,      *)
(* queues and callables.                                                   *)
(***************************************************************************)
EXTENDS DispatchQueue, FiniteSetTheorems, TLAPS

-----------------------------------------------------------------------------
(* Facts used by several steps. *)

(* What the type invariant says of the call and the callable of a step. *)
LEMMA TypeFacts ==
    ASSUME TypeOK
    PROVE  /\ NoCall \in Calls
           /\ \A c \in Ctx : call[c] \in Calls
           /\ \A f \in Funcs : refs[f] \in Nat
           /\ Func \in [Tasks -> Funcs]
  BY FuncAssumption DEF TypeOK, NoCall, Calls

(* Recording a well-formed call keeps `call` well-formed. *)
LEMMA CallTyped ==
    ASSUME TypeOK, NEW c \in Ctx, NEW r \in Calls
    PROVE  [call EXCEPT ![c] = r] \in [Ctx -> Calls]
  BY DEF TypeOK

(* The submissions that hold a reference on a callable are finitely many. *)
LEMMA HeldFinite ==
    \A f : IsFiniteSet(Held(f)) /\ Cardinality(Held(f)) \in Nat
  <1>. TAKE f
  <1>1. Held(f) \in SUBSET Tasks
    BY DEF Held
  <1>. QED
    BY <1>1, FiniteAssumption, FS_Subset, FS_CardinalityType

(* The callable of a submission in flight is referenced. *)
LEMMA InFlightReferenced ==
    ASSUME TypeOK, RefAccounting, NEW t \in Tasks, phase[t] \in InFlight
    PROVE  refs[Func[t]] > 0
  <1>1. Func[t] \in Funcs /\ refs[Func[t]] \in Nat
    BY FuncAssumption DEF TypeOK
  <1>2. t \in Held(Func[t])
    BY DEF Held
  <1>3. Cardinality(Held(Func[t])) # 0
    BY <1>2, HeldFinite, FS_EmptySet
  <1>. QED
    BY <1>1, <1>3, HeldFinite DEF RefAccounting

-----------------------------------------------------------------------------
(* Each conjunct of QueueInv is preserved, action by action. *)

(* Every step keeps the types. *)
LEMMA TypeStep ==
    ASSUME QueueInv, [Next]_vars
    PROVE  TypeOK'
<1>0. TypeOK /\ CallsNamed /\ RefAccounting
  BY DEF QueueInv
<1>. USE <1>0, TypeFacts DEF TypeOK, EnterNative, LeaveNative, InPython, wrapperVars, nativeVars, taskVars, refVars
<1>1. ASSUME NEW c \in Ctx, TakeGIL(c)
      PROVE  TypeOK'
  BY <1>1 DEF TakeGIL
<1>2. ASSUME NEW c \in Ctx, DropGIL(c)
      PROVE  TypeOK'
  BY <1>2 DEF DropGIL
<1>3. ASSUME NEW c \in Ctx, NEW q \in Queues, NEW t \in Tasks, NEW m \in Methods, Submit(c, q, t, m)
      PROVE  TypeOK'
  <2>1. [op |-> "submit", on |-> q, arg |-> t] \in Calls
    BY <1>3 DEF Calls
  <2>2. Func[t] \in Funcs /\ refs[Func[t]] + 1 \in Nat
    BY <1>3
  <2>3. before' \in [Tasks -> SUBSET Tasks]
    BY <1>3 DEF Submit
  <2>4. call' \in [Ctx -> Calls]
    BY <1>3, <2>1, CallTyped DEF Submit
  <2>. QED
    BY <1>3, <2>2, <2>3, <2>4 DEF Submit, InFlight
<1>4. ASSUME NEW c \in Ctx, NativeEnqueue(c)
      PROVE  TypeOK'
  <2>. DEFINE u == call[c].arg
  <2>1. call[c] \in Calls /\ call[c].op = "submit" /\ u \in Tasks
    BY <1>4 DEF NativeEnqueue, CallsNamed
  <2>2. phase' \in [Tasks -> {"new", "done"} \cup InFlight]
    BY <1>4, <2>1 DEF NativeEnqueue, InFlight
  <2>3. ahead' \in [Tasks -> SUBSET Tasks]
    BY <1>4, <2>1 DEF NativeEnqueue, Behind
  <2>4. [call[c] EXCEPT !.op = "wait"] \in Calls
    BY <2>1 DEF Calls
  <2>5. \/ call' = [call EXCEPT ![c] = [call[c] EXCEPT !.op = "wait"]]
        \/ call' = [call EXCEPT ![c] = NoCall]
    BY <1>4 DEF NativeEnqueue
  <2>6. call' \in [Ctx -> Calls]
    BY <1>4, <2>4, <2>5, CallTyped
  <2>. QED
    BY <1>4, <2>2, <2>3, <2>6 DEF NativeEnqueue
<1>5. ASSUME NEW t \in Tasks, AfterFires(t)
      PROVE  TypeOK'
  BY <1>5 DEF AfterFires, Behind, InFlight
<1>6. ASSUME NEW t \in Tasks, NativeInvoke(t)
      PROVE  TypeOK'
  BY <1>6 DEF NativeInvoke, InFlight
<1>7. ASSUME NEW t \in Tasks, TrampolineBegin(t)
      PROVE  TypeOK'
  BY <1>7 DEF TrampolineBegin, InFlight, Ctx
<1>8. ASSUME NEW t \in Tasks, TrampolineEnd(t)
      PROVE  TypeOK'
  <2>1. Func[t] \in Funcs /\ refs[Func[t]] - 1 \in Nat
    BY <1>8, InFlightReferenced DEF TrampolineEnd, Runnable, InFlight
  <2>. QED
    BY <1>8, <2>1 DEF TrampolineEnd
<1>9. ASSUME NEW c \in Ctx, SyncReturn(c)
      PROVE  TypeOK'
  <2>1. call' \in [Ctx -> Calls]
    BY <1>9, CallTyped DEF SyncReturn
  <2>. QED
    BY <1>9, <2>1 DEF SyncReturn, CallsNamed
<1>10. ASSUME NEW c \in Ctx, NEW q \in Queues, Suspend(c, q)
      PROVE  TypeOK'
  <2>1. [op |-> "suspend", on |-> q, arg |-> NoQueue] \in Calls
    BY <1>10 DEF Calls
  <2>. QED
    BY <1>10, <2>1, CallTyped DEF Suspend, InFlight
<1>11. ASSUME NEW c \in Ctx, NativeSuspend(c)
      PROVE  TypeOK'
  <2>1. call' \in [Ctx -> Calls]
    BY <1>11, CallTyped DEF NativeSuspend
  <2>. QED
    BY <1>11, <2>1 DEF NativeSuspend, CallsNamed
<1>12. ASSUME NEW c \in Ctx, NEW q \in Queues, Resume(c, q)
      PROVE  TypeOK'
  <2>1. [op |-> "resume", on |-> q, arg |-> NoQueue] \in Calls
    BY <1>12 DEF Calls
  <2>. QED
    BY <1>12, <2>1, CallTyped DEF Resume, InFlight
<1>13. ASSUME NEW c \in Ctx, NativeResume(c)
      PROVE  TypeOK'
  <2>1. call' \in [Ctx -> Calls]
    BY <1>13, CallTyped DEF NativeResume
  <2>. QED
    BY <1>13, <2>1 DEF NativeResume, CallsNamed
<1>14. ASSUME NEW c \in Ctx, NEW q \in Queues, Activate(c, q)
      PROVE  TypeOK'
  <2>1. [op |-> "activate", on |-> q, arg |-> NoQueue] \in Calls
    BY <1>14 DEF Calls
  <2>. QED
    BY <1>14, <2>1, CallTyped DEF Activate, InFlight
<1>15. ASSUME NEW c \in Ctx, NativeActivate(c)
      PROVE  TypeOK'
  <2>1. [call[c] EXCEPT !.op = "activated"] \in Calls
    BY <1>15 DEF Calls
  <2>2. call' = [call EXCEPT ![c] = [call[c] EXCEPT !.op = "activated"]]
    BY <1>15 DEF NativeActivate
  <2>3. call' \in [Ctx -> Calls]
    BY <1>15, <2>1, <2>2, CallTyped
  <2>. QED
    BY <1>15, <2>3 DEF NativeActivate, CallsNamed
<1>16. ASSUME NEW c \in Ctx, ActivateReturn(c)
      PROVE  TypeOK'
  <2>1. call' \in [Ctx -> Calls]
    BY <1>16, CallTyped DEF ActivateReturn
  <2>. QED
    BY <1>16, <2>1 DEF ActivateReturn, CallsNamed
<1>17. ASSUME NEW c \in Ctx, NEW q \in Queues, NEW p \in Queues \cup {NoQueue},
             SetTarget(c, q, p)
      PROVE  TypeOK'
  <2>1. [op |-> "retarget", on |-> q, arg |-> p] \in Calls
    BY <1>17 DEF Calls
  <2>. QED
    BY <1>17, <2>1, CallTyped DEF SetTarget, InFlight
<1>18. ASSUME NEW c \in Ctx, NativeSetTarget(c)
      PROVE  TypeOK'
  <2>1. call' \in [Ctx -> Calls]
    BY <1>18, CallTyped DEF NativeSetTarget
  <2>. QED
    BY <1>18, <2>1 DEF NativeSetTarget, CallsNamed
<1>19. ASSUME NEW c \in Ctx, NEW f \in Funcs, DropRef(c, f)
      PROVE  TypeOK'
  <2>1. refs[f] - 1 \in Nat
    BY <1>19, HeldFinite DEF DropRef, RefAccounting
  <2>. QED
    BY <1>19, <2>1 DEF DropRef
<1>20. ASSUME NEW c \in Ctx, NEW q \in Queues, DropWrapper(c, q)
      PROVE  TypeOK'
  BY <1>20 DEF DropWrapper
<1>21. CASE UNCHANGED vars
  BY <1>21 DEF vars
<1>. QED
  BY <1>1, <1>2, <1>3, <1>4, <1>5, <1>6, <1>7, <1>8, <1>9, <1>10,
     <1>11, <1>12, <1>13, <1>14, <1>15, <1>16, <1>17, <1>18, <1>19, <1>20, <1>21 DEF
       Next

(* Every step keeps calls named, and a task enqueued by one context at most. *)
LEMMA CallsStep ==
    ASSUME QueueInv, [Next]_vars
    PROVE  CallsNamed' /\ EnqueuedByOne'
<1>0. TypeOK /\ CallsNamed /\ EnqueuedByOne
  BY DEF QueueInv
<1>. USE <1>0, TypeFacts DEF EnterNative, LeaveNative, InPython, wrapperVars, nativeVars, taskVars, refVars
<1>1. ASSUME NEW c \in Ctx, TakeGIL(c)
      PROVE  CallsNamed' /\ EnqueuedByOne'
  BY <1>1 DEF TakeGIL, CallsNamed, EnqueuedByOne
<1>2. ASSUME NEW c \in Ctx, DropGIL(c)
      PROVE  CallsNamed' /\ EnqueuedByOne'
  BY <1>2 DEF DropGIL, CallsNamed, EnqueuedByOne
<1>3. ASSUME NEW c \in Ctx, NEW q \in Queues, NEW t \in Tasks, NEW m \in Methods, Submit(c, q, t, m)
      PROVE  CallsNamed' /\ EnqueuedByOne'
  BY <1>3 DEF Submit, CallsNamed, EnqueuedByOne, TypeOK, Calls, NoCall, Runnable
<1>4. ASSUME NEW c \in Ctx, NativeEnqueue(c)
      PROVE  CallsNamed' /\ EnqueuedByOne'
  <2>. DEFINE t == call[c].arg
  <2>1. call[c].op = "submit" /\ t \in Tasks /\ phase[t] = "held"
    BY <1>4 DEF NativeEnqueue, CallsNamed
  <2>2. \A u \in Tasks : u # t => phase'[u] = phase[u]
    BY <1>4 DEF NativeEnqueue, TypeOK
  <2>3. \A d \in Ctx : d # c => call'[d] = call[d]
    BY <1>4 DEF NativeEnqueue, TypeOK
  <2>4. call'[c] = NoCall \/ (call'[c].op = "wait" /\ call'[c].arg = t)
    BY <1>4 DEF NativeEnqueue, TypeOK, Calls
  <2>5. \A d \in Ctx : call[d].op = "submit" /\ call[d].arg = t => d = c
    BY <2>1 DEF EnqueuedByOne
  <2>. HIDE DEF t
  <2>6. CallsNamed'
    BY <2>1, <2>2, <2>3, <2>4, <2>5 DEF CallsNamed, NoCall
  <2>7. EnqueuedByOne'
    BY <2>3, <2>4 DEF EnqueuedByOne, NoCall
  <2>. QED
    BY <2>6, <2>7
<1>5. ASSUME NEW t \in Tasks, AfterFires(t)
      PROVE  CallsNamed' /\ EnqueuedByOne'
  BY <1>5 DEF AfterFires, CallsNamed, EnqueuedByOne, TypeOK, Calls, NoCall, Runnable
<1>6. ASSUME NEW t \in Tasks, NativeInvoke(t)
      PROVE  CallsNamed' /\ EnqueuedByOne'
  BY <1>6 DEF NativeInvoke, CallsNamed, EnqueuedByOne, TypeOK, Calls, NoCall, Runnable
<1>7. ASSUME NEW t \in Tasks, TrampolineBegin(t)
      PROVE  CallsNamed' /\ EnqueuedByOne'
  BY <1>7 DEF TrampolineBegin, CallsNamed, EnqueuedByOne, TypeOK, Calls, NoCall, Runnable
<1>8. ASSUME NEW t \in Tasks, TrampolineEnd(t)
      PROVE  CallsNamed' /\ EnqueuedByOne'
  BY <1>8 DEF TrampolineEnd, CallsNamed, EnqueuedByOne, TypeOK, Calls, NoCall, Runnable
<1>9. ASSUME NEW c \in Ctx, SyncReturn(c)
      PROVE  CallsNamed' /\ EnqueuedByOne'
  BY <1>9 DEF SyncReturn, CallsNamed, EnqueuedByOne, TypeOK, Calls, NoCall, Runnable
<1>10. ASSUME NEW c \in Ctx, NEW q \in Queues, Suspend(c, q)
      PROVE  CallsNamed' /\ EnqueuedByOne'
  BY <1>10 DEF Suspend, CallsNamed, EnqueuedByOne, TypeOK, Calls, NoCall, Runnable
<1>11. ASSUME NEW c \in Ctx, NativeSuspend(c)
      PROVE  CallsNamed' /\ EnqueuedByOne'
  BY <1>11 DEF NativeSuspend, CallsNamed, EnqueuedByOne, TypeOK, Calls, NoCall, Runnable
<1>12. ASSUME NEW c \in Ctx, NEW q \in Queues, Resume(c, q)
      PROVE  CallsNamed' /\ EnqueuedByOne'
  BY <1>12 DEF Resume, CallsNamed, EnqueuedByOne, TypeOK, Calls, NoCall, Runnable
<1>13. ASSUME NEW c \in Ctx, NativeResume(c)
      PROVE  CallsNamed' /\ EnqueuedByOne'
  BY <1>13 DEF NativeResume, CallsNamed, EnqueuedByOne, TypeOK, Calls, NoCall, Runnable
<1>14. ASSUME NEW c \in Ctx, NEW q \in Queues, Activate(c, q)
      PROVE  CallsNamed' /\ EnqueuedByOne'
  BY <1>14 DEF Activate, CallsNamed, EnqueuedByOne, TypeOK, Calls, NoCall, Runnable
<1>15. ASSUME NEW c \in Ctx, NativeActivate(c)
      PROVE  CallsNamed' /\ EnqueuedByOne'
  BY <1>15 DEF NativeActivate, CallsNamed, EnqueuedByOne, TypeOK, Calls, NoCall, Runnable
<1>16. ASSUME NEW c \in Ctx, ActivateReturn(c)
      PROVE  CallsNamed' /\ EnqueuedByOne'
  BY <1>16 DEF ActivateReturn, CallsNamed, EnqueuedByOne, TypeOK, Calls, NoCall, Runnable
<1>17. ASSUME NEW c \in Ctx, NEW q \in Queues, NEW p \in Queues \cup {NoQueue},
             SetTarget(c, q, p)
      PROVE  CallsNamed' /\ EnqueuedByOne'
  BY <1>17 DEF SetTarget, CallsNamed, EnqueuedByOne, TypeOK, Calls, NoCall, Runnable
<1>18. ASSUME NEW c \in Ctx, NativeSetTarget(c)
      PROVE  CallsNamed' /\ EnqueuedByOne'
  BY <1>18 DEF NativeSetTarget, CallsNamed, EnqueuedByOne, TypeOK, Calls, NoCall, Runnable
<1>19. ASSUME NEW c \in Ctx, NEW f \in Funcs, DropRef(c, f)
      PROVE  CallsNamed' /\ EnqueuedByOne'
  BY <1>19 DEF DropRef, CallsNamed, EnqueuedByOne
<1>20. ASSUME NEW c \in Ctx, NEW q \in Queues, DropWrapper(c, q)
      PROVE  CallsNamed' /\ EnqueuedByOne'
  BY <1>20 DEF DropWrapper, CallsNamed, EnqueuedByOne
<1>21. CASE UNCHANGED vars
  BY <1>21 DEF vars, CallsNamed, EnqueuedByOne
<1>. QED
  BY <1>1, <1>2, <1>3, <1>4, <1>5, <1>6, <1>7, <1>8, <1>9, <1>10,
     <1>11, <1>12, <1>13, <1>14, <1>15, <1>16, <1>17, <1>18, <1>19, <1>20, <1>21 DEF
       Next

(* Every step keeps the queue and the method of a submission known. *)
LEMMA AddressedStep ==
    ASSUME QueueInv, [Next]_vars
    PROVE  Addressed'
<1>0. TypeOK /\ CallsNamed /\ Addressed
  BY DEF QueueInv
<1>. USE <1>0, TypeFacts DEF EnterNative, LeaveNative, InPython, wrapperVars, nativeVars, taskVars, refVars
<1>1. ASSUME NEW c \in Ctx, TakeGIL(c)
      PROVE  Addressed'
  BY <1>1 DEF TakeGIL, Addressed
<1>2. ASSUME NEW c \in Ctx, DropGIL(c)
      PROVE  Addressed'
  BY <1>2 DEF DropGIL, Addressed
<1>3. ASSUME NEW c \in Ctx, NEW q \in Queues, NEW t \in Tasks, NEW m \in Methods, Submit(c, q, t, m)
      PROVE  Addressed'
  BY <1>3 DEF Submit, CallsNamed, Addressed, TypeOK, Runnable
<1>4. ASSUME NEW c \in Ctx, NativeEnqueue(c)
      PROVE  Addressed'
  BY <1>4 DEF NativeEnqueue, CallsNamed, Addressed, TypeOK, Runnable
<1>5. ASSUME NEW t \in Tasks, AfterFires(t)
      PROVE  Addressed'
  BY <1>5 DEF AfterFires, CallsNamed, Addressed, TypeOK, Runnable
<1>6. ASSUME NEW t \in Tasks, NativeInvoke(t)
      PROVE  Addressed'
  BY <1>6 DEF NativeInvoke, CallsNamed, Addressed, TypeOK, Runnable
<1>7. ASSUME NEW t \in Tasks, TrampolineBegin(t)
      PROVE  Addressed'
  BY <1>7 DEF TrampolineBegin, CallsNamed, Addressed, TypeOK, Runnable
<1>8. ASSUME NEW t \in Tasks, TrampolineEnd(t)
      PROVE  Addressed'
  BY <1>8 DEF TrampolineEnd, CallsNamed, Addressed, TypeOK, Runnable
<1>9. ASSUME NEW c \in Ctx, SyncReturn(c)
      PROVE  Addressed'
  BY <1>9 DEF SyncReturn, Addressed
<1>10. ASSUME NEW c \in Ctx, NEW q \in Queues, Suspend(c, q)
      PROVE  Addressed'
  BY <1>10 DEF Suspend, Addressed
<1>11. ASSUME NEW c \in Ctx, NativeSuspend(c)
      PROVE  Addressed'
  BY <1>11 DEF NativeSuspend, Addressed
<1>12. ASSUME NEW c \in Ctx, NEW q \in Queues, Resume(c, q)
      PROVE  Addressed'
  BY <1>12 DEF Resume, Addressed
<1>13. ASSUME NEW c \in Ctx, NativeResume(c)
      PROVE  Addressed'
  BY <1>13 DEF NativeResume, Addressed
<1>14. ASSUME NEW c \in Ctx, NEW q \in Queues, Activate(c, q)
      PROVE  Addressed'
  BY <1>14 DEF Activate, Addressed
<1>15. ASSUME NEW c \in Ctx, NativeActivate(c)
      PROVE  Addressed'
  BY <1>15 DEF NativeActivate, Addressed
<1>16. ASSUME NEW c \in Ctx, ActivateReturn(c)
      PROVE  Addressed'
  BY <1>16 DEF ActivateReturn, Addressed
<1>17. ASSUME NEW c \in Ctx, NEW q \in Queues, NEW p \in Queues \cup {NoQueue},
             SetTarget(c, q, p)
      PROVE  Addressed'
  BY <1>17 DEF SetTarget, Addressed
<1>18. ASSUME NEW c \in Ctx, NativeSetTarget(c)
      PROVE  Addressed'
  BY <1>18 DEF NativeSetTarget, Addressed
<1>19. ASSUME NEW c \in Ctx, NEW f \in Funcs, DropRef(c, f)
      PROVE  Addressed'
  BY <1>19 DEF DropRef, Addressed
<1>20. ASSUME NEW c \in Ctx, NEW q \in Queues, DropWrapper(c, q)
      PROVE  Addressed'
  BY <1>20 DEF DropWrapper, Addressed
<1>21. CASE UNCHANGED vars
  BY <1>21 DEF vars, Addressed
<1>. QED
  BY <1>1, <1>2, <1>3, <1>4, <1>5, <1>6, <1>7, <1>8, <1>9, <1>10,
     <1>11, <1>12, <1>13, <1>14, <1>15, <1>16, <1>17, <1>18, <1>19, <1>20, <1>21 DEF
       Next

(* A step that moves no submission in or out of flight and leaves the counts    *)
(* alone keeps RefAccounting.                                                   *)
LEMMA SameHeld ==
    ASSUME RefAccounting, UNCHANGED refVars,
           \A u \in Tasks : (phase[u] \in InFlight) = (phase'[u] \in InFlight)
    PROVE  RefAccounting'
<1>1. \A f : Held(f)' = Held(f)
  BY DEF Held
<1>. QED
  BY <1>1 DEF RefAccounting, refVars

(* Every step keeps the reference counts accounted for. *)
LEMMA RefStep ==
    ASSUME QueueInv, [Next]_vars
    PROVE  RefAccounting'
<1>0. TypeOK /\ CallsNamed /\ RefAccounting
  BY DEF QueueInv
<1>. USE <1>0, TypeFacts, HeldFinite DEF EnterNative, LeaveNative, InPython, wrapperVars, nativeVars, taskVars, refVars
<1>1. ASSUME NEW c \in Ctx, TakeGIL(c)
      PROVE  RefAccounting'
  BY <1>1, SameHeld DEF TakeGIL
<1>2. ASSUME NEW c \in Ctx, DropGIL(c)
      PROVE  RefAccounting'
  BY <1>2, SameHeld DEF DropGIL
<1>3. ASSUME NEW c \in Ctx, NEW q \in Queues, NEW t \in Tasks, NEW m \in Methods, Submit(c, q, t, m)
      PROVE  RefAccounting'
  <2>. DEFINE g == Func[t]
  <2>1. Held(g)' = Held(g) \cup {t} /\ t \notin Held(g)
    BY <1>3 DEF Submit, Held, InFlight, TypeOK
  <2>2. Cardinality(Held(g)') = Cardinality(Held(g)) + 1
    BY <2>1, FS_AddElement
  <2>3. \A f \in Funcs : f # g => Held(f)' = Held(f)
    BY <1>3 DEF Submit, Held, TypeOK
  <2>4. g \in Funcs /\ refs' = [refs EXCEPT ![g] = refs[g] + 1] /\ pyref' = pyref
    BY <1>3 DEF Submit
  <2>. HIDE DEF g
  <2>. QED
    BY <2>2, <2>3, <2>4 DEF RefAccounting, TypeOK
<1>4. ASSUME NEW c \in Ctx, NativeEnqueue(c)
      PROVE  RefAccounting'
  <2>1. \A u \in Tasks : (phase[u] \in InFlight) = (phase'[u] \in InFlight)
    BY <1>4 DEF NativeEnqueue, InFlight, TypeOK, CallsNamed
  <2>. QED
    BY <1>4, <2>1, SameHeld DEF NativeEnqueue
<1>5. ASSUME NEW t \in Tasks, AfterFires(t)
      PROVE  RefAccounting'
  <2>1. \A u \in Tasks : (phase[u] \in InFlight) = (phase'[u] \in InFlight)
    BY <1>5 DEF AfterFires, InFlight, TypeOK, CallsNamed
  <2>. QED
    BY <1>5, <2>1, SameHeld DEF AfterFires
<1>6. ASSUME NEW t \in Tasks, NativeInvoke(t)
      PROVE  RefAccounting'
  <2>1. \A u \in Tasks : (phase[u] \in InFlight) = (phase'[u] \in InFlight)
    BY <1>6 DEF NativeInvoke, InFlight, TypeOK, CallsNamed
  <2>. QED
    BY <1>6, <2>1, SameHeld DEF NativeInvoke
<1>7. ASSUME NEW t \in Tasks, TrampolineBegin(t)
      PROVE  RefAccounting'
  <2>1. \A u \in Tasks : (phase[u] \in InFlight) = (phase'[u] \in InFlight)
    BY <1>7 DEF TrampolineBegin, InFlight, TypeOK, CallsNamed
  <2>. QED
    BY <1>7, <2>1, SameHeld DEF TrampolineBegin
<1>8. ASSUME NEW t \in Tasks, TrampolineEnd(t)
      PROVE  RefAccounting'
  <2>. DEFINE g == Func[t]
  <2>1. Held(g)' = Held(g) \ {t} /\ t \in Held(g)
    BY <1>8 DEF TrampolineEnd, Runnable, Held, InFlight, TypeOK
  <2>2. Cardinality(Held(g)') = Cardinality(Held(g)) - 1
    BY <2>1, FS_RemoveElement
  <2>3. \A f \in Funcs : f # g => Held(f)' = Held(f)
    BY <1>8 DEF TrampolineEnd, Held, TypeOK
  <2>4. g \in Funcs /\ refs' = [refs EXCEPT ![g] = refs[g] - 1] /\ pyref' = pyref
    BY <1>8 DEF TrampolineEnd
  <2>. HIDE DEF g
  <2>. QED
    BY <2>2, <2>3, <2>4 DEF RefAccounting, TypeOK
<1>9. ASSUME NEW c \in Ctx, SyncReturn(c)
      PROVE  RefAccounting'
  BY <1>9, SameHeld DEF SyncReturn
<1>10. ASSUME NEW c \in Ctx, NEW q \in Queues, Suspend(c, q)
      PROVE  RefAccounting'
  BY <1>10, SameHeld DEF Suspend
<1>11. ASSUME NEW c \in Ctx, NativeSuspend(c)
      PROVE  RefAccounting'
  BY <1>11, SameHeld DEF NativeSuspend
<1>12. ASSUME NEW c \in Ctx, NEW q \in Queues, Resume(c, q)
      PROVE  RefAccounting'
  BY <1>12, SameHeld DEF Resume
<1>13. ASSUME NEW c \in Ctx, NativeResume(c)
      PROVE  RefAccounting'
  BY <1>13, SameHeld DEF NativeResume
<1>14. ASSUME NEW c \in Ctx, NEW q \in Queues, Activate(c, q)
      PROVE  RefAccounting'
  BY <1>14, SameHeld DEF Activate
<1>15. ASSUME NEW c \in Ctx, NativeActivate(c)
      PROVE  RefAccounting'
  BY <1>15, SameHeld DEF NativeActivate
<1>16. ASSUME NEW c \in Ctx, ActivateReturn(c)
      PROVE  RefAccounting'
  BY <1>16, SameHeld DEF ActivateReturn
<1>17. ASSUME NEW c \in Ctx, NEW q \in Queues, NEW p \in Queues \cup {NoQueue},
             SetTarget(c, q, p)
      PROVE  RefAccounting'
  BY <1>17, SameHeld DEF SetTarget
<1>18. ASSUME NEW c \in Ctx, NativeSetTarget(c)
      PROVE  RefAccounting'
  BY <1>18, SameHeld DEF NativeSetTarget
<1>19. ASSUME NEW c \in Ctx, NEW f \in Funcs, DropRef(c, f)
      PROVE  RefAccounting'
  <2>1. \A g : Held(g)' = Held(g)
    BY <1>19 DEF DropRef, Held
  <2>. QED
    BY <1>19, <2>1 DEF DropRef, RefAccounting, TypeOK
<1>20. ASSUME NEW c \in Ctx, NEW q \in Queues, DropWrapper(c, q)
      PROVE  RefAccounting'
  BY <1>20, SameHeld DEF DropWrapper
<1>21. CASE UNCHANGED vars
  BY <1>21, SameHeld DEF vars
<1>. QED
  BY <1>1, <1>2, <1>3, <1>4, <1>5, <1>6, <1>7, <1>8, <1>9, <1>10,
     <1>11, <1>12, <1>13, <1>14, <1>15, <1>16, <1>17, <1>18, <1>19, <1>20, <1>21 DEF
       Next

(* OrderKept only looks at the submissions.                                     *)
LEMMA OrderStable ==
    ASSUME OrderKept, UNCHANGED taskVars
    PROVE  OrderKept'
  BY DEF OrderKept, taskVars, NativeConflict, NativeBarrier

(* Every step keeps what an item has to wait for. *)
LEMMA OrderStep ==
    ASSUME QueueInv, [Next]_vars
    PROVE  OrderKept'
<1>0. TypeOK /\ CallsNamed /\ OrderKept
  BY DEF QueueInv
<1>. USE <1>0, TypeFacts DEF EnterNative, LeaveNative, InPython, wrapperVars, nativeVars, taskVars, refVars
<1>1. ASSUME NEW c \in Ctx, TakeGIL(c)
      PROVE  OrderKept'
  BY <1>1, OrderStable DEF TakeGIL
<1>2. ASSUME NEW c \in Ctx, DropGIL(c)
      PROVE  OrderKept'
  BY <1>2, OrderStable DEF DropGIL
<1>3. ASSUME NEW c \in Ctx, NEW q \in Queues, NEW t \in Tasks, NEW m \in Methods, Submit(c, q, t, m)
      PROVE  OrderKept'
  <2>1. /\ phase[t] = "new" /\ phase' = [phase EXCEPT ![t] = "held"]
        /\ at' = [at EXCEPT ![t] = q] /\ kind' = [kind EXCEPT ![t] = m]
        /\ ahead' = ahead
    BY <1>3 DEF Submit
  <2>2. /\ \A v \in Tasks : v # t => before'[v] = before[v]
        /\ \A u \in before'[t] : u \in Tasks /\ at[u] = q /\ phase[u] \in Enqueued \cup {"done"}
    BY <1>3 DEF Submit, TypeOK
  <2>3. \A u, v \in Tasks : u # t /\ v # t => NativeConflict(u, v)' = NativeConflict(u, v)
    BY <2>1 DEF NativeConflict, NativeBarrier, TypeOK
  <2>4. \A v \in Tasks : v # t => t \notin before[v]
    BY <2>1 DEF OrderKept, Enqueued
  <2>5. before \in [Tasks -> SUBSET Tasks] /\ phase \in [Tasks -> {"new", "done"} \cup InFlight]
        /\ at \in [Tasks -> Queues \cup {NoQueue}]
    BY DEF TypeOK
  <2>. SUFFICES ASSUME NEW v \in Tasks, NEW u \in before'[v]
                PROVE  OrderKept!(v)!(u)'
    BY DEF OrderKept
  <2>6. CASE v = t
    BY <2>1, <2>2, <2>5, <2>6 DEF Enqueued, Executing
  <2>7. CASE v # t
    BY <2>1, <2>2, <2>3, <2>4, <2>5, <2>7 DEF OrderKept, Enqueued
  <2>. QED
    BY <2>6, <2>7
<1>4. ASSUME NEW c \in Ctx, NativeEnqueue(c)
      PROVE  OrderKept'
  <2>1. \A u, v \in Tasks : NativeConflict(u, v)' = NativeConflict(u, v)
    BY <1>4 DEF NativeEnqueue, NativeConflict, NativeBarrier
  <2>. DEFINE t == call[c].arg
  <2>2. t \in Tasks /\ phase[t] = "held"
    BY <1>4 DEF NativeEnqueue, CallsNamed
  <2>3. \/ phase' = [phase EXCEPT ![t] = "delayed"] /\ ahead' = ahead
        \/ phase' = [phase EXCEPT ![t] = "queued"] /\ ahead' = [ahead EXCEPT ![t] = Behind(t)]
    BY <1>4 DEF NativeEnqueue
  <2>4. at' = at /\ before' = before
    BY <1>4 DEF NativeEnqueue
  <2>. HIDE DEF t
  <2>. QED
    BY <2>1, <2>2, <2>3, <2>4 DEF OrderKept, Behind, TypeOK, InFlight, Enqueued, Executing
<1>5. ASSUME NEW t \in Tasks, AfterFires(t)
      PROVE  OrderKept'
  <2>1. \A u, v \in Tasks : NativeConflict(u, v)' = NativeConflict(u, v)
    BY <1>5 DEF AfterFires, NativeConflict, NativeBarrier
  <2>. QED
    BY <1>5, <2>1 DEF AfterFires, OrderKept, Behind, TypeOK, Runnable, InFlight,
         Enqueued, Executing
<1>6. ASSUME NEW t \in Tasks, NativeInvoke(t)
      PROVE  OrderKept'
  <2>1. \A u, v \in Tasks : NativeConflict(u, v)' = NativeConflict(u, v)
    BY <1>6 DEF NativeInvoke, NativeConflict, NativeBarrier
  <2>. QED
    BY <1>6, <2>1 DEF NativeInvoke, OrderKept, Behind, TypeOK, Runnable, InFlight,
         Enqueued, Executing
<1>7. ASSUME NEW t \in Tasks, TrampolineBegin(t)
      PROVE  OrderKept'
  <2>1. \A u, v \in Tasks : NativeConflict(u, v)' = NativeConflict(u, v)
    BY <1>7 DEF TrampolineBegin, NativeConflict, NativeBarrier
  <2>. QED
    BY <1>7, <2>1 DEF TrampolineBegin, OrderKept, Behind, TypeOK, Runnable, InFlight,
         Enqueued, Executing
<1>8. ASSUME NEW t \in Tasks, TrampolineEnd(t)
      PROVE  OrderKept'
  <2>1. \A u, v \in Tasks : NativeConflict(u, v)' = NativeConflict(u, v)
    BY <1>8 DEF TrampolineEnd, NativeConflict, NativeBarrier
  <2>. QED
    BY <1>8, <2>1 DEF TrampolineEnd, OrderKept, Behind, TypeOK, Runnable, InFlight,
         Enqueued, Executing
<1>9. ASSUME NEW c \in Ctx, SyncReturn(c)
      PROVE  OrderKept'
  BY <1>9, OrderStable DEF SyncReturn
<1>10. ASSUME NEW c \in Ctx, NEW q \in Queues, Suspend(c, q)
      PROVE  OrderKept'
  BY <1>10, OrderStable DEF Suspend
<1>11. ASSUME NEW c \in Ctx, NativeSuspend(c)
      PROVE  OrderKept'
  BY <1>11, OrderStable DEF NativeSuspend
<1>12. ASSUME NEW c \in Ctx, NEW q \in Queues, Resume(c, q)
      PROVE  OrderKept'
  BY <1>12, OrderStable DEF Resume
<1>13. ASSUME NEW c \in Ctx, NativeResume(c)
      PROVE  OrderKept'
  BY <1>13, OrderStable DEF NativeResume
<1>14. ASSUME NEW c \in Ctx, NEW q \in Queues, Activate(c, q)
      PROVE  OrderKept'
  BY <1>14, OrderStable DEF Activate
<1>15. ASSUME NEW c \in Ctx, NativeActivate(c)
      PROVE  OrderKept'
  BY <1>15, OrderStable DEF NativeActivate
<1>16. ASSUME NEW c \in Ctx, ActivateReturn(c)
      PROVE  OrderKept'
  BY <1>16, OrderStable DEF ActivateReturn
<1>17. ASSUME NEW c \in Ctx, NEW q \in Queues, NEW p \in Queues \cup {NoQueue},
             SetTarget(c, q, p)
      PROVE  OrderKept'
  BY <1>17, OrderStable DEF SetTarget
<1>18. ASSUME NEW c \in Ctx, NativeSetTarget(c)
      PROVE  OrderKept'
  BY <1>18, OrderStable DEF NativeSetTarget
<1>19. ASSUME NEW c \in Ctx, NEW f \in Funcs, DropRef(c, f)
      PROVE  OrderKept'
  BY <1>19, OrderStable DEF DropRef
<1>20. ASSUME NEW c \in Ctx, NEW q \in Queues, DropWrapper(c, q)
      PROVE  OrderKept'
  BY <1>20, OrderStable DEF DropWrapper
<1>21. CASE UNCHANGED vars
  BY <1>21, OrderStable DEF vars
<1>. QED
  BY <1>1, <1>2, <1>3, <1>4, <1>5, <1>6, <1>7, <1>8, <1>9, <1>10,
     <1>11, <1>12, <1>13, <1>14, <1>15, <1>16, <1>17, <1>18, <1>19, <1>20, <1>21 DEF
       Next

(* A queue is part of its own hierarchy, so what conflicts on one queue is       *)
(* excluded by the hierarchy rule.                                              *)
LEMMA ConflictExcludes ==
    ASSUME NEW t \in Tasks, NEW u \in Tasks, at[t] \in Queues, NativeConflict(u, t)
    PROVE  Excludes(u, t)
  <1>1. at[t] \in Up(at[t])
    BY DEF Up
  <1>. QED
    BY <1>1 DEF NativeConflict, Excludes

(* NoConflictExecutes only looks at the submissions. *)
LEMMA ExecStable ==
    ASSUME NoConflictExecutes, UNCHANGED taskVars
    PROVE  NoConflictExecutes'
  BY DEF NoConflictExecutes, taskVars, NativeConflict, NativeBarrier

(* Every step keeps conflicting items from executing together. *)
LEMMA ExecStep ==
    ASSUME QueueInv, [Next]_vars
    PROVE  NoConflictExecutes'
<1>0. TypeOK /\ CallsNamed /\ Addressed /\ NoConflictExecutes
  BY DEF QueueInv
<1>. USE <1>0, TypeFacts DEF EnterNative, LeaveNative, InPython, wrapperVars, nativeVars, taskVars, refVars
<1>1. ASSUME NEW c \in Ctx, TakeGIL(c)
      PROVE  NoConflictExecutes'
  BY <1>1, ExecStable DEF TakeGIL
<1>2. ASSUME NEW c \in Ctx, DropGIL(c)
      PROVE  NoConflictExecutes'
  BY <1>2, ExecStable DEF DropGIL
<1>3. ASSUME NEW c \in Ctx, NEW q \in Queues, NEW t \in Tasks, NEW m \in Methods, Submit(c, q, t, m)
      PROVE  NoConflictExecutes'
  <2>1. \A u \in Tasks : phase'[u] \in Executing =>
            phase[u] \in Executing /\ at'[u] = at[u] /\ kind'[u] = kind[u]
    BY <1>3 DEF Submit, TypeOK, Executing
  <2>. QED
    BY <2>1 DEF NoConflictExecutes, NativeConflict, NativeBarrier
<1>4. ASSUME NEW c \in Ctx, NativeEnqueue(c)
      PROVE  NoConflictExecutes'
  <2>1. /\ at' = at /\ kind' = kind
        /\ \A u \in Tasks : phase'[u] \in Executing => phase[u] \in Executing
    BY <1>4 DEF NativeEnqueue, TypeOK, CallsNamed, Runnable, Executing
  <2>. QED
    BY <2>1 DEF NoConflictExecutes, NativeConflict, NativeBarrier
<1>5. ASSUME NEW t \in Tasks, AfterFires(t)
      PROVE  NoConflictExecutes'
  <2>1. /\ at' = at /\ kind' = kind
        /\ \A u \in Tasks : phase'[u] \in Executing => phase[u] \in Executing
    BY <1>5 DEF AfterFires, TypeOK, CallsNamed, Runnable, Executing
  <2>. QED
    BY <2>1 DEF NoConflictExecutes, NativeConflict, NativeBarrier
<1>6. ASSUME NEW t \in Tasks, NativeInvoke(t)
      PROVE  NoConflictExecutes'
  <2>1. \A u \in Tasks : phase[u] \in Executing => ~NativeConflict(u, t)
    BY <1>6, ConflictExcludes DEF NativeInvoke, Addressed
  <2>2. \A u, v \in Tasks : NativeConflict(u, v)' = NativeConflict(u, v)
    BY <1>6 DEF NativeInvoke, NativeConflict, NativeBarrier
  <2>3. \A u, v : NativeConflict(u, v) = NativeConflict(v, u)
    BY DEF NativeConflict
  <2>. QED
    BY <1>6, <2>1, <2>2, <2>3 DEF NativeInvoke, NoConflictExecutes, TypeOK
<1>7. ASSUME NEW t \in Tasks, TrampolineBegin(t)
      PROVE  NoConflictExecutes'
  <2>1. /\ at' = at /\ kind' = kind
        /\ \A u \in Tasks : phase'[u] \in Executing => phase[u] \in Executing
    BY <1>7 DEF TrampolineBegin, TypeOK, CallsNamed, Runnable, Executing
  <2>. QED
    BY <2>1 DEF NoConflictExecutes, NativeConflict, NativeBarrier
<1>8. ASSUME NEW t \in Tasks, TrampolineEnd(t)
      PROVE  NoConflictExecutes'
  <2>1. /\ at' = at /\ kind' = kind
        /\ \A u \in Tasks : phase'[u] \in Executing => phase[u] \in Executing
    BY <1>8 DEF TrampolineEnd, TypeOK, CallsNamed, Runnable, Executing
  <2>. QED
    BY <2>1 DEF NoConflictExecutes, NativeConflict, NativeBarrier
<1>9. ASSUME NEW c \in Ctx, SyncReturn(c)
      PROVE  NoConflictExecutes'
  BY <1>9, ExecStable DEF SyncReturn
<1>10. ASSUME NEW c \in Ctx, NEW q \in Queues, Suspend(c, q)
      PROVE  NoConflictExecutes'
  BY <1>10, ExecStable DEF Suspend
<1>11. ASSUME NEW c \in Ctx, NativeSuspend(c)
      PROVE  NoConflictExecutes'
  BY <1>11, ExecStable DEF NativeSuspend
<1>12. ASSUME NEW c \in Ctx, NEW q \in Queues, Resume(c, q)
      PROVE  NoConflictExecutes'
  BY <1>12, ExecStable DEF Resume
<1>13. ASSUME NEW c \in Ctx, NativeResume(c)
      PROVE  NoConflictExecutes'
  BY <1>13, ExecStable DEF NativeResume
<1>14. ASSUME NEW c \in Ctx, NEW q \in Queues, Activate(c, q)
      PROVE  NoConflictExecutes'
  BY <1>14, ExecStable DEF Activate
<1>15. ASSUME NEW c \in Ctx, NativeActivate(c)
      PROVE  NoConflictExecutes'
  BY <1>15, ExecStable DEF NativeActivate
<1>16. ASSUME NEW c \in Ctx, ActivateReturn(c)
      PROVE  NoConflictExecutes'
  BY <1>16, ExecStable DEF ActivateReturn
<1>17. ASSUME NEW c \in Ctx, NEW q \in Queues, NEW p \in Queues \cup {NoQueue},
             SetTarget(c, q, p)
      PROVE  NoConflictExecutes'
  BY <1>17, ExecStable DEF SetTarget
<1>18. ASSUME NEW c \in Ctx, NativeSetTarget(c)
      PROVE  NoConflictExecutes'
  BY <1>18, ExecStable DEF NativeSetTarget
<1>19. ASSUME NEW c \in Ctx, NEW f \in Funcs, DropRef(c, f)
      PROVE  NoConflictExecutes'
  BY <1>19, ExecStable DEF DropRef
<1>20. ASSUME NEW c \in Ctx, NEW q \in Queues, DropWrapper(c, q)
      PROVE  NoConflictExecutes'
  BY <1>20, ExecStable DEF DropWrapper
<1>21. CASE UNCHANGED vars
  BY <1>21, ExecStable DEF vars
<1>. QED
  BY <1>1, <1>2, <1>3, <1>4, <1>5, <1>6, <1>7, <1>8, <1>9, <1>10,
     <1>11, <1>12, <1>13, <1>14, <1>15, <1>16, <1>17, <1>18, <1>19, <1>20, <1>21 DEF
       Next

-----------------------------------------------------------------------------
(* The theorems. *)

(* The inductive invariant holds initially. *)
LEMMA InitInv == ASSUME Init PROVE QueueInv
<1>1. TypeOK
  BY QueueAssumption DEF Init, TypeOK, Calls, NoCall
<1>2. CallsNamed /\ EnqueuedByOne /\ Addressed
  BY DEF Init, CallsNamed, EnqueuedByOne, Addressed, NoCall
<1>3. RefAccounting
  <2>1. \A f : Held(f) = {}
    BY DEF Init, Held, InFlight
  <2>2. Cardinality({}) = 0
    BY FS_EmptySet
  <2>3. \A f \in Funcs : refs[f] = 1 /\ pyref[f] = TRUE
    BY DEF Init
  <2>. QED
    BY <2>1, <2>2, <2>3 DEF RefAccounting
<1>4. OrderKept /\ NoConflictExecutes
  BY DEF Init, OrderKept, NoConflictExecutes, Executing
<1>. QED
  BY <1>1, <1>2, <1>3, <1>4 DEF QueueInv

(* The inductive invariant holds of every execution. *)
THEOREM QueueInvariant == Spec => []QueueInv
<1>1. Init => QueueInv
  BY InitInv
<1>2. QueueInv /\ [Next]_vars => QueueInv'
  BY TypeStep, CallsStep, AddressedStep, RefStep, OrderStep, ExecStep DEF QueueInv
<1>. QED
  BY <1>1, <1>2, PTL DEF Spec

(* Every variable keeps its type: in particular no reference count of a callable *)
(* goes below zero.                                                             *)
THEOREM QueueTypes == Spec => []TypeOK
<1>1. QueueInv => TypeOK
  BY DEF QueueInv
<1>. QED
  BY <1>1, QueueInvariant, PTL

(* No interleaving of submissions, trampolines and drops leaks a reference on a  *)
(* callable or gives one back twice.                                            *)
THEOREM QueueRefAccounting == Spec => []RefAccounting
<1>1. QueueInv => RefAccounting
  BY DEF QueueInv
<1>. QED
  BY <1>1, QueueInvariant, PTL

(* A callable is alive as long as libdispatch may still call its trampoline.     *)
THEOREM QueueCallableAlive == Spec => []CallableAlive
<1>1. QueueInv => CallableAlive
  BY InFlightReferenced DEF QueueInv, CallableAlive
<1>. QED
  BY <1>1, QueueInvariant, PTL

(* The libdispatch functions behind the barrier methods are the barrier ones.    *)
LEMMA BarrierPrimitive ==
    ASSUME NEW t \in Tasks, kind[t] \in Methods
    PROVE  NativeBarrier(t) <=> kind[t] \in BarrierMethods
  BY MethodAssumption DEF NativeBarrier, BarrierMethods, AllMethods, Primitive

(* On a queue the program created the callable of a barrier runs alone.          *)
THEOREM QueueBarrierExclusive == Spec => []BarrierExclusive
<1>1. QueueInv => BarrierExclusive
  BY BarrierPrimitive DEF QueueInv, BarrierExclusive, NoConflictExecutes, NativeConflict,
     Executing, Addressed
<1>. QED
  BY <1>1, QueueInvariant, PTL

(* First in, first out: a callable starts after those it must follow are done.   *)
THEOREM QueueStartsInOrder == Spec => []StartsInOrder
<1>1. QueueInv => StartsInOrder
  <2>. SUFFICES ASSUME QueueInv, NEW t \in Tasks, phase[t] \in {"running", "done"},
                       NEW u \in before[t], phase[u] # "done"
                PROVE  /\ at[t] \in Concurrent
                       /\ at[t] \in Global \/ {kind[t], kind[u]} \cap BarrierMethods = {}
    BY DEF StartsInOrder
  <2>1. u \in Tasks
    BY DEF QueueInv, TypeOK
  <2>2. ~NativeConflict(u, t) /\ at[u] = at[t] /\ phase[u] # "new"
    BY <2>1 DEF QueueInv, OrderKept, Executing, Enqueued
  <2>3. at[t] \in Queues /\ kind[t] \in Methods /\ kind[u] \in Methods
    BY <2>1, <2>2 DEF QueueInv, Addressed
  <2>. QED
    BY <2>1, <2>2, <2>3, BarrierPrimitive DEF NativeConflict, NativeSerial
<1>. QED
  BY <1>1, QueueInvariant, PTL


-----------------------------------------------------------------------------
(* The target hierarchy.                                                        *)

(* The hierarchy of a queue is the queue and the hierarchy of its target: what    *)
(* Up, the least set closed under targets, amounts to, cyclic targets included.  *)
THEOREM UpUnfolds ==
    ASSUME TypeOK, NEW q \in Queues
    PROVE  Up(q) = {q} \cup (IF target[q] = NoQueue THEN {} ELSE Up(target[q]))
<1>. DEFINE rest == IF target[q] = NoQueue THEN {} ELSE Up(target[q])
<1>1. rest \in SUBSET Queues
  BY DEF Up
<1>2. ASSUME NEW r \in rest
      PROVE  target[r] \in rest \cup {NoQueue}
  <2>1. target[q] # NoQueue /\ r \in Up(target[q]) /\ r \in Queues
    BY <1>2 DEF Up
  <2>2. CASE target[r] = NoQueue
    BY <2>2
  <2>3. CASE target[r] # NoQueue
    <3>1. target[r] \in Queues
      BY <2>1, <2>3 DEF TypeOK
    <3>2. ASSUME NEW S \in SUBSET Queues, target[q] \in S, \A s \in S : target[s] \in S \cup {NoQueue}
          PROVE  target[r] \in S
      <4>1. r \in S
        BY <2>1, <3>2 DEF Up
      <4>. QED
        BY <3>2, <4>1, <2>3
    <3>3. target[r] \in Up(target[q])
      BY <3>1, <3>2 DEF Up
    <3>. QED
      BY <2>1, <3>3
  <2>. QED
    BY <2>2, <2>3
<1>3. target[q] # NoQueue => target[q] \in rest
  BY DEF Up, TypeOK
<1>4. Up(q) \subseteq {q} \cup rest
  <2>1. \A s \in {q} \cup rest : target[s] \in ({q} \cup rest) \cup {NoQueue}
    BY <1>2, <1>3
  <2>2. {q} \cup rest \in SUBSET Queues
    BY <1>1
  <2>. HIDE DEF rest
  <2>. QED
    BY <2>1, <2>2 DEF Up
<1>5. {q} \cup rest \subseteq Up(q)
  <2>1. ASSUME NEW p \in rest, NEW S \in SUBSET Queues, q \in S,
               \A s \in S : target[s] \in S \cup {NoQueue}
        PROVE  p \in S
    <3>1. target[q] # NoQueue /\ target[q] \in S /\ p \in Up(target[q])
      BY <2>1
    <3>. QED
      BY <2>1, <3>1 DEF Up
  <2>2. q \in Up(q)
    BY DEF Up
  <2>3. rest \subseteq Up(q)
    <3>. SUFFICES ASSUME NEW p \in rest PROVE p \in Up(q)
      OBVIOUS
    <3>1. p \in Queues
      BY <1>1
    <3>2. \A S \in SUBSET Queues :
              (q \in S /\ \A s \in S : target[s] \in S \cup {NoQueue}) => p \in S
      BY <2>1
    <3>. HIDE DEF rest
    <3>. QED
      BY <3>1, <3>2 DEF Up
  <2>. QED
    BY <2>2, <2>3
<1>. QED
  BY <1>4, <1>5

(* A retarget of a queue outside the hierarchy of q leaves that hierarchy alone: *)
(* some set closed under the old targets holds q without the retargeted queue,   *)
(* and is closed under the new ones too.                                         *)
LEMMA UpStays ==
    ASSUME NEW r \in Queues, NEW q \in Queues, r \notin Up(q),
           \A p \in Queues : p # r => target'[p] = target[p]
    PROVE  \A p : p \in Up(q)' <=> p \in Up(q)
<1>1. PICK A \in SUBSET Queues :
          q \in A /\ r \notin A /\ \A p \in A : target[p] \in A \cup {NoQueue}
  BY DEF Up
<1>2. \A p \in A : target'[p] = target[p]
  BY <1>1
<1>3. ASSUME NEW p \in Up(q)'
      PROVE  p \in Up(q)
  <2>1. p \in Queues
    BY <1>3 DEF Up
  <2>2. ASSUME NEW S \in SUBSET Queues, q \in S, \A s \in S : target[s] \in S \cup {NoQueue}
        PROVE  p \in S
    <3>1. /\ S \cap A \in SUBSET Queues /\ q \in S \cap A
          /\ \A s \in S \cap A : target'[s] \in (S \cap A) \cup {NoQueue}
      BY <1>1, <1>2, <2>2
    <3>2. p \in S \cap A
      BY <1>3, <3>1 DEF Up
    <3>. QED
      BY <3>2
  <2>. QED
    BY <2>1, <2>2 DEF Up
<1>4. ASSUME NEW p \in Up(q)
      PROVE  p \in Up(q)'
  <2>1. p \in Queues
    BY <1>4 DEF Up
  <2>2. ASSUME NEW S \in SUBSET Queues, q \in S, \A s \in S : target'[s] \in S \cup {NoQueue}
        PROVE  p \in S
    <3>1. /\ S \cap A \in SUBSET Queues /\ q \in S \cap A
          /\ \A s \in S \cap A : target[s] \in (S \cap A) \cup {NoQueue}
      BY <1>1, <1>2, <2>2
    <3>2. p \in S \cap A
      BY <1>4, <3>1 DEF Up
    <3>. QED
      BY <3>2
  <2>. QED
    BY <2>1, <2>2 DEF Up
<1>. QED
  BY <1>3, <1>4

(* RetargetsAway and SerialApart look at the targets, the submissions and the    *)
(* retargeting calls only: a step that changes no target, moves no task to       *)
(* another queue and begins no retargeting keeps the first ...                   *)
LEMMA RetargetsStable ==
    ASSUME RetargetsAway, UNCHANGED <<target, at>>,
           \A d \in Ctx : call'[d].op = "retarget" => call'[d] = call[d]
    PROVE  RetargetsAway'
<1>1. \A q : Up(q)' = Up(q)
  BY DEF Up
<1>. QED
  BY <1>1 DEF RetargetsAway

(* ... and the second, if it begins to execute no task either.                   *)
LEMMA ApartStable ==
    ASSUME SerialApart, target' = target,
           \A t \in Tasks : phase'[t] \in Executing => phase[t] \in Executing /\ at'[t] = at[t]
    PROVE  SerialApart'
<1>1. \A q : Up(q)' = Up(q)
  BY DEF Up
<1>. QED
  BY <1>1 DEF SerialApart

(* A retargeting takes effect without touching the hierarchy of any task.        *)
LEMMA RetargetKeeps ==
    ASSUME TypeOK, CallsNamed, RetargetsAway, NEW c \in Ctx, NativeSetTarget(c),
           NEW t \in Tasks, at[t] # NoQueue
    PROVE  /\ at' = at /\ phase' = phase
           /\ \A p : p \in (Up(at[t]))' <=> p \in Up(at[t])
<1>1. at' = at /\ phase' = phase
  BY DEF NativeSetTarget, taskVars
<1>2. call[c].on \in Queues /\ at[t] \in Queues /\ call[c].on \notin Up(at[t])
  BY DEF NativeSetTarget, CallsNamed, TypeOK, RetargetsAway
<1>3. \A p \in Queues : p # call[c].on => target'[p] = target[p]
  BY DEF NativeSetTarget, TypeOK
<1>. DEFINE q == at[t]
<1>4. \A p : p \in Up(q)' <=> p \in Up(q)
  BY <1>1, <1>2, <1>3, UpStays
<1>. QED
  BY <1>1, <1>4

(* A task is given to a queue whose hierarchy nobody is retargeting, and a queue *)
(* is retargeted outside the hierarchies of all tasks, whichever thread does it. *)
LEMMA RetargetsStep ==
    ASSUME HierarchyInv, [Next]_vars
    PROVE  RetargetsAway'
<1>0. TypeOK /\ CallsNamed /\ RetargetsAway
  BY DEF HierarchyInv, QueueInv
<1>. USE <1>0 DEF EnterNative, LeaveNative, wrapperVars, nativeVars, taskVars, refVars
<1>1. ASSUME NEW c \in Ctx, TakeGIL(c)
      PROVE  RetargetsAway'
  BY <1>1, RetargetsStable DEF TakeGIL
<1>2. ASSUME NEW c \in Ctx, DropGIL(c)
      PROVE  RetargetsAway'
  BY <1>2, RetargetsStable DEF DropGIL
<1>3. ASSUME NEW c \in Ctx, NEW q \in Queues, NEW t \in Tasks, NEW m \in Methods, Submit(c, q, t, m)
      PROVE  RetargetsAway'
  <2>1. \A d \in Ctx : call'[d].op = "retarget" => call'[d] = call[d]
    BY <1>3 DEF Submit, TypeOK
  <2>2. \A p : Up(p)' = Up(p)
    BY <1>3 DEF Submit, Up
  <2>3. \A u \in Tasks : at'[u] = IF u = t THEN q ELSE at[u]
    BY <1>3 DEF Submit, TypeOK
  <2>4. \A d \in Ctx : call[d].op = "retarget" => call[d].on \notin Up(q)
    BY <1>3 DEF Submit
  <2>. QED
    BY <2>1, <2>2, <2>3, <2>4 DEF RetargetsAway
<1>4. ASSUME NEW c \in Ctx, NativeEnqueue(c)
      PROVE  RetargetsAway'
  <2>1. \A d \in Ctx : call'[d].op = "retarget" => call'[d] = call[d]
    BY <1>4, TypeFacts DEF NativeEnqueue, TypeOK, NoCall, Calls
  <2>. QED
    BY <1>4, <2>1, RetargetsStable DEF NativeEnqueue
<1>5. ASSUME NEW t \in Tasks, AfterFires(t)
      PROVE  RetargetsAway'
  BY <1>5, RetargetsStable DEF AfterFires
<1>6. ASSUME NEW t \in Tasks, NativeInvoke(t)
      PROVE  RetargetsAway'
  BY <1>6, RetargetsStable DEF NativeInvoke
<1>7. ASSUME NEW t \in Tasks, TrampolineBegin(t)
      PROVE  RetargetsAway'
  BY <1>7, RetargetsStable DEF TrampolineBegin
<1>8. ASSUME NEW t \in Tasks, TrampolineEnd(t)
      PROVE  RetargetsAway'
  BY <1>8, RetargetsStable DEF TrampolineEnd
<1>9. ASSUME NEW c \in Ctx, SyncReturn(c)
      PROVE  RetargetsAway'
  <2>1. \A d \in Ctx : call'[d].op = "retarget" => call'[d] = call[d]
    BY <1>9, TypeFacts DEF SyncReturn, TypeOK, NoCall, Calls
  <2>. QED
    BY <1>9, <2>1, RetargetsStable DEF SyncReturn
<1>10. ASSUME NEW c \in Ctx, NEW q \in Queues, Suspend(c, q)
      PROVE  RetargetsAway'
  <2>1. \A d \in Ctx : call'[d].op = "retarget" => call'[d] = call[d]
    BY <1>10, TypeFacts DEF Suspend, TypeOK, NoCall, Calls
  <2>. QED
    BY <1>10, <2>1, RetargetsStable DEF Suspend
<1>11. ASSUME NEW c \in Ctx, NativeSuspend(c)
      PROVE  RetargetsAway'
  <2>1. \A d \in Ctx : call'[d].op = "retarget" => call'[d] = call[d]
    BY <1>11, TypeFacts DEF NativeSuspend, TypeOK, NoCall, Calls
  <2>. QED
    BY <1>11, <2>1, RetargetsStable DEF NativeSuspend
<1>12. ASSUME NEW c \in Ctx, NEW q \in Queues, Resume(c, q)
      PROVE  RetargetsAway'
  <2>1. \A d \in Ctx : call'[d].op = "retarget" => call'[d] = call[d]
    BY <1>12, TypeFacts DEF Resume, TypeOK, NoCall, Calls
  <2>. QED
    BY <1>12, <2>1, RetargetsStable DEF Resume
<1>13. ASSUME NEW c \in Ctx, NativeResume(c)
      PROVE  RetargetsAway'
  <2>1. \A d \in Ctx : call'[d].op = "retarget" => call'[d] = call[d]
    BY <1>13, TypeFacts DEF NativeResume, TypeOK, NoCall, Calls
  <2>. QED
    BY <1>13, <2>1, RetargetsStable DEF NativeResume
<1>14. ASSUME NEW c \in Ctx, NEW q \in Queues, Activate(c, q)
      PROVE  RetargetsAway'
  <2>1. \A d \in Ctx : call'[d].op = "retarget" => call'[d] = call[d]
    BY <1>14, TypeFacts DEF Activate, TypeOK, NoCall, Calls
  <2>. QED
    BY <1>14, <2>1, RetargetsStable DEF Activate
<1>15. ASSUME NEW c \in Ctx, NativeActivate(c)
      PROVE  RetargetsAway'
  <2>1. \A d \in Ctx : call'[d].op = "retarget" => call'[d] = call[d]
    BY <1>15, TypeFacts DEF NativeActivate, TypeOK, NoCall, Calls
  <2>. QED
    BY <1>15, <2>1, RetargetsStable DEF NativeActivate
<1>16. ASSUME NEW c \in Ctx, ActivateReturn(c)
      PROVE  RetargetsAway'
  <2>1. \A d \in Ctx : call'[d].op = "retarget" => call'[d] = call[d]
    BY <1>16, TypeFacts DEF ActivateReturn, TypeOK, NoCall, Calls
  <2>. QED
    BY <1>16, <2>1, RetargetsStable DEF ActivateReturn
<1>17. ASSUME NEW c \in Ctx, NEW q \in Queues, NEW p \in Queues \cup {NoQueue},
             SetTarget(c, q, p)
      PROVE  RetargetsAway'
  <2>1. \A d \in Ctx : d # c => call'[d] = call[d]
    BY <1>17 DEF SetTarget, TypeOK
  <2>2. call'[c].on = q
    BY <1>17 DEF SetTarget, TypeOK
  <2>3. \A x : Up(x)' = Up(x)
    BY <1>17 DEF SetTarget, Up
  <2>4. at' = at /\ \A t \in Tasks : at[t] # NoQueue => q \notin Up(at[t])
    BY <1>17 DEF SetTarget
  <2>. QED
    BY <2>1, <2>2, <2>3, <2>4 DEF RetargetsAway
<1>18. ASSUME NEW c \in Ctx, NativeSetTarget(c)
      PROVE  RetargetsAway'
  <2>1. \A d \in Ctx : call'[d].op = "retarget" => call'[d] = call[d]
    BY <1>18 DEF NativeSetTarget, TypeOK, NoCall
  <2>2. at' = at
    BY <1>18 DEF NativeSetTarget
  <2>3. \A t \in Tasks : \A p : at[t] # NoQueue => (p \in (Up(at[t]))' <=> p \in Up(at[t]))
    BY <1>18, RetargetKeeps
  <2>. QED
    BY <2>1, <2>2, <2>3 DEF RetargetsAway
<1>19. ASSUME NEW c \in Ctx, NEW f \in Funcs, DropRef(c, f)
      PROVE  RetargetsAway'
  BY <1>19, RetargetsStable DEF DropRef
<1>20. ASSUME NEW c \in Ctx, NEW q \in Queues, DropWrapper(c, q)
      PROVE  RetargetsAway'
  BY <1>20, RetargetsStable DEF DropWrapper
<1>21. CASE UNCHANGED vars
  BY <1>21, RetargetsStable DEF vars
<1>. QED
  BY <1>1, <1>2, <1>3, <1>4, <1>5, <1>6, <1>7, <1>8, <1>9, <1>10,
     <1>11, <1>12, <1>13, <1>14, <1>15, <1>16, <1>17, <1>18, <1>19, <1>20, <1>21 DEF Next

(* Every step keeps executing tasks apart: libdispatch invokes a task only when  *)
(* none that executes shares a serial queue with it, and neither a submission    *)
(* nor a retargeting changes the hierarchy of one that does.                     *)
LEMMA ApartStep ==
    ASSUME HierarchyInv, [Next]_vars
    PROVE  SerialApart'
<1>0. TypeOK /\ CallsNamed /\ Addressed /\ RetargetsAway /\ SerialApart
  BY DEF HierarchyInv, QueueInv
<1>. USE <1>0 DEF EnterNative, LeaveNative, wrapperVars, nativeVars, taskVars, refVars
<1>1. ASSUME NEW c \in Ctx, TakeGIL(c)
      PROVE  SerialApart'
  BY <1>1, ApartStable DEF TakeGIL
<1>2. ASSUME NEW c \in Ctx, DropGIL(c)
      PROVE  SerialApart'
  BY <1>2, ApartStable DEF DropGIL
<1>3. ASSUME NEW c \in Ctx, NEW q \in Queues, NEW t \in Tasks, NEW m \in Methods, Submit(c, q, t, m)
      PROVE  SerialApart'
  <2>1. \A u \in Tasks : phase'[u] \in Executing => phase[u] \in Executing /\ at'[u] = at[u]
    BY <1>3 DEF Submit, TypeOK, CallsNamed, InPython, Runnable, Executing
  <2>. QED
    BY <1>3, <2>1, ApartStable DEF Submit
<1>4. ASSUME NEW c \in Ctx, NativeEnqueue(c)
      PROVE  SerialApart'
  <2>1. \A u \in Tasks : phase'[u] \in Executing => phase[u] \in Executing /\ at'[u] = at[u]
    BY <1>4 DEF NativeEnqueue, TypeOK, CallsNamed, InPython, Runnable, Executing
  <2>. QED
    BY <1>4, <2>1, ApartStable DEF NativeEnqueue
<1>5. ASSUME NEW t \in Tasks, AfterFires(t)
      PROVE  SerialApart'
  <2>1. \A u \in Tasks : phase'[u] \in Executing => phase[u] \in Executing /\ at'[u] = at[u]
    BY <1>5 DEF AfterFires, TypeOK, CallsNamed, InPython, Runnable, Executing
  <2>. QED
    BY <1>5, <2>1, ApartStable DEF AfterFires
<1>6. ASSUME NEW t \in Tasks, NativeInvoke(t)
      PROVE  SerialApart'
  <2>1. \A u \in Tasks : phase[u] \in Executing => Up(at[u]) \cap Up(at[t]) \subseteq Concurrent
    BY <1>6 DEF NativeInvoke, Excludes, NativeSerial
  <2>2. \A u \in Tasks : u # t /\ phase'[u] \in Executing => phase[u] \in Executing
    BY <1>6 DEF NativeInvoke, TypeOK
  <2>3. at' = at /\ \A p : Up(p)' = Up(p)
    BY <1>6 DEF NativeInvoke, Up
  <2>. QED
    BY <2>1, <2>2, <2>3 DEF SerialApart
<1>7. ASSUME NEW t \in Tasks, TrampolineBegin(t)
      PROVE  SerialApart'
  <2>1. \A u \in Tasks : phase'[u] \in Executing => phase[u] \in Executing /\ at'[u] = at[u]
    BY <1>7 DEF TrampolineBegin, TypeOK, CallsNamed, InPython, Runnable, Executing
  <2>. QED
    BY <1>7, <2>1, ApartStable DEF TrampolineBegin
<1>8. ASSUME NEW t \in Tasks, TrampolineEnd(t)
      PROVE  SerialApart'
  <2>1. \A u \in Tasks : phase'[u] \in Executing => phase[u] \in Executing /\ at'[u] = at[u]
    BY <1>8 DEF TrampolineEnd, TypeOK, CallsNamed, InPython, Runnable, Executing
  <2>. QED
    BY <1>8, <2>1, ApartStable DEF TrampolineEnd
<1>9. ASSUME NEW c \in Ctx, SyncReturn(c)
      PROVE  SerialApart'
  BY <1>9, ApartStable DEF SyncReturn
<1>10. ASSUME NEW c \in Ctx, NEW q \in Queues, Suspend(c, q)
      PROVE  SerialApart'
  BY <1>10, ApartStable DEF Suspend
<1>11. ASSUME NEW c \in Ctx, NativeSuspend(c)
      PROVE  SerialApart'
  BY <1>11, ApartStable DEF NativeSuspend
<1>12. ASSUME NEW c \in Ctx, NEW q \in Queues, Resume(c, q)
      PROVE  SerialApart'
  BY <1>12, ApartStable DEF Resume
<1>13. ASSUME NEW c \in Ctx, NativeResume(c)
      PROVE  SerialApart'
  BY <1>13, ApartStable DEF NativeResume
<1>14. ASSUME NEW c \in Ctx, NEW q \in Queues, Activate(c, q)
      PROVE  SerialApart'
  BY <1>14, ApartStable DEF Activate
<1>15. ASSUME NEW c \in Ctx, NativeActivate(c)
      PROVE  SerialApart'
  BY <1>15, ApartStable DEF NativeActivate
<1>16. ASSUME NEW c \in Ctx, ActivateReturn(c)
      PROVE  SerialApart'
  BY <1>16, ApartStable DEF ActivateReturn
<1>17. ASSUME NEW c \in Ctx, NEW q \in Queues, NEW p \in Queues \cup {NoQueue},
             SetTarget(c, q, p)
      PROVE  SerialApart'
  BY <1>17, ApartStable DEF SetTarget
<1>18. ASSUME NEW c \in Ctx, NativeSetTarget(c)
      PROVE  SerialApart'
  <2>1. at' = at /\ phase' = phase
    BY <1>18 DEF NativeSetTarget
  <2>2. \A t \in Tasks : phase[t] \in Executing =>
            at[t] # NoQueue /\ \A p : p \in (Up(at[t]))' <=> p \in Up(at[t])
    <3>. SUFFICES ASSUME NEW t \in Tasks, phase[t] \in Executing
                  PROVE  at[t] # NoQueue /\ \A p : p \in (Up(at[t]))' <=> p \in Up(at[t])
      OBVIOUS
    <3>1. at[t] # NoQueue
      BY QueueAssumption DEF Addressed, Executing
    <3>. QED
      BY <1>18, <3>1, RetargetKeeps
  <2>. QED
    BY <2>1, <2>2 DEF SerialApart
<1>19. ASSUME NEW c \in Ctx, NEW f \in Funcs, DropRef(c, f)
      PROVE  SerialApart'
  BY <1>19, ApartStable DEF DropRef
<1>20. ASSUME NEW c \in Ctx, NEW q \in Queues, DropWrapper(c, q)
      PROVE  SerialApart'
  BY <1>20, ApartStable DEF DropWrapper
<1>21. CASE UNCHANGED vars
  BY <1>21, ApartStable DEF vars
<1>. QED
  BY <1>1, <1>2, <1>3, <1>4, <1>5, <1>6, <1>7, <1>8, <1>9, <1>10,
     <1>11, <1>12, <1>13, <1>14, <1>15, <1>16, <1>17, <1>18, <1>19, <1>20, <1>21 DEF Next

(* QueueInv, the hierarchies of the tasks and their exclusion hold of every      *)
(* execution, whatever the targets given and changed.                            *)
THEOREM QueueHierarchyInvariant == Spec => []HierarchyInv
<1>1. Init => HierarchyInv
  <2>1. Init => RetargetsAway /\ SerialApart
    BY DEF Init, RetargetsAway, SerialApart, Executing
  <2>. QED
    BY <2>1, InitInv DEF HierarchyInv
<1>2. HierarchyInv /\ [Next]_vars => HierarchyInv'
  <2>1. HierarchyInv /\ [Next]_vars => QueueInv'
    BY TypeStep, CallsStep, AddressedStep, RefStep, OrderStep, ExecStep DEF QueueInv, HierarchyInv
  <2>. QED
    BY <2>1, RetargetsStep, ApartStep DEF HierarchyInv
<1>. QED
  BY <1>1, <1>2, PTL DEF Spec

(* Callables on two queues whose hierarchies meet in a serial queue never run at *)
(* the same time, suspensions, activations and retargetings notwithstanding.     *)
THEOREM QueueHierarchyExclusion == Spec => []HierarchyExclusion
<1>1. HierarchyInv => HierarchyExclusion
  BY DEF HierarchyInv, SerialApart, HierarchyExclusion, Executing
<1>. QED
  BY <1>1, QueueHierarchyInvariant, PTL

-----------------------------------------------------------------------------
(* The interpreter lock.                                                        *)

(* LockUsable only looks at the lock, the calls and the phases.                  *)
LEMMA LockStable ==
    ASSUME LockUsable, UNCHANGED <<gil, call, phase>>
    PROVE  LockUsable'
  BY DEF LockUsable, Runnable

(* Every step leaves the lock with somebody who can give it up.                  *)
LEMMA LockStep ==
    ASSUME QueueInv, LockUsable, [Next]_vars
    PROVE  LockUsable'
<1>0. TypeOK /\ CallsNamed
  BY DEF QueueInv
<1>f. /\ Free \notin Ctx /\ NoCall.op = "none" /\ NoCall.op \in Returning
      /\ \A d \in Ctx : call[d].op # "none" => call[d] # NoCall
  BY ContextAssumption DEF Ctx, NoCall, Returning
<1>. USE <1>0, <1>f DEF EnterNative, LeaveNative, InPython, wrapperVars, nativeVars, taskVars, refVars
<1>1. ASSUME NEW c \in Ctx, TakeGIL(c)
      PROVE  LockUsable'
  BY <1>1 DEF TakeGIL, LockUsable, Runnable, TypeOK
<1>2. ASSUME NEW c \in Ctx, DropGIL(c)
      PROVE  LockUsable'
  BY <1>2 DEF DropGIL, LockUsable, Runnable, TypeOK
<1>3. ASSUME NEW c \in Ctx, NEW q \in Queues, NEW t \in Tasks, NEW m \in Methods, Submit(c, q, t, m)
      PROVE  LockUsable'
  <2>1. /\ gil' = Free /\ \A u \in Tasks : u # t => phase'[u] = phase[u]
        /\ \A d \in Ctx : d # c => call'[d] = call[d]
    BY <1>3 DEF Submit, TypeOK
  <2>2. Runnable(c) /\ phase[t] = "new"
    BY <1>3 DEF Submit
  <2>. QED
    BY <2>1, <2>2 DEF LockUsable, Runnable
<1>4. ASSUME NEW c \in Ctx, NativeEnqueue(c)
      PROVE  LockUsable'
  <2>. DEFINE t == call[c].arg
  <2>1. gil' = gil /\ phase[t] = "held" /\ \A u \in Tasks : u # t => phase'[u] = phase[u]
    BY <1>4 DEF NativeEnqueue, TypeOK, CallsNamed
  <2>2. \A d \in Ctx : d # c => call'[d] = call[d]
    BY <1>4 DEF NativeEnqueue, TypeOK
  <2>3. gil # c /\ Runnable(c) /\ ~(c \in Tasks /\ c = t)
    BY <1>4, <2>1 DEF NativeEnqueue, LockUsable, Runnable, Returning
  <2>. QED
    BY <2>1, <2>2, <2>3 DEF LockUsable, Runnable
<1>5. ASSUME NEW t \in Tasks, AfterFires(t)
      PROVE  LockUsable'
  <2>1. gil' = gil /\ call' = call
    BY <1>5 DEF AfterFires
  <2>2. phase[t] # "running" /\ \A u \in Tasks : u # t => phase'[u] = phase[u]
    BY <1>5 DEF AfterFires, TypeOK
  <2>. QED
    BY <2>1, <2>2 DEF LockUsable, Runnable
<1>6. ASSUME NEW t \in Tasks, NativeInvoke(t)
      PROVE  LockUsable'
  <2>1. gil' = gil /\ call' = call
    BY <1>6 DEF NativeInvoke
  <2>2. phase[t] # "running" /\ \A u \in Tasks : u # t => phase'[u] = phase[u]
    BY <1>6 DEF NativeInvoke, TypeOK
  <2>. QED
    BY <2>1, <2>2 DEF LockUsable, Runnable
<1>7. ASSUME NEW t \in Tasks, TrampolineBegin(t)
      PROVE  LockUsable'
  <2>1. gil' = t /\ call' = call /\ phase[t] = "invoked" /\ phase'[t] = "running"
    BY <1>7 DEF TrampolineBegin, TypeOK
  <2>2. \A u \in Tasks : u # t => phase'[u] = phase[u]
    BY <1>7 DEF TrampolineBegin, TypeOK
  <2>3. call[t] = NoCall
    BY <2>1 DEF LockUsable, Runnable, Ctx
  <2>. QED
    BY <2>1, <2>2, <2>3 DEF LockUsable, Runnable
<1>8. ASSUME NEW t \in Tasks, TrampolineEnd(t)
      PROVE  LockUsable'
  <2>1. gil' = Free /\ call' = call /\ call[t] = NoCall
    BY <1>8 DEF TrampolineEnd
  <2>2. \A u \in Tasks : u # t => phase'[u] = phase[u]
    BY <1>8 DEF TrampolineEnd, TypeOK
  <2>. QED
    BY <2>1, <2>2 DEF LockUsable, Runnable
<1>9. ASSUME NEW c \in Ctx, SyncReturn(c)
      PROVE  LockUsable'
  <2>1. /\ gil' = gil /\ phase' = phase
        /\ call'[c] = NoCall /\ \A d \in Ctx : d # c => call'[d] = call[d]
    BY <1>9 DEF SyncReturn, TypeOK
  <2>. QED
    BY <2>1 DEF LockUsable, Runnable
<1>10. ASSUME NEW c \in Ctx, NEW q \in Queues, Suspend(c, q)
      PROVE  LockUsable'
  <2>1. gil' = Free /\ phase' = phase /\ \A d \in Ctx : d # c => call'[d] = call[d]
    BY <1>10 DEF Suspend, TypeOK
  <2>2. Runnable(c)
    BY <1>10 DEF Suspend
  <2>. QED
    BY <2>1, <2>2 DEF LockUsable, Runnable
<1>11. ASSUME NEW c \in Ctx, NativeSuspend(c)
      PROVE  LockUsable'
  <2>1. /\ gil' = gil /\ phase' = phase
        /\ call'[c] = NoCall /\ \A d \in Ctx : d # c => call'[d] = call[d]
    BY <1>11 DEF NativeSuspend, TypeOK
  <2>. QED
    BY <2>1 DEF LockUsable, Runnable
<1>12. ASSUME NEW c \in Ctx, NEW q \in Queues, Resume(c, q)
      PROVE  LockUsable'
  <2>1. gil' = Free /\ phase' = phase /\ \A d \in Ctx : d # c => call'[d] = call[d]
    BY <1>12 DEF Resume, TypeOK
  <2>2. Runnable(c)
    BY <1>12 DEF Resume
  <2>. QED
    BY <2>1, <2>2 DEF LockUsable, Runnable
<1>13. ASSUME NEW c \in Ctx, NativeResume(c)
      PROVE  LockUsable'
  <2>1. /\ gil' = gil /\ phase' = phase
        /\ call'[c] = NoCall /\ \A d \in Ctx : d # c => call'[d] = call[d]
    BY <1>13 DEF NativeResume, TypeOK
  <2>. QED
    BY <2>1 DEF LockUsable, Runnable
<1>14. ASSUME NEW c \in Ctx, NEW q \in Queues, Activate(c, q)
      PROVE  LockUsable'
  <2>1. gil' = Free /\ phase' = phase /\ \A d \in Ctx : d # c => call'[d] = call[d]
    BY <1>14 DEF Activate, TypeOK
  <2>2. Runnable(c)
    BY <1>14 DEF Activate
  <2>. QED
    BY <2>1, <2>2 DEF LockUsable, Runnable
<1>15. ASSUME NEW c \in Ctx, NativeActivate(c)
      PROVE  LockUsable'
  <2>1. gil' = gil /\ phase' = phase /\ \A d \in Ctx : d # c => call'[d] = call[d]
    BY <1>15 DEF NativeActivate, TypeOK
  <2>2. gil # c /\ Runnable(c)
    BY <1>15 DEF NativeActivate, LockUsable, Returning
  <2>. QED
    BY <2>1, <2>2 DEF LockUsable, Runnable
<1>16. ASSUME NEW c \in Ctx, ActivateReturn(c)
      PROVE  LockUsable'
  <2>1. /\ gil' = gil /\ phase' = phase
        /\ call'[c] = NoCall /\ \A d \in Ctx : d # c => call'[d] = call[d]
    BY <1>16 DEF ActivateReturn, TypeOK
  <2>. QED
    BY <2>1 DEF LockUsable, Runnable
<1>17. ASSUME NEW c \in Ctx, NEW q \in Queues, NEW p \in Queues \cup {NoQueue},
             SetTarget(c, q, p)
      PROVE  LockUsable'
  <2>1. gil' = Free /\ phase' = phase /\ \A d \in Ctx : d # c => call'[d] = call[d]
    BY <1>17 DEF SetTarget, TypeOK
  <2>2. Runnable(c)
    BY <1>17 DEF SetTarget
  <2>. QED
    BY <2>1, <2>2 DEF LockUsable, Runnable
<1>18. ASSUME NEW c \in Ctx, NativeSetTarget(c)
      PROVE  LockUsable'
  <2>1. /\ gil' = gil /\ phase' = phase
        /\ call'[c] = NoCall /\ \A d \in Ctx : d # c => call'[d] = call[d]
    BY <1>18 DEF NativeSetTarget, TypeOK
  <2>. QED
    BY <2>1 DEF LockUsable, Runnable
<1>19. ASSUME NEW c \in Ctx, NEW f \in Funcs, DropRef(c, f)
      PROVE  LockUsable'
  BY <1>19, LockStable DEF DropRef
<1>20. ASSUME NEW c \in Ctx, NEW q \in Queues, DropWrapper(c, q)
      PROVE  LockUsable'
  BY <1>20, LockStable DEF DropWrapper
<1>21. CASE UNCHANGED vars
  BY <1>21, LockStable DEF vars
<1>. QED
  BY <1>1, <1>2, <1>3, <1>4, <1>5, <1>6, <1>7, <1>8, <1>9, <1>10,
     <1>11, <1>12, <1>13, <1>14, <1>15, <1>16, <1>17, <1>18, <1>19, <1>20, <1>21 DEF Next

(* No interleaving of threads, callables and nested calls leaves the lock with a *)
(* callable that has ended or with a context that libdispatch may block.         *)
THEOREM QueueLockUsable == Spec => []LockUsable
<1>1. Init => LockUsable
  BY ContextAssumption DEF Init, LockUsable, Returning, NoCall, Ctx
<1>2. QueueInv /\ LockUsable /\ [Next]_vars => LockUsable'
  BY LockStep
<1>. QED
  BY <1>1, <1>2, QueueInvariant, PTL DEF Spec

-----------------------------------------------------------------------------
(* The refinement: DispatchQueue implements QueueContract.                      *)

(* The abstract status of each phase. *)
LEMMA StatusValues ==
    /\ StatusOf("new") = "new"
    /\ StatusOf("held") = "requested" /\ StatusOf("delayed") = "requested"
    /\ StatusOf("queued") = "accepted" /\ StatusOf("invoked") = "accepted"
    /\ StatusOf("running") = "running" /\ StatusOf("done") = "done"
  BY DEF StatusOf

(* The abstract status of one task. *)
LEMMA StatusAt == ASSUME NEW t \in Tasks PROVE Status[t] = StatusOf(phase[t])
  BY DEF Status

(* Which abstract steps a change of one status is. *)
LEMMA StatusMoves ==
    ASSUME TypeOK, NEW t \in Tasks, NEW x, phase' = [phase EXCEPT ![t] = x]
    PROVE  Status' = [Status EXCEPT ![t] = StatusOf(x)]
  BY DEF Status, TypeOK

(* A step that leaves the submissions alone leaves the abstract state alone. *)
LEMMA SameStatus ==
    ASSUME TypeOK, NEW t \in Tasks, NEW x, phase' = [phase EXCEPT ![t] = x],
           StatusOf(x) = StatusOf(phase[t])
    PROVE  Status' = Status
  BY DEF Status, TypeOK

(* Such a step is a stutter of QueueContract. *)
LEMMA ContractStutter ==
    ASSUME UNCHANGED taskVars
    PROVE  UNCHANGED Contract!vars
  BY DEF taskVars, Status, Contract!vars

(* On submitted tasks the contract and libdispatch agree on what conflicts.     *)
LEMMA ConflictSame ==
    ASSUME Addressed, NEW t \in Tasks, NEW u \in Tasks,
           phase[t] # "new", phase[u] # "new"
    PROVE  Contract!Conflict(t, u) <=> NativeConflict(u, t)
  <1>1. /\ at[t] \in Queues /\ at[u] \in Queues
        /\ NativeBarrier(t) <=> kind[t] \in BarrierMethods
        /\ NativeBarrier(u) <=> kind[u] \in BarrierMethods
    BY BarrierPrimitive DEF Addressed
  <1>. QED
    BY <1>1 DEF Contract!Conflict, Contract!BarrierMethods, BarrierMethods, NativeConflict,
       NativeSerial

(* Every step is a step of QueueContract or a stutter. *)
LEMMA ContractStep ==
    ASSUME QueueInv, [Next]_vars
    PROVE  Contract!Next \/ UNCHANGED Contract!vars
<1>0. TypeOK /\ CallsNamed /\ Addressed /\ OrderKept /\ NoConflictExecutes
  BY DEF QueueInv
<1>. USE <1>0 DEF wrapperVars, nativeVars, taskVars, refVars
<1>1. ASSUME NEW c \in Ctx, TakeGIL(c)
      PROVE  Contract!Next \/ UNCHANGED Contract!vars
  BY <1>1, ContractStutter DEF TakeGIL
<1>2. ASSUME NEW c \in Ctx, DropGIL(c)
      PROVE  Contract!Next \/ UNCHANGED Contract!vars
  BY <1>2, ContractStutter DEF DropGIL
<1>3. ASSUME NEW c \in Ctx, NEW q \in Queues, NEW t \in Tasks, NEW m \in Methods, Submit(c, q, t, m)
      PROVE  Contract!Next \/ UNCHANGED Contract!vars
  <2>. phase[t] = "new" /\ phase' = [phase EXCEPT ![t] = "held"]
    BY <1>3 DEF Submit
  <2>1. Status[t] = "new" /\ Status' = [Status EXCEPT ![t] = "requested"]
    <3>1. Status[t] = "new"
      BY StatusAt, StatusValues
    <3>2. Status' = [Status EXCEPT ![t] = StatusOf("held")]
      BY StatusMoves
    <3>. QED
      BY <3>1, <3>2, StatusValues
  <2>2. \A u \in Tasks : (phase[u] \in Enqueued \cup {"done"})
                           = (Status[u] \in {"accepted", "running", "done"})
    BY StatusValues DEF Status, TypeOK, InFlight, Enqueued
  <2>3. before' = [before EXCEPT ![t] =
            {u \in Tasks : m # "after" /\ at[u] = q
                           /\ Status[u] \in {"accepted", "running", "done"}}]
    BY <1>3, <2>2 DEF Submit
  <2>4. at' = [at EXCEPT ![t] = q] /\ kind' = [kind EXCEPT ![t] = m] /\ m \in AllMethods
    BY <1>3, MethodAssumption DEF Submit
  <2>5. Contract!Request(t, q, m)
    BY <2>1, <2>3, <2>4 DEF Contract!Request
  <2>. QED
    BY <2>4, <2>5 DEF Contract!Next, Contract!TaskMethods, AllMethods
<1>4. ASSUME NEW c \in Ctx, NativeEnqueue(c)
      PROVE  Contract!Next \/ UNCHANGED Contract!vars
  <2>. DEFINE t == call[c].arg
  <2>1. t \in Tasks /\ phase[t] = "held"
    BY <1>4 DEF NativeEnqueue, CallsNamed
  <2>2. at' = at /\ kind' = kind /\ before' = before
    BY <1>4 DEF NativeEnqueue
  <2>3. phase' = [phase EXCEPT ![t] = "delayed"] \/ phase' = [phase EXCEPT ![t] = "queued"]
    BY <1>4 DEF NativeEnqueue
  <2>. HIDE DEF t
  <2>4. CASE phase' = [phase EXCEPT ![t] = "delayed"]
    BY <2>1, <2>2, <2>4, SameStatus, StatusValues DEF Contract!vars
  <2>5. CASE phase' = [phase EXCEPT ![t] = "queued"]
    <3>1. Status[t] = "requested" /\ Status' = [Status EXCEPT ![t] = "accepted"]
      <4>1. Status[t] = "requested"
        BY <2>1, <2>5, StatusAt, StatusValues
      <4>2. Status' = [Status EXCEPT ![t] = StatusOf("queued")]
        BY <2>1, <2>5, StatusMoves
      <4>. QED
        BY <4>1, <4>2, StatusValues
    <3>. QED
      BY <2>1, <2>2, <3>1 DEF Contract!Next, Contract!Accept
  <2>. QED
    BY <2>3, <2>4, <2>5
<1>5. ASSUME NEW t \in Tasks, AfterFires(t)
      PROVE  Contract!Next \/ UNCHANGED Contract!vars
  <2>. phase[t] = "delayed" /\ phase' = [phase EXCEPT ![t] = "queued"]
    BY <1>5 DEF AfterFires
  <2>1. Status[t] = "requested" /\ Status' = [Status EXCEPT ![t] = "accepted"]
    <3>1. Status[t] = "requested"
      BY StatusAt, StatusValues
    <3>2. Status' = [Status EXCEPT ![t] = StatusOf("queued")]
      BY StatusMoves
    <3>. QED
      BY <3>1, <3>2, StatusValues
  <2>. QED
    BY <1>5, <2>1 DEF AfterFires, Contract!Next, Contract!Accept
<1>6. ASSUME NEW t \in Tasks, NativeInvoke(t)
      PROVE  Contract!Next \/ UNCHANGED Contract!vars
  BY <1>6, SameStatus, StatusValues DEF NativeInvoke, Contract!vars
<1>7. ASSUME NEW t \in Tasks, TrampolineBegin(t)
      PROVE  Contract!Next \/ UNCHANGED Contract!vars
  <2>. phase[t] = "invoked" /\ phase' = [phase EXCEPT ![t] = "running"]
    BY <1>7 DEF TrampolineBegin
  <2>1. Status[t] = "accepted" /\ Status' = [Status EXCEPT ![t] = "running"]
    <3>1. Status[t] = "accepted"
      BY StatusAt, StatusValues
    <3>2. Status' = [Status EXCEPT ![t] = StatusOf("running")]
      BY StatusMoves
    <3>. QED
      BY <3>1, <3>2, StatusValues
  <2>2. phase[t] = "invoked"
    BY <1>7 DEF TrampolineBegin
  <2>3. ASSUME NEW u \in before[t], Contract!Conflict(t, u)
        PROVE  Status[u] = "done"
    <3>1. u \in Tasks
      BY DEF TypeOK
    <3>2. NativeConflict(u, t)
      BY <2>2, <2>3, <3>1, ConflictSame DEF OrderKept, Enqueued
    <3>. QED
      BY <2>2, <3>1, <3>2, StatusValues DEF OrderKept, Executing, Status
  <2>4. ASSUME NEW u \in Tasks, Status[u] = "running"
        PROVE  ~Contract!Conflict(u, t)
    <3>1. phase[u] = "running"
      BY <2>4, StatusValues DEF Status, TypeOK, InFlight
    <3>. QED
      BY <2>2, <3>1, ConflictSame DEF NoConflictExecutes, Executing
  <2>5. at' = at /\ kind' = kind /\ before' = before
    BY <1>7 DEF TrampolineBegin
  <2>6. \A u \in before[t] : Contract!Conflict(t, u) = Contract!Conflict(u, t)
    BY DEF Contract!Conflict
  <2>. QED
    BY <2>1, <2>3, <2>4, <2>5, <2>6 DEF Contract!Next, Contract!Start
<1>8. ASSUME NEW t \in Tasks, TrampolineEnd(t)
      PROVE  Contract!Next \/ UNCHANGED Contract!vars
  <2>. phase[t] = "running" /\ phase' = [phase EXCEPT ![t] = "done"]
    BY <1>8 DEF TrampolineEnd, InPython, Runnable
  <2>1. Status[t] = "running" /\ Status' = [Status EXCEPT ![t] = "done"]
    <3>1. Status[t] = "running"
      BY StatusAt, StatusValues
    <3>2. Status' = [Status EXCEPT ![t] = StatusOf("done")]
      BY StatusMoves
    <3>. QED
      BY <3>1, <3>2, StatusValues
  <2>. QED
    BY <1>8, <2>1 DEF TrampolineEnd, Contract!Next, Contract!Finish
<1>9. ASSUME NEW c \in Ctx, SyncReturn(c)
      PROVE  Contract!Next \/ UNCHANGED Contract!vars
  BY <1>9, ContractStutter DEF SyncReturn
<1>10. ASSUME NEW c \in Ctx, NEW q \in Queues, Suspend(c, q)
      PROVE  Contract!Next \/ UNCHANGED Contract!vars
  BY <1>10, ContractStutter DEF Suspend
<1>11. ASSUME NEW c \in Ctx, NativeSuspend(c)
      PROVE  Contract!Next \/ UNCHANGED Contract!vars
  BY <1>11, ContractStutter DEF NativeSuspend
<1>12. ASSUME NEW c \in Ctx, NEW q \in Queues, Resume(c, q)
      PROVE  Contract!Next \/ UNCHANGED Contract!vars
  BY <1>12, ContractStutter DEF Resume
<1>13. ASSUME NEW c \in Ctx, NativeResume(c)
      PROVE  Contract!Next \/ UNCHANGED Contract!vars
  BY <1>13, ContractStutter DEF NativeResume
<1>14. ASSUME NEW c \in Ctx, NEW q \in Queues, Activate(c, q)
      PROVE  Contract!Next \/ UNCHANGED Contract!vars
  BY <1>14, ContractStutter DEF Activate
<1>15. ASSUME NEW c \in Ctx, NativeActivate(c)
      PROVE  Contract!Next \/ UNCHANGED Contract!vars
  BY <1>15, ContractStutter DEF NativeActivate
<1>16. ASSUME NEW c \in Ctx, ActivateReturn(c)
      PROVE  Contract!Next \/ UNCHANGED Contract!vars
  BY <1>16, ContractStutter DEF ActivateReturn
<1>17. ASSUME NEW c \in Ctx, NEW q \in Queues, NEW p \in Queues \cup {NoQueue},
             SetTarget(c, q, p)
      PROVE  Contract!Next \/ UNCHANGED Contract!vars
  BY <1>17, ContractStutter DEF SetTarget
<1>18. ASSUME NEW c \in Ctx, NativeSetTarget(c)
      PROVE  Contract!Next \/ UNCHANGED Contract!vars
  BY <1>18, ContractStutter DEF NativeSetTarget
<1>19. ASSUME NEW c \in Ctx, NEW f \in Funcs, DropRef(c, f)
      PROVE  Contract!Next \/ UNCHANGED Contract!vars
  BY <1>19, ContractStutter DEF DropRef
<1>20. ASSUME NEW c \in Ctx, NEW q \in Queues, DropWrapper(c, q)
      PROVE  Contract!Next \/ UNCHANGED Contract!vars
  BY <1>20, ContractStutter DEF DropWrapper
<1>21. CASE UNCHANGED vars
  BY <1>21, ContractStutter DEF vars
<1>. QED
  BY <1>1, <1>2, <1>3, <1>4, <1>5, <1>6, <1>7, <1>8, <1>9, <1>10,
     <1>11, <1>12, <1>13, <1>14, <1>15, <1>16, <1>17, <1>18, <1>19, <1>20, <1>21 DEF
       Next

(* Every execution of the detailed queue is one QueueContract allows.            *)
THEOREM QueueImplementsContract == Spec => ImplementsContract
<1>1. Init => Contract!Init
  BY StatusValues DEF Init, Status, Contract!Init
<1>2. QueueInv /\ [Next]_vars => [Contract!Next]_(Contract!vars)
  BY ContractStep
<1>. QED
  BY <1>1, <1>2, QueueInvariant, PTL DEF Spec, ImplementsContract, Contract!Spec

-----------------------------------------------------------------------------
(* What QueueContract promises, from the contract alone.                        *)

(* Predecessors have been accepted, and are those of a task that was requested;  *)
(* with that, exclusion and order are inductive.                                 *)
Promises ==
    /\ at \in [Tasks -> Queues \cup {NoQueue}]
    /\ kind \in [Tasks -> Contract!TaskMethods \cup {NoMethod}]
    /\ before \in [Tasks -> SUBSET Tasks]
    /\ \A t \in Tasks : \A u \in before[t] :
          Status[t] # "new" /\ Status[u] \in {"accepted", "running", "done"}
    /\ Contract!Exclusive /\ Contract!Ordered

(* Every step of the contract keeps them.                                        *)
LEMMA PromisesStep ==
    ASSUME Promises, [Contract!Next]_(Contract!vars)
    PROVE  Promises'
<1>. USE DEF Promises, Contract!Exclusive, Contract!Ordered, Contract!Conflict, Contract!BarrierMethods
<1>d. Status \in [Tasks -> {StatusOf(phase[t]) : t \in Tasks}] /\ DOMAIN Status = Tasks
  BY DEF Status
<1>1. ASSUME NEW t \in Tasks, NEW q \in Queues, NEW m \in Contract!TaskMethods, Contract!Request(t, q, m)
      PROVE  Promises'
  <2>1. /\ Status[t] = "new" /\ Status'[t] = "requested"
        /\ \A u \in Tasks : u # t => Status'[u] = Status[u]
    BY <1>1, <1>d DEF Contract!Request
  <2>2. /\ at' \in [Tasks -> Queues \cup {NoQueue}]
        /\ kind' \in [Tasks -> Contract!TaskMethods \cup {NoMethod}]
        /\ before' \in [Tasks -> SUBSET Tasks]
    BY <1>1 DEF Contract!Request
  <2>3. \A u \in Tasks : u # t => at'[u] = at[u] /\ kind'[u] = kind[u] /\ before'[u] = before[u]
    BY <1>1 DEF Contract!Request
  <2>4. \A u \in before'[t] : u \in Tasks /\ Status[u] \in {"accepted", "running", "done"}
    BY <1>1 DEF Contract!Request
  <2>. QED
    BY <2>1, <2>2, <2>3, <2>4
<1>2. ASSUME NEW t \in Tasks, Contract!Accept(t)
      PROVE  Promises'
  <2>1. /\ Status[t] = "requested" /\ Status'[t] = "accepted"
        /\ \A u \in Tasks : u # t => Status'[u] = Status[u]
    BY <1>2, <1>d DEF Contract!Accept
  <2>2. at' = at /\ kind' = kind /\ before' = before
    BY <1>2 DEF Contract!Accept
  <2>. QED
    BY <2>1, <2>2
<1>3. ASSUME NEW t \in Tasks, Contract!Start(t)
      PROVE  Promises'
  <2>1. /\ Status[t] = "accepted" /\ Status'[t] = "running"
        /\ \A u \in Tasks : u # t => Status'[u] = Status[u]
    BY <1>3, <1>d DEF Contract!Start
  <2>2. at' = at /\ kind' = kind /\ before' = before
    BY <1>3 DEF Contract!Start
  <2>3. /\ \A u \in before[t] : Contract!Conflict(u, t) => Status[u] = "done"
        /\ \A u \in Tasks : Status[u] = "running" => ~Contract!Conflict(u, t)
    BY <1>3 DEF Contract!Start
  <2>4. \A u, v \in Tasks : Contract!Conflict(u, v) <=> Contract!Conflict(v, u)
    OBVIOUS
  <2>5. \A u, v \in Tasks : Contract!Conflict(u, v)' <=> Contract!Conflict(u, v)
    BY <2>2
  <2>6. Contract!Exclusive'
    BY <2>1, <2>3, <2>4, <2>5
  <2>7. Contract!Ordered'
    BY <2>1, <2>2, <2>3, <2>5
  <2>. QED
    BY <2>1, <2>2, <2>6, <2>7
<1>4. ASSUME NEW t \in Tasks, Contract!Finish(t)
      PROVE  Promises'
  <2>1. /\ Status[t] = "running" /\ Status'[t] = "done"
        /\ \A u \in Tasks : u # t => Status'[u] = Status[u]
    BY <1>4, <1>d DEF Contract!Finish
  <2>2. at' = at /\ kind' = kind /\ before' = before
    BY <1>4 DEF Contract!Finish
  <2>. QED
    BY <2>1, <2>2
<1>5. CASE UNCHANGED Contract!vars
  BY <1>5 DEF Contract!vars
<1>. QED
  BY <1>1, <1>2, <1>3, <1>4, <1>5 DEF Contract!Next

(* What keeps the contract runs tasks that exclude each other one at a time and  *)
(* in the order of their acceptance: the contract is no empty promise.           *)
THEOREM ContractPromises == Contract!Spec => [](Contract!Exclusive /\ Contract!Ordered)
<1>1. Contract!Init => Promises
  BY DEF Contract!Init, Promises, Contract!Exclusive, Contract!Ordered
<1>2. Promises /\ [Contract!Next]_(Contract!vars) => Promises'
  BY PromisesStep
<1>3. Promises => Contract!Exclusive /\ Contract!Ordered
  BY DEF Promises
<1>. QED
  BY <1>1, <1>2, <1>3, PTL DEF Contract!Spec

=============================================================================
