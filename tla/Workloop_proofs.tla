--------------------------- MODULE Workloop_proofs ---------------------------
(***************************************************************************)
(* Proofs about Workloop, for every finite set of threads and every set of *)
(* submissions.                                                            *)
(***************************************************************************)
EXTENDS Workloop, TLAPS

(* The stages of run_async and run_sync before the libdispatch call, those of     *)
(* run_sync, and those of a callable that has ended.                              *)
Submits == {"async", "sync"}
Synced == {"sync", "enqueued", "waiting"}
Over == {"ending", "done"}

(* The flag is never ahead of the workloop, and behind it only while activate is  *)
(* about to clear it.  A call that sets the frequency has been overtaken by an    *)
(* activation only if the two overlap.                                            *)
Flag ==
    /\ ~inactive => native = "active"
    /\ inactive /\ native = "active" /\ ~released => \E c \in Ctx : call[c].op = "activated"
    /\ \A c \in Ctx :
        /\ call[c].op \in Submits \cup {"activated"} => native = "active"
        /\ call[c].op = "frequency" =>
              /\ native = "active" => raced
              /\ \A d \in Ctx : call[d].op \in {"activate", "activated"} => raced
    /\ terminated => raced

(* Who is in the middle of which submission, and how far they can be.             *)
CallsNamed ==
    \A c \in Ctx :
        /\ call[c].op \in Submits \cup Synced <=> call[c].t # NoTask
        /\ \A d \in Ctx : call[c].t # NoTask /\ call[d].t = call[c].t => d = c
        /\ call[c].op \in Submits => task[call[c].t] = "given"
        /\ call[c].op \in {"enqueued", "waiting"} => task[call[c].t] \notin {"new", "given"}
        /\ call[c].op \in Synced => outcome[call[c].t] = "waiting"
        /\ call[c].op = "async" => outcome[call[c].t] = "none"
        /\ call[c].op # "waiting" => wait[c] = Sem!NoWait
        /\ call[c].op = "waiting" =>
              /\ wait[c].sem = call[c].t /\ wait[c].at \in {"asleep", "granted"}
              /\ wait[c].at = "granted" <=> task[call[c].t] \in Over

(* What is known of how a callable ended.                                         *)
Endings ==
    \A t \in Tasks :
        /\ task[t] = "new" => outcome[t] = "none"
        /\ result[t] # "none" <=> task[t] \in {"signalling", "ending", "done"}
        /\ task[t] = "signalling" => outcome[t] # "none"
        /\ info[t] = IF outcome[t] # "none" /\ result[t] = "Exception" THEN "Exception" ELSE "none"
        /\ outcome[t] \in {"returned", "raised"} =>
              /\ task[t] \in Over
              /\ outcome[t] = "raised" <=> info[t] # "none"

(* The value of a semaphore: below its first value while its one user sleeps,     *)
(* above it when it has been signalled and not yet waited for.                    *)
Value(t) ==
    IF \E c \in Ctx : call[c].op = "waiting" /\ call[c].t = t /\ wait[c].at = "asleep" THEN -1
    ELSE IF /\ outcome[t] = "waiting" /\ task[t] \in Over
            /\ \A c \in Ctx : call[c].op = "waiting" => call[c].t # t THEN 1
    ELSE 0
Values == \A t \in Tasks : value[t] = Value(t)

(* The inductive invariant. *)
WorkInv == TypeOK /\ Flag /\ CallsNamed /\ Endings /\ Values /\ CallableRefs

-----------------------------------------------------------------------------
(* No name stands for two things. *)
LEMMA NameFacts ==
    /\ NoTask \notin Tasks
    /\ NoCall.op = "none" /\ NoCall.t = NoTask
    /\ Sem!NoWait.at = "none" /\ Sem!NoWait.sem = NoTask /\ Sem!NoWait.timed = FALSE
  BY WorkloopAssumption DEF NoCall, Sem!NoWait

(* The value that a semaphore has depends only on who waits for it, and on        *)
(* whether it has been signalled.                                                 *)
LEMMA SameValue ==
    ASSUME NEW t \in Tasks, UNCHANGED wait,
           (outcome'[t] = "waiting" /\ task'[t] \in Over)
              <=> (outcome[t] = "waiting" /\ task[t] \in Over),
           \A c \in Ctx :
              /\ call'[c].op = "waiting" <=> call[c].op = "waiting"
              /\ call[c].op = "waiting" => call'[c].t = call[c].t
    PROVE  Value(t)' = Value(t)
  BY DEF Value

(* A signal wakes the one call that sleeps, or finds that none waits.             *)
LEMMA SignalEffect ==
    ASSUME WorkInv, NEW t \in Tasks, SignalDone(t)
    PROVE  /\ task[t] = "signalling" /\ outcome[t] = "waiting" /\ UNCHANGED <<call, outcome>>
           /\ \/ /\ value' = [value EXCEPT ![t] = 0]
                 /\ \E w \in Ctx :
                       /\ call[w].op = "waiting" /\ call[w].t = t
                       /\ wait' = [wait EXCEPT ![w].at = "granted"]
              \/ /\ value' = [value EXCEPT ![t] = 1] /\ wait' = wait
                 /\ \A c \in Ctx : call[c].op = "waiting" => call[c].t # t
<1>0. TypeOK /\ CallsNamed /\ Endings /\ Values
  BY DEF WorkInv
<1>. USE <1>0, NameFacts DEF Synced, Submits, Over
<1>1. task[t] = "signalling" /\ UNCHANGED <<call, outcome>>
  BY DEF SignalDone, taskVars, callVars
<1>2. outcome[t] = "waiting"
  BY <1>1 DEF Endings, TypeOK
<1>3. value[t] = Value(t)
  BY DEF Values
<1>4. CASE value[t] < 0
  <2>1. value[t] = -1
    BY <1>3, <1>4 DEF Value
  <2>2. PICK w \in Sem!Sleepers(t) : wait' = [wait EXCEPT ![w].at = "granted"]
    BY <1>4 DEF SignalDone, Sem!Signal
  <2>3. w \in Ctx /\ wait[w].sem = t
    BY <2>2 DEF Sem!Sleepers
  <2>4. call[w].op = "waiting" /\ call[w].t = t
    BY <2>3 DEF CallsNamed
  <2>5. value' = [value EXCEPT ![t] = 0]
    BY <2>1 DEF SignalDone, Sem!Signal
  <2>. QED
    BY <1>1, <1>2, <2>2, <2>3, <2>4, <2>5
<1>5. CASE ~(value[t] < 0)
  <2>1. value[t] = 0
    BY <1>1, <1>3, <1>5 DEF Value
  <2>2. value' = [value EXCEPT ![t] = 1] /\ wait' = wait
    BY <2>1 DEF SignalDone, Sem!Signal
  <2>3. ASSUME NEW c \in Ctx, call[c].op = "waiting", call[c].t = t
        PROVE  FALSE
    <3>1. wait[c].at = "asleep"
      BY <1>1, <2>3 DEF CallsNamed
    <3>. QED
      BY <1>3, <2>1, <2>3, <3>1 DEF Value
  <2>. QED
    BY <1>1, <1>2, <2>2, <2>3
<1>. QED
  BY <1>4, <1>5

(* Every step keeps the types. *)
LEMMA TypeStep ==
    ASSUME WorkInv, [Next]_vars
    PROVE  TypeOK'
<1>0. TypeOK /\ Flag /\ CallsNamed /\ Endings /\ Values /\ CallableRefs
  BY DEF WorkInv
<1>. USE <1>0, NameFacts DEF callVars, taskVars, Submits, Synced, Over
<1>1. ASSUME NEW c \in Ctx, Activate(c)
      PROVE  TypeOK'
  BY <1>1 DEF Activate, Begun, Busy, TypeOK, Executing, Sem!SemTypeOK
<1>2. ASSUME NEW c \in Ctx, SetFrequency(c)
      PROVE  TypeOK'
  BY <1>2 DEF SetFrequency, Begun, Busy, TypeOK, Executing, Sem!SemTypeOK
<1>3. ASSUME NEW c \in Ctx, NativeActivate(c)
      PROVE  TypeOK'
  BY <1>3 DEF NativeActivate, Goto, TypeOK, Executing, Sem!SemTypeOK
<1>4. ASSUME NEW c \in Ctx, ActivateReturn(c)
      PROVE  TypeOK'
  <2>1. call' \in [Ctx -> [op : {"none", "activate", "activated", "frequency", "async",
                                 "sync", "enqueued", "waiting"},
                           t : Tasks \cup {NoTask}]]
    BY <1>4 DEF ActivateReturn, Ended, NoCall, TypeOK
  <2>. QED
    BY <1>4, <2>1 DEF ActivateReturn, Ended, TypeOK, Executing, Sem!SemTypeOK
<1>5. ASSUME NEW c \in Ctx, NativeSetFrequency(c)
      PROVE  TypeOK'
  <2>1. call' \in [Ctx -> [op : {"none", "activate", "activated", "frequency", "async",
                                 "sync", "enqueued", "waiting"},
                           t : Tasks \cup {NoTask}]]
    BY <1>5 DEF NativeSetFrequency, Ended, Terminates, NoCall, TypeOK
  <2>. QED
    BY <1>5, <2>1 DEF NativeSetFrequency, Ended, Terminates, TypeOK, Executing, Sem!SemTypeOK
<1>6. ASSUME NEW c \in Ctx, NativeEnqueue(c)
      PROVE  TypeOK'
  <2>1. call' \in [Ctx -> [op : {"none", "activate", "activated", "frequency", "async",
                                 "sync", "enqueued", "waiting"},
                           t : Tasks \cup {NoTask}]]
    <3>1. CASE call[c].op = "async"
      BY <1>6, <3>1 DEF NativeEnqueue, Ended, NoCall, TypeOK
    <3>2. CASE call[c].op = "sync"
      BY <1>6, <3>2 DEF NativeEnqueue, Goto, TypeOK
    <3>. QED
      BY <1>6, <3>1, <3>2 DEF NativeEnqueue
  <2>2. task' \in [Tasks -> {"new", "given", "queued", "done"} \cup Executing]
    BY <1>6 DEF NativeEnqueue, TypeOK
  <2>. QED
    BY <1>6, <2>1, <2>2 DEF NativeEnqueue, Terminates, TypeOK, Sem!SemTypeOK
<1>7. ASSUME NEW c \in Ctx, SyncWait(c)
      PROVE  TypeOK'
  <2>1. call' \in [Ctx -> [op : {"none", "activate", "activated", "frequency", "async",
                                 "sync", "enqueued", "waiting"},
                           t : Tasks \cup {NoTask}]]
    BY <1>7 DEF SyncWait, Goto, TypeOK
  <2>2. call[c].t \in Tasks
    BY <1>7 DEF SyncWait, CallsNamed, TypeOK
  <2>3. wait' \in [Ctx -> [at : {"none", "asleep", "granted", "refused"},
                           sem : Tasks \cup {NoTask}, timed : BOOLEAN]]
    BY <1>7, <2>2 DEF SyncWait, Sem!WaitEnter, TypeOK, Sem!SemTypeOK
  <2>4. value' \in [Tasks -> Int]
    BY <1>7, <2>2 DEF SyncWait, Sem!WaitEnter, TypeOK, Sem!SemTypeOK
  <2>. QED
    BY <1>7, <2>1, <2>3, <2>4 DEF SyncWait, TypeOK, Sem!SemTypeOK
<1>8. ASSUME NEW c \in Ctx, SyncReturn(c)
      PROVE  TypeOK'
  <2>1. call' \in [Ctx -> [op : {"none", "activate", "activated", "frequency", "async",
                                 "sync", "enqueued", "waiting"},
                           t : Tasks \cup {NoTask}]]
    BY <1>8 DEF SyncReturn, Ended, NoCall, TypeOK
  <2>2. wait' \in [Ctx -> [at : {"none", "asleep", "granted", "refused"},
                           sem : Tasks \cup {NoTask}, timed : BOOLEAN]]
    BY <1>8 DEF SyncReturn, Sem!WaitReturn, Sem!NoWait, TypeOK, Sem!SemTypeOK
  <2>3. outcome' \in [Tasks -> {"none", "waiting", "returned", "raised"}]
    BY <1>8 DEF SyncReturn, TypeOK
  <2>4. call[c].t \in Tasks /\ refs[call[c].t] \in Nat /\ refs[call[c].t] > 0
    BY <1>8 DEF SyncReturn, CallsNamed, CallableRefs, One, TypeOK
  <2>5. refs' \in [Tasks -> Nat]
    BY <1>8, <2>4 DEF SyncReturn, TypeOK
  <2>. QED
    BY <1>8, <2>1, <2>2, <2>3, <2>5 DEF SyncReturn, Sem!WaitReturn, TypeOK, Sem!SemTypeOK
<1>9. ASSUME NEW c \in Ctx, NEW t \in Tasks, RunAsync(c, t)
      PROVE  TypeOK'
  BY <1>9 DEF RunAsync, Begun, TypeOK, Executing, Sem!SemTypeOK
<1>10. ASSUME NEW c \in Ctx, NEW t \in Tasks, RunSync(c, t)
      PROVE  TypeOK'
  BY <1>10 DEF RunSync, Begun, TypeOK, Executing, Sem!SemTypeOK
<1>11. ASSUME NEW t \in Tasks, Begin(t)
      PROVE  TypeOK'
  BY <1>11 DEF Begin, Executing, TypeOK, Executing, Sem!SemTypeOK
<1>12. ASSUME NEW t \in Tasks, SignalDone(t)
      PROVE  TypeOK'
  <2>1. value' \in [Tasks -> Int]
    BY <1>12 DEF SignalDone, Sem!Signal, TypeOK, Sem!SemTypeOK
  <2>2. wait' \in [Ctx -> [at : {"none", "asleep", "granted", "refused"},
                           sem : Tasks \cup {NoTask}, timed : BOOLEAN]]
    <3>1. wait' = wait \/ \E w \in Ctx : wait' = [wait EXCEPT ![w].at = "granted"]
      BY <1>12, SignalEffect
    <3>. QED
      BY <3>1 DEF TypeOK, Sem!SemTypeOK
  <2>3. task' \in [Tasks -> {"new", "given", "queued", "done"} \cup Executing]
    BY <1>12 DEF SignalDone, TypeOK, Executing
  <2>. QED
    BY <1>12, <2>1, <2>2, <2>3 DEF SignalDone, TypeOK, Sem!SemTypeOK
<1>13. ASSUME NEW t \in Tasks, TrampolineEnd(t)
      PROVE  TypeOK'
  <2>1. refs[t] \in Nat /\ refs[t] > 0
    BY <1>13 DEF TrampolineEnd, CallableRefs, One, InHand, Executing, TypeOK
  <2>2. refs' \in [Tasks -> Nat]
    BY <1>13, <2>1 DEF TrampolineEnd, TypeOK
  <2>. QED
    BY <1>13, <2>2 DEF TrampolineEnd, TypeOK, Executing, Sem!SemTypeOK
<1>14. ASSUME NEW t \in Tasks, NEW r \in Results, End(t, r)
      PROVE  TypeOK'
  BY <1>14 DEF End, Signals, Kept, Synchronous, Results, TypeOK, Executing, Sem!SemTypeOK
<1>15. ASSUME Dealloc
      PROVE  TypeOK'
  BY <1>15 DEF Dealloc, Terminates, TypeOK, Executing, Sem!SemTypeOK
<1>16. CASE UNCHANGED vars
  BY <1>16 DEF vars, TypeOK, Executing, Sem!SemTypeOK
<1>. QED
  BY <1>1, <1>2, <1>3, <1>4, <1>5, <1>6, <1>7, <1>8, <1>9, <1>10,
     <1>11, <1>12, <1>13, <1>14, <1>15, <1>16
     DEF Next, CallStep, TaskStep

(* Every step keeps the flag behind the workloop. *)
LEMMA FlagStep ==
    ASSUME WorkInv, [Next]_vars
    PROVE  Flag'
<1>0. TypeOK /\ Flag /\ CallsNamed /\ Endings /\ Values /\ CallableRefs
  BY DEF WorkInv
<1>. USE <1>0, NameFacts DEF callVars, taskVars, Submits, Synced, Over
<1>1. ASSUME NEW c \in Ctx, Activate(c)
      PROVE  Flag'
  BY <1>1 DEF Activate, Begun, Busy, Flag, TypeOK
<1>2. ASSUME NEW c \in Ctx, SetFrequency(c)
      PROVE  Flag'
  BY <1>2 DEF SetFrequency, Begun, Busy, Flag, TypeOK
<1>3. ASSUME NEW c \in Ctx, NativeActivate(c)
      PROVE  Flag'
  BY <1>3 DEF NativeActivate, Goto, Flag, TypeOK
<1>4. ASSUME NEW c \in Ctx, ActivateReturn(c)
      PROVE  Flag'
  BY <1>4 DEF ActivateReturn, Ended, Flag, TypeOK
<1>5. ASSUME NEW c \in Ctx, NativeSetFrequency(c)
      PROVE  Flag'
  BY <1>5 DEF NativeSetFrequency, Ended, Terminates, Flag, TypeOK
<1>6. ASSUME NEW c \in Ctx, NativeEnqueue(c)
      PROVE  Flag'
  BY <1>6 DEF NativeEnqueue, Ended, Goto, Terminates, Flag, TypeOK
<1>7. ASSUME NEW c \in Ctx, SyncWait(c)
      PROVE  Flag'
  BY <1>7 DEF SyncWait, Goto, Sem!WaitEnter, Flag, TypeOK
<1>8. ASSUME NEW c \in Ctx, SyncReturn(c)
      PROVE  Flag'
  BY <1>8 DEF SyncReturn, Ended, Sem!WaitReturn, Flag, TypeOK
<1>9. ASSUME NEW c \in Ctx, NEW t \in Tasks, RunAsync(c, t)
      PROVE  Flag'
  BY <1>9 DEF RunAsync, Begun, Flag, TypeOK
<1>10. ASSUME NEW c \in Ctx, NEW t \in Tasks, RunSync(c, t)
      PROVE  Flag'
  BY <1>10 DEF RunSync, Begun, Flag, TypeOK
<1>11. ASSUME NEW t \in Tasks, Begin(t)
      PROVE  Flag'
  BY <1>11 DEF Begin, Executing, Flag, TypeOK
<1>12. ASSUME NEW t \in Tasks, SignalDone(t)
      PROVE  Flag'
  BY <1>12 DEF SignalDone, Sem!Signal, Sem!Sleepers, Flag, TypeOK
<1>13. ASSUME NEW t \in Tasks, TrampolineEnd(t)
      PROVE  Flag'
  BY <1>13 DEF TrampolineEnd, Flag, TypeOK
<1>14. ASSUME NEW t \in Tasks, NEW r \in Results, End(t, r)
      PROVE  Flag'
  BY <1>14 DEF End, Signals, Kept, Synchronous, Results, Flag, TypeOK
<1>15. ASSUME Dealloc
      PROVE  Flag'
  BY <1>15 DEF Dealloc, Terminates, Flag, TypeOK
<1>16. CASE UNCHANGED vars
  BY <1>16 DEF vars, Flag, TypeOK
<1>. QED
  BY <1>1, <1>2, <1>3, <1>4, <1>5, <1>6, <1>7, <1>8, <1>9, <1>10,
     <1>11, <1>12, <1>13, <1>14, <1>15, <1>16
     DEF Next, CallStep, TaskStep

(* Every step keeps the calls as they should be. *)
LEMMA CallsStep ==
    ASSUME WorkInv, [Next]_vars
    PROVE  CallsNamed'
<1>0. TypeOK /\ Flag /\ CallsNamed /\ Endings /\ Values /\ CallableRefs
  BY DEF WorkInv
<1>. USE <1>0, NameFacts DEF callVars, taskVars, Submits, Synced, Over
<1>1. ASSUME NEW c \in Ctx, Activate(c)
      PROVE  CallsNamed'
  BY <1>1 DEF Activate, Begun, Busy, CallsNamed, Values, Value, Endings, TypeOK,
       Sem!SemTypeOK, Sem!NoWait
<1>2. ASSUME NEW c \in Ctx, SetFrequency(c)
      PROVE  CallsNamed'
  BY <1>2 DEF SetFrequency, Begun, Busy, CallsNamed, Values, Value, Endings, TypeOK,
       Sem!SemTypeOK, Sem!NoWait
<1>3. ASSUME NEW c \in Ctx, NativeActivate(c)
      PROVE  CallsNamed'
  BY <1>3 DEF NativeActivate, Goto, CallsNamed, Values, Value, Endings, TypeOK,
       Sem!SemTypeOK, Sem!NoWait
<1>4. ASSUME NEW c \in Ctx, ActivateReturn(c)
      PROVE  CallsNamed'
  BY <1>4 DEF ActivateReturn, Ended, CallsNamed, Values, Value, Endings, TypeOK,
       Sem!SemTypeOK, Sem!NoWait
<1>5. ASSUME NEW c \in Ctx, NativeSetFrequency(c)
      PROVE  CallsNamed'
  BY <1>5 DEF NativeSetFrequency, Ended, Terminates, CallsNamed, Values, Value,
       Endings, TypeOK, Sem!SemTypeOK, Sem!NoWait
<1>6. ASSUME NEW c \in Ctx, NativeEnqueue(c)
      PROVE  CallsNamed'
  <2>1. PICK t \in Tasks : call[c].t = t /\ task[t] = "given" /\ task' = [task EXCEPT ![t] = "queued"]
    BY <1>6 DEF NativeEnqueue, CallsNamed, TypeOK
  <2>2. UNCHANGED <<outcome, wait>> /\ \A d \in Ctx \ {c} : call'[d] = call[d] /\ call[d].t # t
    BY <1>6, <2>1 DEF NativeEnqueue, Ended, Goto, CallsNamed, TypeOK
  <2>3. task'[t] = "queued" /\ \A u \in Tasks \ {t} : task'[u] = task[u]
    BY <2>1 DEF TypeOK
  <2>4. ASSUME NEW d \in Ctx \ {c}
        PROVE  call[d].t # NoTask => task'[call[d].t] = task[call[d].t]
    BY <2>2, <2>3 DEF TypeOK
  <2>5. CASE call[c].op = "async"
    <3>1. call'[c] = NoCall /\ wait[c] = Sem!NoWait
      BY <1>6, <2>5 DEF NativeEnqueue, Ended, CallsNamed, TypeOK
    <3>. QED
      BY <2>2, <2>4, <3>1 DEF CallsNamed
  <2>6. CASE call[c].op = "sync"
    <3>1. call'[c].op = "enqueued" /\ call'[c].t = t /\ wait[c] = Sem!NoWait /\ outcome[t] = "waiting"
      BY <1>6, <2>1, <2>6 DEF NativeEnqueue, Goto, CallsNamed, TypeOK
    <3>. QED
      BY <2>1, <2>2, <2>3, <2>4, <3>1 DEF CallsNamed
  <2>. QED
    BY <1>6, <2>5, <2>6 DEF NativeEnqueue
<1>7. ASSUME NEW c \in Ctx, SyncWait(c)
      PROVE  CallsNamed'
  BY <1>7 DEF SyncWait, Goto, Sem!WaitEnter, CallsNamed, Values, Value, Endings,
       TypeOK, Sem!SemTypeOK, Sem!NoWait
<1>8. ASSUME NEW c \in Ctx, SyncReturn(c)
      PROVE  CallsNamed'
  <2>1. PICK t \in Tasks : call[c].t = t /\ \A d \in Ctx \ {c} : call[d].t # t
    BY <1>8 DEF SyncReturn, CallsNamed, TypeOK
  <2>2. /\ call'[c] = NoCall /\ \A d \in Ctx \ {c} : call'[d] = call[d]
        /\ wait'[c] = Sem!NoWait /\ \A d \in Ctx \ {c} : wait'[d] = wait[d]
        /\ task' = task
    BY <1>8 DEF SyncReturn, Ended, Sem!WaitReturn, TypeOK, Sem!SemTypeOK
  <2>3. \A u \in Tasks \ {t} : outcome'[u] = outcome[u]
    BY <1>8, <2>1 DEF SyncReturn, TypeOK
  <2>4. \A d \in Ctx \ {c} : call[d].t # NoTask => outcome'[call[d].t] = outcome[call[d].t]
    BY <2>1, <2>3 DEF TypeOK
  <2>. QED
    BY <2>2, <2>4 DEF CallsNamed
<1>9. ASSUME NEW c \in Ctx, NEW t \in Tasks, RunAsync(c, t)
      PROVE  CallsNamed'
  BY <1>9 DEF RunAsync, Begun, CallsNamed, Values, Value, Endings, TypeOK,
       Sem!SemTypeOK, Sem!NoWait
<1>10. ASSUME NEW c \in Ctx, NEW t \in Tasks, RunSync(c, t)
      PROVE  CallsNamed'
  BY <1>10 DEF RunSync, Begun, CallsNamed, Values, Value, Endings, TypeOK,
       Sem!SemTypeOK, Sem!NoWait
<1>11. ASSUME NEW t \in Tasks, Begin(t)
      PROVE  CallsNamed'
  BY <1>11 DEF Begin, Executing, CallsNamed, Values, Value, Endings, TypeOK,
       Sem!SemTypeOK, Sem!NoWait
<1>12. ASSUME NEW t \in Tasks, SignalDone(t)
      PROVE  CallsNamed'
  <2>1. /\ task[t] = "signalling" /\ task'[t] = "ending" /\ UNCHANGED <<call, outcome>>
        /\ \A u \in Tasks \ {t} : task'[u] = task[u]
    BY <1>12, SignalEffect DEF SignalDone, TypeOK
  <2>2. CASE \E w \in Ctx : /\ call[w].op = "waiting" /\ call[w].t = t
                            /\ wait' = [wait EXCEPT ![w].at = "granted"]
    <3>1. PICK w \in Ctx : /\ call[w].op = "waiting" /\ call[w].t = t
                           /\ wait' = [wait EXCEPT ![w].at = "granted"]
      BY <2>2
    <3>2. /\ wait'[w].at = "granted" /\ wait'[w].sem = wait[w].sem
          /\ \A d \in Ctx \ {w} : wait'[d] = wait[d] /\ call[d].t # t
      BY <3>1 DEF CallsNamed, TypeOK, Sem!SemTypeOK
    <3>. QED
      BY <2>1, <3>1, <3>2 DEF CallsNamed, TypeOK
  <2>3. CASE wait' = wait /\ \A c \in Ctx : call[c].op = "waiting" => call[c].t # t
    BY <2>1, <2>3 DEF CallsNamed, TypeOK
  <2>. QED
    BY <1>12, <2>2, <2>3, SignalEffect
<1>13. ASSUME NEW t \in Tasks, TrampolineEnd(t)
      PROVE  CallsNamed'
  BY <1>13 DEF TrampolineEnd, CallsNamed, Values, Value, Endings, TypeOK,
       Sem!SemTypeOK, Sem!NoWait
<1>14. ASSUME NEW t \in Tasks, NEW r \in Results, End(t, r)
      PROVE  CallsNamed'
  BY <1>14 DEF End, Signals, Kept, Synchronous, Results, CallsNamed, Values, Value,
       Endings, TypeOK, Sem!SemTypeOK, Sem!NoWait
<1>15. ASSUME Dealloc
      PROVE  CallsNamed'
  BY <1>15 DEF Dealloc, Terminates, CallsNamed, Values, Value, Endings, TypeOK,
       Sem!SemTypeOK, Sem!NoWait
<1>16. CASE UNCHANGED vars
  BY <1>16 DEF vars, CallsNamed, Values, Value, Endings, TypeOK, Sem!SemTypeOK, Sem!NoWait
<1>. QED
  BY <1>1, <1>2, <1>3, <1>4, <1>5, <1>6, <1>7, <1>8, <1>9, <1>10,
     <1>11, <1>12, <1>13, <1>14, <1>15, <1>16
     DEF Next, CallStep, TaskStep

(* Every step keeps what is known of the callables. *)
LEMMA EndingsStep ==
    ASSUME WorkInv, [Next]_vars
    PROVE  Endings'
<1>0. TypeOK /\ Flag /\ CallsNamed /\ Endings /\ Values /\ CallableRefs
  BY DEF WorkInv
<1>. USE <1>0, NameFacts DEF callVars, taskVars, Submits, Synced, Over
<1>1. ASSUME NEW c \in Ctx, Activate(c)
      PROVE  Endings'
  BY <1>1 DEF Activate, Begun, Busy, CallsNamed, Endings, TypeOK
<1>2. ASSUME NEW c \in Ctx, SetFrequency(c)
      PROVE  Endings'
  BY <1>2 DEF SetFrequency, Begun, Busy, CallsNamed, Endings, TypeOK
<1>3. ASSUME NEW c \in Ctx, NativeActivate(c)
      PROVE  Endings'
  BY <1>3 DEF NativeActivate, Goto, CallsNamed, Endings, TypeOK
<1>4. ASSUME NEW c \in Ctx, ActivateReturn(c)
      PROVE  Endings'
  BY <1>4 DEF ActivateReturn, Ended, CallsNamed, Endings, TypeOK
<1>5. ASSUME NEW c \in Ctx, NativeSetFrequency(c)
      PROVE  Endings'
  BY <1>5 DEF NativeSetFrequency, Ended, Terminates, CallsNamed, Endings, TypeOK
<1>6. ASSUME NEW c \in Ctx, NativeEnqueue(c)
      PROVE  Endings'
  BY <1>6 DEF NativeEnqueue, Ended, Goto, Terminates, CallsNamed, Endings, TypeOK
<1>7. ASSUME NEW c \in Ctx, SyncWait(c)
      PROVE  Endings'
  BY <1>7 DEF SyncWait, Goto, Sem!WaitEnter, CallsNamed, Endings, TypeOK
<1>8. ASSUME NEW c \in Ctx, SyncReturn(c)
      PROVE  Endings'
  BY <1>8 DEF SyncReturn, Ended, Sem!WaitReturn, CallsNamed, Endings, TypeOK
<1>9. ASSUME NEW c \in Ctx, NEW t \in Tasks, RunAsync(c, t)
      PROVE  Endings'
  BY <1>9 DEF RunAsync, Begun, CallsNamed, Endings, TypeOK
<1>10. ASSUME NEW c \in Ctx, NEW t \in Tasks, RunSync(c, t)
      PROVE  Endings'
  BY <1>10 DEF RunSync, Begun, CallsNamed, Endings, TypeOK
<1>11. ASSUME NEW t \in Tasks, Begin(t)
      PROVE  Endings'
  BY <1>11 DEF Begin, Executing, CallsNamed, Endings, TypeOK
<1>12. ASSUME NEW t \in Tasks, SignalDone(t)
      PROVE  Endings'
  BY <1>12 DEF SignalDone, Sem!Signal, Sem!Sleepers, CallsNamed, Endings, TypeOK
<1>13. ASSUME NEW t \in Tasks, TrampolineEnd(t)
      PROVE  Endings'
  BY <1>13 DEF TrampolineEnd, CallsNamed, Endings, TypeOK
<1>14. ASSUME NEW t \in Tasks, NEW r \in Results, End(t, r)
      PROVE  Endings'
  BY <1>14 DEF End, Signals, Kept, Synchronous, Results, CallsNamed, Endings, TypeOK
<1>15. ASSUME Dealloc
      PROVE  Endings'
  BY <1>15 DEF Dealloc, Terminates, CallsNamed, Endings, TypeOK
<1>16. CASE UNCHANGED vars
  BY <1>16 DEF vars, CallsNamed, Endings, TypeOK
<1>. QED
  BY <1>1, <1>2, <1>3, <1>4, <1>5, <1>6, <1>7, <1>8, <1>9, <1>10,
     <1>11, <1>12, <1>13, <1>14, <1>15, <1>16
     DEF Next, CallStep, TaskStep

(* Every step keeps the values of the semaphores. *)
LEMMA ValuesStep ==
    ASSUME WorkInv, [Next]_vars
    PROVE  Values'
<1>0. TypeOK /\ CallsNamed /\ Endings /\ Values
  BY DEF WorkInv
<1>. USE DEF callVars, taskVars, Submits, Synced, Over
<1>1. ASSUME NEW c \in Ctx, Activate(c)
      PROVE  Values'
  <2>1. UNCHANGED <<value, wait>>
    BY <1>0, NameFacts, <1>1 DEF Activate, Begun, Busy
  <2>2. ASSUME NEW u \in Tasks
        PROVE  Value(u)' = Value(u)
    <3>1. (outcome'[u] = "waiting" /\ task'[u] \in Over)
           <=> (outcome[u] = "waiting" /\ task[u] \in Over)
      BY <1>0, NameFacts, <1>1 DEF Activate, Begun, Busy, CallsNamed, Endings, TypeOK
    <3>2. \A d \in Ctx : /\ call'[d].op = "waiting" <=> call[d].op = "waiting"
                         /\ call[d].op = "waiting" => call'[d].t = call[d].t
      BY <1>0, NameFacts, <1>1 DEF Activate, Begun, Busy, CallsNamed, TypeOK
    <3>. QED
      BY <2>1, <3>1, <3>2, SameValue
  <2>. QED
    BY <1>0, NameFacts, <2>1, <2>2 DEF Values
<1>2. ASSUME NEW c \in Ctx, SetFrequency(c)
      PROVE  Values'
  <2>1. UNCHANGED <<value, wait>>
    BY <1>2 DEF SetFrequency, Begun, Busy
  <2>2. ASSUME NEW u \in Tasks
        PROVE  Value(u)' = Value(u)
    <3>1. (outcome'[u] = "waiting" /\ task'[u] \in Over)
           <=> (outcome[u] = "waiting" /\ task[u] \in Over)
      BY <1>2 DEF SetFrequency
    <3>2. \A d \in Ctx : /\ call'[d].op = "waiting" <=> call[d].op = "waiting"
                         /\ call[d].op = "waiting" => call'[d].t = call[d].t
      BY <1>0, NameFacts, <1>2 DEF SetFrequency, Begun, Busy, TypeOK
    <3>. QED
      BY <2>1, <3>1, <3>2, SameValue
  <2>. QED
    BY <1>0, <2>1, <2>2 DEF Values
<1>3. ASSUME NEW c \in Ctx, NativeActivate(c)
      PROVE  Values'
  <2>1. UNCHANGED <<value, wait>>
    BY <1>0, NameFacts, <1>3 DEF NativeActivate, Goto
  <2>2. ASSUME NEW u \in Tasks
        PROVE  Value(u)' = Value(u)
    <3>1. (outcome'[u] = "waiting" /\ task'[u] \in Over)
           <=> (outcome[u] = "waiting" /\ task[u] \in Over)
      BY <1>0, NameFacts, <1>3 DEF NativeActivate, Goto, CallsNamed, Endings, TypeOK
    <3>2. \A d \in Ctx : /\ call'[d].op = "waiting" <=> call[d].op = "waiting"
                         /\ call[d].op = "waiting" => call'[d].t = call[d].t
      BY <1>0, NameFacts, <1>3 DEF NativeActivate, Goto, CallsNamed, TypeOK
    <3>. QED
      BY <2>1, <3>1, <3>2, SameValue
  <2>. QED
    BY <1>0, NameFacts, <2>1, <2>2 DEF Values
<1>4. ASSUME NEW c \in Ctx, ActivateReturn(c)
      PROVE  Values'
  <2>1. UNCHANGED <<value, wait>>
    BY <1>4 DEF ActivateReturn, Ended
  <2>2. ASSUME NEW u \in Tasks
        PROVE  Value(u)' = Value(u)
    <3>1. (outcome'[u] = "waiting" /\ task'[u] \in Over)
           <=> (outcome[u] = "waiting" /\ task[u] \in Over)
      BY <1>4 DEF ActivateReturn
    <3>2. \A d \in Ctx : /\ call'[d].op = "waiting" <=> call[d].op = "waiting"
                         /\ call[d].op = "waiting" => call'[d].t = call[d].t
      BY <1>0, NameFacts, <1>4 DEF ActivateReturn, Ended, TypeOK
    <3>. QED
      BY <2>1, <3>1, <3>2, SameValue
  <2>. QED
    BY <1>0, <2>1, <2>2 DEF Values
<1>5. ASSUME NEW c \in Ctx, NativeSetFrequency(c)
      PROVE  Values'
  BY <1>0, NameFacts, <1>5 DEF NativeSetFrequency, Ended, Terminates, Values, Value, CallsNamed,
       Endings, TypeOK, Sem!SemTypeOK
<1>6. ASSUME NEW c \in Ctx, NativeEnqueue(c)
      PROVE  Values'
  <2>1. UNCHANGED <<value, wait>>
    BY <1>0, NameFacts, <1>6 DEF NativeEnqueue, Ended, Goto, Terminates
  <2>2. ASSUME NEW u \in Tasks
        PROVE  Value(u)' = Value(u)
    <3>1. (outcome'[u] = "waiting" /\ task'[u] \in Over)
           <=> (outcome[u] = "waiting" /\ task[u] \in Over)
      BY <1>0, NameFacts, <1>6 DEF NativeEnqueue, Ended, Goto, Terminates, CallsNamed, Endings, TypeOK
    <3>2. \A d \in Ctx : /\ call'[d].op = "waiting" <=> call[d].op = "waiting"
                         /\ call[d].op = "waiting" => call'[d].t = call[d].t
      BY <1>0, NameFacts, <1>6 DEF NativeEnqueue, Ended, Goto, Terminates, CallsNamed, TypeOK
    <3>. QED
      BY <2>1, <3>1, <3>2, SameValue
  <2>. QED
    BY <1>0, NameFacts, <2>1, <2>2 DEF Values
<1>7. ASSUME NEW c \in Ctx, SyncWait(c)
      PROVE  Values'
  BY <1>0, NameFacts, <1>7 DEF SyncWait, Goto, Sem!WaitEnter, Values, Value, CallsNamed, Endings,
       TypeOK, Sem!SemTypeOK
<1>8. ASSUME NEW c \in Ctx, SyncReturn(c)
      PROVE  Values'
  BY <1>0, NameFacts, <1>8 DEF SyncReturn, Ended, Sem!WaitReturn, Values, Value, CallsNamed, Endings,
       TypeOK, Sem!SemTypeOK
<1>9. ASSUME NEW c \in Ctx, NEW t \in Tasks, RunAsync(c, t)
      PROVE  Values'
  <2>1. UNCHANGED <<value, wait>>
    BY <1>0, NameFacts, <1>9 DEF RunAsync, Begun
  <2>2. ASSUME NEW u \in Tasks
        PROVE  Value(u)' = Value(u)
    <3>1. (outcome'[u] = "waiting" /\ task'[u] \in Over)
           <=> (outcome[u] = "waiting" /\ task[u] \in Over)
      BY <1>0, NameFacts, <1>9 DEF RunAsync, Begun, CallsNamed, Endings, TypeOK
    <3>2. \A d \in Ctx : /\ call'[d].op = "waiting" <=> call[d].op = "waiting"
                         /\ call[d].op = "waiting" => call'[d].t = call[d].t
      BY <1>0, NameFacts, <1>9 DEF RunAsync, Begun, CallsNamed, TypeOK
    <3>. QED
      BY <2>1, <3>1, <3>2, SameValue
  <2>. QED
    BY <1>0, NameFacts, <2>1, <2>2 DEF Values
<1>10. ASSUME NEW c \in Ctx, NEW t \in Tasks, RunSync(c, t)
      PROVE  Values'
  <2>1. UNCHANGED <<value, wait>>
    BY <1>0, NameFacts, <1>10 DEF RunSync, Begun
  <2>2. ASSUME NEW u \in Tasks
        PROVE  Value(u)' = Value(u)
    <3>1. (outcome'[u] = "waiting" /\ task'[u] \in Over)
           <=> (outcome[u] = "waiting" /\ task[u] \in Over)
      BY <1>0, NameFacts, <1>10 DEF RunSync, Begun, CallsNamed, Endings, TypeOK
    <3>2. \A d \in Ctx : /\ call'[d].op = "waiting" <=> call[d].op = "waiting"
                         /\ call[d].op = "waiting" => call'[d].t = call[d].t
      BY <1>0, NameFacts, <1>10 DEF RunSync, Begun, CallsNamed, TypeOK
    <3>. QED
      BY <2>1, <3>1, <3>2, SameValue
  <2>. QED
    BY <1>0, NameFacts, <2>1, <2>2 DEF Values
<1>11. ASSUME NEW t \in Tasks, Begin(t)
      PROVE  Values'
  BY <1>0, NameFacts, <1>11 DEF Begin, Executing, Values, Value, CallsNamed, Endings, TypeOK, Sem!SemTypeOK
<1>12. ASSUME NEW t \in Tasks, SignalDone(t)
      PROVE  Values'
  <2>1. /\ task[t] = "signalling" /\ task'[t] = "ending" /\ UNCHANGED <<call, outcome>>
        /\ \A u \in Tasks \ {t} : task'[u] = task[u] /\ value'[u] = value[u]
        /\ outcome[t] = "waiting"
    BY <1>0, NameFacts, <1>12, SignalEffect DEF SignalDone, Sem!Signal, TypeOK, Sem!SemTypeOK
  <2>2. CASE /\ value' = [value EXCEPT ![t] = 0]
             /\ \E w \in Ctx : /\ call[w].op = "waiting" /\ call[w].t = t
                               /\ wait' = [wait EXCEPT ![w].at = "granted"]
    <3>1. PICK w \in Ctx : /\ call[w].op = "waiting" /\ call[w].t = t
                           /\ wait' = [wait EXCEPT ![w].at = "granted"]
      BY <2>2
    <3>2. /\ wait'[w].at = "granted"
          /\ \A d \in Ctx \ {w} : wait'[d] = wait[d] /\ call[d].t # t
      BY <1>0, NameFacts, <3>1 DEF CallsNamed, TypeOK, Sem!SemTypeOK
    <3>3. value'[t] = 0 /\ Value(t)' = 0
      BY <1>0, NameFacts, <2>1, <2>2, <3>1, <3>2 DEF Value, TypeOK, Sem!SemTypeOK
    <3>4. ASSUME NEW u \in Tasks \ {t}
          PROVE  Value(u)' = Value(u)
      BY <1>0, NameFacts, <2>1, <3>1, <3>2 DEF Value
    <3>. QED
      BY <1>0, NameFacts, <2>1, <3>3, <3>4 DEF Values
  <2>3. CASE /\ value' = [value EXCEPT ![t] = 1] /\ wait' = wait
             /\ \A c \in Ctx : call[c].op = "waiting" => call[c].t # t
    <3>1. value'[t] = 1 /\ Value(t)' = 1
      BY <1>0, NameFacts, <2>1, <2>3 DEF Value, TypeOK, Sem!SemTypeOK
    <3>2. ASSUME NEW u \in Tasks \ {t}
          PROVE  Value(u)' = Value(u)
      BY <1>0, NameFacts, <2>1, <2>3 DEF Value
    <3>. QED
      BY <1>0, NameFacts, <2>1, <3>1, <3>2 DEF Values
  <2>. QED
    BY <1>12, <2>2, <2>3, SignalEffect
<1>13. ASSUME NEW t \in Tasks, TrampolineEnd(t)
      PROVE  Values'
  BY <1>0, NameFacts, <1>13 DEF TrampolineEnd, Values, Value, CallsNamed, Endings, TypeOK, Sem!SemTypeOK
<1>14. ASSUME NEW t \in Tasks, NEW r \in Results, End(t, r)
      PROVE  Values'
  BY <1>0, NameFacts, <1>14 DEF End, Signals, Kept, Synchronous, Results, Values, Value, CallsNamed,
       Endings, TypeOK, Sem!SemTypeOK
<1>15. ASSUME Dealloc
      PROVE  Values'
  BY <1>0, NameFacts, <1>15 DEF Dealloc, Terminates, Values, Value, CallsNamed, Endings, TypeOK, Sem!SemTypeOK
<1>16. CASE UNCHANGED vars
  BY <1>0, NameFacts, <1>16 DEF vars, Values, Value, CallsNamed, Endings, TypeOK, Sem!SemTypeOK
<1>. QED
  BY <1>1, <1>2, <1>3, <1>4, <1>5, <1>6, <1>7, <1>8, <1>9, <1>10,
     <1>11, <1>12, <1>13, <1>14, <1>15, <1>16
     DEF Next, CallStep, TaskStep

(* Every step keeps the references right. *)
LEMMA RefsStep ==
    ASSUME WorkInv, [Next]_vars
    PROVE  CallableRefs'
<1>0. TypeOK /\ Flag /\ CallsNamed /\ Endings /\ Values /\ CallableRefs
  BY DEF WorkInv
<1>. USE <1>0, NameFacts DEF callVars, taskVars, Submits, Synced, Over
<1>1. ASSUME NEW c \in Ctx, Activate(c)
      PROVE  CallableRefs'
  BY <1>1 DEF Activate, Begun, Busy, CallableRefs, One, InHand, Executing, TypeOK
<1>2. ASSUME NEW c \in Ctx, SetFrequency(c)
      PROVE  CallableRefs'
  BY <1>2 DEF SetFrequency, Begun, Busy, CallableRefs, One, InHand, Executing, TypeOK
<1>3. ASSUME NEW c \in Ctx, NativeActivate(c)
      PROVE  CallableRefs'
  BY <1>3 DEF NativeActivate, Goto, CallableRefs, One, InHand, Executing, TypeOK
<1>4. ASSUME NEW c \in Ctx, ActivateReturn(c)
      PROVE  CallableRefs'
  BY <1>4 DEF ActivateReturn, Ended, CallableRefs, One, InHand, Executing, TypeOK
<1>5. ASSUME NEW c \in Ctx, NativeSetFrequency(c)
      PROVE  CallableRefs'
  BY <1>5 DEF NativeSetFrequency, Ended, Terminates, CallableRefs, One, InHand, Executing, TypeOK
<1>6. ASSUME NEW c \in Ctx, NativeEnqueue(c)
      PROVE  CallableRefs'
  BY <1>6 DEF NativeEnqueue, Ended, Goto, Terminates, CallsNamed, CallableRefs, One, InHand, Executing, TypeOK
<1>7. ASSUME NEW c \in Ctx, SyncWait(c)
      PROVE  CallableRefs'
  BY <1>7 DEF SyncWait, Goto, CallableRefs, One, InHand, Executing, TypeOK
<1>8. ASSUME NEW c \in Ctx, SyncReturn(c)
      PROVE  CallableRefs'
  <2>1. PICK t \in Tasks : call[c].t = t /\ outcome[t] = "waiting"
    BY <1>8 DEF SyncReturn, CallsNamed, TypeOK
  <2>2. /\ refs' = [refs EXCEPT ![t] = @ - 1] /\ task' = task
        /\ outcome'[t] # "waiting" /\ \A u \in Tasks \ {t} : outcome'[u] = outcome[u]
    BY <1>8, <2>1 DEF SyncReturn, TypeOK
  <2>. QED
    BY <2>1, <2>2 DEF CallableRefs, One, InHand, TypeOK
<1>9. ASSUME NEW c \in Ctx, NEW t \in Tasks, RunAsync(c, t)
      PROVE  CallableRefs'
  BY <1>9 DEF RunAsync, Begun, Endings, CallableRefs, One, InHand, Executing, TypeOK
<1>10. ASSUME NEW c \in Ctx, NEW t \in Tasks, RunSync(c, t)
      PROVE  CallableRefs'
  BY <1>10 DEF RunSync, Begun, Endings, CallableRefs, One, InHand, Executing, TypeOK
<1>11. ASSUME NEW t \in Tasks, Begin(t)
      PROVE  CallableRefs'
  BY <1>11 DEF Begin, CallableRefs, One, InHand, Executing, TypeOK
<1>12. ASSUME NEW t \in Tasks, SignalDone(t)
      PROVE  CallableRefs'
  BY <1>12 DEF SignalDone, CallableRefs, One, InHand, Executing, TypeOK
<1>13. ASSUME NEW t \in Tasks, TrampolineEnd(t)
      PROVE  CallableRefs'
  BY <1>13 DEF TrampolineEnd, CallableRefs, One, InHand, Executing, TypeOK
<1>14. ASSUME NEW t \in Tasks, NEW r \in Results, End(t, r)
      PROVE  CallableRefs'
  BY <1>14 DEF End, CallableRefs, One, InHand, Executing, TypeOK
<1>15. ASSUME Dealloc
      PROVE  CallableRefs'
  BY <1>15 DEF Dealloc, CallableRefs, One, InHand, Executing, TypeOK
<1>16. CASE UNCHANGED vars
  BY <1>16 DEF vars, CallableRefs, One, InHand
<1>. QED
  BY <1>1, <1>2, <1>3, <1>4, <1>5, <1>6, <1>7, <1>8, <1>9, <1>10,
     <1>11, <1>12, <1>13, <1>14, <1>15, <1>16
     DEF Next, CallStep, TaskStep

-----------------------------------------------------------------------------
(* The inductive invariant holds of every execution. *)
THEOREM WorkloopInvariant == Spec => []WorkInv
<1>1. Init => WorkInv
  <2>. SUFFICES ASSUME Init PROVE WorkInv
    OBVIOUS
  <2>1. TypeOK
    <3>1. call \in [Ctx -> [op : {"none", "activate", "activated", "frequency", "async",
                                  "sync", "enqueued", "waiting"},
                            t : Tasks \cup {NoTask}]]
      BY DEF Init, NoCall
    <3>2. Sem!SemTypeOK
      BY DEF Init, Sem!SemInit, Sem!SemTypeOK, Sem!NoWait
    <3>. QED
      BY <3>1, <3>2 DEF Init, TypeOK
  <2>2. Flag /\ CallsNamed
    BY NameFacts DEF Init, Flag, CallsNamed, Sem!SemInit, Submits, Synced
  <2>3. Endings /\ Values
    BY NameFacts DEF Init, Endings, Values, Value, Sem!SemInit
  <2>4. CallableRefs
    BY DEF Init, CallableRefs, One, InHand, Executing
  <2>. QED
    BY <2>1, <2>2, <2>3, <2>4 DEF WorkInv
<1>2. WorkInv /\ [Next]_vars => WorkInv'
  BY TypeStep, FlagStep, CallsStep, EndingsStep, ValuesStep, RefsStep DEF WorkInv
<1>. QED
  BY <1>1, <1>2, PTL DEF Spec

(* libdispatch terminates the process only if set_autorelease_frequency and       *)
(* activate overlap.                                                              *)
THEOREM WorkloopOnlyRaces == Spec => []OnlyRacesTerminate
<1>1. WorkInv => OnlyRacesTerminate
  BY DEF WorkInv, Flag, OnlyRacesTerminate
<1>. QED
  BY <1>1, WorkloopInvariant, PTL

(* What libdispatch is to call is referenced until it has been called, and what   *)
(* run_sync waits for until it returns: nothing is freed early or kept for ever.  *)
THEOREM WorkloopRefs == Spec => []CallableRefs
<1>1. WorkInv => CallableRefs
  BY DEF WorkInv
<1>. QED
  BY <1>1, WorkloopInvariant, PTL

(* run_sync returns after its callable has ended, and raises its Exception again. *)
THEOREM WorkloopSyncOutcome == Spec => []SyncOutcome
<1>1. WorkInv => SyncOutcome
  BY DEF WorkInv, TypeOK, Results, Endings, SyncOutcome, Over
<1>. QED
  BY <1>1, WorkloopInvariant, PTL

(* The semaphore of a run_sync has its first value when frame and wrapper, and    *)
(* with them the semaphore, are freed.                                            *)
THEOREM WorkloopSemDisposable == Spec => []SemDisposable
<1>1. WorkInv => SemDisposable
  <2>. SUFFICES ASSUME WorkInv, NEW t \in Tasks, Synchronous(t), refs[t] = 0
                PROVE  value[t] = 0
    BY DEF SemDisposable
  <2>1. outcome[t] # "waiting"
    BY DEF WorkInv, CallableRefs, One
  <2>2. \A c \in Ctx : call[c].op = "waiting" => call[c].t # t
    BY <2>1 DEF WorkInv, CallsNamed, Synced
  <2>. QED
    BY <2>1, <2>2 DEF WorkInv, Values, Value
<1>. QED
  BY <1>1, WorkloopInvariant, PTL
=============================================================================
