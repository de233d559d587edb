------------------------ MODULE DispatchSource_proofs ------------------------
(***************************************************************************)
(* Proofs about DispatchSource, for every set of threads and handlers,     *)
(* every finite set of sources of the five classes, however they share     *)
(* handlers, and any number of events.                                     *)
(***************************************************************************)
EXTENDS DispatchSource, FiniteSetTheorems, TLAPS

(* A call names an existing source; the one call that resumes a source finds it   *)
(* suspended, its flag set.                                                       *)
CallsNamed ==
    \A c \in Ctx :
        /\ call[c].op = "none" <=> call[c] = NoCall
        /\ call[c].op # "none" => call[c].on \in Sources /\ wrapper[call[c].on] = "alive"
        /\ call[c].op = "resume" =>
              /\ started[call[c].on] /\ suspends[call[c].on] = 1
              /\ \A d \in Ctx : call[d] = call[c] => d = c

(* What the life of the wrapper says about the native source and trampolines.     *)
Life ==
    \A s \in Sources :
        /\ wrapper[s] = "unborn" =>
              /\ ~started[s] /\ ~cancelled[s] /\ ~stopped[s] /\ suspends[s] = 0
              /\ event[s] = "idle"
        /\ wrapper[s] = "alive" =>
              /\ suspends[s] = 1 \/ (suspends[s] = 0 /\ started[s])
              /\ started[s] /\ suspends[s] = 1 =>
                    \E c \in Ctx : call[c] = [op |-> "resume", on |-> s]
              /\ cancelled[s] =>
                    stopped[s] \/ \E c \in Ctx : call[c] = [op |-> "cancel", on |-> s]
        /\ wrapper[s] = "gone" => suspends[s] = 0 /\ stopped[s]
        /\ released[s] <=> wrapper[s] = "gone"
        /\ farewell[s] # "none" => event[s] = "idle" /\ stopped[s]

(* The inductive invariant. *)
SourceInv == HandlerRefs /\ CallsNamed /\ Life

-----------------------------------------------------------------------------
(* Facts used by several steps. *)

(* A source that comes into being does so by Construct, whatever its class.       *)
LEMMA NewConstructs ==
    ASSUME TypeOK, NEW c \in Ctx, NEW s \in Sources, New(c, s)
    PROVE  timers' \subseteq Sources /\ \E again \in BOOLEAN : Construct(c, s, again)
  BY DEF TypeOK, New, NewTimer, NewSignalSource, NewReadSource, NewWriteSource, NewProcessSource

(* What the type invariant says of the calls. *)
LEMMA CallTypes ==
    ASSUME TypeOK
    PROVE  /\ \A c \in Ctx : /\ call[c].op \in {"none", "resume", "cancel", "stopped", "repeat",
                                                "oneshot"}
                             /\ call[c].on \in Sources \cup {NoSource}
                             /\ call[c] = [op |-> call[c].op, on |-> call[c].on]
           /\ NoSource \notin Sources /\ NoCall.op = "none" /\ NoCall.on = NoSource
           /\ \A s \in Sources : s \in Ctx /\ Handler[s] \in Handlers
  BY SourceAssumption, HandlerAssumption DEF TypeOK, NoCall, Ctx

(* Recording a well-formed call, or the end of one, keeps the calls well-formed.  *)
LEMMA CallTyped ==
    ASSUME TypeOK, NEW c \in Ctx, NEW s \in Sources \cup {NoSource},
           NEW op \in {"none", "resume", "cancel", "stopped", "repeat", "oneshot"}
    PROVE  /\ [call EXCEPT ![c] = [op |-> op, on |-> s]] \in
                  [Ctx -> [op : {"none", "resume", "cancel", "stopped", "repeat", "oneshot"},
                           on : Sources \cup {NoSource}]]
           /\ NoCall = [op |-> "none", on |-> NoSource]
  BY DEF TypeOK, NoCall

(* The sources that account for a reference are finitely many. *)
LEMMA CountsFinite ==
    \A h : /\ IsFiniteSet(Kept(h)) /\ Cardinality(Kept(h)) \in Nat
           /\ IsFiniteSet(Owed(h)) /\ Cardinality(Owed(h)) \in Nat
  <1>. TAKE h
  <1>1. Kept(h) \in SUBSET Sources /\ Owed(h) \in SUBSET Sources
    BY DEF Kept, Owed
  <1>. QED
    BY <1>1, SourceAssumption, FS_Subset, FS_CardinalityType

(* A step that leaves the references alone, and the wrappers, and finishes no     *)
(* cancel trampoline, keeps the accounts.                                         *)
LEMMA SameAccounts ==
    ASSUME HandlerRefs, UNCHANGED <<refs, pyref, wrapper>>, TypeOK',
           \A s \in Sources : (farewell[s] = "done") = (farewell'[s] = "done")
    PROVE  HandlerRefs'
<1>1. \A h : Kept(h)' = Kept(h) /\ Owed(h)' = Owed(h)
  BY DEF Kept, Owed
<1>. QED
  BY <1>1 DEF HandlerRefs

-----------------------------------------------------------------------------
(* Every step keeps types and accounts. *)
LEMMA RefsStep ==
    ASSUME SourceInv, [Next]_vars
    PROVE  HandlerRefs'
<1>0. TypeOK /\ HandlerRefs /\ CallsNamed /\ Life
  BY DEF SourceInv, HandlerRefs
<1>a. \A s \in Sources : Handler[s] \in Handlers
  BY HandlerAssumption
<1>. USE <1>0 DEF EnterNative, LeaveNative, InPython, wrapperVars, nativeVars, eventVars, trampolineVars, refVars
<1>1. ASSUME NEW c \in Ctx, TakeGIL(c)
      PROVE  HandlerRefs'
  BY <1>1, SameAccounts, CallTyped DEF TakeGIL, TypeOK
<1>2. ASSUME NEW c \in Ctx, DropGIL(c)
      PROVE  HandlerRefs'
  BY <1>2, SameAccounts, CallTyped DEF DropGIL, TypeOK
<1>3. ASSUME NEW c \in Ctx, NEW s \in Sources, NEW again \in BOOLEAN, Construct(c, s, again),
             timers' \subseteq Sources
      PROVE  HandlerRefs'
  <2>. DEFINE g == Handler[s]
  <2>1. g \in Handlers /\ refs' = [refs EXCEPT ![g] = refs[g] + 2] /\ pyref' = pyref
    BY <1>3, <1>a DEF Construct
  <2>2. Kept(g)' = Kept(g) \cup {s} /\ s \notin Kept(g)
    BY <1>3 DEF Construct, Kept, TypeOK
  <2>a. farewell[s] = "none"
    BY <1>3 DEF Construct, TypeOK, Life
  <2>b. Owed(g)' = Owed(g) \cup {s} /\ s \notin Owed(g)
    BY <1>3, <2>a DEF Construct, Owed, TypeOK
  <2>c. Cardinality(Kept(g)') = Cardinality(Kept(g)) + 1
    BY <2>2, CountsFinite, FS_AddElement
  <2>3. Cardinality(Owed(g)') = Cardinality(Owed(g)) + 1
    BY <2>b, CountsFinite, FS_AddElement
  <2>4. \A h \in Handlers : h # g => Kept(h)' = Kept(h) /\ Owed(h)' = Owed(h)
    BY <1>3 DEF Construct, Kept, Owed, TypeOK
  <2>t. /\ refs' \in [Handlers -> Nat]
        /\ suspends' \in [Sources -> Int]
    BY <1>3, <2>1 DEF Construct, TypeOK
  <2>5. TypeOK'
    BY <1>3, <2>t DEF Construct, TypeOK
  <2>. HIDE DEF g
  <2>6. ASSUME NEW h \in Handlers
        PROVE  refs'[h] = (IF pyref'[h] THEN 1 ELSE 0) + Cardinality(Kept(h)') + Cardinality(Owed(h)')
    <3>1. /\ Cardinality(Kept(h)) \in Nat /\ Cardinality(Owed(h)) \in Nat /\ refs[h] \in Nat
          /\ refs[h] = (IF pyref[h] THEN 1 ELSE 0) + Cardinality(Kept(h)) + Cardinality(Owed(h))
      BY CountsFinite DEF HandlerRefs, TypeOK
    <3>2. h = g => refs'[h] = refs[h] + 2
      BY <2>1 DEF TypeOK
    <3>3. h # g => refs'[h] = refs[h]
      BY <2>1 DEF TypeOK
    <3>. HIDE <1>0
    <3>4. CASE h = g
      BY <3>1, <3>2, <3>4, <2>1, <2>c, <2>3
    <3>5. CASE h # g
      BY <3>1, <3>3, <3>5, <2>1, <2>4
    <3>. QED
      BY <3>4, <3>5
  <2>. QED
    BY <2>5, <2>6 DEF HandlerRefs
<1>4. ASSUME NEW c \in Ctx, NEW s \in Sources, Start(c, s)
      PROVE  HandlerRefs'
  BY <1>4, SameAccounts, CallTyped DEF Start, TypeOK
<1>5. ASSUME NEW c \in Ctx, NEW s \in Sources, Cancel(c, s)
      PROVE  HandlerRefs'
  BY <1>5, SameAccounts, CallTyped DEF Cancel, TypeOK
<1>6. ASSUME NEW c \in Ctx, NEW s \in Sources, CancelAgain(c, s)
      PROVE  HandlerRefs'
  BY <1>6, SameAccounts, CallTyped DEF CancelAgain, TypeOK
<1>7. ASSUME NEW c \in Ctx, NEW s \in Sources, SetTimer(c, s)
      PROVE  HandlerRefs'
  BY <1>7, SameAccounts, CallTyped DEF SetTimer, TypeOK
<1>8. ASSUME NEW c \in Ctx, NEW s \in Sources, Dealloc(c, s)
      PROVE  HandlerRefs'
  <2>. DEFINE g == Handler[s]
  <2>1. g \in Handlers /\ refs' = [refs EXCEPT ![g] = refs[g] - 1] /\ pyref' = pyref
    BY <1>8, <1>a DEF Dealloc
  <2>2. Kept(g)' = Kept(g) \ {s} /\ s \in Kept(g) /\ Owed(g)' = Owed(g)
    BY <1>8 DEF Dealloc, Kept, Owed, TypeOK
  <2>3. Cardinality(Kept(g)') = Cardinality(Kept(g)) - 1 /\ Cardinality(Kept(g)) # 0
    BY <2>2, CountsFinite, FS_RemoveElement, FS_EmptySet
  <2>4. \A h \in Handlers : h # g => Kept(h)' = Kept(h) /\ Owed(h)' = Owed(h)
    BY <1>8 DEF Dealloc, Kept, Owed, TypeOK
  <2>r. refs' \in [Handlers -> Nat]
    BY <2>1, <2>3, CountsFinite DEF HandlerRefs, TypeOK
  <2>5. TypeOK'
    BY <1>8, <2>r DEF Dealloc, TypeOK
  <2>. HIDE DEF g
  <2>6. ASSUME NEW h \in Handlers
        PROVE  refs'[h] = (IF pyref'[h] THEN 1 ELSE 0) + Cardinality(Kept(h)') + Cardinality(Owed(h)')
    <3>1. /\ Cardinality(Kept(h)) \in Nat /\ Cardinality(Owed(h)) \in Nat /\ refs[h] \in Nat
          /\ refs[h] = (IF pyref[h] THEN 1 ELSE 0) + Cardinality(Kept(h)) + Cardinality(Owed(h))
      BY CountsFinite DEF HandlerRefs, TypeOK
    <3>2. h = g => refs'[h] = refs[h] - 1
      BY <2>1 DEF TypeOK
    <3>3. h # g => refs'[h] = refs[h]
      BY <2>1 DEF TypeOK
    <3>. HIDE <1>0
    <3>4. CASE h = g
      BY <3>1, <3>2, <3>4, <2>1, <2>2, <2>3
    <3>5. CASE h # g
      BY <3>1, <3>3, <3>5, <2>1, <2>4
    <3>. QED
      BY <3>4, <3>5
  <2>. QED
    BY <2>5, <2>6 DEF HandlerRefs
<1>9. ASSUME NEW c \in Ctx, CancelReturn(c)
      PROVE  HandlerRefs'
  BY <1>9, SameAccounts, CallTyped DEF CancelReturn, TypeOK
<1>10. ASSUME NEW c \in Ctx, NativeResume(c)
      PROVE  HandlerRefs'
  <2>a. call[c].on \in Sources /\ suspends \in [Sources -> Int]
    BY <1>10 DEF NativeResume, CallsNamed, TypeOK
  <2>b. suspends' = [suspends EXCEPT ![call[c].on] = suspends[call[c].on] - 1]
    BY <1>10 DEF NativeResume
  <2>1. suspends' \in [Sources -> Int]
    <3>. HIDE <1>0
    <3>. QED
      BY <2>a, <2>b
  <2>2. TypeOK'
    BY <1>10, <2>1, CallTyped DEF NativeResume, TypeOK
  <2>. QED
    BY <1>10, <2>2, SameAccounts DEF NativeResume
<1>11. ASSUME NEW c \in Ctx, NativeCancel(c)
      PROVE  HandlerRefs'
  <2>1. call' \in [Ctx -> [op : {"none", "resume", "cancel", "stopped", "repeat", "oneshot"},
                           on : Sources \cup {NoSource}]]
    BY <1>11 DEF NativeCancel, TypeOK
  <2>. QED
    BY <1>11, <2>1, SameAccounts DEF NativeCancel, TypeOK
<1>12. ASSUME NEW c \in Ctx, NativeSetTimer(c)
      PROVE  HandlerRefs'
  BY <1>12, SameAccounts, CallTyped DEF NativeSetTimer, TypeOK
<1>13. ASSUME NEW c \in Ctx, NEW h \in Handlers, DropRef(c, h)
      PROVE  HandlerRefs'
  <2>1. \A g : Kept(g)' = Kept(g) /\ Owed(g)' = Owed(g)
    BY <1>13 DEF DropRef, Kept, Owed
  <2>2. refs[h] > 0
    BY <1>13, CountsFinite DEF DropRef, HandlerRefs, TypeOK
  <2>3. TypeOK'
    BY <1>13, <2>2 DEF DropRef, TypeOK
  <2>. QED
    BY <1>13, <2>1, <2>2, <2>3, CountsFinite DEF DropRef, HandlerRefs, TypeOK
<1>14. ASSUME NEW s \in Sources, EventArrives(s)
      PROVE  HandlerRefs'
  <2>1. events' \in [Sources -> 0..MaxEvents]
    BY <1>14, EventAssumption DEF EventArrives, TypeOK
  <2>. QED
    BY <1>14, <2>1, SameAccounts DEF EventArrives, TypeOK
<1>15. ASSUME NEW s \in Sources, InvokeEvent(s)
      PROVE  HandlerRefs'
  BY <1>15, SameAccounts, CallTyped DEF InvokeEvent, TypeOK
<1>16. ASSUME NEW s \in Sources, EventBegin(s)
      PROVE  HandlerRefs'
  <2>1. TypeOK'
    BY <1>16 DEF EventBegin, TypeOK, Ctx
  <2>. QED
    BY <1>16, <2>1, SameAccounts DEF EventBegin
<1>17. ASSUME NEW s \in Sources, EventEnd(s)
      PROVE  HandlerRefs'
  BY <1>17, SameAccounts, CallTyped DEF EventEnd, TypeOK
<1>18. ASSUME NEW s \in Sources, InvokeFarewell(s)
      PROVE  HandlerRefs'
  BY <1>18, SameAccounts, CallTyped DEF InvokeFarewell, TypeOK
<1>19. ASSUME NEW s \in Sources, Farewell(s)
      PROVE  HandlerRefs'
  <2>. DEFINE g == Handler[s]
  <2>1. g \in Handlers /\ refs' = [refs EXCEPT ![g] = refs[g] - 1] /\ pyref' = pyref
    BY <1>19, <1>a DEF Farewell
  <2>2. Owed(g)' = Owed(g) \ {s} /\ s \in Owed(g) /\ Kept(g)' = Kept(g)
    BY <1>19 DEF Farewell, Kept, Owed, TypeOK, Life
  <2>3. Cardinality(Owed(g)') = Cardinality(Owed(g)) - 1 /\ Cardinality(Owed(g)) # 0
    BY <2>2, CountsFinite, FS_RemoveElement, FS_EmptySet
  <2>4. \A h \in Handlers : h # g => Kept(h)' = Kept(h) /\ Owed(h)' = Owed(h)
    BY <1>19 DEF Farewell, Kept, Owed, TypeOK
  <2>r. refs' \in [Handlers -> Nat]
    BY <2>1, <2>3, CountsFinite DEF HandlerRefs, TypeOK
  <2>5. TypeOK'
    BY <1>19, <2>r DEF Farewell, TypeOK
  <2>. HIDE DEF g
  <2>6. ASSUME NEW h \in Handlers
        PROVE  refs'[h] = (IF pyref'[h] THEN 1 ELSE 0) + Cardinality(Kept(h)') + Cardinality(Owed(h)')
    <3>1. /\ Cardinality(Kept(h)) \in Nat /\ Cardinality(Owed(h)) \in Nat /\ refs[h] \in Nat
          /\ refs[h] = (IF pyref[h] THEN 1 ELSE 0) + Cardinality(Kept(h)) + Cardinality(Owed(h))
      BY CountsFinite DEF HandlerRefs, TypeOK
    <3>2. h = g => refs'[h] = refs[h] - 1
      BY <2>1 DEF TypeOK
    <3>3. h # g => refs'[h] = refs[h]
      BY <2>1 DEF TypeOK
    <3>. HIDE <1>0
    <3>4. CASE h = g
      BY <3>1, <3>2, <3>4, <2>1, <2>2, <2>3
    <3>5. CASE h # g
      BY <3>1, <3>3, <3>5, <2>1, <2>4
    <3>. QED
      BY <3>4, <3>5
  <2>. QED
    BY <2>5, <2>6 DEF HandlerRefs
<1>20. CASE UNCHANGED vars
  BY <1>20, SameAccounts DEF vars, TypeOK
<1>. QED
  BY <1>1, <1>2, <1>3, <1>4, <1>5, <1>6, <1>7, <1>8, <1>9, <1>10,
     <1>11, <1>12, <1>13, <1>14, <1>15, <1>16, <1>17, <1>18, <1>19, <1>20, NewConstructs DEF Next

(* Every step keeps the calls as they should be. *)
LEMMA CallsStep ==
    ASSUME SourceInv, [Next]_vars
    PROVE  CallsNamed'
<1>0. TypeOK /\ CallsNamed /\ Life
  BY DEF SourceInv, HandlerRefs
<1>. USE <1>0, CallTypes DEF EnterNative, LeaveNative, InPython, wrapperVars, nativeVars, eventVars, trampolineVars, refVars
<1>1. ASSUME NEW c \in Ctx, TakeGIL(c)
      PROVE  CallsNamed'
  BY <1>1 DEF TakeGIL, CallsNamed, TypeOK, Life
<1>2. ASSUME NEW c \in Ctx, DropGIL(c)
      PROVE  CallsNamed'
  BY <1>2 DEF DropGIL, CallsNamed, TypeOK, Life
<1>3. ASSUME NEW c \in Ctx, NEW s \in Sources, NEW again \in BOOLEAN, Construct(c, s, again)
      PROVE  CallsNamed'
  BY <1>3 DEF Construct, CallsNamed, TypeOK, Life
<1>4. ASSUME NEW c \in Ctx, NEW s \in Sources, Start(c, s)
      PROVE  CallsNamed'
  <2>1. \A d \in Ctx : call[d].op = "resume" => call[d].on # s
    BY <1>4 DEF Start, CallsNamed
  <2>2. suspends[s] = 1
    BY <1>4 DEF Start, Life
  <2>3. call'[c] = [op |-> "resume", on |-> s] /\ \A d \in Ctx \ {c} : call'[d] = call[d]
    BY <1>4 DEF Start, TypeOK
  <2>4. started'[s] /\ \A u \in Sources : started[u] => started'[u]
    BY <1>4 DEF Start, TypeOK
  <2>. QED
    BY <1>4, <2>1, <2>2, <2>3, <2>4 DEF Start, CallsNamed
<1>5. ASSUME NEW c \in Ctx, NEW s \in Sources, Cancel(c, s)
      PROVE  CallsNamed'
  BY <1>5 DEF Cancel, CallsNamed, TypeOK, Life
<1>6. ASSUME NEW c \in Ctx, NEW s \in Sources, CancelAgain(c, s)
      PROVE  CallsNamed'
  BY <1>6 DEF CancelAgain, CallsNamed, TypeOK, Life
<1>7. ASSUME NEW c \in Ctx, NEW s \in Sources, SetTimer(c, s)
      PROVE  CallsNamed'
  BY <1>7 DEF SetTimer, CallsNamed, TypeOK, Life
<1>8. ASSUME NEW c \in Ctx, NEW s \in Sources, Dealloc(c, s)
      PROVE  CallsNamed'
  BY <1>8 DEF Dealloc, CallsNamed, TypeOK, Life
<1>9. ASSUME NEW c \in Ctx, CancelReturn(c)
      PROVE  CallsNamed'
  BY <1>9 DEF CancelReturn, CallsNamed, TypeOK, Life
<1>10. ASSUME NEW c \in Ctx, NativeResume(c)
      PROVE  CallsNamed'
  BY <1>10 DEF NativeResume, CallsNamed, TypeOK, Life
<1>11. ASSUME NEW c \in Ctx, NativeCancel(c)
      PROVE  CallsNamed'
  BY <1>11 DEF NativeCancel, CallsNamed, TypeOK, Life
<1>12. ASSUME NEW c \in Ctx, NativeSetTimer(c)
      PROVE  CallsNamed'
  BY <1>12 DEF NativeSetTimer, CallsNamed, TypeOK, Life
<1>13. ASSUME NEW c \in Ctx, NEW h \in Handlers, DropRef(c, h)
      PROVE  CallsNamed'
  BY <1>13 DEF DropRef, CallsNamed, TypeOK, Life
<1>14. ASSUME NEW s \in Sources, EventArrives(s)
      PROVE  CallsNamed'
  BY <1>14 DEF EventArrives, CallsNamed, TypeOK, Life
<1>15. ASSUME NEW s \in Sources, InvokeEvent(s)
      PROVE  CallsNamed'
  BY <1>15 DEF InvokeEvent, CallsNamed, TypeOK, Life
<1>16. ASSUME NEW s \in Sources, EventBegin(s)
      PROVE  CallsNamed'
  BY <1>16 DEF EventBegin, CallsNamed, TypeOK, Life
<1>17. ASSUME NEW s \in Sources, EventEnd(s)
      PROVE  CallsNamed'
  BY <1>17 DEF EventEnd, CallsNamed, TypeOK, Life
<1>18. ASSUME NEW s \in Sources, InvokeFarewell(s)
      PROVE  CallsNamed'
  BY <1>18 DEF InvokeFarewell, CallsNamed, TypeOK, Life
<1>19. ASSUME NEW s \in Sources, Farewell(s)
      PROVE  CallsNamed'
  BY <1>19 DEF Farewell, CallsNamed, TypeOK, Life
<1>20. CASE UNCHANGED vars
  BY <1>20 DEF vars, CallsNamed
<1>. QED
  BY <1>1, <1>2, <1>3, <1>4, <1>5, <1>6, <1>7, <1>8, <1>9, <1>10,
     <1>11, <1>12, <1>13, <1>14, <1>15, <1>16, <1>17, <1>18, <1>19, <1>20, NewConstructs DEF Next

(* Every step keeps the source as its wrapper says. *)
LEMMA LifeStep ==
    ASSUME SourceInv, [Next]_vars
    PROVE  Life'
<1>0. TypeOK /\ CallsNamed /\ Life
  BY DEF SourceInv, HandlerRefs
<1>. USE <1>0, CallTypes DEF EnterNative, LeaveNative, InPython, wrapperVars, nativeVars, eventVars, trampolineVars, refVars
<1>1. ASSUME NEW c \in Ctx, TakeGIL(c)
      PROVE  Life'
  BY <1>1 DEF TakeGIL, CallsNamed, TypeOK, Life, Live
<1>2. ASSUME NEW c \in Ctx, DropGIL(c)
      PROVE  Life'
  BY <1>2 DEF DropGIL, CallsNamed, TypeOK, Life, Live
<1>3. ASSUME NEW c \in Ctx, NEW s \in Sources, NEW again \in BOOLEAN, Construct(c, s, again)
      PROVE  Life'
  BY <1>3 DEF Construct, CallsNamed, TypeOK, Life, Live
<1>4. ASSUME NEW c \in Ctx, NEW s \in Sources, Start(c, s)
      PROVE  Life'
  BY <1>4 DEF Start, CallsNamed, TypeOK, Life, Live
<1>5. ASSUME NEW c \in Ctx, NEW s \in Sources, Cancel(c, s)
      PROVE  Life'
  BY <1>5 DEF Cancel, CallsNamed, TypeOK, Life, Live
<1>6. ASSUME NEW c \in Ctx, NEW s \in Sources, CancelAgain(c, s)
      PROVE  Life'
  BY <1>6 DEF CancelAgain, CallsNamed, TypeOK, Life, Live
<1>7. ASSUME NEW c \in Ctx, NEW s \in Sources, SetTimer(c, s)
      PROVE  Life'
  BY <1>7 DEF SetTimer, CallsNamed, TypeOK, Life, Live
<1>8. ASSUME NEW c \in Ctx, NEW s \in Sources, Dealloc(c, s)
      PROVE  Life'
  <2>1. /\ wrapper[s] = "alive"
        /\ ~\E d \in Ctx : call[d] = [op |-> "resume", on |-> s]
        /\ ~\E d \in Ctx : call[d] = [op |-> "cancel", on |-> s]
    <3>1. wrapper[s] = "alive" /\ \A d \in Ctx : call[d].on # s
      BY <1>8 DEF Dealloc
    <3>2. \A op : [op |-> op, on |-> s].on = s
      OBVIOUS
    <3>. QED
      BY <3>1, <3>2
  <2>l. /\ suspends[s] = 1 \/ (suspends[s] = 0 /\ started[s])
        /\ started[s] /\ suspends[s] = 1 => \E d \in Ctx : call[d] = [op |-> "resume", on |-> s]
        /\ cancelled[s] => stopped[s] \/ \E d \in Ctx : call[d] = [op |-> "cancel", on |-> s]
    BY <2>1 DEF Life
  <2>2. (started[s] => suspends[s] = 0) /\ (~started[s] => suspends[s] = 1)
    BY <2>1, <2>l
  <2>3. cancelled[s] => stopped[s]
    BY <2>1, <2>l
  <2>4. /\ wrapper'[s] = "gone" /\ suspends'[s] = 0 /\ stopped'[s] /\ released'[s]
        /\ UNCHANGED <<call, started, cancelled, event, farewell>>
        /\ \A u \in Sources \ {s} :
              /\ wrapper'[u] = wrapper[u] /\ suspends'[u] = suspends[u]
              /\ stopped'[u] = stopped[u] /\ released'[u] = released[u]
    <3>1. wrapper'[s] = "gone" /\ released'[s] /\ UNCHANGED <<call, started, cancelled, event, farewell>>
      BY <1>8 DEF Dealloc, TypeOK
    <3>2. suspends' = [suspends EXCEPT ![s] = IF started[s] THEN suspends[s] ELSE suspends[s] - 1]
      BY <1>8 DEF Dealloc
    <3>3. suspends'[s] = 0
      BY <3>2, <2>2 DEF TypeOK
    <3>4. stopped'[s]
      BY <1>8, <2>3 DEF Dealloc, TypeOK
    <3>5. ASSUME NEW u \in Sources \ {s}
          PROVE  /\ wrapper'[u] = wrapper[u] /\ suspends'[u] = suspends[u]
                 /\ stopped'[u] = stopped[u] /\ released'[u] = released[u]
      BY <1>8 DEF Dealloc, TypeOK
    <3>. QED
      BY <3>1, <3>3, <3>4, <3>5
  <2>. QED
    BY <2>4 DEF Life
<1>9. ASSUME NEW c \in Ctx, CancelReturn(c)
      PROVE  Life'
  BY <1>9 DEF CancelReturn, CallsNamed, TypeOK, Life, Live
<1>10. ASSUME NEW c \in Ctx, NativeResume(c)
      PROVE  Life'
  BY <1>10 DEF NativeResume, CallsNamed, TypeOK, Life, Live
<1>11. ASSUME NEW c \in Ctx, NativeCancel(c)
      PROVE  Life'
  BY <1>11 DEF NativeCancel, CallsNamed, TypeOK, Life, Live
<1>12. ASSUME NEW c \in Ctx, NativeSetTimer(c)
      PROVE  Life'
  BY <1>12 DEF NativeSetTimer, CallsNamed, TypeOK, Life, Live
<1>13. ASSUME NEW c \in Ctx, NEW h \in Handlers, DropRef(c, h)
      PROVE  Life'
  BY <1>13 DEF DropRef, CallsNamed, TypeOK, Life, Live
<1>14. ASSUME NEW s \in Sources, EventArrives(s)
      PROVE  Life'
  BY <1>14 DEF EventArrives, CallsNamed, TypeOK, Life, Live
<1>15. ASSUME NEW s \in Sources, InvokeEvent(s)
      PROVE  Life'
  BY <1>15 DEF InvokeEvent, CallsNamed, TypeOK, Life, Live
<1>16. ASSUME NEW s \in Sources, EventBegin(s)
      PROVE  Life'
  BY <1>16 DEF EventBegin, CallsNamed, TypeOK, Life, Live
<1>17. ASSUME NEW s \in Sources, EventEnd(s)
      PROVE  Life'
  BY <1>17 DEF EventEnd, CallsNamed, TypeOK, Life, Live
<1>18. ASSUME NEW s \in Sources, InvokeFarewell(s)
      PROVE  Life'
  BY <1>18 DEF InvokeFarewell, CallsNamed, TypeOK, Life, Live
<1>19. ASSUME NEW s \in Sources, Farewell(s)
      PROVE  Life'
  BY <1>19 DEF Farewell, CallsNamed, TypeOK, Life, Live
<1>20. CASE UNCHANGED vars
  BY <1>20 DEF vars, Life
<1>. QED
  BY <1>1, <1>2, <1>3, <1>4, <1>5, <1>6, <1>7, <1>8, <1>9, <1>10,
     <1>11, <1>12, <1>13, <1>14, <1>15, <1>16, <1>17, <1>18, <1>19, <1>20, NewConstructs DEF Next

-----------------------------------------------------------------------------
(* The inductive invariant holds of every execution. *)
THEOREM SourceInvariant == Spec => []SourceInv
<1>1. Init => SourceInv
  <2>. SUFFICES ASSUME Init PROVE SourceInv
    OBVIOUS
  <2>1. TypeOK
    BY EventAssumption DEF Init, TypeOK, NoCall
  <2>2. CallsNamed /\ Life
    BY DEF Init, CallsNamed, Life, NoCall
  <2>3. \A h : Kept(h) = {} /\ Owed(h) = {}
    BY DEF Init, Kept, Owed
  <2>4. Cardinality({}) = 0
    BY FS_EmptySet
  <2>5. HandlerRefs
    BY <2>1, <2>3, <2>4 DEF Init, HandlerRefs
  <2>. QED
    BY <2>2, <2>5 DEF SourceInv
<1>2. SourceInv /\ [Next]_vars => SourceInv'
  BY RefsStep, CallsStep, LifeStep DEF SourceInv
<1>. QED
  BY <1>1, <1>2, PTL DEF Spec

(* Whatever the order of start, cancel, events and deallocation, a handler's      *)
(* references are the program's, one per wrapper and one per source that may      *)
(* still call a trampoline.                                                       *)
THEOREM SourceHandlerRefs == Spec => []HandlerRefs
<1>1. SourceInv => HandlerRefs
  BY DEF SourceInv
<1>. QED
  BY <1>1, SourceInvariant, PTL

(* No trampoline is invoked over a handler that has been freed.                   *)
THEOREM SourceHandlerAlive == Spec => []HandlerAlive
<1>1. SourceInv => HandlerAlive
  <2>. SUFFICES ASSUME SourceInv, NEW s \in Sources, event[s] # "idle" \/ farewell[s] = "invoked"
                PROVE  refs[Handler[s]] > 0
    BY DEF HandlerAlive
  <2>1. TypeOK /\ Handler[s] \in Handlers
    BY HandlerAssumption DEF SourceInv, HandlerRefs
  <2>2. s \in Owed(Handler[s])
    BY <2>1 DEF SourceInv, Life, Owed, TypeOK
  <2>3. Cardinality(Owed(Handler[s])) # 0
    BY <2>2, CountsFinite, FS_EmptySet
  <2>. QED
    BY <2>1, <2>3, CountsFinite DEF SourceInv, HandlerRefs, TypeOK
<1>. QED
  BY <1>1, SourceInvariant, PTL

(* A native source is resumed exactly once, and never released suspended.         *)
THEOREM SourceResumedOnce == Spec => []ResumedOnce
<1>1. SourceInv => ResumedOnce
  <2>. SUFFICES ASSUME SourceInv, NEW s \in Sources
                PROVE  /\ suspends[s] >= 0
                       /\ released[s] => suspends[s] = 0 /\ stopped[s]
                       /\ wrapper[s] = "alive" /\ suspends[s] = 0 => started[s]
    BY DEF ResumedOnce
  <2>1. wrapper[s] \in {"unborn", "alive", "gone"} /\ suspends[s] \in Int
    BY DEF SourceInv, HandlerRefs, TypeOK
  <2>2. /\ wrapper[s] = "unborn" => suspends[s] = 0
        /\ wrapper[s] = "alive" => suspends[s] = 1 \/ (suspends[s] = 0 /\ started[s])
        /\ wrapper[s] = "gone" => suspends[s] = 0 /\ stopped[s]
        /\ released[s] <=> wrapper[s] = "gone"
    BY DEF SourceInv, Life
  <2>. QED
    BY <2>1, <2>2
<1>. QED
  BY <1>1, SourceInvariant, PTL
=============================================================================
