-------------------------- MODULE IOChannel_proofs --------------------------
(***************************************************************************)
(* Proofs about IOChannel, for every finite set of threads, every finite   *)
(* set of reads, writes and barriers and any number of partial results.    *)
(***************************************************************************)
EXTENDS IOChannel, TLAPS

(* A call is made on a living wrapper, and names an operation that is its own.    *)
Callers ==
    \A c \in Clients :
        /\ call[c].at # "none" => wrapper = "alive"
        /\ call[c].at = "submit" =>
              /\ call[c].o \in Ops /\ op[call[c].o] = "given"
              /\ \A d \in Clients : call[d].at = "submit" /\ call[d].o = call[c].o => d = c

(* There is a native channel when the constructor has succeeded, and operations   *)
(* only then.                                                                     *)
Birth ==
    /\ wrapper \in {"new", "creating", "failed"} <=> channel = "none"
    /\ channel = "none" => \A o \in Ops : op[o] = "new"
    /\ wrapper = "new" => registry = {} /\ ~held

(* The cleanup handler is about to be called, or has been.                        *)
Cleaned == due[Cleanup].last \/ calling[Cleanup] # "none" \/ Cleanup \in answered

(* The calls of a block: parts only of an operation that has started, the last    *)
(* one only of an operation that is complete, and nothing after it.               *)
Deliveries ==
    /\ \A o \in Ops :
        /\ op[o] \notin {"started", "complete"} => due[o] = NoneDue /\ calling[o] = "none"
        /\ op[o] # "complete" => ~due[o].last /\ calling[o] # "last" /\ o \notin answered
    /\ \A x \in Callbacks :
        /\ calling[x] = "last" => due[x] = NoneDue
        /\ x \in answered => due[x] = NoneDue /\ calling[x] = "none"
    /\ due[Cleanup].parts = 0 /\ calling[Cleanup] # "part"
    /\ Cleaned => channel \in {"closed", "stopped"}
    /\ Cleanup \in answered => Cleanup \notin registry

(* The types of all variables but the two counts, and what the counts are.        *)
Shape ==
    /\ wrapper \in {"new", "creating", "alive", "gone", "failed"}
    /\ closed \in BOOLEAN /\ held \in BOOLEAN
    /\ channel \in {"none", "open", "closed", "stopped"}
    /\ registry \subseteq Callbacks
    /\ op \in [Ops -> {"new", "given", "accepted", "started", "complete"}]
    /\ before \in [Ops -> SUBSET Ops]
    /\ parts \in [Ops -> Nat]
    /\ due \in [Callbacks -> [parts : Nat, last : BOOLEAN]]
    /\ calling \in [Callbacks -> {"none", "part", "last"}]
    /\ answered \subseteq Callbacks
    /\ call \in [Clients -> [at : {"none", "submit", "stop", "close", "closed"},
                            o : Ops \cup {NoOp}]]

RefCount ==
    refs = [x \in Callbacks |-> 2 * One(x \in registry) + One(x = Cleanup /\ held)]

(* The reference a block is made with is given back only if the channel could not *)
(* be created.                                                                    *)
Kept(x) ==
    IF x = Cleanup THEN x \in registry \cup answered /\ wrapper # "failed" ELSE op[x] # "new"
BlockCount == blocks = [x \in Callbacks |-> One(Kept(x)) + One(MayCall(x))]

(* What is registered, and that every call finds it.                              *)
Registered ==
    /\ \A o \in Ops : o \in registry <=> op[o] # "new" /\ o \notin answered
    /\ \A x \in Callbacks : due[x] # NoneDue \/ calling[x] # "none" => x \in registry
    /\ wrapper = "failed" => registry = {}

(* The inductive invariant. *)
IOInv == Shape /\ RefCount /\ BlockCount /\ Registered /\ Callers /\ Birth /\ Deliveries

-----------------------------------------------------------------------------
(* Facts used by several steps. *)
LEMMA NameFacts ==
    /\ Ops \subseteq Callbacks /\ Cleanup \in Callbacks /\ Cleanup \notin Ops
    /\ \A x \in Callbacks : x = Cleanup \/ x \in Ops
    /\ Barriers \subseteq Ops /\ NoOp \notin Ops
    /\ NoneDue.parts = 0 /\ NoneDue.last = FALSE
    /\ NoCall.at = "none" /\ NoCall.o = NoOp
  BY ChannelAssumption DEF Callbacks, NoneDue, NoCall

(* A record of calls due is NoneDue when it says that none are.                   *)
LEMMA DueFacts ==
    ASSUME Shape
    PROVE  \A x \in Callbacks :
             /\ due[x].parts \in Nat /\ due[x].last \in BOOLEAN
             /\ due[x] = NoneDue <=> due[x].parts = 0 /\ ~due[x].last
  BY DEF Shape, NoneDue

(* The calls of the blocks that are due. *)
DueType == [Callbacks -> [parts : Nat, last : BOOLEAN]]

(* When the last call of a block becomes due, or begins, that of no other does.   *)
LEMMA LastChanges ==
    ASSUME Shape, NEW x \in Callbacks, NEW b \in BOOLEAN
    PROVE  /\ [due EXCEPT ![x].last = b] \in DueType
           /\ [due EXCEPT ![x].last = b][x] = [parts |-> due[x].parts, last |-> b]
           /\ \A y \in Callbacks \ {x} : [due EXCEPT ![x].last = b][y] = due[y]
  <1>1. due \in [Callbacks -> [parts : Nat, last : BOOLEAN]]
    BY DEF Shape
  <1>2. [due[x] EXCEPT !.last = b] = [parts |-> due[x].parts, last |-> b]
    BY <1>1
  <1>. QED
    BY <1>1, <1>2 DEF DueType

(* One partial result more, or less, that is due changes nothing else.            *)
LEMMA PartsChange ==
    ASSUME Shape, NEW x \in Callbacks, NEW n \in Nat
    PROVE  /\ [due EXCEPT ![x].parts = n] \in DueType
           /\ [due EXCEPT ![x].parts = n][x] = [parts |-> n, last |-> due[x].last]
           /\ \A y \in Callbacks \ {x} : [due EXCEPT ![x].parts = n][y] = due[y]
  <1>1. due \in [Callbacks -> [parts : Nat, last : BOOLEAN]]
    BY DEF Shape
  <1>2. [due[x] EXCEPT !.parts = n] = [parts |-> n, last |-> due[x].last]
    BY <1>1
  <1>. QED
    BY <1>1, <1>2 DEF DueType

(* Every step keeps the types. *)
LEMMA ShapeStep ==
    ASSUME IOInv, [Next]_vars
    PROVE  Shape'
<1>. USE NameFacts DEF nativeVars, IOInv
<1>1. ASSUME Create
      PROVE  Shape'
  BY <1>1 DEF Create, Register, Shape
<1>2. ASSUME NativeCreate
      PROVE  Shape'
  BY <1>2 DEF NativeCreate, Shape
<1>3. ASSUME CreateFailed
      PROVE  Shape'
  BY <1>3 DEF CreateFailed, Unregister, Shape
<1>4. ASSUME Dealloc
      PROVE  Shape'
  BY <1>4 DEF Dealloc, NativeClosed, Shape
<1>5. ASSUME NativeCleanup
      PROVE  Shape'
  BY <1>5, LastChanges DEF NativeCleanup, Shape, DueType
<1>6. ASSUME NEW c \in Clients, NEW o \in Ops, Submit(c, o)
      PROVE  Shape'
  BY <1>6 DEF Submit, Register, Shape
<1>7. ASSUME NEW c \in Clients, NEW stop \in BOOLEAN, Close(c, stop)
      PROVE  Shape'
  BY <1>7 DEF Close, Shape
<1>8. ASSUME NEW c \in Clients, NativeAccept(c)
      PROVE  Shape'
  <2>1. /\ op' \in [Ops -> {"new", "given", "accepted", "started", "complete"}]
        /\ before' \in [Ops -> SUBSET Ops]
    BY <1>8 DEF NativeAccept, Shape
  <2>2. call' \in [Clients -> [at : {"none", "submit", "stop", "close", "closed"},
                            o : Ops \cup {NoOp}]]
    BY <1>8 DEF NativeAccept, Submitted, NoCall, Shape
  <2>. QED
    BY <1>8, <2>1, <2>2 DEF NativeAccept, Submitted, Shape
<1>9. ASSUME NEW c \in Clients, NativeRefuse(c)
      PROVE  Shape'
  <2>1. op' \in [Ops -> {"new", "given", "accepted", "started", "complete"}]
    BY <1>9 DEF NativeRefuse, Shape
  <2>2. call' \in [Clients -> [at : {"none", "submit", "stop", "close", "closed"},
                            o : Ops \cup {NoOp}]]
    BY <1>9 DEF NativeRefuse, Submitted, NoCall, Shape
  <2>3. due' \in DueType
    BY <1>9, LastChanges DEF NativeRefuse, Submitted, Callers, Shape
  <2>. QED
    BY <1>9, <2>1, <2>2, <2>3 DEF NativeRefuse, Submitted, Shape, DueType
<1>10. ASSUME NEW c \in Clients, NativeClose(c)
      PROVE  Shape'
  BY <1>10 DEF NativeClose, NativeClosed, Shape
<1>11. ASSUME NEW c \in Clients, CloseReturn(c)
      PROVE  Shape'
  <2>1. call' \in [Clients -> [at : {"none", "submit", "stop", "close", "closed"},
                            o : Ops \cup {NoOp}]]
    BY <1>11 DEF CloseReturn, NoCall, Shape
  <2>. QED
    BY <1>11, <2>1 DEF CloseReturn, Shape
<1>12. ASSUME NEW o \in Ops, NativeStart(o)
      PROVE  Shape'
  <2>1. due' \in DueType
    <3>1. due' = due \/ due' = [due EXCEPT ![o].last = TRUE]
      BY <1>12 DEF NativeStart, Finish
    <3>2. due \in DueType
      BY DEF Shape, DueType
    <3>3. [due EXCEPT ![o].last = TRUE] \in DueType
      BY LastChanges
    <3>. QED
      BY <3>1, <3>2, <3>3
  <2>2. op' \in [Ops -> {"new", "given", "accepted", "started", "complete"}]
    BY <1>12 DEF NativeStart, Finish, Shape
  <2>. QED
    BY <1>12, <2>1, <2>2 DEF NativeStart, Shape, DueType
<1>13. ASSUME NEW o \in Ops, NativeFinish(o)
      PROVE  Shape'
  <2>1. due' \in DueType
    BY <1>13, LastChanges DEF NativeFinish, Finish, Shape, DueType
  <2>2. op' \in [Ops -> {"new", "given", "accepted", "started", "complete"}]
    BY <1>13 DEF NativeFinish, Finish, Shape
  <2>. QED
    BY <1>13, <2>1, <2>2 DEF NativeFinish, Shape, DueType
<1>14. ASSUME NEW o \in Ops, NativePart(o)
      PROVE  Shape'
  <2>1. due' \in DueType
    BY <1>14, PartsChange, DueFacts DEF NativePart, Shape, DueType
  <2>2. parts' \in [Ops -> Nat]
    BY <1>14 DEF NativePart, Shape
  <2>. QED
    BY <1>14, <2>1, <2>2 DEF NativePart, Shape, DueType
<1>15. ASSUME NEW x \in Callbacks, TrampolineBegin(x)
      PROVE  Shape'
  <2>1. due' \in DueType
    <3>1. \/ due[x].parts > 0 /\ due' = [due EXCEPT ![x].parts = due[x].parts - 1]
          \/ due' = [due EXCEPT ![x].last = FALSE]
      BY <1>15 DEF TrampolineBegin
    <3>2. due[x].parts > 0 => due[x].parts - 1 \in Nat
      BY DueFacts
    <3>3. [due EXCEPT ![x].last = FALSE] \in DueType
      BY LastChanges
    <3>4. \A n \in Nat : [due EXCEPT ![x].parts = n] \in DueType
      BY PartsChange
    <3>. QED
      BY <3>1, <3>2, <3>3, <3>4
  <2>. QED
    BY <1>15, <2>1 DEF TrampolineBegin, Shape, DueType
<1>16. ASSUME NEW x \in Callbacks, TrampolineEnd(x)
      PROVE  Shape'
  BY <1>16 DEF TrampolineEnd, Unregister, Shape
<1>17. CASE UNCHANGED vars
  BY <1>17 DEF vars, Shape
<1>. QED
  BY <1>1, <1>2, <1>3, <1>4, <1>5, <1>6, <1>7, <1>8, <1>9, <1>10,
     <1>11, <1>12, <1>13, <1>14, <1>15, <1>16, <1>17
     DEF Next, Creation, CallStep, NativeStep, Trampoline

(* Every step keeps the calls as they should be. *)
LEMMA CallersStep ==
    ASSUME IOInv, [Next]_vars
    PROVE  Callers'
<1>0. Shape /\ RefCount /\ BlockCount /\ Registered /\ Callers /\ Birth /\ Deliveries
  BY DEF IOInv
<1>. USE <1>0, NameFacts DEF nativeVars
<1>1. ASSUME Create
      PROVE  Callers'
  BY <1>1 DEF Create, Register, Callers, Shape
<1>2. ASSUME NativeCreate
      PROVE  Callers'
  BY <1>2 DEF NativeCreate, Callers, Shape
<1>3. ASSUME CreateFailed
      PROVE  Callers'
  BY <1>3 DEF CreateFailed, Unregister, Callers, Shape
<1>4. ASSUME Dealloc
      PROVE  Callers'
  BY <1>4 DEF Dealloc, NativeClosed, Callers, Shape
<1>5. ASSUME NativeCleanup
      PROVE  Callers'
  BY <1>5 DEF NativeCleanup, Callers, Shape
<1>6. ASSUME NEW c \in Clients, NEW o \in Ops, Submit(c, o)
      PROVE  Callers'
  BY <1>6 DEF Submit, Register, Callers, Shape
<1>7. ASSUME NEW c \in Clients, NEW stop \in BOOLEAN, Close(c, stop)
      PROVE  Callers'
  BY <1>7 DEF Close, Callers, Shape
<1>8. ASSUME NEW c \in Clients, NativeAccept(c)
      PROVE  Callers'
  BY <1>8 DEF NativeAccept, Submitted, Callers, Shape
<1>9. ASSUME NEW c \in Clients, NativeRefuse(c)
      PROVE  Callers'
  BY <1>9 DEF NativeRefuse, Submitted, Callers, Shape
<1>10. ASSUME NEW c \in Clients, NativeClose(c)
      PROVE  Callers'
  BY <1>10 DEF NativeClose, NativeClosed, Callers, Shape
<1>11. ASSUME NEW c \in Clients, CloseReturn(c)
      PROVE  Callers'
  BY <1>11 DEF CloseReturn, Callers, Shape
<1>12. ASSUME NEW o \in Ops, NativeStart(o)
      PROVE  Callers'
  BY <1>12 DEF NativeStart, Finish, Over, Callers, Shape
<1>13. ASSUME NEW o \in Ops, NativeFinish(o)
      PROVE  Callers'
  BY <1>13 DEF NativeFinish, Finish, Callers, Shape
<1>14. ASSUME NEW o \in Ops, NativePart(o)
      PROVE  Callers'
  BY <1>14 DEF NativePart, Callers, Shape
<1>15. ASSUME NEW x \in Callbacks, TrampolineBegin(x)
      PROVE  Callers'
  BY <1>15 DEF TrampolineBegin, Callers, Shape
<1>16. ASSUME NEW x \in Callbacks, TrampolineEnd(x)
      PROVE  Callers'
  BY <1>16 DEF TrampolineEnd, Unregister, Callers, Shape
<1>17. CASE UNCHANGED vars
  BY <1>17 DEF vars, Callers, Shape
<1>. QED
  BY <1>1, <1>2, <1>3, <1>4, <1>5, <1>6, <1>7, <1>8, <1>9, <1>10,
     <1>11, <1>12, <1>13, <1>14, <1>15, <1>16, <1>17
     DEF Next, Creation, CallStep, NativeStep, Trampoline

(* Every step keeps wrapper and channel in agreement. *)
LEMMA BirthStep ==
    ASSUME IOInv, [Next]_vars
    PROVE  Birth'
<1>0. Shape /\ RefCount /\ BlockCount /\ Registered /\ Callers /\ Birth /\ Deliveries
  BY DEF IOInv
<1>. USE <1>0, NameFacts DEF nativeVars
<1>1. ASSUME Create
      PROVE  Birth'
  BY <1>1 DEF Create, Register, Birth, Callers, Shape
<1>2. ASSUME NativeCreate
      PROVE  Birth'
  BY <1>2 DEF NativeCreate, Birth, Callers, Shape
<1>3. ASSUME CreateFailed
      PROVE  Birth'
  BY <1>3 DEF CreateFailed, Unregister, Birth, Callers, Shape
<1>4. ASSUME Dealloc
      PROVE  Birth'
  BY <1>4 DEF Dealloc, NativeClosed, Birth, Callers, Shape
<1>5. ASSUME NativeCleanup
      PROVE  Birth'
  BY <1>5 DEF NativeCleanup, Birth, Callers, Shape
<1>6. ASSUME NEW c \in Clients, NEW o \in Ops, Submit(c, o)
      PROVE  Birth'
  BY <1>6 DEF Submit, Register, Birth, Callers, Shape
<1>7. ASSUME NEW c \in Clients, NEW stop \in BOOLEAN, Close(c, stop)
      PROVE  Birth'
  BY <1>7 DEF Close, Birth, Callers, Shape
<1>8. ASSUME NEW c \in Clients, NativeAccept(c)
      PROVE  Birth'
  BY <1>8 DEF NativeAccept, Submitted, Birth, Callers, Shape
<1>9. ASSUME NEW c \in Clients, NativeRefuse(c)
      PROVE  Birth'
  BY <1>9 DEF NativeRefuse, Submitted, Birth, Callers, Shape
<1>10. ASSUME NEW c \in Clients, NativeClose(c)
      PROVE  Birth'
  BY <1>10 DEF NativeClose, NativeClosed, Birth, Callers, Shape
<1>11. ASSUME NEW c \in Clients, CloseReturn(c)
      PROVE  Birth'
  BY <1>11 DEF CloseReturn, Birth, Callers, Shape
<1>12. ASSUME NEW o \in Ops, NativeStart(o)
      PROVE  Birth'
  BY <1>12 DEF NativeStart, Finish, Over, Birth, Callers, Shape
<1>13. ASSUME NEW o \in Ops, NativeFinish(o)
      PROVE  Birth'
  BY <1>13 DEF NativeFinish, Finish, Birth, Callers, Shape
<1>14. ASSUME NEW o \in Ops, NativePart(o)
      PROVE  Birth'
  BY <1>14 DEF NativePart, Birth, Callers, Shape
<1>15. ASSUME NEW x \in Callbacks, TrampolineBegin(x)
      PROVE  Birth'
  BY <1>15 DEF TrampolineBegin, Birth, Callers, Shape
<1>16. ASSUME NEW x \in Callbacks, TrampolineEnd(x)
      PROVE  Birth'
  BY <1>16 DEF TrampolineEnd, Unregister, Birth, Callers, Shape
<1>17. CASE UNCHANGED vars
  BY <1>17 DEF vars, Birth, Callers, Shape
<1>. QED
  BY <1>1, <1>2, <1>3, <1>4, <1>5, <1>6, <1>7, <1>8, <1>9, <1>10,
     <1>11, <1>12, <1>13, <1>14, <1>15, <1>16, <1>17
     DEF Next, Creation, CallStep, NativeStep, Trampoline

(* Every step keeps the calls of each block in order. *)
LEMMA DeliveriesStep ==
    ASSUME IOInv, [Next]_vars
    PROVE  Deliveries'
<1>0. Shape /\ RefCount /\ BlockCount /\ Registered /\ Callers /\ Birth /\ Deliveries
  BY DEF IOInv
<1>. USE <1>0, NameFacts, DueFacts DEF nativeVars
<1>1. ASSUME Create
      PROVE  Deliveries'
  BY <1>1 DEF Create, Register, Deliveries, Cleaned, Birth, Callers, Shape
<1>2. ASSUME NativeCreate
      PROVE  Deliveries'
  BY <1>2 DEF NativeCreate, Deliveries, Cleaned, Birth, Callers, Shape
<1>3. ASSUME CreateFailed
      PROVE  Deliveries'
  BY <1>3 DEF CreateFailed, Unregister, Deliveries, Cleaned, Birth, Callers, Shape
<1>4. ASSUME Dealloc
      PROVE  Deliveries'
  BY <1>4 DEF Dealloc, NativeClosed, Deliveries, Cleaned, Birth, Callers, Shape
<1>5. ASSUME NativeCleanup
      PROVE  Deliveries'
  <2>1. Cleanup \notin answered
    BY <1>5 DEF NativeCleanup, BlockCount, Kept, MayCall, One, Deliveries
  <2>. QED
    BY <1>5, <2>1 DEF NativeCleanup, Deliveries, Cleaned, Birth, Callers, Shape
<1>6. ASSUME NEW c \in Clients, NEW o \in Ops, Submit(c, o)
      PROVE  Deliveries'
  BY <1>6 DEF Submit, Register, Deliveries, Cleaned, Birth, Callers, Shape
<1>7. ASSUME NEW c \in Clients, NEW stop \in BOOLEAN, Close(c, stop)
      PROVE  Deliveries'
  BY <1>7 DEF Close, Deliveries, Cleaned, Birth, Callers, Shape
<1>8. ASSUME NEW c \in Clients, NativeAccept(c)
      PROVE  Deliveries'
  BY <1>8 DEF NativeAccept, Submitted, Deliveries, Cleaned, Birth, Callers, Shape
<1>9. ASSUME NEW c \in Clients, NativeRefuse(c)
      PROVE  Deliveries'
  BY <1>9 DEF NativeRefuse, Submitted, Deliveries, Cleaned, Birth, Callers, Shape
<1>10. ASSUME NEW c \in Clients, NativeClose(c)
      PROVE  Deliveries'
  BY <1>10 DEF NativeClose, NativeClosed, Deliveries, Cleaned, Birth, Callers, Shape
<1>11. ASSUME NEW c \in Clients, CloseReturn(c)
      PROVE  Deliveries'
  BY <1>11 DEF CloseReturn, Deliveries, Cleaned, Birth, Callers, Shape
<1>12. ASSUME NEW o \in Ops, NativeStart(o)
      PROVE  Deliveries'
  BY <1>12 DEF NativeStart, Finish, Over, Deliveries, Cleaned, Birth, Callers, Shape
<1>13. ASSUME NEW o \in Ops, NativeFinish(o)
      PROVE  Deliveries'
  BY <1>13 DEF NativeFinish, Finish, Deliveries, Cleaned, Birth, Callers, Shape
<1>14. ASSUME NEW o \in Ops, NativePart(o)
      PROVE  Deliveries'
  BY <1>14 DEF NativePart, Deliveries, Cleaned, Birth, Callers, Shape
<1>15. ASSUME NEW x \in Callbacks, TrampolineBegin(x)
      PROVE  Deliveries'
  <2>0. /\ calling[x] = "none" /\ due[x] # NoneDue
        /\ UNCHANGED <<op, channel, registry, answered>> /\ x \notin answered
        /\ x \in registry
    BY <1>15 DEF TrampolineBegin, Deliveries, Registered
  <2>1. CASE /\ due[x].parts > 0
             /\ due' = [due EXCEPT ![x].parts = due[x].parts - 1]
             /\ calling' = [calling EXCEPT ![x] = "part"]
    <3>1. /\ due'[x] = [parts |-> due[x].parts - 1, last |-> due[x].last]
          /\ \A y \in Callbacks \ {x} : due'[y] = due[y]
      <4>1. due \in [Callbacks -> [parts : Nat, last : BOOLEAN]]
        BY DEF Shape
      <4>. HIDE <1>0
      <4>2. due'[x] = [due[x] EXCEPT !.parts = due[x].parts - 1]
        BY <2>1, <4>1
      <4>3. \A y \in Callbacks \ {x} : due'[y] = due[y]
        BY <2>1, <4>1
      <4>. QED
        BY <4>1, <4>2, <4>3
    <3>2. x \in Ops /\ op[x] \in {"started", "complete"}
      BY <2>0, <2>1 DEF Deliveries, Shape
    <3>3. calling'[x] = "part" /\ \A y \in Callbacks \ {x} : calling'[y] = calling[y]
      BY <2>1 DEF Shape
    <3>. QED
      BY <2>0, <3>1, <3>2, <3>3 DEF Deliveries, Cleaned
  <2>2. CASE /\ due[x].parts = 0
             /\ due' = [due EXCEPT ![x].last = FALSE]
             /\ calling' = [calling EXCEPT ![x] = "last"]
    <3>1. /\ due'[x] = [parts |-> due[x].parts, last |-> FALSE]
          /\ \A y \in Callbacks \ {x} : due'[y] = due[y]
      <4>1. Shape
        OBVIOUS
      <4>. HIDE <1>0
      <4>. QED
        BY <2>2, <4>1, LastChanges
    <3>2. due[x].last /\ (x \in Ops => op[x] = "complete") /\ due'[x] = NoneDue
      BY <2>0, <2>2, <3>1 DEF Deliveries, Shape, NoneDue
    <3>3. calling'[x] = "last" /\ \A y \in Callbacks \ {x} : calling'[y] = calling[y]
      BY <2>2 DEF Shape
    <3>. QED
      BY <2>0, <3>1, <3>2, <3>3 DEF Deliveries, Cleaned
  <2>. QED
    BY <1>15, <2>0, <2>1, <2>2 DEF TrampolineBegin
<1>16. ASSUME NEW x \in Callbacks, TrampolineEnd(x)
      PROVE  Deliveries'
  BY <1>16 DEF TrampolineEnd, Unregister, Deliveries, Cleaned, Birth, Callers, Shape
<1>17. CASE UNCHANGED vars
  BY <1>17 DEF vars, Deliveries, Cleaned, Birth, Callers, Shape
<1>. QED
  BY <1>1, <1>2, <1>3, <1>4, <1>5, <1>6, <1>7, <1>8, <1>9, <1>10,
     <1>11, <1>12, <1>13, <1>14, <1>15, <1>16, <1>17
     DEF Next, Creation, CallStep, NativeStep, Trampoline

(* Every step keeps registered what may be called, and nothing else. *)
LEMMA RegisteredStep ==
    ASSUME IOInv, [Next]_vars
    PROVE  Registered'
<1>0. Shape /\ RefCount /\ BlockCount /\ Registered /\ Callers /\ Birth /\ Deliveries
  BY DEF IOInv
<1>. USE <1>0, NameFacts DEF nativeVars
<1>1. ASSUME Create
      PROVE  Registered'
  BY <1>1 DEF Create, Register, Registered, Deliveries, Birth, Callers, Shape
<1>2. ASSUME NativeCreate
      PROVE  Registered'
  BY <1>2 DEF NativeCreate, Registered, Deliveries, Birth, Callers, Shape
<1>3. ASSUME CreateFailed
      PROVE  Registered'
  <2>1. channel = "none" /\ \A o \in Ops : op[o] = "new"
    BY <1>3 DEF CreateFailed, Birth
  <2>2. \A x \in Callbacks : due[x] = NoneDue /\ calling[x] = "none"
    BY <2>1, DueFacts DEF Deliveries, Cleaned, Shape
  <2>3. registry' = {}
    BY <1>3, <2>1 DEF CreateFailed, Unregister, Registered, Shape
  <2>. QED
    BY <1>3, <2>1, <2>2, <2>3 DEF CreateFailed, Registered
<1>4. ASSUME Dealloc
      PROVE  Registered'
  BY <1>4 DEF Dealloc, NativeClosed, Registered, Deliveries, Birth, Callers, Shape
<1>5. ASSUME NativeCleanup
      PROVE  Registered'
  <2>1. Cleanup \in registry
    BY <1>5 DEF NativeCleanup, BlockCount, Kept, MayCall, One
  <2>. QED
    BY <1>5, <2>1 DEF NativeCleanup, Registered, Deliveries, Birth, Callers, Shape
<1>6. ASSUME NEW c \in Clients, NEW o \in Ops, Submit(c, o)
      PROVE  Registered'
  BY <1>6 DEF Submit, Register, Registered, Deliveries, Birth, Callers, Shape
<1>7. ASSUME NEW c \in Clients, NEW stop \in BOOLEAN, Close(c, stop)
      PROVE  Registered'
  BY <1>7 DEF Close, Registered, Deliveries, Birth, Callers, Shape
<1>8. ASSUME NEW c \in Clients, NativeAccept(c)
      PROVE  Registered'
  BY <1>8 DEF NativeAccept, Submitted, Registered, Deliveries, Birth, Callers, Shape
<1>9. ASSUME NEW c \in Clients, NativeRefuse(c)
      PROVE  Registered'
  BY <1>9 DEF NativeRefuse, Submitted, Registered, Deliveries, Birth, Callers, Shape
<1>10. ASSUME NEW c \in Clients, NativeClose(c)
      PROVE  Registered'
  BY <1>10 DEF NativeClose, NativeClosed, Registered, Deliveries, Birth, Callers, Shape
<1>11. ASSUME NEW c \in Clients, CloseReturn(c)
      PROVE  Registered'
  BY <1>11 DEF CloseReturn, Registered, Deliveries, Birth, Callers, Shape
<1>12. ASSUME NEW o \in Ops, NativeStart(o)
      PROVE  Registered'
  BY <1>12 DEF NativeStart, Finish, Over, Registered, Deliveries, Birth, Callers, Shape
<1>13. ASSUME NEW o \in Ops, NativeFinish(o)
      PROVE  Registered'
  BY <1>13 DEF NativeFinish, Finish, Registered, Deliveries, Birth, Callers, Shape
<1>14. ASSUME NEW o \in Ops, NativePart(o)
      PROVE  Registered'
  BY <1>14 DEF NativePart, Registered, Deliveries, Birth, Callers, Shape
<1>15. ASSUME NEW x \in Callbacks, TrampolineBegin(x)
      PROVE  Registered'
  BY <1>15 DEF TrampolineBegin, Registered, Deliveries, Birth, Callers, Shape
<1>16. ASSUME NEW x \in Callbacks, TrampolineEnd(x)
      PROVE  Registered'
  BY <1>16 DEF TrampolineEnd, Unregister, Registered, Deliveries, Birth, Callers, Shape
<1>17. CASE UNCHANGED vars
  BY <1>17 DEF vars, Registered, Deliveries, Birth, Callers, Shape
<1>. QED
  BY <1>1, <1>2, <1>3, <1>4, <1>5, <1>6, <1>7, <1>8, <1>9, <1>10,
     <1>11, <1>12, <1>13, <1>14, <1>15, <1>16, <1>17
     DEF Next, Creation, CallStep, NativeStep, Trampoline

(* Every step keeps the counts of the callbacks. *)
LEMMA RefCountStep ==
    ASSUME IOInv, [Next]_vars
    PROVE  RefCount'
<1>0. Shape /\ RefCount /\ BlockCount /\ Registered /\ Callers /\ Birth /\ Deliveries
  BY DEF IOInv
<1>. USE <1>0, NameFacts DEF nativeVars
<1>1. ASSUME Create
      PROVE  RefCount'
  BY <1>1 DEF Create, Register, RefCount, One, Birth, Shape
<1>2. ASSUME NativeCreate
      PROVE  RefCount'
  BY <1>2 DEF NativeCreate, RefCount, One, Shape
<1>3. ASSUME CreateFailed
      PROVE  RefCount'
  BY <1>3 DEF CreateFailed, Unregister, RefCount, One, Birth, Registered, Shape
<1>4. ASSUME Dealloc
      PROVE  RefCount'
  BY <1>4 DEF Dealloc, NativeClosed, RefCount, One, Shape
<1>5. ASSUME NativeCleanup
      PROVE  RefCount'
  BY <1>5 DEF NativeCleanup, RefCount, One, Shape
<1>6. ASSUME NEW c \in Clients, NEW o \in Ops, Submit(c, o)
      PROVE  RefCount'
  BY <1>6 DEF Submit, Register, RefCount, One, Registered, Deliveries, Shape
<1>7. ASSUME NEW c \in Clients, NEW stop \in BOOLEAN, Close(c, stop)
      PROVE  RefCount'
  BY <1>7 DEF Close, RefCount, One, Shape
<1>8. ASSUME NEW c \in Clients, NativeAccept(c)
      PROVE  RefCount'
  BY <1>8 DEF NativeAccept, Submitted, RefCount, One, Shape
<1>9. ASSUME NEW c \in Clients, NativeRefuse(c)
      PROVE  RefCount'
  BY <1>9 DEF NativeRefuse, Submitted, RefCount, One, Shape
<1>10. ASSUME NEW c \in Clients, NativeClose(c)
      PROVE  RefCount'
  BY <1>10 DEF NativeClose, NativeClosed, RefCount, One, Shape
<1>11. ASSUME NEW c \in Clients, CloseReturn(c)
      PROVE  RefCount'
  BY <1>11 DEF CloseReturn, RefCount, One, Shape
<1>12. ASSUME NEW o \in Ops, NativeStart(o)
      PROVE  RefCount'
  BY <1>12 DEF NativeStart, RefCount, One, Shape
<1>13. ASSUME NEW o \in Ops, NativeFinish(o)
      PROVE  RefCount'
  BY <1>13 DEF NativeFinish, RefCount, One, Shape
<1>14. ASSUME NEW o \in Ops, NativePart(o)
      PROVE  RefCount'
  BY <1>14 DEF NativePart, RefCount, One, Shape
<1>15. ASSUME NEW x \in Callbacks, TrampolineBegin(x)
      PROVE  RefCount'
  BY <1>15 DEF TrampolineBegin, RefCount, One, Shape
<1>16. ASSUME NEW x \in Callbacks, TrampolineEnd(x)
      PROVE  RefCount'
  BY <1>16 DEF TrampolineEnd, Unregister, RefCount, One, Shape
<1>17. CASE UNCHANGED vars
  BY <1>17 DEF vars, RefCount
<1>. QED
  BY <1>1, <1>2, <1>3, <1>4, <1>5, <1>6, <1>7, <1>8, <1>9, <1>10,
     <1>11, <1>12, <1>13, <1>14, <1>15, <1>16, <1>17
     DEF Next, Creation, CallStep, NativeStep, Trampoline

(* Every step keeps the counts of the blocks. *)
LEMMA BlockCountStep ==
    ASSUME IOInv, [Next]_vars
    PROVE  BlockCount'
<1>0. Shape /\ RefCount /\ BlockCount /\ Registered /\ Callers /\ Birth /\ Deliveries
  BY DEF IOInv
<1>. USE <1>0, NameFacts DEF nativeVars
<1>1. ASSUME Create
      PROVE  BlockCount'
  BY <1>1 DEF Create, Register, BlockCount, Kept, MayCall, One, Registered, Deliveries,
       Cleaned, Birth, Callers, Shape
<1>2. ASSUME NativeCreate
      PROVE  BlockCount'
  <2>2. /\ Cleanup \in Callbacks /\ blocks[Cleanup] = (IF Cleanup \in registry THEN 1 ELSE 0)
        /\ Cleanup \in registry => Kept(Cleanup)' = TRUE /\ MayCall(Cleanup)' = TRUE
        /\ Cleanup \notin registry => Kept(Cleanup)' = FALSE /\ MayCall(Cleanup)' = FALSE
    BY <1>2 DEF NativeCreate, BlockCount, Kept, MayCall, One, Registered, Deliveries,
         Cleaned, Birth, Callers, Shape
  <2>3. blocks' = [blocks EXCEPT ![Cleanup] = IF Cleanup \in registry THEN 2 ELSE 0]
    BY <1>2, <2>2 DEF NativeCreate
  <2>4. blocks'[Cleanup] = One(Kept(Cleanup)') + One(MayCall(Cleanup)')
    <3>1. blocks'[Cleanup] = IF Cleanup \in registry THEN 2 ELSE 0
      BY <2>2, <2>3 DEF BlockCount
    <3>2. CASE Cleanup \in registry
      BY <2>2, <3>1, <3>2 DEF One
    <3>3. CASE Cleanup \notin registry
      BY <2>2, <3>1, <3>3 DEF One
    <3>. QED
      BY <3>2, <3>3
  <2>5. ASSUME NEW y \in Callbacks, y # Cleanup
        PROVE  blocks'[y] = One(Kept(y)') + One(MayCall(y)')
    BY <1>2, <2>3, <2>5 DEF NativeCreate, BlockCount, Kept, MayCall, Birth, Callers, Shape
  <2>6. blocks' = [y \in Callbacks |-> blocks'[y]]
    BY <2>3 DEF BlockCount
  <2>. QED
    BY <2>4, <2>5, <2>6 DEF BlockCount
<1>3. ASSUME CreateFailed
      PROVE  BlockCount'
  <2>2. /\ Cleanup \in Callbacks /\ blocks[Cleanup] = blocks[Cleanup]
        /\ Kept(Cleanup)' = FALSE /\ MayCall(Cleanup)' = FALSE
    BY <1>3 DEF CreateFailed, Unregister, BlockCount, Kept, MayCall, One, Registered,
         Deliveries, Cleaned, Birth, Callers, Shape
  <2>3. blocks' = [blocks EXCEPT ![Cleanup] = 0]
    BY <1>3, <2>2 DEF CreateFailed, Unregister
  <2>4. blocks'[Cleanup] = One(Kept(Cleanup)') + One(MayCall(Cleanup)')
    BY <2>2, <2>3 DEF One, BlockCount
  <2>5. ASSUME NEW y \in Callbacks, y # Cleanup
        PROVE  blocks'[y] = One(Kept(y)') + One(MayCall(y)')
    BY <1>3, <2>3, <2>5 DEF CreateFailed, Unregister, BlockCount, Kept, MayCall, Birth,
         Callers, Shape
  <2>6. blocks' = [y \in Callbacks |-> blocks'[y]]
    BY <2>3 DEF BlockCount
  <2>. QED
    BY <2>4, <2>5, <2>6 DEF BlockCount
<1>4. ASSUME Dealloc
      PROVE  BlockCount'
  BY <1>4 DEF Dealloc, NativeClosed, BlockCount, Kept, MayCall, One, Registered, Deliveries,
       Cleaned, Birth, Callers, Shape
<1>5. ASSUME NativeCleanup
      PROVE  BlockCount'
  BY <1>5 DEF NativeCleanup, BlockCount, Kept, MayCall, One, Registered, Deliveries,
       Cleaned, Birth, Callers, Shape
<1>6. ASSUME NEW c \in Clients, NEW o \in Ops, Submit(c, o)
      PROVE  BlockCount'
  <2>2. /\ o \in Callbacks /\ blocks[o] = 0
        /\ Kept(o)' = TRUE /\ MayCall(o)' = FALSE
    BY <1>6 DEF Submit, Register, BlockCount, Kept, MayCall, One, Registered, Deliveries,
         Cleaned, Birth, Callers, Shape
  <2>3. blocks' = [blocks EXCEPT ![o] = 1]
    BY <1>6, <2>2 DEF Submit, Register
  <2>4. blocks'[o] = One(Kept(o)') + One(MayCall(o)')
    BY <2>2, <2>3 DEF One, BlockCount
  <2>5. ASSUME NEW y \in Callbacks, y # o
        PROVE  blocks'[y] = One(Kept(y)') + One(MayCall(y)')
    BY <1>6, <2>3, <2>5 DEF Submit, Register, BlockCount, Kept, MayCall, Birth, Callers, Shape
  <2>6. blocks' = [y \in Callbacks |-> blocks'[y]]
    BY <2>3 DEF BlockCount
  <2>. QED
    BY <2>4, <2>5, <2>6 DEF BlockCount
<1>7. ASSUME NEW c \in Clients, NEW stop \in BOOLEAN, Close(c, stop)
      PROVE  BlockCount'
  BY <1>7 DEF Close, BlockCount, Kept, MayCall, One, Registered, Deliveries, Cleaned, Birth,
       Callers, Shape
<1>8. ASSUME NEW c \in Clients, NativeAccept(c)
      PROVE  BlockCount'
  <2>0. PICK o \in Ops : call[c].o = o /\ op[o] = "given"
    BY <1>8 DEF NativeAccept, Submitted, Callers
  <2>2. /\ o \in Callbacks /\ blocks[o] = 1
        /\ Kept(o)' = TRUE /\ MayCall(o)' = TRUE
    BY <1>8, <2>0 DEF NativeAccept, Submitted, BlockCount, Kept, MayCall, One, Registered,
         Deliveries, Cleaned, Birth, Callers, Shape
  <2>3. blocks' = [blocks EXCEPT ![o] = 2]
    BY <1>8, <2>0, <2>2 DEF NativeAccept, Submitted
  <2>4. blocks'[o] = One(Kept(o)') + One(MayCall(o)')
    BY <2>2, <2>3 DEF One, BlockCount
  <2>5. ASSUME NEW y \in Callbacks, y # o
        PROVE  blocks'[y] = One(Kept(y)') + One(MayCall(y)')
    BY <1>8, <2>0, <2>3, <2>5 DEF NativeAccept, Submitted, BlockCount, Kept, MayCall, Birth,
         Callers, Shape
  <2>6. blocks' = [y \in Callbacks |-> blocks'[y]]
    BY <2>3 DEF BlockCount
  <2>. QED
    BY <2>4, <2>5, <2>6 DEF BlockCount
<1>9. ASSUME NEW c \in Clients, NativeRefuse(c)
      PROVE  BlockCount'
  <2>0. PICK o \in Ops : call[c].o = o /\ op[o] = "given"
    BY <1>9 DEF NativeRefuse, Submitted, Callers
  <2>2. /\ o \in Callbacks /\ blocks[o] = 1
        /\ Kept(o)' = TRUE /\ MayCall(o)' = TRUE
    BY <1>9, <2>0 DEF NativeRefuse, Submitted, BlockCount, Kept, MayCall, One, Registered,
         Deliveries, Cleaned, Birth, Callers, Shape
  <2>3. blocks' = [blocks EXCEPT ![o] = 2]
    BY <1>9, <2>0, <2>2 DEF NativeRefuse, Submitted
  <2>4. blocks'[o] = One(Kept(o)') + One(MayCall(o)')
    BY <2>2, <2>3 DEF One, BlockCount
  <2>5. ASSUME NEW y \in Callbacks, y # o
        PROVE  blocks'[y] = One(Kept(y)') + One(MayCall(y)')
    BY <1>9, <2>0, <2>3, <2>5 DEF NativeRefuse, Submitted, BlockCount, Kept, MayCall, Birth,
         Callers, Shape
  <2>6. blocks' = [y \in Callbacks |-> blocks'[y]]
    BY <2>3 DEF BlockCount
  <2>. QED
    BY <2>4, <2>5, <2>6 DEF BlockCount
<1>10. ASSUME NEW c \in Clients, NativeClose(c)
      PROVE  BlockCount'
  BY <1>10 DEF NativeClose, NativeClosed, BlockCount, Kept, MayCall, One, Registered,
       Deliveries, Cleaned, Birth, Callers, Shape
<1>11. ASSUME NEW c \in Clients, CloseReturn(c)
      PROVE  BlockCount'
  BY <1>11 DEF CloseReturn, BlockCount, Kept, MayCall, One, Registered, Deliveries, Cleaned,
       Birth, Callers, Shape
<1>12. ASSUME NEW o \in Ops, NativeStart(o)
      PROVE  BlockCount'
  BY <1>12 DEF NativeStart, Finish, Over, BlockCount, Kept, MayCall, One, Registered,
       Deliveries, Cleaned, Birth, Callers, Shape
<1>13. ASSUME NEW o \in Ops, NativeFinish(o)
      PROVE  BlockCount'
  BY <1>13 DEF NativeFinish, Finish, BlockCount, Kept, MayCall, One, Registered, Deliveries,
       Cleaned, Birth, Callers, Shape
<1>14. ASSUME NEW o \in Ops, NativePart(o)
      PROVE  BlockCount'
  BY <1>14 DEF NativePart, BlockCount, Kept, MayCall, One, Registered, Deliveries, Cleaned,
       Birth, Callers, Shape
<1>15. ASSUME NEW x \in Callbacks, TrampolineBegin(x)
      PROVE  BlockCount'
  <2>1. x \in registry /\ calling' \in [Callbacks -> {"none", "part", "last"}]
    BY <1>15 DEF TrampolineBegin, Registered, Shape
  <2>2. blocks' = blocks
    BY <1>15, <2>1 DEF TrampolineBegin, BlockCount
  <2>. QED
    BY <1>15, <2>2 DEF TrampolineBegin, BlockCount, Kept, MayCall
<1>16. ASSUME NEW x \in Callbacks, TrampolineEnd(x)
      PROVE  BlockCount'
  BY <1>16 DEF TrampolineEnd, Unregister, BlockCount, Kept, MayCall, One, Registered,
       Deliveries, Cleaned, Birth, Callers, Shape
<1>17. CASE UNCHANGED vars
  BY <1>17 DEF vars, BlockCount, Kept, MayCall, One, Registered, Deliveries, Cleaned, Birth,
       Callers, Shape
<1>. QED
  BY <1>1, <1>2, <1>3, <1>4, <1>5, <1>6, <1>7, <1>8, <1>9, <1>10,
     <1>11, <1>12, <1>13, <1>14, <1>15, <1>16, <1>17
     DEF Next, Creation, CallStep, NativeStep, Trampoline

-----------------------------------------------------------------------------
(* The inductive invariant holds of every execution. *)
THEOREM ChannelInvariant == Spec => []IOInv
<1>1. Init => IOInv
  <2>. SUFFICES ASSUME Init PROVE IOInv
    OBVIOUS
  <2>1. Shape
    BY ChannelAssumption DEF Init, Shape, NoneDue, NoCall
  <2>2. Registered /\ Callers /\ Birth /\ Deliveries
    BY NameFacts DEF Init, Registered, Callers, Birth, Deliveries, Cleaned
  <2>3. RefCount /\ BlockCount
    BY NameFacts DEF Init, RefCount, BlockCount, Kept, MayCall, One
  <2>. QED
    BY <2>1, <2>2, <2>3 DEF IOInv
<1>2. IOInv /\ [Next]_vars => IOInv'
  BY ShapeStep, RefCountStep, BlockCountStep, RegisteredStep, CallersStep, BirthStep,
     DeliveriesStep DEF IOInv
<1>. QED
  BY <1>1, <1>2, PTL DEF Spec

(* A trampoline always finds its callback, which is registered, and referenced,   *)
(* no longer than it is needed.                                                   *)
THEOREM ChannelRegistryTrue == Spec => []RegistryTrue
<1>1. IOInv => RegistryTrue
  <2>. SUFFICES ASSUME IOInv PROVE RegistryTrue
    OBVIOUS
  <2>1. refs \in [Callbacks -> Nat] /\ blocks \in [Callbacks -> 0..2]
    BY DEF IOInv, RefCount, BlockCount, One
  <2>2. TypeOK
    BY <2>1 DEF IOInv, Shape, TypeOK
  <2>3. \A x \in Callbacks : refs[x] = 2 * One(x \in registry) + One(x = Cleanup /\ held)
    BY DEF IOInv, RefCount
  <2>. QED
    BY <2>2, <2>3 DEF IOInv, Registered, RegistryTrue
<1>. QED
  BY <1>1, ChannelInvariant, PTL

(* No block that libdispatch may still call is freed, and a channel that could    *)
(* not be created leaves none behind.                                             *)
THEOREM ChannelBlockRefs == Spec => []BlockRefs
<1>1. IOInv => BlockRefs
  <2>. SUFFICES ASSUME IOInv, NEW x \in Callbacks
                PROVE  /\ MayCall(x) => blocks[x] > 0
                       /\ wrapper = "failed" => blocks[x] = 0
    BY DEF BlockRefs
  <2>1. blocks[x] = One(Kept(x)) + One(MayCall(x))
    BY DEF IOInv, BlockCount
  <2>2. wrapper = "failed" => ~Kept(x) /\ ~MayCall(x)
    BY NameFacts DEF IOInv, Birth, Kept, MayCall
  <2>. QED
    BY <2>1, <2>2 DEF One
<1>. QED
  BY <1>1, ChannelInvariant, PTL

=============================================================================
