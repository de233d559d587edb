-------------------------- MODULE GroupWork_proofs --------------------------
(***************************************************************************)
(* Proofs about GroupWork, for every finite set of threads, tasks and      *)
(* marks, any notifications, any capacity of the gate and any pool.        *)
(***************************************************************************)
EXTENDS GroupWork, FiniteSetTheorems, TLAPS

(* The ranges of member and call. *)
Stages == {"none", "given", "queued", "entered", "running", "asking", "inside", "ready",
           "worked", "provided", "leaving", "left"}
CallType == [op : {"none", "async", "notify", "asleep", "granted", "refused"},
             x : Members \cup Notes \cup {Nothing}, seconds : Int,
             until : {"none", "ever", "deadline"}, for : SUBSET Members]

(* Marks do not do what tasks do.                                                 *)
Kinds ==
    /\ \A t \in Tasks : member[t] # "entered"
    /\ \A m \in Marks : member[m] \in {"none", "entered", "left"}

(* A submission or notification under way has one caller.                         *)
CallsNamed ==
    \A c \in Clients :
        /\ call[c].op = "async" => call[c].x \in Tasks /\ member[call[c].x] = "given"
        /\ call[c].op = "notify" => call[c].x \in Notes /\ note[call[c].x] = "given"
        /\ call[c].op \in {"async", "notify"} =>
              \A d \in Clients : call[d].op = call[c].op /\ call[d].x = call[c].x => d = c

(* A task has a wait() under way exactly while it asks for a semaphore.           *)
Waits ==
    \A t \in Tasks :
        /\ member[t] = "asking" <=> wait[t].at # "none"
        /\ wait[t].at # "none" => wait[t].sem \in {Gate, Latch}
        /\ wait[t].at = "none" => wait[t] = Sem!NoWait

(* The counts that CountsKept is about, of the group and of references.           *)
CountRight == count = Cardinality(Inside)
RefsRight ==
    /\ \A t \in Tasks : refs[t] = IF member[t] \in {"none", "leaving", "left"} THEN 0 ELSE 1
    /\ \A n \in Notes : refs[n] = IF note[n] \in {"none", "done"} THEN 0 ELSE 1

(* The capacity of the gate is accounted for by its value, by those it has let in *)
(* and by those who sleep.                                                        *)
GateAccount == value[Gate] + Cardinality(Insiders) + Cardinality(Sem!Sleepers(Gate)) = Capacity

(* Whom a wait or a notification is for has entered, and, once the count has been *)
(* zero in the meantime, left for good.                                           *)
Expecting ==
    /\ \A n \in Notes :
        /\ \A m \in expected[n] : member[m] \notin {"none", "given"}
        /\ note[n] \in {"queued", "running"} => \A m \in expected[n] : member[m] = "left"
    /\ \A c \in Clients :
        /\ \A m \in call[c].for : member[m] \notin {"none", "given"}
        /\ call[c].op = "granted" => \A m \in call[c].for : member[m] = "left"

(* The inductive invariant. *)
GroupInv == CountsKept /\ Kinds /\ CallsNamed /\ Waits /\ GateAccount /\ Expecting

-----------------------------------------------------------------------------
(* No name stands for two things, and what is counted is finite. *)
LEMMA NameFacts ==
    /\ Members = Tasks \cup Marks /\ \A x \in Tasks : x \notin Marks /\ x \notin Notes
    /\ \A x \in Members \cup Notes : x # Nothing
    /\ Gate # Latch /\ Nothing \notin {Gate, Latch}
    /\ NoCall.op = "none" /\ NoCall.x = Nothing /\ NoCall.seconds = 0
    /\ NoCall.until = "none" /\ NoCall.for = {}
    /\ Sem!NoWait.at = "none" /\ Sem!NoWait.sem = Nothing /\ Sem!NoWait.timed = FALSE
    /\ IsFiniteSet(Members) /\ IsFiniteSet(Tasks)
    /\ Capacity \in Nat \ {0}
  <1>1. IsFiniteSet(Tasks)
    BY GroupAssumption, FS_Subset DEF Members
  <1>. QED
    BY <1>1, GroupAssumption DEF Members, NoCall, NewCall, Sem!NoWait

(* What the count of a finite set becomes when one element comes ... *)
LEMMA OneMore ==
    ASSUME NEW S, IsFiniteSet(S), NEW x, x \notin S
    PROVE  Cardinality(S \cup {x}) = Cardinality(S) + 1
  BY FS_AddElement

(* ... and when one goes. *)
LEMMA OneLess ==
    ASSUME NEW S, IsFiniteSet(S), NEW x \in S
    PROVE  /\ Cardinality(S \ {x}) = Cardinality(S) - 1
           /\ Cardinality(S) \in Nat \ {0}
  <1>1. Cardinality(S \ {x}) = Cardinality(S) - 1
    BY FS_RemoveElement
  <1>2. Cardinality(S) \in Nat /\ Cardinality(S) # 0
    BY FS_CardinalityType, FS_EmptySet
  <1>. QED
    BY <1>1, <1>2

(* The sets whose counts matter are finite. *)
LEMMA CountsFinite ==
    /\ IsFiniteSet(Inside) /\ Cardinality(Inside) \in Nat
    /\ IsFiniteSet(Insiders) /\ Cardinality(Insiders) \in Nat
    /\ \A s : IsFiniteSet(Sem!Sleepers(s)) /\ Cardinality(Sem!Sleepers(s)) \in Nat
  <1>1. Inside \in SUBSET Members /\ Insiders \in SUBSET Tasks
    BY DEF Inside, Insiders
  <1>2. \A s : Sem!Sleepers(s) \in SUBSET Tasks
    BY DEF Sem!Sleepers
  <1>. QED
    BY <1>1, <1>2, NameFacts, FS_Subset, FS_CardinalityType

-----------------------------------------------------------------------------
(* The operations of Semaphore. *)

(* Semaphore counts as this module does. *)
LEMMA SameCount == \A S : Sem!Cardinality(S) = Cardinality(S)
  BY DEF Sem!Cardinality, Cardinality

(* wait() takes one from the value, and sleeps if there was none to take.         *)
LEMMA SemEnter ==
    ASSUME Sem!SemTypeOK, Sem!NoLostSignal, NEW t \in Tasks, NEW s \in {Gate, Latch},
           NEW timed \in BOOLEAN, Sem!WaitEnter(t, s, timed)
    PROVE  /\ Sem!SemTypeOK' /\ Sem!NoLostSignal'
           /\ value'[s] = value[s] - 1
           /\ \A r \in {Gate, Latch} \ {s} : value'[r] = value[r]
           /\ wait'[t].sem = s /\ wait'[t].at = IF value[s] > 0 THEN "granted" ELSE "asleep"
           /\ \A u \in Tasks \ {t} : wait'[u] = wait[u]
           /\ t \notin Sem!Sleepers(s)
           /\ Sem!Sleepers(s)' = IF value[s] > 0 THEN Sem!Sleepers(s) ELSE Sem!Sleepers(s) \cup {t}
           /\ \A r \in {Gate, Latch} \ {s} : Sem!Sleepers(r)' = Sem!Sleepers(r)
<1>. USE NameFacts, SameCount
<1>1. /\ Sem!SemTypeOK'
      /\ value'[s] = value[s] - 1
      /\ \A r \in {Gate, Latch} \ {s} : value'[r] = value[r]
      /\ wait'[t].sem = s /\ wait'[t].at = IF value[s] > 0 THEN "granted" ELSE "asleep"
      /\ \A u \in Tasks \ {t} : wait'[u] = wait[u]
  BY DEF Sem!WaitEnter, Sem!SemTypeOK
<1>2. wait[t].at = "none"
  BY DEF Sem!WaitEnter
<1>3. /\ t \notin Sem!Sleepers(s)
      /\ Sem!Sleepers(s)' = IF value[s] > 0 THEN Sem!Sleepers(s) ELSE Sem!Sleepers(s) \cup {t}
      /\ \A r \in {Gate, Latch} \ {s} : Sem!Sleepers(r)' = Sem!Sleepers(r)
  BY <1>1, <1>2 DEF Sem!Sleepers
<1>4. \A r \in {Gate, Latch} :
         Cardinality(Sem!Sleepers(r)') = IF value'[r] < 0 THEN -value'[r] ELSE 0
  <2>1. value[s] \in Int
    BY DEF Sem!SemTypeOK
  <2>2. Cardinality(Sem!Sleepers(s) \cup {t}) = Cardinality(Sem!Sleepers(s)) + 1
    BY <1>3, OneMore, CountsFinite
  <2>3. \A r \in {Gate, Latch} :
           Cardinality(Sem!Sleepers(r)) = IF value[r] < 0 THEN -value[r] ELSE 0
    BY DEF Sem!NoLostSignal
  <2>4. Cardinality(Sem!Sleepers(s)') = IF value'[s] < 0 THEN -value'[s] ELSE 0
    <3>1. CASE value[s] > 0
      BY <1>1, <1>3, <2>1, <2>3, <3>1
    <3>2. CASE ~(value[s] > 0)
      BY <1>1, <1>3, <2>1, <2>2, <2>3, <3>2
    <3>. QED
      BY <3>1, <3>2
  <2>5. ASSUME NEW r \in {Gate, Latch} \ {s}
        PROVE  Cardinality(Sem!Sleepers(r)') = IF value'[r] < 0 THEN -value'[r] ELSE 0
    BY <1>1, <1>3, <2>3
  <2>. QED
    BY <2>4, <2>5
<1>. QED
  BY <1>1, <1>3, <1>4 DEF Sem!NoLostSignal

(* A wait() that times out gives back what it took.                               *)
LEMMA SemTimeOut ==
    ASSUME Sem!SemTypeOK, Sem!NoLostSignal, NEW t \in Tasks, Sem!TimeOut(t),
           NEW s \in {Gate, Latch}, wait[t].sem = s
    PROVE  /\ Sem!SemTypeOK' /\ Sem!NoLostSignal'
           /\ value'[s] = value[s] + 1
           /\ \A r \in {Gate, Latch} \ {s} : value'[r] = value[r]
           /\ wait'[t].sem = s /\ wait[t].at = "asleep" /\ wait'[t].at = "refused"
           /\ \A u \in Tasks \ {t} : wait'[u] = wait[u]
           /\ t \in Sem!Sleepers(s) /\ Sem!Sleepers(s)' = Sem!Sleepers(s) \ {t}
           /\ \A r \in {Gate, Latch} \ {s} : Sem!Sleepers(r)' = Sem!Sleepers(r)
<1>. USE NameFacts, SameCount
<1>1. /\ Sem!SemTypeOK'
      /\ value'[s] = value[s] + 1
      /\ \A r \in {Gate, Latch} \ {s} : value'[r] = value[r]
      /\ wait'[t].sem = s /\ wait[t].at = "asleep" /\ wait'[t].at = "refused"
      /\ \A u \in Tasks \ {t} : wait'[u] = wait[u]
  BY DEF Sem!TimeOut, Sem!SemTypeOK
<1>2. /\ t \in Sem!Sleepers(s) /\ Sem!Sleepers(s)' = Sem!Sleepers(s) \ {t}
      /\ \A r \in {Gate, Latch} \ {s} : Sem!Sleepers(r)' = Sem!Sleepers(r)
  BY <1>1 DEF Sem!Sleepers
<1>3. \A r \in {Gate, Latch} :
         Cardinality(Sem!Sleepers(r)') = IF value'[r] < 0 THEN -value'[r] ELSE 0
  <2>1. value[s] \in Int
    BY DEF Sem!SemTypeOK
  <2>2. /\ Cardinality(Sem!Sleepers(s) \ {t}) = Cardinality(Sem!Sleepers(s)) - 1
        /\ Cardinality(Sem!Sleepers(s)) \in Nat \ {0}
    BY <1>2, OneLess, CountsFinite
  <2>3. \A r \in {Gate, Latch} :
           Cardinality(Sem!Sleepers(r)) = IF value[r] < 0 THEN -value[r] ELSE 0
    BY DEF Sem!NoLostSignal
  <2>4. Cardinality(Sem!Sleepers(s)') = IF value'[s] < 0 THEN -value'[s] ELSE 0
    BY <1>1, <1>2, <2>1, <2>2, <2>3
  <2>5. ASSUME NEW r \in {Gate, Latch} \ {s}
        PROVE  Cardinality(Sem!Sleepers(r)') = IF value'[r] < 0 THEN -value'[r] ELSE 0
    BY <1>1, <1>2, <2>3
  <2>. QED
    BY <2>4, <2>5
<1>. QED
  BY <1>1, <1>2, <1>3 DEF Sem!NoLostSignal

(* A signal adds one to the value, and lets one sleeper in if there are any.      *)
LEMMA SemSignal ==
    ASSUME Sem!SemTypeOK, Sem!NoLostSignal, NEW s \in {Gate, Latch}, Sem!Signal(s)
    PROVE  /\ Sem!SemTypeOK' /\ Sem!NoLostSignal'
           /\ value'[s] = value[s] + 1
           /\ \A r \in {Gate, Latch} \ {s} : value'[r] = value[r]
           /\ \/ wait' = wait
              \/ \E w \in Sem!Sleepers(s) :
                    /\ wait'[w].sem = s /\ wait'[w].at = "granted"
                    /\ \A u \in Tasks \ {w} : wait'[u] = wait[u]
                    /\ Sem!Sleepers(s)' = Sem!Sleepers(s) \ {w}
           /\ \A r \in {Gate, Latch} \ {s} : Sem!Sleepers(r)' = Sem!Sleepers(r)
<1>. USE NameFacts, SameCount
<1>0. value[s] \in Int
  BY DEF Sem!SemTypeOK
<1>1. /\ value' \in [{Gate, Latch} -> Int]
      /\ value'[s] = value[s] + 1
      /\ \A r \in {Gate, Latch} \ {s} : value'[r] = value[r]
  BY DEF Sem!Signal, Sem!SemTypeOK
<1>2. CASE value[s] >= 0
  <2>1. wait' = wait
    BY <1>0, <1>2 DEF Sem!Signal
  <2>2. \A r : Sem!Sleepers(r)' = Sem!Sleepers(r)
    BY <2>1 DEF Sem!Sleepers
  <2>3. Sem!NoLostSignal'
    BY <1>0, <1>1, <1>2, <2>2 DEF Sem!NoLostSignal
  <2>. QED
    BY <1>1, <2>1, <2>2, <2>3 DEF Sem!SemTypeOK
<1>3. CASE value[s] < 0
  <2>1. PICK w \in Sem!Sleepers(s) : wait' = [wait EXCEPT ![w].at = "granted"]
    BY <1>3 DEF Sem!Signal
  <2>2. w \in Tasks /\ wait[w].sem = s /\ wait[w].at = "asleep"
    BY DEF Sem!Sleepers
  <2>3. /\ Sem!SemTypeOK'
        /\ wait'[w].sem = s /\ wait'[w].at = "granted"
        /\ \A u \in Tasks \ {w} : wait'[u] = wait[u]
    BY <1>1, <2>1, <2>2 DEF Sem!SemTypeOK
  <2>4. /\ Sem!Sleepers(s)' = Sem!Sleepers(s) \ {w}
        /\ \A r \in {Gate, Latch} \ {s} : Sem!Sleepers(r)' = Sem!Sleepers(r)
    BY <2>2, <2>3 DEF Sem!Sleepers
  <2>5. /\ Cardinality(Sem!Sleepers(s) \ {w}) = Cardinality(Sem!Sleepers(s)) - 1
        /\ Cardinality(Sem!Sleepers(s)) \in Nat \ {0}
    BY OneLess, CountsFinite
  <2>6. \A r \in {Gate, Latch} :
           Cardinality(Sem!Sleepers(r)') = IF value'[r] < 0 THEN -value'[r] ELSE 0
    <3>1. \A r \in {Gate, Latch} :
             Cardinality(Sem!Sleepers(r)) = IF value[r] < 0 THEN -value[r] ELSE 0
      BY DEF Sem!NoLostSignal
    <3>2. Cardinality(Sem!Sleepers(s)') = IF value'[s] < 0 THEN -value'[s] ELSE 0
      BY <1>0, <1>1, <1>3, <2>4, <2>5, <3>1
    <3>3. ASSUME NEW r \in {Gate, Latch} \ {s}
          PROVE  Cardinality(Sem!Sleepers(r)') = IF value'[r] < 0 THEN -value'[r] ELSE 0
      BY <1>1, <2>4, <3>1
    <3>. QED
      BY <3>2, <3>3
  <2>. QED
    BY <1>1, <2>3, <2>4, <2>6 DEF Sem!NoLostSignal
<1>. QED
  BY <1>0, <1>2, <1>3

(* The return of a wait() leaves the value alone, and was asleep for nobody.      *)
LEMMA SemReturn ==
    ASSUME Sem!SemTypeOK, Sem!NoLostSignal, NEW t \in Tasks, Sem!WaitReturn(t)
    PROVE  /\ Sem!SemTypeOK' /\ Sem!NoLostSignal'
           /\ value' = value
           /\ wait'[t] = Sem!NoWait /\ \A u \in Tasks \ {t} : wait'[u] = wait[u]
           /\ wait[t].at \in {"granted", "refused"}
           /\ \A r : Sem!Sleepers(r)' = Sem!Sleepers(r)
<1>. USE NameFacts, SameCount
<1>1. Sem!NoWait \in [at : {"none", "asleep", "granted", "refused"},
                      sem : {Gate, Latch} \cup {Nothing}, timed : BOOLEAN]
  BY DEF Sem!NoWait
<1>2. /\ value' = value /\ Sem!SemTypeOK'
      /\ wait'[t] = Sem!NoWait /\ \A u \in Tasks \ {t} : wait'[u] = wait[u]
      /\ wait[t].at \in {"granted", "refused"}
  BY <1>1 DEF Sem!WaitReturn, Sem!SemTypeOK
<1>3. \A r : Sem!Sleepers(r)' = Sem!Sleepers(r)
  BY <1>2 DEF Sem!Sleepers
<1>. QED
  BY <1>2, <1>3 DEF Sem!NoLostSignal

-----------------------------------------------------------------------------
(* What a step does to members and calls. *)

(* A member that advances changes the count of those inside only by entering.     *)
LEMMA Advanced ==
    ASSUME TypeOK, NEW x \in Members, NEW l \in Stages, Advance(x, l)
    PROVE  /\ member' \in [Members -> Stages]
           /\ member'[x] = l /\ \A y \in Members \ {x} : member'[y] = member[y]
           /\ l \notin {"none", "given", "left"} => Inside' = Inside \cup {x}
           /\ l = "given" /\ member[x] = "none" => Inside' = Inside
<1>1. /\ member' \in [Members -> Stages]
      /\ member'[x] = l /\ \A y \in Members \ {x} : member'[y] = member[y]
  BY DEF TypeOK, Stages, Advance
<1>. QED
  BY <1>1 DEF Inside

(* A call that begins or ends leaves the other calls alone. *)
LEMMA Called ==
    ASSUME TypeOK, NEW c \in Clients, NEW new \in CallType, call' = [call EXCEPT ![c] = new]
    PROVE  /\ call' \in [Clients -> CallType]
           /\ call'[c] = new /\ \A d \in Clients \ {c} : call'[d] = call[d]
<1>1. call \in [Clients -> CallType]
  BY DEF TypeOK, CallType
<1>. QED
  BY <1>1

(* The records of the calls that may begin. *)
LEMMA NewCalls ==
    ASSUME NEW op \in {"none", "async", "notify"}, NEW x \in Members \cup Notes \cup {Nothing}
    PROVE  /\ NewCall(op, x) \in CallType
           /\ NewCall(op, x).op = op /\ NewCall(op, x).x = x /\ NewCall(op, x).for = {}
  BY DEF NewCall, CallType

(* A step that lets no task through the gate, and leaves the semaphores alone,    *)
(* keeps their accounts.                                                          *)
LEMMA SemUntouched ==
    ASSUME Sem!NoLostSignal, GateAccount, UNCHANGED <<value, wait>>,
           \A t \in Tasks : member'[t] = "inside" <=> member[t] = "inside"
    PROVE  Sem!NoLostSignal' /\ GateAccount'
<1>1. \A s : Sem!Sleepers(s)' = Sem!Sleepers(s)
  BY DEF Sem!Sleepers
<1>2. Insiders' = Insiders
  BY DEF Insiders
<1>. QED
  BY <1>1, <1>2 DEF Sem!NoLostSignal, GateAccount

(* When a member leaves, those who wait for the group learn it if it was the last.*)
LEMMA LeaveEffect ==
    ASSUME GroupInv, NEW x \in Inside, NativeLeave(x)
    PROVE  /\ member'[x] = "left" /\ \A y \in Members \ {x} : member'[y] = member[y]
           /\ Inside' = Inside \ {x}
           /\ count' = Cardinality(Inside') /\ count' \in Nat
           /\ count = 1 => Inside' = {}
           /\ \A c \in Clients :
                /\ call'[c].x = call[c].x /\ call'[c].for = call[c].for
                /\ call'[c].op = call[c].op
                      \/ (count = 1 /\ call[c].op = "asleep" /\ call'[c].op = "granted")
           /\ \A n \in Notes :
                note'[n] = note[n] \/ (count = 1 /\ note[n] = "registered" /\ note'[n] = "queued")
           /\ member' \in [Members -> Stages]
           /\ note' \in [Notes -> {"none", "given", "registered", "queued", "running", "done"}]
           /\ call' \in [Clients -> CallType]
<1>0. TypeOK /\ count = Cardinality(Inside)
  BY DEF GroupInv, CountsKept
<1>1. /\ member'[x] = "left" /\ \A y \in Members \ {x} : member'[y] = member[y]
      /\ member' \in [Members -> Stages]
  <2>1. x \in Members
    BY DEF Inside
  <2>. QED
    BY <1>0, <2>1 DEF NativeLeave, Advance, TypeOK, Stages
<1>2. Inside' = Inside \ {x}
  BY <1>1 DEF Inside
<1>3. count' = Cardinality(Inside') /\ count' \in Nat
  BY <1>0, <1>2, OneLess, CountsFinite DEF NativeLeave
<1>4. count = 1 => Inside' = {}
  <2>1. Cardinality(Inside \ {x}) = Cardinality(Inside) - 1
    BY OneLess, CountsFinite
  <2>2. IsFiniteSet(Inside \ {x})
    BY CountsFinite, FS_RemoveElement
  <2>. QED
    BY <1>0, <1>2, <2>1, <2>2, FS_EmptySet
<1>5. /\ note' \in [Notes -> {"none", "given", "registered", "queued", "running", "done"}]
      /\ \A n \in Notes :
            note'[n] = note[n] \/ (count = 1 /\ note[n] = "registered" /\ note'[n] = "queued")
  BY <1>0 DEF NativeLeave, TypeOK
<1>6. /\ call' \in [Clients -> CallType]
      /\ \A c \in Clients :
            /\ call'[c].x = call[c].x /\ call'[c].for = call[c].for
            /\ call'[c].op = call[c].op
                  \/ (count = 1 /\ call[c].op = "asleep" /\ call'[c].op = "granted")
  <2>1. call \in [Clients -> CallType]
    BY <1>0 DEF TypeOK, CallType
  <2>2. \A c \in Clients : call[c] \in CallType /\ [call[c] EXCEPT !.op = "granted"] \in CallType
    BY <2>1 DEF CallType
  <2>3. call' \in [Clients -> CallType]
    BY <2>2 DEF NativeLeave
  <2>4. ASSUME NEW c \in Clients
        PROVE  /\ call'[c].x = call[c].x /\ call'[c].for = call[c].for
               /\ call'[c].op = call[c].op
                     \/ (count = 1 /\ call[c].op = "asleep" /\ call'[c].op = "granted")
    BY <2>2 DEF NativeLeave, CallType
  <2>. QED
    BY <2>3, <2>4
<1>. QED
  BY <1>1, <1>2, <1>3, <1>4, <1>5, <1>6

(* A step of a client that moves only members nobody expects, and has no wait     *)
(* under way, keeps Expecting.                                                    *)
LEMMA ExpectingKept ==
    ASSUME TypeOK, Expecting, NEW c \in Clients, UNCHANGED <<note, expected>>,
           call'[c].for = {}, \A d \in Clients \ {c} : call'[d] = call[d],
           \A y \in Members :
              member'[y] = member[y] \/ (member[y] = "none" /\ member'[y] = "given")
                                     \/ (member[y] = "given" /\ member'[y] = "queued")
    PROVE  Expecting'
<1>1. /\ \A n \in Notes : expected[n] \in SUBSET Members
      /\ \A d \in Clients : call[d].for \in SUBSET Members
  BY DEF TypeOK
<1>2. \A S \in SUBSET Members :
         (\A y \in S : member[y] \notin {"none", "given"}) => \A y \in S : member'[y] = member[y]
  OBVIOUS
<1>3. \A n \in Notes : \A y \in expected[n] : member'[y] = member[y]
  BY <1>1, <1>2 DEF Expecting
<1>4. \A d \in Clients \ {c} : \A y \in call[d].for : member'[y] = member[y]
  BY <1>1, <1>2 DEF Expecting
<1>. QED
  BY <1>3, <1>4 DEF Expecting

(* Every step keeps the types. *)
LEMMA TypeStep ==
    ASSUME GroupInv, [Next]_vars
    PROVE  TypeOK'
<1>0. CountsKept /\ Kinds /\ CallsNamed /\ Waits /\ GateAccount /\ Expecting
  BY DEF GroupInv
<1>00. TypeOK /\ Sem!NoLostSignal /\ Sem!SemTypeOK
  BY <1>0 DEF CountsKept, TypeOK
<1>. USE <1>0, <1>00, NameFacts DEF groupVars
<1>1. ASSUME NEW c \in Clients, NEW t \in Tasks, RunAsync(c, t)
      PROVE  TypeOK'
  <2>1. member' \in [Members -> Stages]
    BY <1>1, Advanced DEF RunAsync, Stages, PastGate
  <2>2. call' \in [Clients -> CallType]
    BY <1>1, NewCalls, Called DEF RunAsync, Begun
  <2>3. refs' \in [Tasks \cup Notes -> Nat]
    BY <1>1 DEF RunAsync, TypeOK
  <2>. QED
    BY <1>1, <2>1, <2>2, <2>3 DEF RunAsync, TypeOK, Stages, CallType, Sem!SemTypeOK
<1>2. ASSUME NEW c \in Clients, NEW m \in Marks, Enter(c, m)
      PROVE  TypeOK'
  <2>1. member' \in [Members -> Stages]
    BY <1>2, Advanced DEF Enter, Stages, PastGate
  <2>2. count' \in Nat
    BY <1>2 DEF Enter, TypeOK
  <2>. QED
    BY <1>2, <2>1, <2>2 DEF Enter, TypeOK, Stages, CallType, Sem!SemTypeOK
<1>3. ASSUME NEW c \in Clients, NEW m \in Marks, Leave(c, m)
      PROVE  TypeOK'
  <2>1. m \in Inside
    BY <1>3 DEF Leave, Inside
  <2>2. member' \in [Members -> Stages] /\ call' \in [Clients -> CallType] /\ count' \in Nat
        /\ note' \in [Notes -> {"none", "given", "registered", "queued", "running", "done"}]
    BY <1>3, <2>1, LeaveEffect DEF Leave
  <2>. QED
    BY <1>3, <2>1, <2>2 DEF Leave, TypeOK, Stages, CallType, Sem!SemTypeOK
<1>4. ASSUME NEW c \in Clients, NEW n \in Notes, Notify(c, n)
      PROVE  TypeOK'
  <2>1. call' \in [Clients -> CallType]
    BY <1>4, NewCalls, Called DEF Notify, Begun
  <2>2. refs' \in [Tasks \cup Notes -> Nat]
    BY <1>4 DEF Notify, TypeOK
  <2>3. expected' \in [Notes -> SUBSET Members]
    BY <1>4 DEF Notify, Inside, TypeOK
  <2>. QED
    BY <1>4, <2>1, <2>2, <2>3 DEF Notify, TypeOK, Stages, CallType, Sem!SemTypeOK
<1>5. ASSUME NEW c \in Clients, NEW seconds \in {-1, 1}, StartWait(c, seconds)
      PROVE  TypeOK'
  <2>1. PICK op \in {"granted", "asleep"} :
           call' = [call EXCEPT ![c] = [op |-> op, x |-> Nothing, seconds |-> seconds,
                                        until |-> Timeout(seconds), for |-> Inside]]
    BY <1>5 DEF StartWait, Begun
  <2>2. [op |-> op, x |-> Nothing, seconds |-> seconds, until |-> Timeout(seconds),
         for |-> Inside] \in CallType
    BY DEF CallType, Timeout, Inside
  <2>3. call' \in [Clients -> CallType]
    BY <2>1, <2>2, Called
  <2>. QED
    BY <1>5, <2>3 DEF StartWait, TypeOK, Stages, CallType, Sem!SemTypeOK
<1>6. ASSUME NEW c \in Clients, NativeAsync(c)
      PROVE  TypeOK'
  <2>1. call[c].x \in Tasks
    BY <1>6 DEF NativeAsync, CallsNamed
  <2>2. member' \in [Members -> Stages]
    BY <1>6, <2>1, Advanced DEF NativeAsync, Stages
  <2>3. call' \in [Clients -> CallType]
    BY <1>6, NewCalls, Called DEF NativeAsync, Ended, NoCall
  <2>4. count' \in Nat
    BY <1>6 DEF NativeAsync, TypeOK
  <2>. QED
    BY <1>6, <2>1, <2>2, <2>3, <2>4 DEF NativeAsync, TypeOK, Stages, CallType, Sem!SemTypeOK
<1>7. ASSUME NEW c \in Clients, NativeNotify(c)
      PROVE  TypeOK'
  <2>1. call' \in [Clients -> CallType]
    BY <1>7, NewCalls, Called DEF NativeNotify, Ended, NoCall
  <2>. QED
    BY <1>7, <2>1 DEF NativeNotify, TypeOK, Stages, CallType, Sem!SemTypeOK
<1>8. ASSUME NEW c \in Clients, WaitTimeOut(c)
      PROVE  TypeOK'
  BY <1>8 DEF WaitTimeOut, TypeOK, Sem!SemTypeOK
<1>9. ASSUME NEW c \in Clients, WaitReturn(c)
      PROVE  TypeOK'
  <2>1. call' \in [Clients -> CallType]
    BY <1>9, NewCalls, Called DEF WaitReturn, Ended, NoCall
  <2>. QED
    BY <1>9, <2>1 DEF WaitReturn, TypeOK, Stages, CallType, Sem!SemTypeOK
<1>10. ASSUME NEW t \in Tasks, Begin(t)
      PROVE  TypeOK'
  BY <1>10 DEF Begin, Advance, PastGate, TypeOK, Sem!SemTypeOK
<1>11. ASSUME NEW t \in Tasks, NEW timed \in BOOLEAN, Ask(t, timed)
      PROVE  TypeOK'
  <2>1. member' \in [Members -> Stages]
    BY <1>11, Advanced DEF Ask, Stages, PastGate
  <2>2. PICK s \in {Gate, Latch}, b \in BOOLEAN : Sem!WaitEnter(t, s, b)
    BY <1>11 DEF Ask
  <2>3. Sem!SemTypeOK'
    BY <2>2, SemEnter
  <2>. QED
    BY <1>11, <2>1, <2>2, <2>3 DEF Ask, TypeOK, Stages
<1>12. ASSUME NEW t \in Tasks, AskTimeOut(t)
      PROVE  TypeOK'
  <2>1. wait[t].sem \in {Gate, Latch}
    BY <1>12 DEF AskTimeOut, Sem!TimeOut, Waits
  <2>2. Sem!SemTypeOK'
    BY <1>12, <2>1, SemTimeOut DEF AskTimeOut
  <2>. QED
    BY <1>12, <2>1, <2>2 DEF AskTimeOut, TypeOK
<1>13. ASSUME NEW t \in Tasks, Asked(t)
      PROVE  TypeOK'
  <2>1. member' \in [Members -> Stages]
    BY <1>13, Advanced DEF Asked, Stages, PastGate
  <2>2. Sem!SemTypeOK'
    BY <1>13, SemReturn DEF Asked
  <2>. QED
    BY <1>13, <2>1, <2>2 DEF Asked, TypeOK, Stages
<1>14. ASSUME NEW t \in Tasks, SignalGate(t)
      PROVE  TypeOK'
  <2>1. member' \in [Members -> Stages]
    BY <1>14, Advanced DEF SignalGate, Stages, PastGate
  <2>2. Sem!SemTypeOK'
    BY <1>14, SemSignal DEF SignalGate
  <2>. QED
    BY <1>14, <2>1, <2>2 DEF SignalGate, TypeOK, Stages
<1>15. ASSUME NEW t \in Tasks, Provide(t)
      PROVE  TypeOK'
  <2>1. member' \in [Members -> Stages]
    BY <1>15, Advanced DEF Provide, Stages, PastGate
  <2>2. Sem!SemTypeOK'
    BY <1>15, SemSignal DEF Provide
  <2>. QED
    BY <1>15, <2>1, <2>2 DEF Provide, TypeOK, Stages
<1>16. ASSUME NEW t \in Tasks, CallableEnd(t)
      PROVE  TypeOK'
  <2>1. member' \in [Members -> Stages]
    BY <1>16, Advanced DEF CallableEnd, Stages, PastGate
  <2>2. refs' \in [Tasks \cup Notes -> Nat]
    BY <1>16 DEF CallableEnd, TypeOK, CountsKept
  <2>. QED
    BY <1>16, <2>1, <2>2 DEF CallableEnd, TypeOK, Stages, CallType, Sem!SemTypeOK
<1>17. ASSUME NEW t \in Tasks, TaskLeave(t)
      PROVE  TypeOK'
  <2>1. t \in Inside
    BY <1>17 DEF TaskLeave, Inside
  <2>2. member' \in [Members -> Stages] /\ call' \in [Clients -> CallType] /\ count' \in Nat
        /\ note' \in [Notes -> {"none", "given", "registered", "queued", "running", "done"}]
    BY <1>17, <2>1, LeaveEffect DEF TaskLeave
  <2>. QED
    BY <1>17, <2>1, <2>2 DEF TaskLeave, TypeOK, Stages, CallType, Sem!SemTypeOK
<1>18. ASSUME NEW n \in Notes, NoteBegin(n)
      PROVE  TypeOK'
  BY <1>18 DEF NoteBegin, TypeOK, Sem!SemTypeOK
<1>19. ASSUME NEW n \in Notes, NoteEnd(n)
      PROVE  TypeOK'
  <2>1. refs' \in [Tasks \cup Notes -> Nat]
    BY <1>19 DEF NoteEnd, TypeOK, CountsKept
  <2>. QED
    BY <1>19, <2>1 DEF NoteEnd, TypeOK, Stages, CallType, Sem!SemTypeOK
<1>20. ASSUME Dealloc
      PROVE  TypeOK'
  BY <1>20 DEF Dealloc, TypeOK, Sem!SemTypeOK
<1>21. CASE UNCHANGED vars
  BY <1>21 DEF vars, groupVars, TypeOK, Sem!SemTypeOK
<1>. QED
  BY <1>1, <1>2, <1>3, <1>4, <1>5, <1>6, <1>7, <1>8, <1>9, <1>10, <1>11,
     <1>12, <1>13, <1>14, <1>15, <1>16, <1>17, <1>18, <1>19, <1>20, <1>21
     DEF Next, CallStep, TaskStep, NoteStep

(* Every step keeps tasks and marks apart. *)
LEMMA KindsStep ==
    ASSUME GroupInv, [Next]_vars
    PROVE  Kinds'
<1>0. CountsKept /\ Kinds /\ CallsNamed /\ Waits /\ GateAccount /\ Expecting
  BY DEF GroupInv
<1>00. TypeOK /\ Sem!NoLostSignal /\ Sem!SemTypeOK
  BY <1>0 DEF CountsKept, TypeOK
<1>. USE <1>0, <1>00, NameFacts DEF groupVars
<1>1. ASSUME NEW c \in Clients, NEW t \in Tasks, RunAsync(c, t)
      PROVE  Kinds'
  BY <1>1 DEF RunAsync, Begun, Advance, Kinds, TypeOK
<1>2. ASSUME NEW c \in Clients, NEW m \in Marks, Enter(c, m)
      PROVE  Kinds'
  BY <1>2 DEF Enter, Advance, Kinds, TypeOK
<1>3. ASSUME NEW c \in Clients, NEW m \in Marks, Leave(c, m)
      PROVE  Kinds'
  <2>1. m \in Inside
    BY <1>3 DEF Leave, Inside
  <2>. QED
    BY <1>3, <2>1, LeaveEffect DEF Leave, Kinds
<1>4. ASSUME NEW c \in Clients, NEW n \in Notes, Notify(c, n)
      PROVE  Kinds'
  BY <1>4 DEF Notify, Begun, Kinds, TypeOK
<1>5. ASSUME NEW c \in Clients, NEW seconds \in {-1, 1}, StartWait(c, seconds)
      PROVE  Kinds'
  BY <1>5 DEF StartWait, Begun, Timeout, Kinds, TypeOK
<1>6. ASSUME NEW c \in Clients, NativeAsync(c)
      PROVE  Kinds'
  <2>1. call[c].x \in Tasks
    BY <1>6 DEF NativeAsync, CallsNamed
  <2>2. member'[call[c].x] = "queued" /\ \A y \in Members \ {call[c].x} : member'[y] = member[y]
    BY <1>6, <2>1, Advanced DEF NativeAsync, Stages
  <2>. QED
    BY <1>6, <2>1, <2>2 DEF NativeAsync, Kinds
<1>7. ASSUME NEW c \in Clients, NativeNotify(c)
      PROVE  Kinds'
  BY <1>7 DEF NativeNotify, Ended, Kinds, TypeOK
<1>8. ASSUME NEW c \in Clients, WaitTimeOut(c)
      PROVE  Kinds'
  BY <1>8 DEF WaitTimeOut, Kinds, TypeOK
<1>9. ASSUME NEW c \in Clients, WaitReturn(c)
      PROVE  Kinds'
  BY <1>9 DEF WaitReturn, Ended, Kinds, TypeOK
<1>10. ASSUME NEW t \in Tasks, Begin(t)
      PROVE  Kinds'
  BY <1>10 DEF Begin, Advance, PastGate, Kinds, TypeOK
<1>11. ASSUME NEW t \in Tasks, NEW timed \in BOOLEAN, Ask(t, timed)
      PROVE  Kinds'
  BY <1>11 DEF Ask, Advance, Kinds, TypeOK
<1>12. ASSUME NEW t \in Tasks, AskTimeOut(t)
      PROVE  Kinds'
  BY <1>12 DEF AskTimeOut, Kinds, TypeOK
<1>13. ASSUME NEW t \in Tasks, Asked(t)
      PROVE  Kinds'
  BY <1>13 DEF Asked, Advance, PastGate, Kinds, TypeOK
<1>14. ASSUME NEW t \in Tasks, SignalGate(t)
      PROVE  Kinds'
  BY <1>14 DEF SignalGate, Advance, PastGate, Kinds, TypeOK
<1>15. ASSUME NEW t \in Tasks, Provide(t)
      PROVE  Kinds'
  BY <1>15 DEF Provide, Advance, Kinds, TypeOK
<1>16. ASSUME NEW t \in Tasks, CallableEnd(t)
      PROVE  Kinds'
  BY <1>16 DEF CallableEnd, Advance, Kinds, TypeOK
<1>17. ASSUME NEW t \in Tasks, TaskLeave(t)
      PROVE  Kinds'
  <2>1. t \in Inside
    BY <1>17 DEF TaskLeave, Inside
  <2>. QED
    BY <1>17, <2>1, LeaveEffect DEF TaskLeave, Kinds
<1>18. ASSUME NEW n \in Notes, NoteBegin(n)
      PROVE  Kinds'
  BY <1>18 DEF NoteBegin, Kinds, TypeOK
<1>19. ASSUME NEW n \in Notes, NoteEnd(n)
      PROVE  Kinds'
  BY <1>19 DEF NoteEnd, Kinds, TypeOK
<1>20. ASSUME Dealloc
      PROVE  Kinds'
  BY <1>20 DEF Dealloc, Kinds, TypeOK
<1>21. CASE UNCHANGED vars
  BY <1>21 DEF vars, groupVars, Kinds, TypeOK
<1>. QED
  BY <1>1, <1>2, <1>3, <1>4, <1>5, <1>6, <1>7, <1>8, <1>9, <1>10, <1>11,
     <1>12, <1>13, <1>14, <1>15, <1>16, <1>17, <1>18, <1>19, <1>20, <1>21
     DEF Next, CallStep, TaskStep, NoteStep

(* Every step keeps the calls as they should be. *)
LEMMA CallsStep ==
    ASSUME GroupInv, [Next]_vars
    PROVE  CallsNamed'
<1>0. CountsKept /\ Kinds /\ CallsNamed /\ Waits /\ GateAccount /\ Expecting
  BY DEF GroupInv
<1>00. TypeOK /\ Sem!NoLostSignal /\ Sem!SemTypeOK
  BY <1>0 DEF CountsKept, TypeOK
<1>. USE <1>0, <1>00, NameFacts DEF groupVars
<1>1. ASSUME NEW c \in Clients, NEW t \in Tasks, RunAsync(c, t)
      PROVE  CallsNamed'
  BY <1>1 DEF RunAsync, Begun, Advance, NoCall, NewCall, CallsNamed, TypeOK
<1>2. ASSUME NEW c \in Clients, NEW m \in Marks, Enter(c, m)
      PROVE  CallsNamed'
  BY <1>2 DEF Enter, Advance, NoCall, NewCall, CallsNamed, TypeOK
<1>3. ASSUME NEW c \in Clients, NEW m \in Marks, Leave(c, m)
      PROVE  CallsNamed'
  <2>1. m \in Inside
    BY <1>3 DEF Leave, Inside
  <2>. QED
    BY <1>3, <2>1, LeaveEffect DEF Leave, CallsNamed
<1>4. ASSUME NEW c \in Clients, NEW n \in Notes, Notify(c, n)
      PROVE  CallsNamed'
  BY <1>4 DEF Notify, Begun, NoCall, NewCall, CallsNamed, TypeOK
<1>5. ASSUME NEW c \in Clients, NEW seconds \in {-1, 1}, StartWait(c, seconds)
      PROVE  CallsNamed'
  BY <1>5 DEF StartWait, Begun, Timeout, NoCall, NewCall, CallsNamed, TypeOK
<1>6. ASSUME NEW c \in Clients, NativeAsync(c)
      PROVE  CallsNamed'
  BY <1>6 DEF NativeAsync, Ended, Advance, NoCall, NewCall, CallsNamed, TypeOK
<1>7. ASSUME NEW c \in Clients, NativeNotify(c)
      PROVE  CallsNamed'
  BY <1>7 DEF NativeNotify, Ended, NoCall, NewCall, CallsNamed, TypeOK
<1>8. ASSUME NEW c \in Clients, WaitTimeOut(c)
      PROVE  CallsNamed'
  BY <1>8 DEF WaitTimeOut, NoCall, NewCall, CallsNamed, TypeOK
<1>9. ASSUME NEW c \in Clients, WaitReturn(c)
      PROVE  CallsNamed'
  BY <1>9 DEF WaitReturn, Ended, NoCall, NewCall, CallsNamed, TypeOK
<1>10. ASSUME NEW t \in Tasks, Begin(t)
      PROVE  CallsNamed'
  BY <1>10 DEF Begin, Advance, PastGate, NoCall, NewCall, CallsNamed, TypeOK
<1>11. ASSUME NEW t \in Tasks, NEW timed \in BOOLEAN, Ask(t, timed)
      PROVE  CallsNamed'
  <2>1. member[t] # "given" /\ UNCHANGED <<call, note>>
    BY <1>11 DEF Ask
  <2>2. \A y \in Members \ {t} : member'[y] = member[y]
    BY <1>11, Advanced DEF Ask, Stages
  <2>. QED
    BY <2>1, <2>2 DEF CallsNamed
<1>12. ASSUME NEW t \in Tasks, AskTimeOut(t)
      PROVE  CallsNamed'
  BY <1>12 DEF AskTimeOut, NoCall, NewCall, CallsNamed, TypeOK
<1>13. ASSUME NEW t \in Tasks, Asked(t)
      PROVE  CallsNamed'
  BY <1>13 DEF Asked, Advance, PastGate, NoCall, NewCall, CallsNamed, TypeOK
<1>14. ASSUME NEW t \in Tasks, SignalGate(t)
      PROVE  CallsNamed'
  BY <1>14 DEF SignalGate, Advance, PastGate, NoCall, NewCall, CallsNamed, TypeOK
<1>15. ASSUME NEW t \in Tasks, Provide(t)
      PROVE  CallsNamed'
  BY <1>15 DEF Provide, Advance, NoCall, NewCall, CallsNamed, TypeOK
<1>16. ASSUME NEW t \in Tasks, CallableEnd(t)
      PROVE  CallsNamed'
  BY <1>16 DEF CallableEnd, Advance, NoCall, NewCall, CallsNamed, TypeOK
<1>17. ASSUME NEW t \in Tasks, TaskLeave(t)
      PROVE  CallsNamed'
  <2>1. t \in Inside
    BY <1>17 DEF TaskLeave, Inside
  <2>. QED
    BY <1>17, <2>1, LeaveEffect DEF TaskLeave, CallsNamed
<1>18. ASSUME NEW n \in Notes, NoteBegin(n)
      PROVE  CallsNamed'
  BY <1>18 DEF NoteBegin, NoCall, NewCall, CallsNamed, TypeOK
<1>19. ASSUME NEW n \in Notes, NoteEnd(n)
      PROVE  CallsNamed'
  BY <1>19 DEF NoteEnd, NoCall, NewCall, CallsNamed, TypeOK
<1>20. ASSUME Dealloc
      PROVE  CallsNamed'
  BY <1>20 DEF Dealloc, NoCall, NewCall, CallsNamed, TypeOK
<1>21. CASE UNCHANGED vars
  BY <1>21 DEF vars, groupVars, NoCall, NewCall, CallsNamed, TypeOK
<1>. QED
  BY <1>1, <1>2, <1>3, <1>4, <1>5, <1>6, <1>7, <1>8, <1>9, <1>10, <1>11,
     <1>12, <1>13, <1>14, <1>15, <1>16, <1>17, <1>18, <1>19, <1>20, <1>21
     DEF Next, CallStep, TaskStep, NoteStep

(* Every step keeps the waits of tasks as they should be. *)
LEMMA WaitsStep ==
    ASSUME GroupInv, [Next]_vars
    PROVE  Waits'
<1>0. CountsKept /\ Kinds /\ CallsNamed /\ Waits /\ GateAccount /\ Expecting
  BY DEF GroupInv
<1>00. TypeOK /\ Sem!NoLostSignal /\ Sem!SemTypeOK
  BY <1>0 DEF CountsKept, TypeOK
<1>. USE <1>0, <1>00, NameFacts DEF groupVars
<1>1. ASSUME NEW c \in Clients, NEW t \in Tasks, RunAsync(c, t)
      PROVE  Waits'
  BY <1>1 DEF RunAsync, Begun, Advance, Waits, TypeOK
<1>2. ASSUME NEW c \in Clients, NEW m \in Marks, Enter(c, m)
      PROVE  Waits'
  BY <1>2 DEF Enter, Advance, Waits, TypeOK
<1>3. ASSUME NEW c \in Clients, NEW m \in Marks, Leave(c, m)
      PROVE  Waits'
  <2>1. m \in Inside /\ m \notin Tasks
    BY <1>3 DEF Leave, Inside
  <2>2. \A y \in Members \ {m} : member'[y] = member[y]
    BY <1>3, <2>1, LeaveEffect DEF Leave
  <2>. QED
    BY <1>3, <2>1, <2>2 DEF Leave, Waits
<1>4. ASSUME NEW c \in Clients, NEW n \in Notes, Notify(c, n)
      PROVE  Waits'
  BY <1>4 DEF Notify, Begun, Waits, TypeOK
<1>5. ASSUME NEW c \in Clients, NEW seconds \in {-1, 1}, StartWait(c, seconds)
      PROVE  Waits'
  BY <1>5 DEF StartWait, Begun, Timeout, Waits, TypeOK
<1>6. ASSUME NEW c \in Clients, NativeAsync(c)
      PROVE  Waits'
  <2>1. call[c].x \in Tasks
    BY <1>6 DEF NativeAsync, CallsNamed
  <2>2. member'[call[c].x] = "queued" /\ \A y \in Members \ {call[c].x} : member'[y] = member[y]
    BY <1>6, <2>1, Advanced DEF NativeAsync, Stages
  <2>. QED
    BY <1>6, <2>1, <2>2 DEF NativeAsync, Waits, CallsNamed
<1>7. ASSUME NEW c \in Clients, NativeNotify(c)
      PROVE  Waits'
  BY <1>7 DEF NativeNotify, Ended, Waits, TypeOK
<1>8. ASSUME NEW c \in Clients, WaitTimeOut(c)
      PROVE  Waits'
  BY <1>8 DEF WaitTimeOut, Waits, TypeOK
<1>9. ASSUME NEW c \in Clients, WaitReturn(c)
      PROVE  Waits'
  BY <1>9 DEF WaitReturn, Ended, Waits, TypeOK
<1>10. ASSUME NEW t \in Tasks, Begin(t)
      PROVE  Waits'
  BY <1>10 DEF Begin, Advance, PastGate, Waits, TypeOK
<1>11. ASSUME NEW t \in Tasks, NEW timed \in BOOLEAN, Ask(t, timed)
      PROVE  Waits'
  <2>1. member'[t] = "asking" /\ \A y \in Members \ {t} : member'[y] = member[y]
    BY <1>11, Advanced DEF Ask, Stages
  <2>2. PICK s \in {Gate, Latch}, b \in BOOLEAN : Sem!WaitEnter(t, s, b)
    BY <1>11 DEF Ask
  <2>3. wait'[t].sem = s /\ wait'[t].at # "none" /\ \A u \in Tasks \ {t} : wait'[u] = wait[u]
    BY <2>2, SemEnter
  <2>. QED
    BY <1>11, <2>1, <2>2, <2>3 DEF Waits
<1>12. ASSUME NEW t \in Tasks, AskTimeOut(t)
      PROVE  Waits'
  <2>1. wait[t].sem \in {Gate, Latch}
    BY <1>12 DEF AskTimeOut, Sem!TimeOut, Waits
  <2>2. /\ wait'[t].sem = wait[t].sem /\ wait[t].at = "asleep" /\ wait'[t].at = "refused"
        /\ \A u \in Tasks \ {t} : wait'[u] = wait[u]
    BY <1>12, <2>1, SemTimeOut DEF AskTimeOut
  <2>. QED
    BY <1>12, <2>1, <2>2 DEF AskTimeOut, Waits
<1>13. ASSUME NEW t \in Tasks, Asked(t)
      PROVE  Waits'
  <2>1. wait'[t] = Sem!NoWait /\ \A u \in Tasks \ {t} : wait'[u] = wait[u]
    BY <1>13, SemReturn DEF Asked
  <2>2. member'[t] # "asking" /\ \A y \in Members \ {t} : member'[y] = member[y]
    BY <1>13, Advanced DEF Asked, Stages, PastGate
  <2>. QED
    BY <1>13, <2>1, <2>2 DEF Waits
<1>14. ASSUME NEW t \in Tasks, SignalGate(t)
      PROVE  Waits'
  <2>1. member[t] # "asking" /\ member'[t] # "asking"
        /\ \A y \in Members \ {t} : member'[y] = member[y]
    BY <1>14, Advanced DEF SignalGate, Stages, PastGate
  <2>2. CASE wait' = wait
    BY <2>1, <2>2 DEF Waits
  <2>3. ASSUME NEW w \in Sem!Sleepers(Gate), wait'[w].sem = Gate, wait'[w].at = "granted",
               \A u \in Tasks \ {w} : wait'[u] = wait[u]
        PROVE  Waits'
    <3>1. w \in Tasks /\ wait[w].at = "asleep"
      BY DEF Sem!Sleepers
    <3>. QED
      BY <2>1, <2>3, <3>1 DEF Waits
  <2>. QED
    BY <1>14, <2>2, <2>3, SemSignal DEF SignalGate
<1>15. ASSUME NEW t \in Tasks, Provide(t)
      PROVE  Waits'
  <2>1. member[t] # "asking" /\ member'[t] # "asking"
        /\ \A y \in Members \ {t} : member'[y] = member[y]
    BY <1>15, Advanced DEF Provide, Stages, PastGate
  <2>2. CASE wait' = wait
    BY <2>1, <2>2 DEF Waits
  <2>3. ASSUME NEW w \in Sem!Sleepers(Latch), wait'[w].sem = Latch, wait'[w].at = "granted",
               \A u \in Tasks \ {w} : wait'[u] = wait[u]
        PROVE  Waits'
    <3>1. w \in Tasks /\ wait[w].at = "asleep"
      BY DEF Sem!Sleepers
    <3>. QED
      BY <2>1, <2>3, <3>1 DEF Waits
  <2>. QED
    BY <1>15, <2>2, <2>3, SemSignal DEF Provide
<1>16. ASSUME NEW t \in Tasks, CallableEnd(t)
      PROVE  Waits'
  BY <1>16 DEF CallableEnd, Advance, Waits, TypeOK
<1>17. ASSUME NEW t \in Tasks, TaskLeave(t)
      PROVE  Waits'
  <2>1. t \in Inside /\ member[t] = "leaving"
    BY <1>17 DEF TaskLeave, Inside
  <2>2. member'[t] = "left" /\ \A y \in Members \ {t} : member'[y] = member[y]
    BY <1>17, <2>1, LeaveEffect DEF TaskLeave
  <2>. QED
    BY <1>17, <2>1, <2>2 DEF TaskLeave, Waits
<1>18. ASSUME NEW n \in Notes, NoteBegin(n)
      PROVE  Waits'
  BY <1>18 DEF NoteBegin, Waits, TypeOK
<1>19. ASSUME NEW n \in Notes, NoteEnd(n)
      PROVE  Waits'
  BY <1>19 DEF NoteEnd, Waits, TypeOK
<1>20. ASSUME Dealloc
      PROVE  Waits'
  BY <1>20 DEF Dealloc, Waits, TypeOK
<1>21. CASE UNCHANGED vars
  BY <1>21 DEF vars, groupVars, Waits, TypeOK
<1>. QED
  BY <1>1, <1>2, <1>3, <1>4, <1>5, <1>6, <1>7, <1>8, <1>9, <1>10, <1>11,
     <1>12, <1>13, <1>14, <1>15, <1>16, <1>17, <1>18, <1>19, <1>20, <1>21
     DEF Next, CallStep, TaskStep, NoteStep

(* Every step keeps the count of the group. *)
LEMMA CountStep ==
    ASSUME GroupInv, [Next]_vars
    PROVE  CountRight'
<1>0. CountsKept /\ Kinds /\ CallsNamed /\ Waits /\ GateAccount /\ Expecting
  BY DEF GroupInv
<1>00. TypeOK /\ Sem!NoLostSignal /\ Sem!SemTypeOK
  BY <1>0 DEF CountsKept, TypeOK
<1>. USE <1>0, <1>00, NameFacts DEF groupVars
<1>000. CountRight
  BY <1>0 DEF CountsKept, CountRight
<1>. USE <1>000
<1>1. ASSUME NEW c \in Clients, NEW t \in Tasks, RunAsync(c, t)
      PROVE  CountRight'
  <2>1. Inside' = Inside
    BY <1>1, Advanced DEF RunAsync, Stages
  <2>. QED
    BY <1>1, <2>1 DEF RunAsync, CountRight
<1>2. ASSUME NEW c \in Clients, NEW m \in Marks, Enter(c, m)
      PROVE  CountRight'
  <2>1. m \notin Inside /\ Inside' = Inside \cup {m}
    BY <1>2, Advanced DEF Enter, Inside, Stages
  <2>2. Cardinality(Inside \cup {m}) = Cardinality(Inside) + 1
    BY <2>1, OneMore, CountsFinite
  <2>. QED
    BY <1>2, <2>1, <2>2 DEF Enter, CountRight
<1>3. ASSUME NEW c \in Clients, NEW m \in Marks, Leave(c, m)
      PROVE  CountRight'
  <2>1. m \in Inside
    BY <1>3 DEF Leave, Inside
  <2>. QED
    BY <1>3, <2>1, LeaveEffect DEF Leave, CountRight
<1>4. ASSUME NEW c \in Clients, NEW n \in Notes, Notify(c, n)
      PROVE  CountRight'
  BY <1>4 DEF Notify, Begun, CountRight, Inside
<1>5. ASSUME NEW c \in Clients, NEW seconds \in {-1, 1}, StartWait(c, seconds)
      PROVE  CountRight'
  BY <1>5 DEF StartWait, Begun, Timeout, CountRight, Inside
<1>6. ASSUME NEW c \in Clients, NativeAsync(c)
      PROVE  CountRight'
  <2>1. call[c].x \in Tasks /\ member[call[c].x] = "given"
    BY <1>6 DEF NativeAsync, CallsNamed
  <2>2. call[c].x \notin Inside /\ Inside' = Inside \cup {call[c].x}
    BY <1>6, <2>1, Advanced DEF NativeAsync, Inside, Stages
  <2>3. Cardinality(Inside \cup {call[c].x}) = Cardinality(Inside) + 1
    BY <2>2, OneMore, CountsFinite
  <2>. QED
    BY <1>6, <2>1, <2>2, <2>3 DEF NativeAsync, CountRight
<1>7. ASSUME NEW c \in Clients, NativeNotify(c)
      PROVE  CountRight'
  BY <1>7 DEF NativeNotify, Ended, CountRight, Inside
<1>8. ASSUME NEW c \in Clients, WaitTimeOut(c)
      PROVE  CountRight'
  BY <1>8 DEF WaitTimeOut, CountRight, Inside
<1>9. ASSUME NEW c \in Clients, WaitReturn(c)
      PROVE  CountRight'
  BY <1>9 DEF WaitReturn, Ended, CountRight, Inside
<1>10. ASSUME NEW t \in Tasks, Begin(t)
      PROVE  CountRight'
  <2>1. t \in Inside /\ Inside' = Inside \cup {t}
    BY <1>10, Advanced DEF Begin, Inside, Stages, PastGate
  <2>. QED
    BY <1>10, <2>1 DEF Begin, CountRight
<1>11. ASSUME NEW t \in Tasks, NEW timed \in BOOLEAN, Ask(t, timed)
      PROVE  CountRight'
  <2>1. t \in Inside /\ Inside' = Inside \cup {t}
    BY <1>11, Advanced DEF Ask, Inside, Stages, PastGate
  <2>. QED
    BY <1>11, <2>1 DEF Ask, CountRight
<1>12. ASSUME NEW t \in Tasks, AskTimeOut(t)
      PROVE  CountRight'
  BY <1>12 DEF AskTimeOut, CountRight, Inside
<1>13. ASSUME NEW t \in Tasks, Asked(t)
      PROVE  CountRight'
  <2>1. t \in Inside /\ Inside' = Inside \cup {t}
    BY <1>13, Advanced DEF Asked, Inside, Stages, PastGate
  <2>. QED
    BY <1>13, <2>1 DEF Asked, CountRight
<1>14. ASSUME NEW t \in Tasks, SignalGate(t)
      PROVE  CountRight'
  <2>1. t \in Inside /\ Inside' = Inside \cup {t}
    BY <1>14, Advanced DEF SignalGate, Inside, Stages, PastGate
  <2>. QED
    BY <1>14, <2>1 DEF SignalGate, CountRight
<1>15. ASSUME NEW t \in Tasks, Provide(t)
      PROVE  CountRight'
  <2>1. t \in Inside /\ Inside' = Inside \cup {t}
    BY <1>15, Advanced DEF Provide, Inside, Stages, PastGate
  <2>. QED
    BY <1>15, <2>1 DEF Provide, CountRight
<1>16. ASSUME NEW t \in Tasks, CallableEnd(t)
      PROVE  CountRight'
  <2>1. t \in Inside /\ Inside' = Inside \cup {t}
    BY <1>16, Advanced DEF CallableEnd, Inside, Stages, PastGate
  <2>. QED
    BY <1>16, <2>1 DEF CallableEnd, CountRight
<1>17. ASSUME NEW t \in Tasks, TaskLeave(t)
      PROVE  CountRight'
  <2>1. t \in Inside
    BY <1>17 DEF TaskLeave, Inside
  <2>. QED
    BY <1>17, <2>1, LeaveEffect DEF TaskLeave, CountRight
<1>18. ASSUME NEW n \in Notes, NoteBegin(n)
      PROVE  CountRight'
  BY <1>18 DEF NoteBegin, CountRight, Inside
<1>19. ASSUME NEW n \in Notes, NoteEnd(n)
      PROVE  CountRight'
  BY <1>19 DEF NoteEnd, CountRight, Inside
<1>20. ASSUME Dealloc
      PROVE  CountRight'
  BY <1>20 DEF Dealloc, CountRight, Inside
<1>21. CASE UNCHANGED vars
  BY <1>21 DEF vars, groupVars, CountRight, Inside
<1>. QED
  BY <1>1, <1>2, <1>3, <1>4, <1>5, <1>6, <1>7, <1>8, <1>9, <1>10, <1>11,
     <1>12, <1>13, <1>14, <1>15, <1>16, <1>17, <1>18, <1>19, <1>20, <1>21
     DEF Next, CallStep, TaskStep, NoteStep

(* Every step keeps the references on callables. *)
LEMMA RefsStep ==
    ASSUME GroupInv, [Next]_vars
    PROVE  RefsRight'
<1>0. CountsKept /\ Kinds /\ CallsNamed /\ Waits /\ GateAccount /\ Expecting
  BY DEF GroupInv
<1>00. TypeOK /\ Sem!NoLostSignal /\ Sem!SemTypeOK
  BY <1>0 DEF CountsKept, TypeOK
<1>. USE <1>0, <1>00, NameFacts DEF groupVars
<1>000. RefsRight
  BY <1>0 DEF CountsKept, RefsRight
<1>. USE <1>000
<1>1. ASSUME NEW c \in Clients, NEW t \in Tasks, RunAsync(c, t)
      PROVE  RefsRight'
  BY <1>1 DEF RunAsync, Begun, Advance, RefsRight, TypeOK
<1>2. ASSUME NEW c \in Clients, NEW m \in Marks, Enter(c, m)
      PROVE  RefsRight'
  BY <1>2 DEF Enter, Advance, RefsRight, TypeOK
<1>3. ASSUME NEW c \in Clients, NEW m \in Marks, Leave(c, m)
      PROVE  RefsRight'
  <2>1. m \in Inside /\ m \notin Tasks
    BY <1>3 DEF Leave, Inside
  <2>2. /\ \A y \in Members \ {m} : member'[y] = member[y]
        /\ \A n \in Notes : note'[n] = note[n] \/ (note[n] = "registered" /\ note'[n] = "queued")
    BY <1>3, <2>1, LeaveEffect DEF Leave
  <2>. QED
    BY <1>3, <2>1, <2>2 DEF Leave, RefsRight
<1>4. ASSUME NEW c \in Clients, NEW n \in Notes, Notify(c, n)
      PROVE  RefsRight'
  BY <1>4 DEF Notify, Begun, RefsRight, TypeOK
<1>5. ASSUME NEW c \in Clients, NEW seconds \in {-1, 1}, StartWait(c, seconds)
      PROVE  RefsRight'
  BY <1>5 DEF StartWait, Begun, Timeout, RefsRight, TypeOK
<1>6. ASSUME NEW c \in Clients, NativeAsync(c)
      PROVE  RefsRight'
  <2>1. call[c].x \in Tasks /\ member[call[c].x] = "given"
    BY <1>6 DEF NativeAsync, CallsNamed
  <2>2. member'[call[c].x] = "queued" /\ \A y \in Members \ {call[c].x} : member'[y] = member[y]
    BY <1>6, <2>1, Advanced DEF NativeAsync, Stages
  <2>. QED
    BY <1>6, <2>1, <2>2 DEF NativeAsync, RefsRight
<1>7. ASSUME NEW c \in Clients, NativeNotify(c)
      PROVE  RefsRight'
  <2>1. call[c].x \in Notes /\ note[call[c].x] = "given"
    BY <1>7 DEF NativeNotify, CallsNamed
  <2>. QED
    BY <1>7, <2>1 DEF NativeNotify, RefsRight, TypeOK
<1>8. ASSUME NEW c \in Clients, WaitTimeOut(c)
      PROVE  RefsRight'
  BY <1>8 DEF WaitTimeOut, RefsRight, TypeOK
<1>9. ASSUME NEW c \in Clients, WaitReturn(c)
      PROVE  RefsRight'
  BY <1>9 DEF WaitReturn, Ended, RefsRight, TypeOK
<1>10. ASSUME NEW t \in Tasks, Begin(t)
      PROVE  RefsRight'
  <2>1. /\ member[t] \notin {"none", "leaving", "left"} /\ member'[t] \notin {"none", "left"}
        /\ \A y \in Members \ {t} : member'[y] = member[y]
        /\ member'[t] # "leaving"
    BY <1>10, Advanced DEF Begin, Stages, PastGate
  <2>. QED
    BY <1>10, <2>1 DEF Begin, RefsRight, TypeOK
<1>11. ASSUME NEW t \in Tasks, NEW timed \in BOOLEAN, Ask(t, timed)
      PROVE  RefsRight'
  <2>1. /\ member[t] \notin {"none", "leaving", "left"} /\ member'[t] \notin {"none", "left"}
        /\ \A y \in Members \ {t} : member'[y] = member[y]
        /\ member'[t] # "leaving"
    BY <1>11, Advanced DEF Ask, Stages, PastGate
  <2>. QED
    BY <1>11, <2>1 DEF Ask, RefsRight, TypeOK
<1>12. ASSUME NEW t \in Tasks, AskTimeOut(t)
      PROVE  RefsRight'
  BY <1>12 DEF AskTimeOut, RefsRight, TypeOK
<1>13. ASSUME NEW t \in Tasks, Asked(t)
      PROVE  RefsRight'
  <2>1. /\ member[t] \notin {"none", "leaving", "left"} /\ member'[t] \notin {"none", "left"}
        /\ \A y \in Members \ {t} : member'[y] = member[y]
        /\ member'[t] # "leaving"
    BY <1>13, Advanced DEF Asked, Stages, PastGate
  <2>. QED
    BY <1>13, <2>1 DEF Asked, RefsRight, TypeOK
<1>14. ASSUME NEW t \in Tasks, SignalGate(t)
      PROVE  RefsRight'
  <2>1. /\ member[t] \notin {"none", "leaving", "left"} /\ member'[t] \notin {"none", "left"}
        /\ \A y \in Members \ {t} : member'[y] = member[y]
        /\ member'[t] # "leaving"
    BY <1>14, Advanced DEF SignalGate, Stages, PastGate
  <2>. QED
    BY <1>14, <2>1 DEF SignalGate, RefsRight, TypeOK
<1>15. ASSUME NEW t \in Tasks, Provide(t)
      PROVE  RefsRight'
  <2>1. /\ member[t] \notin {"none", "leaving", "left"} /\ member'[t] \notin {"none", "left"}
        /\ \A y \in Members \ {t} : member'[y] = member[y]
        /\ member'[t] # "leaving"
    BY <1>15, Advanced DEF Provide, Stages, PastGate
  <2>. QED
    BY <1>15, <2>1 DEF Provide, RefsRight, TypeOK
<1>16. ASSUME NEW t \in Tasks, CallableEnd(t)
      PROVE  RefsRight'
  <2>1. /\ member[t] \notin {"none", "leaving", "left"} /\ member'[t] \notin {"none", "left"}
        /\ \A y \in Members \ {t} : member'[y] = member[y]
    BY <1>16, Advanced DEF CallableEnd, Stages, PastGate
  <2>. QED
    BY <1>16, <2>1 DEF CallableEnd, RefsRight, TypeOK, Advance
<1>17. ASSUME NEW t \in Tasks, TaskLeave(t)
      PROVE  RefsRight'
  <2>1. t \in Inside /\ member[t] = "leaving"
    BY <1>17 DEF TaskLeave, Inside
  <2>2. /\ member'[t] = "left" /\ \A y \in Members \ {t} : member'[y] = member[y]
        /\ \A n \in Notes : note'[n] = note[n] \/ (note[n] = "registered" /\ note'[n] = "queued")
    BY <1>17, <2>1, LeaveEffect DEF TaskLeave
  <2>. QED
    BY <1>17, <2>1, <2>2 DEF TaskLeave, RefsRight
<1>18. ASSUME NEW n \in Notes, NoteBegin(n)
      PROVE  RefsRight'
  BY <1>18 DEF NoteBegin, RefsRight, TypeOK
<1>19. ASSUME NEW n \in Notes, NoteEnd(n)
      PROVE  RefsRight'
  BY <1>19 DEF NoteEnd, RefsRight, TypeOK
<1>20. ASSUME Dealloc
      PROVE  RefsRight'
  BY <1>20 DEF Dealloc, RefsRight, TypeOK
<1>21. CASE UNCHANGED vars
  BY <1>21 DEF vars, groupVars, RefsRight, TypeOK
<1>. QED
  BY <1>1, <1>2, <1>3, <1>4, <1>5, <1>6, <1>7, <1>8, <1>9, <1>10, <1>11,
     <1>12, <1>13, <1>14, <1>15, <1>16, <1>17, <1>18, <1>19, <1>20, <1>21
     DEF Next, CallStep, TaskStep, NoteStep

(* Every step keeps the accounts of the semaphores. *)
LEMMA SemStep ==
    ASSUME GroupInv, [Next]_vars
    PROVE  Sem!NoLostSignal' /\ GateAccount'
<1>0. CountsKept /\ Kinds /\ CallsNamed /\ Waits /\ GateAccount /\ Expecting
  BY DEF GroupInv
<1>00. TypeOK /\ Sem!NoLostSignal /\ Sem!SemTypeOK
  BY <1>0 DEF CountsKept, TypeOK
<1>. USE <1>0, <1>00, NameFacts DEF groupVars
<1>1. ASSUME NEW c \in Clients, NEW t \in Tasks, RunAsync(c, t)
      PROVE  Sem!NoLostSignal' /\ GateAccount'
  <2>1. /\ member[t] # "inside" /\ member'[t] # "inside"
        /\ \A y \in Members \ {t} : member'[y] = member[y]
    BY <1>1, Advanced DEF RunAsync, Stages, PastGate
  <2>. QED
    BY <1>1, <2>1, SemUntouched DEF RunAsync
<1>2. ASSUME NEW c \in Clients, NEW m \in Marks, Enter(c, m)
      PROVE  Sem!NoLostSignal' /\ GateAccount'
  <2>1. /\ member[m] # "inside" /\ member'[m] # "inside"
        /\ \A y \in Members \ {m} : member'[y] = member[y]
    BY <1>2, Advanced DEF Enter, Stages, PastGate
  <2>. QED
    BY <1>2, <2>1, SemUntouched DEF Enter
<1>3. ASSUME NEW c \in Clients, NEW m \in Marks, Leave(c, m)
      PROVE  Sem!NoLostSignal' /\ GateAccount'
  <2>1. m \in Inside /\ m \notin Tasks
    BY <1>3 DEF Leave, Inside
  <2>2. \A y \in Members \ {m} : member'[y] = member[y]
    BY <1>3, <2>1, LeaveEffect DEF Leave
  <2>. QED
    BY <1>3, <2>1, <2>2, SemUntouched DEF Leave
<1>4. ASSUME NEW c \in Clients, NEW n \in Notes, Notify(c, n)
      PROVE  Sem!NoLostSignal' /\ GateAccount'
  BY <1>4, SemUntouched DEF Notify
<1>5. ASSUME NEW c \in Clients, NEW seconds \in {-1, 1}, StartWait(c, seconds)
      PROVE  Sem!NoLostSignal' /\ GateAccount'
  BY <1>5, SemUntouched DEF StartWait
<1>6. ASSUME NEW c \in Clients, NativeAsync(c)
      PROVE  Sem!NoLostSignal' /\ GateAccount'
  <2>1. call[c].x \in Tasks /\ member[call[c].x] = "given"
    BY <1>6 DEF NativeAsync, CallsNamed
  <2>2. member'[call[c].x] = "queued" /\ \A y \in Members \ {call[c].x} : member'[y] = member[y]
    BY <1>6, <2>1, Advanced DEF NativeAsync, Stages
  <2>. QED
    BY <1>6, <2>1, <2>2, SemUntouched DEF NativeAsync
<1>7. ASSUME NEW c \in Clients, NativeNotify(c)
      PROVE  Sem!NoLostSignal' /\ GateAccount'
  BY <1>7, SemUntouched DEF NativeNotify
<1>8. ASSUME NEW c \in Clients, WaitTimeOut(c)
      PROVE  Sem!NoLostSignal' /\ GateAccount'
  BY <1>8, SemUntouched DEF WaitTimeOut
<1>9. ASSUME NEW c \in Clients, WaitReturn(c)
      PROVE  Sem!NoLostSignal' /\ GateAccount'
  BY <1>9, SemUntouched DEF WaitReturn
<1>10. ASSUME NEW t \in Tasks, Begin(t)
      PROVE  Sem!NoLostSignal' /\ GateAccount'
  <2>1. /\ member[t] # "inside" /\ member'[t] # "inside"
        /\ \A y \in Members \ {t} : member'[y] = member[y]
    BY <1>10, Advanced DEF Begin, Stages, PastGate
  <2>. QED
    BY <1>10, <2>1, SemUntouched DEF Begin
<1>11. ASSUME NEW t \in Tasks, NEW timed \in BOOLEAN, Ask(t, timed)
      PROVE  Sem!NoLostSignal' /\ GateAccount'
  <2>0. /\ value[Gate] \in Int /\ Cardinality(Insiders) \in Nat
        /\ Cardinality(Sem!Sleepers(Gate)) \in Nat
    BY CountsFinite DEF Sem!SemTypeOK
  <2>1. member[t] \notin {"inside", "asking"} /\ member'[t] = "asking"
        /\ \A y \in Members \ {t} : member'[y] = member[y]
    BY <1>11, Advanced DEF Ask, Stages
  <2>2. PICK s \in {Gate, Latch}, b \in BOOLEAN : Sem!WaitEnter(t, s, b)
    BY <1>11 DEF Ask
  <2>3. /\ Sem!NoLostSignal'
        /\ value'[s] = value[s] - 1 /\ \A r \in {Gate, Latch} \ {s} : value'[r] = value[r]
        /\ wait'[t].sem = s /\ wait'[t].at = IF value[s] > 0 THEN "granted" ELSE "asleep"
        /\ \A u \in Tasks \ {t} : wait'[u] = wait[u]
        /\ t \notin Sem!Sleepers(s)
        /\ Sem!Sleepers(s)' = IF value[s] > 0 THEN Sem!Sleepers(s) ELSE Sem!Sleepers(s) \cup {t}
        /\ \A r \in {Gate, Latch} \ {s} : Sem!Sleepers(r)' = Sem!Sleepers(r)
    BY <2>2, SemEnter
  <2>4. t \notin Insiders /\ wait[t].at = "none"
    BY <2>1 DEF Insiders, Waits
  <2>5. CASE s = Latch
    <3>1. Insiders' = Insiders
      BY <2>1, <2>3, <2>4, <2>5 DEF Insiders
    <3>. QED
      BY <2>3, <2>5, <3>1 DEF GateAccount
  <2>6. CASE s = Gate /\ value[Gate] > 0
    <3>1. Insiders' = Insiders \cup {t}
      BY <2>1, <2>3, <2>6 DEF Insiders
    <3>2. Cardinality(Insiders \cup {t}) = Cardinality(Insiders) + 1
      BY <2>4, OneMore, CountsFinite
    <3>. QED
      BY <2>0, <2>3, <2>6, <3>1, <3>2 DEF GateAccount
  <2>7. CASE s = Gate /\ ~(value[Gate] > 0)
    <3>1. Insiders' = Insiders
      BY <2>1, <2>3, <2>4, <2>7 DEF Insiders
    <3>2. Cardinality(Sem!Sleepers(Gate) \cup {t}) = Cardinality(Sem!Sleepers(Gate)) + 1
      BY <2>3, <2>7, OneMore, CountsFinite
    <3>3. Sem!Sleepers(Gate)' = Sem!Sleepers(Gate) \cup {t} /\ value'[Gate] = value[Gate] - 1
      BY <2>3, <2>7
    <3>4. /\ Cardinality(Sem!Sleepers(Gate)') = Cardinality(Sem!Sleepers(Gate)) + 1
          /\ Cardinality(Insiders') = Cardinality(Insiders)
      BY <3>1, <3>2, <3>3
    <3>. QED
      BY <2>0, <2>3, <3>3, <3>4 DEF GateAccount
  <2>. QED
    BY <2>5, <2>6, <2>7
<1>12. ASSUME NEW t \in Tasks, AskTimeOut(t)
      PROVE  Sem!NoLostSignal' /\ GateAccount'
  <2>0. /\ value[Gate] \in Int /\ Cardinality(Insiders) \in Nat
        /\ Cardinality(Sem!Sleepers(Gate)) \in Nat
    BY CountsFinite DEF Sem!SemTypeOK
  <2>1. PICK s \in {Gate, Latch} : wait[t].sem = s
    BY <1>12 DEF AskTimeOut, Sem!TimeOut, Waits
  <2>2. /\ Sem!NoLostSignal'
        /\ value'[s] = value[s] + 1 /\ \A r \in {Gate, Latch} \ {s} : value'[r] = value[r]
        /\ wait[t].at = "asleep" /\ wait'[t].at = "refused"
        /\ \A u \in Tasks \ {t} : wait'[u] = wait[u]
        /\ t \in Sem!Sleepers(s) /\ Sem!Sleepers(s)' = Sem!Sleepers(s) \ {t}
        /\ \A r \in {Gate, Latch} \ {s} : Sem!Sleepers(r)' = Sem!Sleepers(r)
    BY <1>12, <2>1, SemTimeOut DEF AskTimeOut
  <2>3. Insiders' = Insiders
    BY <1>12, <2>2 DEF AskTimeOut, Insiders
  <2>4. CASE s = Latch
    BY <2>2, <2>3, <2>4 DEF GateAccount
  <2>5. CASE s = Gate
    <3>1. Cardinality(Sem!Sleepers(Gate) \ {t}) = Cardinality(Sem!Sleepers(Gate)) - 1
      BY <2>2, <2>5, OneLess, CountsFinite
    <3>2. Sem!Sleepers(Gate)' = Sem!Sleepers(Gate) \ {t} /\ value'[Gate] = value[Gate] + 1
      BY <2>2, <2>5
    <3>3. /\ Cardinality(Sem!Sleepers(Gate)') = Cardinality(Sem!Sleepers(Gate)) - 1
          /\ Cardinality(Insiders') = Cardinality(Insiders)
      BY <2>3, <3>1, <3>2
    <3>. QED
      BY <2>0, <2>2, <3>2, <3>3 DEF GateAccount
  <2>. QED
    BY <2>4, <2>5
<1>13. ASSUME NEW t \in Tasks, Asked(t)
      PROVE  Sem!NoLostSignal' /\ GateAccount'
  <2>1. /\ Sem!NoLostSignal' /\ value' = value
        /\ wait'[t] = Sem!NoWait /\ \A u \in Tasks \ {t} : wait'[u] = wait[u]
        /\ \A r : Sem!Sleepers(r)' = Sem!Sleepers(r)
        /\ wait[t].at \in {"granted", "refused"}
    BY <1>13, SemReturn DEF Asked
  <2>2. /\ member[t] = "asking" /\ \A y \in Members \ {t} : member'[y] = member[y]
        /\ member'[t] = "inside" <=> wait[t].sem # Latch /\ wait[t].at = "granted"
    BY <1>13, Advanced DEF Asked, Stages, PastGate, Sem!Granted
  <2>3. wait[t].sem \in {Gate, Latch}
    BY <2>1 DEF Waits
  <2>4. Insiders' = Insiders
    BY <2>1, <2>2, <2>3 DEF Insiders
  <2>. QED
    BY <2>1, <2>4 DEF GateAccount
<1>14. ASSUME NEW t \in Tasks, SignalGate(t)
      PROVE  Sem!NoLostSignal' /\ GateAccount'
  <2>0. /\ value[Gate] \in Int /\ Cardinality(Insiders) \in Nat
        /\ Cardinality(Sem!Sleepers(Gate)) \in Nat
    BY CountsFinite DEF Sem!SemTypeOK
  <2>1. /\ member[t] = "inside" /\ member'[t] \notin {"inside", "asking"}
        /\ \A y \in Members \ {t} : member'[y] = member[y]
    BY <1>14, Advanced DEF SignalGate, Stages, PastGate
  <2>2. Sem!NoLostSignal' /\ value'[Gate] = value[Gate] + 1
    BY <1>14, SemSignal DEF SignalGate
  <2>3. t \in Insiders /\ wait[t].at = "none"
    BY <2>1 DEF Insiders, Waits
  <2>4. Cardinality(Insiders \ {t}) = Cardinality(Insiders) - 1 /\ IsFiniteSet(Insiders \ {t})
    BY <2>3, OneLess, CountsFinite, FS_RemoveElement
  <2>5. CASE wait' = wait
    <3>1. Sem!Sleepers(Gate)' = Sem!Sleepers(Gate)
      BY <2>5 DEF Sem!Sleepers
    <3>2. Insiders' = Insiders \ {t}
      BY <2>1, <2>3, <2>5 DEF Insiders
    <3>. QED
      BY <2>0, <2>2, <2>4, <3>1, <3>2 DEF GateAccount
  <2>6. ASSUME NEW w \in Sem!Sleepers(Gate), wait'[w].sem = Gate, wait'[w].at = "granted",
               \A u \in Tasks \ {w} : wait'[u] = wait[u],
               Sem!Sleepers(Gate)' = Sem!Sleepers(Gate) \ {w}
        PROVE  GateAccount'
    <3>1. w \in Tasks /\ wait[w].at = "asleep"
      BY DEF Sem!Sleepers
    <3>2. w \notin Insiders /\ w # t
      BY <2>3, <3>1 DEF Insiders, Waits
    <3>3. Insiders' = (Insiders \ {t}) \cup {w}
      BY <2>1, <2>3, <2>6, <3>1, <3>2 DEF Insiders
    <3>4. Cardinality((Insiders \ {t}) \cup {w}) = Cardinality(Insiders \ {t}) + 1
      BY <2>4, <3>2, OneMore
    <3>5. Cardinality(Sem!Sleepers(Gate) \ {w}) = Cardinality(Sem!Sleepers(Gate)) - 1
      BY OneLess, CountsFinite
    <3>. QED
      BY <2>0, <2>2, <2>4, <2>6, <3>3, <3>4, <3>5 DEF GateAccount
  <2>. QED
    BY <1>14, <2>2, <2>5, <2>6, SemSignal DEF SignalGate
<1>15. ASSUME NEW t \in Tasks, Provide(t)
      PROVE  Sem!NoLostSignal' /\ GateAccount'
  <2>1. /\ member[t] # "inside" /\ member'[t] # "inside"
        /\ \A y \in Members \ {t} : member'[y] = member[y]
    BY <1>15, Advanced DEF Provide, Stages
  <2>2. /\ Sem!NoLostSignal' /\ value'[Gate] = value[Gate]
        /\ Sem!Sleepers(Gate)' = Sem!Sleepers(Gate)
    BY <1>15, SemSignal DEF Provide
  <2>3. CASE wait' = wait
    <3>1. Insiders' = Insiders
      BY <2>1, <2>3 DEF Insiders
    <3>. QED
      BY <2>2, <3>1 DEF GateAccount
  <2>4. ASSUME NEW w \in Sem!Sleepers(Latch), wait'[w].sem = Latch,
               \A u \in Tasks \ {w} : wait'[u] = wait[u]
        PROVE  GateAccount'
    <3>1. w \in Tasks /\ wait[w].at = "asleep"
      BY DEF Sem!Sleepers
    <3>2. Insiders' = Insiders
      BY <2>1, <2>4, <3>1 DEF Insiders
    <3>. QED
      BY <2>2, <3>2 DEF GateAccount
  <2>. QED
    BY <1>15, <2>2, <2>3, <2>4, SemSignal DEF Provide
<1>16. ASSUME NEW t \in Tasks, CallableEnd(t)
      PROVE  Sem!NoLostSignal' /\ GateAccount'
  <2>1. /\ member[t] # "inside" /\ member'[t] # "inside"
        /\ \A y \in Members \ {t} : member'[y] = member[y]
    BY <1>16, Advanced DEF CallableEnd, Stages, PastGate
  <2>. QED
    BY <1>16, <2>1, SemUntouched DEF CallableEnd
<1>17. ASSUME NEW t \in Tasks, TaskLeave(t)
      PROVE  Sem!NoLostSignal' /\ GateAccount'
  <2>1. t \in Inside /\ member[t] = "leaving"
    BY <1>17 DEF TaskLeave, Inside
  <2>2. member'[t] = "left" /\ \A y \in Members \ {t} : member'[y] = member[y]
    BY <1>17, <2>1, LeaveEffect DEF TaskLeave
  <2>. QED
    BY <1>17, <2>1, <2>2, SemUntouched DEF TaskLeave
<1>18. ASSUME NEW n \in Notes, NoteBegin(n)
      PROVE  Sem!NoLostSignal' /\ GateAccount'
  BY <1>18, SemUntouched DEF NoteBegin
<1>19. ASSUME NEW n \in Notes, NoteEnd(n)
      PROVE  Sem!NoLostSignal' /\ GateAccount'
  BY <1>19, SemUntouched DEF NoteEnd
<1>20. ASSUME Dealloc
      PROVE  Sem!NoLostSignal' /\ GateAccount'
  BY <1>20, SemUntouched DEF Dealloc
<1>21. CASE UNCHANGED vars
  BY <1>21, SemUntouched DEF vars, groupVars
<1>. QED
  BY <1>1, <1>2, <1>3, <1>4, <1>5, <1>6, <1>7, <1>8, <1>9, <1>10, <1>11,
     <1>12, <1>13, <1>14, <1>15, <1>16, <1>17, <1>18, <1>19, <1>20, <1>21
     DEF Next, CallStep, TaskStep, NoteStep

(* Every step keeps waits and notifications right about those they are for.       *)
LEMMA ExpectingStep ==
    ASSUME GroupInv, [Next]_vars
    PROVE  Expecting'
<1>0. CountsKept /\ Kinds /\ CallsNamed /\ Waits /\ GateAccount /\ Expecting
  BY DEF GroupInv
<1>00. TypeOK /\ Sem!NoLostSignal /\ Sem!SemTypeOK
  BY <1>0 DEF CountsKept, TypeOK
<1>. USE <1>0, <1>00, NameFacts DEF groupVars
<1>1. ASSUME NEW c \in Clients, NEW t \in Tasks, RunAsync(c, t)
      PROVE  Expecting'
  <2>1. \A y \in Members : member'[y] = member[y] \/ (member[y] = "none" /\ member'[y] = "given")
    BY <1>1, Advanced DEF RunAsync, Stages
  <2>2. call'[c].for = {} /\ \A d \in Clients \ {c} : call'[d] = call[d]
    BY <1>1, NewCalls, Called DEF RunAsync, Begun
  <2>. QED
    BY <1>1, <2>1, <2>2, ExpectingKept DEF RunAsync
<1>2. ASSUME NEW c \in Clients, NEW m \in Marks, Enter(c, m)
      PROVE  Expecting'
  BY <1>2 DEF Enter, Advance, Expecting, TypeOK
<1>3. ASSUME NEW c \in Clients, NEW m \in Marks, Leave(c, m)
      PROVE  Expecting'
  <2>1. m \in Inside
    BY <1>3 DEF Leave, Inside
  <2>2. /\ member'[m] = "left" /\ \A y \in Members \ {m} : member'[y] = member[y]
        /\ count = 1 => Inside' = {}
        /\ \A y \in Members : member'[y] \notin {"none", "given", "left"} => y \in Inside'
    BY <1>3, <2>1, LeaveEffect DEF Leave, Inside
  <2>3. ASSUME NEW n \in Notes
        PROVE  /\ \A y \in expected'[n] : member'[y] \notin {"none", "given"}
               /\ note'[n] \in {"queued", "running"} => \A y \in expected'[n] : member'[y] = "left"
    <3>1. note'[n] = note[n] \/ (count = 1 /\ note[n] = "registered" /\ note'[n] = "queued")
      BY <1>3, <2>1, LeaveEffect DEF Leave
    <3>2. expected' = expected /\ expected[n] \in SUBSET Members
      BY <1>3 DEF Leave, TypeOK
    <3>. QED
      BY <2>2, <3>1, <3>2 DEF Expecting
  <2>4. ASSUME NEW d \in Clients
        PROVE  /\ \A y \in call'[d].for : member'[y] \notin {"none", "given"}
               /\ call'[d].op = "granted" => \A y \in call'[d].for : member'[y] = "left"
    <3>1. call'[d].for = call[d].for /\ call[d].for \in SUBSET Members
      BY <1>3, <2>1, LeaveEffect DEF Leave, TypeOK
    <3>2. call'[d].op = call[d].op \/ (count = 1 /\ call'[d].op = "granted")
      BY <1>3, <2>1, LeaveEffect DEF Leave
    <3>. QED
      BY <2>2, <3>1, <3>2 DEF Expecting
  <2>. QED
    BY <2>3, <2>4 DEF Expecting
<1>4. ASSUME NEW c \in Clients, NEW n \in Notes, Notify(c, n)
      PROVE  Expecting'
  <2>1. call'[c].for = {} /\ call'[c].op = "notify" /\ \A d \in Clients \ {c} : call'[d] = call[d]
    BY <1>4, NewCalls, Called DEF Notify, Begun
  <2>2. /\ note'[n] = "given" /\ expected'[n] = Inside
        /\ \A k \in Notes \ {n} : note'[k] = note[k] /\ expected'[k] = expected[k]
        /\ UNCHANGED member
    BY <1>4 DEF Notify, TypeOK
  <2>. QED
    BY <2>1, <2>2 DEF Expecting, Inside
<1>5. ASSUME NEW c \in Clients, NEW seconds \in {-1, 1}, StartWait(c, seconds)
      PROVE  Expecting'
  <2>1. /\ call'[c].for = Inside /\ call'[c].op = (IF count = 0 THEN "granted" ELSE "asleep")
        /\ \A d \in Clients \ {c} : call'[d] = call[d]
        /\ UNCHANGED <<member, note, expected>>
    BY <1>5 DEF StartWait, Begun, TypeOK
  <2>2. count = 0 => Inside = {}
    BY CountsFinite, FS_EmptySet DEF CountsKept
  <2>3. \A m \in Inside : member[m] \notin {"none", "given"}
    BY DEF Inside
  <2>. QED
    BY <2>1, <2>2, <2>3 DEF Expecting
<1>6. ASSUME NEW c \in Clients, NativeAsync(c)
      PROVE  Expecting'
  <2>1. call[c].x \in Tasks /\ member[call[c].x] = "given"
    BY <1>6 DEF NativeAsync, CallsNamed
  <2>2. \A y \in Members : member'[y] = member[y] \/ (member[y] = "given" /\ member'[y] = "queued")
    BY <1>6, <2>1, Advanced DEF NativeAsync, Stages
  <2>3. call'[c].for = {} /\ \A d \in Clients \ {c} : call'[d] = call[d]
    BY <1>6, NewCalls, Called DEF NativeAsync, Ended, NoCall
  <2>. QED
    BY <1>6, <2>2, <2>3, ExpectingKept DEF NativeAsync
<1>7. ASSUME NEW c \in Clients, NativeNotify(c)
      PROVE  Expecting'
  <2>1. call[c].x \in Notes /\ note[call[c].x] = "given"
    BY <1>7 DEF NativeNotify, CallsNamed
  <2>2. call'[c].for = {} /\ \A d \in Clients \ {c} : call'[d] = call[d]
    BY <1>7, NewCalls, Called DEF NativeNotify, Ended, NoCall
  <2>3. count = 0 => Inside = {}
    BY CountsFinite, FS_EmptySet DEF CountsKept
  <2>4. ASSUME NEW n \in Notes
        PROVE  note'[n] \in {"queued", "running"} => \A m \in expected[n] : member[m] = "left"
    <3>1. CASE n = call[c].x
      <4>1. expected[n] \in SUBSET Members
        BY DEF TypeOK
      <4>2. note'[n] = IF count = 0 THEN "queued" ELSE "registered"
        BY <1>7, <2>1, <3>1 DEF NativeNotify, TypeOK
      <4>. QED
        BY <2>3, <4>1, <4>2 DEF Expecting, Inside
    <3>2. CASE n # call[c].x
      BY <1>7, <3>2 DEF NativeNotify, Expecting, TypeOK
    <3>. QED
      BY <3>1, <3>2
  <2>. QED
    BY <1>7, <2>2, <2>4 DEF NativeNotify, Expecting
<1>8. ASSUME NEW c \in Clients, WaitTimeOut(c)
      PROVE  Expecting'
  BY <1>8 DEF WaitTimeOut, Expecting, TypeOK
<1>9. ASSUME NEW c \in Clients, WaitReturn(c)
      PROVE  Expecting'
  BY <1>9 DEF WaitReturn, Ended, Expecting, TypeOK
<1>10. ASSUME NEW t \in Tasks, Begin(t)
      PROVE  Expecting'
  BY <1>10 DEF Begin, Advance, PastGate, Expecting, TypeOK
<1>11. ASSUME NEW t \in Tasks, NEW timed \in BOOLEAN, Ask(t, timed)
      PROVE  Expecting'
  BY <1>11 DEF Ask, Advance, Expecting, TypeOK
<1>12. ASSUME NEW t \in Tasks, AskTimeOut(t)
      PROVE  Expecting'
  BY <1>12 DEF AskTimeOut, Expecting, TypeOK
<1>13. ASSUME NEW t \in Tasks, Asked(t)
      PROVE  Expecting'
  BY <1>13 DEF Asked, Advance, PastGate, Expecting, TypeOK
<1>14. ASSUME NEW t \in Tasks, SignalGate(t)
      PROVE  Expecting'
  BY <1>14 DEF SignalGate, Advance, PastGate, Expecting, TypeOK
<1>15. ASSUME NEW t \in Tasks, Provide(t)
      PROVE  Expecting'
  BY <1>15 DEF Provide, Advance, Expecting, TypeOK
<1>16. ASSUME NEW t \in Tasks, CallableEnd(t)
      PROVE  Expecting'
  BY <1>16 DEF CallableEnd, Advance, Expecting, TypeOK
<1>17. ASSUME NEW t \in Tasks, TaskLeave(t)
      PROVE  Expecting'
  <2>1. t \in Inside
    BY <1>17 DEF TaskLeave, Inside
  <2>2. /\ member'[t] = "left" /\ \A y \in Members \ {t} : member'[y] = member[y]
        /\ count = 1 => Inside' = {}
        /\ \A y \in Members : member'[y] \notin {"none", "given", "left"} => y \in Inside'
    BY <1>17, <2>1, LeaveEffect DEF TaskLeave, Inside
  <2>3. ASSUME NEW n \in Notes
        PROVE  /\ \A m \in expected'[n] : member'[m] \notin {"none", "given"}
               /\ note'[n] \in {"queued", "running"} => \A m \in expected'[n] : member'[m] = "left"
    <3>1. note'[n] = note[n] \/ (count = 1 /\ note[n] = "registered" /\ note'[n] = "queued")
      BY <1>17, <2>1, LeaveEffect DEF TaskLeave
    <3>2. expected' = expected /\ expected[n] \in SUBSET Members
      BY <1>17 DEF TaskLeave, TypeOK
    <3>. QED
      BY <2>2, <3>1, <3>2 DEF Expecting
  <2>4. ASSUME NEW c \in Clients
        PROVE  /\ \A m \in call'[c].for : member'[m] \notin {"none", "given"}
               /\ call'[c].op = "granted" => \A m \in call'[c].for : member'[m] = "left"
    <3>1. call'[c].for = call[c].for /\ call[c].for \in SUBSET Members
      BY <1>17, <2>1, LeaveEffect DEF TaskLeave, TypeOK
    <3>2. call'[c].op = call[c].op \/ (count = 1 /\ call'[c].op = "granted")
      BY <1>17, <2>1, LeaveEffect DEF TaskLeave
    <3>. QED
      BY <2>2, <3>1, <3>2 DEF Expecting
  <2>. QED
    BY <2>3, <2>4 DEF Expecting
<1>18. ASSUME NEW n \in Notes, NoteBegin(n)
      PROVE  Expecting'
  BY <1>18 DEF NoteBegin, Expecting, TypeOK
<1>19. ASSUME NEW n \in Notes, NoteEnd(n)
      PROVE  Expecting'
  BY <1>19 DEF NoteEnd, Expecting, TypeOK
<1>20. ASSUME Dealloc
      PROVE  Expecting'
  BY <1>20 DEF Dealloc, Expecting, TypeOK
<1>21. CASE UNCHANGED vars
  BY <1>21 DEF vars, groupVars, Expecting, TypeOK
<1>. QED
  BY <1>1, <1>2, <1>3, <1>4, <1>5, <1>6, <1>7, <1>8, <1>9, <1>10, <1>11,
     <1>12, <1>13, <1>14, <1>15, <1>16, <1>17, <1>18, <1>19, <1>20, <1>21
     DEF Next, CallStep, TaskStep, NoteStep

-----------------------------------------------------------------------------
(* At first nobody is in the group and the gate has its capacity. *)
LEMMA GroupInit == Init => GroupInv
<1>. SUFFICES ASSUME Init
              PROVE  GroupInv
  OBVIOUS
<1>. USE NameFacts
<1>1. NoCall \in CallType
  BY NewCalls DEF NoCall
<1>2. /\ value = Capacities /\ wait = [t \in Tasks |-> Sem!NoWait]
      /\ value[Gate] = Capacity /\ value[Latch] = 0
      /\ Sem!SemTypeOK
  <2>1. value = Capacities /\ wait = [t \in Tasks |-> Sem!NoWait]
    BY DEF Init, Sem!SemInit
  <2>2. Sem!NoWait \in [at : {"none", "asleep", "granted", "refused"},
                        sem : {Gate, Latch} \cup {Nothing}, timed : BOOLEAN]
    BY DEF Sem!NoWait
  <2>3. /\ Capacities \in [{Gate, Latch} -> Int]
        /\ Capacities[Gate] = Capacity /\ Capacities[Latch] = 0
    BY DEF Capacities
  <2>. QED
    BY <2>1, <2>2, <2>3 DEF Sem!SemTypeOK
<1>3. Inside = {} /\ Insiders = {} /\ \A s : Sem!Sleepers(s) = {}
  <2>1. Inside = {}
    BY DEF Init, Inside
  <2>2. Insiders = {}
    BY <1>2 DEF Init, Insiders, Members
  <2>3. \A s : Sem!Sleepers(s) = {}
    BY <1>2 DEF Sem!Sleepers
  <2>. QED
    BY <2>1, <2>2, <2>3
<1>4. Cardinality({}) = 0
  BY FS_EmptySet
<1>5. TypeOK
  BY <1>1, <1>2 DEF Init, TypeOK, CallType
<1>6. Sem!NoLostSignal /\ GateAccount
  <2>1. /\ \A s \in {Gate, Latch} : Cardinality(Sem!Sleepers(s)) = 0 /\ value[s] \in Nat
        /\ Cardinality(Insiders) = 0
    BY <1>2, <1>3, <1>4
  <2>2. Sem!NoLostSignal
    BY <2>1, SameCount DEF Sem!NoLostSignal
  <2>3. GateAccount
    BY <1>2, <2>1 DEF GateAccount
  <2>. QED
    BY <2>2, <2>3
<1>7. count = Cardinality(Inside) /\ RefsRight
  BY <1>3, <1>4 DEF Init, RefsRight, Members
<1>8. Kinds /\ CallsNamed /\ Expecting
  BY DEF Init, Kinds, CallsNamed, Expecting, Members
<1>9. Waits
  BY <1>2 DEF Init, Waits, Members
<1>. QED
  BY <1>5, <1>6, <1>7, <1>8, <1>9 DEF GroupInv, CountsKept, RefsRight

(* The inductive invariant holds for every set of threads, tasks, marks and       *)
(* notifications: counts are right, calls are for what they name, the capacity    *)
(* of the gate is accounted for, and what a wait() or notify() was to wait for    *)
(* has left once the count of the group has been zero.                            *)
THEOREM GroupInvariant == Spec => []GroupInv
<1>1. GroupInv /\ [Next]_vars => GroupInv'
  <2>. SUFFICES ASSUME GroupInv, [Next]_vars
                PROVE  GroupInv'
    OBVIOUS
  <2>1. TypeOK' /\ Sem!NoLostSignal' /\ GateAccount'
    BY TypeStep, SemStep
  <2>2. CountRight' /\ RefsRight'
    BY CountStep, RefsStep
  <2>3. CountsKept'
    BY <2>1, <2>2 DEF CountsKept, CountRight, RefsRight
  <2>. QED
    BY <2>1, <2>3, KindsStep, CallsStep, WaitsStep, ExpectingStep DEF GroupInv
<1>. QED
  BY GroupInit, <1>1, PTL DEF Spec

(* No count is lost, of members, of references on callables, or of signals that   *)
(* race a time-out, and none of them goes below zero.                             *)
THEOREM GroupCountsKept == Spec => []CountsKept
<1>1. GroupInv => CountsKept
  BY DEF GroupInv
<1>. QED
  BY GroupInvariant, <1>1, PTL

(* When wait() is about to return True, every member that was in the group when   *)
(* it was called has left, and the group keeps none of their callables alive.     *)
THEOREM GroupWaitTrue == Spec => []WaitTrue
<1>1. GroupInv => WaitTrue
  BY DEF GroupInv, WaitTrue, Result, Expecting, CountsKept
<1>. QED
  BY GroupInvariant, <1>1, PTL

(* A notification begins only when every member that was in the group when        *)
(* notify() was called has left.                                                  *)
THEOREM GroupNotifyAfter == Spec => []NotifyAfter
<1>1. GroupInv => NotifyAfter
  BY DEF GroupInv, NotifyAfter, Expecting
<1>. QED
  BY GroupInvariant, <1>1, PTL

(* A semaphore lets no more callables in than its capacity, and has its initial   *)
(* value again when nobody uses it.                                               *)
THEOREM GroupGateHolds == Spec => []GateHolds
<1>1. ASSUME GroupInv
      PROVE  GateHolds
  <2>1. /\ value[Gate] \in Int /\ Capacity \in Nat
        /\ Cardinality(Insiders) \in Nat /\ Cardinality(Sem!Sleepers(Gate)) \in Nat
    BY <1>1, CountsFinite, NameFacts DEF GroupInv, CountsKept, TypeOK, Sem!SemTypeOK
  <2>2. Cardinality(Sem!Sleepers(Gate)) = IF value[Gate] < 0 THEN -value[Gate] ELSE 0
    BY <1>1, SameCount DEF GroupInv, CountsKept, Sem!NoLostSignal
  <2>3. value[Gate] + Cardinality(Insiders) + Cardinality(Sem!Sleepers(Gate)) = Capacity
    BY <1>1 DEF GroupInv, GateAccount
  <2>4. Cardinality(Insiders) <= Capacity
    BY <2>1, <2>2, <2>3
  <2>5. ASSUME \A t \in Tasks : member[t] # "inside" /\ wait[t].sem # Gate
        PROVE  value[Gate] = Capacity
    <3>1. Insiders = {} /\ Sem!Sleepers(Gate) = {}
      BY <2>5 DEF Insiders, Sem!Sleepers
    <3>. QED
      BY <2>1, <2>3, <3>1, FS_EmptySet
  <2>. QED
    BY <2>4, <2>5 DEF GateHolds
<1>. QED
  BY GroupInvariant, <1>1, PTL
=============================================================================
