------------------------ MODULE QueueSpecific_proofs ------------------------
(***************************************************************************)
(* Proofs about QueueSpecific, for every finite set of threads, queues and *)
(* keys, every hierarchy of the queues, any addresses and any values.      *)
(***************************************************************************)
EXTENDS QueueSpecific, FiniteSetTheorems, TLAPS

(* The range of call. *)
CallType == [at : {"idle", "set", "pop", "queue", "current", "queueRead", "currentRead"},
             q : Queues \cup {None}, k : Keys \cup {None}, v : Values \cup {None}]

(* Who refers to a value. *)
InStorage(v) == {s \in Slots : storage[s] = v}
InTable(v) == {s \in Slots : table[s].v = v}
Setters(v) == {c \in Clients : call[c].at = "set" /\ call[c].v = v}

(* The references that SpecificRefs is about.                                     *)
RefsRight ==
    \A v \in Values :
        refs[v] = Cardinality(InStorage(v)) + Cardinality(InTable(v))
                      + destroying[v] + Cardinality(Setters(v))

(* A call under way names a queue and a key, and a key that is set is kept.       *)
CallsNamed ==
    \A c \in Clients :
        /\ call[c].at = "idle" <=> call[c] = Idle
        /\ call[c].at # "idle" => call[c].q \in Queues /\ call[c].k \in Keys
        /\ call[c].at = "set" => call[c].k \in kept
        /\ call[c].at = "pop" => call[c].v = None

(* Where a thread has read there still is what it has read, until that is written.*)
ReadHeld ==
    \A c \in Clients :
        intact[c] # None => Reading(c) /\ table[intact[c]].v = call[c].v

(* Keys alive at the same time have different addresses, and what libdispatch     *)
(* holds was set under a key that is kept, and under the address of that.         *)
KeysApart ==
    /\ \A j, k \in Keys : KeyAlive(j) /\ KeyAlive(k) /\ Address[j] = Address[k] => j = k
    /\ \A s \in Slots :
          table[s] # NoEntry => table[s].by \in kept /\ Address[table[s].by] = s[2]

(* The inductive invariant. *)
SpecificInv == TypeOK /\ RefsRight /\ CallsNamed /\ ReadHeld /\ KeysApart

-----------------------------------------------------------------------------
(* Every set of slots or of threads can be counted. *)
LEMMA Countable ==
    /\ \A S \in SUBSET Slots : IsFiniteSet(S) /\ Cardinality(S) \in Nat
    /\ \A S \in SUBSET Clients : IsFiniteSet(S) /\ Cardinality(S) \in Nat
    /\ \A S \in SUBSET Addresses : IsFiniteSet(S) /\ Cardinality(S) \in Nat
    /\ None \notin Values \cup Keys \cup Queues
    /\ \A k \in Keys : Address[k] \in Addresses
<1>1. IsFiniteSet(Addresses)
  <2>1. [k \in Keys |-> Address[k]] \in Surjection(Keys, Addresses)
    BY DEF Surjection, Addresses
  <2>. QED
    BY <2>1, FS_Surjection, SpecificAssumption DEF ExistsSurjection
<1>2. IsFiniteSet(Slots)
  BY <1>1, FS_Product, SpecificAssumption DEF Slots
<1>3. \A k \in Keys : Address[k] \in Addresses
  BY DEF Addresses
<1>. QED
  BY <1>1, <1>2, <1>3, FS_Subset, FS_CardinalityType, SpecificAssumption

(* What the count of a finite set becomes when one element may come or go.        *)
LEMMA OneChange ==
    ASSUME NEW A, NEW B, IsFiniteSet(A), NEW x, A \ {x} = B \ {x}
    PROVE  Cardinality(B) = Cardinality(A) + One(x \in B) - One(x \in A)
<1>. DEFINE C == A \ {x}
<1>1. IsFiniteSet(C) /\ Cardinality(C) \in Nat /\ Cardinality(A) \in Nat
  BY FS_Subset, FS_CardinalityType
<1>2. Cardinality(C \cup {x}) = Cardinality(C) + 1
  BY <1>1, FS_AddElement
<1>3. Cardinality(A) = Cardinality(C) + One(x \in A)
  <2>1. CASE x \in A
    <3>1. A = C \cup {x}
      BY <2>1
    <3>. QED
      BY <1>2, <2>1, <3>1 DEF One
  <2>2. CASE x \notin A
    <3>1. A = C
      BY <2>2
    <3>. QED
      BY <1>1, <2>2, <3>1 DEF One
  <2>. QED
    BY <2>1, <2>2
<1>4. Cardinality(B) = Cardinality(C) + One(x \in B)
  <2>1. CASE x \in B
    <3>1. B = C \cup {x}
      BY <2>1
    <3>. QED
      BY <1>2, <2>1, <3>1 DEF One
  <2>2. CASE x \notin B
    <3>1. B = C
      BY <2>2
    <3>. QED
      BY <1>1, <2>2, <3>1 DEF One
  <2>. QED
    BY <2>1, <2>2
<1>5. One(x \in A) \in Int /\ One(x \in B) \in Int
  BY DEF One
<1>. HIDE DEF C
<1>. QED
  BY <1>1, <1>3, <1>4, <1>5

(* A call that begins, goes on or ends leaves the other calls alone. *)
LEMMA Called ==
    ASSUME TypeOK, NEW c \in Clients, NEW new \in CallType, call' = [call EXCEPT ![c] = new]
    PROVE  /\ call' \in [Clients -> CallType]
           /\ call'[c] = new /\ \A d \in Clients \ {c} : call'[d] = call[d]
<1>1. call \in [Clients -> CallType]
  BY DEF TypeOK, CallType
<1>. QED
  BY <1>1

(* The types of what a call refers to. *)
LEMMA CallTyped ==
    ASSUME TypeOK, CallsNamed, NEW c \in Clients
    PROVE  /\ call[c] \in CallType /\ call[c].v \in Values \cup {None}
           /\ call[c].at # "idle" =>
                 /\ call[c].q \in Queues /\ call[c].k \in Keys
                 /\ Address[call[c].k] \in Addresses
                 /\ <<call[c].q, Address[call[c].k]>> \in Slots
  BY Countable DEF TypeOK, CallsNamed, CallType, Slots

(* A step that moves nothing to or from dictionary, table, destructors and        *)
(* setters keeps the references right.                                            *)
LEMMA RefsUntouched ==
    ASSUME RefsRight, UNCHANGED <<refs, storage, table, destroying>>,
           \A c \in Clients : (call[c].at = "set" \/ call'[c].at = "set") => call'[c] = call[c]
    PROVE  RefsRight'
<1>1. \A v : Setters(v)' = Setters(v) /\ InStorage(v)' = InStorage(v) /\ InTable(v)' = InTable(v)
  BY DEF Setters, InStorage, InTable
<1>. QED
  BY <1>1 DEF RefsRight

(* When one thread moves on, only its own set_specific may begin or end.          *)
LEMMA SettersChange ==
    ASSUME NEW c \in Clients, \A d \in Clients \ {c} : call'[d] = call[d], NEW v
    PROVE  Cardinality(Setters(v)') = Cardinality(Setters(v)) + One(c \in Setters(v)')
                                          - One(c \in Setters(v))
<1>1. Setters(v) \ {c} = Setters(v)' \ {c} /\ IsFiniteSet(Setters(v))
  BY Countable DEF Setters
<1>. QED
  BY <1>1, OneChange

(* When one slot of the dictionary changes, a value is in one more or one less.   *)
LEMMA StorageChange ==
    ASSUME NEW slot \in Slots, NEW new, NEW v, storage'[slot] = new,
           \A s \in Slots \ {slot} : storage'[s] = storage[s]
    PROVE  Cardinality(InStorage(v)') = Cardinality(InStorage(v)) + One(v = new)
                                            - One(v = storage[slot])
<1>2. InStorage(v) \ {slot} = InStorage(v)' \ {slot} /\ IsFiniteSet(InStorage(v))
  BY Countable DEF InStorage
<1>3. (slot \in InStorage(v)' <=> v = new) /\ (slot \in InStorage(v) <=> v = storage[slot])
  BY DEF InStorage
<1>4. One(slot \in InStorage(v)') = One(v = new)
      /\ One(slot \in InStorage(v)) = One(v = storage[slot])
  BY <1>3 DEF One
<1>. QED
  BY <1>2, <1>4, OneChange

(* The same of the table. *)
LEMMA TableChange ==
    ASSUME NEW slot \in Slots, NEW new, NEW v, table'[slot] = new,
           \A s \in Slots \ {slot} : table'[s] = table[s]
    PROVE  Cardinality(InTable(v)') = Cardinality(InTable(v)) + One(v = new.v)
                                          - One(v = table[slot].v)
<1>2. InTable(v) \ {slot} = InTable(v)' \ {slot} /\ IsFiniteSet(InTable(v))
  BY Countable DEF InTable
<1>3. (slot \in InTable(v)' <=> v = new.v) /\ (slot \in InTable(v) <=> v = table[slot].v)
  BY DEF InTable
<1>4. One(slot \in InTable(v)') = One(v = new.v)
      /\ One(slot \in InTable(v)) = One(v = table[slot].v)
  BY <1>3 DEF One
<1>. QED
  BY <1>2, <1>4, OneChange

(* A queue that is disposed of hands the values it holds to the destructor.       *)
LEMMA TableCleared ==
    ASSUME NEW q \in Queues, NEW v \in Values,
           table' = [s \in Slots |-> IF s[1] = q THEN NoEntry ELSE table[s]]
    PROVE  Cardinality(InTable(v)) =
               Cardinality(InTable(v)') + Cardinality({a \in Addresses : table[<<q, a>>].v = v})
<1>. DEFINE A == {a \in Addresses : table[<<q, a>>].v = v}
            T == {s \in InTable(v) : s[1] = q}
<1>1. InTable(v) = InTable(v)' \cup T /\ InTable(v)' \cap T = {}
  <2>1. \A s \in Slots : s \in InTable(v)' <=> s \in InTable(v) /\ s[1] # q
    BY Countable DEF InTable, NoEntry
  <2>2. InTable(v) \subseteq Slots /\ InTable(v)' \subseteq Slots
    BY DEF InTable
  <2>. QED
    BY <2>1, <2>2
<1>2. Cardinality(T) = Cardinality(A)
  <2>1. IsFiniteSet(A)
    BY Countable
  <2>2. [a \in A |-> <<q, a>>] \in Bijection(A, T)
    <3>1. \A a \in A : <<q, a>> \in T
      BY DEF Slots, InTable
    <3>2. \A s \in T : s[2] \in A /\ s = <<q, s[2]>>
      <4>1. \A s \in Queues \X Addresses : s = <<s[1], s[2]>> /\ s[2] \in Addresses
        OBVIOUS
      <4>. QED
        BY <4>1 DEF Slots, InTable
    <3>. QED
      BY <3>1, <3>2 DEF Bijection, Injection, IsInjective, Surjection
  <2>. QED
    BY <2>1, <2>2, FS_Bijection DEF ExistsBijection
<1>3. /\ IsFiniteSet(T) /\ IsFiniteSet(InTable(v)')
      /\ Cardinality(T) \in Nat /\ Cardinality(InTable(v)') \in Nat
  BY Countable DEF InTable
<1>4. Cardinality({}) = 0
  BY FS_EmptySet
<1>5. Cardinality(InTable(v)' \cup T) = Cardinality(InTable(v)') + Cardinality(T)
  <2>1. Cardinality(InTable(v)' \cup T) =
            Cardinality(InTable(v)') + Cardinality(T) - Cardinality(InTable(v)' \cap T)
    BY <1>3, FS_Union
  <2>2. Cardinality(InTable(v)' \cap T) = 0
    BY <1>1, <1>4
  <2>. HIDE DEF T
  <2>. QED
    BY <1>3, <2>1, <2>2
<1>. QED
  BY <1>1, <1>2, <1>5

(* The counts of those that refer to a value are numbers. *)
LEMMA SetsCounted ==
    \A v : /\ Cardinality(InStorage(v)) \in Nat /\ Cardinality(InStorage(v)') \in Nat
           /\ Cardinality(InTable(v)) \in Nat /\ Cardinality(InTable(v)') \in Nat
           /\ Cardinality(Setters(v)) \in Nat /\ Cardinality(Setters(v)') \in Nat
  BY Countable DEF InStorage, InTable, Setters

(* A destructor call that is made takes its reference with it. *)
LEMMA RefsSum ==
    ASSUME RefsRight, \A v : Setters(v)' = Setters(v) /\ InStorage(v)' = InStorage(v)
                                /\ InTable(v)' = InTable(v),
           \A v \in Values : /\ refs'[v] - destroying'[v] = refs[v] - destroying[v]
                             /\ refs[v] \in Int /\ refs'[v] \in Int
                             /\ destroying[v] \in Int /\ destroying'[v] \in Int
    PROVE  RefsRight'
<1>1. ASSUME NEW v \in Values
      PROVE  refs'[v] = Cardinality(InStorage(v)') + Cardinality(InTable(v)')
                            + destroying'[v] + Cardinality(Setters(v)')
  BY SetsCounted DEF RefsRight
<1>. QED
  BY <1>1 DEF RefsRight

-----------------------------------------------------------------------------
(* What a step does to the call it belongs to. *)

(* No call is a call. *)
LEMMA IdleTyped == Idle \in CallType /\ Idle.at = "idle" /\ Idle.k = None /\ Idle.v = None
  BY DEF Idle, CallType

(* set_specific begins. *)
LEMMA SetBegins ==
    ASSUME TypeOK, NEW c \in Clients, NEW q \in Queues, NEW k \in Keys,
           NEW v \in Values \cup {None}, SetSpecific(c, q, k, v)
    PROVE  /\ call'[c].at = "set" /\ call'[c].q = q /\ call'[c].k = k /\ call'[c].v = v
           /\ call[c].at = "idle" /\ call'[c] # Idle
           /\ \A d \in Clients \ {c} : call'[d] = call[d]
           /\ call' \in [Clients -> CallType]
<1>. DEFINE new == [at |-> "set", q |-> q, k |-> k, v |-> v]
<1>1. /\ new \in CallType /\ new.at # "idle"
      /\ new.at = "set" /\ new.q = q /\ new.k = k /\ new.v = v
  BY DEF CallType
<1>2. call[c].at = "idle" /\ call' = [call EXCEPT ![c] = new]
  BY IdleTyped DEF SetSpecific
<1>. HIDE DEF new
<1>. QED
  BY <1>1, <1>2, Called, IdleTyped

(* The native call of set_specific has been made. *)
LEMMA SetGoesOn ==
    ASSUME TypeOK, CallsNamed, NEW c \in Clients, NativeSet(c)
    PROVE  /\ \/ call'[c] = Idle
              \/ /\ call'[c].at = "pop" /\ call'[c].v = None
                 /\ call'[c].q = call[c].q /\ call'[c].k = call[c].k
           /\ call'[c].at \in {"pop", "idle"}
           /\ \A d \in Clients \ {c} : call'[d] = call[d]
           /\ call' \in [Clients -> CallType]
<1>. DEFINE new == IF call[c].v = None THEN [call[c] EXCEPT !.at = "pop"] ELSE Idle
<1>1. call[c] \in CallType
  BY CallTyped
<1>2. new \in CallType
  BY <1>1, IdleTyped DEF CallType
<1>3. /\ new.at \in {"pop", "idle"}
      /\ new = Idle \/ (new.at = "pop" /\ new.v = None /\ new.q = call[c].q /\ new.k = call[c].k)
  BY <1>1, IdleTyped DEF CallType
<1>4. call' = [call EXCEPT ![c] = new]
  BY DEF NativeSet
<1>. HIDE DEF new
<1>. QED
  BY <1>2, <1>3, <1>4, Called

(* get_specific begins. *)
LEMMA GetBegins ==
    ASSUME TypeOK, NEW c \in Clients, NEW q \in Queues, NEW k \in Keys,
           NEW from \in {"queue", "current"}, GetSpecific(c, q, k, from)
    PROVE  /\ call'[c].at = from /\ call'[c].q = q /\ call'[c].k = k /\ call'[c].v = None
           /\ call[c].at = "idle" /\ call'[c] # Idle
           /\ \A d \in Clients \ {c} : call'[d] = call[d]
           /\ call' \in [Clients -> CallType]
<1>. DEFINE new == [at |-> from, q |-> q, k |-> k, v |-> None]
<1>1. /\ new \in CallType /\ new.at # "idle"
      /\ new.at = from /\ new.q = q /\ new.k = k /\ new.v = None
  BY DEF CallType
<1>2. call[c].at = "idle" /\ call' = [call EXCEPT ![c] = new]
  BY IdleTyped DEF GetSpecific
<1>. HIDE DEF new
<1>. QED
  BY <1>1, <1>2, Called, IdleTyped

(* get_specific has read what there is in one slot, or nothing.                   *)
LEMMA GetReads ==
    ASSUME TypeOK, CallsNamed, NEW c \in Clients, NativeGet(c)
    PROVE  /\ call'[c].at \in {"queueRead", "currentRead"}
           /\ call'[c].q = call[c].q /\ call'[c].k = call[c].k
           /\ \E slot \in Slots \cup {None} :
                  /\ intact' = [intact EXCEPT ![c] = slot]
                  /\ slot # None => call'[c].v = table[slot].v
           /\ \A d \in Clients \ {c} : call'[d] = call[d]
           /\ call' \in [Clients -> CallType]
<1>1. call[c].at \in {"queue", "current"} /\ call[c].q \in Queues /\ call[c].k \in Keys
  BY CallTyped DEF NativeGet
<1>. DEFINE at == IF call[c].at = "queue" THEN "queueRead" ELSE "currentRead"
            v(slot) == IF slot = None THEN None ELSE table[slot].v
            new(slot) == [at |-> at, q |-> call[c].q, k |-> call[c].k, v |-> v(slot)]
<1>2. PICK slot \in Slots \cup {None} :
          call' = [call EXCEPT ![c] = new(slot)] /\ intact' = [intact EXCEPT ![c] = slot]
  BY DEF NativeGet
<1>3. at \in {"queueRead", "currentRead"}
  OBVIOUS
<1>4. v(slot) \in Values \cup {None}
  BY DEF TypeOK
<1>. HIDE DEF at, v
<1>5. new(slot) \in CallType
  BY <1>1, <1>3, <1>4 DEF CallType
<1>6. /\ new(slot).at = at /\ new(slot).q = call[c].q /\ new(slot).k = call[c].k
      /\ new(slot).v = v(slot)
  OBVIOUS
<1>. HIDE DEF new
<1>7. /\ call'[c] = new(slot) /\ \A d \in Clients \ {c} : call'[d] = call[d]
      /\ call' \in [Clients -> CallType]
  BY <1>2, <1>5, Called
<1>8. slot # None => v(slot) = table[slot].v
  BY DEF v
<1>. QED
  BY <1>2, <1>3, <1>6, <1>7, <1>8

(* References that are counted right are not negative. *)
LEMMA RefsNat ==
    ASSUME RefsRight', refs' \in [Values -> Int], destroying' \in [Values -> Nat]
    PROVE  refs' \in [Values -> Nat]
<1>1. ASSUME NEW v \in Values
      PROVE  refs'[v] \in Nat
  BY SetsCounted DEF RefsRight
<1>. QED
  BY <1>1

(* No new key, no change of table: keys stay apart. *)
LEMMA KeysKept ==
    ASSUME KeysApart, \A j \in Keys : KeyAlive(j)' => KeyAlive(j),
           UNCHANGED table, kept \subseteq kept'
    PROVE  KeysApart'
  BY DEF KeysApart

(* Every step keeps the references right.                                         *)
LEMMA RefsStep ==
    ASSUME SpecificInv, [Next]_vars
    PROVE  RefsRight'
<1>0. TypeOK /\ RefsRight /\ CallsNamed /\ ReadHeld /\ KeysApart
  BY DEF SpecificInv
<1>. USE <1>0
<1>1. ASSUME NEW k \in Keys, NewKey(k)
      PROVE  RefsRight'
  BY <1>1, RefsUntouched DEF NewKey
<1>2. ASSUME NEW k \in Keys, DropKey(k)
      PROVE  RefsRight'
  BY <1>2, RefsUntouched DEF DropKey
<1>3. ASSUME NEW v \in Values, DropValue(v)
      PROVE  RefsRight'
  BY <1>3, RefsUntouched DEF DropValue
<1>4. ASSUME NEW v \in Values, Destructor(v)
      PROVE  RefsRight'
  <2>1. \A u : Setters(u)' = Setters(u) /\ InStorage(u)' = InStorage(u) /\ InTable(u)' = InTable(u)
    BY <1>4 DEF Destructor, Setters, InStorage, InTable
  <2>2. ASSUME NEW u \in Values
        PROVE  /\ refs'[u] - destroying'[u] = refs[u] - destroying[u]
               /\ refs[u] \in Int /\ refs'[u] \in Int
               /\ destroying[u] \in Int /\ destroying'[u] \in Int
    <3>1. /\ refs'[u] = IF u = v THEN refs[u] - 1 ELSE refs[u]
          /\ destroying'[u] = IF u = v THEN destroying[u] - 1 ELSE destroying[u]
      BY <1>4 DEF Destructor, TypeOK
    <3>2. refs[u] \in Int /\ destroying[u] \in Int
      BY DEF TypeOK
    <3>. QED
      BY <3>1, <3>2
  <2>. QED
    BY <2>1, <2>2, RefsSum
<1>5. ASSUME NEW c \in Clients, NEW q \in Queues, NEW k \in Keys, NEW v \in Values \cup {None},
             SetSpecific(c, q, k, v)
      PROVE  RefsRight'
  <2>1. call'[c].at = "set" /\ call'[c].v = v /\ call[c].at = "idle"
        /\ \A d \in Clients \ {c} : call'[d] = call[d]
    BY <1>5, SetBegins
  <2>2. \A u : InTable(u)' = InTable(u)
    BY <1>5 DEF SetSpecific, InTable
  <2>3. ASSUME NEW u \in Values
        PROVE  Cardinality(Setters(u)') = Cardinality(Setters(u)) + One(u = v)
    <3>1. c \notin Setters(u) /\ (c \in Setters(u)' <=> u = v)
      BY <2>1 DEF Setters
    <3>2. One(c \in Setters(u)') = One(u = v) /\ One(c \in Setters(u)) = 0
      BY <3>1 DEF One
    <3>3. Cardinality(Setters(u)') = Cardinality(Setters(u)) + One(c \in Setters(u)')
                                          - One(c \in Setters(u))
      BY <2>1, SettersChange
    <3>. QED
      BY <3>2, <3>3, SetsCounted DEF One
  <2>4. CASE v = None
    <3>1. UNCHANGED <<storage, refs, destroying>>
      BY <1>5, <2>4, Countable DEF SetSpecific, TypeOK
    <3>2. \A u : InStorage(u)' = InStorage(u)
      BY <3>1 DEF InStorage
    <3>3. \A u \in Values : Cardinality(Setters(u)') = Cardinality(Setters(u))
      BY <2>3, <2>4, Countable, SetsCounted DEF One
    <3>. QED
      BY <2>2, <3>1, <3>2, <3>3 DEF RefsRight
  <2>5. CASE v # None
    <3>. DEFINE old == storage[<<q, Address[k]>>]
    <3>1. /\ storage' = [storage EXCEPT ![<<q, Address[k]>>] = v]
          /\ refs' = [u \in Values |-> refs[u] + Handed(v)[u] + One(u = v) - One(u = old)]
          /\ destroying' = destroying
      BY <1>5, <2>5 DEF SetSpecific
    <3>2. <<q, Address[k]>> \in Slots
      BY Countable DEF Slots
    <3>3. ASSUME NEW u \in Values
          PROVE  Cardinality(InStorage(u)') = Cardinality(InStorage(u)) + One(u = v) - One(u = old)
      <4>1. /\ storage'[<<q, Address[k]>>] = v
            /\ \A s \in Slots \ {<<q, Address[k]>>} : storage'[s] = storage[s]
        BY <3>1, <3>2 DEF TypeOK
      <4>. QED
        BY <3>2, <4>1, StorageChange
    <3>4. ASSUME NEW u \in Values
          PROVE  refs'[u] = refs[u] + One(u = v) + One(u = v) - One(u = old)
      BY <3>1 DEF Handed
    <3>. HIDE DEF old
    <3>5. ASSUME NEW u \in Values
          PROVE  refs'[u] = Cardinality(InStorage(u)') + Cardinality(InTable(u)')
                                + destroying'[u] + Cardinality(Setters(u)')
      <4>1. One(u = v) \in Int /\ One(u = old) \in Int /\ destroying[u] \in Int /\ refs[u] \in Int
        BY DEF One, TypeOK
      <4>. QED
        BY <2>2, <2>3, <3>1, <3>3, <3>4, <4>1, SetsCounted DEF RefsRight
    <3>. QED
      BY <3>5 DEF RefsRight
  <2>. QED
    BY <2>4, <2>5
<1>6. ASSUME NEW c \in Clients, NEW q \in Queues, NEW k \in Keys, NEW from \in {"queue", "current"},
             GetSpecific(c, q, k, from)
      PROVE  RefsRight'
  <2>1. call'[c].at = from /\ call[c].at = "idle" /\ \A d \in Clients \ {c} : call'[d] = call[d]
    BY <1>6, GetBegins
  <2>. QED
    BY <1>6, <2>1, RefsUntouched DEF GetSpecific
<1>7. ASSUME NEW c \in Clients, NativeSet(c)
      PROVE  RefsRight'
  <2>. DEFINE slot == <<call[c].q, Address[call[c].k]>>
              v == call[c].v
              old == table[slot].v
              new == IF v = None THEN NoEntry ELSE [v |-> v, by |-> call[c].k]
  <2>1. /\ call[c].at = "set" /\ slot \in Slots /\ v \in Values \cup {None}
        /\ table' = [table EXCEPT ![slot] = new] /\ new.v = v
        /\ destroying' = [u \in Values |-> destroying[u] + One(u = old)]
        /\ UNCHANGED <<storage, refs>>
    BY <1>7, CallTyped DEF NativeSet, NoEntry
  <2>2. call'[c].at \in {"pop", "idle"} /\ \A d \in Clients \ {c} : call'[d] = call[d]
    BY <1>7, SetGoesOn
  <2>3. \A u : InStorage(u)' = InStorage(u)
    BY <2>1 DEF InStorage
  <2>4. ASSUME NEW u \in Values
        PROVE  Cardinality(InTable(u)') = Cardinality(InTable(u)) + One(u = v) - One(u = old)
    <3>1. table'[slot] = new /\ \A s \in Slots \ {slot} : table'[s] = table[s]
      BY <2>1 DEF TypeOK
    <3>. HIDE DEF slot, new, v
    <3>2. Cardinality(InTable(u)') = Cardinality(InTable(u)) + One(u = new.v) - One(u = old)
      BY <2>1, <3>1, TableChange
    <3>. QED
      BY <2>1, <3>2
  <2>5. ASSUME NEW u \in Values
        PROVE  Cardinality(Setters(u)') = Cardinality(Setters(u)) - One(u = v)
    <3>1. c \notin Setters(u)' /\ (c \in Setters(u) <=> u = v)
      BY <2>1, <2>2 DEF Setters
    <3>2. One(c \in Setters(u)) = One(u = v) /\ One(c \in Setters(u)') = 0
      BY <3>1 DEF One
    <3>3. Cardinality(Setters(u)') = Cardinality(Setters(u)) + One(c \in Setters(u)')
                                          - One(c \in Setters(u))
      BY <2>2, SettersChange
    <3>. QED
      BY <3>2, <3>3, SetsCounted DEF One
  <2>6. \A u \in Values : destroying'[u] = destroying[u] + One(u = old)
    BY <2>1
  <2>7. refs' = refs
    BY <2>1
  <2>. HIDE DEF slot, v, old, new
  <2>8. ASSUME NEW u \in Values
        PROVE  refs'[u] = Cardinality(InStorage(u)') + Cardinality(InTable(u)')
                              + destroying'[u] + Cardinality(Setters(u)')
    <3>1. One(u = v) \in Int /\ One(u = old) \in Int /\ destroying[u] \in Int /\ refs[u] \in Int
      BY DEF One, TypeOK
    <3>. QED
      BY <2>3, <2>4, <2>5, <2>6, <2>7, <3>1, SetsCounted DEF RefsRight
  <2>. QED
    BY <2>8 DEF RefsRight
<1>8. ASSUME NEW c \in Clients, PopStorage(c)
      PROVE  RefsRight'
  <2>. DEFINE slot == <<call[c].q, Address[call[c].k]>>
              old == storage[slot]
  <2>1. /\ call[c].at = "pop" /\ slot \in Slots
        /\ storage' = [storage EXCEPT ![slot] = None]
        /\ refs' = [u \in Values |-> refs[u] - One(u = old)]
        /\ UNCHANGED <<table, destroying>>
    BY <1>8, CallTyped DEF PopStorage
  <2>2. call'[c] = Idle /\ \A d \in Clients \ {c} : call'[d] = call[d]
    BY <1>8, IdleTyped, Called DEF PopStorage
  <2>3. \A u : InTable(u)' = InTable(u) /\ Setters(u)' = Setters(u)
    BY <2>1, <2>2 DEF InTable, Setters, Idle
  <2>4. ASSUME NEW u \in Values
        PROVE  Cardinality(InStorage(u)') = Cardinality(InStorage(u)) - One(u = old)
    <3>1. Cardinality(InStorage(u)') = Cardinality(InStorage(u)) + One(u = None) - One(u = old)
      <4>1. /\ storage'[slot] = None
            /\ \A s \in Slots \ {slot} : storage'[s] = storage[s]
        BY <2>1 DEF TypeOK
      <4>. QED
        BY <2>1, <4>1, StorageChange
    <3>2. One(u = None) = 0
      BY Countable DEF One
    <3>. HIDE DEF old
    <3>. QED
      BY <3>1, <3>2, SetsCounted DEF One
  <2>5. destroying' = destroying /\ \A u \in Values : refs'[u] = refs[u] - One(u = old)
    BY <2>1
  <2>. HIDE DEF slot, old
  <2>6. ASSUME NEW u \in Values
        PROVE  refs'[u] = Cardinality(InStorage(u)') + Cardinality(InTable(u)')
                              + destroying'[u] + Cardinality(Setters(u)')
    <3>1. One(u = old) \in Int /\ destroying[u] \in Int /\ refs[u] \in Int
      BY DEF One, TypeOK
    <3>. QED
      BY <2>3, <2>4, <2>5, <3>1, SetsCounted DEF RefsRight
  <2>. QED
    BY <2>6 DEF RefsRight
<1>9. ASSUME NEW c \in Clients, NativeGet(c)
      PROVE  RefsRight'
  <2>1. call'[c].at \in {"queueRead", "currentRead"} /\ \A d \in Clients \ {c} : call'[d] = call[d]
    BY <1>9, GetReads
  <2>2. call[c].at \in {"queue", "current"}
    BY <1>9 DEF NativeGet
  <2>. QED
    BY <1>9, <2>1, <2>2, RefsUntouched DEF NativeGet
<1>10. ASSUME NEW c \in Clients, GetReturn(c)
      PROVE  RefsRight'
  <2>1. call'[c] = Idle /\ \A d \in Clients \ {c} : call'[d] = call[d]
    BY <1>10, IdleTyped, Called DEF GetReturn
  <2>. QED
    BY <1>10, <2>1, RefsUntouched DEF GetReturn, Reading, Idle
<1>11. ASSUME NEW q \in Queues, Dealloc(q)
      PROVE  RefsRight'
  BY <1>11, RefsUntouched DEF Dealloc
<1>12. ASSUME NEW q \in Queues, NativeDispose(q)
      PROVE  RefsRight'
  <2>1. /\ table' = [s \in Slots |-> IF s[1] = q THEN NoEntry ELSE table[s]]
        /\ destroying' = [u \in Values |->
              destroying[u] + Cardinality({a \in Addresses : table[<<q, a>>].v = u})]
        /\ UNCHANGED <<refs, storage, call>>
    BY <1>12 DEF NativeDispose
  <2>2. \A u : InStorage(u)' = InStorage(u) /\ Setters(u)' = Setters(u)
    BY <2>1 DEF InStorage, Setters
  <2>3. ASSUME NEW u \in Values
        PROVE  refs'[u] = Cardinality(InStorage(u)') + Cardinality(InTable(u)')
                              + destroying'[u] + Cardinality(Setters(u)')
    <3>. DEFINE n == Cardinality({a \in Addresses : table[<<q, a>>].v = u})
    <3>0. destroying[u] \in Int /\ refs[u] \in Int
      BY DEF TypeOK
    <3>1. n \in Nat
      BY Countable
    <3>2. Cardinality(InTable(u)) = Cardinality(InTable(u)') + n
      BY <2>1, TableCleared
    <3>3. destroying'[u] = destroying[u] + n /\ refs' = refs
      BY <2>1
    <3>. HIDE DEF n
    <3>. QED
      BY <2>2, <3>0, <3>1, <3>2, <3>3, SetsCounted DEF RefsRight
  <2>. QED
    BY <2>3 DEF RefsRight
<1>13. ASSUME NEW q \in Queues, Reuse(q)
      PROVE  RefsRight'
  BY <1>13, RefsUntouched DEF Reuse
<1>14. CASE UNCHANGED vars
  BY <1>14, RefsUntouched DEF vars
<1>. QED
  BY <1>1, <1>2, <1>3, <1>4, <1>5, <1>6, <1>7, <1>8, <1>9, <1>10, <1>11, <1>12, <1>13, <1>14 DEF
       Next

(* Every step keeps the types: no reference count goes below zero.                *)
LEMMA TypeStep ==
    ASSUME SpecificInv, [Next]_vars
    PROVE  TypeOK'
<1>0. TypeOK /\ RefsRight /\ CallsNamed /\ ReadHeld /\ KeysApart
  BY DEF SpecificInv
<1>. USE <1>0
<1>1. ASSUME NEW k \in Keys, NewKey(k)
      PROVE  TypeOK'
  BY <1>1 DEF NewKey, TypeOK
<1>2. ASSUME NEW k \in Keys, DropKey(k)
      PROVE  TypeOK'
  BY <1>2 DEF DropKey, TypeOK
<1>3. ASSUME NEW v \in Values, DropValue(v)
      PROVE  TypeOK'
  BY <1>3 DEF DropValue, TypeOK
<1>4. ASSUME NEW v \in Values, Destructor(v)
      PROVE  TypeOK'
  <2>6. refs' \in [Values -> Int]
    BY <1>4 DEF Destructor, TypeOK
  <2>7. destroying' \in [Values -> Nat]
    BY <1>4 DEF Destructor, TypeOK
  <2>8. refs' \in [Values -> Nat]
    BY <2>6, <2>7, RefsStep, RefsNat
  <2>. QED
    BY <1>4, <2>7, <2>8 DEF Destructor, TypeOK
<1>5. ASSUME NEW c \in Clients, NEW q \in Queues, NEW k \in Keys, NEW v \in Values \cup {None},
             SetSpecific(c, q, k, v)
      PROVE  TypeOK'
  <2>1. call' \in [Clients -> CallType]
    BY <1>5, SetBegins
  <2>2. \A b : One(b) \in Int
    BY DEF One
  <2>3. <<q, Address[k]>> \in Slots
    BY Countable DEF Slots
  <2>6. refs' \in [Values -> Int]
    <3>1. CASE v = None
      BY <1>5, <3>1, Countable DEF SetSpecific, TypeOK
    <3>2. CASE v # None
      <4>1. refs' = [u \in Values |-> refs[u] + Handed(v)[u] + One(u = v)
                                         - One(u = storage[<<q, Address[k]>>])]
        BY <1>5, <3>2 DEF SetSpecific
      <4>2. \A u \in Values : refs[u] \in Int /\ Handed(v)[u] \in Int
        BY <2>2 DEF TypeOK, Handed
      <4>. QED
        BY <2>2, <4>1, <4>2
    <3>. QED
      BY <3>1, <3>2
  <2>7. destroying' \in [Values -> Nat]
    BY <1>5 DEF SetSpecific, TypeOK
  <2>8. refs' \in [Values -> Nat]
    BY <2>6, <2>7, RefsStep, RefsNat
  <2>9. storage' \in [Slots -> Values \cup {None}]
    BY <1>5, <2>3 DEF SetSpecific, TypeOK
  <2>10. /\ kept' \subseteq Keys /\ sets' \in 0..MaxSets
         /\ UNCHANGED <<key, table, held, wrapper, intact>>
    BY <1>5, SpecificAssumption DEF SetSpecific, Keep, TypeOK
  <2>. QED
    BY <2>1, <2>7, <2>8, <2>9, <2>10 DEF TypeOK, CallType
<1>6. ASSUME NEW c \in Clients, NEW q \in Queues, NEW k \in Keys, NEW from \in {"queue", "current"},
             GetSpecific(c, q, k, from)
      PROVE  TypeOK'
  <2>1. call' \in [Clients -> CallType]
    BY <1>6, GetBegins DEF GetSpecific
  <2>. QED
    BY <1>6, <2>1 DEF GetSpecific, TypeOK, CallType
<1>7. ASSUME NEW c \in Clients, NativeSet(c)
      PROVE  TypeOK'
  <2>. DEFINE slot == <<call[c].q, Address[call[c].k]>>
              v == call[c].v
              new == IF v = None THEN NoEntry ELSE [v |-> v, by |-> call[c].k]
  <2>1. call' \in [Clients -> CallType]
    BY <1>7, SetGoesOn
  <2>2. \A b : One(b) \in Nat
    BY DEF One
  <2>3. new \in [v : Values \cup {None}, by : Keys \cup {None}] /\ slot \in Slots
    BY <1>7, CallTyped DEF NativeSet, NoEntry
  <2>4. table' = [table EXCEPT ![slot] = new]
    BY <1>7 DEF NativeSet
  <2>5. table' \in [Slots -> [v : Values \cup {None}, by : Keys \cup {None}]]
    <3>. HIDE DEF slot, new
    <3>. QED
      BY <2>3, <2>4 DEF TypeOK
  <2>6. destroying' = [u \in Values |-> destroying[u] + One(u = table[slot].v)]
    BY <1>7 DEF NativeSet
  <2>7. destroying' \in [Values -> Nat]
    BY <2>2, <2>6 DEF TypeOK
  <2>9. intact' \in [Clients -> Slots \cup {None}]
    BY <1>7 DEF NativeSet, TypeOK
  <2>10. UNCHANGED <<key, kept, storage, refs, held, wrapper, sets>>
    BY <1>7 DEF NativeSet
  <2>. QED
    BY <2>1, <2>5, <2>7, <2>9, <2>10 DEF TypeOK, CallType
<1>8. ASSUME NEW c \in Clients, PopStorage(c)
      PROVE  TypeOK'
  <2>1. call' \in [Clients -> CallType]
    BY <1>8, IdleTyped, Called DEF PopStorage
  <2>2. \A b : One(b) \in Int
    BY DEF One
  <2>3. storage' \in [Slots -> Values \cup {None}]
    BY <1>8 DEF PopStorage, TypeOK
  <2>6. refs' \in [Values -> Int]
    <3>1. \A u \in Values : refs[u] \in Int
      BY DEF TypeOK
    <3>. QED
      BY <1>8, <2>2, <3>1 DEF PopStorage
  <2>7. destroying' \in [Values -> Nat]
    BY <1>8 DEF PopStorage, TypeOK
  <2>8. refs' \in [Values -> Nat]
    BY <2>6, <2>7, RefsStep, RefsNat
  <2>9. UNCHANGED <<key, kept, table, held, wrapper, sets, intact>>
    BY <1>8 DEF PopStorage
  <2>. QED
    BY <2>1, <2>3, <2>7, <2>8, <2>9 DEF TypeOK, CallType
<1>9. ASSUME NEW c \in Clients, NativeGet(c)
      PROVE  TypeOK'
  <2>1. call' \in [Clients -> CallType]
    BY <1>9, GetReads DEF NativeGet
  <2>2. intact' \in [Clients -> Slots \cup {None}]
    BY <1>9, GetReads DEF TypeOK
  <2>3. UNCHANGED <<key, kept, storage, table, destroying, refs, held, wrapper, sets>>
    BY <1>9 DEF NativeGet
  <2>. QED
    BY <2>1, <2>2, <2>3 DEF TypeOK, CallType
<1>10. ASSUME NEW c \in Clients, GetReturn(c)
      PROVE  TypeOK'
  <2>1. call' \in [Clients -> CallType]
    BY <1>10, IdleTyped, Called DEF GetReturn
  <2>2. call[c].v \in Values \cup {None}
    BY CallTyped
  <2>. QED
    BY <1>10, <2>1, <2>2 DEF GetReturn, TypeOK, CallType
<1>11. ASSUME NEW q \in Queues, Dealloc(q)
      PROVE  TypeOK'
  BY <1>11 DEF Dealloc, TypeOK
<1>12. ASSUME NEW q \in Queues, NativeDispose(q)
      PROVE  TypeOK'
  <2>1. NoEntry \in [v : Values \cup {None}, by : Keys \cup {None}]
    BY DEF NoEntry
  <2>2. table' \in [Slots -> [v : Values \cup {None}, by : Keys \cup {None}]]
    BY <1>12, <2>1 DEF NativeDispose, TypeOK
  <2>3. \A u : Cardinality({a \in Addresses : table[<<q, a>>].v = u}) \in Nat
    BY Countable
  <2>4. destroying' = [u \in Values |->
            destroying[u] + Cardinality({a \in Addresses : table[<<q, a>>].v = u})]
    BY <1>12 DEF NativeDispose
  <2>5. destroying' \in [Values -> Nat]
    <3>. DEFINE n(u) == Cardinality({a \in Addresses : table[<<q, a>>].v = u})
    <3>1. \A u : n(u) \in Nat
      BY <2>3
    <3>2. destroying' = [u \in Values |-> destroying[u] + n(u)]
      BY <2>4
    <3>. HIDE DEF n
    <3>. QED
      BY <3>1, <3>2 DEF TypeOK
  <2>6. intact' \in [Clients -> Slots \cup {None}]
    BY <1>12 DEF NativeDispose, TypeOK
  <2>7. wrapper' \in [Queues -> {"alive", "released", "gone"}]
    BY <1>12 DEF NativeDispose, TypeOK
  <2>8. UNCHANGED <<key, kept, storage, refs, held, call, sets>>
    BY <1>12 DEF NativeDispose
  <2>. QED
    BY <2>2, <2>5, <2>6, <2>7, <2>8 DEF TypeOK
<1>13. ASSUME NEW q \in Queues, Reuse(q)
      PROVE  TypeOK'
  BY <1>13 DEF Reuse, TypeOK
<1>14. CASE UNCHANGED vars
  BY <1>14 DEF vars, TypeOK
<1>. QED
  BY <1>1, <1>2, <1>3, <1>4, <1>5, <1>6, <1>7, <1>8, <1>9, <1>10, <1>11, <1>12, <1>13, <1>14 DEF
       Next

(* Every step keeps calls right about what they name.                             *)
LEMMA CallsStep ==
    ASSUME SpecificInv, [Next]_vars
    PROVE  CallsNamed'
<1>0. TypeOK /\ RefsRight /\ CallsNamed /\ ReadHeld /\ KeysApart
  BY DEF SpecificInv
<1>. USE <1>0
<1>1. ASSUME NEW k \in Keys, NewKey(k)
      PROVE  CallsNamed'
  BY <1>1 DEF NewKey, CallsNamed
<1>2. ASSUME NEW k \in Keys, DropKey(k)
      PROVE  CallsNamed'
  BY <1>2 DEF DropKey, CallsNamed
<1>3. ASSUME NEW v \in Values, DropValue(v)
      PROVE  CallsNamed'
  BY <1>3 DEF DropValue, CallsNamed
<1>4. ASSUME NEW v \in Values, Destructor(v)
      PROVE  CallsNamed'
  BY <1>4 DEF Destructor, CallsNamed
<1>5. ASSUME NEW c \in Clients, NEW q \in Queues, NEW k \in Keys, NEW v \in Values \cup {None},
             SetSpecific(c, q, k, v)
      PROVE  CallsNamed'
  <2>1. kept' = kept \cup {k}
    BY <1>5 DEF SetSpecific, Keep
  <2>2. /\ call'[c].at = "set" /\ call'[c].q = q /\ call'[c].k = k
        /\ call'[c] # Idle /\ \A d \in Clients \ {c} : call'[d] = call[d]
    BY <1>5, SetBegins
  <2>. QED
    BY <2>1, <2>2, IdleTyped DEF CallsNamed
<1>6. ASSUME NEW c \in Clients, NEW q \in Queues, NEW k \in Keys, NEW from \in {"queue", "current"},
             GetSpecific(c, q, k, from)
      PROVE  CallsNamed'
  <2>1. kept' = kept
    BY <1>6 DEF GetSpecific
  <2>. QED
    BY <1>6, <2>1, GetBegins, IdleTyped DEF CallsNamed
<1>7. ASSUME NEW c \in Clients, NativeSet(c)
      PROVE  CallsNamed'
  <2>1. kept' = kept /\ call[c].at = "set"
    BY <1>7 DEF NativeSet
  <2>. QED
    BY <1>7, <2>1, SetGoesOn, IdleTyped DEF CallsNamed
<1>8. ASSUME NEW c \in Clients, PopStorage(c)
      PROVE  CallsNamed'
  <2>1. call'[c] = Idle /\ (\A d \in Clients \ {c} : call'[d] = call[d]) /\ kept' = kept
    BY <1>8, IdleTyped, Called DEF PopStorage
  <2>. QED
    BY <2>1, IdleTyped DEF CallsNamed
<1>9. ASSUME NEW c \in Clients, NativeGet(c)
      PROVE  CallsNamed'
  <2>1. kept' = kept /\ call[c].at \in {"queue", "current"}
    BY <1>9 DEF NativeGet
  <2>. QED
    BY <1>9, <2>1, GetReads, IdleTyped DEF CallsNamed
<1>10. ASSUME NEW c \in Clients, GetReturn(c)
      PROVE  CallsNamed'
  <2>1. call'[c] = Idle /\ (\A d \in Clients \ {c} : call'[d] = call[d]) /\ kept' = kept
    BY <1>10, IdleTyped, Called DEF GetReturn
  <2>. QED
    BY <2>1, IdleTyped DEF CallsNamed
<1>11. ASSUME NEW q \in Queues, Dealloc(q)
      PROVE  CallsNamed'
  BY <1>11 DEF Dealloc, CallsNamed
<1>12. ASSUME NEW q \in Queues, NativeDispose(q)
      PROVE  CallsNamed'
  BY <1>12 DEF NativeDispose, CallsNamed
<1>13. ASSUME NEW q \in Queues, Reuse(q)
      PROVE  CallsNamed'
  BY <1>13 DEF Reuse, CallsNamed
<1>14. CASE UNCHANGED vars
  BY <1>14 DEF vars, CallsNamed
<1>. QED
  BY <1>1, <1>2, <1>3, <1>4, <1>5, <1>6, <1>7, <1>8, <1>9, <1>10, <1>11, <1>12, <1>13, <1>14 DEF
       Next

(* No step but one that writes it changes where a thread has read.                *)
LEMMA ReadStep ==
    ASSUME SpecificInv, [Next]_vars
    PROVE  ReadHeld'
<1>0. TypeOK /\ RefsRight /\ CallsNamed /\ ReadHeld /\ KeysApart
  BY DEF SpecificInv
<1>. USE <1>0
<1>1. ASSUME NEW k \in Keys, NewKey(k)
      PROVE  ReadHeld'
  BY <1>1 DEF NewKey, ReadHeld, Reading
<1>2. ASSUME NEW k \in Keys, DropKey(k)
      PROVE  ReadHeld'
  BY <1>2 DEF DropKey, ReadHeld, Reading
<1>3. ASSUME NEW v \in Values, DropValue(v)
      PROVE  ReadHeld'
  BY <1>3 DEF DropValue, ReadHeld, Reading
<1>4. ASSUME NEW v \in Values, Destructor(v)
      PROVE  ReadHeld'
  BY <1>4 DEF Destructor, ReadHeld, Reading
<1>5. ASSUME NEW c \in Clients, NEW q \in Queues, NEW k \in Keys, NEW v \in Values \cup {None},
             SetSpecific(c, q, k, v)
      PROVE  ReadHeld'
  <2>1. table' = table /\ intact' = intact
    BY <1>5 DEF SetSpecific
  <2>3. call[c].at = "idle"
    BY <1>5, SetBegins
  <2>2. call'[c].at = "set" /\ \A d \in Clients \ {c} : call'[d] = call[d]
    BY <1>5, SetBegins
  <2>. QED
    BY <2>1, <2>2, <2>3 DEF ReadHeld, Reading
<1>6. ASSUME NEW c \in Clients, NEW q \in Queues, NEW k \in Keys, NEW from \in {"queue", "current"},
             GetSpecific(c, q, k, from)
      PROVE  ReadHeld'
  <2>1. table' = table /\ intact' = intact
    BY <1>6 DEF GetSpecific
  <2>. QED
    BY <1>6, <2>1, GetBegins DEF ReadHeld, Reading
<1>7. ASSUME NEW c \in Clients, NativeSet(c)
      PROVE  ReadHeld'
  <2>. DEFINE slot == <<call[c].q, Address[call[c].k]>>
  <2>1. /\ slot \in Slots /\ \A s \in Slots \ {slot} : table'[s] = table[s]
        /\ \A d \in Clients : intact'[d] = IF intact[d] = slot THEN None ELSE intact[d]
    BY <1>7, CallTyped DEF NativeSet, TypeOK
  <2>2. call[c].at = "set" /\ \A d \in Clients \ {c} : call'[d] = call[d]
    BY <1>7, SetGoesOn DEF NativeSet
  <2>. HIDE DEF slot
  <2>3. ASSUME NEW d \in Clients, intact'[d] # None
        PROVE  Reading(d)' /\ table'[intact'[d]].v = call'[d].v
    <3>1. intact[d] # slot /\ intact'[d] = intact[d] /\ intact[d] \in Slots
      BY <2>1, <2>3 DEF TypeOK
    <3>2. Reading(d) /\ table[intact[d]].v = call[d].v
      BY <2>3, <3>1 DEF ReadHeld
    <3>3. call'[d] = call[d]
      BY <2>2, <3>2 DEF Reading
    <3>. QED
      BY <2>1, <3>1, <3>2, <3>3 DEF Reading
  <2>. QED
    BY <2>3 DEF ReadHeld
<1>8. ASSUME NEW c \in Clients, PopStorage(c)
      PROVE  ReadHeld'
  <2>1. /\ call'[c] = Idle /\ \A d \in Clients \ {c} : call'[d] = call[d]
        /\ table' = table /\ intact' = intact /\ call[c].at = "pop"
    BY <1>8, IdleTyped, Called DEF PopStorage
  <2>. QED
    BY <2>1 DEF ReadHeld, Reading
<1>9. ASSUME NEW c \in Clients, NativeGet(c)
      PROVE  ReadHeld'
  <2>1. table' = table /\ call'[c].at \in {"queueRead", "currentRead"}
        /\ \A d \in Clients \ {c} : call'[d] = call[d]
    BY <1>9, GetReads DEF NativeGet
  <2>2. PICK slot \in Slots \cup {None} :
            /\ intact' = [intact EXCEPT ![c] = slot]
            /\ slot # None => call'[c].v = table[slot].v
    BY <1>9, GetReads
  <2>3. intact'[c] = slot /\ \A d \in Clients \ {c} : intact'[d] = intact[d]
    BY <2>2 DEF TypeOK
  <2>. QED
    BY <2>1, <2>2, <2>3 DEF ReadHeld, Reading
<1>10. ASSUME NEW c \in Clients, GetReturn(c)
      PROVE  ReadHeld'
  <2>1. /\ call'[c] = Idle /\ \A d \in Clients \ {c} : call'[d] = call[d]
        /\ table' = table
        /\ intact'[c] = None /\ \A d \in Clients \ {c} : intact'[d] = intact[d]
    BY <1>10, IdleTyped, Called DEF GetReturn, TypeOK
  <2>. QED
    BY <2>1 DEF ReadHeld, Reading
<1>11. ASSUME NEW q \in Queues, Dealloc(q)
      PROVE  ReadHeld'
  BY <1>11 DEF Dealloc, ReadHeld, Reading
<1>12. ASSUME NEW q \in Queues, NativeDispose(q)
      PROVE  ReadHeld'
  <2>1. /\ table' = [s \in Slots |-> IF s[1] = q THEN NoEntry ELSE table[s]] /\ call' = call
        /\ \A d \in Clients :
              intact'[d] = IF intact[d] \in {q} \X Addresses THEN None ELSE intact[d]
    BY <1>12 DEF NativeDispose
  <2>2. ASSUME NEW d \in Clients, intact'[d] # None
        PROVE  Reading(d)' /\ table'[intact'[d]].v = call'[d].v
    <3>1. intact'[d] = intact[d] /\ intact[d] \in Slots /\ intact[d] \notin {q} \X Addresses
      BY <2>1, <2>2 DEF TypeOK
    <3>2. intact[d][1] # q
      BY <3>1 DEF Slots
    <3>3. Reading(d) /\ table[intact[d]].v = call[d].v
      BY <2>2, <3>1 DEF ReadHeld
    <3>. QED
      BY <2>1, <3>1, <3>2, <3>3 DEF Reading
  <2>. QED
    BY <2>2 DEF ReadHeld
<1>13. ASSUME NEW q \in Queues, Reuse(q)
      PROVE  ReadHeld'
  BY <1>13 DEF Reuse, ReadHeld, Reading
<1>14. CASE UNCHANGED vars
  BY <1>14 DEF vars, ReadHeld, Reading
<1>. QED
  BY <1>1, <1>2, <1>3, <1>4, <1>5, <1>6, <1>7, <1>8, <1>9, <1>10, <1>11, <1>12, <1>13, <1>14 DEF
       Next

(* Every step keeps keys that are alive apart.                                    *)
LEMMA KeysStep ==
    ASSUME SpecificInv, [Next]_vars
    PROVE  KeysApart'
<1>0. TypeOK /\ RefsRight /\ CallsNamed /\ ReadHeld /\ KeysApart
  BY DEF SpecificInv
<1>. USE <1>0
<1>1. ASSUME NEW k \in Keys, NewKey(k)
      PROVE  KeysApart'
  <2>1. /\ \A j \in Keys : KeyAlive(j)' => KeyAlive(j) \/ j = k
        /\ UNCHANGED <<table, kept>>
    BY <1>1 DEF NewKey, KeyAlive, TypeOK
  <2>2. \A j \in Keys : KeyAlive(j) => Address[j] # Address[k]
    BY <1>1 DEF NewKey
  <2>. QED
    BY <2>1, <2>2 DEF KeysApart
<1>2. ASSUME NEW k \in Keys, DropKey(k)
      PROVE  KeysApart'
  <2>1. (\A j \in Keys : KeyAlive(j)' => KeyAlive(j)) /\ UNCHANGED <<table, kept>>
    BY <1>2 DEF DropKey, KeyAlive, TypeOK
  <2>. QED
    BY <2>1, KeysKept
<1>3. ASSUME NEW v \in Values, DropValue(v)
      PROVE  KeysApart'
  <2>1. (\A j \in Keys : KeyAlive(j)' => KeyAlive(j)) /\ UNCHANGED <<table, kept>>
    BY <1>3 DEF DropValue, KeyAlive
  <2>. QED
    BY <2>1, KeysKept
<1>4. ASSUME NEW v \in Values, Destructor(v)
      PROVE  KeysApart'
  <2>1. (\A j \in Keys : KeyAlive(j)' => KeyAlive(j)) /\ UNCHANGED <<table, kept>>
    BY <1>4 DEF Destructor, KeyAlive
  <2>. QED
    BY <2>1, KeysKept
<1>5. ASSUME NEW c \in Clients, NEW q \in Queues, NEW k \in Keys, NEW v \in Values \cup {None},
             SetSpecific(c, q, k, v)
      PROVE  KeysApart'
  <2>1. /\ call'[c].k = k /\ \A d \in Clients \ {c} : call'[d] = call[d]
    BY <1>5, SetBegins
  <2>2. /\ UNCHANGED <<table, key>> /\ kept' = kept \cup {k} /\ key[k] = "held"
    BY <1>5 DEF SetSpecific, Keep
  <2>3. \A j \in Keys : KeyAlive(j)' => KeyAlive(j)
    BY <2>1, <2>2 DEF KeyAlive
  <2>. QED
    BY <2>2, <2>3, KeysKept
<1>6. ASSUME NEW c \in Clients, NEW q \in Queues, NEW k \in Keys, NEW from \in {"queue", "current"},
             GetSpecific(c, q, k, from)
      PROVE  KeysApart'
  <2>1. /\ call'[c].k = k /\ \A d \in Clients \ {c} : call'[d] = call[d]
    BY <1>6, GetBegins
  <2>2. UNCHANGED <<table, key, kept>> /\ key[k] = "held"
    BY <1>6 DEF GetSpecific
  <2>3. \A j \in Keys : KeyAlive(j)' => KeyAlive(j)
    BY <2>1, <2>2 DEF KeyAlive
  <2>. QED
    BY <2>2, <2>3, KeysKept
<1>7. ASSUME NEW c \in Clients, NativeSet(c)
      PROVE  KeysApart'
  <2>. DEFINE slot == <<call[c].q, Address[call[c].k]>>
  <2>1. /\ call[c].at = "set" /\ slot \in Slots /\ call[c].k \in kept
        /\ \A s \in Slots \ {slot} : table'[s] = table[s]
        /\ table'[slot] = NoEntry \/ table'[slot].by = call[c].k
        /\ UNCHANGED <<key, kept>>
    BY <1>7, CallTyped DEF NativeSet, TypeOK, CallsNamed
  <2>2. /\ call'[c].k \in {call[c].k, None} /\ \A d \in Clients \ {c} : call'[d] = call[d]
    BY <1>7, SetGoesOn, IdleTyped
  <2>3. \A j \in Keys : KeyAlive(j)' => KeyAlive(j)
    BY <2>1, <2>2, Countable DEF KeyAlive
  <2>4. slot[2] = Address[call[c].k]
    OBVIOUS
  <2>. HIDE DEF slot
  <2>. QED
    BY <2>1, <2>3, <2>4 DEF KeysApart
<1>8. ASSUME NEW c \in Clients, PopStorage(c)
      PROVE  KeysApart'
  <2>1. call'[c].k = None /\ \A d \in Clients \ {c} : call'[d] = call[d]
    BY <1>8, IdleTyped, Called DEF PopStorage
  <2>2. UNCHANGED <<table, key, kept>>
    BY <1>8 DEF PopStorage
  <2>3. \A j \in Keys : KeyAlive(j)' => KeyAlive(j)
    BY <2>1, <2>2, Countable DEF KeyAlive
  <2>. QED
    BY <2>2, <2>3, KeysKept
<1>9. ASSUME NEW c \in Clients, NativeGet(c)
      PROVE  KeysApart'
  <2>1. /\ call'[c].k = call[c].k /\ \A d \in Clients \ {c} : call'[d] = call[d]
    BY <1>9, GetReads
  <2>2. UNCHANGED <<table, key, kept>>
    BY <1>9 DEF NativeGet
  <2>3. \A j \in Keys : KeyAlive(j)' => KeyAlive(j)
    BY <2>1, <2>2 DEF KeyAlive
  <2>. QED
    BY <2>2, <2>3, KeysKept
<1>10. ASSUME NEW c \in Clients, GetReturn(c)
      PROVE  KeysApart'
  <2>1. call'[c].k = None /\ \A d \in Clients \ {c} : call'[d] = call[d]
    BY <1>10, IdleTyped, Called DEF GetReturn
  <2>2. UNCHANGED <<table, key, kept>>
    BY <1>10 DEF GetReturn
  <2>3. \A j \in Keys : KeyAlive(j)' => KeyAlive(j)
    BY <2>1, <2>2, Countable DEF KeyAlive
  <2>. QED
    BY <2>2, <2>3, KeysKept
<1>11. ASSUME NEW q \in Queues, Dealloc(q)
      PROVE  KeysApart'
  <2>1. (\A j \in Keys : KeyAlive(j)' => KeyAlive(j)) /\ UNCHANGED <<table, kept>>
    BY <1>11 DEF Dealloc, KeyAlive
  <2>. QED
    BY <2>1, KeysKept
<1>12. ASSUME NEW q \in Queues, NativeDispose(q)
      PROVE  KeysApart'
  <2>1. /\ \A s \in Slots : table'[s] = NoEntry \/ table'[s] = table[s]
        /\ UNCHANGED <<key, kept, call>>
    BY <1>12 DEF NativeDispose
  <2>2. \A j \in Keys : KeyAlive(j)' => KeyAlive(j)
    BY <2>1 DEF KeyAlive
  <2>. QED
    BY <2>1, <2>2 DEF KeysApart
<1>13. ASSUME NEW q \in Queues, Reuse(q)
      PROVE  KeysApart'
  <2>1. (\A j \in Keys : KeyAlive(j)' => KeyAlive(j)) /\ UNCHANGED <<table, kept>>
    BY <1>13 DEF Reuse, KeyAlive
  <2>. QED
    BY <2>1, KeysKept
<1>14. CASE UNCHANGED vars
  <2>1. (\A j \in Keys : KeyAlive(j)' => KeyAlive(j)) /\ UNCHANGED <<table, kept>>
    BY <1>14 DEF vars, KeyAlive
  <2>. QED
    BY <2>1, KeysKept
<1>. QED
  BY <1>1, <1>2, <1>3, <1>4, <1>5, <1>6, <1>7, <1>8, <1>9, <1>10, <1>11, <1>12, <1>13, <1>14 DEF
       Next

-----------------------------------------------------------------------------
(* At first nothing is stored, and no key is alive. *)
LEMMA SpecificInit == Init => SpecificInv
<1>. SUFFICES ASSUME Init
              PROVE  SpecificInv
  OBVIOUS
<1>1. NoEntry \in [v : Values \cup {None}, by : Keys \cup {None}] /\ NoEntry.v = None
  BY DEF NoEntry
<1>2. \A c \in Clients : call[c] = Idle
  BY DEF Init
<1>3. TypeOK
  BY <1>1, IdleTyped, SpecificAssumption DEF Init, TypeOK, CallType
<1>4. \A v \in Values : InStorage(v) = {} /\ InTable(v) = {} /\ Setters(v) = {}
  BY <1>1, <1>2, IdleTyped, Countable DEF Init, InStorage, InTable, Setters
<1>5. RefsRight
  <2>1. Cardinality({}) = 0
    BY FS_EmptySet
  <2>2. \A v \in Values : refs[v] = 0 /\ destroying[v] = 0
    BY DEF Init
  <2>. QED
    BY <1>4, <2>1, <2>2 DEF RefsRight
<1>6. CallsNamed /\ ReadHeld
  BY <1>2, IdleTyped DEF Init, CallsNamed, ReadHeld
<1>7. KeysApart
  <2>1. \A k \in Keys : ~KeyAlive(k)
    BY <1>2, IdleTyped, Countable DEF Init, KeyAlive
  <2>. QED
    BY <2>1 DEF Init, KeysApart
<1>. QED
  BY <1>3, <1>5, <1>6, <1>7 DEF SpecificInv

(* The inductive invariant holds for every number of threads, queues, keys and    *)
(* values, in any hierarchy and at any addresses: references are counted right,   *)
(* calls name what they are about, what a thread has read stays where it was read *)
(* until that is written, and keys alive at one time are apart.                   *)
THEOREM SpecificInvariant == Spec => []SpecificInv
<1>1. SpecificInv /\ [Next]_vars => SpecificInv'
  BY RefsStep, TypeStep, CallsStep, ReadStep, KeysStep DEF SpecificInv
<1>. QED
  BY SpecificInit, <1>1, PTL DEF Spec

(* The references on a value are those of dictionary, table, destructor calls and *)
(* set_specific calls under way, in whatever order racing calls reach dictionary  *)
(* and table; so none is given back twice.                                        *)
THEOREM SpecificReferences == Spec => []SpecificRefs
<1>1. SpecificInv => SpecificRefs
  BY DEF SpecificInv, SpecificRefs, RefsRight, InStorage, InTable, Setters
<1>. QED
  BY SpecificInvariant, <1>1, PTL

(* What get_specific has read without the lock is still there when it takes its   *)
(* reference, unless the place where it was read was written in between.          *)
THEOREM SpecificAlive == Spec => []GetAlive
<1>1. ASSUME SpecificInv, NEW c \in Clients,
             Reading(c), call[c].v # None, intact[c] # None
      PROVE  Alive(call[c].v)
  <2>. DEFINE v == call[c].v
  <2>1. v \in Values
    BY <1>1, CallTyped DEF SpecificInv
  <2>2. InTable(v) # {} /\ InTable(v) \in SUBSET Slots
    BY <1>1 DEF SpecificInv, TypeOK, ReadHeld, InTable
  <2>3. Cardinality(InTable(v)) \in Nat \ {0}
    BY <2>2, Countable, FS_EmptySet
  <2>4. destroying[v] \in Nat
    BY <1>1, <2>1 DEF SpecificInv, TypeOK
  <2>5. refs[v] = Cardinality(InStorage(v)) + Cardinality(InTable(v))
                      + destroying[v] + Cardinality(Setters(v))
    BY <1>1, <2>1 DEF SpecificInv, RefsRight
  <2>. HIDE DEF v
  <2>6. refs[v] > 0
    BY <2>3, <2>4, <2>5, SetsCounted
  <2>. QED
    BY <2>6 DEF Alive, v
<1>2. SpecificInv => GetAlive
  BY <1>1 DEF GetAlive
<1>. QED
  BY SpecificInvariant, <1>2, PTL

(* Although keys are told apart by address only, a value is read with the key     *)
(* object it was set with: a key is kept for as long as its address is in use.    *)
THEOREM SpecificKeys == Spec => []KeysNotConfused
<1>1. ASSUME SpecificInv, NEW k \in Keys, NEW s \in Slots,
             key[k] = "held", s[2] = Address[k], table[s] # NoEntry
      PROVE  table[s].by = k
  <2>1. table[s].by \in kept /\ Address[table[s].by] = Address[k] /\ kept \subseteq Keys
    BY <1>1 DEF SpecificInv, KeysApart, TypeOK
  <2>2. KeyAlive(k) /\ KeyAlive(table[s].by)
    BY <1>1, <2>1 DEF KeyAlive
  <2>. QED
    BY <1>1, <2>1, <2>2 DEF SpecificInv, KeysApart
<1>2. SpecificInv => KeysNotConfused
  BY <1>1 DEF KeysNotConfused
<1>. QED
  BY SpecificInvariant, <1>2, PTL
=============================================================================
