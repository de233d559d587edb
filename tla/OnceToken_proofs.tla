-------------------------- MODULE OnceToken_proofs --------------------------
(***************************************************************************)
(* Proofs about OnceToken, for every finite set of calls, every nesting of *)
(* them in callables, and every choice of callables.                       *)
(***************************************************************************)
EXTENDS OnceToken, FiniteSetTheorems, TLAPS

(* What a value of the predicate says about the calls, and how many callables     *)
(* have begun.                                                                    *)
Doing(k) == pc[k] \in {"invoked", "running"}

Phases ==
    /\ predicate = "zero" => runs = 0 /\ \A k \in Calls : pc[k] \in {"idle", "entering"}
    /\ predicate = "running" =>
          \E k \in Calls : /\ Doing(k) /\ \A j \in Calls \ {k} : ~Doing(j)
                           /\ runs = IF pc[k] = "invoked" THEN 0 ELSE 1
    /\ predicate = "done" => runs = 1 /\ \A k \in Calls : ~Doing(k)
    /\ \A k \in losers : pc[k] \in {"lost", "returned"}

(* The inductive invariant. *)
OnceInv == OnceRefs /\ Phases

-----------------------------------------------------------------------------
(* The calls that account for a reference are finitely many. *)
LEMMA CountsFinite ==
    \A f : IsFiniteSet(UnderWay(f)) /\ Cardinality(UnderWay(f)) \in Nat
  <1>. TAKE f
  <1>1. UnderWay(f) \in SUBSET Calls
    BY DEF UnderWay
  <1>. QED
    BY <1>1, CallAssumption, FS_Subset, FS_CardinalityType

(* The same of the calls that lost the race. *)
LEMMA LostFinite ==
    ASSUME TypeOK
    PROVE  \A f : IsFiniteSet(Lost(f)) /\ Cardinality(Lost(f)) \in Nat
  <1>. TAKE f
  <1>1. Lost(f) \in SUBSET Calls
    BY DEF Lost, TypeOK
  <1>. QED
    BY <1>1, CallAssumption, FS_Subset, FS_CardinalityType

(* A step that leaves the references and both kinds of calls alone keeps the      *)
(* accounts.                                                                      *)
LEMMA SameAccounts ==
    ASSUME OnceRefs, UNCHANGED <<refs, losers>>,
           \A k \in Calls : (pc[k] \in {"entering", "waiting", "invoked", "running"})
                          = (pc'[k] \in {"entering", "waiting", "invoked", "running"}),
           TypeOK'
    PROVE  OnceRefs'
<1>1. \A f : UnderWay(f)' = UnderWay(f) /\ Lost(f)' = Lost(f)
  BY DEF UnderWay, Lost
<1>. QED
  BY <1>1 DEF OnceRefs

-----------------------------------------------------------------------------
(* Every step keeps what the predicate says. *)
LEMMA PhasesStep ==
    ASSUME OnceInv, [Next]_vars
    PROVE  Phases'
<1>0. TypeOK /\ Phases
  BY DEF OnceInv, OnceRefs
<1>. USE <1>0 DEF Goto
<1>1. ASSUME NEW k \in Calls, CallToken(k)
      PROVE  Phases'
  BY <1>1 DEF CallToken, Phases, Doing, TypeOK
<1>2. ASSUME NEW k \in Calls, Enter(k)
      PROVE  Phases'
  BY <1>2 DEF Enter, Phases, Doing, TypeOK
<1>3. ASSUME NEW k \in Calls, Wake(k)
      PROVE  Phases'
  BY <1>3 DEF Wake, Phases, Doing, TypeOK
<1>4. ASSUME NEW k \in Calls, Begin(k)
      PROVE  Phases'
  BY <1>4 DEF Begin, Phases, Doing, TypeOK
<1>5. ASSUME NEW k \in Calls, End(k)
      PROVE  Phases'
  BY <1>5 DEF End, Phases, Doing, TypeOK
<1>6. ASSUME NEW k \in Calls, Return(k)
      PROVE  Phases'
  BY <1>6 DEF Return, Phases, Doing, TypeOK
<1>7. CASE UNCHANGED vars
  BY <1>7 DEF vars, Phases, Doing
<1>. QED
  BY <1>1, <1>2, <1>3, <1>4, <1>5, <1>6, <1>7 DEF Next

(* Every step keeps types and accounts. *)
LEMMA RefsStep ==
    ASSUME OnceInv, [Next]_vars
    PROVE  OnceRefs'
<1>0. TypeOK /\ OnceRefs /\ Phases
  BY DEF OnceInv, OnceRefs
<1>. USE <1>0, LostFinite, CountsFinite, FuncAssumption DEF Goto
<1>1. ASSUME NEW k \in Calls, CallToken(k)
      PROVE  OnceRefs'
  <2>1. CASE predicate # "zero"
    BY <1>1, <2>1, SameAccounts DEF CallToken, TypeOK
  <2>2. CASE predicate = "zero"
    <3>. DEFINE g == Func[k]
    <3>1. g \in Funcs /\ refs' = [refs EXCEPT ![g] = refs[g] + 1] /\ losers' = losers
      BY <1>1, <2>2 DEF CallToken
    <3>2. UnderWay(g)' = UnderWay(g) \cup {k} /\ k \notin UnderWay(g)
      BY <1>1, <2>2 DEF CallToken, UnderWay, TypeOK
    <3>3. Cardinality(UnderWay(g)') = Cardinality(UnderWay(g)) + 1
      BY <3>2, FS_AddElement
    <3>4. \A f \in Funcs : Lost(f)' = Lost(f) /\ (f # g => UnderWay(f)' = UnderWay(f))
      BY <1>1 DEF CallToken, UnderWay, Lost, TypeOK
    <3>5. TypeOK'
      BY <1>1, <2>2 DEF CallToken, TypeOK
    <3>. HIDE DEF g
    <3>. QED
      BY <3>1, <3>3, <3>4, <3>5 DEF OnceRefs, TypeOK
  <2>. QED
    BY <2>1, <2>2
<1>2. ASSUME NEW k \in Calls, Enter(k)
      PROVE  OnceRefs'
  BY <1>2, SameAccounts DEF Enter, TypeOK
<1>3. ASSUME NEW k \in Calls, Wake(k)
      PROVE  OnceRefs'
  <2>. DEFINE g == Func[k]
  <2>1. UnderWay(g)' = UnderWay(g) \ {k} /\ k \in UnderWay(g)
    BY <1>3 DEF Wake, UnderWay, TypeOK
  <2>2. Lost(g)' = Lost(g) \cup {k} /\ k \notin Lost(g)
    BY <1>3 DEF Wake, Lost, TypeOK, Phases
  <2>3. Cardinality(UnderWay(g)') = Cardinality(UnderWay(g)) - 1
    BY <2>1, FS_RemoveElement
  <2>4. Cardinality(Lost(g)') = Cardinality(Lost(g)) + 1
    BY <2>2, FS_AddElement
  <2>5. \A f \in Funcs : f # g => UnderWay(f)' = UnderWay(f) /\ Lost(f)' = Lost(f)
    BY <1>3 DEF Wake, UnderWay, Lost, TypeOK
  <2>6. g \in Funcs /\ refs' = refs
    BY <1>3 DEF Wake
  <2>7. TypeOK'
    BY <1>3 DEF Wake, TypeOK
  <2>. HIDE DEF g
  <2>. QED
    BY <2>3, <2>4, <2>5, <2>6, <2>7 DEF OnceRefs, TypeOK
<1>4. ASSUME NEW k \in Calls, Begin(k)
      PROVE  OnceRefs'
  BY <1>4, SameAccounts DEF Begin, TypeOK
<1>5. ASSUME NEW k \in Calls, End(k)
      PROVE  OnceRefs'
  <2>. DEFINE g == Func[k]
  <2>1. UnderWay(g)' = UnderWay(g) \ {k} /\ k \in UnderWay(g)
    BY <1>5 DEF End, UnderWay, TypeOK
  <2>2. /\ Cardinality(UnderWay(g)') = Cardinality(UnderWay(g)) - 1
        /\ Cardinality(UnderWay(g)) # 0
    BY <2>1, FS_RemoveElement, FS_EmptySet
  <2>3. \A f \in Funcs : Lost(f)' = Lost(f) /\ (f # g => UnderWay(f)' = UnderWay(f))
    BY <1>5 DEF End, UnderWay, Lost, TypeOK
  <2>4. g \in Funcs /\ refs' = [refs EXCEPT ![g] = refs[g] - 1]
    BY <1>5 DEF End
  <2>5. refs[g] = Cardinality(UnderWay(g)) + Cardinality(Lost(g))
    BY <2>4 DEF OnceRefs
  <2>6. refs' \in [Funcs -> Nat]
    BY <2>2, <2>4, <2>5 DEF TypeOK
  <2>7. TypeOK'
    BY <1>5, <2>6 DEF End, TypeOK
  <2>. HIDE DEF g
  <2>. QED
    BY <2>2, <2>3, <2>4, <2>7 DEF OnceRefs, TypeOK
<1>6. ASSUME NEW k \in Calls, Return(k)
      PROVE  OnceRefs'
  BY <1>6, SameAccounts DEF Return, TypeOK
<1>7. CASE UNCHANGED vars
  BY <1>7, SameAccounts DEF vars, TypeOK
<1>. QED
  BY <1>1, <1>2, <1>3, <1>4, <1>5, <1>6, <1>7 DEF Next

-----------------------------------------------------------------------------
(* The inductive invariant holds of every execution. *)
THEOREM OnceInvariant == Spec => []OnceInv
<1>1. Init => OnceInv
  <2>. SUFFICES ASSUME Init PROVE OnceInv
    OBVIOUS
  <2>1. TypeOK /\ Phases
    BY DEF Init, TypeOK, Phases, Doing
  <2>2. \A f : UnderWay(f) = {} /\ Lost(f) = {}
    BY DEF Init, UnderWay, Lost
  <2>3. Cardinality({}) = 0
    BY FS_EmptySet
  <2>. QED
    BY <2>1, <2>2, <2>3 DEF Init, OnceInv, OnceRefs
<1>2. OnceInv /\ [Next]_vars => OnceInv'
  BY PhasesStep, RefsStep DEF OnceInv
<1>. QED
  BY <1>1, <1>2, PTL DEF Spec

(* However many threads call the token, and whether or not callables call it      *)
(* again, one callable runs, and it has begun when the token is done.             *)
THEOREM TokenRunsOnce == Spec => []RunsOnce
<1>1. OnceInv => RunsOnce
  BY DEF OnceInv, OnceRefs, TypeOK, Phases, RunsOnce
<1>. QED
  BY <1>1, OnceInvariant, PTL

(* The references on a callable are those of the calls under way in               *)
(* dispatch_once_f and those that calls which lost the race have left behind.     *)
THEOREM TokenRefs == Spec => []OnceRefs
<1>1. OnceInv => OnceRefs
  BY DEF OnceInv
<1>. QED
  BY <1>1, OnceInvariant, PTL
=============================================================================
