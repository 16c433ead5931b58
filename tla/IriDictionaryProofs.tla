----------------------- MODULE IriDictionaryProofs -----------------------
(***************************************************************************)
(* Proofs about IriDictionary, for every set of threads and IRIs and every *)
(* bound: its invariants, and that it implements AtomicDictionary.         *)
(***************************************************************************)
EXTENDS IriDictionary, TLAPS, FiniteSetTheorems

(* What the phases say about the operation in progress.                    *)
PhaseInv ==
    \A t \in Threads :
        /\ pc[t] \in {"fast", "fast_held", "insert_rev"} => op[t] = "get_or_insert"
        /\ pc[t] \in {"read", "read_held"} => op[t] \in {"get_id", "get_iri"}
        /\ pc[t] = "drop" => op[t] \in {"get_or_insert", "get_id", "get_iri"}
        /\ pc[t] \in {"lock_fwd", "lock_rev", "body", "unlock_rev", "unlock_fwd"}
             => op[t] \in {"get_or_insert", "import", "clear"}

HoldsForward == {"lock_rev", "body", "insert_rev", "unlock_rev", "unlock_fwd"}
HoldsReverse == {"body", "insert_rev", "unlock_rev"}

Reads(t, l) ==
    \/ pc[t] = "fast_held" /\ l = "iri_to_id"
    \/ pc[t] \in {"read_held", "drop"} /\ l = ReadLockOf(op[t])

(* The lock words say exactly which threads are inside which section, and  *)
(* a writer excludes the readers.                                          *)
LockInv ==
    /\ \A t \in Threads : (writer["iri_to_id"] = t) <=> (pc[t] \in HoldsForward)
    /\ \A t \in Threads : (writer["id_to_iri"] = t) <=> (pc[t] \in HoldsReverse)
    /\ \A t \in Threads, l \in Locks : (t \in readers[l]) <=> Reads(t, l)
    /\ \A l \in Locks : writer[l] = None \/ readers[l] = {}

(* A non-empty set of naturals has a least element: among the intervals    *)
(* 0 .. m with m in the set one is minimal under strict inclusion.         *)
LEMMA LeastExists ==
    ASSUME NEW S \in SUBSET Nat, S # {}
    PROVE  Least(S) \in S /\ \A k \in S : Least(S) <= k
<1> DEFINE T == {0 .. m : m \in S}
<1>1. T \subseteq FiniteSubsetsOf(Nat) /\ T # {}
  <2>1. \A m \in S : IsFiniteSet(0 .. m) /\ 0 .. m \subseteq Nat
    BY FS_Interval
  <2>2. QED
    BY <2>1 DEF FiniteSubsetsOf
<1>2. PICK x \in T : \A y \in T : <<y, x>> \notin StrictSubsetOrdering(Nat)
  <2> HIDE DEF T
  <2>1. IsWellFoundedOn(StrictSubsetOrdering(Nat), FiniteSubsetsOf(Nat))
    BY FS_StrictSubsetOrderingWellFounded
  <2>2. QED
    BY <1>1, <2>1, WFMin
<1>3. PICK m \in S : x = 0 .. m
  OBVIOUS
<1>4. ASSUME NEW k \in S, k < m PROVE FALSE
  <2>1. 0 .. k \subseteq 0 .. m /\ m \in 0 .. m /\ m \notin 0 .. k
    BY <1>4
  <2>2. <<0 .. k, 0 .. m>> \in StrictSubsetOrdering(Nat)
    BY <2>1 DEF StrictSubsetOrdering
  <2>3. 0 .. k \in T
    OBVIOUS
  <2>4. QED
    BY <1>2, <1>3, <2>2, <2>3
<1>5. \A k \in S : m <= k
  BY <1>4
<1>6. QED
  BY <1>5 DEF Least

(* The counter that import leaves is an id, not below where it started and *)
(* past every id of the list.                                              *)
LEMMA NextAfterIsPast ==
    ASSUME NEW b \in Seq(Ids \X Iris), NEW n \in Ids,
           \A k \in DOMAIN b : b[k][1] \in 1 .. MaxId - 1
    PROVE  NextAfter(b, n) \in Ids /\ IsPast(NextAfter(b, n), b, n)
<1> DEFINE S == {m \in Ids : IsPast(m, b, n)}
<1>1. MaxId \in S
  BY BoundsAssumption DEF IsPast, Ids
<1>2. S \in SUBSET Nat
  BY BoundsAssumption DEF Ids
<1>3. Least(S) \in S
  BY <1>1, <1>2, LeastExists
<1>4. NextAfter(b, n) = Least(S)
  BY BoundsAssumption DEF NextAfter
<1>5. QED
  BY <1>3, <1>4

(* A non-empty set of naturals below a bound has a greatest element.       *)
LEMMA LatestExists ==
    ASSUME NEW K \in SUBSET Nat, K # {}, NEW n \in Nat, \A k \in K : k <= n
    PROVE  Latest(K) \in K /\ \A k \in K : k <= Latest(K)
<1> DEFINE S == {n - k : k \in K}
<1>1. \A k \in K : k \in Nat /\ n - k \in Nat /\ n - k \in S
  OBVIOUS
<1>2. S \in SUBSET Nat /\ S # {}
  BY <1>1
<1>3. Least(S) \in S /\ \A m \in S : Least(S) <= m
  BY <1>2, LeastExists
<1>4. PICK g \in K : Least(S) = n - g
  BY <1>3
<1>5. ASSUME NEW k \in K PROVE k <= g
  <2>1. n - g <= n - k
    BY <1>1, <1>3, <1>4
  <2>2. QED
    BY <2>1, <1>1
<1>6. QED
  BY <1>5 DEF Latest

(* The last entry for an IRI or an id is an entry for it.                  *)
LEMMA LatestEntry ==
    ASSUME NEW b \in Seq(Ids \X Iris)
    PROVE  /\ \A i : ForIri(b, i) # {} => Latest(ForIri(b, i)) \in ForIri(b, i)
           /\ \A d : ForId(b, d) # {} => Latest(ForId(b, d)) \in ForId(b, d)
<1>1. Len(b) \in Nat /\ DOMAIN b = 1 .. Len(b)
  OBVIOUS
<1>2. ASSUME NEW K \in SUBSET DOMAIN b, K # {} PROVE Latest(K) \in K
  <2>1. K \in SUBSET Nat /\ \A k \in K : k <= Len(b)
    BY <1>1
  <2>2. QED
    BY <1>1, <1>2, <2>1, LatestExists
<1>3. QED
  BY <1>2 DEF ForIri, ForId

(* Whatever the list, the counter is an id afterwards.                     *)
LEMMA NextAfterType ==
    ASSUME NEW b \in Seq(Ids \X Iris), NEW n \in Ids
    PROVE  NextAfter(b, n) \in Ids
<1> DEFINE Tops == {k \in DOMAIN b : b[k][1] = MaxId}
           S == {m \in Ids : IsPast(m, b, n)}
           R == {m \in Ids : IsPast(m, BehindTop(b), 0)}
<1>1. Len(b) \in Nat /\ DOMAIN b = 1 .. Len(b) /\ \A k \in DOMAIN b : b[k][1] \in Ids
  OBVIOUS
<1>2. S \in SUBSET Nat /\ R \in SUBSET Nat /\ MaxId \in Ids
  BY BoundsAssumption DEF Ids
<1>3. CASE Tops = {}
  <2>1. MaxId \in S
    BY <1>1, <1>2, <1>3, BoundsAssumption DEF IsPast, Ids
  <2>2. NextAfter(b, n) = Least(S)
    BY <1>3 DEF NextAfter
  <2>3. QED
    BY <1>2, <2>1, <2>2, LeastExists
<1>4. CASE Tops # {}
  <2> DEFINE top == Latest(Tops)
  <2>1. top \in Tops /\ \A k \in Tops : k <= top
    <3>1. Tops \in SUBSET Nat /\ \A k \in Tops : k <= Len(b)
      BY <1>1
    <3>2. QED
      BY <1>1, <1>4, <3>1, LatestExists
  <2>2. BehindTop(b) = [k \in 1 .. Len(b) - top |-> b[top + k]]
    BY DEF BehindTop
  <2>3. \A k \in DOMAIN BehindTop(b) : BehindTop(b)[k][1] < MaxId
    <3> HIDE DEF top
    <3>1. SUFFICES ASSUME NEW k \in 1 .. Len(b) - top
                   PROVE  b[top + k][1] < MaxId
      BY <2>2
    <3>2. top + k \in DOMAIN b /\ top + k \notin Tops
      BY <1>1, <2>1
    <3>3. QED
      BY <1>1, <3>2, BoundsAssumption DEF Ids
  <2>4. MaxId \in R
    BY <1>2, <2>3, BoundsAssumption DEF IsPast
  <2>5. NextAfter(b, n) = Least(R)
    BY <1>4 DEF NextAfter
  <2>6. QED
    BY <1>2, <2>4, <2>5, LeastExists
<1>5. QED
  BY <1>3, <1>4
-----------------------------------------------------------------------------
USE DEF Locks, Goto

(* A call only moves its thread out of "idle" and records the request.     *)
LEMMA CallType ==
    ASSUME TypeOK, NEW t \in Threads, NEW o \in AllOps, NEW x \in ArgsOf(o),
           NEW p \in Phases, Call(t, o, x, p)
    PROVE  TypeOK'
  BY BoundsAssumption DEF Call, TypeOK, maps, locks

LEMMA ImportType ==
    ASSUME TypeOK, NEW t \in Threads, ImportEntries(t)
    PROVE  TypeOK'
<1> DEFINE b == Entries[arg[t]]
<1>1. b \in Seq(Ids \X Iris)
  BY ImportsAssumption DEF ImportEntries, TypeOK, ArgsOf
<1>2. \A k \in DOMAIN b : b[k][1] \in Ids /\ b[k][2] \in Iris
  BY <1>1
<1>3. \A i \in Iris : ForIri(b, i) # {} => b[Latest(ForIri(b, i))][1] \in Ids
  <2>1. \A i \in Iris : ForIri(b, i) # {} => Latest(ForIri(b, i)) \in ForIri(b, i)
    BY <1>1, LatestEntry
  <2>2. \A i \in Iris : ForIri(b, i) \subseteq DOMAIN b
    BY DEF ForIri
  <2>3. QED
    BY <1>2, <2>1, <2>2
<1>4. \A d \in Ids : ForId(b, d) # {} => b[Latest(ForId(b, d))][2] \in Iris
  <2>1. \A d \in Ids : ForId(b, d) # {} => Latest(ForId(b, d)) \in ForId(b, d)
    BY <1>1, LatestEntry
  <2>2. \A d \in Ids : ForId(b, d) \subseteq DOMAIN b
    BY DEF ForId
  <2>3. QED
    BY <1>2, <2>1, <2>2
<1>5. iri_to_id' \in [Iris -> Ids \cup {None}]
  <2>1. iri_to_id \in [Iris -> Ids \cup {None}]
    BY DEF TypeOK
  <2>2. iri_to_id' = [i \in Iris |->
           IF ForIri(b, i) = {} THEN iri_to_id[i] ELSE b[Latest(ForIri(b, i))][1]]
    BY DEF ImportEntries
  <2>3. QED
    BY <1>3, <2>1, <2>2
<1>6. id_to_iri' \in [Ids -> Iris \cup {None}]
  <2>1. id_to_iri \in [Ids -> Iris \cup {None}]
    BY DEF TypeOK
  <2>2. id_to_iri' = [d \in Ids |->
           IF ForId(b, d) = {} THEN id_to_iri[d] ELSE b[Latest(ForId(b, d))][2]]
    BY DEF ImportEntries
  <2>3. QED
    BY <1>4, <2>1, <2>2
<1>7. next_id' \in Ids
  BY <1>1, NextAfterType DEF ImportEntries, TypeOK
<1>8. QED
  BY <1>5, <1>6, <1>7 DEF ImportEntries, TypeOK, Phases, locks

LEMMA TypeStep ==
    ASSUME TypeOK, PhaseInv, [Next]_vars
    PROVE  TypeOK'
<1>1. ASSUME NEW t \in Threads, Calls(t) PROVE TypeOK'
  <2>1. ASSUME NEW i \in Iris, CallGetOrInsert(t, i) \/ CallGetId(t, i)
        PROVE  TypeOK'
    BY <2>1, CallType DEF CallGetOrInsert, CallGetId, AllOps, ArgsOf, Phases
  <2>2. ASSUME NEW d \in Ids, CallGetIri(t, d) PROVE TypeOK'
    BY <2>2, CallType DEF CallGetIri, AllOps, ArgsOf, Phases
  <2>3. ASSUME NEW m \in Imports, CallImport(t, m) PROVE TypeOK'
    BY <2>3, CallType DEF CallImport, AllOps, ArgsOf, Phases
  <2>4. ASSUME CallClear(t) PROVE TypeOK'
    BY <2>4, CallType DEF CallClear, AllOps, ArgsOf, Phases
  <2>5. QED
    BY <1>1, <2>1, <2>2, <2>3, <2>4 DEF Calls
<1>2. ASSUME NEW t \in Threads, Step(t) PROVE TypeOK'
  <2> USE DEF TypeOK, maps, locks, Phases
  <2>1. CASE ReadLock(t) \/ FastLock(t)
    BY <2>1 DEF ReadLock, FastLock, AcquireRead, ReadLockOf
  <2>2. CASE Lookup(t)
    <3>1. arg[t] \in IF op[t] = "get_iri" THEN Ids ELSE Iris
      BY <2>2 DEF Lookup, ArgsOf, PhaseInv
    <3>2. ret'[t] \in Ids \cup Iris \cup {None}
      BY <2>2, <3>1 DEF Lookup
    <3>3. QED
      BY <2>2, <3>2 DEF Lookup
  <2>3. CASE ReadReturn(t) \/ FastMiss(t)
    BY <2>3 DEF ReadReturn, FastMiss, ReleaseRead, ReadLockOf
  <2>4. CASE FastHit(t) \/ DoubleCheckHit(t)
    <3>1. iri_to_id[arg[t]] \in Ids \cup {None}
      BY <2>4 DEF FastHit, DoubleCheckHit, ArgsOf, PhaseInv
    <3>2. QED
      BY <2>4, <3>1 DEF FastHit, DoubleCheckHit
  <2>5. CASE LockForward(t) \/ LockReverse(t)
    BY <2>5 DEF LockForward, LockReverse, AcquireWrite
  <2>6. CASE UnlockForward(t) \/ UnlockReverse(t)
    BY <2>6 DEF UnlockForward, UnlockReverse, ReleaseWrite
  <2>7. CASE Assign(t)
    <3>1. next_id \in Ids /\ next_id' \in Ids
      BY <2>7, BoundsAssumption DEF Assign, Succ, Ids
    <3>2. QED
      BY <2>7, <3>1 DEF Assign
  <2>8. CASE InsertReverse(t)
    <3>1. arg[t] \in Iris
      BY <2>8 DEF InsertReverse, ArgsOf, PhaseInv
    <3>2. QED
      BY <2>8, <3>1 DEF InsertReverse
  <2>9. CASE ClearMaps(t)
    BY <2>9, BoundsAssumption DEF ClearMaps, Ids
  <2>10. CASE ImportEntries(t)
    BY <2>10, ImportType
  <2>11. QED
    BY <1>2, <2>1, <2>2, <2>3, <2>4, <2>5, <2>6, <2>7, <2>8, <2>9, <2>10 DEF Step
<1>3. CASE UNCHANGED vars
  BY <1>3 DEF vars, maps, locks, TypeOK
<1>4. QED
  BY <1>1, <1>2, <1>3 DEF Next, Finished

(* The phases keep to their operations.                                    *)
LEMMA PhaseStep ==
    ASSUME TypeOK, PhaseInv, [Next]_vars
    PROVE  PhaseInv'
<1> USE DEF PhaseInv, TypeOK, AllOps
<1>1. ASSUME NEW t \in Threads, Calls(t) PROVE PhaseInv'
  BY <1>1 DEF Calls, Call, CallGetOrInsert, CallGetId, CallGetIri, CallImport, CallClear
<1>2. ASSUME NEW t \in Threads, Step(t) PROVE PhaseInv'
  BY <1>2 DEF Step, ReadLock, FastLock, Lookup, ReadReturn, FastMiss, FastHit,
              DoubleCheckHit, LockForward, LockReverse, UnlockForward, UnlockReverse,
              Assign, InsertReverse, ClearMaps, ImportEntries
<1>3. CASE UNCHANGED vars
  BY <1>3 DEF vars
<1>4. QED
  BY <1>1, <1>2, <1>3 DEF Next, Finished

(* The types, in every reachable state of every instance.                  *)
THEOREM TypeCorrect == Spec => []TypeOK
<1>1. Init => TypeOK /\ PhaseInv
  BY BoundsAssumption, OpsAssumption
  DEF Init, TypeOK, PhaseInv, Ids, AllOps, ArgsOf, Phases
<1>2. TypeOK /\ PhaseInv /\ [Next]_vars => (TypeOK /\ PhaseInv)'
  BY TypeStep, PhaseStep
<1>3. QED
  BY <1>1, <1>2, PTL DEF Spec
-----------------------------------------------------------------------------
LEMMA LockStep ==
    ASSUME TypeOK, PhaseInv, LockInv, [Next]_vars
    PROVE  LockInv'
<1> USE NoneAssumption DEF LockInv, TypeOK, Reads, ReadLockOf, HoldsForward, HoldsReverse, locks
<1>1. ASSUME NEW t \in Threads, Calls(t) PROVE LockInv'
  BY <1>1 DEF Calls, Call, CallGetOrInsert, CallGetId, CallGetIri, CallImport, CallClear
<1>2. ASSUME NEW t \in Threads, Step(t) PROVE LockInv'
  <2>1. CASE ReadLock(t)
    BY <2>1 DEF ReadLock, AcquireRead, PhaseInv
  <2>2. CASE FastLock(t)
    BY <2>2 DEF FastLock, AcquireRead, PhaseInv
  <2>3. CASE Lookup(t)
    BY <2>3 DEF Lookup
  <2>4. CASE ReadReturn(t)
    BY <2>4 DEF ReadReturn, ReleaseRead
  <2>5. CASE FastHit(t)
    BY <2>5 DEF FastHit, PhaseInv
  <2>6. CASE FastMiss(t)
    BY <2>6 DEF FastMiss, ReleaseRead
  <2>7. CASE LockForward(t)
    BY <2>7 DEF LockForward, AcquireWrite
  <2>8. CASE LockReverse(t)
    BY <2>8 DEF LockReverse, AcquireWrite
  <2>9. CASE UnlockReverse(t)
    BY <2>9 DEF UnlockReverse, ReleaseWrite
  <2>10. CASE UnlockForward(t)
    BY <2>10 DEF UnlockForward, ReleaseWrite
  <2>11. CASE DoubleCheckHit(t) \/ Assign(t) \/ InsertReverse(t)
    BY <2>11 DEF DoubleCheckHit, Assign, InsertReverse
  <2>12. CASE ImportEntries(t) \/ ClearMaps(t)
    BY <2>12 DEF ImportEntries, ClearMaps
  <2>13. QED
    BY <1>2, <2>1, <2>2, <2>3, <2>4, <2>5, <2>6, <2>7, <2>8, <2>9, <2>10, <2>11, <2>12 DEF Step
<1>3. CASE UNCHANGED vars
  BY <1>3 DEF vars
<1>4. QED
  BY <1>1, <1>2, <1>3 DEF Next, Finished
-----------------------------------------------------------------------------
(* A restore has the dictionary to itself, and finds it empty.             *)
RestoreInv ==
    \A t \in Threads :
        op[t] = "import" /\ pc[t] # "idle" =>
            /\ \A u \in Threads : u # t => pc[u] = "idle"
            /\ pc[t] \in {"lock_fwd", "lock_rev", "body"}
                 => iri_to_id = [i \in Iris |-> None]

(* Between the two inserts the reverse map lacks exactly the pair being    *)
(* inserted; otherwise the maps are inverse.  Every id in use lies between *)
(* the reserved one and the counter.                                       *)
HalfInserted(i, d) ==
    \E t \in Threads : pc[t] = "insert_rev" /\ arg[t] = i /\ ret[t] = d

MapInv ==
    /\ \A i \in Iris, d \in Ids : id_to_iri[d] = i => iri_to_id[i] = d
    /\ \A i \in Iris, d \in Ids :
          iri_to_id[i] = d => id_to_iri[d] = i \/ HalfInserted(i, d)
    /\ \A t \in Threads : pc[t] = "insert_rev" =>
          /\ ret[t] \in Ids
          /\ iri_to_id[arg[t]] = ret[t]
          /\ id_to_iri[ret[t]] = None
    /\ 0 < next_id
    /\ \A i \in Iris : iri_to_id[i] # None => 0 < iri_to_id[i] /\ iri_to_id[i] < next_id
    /\ \A d \in Ids : id_to_iri[d] # None => d < next_id

IInv == TypeOK /\ PhaseInv /\ LockInv /\ (RestoreOnly => RestoreInv /\ MapInv)

LEMMA RestoreStep ==
    ASSUME TypeOK, PhaseInv, LockInv, RestoreOnly, RestoreInv, [Next]_vars
    PROVE  RestoreInv'
<1> USE DEF RestoreInv, TypeOK, maps, locks
<1>1. ASSUME NEW t \in Threads, Calls(t) PROVE RestoreInv'
  BY <1>1 DEF Calls, Call, CallGetOrInsert, CallGetId, CallGetIri, CallImport,
              CallClear, Importing
<1>2. ASSUME NEW t \in Threads, Step(t) PROVE RestoreInv'
  <2>1. CASE ReadLock(t) \/ FastLock(t) \/ Lookup(t) \/ ReadReturn(t) \/ FastHit(t) \/ FastMiss(t)
    BY <2>1 DEF ReadLock, FastLock, Lookup, ReadReturn, FastHit, FastMiss, PhaseInv
  <2>2. CASE LockForward(t) \/ LockReverse(t) \/ UnlockReverse(t) \/ UnlockForward(t)
    BY <2>2 DEF LockForward, LockReverse, UnlockReverse, UnlockForward
  <2>3. CASE DoubleCheckHit(t) \/ Assign(t) \/ InsertReverse(t)
    BY <2>3 DEF DoubleCheckHit, Assign, InsertReverse, PhaseInv
  <2>4. CASE ImportEntries(t) \/ ClearMaps(t)
    BY <2>4 DEF ImportEntries, ClearMaps
  <2>5. QED
    BY <1>2, <2>1, <2>2, <2>3, <2>4 DEF Step
<1>3. CASE UNCHANGED vars
  BY <1>3 DEF vars
<1>4. QED
  BY <1>1, <1>2, <1>3 DEF Next, Finished

(* Steps that leave the maps alone and enter or leave no half insertion.   *)
LEMMA MapsUntouched ==
    ASSUME TypeOK, MapInv, UNCHANGED maps,
           \A t \in Threads : \/ pc[t] = "insert_rev" /\ pc'[t] = pc[t]
                                 /\ arg'[t] = arg[t] /\ ret'[t] = ret[t]
                              \/ pc[t] # "insert_rev" /\ pc'[t] # "insert_rev"
    PROVE  MapInv'
  BY DEF MapInv, HalfInserted, maps

LEMMA AssignMaps ==
    ASSUME TypeOK, PhaseInv, LockInv, MapInv, NEW t \in Threads, Assign(t)
    PROVE  MapInv'
<1> USE BoundsAssumption, NoneAssumption DEF TypeOK, Ids
<1>1. arg[t] \in Iris /\ next_id \in Nat /\ next_id' = next_id + 1
  BY DEF Assign, Succ, ArgsOf
<1>2. \A u \in Threads : pc[u] # "insert_rev"
  BY DEF Assign, LockInv, HoldsReverse
<1>3. id_to_iri[next_id] = None
  BY DEF MapInv
<1>4. /\ pc'[t] = "insert_rev" /\ ret'[t] = next_id /\ arg' = arg
      /\ \A u \in Threads : u # t => pc'[u] = pc[u]
  BY DEF Assign
<1>5. iri_to_id' = [iri_to_id EXCEPT ![arg[t]] = next_id] /\ id_to_iri' = id_to_iri
  BY DEF Assign
<1>6. \E u \in Threads : pc'[u] = "insert_rev" /\ arg'[u] = arg[t] /\ ret'[u] = next_id
  BY <1>4
<1>7. iri_to_id[arg[t]] = None
  BY DEF Assign
<1>8. QED
  BY <1>1, <1>2, <1>3, <1>4, <1>5, <1>6, <1>7 DEF MapInv, HalfInserted

LEMMA InsertReverseMaps ==
    ASSUME TypeOK, PhaseInv, LockInv, MapInv, NEW t \in Threads, InsertReverse(t)
    PROVE  MapInv'
<1> USE BoundsAssumption, NoneAssumption DEF TypeOK, Ids
<1>1. arg[t] \in Iris /\ ret[t] \in Ids /\ iri_to_id[arg[t]] = ret[t]
  BY DEF InsertReverse, ArgsOf, PhaseInv, MapInv
<1>2. \A u \in Threads : pc[u] = "insert_rev" => u = t
  BY DEF InsertReverse, LockInv, HoldsReverse
<1>3. \A u \in Threads : pc'[u] # "insert_rev"
  BY <1>2 DEF InsertReverse
<1>4. /\ id_to_iri' = [id_to_iri EXCEPT ![ret[t]] = arg[t]]
      /\ UNCHANGED <<iri_to_id, next_id, arg, ret>>
  BY DEF InsertReverse
<1>5. ASSUME NEW i \in Iris, NEW d \in Ids, HalfInserted(i, d)
      PROVE  i = arg[t] /\ d = ret[t]
  BY <1>2, <1>5 DEF HalfInserted
<1>6. QED
  BY <1>1, <1>2, <1>3, <1>4, <1>5 DEF MapInv, HalfInserted

LEMMA ClearMapsMaps ==
    ASSUME TypeOK, LockInv, NEW t \in Threads, ClearMaps(t)
    PROVE  MapInv'
<1>1. \A u \in Threads : pc'[u] # "insert_rev"
  BY DEF ClearMaps, LockInv, HoldsReverse, TypeOK
<1>2. QED
  BY <1>1, NoneAssumption DEF ClearMaps, MapInv, Ids

(* Restoring an exported list into the empty dictionary.                   *)
LEMMA ImportMaps ==
    ASSUME TypeOK, LockInv, RestoreOnly, RestoreInv, MapInv,
           NEW t \in Threads, ImportEntries(t)
    PROVE  MapInv'
<1> DEFINE b == Entries[arg[t]]
<1> USE BoundsAssumption, NoneAssumption
<1>1. arg[t] \in Imports /\ b \in Seq(Ids \X Iris) /\ next_id \in Ids
  BY ImportsAssumption DEF ImportEntries, TypeOK, ArgsOf
<1>2. /\ \A k \in DOMAIN b : b[k][1] \in 1 .. MaxId - 1
      /\ \A j, k \in DOMAIN b : j # k => b[j][1] # b[k][1] /\ b[j][2] # b[k][2]
  BY <1>1, RestoreAssumption
<1>3. \A k \in DOMAIN b : b[k][1] \in Ids /\ b[k][2] \in Iris
  BY <1>1
<1>4. \A u \in Threads : pc'[u] # "insert_rev"
  BY DEF ImportEntries, LockInv, HoldsReverse, TypeOK
<1>5. iri_to_id = [i \in Iris |-> None] /\ id_to_iri = [d \in Ids |-> None]
  <2>1. iri_to_id = [i \in Iris |-> None]
    BY DEF ImportEntries, RestoreInv
  <2>2. ASSUME NEW d \in Ids PROVE id_to_iri[d] = None
    BY <2>1 DEF MapInv, TypeOK, Ids
  <2>3. QED
    BY <2>1, <2>2 DEF TypeOK
<1>6. /\ \A i : ForIri(b, i) # {} => Latest(ForIri(b, i)) \in ForIri(b, i)
      /\ \A d : ForId(b, d) # {} => Latest(ForId(b, d)) \in ForId(b, d)
  BY <1>1, LatestEntry
<1>7. ASSUME NEW i \in Iris, NEW d \in Ids
      PROVE  /\ iri_to_id'[i] = d <=> \E k \in DOMAIN b : b[k][1] = d /\ b[k][2] = i
             /\ id_to_iri'[d] = i <=> \E k \in DOMAIN b : b[k][1] = d /\ b[k][2] = i
  <2>1. iri_to_id'[i] = IF ForIri(b, i) = {} THEN None ELSE b[Latest(ForIri(b, i))][1]
    BY <1>5 DEF ImportEntries
  <2>2. id_to_iri'[d] = IF ForId(b, d) = {} THEN None ELSE b[Latest(ForId(b, d))][2]
    BY <1>5 DEF ImportEntries
  <2>3. d # None /\ i # None
    BY DEF Ids
  <2> HIDE DEF b
  <2>4. ASSUME NEW k \in DOMAIN b, b[k][1] = d, b[k][2] = i
        PROVE  iri_to_id'[i] = d /\ id_to_iri'[d] = i
    <3>1. k \in ForIri(b, i) /\ k \in ForId(b, d)
      BY <2>4 DEF ForIri, ForId
    <3>2. Latest(ForIri(b, i)) = k
      BY <1>2, <1>6, <2>4, <3>1 DEF ForIri
    <3>3. Latest(ForId(b, d)) \in ForId(b, d)
      BY <1>6, <3>1
    <3>4. Latest(ForId(b, d)) = k
      BY <1>2, <2>4, <3>3 DEF ForId
    <3>5. QED
      BY <2>1, <2>2, <2>4, <3>1, <3>2, <3>4
  <2>5. ASSUME iri_to_id'[i] = d PROVE \E k \in DOMAIN b : b[k][1] = d /\ b[k][2] = i
    BY <1>6, <2>1, <2>3, <2>5 DEF ForIri
  <2>6. ASSUME id_to_iri'[d] = i PROVE \E k \in DOMAIN b : b[k][1] = d /\ b[k][2] = i
    BY <1>6, <2>2, <2>3, <2>6 DEF ForId
  <2>7. QED
    BY <2>4, <2>5, <2>6
<1>8. next_id' \in Ids /\ next_id <= next_id' /\ \A k \in DOMAIN b : b[k][1] < next_id'
  <2>1. next_id' = NextAfter(b, next_id)
    BY DEF ImportEntries
  <2> HIDE DEF b
  <2>2. QED
    BY <1>1, <1>2, <2>1, NextAfterIsPast DEF IsPast
<1>9. iri_to_id' \in [Iris -> Ids \cup {None}] /\ id_to_iri' \in [Ids -> Iris \cup {None}]
  BY ImportType DEF TypeOK
<1> HIDE DEF b
<1>10. ASSUME NEW i \in Iris, iri_to_id'[i] # None
       PROVE  0 < iri_to_id'[i] /\ iri_to_id'[i] < next_id'
  BY <1>2, <1>7, <1>8, <1>9, <1>10
<1>11. ASSUME NEW d \in Ids, id_to_iri'[d] # None PROVE d < next_id'
  BY <1>7, <1>8, <1>9, <1>11
<1>12. 0 < next_id'
  BY <1>1, <1>8 DEF MapInv, Ids
<1>13. QED
  BY <1>4, <1>7, <1>10, <1>11, <1>12 DEF MapInv

LEMMA MapStep ==
    ASSUME TypeOK, PhaseInv, LockInv, RestoreOnly, RestoreInv, MapInv, [Next]_vars
    PROVE  MapInv'
<1>1. ASSUME NEW t \in Threads, Calls(t) PROVE MapInv'
  BY <1>1, MapsUntouched
  DEF Calls, Call, CallGetOrInsert, CallGetId, CallGetIri, CallImport, CallClear, TypeOK
<1>2. ASSUME NEW t \in Threads, Step(t) PROVE MapInv'
  <2>1. CASE ReadLock(t) \/ FastLock(t) \/ Lookup(t) \/ ReadReturn(t) \/ FastHit(t) \/ FastMiss(t)
    BY <2>1, MapsUntouched
    DEF ReadLock, FastLock, Lookup, ReadReturn, FastHit, FastMiss, TypeOK
  <2>2. CASE LockForward(t) \/ LockReverse(t) \/ UnlockReverse(t) \/ UnlockForward(t)
             \/ DoubleCheckHit(t)
    BY <2>2, MapsUntouched
    DEF LockForward, LockReverse, UnlockReverse, UnlockForward, DoubleCheckHit, TypeOK
  <2>3. CASE Assign(t)
    BY <2>3, AssignMaps
  <2>4. CASE InsertReverse(t)
    BY <2>4, InsertReverseMaps
  <2>5. CASE ImportEntries(t)
    BY <2>5, ImportMaps
  <2>6. CASE ClearMaps(t)
    BY <2>6, ClearMapsMaps
  <2>7. QED
    BY <1>2, <2>1, <2>2, <2>3, <2>4, <2>5, <2>6 DEF Step
<1>3. CASE UNCHANGED vars
  BY <1>3, MapsUntouched DEF vars, TypeOK
<1>4. QED
  BY <1>1, <1>2, <1>3 DEF Next, Finished

(* The inductive invariant.                                                *)
THEOREM Invariance == Spec => []IInv
<1>1. Init => IInv
  BY BoundsAssumption, OpsAssumption, NoneAssumption
  DEF Init, IInv, TypeOK, PhaseInv, LockInv, RestoreInv, MapInv, Ids, AllOps, ArgsOf,
      Phases, Reads, HoldsForward, HoldsReverse
<1>2. IInv /\ [Next]_vars => IInv'
  BY TypeStep, PhaseStep, LockStep, RestoreStep, MapStep DEF IInv
<1>3. QED
  BY <1>1, <1>2, PTL DEF Spec

(* Observers find the maps inverse to each other: a reader or a writer at  *)
(* the start of its body shares neither map with a half insertion.         *)
THEOREM ObserversAgree == Spec => []MapsAgreeWhenObserved
<1>1. IInv => MapsAgreeWhenObserved
  <2> SUFFICES ASSUME IInv, RestoreOnly, NEW t \in Threads,
                      pc[t] \in {"read_held", "fast_held", "body"}
               PROVE  MapsInverse
    BY DEF MapsAgreeWhenObserved
  <2>1. \A u \in Threads : pc[u] # "insert_rev"
    BY NoneAssumption
    DEF IInv, LockInv, TypeOK, Reads, ReadLockOf, HoldsForward, HoldsReverse
  <2>2. QED
    BY <2>1 DEF IInv, MapInv, HalfInserted, MapsInverse
<1>2. QED
  BY <1>1, Invariance, PTL

(* No id names two IRIs, as long as imports only restore.                  *)
THEOREM OwnIds == Spec => [](RestoreOnly => EveryIriHasItsOwnId)
<1>1. IInv => (RestoreOnly => EveryIriHasItsOwnId)
  <2> SUFFICES ASSUME IInv, RestoreOnly, NEW i \in Iris, NEW j \in Iris, i # j,
                      iri_to_id[i] # None, iri_to_id[i] = iri_to_id[j]
               PROVE  FALSE
    BY DEF EveryIriHasItsOwnId
  <2> DEFINE d == iri_to_id[i]
  <2>1. d \in Ids
    BY DEF IInv, TypeOK
  <2>2. \A u, v \in Threads : pc[u] = "insert_rev" /\ pc[v] = "insert_rev" => u = v
    BY DEF IInv, LockInv, HoldsReverse
  <2>3. /\ id_to_iri[d] = i \/ HalfInserted(i, d)
        /\ id_to_iri[d] = j \/ HalfInserted(j, d)
    BY <2>1 DEF IInv, MapInv
  <2>4. HalfInserted(i, d) \/ HalfInserted(j, d) => id_to_iri[d] = None
    BY DEF IInv, MapInv, HalfInserted
  <2>5. QED
    BY <2>2, <2>3, <2>4, NoneAssumption DEF HalfInserted
<1>2. QED
  BY <1>1, Invariance, PTL

(* The next fetch_add hands out an id that has no meaning yet.             *)
THEOREM FreshIds == Spec => [](RestoreOnly => NextIdIsFresh)
<1>1. IInv => (RestoreOnly => NextIdIsFresh)
  BY DEF IInv, MapInv, NextIdIsFresh
<1>2. QED
  BY <1>1, Invariance, PTL
-----------------------------------------------------------------------------
(* Until its answer is fixed a call has none.                              *)
Answered == {"drop", "insert_rev", "unlock_rev", "unlock_fwd"}

AskedInv ==
    \A t \in Threads : pc[t] \notin Answered \cup {"idle"} => ret[t] = None

LEMMA AskedStep ==
    ASSUME TypeOK, AskedInv, [Next]_vars
    PROVE  AskedInv'
<1> USE DEF AskedInv, TypeOK, Answered
<1>1. ASSUME NEW t \in Threads, Calls(t) PROVE AskedInv'
  BY <1>1 DEF Calls, Call, CallGetOrInsert, CallGetId, CallGetIri, CallImport, CallClear
<1>2. ASSUME NEW t \in Threads, Step(t) PROVE AskedInv'
  <2>1. CASE ReadLock(t) \/ FastLock(t) \/ FastMiss(t) \/ LockForward(t) \/ LockReverse(t)
    BY <2>1 DEF ReadLock, FastLock, FastMiss, LockForward, LockReverse
  <2>2. CASE \/ Lookup(t) \/ FastHit(t) \/ DoubleCheckHit(t) \/ Assign(t)
             \/ InsertReverse(t) \/ ImportEntries(t) \/ ClearMaps(t) \/ UnlockReverse(t)
    BY <2>2 DEF Lookup, FastHit, DoubleCheckHit, Assign, InsertReverse, ImportEntries,
                ClearMaps, UnlockReverse
  <2>3. CASE ReadReturn(t) \/ UnlockForward(t)
    BY <2>3 DEF ReadReturn, UnlockForward
  <2>4. QED
    BY <1>2, <2>1, <2>2, <2>3 DEF Step
<1>3. CASE UNCHANGED vars
  BY <1>3 DEF vars
<1>4. QED
  BY <1>1, <1>2, <1>3 DEF Next, Finished
-----------------------------------------------------------------------------
(* The calls as AtomicDictionary sees them.                                *)
Abstract == [t \in Threads |-> AbstractCall(t)]

AbstractArg(t) == IF op[t] = "import" THEN Loaded(Entries[arg[t]]) ELSE arg[t]

LEMMA CallShape ==
    ASSUME NEW t \in Threads
    PROVE  /\ pc[t] = "idle" => AbstractCall(t) = Atomic!Idle
           /\ pc[t] # "idle" /\ pc[t] \notin Answered =>
                 AbstractCall(t) = [phase |-> "asked", op |-> op[t],
                                    arg |-> AbstractArg(t), ret |-> ret[t]]
           /\ pc[t] \in Answered =>
                 AbstractCall(t) = [phase |-> "answered", op |-> op[t],
                                    arg |-> AbstractArg(t), ret |-> ret[t]]
BY DEF AbstractCall, Answered, AbstractArg, Atomic!Idle

(* A step of one thread changes the call of that thread alone ...          *)
LEMMA OneCallChanges ==
    ASSUME NEW t \in Threads, NEW c, AbstractCall(t)' = c,
           \A u \in Threads : u # t => AbstractCall(u)' = AbstractCall(u)
    PROVE  Abstract' = [Abstract EXCEPT ![t] = c]
BY DEF Abstract

(* ... and changes nothing unless it begins, answers or returns.           *)
LEMMA NoCallChanges ==
    ASSUME \A u \in Threads : AbstractCall(u)' = AbstractCall(u)
    PROVE  Abstract' = Abstract
BY DEF Abstract

OthersSame(t) == \A u \in Threads : u # t =>
    pc'[u] = pc[u] /\ op'[u] = op[u] /\ arg'[u] = arg[u] /\ ret'[u] = ret[u]

LEMMA OthersKeepTheirCalls ==
    ASSUME NEW t \in Threads, OthersSame(t)
    PROVE  \A u \in Threads : u # t => AbstractCall(u)' = AbstractCall(u)
<1> SUFFICES ASSUME NEW u \in Threads, u # t
             PROVE  AbstractCall(u)' = AbstractCall(u)
  OBVIOUS
<1>1. pc'[u] = pc[u] /\ op'[u] = op[u] /\ arg'[u] = arg[u] /\ ret'[u] = ret[u]
  BY DEF OthersSame
<1>2. AbstractArg(u)' = AbstractArg(u)
  BY <1>1 DEF AbstractArg, Loaded
<1>3. QED
  BY <1>1, <1>2 DEF AbstractCall, AbstractArg

(* A step inside of a call that neither answers it nor returns.            *)
LEMMA StepStutters ==
    ASSUME NEW t \in Threads, OthersSame(t),
           op'[t] = op[t], arg'[t] = arg[t], ret'[t] = ret[t],
           \/ pc[t] \in Answered /\ pc'[t] \in Answered
           \/ /\ pc[t] \notin Answered \cup {"idle"}
              /\ pc'[t] \notin Answered \cup {"idle"}
    PROVE  Abstract' = Abstract
<1>1. AbstractCall(t)' = AbstractCall(t)
  BY DEF AbstractCall, Loaded, Answered
<1>2. QED
  BY <1>1, OthersKeepTheirCalls, NoCallChanges

(* The step that fixes the answer r.                                       *)
LEMMA StepAnswers ==
    ASSUME NEW t \in Threads, NEW r, OthersSame(t),
           op'[t] = op[t], arg'[t] = arg[t], ret'[t] = r,
           pc[t] \notin Answered \cup {"idle"}, pc'[t] \in Answered
    PROVE  Atomic!Answer(t, r)
<1>1. AbstractArg(t)' = AbstractArg(t)
  BY DEF AbstractArg, Loaded
<1>2. Abstract[t] = [phase |-> "asked", op |-> op[t], arg |-> AbstractArg(t),
                     ret |-> ret[t]]
  BY CallShape DEF Abstract
<1>3. AbstractCall(t)' = [phase |-> "answered", op |-> op[t],
                          arg |-> AbstractArg(t), ret |-> r]
  BY <1>1 DEF AbstractCall, AbstractArg, Answered
<1>4. Abstract' = [Abstract EXCEPT ![t] = [phase |-> "answered", op |-> op[t],
                                           arg |-> AbstractArg(t), ret |-> r]]
  BY <1>3, OthersKeepTheirCalls, OneCallChanges
<1>5. [[Abstract[t] EXCEPT !.phase = "answered"] EXCEPT !.ret = r]
      = [phase |-> "answered", op |-> op[t], arg |-> AbstractArg(t), ret |-> r]
  <2> DEFINE c == Abstract[t]
             o == op[t]
             a == AbstractArg(t)
             q == ret[t]
  <2>1. c = [phase |-> "asked", op |-> o, arg |-> a, ret |-> q]
    BY <1>2
  <2> HIDE DEF c, o, a, q
  <2>2. [[c EXCEPT !.phase = "answered"] EXCEPT !.ret = r]
        = [phase |-> "answered", op |-> o, arg |-> a, ret |-> r]
    <3> DEFINE d == [phase |-> "answered", op |-> o, arg |-> a, ret |-> q]
    <3>1. [c EXCEPT !.phase = "answered"] = d
      BY <2>1
    <3>2. [d EXCEPT !.ret = r]
          = [phase |-> "answered", op |-> o, arg |-> a, ret |-> r]
      OBVIOUS
    <3>3. QED
      BY <3>1, <3>2
  <2>3. QED
    BY <2>2 DEF c, o, a
<1>6. Abstract' = [Abstract EXCEPT ![t].phase = "answered", ![t].ret = r]
  BY <1>4, <1>5 DEF Abstract
<1>7. QED
  BY <1>6 DEF Atomic!Answer, Abstract

(* The step that returns.                                                  *)
LEMMA StepReturns ==
    ASSUME NEW t \in Threads, OthersSame(t), iri_to_id' = iri_to_id,
           pc[t] \in Answered, pc'[t] = "idle"
    PROVE  Atomic!Return(t)
<1>1. AbstractCall(t)' = Atomic!Idle
  BY DEF AbstractCall, Atomic!Idle
<1>2. Abstract' = [Abstract EXCEPT ![t] = Atomic!Idle]
  BY <1>1, OthersKeepTheirCalls, OneCallChanges
<1>3. Abstract[t].phase = "answered"
  BY CallShape DEF Abstract
<1>4. QED
  BY <1>2, <1>3 DEF Atomic!Return, Abstract

LEMMA CallInvokes ==
    ASSUME TypeOK, NEW t \in Threads, NEW o \in AllOps, NEW a, NEW start,
           start \notin Answered \cup {"idle"}, Call(t, o, a, start)
    PROVE  Atomic!Invoke(t, o, IF o = "import" THEN Loaded(Entries[a]) ELSE a)
<1>1. /\ pc[t] = "idle" /\ pc'[t] = start /\ op'[t] = o /\ arg'[t] = a /\ ret'[t] = None
      /\ OthersSame(t) /\ iri_to_id' = iri_to_id
  BY DEF Call, Goto, TypeOK, OthersSame, maps
<1>2. AbstractCall(t)' = [phase |-> "asked", op |-> o,
         arg |-> IF o = "import" THEN Loaded(Entries[a]) ELSE a, ret |-> None]
  BY <1>1 DEF AbstractCall, Answered, Loaded
<1>3. Abstract' = [Abstract EXCEPT ![t] = [phase |-> "asked", op |-> o,
         arg |-> IF o = "import" THEN Loaded(Entries[a]) ELSE a, ret |-> None]]
  BY <1>1, <1>2, OthersKeepTheirCalls, OneCallChanges
<1>4. Abstract[t].phase = "idle"
  BY <1>1, CallShape DEF Abstract, Atomic!Idle
<1>5. QED
  BY <1>1, <1>3, <1>4 DEF Atomic!Invoke, Abstract

(* Every call is an invocation.                                            *)
LEMMA CallsInvoke ==
    ASSUME TypeOK, NEW t \in Threads, Calls(t)
    PROVE  Atomic!Next
<1> USE DEF AllOps, Answered
<1>1. ASSUME NEW i \in Iris, CallGetOrInsert(t, i) PROVE Atomic!Next
  <2>1. Atomic!Invoke(t, "get_or_insert", i)
    BY <1>1, CallInvokes DEF CallGetOrInsert
  <2>2. QED
    BY <2>1 DEF Atomic!Next
<1>2. ASSUME NEW i \in Iris, CallGetId(t, i) PROVE Atomic!Next
  <2>1. Atomic!Invoke(t, "get_id", i)
    BY <1>2, CallInvokes DEF CallGetId
  <2>2. QED
    BY <2>1 DEF Atomic!Next
<1>3. ASSUME NEW d \in Ids, CallGetIri(t, d) PROVE Atomic!Next
  <2>1. Atomic!Invoke(t, "get_iri", d)
    BY <1>3, CallInvokes DEF CallGetIri
  <2>2. QED
    BY <2>1 DEF Atomic!Next
<1>4. ASSUME NEW m \in Imports, CallImport(t, m) PROVE Atomic!Next
  <2>1. Atomic!Invoke(t, "import", Loaded(Entries[m]))
    BY <1>4, CallInvokes DEF CallImport
  <2>2. QED
    BY <2>1 DEF Atomic!Next
<1>5. CASE CallClear(t)
  <2>1. Atomic!Invoke(t, "clear", None)
    BY <1>5, CallInvokes DEF CallClear
  <2>2. QED
    BY <2>1 DEF Atomic!Next
<1>6. QED
  BY <1>1, <1>2, <1>3, <1>4, <1>5 DEF Calls

(* What AtomicDictionary reads of a call that waits for its answer.        *)
LEMMA AskedCall ==
    ASSUME NEW t \in Threads, pc[t] \notin Answered \cup {"idle"}
    PROVE  /\ Abstract[t].phase = "asked" /\ Abstract[t].op = op[t]
           /\ Abstract[t].arg = AbstractArg(t)
BY CallShape DEF Abstract

(* get_id and get_iri answer from one map; under the read lock the other   *)
(* one says the same.                                                      *)
LEMMA LookupAnswers ==
    ASSUME IInv, RestoreOnly, MapsAgreeWhenObserved, NEW t \in Threads, Lookup(t)
    PROVE  Atomic!Next
<1> USE DEF IInv
<1>1. /\ pc[t] = "read_held" /\ pc'[t] = "drop" /\ OthersSame(t)
      /\ op'[t] = op[t] /\ arg'[t] = arg[t] /\ iri_to_id' = iri_to_id
      /\ ret'[t] = IF op[t] = "get_iri" THEN id_to_iri[arg[t]] ELSE iri_to_id[arg[t]]
  BY DEF Lookup, TypeOK, OthersSame, maps
<1>2. pc[t] \notin Answered \cup {"idle"} /\ pc'[t] \in Answered
  BY <1>1 DEF Answered
<1>3. /\ Abstract[t].phase = "asked" /\ Abstract[t].op = op[t]
      /\ Abstract[t].arg = AbstractArg(t)
  BY <1>2, AskedCall
<1>4. Atomic!Answer(t, ret'[t])
  BY <1>1, <1>2, StepAnswers
<1>5. CASE op[t] = "get_id"
  <2>1. AbstractArg(t) = arg[t] /\ ret'[t] = iri_to_id[arg[t]]
    BY <1>1, <1>5 DEF AbstractArg
  <2>2. Atomic!LookupId(t)
    BY <1>1, <1>3, <1>4, <1>5, <2>1 DEF Atomic!LookupId, Abstract
  <2>3. QED
    BY <2>2 DEF Atomic!Next
<1>6. CASE op[t] = "get_iri"
  <2>1. AbstractArg(t) = arg[t] /\ ret'[t] = id_to_iri[arg[t]] /\ arg[t] \in Ids
    BY <1>1, <1>6 DEF AbstractArg, TypeOK, ArgsOf
  <2>2. MapsInverse
    BY <1>1 DEF MapsAgreeWhenObserved
  <2>3. id_to_iri[arg[t]] \in Iris \cup {None} /\ None \notin Iris
    BY <2>1, NoneAssumption DEF TypeOK
  <2>4. IF ret'[t] = None THEN \A i \in Iris : iri_to_id[i] # arg[t]
                          ELSE iri_to_id[ret'[t]] = arg[t]
    BY <2>1, <2>2, <2>3 DEF MapsInverse
  <2>5. Atomic!LookupIri(t)
    BY <1>1, <1>3, <1>4, <1>6, <2>1, <2>3, <2>4 DEF Atomic!LookupIri, Abstract
  <2>6. QED
    BY <2>5 DEF Atomic!Next
<1>7. QED
  BY <1>1, <1>5, <1>6 DEF PhaseInv

(* A hit, before or after the write locks were taken, answers with the id  *)
(* the IRI has.                                                            *)
LEMMA HitAnswers ==
    ASSUME IInv, NEW t \in Threads, FastHit(t) \/ DoubleCheckHit(t)
    PROVE  Atomic!Next
<1>1. /\ pc[t] \in {"fast_held", "body"} /\ pc'[t] \in Answered /\ OthersSame(t)
      /\ op[t] = "get_or_insert" /\ op'[t] = op[t] /\ arg'[t] = arg[t]
      /\ iri_to_id' = iri_to_id /\ iri_to_id[arg[t]] # None
      /\ ret'[t] = iri_to_id[arg[t]]
  BY DEF IInv, PhaseInv, FastHit, DoubleCheckHit, TypeOK, OthersSame, maps, Answered
<1>2. pc[t] \notin Answered \cup {"idle"}
  BY <1>1 DEF Answered
<1>3. /\ Abstract[t].phase = "asked" /\ Abstract[t].op = "get_or_insert"
      /\ Abstract[t].arg = arg[t]
  BY <1>1, <1>2, AskedCall DEF AbstractArg
<1>4. Atomic!Answer(t, iri_to_id[arg[t]])
  BY <1>1, <1>2, StepAnswers
<1>5. Atomic!Intern(t)
  BY <1>1, <1>3, <1>4 DEF Atomic!Intern, Abstract
<1>6. QED
  BY <1>5 DEF Atomic!Next

(* The counter is an unused id.                                            *)
LEMMA CounterIsUnused ==
    ASSUME TypeOK, MapInv
    PROVE  next_id \in Ids \ {Reserved} /\ \A j \in Iris : iri_to_id[j] # next_id
<1>1. next_id \in Nat /\ next_id > 0
  BY BoundsAssumption DEF TypeOK, MapInv, Ids
<1>2. \A j \in Iris : iri_to_id[j] \in Ids \cup {None}
  BY DEF TypeOK
<1>3. next_id # None
  BY <1>1, NoneAssumption
<1>4. ASSUME NEW j \in Iris, iri_to_id[j] = next_id PROVE FALSE
  <2>1. iri_to_id[j] < next_id
    BY <1>3, <1>4 DEF MapInv
  <2>2. QED
    BY <1>1, <1>4, <2>1
<1>5. QED
  BY <1>1, <1>4 DEF TypeOK, Reserved

LEMMA AssignAnswers ==
    ASSUME IInv, RestoreOnly, NEW t \in Threads, Assign(t)
    PROVE  Atomic!Next
<1>1. /\ pc[t] = "body" /\ pc'[t] \in Answered /\ OthersSame(t)
      /\ op[t] = "get_or_insert" /\ op'[t] = op[t] /\ arg'[t] = arg[t]
      /\ iri_to_id' = [iri_to_id EXCEPT ![arg[t]] = next_id]
      /\ iri_to_id[arg[t]] = None /\ ret'[t] = next_id
  BY DEF IInv, Assign, TypeOK, OthersSame, Answered
<1>2. pc[t] \notin Answered \cup {"idle"}
  BY <1>1 DEF Answered
<1>3. /\ Abstract[t].phase = "asked" /\ Abstract[t].op = "get_or_insert"
      /\ Abstract[t].arg = arg[t]
  BY <1>1, <1>2, AskedCall DEF AbstractArg
<1>4. Atomic!Answer(t, next_id)
  BY <1>1, <1>2, StepAnswers
<1>5. next_id \in Ids \ {Reserved} /\ \A j \in Iris : iri_to_id[j] # next_id
  BY CounterIsUnused DEF IInv
<1>6. Atomic!Intern(t)
  BY <1>1, <1>3, <1>4, <1>5 DEF Atomic!Intern, Abstract
<1>7. QED
  BY <1>6 DEF Atomic!Next

LEMMA ClearAnswers ==
    ASSUME IInv, AskedInv, NEW t \in Threads, ClearMaps(t)
    PROVE  Atomic!Next
<1>1. /\ pc[t] = "body" /\ pc'[t] \in Answered /\ OthersSame(t)
      /\ op[t] = "clear" /\ op'[t] = op[t] /\ arg'[t] = arg[t]
      /\ iri_to_id' = [i \in Iris |-> None] /\ ret'[t] = ret[t]
  BY DEF IInv, ClearMaps, TypeOK, OthersSame, Answered
<1>2. pc[t] \notin Answered \cup {"idle"} /\ ret[t] = None
  BY <1>1 DEF Answered, AskedInv
<1>3. Abstract[t].phase = "asked" /\ Abstract[t].op = "clear"
  BY <1>1, <1>2, AskedCall
<1>4. Atomic!Answer(t, None)
  BY <1>1, <1>2, StepAnswers
<1>5. Atomic!Forget(t)
  BY <1>1, <1>3, <1>4 DEF Atomic!Forget, Abstract
<1>6. QED
  BY <1>5 DEF Atomic!Next

(* What a restore leaves in an empty forward map is the assignment that    *)
(* was exported: an IRI has one entry at most.                             *)
LEMMA RestoredMap ==
    ASSUME TypeOK, RestoreOnly, NEW t \in Threads, ImportEntries(t),
           iri_to_id = [i \in Iris |-> None]
    PROVE  iri_to_id' = Loaded(Entries[arg[t]])
<1> DEFINE b == Entries[arg[t]]
<1>1. arg[t] \in Imports /\ b \in Seq(Ids \X Iris)
  BY ImportsAssumption DEF ImportEntries, TypeOK, ArgsOf
<1>2. \A j, k \in DOMAIN b : j # k => b[j][2] # b[k][2]
  BY <1>1, RestoreAssumption
<1>3. iri_to_id' = [i \in Iris |->
         IF ForIri(b, i) = {} THEN None ELSE b[Latest(ForIri(b, i))][1]]
  BY DEF ImportEntries
<1> DEFINE one(i) == CHOOSE k \in DOMAIN b : b[k][2] = i
<1>4. Loaded(b) = [i \in Iris |->
         IF \E k \in DOMAIN b : b[k][2] = i THEN b[one(i)][1] ELSE None]
  BY DEF Loaded
<1> HIDE DEF b
<1>5. ASSUME NEW i \in Iris
      PROVE  (IF ForIri(b, i) = {} THEN None ELSE b[Latest(ForIri(b, i))][1])
             = (IF \E k \in DOMAIN b : b[k][2] = i THEN b[one(i)][1] ELSE None)
  <2>1. ForIri(b, i) # {} <=> \E k \in DOMAIN b : b[k][2] = i
    BY DEF ForIri
  <2>2. ASSUME ForIri(b, i) # {} PROVE Latest(ForIri(b, i)) = one(i)
    <3>1. Latest(ForIri(b, i)) \in ForIri(b, i)
      BY <1>1, <2>2, LatestEntry
    <3>2. one(i) \in DOMAIN b /\ b[one(i)][2] = i
      BY <2>1, <2>2
    <3>3. QED
      BY <1>2, <3>1, <3>2 DEF ForIri
  <2>3. QED
    BY <2>1, <2>2
<1> HIDE DEF one
<1>6. QED
  BY <1>3, <1>4, <1>5 DEF b

LEMMA ImportAnswers ==
    ASSUME IInv, RestoreOnly, AskedInv, NEW t \in Threads, ImportEntries(t)
    PROVE  Atomic!Next
<1>1. /\ pc[t] = "body" /\ pc'[t] \in Answered /\ OthersSame(t)
      /\ op[t] = "import" /\ op'[t] = op[t] /\ arg'[t] = arg[t]
      /\ ret'[t] = ret[t]
  BY DEF IInv, ImportEntries, TypeOK, OthersSame, Answered
<1>2. pc[t] \notin Answered \cup {"idle"} /\ ret[t] = None
  BY <1>1 DEF Answered, AskedInv
<1>3. /\ Abstract[t].phase = "asked" /\ Abstract[t].op = "import"
      /\ Abstract[t].arg = Loaded(Entries[arg[t]])
  BY <1>1, <1>2, AskedCall DEF AbstractArg
<1>4. Atomic!Answer(t, None)
  BY <1>1, <1>2, StepAnswers
<1>5. iri_to_id = [i \in Iris |-> None]
  BY <1>1 DEF IInv, RestoreInv
<1>6. iri_to_id' = Loaded(Entries[arg[t]])
  BY <1>5, RestoredMap DEF IInv
<1>7. Atomic!Restore(t)
  BY <1>3, <1>4, <1>5, <1>6 DEF Atomic!Restore, Abstract
<1>8. QED
  BY <1>7 DEF Atomic!Next

(* The steps at the locks, and the second insert, are not seen.            *)
LEMMA LockStepsStutter ==
    ASSUME TypeOK, NEW t \in Threads,
           \/ ReadLock(t) \/ FastLock(t) \/ FastMiss(t) \/ LockForward(t)
           \/ LockReverse(t) \/ InsertReverse(t) \/ UnlockReverse(t)
    PROVE  Abstract' = Abstract /\ iri_to_id' = iri_to_id
<1>1. /\ OthersSame(t) /\ iri_to_id' = iri_to_id
      /\ op'[t] = op[t] /\ arg'[t] = arg[t] /\ ret'[t] = ret[t]
  BY DEF ReadLock, FastLock, FastMiss, LockForward, LockReverse, InsertReverse,
         UnlockReverse, TypeOK, OthersSame, maps
<1>2. \/ pc[t] \in Answered /\ pc'[t] \in Answered
      \/ /\ pc[t] \notin Answered \cup {"idle"}
         /\ pc'[t] \notin Answered \cup {"idle"}
  BY DEF ReadLock, FastLock, FastMiss, LockForward, LockReverse, InsertReverse,
         UnlockReverse, TypeOK, Answered
<1>3. QED
  BY <1>1, <1>2, StepStutters

LEMMA ReturnReturns ==
    ASSUME TypeOK, NEW t \in Threads, ReadReturn(t) \/ UnlockForward(t)
    PROVE  Atomic!Next
<1>1. /\ OthersSame(t) /\ iri_to_id' = iri_to_id
      /\ pc[t] \in Answered /\ pc'[t] = "idle"
  BY DEF ReadReturn, UnlockForward, TypeOK, OthersSame, maps, Answered
<1>2. Atomic!Return(t)
  BY <1>1, StepReturns
<1>3. QED
  BY <1>2 DEF Atomic!Next

(* The dictionary is linearizable: each call takes effect where its answer *)
(* is fixed, on the forward map; no step in between is visible.            *)
THEOREM Linearizable == RestoreOnly => (Spec => ImplementsAtomicMap)
<1> SUFFICES ASSUME RestoreOnly PROVE Spec => ImplementsAtomicMap
  OBVIOUS
<1>1. Init => Atomic!Init /\ AskedInv
  <2> SUFFICES ASSUME Init PROVE Atomic!Init /\ AskedInv
    OBVIOUS
  <2>1. \A t \in Threads : pc[t] = "idle"
    BY DEF Init
  <2>2. \A t \in Threads : AbstractCall(t) = Atomic!Idle
    BY <2>1, CallShape
  <2>3. QED
    BY <2>1, <2>2 DEF Init, Atomic!Init, AskedInv
<1>2. IInv /\ AskedInv /\ [Next]_vars => AskedInv'
  BY AskedStep DEF IInv
<1>3. /\ IInv /\ AskedInv /\ MapsAgreeWhenObserved /\ [Next]_vars
      => [Atomic!Next]_(Atomic!vars)
  <2> SUFFICES ASSUME IInv, AskedInv, MapsAgreeWhenObserved, [Next]_vars
               PROVE  [Atomic!Next]_(Atomic!vars)
    OBVIOUS
  <2>1. TypeOK
    BY DEF IInv
  <2>2. Abstract' = Abstract /\ iri_to_id' = iri_to_id => UNCHANGED Atomic!vars
    BY DEF Atomic!vars, Abstract
  <2>3. ASSUME NEW t \in Threads, Calls(t) PROVE Atomic!Next
    BY <2>1, <2>3, CallsInvoke
  <2>4. ASSUME NEW t \in Threads, Step(t)
        PROVE  Atomic!Next \/ (Abstract' = Abstract /\ iri_to_id' = iri_to_id)
    <3>1. CASE Lookup(t)
      BY <3>1, LookupAnswers
    <3>2. CASE FastHit(t) \/ DoubleCheckHit(t)
      BY <3>2, HitAnswers
    <3>3. CASE Assign(t)
      BY <3>3, AssignAnswers
    <3>4. CASE ClearMaps(t)
      BY <3>4, ClearAnswers
    <3>5. CASE ImportEntries(t)
      BY <3>5, ImportAnswers
    <3>6. CASE ReadReturn(t) \/ UnlockForward(t)
      BY <2>1, <3>6, ReturnReturns
    <3>7. CASE \/ ReadLock(t) \/ FastLock(t) \/ FastMiss(t) \/ LockForward(t)
               \/ LockReverse(t) \/ InsertReverse(t) \/ UnlockReverse(t)
      BY <2>1, <3>7, LockStepsStutter
    <3>8. QED
      BY <2>4, <3>1, <3>2, <3>3, <3>4, <3>5, <3>6, <3>7 DEF Step
  <2>5. CASE UNCHANGED vars
    <3>1. \A t \in Threads : AbstractCall(t)' = AbstractCall(t)
      <4> SUFFICES ASSUME NEW t \in Threads PROVE AbstractCall(t)' = AbstractCall(t)
        OBVIOUS
      <4>1. AbstractArg(t)' = AbstractArg(t)
        BY <2>5 DEF vars, AbstractArg, Loaded
      <4>2. QED
        BY <2>5, <4>1 DEF vars, AbstractCall, AbstractArg
    <3>2. QED
      BY <2>2, <2>5, <3>1, NoCallChanges DEF vars, maps
  <2>6. QED
    BY <2>2, <2>3, <2>4, <2>5 DEF Next, Finished
<1>4. QED
  BY <1>1, <1>2, <1>3, Invariance, ObserversAgree, PTL
  DEF Spec, ImplementsAtomicMap, Atomic!Spec
=============================================================================
