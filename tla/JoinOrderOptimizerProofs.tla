---------------------- MODULE JoinOrderOptimizerProofs ----------------------
(***************************************************************************)
(* Proofs about StatisticsCollector and JoinOrderOptimizer, for any finite *)
(* sets of threads and triples, any number of calls and any patterns.      *)
(***************************************************************************)
EXTENDS JoinOrderOptimizer, TLAPS, FiniteSetTheorems, WellFoundedInduction

Bags == [Triples -> Nat]

(* What the sum of a function over a finite set is *)

(* Induction over the subsets of a finite set: good has a set as soon as   *)
(* it has all that are smaller.                                            *)
LEMMA SubsetInduction ==
  ASSUME NEW S, IsFiniteSet(S), NEW good,
         \A T \in SUBSET S : (\A s \in SUBSET T : s # T => s \in good) => T \in good
  PROVE  \A T \in SUBSET S : T \in good
<1> DEFINE bad == {T \in SUBSET S : T \notin good}
<1>1. SUFFICES ASSUME bad # {} PROVE FALSE
  OBVIOUS
<1>2. FiniteSubsetsOf(S) = SUBSET S
  BY FS_FiniteSubsetsOfFinite
<1>3. IsWellFoundedOn(StrictSubsetOrdering(S), SUBSET S)
  BY <1>2, FS_StrictSubsetOrderingWellFounded
<1>4. PICK T \in bad : \A s \in bad : ~(<<s, T>> \in StrictSubsetOrdering(S))
  <2>1. bad \subseteq SUBSET S
    OBVIOUS
  <2> HIDE DEF bad
  <2> QED BY <1>1, <1>3, <2>1, WFMin
<1>5. \A s \in SUBSET T : s # T => s \in good
  BY <1>4 DEF StrictSubsetOrdering
<1> QED BY <1>4, <1>5

(* The recursion behind SumOf: iter has the sum over every subset of S.    *)
Pick(s) == CHOOSE x \in s : TRUE
SumsOver(f, S, iter) ==
    iter = [s \in SUBSET S |-> IF s = {} THEN 0 ELSE f[Pick(s)] + iter[s \ {Pick(s)}]]

LEMMA SumIsChosen ==
  ASSUME NEW f, NEW S
  PROVE  SumOf(f, S) = (CHOOSE iter : SumsOver(f, S, iter))[S]
BY DEF SumOf, FoldFunctionOnSet, MapThenFoldSet, SumsOver, Pick

LEMMA PickIn == ASSUME NEW s, s # {} PROVE Pick(s) \in s
BY DEF Pick

(* The recursion has a solution over T, and all solutions agree on T.      *)
Solved(f, T) ==
    /\ \E iter : SumsOver(f, T, iter)
    /\ \A iter : SumsOver(f, T, iter) => iter[T] = SumOf(f, T)

LEMMA PartOfSolution ==
  ASSUME NEW f, NEW T, NEW iter, SumsOver(f, T, iter), NEW s \in SUBSET T
  PROVE  SumsOver(f, s, [r \in SUBSET s |-> iter[r]])
BY PickIn DEF SumsOver

LEMMA SolvedStep ==
  ASSUME NEW f, NEW T, \A s \in SUBSET T : s # T => Solved(f, s)
  PROVE  Solved(f, T)
<1>1. ASSUME NEW iter, SumsOver(f, T, iter), NEW s \in SUBSET T, s # T
      PROVE  iter[s] = SumOf(f, s)
  <2>1. SumsOver(f, s, [r \in SUBSET s |-> iter[r]])
    BY <1>1, PartOfSolution
  <2>2. [r \in SUBSET s |-> iter[r]][s] = SumOf(f, s)
    BY <1>1, <2>1 DEF Solved
  <2> QED BY <2>2
<1> DEFINE value(s) == IF s = {} THEN 0 ELSE f[Pick(s)] + SumOf(f, s \ {Pick(s)})
           sums == [s \in SUBSET T |-> value(s)]
<1>2. ASSUME NEW s \in SUBSET T, s # T
      PROVE  SumOf(f, s) = value(s)
  <2>1. PICK iter : SumsOver(f, s, iter)
    BY <1>2 DEF Solved
  <2>2. iter[s] = SumOf(f, s)
    BY <1>2, <2>1 DEF Solved
  <2>3. CASE s = {}
    BY <2>1, <2>2, <2>3 DEF SumsOver
  <2>4. CASE s # {}
    <3> DEFINE r == s \ {Pick(s)}
    <3>1. r \in SUBSET s /\ r # s /\ r \in SUBSET T /\ r # T
      BY <2>4, <1>2, PickIn
    <3>2. SumsOver(f, r, [q \in SUBSET r |-> iter[q]])
      BY <2>1, <3>1, PartOfSolution
    <3>3. [q \in SUBSET r |-> iter[q]][r] = SumOf(f, r)
      BY <3>1, <3>2 DEF Solved
    <3>4. iter[r] = SumOf(f, r)
      BY <3>3
    <3>5. iter[s] = f[Pick(s)] + iter[r]
      BY <2>1, <2>4 DEF SumsOver
    <3> QED BY <2>2, <2>4, <3>4, <3>5
  <2> QED BY <2>3, <2>4
<1>3. SumsOver(f, T, sums)
  <2>1. ASSUME NEW s \in SUBSET T
        PROVE  sums[s] = IF s = {} THEN 0 ELSE f[Pick(s)] + sums[s \ {Pick(s)}]
    <3>1. CASE s = {}
      BY <3>1
    <3>2. CASE s # {}
      <4> DEFINE r == s \ {Pick(s)}
      <4>1. r \in SUBSET T /\ r # T
        BY <3>2, PickIn
      <4>2. SumOf(f, r) = value(r)
        BY <4>1, <1>2
      <4>3. sums[r] = value(r) /\ sums[s] = value(s)
        BY <4>1
      <4>4. value(s) = f[Pick(s)] + SumOf(f, r)
        BY <3>2
      <4> HIDE DEF value, sums
      <4> QED BY <3>2, <4>2, <4>3, <4>4
    <3> QED BY <3>1, <3>2
  <2>2. sums = [s \in SUBSET T |-> IF s = {} THEN 0 ELSE f[Pick(s)] + sums[s \ {Pick(s)}]]
    <3>1. DOMAIN sums = SUBSET T
      OBVIOUS
    <3>2. sums = [s \in SUBSET T |-> sums[s]]
      OBVIOUS
    <3> HIDE DEF sums
    <3> QED BY <2>1, <3>2
  <2> QED BY <2>2 DEF SumsOver
<1> HIDE DEF sums
<1>4. SumOf(f, T) = (CHOOSE iter : SumsOver(f, T, iter))[T]
  BY SumIsChosen
<1>5. SumsOver(f, T, CHOOSE iter : SumsOver(f, T, iter))
  BY <1>3
<1>6. ASSUME NEW iter, SumsOver(f, T, iter)
      PROVE  iter[T] = value(T)
  <2>1. CASE T = {}
    BY <1>6, <2>1 DEF SumsOver
  <2>2. CASE T # {}
    <3> DEFINE r == T \ {Pick(T)}
    <3>1. r \in SUBSET T /\ r # T
      BY <2>2, PickIn
    <3>2. iter[r] = SumOf(f, r)
      BY <3>1, <1>1, <1>6
    <3>3. iter[T] = f[Pick(T)] + iter[r]
      BY <1>6, <2>2 DEF SumsOver
    <3> QED BY <2>2, <3>2, <3>3
  <2> QED BY <2>1, <2>2
<1>7. SumOf(f, T) = value(T)
  BY <1>4, <1>5, <1>6
<1> HIDE DEF value
<1> QED BY <1>3, <1>6, <1>7 DEF Solved

LEMMA AllSolved ==
  ASSUME NEW f, NEW S, IsFiniteSet(S)
  PROVE  \A T \in SUBSET S : Solved(f, T)
<1> DEFINE good == {T \in SUBSET S : Solved(f, T)}
<1>1. \A T \in SUBSET S : (\A s \in SUBSET T : s # T => s \in good) => T \in good
  BY SolvedStep
<1>2. \A T \in SUBSET S : T \in good
  <2> HIDE DEF good
  <2> QED BY <1>1, SubsetInduction
<1> QED BY <1>2

(* A finite set has the sum of one of its elements and of the others.      *)
LEMMA SumRecursion ==
  ASSUME NEW f, NEW S, IsFiniteSet(S)
  PROVE  /\ SumOf(f, {}) = 0
         /\ S # {} => SumOf(f, S) = f[Pick(S)] + SumOf(f, S \ {Pick(S)})
<1>1. Solved(f, S) /\ Solved(f, {})
  BY AllSolved
<1>2. SumOf(f, {}) = 0
  BY <1>1 DEF Solved, SumsOver
<1>3. ASSUME S # {}
      PROVE  SumOf(f, S) = f[Pick(S)] + SumOf(f, S \ {Pick(S)})
  <2> DEFINE r == S \ {Pick(S)}
  <2>1. PICK iter : SumsOver(f, S, iter)
    BY <1>1 DEF Solved
  <2>2. iter[S] = SumOf(f, S)
    BY <1>1, <2>1 DEF Solved
  <2>3. r \in SUBSET S /\ Solved(f, r)
    BY AllSolved
  <2>4. SumsOver(f, r, [q \in SUBSET r |-> iter[q]])
    BY <2>1, <2>3, PartOfSolution
  <2>5. [q \in SUBSET r |-> iter[q]][r] = SumOf(f, r)
    BY <2>3, <2>4 DEF Solved
  <2>6. iter[S] = f[Pick(S)] + iter[r]
    BY <1>3, <2>1 DEF SumsOver
  <2> QED BY <2>2, <2>5, <2>6
<1> QED BY <1>2, <1>3

LEMMA SumIsNat ==
  ASSUME NEW f, NEW S, IsFiniteSet(S), \A x \in S : f[x] \in Nat
  PROVE  SumOf(f, S) \in Nat
<1> DEFINE good == {T \in SUBSET S : SumOf(f, T) \in Nat}
<1>1. ASSUME NEW T \in SUBSET S, \A s \in SUBSET T : s # T => s \in good
      PROVE  T \in good
  <2>1. IsFiniteSet(T)
    BY FS_Subset
  <2>2. CASE T = {}
    <3>1. SumOf(f, {}) = 0
      BY <2>1, SumRecursion
    <3> QED BY <2>2, <3>1
  <2>3. CASE T # {}
    <3>1. Pick(T) \in T
      BY <2>3, PickIn
    <3>2. T \ {Pick(T)} \in good
      BY <1>1, <3>1
    <3> QED BY <2>1, <2>3, <3>1, <3>2, SumRecursion
  <2> QED BY <2>2, <2>3
<1>2. S \in good
  <2> HIDE DEF good
  <2> QED BY <1>1, SubsetInduction
<1> QED BY <1>2

(* Any element may be taken first. *)
LEMMA SumWithout ==
  ASSUME NEW f, NEW S, IsFiniteSet(S), \A x \in S : f[x] \in Nat, NEW x \in S
  PROVE  SumOf(f, S) = f[x] + SumOf(f, S \ {x})
<1> DEFINE good == {T \in SUBSET S : \A z \in T : SumOf(f, T) = f[z] + SumOf(f, T \ {z})}
<1>1. ASSUME NEW T \in SUBSET S, \A s \in SUBSET T : s # T => s \in good
      PROVE  T \in good
  <2> SUFFICES ASSUME NEW z \in T
               PROVE  SumOf(f, T) = f[z] + SumOf(f, T \ {z})
    OBVIOUS
  <2> DEFINE y == Pick(T)
             rest == T \ {y, z}
  <2>1. y \in T /\ IsFiniteSet(T) /\ IsFiniteSet(rest)
    BY PickIn, FS_Subset
  <2>2. SumOf(f, T) = f[y] + SumOf(f, T \ {y})
    BY <2>1, SumRecursion
  <2>3. CASE z = y
    BY <2>2, <2>3
  <2>4. CASE z # y
    <3>1. /\ T \ {y} \in good /\ z \in T \ {y} /\ (T \ {y}) \ {z} = rest
          /\ T \ {z} \in good /\ y \in T \ {z} /\ (T \ {z}) \ {y} = rest
      BY <1>1, <2>1, <2>4
    <3>2. /\ SumOf(f, T \ {y}) = f[z] + SumOf(f, rest)
          /\ SumOf(f, T \ {z}) = f[y] + SumOf(f, rest)
      BY <3>1
    <3>3. f[y] \in Nat /\ f[z] \in Nat /\ SumOf(f, rest) \in Nat
      BY <2>1, SumIsNat
    <3> HIDE DEF y, rest, good
    <3> QED BY <2>2, <3>2, <3>3
  <2> QED BY <2>3, <2>4
<1>2. S \in good
  <2> HIDE DEF good
  <2> QED BY <1>1, SubsetInduction
<1> QED BY <1>2

(* Sums of functions that agree on the set are equal.                      *)
LEMMA SumOfEquals ==
  ASSUME NEW f, NEW g, NEW S, IsFiniteSet(S), \A x \in S : f[x] = g[x]
  PROVE  SumOf(f, S) = SumOf(g, S)
<1> DEFINE good == {T \in SUBSET S : SumOf(f, T) = SumOf(g, T)}
<1>1. ASSUME NEW T \in SUBSET S, \A s \in SUBSET T : s # T => s \in good
      PROVE  T \in good
  <2>1. IsFiniteSet(T)
    BY FS_Subset
  <2>2. CASE T = {}
    <3>1. SumOf(f, {}) = 0 /\ SumOf(g, {}) = 0
      BY <2>1, SumRecursion
    <3> QED BY <2>2, <3>1
  <2>3. CASE T # {}
    <3> DEFINE y == Pick(T)
    <3>1. y \in T /\ T \ {y} \in good
      BY <1>1, <2>3, PickIn
    <3>2. SumOf(f, T) = f[y] + SumOf(f, T \ {y}) /\ SumOf(g, T) = g[y] + SumOf(g, T \ {y})
      BY <2>1, <2>3, SumRecursion
    <3> QED BY <3>1, <3>2
  <2> QED BY <2>2, <2>3
<1>2. S \in good
  <2> HIDE DEF good
  <2> QED BY <1>1, SubsetInduction
<1> QED BY <1>2

(* Sums that differ at one element. *)
LEMMA SumChanged ==
  ASSUME NEW f, NEW g, NEW S, IsFiniteSet(S), NEW x \in S,
         \A y \in S : f[y] \in Nat /\ g[y] \in Nat, \A y \in S \ {x} : f[y] = g[y]
  PROVE  SumOf(g, S) + f[x] = SumOf(f, S) + g[x]
<1>1. IsFiniteSet(S \ {x})
  BY FS_Subset
<1>2. SumOf(f, S) = f[x] + SumOf(f, S \ {x}) /\ SumOf(g, S) = g[x] + SumOf(g, S \ {x})
  BY SumWithout
<1>3. SumOf(f, S \ {x}) = SumOf(g, S \ {x})
  BY <1>1, SumOfEquals
<1>4. SumOf(f, S \ {x}) \in Nat
  BY <1>1, SumIsNat
<1> QED BY <1>2, <1>3, <1>4

LEMMA SumMonotone ==
  ASSUME NEW f, NEW g, NEW S, IsFiniteSet(S),
         \A x \in S : f[x] \in Nat /\ g[x] \in Nat /\ f[x] <= g[x]
  PROVE  SumOf(f, S) <= SumOf(g, S)
<1> DEFINE good == {T \in SUBSET S : SumOf(f, T) <= SumOf(g, T)}
<1>1. ASSUME NEW T \in SUBSET S, \A s \in SUBSET T : s # T => s \in good
      PROVE  T \in good
  <2>1. IsFiniteSet(T)
    BY FS_Subset
  <2>2. CASE T = {}
    <3>1. SumOf(f, {}) = 0 /\ SumOf(g, {}) = 0
      BY <2>1, SumRecursion
    <3> QED BY <2>2, <3>1
  <2>3. CASE T # {}
    <3> DEFINE y == Pick(T)
    <3>1. y \in T /\ T \ {y} \in good /\ IsFiniteSet(T \ {y})
      BY <1>1, <2>1, <2>3, PickIn, FS_Subset
    <3>2. SumOf(f, T) = f[y] + SumOf(f, T \ {y}) /\ SumOf(g, T) = g[y] + SumOf(g, T \ {y})
      BY <2>1, <2>3, SumRecursion
    <3>3. SumOf(f, T \ {y}) \in Nat /\ SumOf(g, T \ {y}) \in Nat
      BY <3>1, SumIsNat
    <3>4. f[y] \in Nat /\ g[y] \in Nat /\ f[y] <= g[y] /\ SumOf(f, T \ {y}) <= SumOf(g, T \ {y})
      BY <3>1
    <3>5. SumOf(f, T) <= SumOf(g, T)
      <4> HIDE DEF y
      <4> QED BY <3>2, <3>3, <3>4
    <3> QED BY <3>5
  <2> QED BY <2>2, <2>3
<1>2. S \in good
  <2> HIDE DEF good
  <2> QED BY <1>1, SubsetInduction
<1> QED BY <1>2

LEMMA SumOfZeros ==
  ASSUME NEW f, NEW S, IsFiniteSet(S), \A x \in S : f[x] = 0
  PROVE  SumOf(f, S) = 0
<1> DEFINE good == {T \in SUBSET S : SumOf(f, T) = 0}
<1>1. ASSUME NEW T \in SUBSET S, \A s \in SUBSET T : s # T => s \in good
      PROVE  T \in good
  <2>1. IsFiniteSet(T)
    BY FS_Subset
  <2>2. CASE T = {}
    BY <2>1, <2>2, SumRecursion
  <2>3. CASE T # {}
    <3>1. Pick(T) \in T /\ T \ {Pick(T)} \in good
      BY <1>1, <2>3, PickIn
    <3> QED BY <2>1, <2>3, <3>1, SumRecursion
  <2> QED BY <2>2, <2>3
<1>2. S \in good
  <2> HIDE DEF good
  <2> QED BY <1>1, SubsetInduction
<1> QED BY <1>2

(* A sum above 0 has an element above 0. *)
LEMMA SumAboveZero ==
  ASSUME NEW f, NEW S, IsFiniteSet(S), \A x \in S : f[x] \in Nat, SumOf(f, S) > 0
  PROVE  \E x \in S : f[x] > 0
<1>1. SUFFICES ASSUME \A x \in S : ~(f[x] > 0) PROVE FALSE
  OBVIOUS
<1>2. \A x \in S : f[x] = 0
  BY <1>1
<1>3. SumOf(f, S) = 0
  BY <1>2, SumOfZeros
<1> QED BY <1>3

LEMMA SumOfUnion ==
  ASSUME NEW f, NEW S, NEW T, IsFiniteSet(S), IsFiniteSet(T), S \cap T = {},
         \A x \in S \cup T : f[x] \in Nat
  PROVE  SumOf(f, S \cup T) = SumOf(f, S) + SumOf(f, T)
<1> DEFINE good == {U \in SUBSET T : SumOf(f, S \cup U) = SumOf(f, S) + SumOf(f, U)}
<1>1. ASSUME NEW U \in SUBSET T, \A s \in SUBSET U : s # U => s \in good
      PROVE  U \in good
  <2>1. IsFiniteSet(U) /\ IsFiniteSet(S \cup U) /\ SumOf(f, S) \in Nat
    BY FS_Subset, FS_Union, SumIsNat
  <2>2. CASE U = {}
    <3>1. SumOf(f, {}) = 0 /\ S \cup U = S
      BY <2>1, <2>2, SumRecursion
    <3> QED BY <2>1, <2>2, <3>1
  <2>3. CASE U # {}
    <3> DEFINE y == Pick(U)
               r == U \ {y}
    <3>1. y \in U /\ y \in S \cup U /\ r \in good /\ (S \cup U) \ {y} = S \cup r
      BY <1>1, <2>3, PickIn
    <3>2. IsFiniteSet(r) /\ f[y] \in Nat /\ SumOf(f, r) \in Nat
      BY <2>1, <3>1, FS_Subset, SumIsNat
    <3>3. SumOf(f, U) = f[y] + SumOf(f, r)
      BY <2>1, <2>3, SumRecursion
    <3>4. SumOf(f, S \cup U) = f[y] + SumOf(f, S \cup r)
      <4> HIDE DEF y, r
      <4> QED BY <2>1, <3>1, SumWithout
    <3>5. SumOf(f, S \cup r) = SumOf(f, S) + SumOf(f, r)
      BY <3>1
    <3>6. SumOf(f, S \cup U) = SumOf(f, S) + SumOf(f, U)
      <4> HIDE DEF y, r
      <4> QED BY <2>1, <3>2, <3>3, <3>4, <3>5
    <3> QED BY <3>6
  <2> QED BY <2>2, <2>3
<1>2. T \in good
  <2> HIDE DEF good
  <2> QED BY <1>1, SubsetInduction
<1> QED BY <1>2

(* The image of a finite set, and of a part of it. *)
LEMMA NodesAreFinite ==
  /\ IsFiniteSet(Subjects(Triples)) /\ IsFiniteSet(Predicates(Triples))
  /\ IsFiniteSet(Objects(Triples))
<1> DEFINE s == [t \in Triples |-> t.s]
           p == [t \in Triples |-> t.p]
           o == [t \in Triples |-> t.o]
<1>1. s \in Surjection(Triples, Subjects(Triples))
  BY DEF Surjection, Subjects
<1>2. p \in Surjection(Triples, Predicates(Triples))
  BY DEF Surjection, Predicates
<1>3. o \in Surjection(Triples, Objects(Triples))
  BY DEF Surjection, Objects
<1> HIDE DEF s, p, o
<1> QED BY <1>1, <1>2, <1>3, TriplesAssumption, FS_Surjection

(* Sums by predicate add up to the sum of the triples that have one of     *)
(* these predicates.                                                       *)
LEMMA SumByPredicate ==
  ASSUME NEW e \in Bags, NEW P \in SUBSET Predicates(Triples), NEW F,
         \A p \in P : F[p] = SumOf(e, Of(p, Triples))
  PROVE  SumOf(F, P) = SumOf(e, {x \in Triples : x.p \in P})
<1> DEFINE OfAny(Q) == {x \in Triples : x.p \in Q}
           good == {Q \in SUBSET P : SumOf(F, Q) = SumOf(e, OfAny(Q))}
<1>0. IsFiniteSet(P)
  BY NodesAreFinite, FS_Subset
<1>1. ASSUME NEW Q \in SUBSET P, \A s \in SUBSET Q : s # Q => s \in good
      PROVE  Q \in good
  <2>1. IsFiniteSet(Q) /\ IsFiniteSet(OfAny(Q))
    BY <1>0, FS_Subset, TriplesAssumption
  <2>2. CASE Q = {}
    <3>1. SumOf(F, Q) = 0 /\ SumOf(e, OfAny(Q)) = 0
      BY <2>1, <2>2, SumRecursion
    <3> QED BY <3>1
  <2>3. CASE Q # {}
    <3> DEFINE y == Pick(Q)
               r == Q \ {y}
    <3>1. y \in Q /\ r \in good
      BY <1>1, <2>3, PickIn
    <3>2. SumOf(F, Q) = F[y] + SumOf(F, r)
      BY <2>1, <2>3, SumRecursion
    <3>3. /\ OfAny(Q) = OfAny(r) \cup Of(y, Triples) /\ OfAny(r) \cap Of(y, Triples) = {}
          /\ IsFiniteSet(OfAny(r)) /\ IsFiniteSet(Of(y, Triples))
      <4>1. OfAny(r) \in SUBSET Triples /\ Of(y, Triples) \in SUBSET Triples
        BY DEF Of
      <4>2. IsFiniteSet(OfAny(r)) /\ IsFiniteSet(Of(y, Triples))
        BY <4>1, TriplesAssumption, FS_Subset
      <4> QED BY <3>1, <4>2 DEF Of
    <3>4. \A x \in OfAny(r) \cup Of(y, Triples) : e[x] \in Nat
      BY DEF Bags, Of
    <3>5. SumOf(e, OfAny(Q)) = SumOf(e, OfAny(r)) + SumOf(e, Of(y, Triples))
      <4> HIDE DEF y, r, OfAny
      <4> QED BY <3>3, <3>4, SumOfUnion
    <3>6. SumOf(F, r) = SumOf(e, OfAny(r)) /\ F[y] = SumOf(e, Of(y, Triples))
      BY <3>1
    <3>7. SumOf(e, OfAny(r)) \in Nat /\ SumOf(e, Of(y, Triples)) \in Nat
      <4> HIDE DEF y, r, OfAny
      <4> QED BY <3>3, <3>4, SumIsNat
    <3>8. SumOf(F, Q) = SumOf(e, OfAny(Q))
      <4> HIDE DEF y, r, OfAny
      <4> QED BY <3>2, <3>5, <3>6, <3>7
    <3> QED BY <3>8
  <2> QED BY <2>2, <2>3
<1>2. P \in good
  <2> HIDE DEF good
  <2> QED BY <1>0, <1>1, SubsetInduction
<1> QED BY <1>2

(* What get_frequency answers for the frequencies of edges.                *)
LEMMA FrequenciesAdd ==
  ASSUME NEW e \in Bags
  PROVE  LET F == Frequencies(e) IN
         /\ \A p \in Predicates(Triples) :
              (IF p \in DOMAIN F THEN F[p] ELSE 0) = SumOf(e, Of(p, Triples))
         /\ Total(F) = SumOf(e, Triples)
<1> DEFINE P == Predicates(Present(e))
           F == Frequencies(e)
           rest == {x \in Triples : x.p \notin P}
           those == {x \in Triples : x.p \in P}
<1>1. DOMAIN F = P /\ \A p \in P : F[p] = SumOf(e, Of(p, Triples))
  BY DEF Frequencies
<1>2. P \in SUBSET Predicates(Triples)
  BY DEF Predicates, Present
<1>3. \A x \in Triples : e[x] \in Nat /\ (x \in Present(e) <=> e[x] > 0)
  BY DEF Bags, Present
<1>4. \A x \in Triples : x.p \notin P => e[x] = 0
  BY <1>3 DEF Predicates
<1>5. ASSUME NEW p \in Predicates(Triples), p \notin P
      PROVE  SumOf(e, Of(p, Triples)) = 0
  <2>1. IsFiniteSet(Of(p, Triples))
    BY TriplesAssumption, FS_Subset DEF Of
  <2>2. \A x \in Of(p, Triples) : e[x] = 0
    BY <1>4, <1>5 DEF Of
  <2> QED BY <2>1, <2>2, SumOfZeros
<1>6. Total(F) = SumOf(F, P)
  <2>1. Total(F) = SumOf(F, DOMAIN F)
    BY DEF Total, FoldFunction, SumOf
  <2> QED BY <1>1, <2>1
<1>7. SumOf(F, P) = SumOf(e, those)
  <2> HIDE DEF F, P
  <2> QED BY <1>1, <1>2, SumByPredicate
<1>8. IsFiniteSet(rest) /\ IsFiniteSet(those) /\ rest \cap those = {} /\ those \cup rest = Triples
  BY TriplesAssumption, FS_Subset
<1>9. SumOf(e, rest) = 0
  BY <1>4, <1>8, SumOfZeros
<1>10. SumOf(e, Triples) = SumOf(e, those) + SumOf(e, rest) /\ SumOf(e, those) \in Nat
  <2>1. \A x \in those \cup rest : e[x] \in Nat
    BY <1>3
  <2> HIDE DEF rest, those
  <2> QED BY <1>8, <2>1, SumOfUnion, SumIsNat
<1>11. SumOf(e, Triples) = SumOf(e, those)
  BY <1>9, <1>10
<1>12. Total(F) = SumOf(e, Triples)
  BY <1>6, <1>7, <1>11, Zenon
<1> QED BY <1>1, <1>5, <1>12
(* One element comes or goes. *)
LEMMA OneMore ==
  ASSUME NEW S, IsFiniteSet(S), NEW T, NEW x, S \ {x} = T \ {x}
  PROVE  /\ IsFiniteSet(T) /\ Cardinality(S) \in Nat /\ Cardinality(T) \in Nat
         /\ (x \in S <=> x \in T) => T = S
         /\ x \notin S /\ x \in T => Cardinality(T) = Cardinality(S) + 1
         /\ x \in S /\ x \notin T => Cardinality(T) = Cardinality(S) - 1
<1>1. (x \in S <=> x \in T) => T = S
  OBVIOUS
<1>2. CASE x \notin S /\ x \in T
  <2>1. T = S \cup {x}
    BY <1>2
  <2> QED BY <1>2, <2>1, FS_AddElement, FS_CardinalityType
<1>3. CASE x \in S /\ x \notin T
  <2>1. T = S \ {x}
    BY <1>3
  <2> QED BY <1>3, <2>1, FS_RemoveElement, FS_CardinalityType
<1> QED BY <1>1, <1>2, <1>3, FS_CardinalityType

-----------------------------------------------------------------------------
(* The invariants of the collector *)

Like(b) == b = [triple_count |-> b.triple_count, distinct_subjects |-> b.distinct_subjects,
                distinct_predicates |-> b.distinct_predicates,
                distinct_objects |-> b.distinct_objects,
                predicate_frequency |-> b.predicate_frequency,
                predicate_histograms |-> b.predicate_histograms,
                type_distribution |-> b.type_distribution]

CollectorTypes ==
    /\ collector \in [subjects : SUBSET Subjects(Triples),
                      predicates : SUBSET Predicates(Triples),
                      objects : SUBSET Objects(Triples), edges : Bags,
                      types : SUBSET (TypeIds \X Subjects(Triples)), count : Nat]
    /\ DOMAIN call = Threads /\ DOMAIN todo = Threads
    /\ DOMAIN building = Threads /\ DOMAIN before = Threads
    /\ \A t \in Threads : (todo[t] # << >> => call[t] \in Calls) /\ Like(building[t])
    /\ begun \in Bags /\ ended \in Bags /\ torn \in BOOLEAN

(* What is left of a call are its last sections.                           *)
AddRests == {<<"subjects", "predicates", "objects", "edges", "count">>,
             <<"predicates", "objects", "edges", "count">>,
             <<"objects", "edges", "count">>, <<"edges", "count">>, <<"count">>}
TypeRests == {<<"types">>}
BuildRests == {<<"count", "subjects", "predicates", "objects", "edges", "types">>,
               <<"subjects", "predicates", "objects", "edges", "types">>,
               <<"predicates", "objects", "edges", "types">>,
               <<"objects", "edges", "types">>, <<"edges", "types">>, <<"types">>}
ClearRests == {<<"subjects", "predicates", "objects", "edges", "types", "count">>,
               <<"predicates", "objects", "edges", "types", "count">>,
               <<"objects", "edges", "types", "count">>,
               <<"edges", "types", "count">>, <<"types", "count">>, <<"count">>}

PlaceInv ==
    \A t \in Threads : Running(t) =>
        /\ call[t].op = "add_triple" => todo[t] \in AddRests
        /\ call[t].op = "add_type" => todo[t] \in TypeRests
        /\ call[t].op = "build" => todo[t] \in BuildRests
        /\ call[t].op = "clear" => todo[t] \in ClearRests

Left(t) == Range(todo[t])

Clears(t) == Running(t) /\ call[t].op = "clear"
Builds(t) == Running(t) /\ call[t].op = "build"
Adds(t, x) == Running(t) /\ call[t].op = "add_triple" /\ call[t].triple = x
Calm == ~torn /\ \A t \in Threads : ~Clears(t)

(* A clear that tears nothing is alone, and the data it clears are over.   *)
ClearInv ==
    ~torn => \A t \in Threads : Clears(t) =>
        /\ \A u \in Threads \ {t} : ~Running(u)
        /\ begun = None0 /\ ended = None0
        /\ "subjects" \notin Left(t) => collector.subjects = {}
        /\ "predicates" \notin Left(t) => collector.predicates = {}
        /\ "objects" \notin Left(t) => collector.objects = {}
        /\ "edges" \notin Left(t) => collector.edges = None0
        /\ "count" \notin Left(t) => collector.count = 0

(* The threads that add a triple, and those that have drawn its edge and   *)
(* not counted it yet.                                                     *)
Adding(x) == {t \in Threads : Adds(t, x)}
Drawn(x) == {t \in Threads : Adds(t, x) /\ "edges" \notin Left(t)}

EdgeInv ==
    Calm =>
        /\ \A x \in Triples :
             /\ begun[x] = ended[x] + Cardinality(Adding(x))
             /\ collector.edges[x] = ended[x] + Cardinality(Drawn(x))
        /\ collector.count = SumOf(ended, Triples)

(* The nodes of every edge are in the sets, and those of a triple being    *)
(* added as far as its call has come; nothing else is.                     *)
NodeInv ==
    Calm =>
        /\ \A x \in Present(collector.edges) :
             /\ x.s \in collector.subjects /\ x.p \in collector.predicates
             /\ x.o \in collector.objects
        /\ \A t \in Threads, x \in Triples : Adds(t, x) =>
             /\ "subjects" \notin Left(t) => x.s \in collector.subjects
             /\ "predicates" \notin Left(t) => x.p \in collector.predicates
             /\ "objects" \notin Left(t) => x.o \in collector.objects
        /\ collector.subjects \subseteq Subjects(Present(begun))
        /\ collector.predicates \subseteq Predicates(Present(begun))
        /\ collector.objects \subseteq Objects(Present(begun))

(* What a build has read, of what there was when it began, low, lies       *)
(* between that and what has been added, now, or begun by now, high.       *)
CountRead(low, n, now) == SumOf(low, Triples) <= n /\ n <= SumOf(now, Triples)

SetRead(low, n, high, total) ==
    /\ n \in Nat /\ Cardinality(low) <= n /\ n <= Cardinality(high)
    /\ total > 0 => n > 0

EdgesRead(low, f, total, high) ==
    /\ \A p \in Predicates(Triples) :
         LET n == IF p \in DOMAIN f THEN f[p] ELSE 0 IN
         /\ SumOf(low, Of(p, Triples)) <= n
         /\ n \in Nat /\ n <= SumOf(high, Of(p, Triples))
    /\ total <= Total(f)

ReadSoFar(left, low, b, now, high) ==
    /\ low \in Bags /\ b.triple_count \in Nat
    /\ \A x \in Triples : low[x] <= now[x]
    /\ "count" \notin left => CountRead(low, b.triple_count, now)
    /\ "subjects" \notin left =>
         SetRead(Subjects(Present(low)), b.distinct_subjects,
                 Subjects(Present(high)), b.triple_count)
    /\ "predicates" \notin left =>
         SetRead(Predicates(Present(low)), b.distinct_predicates,
                 Predicates(Present(high)), b.triple_count)
    /\ "objects" \notin left =>
         SetRead(Objects(Present(low)), b.distinct_objects,
                 Objects(Present(high)), b.triple_count)
    /\ "edges" \notin left =>
         EdgesRead(low, b.predicate_frequency, b.triple_count, high)

BuildInv ==
    ~torn => \A t \in Threads : Builds(t) =>
        ReadSoFar(Left(t), before[t], building[t], ended, begun)

-----------------------------------------------------------------------------
(* Where a thread stands in its call *)

(* The start and the elements of a tuple. *)
LEMMA Tuple1 ==
  ASSUME NEW a
  PROVE  /\ Head(<<a>>) = a /\ Tail(<<a>>) = << >> /\ Range(<<a>>) = {a}
         /\ Len(<<a>>) = 1 /\ <<a>> # << >>
BY DEF Range

LEMMA Tuple2 ==
  ASSUME NEW a, NEW b
  PROVE  /\ Head(<<a, b>>) = a /\ Tail(<<a, b>>) = <<b>> /\ Range(<<a, b>>) = {a, b}
         /\ Len(<<a, b>>) # 1 /\ <<a, b>> # << >>
BY DEF Range

LEMMA Tuple3 ==
  ASSUME NEW a, NEW b, NEW c
  PROVE  /\ Head(<<a, b, c>>) = a /\ Tail(<<a, b, c>>) = <<b, c>>
         /\ Range(<<a, b, c>>) = {a, b, c}
         /\ Len(<<a, b, c>>) # 1 /\ <<a, b, c>> # << >>
BY DEF Range

(* A section done is one less that is left. *)
Shortens(r, rests) ==
    /\ Head(r) \in Range(r) /\ Range(Tail(r)) = Range(r) \ {Head(r)}
    /\ Range(r) # {} /\ (Range(Tail(r)) # {} <=> Tail(r) # << >>)
    /\ Len(r) = 1 <=> Tail(r) = << >>
    /\ Tail(r) # << >> => Tail(r) \in rests

LEMMA EmptyRange == Range(<< >>) = {}
BY DEF Range

LEMMA Shorter2 ==
  ASSUME NEW a, NEW b, NEW rests, <<b>> \in rests,
         a \notin {b}
  PROVE  Shortens(<<a, b>>, rests)
BY Tuple2, Tuple1 DEF Shortens

LEMMA Shorter3 ==
  ASSUME NEW a, NEW b, NEW c, NEW rests, <<b, c>> \in rests,
         a \notin {b, c}
  PROVE  Shortens(<<a, b, c>>, rests)
<1> DEFINE r == <<a, b, c>>
           rest == <<b, c>>
<1>1. Head(r) = a /\ Tail(r) = rest /\ Range(r) = {a, b, c} /\ Len(r) # 1
  BY DEF Range
<1>2. Range(rest) = {b, c} /\ rest # << >> /\ rest \in rests
  BY DEF Range
<1> HIDE DEF r, rest
<1>3. Shortens(r, rests)
  BY <1>1, <1>2 DEF Shortens
<1> QED BY <1>3 DEF r

LEMMA Shorter4 ==
  ASSUME NEW a, NEW b, NEW c, NEW d, NEW rests, <<b, c, d>> \in rests,
         a \notin {b, c, d}
  PROVE  Shortens(<<a, b, c, d>>, rests)
<1> DEFINE r == <<a, b, c, d>>
           rest == <<b, c, d>>
<1>1. Head(r) = a /\ Tail(r) = rest /\ Range(r) = {a, b, c, d} /\ Len(r) # 1
  BY DEF Range
<1>2. Range(rest) = {b, c, d} /\ rest # << >> /\ rest \in rests
  BY DEF Range
<1> HIDE DEF r, rest
<1>3. Shortens(r, rests)
  BY <1>1, <1>2 DEF Shortens
<1> QED BY <1>3 DEF r

LEMMA Shorter5 ==
  ASSUME NEW a, NEW b, NEW c, NEW d, NEW e, NEW rests, <<b, c, d, e>> \in rests,
         a \notin {b, c, d, e}
  PROVE  Shortens(<<a, b, c, d, e>>, rests)
<1> DEFINE r == <<a, b, c, d, e>>
           rest == <<b, c, d, e>>
<1>1. Head(r) = a /\ Tail(r) = rest /\ Range(r) = {a, b, c, d, e} /\ Len(r) # 1
  BY DEF Range
<1>2. Range(rest) = {b, c, d, e} /\ rest # << >> /\ rest \in rests
  BY DEF Range
<1> HIDE DEF r, rest
<1>3. Shortens(r, rests)
  BY <1>1, <1>2 DEF Shortens
<1> QED BY <1>3 DEF r

LEMMA Shorter6 ==
  ASSUME NEW a, NEW b, NEW c, NEW d, NEW e, NEW f, NEW rests, <<b, c, d, e, f>> \in rests,
         a \notin {b, c, d, e, f}
  PROVE  Shortens(<<a, b, c, d, e, f>>, rests)
<1> DEFINE r == <<a, b, c, d, e, f>>
           rest == <<b, c, d, e, f>>
<1>1. Head(r) = a /\ Tail(r) = rest /\ Range(r) = {a, b, c, d, e, f} /\ Len(r) # 1
  BY DEF Range
<1>2. Range(rest) = {b, c, d, e, f} /\ rest # << >> /\ rest \in rests
  BY DEF Range
<1> HIDE DEF r, rest
<1>3. Shortens(r, rests)
  BY <1>1, <1>2 DEF Shortens
<1> QED BY <1>3 DEF r

LEMMA AddSections ==
  ASSUME NEW r \in AddRests
  PROVE  /\ Shortens(r, AddRests)
         /\ Head(r) = "edges" => Range(r) = {"edges", "count"}
         /\ Head(r) = "count" => Range(r) = {"count"}
         /\ "count" \in Range(r)
<1>1. CASE r = <<"subjects", "predicates", "objects", "edges", "count">>
  <2>1. Shortens(<<"subjects", "predicates", "objects", "edges", "count">>, AddRests)
    <3>1. /\ <<"predicates", "objects", "edges", "count">> \in AddRests
          /\ "subjects" \notin {"predicates", "objects", "edges", "count"}
      BY DEF AddRests
    <3> QED BY <3>1, Shorter5, Zenon
  <2>2. /\ Head(<<"subjects", "predicates", "objects", "edges", "count">>) = "subjects"
        /\ Range(<<"subjects", "predicates", "objects", "edges", "count">>) =
             {"subjects", "predicates", "objects", "edges", "count"}
    BY DEF Range
  <2> QED BY <1>1, <2>1, <2>2
<1>2. CASE r = <<"predicates", "objects", "edges", "count">>
  <2>1. Shortens(<<"predicates", "objects", "edges", "count">>, AddRests)
    <3>1. /\ <<"objects", "edges", "count">> \in AddRests
          /\ "predicates" \notin {"objects", "edges", "count"}
      BY DEF AddRests
    <3> QED BY <3>1, Shorter4, Zenon
  <2>2. /\ Head(<<"predicates", "objects", "edges", "count">>) = "predicates"
        /\ Range(<<"predicates", "objects", "edges", "count">>) =
             {"predicates", "objects", "edges", "count"}
    BY DEF Range
  <2> QED BY <1>2, <2>1, <2>2
<1>3. CASE r = <<"objects", "edges", "count">>
  <2>1. Shortens(<<"objects", "edges", "count">>, AddRests)
    <3>1. <<"edges", "count">> \in AddRests /\ "objects" \notin {"edges", "count"}
      BY DEF AddRests
    <3> QED BY <3>1, Shorter3, Zenon
  <2>2. /\ Head(<<"objects", "edges", "count">>) = "objects"
        /\ Range(<<"objects", "edges", "count">>) = {"objects", "edges", "count"}
    BY Tuple3
  <2> QED BY <1>3, <2>1, <2>2
<1>4. CASE r = <<"edges", "count">>
  <2>1. Shortens(<<"edges", "count">>, AddRests)
    <3>1. <<"count">> \in AddRests /\ "edges" \notin {"count"}
      BY DEF AddRests
    <3> QED BY <3>1, Shorter2, Zenon
  <2>2. Head(<<"edges", "count">>) = "edges" /\ Range(<<"edges", "count">>) = {"edges", "count"}
    BY Tuple2
  <2> QED BY <1>4, <2>1, <2>2
<1>5. CASE r = <<"count">>
  <2>1. Shortens(<<"count">>, AddRests)
    BY Tuple1, EmptyRange DEF Shortens, AddRests
  <2>2. Head(<<"count">>) = "count" /\ Range(<<"count">>) = {"count"}
    BY Tuple1
  <2> QED BY <1>5, <2>1, <2>2
<1> QED BY <1>1, <1>2, <1>3, <1>4, <1>5 DEF AddRests

LEMMA TypeSections ==
  ASSUME NEW r \in TypeRests
  PROVE  Shortens(r, TypeRests)
BY Tuple1, EmptyRange DEF Shortens, TypeRests

LEMMA BuildSectionsOrder ==
  ASSUME NEW r \in BuildRests
  PROVE  /\ Shortens(r, BuildRests)
         /\ Head(r) # "count" => "count" \notin Range(r)
         /\ Head(r) = "types" => Range(r) = {"types"}
         /\ Head(r) = "count" => {"subjects", "predicates", "objects", "edges"} \subseteq Range(r)
<1>1. CASE r = <<"count", "subjects", "predicates", "objects", "edges", "types">>
  <2>1. Shortens(<<"count", "subjects", "predicates", "objects", "edges", "types">>, BuildRests)
    <3>1. /\ <<"subjects", "predicates", "objects", "edges", "types">> \in BuildRests
          /\ "count" \notin {"subjects", "predicates", "objects", "edges", "types"}
      BY DEF BuildRests
    <3> QED BY <3>1, Shorter6, Zenon
  <2>2. /\ Head(<<"count", "subjects", "predicates", "objects", "edges", "types">>) = "count"
        /\ Range(<<"count", "subjects", "predicates", "objects", "edges", "types">>) =
             {"count", "subjects", "predicates", "objects", "edges", "types"}
    BY DEF Range
  <2> QED BY <1>1, <2>1, <2>2
<1>2. CASE r = <<"subjects", "predicates", "objects", "edges", "types">>
  <2>1. Shortens(<<"subjects", "predicates", "objects", "edges", "types">>, BuildRests)
    <3>1. /\ <<"predicates", "objects", "edges", "types">> \in BuildRests
          /\ "subjects" \notin {"predicates", "objects", "edges", "types"}
      BY DEF BuildRests
    <3> QED BY <3>1, Shorter5, Zenon
  <2>2. /\ Head(<<"subjects", "predicates", "objects", "edges", "types">>) = "subjects"
        /\ Range(<<"subjects", "predicates", "objects", "edges", "types">>) =
             {"subjects", "predicates", "objects", "edges", "types"}
    BY DEF Range
  <2> QED BY <1>2, <2>1, <2>2
<1>3. CASE r = <<"predicates", "objects", "edges", "types">>
  <2>1. Shortens(<<"predicates", "objects", "edges", "types">>, BuildRests)
    <3>1. /\ <<"objects", "edges", "types">> \in BuildRests
          /\ "predicates" \notin {"objects", "edges", "types"}
      BY DEF BuildRests
    <3> QED BY <3>1, Shorter4, Zenon
  <2>2. /\ Head(<<"predicates", "objects", "edges", "types">>) = "predicates"
        /\ Range(<<"predicates", "objects", "edges", "types">>) =
             {"predicates", "objects", "edges", "types"}
    BY DEF Range
  <2> QED BY <1>3, <2>1, <2>2
<1>4. CASE r = <<"objects", "edges", "types">>
  <2>1. Shortens(<<"objects", "edges", "types">>, BuildRests)
    <3>1. <<"edges", "types">> \in BuildRests /\ "objects" \notin {"edges", "types"}
      BY DEF BuildRests
    <3> QED BY <3>1, Shorter3, Zenon
  <2>2. /\ Head(<<"objects", "edges", "types">>) = "objects"
        /\ Range(<<"objects", "edges", "types">>) = {"objects", "edges", "types"}
    BY Tuple3
  <2> QED BY <1>4, <2>1, <2>2
<1>5. CASE r = <<"edges", "types">>
  <2>1. Shortens(<<"edges", "types">>, BuildRests)
    <3>1. <<"types">> \in BuildRests /\ "edges" \notin {"types"}
      BY DEF BuildRests
    <3> QED BY <3>1, Shorter2, Zenon
  <2>2. Head(<<"edges", "types">>) = "edges" /\ Range(<<"edges", "types">>) = {"edges", "types"}
    BY Tuple2
  <2> QED BY <1>5, <2>1, <2>2
<1>6. CASE r = <<"types">>
  <2>1. Shortens(<<"types">>, BuildRests)
    BY Tuple1, EmptyRange DEF Shortens, BuildRests
  <2>2. Head(<<"types">>) = "types" /\ Range(<<"types">>) = {"types"}
    BY Tuple1
  <2> QED BY <1>6, <2>1, <2>2
<1> QED BY <1>1, <1>2, <1>3, <1>4, <1>5, <1>6 DEF BuildRests

LEMMA ClearSections ==
  ASSUME NEW r \in ClearRests
  PROVE  Shortens(r, ClearRests)
<1>1. CASE r = <<"subjects", "predicates", "objects", "edges", "types", "count">>
  <2>1. Shortens(<<"subjects", "predicates", "objects", "edges", "types", "count">>, ClearRests)
    <3>1. /\ <<"predicates", "objects", "edges", "types", "count">> \in ClearRests
          /\ "subjects" \notin {"predicates", "objects", "edges", "types", "count"}
      BY DEF ClearRests
    <3> QED BY <3>1, Shorter6, Zenon
  <2> QED BY <1>1, <2>1
<1>2. CASE r = <<"predicates", "objects", "edges", "types", "count">>
  <2>1. Shortens(<<"predicates", "objects", "edges", "types", "count">>, ClearRests)
    <3>1. /\ <<"objects", "edges", "types", "count">> \in ClearRests
          /\ "predicates" \notin {"objects", "edges", "types", "count"}
      BY DEF ClearRests
    <3> QED BY <3>1, Shorter5, Zenon
  <2> QED BY <1>2, <2>1
<1>3. CASE r = <<"objects", "edges", "types", "count">>
  <2>1. Shortens(<<"objects", "edges", "types", "count">>, ClearRests)
    <3>1. /\ <<"edges", "types", "count">> \in ClearRests
          /\ "objects" \notin {"edges", "types", "count"}
      BY DEF ClearRests
    <3> QED BY <3>1, Shorter4, Zenon
  <2> QED BY <1>3, <2>1
<1>4. CASE r = <<"edges", "types", "count">>
  <2>1. Shortens(<<"edges", "types", "count">>, ClearRests)
    <3>1. <<"types", "count">> \in ClearRests /\ "edges" \notin {"types", "count"}
      BY DEF ClearRests
    <3> QED BY <3>1, Shorter3, Zenon
  <2> QED BY <1>4, <2>1
<1>5. CASE r = <<"types", "count">>
  <2>1. Shortens(<<"types", "count">>, ClearRests)
    <3>1. <<"count">> \in ClearRests /\ "types" \notin {"count"}
      BY DEF ClearRests
    <3> QED BY <3>1, Shorter2, Zenon
  <2> QED BY <1>5, <2>1
<1>6. CASE r = <<"count">>
  <2>1. Shortens(<<"count">>, ClearRests)
    BY Tuple1, EmptyRange DEF Shortens, ClearRests
  <2> QED BY <1>6, <2>1
<1> QED BY <1>1, <1>2, <1>3, <1>4, <1>5, <1>6 DEF ClearRests

LEMMA CallShapes ==
  ASSUME NEW c \in Calls
  PROVE  /\ c.op \in {"add_triple", "add_type", "build", "clear"}
         /\ c.op = "add_triple" => c.triple \in Triples
         /\ c.op = "add_type" => c.s \in Subjects(Triples) /\ c.type \in TypeIds
<1>1. CASE \E x \in Triples : c = [op |-> "add_triple", triple |-> x]
  BY <1>1
<1>2. CASE \E s \in Subjects(Triples), i \in TypeIds :
             c = [op |-> "add_type", s |-> s, type |-> i]
  BY <1>2
<1>3. CASE c = [op |-> "build"] \/ c = [op |-> "clear"]
  BY <1>3
<1> QED BY <1>1, <1>2, <1>3 DEF Calls

(* What a section does to the places of the threads. *)
LEMMA SectionDone ==
  ASSUME CollectorTypes, PlaceInv, NEW t \in Threads, NEW op, NEW name, Section(t, op, name)
  PROVE  /\ PlaceInv'
         /\ name \in Left(t)
         /\ \A u \in Threads :
              /\ Left(u)' = IF u = t THEN Left(u) \ {name} ELSE Left(u)
              /\ Running(u)' => Running(u) /\ call'[u] = call[u] /\ before'[u] = before[u]
              /\ u # t => Running(u)' = Running(u) /\ call'[u] = call[u]
                          /\ before'[u] = before[u]
         /\ Running(t)' <=> Left(t)' # {}
         /\ DOMAIN call' = Threads /\ DOMAIN todo' = Threads /\ DOMAIN before' = Threads
<1> DEFINE r == todo[t]
           rests == CASE op = "add_triple" -> AddRests [] op = "add_type" -> TypeRests
                      [] op = "build" -> BuildRests [] OTHER -> ClearRests
<1>1. /\ Running(t) /\ call[t].op = op /\ Head(r) = name
      /\ todo' = [todo EXCEPT ![t] = Tail(@)]
      /\ call' = IF Len(todo[t]) = 1 THEN [call EXCEPT ![t] = None] ELSE call
      /\ before' = IF Len(todo[t]) = 1 THEN [before EXCEPT ![t] = None0] ELSE before
  BY DEF Section
<1>2. /\ op \in {"add_triple", "add_type", "build", "clear"} /\ r \in rests
  <2>1. call[t] \in Calls
    BY <1>1 DEF CollectorTypes, Running
  <2>2. call[t].op \in {"add_triple", "add_type", "build", "clear"}
    BY <2>1, CallShapes
  <2> QED BY <1>1, <2>2 DEF PlaceInv
<1>3. Shortens(r, rests)
  BY <1>2, AddSections, TypeSections, BuildSectionsOrder, ClearSections
<1>4. DOMAIN call = Threads /\ DOMAIN todo = Threads /\ DOMAIN before = Threads
  BY DEF CollectorTypes
<1>5. todo'[t] = Tail(r) /\ \A u \in Threads \ {t} : todo'[u] = todo[u]
  BY <1>1, <1>4
<1>6. Left(t)' = Left(t) \ {name} /\ name \in Left(t) /\ (Running(t)' <=> Left(t)' # {})
  BY <1>1, <1>3, <1>5 DEF Left, Shortens, Running
<1>7. Running(t)' => call' = call /\ before' = before
  BY <1>1, <1>3, <1>5 DEF Shortens, Running
<1>8. \A u \in Threads \ {t} : /\ Left(u)' = Left(u) /\ Running(u)' = Running(u)
                               /\ call'[u] = call[u] /\ before'[u] = before[u]
  BY <1>1, <1>4, <1>5 DEF Left, Running
<1>9. Running(t)' => todo'[t] \in rests
  BY <1>3, <1>5 DEF Shortens, Running
<1>10. PlaceInv'
  <2> SUFFICES ASSUME NEW u \in Threads, Running(u)'
               PROVE  /\ call'[u].op = "add_triple" => todo'[u] \in AddRests
                      /\ call'[u].op = "add_type" => todo'[u] \in TypeRests
                      /\ call'[u].op = "build" => todo'[u] \in BuildRests
                      /\ call'[u].op = "clear" => todo'[u] \in ClearRests
    BY DEF PlaceInv
  <2>1. CASE u = t
    BY <1>1, <1>2, <1>7, <1>9, <2>1
  <2>2. CASE u # t
    BY <1>5, <1>8, <2>2 DEF PlaceInv
  <2> QED BY <2>1, <2>2
<1>11. DOMAIN call' = Threads /\ DOMAIN todo' = Threads /\ DOMAIN before' = Threads
  BY <1>1, <1>4
<1> QED BY <1>1, <1>6, <1>7, <1>8, <1>10, <1>11

LEMMA SectionOrder ==
  ASSUME PlaceInv, NEW t \in Threads, NEW op, NEW name, Section(t, op, name)
  PROVE  /\ op = "add_triple" /\ name = "edges" => Left(t) = {"edges", "count"}
         /\ op = "add_triple" /\ name = "count" => Left(t) = {"count"}
         /\ op = "add_triple" => "count" \in Left(t)
         /\ op = "build" /\ name # "count" => "count" \notin Left(t)
         /\ op = "build" /\ name = "count" =>
              {"subjects", "predicates", "objects", "edges"} \subseteq Left(t)
         /\ op = "build" /\ name = "types" => Left(t) = {"types"}
<1>1. Running(t) /\ call[t].op = op /\ Head(todo[t]) = name
  BY DEF Section
<1> QED BY <1>1, AddSections, BuildSectionsOrder DEF PlaceInv, Left

(* Unless a clear is torn, a section of another call is done in the calm.  *)
LEMMA CalmSection ==
  ASSUME CollectorTypes, PlaceInv, ClearInv, ~torn, NEW t \in Threads, NEW op, NEW name,
         op # "clear", Section(t, op, name)
  PROVE  Calm /\ Calm' /\ ClearInv'
<1>1. Running(t) /\ call[t].op = op /\ torn' = torn
  BY DEF Section
<1>2. \A u \in Threads : ~Clears(u)
  BY <1>1 DEF ClearInv, Clears
<1>3. \A u \in Threads : ~Clears(u)'
  BY <1>2, SectionDone DEF Clears
<1> QED BY <1>1, <1>2, <1>3 DEF Calm, ClearInv
-----------------------------------------------------------------------------
(* What the sections store *)

Fields(c, s, p, o, e, ty, n) ==
    c = [subjects |-> s, predicates |-> p, objects |-> o, edges |-> e, types |-> ty, count |-> n]

LEMMA Stored ==
  ASSUME NEW c, NEW s, NEW p, NEW o, NEW e, NEW ty, NEW n, NEW v, Fields(c, s, p, o, e, ty, n)
  PROVE  /\ DOMAIN c = {"subjects", "predicates", "objects", "edges", "types", "count"}
         /\ Fields([c EXCEPT !["subjects"] = v], v, p, o, e, ty, n)
         /\ Fields([c EXCEPT !["predicates"] = v], s, v, o, e, ty, n)
         /\ Fields([c EXCEPT !["objects"] = v], s, p, v, e, ty, n)
         /\ Fields([c EXCEPT !["edges"] = v], s, p, o, v, ty, n)
         /\ Fields([c EXCEPT !["types"] = v], s, p, o, e, v, n)
         /\ Fields([c EXCEPT !["count"] = v], s, p, o, e, ty, v)
<1>1. c = [subjects |-> s, predicates |-> p, objects |-> o, edges |-> e, types |-> ty, count |-> n]
  BY DEF Fields
<1>2. Fields([c EXCEPT !["subjects"] = v], v, p, o, e, ty, n)
  <2>1. [c EXCEPT !["subjects"] = v] = [c EXCEPT !.subjects = v]
    OBVIOUS
  <2>2. Fields([c EXCEPT !.subjects = v], v, p, o, e, ty, n)
    BY <1>1 DEF Fields
  <2> QED BY <2>1, <2>2
<1>3. Fields([c EXCEPT !["predicates"] = v], s, v, o, e, ty, n)
  <2>1. [c EXCEPT !["predicates"] = v] = [c EXCEPT !.predicates = v]
    OBVIOUS
  <2>2. Fields([c EXCEPT !.predicates = v], s, v, o, e, ty, n)
    BY <1>1 DEF Fields
  <2> QED BY <2>1, <2>2
<1>4. Fields([c EXCEPT !["objects"] = v], s, p, v, e, ty, n)
  <2>1. [c EXCEPT !["objects"] = v] = [c EXCEPT !.objects = v]
    OBVIOUS
  <2>2. Fields([c EXCEPT !.objects = v], s, p, v, e, ty, n)
    BY <1>1 DEF Fields
  <2> QED BY <2>1, <2>2
<1>5. Fields([c EXCEPT !["edges"] = v], s, p, o, v, ty, n)
  <2>1. [c EXCEPT !["edges"] = v] = [c EXCEPT !.edges = v]
    OBVIOUS
  <2>2. Fields([c EXCEPT !.edges = v], s, p, o, v, ty, n)
    BY <1>1 DEF Fields
  <2> QED BY <2>1, <2>2
<1>6. Fields([c EXCEPT !["types"] = v], s, p, o, e, v, n)
  <2>1. [c EXCEPT !["types"] = v] = [c EXCEPT !.types = v]
    OBVIOUS
  <2>2. Fields([c EXCEPT !.types = v], s, p, o, e, v, n)
    BY <1>1 DEF Fields
  <2> QED BY <2>1, <2>2
<1>7. Fields([c EXCEPT !["count"] = v], s, p, o, e, ty, v)
  <2>1. [c EXCEPT !["count"] = v] = [c EXCEPT !.count = v]
    OBVIOUS
  <2>2. Fields([c EXCEPT !.count = v], s, p, o, e, ty, v)
    BY <1>1 DEF Fields
  <2> QED BY <2>1, <2>2
<1> QED BY <1>1, <1>2, <1>3, <1>4, <1>5, <1>6, <1>7

LEMMA FieldsRead ==
  ASSUME NEW c, NEW s, NEW p, NEW o, NEW e, NEW ty, NEW n, Fields(c, s, p, o, e, ty, n)
  PROVE  /\ c.subjects = s /\ c.predicates = p /\ c.objects = o /\ c.edges = e
         /\ c.types = ty /\ c.count = n
         /\ s \subseteq Subjects(Triples) /\ p \subseteq Predicates(Triples)
            /\ o \subseteq Objects(Triples) /\ e \in Bags
            /\ ty \subseteq (TypeIds \X Subjects(Triples)) /\ n \in Nat
            <=> c \in [subjects : SUBSET Subjects(Triples),
                       predicates : SUBSET Predicates(Triples),
                       objects : SUBSET Objects(Triples), edges : Bags,
                       types : SUBSET (TypeIds \X Subjects(Triples)), count : Nat]
BY DEF Fields

(* The fields of the collector. *)
LEMMA CollectorFields ==
  ASSUME CollectorTypes
  PROVE  /\ Fields(collector, collector.subjects, collector.predicates, collector.objects,
                   collector.edges, collector.types, collector.count)
         /\ collector.subjects \subseteq Subjects(Triples)
         /\ collector.predicates \subseteq Predicates(Triples)
         /\ collector.objects \subseteq Objects(Triples) /\ collector.edges \in Bags
         /\ collector.types \subseteq (TypeIds \X Subjects(Triples)) /\ collector.count \in Nat
BY DEF CollectorTypes, Fields

(* A section of add_triple puts one node, an edge or a number.             *)
Puts(name, x, c, d) ==
    \/ /\ name = "subjects"
       /\ Fields(d, c.subjects \cup {x.s}, c.predicates, c.objects, c.edges, c.types, c.count)
    \/ /\ name = "predicates"
       /\ Fields(d, c.subjects, c.predicates \cup {x.p}, c.objects, c.edges, c.types, c.count)
    \/ /\ name = "objects"
       /\ Fields(d, c.subjects, c.predicates, c.objects \cup {x.o}, c.edges, c.types, c.count)
    \/ /\ name = "edges"
       /\ Fields(d, c.subjects, c.predicates, c.objects, [c.edges EXCEPT ![x] = @ + 1],
                 c.types, c.count)
    \/ /\ name = "count"
       /\ Fields(d, c.subjects, c.predicates, c.objects, c.edges, c.types, c.count + 1)

LEMMA AddTripleDoes ==
  ASSUME CollectorTypes, NEW t \in Threads, AddTriple(t)
  PROVE  \E name :
           /\ Section(t, "add_triple", name)
           /\ Puts(name, call[t].triple, collector, collector')
           /\ ended' = IF name = "count" THEN [ended EXCEPT ![call[t].triple] = @ + 1] ELSE ended
           /\ UNCHANGED <<building, stats, window, begun, torn, calls>>
           /\ call[t].triple \in Triples
<1> DEFINE x == call[t].triple
           c == collector
<1>1. ASSUME NEW name, NEW v, Fill(t, name, v)
      PROVE  /\ Section(t, "add_triple", name)
             /\ collector' = [c EXCEPT ![name] = v]
             /\ ended' = IF name = "count" THEN [ended EXCEPT ![x] = @ + 1] ELSE ended
             /\ UNCHANGED <<building, stats, window, begun, torn, calls>>
             /\ x \in Triples
  <2>1. /\ Section(t, "add_triple", name) /\ collector' = [c EXCEPT ![name] = v]
        /\ ended' = IF name = "count" THEN [ended EXCEPT ![x] = @ + 1] ELSE ended
        /\ UNCHANGED <<building, stats, window>>
    BY <1>1 DEF Fill
  <2>2. UNCHANGED <<begun, torn, calls>> /\ call[t] \in Calls /\ call[t].op = "add_triple"
    BY <2>1 DEF Section, Running, CollectorTypes
  <2> QED BY <2>1, <2>2, CallShapes
<1>2. Fields(c, c.subjects, c.predicates, c.objects, c.edges, c.types, c.count)
  BY CollectorFields
<1> HIDE DEF c
<1>3. CASE Fill(t, "subjects", c.subjects \cup {x.s})
  <2>1. Fields([c EXCEPT !["subjects"] = c.subjects \cup {x.s}], c.subjects \cup {x.s},
               c.predicates, c.objects, c.edges, c.types, c.count)
    BY <1>2, Stored
  <2>2. Puts("subjects", x, c, collector')
    BY <1>1, <1>3, <2>1 DEF Puts
  <2> QED BY <1>1, <1>3, <2>2 DEF c
<1>4. CASE Fill(t, "predicates", c.predicates \cup {x.p})
  <2>1. Fields([c EXCEPT !["predicates"] = c.predicates \cup {x.p}], c.subjects,
               c.predicates \cup {x.p}, c.objects, c.edges, c.types, c.count)
    BY <1>2, Stored
  <2>2. Puts("predicates", x, c, collector')
    BY <1>1, <1>4, <2>1 DEF Puts
  <2> QED BY <1>1, <1>4, <2>2 DEF c
<1>5. CASE Fill(t, "objects", c.objects \cup {x.o})
  <2>1. Fields([c EXCEPT !["objects"] = c.objects \cup {x.o}], c.subjects,
               c.predicates, c.objects \cup {x.o}, c.edges, c.types, c.count)
    BY <1>2, Stored
  <2>2. Puts("objects", x, c, collector')
    BY <1>1, <1>5, <2>1 DEF Puts
  <2> QED BY <1>1, <1>5, <2>2 DEF c
<1>6. CASE Fill(t, "edges", [c.edges EXCEPT ![x] = @ + 1])
  <2>1. Fields([c EXCEPT !["edges"] = [c.edges EXCEPT ![x] = @ + 1]], c.subjects,
               c.predicates, c.objects, [c.edges EXCEPT ![x] = @ + 1], c.types, c.count)
    BY <1>2, Stored
  <2>2. Puts("edges", x, c, collector')
    BY <1>1, <1>6, <2>1 DEF Puts
  <2> QED BY <1>1, <1>6, <2>2 DEF c
<1>7. CASE Fill(t, "count", c.count + 1)
  <2>1. Fields([c EXCEPT !["count"] = c.count + 1], c.subjects,
               c.predicates, c.objects, c.edges, c.types, c.count + 1)
    BY <1>2, Stored
  <2>2. Puts("count", x, c, collector')
    BY <1>1, <1>7, <2>1 DEF Puts
  <2> QED BY <1>1, <1>7, <2>2 DEF c
<1> QED BY <1>3, <1>4, <1>5, <1>6, <1>7 DEF AddTriple, c
LEMMA AddTypeDoes ==
  ASSUME CollectorTypes, NEW t \in Threads, AddType(t)
  PROVE  /\ Section(t, "add_type", "types")
         /\ \E ty \in SUBSET (TypeIds \X Subjects(Triples)) :
              Fields(collector', collector.subjects, collector.predicates, collector.objects,
                     collector.edges, ty, collector.count)
         /\ UNCHANGED <<building, stats, window, begun, ended, torn, calls>>
<1> DEFINE c == collector
           ty == c.types \cup {<<call[t].type, call[t].s>>}
<1>1. /\ Section(t, "add_type", "types") /\ collector' = [c EXCEPT !.types = ty]
      /\ UNCHANGED <<building, stats, window, begun, ended, torn, calls>>
  BY DEF AddType, Section
<1>2. call[t].s \in Subjects(Triples) /\ call[t].type \in TypeIds
  <2>1. call[t] \in Calls /\ call[t].op = "add_type"
    BY <1>1 DEF Section, Running, CollectorTypes
  <2> QED BY <2>1, CallShapes
<1>3. ty \in SUBSET (TypeIds \X Subjects(Triples))
  BY <1>2, CollectorFields
<1>4. Fields(c, c.subjects, c.predicates, c.objects, c.edges, c.types, c.count)
  BY CollectorFields
<1> HIDE DEF ty, c
<1>5. Fields(collector', c.subjects, c.predicates, c.objects, c.edges, ty, c.count)
  <2>1. c = [subjects |-> c.subjects, predicates |-> c.predicates, objects |-> c.objects,
             edges |-> c.edges, types |-> c.types, count |-> c.count]
    BY <1>4 DEF Fields
  <2>2. Fields([c EXCEPT !.types = ty], c.subjects, c.predicates, c.objects, c.edges, ty, c.count)
    BY <2>1 DEF Fields
  <2> QED BY <1>1, <2>2
<1> QED BY <1>1, <1>3, <1>5 DEF c

Empties(name, c, d) ==
    \/ /\ name = "subjects"
       /\ Fields(d, {}, c.predicates, c.objects, c.edges, c.types, c.count)
    \/ /\ name = "predicates"
       /\ Fields(d, c.subjects, {}, c.objects, c.edges, c.types, c.count)
    \/ /\ name = "objects"
       /\ Fields(d, c.subjects, c.predicates, {}, c.edges, c.types, c.count)
    \/ /\ name = "edges"
       /\ Fields(d, c.subjects, c.predicates, c.objects, None0, c.types, c.count)
    \/ /\ name = "types"
       /\ Fields(d, c.subjects, c.predicates, c.objects, c.edges, {}, c.count)
    \/ /\ name = "count"
       /\ Fields(d, c.subjects, c.predicates, c.objects, c.edges, c.types, 0)

LEMMA ClearDoes ==
  ASSUME CollectorTypes, NEW t \in Threads, Clear(t)
  PROVE  \E name :
           /\ Section(t, "clear", name) /\ Empties(name, collector, collector')
           /\ UNCHANGED <<building, stats, window, begun, ended, torn, calls>>
<1> DEFINE c == collector
<1>1. PICK name \in DOMAIN c :
         /\ Section(t, "clear", name)
         /\ collector' = [c EXCEPT ![name] = EmptyCollector[name]]
         /\ UNCHANGED <<building, stats, window, begun, ended, torn, calls>>
  BY DEF Clear, Section
<1>2. Fields(c, c.subjects, c.predicates, c.objects, c.edges, c.types, c.count)
  BY CollectorFields
<1> HIDE DEF c
<1>3. name \in {"subjects", "predicates", "objects", "edges", "types", "count"}
  BY <1>2, Stored
<1>4. /\ EmptyCollector["subjects"] = {} /\ EmptyCollector["predicates"] = {}
      /\ EmptyCollector["objects"] = {} /\ EmptyCollector["edges"] = None0
      /\ EmptyCollector["types"] = {} /\ EmptyCollector["count"] = 0
  BY DEF EmptyCollector
<1>5. Empties(name, c, collector')
  <2>1. CASE name = "subjects"
    <3>1. collector' = [c EXCEPT !["subjects"] = {}]
      BY <1>1, <1>4, <2>1
    <3>2. Fields(collector', {}, c.predicates, c.objects, c.edges, c.types, c.count)
      BY <1>2, <3>1, Stored
    <3> QED BY <2>1, <3>2 DEF Empties
  <2>2. CASE name = "predicates"
    <3>1. collector' = [c EXCEPT !["predicates"] = {}]
      BY <1>1, <1>4, <2>2
    <3>2. Fields(collector', c.subjects, {}, c.objects, c.edges, c.types, c.count)
      BY <1>2, <3>1, Stored
    <3> QED BY <2>2, <3>2 DEF Empties
  <2>3. CASE name = "objects"
    <3>1. collector' = [c EXCEPT !["objects"] = {}]
      BY <1>1, <1>4, <2>3
    <3>2. Fields(collector', c.subjects, c.predicates, {}, c.edges, c.types, c.count)
      BY <1>2, <3>1, Stored
    <3> QED BY <2>3, <3>2 DEF Empties
  <2>4. CASE name = "edges"
    <3>1. collector' = [c EXCEPT !["edges"] = None0]
      BY <1>1, <1>4, <2>4
    <3>2. Fields(collector', c.subjects, c.predicates, c.objects, None0, c.types, c.count)
      BY <1>2, <3>1, Stored
    <3> QED BY <2>4, <3>2 DEF Empties
  <2>5. CASE name = "types"
    <3>1. collector' = [c EXCEPT !["types"] = {}]
      BY <1>1, <1>4, <2>5
    <3>2. Fields(collector', c.subjects, c.predicates, c.objects, c.edges, {}, c.count)
      BY <1>2, <3>1, Stored
    <3> QED BY <2>5, <3>2 DEF Empties
  <2>6. CASE name = "count"
    <3>1. collector' = [c EXCEPT !["count"] = 0]
      BY <1>1, <1>4, <2>6
    <3>2. Fields(collector', c.subjects, c.predicates, c.objects, c.edges, c.types, 0)
      BY <1>2, <3>1, Stored
    <3> QED BY <2>6, <3>2 DEF Empties
  <2> QED BY <1>3, <2>1, <2>2, <2>3, <2>4, <2>5, <2>6
<1> QED BY <1>1, <1>5 DEF c

(* What a build has is d, with these numbers and frequencies.              *)
Parts(d, n, s, p, o, f) ==
    /\ Like(d) /\ d.triple_count = n /\ d.distinct_subjects = s
    /\ d.distinct_predicates = p /\ d.distinct_objects = o /\ d.predicate_frequency = f

LEMMA PartsRead ==
  ASSUME NEW b, Like(b), NEW v, NEW w
  PROVE  /\ Parts([b EXCEPT !.triple_count = v], v, b.distinct_subjects,
                  b.distinct_predicates, b.distinct_objects, b.predicate_frequency)
         /\ Parts([b EXCEPT !.distinct_subjects = v], b.triple_count, v,
                  b.distinct_predicates, b.distinct_objects, b.predicate_frequency)
         /\ Parts([b EXCEPT !.distinct_predicates = v], b.triple_count, b.distinct_subjects,
                  v, b.distinct_objects, b.predicate_frequency)
         /\ Parts([b EXCEPT !.distinct_objects = v], b.triple_count, b.distinct_subjects,
                  b.distinct_predicates, v, b.predicate_frequency)
         /\ Parts([b EXCEPT !.predicate_frequency = v, !.predicate_histograms = w],
                  b.triple_count, b.distinct_subjects, b.distinct_predicates,
                  b.distinct_objects, v)
         /\ Parts([b EXCEPT !.type_distribution = v], b.triple_count, b.distinct_subjects,
                  b.distinct_predicates, b.distinct_objects, b.predicate_frequency)
<1>1. PICK n, s, p, o, f, h, ty :
         b = [triple_count |-> n, distinct_subjects |-> s, distinct_predicates |-> p,
              distinct_objects |-> o, predicate_frequency |-> f,
              predicate_histograms |-> h, type_distribution |-> ty]
  BY DEF Like
<1>2. Parts([b EXCEPT !.triple_count = v], v, b.distinct_subjects,
            b.distinct_predicates, b.distinct_objects, b.predicate_frequency)
  BY <1>1 DEF Parts, Like
<1>3. Parts([b EXCEPT !.distinct_subjects = v], b.triple_count, v,
            b.distinct_predicates, b.distinct_objects, b.predicate_frequency)
  BY <1>1 DEF Parts, Like
<1>4. Parts([b EXCEPT !.distinct_predicates = v], b.triple_count, b.distinct_subjects,
            v, b.distinct_objects, b.predicate_frequency)
  BY <1>1 DEF Parts, Like
<1>5. Parts([b EXCEPT !.distinct_objects = v], b.triple_count, b.distinct_subjects,
            b.distinct_predicates, v, b.predicate_frequency)
  BY <1>1 DEF Parts, Like
<1>6. Parts([b EXCEPT !.predicate_frequency = v, !.predicate_histograms = w],
            b.triple_count, b.distinct_subjects, b.distinct_predicates,
            b.distinct_objects, v)
  <2> DEFINE d == [b EXCEPT !.predicate_frequency = v]
  <2>1. d = [triple_count |-> n, distinct_subjects |-> s, distinct_predicates |-> p,
             distinct_objects |-> o, predicate_frequency |-> v,
             predicate_histograms |-> h, type_distribution |-> ty]
    BY <1>1
  <2>2. [b EXCEPT !.predicate_frequency = v, !.predicate_histograms = w]
          = [d EXCEPT !.predicate_histograms = w]
    OBVIOUS
  <2> HIDE DEF d
  <2>3. Parts([d EXCEPT !.predicate_histograms = w], n, s, p, o, v)
    BY <2>1 DEF Parts, Like
  <2>4. b.triple_count = n /\ b.distinct_subjects = s /\ b.distinct_predicates = p
        /\ b.distinct_objects = o
    BY <1>1
  <2> QED BY <2>2, <2>3, <2>4
<1>7. Parts([b EXCEPT !.type_distribution = v], b.triple_count, b.distinct_subjects,
            b.distinct_predicates, b.distinct_objects, b.predicate_frequency)
  BY <1>1 DEF Parts, Like
<1> QED BY <1>2, <1>3, <1>4, <1>5, <1>6, <1>7

LEMMA NothingReadYet ==
  Parts(EmptyStatistics, 0, 0, 0, 0, << >>)
BY DEF Parts, Like, EmptyStatistics

Reads(name, c, b, d) ==
    \/ /\ name = "count"
       /\ Parts(d, c.count, b.distinct_subjects, b.distinct_predicates, b.distinct_objects,
                b.predicate_frequency)
    \/ /\ name = "subjects"
       /\ Parts(d, b.triple_count, Cardinality(c.subjects), b.distinct_predicates,
                b.distinct_objects, b.predicate_frequency)
    \/ /\ name = "predicates"
       /\ Parts(d, b.triple_count, b.distinct_subjects, Cardinality(c.predicates),
                b.distinct_objects, b.predicate_frequency)
    \/ /\ name = "objects"
       /\ Parts(d, b.triple_count, b.distinct_subjects, b.distinct_predicates,
                Cardinality(c.objects), b.predicate_frequency)
    \/ /\ name = "edges"
       /\ Parts(d, b.triple_count, b.distinct_subjects, b.distinct_predicates,
                b.distinct_objects, Frequencies(c.edges))

LEMMA BuildDoes ==
  ASSUME CollectorTypes, NEW t \in Threads, Build(t)
  PROVE  /\ UNCHANGED <<collector, ended, begun, torn, calls>>
         /\ DOMAIN building' = Threads
         /\ \A u \in Threads \ {t} : building'[u] = building[u]
         /\ \/ \E name : /\ Section(t, "build", name)
                         /\ Reads(name, collector, building[t], building'[t])
                         /\ UNCHANGED <<stats, window>>
            \/ /\ Section(t, "build", "types") /\ building'[t] = EmptyStatistics
               /\ LET b == building[t] IN
                  Parts(stats', b.triple_count, b.distinct_subjects, b.distinct_predicates,
                        b.distinct_objects, b.predicate_frequency)
               /\ window' = [low |-> before[t], high |-> begun, sound |-> ~torn]
<1> DEFINE b == building[t]
           c == collector
<1>0. DOMAIN building = Threads /\ Like(b)
  BY DEF CollectorTypes
<1>1. ASSUME NEW name, NEW next, Read(t, name, next)
      PROVE  /\ Section(t, "build", name) /\ building'[t] = next
             /\ UNCHANGED <<collector, ended, begun, torn, calls>>
             /\ DOMAIN building' = Threads
             /\ \A u \in Threads \ {t} : building'[u] = building[u]
  <2>1. /\ Section(t, "build", name) /\ building' = [building EXCEPT ![t] = next]
        /\ UNCHANGED <<collector, ended>>
    BY <1>1 DEF Read
  <2>2. UNCHANGED <<begun, torn, calls>>
    BY <2>1 DEF Section
  <2> QED BY <1>0, <2>1, <2>2
<1> HIDE DEF b, c
<1>2. CASE Read(t, "count", [b EXCEPT !.triple_count = c.count]) /\ UNCHANGED <<stats, window>>
  <2>1. Parts([b EXCEPT !.triple_count = c.count], c.count, b.distinct_subjects,
              b.distinct_predicates, b.distinct_objects, b.predicate_frequency)
    BY <1>0, PartsRead, Zenon
  <2>2. Reads("count", c, b, building'[t])
    BY <1>1, <1>2, <2>1 DEF Reads
  <2> QED BY <1>1, <1>2, <2>2 DEF b, c
<1>3. CASE /\ Read(t, "subjects", [b EXCEPT !.distinct_subjects = Cardinality(c.subjects)])
           /\ UNCHANGED <<stats, window>>
  <2>1. Parts([b EXCEPT !.distinct_subjects = Cardinality(c.subjects)],
              b.triple_count, Cardinality(c.subjects),
              b.distinct_predicates, b.distinct_objects, b.predicate_frequency)
    BY <1>0, PartsRead, Zenon
  <2>2. Reads("subjects", c, b, building'[t])
    BY <1>1, <1>3, <2>1 DEF Reads
  <2> QED BY <1>1, <1>3, <2>2 DEF b, c
<1>4. CASE /\ Read(t, "predicates", [b EXCEPT !.distinct_predicates = Cardinality(c.predicates)])
           /\ UNCHANGED <<stats, window>>
  <2>1. Parts([b EXCEPT !.distinct_predicates = Cardinality(c.predicates)],
              b.triple_count, b.distinct_subjects,
              Cardinality(c.predicates), b.distinct_objects, b.predicate_frequency)
    BY <1>0, PartsRead, Zenon
  <2>2. Reads("predicates", c, b, building'[t])
    BY <1>1, <1>4, <2>1 DEF Reads
  <2> QED BY <1>1, <1>4, <2>2 DEF b, c
<1>5. CASE /\ Read(t, "objects", [b EXCEPT !.distinct_objects = Cardinality(c.objects)])
           /\ UNCHANGED <<stats, window>>
  <2>1. Parts([b EXCEPT !.distinct_objects = Cardinality(c.objects)],
              b.triple_count, b.distinct_subjects,
              b.distinct_predicates, Cardinality(c.objects), b.predicate_frequency)
    BY <1>0, PartsRead, Zenon
  <2>2. Reads("objects", c, b, building'[t])
    BY <1>1, <1>5, <2>1 DEF Reads
  <2> QED BY <1>1, <1>5, <2>2 DEF b, c
<1>6. CASE /\ Read(t, "edges", [b EXCEPT !.predicate_frequency = Frequencies(c.edges),
                                         !.predicate_histograms = Histograms(c.edges)])
           /\ UNCHANGED <<stats, window>>
  <2>1. Parts([b EXCEPT !.predicate_frequency = Frequencies(c.edges),
                        !.predicate_histograms = Histograms(c.edges)],
              b.triple_count, b.distinct_subjects, b.distinct_predicates, b.distinct_objects,
              Frequencies(c.edges))
    BY <1>0, PartsRead, Zenon
  <2>2. Reads("edges", c, b, building'[t])
    BY <1>1, <1>6, <2>1 DEF Reads
  <2> QED BY <1>1, <1>6, <2>2 DEF b, c
<1>7. CASE /\ Read(t, "types", EmptyStatistics)
           /\ stats' = [b EXCEPT !.type_distribution = TypeCounts(c.types)]
           /\ window' = [low |-> before[t], high |-> begun, sound |-> ~torn]
  <2>1. Parts(stats', b.triple_count, b.distinct_subjects, b.distinct_predicates,
              b.distinct_objects, b.predicate_frequency)
    BY <1>0, <1>7, PartsRead
  <2> QED BY <1>1, <1>7, <2>1 DEF b
<1> QED BY <1>2, <1>3, <1>4, <1>5, <1>6, <1>7 DEF Build, b, c

(* A call begins before its first section. *)
LEMMA BeginDoes ==
  ASSUME CollectorTypes, PlaceInv, NEW t \in Threads, NEW c \in Calls, Begin(t, c)
  PROVE  /\ PlaceInv' /\ ~Running(t) /\ Running(t)' /\ call'[t] = c
         /\ {"subjects", "predicates", "objects", "edges", "count"} \subseteq Left(t)'
            \/ c.op = "add_type"
         /\ \A u \in Threads \ {t} :
              /\ Left(u)' = Left(u) /\ Running(u)' = Running(u) /\ call'[u] = call[u]
              /\ before'[u] = before[u] /\ building'[u] = building[u]
         /\ building'[t] = EmptyStatistics
         /\ before'[t] = IF c.op = "build" THEN ended ELSE None0
         /\ DOMAIN call' = Threads /\ DOMAIN todo' = Threads
         /\ DOMAIN building' = Threads /\ DOMAIN before' = Threads
         /\ UNCHANGED <<collector, stats, window>>
<1> DEFINE r == Sections(c)
<1>1. /\ ~Running(t) /\ call' = [call EXCEPT ![t] = c] /\ todo' = [todo EXCEPT ![t] = r]
      /\ building' = [building EXCEPT ![t] = EmptyStatistics]
      /\ before' = [before EXCEPT ![t] = IF c.op = "build" THEN ended ELSE None0]
      /\ UNCHANGED <<collector, stats, window>>
  BY DEF Begin
<1>2. /\ DOMAIN call = Threads /\ DOMAIN todo = Threads
      /\ DOMAIN building = Threads /\ DOMAIN before = Threads
  BY DEF CollectorTypes
<1>3. /\ c.op = "add_triple" => r \in AddRests
      /\ c.op = "add_type" => r \in TypeRests
      /\ c.op = "build" => r \in BuildRests
      /\ c.op = "clear" => r \in ClearRests
  BY DEF Sections, AddRests, TypeRests, BuildRests, ClearRests, BuildSections
<1>4. c.op \in {"add_triple", "add_type", "build", "clear"}
  BY CallShapes
<1>5. r # << >> /\ ({"subjects", "predicates", "objects", "edges", "count"} \subseteq Range(r)
                   \/ c.op = "add_type")
  <2>1. CASE c.op = "add_triple"
    <3>1. r = <<"subjects", "predicates", "objects", "edges", "count">>
      BY <2>1 DEF Sections
    <3>2. Range(<<"subjects", "predicates", "objects", "edges", "count">>)
            = {"subjects", "predicates", "objects", "edges", "count"}
      BY DEF Range
    <3>3. <<"subjects", "predicates", "objects", "edges", "count">> # << >>
      OBVIOUS
    <3> QED BY <3>1, <3>2, <3>3
  <2>2. CASE c.op = "add_type"
    <3>1. r = <<"types">>
      BY <2>2 DEF Sections
    <3> QED BY <2>2, <3>1, Tuple1
  <2>3. CASE c.op = "build"
    <3>1. r = <<"count", "subjects", "predicates", "objects", "edges", "types">>
      BY <2>3 DEF Sections, BuildSections
    <3>2. Range(<<"count", "subjects", "predicates", "objects", "edges", "types">>)
            = {"count", "subjects", "predicates", "objects", "edges", "types"}
      BY DEF Range
    <3>3. <<"count", "subjects", "predicates", "objects", "edges", "types">> # << >>
      OBVIOUS
    <3> QED BY <3>1, <3>2, <3>3
  <2>4. CASE c.op = "clear"
    <3>1. r = <<"subjects", "predicates", "objects", "edges", "types", "count">>
      BY <2>4 DEF Sections
    <3>2. Range(<<"subjects", "predicates", "objects", "edges", "types", "count">>)
            = {"subjects", "predicates", "objects", "edges", "types", "count"}
      BY DEF Range
    <3>3. <<"subjects", "predicates", "objects", "edges", "types", "count">> # << >>
      OBVIOUS
    <3> QED BY <3>1, <3>2, <3>3
  <2> QED BY <1>4, <2>1, <2>2, <2>3, <2>4
<1> HIDE DEF r
<1>6. /\ call'[t] = c /\ todo'[t] = r /\ building'[t] = EmptyStatistics
      /\ before'[t] = IF c.op = "build" THEN ended ELSE None0
  BY <1>1, <1>2
<1>7. \A u \in Threads \ {t} :
         /\ Left(u)' = Left(u) /\ Running(u)' = Running(u) /\ call'[u] = call[u]
         /\ before'[u] = before[u] /\ building'[u] = building[u] /\ todo'[u] = todo[u]
  BY <1>1, <1>2 DEF Left, Running
<1>8. Running(t)' /\ Left(t)' = Range(r)
  BY <1>5, <1>6 DEF Left, Running
<1>9. PlaceInv'
  <2> SUFFICES ASSUME NEW u \in Threads, Running(u)'
               PROVE  /\ call'[u].op = "add_triple" => todo'[u] \in AddRests
                      /\ call'[u].op = "add_type" => todo'[u] \in TypeRests
                      /\ call'[u].op = "build" => todo'[u] \in BuildRests
                      /\ call'[u].op = "clear" => todo'[u] \in ClearRests
    BY DEF PlaceInv
  <2>1. CASE u = t
    BY <1>3, <1>6, <2>1
  <2>2. CASE u # t
    BY <1>7, <2>2 DEF PlaceInv
  <2> QED BY <2>1, <2>2
<1>10. /\ DOMAIN call' = Threads /\ DOMAIN todo' = Threads
       /\ DOMAIN building' = Threads /\ DOMAIN before' = Threads
  BY <1>1, <1>2
<1>11. {"subjects", "predicates", "objects", "edges", "count"} \subseteq Left(t)'
         \/ c.op = "add_type"
  BY <1>5, <1>8
<1> QED BY <1>1, <1>6, <1>7, <1>8, <1>9, <1>10, <1>11
LEMMA OneMoreOf ==
  ASSUME NEW f \in Bags, NEW x \in Triples
  PROVE  /\ [f EXCEPT ![x] = @ + 1] \in Bags
         /\ [f EXCEPT ![x] = @ + 1][x] = f[x] + 1
         /\ \A y \in Triples \ {x} : [f EXCEPT ![x] = @ + 1][y] = f[y]
BY DEF Bags

LEMMA SectionTypes ==
  ASSUME CollectorTypes, PlaceInv, NEW t \in Threads, NEW op, NEW name, Section(t, op, name),
         collector' \in [subjects : SUBSET Subjects(Triples),
                         predicates : SUBSET Predicates(Triples),
                         objects : SUBSET Objects(Triples), edges : Bags,
                         types : SUBSET (TypeIds \X Subjects(Triples)), count : Nat],
         DOMAIN building' = Threads, \A u \in Threads : Like(building'[u]),
         ended' \in Bags
  PROVE  CollectorTypes' /\ PlaceInv'
<1>1. UNCHANGED <<begun, torn>>
  BY DEF Section
<1>2. \A u \in Threads : todo'[u] # << >> => call'[u] \in Calls
  BY SectionDone DEF CollectorTypes, Running
<1> QED BY <1>1, <1>2, SectionDone DEF CollectorTypes

LEMMA StepTypes ==
  ASSUME CollectorTypes, PlaceInv, NEW t \in Threads, CollectorStep(t)
  PROVE  CollectorTypes' /\ PlaceInv'
<1>1. /\ ended \in Bags /\ DOMAIN building = Threads /\ \A u \in Threads : Like(building[u])
      /\ collector \in [subjects : SUBSET Subjects(Triples),
                        predicates : SUBSET Predicates(Triples),
                        objects : SUBSET Objects(Triples), edges : Bags,
                        types : SUBSET (TypeIds \X Subjects(Triples)), count : Nat]
  BY DEF CollectorTypes
<1> DEFINE c == collector
<1>2. /\ c.subjects \subseteq Subjects(Triples) /\ c.predicates \subseteq Predicates(Triples)
      /\ c.objects \subseteq Objects(Triples) /\ c.edges \in Bags
      /\ c.types \subseteq (TypeIds \X Subjects(Triples)) /\ c.count \in Nat
  BY CollectorFields
<1> HIDE DEF c
<1>3. CASE AddTriple(t)
  <2> DEFINE x == call[t].triple
  <2>1. PICK name : /\ Section(t, "add_triple", name) /\ Puts(name, x, c, collector')
                    /\ ended' = IF name = "count" THEN [ended EXCEPT ![x] = @ + 1] ELSE ended
                    /\ UNCHANGED building /\ x \in Triples
    BY <1>3, AddTripleDoes DEF c
  <2>2. x.s \in Subjects(Triples) /\ x.p \in Predicates(Triples) /\ x.o \in Objects(Triples)
    BY <2>1 DEF Subjects, Predicates, Objects
  <2> HIDE DEF x
  <2>3. \E s, p, o, e, ty, n : /\ Fields(collector', s, p, o, e, ty, n)
          /\ s \subseteq Subjects(Triples) /\ p \subseteq Predicates(Triples)
          /\ o \subseteq Objects(Triples) /\ e \in Bags
          /\ ty \subseteq (TypeIds \X Subjects(Triples)) /\ n \in Nat
    <3>1. /\ c.subjects \cup {x.s} \subseteq Subjects(Triples)
          /\ c.predicates \cup {x.p} \subseteq Predicates(Triples)
          /\ c.objects \cup {x.o} \subseteq Objects(Triples)
          /\ c.count + 1 \in Nat /\ [c.edges EXCEPT ![x] = @ + 1] \in Bags
      BY <1>2, <2>1, <2>2, OneMoreOf
    <3>2. Puts(name, x, c, collector')
      BY <2>1
    <3>3. CASE name = "subjects"
      BY <1>2, <3>1, <3>2, <3>3 DEF Puts
    <3>4. CASE name = "predicates"
      BY <1>2, <3>1, <3>2, <3>4 DEF Puts
    <3>5. CASE name = "objects"
      BY <1>2, <3>1, <3>2, <3>5 DEF Puts
    <3>6. CASE name = "edges"
      BY <1>2, <3>1, <3>2, <3>6 DEF Puts
    <3>7. CASE name = "count"
      BY <1>2, <3>1, <3>2, <3>7 DEF Puts
    <3> QED BY <3>2, <3>3, <3>4, <3>5, <3>6, <3>7 DEF Puts
  <2>4. ended' \in Bags
    BY <1>1, <2>1, OneMoreOf
  <2>5. collector' \in [subjects : SUBSET Subjects(Triples),
                        predicates : SUBSET Predicates(Triples),
                        objects : SUBSET Objects(Triples), edges : Bags,
                        types : SUBSET (TypeIds \X Subjects(Triples)), count : Nat]
    BY <2>3, FieldsRead
  <2> QED BY <1>1, <2>1, <2>4, <2>5, SectionTypes
<1>4. CASE AddType(t)
  <2>1. PICK ty \in SUBSET (TypeIds \X Subjects(Triples)) :
          Fields(collector', c.subjects, c.predicates, c.objects, c.edges, ty, c.count)
    BY <1>4, AddTypeDoes DEF c
  <2>2. Section(t, "add_type", "types") /\ UNCHANGED <<building, ended>>
    BY <1>4, AddTypeDoes
  <2>3. collector' \in [subjects : SUBSET Subjects(Triples),
                        predicates : SUBSET Predicates(Triples),
                        objects : SUBSET Objects(Triples), edges : Bags,
                        types : SUBSET (TypeIds \X Subjects(Triples)), count : Nat]
    BY <1>2, <2>1, FieldsRead
  <2> QED BY <1>1, <2>2, <2>3, SectionTypes
<1>5. CASE Clear(t)
  <2>1. PICK name : /\ Section(t, "clear", name) /\ Empties(name, c, collector')
                    /\ UNCHANGED <<building, ended>>
    BY <1>5, ClearDoes DEF c
  <2>2. None0 \in Bags
    BY DEF None0, Bags
  <2>3. \E s, p, o, e, ty, n : /\ Fields(collector', s, p, o, e, ty, n)
          /\ s \subseteq Subjects(Triples) /\ p \subseteq Predicates(Triples)
          /\ o \subseteq Objects(Triples) /\ e \in Bags
          /\ ty \subseteq (TypeIds \X Subjects(Triples)) /\ n \in Nat
    <3>2. Empties(name, c, collector')
      BY <2>1
    <3>3. CASE name = "subjects"
      BY <1>2, <3>2, <3>3 DEF Empties
    <3>4. CASE name = "predicates"
      BY <1>2, <3>2, <3>4 DEF Empties
    <3>5. CASE name = "objects"
      BY <1>2, <3>2, <3>5 DEF Empties
    <3>6. CASE name = "edges"
      BY <1>2, <2>2, <3>2, <3>6 DEF Empties
    <3>7. CASE name = "types"
      BY <1>2, <3>2, <3>7 DEF Empties
    <3>8. CASE name = "count"
      BY <1>2, <3>2, <3>8 DEF Empties
    <3> QED BY <3>2, <3>3, <3>4, <3>5, <3>6, <3>7, <3>8 DEF Empties
  <2>4. collector' \in [subjects : SUBSET Subjects(Triples),
                        predicates : SUBSET Predicates(Triples),
                        objects : SUBSET Objects(Triples), edges : Bags,
                        types : SUBSET (TypeIds \X Subjects(Triples)), count : Nat]
    BY <2>3, FieldsRead
  <2> QED BY <1>1, <2>1, <2>4, SectionTypes
<1>6. CASE Build(t)
  <2>1. /\ UNCHANGED <<collector, ended>> /\ DOMAIN building' = Threads
        /\ \A u \in Threads \ {t} : building'[u] = building[u]
    BY <1>6, BuildDoes
  <2>2. \E name : Section(t, "build", name) /\ Like(building'[t])
    <3>1. CASE Section(t, "build", "types") /\ building'[t] = EmptyStatistics
      BY <3>1, NothingReadYet DEF Parts
    <3>2. CASE \E name : /\ Section(t, "build", name)
                         /\ Reads(name, collector, building[t], building'[t])
      BY <3>2 DEF Reads, Parts
    <3> QED BY <1>6, <3>1, <3>2, BuildDoes
  <2> QED BY <1>1, <2>1, <2>2, SectionTypes
<1> QED BY <1>3, <1>4, <1>5, <1>6 DEF CollectorStep

LEMMA BeginTypes ==
  ASSUME CollectorTypes, PlaceInv, NEW t \in Threads, NEW c \in Calls, Begin(t, c)
  PROVE  CollectorTypes' /\ PlaceInv'
<1>1. begun' \in Bags /\ ended' \in Bags /\ torn' \in BOOLEAN
  <2>1. /\ begun' = CASE c.op = "add_triple" -> [begun EXCEPT ![c.triple] = @ + 1]
                      [] c.op = "clear" -> None0
                      [] OTHER -> begun
        /\ ended' = IF c.op = "clear" THEN None0 ELSE ended
    BY DEF Begin
  <2>2. torn' \in BOOLEAN
    BY DEF Begin, CollectorTypes
  <2>3. None0 \in Bags /\ begun \in Bags /\ ended \in Bags
    BY DEF None0, Bags, CollectorTypes
  <2>4. c.op = "add_triple" => [begun EXCEPT ![c.triple] = @ + 1] \in Bags
    BY <2>3, CallShapes, OneMoreOf
  <2> QED BY <2>1, <2>2, <2>3, <2>4
<1>2. \A u \in Threads : todo'[u] # << >> => call'[u] \in Calls
  BY BeginDoes DEF CollectorTypes, Running
<1>3. \A u \in Threads : Like(building'[u])
  BY BeginDoes, NothingReadYet DEF CollectorTypes, Parts
<1> QED BY <1>1, <1>2, <1>3, BeginDoes DEF CollectorTypes
-----------------------------------------------------------------------------
(* What build reads *)

LEMMA PresentParts ==
  ASSUME NEW f \in Bags, NEW g \in Bags, \A x \in Triples : f[x] <= g[x]
  PROVE  /\ Present(f) \subseteq Present(g)
         /\ Subjects(Present(f)) \subseteq Subjects(Present(g))
         /\ Predicates(Present(f)) \subseteq Predicates(Present(g))
         /\ Objects(Present(f)) \subseteq Objects(Present(g))
         /\ SumOf(f, Triples) \in Nat /\ SumOf(g, Triples) \in Nat
         /\ SumOf(f, Triples) <= SumOf(g, Triples)
<1>1. \A x \in Triples : f[x] \in Nat /\ g[x] \in Nat
  BY DEF Bags
<1>2. Present(f) \subseteq Present(g)
  BY <1>1 DEF Present
<1>3. /\ SumOf(f, Triples) \in Nat /\ SumOf(g, Triples) \in Nat
      /\ SumOf(f, Triples) <= SumOf(g, Triples)
  BY <1>1, TriplesAssumption, SumIsNat, SumMonotone
<1> QED BY <1>2, <1>3 DEF Subjects, Predicates, Objects

LEMMA PredicateParts ==
  ASSUME NEW f \in Bags, NEW g \in Bags, \A x \in Triples : f[x] <= g[x], NEW p
  PROVE  /\ SumOf(f, Of(p, Triples)) \in Nat /\ SumOf(g, Of(p, Triples)) \in Nat
         /\ SumOf(f, Of(p, Triples)) <= SumOf(g, Of(p, Triples))
<1>1. \A x \in Triples : f[x] \in Nat /\ g[x] \in Nat
  BY DEF Bags
<1>2. Of(p, Triples) \subseteq Triples
  BY DEF Of
<1>3. IsFiniteSet(Of(p, Triples))
  BY <1>2, TriplesAssumption, FS_Subset
<1> QED BY <1>1, <1>2, <1>3, SumIsNat, SumMonotone

LEMMA NodesPresent ==
  ASSUME NEW f
  PROVE  /\ IsFiniteSet(Subjects(Present(f))) /\ IsFiniteSet(Predicates(Present(f)))
         /\ IsFiniteSet(Objects(Present(f)))
<1>1. /\ Subjects(Present(f)) \subseteq Subjects(Triples)
      /\ Predicates(Present(f)) \subseteq Predicates(Triples)
      /\ Objects(Present(f)) \subseteq Objects(Triples)
  BY DEF Present, Subjects, Predicates, Objects
<1> QED BY <1>1, NodesAreFinite, FS_Subset

LEMMA SetReadIs ==
  ASSUME NEW S, NEW low, NEW high, NEW total \in Nat,
         IsFiniteSet(high), low \subseteq S, S \subseteq high, total > 0 => S # {}
  PROVE  SetRead(low, Cardinality(S), high, total)
<1>1. IsFiniteSet(S)
  BY FS_Subset
<1>2. Cardinality(S) \in Nat /\ Cardinality(low) <= Cardinality(S)
      /\ Cardinality(S) <= Cardinality(high)
  BY <1>1, FS_Subset, FS_CardinalityType
<1>3. total > 0 => Cardinality(S) > 0
  BY <1>1, <1>2, FS_EmptySet
<1> QED BY <1>2, <1>3 DEF SetRead

LEMMA SetReadLater ==
  ASSUME NEW low, NEW n, NEW high, NEW higher, NEW total, SetRead(low, n, high, total),
         IsFiniteSet(low), IsFiniteSet(higher), high \subseteq higher
  PROVE  SetRead(low, n, higher, total)
<1>1. IsFiniteSet(high) /\ Cardinality(high) <= Cardinality(higher)
  BY FS_Subset
<1>2. Cardinality(low) \in Nat /\ Cardinality(high) \in Nat /\ Cardinality(higher) \in Nat
  BY <1>1, FS_CardinalityType
<1> QED BY <1>1, <1>2 DEF SetRead

(* What has been read stays true while triples are added.                  *)
LEMMA ReadLater ==
  ASSUME NEW left, NEW low, NEW b, NEW now \in Bags, NEW high \in Bags,
         NEW later \in Bags, NEW higher \in Bags,
         \A x \in Triples : now[x] <= later[x] /\ high[x] <= higher[x],
         ReadSoFar(left, low, b, now, high)
  PROVE  ReadSoFar(left, low, b, later, higher)
<1>1. low \in Bags /\ b.triple_count \in Nat /\ \A x \in Triples : low[x] <= now[x]
  BY DEF ReadSoFar
<1>2. \A x \in Triples : low[x] <= later[x]
  <2>1. \A x \in Triples : low[x] \in Nat /\ now[x] \in Nat /\ later[x] \in Nat
    BY <1>1 DEF Bags
  <2> QED BY <1>1, <2>1
<1>3. "count" \notin left => CountRead(low, b.triple_count, later)
  <2>1. SumOf(now, Triples) <= SumOf(later, Triples)
        /\ SumOf(now, Triples) \in Nat /\ SumOf(later, Triples) \in Nat
    BY PresentParts
  <2>2. SumOf(low, Triples) \in Nat
    BY <1>1, PresentParts
  <2>3. CountRead(low, b.triple_count, now) => CountRead(low, b.triple_count, later)
    <3> DEFINE n == b.triple_count
    <3>1. n \in Nat
      BY <1>1
    <3> HIDE DEF n
    <3>2. CountRead(low, n, now) => CountRead(low, n, later)
      BY <2>1, <2>2, <3>1 DEF CountRead
    <3> QED BY <3>2 DEF n
  <2> QED BY <2>3 DEF ReadSoFar
<1>4. /\ Subjects(Present(high)) \subseteq Subjects(Present(higher))
      /\ Predicates(Present(high)) \subseteq Predicates(Present(higher))
      /\ Objects(Present(high)) \subseteq Objects(Present(higher))
  BY PresentParts
<1>5. ("subjects" \notin left) =>
        SetRead(Subjects(Present(low)), b.distinct_subjects, Subjects(Present(higher)),
                b.triple_count)
  BY <1>4, NodesPresent, SetReadLater DEF ReadSoFar
<1>6. ("predicates" \notin left) =>
        SetRead(Predicates(Present(low)), b.distinct_predicates, Predicates(Present(higher)),
                b.triple_count)
  BY <1>4, NodesPresent, SetReadLater DEF ReadSoFar
<1>7. ("objects" \notin left) =>
        SetRead(Objects(Present(low)), b.distinct_objects, Objects(Present(higher)),
                b.triple_count)
  BY <1>4, NodesPresent, SetReadLater DEF ReadSoFar
<1>8. ASSUME EdgesRead(low, b.predicate_frequency, b.triple_count, high)
      PROVE  EdgesRead(low, b.predicate_frequency, b.triple_count, higher)
  <2> DEFINE f == b.predicate_frequency
             n(p) == IF p \in DOMAIN f THEN f[p] ELSE 0
  <2>1. b.triple_count <= Total(f)
    BY <1>8 DEF EdgesRead
  <2>2. ASSUME NEW p \in Predicates(Triples)
        PROVE  /\ SumOf(low, Of(p, Triples)) <= n(p) /\ n(p) \in Nat
               /\ n(p) <= SumOf(higher, Of(p, Triples))
    <3>1. /\ SumOf(low, Of(p, Triples)) <= n(p) /\ n(p) \in Nat
          /\ n(p) <= SumOf(high, Of(p, Triples))
      BY <1>8 DEF EdgesRead
    <3>2. /\ SumOf(high, Of(p, Triples)) \in Nat /\ SumOf(higher, Of(p, Triples)) \in Nat
          /\ SumOf(high, Of(p, Triples)) <= SumOf(higher, Of(p, Triples))
      BY PredicateParts
    <3> HIDE DEF n
    <3> QED BY <3>1, <3>2
  <2> QED BY <2>1, <2>2 DEF EdgesRead
<1> QED BY <1>1, <1>2, <1>3, <1>5, <1>6, <1>7, <1>8 DEF ReadSoFar

(* A section that reads adds what it read.                                 *)
LEMMA ReadMore ==
  ASSUME NEW left, NEW low, NEW b, NEW d, NEW now, NEW high, NEW c, NEW name,
         ReadSoFar(left, low, b, now, high), Reads(name, c, b, d),
         name # "count" => "count" \notin left,
         name = "count" =>
           /\ {"subjects", "predicates", "objects", "edges"} \subseteq left
           /\ c.count \in Nat /\ CountRead(low, c.count, now),
         name = "subjects" =>
           SetRead(Subjects(Present(low)), Cardinality(c.subjects), Subjects(Present(high)),
                   b.triple_count),
         name = "predicates" =>
           SetRead(Predicates(Present(low)), Cardinality(c.predicates),
                   Predicates(Present(high)), b.triple_count),
         name = "objects" =>
           SetRead(Objects(Present(low)), Cardinality(c.objects), Objects(Present(high)),
                   b.triple_count),
         name = "edges" => EdgesRead(low, Frequencies(c.edges), b.triple_count, high)
  PROVE  ReadSoFar(left \ {name}, low, d, now, high)
<1>1. CASE name = "count"
  BY <1>1 DEF ReadSoFar, Reads, Parts
<1>2. CASE name = "subjects"
  BY <1>2 DEF ReadSoFar, Reads, Parts
<1>3. CASE name = "predicates"
  BY <1>3 DEF ReadSoFar, Reads, Parts
<1>4. CASE name = "objects"
  BY <1>4 DEF ReadSoFar, Reads, Parts
<1>5. CASE name = "edges"
  BY <1>5 DEF ReadSoFar, Reads, Parts
<1> QED BY <1>1, <1>2, <1>3, <1>4, <1>5 DEF Reads

LEMMA EdgesReadIs ==
  ASSUME NEW low \in Bags, NEW now \in Bags, NEW e \in Bags, NEW high \in Bags,
         \A x \in Triples : low[x] <= now[x] /\ now[x] <= e[x] /\ e[x] <= high[x],
         NEW total \in Nat, total <= SumOf(now, Triples)
  PROVE  EdgesRead(low, Frequencies(e), total, high)
<1> DEFINE f == Frequencies(e)
           n(p) == IF p \in DOMAIN f THEN f[p] ELSE 0
<1>1. \A x \in Triples : low[x] <= e[x]
  <2>1. \A x \in Triples : low[x] \in Nat /\ now[x] \in Nat /\ e[x] \in Nat
    BY DEF Bags
  <2> QED BY <2>1
<1>2. /\ Total(f) = SumOf(e, Triples)
      /\ \A p \in Predicates(Triples) : n(p) = SumOf(e, Of(p, Triples))
  BY FrequenciesAdd
<1>3. ASSUME NEW p \in Predicates(Triples)
      PROVE  /\ SumOf(low, Of(p, Triples)) <= n(p) /\ n(p) \in Nat
             /\ n(p) <= SumOf(high, Of(p, Triples))
  <2>1. /\ SumOf(low, Of(p, Triples)) <= SumOf(e, Of(p, Triples))
        /\ SumOf(e, Of(p, Triples)) \in Nat
        /\ SumOf(e, Of(p, Triples)) <= SumOf(high, Of(p, Triples))
    BY <1>1, PredicateParts
  <2>2. n(p) = SumOf(e, Of(p, Triples))
    BY <1>2
  <2> HIDE DEF n, f
  <2> QED BY <2>1, <2>2
<1>4. total <= SumOf(e, Triples)
  <2>1. /\ SumOf(now, Triples) <= SumOf(e, Triples)
        /\ SumOf(now, Triples) \in Nat /\ SumOf(e, Triples) \in Nat
    BY PresentParts
  <2> QED BY <2>1
<1>5. total <= Total(f)
  BY <1>2, <1>4, Zenon
<1> QED BY <1>3, <1>5 DEF EdgesRead
-----------------------------------------------------------------------------
(* Steps in the calm *)

Main == ClearInv /\ EdgeInv /\ NodeInv /\ BuildInv

LEMMA TornKept ==
  ASSUME torn, torn' = torn
  PROVE  Main'
BY DEF Main, ClearInv, EdgeInv, NodeInv, BuildInv, Calm

LEMMA CalmBags ==
  ASSUME CollectorTypes, EdgeInv, Calm
  PROVE  /\ collector.edges \in Bags /\ ended \in Bags /\ begun \in Bags
         /\ \A x \in Triples : ended[x] <= collector.edges[x] /\ collector.edges[x] <= begun[x]
         /\ \A t \in Threads, x \in Triples : Adds(t, x) => begun[x] > 0
         /\ \A x \in Triples : /\ IsFiniteSet(Adding(x)) /\ IsFiniteSet(Drawn(x))
                               /\ Cardinality(Adding(x)) \in Nat
                               /\ Cardinality(Drawn(x)) \in Nat
<1>1. collector.edges \in Bags /\ ended \in Bags /\ begun \in Bags
  BY CollectorFields DEF CollectorTypes
<1>2. ASSUME NEW x \in Triples
      PROVE  /\ ended[x] <= collector.edges[x] /\ collector.edges[x] <= begun[x]
             /\ \A t \in Threads : Adds(t, x) => begun[x] > 0
             /\ IsFiniteSet(Adding(x)) /\ IsFiniteSet(Drawn(x))
             /\ Cardinality(Adding(x)) \in Nat /\ Cardinality(Drawn(x)) \in Nat
  <2>1. Adding(x) \subseteq Threads /\ Drawn(x) \subseteq Adding(x)
    BY DEF Adding, Drawn
  <2>2. IsFiniteSet(Adding(x)) /\ IsFiniteSet(Drawn(x))
        /\ Cardinality(Drawn(x)) <= Cardinality(Adding(x))
    BY <2>1, ThreadsAssumption, FS_Subset
  <2>3. Cardinality(Adding(x)) \in Nat /\ Cardinality(Drawn(x)) \in Nat
    BY <2>2, FS_CardinalityType
  <2>4. /\ begun[x] = ended[x] + Cardinality(Adding(x))
        /\ collector.edges[x] = ended[x] + Cardinality(Drawn(x))
    BY DEF EdgeInv
  <2>5. ended[x] \in Nat
    BY <1>1 DEF Bags
  <2>6. ended[x] <= collector.edges[x] /\ collector.edges[x] <= begun[x]
    BY <2>2, <2>3, <2>4, <2>5
  <2>7. ASSUME NEW t \in Threads, Adds(t, x)
        PROVE  begun[x] > 0
    <3>1. Adding(x) # {}
      BY <2>7 DEF Adding
    <3>2. Cardinality(Adding(x)) # 0
      BY <2>2, <3>1, FS_EmptySet
    <3> QED BY <2>3, <2>4, <2>5, <3>2
  <2> QED BY <2>2, <2>3, <2>6, <2>7
<1> QED BY <1>1, <1>2

(* Who stands where, after a section of add_triple.                        *)
LEMMA AddPlaces ==
  ASSUME CollectorTypes, PlaceInv, NEW t \in Threads, NEW name, Section(t, "add_triple", name)
  PROVE  /\ \A u \in Threads : \A y : Adds(u, y)' <=> Adds(u, y) /\ ~(u = t /\ name = "count")
         /\ \A u \in Threads : \A n : n \in Left(u)' <=> n \in Left(u) /\ ~(u = t /\ n = name)
         /\ name = "edges" => "edges" \in Left(t)
         /\ name = "count" => "edges" \notin Left(t)
         /\ name = "edges" => /\ "subjects" \notin Left(t) /\ "predicates" \notin Left(t)
                              /\ "objects" \notin Left(t)
         /\ \A u \in Threads : Builds(u)' => /\ Builds(u) /\ Left(u)' = Left(u)
                                             /\ before'[u] = before[u]
         /\ Adds(t, call[t].triple)
<1>1. Running(t) /\ call[t].op = "add_triple"
  BY DEF Section
<1>2. /\ \A u \in Threads :
           /\ Left(u)' = IF u = t THEN Left(u) \ {name} ELSE Left(u)
           /\ Running(u)' => Running(u) /\ call'[u] = call[u] /\ before'[u] = before[u]
           /\ u # t => Running(u)' = Running(u) /\ call'[u] = call[u]
      /\ Running(t)' <=> Left(t)' # {}
  BY SectionDone
<1>3. /\ name = "edges" => Left(t) = {"edges", "count"}
      /\ name = "count" => Left(t) = {"count"}
      /\ "count" \in Left(t)
  BY SectionOrder
<1>4. Running(t)' <=> name # "count"
  BY <1>2, <1>3
<1> QED BY <1>1, <1>2, <1>3, <1>4 DEF Adds, Builds

LEMMA CountedMore ==
  ASSUME NEW f \in Bags, NEW g \in Bags, NEW x \in Triples, g[x] = f[x] + 1,
         \A y \in Triples \ {x} : f[y] = g[y]
  PROVE  SumOf(g, Triples) = SumOf(f, Triples) + 1
<1>1. \A y \in Triples : f[y] \in Nat /\ g[y] \in Nat
  BY DEF Bags
<1>2. SumOf(g, Triples) + f[x] = SumOf(f, Triples) + g[x]
  BY <1>1, TriplesAssumption, SumChanged
<1>3. SumOf(f, Triples) \in Nat /\ SumOf(g, Triples) \in Nat
  BY <1>1, TriplesAssumption, SumIsNat
<1> QED BY <1>1, <1>2, <1>3

LEMMA AddKeepsEdges ==
  ASSUME CollectorTypes, PlaceInv, EdgeInv, Calm, Calm', NEW t \in Threads, NEW name,
         Section(t, "add_triple", name), NEW x \in Triples, x = call[t].triple,
         Puts(name, x, collector, collector'),
         ended' = IF name = "count" THEN [ended EXCEPT ![x] = @ + 1] ELSE ended,
         begun' = begun
  PROVE  EdgeInv' /\ \A y \in Triples : ended[y] <= ended'[y]
<1> DEFINE e == collector.edges
<1>1. /\ e \in Bags /\ ended \in Bags
      /\ \A y \in Triples : /\ IsFiniteSet(Adding(y)) /\ IsFiniteSet(Drawn(y))
                            /\ Cardinality(Adding(y)) \in Nat /\ Cardinality(Drawn(y)) \in Nat
  BY CalmBags
<1>2. /\ \A y \in Triples : begun[y] = ended[y] + Cardinality(Adding(y))
                            /\ e[y] = ended[y] + Cardinality(Drawn(y))
      /\ collector.count = SumOf(ended, Triples)
  BY DEF EdgeInv
<1>3. /\ \A u \in Threads : \A y : Adds(u, y)' <=> Adds(u, y) /\ ~(u = t /\ name = "count")
      /\ \A u \in Threads : "edges" \in Left(u)' <=> "edges" \in Left(u)
                                                     /\ ~(u = t /\ "edges" = name)
      /\ name = "edges" => "edges" \in Left(t)
      /\ name = "count" => "edges" \notin Left(t)
      /\ \A y : Adds(t, y) <=> y = x
  <2>1. Running(t) /\ call[t].op = "add_triple"
    BY DEF Section
  <2> QED BY <2>1, AddPlaces DEF Adds
<1>4. /\ \A y \in Triples \ {x} : Adding(y)' = Adding(y) /\ Drawn(y)' = Drawn(y)
      /\ Adding(x)' \ {t} = Adding(x) \ {t} /\ Drawn(x)' \ {t} = Drawn(x) \ {t}
      /\ t \in Adding(x) /\ (t \in Adding(x)' <=> name # "count")
      /\ name = "edges" => t \notin Drawn(x) /\ t \in Drawn(x)'
      /\ name = "count" => t \in Drawn(x) /\ t \notin Drawn(x)'
      /\ name \notin {"edges", "count"} => (t \in Drawn(x) <=> t \in Drawn(x)')
  <2>1. \A y \in Triples \ {x} : Adding(y)' = Adding(y) /\ Drawn(y)' = Drawn(y)
    BY <1>3 DEF Adding, Drawn
  <2>2. Adding(x)' \ {t} = Adding(x) \ {t} /\ Drawn(x)' \ {t} = Drawn(x) \ {t}
    BY <1>3 DEF Adding, Drawn
  <2>3. t \in Adding(x) /\ (t \in Adding(x)' <=> name # "count")
    BY <1>3 DEF Adding
  <2>4. /\ name = "edges" => t \notin Drawn(x) /\ t \in Drawn(x)'
        /\ name = "count" => t \in Drawn(x) /\ t \notin Drawn(x)'
        /\ name \notin {"edges", "count"} => (t \in Drawn(x) <=> t \in Drawn(x)')
    BY <1>3 DEF Drawn
  <2> QED BY <2>1, <2>2, <2>3, <2>4
<1> DEFINE n == Cardinality(Adding(x))
           m == Cardinality(Adding(x)')
           i == Cardinality(Drawn(x))
           j == Cardinality(Drawn(x)')
<1>5. /\ name = "count" => m = n - 1
      /\ name # "count" => m = n
      /\ name = "edges" => j = i + 1
      /\ name = "count" => j = i - 1
      /\ name \notin {"edges", "count"} => j = i
      /\ n \in Nat /\ m \in Nat /\ i \in Nat /\ j \in Nat
  <2>1. /\ m \in Nat /\ n \in Nat
        /\ name = "count" => m = n - 1
        /\ name # "count" => m = n
    BY <1>1, <1>4, OneMore
  <2>2. i \in Nat /\ j \in Nat
    BY <1>1, <1>4, OneMore
  <2>3. name = "edges" => j = i + 1
    BY <1>1, <1>4, OneMore
  <2>4. name = "count" => j = i - 1
    BY <1>1, <1>4, OneMore
  <2>5. name \notin {"edges", "count"} => j = i
    BY <1>1, <1>4, OneMore
  <2> QED BY <2>1, <2>2, <2>3, <2>4, <2>5
<1> DEFINE d == collector'.edges
<1>6. /\ name = "edges" => d[x] = e[x] + 1 /\ ended'[x] = ended[x]
      /\ name = "count" => d[x] = e[x] /\ ended'[x] = ended[x] + 1
      /\ name \notin {"edges", "count"} => d[x] = e[x] /\ ended'[x] = ended[x]
      /\ \A y \in Triples \ {x} : d[y] = e[y] /\ ended'[y] = ended[y]
      /\ collector'.count = IF name = "count" THEN collector.count + 1 ELSE collector.count
  <2>0. ASSUME NEW f \in Bags
        PROVE  /\ [f EXCEPT ![x] = @ + 1][x] = f[x] + 1
               /\ \A y \in Triples \ {x} : [f EXCEPT ![x] = @ + 1][y] = f[y]
    BY <2>0 DEF Bags
  <2>1. /\ [ended EXCEPT ![x] = @ + 1][x] = ended[x] + 1
        /\ [e EXCEPT ![x] = @ + 1][x] = e[x] + 1
        /\ \A y \in Triples \ {x} : /\ [ended EXCEPT ![x] = @ + 1][y] = ended[y]
                                    /\ [e EXCEPT ![x] = @ + 1][y] = e[y]
    <3> HIDE DEF e
    <3> QED BY <1>1, <2>0
  <2>2. /\ d = IF name = "edges" THEN [e EXCEPT ![x] = @ + 1] ELSE e
        /\ collector'.count = IF name = "count" THEN collector.count + 1 ELSE collector.count
    BY FieldsRead DEF Puts
  <2> HIDE DEF d, e
  <2> QED BY <2>1, <2>2
<1>7. /\ begun[x] = ended'[x] + m /\ d[x] = ended'[x] + j
      /\ ended[x] \in Nat /\ ended[x] <= ended'[x] /\ ended'[x] \in Nat
  <2>1. ended[x] \in Nat /\ begun[x] = ended[x] + n /\ e[x] = ended[x] + i
    BY <1>1, <1>2 DEF Bags
  <2> HIDE DEF d, e, n, m, i, j
  <2>2. CASE name = "edges"
    BY <1>5, <1>6, <2>1, <2>2
  <2>3. CASE name = "count"
    BY <1>5, <1>6, <2>1, <2>3
  <2>4. CASE name \notin {"edges", "count"}
    BY <1>5, <1>6, <2>1, <2>4
  <2> QED BY <2>2, <2>3, <2>4
<1>8. ASSUME NEW y \in Triples
      PROVE  /\ begun[y] = ended'[y] + Cardinality(Adding(y)')
             /\ d[y] = ended'[y] + Cardinality(Drawn(y)')
             /\ ended[y] <= ended'[y]
  <2>1. CASE y = x
    BY <1>7, <2>1
  <2>2. CASE y # x
    <3>1. ended'[y] = ended[y] /\ d[y] = e[y] /\ ended[y] \in Nat
      BY <1>1, <1>6, <2>2 DEF Bags
    <3>2. Adding(y)' = Adding(y) /\ Drawn(y)' = Drawn(y)
      BY <1>4, <2>2
    <3>3. ended[y] <= ended'[y]
      BY <3>1
    <3> QED BY <1>2, <3>1, <3>2, <3>3
  <2> QED BY <2>1, <2>2
<1>9. collector'.count = SumOf(ended', Triples)
  <2>1. CASE name # "count"
    BY <1>2, <1>6, <2>1
  <2>2. CASE name = "count"
    <3>1. ended' \in Bags
      <4>1. ended' = [ended EXCEPT ![x] = @ + 1]
        BY <2>2
      <4> QED BY <1>1, <4>1 DEF Bags
    <3>2. ended'[x] = ended[x] + 1 /\ \A y \in Triples \ {x} : ended[y] = ended'[y]
      BY <1>6, <2>2
    <3>3. SumOf(ended', Triples) = SumOf(ended, Triples) + 1
      BY <1>1, <3>1, <3>2, CountedMore
    <3> QED BY <1>2, <1>6, <2>2, <3>3
  <2> QED BY <2>1, <2>2
<1> QED BY <1>8, <1>9 DEF EdgeInv
(* The nodes of the triples, after a section of add_triple.                *)
LEMMA AddKeepsNodes ==
  ASSUME CollectorTypes, PlaceInv, EdgeInv, NodeInv, Calm, Calm', NEW t \in Threads, NEW name,
         Section(t, "add_triple", name), NEW x \in Triples, x = call[t].triple,
         Puts(name, x, collector, collector'), begun' = begun
  PROVE  NodeInv'
<1> DEFINE c == collector
           d == collector'
<1>1. /\ \A y \in Present(c.edges) : y.s \in c.subjects /\ y.p \in c.predicates
                                     /\ y.o \in c.objects
      /\ \A u \in Threads, y \in Triples : Adds(u, y) =>
           /\ "subjects" \notin Left(u) => y.s \in c.subjects
           /\ "predicates" \notin Left(u) => y.p \in c.predicates
           /\ "objects" \notin Left(u) => y.o \in c.objects
      /\ c.subjects \subseteq Subjects(Present(begun))
      /\ c.predicates \subseteq Predicates(Present(begun))
      /\ c.objects \subseteq Objects(Present(begun))
  BY DEF NodeInv
<1>2. /\ \A u \in Threads : \A y : Adds(u, y)' => Adds(u, y)
      /\ \A u \in Threads : \A n : n \in Left(u)' <=> n \in Left(u) /\ ~(u = t /\ n = name)
      /\ name = "edges" => /\ "subjects" \notin Left(t) /\ "predicates" \notin Left(t)
                           /\ "objects" \notin Left(t)
      /\ Adds(t, x)
  BY AddPlaces
<1>3. \A y : Adds(t, y) => y = x
  BY DEF Adds
<1>4. /\ x \in Present(begun)
      /\ c.edges \in Bags
  BY <1>2, CalmBags DEF Present
<1>5. /\ d.subjects = IF name = "subjects" THEN c.subjects \cup {x.s} ELSE c.subjects
      /\ d.predicates = IF name = "predicates" THEN c.predicates \cup {x.p} ELSE c.predicates
      /\ d.objects = IF name = "objects" THEN c.objects \cup {x.o} ELSE c.objects
      /\ d.edges = IF name = "edges" THEN [c.edges EXCEPT ![x] = @ + 1] ELSE c.edges
  BY FieldsRead DEF Puts
<1>6. c.subjects \subseteq d.subjects /\ c.predicates \subseteq d.predicates
      /\ c.objects \subseteq d.objects
  BY <1>5
<1>7. ASSUME NEW y \in Present(d.edges)
      PROVE  y.s \in d.subjects /\ y.p \in d.predicates /\ y.o \in d.objects
  <2>1. CASE y \in Present(c.edges)
    BY <1>1, <1>6, <2>1
  <2>2. CASE y \notin Present(c.edges)
    <3>1. y = x /\ name = "edges"
      <4>1. y \in Triples /\ d.edges[y] > 0 /\ ~(c.edges[y] > 0)
        BY <1>7, <2>2 DEF Present
      <4> HIDE DEF c, d
      <4> QED BY <1>4, <1>5, <4>1 DEF Bags
    <3> QED BY <1>1, <1>2, <1>6, <3>1
  <2> QED BY <2>1, <2>2
<1>8. ASSUME NEW u \in Threads, NEW y \in Triples, Adds(u, y)'
      PROVE  /\ "subjects" \notin Left(u)' => y.s \in d.subjects
             /\ "predicates" \notin Left(u)' => y.p \in d.predicates
             /\ "objects" \notin Left(u)' => y.o \in d.objects
  <2>1. Adds(u, y) /\ (u = t => y = x)
    BY <1>2, <1>3, <1>8
  <2>2. "subjects" \notin Left(u)' => y.s \in d.subjects
    BY <1>1, <1>2, <1>5, <1>6, <2>1
  <2>3. "predicates" \notin Left(u)' => y.p \in d.predicates
    BY <1>1, <1>2, <1>5, <1>6, <2>1
  <2>4. "objects" \notin Left(u)' => y.o \in d.objects
    BY <1>1, <1>2, <1>5, <1>6, <2>1
  <2> QED BY <2>2, <2>3, <2>4
<1>9. /\ x.s \in Subjects(Present(begun)) /\ x.p \in Predicates(Present(begun))
      /\ x.o \in Objects(Present(begun))
  BY <1>4 DEF Subjects, Predicates, Objects
<1>10. /\ d.subjects \subseteq Subjects(Present(begun))
       /\ d.predicates \subseteq Predicates(Present(begun))
       /\ d.objects \subseteq Objects(Present(begun))
  BY <1>1, <1>5, <1>9
<1> QED BY <1>7, <1>8, <1>10 DEF NodeInv

LEMMA AddKeepsBuilds ==
  ASSUME CollectorTypes, PlaceInv, BuildInv, ~torn, NEW t \in Threads, NEW name,
         Section(t, "add_triple", name), CollectorTypes',
         begun' = begun, building' = building, \A y \in Triples : ended[y] <= ended'[y]
  PROVE  BuildInv'
<1> SUFFICES ASSUME NEW u \in Threads, Builds(u)'
             PROVE  ReadSoFar(Left(u)', before'[u], building'[u], ended', begun')
  BY DEF BuildInv
<1>1. Builds(u) /\ Left(u)' = Left(u) /\ before'[u] = before[u]
  BY AddPlaces
<1>2. ReadSoFar(Left(u), before[u], building[u], ended, begun)
  BY <1>1 DEF BuildInv
<1>3. ended \in Bags /\ ended' \in Bags /\ begun \in Bags
  BY DEF CollectorTypes
<1>4. \A y \in Triples : ended[y] <= ended'[y] /\ begun[y] <= begun[y]
  BY <1>3 DEF Bags
<1>5. ReadSoFar(Left(u), before[u], building[u], ended', begun)
  BY <1>2, <1>3, <1>4, ReadLater
<1> QED BY <1>1, <1>5

LEMMA AddTripleKeeps ==
  ASSUME CollectorTypes, PlaceInv, Main, CollectorTypes', NEW t \in Threads, AddTriple(t)
  PROVE  Main'
<1> DEFINE x == call[t].triple
<1>1. PICK name :
         /\ Section(t, "add_triple", name) /\ Puts(name, x, collector, collector')
         /\ ended' = IF name = "count" THEN [ended EXCEPT ![x] = @ + 1] ELSE ended
         /\ UNCHANGED <<building, begun, torn>> /\ x \in Triples
  BY AddTripleDoes
<1>2. CASE torn
  BY <1>1, <1>2, TornKept
<1>3. CASE ~torn
  <2>1. ClearInv /\ EdgeInv /\ NodeInv /\ BuildInv
    BY DEF Main
  <2>2. Calm /\ Calm' /\ ClearInv'
    BY <1>1, <1>3, <2>1, CalmSection
  <2>3. EdgeInv' /\ \A y \in Triples : ended[y] <= ended'[y]
    BY <1>1, <2>1, <2>2, AddKeepsEdges
  <2>4. NodeInv'
    BY <1>1, <2>1, <2>2, AddKeepsNodes
  <2>5. BuildInv'
    BY <1>1, <1>3, <2>1, <2>3, AddKeepsBuilds
  <2> QED BY <2>2, <2>3, <2>4, <2>5 DEF Main
<1> QED BY <1>2, <1>3 DEF CollectorTypes
(* The sections of the other calls, in the calm.                           *)
LEMMA OtherPlaces ==
  ASSUME CollectorTypes, PlaceInv, NEW t \in Threads, NEW op, NEW name, Section(t, op, name),
         op # "add_triple"
  PROVE  /\ \A u \in Threads : \A y : Adds(u, y)' <=> Adds(u, y)
         /\ \A u \in Threads : \A y : Adds(u, y) => Left(u)' = Left(u)
         /\ \A u \in Threads \ {t} : Builds(u)' => /\ Builds(u) /\ Left(u)' = Left(u)
                                                   /\ before'[u] = before[u]
         /\ Builds(t)' => /\ Builds(t) /\ op = "build" /\ Left(t)' = Left(t) \ {name}
                          /\ before'[t] = before[t]
<1>1. Running(t) /\ call[t].op = op
  BY DEF Section
<1>2. \A u \in Threads :
         /\ Left(u)' = IF u = t THEN Left(u) \ {name} ELSE Left(u)
         /\ Running(u)' => Running(u) /\ call'[u] = call[u] /\ before'[u] = before[u]
         /\ u # t => Running(u)' = Running(u) /\ call'[u] = call[u]
  BY SectionDone
<1> QED BY <1>1, <1>2 DEF Adds, Builds

LEMMA SameData ==
  ASSUME CollectorTypes, PlaceInv, EdgeInv, NodeInv, Calm, Calm', NEW t \in Threads, NEW op,
         NEW name, Section(t, op, name), op # "add_triple",
         collector'.subjects = collector.subjects, collector'.predicates = collector.predicates,
         collector'.objects = collector.objects, collector'.edges = collector.edges,
         collector'.count = collector.count, begun' = begun, ended' = ended
  PROVE  EdgeInv' /\ NodeInv'
<1>1. /\ \A u \in Threads : \A y : Adds(u, y)' <=> Adds(u, y)
      /\ \A u \in Threads : \A y : Adds(u, y) => Left(u)' = Left(u)
  BY OtherPlaces
<1>2. \A y : Adding(y)' = Adding(y) /\ Drawn(y)' = Drawn(y)
  BY <1>1 DEF Adding, Drawn
<1>3. EdgeInv'
  BY <1>2 DEF EdgeInv
<1>4. NodeInv'
  BY <1>1 DEF NodeInv
<1> QED BY <1>3, <1>4

LEMMA AddTypeKeeps ==
  ASSUME CollectorTypes, PlaceInv, Main, CollectorTypes', NEW t \in Threads, AddType(t)
  PROVE  Main'
<1> DEFINE c == collector
<1>1. /\ Section(t, "add_type", "types")
      /\ UNCHANGED <<building, begun, ended, torn>>
  BY AddTypeDoes
<1>2. PICK ty : Fields(collector', c.subjects, c.predicates, c.objects, c.edges, ty, c.count)
  BY AddTypeDoes
<1>3. CASE torn
  BY <1>1, <1>3, TornKept
<1>4. CASE ~torn
  <2>1. ClearInv /\ EdgeInv /\ NodeInv /\ BuildInv
    BY DEF Main
  <2>2. Calm /\ Calm' /\ ClearInv'
    BY <1>1, <1>4, <2>1, CalmSection
  <2>3. /\ collector'.subjects = c.subjects /\ collector'.predicates = c.predicates
        /\ collector'.objects = c.objects /\ collector'.edges = c.edges
        /\ collector'.count = c.count
    BY <1>2, FieldsRead
  <2>4. EdgeInv' /\ NodeInv'
    BY <1>1, <2>1, <2>2, <2>3, SameData
  <2>5. BuildInv'
    <3> SUFFICES ASSUME NEW u \in Threads, Builds(u)'
                 PROVE  ReadSoFar(Left(u)', before'[u], building'[u], ended', begun')
      BY DEF BuildInv
    <3>1. Builds(u) /\ Left(u)' = Left(u) /\ before'[u] = before[u]
      BY <1>1, OtherPlaces
    <3> QED BY <1>1, <1>4, <2>1, <3>1 DEF BuildInv
  <2> QED BY <2>2, <2>4, <2>5 DEF Main
<1> QED BY <1>3, <1>4 DEF CollectorTypes

(* What a build may read in the calm. *)
LEMMA ReadsAreBetween ==
  ASSUME CollectorTypes, EdgeInv, NodeInv, Calm, NEW low \in Bags, NEW total \in Nat,
         \A x \in Triples : low[x] <= ended[x]
  PROVE  /\ CountRead(low, collector.count, ended)
         /\ total <= SumOf(ended, Triples) =>
              /\ SetRead(Subjects(Present(low)), Cardinality(collector.subjects),
                         Subjects(Present(begun)), total)
              /\ SetRead(Predicates(Present(low)), Cardinality(collector.predicates),
                         Predicates(Present(begun)), total)
              /\ SetRead(Objects(Present(low)), Cardinality(collector.objects),
                         Objects(Present(begun)), total)
              /\ EdgesRead(low, Frequencies(collector.edges), total, begun)
<1> DEFINE c == collector
           e == collector.edges
<1>1. /\ e \in Bags /\ ended \in Bags /\ begun \in Bags
      /\ \A x \in Triples : ended[x] <= e[x] /\ e[x] <= begun[x]
  BY CalmBags
<1>2. \A x \in Triples : low[x] \in Nat /\ ended[x] \in Nat /\ e[x] \in Nat
  BY <1>1 DEF Bags
<1>3. CountRead(low, c.count, ended)
  <2>1. c.count = SumOf(ended, Triples)
    BY DEF EdgeInv
  <2>2. SumOf(low, Triples) <= SumOf(ended, Triples) /\ SumOf(ended, Triples) \in Nat
    BY <1>1, PresentParts
  <2> QED BY <2>1, <2>2 DEF CountRead
<1>4. ASSUME total <= SumOf(ended, Triples)
      PROVE  /\ SetRead(Subjects(Present(low)), Cardinality(c.subjects),
                        Subjects(Present(begun)), total)
             /\ SetRead(Predicates(Present(low)), Cardinality(c.predicates),
                        Predicates(Present(begun)), total)
             /\ SetRead(Objects(Present(low)), Cardinality(c.objects),
                        Objects(Present(begun)), total)
             /\ EdgesRead(low, Frequencies(e), total, begun)
  <2>1. \A x \in Triples : low[x] <= ended[x] /\ ended[x] <= e[x] /\ e[x] <= begun[x]
    BY <1>1
  <2>2. EdgesRead(low, Frequencies(e), total, begun)
    <3> HIDE DEF e
    <3> QED BY <1>1, <1>4, <2>1, EdgesReadIs
  <2>3. /\ \A x \in Present(e) : x.s \in c.subjects /\ x.p \in c.predicates /\ x.o \in c.objects
        /\ c.subjects \subseteq Subjects(Present(begun))
        /\ c.predicates \subseteq Predicates(Present(begun))
        /\ c.objects \subseteq Objects(Present(begun))
    BY DEF NodeInv
  <2>4. Present(low) \subseteq Present(e)
    BY <1>2, <2>1 DEF Present
  <2>5. /\ Subjects(Present(low)) \subseteq c.subjects
        /\ Predicates(Present(low)) \subseteq c.predicates
        /\ Objects(Present(low)) \subseteq c.objects
    BY <2>3, <2>4 DEF Subjects, Predicates, Objects
  <2>6. ASSUME total > 0
        PROVE  c.subjects # {} /\ c.predicates # {} /\ c.objects # {}
    <3>1. SumOf(ended, Triples) \in Nat
      BY <1>2, TriplesAssumption, SumIsNat
    <3>2. SumOf(ended, Triples) > 0
      BY <1>4, <2>6, <3>1
    <3>3. PICK x \in Triples : ended[x] > 0
      BY <1>2, <3>2, TriplesAssumption, SumAboveZero
    <3>4. x \in Present(e)
      BY <1>2, <2>1, <3>3 DEF Present
    <3> QED BY <2>3, <3>4
  <2>7. SetRead(Subjects(Present(low)), Cardinality(c.subjects), Subjects(Present(begun)), total)
    BY <2>3, <2>5, <2>6, NodesPresent, SetReadIs
  <2>8. SetRead(Predicates(Present(low)), Cardinality(c.predicates),
                Predicates(Present(begun)), total)
    BY <2>3, <2>5, <2>6, NodesPresent, SetReadIs
  <2>9. SetRead(Objects(Present(low)), Cardinality(c.objects), Objects(Present(begun)), total)
    BY <2>3, <2>5, <2>6, NodesPresent, SetReadIs
  <2> QED BY <2>2, <2>7, <2>8, <2>9
<1> QED BY <1>3, <1>4

LEMMA BuildKeeps ==
  ASSUME CollectorTypes, PlaceInv, Main, CollectorTypes', NEW t \in Threads, Build(t)
  PROVE  Main'
<1> DEFINE c == collector
           b == building[t]
<1>1. /\ UNCHANGED <<collector, ended, begun, torn>>
      /\ \A u \in Threads \ {t} : building'[u] = building[u]
  BY BuildDoes
<1>2. CASE torn
  BY <1>1, <1>2, TornKept
<1>3. CASE ~torn
  <2>1. ClearInv /\ EdgeInv /\ NodeInv /\ BuildInv
    BY DEF Main
  <2>2. PICK name : /\ Section(t, "build", name)
                    /\ \/ Reads(name, c, b, building'[t])
                       \/ name = "types"
    BY BuildDoes
  <2>3. Calm /\ Calm' /\ ClearInv'
    BY <1>3, <2>1, <2>2, CalmSection
  <2>4. EdgeInv' /\ NodeInv'
    BY <1>1, <2>1, <2>2, <2>3, SameData
  <2>5. BuildInv'
    <3> SUFFICES ASSUME NEW u \in Threads, Builds(u)'
                 PROVE  ReadSoFar(Left(u)', before'[u], building'[u], ended, begun)
      BY <1>1 DEF BuildInv
    <3>1. CASE u # t
      <4>1. Builds(u) /\ Left(u)' = Left(u) /\ before'[u] = before[u]
        BY <2>2, <3>1, OtherPlaces
      <4> QED BY <1>1, <1>3, <2>1, <3>1, <4>1 DEF BuildInv
    <3>2. CASE u = t
      <4> DEFINE low == before[t]
      <4>1. Builds(t) /\ Left(t)' = Left(t) \ {name} /\ before'[t] = low
        BY <2>2, <3>2, OtherPlaces
      <4>2. ReadSoFar(Left(t), low, b, ended, begun)
        BY <1>3, <2>1, <4>1 DEF BuildInv
      <4>3. /\ name # "count" => "count" \notin Left(t)
            /\ name = "count" => {"subjects", "predicates", "objects", "edges"} \subseteq Left(t)
            /\ name = "types" => Left(t) = {"types"}
        BY <2>2, SectionOrder
      <4>4. name # "types"
        <5>1. Left(t)' # {}
          BY <2>2, <3>2, SectionDone DEF Builds
        <5> QED BY <4>1, <4>3, <5>1
      <4>5. Reads(name, c, b, building'[t])
        BY <2>2, <4>4
      <4>6. /\ low \in Bags /\ b.triple_count \in Nat
            /\ \A x \in Triples : low[x] <= ended[x]
            /\ "count" \notin Left(t) => CountRead(low, b.triple_count, ended)
        BY <4>2 DEF ReadSoFar
      <4>7. c.count \in Nat
        BY CollectorFields
      <4> HIDE DEF low, c, b
      <4>8. name # "count" => b.triple_count <= SumOf(ended, Triples)
        BY <4>3, <4>6 DEF CountRead
      <4>9. CountRead(low, c.count, ended)
        BY <2>1, <2>3, <4>6, ReadsAreBetween DEF c
      <4>10. name # "count" =>
               /\ SetRead(Subjects(Present(low)), Cardinality(c.subjects),
                          Subjects(Present(begun)), b.triple_count)
               /\ SetRead(Predicates(Present(low)), Cardinality(c.predicates),
                          Predicates(Present(begun)), b.triple_count)
               /\ SetRead(Objects(Present(low)), Cardinality(c.objects),
                          Objects(Present(begun)), b.triple_count)
               /\ EdgesRead(low, Frequencies(c.edges), b.triple_count, begun)
        BY <2>1, <2>3, <4>6, <4>8, ReadsAreBetween DEF c
      <4>11. ReadSoFar(Left(t) \ {name}, low, building'[t], ended, begun)
        BY <4>2, <4>3, <4>5, <4>7, <4>9, <4>10, ReadMore
      <4> QED BY <3>2, <4>1, <4>11
    <3> QED BY <3>1, <3>2
  <2> QED BY <2>3, <2>4, <2>5 DEF Main
<1> QED BY <1>2, <1>3 DEF CollectorTypes
-----------------------------------------------------------------------------
(* A clear, and the calls that begin *)

LEMMA ClearKeeps ==
  ASSUME CollectorTypes, PlaceInv, Main, CollectorTypes', NEW t \in Threads, Clear(t)
  PROVE  Main'
<1> DEFINE c == collector
           d == collector'
<1>1. PICK name : /\ Section(t, "clear", name) /\ Empties(name, c, d)
                  /\ UNCHANGED <<building, begun, ended, torn>>
  BY ClearDoes
<1>2. CASE torn
  BY <1>1, <1>2, TornKept
<1>3. CASE ~torn
  <2>1. Running(t) /\ call[t].op = "clear"
    BY <1>1 DEF Section
  <2>2. /\ \A u \in Threads \ {t} : ~Running(u)
        /\ begun = None0 /\ ended = None0
        /\ "subjects" \notin Left(t) => c.subjects = {}
        /\ "predicates" \notin Left(t) => c.predicates = {}
        /\ "objects" \notin Left(t) => c.objects = {}
        /\ "edges" \notin Left(t) => c.edges = None0
        /\ "count" \notin Left(t) => c.count = 0
    BY <1>3, <2>1 DEF Main, ClearInv, Clears
  <2>3. /\ Left(t)' = Left(t) \ {name} /\ (Running(t)' <=> Left(t)' # {})
        /\ Running(t)' => call'[t] = call[t]
        /\ \A u \in Threads \ {t} : ~Running(u)'
    BY <1>1, <2>2, SectionDone
  <2>4. /\ d.subjects = IF name = "subjects" THEN {} ELSE c.subjects
        /\ d.predicates = IF name = "predicates" THEN {} ELSE c.predicates
        /\ d.objects = IF name = "objects" THEN {} ELSE c.objects
        /\ d.edges = IF name = "edges" THEN None0 ELSE c.edges
        /\ d.count = IF name = "count" THEN 0 ELSE c.count
    BY <1>1, FieldsRead DEF Empties
  <2>5. /\ "subjects" \notin Left(t)' => d.subjects = {}
        /\ "predicates" \notin Left(t)' => d.predicates = {}
        /\ "objects" \notin Left(t)' => d.objects = {}
        /\ "edges" \notin Left(t)' => d.edges = None0
        /\ "count" \notin Left(t)' => d.count = 0
    <3> HIDE DEF c, d
    <3> QED BY <2>2, <2>3, <2>4
  <2>6. begun' = None0 /\ ended' = None0
    BY <1>1, <2>2
  <2>7. ClearInv'
    BY <2>3, <2>5, <2>6 DEF ClearInv, Clears
  <2>8. BuildInv'
    BY <2>1, <2>3 DEF BuildInv, Builds
  <2>9. CASE Running(t)'
    <3>1. ~Calm'
      BY <2>1, <2>3, <2>9 DEF Calm, Clears
    <3> QED BY <2>7, <2>8, <3>1 DEF Main, EdgeInv, NodeInv
  <2>10. CASE ~Running(t)'
    <3>1. \A u \in Threads : ~Running(u)'
      BY <2>3, <2>10
    <3>2. \A x : Adding(x)' = {} /\ Drawn(x)' = {}
      BY <3>1 DEF Adding, Drawn, Adds
    <3>3. /\ d.subjects = {} /\ d.predicates = {} /\ d.objects = {} /\ d.edges = None0
          /\ d.count = 0
      BY <2>3, <2>5, <2>10
    <3>4. /\ \A x \in Triples : None0[x] = 0
          /\ SumOf(None0, Triples) = 0 /\ Present(None0) = {} /\ Cardinality({}) = 0
      <4>1. \A x \in Triples : None0[x] = 0
        BY DEF None0
      <4> QED BY <4>1, TriplesAssumption, SumOfZeros, FS_EmptySet DEF Present
    <3>5. EdgeInv'
      <4>1. \A x \in Triples : /\ begun'[x] = ended'[x] + Cardinality(Adding(x)')
                               /\ d.edges[x] = ended'[x] + Cardinality(Drawn(x)')
        <5> HIDE DEF d
        <5> QED BY <2>6, <3>2, <3>3, <3>4
      <4>2. d.count = SumOf(ended', Triples)
        <5> HIDE DEF d
        <5> QED BY <2>6, <3>3, <3>4
      <4> QED BY <4>1, <4>2 DEF EdgeInv
    <3>6. NodeInv'
      BY <3>1, <3>3, <3>4 DEF NodeInv, Adds
    <3> QED BY <2>7, <2>8, <3>5, <3>6 DEF Main
  <2> QED BY <2>9, <2>10
<1> QED BY <1>2, <1>3 DEF CollectorTypes

LEMMA BeginClearKeeps ==
  ASSUME CollectorTypes, PlaceInv, NEW t \in Threads, NEW c \in Calls, c.op = "clear",
         Begin(t, c)
  PROVE  Main'
<1>1. /\ Running(t)' /\ call'[t] = c
      /\ {"subjects", "predicates", "objects", "edges", "count"} \subseteq Left(t)'
      /\ \A u \in Threads \ {t} : Running(u)' = Running(u) /\ call'[u] = call[u]
  BY BeginDoes
<1>2. /\ begun' = None0 /\ ended' = None0
      /\ torn' = ({call[u].op : u \in {v \in Threads \ {t} : Running(v)}} # {})
  BY DEF Begin
<1>3. ~Calm'
  BY <1>1 DEF Calm, Clears
<1>4. ~torn' => \A u \in Threads \ {t} : ~Running(u)'
  BY <1>1, <1>2
<1>5. ClearInv'
  BY <1>1, <1>2, <1>4 DEF ClearInv, Clears
<1>6. BuildInv'
  BY <1>1, <1>4 DEF BuildInv, Builds
<1> QED BY <1>3, <1>5, <1>6 DEF Main, EdgeInv, NodeInv

LEMMA CalmBegin ==
  ASSUME CollectorTypes, PlaceInv, NEW t \in Threads, NEW c \in Calls, c.op # "clear",
         Begin(t, c), ~torn'
  PROVE  ~torn /\ Calm /\ Calm' /\ ClearInv' /\ ended' = ended
<1>1. /\ ~Running(t) /\ call'[t] = c /\ ended' = ended
      /\ \A u \in Threads \ {t} : Running(u)' = Running(u) /\ call'[u] = call[u]
  BY BeginDoes DEF Begin
<1>2. torn' = (torn \/ "clear" \in {call[u].op : u \in {v \in Threads \ {t} : Running(v)}})
  BY DEF Begin
<1>3. ~torn /\ \A u \in Threads : ~Clears(u)
  BY <1>1, <1>2 DEF Clears
<1>4. \A u \in Threads : ~Clears(u)'
  BY <1>1, <1>3 DEF Clears
<1> QED BY <1>1, <1>3, <1>4 DEF Calm, ClearInv

LEMMA BeginOtherKeeps ==
  ASSUME CollectorTypes, PlaceInv, Main, CollectorTypes', NEW t \in Threads, NEW c \in Calls,
         c.op # "clear", Begin(t, c)
  PROVE  Main'
<1>1. /\ ~Running(t) /\ Running(t)' /\ call'[t] = c
      /\ {"subjects", "predicates", "objects", "edges", "count"} \subseteq Left(t)'
         \/ c.op = "add_type"
      /\ \A u \in Threads \ {t} :
           /\ Left(u)' = Left(u) /\ Running(u)' = Running(u) /\ call'[u] = call[u]
           /\ before'[u] = before[u] /\ building'[u] = building[u]
      /\ building'[t] = EmptyStatistics
      /\ before'[t] = IF c.op = "build" THEN ended ELSE None0
      /\ UNCHANGED collector
  BY BeginDoes
<1>2. begun' = IF c.op = "add_triple" THEN [begun EXCEPT ![c.triple] = @ + 1] ELSE begun
  BY DEF Begin
<1>3. CASE torn'
  BY <1>3 DEF Main, ClearInv, EdgeInv, NodeInv, BuildInv, Calm
<1>4. CASE ~torn'
  <2>1. ~torn /\ Calm /\ Calm' /\ ClearInv' /\ ended' = ended
    BY <1>4, CalmBegin
  <2>2. ClearInv /\ EdgeInv /\ NodeInv /\ BuildInv
    BY DEF Main
  <2>3. /\ collector.edges \in Bags /\ ended \in Bags /\ begun \in Bags /\ begun' \in Bags
        /\ \A y \in Triples : begun[y] \in Nat /\ ended[y] \in Nat
        /\ \A y \in Triples : IsFiniteSet(Adding(y)) /\ Cardinality(Adding(y)) \in Nat
    BY <2>1, <2>2, CalmBags DEF Bags, CollectorTypes
  <2>4. /\ \A u \in Threads \ {t} : \A y : Adds(u, y)' <=> Adds(u, y)
        /\ \A y : ~Adds(t, y)
        /\ \A y : Adds(t, y)' <=> c.op = "add_triple" /\ c.triple = y
    BY <1>1 DEF Adds
  <2>5. \A y : Drawn(y)' = Drawn(y)
    <3>1. \A y : Adds(t, y)' => "edges" \in Left(t)'
      BY <1>1, <2>4
    <3> QED BY <1>1, <2>4, <3>1 DEF Drawn
  <2>6. ASSUME NEW y \in Triples
        PROVE  /\ begun'[y] = ended[y] + Cardinality(Adding(y)')
               /\ begun[y] <= begun'[y]
    <3>1. begun[y] = ended[y] + Cardinality(Adding(y))
      BY <2>1, <2>2 DEF EdgeInv
    <3>2. Adding(y)' \ {t} = Adding(y) \ {t} /\ t \notin Adding(y)
          /\ (t \in Adding(y)' <=> c.op = "add_triple" /\ c.triple = y)
      BY <2>4 DEF Adding
    <3>3. CASE c.op = "add_triple" /\ c.triple = y
      <4>1. Cardinality(Adding(y)') = Cardinality(Adding(y)) + 1
        BY <2>3, <3>2, <3>3, OneMore
      <4>2. begun'[y] = begun[y] + 1
        BY <1>2, <2>3, <3>3 DEF Bags
      <4> QED BY <2>3, <3>1, <4>1, <4>2
    <3>4. CASE ~(c.op = "add_triple" /\ c.triple = y)
      <4>1. Adding(y)' = Adding(y)
        BY <3>2, <3>4
      <4>2. begun'[y] = begun[y]
        BY <1>2, <2>3, <3>4 DEF Bags
      <4> QED BY <2>3, <3>1, <4>1, <4>2
    <3> QED BY <3>3, <3>4
  <2>7. EdgeInv'
    BY <1>1, <2>1, <2>2, <2>5, <2>6 DEF EdgeInv
  <2>8. /\ Subjects(Present(begun)) \subseteq Subjects(Present(begun'))
        /\ Predicates(Present(begun)) \subseteq Predicates(Present(begun'))
        /\ Objects(Present(begun)) \subseteq Objects(Present(begun'))
    BY <2>3, <2>6, PresentParts
  <2>9. NodeInv'
    <3>1. \A u \in Threads, y \in Triples : Adds(u, y)' =>
            \/ Adds(u, y) /\ Left(u)' = Left(u)
            \/ "subjects" \in Left(u)' /\ "predicates" \in Left(u)' /\ "objects" \in Left(u)'
      BY <1>1, <2>4
    <3>2. /\ collector.subjects \subseteq Subjects(Present(begun'))
          /\ collector.predicates \subseteq Predicates(Present(begun'))
          /\ collector.objects \subseteq Objects(Present(begun'))
      BY <2>1, <2>2, <2>8 DEF NodeInv
    <3>3. /\ \A y \in Present(collector.edges) :
               /\ y.s \in collector.subjects /\ y.p \in collector.predicates
               /\ y.o \in collector.objects
          /\ \A u \in Threads, y \in Triples : Adds(u, y) =>
               /\ "subjects" \notin Left(u) => y.s \in collector.subjects
               /\ "predicates" \notin Left(u) => y.p \in collector.predicates
               /\ "objects" \notin Left(u) => y.o \in collector.objects
      BY <2>1, <2>2 DEF NodeInv
    <3>4. \A u \in Threads, y \in Triples : Adds(u, y)' =>
            /\ "subjects" \notin Left(u)' => y.s \in collector.subjects
            /\ "predicates" \notin Left(u)' => y.p \in collector.predicates
            /\ "objects" \notin Left(u)' => y.o \in collector.objects
      BY <3>1, <3>3
    <3> QED BY <1>1, <3>2, <3>3, <3>4 DEF NodeInv
  <2>10. BuildInv'
    <3> SUFFICES ASSUME NEW u \in Threads, Builds(u)'
                 PROVE  ReadSoFar(Left(u)', before'[u], building'[u], ended', begun')
      BY DEF BuildInv
    <3>1. CASE u # t
      <4>1. /\ Builds(u) /\ Left(u)' = Left(u) /\ before'[u] = before[u]
            /\ building'[u] = building[u]
        BY <1>1, <3>1 DEF Builds
      <4>2. ReadSoFar(Left(u), before[u], building[u], ended, begun)
        BY <2>1, <2>2, <4>1 DEF BuildInv
      <4>3. \A y \in Triples : ended[y] <= ended[y] /\ begun[y] <= begun'[y]
        BY <2>3, <2>6
      <4>4. ReadSoFar(Left(u), before[u], building[u], ended, begun')
        BY <2>3, <4>2, <4>3, ReadLater
      <4> QED BY <2>1, <4>1, <4>4
    <3>2. CASE u = t
      <4>1. c.op = "build"
        BY <1>1, <3>2 DEF Builds
      <4>2. /\ {"subjects", "predicates", "objects", "edges", "count"} \subseteq Left(t)'
            /\ before'[t] = ended /\ building'[t].triple_count = 0
        BY <1>1, <4>1, NothingReadYet DEF Parts
      <4>3. \A y \in Triples : ended[y] <= ended[y]
        BY <2>3
      <4> QED BY <2>1, <2>3, <3>2, <4>2, <4>3 DEF ReadSoFar
    <3> QED BY <3>1, <3>2
  <2> QED BY <2>1, <2>7, <2>9, <2>10 DEF Main
<1> QED BY <1>3, <1>4
-----------------------------------------------------------------------------
(* What was built *)

LEMMA FitsWhenBuilt ==
  ASSUME CollectorTypes, PlaceInv, Main, NEW t \in Threads, Section(t, "build", "types"),
         NEW b, b = building[t],
         Parts(stats', b.triple_count, b.distinct_subjects, b.distinct_predicates,
               b.distinct_objects, b.predicate_frequency),
         window' = [low |-> before[t], high |-> begun, sound |-> ~torn]
  PROVE  BuiltStatisticsFit'
<1> SUFFICES ASSUME window'.sound PROVE NumbersAreBetween' /\ CountedTriplesAreSeen'
  BY DEF BuiltStatisticsFit
<1> DEFINE low == before[t]
           n == b.triple_count
           f == b.predicate_frequency
<1>1. window'.low = low /\ window'.high = begun /\ ~torn
  OBVIOUS
<1>2. Calm /\ EdgeInv
  BY <1>1, CalmSection DEF Main
<1>3. ReadSoFar(Left(t), low, b, ended, begun) /\ Left(t) = {"types"}
  BY <1>1, SectionOrder DEF Main, BuildInv, Builds, Section
<1>4. /\ low \in Bags /\ n \in Nat
      /\ CountRead(low, n, ended)
      /\ SetRead(Subjects(Present(low)), b.distinct_subjects, Subjects(Present(begun)), n)
      /\ SetRead(Predicates(Present(low)), b.distinct_predicates, Predicates(Present(begun)), n)
      /\ SetRead(Objects(Present(low)), b.distinct_objects, Objects(Present(begun)), n)
      /\ EdgesRead(low, f, n, begun)
  BY <1>3 DEF ReadSoFar
<1>5. /\ stats'.triple_count = n /\ stats'.distinct_subjects = b.distinct_subjects
      /\ stats'.distinct_predicates = b.distinct_predicates
      /\ stats'.distinct_objects = b.distinct_objects /\ stats'.predicate_frequency = f
  BY DEF Parts
<1> HIDE DEF low, n, f
<1>6. SumOf(low, Triples) <= n /\ n <= SumOf(begun, Triples)
  <2>1. /\ ended \in Bags /\ begun \in Bags /\ collector.edges \in Bags
        /\ \A x \in Triples : ended[x] <= collector.edges[x] /\ collector.edges[x] <= begun[x]
    BY <1>2, CalmBags
  <2>2. \A x \in Triples : ended[x] <= begun[x]
    <3> DEFINE e == collector.edges
    <3>1. \A x \in Triples : ended[x] \in Nat /\ e[x] \in Nat /\ begun[x] \in Nat
      BY <2>1 DEF Bags
    <3>2. \A x \in Triples : ended[x] <= e[x] /\ e[x] <= begun[x]
      BY <2>1
    <3> HIDE DEF e
    <3> QED BY <3>1, <3>2
  <2>3. /\ SumOf(ended, Triples) <= SumOf(begun, Triples)
        /\ SumOf(ended, Triples) \in Nat /\ SumOf(begun, Triples) \in Nat
    BY <2>1, <2>2, PresentParts
  <2> QED BY <1>4, <2>3 DEF CountRead
<1>7. \A p \in Predicates(Triples) :
         /\ SumOf(low, Of(p, Triples)) <= FrequencyOf(p)'
         /\ FrequencyOf(p)' <= SumOf(begun, Of(p, Triples))
  BY <1>4, <1>5 DEF EdgesRead, FrequencyOf
<1>8. NumbersAreBetween'
  <2>1. /\ Cardinality(Subjects(Present(low))) <= b.distinct_subjects
        /\ b.distinct_subjects <= Cardinality(Subjects(Present(begun)))
        /\ Cardinality(Predicates(Present(low))) <= b.distinct_predicates
        /\ b.distinct_predicates <= Cardinality(Predicates(Present(begun)))
        /\ Cardinality(Objects(Present(low))) <= b.distinct_objects
        /\ b.distinct_objects <= Cardinality(Objects(Present(begun)))
    BY <1>4 DEF SetRead
  <2> QED BY <1>1, <1>5, <1>6, <1>7, <2>1 DEF NumbersAreBetween, Within
<1>9. CountedTriplesAreSeen'
  <2>1. n <= Total(f)
    BY <1>4 DEF EdgesRead
  <2>2. stats'.triple_count <= Total(stats'.predicate_frequency)
    BY <1>5, <2>1
  <2>3. n > 0 => 0 \notin {b.distinct_subjects, b.distinct_predicates, b.distinct_objects}
    BY <1>4 DEF SetRead
  <2>4. stats'.triple_count > 0 =>
          0 \notin {stats'.distinct_subjects, stats'.distinct_predicates,
                   stats'.distinct_objects}
    BY <1>5, <2>3
  <2> QED BY <2>2, <2>4 DEF CountedTriplesAreSeen
<1> QED BY <1>8, <1>9

LEMMA FitsStay ==
  ASSUME BuiltStatisticsFit, UNCHANGED <<stats, window>>
  PROVE  BuiltStatisticsFit'
<1>1. stats' = stats /\ window' = window
  OBVIOUS
<1>2. CountedTriplesAreSeen' <=> CountedTriplesAreSeen
  BY <1>1 DEF CountedTriplesAreSeen
<1>3. \A p : FrequencyOf(p)' = FrequencyOf(p)
  BY <1>1 DEF FrequencyOf
<1>4. NumbersAreBetween => NumbersAreBetween'
  BY <1>1, <1>3 DEF NumbersAreBetween, Within
<1> QED BY <1>1, <1>2, <1>4 DEF BuiltStatisticsFit

IInv == CollectorTypes /\ PlaceInv /\ Main /\ BuiltStatisticsFit

LEMMA CollectorStarts ==
  ASSUME InitCollector
  PROVE  IInv
<1>1. /\ collector = EmptyCollector
      /\ call = [t \in Threads |-> None] /\ todo = [t \in Threads |-> << >>]
      /\ building = [t \in Threads |-> EmptyStatistics]
      /\ stats = EmptyStatistics
      /\ begun = None0 /\ ended = None0
      /\ before = [t \in Threads |-> None0]
      /\ window = [low |-> None0, high |-> None0, sound |-> TRUE] /\ torn = FALSE
  BY DEF InitCollector
<1>2. /\ None0 \in Bags /\ \A x \in Triples : None0[x] = 0
      /\ Present(None0) = {}
  BY DEF None0, Bags, Present
<1>3. \A t \in Threads : todo[t] = << >> /\ ~Running(t)
  BY <1>1 DEF Running
<1>4. Fields(collector, {}, {}, {}, None0, {}, 0)
  BY <1>1 DEF Fields, EmptyCollector
<1>5. /\ collector.subjects = {} /\ collector.predicates = {} /\ collector.objects = {}
      /\ collector.edges = None0 /\ collector.count = 0
  BY <1>4, FieldsRead
<1>6. CollectorTypes
  <2>1. collector \in [subjects : SUBSET Subjects(Triples),
                       predicates : SUBSET Predicates(Triples),
                       objects : SUBSET Objects(Triples), edges : Bags,
                       types : SUBSET (TypeIds \X Subjects(Triples)), count : Nat]
    BY <1>2, <1>4, FieldsRead
  <2>2. \A t \in Threads : Like(building[t])
    BY <1>1, NothingReadYet DEF Parts
  <2> QED BY <1>1, <1>2, <1>3, <2>1, <2>2 DEF CollectorTypes
<1>7. PlaceInv
  BY <1>3 DEF PlaceInv
<1>8. Main
  <2>1. ClearInv /\ BuildInv
    BY <1>3 DEF ClearInv, BuildInv, Clears, Builds
  <2>2. \A x : Adding(x) = {} /\ Drawn(x) = {}
    BY <1>3 DEF Adding, Drawn, Adds
  <2>3. SumOf(None0, Triples) = 0 /\ Cardinality({}) = 0
    BY <1>2, TriplesAssumption, SumOfZeros, FS_EmptySet
  <2>4. EdgeInv
    <3>1. \A x \in Triples : /\ begun[x] = ended[x] + Cardinality(Adding(x))
                             /\ collector.edges[x] = ended[x] + Cardinality(Drawn(x))
      <4> TAKE x \in Triples
      <4>1. begun[x] = 0 /\ ended[x] = 0 /\ collector.edges[x] = 0
        BY <1>1, <1>2, <1>5
      <4>2. Cardinality(Adding(x)) = 0 /\ Cardinality(Drawn(x)) = 0
        BY <2>2, <2>3
      <4> QED BY <4>1, <4>2
    <3>2. collector.count = SumOf(ended, Triples)
      BY <1>1, <1>5, <2>3
    <3> QED BY <3>1, <3>2 DEF EdgeInv
  <2>5. NodeInv
    BY <1>2, <1>3, <1>5 DEF NodeInv, Adds
  <2> QED BY <2>1, <2>4, <2>5 DEF Main
<1>9. BuiltStatisticsFit
  <2>1. /\ window.low = None0 /\ window.high = None0
        /\ stats.triple_count = 0 /\ stats.distinct_subjects = 0
        /\ stats.distinct_predicates = 0 /\ stats.distinct_objects = 0
        /\ stats.predicate_frequency = << >>
    BY <1>1 DEF EmptyStatistics
  <2>2. /\ Subjects({}) = {} /\ Predicates({}) = {} /\ Objects({}) = {} /\ Cardinality({}) = 0
    BY FS_EmptySet DEF Subjects, Predicates, Objects
  <2>3. SumOf(None0, Triples) = 0
    BY <1>2, TriplesAssumption, SumOfZeros
  <2>4. ASSUME NEW p \in Predicates(Triples)
        PROVE  SumOf(None0, Of(p, Triples)) = 0 /\ FrequencyOf(p) = 0
    <3>1. Of(p, Triples) \subseteq Triples
      BY DEF Of
    <3>2. IsFiniteSet(Of(p, Triples))
      BY <3>1, TriplesAssumption, FS_Subset
    <3>3. SumOf(None0, Of(p, Triples)) = 0
      BY <1>2, <3>1, <3>2, SumOfZeros
    <3>4. FrequencyOf(p) = 0
      BY <2>1 DEF FrequencyOf
    <3> QED BY <3>3, <3>4
  <2>5. NumbersAreBetween
    <3>1. /\ Cardinality(Subjects(Present(None0))) = 0
          /\ Cardinality(Predicates(Present(None0))) = 0
          /\ Cardinality(Objects(Present(None0))) = 0
      BY <1>2, <2>2
    <3> QED BY <2>1, <2>3, <2>4, <3>1 DEF NumbersAreBetween, Within
  <2>6. Total(<< >>) = 0
    <3>1. Total(<< >>) = SumOf(<< >>, DOMAIN << >>)
      BY DEF Total, FoldFunction, SumOf
    <3>2. DOMAIN << >> = {}
      OBVIOUS
    <3>3. SumOf(<< >>, {}) = 0
      BY FS_EmptySet, SumRecursion
    <3> QED BY <3>1, <3>2, <3>3, Zenon
  <2>7. CountedTriplesAreSeen
    <3>1. Total(stats.predicate_frequency) = 0
      BY <2>1, <2>6, Zenon
    <3> QED BY <2>1, <3>1 DEF CountedTriplesAreSeen
  <2> QED BY <2>5, <2>7 DEF BuiltStatisticsFit
<1> QED BY <1>6, <1>7, <1>8, <1>9 DEF IInv

LEMMA CollectorGoesOn ==
  ASSUME IInv, CollectorNext
  PROVE  IInv'
<1>0. CollectorTypes /\ PlaceInv /\ Main /\ BuiltStatisticsFit
  BY DEF IInv
<1>1. ASSUME NEW t \in Threads, CollectorStep(t)
      PROVE  IInv'
  <2>1. CollectorTypes' /\ PlaceInv'
    BY <1>0, <1>1, StepTypes
  <2>2. CASE AddTriple(t)
    BY <1>0, <2>1, <2>2, AddTripleKeeps, AddTripleDoes, FitsStay DEF IInv
  <2>3. CASE AddType(t)
    BY <1>0, <2>1, <2>3, AddTypeKeeps, AddTypeDoes, FitsStay DEF IInv
  <2>4. CASE Clear(t)
    BY <1>0, <2>1, <2>4, ClearKeeps, ClearDoes, FitsStay DEF IInv
  <2>5. CASE Build(t)
    <3>1. Main'
      BY <1>0, <2>1, <2>5, BuildKeeps
    <3>2. BuiltStatisticsFit'
      BY <1>0, <2>5, BuildDoes, FitsWhenBuilt, FitsStay
    <3> QED BY <2>1, <3>1, <3>2 DEF IInv
  <2> QED BY <1>1, <2>2, <2>3, <2>4, <2>5 DEF CollectorStep
<1>2. ASSUME NEW t \in Threads, NEW c \in Calls, Begin(t, c)
      PROVE  IInv'
  <2>1. CollectorTypes' /\ PlaceInv' /\ UNCHANGED <<stats, window>>
    BY <1>0, <1>2, BeginTypes, BeginDoes
  <2>2. Main'
    BY <1>0, <1>2, <2>1, BeginClearKeeps, BeginOtherKeeps
  <2> QED BY <1>0, <2>1, <2>2, FitsStay DEF IInv
<1> QED BY <1>1, <1>2 DEF CollectorNext

LEMMA CollectorStands ==
  ASSUME IInv, UNCHANGED <<collecting, counting>>
  PROVE  IInv'
<1>1. UNCHANGED <<collector, call, todo, building, stats, begun, ended, before, window, torn>>
  BY DEF collecting, counting
<1>2. CollectorTypes' /\ PlaceInv'
  BY <1>1 DEF IInv, CollectorTypes, PlaceInv, Running
<1>3. ClearInv'
  BY <1>1 DEF IInv, Main, ClearInv, Running, Clears, Left
<1>4. EdgeInv'
  BY <1>1 DEF IInv, Main, EdgeInv, Calm, Running, Clears, Adds, Adding, Drawn, Left
<1>5. NodeInv'
  BY <1>1 DEF IInv, Main, NodeInv, Calm, Running, Clears, Adds, Left
<1>6. BuildInv'
  BY <1>1 DEF IInv, Main, BuildInv, Running, Builds, Left
<1>7. BuiltStatisticsFit'
  BY <1>1, FitsStay DEF IInv
<1> QED BY <1>2, <1>3, <1>4, <1>5, <1>6, <1>7 DEF IInv, Main

LEMMA InvStarts == Init => IInv
BY CollectorStarts DEF Init

LEMMA InvStep == IInv /\ [Next]_vars => IInv'
<1> SUFFICES ASSUME IInv, [Next]_vars PROVE IInv'
  OBVIOUS
<1>1. CASE CollectorNext
  BY <1>1, CollectorGoesOn
<1>2. CASE UNCHANGED <<collecting, counting>>
  BY <1>2, CollectorStands
<1>3. CollectorNext \/ UNCHANGED <<collecting, counting>>
  BY DEF Next, Optimize, Forget, vars
<1> QED BY <1>1, <1>2, <1>3

LEMMA InvAlways == Spec => []IInv
BY InvStarts, InvStep, PTL DEF Spec

(* StatisticsCollector::build: statistics built beside threads that add    *)
(* triples describe the data as it is at some time of the build, each      *)
(* number for itself, and no counted triple is missing from the            *)
(* frequencies, for any finite numbers of threads and triples, unless a    *)
(* clear overlapped one of these calls.                                    *)
THEOREM StatisticsFit == Spec => []BuiltStatisticsFit
<1>1. IInv => BuiltStatisticsFit
  BY DEF IInv
<1> QED BY <1>1, InvAlways, PTL
-----------------------------------------------------------------------------
(* Fractions as weights *)

LEMMA LessTimes ==
  ASSUME NEW a \in Nat, NEW b \in Nat, NEW c \in Nat
  PROVE  /\ a <= b => a * c <= b * c
         /\ c # 0 /\ a < b => a * c < b * c
         /\ c # 0 /\ a * c <= b * c => a <= b
         /\ c # 0 /\ a * c < b * c => a < b
OBVIOUS

(* Comparing fractions by cross products is transitive.                    *)
LEMMA CrossProducts ==
  ASSUME NEW a \in Nat, NEW b \in Nat \ {0}, NEW c \in Nat, NEW d \in Nat \ {0},
         NEW e \in Nat, NEW f \in Nat \ {0},
         a * d <= c * b, c * f <= e * d
  PROVE  /\ a * f <= e * b
         /\ (a * d < c * b \/ c * f < e * d) => a * f < e * b
<1>1. /\ a * d \in Nat /\ c * b \in Nat /\ c * f \in Nat /\ e * d \in Nat /\ a * f \in Nat
      /\ e * b \in Nat
  OBVIOUS
<1>2. (a * d) * f <= (c * b) * f /\ (c * f) * b <= (e * d) * b
  BY <1>1, LessTimes
<1>3. /\ a * d < c * b => (a * d) * f < (c * b) * f
      /\ c * f < e * d => (c * f) * b < (e * d) * b
  BY <1>1, LessTimes
<1>4. (a * d) * f = (a * f) * d /\ (c * b) * f = (c * f) * b /\ (e * d) * b = (e * b) * d
  OBVIOUS
<1>5. PICK x, y, z : x = (a * f) * d /\ y = (c * f) * b /\ z = (e * b) * d
  OBVIOUS
<1>6. /\ x \in Nat /\ y \in Nat /\ z \in Nat /\ x <= y /\ y <= z
      /\ (a * d < c * b \/ c * f < e * d) => x < y \/ y < z
  BY <1>1, <1>2, <1>3, <1>4, <1>5
<1>7. x <= z /\ ((a * d < c * b \/ c * f < e * d) => x < z)
  BY <1>6
<1>8. /\ (a * f) * d <= (e * b) * d
      /\ (a * d < c * b \/ c * f < e * d) => (a * f) * d < (e * b) * d
  BY <1>5, <1>7
<1> QED BY <1>1, <1>8, LessTimes

Weights(weight) == \A i \in DOMAIN weight : IsFraction(weight[i])

LEMMA EarlierTransitive ==
  ASSUME NEW w, Weights(w), DOMAIN w \subseteq Nat,
         NEW i \in DOMAIN w, NEW j \in DOMAIN w, NEW k \in DOMAIN w,
         Earlier(w, i, j), Earlier(w, j, k)
  PROVE  Earlier(w, i, k)
<1>1. PICK a, b, c, d, e, f : /\ a = w[i][1] /\ b = w[i][2] /\ c = w[j][1] /\ d = w[j][2]
                              /\ e = w[k][1] /\ f = w[k][2]
  OBVIOUS
<1>2. /\ a \in Nat /\ c \in Nat /\ e \in Nat
      /\ b \in Nat \ {0} /\ d \in Nat \ {0} /\ f \in Nat \ {0}
  BY <1>1 DEF Weights, IsFraction
<1>3. /\ a * d \in Nat /\ c * b \in Nat /\ c * f \in Nat /\ e * d \in Nat /\ a * f \in Nat
      /\ e * b \in Nat
  BY <1>2
<1>4. /\ Earlier(w, i, j) <=> a * d < c * b \/ (~(c * b < a * d) /\ i < j)
      /\ Earlier(w, j, k) <=> c * f < e * d \/ (~(e * d < c * f) /\ j < k)
      /\ Earlier(w, i, k) <=> a * f < e * b \/ (~(e * b < a * f) /\ i < k)
  BY <1>1 DEF Earlier, Below
<1>5. a * d <= c * b /\ c * f <= e * d
  <2>1. PICK p, q, r, s : p = a * d /\ q = c * b /\ r = c * f /\ s = e * d
    OBVIOUS
  <2>2. p \in Nat /\ q \in Nat /\ r \in Nat /\ s \in Nat
    BY <1>3, <2>1
  <2>3. (p < q \/ ~(q < p)) /\ (r < s \/ ~(s < r))
    BY <1>4, <2>1
  <2>4. p <= q /\ r <= s
    BY <2>2, <2>3
  <2> QED BY <2>1, <2>4
<1>6. /\ a * f <= e * b
      /\ (a * d < c * b \/ c * f < e * d) => a * f < e * b
  BY <1>2, <1>5, CrossProducts
<1>7. CASE a * d < c * b \/ c * f < e * d
  BY <1>4, <1>6, <1>7
<1>8. CASE ~(a * d < c * b \/ c * f < e * d)
  <2>1. i < j /\ j < k /\ i \in Nat /\ j \in Nat /\ k \in Nat
    BY <1>4, <1>8
  <2>2. i < k
    BY <2>1
  <2>3. ~(e * b < a * f)
    <3>1. PICK p, q : p = a * f /\ q = e * b
      OBVIOUS
    <3>2. p \in Nat /\ q \in Nat /\ p <= q
      BY <1>3, <1>6, <3>1
    <3>3. ~(q < p)
      BY <3>2
    <3> QED BY <3>1, <3>3
  <2> QED BY <1>4, <2>2, <2>3
<1> QED BY <1>7, <1>8

LEMMA EarlierTotal ==
  ASSUME NEW w, Weights(w), DOMAIN w \subseteq Nat, NEW i \in DOMAIN w, NEW j \in DOMAIN w, i # j
  PROVE  Earlier(w, i, j) \/ Earlier(w, j, i)
<1>1. PICK p, q : p = w[i][1] * w[j][2] /\ q = w[j][1] * w[i][2]
  OBVIOUS
<1>2. p \in Nat /\ q \in Nat
  BY <1>1 DEF Weights, IsFraction
<1>3. /\ Earlier(w, i, j) <=> p < q \/ (~(q < p) /\ i < j)
      /\ Earlier(w, j, i) <=> q < p \/ (~(p < q) /\ j < i)
  BY <1>1 DEF Earlier, Below
<1>4. i \in Nat /\ j \in Nat
  OBVIOUS
<1> QED BY <1>2, <1>3, <1>4

(* Among finitely many positions one comes before all others.              *)
LEMMA FirstExists ==
  ASSUME NEW w, Weights(w), DOMAIN w \subseteq Nat, IsFiniteSet(DOMAIN w), DOMAIN w # {}
  PROVE  /\ FirstBy(w) \in DOMAIN w
         /\ \A j \in DOMAIN w \ {FirstBy(w)} : Earlier(w, FirstBy(w), j)
<1> DEFINE S == DOMAIN w
           leads(i, T) == \A j \in T \ {i} : Earlier(w, i, j)
           good == {T \in SUBSET S : T # {} => \E i \in T : leads(i, T)}
<1>1. ASSUME NEW T \in SUBSET S, \A s \in SUBSET T : s # T => s \in good
      PROVE  T \in good
  <2>1. SUFFICES ASSUME T # {} PROVE \E i \in T : leads(i, T)
    OBVIOUS
  <2>2. PICK x \in T : TRUE
    BY <2>1
  <2>3. T \ {x} \in good
    BY <1>1
  <2>4. CASE T \ {x} = {}
    BY <2>2, <2>4
  <2>5. CASE T \ {x} # {}
    <3>1. PICK i \in T \ {x} : leads(i, T \ {x})
      BY <2>3, <2>5
    <3>2. Earlier(w, i, x) \/ Earlier(w, x, i)
      BY <3>1, EarlierTotal
    <3>3. CASE Earlier(w, i, x)
      BY <3>1, <3>3
    <3>4. CASE Earlier(w, x, i)
      <4>1. ASSUME NEW j \in T \ {x} PROVE Earlier(w, x, j)
        <5>1. j = i \/ Earlier(w, i, j)
          BY <3>1
        <5> QED BY <3>1, <3>4, <5>1, EarlierTransitive
      <4> QED BY <4>1
    <3> QED BY <3>2, <3>3, <3>4
  <2> QED BY <2>4, <2>5
<1> HIDE DEF good
<1>2. S \in good
  BY <1>1, SubsetInduction
<1>3. \E i \in S : leads(i, S)
  BY <1>2 DEF good
<1> QED BY <1>3 DEF FirstBy
-----------------------------------------------------------------------------
(* Positions taken out one by one *)

TakenBy(order, n) == {order[m] : m \in 1 .. n - 1}

(* order takes, k times, what choice says of the positions that are left.  *)
TakesOut(order, choice, N, k) ==
    /\ order \in [1 .. k -> 1 .. N]
    /\ \A n \in 1 .. k : order[n] = choice[(1 .. N) \ TakenBy(order, n)]

LEMMA SomeAreLeft ==
  ASSUME NEW N \in Nat, NEW k \in 1 .. N, NEW order, \A m \in 1 .. k - 1 : order[m] \in 1 .. N
  PROVE  (1 .. N) \ TakenBy(order, k) # {}
<1> DEFINE f == [m \in 1 .. k - 1 |-> order[m]]
           T == TakenBy(order, k)
<1>1. k \in Nat /\ k - 1 \in Nat /\ k - 1 < N
  OBVIOUS
<1>2. f \in Surjection(1 .. k - 1, T)
  BY DEF Surjection, TakenBy
<1>3. IsFiniteSet(1 .. k - 1) /\ Cardinality(1 .. k - 1) = k - 1
  BY <1>1, FS_Interval
<1>4. IsFiniteSet(1 .. N) /\ Cardinality(1 .. N) = N
  BY FS_Interval
<1> HIDE DEF f, T
<1>5. IsFiniteSet(T) /\ Cardinality(T) <= k - 1
  BY <1>2, <1>3, FS_Surjection
<1>6. SUFFICES ASSUME 1 .. N \subseteq T PROVE FALSE
  BY DEF T
<1>7. Cardinality(1 .. N) <= Cardinality(T) /\ Cardinality(T) \in Nat
  BY <1>5, <1>6, FS_Subset, FS_CardinalityType
<1> QED BY <1>1, <1>4, <1>5, <1>7

LEMMA TakingOut ==
  ASSUME NEW N \in Nat, NEW choice, \A S \in SUBSET (1 .. N) : S # {} => choice[S] \in S
  PROVE  \E order : TakesOut(order, choice, N, N)
<1> DEFINE good == {T \in SUBSET (1 .. N) :
                      \A k \in 0 .. N : T = 1 .. k => \E f : TakesOut(f, choice, N, k)}
<1>1. ASSUME NEW T \in SUBSET (1 .. N), \A s \in SUBSET T : s # T => s \in good
      PROVE  T \in good
  <2>1. SUFFICES ASSUME NEW k \in 0 .. N, T = 1 .. k PROVE \E f : TakesOut(f, choice, N, k)
    OBVIOUS
  <2>2. CASE k = 0
    <3>1. 1 .. k = {}
      BY <2>2
    <3>2. TakesOut([n \in 1 .. k |-> n], choice, N, k)
      BY <3>1 DEF TakesOut
    <3> QED BY <3>2
  <2>3. CASE k # 0
    <3>1. /\ k \in 1 .. N /\ k - 1 \in 0 .. N
          /\ 1 .. k - 1 \in SUBSET T /\ 1 .. k - 1 # T
      BY <2>1, <2>3
    <3>2. PICK f : TakesOut(f, choice, N, k - 1)
      BY <1>1, <3>1
    <3> DEFINE last == choice[(1 .. N) \ TakenBy(f, k)]
               g == [n \in 1 .. k |-> IF n = k THEN last ELSE f[n]]
    <3>3. \A m \in 1 .. k - 1 : f[m] \in 1 .. N
      BY <3>2 DEF TakesOut
    <3>4. last \in 1 .. N
      <4>1. (1 .. N) \ TakenBy(f, k) # {}
        BY <3>1, <3>3, SomeAreLeft
      <4> QED BY <4>1
    <3>5. \A n \in 1 .. k : n # k => n \in 1 .. k - 1
      BY <3>1
    <3>6. g \in [1 .. k -> 1 .. N]
      BY <3>3, <3>4, <3>5
    <3>7. ASSUME NEW n \in 1 .. k PROVE TakenBy(g, n) = TakenBy(f, n)
      <4>1. \A m \in 1 .. n - 1 : m \in 1 .. k /\ m # k
        BY <3>1
      <4>2. \A m \in 1 .. n - 1 : g[m] = f[m]
        BY <4>1
      <4> HIDE DEF g
      <4> QED BY <4>2 DEF TakenBy
    <3>8. ASSUME NEW n \in 1 .. k PROVE g[n] = choice[(1 .. N) \ TakenBy(g, n)]
      <4>1. CASE n = k
        BY <3>7, <4>1
      <4>2. CASE n # k
        <5>1. g[n] = f[n] /\ n \in 1 .. k - 1
          BY <3>5, <4>2
        <5>2. f[n] = choice[(1 .. N) \ TakenBy(f, n)]
          BY <3>2, <5>1 DEF TakesOut
        <5> HIDE DEF g
        <5> QED BY <3>7, <5>1, <5>2
      <4> QED BY <4>1, <4>2
    <3> HIDE DEF g
    <3>9. TakesOut(g, choice, N, k)
      BY <3>6, <3>8 DEF TakesOut
    <3> QED BY <3>9
  <2> QED BY <2>2, <2>3
<1>2. IsFiniteSet(1 .. N)
  BY FS_Interval
<1> HIDE DEF good
<1>3. 1 .. N \in good
  <2>1. PICK S : S = 1 .. N
    OBVIOUS
  <2>2. \A T \in SUBSET S : (\A s \in SUBSET T : s # T => s \in good) => T \in good
    BY <1>1, <2>1
  <2>3. IsFiniteSet(S)
    BY <1>2, <2>1
  <2>4. \A T \in SUBSET S : T \in good
    BY <2>2, <2>3, SubsetInduction
  <2> QED BY <2>1, <2>4
<1>4. N \in 0 .. N
  OBVIOUS
<1> QED BY <1>3, <1>4 DEF good

(* Nothing is taken twice, and nothing left.                               *)
LEMMA TakesAll ==
  ASSUME NEW N \in Nat, NEW order \in [1 .. N -> 1 .. N],
         \A n \in 1 .. N : order[n] \notin TakenBy(order, n)
  PROVE  /\ IsInjective(order)
         /\ \A i \in 1 .. N : \E n \in 1 .. N : order[n] = i
<1>1. \A m, n \in 1 .. N : m < n => order[m] # order[n]
  <2>1. SUFFICES ASSUME NEW m \in 1 .. N, NEW n \in 1 .. N, m < n PROVE order[m] # order[n]
    OBVIOUS
  <2>2. m \in 1 .. n - 1
    BY <2>1
  <2> QED BY <2>2 DEF TakenBy
<1>2. \A m, n \in 1 .. N : m # n => m < n \/ n < m
  OBVIOUS
<1>3. IsInjective(order)
  BY <1>1, <1>2 DEF IsInjective
<1>4. order \in Injection(1 .. N, 1 .. N)
  BY <1>3 DEF Injection
<1>5. IsFiniteSet(1 .. N)
  BY FS_Interval
<1>6. order \in Surjection(1 .. N, 1 .. N)
  BY <1>4, <1>5, FS_Injection
<1> QED BY <1>3, <1>6 DEF Surjection
-----------------------------------------------------------------------------
(* The two orders *)

LEMMA TimesFractions ==
  ASSUME NEW x, NEW y, IsFraction(x), IsFraction(y)
  PROVE  IsFraction(Times(x, y))
<1>1. PICK a, b, c, d : a = x[1] /\ b = x[2] /\ c = y[1] /\ d = y[2]
  OBVIOUS
<1>2. a \in Nat /\ b \in Nat \ {0} /\ c \in Nat /\ d \in Nat \ {0}
  BY <1>1 DEF IsFraction
<1>3. a * c \in Nat /\ b * d \in Nat \ {0}
  BY <1>2
<1> QED BY <1>1, <1>3 DEF IsFraction, Times

(* Estimates whose numbers are fractions, for n patterns.                  *)
AreEstimates(estimates, n) ==
    /\ n \in Nat /\ DOMAIN estimates = 1 .. n
    /\ \A i \in 1 .. n : /\ IsFraction(estimates[i].selectivity)
                         /\ IsFraction(Cost(estimates[i]))

LEMMA PartOfPositions ==
  ASSUME NEW n \in Nat, NEW left \in SUBSET (1 .. n)
  PROVE  IsFiniteSet(left) /\ left \subseteq Nat
<1>1. PICK S : S = 1 .. n
  OBVIOUS
<1>2. IsFiniteSet(S)
  BY <1>1, FS_Interval
<1>3. IsFiniteSet(left)
  BY <1>1, <1>2, FS_Subset
<1> QED BY <1>3

LEMMA MostSelective ==
  ASSUME NEW e, NEW n, AreEstimates(e, n), NEW left \in SUBSET (1 .. n), left # {},
         NEW best, best = FirstBy(Selectivities(e, left))
  PROVE  /\ best \in left
         /\ \A j \in left \ {best} : Earlier(Selectivities(e, left), best, j)
<1>1. PICK w : w = Selectivities(e, left)
  OBVIOUS
<1>2. DOMAIN w = left /\ \A i \in left : w[i] = e[i].selectivity
  BY <1>1 DEF Selectivities
<1>3. \A i \in left : IsFraction(w[i])
  BY <1>2 DEF AreEstimates
<1>4. IsFiniteSet(left) /\ left \subseteq Nat
  BY PartOfPositions DEF AreEstimates
<1>5. Weights(w)
  BY <1>2, <1>3 DEF Weights
<1> QED BY <1>1, <1>2, <1>4, <1>5, FirstExists

LEMMA BestScore ==
  ASSUME NEW e, NEW n, AreEstimates(e, n), NEW left \in SUBSET (1 .. n), left # {}, NEW bound,
         NEW best, best = FirstBy(Scores(e, left, bound))
  PROVE  /\ best \in left
         /\ \A j \in left \ {best} : Earlier(Scores(e, left, bound), best, j)
<1>1. PICK w : w = Scores(e, left, bound)
  OBVIOUS
<1>2. DOMAIN w = left
      /\ \A i \in left :
           w[i] = Times(Cost(e[i]), IF SharesAny(e[i], bound) THEN <<1, 10>> ELSE <<1, 1>>)
  BY <1>1 DEF Scores
<1>3. IsFraction(<<1, 10>>) /\ IsFraction(<<1, 1>>)
  BY DEF IsFraction
<1>4. ASSUME NEW i \in left PROVE IsFraction(w[i])
  BY <1>2, <1>3, TimesFractions DEF AreEstimates
<1>5. Weights(w)
  BY <1>2, <1>4 DEF Weights
<1>6. IsFiniteSet(left) /\ left \subseteq Nat
  BY PartOfPositions DEF AreEstimates
<1> QED BY <1>1, <1>2, <1>5, <1>6, FirstExists

(* The loop always takes one of the patterns that are left.                *)
IsGreedy(e, n, order) ==
    /\ order \in [1 .. n -> 1 .. n]
    /\ \A i \in 1 .. n :
         order[i] = FindBestNextPattern(e, (1 .. n) \ TakenBy(order, i),
                                        BoundBy(e, TakenBy(order, i)))

LEMMA GreedyExists ==
  ASSUME NEW e, NEW n, AreEstimates(e, n)
  PROVE  IsGreedy(e, n, GreedyOrder(e))
<1> DEFINE choice == [S \in SUBSET (1 .. n) |->
                        FindBestNextPattern(e, S, BoundBy(e, (1 .. n) \ S))]
<1>1. n \in Nat /\ DOMAIN e = 1 .. n
  BY DEF AreEstimates
<1>2. ASSUME NEW S \in SUBSET (1 .. n), S # {} PROVE choice[S] \in S
  BY <1>2, MostSelective, BestScore DEF FindBestNextPattern
<1>3. \A S \in SUBSET (1 .. n) :
         choice[S] = FindBestNextPattern(e, S, BoundBy(e, (1 .. n) \ S))
  OBVIOUS
<1> HIDE DEF choice
<1>4. PICK f : TakesOut(f, choice, n, n)
  BY <1>1, <1>2, TakingOut
<1>5. \A i \in 1 .. n : /\ (1 .. n) \ TakenBy(f, i) \in SUBSET (1 .. n)
                        /\ (1 .. n) \ ((1 .. n) \ TakenBy(f, i)) = TakenBy(f, i)
  <2>1. SUFFICES ASSUME NEW i \in 1 .. n PROVE TakenBy(f, i) \subseteq 1 .. n
    OBVIOUS
  <2>2. \A m \in 1 .. i - 1 : m \in 1 .. n
    BY <1>1
  <2> QED BY <1>4, <2>2 DEF TakesOut, TakenBy
<1>6. IsGreedy(e, n, f)
  BY <1>3, <1>4, <1>5 DEF IsGreedy, TakesOut
<1>7. \A order : order = GreedyOrder(e) <=>
                   order = CHOOSE g \in [1 .. n -> 1 .. n] :
                             \A i \in 1 .. n :
                               g[i] = FindBestNextPattern(e, (1 .. n) \ TakenBy(g, i),
                                                          BoundBy(e, TakenBy(g, i)))
  BY <1>1 DEF GreedyOrder, TakenBy
<1> QED BY <1>6, <1>7 DEF IsGreedy

LEMMA GreedyTakes ==
  ASSUME NEW e, NEW n, AreEstimates(e, n), NEW order, IsGreedy(e, n, order), NEW i \in 1 .. n
  PROVE  LET left == (1 .. n) \ TakenBy(order, i)
             bound == BoundBy(e, TakenBy(order, i))
         IN /\ order[i] \in left
            /\ bound = {} => \A j \in left \ {order[i]} :
                               Earlier(Selectivities(e, left), order[i], j)
            /\ bound # {} => \A j \in left \ {order[i]} :
                               Earlier(Scores(e, left, bound), order[i], j)
<1>1. PICK left, bound : /\ left = (1 .. n) \ TakenBy(order, i)
                         /\ bound = BoundBy(e, TakenBy(order, i))
  OBVIOUS
<1>2. \A m \in 1 .. i - 1 : order[m] \in 1 .. n
  <2>1. \A m \in 1 .. i - 1 : m \in 1 .. n
    BY DEF AreEstimates
  <2> QED BY <2>1 DEF IsGreedy
<1>3. left # {} /\ left \in SUBSET (1 .. n)
  BY <1>1, <1>2, SomeAreLeft DEF AreEstimates
<1>4. order[i] = FindBestNextPattern(e, left, bound)
  BY <1>1 DEF IsGreedy
<1>5. CASE bound = {}
  BY <1>1, <1>3, <1>4, <1>5, MostSelective DEF FindBestNextPattern
<1>6. CASE bound # {}
  BY <1>1, <1>3, <1>4, <1>6, BestScore DEF FindBestNextPattern
<1> QED BY <1>5, <1>6

IsSorted(e, n, order) ==
    /\ order \in [1 .. n -> 1 .. n]
    /\ \A i \in 1 .. n : \A m \in 1 .. i - 1 :
         Earlier(Selectivities(e, 1 .. n), order[m], order[i])

(* Taking out the most selective one over and over sorts.                  *)
LEMMA SortedExists ==
  ASSUME NEW e, NEW n, AreEstimates(e, n)
  PROVE  IsSorted(e, n, SortedOrder(e))
<1> DEFINE choice == [S \in SUBSET (1 .. n) |-> FirstBy(Selectivities(e, S))]
<1>1. n \in Nat /\ DOMAIN e = 1 .. n
  BY DEF AreEstimates
<1>2. ASSUME NEW S \in SUBSET (1 .. n), S # {}
      PROVE  /\ choice[S] \in S
             /\ \A j \in S \ {choice[S]} : Earlier(Selectivities(e, 1 .. n), choice[S], j)
  <2>1. PICK best : best = FirstBy(Selectivities(e, S))
    OBVIOUS
  <2>2. choice[S] = best
    BY <2>1
  <2>3. best \in S /\ \A j \in S \ {best} : Earlier(Selectivities(e, S), best, j)
    BY <1>2, <2>1, MostSelective
  <2>4. \A i \in S : Selectivities(e, S)[i] = Selectivities(e, 1 .. n)[i]
    BY DEF Selectivities
  <2>5. \A j \in S \ {best} : Earlier(Selectivities(e, 1 .. n), best, j)
    BY <2>3, <2>4 DEF Earlier
  <2> QED BY <2>2, <2>3, <2>5
<1> HIDE DEF choice
<1>3. PICK f : TakesOut(f, choice, n, n)
  BY <1>1, <1>2, TakingOut
<1>4. ASSUME NEW i \in 1 .. n, NEW m \in 1 .. i - 1
      PROVE  Earlier(Selectivities(e, 1 .. n), f[m], f[i])
  <2>1. m \in 1 .. n /\ \A k \in 1 .. m - 1 : k \in 1 .. i - 1
    BY <1>1
  <2>2. \A k \in 1 .. i - 1 : k \in 1 .. n
    BY <1>1
  <2>3. \A k \in 1 .. n : f[k] \in 1 .. n /\ f[k] = choice[(1 .. n) \ TakenBy(f, k)]
    BY <1>3 DEF TakesOut
  <2>4. PICK S, T : S = (1 .. n) \ TakenBy(f, m) /\ T = (1 .. n) \ TakenBy(f, i)
    OBVIOUS
  <2>5. S # {} /\ T # {} /\ S \in SUBSET (1 .. n) /\ T \in SUBSET (1 .. n)
    BY <1>1, <2>1, <2>2, <2>3, <2>4, SomeAreLeft
  <2>6. T \subseteq S /\ f[m] \notin T
    BY <2>1, <2>4 DEF TakenBy
  <2>7. f[m] = choice[S] /\ f[i] \in T
    BY <1>2, <2>1, <2>3, <2>4, <2>5
  <2> QED BY <1>2, <2>5, <2>6, <2>7
<1>5. IsSorted(e, n, f)
  BY <1>3, <1>4 DEF IsSorted, TakesOut
<1>6. SortedOrder(e) = CHOOSE g \in [1 .. n -> 1 .. n] :
                         \A i \in 1 .. n : \A m \in 1 .. i - 1 :
                           Earlier(Selectivities(e, 1 .. n), g[m], g[i])
  BY <1>1 DEF SortedOrder
<1> QED BY <1>5, <1>6 DEF IsSorted

LEMMA OrdersAreComplete ==
  ASSUME NEW e, NEW n, AreEstimates(e, n), NEW order,
         IsGreedy(e, n, order) \/ IsSorted(e, n, order)
  PROVE  /\ order \in [1 .. n -> 1 .. n] /\ IsInjective(order)
         /\ \A i \in 1 .. n : \E k \in 1 .. n : order[k] = i
<1>1. n \in Nat /\ order \in [1 .. n -> 1 .. n]
  BY DEF AreEstimates, IsGreedy, IsSorted
<1>2. ASSUME NEW i \in 1 .. n PROVE order[i] \notin TakenBy(order, i)
  <2>1. CASE IsGreedy(e, n, order)
    <3>1. order[i] \in (1 .. n) \ TakenBy(order, i)
      BY <2>1, GreedyTakes
    <3> QED BY <3>1
  <2>2. CASE IsSorted(e, n, order)
    <3>1. SUFFICES ASSUME NEW m \in 1 .. i - 1, order[m] = order[i] PROVE FALSE
      BY DEF TakenBy
    <3>2. PICK w, k : w = Selectivities(e, 1 .. n) /\ k = order[i]
      OBVIOUS
    <3>3. Earlier(w, k, k) /\ k \in 1 .. n
      BY <1>1, <2>2, <3>1, <3>2 DEF IsSorted
    <3>4. IsFraction(w[k])
      BY <3>2, <3>3 DEF Selectivities, AreEstimates
    <3>5. PICK p : p = w[k][1] * w[k][2]
      OBVIOUS
    <3>6. p \in Nat /\ k \in Nat
      BY <3>3, <3>4, <3>5 DEF IsFraction
    <3>7. p < p \/ k < k
      BY <3>3, <3>5 DEF Earlier, Below
    <3> QED BY <3>6, <3>7
  <2> QED BY <2>1, <2>2
<1> QED BY <1>1, <1>2, TakesAll
-----------------------------------------------------------------------------
(* The numbers of any statistics *)

(* Even those that a clear overlapped: numbers, of known predicates.       *)
Counted(f) == DOMAIN f \subseteq Predicates(Triples) /\ \A p \in DOMAIN f : f[p] \in Nat
Numbers(b) ==
    /\ b.triple_count \in Nat /\ b.distinct_subjects \in Nat /\ b.distinct_objects \in Nat
    /\ Counted(b.predicate_frequency)

NumbersInv ==
    Numbers(stats) /\ window.high \in Bags /\ \A t \in Threads : Numbers(building[t])

LEMMA FrequenciesCounted ==
  ASSUME NEW e \in Bags
  PROVE  Counted(Frequencies(e))
<1>1. Predicates(Present(e)) \subseteq Predicates(Triples)
  BY DEF Predicates, Present
<1>2. ASSUME NEW p PROVE SumOf(e, Of(p, Triples)) \in Nat
  BY PredicateParts DEF Bags
<1> QED BY <1>1, <1>2 DEF Counted, Frequencies

LEMMA CollectorCounts ==
  ASSUME CollectorTypes
  PROVE  /\ collector.count \in Nat /\ Cardinality(collector.subjects) \in Nat
         /\ Cardinality(collector.objects) \in Nat /\ Counted(Frequencies(collector.edges))
<1>1. /\ collector.subjects \subseteq Subjects(Triples) /\ collector.count \in Nat
      /\ collector.objects \subseteq Objects(Triples) /\ collector.edges \in Bags
  BY CollectorFields
<1>2. IsFiniteSet(collector.subjects) /\ IsFiniteSet(collector.objects)
  BY <1>1, NodesAreFinite, FS_Subset
<1> QED BY <1>1, <1>2, FS_CardinalityType, FrequenciesCounted

LEMMA NothingIsNumbers ==
  ASSUME NEW d, d = EmptyStatistics
  PROVE  Numbers(d)
BY NothingReadYet DEF Parts, Numbers, Counted

LEMMA NumbersStart == InitCollector => NumbersInv
BY NothingIsNumbers DEF InitCollector, NumbersInv, None0, Bags

LEMMA NumbersRead ==
  ASSUME CollectorTypes, NEW b, Numbers(b), NEW d, NEW name, Reads(name, collector, b, d)
  PROVE  Numbers(d)
BY CollectorCounts DEF Reads, Parts, Numbers

LEMMA NumbersGoOn ==
  ASSUME IInv, NumbersInv, CollectorNext
  PROVE  NumbersInv'
<1>1. CollectorTypes /\ PlaceInv
  BY DEF IInv
<1>2. ASSUME NEW t \in Threads, AddTriple(t) \/ AddType(t) \/ Clear(t) PROVE NumbersInv'
  <2>1. UNCHANGED <<building, stats, window>>
    BY <1>1, <1>2, AddTripleDoes, AddTypeDoes, ClearDoes
  <2> QED BY <2>1 DEF NumbersInv
<1>3. ASSUME NEW t \in Threads, Build(t) PROVE NumbersInv'
  <2>1. \A u \in Threads \ {t} : building'[u] = building[u]
    BY <1>1, <1>3, BuildDoes
  <2>2. \/ \E name : /\ Reads(name, collector, building[t], building'[t])
                     /\ UNCHANGED stats
        \/ /\ building'[t] = EmptyStatistics
           /\ LET b == building[t] IN
              Parts(stats', b.triple_count, b.distinct_subjects, b.distinct_predicates,
                    b.distinct_objects, b.predicate_frequency)
    BY <1>1, <1>3, BuildDoes
  <2>3. PICK b, d, s : b = building[t] /\ d = building'[t] /\ s = stats'
    OBVIOUS
  <2>4. Numbers(b) /\ Numbers(stats)
    BY <2>3 DEF NumbersInv
  <2>5. Numbers(d) /\ Numbers(s)
    <3>1. CASE \E name : Reads(name, collector, b, d) /\ UNCHANGED stats
      BY <1>1, <2>3, <2>4, <3>1, NumbersRead
    <3>2. CASE /\ d = EmptyStatistics
               /\ Parts(s, b.triple_count, b.distinct_subjects, b.distinct_predicates,
                        b.distinct_objects, b.predicate_frequency)
      <4>1. Numbers(d)
        BY <3>2, NothingIsNumbers
      <4>2. Numbers(s)
        BY <2>4, <3>2 DEF Parts, Numbers
      <4> QED BY <4>1, <4>2
    <3> QED BY <2>2, <2>3, <3>1, <3>2
  <2>6. \A u \in Threads : Numbers(building'[u])
    BY <2>1, <2>3, <2>5 DEF NumbersInv
  <2>7. window' = window \/ window'.high = begun
    BY <1>1, <1>3, BuildDoes
  <2>8. window'.high \in Bags
    BY <1>1, <2>7 DEF NumbersInv, CollectorTypes
  <2> QED BY <2>3, <2>5, <2>6, <2>8 DEF NumbersInv
<1>4. ASSUME NEW t \in Threads, NEW c \in Calls, Begin(t, c) PROVE NumbersInv'
  <2>1. /\ UNCHANGED <<stats, window>> /\ building'[t] = EmptyStatistics
        /\ \A u \in Threads \ {t} : building'[u] = building[u]
    BY <1>1, <1>4, BeginDoes
  <2>2. \A u \in Threads : Numbers(building'[u])
    BY <2>1, NothingIsNumbers DEF NumbersInv
  <2> QED BY <2>1, <2>2 DEF NumbersInv
<1> QED BY <1>2, <1>3, <1>4 DEF CollectorNext, CollectorStep
-----------------------------------------------------------------------------
(* The estimates *)

LEMMA Fractions ==
  /\ IsFraction(<<1, 1>>) /\ IsFraction(<<1, 10>>) /\ IsFraction(<<1, 20>>)
  /\ IsFraction(<<1, 2>>) /\ IsFraction(<<1, 100>>) /\ IsFraction(<<1, 1000>>)
  /\ IsFraction(<<1000, 1>>) /\ IsFraction(Smallest)
  /\ \A n \in Nat : IsFraction(Inverse1(n))
  /\ \A x, y : IsFraction(x) /\ IsFraction(y) => IsFraction(AtLeast(x, y))
<1>1. \A n \in Nat : IsFraction(Inverse1(n))
  BY DEF IsFraction, Inverse1
<1>2. \A x, y : IsFraction(x) /\ IsFraction(y) => IsFraction(AtLeast(x, y))
  BY DEF AtLeast
<1> QED BY <1>1, <1>2 DEF IsFraction, Smallest

LEMMA CostIsFraction ==
  ASSUME NEW e, IsFraction(e.cardinality),
         \/ e.hint.use = "scan"
         \/ e.hint.use = "type"
         \/ e.hint.use = "predicate" /\ IsFraction(e.hint.selectivity)
  PROVE  IsFraction(Cost(e))
<1>1. CASE e.hint.use = "scan"
  <2>1. Cost(e) = Times(e.cardinality, <<1, 1>>)
    BY <1>1 DEF Cost
  <2> QED BY <2>1, Fractions, TimesFractions
<1>2. CASE e.hint.use = "type"
  <2>1. Cost(e) = Times(e.cardinality, <<1, 20>>)
    BY <1>2 DEF Cost
  <2> QED BY <2>1, Fractions, TimesFractions
<1>3. CASE e.hint.use = "predicate" /\ IsFraction(e.hint.selectivity)
  <2>1. Cost(e) = Times(e.cardinality, Times(<<1, 10>>, e.hint.selectivity))
    BY <1>3 DEF Cost
  <2>2. IsFraction(Times(<<1, 10>>, e.hint.selectivity))
    BY <1>3, Fractions, TimesFractions
  <2> QED BY <2>1, <2>2, TimesFractions
<1> QED BY <1>1, <1>2, <1>3

LEMMA SelectivityFits ==
  ASSUME Numbers(stats), NEW p
  PROVE  IsFraction(PredicateSelectivity(p))
<1>1. FrequencyOf(p) \in Nat /\ stats.triple_count \in Nat
  BY DEF Numbers, Counted, FrequencyOf
<1> QED BY <1>1 DEF PredicateSelectivity, IsFraction

LEMMA EstimateFits ==
  ASSUME Numbers(stats), NEW indexes \in Indexed \cup {None}, NEW pattern,
         pattern.p.k = "iri" => pattern.p.of \in DOMAIN HashIri,
         NEW e, e = EstimatePatternCost(pattern, indexes)
  PROVE  e.pattern = pattern /\ IsFraction(e.selectivity) /\ IsFraction(Cost(e))
<1>1. /\ e.pattern = pattern /\ e.selectivity = EstimateSelectivity(pattern)
      /\ e.cardinality = Times(<<IF stats.triple_count = 0 THEN 1 ELSE stats.triple_count, 1>>,
                               EstimateSelectivity(pattern))
      /\ e.hint = IndexHint(pattern, indexes)
  BY DEF EstimatePatternCost
<1>2. IsFraction(EstimateSelectivity(pattern))
  <2>1. PICK s, p, o :
           /\ s = IF IsVariable(pattern.s) THEN <<1, 1>> ELSE Inverse1(stats.distinct_subjects)
           /\ p = IF pattern.p.k = "iri" THEN PredicateSelectivity(HashIri[pattern.p.of])
                  ELSE <<1, 1>>
           /\ o = IF IsVariable(pattern.o) THEN <<1, 1>> ELSE Inverse1(stats.distinct_objects)
    OBVIOUS
  <2>2. IsFraction(s) /\ IsFraction(o)
    BY <2>1, Fractions DEF Numbers
  <2>3. IsFraction(p)
    BY <2>1, Fractions, SelectivityFits
  <2>4. EstimateSelectivity(pattern) = AtLeast(Times(Times(s, p), o), Smallest)
    BY <2>1 DEF EstimateSelectivity
  <2>5. IsFraction(Times(Times(s, p), o))
    BY <2>2, <2>3, TimesFractions
  <2> QED BY <2>4, <2>5, Fractions
<1>3. IsFraction(e.cardinality)
  <2>1. PICK t : t = <<IF stats.triple_count = 0 THEN 1 ELSE stats.triple_count, 1>>
    OBVIOUS
  <2>2. IsFraction(t)
    BY <2>1 DEF IsFraction, Numbers
  <2> QED BY <1>1, <1>2, <2>1, <2>2, TimesFractions
<1>4. \/ e.hint.use = "scan"
      \/ e.hint.use = "type"
      \/ e.hint.use = "predicate" /\ IsFraction(e.hint.selectivity)
  <2>1. CASE IsTypePattern(pattern) /\ pattern.o.k = "iri"
    BY <1>1, <2>1 DEF IndexHint
  <2>2. CASE ~(IsTypePattern(pattern) /\ pattern.o.k = "iri") /\ pattern.p.k = "iri"
    <3>1. PICK id : id = HashIri[pattern.p.of]
      OBVIOUS
    <3>2. IsFraction(IF indexes = None THEN PredicateSelectivity(id) ELSE indexes[id])
      BY <2>2, <3>1, SelectivityFits, IndexedAssumption
    <3>3. /\ e.hint.use = "predicate"
          /\ e.hint.selectivity = IF indexes = None THEN PredicateSelectivity(id)
                                  ELSE indexes[id]
      BY <1>1, <2>2, <3>1 DEF IndexHint
    <3> QED BY <3>2, <3>3
  <2>3. CASE ~(IsTypePattern(pattern) /\ pattern.o.k = "iri") /\ pattern.p.k # "iri"
    BY <1>1, <2>3 DEF IndexHint, FullScan
  <2> QED BY <2>1, <2>2, <2>3
<1> QED BY <1>1, <1>2, <1>3, <1>4, CostIsFraction

LEMMA HeuristicFits ==
  ASSUME NEW pattern, NEW e, e = EstimatePatternCostHeuristic(pattern)
  PROVE  e.pattern = pattern /\ IsFraction(e.selectivity) /\ IsFraction(Cost(e))
<1>1. PICK bound : bound = Cardinality({f \in {"s", "p", "o"} : ~IsVariable(pattern[f])})
  OBVIOUS
<1>2. PICK byBound : byBound = CASE bound = 3 -> <<1, 1000>> [] bound = 2 -> <<1, 100>>
                                 [] bound = 1 -> <<1, 10>> [] OTHER -> <<1, 1>>
  OBVIOUS
<1>3. byBound \in {<<1, 1000>>, <<1, 100>>, <<1, 10>>, <<1, 1>>}
  <2>1. bound = 3 \/ bound = 2 \/ bound = 1 \/ (bound # 3 /\ bound # 2 /\ bound # 1)
    OBVIOUS
  <2> QED BY <1>2, <2>1
<1>4. PICK x : x = IF IsTypePattern(pattern) THEN Times(byBound, <<1, 2>>) ELSE byBound
  OBVIOUS
<1>5. IsFraction(x)
  <2>1. IsFraction(byBound)
    BY <1>3, Fractions
  <2> QED BY <1>4, <2>1, Fractions, TimesFractions
<1>6. /\ e.pattern = pattern /\ e.selectivity = x /\ e.cardinality = Times(<<1000, 1>>, x)
      /\ e.hint = IF IsTypePattern(pattern) /\ pattern.o.k # "iri" THEN FullScan
                  ELSE IF pattern.p.k = "iri" /\ ~IsTypePattern(pattern)
                  THEN [use |-> "predicate", id |-> HashIri[pattern.p.of], selectivity |-> x]
                  ELSE IndexHint(pattern, None)
  BY <1>1, <1>2, <1>4 DEF EstimatePatternCostHeuristic
<1>7. IsFraction(e.cardinality)
  BY <1>5, <1>6, Fractions, TimesFractions
<1>8. \/ e.hint.use = "scan"
      \/ e.hint.use = "type"
      \/ e.hint.use = "predicate" /\ IsFraction(e.hint.selectivity)
  <2>1. CASE IsTypePattern(pattern) /\ pattern.o.k # "iri"
    BY <1>6, <2>1 DEF FullScan
  <2>2. CASE IsTypePattern(pattern) /\ pattern.o.k = "iri"
    BY <1>6, <2>2 DEF IndexHint
  <2>3. CASE ~IsTypePattern(pattern) /\ pattern.p.k = "iri"
    BY <1>5, <1>6, <2>3
  <2>4. CASE ~IsTypePattern(pattern) /\ pattern.p.k # "iri"
    BY <1>6, <2>4 DEF IndexHint, FullScan
  <2> QED BY <2>1, <2>2, <2>3, <2>4
<1> QED BY <1>5, <1>6, <1>7, <1>8, CostIsFraction
-----------------------------------------------------------------------------
(* The plan *)

(* A plan is what the statistics of now give for the patterns of now.      *)
PlanInv ==
    \/ plan = NoPlan /\ bgp = << >>
    \/ /\ bgp \in Bgps
       /\ \/ \E indexes \in Indexed \cup {None} :
               plan = With(OptimizeWithStatistics(bgp, indexes),
                           IF indexes = None THEN "statistics" ELSE "indexes")
          \/ plan = With(OptimizeHeuristic(bgp), "heuristic")

LEMMA PlanStarts == Init => PlanInv
BY DEF Init, PlanInv

LEMMA PlanKept == PlanInv /\ [Next]_vars => PlanInv'
<1> SUFFICES ASSUME PlanInv, [Next]_vars PROVE PlanInv'
  OBVIOUS
<1>1. CASE plan = NoPlan /\ UNCHANGED <<bgp, plan>>
  <2>1. NoPlan # With(OptimizeHeuristic(bgp), "heuristic")
        /\ \A indexes : NoPlan # With(OptimizeWithStatistics(bgp, indexes),
                                      IF indexes = None THEN "statistics" ELSE "indexes")
    BY DEF NoPlan, With
  <2>2. bgp = << >>
    BY <1>1, <2>1 DEF PlanInv
  <2> QED BY <1>1, <2>2 DEF PlanInv
<1>2. ASSUME NEW patterns \in Bgps, Optimize(patterns) PROVE PlanInv'
  <2>1. UNCHANGED stats /\ bgp' = patterns
    BY <1>2 DEF Optimize, collecting
  <2>2. \A indexes : OptimizeWithStatistics(bgp, indexes)'
                       = OptimizeWithStatistics(patterns, indexes)
    BY <2>1 DEF OptimizeWithStatistics, EstimatePatternCost, EstimateSelectivity, IndexHint,
                PredicateSelectivity, FrequencyOf
  <2>3. OptimizeHeuristic(bgp)' = OptimizeHeuristic(patterns)
    BY <2>1 DEF OptimizeHeuristic, EstimatePatternCostHeuristic, IndexHint,
                PredicateSelectivity, FrequencyOf
  <2> QED BY <1>2, <2>1, <2>2, <2>3 DEF PlanInv, Optimize
<1>3. CASE Forget
  BY <1>3 DEF Forget, PlanInv
<1>4. CASE UNCHANGED vars
  <2>1. UNCHANGED <<stats, bgp, plan>>
    BY <1>4 DEF vars, collecting
  <2>2. \A indexes : OptimizeWithStatistics(bgp, indexes)'
                       = OptimizeWithStatistics(bgp, indexes)
    BY <2>1 DEF OptimizeWithStatistics, EstimatePatternCost, EstimateSelectivity, IndexHint,
                PredicateSelectivity, FrequencyOf
  <2>3. OptimizeHeuristic(bgp)' = OptimizeHeuristic(bgp)
    BY <2>1 DEF OptimizeHeuristic, EstimatePatternCostHeuristic, IndexHint,
                PredicateSelectivity, FrequencyOf
  <2> QED BY <2>1, <2>2, <2>3 DEF PlanInv
<1> QED BY <1>1, <1>2, <1>3, <1>4 DEF Next

(* What every plan looks like.                                             *)
Arranged(e, n, order) ==
    /\ AreEstimates(e, n) /\ DOMAIN bgp = 1 .. n /\ Len(bgp) = n
    /\ \A i \in 1 .. n : e[i].pattern = bgp[i]
    /\ plan.patterns = [k \in 1 .. n |-> e[order[k]]]
    /\ plan.bound_at_step = BoundAtStep(plan.patterns)
    /\ order \in [1 .. n -> 1 .. n] /\ IsInjective(order)
    /\ \A i \in 1 .. n : \E k \in 1 .. n : order[k] = i

Guided(e, n, order) ==
    \/ plan.by = "heuristic"
    \/ /\ plan.by \in {"statistics", "indexes"} /\ IsGreedy(e, n, order)
       /\ \E indexes : \A i \in 1 .. n : e[i] = EstimatePatternCost(bgp[i], indexes)

LEMMA PlanShape ==
  ASSUME NumbersInv, PlanInv, plan # NoPlan
  PROVE  \E e, n, order : Arranged(e, n, order) /\ Guided(e, n, order)
<1>1. /\ bgp \in Bgps
      /\ \/ \E indexes \in Indexed \cup {None} :
              plan = With(OptimizeWithStatistics(bgp, indexes),
                          IF indexes = None THEN "statistics" ELSE "indexes")
         \/ plan = With(OptimizeHeuristic(bgp), "heuristic")
  BY DEF PlanInv
<1>2. PICK n : n = Len(bgp)
  OBVIOUS
<1>3. n \in Nat /\ DOMAIN bgp = 1 .. n
  BY <1>1, <1>2, BgpsAssumption
<1>4. \A i \in 1 .. n : bgp[i].p.k = "iri" => bgp[i].p.of \in DOMAIN HashIri
  <2>1. \A i \in 1 .. n : bgp[i] \in Range(bgp)
    BY <1>3 DEF Range
  <2> QED BY <1>1, <2>1, BgpsAssumption
<1>5. ASSUME NEW e, NEW order, NEW by, DOMAIN e = 1 .. n,
             plan = With(PlanOf(e, order), by),
             \A i \in 1 .. n : /\ e[i].pattern = bgp[i] /\ IsFraction(e[i].selectivity)
                               /\ IsFraction(Cost(e[i])),
             AreEstimates(e, n) => IsGreedy(e, n, order) \/ IsSorted(e, n, order)
      PROVE  Arranged(e, n, order) /\ AreEstimates(e, n) /\ plan.by = by
  <2>1. AreEstimates(e, n)
    BY <1>3, <1>5 DEF AreEstimates
  <2>2. /\ order \in [1 .. n -> 1 .. n] /\ IsInjective(order)
        /\ \A i \in 1 .. n : \E k \in 1 .. n : order[k] = i
    BY <1>5, <2>1, OrdersAreComplete
  <2>3. /\ plan.patterns = [k \in 1 .. n |-> e[order[k]]]
        /\ plan.bound_at_step = BoundAtStep(plan.patterns) /\ plan.by = by
    BY <1>5, <2>2 DEF With, PlanOf
  <2> QED BY <1>2, <1>3, <1>5, <2>1, <2>2, <2>3 DEF Arranged
<1>6. CASE plan = With(OptimizeHeuristic(bgp), "heuristic")
  <2>1. PICK e : e = [i \in 1 .. n |-> EstimatePatternCostHeuristic(bgp[i])]
    OBVIOUS
  <2>2. PICK order : order = SortedOrder(e)
    OBVIOUS
  <2>3. OptimizeHeuristic(bgp) = PlanOf(e, order)
    BY <1>3, <2>1, <2>2 DEF OptimizeHeuristic
  <2>4. DOMAIN e = 1 .. n /\ \A i \in 1 .. n : e[i] = EstimatePatternCostHeuristic(bgp[i])
    BY <2>1
  <2>5. \A i \in 1 .. n : /\ e[i].pattern = bgp[i] /\ IsFraction(e[i].selectivity)
                          /\ IsFraction(Cost(e[i]))
    BY <2>4, HeuristicFits
  <2>6. AreEstimates(e, n) => IsSorted(e, n, order)
    BY <2>2, SortedExists
  <2>7. Arranged(e, n, order) /\ plan.by = "heuristic"
    BY <1>5, <1>6, <2>3, <2>4, <2>5, <2>6
  <2> QED BY <2>7 DEF Guided
<1>7. ASSUME NEW indexes \in Indexed \cup {None},
             plan = With(OptimizeWithStatistics(bgp, indexes),
                         IF indexes = None THEN "statistics" ELSE "indexes")
      PROVE  \E e, order : Arranged(e, n, order) /\ Guided(e, n, order)
  <2>1. PICK e : e = [i \in 1 .. n |-> EstimatePatternCost(bgp[i], indexes)]
    OBVIOUS
  <2>2. PICK order : order = GreedyOrder(e)
    OBVIOUS
  <2>3. OptimizeWithStatistics(bgp, indexes) = PlanOf(e, order)
    BY <1>3, <2>1, <2>2 DEF OptimizeWithStatistics
  <2>4. DOMAIN e = 1 .. n /\ \A i \in 1 .. n : e[i] = EstimatePatternCost(bgp[i], indexes)
    BY <2>1
  <2>5. \A i \in 1 .. n : /\ e[i].pattern = bgp[i] /\ IsFraction(e[i].selectivity)
                          /\ IsFraction(Cost(e[i]))
    BY <1>4, <2>4, EstimateFits DEF NumbersInv
  <2>6. AreEstimates(e, n) => IsGreedy(e, n, order)
    BY <2>2, GreedyExists
  <2>7. PICK by : by = IF indexes = None THEN "statistics" ELSE "indexes"
    OBVIOUS
  <2>8. Arranged(e, n, order) /\ AreEstimates(e, n) /\ plan.by = by
    BY <1>5, <1>7, <2>3, <2>4, <2>5, <2>6, <2>7
  <2> QED BY <2>4, <2>6, <2>7, <2>8 DEF Guided
<1> QED BY <1>1, <1>6, <1>7

(* The inductive invariant of the collector and the optimizer together.    *)
OptimizerInv == IInv /\ NumbersInv /\ PlanInv

LEMMA OptimizerAlways == Spec => []OptimizerInv
<1>1. Init => NumbersInv /\ PlanInv
  BY NumbersStart, PlanStarts DEF Init
<1>2. IInv /\ NumbersInv /\ [Next]_vars => NumbersInv'
  <2> SUFFICES ASSUME IInv, NumbersInv, [Next]_vars PROVE NumbersInv'
    OBVIOUS
  <2>1. CASE CollectorNext
    BY <2>1, NumbersGoOn
  <2>2. CASE UNCHANGED <<collecting, counting>>
    BY <2>2 DEF collecting, counting, NumbersInv
  <2> QED BY <2>1, <2>2 DEF Next, Optimize, Forget, vars
<1> QED BY <1>1, <1>2, InvStarts, InvStep, PlanKept, PTL DEF Spec, OptimizerInv

(* If a pattern costs less than ten times what another one costs, its      *)
(* score with a shared variable is below the other's without one.          *)
LEMMA SharingIsCheaper ==
  ASSUME NEW x, NEW y, IsFraction(x), IsFraction(y), Below(y, Times(<<10, 1>>, x))
  PROVE  /\ Below(Times(y, <<1, 10>>), Times(x, <<1, 1>>))
         /\ ~Below(Times(x, <<1, 1>>), Times(y, <<1, 10>>))
<1>1. PICK a, b, c, d : a = x[1] /\ b = x[2] /\ c = y[1] /\ d = y[2]
  OBVIOUS
<1>2. a \in Nat /\ b \in Nat /\ c \in Nat /\ d \in Nat
  BY <1>1 DEF IsFraction
<1>3. PICK p, q : p = a * d /\ q = c * b
  OBVIOUS
<1>4. p \in Nat /\ q \in Nat
  BY <1>2, <1>3
<1>5. /\ Below(y, Times(<<10, 1>>, x)) <=> c * (1 * b) < (10 * a) * d
      /\ Below(Times(y, <<1, 10>>), Times(x, <<1, 1>>)) <=> (c * 1) * (b * 1) < (a * 1) * (d * 10)
      /\ Below(Times(x, <<1, 1>>), Times(y, <<1, 10>>)) <=> (a * 1) * (d * 10) < (c * 1) * (b * 1)
  BY <1>1 DEF Below, Times
<1>6. /\ c * (1 * b) = q /\ (10 * a) * d = 10 * p
      /\ (c * 1) * (b * 1) = q /\ (a * 1) * (d * 10) = 10 * p
  BY <1>2, <1>3
<1>7. q < 10 * p /\ ~(10 * p < q)
  <2>1. q < 10 * p
    BY <1>5, <1>6
  <2> QED BY <1>4, <2>1
<1> QED BY <1>5, <1>6, <1>7

LEMMA JoinedOn ==
  ASSUME NEW e, NEW n, NEW order, Arranged(e, n, order), IsGreedy(e, n, order),
         Comparable, Connected(bgp), NEW i \in (1 .. n) \ {1}
  PROVE  PatternVars(bgp[order[i]]) \cap BoundBy(e, TakenBy(order, i)) # {}
<1>1. /\ AreEstimates(e, n) /\ n \in Nat /\ DOMAIN bgp = 1 .. n
      /\ \A k \in 1 .. n : e[k].pattern = bgp[k]
      /\ plan.patterns = [k \in 1 .. n |-> e[order[k]]]
      /\ order \in [1 .. n -> 1 .. n]
      /\ \A k \in 1 .. n : \E m \in 1 .. n : order[m] = k
  BY DEF Arranged, AreEstimates
<1>2. PICK taken, left, bound : /\ taken = TakenBy(order, i) /\ left = (1 .. n) \ taken
                                /\ bound = BoundBy(e, taken)
  OBVIOUS
<1>3. /\ order[i] \in left
      /\ bound # {} => \A j \in left \ {order[i]} : Earlier(Scores(e, left, bound), order[i], j)
  BY <1>1, <1>2, GreedyTakes
<1>4. taken \subseteq 1 .. n /\ taken # {}
  <2>1. 1 \in 1 .. i - 1 /\ \A m \in 1 .. i - 1 : m \in 1 .. n
    BY <1>1
  <2>2. order[1] \in taken
    BY <1>2, <2>1 DEF TakenBy
  <2>3. \A m \in 1 .. i - 1 : order[m] \in 1 .. n
    BY <1>1, <2>1
  <2>4. taken \subseteq 1 .. n
    BY <1>2, <2>3 DEF TakenBy
  <2> QED BY <2>2, <2>4
<1>5. taken # 1 .. n
  BY <1>2, <1>3
<1>6. PICK h \in taken, j \in left : PatternVars(bgp[h]) \cap PatternVars(bgp[j]) # {}
  <2>1. taken \in SUBSET DOMAIN bgp /\ taken # {} /\ taken # DOMAIN bgp
    BY <1>1, <1>4, <1>5
  <2>2. \E h \in taken, j \in DOMAIN bgp \ taken :
           PatternVars(bgp[h]) \cap PatternVars(bgp[j]) # {}
    BY <2>1 DEF Connected
  <2> QED BY <1>1, <1>2, <2>2
<1>7. PatternVars(bgp[j]) \cap bound # {} /\ bound # {}
  <2>1. PatternVars(bgp[h]) \subseteq bound
    <3>1. h \in 1 .. n /\ e[h].pattern = bgp[h]
      BY <1>1, <1>4, <1>6
    <3> QED BY <1>2, <1>6, <3>1 DEF BoundBy
  <2> QED BY <1>6, <2>1
<1>8. SUFFICES ASSUME PatternVars(bgp[order[i]]) \cap bound = {} PROVE FALSE
  BY <1>2
<1>9. j # order[i] /\ j \in 1 .. n /\ order[i] \in 1 .. n
  BY <1>2, <1>3, <1>6, <1>7, <1>8
<1>10. Earlier(Scores(e, left, bound), order[i], j)
  BY <1>3, <1>6, <1>7, <1>9
<1>11. PICK x, y : x = Cost(e[order[i]]) /\ y = Cost(e[j])
  OBVIOUS
<1>12. /\ Scores(e, left, bound)[order[i]] = Times(x, <<1, 1>>)
       /\ Scores(e, left, bound)[j] = Times(y, <<1, 10>>)
  BY <1>1, <1>3, <1>6, <1>7, <1>8, <1>9, <1>11 DEF Scores, SharesAny
<1>13. Below(y, Times(<<10, 1>>, x))
  <2>1. PICK m \in 1 .. n : order[m] = j
    BY <1>1, <1>9
  <2>2. plan.patterns[m] = e[j] /\ plan.patterns[i] = e[order[i]] /\ Steps = 1 .. n
    BY <1>1, <2>1 DEF Steps
  <2> QED BY <1>11, <2>2 DEF Comparable
<1>14. IsFraction(x) /\ IsFraction(y)
  BY <1>1, <1>9, <1>11 DEF AreEstimates
<1> QED BY <1>10, <1>12, <1>13, <1>14, SharingIsCheaper DEF Earlier

LEMMA ProductsAreAvoided == OptimizerInv => PlansAvoidProducts
<1> SUFFICES ASSUME OptimizerInv PROVE PlansAvoidProducts
  OBVIOUS
<1>1. CASE plan = NoPlan
  <2>1. /\ plan.patterns = << >> /\ plan.bound_at_step = << >> /\ plan.by = "none"
        /\ Steps = {}
    BY <1>1 DEF NoPlan, Steps
  <2>2. bgp = << >>
    <3>1. NoPlan # With(OptimizeHeuristic(bgp), "heuristic")
          /\ \A indexes : NoPlan # With(OptimizeWithStatistics(bgp, indexes),
                                        IF indexes = None THEN "statistics" ELSE "indexes")
      BY DEF NoPlan, With
    <3> QED BY <1>1, <3>1 DEF PlanInv, OptimizerInv
  <2>3. << >> \in [Steps -> Steps] /\ IsInjective(<< >>)
    BY <2>1 DEF IsInjective
  <2>4. BoundAtStep(<< >>) = << >>
    BY DEF BoundAtStep
  <2> QED BY <2>1, <2>2, <2>3, <2>4 DEF PlansAvoidProducts
<1>2. CASE plan # NoPlan
  <2>1. PICK e, n, order : Arranged(e, n, order) /\ Guided(e, n, order)
    BY <1>2, PlanShape DEF OptimizerInv
  <2>2. /\ AreEstimates(e, n) /\ n \in Nat /\ DOMAIN bgp = 1 .. n /\ Len(bgp) = n
        /\ \A i \in 1 .. n : e[i].pattern = bgp[i]
        /\ plan.patterns = [k \in 1 .. n |-> e[order[k]]]
        /\ plan.bound_at_step = BoundAtStep(plan.patterns)
        /\ order \in [1 .. n -> 1 .. n] /\ IsInjective(order)
    BY <2>1 DEF Arranged, AreEstimates
  <2>3. Steps = 1 .. n /\ \A i \in 1 .. n : Ordered(i) = bgp[order[i]]
    BY <2>2 DEF Steps, Ordered
  <2>4. Len(plan.patterns) = n
    BY <2>2
  <2>5. ASSUME plan.by \in {"statistics", "indexes"}, Comparable, Connected(bgp),
               NEW i \in (1 .. n) \ {1}
        PROVE  PatternVars(Ordered(i)) \cap plan.bound_at_step[i - 1] # {}
    <3>1. IsGreedy(e, n, order)
      BY <2>1, <2>5 DEF Guided
    <3>2. i - 1 \in 1 .. n
      BY <2>2
    <3>3. plan.bound_at_step[i - 1] = BoundBy(plan.patterns, 1 .. i - 1)
      BY <2>2, <3>2 DEF BoundAtStep
    <3>4. \A m \in 1 .. i - 1 : m \in 1 .. n /\ plan.patterns[m] = e[order[m]]
      BY <2>2
    <3>5. BoundBy(plan.patterns, 1 .. i - 1) = BoundBy(e, TakenBy(order, i))
      BY <3>4 DEF BoundBy, TakenBy
    <3> QED BY <2>1, <2>3, <2>5, <3>1, <3>3, <3>5, JoinedOn
  <2> QED BY <2>2, <2>3, <2>4, <2>5 DEF PlansAvoidProducts
<1> QED BY <1>1, <1>2

(* JoinOrderOptimizer: a plan is the patterns in another order, each with  *)
(* the variables that are bound after it; with statistics, and if no       *)
(* pattern costs ten times as much as another, patterns that are connected *)
(* are joined one to the others, whatever the statistics and however many  *)
(* patterns there are.                                                     *)
THEOREM NoProducts == Spec => []PlansAvoidProducts
BY OptimizerAlways, ProductsAreAvoided, PTL
-----------------------------------------------------------------------------
(* The first pattern of a plan *)

LEMMA FrequencyIsExact ==
  ASSUME OptimizerInv, window.sound, window.low = window.high, NEW p
  PROVE  /\ FrequencyOf(p) = SumOf(window.high, Of(p, Triples))
         /\ FrequencyOf(p) \in Nat
<1>1. window.high \in Bags /\ Counted(stats.predicate_frequency)
  BY DEF OptimizerInv, NumbersInv, Numbers
<1>2. SumOf(window.high, Of(p, Triples)) \in Nat
  BY <1>1, PredicateParts DEF Bags
<1>3. FrequencyOf(p) \in Nat
  BY <1>1 DEF FrequencyOf, Counted
<1>4. CASE p \in Predicates(Triples)
  <2>1. /\ SumOf(window.high, Of(p, Triples)) <= FrequencyOf(p)
        /\ FrequencyOf(p) <= SumOf(window.high, Of(p, Triples))
    BY <1>4 DEF OptimizerInv, IInv, BuiltStatisticsFit, NumbersAreBetween, Within
  <2>2. PICK x, y : x = SumOf(window.high, Of(p, Triples)) /\ y = FrequencyOf(p)
    OBVIOUS
  <2>3. x \in Nat /\ y \in Nat /\ x <= y /\ y <= x
    BY <1>2, <1>3, <2>1, <2>2
  <2>4. x = y
    BY <2>3
  <2> QED BY <1>3, <2>2, <2>4
<1>5. CASE p \notin Predicates(Triples)
  <2>1. Of(p, Triples) = {} /\ FrequencyOf(p) = 0
    BY <1>1, <1>5 DEF Of, Predicates, FrequencyOf, Counted
  <2>2. SumOf(window.high, {}) = 0
    BY FS_EmptySet, SumRecursion
  <2> QED BY <1>3, <2>1, <2>2
<1> QED BY <1>4, <1>5

(* How selective a pattern ?x <p> ?y is, if f of total triples have p. The *)
(* one that weighs no more has no more triples, or no more than the        *)
(* ten-thousandth part of all.                                             *)
Weight(f, total) == AtLeast(<<f, total>>, Smallest)

LEMMA BelowIsAsymmetric ==
  ASSUME NEW x, NEW y, IsFraction(x), IsFraction(y), Below(x, y)
  PROVE  ~Below(y, x)
<1>1. PICK p, q : p = x[1] * y[2] /\ q = y[1] * x[2]
  OBVIOUS
<1>2. p \in Nat /\ q \in Nat /\ p < q
  BY <1>1 DEF IsFraction, Below
<1>3. ~(q < p)
  BY <1>2
<1> QED BY <1>1, <1>3 DEF Below

LEMMA RarerFirst ==
  ASSUME NEW f \in Nat, NEW g \in Nat, NEW total \in Nat \ {0},
         ~Below(Weight(g, total), Weight(f, total))
  PROVE  f <= g \/ Smallest[2] * f <= Smallest[1] * total
<1>1. \A h \in Nat : Weight(h, total) = IF h * 10000 < 1 * total THEN <<1, 10000>>
                                        ELSE <<h, total>>
  BY DEF Weight, AtLeast, Below, Smallest
<1>2. SUFFICES ASSUME ~(10000 * f <= 1 * total) PROVE f <= g
  BY DEF Smallest
<1>3. ~(f * 10000 < 1 * total)
  BY <1>2
<1>4. Weight(f, total) = <<f, total>>
  BY <1>1, <1>3
<1>5. CASE g * 10000 < 1 * total
  <2>1. Weight(g, total) = <<1, 10000>>
    BY <1>1, <1>5
  <2>2. ~(1 * total < f * 10000)
    BY <1>4, <2>1 DEF Below
  <2> QED BY <1>2, <2>2
<1>6. CASE ~(g * 10000 < 1 * total)
  <2>1. Weight(g, total) = <<g, total>>
    BY <1>1, <1>6
  <2>2. ~(g * total < f * total)
    BY <1>4, <2>1 DEF Below
  <2>3. g < f => g * total < f * total
    BY LessTimes
  <2>4. ~(g < f)
    BY <2>2, <2>3
  <2> QED BY <2>4
<1> QED BY <1>5, <1>6

LEMMA SelectivityIsWeight ==
  ASSUME NEW pattern, IsVariable(pattern.s), IsVariable(pattern.o), pattern.p.k = "iri",
         stats.triple_count \in Nat \ {0}, NEW f \in Nat,
         f = FrequencyOf(HashIri[pattern.p.of])
  PROVE  EstimateSelectivity(pattern) = Weight(f, stats.triple_count)
<1>1. EstimateSelectivity(pattern)
        = AtLeast(Times(Times(<<1, 1>>, <<f, stats.triple_count>>), <<1, 1>>), Smallest)
  BY DEF EstimateSelectivity, PredicateSelectivity
<1>2. Times(Times(<<1, 1>>, <<f, stats.triple_count>>), <<1, 1>>) = <<f, stats.triple_count>>
  BY DEF Times
<1> QED BY <1>1, <1>2 DEF Weight

LEMMA RarestIsFirst == OptimizerInv => PlansStartWithTheRarest
<1> DEFINE matches(i) == SumOf(window.high, Of(HashIri[Ordered(i).p.of], Triples))
           total == stats.triple_count
<1> SUFFICES ASSUME OptimizerInv, plan.by = "statistics",
                    window.sound, window.low = window.high, total > 0,
                    \A i \in Steps : IsVariable(Ordered(i).s) /\ IsVariable(Ordered(i).o)
                                     /\ Ordered(i).p.k = "iri",
                    NEW i \in Steps
             PROVE  \/ matches(1) <= matches(i)
                    \/ Smallest[2] * matches(1) <= Smallest[1] * total
  BY DEF PlansStartWithTheRarest
<1>1. plan # NoPlan
  BY DEF NoPlan
<1>2. PICK e, n, order : Arranged(e, n, order) /\ Guided(e, n, order)
  BY <1>1, PlanShape DEF OptimizerInv
<1>3. PICK indexes : \A k \in 1 .. n : e[k] = EstimatePatternCost(bgp[k], indexes)
  BY <1>2 DEF Guided
<1>4. /\ AreEstimates(e, n) /\ n \in Nat /\ IsGreedy(e, n, order)
      /\ \A k \in 1 .. n : e[k].pattern = bgp[k]
      /\ plan.patterns = [k \in 1 .. n |-> e[order[k]]]
      /\ order \in [1 .. n -> 1 .. n]
  BY <1>2 DEF Arranged, Guided, AreEstimates
<1>5. Steps = 1 .. n /\ \A k \in 1 .. n : Ordered(k) = bgp[order[k]]
  BY <1>4 DEF Steps, Ordered
<1>6. 1 \in 1 .. n /\ i \in 1 .. n
  BY <1>4, <1>5
<1>7. total \in Nat \ {0}
  BY DEF OptimizerInv, NumbersInv, Numbers
<1>8. \A k \in 1 .. n : matches(k) = FrequencyOf(HashIri[Ordered(k).p.of]) /\ matches(k) \in Nat
  BY FrequencyIsExact
<1>9. PICK f : f = [k \in 1 .. n |-> matches(k)]
  OBVIOUS
<1> HIDE DEF matches
<1>10. ASSUME NEW k \in 1 .. n
       PROVE  f[k] \in Nat /\ e[order[k]].selectivity = Weight(f[k], total)
  <2>1. f[k] \in Nat /\ f[k] = FrequencyOf(HashIri[Ordered(k).p.of])
    BY <1>8, <1>9
  <2>2. e[order[k]].selectivity = EstimateSelectivity(Ordered(k))
    <3>1. order[k] \in 1 .. n /\ Ordered(k) = bgp[order[k]]
      BY <1>4, <1>5
    <3>2. e[order[k]] = EstimatePatternCost(Ordered(k), indexes)
      BY <1>3, <3>1
    <3> QED BY <3>2 DEF EstimatePatternCost
  <2> QED BY <1>5, <1>7, <2>1, <2>2, SelectivityIsWeight
<1>11. TakenBy(order, 1) = {} /\ BoundBy(e, {}) = {}
  BY DEF TakenBy, BoundBy
<1>12. \A j \in (1 .. n) \ {order[1]} : Earlier(Selectivities(e, 1 .. n), order[1], j)
  <2>1. PICK left, bound : /\ left = (1 .. n) \ TakenBy(order, 1)
                           /\ bound = BoundBy(e, TakenBy(order, 1))
    OBVIOUS
  <2>2. bound = {} => \A j \in left \ {order[1]} :
                        Earlier(Selectivities(e, left), order[1], j)
    BY <1>4, <1>6, <2>1, GreedyTakes
  <2>3. left = 1 .. n /\ bound = {}
    BY <1>11, <2>1
  <2> QED BY <2>2, <2>3
<1>13. f[1] <= f[i] \/ Smallest[2] * f[1] <= Smallest[1] * total
  <2>1. CASE order[i] = order[1]
    <3>1. f[1] = f[i]
      BY <1>5, <1>6, <1>9, <2>1 DEF matches
    <3>2. f[i] \in Nat
      BY <1>6, <1>10
    <3> QED BY <3>1, <3>2
  <2>2. CASE order[i] # order[1]
    <3>1. Earlier(Selectivities(e, 1 .. n), order[1], order[i])
      BY <1>4, <1>6, <1>12, <2>2
    <3>2. PICK x, y : x = Weight(f[1], total) /\ y = Weight(f[i], total)
      OBVIOUS
    <3>3. /\ Selectivities(e, 1 .. n)[order[1]] = x
          /\ Selectivities(e, 1 .. n)[order[i]] = y
      BY <1>4, <1>6, <1>10, <3>2 DEF Selectivities
    <3>4. Below(x, y) \/ ~Below(y, x)
      BY <3>1, <3>3 DEF Earlier
    <3>5. IsFraction(x) /\ IsFraction(y)
      BY <1>4, <1>6, <1>10, <3>2 DEF AreEstimates
    <3>6. ~Below(y, x)
      BY <3>4, <3>5, BelowIsAsymmetric
    <3>7. f[1] \in Nat /\ f[i] \in Nat
      BY <1>6, <1>10
    <3> QED BY <1>7, <3>2, <3>6, <3>7, RarerFirst
  <2> QED BY <2>1, <2>2
<1> QED BY <1>6, <1>9, <1>13

(* JoinOrderOptimizer with statistics that were built while nothing was    *)
(* added: a plan of patterns ?x <p> ?y starts with a predicate that no     *)
(* other one of them has fewer triples of, but for those that have no more *)
(* than the ten-thousandth part of all triples.                            *)
THEOREM RarestFirst == Spec => []PlansStartWithTheRarest
BY OptimizerAlways, RarestIsFirst, PTL
=============================================================================
