------------------------- MODULE JoinOrderOptimizer -------------------------
(***************************************************************************)
(* JoinOrderOptimizer of src/mapper/src/query/optimizer.rs, which orders   *)
(* the triple patterns of a basic graph pattern by what the Statistics say *)
(* that a collector built.  Its floats are fractions here, pairs of a      *)
(* numerator and a denominator; total_cost, which chooses nothing, is left *)
(* out.                                                                    *)
(***************************************************************************)
EXTENDS StatisticsCollector

CONSTANTS
    Bgps,       \* the patterns to order, sequences of records of terms s, p, o
    HashIri,    \* hash_iri: from IRIs to ids
    RdfType,    \* the IRI of rdf:type
    Indexed     \* what an IndexManager answers: functions from ids to fractions

(* Fractions have a numerator and a denominator.                           *)
IsFraction(x) == x[1] \in Nat /\ x[2] \in Nat \ {0}

ASSUME BgpsAssumption ==
    \A patterns \in Bgps :
        /\ patterns \in Seq(Range(patterns))
        /\ \A pattern \in Range(patterns) :
             pattern.p.k = "iri" => pattern.p.of \in DOMAIN HashIri
ASSUME IndexedAssumption ==
    \A indexes \in Indexed : \A iri \in DOMAIN HashIri : IsFraction(indexes[HashIri[iri]])

VARIABLES
    bgp,        \* the patterns of the last request
    plan        \* its answer

vars == <<collecting, counting, bgp, plan>>

Variable(x) == [k |-> "var", of |-> x]
Named(i) == [k |-> "iri", of |-> i]
IsVariable(t) == t.k = "var"

PatternVars(pattern) ==
    {x.of : x \in {t \in {pattern.s, pattern.p, pattern.o} : IsVariable(t)}}
-----------------------------------------------------------------------------
(* Fractions as weights *)

Times(x, y) == <<x[1] * y[1], x[2] * y[2]>>
Below(x, y) == x[1] * y[2] < y[1] * x[2]
AtLeast(x, y) == IF Below(x, y) THEN y ELSE x
Inverse1(n) == <<1, IF n = 0 THEN 1 ELSE n>>

(* Of two positions, the one with the smaller weight; of equals, the first.*)
Earlier(weight, i, j) ==
    \/ Below(weight[i], weight[j])
    \/ ~Below(weight[j], weight[i]) /\ i < j

FirstBy(weight) ==
    CHOOSE i \in DOMAIN weight : \A j \in DOMAIN weight \ {i} : Earlier(weight, i, j)
-----------------------------------------------------------------------------
(* The estimates for one pattern *)

FullScan == [use |-> "scan"]
IsTypePattern(pattern) == pattern.p = Named(RdfType)

(* get_hint, or the optimizer's own choice when it has no IndexManager.    *)
IndexHint(pattern, indexes) ==
    IF IsTypePattern(pattern) /\ pattern.o.k = "iri"
    THEN [use |-> "type", id |-> HashIri[pattern.o.of]]
    ELSE IF pattern.p.k = "iri"
    THEN LET id == HashIri[pattern.p.of] IN
         [use |-> "predicate", id |-> id,
          selectivity |-> IF indexes = None THEN PredicateSelectivity(id) ELSE indexes[id]]
    ELSE FullScan

Smallest == <<1, 10000>>

EstimateSelectivity(pattern) ==
    LET s == IF IsVariable(pattern.s) THEN <<1, 1>> ELSE Inverse1(stats.distinct_subjects)
        p == IF pattern.p.k = "iri" THEN PredicateSelectivity(HashIri[pattern.p.of])
             ELSE <<1, 1>>
        o == IF IsVariable(pattern.o) THEN <<1, 1>> ELSE Inverse1(stats.distinct_objects)
    IN AtLeast(Times(Times(s, p), o), Smallest)

EstimatePatternCost(pattern, indexes) ==
    LET selectivity == EstimateSelectivity(pattern) IN
    [pattern |-> pattern, selectivity |-> selectivity,
     cardinality |-> Times(<<IF stats.triple_count = 0 THEN 1 ELSE stats.triple_count, 1>>,
                           selectivity),
     hint |-> IndexHint(pattern, indexes)]

(* By the number of bound terms; half of it for patterns of types.         *)
EstimatePatternCostHeuristic(pattern) ==
    LET bound == Cardinality({f \in {"s", "p", "o"} : ~IsVariable(pattern[f])})
        byBound == CASE bound = 3 -> <<1, 1000>> [] bound = 2 -> <<1, 100>>
                     [] bound = 1 -> <<1, 10>> [] OTHER -> <<1, 1>>
        selectivity == IF IsTypePattern(pattern) THEN Times(byBound, <<1, 2>>) ELSE byBound
    IN [pattern |-> pattern, selectivity |-> selectivity,
        cardinality |-> Times(<<1000, 1>>, selectivity),
        hint |-> IF IsTypePattern(pattern) /\ pattern.o.k # "iri" THEN FullScan
                 ELSE IF pattern.p.k = "iri" /\ ~IsTypePattern(pattern)
                 THEN [use |-> "predicate", id |-> HashIri[pattern.p.of],
                       selectivity |-> selectivity]
                 ELSE IndexHint(pattern, None)]

(* The cost model's defaults: an index costs a tenth, one of types half of *)
(* that.                                                                   *)
Cost(estimate) ==
    Times(estimate.cardinality,
          CASE estimate.hint.use = "scan" -> <<1, 1>>
            [] estimate.hint.use = "type" -> <<1, 20>>
            [] estimate.hint.use = "predicate" ->
                 Times(<<1, 10>>, estimate.hint.selectivity))
-----------------------------------------------------------------------------
(* The order *)

SharesAny(estimate, bound) == PatternVars(estimate.pattern) \cap bound # {}

Selectivities(estimates, left) == [i \in left |-> estimates[i].selectivity]

Scores(estimates, left, bound) ==
    [i \in left |-> Times(Cost(estimates[i]),
                         IF SharesAny(estimates[i], bound) THEN <<1, 10>> ELSE <<1, 1>>)]

FindMostSelective(estimates, left, bound) == FirstBy(Selectivities(estimates, left))

(* Without bound variables, the most selective; then the cheapest, where   *)
(* sharing a variable makes a pattern ten times cheaper.                   *)
FindBestNextPattern(estimates, left, bound) ==
    IF bound = {} THEN FirstBy(Selectivities(estimates, left))
    ELSE FirstBy(Scores(estimates, left, bound))

BoundBy(estimates, taken) == UNION {PatternVars(estimates[i].pattern) : i \in taken}

(* Patterns are taken out one by one.                                      *)
GreedyOrder(estimates) ==
    LET positions == DOMAIN estimates IN
    CHOOSE order \in [positions -> positions] :
        \A n \in positions :
            LET taken == {order[m] : m \in 1 .. n - 1} IN
            order[n] = FindBestNextPattern(estimates, positions \ taken,
                                           BoundBy(estimates, taken))

(* A stable sort by selectivity.                                           *)
SortedOrder(estimates) ==
    LET positions == DOMAIN estimates IN
    CHOOSE order \in [positions -> positions] :
        \A n \in positions : \A m \in 1 .. n - 1 :
            Earlier(Selectivities(estimates, positions), order[m], order[n])

BoundAtStep(estimates) == [n \in DOMAIN estimates |-> BoundBy(estimates, 1 .. n)]

PlanOf(estimates, order) ==
    LET ordered == [n \in DOMAIN order |-> estimates[order[n]]]
    IN [patterns |-> ordered, bound_at_step |-> BoundAtStep(ordered)]

OptimizeWithStatistics(patterns, indexes) ==
    LET estimates == [i \in DOMAIN patterns |-> EstimatePatternCost(patterns[i], indexes)]
    IN PlanOf(estimates, GreedyOrder(estimates))

OptimizeHeuristic(patterns) ==
    LET estimates == [i \in DOMAIN patterns |-> EstimatePatternCostHeuristic(patterns[i])]
    IN PlanOf(estimates, SortedOrder(estimates))
-----------------------------------------------------------------------------
NoPlan == [by |-> "none", patterns |-> << >>, bound_at_step |-> << >>]
With(result, by) == [by |-> by, patterns |-> result.patterns,
                     bound_at_step |-> result.bound_at_step]

Init == InitCollector /\ bgp = << >> /\ plan = NoPlan

(* The optimizer is asked when no call is on its way, which is no loss: it *)
(* reads Statistics that nobody changes any more.                          *)
Optimize(patterns) ==
    /\ Idle /\ plan = NoPlan
    /\ bgp' = patterns
    /\ \/ \E indexes \in Indexed \cup {None} :
            plan' = With(OptimizeWithStatistics(patterns, indexes),
                         IF indexes = None THEN "statistics" ELSE "indexes")
       \/ plan' = With(OptimizeHeuristic(patterns), "heuristic")
    /\ UNCHANGED <<collecting, counting>>

Forget ==
    /\ plan # NoPlan
    /\ bgp' = << >> /\ plan' = NoPlan
    /\ UNCHANGED <<collecting, counting>>

Next ==
    \/ plan = NoPlan /\ CollectorNext /\ UNCHANGED <<bgp, plan>>
    \/ \E patterns \in Bgps : Optimize(patterns)
    \/ Forget

Spec == Init /\ [][Next]_vars
-----------------------------------------------------------------------------
(* Properties *)

Ordered(i) == plan.patterns[i].pattern
Steps == DOMAIN plan.patterns

(* Statistics that were built while nothing was added, of triples whose    *)
(* ids are those of hash_iri, give a plan of patterns ?x <p> ?y that       *)
(* starts with a predicate that no other one has fewer triples of, or that *)
(* has no more than the ten-thousandth part of them: selectivities below   *)
(* Smallest are all the same to the optimizer.                             *)
IdsAreHashes == Predicates(Triples) \subseteq Range(HashIri) /\ IsInjective(HashIri)

PlansStartWithTheRarest ==
    /\ plan.by = "statistics" /\ plan.patterns # << >>
    /\ window.sound /\ window.low = window.high /\ stats.triple_count > 0
    /\ IdsAreHashes
    /\ \A i \in Steps : IsVariable(Ordered(i).s) /\ IsVariable(Ordered(i).o)
                        /\ Ordered(i).p.k = "iri"
    => LET matches(i) == SumOf(window.high, Of(HashIri[Ordered(i).p.of], Triples)) IN
       \A i \in Steps : \/ matches(1) <= matches(i)
                        \/ Smallest[2] * matches(1) <= Smallest[1] * stats.triple_count

(* No set of the patterns is apart from the others.                        *)
Connected(patterns) ==
    \A part \in SUBSET DOMAIN patterns :
        part # {} /\ part # DOMAIN patterns =>
            \E i \in part, j \in DOMAIN patterns \ part :
                PatternVars(patterns[i]) \cap PatternVars(patterns[j]) # {}

Comparable ==
    \A i, j \in Steps : Below(Cost(plan.patterns[i]), Times(<<10, 1>>, Cost(plan.patterns[j])))

(* A plan is the patterns in another order, each with the variables that   *)
(* are bound after it.  With statistics, and if no pattern costs ten times *)
(* as much as another one, patterns that are connected are joined one to   *)
(* the others: no step is a product.                                       *)
PlansAvoidProducts ==
    /\ \E order \in [Steps -> Steps] :
         IsInjective(order) /\ \A i \in Steps : Ordered(i) = bgp[order[i]]
    /\ Len(plan.patterns) = Len(bgp)
    /\ plan.bound_at_step = BoundAtStep(plan.patterns)
    /\ plan.by \in {"statistics", "indexes"} /\ Comparable /\ Connected(bgp) =>
         \A i \in Steps \ {1} :
             PatternVars(Ordered(i)) \cap plan.bound_at_step[i - 1] # {}
=============================================================================
