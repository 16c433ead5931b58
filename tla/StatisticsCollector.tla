------------------------ MODULE StatisticsCollector ------------------------
(***************************************************************************)
(* StatisticsCollector and the Statistics it builds, of                    *)
(* src/storage/src/statistics.rs.  Threads share one collector; every      *)
(* field has a lock of its own (count is an atomic), and a call takes one  *)
(* after the other: it is a sequence of sections, with other threads in    *)
(* between.                                                                *)
(***************************************************************************)
EXTENDS Naturals, Sequences, FiniteSets, Functions

CONSTANTS
    Threads,
    Triples,   \* records of the ids s, p and o
    TypeIds,   \* what add_type may be given beside a subject
    None,      \* no call; no statistics
    MaxCalls   \* bound on the number of calls

ASSUME ThreadsAssumption == IsFiniteSet(Threads)
ASSUME TriplesAssumption == IsFiniteSet(Triples)

VARIABLES
    collector, \* the fields, by name
    call,      \* per thread: the call it is in
    todo,      \* per thread: the sections that are left of it
    building,  \* per thread: the Statistics its build has so far
    stats,     \* the Statistics that were built last
    calls,     \* calls made
    begun, ended, \* history: how often add_triple was called, and returned
    before,    \* per thread, history: ended when its build began
    window,    \* history: of the build that gave stats, before, begun and ~torn
    torn       \* history: a clear overlapped another call

collecting == <<collector, call, todo, building, stats, calls>>
counting == <<begun, ended, before, window, torn>>

Subjects(ts) == {t.s : t \in ts}
Predicates(ts) == {t.p : t \in ts}
Objects(ts) == {t.o : t \in ts}

None0 == [t \in Triples |-> 0]
EmptyCollector == [subjects |-> {}, predicates |-> {}, objects |-> {},
                   edges |-> None0, types |-> {}, count |-> 0]
EmptyStatistics == [triple_count |-> 0, distinct_subjects |-> 0, distinct_predicates |-> 0,
                    distinct_objects |-> 0, predicate_frequency |-> << >>,
                    predicate_histograms |-> << >>, type_distribution |-> << >>]

InitCollector ==
    /\ collector = EmptyCollector
    /\ call = [t \in Threads |-> None] /\ todo = [t \in Threads |-> << >>]
    /\ building = [t \in Threads |-> EmptyStatistics]
    /\ stats = EmptyStatistics /\ calls = 0
    /\ begun = None0 /\ ended = None0 /\ before = [t \in Threads |-> None0]
    /\ window = [low |-> None0, high |-> None0, sound |-> TRUE] /\ torn = FALSE
-----------------------------------------------------------------------------
(* Calls and their sections *)

Calls == {[op |-> "add_triple", triple |-> t] : t \in Triples}
         \cup {[op |-> "add_type", s |-> s, type |-> i] : s \in Subjects(Triples), i \in TypeIds}
         \cup {[op |-> "build"], [op |-> "clear"]}

BuildSectionsEdgesFirst == <<"edges", "count", "subjects", "predicates", "objects", "types">>
BuildSections == <<"count", "subjects", "predicates", "objects", "edges", "types">>

Sections(c) ==
    CASE c.op = "add_triple" -> <<"subjects", "predicates", "objects", "edges", "count">>
      [] c.op = "add_type" -> <<"types">>
      [] c.op = "build" -> BuildSections
      [] c.op = "clear" -> <<"subjects", "predicates", "objects", "edges", "types", "count">>

Running(t) == todo[t] # << >>
Idle == \A t \in Threads : ~Running(t)

(* A clear that runs alone starts the history again.                       *)
Begin(t, c) ==
    LET others == {call[u].op : u \in {v \in Threads \ {t} : Running(v)}} IN
    /\ ~Running(t) /\ calls < MaxCalls
    /\ calls' = calls + 1
    /\ call' = [call EXCEPT ![t] = c]
    /\ todo' = [todo EXCEPT ![t] = Sections(c)]
    /\ building' = [building EXCEPT ![t] = EmptyStatistics]
    /\ torn' = IF c.op = "clear" THEN others # {} ELSE torn \/ "clear" \in others
    /\ begun' = CASE c.op = "add_triple" -> [begun EXCEPT ![c.triple] = @ + 1]
                  [] c.op = "clear" -> None0
                  [] OTHER -> begun
    /\ ended' = IF c.op = "clear" THEN None0 ELSE ended
    /\ before' = [before EXCEPT ![t] = IF c.op = "build" THEN ended ELSE None0]
    /\ UNCHANGED <<collector, stats, window>>

(* Thread t, in a call op, does what section name does.                    *)
Section(t, op, name) ==
    /\ Running(t) /\ call[t].op = op /\ Head(todo[t]) = name
    /\ todo' = [todo EXCEPT ![t] = Tail(@)]
    /\ call' = IF Len(todo[t]) = 1 THEN [call EXCEPT ![t] = None] ELSE call
    /\ before' = IF Len(todo[t]) = 1 THEN [before EXCEPT ![t] = None0] ELSE before
    /\ UNCHANGED <<calls, begun, torn>>

Fill(t, name, value) ==
    /\ Section(t, "add_triple", name)
    /\ collector' = [collector EXCEPT ![name] = value]
    /\ ended' = IF name = "count" THEN [ended EXCEPT ![call[t].triple] = @ + 1] ELSE ended
    /\ UNCHANGED <<building, stats, window>>

(* The edges of a predicate are a Vec: an edge added twice is there twice. *)
AddTriple(t) ==
    LET triple == call[t].triple IN
    \/ Fill(t, "subjects", collector.subjects \cup {triple.s})
    \/ Fill(t, "predicates", collector.predicates \cup {triple.p})
    \/ Fill(t, "objects", collector.objects \cup {triple.o})
    \/ Fill(t, "edges", [collector.edges EXCEPT ![triple] = @ + 1])
    \/ Fill(t, "count", collector.count + 1)

AddType(t) ==
    /\ Section(t, "add_type", "types")
    /\ collector' = [collector EXCEPT !.types = @ \cup {<<call[t].type, call[t].s>>}]
    /\ UNCHANGED <<building, stats, ended, window>>

Clear(t) ==
    \E name \in DOMAIN collector :
        /\ Section(t, "clear", name)
        /\ collector' = [collector EXCEPT ![name] = EmptyCollector[name]]
        /\ UNCHANGED <<building, stats, ended, window>>
-----------------------------------------------------------------------------
(* build *)

SumOf(bag, ts) == FoldFunctionOnSet(+, 0, bag, ts)
Total(frequencies) == FoldFunction(+, 0, frequencies)
Present(bag) == {t \in Triples : bag[t] > 0}
Of(p, ts) == {t \in ts : t.p = p}

FrequenciesOfDistinct(edges) ==
    [p \in Predicates(Present(edges)) |-> Cardinality(Of(p, Present(edges)))]

Frequencies(edges) ==
    [p \in Predicates(Present(edges)) |-> SumOf(edges, Of(p, Triples))]

(* avg_objects_per_subject is count by distinct_subjects.                  *)
Histograms(edges) ==
    [p \in Predicates(Present(edges)) |->
        LET ts == Of(p, Present(edges)) IN
        [distinct_subjects |-> Cardinality(Subjects(ts)),
         distinct_objects |-> Cardinality(Objects(ts)),
         count |-> SumOf(edges, ts)]]

TypeCounts(types) ==
    [i \in {x[1] : x \in types} |-> Cardinality({x \in types : x[1] = i})]

Read(t, name, next) ==
    /\ Section(t, "build", name)
    /\ building' = [building EXCEPT ![t] = next]
    /\ UNCHANGED <<collector, ended>>

(* The average degrees are triple_count by distinct_subjects and by        *)
(* distinct_objects.                                                       *)
Build(t) ==
    LET b == building[t] IN
    \/ /\ \/ Read(t, "count", [b EXCEPT !.triple_count = collector.count])
          \/ Read(t, "subjects",
                  [b EXCEPT !.distinct_subjects = Cardinality(collector.subjects)])
          \/ Read(t, "predicates",
                  [b EXCEPT !.distinct_predicates = Cardinality(collector.predicates)])
          \/ Read(t, "objects",
                  [b EXCEPT !.distinct_objects = Cardinality(collector.objects)])
          \/ Read(t, "edges",
                  [b EXCEPT !.predicate_frequency = Frequencies(collector.edges),
                            !.predicate_histograms = Histograms(collector.edges)])
       /\ UNCHANGED <<stats, window>>
    \/ /\ Read(t, "types", EmptyStatistics)
       /\ stats' = [b EXCEPT !.type_distribution = TypeCounts(collector.types)]
       /\ window' = [low |-> before[t], high |-> begun, sound |-> ~torn]

CollectorStep(t) == AddTriple(t) \/ AddType(t) \/ Clear(t) \/ Build(t)

CollectorNext ==
    \E t \in Threads : CollectorStep(t) \/ \E c \in Calls : Begin(t, c)
-----------------------------------------------------------------------------
(* What the optimizer reads of Statistics.  A ratio is a pair.             *)

FrequencyOf(p) ==
    IF p \in DOMAIN stats.predicate_frequency THEN stats.predicate_frequency[p] ELSE 0

PredicateSelectivity(p) ==
    IF stats.triple_count = 0 THEN <<1, 1>> ELSE <<FrequencyOf(p), stats.triple_count>>
-----------------------------------------------------------------------------
(* Properties *)

Within(n, of(_)) == of(window.low) <= n /\ n <= of(window.high)

(* Every number lies between what the triples make that were in when build *)
(* began and what those make that had been begun when it ended.            *)
NumbersAreBetween ==
    /\ Within(stats.triple_count, LAMBDA bag : SumOf(bag, Triples))
    /\ Within(stats.distinct_subjects, LAMBDA bag : Cardinality(Subjects(Present(bag))))
    /\ Within(stats.distinct_predicates, LAMBDA bag : Cardinality(Predicates(Present(bag))))
    /\ Within(stats.distinct_objects, LAMBDA bag : Cardinality(Objects(Present(bag))))
    /\ \A p \in Predicates(Triples) :
         Within(FrequencyOf(p), LAMBDA bag : SumOf(bag, Of(p, Triples)))

(* add_triple counts a triple last and build reads the count first: what   *)
(* is counted is among the edges, so that selectivities sum up to at least *)
(* 1, and no average is a division of some triples by no node.             *)
CountedTriplesAreSeen ==
    /\ stats.triple_count <= Total(stats.predicate_frequency)
    /\ stats.triple_count > 0 =>
         0 \notin {stats.distinct_subjects, stats.distinct_predicates, stats.distinct_objects}

(* Statistics built beside threads that add triples describe the data as   *)
(* it is at some time of the build, each number for itself, unless a clear *)
(* overlapped one of these calls.                                          *)
BuiltStatisticsFit == window.sound => NumbersAreBetween /\ CountedTriplesAreSeen
=============================================================================
