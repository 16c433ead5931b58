---------------------------- MODULE GraphMapping ----------------------------
(***************************************************************************)
(* How RDF triples become a property graph: CypherGenerator, with the      *)
(* effect of the Cypher it writes.                                         *)
(*                                                                         *)
(* A graph is a record: its nodes (one per term, keyed by the uri          *)
(* property), the labels and the edges as sets, and the literal properties *)
(* as a function from <<node, name>> to a value.  MERGE makes nodes, labels *)
(* and edges sets; SET makes properties a function.                        *)
(*                                                                         *)
(* generate_triple maps one triple.  generate_batch first takes RDF        *)
(* collections out of the data, then writes one statement per subject.     *)
(***************************************************************************)
EXTENDS Naturals, Sequences, FiniteSets, SequencesExt

CONSTANTS
    Iris, Blanks,          \* terms
    Literals,              \* literals, by their text and datatype
    Numeric,               \* those whose text reads as a number or a boolean
    Dates,                 \* those of type xsd:date with a valid date
    DateTyped,             \* those of type xsd:date
    Predicates, LocalName, \* LocalName[p]: the identifier made of p's local name
    TypeLabel,             \* TypeLabel[i]: the label made of IRI i
    RdfType, RdfFirst, RdfRest, RdfNil

Terms == Iris \cup Blanks

ASSUME VocabularyAssumption ==
    /\ {RdfType, RdfFirst, RdfRest} \subseteq Predicates
    /\ RdfType \notin {RdfFirst, RdfRest} /\ RdfFirst # RdfRest /\ RdfNil \in Iris
    /\ Iris \cap Blanks = {} /\ Literals \cap Terms = {}
    /\ Dates \subseteq DateTyped /\ DateTyped \cup Numeric \subseteq Literals

Empty == << >>  \* the function with no keys

EmptyGraph == [nodes |-> {}, labels |-> {}, edges |-> {}, props |-> Empty]

(* What Cypher makes of the text that stands for a literal: a date, a      *)
(* number or boolean whatever its datatype, or a string.                   *)
ValueRepr(l) ==
    [kind |-> CASE l \in Dates -> "date"
                [] l \in Numeric \ DateTyped -> "bare"
                [] OTHER -> "quoted",
     of |-> l]

(* The elements of an array: an IRI is its string, a date is one too.      *)
ElementRepr(o) == [kind |-> IF o \in Numeric THEN "bare" ELSE "quoted", of |-> o]

Override(f, g) == [k \in DOMAIN f \cup DOMAIN g |->
                     IF k \in DOMAIN g THEN g[k] ELSE f[k]]

Union(g, h) == [nodes  |-> g.nodes \cup h.nodes,
                labels |-> g.labels \cup h.labels,
                edges  |-> g.edges \cup h.edges,
                props  |-> Override(g.props, h.props)]

IsLabel(t) == t.p = RdfType /\ t.o \in Iris
IsProperty(t) == t.p # RdfType /\ t.o \in Literals
IsEdge(t) == t.p # RdfType /\ t.o \in Terms

(* generate_triple: an rdf:type whose object is not an IRI is mapped like  *)
(* any other predicate.                                                    *)
TripleGraph(t) ==
    [nodes  |-> {t.s} \cup (IF ~IsLabel(t) /\ t.o \in Terms THEN {t.o} ELSE {}),
     labels |-> IF IsLabel(t) THEN {<<t.s, TypeLabel[t.o]>>} ELSE {},
     edges  |-> IF ~IsLabel(t) /\ t.o \in Terms THEN {<<t.s, t.p, t.o>>} ELSE {},
     props  |-> IF t.o \in Literals
                THEN [k \in {<<t.s, LocalName[t.p]>>} |-> ValueRepr(t.o)]
                ELSE Empty]

TripleByTriple(g, data) ==
    FoldLeft(LAMBDA h, t : Union(h, TripleGraph(t)), g, data)
-----------------------------------------------------------------------------
(* Collections: detect_and_extract_collections. *)

LastOf(data, ks) == data[CHOOSE k \in ks : \A j \in ks : j <= k]

(* The maps the first pass fills: a later entry replaces an earlier one.   *)
LastObjects(data, p) ==
    LET at(b) == {k \in DOMAIN data : data[k].s = b /\ data[k].p = p} IN
    [b \in {c \in Blanks : at(c) # {}} |-> LastOf(data, at(b)).o]

Heads(data) ==
    LET at(b) == {k \in DOMAIN data :
                    data[k].o = b /\ data[k].p \notin {RdfFirst, RdfRest}} IN
    [b \in {c \in Blanks : at(c) # {}} |->
        LET t == LastOf(data, at(b)) IN [s |-> t.s, name |-> LocalName[t.p]]]

(* The n-th cell of the list that starts at b, b being the 0-th; RdfNil    *)
(* once the list has ended, and b itself again on a list that does not.    *)
Cell(data, b) ==
    LET rest == LastObjects(data, RdfRest)
        cell[n \in Nat] ==
            IF n = 0 THEN b
            ELSE LET c == cell[n - 1] IN IF c \in DOMAIN rest THEN rest[c] ELSE c
    IN cell

(* No walk passes more cells without coming back to one.                   *)
LongestWalk(data) == Cardinality(DOMAIN LastObjects(data, RdfRest))

(* The length of the simple list that starts at b: every element is an IRI *)
(* or a literal and the last rest is rdf:nil; 0 for anything else.         *)
ListLength(data, b) ==
    LET first == LastObjects(data, RdfFirst)
        cell == Cell(data, b)
        ends == {n \in 1 .. LongestWalk(data) :
                   /\ cell[n] = RdfNil
                   /\ \A k \in 0 .. n - 1 :
                        cell[k] \in DOMAIN first /\ first[cell[k]] \notin Blanks}
    IN IF ends = {} THEN 0 ELSE CHOOSE n \in ends : TRUE

Lists(data) ==
    {b \in DOMAIN Heads(data) \cap DOMAIN LastObjects(data, RdfFirst) :
        ListLength(data, b) > 0}

ListCells(data) ==
    UNION {LET cell == Cell(data, b)
           IN {cell[n] : n \in 0 .. ListLength(data, b) - 1} : b \in Lists(data)}

ListValues(data, b) ==
    LET first == LastObjects(data, RdfFirst)
        cell == Cell(data, b)
    IN [kind |-> "array",
        of |-> [n \in 1 .. ListLength(data, b) |-> ElementRepr(first[cell[n - 1]])]]

(* The walk along a list stops at a cell without an element or with a      *)
(* blank one, and where the list ends.  The code has no guard against a    *)
(* list that comes back to one of its cells.                               *)
WalkStops(data, b) ==
    LET first == LastObjects(data, RdfFirst)
        cell == Cell(data, b)
        passed == {c \in DOMAIN first \cap DOMAIN LastObjects(data, RdfRest) :
                     first[c] \notin Blanks}
    IN \E n \in 0 .. LongestWalk(data) : cell[n] \notin passed

WalksEnd(data) ==
    \A b \in DOMAIN Heads(data) \cap DOMAIN LastObjects(data, RdfFirst) :
        WalkStops(data, b)

(* The triples that stay, by their positions.  Every triple about a cell   *)
(* of a list goes, and the triples by which the subject that is recorded   *)
(* for the list's head points to it.                                       *)
Remaining(data) ==
    LET used == ListCells(data)
        heads == Heads(data)
    IN {k \in DOMAIN data :
          /\ data[k].s \notin used
          /\ ~ /\ data[k].o \in used \cap DOMAIN heads
               /\ heads[data[k].o].s = data[k].s}
-----------------------------------------------------------------------------
(* Statements: generate_batch and generate_subject_query. *)

SubjectsOfTriples(data) == {data[k].s : k \in Remaining(data)}

(* Those of the remaining triples and those that get an array.             *)
Subjects(data) ==
    SubjectsOfTriples(data) \cup {Heads(data)[b].s : b \in Lists(data)}

LiteralsAt(data, key) ==
    {k \in DOMAIN data : IsProperty(data[k]) /\ key = <<data[k].s, LocalName[data[k].p]>>}

FirstLiteral(data, ks) == data[CHOOSE k \in ks : \A j \in ks : k <= j].o

(* SET takes the assignments in order: the last literal of a name stays.   *)
LastLiteral(data, ks) == LastOf(data, ks).o

ArrayKeys(data) == {<<Heads(data)[b].s, Heads(data)[b].name>> : b \in Lists(data)}

(* Arrays are set after the literals; of two arrays for one name either    *)
(* may be the later, for they come out of a HashMap.                       *)
ArrayChoices(data) ==
    {f \in [ArrayKeys(data) -> Lists(data)] :
        \A key \in ArrayKeys(data) :
            key = <<Heads(data)[f[key]].s, Heads(data)[f[key]].name>>}

SubjectProps(data, s, arrays) ==
    LET left == Remaining(data)
        keys == {<<s, LocalName[data[k].p]>> :
                    k \in {j \in left : data[j].s = s /\ IsProperty(data[j])}}
    IN Override([key \in keys |->
                    ValueRepr(LastLiteral(data, left \cap LiteralsAt(data, key)))],
                [key \in {k \in DOMAIN arrays : k[1] = s} |->
                    ListValues(data, arrays[key])])

SubjectGraphOf(data, s, arrays, targets) ==
    LET own == {data[k] : k \in {j \in Remaining(data) : data[j].s = s}} IN
    [nodes  |-> {s} \cup {t.o : t \in {u \in own : u.o \in targets}},
     labels |-> {<<s, TypeLabel[t.o]>> : t \in {u \in own : IsLabel(u)}},
     edges  |-> {<<s, t.p, t.o>> : t \in {u \in own : IsEdge(u)}},
     props  |-> SubjectProps(data, s, arrays)]

SubjectGraphBareEdges(data, s, arrays) ==
    SubjectGraphOf(data, s, arrays, {})

(* The one statement for subject s.  An rdf:type whose object is not an    *)
(* IRI leaves nothing but the node.                                        *)
SubjectGraph(data, s, arrays) ==
    LET own == {data[k] : k \in {j \in Remaining(data) : data[j].s = s}} IN
    [nodes  |-> {s} \cup {t.o : t \in {u \in own : IsEdge(u)}},
     labels |-> {<<s, TypeLabel[t.o]>> : t \in {u \in own : IsLabel(u)}},
     edges  |-> {<<s, t.p, t.o>> : t \in {u \in own : IsEdge(u)}},
     props  |-> SubjectProps(data, s, arrays)]

(* What generate_batch may return: a statement for each subject.           *)
Batches(data) ==
    {[s \in Subjects(data) |-> SubjectGraph(data, s, arrays)] :
        arrays \in ArrayChoices(data)}
-----------------------------------------------------------------------------
InList(data, t) == t.p \in {RdfFirst, RdfRest} /\ t.s \in ListCells(data)

(* A triple can be found again in the graph that its document became.      *)
Kept(g, data, t) ==
    CASE IsLabel(t) -> <<t.s, TypeLabel[t.o]>> \in g.labels
      [] InList(data, t) ->
           \E b \in Lists(data) : \E n \in 0 .. ListLength(data, b) - 1 :
               LET key == <<Heads(data)[b].s, Heads(data)[b].name>> IN
               /\ Cell(data, b)[n] = t.s
               /\ key \in DOMAIN g.props
               /\ g.props[key] = ListValues(data, b)
      [] t.o \in Literals /\ ~InList(data, t) ->
           LET key == <<t.s, LocalName[t.p]>> IN
           /\ key \in DOMAIN g.props
           /\ g.props[key] = ValueRepr(t.o)
      [] OTHER ->
           \/ <<t.s, t.p, t.o>> \in g.edges
           \/ LET key == <<t.s, LocalName[t.p]>> IN
              /\ t.o \in Lists(data)
              /\ key \in DOMAIN g.props
              /\ g.props[key] = ListValues(data, t.o)

(* Types are IRIs, a cell of a list has one first, one rest and nothing    *)
(* else and is referred to once, and no name of a subject stands for two   *)
(* lists or for a list and a literal.                                      *)
WellFormed(data) ==
    LET about(b) == {k \in DOMAIN data : data[k].s = b}
        to(b) == {k \in DOMAIN data : data[k].o = b}
        cells == {b \in Blanks : \E k \in about(b) : data[k].p \in {RdfFirst, RdfRest}}
    IN /\ \A k \in DOMAIN data : data[k].p = RdfType => data[k].o \in Iris
       /\ \A b \in cells :
            /\ Cardinality(about(b)) = 2 /\ Cardinality(to(b)) <= 1
            /\ {data[k].p : k \in about(b)} = {RdfFirst, RdfRest}
       /\ \A k, j \in DOMAIN data :
            /\ data[k].o \in cells /\ j # k /\ data[j].s = data[k].s
            /\ LocalName[data[j].p] = LocalName[data[k].p]
            => data[j].o \notin Literals \cup cells

(* No name of a subject stands for two literals.                           *)
OneLiteralPerName(data) ==
    \A k, j \in DOMAIN data :
        /\ data[k].s = data[j].s /\ LocalName[data[k].p] = LocalName[data[j].p]
        /\ data[k].o \in Literals /\ data[j].o \in Literals
        => data[k].o = data[j].o

(* The data of which the mapping keeps every triple.                       *)
WellMapped(data) == WellFormed(data) /\ OneLiteralPerName(data)
=============================================================================
