----------------------------- MODULE RdfDelete ------------------------------
(***************************************************************************)
(* RDF.DELETE: a pattern of three components becomes one query that        *)
(* deletes edges, and with ORPHANS a second one that deletes nodes without *)
(* edges.  Either may fail.  Between commands triples are inserted and     *)
(* prefixes bound.                                                         *)
(*                                                                         *)
(* The triples a client asserts and the edges in the graph are different   *)
(* things: literals are properties and types are labels, and no query here *)
(* removes those.  asserted says what the triples should be by the meaning *)
(* of the commands; the graph is what the queries make it.  That the graph *)
(* is in rdf:graphs is checked first; GraphRegistry has that check.        *)
(***************************************************************************)
EXTENDS GraphMapping

CONSTANTS
    Triples,       \* what is inserted
    Patterns,      \* [s, p, o, named, orphans]; named: with GRAPH.  s, p, o are
                   \* of kind any, full, prefixed, blank or literal: *, <text>,
                   \* prefix:name, _:label, "literal"
    PrefixNames, Uris,
    PrefixOf,      \* PrefixOf[text]: what stands before its colon, or None
                   \* for a text that starts with http
    Concat,        \* Concat[text][uri]: uri and what stands after the colon
    LiteralLabel,  \* the label "Literal"
    ValueName,     \* the property name "value"
    None,
    MaxInserts, MaxBinds, MaxDeletes  \* bounds

Kinds == {"any", "full", "prefixed", "blank", "literal"}

ASSUME TriplesAssumption ==
    \A t \in Triples :
        /\ t.s \in Terms /\ t.p \in Predicates /\ t.o \in Terms \cup Literals
        /\ t.p = RdfType => t.o \in Iris

ASSUME PatternsAssumption ==
    \A q \in Patterns :
        /\ q.named \in BOOLEAN /\ q.orphans \in BOOLEAN
        /\ \A c \in {q.s, q.p, q.o} :
             /\ c.kind \in Kinds
             /\ c.kind = "literal" => c.of \in Literals

ASSUME NoneAssumption == None \notin {"ok", "error"}

VARIABLES
    graph, bindings,
    phase,     \* idle, edges (before the first query), orphans
    pattern,   \* of the command that runs or ran last
    reply,     \* None, "ok" or "error"
    asserted,  \* history: the triples, by what the commands mean
    plain,     \* history: no delete so far was of an unclear meaning
    origin,    \* history: the graph before the command and what it repeats
    inserts, binds, deletes

vars == <<graph, bindings, phase, pattern, reply, asserted, plain, origin,
          inserts, binds, deletes>>
counts == <<inserts, binds, deletes>>

Init ==
    /\ graph = EmptyGraph /\ origin = EmptyGraph
    /\ bindings = Empty
    /\ phase = "idle" /\ pattern = None /\ reply = None
    /\ asserted = {} /\ plain = TRUE
    /\ inserts = 0 /\ binds = 0 /\ deletes = 0
-----------------------------------------------------------------------------
(* Components *)

(* expand_prefix is asked for every text that does not start with http:    *)
(* the brackets of a full IRI are gone by then.                            *)
Expand(text) ==
    IF PrefixOf[text] \in DOMAIN bindings
    THEN Concat[text][bindings[PrefixOf[text]]] ELSE text

(* The rest are literals, looked for in the property value of the node, a  *)
(* string.                                                                 *)
NodeMatches(c, g, n) ==
    CASE c.kind = "any" -> TRUE
      [] c.kind \in {"full", "prefixed"} -> n = Expand(c.of)
      [] c.kind = "blank" -> n = c.of
      [] OTHER ->
           /\ <<n, ValueName>> \in DOMAIN g.props
           /\ g.props[<<n, ValueName>>] = [kind |-> "quoted", of |-> c.of]

(* Only an IRI makes a condition on the predicate.                         *)
EdgeMatches(c, p) == c.kind \in {"full", "prefixed"} => p = Expand(c.of)

MatchingAnyGraph(g, q) ==
    {e \in g.edges : /\ NodeMatches(q.s, g, e[1])
                     /\ EdgeMatches(q.p, e[2])
                     /\ NodeMatches(q.o, g, e[3])}

(* r.graph is never set, so with GRAPH no edge matches.                    *)
Matching(g, q) ==
    {e \in g.edges : /\ ~q.named
                     /\ NodeMatches(q.s, g, e[1])
                     /\ EdgeMatches(q.p, e[2])
                     /\ NodeMatches(q.o, g, e[3])}
-----------------------------------------------------------------------------
(* Queries *)

(* Deleting a node deletes its edges.                                      *)
WithoutNodes(g, ns) ==
    [nodes  |-> g.nodes \ ns,
     labels |-> {l \in g.labels : l[1] \notin ns},
     edges  |-> {e \in g.edges : e[1] \notin ns /\ e[3] \notin ns},
     props  |-> Restrict(g.props, {k \in DOMAIN g.props : k[1] \notin ns})]

WithoutEdges(g, es) == [g EXCEPT !.edges = @ \ es]

(* The objects that the first query deletes too: those labelled Literal    *)
(* that no edge points to any more.  No code makes such nodes, but an      *)
(* rdf:type with that local name does.                                     *)
LiteralNodes(g, q) ==
    IF q.o.kind \notin {"any", "literal"} THEN {}
    ELSE {e[3] : e \in {m \in Matching(g, q) : <<m[3], LiteralLabel>> \in g.labels}}
         \ {e[3] : e \in g.edges \ Matching(g, q)}

DetachDeleted(g, q) ==
    WithoutNodes(WithoutEdges(g, Matching(g, q)), {e[3] : e \in Matching(g, q)})

Deleted(g, q) ==
    WithoutNodes(WithoutEdges(g, Matching(g, q)), LiteralNodes(g, q))

Isolated(g) == {n \in g.nodes : \A e \in g.edges : n # e[1] /\ n # e[3]}

CleanedOfBlanks(g) == WithoutNodes(g, Isolated(g) \cap Blanks)

(* generate_orphan_cleanup_query: every node without an edge.              *)
Cleaned(g) == WithoutNodes(g, Isolated(g))
-----------------------------------------------------------------------------
(* What a pattern means: <text> is that IRI, a literal is an object, and   *)
(* triples are in no named graph.                                          *)
Means(c, x) ==
    CASE c.kind = "any" -> TRUE
      [] c.kind = "prefixed" -> x = Expand(c.of)
      [] OTHER -> x = c.of

Meant(q) == {t \in asserted : /\ ~q.named
                              /\ Means(q.s, t.s) /\ Means(q.p, t.p) /\ Means(q.o, t.o)}

(* Patterns the code reads as they are meant: an IRI or * for the          *)
(* predicate, no full IRI with a bound prefix before its colon, no literal *)
(* that is the value of a node, no object labelled Literal.                *)
ReadAsMeant(q) ==
    /\ q.p.kind \in {"any", "full", "prefixed"}
    /\ \A c \in {q.s, q.p, q.o} : c.kind = "full" => Expand(c.of) = c.of
    /\ \A c \in {q.s, q.o} :
         c.kind = "literal" => \A n \in graph.nodes : ~NodeMatches(c, graph, n)
    /\ LiteralNodes(graph, q) = {}

Quiet == phase = "idle" /\ reply' = None /\ UNCHANGED <<phase, pattern, origin, plain>>

Insert(t) ==
    /\ inserts < MaxInserts /\ inserts' = inserts + 1
    /\ Quiet
    /\ graph' = Union(graph, TripleGraph(t))
    /\ asserted' = asserted \cup {t}
    /\ UNCHANGED <<bindings, binds, deletes>>

(* RDF.NAMESPACES ADD and REMOVE.                                          *)
Bind(p, u) ==
    /\ binds < MaxBinds /\ binds' = binds + 1
    /\ Quiet
    /\ bindings' = Override(bindings, [k \in {p} |-> u])
    /\ UNCHANGED <<graph, asserted, inserts, deletes>>

Unbind(p) ==
    /\ p \in DOMAIN bindings
    /\ Quiet
    /\ bindings' = Restrict(bindings, DOMAIN bindings \ {p})
    /\ UNCHANGED <<graph, asserted, counts>>

Delete(q) ==
    /\ phase = "idle"
    /\ deletes < MaxDeletes /\ deletes' = deletes + 1
    /\ phase' = "edges" /\ pattern' = q /\ reply' = None
    /\ origin' = IF reply = "error" /\ pattern = q THEN origin ELSE graph
    /\ UNCHANGED <<graph, bindings, asserted, plain, inserts, binds>>

DeleteEdges ==
    /\ phase = "edges"
    /\ graph' = Deleted(graph, pattern)
    /\ asserted' = asserted \ Meant(pattern)
    /\ plain' = (plain /\ ReadAsMeant(pattern))
    /\ IF pattern.orphans THEN phase' = "orphans" /\ UNCHANGED reply
       ELSE phase' = "idle" /\ reply' = "ok"
    /\ UNCHANGED <<bindings, pattern, origin, counts>>

CleanUp ==
    /\ phase = "orphans"
    /\ graph' = Cleaned(graph)
    /\ phase' = "idle" /\ reply' = "ok"
    /\ UNCHANGED <<bindings, pattern, asserted, plain, origin, counts>>

QueryFailsUnseen ==
    /\ phase \in {"edges", "orphans"}
    /\ phase' = "idle" /\ reply' = IF phase = "orphans" THEN "ok" ELSE "error"
    /\ UNCHANGED <<graph, bindings, pattern, asserted, plain, origin, counts>>

(* An error of either query is the command's answer.                       *)
QueryFails ==
    /\ phase \in {"edges", "orphans"}
    /\ phase' = "idle" /\ reply' = "error"
    /\ UNCHANGED <<graph, bindings, pattern, asserted, plain, origin, counts>>

Next == \/ \E t \in Triples : Insert(t)
        \/ \E p \in PrefixNames : Unbind(p) \/ \E u \in Uris : Bind(p, u)
        \/ \E q \in Patterns : Delete(q)
        \/ DeleteEdges \/ CleanUp \/ QueryFails

Spec == Init /\ [][Next]_vars
-----------------------------------------------------------------------------
(* Properties *)

Closed(g) == /\ \A l \in g.labels : l[1] \in g.nodes
             /\ \A e \in g.edges : e[1] \in g.nodes /\ e[3] \in g.nodes
             /\ \A k \in DOMAIN g.props : k[1] \in g.nodes

(* The graph has no dangling edges, labels or properties.                  *)
TypeOK ==
    /\ graph.nodes \subseteq Terms /\ Closed(graph)
    /\ \A p \in DOMAIN bindings : p \in PrefixNames /\ bindings[p] \in Uris
    /\ phase \in {"idle", "edges", "orphans"}
    /\ pattern \in Patterns \cup {None}
    /\ reply \in {None, "ok", "error"}
    /\ asserted \subseteq Triples /\ plain \in BOOLEAN

EdgesOf(triples) == {<<t.s, t.p, t.o>> : t \in {u \in triples : IsEdge(u)}}

(* The edges are the asserted triples between resources: a pattern removes *)
(* those it means and no other, whatever prefixes were bound to when it    *)
(* was sent, also when its second query failed and it was sent again.      *)
EdgesAreTriples == plain => graph.edges = EdgesOf(asserted)

(* Sending a failed command again has the effect of one that did not fail. *)
RetryCompletes ==
    phase = "idle" /\ reply = "ok"
    => graph = IF pattern.orphans THEN Cleaned(Deleted(origin, pattern))
               ELSE Deleted(origin, pattern)

(* A triple can be found in the graph, as a label, a property or an edge.  *)
Shows(g, t) ==
    CASE IsLabel(t) -> <<t.s, TypeLabel[t.o]>> \in g.labels
      [] IsProperty(t) ->
           /\ <<t.s, LocalName[t.p]>> \in DOMAIN g.props
           /\ g.props[<<t.s, LocalName[t.p]>>] = ValueRepr(t.o)
      [] OTHER -> <<t.s, t.p, t.o>> \in g.edges

(* No triple goes with another one's deletion: what the pattern does not   *)
(* mean can be found as before the first query, be it the literal or the   *)
(* type of a node whose edges go.                                          *)
OnlyMeantTriplesGo ==
    [][phase = "edges" /\ plain'
       => \A t \in asserted \ Meant(pattern) : Shows(graph, t) => Shows(graph', t)]_vars

(* "Delete All Triples About a Subject": the triples that the pattern      *)
(* means cannot be found any more.                                         *)
MeantTriplesGo ==
    [][phase = "edges" /\ plain' /\ reply' # "error"
       => \A t \in Meant(pattern) : ~Shows(graph', t)]_vars

Connected(g, n) == \E e \in g.edges : n = e[1] \/ n = e[3]

(* When ORPHANS was answered without an error, a node that had an edge     *)
(* before the command, and before failed ones that it repeats, is there if *)
(* and only if an asserted triple still connects it.                       *)
OrphansAreCleanedUp ==
    plain /\ phase = "idle" /\ reply = "ok" /\ pattern.orphans
    => \A n \in origin.nodes :
         Connected(origin, n)
         => (n \in graph.nodes <=> \E e \in EdgesOf(asserted) : n \in {e[1], e[3]})

(* "ORPHANS: Also delete nodes that become orphaned": a node that goes had *)
(* an edge when the command was sent, or nothing is asserted of it.        *)
OrphansLostAnEdge ==
    [][phase = "orphans" /\ phase' = "idle"
       => \A n \in graph.nodes \ graph'.nodes :
            n \in Isolated(origin) => \A t \in asserted : t.s # n]_vars
=============================================================================
