------------------------ MODULE DeleteAndQueryProofs ------------------------
(***************************************************************************)
(* Proofs about what RDF.DELETE leaves in a graph and what RDF.QUERY finds *)
(* in one.                                                                 *)
(*                                                                         *)
(* The first part is about RdfDelete: for every set of triples, patterns   *)
(* and namespaces, any number of commands and whichever queries fail.  The *)
(* second is about BasicPatterns: for any number of triple patterns on any *)
(* graph, the rows of the Cypher that the translator writes show the       *)
(* solutions that SPARQL gives the query over the triples that are edges.  *)
(* The last theorem puts them together.                                    *)
(***************************************************************************)
EXTENDS RdfDelete, BasicPatterns, TLAPS, FiniteSetTheorems, WellFoundedInduction

IsGraph(g) ==
    /\ g = [nodes |-> g.nodes, labels |-> g.labels, edges |-> g.edges, props |-> g.props]
    /\ g.props = [k \in DOMAIN g.props |-> g.props[k]]

(* The steps in which the graph changes, and how. *)
LEMMA GraphSteps ==
  ASSUME Next
  PROVE  \/ UNCHANGED <<graph, asserted, plain>>
         \/ \E t \in Triples : Insert(t)
         \/ DeleteEdges \/ CleanUp
<1>1. CASE \E p \in PrefixNames : Unbind(p) \/ \E u \in Uris : Bind(p, u)
  BY <1>1 DEF Unbind, Bind, Quiet
<1>2. CASE QueryFails \/ \E q \in Patterns : Delete(q)
  BY <1>2 DEF QueryFails, Delete
<1> QED BY <1>1, <1>2 DEF Next

LEMMA UnionFields ==
  ASSUME NEW g, NEW h
  PROVE  /\ IsGraph(Union(g, h))
         /\ Union(g, h).nodes = g.nodes \cup h.nodes
         /\ Union(g, h).labels = g.labels \cup h.labels
         /\ Union(g, h).edges = g.edges \cup h.edges
         /\ DOMAIN Union(g, h).props = DOMAIN g.props \cup DOMAIN h.props
BY DEF Union, Override, IsGraph

LEMMA WithoutFields ==
  ASSUME NEW g, NEW ns
  PROVE  /\ IsGraph(WithoutNodes(g, ns))
         /\ WithoutNodes(g, ns).nodes = g.nodes \ ns
         /\ WithoutNodes(g, ns).labels = {l \in g.labels : l[1] \notin ns}
         /\ WithoutNodes(g, ns).edges
              = {e \in g.edges : e[1] \notin ns /\ e[3] \notin ns}
         /\ DOMAIN WithoutNodes(g, ns).props
              = {k \in DOMAIN g.props : k[1] \notin ns}
         /\ \A k \in DOMAIN WithoutNodes(g, ns).props :
              WithoutNodes(g, ns).props[k] = g.props[k]
BY DEF WithoutNodes, Restrict, IsGraph

(* Deleting no nodes is deleting nothing. *)
LEMMA WithoutNone ==
  ASSUME NEW g, IsGraph(g)
  PROVE  WithoutNodes(g, {}) = g
<1>1. /\ {l \in g.labels : l[1] \notin {}} = g.labels
      /\ {e \in g.edges : e[1] \notin {} /\ e[3] \notin {}} = g.edges
      /\ {k \in DOMAIN g.props : k[1] \notin {}} = DOMAIN g.props
      /\ g.nodes \ {} = g.nodes
  OBVIOUS
<1>2. Restrict(g.props, DOMAIN g.props) = g.props
  BY DEF Restrict, IsGraph
<1> QED BY <1>1, <1>2 DEF WithoutNodes, IsGraph

LEMMA EdgesGone ==
  ASSUME NEW g, IsGraph(g), NEW es
  PROVE  /\ IsGraph(WithoutEdges(g, es))
         /\ WithoutEdges(g, es).nodes = g.nodes
         /\ WithoutEdges(g, es).labels = g.labels
         /\ WithoutEdges(g, es).edges = g.edges \ es
         /\ WithoutEdges(g, es).props = g.props
<1>1. WithoutEdges(g, es) = [nodes |-> g.nodes, labels |-> g.labels,
                             edges |-> g.edges \ es, props |-> g.props]
  BY DEF IsGraph, WithoutEdges
<1> QED BY <1>1 DEF IsGraph

(* The first query deletes the matching edges; where no object goes with   *)
(* them it deletes nothing else.                                           *)
LEMMA DeletedEdges ==
  ASSUME NEW g, IsGraph(g), NEW q
  PROVE  /\ IsGraph(Deleted(g, q))
         /\ Deleted(g, q).edges \subseteq g.edges \ Matching(g, q)
         /\ Deleted(g, q).nodes \subseteq g.nodes
         /\ DOMAIN Deleted(g, q).props \subseteq DOMAIN g.props
         /\ \A k \in DOMAIN Deleted(g, q).props :
              Deleted(g, q).props[k] = g.props[k]
         /\ LiteralNodes(g, q) = {} =>
              Deleted(g, q) = WithoutEdges(g, Matching(g, q))
<1> DEFINE h == WithoutEdges(g, Matching(g, q))
<1>1. /\ IsGraph(h) /\ h.nodes = g.nodes /\ h.props = g.props
      /\ h.edges = g.edges \ Matching(g, q)
  BY EdgesGone
<1>2. Deleted(g, q) = WithoutNodes(h, LiteralNodes(g, q))
  BY DEF Deleted
<1> HIDE DEF h
<1>3. LiteralNodes(g, q) = {} => Deleted(g, q) = h
  BY <1>1, <1>2, WithoutNone
<1>4. /\ IsGraph(Deleted(g, q))
      /\ Deleted(g, q).edges \subseteq h.edges
      /\ Deleted(g, q).nodes \subseteq h.nodes
      /\ DOMAIN Deleted(g, q).props \subseteq DOMAIN h.props
      /\ \A k \in DOMAIN Deleted(g, q).props : Deleted(g, q).props[k] = h.props[k]
  BY <1>2, WithoutFields
<1> QED BY <1>1, <1>3, <1>4 DEF h
-----------------------------------------------------------------------------
(* Graphs have no dangling edges, labels or properties.                    *)
GraphInv == IsGraph(graph) /\ Closed(graph)

LEMMA DeletedIsClosed ==
  ASSUME NEW g, IsGraph(g), Closed(g), NEW q
  PROVE  Closed(Deleted(g, q))
<1> DEFINE h == WithoutEdges(g, Matching(g, q))
<1>1. IsGraph(h) /\ Closed(h)
  BY EdgesGone DEF Closed
<1> HIDE DEF h
<1>2. Deleted(g, q) = WithoutNodes(h, LiteralNodes(g, q))
  BY DEF Deleted, h
<1> QED BY <1>1, <1>2, WithoutFields DEF Closed

LEMMA TripleGraphIsClosed ==
  ASSUME NEW t \in Triples
  PROVE  Closed(TripleGraph(t))
BY TriplesAssumption, VocabularyAssumption
   DEF TripleGraph, Closed, Empty, IsLabel, Terms

LEMMA GraphStaysClosed ==
  ASSUME GraphInv, [Next]_vars
  PROVE  GraphInv'
<1>1. CASE UNCHANGED graph
  BY <1>1 DEF GraphInv, IsGraph, Closed
<1>2. ASSUME NEW t \in Triples, Insert(t) PROVE GraphInv'
  <2>1. graph' = Union(graph, TripleGraph(t))
    BY <1>2 DEF Insert
  <2> QED BY <2>1, UnionFields, TripleGraphIsClosed DEF GraphInv, Closed
<1>3. CASE DeleteEdges
  <2>1. graph' = Deleted(graph, pattern)
    BY <1>3 DEF DeleteEdges
  <2> QED BY <2>1, DeletedEdges, DeletedIsClosed DEF GraphInv
<1>4. CASE CleanUp
  <2>1. graph' = WithoutNodes(graph, Isolated(graph))
    BY <1>4 DEF CleanUp, Cleaned
  <2> QED BY <2>1, WithoutFields DEF GraphInv, Closed
<1> QED BY <1>1, <1>2, <1>3, <1>4, GraphSteps DEF vars
-----------------------------------------------------------------------------
(* A pattern that is read as it is meant matches the edges of the triples  *)
(* it means.                                                               *)
LEMMA NodesMeant ==
  ASSUME GraphInv, NEW q \in Patterns, ReadAsMeant(q),
         NEW c \in {q.s, q.o}, NEW n \in graph.nodes, n \in Terms
  PROVE  NodeMatches(c, graph, n) <=> Means(c, n)
<1>1. c.kind \in Kinds /\ (c.kind = "literal" => c.of \in Literals)
  <2>1. c \in {q.s, q.p, q.o}
    OBVIOUS
  <2> QED BY <2>1, PatternsAssumption
<1>2. c.kind = "full" => Expand(c.of) = c.of
  BY DEF ReadAsMeant
<1>3. CASE c.kind = "any"
  BY <1>3 DEF NodeMatches, Means
<1>4. CASE c.kind = "full"
  BY <1>4, <1>2 DEF NodeMatches, Means
<1>5. CASE c.kind = "prefixed"
  BY <1>5 DEF NodeMatches, Means
<1>6. CASE c.kind = "blank"
  BY <1>6 DEF NodeMatches, Means
<1>7. CASE c.kind = "literal"
  <2>1. ~NodeMatches(c, graph, n)
    BY <1>7 DEF ReadAsMeant
  <2>2. n # c.of
    BY <1>1, <1>7, VocabularyAssumption
  <2> QED BY <1>7, <2>1, <2>2 DEF Means
<1> QED BY <1>1, <1>3, <1>4, <1>5, <1>6, <1>7 DEF Kinds

LEMMA PredicatesMeant ==
  ASSUME NEW q \in Patterns, ReadAsMeant(q), NEW p
  PROVE  EdgeMatches(q.p, p) <=> Means(q.p, p)
<1>1. /\ q.p.kind \in {"any", "full", "prefixed"}
      /\ q.p.kind = "full" => Expand(q.p.of) = q.p.of
  BY DEF ReadAsMeant
<1>2. CASE q.p.kind = "any"
  BY <1>2 DEF EdgeMatches, Means
<1>3. CASE q.p.kind = "full"
  BY <1>1, <1>3 DEF EdgeMatches, Means
<1>4. CASE q.p.kind = "prefixed"
  BY <1>4 DEF EdgeMatches, Means
<1> QED BY <1>1, <1>2, <1>3, <1>4

EdgeInv ==
    /\ GraphInv /\ graph.nodes \subseteq Terms /\ asserted \subseteq Triples
    /\ phase \in {"edges", "orphans"} => pattern \in Patterns
    /\ EdgesAreTriples

LEMMA MatchingMeant ==
  ASSUME EdgeInv, plain, pattern \in Patterns, ReadAsMeant(pattern),
         NEW t \in asserted, IsEdge(t)
  PROVE  <<t.s, t.p, t.o>> \in Matching(graph, pattern) <=> t \in Meant(pattern)
<1>1. <<t.s, t.p, t.o>> \in graph.edges
  BY DEF EdgeInv, EdgesAreTriples, EdgesOf
<1>2. t.s \in graph.nodes /\ t.o \in graph.nodes
  BY <1>1 DEF EdgeInv, GraphInv, Closed
<1>3. t.s \in Terms /\ t.o \in Terms
  BY <1>2 DEF EdgeInv
<1>4. NodeMatches(pattern.s, graph, t.s) <=> Means(pattern.s, t.s)
  BY <1>2, <1>3, NodesMeant DEF EdgeInv
<1>5. NodeMatches(pattern.o, graph, t.o) <=> Means(pattern.o, t.o)
  BY <1>2, <1>3, NodesMeant DEF EdgeInv
<1>6. EdgeMatches(pattern.p, t.p) <=> Means(pattern.p, t.p)
  BY PredicatesMeant
<1> QED BY <1>1, <1>4, <1>5, <1>6 DEF Matching, Meant

LEMMA DeleteKeepsMeaning ==
  ASSUME EdgeInv, DeleteEdges, plain'
  PROVE  graph'.edges = EdgesOf(asserted')
<1>1. /\ phase = "edges" /\ plain /\ ReadAsMeant(pattern)
      /\ graph' = Deleted(graph, pattern)
      /\ asserted' = asserted \ Meant(pattern)
  BY DEF DeleteEdges
<1>2. pattern \in Patterns
  BY <1>1 DEF EdgeInv
<1>3. graph'.edges = graph.edges \ Matching(graph, pattern)
  BY <1>1, DeletedEdges, EdgesGone DEF EdgeInv, GraphInv, ReadAsMeant
<1>4. graph.edges = EdgesOf(asserted)
  BY <1>1 DEF EdgeInv, EdgesAreTriples
<1>5. \A t, u \in asserted : t.s = u.s /\ t.p = u.p /\ t.o = u.o
         => (t \in Meant(pattern) <=> u \in Meant(pattern))
  BY DEF Meant
<1>6. ASSUME NEW e \in graph'.edges PROVE e \in EdgesOf(asserted')
  <2>1. PICK t \in asserted : IsEdge(t) /\ e = <<t.s, t.p, t.o>>
    BY <1>3, <1>4, <1>6 DEF EdgesOf
  <2>2. t \notin Meant(pattern)
    BY <1>1, <1>2, <1>3, <1>6, <2>1, MatchingMeant
  <2> QED BY <1>1, <2>1, <2>2 DEF EdgesOf
<1>7. ASSUME NEW e \in EdgesOf(asserted') PROVE e \in graph'.edges
  <2>1. PICK t \in asserted' : IsEdge(t) /\ e = <<t.s, t.p, t.o>>
    BY <1>7 DEF EdgesOf
  <2>2. t \in asserted /\ t \notin Meant(pattern)
    BY <1>1, <2>1
  <2>3. e \notin Matching(graph, pattern)
    BY <1>1, <1>2, <2>1, <2>2, MatchingMeant
  <2> QED BY <1>3, <1>4, <2>1, <2>2, <2>3 DEF EdgesOf
<1> QED BY <1>6, <1>7

(* A node without edges takes no edge along. *)
LEMMA CleaningKeepsEdges ==
  ASSUME NEW g
  PROVE  /\ WithoutNodes(g, Isolated(g)).nodes = g.nodes \ Isolated(g)
         /\ WithoutNodes(g, Isolated(g)).edges = g.edges
<1>1. \A e \in g.edges : e[1] \notin Isolated(g) /\ e[3] \notin Isolated(g)
  BY DEF Isolated
<1>2. WithoutNodes(g, Isolated(g)).edges
        = {e \in g.edges : e[1] \notin Isolated(g) /\ e[3] \notin Isolated(g)}
  BY WithoutFields
<1>3. WithoutNodes(g, Isolated(g)).nodes = g.nodes \ Isolated(g)
  BY WithoutFields
<1> QED BY <1>1, <1>2, <1>3

LEMMA EdgeInvStays ==
  ASSUME EdgeInv, [Next]_vars
  PROVE  EdgeInv'
<1>1. GraphInv'
  BY GraphStaysClosed DEF EdgeInv
<1>2. (phase \in {"edges", "orphans"} => pattern \in Patterns)'
  <2>1. CASE \E q \in Patterns : Delete(q)
    BY <2>1 DEF Delete
  <2>2. CASE DeleteEdges \/ CleanUp \/ QueryFails
    BY <2>2 DEF DeleteEdges, CleanUp, QueryFails, EdgeInv
  <2>3. CASE \/ \E t \in Triples : Insert(t)
             \/ \E p \in PrefixNames : Unbind(p) \/ \E u \in Uris : Bind(p, u)
    BY <2>3 DEF Insert, Unbind, Bind, Quiet, EdgeInv
  <2> QED BY <2>1, <2>2, <2>3 DEF Next, EdgeInv, vars
<1>3. CASE UNCHANGED <<graph, asserted, plain>>
  BY <1>1, <1>2, <1>3 DEF EdgeInv, EdgesAreTriples, EdgesOf
<1>4. ASSUME NEW t \in Triples, Insert(t) PROVE EdgeInv'
  <2>1. graph' = Union(graph, TripleGraph(t)) /\ asserted' = asserted \cup {t}
        /\ plain' = plain
    BY <1>4 DEF Insert, Quiet
  <2>2. TripleGraph(t).nodes \subseteq Terms
    BY TriplesAssumption DEF TripleGraph
  <2>3. TripleGraph(t).edges = EdgesOf({t})
    BY TriplesAssumption, VocabularyAssumption
       DEF TripleGraph, EdgesOf, IsEdge, IsLabel, Terms
  <2>4. EdgesOf(asserted') = EdgesOf(asserted) \cup EdgesOf({t})
    BY <2>1 DEF EdgesOf
  <2>5. /\ graph'.nodes = graph.nodes \cup TripleGraph(t).nodes
        /\ graph'.edges = graph.edges \cup TripleGraph(t).edges
    BY <2>1, UnionFields
  <2>6. graph'.nodes \subseteq Terms /\ asserted' \subseteq Triples
    BY <2>1, <2>2, <2>5 DEF EdgeInv
  <2>7. EdgesAreTriples'
    BY <2>1, <2>3, <2>4, <2>5 DEF EdgeInv, EdgesAreTriples
  <2> QED BY <1>1, <1>2, <2>6, <2>7 DEF EdgeInv
<1>5. CASE DeleteEdges
  <2>1. graph' = Deleted(graph, pattern) /\ asserted' \subseteq asserted
    BY <1>5 DEF DeleteEdges
  <2>2. graph'.nodes \subseteq graph.nodes
    BY <2>1, DeletedEdges DEF EdgeInv, GraphInv
  <2>3. EdgesAreTriples'
    BY <1>5, DeleteKeepsMeaning DEF EdgesAreTriples
  <2> QED BY <1>1, <1>2, <2>1, <2>2, <2>3 DEF EdgeInv
<1>6. CASE CleanUp
  <2>1. graph' = WithoutNodes(graph, Isolated(graph))
        /\ asserted' = asserted /\ plain' = plain
    BY <1>6 DEF CleanUp, Cleaned
  <2>2. graph'.edges = graph.edges /\ graph'.nodes \subseteq graph.nodes
    BY <2>1, CleaningKeepsEdges
  <2> QED BY <1>1, <1>2, <2>1, <2>2 DEF EdgeInv, EdgesAreTriples
<1> QED BY <1>3, <1>4, <1>5, <1>6, GraphSteps DEF vars

LEMMA EdgeInvStarts == Init => EdgeInv
BY DEF Init, EdgeInv, GraphInv, IsGraph, Closed, EmptyGraph, Empty,
       EdgesAreTriples, EdgesOf

(* As long as every pattern could be read as it was meant, the edges are   *)
(* exactly the asserted triples between resources, whichever queries       *)
(* failed and whatever prefixes were bound to in between.                  *)
THEOREM EdgesFollowTriples == Spec => []EdgesAreTriples
<1>1. EdgeInv /\ [Next]_vars => EdgeInv'
  BY EdgeInvStays
<1>2. EdgeInv => EdgesAreTriples
  BY DEF EdgeInv
<1> QED BY <1>1, <1>2, EdgeInvStarts, PTL DEF Spec
-----------------------------------------------------------------------------
(* Whatever the history, as long as patterns could be read as they were    *)
(* meant: the first query takes no triple away that its pattern does not   *)
(* mean, neither an edge nor a literal or a type of a node.                *)
THEOREM OthersStay == Spec => OnlyMeantTriplesGo
<1> DEFINE Stay == phase = "edges" /\ plain'
                   => \A t \in asserted \ Meant(pattern) :
                        Shows(graph, t) => Shows(graph', t)
<1>1. ASSUME EdgeInv, Next PROVE Stay
  <2>1. CASE UNCHANGED graph
    BY <2>1 DEF Shows
  <2>2. CASE DeleteEdges
    <3>1. /\ pattern \in Patterns /\ graph' = Deleted(graph, pattern)
          /\ plain' => plain /\ ReadAsMeant(pattern)
      BY <1>1, <2>2 DEF DeleteEdges, EdgeInv
    <3> SUFFICES ASSUME plain', NEW t \in asserted \ Meant(pattern), Shows(graph, t)
                 PROVE  Shows(graph', t)
      OBVIOUS
    <3>2. /\ graph'.labels = graph.labels /\ graph'.props = graph.props
          /\ graph'.edges = graph.edges \ Matching(graph, pattern)
      BY <1>1, <3>1, DeletedEdges, EdgesGone DEF EdgeInv, GraphInv, ReadAsMeant
    <3>3. CASE IsEdge(t)
      <4>1. <<t.s, t.p, t.o>> \notin Matching(graph, pattern)
        BY <1>1, <3>1, <3>3, MatchingMeant
      <4>2. ~IsLabel(t) /\ ~IsProperty(t)
        BY <3>3, VocabularyAssumption DEF IsEdge, IsLabel, IsProperty, Terms
      <4> QED BY <3>2, <4>1, <4>2 DEF Shows
    <3>4. CASE ~IsEdge(t)
      <4>1. IsLabel(t) \/ IsProperty(t)
        BY <1>1, <3>4, TriplesAssumption DEF EdgeInv, IsEdge, IsLabel, IsProperty
      <4> QED BY <3>2, <4>1 DEF Shows
    <3> QED BY <3>3, <3>4
  <2>3. CASE (\E t \in Triples : Insert(t)) \/ CleanUp
    BY <2>3 DEF Insert, Quiet, CleanUp
  <2> QED BY <1>1, <2>1, <2>2, <2>3, GraphSteps
<1>2. EdgeInv /\ [Next]_vars => [Stay]_vars
  BY <1>1
<1>3. EdgeInv /\ [Next]_vars => EdgeInv'
  BY EdgeInvStays
<1> QED BY <1>2, <1>3, EdgeInvStarts, PTL DEF Spec, OnlyMeantTriplesGo
-----------------------------------------------------------------------------
(* A clean-up leaves the nodes that have an edge, and the next step that   *)
(* makes or deletes anything clears the answer.                            *)
CleanInv ==
    phase = "idle" /\ reply = "ok" /\ pattern.orphans => Isolated(graph) = {}

LEMMA CleanInvStays ==
  ASSUME CleanInv, [Next]_vars
  PROVE  CleanInv'
<1>1. CASE UNCHANGED vars
  BY <1>1 DEF vars, CleanInv, Isolated
<1>2. CASE \/ \E t \in Triples : Insert(t)
           \/ \E p \in PrefixNames : Unbind(p) \/ \E u \in Uris : Bind(p, u)
           \/ \E q \in Patterns : Delete(q)
           \/ QueryFails
  BY <1>2, NoneAssumption DEF Insert, Unbind, Bind, Quiet, Delete, QueryFails, CleanInv
<1>3. CASE DeleteEdges
  BY <1>3 DEF DeleteEdges, CleanInv
<1>4. CASE CleanUp
  <2>1. graph' = WithoutNodes(graph, Isolated(graph))
    BY <1>4 DEF CleanUp, Cleaned
  <2>2. graph'.nodes = graph.nodes \ Isolated(graph) /\ graph'.edges = graph.edges
    BY <2>1, CleaningKeepsEdges
  <2> QED BY <2>2 DEF CleanInv, Isolated
<1> QED BY <1>1, <1>2, <1>3, <1>4 DEF Next

(* The edges of the graph, and with them what is connected in it, are      *)
(* those of the asserted triples when patterns could be read as meant: so  *)
(* after an ORPHANS delete without an error nothing that had an edge stays *)
(* without one, and nothing that an asserted triple needs is gone.         *)
THEOREM NoOrphansLeft == Spec => []OrphansAreCleanedUp
<1>1. Init => CleanInv
  BY NoneAssumption DEF Init, CleanInv
<1>2. CleanInv /\ [Next]_vars => CleanInv'
  BY CleanInvStays
<1>3. EdgeInv /\ [Next]_vars => EdgeInv'
  BY EdgeInvStays
<1>4. EdgeInv /\ CleanInv => OrphansAreCleanedUp
  <2> SUFFICES ASSUME EdgeInv, plain, Isolated(graph) = {}, NEW n
               PROVE  n \in graph.nodes <=> \E e \in EdgesOf(asserted) : n \in {e[1], e[3]}
    BY DEF CleanInv, OrphansAreCleanedUp
  <2>1. graph.edges = EdgesOf(asserted) /\ Closed(graph)
    BY DEF EdgeInv, EdgesAreTriples, GraphInv
  <2> QED BY <2>1 DEF Isolated, Closed
<1> QED BY <1>1, <1>2, <1>3, <1>4, EdgeInvStarts, PTL DEF Spec
-----------------------------------------------------------------------------
(* Deleting what a pattern matches a second time deletes nothing: what     *)
(* matches in the remaining graph matched before.                          *)
LEMMA DeletingTwice ==
  ASSUME NEW g, IsGraph(g), NEW q
  PROVE  Deleted(Deleted(g, q), q) = Deleted(g, q)
<1> DEFINE d == Deleted(g, q)
<1>1. /\ IsGraph(d) /\ d.edges \subseteq g.edges \ Matching(g, q)
      /\ DOMAIN d.props \subseteq DOMAIN g.props
      /\ \A k \in DOMAIN d.props : d.props[k] = g.props[k]
  BY DeletedEdges
<1> HIDE DEF d
<1>2. ASSUME NEW c, NEW n, NodeMatches(c, d, n) PROVE NodeMatches(c, g, n)
  <2>1. CASE c.kind \in {"any", "full", "prefixed", "blank"}
    BY <1>2, <2>1 DEF NodeMatches
  <2>2. CASE c.kind \notin {"any", "full", "prefixed", "blank"}
    BY <1>1, <1>2, <2>2 DEF NodeMatches
  <2> QED BY <2>1, <2>2
<1>3. Matching(d, q) \subseteq Matching(g, q)
  BY <1>1, <1>2 DEF Matching
<1>4. Matching(d, q) = {}
  <2>1. Matching(d, q) \subseteq d.edges
    BY DEF Matching
  <2> QED BY <1>1, <1>3, <2>1
<1>5. LiteralNodes(d, q) = {}
  BY <1>4 DEF LiteralNodes
<1>6. Deleted(d, q) = WithoutEdges(d, {})
  BY <1>1, <1>4, <1>5, DeletedEdges
<1>7. WithoutEdges(d, {}) = d
  <2>1. d.edges \ {} = d.edges
    OBVIOUS
  <2> QED BY <1>1, <2>1 DEF WithoutEdges, IsGraph
<1> QED BY <1>6, <1>7 DEF d

(* What the queries do depends on the bindings and on nothing else that    *)
(* changes.                                                                *)
LEMMA SameBindings ==
  ASSUME UNCHANGED <<bindings, origin, pattern>>
  PROVE  Deleted(origin, pattern)' = Deleted(origin, pattern)
BY DEF Deleted, WithoutNodes, WithoutEdges, LiteralNodes, Matching,
       NodeMatches, EdgeMatches, Expand

(* Where the graph is, relative to what the command and the failed ones it *)
(* repeats began with.                                                     *)
Begun == graph = origin
EdgesDone == graph = Deleted(origin, pattern)

RetryInv ==
    /\ IsGraph(origin) /\ IsGraph(graph)
    /\ phase = "edges" => Begun \/ EdgesDone
    /\ phase = "orphans" => EdgesDone /\ pattern.orphans
    /\ phase = "idle" /\ reply = "error" => Begun \/ EdgesDone
    /\ RetryCompletes

LEMMA QueriesKeepRetryInv ==
  ASSUME RetryInv, DeleteEdges \/ CleanUp \/ QueryFails
  PROVE  RetryInv'
<1>1. /\ UNCHANGED <<bindings, origin, pattern>>
      /\ Deleted(origin, pattern)' = Deleted(origin, pattern)
  BY SameBindings DEF DeleteEdges, CleanUp, QueryFails
<1>2. IsGraph(origin')
  BY <1>1 DEF RetryInv, IsGraph
<1>3. CASE DeleteEdges
  <2>1. phase = "edges" /\ graph' = Deleted(graph, pattern)
    BY <1>3 DEF DeleteEdges
  <2>2. graph' = Deleted(origin, pattern)
    BY <2>1, DeletingTwice DEF RetryInv, Begun, EdgesDone
  <2>3. EdgesDone' /\ IsGraph(graph')
    BY <1>1, <2>2, DeletedEdges DEF EdgesDone, RetryInv
  <2>4. \/ pattern'.orphans /\ phase' = "orphans"
        \/ ~pattern'.orphans /\ phase' = "idle" /\ reply' = "ok"
    BY <1>3 DEF DeleteEdges
  <2> QED BY <1>2, <2>3, <2>4 DEF RetryInv, RetryCompletes, EdgesDone
<1>4. CASE CleanUp
  <2>1. phase = "orphans" /\ graph' = Cleaned(graph) /\ phase' = "idle" /\ reply' = "ok"
    BY <1>4 DEF CleanUp
  <2>2. pattern'.orphans /\ graph' = Cleaned(Deleted(origin, pattern))
    BY <1>1, <2>1 DEF RetryInv, EdgesDone
  <2>3. IsGraph(graph')
    BY <2>1, WithoutFields DEF Cleaned
  <2>4. Cleaned(Deleted(origin, pattern))' = Cleaned(Deleted(origin, pattern))
    BY <1>1 DEF Cleaned, Isolated, WithoutNodes
  <2> QED BY <1>2, <2>1, <2>2, <2>3, <2>4 DEF RetryInv, RetryCompletes
<1>5. CASE QueryFails
  <2>1. graph' = graph /\ phase' = "idle" /\ reply' = "error"
    BY <1>5 DEF QueryFails
  <2>2. Begun \/ EdgesDone
    BY <1>5 DEF QueryFails, RetryInv
  <2>3. IsGraph(graph')
    BY <2>1 DEF RetryInv, IsGraph
  <2> QED BY <1>1, <1>2, <2>1, <2>2, <2>3
          DEF RetryInv, RetryCompletes, Begun, EdgesDone
<1> QED BY <1>3, <1>4, <1>5

Commands == \/ \E t \in Triples : Insert(t)
            \/ \E p \in PrefixNames : Unbind(p) \/ \E u \in Uris : Bind(p, u)
            \/ \E q \in Patterns : Delete(q)

LEMMA CommandsKeepRetryInv ==
  ASSUME RetryInv, GraphInv', Commands
  PROVE  RetryInv'
<1>1. CASE \E q \in Patterns : Delete(q)
  <2>1. PICK q \in Patterns : Delete(q)
    BY <1>1
  <2>2. /\ phase = "idle" /\ phase' = "edges" /\ UNCHANGED <<graph, bindings>>
        /\ pattern' = q
        /\ \/ origin' = graph
           \/ reply = "error" /\ pattern = q /\ origin' = origin
    BY <2>1 DEF Delete
  <2>3. CASE origin' = graph
    BY <2>2, <2>3 DEF RetryInv, RetryCompletes, Begun, IsGraph
  <2>4. CASE reply = "error" /\ pattern = q /\ origin' = origin
    <3>1. Begun \/ EdgesDone
      BY <2>2, <2>4 DEF RetryInv
    <3>2. Deleted(origin, pattern)' = Deleted(origin, pattern)
      BY <2>2, <2>4, SameBindings
    <3> QED BY <2>2, <2>4, <3>1, <3>2
            DEF RetryInv, RetryCompletes, Begun, EdgesDone, IsGraph
  <2> QED BY <2>2, <2>3, <2>4
<1>2. CASE \/ \E t \in Triples : Insert(t)
           \/ \E p \in PrefixNames : Unbind(p) \/ \E u \in Uris : Bind(p, u)
  <2>1. phase' = "idle" /\ reply' = None /\ origin' = origin
    BY <1>2 DEF Insert, Unbind, Bind, Quiet
  <2> QED BY <2>1, NoneAssumption DEF RetryInv, RetryCompletes, IsGraph, GraphInv
<1> QED BY <1>1, <1>2 DEF Commands

(* A command that failed and is sent again leaves the graph as if the      *)
(* first one had not failed, wherever it stopped.                          *)
THEOREM RetriesComplete == Spec => []RetryCompletes
<1>1. Init => GraphInv /\ RetryInv
  BY NoneAssumption DEF Init, GraphInv, RetryInv, RetryCompletes, IsGraph, Closed,
                        EmptyGraph, Empty
<1>2. GraphInv /\ [Next]_vars => GraphInv'
  BY GraphStaysClosed
<1>3. RetryInv /\ GraphInv /\ GraphInv' /\ [Next]_vars => RetryInv'
  <2>1. ASSUME RetryInv, GraphInv', Next PROVE RetryInv'
    <3>1. Commands \/ DeleteEdges \/ CleanUp \/ QueryFails
      BY <2>1 DEF Next, Commands
    <3> QED BY <2>1, <3>1, QueriesKeepRetryInv, CommandsKeepRetryInv
  <2>2. ASSUME RetryInv, UNCHANGED vars PROVE RetryInv'
    <3>1. Deleted(origin, pattern)' = Deleted(origin, pattern)
      BY <2>2, SameBindings DEF vars
    <3> QED BY <2>2, <3>1 DEF vars, RetryInv, RetryCompletes, Begun, EdgesDone,
                              IsGraph, Cleaned, Isolated, WithoutNodes
  <2> QED BY <2>1, <2>2
<1>4. RetryInv => RetryCompletes
  BY DEF RetryInv
<1> QED BY <1>1, <1>2, <1>3, <1>4, PTL DEF Spec
-----------------------------------------------------------------------------
(* Induction, and folds. *)

LEMMA SetInduction ==
  ASSUME NEW good, 0 \in good, \A n \in Nat : n \in good => n + 1 \in good
  PROVE  \A n \in Nat : n \in good
<1> DEFINE bad == {n \in Nat : n \notin good}
<1>1. SUFFICES ASSUME bad # {} PROVE FALSE
  OBVIOUS
<1>2. PICK n \in bad : \A i \in bad : ~(<<i, n>> \in OpToRel(<, Nat))
  <2>1. bad \subseteq Nat
    OBVIOUS
  <2> HIDE DEF bad
  <2> QED BY <1>1, <2>1, NatLessThanWellFounded, WFMin
<1>3. \A i \in bad : ~(i < n)
  BY <1>2 DEF OpToRel
<1>4. n \in Nat /\ n # 0 /\ n - 1 \in Nat /\ n - 1 < n /\ (n - 1) + 1 = n
  <2>1. n \in Nat /\ n # 0
    BY <1>2
  <2> HIDE DEF bad
  <2> QED BY <2>1
<1>5. n - 1 \notin good
  BY <1>2, <1>4
<1> QED BY <1>3, <1>4, <1>5

(* Numbers from 1 on have a last one.                                      *)
LEMMA LastPosition ==
  ASSUME NEW n \in Nat, NEW ks \in SUBSET (1 .. n), ks # {}
  PROVE  \E k \in ks : \A j \in ks : j <= k
<1> DEFINE good == {m \in Nat : (\E j \in ks : n - j <= m) =>
                                  \E k \in ks : \A j \in ks : j <= k}
<1>1. 0 \in good
  <2>1. ASSUME NEW j \in ks, n - j <= 0 PROVE \A i \in ks : i <= j
    BY <2>1
  <2> QED BY <2>1
<1>2. ASSUME NEW m \in Nat, m \in good PROVE m + 1 \in good
  <2>1. ASSUME NEW j \in ks, n - j <= m + 1 PROVE \E k \in ks : \A i \in ks : i <= k
    <3>1. CASE \E i \in ks : n - i <= m
      BY <1>2, <3>1
    <3>2. CASE ~ \E i \in ks : n - i <= m
      <4>1. \A i \in ks : i <= j
        <5>1. SUFFICES ASSUME NEW i \in ks PROVE i <= j
          OBVIOUS
        <5>2. i \in Nat /\ j \in Nat /\ ~(n - i <= m)
          BY <3>2
        <5> QED BY <2>1, <5>2
      <4> QED BY <4>1
    <3> QED BY <3>1, <3>2
  <2> QED BY <2>1
<1>3. \A m \in Nat : m \in good
  <2> HIDE DEF good
  <2> QED BY <1>1, <1>2, SetInduction
<1>4. n \in good
  BY <1>3
<1>5. \E j \in ks : n - j <= n
  <2>1. PICK j \in ks : TRUE
    OBVIOUS
  <2>2. j \in 1 .. n
    BY <2>1
  <2>3. n - j <= n
    BY <2>2
  <2> QED BY <2>1, <2>3
<1> QED BY <1>4, <1>5

LEMMA MaxOfPositions ==
  ASSUME NEW n \in Nat, NEW s \in SUBSET (1 .. n), s # {}
  PROVE  Max(s) \in s /\ \A j \in s : j <= Max(s)
<1>1. PICK k \in s : \A j \in s : j <= k
  BY LastPosition
<1>2. \A j \in s : k >= j
  BY <1>1
<1>3. Max(s) \in s /\ \A j \in s : Max(s) >= j
  BY <1>2 DEF Max
<1>4. \A j \in s : j \in Nat
  OBVIOUS
<1> QED BY <1>3, <1>4

LEMMA LastOfPrefix ==
  ASSUME NEW m \in Nat
  PROVE  /\ Max(1 .. m + 1) = m + 1 /\ (1 .. m + 1) \ {m + 1} = 1 .. m
         /\ 1 .. m + 1 # {}
<1>1. PICK s : s = 1 .. m + 1
  OBVIOUS
<1>2. /\ s \in SUBSET (1 .. m + 1) /\ s # {} /\ m + 1 \in s /\ m + 1 \in Nat
      /\ \A j \in s : j \in Nat /\ j <= m + 1
  BY <1>1
<1>3. Max(s) \in s /\ \A j \in s : j <= Max(s)
  BY <1>2, MaxOfPositions
<1>4. Max(s) = m + 1
  <2>1. PICK x : x = Max(s)
    OBVIOUS
  <2>2. x \in Nat /\ x <= m + 1 /\ m + 1 <= x
    BY <1>2, <1>3, <2>1
  <2> QED BY <2>1, <2>2
<1>5. (1 .. m + 1) \ {m + 1} = 1 .. m
  OBVIOUS
<1> QED BY <1>1, <1>2, <1>4, <1>5

(* What a fold passes through is settled by where it starts and by each    *)
(* step from what came before.                                             *)
LEMMA FoldsAgree ==
  ASSUME NEW n \in Nat, NEW it, NEW jt, it[{}] = jt[{}],
         \A s \in SUBSET (1 .. n) :
            s # {} /\ it[s \ {Max(s)}] = jt[s \ {Max(s)}] => it[s] = jt[s]
  PROVE  it[1 .. n] = jt[1 .. n]
<1> DEFINE good == {m \in Nat : m <= n => it[1 .. m] = jt[1 .. m]}
<1>1. 0 \in good
  <2>1. 1 .. 0 = {}
    OBVIOUS
  <2> QED BY <2>1
<1>2. ASSUME NEW m \in Nat, m \in good PROVE m + 1 \in good
  <2>1. SUFFICES ASSUME m + 1 <= n PROVE it[1 .. m + 1] = jt[1 .. m + 1]
    BY <1>2
  <2>2. PICK s : s = 1 .. m + 1
    OBVIOUS
  <2>3. /\ s \in SUBSET (1 .. n) /\ s # {} /\ m <= n
    BY <2>1, <2>2
  <2>4. s \ {Max(s)} = 1 .. m
    BY <2>2, LastOfPrefix
  <2>5. it[s \ {Max(s)}] = jt[s \ {Max(s)}]
    BY <1>2, <2>3, <2>4
  <2> HIDE DEF good
  <2> QED BY <2>2, <2>3, <2>5
<1>3. n \in good
  <2> HIDE DEF good
  <2> QED BY <1>1, <1>2, SetInduction
<1> QED BY <1>3
-----------------------------------------------------------------------------
(* What triples and triple patterns have in common with edges and hops.    *)
EdgesMade(triples) == {<<t.s, t.p, t.o>> : t \in triples}
EndTerms(es) == {e[1] : e \in es} \cup {e[3] : e \in es}

ValueAt(m, t) == IF t.k = "var" THEN m[t.of] ELSE t.of
FitsEdge(es, t, m) == <<ValueAt(m, t.s), t.p.of, ValueAt(m, t.o)>> \in es

(* The solutions of the patterns at positions s, told all at once.         *)
VarsAt(pats, s) == UNION {TripleVars(pats[i]) : i \in s}
SolutionsAt(es, pats, s) ==
    {m \in [VarsAt(pats, s) -> EndTerms(es)] : \A i \in s : FitsEdge(es, pats[i], m)}

LEMMA EdgeEnds ==
  ASSUME NEW es, NEW x, NEW p, NEW y, <<x, p, y>> \in es
  PROVE  x \in EndTerms(es) /\ y \in EndTerms(es)
<1>1. <<x, p, y>>[1] = x /\ <<x, p, y>>[3] = y
  OBVIOUS
<1> QED BY <1>1 DEF EndTerms

(* Whether a pattern holds depends on its variables only.                  *)
LEMMA SameOnVars ==
  ASSUME NEW es, NEW t, IsBasic(t), NEW m, NEW n, \A x \in TripleVars(t) : m[x] = n[x]
  PROVE  FitsEdge(es, t, m) <=> FitsEdge(es, t, n)
<1>1. t.s.k = "var" => t.s.of \in TripleVars(t)
  BY DEF TripleVars, TermVars
<1>2. t.o.k = "var" => t.o.of \in TripleVars(t)
  BY DEF TripleVars, TermVars
<1> QED BY <1>1, <1>2 DEF FitsEdge, ValueAt

LEMMA BasicVars ==
  ASSUME NEW t, IsBasic(t)
  PROVE  TripleVars(t) = (IF t.s.k = "var" THEN {t.s.of} ELSE {})
                         \cup (IF t.o.k = "var" THEN {t.o.of} ELSE {})
BY DEF IsBasic, TripleVars, TermVars

(* One triple pattern. *)
LEMMA OnePattern ==
  ASSUME NEW T, NEW t, IsBasic(t)
  PROVE  TripleSolutions(T, t) =
           {m \in [TripleVars(t) -> EndTerms(EdgesMade(T))] : FitsEdge(EdgesMade(T), t, m)}
<1> DEFINE slots == <<t.s, t.p, t.o>>
           free == {i \in 1 .. 3 : slots[i].k \in {"var", "blank"}}
           value(u) == <<u.s, u.p, u.o>>
           fits(u) == /\ \A i \in (1 .. 3) \ free : value(u)[i] = slots[i].of
                      /\ \A i, j \in free : NameOf(slots[i]) = NameOf(slots[j])
                                            => value(u)[i] = value(u)[j]
           sol(u) == [x \in {NameOf(slots[i]) : i \in free} |->
                        value(u)[CHOOSE i \in free : NameOf(slots[i]) = x]]
           es == EdgesMade(T)
<1>1. TripleSolutions(T, t) = {sol(u) : u \in {v \in T : fits(v)}}
  BY DEF TripleSolutions
<1>2. /\ t.s.k \in {"var", "iri"} /\ t.o.k \in {"var", "iri"} /\ t.p.k = "iri"
      /\ slots[1] = t.s /\ slots[2] = t.p /\ slots[3] = t.o
  BY DEF IsBasic
<1>3. /\ 1 \in free <=> t.s.k = "var"
      /\ 2 \notin free
      /\ 3 \in free <=> t.o.k = "var"
      /\ \A i \in free : i = 1 \/ i = 3
  <2>1. \A i \in free : i = 1 \/ i = 2 \/ i = 3
    OBVIOUS
  <2>2. 2 \notin free
    BY <1>2
  <2> QED BY <1>2, <2>1, <2>2
<1>4. \A i \in free : NameOf(slots[i]) = slots[i].of
  BY <1>2, <1>3 DEF NameOf
<1>5. TripleVars(t) = {NameOf(slots[i]) : i \in free}
  <2> HIDE DEF free, slots
  <2>1. TripleVars(t) = (IF t.s.k = "var" THEN {t.s.of} ELSE {})
                        \cup (IF t.o.k = "var" THEN {t.o.of} ELSE {})
    BY BasicVars
  <2> QED BY <1>2, <1>3, <1>4, <2>1
<1>6. \A u : value(u)[1] = u.s /\ value(u)[2] = u.p /\ value(u)[3] = u.o
  OBVIOUS
<1>7. ASSUME NEW u, fits(u), NEW i \in free
      PROVE  sol(u)[NameOf(slots[i])] = value(u)[i]
  <2>1. PICK j : j = CHOOSE k \in free : NameOf(slots[k]) = NameOf(slots[i])
    OBVIOUS
  <2>2. j \in free /\ NameOf(slots[j]) = NameOf(slots[i])
    BY <1>7, <2>1
  <2>3. value(u)[j] = value(u)[i]
    BY <1>7, <2>2
  <2>4. NameOf(slots[i]) \in {NameOf(slots[k]) : k \in free}
    BY <1>7
  <2>5. sol(u)[NameOf(slots[i])] = value(u)[j]
    BY <2>1, <2>4
  <2> QED BY <2>3, <2>5
<1>8. \A u : fits(u) => sol(u) \in [TripleVars(t) -> {value(u)[i] : i \in free}]
  <2>1. SUFFICES ASSUME NEW u, fits(u)
                 PROVE  sol(u) \in [TripleVars(t) -> {value(u)[i] : i \in free}]
    OBVIOUS
  <2>2. \A x \in TripleVars(t) : sol(u)[x] \in {value(u)[i] : i \in free}
    <3>1. ASSUME NEW x \in TripleVars(t) PROVE sol(u)[x] \in {value(u)[i] : i \in free}
      <4>1. PICK i \in free : x = NameOf(slots[i])
        BY <1>5, <3>1
      <4>2. sol(u)[x] = value(u)[i]
        BY <1>7, <2>1, <4>1
      <4> QED BY <4>2
    <3> QED BY <3>1
  <2>3. sol(u) = [x \in TripleVars(t) |-> sol(u)[x]]
    BY <1>5
  <2> HIDE DEF sol, free, value
  <2> QED BY <2>2, <2>3
<1> HIDE DEF sol
<1>9. ASSUME NEW u, fits(u)
      PROVE  /\ ValueAt(sol(u), t.s) = u.s /\ t.p.of = u.p /\ ValueAt(sol(u), t.o) = u.o
  <2>1. t.p.of = u.p
    BY <1>2, <1>3, <1>6, <1>9
  <2>2. ValueAt(sol(u), t.s) = u.s
    <3>1. CASE t.s.k = "var"
      <4>1. 1 \in free /\ NameOf(slots[1]) = t.s.of
        BY <1>2, <1>3, <1>4, <3>1
      <4>2. sol(u)[t.s.of] = u.s
        BY <1>6, <1>7, <1>9, <4>1
      <4> QED BY <3>1, <4>2 DEF ValueAt
    <3>2. CASE t.s.k # "var"
      <4>1. 1 \in (1 .. 3) \ free
        BY <1>3, <3>2
      <4>2. u.s = t.s.of
        BY <1>2, <1>6, <1>9, <4>1
      <4> QED BY <3>2, <4>2 DEF ValueAt
    <3> QED BY <3>1, <3>2
  <2>3. ValueAt(sol(u), t.o) = u.o
    <3>1. CASE t.o.k = "var"
      <4>1. 3 \in free /\ NameOf(slots[3]) = t.o.of
        BY <1>2, <1>3, <1>4, <3>1
      <4>2. sol(u)[t.o.of] = u.o
        BY <1>6, <1>7, <1>9, <4>1
      <4> QED BY <3>1, <4>2 DEF ValueAt
    <3>2. CASE t.o.k # "var"
      <4>1. 3 \in (1 .. 3) \ free
        BY <1>3, <3>2
      <4>2. u.o = t.o.of
        BY <1>2, <1>6, <1>9, <4>1
      <4> QED BY <3>2, <4>2 DEF ValueAt
    <3> QED BY <3>1, <3>2
  <2> QED BY <2>1, <2>2, <2>3
<1>10. ASSUME NEW u \in T, fits(u)
       PROVE  sol(u) \in [TripleVars(t) -> EndTerms(es)] /\ FitsEdge(es, t, sol(u))
  <2>1. <<u.s, u.p, u.o>> \in es
    BY DEF EdgesMade
  <2>2. u.s \in EndTerms(es) /\ u.o \in EndTerms(es)
    BY <2>1, EdgeEnds
  <2>3. \A i \in free : value(u)[i] \in EndTerms(es)
    BY <1>3, <1>6, <2>2
  <2>4. sol(u) \in [TripleVars(t) -> EndTerms(es)]
    <3>1. sol(u) \in [TripleVars(t) -> {value(u)[i] : i \in free}]
      BY <1>8, <1>10
    <3> HIDE DEF free, value, es
    <3> QED BY <2>3, <3>1
  <2>5. FitsEdge(es, t, sol(u))
    BY <1>9, <1>10, <2>1 DEF FitsEdge
  <2> QED BY <2>4, <2>5
<1>11. ASSUME NEW m \in [TripleVars(t) -> EndTerms(es)], FitsEdge(es, t, m)
       PROVE  \E u \in T : fits(u) /\ m = sol(u)
  <2>1. PICK u \in T : <<ValueAt(m, t.s), t.p.of, ValueAt(m, t.o)>> = <<u.s, u.p, u.o>>
    BY <1>11 DEF FitsEdge, EdgesMade
  <2>2. ValueAt(m, t.s) = u.s /\ t.p.of = u.p /\ ValueAt(m, t.o) = u.o
    BY <2>1
  <2>3. \A i \in (1 .. 3) \ free : value(u)[i] = slots[i].of
    <3>1. \A i \in 1 .. 3 : i = 1 \/ i = 2 \/ i = 3
      OBVIOUS
    <3>2. 1 \notin free => u.s = t.s.of
      BY <1>3, <2>2 DEF ValueAt
    <3>3. 3 \notin free => u.o = t.o.of
      BY <1>3, <2>2 DEF ValueAt
    <3> QED BY <1>2, <1>6, <2>2, <3>1, <3>2, <3>3
  <2>4. \A i \in free : value(u)[i] = m[NameOf(slots[i])]
    <3>1. 1 \in free => u.s = m[NameOf(slots[1])]
      BY <1>2, <1>3, <1>4, <2>2 DEF ValueAt
    <3>2. 3 \in free => u.o = m[NameOf(slots[3])]
      BY <1>2, <1>3, <1>4, <2>2 DEF ValueAt
    <3> QED BY <1>3, <1>6, <3>1, <3>2
  <2>5. fits(u)
    BY <2>3, <2>4
  <2>6. \A x \in TripleVars(t) : m[x] = sol(u)[x]
    BY <1>5, <1>7, <2>4, <2>5
  <2>7. m = [x \in TripleVars(t) |-> m[x]] /\ sol(u) = [x \in TripleVars(t) |-> sol(u)[x]]
    BY <1>8, <1>11, <2>5
  <2> HIDE DEF fits
  <2> QED BY <2>5, <2>6, <2>7
<1> HIDE DEF fits, free, slots, value
<1> QED BY <1>1, <1>10, <1>11

LEMMA JoinMembers ==
  ASSUME NEW M, NEW N
  PROVE  \A m : m \in JoinOf(M, N) <=>
                  \E a \in M, b \in N : Compatible(a, b) /\ m = Merge(a, b)
<1>1. \A m : m \in JoinOf(M, N) <=>
               \E mn \in M \X N : Compatible(mn[1], mn[2]) /\ m = Merge(mn[1], mn[2])
  BY DEF JoinOf
<1>2. \A a, b : <<a, b>>[1] = a /\ <<a, b>>[2] = b
  OBVIOUS
<1>3. ASSUME NEW m, NEW mn \in M \X N, Compatible(mn[1], mn[2]), m = Merge(mn[1], mn[2])
      PROVE  \E a \in M, b \in N : Compatible(a, b) /\ m = Merge(a, b)
  BY <1>3
<1>4. ASSUME NEW m, NEW a \in M, NEW b \in N, Compatible(a, b), m = Merge(a, b)
      PROVE  \E mn \in M \X N : Compatible(mn[1], mn[2]) /\ m = Merge(mn[1], mn[2])
  <2>1. <<a, b>> \in M \X N
    OBVIOUS
  <2> QED BY <1>2, <1>4, <2>1
<1> QED BY <1>1, <1>3, <1>4

(* One pattern more. *)
LEMMA OneMorePattern ==
  ASSUME NEW es, NEW pats, NEW s, NEW x \in s, \A i \in s : IsBasic(pats[i])
  PROVE  SolutionsAt(es, pats, s) =
           JoinOf(SolutionsAt(es, pats, s \ {x}),
                  {m \in [TripleVars(pats[x]) -> EndTerms(es)] : FitsEdge(es, pats[x], m)})
<1> DEFINE V == VarsAt(pats, s)
           L == VarsAt(pats, s \ {x})
           R == TripleVars(pats[x])
           left == SolutionsAt(es, pats, s \ {x})
           right == {m \in [R -> EndTerms(es)] : FitsEdge(es, pats[x], m)}
<1>1. V = L \cup R /\ \A i \in s \ {x} : TripleVars(pats[i]) \subseteq L
  BY DEF VarsAt
<1>2. ASSUME NEW m \in SolutionsAt(es, pats, s)
      PROVE  \E a \in left, b \in right : Compatible(a, b) /\ m = Merge(a, b)
  <2>1. m \in [V -> EndTerms(es)] /\ \A i \in s : FitsEdge(es, pats[i], m)
    BY DEF SolutionsAt
  <2> DEFINE a == [y \in L |-> m[y]]
             b == [y \in R |-> m[y]]
  <2>2. a \in [L -> EndTerms(es)] /\ b \in [R -> EndTerms(es)]
    BY <1>1, <2>1
  <2>3. ASSUME NEW i \in s \ {x} PROVE FitsEdge(es, pats[i], a)
    <3>1. \A y \in TripleVars(pats[i]) : m[y] = a[y]
      BY <1>1, <2>3
    <3> HIDE DEF a
    <3> QED BY <2>1, <2>3, <3>1, SameOnVars
  <2>4. FitsEdge(es, pats[x], b)
    <3>1. \A y \in TripleVars(pats[x]) : m[y] = b[y]
      OBVIOUS
    <3> HIDE DEF b
    <3> QED BY <2>1, <3>1, SameOnVars
  <2>5. a \in left /\ b \in right
    BY <2>2, <2>3, <2>4 DEF SolutionsAt
  <2>6. Compatible(a, b)
    BY DEF Compatible
  <2>7. m = Merge(a, b)
    <3>1. DOMAIN a = L /\ DOMAIN b = R
      OBVIOUS
    <3>2. Merge(a, b) = [y \in V |-> m[y]]
      BY <1>1, <3>1 DEF Merge
    <3>3. m = [y \in V |-> m[y]]
      BY <2>1
    <3> QED BY <3>2, <3>3
  <2> QED BY <2>5, <2>6, <2>7
<1>3. ASSUME NEW a \in left, NEW b \in right, Compatible(a, b)
      PROVE  Merge(a, b) \in SolutionsAt(es, pats, s)
  <2>1. /\ a \in [L -> EndTerms(es)] /\ \A i \in s \ {x} : FitsEdge(es, pats[i], a)
        /\ b \in [R -> EndTerms(es)] /\ FitsEdge(es, pats[x], b)
    BY DEF SolutionsAt
  <2>2. /\ Merge(a, b) \in [V -> EndTerms(es)]
        /\ \A y \in L : a[y] = Merge(a, b)[y]
        /\ \A y \in R : b[y] = Merge(a, b)[y]
    <3>1. Merge(a, b) = [y \in L \cup R |-> IF y \in L THEN a[y] ELSE b[y]]
      BY <2>1 DEF Merge
    <3>2. \A y \in L \cap R : a[y] = b[y]
      BY <1>3, <2>1 DEF Compatible
    <3> HIDE DEF L, R
    <3> QED BY <1>1, <2>1, <3>1, <3>2
  <2>3. ASSUME NEW i \in s \ {x} PROVE FitsEdge(es, pats[i], Merge(a, b))
    <3>1. \A y \in TripleVars(pats[i]) : a[y] = Merge(a, b)[y]
      BY <1>1, <2>2, <2>3
    <3> QED BY <2>1, <2>3, <3>1, SameOnVars
  <2>4. FitsEdge(es, pats[x], Merge(a, b))
    BY <2>1, <2>2, SameOnVars
  <2> QED BY <2>2, <2>3, <2>4 DEF SolutionsAt
<1>5. \A m : m \in JoinOf(left, right) <=>
               \E a \in left, b \in right : Compatible(a, b) /\ m = Merge(a, b)
  <2> HIDE DEF left, right
  <2> QED BY JoinMembers
<1> HIDE DEF left, right
<1>6. \A m : m \in SolutionsAt(es, pats, s) <=> m \in JoinOf(left, right)
  BY <1>2, <1>3, <1>5
<1>7. SolutionsAt(es, pats, s) = JoinOf(left, right)
  <2>1. PICK M : M = SolutionsAt(es, pats, s)
    OBVIOUS
  <2>2. PICK N : N = JoinOf(left, right)
    OBVIOUS
  <2> QED BY <1>6, <2>1, <2>2
<1> QED BY <1>7 DEF left, right

BgpOver(triples, pats, S, iter) ==
    iter = [s \in SUBSET S |->
              IF s = {} THEN {<< >>}
              ELSE LET x == Max(s)
                   IN JoinOf(iter[s \ {x}], TripleSolutions(triples, pats[x]))]

LEMMA BgpFold ==
  ASSUME NEW T, NEW pats
  PROVE  BgpSolutions(T, pats) =
           (CHOOSE iter : BgpOver(T, pats, DOMAIN pats, iter))[DOMAIN pats]
BY DEF BgpSolutions, FoldLeft, MapThenFoldSet, BgpOver

LEMMA NoPatterns ==
  ASSUME NEW es, NEW pats
  PROVE  SolutionsAt(es, pats, {}) = {<< >>}
<1>1. VarsAt(pats, {}) = {}
  BY DEF VarsAt
<1>2. [{} -> EndTerms(es)] = {<< >>}
  <2>1. \A f \in [{} -> EndTerms(es)] : f = << >>
    OBVIOUS
  <2>2. << >> \in [{} -> EndTerms(es)]
    OBVIOUS
  <2> QED BY <2>1, <2>2
<1> QED BY <1>1, <1>2 DEF SolutionsAt

(* The solutions of a basic graph pattern are the assignments of terms to  *)
(* its variables with which every triple pattern is a triple.              *)
LEMMA BgpSolved ==
  ASSUME NEW T, NEW pats, NEW n \in Nat, DOMAIN pats = 1 .. n,
         \A i \in 1 .. n : IsBasic(pats[i])
  PROVE  BgpSolutions(T, pats) = SolutionsAt(EdgesMade(T), pats, 1 .. n)
<1> DEFINE es == EdgesMade(T)
           S == 1 .. n
           f == [s \in SUBSET S |-> SolutionsAt(es, pats, s)]
<1>1. \A s \in SUBSET S : s # {} => Max(s) \in s
  BY MaxOfPositions
<1>2. ASSUME NEW s \in SUBSET S, s # {}
      PROVE  SolutionsAt(es, pats, s) =
               JoinOf(SolutionsAt(es, pats, s \ {Max(s)}), TripleSolutions(T, pats[Max(s)]))
  <2>1. PICK x : x = Max(s)
    OBVIOUS
  <2>2. x \in s /\ x \in S /\ IsBasic(pats[x]) /\ \A i \in s : IsBasic(pats[i])
    BY <1>1, <1>2, <2>1
  <2>3. TripleSolutions(T, pats[x]) =
          {m \in [TripleVars(pats[x]) -> EndTerms(es)] : FitsEdge(es, pats[x], m)}
    BY <2>2, OnePattern
  <2>4. PICK ess : ess = es
    OBVIOUS
  <2> HIDE DEF es, S
  <2>5. SolutionsAt(ess, pats, s) =
           JoinOf(SolutionsAt(ess, pats, s \ {x}),
                  {m \in [TripleVars(pats[x]) -> EndTerms(ess)] : FitsEdge(ess, pats[x], m)})
    BY <2>2, OneMorePattern
  <2> QED BY <2>1, <2>3, <2>4, <2>5
<1>3. BgpOver(T, pats, S, f)
  <2>1. ASSUME NEW s \in SUBSET S
        PROVE  f[s] = IF s = {} THEN {<< >>}
                      ELSE LET x == Max(s)
                           IN JoinOf(f[s \ {x}], TripleSolutions(T, pats[x]))
    <3>1. CASE s = {}
      BY <3>1, NoPatterns
    <3>2. CASE s # {}
      <4>1. f[s] = SolutionsAt(es, pats, s)
            /\ f[s \ {Max(s)}] = SolutionsAt(es, pats, s \ {Max(s)})
        OBVIOUS
      <4> HIDE DEF f
      <4> QED BY <1>2, <3>2, <4>1
    <3> QED BY <3>1, <3>2
  <2>2. f = [s \in SUBSET S |-> f[s]]
    OBVIOUS
  <2> HIDE DEF f, S
  <2> QED BY <2>1, <2>2 DEF BgpOver
<1>4. PICK it : it = CHOOSE iter : BgpOver(T, pats, S, iter)
  OBVIOUS
<1>5. BgpOver(T, pats, S, it)
  <2> HIDE DEF f, S
  <2> QED BY <1>3, <1>4
<1>6. \A s \in SUBSET S : it[s] = IF s = {} THEN {<< >>}
        ELSE LET x == Max(s) IN JoinOf(it[s \ {x}], TripleSolutions(T, pats[x]))
  BY <1>5 DEF BgpOver
<1>7. \A s \in SUBSET S : f[s] = IF s = {} THEN {<< >>}
        ELSE LET x == Max(s) IN JoinOf(f[s \ {x}], TripleSolutions(T, pats[x]))
  <2> HIDE DEF f
  <2> QED BY <1>3 DEF BgpOver
<1>8. it[S] = f[S]
  <2> HIDE DEF f
  <2>1. it[{}] = f[{}]
    BY <1>6, <1>7
  <2>2. \A s \in SUBSET S : s # {} /\ it[s \ {Max(s)}] = f[s \ {Max(s)}] => it[s] = f[s]
    BY <1>6, <1>7
  <2> QED BY <2>1, <2>2, FoldsAgree
<1>9. f[S] = SolutionsAt(es, pats, S)
  OBVIOUS
<1> QED BY <1>4, <1>8, <1>9, BgpFold
-----------------------------------------------------------------------------
(* Rows: a name with the node it stands for, or a null. *)
NodeRow(a) == [x \in DOMAIN a |-> Node(a[x])]

IsHop(h) == h = Hop(h.s, h.p, h.o) /\ h.p # AnyPredicate
HopNames(h) == {h.s, h.o}
NamesAt(hops, s) == UNION {HopNames(hops[i]) : i \in s}
OnEdge(es, h, a) == <<a[h.s], h.p, a[h.o]>> \in es
Extends(a, m) == \A x \in DOMAIN m : a[x] = m[x]

(* The assignments that extend m by what the hops at positions s match.    *)
MatchesAt(es, m, hops, s) ==
    {a \in [DOMAIN m \cup NamesAt(hops, s) -> {m[x] : x \in DOMAIN m} \cup EndTerms(es)] :
       Extends(a, m) /\ \A i \in s : OnEdge(es, hops[i], a)}

IsMap(m) == m = [y \in DOMAIN m |-> m[y]]
AreEdges(es) == \A e \in es : e = <<e[1], e[2], e[3]>>

LEMMA NodeRowParts ==
  ASSUME NEW a, NEW b
  PROVE  /\ DOMAIN NodeRow(a) = DOMAIN a
         /\ \A x \in DOMAIN a : NodeRow(a)[x] = Node(a[x])
         /\ \A u, v : Node(u) = Node(v) => u = v
<1>1. \A u, v : Node(u) = Node(v) => u = v
  BY DEF Node
<1> QED BY <1>1 DEF NodeRow

(* The rows that extend one by one hop.                                    *)
LEMMA HopExtends ==
  ASSUME NEW g, AreEdges(g.edges), NEW a, NEW h, IsHop(h), NEW D, D = DOMAIN a \cup HopNames(h),
         NEW r
  PROVE  r \in ExtendRow(g, NodeRow(a), h) <=>
           \E b : /\ b = [x \in D |-> b[x]]
                  /\ Extends(b, a) /\ OnEdge(g.edges, h, b) /\ r = NodeRow(b)
<1> DEFINE row == NodeRow(a)
           made(st) == Put(Put(row, h.s, Node(st[1])), h.o, Node(st[2]))
           fits(x, v) == x \in DOMAIN row => row[x] = Node(v)
           ends == {<<e[1], e[3]>> : e \in {d \in g.edges : h.p \in {AnyPredicate, d[2]}}}
<1>1. h.part = "hop" /\ h.p # AnyPredicate
  BY DEF IsHop, Hop
<1>2. r \in ExtendRow(g, row, h) <=>
        \E e \in g.edges : /\ h.p = e[2]
                           /\ fits(h.s, e[1]) /\ fits(h.o, e[3])
                           /\ h.s = h.o => e[1] = e[3]
                           /\ r = made(<<e[1], e[3]>>)
  <2>1. Ends(g, h) = ends
    BY <1>1 DEF Ends
  <2>2. r \in ExtendRow(g, row, h) <=>
          \E st \in ends : /\ fits(h.s, st[1]) /\ fits(h.o, st[2])
                           /\ h.s = h.o => st[1] = st[2]
                           /\ r = made(st)
    BY <2>1 DEF ExtendRow
  <2>3. \A st : st \in ends <=> \E e \in g.edges : h.p = e[2] /\ st = <<e[1], e[3]>>
    BY <1>1
  <2>4. \A u, v : <<u, v>>[1] = u /\ <<u, v>>[2] = v
    OBVIOUS
  <2> HIDE DEF made, fits, ends, row
  <2>5. ASSUME NEW st \in ends, fits(h.s, st[1]), fits(h.o, st[2]),
               h.s = h.o => st[1] = st[2], r = made(st)
        PROVE  \E e \in g.edges : /\ h.p = e[2]
                                  /\ fits(h.s, e[1]) /\ fits(h.o, e[3])
                                  /\ h.s = h.o => e[1] = e[3]
                                  /\ r = made(<<e[1], e[3]>>)
    <3>1. PICK e \in g.edges : h.p = e[2] /\ st = <<e[1], e[3]>>
      BY <2>3, <2>5
    <3>2. st[1] = e[1] /\ st[2] = e[3]
      BY <2>4, <3>1
    <3> QED BY <2>5, <3>1, <3>2
  <2>6. ASSUME NEW e \in g.edges, h.p = e[2], fits(h.s, e[1]), fits(h.o, e[3]),
               h.s = h.o => e[1] = e[3], r = made(<<e[1], e[3]>>)
        PROVE  \E st \in ends : /\ fits(h.s, st[1]) /\ fits(h.o, st[2])
                                /\ h.s = h.o => st[1] = st[2]
                                /\ r = made(st)
    <3>1. PICK st : st = <<e[1], e[3]>>
      OBVIOUS
    <3>2. st \in ends /\ st[1] = e[1] /\ st[2] = e[3]
      BY <2>3, <2>4, <2>6, <3>1
    <3> QED BY <2>6, <3>1, <3>2
  <2> QED BY <2>2, <2>5, <2>6
<1>3. ASSUME NEW u, NEW v
      PROVE  /\ made(<<u, v>>) = [x \in D |-> IF x = h.o THEN Node(v)
                                              ELSE IF x = h.s THEN Node(u) ELSE Node(a[x])]
  <2>1. DOMAIN row = DOMAIN a /\ \A x \in DOMAIN a : row[x] = Node(a[x])
    BY NodeRowParts
  <2>2. <<u, v>>[1] = u /\ <<u, v>>[2] = v
    OBVIOUS
  <2>3. D = (DOMAIN a \cup {h.s}) \cup {h.o}
    BY DEF HopNames
  <2> HIDE DEF row
  <2>4. Put(row, h.s, Node(u)) = [x \in DOMAIN a \cup {h.s} |->
                                    IF x = h.s THEN Node(u) ELSE Node(a[x])]
    BY <2>1 DEF Put
  <2>5. DOMAIN Put(row, h.s, Node(u)) = DOMAIN a \cup {h.s}
    BY <2>4
  <2>6. made(<<u, v>>) = [x \in (DOMAIN a \cup {h.s}) \cup {h.o} |->
                            IF x = h.o THEN Node(v) ELSE Put(row, h.s, Node(u))[x]]
    BY <2>2, <2>5 DEF Put
  <2> HIDE DEF made
  <2> QED BY <2>3, <2>4, <2>6
<1>4. ASSUME NEW e \in g.edges, h.p = e[2], fits(h.s, e[1]), fits(h.o, e[3]),
             h.s = h.o => e[1] = e[3], r = made(<<e[1], e[3]>>)
      PROVE  \E b : /\ b = [x \in D |-> b[x]]
                    /\ Extends(b, a) /\ OnEdge(g.edges, h, b) /\ r = NodeRow(b)
  <2> DEFINE b == [x \in D |-> IF x = h.o THEN e[3] ELSE IF x = h.s THEN e[1] ELSE a[x]]
  <2>1. b = [x \in D |-> b[x]]
    OBVIOUS
  <2>2. h.s \in D /\ h.o \in D /\ DOMAIN a \subseteq D
    BY DEF HopNames
  <2>3. b[h.s] = e[1] /\ b[h.o] = e[3]
    BY <1>4, <2>2
  <2>4. OnEdge(g.edges, h, b)
    <3>1. e = <<e[1], e[2], e[3]>>
      BY <1>4 DEF AreEdges
    <3>2. <<b[h.s], h.p, b[h.o]>> = e
      BY <1>4, <2>3, <3>1
    <3> HIDE DEF b
    <3> QED BY <3>2 DEF OnEdge
  <2>5. Extends(b, a)
    <3>1. /\ h.s \in DOMAIN a => a[h.s] = e[1]
          /\ h.o \in DOMAIN a => a[h.o] = e[3]
      BY <1>4, NodeRowParts
    <3> QED BY <2>2, <3>1 DEF Extends
  <2>6. r = NodeRow(b)
    <3>1. NodeRow(b) = [x \in D |-> Node(b[x])]
      BY DEF NodeRow
    <3>2. r = [x \in D |-> IF x = h.o THEN Node(e[3])
                           ELSE IF x = h.s THEN Node(e[1]) ELSE Node(a[x])]
      BY <1>3, <1>4
    <3> QED BY <3>1, <3>2
  <2> HIDE DEF b
  <2> QED BY <2>1, <2>4, <2>5, <2>6
<1>5. ASSUME NEW b, b = [x \in D |-> b[x]], Extends(b, a), OnEdge(g.edges, h, b), r = NodeRow(b)
      PROVE  \E e \in g.edges : /\ h.p = e[2]
                                /\ fits(h.s, e[1]) /\ fits(h.o, e[3])
                                /\ h.s = h.o => e[1] = e[3]
                                /\ r = made(<<e[1], e[3]>>)
  <2>1. PICK e \in g.edges : e = <<b[h.s], h.p, b[h.o]>>
    BY <1>5 DEF OnEdge
  <2>2. e[1] = b[h.s] /\ e[2] = h.p /\ e[3] = b[h.o]
    BY <2>1
  <2>3. fits(h.s, e[1]) /\ fits(h.o, e[3])
    BY <1>5, <2>2, NodeRowParts DEF Extends
  <2>4. NodeRow(b) = [x \in D |-> Node(b[x])]
    BY <1>5 DEF NodeRow
  <2>5. D = DOMAIN a \cup {h.s, h.o} /\ \A x \in DOMAIN a : b[x] = a[x]
    BY <1>5 DEF Extends, HopNames
  <2>6. \A x \in D : Node(b[x]) = IF x = h.o THEN Node(e[3])
                                  ELSE IF x = h.s THEN Node(e[1]) ELSE Node(a[x])
    BY <2>2, <2>5
  <2>7. r = made(<<e[1], e[3]>>)
    <3> HIDE DEF made, fits
    <3>1. made(<<e[1], e[3]>>) = [x \in D |-> IF x = h.o THEN Node(e[3])
                                   ELSE IF x = h.s THEN Node(e[1]) ELSE Node(a[x])]
      BY <1>3
    <3>2. r = [x \in D |-> Node(b[x])]
      BY <1>5, <2>4
    <3> QED BY <2>6, <3>1, <3>2
  <2> HIDE DEF made, fits
  <2> QED BY <2>2, <2>3, <2>7
<1> HIDE DEF made, fits, row
<1> QED BY <1>2, <1>4, <1>5 DEF row

LEMMA SameOnNames ==
  ASSUME NEW es, NEW h, NEW a, NEW b, \A x \in HopNames(h) : a[x] = b[x]
  PROVE  OnEdge(es, h, a) <=> OnEdge(es, h, b)
BY DEF OnEdge, HopNames

NextRows(g, rows, h) == UNION {ExtendRow(g, r, h) : r \in rows}

RowsAt(es, m, hops, s) == {NodeRow(a) : a \in MatchesAt(es, m, hops, s)}

(* One hop more. *)
LEMMA OneMoreHop ==
  ASSUME NEW g, AreEdges(g.edges), NEW m, NEW hops, NEW s, NEW x \in s,
         \A i \in s : IsHop(hops[i]), IsMap(m)
  PROVE  RowsAt(g.edges, m, hops, s) =
           NextRows(g, RowsAt(g.edges, m, hops, s \ {x}), hops[x])
<1> DEFINE es == g.edges
           V == {m[y] : y \in DOMAIN m} \cup EndTerms(es)
           L == DOMAIN m \cup NamesAt(hops, s \ {x})
           D == DOMAIN m \cup NamesAt(hops, s)
<1>1. D = L \cup HopNames(hops[x]) /\ \A i \in s \ {x} : HopNames(hops[i]) \subseteq L
  BY DEF NamesAt
<1>2. ASSUME NEW a \in MatchesAt(es, m, hops, s)
      PROVE  \E b \in MatchesAt(es, m, hops, s \ {x}) :
               NodeRow(a) \in ExtendRow(g, NodeRow(b), hops[x])
  <2>1. /\ a \in [D -> V] /\ Extends(a, m)
        /\ \A i \in s : OnEdge(es, hops[i], a)
    BY DEF MatchesAt
  <2> DEFINE b == [y \in L |-> a[y]]
  <2>2. b \in [L -> V]
    BY <1>1, <2>1
  <2>3. ASSUME NEW i \in s \ {x} PROVE OnEdge(es, hops[i], b)
    <3>1. \A y \in HopNames(hops[i]) : a[y] = b[y]
      BY <1>1, <2>3
    <3> HIDE DEF b
    <3> QED BY <2>1, <2>3, <3>1, SameOnNames
  <2>4. Extends(b, m)
    BY <2>1 DEF Extends
  <2>5. b \in MatchesAt(es, m, hops, s \ {x})
    <3> HIDE DEF b
    <3> QED BY <2>2, <2>3, <2>4 DEF MatchesAt
  <2>6. DOMAIN b = L /\ Extends(a, b) /\ a = [y \in D |-> a[y]]
    BY <2>1 DEF Extends
  <2>7. NodeRow(a) \in ExtendRow(g, NodeRow(b), hops[x])
    <3> HIDE DEF b, L, D, es
    <3>1. D = DOMAIN b \cup HopNames(hops[x]) /\ OnEdge(g.edges, hops[x], a) /\ IsHop(hops[x])
      BY <1>1, <2>1, <2>6 DEF es
    <3> QED BY <2>6, <3>1, HopExtends
  <2> HIDE DEF b
  <2> QED BY <2>5, <2>7
<1>3. ASSUME NEW b \in MatchesAt(es, m, hops, s \ {x}),
             NEW r \in ExtendRow(g, NodeRow(b), hops[x])
      PROVE  \E a \in MatchesAt(es, m, hops, s) : r = NodeRow(a)
  <2>1. /\ b \in [L -> V] /\ Extends(b, m)
        /\ \A i \in s \ {x} : OnEdge(es, hops[i], b)
    BY DEF MatchesAt
  <2>2. D = DOMAIN b \cup HopNames(hops[x]) /\ DOMAIN b = L
    BY <1>1, <2>1
  <2>3. PICK a : /\ a = [y \in D |-> a[y]]
                 /\ Extends(a, b) /\ OnEdge(es, hops[x], a) /\ r = NodeRow(a)
    <3>1. IsHop(hops[x])
      OBVIOUS
    <3> HIDE DEF D, L
    <3> QED BY <1>3, <2>2, <3>1, HopExtends
  <2>4. \A y \in L : a[y] = b[y]
    BY <2>2, <2>3 DEF Extends
  <2>5. Extends(a, m)
    BY <2>1, <2>4 DEF Extends
  <2>6. ASSUME NEW i \in s PROVE OnEdge(es, hops[i], a)
    <3>1. CASE i = x
      BY <2>3, <3>1
    <3>2. CASE i # x
      <4>1. \A y \in HopNames(hops[i]) : b[y] = a[y]
        BY <1>1, <2>4, <3>2
      <4>2. OnEdge(es, hops[i], b)
        BY <2>1, <2>6, <3>2
      <4> QED BY <4>1, <4>2, SameOnNames
    <3> QED BY <3>1, <3>2
  <2>7. \A y \in D : a[y] \in V
    <3>1. ASSUME NEW y \in L PROVE a[y] \in V
      BY <2>1, <2>4
    <3>2. ASSUME NEW y \in HopNames(hops[x]) PROVE a[y] \in V
      <4>1. a[hops[x].s] \in EndTerms(es) /\ a[hops[x].o] \in EndTerms(es)
        BY <2>3, EdgeEnds DEF OnEdge
      <4> QED BY <3>2, <4>1 DEF HopNames
    <3> QED BY <1>1, <3>1, <3>2
  <2>8. a \in [D -> V]
    <3> HIDE DEF D, V
    <3> QED BY <2>3, <2>7
  <2>9. a \in MatchesAt(es, m, hops, s)
    BY <2>5, <2>6, <2>8 DEF MatchesAt
  <2> QED BY <2>3, <2>9
<1>4. \A r : r \in RowsAt(es, m, hops, s) <=> \E a \in MatchesAt(es, m, hops, s) : r = NodeRow(a)
  BY DEF RowsAt
<1>5. \A r : r \in UNION {ExtendRow(g, q, hops[x]) : q \in RowsAt(es, m, hops, s \ {x})}
             <=> \E b \in MatchesAt(es, m, hops, s \ {x}) : r \in ExtendRow(g, NodeRow(b), hops[x])
  BY DEF RowsAt
<1>6. \A r : r \in RowsAt(es, m, hops, s) <=>
             r \in UNION {ExtendRow(g, q, hops[x]) : q \in RowsAt(es, m, hops, s \ {x})}
  <2> HIDE DEF es, V, L, D
  <2>1. ASSUME NEW a \in MatchesAt(es, m, hops, s)
        PROVE  NodeRow(a) \in UNION {ExtendRow(g, q, hops[x]) :
                                      q \in RowsAt(es, m, hops, s \ {x})}
    BY <1>2, <1>5, <2>1
  <2>2. ASSUME NEW r, NEW b \in MatchesAt(es, m, hops, s \ {x}),
               r \in ExtendRow(g, NodeRow(b), hops[x])
        PROVE  r \in RowsAt(es, m, hops, s)
    BY <1>3, <1>4, <2>2
  <2>3. ASSUME NEW r \in UNION {ExtendRow(g, q, hops[x]) : q \in RowsAt(es, m, hops, s \ {x})}
        PROVE  r \in RowsAt(es, m, hops, s)
    <3>1. PICK b \in MatchesAt(es, m, hops, s \ {x}) : r \in ExtendRow(g, NodeRow(b), hops[x])
      BY <1>5, <2>3
    <3> QED BY <2>2, <3>1
  <2>4. ASSUME NEW r \in RowsAt(es, m, hops, s)
        PROVE  r \in UNION {ExtendRow(g, q, hops[x]) : q \in RowsAt(es, m, hops, s \ {x})}
    <3>1. PICK a \in MatchesAt(es, m, hops, s) : r = NodeRow(a)
      BY <1>4, <2>4
    <3> QED BY <2>1, <3>1
  <2> QED BY <2>3, <2>4
<1> QED BY <1>6 DEF NextRows

LEMMA NoHops ==
  ASSUME NEW es, NEW m, NEW hops, IsMap(m)
  PROVE  RowsAt(es, m, hops, {}) = {NodeRow(m)}
<1>1. NamesAt(hops, {}) = {} /\ DOMAIN m \cup {} = DOMAIN m
  BY DEF NamesAt
<1>2. m \in [DOMAIN m -> {m[x] : x \in DOMAIN m} \cup EndTerms(es)]
  <2>1. \A y \in DOMAIN m : m[y] \in {m[x] : x \in DOMAIN m} \cup EndTerms(es)
    OBVIOUS
  <2> QED BY <2>1 DEF IsMap
<1>3. \A a : a \in MatchesAt(es, m, hops, {}) <=> a = m
  <2>1. m \in MatchesAt(es, m, hops, {})
    BY <1>1, <1>2 DEF MatchesAt, Extends
  <2>2. ASSUME NEW a \in MatchesAt(es, m, hops, {}) PROVE a = m
    <3>1. a \in [DOMAIN m -> {m[x] : x \in DOMAIN m} \cup EndTerms(es)] /\ Extends(a, m)
      BY <1>1 DEF MatchesAt
    <3>2. a = [y \in DOMAIN m |-> a[y]] /\ \A y \in DOMAIN m : a[y] = m[y]
      BY <3>1 DEF Extends
    <3> QED BY <3>2 DEF IsMap
  <2> QED BY <2>1, <2>2
<1> QED BY <1>3 DEF RowsAt

MatchOver(g, row, parts, S, iter) ==
    iter = [s \in SUBSET S |->
              IF s = {} THEN {row}
              ELSE LET x == Max(s)
                   IN NextRows(g, iter[s \ {x}], parts[x])]

LEMMA MatchFold ==
  ASSUME NEW g, NEW row, NEW parts
  PROVE  MatchRows(g, row, parts) =
           (CHOOSE iter : MatchOver(g, row, parts, DOMAIN parts, iter))[DOMAIN parts]
BY DEF MatchRows, FoldLeft, MapThenFoldSet, MatchOver, NextRows

LEMMA HopsInOrder ==
  ASSUME NEW g, AreEdges(g.edges), NEW m, IsMap(m), NEW hops,
         NEW S, \A i \in S : IsHop(hops[i]), \A s \in SUBSET S : s # {} => Max(s) \in s
  PROVE  MatchOver(g, NodeRow(m), hops, S, [s \in SUBSET S |-> RowsAt(g.edges, m, hops, s)])
<1> DEFINE f == [s \in SUBSET S |-> RowsAt(g.edges, m, hops, s)]
<1>1. ASSUME NEW s \in SUBSET S, s # {}
      PROVE  f[s] = NextRows(g, f[s \ {Max(s)}], hops[Max(s)])
  <2>1. PICK x : x = Max(s)
    OBVIOUS
  <2>2. x \in s /\ \A i \in s : IsHop(hops[i])
    BY <1>1, <2>1
  <2>3. RowsAt(g.edges, m, hops, s) =
           NextRows(g, RowsAt(g.edges, m, hops, s \ {x}), hops[x])
    BY <2>2, OneMoreHop
  <2> QED BY <2>1, <2>3
<1>2. f[{}] = {NodeRow(m)}
  BY NoHops
<1>3. f = [s \in SUBSET S |-> f[s]]
  OBVIOUS
<1> HIDE DEF f
<1>4. MatchOver(g, NodeRow(m), hops, S, f)
  BY <1>1, <1>2, <1>3 DEF MatchOver
<1> QED BY <1>4 DEF f

(* What MATCH makes of a row. *)
LEMMA RowsMatched ==
  ASSUME NEW g, AreEdges(g.edges), NEW m, IsMap(m),
         NEW hops, NEW n \in Nat, DOMAIN hops = 1 .. n, \A i \in 1 .. n : IsHop(hops[i])
  PROVE  MatchRows(g, NodeRow(m), hops) = RowsAt(g.edges, m, hops, 1 .. n)
<1> DEFINE S == 1 .. n
           row == NodeRow(m)
           f == [s \in SUBSET S |-> RowsAt(g.edges, m, hops, s)]
           next(it, s) == IF s = {} THEN {row}
                          ELSE LET x == Max(s)
                               IN NextRows(g, it[s \ {x}], hops[x])
<1>1. MatchOver(g, row, hops, S, f)
  <2>1. \A s \in SUBSET S : s # {} => Max(s) \in s
    BY MaxOfPositions
  <2> HIDE DEF S
  <2> QED BY <2>1, HopsInOrder DEF S
<1>2. PICK it : it = CHOOSE iter : MatchOver(g, row, hops, S, iter)
  OBVIOUS
<1>3. MatchOver(g, row, hops, S, it)
  <2> HIDE DEF f, S, row
  <2> QED BY <1>1, <1>2
<1>4. \A s \in SUBSET S : it[s] = next(it, s)
  <2> HIDE DEF row
  <2> QED BY <1>3 DEF MatchOver
<1>5. \A s \in SUBSET S : f[s] = next(f, s)
  <2> HIDE DEF f, row
  <2> QED BY <1>1 DEF MatchOver
<1>6. it[S] = f[S]
  <2> HIDE DEF f, row
  <2>1. it[{}] = f[{}]
    BY <1>4, <1>5
  <2>2. \A s \in SUBSET S : s # {} /\ it[s \ {Max(s)}] = f[s \ {Max(s)}] => it[s] = f[s]
    BY <1>4, <1>5
  <2> QED BY <2>1, <2>2, FoldsAgree
<1>7. f[S] = RowsAt(g.edges, m, hops, S)
  OBVIOUS
<1> QED BY <1>2, <1>6, <1>7, MatchFold
-----------------------------------------------------------------------------
(* The translation, one pattern after another. *)
TranslationOver(acc, pats, S, iter) ==
    iter = [s \in SUBSET S |->
              IF s = {} THEN acc
              ELSE LET x == Max(s) IN TripleToCypher(iter[s \ {x}], pats[x])]

Translations(acc, pats) ==
    {n \in Nat : \E iter : TranslationOver(acc, pats, 1 .. n, iter)}

LEMMA TranslationFold ==
  ASSUME NEW acc, NEW pats
  PROVE  BgpToCypher(acc, pats) =
           (CHOOSE iter : TranslationOver(acc, pats, DOMAIN pats, iter))[DOMAIN pats]
BY DEF BgpToCypher, FoldLeft, MapThenFoldSet, TranslationOver

LEMMA NoTranslation ==
  ASSUME NEW acc, NEW pats
  PROVE  0 \in Translations(acc, pats)
<1>1. 1 .. 0 = {}
  OBVIOUS
<1>2. PICK e : e = {}
  OBVIOUS
<1>3. TranslationOver(acc, pats, {}, [s \in SUBSET {} |-> acc])
  BY DEF TranslationOver
<1> QED BY <1>1, <1>3 DEF Translations

(* With or without the last of some positions.                             *)
LEMMA LastOrNot ==
  ASSUME NEW n \in Nat, NEW s \in SUBSET (1 .. n + 1)
  PROVE  /\ n + 1 \in s => Max(s) = n + 1 /\ s \ {n + 1} \in SUBSET (1 .. n)
         /\ n + 1 \notin s => s \in SUBSET (1 .. n)
         /\ n + 1 \notin s /\ s # {} => Max(s) \in s /\ Max(s) # n + 1
                                        /\ s \ {Max(s)} \in SUBSET (1 .. n)
<1>1. \A j \in s : j \in Nat /\ j <= n + 1 /\ (j # n + 1 => j \in 1 .. n)
  OBVIOUS
<1>2. ASSUME s # {} PROVE Max(s) \in s /\ \A j \in s : j <= Max(s)
  <2>1. PICK k : k = n + 1
    OBVIOUS
  <2>2. k \in Nat /\ s \in SUBSET (1 .. k)
    BY <2>1
  <2> QED BY <1>2, <2>2, MaxOfPositions
<1>3. ASSUME n + 1 \in s PROVE Max(s) = n + 1
  <2>1. PICK x : x = Max(s)
    OBVIOUS
  <2>2. x \in Nat /\ x <= n + 1 /\ n + 1 <= x
    BY <1>1, <1>2, <1>3, <2>1
  <2> QED BY <2>1, <2>2
<1> QED BY <1>1, <1>2, <1>3

HasLast(S, m, I) ==
    \A s \in SUBSET S :
      /\ m \in s => Max(s) = m /\ s \ {m} \in SUBSET I
      /\ m \notin s => s \in SUBSET I
      /\ m \notin s /\ s # {} => Max(s) \in s /\ Max(s) # m /\ s \ {Max(s)} \in SUBSET I

LEMMA LastsOrNot ==
  ASSUME NEW n \in Nat, NEW m, m = n + 1, NEW S, S = 1 .. m, NEW I, I = 1 .. n
  PROVE  HasLast(S, m, I)
BY LastOrNot DEF HasLast

LEMMA OneMoreTranslation ==
  ASSUME NEW acc, NEW pats, NEW n \in Nat, n \in Translations(acc, pats)
  PROVE  n + 1 \in Translations(acc, pats)
<1>1. PICK it : TranslationOver(acc, pats, 1 .. n, it)
  BY DEF Translations
<1>2. PICK S : S = 1 .. n + 1
  OBVIOUS
<1>3. \A s \in SUBSET (1 .. n) :
        it[s] = IF s = {} THEN acc
                ELSE LET x == Max(s) IN TripleToCypher(it[s \ {x}], pats[x])
  BY <1>1 DEF TranslationOver
<1> DEFINE k == n + 1
           jt == [s \in SUBSET S |->
                    IF k \in s THEN TripleToCypher(it[s \ {k}], pats[k]) ELSE it[s]]
<1>4. ASSUME NEW s \in SUBSET S
      PROVE  jt[s] = IF s = {} THEN acc
                     ELSE LET x == Max(s) IN TripleToCypher(jt[s \ {x}], pats[x])
  <2>1. /\ k \in s => Max(s) = k /\ s \ {k} \in SUBSET (1 .. n)
        /\ k \notin s => s \in SUBSET (1 .. n)
        /\ k \notin s /\ s # {} => Max(s) \in s /\ Max(s) # k
                                   /\ s \ {Max(s)} \in SUBSET (1 .. n)
    BY <1>2, LastOrNot
  <2>2. \A u \in SUBSET S : jt[u] = IF k \in u THEN TripleToCypher(it[u \ {k}], pats[k])
                                    ELSE it[u]
    OBVIOUS
  <2>3. s \ {k} \in SUBSET S /\ k \notin s \ {k} /\ s \ {Max(s)} \in SUBSET S
    OBVIOUS
  <2> HIDE DEF jt, k
  <2> QED BY <1>3, <2>1, <2>2, <2>3
<1>5. jt = [s \in SUBSET S |-> jt[s]]
  OBVIOUS
<1>6. TranslationOver(acc, pats, S, jt)
  <2> HIDE DEF jt
  <2> QED BY <1>4, <1>5 DEF TranslationOver
<1> QED BY <1>2, <1>6 DEF Translations

(* What the translation passes through.                                    *)
PassesThrough(acc, pats, accs, n) ==
    /\ accs[0] = acc /\ accs[n] = BgpToCypher(acc, pats)
    /\ \A k \in Nat : k < n => accs[k + 1] = TripleToCypher(accs[k], pats[k + 1])

LEMMA Translated ==
  ASSUME NEW acc, NEW pats, NEW n \in Nat, DOMAIN pats = 1 .. n
  PROVE  \E accs : PassesThrough(acc, pats, accs, n)
<1>1. \A k \in Nat : k \in Translations(acc, pats)
  BY NoTranslation, OneMoreTranslation, SetInduction
<1>2. \E iter : TranslationOver(acc, pats, 1 .. n, iter)
  BY <1>1 DEF Translations
<1>3. PICK S : S = 1 .. n
  OBVIOUS
<1>4. PICK it : it = CHOOSE iter : TranslationOver(acc, pats, S, iter)
  OBVIOUS
<1>5. TranslationOver(acc, pats, S, it)
  BY <1>2, <1>3, <1>4
<1>6. \A s \in SUBSET S :
        it[s] = IF s = {} THEN acc
                ELSE LET x == Max(s) IN TripleToCypher(it[s \ {x}], pats[x])
  BY <1>5 DEF TranslationOver
<1> DEFINE accs == [k \in 0 .. n |-> it[1 .. k]]
<1>7. accs[n] = BgpToCypher(acc, pats)
  BY <1>3, <1>4, TranslationFold
<1>8. accs[0] = acc
  <2>1. 1 .. 0 = {}
    OBVIOUS
  <2>2. accs[0] = it[{}]
    BY <2>1
  <2>3. it[{}] = acc
    BY <1>6
  <2> QED BY <2>2, <2>3
<1>9. ASSUME NEW k \in Nat, k < n
      PROVE  accs[k + 1] = TripleToCypher(accs[k], pats[k + 1])
  <2>1. PICK s : s = 1 .. k + 1
    OBVIOUS
  <2>2. s \in SUBSET S /\ s # {}
    <3>1. \A j \in s : j \in S
      BY <1>3, <1>9, <2>1
    <3>2. k + 1 \in s
      BY <2>1
    <3> QED BY <3>1, <3>2
  <2>3. Max(s) = k + 1 /\ s \ {Max(s)} = 1 .. k
    BY <2>1, LastOfPrefix
  <2>4. accs[k + 1] = it[s] /\ accs[k] = it[1 .. k]
    BY <1>9, <2>1
  <2> HIDE DEF accs
  <2> QED BY <1>6, <2>2, <2>3, <2>4
<1> HIDE DEF accs
<1> QED BY <1>7, <1>8, <1>9 DEF PassesThrough
-----------------------------------------------------------------------------
(* What a constant becomes: a name of its own and a condition on it.  cs   *)
(* says which name stands for which constant.                              *)
Numbered(n) == {<<"n", j>> : j \in 0 .. n - 1}
Condition(x, c) == Apply("eq", <<Prop(x, "uri"), TextExpr(c)>>)
Conditions(cs) == {Condition(x, cs[x]) : x \in DOMAIN cs}
Stands(x, t, cs) ==
    IF t.k = "var" THEN x = t.of ELSE x \in DOMAIN cs /\ cs[x] = t.of

IsParts(acc) == /\ acc = [match |-> acc.match, where |-> acc.where, vars |-> acc.vars,
                          n |-> acc.n, ok |-> acc.ok]
                /\ acc.n \in Nat

LEMMA NumberedNames ==
  ASSUME NEW n \in Nat
  PROVE  /\ <<"n", n>> \notin Numbered(n) /\ <<"n", n>> \in Numbered(n + 1)
         /\ Numbered(n) \subseteq Numbered(n + 1) /\ Numbered(n) \subseteq GeneratedNames
<1>1. \A i, j : <<"n", i>> = <<"n", j>> => i = j
  OBVIOUS
<1>2. n \notin 0 .. n - 1 /\ n \in 0 .. (n + 1) - 1 /\ 0 .. n - 1 \subseteq 0 .. (n + 1) - 1
      /\ 0 .. n - 1 \subseteq Nat
  OBVIOUS
<1>3. \A j \in Nat : <<"n", j>> \in GeneratedNames
  BY DEF GeneratedNames
<1> QED BY <1>1, <1>2, <1>3 DEF Numbered

LEMMA NextNumber ==
  ASSUME NEW t, NEW n \in Nat
  PROVE  TermToCypher(t, n).n \in Nat
<1>1. PICK m : m = n + 1
  OBVIOUS
<1>2. m \in Nat
  BY <1>1
<1> QED BY <1>1, <1>2 DEF TermToCypher

(* One term: ds has what cs has and a name for a constant.                 *)
TermNamed(r, t, cs, ds) ==
    /\ DOMAIN cs \subseteq DOMAIN ds /\ Extends(ds, cs)
    /\ DOMAIN ds \subseteq DOMAIN cs \cup {r.name}
    /\ DOMAIN ds \subseteq Numbered(r.n)
    /\ Stands(r.name, t, ds)
    /\ \/ r.conds = << >> /\ ds = cs
       \/ \E x \in DOMAIN ds : /\ r.conds = <<Condition(x, ds[x])>>
                               /\ DOMAIN ds = DOMAIN cs \cup {x}

LEMMA OneTerm ==
  ASSUME NEW t, t.k \in {"var", "iri"}, NEW n \in Nat, NEW cs, DOMAIN cs \subseteq Numbered(n),
         NEW r, r = TermToCypher(t, n)
  PROVE  \E ds : TermNamed(r, t, cs, ds)
<1>1. CASE t.k = "var"
  <2>1. r = [name |-> t.of, conds |-> << >>, n |-> n]
    BY <1>1 DEF TermToCypher
  <2>2. r.name = t.of /\ r.conds = << >> /\ r.n = n
    BY <2>1
  <2>3. Extends(cs, cs) /\ Stands(r.name, t, cs)
    BY <1>1, <2>2 DEF Extends, Stands
  <2> QED BY <1>1, <2>2, <2>3 DEF TermNamed
<1>2. CASE t.k = "iri"
  <2>1. PICK x : x = <<"n", n>>
    OBVIOUS
  <2>2. r = [name |-> x, n |-> n + 1, conds |-> <<Condition(x, t.of)>>]
    BY <1>2, <2>1 DEF TermToCypher, FreshName, Condition
  <2>3. r.name = x /\ r.n = n + 1 /\ r.conds = <<Condition(x, t.of)>>
    BY <2>2
  <2> DEFINE ds == [y \in DOMAIN cs \cup {x} |-> IF y = x THEN t.of ELSE cs[y]]
  <2>4. DOMAIN ds = DOMAIN cs \cup {x} /\ ds[x] = t.of
    OBVIOUS
  <2>5. x \notin DOMAIN cs /\ DOMAIN ds \subseteq Numbered(r.n)
    BY <2>1, <2>3, NumberedNames
  <2>6. Extends(ds, cs)
    BY <2>5 DEF Extends
  <2> HIDE DEF ds
  <2>7. Stands(r.name, t, ds)
    BY <1>2, <2>3, <2>4 DEF Stands
  <2> QED BY <2>3, <2>4, <2>5, <2>6, <2>7 DEF TermNamed
<1> QED BY <1>1, <1>2

IsList(s) == \E S : s \in Seq(S)

LEMMA ListIsAppended ==
  ASSUME NEW s, IsList(s), NEW e
  PROVE  /\ IsList(Append(s, e)) /\ Len(s) \in Nat /\ DOMAIN s = 1 .. Len(s)
         /\ Len(Append(s, e)) = Len(s) + 1 /\ DOMAIN Append(s, e) = 1 .. Len(s) + 1
         /\ Append(s, e)[Len(s) + 1] = e
         /\ \A i \in 1 .. Len(s) : Append(s, e)[i] = s[i]
<1>1. PICK S : s \in Seq(S)
  BY DEF IsList
<1>2. PICK T : T = S \cup {e}
  OBVIOUS
<1>3. s \in Seq(T) /\ e \in T
  BY <1>1, <1>2
<1>4. Append(s, e) \in Seq(T)
  BY <1>3
<1> QED BY <1>3, <1>4 DEF IsList

(* A list of what one and another list have.                               *)
Joined(w, u, v) ==
    /\ IsList(w)
    /\ \A i \in DOMAIN w : \/ \E j \in DOMAIN u : w[i] = u[j]
                           \/ \E j \in DOMAIN v : w[i] = v[j]
    /\ \A j \in DOMAIN u : \E i \in DOMAIN w : w[i] = u[j]
    /\ \A j \in DOMAIN v : \E i \in DOMAIN w : w[i] = v[j]

LEMMA ListsAreJoined ==
  ASSUME NEW u, IsList(u), NEW v, IsList(v)
  PROVE  Joined(u \o v, u, v)
<1>1. PICK U : u \in Seq(U)
  BY DEF IsList
<1>2. PICK V : v \in Seq(V)
  BY DEF IsList
<1>3. PICK T : T = U \cup V
  OBVIOUS
<1>4. u \in Seq(T) /\ v \in Seq(T)
  BY <1>1, <1>2, <1>3
<1>5. u \o v \in Seq(T) /\ DOMAIN u = 1 .. Len(u) /\ DOMAIN v = 1 .. Len(v)
      /\ DOMAIN (u \o v) = 1 .. Len(u) + Len(v) /\ Len(u) \in Nat /\ Len(v) \in Nat
  BY <1>4
<1>6. \A i \in 1 .. Len(u) + Len(v) :
        (u \o v)[i] = IF i <= Len(u) THEN u[i] ELSE v[i - Len(u)]
  BY <1>4
<1>7. ASSUME NEW i \in DOMAIN (u \o v)
      PROVE  \/ \E j \in DOMAIN u : (u \o v)[i] = u[j]
             \/ \E j \in DOMAIN v : (u \o v)[i] = v[j]
  <2>1. CASE i <= Len(u)
    <3>1. i \in 1 .. Len(u) /\ i \in 1 .. Len(u) + Len(v)
      BY <1>5, <2>1
    <3> QED BY <1>5, <1>6, <2>1, <3>1
  <2>2. CASE ~(i <= Len(u))
    <3>1. i - Len(u) \in 1 .. Len(v) /\ i \in 1 .. Len(u) + Len(v)
      BY <1>5, <2>2
    <3> QED BY <1>5, <1>6, <2>2, <3>1
  <2> QED BY <2>1, <2>2
<1>8. ASSUME NEW j \in DOMAIN u PROVE \E i \in DOMAIN (u \o v) : (u \o v)[i] = u[j]
  <2>1. j \in 1 .. Len(u) + Len(v) /\ j <= Len(u)
    BY <1>5
  <2> QED BY <1>5, <1>6, <2>1
<1>9. ASSUME NEW j \in DOMAIN v PROVE \E i \in DOMAIN (u \o v) : (u \o v)[i] = v[j]
  <2>1. PICK i : i = j + Len(u)
    OBVIOUS
  <2>2. i \in 1 .. Len(u) + Len(v) /\ ~(i <= Len(u)) /\ i - Len(u) = j
    BY <1>5, <2>1
  <2> QED BY <1>5, <1>6, <2>2
<1>10. IsList(u \o v)
  BY <1>5 DEF IsList
<1> QED BY <1>7, <1>8, <1>9, <1>10 DEF Joined

LEMMA ListOfOne ==
  ASSUME NEW e
  PROVE  /\ IsList(<<e>>) /\ DOMAIN <<e>> = {1} /\ <<e>>[1] = e
         /\ IsList(<< >>) /\ DOMAIN << >> = {} /\ Len(<< >>) = 0
<1>1. <<e>> \in Seq({e}) /\ << >> \in Seq({e})
  OBVIOUS
<1>2. DOMAIN <<e>> = {1} /\ DOMAIN << >> = {}
  OBVIOUS
<1> QED BY <1>1, <1>2 DEF IsList

(* What one triple pattern adds. *)
TriplePushed(acc, next, h, conds, n) ==
    /\ IsParts(next) /\ next.n = n
    /\ next.match = Append(acc.match, h) /\ next.where = acc.where \o conds

LEMMA AfterTriple ==
  ASSUME NEW acc, IsParts(acc), NEW t, NEW s, NEW o, NEW h, NEW conds,
         s = TermToCypher(t.s, acc.n), o = TermToCypher(t.o, s.n),
         h = Hop(s.name, PredicateToCypher(t.p), o.name), conds = s.conds \o o.conds,
         NEW m \in Nat, m = o.n + 1
  PROVE  TriplePushed(acc, TripleToCypher(acc, t), h, conds, m)
<1>1. PICK ps, cs : ps = Append(acc.match, h) /\ cs = acc.where \o conds
  OBVIOUS
<1>2. PICK next : next = TripleToCypher(acc, t)
  OBVIOUS
<1>3. next = [match |-> ps, where |-> cs, vars |-> acc.vars \cup TripleVars(t), n |-> m,
              ok |-> acc.ok]
  BY <1>1, <1>2 DEF TripleToCypher, Pushed, Constrained, Bound, IsParts
<1>4. /\ next.n = m /\ next.match = ps /\ next.where = cs
  BY <1>3
<1>5. next = [match |-> next.match, where |-> next.where, vars |-> next.vars,
              n |-> next.n, ok |-> next.ok]
  BY <1>3
<1> QED BY <1>1, <1>2, <1>4, <1>5 DEF IsParts, TriplePushed

(* What the parts of the first k patterns say.                             *)
HopFor(h, t, cs) ==
    IsHop(h) /\ h.p = t.p.of /\ Stands(h.s, t.s, cs) /\ Stands(h.o, t.o, cs)

HopsFor(hops, pats, k, cs) ==
    /\ IsList(hops) /\ Len(hops) = k
    /\ \A i \in 1 .. k : HopFor(hops[i], pats[i], cs)
    /\ DOMAIN cs \subseteq NamesAt(hops, 1 .. k)

ConditionsFor(es, cs) ==
    /\ IsList(es)
    /\ \A i \in DOMAIN es : \E x \in DOMAIN cs : es[i] = Condition(x, cs[x])
    /\ \A x \in DOMAIN cs : \E i \in DOMAIN es : es[i] = Condition(x, cs[x])

Describes(acc, pats, k, cs) ==
    /\ IsParts(acc) /\ DOMAIN cs \subseteq Numbered(acc.n)
    /\ HopsFor(acc.match, pats, k, cs) /\ ConditionsFor(acc.where, cs)

LEMMA StandsOn ==
  ASSUME NEW x, NEW t, NEW cs, NEW ds, DOMAIN cs \subseteq DOMAIN ds, Extends(ds, cs),
         Stands(x, t, cs)
  PROVE  Stands(x, t, ds)
BY DEF Stands, Extends

LEMMA HopForTriple ==
  ASSUME NEW t, IsBasic(t), NEW x, NEW y, NEW cs, Stands(x, t.s, cs), Stands(y, t.o, cs)
  PROVE  HopFor(Hop(x, PredicateToCypher(t.p), y), t, cs)
<1>1. t.p.k = "iri" /\ t.p.of # AnyPredicate /\ PredicateToCypher(t.p) = t.p.of
  BY DEF IsBasic, PredicateToCypher
<1>2. PICK h : h = Hop(x, t.p.of, y)
  OBVIOUS
<1>3. h.s = x /\ h.p = t.p.of /\ h.o = y
  BY <1>2 DEF Hop
<1> QED BY <1>1, <1>2, <1>3 DEF HopFor, IsHop

(* One pattern more. *)
LEMMA OneMoreDescribed ==
  ASSUME NEW acc, NEW pats, NEW k \in Nat, NEW cs, Describes(acc, pats, k, cs),
         NEW t, t = pats[k + 1], IsBasic(t), NEW next, next = TripleToCypher(acc, t)
  PROVE  \E ds : Describes(next, pats, k + 1, ds)
<1>1. PICK s : s = TermToCypher(t.s, acc.n)
  OBVIOUS
<1>2. acc.n \in Nat /\ t.s.k \in {"var", "iri"} /\ t.o.k \in {"var", "iri"}
      /\ DOMAIN cs \subseteq Numbered(acc.n)
  BY DEF Describes, IsParts, IsBasic
<1>3. s.n \in Nat
  BY <1>1, <1>2, NextNumber
<1>4. PICK ms : TermNamed(s, t.s, cs, ms)
  BY <1>1, <1>2, OneTerm
<1>5. DOMAIN ms \subseteq Numbered(s.n) /\ DOMAIN cs \subseteq DOMAIN ms /\ Extends(ms, cs)
  BY <1>4 DEF TermNamed
<1>6. PICK o : o = TermToCypher(t.o, s.n)
  OBVIOUS
<1>7. o.n \in Nat
  BY <1>3, <1>6, NextNumber
<1>8. PICK ds : TermNamed(o, t.o, ms, ds)
  BY <1>2, <1>3, <1>5, <1>6, OneTerm
<1>9. PICK m \in Nat : m = o.n + 1
  BY <1>7
<1>10. PICK h : h = Hop(s.name, PredicateToCypher(t.p), o.name)
  OBVIOUS
<1>11. PICK new : new = s.conds \o o.conds
  OBVIOUS
<1>12. TriplePushed(acc, next, h, new, m)
  <2>1. IsParts(acc)
    BY DEF Describes
  <2> QED BY <1>1, <1>6, <1>9, <1>10, <1>11, <2>1, AfterTriple
<1>13. DOMAIN cs \subseteq DOMAIN ds /\ Extends(ds, cs)
  BY <1>5, <1>8 DEF Extends, TermNamed
<1>14. HopFor(h, t, ds)
  <2>1. Stands(s.name, t.s, ds)
    BY <1>4, <1>8, StandsOn DEF TermNamed
  <2> QED BY <1>8, <1>10, <2>1, HopForTriple DEF TermNamed
<1>15. /\ IsList(next.match) /\ Len(next.match) = k + 1 /\ next.match[k + 1] = h
       /\ \A i \in 1 .. k : next.match[i] = acc.match[i]
  <2>1. IsList(acc.match) /\ Len(acc.match) = k
    BY DEF Describes, HopsFor
  <2> QED BY <1>12, <2>1, ListIsAppended DEF TriplePushed
<1>16. \A i \in 1 .. k + 1 : HopFor(next.match[i], pats[i], ds)
  <2>1. \A i \in 1 .. k + 1 : i = k + 1 \/ i \in 1 .. k
    OBVIOUS
  <2>2. ASSUME NEW i \in 1 .. k PROVE HopFor(acc.match[i], pats[i], ds)
    <3>1. HopFor(acc.match[i], pats[i], cs)
      BY DEF Describes, HopsFor
    <3> QED BY <1>13, <3>1, StandsOn DEF HopFor
  <2> QED BY <1>14, <1>15, <2>1, <2>2
<1>17. DOMAIN ds \subseteq Numbered(next.n)
  BY <1>7, <1>8, <1>9, <1>12, NumberedNames DEF TermNamed, TriplePushed
<1>18. DOMAIN ds \subseteq NamesAt(next.match, 1 .. k + 1)
  <2>1. h.s = s.name /\ h.o = o.name
    BY <1>10 DEF Hop
  <2>2. DOMAIN cs \subseteq NamesAt(acc.match, 1 .. k)
    BY DEF Describes, HopsFor
  <2>3. NamesAt(next.match, 1 .. k + 1) = NamesAt(acc.match, 1 .. k) \cup HopNames(h)
    <3>1. \A i : i \in 1 .. k + 1 <=> i = k + 1 \/ i \in 1 .. k
      OBVIOUS
    <3> QED BY <1>15, <3>1 DEF NamesAt
  <2> QED BY <1>4, <1>8, <2>1, <2>2, <2>3 DEF HopNames, TermNamed
<1>19. /\ IsList(s.conds) /\ IsList(o.conds)
  BY <1>4, <1>8, ListOfOne DEF TermNamed
<1>20. Joined(new, s.conds, o.conds)
  BY <1>19, <1>11, ListsAreJoined
<1>21. Joined(next.where, acc.where, new)
  <2>1. IsList(acc.where) /\ IsList(new)
    BY <1>20 DEF Joined, Describes, ConditionsFor
  <2> QED BY <1>12, <2>1, ListsAreJoined DEF TriplePushed
<1>22. /\ \A j \in DOMAIN s.conds : \E x \in DOMAIN ms : s.conds[j] = Condition(x, ms[x])
       /\ \A x \in DOMAIN ms \ DOMAIN cs :
            \E j \in DOMAIN s.conds : s.conds[j] = Condition(x, ms[x])
  BY <1>4, ListOfOne DEF TermNamed
<1>23. /\ \A j \in DOMAIN o.conds : \E x \in DOMAIN ds : o.conds[j] = Condition(x, ds[x])
       /\ \A x \in DOMAIN ds \ DOMAIN ms :
            \E j \in DOMAIN o.conds : o.conds[j] = Condition(x, ds[x])
  BY <1>8, ListOfOne DEF TermNamed
<1>24. /\ \A x \in DOMAIN cs : x \in DOMAIN ds /\ ds[x] = cs[x]
       /\ \A x \in DOMAIN ms : x \in DOMAIN ds /\ ds[x] = ms[x]
  BY <1>8, <1>13 DEF Extends, TermNamed
<1>25. ASSUME NEW i \in DOMAIN next.where
       PROVE  \E x \in DOMAIN ds : next.where[i] = Condition(x, ds[x])
  <2>1. \A j \in DOMAIN acc.where : \E x \in DOMAIN cs : acc.where[j] = Condition(x, cs[x])
    BY DEF Describes, ConditionsFor
  <2>2. CASE \E j \in DOMAIN acc.where : next.where[i] = acc.where[j]
    BY <1>24, <2>1, <2>2
  <2>3. CASE \E j \in DOMAIN new : next.where[i] = new[j]
    BY <1>20, <1>22, <1>23, <1>24, <2>3 DEF Joined
  <2> QED BY <1>21, <2>2, <2>3 DEF Joined
<1>26. ASSUME NEW x \in DOMAIN ds
       PROVE  \E i \in DOMAIN next.where : next.where[i] = Condition(x, ds[x])
  <2>1. CASE x \in DOMAIN cs
    BY <1>21, <1>24, <2>1 DEF Describes, ConditionsFor, Joined
  <2>2. CASE x \in DOMAIN ms \ DOMAIN cs
    BY <1>20, <1>21, <1>22, <1>24, <2>2 DEF Joined
  <2>3. CASE x \in DOMAIN ds \ DOMAIN ms
    BY <1>20, <1>21, <1>23, <2>3 DEF Joined
  <2> QED BY <2>1, <2>2, <2>3
<1>27. PICK j : j = k + 1
  OBVIOUS
<1>28. HopsFor(next.match, pats, j, ds)
  BY <1>15, <1>16, <1>18, <1>27 DEF HopsFor
<1>29. ConditionsFor(next.where, ds)
  BY <1>21, <1>25, <1>26 DEF ConditionsFor, Joined
<1>30. Describes(next, pats, j, ds)
  BY <1>12, <1>17, <1>28, <1>29 DEF Describes, TriplePushed
<1> QED BY <1>27, <1>30

(* The translation of all of them. *)
LEMMA BgpDescribed ==
  ASSUME NEW acc, IsParts(acc), acc.match = << >>, acc.where = << >>,
         NEW pats, NEW n \in Nat, DOMAIN pats = 1 .. n, \A i \in 1 .. n : IsBasic(pats[i])
  PROVE  \E cs : Describes(BgpToCypher(acc, pats), pats, n, cs)
<1>1. PICK accs : /\ accs[0] = acc /\ accs[n] = BgpToCypher(acc, pats)
                  /\ \A k \in Nat : k < n =>
                       accs[k + 1] = TripleToCypher(accs[k], pats[k + 1])
  <2>1. PICK accs : PassesThrough(acc, pats, accs, n)
    BY Translated
  <2> QED BY <2>1 DEF PassesThrough
<1> DEFINE described(k) == \E cs : Describes(accs[k], pats, k, cs)
           good == {k \in Nat : k <= n => described(k)}
<1>2. described(0)
  <2>1. PICK z : z = 0
    OBVIOUS
  <2>2. \A i \in 1 .. z : FALSE
    BY <2>1
  <2>3. HopsFor(acc.match, pats, z, << >>) /\ ConditionsFor(acc.where, << >>)
    BY <2>1, <2>2, ListOfOne DEF HopsFor, ConditionsFor
  <2>4. Describes(acc, pats, z, << >>)
    BY <2>3, ListOfOne DEF Describes
  <2> QED BY <1>1, <2>1, <2>4
<1>3. 0 \in good
  BY <1>2
<1>4. ASSUME NEW k \in Nat, k \in good PROVE k + 1 \in good
  <2>1. SUFFICES ASSUME k + 1 <= n PROVE described(k + 1)
    BY <1>4
  <2>2. k < n /\ k <= n /\ k + 1 \in 1 .. n
    BY <2>1
  <2>3. PICK cs : Describes(accs[k], pats, k, cs)
    BY <1>4, <2>2
  <2>4. accs[k + 1] = TripleToCypher(accs[k], pats[k + 1]) /\ IsBasic(pats[k + 1])
    BY <1>1, <2>2
  <2> HIDE DEF good
  <2> QED BY <2>3, <2>4, OneMoreDescribed
<1>5. n \in good
  <2> HIDE DEF good
  <2> QED BY <1>3, <1>4, SetInduction
<1>6. n <= n
  OBVIOUS
<1>7. described(n)
  <2> HIDE DEF described
  <2> QED BY <1>5, <1>6
<1> QED BY <1>1, <1>7

(* The names of the hops are the variables and what stands for constants.  *)
LEMMA NamesOfHops ==
  ASSUME NEW pats, NEW k, \A i \in 1 .. k : IsBasic(pats[i]),
         NEW cs, NEW hops, HopsFor(hops, pats, k, cs)
  PROVE  NamesAt(hops, 1 .. k) = VarsAt(pats, 1 .. k) \cup DOMAIN cs
<1>1. \A i \in 1 .. k : HopFor(hops[i], pats[i], cs)
  BY DEF HopsFor
<1>2. ASSUME NEW i \in 1 .. k
      PROVE  /\ HopNames(hops[i]) \subseteq TripleVars(pats[i]) \cup DOMAIN cs
             /\ TripleVars(pats[i]) \subseteq HopNames(hops[i])
  <2>1. Stands(hops[i].s, pats[i].s, cs) /\ Stands(hops[i].o, pats[i].o, cs)
    BY <1>1 DEF HopFor
  <2>2. TripleVars(pats[i]) = (IF pats[i].s.k = "var" THEN {pats[i].s.of} ELSE {})
                              \cup (IF pats[i].o.k = "var" THEN {pats[i].o.of} ELSE {})
    BY BasicVars
  <2> QED BY <2>1, <2>2 DEF Stands, HopNames
<1>3. \A x : x \in NamesAt(hops, 1 .. k) <=> \E i \in 1 .. k : x \in HopNames(hops[i])
  BY DEF NamesAt
<1>4. \A x : x \in VarsAt(pats, 1 .. k) <=> \E i \in 1 .. k : x \in TripleVars(pats[i])
  BY DEF VarsAt
<1>5. DOMAIN cs \subseteq NamesAt(hops, 1 .. k)
  BY DEF HopsFor
<1>6. \A x : x \in NamesAt(hops, 1 .. k) <=> x \in VarsAt(pats, 1 .. k) \cup DOMAIN cs
  BY <1>2, <1>3, <1>4, <1>5
<1>7. PICK U : U = NamesAt(hops, 1 .. k)
  OBVIOUS
<1>8. PICK V : V = VarsAt(pats, 1 .. k)
  OBVIOUS
<1> QED BY <1>6, <1>7, <1>8

(* No variable is one of the names that stand for constants.               *)
LEMMA VarsAreNoConstants ==
  ASSUME NEW pats, NEW k, \A i \in 1 .. k : IsBasic(pats[i]),
         NEW n \in Nat, NEW xs, xs \subseteq Numbered(n)
  PROVE  VarsAt(pats, 1 .. k) \cap xs = {}
<1>1. xs \subseteq GeneratedNames
  BY NumberedNames
<1>2. \A i \in 1 .. k : TripleVars(pats[i]) \cap GeneratedNames = {}
  BY DEF IsBasic
<1> QED BY <1>1, <1>2 DEF VarsAt

LEMMA BareHasNoConditions ==
  ASSUME NEW acc, NEW pats, NEW k, \A i \in 1 .. k : IsBare(pats[i]),
         NEW cs, Describes(acc, pats, k, cs)
  PROVE  DOMAIN cs = {} /\ acc.where = << >>
<1>1. \A i \in 1 .. k : IsBasic(pats[i])
  BY DEF IsBare
<1>2. VarsAt(pats, 1 .. k) \cap DOMAIN cs = {}
  <2>1. acc.n \in Nat /\ DOMAIN cs \subseteq Numbered(acc.n)
    BY DEF Describes, IsParts
  <2> QED BY <1>1, <2>1, VarsAreNoConstants
<1>3. ASSUME NEW i \in 1 .. k PROVE HopNames(acc.match[i]) \subseteq VarsAt(pats, 1 .. k)
  <2>1. Stands(acc.match[i].s, pats[i].s, cs) /\ Stands(acc.match[i].o, pats[i].o, cs)
    BY DEF Describes, HopsFor, HopFor
  <2>2. pats[i].s.k = "var" /\ pats[i].o.k = "var"
    BY DEF IsBare
  <2>3. HopNames(acc.match[i]) \subseteq TripleVars(pats[i])
    BY <2>1, <2>2 DEF Stands, HopNames, TripleVars, TermVars
  <2> QED BY <2>3 DEF VarsAt
<1>4. DOMAIN cs = {}
  <2>1. DOMAIN cs \subseteq NamesAt(acc.match, 1 .. k)
    BY DEF Describes, HopsFor
  <2>2. NamesAt(acc.match, 1 .. k) \subseteq VarsAt(pats, 1 .. k)
    BY <1>3 DEF NamesAt
  <2> QED BY <1>2, <2>1, <2>2
<1>5. DOMAIN acc.where = {}
  BY <1>4 DEF Describes, ConditionsFor
<1>6. acc.where = << >>
  <2>1. PICK S : acc.where \in Seq(S)
    BY DEF Describes, ConditionsFor, IsList
  <2>2. PICK es \in Seq(S) : es = acc.where
    BY <2>1
  <2>3. 1 \notin DOMAIN es
    BY <1>5, <2>2
  <2>4. Len(es) = 0
    BY <2>3
  <2> QED BY <2>2, <2>4
<1> QED BY <1>4, <1>6
-----------------------------------------------------------------------------
(* The rows of a query: those of its patterns, with what its last clause   *)
(* and its WHERE make of them.                                             *)
RowsFound(g, b) == BodyRowsBy(g, b, LAMBDA e, r : ShallowValue(g, e, r))

IsTrueIn(g, e, r) == ShallowValue(g, e, r) = Bool(TRUE)
Passes(g, where, r) == \A i \in DOMAIN where : IsTrueIn(g, where[i], r)
Passing(g, where, rows) == {r \in rows : Passes(g, where, r)}

RowsAfterClause(g, rows, c, where) ==
    RowsAfter(g, rows, c, where, LAMBDA e, r : ShallowValue(g, e, r))
WhereAt(b, i) == IF i = Len(b.clauses) THEN b.where ELSE << >>

BodyOver(g, b, ixs, S, iter) ==
    iter = [s \in SUBSET S |->
              IF s = {} THEN {<< >>}
              ELSE LET x == Max(s)
                   IN RowsAfterClause(g, iter[s \ {x}], b.clauses[ixs[x]], WhereAt(b, ixs[x]))]

LEMMA BodyFold ==
  ASSUME NEW g, NEW b, NEW ixs, ixs = [i \in DOMAIN b.clauses |-> i]
  PROVE  RowsFound(g, b) =
           (CHOOSE iter : BodyOver(g, b, ixs, DOMAIN ixs, iter))[DOMAIN ixs]
BY DEF RowsFound, BodyRowsBy, FoldLeft, MapThenFoldSet, BodyOver, RowsAfterClause, WhereAt

LEMMA AfterHop ==
  ASSUME NEW g, NEW rows, NEW c, c.part = "hop", NEW where
  PROVE  RowsAfterClause(g, rows, c, where) = Passing(g, where, NextRows(g, rows, c))
BY DEF RowsAfterClause, RowsAfter, Passing, Passes, IsTrueIn, NextRows

LEMMA KeptWithoutWhere ==
  ASSUME NEW g, NEW rows
  PROVE  Passing(g, << >>, rows) = rows
<1>1. DOMAIN << >> = {}
  OBVIOUS
<1> QED BY <1>1 DEF Passing, Passes

BodyRowsAt(g, hops, s) == RowsAt(g.edges, << >>, hops, s)

LEMMA OneMoreClause ==
  ASSUME NEW g, AreEdges(g.edges), NEW hops, NEW s, NEW x \in s, \A i \in s : IsHop(hops[i])
  PROVE  BodyRowsAt(g, hops, s) =
           RowsAfterClause(g, BodyRowsAt(g, hops, s \ {x}), hops[x], << >>)
<1>1. PICK m : m = << >>
  OBVIOUS
<1>2. IsMap(m)
  BY <1>1 DEF IsMap
<1>3. RowsAt(g.edges, m, hops, s) = NextRows(g, RowsAt(g.edges, m, hops, s \ {x}), hops[x])
  BY <1>2, OneMoreHop
<1>4. hops[x].part = "hop"
  <2>1. IsHop(hops[x])
    OBVIOUS
  <2> QED BY <2>1 DEF IsHop, Hop
<1> QED BY <1>1, <1>3, <1>4, AfterHop, KeptWithoutWhere DEF BodyRowsAt

InOrder(g, hops, K) ==
    \A s \in SUBSET K : \A x \in s :
      BodyRowsAt(g, hops, s) =
        RowsAfterClause(g, BodyRowsAt(g, hops, s \ {x}), hops[x], << >>)

LEMMA ClausesInOrder ==
  ASSUME NEW g, AreEdges(g.edges), NEW hops, NEW K, \A i \in K : IsHop(hops[i])
  PROVE  InOrder(g, hops, K)
<1>1. ASSUME NEW s \in SUBSET K, NEW x \in s
      PROVE  BodyRowsAt(g, hops, s) =
               RowsAfterClause(g, BodyRowsAt(g, hops, s \ {x}), hops[x], << >>)
  <2>1. \A i \in s : IsHop(hops[i])
    OBVIOUS
  <2> QED BY <2>1, OneMoreClause
<1> QED BY <1>1 DEF InOrder

(* Clauses of hops with any last one: N clauses, k of them before it.      *)
LEMMA LastClause ==
  ASSUME NEW g, AreEdges(g.edges), NEW b, NEW k \in Nat, NEW N, N = k + 1,
         DOMAIN b.clauses = 1 .. N, Len(b.clauses) = N,
         \A i \in 1 .. k : IsHop(b.clauses[i])
  PROVE  RowsFound(g, b) =
           RowsAfterClause(g, BodyRowsAt(g, b.clauses, 1 .. k), b.clauses[N], b.where)
<1> DEFINE cl == b.clauses
           at(s) == BodyRowsAt(g, cl, s)
<1>1. PICK S : S = 1 .. N
  OBVIOUS
<1>2. PICK ixs : ixs = [i \in DOMAIN cl |-> i]
  OBVIOUS
<1>3. DOMAIN ixs = S /\ \A i \in S : ixs[i] = i
  BY <1>1, <1>2
<1>4. \A s \in SUBSET S :
        /\ N \in s => Max(s) = N /\ s \ {N} \in SUBSET (1 .. k)
        /\ N \notin s => s \in SUBSET (1 .. k)
        /\ N \notin s /\ s # {} => Max(s) \in s /\ Max(s) # N
                                   /\ s \ {Max(s)} \in SUBSET (1 .. k)
  <2>1. PICK K : K = 1 .. k
    OBVIOUS
  <2>2. HasLast(S, N, K)
    BY <1>1, <2>1, LastsOrNot
  <2> QED BY <2>1, <2>2 DEF HasLast
<1> DEFINE f == [s \in SUBSET S |->
                   IF N \in s THEN RowsAfterClause(g, at(s \ {N}), cl[N], b.where)
                   ELSE at(s)]
           next(it, s) == IF s = {} THEN {<< >>}
                          ELSE LET x == Max(s)
                               IN RowsAfterClause(g, it[s \ {x}], cl[ixs[x]], WhereAt(b, ixs[x]))
<1>5. WhereAt(b, N) = b.where /\ \A i \in 1 .. k : WhereAt(b, i) = << >>
  <2>1. \A i \in 1 .. k : i # N
    OBVIOUS
  <2> QED BY <2>1 DEF WhereAt
<1>6. \A s \in SUBSET (1 .. k) : \A x \in s :
         at(s) = RowsAfterClause(g, at(s \ {x}), cl[x], << >>)
  <2>1. PICK K : K = 1 .. k
    OBVIOUS
  <2>2. \A i \in K : IsHop(cl[i])
    BY <2>1
  <2>3. InOrder(g, cl, K)
    <3> HIDE DEF cl
    <3> QED BY <2>2, ClausesInOrder
  <2> QED BY <2>1, <2>3 DEF InOrder
<1>7. ASSUME NEW s \in SUBSET S PROVE f[s] = next(f, s)
  <2>1. /\ N \in s => Max(s) = N /\ s \ {N} \in SUBSET (1 .. k)
        /\ N \notin s => s \in SUBSET (1 .. k)
        /\ N \notin s /\ s # {} => Max(s) \in s /\ Max(s) # N
                                   /\ s \ {Max(s)} \in SUBSET (1 .. k)
    <3> HIDE DEF f
    <3> QED BY <1>4
  <2>2. s \ {N} \in SUBSET S /\ N \notin s \ {N} /\ s \ {Max(s)} \in SUBSET S
    OBVIOUS
  <2>3. \A u \in SUBSET S : f[u] = IF N \in u
                                   THEN RowsAfterClause(g, at(u \ {N}), cl[N], b.where)
                                   ELSE at(u)
    OBVIOUS
  <2> HIDE DEF f
  <2>4. CASE s = {}
    <3>1. at({}) = {<< >>}
      <4>1. IsMap(<< >>) /\ NodeRow(<< >>) = << >>
        BY DEF IsMap, NodeRow
      <4> QED BY <4>1, NoHops DEF BodyRowsAt
    <3> QED BY <2>3, <2>4, <3>1
  <2>5. CASE N \in s
    <3>1. f[s \ {N}] = at(s \ {N}) /\ f[s] = RowsAfterClause(g, at(s \ {N}), cl[N], b.where)
      BY <2>2, <2>3, <2>5
    <3>2. ixs[N] = N
      BY <1>3, <2>5
    <3> HIDE DEF at, cl
    <3> QED BY <1>5, <2>1, <2>5, <3>1, <3>2
  <2>6. CASE s # {} /\ N \notin s
    <3>1. PICK x : x = Max(s)
      OBVIOUS
    <3>2. x \in s /\ x \in 1 .. k /\ s \in SUBSET (1 .. k) /\ N \notin s \ {x}
      BY <2>1, <2>6, <3>1
    <3>3. f[s \ {x}] = at(s \ {x}) /\ f[s] = at(s)
      BY <2>2, <2>3, <2>6, <3>1, <3>2
    <3>4. ixs[x] = x /\ WhereAt(b, x) = << >>
      BY <1>3, <1>5, <3>2
    <3>5. IsHop(cl[x]) /\ \A i \in s : IsHop(cl[i])
      BY <2>1, <2>6, <3>2
    <3>6. RowsAfterClause(g, at(s \ {x}), cl[x], << >>) = at(s)
      <4> HIDE DEF cl
      <4> QED BY <1>6, <3>2
    <3> HIDE DEF at, cl
    <3> QED BY <2>6, <3>1, <3>3, <3>4, <3>6
  <2> QED BY <2>4, <2>5, <2>6
<1>8. f = [s \in SUBSET S |-> f[s]]
  OBVIOUS
<1>9. BodyOver(g, b, ixs, S, f)
  <2> HIDE DEF f
  <2> QED BY <1>7, <1>8 DEF BodyOver
<1>10. PICK it : it = CHOOSE iter : BodyOver(g, b, ixs, S, iter)
  OBVIOUS
<1>11. BodyOver(g, b, ixs, S, it)
  <2> HIDE DEF f
  <2> QED BY <1>9, <1>10
<1>12. \A s \in SUBSET S : it[s] = next(it, s)
  BY <1>11 DEF BodyOver
<1>13. N \in Nat
  OBVIOUS
<1>14. it[S] = f[S]
  <2> HIDE DEF f
  <2>1. it[{}] = f[{}]
    BY <1>7, <1>12
  <2>2. \A s \in SUBSET S : s # {} /\ it[s \ {Max(s)}] = f[s \ {Max(s)}] => it[s] = f[s]
    BY <1>7, <1>12
  <2> QED BY <1>1, <1>13, <2>1, <2>2, FoldsAgree
<1>15. f[S] = RowsAfterClause(g, at(1 .. k), cl[N], b.where)
  <2>1. N \in S /\ S \ {N} = 1 .. k
    BY <1>1
  <2> QED BY <2>1
<1>16. RowsFound(g, b) = it[S]
  <2>1. PICK T : T = DOMAIN ixs
    OBVIOUS
  <2>2. RowsFound(g, b) = (CHOOSE iter : BodyOver(g, b, ixs, T, iter))[T]
    BY <1>2, <2>1, BodyFold
  <2>3. T = S
    BY <1>3, <2>1
  <2> QED BY <1>10, <2>2, <2>3
<1> QED BY <1>14, <1>15, <1>16
-----------------------------------------------------------------------------
(* A condition keeps the rows whose name stands for the constant.          *)
LEMMA ConditionHolds ==
  ASSUME NEW g, NEW x, NEW c, NEW row, NEW u, row[x] = Node(u)
  PROVE  IsTrueIn(g, Condition(x, c), row) <=> u = c
<1>1. PICK e : e = Condition(x, c)
  OBVIOUS
<1>2. e = [f |-> "eq", args |-> <<Prop(x, "uri"), TextExpr(c)>>]
  BY <1>1 DEF Condition, Apply
<1>3. e.f = "eq" /\ e.args[1] = Prop(x, "uri") /\ e.args[2] = TextExpr(c)
  BY <1>2
<1>4. PICK l : l = Prop(x, "uri")
  OBVIOUS
<1>5. l.f = "prop" /\ l.of = x /\ l.name = "uri"
  BY <1>4 DEF Prop
<1>6. PICK r : r = TextExpr(c)
  OBVIOUS
<1>7. r.f = "text" /\ r.of = c
  BY <1>6 DEF TextExpr, Leaf
<1> DEFINE deep(f, s) == ValueIn(g, f, s, LAMBDA h, q : Broken)
<1>8. deep(l, row) = PropertyOf(row[x], "uri")
  BY <1>5 DEF ValueIn
<1>9. deep(r, row) = Text(c)
  BY <1>7 DEF ValueIn
<1>10. PropertyOf(row[x], "uri") = Text(u)
  <2>1. Node(u).t = "node" /\ Node(u).of = u
    BY DEF Node
  <2> QED BY <2>1 DEF PropertyOf
<1>11. ShallowValue(g, e, row) = Equals(deep(l, row), deep(r, row))
  BY <1>3, <1>4, <1>6 DEF ShallowValue, ValueIn
<1>12. Equals(Text(u), Text(c)) = Bool(Text(u) = Text(c))
  <2>1. Text(u).t = "text" /\ Text(c).t = "text"
    BY DEF Text
  <2> QED BY <2>1 DEF Equals, Both
<1>13. Text(u) = Text(c) <=> u = c
  BY DEF Text
<1>14. Bool(Text(u) = Text(c)) = Bool(TRUE) <=> Text(u) = Text(c)
  BY DEF Bool
<1>15. IsTrueIn(g, e, row) <=> u = c
  BY <1>8, <1>9, <1>10, <1>11, <1>12, <1>13, <1>14 DEF IsTrueIn
<1> QED BY <1>1, <1>15

(* Clauses that are hops, and the WHERE.                                   *)
LEMMA RowsOfHops ==
  ASSUME NEW g, AreEdges(g.edges), NEW b, NEW n \in Nat, n # 0,
         DOMAIN b.clauses = 1 .. n, Len(b.clauses) = n,
         \A i \in 1 .. n : IsHop(b.clauses[i])
  PROVE  RowsFound(g, b) = Passing(g, b.where, BodyRowsAt(g, b.clauses, 1 .. n))
<1>1. PICK k \in Nat : n = k + 1
  <2>1. n - 1 \in Nat /\ n = (n - 1) + 1
    OBVIOUS
  <2> QED BY <2>1
<1>2. \A i \in 1 .. k : IsHop(b.clauses[i])
  BY <1>1
<1>3. RowsFound(g, b) =
        RowsAfterClause(g, BodyRowsAt(g, b.clauses, 1 .. k), b.clauses[n], b.where)
  BY <1>1, <1>2, LastClause
<1>4. PICK S : S = 1 .. n
  OBVIOUS
<1>5. n \in S /\ S \ {n} = 1 .. k
  BY <1>1, <1>4
<1>6. PICK cl : cl = b.clauses
  OBVIOUS
<1>7. \A i \in S : IsHop(cl[i])
  BY <1>4, <1>6
<1>8. InOrder(g, cl, S)
  BY <1>7, ClausesInOrder
<1>9. BodyRowsAt(g, cl, S) = RowsAfterClause(g, BodyRowsAt(g, cl, S \ {n}), cl[n], << >>)
  BY <1>5, <1>8 DEF InOrder
<1>10. cl[n].part = "hop"
  <2>1. IsHop(cl[n])
    BY <1>5, <1>7
  <2> QED BY <2>1 DEF IsHop, Hop
<1>11. PICK h, rows, where : h = cl[n] /\ rows = BodyRowsAt(g, cl, S \ {n}) /\ where = b.where
  OBVIOUS
<1>12. h.part = "hop"
  BY <1>10, <1>11
<1>13. RowsAfterClause(g, rows, h, << >>) = NextRows(g, rows, h)
  BY <1>12, AfterHop, KeptWithoutWhere
<1>14. RowsAfterClause(g, rows, h, where) = Passing(g, where, NextRows(g, rows, h))
  BY <1>12, AfterHop
<1>15. RowsFound(g, b) = RowsAfterClause(g, rows, h, where)
  BY <1>3, <1>5, <1>6, <1>11
<1>16. BodyRowsAt(g, cl, S) = NextRows(g, rows, h)
  BY <1>9, <1>11, <1>13
<1> QED BY <1>4, <1>6, <1>11, <1>14, <1>15, <1>16

(* A hop that is made of a pattern matches what the pattern does, where    *)
(* constants are what stands for them.                                     *)
Agrees(a, cs) == \A x \in DOMAIN cs : a[x] = cs[x]

LEMMA HopFits ==
  ASSUME NEW es, NEW h, NEW t, NEW cs, HopFor(h, t, cs), NEW a, Agrees(a, cs)
  PROVE  OnEdge(es, h, a) <=> FitsEdge(es, t, a)
<1>1. a[h.s] = ValueAt(a, t.s)
  BY DEF HopFor, Stands, Agrees, ValueAt
<1>2. a[h.o] = ValueAt(a, t.o)
  BY DEF HopFor, Stands, Agrees, ValueAt
<1>3. h.p = t.p.of
  BY DEF HopFor
<1> QED BY <1>1, <1>2, <1>3 DEF OnEdge, FitsEdge

LEMMA ConditionsAgree ==
  ASSUME NEW g, NEW es, NEW cs, ConditionsFor(es, cs), NEW a, DOMAIN cs \subseteq DOMAIN a
  PROVE  Passes(g, es, NodeRow(a)) <=> Agrees(a, cs)
<1>1. \A x \in DOMAIN cs : NodeRow(a)[x] = Node(a[x])
  BY NodeRowParts
<1>2. \A x \in DOMAIN cs :
        IsTrueIn(g, Condition(x, cs[x]), NodeRow(a)) <=> a[x] = cs[x]
  <2>1. ASSUME NEW x \in DOMAIN cs
        PROVE  IsTrueIn(g, Condition(x, cs[x]), NodeRow(a)) <=> a[x] = cs[x]
    <3>1. PICK row, u, c : row = NodeRow(a) /\ u = a[x] /\ c = cs[x]
      OBVIOUS
    <3>2. row[x] = Node(u)
      BY <1>1, <3>1
    <3>3. IsTrueIn(g, Condition(x, c), row) <=> u = c
      BY <3>2, ConditionHolds
    <3> QED BY <3>1, <3>3
  <2> QED BY <2>1
<1> QED BY <1>2 DEF ConditionsFor, Passes, Agrees

(* The assignments that make the rows of a basic graph pattern.            *)
AssignedBy(es, pats, k, cs) ==
    {a \in [VarsAt(pats, 1 .. k) \cup DOMAIN cs -> EndTerms(es)] :
       Agrees(a, cs) /\ \A i \in 1 .. k : FitsEdge(es, pats[i], a)}

LEMMA RowsAssigned ==
  ASSUME NEW g, NEW pats, NEW k, \A i \in 1 .. k : IsBasic(pats[i]),
         NEW cs, NEW hops, HopsFor(hops, pats, k, cs), NEW where, ConditionsFor(where, cs)
  PROVE  Passing(g, where, BodyRowsAt(g, hops, 1 .. k)) =
           {NodeRow(a) : a \in AssignedBy(g.edges, pats, k, cs)}
<1> DEFINE es == g.edges
           names == NamesAt(hops, 1 .. k)
           found == MatchesAt(es, << >>, hops, 1 .. k)
<1>1. names = VarsAt(pats, 1 .. k) \cup DOMAIN cs
  BY NamesOfHops
<1>2. ASSUME NEW a
      PROVE  a \in found <=>
               /\ a \in [names -> EndTerms(es)]
               /\ \A i \in 1 .. k : OnEdge(es, hops[i], a)
  <2>1. PICK m : m = << >>
    OBVIOUS
  <2>2. DOMAIN m = {}
    BY <2>1
  <2>3. {m[x] : x \in DOMAIN m} \cup EndTerms(es) = EndTerms(es)
        /\ DOMAIN m \cup names = names /\ Extends(a, m)
    BY <2>2 DEF Extends
  <2>4. a \in MatchesAt(es, m, hops, 1 .. k) <=>
               /\ a \in [names -> EndTerms(es)]
               /\ \A i \in 1 .. k : OnEdge(es, hops[i], a)
    BY <2>3 DEF MatchesAt
  <2> QED BY <2>1, <2>4
<1>3. ASSUME NEW a \in [names -> EndTerms(es)]
      PROVE  /\ Passes(g, where, NodeRow(a)) <=> Agrees(a, cs)
             /\ Agrees(a, cs) => \A i \in 1 .. k : OnEdge(es, hops[i], a)
                                                   <=> FitsEdge(es, pats[i], a)
  <2>1. DOMAIN cs \subseteq DOMAIN a
    BY <1>1
  <2>2. Passes(g, where, NodeRow(a)) <=> Agrees(a, cs)
    BY <2>1, ConditionsAgree
  <2>3. \A i \in 1 .. k : HopFor(hops[i], pats[i], cs)
    BY DEF HopsFor
  <2> QED BY <2>2, <2>3, HopFits
<1>4. \A r : r \in BodyRowsAt(g, hops, 1 .. k) <=> \E a \in found : r = NodeRow(a)
  BY DEF BodyRowsAt, RowsAt
<1>5. \A r : r \in Passing(g, where, BodyRowsAt(g, hops, 1 .. k)) <=>
               r \in BodyRowsAt(g, hops, 1 .. k) /\ Passes(g, where, r)
  BY DEF Passing
<1>6. \A a : a \in AssignedBy(es, pats, k, cs) <=>
               a \in [names -> EndTerms(es)] /\ Agrees(a, cs)
               /\ \A i \in 1 .. k : FitsEdge(es, pats[i], a)
  BY <1>1 DEF AssignedBy
<1> HIDE DEF es, names, found
<1>7. \A r : r \in Passing(g, where, BodyRowsAt(g, hops, 1 .. k)) <=>
               \E a \in AssignedBy(es, pats, k, cs) : r = NodeRow(a)
  <2>1. ASSUME NEW a \in found, Passes(g, where, NodeRow(a))
        PROVE  a \in AssignedBy(es, pats, k, cs)
    BY <1>2, <1>3, <1>6, <2>1
  <2>2. ASSUME NEW a \in AssignedBy(es, pats, k, cs)
        PROVE  a \in found /\ Passes(g, where, NodeRow(a))
    BY <1>2, <1>3, <1>6, <2>2
  <2> QED BY <1>4, <1>5, <2>1, <2>2
<1> QED BY <1>7 DEF es

LEMMA NodesAreShown ==
  ASSUME NEW a, NEW xs, xs \subseteq DOMAIN a
  PROVE  Shown(NodeRow(a), xs) = [x \in xs |-> a[x]]
<1>1. \A x \in xs : NodeRow(a)[x] = Node(a[x])
  BY NodeRowParts
<1>2. \A u : Node(u) # Null /\ Node(u).of = u
  BY DEF Node, Null
<1>3. {y \in xs : NodeRow(a)[y] # Null} = xs
  BY <1>1, <1>2
<1> QED BY <1>1, <1>2, <1>3 DEF Shown

(* Without what stands for constants the assignments are the solutions.    *)
LEMMA AssignmentsAreSolutions ==
  ASSUME NEW es, NEW pats, NEW k, \A i \in 1 .. k : IsBasic(pats[i]),
         NEW cs, NEW hops, HopsFor(hops, pats, k, cs),
         NEW n \in Nat, DOMAIN cs \subseteq Numbered(n),
         NEW xs, xs = VarsAt(pats, 1 .. k)
  PROVE  {[x \in xs |-> a[x]] : a \in AssignedBy(es, pats, k, cs)} =
           SolutionsAt(es, pats, 1 .. k)
<1>1. xs \cap DOMAIN cs = {} /\ \A i \in 1 .. k : TripleVars(pats[i]) \subseteq xs
  <2>1. xs \cap DOMAIN cs = {}
    BY VarsAreNoConstants
  <2> QED BY <2>1 DEF VarsAt
<1>2. ASSUME NEW m, NEW a, \A x \in xs : m[x] = a[x]
      PROVE  \A i \in 1 .. k : FitsEdge(es, pats[i], m) <=> FitsEdge(es, pats[i], a)
  <2>1. ASSUME NEW i \in 1 .. k PROVE FitsEdge(es, pats[i], m) <=> FitsEdge(es, pats[i], a)
    <3>1. IsBasic(pats[i]) /\ \A x \in TripleVars(pats[i]) : m[x] = a[x]
      BY <1>1, <1>2
    <3> QED BY <3>1, SameOnVars
  <2> QED BY <2>1
<1>3. \A a : a \in AssignedBy(es, pats, k, cs) <=>
               /\ a \in [xs \cup DOMAIN cs -> EndTerms(es)]
               /\ Agrees(a, cs) /\ \A i \in 1 .. k : FitsEdge(es, pats[i], a)
  BY DEF AssignedBy
<1>4. \A m : m \in SolutionsAt(es, pats, 1 .. k) <=>
               m \in [xs -> EndTerms(es)] /\ \A i \in 1 .. k : FitsEdge(es, pats[i], m)
  BY DEF SolutionsAt
<1>5. ASSUME NEW a \in AssignedBy(es, pats, k, cs)
      PROVE  [x \in xs |-> a[x]] \in SolutionsAt(es, pats, 1 .. k)
  <2> DEFINE m == [x \in xs |-> a[x]]
  <2>1. m \in [xs -> EndTerms(es)] /\ \A x \in xs : m[x] = a[x]
    BY <1>3
  <2> HIDE DEF m
  <2>2. \A i \in 1 .. k : FitsEdge(es, pats[i], m)
    BY <1>2, <1>3, <2>1
  <2>3. m \in SolutionsAt(es, pats, 1 .. k)
    BY <1>4, <2>1, <2>2
  <2> QED BY <2>3 DEF m
<1>6. ASSUME NEW m \in SolutionsAt(es, pats, 1 .. k)
      PROVE  \E a \in AssignedBy(es, pats, k, cs) : m = [x \in xs |-> a[x]]
  <2>1. m \in [xs -> EndTerms(es)] /\ \A i \in 1 .. k : FitsEdge(es, pats[i], m)
    BY <1>4
  <2> DEFINE a == [x \in xs \cup DOMAIN cs |-> IF x \in xs THEN m[x] ELSE cs[x]]
  <2>2. /\ \A x \in xs : m[x] = a[x]
        /\ Agrees(a, cs) /\ m = [x \in xs |-> a[x]]
    BY <1>1, <2>1 DEF Agrees
  <2>3. \A i \in 1 .. k : FitsEdge(es, pats[i], a)
    <3> HIDE DEF a
    <3> QED BY <1>2, <2>1, <2>2
  <2>4. \A x \in DOMAIN cs : cs[x] \in EndTerms(es)
    <3>1. ASSUME NEW x \in DOMAIN cs PROVE cs[x] \in EndTerms(es)
      <4>1. DOMAIN cs \subseteq NamesAt(hops, 1 .. k)
        BY DEF HopsFor
      <4>2. PICK i \in 1 .. k : x \in HopNames(hops[i])
        BY <4>1 DEF NamesAt
      <4>3. HopFor(hops[i], pats[i], cs)
        BY DEF HopsFor
      <4>4. OnEdge(es, hops[i], a)
        <5> HIDE DEF a
        <5> QED BY <2>2, <2>3, <4>3, HopFits
      <4>5. a[x] \in EndTerms(es)
        <5> HIDE DEF a
        <5>1. a[hops[i].s] \in EndTerms(es) /\ a[hops[i].o] \in EndTerms(es)
          BY <4>4, EdgeEnds DEF OnEdge
        <5> QED BY <4>2, <5>1 DEF HopNames
      <4> HIDE DEF a
      <4> QED BY <2>2, <4>5 DEF Agrees
    <3> QED BY <3>1
  <2>5. a \in [xs \cup DOMAIN cs -> EndTerms(es)]
    BY <2>1, <2>4
  <2> HIDE DEF a
  <2> QED BY <1>3, <2>2, <2>3, <2>5
<1>7. PICK found, sols : found = AssignedBy(es, pats, k, cs)
                         /\ sols = SolutionsAt(es, pats, 1 .. k)
  OBVIOUS
<1> QED BY <1>5, <1>6, <1>7

(* The variables of a basic graph pattern.                                 *)
PatternVars(pats) == UNION {TripleVars(pats[i]) : i \in DOMAIN pats}
AreBasic(pats) == \A i \in DOMAIN pats : IsBasic(pats[i])
AreBare(pats) == \A i \in DOMAIN pats : IsBare(pats[i])

LEMMA BodyOfPatterns ==
  ASSUME NEW acc, acc.match # << >>
  PROVE  Body(acc).clauses = acc.match /\ Body(acc).where = acc.where
BY DEF Body

LEMMA StartParts ==
  ASSUME NEW k \in Nat
  PROVE  /\ IsParts(PartsFrom(k))
         /\ PartsFrom(k).match = << >> /\ PartsFrom(k).where = << >>
BY DEF IsParts, PartsFrom

LEMMA BasicRows ==
  ASSUME NEW g, AreEdges(g.edges), NEW pats, NEW n \in Nat, n # 0, DOMAIN pats = 1 .. n,
         AreBasic(pats), NEW acc, NEW cs, Describes(acc, pats, n, cs)
  PROVE  RowsFound(g, Body(acc)) = {NodeRow(a) : a \in AssignedBy(g.edges, pats, n, cs)}
<1>1. HopsFor(acc.match, pats, n, cs) /\ ConditionsFor(acc.where, cs)
  BY DEF Describes
<1>2. IsList(acc.match) /\ Len(acc.match) = n /\ \A i \in 1 .. n : IsHop(acc.match[i])
  BY <1>1 DEF HopsFor, HopFor
<1>3. DOMAIN acc.match = 1 .. n
  BY <1>2, ListIsAppended
<1>4. acc.match # << >>
  BY <1>2, ListOfOne
<1>5. PICK b : b = Body(acc)
  OBVIOUS
<1>6. b.clauses = acc.match /\ b.where = acc.where
  BY <1>4, <1>5, BodyOfPatterns
<1>7. RowsFound(g, b) = Passing(g, b.where, BodyRowsAt(g, b.clauses, 1 .. n))
  BY <1>2, <1>3, <1>6, RowsOfHops
<1>8. \A i \in 1 .. n : IsBasic(pats[i])
  BY DEF AreBasic
<1>9. PICK hops, where : hops = acc.match /\ where = acc.where
  OBVIOUS
<1>10. Passing(g, where, BodyRowsAt(g, hops, 1 .. n)) =
           {NodeRow(a) : a \in AssignedBy(g.edges, pats, n, cs)}
  <2>1. HopsFor(hops, pats, n, cs) /\ ConditionsFor(where, cs)
    BY <1>1, <1>9
  <2> QED BY <1>8, <2>1, RowsAssigned
<1> QED BY <1>5, <1>6, <1>7, <1>9, <1>10

LEMMA ListPositions ==
  ASSUME NEW s, IsList(s), s # << >>
  PROVE  \E n \in Nat : n # 0 /\ DOMAIN s = 1 .. n
<1>1. Len(s) \in Nat /\ DOMAIN s = 1 .. Len(s)
  BY ListIsAppended
<1>2. Len(s) # 0
  <2>1. PICK S : s \in Seq(S)
    BY DEF IsList
  <2> QED BY <2>1
<1> QED BY <1>1, <1>2

(* A query of triple patterns with IRIs for constants finds the solutions  *)
(* that SPARQL gives them, however many patterns there are.                *)
THEOREM BasicQueriesAnswered ==
  ASSUME NEW T, NEW g, g.edges = EdgesMade(T),
         NEW pats, IsList(pats), pats # << >>, AreBasic(pats)
  PROVE  Found(g, BasicQuery(pats), PatternVars(pats)) = BgpSolutions(T, pats)
<1>1. PICK n \in Nat : n # 0 /\ DOMAIN pats = 1 .. n
  BY ListPositions
<1>2. AreEdges(g.edges)
  BY DEF AreEdges, EdgesMade
<1>3. \A i \in 1 .. n : IsBasic(pats[i])
  BY <1>1 DEF AreBasic
<1>4. PICK acc : acc = BgpToCypher(NoParts, pats)
  OBVIOUS
<1>5. PICK cs : Describes(acc, pats, n, cs)
  <2>1. PICK z \in Nat : z = 0
    OBVIOUS
  <2>2. PICK start : start = PartsFrom(z)
    OBVIOUS
  <2>3. IsParts(start) /\ start.match = << >> /\ start.where = << >>
    BY <2>2, StartParts
  <2>4. \E cs : Describes(BgpToCypher(start, pats), pats, n, cs)
    BY <1>1, <1>3, <2>3, BgpDescribed
  <2> QED BY <1>4, <2>1, <2>2, <2>4 DEF NoParts
<1>6. PICK es : es = g.edges
  OBVIOUS
<1>7. PICK xs : xs = VarsAt(pats, 1 .. n)
  OBVIOUS
<1>8. RowsFound(g, Body(acc)) = {NodeRow(a) : a \in AssignedBy(es, pats, n, cs)}
  BY <1>1, <1>2, <1>5, <1>6, BasicRows
<1>9. PatternVars(pats) = xs
  BY <1>1, <1>7 DEF PatternVars, VarsAt
<1>10. \A a \in AssignedBy(es, pats, n, cs) : Shown(NodeRow(a), xs) = [x \in xs |-> a[x]]
  <2>1. \A a \in AssignedBy(es, pats, n, cs) : xs \subseteq DOMAIN a
    BY <1>7 DEF AssignedBy
  <2> QED BY <2>1, NodesAreShown
<1>11. Found(g, BasicQuery(pats), xs) =
         {[x \in xs |-> a[x]] : a \in AssignedBy(es, pats, n, cs)}
  <2>1. Found(g, BasicQuery(pats), xs) = {Shown(row, xs) : row \in RowsFound(g, Body(acc))}
    BY <1>4 DEF Found, RowsFound, BasicQuery
  <2> QED BY <1>8, <1>10, <2>1
<1>12. {[x \in xs |-> a[x]] : a \in AssignedBy(es, pats, n, cs)} = SolutionsAt(es, pats, 1 .. n)
  <2>1. PICK hops : hops = acc.match
    OBVIOUS
  <2>2. PICK k \in Nat : DOMAIN cs \subseteq Numbered(k)
    BY <1>5 DEF Describes, IsParts
  <2>3. HopsFor(hops, pats, n, cs)
    BY <1>5, <2>1 DEF Describes
  <2> QED BY <1>3, <1>7, <2>2, <2>3, AssignmentsAreSolutions
<1>13. BgpSolutions(T, pats) = SolutionsAt(es, pats, 1 .. n)
  BY <1>1, <1>3, <1>6, BgpSolved
<1> QED BY <1>9, <1>11, <1>12, <1>13
-----------------------------------------------------------------------------
(* What the hops of patterns without constants match from a row on: what   *)
(* joins it.                                                               *)
LEMMA MatchesAreJoins ==
  ASSUME NEW es, NEW D, NEW a \in [D -> EndTerms(es)],
         NEW pats, NEW k, \A i \in 1 .. k : IsBasic(pats[i]),
         NEW cs, DOMAIN cs = {}, NEW hops, HopsFor(hops, pats, k, cs)
  PROVE  MatchesAt(es, a, hops, 1 .. k) = JoinOf({a}, SolutionsAt(es, pats, 1 .. k))
<1> DEFINE R == VarsAt(pats, 1 .. k)
           sols == SolutionsAt(es, pats, 1 .. k)
           ms == MatchesAt(es, a, hops, 1 .. k)
<1>1. NamesAt(hops, 1 .. k) = R
  <2>1. NamesAt(hops, 1 .. k) = R \cup DOMAIN cs
    BY NamesOfHops
  <2> QED BY <2>1
<1>2. DOMAIN a = D /\ {a[x] : x \in DOMAIN a} \cup EndTerms(es) = EndTerms(es)
  OBVIOUS
<1>3. \A b : Agrees(b, cs)
  BY DEF Agrees
<1>4. ASSUME NEW b
      PROVE  \A i \in 1 .. k : OnEdge(es, hops[i], b) <=> FitsEdge(es, pats[i], b)
  <2>1. \A i \in 1 .. k : HopFor(hops[i], pats[i], cs)
    BY DEF HopsFor
  <2> QED BY <1>3, <2>1, HopFits
<1>5. \A b : b \in ms <=> /\ b \in [D \cup R -> EndTerms(es)] /\ Extends(b, a)
                          /\ \A i \in 1 .. k : FitsEdge(es, pats[i], b)
  <2>1. \A b : b \in ms <=> /\ b \in [D \cup R -> EndTerms(es)] /\ Extends(b, a)
                            /\ \A i \in 1 .. k : OnEdge(es, hops[i], b)
    BY <1>1, <1>2 DEF MatchesAt
  <2> QED BY <1>4, <2>1
<1>6. \A m : m \in sols <=> /\ m \in [R -> EndTerms(es)]
                            /\ \A i \in 1 .. k : FitsEdge(es, pats[i], m)
  BY DEF SolutionsAt
<1>7. \A i \in 1 .. k : IsBasic(pats[i]) /\ TripleVars(pats[i]) \subseteq R
  BY DEF VarsAt
<1> HIDE DEF ms, sols, R
<1>8. ASSUME NEW b \in ms PROVE \E n \in sols : Compatible(a, n) /\ b = Merge(a, n)
  <2>1. /\ b \in [D \cup R -> EndTerms(es)] /\ Extends(b, a)
        /\ \A i \in 1 .. k : FitsEdge(es, pats[i], b)
    BY <1>5
  <2> DEFINE n == [x \in R |-> b[x]]
  <2>2. n \in [R -> EndTerms(es)] /\ \A x \in R : b[x] = n[x]
    BY <2>1
  <2>3. Compatible(a, n)
    BY <1>2, <2>1 DEF Compatible, Extends
  <2>4. b = Merge(a, n)
    <3>1. Merge(a, n) = [x \in D \cup R |-> IF x \in D THEN a[x] ELSE b[x]]
      BY <1>2 DEF Merge
    <3>2. \A x \in D : a[x] = b[x]
      BY <1>2, <2>1 DEF Extends
    <3>3. Merge(a, n) = [x \in D \cup R |-> b[x]]
      BY <3>1, <3>2
    <3>4. b = [x \in D \cup R |-> b[x]]
      BY <2>1
    <3> QED BY <3>3, <3>4
  <2>5. \A i \in 1 .. k : FitsEdge(es, pats[i], n)
    <3> HIDE DEF n
    <3>1. ASSUME NEW i \in 1 .. k PROVE FitsEdge(es, pats[i], n)
      <4>1. \A x \in TripleVars(pats[i]) : b[x] = n[x]
        BY <1>7, <2>2
      <4> QED BY <1>7, <2>1, <4>1, SameOnVars
    <3> QED BY <3>1
  <2> HIDE DEF n
  <2> QED BY <1>6, <2>2, <2>3, <2>4, <2>5
<1>9. ASSUME NEW n \in sols, Compatible(a, n) PROVE Merge(a, n) \in ms
  <2>1. n \in [R -> EndTerms(es)] /\ \A i \in 1 .. k : FitsEdge(es, pats[i], n)
    BY <1>6
  <2>2. PICK b : b = Merge(a, n)
    OBVIOUS
  <2>3. b = [x \in D \cup R |-> IF x \in D THEN a[x] ELSE n[x]]
    BY <1>2, <2>1, <2>2 DEF Merge
  <2>4. \A x \in D \cap R : a[x] = n[x]
    BY <1>2, <1>9, <2>1 DEF Compatible
  <2>5. (\A x \in D : b[x] = a[x]) /\ (\A x \in R : n[x] = b[x])
        /\ b \in [D \cup R -> EndTerms(es)]
    BY <2>1, <2>3, <2>4
  <2>6. Extends(b, a)
    BY <1>2, <2>5 DEF Extends
  <2>7. ASSUME NEW i \in 1 .. k PROVE FitsEdge(es, pats[i], b)
    <3>1. \A x \in TripleVars(pats[i]) : n[x] = b[x]
      BY <1>7, <2>5
    <3> QED BY <1>7, <2>1, <3>1, SameOnVars
  <2> QED BY <1>5, <2>2, <2>5, <2>6, <2>7
<1>10. \A b : b \in JoinOf({a}, sols) <=>
                \E c \in {a}, n \in sols : Compatible(c, n) /\ b = Merge(c, n)
  BY JoinMembers
<1>11. \A b : b \in ms <=> b \in JoinOf({a}, sols)
  <2>1. \A b : b \in JoinOf({a}, sols) <=> \E n \in sols : Compatible(a, n) /\ b = Merge(a, n)
    BY <1>10
  <2> QED BY <1>8, <1>9, <2>1
<1>12. ms = JoinOf({a}, sols)
  <2>1. PICK M : M = JoinOf({a}, sols)
    OBVIOUS
  <2> QED BY <1>11, <2>1
<1> QED BY <1>12 DEF ms, sols

RowsOf(J) == {NodeRow(b) : b \in J}
Joins(a, N) == JoinOf({a}, N)

LEMMA RowsJoined ==
  ASSUME NEW g, AreEdges(g.edges), NEW D, NEW a, a \in [D -> EndTerms(g.edges)],
         NEW pats, NEW k \in Nat, \A i \in 1 .. k : IsBasic(pats[i]),
         NEW cs, DOMAIN cs = {}, NEW hops, HopsFor(hops, pats, k, cs)
  PROVE  MatchRows(g, NodeRow(a), hops)
           = RowsOf(Joins(a, SolutionsAt(g.edges, pats, 1 .. k)))
<1>1. IsMap(a)
  BY DEF IsMap
<1>2. DOMAIN hops = 1 .. k /\ \A i \in 1 .. k : IsHop(hops[i])
  <2>1. IsList(hops) /\ Len(hops) = k /\ \A i \in 1 .. k : IsHop(hops[i])
    BY DEF HopsFor, HopFor
  <2> QED BY <2>1, ListIsAppended
<1>3. MatchRows(g, NodeRow(a), hops) = RowsAt(g.edges, a, hops, 1 .. k)
  BY <1>1, <1>2, RowsMatched
<1>4. PICK es : es = g.edges
  OBVIOUS
<1>5. MatchesAt(es, a, hops, 1 .. k) = Joins(a, SolutionsAt(es, pats, 1 .. k))
  <2>1. a \in [D -> EndTerms(es)]
    BY <1>4
  <2> QED BY <2>1, MatchesAreJoins DEF Joins
<1>6. PICK bs : bs = Joins(a, SolutionsAt(es, pats, 1 .. k))
  OBVIOUS
<1>7. RowsAt(es, a, hops, 1 .. k) = RowsOf(bs)
  BY <1>5, <1>6 DEF RowsAt, RowsOf
<1> QED BY <1>3, <1>4, <1>6, <1>7

(* OPTIONAL MATCH: what a row is extended by, or nulls.                    *)
Blanked(r, c) == [x \in DOMAIN r \cup NamesOf(c) |-> IF x \in DOMAIN r THEN r[x] ELSE Null]
OptionalRows(g, r, c) ==
    IF MatchRows(g, r, c.parts) = {} THEN {Blanked(r, c)} ELSE MatchRows(g, r, c.parts)

LEMMA AfterOptional ==
  ASSUME NEW g, NEW rows, NEW c, c.part = "optional"
  PROVE  RowsAfterClause(g, rows, c, << >>) = UNION {OptionalRows(g, r, c) : r \in rows}
<1>1. \A r : {s \in MatchRows(g, r, c.parts) : Passes(g, << >>, s)} = MatchRows(g, r, c.parts)
  BY KeptWithoutWhere DEF Passing
<1>2. RowsAfterClause(g, rows, c, << >>) =
        UNION {LET more == {s \in MatchRows(g, r, c.parts) : Passes(g, << >>, s)}
               IN IF more = {} THEN {Blanked(r, c)} ELSE more : r \in rows}
  BY DEF RowsAfterClause, RowsAfter, Passes, IsTrueIn, Blanked
<1> QED BY <1>1, <1>2 DEF OptionalRows

(* What a row without the optional part shows: the solution it stands for. *)
LEMMA BlankIsShown ==
  ASSUME NEW a, IsMap(a), NEW c, NEW R, R \subseteq NamesOf(c), NEW xs, xs = DOMAIN a \cup R
  PROVE  Shown(Blanked(NodeRow(a), c), xs) = a
<1>1. DOMAIN NodeRow(a) = DOMAIN a /\ \A x \in DOMAIN a : NodeRow(a)[x] = Node(a[x])
  BY NodeRowParts
<1>2. PICK row : row = Blanked(NodeRow(a), c)
  OBVIOUS
<1>3. /\ \A x \in DOMAIN a : row[x] = Node(a[x])
      /\ \A x \in xs \ DOMAIN a : row[x] = Null
  BY <1>1, <1>2 DEF Blanked
<1>4. \A u : Node(u) # Null /\ Node(u).of = u
  BY DEF Node, Null
<1>5. {y \in xs : row[y] # Null} = DOMAIN a
  BY <1>3, <1>4
<1>6. Shown(row, xs) = [x \in DOMAIN a |-> a[x]]
  BY <1>3, <1>4, <1>5 DEF Shown
<1> QED BY <1>2, <1>6 DEF IsMap

LEMMA NamesOfOptional ==
  ASSUME NEW pats, NEW k, NEW cs, NEW hops, DOMAIN hops = 1 .. k, HopsFor(hops, pats, k, cs),
         \A i \in 1 .. k : IsBasic(pats[i]), DOMAIN cs = {}, NEW c, c = Optional(hops)
  PROVE  VarsAt(pats, 1 .. k) \subseteq NamesOf(c)
<1>1. NamesAt(hops, 1 .. k) = VarsAt(pats, 1 .. k) \cup DOMAIN cs
  BY NamesOfHops
<1>2. c.part = "optional" /\ c.parts = hops
  BY DEF Optional
<1>3. NamesOf(c) =
        UNION {{h.s, h.o} : h \in {q \in Range(c.parts) : q.part \in {"hop", "hops"}}}
  BY <1>2 DEF NamesOf
<1>4. ASSUME NEW i \in 1 .. k PROVE HopNames(hops[i]) \subseteq NamesOf(c)
  <2>1. hops[i] \in Range(c.parts)
    BY <1>2 DEF Range
  <2>2. hops[i].part = "hop"
    <3>1. IsHop(hops[i])
      BY DEF HopsFor, HopFor
    <3> QED BY <3>1 DEF IsHop, Hop
  <2> QED BY <1>3, <2>1, <2>2 DEF HopNames
<1>5. NamesAt(hops, 1 .. k) \subseteq NamesOf(c)
  BY <1>4 DEF NamesAt
<1> QED BY <1>1, <1>5

LEMMA SameHops ==
  ASSUME NEW g, NEW u, NEW v, NEW s, \A i \in s : u[i] = v[i]
  PROVE  BodyRowsAt(g, u, s) = BodyRowsAt(g, v, s)
<1>1. NamesAt(u, s) = NamesAt(v, s)
  BY DEF NamesAt
<1>2. \A es, a : (\A i \in s : OnEdge(es, u[i], a)) <=> (\A i \in s : OnEdge(es, v[i], a))
  OBVIOUS
<1>3. \A es, m : MatchesAt(es, m, u, s) = MatchesAt(es, m, v, s)
  BY <1>1, <1>2 DEF MatchesAt
<1> QED BY <1>3 DEF BodyRowsAt, RowsAt

(* Patterns without constants: their translation has no conditions, and    *)
(* their rows are their solutions.                                         *)
LEMMA BareTranslated ==
  ASSUME NEW start, IsParts(start), start.match = << >>, start.where = << >>,
         NEW pats, NEW n \in Nat, DOMAIN pats = 1 .. n, \A i \in 1 .. n : IsBare(pats[i]),
         NEW acc, acc = BgpToCypher(start, pats)
  PROVE  /\ IsParts(acc) /\ acc.where = << >>
         /\ \E cs : DOMAIN cs = {} /\ HopsFor(acc.match, pats, n, cs)
<1>1. \A i \in 1 .. n : IsBasic(pats[i])
  BY DEF IsBare
<1>2. PICK cs : Describes(acc, pats, n, cs)
  BY <1>1, BgpDescribed
<1>3. DOMAIN cs = {} /\ acc.where = << >>
  BY <1>2, BareHasNoConditions
<1> QED BY <1>2, <1>3 DEF Describes

LEMMA BareRows ==
  ASSUME NEW g, NEW pats, NEW k, \A i \in 1 .. k : IsBasic(pats[i]),
         NEW cs, DOMAIN cs = {}, NEW hops, HopsFor(hops, pats, k, cs)
  PROVE  BodyRowsAt(g, hops, 1 .. k) = {NodeRow(a) : a \in SolutionsAt(g.edges, pats, 1 .. k)}
<1>1. ConditionsFor(<< >>, cs)
  BY ListOfOne DEF ConditionsFor
<1>2. PICK es, where : es = g.edges /\ where = << >>
  OBVIOUS
<1>3. PICK rows : rows = BodyRowsAt(g, hops, 1 .. k)
  OBVIOUS
<1>4. Passing(g, where, BodyRowsAt(g, hops, 1 .. k)) =
        {NodeRow(a) : a \in AssignedBy(g.edges, pats, k, cs)}
  <2>1. ConditionsFor(where, cs)
    BY <1>1, <1>2
  <2> QED BY <2>1, RowsAssigned
<1>5. Passing(g, where, rows) = rows
  BY <1>2, KeptWithoutWhere
<1>6. AssignedBy(es, pats, k, cs) = SolutionsAt(es, pats, 1 .. k)
  <2>1. \A a : Agrees(a, cs)
    BY DEF Agrees
  <2>2. VarsAt(pats, 1 .. k) \cup DOMAIN cs = VarsAt(pats, 1 .. k)
    OBVIOUS
  <2> QED BY <2>1, <2>2 DEF AssignedBy, SolutionsAt
<1> QED BY <1>2, <1>3, <1>4, <1>5, <1>6

LEMMA SolutionsAreMaps ==
  ASSUME NEW es, NEW pats, NEW s
  PROVE  \A m \in SolutionsAt(es, pats, s) :
           m \in [VarsAt(pats, s) -> EndTerms(es)] /\ IsMap(m)
BY DEF SolutionsAt, IsMap

LEMMA JoinedIsMap ==
  ASSUME NEW a, NEW N, NEW R, \A n \in N : DOMAIN n = R
  PROVE  \A b \in JoinOf({a}, N) : IsMap(b) /\ DOMAIN b = DOMAIN a \cup R
<1>1. ASSUME NEW b \in JoinOf({a}, N) PROVE IsMap(b) /\ DOMAIN b = DOMAIN a \cup R
  <2>1. PICK n \in N : b = Merge(a, n)
    BY JoinMembers
  <2> QED BY <2>1 DEF Merge, IsMap
<1> QED BY <1>1

LEMMA ShownIsMap ==
  ASSUME NEW b, IsMap(b)
  PROVE  Shown(NodeRow(b), DOMAIN b) = b
<1>1. Shown(NodeRow(b), DOMAIN b) = [x \in DOMAIN b |-> b[x]]
  BY NodesAreShown
<1> QED BY <1>1 DEF IsMap

ShownOf(rows, xs) == {Shown(r, xs) : r \in rows}

AreOn(N, R) == \A n \in N : DOMAIN n = R
OptionalOf(a, N) == IF Joins(a, N) = {} THEN {a} ELSE Joins(a, N)

(* What the rows of one solution show with an optional part after it.      *)
LEMMA OptionalShown ==
  ASSUME NEW g, NEW c, NEW a, IsMap(a), NEW N, NEW R, AreOn(N, R),
         R \subseteq NamesOf(c), NEW J, J = Joins(a, N),
         MatchRows(g, NodeRow(a), c.parts) = RowsOf(J),
         NEW xs, xs = DOMAIN a \cup R
  PROVE  ShownOf(OptionalRows(g, NodeRow(a), c), xs) = OptionalOf(a, N)
<1>1. CASE J = {}
  <2>1. OptionalRows(g, NodeRow(a), c) = {Blanked(NodeRow(a), c)}
    BY <1>1 DEF OptionalRows, RowsOf
  <2>2. Shown(Blanked(NodeRow(a), c), xs) = a
    BY BlankIsShown
  <2> QED BY <1>1, <2>1, <2>2 DEF ShownOf, OptionalOf
<1>2. CASE J # {}
  <2>1. OptionalRows(g, NodeRow(a), c) = {NodeRow(b) : b \in J}
    BY <1>2 DEF OptionalRows, RowsOf
  <2>2. \A b \in J : Shown(NodeRow(b), xs) = b
    BY JoinedIsMap, ShownIsMap DEF Joins, AreOn
  <2> QED BY <1>2, <2>1, <2>2 DEF ShownOf, OptionalOf
<1> QED BY <1>1, <1>2

(* The query of an optional part: one more clause.                         *)
LEMMA OptionalClauses ==
  ASSUME NEW left, IsParts(left), NEW right, IsParts(right), right.match # << >>,
         NEW b, b = Body(WithOptional(left, right))
  PROVE  b.clauses = Append(left.match, Optional(right.match)) /\ b.where = left.where
<1>1. PICK c : c = Optional(right.match)
  OBVIOUS
<1>2. PICK acc : acc = WithOptional(left, right)
  OBVIOUS
<1>3. acc = [match |-> Append(left.match, c), where |-> left.where, vars |-> right.vars,
             n |-> right.n, ok |-> right.ok]
  BY <1>1, <1>2 DEF WithOptional, Pushed, IsParts
<1>4. acc.match = Append(left.match, c) /\ acc.where = left.where
  BY <1>3
<1>5. acc.match # << >> => b.clauses = acc.match /\ b.where = acc.where
  BY <1>2, BodyOfPatterns
<1>6. acc.match # << >>
  BY <1>4
<1> QED BY <1>1, <1>4, <1>5, <1>6

AllOptional(g, rows, c) == UNION {OptionalRows(g, r, c) : r \in rows}

LEMMA OptionalRowsFound ==
  ASSUME NEW g, AreEdges(g.edges), NEW hops, NEW k \in Nat, IsList(hops), Len(hops) = k,
         \A i \in 1 .. k : IsHop(hops[i]), NEW c, c.part = "optional",
         NEW b, b.clauses = Append(hops, c), b.where = << >>
  PROVE  RowsFound(g, b) = AllOptional(g, BodyRowsAt(g, hops, 1 .. k), c)
<1>1. PICK N : N = k + 1
  OBVIOUS
<1>2. /\ IsList(b.clauses) /\ Len(b.clauses) = N /\ DOMAIN b.clauses = 1 .. N
      /\ b.clauses[N] = c /\ \A i \in 1 .. k : b.clauses[i] = hops[i]
  BY <1>1, ListIsAppended
<1>3. RowsFound(g, b) =
        RowsAfterClause(g, BodyRowsAt(g, b.clauses, 1 .. k), b.clauses[N], b.where)
  BY <1>1, <1>2, LastClause
<1>4. BodyRowsAt(g, b.clauses, 1 .. k) = BodyRowsAt(g, hops, 1 .. k)
  <2>1. PICK u, S : u = b.clauses /\ S = 1 .. k
    OBVIOUS
  <2>2. \A i \in S : u[i] = hops[i]
    BY <1>2, <2>1
  <2>3. BodyRowsAt(g, u, S) = BodyRowsAt(g, hops, S)
    BY <2>2, SameHops
  <2> QED BY <2>1, <2>3
<1>5. PICK rows : rows = BodyRowsAt(g, hops, 1 .. k)
  OBVIOUS
<1>6. RowsFound(g, b) = RowsAfterClause(g, rows, c, << >>)
  BY <1>2, <1>3, <1>4, <1>5
<1>7. RowsAfterClause(g, rows, c, << >>) = UNION {OptionalRows(g, r, c) : r \in rows}
  BY AfterOptional
<1> QED BY <1>5, <1>6, <1>7 DEF AllOptional

(* What one solution becomes. *)
LEMMA OneOptional ==
  ASSUME NEW g, AreEdges(g.edges), NEW a, NEW D, a \in [D -> EndTerms(g.edges)],
         NEW pats, NEW k \in Nat, \A i \in 1 .. k : IsBasic(pats[i]),
         NEW cs, DOMAIN cs = {}, NEW parts, HopsFor(parts, pats, k, cs),
         NEW c, c = Optional(parts), NEW N, N = SolutionsAt(g.edges, pats, 1 .. k),
         NEW xs, xs = D \cup VarsAt(pats, 1 .. k)
  PROVE  ShownOf(OptionalRows(g, NodeRow(a), c), xs) = OptionalOf(a, N)
<1>1. PICK R : R = VarsAt(pats, 1 .. k)
  OBVIOUS
<1>2. IsMap(a) /\ DOMAIN a = D
  BY DEF IsMap
<1>3. AreOn(N, R)
  BY <1>1, SolutionsAreMaps DEF AreOn
<1>4. R \subseteq NamesOf(c)
  <2>1. DOMAIN parts = 1 .. k
    BY ListIsAppended DEF HopsFor
  <2> QED BY <1>1, <2>1, NamesOfOptional
<1>5. PICK J : J = Joins(a, N)
  OBVIOUS
<1>6. MatchRows(g, NodeRow(a), parts) = RowsOf(J)
  <2>1. MatchRows(g, NodeRow(a), parts)
          = RowsOf(Joins(a, SolutionsAt(g.edges, pats, 1 .. k)))
    BY RowsJoined
  <2> QED BY <1>5, <2>1
<1>7. c.parts = parts
  BY DEF Optional
<1>8. MatchRows(g, NodeRow(a), c.parts) = RowsOf(J) /\ xs = DOMAIN a \cup R
  BY <1>1, <1>2, <1>6, <1>7
<1> QED BY <1>2, <1>3, <1>4, <1>5, <1>8, OptionalShown

(* OPTIONAL of patterns whose constants are predicates is the left join.   *)
THEOREM OptionalQueriesAnswered ==
  ASSUME NEW T, NEW g, g.edges = EdgesMade(T),
         NEW pats, IsList(pats), pats # << >>, AreBare(pats),
         NEW opts, IsList(opts), opts # << >>, AreBare(opts)
  PROVE  Found(g, OptionalQuery(pats, opts), PatternVars(pats) \cup PatternVars(opts)) =
           LeftJoinOf(BgpSolutions(T, pats), BgpSolutions(T, opts), LAMBDA m : TRUE)
<1>1. PICK n \in Nat : n # 0 /\ DOMAIN pats = 1 .. n
  BY ListPositions
<1>2. PICK k \in Nat : k # 0 /\ DOMAIN opts = 1 .. k
  BY ListPositions
<1>3. AreEdges(g.edges)
  BY DEF AreEdges, EdgesMade
<1>4. /\ \A i \in 1 .. n : IsBare(pats[i]) /\ IsBasic(pats[i])
      /\ \A i \in 1 .. k : IsBare(opts[i]) /\ IsBasic(opts[i])
  BY <1>1, <1>2 DEF AreBare, IsBare
<1>5. PICK left : left = BgpToCypher(NoParts, pats)
  OBVIOUS
<1>6. /\ IsParts(left) /\ left.where = << >>
      /\ \E cs : DOMAIN cs = {} /\ HopsFor(left.match, pats, n, cs)
  <2>1. PICK z \in Nat : z = 0
    OBVIOUS
  <2>2. PICK start : start = PartsFrom(z)
    OBVIOUS
  <2>3. IsParts(start) /\ start.match = << >> /\ start.where = << >>
    BY <2>2, StartParts
  <2>4. left = BgpToCypher(start, pats)
    BY <1>5, <2>1, <2>2 DEF NoParts
  <2> QED BY <1>1, <1>4, <2>3, <2>4, BareTranslated
<1>7. PICK right : right = BgpToCypher(WithoutParts(left), opts)
  OBVIOUS
<1>8. /\ IsParts(right) /\ right.where = << >>
      /\ \E ds : DOMAIN ds = {} /\ HopsFor(right.match, opts, k, ds)
  <2>1. PICK start : start = WithoutParts(left)
    OBVIOUS
  <2>2. IsParts(start) /\ start.match = << >> /\ start.where = << >>
    BY <1>6, <2>1 DEF WithoutParts, IsParts
  <2>3. right = BgpToCypher(start, opts)
    BY <1>7, <2>1
  <2> QED BY <1>2, <1>4, <2>2, <2>3, BareTranslated
<1>9. PICK cs : DOMAIN cs = {} /\ HopsFor(left.match, pats, n, cs)
  BY <1>6
<1>10. PICK ds : DOMAIN ds = {} /\ HopsFor(right.match, opts, k, ds)
  BY <1>8
<1>11. PICK hops, parts : hops = left.match /\ parts = right.match
  OBVIOUS
<1>12. PICK c : c = Optional(parts)
  OBVIOUS
<1>13. c.part = "optional" /\ c.parts = parts
  BY <1>12 DEF Optional
<1>14. PICK es, M, N : es = g.edges /\ M = SolutionsAt(es, pats, 1 .. n)
                       /\ N = SolutionsAt(es, opts, 1 .. k)
  OBVIOUS
<1>15. PICK L, R : L = VarsAt(pats, 1 .. n) /\ R = VarsAt(opts, 1 .. k)
  OBVIOUS
<1>16. RowsFound(g, OptionalQuery(pats, opts)) =
         UNION {OptionalRows(g, NodeRow(a), c) : a \in M}
  <2>1. PICK b : b = OptionalQuery(pats, opts)
    OBVIOUS
  <2>2. right.match # << >>
    BY <1>2, <1>8, ListOfOne DEF HopsFor
  <2>3. b.clauses = Append(hops, c) /\ b.where = << >>
    <3>1. b = Body(WithOptional(left, right))
      BY <1>5, <1>7, <2>1 DEF OptionalQuery
    <3> QED BY <1>6, <1>8, <1>11, <1>12, <2>2, <3>1, OptionalClauses
  <2>4. RowsFound(g, b) = UNION {OptionalRows(g, r, c) : r \in BodyRowsAt(g, hops, 1 .. n)}
    <3>1. IsList(hops) /\ Len(hops) = n /\ \A i \in 1 .. n : IsHop(hops[i])
      BY <1>9, <1>11 DEF HopsFor, HopFor
    <3>2. RowsFound(g, b) = AllOptional(g, BodyRowsAt(g, hops, 1 .. n), c)
      BY <1>3, <1>13, <2>3, <3>1, OptionalRowsFound
    <3> QED BY <3>2 DEF AllOptional
  <2>5. BodyRowsAt(g, hops, 1 .. n) = {NodeRow(a) : a \in M}
    <3>1. HopsFor(hops, pats, n, cs)
      BY <1>9, <1>11
    <3>2. BodyRowsAt(g, hops, 1 .. n)
            = {NodeRow(a) : a \in SolutionsAt(g.edges, pats, 1 .. n)}
      BY <1>4, <1>9, <3>1, BareRows
    <3> QED BY <1>14, <3>2
  <2>6. \A r : r \in UNION {OptionalRows(g, q, c) : q \in {NodeRow(a) : a \in M}}
               <=> r \in UNION {OptionalRows(g, NodeRow(a), c) : a \in M}
    OBVIOUS
  <2>7. UNION {OptionalRows(g, q, c) : q \in {NodeRow(a) : a \in M}}
          = UNION {OptionalRows(g, NodeRow(a), c) : a \in M}
    BY <2>6
  <2> QED BY <2>1, <2>4, <2>5, <2>7
<1>17. PatternVars(pats) = L /\ PatternVars(opts) = R
  BY <1>1, <1>2, <1>15 DEF PatternVars, VarsAt
<1>18. PICK xs : xs = L \cup R
  OBVIOUS
<1>19. ASSUME NEW a \in M
       PROVE  ShownOf(OptionalRows(g, NodeRow(a), c), xs) = OptionalOf(a, N)
  <2>1. a \in [L -> EndTerms(g.edges)]
    BY <1>14, <1>15, SolutionsAreMaps
  <2>2. HopsFor(parts, opts, k, ds)
    BY <1>10, <1>11
  <2>3. xs = L \cup VarsAt(opts, 1 .. k) /\ N = SolutionsAt(g.edges, opts, 1 .. k)
    BY <1>14, <1>15, <1>18
  <2> QED BY <1>3, <1>4, <1>10, <1>12, <2>1, <2>2, <2>3, OneOptional
<1>20. Found(g, OptionalQuery(pats, opts), xs) =
         UNION {ShownOf(OptionalRows(g, NodeRow(a), c), xs) : a \in M}
  <2>1. PICK rows : rows = RowsFound(g, OptionalQuery(pats, opts))
    OBVIOUS
  <2>2. Found(g, OptionalQuery(pats, opts), xs) = {Shown(row, xs) : row \in rows}
    BY <2>1 DEF Found, RowsFound
  <2> QED BY <1>16, <2>1, <2>2 DEF ShownOf
<1>21. LeftJoinOf(M, N, LAMBDA m : TRUE) =
         UNION {OptionalOf(a, N) : a \in M}
  <2>1. \A m : {j \in JoinOf({m}, N) : TRUE} = JoinOf({m}, N)
    OBVIOUS
  <2> QED BY <2>1 DEF LeftJoinOf, OptionalOf, Joins
<1>22. Found(g, OptionalQuery(pats, opts), xs) = LeftJoinOf(M, N, LAMBDA m : TRUE)
  BY <1>19, <1>20, <1>21
<1>23. BgpSolutions(T, pats) = M /\ BgpSolutions(T, opts) = N
  BY <1>1, <1>2, <1>4, <1>14, BgpSolved
<1> QED BY <1>17, <1>18, <1>22, <1>23
-----------------------------------------------------------------------------
(* NOT EXISTS of patterns holds of the rows that nothing extends.          *)
NothingMatches(parts) == [f |-> "notExists", parts |-> parts, where |-> << >>]

LEMMA NothingMatchesIsTrue ==
  ASSUME NEW g, NEW parts, NEW row, NEW e, e = NothingMatches(parts)
  PROVE  IsTrueIn(g, e, row) <=> MatchRows(g, row, parts) = {}
<1>1. e.f = "notExists" /\ e.parts = parts /\ e.where = << >>
  BY DEF NothingMatches
<1>2. DOMAIN << >> = {}
  OBVIOUS
<1>3. PICK v : v = ShallowValue(g, e, row)
  OBVIOUS
<1>4. v = Bool(MatchRows(g, row, parts) = {})
  <2>1. v = Bool(("notExists" = "exists") = \E r \in MatchRows(g, row, parts) : TRUE)
    BY <1>1, <1>2, <1>3 DEF ShallowValue, ValueIn
  <2>2. (("notExists" = "exists") = \E r \in MatchRows(g, row, parts) : TRUE)
          <=> MatchRows(g, row, parts) = {}
    OBVIOUS
  <2> QED BY <2>1, <2>2
<1>5. v = Bool(TRUE) <=> MatchRows(g, row, parts) = {}
  BY <1>4 DEF Bool
<1> QED BY <1>3, <1>5 DEF IsTrueIn

WithCondition(where, e) == where \o <<e>>
TrueOf(g, e, rows) == {r \in rows : IsTrueIn(g, e, r)}

LEMMA OneMoreCondition ==
  ASSUME NEW g, NEW where, IsList(where), NEW e, NEW rows
  PROVE  Passing(g, WithCondition(where, e), rows) = TrueOf(g, e, Passing(g, where, rows))
<1>0. PICK more : more = WithCondition(where, e)
  OBVIOUS
<1>1. Joined(more, where, <<e>>)
  BY <1>0, ListOfOne, ListsAreJoined DEF WithCondition
<1>2. DOMAIN <<e>> = {1} /\ <<e>>[1] = e
  BY ListOfOne
<1>3. ASSUME NEW r PROVE Passes(g, more, r) <=> Passes(g, where, r) /\ IsTrueIn(g, e, r)
  <2>1. ASSUME Passes(g, more, r) PROVE Passes(g, where, r) /\ IsTrueIn(g, e, r)
    BY <1>1, <1>2, <2>1 DEF Joined, Passes
  <2>2. ASSUME Passes(g, where, r), IsTrueIn(g, e, r) PROVE Passes(g, more, r)
    BY <1>1, <1>2, <2>2 DEF Joined, Passes
  <2> QED BY <2>1, <2>2
<1> QED BY <1>0, <1>3 DEF Passing, TrueOf

LEMMA MinusBody ==
  ASSUME NEW left, IsParts(left), left.match # << >>, NEW right, right.match # << >>,
         NEW b, b = Body(WithMinus(left, right))
  PROVE  /\ b.clauses = left.match
         /\ b.where = left.where \o <<NothingMatches(right.match)>>
<1>1. PICK es : es = <<NothingMatches(right.match)>>
  OBVIOUS
<1>2. PICK acc : acc = WithMinus(left, right)
  OBVIOUS
<1>3. acc = [match |-> left.match, where |-> left.where \o es, vars |-> left.vars,
             n |-> right.n, ok |-> right.ok]
  BY <1>1, <1>2 DEF WithMinus, Constrained, IsParts, NothingMatches
<1>4. acc.match = left.match /\ acc.where = left.where \o es
  BY <1>3
<1> QED BY <1>1, <1>2, <1>4, BodyOfPatterns

(* Whether something goes with an assignment does not depend on what       *)
(* stands for constants.                                                   *)
OnlyOn(a, xs) == [x \in xs |-> a[x]]

LEMMA CompatibleWithout ==
  ASSUME NEW a, NEW xs, NEW zs, DOMAIN a = xs \cup zs, NEW n, DOMAIN n \cap zs = {}
  PROVE  Compatible(OnlyOn(a, xs), n) <=> Compatible(a, n)
BY DEF Compatible, OnlyOn

LEMMA NothingJoins ==
  ASSUME NEW a, NEW N
  PROVE  Joins(a, N) = {} <=> ~ \E n \in N : Compatible(a, n)
<1>1. \A b : b \in JoinOf({a}, N) <=>
               \E c \in {a}, n \in N : Compatible(c, n) /\ b = Merge(c, n)
  BY JoinMembers
<1>2. \A b : b \in Joins(a, N) <=> \E n \in N : Compatible(a, n) /\ b = Merge(a, n)
  BY <1>1 DEF Joins
<1> QED BY <1>2

(* The rows of MINUS. *)
Unmatched(g, rows, parts) == {r \in rows : MatchRows(g, r, parts) = {}}

HasParts(parts) == parts # << >>

LEMMA MinusRows ==
  ASSUME NEW g, AreEdges(g.edges), NEW pats, NEW n \in Nat, n # 0, DOMAIN pats = 1 .. n,
         AreBasic(pats), NEW left, NEW cs, Describes(left, pats, n, cs),
         NEW right, NEW parts, parts = right.match, HasParts(parts),
         NEW b, b = Body(WithMinus(left, right)), NEW es, es = g.edges
  PROVE  RowsFound(g, b) = Unmatched(g, RowsOf(AssignedBy(es, pats, n, cs)), parts)
<1>1. HopsFor(left.match, pats, n, cs) /\ ConditionsFor(left.where, cs) /\ IsParts(left)
  BY DEF Describes
<1>2. IsList(left.match) /\ Len(left.match) = n /\ \A i \in 1 .. n : IsHop(left.match[i])
  BY <1>1 DEF HopsFor, HopFor
<1>3. DOMAIN left.match = 1 .. n
  BY <1>2, ListIsAppended
<1>4. left.match # << >>
  BY <1>2, ListOfOne
<1>5. right.match # << >>
  BY DEF HasParts
<1>6. PICK e : e = NothingMatches(parts)
  OBVIOUS
<1>7. PICK hops, where : hops = left.match /\ where = left.where
  OBVIOUS
<1>8. b.clauses = hops /\ b.where = where \o <<e>>
  BY <1>1, <1>4, <1>5, <1>6, <1>7, MinusBody
<1>9. PICK rows : rows = BodyRowsAt(g, hops, 1 .. n)
  OBVIOUS
<1>10. RowsFound(g, b) = Passing(g, b.where, rows)
  <2>1. RowsFound(g, b) = Passing(g, b.where, BodyRowsAt(g, b.clauses, 1 .. n))
    BY <1>2, <1>3, <1>7, <1>8, RowsOfHops
  <2> QED BY <1>8, <1>9, <2>1
<1>11. Passing(g, where, rows) = RowsOf(AssignedBy(g.edges, pats, n, cs))
  <2>1. HopsFor(hops, pats, n, cs) /\ ConditionsFor(where, cs)
    BY <1>1, <1>7
  <2>2. \A i \in 1 .. n : IsBasic(pats[i])
    BY DEF AreBasic
  <2>3. Passing(g, where, BodyRowsAt(g, hops, 1 .. n)) =
           {NodeRow(a) : a \in AssignedBy(g.edges, pats, n, cs)}
    BY <2>1, <2>2, RowsAssigned
  <2> QED BY <1>9, <2>3 DEF RowsOf
<1>12. Passing(g, b.where, rows) = TrueOf(g, e, Passing(g, where, rows))
  <2>1. IsList(where)
    BY <1>1, <1>7 DEF ConditionsFor
  <2>2. Passing(g, WithCondition(where, e), rows) = TrueOf(g, e, Passing(g, where, rows))
    BY <2>1, OneMoreCondition
  <2>3. b.where = WithCondition(where, e)
    BY <1>8 DEF WithCondition
  <2> QED BY <2>2, <2>3
<1>13. \A r : IsTrueIn(g, e, r) <=> MatchRows(g, r, parts) = {}
  BY <1>6, NothingMatchesIsTrue
<1> QED BY <1>6, <1>10, <1>11, <1>12, <1>13 DEF TrueOf, Unmatched

(* The rows in which the condition of MINUS does not hold show the solutions *)
(* the algebra keeps, where the sides share a variable.                      *)
LEMMA RemovedAreTaken ==
  ASSUME NEW g, AreEdges(g.edges), NEW es, es = g.edges,
         NEW pats, NEW n, \A i \in 1 .. n : IsBasic(pats[i]),
         NEW cs, NEW hops, HopsFor(hops, pats, n, cs),
         NEW j \in Nat, DOMAIN cs \subseteq Numbered(j),
         NEW rem, NEW k \in Nat, \A i \in 1 .. k : IsBasic(rem[i]),
         NEW ds, DOMAIN ds = {}, NEW parts, HopsFor(parts, rem, k, ds),
         NEW xs, xs = VarsAt(pats, 1 .. n), xs \cap VarsAt(rem, 1 .. k) # {}
  PROVE  ShownOf(Unmatched(g, RowsOf(AssignedBy(es, pats, n, cs)), parts), xs) =
           MinusOf(SolutionsAt(es, pats, 1 .. n), SolutionsAt(es, rem, 1 .. k))
<1>1. PICK A, M, N : /\ A = AssignedBy(es, pats, n, cs)
                     /\ M = SolutionsAt(es, pats, 1 .. n) /\ N = SolutionsAt(es, rem, 1 .. k)
  OBVIOUS
<1>2. PICK R : R = VarsAt(rem, 1 .. k)
  OBVIOUS
<1>3. R \cap DOMAIN cs = {}
  BY <1>2, VarsAreNoConstants
<1>4. \A m \in N : DOMAIN m = R
  BY <1>1, <1>2, SolutionsAreMaps
<1>5. \A a \in A : a \in [xs \cup DOMAIN cs -> EndTerms(es)] /\ DOMAIN a = xs \cup DOMAIN cs
  BY <1>1 DEF AssignedBy
<1>6. {OnlyOn(a, xs) : a \in A} = M
  BY <1>1, AssignmentsAreSolutions DEF OnlyOn
<1>7. ASSUME NEW a \in A
      PROVE  MatchRows(g, NodeRow(a), parts) = {} <=> ~ \E m \in N : Compatible(a, m)
  <2>1. a \in [xs \cup DOMAIN cs -> EndTerms(g.edges)]
    BY <1>5
  <2>2. PICK D : D = xs \cup DOMAIN cs
    OBVIOUS
  <2>3. MatchRows(g, NodeRow(a), parts) = RowsOf(Joins(a, SolutionsAt(g.edges, rem, 1 .. k)))
    <3>1. a \in [D -> EndTerms(g.edges)]
      BY <2>1, <2>2
    <3> QED BY <3>1, RowsJoined
  <2>4. MatchRows(g, NodeRow(a), parts) = RowsOf(Joins(a, N))
    BY <1>1, <2>3
  <2>5. RowsOf(Joins(a, N)) = {} <=> Joins(a, N) = {}
    BY DEF RowsOf
  <2>6. Joins(a, N) = {} <=> ~ \E m \in N : Compatible(a, m)
    BY NothingJoins
  <2> QED BY <2>4, <2>5, <2>6
<1>8. ASSUME NEW a \in A, NEW q, q = OnlyOn(a, xs)
      PROVE  (\E m \in N : Compatible(a, m))
               <=> \E m \in N : DOMAIN q \cap DOMAIN m # {} /\ Compatible(q, m)
  <2>1. \A m \in N : Compatible(q, m) <=> Compatible(a, m)
    <3>1. PICK zs : zs = DOMAIN cs
      OBVIOUS
    <3>2. DOMAIN a = xs \cup zs
      BY <1>5, <3>1
    <3>3. ASSUME NEW m \in N PROVE Compatible(q, m) <=> Compatible(a, m)
      <4>1. DOMAIN m \cap zs = {}
        BY <1>3, <1>4, <3>1
      <4> QED BY <1>8, <3>2, <4>1, CompatibleWithout
    <3> QED BY <3>3
  <2>2. \A m \in N : DOMAIN q \cap DOMAIN m # {}
    BY <1>2, <1>4, <1>8 DEF OnlyOn
  <2> QED BY <2>1, <2>2
<1>9. \A a \in A : Shown(NodeRow(a), xs) = OnlyOn(a, xs)
  BY <1>5, NodesAreShown DEF OnlyOn
<1>10. PICK rows : rows = Unmatched(g, RowsOf(A), parts)
  OBVIOUS
<1>11. ASSUME NEW q PROVE q \in ShownOf(rows, xs) <=> q \in MinusOf(M, N)
  <2>1. q \in ShownOf(rows, xs) <=>
          \E a \in A : /\ MatchRows(g, NodeRow(a), parts) = {}
                       /\ q = OnlyOn(a, xs)
    <3>1. \A r : r \in rows <=> \E a \in A : r = NodeRow(a) /\ MatchRows(g, r, parts) = {}
      BY <1>10 DEF RowsOf, Unmatched
    <3>2. q \in ShownOf(rows, xs) <=> \E r \in rows : q = Shown(r, xs)
      BY DEF ShownOf
    <3> QED BY <1>9, <3>1, <3>2
  <2>2. q \in MinusOf(M, N) <=>
          /\ q \in M
          /\ ~ \E m \in N : DOMAIN q \cap DOMAIN m # {} /\ Compatible(q, m)
    BY DEF MinusOf
  <2>3. ASSUME NEW a \in A, q = OnlyOn(a, xs)
        PROVE  MatchRows(g, NodeRow(a), parts) = {} <=> q \in MinusOf(M, N)
    <3>1. q \in M
      BY <1>6, <2>3
    <3> QED BY <1>7, <1>8, <2>2, <2>3, <3>1
  <2>4. q \in M <=> \E a \in A : q = OnlyOn(a, xs)
    BY <1>6
  <2> QED BY <2>1, <2>2, <2>3, <2>4
<1>12. ShownOf(rows, xs) = MinusOf(M, N)
  <2>1. PICK U, V : U = ShownOf(rows, xs) /\ V = MinusOf(M, N)
    OBVIOUS
  <2> QED BY <1>11, <2>1
<1> QED BY <1>1, <1>10, <1>12

(* A query with MINUS shows what SPARQL says: for any graph and any patterns *)
(* whose constants are predicates, the rows the translated query keeps show  *)
(* exactly the solutions of the left side that are compatible with none of   *)
(* the right side (process_pattern, GP::Minus), the sides sharing a variable. *)
THEOREM MinusQueriesAnswered ==
  ASSUME NEW T, NEW g, g.edges = EdgesMade(T),
         NEW pats, IsList(pats), pats # << >>, AreBasic(pats),
         NEW rem, IsList(rem), rem # << >>, AreBare(rem),
         PatternVars(pats) \cap PatternVars(rem) # {}
  PROVE  Found(g, MinusQuery(pats, rem), PatternVars(pats)) =
           MinusOf(BgpSolutions(T, pats), BgpSolutions(T, rem))
<1>1. PICK n \in Nat : n # 0 /\ DOMAIN pats = 1 .. n
  BY ListPositions
<1>2. PICK k \in Nat : k # 0 /\ DOMAIN rem = 1 .. k
  BY ListPositions
<1>3. AreEdges(g.edges)
  BY DEF AreEdges, EdgesMade
<1>4. /\ \A i \in 1 .. n : IsBasic(pats[i])
      /\ \A i \in 1 .. k : IsBare(rem[i]) /\ IsBasic(rem[i])
  BY <1>1, <1>2 DEF AreBasic, AreBare, IsBare
<1>5. PICK left : left = BgpToCypher(NoParts, pats)
  OBVIOUS
<1>6. PICK cs : Describes(left, pats, n, cs)
  <2>1. PICK z \in Nat : z = 0
    OBVIOUS
  <2>2. PICK start : start = PartsFrom(z)
    OBVIOUS
  <2>3. IsParts(start) /\ start.match = << >> /\ start.where = << >>
    BY <2>2, StartParts
  <2>4. \E cs : Describes(BgpToCypher(start, pats), pats, n, cs)
    BY <1>1, <1>4, <2>3, BgpDescribed
  <2> QED BY <1>5, <2>1, <2>2, <2>4 DEF NoParts
<1>7. PICK right : right = BgpToCypher(PartsFrom(left.n), rem)
  OBVIOUS
<1>8. \E ds : DOMAIN ds = {} /\ HopsFor(right.match, rem, k, ds)
  <2>1. PICK z \in Nat : z = left.n
    BY <1>6 DEF Describes, IsParts
  <2>2. PICK start : start = PartsFrom(z)
    OBVIOUS
  <2>3. IsParts(start) /\ start.match = << >> /\ start.where = << >>
    BY <2>2, StartParts
  <2>4. right = BgpToCypher(start, rem)
    BY <1>7, <2>1, <2>2
  <2> QED BY <1>2, <1>4, <2>3, <2>4, BareTranslated
<1>9. PICK ds : DOMAIN ds = {} /\ HopsFor(right.match, rem, k, ds)
  BY <1>8
<1>10. right.match # << >>
  BY <1>2, <1>9, ListOfOne DEF HopsFor
<1>11. PICK es, xs, parts, hops, j : /\ es = g.edges /\ xs = VarsAt(pats, 1 .. n)
                                     /\ parts = right.match /\ hops = left.match /\ j = left.n
  OBVIOUS
<1>12. PICK rows : rows = Unmatched(g, RowsOf(AssignedBy(es, pats, n, cs)), parts)
  OBVIOUS
<1>13. RowsFound(g, MinusQuery(pats, rem)) = rows
  <2>1. PICK b : b = Body(WithMinus(left, right))
    OBVIOUS
  <2>2. HasParts(parts)
    BY <1>10, <1>11 DEF HasParts
  <2>3. RowsFound(g, b) = Unmatched(g, RowsOf(AssignedBy(es, pats, n, cs)), parts)
    BY <1>1, <1>3, <1>6, <1>11, <2>1, <2>2, MinusRows
  <2> QED BY <1>5, <1>7, <1>12, <2>1, <2>3 DEF MinusQuery
<1>14. PatternVars(pats) = xs /\ PatternVars(rem) = VarsAt(rem, 1 .. k)
  BY <1>1, <1>2, <1>11 DEF PatternVars, VarsAt
<1>15. ShownOf(rows, xs) = MinusOf(SolutionsAt(es, pats, 1 .. n), SolutionsAt(es, rem, 1 .. k))
  <2>1. HopsFor(hops, pats, n, cs) /\ j \in Nat /\ DOMAIN cs \subseteq Numbered(j)
    BY <1>6, <1>11 DEF Describes, IsParts
  <2>2. HopsFor(parts, rem, k, ds)
    BY <1>9, <1>11
  <2>3. xs \cap VarsAt(rem, 1 .. k) # {}
    BY <1>14
  <2> QED BY <1>3, <1>4, <1>9, <1>11, <1>12, <2>1, <2>2, <2>3, RemovedAreTaken
<1>16. Found(g, MinusQuery(pats, rem), xs) = ShownOf(rows, xs)
  BY <1>13 DEF Found, RowsFound, ShownOf
<1>17. /\ BgpSolutions(T, pats) = SolutionsAt(es, pats, 1 .. n)
       /\ BgpSolutions(T, rem) = SolutionsAt(es, rem, 1 .. k)
  BY <1>1, <1>2, <1>4, <1>11, BgpSolved
<1> QED BY <1>14, <1>15, <1>16, <1>17
-----------------------------------------------------------------------------
(* Whether FalkorDB accepts the query. *)
ClauseAllowed(clauses, i) == ClauseOk(clauses, i, LAMBDA e, scope : ShallowOk(e, scope))

LEMMA HopIsAllowed ==
  ASSUME NEW clauses, NEW i \in Nat, IsHop(clauses[i]), i > 1 => IsHop(clauses[i - 1])
  PROVE  ClauseAllowed(clauses, i)
<1>1. clauses[i].part = "hop" /\ (i > 1 => clauses[i - 1].part = "hop")
  BY DEF IsHop, Hop
<1>2. i > 1 => clauses[i - 1].part # "optional"
  BY <1>1
<1> QED BY <1>1, <1>2 DEF ClauseAllowed, ClauseOk

LEMMA ConditionIsAllowed ==
  ASSUME NEW scope, NEW x \in scope, NEW c
  PROVE  ShallowOk(Condition(x, c), scope)
<1>1. PICK e, l, r : e = Condition(x, c) /\ l = Prop(x, "uri") /\ r = TextExpr(c)
  OBVIOUS
<1>2. e.f = "eq" /\ e.args = <<l, r>>
  BY <1>1 DEF Condition, Apply
<1>3. DOMAIN e.args = {1, 2} /\ e.args[1] = l /\ e.args[2] = r
  BY <1>2
<1>4. l.f = "prop" /\ l.of = x /\ r.f = "text"
  BY <1>1 DEF Prop, TextExpr, Leaf
<1>5. \A i \in DOMAIN e.args :
         ExprOkIn(e.args[i], scope, LAMBDA f, inner : ExprOkIn(f, inner, LAMBDA h, s : FALSE))
  BY <1>3, <1>4 DEF ExprOkIn
<1>6. \A i \in DOMAIN e.args : ExprOkIn(e.args[i], scope, LAMBDA h, s : FALSE)
  BY <1>3, <1>4 DEF ExprOkIn
<1> QED BY <1>1, <1>2, <1>6 DEF ShallowOk, ExprOkIn

LEMMA NothingMatchesIsAllowed ==
  ASSUME NEW parts, \A i \in DOMAIN parts : IsHop(parts[i]), NEW scope
  PROVE  ShallowOk(NothingMatches(parts), scope)
<1>1. OnlyPatterns(parts)
  BY DEF OnlyPatterns, IsHop, Hop
<1>2. PICK e : e = NothingMatches(parts)
  OBVIOUS
<1>3. e.f = "notExists" /\ e.parts = parts /\ e.where = << >>
  BY <1>2 DEF NothingMatches
<1>4. DOMAIN e.where = {}
  BY <1>3
<1> QED BY <1>1, <1>2, <1>3, <1>4 DEF ShallowOk, ExprOkIn

LEMMA BodyIsAllowed ==
  ASSUME NEW b, NEW n \in Nat, n # 0, DOMAIN b.clauses = 1 .. n, Len(b.clauses) = n,
         \A i \in 1 .. n : ClauseAllowed(b.clauses, i), b.clauses[n].part # "unwind",
         \A i \in DOMAIN b.where : ShallowOk(b.where[i], ScopeAfter(b.clauses, n))
  PROVE  Allowed(b)
BY DEF Allowed, BodyOkBy, ClauseAllowed, Last

LEMMA NamesInScope ==
  ASSUME NEW hops, NEW n, \A i \in 1 .. n : IsHop(hops[i])
  PROVE  ScopeAfter(hops, n) = NamesAt(hops, 1 .. n)
<1>1. \A i \in 1 .. n : NamesOf(hops[i]) = HopNames(hops[i])
  <2> TAKE i \in 1 .. n
  <2>1. IsHop(hops[i])
    OBVIOUS
  <2>2. hops[i].part = "hop"
    BY <2>1 DEF IsHop, Hop
  <2> QED BY <2>2 DEF NamesOf, HopNames
<1> QED BY <1>1 DEF ScopeAfter, NamesAt

(* Hops with conditions on their names. *)
LEMMA HopsAreAllowed ==
  ASSUME NEW hops, NEW n \in Nat, n # 0, IsList(hops), Len(hops) = n,
         \A i \in 1 .. n : IsHop(hops[i]),
         NEW b, b.clauses = hops,
         \A i \in DOMAIN b.where : ShallowOk(b.where[i], NamesAt(hops, 1 .. n))
  PROVE  Allowed(b)
<1>1. DOMAIN hops = 1 .. n
  BY ListIsAppended
<1>2. ASSUME NEW i \in 1 .. n PROVE ClauseAllowed(hops, i)
  <2>1. i \in Nat /\ (i > 1 => i - 1 \in 1 .. n)
    OBVIOUS
  <2>2. IsHop(hops[i]) /\ (i > 1 => IsHop(hops[i - 1]))
    BY <2>1
  <2> QED BY <2>1, <2>2, HopIsAllowed
<1>3. hops[n].part # "unwind"
  BY DEF IsHop, Hop
<1>4. ScopeAfter(hops, n) = NamesAt(hops, 1 .. n)
  BY NamesInScope
<1> QED BY <1>1, <1>2, <1>3, <1>4, BodyIsAllowed

LEMMA BasicIsAllowed ==
  ASSUME NEW pats, IsList(pats), pats # << >>, AreBasic(pats)
  PROVE  Allowed(BasicQuery(pats))
<1>1. PICK n \in Nat : n # 0 /\ DOMAIN pats = 1 .. n
  BY ListPositions
<1>2. \A i \in 1 .. n : IsBasic(pats[i])
  BY <1>1 DEF AreBasic
<1>3. PICK acc, start : acc = BgpToCypher(start, pats) /\ start = NoParts
  OBVIOUS
<1>4. IsParts(start) /\ start.match = << >> /\ start.where = << >>
  BY <1>3, StartParts DEF NoParts
<1>5. PICK cs : Describes(acc, pats, n, cs)
  BY <1>1, <1>2, <1>3, <1>4, BgpDescribed
<1>6. HopsFor(acc.match, pats, n, cs) /\ ConditionsFor(acc.where, cs)
  BY <1>5 DEF Describes
<1>7. PICK hops, where : hops = acc.match /\ where = acc.where
  OBVIOUS
<1>8. IsList(hops) /\ Len(hops) = n /\ \A i \in 1 .. n : IsHop(hops[i])
  BY <1>6, <1>7 DEF HopsFor, HopFor
<1>9. hops # << >>
  BY <1>1, <1>8, ListOfOne
<1>10. PICK b : b = BasicQuery(pats)
  OBVIOUS
<1>11. b.clauses = hops /\ b.where = where
  BY <1>3, <1>7, <1>9, <1>10, BodyOfPatterns DEF BasicQuery
<1>12. PICK scope : scope = NamesAt(hops, 1 .. n)
  OBVIOUS
<1>13. ASSUME NEW i \in DOMAIN where PROVE ShallowOk(where[i], scope)
  <2>1. PICK x \in DOMAIN cs : where[i] = Condition(x, cs[x])
    BY <1>6, <1>7 DEF ConditionsFor
  <2>2. x \in scope
    BY <1>6, <1>7, <1>12, <2>1 DEF HopsFor
  <2> QED BY <2>1, <2>2, ConditionIsAllowed
<1> QED BY <1>1, <1>8, <1>10, <1>11, <1>12, <1>13, HopsAreAllowed

LEMMA MinusIsAllowed ==
  ASSUME NEW pats, IsList(pats), pats # << >>, AreBasic(pats),
         NEW rem, IsList(rem), rem # << >>, AreBare(rem)
  PROVE  Allowed(MinusQuery(pats, rem))
<1>1. PICK n \in Nat : n # 0 /\ DOMAIN pats = 1 .. n
  BY ListPositions
<1>2. PICK k \in Nat : k # 0 /\ DOMAIN rem = 1 .. k
  BY ListPositions
<1>3. /\ \A i \in 1 .. n : IsBasic(pats[i])
      /\ \A i \in 1 .. k : IsBare(rem[i]) /\ IsBasic(rem[i])
  BY <1>1, <1>2 DEF AreBasic, AreBare, IsBare
<1>4. PICK left, start : left = BgpToCypher(start, pats) /\ start = NoParts
  OBVIOUS
<1>5. IsParts(start) /\ start.match = << >> /\ start.where = << >>
  BY <1>4, StartParts DEF NoParts
<1>6. PICK cs : Describes(left, pats, n, cs)
  BY <1>1, <1>3, <1>4, <1>5, BgpDescribed
<1>7. HopsFor(left.match, pats, n, cs) /\ ConditionsFor(left.where, cs) /\ IsParts(left)
  BY <1>6 DEF Describes
<1>8. PICK right, z, from : /\ right = BgpToCypher(from, rem) /\ from = PartsFrom(z)
                            /\ z = left.n
  OBVIOUS
<1>9. IsParts(from) /\ from.match = << >> /\ from.where = << >>
  BY <1>7, <1>8, StartParts DEF IsParts
<1>10. PICK ds : HopsFor(right.match, rem, k, ds)
  BY <1>2, <1>3, <1>8, <1>9, BareTranslated
<1>11. PICK hops, where, parts, e : /\ hops = left.match /\ where = left.where
                                    /\ parts = right.match /\ e = NothingMatches(parts)
  OBVIOUS
<1>12. /\ IsList(hops) /\ Len(hops) = n /\ \A i \in 1 .. n : IsHop(hops[i])
       /\ IsList(parts) /\ Len(parts) = k /\ \A i \in 1 .. k : IsHop(parts[i])
  BY <1>7, <1>10, <1>11 DEF HopsFor, HopFor
<1>13. hops # << >> /\ parts # << >> /\ DOMAIN parts = 1 .. k
  BY <1>1, <1>2, <1>12, ListOfOne, ListIsAppended
<1>14. PICK b : b = MinusQuery(pats, rem)
  OBVIOUS
<1>15. b.clauses = hops /\ b.where = where \o <<e>>
  BY <1>4, <1>7, <1>8, <1>11, <1>13, <1>14, MinusBody DEF MinusQuery
<1>16. PICK scope : scope = NamesAt(hops, 1 .. n)
  OBVIOUS
<1>17. ASSUME NEW i \in DOMAIN where PROVE ShallowOk(where[i], scope)
  <2>1. PICK x \in DOMAIN cs : where[i] = Condition(x, cs[x])
    BY <1>7, <1>11 DEF ConditionsFor
  <2>2. x \in scope
    BY <1>7, <1>11, <1>16, <2>1 DEF HopsFor
  <2> QED BY <2>1, <2>2, ConditionIsAllowed
<1>18. ShallowOk(e, scope)
  BY <1>11, <1>12, <1>13, NothingMatchesIsAllowed
<1>19. Joined(b.where, where, <<e>>)
  BY <1>7, <1>11, <1>15, ListOfOne, ListsAreJoined DEF ConditionsFor
<1>20. ASSUME NEW i \in DOMAIN b.where PROVE ShallowOk(b.where[i], scope)
  BY <1>17, <1>18, <1>19, ListOfOne DEF Joined
<1> QED BY <1>1, <1>12, <1>14, <1>15, <1>16, <1>20, HopsAreAllowed

LEMMA OptionalIsAllowed ==
  ASSUME NEW pats, IsList(pats), pats # << >>, AreBare(pats),
         NEW opts, IsList(opts), opts # << >>, AreBare(opts)
  PROVE  Allowed(OptionalQuery(pats, opts))
<1>1. PICK n \in Nat : n # 0 /\ DOMAIN pats = 1 .. n
  BY ListPositions
<1>2. PICK k \in Nat : k # 0 /\ DOMAIN opts = 1 .. k
  BY ListPositions
<1>3. /\ \A i \in 1 .. n : IsBare(pats[i])
      /\ \A i \in 1 .. k : IsBare(opts[i])
  BY <1>1, <1>2 DEF AreBare
<1>4. PICK left, start : left = BgpToCypher(start, pats) /\ start = NoParts
  OBVIOUS
<1>5. IsParts(start) /\ start.match = << >> /\ start.where = << >>
  BY <1>4, StartParts DEF NoParts
<1>6. /\ IsParts(left) /\ left.where = << >>
      /\ \E cs : HopsFor(left.match, pats, n, cs)
  BY <1>1, <1>3, <1>4, <1>5, BareTranslated
<1>7. PICK right, from : right = BgpToCypher(from, opts) /\ from = WithoutParts(left)
  OBVIOUS
<1>8. IsParts(from) /\ from.match = << >> /\ from.where = << >>
  BY <1>6, <1>7 DEF WithoutParts, IsParts
<1>9. /\ IsParts(right)
      /\ \E ds : HopsFor(right.match, opts, k, ds)
  BY <1>2, <1>3, <1>7, <1>8, BareTranslated
<1>10. PICK hops, parts, c : hops = left.match /\ parts = right.match /\ c = Optional(parts)
  OBVIOUS
<1>11. /\ IsList(hops) /\ Len(hops) = n /\ \A i \in 1 .. n : IsHop(hops[i])
       /\ IsList(parts) /\ Len(parts) = k /\ \A i \in 1 .. k : IsHop(parts[i])
  BY <1>6, <1>9, <1>10 DEF HopsFor, HopFor
<1>12. parts # << >> /\ DOMAIN parts = 1 .. k
  BY <1>2, <1>11, ListOfOne, ListIsAppended
<1>13. PICK b, body, m : /\ b = OptionalQuery(pats, opts) /\ m = n + 1
                         /\ body = b.clauses
  OBVIOUS
<1>14. body = Append(hops, c) /\ b.where = << >>
  BY <1>4, <1>6, <1>7, <1>9, <1>10, <1>12, <1>13, OptionalClauses DEF OptionalQuery
<1>15. /\ Len(body) = m /\ DOMAIN body = 1 .. m /\ body[m] = c
       /\ \A i \in 1 .. n : body[i] = hops[i]
  BY <1>11, <1>13, <1>14, ListIsAppended
<1>16. ASSUME NEW i \in 1 .. n PROVE ClauseAllowed(body, i)
  <2>1. i \in Nat /\ (i > 1 => i - 1 \in 1 .. n)
    OBVIOUS
  <2>2. IsHop(body[i]) /\ (i > 1 => IsHop(body[i - 1]))
    BY <1>11, <1>15, <2>1
  <2> QED BY <2>1, <2>2, HopIsAllowed
<1>17. c.part = "optional" /\ OnlyPatterns(c.parts)
  <2>1. ASSUME NEW i \in DOMAIN parts PROVE parts[i].part \in {"hop", "hops"}
    <3>1. IsHop(parts[i])
      BY <1>11, <1>12
    <3> QED BY <3>1 DEF IsHop, Hop
  <2> QED BY <1>10, <2>1 DEF Optional, OnlyPatterns
<1>18. ClauseAllowed(body, m)
  BY <1>15, <1>17 DEF ClauseAllowed, ClauseOk
<1>19. \A i \in 1 .. m : ClauseAllowed(body, i)
  <2>1. \A i \in 1 .. m : i = m \/ i \in 1 .. n
    BY <1>13
  <2> QED BY <1>16, <1>18, <2>1
<1>20. m \in Nat /\ m # 0
  BY <1>13
<1>21. \A i \in DOMAIN b.where : ShallowOk(b.where[i], ScopeAfter(body, m))
  BY <1>14, ListOfOne
<1>22. body[m].part # "unwind"
  BY <1>15, <1>17
<1> QED BY <1>13, <1>15, <1>19, <1>20, <1>21, <1>22, BodyIsAllowed

(* For these queries no clause stands where Cypher does not allow it and   *)
(* no condition names what is not defined: the order in which              *)
(* process_pattern pushes clauses and conditions is one that the database  *)
(* accepts, however many patterns there are.                               *)
THEOREM QueriesAreAllowed ==
  /\ \A pats : IsList(pats) /\ pats # << >> /\ AreBasic(pats) => Allowed(BasicQuery(pats))
  /\ \A pats, opts :
       /\ IsList(pats) /\ pats # << >> /\ AreBare(pats)
       /\ IsList(opts) /\ opts # << >> /\ AreBare(opts)
       => Allowed(OptionalQuery(pats, opts))
  /\ \A pats, rem :
       /\ IsList(pats) /\ pats # << >> /\ AreBasic(pats)
       /\ IsList(rem) /\ rem # << >> /\ AreBare(rem)
       => Allowed(MinusQuery(pats, rem))
BY BasicIsAllowed, OptionalIsAllowed, MinusIsAllowed
-----------------------------------------------------------------------------
(* RDF.QUERY after RDF.INSERT and RDF.DELETE: what a query finds in the    *)
(* graph is what SPARQL says of the triples that were asserted and are     *)
(* edges.                                                                  *)
AssertedEdges == {t \in asserted : IsEdge(t)}

QueriesFindAsserted ==
    /\ \A pats :
         IsList(pats) /\ pats # << >> /\ AreBasic(pats)
         => Found(graph, BasicQuery(pats), PatternVars(pats)) = BgpSolutions(AssertedEdges, pats)
    /\ \A pats, opts :
         /\ IsList(pats) /\ pats # << >> /\ AreBare(pats)
         /\ IsList(opts) /\ opts # << >> /\ AreBare(opts)
         => Found(graph, OptionalQuery(pats, opts), PatternVars(pats) \cup PatternVars(opts)) =
              LeftJoinOf(BgpSolutions(AssertedEdges, pats), BgpSolutions(AssertedEdges, opts),
                         LAMBDA m : TRUE)
    /\ \A pats, rem :
         /\ IsList(pats) /\ pats # << >> /\ AreBasic(pats)
         /\ IsList(rem) /\ rem # << >> /\ AreBare(rem)
         /\ PatternVars(pats) \cap PatternVars(rem) # {}
         => Found(graph, MinusQuery(pats, rem), PatternVars(pats)) =
              MinusOf(BgpSolutions(AssertedEdges, pats), BgpSolutions(AssertedEdges, rem))

LEMMA EdgesDecideAnswers == EdgesAreTriples /\ plain => QueriesFindAsserted
<1> SUFFICES ASSUME EdgesAreTriples, plain PROVE QueriesFindAsserted
  OBVIOUS
<1>1. PICK T, g : T = AssertedEdges /\ g = graph
  OBVIOUS
<1>2. g.edges = EdgesMade(T)
  BY <1>1 DEF EdgesAreTriples, EdgesOf, EdgesMade, AssertedEdges
<1> QED
  BY <1>1, <1>2, BasicQueriesAnswered, OptionalQueriesAnswered, MinusQueriesAnswered
     DEF QueriesFindAsserted

(* Whatever was inserted and deleted before, whichever queries of          *)
(* RDF.DELETE failed and whatever prefixes were bound to, as long as every *)
(* deletion was by a pattern that the code reads as it is meant.           *)
THEOREM QueriesFollowCommands == Spec => [](plain => QueriesFindAsserted)
<1>1. EdgesAreTriples => (plain => QueriesFindAsserted)
  BY EdgesDecideAnswers
<1> QED BY <1>1, EdgesFollowTriples, PTL
=============================================================================
