----------------------------- MODULE SparqlQuery -----------------------------
(***************************************************************************)
(* RDF.QUERY on a graph that RDF.INSERT fills: the arguments, the parser,  *)
(* the translation, GRAPH.QUERY with its time limit, and the conversion    *)
(* and formatting of its answer.                                           *)
(*                                                                         *)
(* QueryExecutor runs with either of two executors: the module's own,      *)
(* which reads Redis values (redis), or another one of the mapper's users  *)
(* that hands maps over as they are (library).                             *)
(***************************************************************************)
EXTENDS QueryEvaluation

CONSTANTS
    Documents,    \* what RDF.INSERT may be given, sequences of triples
    MaxInserts,   \* bound: how many of them
    Queries,      \* what spargebra reads: <<form, pattern>>
    Options,      \* the arguments after the query, sequences of tokens
    Formats, Numerals   \* tokens that name a format, tokens that read as a u64

VARIABLES
    graph, data,  \* FalkorDB's graph, and the triples that went into it
    inserts,      \* how many documents went in
    phase,        \* idle, the step of RDF.QUERY that is next, or done
    args,         \* the parsed arguments
    sparql,       \* the query as spargebra reads it: <<form, pattern>>
    query,        \* the converted query
    cypher,       \* its translation
    answer,       \* what GRAPH.QUERY gave
    reply         \* the last reply

vars == <<graph, data, inserts, phase, args, sparql, query, cypher, answer, reply>>

Executors == {"redis", "library"}

(* No literal of the data overwrites what the mapping keeps in a node.     *)
ASSUME ReservedNamesAssumption ==
    \A p \in Predicates : LocalName[p] \notin {"uri", "value", "isBlank"}

NoArgs == [ok |-> FALSE, format |-> "json", executor |-> "redis"]
NoAnswer == [status |-> "none", rows |-> {}]
NoReply == [status |-> "none", form |-> "select", rows |-> {}]
NoQuery == <<"ask", Bgp(<< >>)>>
ErrorReply == [NoReply EXCEPT !.status = "error"]

Init ==
    /\ graph = EmptyGraph /\ data = {} /\ inserts = 0
    /\ phase = "idle" /\ args = NoArgs 
    /\ sparql = <<"ask", Bgp(<< >>)>> /\ query = ConvertQuery("ask", Bgp(<< >>))
    /\ cypher = Refused /\ answer = NoAnswer /\ reply = NoReply

(* RDF.INSERT of one document; RDF.QUERY runs between inserts, never with  *)
(* them.                                                                   *)
Insert(doc) ==
    /\ phase = "idle" /\ inserts < MaxInserts
    /\ graph' = TripleByTriple(graph, doc)
    /\ data' = data \cup Range(doc)
    /\ inserts' = inserts + 1
    /\ UNCHANGED <<phase, args, sparql, query, cypher, answer, reply>>

(* FORMAT and TIMEOUT in any number and order; the last FORMAT counts.     *)
ReadOption(read, token) ==
    CASE read.due = "option" -> [read EXCEPT !.due = token,
                                             !.ok = @ /\ token \in {"FORMAT", "TIMEOUT"}]
      [] read.due = "FORMAT" -> [read EXCEPT !.due = "option", !.format = token,
                                             !.ok = @ /\ token \in Formats]
      [] OTHER -> [read EXCEPT !.due = "option", !.ok = @ /\ token \in Numerals]

ParseArgs(executor, options) ==
    LET read == FoldLeft(ReadOption, [ok |-> TRUE, format |-> "json", due |-> "option"],
                         options)
    IN [ok |-> read.ok /\ read.due = "option", format |-> read.format,
        executor |-> executor]

(* The command arrives, is parsed by QueryArgs::parse, and the query by    *)
(* spargebra, which refuses what is no SPARQL; every refusal is a reply.   *)
Request(executor, options) ==
    LET parsed == ParseArgs(executor, options) IN
    /\ phase = "idle"
    /\ args' = parsed
    /\ \/ /\ parsed.ok
          /\ \E q \in Queries : sparql' = q /\ query' = ConvertQuery(q[1], q[2])
          /\ phase' = "translate"
          /\ UNCHANGED reply
       \/ /\ phase' = "done" /\ reply' = ErrorReply
          /\ UNCHANGED <<sparql, query>>
    /\ UNCHANGED <<graph, data, inserts, cypher, answer>>

(* A query the translator refuses never reaches the database.              *)
TranslateQuery ==
    /\ phase = "translate"
    /\ cypher' = Translate(query)
    /\ IF cypher'.ok THEN phase' = "execute" /\ UNCHANGED reply
       ELSE phase' = "done" /\ reply' = ErrorReply
    /\ UNCHANGED <<graph, data, inserts, args, sparql, query, answer>>

(* What the database answers to a query it can run.                        *)
Accepted == QueryOk(cypher) /\ ~Breaks(graph, cypher)

(* The limit is looked at before the call, given to FalkorDB, and looked   *)
(* at again when the answer is there: a late answer is an error.           *)
Execute ==
    /\ phase = "execute"
    /\ \/ /\ Accepted
          /\ \E rows \in Answers(graph, cypher) :
               answer' = [status |-> "ok", rows |-> rows]
          /\ phase' = "convert"
          /\ UNCHANGED reply
       \/ /\ answer' = [status |-> "error", rows |-> {}]
          /\ phase' = "done"
          /\ reply' = ErrorReply
    /\ UNCHANGED <<graph, data, inserts, args, sparql, query, cypher>>
-----------------------------------------------------------------------------
(* From the database's values to terms and to the reply. *)

(* Redis has no map: one arrives as its text.  A boolean does, too.        *)
ParseValue(executor, v) ==
    CASE executor = "library" \/ v.t = "null" -> v
      [] v.t = "bool" -> [t |-> "truth", of |-> v.of]
      [] OTHER -> [t |-> "maptext", of |-> v.of]

Unbound == [kind |-> "unbound", of |-> Nothing]

(* to_term.  A map with a uri is an IRI, whatever its uri begins with.     *)
ToTerm(v) ==
    CASE v.t = "map" -> [kind |-> "uri", of |-> v.of]
      [] v.t \in {"maptext", "truth"} -> [kind |-> "literal", of |-> v.of]
      [] v.t = "bool" -> [kind |-> "literal", of |-> v.of]
      [] OTHER -> Unbound

(* Columns go to variables by their position; CSV gives no kinds.          *)
ResultCell(format, term) ==
    IF format = "csv" /\ term # Unbound THEN [term EXCEPT !.kind = "text"] ELSE term

ToSelectResults(rows) ==
    {[i \in DOMAIN row |->
        ResultCell(args.format, ToTerm(ParseValue(args.executor, row[i])))] : row \in rows}

(* ASK: the boolean of the first row, or a text that says so.              *)
ToAskResult(rows) ==
    \E row \in rows : ParseValue(args.executor, row[1]).of = TRUE

FormatReply ==
    /\ phase = "convert"
    /\ reply' = [status |-> "ok", form |-> query.form,
                 rows |-> IF query.form = "ask"
                          THEN {<<[kind |-> "boolean", of |-> ToAskResult(answer.rows)]>>}
                          ELSE ToSelectResults(answer.rows)]
    /\ phase' = "done"
    /\ UNCHANGED <<graph, data, inserts, args, sparql, query, cypher, answer>>

(* The reply is out; nothing of the request stays behind.                  *)
Return ==
    /\ phase = "done"
    /\ phase' = "idle" /\ args' = NoArgs
    /\ sparql' = NoQuery /\ query' = ConvertQuery("ask", NoQuery[2])
    /\ cypher' = Refused /\ answer' = NoAnswer /\ reply' = NoReply
    /\ UNCHANGED <<graph, data, inserts>>

-----------------------------------------------------------------------------
Next ==
    \/ \E doc \in Documents : Insert(doc)
    \/ \E executor \in Executors, options \in Options : Request(executor, options)
    \/ TranslateQuery \/ Execute \/ FormatReply \/ Return

Spec == Init /\ [][Next]_vars
-----------------------------------------------------------------------------
(* The queries the translation is meant for.                               *)

RECURSIVE Bare(_), Simple(_, _), Core(_), Conditioned(_), Chain(_), Certain(_)

(* Triple patterns without constants but for the predicates.               *)
Bare(p) ==
    CASE p.op = "bgp" -> \A t \in Range(p.triples) :
                            t.s.k = "var" /\ t.p.k = "iri" /\ t.o.k = "var"
      [] p.op = "join" -> Bare(p.left) /\ Bare(p.right)
      [] OTHER -> FALSE

(* Conditions about bound variables; a variable is not compared with a     *)
(* constant, for a node never equals a string.                             *)
Simple(e, xs) ==
    CASE e.f = "var" -> e.of \in xs
      [] e.f = "bound" -> e.of \in xs
      [] e.f = "exists" -> Core(e.pattern) /\ e.pattern.op = "bgp"
      [] e.f \in {"eq", "sameTerm", "in", "and", "or", "not",
                  "isIri", "isBlank", "isLiteral"} ->
           \A i \in DOMAIN e.args :
               /\ Simple(e.args[i], xs)
               /\ (e.args[i].f = "var") = (e.f \notin {"and", "or", "not"})
      [] OTHER -> FALSE

(* Joins of triple patterns, of VALUES of IRIs, and BINDs of variables.    *)
Core(p) ==
    CASE p.op = "bgp" -> \A t \in Range(p.triples) :
                            {t.s.k, t.o.k} \subseteq {"var", "iri"} /\ t.p.k = "iri"
      [] p.op = "join" -> Core(p.left) /\ Core(p.right)
      [] p.op = "values" ->
           /\ p.rows # << >>
           /\ \A row \in Range(p.rows) : \A i \in DOMAIN row : row[i].k = "iri"
      [] p.op = "extend" ->
           Core(p.inner) /\ p.expr.f = "var" /\ p.expr.of \in VisibleVars(p.inner)
      [] OTHER -> FALSE

(* Conditions and MINUS come after what they apply to.                     *)
Conditioned(p) ==
    CASE p.op = "filter" -> Conditioned(p.inner) /\ Simple(p.expr, VisibleVars(p.inner))
      [] p.op = "minus" -> /\ Conditioned(p.left) /\ Bare(p.right)
                           /\ VisibleVars(p.left) \cap VisibleVars(p.right) # {}
      [] OTHER -> Core(p)

Certain(p) == IF p.op = "leftjoin" THEN Certain(p.left) ELSE VisibleVars(p)

(* OPTIONALs that come last, have no conditions, and share with what comes *)
(* before only variables that are bound there.                             *)
Chain(p) ==
    \/ Bare(p)
    \/ /\ p.op = "leftjoin" /\ p.exprs = << >>
       /\ Chain(p.left) /\ Bare(p.right)
       /\ VisibleVars(p.left) \cap VisibleVars(p.right) \subseteq Certain(p.left)

RECURSIVE Modifiers(_), Triples(_)
Modifiers(p) ==
    IF p.op \in {"project", "distinct", "reduced", "orderby", "slice", "group"}
    THEN <<p.op>> \o Modifiers(p.inner) ELSE << >>

Triples(p) ==
    CASE p.op = "bgp" -> p.triples
      [] p.op \in {"join", "leftjoin", "minus"} -> Triples(p.left) \o
            (IF p.op = "minus" THEN << >> ELSE Triples(p.right))
      [] p.op \in {"filter", "extend"} -> Triples(p.inner)
      [] OTHER -> << >>

Faithful(q) ==
    LET modifiers == Modifiers(q[2]) m == ConvertQuery("select", q[2]) IN
    /\ q[1] \in {"select", "ask"}
    /\ q[1] = "ask" => modifiers = << >>
    /\ IsInjective(modifiers) /\ "group" \notin Range(modifiers)
    /\ \A p \in Range(Flatten(m.pattern)) :
         /\ Conditioned(p) \/ Chain(p)
         /\ Triples(p) # << >>
         /\ VisibleVars(p) \cap GeneratedNames = {}

(* The part of the data that is edges: triples between IRIs and blank      *)
(* nodes.  Literals became properties and types became labels.             *)
EdgeData == [triples |-> {t \in data : IsEdge(t)},
             kinds |-> [isIri |-> Iris, isBlank |-> Blanks, isLiteral |-> Literals]]

(* A blank node, too, is answered as an IRI: to_term looks for _: in a     *)
(* node's uri, not in a map's.                                             *)
Expected(x, m) ==
    IF x \in DOMAIN m
    THEN ResultCell(args.format, [kind |-> "uri", of |-> m[x]]) ELSE Unbound

(* Within these queries an answer is the solutions SPARQL gives over the   *)
(* data's edges, or, under LIMIT or OFFSET, some of them: whatever the     *)
(* translator drops, moves or regroups, no solution is lost, none is made  *)
(* up, and every term comes back under the variable it was bound to.       *)
(* SELECT is answered through an executor that keeps maps, ASK through     *)
(* either.                                                                 *)
AnswersAreSolutions ==
    phase = "done" /\ reply.status = "ok" /\ Faithful(sparql)
    => LET solutions == Solutions(EdgeData, sparql[2])
           all == {[i \in DOMAIN query.projection |-> Expected(query.projection[i], m)] :
                     m \in solutions}
       IN CASE sparql[1] = "ask" ->
                 reply.rows = {<<[kind |-> "boolean", of |-> solutions # {}]>>}
            [] args.executor = "library" ->
                 /\ reply.rows \subseteq all
                 /\ ~query.limited /\ query.skip = 0 => reply.rows = all
                 /\ query.limited => Cardinality(reply.rows) <= query.limit
                 /\ query.limited /\ query.limit > 0 /\ all # {} => reply.rows # {}
            [] OTHER -> Cardinality(reply.rows) <= Cardinality(all)

(* Without VALUES, BIND and OFFSET these queries are accepted by the       *)
(* database: no clause stands where Cypher does not allow it, and no name  *)
(* is used where it is not defined.  An error then is the database's own.  *)
(* No validator stands in the way of what a pattern can bind.              *)
RECURSIVE Unbinding(_)
Unbinding(p) ==
    CASE p.op \in {"values", "extend"} -> FALSE
      [] p.op \in {"join", "leftjoin", "minus", "union"} ->
           Unbinding(p.left) /\ Unbinding(p.right)
      [] p.op = "bgp" -> TRUE
      [] OTHER -> Unbinding(p.inner)

FaithfulQueriesAreAccepted ==
    /\ phase = "execute" /\ Faithful(sparql) /\ Unbinding(sparql[2])
    /\ ~ (query.limited /\ query.skip > 0)
    /\ sparql[1] = "select" =>
         /\ query.projection # << >>
         /\ \A p \in Range(Flatten(query.pattern)) :
              Range(query.projection) \subseteq VisibleVars(p)
    => Accepted /\ Validates(query)

(* The documented way to list the instances of a class finds a subject of  *)
(* that type.                                                              *)
TypeQuery(x, c) ==
    <<"select", Project(Bgp(<<TriplePattern(Var(x), Iri(RdfType), Iri(c))>>), <<x>>)>>

TypedSubjectsAreFound ==
    \A t \in data :
        /\ phase = "done" /\ reply.status = "ok"
        /\ IsLabel(t) /\ sparql = TypeQuery(<<"s">>, t.o)
        => reply.rows # {}
=============================================================================
