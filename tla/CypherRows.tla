----------------------------- MODULE CypherRows -----------------------------
(***************************************************************************)
(* The database's side of RDF.QUERY: what FalkorDB makes of the Cypher the *)
(* translator writes.  It is external code and modelled after openCypher,  *)
(* for the clauses and functions that SparqlToCypher uses, with rows as    *)
(* sets and without relationship uniqueness.                               *)
(*                                                                         *)
(* A query is a sequence of clauses, the conditions of the WHERE that ends *)
(* it, what it returns, and LIMIT and SKIP in the order they are written.  *)
(* A row is a function from names to values; expressions have the shape of *)
(* SparqlAlgebra's.                                                        *)
(***************************************************************************)
EXTENDS GraphMapping, Functions, Relation

CONSTANT Nothing   \* what a null is the value of

Node(t) == [t |-> "node", of |-> t]
Text(x) == [t |-> "text", of |-> x]
Bool(b) == [t |-> "bool", of |-> b]
Null == [t |-> "null", of |-> Nothing]
Broken == [t |-> "broken", of |-> Nothing]   \* a type mismatch ends the query

AnyPredicate == "any"

Hop(s, p, o) == [part |-> "hop", s |-> s, p |-> p, o |-> o]
Hops(s, o) == [part |-> "hops", s |-> s, o |-> o]          \* -[*]->
Optional(parts) == [part |-> "optional", parts |-> parts]
With(carried, x, e) == [part |-> "with", carried |-> carried, as |-> x, expr |-> e]
Unwind(rows) == [part |-> "unwind", rows |-> rows]
AnyNode == [part |-> "node"]                               \* MATCH (n)
ValuesName == <<"_values">>

Put(row, x, v) == [y \in DOMAIN row \cup {x} |-> IF y = x THEN v ELSE row[y]]
-----------------------------------------------------------------------------
(* The rows that extend a row by one pattern.  A name that is bound stays; *)
(* a null is no node.                                                      *)
Paths(g) ==
    TransitiveClosure([x, y \in g.nodes |-> \E e \in g.edges : e[1] = x /\ e[3] = y],
                      g.nodes)

Ends(g, part) ==
    IF part.part = "hop"
    THEN {<<e[1], e[3]>> : e \in {d \in g.edges : part.p \in {AnyPredicate, d[2]}}}
    ELSE {st \in g.nodes \X g.nodes : Paths(g)[st[1], st[2]]}

ExtendRow(g, row, part) ==
    LET fits(x, v) == x \in DOMAIN row => row[x] = Node(v) IN
    {Put(Put(row, part.s, Node(st[1])), part.o, Node(st[2])) :
       st \in {uv \in Ends(g, part) : /\ fits(part.s, uv[1]) /\ fits(part.o, uv[2])
                                      /\ part.s = part.o => uv[1] = uv[2]}}

MatchRows(g, row, parts) ==
    FoldLeft(LAMBDA rows, part : UNION {ExtendRow(g, r, part) : r \in rows},
             {row}, parts)

NamesOf(part) ==
    CASE part.part \in {"hop", "hops"} -> {part.s, part.o}
      [] part.part = "optional" ->
           UNION {{h.s, h.o} : h \in {q \in Range(part.parts) : q.part \in {"hop", "hops"}}}
      [] part.part = "with" -> {part.as}
      [] part.part = "unwind" -> {ValuesName}
      [] OTHER -> {}

(* Patterns are all that may stand after OPTIONAL MATCH or inside EXISTS.  *)
OnlyPatterns(parts) == \A i \in DOMAIN parts : parts[i].part \in {"hop", "hops"}
-----------------------------------------------------------------------------
Known(v) == v.t \notin {"null", "broken"}

(* A node's properties that RDF.INSERT sets for itself; a literal of the   *)
(* data never has one of these names (ReservedNamesAssumption).            *)
PropertyOf(v, name) ==
    CASE v.t = "node" /\ name = "uri" -> Text(v.of)
      [] v.t = "node" /\ name = "isBlank" -> Bool(v.of \in Blanks)
      [] v.t = "null" \/ (v.t = "node" /\ name \notin {"uri", "isBlank"}) -> Null
      [] OTHER -> Broken

Both(a, b, of) == IF "broken" \in {a.t, b.t} THEN Broken
                  ELSE IF "null" \in {a.t, b.t} THEN Null ELSE Bool(of)

Equals(a, b) == Both(a, b, a = b)

Negation(a) == IF a.t = "bool" THEN Bool(~a.of) ELSE IF a.t = "null" THEN Null ELSE Broken

Conjunction(a, b) ==
    IF {a.t, b.t} \subseteq {"bool", "null"}
    THEN IF Bool(FALSE) \in {a, b} THEN Bool(FALSE)
         ELSE IF Null \in {a, b} THEN Null ELSE Bool(TRUE)
    ELSE Broken

Disjunction(a, b) == Negation(Conjunction(Negation(a), Negation(b)))

(* What an expression is worth in a row, value giving that of the          *)
(* expressions in it.  EXISTS { MATCH ... WHERE ... } stands within a row.  *)
ValueIn(g, e, row, value(_, _)) ==
    LET arg(i) == value(e.args[i], row) IN
    CASE e.f = "var" -> row[e.of]
      [] e.f = "text" -> Text(e.of)
      [] e.f = "bound" -> Bool(row[e.of] # Null)
      [] e.f = "prop" -> PropertyOf(row[e.of], e.name)
      [] e.f = "column" ->
           IF e.of \in DOMAIN row[ValuesName].of
           THEN Text(row[ValuesName].of[e.of]) ELSE Null
      [] e.f = "eq" -> Equals(arg(1), arg(2))
      [] e.f = "in" ->
           FoldLeft(LAMBDA held, r : Disjunction(held, Equals(arg(1), value(r, row))),
                    Bool(FALSE), Tail(e.args))
      [] e.f = "and" -> Conjunction(arg(1), arg(2))
      [] e.f = "or" -> Disjunction(arg(1), arg(2))
      [] e.f = "not" -> Negation(arg(1))
      [] e.f = "isIri" ->
           Conjunction(Bool(Known(PropertyOf(arg(1), "uri"))),
                       Bool(PropertyOf(arg(1), "isBlank") # Bool(TRUE)))
      [] e.f = "isBlank" ->
           Conjunction(Bool(Known(PropertyOf(arg(1), "uri"))),
                       Equals(PropertyOf(arg(1), "isBlank"), Bool(TRUE)))
      [] e.f = "isLiteral" -> Bool(Known(PropertyOf(arg(1), "value")))
      [] e.f = "if" -> IF arg(1) = Bool(TRUE) THEN arg(2) ELSE arg(3)
      [] e.f = "coalesce" ->
           LET ks == {i \in DOMAIN e.args : arg(i) # Null} IN
           IF ks = {} THEN Null ELSE arg(CHOOSE i \in ks : \A j \in ks : i <= j)
      [] e.f \in {"exists", "notExists"} ->
           Bool((e.f = "exists") = \E r \in MatchRows(g, row, e.parts) :
                  \A i \in DOMAIN e.where : value(e.where[i], r) = Bool(TRUE))
      [] e.f \in {"less", "greater", "lessOrEqual", "greaterOrEqual"} ->
           Both(arg(1), arg(2), FALSE)
      [] OTHER -> Broken   \* a function of strings or numbers, given a node

(* Every name an expression uses is defined where it stands, ok saying so  *)
(* of the expressions in it.                                               *)
ExprOkIn(e, scope, ok(_, _)) ==
    CASE e.f \in {"var", "bound", "prop"} -> e.of \in scope
      [] e.f = "column" -> ValuesName \in scope
      [] e.f = "text" -> TRUE
      [] e.f \in {"exists", "notExists"} ->
           /\ OnlyPatterns(e.parts)
           /\ LET inner == scope \cup UNION {NamesOf(q) : q \in Range(e.parts)}
              IN \A i \in DOMAIN e.where : ok(e.where[i], inner)
      [] OTHER -> \A i \in DOMAIN e.args : ok(e.args[i], scope)
-----------------------------------------------------------------------------
(* One clause after another: the names in scope after it, and its rows.    *)

ScopeAfter(clauses, n) ==
    UNION {NamesOf(clauses[i]) : i \in 1 .. n}

ClauseOk(clauses, i, ok(_, _)) ==
    LET c == clauses[i] scope == ScopeAfter(clauses, i - 1) IN
    CASE c.part = "optional" -> OnlyPatterns(c.parts)
      [] c.part = "with" -> ok(c.expr, scope) /\ c.as \notin scope
                            /\ (i > 1 => c.carried)
      [] c.part = "unwind" -> ValuesName \notin scope
      \* MATCH after OPTIONAL MATCH has to be introduced by WITH
      [] OTHER -> i > 1 => clauses[i - 1].part # "optional"

RowsOfValues(c) ==
    {[t |-> "map", of |-> row] : row \in Range(c.rows)}

RowsAfter(g, rows, c, where, value(_, _)) ==
    LET kept(r) == \A i \in DOMAIN where : value(where[i], r) = Bool(TRUE) IN
    CASE c.part = "optional" ->
           UNION {LET more == {s \in MatchRows(g, r, c.parts) : kept(s)}
                      blank == [x \in DOMAIN r \cup NamesOf(c) |->
                                  IF x \in DOMAIN r THEN r[x] ELSE Null]
                  IN IF more = {} THEN {blank} ELSE more : r \in rows}
      [] c.part = "with" -> {s \in {Put(r, c.as, value(c.expr, r)) : r \in rows} : kept(s)}
      [] c.part = "unwind" -> {Put(r, ValuesName, m) : r \in rows, m \in RowsOfValues(c)}
      [] c.part = "node" -> {r \in rows : g.nodes # {}}
      [] OTHER -> {s \in UNION {ExtendRow(g, r, c) : r \in rows} : kept(s)}

(* The WHERE belongs to the last clause, and UNWIND has none.              *)
BodyOkBy(b, ok(_, _)) ==
    /\ \A i \in DOMAIN b.clauses : ClauseOk(b.clauses, i, ok)
    /\ b.where # << >> => Last(b.clauses).part # "unwind"
    /\ \A i \in DOMAIN b.where :
         ok(b.where[i], ScopeAfter(b.clauses, Len(b.clauses)))

BodyRowsBy(g, b, value(_, _)) ==
    FoldLeft(LAMBDA rows, i :
               RowsAfter(g, rows, b.clauses[i],
                         IF i = Len(b.clauses) THEN b.where ELSE << >>, value),
             {<< >>}, [i \in DOMAIN b.clauses |-> i])
=============================================================================
