-------------------------- MODULE QueryEvaluation ---------------------------
(***************************************************************************)
(* What a whole query means to SPARQL, over a set of triples, and what its *)
(* translation makes FalkorDB answer, over a graph: SparqlAlgebra and      *)
(* CypherRows for patterns in patterns and expressions in expressions.     *)
(***************************************************************************)
EXTENDS SparqlToCypher

(* Effective values: an expression that fails is neither true nor false.   *)
Truth(b) == IF b THEN "true" ELSE "false"
AndOf(a, b) == IF "false" \in {a, b} THEN "false"
               ELSE IF "error" \in {a, b} THEN "error" ELSE "true"
NotOf(a) == IF a = "error" THEN a ELSE Truth(a = "false")
OrOf(a, b) == NotOf(AndOf(NotOf(a), NotOf(b)))

RECURSIVE Solutions(_, _), Holds(_, _, _)

(* The terms an expression that is not a condition may stand for.          *)
TermsOf(e, m) ==
    IF e.f = "var" THEN (IF e.of \in DOMAIN m THEN {m[e.of]} ELSE {})
    ELSE {e.of}

(* A condition of the forms the reference needs; g.kinds says what kind of *)
(* term a term is.                                                         *)
Holds(g, e, m) ==
    CASE e.f \in {"eq", "sameTerm"} ->
           LET l == TermsOf(e.args[1], m) r == TermsOf(e.args[2], m) IN
           IF {} \in {l, r} THEN "error" ELSE Truth(l = r)
      [] e.f = "in" ->
           FoldLeft(LAMBDA held, r : OrOf(held, Holds(g, Apply("eq", <<e.args[1], r>>), m)),
                    "false", Tail(e.args))
      [] e.f = "and" -> AndOf(Holds(g, e.args[1], m), Holds(g, e.args[2], m))
      [] e.f = "or" -> OrOf(Holds(g, e.args[1], m), Holds(g, e.args[2], m))
      [] e.f = "not" -> NotOf(Holds(g, e.args[1], m))
      [] e.f = "bound" -> Truth(e.of \in DOMAIN m)
      [] e.f \in {"isIri", "isBlank", "isLiteral"} ->
           LET ts == TermsOf(e.args[1], m) IN
           IF ts = {} THEN "error" ELSE Truth(ts \subseteq g.kinds[e.f])
      [] e.f = "exists" ->
           Truth(\E n \in Solutions(g, e.pattern) : Compatible(m, n))
      [] OTHER -> "error"

(* A graph g is its triples and which terms are IRIs, blank or literals.   *)
Solutions(g, p) ==
    CASE p.op = "bgp" -> BgpSolutions(g.triples, p.triples)
      [] p.op = "join" -> JoinOf(Solutions(g, p.left), Solutions(g, p.right))
      [] p.op = "leftjoin" ->
           LeftJoinOf(Solutions(g, p.left), Solutions(g, p.right),
                      LAMBDA n : \A i \in DOMAIN p.exprs :
                                   Holds(g, p.exprs[i], n) = "true")
      [] p.op = "filter" ->
           {m \in Solutions(g, p.inner) : Holds(g, p.expr, m) = "true"}
      [] p.op = "union" -> Solutions(g, p.left) \cup Solutions(g, p.right)
      [] p.op = "extend" ->
           {LET ts == TermsOf(p.expr, m)
            IN Merge(m, [x \in {y \in {p.var} : ts # {}} |-> CHOOSE t \in ts : TRUE]) :
              m \in Solutions(g, p.inner)}
      [] p.op = "minus" -> MinusOf(Solutions(g, p.left), Solutions(g, p.right))
      [] p.op = "values" ->
           {LET xs == {x \in Range(p.vars) : \E i \in DOMAIN p.vars :
                                                p.vars[i] = x /\ row[i] # Undef}
            IN [x \in xs |-> row[CHOOSE i \in DOMAIN p.vars : p.vars[i] = x].of] :
              row \in Range(p.rows)}
      [] p.op = "project" ->
           {Restrict(m, DOMAIN m \cap Range(p.vars)) : m \in Solutions(g, p.inner)}
      [] OTHER -> Solutions(g, p.inner)

(* What SELECT * shows of a pattern.                                       *)
RECURSIVE VisibleVars(_)
VisibleVars(p) ==
    CASE p.op = "bgp" -> UNION {TripleVars(t) : t \in Range(p.triples)}
      [] p.op = "path" -> TermVars(p.s) \cup TermVars(p.o)
      [] p.op \in {"join", "leftjoin", "union"} ->
           VisibleVars(p.left) \cup VisibleVars(p.right)
      [] p.op = "minus" -> VisibleVars(p.left)
      [] p.op = "values" -> Range(p.vars)
      [] p.op = "extend" -> VisibleVars(p.inner) \cup {p.var}
      [] p.op \in {"project", "group"} -> Range(p.vars)
      [] OTHER -> VisibleVars(p.inner)
-----------------------------------------------------------------------------
(* The database's side. *)

RECURSIVE Value(_, _, _), ExprOk(_, _)

Value(g, e, row) == ValueIn(g, e, row, LAMBDA f, r : Value(g, f, r))
ExprOk(e, scope) == ExprOkIn(e, scope, LAMBDA f, inner : ExprOk(f, inner))

BodyOk(b) == BodyOkBy(b, LAMBDA e, scope : ExprOk(e, scope))
BodyRows(g, b) == BodyRowsBy(g, b, LAMBDA e, r : Value(g, e, r))

(* CASE WHEN x IS NOT NULL THEN {uri: x.uri, value: x.value} ELSE null     *)
MapOf(v) ==
    IF v = Null THEN Null
    ELSE IF v.t = "node" THEN [t |-> "map", of |-> v.of] ELSE Broken

QueryOk(q) ==
    /\ \A i \in DOMAIN q.bodies :
         /\ BodyOk(q.bodies[i])
         /\ Range(q.return) \subseteq
              ScopeAfter(q.bodies[i].clauses, Len(q.bodies[i].clauses))
    /\ q.ask \/ q.return # << >>
    \* LIMIT comes after SKIP, never before it
    /\ ~ (q.limited /\ q.skip > 0)
    /\ \A i \in DOMAIN q.order :
         ExprOk(q.order[i], Range(q.return) \cup
            (IF q.distinct \/ Len(q.bodies) > 1 THEN {}
             ELSE ScopeAfter(q.bodies[1].clauses, Len(q.bodies[1].clauses))))

(* Is a row's condition or column one that the database cannot compute?    *)
Breaks(g, q) ==
    \E b \in Range(q.bodies) :
        LET n == Len(b.clauses)
            before == BodyRows(g, [b EXCEPT !.where = << >>])
        IN \/ \E r \in before, i \in DOMAIN b.where : Value(g, b.where[i], r) = Broken
           \/ \E r \in BodyRows(g, b), x \in Range(q.return) : MapOf(r[x]) = Broken

ResultRows(g, q) ==
    UNION {{[i \in DOMAIN q.return |-> MapOf(r[q.return[i]])] : r \in BodyRows(g, b)} :
             b \in Range(q.bodies)}

(* The rows the database may answer with: some of them, when there is a    *)
(* LIMIT or a SKIP.                                                        *)
Answers(g, q) ==
    LET all == ResultRows(g, q) IN
    IF q.ask THEN {{<<Bool(BodyRows(g, q.bodies[1]) # {})>>}}
    ELSE {rows \in SUBSET all :
            /\ q.limited => Cardinality(rows) <= q.limit
            /\ q.skip = 0 /\ ~q.limited => rows = all
            /\ q.skip = 0 /\ q.limited /\ q.limit > 0 /\ all # {} => rows # {}
            /\ q.skip > 0 => Cardinality(all) <= Cardinality(rows) + q.skip}
=============================================================================
