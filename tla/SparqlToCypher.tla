--------------------------- MODULE SparqlToCypher ---------------------------
(***************************************************************************)
(* SparqlParser's conversion of a query and SparqlToCypher, which          *)
(* translates it.  Text is abstracted to the clauses and expressions of    *)
(* CypherRows; everything the translator drops, refuses or puts elsewhere  *)
(* is kept.  BasicPatterns has triple patterns, OPTIONAL and MINUS.        *)
(***************************************************************************)
EXTENDS BasicPatterns

(* The modifiers of a SELECT are peeled off its pattern one after another: *)
(* those of a sub-select that is the whole pattern replace the outer ones. *)
(* Aggregates are dropped, and no HAVING is ever found.                    *)
RECURSIVE ExtractModifiers(_, _)
ExtractModifiers(p, m) ==
    CASE p.op = "project" -> ExtractModifiers(p.inner, [m EXCEPT !.projection = p.vars])
      [] p.op = "distinct" -> ExtractModifiers(p.inner, [m EXCEPT !.distinct = TRUE])
      [] p.op = "reduced" -> ExtractModifiers(p.inner, [m EXCEPT !.reduced = TRUE])
      [] p.op = "orderby" -> ExtractModifiers(p.inner, [m EXCEPT !.order = p.exprs])
      [] p.op = "slice" ->
           ExtractModifiers(p.inner,
               [m EXCEPT !.skip = IF p.start > 0 THEN p.start ELSE @,
                         !.limited = p.length # Unlimited,
                         !.limit = IF p.length # Unlimited THEN p.length[1] ELSE 0])
      [] p.op = "group" -> ExtractModifiers(p.inner, [m EXCEPT !.grouped = TRUE])
      [] OTHER -> [m EXCEPT !.pattern = p]

NoModifiers(p) ==
    [form |-> "select", projection |-> << >>, distinct |-> FALSE, reduced |-> FALSE,
     order |-> << >>, limited |-> FALSE, limit |-> 0, skip |-> 0,
     grouped |-> FALSE, pattern |-> p]

(* Only a SELECT has its modifiers taken off.                              *)
ConvertQuery(form, p) ==
    IF form = "select" THEN ExtractModifiers(p, NoModifiers(p))
    ELSE [NoModifiers(p) EXCEPT !.form = form]

(* The variables anywhere in a pattern, in what MINUS takes away and below *)
(* a sub-select too.  (Not below a depth of 128, which no pattern of an    *)
(* instance comes near.)                                                   *)
RECURSIVE ExtractVariables(_)
ExtractVariables(p) ==
    CASE p.op = "bgp" -> UNION {TripleVars(t) : t \in Range(p.triples)}
      [] p.op = "path" -> TermVars(p.s) \cup TermVars(p.o)
      [] p.op \in {"join", "leftjoin", "minus", "union"} ->
           ExtractVariables(p.left) \cup ExtractVariables(p.right)
      [] p.op = "values" -> Range(p.vars)
      [] p.op = "extend" -> ExtractVariables(p.inner) \cup {p.var}
      [] p.op \in {"group", "project"} -> ExtractVariables(p.inner) \cup Range(p.vars)
      [] OTHER -> ExtractVariables(p.inner)

(* The validator, which a user of the library can turn on: a SELECT may    *)
(* project what its pattern mentions.                                      *)
Validates(m) ==
    m.form = "select" => Range(m.projection) \subseteq ExtractVariables(m.pattern)
-----------------------------------------------------------------------------
(* Expressions.  out says whether there is a translation (some), none, or  *)
(* an error that translate_expression passes on.                           *)

Some(e, n) == [out |-> "some", e |-> e, n |-> n]
None(n) == [out |-> "none", e |-> TextExpr("none"), n |-> n]

(* Untranslatable when one of their arguments is.                          *)
Strict == {"eq", "sameTerm", "less", "greater", "lessOrEqual", "greaterOrEqual", "or",
           "not", "if", "add", "subtract", "multiply", "divide", "minus"}

(* Functions leave untranslatable arguments out, and need this many.       *)
Functions1 == {"str", "strlen", "ucase", "lcase", "lang", "datatype", "isIri", "isBlank",
               "isLiteral", "isNumeric", "abs", "ceil", "floor", "round", "concat", "coalesce"}
Functions2 == {"contains", "strStarts", "strEnds", "regex", "substr"}

Enough(f, args) ==
    \/ f \in Functions1 /\ Len(args) >= 1
    \/ f \in Functions2 /\ Len(args) >= 2
    \/ f = "replace" /\ Len(args) = 3

(* SAMETERM is =, and the functions of one argument ignore the others.     *)
CypherCall(f, args) ==
    CASE f = "sameTerm" -> Apply("eq", args)
      [] f \in Functions1 \ {"concat", "coalesce"} -> Apply(f, <<args[1]>>)
      [] OTHER -> Apply(f, args)

RECURSIVE TranslateExpression(_, _), Process(_, _)

(* The translations of a sequence, the counter going from one to the next. *)
TranslateAll(es, n) ==
    FoldLeft(LAMBDA rs, e :
               Append(rs, TranslateExpression(e, IF rs = << >> THEN n ELSE Last(rs).n)),
             << >>, es)

Outs(rs) == {rs[i].out : i \in DOMAIN rs}
Expressions(rs) == [i \in DOMAIN rs |-> rs[i].e]
Translated(rs) ==
    LET some == SelectSeq(rs, LAMBDA r : r.out = "some") IN Expressions(some)
LastCount(rs, n) == IF rs = << >> THEN n ELSE Last(rs).n

(* A pattern in EXISTS is a MATCH with its own WHERE.                      *)
TranslateExists(p, n) ==
    LET acc == Process(p, PartsFrom(n)) IN
    IF ~acc.ok THEN [None(acc.n) EXCEPT !.out = "error"]
    ELSE IF acc.match = << >> THEN None(acc.n)
    ELSE Some([f |-> "exists", parts |-> acc.match, where |-> acc.where], acc.n)

(* && keeps the side it can translate.  IN leaves out list members without *)
(* a translation.                                                          *)
TranslateExpression(e, n) ==
    CASE e.f \in {"iri", "lit"} -> Some(TextExpr(e.of), n)
      [] e.f \in {"var", "bound"} -> Some(e, n)
      [] e.f = "exists" -> TranslateExists(e.pattern, n)
      [] OTHER ->
           LET rs == TranslateAll(e.args, n)
               es == Translated(rs)
               m == LastCount(rs, n)
               strict == e.f \in Strict \cup {"and", "plus"}
           IN CASE strict /\ "error" \in Outs(rs) -> [None(m) EXCEPT !.out = "error"]
                [] e.f = "in" /\ rs[1].out # "some" -> rs[1]
                [] e.f = "in" -> IF Len(es) > 1 THEN Some(Apply("in", es), m) ELSE None(m)
                [] e.f = "plus" -> rs[1]
                [] e.f = "and" /\ Len(es) = 1 -> Some(es[1], m)
                [] e.f \in Strict \cup {"and"} ->
                     IF Len(es) = Len(e.args) THEN Some(CypherCall(e.f, es), m) ELSE None(m)
                [] OTHER ->
                     IF Enough(e.f, es) THEN Some(CypherCall(e.f, es), m) ELSE None(m)
-----------------------------------------------------------------------------
(* Patterns: process_pattern. *)

Failed(acc) == [acc EXCEPT !.ok = FALSE]

(* A condition without a translation is left out.                          *)
FilterBy(acc, e) ==
    LET r == TranslateExpression(e, acc.n) IN
    CASE r.out = "error" -> Failed(acc)
      [] r.out = "none" -> [acc EXCEPT !.n = r.n]
      [] OTHER -> [Constrained(acc, <<r.e>>) EXCEPT !.n = r.n]

(* Faulty: the right side's patterns are added to those before it.         *)
ProcessOptionalKeepsParts(acc, p) ==
    LET right == Process(p.right, acc)
    IN Pushed([right EXCEPT !.where = acc.where], Optional(right.match))

ProcessOptional(acc, p) ==
    LET right == Process(p.right, WithoutParts(acc))
    IN FoldLeft(LAMBDA a, e : IF a.ok THEN FilterBy(a, e) ELSE a,
                WithOptional(acc, right), p.exprs)

ProcessExtend(acc, p) ==
    LET r == TranslateExpression(p.expr, acc.n) IN
    IF r.out # "some" THEN Failed(acc)
    ELSE [Bound(Pushed(acc, With(acc.match # << >>, p.var, r.e)), {p.var}) EXCEPT !.n = r.n]

(* One variable is compared with a list, as IRIs if all of it are IRIs;    *)
(* several with the columns of unwound rows, each by its first value.      *)
(* UNDEF leaves the list or the row without an entry.                      *)
PropertyFor(terms) ==
    IF \A i \in DOMAIN terms : terms[i].k = "iri" THEN "uri" ELSE "value"

ProcessValues(acc, p) ==
    LET column(i) == SelectSeq([j \in DOMAIN p.rows |-> p.rows[j][i]],
                               LAMBDA v : v # Undef)
        first(i) == SubSeq(column(i), 1, 1)
        texts == [i \in DOMAIN column(1) |-> TextExpr(column(1)[i].of)]
        rowOf(j) == [x \in {p.vars[i] : i \in {k \in DOMAIN p.vars : p.rows[j][k] # Undef}} |->
                       p.rows[j][CHOOSE i \in DOMAIN p.vars : p.vars[i] = x].of]
        propertyOf(i) == IF first(i) = << >> THEN "value" ELSE PropertyFor(first(i))
        bound == Bound(acc, Range(p.vars))
    IN CASE Len(p.vars) = 1 /\ p.rows # << >> ->
              IF column(1) = << >> THEN bound
              ELSE Constrained(bound,
                     <<Apply("in", <<Prop(p.vars[1], PropertyFor(column(1)))>> \o texts)>>)
         [] Len(p.vars) > 1 /\ p.rows # << >> ->
              Constrained(Pushed(bound, Unwind([j \in DOMAIN p.rows |-> rowOf(j)])),
                [i \in DOMAIN p.vars |->
                   Apply("eq", <<Prop(p.vars[i], propertyOf(i)),
                                 Leaf("column", p.vars[i])>>)])
         [] OTHER -> bound

(* Any path of any predicates, whatever the query's path is.               *)
ProcessPath(acc, p) ==
    LET s == TermToCypher(p.s, acc.n)
        o == TermToCypher(p.o, s.n)
        pushed == Pushed(acc, Hops(s.name, o.name))
    IN [Bound(Constrained(pushed, s.conds \o o.conds), TermVars(p.s) \cup TermVars(p.o))
          EXCEPT !.n = o.n]

ProcessMinus(acc, p) ==
    LET left == Process(p.left, acc)
        right == Process(p.right, [PartsFrom(left.n) EXCEPT !.ok = left.ok])
    IN WithMinus(left, right)

(* Graph names, and the modifiers and groups of a sub-select, are ignored; *)
(* a sub-select's variables are not hidden.                                *)
Process(p, acc) ==
    IF ~acc.ok THEN acc
    ELSE CASE p.op = "bgp" -> BgpToCypher(acc, p.triples)
           [] p.op = "join" -> Process(p.right, Process(p.left, acc))
           [] p.op = "leftjoin" ->
                LET left == Process(p.left, acc)
                IN IF left.ok THEN ProcessOptional(left, p) ELSE left
           [] p.op = "filter" ->
                LET inner == Process(p.inner, acc)
                IN IF inner.ok THEN FilterBy(inner, p.expr) ELSE inner
           [] p.op = "extend" ->
                LET inner == Process(p.inner, acc)
                IN IF inner.ok THEN ProcessExtend(inner, p) ELSE inner
           [] p.op = "values" -> ProcessValues(acc, p)
           [] p.op = "path" -> ProcessPath(acc, p)
           [] p.op = "minus" -> ProcessMinus(acc, p)
           [] p.op = "project" -> Bound(Process(p.inner, acc), Range(p.vars))
           [] p.op \in {"union", "service"} -> Failed(acc)
           [] OTHER -> Process(p.inner, acc)
-----------------------------------------------------------------------------
(* Queries. *)

RECURSIVE Flatten(_)
Flatten(p) == IF p.op = "union" THEN Flatten(p.left) \o Flatten(p.right) ELSE <<p>>

(* ORDER BY leaves out keys without a translation.                         *)
OrderKeys(es, n) == Translated(TranslateAll(es, n))

Refused == [ok |-> FALSE, bodies |-> << >>, return |-> << >>, distinct |-> FALSE,
            order |-> << >>, limited |-> FALSE, limit |-> 0, skip |-> 0, ask |-> FALSE]

(* Every branch of a UNION that is the whole pattern is a query of its     *)
(* own; the branches return the same columns.                              *)
BranchesOf(m) ==
    FoldLeft(LAMBDA accs, p :
               Append(accs, Process(p, PartsFrom(IF accs = << >> THEN 0 ELSE Last(accs).n))),
             << >>, Flatten(m.pattern))

TranslateSelect(m) ==
    LET branches == BranchesOf(m) IN
    IF \E i \in DOMAIN branches : ~branches[i].ok THEN Refused
    ELSE [ok |-> TRUE, bodies |-> [i \in DOMAIN branches |-> Body(branches[i])],
          return |-> m.projection, distinct |-> m.distinct,
          order |-> OrderKeys(m.order, Last(branches).n),
          limited |-> m.limited, limit |-> m.limit, skip |-> m.skip, ask |-> FALSE]

TranslateAsk(p) ==
    LET acc == Process(p, NoParts) IN
    IF ~acc.ok THEN Refused
    ELSE [Refused EXCEPT !.ok = TRUE, !.bodies = <<Body(acc)>>, !.ask = TRUE]

(* CONSTRUCT and DESCRIBE are not translated.                              *)
Translate(m) ==
    CASE m.form = "select" -> TranslateSelect(m)
      [] m.form = "ask" -> TranslateAsk(m.pattern)
      [] OTHER -> Refused
=============================================================================
