---------------------------- MODULE BasicPatterns ----------------------------
(***************************************************************************)
(* The part of SparqlToCypher that translates basic graph patterns, and    *)
(* OPTIONAL and MINUS of them.                                             *)
(*                                                                         *)
(* acc collects what process_pattern pushes: match and where parts, bound  *)
(* variables, the counter of next_var, and whether it still succeeds.      *)
(***************************************************************************)
EXTENDS CypherRows, SparqlAlgebra

PartsFrom(n) == [match |-> << >>, where |-> << >>, vars |-> {}, n |-> n, ok |-> TRUE]
NoParts == PartsFrom(0)

Pushed(acc, part) == [acc EXCEPT !.match = Append(@, part)]
Constrained(acc, es) == [acc EXCEPT !.where = @ \o es]
Bound(acc, xs) == [acc EXCEPT !.vars = @ \cup xs]

Prop(x, name) == [f |-> "prop", of |-> x, name |-> name]
TextExpr(x) == Leaf("text", x)

GeneratedNames == {"n", "b", "l", "r"} \X Nat

(* Faulty: the counter is not incremented.                                 *)
FreshNameReused(prefix, n) == <<prefix, 0>>

FreshName(prefix, n) == <<prefix, n>>

(* A constant becomes a node of its own with a condition.  A blank node of *)
(* the query is one too: it finds the node of that label, and a literal    *)
(* the nodes with that value.                                              *)
TermToCypher(t, n) ==
    IF t.k = "var" THEN [name |-> t.of, conds |-> << >>, n |-> n]
    ELSE LET x == FreshName(CASE t.k = "iri" -> "n" [] t.k = "blank" -> "b" [] OTHER -> "l", n)
             property == IF t.k = "lit" THEN "value" ELSE "uri"
         IN [name |-> x, n |-> n + 1,
             conds |-> <<Apply("eq", <<Prop(x, property), TextExpr(t.of)>>)>>]

(* A variable predicate puts no constraint and is bound to nothing, but    *)
(* counts as bound.                                                        *)
PredicateToCypher(p) == IF p.k = "var" THEN AnyPredicate ELSE p.of

TripleToCypher(acc, t) ==
    LET s == TermToCypher(t.s, acc.n)
        o == TermToCypher(t.o, s.n)
        pushed == Pushed(acc, Hop(s.name, PredicateToCypher(t.p), o.name))
    IN [Bound(Constrained(pushed, s.conds \o o.conds), TripleVars(t)) EXCEPT !.n = o.n + 1]

BgpToCypher(acc, patterns) == FoldLeft(TripleToCypher, acc, patterns)

(* The right side of OPTIONAL starts without parts; it gives its patterns, *)
(* and the conditions they come with are dropped.                          *)
WithoutParts(acc) == [acc EXCEPT !.match = << >>, !.where = << >>]

WithOptional(acc, right) ==
    LET outer == [right EXCEPT !.match = acc.match, !.where = acc.where]
    IN IF right.match = << >> THEN outer ELSE Pushed(outer, Optional(right.match))

(* MINUS is NOT EXISTS of the right side's patterns without conditions.    *)
WithMinus(acc, right) ==
    LET counted == [acc EXCEPT !.n = right.n, !.ok = right.ok]
    IN IF right.match = << >> THEN counted
       ELSE Constrained(counted,
              <<[f |-> "notExists", parts |-> right.match, where |-> << >>]>>)

(* Nothing to match becomes MATCH (n); the WHERE comes after every clause. *)
Body(acc) ==
    [clauses |-> IF acc.match = << >> THEN <<AnyNode>> ELSE acc.match, where |-> acc.where]
-----------------------------------------------------------------------------
(* The triple patterns this is meant for: constants are IRIs, and no       *)
(* variable has a name that next_var may give.                             *)
IsBasic(t) == /\ {t.s.k, t.o.k} \subseteq {"var", "iri"}
              /\ t.p.k = "iri" /\ t.p.of # AnyPredicate
              /\ TripleVars(t) \cap GeneratedNames = {}

(* Without constants but for the predicate.                                *)
IsBare(t) == IsBasic(t) /\ t.s.k = "var" /\ t.o.k = "var"

BasicQuery(patterns) == Body(BgpToCypher(NoParts, patterns))

OptionalQuery(patterns, optional) ==
    LET left == BgpToCypher(NoParts, patterns)
    IN Body(WithOptional(left, BgpToCypher(WithoutParts(left), optional)))

MinusQuery(patterns, removed) ==
    LET left == BgpToCypher(NoParts, patterns)
    IN Body(WithMinus(left, BgpToCypher(PartsFrom(left.n), removed)))

(* What these queries find, and whether they may stand as they are, to the *)
(* depth of the conditions they have.                                      *)
ShallowValue(g, e, row) ==
    ValueIn(g, e, row, LAMBDA f, r : ValueIn(g, f, r, LAMBDA h, s : Broken))

ShallowOk(e, scope) ==
    ExprOkIn(e, scope, LAMBDA f, inner : ExprOkIn(f, inner, LAMBDA h, s : FALSE))

Allowed(query) == BodyOkBy(query, LAMBDA e, scope : ShallowOk(e, scope))

(* What a row shows of the variables: those that are no null.              *)
Shown(row, xs) == [x \in {y \in xs : row[y] # Null} |-> row[x].of]

Found(g, query, xs) ==
    {Shown(row, xs) : row \in BodyRowsBy(g, query, LAMBDA e, r : ShallowValue(g, e, r))}
=============================================================================
