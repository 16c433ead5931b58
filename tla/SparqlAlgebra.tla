---------------------------- MODULE SparqlAlgebra ----------------------------
(***************************************************************************)
(* What a SPARQL query means over a set of triples: the algebra that       *)
(* spargebra hands to the translator and its solutions as the SPARQL 1.1   *)
(* recommendation defines them.  It is the reference for SparqlToCypher    *)
(* and models no code.                                                     *)
(*                                                                         *)
(* A name is a sequence, <<"s">> for ?s and <<"n", 0>> for ?n_0.  A        *)
(* solution is a function from names to terms.                             *)
(***************************************************************************)
EXTENDS Naturals, Sequences, FiniteSets, SequencesExt, Functions

Var(x) == [k |-> "var", of |-> x]
Iri(i) == [k |-> "iri", of |-> i]
Blank(b) == [k |-> "blank", of |-> b]
Lit(l) == [k |-> "lit", of |-> l]

TriplePattern(s, p, o) == [s |-> s, p |-> p, o |-> o]

Bgp(triples) == [op |-> "bgp", triples |-> triples]
Join(l, r) == [op |-> "join", left |-> l, right |-> r]
LeftJoin(l, r, es) == [op |-> "leftjoin", left |-> l, right |-> r, exprs |-> es]
Filter(p, e) == [op |-> "filter", inner |-> p, expr |-> e]
Alternative(l, r) == [op |-> "union", left |-> l, right |-> r]
Extend(p, x, e) == [op |-> "extend", inner |-> p, var |-> x, expr |-> e]
Minus(l, r) == [op |-> "minus", left |-> l, right |-> r]
Values(xs, rows) == [op |-> "values", vars |-> xs, rows |-> rows]
Path(s, o) == [op |-> "path", s |-> s, o |-> o]
Service(p) == [op |-> "service", inner |-> p]
Wrap(op, p) == [op |-> op, inner |-> p]   \* graph, distinct, reduced
OrderBy(p, es) == [op |-> "orderby", inner |-> p, exprs |-> es]
Group(p, xs) == [op |-> "group", inner |-> p, vars |-> xs]
Project(p, xs) == [op |-> "project", inner |-> p, vars |-> xs]
Slice(p, start, length) ==
    [op |-> "slice", inner |-> p, start |-> start, length |-> length]

Unlimited == << >>   \* a Slice without a length; one of n has <<n>>
Undef == [k |-> "undef", of |-> "undef"]   \* UNDEF in a row of VALUES

Apply(f, args) == [f |-> f, args |-> args]
Leaf(f, x) == [f |-> f, of |-> x]          \* var, iri, lit and bound
Exists(p) == [f |-> "exists", pattern |-> p]

TermVars(t) == IF t.k = "var" THEN {t.of} ELSE {}
TripleVars(t) == TermVars(t.s) \cup TermVars(t.p) \cup TermVars(t.o)
-----------------------------------------------------------------------------
(* Sets of solutions. *)

Compatible(m, n) == \A x \in DOMAIN m \cap DOMAIN n : m[x] = n[x]
Merge(m, n) == [x \in DOMAIN m \cup DOMAIN n |-> IF x \in DOMAIN m THEN m[x] ELSE n[x]]

JoinOf(M, N) ==
    {Merge(mn[1], mn[2]) : mn \in {mn \in M \X N : Compatible(mn[1], mn[2])}}

(* Those of M, each with what of N goes with it and is wanted.              *)
LeftJoinOf(M, N, wanted(_)) ==
    LET extended(m) == {n \in JoinOf({m}, N) : wanted(n)}
    IN UNION {IF extended(m) = {} THEN {m} ELSE extended(m) : m \in M}

(* Those of M that share no part with one of N.                            *)
MinusOf(M, N) ==
    {m \in M : ~ \E n \in N : DOMAIN m \cap DOMAIN n # {} /\ Compatible(m, n)}

(* The solutions of one triple pattern.  A blank node in a pattern is a    *)
(* variable that is not shown; <<"_", b>> is its name here.                *)
NameOf(t) == IF t.k = "blank" THEN <<"_", t.of>> ELSE t.of

TripleSolutions(triples, pat) ==
    LET slots == <<pat.s, pat.p, pat.o>>
        free == {i \in 1 .. 3 : slots[i].k \in {"var", "blank"}}
        value(t) == <<t.s, t.p, t.o>>
        fits(t) == /\ \A i \in (1 .. 3) \ free : value(t)[i] = slots[i].of
                   /\ \A i, j \in free : NameOf(slots[i]) = NameOf(slots[j])
                                         => value(t)[i] = value(t)[j]
    IN {[x \in {NameOf(slots[i]) : i \in free} |->
            value(t)[CHOOSE i \in free : NameOf(slots[i]) = x]] :
          t \in {u \in triples : fits(u)}}

BgpSolutions(triples, patterns) ==
    FoldLeft(LAMBDA ms, t : JoinOf(ms, TripleSolutions(triples, t)), {<< >>}, patterns)
=============================================================================
