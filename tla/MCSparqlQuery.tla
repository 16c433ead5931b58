---------------------------- MODULE MCSparqlQuery ----------------------------
(* SparqlQuery over three nodes, two predicates and a class, and the       *)
(* queries made of a few patterns and one or two operators.                *)
EXTENDS SparqlQuery

CONSTANTS a, b, bnode, lit, p, q, typeof, cellFirst, cellRest, emptyList, class

MCIris == {a, b, emptyList, class}
MCPredicates == {p, q, typeof, cellFirst, cellRest}
MCLocalName == [x \in MCPredicates |-> ToString(x)]
MCTypeLabel == [i \in MCIris |-> ToString(i)]

T(s, pr, o) == [s |-> s, p |-> pr, o |-> o]

MCDocuments ==
    {<<T(a, p, b)>>, <<T(b, q, bnode), T(bnode, p, bnode)>>,
     <<T(a, q, b), T(b, p, a), T(a, typeof, class)>>, <<T(b, q, a)>>, <<T(a, p, lit), T(bnode, q, a)>>}

x == <<"x">>
y == <<"y">>
z == <<"z">>

Pat(s, pr, o) == Bgp(<<TriplePattern(s, pr, o)>>)
PXY == Pat(Var(x), Iri(p), Var(y))
QYZ == Pat(Var(y), Iri(q), Var(z))
PXX == Pat(Var(x), Iri(p), Var(x))
AQX == Pat(Iri(a), Iri(q), Var(x))
Two == Bgp(<<TriplePattern(Var(x), Iri(p), Var(y)), TriplePattern(Var(y), Iri(q), Iri(b))>>)
QZX == Pat(Var(z), Iri(q), Var(x))
Basic == {PXY, QYZ, PXX, AQX, Two, QZX}

X == Leaf("var", x)
Y == Leaf("var", y)
Tests ==
    {Apply("eq", <<X, Y>>), Apply("not", <<Apply("sameTerm", <<Y, X>>)>>),
     Apply("isIri", <<X>>), Apply("isBlank", <<Y>>), Leaf("bound", y),
     Apply("in", <<X, Y, X>>), Apply("isLiteral", <<X>>), Exists(QYZ),
     Apply("not", <<Exists(AQX)>>), Apply("and", <<Exists(Two), Apply("ucase", << >>)>>),
     Apply("or", <<Apply("eq", <<X, Y>>), Apply("isBlank", <<X>>)>>),
     Apply("eq", <<X, Leaf("iri", a)>>), Apply("contains", <<X, Leaf("lit", lit)>>),
     Apply("coalesce", <<Leaf("bound", y), Exists(Alternative(PXY, PXX))>>)}

AB == Values(<<x>>, <<<<Iri(a)>>, <<Iri(b)>>>>)
Rows == Values(<<x, y>>, <<<<Iri(a), Iri(b)>>, <<Iri(b), Iri(a)>>>>)

Composed ==
    Basic
    \cup {Join(l, r) : l \in Basic, r \in {QYZ, AQX, Filter(QZX, Apply("isIri", <<X>>))}}
    \cup {LeftJoin(l, r, << >>) : l \in Basic, r \in Basic}
    \cup {LeftJoin(LeftJoin(PXY, l, << >>), r, << >>) : l \in {QYZ, PXX, AQX},
                                               r \in {AQX, QZX, PXX}}
    \cup {LeftJoin(PXY, QYZ, <<e>>) : e \in Tests}
    \cup {Filter(l, e) : l \in {PXY, Two, LeftJoin(PXY, QYZ, << >>)}, e \in Tests}
    \cup {Minus(l, r) : l \in Basic, r \in Basic}
    \cup {Filter(Minus(l, QYZ), e) : l \in {PXY, Join(PXY, QZX)}, e \in Tests}
    \cup {Minus(Filter(l, e), QYZ) : l \in {PXY, Join(PXY, QYZ)}, e \in Tests}
    \cup {Alternative(l, r) : l \in Basic \cup {Filter(PXY, Apply("isIri", <<X>>))},
                              r \in Basic}
    \cup {Join(PXY, Alternative(QYZ, PXX)), Path(Var(x), Iri(b)), Wrap("graph", PXY),
          Service(PXY), Bgp(<< >>), Pat(Var(x), Var(z), Var(y)), Pat(Blank(bnode), Iri(p), Var(x)),
          Pat(Var(x), Iri(p), Lit(lit)), Project(PXY, <<x>>), Group(PXY, <<x>>),
          Pat(Iri(b), Iri(p), Var(<<"n", 0>>))}
    \cup {Join(AB, PXY), Join(Rows, PXY), Join(PXY, Rows), Join(Values(<<x>>, <<<<Undef>>>>), PXY),
          Join(Values(<<x>>, <<<<Iri(a)>>, <<Lit(lit)>>>>), PXY),
          Extend(PXY, z, X), Join(Extend(PXY, z, X), QYZ), Extend(PXY, z, Leaf("iri", a)),
          Extend(PXY, z, Apply("other", <<X>>))}

Selects ==
    {Project(c, <<x>>) : c \in Composed}
    \cup {Project(c, <<y, x>>) : c \in Composed}
    \cup {Project(c, <<z, x>>) : c \in {d \in Composed : z \in VisibleVars(d)}}
    \cup {Distinct : Distinct \in
            {Wrap("distinct", Project(OrderBy(c, <<X>>), <<x, y>>)) :
               c \in Basic \cup {Alternative(PXY, PXX)}}}
    \cup {Slice(Project(c, <<x, y>>), start, length) :
            c \in {PXY, Alternative(PXY, PXX)}, start \in {0, 1}, length \in {<<1>>, Unlimited}}
    \cup {Project(Project(PXY, <<x, y>>), <<x>>), Project(PXY, << >>),
          Project(Group(PXY, <<x>>), <<x>>)}

MCQueries ==
    ({"select"} \X Selects) \cup ({"ask"} \X Composed)
    \cup {<<"construct", PXY>>, TypeQuery(<<"s">>, class)}

MCOptions == {<< >>, <<"FORMAT", "csv">>, <<"TIMEOUT", "5000", "FORMAT", "tsv">>,
              <<"FORMAT">>, <<"FORMAT", "5000">>, <<"TIMEOUT", "csv">>, <<"LIMIT">>}
MCFormats == {"json", "csv", "tsv", "xml"}
MCNumerals == {"5000"}
=============================================================================
