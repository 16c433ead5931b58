--------------------------- MODULE MCRdfDocuments ---------------------------
(***************************************************************************)
(* A small instance: two resources, a blank node and a literal of every    *)
(* kind that a writer treats in a way of its own.                          *)
(***************************************************************************)
EXTENDS RdfDocuments

A == IriTerm(<<Ex, "a">>)
Dotted == IriTerm(<<Ex, "a", ".">>)
Odd == IriTerm(<<Ex, "a", "{">>)
B == BlankTerm("x")
P == IriTerm(<<Ex, "p">>)
G == IriTerm(<<Ex, "g">>)

Plain(s, p, o) == Quad(Triple(s, p, o), DefaultGraph)
Named1(s, p, o, g) == Quad(Triple(s, p, o), <<g>>)

MCBindings == <<"ex">> :> <<Ex>>
MCQuads ==
    {Plain(A, RdfIri("type"), B),
     Plain(A, P, LiteralTerm(<<"05">>, XsdIri("integer"), None)),
     Plain(B, P, LiteralTerm(<<"-", "05", ".", "50">>, XsdIri("double"), None)),
     Plain(B, P, LiteralTerm(<<"\\", "\"", ",", "&", "\t", "\n">>, XsdIri("string"), None)),
     Plain(Dotted, P, LiteralTerm(<<"ctl">>, None, <<"en">>)),
     Named1(A, P, B, G),
     Named1(B, P, LiteralTerm(<<"5", ".">>, XsdIri("decimal"), None), B),
     Named1(A, P, Odd, G)}

MCNouns == {[text |-> <<"_", ":", "x">>, term |-> B]}
MCLiterals == {[text |-> <<"5">>, term |-> LiteralTerm(<<"5">>, XsdIri("integer"), None)]}
MCVerbs == {[text |-> <<"a">>, term |-> RdfIri("type")]}
Name(written, iri) == [text |-> written, iri |-> iri]
Verb1(written, iri) == [text |-> written, iri |-> iri, language |-> None, coerced |-> FALSE]
Full(a) == Name(<<Ex, a>>, <<Ex, a>>)
FullVerb(a) == Verb1(<<Ex, a>>, <<Ex, a>>)
Short(a) == <<"ex", ":", a>>
ExPrefix == Member(<<"ex">>, Str(<<Ex>>))
ExVocab == Member(AtWord("vocab"), Str(<<Ex>>))
Inner(language) ==
    [json |-> Obj(<<Member(<<"ex">>, Str(<<Rdfs>>))>>),
     verb |-> [Verb1(Short("p"), <<Rdfs, "p">>) EXCEPT !.language = language]]
Under(json, ids, types, verbs, second, compacts) ==
    [json |-> json, ids |-> ids, types |-> types, verbs |-> verbs, second |-> second,
     inner |-> {Inner(None)}, compacts |-> compacts]

MCContexts ==
    {Under(Null, {Full("a")}, {Full("T")}, {FullVerb("p")}, {FullVerb("q")}, TRUE),
     Under(Obj(<<ExPrefix>>), {Name(Short("a"), <<Ex, "a">>)}, {Name(Short("T"), <<Ex, "T">>)},
           {Verb1(Short("p"), <<Ex, "p">>)}, {FullVerb("q")}, TRUE),
     Under(Arr(<<Obj(<<ExPrefix>>), Obj(<<ExVocab>>)>>), {Name(Short("a"), <<Ex, "a">>)},
           {Name(<<"T">>, <<Ex, "T">>)}, {Verb1(<<"p">>, <<Ex, "p">>)}, {Verb1(Short("q"), <<Ex, "q">>)}, TRUE),
     Under(Obj(<<Member(AtWord("base"), Str(<<Ex, "d", "/", "x">>))>>),
           {Name(<<"a">>, <<Ex, "d", "/", "a">>), Name(<<"#", "a">>, <<Ex, "d", "/", "x", "#", "a">>)},
           {Full("T")}, {FullVerb("p")}, {}, FALSE),
     [Under(Obj(<<Member(AtWord("language"), Str(<<"en">>)), ExPrefix,
                 Member(<<"knows">>, Obj(<<Member(AtWord("id"), Str(Short("p"))),
                                           Member(AtWord("type"), Str(AtWord("id")))>>)),
                 Member(<<"label">>, Obj(<<Member(AtWord("id"), Str(Short("q"))),
                                           Member(AtWord("language"), Str(<<"fr">>))>>))>>),
           {Name(Short("a"), <<Ex, "a">>)}, {},
           {[Verb1(<<"knows">>, <<Ex, "p">>) EXCEPT !.coerced = TRUE],
            [Verb1(<<"label">>, <<Ex, "q">>) EXCEPT !.language = <<"fr">>],
            [Verb1(Short("r"), <<Ex, "r">>) EXCEPT !.language = <<"en">>]}, {}, FALSE)
      EXCEPT !.inner = {Inner(<<"en">>)}]}
MCNamespaces == {Rdfs}
=============================================================================
