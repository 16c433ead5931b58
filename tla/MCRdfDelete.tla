---------------------------- MODULE MCRdfDelete -----------------------------
(* Small instances of RdfDelete.                                           *)
EXTENDS RdfDelete

CONSTANTS a, u, x, Class, Lit, text, a1

(* u is the IRI urn:u; a1 is the text ex:a, which becomes the IRI a while  *)
(* ex is bound to "right", and no IRI of the graph otherwise.              *)
MCIris == {a, u, Class, Lit}
MCBlanks == {x}
MCPredicates == {"p", "value", "type", "first", "rest"}
MCLocalName == [k \in MCPredicates |-> k]
MCTypeLabel == [i \in MCIris |-> IF i = Lit THEN "Literal" ELSE "Class"]
MCTexts == MCIris \cup MCPredicates \cup {a1}
MCPrefixOf == [t \in MCTexts |-> IF t = a1 THEN "ex" ELSE IF t = u THEN "urn" ELSE None]
MCConcat == [t \in MCTexts |->
               [v \in {"right", "wrong"} |-> IF t = a1 /\ v = "right" THEN a ELSE "nothing"]]

T(s, p, o) == [s |-> s, p |-> p, o |-> o]
MCTriples == {T(a, "p", u), T(u, "p", x), T(x, "value", a),
              T(u, "value", text), T(x, "type", Lit)}

Star == [kind |-> "any"]
C(kind, of) == [kind |-> kind, of |-> of]
P(s, p, o, named) == {[s |-> s, p |-> p, o |-> o, named |-> named, orphans |-> b] : b \in BOOLEAN}

MCPatterns ==
    UNION {P(s, p, o, FALSE) :
             s \in {Star, C("full", u), C("prefixed", a1)},
             p \in {Star, C("full", "p")},
             o \in {Star, C("blank", x), C("literal", text)}}
    \cup P(C("blank", x), C("full", "value"), C("full", a), FALSE)
    \cup P(Star, C("literal", text), Star, FALSE)
    \cup P(Star, Star, Star, TRUE)
=============================================================================
