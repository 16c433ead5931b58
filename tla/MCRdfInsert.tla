---------------------------- MODULE MCRdfInsert -----------------------------
(* Small instances of RdfInsert.                                           *)
EXTENDS RdfInsert

CONSTANTS a, b, Class, Nil, x, y, one, text, day

MCIris == {a, b, Class, Nil}
MCLabels == {x, y}
MCLiterals == {one, text, day}
MCBlanks == ({Raw} \cup 0 .. 2) \X MCLabels
MCPredicates == {"p", "other p", "q", "type", "first", "rest"}
(* http://a/p and http://b/p are different predicates with one local name. *)
MCLocalName == [k \in MCPredicates |-> IF k = "other p" THEN "p" ELSE k]
MCTypeLabel == [i \in MCIris |-> i]

T(s, p, o) == [s |-> s, p |-> p, o |-> o]

(* Triples outside of lists.                                               *)
Pool == {T(a, "p", b), T(a, "p", one), T(a, "other p", text), T(b, "q", day),
         T(a, "type", Class), T(a, "type", text), T(x, "p", one), T(b, "q", x)}

List(head, v) == <<T(head, "first", v), T(head, "rest", Nil)>>

(* A list of two; an element that is a blank node; two lists for one name; *)
(* a list and a literal for one name; a list that two subjects refer to; a *)
(* cell with a type; a list of a blank node; a cell in two documents.      *)
Listed == {
    <<T(a, "q", x), T(x, "first", one), T(x, "rest", y)>> \o List(y, b),
    <<T(a, "q", x)>> \o List(x, y) \o <<T(y, "p", one)>>,
    <<T(a, "q", x), T(a, "q", y)>> \o List(x, one) \o List(y, text),
    <<T(a, "q", x), T(a, "q", text)>> \o List(x, one),
    <<T(a, "q", x), T(b, "q", x)>> \o List(x, one),
    <<T(a, "q", x), T(x, "type", Class)>> \o List(x, day),
    <<T(x, "q", y)>> \o List(y, one),
    List(x, one)}

Endless == {<<T(a, "q", x), T(x, "first", one), T(x, "rest", x)>>,
            <<T(a, "q", x), T(x, "first", one), T(x, "rest", y),
              T(y, "first", b), T(y, "rest", x)>>}

Sent(triples) == {[scoped |-> s, triples |-> t] : s \in BOOLEAN, t \in triples}

MCFollowups == Sent({<<T(a, "p", text), T(b, "q", x)>>,
                     <<T(a, "q", x), T(a, "p", b)>> \o List(x, text)})

MCDocuments == MCFollowups \cup
               Sent({<< >>} \cup Listed \cup Endless
                    \cup {<<t, u>> : t, u \in Pool})

MCEndless == Sent(Endless) \cup Sent({<<T(a, "p", b)>>})
=============================================================================
