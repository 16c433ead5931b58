-------------------------- MODULE DocumentAuthors ---------------------------
(***************************************************************************)
(* What documents mean: the references that the readers of Turtle and of   *)
(* JSON-LD are compared with.                                              *)
(***************************************************************************)
EXTENDS JsonLdProcessor

(***************************************************************************)
(* Turtle, told while a document is written from left to right, after the  *)
(* grammar that parser/src/formats/turtle/parser.rs names.  A document has *)
(* its text, the triples it says, a frame for every statement, property    *)
(* list and list that is open, and how deep its nesting went: a property   *)
(* list is one level below what it stands in, the items of a list are two. *)
(***************************************************************************)
NewDocument == [text |-> << >>, said |-> {}, frames |-> << >>, fresh |-> 0, depth |-> 0, steps |-> 0]

Frame(kind, at, s, depth) ==
    [kind |-> kind, at |-> at, s |-> s, v |-> None, head |-> None, depth |-> depth]

Top(doc) == Last(doc.frames)
IsOpen(doc) == doc.frames # << >>
Fresh(doc) == BlankTerm("new" \o ToString(doc.fresh))
Level(doc) == IF Top(doc).kind = "list" THEN Top(doc).depth + 1 ELSE Top(doc).depth

(* Punctuation is written close to what it follows. *)
Write(doc, text) == [doc EXCEPT !.text = @ \o text, !.steps = @ + 1]
SetTop(doc, frame) == [doc EXCEPT !.frames = Append(Front(@), frame)]
Push(doc, frame) == [doc EXCEPT !.frames = Append(@, frame), !.depth = Max({@, frame.depth})]
Popped(doc) == [doc EXCEPT !.frames = Front(@)]

TakesTerm(doc) == IsOpen(doc) /\ Top(doc).at \in {"subject", "object"}
TakesVerb(doc) == IsOpen(doc) /\ Top(doc).at = "verb"
HasObject(doc) == IsOpen(doc) /\ Top(doc).at = "after"

(* A term where one is due. *)
Placed(doc, term) ==
    LET top == Top(doc)
        cell == Fresh(doc)
        link == IF top.head = None THEN {} ELSE {Triple(top.s, RdfIri("rest"), cell)}
    IN  CASE top.at = "subject" -> SetTop(doc, [top EXCEPT !.s = term, !.at = "verb"])
          [] top.at = "object" /\ top.kind # "list" ->
                 SetTop([doc EXCEPT !.said = @ \cup {Triple(top.s, top.v[1], term)},
                                    !.depth = Max({@, Level(doc)})],
                        [top EXCEPT !.at = "after"])
          [] top.at = "object" /\ top.kind = "list" ->
                 SetTop([doc EXCEPT !.said = @ \cup link \cup {Triple(cell, RdfIri("first"), term)},
                                    !.fresh = @ + 1,
                                    !.depth = Max({@, Level(doc)})],
                        [top EXCEPT !.s = cell, !.head = IF @ = None THEN <<cell>> ELSE @])

Started(doc) == IF IsOpen(doc) THEN doc ELSE Push(doc, Frame("statement", "subject", None, 0))

Named(doc, text, term) == Placed(Write(Started(doc), <<" ">> \o text), term)
Verb(doc, text, v) ==
    SetTop(Write(doc, <<" ">> \o text), [Top(doc) EXCEPT !.v = <<v>>, !.at = "object"])

OpenProperties(doc) ==
    LET at == Started(doc)
    IN  Push([Write(at, <<" ", "[">>) EXCEPT !.fresh = @ + 1],
             Frame("properties", "verb", Fresh(at), Level(at) + 1))
OpenList(doc) ==
    LET at == Started(doc) IN Push(Write(at, <<" ", "(">>), Frame("list", "object", None, Level(at) + 1))

(* "; ]" and "; ." are as good as "]" and ".". *)
MayClose(doc) == HasObject(doc) \/ (TakesVerb(doc) /\ Top(doc).v # None)
ClosesProperties(doc) ==
    IsOpen(doc) /\ Top(doc).kind = "properties" /\ Top(doc).at # "object"
CloseProperties(doc) == Placed(Popped(Write(doc, <<" ", "]">>)), Top(doc).s)

ClosesList(doc) == IsOpen(doc) /\ Top(doc).kind = "list"
CloseList(doc) ==
    LET top == Top(doc)
        closed == Popped(Write(doc, <<" ", ")">>))
        nil == RdfIri("nil")
    IN  IF top.head = None THEN Placed(closed, nil)
        ELSE Placed([closed EXCEPT !.said = @ \cup {Triple(top.s, RdfIri("rest"), nil)}], top.head[1])

Comma(doc) == SetTop(Write(doc, <<",">>), [Top(doc) EXCEPT !.at = "object"])
Semicolon(doc) == SetTop(Write(doc, <<";">>), [Top(doc) EXCEPT !.at = "verb"])
Ends(doc) == IsOpen(doc) /\ Top(doc).kind = "statement" /\ MayClose(doc)
End(doc) == Popped(Write(doc, <<".">>))
-----------------------------------------------------------------------------
(***************************************************************************)
(* JSON-LD, after the recommendation that parser/src/rdf/jsonld is an      *)
(* implementation of.  A context comes with the names that can be used     *)
(* under it and what they stand for:                                       *)
(*    json            the context, or Null                                 *)
(*    ids, types      [text, iri]                                          *)
(*    verbs           [text, iri, language, coerced]                       *)
(*    inner           a context for a node inside, with a verb under it    *)
(*    compacts        there is one way to write an IRI under it            *)
(* A value is its JSON, the term it is, the triples inside of it, and      *)
(* whether compaction leaves it what it is.                                *)
(***************************************************************************)
Spoken(json, term, said, compacts) ==
    [json |-> json, term |-> term, said |-> said, compacts |-> compacts]
Simple(json, term) == Spoken(json, term, {}, TRUE)

Ref(text) == Obj(<<Member(AtWord("id"), Str(text))>>)
Labelled == BlankTerm("x")

Scalars(language) ==
    {Simple(Str(<<"v">>), LiteralTerm(<<"v">>, None, language)),
     Simple(Num(<<"5">>, "integer"), LiteralTerm(<<"5">>, XsdIri("integer"), None)),
     Simple(Bool(<<"true">>), LiteralTerm(<<"true">>, XsdIri("boolean"), None))}
Objects(names) ==
    {Simple(Ref(n.text), IriTerm(n.iri)) : n \in names.ids}
    \cup {Simple(Ref(<<"_", ":", "x">>), Labelled),
          Simple(Obj(<<Member(AtWord("language"), Str(<<"fr">>)), Member(AtWord("value"), Str(<<"v">>))>>),
                 LiteralTerm(<<"v">>, None, <<"fr">>))}

(* Nodes inside, without a name of their own, one with its own context. *)
NodeWith(names, at, context, v, value) ==
    LET node == BlankTerm(at)
    IN  Spoken(Obj(context \o <<Member(v.text, value.json)>>), node,
               value.said \cup {Triple(node, IriTerm(v.iri), value.term)}, value.compacts)
Inside(names, at) ==
    {NodeWith(names, at, << >>, v, value) : v \in {v \in names.verbs : ~v.coerced}, value \in Objects(names)}
    \cup UNION {{NodeWith(names, at, <<Member(AtWord("context"), inner.json)>>, inner.verb, value) :
                      value \in Scalars(inner.verb.language)} : inner \in names.inner}

(* Strings in lists have no language. *)
ListOf(items, at) ==
    LET cell(i) == BlankTerm(at \o "." \o ToString(i))
        next(i) == IF i = Len(items) THEN RdfIri("nil") ELSE cell(i + 1)
    IN  Spoken(Obj(<<Member(AtWord("list"), Arr([i \in DOMAIN items |-> items[i].json]))>>),
               IF items = << >> THEN RdfIri("nil") ELSE cell(1),
               UNION {items[i].said \cup {Triple(cell(i), RdfIri("first"), items[i].term),
                                          Triple(cell(i), RdfIri("rest"), next(i))} : i \in DOMAIN items},
               Len(items) # 1 /\ \A i \in DOMAIN items : items[i].compacts)
Lists(names, at) ==
    LET ids == {Simple(Ref(n.text), IriTerm(n.iri)) : n \in names.ids}
    IN  {ListOf(<< >>, at)}
        \cup {ListOf(<<item>>, at) : item \in Scalars(None) \cup Inside(names, at \o "i")}
        \cup {ListOf(<<item, list>>, at) :
                  item \in Scalars(None) \cup ids,
                  list \in ids \cup {ListOf(<<Simple(Ref(<<"_", ":", "x">>), Labelled)>>, at \o "l")}}

(* What a property can have: a value, several that are objects, or null. *)
Values(names, v, at) ==
    IF v.coerced THEN {<<Simple(Str(n.text), IriTerm(n.iri))>> : n \in names.ids}
    ELSE {<<value>> : value \in Scalars(v.language) \cup Objects(names) \cup Inside(names, at)
                                \cup Lists(names, at)}
         \cup {<<one, other>> : one \in Objects(names), other \in Inside(names, at)}
         \cup {<< >>}

Property(s, v, values) ==
    [members |-> <<Member(v.text, CASE Len(values) = 0 -> Null
                                    [] Len(values) = 1 -> values[1].json
                                    [] OTHER -> Arr([i \in DOMAIN values |-> values[i].json]))>>,
     said |-> UNION {values[i].said \cup {Triple(s, IriTerm(v.iri), values[i].term)} : i \in DOMAIN values},
     compacts |-> \A i \in DOMAIN values : values[i].compacts]
NoProperty == [members |-> << >>, said |-> {}, compacts |-> TRUE]
Properties1(names, s) ==
    UNION {{Property(s, v, values) : values \in Values(names, v, "n")} : v \in names.verbs}
Properties2(names, s) ==
    {NoProperty} \cup {Property(s, v, <<value>>) : v \in names.second, value \in Scalars(None)}

(* A document: a node with or without a name, a type, and properties. *)
Subjects(names) ==
    {[members |-> << >>, term |-> BlankTerm("root"), id |-> None]}
    \cup {[members |-> <<Member(AtWord("id"), Str(n.text))>>, term |-> IriTerm(n.iri), id |-> n.iri] :
              n \in names.ids}
Types(names, s) ==
    {NoProperty} \cup {[members |-> <<Member(AtWord("type"), Str(n.text))>>,
                        said |-> {Triple(s, RdfIri("type"), IriTerm(n.iri))}, compacts |-> TRUE] :
                           n \in names.types}
Document(names, s, type, one, two) ==
    [json |-> Obj((IF names.json = Null THEN << >> ELSE <<Member(AtWord("context"), names.json)>>)
                  \o s.members \o type.members \o one.members \o two.members),
     context |-> names.json, id |-> s.id,
     said |-> type.said \cup one.said \cup two.said,
     compacts |-> names.compacts /\ one.compacts]
DocumentsUnder(names) ==
    UNION {{Document(names, s, type, one, two) :
                type \in Types(names, s.term), one \in Properties1(names, s.term),
                two \in Properties2(names, s.term)} : s \in Subjects(names)}
=============================================================================
