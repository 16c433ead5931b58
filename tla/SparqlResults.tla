---------------------------- MODULE SparqlResults ----------------------------
(***************************************************************************)
(* The results of queries as a client gets them (parser/src/results): the  *)
(* bindings of SELECT as CSV, TSV, JSON and XML, the triples of CONSTRUCT  *)
(* as Turtle and RDF/JSON.  A binding maps variables to terms; layout is   *)
(* left out where the format gives it no meaning.  The client's side of a  *)
(* format is external.                                                     *)
(***************************************************************************)
EXTENDS RdfWriters

TermValue(term) ==
    CASE term.kind = "iri" -> term.text
      [] term.kind = "blank" -> <<term.label>>
      [] term.kind = "literal" -> term.value
term_type(term) ==
    CASE term.kind = "iri" -> "uri" [] term.kind = "blank" -> "bnode" [] OTHER -> "literal"
WithLanguage(term) == term.kind = "literal" /\ term.lang # None
WithDatatype(term) ==
    term.kind = "literal" /\ term.lang = None /\ term.datatype \notin {None, XsdIri("string")}
-----------------------------------------------------------------------------
(* CSV and TSV. *)
Table(header, rows, separator) ==
    FlattenSeq([i \in 1 .. Len(rows) + 1 |->
                   Joined(IF i = 1 THEN header ELSE rows[i - 1], <<separator>>) \o <<"\n">>])

CsvValue(term) ==
    LET value == TermValue(term)
        doubled == [i \in DOMAIN value |-> IF value[i] = "\"" THEN <<"\"", "\"">> ELSE <<value[i]>>]
    IN  IF ToSet(value) \cap {",", "\"", "\n", "\r"} = {} THEN value
        ELSE <<"\"">> \o FlattenSeq(doubled) \o <<"\"">>
CsvRow(variables, binding) ==
    [i \in DOMAIN variables |->
        IF variables[i] \in DOMAIN binding THEN CsvValue(binding[variables[i]]) ELSE << >>]
select_to_csv(variables, bindings) ==
    Table([i \in DOMAIN variables |-> <<variables[i]>>],
          [j \in DOMAIN bindings |-> CsvRow(variables, bindings[j])], ",")

TsvEscape(c) == IF c = "ctl" THEN <<c>> ELSE EscapeChar(c)
TsvLiteral(lit) ==
    <<"\"">> \o Mapped(lit.value, TsvEscape) \o <<"\"">>
    \o (CASE WithLanguage(lit) -> <<"@">> \o lit.lang
          [] WithDatatype(lit) -> <<"^", "^">> \o InBrackets(lit.datatype)
          [] OTHER -> << >>)
TsvValue(term) ==
    CASE term.kind = "iri" -> InBrackets(Mapped(term.text, TsvEscape))
      [] term.kind = "blank" -> BlankText(term.label)
      [] term.kind = "literal" -> TsvLiteral(term)
TsvRow(variables, binding) ==
    [i \in DOMAIN variables |->
        IF variables[i] \in DOMAIN binding THEN TsvValue(binding[variables[i]]) ELSE << >>]
select_to_tsv(variables, bindings) ==
    Table([i \in DOMAIN variables |-> <<"?", variables[i]>>],
          [j \in DOMAIN bindings |-> TsvRow(variables, bindings[j])], "\t")

(* The client: a separator between quotes separates nothing. *)
QuotesBefore(text, p) == Cardinality({q \in 1 .. p - 1 : text[q] = "\""})
Cut(text, separator, quotes) ==
    LET outside(p) == quotes => QuotesBefore(text, p) % 2 = 0
    IN  Pieces(text, SelectSeq(Positions(text, {separator}), outside))

CsvTerm(cell) ==
    LET inner == SubSeq(cell, 2, Len(cell) - 1)
        single == [i \in DOMAIN inner |->
                      IF inner[i] = "\"" /\ QuotesBefore(inner, i) % 2 = 1 THEN << >> ELSE <<inner[i]>>]
    IN  LiteralTerm(IF Head(cell) = "\"" THEN FlattenSeq(single) ELSE cell, None, None)

TsvUnescaped(text) ==
    LET behind[q \in Nat] == q > 1 /\ text[q - 1] = "\\" /\ ~behind[q - 1]
        meant_by(c) == CASE c = "n" -> "\n" [] c = "r" -> "\r" [] c = "t" -> "\t" [] OTHER -> c
        atom(q) == IF behind[q] THEN <<meant_by(text[q])>>
                   ELSE IF text[q] = "\\" THEN << >> ELSE <<text[q]>>
    IN  FlattenSeq([q \in DOMAIN text |-> atom(q)])
TsvTerm(cell) ==
    LET quote == SelectLastInSubSeq(cell, 1, Len(cell), LAMBDA c : c = "\"")
        literal(value, rest) ==
            CASE rest = << >> -> LiteralTerm(value, None, None)
              [] rest # << >> /\ Head(rest) = "@" -> LiteralTerm(value, None, Tail(rest))
              [] OTHER -> LiteralTerm(value, SubSeq(rest, 4, Len(rest) - 1), None)
    IN  CASE Head(cell) = "<" -> IriTerm(TsvUnescaped(SubSeq(cell, 2, Len(cell) - 1)))
          [] Head(cell) = "_" -> BlankTerm(cell[3])
          [] OTHER -> literal(TsvUnescaped(SubSeq(cell, 2, quote - 1)),
                              SubSeq(cell, quote + 1, Len(cell)))

(* The first line has the variables, and after the last comes nothing. *)
BindingOf(variables, cells, csv) ==
    [v \in {variables[i] : i \in {i \in DOMAIN cells : cells[i] # << >>}} |->
        LET cell == cells[CHOOSE i \in DOMAIN cells : variables[i] = v]
        IN  IF csv THEN CsvTerm(cell) ELSE TsvTerm(cell)]
BindingsOf(lines, csv, separator) ==
    LET header == Cut(lines[1], separator, csv)
    IN  [j \in 1 .. Len(lines) - 2 |->
            BindingOf([i \in DOMAIN header |-> Last(header[i])],
                      Cut(lines[j + 1], separator, csv), csv)]
ReadTable(text, csv) == BindingsOf(Cut(text, "\n", csv), csv, IF csv THEN "," ELSE "\t")
-----------------------------------------------------------------------------
(* JSON, for both kinds of results. *)
JsonTerm(term, language) ==
    Obj(<<Member(<<"type">>, Str(<<term_type(term)>>)),
          Member(<<"value">>, Str(escape_json_string(TermValue(term))))>>
        \o (CASE WithLanguage(term) -> <<Member(<<language>>, Str(escape_json_string(term.lang)))>>
              [] WithDatatype(term) ->
                     <<Member(<<"datatype">>, Str(escape_json_string(term.datatype)))>>
              [] OTHER -> << >>))

JsonBinding(variables, binding) ==
    LET bound == SelectSeq(variables, LAMBDA v : v \in DOMAIN binding)
    IN  Obj([i \in DOMAIN bound |-> Member(<<bound[i]>>, JsonTerm(binding[bound[i]], "xml:lang"))])
select_to_json(variables, bindings) ==
    Obj(<<Member(<<"head">>, Obj(<<Member(<<"vars">>, Arr([i \in DOMAIN variables |-> Str(<<variables[i]>>)]))>>)),
          Member(<<"results">>, Obj(<<Member(<<"bindings">>,
              Arr([j \in DOMAIN bindings |-> JsonBinding(variables, bindings[j])]))>>))>>)

construct_to_rdf_json(triples) ==
    LET subjects == SetToSeq({IdText(triples[i].s) : i \in DOMAIN triples})
        said(s) == SelectSeq(triples, LAMBDA t : IdText(t.s) = s)
        objects(of, p) == SelectSeq(of, LAMBDA t : t.p.text = p)
        values(of) == Arr([i \in DOMAIN of |-> JsonTerm(of[i].o, "lang")])
        predicates(of) ==
            LET texts == SetToSeq({of[i].p.text : i \in DOMAIN of})
            IN  Obj([i \in DOMAIN texts |->
                        Member(escape_json_string(texts[i]), values(objects(of, texts[i])))])
    IN  Obj([i \in DOMAIN subjects |->
                Member(escape_json_string(subjects[i]), predicates(said(subjects[i])))])

(* The client.  RDF/JSON writes a blank node with its "_:" as a subject    *)
(* and without as an object; a client that takes the one for the other is  *)
(* assumed.                                                                *)
TermOfJson(obj, language) ==
    LET value == Get(obj, <<"value">>).text
        type == Get(obj, <<"type">>).text
    IN  CASE type = <<"uri">> -> IriTerm(value)
          [] type = <<"bnode">> -> BlankTerm(Last(value))
          [] OTHER -> LiteralTerm(value, TextOf(Get(obj, <<"datatype">>)), TextOf(Get(obj, <<language>>)))
ReadJsonBindings(document) ==
    LET items == Get(Get(document, <<"results">>), <<"bindings">>).items
    IN  [j \in DOMAIN items |->
            [v \in {items[j].members[i].key[1] : i \in DOMAIN items[j].members} |->
                TermOfJson(Get(items[j], <<v>>), "xml:lang")]]
ReadRdfJson(document) ==
    LET subject(key) == IF Head(key) = "_" THEN BlankTerm(Last(key)) ELSE IriTerm(key)
    IN  UNION {UNION {{Triple(subject(s.key), IriTerm(p.key), TermOfJson(value, "lang")) :
                           value \in ToSet(p.value.items)} : p \in ToSet(s.value.members)} :
                   s \in ToSet(document.members)}
-----------------------------------------------------------------------------
(* XML: a term is an element with its attributes. *)
Entities == ("&" :> "amp") @@ ("<" :> "lt") @@ (">" :> "gt") @@ ("\"" :> "quot") @@ ("'" :> "apos")
XmlEscape(c) == IF c \in DOMAIN Entities THEN <<"&", Entities[c], ";">> ELSE <<c>>
XmlText(text) == Mapped(text, XmlEscape)
XmlTerm(term) ==
    [tag |-> term_type(term),
     lang |-> IF WithLanguage(term) THEN XmlText(term.lang) ELSE None,
     datatype |-> IF WithDatatype(term) THEN XmlText(term.datatype) ELSE None,
     content |-> XmlText(TermValue(term))]
XmlBinding(variables, binding) ==
    LET bound == SelectSeq(variables, LAMBDA v : v \in DOMAIN binding)
    IN  [i \in DOMAIN bound |-> [name |-> bound[i], term |-> XmlTerm(binding[bound[i]])]]
select_to_xml(variables, bindings) ==
    [variables |-> variables,
     results |-> [j \in DOMAIN bindings |-> XmlBinding(variables, bindings[j])]]

(* The client.  A carriage return ends a line, as a newline does. *)
XmlUnescaped(text) ==
    LET at(q) == IF q > 0 THEN text[q] ELSE "end"
        char(name) == CHOOSE c \in DOMAIN Entities : Entities[c] = name
        atom(q) == CASE text[q] = "&" -> <<char(text[q + 1])>>
                     [] "&" \in {at(q - 1), at(q - 2)} -> << >>
                     [] OTHER -> IF text[q] = "\r" THEN <<"\n">> ELSE <<text[q]>>
    IN  FlattenSeq([q \in DOMAIN text |-> atom(q)])
TermOfXml(e) ==
    LET value == XmlUnescaped(e.content)
    IN  CASE e.tag = "uri" -> IriTerm(value)
          [] e.tag = "bnode" -> BlankTerm(value[1])
          [] OTHER -> LiteralTerm(value, XmlUnescaped(e.datatype), XmlUnescaped(e.lang))
ReadXmlBindings(document) ==
    [j \in DOMAIN document.results |->
        LET of == document.results[j]
        IN  [v \in {of[i].name : i \in DOMAIN of} |->
                TermOfXml(of[CHOOSE i \in DOMAIN of : of[i].name = v].term)]]
-----------------------------------------------------------------------------
(* Turtle, one triple per line or grouped by subject, in some order. *)
TurtleTerm(term) == IF term.kind = "iri" THEN InBrackets(term.text) ELSE TsvValue(term)
PredicateObject(t) == InBrackets(t.p.text) \o <<" ">> \o TurtleTerm(t.o)
construct_to_turtle(triples) ==
    LET line(t) == TurtleTerm(t.s) \o <<" ">> \o PredicateObject(t) \o EndOfStatement
    IN  Mapped(triples, line)
PrettyBlock(said) ==
    TurtleTerm(said[1].s) \o <<" ">>
    \o Joined([i \in DOMAIN said |-> PredicateObject(said[i])], <<" ", ";", "\n", " ">>) \o EndOfStatement
construct_pretty(triples, subjects) ==
    LET block(s) == PrettyBlock(SelectSeq(triples, LAMBDA t : t.s = s))
    IN  Joined([i \in DOMAIN subjects |-> block(subjects[i])], <<"\n">>)
=============================================================================
