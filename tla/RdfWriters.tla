----------------------------- MODULE RdfWriters -----------------------------
(***************************************************************************)
(* The streaming serializers of parser/src/rdf/serializer and the writers  *)
(* of parser/src/export, first those of text, then those of JSON-LD.  A    *)
(* serializer's fields are a record; serializing gives the text that was   *)
(* written and the serializer after it.  The prefixes of the instances are *)
(* such that at most one of them fits an IRI: which of several is taken is *)
(* up to a HashMap.                                                        *)
(***************************************************************************)
EXTENDS JsonLdProcessor

DefaultGraph == None   \* a named graph is <<its name>>
Quad(triple, graph) == [triple |-> triple, graph |-> graph]

Wrote(ser, text) == [ser |-> ser, text |-> text]
Then(w, next) == [next EXCEPT !.text = w.text \o @]
EndOfStatement == <<" ", ".", "\n">>
-----------------------------------------------------------------------------
(* Escapes. *)
EscapeChar(c) ==
    CASE c \in {"\\", "\""} -> <<"\\", c>>
      [] c = "\n" -> <<"\\", "n">>
      [] c = "\r" -> <<"\\", "r">>
      [] c = "\t" -> <<"\\", "t">>
      [] c = "ctl" -> NumericEscape(c)
      [] OTHER -> <<c>>
escape_string(s) == Mapped(s, EscapeChar)

EscapeLong(c) == IF c \in {"\\", "\""} THEN <<"\\", c>> ELSE <<c>>
write_escaped_long_string(s) == Mapped(s, EscapeLong)

EscapeIriTurtle(c) ==
    IF c \in IriEscaped THEN NumericEscape(c) ELSE IF c = " " THEN <<"%", "20">> ELSE <<c>>
EscapeIriLine(c) == IF c \in IriEscaped \cup {" "} THEN NumericEscape(c) ELSE <<c>>

(* A local name in a prefixed name: for the serializer, and for the export *)
(* writer, to which a dot at the end is not one.                           *)
is_valid_local_name(local) ==
    \/ local = << >>
    \/ /\ IsWord(Head(local)) \/ Head(local) \in Digits \cup {"_"}
       /\ \A i \in DOMAIN local : IsWord(local[i]) \/ local[i] \in Digits \cup {"_", "-", "."}
ExportsLocalName(local) == is_valid_local_name(local) /\ (local # << >> => Last(local) # ".")

Behind(ns, iri) == SubSeq(iri, Len(ns) + 1, Len(iri))
InBrackets(text) == <<"<">> \o text \o <<">">>

compact_iri(prefixes, iri) ==
    LET fits == {p \in DOMAIN prefixes : /\ IsPrefixOf(prefixes[p], iri)
                                         /\ is_valid_local_name(Behind(prefixes[p], iri))}
        prefix == CHOOSE p \in fits : TRUE
    IN  IF fits = {} THEN InBrackets(iri)
        ELSE prefix \o <<":">> \o Behind(prefixes[prefix], iri)

ExportIri(prefixes, iri) ==
    LET fits == {p \in DOMAIN prefixes : /\ IsPrefixOf(prefixes[p], iri)
                                         /\ ExportsLocalName(Behind(prefixes[p], iri))}
        prefix == CHOOSE p \in fits : TRUE
    IN  IF fits = {} THEN InBrackets(Mapped(iri, EscapeIriTurtle))
        ELSE prefix \o <<":">> \o Behind(prefixes[prefix], iri)

BlankText(label) == <<"_", ":", label>>

write_prefixes(prefixes) ==
    LET declaration(p) == <<"@", "prefix", " ">> \o p \o <<":", " ">> \o InBrackets(prefixes[p])
                          \o EndOfStatement
    IN  IF DOMAIN prefixes = {} THEN << >>
        ELSE Mapped(SetToSeq(DOMAIN prefixes), declaration) \o <<"\n">>
-----------------------------------------------------------------------------
(* TurtleSerializer. *)
Unsigned(value) ==
    IF value # << >> /\ Head(value) \in {"+", "-"} THEN Tail(value) ELSE value
ParsesAsI64(value) == Len(Unsigned(value)) = 1 /\ Head(Unsigned(value)) \in Digits
ParsesAsF64(value) ==
    LET u == Unsigned(value)
    IN  \/ \E d, f \in Digits : u \in {<<d>>, <<d, ".">>, <<".", f>>, <<d, ".", f>>}
        \/ \E d, f \in Digits : u \in {<<d, "e", "0">>, <<d, ".", f, "e", "0">>}

HasShortForm(lit) ==
    \/ lit.datatype = XsdIri("integer") /\ ParsesAsI64(lit.value)
    \/ /\ lit.datatype \in {XsdIri("decimal"), XsdIri("double")}
       /\ ParsesAsF64(lit.value)
       /\ "." \in ToSet(lit.value)
    \/ lit.datatype = XsdIri("boolean") /\ lit.value \in {<<"true">>, <<"false">>}

Quoted(value) ==
    LET quotes == IF ToSet(value) \cap {"\n", "\r"} # {} THEN <<"\"", "\"", "\"">> ELSE <<"\"">>
    IN  quotes \o escape_string(value) \o quotes

write_literal(prefixes, lit) ==
    IF HasShortForm(lit) THEN lit.value
    ELSE Quoted(lit.value)
         \o (IF lit.lang # None THEN <<"@">> \o lit.lang
             ELSE IF lit.datatype \notin {None, XsdIri("string")}
                  THEN <<"^", "^">> \o compact_iri(prefixes, lit.datatype) ELSE << >>)

write_object(prefixes, term) ==
    CASE term.kind = "iri" -> compact_iri(prefixes, term.text)
      [] term.kind = "blank" -> BlankText(term.label)
      [] term.kind = "literal" -> write_literal(prefixes, term)

write_predicate(prefixes, p) ==
    IF p = RdfIri("type") THEN <<"a">> ELSE compact_iri(prefixes, p.text)

NewTurtle(prefixes) ==
    [prefixes |-> prefixes, header_written |-> FALSE,
     current_subject |-> None, in_subject_block |-> FALSE]

(* Without remembering the new subject, the first one's block goes on. *)
TurtleTripleForgetful(ser, t) ==
    LET goes_on == ser.current_subject = <<t.s>> /\ ser.in_subject_block
        lead == IF goes_on THEN <<" ", ";", "\n", " ">>
                ELSE (IF ser.in_subject_block THEN EndOfStatement ELSE << >>)
                     \o write_object(ser.prefixes, t.s) \o <<" ">>
    IN  Wrote([ser EXCEPT !.current_subject = IF @ = None THEN <<t.s>> ELSE @,
                          !.in_subject_block = TRUE],
              lead \o write_predicate(ser.prefixes, t.p) \o <<" ">> \o write_object(ser.prefixes, t.o))

(* serialize_triple: the same subject goes on with ";", another one ends   *)
(* the block of the one before it.                                         *)
TurtleTriple(ser, t) ==
    LET goes_on == ser.current_subject = <<t.s>> /\ ser.in_subject_block
        lead == IF goes_on THEN <<" ", ";", "\n", " ">>
                ELSE (IF ser.in_subject_block THEN EndOfStatement ELSE << >>)
                     \o write_object(ser.prefixes, t.s) \o <<" ">>
    IN  Wrote([ser EXCEPT !.current_subject = <<t.s>>, !.in_subject_block = TRUE],
              lead \o write_predicate(ser.prefixes, t.p) \o <<" ">> \o write_object(ser.prefixes, t.o))

TurtleFinish(ser) ==
    IF ser.in_subject_block
    THEN Wrote([ser EXCEPT !.current_subject = None, !.in_subject_block = FALSE], EndOfStatement)
    ELSE Wrote(ser, << >>)

write_header(ser) ==
    IF ser.header_written THEN Wrote(ser, << >>)
    ELSE Wrote([ser EXCEPT !.header_written = TRUE], write_prefixes(ser.prefixes))
-----------------------------------------------------------------------------
(* TriGSerializer.  current_graph is the default graph's while no block is *)
(* open; what is written there is not closed when a block opens.           *)
NewTriG(prefixes) ==
    [prefixes |-> prefixes, header_written |-> FALSE,
     current_graph |-> DefaultGraph, turtle |-> NewTurtle(prefixes)]

write_graph_open(prefixes, graph) ==
    <<"GRAPH", " ">> \o write_object(prefixes, graph[1]) \o <<" ", "{", "\n">>

close_current_graph(ser) ==
    LET rest == TurtleFinish(ser.turtle)
    IN  IF ser.current_graph = DefaultGraph THEN Wrote(ser, << >>)
        ELSE Wrote([ser EXCEPT !.turtle = rest.ser, !.current_graph = DefaultGraph],
                   rest.text \o <<"}", "\n", "\n">>)

SwitchGraph(ser, graph) ==
    LET closed == close_current_graph(ser)
    IN  Wrote([closed.ser EXCEPT !.current_graph = graph, !.turtle = NewTurtle(ser.prefixes)],
              closed.text
              \o (IF graph = DefaultGraph THEN << >> ELSE write_graph_open(ser.prefixes, graph)))

TriGQuad(ser, quad) ==
    LET switched == IF quad.graph = ser.current_graph THEN Wrote(ser, << >>)
                    ELSE SwitchGraph(ser, quad.graph)
        indent == IF quad.graph = DefaultGraph THEN << >> ELSE <<" ">>
        triple == TurtleTriple(switched.ser.turtle, quad.triple)
    IN  Wrote([switched.ser EXCEPT !.turtle = triple.ser], switched.text \o indent \o triple.text)

TriGFinish(ser) ==
    LET closed == close_current_graph(ser)
        rest == TurtleFinish(closed.ser.turtle)
    IN  Wrote([closed.ser EXCEPT !.turtle = rest.ser], closed.text \o rest.text)
-----------------------------------------------------------------------------
(* The line formats, by the serializers and by the export writers, which   *)
(* escape IRIs.                                                            *)
LineIri(text, escapes) == InBrackets(IF escapes THEN Mapped(text, EscapeIriLine) ELSE text)

LineLiteral(lit, escapes) ==
    <<"\"">> \o escape_string(lit.value) \o <<"\"">>
    \o (IF lit.lang # None THEN <<"@">> \o lit.lang
        ELSE IF lit.datatype \notin {None, XsdIri("string")}
             THEN <<"^", "^">> \o LineIri(lit.datatype, escapes) ELSE << >>)

LineTerm(term, escapes) ==
    CASE term.kind = "iri" -> LineIri(term.text, escapes)
      [] term.kind = "blank" -> BlankText(term.label)
      [] term.kind = "literal" -> LineLiteral(term, escapes)

LineTriple(t, escapes) ==
    LineTerm(t.s, escapes) \o <<" ">> \o LineTerm(t.p, escapes) \o <<" ">> \o LineTerm(t.o, escapes)

NTriplesLine(t, escapes) == LineTriple(t, escapes) \o EndOfStatement

NQuadsLine(quad, escapes) ==
    LineTriple(quad.triple, escapes)
    \o (IF quad.graph = DefaultGraph THEN << >> ELSE <<" ">> \o LineTerm(quad.graph[1], escapes))
    \o EndOfStatement

ExportNTriplesLine(t) == NTriplesLine(t, TRUE)
write_quad_direct(quad) == NQuadsLine(quad, TRUE)

(* QuadWriter::write_quad of NQuadsWriter hands its triple to the          *)
(* N-Triples writer: the graph is not written.                             *)
TraitQuadLine(quad) == ExportNTriplesLine(quad.triple)
-----------------------------------------------------------------------------
(* TurtleWriter. *)
ExportQuoted(value) ==
    IF ToSet(value) \cap {"\n", "\r"} # {}
    THEN <<"\"", "\"", "\"">> \o write_escaped_long_string(value) \o <<"\"", "\"", "\"">>
    ELSE <<"\"">> \o escape_string(value) \o <<"\"">>

ExportLiteral(prefixes, lit) ==
    ExportQuoted(lit.value)
    \o (IF lit.lang # None THEN <<"@">> \o lit.lang
        ELSE IF lit.datatype \notin {None, XsdIri("string")}
             THEN <<"^", "^">> \o ExportIri(prefixes, lit.datatype) ELSE << >>)

ExportTerm(prefixes, term) ==
    CASE term.kind = "iri" -> ExportIri(prefixes, term.text)
      [] term.kind = "blank" -> BlankText(term.label)
      [] term.kind = "literal" -> ExportLiteral(prefixes, term)

ExportPredicate(prefixes, p) ==
    IF p = RdfIri("type") THEN <<"a">> ELSE ExportIri(prefixes, p.text)

ExportTriple(prefixes, t) ==
    ExportTerm(prefixes, t.s) \o <<" ">> \o ExportPredicate(prefixes, t.p) \o <<" ">>
    \o ExportTerm(prefixes, t.o) \o EndOfStatement

ExportPlain(prefixes, triples) ==
    LET line(t) == ExportTriple(prefixes, t)
    IN  write_prefixes(prefixes) \o Mapped(triples, line)

(* write_grouped, with the subjects and the predicates in the orders of    *)
(* two HashMaps.                                                           *)
Joined(texts, separator) ==
    FlattenSeq([i \in DOMAIN texts |-> IF i = 1 THEN texts[i] ELSE separator \o texts[i]])

ObjectList(prefixes, triples, s, p) ==
    LET said == SelectSeq(triples, LAMBDA t : t.s = s /\ t.p = p)
    IN  ExportPredicate(prefixes, p) \o <<" ">>
        \o Joined([i \in DOMAIN said |-> ExportTerm(prefixes, said[i].o)], <<",", " ">>)

SubjectBlock(prefixes, triples, s, predicates) ==
    LET own == SelectSeq(predicates, LAMBDA p : \E i \in DOMAIN triples :
                                                    triples[i].s = s /\ triples[i].p = p)
        lists == [i \in DOMAIN own |-> ObjectList(prefixes, triples, s, own[i])]
    IN  ExportTerm(prefixes, s) \o <<"\n", " ">>
        \o Joined(lists, <<" ", ";", "\n", " ">>) \o EndOfStatement

write_grouped(prefixes, triples, subjects, predicates) ==
    LET blocks == [i \in DOMAIN subjects |->
                      SubjectBlock(prefixes, triples, subjects[i], predicates[subjects[i]])]
    IN  write_prefixes(prefixes) \o Joined(blocks, <<"\n">>)
-----------------------------------------------------------------------------
(* The JSON-LD serializer and exporter.  What they write is a JSON value   *)
(* with its strings as they are written; members are in some order, as the *)
(* maps they come from.  They collect everything and write it at the end.  *)

EscapeJsonChar(c) ==
    CASE c \in {"\\", "\""} -> <<"\\", c>>
      [] c = "\n" -> <<"\\", "n">>
      [] c = "\r" -> <<"\\", "r">>
      [] c = "\t" -> <<"\\", "t">>
      [] c = "ctl" -> NumericEscape(c)
      [] OTHER -> <<c>>
escape_json_string(s) == Mapped(s, EscapeJsonChar)

MembersOf(f, Value(_)) ==
    LET keys == SetToSeq(DOMAIN f) IN [i \in DOMAIN keys |-> Member(keys[i], Value(keys[i]))]
OneOrMore(values) == IF Len(values) = 1 THEN values[1] ELSE Arr(values)
At2(f, x, default) == IF x \in DOMAIN f THEN f[x] ELSE default

(* IRIs and blank nodes are known by their texts. *)
IdText(term) == IF term.kind = "blank" THEN BlankText(term.label) ELSE term.text

CompactBy(prefixes, text, Local(_)) ==
    LET fits == {p \in DOMAIN prefixes : IsPrefixOf(prefixes[p], text)
                                         /\ Local(Behind(prefixes[p], text))}
        prefix == CHOOSE p \in fits : TRUE
    IN  IF fits = {} THEN text ELSE prefix \o <<":">> \o Behind(prefixes[prefix], text)
-----------------------------------------------------------------------------
(* JsonLdSerializer. *)
NewJsonLd(prefixes) == [prefixes |-> prefixes, nodes |-> << >>, named_graphs |-> << >>]

NoNode == [types |-> << >>, properties |-> << >>]
WithValue(node, t) ==
    IF t.p = RdfIri("type") /\ t.o.kind = "iri" THEN [node EXCEPT !.types = Append(@, t.o.text)]
    ELSE [node EXCEPT !.properties = Bind(@, t.p.text, Append(At2(@, t.p.text, << >>), t.o))]
WithTriple(nodes, t) ==
    Bind(nodes, IdText(t.s), WithValue(At2(nodes, IdText(t.s), NoNode), t))

JsonLdQuad(ser, quad) ==
    LET id == IdText(quad.graph[1])
    IN  IF quad.graph = DefaultGraph THEN [ser EXCEPT !.nodes = WithTriple(@, quad.triple)]
        ELSE [ser EXCEPT !.named_graphs = Bind(@, id, WithTriple(At2(@, id, << >>), quad.triple))]

IsJsonLocal(local) ==
    local # << >> /\ \A i \in DOMAIN local : IsWord(local[i]) \/ local[i] \in Digits \cup {"_", "-"}
JsonCompact(ser, text) == CompactBy(ser.prefixes, text, IsJsonLocal)

JsonValue(ser, term) ==
    LET value == Member(AtWord("value"), Str(escape_json_string(term.value)))
        more == CASE term.lang # None -> <<Member(AtWord("language"), Str(term.lang))>>
                  [] term.lang = None /\ term.datatype \notin {None, XsdIri("string")} ->
                         <<Member(AtWord("type"), Str(JsonCompact(ser, term.datatype)))>>
                  [] OTHER -> << >>
    IN  CASE term.kind # "literal" ->
                 Obj(<<Member(AtWord("id"), Str(escape_json_string(JsonCompact(ser, IdText(term)))))>>)
          [] term.kind = "literal" /\ term.lang = None /\ term.datatype = None -> value.value
          [] OTHER -> Obj(<<value>> \o more)

write_node_properties(ser, id, node) ==
    LET types == [i \in DOMAIN node.types |-> Str(JsonCompact(ser, node.types[i]))]
        values(p) == OneOrMore([i \in DOMAIN node.properties[p] |-> JsonValue(ser, node.properties[p][i])])
        named(m) == Member(escape_json_string(JsonCompact(ser, m.key)), m.value)
        properties == MembersOf(node.properties, values)
    IN  <<Member(AtWord("id"), Str(escape_json_string(id)))>>
        \o (IF types = << >> THEN << >> ELSE <<Member(AtWord("type"), OneOrMore(types))>>)
        \o [i \in DOMAIN properties |-> named(properties[i])]

write_nodes_array(ser, nodes) ==
    LET ids == SetToSeq(DOMAIN nodes)
    IN  [i \in DOMAIN ids |-> Obj(write_node_properties(ser, ids[i], nodes[ids[i]]))]

JsonContext(prefixes) ==
    LET namespace(p) == Str(prefixes[p])
    IN  IF DOMAIN prefixes = {} THEN << >>
        ELSE <<Member(AtWord("context"), Obj(MembersOf(prefixes, namespace)))>>

(* A comma goes before every named graph: without nodes in the default     *)
(* graph what is written is not JSON.                                      *)
write_output(ser) ==
    LET graphs == SetToSeq(DOMAIN ser.named_graphs)
        named(g) == Obj(<<Member(AtWord("id"), Str(g)),
                          Member(AtWord("graph"), Arr(write_nodes_array(ser, ser.named_graphs[g])))>>)
        nodes == write_nodes_array(ser, ser.nodes)
        graph(items) == <<Member(AtWord("graph"), Arr(items))>>
    IN  IF graphs # << >>
        THEN IF nodes = << >> THEN JsonError
             ELSE Obj(JsonContext(ser.prefixes) \o graph(nodes \o [i \in DOMAIN graphs |-> named(graphs[i])]))
        ELSE Obj(JsonContext(ser.prefixes)
                 \o (CASE Len(nodes) = 0 -> << >>
                       [] Len(nodes) = 1 -> nodes[1].members
                       [] OTHER -> graph(nodes)))
-----------------------------------------------------------------------------
(* JsonLdWriter: any rest of an IRI goes behind a prefix, types are values *)
(* like others, and the nodes are always a @graph.                         *)
ExportCompact(context, text) == CompactBy(context, text, LAMBDA rest : TRUE)

ExportJsonValue(context, term) ==
    LET value == Str(escape_json_string(term.value))
        with(word, text) == Obj(<<Member(AtWord("value"), value),
                                  Member(AtWord(word), Str(escape_json_string(text)))>>)
        id == IF term.kind = "blank" THEN BlankText(term.label)
              ELSE escape_json_string(ExportCompact(context, term.text))
    IN  CASE term.kind # "literal" -> Obj(<<Member(AtWord("id"), Str(id))>>)
          [] term.kind = "literal" /\ term.lang # None -> with("language", term.lang)
          [] term.kind = "literal" /\ term.lang = None /\ term.datatype \notin {None, XsdIri("string")} ->
                 with("type", ExportCompact(context, term.datatype))
          [] OTHER -> value

write_graph(context, triples) ==
    LET subjects == SetToSeq({IdText(triples[i].s) : i \in DOMAIN triples})
        of(s) == SelectSeq(triples, LAMBDA t : IdText(t.s) = s)
        member(s, p) ==
            LET said == SelectSeq(of(s), LAMBDA t : t.p.text = p)
            IN  Member(escape_json_string(ExportCompact(context, p)),
                       OneOrMore([i \in DOMAIN said |-> ExportJsonValue(context, said[i].o)]))
        predicates(s) == SetToSeq({of(s)[i].p.text : i \in DOMAIN of(s)})
        node(s) == Obj(<<Member(AtWord("id"), Str(escape_json_string(ExportCompact(context, s))))>>
                       \o [i \in DOMAIN predicates(s) |-> member(s, predicates(s)[i])])
    IN  Obj(JsonContext(context)
            \o <<Member(AtWord("graph"), Arr([i \in DOMAIN subjects |-> node(subjects[i])]))>>)
=============================================================================
