----------------------------- MODULE RdfReaders -----------------------------
(***************************************************************************)
(* The readers of text (parser/src/formats): first the recursive descent   *)
(* over the tokens of a Turtle document (turtle/parser.rs), the parser's   *)
(* fields being a record; then those built on the rio parsers (common,     *)
(* ntriples, nquads and trig).  rio is external: it goes through a text in *)
(* steps, a line or, in TriG, a statement or a whole GRAPH block, and      *)
(* hands over the quads of a step until something is wrong in it.          *)
(***************************************************************************)
EXTENDS RdfWriters

CONSTANT MaxNestingDepth   \* MAX_NESTING_DEPTH, 128 in the code

ASSUME MaxNestingDepthAssumption == MaxNestingDepth \in Nat

Lexer == INSTANCE TurtleLexer WITH Rio <- FALSE

NewParser(scope) == [namespaces |-> with_defaults, base |-> None, scope |-> scope, counter |-> 0]

Read(r, value) == [r EXCEPT !.value = value, !.pos = @ + 1]
At1(r) == [r EXCEPT !.pos = @ + 1]
-----------------------------------------------------------------------------
(* Iri::resolve, for references that do not begin with a slash. *)
Resolve(base, text) ==
    LET fragment == SelectInSeq(base, LAMBDA c : c = "#")
        whole == IF fragment = 0 THEN base ELSE SubSeq(base, 1, fragment - 1)
        ends == IF fragment = 0 THEN {"/"} \cup NamespaceAtoms ELSE {"#"}
        slash == SelectLastInSubSeq(base, 1, Len(base), LAMBDA c : c \in ends)
    IN  IF text # << >> /\ Head(text) \in NamespaceAtoms THEN text
        ELSE IF text # << >> /\ Head(text) = "#" THEN whole \o text
        ELSE SubSeq(base, 1, slash) \o text

resolve_iri(r, text) ==
    LET iri == IF r.self.base = None THEN text ELSE Resolve(r.self.base, text)
    IN  IF ValidIri(iri) THEN Read(r, IriTerm(iri)) ELSE Fail(r)

expand_prefixed_name(r, token) ==
    IF has_prefix(r.self.namespaces, token.prefix)
    THEN Read(r, IriTerm(expand(r.self.namespaces, token.prefix, token.local)))
    ELSE Fail(r)

parse_predicate(tokens, r) ==
    LET token == tokens[r.pos]
    IN  CASE token.kind = "iri" -> resolve_iri(r, token.text)
          [] token.kind = "name" -> expand_prefixed_name(r, token)
          [] token.kind = "a" -> Read(r, RdfIri("type"))
          [] OTHER -> Fail(r)

parse_datatype_iri(tokens, r) ==
    LET token == tokens[r.pos]
    IN  CASE token.kind = "iri" -> resolve_iri(r, token.text)
          [] token.kind = "name" -> expand_prefixed_name(r, token)
          [] OTHER -> Fail(r)

Typed(value, datatype) ==
    IF datatype.ok THEN [datatype EXCEPT !.value = LiteralTerm(value, @.text, None)] ELSE datatype

parse_literal(tokens, r) ==
    LET value == tokens[r.pos].text
        behind == tokens[r.pos + 1]
    IN  CASE behind.kind = "lang" ->
                 IF ValidLanguage(behind.text)
                 THEN Read(At1(r), LiteralTerm(value, None, behind.text)) ELSE Fail(r)
          [] behind.kind = "^^" ->
                 Typed(value, parse_datatype_iri(tokens, [r EXCEPT !.pos = @ + 2]))
          [] OTHER -> Read(r, LiteralTerm(value, None, None))

RECURSIVE parse_object(_, _, _), parse_predicate_object_list(_, _, _, _),
          parse_object_list(_, _, _, _, _), parse_items(_, _, _, _)

(* A semicolon may be followed by nothing: behind the last of them, "." or *)
(* "]" or the end, the list is over.                                       *)
PastSemicolons(tokens, r) ==
    LET past[p \in Nat] == IF tokens[p].kind = ";" THEN past[p + 1] ELSE p
    IN  [r EXCEPT !.pos = past[@]]

MorePairs(tokens, objects, behind, subject, depth) ==
    IF ~objects.ok \/ behind.pos = objects.pos THEN objects
    ELSE IF tokens[behind.pos].kind \in {".", "]", "eof"} THEN behind
    ELSE parse_predicate_object_list(tokens, behind, subject, depth)

ObjectsOf(tokens, verb, subject, depth) ==
    LET objects == parse_object_list(tokens, verb, subject, verb.value, depth)
        more(r) == MorePairs(tokens, r, PastSemicolons(tokens, r), subject, depth)
    IN  IF verb.ok THEN more(objects) ELSE verb

parse_predicate_object_list(tokens, r, subject, depth) ==
    ObjectsOf(tokens, parse_predicate(tokens, r), subject, depth)

MoreObjects(tokens, object, subject, predicate, depth) ==
    LET said == Emit(object, Triple(subject, predicate, object.value))
    IN  IF ~object.ok THEN object
        ELSE IF tokens[object.pos].kind = ","
             THEN parse_object_list(tokens, At1(said), subject, predicate, depth)
             ELSE said

parse_object_list(tokens, r, subject, predicate, depth) ==
    MoreObjects(tokens, parse_object(tokens, r, depth), subject, predicate, depth)

Closed(tokens, list, node) ==
    IF list.ok /\ tokens[list.pos].kind = "]" THEN Read(list, node.value) ELSE Fail(list)
Properties(tokens, node, depth) ==
    IF tokens[node.pos].kind = "]" THEN At1(node)
    ELSE Closed(tokens, parse_predicate_object_list(tokens, node, node.value, depth), node)
parse_blank_node_property_list(tokens, r, depth) ==
    IF depth > MaxNestingDepth THEN Fail(r) ELSE Properties(tokens, NextBlank(r), depth)

(* The items from here on, of which the first belongs to the cell current. *)
Rest(tokens, first, next, current, depth) ==
    IF tokens[first.pos].kind = ")"
    THEN At1(Emit(first, Triple(current, RdfIri("rest"), RdfIri("nil"))))
    ELSE parse_items(tokens, Emit(next, Triple(current, RdfIri("rest"), next.value)),
                     next.value, depth)
MoreItems(tokens, item, current, depth) ==
    LET rest(first) == Rest(tokens, first, NextBlank(first), current, depth)
    IN  IF item.ok THEN rest(Emit(item, Triple(current, RdfIri("first"), item.value))) ELSE item
parse_items(tokens, r, current, depth) ==
    MoreItems(tokens, parse_object(tokens, r, depth + 1), current, depth)

ItemsOf(tokens, head, depth) ==
    LET headed(items) == IF items.ok THEN [items EXCEPT !.value = head.value] ELSE items
    IN  headed(parse_items(tokens, head, head.value, depth))
parse_collection(tokens, r, depth) ==
    IF depth > MaxNestingDepth THEN Fail(r)
    ELSE IF tokens[r.pos].kind = ")" THEN Read(r, RdfIri("nil"))
    ELSE ItemsOf(tokens, NextBlank(r), depth)

parse_resource(tokens, r, depth) ==
    LET token == tokens[r.pos]
    IN  CASE token.kind = "iri" -> resolve_iri(r, token.text)
          [] token.kind = "name" -> expand_prefixed_name(r, token)
          [] token.kind = "label" ->
                 Read(r, BlankTerm(ScopedLabel(r.self, Head(token.text))))
          [] token.kind = "[" -> parse_blank_node_property_list(tokens, At1(r), depth + 1)
          [] token.kind = "(" -> parse_collection(tokens, At1(r), depth + 1)
          [] OTHER -> Fail(r)

parse_subject(tokens, r, depth) ==
    IF depth > MaxNestingDepth THEN Fail(r) ELSE parse_resource(tokens, r, depth)

parse_object(tokens, r, depth) ==
    LET token == tokens[r.pos]
    IN  CASE depth > MaxNestingDepth -> Fail(r)
          [] depth <= MaxNestingDepth /\ token.kind = "string" -> parse_literal(tokens, r)
          [] depth <= MaxNestingDepth /\ token.kind \in {"integer", "decimal", "double"} ->
                 Read(r, LiteralTerm(token.text, XsdIri(token.kind), None))
          [] depth <= MaxNestingDepth /\ token.kind \in {"true", "false"} ->
                 Read(r, LiteralTerm(<<token.kind>>, XsdIri("boolean"), None))
          [] OTHER -> parse_resource(tokens, r, depth)
-----------------------------------------------------------------------------
(* The dot that ends a statement or a directive is not required. *)
PastDot(tokens, r) == IF tokens[r.pos].kind = "." THEN At1(r) ELSE r

parse_prefix_directive(tokens, r) ==
    LET name == tokens[r.pos + 1]
        iri == tokens[r.pos + 2]
    IN  IF /\ name.kind = "name" /\ name.local = << >>
           /\ iri.kind = "iri" /\ ValidIri(iri.text)
        THEN PastDot(tokens, [r EXCEPT !.pos = @ + 3,
                                       !.self.namespaces = Add(@, name.prefix, iri.text)])
        ELSE Fail(r)

parse_base_directive(tokens, r) ==
    LET iri == tokens[r.pos + 1]
    IN  IF iri.kind = "iri" /\ ValidIri(iri.text)
        THEN PastDot(tokens, [r EXCEPT !.pos = @ + 2, !.self.base = iri.text])
        ELSE Fail(r)

TriplesOf(tokens, subject) ==
    LET ended(list) == IF list.ok THEN PastDot(tokens, list) ELSE list
    IN  IF subject.ok
        THEN ended(parse_predicate_object_list(tokens, subject, subject.value, 0))
        ELSE subject
parse_triples(tokens, r) == TriplesOf(tokens, parse_subject(tokens, r, 0))

parse_statement(tokens, r) ==
    CASE tokens[r.pos].kind \in {"@prefix", "PREFIX"} -> parse_prefix_directive(tokens, r)
      [] tokens[r.pos].kind \in {"@base", "BASE"} -> parse_base_directive(tokens, r)
      [] OTHER -> parse_triples(tokens, r)

RECURSIVE parse_tokens(_, _)
parse_tokens(tokens, r) ==
    IF ~r.ok \/ tokens[r.pos].kind = "eof" THEN r
    ELSE parse_tokens(tokens, parse_statement(tokens, r))

(* An error leaves no triples, but the prefixes and the labels it used. *)
Answer(ok, r) == [ok |-> ok /\ r.ok, triples |-> IF ok /\ r.ok THEN r.out ELSE << >>, self |-> r.self]
parse(self, text) ==
    LET start == Result(TRUE, 1, None, << >>, self)
        answer(tokens) == IF Last(tokens).kind = "error" THEN Answer(FALSE, start)
                          ELSE Answer(TRUE, parse_tokens(tokens, start))
    IN  answer(Lexer!tokenize(text))
-----------------------------------------------------------------------------
(* The readers built on rio. *)

RioLexer == INSTANCE TurtleLexer WITH Rio <- TRUE

Step(ok, quads, next) == [ok |-> ok, quads |-> quads, next |-> next]
Found(term, next) == [ok |-> TRUE, term |-> term, next |-> next]
NotFound == [ok |-> FALSE, term |-> None, next |-> 0]

RioIriIsValid(text) ==
    /\ text # << >> /\ Head(text) \in NamespaceAtoms
    /\ ToSet(text) \cap (IriEscaped \cup Spaces) = {}
RioIri(text, next) == IF RioIriIsValid(text) THEN Found(IriTerm(text), next) ELSE NotFound

RioResource(tokens, p, prefixes) ==
    LET token == tokens[p]
    IN  CASE token.kind = "iri" -> RioIri(token.text, p + 1)
          [] token.kind = "name" ->
                 IF token.prefix \in DOMAIN prefixes
                 THEN RioIri(prefixes[token.prefix] \o token.local, p + 1) ELSE NotFound
          [] token.kind = "label" -> Found(BlankTerm(Head(token.text)), p + 1)
          [] token.kind = "a" -> Found(RdfIri("type"), p + 1)
          [] OTHER -> NotFound

RioTyped(value, datatype) ==
    IF datatype.ok THEN Found(LiteralTerm(value, datatype.term.text, None), datatype.next)
    ELSE NotFound
RioString(tokens, p, prefixes) ==
    LET value == tokens[p].text
        behind == tokens[p + 1]
    IN  CASE behind.kind = "lang" -> Found(LiteralTerm(value, None, behind.text), p + 2)
          [] behind.kind = "^^" -> RioTyped(value, RioResource(tokens, p + 2, prefixes))
          [] OTHER -> Found(LiteralTerm(value, None, None), p + 1)

RioTerm(tokens, p, prefixes) ==
    LET token == tokens[p]
    IN  CASE token.kind = "string" -> RioString(tokens, p, prefixes)
          [] token.kind \in {"integer", "decimal", "double"} ->
                 Found(LiteralTerm(token.text, XsdIri(token.kind), None), p + 1)
          [] token.kind \in {"true", "false"} ->
                 Found(LiteralTerm(<<token.kind>>, XsdIri("boolean"), None), p + 1)
          [] OTHER -> RioResource(tokens, p, prefixes)

(* A line of N-Triples or N-Quads: three terms, and a fourth, without the  *)
(* short forms of Turtle, and nothing behind the dot.                      *)
RioLineTerm(tokens, p) ==
    IF tokens[p].kind \in {"iri", "label", "string"} THEN RioTerm(tokens, p, << >>) ELSE NotFound
RioTerms(tokens) ==
    LET behind(term) == IF term.ok THEN RioLineTerm(tokens, term.next) ELSE NotFound
        terms[n \in Nat] ==
            IF n = 0 THEN <<Found(None, 1)>>
            ELSE Append(terms[n - 1], behind(Last(terms[n - 1])))
    IN  Tail(terms[4])
EndsLine(tokens, p) == tokens[p].kind = "." /\ tokens[p + 1].kind = "eof"
TermsOfLine(tokens, terms, quads) ==
    CASE \E i \in 1 .. 3 : ~terms[i].ok -> 0
      [] EndsLine(tokens, terms[3].next) -> 3
      [] quads /\ terms[4].ok /\ EndsLine(tokens, terms[4].next) -> 4
      [] OTHER -> 0
LineOf(terms, n) ==
    IF n = 0 THEN Step(FALSE, << >>, 0)
    ELSE Step(TRUE, <<Quad(Triple(terms[1].term, terms[2].term, terms[3].term),
                           IF n = 3 THEN DefaultGraph ELSE <<terms[4].term>>)>>, 0)
RioLine(tokens, quads) ==
    LET line(terms) == LineOf(terms, TermsOfLine(tokens, terms, quads))
    IN  IF tokens[1].kind = "eof" THEN << >> ELSE <<line(RioTerms(tokens))>>

(* The verbs and objects of a subject, in Turtle's notation. *)
RECURSIVE RioPairs(_, _, _, _, _, _), RioObjects(_, _, _, _, _, _, _)
RioMore(tokens, o, prefixes, s, v, graph, quads) ==
    LET more == Append(quads, Quad(Triple(s, v, o.term), graph))
    IN  IF ~o.ok THEN Step(FALSE, quads, 0)
        ELSE IF tokens[o.next].kind = ","
             THEN RioObjects(tokens, o.next + 1, prefixes, s, v, graph, more)
             ELSE IF tokens[o.next].kind = ";"
                  THEN RioPairs(tokens, o.next + 1, prefixes, s, graph, more)
                  ELSE Step(TRUE, more, o.next)
RioObjects(tokens, p, prefixes, s, v, graph, quads) ==
    RioMore(tokens, RioTerm(tokens, p, prefixes), prefixes, s, v, graph, quads)
RioPairs(tokens, p, prefixes, s, graph, quads) ==
    LET objects(v) == IF v.ok THEN RioObjects(tokens, v.next, prefixes, s, v.term, graph, quads)
                      ELSE Step(FALSE, quads, 0)
    IN  objects(RioResource(tokens, p, prefixes))

(* A statement and the dot behind it. *)
RioStatement(tokens, p, prefixes, graph, quads) ==
    LET ended(pairs) == IF pairs.ok /\ tokens[pairs.next].kind = "." THEN [pairs EXCEPT !.next = @ + 1]
                        ELSE [pairs EXCEPT !.ok = FALSE]
        pairs(s) == IF s.ok THEN RioPairs(tokens, s.next, prefixes, s.term, graph, quads)
                    ELSE Step(FALSE, quads, 0)
    IN  ended(pairs(RioResource(tokens, p, prefixes)))

RECURSIVE RioBlock(_, _, _, _)
RioBlock(tokens, block, prefixes, graph) ==
    IF ~block.ok THEN block
    ELSE IF tokens[block.next].kind = "}" THEN [block EXCEPT !.next = @ + 1]
    ELSE RioBlock(tokens, RioStatement(tokens, block.next, prefixes, graph, block.quads),
                  prefixes, graph)

(* GRAPH and the braces are not tokens of Turtle's: the text is cut there. *)
(* The writers have white space before them, where they are tokens.        *)
TriGTokens(text) ==
    LET token(i) == text[i] \in {"GRAPH", "{", "}"} /\ (i > 1 => text[i - 1] \in Spaces)
        cuts == SelectSeq([i \in DOMAIN text |-> i], token)
        tokens(piece) == SelectSeq(RioLexer!tokenize(piece), LAMBDA t : t.kind # "eof")
        pieces == Pieces(text, cuts)
        cut(i) == IF i > Len(cuts) THEN "eof" ELSE text[cuts[i]]
    IN  FlattenSeq([i \in DOMAIN pieces |-> tokens(pieces[i]) \o <<RioLexer!Token(cut(i), 0)>>])

TriGStep(tokens, p, prefixes) ==
    LET block(graph) ==
            IF graph.ok /\ tokens[graph.next].kind = "{"
            THEN RioBlock(tokens, Step(TRUE, << >>, graph.next + 1), prefixes, <<graph.term>>)
            ELSE Step(FALSE, << >>, 0)
    IN  IF tokens[p].kind = "GRAPH" THEN block(RioResource(tokens, p + 1, prefixes))
        ELSE RioStatement(tokens, p, prefixes, DefaultGraph, << >>)

(* The steps of a document. *)
RECURSIVE TriGSteps(_, _, _)
StepAndOn(tokens, step, prefixes) ==
    IF step.ok THEN <<step>> \o TriGSteps(tokens, step.next, prefixes) ELSE <<step>>
TriGSteps(tokens, p, prefixes) ==
    LET declares == /\ tokens[p].kind = "@prefix" /\ tokens[p + 1].kind = "name"
                    /\ tokens[p + 2].kind = "iri" /\ tokens[p + 3].kind = "."
        declared == (tokens[p + 1].prefix :> tokens[p + 2].text) @@ prefixes
    IN  IF tokens[p].kind = "eof" THEN << >>
        ELSE IF declares THEN StepAndOn(tokens, Step(TRUE, << >>, p + 4), declared)
        ELSE StepAndOn(tokens, TriGStep(tokens, p, prefixes), prefixes)

RioSteps(format, text) ==
    LET line(piece) == RioLine(RioLexer!tokenize(piece), format = "nquads")
    IN  IF format = "trig" THEN TriGSteps(TriGTokens(text), 1, << >>)
        ELSE Mapped(Pieces(text, Positions(text, {"\n"})), line)
-----------------------------------------------------------------------------
(* RioConverter. *)
convert_blank_node(blank_node_prefix, id) ==
    BlankTerm(IF blank_node_prefix = None THEN id ELSE Head(blank_node_prefix) \o "_" \o id)

convert_object(blank_node_prefix, term) ==
    IF term.kind = "blank" THEN convert_blank_node(blank_node_prefix, term.label) ELSE term

convert_triple(blank_node_prefix, t) ==
    LET converted(term) == convert_object(blank_node_prefix, term)
    IN  Triple(converted(t.s), converted(t.p), converted(t.o))

convert_quad(blank_node_prefix, quad) ==
    Quad(convert_triple(blank_node_prefix, quad.triple),
         [i \in DOMAIN quad.graph |-> convert_object(blank_node_prefix, quad.graph[i])])

Converted(blank_node_prefix, quads) ==
    [i \in DOMAIN quads |-> convert_quad(blank_node_prefix, quads[i])]
-----------------------------------------------------------------------------
(* parse_all: the first error is all the answer. *)
parse_all(blank_node_prefix, steps) ==
    IF \E i \in DOMAIN steps : ~steps[i].ok THEN [ok |-> FALSE, quads |-> << >>]
    ELSE [ok |-> TRUE,
          quads |-> FlattenSeq([i \in DOMAIN steps |-> Converted(blank_node_prefix, steps[i].quads)])]

(* The iterators: what they have of the text, and the quads of a step that *)
(* were not asked for yet.                                                 *)
NewCollector(blank_node_prefix, steps) ==
    [blank_node_prefix |-> blank_node_prefix, steps |-> steps, pending |-> << >>, finished |-> FALSE]

Item(kind, quad, it) == [kind |-> kind, quad |-> quad, it |-> it]
PopLast(it) == Item("quad", Last(it.pending), [it EXCEPT !.pending = Front(@)])
Pop(it) == Item("quad", Head(it.pending), [it EXCEPT !.pending = Tail(@)])

RECURSIVE CollectorNext(_)
CollectorNext(it) ==
    LET step == Head(it.steps)
        read == [it EXCEPT !.steps = Tail(@),
                           !.pending = Converted(it.blank_node_prefix, step.quads)]
    IN  IF it.pending # << >> THEN Pop(it)
        ELSE IF it.finished \/ it.steps = << >> THEN Item("none", None, it)
        ELSE IF ~step.ok THEN Item("error", None, [read EXCEPT !.finished = TRUE])
        ELSE IF read.pending # << >> THEN Pop(read)
        ELSE IF read.steps = << >> THEN Item("none", None, [read EXCEPT !.finished = TRUE])
        ELSE CollectorNext(read)
=============================================================================
