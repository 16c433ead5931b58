---------------------------- MODULE RdfDocuments ----------------------------
(***************************************************************************)
(* Documents from their writing to their reading.  A document is written   *)
(* by one of the crate's writers, quad by quad, or by hand, in Turtle or   *)
(* JSON-LD; it may be cut short on its way; then the reader of its format  *)
(* parses it.  An iterator reads it item by item.  What SELECT and         *)
(* CONSTRUCT answer is written in the same way and read by a client: a     *)
(* quad is then a solution of GRAPH ?g { ?s ?p ?o }, with ?g unbound in    *)
(* the default graph.                                                      *)
(***************************************************************************)
EXTENDS RdfReaders, SparqlResults, DocumentAuthors

CONSTANTS Formats,         \* the ways to write that are used
          Quads,           \* what the writers are given
          Bindings,        \* prefix -> namespace, for the writers
          Nouns, Literals, Verbs,   \* [text, term], by hand
          Namespaces,      \* what is declared by hand
          Contexts,        \* of JSON-LD documents by hand
          MaxQuads, MaxSteps

VARIABLES phase,    \* idle, writing, closed, reading, read
          format,   \* one of Formats
          ser,      \* the writer: a serializer or the prefixes of an exporter
          text, meant,   \* the document so far, and the quads it was given
          declared, \* the prefixes when the header was written
          cut,      \* the text was cut short
          doc, names, \* a document by hand, and its ex: and its base
          it, items \* the iterator, and what it answered

vars == <<phase, format, ser, text, meant, declared, cut, doc, names, it, items>>

Streaming == {"turtle", "trig"}
ByTurtleParser == {"turtle", "export", "grouped", "hand"}
LineFormats == {"ntriples", "nquads", "export_ntriples", "export_nquads", "trait_nquads"}
JsonFormats == {"jsonld", "export_jsonld"}
SolutionFormats == {"csv", "tsv", "json", "xml"}
TurtleAnswers == {"construct", "construct_pretty"}
TripleFormats == {"turtle", "export", "grouped", "ntriples", "export_ntriples", "export_jsonld",
                  "rdf_json"} \cup TurtleAnswers
Grammar == [f \in LineFormats \cup {"trig"} |->
               CASE f \in {"ntriples", "export_ntriples"} -> "ntriples"
                 [] f = "trig" -> "trig"
                 [] OTHER -> "nquads"]

Declaration(ns) == <<"@", "prefix", " ", "ex", ":", " ", "<", ns, ">", " ", ".">>
BaseDeclaration(ns) == <<"\n", "BASE", " ", "<", ns, ">">>

Init ==
    /\ phase = "idle" /\ format = "hand" /\ ser = None /\ text = << >> /\ meant = << >>
    /\ declared = << >> /\ cut = FALSE
    /\ doc = [NewDocument EXCEPT !.text = Declaration(Ex) \o BaseDeclaration(Ex)]
    /\ names = [ex |-> Ex, base |-> Ex]
    /\ it = None /\ items = << >>
-----------------------------------------------------------------------------
(* Writing.  The serializers write what they are given at once, and their  *)
(* header when they are told to; the exporter of Turtle writes it first.   *)
NewWriter(f) ==
    CASE f = "turtle" -> NewTurtle(<< >>)
      [] f = "trig" -> NewTriG(<< >>)
      [] f = "jsonld" -> NewJsonLd(<< >>)
      [] OTHER -> [prefixes |-> << >>]

Open(f) ==
    /\ phase = "idle" /\ doc.steps = 0 /\ f \in Formats \ {"hand", "json_hand"}
    /\ phase' = "writing" /\ format' = f /\ ser' = NewWriter(f)
    /\ UNCHANGED <<text, meant, declared, cut, doc, names, it, items>>

AddPrefix(p) ==
    /\ phase = "writing" /\ format \in Streaming \cup JsonFormats \cup {"export", "grouped"}
    /\ p \in DOMAIN Bindings \ DOMAIN ser.prefixes
    /\ ser' = LET with == [ser EXCEPT !.prefixes = Bind(@, p, Bindings[p])]
              IN  IF format = "trig" THEN [with EXCEPT !.turtle.prefixes = with.prefixes] ELSE with
    /\ UNCHANGED <<phase, format, text, meant, declared, cut, doc, names, it, items>>

WriteHeader ==
    /\ phase = "writing" /\ format \in Streaming /\ text = << >>
    /\ LET wrote == write_header(ser)
       IN  /\ ser' = wrote.ser /\ text' = text \o wrote.text
           /\ declared' = IF ser.header_written THEN declared ELSE ser.prefixes
    /\ UNCHANGED <<phase, format, meant, cut, doc, names, it, items>>

SerializedBy(quad) ==
    CASE format = "turtle" -> TurtleTriple(ser, quad.triple)
      [] format = "trig" -> TriGQuad(ser, quad)
      [] format = "ntriples" -> Wrote(ser, NTriplesLine(quad.triple, FALSE))
      [] format = "export_ntriples" -> Wrote(ser, ExportNTriplesLine(quad.triple))
      [] format = "nquads" -> Wrote(ser, NQuadsLine(quad, FALSE))
      [] format = "export_nquads" -> Wrote(ser, write_quad_direct(quad))
      [] format = "trait_nquads" -> Wrote(ser, TraitQuadLine(quad))
      [] format = "jsonld" -> Wrote(JsonLdQuad(ser, quad), << >>)
      [] OTHER -> Wrote(ser, << >>)

Serialize(quad) ==
    /\ phase = "writing" /\ Len(meant) < MaxQuads
    /\ format \in TripleFormats => quad.graph = DefaultGraph
    /\ LET wrote == SerializedBy(quad)
       IN  ser' = wrote.ser /\ text' = text \o wrote.text
    /\ meant' = Append(meant, quad)
    /\ UNCHANGED <<phase, format, declared, cut, doc, names, it, items>>

Triples == [i \in DOMAIN meant |-> meant[i].triple]
Variables == <<"s", "p", "o", "g">>
Solutions ==
    LET solution(q) ==
            ("s" :> q.triple.s) @@ ("p" :> q.triple.p) @@ ("o" :> q.triple.o)
            @@ (IF q.graph = DefaultGraph THEN << >> ELSE "g" :> q.graph[1])
    IN  [i \in DOMAIN meant |-> solution(meant[i])]
Finished(subjects, predicates) ==
    LET triples == Triples
    IN  CASE format = "turtle" -> TurtleFinish(ser).text
          [] format = "trig" -> TriGFinish(ser).text
          [] format = "export" -> ExportPlain(ser.prefixes, triples)
          [] format = "construct" -> construct_to_turtle(triples)
          [] format = "construct_pretty" -> construct_pretty(triples, subjects)
          [] format = "csv" -> select_to_csv(Variables, Solutions)
          [] format = "tsv" -> select_to_tsv(Variables, Solutions)
          [] format = "grouped" -> write_grouped(ser.prefixes, triples, subjects, predicates)
          [] OTHER -> << >>

(* write_grouped goes over its subjects, and over the predicates of each,  *)
(* in the order of a HashMap; so does the pretty answer of CONSTRUCT.      *)
Orders(S) == IF format \in {"grouped", "construct_pretty"} THEN SetToSeqs(S) ELSE {SetToSeq(S)}
Finish ==
    LET S == {meant[i].triple.s : i \in DOMAIN meant}
        P == {meant[i].triple.p : i \in DOMAIN meant}
    IN  /\ phase = "writing"
        /\ \E subjects \in Orders(S), predicates \in Orders(P) :
               text' = text \o Finished(subjects, [s \in S |-> predicates])
        /\ phase' = "closed"
        /\ declared' = IF format \in {"export", "grouped"} THEN ser.prefixes ELSE declared
        /\ UNCHANGED <<format, ser, meant, cut, doc, names, it, items>>
-----------------------------------------------------------------------------
(* By hand. *)
Needed(d) ==   \* the steps that still have to follow, to finish what is open
    IF IsOpen(d) THEN Len(d.frames) + CASE Top(d).at = "subject" -> 3 [] Top(d).at = "verb" -> 2
                                          [] OTHER -> 0
    ELSE 0
Hand(next) ==
    /\ phase = "idle" /\ "hand" \in Formats /\ doc' = next
    /\ next.steps + Needed(next) <= MaxSteps
    /\ UNCHANGED <<phase, format, ser, text, meant, declared, cut, names, it, items>>

WriteNoun == \E n \in Nouns : (~IsOpen(doc) \/ TakesTerm(doc)) /\ Hand(Named(doc, n.text, n.term))
WriteLiteral ==
    \E l \in Literals : IsOpen(doc) /\ Top(doc).at = "object" /\ Hand(Named(doc, l.text, l.term))
WriteVerb == \E v \in Verbs : TakesVerb(doc) /\ Hand(Verb(doc, v.text, v.term))
WriteName ==
    \/ /\ ~IsOpen(doc) \/ TakesTerm(doc)
       /\ Hand(Named(doc, <<"ex", ":", "a">>, IriTerm(<<names.ex, "a">>)))
    \/ /\ TakesVerb(doc)
       /\ Hand(Verb(doc, <<"<", "b", ">">>, IriTerm(<<names.base, "b">>)))
WriteOpening ==
    /\ ~IsOpen(doc) \/ TakesTerm(doc)
    /\ Hand(OpenProperties(doc)) \/ Hand(OpenList(doc))
WriteClosing ==
    \/ ClosesProperties(doc) /\ Hand(CloseProperties(doc))
    \/ ClosesList(doc) /\ Hand(CloseList(doc))
WriteSeparator ==
    /\ HasObject(doc) /\ Top(doc).kind # "list"
    /\ Hand(Comma(doc)) \/ Hand(Semicolon(doc))
WriteEnd == Ends(doc) /\ Hand(End(doc))

Declare(ns) ==
    /\ phase = "idle" /\ "hand" \in Formats /\ ~IsOpen(doc) /\ doc.steps < MaxSteps
    /\ \/ doc' = Write(doc, Declaration(ns)) /\ names' = [names EXCEPT !.ex = ns]
       \/ doc' = Write(doc, BaseDeclaration(ns)) /\ names' = [names EXCEPT !.base = ns]
    /\ UNCHANGED <<phase, format, ser, text, meant, declared, cut, it, items>>

WriteJson(document) ==
    /\ phase' = "closed" /\ format' = "json_hand" /\ ser' = document
    /\ UNCHANGED <<text, meant, declared, cut, doc, names, it, items>>

Author ==
    \/ WriteNoun \/ WriteLiteral \/ WriteVerb \/ WriteName \/ WriteOpening \/ WriteClosing
    \/ WriteSeparator \/ WriteEnd
    \/ \E ns \in Namespaces : Declare(ns)
-----------------------------------------------------------------------------
(* Reading. *)
AsQuads(r) ==
    [ok |-> r.ok, quads |-> [i \in DOMAIN r.triples |-> Quad(r.triples[i], DefaultGraph)]]
ParsedByTurtle(t) == AsQuads(parse(NewParser(0), t))

(* The writers of JSON-LD write everything at the end. *)
WrittenJson ==
    FromText(IF format = "jsonld" THEN write_output(ser) ELSE write_graph(ser.prefixes, Triples))

(* A client: what the rows of an answer say. *)
QuadOf(b) ==
    Quad(Triple(b["s"], b["p"], b["o"]), IF "g" \in DOMAIN b THEN <<b["g"]>> ELSE DefaultGraph)
Rows ==
    CASE format = "csv" -> ReadTable(text, TRUE)
      [] format = "tsv" -> ReadTable(text, FALSE)
      [] format = "json" -> ReadJsonBindings(FromText(select_to_json(Variables, Solutions)))
      [] format = "xml" -> ReadXmlBindings(select_to_xml(Variables, Solutions))
QuadsOf(rows) == [ok |-> TRUE, quads |-> [i \in DOMAIN rows |-> QuadOf(rows[i])]]

BlankPrefix == <<"b1">>
ParsedByRio == parse_all(BlankPrefix, RioSteps(Grammar[format], text))
Parsed ==
    CASE format \in ByTurtleParser \cup TurtleAnswers -> ParsedByTurtle(text)
      [] format \in SolutionFormats -> QuadsOf(Rows)
      [] format = "rdf_json" ->
             AsQuads([ok |-> TRUE,
                      triples |-> SetToSeq(ReadRdfJson(FromText(construct_to_rdf_json(Triples))))])
      [] format \in JsonFormats -> AsQuads(to_rdf(WrittenJson, None))
      [] OTHER -> ParsedByRio

(* RDF.INSERT without a FORMAT guesses it from the text, line by line: the *)
(* lines that are not blank and no comments, without the white space       *)
(* around them.                                                            *)
Trimmed(t) ==
    LET inner == {i \in DOMAIN t : t[i] \notin Spaces}
    IN  IF inner = {} THEN << >> ELSE SubSeq(t, Min(inner), Max(inner))
Words(t) == SelectSeq(Pieces(t, Positions(t, Spaces)), LAMBDA w : w # << >>)
StatementLines(t) ==
    LET lines == Pieces(t, Positions(t, {"\n"}))
    IN  SelectSeq([i \in DOMAIN lines |-> Trimmed(lines[i])], LAMBDA l : l # << >> /\ Head(l) # "#")

IsName(word) ==
    /\ ToSet(word) \cap ({":"} \cup NamespaceAtoms) # {}
    /\ Head(word) \notin {"<", "\"", "^"} /\ ~IsPrefixOf(<<"_", ":">>, word)
StartsGraph(line) == Head(line) = "GRAPH" /\ At(line, 2) \in {" ", "\t"}
LooksLikeTurtle(line) ==
    \/ Head(line) \in {"PREFIX", "BASE"}
    \/ Head(line) = "@" /\ At(line, 2) \in {"prefix", "base"}
    \/ Contains(line, ";")
    \/ Contains(line, ",") /\ Head(line) # "<"
    \/ Head(line) \notin {"<", "_"} /\ \E word \in ToSet(Words(line)) : IsName(word)
LooksLikeQuad(line, words) ==
    /\ Len(words) >= 4 /\ Last(line) = "."
    /\ Head(words[4]) = "<" \/ IsPrefixOf(<<"_", ":">>, words[4])
FormatOf(lines) ==
    IF \E i \in DOMAIN lines : StartsGraph(lines[i]) THEN "trig"
    ELSE IF \E i \in DOMAIN lines : LooksLikeTurtle(lines[i]) THEN "turtle"
    ELSE IF lines # << >> /\ LooksLikeQuad(Head(lines), Words(Head(lines))) THEN "nquads"
    ELSE "ntriples"
detect(t) ==
    IF At(Trimmed(t), 1) \in {"{", "["} THEN "jsonld" ELSE FormatOf(StatementLines(t))

(* N-Quads are read as triples, and all graphs become one. *)
InOneGraph(r) == [r EXCEPT !.quads = [i \in DOMAIN @ |-> Quad(@[i].triple, DefaultGraph)]]
parse_rdf(t, rdf_format) ==
    CASE rdf_format = "turtle" -> ParsedByTurtle(t)
      [] rdf_format \in {"ntriples", "nquads"} -> parse_all(None, RioSteps("ntriples", t))
      [] rdf_format = "trig" -> InOneGraph(parse_all(None, RioSteps("trig", t)))
      [] rdf_format = "jsonld" -> [ok |-> FALSE, quads |-> << >>]

CutShort(n) ==
    /\ phase = "closed" /\ format \in LineFormats \cup {"trig"} /\ ~cut
    /\ n \in DOMAIN text /\ text[n] \in Spaces
    /\ text' = SubSeq(text, 1, n) /\ cut' = TRUE
    /\ UNCHANGED <<phase, format, ser, meant, declared, doc, names, it, items>>

StartReading ==
    /\ phase = "closed" /\ format \in LineFormats \cup {"trig"}
    /\ phase' = "reading"
    /\ it' = NewCollector(BlankPrefix, RioSteps(Grammar[format], text))
    /\ UNCHANGED <<format, ser, text, meant, declared, cut, doc, names, items>>

ReadNext ==
    /\ phase = "reading"
    /\ LET item == CollectorNext(it)
       IN  /\ it' = item.it /\ items' = Append(items, [kind |-> item.kind, quad |-> item.quad])
           /\ phase' = IF item.kind = "none" THEN "read" ELSE phase
    /\ UNCHANGED <<format, ser, text, meant, declared, cut, doc, names>>

Next ==
    \/ \E f \in Formats : Open(f)
    \/ \E p \in DOMAIN Bindings : AddPrefix(p)
    \/ WriteHeader
    \/ \E q \in Quads : Serialize(q)
    \/ Finish
    \/ Author
    \/ /\ phase = "idle" /\ doc.steps = 0 /\ "json_hand" \in Formats
       /\ \E names_under \in Contexts : \E d \in DocumentsUnder(names_under) : WriteJson(d)
    \/ \E n \in DOMAIN text : CutShort(n)
    \/ StartReading
    \/ ReadNext

Spec == Init /\ [][Next]_vars
-----------------------------------------------------------------------------
(* Two sets of quads that differ in the labels of blank nodes only. *)
TermsOf(quads) == UNION {{q.triple.s, q.triple.o} \cup ToSet(q.graph) : q \in quads}
LabelsOf(quads) == {t.label : t \in {t \in TermsOf(quads) : t.kind = "blank"}}
Relabelled(quads, f) ==
    LET label(t) == IF t.kind = "blank" THEN BlankTerm(f[t.label]) ELSE t
    IN  {Quad(Triple(label(q.triple.s), q.triple.p, label(q.triple.o)),
              [i \in DOMAIN q.graph |-> label(q.graph[i])]) : q \in quads}
SameGraph(A, B) ==
    \E f \in Bijection(LabelsOf(A), LabelsOf(B)) : Relabelled(A, f) = B

(* What a format keeps of a quad.  xsd:string is not written; a number     *)
(* without quotes is what its notation says it is, and the Turtle lexer,   *)
(* not that of rio, prints it anew; NQuadsWriter's write_quad loses the    *)
(* graph; CSV has values only.                                             *)
ShortNumber(lit, rio) ==
    LET token == IF rio THEN RioLexer!read_number(lit.value, 1)
                 ELSE Lexer!read_number(lit.value, 1)
    IN  LiteralTerm(token.text, XsdIri(token.kind), None)
KeptTerm(t, rio) ==
    IF format = "csv" THEN LiteralTerm(TermValue(t), None, None)
    ELSE IF t.kind # "literal" THEN t
    ELSE IF t.datatype = XsdIri("string") THEN LiteralTerm(t.value, None, None)
    ELSE IF format = "jsonld" THEN [t EXCEPT !.datatype = None]
    ELSE IF format \in Streaming /\ HasShortForm(t) /\ t.datatype # XsdIri("boolean")
         THEN ShortNumber(t, rio) ELSE t
KeptTriple(t, rio) == Triple(KeptTerm(t.s, rio), KeptTerm(t.p, rio), KeptTerm(t.o, rio))
Kept(q) ==
    Quad(KeptTriple(q.triple, format = "trig"),
         IF format = "trait_nquads" THEN DefaultGraph
         ELSE [i \in DOMAIN q.graph |-> KeptTerm(q.graph[i], TRUE)])

(* The reader of JSON-LD passes over @graph, and with it over everything   *)
(* that is not the only node of the default graph.                         *)
UnderGraph ==
    \/ format = "export_jsonld"
    \/ format = "jsonld" /\ Cardinality({<<meant[i].graph, meant[i].triple.s>> : i \in DOMAIN meant}) > 1
KeptQuads == IF UnderGraph THEN {} ELSE {Kept(meant[i]) : i \in DOMAIN meant}

(* What comes back at all: IRIs without the characters that would have to  *)
(* be escaped, of which the Turtle reader takes those that end nothing; no *)
(* control characters through the Turtle lexer, which does not know \u; no *)
(* local name and no number that ends in a dot through the serializers,    *)
(* which write it as it is; no control characters in XML, which has none;  *)
(* no default graph left open, as TriG's is when                           *)
(* a GRAPH block begins; in JSON-LD, a node in the default graph before a  *)
(* named graph's, and of several values of a property of the only node     *)
(* none that is written as a string.                                       *)
InTheWay ==
    CASE format \in {"turtle"} \cup TurtleAnswers \cup JsonFormats -> Spaces \cup Controls \cup {"<", ">", "\\"}
      [] format \in SolutionFormats \cup {"rdf_json"} -> {}
      [] OTHER -> IriEscaped \cup Spaces
HasControls(t) == t.kind = "literal" /\ Contains(t.value, "ctl")
IsReadable(t) ==
    /\ t.kind = "iri" => ToSet(t.text) \cap InTheWay = {}
    /\ HasControls(t) => format \notin ByTurtleParser \cup {"xml"}
EndsInADot(t) ==
    \/ t.kind = "iri" /\ Last(t.text) = "."
    \/ t.kind = "literal" /\ HasShortForm(t) /\ Last(t.value) = "."
Survives(q) ==
    \A t \in {q.triple.s, q.triple.o} \cup ToSet(q.graph) :
        /\ IsReadable(t)
        /\ EndsInADot(t) => format \notin Streaming
BlocksAreClosed ==
    format = "trig" => \A i \in 2 .. Len(meant) :
        meant[i - 1].graph = DefaultGraph => meant[i].graph = DefaultGraph
IsJsonString(t) == t.kind = "literal" /\ t.datatype = None /\ t.lang = None
ReadsAsJson ==
    format = "jsonld" =>
        /\ meant # << >> => \E i \in DOMAIN meant : meant[i].graph = DefaultGraph
        /\ UnderGraph \/ \A i, j \in DOMAIN meant :
               i # j /\ meant[i].triple.p = meant[j].triple.p => ~IsJsonString(meant[i].triple.o)
WellWritten ==
    /\ \A i \in DOMAIN meant : Survives(meant[i])
    /\ BlocksAreClosed /\ ReadsAsJson
    /\ format \in Streaming => declared = ser.prefixes

(* A document that a writer finished is read back, by the reader of its    *)
(* format, as the quads that were written: the grouping by subject, the    *)
(* prefixes, the escapes and the blocks of a graph cancel out.  A client   *)
(* gets every solution of SELECT, in order and with its own variables.     *)
ReadsBack(parsed) ==
    IF format \in SolutionFormats THEN parsed.quads = [i \in DOMAIN meant |-> Kept(meant[i])]
    ELSE parsed.ok /\ SameGraph(KeptQuads, ToSet(parsed.quads))

(* RDF.INSERT never takes a document for another: the triples it inserts   *)
(* are those that were written, if it inserts any; and it refuses neither  *)
(* N-Triples nor quads in lines as long as they are in the default graph,  *)
(* nor Turtle with a header, nor TriG with a block or a header.  Only that *)
(* lines taken for Turtle must be without \u, which the Turtle lexer reads *)
(* as the letter u.                                                        *)
GuessedFormats == {"turtle", "export", "grouped", "trig"} \cup LineFormats
IsUnderstood(guess) ==
    guess = "turtle" => \A i \in DOMAIN meant : ~HasControls(meant[i].triple.o)
MustBeTaken ==
    IF format \in LineFormats
    THEN format # "trait_nquads" => \A i \in DOMAIN meant : meant[i].graph = DefaultGraph
    ELSE \/ declared # << >>
         \/ format = "trig" /\ \E i \in DOMAIN meant : meant[i].graph # DefaultGraph
InOneGraphKept(rio) ==
    {Quad(KeptTriple(meant[i].triple, rio), DefaultGraph) : i \in DOMAIN meant}
IsTaken(guess, parsed) ==
    /\ parsed.ok => SameGraph(InOneGraphKept(guess # "turtle"), ToSet(parsed.quads))
    /\ MustBeTaken => parsed.ok
GuessIsSound(guess) == IsUnderstood(guess) => IsTaken(guess, parse_rdf(text, guess))

WrittenIsReadBack ==
    phase = "closed" /\ format \notin {"hand", "json_hand"} /\ ~cut /\ WellWritten =>
        /\ ReadsBack(Parsed)
        /\ format \in GuessedFormats => GuessIsSound(detect(text))

(* The parser of Turtle answers with the triples that a document says, up  *)
(* to the labels of its blank nodes, however its lists nest and whatever   *)
(* is written close together, and refuses it when it nests too deep.       *)
SaysWhatItMeans(d, parsed) ==
    IF d.depth > MaxNestingDepth THEN ~parsed.ok
    ELSE parsed.ok /\ SameGraph({Quad(t, DefaultGraph) : t \in d.said}, ToSet(parsed.quads))
Says(triples, parsed) ==
    parsed.ok /\ SameGraph({Quad(t, DefaultGraph) : t \in triples}, ToSet(parsed.quads))
FrameFor(document) ==
    Obj(<<Member(AtWord("context"), document.context), Member(AtWord("id"), Str(document.id))>>)
Versions(document) ==   \* the document, compacted, and framed by its name
    {document.json}
    \cup (IF document.compacts
          THEN {compact(expand_document(document.json, None), document.context, None)} ELSE {})
    \cup (IF document.compacts /\ document.id # None
          THEN {frame_document(document.json, FrameFor(document), None)} ELSE {})
JsonSaysWhatItMeans(document) ==
    \A version \in Versions(document) : Says(document.said, AsQuads(to_rdf(version, None)))
DocumentsSayWhatTheyMean ==
    /\ doc.steps > 0 /\ ~IsOpen(doc) => SaysWhatItMeans(doc, ParsedByTurtle(doc.text))
    /\ format = "json_hand" => JsonSaysWhatItMeans(ser)

(* An iterator that came to its end delivered every quad once and in the   *)
(* order of the document, as far as the document goes; it reported one     *)
(* error if parse_all refuses the document, and none otherwise.            *)
Delivered == SelectSeq(items, LAMBDA i : i.kind = "quad")
ReportedErrors == Cardinality({i \in DOMAIN items : items[i].kind = "error"})
DeliveredAll(n, parsed) ==
    /\ n <= Len(meant) /\ (parsed.ok /\ ~cut => n = Len(meant))
    /\ \A i \in 1 .. n : Delivered[i].quad = convert_quad(BlankPrefix, Kept(meant[i]))
    /\ ReportedErrors = IF parsed.ok THEN 0 ELSE 1
IteratorsDeliverAllThereIs == phase = "read" /\ WellWritten => DeliveredAll(Len(Delivered), ParsedByRio)
=============================================================================
