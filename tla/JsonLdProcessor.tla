-------------------------- MODULE JsonLdProcessor --------------------------
(***************************************************************************)
(* The JSON-LD processor (parser/src/rdf/jsonld): contexts, expansion,     *)
(* compaction, frames and the conversion to triples.  The base of a        *)
(* document ends in one of the namespaces that end in a slash, or has one. *)
(* Which of several terms stands for an IRI in compaction is up to a       *)
(* HashMap; the contexts of the instances have one.                        *)
(***************************************************************************)
EXTENDS TurtleText
-----------------------------------------------------------------------------
(* JSON values, as serde_json, which is external, holds them: an object is *)
(* the sequence of its members, in the order of their keys, and a string   *)
(* is a text.  "error" takes the place of a value where none could be had. *)

Str(text) == [kind |-> "string", text |-> text]
Num(text, type) == [kind |-> "number", text |-> text, type |-> type]   \* integer or double
Bool(text) == [kind |-> "bool", text |-> text]
Arr(items) == [kind |-> "array", items |-> items]
Obj(members) == [kind |-> "object", members |-> members]
Member(key, value) == [key |-> key, value |-> value]
Null == [kind |-> "null"]
JsonError == [kind |-> "error"]

AtWord(word) == <<"@", word>>
IsKeyword(text) == text # << >> /\ Head(text) = "@"

Has(value, key) == value.kind = "object" /\ \E i \in DOMAIN value.members : value.members[i].key = key
KeyAt(obj, key) == CHOOSE i \in DOMAIN obj.members : obj.members[i].key = key
Get(value, key) == IF Has(value, key) THEN value.members[KeyAt(value, key)].value ELSE Null
IsString(value) == value.kind = "string"

(* An insertion takes the place of the member with the key. *)
Put(obj, key, value) ==
    IF Has(obj, key) THEN Obj([obj.members EXCEPT ![KeyAt(obj, key)].value = value])
    ELSE Obj(Append(obj.members, Member(key, value)))

RECURSIVE HasError(_)
HasError(value) ==
    CASE value.kind = "error" -> TRUE
      [] value.kind = "array" -> \E i \in DOMAIN value.items : HasError(value.items[i])
      [] value.kind = "object" -> \E i \in DOMAIN value.members : HasError(value.members[i].value)
      [] OTHER -> FALSE

(* from_str of a text whose strings are as they were written: with their   *)
(* escapes, and an error if they end too early or hold control characters. *)
Unescapes(text) ==
    LET behind[q \in Nat] == q > 1 /\ text[q - 1] = "\\" /\ ~behind[q - 1]
        atom(q) ==
            IF behind[q]
            THEN CASE text[q] = "n" -> <<"\n">> [] text[q] = "r" -> <<"\r">>
                   [] text[q] = "t" -> <<"\t">> [] text[q] = "u" -> << >> [] OTHER -> <<text[q]>>
            ELSE IF text[q] = "\\" THEN << >>
            ELSE IF q > 2 /\ text[q - 1] = "u" /\ behind[q - 1] THEN <<CodePoints[text[q]]>>
            ELSE <<text[q]>>
        breaks(q) == IF behind[q] THEN text[q] \notin {"\\", "\"", "n", "r", "t", "u"}
                     ELSE text[q] \in Controls \cup {"\""} \/ (text[q] = "\\" /\ q = Len(text))
    IN  IF \E q \in DOMAIN text : breaks(q) THEN JsonError
        ELSE Str(FlattenSeq([q \in DOMAIN text |-> atom(q)]))

RECURSIVE FromText(_)
FromText(written) ==
    CASE written.kind = "string" -> Unescapes(written.text)
      [] written.kind = "array" -> Arr([i \in DOMAIN written.items |-> FromText(written.items[i])])
      [] written.kind = "object" ->
             Obj([i \in DOMAIN written.members |->
                     LET key == Unescapes(written.members[i].key)
                     IN  IF key = JsonError THEN Member(<< >>, JsonError)
                         ELSE Member(key.text, FromText(written.members[i].value))])
      [] OTHER -> written
-----------------------------------------------------------------------------

(* A text with "://" in it. *)
IsAbsolute(text) == ToSet(text) \cap NamespaceAtoms # {}

(* prefix:suffix, unless the colon is the one in a namespace. *)
Colon(text) ==
    LET at == SelectInSeq(text, LAMBDA c : c \in NamespaceAtoms \cup {":"})
    IN  IF at # 0 /\ text[at] = ":" THEN at ELSE 0
Prefix(text) == SubSeq(text, 1, Colon(text) - 1)
Suffix(text) == SubSeq(text, Colon(text) + 1, Len(text))
-----------------------------------------------------------------------------
(* Contexts.  container and reverse of a term are never asked for. *)
NoContext == [ok |-> TRUE, terms |-> << >>, base |-> None, vocab |-> None, language |-> None]
NotAContext == [NoContext EXCEPT !.ok = FALSE]
TermDefinition(iri, type_coercion, language) ==
    [iri |-> iri, type_coercion |-> type_coercion, language |-> language]
Or(text, default) == IF text # None THEN text ELSE default

merge(context, other) ==
    [ok |-> context.ok /\ other.ok,
     terms |-> other.terms @@ context.terms,
     base |-> Or(other.base, context.base),
     vocab |-> Or(other.vocab, context.vocab),
     language |-> Or(other.language, context.language)]

(* ContextResolver::expand_iri. *)
DefinedIri(text, context) ==
    CASE IsAbsolute(text) \/ IsKeyword(text) -> text
      [] ~IsAbsolute(text) /\ ~IsKeyword(text) /\ Colon(text) # 0 ->
             IF Prefix(text) \in DOMAIN context.terms
             THEN context.terms[Prefix(text)].iri \o Suffix(text) ELSE text
      [] OTHER -> IF text \in DOMAIN context.terms THEN context.terms[text].iri
                  ELSE context.vocab \o text

TextOf(value) == IF IsString(value) THEN value.text ELSE None
parse_term_definition(term, value, context) ==
    LET id == Get(value, AtWord("id"))
        coercion == Get(value, AtWord("type"))
    IN  CASE value.kind = "string" -> TermDefinition(DefinedIri(value.text, context), None, None)
          [] value.kind = "object" ->
                 TermDefinition(
                     IF IsString(id) THEN DefinedIri(id.text, context) ELSE context.vocab \o term,
                     IF IsString(coercion) THEN DefinedIri(coercion.text, context) ELSE None,
                     TextOf(Get(value, AtWord("language"))))
          [] OTHER -> TermDefinition(<< >>, None, None)

(* The members one after the other: a term can use the terms before it. *)
Defined(context, m) ==
    LET setting == m.value.kind \in {"string", "null"}
        text(default) == Or(TextOf(m.value), default)
    IN  CASE m.key = AtWord("base") -> [context EXCEPT !.base = text(@), !.ok = @ /\ setting]
          [] m.key = AtWord("vocab") -> [context EXCEPT !.vocab = text(@), !.ok = @ /\ setting]
          [] m.key = AtWord("language") -> [context EXCEPT !.language = text(@), !.ok = @ /\ setting]
          [] IsKeyword(m.key) /\ m.key \notin {AtWord("base"), AtWord("vocab"), AtWord("language")} ->
                 context
          [] OTHER ->
                 [context EXCEPT
                     !.terms = (m.key :> parse_term_definition(m.key, m.value, context)) @@ @,
                     !.ok = @ /\ m.value.kind \in {"string", "object", "null"}]
resolve_object(value, base) ==
    FoldLeft(Defined, [NoContext EXCEPT !.base = base], value.members)

(* The base is the one that is given, unless there is no context at all. *)
RECURSIVE resolve(_, _)
resolve_array(value, base) ==
    FoldLeft(LAMBDA context, item : merge(context, resolve(item, base)), NoContext, value.items)
resolve(value, base) ==
    CASE value.kind = "null" -> NoContext
      [] value.kind = "object" -> resolve_object(value, base)
      [] value.kind = "array" -> resolve_array(value, base)
      [] OTHER -> NotAContext
-----------------------------------------------------------------------------
(* Expansion. *)
expand_term(text, context) ==
    CASE IsKeyword(text) -> text
      [] ~IsKeyword(text) /\ text \in DOMAIN context.terms -> context.terms[text].iri
      [] ~IsKeyword(text) /\ text \notin DOMAIN context.terms /\ Colon(text) # 0 ->
             IF Prefix(text) \in DOMAIN context.terms
             THEN context.terms[Prefix(text)].iri \o Suffix(text) ELSE text
      [] OTHER -> IF IsAbsolute(text) THEN text ELSE context.vocab \o text

UpToSlash(base) ==
    SubSeq(base, 1, SelectLastInSubSeq(base, 1, Len(base), LAMBDA c : c \in {"/"} \cup NamespaceAtoms))
expand_iri(text, context) ==
    CASE IsAbsolute(text) \/ IsPrefixOf(<<"_", ":">>, text) -> text
      [] ~IsAbsolute(text) /\ ~IsPrefixOf(<<"_", ":">>, text) /\ context.base # None ->
             IF text # << >> /\ Head(text) = "#" THEN context.base \o text
             ELSE UpToSlash(context.base) \o text
      [] OTHER -> expand_term(text, context)

expand_type_value(value, context) ==
    LET types(items) == [i \in DOMAIN items |-> Str(expand_term(items[i].text, context))]
    IN  CASE value.kind = "string" -> Arr(types(<<value>>))
          [] value.kind = "array" -> Arr(types(SelectSeq(value.items, IsString)))
          [] OTHER -> value

Structural == {AtWord(w) : w \in {"value", "language", "list", "set", "graph", "index", "reverse"}}

RECURSIVE expand_value(_, _), expand_property_value(_, _, _)
PlainLiteral(property, text, context) ==
    LET term == IF property \in DOMAIN context.terms THEN context.terms[property].language ELSE None
        language == Or(term, context.language)
        plain == Obj(<<Member(AtWord("value"), Str(text))>>)
    IN  Arr(<<IF language = None THEN plain ELSE Put(plain, AtWord("language"), Str(language))>>)

ExpandedMember(result, m, context) ==
    LET put_property(value) ==
            IF value = Null THEN result ELSE Put(result, expand_term(m.key, context), value)
    IN  CASE m.key = AtWord("context") -> result
          [] m.key = AtWord("id") ->
                 Put(result, m.key, IF IsString(m.value) THEN Str(expand_iri(m.value.text, context))
                                    ELSE m.value)
          [] m.key = AtWord("type") -> Put(result, m.key, expand_type_value(m.value, context))
          [] m.key \in Structural -> Put(result, m.key, expand_value(m.value, context))
          [] OTHER -> put_property(expand_property_value(m.key, m.value, context))

ExpandedMembers(obj, context) ==
    LET expanded == FoldLeft(LAMBDA result, m : ExpandedMember(result, m, context),
                             Obj(<< >>), obj.members)
        or_null(result) == IF result.members = << >> THEN Null ELSE result
    IN  IF context.ok THEN or_null(expanded) ELSE JsonError
expand_object(obj, parent) ==
    ExpandedMembers(obj, IF Has(obj, AtWord("context"))
                         THEN merge(parent, resolve(Get(obj, AtWord("context")), parent.base))
                         ELSE parent)

expand_value(value, context) ==
    CASE value.kind = "object" -> expand_object(value, context)
      [] value.kind = "array" -> Arr([i \in DOMAIN value.items |-> expand_value(value.items[i], context)])
      [] OTHER -> value

expand_property_value(property, value, context) ==
    LET coerced == /\ property \in DOMAIN context.terms
                   /\ context.terms[property].type_coercion = AtWord("id")
    IN  CASE value.kind = "array" ->
                 Arr([i \in DOMAIN value.items |-> expand_property_value(property, value.items[i], context)])
          [] value.kind = "object" -> expand_object(value, context)
          [] value.kind = "string" ->
                 IF coerced
                 THEN Arr(<<Obj(<<Member(AtWord("id"), Str(expand_iri(value.text, context)))>>)>>)
                 ELSE PlainLiteral(property, value.text, context)
          [] value.kind \in {"number", "bool"} -> Arr(<<Obj(<<Member(AtWord("value"), value)>>)>>)
          [] OTHER -> value

expand_document(document, base_iri) ==
    LET context == resolve(Get(document, AtWord("context")), base_iri)
        as_array(value) == CASE HasError(value) -> JsonError
                             [] ~HasError(value) /\ value.kind = "null" -> Arr(<< >>)
                             [] OTHER -> IF value.kind = "array" THEN value ELSE Arr(<<value>>)
    IN  IF context.ok THEN as_array(expand_value(document, context)) ELSE JsonError
-----------------------------------------------------------------------------
(* JsonLdToRdf. *)
GiveIri(r, text) == IF ValidIri(text) THEN [r EXCEPT !.value = IriTerm(text)] ELSE Fail(r)
GiveNothing(r) == [r EXCEPT !.value = None]
GiveId(r, id) ==
    CASE ~IsString(id) -> Fail(r)
      [] IsString(id) /\ IsPrefixOf(<<"_", ":">>, id.text) ->
             [r EXCEPT !.value = BlankTerm(ScopedLabel(r.self, id.text[3]))]
      [] OTHER -> GiveIri(r, id.text)

get_subject(r, obj) ==
    IF Has(obj, AtWord("id")) THEN GiveId(r, Get(obj, AtWord("id"))) ELSE NextBlank(r)

NumberLiteral(value) == LiteralTerm(value.text, XsdIri(value.type), None)
BoolLiteral(value) == LiteralTerm(value.text, XsdIri("boolean"), None)
GiveLiteral(r, literal) == [r EXCEPT !.value = literal]

(* After expansion the @type of a value is an array, which is no datatype. *)
value_object_to_literal(r, obj) ==
    LET value == Get(obj, AtWord("value"))
        language == TextOf(Get(obj, AtWord("language")))
        datatype == TextOf(Get(obj, AtWord("type")))
    IN  CASE value.kind \notin {"string", "number", "bool"} -> Fail(r)
          [] value.kind \in {"string", "number", "bool"} /\ language # None ->
                 IF ValidLanguage(language) THEN GiveLiteral(r, LiteralTerm(value.text, None, language))
                 ELSE Fail(r)
          [] value.kind \in {"string", "number", "bool"} /\ language = None /\ datatype # None ->
                 IF ValidIri(datatype) THEN GiveLiteral(r, LiteralTerm(value.text, datatype, None))
                 ELSE Fail(r)
          [] OTHER -> GiveLiteral(r, CASE value.kind = "number" -> NumberLiteral(value)
                                       [] value.kind = "bool" -> BoolLiteral(value)
                                       [] OTHER -> LiteralTerm(value.text, None, None))

RECURSIVE value_to_object(_, _)
(* What was read becomes the object of a triple, unless it is nothing. *)
Said(r, s, p) ==
    IF r.ok /\ r.value # None THEN Emit(r, Triple(s, p, r.value)) ELSE r
process_property(r, s, p, value) ==
    LET process_value(at, v) == IF at.ok THEN Said(value_to_object(at, v), s, p) ELSE at
    IN  FoldLeft(process_value, r, IF value.kind = "array" THEN value.items ELSE <<value>>)

TypeTriple(r, s, type) ==
    IF ~r.ok \/ ~ValidIri(type.text) THEN Fail(r)
    ELSE Emit(r, Triple(s, RdfIri("type"), IriTerm(type.text)))
process_types(r, s, types) ==
    FoldLeft(LAMBDA at, type : TypeTriple(at, s, type), r,
             CASE types.kind = "array" -> SelectSeq(types.items, IsString)
               [] types.kind = "string" -> <<types>>
               [] OTHER -> << >>)
PropertyTriples(r, s, m) ==
    CASE ~r.ok \/ IsKeyword(m.key) -> r
      [] r.ok /\ ~IsKeyword(m.key) /\ ~ValidIri(m.key) -> Fail(r)
      [] OTHER -> process_property(r, s, IriTerm(m.key), m.value)

NodeTriples(r, node) ==
    LET typed == process_types(r, r.value, Get(node, AtWord("type")))
        rest == FoldLeft(LAMBDA at, m : PropertyTriples(at, r.value, m), typed, node.members)
    IN  IF r.ok THEN [rest EXCEPT !.value = r.value] ELSE r
process_node(r, node) ==
    IF node.kind # "object" \/ Has(node, AtWord("value")) \/ Has(node, AtWord("list"))
    THEN GiveNothing(r) ELSE NodeTriples(get_subject(r, node), node)

(* A cell, linked to the one before it; its item may come to nothing. *)
LinkedCell(r, previous) ==
    IF previous = None THEN r ELSE Emit(r, Triple(previous, RdfIri("rest"), r.value))
FilledCell(r, cell, item) ==
    [Said(value_to_object(r, item), cell, RdfIri("first")) EXCEPT !.value = cell]
AddCell(r, item) ==
    LET fill(at) == FilledCell(at, at.value, item)
    IN  IF r.ok THEN fill(LinkedCell(NextBlank(r), r.value)) ELSE r
EndOfList(r, head) ==
    IF r.ok THEN [Emit(r, Triple(r.value, RdfIri("rest"), RdfIri("nil"))) EXCEPT !.value = head]
    ELSE r
list_to_rdf(r, list) ==
    CASE list.kind # "array" -> Fail(r)
      [] list.kind = "array" /\ list.items = << >> -> [r EXCEPT !.value = RdfIri("nil")]
      [] OTHER -> EndOfList(FoldLeft(AddCell, GiveNothing(r), list.items), NextBlank(r).value)

value_to_object(r, value) ==
    CASE value.kind = "object" ->
             IF Has(value, AtWord("value")) THEN value_object_to_literal(r, value)
             ELSE IF Has(value, AtWord("id")) THEN GiveId(r, Get(value, AtWord("id")))
             ELSE IF Has(value, AtWord("list")) THEN list_to_rdf(r, Get(value, AtWord("list")))
             ELSE process_node(r, value)
      [] value.kind = "string" -> GiveLiteral(r, LiteralTerm(value.text, None, None))
      [] value.kind = "number" -> GiveLiteral(r, NumberLiteral(value))
      [] value.kind = "bool" -> GiveLiteral(r, BoolLiteral(value))
      [] value.kind = "null" -> GiveNothing(r)
      [] OTHER -> Fail(r)

convert(expanded, scope) ==
    LET start == Result(TRUE, 0, None, << >>, [scope |-> scope, counter |-> 0])
        process(at, node) == IF at.ok THEN process_node(at, node) ELSE at
    IN  IF expanded.kind = "array" THEN FoldLeft(process, start, expanded.items) ELSE Fail(start)

JsonAnswer(r) == [ok |-> r.ok, triples |-> IF r.ok THEN r.out ELSE << >>]
to_rdf(document, base_iri) ==
    IF HasError(document) THEN [ok |-> FALSE, triples |-> << >>]
    ELSE JsonAnswer(convert(expand_document(document, base_iri), 1))
-----------------------------------------------------------------------------
(* Compaction. *)
compact_iri_by(context, iri) ==
    LET iri_of(t) == context.terms[t].iri
        exact == {t \in DOMAIN context.terms : iri_of(t) = iri}
        rest(t) == SubSeq(iri, Len(iri_of(t)) + 1, Len(iri))
        fits == {t \in DOMAIN context.terms :
                    /\ IsPrefixOf(iri_of(t), iri) /\ rest(t) # << >>
                    /\ ToSet(rest(t)) \cap ({"/", "#"} \cup NamespaceAtoms) = {}}
        prefixed(t) == t \o <<":">> \o rest(t)
    IN  CASE exact # {} -> CHOOSE t \in exact : TRUE
          [] exact = {} /\ fits # {} -> prefixed(CHOOSE t \in fits : TRUE)
          [] OTHER -> iri

CompactText(context, value) ==
    IF IsString(value) THEN Str(compact_iri_by(context, value.text)) ELSE value
Unwrapped(value) ==
    IF value.kind = "array" /\ Len(value.items) = 1 THEN value.items[1] ELSE value

compact_type_value(context, value) ==
    IF value.kind # "array" THEN CompactText(context, value)
    ELSE Unwrapped(Arr([i \in DOMAIN SelectSeq(value.items, IsString) |->
                           CompactText(context, SelectSeq(value.items, IsString)[i])]))

RECURSIVE compact_value(_, _)
CompactMember(result, m, context) ==
    LET key == IF IsKeyword(m.key) THEN m.key ELSE compact_iri_by(context, m.key)
    IN  Put(result, key,
            CASE m.key = AtWord("id") -> CompactText(context, m.value)
              [] m.key = AtWord("type") -> compact_type_value(context, m.value)
              [] OTHER -> Unwrapped(compact_value(m.value, context)))
compact_object(obj, context) ==
    IF Len(obj.members) = 1 /\ Has(obj, AtWord("value")) THEN Get(obj, AtWord("value"))
    ELSE FoldLeft(LAMBDA result, m : CompactMember(result, m, context), Obj(<< >>), obj.members)
compact_value(value, context) ==
    CASE value.kind = "object" -> compact_object(value, context)
      [] value.kind = "array" -> Arr([i \in DOMAIN value.items |-> compact_value(value.items[i], context)])
      [] OTHER -> value

(* One node is the document, several are its graph. *)
WithContext(context, members) ==
    Obj((IF context = Null THEN << >> ELSE <<Member(AtWord("context"), context)>>) \o members)
Packed(context, compacted) ==
    CASE compacted.kind = "object" -> WithContext(context, compacted.members)
      [] compacted.kind = "array" ->
             IF Len(compacted.items) = 1 /\ compacted.items[1].kind = "object"
             THEN WithContext(context, compacted.items[1].members)
             ELSE WithContext(context, <<Member(AtWord("graph"), compacted)>>)
      [] OTHER -> compacted
compact(expanded, context, base_iri) ==
    LET by(resolved) == IF resolved.ok THEN Packed(context, compact_value(expanded, resolved))
                        ELSE JsonError
    IN  by(resolve(context, base_iri))
-----------------------------------------------------------------------------
(* A frame asks for nodes by a type, by an id or by both; an object is a   *)
(* wildcard.  The frame itself is not expanded.                            *)
TypeMatches(node, wanted) ==
    LET actual == Get(node, AtWord("type"))
    IN  CASE wanted.kind = "array" ->
                 actual.kind = "array" /\ ToSet(wanted.items) \cap ToSet(actual.items) # {}
          [] wanted.kind = "string" -> actual.kind = "array" /\ wanted \in ToSet(actual.items)
          [] OTHER -> wanted.kind = "object"
IdMatches(node, wanted) ==
    CASE wanted.kind = "string" -> Get(node, AtWord("id")) = wanted
      [] OTHER -> wanted.kind = "object"
node_matches_frame(node, frame) ==
    /\ node.kind = "object"
    /\ Has(frame, AtWord("type")) => TypeMatches(node, Get(frame, AtWord("type")))
    /\ Has(frame, AtWord("id")) => IdMatches(node, Get(frame, AtWord("id")))

match_frame(expanded, frame) ==
    Unwrapped(Arr(SelectSeq(expanded.items, LAMBDA node : node_matches_frame(node, frame))))

frame_document(document, frame, base_iri) ==
    LET context == Get(frame, AtWord("context"))
        reshaped(matched) == IF context = Null THEN matched ELSE compact(matched, context, base_iri)
        framed(expanded) == IF expanded = JsonError THEN JsonError
                            ELSE reshaped(match_frame(expanded, frame))
    IN  IF frame.kind # "object" THEN JsonError ELSE framed(expand_document(document, base_iri))
=============================================================================
