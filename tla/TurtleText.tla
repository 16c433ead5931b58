----------------------------- MODULE TurtleText -----------------------------
(***************************************************************************)
(* Text and terms as the readers and the writers see them.  A text is a    *)
(* sequence of atoms: one character of punctuation, or a run of letters, a *)
(* run of digits or a namespace, which no operation looks into.  "ctl"     *)
(* stands for a control character that is not white space.                 *)
(***************************************************************************)
EXTENDS Integers, Sequences, SequencesExt, FiniteSets, FiniteSetsExt, Functions, TLC

(* The runs of digits that are used, with what they print as after being   *)
(* parsed as an i64 and, behind a point, as part of an f64.                *)
AsInteger == ("0" :> <<"0">>) @@ ("5" :> <<"5">>) @@ ("05" :> <<"5">>) @@ ("50" :> <<"50">>)
AsFraction == ("0" :> << >>) @@ ("5" :> <<".", "5">>) @@ ("05" :> <<".", "05">>)
              @@ ("50" :> <<".", "5">>)

Digits == DOMAIN AsInteger
Spaces == {" ", "\n", "\r", "\t"}
Controls == {"\n", "\r", "\t", "ctl"}
IriEscaped == {"<", ">", "\"", "{", "}", "|", "^", "backquote", "\\", "ctl"}
Punctuation == Spaces \cup IriEscaped
               \cup {"'", "@", "_", ".", ";", ",", "[", "]", "(", ")", "+", "-", ":", "#", "%", "/"}

Rdf == "http://www.w3.org/1999/02/22-rdf-syntax-ns#"
Xsd == "http://www.w3.org/2001/XMLSchema#"
Rdfs == "http://www.w3.org/2000/01/rdf-schema#"
Owl == "http://www.w3.org/2002/07/owl#"
Ex == "http://example.org/"
NamespaceAtoms == {Rdf, Xsd, Rdfs, Owl, Ex}

IsWord(a) == a \notin Punctuation \cup Digits \cup NamespaceAtoms \cup {"end"}
At(text, p) == IF p \in 1 .. Len(text) THEN text[p] ELSE "end"

(* Numeric escapes, four digits of them. *)
CodePoints == ("0000" :> "ctl") @@ ("003C" :> "<") @@ ("003E" :> ">") @@ ("0022" :> "\"")
              @@ ("007B" :> "{") @@ ("007D" :> "}") @@ ("007C" :> "|") @@ ("005E" :> "^")
              @@ ("0060" :> "backquote") @@ ("005C" :> "\\") @@ ("0020" :> " ") @@ ("000A" :> "\n")
              @@ ("000D" :> "\r") @@ ("0009" :> "\t")
HexOf(c) == CHOOSE h \in DOMAIN CodePoints : CodePoints[h] = c
NumericEscape(c) == <<"\\", "u", HexOf(c)>>

(* Terms: an IRI by its text, a blank node by its label, a literal by its  *)
(* text with the datatype and the language that were given explicitly.     *)
IriTerm(t) == [kind |-> "iri", text |-> t]
BlankTerm(l) == [kind |-> "blank", label |-> l]
LiteralTerm(v, dt, lang) == [kind |-> "literal", value |-> v, datatype |-> dt, lang |-> lang]
None == << >>
RdfIri(name) == IriTerm(<<Rdf, name>>)
XsdIri(name) == <<Xsd, name>>

(* Iri::new: an absolute IRI without the characters that end one. *)
ValidIri(text) ==
    /\ \E i \in DOMAIN text : text[i] \in NamespaceAtoms \cup {":"}
    /\ \A i \in DOMAIN text : text[i] \notin Controls \cup {" ", "<", ">"}

(* Language tags begin with a letter and have no "_". *)
ValidLanguage(lang) ==
    lang # << >> /\ IsWord(Head(lang)) /\ \A i \in DOMAIN lang : lang[i] # "_"

IsPrefixOf(s, t) == Len(s) <= Len(t) /\ SubSeq(t, 1, Len(s)) = s
Positions(text, S) == SelectSeq([p \in DOMAIN text |-> p], LAMBDA p : text[p] \in S)
Pieces(text, cuts) ==   \* what is between the positions
    LET ends == <<0>> \o cuts \o <<Len(text) + 1>>
    IN  [i \in 1 .. Len(cuts) + 1 |-> SubSeq(text, ends[i] + 1, ends[i + 1] - 1)]
Mapped(s, F(_)) == FlattenSeq([i \in DOMAIN s |-> F(s[i])])
Triple(s, p, o) == [s |-> s, p |-> p, o |-> o]
-----------------------------------------------------------------------------
(* What a call of a recursive reader gives: the position behind what was   *)
(* read, what was read, the triples so far and the reader after the call,  *)
(* whose changes outlive an error.  The reader names its blank nodes in    *)
(* its scope: the labels of the document and, for the nodes without one,   *)
(* numbers.                                                                *)
Result(ok, pos, value, out, self) ==
    [ok |-> ok, pos |-> pos, value |-> value, out |-> out, self |-> self]
Fail(r) == [r EXCEPT !.ok = FALSE]
Emit(r, triple) == [r EXCEPT !.out = Append(@, triple)]

(* BlankNodeScope::map.  The map of a reader only remembers its answers. *)
ScopedLabel(self, l) == "g" \o ToString(self.scope) \o "_" \o l

NextBlankAgain(r) ==
    [r EXCEPT !.value = BlankTerm(ScopedLabel(r.self, ToString(r.self.counter)))]

(* BlankNodeScope::next. *)
NextBlank(r) ==
    [r EXCEPT !.value = BlankTerm(ScopedLabel(r.self, ToString(r.self.counter))),
              !.self.counter = @ + 1]
-----------------------------------------------------------------------------
(* NamespaceRegistry: prefixes and the namespaces they stand for, in both  *)
(* directions (parser/src/rdf/namespace.rs).  A prefix, a namespace, a     *)
(* local name and an IRI are texts.                                        *)
EmptyRegistry == [prefix_to_ns |-> << >>, ns_to_prefix |-> << >>]

Bind(f, x, y) == (x :> y) @@ f
Unbind(f, x) == Restrict(f, DOMAIN f \ {x})

(* The old namespace of the prefix is no longer contracted. *)
Add(registry, prefix, namespace) ==
    LET old == IF prefix \in DOMAIN registry.prefix_to_ns
               THEN Unbind(registry.ns_to_prefix, registry.prefix_to_ns[prefix])
               ELSE registry.ns_to_prefix
    IN  [prefix_to_ns |-> Bind(registry.prefix_to_ns, prefix, namespace),
         ns_to_prefix |-> Bind(old, namespace, prefix)]

with_defaults ==
    LET add(registry, b) == Add(registry, b[1], b[2])
    IN  FoldLeft(add, EmptyRegistry,
                 <<<< <<"rdf">>, <<Rdf>> >>, << <<"rdfs">>, <<Rdfs>> >>,
                   << <<"xsd">>, <<Xsd>> >>, << <<"owl">>, <<Owl>> >> >>)

has_prefix(registry, prefix) == prefix \in DOMAIN registry.prefix_to_ns
get_namespace(registry, prefix) == registry.prefix_to_ns[prefix]

expand(registry, prefix, local) == get_namespace(registry, prefix) \o local
=============================================================================
