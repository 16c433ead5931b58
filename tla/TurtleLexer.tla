---------------------------- MODULE TurtleLexer ----------------------------
(***************************************************************************)
(* The tokens of a Turtle document (parser/src/formats/turtle/lexer.rs).   *)
(* A token is a record with its kind and with the position behind it;      *)
(* "error" is a lexer error, after which there is no token.                *)
(*                                                                         *)
(* With Rio it is the lexer of the external readers of the other formats,  *)
(* as far as the writers' output goes: \uXXXX is the character it means,   *)
(* and a number keeps its text.                                            *)
(***************************************************************************)
EXTENDS TurtleText

CONSTANT Rio   \* in BOOLEAN

Token(kind, next) == [kind |-> kind, next |-> next]
TextToken(kind, t, next) == [kind |-> kind, text |-> t, next |-> next]
LexError == Token("error", 0)
First(text, p, S) == Min({q \in p .. Len(text) : q \in S} \cup {Len(text) + 1})

is_pn_chars_u(c) == IsWord(c) \/ c = "_"
is_pn_chars(c) == is_pn_chars_u(c) \/ c \in Digits \cup {"-"}
-----------------------------------------------------------------------------
unescape_char(c) ==
    CASE c = "n" -> "\n" [] c = "r" -> "\r" [] c = "t" -> "\t" [] OTHER -> c

(* escaped[q]: the atom at q was taken together with a backslash before it. *)
Escaped(text, p) ==
    LET escaped[q \in Nat] == q > p /\ At(text, q - 1) = "\\" /\ ~escaped[q - 1] IN escaped

Unescaped(text, p, next) ==
    LET escaped == Escaped(text, p)
        atom(q) ==
            IF escaped[q]
            THEN IF Rio /\ text[q] = "u" THEN <<CodePoints[text[q + 1]]>>
                 ELSE <<unescape_char(text[q])>>
            ELSE IF text[q] = "\\" THEN << >>
            ELSE IF Rio /\ q > p /\ text[q - 1] = "u" /\ escaped[q - 1] THEN << >>
            ELSE <<text[q]>>
    IN  FlattenSeq([i \in 1 .. next - p |-> atom(p + i - 1)])

read_iri_ref(text, p) ==
    LET escaped == Escaped(text, p + 1)
        plain(q, c) == text[q] = c /\ ~escaped[q]
        close == First(text, p + 1, {q \in p + 1 .. Len(text) : plain(q, ">")})
    IN  IF \/ close > Len(text)
           \/ \E q \in p + 1 .. close - 1 : \E c \in {"<"} \cup (Spaces \ {" "}) : plain(q, c)
        THEN LexError
        ELSE TextToken("iri", Unescaped(text, p + 1, close), close + 1)

read_string_literal(text, p) ==
    LET quote == text[p]
        long == At(text, p + 1) = quote /\ At(text, p + 2) = quote
        start == IF long THEN p + 3 ELSE p + 1
        escaped == Escaped(text, start)
        closes(q) == /\ text[q] = quote /\ ~escaped[q]
                     /\ long => At(text, q + 1) = quote /\ At(text, q + 2) = quote
        close == First(text, start, {q \in start .. Len(text) : closes(q)})
    IN  IF ~long /\ At(text, p + 1) = quote THEN TextToken("string", << >>, p + 2)
        ELSE IF \/ close > Len(text)
                \/ ~long /\ \E q \in start .. close - 1 : text[q] \in {"\n", "\r"} /\ ~escaped[q]
             THEN LexError
             ELSE TextToken("string", Unescaped(text, start, close),
                            close + (IF long THEN 3 ELSE 1))

WordEnd(text, p) == First(text, p, {q \in p .. Len(text) : ~is_pn_chars(text[q])})
read_word(text, p) == SubSeq(text, p, WordEnd(text, p) - 1)

read_at_keyword(text, p) ==
    LET word == read_word(text, p + 1)
        next == WordEnd(text, p + 1)
    IN  IF word = <<"prefix">> \/ word = <<"base">> THEN Token("@" \o Head(word), next)
        ELSE TextToken("lang", word, next)

(* A name with dots inside.  The dot behind it has been consumed when the  *)
(* lexer sees that the name does not go on: it is dropped.                 *)
IsNamePart(c, local) == is_pn_chars(c) \/ (local /\ c \in {":", "%", "\\"})
DottedName(text, p, local) ==
    LET goes_on(q) == \/ IsNamePart(text[q], local)
                      \/ text[q] = "." /\ IsNamePart(At(text, q + 1), local)
        stop == First(text, p, {q \in p .. Len(text) : ~goes_on(q)})
    IN  [name |-> SubSeq(text, p, stop - 1),
         next |-> IF stop > p /\ At(text, stop) = "." THEN stop + 1 ELSE stop]

read_blank_node_label(text, p) ==
    LET label == DottedName(text, p + 2, FALSE)
    IN  IF At(text, p + 1) # ":" THEN LexError
        ELSE IF ~(is_pn_chars_u(At(text, p + 2)) \/ At(text, p + 2) \in Digits) THEN LexError
        ELSE TextToken("label", label.name, label.next)

read_pn_local(text, p) ==
    IF IsNamePart(At(text, p), TRUE) /\ At(text, p) # "-" THEN DottedName(text, p, TRUE)
    ELSE [name |-> << >>, next |-> p]

PrefixedName(text, p, prefix) ==
    LET local == read_pn_local(text, p)
    IN  [kind |-> "name", prefix |-> prefix, local |-> local.name, next |-> local.next]

read_double_caret(text, p) ==
    IF At(text, p + 1) = "^" THEN Token("^^", p + 2) ELSE LexError

(* An integer with a dot behind it: the dot has been consumed.  The only   *)
(* exponent used is 0.                                                     *)
read_number(text, p) ==
    LET start == IF text[p] \in {"+", "-"} THEN p + 1 ELSE p
        sign == IF text[p] = "-" THEN <<"-">> ELSE << >>
        whole == At(text, start) \in Digits
        point == IF whole THEN start + 1 ELSE start
        fraction == At(text, point) = "." /\ At(text, point + 1) \in Digits
        behind == IF fraction THEN point + 2 ELSE point
        exponent == At(text, behind) \in {"e", "E"}
        value == IF Rio THEN SubSeq(text, p, behind - 1) \o (IF exponent THEN <<"e", "0">> ELSE << >>)
                 ELSE sign \o (IF whole THEN AsInteger[text[start]] ELSE <<"0">>)
                 \o (IF fraction THEN AsFraction[text[point + 1]] ELSE << >>)
    IN  IF At(text, point) = "." /\ ~fraction
        THEN IF whole THEN TextToken("integer", value, point + 1) ELSE Token(".", point + 1)
        ELSE IF ~whole /\ ~fraction THEN LexError
        ELSE IF exponent THEN TextToken("double", value, behind + 2)
        ELSE TextToken(IF fraction THEN "decimal" ELSE "integer", value, behind)

read_prefixed_name_from_word(text, p) ==
    LET word == read_word(text, p)
        next == WordEnd(text, p)
    IN  IF At(text, next) = ":" THEN PrefixedName(text, next + 1, word) ELSE LexError

Keywords == {<<"PREFIX">>, <<"BASE">>, <<"true">>, <<"false">>}

next_token(text, p) ==
    LET c == text[p]
        word == read_word(text, p)
    IN  CASE c = "<" -> read_iri_ref(text, p)
          [] c \in {"\"", "'"} -> read_string_literal(text, p)
          [] c = "@" -> read_at_keyword(text, p)
          [] c = "_" -> read_blank_node_label(text, p)
          [] c \in {".", ";", ",", "[", "]", "(", ")"} -> Token(c, p + 1)
          [] c = "^" -> read_double_caret(text, p)
          [] c \in {"+", "-"} \cup Digits -> read_number(text, p)
          [] c = "a" /\ ~is_pn_chars(At(text, p + 1)) /\ At(text, p + 1) # ":" -> Token("a", p + 1)
          [] word \in Keywords -> Token(Head(word), WordEnd(text, p))
          [] IsWord(c) /\ word \notin Keywords
             /\ (c = "a" => is_pn_chars(At(text, p + 1)) \/ At(text, p + 1) = ":")
             -> read_prefixed_name_from_word(text, p)
          [] c = ":" -> PrefixedName(text, p + 1, << >>)
          [] OTHER -> LexError

skip_whitespace_and_comments(text, p) ==
    LET skipped[q \in Nat] ==
            IF At(text, q) \in Spaces THEN skipped[q + 1]
            ELSE IF At(text, q) = "#"
                 THEN skipped[First(text, q, {r \in q .. Len(text) : text[r] = "\n"})]
            ELSE q
    IN  skipped[p]

RECURSIVE TokensFrom(_, _)
AndOn(text, token) ==
    IF token.kind = "error" THEN <<token>>
    ELSE <<token>> \o TokensFrom(text, skip_whitespace_and_comments(text, token.next))
TokensFrom(text, p) ==
    IF p > Len(text) THEN <<Token("eof", p)>> ELSE AndOn(text, next_token(text, p))

tokenize(text) == TokensFrom(text, skip_whitespace_and_comments(text, 1))
=============================================================================
