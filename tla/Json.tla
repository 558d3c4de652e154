---- MODULE Json ----
\* The JSON library of http/json.hpp: reading and writing texts, and pointers
\* and patches.
EXTENDS Integers, Sequences, Sample
LOCAL INSTANCE SequencesExt
LOCAL INSTANCE FiniteSets
LOCAL INSTANCE FiniteSetsExt

----
\* JSON as text (http/json.hpp, the copy of nlohmann's library that request
\* and response bodies, configuration and tokens go through): the lexer, the
\* parser and the serializer. A text is a sequence of bytes.

CONSTANTS JtBytes,         \* bytes strings are made of
          JtMaxBytes,      \* their length
          JtNumbers,       \* bytes texts of numbers are made of
          JtMaxNumber,     \* their length
          JtTokens,        \* pieces documents are made of: byte sequences
          JtMaxTokens,     \* how many
          JtValues,        \* values to write and read back
          JtMaxUnsigned,   \* the largest number_unsigned_t
          JtMaxNegative,   \* minus the smallest number_integer_t
          JtMaxOrder       \* the largest power of ten a number_float_t has

Eof == -1
CharAt(s, i) == IF i <= Len(s) THEN s[i] ELSE Eof
Quote == 34
Backslash == 92
Digits == 48..57
Rest(s, i) == SubSeq(s, i, Len(s))

----
\* The lexer. A scan returns the token and the position after it.

JtError == [type |-> "parse_error"]
JtToken(type, next) == [type |-> type, next |-> next]

HexValue(c) == CASE c \in Digits -> c - 48 [] c \in 65..70 -> c - 55 [] c \in 97..102 -> c - 87 [] OTHER -> -1

\* The four digits from i on, -1 if they are none.
get_codepoint(s, i) ==
  LET d(k) == HexValue(CharAt(s, i + k))
  IN IF \E k \in 0..3 : d(k) = -1 THEN -1 ELSE 4096 * d(0) + 256 * d(1) + 16 * d(2) + d(3)

\* A code point as UTF-8.
utf8(cp) ==
  CASE cp < 128 -> <<cp>>
    [] cp < 2048 -> <<192 + cp \div 64, 128 + (cp % 64)>>
    [] cp < 65536 -> <<224 + cp \div 4096, 128 + ((cp \div 64) % 64), 128 + (cp % 64)>>
    [] OTHER -> <<240 + cp \div 262144, 128 + ((cp \div 4096) % 64), 128 + ((cp \div 64) % 64), 128 + (cp % 64)>>

HighSurrogate == 55296..56319
LowSurrogate == 56320..57343

\* \u at i: a code point, or two that make one.
unicode_escape(s, i) ==
  LET pair(one, two) ==
        CASE one = -1 \/ one \in LowSurrogate -> [cp |-> -1, next |-> i]
          [] one \notin HighSurrogate -> [cp |-> one, next |-> i + 5]
          [] OTHER -> IF CharAt(s, i + 5) = Backslash /\ CharAt(s, i + 6) = 117 /\ two \in LowSurrogate
                      THEN [cp |-> one * 1024 + two - 56613888, next |-> i + 11]
                      ELSE [cp |-> -1, next |-> i]
  IN pair(get_codepoint(s, i + 1), get_codepoint(s, i + 7))

\* What stands after a backslash, but for \u.
Escapes == [c \in {34, 92, 47, 98, 102, 110, 114, 116} |->
              CASE c = 98 -> 8 [] c = 102 -> 12 [] c = 110 -> 10 [] c = 114 -> 13 [] c = 116 -> 9 [] OTHER -> c]

\* The three-byte forms of the surrogates let through.
continuation_Surrogates == [b \in 32..255 |-> IF b = 237 THEN <<<<128, 191>>, <<128, 191>>>> ELSE
  LET any == <<128, 191>>
  IN CASE b < 128 -> << >>
       [] b \in 194..223 -> <<any>>
       [] b = 224 -> <<<<160, 191>>, any>>
       [] b \in 225..239 -> <<any, any>>
       [] b = 240 -> <<<<144, 191>>, any, any>>
       [] b \in 241..243 -> <<any, any, any>>
       [] b = 244 -> <<<<128, 143>>, any, any>>
       [] OTHER -> <<<<1, 0>>>>]

\* What may follow a first byte: the ranges of the bytes after it.
continuation == [b \in 32..255 |->
  LET any == <<128, 191>>
  IN CASE b < 128 -> << >>
       [] b \in 194..223 -> <<any>>
       [] b = 224 -> <<<<160, 191>>, any>>
       [] b = 237 -> <<<<128, 159>>, any>>
       [] b \in 225..239 -> <<any, any>>
       [] b = 240 -> <<<<144, 191>>, any, any>>
       [] b \in 241..243 -> <<any, any, any>>
       [] b = 244 -> <<<<128, 143>>, any, any>>
       [] OTHER -> <<<<1, 0>>>>]

next_byte_in_range(s, i, ranges) == \A k \in DOMAIN ranges : CharAt(s, i + k) \in ranges[k][1]..ranges[k][2]

Control == 0..31                             \* must be escaped
Plain == 32..127 \ {Quote, Backslash}        \* stands for itself

\* From i, inside the quotes, with what the string holds so far.
RECURSIVE scan_string(_, _, _)
scan_string(s, i, buffer) ==
  LET c == CharAt(s, i)
      e == CharAt(s, i + 1)
      escaped(u) == IF u.cp = -1 THEN JtError ELSE scan_string(s, u.next, buffer \o utf8(u.cp))
  IN CASE c = Eof \/ c \in Control -> JtError
       [] c = Quote -> [type |-> "value_string", next |-> i + 1, string |-> buffer]
       [] c = Backslash /\ e \in DOMAIN Escapes -> scan_string(s, i + 2, Append(buffer, Escapes[e]))
       [] c = Backslash /\ e = 117 -> escaped(unicode_escape(s, i + 1))
       [] c = Backslash -> JtError
       [] c \in Plain -> scan_string(s, i + 1, Append(buffer, c))
       [] next_byte_in_range(s, i, continuation[c]) -> scan_string(s, i + Len(continuation[c]) + 1, buffer \o SubSeq(s, i, i + Len(continuation[c])))
       [] OTHER -> JtError

\* scan_number's labels: where a byte leads from each, "done" before the byte.
whole_step(state, c) ==
  CASE state = "init" /\ c = 45 -> "minus"
    [] state \in {"init", "minus"} /\ c = 48 -> "zero"
    [] state \in {"init", "minus", "any1"} /\ c \in Digits -> "any1"
    [] state \in {"zero", "any1"} /\ c = 46 -> "decimal1"
    [] state \in {"zero", "any1"} /\ c \in {69, 101} -> "exponent"
    [] state \in {"zero", "any1"} -> "done"
    [] OTHER -> "error"
real_step(state, c) ==
  CASE state \in {"decimal1", "decimal2"} /\ c \in Digits -> "decimal2"
    [] state = "decimal2" /\ c \in {69, 101} -> "exponent"
    [] state = "exponent" /\ c \in {43, 45} -> "sign"
    [] state \in {"exponent", "sign", "any2"} /\ c \in Digits -> "any2"
    [] state \in {"decimal2", "any2"} -> "done"
    [] OTHER -> "error"

RECURSIVE number_end(_, _, _, _)
number_end(s, i, state, real) ==
  LET c == CharAt(s, i)
      to == IF state \in {"init", "minus", "zero", "any1"} THEN whole_step(state, c) ELSE real_step(state, c)
  IN IF to \in {"done", "error"} THEN [end |-> i, ok |-> to = "done", real |-> real]
     ELSE number_end(s, i + 1, to, real \/ to \in {"decimal1", "exponent"})

DigitsValue(ds) == FoldLeft(LAMBDA n, d : 10 * n + (d - 48), 0, ds)

\* strtof: a text whose first digit counts for too large a power of ten gives
\* an infinity.
isfinite(text) ==
  LET marks(cs) == {k \in DOMAIN text : text[k] \in cs} \cup {Len(text) + 1}
      e == Min(marks({69, 101}))
      point == Min({k \in marks({46}) : k < e} \cup {e})
      first == {k \in 1..(e - 1) : text[k] \in 49..57}
      power == SelectSeq(Rest(text, e + 1), LAMBDA c : c \in Digits)
      order == (IF Min(first) < point THEN point - Min(first) - 1 ELSE point - Min(first))
               + (IF e < Len(text) /\ text[e + 1] = 45 THEN -DigitsValue(power) ELSE DigitsValue(power))
  IN first = {} \/ order <= JtMaxOrder

\* An integer that does not fit becomes a float.
scan_number(s, i) ==
  LET token(n, text, value) ==
        CASE ~n.ok -> JtError
          [] ~n.real /\ text[1] # 45 /\ value <= JtMaxUnsigned -> [type |-> "value_unsigned", next |-> n.end, number |-> value]
          [] ~n.real /\ text[1] = 45 /\ value <= JtMaxNegative -> [type |-> "value_integer", next |-> n.end, number |-> -value]
          [] OTHER -> [type |-> "value_float", next |-> n.end, text |-> text]
      ended(n) == token(n, SubSeq(s, i, n.end - 1), DigitsValue(SelectSeq(SubSeq(s, i, n.end - 1), LAMBDA c : c # 45)))
  IN ended(number_end(s, i, "init", FALSE))

scan_literal(s, i, literal, type) == IF SubSeq(s, i, i + Len(literal) - 1) = literal THEN JtToken(type, i + Len(literal)) ELSE JtError

JtTrue == <<116, 114, 117, 101>>
JtFalse == <<102, 97, 108, 115, 101>>
JtNull == <<110, 117, 108, 108>>
Structure == [c \in {91, 93, 123, 125, 58, 44} |->
  CASE c = 91 -> "begin_array" [] c = 93 -> "end_array" [] c = 123 -> "begin_object"
    [] c = 125 -> "end_object" [] c = 58 -> "name_separator" [] OTHER -> "value_separator"]

RECURSIVE skip_whitespace(_, _)
skip_whitespace(s, i) == IF CharAt(s, i) \in {32, 9, 10, 13} THEN skip_whitespace(s, i + 1) ELSE i

scan(s, from) ==
  LET i == skip_whitespace(s, from)
      c == CharAt(s, i)
  IN CASE c \in DOMAIN Structure -> JtToken(Structure[c], i + 1)
       [] c = 116 -> scan_literal(s, i, JtTrue, "literal_true")
       [] c = 102 -> scan_literal(s, i, JtFalse, "literal_false")
       [] c = 110 -> scan_literal(s, i, JtNull, "literal_null")
       [] c = Quote -> scan_string(s, i + 1, << >>)
       [] c = 45 \/ c \in Digits -> scan_number(s, i)
       [] c \in {0, Eof} -> JtToken("end_of_input", i)
       [] OTHER -> JtError

\* A byte order mark is skipped, part of one is an error.
skip_bom(s) == IF CharAt(s, 1) # 239 THEN 1 ELSE IF CharAt(s, 2) = 187 /\ CharAt(s, 3) = 191 THEN 4 ELSE 0

----
\* The parser: sax_parse_internal driving json_sax_dom_parser.

JNull == [t |-> "null"]
JBool(b) == [t |-> "boolean", b |-> b]
JUnsigned(n) == [t |-> "unsigned", n |-> n]
JInteger(n) == [t |-> "integer", n |-> n]
JFloat(text) == [t |-> "float", text |-> text]
JString(s) == [t |-> "string", s |-> s]
JArray(a) == [t |-> "array", a |-> a]
JObject(o) == [t |-> "object", o |-> o]
JDiscarded == [t |-> "discarded"]
JFinite(text) == text # << >>      \* the empty text stands for NaN and the infinities

\* A value that is complete goes where the stack says: into the array, or
\* under the key of the object, or it is the result.
handle_value(stack, v) ==
  LET top == stack[Len(stack)]
  IN IF top.t = "array" THEN [stack EXCEPT ![Len(stack)].a = Append(@, v)]
     ELSE [stack EXCEPT ![Len(stack)].o = [k \in DOMAIN @ \cup {top.key} |-> IF k = top.key THEN v ELSE @[k]]]

Frame(t) == IF t = "array" THEN [t |-> "array", a |-> << >>] ELSE [t |-> "object", o |-> << >>, key |-> << >>]
Closed(f) == IF f.t = "array" THEN JArray(f.a) ELSE JObject(f.o)

Scalar(tok) ==
  CASE tok.type = "literal_true" -> JBool(TRUE) [] tok.type = "literal_false" -> JBool(FALSE) [] tok.type = "literal_null" -> JNull
    [] tok.type = "value_unsigned" -> JUnsigned(tok.number) [] tok.type = "value_integer" -> JInteger(tok.number)
    [] tok.type = "value_float" -> JFloat(tok.text) [] OTHER -> JString(tok.string)
Scalars == {"literal_true", "literal_false", "literal_null", "value_unsigned", "value_integer", "value_float", "value_string"}

Failed == [value |-> JDiscarded, next |-> 0]
Key(stack, tok) == [stack EXCEPT ![Len(stack)].key = tok.string]

\* A member of an object, from its key on; a value that is complete, and what
\* follows it, out of as many containers as end here; the value that begins
\* with the token at i.
RECURSIVE member(_, _, _), after_value(_, _, _, _), parse_value(_, _, _)
member(s, key, stack) ==
  LET separated(colon) == IF colon.type = "name_separator" THEN parse_value(s, colon.next, Key(stack, key)) ELSE Failed
  IN IF key.type = "value_string" THEN separated(scan(s, key.next)) ELSE Failed
after_value(s, i, stack, v) ==
  LET follow(put, top, tok) ==
        CASE tok.type = "value_separator" -> IF top.t = "array" THEN parse_value(s, tok.next, put) ELSE member(s, scan(s, tok.next), put)
          [] tok.type = "end_" \o top.t -> after_value(s, tok.next, Front(put), Closed(top))
          [] OTHER -> Failed
      placed(put) == follow(put, put[Len(put)], scan(s, i))
  IN IF stack = << >> THEN [value |-> v, next |-> i] ELSE placed(handle_value(stack, v))
parse_value(s, i, stack) ==
  LET begin_array(tok, then) == IF then.type = "end_array" THEN after_value(s, then.next, stack, JArray(<< >>))
                                ELSE parse_value(s, tok.next, Append(stack, Frame("array")))
      begin_object(then) == IF then.type = "end_object" THEN after_value(s, then.next, stack, JObject(<< >>))
                            ELSE member(s, then, Append(stack, Frame("object")))
      begin(tok) == CASE tok.type = "value_float" /\ ~isfinite(tok.text) -> Failed
                      [] tok.type \in Scalars -> after_value(s, tok.next, stack, Scalar(tok))
                      [] tok.type = "begin_array" -> begin_array(tok, scan(s, tok.next))
                      [] tok.type = "begin_object" -> begin_object(scan(s, tok.next))
                      [] OTHER -> Failed
  IN begin(scan(s, i))

\* parser::parse, strict: nothing may follow the value.
json_parse(s) ==
  LET strict(r) == IF r # Failed /\ scan(s, r.next).type = "end_of_input" THEN r.value ELSE JDiscarded
  IN IF skip_bom(s) = 0 THEN JDiscarded ELSE strict(parse_value(s, skip_bom(s), << >>))

----
\* The serializer.

Unescapes == [b \in {8, 9, 10, 12, 13, 34, 92} |-> CASE b = 8 -> 98 [] b = 9 -> 116 [] b = 10 -> 110 [] b = 12 -> 102 [] b = 13 -> 114 [] OTHER -> b]
Hex(n) == IF n < 10 THEN 48 + n ELSE 87 + n

\* "\u%04x"
Escaped(n) == <<Backslash, 117, Hex(n \div 4096), Hex((n \div 256) % 16), Hex((n \div 16) % 16), Hex(n % 16)>>
Replacement(ascii) == IF ascii THEN Escaped(65533) ELSE <<239, 191, 189>>

\* One code point, in the escape it needs.
dump_codepoint(cp, bytes, ascii) ==
  CASE cp \in DOMAIN Unescapes -> <<Backslash, Unescapes[cp]>>
    [] cp \in 0..31 \/ (ascii /\ cp >= 127) -> IF cp <= 65535 THEN Escaped(cp) ELSE Escaped(55232 + cp \div 1024) \o Escaped(56320 + (cp % 1024))
    [] OTHER -> bytes

\* decode(): how far the bytes at i are the beginning of a code point (all the
\* bytes of it, or up to the byte that cannot follow).
Well(s, i) ==
  LET b == s[i]
      r == IF b < 32 THEN << >> ELSE continuation[b]
      bad == {k \in DOMAIN r : i + k > Len(s) \/ s[i + k] \notin r[k][1]..r[k][2]}
      lead == CASE Len(r) = 0 -> b [] Len(r) = 1 -> b % 32 [] Len(r) = 2 -> b % 16 [] OTHER -> b % 8
  IN IF b > 127 /\ r[1] = <<1, 0>> THEN [ok |-> FALSE, upto |-> i]
     ELSE IF bad # {} THEN [ok |-> FALSE, upto |-> i + Min(bad) - 1]
     ELSE [ok |-> TRUE, upto |-> i + Len(r), cp |-> FoldLeft(LAMBDA n, k : 64 * n + (k % 64), lead, SubSeq(s, i + 1, i + Len(r)))]

Thrown == <<0>>      \* a text no value has: the exception of the strict handler

\* dump_escaped: bytes that are no UTF-8 are refused, dropped or replaced; the
\* byte that broke a sequence is read again as the beginning of another.
RECURSIVE dump_escaped(_, _, _, _)
dump_escaped(s, i, ascii, handler) ==
  IF i > Len(s) THEN << >>
  ELSE LET d == Well(s, i)
           here == IF d.ok THEN dump_codepoint(d.cp, SubSeq(s, i, d.upto), ascii) ELSE IF handler = "replace" THEN Replacement(ascii) ELSE << >>
           rest == dump_escaped(s, d.upto + 1, ascii, handler)
       IN IF (~d.ok /\ handler = "strict") \/ rest = Thrown THEN Thrown ELSE here \o rest

RECURSIVE DecimalText(_)
DecimalText(n) == IF n < 10 THEN <<48 + n>> ELSE Append(DecimalText(n \div 10), 48 + (n % 10))
dump_integer(n) == IF n < 0 THEN <<45>> \o DecimalText(-n) ELSE DecimalText(n)

\* The shortest text that reads back as the number, or null for what JSON has
\* no number for.
dump_float(text) == IF JFinite(text) THEN text ELSE JtNull

RECURSIVE BytesBefore(_, _)
BytesBefore(a, b) == b # << >> /\ (a = << >> \/ a[1] < b[1] \/ (a[1] = b[1] /\ BytesBefore(Tail(a), Tail(b))))

\* std::map iterates in the order of the keys.
KeysOf(o) == SetToSortSeq(DOMAIN o, BytesBefore)

dump_scalar(v) ==
  CASE v.t = "null" -> JtNull
    [] v.t = "boolean" -> IF v.b THEN JtTrue ELSE JtFalse
    [] v.t \in {"unsigned", "integer"} -> dump_integer(v.n)
    [] OTHER -> dump_float(v.text)

Blanks(n) == [k \in 1..n |-> 32]

\* indent 0 is the compact form.
RECURSIVE dump(_, _, _, _)
dump(v, indent, ascii, level) ==
  LET into == level + indent
      quoted(s) == <<Quote>> \o dump_escaped(s, 1, ascii, "replace") \o <<Quote>>
      open(c) == IF indent = 0 THEN <<c>> ELSE <<c, 10>>
      close(c) == IF indent = 0 THEN <<c>> ELSE <<10>> \o Blanks(level) \o <<c>>
      comma == IF indent = 0 THEN <<44>> ELSE <<44, 10>>
      colon == IF indent = 0 THEN <<58>> ELSE <<58, 32>>
      item(k) == (IF indent = 0 THEN << >> ELSE Blanks(into)) \o
                 (IF v.t = "array" THEN dump(v.a[k], indent, ascii, into)
                  ELSE LET key == KeysOf(v.o)[k] IN quoted(key) \o colon \o dump(v.o[key], indent, ascii, into))
      items(n) == FlattenSeq([k \in 1..n |-> IF k < n THEN item(k) \o comma ELSE item(k)])
  IN CASE v.t = "string" -> quoted(v.s)
       [] v.t = "array" -> IF v.a = << >> THEN <<91, 93>> ELSE open(91) \o items(Len(v.a)) \o close(93)
       [] v.t = "object" -> IF DOMAIN v.o = {} THEN <<123, 125>> ELSE open(123) \o items(Cardinality(DOMAIN v.o)) \o close(125)
       [] OTHER -> dump_scalar(v)

\* operator==: a number is what it is worth, whatever its type.
RECURSIVE same(_, _)
same(a, b) ==
  CASE a.t \in {"unsigned", "integer"} /\ b.t \in {"unsigned", "integer"} -> a.n = b.n
    [] a.t # b.t -> FALSE
    [] a.t = "array" -> Len(a.a) = Len(b.a) /\ \A k \in DOMAIN a.a : same(a.a[k], b.a[k])
    [] a.t = "object" -> DOMAIN a.o = DOMAIN b.o /\ \A k \in DOMAIN a.o : same(a.o[k], b.o[k])
    [] OTHER -> a = b

----
JtSamples ==
  [kind : {"json_tokens"}, tokens : SeqOf(JtTokens, JtMaxTokens)]
  \cup [kind : {"json_string"}, bytes : SeqOf(JtBytes, JtMaxBytes)]
  \cup [kind : {"json_number"}, bytes : SeqOf(JtNumbers, JtMaxNumber)]
  \cup [kind : {"json_value"}, value : JtValues]

\* The grammar of RFC 8259, on the tokens of a document.
RECURSIVE IsJson(_), IsList(_, _)
IsJson(ts) ==
  LET inner == SubSeq(ts, 2, Len(ts) - 1)
  IN CASE ts = << >> -> FALSE
       [] Len(ts) = 1 -> ts[1][1] = Quote \/ ts[1][1] \in Digits
       [] ts[1] = <<91>> /\ Last(ts) = <<93>> -> inner = << >> \/ IsList(inner, FALSE)
       [] ts[1] = <<123>> /\ Last(ts) = <<125>> -> inner = << >> \/ IsList(inner, TRUE)
       [] OTHER -> FALSE
IsList(ts, keyed) ==
  LET item(x) == IF keyed THEN Len(x) > 2 /\ x[1][1] = Quote /\ x[2] = <<58>> /\ IsJson(Rest(x, 3)) ELSE IsJson(x)
  IN item(ts) \/ \E k \in DOMAIN ts : ts[k] = <<44>> /\ item(SubSeq(ts, 1, k - 1)) /\ IsList(Rest(ts, k + 1), keyed)

\* A number of the grammar: [-] int [frac] [exp].
IsDigits(x) == x # << >> /\ \A k \in DOMAIN x : x[k] \in Digits
IsWhole(x) == IsDigits(x) /\ (x[1] = 48 => Len(x) = 1)
IsExp(x) == x # << >> /\ x[1] \in {69, 101} /\ (IsDigits(Tail(x)) \/ (Len(x) > 2 /\ x[2] \in {43, 45} /\ IsDigits(Rest(x, 3))))
IsNumber(x) ==
  LET u == IF x # << >> /\ x[1] = 45 THEN Tail(x) ELSE x
      after(y) == y = << >> \/ IsExp(y)
  IN \E k \in 1..Len(u) : /\ IsWhole(SubSeq(u, 1, k))
       /\ \/ after(Rest(u, k + 1))
          \/ k < Len(u) /\ u[k + 1] = 46 /\ \E m \in (k + 2)..Len(u) : IsDigits(SubSeq(u, k + 2, m)) /\ after(Rest(u, m + 1))

\* Well-formed UTF-8: the encodings of code points, one after the other.
RECURSIVE IsUtf8(_)
IsUtf8(x) ==
  x = << >> \/ \E n \in 1..4 :
    /\ n <= Len(x)
    /\ LET lead == CASE n = 1 -> x[1] [] n = 2 -> x[1] - 192 [] n = 3 -> x[1] - 224 [] OTHER -> x[1] - 240
           cp == FoldLeft(LAMBDA c, b : 64 * c + (b - 128), lead, SubSeq(x, 2, n))
       IN lead >= 0 /\ (\A k \in 2..n : x[k] \in 128..191) /\ cp \in 0..1114111 /\ cp \notin HighSurrogate
             \cup LowSurrogate /\ utf8(cp) = SubSeq(x, 1, n)
    /\ IsUtf8(Rest(x, n + 1))

Spaced(tokens) == FlattenSeq([k \in DOMAIN tokens |-> tokens[k] \o <<32>>])

\* The texts a case has read, and as what: the value, or that there is one, that
\* there is none, or that it is text; Unreadable is a text that is never read.
Taken == [t |-> "taken"]
Utf8 == [t |-> "utf8"]
Unreadable == [t |-> "refused"]
Reading(text, as) == [text |-> text, as |-> as, whole |-> FALSE]
Quoted(x) == <<Quote>> \o x \o <<Quote>>
Readings ==
  CASE sample.kind = "json_tokens" -> {Reading(Spaced(sample.tokens), IF IsJson(sample.tokens) THEN Taken ELSE JDiscarded)}
    [] sample.kind = "json_string" ->
         LET x == sample.bytes
             written(h, text) == IF h = "strict" /\ ~IsUtf8(x) THEN Reading(text, Unreadable)
                                 ELSE Reading(Quoted(text), IF IsUtf8(x) THEN JString(x) ELSE Utf8)
         IN {written(h, dump_escaped(x, 1, ascii, h)) : h \in {"strict", "ignore", "replace"}, ascii \in BOOLEAN}
            \cup {Reading(Quoted(y), IF IsUtf8(y) /\ \A k \in DOMAIN y : y[k] \notin Control THEN JString(y) ELSE JDiscarded) :
                    y \in {x} \cap Seq(0..255 \ {Quote, Backslash})}
    [] sample.kind = "json_number" ->
         {[Reading(sample.bytes, IF IsNumber(sample.bytes) /\ isfinite(sample.bytes) THEN Taken ELSE JDiscarded) EXCEPT !.whole = TRUE]}
    [] sample.kind = "json_value" ->
         {Reading(dump(sample.value, indent, ascii, 0), sample.value) : indent \in {0, 2}, ascii \in BOOLEAN}
    [] OTHER -> {}

\* What the library reads is JSON and nothing else, and what it writes reads
\* back as the same value: a document is taken exactly when it follows the
\* grammar (duplicate keys included); a string of bytes is taken raw exactly
\* when it is UTF-8 without control characters, quotes and backslashes; it is
\* written, escaped or not, to a text that is read back as the same bytes, or,
\* if it is no UTF-8, refused under the strict handler and read back as text
\* under the others; a number's text is taken exactly when it is one, but for
\* those too large for any type, and an integer is written as it was read.
\* (json.hpp:7626, 8341, 12348, 18115, 18399.)
JsonExact ==
  \A r \in Readings : \A back \in {json_parse(r.text)} :
    CASE r.as = Taken -> back # JDiscarded /\ (r.whole /\ back.t # "float" => dump_integer(back.n) = r.text \/ r.text = <<45, 48>>)
      [] r.as = Utf8 -> back.t = "string" /\ IsUtf8(back.s)
      [] r.as = Unreadable -> r.text = Thrown
      [] OTHER -> same(back, r.as)

----
\* Pointers into JSON values, flattening, patches and what they are computed
\* from (http/json.hpp: json_pointer, patch_inplace, diff, merge_patch).

CONSTANTS JpPairs,         \* pairs of values to compare and merge
          JpPointers       \* texts of pointers: byte sequences

Tilde == 126
Slash == 47
Dash == <<45>>
NoIndex == -1
JpFailed == [t |-> "thrown"]

----
\* json_pointer

RECURSIVE replace_substring(_, _, _)
replace_substring(s, f, t) ==
  IF Len(s) < Len(f) THEN s
  ELSE IF SubSeq(s, 1, Len(f)) = f THEN t \o replace_substring(Rest(s, Len(f) + 1), f, t)
  ELSE <<s[1]>> \o replace_substring(Tail(s), f, t)

escape(s) == replace_substring(replace_substring(s, <<Tilde>>, <<Tilde, 48>>), <<Slash>>, <<Tilde, 49>>)

\* The other order: "~01" becomes "/".
unescape_TildeFirst(s) == replace_substring(replace_substring(s, <<Tilde, 48>>, <<Tilde>>), <<Tilde, 49>>, <<Slash>>)

unescape(s) == replace_substring(replace_substring(s, <<Tilde, 49>>, <<Slash>>), <<Tilde, 48>>, <<Tilde>>)
EscapesFine(token) == \A k \in DOMAIN token : token[k] = Tilde => k < Len(token) /\ token[k + 1] \in {48, 49}

RECURSIVE SplitAt(_)

\* The pieces between the slashes.
SplitAt(s) ==
  LET at == {k \in DOMAIN s : s[k] = Slash}
  IN IF at = {} THEN <<s>> ELSE <<SubSeq(s, 1, Min(at) - 1)>> \o SplitAt(Rest(s, Min(at) + 1))

\* The reference tokens, none if the text is no pointer.
split(s) ==
  IF s = << >> THEN [ok |-> TRUE, tokens |-> << >>]
  ELSE LET raw == SplitAt(Tail(s))
       IN [ok |-> s[1] = Slash /\ \A k \in DOMAIN raw : EscapesFine(raw[k]), tokens |-> [k \in DOMAIN raw |-> unescape(raw[k])]]

to_string(tokens) == FlattenSeq([k \in DOMAIN tokens |-> <<Slash>> \o escape(tokens[k])])

array_index(token) ==
  IF token = << >> \/ (\E k \in DOMAIN token : token[k] \notin Digits) \/ (Len(token) > 1 /\ token[1] = 48) THEN NoIndex ELSE DigitsValue(token)

Has(v, token) ==
  \/ v.t = "object" /\ token \in DOMAIN v.o
  \/ v.t = "array" /\ array_index(token) \in 0..(Len(v.a) - 1)
Child(v, token) == IF v.t = "object" THEN v.o[token] ELSE v.a[array_index(token) + 1]
WithChild(v, token, c) == IF v.t = "object" THEN JObject([k \in DOMAIN v.o \cup {token} |-> IF k = token THEN c ELSE v.o[k]])
                          ELSE JArray([v.a EXCEPT ![array_index(token) + 1] = c])

\* get_checked: the value at the pointer, or an exception.
RECURSIVE get_checked(_, _)
get_checked(v, tokens) ==
  IF tokens = << >> THEN v ELSE IF Has(v, Head(tokens)) THEN get_checked(Child(v, Head(tokens)), Tail(tokens)) ELSE JpFailed

\* The value with the one at the pointer, which is there, replaced.
RECURSIVE Assign(_, _, _)
Assign(v, tokens, new) == IF tokens = << >> THEN new ELSE WithChild(v, Head(tokens), Assign(Child(v, Head(tokens)), Tail(tokens), new))

\* get_and_create, and the assignment: what is missing on the way is made.
RECURSIVE get_and_create(_, _, _)
get_and_create(v, tokens, new) ==
  IF tokens = << >> THEN new
  ELSE LET token == Head(tokens)
           i == array_index(token)
           base == CASE v.t # "null" -> v [] token = <<48>> -> JArray(<< >>) [] OTHER -> JObject(<< >>)
           room == IF base.t = "array" /\ i >= Len(base.a) THEN JArray(base.a \o [k \in 1..(i + 1 - Len(base.a)) |-> JNull]) ELSE base
           had == IF Has(room, token) THEN Child(room, token) ELSE JNull
           made == get_and_create(had, Tail(tokens), new)
       IN IF base.t \notin {"array", "object"} \/ (base.t = "array" /\ i = NoIndex) \/ made = JpFailed THEN JpFailed ELSE WithChild(room, token, made)

\* The primitive values and where they are; an empty container counts as null.
RECURSIVE flatten(_, _)
flatten(text, v) ==
  LET join(parts) == UNION {flatten(text \o <<Slash>> \o p[1], p[2]) : p \in parts}
  IN CASE v.t = "array" /\ v.a # << >> -> join({<<DecimalText(k - 1), v.a[k]>> : k \in DOMAIN v.a})
       [] v.t = "object" /\ DOMAIN v.o # {} -> join({<<escape(k), v.o[k]>> : k \in DOMAIN v.o})
       [] v.t \in {"array", "object"} -> {<<text, JNull>>}
       [] OTHER -> {<<text, v>>}

\* The members of a flattened object, in the order a std::map has them.
unflatten(flat) ==
  FoldLeft(LAMBDA v, m : IF v = JpFailed \/ ~split(m[1]).ok THEN JpFailed ELSE get_and_create(v, split(m[1]).tokens, m[2]),
           JNull, SetToSortSeq(flat, LAMBDA x, y : BytesBefore(x[1], y[1])))

----
\* Patches: sequences of operations, with the paths as text.

PutIn(parent, token, v) ==
  LET i == array_index(token)
  IN CASE parent.t \in {"null", "object"} -> WithChild(IF parent.t = "null" THEN JObject(<< >>) ELSE parent, token, v)
       [] parent.t = "array" /\ token = Dash -> JArray(Append(parent.a, v))
       [] parent.t = "array" /\ i \in 0..Len(parent.a) -> JArray(InsertAt(parent.a, i + 1, v))
       [] parent.t = "array" -> JpFailed
       [] OTHER -> parent       \* JSON_ASSERT(false), and nothing without it

operation_add(doc, tokens, v) ==
  IF tokens = << >> THEN v
  ELSE LET parent == get_checked(doc, Front(tokens))
           put == PutIn(parent, Last(tokens), v)
       IN IF parent = JpFailed \/ put = JpFailed THEN JpFailed ELSE Assign(doc, Front(tokens), put)

\* A child of a primitive value is not there, and is removed all the same.
operation_remove(doc, tokens) ==
  LET parent == get_checked(doc, Front(tokens))
      token == Last(tokens)
  IN CASE tokens = << >> \/ parent = JpFailed -> JpFailed
       [] parent.t = "object" -> IF token \in DOMAIN parent.o THEN Assign(doc, Front(tokens),
             JObject([k \in DOMAIN parent.o \ {token} |-> parent.o[k]])) ELSE JpFailed
       [] parent.t = "array" -> IF Has(parent, token) THEN Assign(doc, Front(tokens), JArray(RemoveAt(parent.a,
             array_index(token) + 1))) ELSE JpFailed
       [] OTHER -> doc

\* One operation; members that are not there, or an unknown name, throw.
patch_operation(doc, op) ==
  LET at == split(op.path)
      from == split(op.from)
      moved == get_checked(doc, from.tokens)
      there == get_checked(doc, at.tokens)
      removed == operation_remove(doc, from.tokens)
  IN CASE ~at.ok \/ (op.op \in {"move", "copy"} /\ ~from.ok) -> JpFailed
       [] op.op = "add" -> operation_add(doc, at.tokens, op.value)
       [] op.op = "remove" -> operation_remove(doc, at.tokens)
       [] op.op = "replace" -> IF there = JpFailed THEN JpFailed ELSE Assign(doc, at.tokens, op.value)
       [] op.op = "move" -> IF moved = JpFailed \/ removed = JpFailed THEN JpFailed ELSE operation_add(removed, at.tokens, moved)
       [] op.op = "copy" -> IF moved = JpFailed THEN JpFailed ELSE operation_add(doc, at.tokens, moved)
       [] op.op = "test" -> IF there # JpFailed /\ same(there, op.value) THEN doc ELSE JpFailed
       [] OTHER -> JpFailed

patch(doc, ops) == FoldLeft(LAMBDA d, op : IF d = JpFailed THEN d ELSE patch_operation(d, op), doc, ops)

PatchOp(name, path, value) == [op |-> name, path |-> path, value |-> value, from |-> << >>]
Under(path, token) == path \o <<Slash>> \o token

\* The removals in the order of the elements.
diff_Forward(source, target, path) ==
  IF source.t = "array" /\ target.t = "array" /\ Len(source.a) > Len(target.a)
  THEN [k \in 1..(Len(source.a) - Len(target.a)) |-> PatchOp("remove", Under(path, DecimalText(Len(target.a) + k - 1)), JNull)]
  ELSE IF same(source, target) THEN << >> ELSE <<PatchOp("replace", path, target)>>

\* diff: elements in common first, then the source's remaining from the end on,
\* or the target's; members of the source, then the target's own.
RECURSIVE diff(_, _, _)
diff(source, target, path) ==
  LET least == Min({Len(source.a), Len(target.a)})
      more(n) == n - least
  IN CASE same(source, target) -> << >>
       [] source.t # target.t \/ source.t \notin {"array", "object"} -> <<PatchOp("replace", path, target)>>
       [] source.t = "array" ->
            FlattenSeq([k \in 1..least |-> diff(source.a[k], target.a[k], Under(path, DecimalText(k - 1)))])
            \o [k \in 1..more(Len(source.a)) |-> PatchOp("remove", Under(path, DecimalText(Len(source.a) - k)), JNull)]
            \o [k \in 1..more(Len(target.a)) |-> PatchOp("add", Under(path, Dash), target.a[least + k])]
       [] OTHER ->
            FlattenSeq([k \in DOMAIN KeysOf(source.o) |->
              LET key == KeysOf(source.o)[k]
              IN IF key \in DOMAIN target.o THEN diff(source.o[key], target.o[key], Under(path, escape(key)))
                 ELSE <<PatchOp("remove", Under(path, escape(key)), JNull)>>])
            \o LET new == SelectSeq(KeysOf(target.o), LAMBDA k : k \notin DOMAIN source.o)
               IN [k \in DOMAIN new |-> PatchOp("add", Under(path, escape(new[k])), target.o[new[k]])]

RECURSIVE merge_patch(_, _)
merge_patch(v, p) ==
  IF p.t # "object" THEN p
  ELSE LET base == IF v.t = "object" THEN v.o ELSE << >>
           gone == {k \in DOMAIN p.o : p.o[k].t = "null"}
       IN JObject([k \in (DOMAIN base \cup DOMAIN p.o) \ gone |->
            IF k \in DOMAIN p.o THEN merge_patch(IF k \in DOMAIN base THEN base[k] ELSE JNull, p.o[k]) ELSE base[k]])

----
JpSamples == [kind : {"json_pair"}, pair : JpPairs] \cup [kind : {"json_value"}, value : {p[1] : p \in JpPairs}]
      \cup [kind : {"json_pointer"}, text : JpPointers]

\* The value with every empty container taken for null.
RECURSIVE Hollow(_), NoZeroKey(_)
Hollow(v) ==
  CASE v.t = "array" -> IF v.a = << >> THEN JNull ELSE JArray([k \in DOMAIN v.a |-> Hollow(v.a[k])])
    [] v.t = "object" -> IF DOMAIN v.o = {} THEN JNull ELSE JObject([k \in DOMAIN v.o |-> Hollow(v.o[k])])
    [] OTHER -> v

\* An object with the key "0" flattens to what an array does.
NoZeroKey(v) ==
  CASE v.t = "array" -> \A k \in DOMAIN v.a : NoZeroKey(v.a[k])
    [] v.t = "object" -> <<48>> \notin DOMAIN v.o /\ \A k \in DOMAIN v.o : NoZeroKey(v.o[k])
    [] OTHER -> TRUE

\* Every value inside, with the pointer to it.
RECURSIVE Places(_, _)
Places(v, tokens) ==
  {tokens} \cup CASE v.t = "array" -> UNION {Places(v.a[k], Append(tokens, DecimalText(k - 1))) : k \in DOMAIN v.a}
                  [] v.t = "object" -> UNION {Places(v.o[k], Append(tokens, k)) : k \in DOMAIN v.o}
                  [] OTHER -> {}

\* A patch does what it is for: the difference of two values, applied to the
\* first, gives the second, whatever characters the keys are of and however
\* the lengths of arrays differ; a value moved or copied is found where it was
\* sent, and is gone from where it was moved from; merging sets what the patch
\* sets, drops what it nulls, keeps the rest, and merging again changes
\* nothing; a value survives flattening but for its empty containers, unless a
\* key looks like an index; a pointer's text comes back from its tokens.
\* (json.hpp:2990, 14471, 14540, 24001, 24282, 24424.)
PatchesTrue ==
  CASE sample.kind = "json_pair" ->
         LET a == sample.pair[1]
             b == sample.pair[2]
         IN /\ \A ops \in {diff(a, b, << >>)} : \A patched \in {patch(a, ops)} : same(patched, b)
            /\ \A merged \in {merge_patch(a, b)} :
                 /\ merge_patch(merged, b) = merged
                 /\ b.t = "object" => \A k \in DOMAIN b.o :
                      IF b.o[k] = JNull THEN k \notin DOMAIN merged.o ELSE b.o[k].t # "object" => merged.o[k] = b.o[k]
    [] sample.kind = "json_value" ->
         LET a == sample.value
         IN /\ NoZeroKey(a) => \A flat \in {flatten(<< >>, a)} : \A back \in {unflatten(flat)} : same(back, Hollow(a))
            /\ \A p \in Places(a, << >>) : \A v \in {get_checked(a, p)} :
                 /\ v # JpFailed
                 /\ \A q \in {q \in Places(a, << >>) : ~IsPrefix(p, q) /\ q # << >>}, name \in {"copy", "move"} :
                      \A op \in {[op |-> name, from |-> to_string(p), path |-> to_string(q), value |-> JNull]} : \A c \in {patch(a, <<op>>)} :
                        /\ c = JpFailed => name = "move"
                        /\ c # JpFailed => /\ \A w \in {get_checked(c, q)} : same(w, v)
                                           /\ patch(c, <<[op EXCEPT !.op = "test", !.value = v]>>) = c
    [] sample.kind = "json_pointer" -> split(sample.text).ok => to_string(split(sample.text).tokens) = sample.text
    [] OTHER -> TRUE
====
