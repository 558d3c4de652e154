---- MODULE Http1Parser ----
\* The HTTP/1.1 request parser (Http1Parser.cpp) around llhttp, which is
\* external: a walk over the symbols of the stream that calls back and may be
\* paused. Symbols arrive in pieces of any size; a coroutine may keep a
\* request while the next ones are parsed. A client pipelines requests
\*   [line, fields, body, kind]
\* of so many symbols; kind is "plain", "chunked", "upgrade", "badEscape" (the
\* path cannot be decoded), or llhttp refuses the first symbol: "garbage", or
\* "noMethod" (a method token that it does not know).
EXTENDS Naturals, Sequences, FiniteSets

CONSTANTS HpStreams,   \* the sequences of requests that clients send
          HpMaxLine, HpMaxHeaderBytes, HpMaxHeaders, HpMaxBody  \* Http1Parser::Limits

Refused == {"garbage", "noMethod"}
HpRequests == {r \in [line : Nat, fields : Nat, body : Nat, kind : {"plain", "chunked", "upgrade", "badEscape"} \cup Refused] :
                 r.kind = "upgrade" => r.body = 0}

ASSUME HpAssumption ==
  /\ \A sent \in HpStreams : sent \in Seq(HpRequests) /\ sent # << >>
  /\ HpMaxLine \in Nat /\ HpMaxHeaderBytes \in Nat /\ HpMaxHeaders \in Nat /\ HpMaxBody \in Nat

VARIABLES hpSent,      \* the requests the client sends
          hpFed,       \* how many symbols the parser has consumed
          hp,          \* the members of Http1Parser::Impl and what llhttp remembers
          hpStore,     \* the Messages by identity: the bodies that requests point into
          hpHeld,      \* Messages that a coroutine still holds, and the bodies it was given
          hpDone       \* the requests that were reported complete, and their bodies

hpVars == <<hpSent, hpFed, hp, hpStore, hpHeld, hpDone>>

\* The symbols of the i-th request: what each is, and the how manieth of it.
SymbolsOf(r, i) ==
  LET sym(what, n) == [k \in 1 .. n |-> [of |-> i, is |-> what, at |-> k]]
  IN IF r.kind \in Refused THEN sym(r.kind, 1)
     ELSE sym("line", r.line) \o sym("field", r.fields) \o sym("end", 1) \o sym("body", r.body)
            \o sym("last", IF r.kind = "chunked" THEN 1 ELSE 0)

\* The symbols of the whole stream.
Symbols(sent) ==
  LET upto[i \in 0 .. Len(sent)] == IF i = 0 THEN << >> ELSE upto[i - 1] \o SymbolsOf(sent[i], i)
  IN upto[Len(sent)]

NewMessage == [line |-> 0, headers |-> 0, header_bytes |-> 0, body_bytes |-> 0, headers_done |-> FALSE, message_done |-> FALSE,
               has_body |-> FALSE, upgrade |-> FALSE, handler |-> 0, body |-> << >>]

\* event, used: what llhttp_execute stopped for, and after how many symbols.
Parser == [m |-> NewMessage, failed |-> FALSE, error_status |-> 0, owes_upgrade |-> FALSE, message |-> 1, event |-> "NeedMore", used |-> 0]

HpInit ==
  /\ hpSent \in HpStreams /\ hpFed = 0
  /\ hp = Parser /\ hpStore = <<<< >>>> /\ hpHeld = {} /\ hpDone = << >>

fail_with(h, status) ==
  [h EXCEPT !.failed = TRUE, !.error_status = IF h.failed THEN @ ELSE status, !.event = "Error"]

on_url(h) ==
  LET g == [h EXCEPT !.m.line = @ + 1] IN IF g.m.line > HpMaxLine THEN fail_with(g, 431) ELSE g

on_header_field_complete(h) ==
  IF h.m.headers + 1 > HpMaxHeaders THEN fail_with(h, 431) ELSE [h EXCEPT !.m.headers = @ + 1]

on_message_complete(h) ==
  [h EXCEPT !.m.message_done = TRUE, !.event = "MessageComplete"]

\* The declared length is checked before any of the body is read; with a body
\* to come the parser pauses, so that the caller can stream it.
on_headers_complete(h, r) ==
  LET g == [h EXCEPT !.m.headers_done = TRUE, !.m.has_body = r.body > 0 \/ r.kind = "chunked",
                     !.m.upgrade = r.kind = "upgrade", !.owes_upgrade = r.kind = "upgrade"]
  IN CASE r.kind = "badEscape" -> fail_with(g, 400)
       [] r.kind = "plain" /\ r.body > HpMaxBody -> fail_with(g, 413)
       [] r.kind \notin {"badEscape"} /\ ~(r.kind = "plain" /\ r.body > HpMaxBody) ->
            IF g.m.has_body THEN [g EXCEPT !.event = "HeadersComplete"] ELSE on_message_complete(g)

on_body_bytes(h, c, r) ==
  LET g == [h EXCEPT !.m.body_bytes = @ + 1, !.m.body = Append(@, <<c.of, c.at>>)]
  IN CASE g.m.body_bytes > HpMaxBody -> fail_with(g, 413)
       [] g.m.body_bytes <= HpMaxBody /\ c.at = r.body /\ r.kind = "plain" -> on_message_complete(g)
       [] OTHER -> g

\* An llhttp error that no callback explained.
fail_from_llhttp(h, is) == fail_with(h, IF is = "noMethod" THEN 501 ELSE 400)

\* llhttp_execute, one symbol at a time until a callback pauses or fails.
Step(h, c) ==
  LET r == hpSent[c.of]
      g == [h EXCEPT !.used = @ + 1]
  IN IF h.event # "NeedMore" THEN h
     ELSE CASE c.is = "line" -> on_url(g)
            [] c.is = "field" -> on_header_field_complete(g)
            [] c.is = "end" -> on_headers_complete(g, r)
            [] c.is = "body" -> on_body_bytes(g, c, r)
            [] c.is = "last" -> on_message_complete(g)
            [] OTHER -> fail_from_llhttp(g, c.is)

\* feed() of h on a piece of the stream. A pause that llhttp owes from an
\* upgrade the caller declined is cleared, and the piece parsed as HTTP.
HpFeed(h, piece) ==
  LET start == [h EXCEPT !.event = "NeedMore", !.used = 0, !.owes_upgrade = FALSE]
      run[k \in 0 .. Len(piece)] == IF k = 0 THEN start ELSE Step(run[k - 1], piece[k])
      end == run[Len(piece)]
      total == end.m.header_bytes + end.used
      counted == [end EXCEPT !.m.header_bytes = total]
  IN CASE h.failed -> [h EXCEPT !.event = "Error", !.used = 0]
       [] ~h.failed /\ h.m.message_done -> [h EXCEPT !.event = "MessageComplete", !.used = 0]
       [] ~h.failed /\ ~h.m.message_done /\ ~h.m.headers_done /\ ~end.failed ->
            IF total > HpMaxHeaderBytes THEN fail_with(counted, 431) ELSE counted
       [] OTHER -> end

\* The caller's side: a piece is fed, and what was not consumed is fed again. A
\* complete request is noted, with its buffered body, or the one its handler
\* got.
FeedPiece(n) ==
  LET h == HpFeed(hp, SubSeq(Symbols(hpSent), hpFed + 1, hpFed + n))
  IN /\ ~hp.failed /\ ~hp.m.message_done
     /\ hp' = h /\ hpFed' = hpFed + h.used
     /\ hpStore' = IF h.m.handler > 0 THEN hpStore ELSE [hpStore EXCEPT ![h.message] = h.m.body]
     /\ hpDone' = IF h.event = "MessageComplete" THEN Append(hpDone, [body |-> h.m.body, handler |-> h.m.handler]) ELSE hpDone
     /\ UNCHANGED <<hpSent, hpHeld>>

\* set_body_handler, at HeadersComplete.
set_body_handler ==
  /\ hp.event = "HeadersComplete" /\ hp.m.handler = 0
  /\ hp' = [hp EXCEPT !.m.handler = Len(hpDone) + 1]
  /\ UNCHANGED <<hpSent, hpFed, hpStore, hpHeld, hpDone>>

\* A coroutine handler keeps the request, and with it the Message, and lets go.
Hold ==
  /\ hp.event = "MessageComplete" /\ \A x \in hpHeld : x.message # hp.message
  /\ hpHeld' = hpHeld \cup {[message |-> hp.message, body |-> hpStore[hp.message]]}
  /\ UNCHANGED <<hpSent, hpFed, hp, hpStore, hpDone>>
LetGo ==
  /\ \E x \in hpHeld : hpHeld' = hpHeld \ {x}
  /\ UNCHANGED <<hpSent, hpFed, hp, hpStore, hpDone>>

\* next() and reset_message(): a Message that somebody holds is left to him.
next_Reused ==
  /\ hp.m.message_done /\ ~hp.failed
  /\ hp' = [hp EXCEPT !.m = NewMessage, !.event = "NeedMore"]
  /\ hpStore' = [hpStore EXCEPT ![hp.message] = << >>]
  /\ UNCHANGED <<hpSent, hpFed, hpHeld, hpDone>>

next ==
  LET held == \E x \in hpHeld : x.message = hp.message
  IN /\ hp.m.message_done /\ ~hp.failed
     /\ hp' = [hp EXCEPT !.m = NewMessage, !.event = "NeedMore", !.message = IF held THEN Len(hpStore) + 1 ELSE @]
     /\ hpStore' = IF held THEN Append(hpStore, << >>) ELSE [hpStore EXCEPT ![hp.message] = << >>]
     /\ UNCHANGED <<hpSent, hpFed, hpHeld, hpDone>>

HpNext ==
  \/ \E n \in 1 .. Len(Symbols(hpSent)) - hpFed : FeedPiece(n)
  \/ set_body_handler \/ Hold \/ LetGo \/ next

HpSpec == HpInit /\ [][HpNext]_hpVars

\* HttpParser::parse: one request, out of bytes that are all there.
parse_whole ==
  LET all == Symbols(hpSent)
      one == HpFeed(Parser, all)
      two == HpFeed(one, SubSeq(all, one.used + 1, Len(all)))
  IN CASE one.event = "MessageComplete" -> one.m.body
       [] one.event = "HeadersComplete" /\ two.event = "MessageComplete" -> two.m.body
       [] OTHER -> <<"nullopt">>

----
HpTypeOK == hpFed \in 0 .. Len(Symbols(hpSent)) /\ hp.message \in DOMAIN hpStore

\* What the limits say of a request, as the options' comments put it.
Fits(r) ==
  /\ r.kind \notin Refused \cup {"badEscape"}
  /\ r.line <= HpMaxLine /\ r.fields <= HpMaxHeaders /\ r.line + r.fields + 1 <= HpMaxHeaderBytes /\ r.body <= HpMaxBody

\* The statuses that a request may be refused with: each needs its own cause.
Causes(r) ==
  CASE r.kind = "noMethod" -> {501}
    [] r.kind = "garbage" -> {400}
    [] r.kind \notin Refused ->
         {s \in {400, 413, 431} :
            \/ s = 400 /\ r.kind = "badEscape"
            \/ s = 413 /\ r.body > HpMaxBody
            \/ s = 431 /\ (r.line > HpMaxLine \/ r.fields > HpMaxHeaders \/ r.line + r.fields + 1 > HpMaxHeaderBytes)}

BodyOf(i) == [k \in 1 .. hpSent[i].body |-> <<i, k>>]

\* However the bytes are cut into pieces: the requests that are reported are
\* those that were sent, in order, each with its own whole body, in the buffer
\* or at the handler installed for it; the parser fails at the first request
\* that breaks a limit or the grammar, and at no other, with a status that
\* names what is wrong with it (Http1Parser.hpp:85); with every byte fed
\* nothing whole is held back; and a request that a coroutine holds keeps its
\* body while later ones are parsed (Http1Parser.cpp:76-86, 193-196, 246-254,
\* 262-269).
RequestsWhole ==
  /\ \A i \in DOMAIN hpDone : hpDone[i].body = BodyOf(i) /\ hpDone[i].handler \in {0, i} /\ Fits(hpSent[i])
  /\ hp.failed => ~Fits(hpSent[Len(hpDone) + 1]) /\ hp.error_status \in Causes(hpSent[Len(hpDone) + 1])
  /\ hpFed = Len(Symbols(hpSent)) /\ ~hp.failed => Len(hpDone) = Len(hpSent)
  /\ hpFed < Len(Symbols(hpSent)) /\ hp.event = "HeadersComplete" /\ ~hp.failed => hp.m.has_body
  /\ \A x \in hpHeld : hpStore[x.message] = x.body
  /\ hp.m.message_done /\ hp.m.handler = 0 => hpStore[hp.message] = hp.m.body
  /\ hpFed = 0 => parse_whole = IF Fits(hpSent[1]) THEN BodyOf(1) ELSE <<"nullopt">>
====
