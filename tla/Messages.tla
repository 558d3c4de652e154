---- MODULE Messages ----
\* What handlers and middleware build on: responses, which own the file they
\* send (http/HttpResponse.cpp), and the values a request carries from
\* middleware to handler (http/RequestContext.hpp, http/HttpRequest.hpp); and
\* what the operator sees of the requests (middleware/Observability.cpp).
EXTENDS Integers, Sequences, FiniteSets, FiniteSetsExt

CONSTANTS MsObjects,       \* HttpResponse objects
          MsFds,           \* file descriptors
          MsSizes,         \* sizes of files and bodies
          MsTypes,         \* types stored in a RequestContext
          MsInline,        \* its inline slots
          MsMaxSets        \* values stored

VARIABLES msRes,           \* object -> its state, MsGone when destroyed
          msOpen,          \* the descriptors that are open
          msClosed,        \* closes of a descriptor that was not open
          msLate,          \* objects given a body after a file: see FramingSound
          msSlots,         \* RequestContext: inline_ and overflow_, one after the other
          msWant,          \* type -> the value set last, 0 if none
          msRefs,          \* type -> the slot its reference points at
          msSets           \* values set so far

msVars == <<msRes, msOpen, msClosed, msLate, msSlots, msWant, msRefs, msSets>>

MsNoFd == 0

ASSUME MsAssumption == MsFds \subseteq Nat \ {MsNoFd} /\ MsSizes \subseteq Nat /\ MsInline \in Nat

MsFresh == [status |-> 200, fd |-> MsNoFd, size |-> 0, offset |-> 0, body |-> 0, length |-> -1, cookies |-> 0, chunked |-> FALSE]
MsGone == [status |-> 0]
MsFree == [key |-> "void", value |-> 0, used |-> FALSE]
MsAlive(o) == msRes[o] # MsGone

MsInit ==
  /\ msRes = [o \in MsObjects |-> MsFresh] /\ msOpen = {} /\ msClosed = 0 /\ msLate = {}
  /\ msSlots = [i \in 1..MsInline |-> MsFree]
  /\ msWant = [t \in MsTypes |-> 0] /\ msRefs = [t \in MsTypes |-> 0] /\ msSets = 0

----
\* HttpResponse

\* utils::file::close of a descriptor a response has.
MsClose(fds) == msOpen' = msOpen \ fds /\ msClosed' = msClosed + Cardinality(fds \ msOpen)

set_body(r, size) == [r EXCEPT !.body = size, !.length = size]
MsContext == <<msSlots, msWant, msRefs, msSets>>

MsSetBody(o) ==
  /\ MsAlive(o)
  /\ \E size \in MsSizes : msRes' = [msRes EXCEPT ![o] = set_body(@, size)]
  /\ msLate' = IF msRes[o].fd # MsNoFd THEN msLate \cup {o} ELSE msLate
  /\ UNCHANGED <<msOpen, msClosed, MsContext>>

\* A file given before is closed; opening or fstat can fail.
MsSendFile(o) ==
  /\ MsAlive(o)
  /\ LET had == IF msRes[o].fd = MsNoFd THEN {} ELSE {msRes[o].fd}
     IN \/ /\ MsClose(had)
           /\ \E status \in {404, 500} : msRes' = [msRes EXCEPT ![o] = set_body([@ EXCEPT !.fd = MsNoFd, !.offset = 0, !.status = status], 1)]
           /\ msLate' = msLate \ {o}
        \/ \E fd \in MsFds \ msOpen, size \in MsSizes :
             /\ msOpen' = (msOpen \ had) \cup {fd} /\ msClosed' = msClosed + Cardinality(had \ msOpen)
             /\ msRes' = [msRes EXCEPT ![o].fd = fd, ![o].size = size, ![o].offset = 0, ![o].length = size]
             /\ msLate' = msLate \ {o}
  /\ UNCHANGED MsContext

set_file_range(r, start, end) ==
  IF r.fd = MsNoFd THEN r
  ELSE LET e == Min({end, r.size})  s == Min({start, e}) IN [r EXCEPT !.offset = s, !.size = e, !.length = e - s]
MsSetFileRange(o) ==
  /\ MsAlive(o)
  /\ \E a, b \in MsSizes : msRes' = [msRes EXCEPT ![o] = set_file_range(@, a, b)]
  /\ msLate' = IF msRes[o].fd # MsNoFd THEN msLate \ {o} ELSE msLate
  /\ UNCHANGED <<msOpen, msClosed, MsContext>>

MsStatus(o) ==
  /\ MsAlive(o) /\ msRes[o].status = 200
  /\ \E status \in {204, 304, 1000} : msRes' = [msRes EXCEPT ![o].status = status]
  /\ UNCHANGED <<msOpen, msClosed, msLate, MsContext>>

\* Mutant: the source keeps its file.
MsMove_Copies(to, from) ==
  /\ MsAlive(to) /\ MsAlive(from)
  /\ IF to = from THEN UNCHANGED <<msRes, msOpen, msClosed, msLate>>
     ELSE /\ MsClose({msRes[to].fd} \ {MsNoFd})
          /\ msRes' = [msRes EXCEPT ![to] = msRes[from]]
          /\ msLate' = IF from \in msLate THEN msLate \cup {to} ELSE msLate \ {to}
  /\ UNCHANGED MsContext

\* operator=(HttpResponse&&): the file changes hands.
MsMove(to, from) ==
  /\ MsAlive(to) /\ MsAlive(from)
  /\ IF to = from THEN UNCHANGED <<msRes, msOpen, msClosed, msLate>>
     ELSE /\ MsClose({msRes[to].fd} \ {MsNoFd})
          /\ msRes' = [msRes EXCEPT ![to] = msRes[from], ![from] = [MsFresh EXCEPT !.status = msRes[from].status,
                !.size = msRes[from].size, !.offset = msRes[from].offset]]
          /\ msLate' = (IF from \in msLate THEN msLate \cup {to} ELSE msLate \ {to}) \ {from}
  /\ UNCHANGED MsContext

\* ~HttpResponse
MsDestroy(o) ==
  /\ MsAlive(o)
  /\ MsClose({msRes[o].fd} \ {MsNoFd})
  /\ msRes' = [msRes EXCEPT ![o] = MsGone]
  /\ msLate' = msLate \ {o}
  /\ UNCHANGED MsContext

\* What goes on the wire: serialize_headers() announces a length (-1: none),
\* then the file or the body follows.
code(r) == IF r.status \notin 100..999 THEN 500 ELSE r.status
bodiless(r) == code(r) < 200 \/ code(r) \in {204, 304}
serialize_headers(r) == [status |-> code(r), length |-> IF r.length >= 0 THEN r.length ELSE IF bodiless(r) THEN -1 ELSE r.body]

\* Connection::send() sends the file after the headers, whatever the status.
serialize(r) == [head |-> serialize_headers(r), bytes |-> IF r.fd # MsNoFd THEN r.size - r.offset
      ELSE IF r.status < 200 \/ r.status \in {204, 304} THEN 0 ELSE r.body]

----
\* RequestContext

MsSlot(t) == {i \in DOMAIN msSlots : msSlots[i].used /\ msSlots[i].key = t}

\* Mutant: a new value takes the last slot.
slot_for_Last(t) == IF MsSlot(t) # {} THEN CHOOSE i \in MsSlot(t) : TRUE ELSE Len(msSlots)

\* The type's own slot, the first free one, or a new one at the end of
\* overflow_.
slot_for(t) ==
  LET free == {i \in DOMAIN msSlots : ~msSlots[i].used}
  IN IF MsSlot(t) # {} THEN CHOOSE i \in MsSlot(t) : TRUE ELSE IF free # {} THEN Min(free) ELSE Len(msSlots) + 1

MsSet(t) ==
  /\ msSets < MsMaxSets
  /\ LET i == slot_for(t)
         slot == [key |-> t, value |-> msSets + 1, used |-> TRUE]
     IN /\ msSlots' = IF i > Len(msSlots) THEN Append(msSlots, slot) ELSE [msSlots EXCEPT ![i] = slot]
        /\ msRefs' = [msRefs EXCEPT ![t] = i]
  /\ msSets' = msSets + 1 /\ msWant' = [msWant EXCEPT ![t] = msSets + 1]
  /\ UNCHANGED <<msRes, msOpen, msClosed, msLate>>

\* ensure(): only if there is none.
MsEnsure(t) == MsSlot(t) = {} /\ MsSet(t)

MsErase(t) ==
  /\ MsSlot(t) # {}
  /\ msSlots' = [msSlots EXCEPT ![CHOOSE i \in MsSlot(t) : TRUE] = MsFree]
  /\ msWant' = [msWant EXCEPT ![t] = 0] /\ msRefs' = [msRefs EXCEPT ![t] = 0]
  /\ UNCHANGED <<msRes, msOpen, msClosed, msLate, msSets>>

MsNext ==
  \/ /\ msSets = 0
     /\ \/ \E o \in MsObjects : MsSetBody(o) \/ MsSendFile(o) \/ MsSetFileRange(o) \/ MsStatus(o) \/ MsDestroy(o)
        \/ \E to, from \in MsObjects : MsMove(to, from)
  \/ /\ \A o \in MsObjects : MsAlive(o) => msRes[o] = MsFresh
     /\ \E t \in MsTypes : MsSet(t) \/ MsEnsure(t) \/ MsErase(t)

MsSpec == MsInit /\ [][MsNext]_msVars

\* A file is closed once, when the last response that has it goes, however
\* responses are moved about; and unless a body was given to a response that has
\* a file, the length that is announced is the number of bytes that follow, or
\* none follow.
FilesOwned ==
  /\ msClosed = 0
  /\ msOpen = {msRes[o].fd : o \in {p \in MsObjects : MsAlive(p)}} \ {MsNoFd}
  /\ \A o, p \in MsObjects : o # p /\ MsAlive(o) /\ MsAlive(p) /\ msRes[o].fd # MsNoFd => msRes[o].fd # msRes[p].fd
  /\ \A o \in MsObjects \ msLate : MsAlive(o) /\ (bodiless(msRes[o]) => msRes[o].fd = MsNoFd) =>
       LET wire == serialize(msRes[o]) IN wire.bytes \in {0, wire.head.length} /\ (wire.bytes = 0 => bodiless(msRes[o]) \/ wire.head.length = 0)

\* A value is found where it was put until it is erased or replaced, and the
\* reference set() gave out still points at it, also when other types are added
\* past the inline slots or erased.
ContextKept ==
  \A t \in MsTypes :
    /\ Cardinality(MsSlot(t)) = (IF msWant[t] = 0 THEN 0 ELSE 1)
    /\ msWant[t] # 0 => msSlots[msRefs[t]].key = t /\ msSlots[msRefs[t]].value = msWant[t]

----
\* What the operator sees of the requests: ids, spans, metrics and access
\* lines (middleware/Observability.cpp, middleware/Metrics.cpp,
\* utils/PrometheusRegistry.cpp). The middleware runs when a request arrives
\* and leaves hooks that run when its response is sent, on another thread and
\* among those of other connections.

CONSTANTS ObConns,         \* HTTP/1.1 connections
          ObMaxRequests,   \* requests in all
          ObBounds,        \* kHistogramBounds, as a sequence
          ObDurations      \* how long a request can take

VARIABLES obReq,           \* connection -> the HttpRequest it serves, ObNone between two
          obHooks,         \* connection -> interceptors_ not run yet
          obSending,       \* connection -> a response is being sent
          obGauge,         \* requests_in_flight
          obBuckets,       \* the duration histogram: Metric::buckets
          obCount,         \* its Metric::count
          obLines,         \* access lines
          obSpans,         \* what on_span_end was given
          obSeen           \* every request as it came, and what became of it

obVars == <<obReq, obHooks, obSending, obGauge, obBuckets, obCount, obLines, obSpans, obSeen>>
ObNone == [n |-> 0]

ASSUME ObAssumption == /\ ObBounds \in Seq(Nat) /\ \A i \in 2 .. Len(ObBounds) : ObBounds[i - 1] <= ObBounds[i]
                       /\ ObDurations \subseteq Nat

\* An id is the one a header carries (0: none or not acceptable), or a random
\* one, which no other request has: 100 plus the request's number.
ObRandom(n) == 100 + n
ObIds == {0, 1}

ObInit ==
  /\ obReq = [c \in ObConns |-> ObNone] /\ obHooks = [c \in ObConns |-> << >>]
  /\ obSending = [c \in ObConns |-> FALSE] /\ obGauge = 0
  /\ obBuckets = [i \in DOMAIN ObBounds |-> 0] /\ obCount = 0
  /\ obLines = << >> /\ obSpans = << >> /\ obSeen = << >>

----
\* The middleware, in the order the documentation registers it.

request_id(r) == [r EXCEPT !.request_id = IF r.sent_id # 0 THEN r.sent_id ELSE ObRandom(r.n)]

\* The parent, and with it the trace, comes from a well-formed traceparent.
tracing(r) ==
  LET t == IF r.traceparent # 0 THEN r.traceparent ELSE r.trace_id
  IN [r EXCEPT !.trace_id = IF t = 0 THEN ObRandom(r.n) ELSE t, !.span_id = ObRandom(r.n)]

SpanHook(r) == [kind |-> "span", n |-> r.n, trace_id |-> r.trace_id, span_id |-> r.span_id, parent |-> r.traceparent]
TrackHook(r) == [kind |-> "track", n |-> r.n]
LineHook(r) == [kind |-> "line", n |-> r.n, request_id |-> r.request_id, trace_id |-> r.trace_id]

\* An upgrade is not tracked: no response ends it.
track(r) == IF r.upgrade THEN << >> ELSE <<TrackHook(r)>>

\* Connection::process_request: hooks belong to one request, and the request
\* is a new one (Http1Parser::next).
process_request(c, r) ==
  LET req == tracing(request_id(r))
  IN /\ obReq' = [obReq EXCEPT ![c] = req]
     /\ obHooks' = [obHooks EXCEPT ![c] = <<SpanHook(req)>> \o track(req) \o <<LineHook(req)>>]

\* A request arrives on a connection that serves none.
ObArrive(c) ==
  /\ obReq[c] = ObNone /\ Len(obSeen) < ObMaxRequests
  /\ \E id \in ObIds, tp \in ObIds, up \in BOOLEAN :
       LET r == [n |-> Len(obSeen) + 1, sent_id |-> id, traceparent |-> tp, upgrade |-> up, request_id |-> 0, trace_id |-> 0, span_id |-> 0]
       IN /\ process_request(c, r)
          /\ obGauge' = IF up THEN obGauge ELSE obGauge + 1
          /\ obSeen' = Append(obSeen, [sent_id |-> id, traceparent |-> tp, upgrade |-> up, took |-> 0, state |-> "open"])
  /\ UNCHANGED <<obSending, obBuckets, obCount, obLines, obSpans>>

\* The connection goes, or becomes a WebSocket, without a response: its hooks
\* go with it.
ObDrop(c) ==
  /\ obReq[c] # ObNone /\ ~obSending[c]
  /\ obReq' = [obReq EXCEPT ![c] = ObNone] /\ obHooks' = [obHooks EXCEPT ![c] = << >>]
  /\ obSeen' = [obSeen EXCEPT ![obReq[c].n].state = "dropped"]
  /\ UNCHANGED <<obSending, obGauge, obBuckets, obCount, obLines, obSpans>>

\* Connection::send, up to the hooks.
ObSend(c) ==
  /\ obReq[c] # ObNone /\ ~obSending[c]
  /\ obSending' = [obSending EXCEPT ![c] = TRUE]
  /\ \E d \in ObDurations : obSeen' = [obSeen EXCEPT ![obReq[c].n] = [@ EXCEPT !.took = d, !.state = "sending"]]
  /\ UNCHANGED <<obReq, obHooks, obGauge, obBuckets, obCount, obLines, obSpans>>

\* Every bucket that holds the value: the buckets are made cumulative later.
observe_histogram_Each(v) ==
  /\ obCount' = obCount + 1
  /\ obBuckets' = [i \in DOMAIN ObBounds |-> obBuckets[i] + IF v <= ObBounds[i] THEN 1 ELSE 0]

\* PrometheusRegistry::observe_histogram: the first bucket that holds the value.
observe_histogram(v) ==
  LET fits == {i \in DOMAIN ObBounds : v <= ObBounds[i]}
  IN /\ obCount' = obCount + 1
     /\ obBuckets' = IF fits = {} THEN obBuckets ELSE [obBuckets EXCEPT ![Min(fits)] = @ + 1]

\* The next hook of the response being sent.
ObHook(c) ==
  /\ obSending[c] /\ obHooks[c] # << >>
  /\ obHooks' = [obHooks EXCEPT ![c] = Tail(@)]
  /\ LET h == Head(obHooks[c])
     IN CASE h.kind = "span" -> obSpans' = Append(obSpans, h) /\ UNCHANGED <<obGauge, obCount, obBuckets, obLines>>
          [] h.kind = "track" -> obGauge' = obGauge - 1 /\ observe_histogram(obSeen[obReq[c].n].took) /\ UNCHANGED <<obLines, obSpans>>
          [] OTHER -> obLines' = Append(obLines, h) /\ UNCHANGED <<obGauge, obCount, obBuckets, obSpans>>
  /\ UNCHANGED <<obReq, obSending, obSeen>>

\* The response is on its way; the connection goes on to the next request.
ObSent(c) ==
  /\ obSending[c] /\ obHooks[c] = << >>
  /\ obSending' = [obSending EXCEPT ![c] = FALSE] /\ obReq' = [obReq EXCEPT ![c] = ObNone]
  /\ obSeen' = [obSeen EXCEPT ![obReq[c].n].state = "answered"]
  /\ UNCHANGED <<obHooks, obGauge, obBuckets, obCount, obLines, obSpans>>

\* PrometheusRegistry::expose: what a scrape shows for a bound.
expose(i) ==
  LET shown[j \in 0..Len(ObBounds)] == IF j = 0 THEN 0 ELSE shown[j - 1] + obBuckets[j] IN shown[i]

ObNext == \E c \in ObConns : ObArrive(c) \/ ObDrop(c) \/ ObSend(c) \/ ObHook(c) \/ ObSent(c)

ObSpec == ObInit /\ [][ObNext]_obVars

----
Tracked(n) == ~obSeen[n].upgrade

\* The requests the histogram has counted: answered ones, and those whose hook
\* has run while the response is still being sent.
Counted == {n \in DOMAIN obSeen : Tracked(n) /\ (obSeen[n].state = "answered"
              \/ (obSeen[n].state = "sending" /\ \A c \in ObConns : obReq[c].n = n => \A k \in DOMAIN obHooks[c] : obHooks[c][k].kind # "track"))}

\* What is reported is what happened, at any moment a scrape may come: the
\* gauge is the tracked requests not answered yet (a request that never gets a
\* response stays in it); a bucket shows the answered requests that took no
\* longer than its bound, and the last as many as there were; every answered
\* request has one span and one access line, with the ids it came with or its
\* own. Hooks of an earlier request on the connection (Connection.cpp:400) or
\* a bucket counted twice (PrometheusRegistry.cpp:63) would show here.
ReportsTrue ==
  /\ obGauge = Cardinality({n \in DOMAIN obSeen : Tracked(n)} \ Counted)
  /\ obCount = Cardinality(Counted)
  /\ \A i \in DOMAIN ObBounds : expose(i) = Cardinality({n \in Counted : obSeen[n].took <= ObBounds[i]})
  /\ \A n \in {k \in DOMAIN obSeen : obSeen[k].state = "answered"} :
       /\ Cardinality({k \in DOMAIN obSpans : obSpans[k].n = n}) = 1 /\ Cardinality({k \in DOMAIN obLines : obLines[k].n = n}) = 1
       /\ \A k \in DOMAIN obLines : obLines[k].n = n =>
            /\ obLines[k].request_id = (IF obSeen[n].sent_id = 0 THEN ObRandom(n) ELSE obSeen[n].sent_id)
            /\ \E s \in DOMAIN obSpans : obSpans[s].n = n /\ obSpans[s].trace_id = obLines[k].trace_id
                  /\ obSpans[s].trace_id = (IF obSeen[n].traceparent = 0 THEN ObRandom(n) ELSE obSeen[n].traceparent)
  /\ \A k \in DOMAIN obLines : obSeen[obLines[k].n].state \in {"sending", "answered"}

\* A request and its response carry what was put into them and no more, own the
\* files they send, and are counted and traced once (HttpResponse, HttpRequest,
\* metrics).
MessagesSound == FilesOwned /\ ContextKept /\ ReportsTrue
====
