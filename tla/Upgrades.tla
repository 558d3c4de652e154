---- MODULE Upgrades ----
\* Which protocol a connection speaks (src/server/Connection.cpp): it starts
\* as TLS or HTTP and may become HTTP/2, by ALPN or by the preface, a
\* WebSocket or a raw stream. on_read_complete() on the event loop hands what
\* it reads to the protocol of the moment and arms the timeout of the phase,
\* while a worker upgrades the connection, the loop notices that a write is
\* done, and the server drains. The client sends units: "pre1" and "pre2" are
\* the halves of the HTTP/2 preface, "pre1" is also how a POST begins, which
\* "post2" completes; "get", "stream", "ws", "badws", "stopws" and "tunnel"
\* are whole requests, "data" is anything after an upgrade, "hello" and "fin"
\* are the TLS handshake. Pipelined requests in detail are in
\* ConnectionRequests, writing in ConnectionOutput; whom the end of a
\* connection is told, in WebSocket and Upstreams.
EXTENDS Naturals, Sequences

CONSTANT UpClients     \* what clients send: [tls, h2c, units]

UpShakes == {"hello", "fin"}
UpWhole == {"get", "stream", "ws", "badws", "stopws", "tunnel"}
UpKinds == UpShakes \cup UpWhole \cup {"pre1", "pre2", "post2", "data"}

\* Clients end the handshake, if there is one, before they send anything else, and
\* send only "data" after a request to upgrade that will be granted.
ASSUME UpAssumption ==
  \A c \in UpClients :
    /\ c \in [tls : {"no", "h1", "h2"}, h2c : BOOLEAN, units : Seq(UpKinds)]
    /\ \A i, j \in DOMAIN c.units : i < j =>
         /\ c.units[j] \in UpShakes => c.units[i] = "hello"
         /\ c.units[i] \in {"ws", "tunnel"} => c.units[j] = "data"
    /\ \A j \in DOMAIN c.units :
         IF c.tls = "no" THEN c.units[j] \notin UpShakes
         ELSE c.units[j] \in UpShakes \/ \E i \in 1 .. j : c.units[i] = "fin"

VARIABLES
  upClient,     \* the client of this connection
  upCame,       \* units read so far
  upGiven,      \* history: who got each of the units taken from read_buffer_
  up,           \* the flags of the connection, see UpInit
  upLoop,       \* where the loop is
  upWork,       \* where the worker with the request is
  upLate,       \* where the worker that gives the connection back is, at most one
  upPick        \* the timeouts the loop and that worker have picked, to arm next

upVars == <<upClient, upCame, upGiven, up, upLoop, upWork, upLate, upPick>>

UpTimers == {"none", "header", "idle", "keep_alive", "websocket_idle"}

UpTypeOK ==
  /\ upCame \in 0 .. Len(upClient.units) /\ Len(upGiven) <= upCame
  /\ up.proto \in {"http", "http2", "websocket", "raw"} /\ up.timer \in UpTimers
  /\ upLoop \in {"idle", "dispatch", "rearm"}

\* start(): the header timeout and a read are armed. crossed is history: the
\* timeout of a phase was armed, or left armed, when the phase had ended.
UpInit ==
  /\ upClient \in UpClients
  /\ upCame = 0 /\ upGiven = << >>
  /\ up = [proto |-> "http", decided |-> FALSE, secure |-> FALSE, reading |-> TRUE,
           processing |-> FALSE, started |-> FALSE, fresh |-> TRUE, close |-> FALSE,
           closing |-> FALSE, removed |-> FALSE, ws |-> FALSE, handler |-> FALSE,
           onData |-> FALSE, draining |-> FALSE, notified |-> FALSE, told |-> FALSE,
           writing |-> FALSE, timer |-> "header", crossed |-> FALSE]
  /\ upLoop = "idle" /\ upWork = "idle" /\ upLate = "idle"
  /\ upPick = [loop |-> "none", late |-> "none"]

UpUnits == upClient.units
UpBuffer == SubSeq(UpUnits, Len(upGiven) + 1, upCame)     \* read_buffer_
UpGive(n, who) == upGiven' = upGiven \o [i \in 1 .. n |-> who]

\* trigger_read(): nothing is submitted for a connection that was removed.
trigger_read(u) == [u EXCEPT !.reading = @ \/ ~u.removed]

\* Mutant: a running handler is not told apart from an idle connection.
UpPhase_Running ==
  CASE up.proto \in {"websocket", "raw"} -> "websocket_idle"
    [] up.proto = "http2" -> "idle"
    [] OTHER -> "keep_alive"

\* arm_timer_for_current_phase() picks the timeout for what is waited on, and
\* arms it in a step of its own.
UpPhase ==
  CASE up.proto \in {"websocket", "raw"} -> "websocket_idle"
    [] up.proto = "http2" -> "idle"
    [] up.proto = "http" /\ up.processing -> "none"
    [] OTHER -> "keep_alive"
UpCross(u) == [u EXCEPT !.crossed = @ \/ upLoop = "rearm" \/ upLate = "arm"]

\* check_request_state(): what it answers and how many units the parser takes,
\* for a message of which a part was taken before or not.
check_request_state(started) ==
  LET text == UpBuffer
      is(answer, n) == [is |-> answer, took |-> n]
      failed == is("error", Len(text))
      rest(i) == IF Len(text) < i THEN is("incomplete", Len(text))
                 ELSE IF text[i] = "post2" THEN is("complete", i) ELSE failed
  IN  CASE started -> rest(1)
        [] ~started /\ text = << >> -> is("incomplete", 0)
        [] ~started /\ text # << >> ->
             IF text[1] \in UpWhole THEN is("complete", 1)
             ELSE IF text[1] = "pre1" THEN rest(2) ELSE failed

\* The units of a failed request are dropped with the rest of the buffer.
UpTake(parsed) == UpGive(parsed.took, IF parsed.is = "error" THEN "dropped" ELSE "http")
send_error(u) == [u EXCEPT !.close = TRUE, !.closing = TRUE, !.writing = TRUE]

----
\* on_read_complete()

\* The client leaves, or a timeout ends the connection.
UpLeave ==
  /\ upLoop = "idle" /\ ~up.removed
  /\ up' = [up EXCEPT !.removed = TRUE, !.reading = FALSE]
  /\ UNCHANGED <<upClient, upCame, upGiven, upLoop, upWork, upLate, upPick>>

\* A read brings n units, over TLS perhaps with close_notify after the last of
\* them. Until the handshake is complete nothing comes through; ALPN may then
\* choose HTTP/2. After close_notify what has come is still answered.
UpRead(n, notify) ==
  LET came == SubSeq(UpUnits, upCame + 1, upCame + n)
      tls == upClient.tls # "no"
      secure == up.secure \/ \E i \in DOMAIN came : came[i] = "fin"
      shook == CHOOSE k \in 0 .. n : \A i \in 1 .. n : came[i] \in UpShakes <=> i <= k
  IN  /\ upLoop = "idle" /\ up.reading /\ ~up.removed
      /\ upCame + n <= Len(UpUnits) /\ (n > 0 \/ notify)
      /\ notify => tls /\ secure /\ upCame + n = Len(UpUnits) /\ ~up.close
      /\ upCame' = upCame + n
      /\ UpGive(shook, "tls")
      /\ up' = IF tls /\ ~secure THEN up
               ELSE IF notify /\ n = shook /\ ~up.processing
               THEN [up EXCEPT !.removed = TRUE, !.reading = FALSE, !.secure = TRUE]
               ELSE [up EXCEPT !.reading = FALSE, !.secure = secure, !.close = @ \/ notify,
                               !.fresh = UpBuffer = << >> /\ ~up.started,
                               !.proto = IF secure /\ ~up.secure /\ upClient.tls = "h2"
                                         THEN "http2" ELSE @]
      /\ upLoop' = IF up'.reading \/ up'.removed THEN "idle" ELSE "dispatch"
      /\ UNCHANGED <<upClient, upWork, upLate, upPick>>

\* h2c with prior knowledge: the buffer may be, or may become, the preface.
UpUndecided == upClient.tls = "no" /\ upClient.h2c /\ up.proto = "http" /\ ~up.decided
maybe_preface == UpUndecided /\ UpBuffer = <<"pre1">>
is_preface == UpUndecided /\ Len(UpBuffer) >= 2 /\ SubSeq(UpBuffer, 1, 2) = <<"pre1", "pre2">>

UpAwaitPreface ==
  /\ upLoop = "dispatch" /\ maybe_preface
  /\ up' = trigger_read([up EXCEPT !.timer = IF up.fresh THEN "header" ELSE @])
  /\ upLoop' = "idle"
  /\ UNCHANGED <<upClient, upCame, upGiven, upWork, upLate, upPick>>

\* The connection has left HTTP: what is buffered goes to its protocol. What a
\* WebSocket or raw stream that is not quite there leaves stays in the buffer.
UpPass ==
  LET proto == IF is_preface THEN "http2" ELSE up.proto
      taker == CASE proto = "websocket" /\ up.ws -> IF up.handler THEN proto ELSE "nobody"
                 [] proto = "raw" /\ up.onData -> proto
                 [] proto = "http2" -> proto
                 [] OTHER -> "none"
  IN  /\ upLoop = "dispatch" /\ ~maybe_preface /\ proto # "http"
      /\ up' = trigger_read([up EXCEPT !.decided = TRUE, !.proto = proto,
                             !.timer = IF proto = "http2" THEN "idle" ELSE "websocket_idle"])
      /\ UpGive(IF taker = "none" THEN 0 ELSE Len(UpBuffer), taker)
      /\ upLoop' = "idle"
      /\ UNCHANGED <<upClient, upCame, upWork, upLate, upPick>>

\* HTTP: while a handler has the request the parser holds, bytes stay buffered;
\* otherwise a whole request is passed to a worker.
UpHttp ==
  LET parsed == check_request_state(up.started)
      seen == [up EXCEPT !.decided = TRUE]
  IN  /\ upLoop = "dispatch" /\ ~maybe_preface /\ ~is_preface /\ up.proto = "http"
      /\ upLoop' = "idle"
      /\ \/ up.processing /\ up' = seen /\ UNCHANGED <<upGiven, upWork>>
         \/ /\ ~up.processing /\ parsed.is = "complete" /\ UpTake(parsed)
            /\ up' = UpCross([seen EXCEPT !.processing = TRUE, !.timer = "none"])
            /\ upWork' = "process"
         \/ /\ ~up.processing /\ parsed.is = "error" /\ UpTake(parsed)
            /\ up' = send_error(seen) /\ UNCHANGED upWork
         \/ /\ ~up.processing /\ parsed.is = "incomplete" /\ UpTake(parsed)
            /\ up' = trigger_read([seen EXCEPT !.started = @ \/ parsed.took > 0,
                                   !.timer = IF up.fresh THEN "header" ELSE @])
            /\ UNCHANGED upWork
      /\ UNCHANGED <<upClient, upCame, upLate, upPick>>

----
\* process_request() on a worker

UpStep(place, next) == upWork = place /\ upWork' = next
UpRequest == UpUnits[Len(upGiven)]
UpWorks == UNCHANGED <<upClient, upCame, upLoop, upLate, upPick>>

\* A request that stays HTTP; a streamed response keeps a read armed.
UpHandle ==
  /\ UpStep("process", "answer") /\ UpRequest \in {"get", "post2", "stream"}
  /\ up' = IF UpRequest = "stream" THEN trigger_read([up EXCEPT !.writing = TRUE]) ELSE up
  /\ UpWorks /\ UNCHANGED upGiven

\* send() of the last response, which closes the connection.
UpLastAnswer ==
  /\ UpStep("answer", "idle") /\ (up.close \/ up.draining)
  /\ up' = [up EXCEPT !.close = TRUE, !.closing = TRUE, !.writing = TRUE]
  /\ UpWorks /\ UNCHANGED upGiven

\* send() and continue_after_response(): the next request is taken up at once, or
\* the connection is given back to the loop.
continue_after_response ==
  LET parsed == check_request_state(FALSE)
      next == [up EXCEPT !.started = FALSE, !.writing = TRUE]
  IN  /\ upWork = "answer" /\ upLate = "idle" /\ ~up.close /\ ~up.draining
      /\ UpTake(parsed)
      /\ \/ /\ parsed.is = "complete"
            /\ up' = next /\ upWork' = "process" /\ UNCHANGED upLate
         \/ /\ parsed.is = "error"
            /\ up' = send_error(next) /\ upWork' = "idle" /\ UNCHANGED upLate
         \/ /\ parsed.is = "incomplete"
            /\ up' = UpCross([next EXCEPT !.started = parsed.took > 0, !.processing = FALSE])
            /\ upWork' = "idle" /\ upLate' = "pick"
      /\ UNCHANGED <<upClient, upCame, upLoop, upPick>>

\* The timeout of the phase is armed; a request that came meanwhile is taken up,
\* with that timeout still armed; otherwise a read is armed.
UpLatePick ==
  /\ upLate = "pick" /\ upLate' = "arm"
  /\ upPick' = [upPick EXCEPT !.late = UpPhase]
  /\ UNCHANGED <<upClient, upCame, upGiven, up, upLoop, upWork>>

UpLateArm ==
  /\ upLate = "arm" /\ upLate' = "recheck"
  /\ up' = [up EXCEPT !.timer = upPick.late]
  /\ UNCHANGED <<upClient, upCame, upGiven, upLoop, upWork, upPick>>

UpRecheck ==
  LET parsed == check_request_state(up.started)
  IN  /\ upLate = "recheck"
      /\ \/ /\ up.processing
            /\ upLate' = "idle" /\ UNCHANGED <<upGiven, up, upWork>>
         \/ /\ ~up.processing /\ parsed.is = "complete"
            /\ UpTake(parsed) /\ upLate' = "idle" /\ upWork' = "process"
            /\ up' = [up EXCEPT !.processing = TRUE, !.crossed = TRUE]
         \/ /\ ~up.processing /\ parsed.is # "complete"
            /\ upLate' = "trigger" /\ UNCHANGED upWork
            /\ IF parsed.is = "error" THEN UNCHANGED <<up, upGiven>>
               ELSE UpTake(parsed) /\ up' = [up EXCEPT !.started = @ \/ parsed.took > 0]
      /\ UNCHANGED <<upClient, upCame, upLoop, upPick>>

UpLateRead ==
  /\ upLate = "trigger" /\ upLate' = "idle"
  /\ up' = trigger_read(up)
  /\ UNCHANGED <<upClient, upCame, upGiven, upLoop, upWork, upPick>>

----
\* The upgrade to a WebSocket

\* An invalid handshake is refused.
UpRefuse ==
  /\ UpStep("process", "idle") /\ UpRequest = "badws"
  /\ up' = send_error(up)
  /\ UpWorks /\ UNCHANGED upGiven

\* The middleware runs with should_close_ set, and may stop the request.
run_ws_middlewares ==
  /\ UpStep("process", "middleware") /\ UpRequest \in {"ws", "stopws"}
  /\ up' = [up EXCEPT !.close = TRUE]
  /\ UpWorks /\ UNCHANGED upGiven

UpStopped ==
  /\ UpStep("middleware", "idle") /\ UpRequest = "stopws"
  /\ up' = send_error(up)
  /\ UpWorks /\ UNCHANGED upGiven

\* should_close_ is cleared and the answer to the handshake queued.
UpAccept ==
  /\ UpStep("middleware", "upgrade") /\ UpRequest = "ws"
  /\ up' = [up EXCEPT !.close = FALSE, !.writing = TRUE]
  /\ UpWorks /\ UNCHANGED upGiven

\* upgrade_to_websocket(): first the state, then the object.
UpSetWebSocket ==
  /\ UpStep("upgrade", "install")
  /\ up' = UpCross([up EXCEPT !.proto = "websocket"])
  /\ UpWorks /\ UNCHANGED upGiven

upgrade_to_websocket ==
  /\ UpStep("install", "handler")
  /\ up' = [up EXCEPT !.ws = TRUE, !.timer = "websocket_idle"]
  /\ UpWorks /\ UNCHANGED upGiven

\* The route's handler sets on_message; frames that came early are then processed.
UpHandler ==
  /\ UpStep("handler", "flush")
  /\ up' = [up EXCEPT !.handler = TRUE]
  /\ UpWorks /\ UNCHANGED upGiven

\* Mutant: the early frames wait for the next read.
UpFlush_Skips ==
  /\ UpStep("flush", "idle")
  /\ up' = trigger_read(up)
  /\ UpWorks /\ UNCHANGED upGiven

UpFlush ==
  /\ UpStep("flush", "idle")
  /\ UpGive(Len(UpBuffer), up.proto)
  /\ up' = trigger_read(up)
  /\ UpWorks

----
\* The upgrade to a raw stream, as the proxy does it for a tunnel

\* send_headers(): a read is armed, for the connection is still HTTP.
UpTunnelHead ==
  /\ UpStep("process", "raw") /\ UpRequest = "tunnel"
  /\ up' = trigger_read([up EXCEPT !.writing = TRUE, !.close = @ \/ up.draining])
  /\ UpWorks /\ UNCHANGED upGiven

\* upgrade_to_raw_stream(): the state and the timeout, then the callbacks, then
\* what has come.
UpSetRaw ==
  /\ UpStep("raw", "callbacks")
  /\ up' = UpCross([up EXCEPT !.proto = "raw", !.timer = "websocket_idle"])
  /\ UpWorks /\ UNCHANGED upGiven

upgrade_to_raw_stream ==
  /\ UpStep("callbacks", "flush")
  /\ up' = [up EXCEPT !.onData = TRUE]
  /\ UpWorks /\ UNCHANGED upGiven

----
\* The loop: completed writes, and the drain

\* Everything queued is written, as some thread, here the loop, finds: the
\* connection closes, or its timeout starts anew.
UpWritten ==
  LET stream == up.proto \in {"websocket", "raw"}
  IN  /\ upLoop = "idle" /\ up.writing /\ ~up.removed
      /\ up' = [up EXCEPT !.writing = FALSE, !.removed = up.closing,
                          !.reading = @ /\ ~up.closing]
      /\ upLoop' = IF up.closing \/ stream THEN "idle" ELSE "rearm"
      /\ upPick' = [upPick EXCEPT !.loop = UpPhase]
      /\ UNCHANGED <<upClient, upCame, upGiven, upWork, upLate>>

UpRearm ==
  /\ upLoop = "rearm" /\ upLoop' = "idle"
  /\ up' = [up EXCEPT !.timer = upPick.loop]
  /\ UNCHANGED <<upClient, upCame, upGiven, upWork, upLate, upPick>>

\* The server starts draining; its loops notify their connections afterwards, at
\* every turn.
mark_shutting_down ==
  /\ ~up.draining
  /\ up' = [up EXCEPT !.draining = TRUE]
  /\ UNCHANGED <<upClient, upCame, upGiven, upLoop, upWork, upLate, upPick>>

on_server_shutdown(idle) ==
  LET first == ~up.notified
      seen == [up EXCEPT !.notified = TRUE]
      marked(u) == [u EXCEPT !.close = TRUE, !.closing = TRUE, !.writing = TRUE]
  IN  /\ upLoop = "idle" /\ up.draining /\ ~up.removed
      /\ up' = CASE up.proto = "websocket" -> [seen EXCEPT !.told = @ \/ (first /\ up.ws)]
                 [] up.proto = "http2" ->
                      IF idle THEN marked([seen EXCEPT !.told = TRUE]) ELSE [seen EXCEPT !.told = TRUE]
                 [] up.proto = "raw" -> [seen EXCEPT !.close = TRUE]
                 [] up.proto = "http" ->
                      IF ~up.processing /\ UpBuffer = << >> /\ ~up.started
                      THEN marked(seen) ELSE [seen EXCEPT !.close = TRUE]
      /\ UNCHANGED <<upClient, upCame, upGiven, upLoop, upWork, upLate, upPick>>

UpNext ==
  \/ UpLeave
  \/ \E n \in 0 .. Len(UpUnits), notify \in BOOLEAN : UpRead(n, notify)
  \/ UpAwaitPreface \/ UpPass \/ UpHttp
  \/ UpHandle \/ UpLastAnswer \/ continue_after_response
  \/ UpLatePick \/ UpLateArm \/ UpRecheck \/ UpLateRead
  \/ UpRefuse \/ run_ws_middlewares \/ UpStopped \/ UpAccept
  \/ UpSetWebSocket \/ upgrade_to_websocket \/ UpHandler \/ UpFlush
  \/ UpTunnelHead \/ UpSetRaw \/ upgrade_to_raw_stream
  \/ UpWritten \/ UpRearm
  \/ mark_shutting_down \/ \E idle \in BOOLEAN : on_server_shutdown(idle)

----
\* Properties

\* The client has prior knowledge of HTTP/2, and the server of that.
UpPrefaced ==
  upClient.tls = "no" /\ upClient.h2c /\ Len(UpUnits) >= 2 /\ UpUnits[1] = "pre1" /\ UpUnits[2] = "pre2"

\* The protocol a unit of the client is meant for.
UpMeant(i) ==
  LET after(kind) == \E j \in 1 .. i - 1 : UpUnits[j] = kind
  IN  CASE UpUnits[i] \in UpShakes -> "tls"
        [] UpUnits[i] \notin UpShakes /\ (upClient.tls = "h2" \/ UpPrefaced) -> "http2"
        [] UpUnits[i] \notin UpShakes /\ ~(upClient.tls = "h2" \/ UpPrefaced) ->
             IF after("ws") THEN "websocket" ELSE IF after("tunnel") THEN "raw" ELSE "http"

\* Nothing of the connection is under way: it waits for the client.
UpWaits == upLoop = "idle" /\ upWork = "idle" /\ upLate = "idle"
           /\ ~up.writing /\ ~up.closing /\ ~up.removed

UpHasStream == \E i \in DOMAIN UpUnits : UpUnits[i] = "stream"

\* Every byte goes to the protocol it was sent for, wherever the stream is cut and
\* whatever a worker upgrades meanwhile, and none is left in the buffer or unread
\* while the connection waits. After a streamed response a late trigger_read()
\* may have the loop read frames before the handler of a WebSocket has set
\* on_message: these are for nobody (Connection::on_read_complete,
\* upgrade_to_websocket, upgrade_to_raw_stream).
BytesFindProtocol ==
  /\ \A i \in DOMAIN upGiven :
       upGiven[i] \in {UpMeant(i)} \cup (IF up.closing THEN {"dropped"} ELSE {})
                    \cup (IF UpHasStream THEN {"nobody"} ELSE {})
  /\ UpWaits => up.reading /\ (UpBuffer = << >> \/ maybe_preface)

\* While the connection waits for the client a timeout that fits what it waits for
\* is armed, and none while a handler works; unless one thread armed what it had
\* picked before the other ended the phase, or a request was taken up by the last
\* check of continue_after_response(), which leaves the timeout (Connection::arm_timer_for_current_phase,
\* on_read_complete, continue_after_response).
PhaseTimed ==
  ~up.crossed /\ upLoop = "idle" /\ upLate = "idle" /\ ~up.removed /\ ~up.closing =>
    /\ UpWaits => up.timer \in
         CASE up.proto = "http" -> {"header", "keep_alive"}
           [] up.proto = "http2" -> {"idle"}
           [] OTHER -> {"websocket_idle"}
    /\ up.proto = "http" /\ upWork # "idle" => up.timer = "none"

\* When the server drains, the clients of its WebSockets are told
\* (Connection::on_server_shutdown).
DrainTellsWebSockets ==
  UpWaits /\ up.notified /\ up.proto = "websocket" => up.told
====
