---- MODULE WebSocket ----
\* One WebSocket connection (src/http/WebSocketConnection.cpp): the frames of
\* the client, parsed by the event loop, beside threads that send and close. A
\* payload is a sequence of letters: "a" a character of one byte, "l" and "c"
\* the two bytes of a longer one, so that a character can be cut in two by
\* fragmentation. Every step that the code takes under send_mutex_ is atomic.
EXTENDS Naturals, Sequences, FiniteSets

CONSTANTS WsFrames,      \* the frames a client may send
          WsThreads,     \* application threads that send and close
          WsMaxSize,     \* max_message_size_
          WsMaxSent,     \* bound: frames the client sends
          WsMaxSends     \* bound: frames the application sends

LoopThread == "loop"
WsControl == {"close", "ping", "pong"}
WsData == {"text", "binary"}

WsFrame == [opcode : STRING, fin : BOOLEAN, masked : BOOLEAN, rsv1 : BOOLEAN, code : Nat,
            payload : Seq(STRING), length : Nat, complete : BOOLEAN]

\* The payload of a frame that carries a part of a message is as long as its
\* header says.
ASSUME WsAssumption ==
  /\ LoopThread \notin WsThreads /\ WsMaxSize \in Nat
  /\ WsFrames \subseteq WsFrame
  /\ \A f \in WsFrames : f.opcode \notin WsControl => Len(f.payload) = f.length

VARIABLES
  wsClosed,     \* is_closed_
  wsClosing,    \* transport_.close() was called: nothing is written after it
  wsGone,       \* the connection was removed and is being destroyed
  wsBuffer,     \* the read buffer: frames in order; the last may be incomplete
  wsSent,       \* history: the frames the client has begun to send
  wsFragment,   \* fragment_opcode_, fragment_compressed_ and fragment_payload_
  wsLoop,       \* where process_raw_data() is, and with which frame or message
  wsGot,        \* history: messages handed to the handlers
  wsOut,        \* history: frames written, with the thread that wrote each
  wsDue,        \* threads that have closed it and not yet called close_handler_
  wsCalls       \* history: calls of close_handler_

wsVars == <<wsClosed, wsClosing, wsGone, wsBuffer, wsSent, wsFragment, wsLoop,
            wsGot, wsOut, wsDue, wsCalls>>

WsNoFragment == [opcode |-> "none", compressed |-> FALSE, payload |-> <<>>]
WsIdle == [at |-> "idle"]

WsInit ==
  /\ wsClosed = FALSE /\ wsClosing = FALSE /\ wsGone = FALSE
  /\ wsBuffer = <<>> /\ wsSent = <<>> /\ wsFragment = WsNoFragment
  /\ wsLoop = WsIdle /\ wsGot = <<>> /\ wsOut = <<>>
  /\ wsDue = {} /\ wsCalls = 0

\* is_valid_utf8: every lead byte has its continuation, and no continuation
\* stands alone.
is_valid_utf8(s) ==
  \A i \in 1..Len(s) : /\ s[i] = "l" => i < Len(s) /\ s[i + 1] = "c"
                       /\ s[i] = "c" => i > 1 /\ s[i - 1] = "l"

is_valid_close_code(code) ==
  code \in 3000..4999 \/ code \in (1000..1003) \cup (1007..1011)

\* inflate_payload: zlib is external; here a message inflates to twice itself,
\* unless that is more than the limit.
Inflated(s) == s \o s

\* Mutant: any size passes.
inflate_payload_Unbounded(s) == TRUE

inflate_payload(s) == Len(Inflated(s)) <= WsMaxSize

\* inspect_frame: what the front of the buffer is. A frame whose header is not
\* complete is not in the buffer of the model yet.
inspect_frame(f) ==
  IF f.opcode \in WsControl /\ (f.length > 125 \/ ~f.fin) THEN "Invalid"
  ELSE IF f.complete THEN "Complete" ELSE "NeedPayload"

protocol_error(f) ==
  \/ ~f.masked
  \/ f.rsv1 /\ f.opcode \notin WsData
  \/ f.opcode \notin WsControl \cup WsData \cup {"continuation"}
  \/ f.opcode = "continuation" /\ wsFragment.opcode = "none"
  \/ f.opcode \in WsData /\ wsFragment.opcode # "none"

too_big(f) ==
  LET already == IF f.opcode = "continuation" THEN Len(wsFragment.payload) ELSE 0
  IN  already + f.length > WsMaxSize

\* write_frame_locked, by a thread that holds send_mutex_.
WsWrite(t, opcode, code) ==
  wsOut' = Append(wsOut, [by |-> t, opcode |-> opcode, code |-> code])

\* Mutant: the handler is called every time.
fail_connection_Again(t, code) ==
  /\ wsClosed' = TRUE /\ wsClosing' = TRUE
  /\ WsWrite(t, "close", code)
  /\ wsDue' = wsDue \cup {t}

\* close() and fail_connection(): the first of all closers writes the close
\* frame and calls the handler, later ones return.
fail_connection(t, code) ==
  IF wsClosed THEN UNCHANGED <<wsClosed, wsClosing, wsOut, wsDue>>
  ELSE /\ wsClosed' = TRUE /\ wsClosing' = TRUE
       /\ WsWrite(t, "close", code)
       /\ wsDue' = wsDue \cup {t}

\* One more frame arrives and is appended to the read buffer, its payload
\* perhaps later than its header.
WsArrive ==
  \/ /\ Len(wsSent) < WsMaxSent /\ ~wsGone /\ Len(wsBuffer) < 2
     /\ \A i \in 1..Len(wsBuffer) : wsBuffer[i].complete
     /\ \E f \in WsFrames, complete \in BOOLEAN :
          LET g == [f EXCEPT !.complete = complete] IN
          /\ wsBuffer' = Append(wsBuffer, g)
          /\ wsSent' = Append(wsSent, f)
  \/ /\ Len(wsBuffer) > 0 /\ ~wsBuffer[Len(wsBuffer)].complete
     /\ wsBuffer' = [wsBuffer EXCEPT ![Len(wsBuffer)].complete = TRUE]
     /\ UNCHANGED wsSent

WsReceive == WsArrive /\ UNCHANGED <<wsClosed, wsClosing, wsGone, wsFragment,
                                     wsLoop, wsGot, wsOut, wsDue, wsCalls>>

\* One turn of process_raw_data() up to the point where it acts on the frame:
\* the loop has seen is_closed_ false, and others may set it from here on.
WsInspect ==
  /\ wsLoop.at = "idle" /\ wsBuffer # <<>> /\ ~wsClosed /\ ~wsGone
  /\ LET f == Head(wsBuffer) IN
     \/ /\ inspect_frame(f) = "Invalid" \/ protocol_error(f)
        /\ wsBuffer' = <<>> /\ wsLoop' = [at |-> "fail", code |-> 1002]
        /\ UNCHANGED wsFragment
     \/ /\ inspect_frame(f) # "Invalid" /\ ~protocol_error(f) /\ too_big(f)
        /\ wsBuffer' = <<>> /\ wsLoop' = [at |-> "fail", code |-> 1009]
        /\ UNCHANGED wsFragment
     \/ /\ inspect_frame(f) = "Complete" /\ ~protocol_error(f) /\ ~too_big(f)
        /\ wsBuffer' = Tail(wsBuffer)
        /\ \/ /\ f.opcode \in {"close", "ping"}
              /\ wsLoop' = [at |-> f.opcode, frame |-> f] /\ UNCHANGED wsFragment
           \/ /\ f.opcode = "pong"
              /\ UNCHANGED <<wsLoop, wsFragment>>
           \/ /\ f.opcode \in WsData /\ f.fin
              /\ wsLoop' = [at |-> "deliver", opcode |-> f.opcode,
                            compressed |-> f.rsv1, payload |-> f.payload]
              /\ UNCHANGED wsFragment
           \/ /\ f.opcode \in WsData /\ ~f.fin
              /\ wsFragment' = [opcode |-> f.opcode, compressed |-> f.rsv1,
                                payload |-> f.payload]
              /\ UNCHANGED wsLoop
           \/ /\ f.opcode = "continuation" /\ ~f.fin
              /\ wsFragment' = [wsFragment EXCEPT !.payload = @ \o f.payload]
              /\ UNCHANGED wsLoop
           \/ /\ f.opcode = "continuation" /\ f.fin
              /\ wsLoop' = [at |-> "deliver", opcode |-> wsFragment.opcode,
                            compressed |-> wsFragment.compressed,
                            payload |-> wsFragment.payload \o f.payload]
              /\ wsFragment' = WsNoFragment
  /\ UNCHANGED <<wsClosed, wsClosing, wsGone, wsSent, wsGot, wsOut, wsDue, wsCalls>>

\* The loop acts: it fails the connection, answers a ping, or takes up a close
\* frame of the client.
WsFail ==
  /\ wsLoop.at = "fail"
  /\ fail_connection(LoopThread, wsLoop.code)
  /\ wsLoop' = WsIdle
  /\ UNCHANGED <<wsGone, wsBuffer, wsSent, wsFragment, wsGot, wsCalls>>

WsPong ==
  /\ wsLoop.at = "ping"
  /\ IF wsClosed THEN UNCHANGED wsOut ELSE WsWrite(LoopThread, "pong", 0)
  /\ wsLoop' = WsIdle
  /\ UNCHANGED <<wsClosed, wsClosing, wsGone, wsBuffer, wsSent, wsFragment,
                 wsGot, wsDue, wsCalls>>

\* handle_close_frame: a status code of one byte, or a wrong one, or a reason
\* that is not UTF-8, fails the connection; otherwise the code is echoed,
\* unless a close frame was written already, and the handler is called in
\* either case.
handle_close_frame ==
  /\ wsLoop.at = "close"
  /\ LET f == wsLoop.frame
         bad == IF f.length = 1 THEN 1002
                ELSE IF f.length = 0 THEN 0
                ELSE IF ~is_valid_close_code(f.code) THEN 1002
                ELSE IF ~is_valid_utf8(f.payload) THEN 1007 ELSE 0
     IN  IF bad # 0 THEN fail_connection(LoopThread, bad)
         ELSE /\ IF wsClosed THEN UNCHANGED wsOut ELSE WsWrite(LoopThread, "close", f.code)
              /\ wsClosed' = TRUE /\ wsClosing' = TRUE
              /\ wsDue' = wsDue \cup {LoopThread}
  /\ wsBuffer' = <<>> /\ wsLoop' = WsIdle
  /\ UNCHANGED <<wsGone, wsSent, wsFragment, wsGot, wsCalls>>

\* deliver_message: a message that does not inflate or is not UTF-8 fails the
\* connection and drops what is buffered; otherwise a handler gets it, in
\* which the loop's thread may send and close like any other.
deliver_message ==
  /\ wsLoop.at = "deliver"
  /\ LET m == IF wsLoop.compressed THEN Inflated(wsLoop.payload) ELSE wsLoop.payload
         bad == IF wsLoop.compressed /\ ~inflate_payload(wsLoop.payload) THEN 1009
                ELSE IF wsLoop.opcode = "text" /\ ~is_valid_utf8(m) THEN 1007 ELSE 0
     IN  IF bad # 0
         THEN /\ fail_connection(LoopThread, bad)
              /\ wsBuffer' = <<>> /\ wsLoop' = WsIdle /\ UNCHANGED wsGot
         ELSE /\ wsGot' = Append(wsGot, [opcode |-> wsLoop.opcode, payload |-> m])
              /\ wsLoop' = [at |-> "handler"]
              /\ UNCHANGED <<wsClosed, wsClosing, wsOut, wsDue, wsBuffer>>
  /\ UNCHANGED <<wsGone, wsSent, wsFragment, wsCalls>>

\* The message handler returns: closed meanwhile, the rest is dropped.
WsHandled ==
  /\ wsLoop.at = "handler" /\ LoopThread \notin wsDue
  /\ wsLoop' = WsIdle
  /\ wsBuffer' = IF wsClosed THEN <<>> ELSE wsBuffer
  /\ UNCHANGED <<wsClosed, wsClosing, wsGone, wsSent, wsFragment, wsGot, wsOut,
                 wsDue, wsCalls>>

\* Threads of the application: any thread of its own, and the loop's while the
\* message handler runs.
WsCallers == WsThreads \cup (IF wsLoop.at = "handler" THEN {LoopThread} ELSE {})

\* send(), send_binary() and ping().
send_frame(t) ==
  /\ t \in WsCallers \ wsDue
  /\ Cardinality({i \in 1..Len(wsOut) : wsOut[i].opcode = "data"}) < WsMaxSends
  /\ ~wsClosed
  /\ WsWrite(t, "data", 0)
  /\ UNCHANGED <<wsClosed, wsClosing, wsGone, wsBuffer, wsSent, wsFragment,
                 wsLoop, wsGot, wsDue, wsCalls>>

WsClose(t) ==
  /\ t \in WsCallers \ wsDue
  /\ ~wsClosed
  /\ fail_connection(t, 1000)
  /\ UNCHANGED <<wsGone, wsBuffer, wsSent, wsFragment, wsLoop, wsGot, wsCalls>>

\* The handler call at the end of close(), fail_connection(),
\* handle_close_frame() and handle_transport_closed(), outside the mutex.
CallCloseHandler(t) ==
  /\ t \in wsDue
  /\ wsDue' = wsDue \ {t}
  /\ wsCalls' = wsCalls + 1
  /\ UNCHANGED <<wsClosed, wsClosing, wsGone, wsBuffer, wsSent, wsFragment,
                 wsLoop, wsGot, wsOut>>

\* The transport goes away: the client disconnects, a timeout or a write
\* error, or what was queued before transport_.close() is through.
handle_transport_closed ==
  /\ ~wsGone /\ wsLoop.at = "idle" /\ LoopThread \notin wsDue
  /\ wsGone' = TRUE
  /\ wsClosed' = TRUE
  /\ wsDue' = IF wsClosed THEN wsDue ELSE wsDue \cup {LoopThread}
  /\ UNCHANGED <<wsClosing, wsBuffer, wsSent, wsFragment, wsLoop, wsGot, wsOut,
                 wsCalls>>

WsNext ==
  \/ WsReceive \/ WsInspect \/ WsFail \/ WsPong \/ handle_close_frame
  \/ deliver_message \/ WsHandled \/ handle_transport_closed
  \/ \E t \in WsThreads \cup {LoopThread} :
       send_frame(t) \/ WsClose(t) \/ CallCloseHandler(t)

WsSpec == WsInit /\ [][WsNext]_wsVars

----
\* What the client meant: its frames without control frames cut into messages,
\* each ended by a frame with FIN, the payloads joined.
WsOfMessage(fs) == {i \in DOMAIN fs : fs[i].opcode \notin WsControl}
WsEnds(fs) == {i \in WsOfMessage(fs) : fs[i].fin}

\* Frame i begins a message: whatever came before it has ended.
WsBegins(fs, i) ==
  i \in WsOfMessage(fs) /\ \A j \in WsOfMessage(fs) : j < i => \E e \in WsEnds(fs) : j <= e /\ e < i

\* The frame that began the message of frame i.
WsFirst(fs, i) == CHOOSE j \in 1 .. i : WsBegins(fs, j) /\ \A k \in j + 1 .. i : ~WsBegins(fs, k)

\* The payload of the message of frame i up to and with this frame, p being
\* what it was before.
WsJoin(fs, i, p) ==
  IF i \in WsOfMessage(fs) THEN (IF WsBegins(fs, i) THEN << >> ELSE p) \o fs[i].payload ELSE p

WsJoined(fs) ==
  LET joined[i \in 0 .. Len(fs)] == IF i = 0 THEN << >> ELSE WsJoin(fs, i, joined[i - 1])
  IN joined

WsMessage(fs, i) ==
  LET first == fs[WsFirst(fs, i)]
  IN [opcode |-> first.opcode, payload |-> IF first.rsv1 THEN Inflated(WsJoined(fs)[i]) ELSE WsJoined(fs)[i]]

\* The messages that the first i frames complete.
WsComplete(fs, i, ms) == IF i \in WsEnds(fs) THEN Append(ms, WsMessage(fs, i)) ELSE ms

WsMessages(fs) ==
  LET meant[i \in 0 .. Len(fs)] == IF i = 0 THEN << >> ELSE WsComplete(fs, i, meant[i - 1])
  IN meant

\* Messages reach the handlers whole, in order and none twice, whatever way
\* they were cut into fragments, with control frames between them, and none of
\* them is over the limit or a text that is not UTF-8; what a handler gets is
\* never a mix of two messages.
MessagesIntact ==
  LET sent == WsMessages(wsSent)[Len(wsSent)] IN
  /\ Len(wsGot) <= Len(sent)
  /\ \A i \in 1..Len(wsGot) :
       /\ wsGot[i] = sent[i]
       /\ Len(wsGot[i].payload) <= WsMaxSize
       /\ wsGot[i].opcode = "text" => is_valid_utf8(wsGot[i].payload)

\* The closing handshake against all orders of close(), the client's close
\* frame, a protocol error and a lost connection: at most one close frame is
\* written and nothing after it; whoever closed it, the close handler has been
\* called or somebody is on the way to call it; it is called again only for a
\* client's close frame that crossed with a close of ours.
ClosesOnce ==
  /\ \A i \in 1..Len(wsOut) : wsOut[i].opcode = "close" => i = Len(wsOut)
  /\ wsClosed => wsCalls + Cardinality(wsDue) >= 1
  /\ ~wsClosed => wsCalls = 0 /\ wsDue = {}
  /\ wsCalls + Cardinality(wsDue) > 1 =>
       /\ wsCalls + Cardinality(wsDue) = 2
       /\ wsSent # <<>> /\ \E i \in 1..Len(wsSent) : wsSent[i].opcode = "close"
       /\ wsOut # <<>> => wsOut[Len(wsOut)].by # LoopThread
====
