---- MODULE ConnectionRequests ----
\* The read side of one HTTP/1.1 connection (src/server/Connection.cpp):
\* the event loop buffers what the client sends, the parser cuts it into
\* requests, and is_processing_request_ passes between the loop and the
\* workers the right to take up the next one.  Requests may be pipelined,
\* their bodies streamed to the handler, their responses streamed to the
\* client, and the server may start draining at any moment.
\*
\* A step is a critical section of read_mutex_ or an access to an atomic.
\* A request arrives in two pieces, numbered through: 2n - 1 and 2n are the
\* halves of request n, for an upload its headers and its body.  So the
\* read buffer is the interval used + 1 .. came.  What happens to responses
\* is ConnectionOutput's matter, which timer is armed ConnectionTimers':
\* here a closing connection goes away, and a timeout may come at any time.
EXTENDS Naturals, Sequences, FiniteSets

CONSTANTS
  Workers,       \* pool threads
  Loop,          \* the event-loop thread
  Kinds,         \* the requests clients send, see AllKinds
  MaxRequests,   \* bound: requests of a connection
  MaxStreamed    \* bound: of these, requests on stream routes

\* "get": handled once it is whole.  "upload": on a stream route, handled from
\* its headers on.  "empty": on a stream route, without a body.  "bad": no HTTP.
\* "badBody": an upload whose body is malformed.
AllKinds == {"get", "upload", "empty", "bad", "badBody"}

ASSUME RequestsAssumption ==
  /\ Loop \notin Workers
  /\ Kinds \subseteq AllKinds
  /\ MaxRequests \in Nat /\ MaxStreamed \in Nat

OnStreamRoute(kind) == kind \in {"upload", "empty", "badBody"}

Threads == Workers \cup {Loop}

VARIABLES
  requests,      \* what the client sends, a sequence of kinds
  came,          \* the pieces read so far
  used,          \* the pieces the parser has taken from read_buffer_
  msg,           \* message_started_, request_complete_, streaming_request_, and
                 \* whether the parser has failed
  state,         \* state_: "http" or "streaming" (HTTP_STREAMING_BODY)
  isReading,     \* is_reading_
  isProcessing,  \* is_processing_request_
  shouldClose,   \* should_close_
  closing,       \* close_after_write_
  removed,       \* removed_
  draining,      \* ConnectionManager::shutting_down()
  onData, onEnd, \* body_stream_on_data_ and _on_end_: whose handler set it, or 0
  jobs,          \* process_request() calls queued in the pool
  pc,            \* where each thread is
  got,           \* what check_request_state() told it
  held,          \* the request it is answering
  back,          \* where the loop goes on after a handler it has called
  answers,       \* history: the requests answered, in order; 0 stands for an error
  bodies         \* history: <<request, handler>> of the bodies delivered

input == <<requests, came>>
parser == <<used, msg>>
flags == <<state, shouldClose, closing, removed, draining>>
streams == <<onData, onEnd>>
locals == <<got, held, back>>
history == <<answers, bodies>>
vars == <<input, parser, flags, isReading, isProcessing, streams, jobs, pc, locals, history>>

NoMsg == [started |-> FALSE, complete |-> FALSE, streaming |-> FALSE, failed |-> FALSE]

Pcs == {"idle", "route", "busy", "check", "act", "stream", "end", "readMore", "remove",
        "notice", "closeIdle", "process", "handler", "streaming", "answer",
        "finish", "error", "continue", "leave", "checkNext", "next", "release", "recheck",
        "again"}

TypeOK ==
  /\ came \in 0 .. 2 * Len(requests) /\ used \in 0 .. came
  /\ state \in {"http", "streaming"}
  /\ isReading \in BOOLEAN /\ isProcessing \in BOOLEAN /\ shouldClose \in BOOLEAN
  /\ closing \in BOOLEAN /\ removed \in BOOLEAN /\ draining \in BOOLEAN
  /\ onData \in 0 .. Len(requests) /\ onEnd \in 0 .. Len(requests)
  /\ jobs \in Nat
  /\ pc \in [Threads -> Pcs]
  /\ back \in {"idle", "readMore", "remove"}

\* start(): the first read is armed.
Init ==
  /\ \E n \in 1 .. MaxRequests : requests \in [1 .. n -> Kinds]
  /\ Cardinality({n \in DOMAIN requests : OnStreamRoute(requests[n])}) <= MaxStreamed
  /\ came = 0 /\ used = 0 /\ msg = NoMsg
  /\ state = "http" /\ shouldClose = FALSE /\ closing = FALSE /\ removed = FALSE
  /\ draining = FALSE
  /\ isReading = TRUE /\ isProcessing = FALSE
  /\ onData = 0 /\ onEnd = 0 /\ jobs = 0
  /\ pc = [t \in Threads |-> "idle"]
  /\ got = [t \in Threads |-> "incomplete"]
  /\ held = [t \in Threads |-> 0]
  /\ back = "idle"
  /\ answers = << >> /\ bodies = {}

Goto(t, place) == pc' = [pc EXCEPT ![t] = place]

\* Where a thread goes when what it was called for is done.
Return(t) == Goto(t, IF t = Loop THEN back ELSE "idle")

\* trigger_read(): nothing is submitted for a connection that was removed.
TriggerRead == isReading' = (isReading \/ ~removed)

\* The request of the piece the parser took last, and its kind.
Current == (used + 1) \div 2
KindOf(n) == requests[n]

----
\* check_request_state(), one critical section

\* What the parser makes of the buffered pieces: the answer, the pieces taken
\* and the marks set. On an error it takes all there is, and nothing afterwards.
Parsed ==
  LET taken(answer, n, m) == [answer |-> answer, used |-> used + n, msg |-> m]
      buffered == came - used
      kind == KindOf((used + 2) \div 2)
      started == [msg EXCEPT !.started = TRUE]
  IN  CASE msg.complete -> taken("complete", 0, msg)
        [] ~msg.complete /\ msg.streaming -> taken("headers", 0, msg)
        [] ~msg.complete /\ ~msg.streaming /\ msg.failed -> taken("error", 0, msg)
        [] OTHER ->
             IF buffered = 0 THEN taken("incomplete", 0, msg)
             ELSE IF msg.started THEN taken("complete", 1, [msg EXCEPT !.complete = TRUE])
             ELSE IF kind = "bad" THEN taken("error", buffered, [started EXCEPT !.failed = TRUE])
             ELSE IF kind \in {"upload", "badBody"}
                  THEN taken("headers", 1, [started EXCEPT !.streaming = TRUE])
             ELSE IF buffered = 1 THEN taken("incomplete", 1, started)
             ELSE taken("complete", 2, [started EXCEPT !.complete = TRUE])

CheckRequestState(t, from, to) ==
  /\ pc[t] = from
  /\ used' = Parsed.used /\ msg' = Parsed.msg
  /\ got' = [got EXCEPT ![t] = Parsed.answer]
  /\ Goto(t, to)
  /\ UNCHANGED <<input, flags, isReading, isProcessing, streams, jobs, held, back, history>>

----
\* on_read_complete()

\* A read completes with n pieces, which join read_buffer_.
ReadComplete(n) ==
  /\ isReading /\ ~removed /\ pc[Loop] = "idle"
  /\ came + n <= 2 * Len(requests)
  /\ came' = came + n
  /\ isReading' = FALSE
  /\ Goto(Loop, "route")
  /\ UNCHANGED <<requests, parser, flags, isProcessing, streams, jobs, locals, history>>

\* The peer is gone: a handler that reads the body is told that it has ended
\* (its callback is not taken out), and the connection is removed.
ReadEnds ==
  /\ isReading /\ ~removed /\ pc[Loop] = "idle"
  /\ isReading' = FALSE
  /\ IF state = "streaming" /\ onEnd # 0
     THEN Goto(Loop, "answer") /\ held' = [held EXCEPT ![Loop] = onEnd]
     ELSE Goto(Loop, "remove") /\ UNCHANGED held
  /\ back' = "remove"
  /\ UNCHANGED <<input, parser, flags, isProcessing, streams, jobs, got, history>>

\* The branch on state_.
Route ==
  /\ pc[Loop] = "route"
  /\ Goto(Loop, IF state = "streaming" THEN "stream" ELSE "busy")
  /\ back' = IF state = "streaming" THEN "readMore" ELSE "idle"
  /\ UNCHANGED <<input, parser, flags, isReading, isProcessing, streams, jobs, got, held,
                 history>>

\* if (is_processing_request_) return;
Busy ==
  /\ pc[Loop] = "busy"
  /\ Goto(Loop, IF isProcessing THEN "idle" ELSE "check")
  /\ UNCHANGED <<input, parser, flags, isReading, isProcessing, streams, jobs, locals, history>>

\* Hands the request over to the pool: a stream route's from its headers on, and
\* the loop reads on for its body.
Dispatch(answer) ==
  /\ jobs' = jobs + 1
  /\ IF answer = "headers"
     THEN state' = "streaming" /\ TriggerRead
     ELSE UNCHANGED <<state, isReading>>

\* What the loop does about the answer of check_request_state().
Act ==
  /\ pc[Loop] = "act"
  /\ \/ /\ got[Loop] \in {"complete", "headers"} /\ ~isProcessing
        /\ isProcessing' = TRUE
        /\ Dispatch(got[Loop])
        /\ Goto(Loop, "idle")
     \/ /\ got[Loop] \in {"complete", "headers"} /\ isProcessing
        /\ Goto(Loop, "idle")
        /\ UNCHANGED <<isProcessing, isReading, jobs, state>>
     \/ /\ got[Loop] = "error"
        /\ Goto(Loop, "error")
        /\ UNCHANGED <<isProcessing, isReading, jobs, state>>
     \/ /\ got[Loop] = "incomplete"
        /\ TriggerRead
        /\ Goto(Loop, "idle")
        /\ UNCHANGED <<isProcessing, jobs, state>>
  /\ UNCHANGED <<input, parser, shouldClose, closing, removed, draining, streams, locals,
                 history>>

ReadMore ==
  /\ pc[Loop] = "readMore"
  /\ TriggerRead
  /\ Goto(Loop, "idle")
  /\ UNCHANGED <<input, parser, flags, isProcessing, streams, jobs, locals, history>>

Remove ==
  /\ pc[Loop] = "remove"
  /\ removed' = TRUE
  /\ Goto(Loop, "idle")
  /\ UNCHANGED <<input, parser, state, shouldClose, closing, draining, isReading,
                 isProcessing, streams, jobs, locals, history>>

----
\* Streamed bodies

\* process_streaming_data(): the body goes to the callback that is set, if one
\* is. A worker is then free for other work; the handler goes on when the body
\* ends.
StreamData(t) ==
  /\ pc[t] = "stream"
  /\ IF ~msg.streaming \/ msg.complete \/ onData = 0 \/ used = came
     THEN /\ Return(t)
          /\ UNCHANGED <<parser, bodies>>
     ELSE /\ IF KindOf(Current) = "badBody" \/ msg.failed
             THEN /\ used' = IF msg.failed THEN used ELSE came
                  /\ msg' = [msg EXCEPT !.failed = TRUE]
                  /\ Goto(t, "error")
                  /\ UNCHANGED bodies
             ELSE /\ used' = used + 1
                  /\ msg' = [msg EXCEPT !.complete = TRUE]
                  /\ bodies' = bodies \cup {<<Current, onData>>}
                  /\ Goto(t, "end")
  /\ UNCHANGED <<input, flags, isReading, isProcessing, streams, jobs, locals, answers>>

\* ... and on_end, if there is one, is taken out and called: the handler
\* answers.
StreamEnd(t) ==
  /\ pc[t] = "end"
  /\ IF onEnd # 0
     THEN /\ held' = [held EXCEPT ![t] = onEnd]
          /\ onEnd' = 0
          /\ Goto(t, "answer")
     ELSE /\ Return(t)
          /\ UNCHANGED <<held, onEnd>>
  /\ UNCHANGED <<input, parser, flags, isReading, isProcessing, onData, jobs, got, back,
                 history>>

----
\* Handling a request

\* A worker takes a job of the pool.
Take(w) ==
  /\ pc[w] = "idle" /\ jobs > 0
  /\ jobs' = jobs - 1
  /\ Goto(w, "process")
  /\ UNCHANGED <<input, parser, flags, isReading, isProcessing, streams, locals, history>>

\* Whether the parser holds a request.
HasRequest == msg.complete \/ msg.streaming

\* process_request(): the request the parser holds goes to its handler, which
\* is the last one if the client asked for that; without one the answer is 400.
Process(w, close) ==
  /\ pc[w] = "process"
  /\ IF HasRequest
     THEN /\ held' = [held EXCEPT ![w] = Current]
          /\ shouldClose' = (shouldClose \/ close)
          /\ Goto(w, "handler")
     ELSE /\ Goto(w, "error")
          /\ UNCHANGED <<held, shouldClose>>
  /\ UNCHANGED <<input, parser, state, closing, removed, draining, isReading, isProcessing,
                 streams, jobs, got, back, history>>

\* The handler answers with send().
Respond(w) ==
  /\ pc[w] = "handler"
  /\ Goto(w, "answer")
  /\ UNCHANGED <<input, parser, flags, isReading, isProcessing, streams, jobs, locals, history>>

\* send_headers(): the response is streamed; a read is armed to notice a client
\* that leaves.
SendHeaders(w) ==
  /\ pc[w] = "handler"
  /\ shouldClose' = (shouldClose \/ draining)
  /\ IF state = "http" THEN TriggerRead ELSE UNCHANGED isReading
  /\ Goto(w, "streaming")
  /\ UNCHANGED <<input, parser, state, closing, removed, draining, isProcessing, streams,
                 jobs, locals, history>>

\* ... and end() finishes it.
EndResponse(w) ==
  /\ pc[w] = "streaming"
  /\ Goto(w, "finish")
  /\ UNCHANGED <<input, parser, flags, isReading, isProcessing, streams, jobs, locals, history>>

\* read_body_stream(): the callbacks are set; a request without a body is over.
ReadBodyStream(w) ==
  /\ pc[w] = "handler"
  /\ OnStreamRoute(KindOf(held[w]))
  /\ onData' = held[w]
  /\ onEnd' = IF msg.streaming THEN held[w] ELSE 0
  /\ Goto(w, IF msg.streaming THEN "stream" ELSE "answer")
  /\ UNCHANGED <<input, parser, flags, isReading, isProcessing, jobs, locals, history>>

\* send() and end(): the response is queued, with the close request if it is the
\* last one; only send() looks whether the server drains.
Answer(t) ==
  /\ pc[t] \in {"answer", "finish"}
  /\ LET last == shouldClose \/ (pc[t] = "answer" /\ draining)
     IN  /\ shouldClose' = last
         /\ closing' = (closing \/ last)
         /\ IF last THEN Return(t) ELSE Goto(t, "continue")
  /\ answers' = Append(answers, held[t])
  /\ UNCHANGED <<input, parser, state, removed, draining, isReading, isProcessing, streams,
                 jobs, locals, bodies>>

\* send_error(), and the 400 of process_request(): what is buffered is dropped,
\* the connection closes.
SendError(t) ==
  /\ pc[t] = "error"
  /\ used' = came
  /\ shouldClose' = TRUE /\ closing' = TRUE
  /\ answers' = Append(answers, 0)
  /\ Return(t)
  /\ UNCHANGED <<input, msg, state, removed, draining, isReading, isProcessing, streams, jobs,
                 locals, bodies>>

----
\* continue_after_response()

\* Mutant: the parser stays at the request that was answered.
ContinueAfter_NoNext(t) ==
  /\ pc[t] = "continue"
  /\ Goto(t, IF msg.streaming /\ ~msg.complete THEN "leave" ELSE "checkNext")
  /\ UNCHANGED <<input, parser, flags, isReading, isProcessing, streams, jobs, locals, history>>

\* The parser moves on, unless the rest of a body is still to come.
ContinueAfter(t) ==
  /\ pc[t] = "continue"
  /\ msg' = [NoMsg EXCEPT !.failed = msg.failed]
  /\ got' = [got EXCEPT ![t] = IF msg.streaming /\ ~msg.complete THEN "unread" ELSE "read"]
  /\ Goto(t, "leave")
  /\ UNCHANGED <<input, used, flags, isReading, isProcessing, streams, jobs, held, back,
                 history>>

\* The streaming state is left; a body that was not read closes the connection.
LeaveStream(t) ==
  /\ pc[t] = "leave"
  /\ state' = "http"
  /\ IF got[t] = "unread"
     THEN closing' = TRUE /\ Return(t)
     ELSE Goto(t, "checkNext") /\ UNCHANGED closing
  /\ UNCHANGED <<input, parser, shouldClose, removed, draining, isReading, isProcessing,
                 streams, jobs, locals, history>>

\* The next request, if it has arrived, is handed over under the same
\* is_processing_request_.
NextRequest(t) ==
  /\ pc[t] = "next"
  /\ \/ /\ got[t] \in {"complete", "headers"}
        /\ Dispatch(got[t])
        /\ Return(t)
     \/ /\ got[t] = "error"
        /\ Goto(t, "error")
        /\ UNCHANGED <<jobs, state, isReading>>
     \/ /\ got[t] = "incomplete"
        /\ Goto(t, "release")
        /\ UNCHANGED <<jobs, state, isReading>>
  /\ UNCHANGED <<input, parser, shouldClose, closing, removed, draining, isProcessing, streams,
                 locals, history>>

\* Mutant: does not look at the buffer again.
Release_NoRecheck(t) ==
  /\ pc[t] = "release"
  /\ isProcessing' = FALSE
  /\ TriggerRead
  /\ Return(t)
  /\ UNCHANGED <<input, parser, flags, streams, jobs, locals, history>>

\* is_processing_request_ = false;
Release(t) ==
  /\ pc[t] = "release"
  /\ isProcessing' = FALSE
  /\ Goto(t, "recheck")
  /\ UNCHANGED <<input, parser, flags, isReading, streams, jobs, locals, history>>

\* A whole request that was buffered meanwhile is taken up by the loop or by
\* this thread; otherwise reading goes on.
Again(t) ==
  /\ pc[t] = "again"
  /\ \/ /\ got[t] = "complete" /\ ~isProcessing
        /\ isProcessing' = TRUE
        /\ jobs' = jobs + 1
        /\ UNCHANGED isReading
     \/ /\ got[t] = "complete" /\ isProcessing
        /\ UNCHANGED <<isProcessing, isReading, jobs>>
     \/ /\ got[t] # "complete"
        /\ TriggerRead
        /\ UNCHANGED <<isProcessing, jobs>>
  /\ Return(t)
  /\ UNCHANGED <<input, parser, flags, streams, locals, history>>

----
\* Draining and closing

BeginDrain ==
  /\ ~draining
  /\ draining' = TRUE
  /\ UNCHANGED <<input, parser, state, shouldClose, closing, removed, isReading, isProcessing,
                 streams, jobs, pc, locals, history>>

\* on_server_shutdown(), again and again while the server drains.
ServerShutdown ==
  /\ draining /\ ~removed /\ ~closing
  /\ pc[Loop] = "idle"
  /\ shouldClose' = TRUE
  /\ Goto(Loop, IF state = "http" THEN "notice" ELSE "idle")
  /\ UNCHANGED <<input, parser, state, closing, removed, draining, isReading, isProcessing,
                 streams, jobs, locals, history>>

\* Mutant: a request half parsed does not count.
IdleNow_Buffer == ~isProcessing /\ used = came

\* Whether no request is being handled or arriving.
IdleNow == ~isProcessing /\ used = came /\ ~msg.started

Notice ==
  /\ pc[Loop] = "notice"
  /\ Goto(Loop, IF IdleNow THEN "closeIdle" ELSE "idle")
  /\ UNCHANGED <<input, parser, flags, isReading, isProcessing, streams, jobs, locals, history>>

\* mark_for_close()
CloseIdle ==
  /\ pc[Loop] = "closeIdle"
  /\ closing' = TRUE
  /\ Goto(Loop, "idle")
  /\ UNCHANGED <<input, parser, state, shouldClose, removed, draining, isReading, isProcessing,
                 streams, jobs, locals, history>>

\* The connection goes away: what was queued is written, or a timeout comes.
GoAway ==
  /\ ~removed
  /\ closing \/ pc[Loop] = "idle"
  /\ removed' = TRUE
  /\ UNCHANGED <<input, parser, state, shouldClose, closing, draining, isReading, isProcessing,
                 streams, jobs, pc, locals, history>>

LoopStep == Route \/ Busy \/ CheckRequestState(Loop, "check", "act") \/ Act \/ ReadMore
            \/ Remove \/ Notice \/ CloseIdle

AnswerStep(t) ==
  \/ StreamData(t) \/ StreamEnd(t) \/ Answer(t) \/ SendError(t)
  \/ ContinueAfter(t) \/ LeaveStream(t) \/ CheckRequestState(t, "checkNext", "next")
  \/ NextRequest(t) \/ Release(t) \/ CheckRequestState(t, "recheck", "again") \/ Again(t)

HandlerStep(w) == Respond(w) \/ SendHeaders(w) \/ EndResponse(w) \/ ReadBodyStream(w)

WorkerStep(w) == Take(w) \/ (\E close \in BOOLEAN : Process(w, close))

Next ==
  \/ \E n \in 1 .. 2 * MaxRequests : ReadComplete(n)
  \/ ReadEnds \/ LoopStep \/ BeginDrain \/ ServerShutdown \/ GoAway
  \/ \E t \in Threads : AnswerStep(t)
  \/ \E w \in Workers : WorkerStep(w) \/ HandlerStep(w)

Spec == Init /\ [][Next]_vars

\* Threads run on and handlers answer. Clients need not send, nothing has to
\* close, drain or time out.
FairSpec ==
  /\ Spec
  /\ WF_vars(LoopStep)
  /\ \A t \in Threads : WF_vars(AnswerStep(t))
  /\ \A w \in Workers : WF_vars(WorkerStep(w)) /\ WF_vars(HandlerStep(w))

----
\* Properties

\* Threads that act for a request: at work on it, or on what comes after it.
Acting == {t \in Threads : pc[t] \in {"process", "handler", "streaming", "answer", "finish",
                                      "continue", "leave", "checkNext", "next", "release"}}

\* The client has left: the connection is on its way out.
PeerLeft == back = "remove"

\* is_processing_request_: one request at a time. While one is queued for the
\* pool, in a handler's hands or being finished, the flag is set and no other
\* is, as long as the client is there.
OneAtATime == ~PeerLeft =>
  /\ jobs + Cardinality(Acting) <= 1
  /\ jobs + Cardinality(Acting) > 0 => isProcessing

\* Requests are answered once and in the order in which they arrived; an error
\* ends the conversation.
AnsweredInOrder == ~PeerLeft =>
  \A i \in DOMAIN answers :
    answers[i] = i \/ \A j \in i .. Len(answers) : answers[j] = 0

\* Request n has arrived whole, and no upload after the first request is before
\* it.
Arrived(n) ==
  came >= 2 * n /\ \A m \in 2 .. Len(requests) : m <= n => KindOf(m) \in {"get", "empty"}

\* Nothing is forgotten: when all threads have returned and no handler has the
\* connection, the next request has not arrived whole, and a read is armed.
NothingForgotten ==
  (\A t \in Threads : pc[t] = "idle") /\ jobs = 0 /\ onEnd = 0 /\ ~closing /\ ~removed =>
    ~Arrived(Len(answers) + 1) /\ ~isProcessing /\ isReading

\* on_server_shutdown: the notice closes a connection only when everything that
\* has arrived is answered.
NoticeKeepsRequests ==
  [][pc[Loop] = "closeIdle" /\ ~closing /\ closing' => 2 * Len(answers) = came]_vars

\* A request that has arrived whole is answered, or the connection ends, if its
\* handlers answer (an upload only when it is the connection's first request):
\* again and again all that has arrived is answered.
RequestServed ==
  []<>(closing \/ removed \/ \A n \in 1 .. MaxRequests : Arrived(n) => Len(answers) >= n)

\* process_streaming_data: "Nothing is parsed until the handler has asked for
\* the body": a body goes to the handler of its own request.
BodyToItsHandler == \A b \in bodies : b[1] = b[2]

====
