---- MODULE Http2Session ----
\* One HTTP/2 session (src/http/Http2Session.cpp). The session's callbacks,
\* the writers of its streams and send_pending() run under session_mutex_, so
\* each is one step; handlers run on the pool, write at any moment, and may
\* keep their writer after they return. nghttp2 is external: per stream it
\* asks data_provider_read() for data while its flow-control window is open,
\* stops asking when told DEFERRED, and closes the stream once both sides have
\* ended it. Bodies are counted in bytes.
EXTENDS Naturals, FiniteSets

CONSTANTS H2Last,       \* streams are 1..H2Last, opened in this order
          H2MaxBody,    \* max_body_size_
          H2Sizes,      \* sizes of bodies and chunks
          H2Credit,     \* bytes the client's window opens by
          H2MaxWritten  \* bound: bytes one response has

ASSUME H2Assumption ==
  /\ H2Last \in Nat /\ H2MaxBody \in Nat /\ H2Sizes \subseteq Nat
  /\ H2Credit \in Nat /\ H2MaxWritten \in Nat

VARIABLES
  h2Stream,     \* streams_: what is known of each stream, and nghttp2's part
  h2Task,       \* the pool's task that runs the handler of each stream
  h2Writer,     \* the Http2ResponseWriter of each stream
  h2Fd,         \* the file of each stream's response: closed how often
  h2Goaway,     \* last stream id of the GOAWAY sent, or NoGoaway
  h2Ended,      \* nghttp2_session_terminate_session() was called
  h2Closing,    \* mark_for_close() was called on the connection
  h2Conn        \* the connection: open, gone, or gone with the session

h2Vars == <<h2Stream, h2Task, h2Writer, h2Fd, h2Goaway, h2Ended, h2Closing, h2Conn>>

H2Ids == 1..H2Last
NoGoaway == H2Last + 1

H2NoStream == [st |-> "none", body |-> 0, body_too_large |-> FALSE,
               streaming |-> FALSE, stream_ended |-> FALSE, written |-> 0,
               sent |-> 0, window |-> 0, deferred |-> FALSE, file |-> FALSE]
H2NoWriter == [exists |-> FALSE, headers_sent |-> FALSE, notice |-> 0, told |-> 0]

H2Init ==
  /\ h2Stream = [s \in H2Ids |-> H2NoStream]
  /\ h2Task = [s \in H2Ids |-> "none"]
  /\ h2Writer = [s \in H2Ids |-> H2NoWriter]
  /\ h2Fd = [s \in H2Ids |-> 0]
  /\ h2Goaway = NoGoaway /\ h2Ended = FALSE /\ h2Closing = FALSE /\ h2Conn = "open"

H2Open(s) == h2Stream[s].st \in {"reading", "handling", "answering"}

\* data_provider_read(), called by nghttp2 as long as the window is open: it
\* takes what there is; with nothing left it ends the stream, unless more is
\* to come, which defers it.
H2Least(a, b) == IF a < b THEN a ELSE b
data_provider_read(c) ==
  LET more_to_come == c.streaming /\ ~c.stream_ended
      to_read == H2Least(c.window, c.written - c.sent)
      left == c.written - c.sent - to_read
  IN  IF c.window = 0 \/ c.deferred THEN c
      ELSE [c EXCEPT !.sent = @ + to_read, !.window = @ - to_read,
                     !.st = IF left = 0 /\ ~more_to_come THEN "done" ELSE @,
                     !.deferred = (left = 0 /\ more_to_come)]

\* send_pending(), with the streams as the caller has left them: what can be
\* sent is sent; streams that end are closed, which calls on_stream_close(); a
\* session with a GOAWAY and without streams is over, and the connection is
\* marked for closing. With the connection gone nothing is sent.
H2After(streams) ==
  [s \in H2Ids |-> IF streams[s].st = "answering" /\ h2Conn = "open"
                   THEN data_provider_read(streams[s]) ELSE streams[s]]

\* Mutant: the file stays open.
on_stream_close_FileLeft(streams, writers) ==
  LET closing == {s \in H2Ids : streams[s].st = "done"} IN
  /\ UNCHANGED h2Fd
  /\ h2Writer' = [s \in H2Ids |-> IF s \in closing /\ writers[s].exists
                                  THEN [writers[s] EXCEPT !.notice = @ + 1] ELSE writers[s]]
  /\ h2Stream' = [s \in H2Ids |-> IF s \in closing THEN [H2NoStream EXCEPT !.st = "closed", !.file = streams[s].file]
                                  ELSE streams[s]]

\* on_stream_close(): the file is closed, the writer is told later, on a pool
\* thread, and the context leaves streams_.
on_stream_close(streams, writers) ==
  LET closing == {s \in H2Ids : streams[s].st = "done"} IN
  /\ h2Fd' = [s \in H2Ids |-> IF s \in closing /\ streams[s].file THEN h2Fd[s] + 1 ELSE h2Fd[s]]
  /\ h2Writer' = [s \in H2Ids |-> IF s \in closing /\ writers[s].exists
                                  THEN [writers[s] EXCEPT !.notice = @ + 1] ELSE writers[s]]
  /\ h2Stream' = [s \in H2Ids |-> IF s \in closing THEN [H2NoStream EXCEPT !.st = "closed", !.file = streams[s].file]
                                  ELSE streams[s]]

send_pending(streams, writers, goaway, ended) ==
  LET after == H2After(streams) IN
  /\ on_stream_close(after, writers)
  /\ h2Goaway' = goaway /\ h2Ended' = ended
  /\ h2Closing' = (h2Closing \/ (h2Conn = "open" /\
       (ended \/ (goaway # NoGoaway /\
                  \A s \in H2Ids : after[s].st \in {"none", "done", "closed"}))))

H2Pump(streams, writers) == send_pending(streams, writers, h2Goaway, h2Ended)

\* The client's frames, in process_data(). on_begin_headers() opens a stream;
\* after a GOAWAY nghttp2 ignores those beyond its last id.
H2Reads == h2Conn = "open" /\ ~h2Ended /\ ~h2Closing
on_begin_headers(s) ==
  /\ H2Reads /\ h2Stream[s].st = "none" /\ h2Goaway = NoGoaway
  /\ s > 1 => h2Stream[s - 1].st # "none"
  /\ H2Pump([h2Stream EXCEPT ![s].st = "reading"], h2Writer)
  /\ UNCHANGED <<h2Task, h2Conn>>

on_data_chunk_recv(s) ==
  /\ H2Reads /\ h2Stream[s].st = "reading" /\ ~h2Stream[s].body_too_large
  /\ \E n \in H2Sizes :
       LET big == h2Stream[s].body + n > H2MaxBody IN
       H2Pump([h2Stream EXCEPT ![s].body_too_large = big,
                               ![s].body = IF big THEN 0 ELSE @ + n], h2Writer)
  /\ UNCHANGED <<h2Task, h2Conn>>

\* on_frame_recv() with END_STREAM: a body that was too large, or a target
\* that cannot be decoded, is answered at once by submit_status_locked(), with
\* headers only; any other request goes to a handler, dispatch_request().
submit_status_locked(s) == [h2Stream EXCEPT ![s].st = "done"]

dispatch_request(s) ==
  /\ H2Pump([h2Stream EXCEPT ![s].st = "handling", ![s].body = 0],
            [h2Writer EXCEPT ![s].exists = TRUE])
  /\ h2Task' = [h2Task EXCEPT ![s] = "running"]

on_frame_recv(s) ==
  /\ H2Reads /\ h2Stream[s].st = "reading"
  /\ \/ /\ H2Pump(submit_status_locked(s), h2Writer) /\ UNCHANGED h2Task
     \/ /\ ~h2Stream[s].body_too_large /\ dispatch_request(s)
  /\ UNCHANGED h2Conn

\* The client resets a stream, opens its window, or sends what is no HTTP/2.
H2Reset(s) ==
  /\ H2Reads /\ H2Open(s)
  /\ H2Pump([h2Stream EXCEPT ![s].st = "done"], h2Writer)
  /\ UNCHANGED <<h2Task, h2Conn>>

H2WindowUpdate(s) ==
  /\ H2Reads /\ H2Open(s) /\ h2Stream[s].window = 0
  /\ H2Pump([h2Stream EXCEPT ![s].window = H2Credit], h2Writer)
  /\ UNCHANGED <<h2Task, h2Conn>>

H2ProtocolError ==
  /\ H2Reads /\ \A s \in H2Ids : h2Stream[s].st # "reading"
  /\ send_pending(h2Stream, h2Writer, IF h2Goaway = NoGoaway THEN H2Last ELSE h2Goaway, TRUE)
  /\ UNCHANGED <<h2Task, h2Conn>>

\* The writers. A writer whose session is gone, or whose stream was erased,
\* changes nothing; the second response of one writer is dropped.
H2MayWrite(s) == h2Writer[s].exists /\ h2Conn # "destroyed"

submit_response(s, size, file, streaming) ==
  IF ~H2Open(s) THEN H2Pump(h2Stream, [h2Writer EXCEPT ![s].headers_sent = TRUE])
  ELSE H2Pump([h2Stream EXCEPT ![s].st = "answering", ![s].written = size,
                               ![s].streaming = streaming, ![s].file = file],
              [h2Writer EXCEPT ![s].headers_sent = TRUE])

\* send(): without a body the headers end the stream, as they do for a HEAD
\* request answered by send_headers().
H2Send(s) ==
  /\ H2MayWrite(s) /\ ~h2Writer[s].headers_sent
  /\ \/ /\ H2Open(s)
        /\ H2Pump([h2Stream EXCEPT ![s].st = IF h2Conn = "open" THEN "done" ELSE @],
                  [h2Writer EXCEPT ![s].headers_sent = TRUE])
     \/ \E n \in H2Sizes, file \in BOOLEAN : submit_response(s, n, file, FALSE)
  /\ UNCHANGED <<h2Task, h2Conn>>

H2SendHeaders(s) ==
  /\ H2MayWrite(s) /\ ~h2Writer[s].headers_sent
  /\ submit_response(s, 0, FALSE, TRUE)
  /\ UNCHANGED <<h2Task, h2Conn>>

submit_data(s) ==
  /\ H2MayWrite(s) /\ H2Open(s)
  /\ h2Stream[s].streaming /\ ~h2Stream[s].stream_ended
  /\ \E n \in H2Sizes :
       /\ h2Stream[s].written + n <= H2MaxWritten
       /\ H2Pump([h2Stream EXCEPT ![s].written = @ + n, ![s].deferred = FALSE], h2Writer)
  /\ UNCHANGED <<h2Task, h2Conn>>

\* Mutant: a sleeping stream is not woken.
end_stream_NoResume(s) ==
  /\ H2MayWrite(s) /\ H2Open(s)
  /\ h2Stream[s].streaming /\ ~h2Stream[s].stream_ended
  /\ H2Pump([h2Stream EXCEPT ![s].stream_ended = TRUE], h2Writer)
  /\ UNCHANGED <<h2Task, h2Conn>>

end_stream(s) ==
  /\ H2MayWrite(s) /\ H2Open(s)
  /\ h2Stream[s].streaming /\ ~h2Stream[s].stream_ended
  /\ H2Pump([h2Stream EXCEPT ![s].stream_ended = TRUE, ![s].deferred = FALSE], h2Writer)
  /\ UNCHANGED <<h2Task, h2Conn>>

H2Return(s) ==
  /\ h2Task[s] = "running"
  /\ h2Task' = [h2Task EXCEPT ![s] = "returned"]
  /\ UNCHANGED <<h2Stream, h2Writer, h2Fd, h2Goaway, h2Ended, h2Closing, h2Conn>>

\* The pool runs the task of on_stream_close(): mark_closed(), which calls the
\* on_close callbacks the first time only.
H2MarkClosed(s) ==
  /\ h2Writer[s].notice > 0
  /\ h2Writer' = [h2Writer EXCEPT ![s].notice = @ - 1,
                                  ![s].told = IF @ = 0 THEN 1 ELSE @]
  /\ UNCHANGED <<h2Stream, h2Task, h2Fd, h2Goaway, h2Ended, h2Closing, h2Conn>>

\* on_server_shutdown(): GOAWAY with the last stream that was begun, the first
\* time, and a connection without streams is closed.
begin_shutdown ==
  /\ h2Conn = "open" /\ h2Goaway = NoGoaway /\ ~h2Ended
  /\ LET begun == {s \in H2Ids : h2Stream[s].st # "none"} IN
     send_pending(h2Stream, h2Writer, Cardinality(begun), h2Ended)
  /\ UNCHANGED <<h2Task, h2Conn>>

\* The connection is removed: close_streams() tells every writer there is.
close_streams ==
  /\ h2Conn = "open" /\ h2Conn' = "gone"
  /\ h2Writer' = [s \in H2Ids |-> IF H2Open(s) /\ h2Writer[s].exists
                                  THEN [h2Writer[s] EXCEPT !.told = 1] ELSE h2Writer[s]]
  /\ UNCHANGED <<h2Stream, h2Task, h2Fd, h2Goaway, h2Ended, h2Closing>>

\* ~Http2Session(): once no task owns the session. Files that streams still
\* have are closed.
H2Destroy ==
  /\ h2Conn = "gone" /\ \A s \in H2Ids : h2Task[s] # "running"
  /\ h2Conn' = "destroyed"
  /\ h2Fd' = [s \in H2Ids |-> IF H2Open(s) /\ h2Stream[s].file THEN h2Fd[s] + 1 ELSE h2Fd[s]]
  /\ UNCHANGED <<h2Stream, h2Task, h2Writer, h2Goaway, h2Ended, h2Closing>>

H2Next ==
  \/ \E s \in H2Ids :
       \/ on_begin_headers(s) \/ on_data_chunk_recv(s) \/ on_frame_recv(s)
       \/ H2Reset(s) \/ H2WindowUpdate(s)
       \/ H2Send(s) \/ H2SendHeaders(s) \/ submit_data(s) \/ end_stream(s)
       \/ H2Return(s) \/ H2MarkClosed(s)
  \/ H2ProtocolError \/ begin_shutdown \/ close_streams \/ H2Destroy

----
\* No response is cut short or left lying: what a handler wrote to an open
\* stream is sent before the stream is ended; a stream nghttp2 was told to
\* leave alone has nothing to send and is not ended, so no data waits for a
\* wake-up that does not come; and with the window open nothing is left
\* waiting at all.
H2NothingStranded ==
  \A s \in H2Ids :
    LET c == h2Stream[s] IN
    /\ c.deferred => c.sent = c.written /\ c.streaming /\ ~c.stream_ended
    /\ c.st = "answering" /\ h2Conn = "open" =>
         c.window = 0 \/ (c.sent = c.written /\ c.deferred)

\* The ends of streams, whoever ends them and in whatever order: a drain marks
\* the connection for closing only when every stream begun before it is done;
\* a file handed to a stream is closed exactly once when the stream or the
\* session is gone, and not before; a writer is told of the end only after it,
\* and once; and one that is not told is on its way to be.
H2EndsClean ==
  /\ h2Closing /\ ~h2Ended /\ h2Conn = "open" => \A s \in H2Ids : ~H2Open(s)
  /\ \A s \in H2Ids :
       LET over == h2Stream[s].st = "closed" \/ (h2Conn = "destroyed" /\ H2Open(s)) IN
       /\ h2Fd[s] = IF over /\ h2Stream[s].file THEN 1 ELSE 0
       /\ h2Writer[s].told > 0 => ~H2Open(s) \/ h2Conn # "open"
       /\ h2Writer[s].exists /\ (h2Stream[s].st = "closed" \/ h2Conn # "open") =>
            h2Writer[s].told = 1 \/ h2Writer[s].notice > 0
====
