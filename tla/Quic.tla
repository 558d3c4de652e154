---- MODULE Quic ----
\* QUIC connections, and HTTP/3 on one of them.
EXTENDS FiniteSets, Integers, Sequences

----
\* The QUIC connections of one UDP socket (src/server/QuicConnectionManager
\* .cpp, and the closing of QuicConnection.cpp). The event loop routes packets
\* by connection id and runs timers; workers write responses on a connection,
\* under its mutex, which may issue ids and start its closing too. The table
\* of ids belongs to the loop, which learns of new and retired ids only when
\* it next has to do with the connection. ngtcp2 is external.

CONSTANTS QcConns,    \* connections
          QcIds       \* connection ids, all random and distinct

QcNobody == "nobody"

ASSUME QcAssumption == IsFiniteSet(QcIds) /\ QcNobody \notin QcConns

VARIABLES
  qcTable,     \* connections_: the connection of each id, or QcNobody
  qcConn,      \* closing_, closed_, issued_cids_ and retired_cids_, and the ids
               \* ngtcp2 holds valid
  qcLoop,      \* the loop's step: a connection it has to sync, or QcNobody
  qcGauge,     \* orbit_active_connections{type="quic"}
  qcAfter      \* history: packets sent after the connection began to close

qcVars == <<qcTable, qcConn, qcLoop, qcGauge, qcAfter>>

QcNew == [st |-> "none", valid |-> {}, issued |-> {}, retired |-> {}]

QcInit ==
  /\ qcTable = [i \in QcIds |-> QcNobody] /\ qcConn = [c \in QcConns |-> QcNew]
  /\ qcLoop = QcNobody /\ qcGauge = 0 /\ qcAfter = [c \in QcConns |-> 0]

QcUsed == {i \in QcIds : qcTable[i] # QcNobody \/ \E c \in QcConns : i \in qcConn[c].valid \cup qcConn[c].retired}

\* What ngtcp2 does inside a packet, a timer or a write: nothing, it issues an
\* id, or it retires one of those it holds.
QcIdsChange(s) ==
  {s} \cup {[s EXCEPT !.valid = @ \cup {i}, !.issued = @ \cup {i}] : i \in QcIds \ QcUsed}
      \cup {[s EXCEPT !.valid = @ \ {i}, !.retired = @ \cup {i}] :
              i \in IF Cardinality(s.valid) > 1 THEN s.valid ELSE {}}

\* apply_error_action(): on an error the connection is closed with one
\* CONNECTION_CLOSE packet, drained without, or dropped at once; without one
\* send_pending_data() runs, which closes too if it fails. Nothing is done to
\* a connection that is closing already.
QcRun(c, mayDrop) ==
  \E s \in QcIdsChange(qcConn[c]) :
    \/ qcConn' = [qcConn EXCEPT ![c] = s] /\ UNCHANGED qcAfter
    \/ /\ qcConn' = [qcConn EXCEPT ![c] = [s EXCEPT !.st = "closing"]]
       /\ \E close \in {0, 1} : qcAfter' = [qcAfter EXCEPT ![c] = @ + close]
    \/ /\ mayDrop
       /\ qcConn' = [qcConn EXCEPT ![c] = [s EXCEPT !.st = "closed"]]
       /\ UNCHANGED qcAfter

process_packet(c) ==
  IF qcConn[c].st = "open" THEN QcRun(c, TRUE) ELSE UNCHANGED <<qcConn, qcAfter>>

\* on_packet_received(): for a known id, the connection's own packet; an
\* Initial for an unknown one makes a connection, under the client's id and an
\* id of the server. Everything else is dropped.
QcKnown(i) ==
  /\ qcLoop = QcNobody /\ qcTable[i] # QcNobody
  /\ process_packet(qcTable[i])
  /\ qcLoop' = qcTable[i]
  /\ UNCHANGED <<qcTable, qcGauge>>

QcAccept(c) ==
  /\ qcLoop = QcNobody /\ qcConn[c].st = "none"
  /\ \E i, j \in QcIds \ QcUsed :
       /\ i # j
       /\ qcTable' = [qcTable EXCEPT ![i] = c, ![j] = c]
       /\ qcGauge' = qcGauge + 1
       /\ qcLoop' = c
       /\ \E st \in {"open", "closing", "closed"} :
            qcConn' = [qcConn EXCEPT ![c] = [QcNew EXCEPT !.st = st, !.valid = {i, j}]]
  /\ UNCHANGED qcAfter

\* handle_timers(): handle_expiry() of each connection, closing ones are over
\* after three PTOs.
handle_expiry(c) ==
  /\ qcLoop = QcNobody /\ \E i \in QcIds : qcTable[i] = c
  /\ \/ qcConn[c].st = "open" /\ QcRun(c, TRUE)
     \/ /\ qcConn[c].st = "closing"
        /\ qcConn' = [qcConn EXCEPT ![c].st = "closed"] /\ UNCHANGED qcAfter
  /\ qcLoop' = c
  /\ UNCHANGED <<qcTable, qcGauge>>

\* sync_connection(), after either.
QcRouted(c) ==
  [i \in QcIds |-> IF i \in qcConn[c].issued \ qcConn[c].retired THEN c
                   ELSE IF i \in qcConn[c].retired /\ qcTable[i] = c THEN QcNobody
                   ELSE qcTable[i]]

\* Mutant: one id is kept in the table.
sync_connection_OneId(c) ==
  /\ qcLoop = c
  /\ LET closed == qcConn[c].st = "closed"
         routed == QcRouted(c)
         one == CHOOSE i \in QcIds : qcTable[i] = c
     IN  /\ qcTable' = IF closed THEN [routed EXCEPT ![one] = QcNobody] ELSE routed
         /\ qcGauge' = IF closed THEN qcGauge - 1 ELSE qcGauge
  /\ qcConn' = [qcConn EXCEPT ![c].issued = {}, ![c].retired = {}]
  /\ qcLoop' = QcNobody
  /\ UNCHANGED qcAfter

sync_connection(c) ==
  /\ qcLoop = c
  /\ LET closed == qcConn[c].st = "closed"
         routed == QcRouted(c)
     IN  /\ qcTable' = IF closed THEN [i \in QcIds |-> IF routed[i] = c THEN QcNobody ELSE routed[i]]
                       ELSE routed
         /\ qcGauge' = IF closed THEN qcGauge - 1 ELSE qcGauge
  /\ qcConn' = [qcConn EXCEPT ![c].issued = {}, ![c].retired = {}]
  /\ qcLoop' = QcNobody
  /\ UNCHANGED qcAfter

\* A worker sends a response: with_session(), send_pending_data().
QcWorker(c) ==
  /\ qcConn[c].st = "open"
  /\ QcRun(c, FALSE)
  /\ UNCHANGED <<qcTable, qcLoop, qcGauge>>

QcNext ==
  \/ \E i \in QcIds : QcKnown(i)
  \/ \E c \in QcConns : QcAccept(c) \/ handle_expiry(c) \/ sync_connection(c) \/ QcWorker(c)

----
\* Packets find their connection: when the loop is between two events, every
\* id that is valid leads to its connection, unless it was issued since the
\* loop last synced; an id that leads to a connection is valid or was retired
\* since; a connection that is closed has no id left, and the gauge counts the
\* connections in the table. One CONNECTION_CLOSE at most is ever sent.
QuicTableSound ==
  /\ qcLoop = QcNobody =>
       /\ \A c \in QcConns : qcConn[c].st \in {"open", "closing"} =>
            \A i \in qcConn[c].valid : qcTable[i] = c \/ i \in qcConn[c].issued
       /\ \A i \in QcIds : qcTable[i] # QcNobody =>
            /\ i \in qcConn[qcTable[i]].valid \cup qcConn[qcTable[i]].retired
            /\ qcConn[qcTable[i]].st # "closed"
       /\ qcGauge = Cardinality({qcTable[i] : i \in QcIds} \ {QcNobody})
  /\ \A c \in QcConns : qcAfter[c] <= 1

----
\* The HTTP/3 streams of one QUIC connection (src/server/QuicHttp3Session.cpp
\* and send_pending_data() of QuicConnection.cpp). Packets are handled on the
\* event loop, responses are written by workers; each holds the connection's
\* mutex, and goes on to send_pending_data() before it lets go. nghttp3 and
\* ngtcp2 are external: nghttp3 keeps references to the chunks it was handed
\* until they are acknowledged, and leaves a stream alone that it was told to
\* block or that had nothing to send; ngtcp2 writes as far as the windows of
\* the stream and of the connection go, and calls the stream blocked if either
\* is used up.

CONSTANTS H3Ids,        \* streams
          H3MaxBody,    \* max_body_size
          H3Chunk,      \* size of every chunk of a response
          H3MaxChunks,  \* bound: chunks of one response
          H3Grants      \* bound: how often the client opens a window

ASSUME H3Assumption == H3MaxBody \in Nat /\ H3Chunk \in Nat \ {0} /\ H3MaxChunks \in Nat /\ H3Grants \in Nat

VARIABLES
  h3Stream,    \* streams_, with nghttp3's and ngtcp2's part of each
  h3Window,    \* credit left of the connection
  h3Granted,   \* windows the client has opened
  h3Writer,    \* writers: headers_sent_, and how often they were told to close
  h3Sending,   \* send_pending_data() is running, the mutex is held
  h3State      \* the connection: "open", "closing" or "gone"

h3Vars == <<h3Stream, h3Window, h3Granted, h3Writer, h3Sending, h3State>>

H3NoStream == [st |-> "none", body |-> 0, body_too_large |-> FALSE,
               headers_complete |-> FALSE, dispatched |-> 0, streaming |-> FALSE,
               ended |-> FALSE, chunks |-> 0, freed |-> 0, handed_out |-> 0,
               front_acked |-> 0, written |-> 0, acked |-> 0, file |-> 0,
               window |-> 0, blocked |-> FALSE, waits |-> FALSE, eof |-> FALSE,
               shut |-> FALSE]

H3Init ==
  /\ h3Stream = [s \in H3Ids |-> H3NoStream]
  /\ h3Writer = [s \in H3Ids |-> [exists |-> FALSE, headers_sent |-> FALSE, told |-> 0]]
  /\ h3Window = H3Chunk /\ h3Granted = 0 /\ h3Sending = FALSE /\ h3State = "open"

H3Free == ~h3Sending /\ h3State # "gone"
H3Live(s) == h3Stream[s].st = "open"

\* SentChunks: `chunks` counts those pushed, `freed` those dropped since; of
\* the ones held the first `handed_out` are with nghttp3.
has_unsent(c) == c.freed + c.handed_out < c.chunks
hand_out(c) == [c EXCEPT !.handed_out = c.chunks - c.freed]

\* Mutant: a chunk that is acknowledged in part is freed as well.
SentChunks_ack_Begun(c, bytes) ==
  LET begun == (c.front_acked + bytes + H3Chunk - 1) \div H3Chunk
      drop == IF begun < c.handed_out THEN begun ELSE c.handed_out
  IN  [c EXCEPT !.front_acked = @ + bytes - drop * H3Chunk,
                !.freed = @ + drop, !.handed_out = @ - drop]

\* ack(): acknowledged bytes free whole chunks from the front.
SentChunks_ack(c, bytes) ==
  LET whole == (c.front_acked + bytes) \div H3Chunk
      drop == IF whole < c.handed_out THEN whole ELSE c.handed_out
  IN  [c EXCEPT !.front_acked = @ + bytes - drop * H3Chunk,
                !.freed = @ + drop, !.handed_out = @ - drop]

\* read_data(): a file is read a piece at a time, once what was read is handed
\* out; the end of the body, or nothing to hand out yet.
read_data(c) ==
  LET piece == c.file > 0 /\ ~has_unsent(c)
      d == IF piece THEN [c EXCEPT !.file = @ - 1, !.chunks = @ + 1] ELSE c
      n == d.chunks - d.freed - d.handed_out
      more == d.file > 0 \/ (d.streaming /\ ~d.ended)
  IN  IF ~more THEN [hand_out(d) EXCEPT !.eof = TRUE]
      ELSE IF n = 0 THEN [d EXCEPT !.waits = TRUE] ELSE hand_out(d)

\* The client's side of one stream, in process_packet(): headers, body, end.
H3Touch(s, c) == /\ h3Stream' = [h3Stream EXCEPT ![s] = c]
                 /\ h3Sending' = (h3State = "open")

on_end_headers(s) ==
  /\ H3Free /\ h3State = "open" /\ h3Stream[s].st = "none"
  /\ H3Touch(s, [h3Stream[s] EXCEPT !.st = "open", !.headers_complete = TRUE])
  /\ UNCHANGED <<h3Window, h3Granted, h3Writer, h3State>>

on_recv_data(s) ==
  /\ H3Free /\ h3State = "open" /\ H3Live(s) /\ h3Stream[s].dispatched = 0
  /\ ~h3Stream[s].body_too_large
  /\ LET big == h3Stream[s].body + 1 > H3MaxBody IN
     H3Touch(s, [h3Stream[s] EXCEPT !.body_too_large = big, !.body = IF big THEN 0 ELSE @ + 1])
  /\ UNCHANGED <<h3Window, h3Granted, h3Writer, h3State>>

\* handle_request(), for the end of the stream in the headers or after them: a
\* body that was too large or a wrong target is answered here by
\* submit_status(), without a body; the rest is for a handler.
handle_request(s) ==
  LET c == [h3Stream[s] EXCEPT !.dispatched = @ + 1] IN
  \/ /\ H3Touch(s, [c EXCEPT !.eof = TRUE]) /\ UNCHANGED h3Writer
  \/ /\ ~c.body_too_large
     /\ H3Touch(s, c) /\ h3Writer' = [h3Writer EXCEPT ![s].exists = TRUE]

on_end_stream(s) ==
  /\ H3Free /\ h3State = "open" /\ H3Live(s)
  /\ h3Stream[s].headers_complete /\ h3Stream[s].dispatched = 0
  /\ handle_request(s)
  /\ UNCHANGED <<h3Window, h3Granted, h3State>>

\* Acknowledgements, in pieces of any size, and credit. MAX_STREAM_DATA calls
\* nghttp3_conn_unblock_stream(); MAX_DATA of the connection calls nothing.
on_acked_stream_data(s) ==
  /\ H3Free /\ h3State = "open" /\ H3Live(s)
  /\ \E n \in 1..(h3Stream[s].written - h3Stream[s].acked) :
       H3Touch(s, [SentChunks_ack(h3Stream[s], n) EXCEPT !.acked = @ + n])
  /\ UNCHANGED <<h3Window, h3Granted, h3Writer, h3State>>

on_extend_max_stream_data(s) ==
  /\ H3Free /\ h3State = "open" /\ H3Live(s) /\ h3Granted < H3Grants
  /\ H3Touch(s, [h3Stream[s] EXCEPT !.window = @ + H3Chunk + 1, !.blocked = FALSE])
  /\ h3Granted' = h3Granted + 1
  /\ UNCHANGED <<h3Window, h3Writer, h3State>>

H3MaxData ==
  /\ H3Free /\ h3State = "open" /\ h3Granted < H3Grants
  /\ h3Window' = h3Window + H3Chunk /\ h3Granted' = h3Granted + 1
  /\ h3Sending' = TRUE
  /\ UNCHANGED <<h3Stream, h3Writer, h3State>>

\* send_pending_data(): nghttp3 offers a stream, asking read_data() for more
\* when it has written all it was handed; ngtcp2 takes what the windows allow.
H3Handed(c) == (c.freed + c.handed_out) * H3Chunk
H3Offers(c) == /\ c.st = "open" /\ ~c.blocked /\ ~c.shut
               /\ c.written < H3Handed(c) \/ c.eof
H3Asks(c) == /\ c.st = "open" /\ ~c.waits /\ ~c.eof /\ ~c.blocked
             /\ c.written = H3Handed(c)
             /\ c.streaming \/ c.chunks > 0 \/ c.file > 0

H3Ask(s) ==
  /\ h3Sending /\ H3Asks(h3Stream[s])
  /\ h3Stream' = [h3Stream EXCEPT ![s] = read_data(h3Stream[s])]
  /\ UNCHANGED <<h3Window, h3Granted, h3Writer, h3Sending, h3State>>

H3Write(s) ==
  LET c == h3Stream[s]
      left == H3Handed(c) - c.written
      credit == IF c.window < h3Window THEN c.window ELSE h3Window
      n == IF left < credit THEN left ELSE credit
  IN
  /\ h3Sending /\ H3Offers(c)
  /\ IF left > 0 /\ credit = 0
     THEN /\ h3Stream' = [h3Stream EXCEPT ![s].blocked = TRUE] /\ UNCHANGED h3Window
     ELSE /\ h3Stream' = [h3Stream EXCEPT ![s].written = @ + n, ![s].window = @ - n,
                                          ![s].shut = c.eof /\ n = left]
          /\ h3Window' = h3Window - n
  /\ UNCHANGED <<h3Granted, h3Writer, h3Sending, h3State>>

H3Sent ==
  /\ h3Sending /\ \A s \in H3Ids : ~H3Offers(h3Stream[s]) /\ ~H3Asks(h3Stream[s])
  /\ h3Sending' = FALSE
  /\ UNCHANGED <<h3Stream, h3Window, h3Granted, h3Writer, h3State>>

\* on_stream_close(): both sides have ended the stream, or it was reset; the
\* writer is told on a pool thread, the file is closed with the stream.
H3StreamClose(s) ==
  /\ H3Free /\ h3State = "open" /\ H3Live(s)
  /\ \/ h3Stream[s].shut /\ h3Stream[s].acked = h3Stream[s].written
     \/ ~h3Stream[s].shut
  /\ H3Touch(s, [h3Stream[s] EXCEPT !.st = "closed"])
  /\ h3Writer' = IF h3Writer[s].exists THEN [h3Writer EXCEPT ![s].told = @ + 1] ELSE h3Writer
  /\ UNCHANGED <<h3Window, h3Granted, h3State>>

\* The writers, through with_session(): nothing happens once the connection is
\* gone; on a closing one the stream changes and nothing is sent.
H3Submit(s) ==
  /\ H3Free /\ h3Writer[s].exists /\ ~h3Writer[s].headers_sent
  /\ h3Writer' = [h3Writer EXCEPT ![s].headers_sent = TRUE]
  /\ \/ ~H3Live(s) /\ UNCHANGED <<h3Stream, h3Sending>>
     \/ /\ H3Live(s)
        /\ \/ H3Touch(s, [h3Stream[s] EXCEPT !.eof = TRUE])
           \/ H3Touch(s, [h3Stream[s] EXCEPT !.chunks = 1])
           \/ H3Touch(s, [h3Stream[s] EXCEPT !.file = H3MaxChunks])
           \/ H3Touch(s, [h3Stream[s] EXCEPT !.streaming = TRUE])
  /\ UNCHANGED <<h3Window, h3Granted, h3State>>

H3MayStream(s) == H3Free /\ h3Writer[s].exists /\ H3Live(s)
                  /\ h3Stream[s].streaming /\ ~h3Stream[s].ended

H3SubmitData(s) ==
  /\ H3MayStream(s) /\ h3Stream[s].chunks < H3MaxChunks
  /\ H3Touch(s, [h3Stream[s] EXCEPT !.chunks = @ + 1, !.waits = FALSE])
  /\ UNCHANGED <<h3Window, h3Granted, h3Writer, h3State>>

\* Mutant: a blocked stream is not woken.
H3EndStream_NoResume(s) ==
  /\ H3MayStream(s)
  /\ H3Touch(s, [h3Stream[s] EXCEPT !.ended = TRUE])
  /\ UNCHANGED <<h3Window, h3Granted, h3Writer, h3State>>

H3EndStream(s) ==
  /\ H3MayStream(s)
  /\ H3Touch(s, [h3Stream[s] EXCEPT !.ended = TRUE, !.waits = FALSE])
  /\ UNCHANGED <<h3Window, h3Granted, h3Writer, h3State>>

\* The connection starts closing, for an error of either side, and is gone in
\* the end: ~QuicHttp3Session() tells the writers of the streams that are
\* left.
H3Closing ==
  /\ H3Free /\ h3State = "open" /\ h3State' = "closing"
  /\ UNCHANGED <<h3Stream, h3Window, h3Granted, h3Writer, h3Sending>>

H3Gone ==
  /\ H3Free /\ h3State = "closing" /\ h3State' = "gone"
  /\ h3Writer' = [s \in H3Ids |-> IF H3Live(s) /\ h3Writer[s].exists
                                  THEN [h3Writer[s] EXCEPT !.told = @ + 1] ELSE h3Writer[s]]
  /\ UNCHANGED <<h3Stream, h3Window, h3Granted, h3Sending>>

H3Next ==
  \/ \E s \in H3Ids :
       \/ on_end_headers(s) \/ on_recv_data(s) \/ on_end_stream(s)
       \/ on_acked_stream_data(s) \/ on_extend_max_stream_data(s)
       \/ H3Ask(s) \/ H3Write(s) \/ H3StreamClose(s)
       \/ H3Submit(s) \/ H3SubmitData(s) \/ H3EndStream(s)
  \/ H3MaxData \/ H3Sent \/ H3Closing \/ H3Gone

----
\* The bytes of a response live exactly as long as nghttp3 may refer to them,
\* however acknowledgements fall over chunk boundaries: no chunk is freed
\* before all its bytes are acknowledged, and none is held once they are.
ChunksLiveUntilAcked ==
  \A s \in H3Ids :
    LET c == h3Stream[s] IN
    /\ c.freed = c.acked \div H3Chunk
    /\ c.front_acked = c.acked % H3Chunk
    /\ c.freed + c.handed_out <= c.chunks

\* Outside send_pending_data() no response of an open connection waits without
\* a reason: a stream whose data is not written has used up its own window, or
\* was blocked by the window of the connection (only credit of its own wakes
\* it then); one that waits for its handler has handed out and written all. No
\* request is dispatched twice, and every writer is told once of the end.
H3NothingStranded ==
  /\ \A s \in H3Ids :
       LET c == h3Stream[s] IN
       /\ c.st = "open" /\ h3State = "open" /\ ~h3Sending =>
            (c.written = c.chunks * H3Chunk /\ c.eof = c.shut) \/ c.blocked
       /\ c.blocked => c.written < H3Handed(c)
       /\ c.waits => ~c.ended /\ c.streaming /\ ~has_unsent(c) /\ c.written = H3Handed(c)
       /\ c.shut => c.written = c.chunks * H3Chunk
  /\ \A s \in H3Ids :
       /\ h3Stream[s].dispatched <= 1
       /\ h3Writer[s].told =
            IF h3Writer[s].exists /\ (h3State = "gone" \/ h3Stream[s].st = "closed") THEN 1 ELSE 0
====
