---- MODULE MCProtocols ----
\* What the connections stand on, and the protocols they carry, one component
\* per behaviour: Init chooses which.
EXTENDS ConnectionTimers, Proactors, Endpoints, WebSocket, Http2Session, Quic, ResponseLife, Multipart, Http1Parser, Upgrades
LOCAL INSTANCE TLC

CONSTANT Parts       \* the components this instance covers

VARIABLE part        \* the component the behaviour is about

others(p) ==
  /\ p # "timers" => UNCHANGED ctVars
  /\ p # "readiness" => UNCHANGED paVars
  /\ p # "uring" => UNCHANGED iuVars
  /\ p # "iocp" => UNCHANGED icVars
  /\ p # "tls" => UNCHANGED tlVars
  /\ p # "sockets" => UNCHANGED skVars
  /\ p # "websocket" => UNCHANGED wsVars
  /\ p # "http2" => UNCHANGED h2Vars
  /\ p # "http3" => UNCHANGED h3Vars
  /\ p # "quic" => UNCHANGED qcVars
  /\ p # "responses" => UNCHANGED rlVars
  /\ p # "uploads" => UNCHANGED mpVars
  /\ p # "http1" => UNCHANGED hpVars
  /\ p # "upgrades" => UNCHANGED upVars

MCInit ==
  /\ part \in Parts
  /\ part # "readiness" => paKind = "epoll"
  /\ part # "uploads" => mpBody = CHOOSE b \in MpBodies : TRUE
  /\ part # "http1" => hpSent = CHOOSE x \in HpStreams : TRUE
  /\ part # "upgrades" => upClient = CHOOSE c \in UpClients : TRUE
  /\ WsInit
  /\ CtInit
  /\ PaInit
  /\ IuInit
  /\ IcInit
  /\ TlInit
  /\ SkInit
  /\ H2Init
  /\ H3Init
  /\ QcInit
  /\ RlInit
  /\ MpInit
  /\ HpInit
  /\ UpInit

MCNext ==
  /\ UNCHANGED part /\ others(part)
  /\ \/ part = "timers" /\ CtNext
     \/ part = "readiness" /\ PaNext
     \/ part = "uring" /\ IuNext
     \/ part = "iocp" /\ IcNext
     \/ part = "tls" /\ TlNext
     \/ part = "sockets" /\ SkNext
     \/ part = "websocket" /\ WsNext
     \/ part = "http2" /\ H2Next
     \/ part = "http3" /\ H3Next
     \/ part = "quic" /\ QcNext
     \/ part = "responses" /\ RlNext
     \/ part = "uploads" /\ MpNext
     \/ part = "http1" /\ HpNext
     \/ part = "upgrades" /\ UpNext

Frame(op, fin, payload) ==
  [opcode |-> op, fin |-> fin, masked |-> TRUE, rsv1 |-> FALSE, code |-> 0,
   payload |-> payload, length |-> Len(payload), complete |-> TRUE]

MCFrames == {
  Frame("text", TRUE, <<"a">>),
  Frame("text", FALSE, <<"l">>),
  [Frame("binary", FALSE, <<"a">>) EXCEPT !.rsv1 = TRUE],
  Frame("continuation", FALSE, <<"c">>),
  Frame("continuation", TRUE, <<"c", "a">>),
  Frame("ping", TRUE, <<>>),
  Frame("pong", TRUE, <<>>),
  Frame("ping", FALSE, <<>>),
  [Frame("text", TRUE, <<>>) EXCEPT !.masked = FALSE],
  [Frame("close", TRUE, <<>>) EXCEPT !.length = 2, !.code = 1000],
  [Frame("close", TRUE, <<>>) EXCEPT !.length = 2, !.code = 1005],
  [Frame("close", TRUE, <<"c">>) EXCEPT !.length = 3, !.code = 3000],
  [Frame("close", TRUE, <<>>) EXCEPT !.length = 1] }

\* Http1Parser: single requests of every kind, and pairs of two that fit.
MCRequest(line, fields, body, kind) == [line |-> line, fields |-> fields, body |-> body, kind |-> kind]
MCGood == {MCRequest(1, 1, 0, "plain"), MCRequest(2, 2, 2, "plain"), MCRequest(1, 0, 2, "chunked"), MCRequest(1, 1, 0, "upgrade")}
MCStreams == {<<MCRequest(l, f, b, k)>> : l \in 1 .. 3, f \in 0 .. 4, b \in {0, 2, 3}, k \in {"plain", "chunked"}}
               \cup {<<g, h>> : g \in MCGood, h \in MCGood \cup {MCRequest(1, 0, 0, "garbage"), MCRequest(1, 0, 0,
                     "noMethod"), MCRequest(2, 0, 0, "badEscape"), MCRequest(3, 0, 0, "plain")}}
               \cup {<<g, h, MCRequest(1, 0, 1, "plain")>> : g \in MCGood, h \in MCGood}

\* Multipart: a field and a file, cut into any chunks.
MpPart(header, data) == dash_boundary \o CRLF \o <<header>> \o CRLF \o CRLF \o data \o CRLF
MCClose == dash_boundary \o <<"-", "-">>
MCHeaders == [field |-> [name |-> "f", filename |-> ""], file |-> [name |-> "g", filename |-> "x"], stray |-> [name |-> "", filename |-> "x"]]
               @@ [c \in {"-", "b", "\r", "\n", "x"} |-> NoPart]
MCBodies == {MpPart("field", <<"x">>) \o MpPart("file", <<"x", "\r">>) \o MCClose, MpPart("file", << >>)
      \o MpPart("stray", <<"x", "x", "x">>) \o MCClose,
             MpPart("stray", <<"x", "x">>) \o dash_boundary \o <<"x">>, <<"x", "-">> \o MpPart("file", <<"-", "b">>)
                   \o MpPart("field", <<"x", "x", "x">>) \o MCClose}

\* Upgrades: every way a connection leaves HTTP, or does not.
MCClient(tls, h2c, units) == [tls |-> tls, h2c |-> h2c, units |-> units]
MCClients == {
  MCClient("no", TRUE, <<"pre1", "pre2", "data">>),
  MCClient("no", FALSE, <<"pre1", "pre2", "data">>),
  MCClient("no", TRUE, <<"pre1", "post2", "ws", "data", "data">>),
  MCClient("no", TRUE, <<"get", "tunnel", "data", "data">>),
  MCClient("no", TRUE, <<"stream", "ws", "data">>),
  MCClient("no", FALSE, <<"stream", "get", "pre1", "post2">>),
  MCClient("no", FALSE, <<"badws", "get">>),
  MCClient("h1", TRUE, <<"hello", "fin", "get", "stopws", "get">>),
  MCClient("h1", TRUE, <<"hello", "fin", "ws", "data">>),
  MCClient("h2", TRUE, <<"hello", "fin", "pre1", "pre2", "data">>) }

MCVars == <<part, ctVars, paVars, iuVars, icVars, tlVars, skVars, wsVars, h2Vars, h3Vars, qcVars, rlVars, mpVars, hpVars, upVars>>

MCSpec == MCInit /\ [][MCNext]_MCVars

\* Each property is about the behaviours of its components; the others stay as
\* they were initialised.

\* A timeout removes the connection that armed it and no other, stays armed until
\* then, and comes in time; and a connection that waits for its client has armed
\* one (Connection::arm_timer, arm_timer_for_current_phase, TimerManager).
TimersSound ==
  /\ part = "timers" => CtTypeOK /\ TimeoutHitsOwner /\ StaysArmed /\ FiresInTime
  /\ part = "upgrades" => PhaseTimed

\* Every operation handed to a proactor is watched for, woken up for, and ends
\* once; descriptors have one owner; certificates that changed are noticed
\* (EpollProactor, KqueueProactor, IoUringProactor, IocpProactor, Socket,
\* TlsContext::reload).
SystemSound ==
  /\ part = "readiness" => WaitsAreArmed
  /\ part = "uring" => QueueWakesLoop
  /\ part = "iocp" => ContextsFreedOnce
  /\ part = "sockets" => SkTypeOK /\ DescriptorsOwned
  /\ part = "tls" => TlTypeOK /\ StaleCertsNoticed

\* A WebSocket gives its handlers whole messages and closes once, however
\* frames, threads and failures interleave
\* (WebSocketConnection::process_raw_data, close).
SocketsSound == part = "websocket" => MessagesIntact /\ ClosesOnce

\* HTTP/2 streams: nothing written is left lying, and every end is told once and
\* closes the stream's file (Http2Session::data_provider_read, on_stream_close).
Http2Sound == part = "http2" => H2NothingStranded /\ H2EndsClean

\* QUIC and HTTP/3: packets find their connection, the bytes of a response live
\* as long as they may be resent, and none is left lying (QuicConnectionManager,
\* SentChunks::ack).
Http3Sound ==
  /\ part = "quic" => QuicTableSound
  /\ part = "http3" => ChunksLiveUntilAcked /\ H3NothingStranded

\* Responses of coroutines that fail late, and callbacks registered late, each
\* reach the request they belong to, once
\* (ResponseWriter::report_async_exception, ResponseWriter::on_close).
ResponsesSound == part = "responses" => LateFailuresHarmless /\ CloseCallbacksOnce

\* Pipelined requests are read whole and in order wherever the stream is cut, and a
\* request that a coroutine holds stays as it is; no temporary file of an upload is
\* left behind that nobody was told of; and what follows an upgrade reaches the new
\* protocol (Http1Parser::feed, next; MultipartStreamParser::discard_current_part,
\* close_current_part; Connection::on_read_complete).
ReadWhole ==
  /\ part = "http1" => HpTypeOK /\ RequestsWhole
  /\ part = "uploads" => MpTypeOK /\ FilesAccounted
  /\ part = "upgrades" => UpTypeOK /\ BytesFindProtocol

\* What the parts of an upload are does not depend on where it is cut
\* (MultipartStreamParser::feed).
UploadsWhole == part = "uploads" => PartsIntact
====
