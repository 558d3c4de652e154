---- MODULE Upstreams ----
\* Requests the server itself makes: the HTTP client, the reverse proxy and
\* the pool of its connections.
EXTENDS Naturals, FiniteSets, SequencesExt

----
\* The asynchronous HTTP client: send() hands requests to one client thread,
\* which drives libcurl's multi handle, while the destructor shuts it down.

CONSTANTS ClRequests,    \* requests the application sends
          ClMaxBody      \* max_response_size

VARIABLES clReq,         \* each request's transfer: where it is and the response so far
          clThread,      \* where the client thread is in run()
          clStopping,    \* how far ~Client is
          clCalls,       \* how often each on_done was called
          clWaiting      \* callers blocked in send_sync()

clVars == <<clReq, clThread, clStopping, clCalls, clWaiting>>

ASSUME ClAssumption == ClMaxBody \in Nat

Transfer == [at |-> "none", headers |-> 0, body |-> 0, too_large |-> FALSE, error |-> FALSE]

ClInit ==
  /\ clReq = [q \in ClRequests |-> Transfer]
  /\ clThread = "swap"
  /\ clStopping = "no"
  /\ clCalls = [q \in ClRequests |-> 0]
  /\ clWaiting = {}

ClAt(at) == {q \in ClRequests : clReq[q].at = at}

\* finish() of every transfer of qs: an error empties the response, then the
\* callback runs.
finish(qs, failed) ==
  /\ clReq' = [q \in ClRequests |->
       IF q \notin qs THEN clReq[q]
       ELSE IF failed THEN [Transfer EXCEPT !.at = "done", !.error = TRUE]
       ELSE [clReq[q] EXCEPT !.at = "done"]]
  /\ clCalls' = [q \in ClRequests |-> clCalls[q] + IF q \in qs THEN 1 ELSE 0]

\* The caller's thread: a URL of another scheme is refused at once; otherwise
\* the transfer is queued. The client outlives the call.
send(q) ==
  /\ clReq[q].at = "none" /\ clStopping # "gone"
  /\ \/ finish({q}, TRUE)
     \/ clReq' = [clReq EXCEPT ![q].at = "incoming"] /\ UNCHANGED clCalls
  /\ UNCHANGED <<clThread, clStopping>>

ClSend(q) == send(q) /\ UNCHANGED clWaiting

\* send_sync() from another thread than the client's: send() and wait.
send_sync(q) == send(q) /\ clWaiting' = clWaiting \cup {q}

ClSyncReturns(q) ==
  /\ q \in clWaiting /\ clCalls[q] > 0
  /\ clWaiting' = clWaiting \ {q}
  /\ UNCHANGED <<clReq, clThread, clStopping, clCalls>>

\* run(): take what came in; when stopping, refuse it and leave the loop.
ClSwap ==
  /\ clThread = "swap"
  /\ clReq' = [q \in ClRequests |->
       IF clReq[q].at = "incoming" THEN [clReq[q] EXCEPT !.at = "batch"] ELSE clReq[q]]
  /\ clThread' = "batch"
  /\ UNCHANGED <<clStopping, clCalls, clWaiting>>

ClStopSeen ==
  /\ clThread = "batch" /\ clStopping # "no"
  /\ finish(ClAt("batch"), TRUE)
  /\ clThread' = "abandon"
  /\ UNCHANGED <<clStopping, clWaiting>>

\* start(): a handle libcurl refuses ends the transfer.
start ==
  /\ clThread = "batch" /\ clStopping = "no"
  /\ \E refused \in SUBSET ClAt("batch") :
       /\ clReq' = [q \in ClRequests |->
            IF q \in refused THEN [Transfer EXCEPT !.at = "done", !.error = TRUE]
            ELSE IF clReq[q].at = "batch" THEN [clReq[q] EXCEPT !.at = "active"] ELSE clReq[q]]
       /\ clCalls' = [q \in ClRequests |-> clCalls[q] + IF q \in refused THEN 1 ELSE 0]
  /\ clThread' = "perform"
  /\ UNCHANGED <<clStopping, clWaiting>>

\* What curl_multi_perform() calls back for a transfer: a line of a header (a
\* status line starts a new response), or a piece of the body, refused once
\* the body would exceed the limit.
on_header(q) ==
  /\ clReq[q].at = "active" /\ clReq[q].body = 0
  /\ \E n \in {0, clReq[q].headers + 1} : n <= 2 /\ clReq' = [clReq EXCEPT ![q].headers = n]

on_body(q) ==
  /\ clReq[q].at = "active" /\ ~clReq[q].too_large
  /\ clReq' = [clReq EXCEPT ![q] =
       IF @.body + 1 > ClMaxBody THEN [@ EXCEPT !.too_large = TRUE] ELSE [@ EXCEPT !.body = clReq[q].body + 1]]

ClPerform ==
  /\ clThread = "perform"
  /\ \E q \in ClRequests : on_header(q) \/ on_body(q)
  /\ UNCHANGED <<clThread, clStopping, clCalls, clWaiting>>

\* complete(): libcurl reports the end of a transfer.
complete ==
  /\ clThread = "perform"
  /\ \E q \in ClAt("active"), failed \in BOOLEAN : finish({q}, failed \/ clReq[q].too_large)
  /\ UNCHANGED <<clThread, clStopping, clWaiting>>

\* curl_multi_poll() returns: a wakeup, traffic, or a second has passed.
ClPoll ==
  /\ clThread = "perform"
  /\ clThread' = "swap"
  /\ UNCHANGED <<clReq, clStopping, clCalls, clWaiting>>

ClAbandon ==
  /\ clThread = "abandon"
  /\ IF ClAt("active") = {}
     THEN clThread' = "ended" /\ UNCHANGED <<clReq, clCalls>>
     ELSE (\E q \in ClAt("active") : finish({q}, TRUE)) /\ UNCHANGED clThread
  /\ UNCHANGED <<clStopping, clWaiting>>

\* ~Client: stop, join, and answer the sends that raced with the shutdown.
ClDestroy ==
  /\ clStopping = "no"
  /\ clStopping' = "stopping"
  /\ UNCHANGED <<clReq, clThread, clCalls, clWaiting>>

\* sends that raced with the shutdown are forgotten
ClDestroyed_Forgets ==
  /\ clStopping = "stopping" /\ clThread = "ended"
  /\ clStopping' = "gone"
  /\ UNCHANGED <<clReq, clCalls, clThread, clWaiting>>

ClDestroyed ==
  /\ clStopping = "stopping" /\ clThread = "ended"
  /\ finish(ClAt("incoming"), TRUE)
  /\ clStopping' = "gone"
  /\ UNCHANGED <<clThread, clWaiting>>

ClNext ==
  \/ \E q \in ClRequests : ClSend(q) \/ send_sync(q) \/ ClSyncReturns(q)
  \/ ClSwap
  \/ ClStopSeen
  \/ start
  \/ ClPerform
  \/ complete
  \/ ClPoll
  \/ ClAbandon
  \/ ClDestroy
  \/ ClDestroyed

ClSpec == ClInit /\ [][ClNext]_clVars

\* Whatever the shutdown does meanwhile, the callback of a request that send()
\* took is called once: never twice, and by the end of ~Client in any case, so
\* nobody is left in send_sync(). A failed response is empty, and no response
\* exceeds its limit.
ClientAnswersOnce ==
  /\ \A q \in ClRequests :
       /\ clCalls[q] = IF clReq[q].at = "done" THEN 1 ELSE 0
       /\ clReq[q].body <= ClMaxBody
       /\ clReq[q].error => clReq[q].body = 0 /\ clReq[q].headers = 0
       /\ clReq[q].at = "done" /\ clReq[q].too_large => clReq[q].error
  /\ clStopping = "gone" => ClAt("none") \cup ClAt("done") = ClRequests

----
\* The reverse proxy's requests and the pool of idle upstream connections they
\* share. A request runs on a worker until it waits, and then on the loop that
\* completes the wait; the pool is one object for all loops. Bytes of an
\* upstream are the pieces of a response a read can end with.

CONSTANTS PxRequests,     \* proxied requests
          PxFds,          \* descriptors
          PxResponses,    \* what an upstream answers: sequences of pieces
          PxNobody

VARIABLES pxReq,          \* ProxyRequest, and what its client got
          pxPool,         \* ConnectionPool::pool_ of the upstream
          pxFd,           \* each descriptor: open, the peer's side, bytes under way and to read
          pxWait,         \* the proactor's registration of each descriptor
          pxTls           \* the upstream is spoken to over TLS

pxVars == <<pxReq, pxPool, pxFd, pxWait, pxTls>>

ASSUME PxAssumption == PxNobody \notin PxRequests /\ PxNobody \notin PxFds /\ PxResponses \subseteq Seq(STRING)

\* A response is over where its header says, and not before.
PxEnders == {"last", "empty"}
ASSUME PxFraming == \A response \in PxResponses : \A i \in 1 .. Len(response) - 1 : response[i] \notin PxEnders

\* interim: it was answered by an informational response. reads_on: fail() has
\* ended the response, and the TLS reads go on. deaf: another request's
\* release removed its registration.
NoProxyRequest ==
  [at |-> "none", fd |-> PxNobody, is_reused |-> FALSE, headers_sent |-> FALSE, keep_alive |-> FALSE,
   mode |-> "none", finished |-> FALSE, heads |-> 0, ends |-> 0, relayed |-> {}, interim |-> FALSE, reads_on |-> FALSE, deaf |-> FALSE]

NoSocket == [open |-> FALSE, peer |-> "none", coming |-> <<>>, inbox |-> <<>>]

PxInit ==
  /\ pxReq = [p \in PxRequests |-> NoProxyRequest]
  /\ pxPool = <<>>
  /\ pxFd = [f \in PxFds |-> NoSocket]
  /\ pxWait = [f \in PxFds |-> PxNobody]
  /\ pxTls \in BOOLEAN

PxAt(p, at) == pxReq[p].at = at

\* ---- ConnectionPool ----

\* recv(MSG_PEEK) of an idle connection: the peer closed it, or sent something
\* unasked
PxStale(f) ==
  IF pxFd[f].inbox # <<>> THEN ~pxTls ELSE pxFd[f].peer = "closed"

\* the last one released is tried first; one that cannot be used is closed, and
\* the next tried
acquire(p) ==
  /\ PxAt(p, "start") /\ pxPool # <<>>
  /\ LET f == Last(pxPool) IN
       IF PxStale(f)
       THEN /\ pxFd' = [pxFd EXCEPT ![f] = NoSocket]
            /\ UNCHANGED pxReq
       ELSE /\ pxReq' = [pxReq EXCEPT ![p].fd = f, ![p].is_reused = TRUE, ![p].at = "send"]
            /\ UNCHANGED pxFd
  /\ pxPool' = Front(pxPool)
  /\ UNCHANGED <<pxWait, pxTls>>

\* cleanup_stale_connections(), and the pool's destructor: idle connections are
\* closed, the ones released first before the others (a connection enters at the
\* end, with the time taken under the lock, and is taken from the end)
cleanup_stale_connections ==
  /\ \E n \in 1..Len(pxPool) :
       /\ pxPool' = SubSeq(pxPool, n + 1, Len(pxPool))
       /\ pxFd' = [f \in PxFds |-> IF f \in {pxPool[i] : i \in 1..n} THEN NoSocket ELSE pxFd[f]]
  /\ UNCHANGED <<pxReq, pxWait, pxTls>>

\* ---- ProxyRequest ----

PxBegin(p) ==
  /\ PxAt(p, "none")
  /\ pxReq' = [pxReq EXCEPT ![p].at = "start"]
  /\ UNCHANGED <<pxPool, pxFd, pxWait, pxTls>>

\* fail() answers without a look at headers_sent_
failed_Again(r) == [r EXCEPT !.headers_sent = TRUE, !.heads = @ + 1, !.ends = @ + 1, !.at = "drop"]

\* fail(): a 502, or the end of what was begun
failed(r) ==
  [(IF r.headers_sent THEN [r EXCEPT !.ends = @ + 1]
    ELSE [r EXCEPT !.headers_sent = TRUE, !.heads = @ + 1, !.ends = @ + 1]) EXCEPT !.at = "drop"]

\* fail() does not set finished_: process_tls_read() goes on, and takes what
\* comes for a body that lasts until the end of the input
failed_open(r) ==
  [failed(r) EXCEPT !.at = "read", !.reads_on = TRUE, !.mode = IF r.headers_sent THEN r.mode ELSE "close"]

\* no pooled connection: resolve and open a socket on the thread pool, and
\* connect
PxResolve(p) ==
  /\ PxAt(p, "start") /\ pxPool = <<>>
  /\ \/ pxReq' = [pxReq EXCEPT ![p] = failed(@)] /\ UNCHANGED <<pxFd, pxWait>>
     \/ \E f \in PxFds :
          /\ ~pxFd[f].open
          /\ pxFd' = [pxFd EXCEPT ![f] = [NoSocket EXCEPT !.open = TRUE, !.peer = "open"]]
          /\ pxWait' = [pxWait EXCEPT ![f] = p]
          /\ pxReq' = [pxReq EXCEPT ![p].fd = f, ![p].at = "connect"]
  /\ UNCHANGED <<pxPool, pxTls>>

Ready(p) == pxReq[p].fd # PxNobody /\ pxWait[pxReq[p].fd] = p

Unwait(p) == pxWait' = [pxWait EXCEPT ![pxReq[p].fd] = PxNobody]

\* connected or refused; over TLS the handshake follows, which may fail too
PxConnected(p) ==
  /\ PxAt(p, "connect") /\ Ready(p) /\ Unwait(p)
  /\ pxReq' \in {[pxReq EXCEPT ![p] = failed(@)],
                 [pxReq EXCEPT ![p].at = IF pxTls THEN "handshake" ELSE "send"]}
  /\ UNCHANGED <<pxPool, pxFd, pxTls>>

\* do_handshake(): records go back and forth until it is through or fails
do_handshake(p) ==
  /\ PxAt(p, "handshake")
  /\ pxReq' \in {[pxReq EXCEPT ![p] = failed(@)], [pxReq EXCEPT ![p].at = "send"]}
  /\ UNCHANGED <<pxPool, pxFd, pxWait, pxTls>>

send_request(p) ==
  /\ PxAt(p, "send")
  /\ pxWait' = [pxWait EXCEPT ![pxReq[p].fd] = p]
  /\ pxReq' = [pxReq EXCEPT ![p].at = "write"]
  /\ UNCHANGED <<pxPool, pxFd, pxTls>>

\* the write is through: read; or it failed, and a pooled connection is given up
\* for another
PxWritten(p) ==
  LET f == pxReq[p].fd IN
  /\ PxAt(p, "write") /\ Ready(p)
  /\ \/ /\ pxReq' = [pxReq EXCEPT ![p].at = "read"]        \* the reader is registered in the same place
        /\ \/ UNCHANGED pxFd
           \/ /\ pxFd[f].peer = "open"
              /\ \E response \in PxResponses :
                   pxFd' = [pxFd EXCEPT ![f].coming = @ \o [i \in 1 .. Len(response) |-> [of |-> p, is |-> response[i]]]]
        /\ UNCHANGED pxWait
     \/ /\ pxFd[f].peer = "closed" /\ pxReq[p].is_reused /\ ~pxTls
        /\ pxReq' = [pxReq EXCEPT ![p].fd = PxNobody, ![p].is_reused = FALSE, ![p].at = "start"]
        /\ pxFd' = [pxFd EXCEPT ![f] = NoSocket]
        /\ Unwait(p)
     \/ /\ pxFd[f].peer = "closed" /\ (~pxReq[p].is_reused \/ pxTls)
        /\ pxReq' = [pxReq EXCEPT ![p] = failed(@)]
        /\ Unwait(p) /\ UNCHANGED pxFd
  /\ UNCHANGED <<pxPool, pxTls>>

relay(r, piece) == [r EXCEPT !.relayed = @ \cup {piece.of}, !.interim = @ \/ piece.is = "informational"]

\* complete(): the response ends; the connection goes back to the pool or with
\* the request
completed(r) == [r EXCEPT !.finished = TRUE, !.ends = @ + 1, !.at = IF r.keep_alive THEN "release" ELSE "drop"]

sent_headers(r, piece, mode, keep) ==
  relay([r EXCEPT !.headers_sent = TRUE, !.heads = @ + 1, !.mode = mode, !.keep_alive = keep], piece)

\* keep is the upstream's word that the connection may be used again
parse_and_send_headers(r, piece, keep) ==
  CASE piece.is = "partial" -> r
    [] piece.is \in {"bad", "body", "last", "garbled"} -> IF pxTls THEN failed_open(r) ELSE failed(r)
    [] piece.is = "switch" -> sent_headers(r, piece, "websocket", FALSE)
    [] piece.is \in {"empty", "informational"} -> completed(sent_headers(r, piece, "none", keep))
    [] piece.is \in {"length", "chunked"} -> sent_headers(r, piece, piece.is, keep)
    [] OTHER -> sent_headers(r, piece, "close", FALSE)

consume_body(r, piece) ==
  CASE r.mode = "chunked" /\ piece.is \in {"garbled", "partial"} ->
         [failed([r EXCEPT !.keep_alive = FALSE]) EXCEPT !.finished = TRUE]
    [] r.mode \in {"length", "chunked"} /\ piece.is = "last" -> completed(relay(r, piece))
    [] OTHER -> relay(r, piece)

process_cleartext(r, piece, keep) ==
  IF r.mode = "websocket" THEN relay(r, piece)
  ELSE IF ~r.headers_sent THEN parse_and_send_headers(r, piece, keep)
  ELSE consume_body(r, piece)

\* the end of the input: of a response that lasts until then, or of one that
\* never came
PxEof(r) ==
  IF r.mode = "websocket" THEN [r EXCEPT !.at = "tunnel"]
  ELSE IF ~r.headers_sent THEN failed(r)
  ELSE [r EXCEPT !.finished = TRUE, !.ends = @ + 1, !.at = "drop"]

read_loop(p) ==
  LET r == pxReq[p]  f == r.fd IN
  /\ PxAt(p, "read") /\ Ready(p)
  /\ \/ /\ pxFd[f].inbox # <<>>
        /\ \E keep \in BOOLEAN :
             LET piece == Head(pxFd[f].inbox)
                 next == process_cleartext(r, piece, keep) IN
             \* what follows an informational response is left to whoever reads next
             /\ pxReq' = [pxReq EXCEPT ![p] = next]
             /\ pxFd' = [pxFd EXCEPT ![f].inbox = Tail(@)]
             /\ IF next.at = "read" THEN UNCHANGED pxWait ELSE Unwait(p)
     \/ /\ pxFd[f].inbox = <<>> /\ pxFd[f].peer = "closed"
        /\ pxReq' = [pxReq EXCEPT ![p] = PxEof(@)]
        /\ Unwait(p) /\ UNCHANGED pxFd
  /\ UNCHANGED <<pxPool, pxTls>>

\* a record TLS itself has to write fails: fail(), while the reads go on (once
\* for a request)
flush_tls_writes(p) ==
  /\ pxTls /\ PxAt(p, "read") /\ ~pxReq[p].reads_on
  /\ pxReq' = [pxReq EXCEPT ![p] = failed_open(@)]
  /\ UNCHANGED <<pxPool, pxFd, pxWait, pxTls>>

\* the client of a tunnel is gone: close the upstream's side
start_websocket_passthrough(p) ==
  /\ pxReq[p].mode = "websocket" /\ pxReq[p].at \in {"read", "tunnel"}
  /\ pxFd' = [pxFd EXCEPT ![pxReq[p].fd] = NoSocket]
  /\ Unwait(p)
  /\ pxReq' = [pxReq EXCEPT ![p].fd = PxNobody, ![p].at = "drop"]
  /\ UNCHANGED <<pxPool, pxTls>>

\* The connection is in the pool from here on, and the proactor forgets it
\* only in the step after: a request that took it meanwhile loses its wait.
release(p) ==
  /\ PxAt(p, "release")
  /\ pxPool' = Append(pxPool, pxReq[p].fd)
  /\ pxReq' = [pxReq EXCEPT ![p].at = "forget"]
  /\ UNCHANGED <<pxFd, pxWait, pxTls>>

\* complete() releases the connection and keeps its descriptor
PxForget_KeepsFd(p) ==
  /\ PxAt(p, "forget")
  /\ pxReq' = [pxReq EXCEPT ![p].at = "drop"]
  /\ Unwait(p)
  /\ UNCHANGED <<pxPool, pxFd, pxTls>>

PxForget(p) ==
  /\ PxAt(p, "forget")
  /\ pxReq' = [q \in PxRequests |->
       IF q = p THEN [pxReq[p] EXCEPT !.fd = PxNobody, !.at = "drop"]
       ELSE [pxReq[q] EXCEPT !.deaf = @ \/ pxWait[pxReq[p].fd] = q]]
  /\ Unwait(p)
  /\ UNCHANGED <<pxPool, pxFd, pxTls>>

\* ~ProxyRequest, when nothing refers to the request any more
PxDrop(p) ==
  /\ PxAt(p, "drop")
  /\ pxReq' = [pxReq EXCEPT ![p].at = "gone", ![p].fd = PxNobody]
  /\ IF pxReq[p].fd = PxNobody THEN UNCHANGED <<pxFd, pxWait>>
     ELSE Unwait(p) /\ pxFd' = [pxFd EXCEPT ![pxReq[p].fd] = NoSocket]
  /\ UNCHANGED <<pxPool, pxTls>>

\* the upstream closes a connection, idle or not
PxPeerCloses ==
  /\ \E f \in PxFds : pxFd[f].peer = "open" /\ pxFd' = [pxFd EXCEPT ![f].peer = "closed", ![f].coming = <<>>]
  /\ UNCHANGED <<pxReq, pxPool, pxWait, pxTls>>

PxArrives ==
  /\ \E f \in PxFds :
       /\ pxFd[f].coming # <<>>
       /\ pxFd' = [pxFd EXCEPT ![f].inbox = Append(@, Head(pxFd[f].coming)), ![f].coming = Tail(@)]
  /\ UNCHANGED <<pxReq, pxPool, pxWait, pxTls>>

PxNext ==
  \/ \E p \in PxRequests :
       \/ PxBegin(p)
       \/ acquire(p)
       \/ PxResolve(p)
       \/ PxConnected(p)
       \/ do_handshake(p)
       \/ send_request(p)
       \/ PxWritten(p)
       \/ read_loop(p)
       \/ flush_tls_writes(p)
       \/ start_websocket_passthrough(p)
       \/ release(p)
       \/ PxForget(p)
       \/ PxDrop(p)
  \/ cleanup_stale_connections
  \/ PxPeerCloses
  \/ PxArrives

PxSpec == PxInit /\ [][PxNext]_pxVars

\* A connection has one user: the pool holds each idle one once, nobody uses a
\* closed one, and no two requests use the same one (the request that has just
\* released it only lets the proactor forget it).
UpstreamExclusive ==
  /\ Cardinality(ToSet(pxPool)) = Len(pxPool)
  /\ \A f \in ToSet(pxPool) : pxFd[f].open
  /\ \A p \in PxRequests :
       (pxReq[p].fd # PxNobody /\ pxReq[p].at # "forget") =>
         /\ pxFd[pxReq[p].fd].open
         /\ pxReq[p].fd \notin ToSet(pxPool)
         /\ \A q \in PxRequests \ {p} : pxReq[q].fd = pxReq[p].fd => pxReq[q].at = "forget"

\* The client of a proxied request gets one response: a repeat on another
\* connection happens before anything of an answer was relayed, and a request
\* that waits is waited for, unless another's release removed the wait. It is
\* ended once; only over TLS it is ended again, after fail() has answered
\* while the reads go on (Proxy.cpp:457, 468-481). As long as no upstream has
\* sent an informational response, which the proxy takes for the last one, it
\* is made of nothing but the answer to this request, however connections are
\* reused.
ProxyAnswersOwn ==
  /\ \A p \in PxRequests :
       /\ pxReq[p].heads <= 1 /\ (pxReq[p].ends <= 1 \/ pxReq[p].reads_on)
       /\ pxReq[p].reads_on => pxTls
       /\ pxReq[p].at \in {"connect", "write", "read"} => Ready(p) \/ pxReq[p].deaf
       /\ pxReq[p].at \in {"start", "send", "write"} => pxReq[p].heads = 0
       /\ pxReq[p].at = "gone" => pxReq[p].heads = 1 /\ (pxReq[p].ends >= 1 \/ pxReq[p].mode = "websocket")
  /\ (\A q \in PxRequests : ~pxReq[q].interim) => \A p \in PxRequests : pxReq[p].relayed \subseteq {p}

\* What a server asks other servers: each question is answered once, by its own
\* answer, on a connection nobody else uses (Client::finish, Proxy).
UpstreamsSound == ClientAnswersOnce /\ UpstreamExclusive /\ ProxyAnswersOwn
====
