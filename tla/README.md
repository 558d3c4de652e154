# Orbit: TLA+ models, model checking and proofs

Orbit is a C++20 web framework: an event-loop server for HTTP/1.1, HTTP/2, HTTP/3
and WebSocket, a worker pool that runs handlers, middleware, clients for databases
and other servers, and a small ORM. This directory models it: first the parts whose
correctness depends on what several threads, callbacks and peers do in which order,
then the algorithms that everything else relies on (parsers, routing, content
negotiation, statements, JSON). `PROJECT.json` lists components, runs, mutants, the
map from definitions to source lines, hazards, findings and theorems; this file
explains them.

Paths below are relative to the repository (`src/server/...`, `include/orbit/...`).

## 1. The system

**Threads.** `App::listen()` creates one event loop per configured thread; the first
runs on the calling thread. Handlers, timer callbacks and close notifications run on
one `ThreadPool`. Any thread may call `App::stop()` and `App::shutdown()`, and answer
a request it was given earlier. The HTTP client, QUIC and the databases add threads
and callbacks of their own.

| Part | State | Operations | Talks to |
|---|---|---|---|
| App (`server/App.cpp`) | started, draining and stop flags, hooks, signal counters | `listen`, `stop`, `shutdown`, hooks, tick hook, signals | event loops, pool, scheduler |
| Event loop, connection table (`server/EventLoop.cpp`, `ConnectionManager.cpp`) | listener armed/paused, shared connection count, table by descriptor, shutdown deadline | accept, pause/resume, drain, end; add and remove connections | proactor, connections |
| Connection, write side (`server/Connection.cpp`) | queued, active and TLS buffers, file body, `is_writing_`, close and resume requests | `send`, `send_data`, `trigger_write`, completions, removal | proactor, table, workers |
| Connection, read side (`server/Connection.cpp`) | read buffer, parser state, `is_processing_request_`, protocol (`state_`) | read completions, TLS, dispatch, next request, upgrades | workers, timers |
| Connection timeouts (`server/TimerManager.cpp`) | live timers, deadline queue with lazily deleted entries | add, cancel, next timeout, fire | event loop, connections |
| Proactors (`network/*Proactor.cpp`) | operations per descriptor, the kernel's interest in it | start, complete, remove, wake up | kernel, everyone |
| Sockets, listeners, TLS (`network/`) | descriptors; certificates and their time stamps | bind, listen, accept, close; load, reload, choose | event loop |
| Worker pool (`concurrency/ThreadPool.cpp`) | task queue, stop flag | `enqueue`, worker loop, destructor | everyone |
| Timer scheduler (`server/Scheduler.cpp`) | due timers, timers kept for the next start, marks per timer | `run_every`, `run_after`, `cancel`, start, stop | worker pool |
| HTTP/1 parser, multipart (`http/Http1Parser.cpp`, `MultipartStreamParser.cpp`) | message under way, limits, temporary files | feed, next, callbacks | connection, handlers |
| Response writer, coroutines (`http/ResponseWriter.cpp`, `concurrency/`) | responded flag, generation, close callbacks | respond, reset, report an exception, close | connections, handlers |
| WebSocket, event router (`http/WebSocketConnection.cpp`, `websocket/EventRouter.hpp`) | closed flag, fragments; sockets and rooms | send, ping, close, process frames; join, broadcast | connection |
| HTTP/2 (`http/Http2Session.cpp`) | streams, writers, nghttp2 session | dispatch, respond, stream close, GOAWAY | connection, workers |
| QUIC, HTTP/3 (`server/Quic*.cpp`) | connections by id, streams, chunks until acknowledged | packets, expiry, closing; respond, acknowledge | event loop, workers |
| Router (`routing/Router.cpp`) | static and dynamic routes, middleware, error handlers | register, find, run | connections |
| Requests and responses (`http/HttpResponse.cpp`, `HttpRequest.hpp`) | the file a response owns, the request's context | build, move, send | handlers |
| Sessions, rate limits (`middleware/`) | stores of sessions, of token buckets and of counters | load, touch, save, destroy, evict; take a token, sweep | handlers |
| Authentication (`middleware/JwtAuth.cpp`, `OAuth2.cpp`, `Csrf.cpp`) | key cache; cookies of a login | verify, fetch keys; log in, return; check | clients, issuers |
| Content (`middleware/StaticFiles.cpp`, `Compress.cpp`, `Cors.cpp` ...) | the directory served | resolve, validate, negotiate, add headers | responses |
| Proxy, upstream pool, HTTP client | idle upstream connections; transfers | acquire, release, retry, tunnel; hand over, finish | proactor, libcurl |
| Database pool and clients (`database/`) | idle queue, wait queue, reconnect counter; sessions, prepared statements | `init`, `acquire`, `release`; query, begin, commit, reconnect | databases |
| ORM, migrations (`orm/`) | statements and their parameters; table of applied versions, advisory lock | build, run | database |
| Configuration (`config/`), observability (`middleware/`, `utils/`) | settings; ids, spans, counters | merge, refuse; record | everyone |
| JSON (`http/json.hpp`) | values | parse, serialise, compare, point, patch, diff | everyone |

**What is hard.** Write ownership passes between threads by one atomic flag, so the
last look at the buffers and the clearing of the flag race with a new response.
Connections and timers are identified by descriptor numbers, which are reused.
Timers, listeners and reads are one-shot and have to be armed again on every path,
also while a worker changes the protocol of the connection. A coroutine may fail, and
a handler may write, long after its request is over. Shutdown is requested by other
threads and by signals while all of this runs, has a deadline, and must neither cut
off a request nor wait for ever. Pools promise capacity in the face of peers that die
while nobody looks; caches of keys, files and sessions are used after they have
changed. Streams are cut anywhere. The hazards in `PROJECT.json` name the lines.

**What makes the parts correct.** App: stop reaches every loop, hooks run once,
`listen()` returns. Loops: the connection limit is exact and kept, no listener goes
deaf, draining ends and cuts off nothing early. Output: one writer, everything queued
is sent, in order, before a close. Requests: one at a time, answered in order, none
forgotten; every byte reaches the protocol it was sent for. Timeouts hit the
connection that armed them, in time, and one is armed whenever a client is waited
for. Worker pool: each task once, none forgotten. Protocols: whole messages in
order, ends told once, nothing written left lying. Middleware: no client gets what
is another's. Databases: a client in one hand, replies matched to their commands,
commits reported truly, migrations once. Algorithms: what they compute equals a
reference that says what it is for.

## 2. Modules

| Module | Models | Run |
|---|---|---|
| `DbConnectionPool` | database connection pool | `db_pool` |
| `DatabaseProofs` | proofs about `DbConnectionPool` and `DatabaseClients` | |
| `ConnectionOutput` (`ConnectionOutputProofs`) | write side of a connection | `output`, `output_tls_close` |
| `ConnectionRequests` | read side of a connection, HTTP/1.1 requests | `lifecycle`, `requests_body` |
| `App` | life of the App, signals, hooks | `lifecycle`, `app_second_signal` |
| `EventRouter` | rooms and sockets of the event router | `lifecycle` |
| `LifecycleProofs` | proofs about the three modules above | |
| `EventLoop` (`EventLoopProofs`) | event loops, limit, table, drain | `loops`, `threads` |
| `TaskRunner` | abstract: what a task runner promises | |
| `ThreadPool` | the worker pool, implements `TaskRunner` | `threads` |
| `Scheduler` | `run_every` / `run_after` timers | `threads` |
| `ThreadsProofs` | proofs about `ThreadPool` and `Scheduler` | |
| `ConnectionTimers` | `TimerManager`, `arm_timer`, removal by descriptor | `protocols` |
| `Upgrades` | TLS, h2c, upgrades to WebSocket and raw streams, the timeout of each phase | `protocols`, `websocket_drain` |
| `Proactors` | epoll and kqueue, io_uring, completion ports | `protocols` |
| `Endpoints` | owners of descriptors; certificates and their reload | `protocols` |
| `WebSocket` | frames, fragments, closing | `protocols` |
| `Http2Session` | streams of an HTTP/2 session | `protocols` |
| `Quic` | HTTP/3 streams; QUIC connections by id | `protocols` |
| `ResponseLife` | writers, coroutines that fail late, close callbacks | `protocols` |
| `Multipart` | streaming and whole-body multipart parsers | `protocols`, `uploads` |
| `Http1Parser` | the request parser around llhttp | `protocols` |
| `ConnectionProofs`, `ProtocolsProofs` | proofs about the modules from `ConnectionTimers` to `Http1Parser`; those of `WebSocket`, `Multipart` and `Http1Parser` are in the second | |
| `Upstreams` | HTTP client; proxy with its pool | `services` |
| `Router` | registration, search, middleware and error scopes | `services` |
| `ClientState` | rate limiters; sessions | `services` |
| `Authentication` | JWT with its key cache; OAuth2 and CSRF | `services` |
| `ServicesProofs` | proofs about `Upstreams`, `ClientState`, `Authentication`, `Router` and `Messages` | |
| `Messages` | files of responses, heads, request context; ids, spans, metrics, access lines | `services` |
| `DatabaseClients` | Redis, PostgreSQL, awaited queries; several migration runners over one database | `services` |
| `TextFormats`, `Contents`, `Orm`, `Config`, `Json` (with `Sample`) | algorithms, against references | `services` |

A component's definitions carry its prefix (`Ws`, `H2`, `Px`, ...) or the name they
have in the source. An MC module joins the components of a run: every behaviour is
about one of them (`part`), the variables of the others do not move. So a run is the
union of its parts' state spaces, and a property of one part holds trivially in the
others. `MCServices` holds the inputs of the algorithms, too. A definition named `X_Reason` is a
mutant of `X`: a plausible mistake in the code, used to see that a property of the
runs would notice it. It takes part in no specification.

**Granularity.** A step is one critical section or one access to an atomic that other
threads use; what a thread does in between is part of the step. Data is reduced to
what the properties distinguish: a response is a number of pieces, a client is
healthy or not, a deadline has come or not, a signature is the key that made it.

### Server core

`DbConnectionPool`: `idle` and `waitq` are `connections_` and `wait_queue_`; `where`
says where each client is between being created and given up; `reconnecting` is the
unsigned counter. `acquire()` is one critical section that may drop dead clients,
followed by one `replace()` for each of them; `release()` checks the health outside
the lock, as the code does. Clients break at any moment, connection attempts succeed
or fail, and the pool may be destroyed while a backoff timer is pending.

`ConnectionOutput`: threads are workers and the loop, which runs all completions.
`send()` is several steps (the file is published, the bytes are queued,
`trigger_write()`), and `trigger_write()` is split at every access of `is_writing_`,
`write_mutex_`, `tls_mutex_` and `io_mutex_`. In plaintext whoever looks at the file
holds `write_mutex_`, so publishing it is one step; over TLS the writer looks and closes
with no lock, so `StoreFile` and `StoreExtent` are apart, a look in between may find any
tail of the extent, and what was read or closed then is `torn`. `queued`, `closeMark` and `wire` are
history: what was promised, how much of it precedes the close, and what the peer got.
A write takes any non-empty part of what it was given, would block, or fails.

`ConnectionRequests`: the client sends requests in two pieces each, so the read buffer
is the interval between the pieces parsed and the pieces read.
`check_request_state()` is one critical section; what its callers do with the answer
are steps of their own, because the accesses of `is_processing_request_` around it
race. Requests are plain, on a stream route with or without a body, or malformed.
Handlers answer with `send()`, stream the response, or read the body first and answer
from `on_end`, on the worker or on the loop.

`Upgrades` takes the same connection from the other side: the client sends units that
are parts of a TLS handshake, of the HTTP/2 preface, of requests or of what follows
them; `upGiven` is the history of who got each unit, `up` holds the flags. The loop
reads and dispatches in two steps; a worker upgrades in as many steps as there are
writes the loop can see (`state_`, the object, its handler, the buffer); picking the
timeout of the phase and arming it are apart. `UpMeant` is the reference: the protocol
each unit was meant for.

`EventLoop`: one process per loop walks through `run()`: poll, accept callback
(reserve, accept, give back, limit, re-arm), resume, drain, exit check. Clients connect
to any loop's backlog (SO_REUSEPORT), send requests, get answers and are removed by any
thread. `slots` is the shared counter, incremented by compare-exchange and decremented
in the removal callback.

`App`: `listen()` in stages, two kinds of calls (`stop`, `shutdown`) from several
threads split at the accesses of `stop_hooks_ran_`, the signal handler, and the tick
hook of the first loop. A loop is reduced to what `listen()` sees of it.

`TaskRunner`, `ThreadPool`: the mutex and the condition variable are explicit: a worker
tests the predicate, then sleeps and releases the mutex in one step; `notify_one` wakes
one of the sleepers, if any; sleepers may wake spuriously. Tasks may enqueue tasks, also
while the destructor waits. `RunsTasks` states the refinement: `waiting` is the queue,
`active` the tasks in workers' hands, `shut` the destructor having returned.

`Scheduler`: the queue of deadlines is a bag of timers with a mark on those that are
due; `start()` and `stop()` move timers between `due_` and `not_started_`; the mutex is
released between taking a timer and dispatching it, which may throw. A job looks at
`cancelled` (`Begin`) and calls the callback (`Call`) in two steps, with `cancel()` in
between or not.

`ConnectionTimers`: time is relative: entries hold the time left, so nothing has to be
bounded. A timer entry also names, as history, the connection that armed it. The loop
computes its wait, sleeps (time passes only then), takes the expired entries under the
lock and removes connections, by descriptor, after it. A removed connection lives on
until its last reference goes, may arm timers meanwhile, and frees its descriptor
number only then.

`Proactors`: epoll and kqueue share a model (`paKind`): a context per descriptor with
the operations waiting on it, the one-shot interest of the kernel, batches of events
taken before the lock. For io_uring the queue of requests that other threads hand to
the loop and the wake-up of the loop matter; whenever the ring is asked for a place it
may have none (`get_sqe_safe()`). For completion ports it is the life of a context:
`icOp` says who holds it, `icCalls` and `icFreed` count its callbacks and deletions.

`Endpoints`: the kernel gives out the lowest free descriptor, so that closing one twice
would hit another owner; certificates are stamped, loaded and swapped by two threads
while their files are rewritten.

### Protocols and what they carry

`WebSocket`: the loop parses frames from a buffer in turns (look at the front, act on
it, deliver a message), while threads of the application send and close; a step is one
hold of `send_mutex_`. A payload is a sequence of letters that can be cut in the middle
of a character. `wsGot`, `wsOut` and `wsCalls` are history: messages handed to the handlers, frames written, calls of the close handler.

`Http2Session`: everything under `session_mutex_` is one step, including the
`send_pending()` at its end, which moves what the windows allow, closes streams and
marks the connection for closing. Handlers write at any moment and keep their writers
after they return. nghttp2 is external: it asks for data while a window is open, stops
when told `DEFERRED`, and closes a stream when both sides have ended it.

`Quic`: in its first part the loop routes packets by connection id and syncs the table
of ids after each, workers write under the connection's mutex and may issue ids or start
the closing meanwhile. In its second part one connection carries HTTP/3: nghttp3 holds
references to chunks until they are acknowledged, in pieces of any size; a step that
changes a stream is followed by `send_pending_data()`, step by step, under the mutex.

`ResponseLife`: one writer for all requests of a connection, told apart by
`generation_`. `reset_responded()` and `report_async_exception()` are split at every
atomic access, so a report of an earlier request can be overtaken by the next one.
`rlRan`, `rlSent` and `rlStray` are history.

`Multipart`: the streaming parser as a function from a chunk to the next state, called
on chunks cut anywhere, with temporary files that can fail; `MultipartForm::parse` is
the reference for the parts (`UploadsWhole`), the disk the one for the files
(`FilesAccounted`, in `ReadWhole`). `Http1Parser`: llhttp is external, a walk over symbols that calls
back; the parser around it fills requests, pauses, upgrades, refuses; the reference is
the list of requests that were sent (`RequestsWhole`, in `ReadWhole`), and a refusal must
carry the status of a cause the request has: 400, 413, 431, or 501 for a method llhttp does
not know.

### Services and algorithms

`Upstreams`: the HTTP client (callers, the client's thread with libcurl's callbacks,
the destructor) and the reverse proxy: requests that share the pool of idle upstream
connections, whose descriptors are reused, and whose bytes come in pieces of a response
(`MCResponses`).

`Router`: groups register routes, middleware and error handlers in any order; the
reference ranks the registrations that cover a path. `ClientState`: the limiters, in
memory and in Redis, beside a bucket per client that never forgets (`lmTrue`), and
sessions with requests that overlap, expiry and eviction. `Authentication`: tokens
against a key cache that is refreshed late or not at all, and browsers with several tabs
in the course of a login. `Messages`: responses that are copied, moved and given files,
and values carried by a request; and the ids, spans, counters and access lines that
middleware and response hooks keep of requests that overlap.

`DatabaseClients`: the Redis client's single connection with replies that come late or
after a timeout; one PostgreSQL session with prepared statements, transactions and
reconnects; coroutines that await the MySQL and MongoDB clients; migration runners that
start at once, crash and lose their session.

`TextFormats`, `Contents`, `Orm`, `Config`, `Json` have no state: one step picks an
input out of a set (`Sample`), and an invariant compares what the code computes from it
with a reference definition: decoding after encoding, the RFC's grammar, the meaning of
an SQL text under SQL's precedence, the file a path names.

## 3. Runs

Each run states one question; the bounds are in its cfg. Runs that join several
components are the union of the components' state spaces.

| Run | Question | Bounds and why they are enough |
|---|---|---|
| `db_pool` | Are exclusiveness, capacity, order and readiness kept, and is every waiter served? | 3 clients for 2 places, 2 acquirers, 2 breaks: two waiters, or a waiter, a holder and a dead idle client, at once |
| `output` | One writer, nothing stranded, order, close after the last byte (in plaintext), no I/O after removal, do the bytes in flight stay put, is everything sent? | 2 workers and the loop; 3 responses or messages in plaintext (one in flight, one queued, one arriving at the wrong moment), 2 and a record from the read side over TLS; a file is sent in one part |
| `lifecycle` | Requests one at a time, in order, none forgotten; stop and hooks; rooms without closed sockets | 2 workers and the loop, 2 requests of any kind, one of them on a stream route: the second arrives at every step of the first. 2 loops, 2 calling threads, 1 signal. 2 sockets in 2 rooms |
| `loops` | Limit, listener and drain with a shared budget | 2 loops, 2 clients, 1 slot: both loops compete for the slot |
| `threads` | Refinement of `TaskRunner`; overlap, loss and cancellation of timers; liveness; lost wake-ups by the absence of deadlock; the accept path without reservation | 2 workers, 2 users, 3 tasks; a periodic and a one-shot timer; 1 loop, 2 clients, 1 place |
| `protocols` | What connections stand on and carry (fourteen components) | 2 descriptors, connections, ids or streams, so that one can be mistaken for the other (HTTP/3: one stream, chunks of two bytes, acknowledgements across chunks); 3 WebSocket frames (a message in two fragments and a control frame between); requests of up to 4 fields and 3 symbols of body on both sides of each limit (3 fields, 2 of body), cut into any pieces |
| `services` | What stands on connections (thirteen components and nine topics of cases) | 2 or 3 clients, requests and ids; enough steps for one to expire, be evicted or be retried beside another. Cases: all inputs over the alphabets that tell the branches apart, up to the lengths in the cfg |

A module's type invariant states the shape of its state. In passing runs of MC modules
it is part of the joined invariants. Deadlock is checked where the model never
legitimately stops (`threads`); elsewhere it stops when every bounded request has been
made and answered, or the run looks for one counterexample.

### Findings (runs that expect a violation)

* `output_tls_close`: over TLS a connection can be closed before its last response was
  written: `has_pending_output()` does not look at the ciphertext in flight.
* `requests_body`: the callback of an upload stays set after its request was answered,
  and the body of the next upload of the connection is delivered to it.
* `app_second_signal`: a second `SIGTERM` is not noticed once the first loop drained.
* `uploads`: a multipart body that is cut within two characters after a boundary loses
  the part that begins there, or its closing boundary.
* `websocket_drain`: a drain notice that comes while a worker upgrades the connection
  never reaches the WebSocket.

### Met while modelling, and not among the runs

The models contain these behaviours; where a property would otherwise fail, it says what
it excepts.

* `App`: a second `shutdown()` may start the drain while the `on_stop` hooks still run
  on another thread (`App.cpp:532`; the docs say the hooks run before the drain);
  requests may be served before an `on_start` hook has run (`App.cpp:489`); a `SIGTERM`
  followed by `SIGHUP` within one tick is overwritten (`App.cpp:41`).
* `ConnectionOutput`: `send()` publishes the file before its headers are queued
  (`Connection.cpp:681`); a completion in between sends file bytes first, and a file
  sent to its end lets the next request start while the first thread is still in
  `send()`, so that responses may be queued out of the order of their requests.
  Over TLS `trigger_write()` reads and closes the file with no lock
  (`Connection.cpp:847`, `871`) while `send()` stores descriptor, size and offset under
  `write_mutex_` (`679`): the writer of an earlier write can close a descriptor whose
  extent is not stored yet. The body is then lost, wholly or in part, and the next
  request goes on, against the comment at 672 ("The next pipelined request is processed
  only once this file is fully written"). `FileBeforeNext` and `OutputDelivered` except
  such files (`torn`) and no others; text is never lost by it (`InOrder`).
* `Scheduler`: a job that has found its timer not cancelled calls the callback after
  `cancel()` has returned (`Scheduler.cpp:99`), where `Timer.hpp:19` says "no further
  runs start". `CancelStops` allows that one run and no second.
* `ConnectionRequests`: loop and worker may find the same complete request, and the one
  that loses the compare-exchange can win it after the request was answered; it then
  answers 400 to nothing (`Connection.cpp:745`). The last check in
  `continue_after_response()` acts on complete requests only, so an upload or an error
  found there waits for more bytes; `RequestServed` speaks of them only when they come
  first. When the client leaves, `on_end` is called without being taken out
  (`Connection.cpp:154`), so the properties of order speak of clients that stay.
* `Upgrades`: the timeout of a phase is picked from `state_` and
  `is_processing_request_` and armed later; a completion that picked "none" while a
  worker gives the connection back, or upgrades it, leaves it without a timeout. The last
  check of `continue_after_response()` takes up a request with the keep-alive timeout
  still armed, which then cuts off a long handler. After a streamed response a late
  `trigger_read()` can make the loop process WebSocket frames before the handler has set
  `on_message`. `raw_stream_on_close_` runs only if a read ends while it is set.
* `WebSocket`: the close handler can run twice when our `close()` crosses the client's
  close frame (`WebSocketConnection.hpp:144` says once). `EventRouter`: a drain while a
  route handler runs, before it has set `on_close`, leaves a dangling socket.
* `Quic`: an HTTP/3 stream that the window of the connection blocked is woken only by
  its own `MAX_STREAM_DATA`. `ResponseLife`: the three reads of
  `report_async_exception()` race with the three writes of `reset_responded()`.
* `Proactors`: io_uring's `remove()` can fall between the halves of `drain_pending()`,
  and with no place in the ring a request goes without its callback
  (`IoUringProactor.cpp:107`), and a wake-up that could not be armed is never armed again
  (99), so that requests of other threads wait for the loop's timeout; on IOCP an accept
  that is refused at once, and an operation whose failure cannot be posted
  (`IocpProactor.cpp:64`), never call back, and the destructor deletes contexts that the
  kernel or the port may still have (45). `QueueWakesLoop` and `ContextsFreedOnce` name
  these exceptions; epoll's batch runs callbacks of a descriptor that was removed,
  and perhaps reused, meanwhile. `Endpoints`: the stamp of a missing file is 0; ALPN
  offers "h3" over TCP when HTTP/3 is configured; a failing `listen()` leaves the socket
  bound.
* `Upstreams`: `complete()` gives the connection to the pool before
  `proactor_.remove()`; 1xx answers are taken as final and the connection is pooled;
  partial writes upstream count as complete; `~Client` calls callbacks with its mutex
  held. Over TLS `fail()` does not stop the reads, as `finished_` is not set
  (`Proxy.cpp:344`, 468-481): after unreadable headers or a failed flush the bytes that
  follow are still written behind the 502, and the end of the input calls
  `writer_->end()` a second time (463). `ProxyAnswersOwn` excepts such a request
  (`reads_on`) from the single end and from nothing else.
* `Router`: `is_stream_route` marks any path that a dynamic stream pattern matches, even
  if a more exact route answers it, and does not know HEAD on a GET route; trailing and
  double slashes match dynamic routes only; `run_ws_middlewares` bypasses error handlers.
* `ClientState`: `regenerate()` in a new session with `save_uninitialized` leaves the
  first, empty id stored; a request that holds a session another one destroyed stores it
  again; a client dropped to make room gets a full allowance.
* `Authentication`: a key replaced under the same `kid` is refused until the cache is
  stale, withdrawn keys stay usable while fetches fail; a second login in another tab
  overwrites the first one's cookies; parallel first pages set different CSRF cookies.
* `Multipart`: `MultipartForm::parse` takes `name="` from inside `filename="`, reports
  files without a name and splits at a delimiter anywhere.
* `Contents`: `cors()` leaves `Vary: Origin` as a default (`Cors.cpp:45`), and a `Vary` of
  the handler, of `static_files()` or of `compress()` takes its place, where
  `docs/middleware.md:127` says that it is always sent; `OriginsApart` excepts such
  responses. A 304 goes out without `Vary`; `ETag` and
  `If-Range` are checked against a `stat` while the bytes come from a later `open`; a
  rewrite of the same size in the same second shares the tag; 31 February is accepted.
* `Messages`: a body set after `send_file()` announces its length but sends the file;
  `HttpRequest::json()` returns a discarded value for invalid bodies
  (`HttpRequest.hpp:148` says an empty object).
* `DatabaseClients`: callbacks of a PostgreSQL query in flight are dropped by
  `close_connection()`; `migrate_sync()` that times out leaks its suspended coroutine,
  whose session keeps the advisory lock; a migration with its own `COMMIT` is split from
  its tracking row. `Orm`: raw SQL with `OR` is not put in parentheses.
* `Config`: a numeric-looking value for a text option is refused (`ORBIT_HOST=127`); the
  command line checks less than the file does.
* `Messages` (observability): the in-flight gauge stays up for requests that are never answered; a
  text log line writes a newline without escaping. OpenAPI publishes one of two typed
  routes on a path; `GrpcServer` that fails to start a second time destroys the running
  server; GraphQL accepts variables that are no object.
* `Json`: a patch that removes the child of a primitive succeeds silently, adding below a
  primitive reaches an assertion; "-0" reads as an integer; an object with the key "0"
  does not survive flattening.

## 4. Fairness

Only what the code's scheduling gives: a thread that can take a step takes it (weak
fairness); a mutex or an operation that is available again and again is obtained
(strong fairness for acquiring the worker pool's mutex and the router's, for a
reconnect that can succeed, for a write to a peer that keeps reading, for dispatching
a timer and its turn among due timers, which the queue's order gives, and for a
client's turn in a listen backlog, which the kernel's queue gives). Nobody is obliged to
enqueue, connect, cancel, stop or signal; database clients are returned by their users,
and timer callbacks and pool tasks return. Request handlers need not answer in the
models of the App and the loops: draining ends by the deadline. `RequestServed`, which
speaks of answers, assumes handlers that do.

## 5. Proofs

The theorems hold for every value of the constants that the named assumptions allow;
these say what the code's configuration says (limits are numbers, a chunk is not empty,
"nobody" is no thread). Every invariant was first checked by TLC on the runs' bounds.

**`DatabaseProofs`.** `ExclusiveUse` is not inductive: a client in the idle
queue twice would be handed out twice. `PoolInv` adds that the queue holds each idle
client once (`IdleQueueExact`) and that the unsigned counter is the number of attempts
(`ReconnectingExact`). `AccountInv` counts every client once towards the capacity
(`CapacityKept`); `WaitersFirst` is an action property. The clients that the pool hands
out have an invariant each, and their conjunction is `DatabaseIsSound`:

* `RdInv` (`RepliesGoHome`): what the Redis connection in use still owes is the answer to
  the command whose caller holds the mutex, and nothing while no caller reads. A reply
  can then only meet the command it belongs to, also after an error dropped the
  connection and another descriptor took its place.
* `PgInv` (`CommitsAreTrue`): whatever was reported as executed in a transaction is
  pending in the one that is open, or that transaction has failed and the `COMMIT` under
  way knows it (`PgFailureKnown`); a prepared statement in the cache exists in the
  session it is used in (`PgCached`).
* `AqInv` (`AwaitsEnd`): an awaiting coroutine is in one place, the queue or one worker's
  hand; the clients missing from the pool are those of the workers whose task holds one,
  so a coroutine that waits is resumed exactly once, with the truth.
* `MgInv` (`MigrationsApplyOnce`): an instance whose session is up and that is past the
  advisory lock is the lock's holder, so what it read of the table is still so when it
  runs the next file; the applied files are a beginning of the list, each once.

**`EventLoopProofs`.** `LoopInv`: the limit rests on the counter being exact
(`SlotsExact`) and bounded by the compare-exchange (`SlotsBounded`) when it is shared,
and on there being room wherever a single loop goes on to accept (`RoomInv`) when it is
not; a listener that is neither watched nor paused is so only inside the accept
callback (`ListenerInv`); a graceful end needs a deadline set before the request
(`EndInv`).

**`ConnectionOutputProofs`.** `OutInv` says who holds the writer's role at each program
counter (`OneWriter`), that a removed connection has its operations cancelled
(`CancelsRemoved`), what is where over TLS (`TlsApart`), that every part of a file is
still to send, in flight, sent or torn (`FileKept`), that wherever there is output somebody will still look at it
(`SomebodyLooks`), and that what was queued is, text by text, what is on the wire, in
flight and queued (`SameTexts`). `OutputKept` and the action property `OutputSteady`
follow.

**`ThreadsProofs`.** For the worker pool: the mutex is held where the program counters
say, workers between tasks hold none, the destructor returns after every worker, and a
task is in one place; from it the refinement `PoolRunsTasks`, step by step. For the
scheduler: runs are accounted to a thread's hand or the queue, each timer is queued
once, none is lost between `start()` and `stop()`, and a cancelled timer has at most one
job that had looked at the flag before (`LateOnce`); from it `NoWorkLost`.

**`LifecycleProofs`.** `AppInv`: the main thread's place follows `listen()`, the hooks
have run as often as their flags say, a stop that came early is remembered. `ErInv`:
where a socket is in the order of closing tells in which maps it may still be. For
requests, `TurnInv` (one thread has the connection's turn) and `OrderInv`, which says
who reads, parses, answers and looks again while the peer is there. `RequestsAnswered`
and `NoticeLosesNothing` are stated for at most one streamed upload per connection,
because beyond that they are false (`requests_body`).

**`ConnectionProofs` and `ProtocolsProofs`.** The first proves, of each component by
itself, that its invariant holds at the start, is kept by every step, and implies the
component's property; the second does the same for the WebSocket and the two parsers,
and lifts all of it to the behaviours of `MCProtocols`, where a step is one component's and leaves the others
alone (`ComponentSteps`).

* Proactors: a wake-up is owed from the swap of the pending queue to the end of the wait
  (`IuInv`); a completion context is in the table exactly while the caller, the kernel or
  the port has it (`IcInv`); an operation has started or was collected, and is watched in
  between (`PaInv`).
* Endpoints: a socket has a candidate descriptor only between its creation and `bind`
  (`SkInv`); a certificate's stamp is never ahead of the file, and while the file is the
  stamped one that version was read (`TlInv`).
* `RlInv`: a report that no reset has overtaken is about the request the writer is at; it
  counts responses per request and keeps each callback in one place.
* `CtInv`: live timers are their connection's last and are in the queue; the descriptor
  of an expired timer has no new owner before it fires; no live timer is further past
  than the loop has waited. `UpInv`: worker, `is_processing_request_` and protocol agree,
  and the armed timeout fits the phase unless the two crossed.
* `UpWay`, beside `UpInv`, is about where bytes go (`BytesFindProtocol`, in `ReadKept`): each
  byte taken so far went to the protocol it was meant for, or was dropped by a connection
  that closes, or came before `on_message` behind a streamed response (`UpSent`); the
  handshake is TLS's and comes first (`UpShaken`); the protocol the connection speaks is the
  one the client asked for, and what it needs is installed except while the worker is at it
  (`UpSpoken`, `UpReady`); an idle connection has a read outstanding, and without a streamed
  response none while a worker has it (`UpReadsOn`, `UpReadsOnce`); and bytes that are in the
  buffer are in somebody's hand, or are the beginning of a preface (`UpTaken`).
  `UpAssumption` says what clients send: the handshake first, and after a request to upgrade
  that will be granted only what belongs to the new protocol.
* `H2Inv`: a stream has sent no more than was written, a deferred one has sent all and
  its handler is not done; between calls no stream is about to close, and one that
  answers waits for its window or its handler; a closing connection has no open stream.
* `QcInv`: ids of connections are disjoint and rightful, a connection is in the table
  exactly while it is open, closing or being synced, and the gauge counts the table.
* `H3Inv`: chunk by chunk arithmetic (`H3Held`), the course of a response (`H3Course`),
  its writer (`H3Begun`), and outside `send_pending_data()` an open stream is done or
  blocked (`H3Done`). The lemmas `H3Quotient` and `H3Acknowledged` on `\div` and `%` carry
  the proof that acknowledgements free exactly the chunks they complete.

* WebSockets (`SocketsKept`). `WsInv`: there is a number k of frames that the loop has
  taken; the messages the first k complete are the delivered ones, and the one in the
  loop's hand if there is one (`WsTaken`); what is gathered is the payload of the message
  of frame k (`WsGathers`), and the buffer holds the frames behind it (`WsWaiting`). The
  reference is a recursive function of the number of frames: `StepByStep` shows that such
  a function exists and is what its equation says, `WsMessagesStay` that it does not
  change when more frames arrive. `WsShut`: while nobody has closed, no close frame was
  written and nobody owes the handler a call; who is about to act on a client's close
  frame finds the connection open, or closed by another thread that alone owes or made
  the call. The assumption `WsAssumption` says that a data frame's payload is as long as
  its header says, which is what a frame is.

The two parsers that `MCProtocols` feeds with pieces of a stream are lifted, with the bytes
behind an upgrade, as `ReadKept`:

* `MpInv` (`UploadsKeepFiles`): what a call of `process_buffer()` does is a number of
  rounds, one after the other, so each function of a round is shown to keep `FilesTrue`:
  the disk holds the files of the parts reported and the open one, which is none of
  theirs and is numbered after them; no file is open outside the body of a part, or once
  the parser has failed. `feed()` and every end of the upload inherit it. The disk may
  fail at any chunk.
* `HpInv` (`RequestsAreWhole`): the symbols of a stream are laid out by offsets (`OffOf`,
  `Laid`), one request behind the other, and `At(r, k)` is the state of the parser after
  k symbols of the request r, with what the callbacks have counted. `OneMore` shows, kind of symbol by kind
  of symbol, that `Step` leads from `At(r, k)` to `At(r, k + 1)`, or stops the parser where
  and as `At` says. By induction over a piece (`Ran`, `Fed`) one `feed()` leads from k
  symbols to as many as it consumed, and the invariant says where the stream is: in the
  headers or the body of a request that has not been reported (`Reading`), at its end
  (`Complete`), between two (`Idle`), or at the one that broke a limit (`Broken`).
  `HpKept` says of held requests that the storage they point into is not the parser's.
  `ParsesWhole` is the same course for `HttpParser::parse`. The header limit of
  `Http1Parser.cpp:262` is checked after each piece and only while the headers are not
  complete, so the bound on the bytes of headers that were accepted is shown through
  `header_bytes`, which is their number whatever the pieces were.

`HpAssumption` says that the clients' streams consist of requests, one at least, that a
request to upgrade has no body, and that the limits are numbers; `MpAssumption` that
bodies are sequences.

**`ServicesProofs`.** `MCServices` reaches the recursive operators of the algorithms, and
a module that does cannot have theorems; so these are about the components'
specifications (`ClSpec`, `PxSpec`, `LmSpec`, `SmSpec`, `JwSpec`, `BfSpec`, `RtSpec`,
`MsSpec`, `ObSpec`). A behaviour of `MCServices` is a behaviour of one of them in which
the variables of the others do not move, hence satisfies every one; the theorems that join several components
(`UpstreamsAreSound`, `ClientsAreApart`, `CredentialsAreSound`, `MessagesAreSound`, like
`DatabaseIsSound`) are stated of behaviours that satisfy all of theirs.

* `ClInv` (`ClientCallsBackOnce`): where a transfer is (handed over, taken in a batch, in
  libcurl's hands, done) says how often its callback ran; a transfer that is not done is
  where the client's thread or the destructor still comes by.
* `PxInv` (`UpstreamHasOneUser`, `ProxiedOnce`): a descriptor is in the pool once or of one
  request, next to requests that only have to make the proactor forget it (`PxOwned`); the
  place of a request says what its client got. `PxStraight`, on top of it, says whose bytes
  are on a connection: until an upstream has sent an informational response an idle one is
  empty, and what waits on a request's is of its own response, with the piece that ends it
  last. That a response is over where its header says is assumed of what an upstream
  sends (`PxFraming`); `ProxiedOnce` rests on both invariants.
* `LmInv` (`LimitsAreExact`): a client's bucket is the one a limiter that never forgets
  would have, or there is none and that one is full; elapsed seconds add up (`Refilled` is
  shown to be additive). `SmInv` (`SessionsStayApart`): every id has at most one client, and
  what is stored under it, or held by a request, is that client's. `SmAssumption` asks for
  room for one session, because the store keeps one even when it is configured with none.
* `BfInv` (`FlowsAreOwned`): whatever a browser's jar, its requests and its links hold of a
  login was begun in that browser, and a CSRF token is in one browser. `JwInv`
  (`TokensAreJudged`): a key in the cache was published under its `kid` when it was
  fetched, and differs from the issuer's only by what changed since.
* `RtInv` (`RoutesAreRegistered`): the table of static routes has, for each method and path,
  the last registration, and the list of the others is the registrations without the static
  ones, in order. The searches (`match_segments`, `find_handler`, `RanFor`) are step
  functions over segments or routes; `StepByStep` gives their values and `UpFromZero` the
  induction, by which each is shown to be what the reference says of the part it has seen.
* `FilesInv` and `ContextInv` (`MessagesKept`): the open descriptors are those of the living
  responses, each of one; what is announced is what follows, unless a body was set after a
  file; a context's slot, the value set last and the reference agree in both directions.
* `ReportsInv` (`ReportsStayTrue`): the hooks a connection has left are an end of those its
  request began with, and say what was reported of it; each log has one entry for each
  request whose hook has run (`LogOf`), gauge and count are cardinalities, a bucket counts
  the requests for which it is the first bound that holds. `ObAssumption` says that the
  bounds are in ascending order, as `kHistogramBounds` is; what a scrape shows
  (`ExposeIs`) rests on it.

**Only model-checked.** Liveness and everything under fairness, and `ENABLED`, which the
prover does not do. `UploadsWhole` compares two parsers over every body, one recursive
function with another; they agree on the bodies of the run, but not on all (a delimiter
in the middle of a line ends a part for `MultipartForm::parse` only), so a theorem would
first need the grammar of the bodies on which they do. Of `services` the algorithms,
which are recursive operators (`ContentSound`, `JsonSound`): they are inductions over
their inputs.

## 6. Not modelled

OpenAPI, GraphQL and gRPC (formats, generated code and third-party servers), the test
client, the examples and the command-line tool. In part: the App (its wrappers that
register things), requests and responses (accessors), observability (log formats), the
JSON library (binary formats, callback parser). Bytes and cryptography; third-party
state machines (nghttp2, ngtcp2, nghttp3, OpenSSL, libcurl, zlib, llhttp), which are
modelled by how the code uses them; crashes of the process, except for migrations (the
server keeps nothing between runs); memory reclamation beyond the life of connections;
calling `listen()` a second time on one App. The models are sequentially consistent, as
the code's atomics and mutexes are.

## 7. Plan

1. `UploadsWhole` for bodies of a grammar (parts whose data holds no delimiter).
2. The refinement of an abstract ordered byte stream by `ConnectionOutput`.
