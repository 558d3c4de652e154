---- MODULE ResponseLife ----
\* What outlives a request on a keep-alive connection: the coroutine that
\* handles it, the failure that escapes the coroutine, and the callbacks that
\* hear of the writer's close. The writer is one object for all its requests;
\* generation_ tells them apart. Each atomic or locked access is a step.
EXTENDS Naturals, FiniteSets

CONSTANTS RlMaxRequests,   \* requests of the connection
          RlCallbacks      \* the callbacks given to on_close()

ASSUME RlAssumption == RlMaxRequests \in Nat \ {0}

VARIABLES rlWriter,    \* ResponseWriter: generation_, responded_, error_sink_ (whose request), closed_, close_callbacks_
          rlConn,      \* the connection: between requests, in reset_responded(), or serving
          rlTask,      \* the coroutine of each request
          rlHeld,      \* the owners of each request's storage
          rlRan,       \* how often each close callback ran
          rlRunning,   \* the callbacks a thread took from the writer and has not called yet
          rlSent,      \* responses sent to each request
          rlStray      \* responses to a request whose own handler did not send them

rlVars == <<rlWriter, rlConn, rlTask, rlHeld, rlRan, rlRunning, rlSent, rlStray>>

RlRequests == 1 .. RlMaxRequests

NoTask == [at |-> "none", helper |-> "none", answered |-> FALSE, raced |-> FALSE, sink |-> 0]

Writer == [gen |-> 0, responded |-> FALSE, sink |-> 0, closed |-> FALSE, callbacks |-> {}]

RlInit ==
  /\ rlWriter = Writer
  /\ rlConn = "idle"
  /\ rlTask = [r \in RlRequests |-> NoTask]
  /\ rlHeld = [r \in RlRequests |-> {}]
  /\ rlRan = [c \in RlCallbacks |-> 0]
  /\ rlRunning = {}
  /\ rlSent = [r \in RlRequests |-> 0]
  /\ rlStray = {}

\* ---- the connection takes the next request: reset_responded(), then route()

\* The reports that have compared the generation are overtaken by the reset.
RlOvertake ==
  rlTask' = [r \in RlRequests |->
    [rlTask[r] EXCEPT !.raced = @ \/ rlTask[r].at \in {"compared", "unanswered", "sink", "last"}]]

reset_responded ==
  /\ \/ /\ rlConn = "idle" /\ ~rlWriter.closed /\ rlWriter.gen < RlMaxRequests
        /\ rlWriter' = [rlWriter EXCEPT !.responded = FALSE]
        /\ rlConn' = "reset"
        /\ RlOvertake
     \/ /\ rlConn = "reset"
        /\ rlWriter' = [rlWriter EXCEPT !.gen = @ + 1]
        /\ rlConn' = "generation"
        /\ RlOvertake
     \/ /\ rlConn = "generation"
        /\ rlWriter' = [rlWriter EXCEPT !.sink = 0]
        /\ rlConn' = "request"
        /\ UNCHANGED rlTask
  /\ UNCHANGED <<rlHeld, rlRan, rlRunning, rlSent, rlStray>>

\* route() installs the sink and calls the handler: a coroutine, whose promise
\* captures writer, generation and the request's storage.
promise_type ==
  /\ rlConn = "request"
  /\ LET r == rlWriter.gen IN
       /\ rlWriter' = [rlWriter EXCEPT !.sink = r]
       /\ rlTask' = [rlTask EXCEPT ![r].at = "runs"]
       /\ rlHeld' = [rlHeld EXCEPT ![r] = {"connection", "task"}]
  /\ rlConn' = "serves"
  /\ UNCHANGED <<rlRan, rlRunning, rlSent, rlStray>>

\* A response goes to whatever request the writer is at: r sends it.
RlRespond(r) ==
  LET g == rlWriter.gen IN
  /\ rlWriter' = [rlWriter EXCEPT !.responded = TRUE]
  /\ rlSent' = IF rlWriter.closed THEN rlSent ELSE [rlSent EXCEPT ![g] = @ + 1]
  /\ rlStray' = IF g = r THEN rlStray ELSE rlStray \cup {[to |-> g, from |-> r]}

\* A handler without a coroutine: what it returns is sent, and what it throws
\* goes to handle_exception(), which answers unless the error handler did.
wrap_handler ==
  /\ rlConn = "request"
  /\ LET r == rlWriter.gen IN
       /\ rlHeld' = [rlHeld EXCEPT ![r] = {"connection"}]
       /\ rlTask' = [rlTask EXCEPT ![r].at = "done"]
       /\ rlWriter' = [rlWriter EXCEPT !.sink = r, !.responded = TRUE]
       /\ rlSent' = IF rlWriter.closed THEN rlSent ELSE [rlSent EXCEPT ![r] = @ + 1]
  /\ rlConn' = "serves"
  /\ UNCHANGED <<rlRan, rlRunning, rlStray>>

\* The response is out: the connection lets go of the request.
RlNextRequest ==
  /\ rlConn = "serves" /\ rlWriter.responded
  /\ rlConn' = "idle"
  /\ rlHeld' = [rlHeld EXCEPT ![rlWriter.gen] = @ \ {"connection"}]
  /\ UNCHANGED <<rlWriter, rlTask, rlRan, rlRunning, rlSent, rlStray>>

\* ---- the coroutine and the helper it awaits ----

TaskAt(r, from, to) == rlTask[r].at = from /\ rlTask' = [rlTask EXCEPT ![r].at = to]

RlTaskSends(r) ==
  /\ rlTask[r].at = "runs" /\ rlTask[r].helper # "awaited"
  /\ rlWriter.gen = r /\ rlConn = "serves" /\ ~rlTask[r].answered    \* a handler answers its request once
  /\ RlRespond(r)
  /\ rlTask' = [rlTask EXCEPT ![r].answered = TRUE]
  /\ UNCHANGED <<rlConn, rlHeld, rlRan, rlRunning>>

\* Awaitable: it starts when it is awaited and resumes the coroutine that
\* awaited it with its value, or with what it threw.
await_suspend(r) ==
  /\ rlTask[r].at = "runs" /\ rlTask[r].helper = "none"
  /\ rlTask' = [rlTask EXCEPT ![r].helper = "awaited"]
  /\ UNCHANGED <<rlWriter, rlConn, rlHeld, rlRan, rlRunning, rlSent, rlStray>>

await_resume(r) ==
  /\ rlTask[r].at = "runs" /\ rlTask[r].helper = "awaited"
  /\ \E at \in {"runs", "throws"} : rlTask' = [rlTask EXCEPT ![r].helper = "taken", ![r].at = at]
  /\ UNCHANGED <<rlWriter, rlConn, rlHeld, rlRan, rlRunning, rlSent, rlStray>>

\* The frame is freed with its promise: the request's storage is let go.
FreeTask(r) == rlHeld' = [rlHeld EXCEPT ![r] = @ \ {"task"}]

RlTaskReturns(r) ==
  /\ rlTask[r].helper # "awaited" /\ rlTask[r].answered     \* a handler answers before it ends
  /\ TaskAt(r, "runs", "done") /\ FreeTask(r)
  /\ UNCHANGED <<rlWriter, rlConn, rlRan, rlRunning, rlSent, rlStray>>

unhandled_exception(r) ==
  /\ rlTask[r].helper # "awaited"
  /\ TaskAt(r, "runs", "throws")
  /\ UNCHANGED <<rlWriter, rlConn, rlHeld, rlRan, rlRunning, rlSent, rlStray>>

\* report_async_exception: the generation, then responded_, then the sink.
\* the generation is not compared
report_generation_Dropped(r) ==
  /\ rlTask[r].at = "throws"
  /\ rlTask' = [rlTask EXCEPT ![r].at = "compared", ![r].raced = (rlConn = "reset")]
  /\ UNCHANGED <<rlWriter, rlConn, rlHeld, rlRan, rlRunning, rlSent, rlStray>>

report_generation(r) ==
  /\ rlTask[r].at = "throws"
  /\ IF rlWriter.gen = r
     THEN /\ rlTask' = [rlTask EXCEPT ![r].at = "compared", ![r].raced = (rlConn = "reset")]
          /\ UNCHANGED rlHeld
     ELSE TaskAt(r, "throws", "done") /\ FreeTask(r)
  /\ UNCHANGED <<rlWriter, rlConn, rlRan, rlRunning, rlSent, rlStray>>

report_responded(r) ==
  /\ rlTask[r].at = "compared"
  /\ IF rlWriter.responded
     THEN TaskAt(r, "compared", "done") /\ FreeTask(r)
     ELSE TaskAt(r, "compared", "unanswered") /\ UNCHANGED rlHeld
  /\ UNCHANGED <<rlWriter, rlConn, rlRan, rlRunning, rlSent, rlStray>>

\* The sink is copied under error_sink_mutex_ and runs after.
report_sink(r) ==
  /\ rlTask[r].at = "unanswered"
  /\ rlTask' = [rlTask EXCEPT ![r].sink = rlWriter.sink,
                              ![r].at = IF rlWriter.sink = 0 THEN "last" ELSE "sink"]
  /\ UNCHANGED <<rlWriter, rlConn, rlHeld, rlRan, rlRunning, rlSent, rlStray>>

\* The sink is handle_exception(): the application's error handler answers, or
\* there is none, or it fails.
RlErrorHandler(r) ==
  /\ TaskAt(r, "sink", "last")
  /\ \/ RlRespond(r)
     \/ UNCHANGED <<rlWriter, rlSent, rlStray>>
  /\ UNCHANGED <<rlConn, rlHeld, rlRan, rlRunning>>

\* The 500 for a request nobody answered, of a sink and without one alike.
report_500(r) ==
  /\ TaskAt(r, "last", "done") /\ FreeTask(r)
  /\ IF rlWriter.responded THEN UNCHANGED <<rlWriter, rlSent, rlStray>> ELSE RlRespond(r)
  /\ UNCHANGED <<rlConn, rlRan, rlRunning>>

\* ---- on_close() and mark_closed() ----

RlNew == {c \in RlCallbacks : rlRan[c] = 0 /\ c \notin rlWriter.callbacks \cup rlRunning}

on_close ==
  /\ \E c \in RlNew :
       IF ~rlWriter.closed
       THEN rlWriter' = [rlWriter EXCEPT !.callbacks = @ \cup {c}] /\ UNCHANGED rlRunning
       ELSE rlRunning' = rlRunning \cup {c} /\ UNCHANGED rlWriter
  /\ UNCHANGED <<rlConn, rlTask, rlHeld, rlRan, rlSent, rlStray>>

\* Several paths of a connection end here; the first takes the callbacks.
\* the callbacks are copied, not swapped
mark_closed_Again ==
  /\ rlWriter' = [rlWriter EXCEPT !.closed = TRUE]
  /\ rlRunning' = rlRunning \cup rlWriter.callbacks
  /\ UNCHANGED <<rlConn, rlTask, rlHeld, rlRan, rlSent, rlStray>>

mark_closed ==
  /\ ~rlWriter.closed
  /\ rlWriter' = [rlWriter EXCEPT !.closed = TRUE, !.callbacks = {}]
  /\ rlRunning' = rlRunning \cup rlWriter.callbacks
  /\ UNCHANGED <<rlConn, rlTask, rlHeld, rlRan, rlSent, rlStray>>

RlRunCallback ==
  /\ \E c \in rlRunning : rlRunning' = rlRunning \ {c} /\ rlRan' = [rlRan EXCEPT ![c] = @ + 1]
  /\ UNCHANGED <<rlWriter, rlConn, rlTask, rlHeld, rlSent, rlStray>>

RlNext ==
  \/ reset_responded
  \/ promise_type
  \/ wrap_handler
  \/ RlNextRequest
  \/ on_close
  \/ mark_closed
  \/ RlRunCallback
  \/ \E r \in RlRequests :
       \/ RlTaskSends(r)
       \/ await_suspend(r)
       \/ await_resume(r)
       \/ RlTaskReturns(r)
       \/ unhandled_exception(r)
       \/ report_generation(r)
       \/ report_responded(r)
       \/ report_sink(r)
       \/ RlErrorHandler(r)
       \/ report_500(r)

\* ------------------------------------------------------------------------
\* A failure that escapes a coroutine is answered once, on the request it
\* belongs to: another request gets a response of it, or a request a second
\* one, only when report_async_exception's checks are overtaken by the
\* connection's reset of the writer for a next request. Until its report ends
\* the request it reads is kept alive.
LateFailuresHarmless ==
  /\ \A s \in rlStray : rlTask[s.from].raced
  /\ \A r \in RlRequests :
       /\ rlSent[r] > 1 => rlTask[r].raced \/ \E s \in rlStray : s.to = r
       /\ rlTask[r].at \notin {"none", "done"} => "task" \in rlHeld[r]
       /\ (rlTask[r].at = "sink" /\ ~rlTask[r].raced) => rlHeld[rlTask[r].sink] # {}

\* Every callback of on_close() runs once: those registered before the close
\* by the thread that closes, later ones by the caller, none by both or none.
CloseCallbacksOnce ==
  /\ \A c \in RlCallbacks :
       rlRan[c] + Cardinality(rlRunning \cap {c}) + Cardinality(rlWriter.callbacks \cap {c}) <= 1
  /\ rlWriter.closed => rlWriter.callbacks = {}

\* ------------------------------------------------------------------------
\* Mutants.

====
