---- MODULE App ----
\* The life of an orbit::server::App (src/server/App.cpp): listen() creates
\* the event loops, starts the on_start hooks and runs the first loop on
\* its own thread; stop() and shutdown() come from any thread, and signals
\* are noticed by the first loop's tick hook.
\*
\* An event loop is reduced to what listen() sees of it (EventLoop.tla has
\* the rest): it runs until it was stopped, or was asked to shut down and
\* has no request in flight any more or is past the deadline.
EXTENDS Naturals, FiniteSets

CONSTANTS
  Loops,          \* event_loops_
  Front,          \* event_loops_.front(), which runs on listen()'s thread
  Main,           \* the thread that called listen()
  Callers,        \* other threads, each of which stops the App at most once
  MaxSignals,     \* bound: signals the process receives
  DeadlineComes   \* bound: whether shutdown_timeout is short enough to run out

ASSUME AppAssumption ==
  /\ IsFiniteSet(Loops) /\ Front \in Loops
  /\ Main \notin Callers
  /\ MaxSignals \in Nat
  /\ DeadlineComes \in BOOLEAN

VARIABLES
  listen,         \* how far listen() is
  loop,           \* each event loop: "none" before it exists, "running", "ended"
  stopFlag,       \* the loops whose is_running_ was cleared by stop()
  shutFlag,       \* the loops with shutdown_requested_
  busy,           \* the loops with a request in flight
  deadlineOver,   \* whether the shutdown deadline has passed
  stopRequested,  \* stop_requested_
  appDraining,       \* draining_
  started,        \* started_
  hooksRan,       \* stop_hooks_ran_
  hookRuns,       \* how often the on_stop hooks were run
  startHooks,     \* the job that runs the on_start hooks
  call,           \* where each thread is in stop() or shutdown(), or listen()'s end
  op,             \* which of them it is
  sigSeq,         \* g_signal_seq
  sigLast,        \* g_last_signal
  sigSeen,        \* seen_signal_seq_
  termAgain       \* history: a SIGTERM was raised when the App was appDraining already

appVars == <<listen, loop, stopFlag, shutFlag, busy, deadlineOver, stopRequested,
          appDraining, started, hooksRan, hookRuns, startHooks, call, op,
          sigSeq, sigLast, sigSeen, termAgain>>

loopVars == <<loop, stopFlag, shutFlag, busy, deadlineOver>>
hookVars == <<started, hooksRan, hookRuns, startHooks>>
sigVars == <<sigSeq, sigLast, sigSeen, termAgain>>
callVars == <<call, op>>
stopVars == <<stopRequested, appDraining>>

AppThreads == Callers \cup {Main}

AppTypeOK ==
  /\ listen \in {"before", "created", "front", "join", "ending", "returned"}
  /\ loop \in [Loops -> {"none", "running", "ended"}]
  /\ stopFlag \subseteq Loops /\ shutFlag \subseteq Loops /\ busy \subseteq Loops
  /\ deadlineOver \in BOOLEAN /\ stopRequested \in BOOLEAN /\ appDraining \in BOOLEAN
  /\ started \in BOOLEAN /\ hooksRan \in BOOLEAN
  /\ hookRuns \in Nat
  /\ startHooks \in {"none", "queued", "running", "done"}
  /\ call \in [AppThreads -> {"idle", "check", "exchange", "hooks", "apply", "done"}]
  /\ op \in [AppThreads -> {"stop", "shutdown", "return"}]
  /\ sigSeq \in 0 .. MaxSignals /\ sigSeen \in 0 .. MaxSignals
  /\ sigLast \in {"none", "term", "hup", "usr2"}
  /\ termAgain \in BOOLEAN

AppInit ==
  /\ listen = "before"
  /\ loop = [l \in Loops |-> "none"]
  /\ stopFlag = {} /\ shutFlag = {} /\ busy = {}
  /\ deadlineOver = FALSE /\ stopRequested = FALSE /\ appDraining = FALSE
  /\ started = FALSE /\ hooksRan = FALSE /\ hookRuns = 0
  /\ startHooks = "none"
  /\ call = [t \in AppThreads |-> "idle"]
  /\ op = [t \in AppThreads |-> "return"]
  /\ sigSeq = 0 /\ sigLast = "none" /\ sigSeen = 0
  /\ termAgain = FALSE

----
\* listen()

\* Mutant: a stop() that came first is forgotten.
CreateLoops_IgnoreStop ==
  /\ listen = "before"
  /\ loop' = [l \in Loops |-> "running"]
  /\ listen' = "created"
  /\ UNCHANGED <<stopFlag, shutFlag, busy, deadlineOver, stopVars, hookVars,
                 callVars, sigVars>>

\* The section under loop_mutex_: creates the loops, applies a stop() that came
\* first, and starts the threads of the loops other than the first.
CreateLoops ==
  /\ listen = "before"
  /\ loop' = [l \in Loops |-> "running"]
  /\ stopFlag' = IF stopRequested THEN Loops ELSE {}
  /\ listen' = "created"
  /\ UNCHANGED <<shutFlag, busy, deadlineOver, stopVars, hookVars, callVars,
                 sigVars>>

\* stop_hooks_ran_ = false, started_ = true; the scheduler starts and the
\* on_start hooks are queued as one job of the worker pool.
MarkStarted ==
  /\ listen = "created"
  /\ hooksRan' = FALSE
  /\ started' = TRUE
  /\ startHooks' = "queued"
  /\ listen' = "front"
  /\ UNCHANGED <<loopVars, stopVars, hookRuns, callVars, sigVars>>

\* A worker runs the on_start hooks.
StartHooksRun ==
  /\ startHooks = "queued"
  /\ startHooks' = "running"
  /\ UNCHANGED <<listen, loopVars, stopVars, started, hooksRan, hookRuns,
                 callVars, sigVars>>

StartHooksDone ==
  /\ startHooks = "running"
  /\ startHooks' = "done"
  /\ UNCHANGED <<listen, loopVars, stopVars, started, hooksRan, hookRuns,
                 callVars, sigVars>>

\* The thread of loop l is in the loop's run() and not inside its tick hook.
InRun(l) ==
  /\ loop[l] = "running"
  /\ l = Front => listen = "front" /\ call[Main] = "idle"

\* The loop reads a request and hands it to a worker.
Serve(l) ==
  /\ InRun(l)
  /\ l \notin stopFlag \cup shutFlag \cup busy
  /\ busy' = busy \cup {l}
  /\ UNCHANGED <<listen, loop, stopFlag, shutFlag, deadlineOver, stopVars, hookVars,
                 callVars, sigVars>>

AppAnswer(l) ==
  /\ l \in busy
  /\ busy' = busy \ {l}
  /\ UNCHANGED <<listen, loop, stopFlag, shutFlag, deadlineOver, stopVars,
                 hookVars, callVars, sigVars>>

\* run() returns, see EventLoop.tla.
LoopEnds(l) ==
  /\ InRun(l)
  /\ l \in stopFlag \/ (l \in shutFlag /\ (l \notin busy \/ deadlineOver))
  /\ loop' = [loop EXCEPT ![l] = "ended"]
  /\ listen' = IF l = Front THEN "join" ELSE listen
  /\ UNCHANGED <<stopFlag, shutFlag, busy, deadlineOver, stopVars, hookVars,
                 callVars, sigVars>>

\* The other loops' threads are joined; then listen() calls run_stop_hooks().
JoinLoops ==
  /\ listen = "join"
  /\ \A l \in Loops : loop[l] = "ended"
  /\ listen' = "ending"
  /\ call' = [call EXCEPT ![Main] = "check"]
  /\ op' = [op EXCEPT ![Main] = "return"]
  /\ UNCHANGED <<loopVars, stopVars, hookVars, sigVars>>

DeadlinePasses ==
  /\ DeadlineComes
  /\ shutFlag # {} /\ ~deadlineOver
  /\ deadlineOver' = TRUE
  /\ UNCHANGED <<listen, loop, stopFlag, shutFlag, busy, stopVars, hookVars,
                 callVars, sigVars>>

----
\* stop(), shutdown() and the end of listen()

AppGoto(t, where) == call' = [call EXCEPT ![t] = where]

\* A thread calls stop() or shutdown(), before, during or after listen().
Call(t, what) ==
  /\ t \in Callers
  /\ call[t] = "idle"
  /\ AppGoto(t, "check")
  /\ op' = [op EXCEPT ![t] = what]
  /\ UNCHANGED <<listen, loopVars, stopVars, hookVars, sigVars>>

\* run_stop_hooks(): if (!started_ ...
HooksCheck(t) ==
  /\ call[t] = "check"
  /\ AppGoto(t, IF started THEN "exchange" ELSE "apply")
  /\ UNCHANGED <<listen, loopVars, stopVars, hookVars, op, sigVars>>

\* ... || stop_hooks_ran_.exchange(true)) return.
HooksExchange(t) ==
  /\ call[t] = "exchange"
  /\ AppGoto(t, IF hooksRan THEN "apply" ELSE "hooks")
  /\ hooksRan' = TRUE
  /\ hookRuns' = IF hooksRan THEN hookRuns ELSE hookRuns + 1
  /\ UNCHANGED <<listen, loopVars, stopVars, started, startHooks, op, sigVars>>

\* The hooks have run.
HooksDone(t) ==
  /\ call[t] = "hooks"
  /\ AppGoto(t, "apply")
  /\ UNCHANGED <<listen, loopVars, stopVars, started, hooksRan, hookRuns, startHooks, op,
                 sigVars>>

Created == listen # "before"

\* What a thread does when its call is over: the first loop's thread goes on.
AfterCall(t) == AppGoto(t, IF t = Main THEN "idle" ELSE "done")

\* The rest of stop(), under loop_mutex_.
ApplyStop(t) ==
  /\ call[t] = "apply" /\ op[t] = "stop"
  /\ stopRequested' = TRUE
  /\ stopFlag' = IF Created THEN Loops ELSE stopFlag
  /\ AfterCall(t)
  /\ UNCHANGED <<listen, loop, shutFlag, busy, deadlineOver, appDraining, hookVars,
                 op, sigVars>>

\* Mutant: shuts down the first loop only.
ApplyShutdown_FrontOnly(t) ==
  /\ call[t] = "apply" /\ op[t] = "shutdown"
  /\ appDraining' = TRUE
  /\ IF Created THEN shutFlag' = shutFlag \cup {Front} /\ UNCHANGED stopRequested
                ELSE stopRequested' = TRUE /\ UNCHANGED shutFlag
  /\ AfterCall(t)
  /\ UNCHANGED <<listen, loop, stopFlag, busy, deadlineOver, hookVars, op, sigVars>>

\* The rest of shutdown(), under loop_mutex_: the same deadline for every loop.
ApplyShutdown(t) ==
  /\ call[t] = "apply" /\ op[t] = "shutdown"
  /\ appDraining' = TRUE
  /\ IF Created THEN shutFlag' = Loops /\ UNCHANGED stopRequested
                ELSE stopRequested' = TRUE /\ UNCHANGED shutFlag
  /\ AfterCall(t)
  /\ UNCHANGED <<listen, loop, stopFlag, busy, deadlineOver, hookVars, op, sigVars>>

\* The last lines of listen(): the scheduler stops, started_ = false.
AppReturn ==
  /\ call[Main] = "apply" /\ op[Main] = "return"
  /\ listen' = "returned"
  /\ started' = FALSE
  /\ AppGoto(Main, "done")
  /\ UNCHANGED <<loopVars, stopVars, hooksRan, hookRuns, startHooks, op, sigVars>>

----
\* Signals

\* signal_handler()
Signal(sig) ==
  /\ Created /\ sigSeq < MaxSignals
  /\ sigSeq' = sigSeq + 1
  /\ sigLast' = sig
  /\ termAgain' = (termAgain \/ (sig = "term" /\ appDraining))
  /\ UNCHANGED <<listen, loopVars, stopVars, hookVars, callVars, sigSeen>>

\* What the tick hook makes of the last signal: the call it makes, or none. A
\* hot reload that fails to fork only logs.
Reactions(sig) ==
  CASE sig = "hup" -> {"none"}
    [] sig = "usr2" -> {"shutdown", "none"}
    [] OTHER -> IF appDraining THEN {"stop"} ELSE {"shutdown"}

\* The tick hook of the first loop.
Tick(reaction) ==
  /\ InRun(Front)
  /\ sigSeq # sigSeen
  /\ sigSeen' = sigSeq
  /\ IF reaction = "none" THEN UNCHANGED callVars
     ELSE AppGoto(Main, "check") /\ op' = [op EXCEPT ![Main] = reaction]
  /\ UNCHANGED <<listen, loopVars, stopVars, hookVars, sigSeq, sigLast, termAgain>>

CallStep(t) ==
  HooksCheck(t) \/ HooksExchange(t) \/ HooksDone(t) \/ ApplyStop(t) \/ ApplyShutdown(t)

TickStep == \E reaction \in Reactions(sigLast) : Tick(reaction)

ListenStep == CreateLoops \/ MarkStarted \/ JoinLoops \/ AppReturn

\* listen() has returned and every call is over.
Terminated ==
  /\ listen = "returned"
  /\ \A t \in AppThreads : call[t] = "done"
  /\ UNCHANGED appVars

AppNext ==
  \/ ListenStep \/ TickStep \/ DeadlinePasses
  \/ StartHooksRun \/ StartHooksDone
  \/ \E l \in Loops : Serve(l) \/ AppAnswer(l) \/ LoopEnds(l)
  \/ \E t \in AppThreads : CallStep(t)
  \/ \E t \in Callers, what \in {"stop", "shutdown"} : Call(t, what)
  \/ \E sig \in {"term", "hup", "usr2"} : Signal(sig)
  \/ Terminated

AppSpec == AppInit /\ [][AppNext]_appVars

\* Threads that can go on do, hooks return, the loops keep ticking and the
\* deadline comes. Handlers may never answer, nobody has to call stop().
AppFairness ==
  /\ WF_appVars(ListenStep) /\ WF_appVars(TickStep) /\ WF_appVars(DeadlinePasses)
  /\ \A l \in Loops : WF_appVars(LoopEnds(l))
  /\ \A t \in AppThreads : WF_appVars(CallStep(t))

AppFairSpec == AppSpec /\ AppFairness

----
\* Properties

\* stop(): "Safe to call from any thread, even before listen()". Once loops
\* exist, a stop() that has been applied has reached every one of them, also
\* when it was called while listen() was creating them.
StopReachesLoops == Created /\ stopRequested => stopFlag = Loops

\* on_stop: however many threads stop the App at once, the hooks run once, and
\* when listen() has returned they have been run.
HooksOnce == hookRuns <= 1 /\ (listen = "returned" => hookRuns = 1)

\* shutdown(): a loop ends with a request in flight only if somebody called
\* stop() (a second signal does) or the deadline has passed.
RequestsFinish ==
  \A l \in busy : loop[l] = "ended" => stopRequested \/ deadlineOver

\* stop() and shutdown(): once one of them has been applied listen() returns,
\* even if request handlers hang.
StopEnds == (stopRequested \/ shutFlag # {}) ~> listen = "returned"

\* Config.hpp: "A second signal stops at once", without waiting for a handler or
\* for shutdown_timeout.
SecondSignalStops == termAgain ~> listen = "returned"

====
