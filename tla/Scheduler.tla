---- MODULE Scheduler ----
\* orbit::server::Scheduler (src/server/Scheduler.cpp): the timers of
\* App::run_every and App::run_after. One thread keeps the deadlines and
\* hands each due callback to the worker pool; start() and stop() follow
\* the App's listen(), and cancel() comes from any thread.
\*
\* The critical sections of mutex_ are one step each. Of the time a timer
\* is due, only whether it has come matters.
EXTENDS Naturals, FiniteSets

CONSTANTS
  Timers,     \* the timers, each added at most once
  Periodic,   \* those added by run_every()
  NoTimer     \* what the thread handles between two timers

ASSUME SchedulerAssumption ==
  /\ IsFiniteSet(Timers) /\ Periodic \subseteq Timers
  /\ NoTimer \notin Timers

VARIABLES
  due,         \* due_: how often each timer is in it
  ripe,        \* the timers in due_ whose time has come
  notStarted,  \* not_started_: how often each timer is in it
  added,       \* the timers that were added
  scRunning,     \* running_
  thread,      \* the scheduler's thread
  hand,        \* the timer it is about to dispatch
  stopping,    \* whether a stop() waits to join the thread
  cancelled,   \* TimerState::cancelled
  finished,    \* TimerState::finished
  inProgress,  \* TimerState::running
  jobs,        \* the callbacks the pool has been handed and not started, by timer
  passed,      \* jobs that have found their timer not cancelled and not called it yet
  calls,       \* callbacks running, by timer
  late,        \* history: the calls that started after cancel(), by timer
  failed       \* history: the one-shot timers whose dispatch threw

scVars == <<due, ripe, notStarted, added, scRunning, thread, hand, stopping, cancelled,
          finished, inProgress, jobs, passed, calls, late, failed>>
flags == <<cancelled, finished, inProgress>>
poolVars == <<jobs, passed, calls, late, failed>>
lifeVars == <<scRunning, stopping>>

\* Queues, and the pool, as the number of entries of each timer.
Counts == [Timers -> Nat]
Nothing == [t \in Timers |-> 0]
With(queue, t) == [queue EXCEPT ![t] = @ + 1]
Without(queue, t) == [queue EXCEPT ![t] = @ - 1]
All(one, other) == [t \in Timers |-> one[t] + other[t]]

ScTypeOK ==
  /\ due \in Counts /\ notStarted \in Counts
  /\ ripe \subseteq {t \in Timers : due[t] > 0}
  /\ added \subseteq Timers
  /\ scRunning \in BOOLEAN /\ stopping \in BOOLEAN
  /\ thread \in {"none", "loop", "dispatch", "ended"}
  /\ hand \in Timers \cup {NoTimer}
  /\ cancelled \subseteq Timers /\ finished \subseteq Timers /\ inProgress \subseteq Timers
  /\ jobs \in Counts /\ passed \in Counts /\ calls \in Counts /\ late \in Counts
  /\ failed \subseteq Timers \ Periodic

ScInit ==
  /\ due = Nothing /\ ripe = {} /\ notStarted = Nothing /\ added = {}
  /\ scRunning = FALSE /\ thread = "none" /\ hand = NoTimer /\ stopping = FALSE
  /\ cancelled = {} /\ finished = {} /\ inProgress = {}
  /\ jobs = Nothing /\ passed = Nothing /\ calls = Nothing /\ late = Nothing
  /\ failed = {}

----
\* add(): to be due after its delay, or kept until start().
Add(t) ==
  /\ t \notin added
  /\ added' = added \cup {t}
  /\ IF scRunning THEN due' = With(due, t) /\ UNCHANGED notStarted
                ELSE notStarted' = With(notStarted, t) /\ UNCHANGED due
  /\ UNCHANGED <<ripe, thread, hand, flags, poolVars, lifeVars>>

\* The time of a queued timer comes.
Ripen(t) ==
  /\ due[t] > 0 /\ t \notin ripe
  /\ ripe' = ripe \cup {t}
  /\ UNCHANGED <<due, notStarted, added, thread, hand, flags, poolVars, lifeVars>>

\* TimerHandle::cancel()
Cancel(t) ==
  /\ t \in added \ cancelled
  /\ cancelled' = cancelled \cup {t}
  /\ UNCHANGED <<due, ripe, notStarted, added, thread, hand, finished, inProgress, poolVars,
                 lifeVars>>

\* start(): the timers kept so far count from now.
ScStart ==
  /\ ~scRunning /\ thread \in {"none", "ended"} /\ ~stopping
  /\ scRunning' = TRUE
  /\ due' = All(due, notStarted)
  /\ notStarted' = Nothing
  /\ thread' = "loop"
  /\ UNCHANGED <<ripe, added, hand, stopping, flags, poolVars>>

\* Mutant: stop() drops the timers that were queued.
Stop_Drop ==
  /\ scRunning
  /\ scRunning' = FALSE
  /\ due' = Nothing /\ ripe' = {}
  /\ stopping' = TRUE
  /\ UNCHANGED <<notStarted, added, thread, hand, flags, poolVars>>

\* stop(): the queued timers are kept for the next start() ...
ScStop ==
  /\ scRunning
  /\ scRunning' = FALSE
  /\ notStarted' = All(notStarted, due)
  /\ due' = Nothing /\ ripe' = {}
  /\ stopping' = TRUE
  /\ UNCHANGED <<added, thread, hand, flags, poolVars>>

\* ... and the thread is joined.
ScJoin ==
  /\ stopping /\ thread = "ended"
  /\ stopping' = FALSE
  /\ UNCHANGED <<due, ripe, notStarted, added, scRunning, thread, hand, flags, poolVars>>

----
\* run()

End ==
  /\ thread = "loop" /\ ~scRunning
  /\ thread' = "ended"
  /\ UNCHANGED <<due, ripe, notStarted, added, hand, flags, poolVars, lifeVars>>

\* A due timer that was cancelled is dropped.
DropCancelled(t) ==
  /\ thread = "loop" /\ scRunning
  /\ t \in ripe \cap cancelled
  /\ due' = Without(due, t)
  /\ ripe' = ripe \ {t}
  /\ UNCHANGED <<notStarted, added, thread, hand, flags, poolVars, lifeVars>>

\* A due timer leaves the queue; a periodic one is queued again for its next
\* tick.
Requeued(t) == IF t \in Periodic THEN due ELSE Without(due, t)

\* Mutant: a tick that is skipped is not queued again.
SkipTick_Lost(t) ==
  /\ thread = "loop" /\ scRunning
  /\ t \in (ripe \ cancelled) \cap inProgress
  /\ due' = Without(due, t)
  /\ ripe' = ripe \ {t}
  /\ UNCHANGED <<notStarted, added, thread, hand, flags, poolVars, lifeVars>>

\* The previous run is still in progress: this tick is skipped.
SkipTick(t) ==
  /\ thread = "loop" /\ scRunning
  /\ t \in (ripe \ cancelled) \cap inProgress
  /\ due' = Requeued(t)
  /\ ripe' = ripe \ {t}
  /\ UNCHANGED <<notStarted, added, thread, hand, flags, poolVars, lifeVars>>

\* Mutant: dispatches although the previous run is in progress.
TakeTick_Overlap(t) ==
  /\ thread = "loop" /\ scRunning
  /\ t \in ripe \ cancelled
  /\ due' = Requeued(t)
  /\ ripe' = ripe \ {t}
  /\ inProgress' = inProgress \cup {t}
  /\ hand' = t
  /\ thread' = "dispatch"
  /\ UNCHANGED <<notStarted, added, cancelled, finished, poolVars, lifeVars>>

\* Mutant: a cancelled timer goes on being dispatched.
TakeTick_Cancelled(t) ==
  /\ thread = "loop" /\ scRunning
  /\ t \in ripe \ inProgress
  /\ due' = Requeued(t)
  /\ ripe' = ripe \ {t}
  /\ inProgress' = inProgress \cup {t}
  /\ hand' = t
  /\ thread' = "dispatch"
  /\ UNCHANGED <<notStarted, added, cancelled, finished, poolVars, lifeVars>>

\* state->running is taken, and the mutex released.
TakeTick(t) ==
  /\ thread = "loop" /\ scRunning
  /\ t \in ripe \ (cancelled \cup inProgress)
  /\ due' = Requeued(t)
  /\ ripe' = ripe \ {t}
  /\ inProgress' = inProgress \cup {t}
  /\ hand' = t
  /\ thread' = "dispatch"
  /\ UNCHANGED <<notStarted, added, cancelled, finished, poolVars, lifeVars>>

\* dispatch() hands the job to the pool, and the mutex is taken again.
Dispatch ==
  /\ thread = "dispatch"
  /\ jobs' = With(jobs, hand)
  /\ hand' = NoTimer
  /\ thread' = "loop"
  /\ UNCHANGED <<due, ripe, notStarted, added, flags, passed, calls, late, failed, lifeVars>>

\* dispatch() throws: the tick is lost, and with it a one-shot timer.
DispatchFails ==
  /\ thread = "dispatch"
  /\ inProgress' = inProgress \ {hand}
  /\ failed' = failed \cup ({hand} \ Periodic)
  /\ hand' = NoTimer
  /\ thread' = "loop"
  /\ UNCHANGED <<due, ripe, notStarted, added, cancelled, finished, jobs, passed, calls, late, lifeVars>>

----
\* The job, on a worker thread

\* The job starts, and finds that its timer was not cancelled.
Begin(t) ==
  /\ jobs[t] > 0 /\ t \notin cancelled
  /\ jobs' = Without(jobs, t)
  /\ passed' = With(passed, t)
  /\ UNCHANGED <<due, ripe, notStarted, added, thread, hand, flags, calls, late, failed, lifeVars>>

\* It calls the callback, cancelled meanwhile or not.
Call(t) ==
  /\ passed[t] > 0
  /\ passed' = Without(passed, t)
  /\ calls' = With(calls, t)
  /\ late' = IF t \in cancelled THEN With(late, t) ELSE late
  /\ UNCHANGED <<due, ripe, notStarted, added, thread, hand, flags, jobs, failed, lifeVars>>

\* The last lines of the job.
JobEnds(t) ==
  /\ finished' = IF t \in Periodic THEN finished ELSE finished \cup {t}
  /\ inProgress' = inProgress \ {t}

\* Nothing to call: the timer was cancelled after it was dispatched.
SkipCancelled(t) ==
  /\ jobs[t] > 0 /\ t \in cancelled
  /\ jobs' = Without(jobs, t)
  /\ JobEnds(t)
  /\ UNCHANGED <<due, ripe, notStarted, added, thread, hand, cancelled, passed, calls, late, failed, lifeVars>>

\* The callback returns or throws.
Return(t) ==
  /\ calls[t] > 0
  /\ calls' = Without(calls, t)
  /\ JobEnds(t)
  /\ UNCHANGED <<due, ripe, notStarted, added, thread, hand, cancelled, jobs, passed, late, failed, lifeVars>>

ThreadStep ==
  End \/ Dispatch \/ \E t \in Timers : DropCancelled(t) \/ SkipTick(t) \/ TakeTick(t)

JobStep(t) == Begin(t) \/ Call(t) \/ SkipCancelled(t) \/ Return(t)

ScNext ==
  \/ ScStart \/ ScStop \/ ScJoin \/ ThreadStep \/ DispatchFails
  \/ \E t \in Timers : Add(t) \/ Ripen(t) \/ Cancel(t) \/ JobStep(t)

ScSpec == ScInit /\ [][ScNext]_scVars

\* Time passes, the thread and the workers run, callbacks return. The thread
\* takes the earliest deadline first, so every due timer has its turn, and
\* dispatching one does not fail forever. No one has to start, stop or cancel.
ScFairness ==
  /\ WF_scVars(ThreadStep) /\ WF_scVars(ScJoin)
  /\ \A t \in Timers :
       /\ WF_scVars(Ripen(t)) /\ WF_scVars(JobStep(t))
       /\ SF_scVars(DropCancelled(t) \/ SkipTick(t) \/ TakeTick(t))
       /\ SF_scVars(hand = t /\ Dispatch)

ScFairSpec == ScSpec /\ ScFairness

----
\* Properties

\* run_every: "Runs never overlap". At most one job of a timer is with the pool,
\* queued or running, also across stop() and start().
NoOverlap ==
  \A t \in Timers : jobs[t] + passed[t] + calls[t] <= 1

\* stop / start: a timer is queued at most once, and one that is neither
\* cancelled nor over is not lost: a periodic one is always queued, a one-shot
\* one is queued, in the thread's hand, with the pool, or has run. Only a
\* dispatch that threw loses a one-shot timer.
NotLost ==
  \A t \in added :
    /\ due[t] + notStarted[t] <= 1
    /\ \/ t \in cancelled \cup finished \cup failed
       \/ due[t] > 0 \/ notStarted[t] > 0
       \/ t \notin Periodic /\ (hand = t \/ jobs[t] + passed[t] + calls[t] > 0)

\* TimerHandle::cancel: "no further runs start", but for the one whose job had
\* looked at the flag before; what the timer was in at the time (the queue, the
\* thread's hand, the pool, a stop()) lets no second one through.
CancelStops == \A t \in Timers : late[t] <= 1

\* Scheduler::run: a cancelled timer is gone from the scheduler in the end, not
\* queued, dispatched and skipped for ever, unless the scheduler is stopped.
CancelTakesEffect ==
  \A t \in Timers :
    (t \in cancelled /\ scRunning)
      ~> ((due[t] + jobs[t] + passed[t] + calls[t] = 0 /\ hand # t) \/ ~scRunning)

\* run_after and run_every: the callback of a timer is called, of a periodic one
\* again and again, unless the timer is cancelled, the scheduler stopped, or the
\* dispatch of a one-shot timer threw.
TimersRun ==
  \A t \in Timers :
    (t \in added \ finished /\ scRunning)
      ~> (calls[t] > 0 \/ t \in cancelled \cup failed \/ ~scRunning)

====
