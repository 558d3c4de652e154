---- MODULE MCThreads ----
\* The threads of a server for TLC, one component per behaviour: the worker
\* pool, the timer thread, and an event loop with its own limit.
EXTENDS ThreadPool, Scheduler, EventLoop

CONSTANT Parts       \* the components this instance covers

VARIABLE part        \* the component the behaviour is about

MCVars == <<part, tpVars, scVars, vars>>

InPool == part = "pool" /\ UNCHANGED <<part, scVars, vars>>
InScheduler == part = "scheduler" /\ UNCHANGED <<part, tpVars, vars>>
InLoop == part = "loop" /\ UNCHANGED <<part, tpVars, scVars>>

MCInit == part \in Parts /\ TpInit /\ ScInit /\ Init
MCNext == (InPool /\ TpNext) \/ (InScheduler /\ ScNext) \/ (InLoop /\ (Next \/ UNCHANGED vars))

\* The fairness of each module, for the part in question.
MCFairness ==
  /\ \A w \in Workers :
       /\ WF_MCVars(InPool /\ (TestFalse(w) \/ Block(w) \/ Leave(w) \/ Take(w) \/ Finish(w)))
       /\ SF_MCVars(InPool /\ Lock(w))
  /\ \A u \in Submitters : WF_MCVars(InPool /\ SubmitStep(u))
  /\ SF_MCVars(InPool /\ SetStop) /\ WF_MCVars(InPool /\ NotifyAll) /\ WF_MCVars(InPool /\ TpJoin)
  /\ WF_MCVars(InScheduler /\ ThreadStep) /\ WF_MCVars(InScheduler /\ ScJoin)
  /\ \A t \in Timers :
       /\ WF_MCVars(InScheduler /\ Ripen(t)) /\ WF_MCVars(InScheduler /\ JobStep(t))
       /\ SF_MCVars(InScheduler /\ (DropCancelled(t) \/ SkipTick(t) \/ TakeTick(t)))
       /\ SF_MCVars(InScheduler /\ hand = t /\ Dispatch)
  /\ \A l \in Loops :
       /\ WF_MCVars(InLoop /\ LoopStep(l)) /\ WF_MCVars(InLoop /\ RequestShutdown(l))
       /\ WF_MCVars(InLoop /\ BackoffPasses(l)) /\ WF_MCVars(InLoop /\ DeadlinePasses(l))
       /\ \A c \in Clients : SF_MCVars(InLoop /\ AcceptClient(l, c))
  /\ \A c \in Clients : WF_MCVars(InLoop /\ Removed(c))

MCSpec == MCInit /\ [][MCNext]_MCVars /\ MCFairness

\* No work is lost or done twice at once, whoever stops what meanwhile: the
\* tasks of the pool by the end of its destructor, the timers across stop() and
\* start(), and cancel() holds (ThreadPool::~ThreadPool, Scheduler::stop).
ThreadsSound == TpTypeOK /\ ScTypeOK /\ AllRunAtEnd /\ NoOverlap /\ NotLost /\ CancelStops

\* What has been asked for happens: timers run and cancelled ones go, a loop told
\* to shut down returns, and clients in its backlog are accepted (Scheduler::run,
\* EventLoop::run).
ThreadsLive == TimersRun /\ CancelTakesEffect /\ ShutdownEnds /\ BacklogServed
====
