---- MODULE ThreadPool ----
\* orbit::concurrency::ThreadPool (src/concurrency/ThreadPool.cpp): workers
\* that take tasks from a queue under queue_mutex_, and sleep on condition_
\* while it is empty.
\*
\* Steps are taken between acquiring and releasing the mutex, so that a
\* notification can fall between a worker's look at the predicate and its
\* going to sleep. A worker asleep may wake up spuriously.
EXTENDS Naturals, Sequences, FiniteSets

CONSTANTS
  Workers,  \* workers_
  Users,    \* threads that hand over tasks
  Tasks,    \* the tasks, each handed over at most once
  Owner,    \* the thread that destroys the pool
  Nobody,   \* the mutexOwner of a free mutex
  NoTask    \* what a worker without a task has

ASSUME PoolAssumption ==
  /\ IsFiniteSet(Workers) /\ Workers # {} /\ IsFiniteSet(Tasks)
  /\ Nobody \notin Workers \cup Users \cup {Owner}
  /\ Owner \notin Workers \cup Users
  /\ Workers \cap Users = {}
  /\ NoTask \notin Tasks

VARIABLES
  mutex,   \* the thread that holds queue_mutex_
  tasks,   \* tasks_
  stop,    \* stop_
  tpPc,      \* where each worker is in worker_loop()
  job,     \* the task a worker has taken
  user,    \* where each user, and each worker inside a task, is in enqueue()
  mutexOwner,   \* where the mutexOwner is in ~ThreadPool()
  fresh,   \* tasks not handed over yet
  done     \* tasks that have run

tpVars == <<mutex, tasks, stop, tpPc, job, user, mutexOwner, fresh, done>>

Submitters == Users \cup Workers

TpTypeOK ==
  /\ mutex \in Workers \cup Users \cup {Owner, Nobody}
  /\ tasks \in Seq(Tasks)
  /\ stop \in BOOLEAN
  /\ tpPc \in [Workers -> {"lock", "test", "block", "asleep", "running", "left"}]
  /\ job \in [Workers -> Tasks \cup {NoTask}]
  /\ user \in [Submitters -> {"idle", "push", "notify"}]
  /\ mutexOwner \in {"idle", "set", "notify", "join", "gone"}
  /\ fresh \subseteq Tasks /\ done \subseteq Tasks

TpInit ==
  /\ mutex = Nobody
  /\ tasks = << >>
  /\ stop = FALSE
  /\ tpPc = [w \in Workers |-> "lock"]
  /\ job = [w \in Workers |-> NoTask]
  /\ user = [u \in Submitters |-> "idle"]
  /\ mutexOwner = "idle"
  /\ fresh = Tasks /\ done = {}

TpGoto(w, where) == tpPc' = [tpPc EXCEPT ![w] = where]

----
\* worker_loop()

Lock(w) ==
  /\ tpPc[w] = "lock" /\ mutex = Nobody
  /\ mutex' = w
  /\ TpGoto(w, "test")
  /\ UNCHANGED <<tasks, stop, job, user, mutexOwner, fresh, done>>

\* The predicate of condition_.wait() is false.
TestFalse(w) ==
  /\ tpPc[w] = "test"
  /\ ~stop /\ tasks = << >>
  /\ TpGoto(w, "block")
  /\ UNCHANGED <<mutex, tasks, stop, job, user, mutexOwner, fresh, done>>

\* wait() releases the mutex and sleeps, in one step.
Block(w) ==
  /\ tpPc[w] = "block"
  /\ mutex' = Nobody
  /\ TpGoto(w, "asleep")
  /\ UNCHANGED <<tasks, stop, job, user, mutexOwner, fresh, done>>

\* Mutant: leaves as soon as the pool stops, whatever is queued.
Leave_Early(w) ==
  /\ tpPc[w] = "test"
  /\ stop
  /\ mutex' = Nobody
  /\ TpGoto(w, "left")
  /\ UNCHANGED <<tasks, stop, job, user, mutexOwner, fresh, done>>

\* if (stop_ && tasks_.empty()) return.
Leave(w) ==
  /\ tpPc[w] = "test"
  /\ stop /\ tasks = << >>
  /\ mutex' = Nobody
  /\ TpGoto(w, "left")
  /\ UNCHANGED <<tasks, stop, job, user, mutexOwner, fresh, done>>

\* Mutant: takes the newest task.
Take_Last(w) ==
  /\ tpPc[w] = "test"
  /\ tasks # << >>
  /\ job' = [job EXCEPT ![w] = tasks[Len(tasks)]]
  /\ tasks' = SubSeq(tasks, 1, Len(tasks) - 1)
  /\ mutex' = Nobody
  /\ TpGoto(w, "running")
  /\ UNCHANGED <<stop, user, mutexOwner, fresh, done>>

\* Takes the front of the queue and releases the mutex.
Take(w) ==
  /\ tpPc[w] = "test"
  /\ tasks # << >>
  /\ job' = [job EXCEPT ![w] = Head(tasks)]
  /\ tasks' = Tail(tasks)
  /\ mutex' = Nobody
  /\ TpGoto(w, "running")
  /\ UNCHANGED <<stop, user, mutexOwner, fresh, done>>

\* The task returns, or throws and is logged.
Finish(w) ==
  /\ tpPc[w] = "running" /\ user[w] = "idle"
  /\ done' = done \cup {job[w]}
  /\ job' = [job EXCEPT ![w] = NoTask]
  /\ TpGoto(w, "lock")
  /\ UNCHANGED <<mutex, tasks, stop, user, mutexOwner, fresh>>

\* A spurious wake-up.
Spurious(w) ==
  /\ tpPc[w] = "asleep"
  /\ TpGoto(w, "lock")
  /\ UNCHANGED <<mutex, tasks, stop, job, user, mutexOwner, fresh, done>>

----
\* enqueue()

\* A user, or a worker from inside its task, hands over a task. Users are done
\* with the pool before its mutexOwner destroys it.
Enqueue(u) ==
  /\ user[u] = "idle"
  /\ IF u \in Workers THEN tpPc[u] = "running" ELSE mutexOwner = "idle"
  /\ fresh # {} /\ mutex = Nobody
  /\ mutex' = u
  /\ user' = [user EXCEPT ![u] = "push"]
  /\ UNCHANGED <<tasks, stop, tpPc, job, mutexOwner, fresh, done>>

Push(u, t) ==
  /\ user[u] = "push" /\ t \in fresh
  /\ tasks' = Append(tasks, t)
  /\ fresh' = fresh \ {t}
  /\ mutex' = Nobody
  /\ user' = [user EXCEPT ![u] = "notify"]
  /\ UNCHANGED <<stop, tpPc, job, mutexOwner, done>>

Asleep == {w \in Workers : tpPc[w] = "asleep"}

\* condition_.notify_one(): wakes one of the sleepers, if there is one.
NotifyOne(u) ==
  /\ user[u] = "notify"
  /\ user' = [user EXCEPT ![u] = "idle"]
  /\ IF Asleep = {} THEN UNCHANGED tpPc ELSE \E w \in Asleep : TpGoto(w, "lock")
  /\ UNCHANGED <<mutex, tasks, stop, job, mutexOwner, fresh, done>>

----
\* ~ThreadPool()

TpDestroy ==
  /\ mutexOwner = "idle"
  /\ \A u \in Users : user[u] = "idle"
  /\ mutexOwner' = "set"
  /\ UNCHANGED <<mutex, tasks, stop, tpPc, job, user, fresh, done>>

\* stop_ = true under the mutex: a worker that has looked at the predicate and
\* is not asleep yet holds it.
SetStop ==
  /\ mutexOwner = "set" /\ mutex = Nobody
  /\ stop' = TRUE
  /\ mutexOwner' = "notify"
  /\ UNCHANGED <<mutex, tasks, tpPc, job, user, fresh, done>>

NotifyAll ==
  /\ mutexOwner = "notify"
  /\ mutexOwner' = "join"
  /\ tpPc' = [w \in Workers |-> IF w \in Asleep THEN "lock" ELSE tpPc[w]]
  /\ UNCHANGED <<mutex, tasks, stop, job, user, fresh, done>>

TpJoin ==
  /\ mutexOwner = "join"
  /\ \A w \in Workers : tpPc[w] = "left"
  /\ mutexOwner' = "gone"
  /\ UNCHANGED <<mutex, tasks, stop, tpPc, job, user, fresh, done>>

WorkerStep(w) ==
  Lock(w) \/ TestFalse(w) \/ Block(w) \/ Leave(w) \/ Take(w) \/ Finish(w)
SubmitStep(u) == NotifyOne(u) \/ \E t \in Tasks : Push(u, t)
OwnerStep == SetStop \/ NotifyAll \/ TpJoin

Terminated == mutexOwner = "gone" /\ UNCHANGED tpVars

TpNext ==
  \/ \E w \in Workers : WorkerStep(w) \/ Spurious(w)
  \/ \E u \in Submitters : SubmitStep(u) \/ Enqueue(u)
  \/ TpDestroy \/ OwnerStep
  \/ Terminated

TpSpec == TpInit /\ [][TpNext]_tpVars

\* Threads that can take a step do; a mutex that is free again and again is
\* acquired. Nobody has to enqueue a task or destroy the pool, tasks finish, and
\* nothing relies on spurious wake-ups.
TpFairness ==
  /\ \A w \in Workers :
       /\ WF_tpVars(TestFalse(w) \/ Block(w) \/ Leave(w) \/ Take(w) \/ Finish(w))
       /\ SF_tpVars(Lock(w))
  /\ \A u \in Submitters : WF_tpVars(SubmitStep(u))
  /\ SF_tpVars(SetStop) /\ WF_tpVars(NotifyAll) /\ WF_tpVars(TpJoin)

TpFairSpec == TpSpec /\ TpFairness

----
\* Properties

\* ~ThreadPool: when the destructor has returned every task handed over has run,
\* tasks that other tasks handed over meanwhile included.
AllRunAtEnd == mutexOwner = "gone" => fresh \cup done = Tasks /\ tasks = << >>

Runner ==
  INSTANCE TaskRunner WITH waiting <- tasks,
                           active <- {job[w] : w \in Workers} \ {NoTask},
                           finished <- done,
                           shut <- mutexOwner = "gone"

\* The pool is a task runner: each task runs once, tasks start in order, every
\* task handed over does run, and the destructor waits for all of them.
RunsTasks == Runner!Spec

====
