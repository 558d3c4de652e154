---- MODULE ThreadsProofs ----
\* The worker pool and the timer scheduler, proved for every number of
\* workers, users, tasks and timers: no task is lost or run twice, whoever
\* stops the pool meanwhile, the pool implements the task runner its users
\* rely on, runs of a timer never overlap, no timer is lost across stop()
\* and start(), and at most one run starts after cancel().
EXTENDS MCThreads, TLAPS

----
\* ThreadPool

\* Whoever is inside a critical section of queue_mutex_ holds it.
MutexHeld ==
  /\ \A w \in Workers : tpPc[w] \in {"test", "block"} => mutex = w
  /\ \A u \in Submitters : user[u] = "push" => mutex = u

\* A worker has a task exactly while it runs one, and hands over tasks only
\* from inside it.
WorkersBusy ==
  \A w \in Workers : /\ tpPc[w] = "running" <=> job[w] # NoTask
                     /\ user[w] # "idle" => tpPc[w] = "running"

AllLeft == \A w \in Workers : tpPc[w] = "left"

\* How far the destructor is, and what that says of the others: users are done
\* with the pool, workers leave only once stop_ is set, and the last one to
\* leave leaves an empty queue.
DestructorOrder ==
  /\ mutexOwner # "idle" => \A u \in Users : user[u] = "idle"
  /\ stop <=> mutexOwner \in {"notify", "join", "gone"}
  /\ \A w \in Workers : tpPc[w] = "left" => stop
  /\ mutexOwner = "gone" => AllLeft
  /\ AllLeft => tasks = << >>

Queued(t) == \E i \in 1 .. Len(tasks) : tasks[i] = t
Held(t) == \E w \in Workers : job[w] = t

\* Every task is in one place: not handed over, queued once, held by one
\* worker, or done.
OnePlace ==
  /\ \A t \in Tasks : t \in fresh \/ Queued(t) \/ Held(t) \/ t \in done
  /\ \A t \in fresh : ~Queued(t) /\ ~Held(t) /\ t \notin done
  /\ \A i, j \in 1 .. Len(tasks) : tasks[i] = tasks[j] => i = j
  /\ \A t \in Tasks : Queued(t) => ~Held(t) /\ t \notin done
  /\ \A v, w \in Workers : job[v] = job[w] /\ job[v] # NoTask => v = w
  /\ \A w \in Workers : job[w] \notin done

\* The inductive invariant.
TpInv == TpTypeOK /\ MutexHeld /\ WorkersBusy /\ DestructorOrder /\ OnePlace

LEMMA TpInitInv == TpInit => TpInv
<1> SUFFICES ASSUME TpInit PROVE TpInv OBVIOUS
<1>1. TpTypeOK
  <2>1. tasks \in Seq(Tasks)
    <3>1. << >> \in Seq(Tasks) OBVIOUS
    <3> QED BY <3>1, Zenon DEF TpInit
  <2>2. user \in [Submitters -> {"idle", "push", "notify"}] BY Zenon DEF TpInit
  <2> QED BY <2>1, <2>2, Zenon DEF TpInit, TpTypeOK
<1>2. MutexHeld /\ WorkersBusy BY DEF TpInit, MutexHeld, WorkersBusy, Submitters
<1>3. DestructorOrder BY PoolAssumption DEF TpInit, DestructorOrder, AllLeft
<1>4. OnePlace BY PoolAssumption DEF TpInit, OnePlace, Queued, Held
<1> QED BY <1>1, <1>2, <1>3, <1>4 DEF TpInv

\* A step that moves no task keeps every task in its place.
LEMMA TasksUntouched ==
  ASSUME OnePlace, UNCHANGED <<tasks, job, fresh, done>>
  PROVE  OnePlace' BY DEF OnePlace, Queued, Held

\* worker_loop() up to the point where a task is taken, and what the workers
\* do when there is none.
LEMMA WorkerWaitStep ==
  ASSUME TpInv, NEW w \in Workers, Lock(w) \/ TestFalse(w) \/ Block(w) \/ Leave(w) \/ Spurious(w)
  PROVE  TpInv'
<1> USE DEF TpInv, TpGoto
<1>1. OnePlace' BY TasksUntouched DEF Lock, TestFalse, Block, Leave, Spurious
<1>2. TpTypeOK' BY DEF TpTypeOK, Lock, TestFalse, Block, Leave, Spurious
<1>3. MutexHeld'
  BY PoolAssumption DEF TpTypeOK, MutexHeld, WorkersBusy, Submitters, Lock, TestFalse, Block, Leave, Spurious
<1>4. WorkersBusy' BY DEF TpTypeOK, WorkersBusy, Lock, TestFalse, Block, Leave, Spurious
<1>5. DestructorOrder' BY DEF TpTypeOK, DestructorOrder, AllLeft, Lock, TestFalse, Block, Leave, Spurious
<1> QED BY <1>1, <1>2, <1>3, <1>4, <1>5

\* A worker takes the front of the queue.
LEMMA TakeStep ==
  ASSUME TpInv, NEW w \in Workers, Take(w)
  PROVE  TpInv'
<1> USE DEF TpInv, TpGoto, Take
<1>1. /\ Head(tasks) \in Tasks /\ Tail(tasks) \in Seq(Tasks)
      /\ Len(tasks) \in Nat \ {0} /\ Len(Tail(tasks)) = Len(tasks) - 1
      /\ Head(tasks) = tasks[1]
      /\ \A i \in 1 .. Len(Tail(tasks)) : Tail(tasks)[i] = tasks[i + 1] BY DEF TpTypeOK
<1>2. TpTypeOK' BY <1>1 DEF TpTypeOK
<1>3. MutexHeld' BY PoolAssumption DEF TpTypeOK, MutexHeld, WorkersBusy, Submitters
<1>4. WorkersBusy' BY <1>1, PoolAssumption DEF TpTypeOK, WorkersBusy
<1>5. DestructorOrder' BY DEF TpTypeOK, DestructorOrder, AllLeft
<1>6. OnePlace'
  <2>1. /\ Queued(tasks[1]) /\ job[w] = NoTask /\ tasks[1] # NoTask /\ tasks[1] \in Tasks
        /\ job' = [job EXCEPT ![w] = tasks[1]] /\ job \in [Workers -> Tasks \cup {NoTask}]
    BY <1>1, PoolAssumption DEF Queued, WorkersBusy, TpTypeOK
  <2>2. \A t \in Tasks : Queued(t)' => Queued(t) /\ t # tasks[1]
    <3> SUFFICES ASSUME NEW t \in Tasks, NEW i \in 1 .. Len(tasks'), tasks'[i] = t
                 PROVE  Queued(t) /\ t # tasks[1] BY DEF Queued
    <3>1. i + 1 \in 1 .. Len(tasks) /\ 1 \in 1 .. Len(tasks) /\ tasks[i + 1] = t BY <1>1
    <3> QED BY <3>1 DEF Queued, OnePlace
  <2>3. \A t \in Tasks : Queued(t) /\ t # tasks[1] => Queued(t)'
    <3> SUFFICES ASSUME NEW i \in 1 .. Len(tasks), tasks[i] # tasks[1]
                 PROVE  \E j \in 1 .. Len(tasks') : tasks'[j] = tasks[i] BY DEF Queued
    <3>1. i - 1 \in 1 .. Len(tasks') /\ tasks'[i - 1] = tasks[i] BY <1>1
    <3> QED BY <3>1
  <2>4. \A i, j \in 1 .. Len(tasks') : tasks'[i] = tasks'[j] => i = j
    <3> SUFFICES ASSUME NEW i \in 1 .. Len(tasks'), NEW j \in 1 .. Len(tasks'), tasks'[i] = tasks'[j]
                 PROVE  i = j OBVIOUS
    <3>1. i + 1 \in 1 .. Len(tasks) /\ j + 1 \in 1 .. Len(tasks) /\ tasks[i + 1] = tasks[j + 1] BY <1>1
    <3> QED BY <3>1 DEF OnePlace
  <2>5. \A t \in Tasks : Held(t)' <=> Held(t) \/ t = tasks[1] BY <2>1, PoolAssumption DEF Held
  <2>6. \A t \in fresh' : ~Queued(t)' /\ ~Held(t)' /\ t \notin done' BY <2>1, <2>2, <2>5 DEF OnePlace, TpTypeOK
  <2>7. \A t \in Tasks : Queued(t)' => ~Held(t)' /\ t \notin done' BY <2>1, <2>2, <2>5 DEF OnePlace
  <2>8. \A u, v \in Workers : job'[u] = job'[v] /\ job'[u] # NoTask => u = v BY <2>1 DEF OnePlace, Held
  <2>9. \A v \in Workers : job'[v] \notin done' BY <2>1 DEF OnePlace
  <2>10. \A t \in Tasks : t \in fresh' \/ Queued(t)' \/ Held(t)' \/ t \in done' BY <2>1, <2>3, <2>5 DEF OnePlace
  <2> QED BY <2>4, <2>6, <2>7, <2>8, <2>9, <2>10 DEF OnePlace
<1> QED BY <1>2, <1>3, <1>4, <1>5, <1>6

\* The task of a worker returns.
LEMMA FinishStep ==
  ASSUME TpInv, NEW w \in Workers, Finish(w)
  PROVE  TpInv'
<1> USE DEF TpInv, TpGoto, Finish
<1>1. job[w] \in Tasks /\ job[w] # NoTask BY DEF TpTypeOK, WorkersBusy
<1>2. TpTypeOK' BY <1>1 DEF TpTypeOK
<1>3. MutexHeld' BY DEF TpTypeOK, MutexHeld
<1>4. WorkersBusy' BY <1>1 DEF TpTypeOK, WorkersBusy
<1>5. DestructorOrder' BY DEF TpTypeOK, DestructorOrder, AllLeft
<1>6. OnePlace'
  <2>1. job' = [job EXCEPT ![w] = NoTask] /\ job \in [Workers -> Tasks \cup {NoTask}] /\ NoTask \notin Tasks
    BY PoolAssumption DEF TpTypeOK
  <2>2. \A t \in Tasks : Held(t)' <=> Held(t) /\ t # job[w] BY <1>1, <2>1 DEF Held, OnePlace
  <2>3. \A t \in Tasks : Queued(t)' <=> Queued(t) BY DEF Queued
  <2>4. Held(job[w]) BY DEF Held
  <2>5. \A v \in Workers : job'[v] \notin done' BY <1>1, <2>1 DEF OnePlace, TpTypeOK
  <2> QED BY <1>1, <2>1, <2>2, <2>3, <2>4, <2>5 DEF OnePlace, TpTypeOK
<1> QED BY <1>2, <1>3, <1>4, <1>5, <1>6

\* enqueue() takes the mutex, or wakes a worker after releasing it.
LEMMA SubmitStepInv ==
  ASSUME TpInv, NEW u \in Submitters, Enqueue(u) \/ NotifyOne(u)
  PROVE  TpInv'
<1> USE DEF TpInv, TpGoto
<1>1. OnePlace' BY TasksUntouched DEF Enqueue, NotifyOne
<1>2. TpTypeOK' BY DEF TpTypeOK, Enqueue, NotifyOne, Asleep, Submitters
<1>3. MutexHeld' BY PoolAssumption DEF TpTypeOK, MutexHeld, WorkersBusy, Submitters, Enqueue, NotifyOne, Asleep
<1>4. WorkersBusy' BY DEF TpTypeOK, WorkersBusy, Submitters, Enqueue, NotifyOne, Asleep
<1>5. DestructorOrder'
  BY PoolAssumption DEF TpTypeOK, DestructorOrder, AllLeft, Submitters, Enqueue, NotifyOne, Asleep
<1> QED BY <1>1, <1>2, <1>3, <1>4, <1>5

\* enqueue() appends a task that nobody has handed over before.
LEMMA PushStep ==
  ASSUME TpInv, NEW u \in Submitters, NEW t \in Tasks, Push(u, t)
  PROVE  TpInv'
<1> USE DEF TpInv, Push
<1>1. /\ tasks' \in Seq(Tasks) /\ Len(tasks) \in Nat /\ Len(tasks') = Len(tasks) + 1
      /\ tasks'[Len(tasks) + 1] = t
      /\ \A i \in 1 .. Len(tasks) : tasks'[i] = tasks[i] BY DEF TpTypeOK
<1>2. TpTypeOK' BY <1>1 DEF TpTypeOK, Submitters
<1>3. MutexHeld' BY PoolAssumption DEF TpTypeOK, MutexHeld, WorkersBusy, Submitters
<1>4. WorkersBusy' BY DEF TpTypeOK, WorkersBusy, Submitters
<1>5. DestructorOrder'
  <2>1. ~AllLeft BY PoolAssumption DEF AllLeft, DestructorOrder, WorkersBusy, Submitters, TpTypeOK
  <2> QED BY <2>1 DEF TpTypeOK, DestructorOrder, AllLeft, Submitters
<1>6. OnePlace'
  <2>1. \A s \in Tasks : Queued(s)' <=> Queued(s) \/ s = t
    <3>1. ASSUME NEW s \in Tasks, Queued(s)'
          PROVE  Queued(s) \/ s = t
      <4>1. PICK i \in 1 .. Len(tasks') : tasks'[i] = s BY <3>1 DEF Queued
      <4>2. i \in 1 .. Len(tasks) \/ i = Len(tasks) + 1 BY <1>1
      <4> QED BY <1>1, <4>1, <4>2 DEF Queued
    <3>2. ASSUME NEW s \in Tasks, NEW i \in 1 .. Len(tasks), tasks[i] = s
          PROVE  Queued(s)'
      <4>1. i \in 1 .. Len(tasks') /\ tasks'[i] = s BY <1>1, <3>2
      <4> QED BY <4>1 DEF Queued
    <3>3. Queued(t)'
      <4>1. Len(tasks) + 1 \in 1 .. Len(tasks') BY <1>1
      <4> QED BY <1>1, <4>1 DEF Queued
    <3> QED BY <3>1, <3>2, <3>3 DEF Queued
  <2>2. \A s \in Tasks : Held(s)' <=> Held(s) BY DEF Held
  <2>3. ~Queued(t) /\ ~Held(t) /\ t \notin done BY DEF OnePlace
  <2>4. \A i, j \in 1 .. Len(tasks') : tasks'[i] = tasks'[j] => i = j
    <3> SUFFICES ASSUME NEW i \in 1 .. Len(tasks'), NEW j \in 1 .. Len(tasks'), tasks'[i] = tasks'[j]
                 PROVE  i = j OBVIOUS
    <3>1. (i \in 1 .. Len(tasks) \/ i = Len(tasks) + 1) /\ (j \in 1 .. Len(tasks) \/ j = Len(tasks) + 1) BY <1>1
    <3>2. \A k \in 1 .. Len(tasks) : tasks[k] # t BY <2>3 DEF Queued
    <3> QED BY <1>1, <3>1, <3>2 DEF OnePlace
  <2> QED BY <2>1, <2>2, <2>3, <2>4 DEF OnePlace, TpTypeOK
<1> QED BY <1>2, <1>3, <1>4, <1>5, <1>6

\* ~ThreadPool()
LEMMA DestructorStep ==
  ASSUME TpInv, TpDestroy \/ SetStop \/ NotifyAll \/ TpJoin
  PROVE  TpInv'
<1> USE DEF TpInv
<1>1. OnePlace' BY TasksUntouched DEF TpDestroy, SetStop, NotifyAll, TpJoin
<1>2. TpTypeOK' BY DEF TpTypeOK, TpDestroy, SetStop, NotifyAll, TpJoin, Asleep
<1>3. MutexHeld' BY DEF TpTypeOK, MutexHeld, TpDestroy, SetStop, NotifyAll, TpJoin, Asleep
<1>4. WorkersBusy' BY DEF TpTypeOK, WorkersBusy, TpDestroy, SetStop, NotifyAll, TpJoin, Asleep
<1>5. DestructorOrder' BY DEF TpTypeOK, DestructorOrder, AllLeft, TpDestroy, SetStop, NotifyAll, TpJoin, Asleep
<1> QED BY <1>1, <1>2, <1>3, <1>4, <1>5

LEMMA TpNextInv == TpInv /\ [TpNext]_tpVars => TpInv'
<1> SUFFICES ASSUME TpInv, [TpNext]_tpVars PROVE TpInv' OBVIOUS
<1>1. CASE UNCHANGED tpVars
  BY <1>1 DEF tpVars, TpInv, TpTypeOK, MutexHeld, WorkersBusy, DestructorOrder, AllLeft, OnePlace, Queued, Held
<1>2. ASSUME NEW w \in Workers, WorkerStep(w) \/ Spurious(w) PROVE TpInv'
  BY <1>2, WorkerWaitStep, TakeStep, FinishStep DEF WorkerStep
<1>3. ASSUME NEW u \in Submitters, SubmitStep(u) \/ Enqueue(u) PROVE TpInv'
  BY <1>3, SubmitStepInv, PushStep DEF SubmitStep
<1>4. CASE TpDestroy \/ OwnerStep BY <1>4, DestructorStep DEF OwnerStep
<1> QED BY <1>1, <1>2, <1>3, <1>4 DEF TpNext, Terminated

\* AllRunAtEnd is what the invariant says once every worker has left.
LEMMA TpInvAllRun == TpInv => AllRunAtEnd
<1> SUFFICES ASSUME TpInv, mutexOwner = "gone" PROVE fresh \cup done = Tasks /\ tasks = << >> BY DEF AllRunAtEnd
<1>1. tasks = << >> /\ \A w \in Workers : job[w] = NoTask BY DEF TpInv, DestructorOrder, AllLeft, WorkersBusy
<1> QED BY <1>1, PoolAssumption DEF TpInv, OnePlace, Queued, Held, TpTypeOK

\* A task that is still fresh is unknown to the abstract runner.
LEMMA FreshUnknown ==
  ASSUME TpInv, NEW t \in fresh
  PROVE  ~Runner!Known(t)
<1>1. /\ ~Queued(t) /\ ~Held(t) /\ t \notin done /\ t \in Tasks
      /\ tasks \in Seq(Tasks) BY DEF TpInv, OnePlace, TpTypeOK
<1>2. DOMAIN tasks = 1 .. Len(tasks) BY <1>1
<1> QED BY <1>1, <1>2 DEF Runner!Known, Queued, Held

\* Each step of the pool is a step of the abstract runner, or invisible to it.
LEMMA RunnerStep ==
  ASSUME TpInv, [TpNext]_tpVars
  PROVE  [Runner!Next]_Runner!vars
<1> USE DEF TpInv
<1>1. CASE UNCHANGED tpVars BY <1>1 DEF tpVars, Runner!vars
<1>2. ASSUME NEW w \in Workers, Lock(w) \/ TestFalse(w) \/ Block(w) \/ Leave(w) \/ Spurious(w)
      PROVE  UNCHANGED Runner!vars BY <1>2 DEF Lock, TestFalse, Block, Leave, Spurious, Runner!vars
<1>3. ASSUME NEW w \in Workers, Take(w) PROVE Runner!Start
  <2>1. job[w] = NoTask /\ Head(tasks) \in Tasks /\ NoTask \notin Tasks
    BY <1>3, PoolAssumption DEF Take, WorkersBusy, TpTypeOK
  <2>2. {job'[v] : v \in Workers} \ {NoTask} = ({job[v] : v \in Workers} \ {NoTask}) \cup {Head(tasks)}
    BY <1>3, <2>1 DEF Take, TpTypeOK
  <2> QED BY <1>3, <2>2 DEF Take, Runner!Start
<1>4. ASSUME NEW w \in Workers, Finish(w) PROVE \E t \in Tasks : Runner!Finish(t)
  <2>1. job[w] \in Tasks /\ job[w] # NoTask BY <1>4 DEF Finish, WorkersBusy, TpTypeOK
  <2>2. {job'[v] : v \in Workers} \ {NoTask} = ({job[v] : v \in Workers} \ {NoTask}) \ {job[w]}
    BY <1>4, <2>1 DEF Finish, TpTypeOK, OnePlace
  <2>3. PICK t \in Tasks : t = job[w] BY <2>1
  <2>4. Runner!Finish(t) BY <1>4, <2>1, <2>2, <2>3 DEF Finish, Runner!Finish
  <2> QED BY <2>4
<1>5. ASSUME NEW u \in Submitters, Enqueue(u) \/ NotifyOne(u) PROVE UNCHANGED Runner!vars
  BY <1>5 DEF Enqueue, NotifyOne, Runner!vars
<1>6. ASSUME NEW u \in Submitters, NEW t \in Tasks, Push(u, t) PROVE Runner!Submit(t)
  <2>1. mutexOwner # "gone" BY <1>6 DEF Push, DestructorOrder, AllLeft, WorkersBusy, Submitters, TpTypeOK
  <2>2. ~Runner!Known(t) BY <1>6, FreshUnknown DEF Push
  <2> QED BY <1>6, <2>1, <2>2 DEF Push, Runner!Submit
<1>7. CASE TpDestroy \/ SetStop \/ NotifyAll BY <1>7 DEF TpDestroy, SetStop, NotifyAll, Runner!vars
<1>8. CASE TpJoin
  <2>1. tasks = << >> /\ \A w \in Workers : job[w] = NoTask BY <1>8 DEF TpJoin, DestructorOrder, AllLeft, WorkersBusy
  <2> QED BY <1>8, <2>1 DEF TpJoin, Runner!Next, Runner!Shut
<1> QED BY <1>1, <1>2, <1>3, <1>4, <1>5, <1>6, <1>7, <1>8
        DEF TpNext, WorkerStep, SubmitStep, OwnerStep, Terminated, Runner!Next

\* ThreadPool implements the task runner its users rely on: every task handed
\* over starts once, in the order of enqueue(), and the destructor returns only
\* after all of them (the safety part of RunsTasks).
THEOREM PoolRunsTasks == TpSpec => Runner!Init /\ [][Runner!Next]_Runner!vars
<1>1. TpInit => Runner!Init BY PoolAssumption DEF TpInit, Runner!Init
<1> QED BY <1>1, TpInitInv, TpNextInv, RunnerStep, PTL DEF TpSpec

----
\* Scheduler

\* A timer marked as running is in exactly one place: the thread's hand, or a job
\* the pool has not started, that has looked at the flag, or that is calling.
RunsAccounted ==
  \A t \in Timers :
    (IF hand = t THEN 1 ELSE 0) + jobs[t] + passed[t] + calls[t] = IF t \in inProgress THEN 1 ELSE 0

\* The thread has a timer in hand exactly between taking and dispatching it.
HandFollowsThread == thread = "dispatch" <=> hand # NoTimer

\* What was never added is nowhere, and due_ and not_started_ hold a timer at
\* most once between them.
QueuedOnce ==
  \A t \in Timers :
    /\ due[t] + notStarted[t] <= 1
    /\ t \notin added => due[t] = 0 /\ notStarted[t] = 0 /\ t \notin inProgress

\* Only a job that had looked at the flag before cancel() can start late, and
\* there is at most one.
LateOnce ==
  \A t \in Timers : IF t \in cancelled THEN late[t] + passed[t] <= 1 ELSE late[t] = 0

\* The inductive invariant.
ScInv == ScTypeOK /\ RunsAccounted /\ HandFollowsThread /\ QueuedOnce /\ NotLost /\ LateOnce

LEMMA ScInitInv == ScInit => ScInv
<1> SUFFICES ASSUME ScInit PROVE ScInv OBVIOUS
<1>1. ScTypeOK BY DEF ScInit, ScTypeOK, Counts, Nothing
<1> QED BY <1>1, SchedulerAssumption
        DEF ScInit, ScInv, RunsAccounted, HandFollowsThread, QueuedOnce, NotLost, LateOnce, Nothing

\* add(), a deadline that comes, and cancel().
LEMMA TimerStep ==
  ASSUME ScInv, NEW t \in Timers, Add(t) \/ Ripen(t) \/ Cancel(t)
  PROVE  ScInv'
<1> USE DEF ScInv, ScTypeOK, Counts, With, flags, poolVars, lifeVars
<1>1. CASE Add(t)
  <2>1. ScTypeOK' BY <1>1 DEF Add
  <2>2. RunsAccounted' BY <1>1 DEF Add, RunsAccounted, HandFollowsThread
  <2>3. HandFollowsThread' BY <1>1 DEF Add, HandFollowsThread
  <2>4. QueuedOnce' BY <1>1 DEF Add, RunsAccounted, QueuedOnce
  <2>5. NotLost' BY <1>1 DEF Add, RunsAccounted, QueuedOnce, NotLost
  <2>6. LateOnce' BY <1>1 DEF Add, LateOnce
  <2> QED BY <2>1, <2>2, <2>3, <2>4, <2>5, <2>6
<1>2. CASE Ripen(t) BY <1>2 DEF Ripen, RunsAccounted, HandFollowsThread, QueuedOnce, NotLost, LateOnce
<1>3. CASE Cancel(t) BY <1>3 DEF Cancel, RunsAccounted, HandFollowsThread, QueuedOnce, NotLost, LateOnce
<1> QED BY <1>1, <1>2, <1>3

\* start(), stop() and the end of the thread: every queued timer changes sides.
LEMMA LifeStep ==
  ASSUME ScInv, ScStart \/ ScStop \/ ScJoin \/ End
  PROVE  ScInv'
<1> USE DEF ScInv, ScTypeOK, Counts, Nothing, All, flags, poolVars, lifeVars
<1>1. CASE ScStart BY <1>1 DEF ScStart, RunsAccounted, HandFollowsThread, QueuedOnce, NotLost, LateOnce
<1>2. CASE ScStop
  <2>1. ScTypeOK'
    <3>1. notStarted' \in [Timers -> Nat] BY <1>2 DEF ScStop
    <3>2. due' \in [Timers -> Nat] /\ ripe' = {} BY <1>2 DEF ScStop
    <3> QED BY <1>2, <3>1, <3>2 DEF ScStop
  <2>2. RunsAccounted' BY <1>2 DEF ScStop, RunsAccounted, HandFollowsThread
  <2>3. HandFollowsThread' BY <1>2 DEF ScStop, HandFollowsThread
  <2>4. QueuedOnce' BY <1>2 DEF ScStop, RunsAccounted, QueuedOnce
  <2>5. NotLost'
    <3> SUFFICES ASSUME NEW t \in added
                 PROVE  /\ due'[t] + notStarted'[t] <= 1
                        /\ due[t] > 0 \/ notStarted[t] > 0 => notStarted'[t] > 0 BY <1>2 DEF ScStop, NotLost
    <3>1. due'[t] = 0 /\ notStarted'[t] = notStarted[t] + due[t] BY <1>2 DEF ScStop
    <3>2. due[t] \in Nat /\ notStarted[t] \in Nat OBVIOUS
    <3> QED BY <3>1, <3>2 DEF QueuedOnce
  <2>6. LateOnce' BY <1>2 DEF ScStop, LateOnce
  <2> QED BY <2>1, <2>2, <2>3, <2>4, <2>5, <2>6
<1>3. CASE ScJoin \/ End BY <1>3 DEF ScJoin, End, RunsAccounted, HandFollowsThread, QueuedOnce, NotLost, LateOnce
<1> QED BY <1>1, <1>2, <1>3

\* run(): a due timer is dropped, skipped or taken.
LEMMA TickStep ==
  ASSUME ScInv, NEW t \in Timers, DropCancelled(t) \/ SkipTick(t) \/ TakeTick(t)
  PROVE  ScInv'
<1>0. due[t] = 1 /\ notStarted[t] = 0
  <2>1. t \in ripe BY DEF DropCancelled, SkipTick, TakeTick
  <2>2. due[t] > 0 /\ due[t] \in Nat /\ notStarted[t] \in Nat BY <2>1 DEF ScInv, ScTypeOK, Counts
  <2>3. due[t] + notStarted[t] <= 1 BY DEF ScInv, QueuedOnce
  <2> QED BY <2>2, <2>3
<1> USE DEF ScInv, ScTypeOK, Counts, Without, Requeued, flags, poolVars, lifeVars
<1>1. CASE DropCancelled(t)
  BY <1>0, <1>1 DEF DropCancelled, RunsAccounted, HandFollowsThread, QueuedOnce, NotLost, LateOnce
<1>2. CASE SkipTick(t) BY <1>0, <1>2 DEF SkipTick, RunsAccounted, HandFollowsThread, QueuedOnce, NotLost, LateOnce
<1>3. CASE TakeTick(t)
  <2>1. ScTypeOK' BY <1>0, <1>3, SchedulerAssumption DEF TakeTick
  <2>2. RunsAccounted' BY <1>0, <1>3, SchedulerAssumption DEF TakeTick, RunsAccounted, HandFollowsThread
  <2>3. HandFollowsThread' BY <1>0, <1>3, SchedulerAssumption DEF TakeTick, HandFollowsThread
  <2>4. QueuedOnce' BY <1>0, <1>3, SchedulerAssumption DEF TakeTick, RunsAccounted, QueuedOnce
  <2>5. NotLost' BY <1>0, <1>3, SchedulerAssumption DEF TakeTick, HandFollowsThread, NotLost
  <2>6. LateOnce' BY <1>3 DEF TakeTick, LateOnce
  <2> QED BY <2>1, <2>2, <2>3, <2>4, <2>5, <2>6
<1> QED BY <1>1, <1>2, <1>3

\* The timer in hand goes to the pool, or the dispatch throws.
LEMMA HandStep ==
  ASSUME ScInv, Dispatch \/ DispatchFails
  PROVE  ScInv'
<1> USE DEF ScInv, ScTypeOK, Counts, With, flags, poolVars, lifeVars
<1>0. hand \in Timers /\ hand \in inProgress /\ jobs[hand] = 0 /\ passed[hand] = 0 /\ calls[hand] = 0
  <2>1. hand \in Timers BY DEF Dispatch, DispatchFails, HandFollowsThread
  <2>2. /\ 1 + jobs[hand] + passed[hand] + calls[hand] = IF hand \in inProgress THEN 1 ELSE 0
        /\ jobs[hand] \in Nat /\ passed[hand] \in Nat /\ calls[hand] \in Nat BY <2>1 DEF RunsAccounted
  <2> QED BY <2>1, <2>2
<1>1. CASE Dispatch
  BY <1>0, <1>1, SchedulerAssumption DEF Dispatch, RunsAccounted, HandFollowsThread, QueuedOnce, NotLost, LateOnce
<1>2. CASE DispatchFails
  BY <1>0, <1>2, SchedulerAssumption DEF DispatchFails, RunsAccounted, HandFollowsThread, QueuedOnce, NotLost, LateOnce
<1> QED BY <1>1, <1>2

\* The job on a worker thread.
LEMMA JobStepInv ==
  ASSUME ScInv, NEW t \in Timers, JobStep(t)
  PROVE  ScInv'
<1> USE DEF ScInv, ScTypeOK, Counts, With, Without, JobEnds, flags, poolVars, lifeVars
<1>1. CASE Begin(t)
  <2>0. passed[t] = 0 /\ jobs[t] = 1
    <3>1. jobs[t] > 0 /\ jobs[t] \in Nat /\ passed[t] \in Nat /\ calls[t] \in Nat BY <1>1 DEF Begin
    <3>2. jobs[t] + passed[t] + calls[t] <= 1 BY DEF RunsAccounted
    <3> QED BY <3>1, <3>2
  <2>1. ScTypeOK' BY <1>1 DEF Begin
  <2>2. RunsAccounted' /\ HandFollowsThread' BY <1>1 DEF Begin, RunsAccounted, HandFollowsThread
  <2>3. QueuedOnce' /\ LateOnce' BY <1>1 DEF Begin, QueuedOnce, LateOnce
  <2>4. NotLost' BY <1>1, <2>0 DEF Begin, NotLost
  <2> QED BY <2>1, <2>2, <2>3, <2>4
<1>2. CASE SkipCancelled(t) BY <1>2 DEF SkipCancelled, RunsAccounted, HandFollowsThread, QueuedOnce, NotLost, LateOnce
<1>3. CASE Return(t) BY <1>3 DEF Return, RunsAccounted, HandFollowsThread, QueuedOnce, NotLost, LateOnce
<1>4. CASE Call(t) BY <1>4 DEF Call, RunsAccounted, HandFollowsThread, QueuedOnce, NotLost, LateOnce
<1> QED BY <1>1, <1>2, <1>3, <1>4 DEF JobStep

LEMMA ScNextInv == ScInv /\ [ScNext]_scVars => ScInv'
<1> SUFFICES ASSUME ScInv, [ScNext]_scVars PROVE ScInv' OBVIOUS
<1>1. CASE UNCHANGED scVars
  BY <1>1 DEF scVars, ScInv, ScTypeOK, RunsAccounted, HandFollowsThread, QueuedOnce, NotLost, LateOnce
<1> QED BY <1>1, TimerStep, LifeStep, TickStep, HandStep, JobStepInv DEF ScNext, ThreadStep

----
\* The threads together

\* No task is lost or run twice, runs of a timer never overlap, no timer is
\* lost and at most one run starts after cancel(), in every interleaving of workers, users, timer thread, cancel(), stop()
\* and start() (ThreadPool::~ThreadPool, Scheduler::run).
THEOREM NoWorkLost == MCSpec => []ThreadsSound
<1>1. MCInit => TpInv /\ ScInv BY TpInitInv, ScInitInv DEF MCInit
<1>2. TpInv /\ ScInv /\ [MCNext]_MCVars => TpInv' /\ ScInv'
  <2>1. [MCNext]_MCVars => [TpNext]_tpVars /\ [ScNext]_scVars BY DEF MCNext, MCVars, InPool, InScheduler, InLoop
  <2> QED BY <2>1, TpNextInv, ScNextInv
<1>3. TpInv /\ ScInv => ThreadsSound
  <2>1. ScInv => NoOverlap BY DEF ScInv, ScTypeOK, Counts, RunsAccounted, NoOverlap
  <2>2. ScInv => CancelStops BY DEF ScInv, ScTypeOK, Counts, LateOnce, CancelStops
  <2> QED BY <2>1, <2>2, TpInvAllRun DEF TpInv, ScInv, ThreadsSound
<1> QED BY <1>1, <1>2, <1>3, PTL DEF MCSpec

====
