---- MODULE DbConnectionPool ----
\* orbit::database::ConnectionPool (include/orbit/database/
\* ConnectionPool.hpp): a fixed number of database clients shared by
\* concurrent acquirers, with health checks and background reconnection.
\*
\* A step is one critical section of mutex_ or one piece of code between
\* two of them, so every interleaving of the threads that call init's
\* connect callbacks, acquire, release and replace is a behaviour.
\*
\* A member of Clients stands for a connection object, or for the attempt
\* that is going to create one (a replace() waiting out its backoff).
EXTENDS Naturals, Sequences, FiniteSets, FiniteSetsExt

CONSTANTS
  Clients,         \* identities of clients; a dropped one may be used again
  Acquirers,       \* concurrent users of the pool, one acquire() each at a time
  NoClient,        \* an empty shared_ptr
  MaxSize,         \* max_size_
  HealthCheck,     \* whether options_.health_check is set
  InitialBackoff,  \* options_.initial_backoff
  MaxBackoff,      \* options_.max_backoff
  MaxBreaks        \* bound: how many times a connected client breaks

ASSUME PoolAssumption ==
  /\ IsFiniteSet(Clients)
  /\ NoClient \notin Clients
  /\ MaxSize \in Nat
  /\ HealthCheck \in BOOLEAN
  /\ InitialBackoff \in Nat \ {0}
  /\ MaxBackoff \in Nat
  /\ InitialBackoff <= MaxBackoff
  /\ MaxBreaks \in Nat

VARIABLES
  where,         \* what each client is going through (Places)
  delay,         \* the delay captured by the replace() that made the client
  healthy,       \* what health_check would answer
  idle,          \* idle_connections_
  waitq,         \* wait_queue_, the acquirers whose callbacks are queued
  reconnecting,  \* reconnecting_
  connector,     \* whether connector_ is set, i.e. init() was called
  toStart,       \* iterations of init's loop still to run
  succeeded,     \* *success_count
  failed,        \* *fail_count
  ready,         \* what became of on_ready: "no", or due and called with a flag
  pc,            \* where each acquirer is
  drops,         \* replace(0) calls an acquire() still has to make
  holds,         \* the client an acquirer was given, or is about to be
  alive,         \* whether a shared_ptr to the pool is left
  breaks         \* connections broken so far (bounded by MaxBreaks)

vars == <<where, delay, healthy, idle, waitq, reconnecting, connector, toStart,
          succeeded, failed, ready, pc, drops, holds, alive, breaks>>

initVars == <<connector, toStart, succeeded, failed, ready>>
userVars == <<waitq, pc, drops, holds>>

\* The code a client is in: being connected by init() or by replace(), waiting
\* out a backoff, "replacing" (dropped or failed: replace() is about to run in
\* its stead), in release() before and after the health check, in the idle
\* queue, or handed to an acquirer.
Places == {"none", "initConnecting", "backoff", "connecting", "replacing",
           "releasing", "checked", "idle", "out"}

Delays == 0 .. MaxBackoff

TypeOK ==
  /\ where \in [Clients -> Places]
  /\ delay \in [Clients -> Delays]
  /\ healthy \in [Clients -> BOOLEAN]
  /\ idle \in Seq(Clients)
  /\ waitq \in Seq(Acquirers)
  /\ reconnecting \in Nat
  /\ connector \in BOOLEAN
  /\ toStart \in Nat /\ succeeded \in Nat /\ failed \in Nat
  /\ ready \in {"no", "due_ok", "due_fail", "ok", "fail"}
  /\ pc \in [Acquirers -> {"free", "replacing", "waiting", "holding"}]
  /\ drops \in [Acquirers -> Nat]
  /\ holds \in [Acquirers -> Clients \cup {NoClient}]
  /\ alive \in BOOLEAN
  /\ breaks \in Nat

Init ==
  /\ where = [c \in Clients |-> "none"]
  /\ delay = [c \in Clients |-> 0]
  /\ healthy = [c \in Clients |-> FALSE]
  /\ idle = << >> /\ waitq = << >>
  /\ reconnecting = 0
  /\ connector = FALSE
  /\ toStart = 0 /\ succeeded = 0 /\ failed = 0
  /\ ready = "no"
  /\ pc = [a \in Acquirers |-> "free"]
  /\ drops = [a \in Acquirers |-> 0]
  /\ holds = [a \in Acquirers |-> NoClient]
  /\ alive = TRUE
  /\ breaks = 0

----
\* init(): stores the connector; an empty pool is ready at once.
InitPool ==
  /\ alive /\ ~connector
  /\ connector' = TRUE
  /\ toStart' = MaxSize
  /\ ready' = IF MaxSize = 0 THEN "ok" ELSE "no"
  /\ UNCHANGED <<where, delay, healthy, idle, reconnecting, succeeded, failed,
                 alive, breaks, userVars>>

\* One iteration of init's loop: factory_() and the connector's call.
InitConnect(c) ==
  /\ toStart > 0
  /\ where[c] = "none"
  /\ toStart' = toStart - 1
  /\ where' = [where EXCEPT ![c] = "initConnecting"]
  /\ UNCHANGED <<delay, healthy, idle, reconnecting, connector, succeeded,
                 failed, ready, alive, breaks, userVars>>

\* Mutant: done as soon as one attempt failed.
AllDone_AtFirstFailure(s, f) == s = MaxSize \/ f > 0

AllDone(s, f) == s + f = MaxSize

\* What follows the count: release(), replace() with a health check, or nothing.
AfterInitConnect(success) ==
  IF success THEN "releasing" ELSE IF HealthCheck THEN "replacing" ELSE "none"

\* The connector's callback for an initial connection: count it under the lock,
\* then release() it, or replace() it when there is a health check.
InitConnected(c, success) ==
  /\ where[c] = "initConnecting"
  /\ succeeded' = succeeded + (IF success THEN 1 ELSE 0)
  /\ failed' = failed + (IF success THEN 0 ELSE 1)
  /\ ready' = IF AllDone(succeeded', failed')
              THEN IF failed' = 0 THEN "due_ok" ELSE "due_fail"
              ELSE ready
  /\ where' = [where EXCEPT ![c] = AfterInitConnect(success)]
  /\ healthy' = [healthy EXCEPT ![c] = success]
  /\ delay' = [delay EXCEPT ![c] = IF success THEN 0 ELSE InitialBackoff]
  /\ UNCHANGED <<idle, reconnecting, connector, toStart, alive, breaks, userVars>>

\* The callback that saw all_done calls on_ready(all_ok), its release() or
\* replace() behind it.
OnReady ==
  /\ ready \in {"due_ok", "due_fail"}
  /\ ready' = IF ready = "due_ok" THEN "ok" ELSE "fail"
  /\ UNCHANGED <<where, delay, healthy, idle, reconnecting, connector, toStart,
                 succeeded, failed, alive, breaks, userVars>>

----

Usable(c) == ~HealthCheck \/ healthy[c]

\* How many clients at the front of the idle queue acquire() drops: those up to
\* the first usable one, or all of them.
Dropped ==
  LET usableAt == {i \in 1 .. Len(idle) : Usable(idle[i])}
  IN  IF usableAt = {} THEN Len(idle) ELSE Min(usableAt) - 1

\* acquire()'s critical section: pop until a usable client turns up, queue the
\* callback if none did.
Acquire(a) ==
  /\ alive /\ pc[a] = "free" /\ drops[a] = 0
  /\ LET k == Dropped
         gone == {idle[i] : i \in 1 .. k}
         found == k < Len(idle)
         client == IF found THEN idle[k + 1] ELSE NoClient
     IN  /\ idle' = SubSeq(idle, k + 2, Len(idle))
         /\ where' = [c \in Clients |-> IF c \in gone THEN "none"
                                        ELSE IF c = client THEN "out" ELSE where[c]]
         /\ drops' = [drops EXCEPT ![a] = k]
         /\ holds' = [holds EXCEPT ![a] = client]
         /\ waitq' = IF found THEN waitq ELSE Append(waitq, a)
         /\ pc' = [pc EXCEPT ![a] = IF found THEN IF k = 0 THEN "holding" ELSE "replacing"
                                    ELSE "waiting"]
  /\ UNCHANGED <<delay, healthy, reconnecting, alive, breaks, initVars>>

\* Mutant: only scheduled replacements are counted.
StartReplacement_Uncounted(c, d) ==
  /\ reconnecting' = IF d = 0 THEN reconnecting ELSE reconnecting + 1
  /\ delay' = [delay EXCEPT ![c] = d]

\* The body of replace(d) run in place of some dropped client: a fresh client c
\* is connected at once, or after the delay.
StartReplacement(c, d) ==
  /\ reconnecting' = reconnecting + 1
  /\ delay' = [delay EXCEPT ![c] = d]

\* One replace(0) of acquire()'s loop; the callback runs after the last one.
\* A waiting acquirer may be served by another thread before it gets here.
AcquireReplace(a, c) ==
  /\ drops[a] > 0
  /\ where[c] = "none"
  /\ StartReplacement(c, 0)
  /\ where' = [where EXCEPT ![c] = "connecting"]
  /\ drops' = [drops EXCEPT ![a] = @ - 1]
  /\ pc' = [pc EXCEPT ![a] = IF @ = "replacing" /\ drops[a] = 1 THEN "holding" ELSE @]
  /\ UNCHANGED <<healthy, idle, waitq, holds, alive, breaks, initVars>>

\* The user of a client calls release(): in its callback or later, and perhaps
\* before its own acquire() returned, when another thread ran the callback.
Release(a) ==
  /\ pc[a] = "holding"
  /\ where' = [where EXCEPT ![holds[a]] = "releasing"]
  /\ pc' = [pc EXCEPT ![a] = "free"]
  /\ holds' = [holds EXCEPT ![a] = NoClient]
  /\ UNCHANGED <<delay, healthy, idle, waitq, drops, reconnecting, alive, breaks, initVars>>

\* release()'s health check, made without the lock.
ReleaseCheck(c) ==
  /\ where[c] = "releasing"
  /\ where' = [where EXCEPT ![c] = IF Usable(c) THEN "checked" ELSE "replacing"]
  /\ delay' = [delay EXCEPT ![c] = 0]
  /\ UNCHANGED <<healthy, idle, reconnecting, alive, breaks, userVars, initVars>>

\* Mutant: the waiters are not looked at.
ReleaseReturn_ToIdle(c) ==
  /\ where[c] = "checked"
  /\ where' = [where EXCEPT ![c] = "idle"]
  /\ idle' = Append(idle, c)
  /\ UNCHANGED <<delay, healthy, reconnecting, alive, breaks, userVars, initVars>>

\* Mutant: the early return after the push is missing the other way round, so a
\* client handed to a waiter is queued as idle too.
ReleaseReturn_AlsoIdle(c) ==
  /\ where[c] = "checked"
  /\ where' = [where EXCEPT ![c] = "idle"]
  /\ idle' = Append(idle, c)
  /\ IF waitq = << >> THEN UNCHANGED userVars
     ELSE /\ waitq' = Tail(waitq)
          /\ pc' = [pc EXCEPT ![Head(waitq)] = "holding"]
          /\ holds' = [holds EXCEPT ![Head(waitq)] = c]
          /\ UNCHANGED drops
  /\ UNCHANGED <<delay, healthy, reconnecting, alive, breaks, initVars>>

\* release()'s critical section: to the first waiter, or to the idle queue.
ReleaseReturn(c) ==
  /\ where[c] = "checked"
  /\ IF waitq # << >>
     THEN /\ where' = [where EXCEPT ![c] = "out"]
          /\ waitq' = Tail(waitq)
          /\ pc' = [pc EXCEPT ![Head(waitq)] = "holding"]
          /\ holds' = [holds EXCEPT ![Head(waitq)] = c]
          /\ UNCHANGED idle
     ELSE /\ where' = [where EXCEPT ![c] = "idle"]
          /\ idle' = Append(idle, c)
          /\ UNCHANGED <<waitq, pc, holds>>
  /\ UNCHANGED <<delay, healthy, drops, reconnecting, alive, breaks, initVars>>

----
\* replace(delay) in place of client c, dropped by release() or never connected:
\* the attempt runs at once without a delay and is scheduled with one.
Replace(c, fresh) ==
  /\ where[c] = "replacing"
  /\ where[fresh] = "none" \/ fresh = c
  /\ StartReplacement(fresh, delay[c])
  /\ where' = [where EXCEPT ![c] = "none",
                            ![fresh] = IF delay[c] = 0 THEN "connecting" ELSE "backoff"]
  /\ UNCHANGED <<healthy, idle, alive, breaks, userVars, initVars>>

\* The scheduled attempt: nothing if the pool is gone, else factory_() and the
\* connector.
BackoffOver(c) ==
  /\ where[c] = "backoff"
  /\ where' = [where EXCEPT ![c] = IF alive THEN "connecting" ELSE "none"]
  /\ UNCHANGED <<delay, healthy, idle, reconnecting, alive, breaks, userVars, initVars>>

\* Mutant: no cap.
NextDelay_Uncapped(d) == Max({InitialBackoff, 2 * d})

NextDelay(d) == Min({Max({InitialBackoff, 2 * d}), MaxBackoff})

\* Mutant: a failed replacement is given up.
Reconnected_GiveUp(c, success) ==
  /\ where[c] = "connecting"
  /\ reconnecting' = reconnecting - (IF alive THEN 1 ELSE 0)
  /\ where' = [where EXCEPT ![c] = IF alive /\ success THEN "releasing" ELSE "none"]
  /\ healthy' = [healthy EXCEPT ![c] = success]
  /\ UNCHANGED <<delay, idle, alive, breaks, userVars, initVars>>

\* The connector's callback for a replacement.
Reconnected(c, success) ==
  /\ where[c] = "connecting"
  /\ IF alive
     THEN /\ reconnecting' = reconnecting - 1
          /\ where' = [where EXCEPT ![c] = IF success THEN "releasing" ELSE "replacing"]
          /\ delay' = [delay EXCEPT ![c] = IF success THEN 0 ELSE NextDelay(@)]
          /\ healthy' = [healthy EXCEPT ![c] = success]
     ELSE /\ where' = [where EXCEPT ![c] = "none"]
          /\ UNCHANGED <<reconnecting, delay, healthy>>
  /\ UNCHANGED <<idle, alive, breaks, userVars, initVars>>

----
\* The server closes a connected client's connection.
Break(c) ==
  /\ where[c] \in {"releasing", "checked", "idle", "out"}
  /\ healthy[c]
  /\ breaks < MaxBreaks
  /\ healthy' = [healthy EXCEPT ![c] = FALSE]
  /\ breaks' = breaks + 1
  /\ UNCHANGED <<where, delay, idle, reconnecting, alive, userVars, initVars>>

\* The last shared_ptr to the pool goes: init's callbacks, users that hold or
\* wait for a client, and threads in release() or replace() each keep one;
\* scheduled attempts and their connectors only keep a weak_ptr.
Destroy ==
  /\ alive /\ toStart = 0
  /\ \A a \in Acquirers : pc[a] = "free" /\ drops[a] = 0
  /\ \A c \in Clients : where[c] \in {"none", "idle", "backoff", "connecting"}
  /\ ready \in {"no", "ok", "fail"}
  /\ alive' = FALSE
  /\ idle' = << >>
  /\ where' = [c \in Clients |-> IF where[c] = "idle" THEN "none" ELSE where[c]]
  /\ UNCHANGED <<delay, healthy, reconnecting, breaks, userVars, initVars>>

Next ==
  \/ InitPool
  \/ OnReady
  \/ Destroy
  \/ \E a \in Acquirers : Acquire(a) \/ Release(a) \/ \E c \in Clients : AcquireReplace(a, c)
  \/ \E c \in Clients :
       \/ InitConnect(c) \/ ReleaseCheck(c) \/ ReleaseReturn(c)
       \/ BackoffOver(c) \/ Break(c)
       \/ \E success \in BOOLEAN : InitConnected(c, success) \/ Reconnected(c, success)
       \/ \E fresh \in Clients : Replace(c, fresh)

Spec == Init /\ [][Next]_vars

\* Threads run what they started; users return their clients; a database that
\* is tried again and again is connected to in the end.
Fairness ==
  /\ WF_vars(InitPool) /\ WF_vars(OnReady)
  /\ \A a \in Acquirers :
       WF_vars(Release(a)) /\ WF_vars(\E c \in Clients : AcquireReplace(a, c))
  /\ WF_vars(\E c \in Clients : InitConnect(c))
  /\ \A c \in Clients :
       /\ WF_vars(ReleaseCheck(c)) /\ WF_vars(ReleaseReturn(c)) /\ WF_vars(BackoffOver(c))
       /\ WF_vars(Replace(c, c))
       /\ WF_vars(\E success \in BOOLEAN : InitConnected(c, success))
       /\ SF_vars(Reconnected(c, TRUE))
       /\ WF_vars(\E success \in BOOLEAN : Reconnected(c, success))

FairSpec == Spec /\ Fairness

----
\* Properties

\* acquire() and release() decide under one lock, so a client is never left idle
\* while an acquirer waits: the two queues are never both non-empty.
NoIdleWhileWaiting == waitq = << >> \/ idle = << >>

\* A client given to an acquirer is that acquirer's alone: no two hold it, and
\* it is neither idle nor on its way back through release().
ExclusiveUse ==
  \A a \in Acquirers :
    holds[a] # NoClient =>
      /\ where[holds[a]] = "out"
      /\ \A b \in Acquirers \ {a} : holds[b] # holds[a]

\* reconnecting_ counts exactly the replacements being connected or waiting out
\* a backoff, whichever threads are between replace()'s two critical sections.
ReconnectingExact ==
  alive => reconnecting = Cardinality({c \in Clients : where[c] \in {"connecting", "backoff"}})

\* The replace(0) calls that acquire() calls still have to make.
Owed == UNION {{a} \X (1 .. drops[a]) : a \in Acquirers}

\* Connections are neither leaked nor multiplied: those not yet started, those
\* in some stage of their life and those acquire() still owes a replacement make
\* up max_size_, except for what init() lost for good when nothing replaces it.
CapacityConserved ==
  connector /\ alive =>
    toStart + Cardinality({c \in Clients : where[c] # "none"}) + Cardinality(Owed)
      + (IF HealthCheck THEN 0 ELSE failed) = MaxSize

\* on_ready's report is final when it is made: every initial connection has been
\* tried by then, and the flag says whether all of them succeeded.
ReadyReportsInit ==
  ready # "no" =>
    /\ succeeded + failed = MaxSize /\ toStart = 0
    /\ \A c \in Clients : where[c] # "initConnecting"
    /\ (ready \in {"ok", "due_ok"}) = (failed = 0)

\* Nobody overtakes a waiter: with callbacks queued, a new acquire() is never
\* given a client, and only the first of the queue is.
NoBarging ==
  [][waitq # << >> =>
       \A a \in Acquirers : pc[a] # "holding" /\ pc'[a] = "holding" =>
         a = Head(waitq) \/ pc[a] = "replacing"]_vars

\* With a health check, a database that can be reached again and users that
\* return what they took, every queued acquirer is served, whatever broke.
WaiterServed == \A a \in Acquirers : pc[a] = "waiting" ~> pc[a] = "holding"

====
