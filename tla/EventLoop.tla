---- MODULE EventLoop ----
\* orbit::server::EventLoop (src/server/EventLoop.cpp) with the connection
\* table of orbit::server::ConnectionManager: the event loops of one App,
\* each with its own SO_REUSEPORT listener, that accept connections under
\* one max_connections budget, pause and resume accepting, and drain on
\* shutdown.
\*
\* A loop thread steps through run(): poll, accept callback, resume, drain,
\* exit check. A step reads or writes one shared location (the budget, the
\* connection table, a flag set by another thread); everything else the
\* thread does up to the next such access is part of the step. Worker
\* threads remove connections at any moment, and any thread may call
\* request_shutdown() or stop().
EXTENDS Naturals, FiniteSets

CONSTANTS
  Loops,           \* event_loops_
  NoLoop,          \* the owner of a client that is away
  Clients,         \* peers, each with at most one connection at a time
  MaxConnections,  \* max_connections_; 0 is no limit
  AcceptBatch,     \* connections taken per readiness event (64 in the code)
  Stoppable,       \* bound: the loops that are told to shut down or stop
  MaxFdErrors      \* bound: how often accept() fails with EMFILE or ENFILE

ASSUME LoopAssumption ==
  /\ IsFiniteSet(Loops) /\ Loops # {} /\ NoLoop \notin Loops
  /\ IsFiniteSet(Clients)
  /\ MaxConnections \in Nat
  /\ AcceptBatch \in Nat \ {0}
  /\ Stoppable \subseteq Loops
  /\ MaxFdErrors \in Nat

VARIABLES
  pc,         \* where each loop thread is in run()
  taken,      \* i, connections taken in this accept callback
  seen,       \* open, the value reserve_slot() last read
  armed,      \* whether the proactor watches the listener for this loop
  paused,     \* accept_paused_
  backoff,    \* whether accept_resume_at_ is still ahead
  accepting,  \* is_accepting_ (draining_ is its negation)
  running,    \* is_running_
  requested,  \* shutdown_requested_
  deadline,   \* shutdown_deadline_: its initial 0, "ahead" of now or "over"
  stopped,    \* whether stop() was called
  slots,      \* *shared_open_
  stage,      \* what each client's connection is going through (Stages)
  owner,      \* the loop whose listener the kernel chose for the client
  fdErrors    \* accept() failures so far (bounded by MaxFdErrors)

vars == <<pc, taken, seen, armed, paused, backoff, accepting, running, requested,
          deadline, stopped, slots, stage, owner, fdErrors>>
acceptVars == <<taken, seen, armed, paused, backoff, fdErrors>>
flagVars == <<accepting, running, requested, deadline, stopped>>

\* "queued" in the listener's backlog, in the connection table with no request
\* in flight ("idle") or with one ("busy"), "removing": erased from the table by
\* remove_connection(), on_removed_ not called yet.
Stages == {"away", "queued", "idle", "busy", "removing"}

Steps == {"start", "check", "poll", "load", "cas", "accept", "giveBack",
          "giveBackNoFd", "limit", "rearm", "resume", "drain", "deadline",
          "exit", "ended"}

\* share_connection_limit() is called for several loops with a limit.
Shared == Cardinality(Loops) > 1 /\ MaxConnections > 0

\* get_connection_count(): what a loop's connection table holds.
Table(l) == {c \in Clients : stage[c] \in {"idle", "busy"} /\ owner[c] = l}

Backlog(l) == {c \in Clients : stage[c] = "queued" /\ owner[c] = l}

TypeOK ==
  /\ pc \in [Loops -> Steps]
  /\ taken \in [Loops -> 0 .. AcceptBatch]
  /\ seen \in [Loops -> Nat]
  /\ armed \in [Loops -> BOOLEAN]
  /\ paused \in [Loops -> BOOLEAN]
  /\ backoff \in [Loops -> BOOLEAN]
  /\ accepting \in [Loops -> BOOLEAN]
  /\ running \in [Loops -> BOOLEAN]
  /\ requested \in [Loops -> BOOLEAN]
  /\ deadline \in [Loops -> {"unset", "ahead", "over"}]
  /\ stopped \in [Loops -> BOOLEAN]
  /\ slots \in Nat
  /\ stage \in [Clients -> Stages]
  /\ owner \in [Clients -> Loops \cup {NoLoop}]
  /\ fdErrors \in 0 .. MaxFdErrors

Init ==
  /\ pc = [l \in Loops |-> "start"]
  /\ taken = [l \in Loops |-> 0]
  /\ seen = [l \in Loops |-> 0]
  /\ armed = [l \in Loops |-> FALSE]
  /\ paused = [l \in Loops |-> FALSE]
  /\ backoff = [l \in Loops |-> FALSE]
  /\ accepting = [l \in Loops |-> TRUE]
  /\ running = [l \in Loops |-> TRUE]
  /\ requested = [l \in Loops |-> FALSE]
  /\ deadline = [l \in Loops |-> "unset"]
  /\ stopped = [l \in Loops |-> FALSE]
  /\ slots = 0
  /\ stage = [c \in Clients |-> "away"]
  /\ owner = [c \in Clients |-> NoLoop]
  /\ fdErrors = 0

Goto(l, step) == pc' = [pc EXCEPT ![l] = step]

At(l, step) == pc[l] = step

----
\* run()

\* do_accept(): a read wait (shared limit) or an accept on the listener.
DoAccept(l) == armed' = [armed EXCEPT ![l] = TRUE]

Start(l) ==
  /\ At(l, "start")
  /\ IF running[l] /\ accepting[l] THEN DoAccept(l) ELSE UNCHANGED armed
  /\ Goto(l, "check")
  /\ UNCHANGED <<taken, seen, paused, backoff, fdErrors, flagVars, slots, stage, owner>>

\* while (is_running_)
Check(l) ==
  /\ At(l, "check")
  /\ Goto(l, IF running[l] THEN "poll" ELSE "ended")
  /\ UNCHANGED <<acceptVars, flagVars, slots, stage, owner>>

\* The accept callback returns (or reaches its last line): its locals are gone.
EndCallback(l, step) ==
  /\ taken' = [taken EXCEPT ![l] = 0]
  /\ seen' = [seen EXCEPT ![l] = 0]
  /\ Goto(l, step)

\* Where the accept callback starts an iteration: with a shared limit it first
\* reserves a slot.
NextAccept == IF Shared THEN "load" ELSE "accept"

\* run_once() reports the listener readable: the one-shot wait is used up.
PollReadable(l) ==
  /\ At(l, "poll")
  /\ armed[l] /\ Backlog(l) # {}
  /\ armed' = [armed EXCEPT ![l] = FALSE]
  /\ Goto(l, NextAccept)
  /\ UNCHANGED <<taken, seen, paused, backoff, fdErrors, flagVars, slots, stage, owner>>

\* run_once() times out or has only I/O of connections to report.
PollOther(l) ==
  /\ At(l, "poll")
  /\ ~(armed[l] /\ Backlog(l) # {})
  /\ Goto(l, "resume")
  /\ UNCHANGED <<acceptVars, flagVars, slots, stage, owner>>

\* reserve_slot(): shared_open_->load().
LoadSlots(l) ==
  /\ At(l, "load")
  /\ seen' = [seen EXCEPT ![l] = slots]
  /\ Goto(l, "cas")
  /\ UNCHANGED <<taken, armed, paused, backoff, fdErrors, flagVars, slots, stage, owner>>

\* Mutant: the slot is taken on the value read before, without compare-exchange.
CasSlots_Stale(l) ==
  /\ At(l, "cas")
  /\ seen[l] < MaxConnections
  /\ slots' = slots + 1
  /\ seen' = [seen EXCEPT ![l] = 0]
  /\ Goto(l, "accept")
  /\ UNCHANGED <<taken, armed, paused, backoff, fdErrors, flagVars, stage, owner>>

\* One round of reserve_slot()'s loop: no room as far as it knows, a slot taken,
\* or the compare-exchange failed and read the current value.
CasSlots(l) ==
  /\ At(l, "cas")
  /\ \/ /\ seen[l] >= MaxConnections
        /\ paused' = [paused EXCEPT ![l] = TRUE]
        /\ backoff' = [backoff EXCEPT ![l] = FALSE]
        /\ EndCallback(l, "resume")
        /\ UNCHANGED slots
     \/ /\ seen[l] < MaxConnections /\ seen[l] = slots
        /\ slots' = slots + 1
        /\ seen' = [seen EXCEPT ![l] = 0]
        /\ Goto(l, "accept")
        /\ UNCHANGED <<taken, paused, backoff>>
     \/ /\ seen[l] < MaxConnections /\ seen[l] # slots
        /\ seen' = [seen EXCEPT ![l] = slots]
        /\ UNCHANGED <<pc, taken, slots, paused, backoff>>
  /\ UNCHANGED <<armed, fdErrors, flagVars, stage, owner>>

\* accept() returns a connection: on_accepted() puts it in the table.
AcceptClient(l, c) ==
  /\ At(l, "accept")
  /\ c \in Backlog(l)
  /\ stage' = [stage EXCEPT ![c] = "idle"]
  /\ Goto(l, "limit")
  /\ UNCHANGED <<acceptVars, flagVars, slots, owner>>

\* accept() finds the queue drained.
AcceptNone(l) ==
  /\ At(l, "accept")
  /\ Backlog(l) = {}
  /\ Goto(l, IF Shared THEN "giveBack" ELSE "rearm")
  /\ UNCHANGED <<acceptVars, flagVars, slots, stage, owner>>

\* pause_accepting(now + 100 ms), and the callback returns.
PauseForFd(l) ==
  /\ paused' = [paused EXCEPT ![l] = TRUE]
  /\ backoff' = [backoff EXCEPT ![l] = TRUE]
  /\ EndCallback(l, "resume")

\* accept() fails for want of descriptors (EMFILE, ENFILE).
AcceptNoFd(l) ==
  /\ At(l, "accept")
  /\ Backlog(l) # {}
  /\ fdErrors < MaxFdErrors
  /\ fdErrors' = fdErrors + 1
  /\ IF Shared THEN Goto(l, "giveBackNoFd") /\ UNCHANGED <<taken, seen, paused, backoff>>
               ELSE PauseForFd(l)
  /\ UNCHANGED <<armed, flagVars, slots, stage, owner>>

\* Mutant: the failed accept keeps its slot.
GiveBack_Kept(l) ==
  /\ At(l, "giveBack")
  /\ Goto(l, "rearm")
  /\ UNCHANGED <<acceptVars, flagVars, slots, stage, owner>>

\* shared_open_->fetch_sub(1) after an accept that found nothing.
GiveBack(l) ==
  /\ At(l, "giveBack")
  /\ slots' = slots - 1
  /\ Goto(l, "rearm")
  /\ UNCHANGED <<acceptVars, flagVars, stage, owner>>

\* shared_open_->fetch_sub(1) after an accept that had no descriptor.
GiveBackNoFd(l) ==
  /\ At(l, "giveBackNoFd")
  /\ slots' = slots - 1
  /\ PauseForFd(l)
  /\ UNCHANGED <<armed, fdErrors, flagVars, stage, owner>>

\* at_connection_limit()
AtLimit(l) ==
  /\ MaxConnections > 0
  /\ (IF Shared THEN slots ELSE Cardinality(Table(l))) >= MaxConnections

\* The end of on_accepted() and of the iteration of the accept loop.
Limit(l) ==
  /\ At(l, "limit")
  /\ taken' = [taken EXCEPT ![l] = @ + 1]
  /\ IF AtLimit(l)
       THEN /\ paused' = [paused EXCEPT ![l] = TRUE]
            /\ backoff' = [backoff EXCEPT ![l] = FALSE]
            /\ Goto(l, "rearm")
       ELSE /\ Goto(l, IF taken[l] + 1 < AcceptBatch THEN NextAccept ELSE "rearm")
            /\ UNCHANGED <<paused, backoff>>
  /\ UNCHANGED <<seen, armed, fdErrors, flagVars, slots, stage, owner>>

\* Mutant: the callback re-arms only when it took a full batch.
Rearm_FullBatch(l) ==
  /\ At(l, "rearm")
  /\ IF accepting[l] /\ ~paused[l] /\ taken[l] = AcceptBatch
       THEN DoAccept(l) ELSE UNCHANGED armed
  /\ EndCallback(l, "resume")
  /\ UNCHANGED <<paused, backoff, fdErrors, flagVars, slots, stage, owner>>

\* The callback's last line: if (is_accepting_ && !accept_paused_) do_accept().
Rearm(l) ==
  /\ At(l, "rearm")
  /\ IF accepting[l] /\ ~paused[l] THEN DoAccept(l) ELSE UNCHANGED armed
  /\ EndCallback(l, "resume")
  /\ UNCHANGED <<paused, backoff, fdErrors, flagVars, slots, stage, owner>>

\* Mutant: resumes without re-arming the listener.
Resume_Unarmed(l) ==
  /\ At(l, "resume")
  /\ IF paused[l] /\ accepting[l] /\ ~backoff[l] /\ ~AtLimit(l)
       THEN paused' = [paused EXCEPT ![l] = FALSE]
       ELSE UNCHANGED paused
  /\ Goto(l, "drain")
  /\ UNCHANGED <<taken, seen, armed, backoff, fdErrors, flagVars, slots, stage, owner>>

\* Mutant: resumes whether or not the listener was closed meanwhile.
Resume_Closed(l) ==
  /\ At(l, "resume")
  /\ IF paused[l] /\ ~backoff[l] /\ ~AtLimit(l)
       THEN /\ paused' = [paused EXCEPT ![l] = FALSE]
            /\ DoAccept(l)
       ELSE UNCHANGED <<paused, armed>>
  /\ Goto(l, "drain")
  /\ UNCHANGED <<taken, seen, backoff, fdErrors, flagVars, slots, stage, owner>>

\* resume_accepting_if_ready()
Resume(l) ==
  /\ At(l, "resume")
  /\ IF paused[l] /\ accepting[l] /\ ~backoff[l] /\ ~AtLimit(l)
       THEN /\ paused' = [paused EXCEPT ![l] = FALSE]
            /\ DoAccept(l)
       ELSE UNCHANGED <<paused, armed>>
  /\ Goto(l, "drain")
  /\ UNCHANGED <<taken, seen, backoff, fdErrors, flagVars, slots, stage, owner>>

\* notify_shutdown(): the connections that close at once. The others answer the
\* request they are busy with first.
Drained(l) == {c \in Table(l) : stage[c] = "idle"}

\* stop_accepting() takes the listener out of the proactor and closes it, which
\* refuses what is in its backlog; notify_shutdown() closes idle connections.
DrainedStage(l) ==
  [c \in Clients |->
     IF c \in Drained(l) THEN "removing"
     ELSE IF c \in Backlog(l) THEN "away" ELSE stage[c]]

\* drain_step() up to its deadline check, when a shutdown was requested.
DrainStep(l) ==
  /\ At(l, "drain")
  /\ requested[l]
  /\ accepting' = [accepting EXCEPT ![l] = FALSE]
  /\ armed' = [armed EXCEPT ![l] = FALSE]
  /\ stage' = DrainedStage(l)
  /\ owner' = [c \in Clients |-> IF c \in Backlog(l) THEN NoLoop ELSE owner[c]]
  /\ Goto(l, "deadline")
  /\ UNCHANGED <<taken, seen, paused, backoff, fdErrors, running, requested,
                 deadline, stopped, slots>>

NoDrain(l) ==
  /\ At(l, "drain")
  /\ ~requested[l]
  /\ Goto(l, "exit")
  /\ UNCHANGED <<acceptVars, flagVars, slots, stage, owner>>

\* now >= deadline; the initial 0 is long over.
DeadlineOver(l) == deadline[l] # "ahead"

\* The rest of drain_step().
DeadlineCheck(l) ==
  /\ At(l, "deadline")
  /\ running' = [running EXCEPT ![l] = @ /\ ~(Table(l) # {} /\ DeadlineOver(l))]
  /\ Goto(l, "exit")
  /\ UNCHANGED <<acceptVars, accepting, requested, deadline, stopped, slots, stage, owner>>

\* Mutant: never leaves by itself.
ExitCheck_Never(l) ==
  /\ At(l, "exit")
  /\ Goto(l, "check")
  /\ UNCHANGED <<acceptVars, flagVars, slots, stage, owner>>

\* if (!is_accepting_ && get_connection_count() == 0) is_running_ = false.
ExitCheck(l) ==
  /\ At(l, "exit")
  /\ running' = [running EXCEPT ![l] = @ /\ ~(~accepting[l] /\ Table(l) = {})]
  /\ Goto(l, "check")
  /\ UNCHANGED <<acceptVars, accepting, requested, deadline, stopped, slots, stage, owner>>

LoopStep(l) ==
  \/ Start(l) \/ Check(l) \/ PollReadable(l) \/ PollOther(l)
  \/ LoadSlots(l) \/ CasSlots(l)
  \/ \E c \in Clients : AcceptClient(l, c)
  \/ AcceptNone(l) \/ AcceptNoFd(l) \/ GiveBack(l) \/ GiveBackNoFd(l)
  \/ Limit(l) \/ Rearm(l) \/ Resume(l)
  \/ DrainStep(l) \/ NoDrain(l) \/ DeadlineCheck(l) \/ ExitCheck(l)

----
\* Connections and clients

\* A client connects; the kernel hands it to one of the open listeners.
Connect(c, l) ==
  /\ stage[c] = "away"
  /\ accepting[l]
  /\ stage' = [stage EXCEPT ![c] = "queued"]
  /\ owner' = [owner EXCEPT ![c] = l]
  /\ UNCHANGED <<pc, acceptVars, flagVars, slots>>

\* The loop reads a request of an idle connection and hands it to a worker.
Request(c) ==
  /\ stage[c] = "idle"
  /\ At(owner[c], "poll")
  /\ stage' = [stage EXCEPT ![c] = "busy"]
  /\ UNCHANGED <<pc, acceptVars, flagVars, slots, owner>>

\* The response is complete and the connection is kept alive.
Respond(c) ==
  /\ stage[c] = "busy"
  /\ stage' = [stage EXCEPT ![c] = "idle"]
  /\ UNCHANGED <<pc, acceptVars, flagVars, slots, owner>>

\* remove_connection(), by any thread: a timeout, the peer leaving, the last
\* response. The connection leaves the table under map_mutex_ ...
Remove(c) ==
  /\ stage[c] \in {"idle", "busy"}
  /\ stage' = [stage EXCEPT ![c] = "removing"]
  /\ UNCHANGED <<pc, acceptVars, flagVars, slots, owner>>

\* ... and on_removed_() gives its slot back.
Removed(c) ==
  /\ stage[c] = "removing"
  /\ stage' = [stage EXCEPT ![c] = "away"]
  /\ owner' = [owner EXCEPT ![c] = NoLoop]
  /\ slots' = IF Shared THEN slots - 1 ELSE slots
  /\ UNCHANGED <<pc, acceptVars, flagVars>>

----
\* Calls from other threads, and time

\* request_shutdown() stores the deadline ...
SetDeadline(l) ==
  /\ deadline[l] = "unset"
  /\ deadline' = [deadline EXCEPT ![l] = "ahead"]
  /\ UNCHANGED <<pc, acceptVars, accepting, running, requested, stopped, slots, stage, owner>>

\* Mutant: announced without waiting for the deadline to be stored.
RequestShutdown_First(l) ==
  /\ ~requested[l]
  /\ requested' = [requested EXCEPT ![l] = TRUE]
  /\ UNCHANGED <<pc, acceptVars, accepting, running, deadline, stopped, slots, stage, owner>>

\* ... and then sets shutdown_requested_.
RequestShutdown(l) ==
  /\ deadline[l] # "unset" /\ ~requested[l]
  /\ requested' = [requested EXCEPT ![l] = TRUE]
  /\ UNCHANGED <<pc, acceptVars, accepting, running, deadline, stopped, slots, stage, owner>>

\* stop()
Stop(l) ==
  /\ ~stopped[l]
  /\ stopped' = [stopped EXCEPT ![l] = TRUE]
  /\ running' = [running EXCEPT ![l] = FALSE]
  /\ UNCHANGED <<pc, acceptVars, accepting, requested, deadline, slots, stage, owner>>

\* The 100 ms after running out of descriptors pass.
BackoffPasses(l) ==
  /\ backoff[l]
  /\ backoff' = [backoff EXCEPT ![l] = FALSE]
  /\ UNCHANGED <<pc, taken, seen, armed, paused, fdErrors, flagVars, slots, stage, owner>>

DeadlinePasses(l) ==
  /\ deadline[l] = "ahead"
  /\ deadline' = [deadline EXCEPT ![l] = "over"]
  /\ UNCHANGED <<pc, acceptVars, accepting, running, requested, stopped, slots, stage, owner>>

Next ==
  \/ \E l \in Loops :
       \/ LoopStep(l)
       \/ l \in Stoppable /\ (SetDeadline(l) \/ RequestShutdown(l) \/ Stop(l))
       \/ BackoffPasses(l) \/ DeadlinePasses(l)
       \/ \E c \in Clients : Connect(c, l)
  \/ \E c \in Clients : Request(c) \/ Respond(c) \/ Remove(c) \/ Removed(c)

Spec == Init /\ [][Next]_vars

\* The threads run, clocks advance, and a call of request_shutdown() or
\* remove_connection() that has begun finishes. The kernel's backlog is a queue,
\* so a client in it is not passed over for ever. Nothing is assumed of clients
\* and request handlers: a busy connection may stay busy for ever.
Fairness ==
  /\ \A l \in Loops :
       /\ WF_vars(LoopStep(l))
       /\ WF_vars(RequestShutdown(l))
       /\ WF_vars(BackoffPasses(l)) /\ WF_vars(DeadlinePasses(l))
       /\ \A c \in Clients : SF_vars(AcceptClient(l, c))
  /\ \A c \in Clients : WF_vars(Removed(c))

FairSpec == Spec /\ Fairness

----
\* Properties

\* A loop that has reserved a slot and not yet used it or given it back.
Reserving == {l \in Loops : Shared /\ pc[l] \in {"accept", "giveBack", "giveBackNoFd"}}

\* Connections that count against the shared limit.
Counted == {c \in Clients : stage[c] \in {"idle", "busy", "removing"}}

\* share_connection_limit: the shared counter is exactly the connections open or
\* being removed plus the reservations in progress, whatever the loops and the
\* threads that remove connections do at the same time. A slot that leaks would
\* lower the limit for good, one given back twice would wrap the size_t around.
SlotsExact ==
  Shared => slots = Cardinality(Counted) + Cardinality(Reserving)

\* What the tables of all loops hold.
AllConnections == {c \in Clients : stage[c] \in {"idle", "busy"}}

\* max_connections: the loops of an App together never hold more connections
\* than the limit ("concurrent loops cannot together exceed the limit").
LimitKept ==
  MaxConnections > 0 /\ (Shared \/ Cardinality(Loops) = 1)
    => Cardinality(AllConnections) <= MaxConnections

\* do_accept / pause_accepting: a loop about to poll that still accepts either
\* watches its listener or is paused, in which case resume_accepting_if_ready()
\* looks again. Otherwise its listener would be deaf for good.
ListenerWatched ==
  \A l \in Loops : At(l, "poll") /\ accepting[l] => armed[l] \/ paused[l]

\* stop_accepting: a loop that has closed its listener neither watches nor
\* accepts on it again, although resume_accepting_if_ready() still runs.
ClosedStaysClosed ==
  \A l \in Loops : ~accepting[l] =>
     /\ ~armed[l]
     /\ pc[l] \notin {"load", "cas", "accept", "limit", "rearm"}

\* drain_step / run: a loop that ends with a connection in its table does so
\* because the deadline of the shutdown had passed or because of stop(); an
\* in-flight request is never cut off earlier.
GracefulExit ==
  \A l \in Loops : At(l, "ended") /\ Table(l) # {} => stopped[l] \/ deadline[l] = "over"

\* request_shutdown: run() returns after a shutdown, even if a handler never
\* answers and clients keep their connections open.
ShutdownEnds ==
  \A l \in Loops : requested[l] ~> At(l, "ended")

\* wait_and_accept / resume_accepting_if_ready: a client is not left in the
\* backlog of a loop that accepts while the App holds fewer connections than its
\* limit. (At the limit the loops compete for a slot that falls free, and
\* nothing in the code keeps one of them from losing every time.)
BacklogServed ==
  \A l \in Loops, c \in Clients :
    ~ <>[](/\ c \in Backlog(l)
           /\ accepting[l] /\ running[l]
           /\ MaxConnections > 0 => Cardinality(AllConnections) < MaxConnections)

====
