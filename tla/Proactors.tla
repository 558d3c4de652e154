---- MODULE Proactors ----
\* The proactors: epoll and kqueue, io_uring, and completion ports.
EXTENDS Naturals, Sequences, FiniteSets

----
\* The epoll and the kqueue proactor: one context per descriptor with the
\* operations that wait on it, behind ctx_mutex_; the kernel's interest in the
\* descriptor follows the context. Any thread starts and removes, the loop's
\* thread runs run_once(). paKind says which of the two it is.

CONSTANTS PaFds, PaOps, PaMaxBatch

ASSUME PaAssumption ==
  /\ IsFiniteSet(PaFds)
  /\ PaOps \subseteq {"accept", "read", "wait_read", "connect", "write", "wait_write", "sendfile"}

VARIABLES paKind,      \* "epoll" or "kqueue"
          paCtx,       \* contexts_: the operations that wait on each descriptor
          paArmed,     \* the filters the kernel watches
          paEvents,    \* events the kernel returned and the loop has not looked at
          paBatch,     \* operations taken out of their contexts, still to run
          paRun        \* whether the caller of each operation waits for its callback

paVars == <<paKind, paCtx, paArmed, paEvents, paBatch, paRun>>

In == {"accept", "read", "wait_read"}
Filter(op) == IF op \in In THEN "in" ELSE "out"
PaKey == PaFds \X PaOps

\* The order in which one filter's operations are served.
Rank(op) ==
  CASE op \in {"accept", "connect"} -> 1
    [] op \in {"read", "write"} -> 2
    [] op = "wait_read" -> 3
    [] op = "wait_write" -> IF paKind = "epoll" THEN 4 ELSE 3
    [] op = "sendfile" -> IF paKind = "epoll" THEN 3 ELSE 4

PaInit ==
  /\ paKind \in {"epoll", "kqueue"}
  /\ paCtx = [f \in PaFds |-> {}]
  /\ paArmed = [f \in PaFds |-> {}]
  /\ paEvents = {}
  /\ paBatch = <<>>
  /\ paRun = [k \in PaKey |-> "idle"]

\* update_epoll(), update_kqueue(): watch what the context waits for
Interest(ops) == {Filter(op) : op \in ops}

\* async_read() and its like; an operation of the same kind is not started
\* twice. A connect() that ends at once calls back without the loop.
PaStart(f, op) ==
  /\ paRun[<<f, op>>] = "idle"
  /\ paCtx' = [paCtx EXCEPT ![f] = @ \cup {op}]
  /\ paArmed' = [paArmed EXCEPT ![f] = Interest(paCtx'[f])]
  /\ paRun' = [paRun EXCEPT ![<<f, op>>] = "started"]
  /\ UNCHANGED <<paKind, paEvents, paBatch>>

remove(f) ==
  /\ paCtx[f] # {}
  /\ paRun' = [k \in PaKey |-> IF k[1] = f /\ k[2] \in paCtx[f] THEN "idle" ELSE paRun[k]]
  /\ paCtx' = [paCtx EXCEPT ![f] = {}]
  /\ paArmed' = [paArmed EXCEPT ![f] = {}]
  /\ UNCHANGED <<paKind, paEvents, paBatch>>

\* epoll_wait(): EPOLLONESHOT disarms what it returns; kevent() leaves it armed
PaWait ==
  /\ paEvents = {} /\ paBatch = <<>>
  /\ \E ready \in SUBSET {e \in PaFds \X {"in", "out"} : e[2] \in paArmed[e[1]]} :
       /\ ready # {} /\ Cardinality(ready) <= PaMaxBatch
       /\ paEvents' = ready
       /\ paArmed' = [f \in PaFds |->
            IF paKind = "epoll" /\ \E e \in ready : e[1] = f THEN {} ELSE paArmed[f]]
  /\ UNCHANGED <<paKind, paCtx, paBatch, paRun>>

\* the operation an event is for, if any still waits
Served(f, filter) ==
  LET ops == {op \in paCtx[f] : Filter(op) = filter}
  IN  {op \in ops : \A other \in ops : Rank(op) <= Rank(other)}

\* the operations an event did not serve are not armed again
PaCollect_NoRearm ==
  /\ paKind = "epoll" /\ paEvents # {}
  /\ LET served == UNION {{<<e[1], op>> : op \in Served(e[1], e[2])} : e \in paEvents} IN
     /\ \E order \in [1 .. Cardinality(served) -> served] :
          /\ \A k \in served : \E i \in DOMAIN order : order[i] = k
          /\ paBatch' = order
     /\ paCtx' = [f \in PaFds |-> {op \in paCtx[f] : <<f, op>> \notin served}]
  /\ paEvents' = {}
  /\ UNCHANGED <<paKind, paArmed, paRun>>

\* epoll's run_once(): under the lock, every event takes its operation, and the
\* rest is armed again
PaCollect ==
  /\ paKind = "epoll" /\ paEvents # {}
  /\ LET served == UNION {{<<e[1], op>> : op \in Served(e[1], e[2])} : e \in paEvents} IN
     /\ \E order \in [1 .. Cardinality(served) -> served] :
          /\ \A k \in served : \E i \in DOMAIN order : order[i] = k
          /\ paBatch' = order
     /\ paCtx' = [f \in PaFds |-> {op \in paCtx[f] : <<f, op>> \notin served}]
  /\ paArmed' = [f \in PaFds |->
       IF \E e \in paEvents : e[1] = f THEN Interest(paCtx'[f]) ELSE paArmed[f]]
  /\ paEvents' = {}
  /\ UNCHANGED <<paKind, paRun>>

\* kqueue's handle_event(): one event at a time, looked up when its turn comes
handle_event ==
  /\ paKind = "kqueue" /\ paBatch = <<>>
  /\ \E e \in paEvents :
       LET f == e[1]  served == Served(f, e[2]) IN
       /\ paEvents' = paEvents \ {e}
       /\ paCtx' = [paCtx EXCEPT ![f] = @ \ served]
       /\ paArmed' = IF served = {} THEN paArmed ELSE [paArmed EXCEPT ![f] = Interest(paCtx'[f])]
       /\ paBatch' = IF served = {} THEN <<>> ELSE <<<<f, CHOOSE op \in served : TRUE>>>>
  /\ UNCHANGED <<paKind, paRun>>

\* the system call and the callback, without the lock
PaTrigger ==
  /\ paBatch # <<>>
  /\ paRun' = [paRun EXCEPT ![Head(paBatch)] = "idle"]
  /\ paBatch' = Tail(paBatch)
  /\ UNCHANGED <<paKind, paCtx, paArmed, paEvents>>

\* ~EpollProactor, ~KqueueProactor: the callbacks go, none runs
PaDestroy ==
  /\ paEvents = {} /\ paBatch = <<>> /\ \E f \in PaFds : paCtx[f] # {}
  /\ paRun' = [k \in PaKey |-> IF k[2] \in paCtx[k[1]] THEN "idle" ELSE paRun[k]]
  /\ paCtx' = [f \in PaFds |-> {}]
  /\ paArmed' = [f \in PaFds |-> {}]
  /\ UNCHANGED <<paKind, paEvents, paBatch>>

PaNext ==
  \/ \E f \in PaFds : (\E op \in PaOps : PaStart(f, op)) \/ remove(f)
  \/ PaWait
  \/ PaCollect
  \/ handle_event
  \/ PaTrigger
  \/ PaDestroy

\* ------------------------------------------------------------------------
\* No operation is lost between the threads that start and remove and the
\* loop: one that was started and neither ran nor was removed is in its
\* context, with the kernel watching for it or its event about to be looked
\* at, or among the collected ones; and nothing is collected twice.
WaitsAreArmed ==
  /\ \A f \in PaFds, op \in PaOps :
       paRun[<<f, op>>] = "started" =>
         \/ op \in paCtx[f] /\ (Filter(op) \in paArmed[f] \/ \E e \in paEvents : e[1] = f)
         \/ \E i \in DOMAIN paBatch : paBatch[i] = <<f, op>>
  /\ \A i, j \in DOMAIN paBatch : i # j => paBatch[i] # paBatch[j]

\* Mutants.

----
\* The io_uring proactor: only the loop's thread submits to the ring. Other
\* threads put their requests into pending_ and wake the loop with an eventfd;
\* remove() drops what is queued for a descriptor and cancels what is in the
\* kernel, from whatever thread it is called. A request stands for any kind.
\* get_sqe_safe() may find no place in the ring each time it is asked.

CONSTANTS IuFds, IuRequests

VARIABLES iuReq,        \* each request: its descriptor and where it is
          iuLoop,       \* the loop: before its first run_once(), draining, waiting, handling
          iuWakeFd,     \* wake_fd_ holds a count
          iuWakeArmed,  \* the read of wake_fd_: "no", "armed", "completed", or "failed"
          iuGen         \* how often each descriptor was closed

iuVars == <<iuReq, iuLoop, iuWakeFd, iuWakeArmed, iuGen>>

NoIo == [at |-> "none", fd |-> 0, gen |-> 0, told |-> TRUE]

IuInit ==
  /\ iuReq = [r \in IuRequests |-> NoIo]
  /\ iuLoop = "new"
  /\ iuWakeFd = FALSE
  /\ iuWakeArmed = "no"
  /\ iuGen = [f \in IuFds |-> 0]

Iu(at) == {r \in IuRequests : iuReq[r].at = at}
IuMove(rs, at) == [r \in IuRequests |-> IF r \in rs THEN [iuReq[r] EXCEPT !.at = at] ELSE iuReq[r]]

\* prepare_locked(): without a place in the ring the request goes, and with it its
\* callback
IuPrepared == {"kernel", "lost"}

\* submit() on the loop's own thread, from a callback
IuSubmitHere(r, f) ==
  /\ iuLoop = "handle" /\ iuReq[r].at = "none"
  /\ \E at \in IuPrepared :
       iuReq' = [iuReq EXCEPT ![r] = [at |-> at, fd |-> f, gen |-> iuGen[f], told |-> TRUE]]
  /\ UNCHANGED <<iuLoop, iuWakeFd, iuWakeArmed, iuGen>>

\* submit() elsewhere: queue the request, then write to the eventfd
submit(r, f) ==
  /\ iuReq[r].at = "none"
  /\ iuReq' = [iuReq EXCEPT ![r] = [at |-> "pending", fd |-> f, gen |-> iuGen[f], told |-> FALSE]]
  /\ UNCHANGED <<iuLoop, iuWakeFd, iuWakeArmed, iuGen>>

IuWrite(r) ==
  /\ ~iuReq[r].told
  /\ iuReq' = [iuReq EXCEPT ![r].told = TRUE]
  /\ iuWakeFd' = TRUE
  /\ UNCHANGED <<iuLoop, iuWakeArmed, iuGen>>

\* the eventfd's read completes once it has something to read
IuWakes ==
  /\ iuWakeArmed = "armed" /\ iuWakeFd
  /\ iuWakeArmed' = "completed" /\ iuWakeFd' = FALSE
  /\ UNCHANGED <<iuReq, iuLoop, iuGen>>

\* the first run_once() takes the ring and arms the wake-up, if there is room
IuOwn ==
  /\ iuLoop = "new"
  /\ iuWakeArmed' \in {"armed", "failed"} /\ iuLoop' = "top"
  /\ UNCHANGED <<iuReq, iuWakeFd, iuGen>>

\* drain_pending(): swap the queue under its mutex, then prepare the batch under
\* the other
drain_swap ==
  /\ iuLoop \in {"top", "bottom"}
  /\ iuReq' = IuMove(Iu("pending"), "batch")
  /\ iuLoop' = IF iuLoop = "top" THEN "drain" ELSE "drain_again"
  /\ UNCHANGED <<iuWakeFd, iuWakeArmed, iuGen>>

drain_pending ==
  /\ iuLoop \in {"drain", "drain_again"}
  /\ \E where \in [Iu("batch") -> IuPrepared] :
       iuReq' = [r \in IuRequests |->
         IF iuReq[r].at = "batch" THEN [iuReq[r] EXCEPT !.at = where[r]] ELSE iuReq[r]]
  /\ iuLoop' = IF iuLoop = "drain" THEN "wait" ELSE "top"
  /\ UNCHANGED <<iuWakeFd, iuWakeArmed, iuGen>>

\* the kernel completes a request
IuCompletes(r) ==
  /\ iuReq[r].at = "kernel"
  /\ iuReq' = [iuReq EXCEPT ![r].at = "completed"]
  /\ UNCHANGED <<iuLoop, iuWakeFd, iuWakeArmed, iuGen>>

\* io_uring_wait_cqe_timeout(): something completed, or the time is up
IuWait ==
  /\ iuLoop = "wait"
  /\ iuLoop' = IF Iu("completed") # {} \/ Iu("cancelled") # {} \/ iuWakeArmed = "completed"
               THEN "handle" ELSE "top"
  /\ UNCHANGED <<iuReq, iuWakeFd, iuWakeArmed, iuGen>>

\* one completion: its callback runs, unless it was cancelled
IuHandle ==
  /\ iuLoop = "handle"
  /\ \E r \in Iu("completed") \cup Iu("cancelled") :
       iuReq' = [iuReq EXCEPT ![r].at = IF iuReq[r].at = "completed" THEN "ran" ELSE "dropped"]
  /\ UNCHANGED <<iuLoop, iuWakeFd, iuWakeArmed, iuGen>>

\* the wake-up is not armed again
IuHandled_NotArmed ==
  /\ iuLoop = "handle"
  /\ Iu("completed") \cup Iu("cancelled") = {}
  /\ iuWakeArmed' = IF iuWakeArmed = "completed" THEN "no" ELSE iuWakeArmed
  /\ iuLoop' = "bottom"
  /\ UNCHANGED <<iuReq, iuWakeFd, iuGen>>

\* all seen: the wake-up is armed again if it was among them and there is room
IuHandled ==
  /\ iuLoop = "handle"
  /\ Iu("completed") \cup Iu("cancelled") = {}
  /\ iuWakeArmed' \in IF iuWakeArmed = "completed" THEN {"armed", "failed"} ELSE {iuWakeArmed}
  /\ iuLoop' = "bottom"
  /\ UNCHANGED <<iuReq, iuWakeFd, iuGen>>

\* remove(), and the close that follows it; the kernel is told if there is room
remove_pending(f) ==
  /\ \E r \in IuRequests : iuReq[r].fd = f /\ iuReq[r].gen = iuGen[f]
  /\ \E told \in BOOLEAN :
       iuReq' = [r \in IuRequests |->
         IF iuReq[r].fd # f THEN iuReq[r]
         ELSE IF iuReq[r].at = "pending" THEN [iuReq[r] EXCEPT !.at = "dropped"]
         ELSE IF iuReq[r].at = "kernel" /\ told THEN [iuReq[r] EXCEPT !.at = "cancelled"]
         ELSE iuReq[r]]
  /\ iuGen' = [iuGen EXCEPT ![f] = @ + 1]
  /\ UNCHANGED <<iuLoop, iuWakeFd, iuWakeArmed>>

\* teardown(): cancel everything, reap what comes back in time, leak the rest, and
\* release what was never submitted
teardown ==
  /\ iuLoop \in {"top", "new"}
  /\ \E late \in SUBSET (Iu("kernel") \cup Iu("cancelled")) :
       iuReq' = [r \in IuRequests |->
         IF r \in late THEN [iuReq[r] EXCEPT !.at = "leaked"]
         ELSE IF iuReq[r].at \in {"none", "ran", "lost"} THEN iuReq[r]
         ELSE [iuReq[r] EXCEPT !.at = "dropped"]]
  /\ iuLoop' = "gone"
  /\ UNCHANGED <<iuWakeFd, iuWakeArmed, iuGen>>

IuNext ==
  \/ \E r \in IuRequests, f \in IuFds : iuLoop # "gone" /\ (IuSubmitHere(r, f) \/ submit(r, f))
  \/ \E r \in IuRequests : IuWrite(r) \/ IuCompletes(r)
  \/ \E f \in IuFds : iuLoop # "gone" /\ remove_pending(f)
  \/ IuWakes
  \/ IuOwn
  \/ drain_swap
  \/ drain_pending
  \/ IuWait
  \/ IuHandle
  \/ IuHandled
  \/ teardown

\* ------------------------------------------------------------------------
\* A request another thread queued never depends on the timeout of the wait:
\* once its writer is through, the loop has yet to drain the queue, or a
\* wake-up is on its way, unless there was no room in the ring to arm it: it
\* is not tried again. And no request of a socket that was removed goes to
\* the kernel, which may have given the descriptor's number away, except the
\* ones drain_pending() had already taken out of the queue. In the end every
\* request ran, was dropped with its socket or the ring, found no room, or
\* was left to a kernel that did not give it back in time.
QueueWakesLoop ==
  /\ (iuLoop = "wait" /\ \E r \in Iu("pending") : iuReq[r].told) =>
       iuWakeArmed \in {"completed", "failed"} \/ (iuWakeArmed = "armed" /\ iuWakeFd)
  /\ \A r \in IuRequests :
       iuReq[r].at = "pending" => iuReq[r].gen = iuGen[iuReq[r].fd]
  /\ iuLoop = "gone" => IuRequests = UNION {Iu(at) : at \in {"none", "ran", "dropped", "lost", "leaked"}}

\* Mutants.

----
\* The completion-port proactor: every operation has a context of its own, in
\* pending_contexts_ of its descriptor until run_once() takes its completion.
\* An operation that cannot start is posted to the port as a failure, so its
\* callback still runs from run_once(), except for an accept.

CONSTANTS IcFds, IcOps

VARIABLES icOp,        \* each operation: its kind, its descriptor and who has it
          icPending,   \* pending_contexts_
          icCalls,     \* how often each callback ran
          icFreed,     \* how often each context was deleted
          icGone       \* the proactor was destroyed

icVars == <<icOp, icPending, icCalls, icFreed, icGone>>

IcNone == [kind |-> "none", fd |-> 0, at |-> "none"]

IcInit ==
  /\ icOp = [o \in IcOps |-> IcNone]
  /\ icPending = [f \in IcFds |-> {}]
  /\ icCalls = [o \in IcOps |-> 0]
  /\ icFreed = [o \in IcOps |-> 0]
  /\ icGone = FALSE

\* async_read, async_write, async_sendfile, async_connect, async_accept and
\* the waits made of empty reads and writes: registered first, then started.
IcRegister(o, f, kind) ==
  /\ icOp[o].at = "none"
  /\ icOp' = [icOp EXCEPT ![o] = [kind |-> kind, fd |-> f, at |-> "registered"]]
  /\ icPending' = [icPending EXCEPT ![f] = @ \cup {o}]
  /\ UNCHANGED <<icCalls, icFreed, icGone>>

\* The context leaves the table and is deleted; its callback never runs.
IcFree(o, why) ==
  /\ icOp' = [icOp EXCEPT ![o].at = why]
  /\ icPending' = [icPending EXCEPT ![icOp[o].fd] = @ \ {o}]
  /\ icFreed' = [icFreed EXCEPT ![o] = @ + 1]
  /\ UNCHANGED <<icCalls, icGone>>

\* the kernel takes it, or fail_later() posts it as a failure ...
IcStart(o) ==
  /\ icOp[o].at = "registered"
  /\ \E at \in IF icOp[o].kind = "io" THEN {"kernel", "port"} ELSE {"kernel"} :
       icOp' = [icOp EXCEPT ![o].at = at]
  /\ UNCHANGED <<icPending, icCalls, icFreed, icGone>>

\* ... and where PostQueuedCompletionStatus() fails too, the callback is lost
IcFailLater(o) == icOp[o].at = "registered" /\ icOp[o].kind = "io" /\ IcFree(o, "unposted")

\* AcceptEx() fails at once: the context goes, and with it the callback
IcAcceptRefused(o) == icOp[o].at = "registered" /\ icOp[o].kind = "accept" /\ IcFree(o, "refused")

\* the kernel posts the completion, good or bad
IcCompletes(o) ==
  /\ icOp[o].at = "kernel"
  /\ icOp' = [icOp EXCEPT ![o].at = "port"]
  /\ UNCHANGED <<icPending, icCalls, icFreed, icGone>>

\* the context stays in the table when its completion is taken
IcDequeue_Kept(o) ==
  /\ icOp[o].at = "port"
  /\ icOp' = [icOp EXCEPT ![o].at = "taken"]
  /\ UNCHANGED <<icPending, icCalls, icFreed, icGone>>

\* run_once(): the context leaves the table, then its callback runs
IcDequeue(o) ==
  /\ icOp[o].at = "port"
  /\ icPending' = [icPending EXCEPT ![icOp[o].fd] = @ \ {o}]
  /\ icOp' = [icOp EXCEPT ![o].at = "taken"]
  /\ UNCHANGED <<icCalls, icFreed, icGone>>

run_once(o) ==
  /\ icOp[o].at = "taken"
  /\ icCalls' = [icCalls EXCEPT ![o] = @ + 1]
  /\ icFreed' = [icFreed EXCEPT ![o] = @ + 1]
  /\ icOp' = [icOp EXCEPT ![o].at = "gone"]
  /\ UNCHANGED <<icPending, icGone>>

\* remove(): cancel; the completions are reaped as failures
cancel(f) ==
  /\ icPending[f] # {}
  /\ icOp' = [o \in IcOps |->
       IF o \in icPending[f] /\ icOp[o].at = "kernel" THEN [icOp[o] EXCEPT !.at = "port"] ELSE icOp[o]]
  /\ UNCHANGED <<icPending, icCalls, icFreed, icGone>>

\* ~IocpProactor, with no call in progress: whatever is registered is deleted, also
\* what the kernel or the port still has
IcDestroy ==
  /\ \A o \in IcOps : icOp[o].at \notin {"taken", "registered"}
  /\ icGone' = TRUE
  /\ icFreed' = [o \in IcOps |-> icFreed[o] + IF \E f \in IcFds : o \in icPending[f] THEN 1 ELSE 0]
  /\ icPending' = [f \in IcFds |-> {}]
  /\ UNCHANGED <<icOp, icCalls>>

IcNext ==
  /\ ~icGone
  /\ \/ \E o \in IcOps, f \in IcFds, kind \in {"io", "accept"} : IcRegister(o, f, kind)
     \/ \E o \in IcOps : \/ IcStart(o) \/ IcFailLater(o) \/ IcAcceptRefused(o)
                         \/ IcCompletes(o) \/ IcDequeue(o) \/ run_once(o)
     \/ \E f \in IcFds : cancel(f)
     \/ IcDestroy

\* ------------------------------------------------------------------------
\* A context is deleted at most once, and while the proactor lives not before
\* the kernel and the port are done with it; its callback runs at most once,
\* and before it is deleted, unless the operation could be neither started
\* nor posted, or was an accept that AcceptEx refused. The destructor leaves
\* no context behind: it deletes what is outstanding with no callback, also
\* what the kernel or the port has (see README).
ContextsFreedOnce ==
  \A o \in IcOps :
    /\ icCalls[o] <= 1 /\ icFreed[o] <= 1
    /\ ~icGone => (icFreed[o] = 1 <=> icOp[o].at \in {"gone", "unposted", "refused"})
    /\ icFreed[o] = 1 => \A f \in IcFds : o \notin icPending[f]
    /\ icCalls[o] = 1 <=> icOp[o].at = "gone"
    /\ icGone => icOp[o].at = "none" \/ icFreed[o] = 1

\* Mutants.
====
