---- MODULE ConnectionTimers ----
\* The timeouts of connections: TimerManager (src/server/TimerManager.cpp),
\* the connections that arm it (Connection::arm_timer, ~Connection), and
\* the event loop that sleeps until the next timeout and removes, by its
\* descriptor number, the connection whose timer fired.
\*
\* Time is kept relative: an entry holds the time left until it expires.
\* Timer ids are never used twice in the code; here an id is fresh when
\* nobody remembers it. The critical sections of TimerManager are one step
\* each; arm_timer() takes two of them.
EXTENDS Integers, FiniteSets

CONSTANTS
  Conns,     \* connection objects
  Fds,       \* descriptor numbers
  Ids,       \* bound: timer ids remembered at a time
  Timeouts,  \* the timeouts connections are armed with, in ticks
  Cap,       \* the longest wait of the event loop (200 ms in the code)
  Slack,     \* kCompactionSlack
  NoConn,    \* no connection
  NoId       \* current_timer_id_ == 0

ASSUME TimersAssumption ==
  /\ IsFiniteSet(Conns) /\ IsFiniteSet(Fds) /\ Fds # {} /\ IsFiniteSet(Ids)
  /\ Timeouts \subseteq Nat \ {0} /\ Timeouts # {}
  /\ Cap \in Nat \ {0} /\ Slack \in Nat
  /\ NoConn \notin Conns /\ NoId \notin Ids

VARIABLES
  live,     \* live_: the timers that count
  queue,    \* timers_: the entries of the deadline queue
  table,    \* connections_ of the ConnectionManager, by descriptor
  ctStage,    \* the life of each connection object
  fdOf,     \* the descriptor of each connection that has one
  timer,    \* current_timer_id_ of each connection
  arming,   \* connections inside arm_timer(), their old timer cancelled
  loop,     \* where the event loop is
  sleep,    \* how long the loop's wait still lasts at most
  firing,   \* expired_fds, with the timers they come from
  fired     \* history: the fired timers some connection still remembers

ctVars == <<live, queue, table, ctStage, fdOf, timer, arming, loop, sleep, firing, fired>>
timerVars == <<live, queue>>
connVars == <<table, ctStage, fdOf>>
loopVars == <<loop, sleep, firing>>

Entries == [id : Ids, fd : Fds, conn : Conns, left : Int]

CtTypeOK ==
  /\ live \subseteq Entries /\ queue \subseteq Entries /\ firing \subseteq Entries
  /\ table \in [Fds -> Conns \cup {NoConn}]
  /\ ctStage \in [Conns -> {"none", "open", "removed"}]
  /\ fdOf \in [Conns -> Fds]
  /\ timer \in [Conns -> Ids \cup {NoId}]
  /\ arming \subseteq Conns
  /\ loop \in {"next", "wait", "expire", "fire"}
  /\ sleep \in Nat
  /\ fired \subseteq Ids

CtInit ==
  /\ live = {} /\ queue = {} /\ firing = {} /\ fired = {}
  /\ table = [f \in Fds |-> NoConn]
  /\ ctStage = [c \in Conns |-> "none"]
  /\ fdOf \in [Conns -> {CHOOSE f \in Fds : TRUE}]
  /\ timer = [c \in Conns |-> NoId]
  /\ arming = {}
  /\ loop = "next" /\ sleep = 0

IdsOf(entries) == {e.id : e \in entries}
Objects == {c \in Conns : ctStage[c] # "none"}
Remembered == IdsOf(live \cup queue \cup firing) \cup {timer[c] : c \in Conns}

----
\* TimerManager

\* compact_if_needed_locked()
Compacted(entries, alive) ==
  IF Cardinality(entries) <= 2 * Cardinality(alive) + Slack THEN entries ELSE alive

\* Mutant: takes an id nobody's timer has at the moment.
FreshIds_NotLive == Ids \ IdsOf(live)

\* ++next_timer_id_
FreshIds == Ids \ Remembered

\* add_timer()
AddTimer(id, c, f, timeout) ==
  LET entry == [id |-> id, fd |-> f, conn |-> c, left |-> timeout]
  IN  /\ live' = live \cup {entry}
      /\ queue' = Compacted(queue \cup {entry}, live')

\* cancel_timer()
CancelTimer(id) ==
  /\ live' = {e \in live : e.id # id}
  /\ queue' = Compacted(queue, live')

Earlier(d, e) == d.left < e.left

\* What drop_cancelled_front_locked() may leave of the queue: it drops cancelled
\* entries that are ahead of every live one, and maybe ones that tie with the
\* first.
FrontDropped ==
  {q \in SUBSET queue :
     /\ live \cap queue \subseteq q
     /\ \A d \in queue \ q : \A e \in live \cap queue : ~Earlier(e, d)
     /\ \A d \in q \ live : \E e \in live \cap queue : ~Earlier(d, e)}

----
\* EventLoop::run()

\* The time until the first entry of q expires, at most the cap.
WaitFor(q) ==
  CHOOSE t \in 0 .. Cap :
    /\ t = Cap \/ \E e \in q : e.left <= t
    /\ \A e \in q : t <= e.left \/ t = 0

\* Mutant: the wait is not capped.
NextTimeout_Uncapped ==
  /\ loop = "next"
  /\ \E q \in FrontDropped :
       /\ queue' = q
       /\ IF q = {} THEN sleep' = Cap + 1
          ELSE \E e \in q : /\ \A d \in q : ~Earlier(d, e)
                            /\ sleep' = IF e.left < 0 THEN 0 ELSE e.left
  /\ loop' = "wait"
  /\ UNCHANGED <<live, connVars, timer, arming, firing, fired>>

\* get_next_timeout(), and the wait begins.
NextTimeout ==
  /\ loop = "next"
  /\ \E q \in FrontDropped : queue' = q /\ sleep' = WaitFor(q)
  /\ loop' = "wait"
  /\ UNCHANGED <<live, connVars, timer, arming, firing, fired>>

\* A connection is accepted while the loop handles events: it enters the table
\* and is armed with its first timeout. The kernel gives it any free descriptor.
Accept(c, f, id, timeout) ==
  /\ loop = "wait" /\ ctStage[c] = "none"
  /\ f \notin {fdOf[d] : d \in Objects}
  /\ id \in FreshIds
  /\ ctStage' = [ctStage EXCEPT ![c] = "open"]
  /\ fdOf' = [fdOf EXCEPT ![c] = f]
  /\ table' = [table EXCEPT ![f] = c]
  /\ timer' = [timer EXCEPT ![c] = id]
  /\ AddTimer(id, c, f, timeout)
  /\ UNCHANGED <<arming, loopVars, fired>>

\* The wait ends, on an event or when its time is over.
WaitEnds ==
  /\ loop = "wait"
  /\ loop' = "expire"
  /\ sleep' = 0
  /\ UNCHANGED <<timerVars, connVars, timer, arming, firing, fired>>

\* handle_expired_timers(), under the lock: every entry whose time has come is
\* popped, those that are live are to fire.
Expire ==
  /\ loop = "expire"
  /\ LET over == {e \in queue : e.left <= 0}
     IN  /\ queue' = queue \ over
         /\ live' = {e \in live : e.id \notin IdsOf(over)}
         /\ firing' = {e \in live : e.id \in IdsOf(over)}
         /\ fired' = fired \cup IdsOf(firing')
  /\ loop' = "fire"
  /\ UNCHANGED <<connVars, timer, arming, sleep>>

\* ConnectionManager::remove_connection(fd)
CtRemove(f) ==
  IF table[f] = NoConn THEN UNCHANGED <<table, ctStage>>
  ELSE /\ table' = [table EXCEPT ![f] = NoConn]
       /\ ctStage' = [ctStage EXCEPT ![table[f]] = "removed"]

\* handle_expired_timers(), after the lock: on_timeout(fd)
Fire(e) ==
  /\ loop = "fire" /\ e \in firing
  /\ CtRemove(e.fd)
  /\ firing' = firing \ {e}
  /\ UNCHANGED <<timerVars, fdOf, timer, arming, loop, sleep, fired>>

FireDone ==
  /\ loop = "fire" /\ firing = {}
  /\ loop' = "next"
  /\ UNCHANGED <<timerVars, connVars, timer, arming, sleep, firing, fired>>

CtLoopStep ==
  \/ NextTimeout \/ WaitEnds \/ Expire \/ FireDone
  \/ \E e \in firing : Fire(e)

----
\* Connections, on worker threads and in the loop's event handlers

\* arm_timer(): the timer armed before is cancelled ...
ArmCancel(c) ==
  /\ c \in Objects \ arming
  /\ CancelTimer(timer[c])
  /\ arming' = arming \cup {c}
  /\ timer' = [timer EXCEPT ![c] = NoId]
  /\ fired' = fired \ {timer[c]}
  /\ UNCHANGED <<connVars, loopVars>>

\* ... and a new one added ...
ArmAdd(c, id, timeout) ==
  /\ c \in arming /\ id \in FreshIds
  /\ AddTimer(id, c, fdOf[c], timeout)
  /\ timer' = [timer EXCEPT ![c] = id]
  /\ arming' = arming \ {c}
  /\ UNCHANGED <<connVars, loopVars, fired>>

\* ... unless the timeout is 0: there is none while a handler runs.
ArmNone(c) ==
  /\ c \in arming
  /\ arming' = arming \ {c}
  /\ UNCHANGED <<timerVars, connVars, timer, loopVars, fired>>

\* The connection has itself removed: an I/O error, or it closes.
RemoveSelf(c) ==
  /\ c \in Objects
  /\ CtRemove(fdOf[c])
  /\ UNCHANGED <<timerVars, fdOf, timer, arming, loopVars, fired>>

\* Mutant: the timer is left behind.
Destroy_Armed(c) ==
  /\ ctStage[c] = "removed" /\ c \notin arming
  /\ timer' = [timer EXCEPT ![c] = NoId]
  /\ fired' = fired \ {timer[c]}
  /\ ctStage' = [ctStage EXCEPT ![c] = "none"]
  /\ UNCHANGED <<timerVars, table, fdOf, arming, loopVars>>

\* ~Connection: the last reference to a removed connection goes. Its timer is
\* cancelled, and its descriptor, closed only now, becomes free.
CtDestroy(c) ==
  /\ ctStage[c] = "removed" /\ c \notin arming
  /\ CancelTimer(timer[c])
  /\ timer' = [timer EXCEPT ![c] = NoId]
  /\ fired' = fired \ {timer[c]}
  /\ ctStage' = [ctStage EXCEPT ![c] = "none"]
  /\ UNCHANGED <<table, fdOf, arming, loopVars>>

\* Time passes while the loop waits, until its wait is over. What else the loop
\* does is taken to be quick.
Tick ==
  /\ loop = "wait" /\ sleep > 0
  /\ sleep' = sleep - 1
  /\ live' = {[e EXCEPT !.left = @ - 1] : e \in live}
  /\ queue' = {[e EXCEPT !.left = @ - 1] : e \in queue}
  /\ UNCHANGED <<connVars, timer, arming, loop, firing, fired>>

ConnStep(c) ==
  \/ ArmCancel(c) \/ ArmNone(c) \/ RemoveSelf(c) \/ CtDestroy(c)
  \/ \E id \in Ids, timeout \in Timeouts :
       ArmAdd(c, id, timeout) \/ \E f \in Fds : Accept(c, f, id, timeout)

CtNext == CtLoopStep \/ Tick \/ \E c \in Conns : ConnStep(c)

CtSpec == CtInit /\ [][CtNext]_ctVars

----
\* Properties

\* Timers name connections by descriptor, and descriptors are reused: what a
\* timer removes, now or once it has fired, is the connection that armed it or
\* nothing.
TimeoutHitsOwner ==
  \A e \in live \cup firing : table[e.fd] \in {e.conn, NoConn}

\* The timer a connection armed last counts until it fires or the connection
\* cancels it. Others cancel ids they remember from timers that fired long ago,
\* and the queue is rebuilt under their feet.
StaysArmed ==
  \A c \in Conns : timer[c] # NoId =>
    \/ timer[c] \in fired
    \/ \E e \in live \cap queue : e.id = timer[c] /\ e.conn = c /\ e.fd = fdOf[c]

\* EventLoop::run: a timer fires less than one capped wait late, also one that a
\* worker armed, for a shorter time, while the loop was already asleep.
FiresInTime == \A e \in live : e.left > -Cap

====
