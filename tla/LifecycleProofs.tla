---- MODULE LifecycleProofs ----
\* The life of the App and the rooms of its WebSockets, proved for every
\* number of loops, calling threads, signals, sockets and rooms.
EXTENDS MCLifecycle, FiniteSetTheorems, TLAPS

----
\* App

\* Where listen() is in its life, as its own thread tells: that thread is inside
\* a call only from the tick hook, while the first loop runs, or at the end.
MainFollowsListen ==
  /\ listen \in {"before", "created", "join"} => call[Main] = "idle"
  /\ listen = "front" => call[Main] # "done" /\ (call[Main] = "idle" \/ op[Main] # "return")
  /\ listen = "ending" => op[Main] = "return" /\ call[Main] \in {"check", "exchange", "hooks", "apply"}
  /\ listen = "returned" => call[Main] = "done"

\* stop_hooks_ran_ counts the runs, nobody gets to it before started_ is set,
\* and whoever is past it has found or left it set.
HooksCounted ==
  /\ hookRuns = IF hooksRan THEN 1 ELSE 0
  /\ listen \in {"before", "created"} =>
       ~started /\ ~hooksRan /\ \A t \in AppThreads : call[t] \notin {"exchange", "hooks"}
  /\ listen \in {"front", "join", "ending"} => started
  /\ listen = "ending" /\ call[Main] \in {"hooks", "apply"} => hooksRan
  /\ listen = "returned" => hooksRan

\* A loop is told to stop only by a stop() that is remembered.
StopRemembered == stopFlag # {} => stopRequested

\* The inductive invariant.
AppInv ==
  /\ AppTypeOK /\ MainFollowsListen /\ HooksCounted /\ StopRemembered
  /\ StopReachesLoops /\ RequestsFinish

LEMMA AppInitInv == AppInit => AppInv
<1> SUFFICES ASSUME AppInit PROVE AppInv OBVIOUS
<1>1. AppTypeOK
  <2>1. /\ call \in [AppThreads -> {"idle", "check", "exchange", "hooks", "apply", "done"}]
        /\ op \in [AppThreads -> {"stop", "shutdown", "return"}]
        /\ loop \in [Loops -> {"none", "running", "ended"}] BY DEF AppInit
  <2>2. sigSeq \in 0 .. MaxSignals /\ sigSeen \in 0 .. MaxSignals /\ hookRuns \in Nat BY AppAssumption DEF AppInit
  <2> QED BY <2>1, <2>2, Zenon DEF AppInit, AppTypeOK
<1>2. MainFollowsListen /\ HooksCounted BY DEF AppInit, MainFollowsListen, HooksCounted, AppThreads
<1>3. StopRemembered /\ StopReachesLoops /\ RequestsFinish
  BY DEF AppInit, StopRemembered, StopReachesLoops, RequestsFinish, Created
<1> QED BY <1>1, <1>2, <1>3 DEF AppInv

\* listen() creates the loops, marks the App started, and ends.
LEMMA ListenStepInv ==
  ASSUME AppInv, ListenStep
  PROVE  AppInv'
<1> USE DEF AppInv, loopVars, hookVars, sigVars, callVars, stopVars, AppGoto, AfterCall, AppThreads, Created
<1>1. AppTypeOK'
  <2>1. CASE CreateLoops BY <2>1, AppAssumption DEF AppTypeOK, CreateLoops
  <2>2. CASE MarkStarted BY <2>2, AppAssumption DEF AppTypeOK, MarkStarted
  <2>3. CASE JoinLoops BY <2>3, AppAssumption DEF AppTypeOK, JoinLoops
  <2>4. CASE AppReturn BY <2>4, AppAssumption DEF AppTypeOK, AppReturn
  <2> QED BY <2>1, <2>2, <2>3, <2>4 DEF ListenStep
<1>2. MainFollowsListen'
  BY AppAssumption DEF AppTypeOK, MainFollowsListen, ListenStep, CreateLoops, MarkStarted, JoinLoops, AppReturn
<1>3. HooksCounted'
  BY AppAssumption DEF AppTypeOK, MainFollowsListen, HooksCounted, ListenStep, CreateLoops, MarkStarted, JoinLoops, AppReturn
<1>4. StopRemembered' /\ StopReachesLoops'
  <2>1. CASE CreateLoops BY <2>1, AppAssumption DEF AppTypeOK, StopRemembered, StopReachesLoops, CreateLoops
  <2>2. CASE MarkStarted BY <2>2, AppAssumption DEF AppTypeOK, StopRemembered, StopReachesLoops, MarkStarted
  <2>3. CASE JoinLoops BY <2>3, AppAssumption DEF AppTypeOK, StopRemembered, StopReachesLoops, JoinLoops
  <2>4. CASE AppReturn BY <2>4 DEF MainFollowsListen, StopRemembered, StopReachesLoops, AppReturn
  <2> QED BY <2>1, <2>2, <2>3, <2>4 DEF ListenStep
<1>5. RequestsFinish'
  BY AppAssumption DEF AppTypeOK, StopRemembered, RequestsFinish, ListenStep, CreateLoops, MarkStarted, JoinLoops, AppReturn
<1> QED BY <1>1, <1>2, <1>3, <1>4, <1>5

\* The loops serve requests and end; the deadline passes; the on_start hooks run.
LEMMA LoopWork ==
  ASSUME AppInv, NEW l \in Loops,
         Serve(l) \/ AppAnswer(l) \/ LoopEnds(l) \/ DeadlinePasses \/ StartHooksRun \/ StartHooksDone
  PROVE  AppInv'
<1> USE DEF AppInv, loopVars, hookVars, sigVars, callVars, stopVars, AppGoto, AfterCall, AppThreads, Created
<1>1. AppTypeOK'
  <2>1. CASE Serve(l) BY <2>1, AppAssumption DEF AppTypeOK, Serve, InRun
  <2>2. CASE AppAnswer(l) BY <2>2, AppAssumption DEF AppTypeOK, AppAnswer
  <2>3. CASE LoopEnds(l) BY <2>3, AppAssumption DEF AppTypeOK, LoopEnds, InRun
  <2>4. CASE DeadlinePasses BY <2>4, AppAssumption DEF AppTypeOK, DeadlinePasses
  <2>5. CASE StartHooksRun BY <2>5, AppAssumption DEF AppTypeOK, StartHooksRun
  <2>6. CASE StartHooksDone BY <2>6, AppAssumption DEF AppTypeOK, StartHooksDone
  <2> QED BY <2>1, <2>2, <2>3, <2>4, <2>5, <2>6
<1>2. MainFollowsListen'
  BY AppAssumption DEF AppTypeOK, MainFollowsListen, Serve, AppAnswer, LoopEnds, InRun, DeadlinePasses,
     StartHooksRun, StartHooksDone
<1>3. HooksCounted'
  BY AppAssumption DEF AppTypeOK, MainFollowsListen, HooksCounted, Serve, AppAnswer, LoopEnds, InRun, DeadlinePasses,
     StartHooksRun, StartHooksDone
<1>4. StopRemembered' /\ StopReachesLoops'
  BY AppAssumption DEF AppTypeOK, StopRemembered, StopReachesLoops, Serve, AppAnswer, LoopEnds, InRun, DeadlinePasses,
     StartHooksRun, StartHooksDone
<1>5. RequestsFinish'
  BY AppAssumption DEF AppTypeOK, StopRemembered, RequestsFinish, Serve, AppAnswer, LoopEnds, InRun, DeadlinePasses,
     StartHooksRun, StartHooksDone
<1> QED BY <1>1, <1>2, <1>3, <1>4, <1>5

\* A thread runs the on_stop hooks, or finds that another one did.
LEMMA HooksStep ==
  ASSUME AppInv, NEW t \in AppThreads, HooksCheck(t) \/ HooksExchange(t) \/ HooksDone(t)
  PROVE  AppInv'
<1> USE DEF AppInv, loopVars, hookVars, sigVars, callVars, stopVars, AppGoto, AfterCall, AppThreads, Created
<1>1. AppTypeOK'
  <2>1. CASE HooksCheck(t) BY <2>1, AppAssumption DEF AppTypeOK, HooksCheck
  <2>2. CASE HooksExchange(t) BY <2>2, AppAssumption DEF AppTypeOK, HooksExchange
  <2>3. CASE HooksDone(t) BY <2>3, AppAssumption DEF AppTypeOK, HooksDone
  <2> QED BY <2>1, <2>2, <2>3
<1>2. MainFollowsListen' BY AppAssumption DEF AppTypeOK, MainFollowsListen, HooksCheck, HooksExchange, HooksDone
<1>3. HooksCounted'
  BY AppAssumption DEF AppTypeOK, MainFollowsListen, HooksCounted, HooksCheck, HooksExchange, HooksDone
<1>4. StopRemembered' /\ StopReachesLoops'
  BY AppAssumption DEF AppTypeOK, StopRemembered, StopReachesLoops, HooksCheck, HooksExchange, HooksDone
<1>5. RequestsFinish'
  BY AppAssumption DEF AppTypeOK, StopRemembered, RequestsFinish, HooksCheck, HooksExchange, HooksDone
<1> QED BY <1>1, <1>2, <1>3, <1>4, <1>5

\* ... and applies its stop() or shutdown() to the loops.
LEMMA ApplyStep ==
  ASSUME AppInv, NEW t \in AppThreads, ApplyStop(t) \/ ApplyShutdown(t)
  PROVE  AppInv'
<1> USE DEF AppInv, loopVars, hookVars, sigVars, callVars, stopVars, AppGoto, AfterCall, AppThreads, Created
<1>1. AppTypeOK'
  <2>1. CASE ApplyStop(t) BY <2>1, AppAssumption DEF AppTypeOK, ApplyStop
  <2>2. CASE ApplyShutdown(t)
    <3>1. stopRequested' \in BOOLEAN /\ appDraining' \in BOOLEAN BY <2>2 DEF AppTypeOK, ApplyShutdown
    <3>2. shutFlag' \subseteq Loops BY <2>2 DEF AppTypeOK, ApplyShutdown
    <3>3. call' \in [AppThreads -> {"idle", "check", "exchange", "hooks", "apply", "done"}]
      BY <2>2 DEF AppTypeOK, ApplyShutdown
    <3> QED BY <2>2, <3>1, <3>2, <3>3 DEF AppTypeOK, ApplyShutdown
  <2> QED BY <2>1, <2>2
<1>2. MainFollowsListen' BY AppAssumption DEF AppTypeOK, MainFollowsListen, ApplyStop, ApplyShutdown
<1>3. HooksCounted' BY AppAssumption DEF AppTypeOK, MainFollowsListen, HooksCounted, ApplyStop, ApplyShutdown
<1>4. StopRemembered' /\ StopReachesLoops'
  BY AppAssumption DEF AppTypeOK, StopRemembered, StopReachesLoops, ApplyStop, ApplyShutdown
<1>5. RequestsFinish' BY AppAssumption DEF AppTypeOK, StopRemembered, RequestsFinish, ApplyStop, ApplyShutdown
<1> QED BY <1>1, <1>2, <1>3, <1>4, <1>5

\* A thread calls stop() or shutdown().
LEMMA CallStepInv ==
  ASSUME AppInv, NEW t \in Callers, NEW what \in {"stop", "shutdown"}, Call(t, what)
  PROVE  AppInv'
<1> USE DEF AppInv, loopVars, hookVars, sigVars, callVars, stopVars, AppGoto, AfterCall, AppThreads, Created
<1>1. AppTypeOK' BY AppAssumption DEF AppTypeOK, Call
<1>2. MainFollowsListen' BY AppAssumption DEF AppTypeOK, MainFollowsListen, Call
<1>3. HooksCounted' BY AppAssumption DEF AppTypeOK, MainFollowsListen, HooksCounted, Call
<1>4. StopRemembered' /\ StopReachesLoops' BY AppAssumption DEF AppTypeOK, StopRemembered, StopReachesLoops, Call
<1>5. RequestsFinish' BY AppAssumption DEF AppTypeOK, StopRemembered, RequestsFinish, Call
<1> QED BY <1>1, <1>2, <1>3, <1>4, <1>5

\* A signal is raised.
LEMMA SignalStep ==
  ASSUME AppInv, NEW sig \in {"term", "hup", "usr2"}, Signal(sig)
  PROVE  AppInv'
<1> USE DEF AppInv, loopVars, hookVars, sigVars, callVars, stopVars, AppGoto, AfterCall, AppThreads, Created
<1>1. AppTypeOK' BY AppAssumption DEF AppTypeOK, Signal
<1>2. MainFollowsListen' BY AppAssumption DEF AppTypeOK, MainFollowsListen, Signal
<1>3. HooksCounted' BY AppAssumption DEF AppTypeOK, MainFollowsListen, HooksCounted, Signal
<1>4. StopRemembered' /\ StopReachesLoops' BY AppAssumption DEF AppTypeOK, StopRemembered, StopReachesLoops, Signal
<1>5. RequestsFinish' BY AppAssumption DEF AppTypeOK, StopRemembered, RequestsFinish, Signal
<1> QED BY <1>1, <1>2, <1>3, <1>4, <1>5

\* The tick hook turns a signal into a call.
LEMMA TickStepInv ==
  ASSUME AppInv, TickStep
  PROVE  AppInv'
<1> USE DEF AppInv, loopVars, hookVars, sigVars, callVars, stopVars, AppGoto, AfterCall, AppThreads, Created
<1>1. AppTypeOK' BY AppAssumption DEF AppTypeOK, TickStep, Tick, Reactions, InRun
<1>2. MainFollowsListen' BY AppAssumption DEF AppTypeOK, MainFollowsListen, TickStep, Tick, Reactions, InRun
<1>3. HooksCounted' BY AppAssumption DEF AppTypeOK, MainFollowsListen, HooksCounted, TickStep, Tick, Reactions, InRun
<1>4. StopRemembered' /\ StopReachesLoops'
  BY AppAssumption DEF AppTypeOK, StopRemembered, StopReachesLoops, TickStep, Tick, Reactions, InRun
<1>5. RequestsFinish' BY AppAssumption DEF AppTypeOK, StopRemembered, RequestsFinish, TickStep, Tick, Reactions, InRun
<1> QED BY <1>1, <1>2, <1>3, <1>4, <1>5

LEMMA AppNextInv == AppInv /\ [AppNext]_appVars => AppInv'
<1> SUFFICES ASSUME AppInv, [AppNext]_appVars PROVE AppInv' OBVIOUS
<1>1. CASE UNCHANGED appVars BY <1>1 DEF appVars, AppInv, AppTypeOK, MainFollowsListen, HooksCounted, StopRemembered,
              StopReachesLoops, RequestsFinish, Created
<1>2. CASE ListenStep \/ TickStep BY <1>2, ListenStepInv, TickStepInv
<1>3. CASE DeadlinePasses \/ StartHooksRun \/ StartHooksDone BY <1>3, LoopWork, AppAssumption
<1>4. ASSUME NEW l \in Loops, Serve(l) \/ AppAnswer(l) \/ LoopEnds(l) PROVE AppInv' BY <1>4, LoopWork
<1>5. ASSUME NEW t \in AppThreads, CallStep(t) PROVE AppInv' BY <1>5, HooksStep, ApplyStep DEF CallStep
<1>6. ASSUME NEW t \in Callers, NEW what \in {"stop", "shutdown"}, Call(t, what) PROVE AppInv' BY <1>6, CallStepInv
<1>7. ASSUME NEW sig \in {"term", "hup", "usr2"}, Signal(sig) PROVE AppInv' BY <1>7, SignalStep
<1> QED BY <1>1, <1>2, <1>3, <1>4, <1>5, <1>6, <1>7 DEF AppNext, Terminated

----
\* EventRouter

ErTypeOK ==
  /\ erSockets \subseteq ErIds
  /\ erRooms \in [ErRooms -> SUBSET ErIds]
  /\ erOwn \in [ErIds -> SUBSET ErRooms]
  /\ erHandler \in [ErIds -> {"none", "connecting", "ready"}]
  /\ erConn \in [ErIds -> {"open", "closed", "gone"}]
  /\ erOnClose \in [ErIds -> BOOLEAN]
  /\ erClosing \in [ErIds -> {"no", "lookup", "disconnect", "done"}]
  /\ erDrained \subseteq ErIds
  /\ erCast \in [members : SUBSET ErIds, held : BOOLEAN]
  /\ erTouched \in BOOLEAN

\* How far each socket is: unknown before its handler registers it, its close
\* handler runs only once the handler set it, and has run when the connection
\* closed unless a drain came first; a socket whose close handler is through has
\* left the table.
SocketOrder ==
  \A i \in ErIds :
    /\ erHandler[i] = "none" => i \notin erSockets /\ erOwn[i] = {}
    /\ erOnClose[i] <=> erHandler[i] = "ready"
    /\ erClosing[i] # "no" => erHandler[i] = "ready"
    /\ erConn[i] # "open" /\ erClosing[i] = "no" => i \in erDrained
    /\ erConn[i] = "gone" => erClosing[i] \in {"no", "done"}
    /\ erClosing[i] = "done" => i \notin erSockets

\* The inductive invariant.
ErInv == ErTypeOK /\ SocketOrder /\ RoomsSound

LEMMA ErInitInv == ErInit => ErInv
<1> SUFFICES ASSUME ErInit PROVE ErInv OBVIOUS
<1>1. ErTypeOK BY DEF ErInit, ErTypeOK, ErNoCast
<1>2. SocketOrder /\ RoomsSound BY DEF ErInit, SocketOrder, RoomsSound
<1> QED BY <1>1, <1>2 DEF ErInv

\* attach(): the socket is registered, its callbacks are set.
LEMMA HandlerStepInv ==
  ASSUME ErInv, NEW i \in ErIds, ErRegister(i) \/ ErSetCallbacks(i)
  PROVE  ErInv'
<1> USE DEF ErInv, ErTypeOK
<1>1. ErTypeOK'
  <2>1. CASE ErRegister(i) BY <2>1 DEF ErRegister
  <2>2. CASE ErSetCallbacks(i) BY <2>2 DEF ErSetCallbacks
  <2> QED BY <2>1, <2>2
<1>2. SocketOrder' BY DEF SocketOrder, RoomsSound, ErRegister, ErSetCallbacks
<1>3. RoomsSound' BY DEF SocketOrder, RoomsSound, ErRegister, ErSetCallbacks
<1> QED BY <1>1, <1>2, <1>3

\* A socket joins or leaves a room, on both sides at once.
LEMMA RoomStep ==
  ASSUME ErInv, NEW i \in ErIds, NEW r \in ErRooms, join_room(i, r) \/ leave_room(i, r)
  PROVE  ErInv'
<1> USE DEF ErInv, ErTypeOK
<1>1. ErTypeOK' BY DEF join_room, leave_room
<1>2. SocketOrder' BY DEF SocketOrder, RoomsSound, join_room, leave_room
<1>3. RoomsSound' BY DEF SocketOrder, RoomsSound, join_room, leave_room
<1> QED BY <1>1, <1>2, <1>3

\* A connection closes, for the client, the application or a drain.
LEMMA CloseStep ==
  ASSUME ErInv, NEW i \in ErIds, ErClose(i)
  PROVE  ErInv'
<1> USE DEF ErInv, ErTypeOK
<1>1. ErTypeOK' BY DEF ErClose
<1>2. SocketOrder' BY DEF SocketOrder, RoomsSound, ErClose
<1>3. RoomsSound' BY DEF SocketOrder, RoomsSound, ErClose
<1> QED BY <1>1, <1>2, <1>3

\* The close handler, and the end of the connection behind it.
LEMMA CloseHandlerStep ==
  ASSUME ErInv, NEW i \in ErIds, ErCloseStep(i)
  PROVE  ErInv'
<1> USE DEF ErInv, ErTypeOK
<1>1. ErTypeOK' BY DEF ErCloseStep, ErCloseLookup, ErCloseErase, ErDestroy
<1>2. SocketOrder' BY DEF SocketOrder, RoomsSound, ErCloseStep, ErCloseLookup, ErCloseErase, ErDestroy
<1>3. RoomsSound' BY DEF SocketOrder, RoomsSound, ErCloseStep, ErCloseLookup, ErCloseErase, ErDestroy
<1> QED BY <1>1, <1>2, <1>3

\* A broadcast writes only to sockets that are in the table.
LEMMA CastStep ==
  ASSUME ErInv, (\E r \in ErRooms : ErBroadcast(r)) \/ ErCastOne
  PROVE  ErInv'
<1> USE DEF ErInv, ErTypeOK
<1>1. ErTypeOK'
  <2>1. erCast' \in [members : SUBSET ErIds, held : BOOLEAN]
    <3>1. ASSUME NEW r \in ErRooms, ErBroadcast(r)
          PROVE  erCast' \in [members : SUBSET ErIds, held : BOOLEAN] BY <3>1 DEF ErBroadcast
    <3>2. ASSUME ErCastOne
          PROVE  erCast' \in [members : SUBSET ErIds, held : BOOLEAN]
      <4>1. ErNoCast \in [members : SUBSET ErIds, held : BOOLEAN] BY DEF ErNoCast
      <4>2. ASSUME NEW i \in ErIds
            PROVE  [erCast EXCEPT !.members = @ \ {i}] \in [members : SUBSET ErIds, held : BOOLEAN] OBVIOUS
      <4> QED BY <3>2, <4>1, <4>2 DEF ErCastOne
    <3> QED BY <3>1, <3>2
  <2>2. erTouched' \in BOOLEAN BY DEF ErBroadcast, ErCastOne
  <2> QED BY <2>1, <2>2 DEF ErBroadcast, ErCastOne
<1>2. SocketOrder' BY DEF SocketOrder, RoomsSound, ErBroadcast, ErCastOne, ErNoCast
<1>3. RoomsSound' BY DEF SocketOrder, RoomsSound, ErBroadcast, ErCastOne, ErNoCast
<1> QED BY <1>1, <1>2, <1>3

LEMMA ErNextInv == ErInv /\ [ErNext]_erVars => ErInv'
<1> SUFFICES ASSUME ErInv, [ErNext]_erVars PROVE ErInv' OBVIOUS
<1>1. CASE UNCHANGED erVars BY <1>1 DEF erVars, ErInv, ErTypeOK, SocketOrder, RoomsSound
<1>2. ASSUME NEW i \in ErIds, ErHandlerStep(i) PROVE ErInv' BY <1>2, HandlerStepInv DEF ErHandlerStep
<1> QED BY <1>1, <1>2, RoomStep, CloseStep, CloseHandlerStep, CastStep DEF ErNext

----
\* ConnectionRequests

ActingPcs == {"process", "handler", "streaming", "answer", "finish", "continue", "leave",
              "checkNext", "next", "release"}

\* The right to the next request is in one place: a queued process_request(), a
\* thread that handles or finishes a request, or a handler that waits for the
\* end of the body it reads. is_processing_request_ is set as long as it is.
OneTurn ==
  /\ jobs <= 1
  /\ jobs = 1 => onEnd = 0 /\ \A t \in Threads : pc[t] \notin ActingPcs
  /\ onEnd # 0 => \A t \in Threads : pc[t] \notin ActingPcs
  /\ \A s, t \in Threads : pc[s] \in ActingPcs /\ pc[t] \in ActingPcs => s = t
  /\ jobs = 1 \/ onEnd # 0 \/ (\E t \in Threads : pc[t] \in ActingPcs) => isProcessing

\* Once the peer has left, the loop goes on only to remove the connection.
LoopLeaving ==
  PeerLeft =>
    \/ pc[Loop] \in {"answer", "continue", "leave", "checkNext", "next", "release", "recheck",
                     "again", "error", "remove"}
    \/ pc[Loop] = "idle" /\ removed

Marks == [started : BOOLEAN, complete : BOOLEAN, streaming : BOOLEAN, failed : BOOLEAN]
Verdicts == {"incomplete", "complete", "headers", "error", "read", "unread"}

\* Beside TypeOK: what the threads hold, and the marks of the parser.
LocalsOK ==
  /\ held \in [Threads -> 0 .. Len(requests)]
  /\ got \in [Threads -> Verdicts]
  /\ msg \in Marks
  /\ Len(requests) \in Nat /\ DOMAIN requests = 1 .. Len(requests)
  /\ answers \in Seq(Nat)

\* The inductive invariant.
TurnInv == TypeOK /\ LocalsOK /\ LoopLeaving /\ (~PeerLeft => OneTurn)

\* check_request_state() takes no piece that has not come.
LEMMA ParsedOK ==
  ASSUME TypeOK, LocalsOK
  PROVE  Parsed.used \in 0 .. came /\ Parsed.msg \in Marks /\ Parsed.answer \in Verdicts
<1>1. came \in Nat /\ used \in Nat /\ used <= came BY DEF TypeOK, LocalsOK
<1>2. msg \in Marks BY DEF LocalsOK
<1>3. /\ [msg EXCEPT !.started = TRUE] \in Marks /\ [msg EXCEPT !.complete = TRUE] \in Marks
      /\ [[msg EXCEPT !.started = TRUE] EXCEPT !.failed = TRUE] \in Marks
      /\ [[msg EXCEPT !.started = TRUE] EXCEPT !.streaming = TRUE] \in Marks
      /\ [[msg EXCEPT !.started = TRUE] EXCEPT !.complete = TRUE] \in Marks BY <1>2 DEF Marks
<1>4. msg.complete \in BOOLEAN /\ msg.streaming \in BOOLEAN /\ msg.failed \in BOOLEAN BY <1>2 DEF Marks
<1>5. CASE msg.complete BY <1>1, <1>2, <1>5 DEF Parsed, Verdicts
<1>6. CASE ~msg.complete /\ msg.streaming BY <1>1, <1>2, <1>6 DEF Parsed, Verdicts
<1>7. CASE ~msg.complete /\ ~msg.streaming /\ msg.failed BY <1>1, <1>2, <1>7 DEF Parsed, Verdicts
<1>8. CASE ~msg.complete /\ ~msg.streaming /\ ~msg.failed
  <2> DEFINE kind == KindOf((used + 2) \div 2)
  <2>1. CASE came - used = 0 BY <1>1, <1>2, <1>8, <2>1 DEF Parsed, Verdicts
  <2>2. CASE came - used # 0 /\ msg.started
    <3>1. used + 1 \in 0 .. came BY <1>1, <2>2
    <3>2. Parsed = [answer |-> "complete", used |-> used + 1, msg |-> [msg EXCEPT !.complete = TRUE]]
      BY <1>8, <2>2 DEF Parsed
    <3> QED BY <1>3, <3>1, <3>2 DEF Verdicts
  <2>3. CASE came - used # 0 /\ ~msg.started /\ kind = "bad" BY <1>1, <1>3, <1>8, <2>3 DEF Parsed, Verdicts
  <2>4. CASE came - used # 0 /\ ~msg.started /\ kind \in {"upload", "badBody"}
    BY <1>1, <1>3, <1>8, <2>4 DEF Parsed, Verdicts
  <2>5. CASE /\ came - used # 0 /\ ~msg.started
             /\ kind # "bad" /\ kind \notin {"upload", "badBody"}
    <3>1. CASE came - used = 1
      <4>1. used + 1 \in 0 .. came BY <1>1, <3>1
      <4>2. Parsed = [answer |-> "incomplete", used |-> used + 1, msg |-> [msg EXCEPT !.started = TRUE]]
        BY <1>8, <2>5, <3>1 DEF Parsed
      <4> QED BY <1>3, <4>1, <4>2 DEF Verdicts
    <3>2. CASE came - used # 1 BY <1>1, <1>3, <1>8, <2>5, <3>2 DEF Parsed, Verdicts
    <3> QED BY <3>1, <3>2
  <2> QED BY <2>1, <2>2, <2>3, <2>4, <2>5
<1> QED BY <1>4, <1>5, <1>6, <1>7, <1>8

LEMMA CurrentOK ==
  ASSUME TypeOK, LocalsOK
  PROVE  Current \in 0 .. Len(requests)
<1>1. came \in Nat /\ used \in Nat /\ used <= came /\ came <= 2 * Len(requests) BY DEF TypeOK, LocalsOK
<1>2. Len(requests) \in Nat BY DEF LocalsOK
<1>3. (used + 1) \div 2 \in Nat /\ (used + 1) \div 2 <= Len(requests) BY <1>1, <1>2
<1> QED BY <1>2, <1>3 DEF Current

LEMMA TurnInit == Init => TurnInv
<1> SUFFICES ASSUME Init PROVE TurnInv OBVIOUS
<1>1. PICK n \in 1 .. MaxRequests : requests \in [1 .. n -> Kinds] BY DEF Init
<1>2. n \in Nat BY <1>1, RequestsAssumption
<1>3. Len(requests) \in Nat BY <1>1, <1>2
<1>4. LocalsOK BY <1>3 DEF LocalsOK, Init, Marks, Verdicts, NoMsg
<1>5. TypeOK
  <2>1. came \in 0 .. 2 * Len(requests) /\ used \in 0 .. came BY <1>3 DEF Init
  <2>2. onData \in 0 .. Len(requests) /\ onEnd \in 0 .. Len(requests) /\ jobs \in Nat BY <1>3 DEF Init
  <2>3. pc \in [Threads -> Pcs] /\ state \in {"http", "streaming"} BY DEF Init, Pcs
  <2> QED BY <2>1, <2>2, <2>3, Zenon DEF Init, TypeOK
<1>6. LoopLeaving /\ OneTurn BY DEF LoopLeaving, OneTurn, Init, PeerLeft, ActingPcs
<1> QED BY <1>4, <1>5, <1>6 DEF TurnInv

LEMMA ReadArmed ==
  ASSUME TypeOK, TriggerRead
  PROVE  isReading' \in BOOLEAN BY DEF TypeOK, TriggerRead

\* What the loop alone does.
LEMMA LoopTypes ==
  ASSUME TypeOK, LocalsOK,
         \/ \E n \in 1 .. 2 * MaxRequests : ReadComplete(n)
         \/ ReadEnds \/ Route \/ Busy \/ Act \/ ReadMore \/ Remove \/ Notice \/ CloseIdle
         \/ BeginDrain \/ ServerShutdown \/ GoAway
  PROVE  TypeOK' /\ LocalsOK'
<1> USE DEF Threads
<1>0. TriggerRead => isReading' \in BOOLEAN BY ReadArmed
<1>1. CASE \E n \in 1 .. 2 * MaxRequests : ReadComplete(n)
  <2>1. came' \in 0 .. 2 * Len(requests) /\ used' \in 0 .. came' /\ requests' = requests
    BY <1>1, RequestsAssumption DEF TypeOK, LocalsOK, ReadComplete, parser
  <2>2. pc' \in [Threads -> Pcs] /\ isReading' \in BOOLEAN BY <1>1 DEF ReadComplete, Goto, Pcs, TypeOK
  <2> QED BY <1>1, <2>1, <2>2 DEF TypeOK, LocalsOK, ReadComplete, parser, flags, streams, locals, history
<1>2. CASE ReadEnds \/ Route \/ Busy \/ Remove \/ Notice \/ CloseIdle \/ BeginDrain
            \/ ServerShutdown \/ GoAway
  <2> USE DEF TypeOK, LocalsOK, Goto, Pcs, input, parser, streams, history, locals
  <2>1. CASE ReadEnds BY <2>1 DEF ReadEnds, flags
  <2>2. CASE Route BY <2>2 DEF Route, flags
  <2>3. CASE Busy BY <2>3 DEF Busy, flags
  <2>4. CASE Remove BY <2>4 DEF Remove
  <2>5. CASE Notice BY <2>5 DEF Notice, flags
  <2>6. CASE CloseIdle BY <2>6 DEF CloseIdle
  <2>7. CASE BeginDrain BY <2>7 DEF BeginDrain
  <2>8. CASE ServerShutdown BY <2>8 DEF ServerShutdown, flags
  <2>9. CASE GoAway BY <2>9 DEF GoAway
  <2> QED BY <1>2, <2>1, <2>2, <2>3, <2>4, <2>5, <2>6, <2>7, <2>8, <2>9
<1>5. CASE Act
  <2>1. isReading' \in BOOLEAN /\ isProcessing' \in BOOLEAN BY <1>0, <1>5 DEF Act, Dispatch, TypeOK
  <2>2. pc' \in [Threads -> Pcs] /\ state' \in {"http", "streaming"} /\ jobs' \in Nat
    BY <1>5 DEF Act, Dispatch, Goto, Pcs, TypeOK
  <2> QED BY <1>5, <2>1, <2>2 DEF TypeOK, LocalsOK, Act, input, parser, streams, locals, history
<1>6. CASE ReadMore
  BY <1>0, <1>6 DEF TypeOK, LocalsOK, ReadMore, Goto, Pcs, input, parser, flags, streams, locals, history
<1> QED BY <1>1, <1>2, <1>5, <1>6

\* What a thread does for a request.
LEMMA AnswerTypes ==
  ASSUME TypeOK, LocalsOK, NEW t \in Threads, AnswerStep(t) \/ CheckRequestState(Loop, "check", "act")
  PROVE  TypeOK' /\ LocalsOK'
<1>0. Loop \in Threads BY DEF Threads
<1>1. ASSUME NEW u \in Threads, NEW from, NEW to \in Pcs, CheckRequestState(u, from, to)
      PROVE  TypeOK' /\ LocalsOK'
  BY <1>1, ParsedOK DEF TypeOK, LocalsOK, CheckRequestState, Goto, input, flags, streams, history
<1>2. CASE StreamData(t)
  <2>1. Return(t) => pc' \in [Threads -> Pcs] BY DEF Return, Goto, Pcs, TypeOK
  <2>2. pc' \in [Threads -> Pcs] BY <1>2, <2>1 DEF StreamData, Goto, Pcs, TypeOK
  <2>3. used' \in 0 .. came BY <1>2 DEF StreamData, parser, TypeOK, LocalsOK
  <2>4. [msg EXCEPT !.failed = TRUE] \in Marks /\ [msg EXCEPT !.complete = TRUE] \in Marks BY DEF Marks, LocalsOK
  <2>5. msg' \in Marks BY <1>2, <2>4 DEF StreamData, parser, LocalsOK
  <2> QED BY <1>2, <2>2, <2>3, <2>5 DEF StreamData, TypeOK, LocalsOK, input, flags, streams, locals
<1>3. CASE StreamEnd(t)
  <2>1. pc' \in [Threads -> Pcs] BY <1>3 DEF StreamEnd, Return, Goto, Pcs, TypeOK
  <2>2. held' \in [Threads -> 0 .. Len(requests)] /\ onEnd' \in 0 .. Len(requests)
    BY <1>3 DEF StreamEnd, TypeOK, LocalsOK
  <2> QED BY <1>3, <2>1, <2>2 DEF StreamEnd, TypeOK, LocalsOK, input, parser, flags, history
<1>4. CASE Answer(t)
  <2>1. answers' \in Seq(Nat) /\ shouldClose' \in BOOLEAN /\ closing' \in BOOLEAN BY <1>4 DEF Answer, TypeOK, LocalsOK
  <2>2. pc' \in [Threads -> Pcs] BY <1>4 DEF Answer, Return, Goto, Pcs, TypeOK
  <2> QED BY <1>4, <2>1, <2>2 DEF Answer, TypeOK, LocalsOK, input, parser, streams, locals
<1>5. CASE SendError(t) BY <1>5 DEF SendError, Return, Goto, Pcs, TypeOK, LocalsOK, input, streams, locals
<1>6. CASE ContinueAfter(t)
  <2>1. msg' \in Marks BY <1>6 DEF ContinueAfter, NoMsg, LocalsOK, Marks
  <2> QED BY <1>6, <2>1 DEF ContinueAfter, Goto, Pcs, TypeOK, LocalsOK, Verdicts, input, flags, streams, history
<1>7. CASE LeaveStream(t)
  <2>1. pc' \in [Threads -> Pcs] BY <1>7 DEF LeaveStream, Return, Goto, Pcs, TypeOK
  <2> QED BY <1>7, <2>1 DEF LeaveStream, TypeOK, LocalsOK, input, parser, streams, locals, history
<1>8. CASE NextRequest(t)
  <2>1. isReading' \in BOOLEAN /\ state' \in {"http", "streaming"} /\ jobs' \in Nat
    BY <1>8, ReadArmed DEF NextRequest, Dispatch, TypeOK
  <2>2. pc' \in [Threads -> Pcs] BY <1>8 DEF NextRequest, Return, Goto, Pcs, TypeOK
  <2> QED BY <1>8, <2>1, <2>2 DEF NextRequest, TypeOK, LocalsOK, input, parser, streams, locals, history
<1>9. CASE Release(t) BY <1>9 DEF Release, Goto, Pcs, TypeOK, LocalsOK, input, parser, flags, streams, locals, history
<1>10. CASE Again(t)
  <2>1. jobs' \in Nat BY <1>10 DEF Again, TypeOK
  <2>4. isProcessing' \in BOOLEAN BY <1>10, Zenon DEF Again, TypeOK
  <2>3. isReading' \in BOOLEAN BY <1>10, ReadArmed DEF Again, TypeOK
  <2>2. pc' \in [Threads -> Pcs] BY <1>10 DEF Again, Return, Goto, Pcs, TypeOK
  <2> QED BY <1>10, <2>1, <2>2, <2>3, <2>4 DEF Again, TypeOK, LocalsOK, input, parser, flags, streams, locals, history
<1>11. "next" \in Pcs /\ "again" \in Pcs /\ "act" \in Pcs BY DEF Pcs
<1> QED BY <1>0, <1>1, <1>2, <1>3, <1>4, <1>5, <1>6, <1>7, <1>8, <1>9, <1>10, <1>11 DEF AnswerStep

\* What a worker and the handler it runs do.
LEMMA WorkerTypes ==
  ASSUME TypeOK, LocalsOK, NEW w \in Workers, WorkerStep(w) \/ HandlerStep(w)
  PROVE  TypeOK' /\ LocalsOK'
<1> USE DEF Threads
<1>1. CASE Take(w) BY <1>1 DEF Take, Goto, Pcs, TypeOK, LocalsOK, input, parser, flags, streams, locals, history
<1>2. ASSUME NEW close \in BOOLEAN, Process(w, close) PROVE TypeOK' /\ LocalsOK'
  <2>1. pc' \in [Threads -> Pcs] BY <1>2 DEF Process, Goto, Pcs, TypeOK
  <2>2. held' \in [Threads -> 0 .. Len(requests)] /\ shouldClose' \in BOOLEAN
    BY <1>2, CurrentOK DEF Process, TypeOK, LocalsOK
  <2>3. UNCHANGED <<input, parser, state, closing, removed, draining, isReading, isProcessing,
                    streams, jobs, got, back, history>> BY <1>2 DEF Process
  <2> QED BY <2>1, <2>2, <2>3 DEF TypeOK, LocalsOK, input, parser, streams, history
<1>3. CASE Respond(w) \/ EndResponse(w)
  <2>1. pc' \in [Threads -> Pcs] BY <1>3 DEF Respond, EndResponse, Goto, Pcs, TypeOK
  <2>2. UNCHANGED <<input, parser, flags, isReading, isProcessing, streams, jobs, locals, history>>
    BY <1>3 DEF Respond, EndResponse
  <2> QED BY <2>1, <2>2 DEF TypeOK, LocalsOK, input, parser, flags, streams, locals, history
<1>4. CASE SendHeaders(w)
  BY <1>4 DEF SendHeaders, TriggerRead, Goto, Pcs, TypeOK, LocalsOK, input, parser, streams, locals, history
<1>5. CASE ReadBodyStream(w)
  BY <1>5 DEF ReadBodyStream, Goto, Pcs, TypeOK, LocalsOK, input, parser, flags, locals, history
<1> QED BY <1>1, <1>2, <1>3, <1>4, <1>5 DEF WorkerStep, HandlerStep

\* The loop, once the peer has left.
LEMMA LeavingNext ==
  ASSUME TurnInv, Next
  PROVE  LoopLeaving'
<1> USE DEF Threads
<1>0. Loop \notin Workers /\ pc \in [Threads -> Pcs] /\ back \in {"idle", "readMore", "remove"}
  BY RequestsAssumption DEF TurnInv, TypeOK
<1>1. ASSUME NEW n \in 1 .. 2 * MaxRequests, ReadComplete(n) PROVE LoopLeaving'
  BY <1>0, <1>1 DEF TurnInv, LoopLeaving, PeerLeft, ReadComplete, locals, flags, Goto
<1>2. CASE ReadEnds BY <1>0, <1>2 DEF LoopLeaving, PeerLeft, ReadEnds, Goto
<1>3. CASE LoopStep
  BY <1>0, <1>3 DEF TurnInv, LoopLeaving, PeerLeft, LoopStep, Route, Busy, CheckRequestState, Act, ReadMore, Remove,
       Notice, CloseIdle, Goto, locals, flags
<1>4. CASE BeginDrain \/ ServerShutdown \/ GoAway
  BY <1>0, <1>4 DEF TurnInv, LoopLeaving, PeerLeft, BeginDrain, ServerShutdown, GoAway, Goto, locals
<1>5. ASSUME NEW t \in Threads, AnswerStep(t) PROVE LoopLeaving'
  <2>1. back' = back /\ removed' = removed
    BY <1>5 DEF AnswerStep, StreamData, StreamEnd, Answer, SendError, ContinueAfter, LeaveStream, CheckRequestState,
         NextRequest, Release, Again, locals, flags
  <2>2. CASE t # Loop
    <3>1. pc'[Loop] = pc[Loop]
      BY <1>0, <1>5, <2>2 DEF AnswerStep, StreamData, StreamEnd, Answer, SendError, ContinueAfter, LeaveStream,
           CheckRequestState, NextRequest, Release, Again, Return, Goto
    <3> QED BY <2>1, <3>1 DEF TurnInv, LoopLeaving, PeerLeft
  <2>3. CASE t = Loop
    <3> SUFFICES ASSUME back = "remove" PROVE LoopLeaving' BY <2>1 DEF LoopLeaving, PeerLeft
    <3>1. Return(t) => pc'[Loop] = "remove" BY <1>0, <2>3 DEF Return, Goto
    <3>2. \/ pc[Loop] \in {"answer", "continue", "leave", "checkNext", "next", "release", "recheck", "again",
                           "error", "remove"}
          \/ pc[Loop] = "idle" /\ removed BY DEF TurnInv, LoopLeaving, PeerLeft
    <3>3. pc'[Loop] \in {"continue", "leave", "checkNext", "next", "release", "recheck", "again", "error", "remove"}
      BY <1>0, <1>5, <2>3, <3>1, <3>2 DEF AnswerStep, StreamData, StreamEnd, Answer, SendError, ContinueAfter,
           LeaveStream, CheckRequestState, NextRequest, Release, Again, Goto
    <3> QED BY <3>3 DEF LoopLeaving
  <2> QED BY <2>2, <2>3
<1>6. ASSUME NEW w \in Workers, WorkerStep(w) \/ HandlerStep(w) PROVE LoopLeaving'
  <2>1. back' = back /\ removed' = removed /\ pc'[Loop] = pc[Loop]
    BY <1>0, <1>6 DEF WorkerStep, Take, Process, HandlerStep, Respond, SendHeaders, EndResponse, ReadBodyStream,
         Goto, locals, flags
  <2> QED BY <2>1 DEF TurnInv, LoopLeaving, PeerLeft
<1> QED BY <1>1, <1>2, <1>3, <1>4, <1>5, <1>6 DEF Next

\* The loop alone passes the turn on only in Act.
LEMMA LoopTurn ==
  ASSUME TurnInv, ~PeerLeft, ~PeerLeft',
         \/ \E n \in 1 .. 2 * MaxRequests : ReadComplete(n)
         \/ ReadEnds \/ LoopStep \/ BeginDrain \/ ServerShutdown \/ GoAway
  PROVE  OneTurn'
<1> USE DEF Threads
<1>0. OneTurn /\ pc \in [Threads -> Pcs] /\ jobs \in Nat BY DEF TurnInv, TypeOK
<1>1. CASE Act BY <1>0, <1>1 DEF OneTurn, Act, Dispatch, Goto, ActingPcs, streams
<1>2. CASE \E n \in 1 .. 2 * MaxRequests : ReadComplete(n)
  BY <1>0, <1>2 DEF OneTurn, ReadComplete, Goto, ActingPcs, streams
<1>3. CASE ReadEnds BY <1>3 DEF ReadEnds, PeerLeft
<1>4. CASE Route \/ Busy \/ CheckRequestState(Loop, "check", "act")
  BY <1>0, <1>4 DEF OneTurn, Route, Busy, CheckRequestState, Goto, ActingPcs, streams
<1>5. CASE ReadMore \/ Remove \/ Notice \/ CloseIdle
  BY <1>0, <1>5 DEF OneTurn, ReadMore, Remove, Notice, CloseIdle, Goto, ActingPcs, streams
<1>6. CASE BeginDrain \/ ServerShutdown \/ GoAway
  BY <1>0, <1>6 DEF OneTurn, BeginDrain, ServerShutdown, GoAway, Goto, ActingPcs, streams
<1> QED BY <1>1, <1>2, <1>3, <1>4, <1>5, <1>6 DEF LoopStep

\* A thread keeps the turn, passes it to a job of the pool, or gives it up.
LEMMA AnswerTurn ==
  ASSUME TurnInv, ~PeerLeft, NEW t \in Threads, AnswerStep(t)
  PROVE  OneTurn'
<1>0. OneTurn /\ pc \in [Threads -> Pcs] /\ jobs \in Nat /\ back \in {"idle", "readMore", "remove"}
  BY DEF TurnInv, TypeOK
<1>1. Return(t) => \E p \in {"idle", "readMore", "remove"} : pc' = [pc EXCEPT ![t] = p] BY <1>0 DEF Return, Goto
<1>2. CASE StreamData(t) BY <1>0, <1>1, <1>2 DEF OneTurn, StreamData, Goto, ActingPcs, streams
<1>3. CASE StreamEnd(t) BY <1>0, <1>1, <1>3 DEF OneTurn, StreamEnd, Goto, ActingPcs
<1>4. CASE Answer(t) \/ SendError(t) \/ ContinueAfter(t) \/ LeaveStream(t)
  BY <1>0, <1>1, <1>4 DEF OneTurn, Answer, SendError, ContinueAfter, LeaveStream, Goto, ActingPcs, streams
<1>5. CASE CheckRequestState(t, "checkNext", "next") \/ CheckRequestState(t, "recheck", "again")
  BY <1>0, <1>5 DEF OneTurn, CheckRequestState, Goto, ActingPcs, streams
<1>6. CASE NextRequest(t) BY <1>0, <1>1, <1>6 DEF OneTurn, NextRequest, Dispatch, Goto, ActingPcs, streams
<1>7. CASE Release(t) BY <1>0, <1>7 DEF OneTurn, Release, Goto, ActingPcs, streams
<1>8. CASE Again(t) BY <1>0, <1>1, <1>8 DEF OneTurn, Again, Goto, ActingPcs, streams
<1> QED BY <1>2, <1>3, <1>4, <1>5, <1>6, <1>7, <1>8 DEF AnswerStep

\* A worker takes the turn from the queue; its handler leaves it with the body it
\* waits for.
LEMMA WorkerTurn ==
  ASSUME TurnInv, ~PeerLeft, NEW w \in Workers, WorkerStep(w) \/ HandlerStep(w)
  PROVE  OneTurn'
<1> USE DEF Threads
<1>0. OneTurn /\ pc \in [Threads -> Pcs] /\ jobs \in Nat BY DEF TurnInv, TypeOK
<1>1. CASE Take(w) BY <1>0, <1>1 DEF OneTurn, Take, Goto, ActingPcs, streams
<1>2. CASE \E close \in BOOLEAN : Process(w, close) BY <1>0, <1>2 DEF OneTurn, Process, Goto, ActingPcs, streams
<1>3. CASE Respond(w) \/ SendHeaders(w) \/ EndResponse(w)
  BY <1>0, <1>3 DEF OneTurn, Respond, SendHeaders, EndResponse, Goto, ActingPcs, streams
<1>4. CASE ReadBodyStream(w) BY <1>0, <1>4 DEF OneTurn, ReadBodyStream, Goto, ActingPcs
<1> QED BY <1>1, <1>2, <1>3, <1>4 DEF WorkerStep, HandlerStep

\* Once the peer has left, it has left.
LEMMA LeftForGood ==
  ASSUME TurnInv, Next, PeerLeft
  PROVE  PeerLeft'
<1>1. pc[Loop] # "route" BY DEF TurnInv, LoopLeaving
<1> QED BY <1>1 DEF PeerLeft, Next, LoopStep, AnswerStep, WorkerStep, HandlerStep, ReadComplete, ReadEnds, Route,
       Busy, CheckRequestState, Act, ReadMore, Remove, Notice, CloseIdle, BeginDrain, ServerShutdown, GoAway,
       StreamData, StreamEnd, Answer, SendError, ContinueAfter, LeaveStream, NextRequest, Release, Again,
       Take, Process, Respond, SendHeaders, EndResponse, ReadBodyStream, locals

LEMMA TurnNext ==
  ASSUME TurnInv, [Next]_vars
  PROVE  TurnInv'
<1>1. CASE UNCHANGED vars
  BY <1>1 DEF vars, TurnInv, TypeOK, LocalsOK, LoopLeaving, OneTurn, PeerLeft, input, parser, flags, streams,
       locals, history
<1>2. CASE Next
  <2>1. TypeOK /\ LocalsOK BY DEF TurnInv
  <2>2. Loop \in Threads BY DEF Threads
  <2>3. TypeOK' /\ LocalsOK' BY <1>2, <2>1, <2>2, LoopTypes, AnswerTypes, WorkerTypes DEF Next, LoopStep
  <2>4. LoopLeaving' BY <1>2, LeavingNext
  <2>5. ~PeerLeft' => OneTurn' BY <1>2, LeftForGood, LoopTurn, AnswerTurn, WorkerTurn DEF Next
  <2> QED BY <2>3, <2>4, <2>5 DEF TurnInv
<1> QED BY <1>1, <1>2

\* What OneTurn says of the numbers.
LEMMA TurnCounts == TurnInv => OneAtATime
<1> SUFFICES ASSUME TurnInv, ~PeerLeft
             PROVE  /\ jobs + Cardinality(Acting) <= 1
                    /\ jobs + Cardinality(Acting) > 0 => isProcessing BY DEF OneAtATime
<1>0. OneTurn /\ jobs \in {0, 1} BY DEF TurnInv, TypeOK, OneTurn
<1>1. Acting = {t \in Threads : pc[t] \in ActingPcs} BY DEF Acting, ActingPcs
<1>2. CASE Acting = {} BY <1>0, <1>1, <1>2, FS_EmptySet DEF OneTurn
<1>3. CASE Acting # {}
  <2>1. PICK t : t \in Acting BY <1>3
  <2>2. Acting = {t} BY <1>0, <1>1, <2>1 DEF OneTurn
  <2>3. Cardinality(Acting) = 1 BY <2>2, FS_Singleton
  <2> QED BY <1>0, <1>1, <2>1, <2>3 DEF OneTurn
<1> QED BY <1>2, <1>3

----
\* ConnectionRequests: the order of the answers, when at most one request of a
\* connection is on a stream route.

\* That is what MaxStreamed <= 1 comes to.
OneStreamed ==
  \A m, n \in DOMAIN requests :
    OnStreamRoute(requests[m]) /\ OnStreamRoute(requests[n]) => m = n

Holding == {"handler", "streaming", "answer", "finish"}

\* n requests are answered: the parser is between them and the next, or in it.
Position(n) ==
  \/ msg = NoMsg /\ used = 2 * n
  \/ /\ msg.started /\ ~msg.failed
     /\ used = IF msg.complete THEN 2 * n + 2 ELSE 2 * n + 1
     /\ msg.streaming => KindOf(n + 1) \in {"upload", "badBody"}

\* The parser met something that is no request.
NoRequest == msg.failed /\ ~HasRequest

\* Nobody has the turn, and nobody will get it: is_processing_request_ stays set.
TurnLost ==
  /\ isProcessing /\ jobs = 0 /\ \A t \in Threads : pc[t] \notin ActingPcs
  /\ onEnd = 0 \/ (msg.failed /\ \A t \in Threads : pc[t] # "end")

Over == TurnLost \/ NoRequest

InOrder == \A i \in DOMAIN answers : answers[i] = i

\* A thread that met a body that was not read.
Abandons(t) == pc[t] = "leave" /\ got[t] = "unread"

\* Where the parser is, as long as the conversation goes on.
ParserPlace ==
  ~Over =>
    /\ (\A t \in Threads : pc[t] # "continue" /\ ~Abandons(t)) => Position(Len(answers))
    /\ \A t \in Threads :
         /\ pc[t] \in Holding => HasRequest /\ held[t] = Current
         /\ pc[t] = "continue" => Len(answers) > 0 /\ Position(Len(answers) - 1) /\ HasRequest
         /\ Abandons(t) =>
              /\ onData = 0
              /\ \/ msg.streaming /\ ~msg.complete
                 \/ /\ msg = NoMsg /\ used = 2 * Len(answers) - 1 /\ Len(answers) > 0
                    /\ KindOf(Len(answers)) \in {"upload", "badBody"}
    /\ onEnd # 0 => HasRequest /\ onEnd = Current
    /\ ~msg.failed

\* The callbacks of the one request that is streamed.
Callbacks ==
  /\ onData # 0 => onData \in DOMAIN requests /\ OnStreamRoute(KindOf(onData))
  /\ ~Over =>
       /\ \/ onData <= Len(answers)
          \/ /\ onData = Len(answers) + 1 /\ HasRequest
             /\ \A t \in Threads : pc[t] # "continue"
       /\ onData # 0 /\ msg.streaming /\ ~msg.complete => onEnd = onData
       /\ \A t \in Threads : pc[t] = "end" => onEnd # 0 /\ msg.complete
       /\ \A t, u \in Threads : pc[t] = "end" /\ pc[u] = "end" => t = u

\* An error ends the conversation.
ErrorsEnd ==
  /\ msg.failed => Over
  /\ ~InOrder => Over /\ closing
  /\ \A t \in Threads : (pc[t] = "error" => Over) /\ (got[t] = "error" => msg.failed)
  /\ TurnLost => closing \/ \E t \in Threads : pc[t] = "error"
  /\ NoRequest => /\ msg.started /\ onEnd = 0
                  /\ \A t \in Threads : pc[t] \notin Holding \cup {"continue"}
  /\ NoRequest /\ InOrder /\ ~TurnLost =>
       /\ Len(answers) + 1 \in DOMAIN requests /\ KindOf(Len(answers) + 1) = "bad"
       /\ Len(answers) = 0 => \/ closing \/ pc[Loop] = "error"
                              \/ pc[Loop] = "act" /\ got[Loop] = "error"

\* Whoever puts is_processing_request_ down looks at the buffer again: a request
\* that has arrived whole is seen by the loop or by that thread.
SomebodyLooks ==
  /\ ~isProcessing /\ Arrived(Len(answers) + 1) =>
       \/ closing \/ removed \/ NoRequest
       \/ pc[Loop] \in {"route", "busy", "check"}
       \/ pc[Loop] = "act" /\ got[Loop] \in {"complete", "headers"}
       \/ \E t \in Threads : pc[t] = "recheck" \/ (pc[t] = "again" /\ got[t] = "complete")
  /\ \A t \in Threads :
       pc[t] \in {"continue", "leave", "checkNext", "next", "release", "recheck", "again"}
         => Len(answers) > 0
  /\ pc[Loop] = "act" /\ got[Loop] = "incomplete" /\ ~Over => used = came /\ ~HasRequest
  /\ state = "streaming" =>
       isProcessing /\ \A t \in Threads : pc[t] \notin {"checkNext", "next", "release"}

\* ... and a read is armed, or the thread is there that will arm it.
ReadOwed ==
  /\ \/ isReading \/ removed \/ closing \/ isProcessing
     \/ \E t \in Threads : pc[t] \in {"recheck", "again"}
     \/ pc[Loop] \in {"route", "busy", "check", "act", "error", "readMore", "remove"}
     \/ pc[Loop] \in {"stream", "end"} /\ back = "readMore"

\* on_server_shutdown() found nothing that waits.
NoticeExact == pc[Loop] = "closeIdle" /\ ~closing => came = 2 * Len(answers)

OrderParts ==
  /\ ParserPlace /\ Callbacks /\ ErrorsEnd /\ SomebodyLooks /\ ReadOwed /\ NoticeExact
  /\ AnsweredInOrder

\* The inductive invariant, and what of it holds while the peer is there.
OrderInv == TurnInv /\ OneStreamed /\ (~PeerLeft => OrderParts)

OrderFacts ==
  /\ TypeOK /\ LocalsOK /\ OneTurn /\ OneStreamed
  /\ ParserPlace /\ Callbacks /\ ErrorsEnd /\ SomebodyLooks /\ ReadOwed /\ NoticeExact
  /\ AnsweredInOrder

\* What check_request_state() makes of a parser between two requests, or in one.
LEMMA ParsedPlace ==
  ASSUME TypeOK, LocalsOK, NEW n \in Nat, Position(n),
         used' = Parsed.used, msg' = Parsed.msg, requests' = requests
  PROVE  /\ Parsed.answer = "error" =>
              /\ msg'.failed /\ msg'.started /\ ~msg'.complete /\ ~msg'.streaming /\ ~HasRequest
              /\ n + 1 \in DOMAIN requests /\ KindOf(n + 1) = "bad"
         /\ Parsed.answer # "error" => Position(n)' /\ ~msg'.failed
         /\ HasRequest => msg' = msg /\ used' = used
         /\ ~HasRequest /\ msg'.streaming => KindOf(n + 1) \in {"upload", "badBody"} /\ n + 1 \in DOMAIN requests
         /\ Parsed.answer = "incomplete" => used' = came /\ ~msg'.complete /\ ~msg'.streaming
         /\ came >= 2 * n + 2 => Parsed.answer # "incomplete"
         /\ came >= 2 * n + 2 /\ KindOf(n + 1) \in {"get", "empty"} => Parsed.answer = "complete"
         /\ Parsed.answer \in {"complete", "headers", "error", "incomplete"}
<1>1. /\ came \in Nat /\ used \in Nat /\ used <= came /\ Len(requests) \in Nat /\ came <= 2 * Len(requests)
      /\ DOMAIN requests = 1 .. Len(requests) BY DEF TypeOK, LocalsOK
<1>2. msg \in Marks /\ msg.complete \in BOOLEAN /\ msg.streaming \in BOOLEAN /\ msg.started \in BOOLEAN
      /\ msg.failed \in BOOLEAN BY DEF LocalsOK, Marks
<1>3. CASE msg.complete
  <2>1. Parsed = [answer |-> "complete", used |-> used + 0, msg |-> msg] BY <1>3 DEF Parsed
  <2>2. msg' = msg /\ used' = used /\ Parsed.answer = "complete" BY <1>1, <2>1
  <2> QED BY <1>1, <1>2, <1>3, <2>2 DEF Position, HasRequest, KindOf, NoMsg
<1>4. CASE ~msg.complete /\ msg.streaming
  <2>1. Parsed = [answer |-> "headers", used |-> used + 0, msg |-> msg] BY <1>4 DEF Parsed
  <2>2. msg' = msg /\ used' = used /\ Parsed.answer = "headers" BY <1>1, <2>1
  <2> QED BY <1>1, <1>2, <1>4, <2>2 DEF Position, HasRequest, KindOf, NoMsg
<1>5. CASE ~msg.complete /\ ~msg.streaming
  <2>1. ~msg.failed BY DEF Position, NoMsg
  <2>2. CASE came - used = 0
    <3>1. Parsed = [answer |-> "incomplete", used |-> used + 0, msg |-> msg] BY <1>5, <2>1, <2>2 DEF Parsed
    <3>2. msg' = msg /\ used' = used /\ Parsed.answer = "incomplete" /\ used = came BY <1>1, <2>2, <3>1
    <3> QED BY <1>1, <1>2, <1>5, <2>1, <3>2 DEF Position, HasRequest, KindOf, NoMsg
  <2>3. CASE came - used # 0 /\ msg.started
    <3>1. Parsed = [answer |-> "complete", used |-> used + 1, msg |-> [msg EXCEPT !.complete = TRUE]]
      BY <1>5, <2>1, <2>3 DEF Parsed
    <3>2. /\ msg'.started /\ ~msg'.failed /\ msg'.complete /\ ~msg'.streaming
          /\ used' = used + 1 /\ Parsed.answer = "complete" BY <1>2, <1>5, <2>1, <2>3, <3>1 DEF Marks
    <3>3. used = 2 * n + 1 BY <1>5, <2>3 DEF Position, NoMsg
    <3> QED BY <1>1, <1>2, <1>5, <3>2, <3>3 DEF Position, HasRequest, KindOf
  <2>4. CASE came - used # 0 /\ ~msg.started
    <3>1. msg = NoMsg /\ used = 2 * n BY <2>4 DEF Position
    <3>2. (used + 2) \div 2 = n + 1 /\ n + 1 \in DOMAIN requests BY <1>1, <2>4, <3>1
    <3> DEFINE kind == KindOf(n + 1)
    <3>3. CASE kind = "bad"
      <4>1. Parsed = [answer |-> "error", used |-> used + (came - used),
                      msg |-> [[msg EXCEPT !.started = TRUE] EXCEPT !.failed = TRUE]]
        BY <1>5, <2>1, <2>4, <3>2, <3>3 DEF Parsed
      <4> QED BY <1>1, <1>5, <3>1, <3>2, <3>3, <4>1 DEF HasRequest, NoMsg
    <3>4. CASE kind \in {"upload", "badBody"}
      <4>1. Parsed = [answer |-> "headers", used |-> used + 1,
                      msg |-> [[msg EXCEPT !.started = TRUE] EXCEPT !.streaming = TRUE]]
        BY <1>5, <2>1, <2>4, <3>2, <3>4 DEF Parsed
      <4>2. /\ msg'.started /\ ~msg'.failed /\ ~msg'.complete /\ msg'.streaming
            /\ used' = 2 * n + 1 /\ Parsed.answer = "headers" BY <1>1, <3>1, <4>1 DEF NoMsg
      <4> QED BY <1>1, <1>5, <3>2, <3>4, <4>2 DEF HasRequest, Position, KindOf
    <3>5. CASE kind # "bad" /\ kind \notin {"upload", "badBody"} /\ came - used = 1
      <4>1. Parsed = [answer |-> "incomplete", used |-> used + 1, msg |-> [msg EXCEPT !.started = TRUE]]
        BY <1>5, <2>1, <2>4, <3>2, <3>5 DEF Parsed
      <4>3. used + 1 = came BY <1>1, <3>5
      <4>2. /\ msg'.started /\ ~msg'.failed /\ ~msg'.complete /\ ~msg'.streaming
            /\ used' = 2 * n + 1 /\ used' = came /\ Parsed.answer = "incomplete" BY <1>1, <3>1, <4>1, <4>3 DEF NoMsg
      <4> QED BY <1>1, <1>5, <3>2, <4>2 DEF HasRequest, Position, KindOf
    <3>6. CASE kind # "bad" /\ kind \notin {"upload", "badBody"} /\ came - used # 1
      <4>1. Parsed = [answer |-> "complete", used |-> used + 2,
                      msg |-> [[msg EXCEPT !.started = TRUE] EXCEPT !.complete = TRUE]]
        BY <1>5, <2>1, <2>4, <3>2, <3>6 DEF Parsed
      <4>2. /\ msg'.started /\ ~msg'.failed /\ msg'.complete /\ ~msg'.streaming
            /\ used' = 2 * n + 2 /\ Parsed.answer = "complete" BY <1>1, <3>1, <4>1 DEF NoMsg
      <4> QED BY <1>1, <1>5, <3>2, <4>2 DEF HasRequest, Position, KindOf
    <3> QED BY <3>3, <3>4, <3>5, <3>6
  <2> QED BY <1>2, <2>2, <2>3, <2>4
<1> QED BY <1>2, <1>3, <1>4, <1>5

LEMMA AppendFacts ==
  ASSUME NEW x \in Nat, answers \in Seq(Nat)
  PROVE  LET s == Append(answers, x)
         IN  /\ Len(answers) \in Nat /\ Len(s) = Len(answers) + 1 /\ DOMAIN s = 1 .. Len(answers) + 1
             /\ DOMAIN answers = 1 .. Len(answers)
             /\ s[Len(answers) + 1] = x /\ \A i \in 1 .. Len(answers) : s[i] = answers[i] OBVIOUS

\* check_request_state(), wherever it is called from.
LEMMA OrderCheck ==
  ASSUME OrderFacts, NEW t \in Threads, NEW from, NEW to, CheckRequestState(t, from, to),
         \/ from = "check" /\ to = "act" /\ t = Loop
         \/ from = "checkNext" /\ to = "next"
         \/ from = "recheck" /\ to = "again"
  PROVE  OrderParts'
<1> DEFINE n == Len(answers)
<1>a. /\ pc \in [Threads -> Pcs] /\ pc' = [pc EXCEPT ![t] = to] /\ pc[t] = from
      /\ got \in [Threads -> Verdicts] /\ got' = [got EXCEPT ![t] = Parsed.answer]
      /\ used' = Parsed.used /\ msg' = Parsed.msg /\ n \in Nat /\ msg \in Marks
      /\ UNCHANGED <<requests, came, state, shouldClose, closing, removed, draining, isReading, isProcessing,
                     onData, onEnd, jobs, held, back, answers>>
      /\ DOMAIN requests = 1 .. Len(requests) /\ Len(requests) \in Nat /\ came \in Nat /\ used \in Nat
      /\ Loop \in Threads
  BY DEF OrderFacts, TypeOK, LocalsOK, CheckRequestState, Goto, input, flags, streams, history, Threads
<1>b. HasRequest \/ NoRequest => msg' = msg /\ used' = used BY <1>a DEF Parsed, HasRequest, NoRequest, Marks
<1>c. (NoRequest => Parsed.answer = "error") /\ (HasRequest => Parsed.answer # "error")
      /\ (Parsed.answer = "error" => msg'.failed) BY <1>a DEF Parsed, HasRequest, NoRequest, Marks
<1>d. TurnLost => TurnLost'
  <2>1. msg.failed => msg'.failed BY <1>a, <1>b DEF HasRequest, NoRequest, Marks
  <2> QED BY <1>a, <2>1 DEF TurnLost, ActingPcs
<1>1. Over => Over' BY <1>b, <1>d DEF Over, NoRequest, HasRequest
<1>e. (\A u \in Threads : pc[u] # "continue" /\ ~Abandons(u)) /\ ~Over =>
        /\ Parsed.answer = "error" =>
              /\ msg'.failed /\ msg'.started /\ ~msg'.complete /\ ~msg'.streaming /\ ~HasRequest
              /\ n + 1 \in DOMAIN requests /\ KindOf(n + 1) = "bad"
        /\ Parsed.answer # "error" => Position(n)' /\ ~msg'.failed
        /\ ~HasRequest /\ msg'.streaming => KindOf(n + 1) \in {"upload", "badBody"} /\ n + 1 \in DOMAIN requests
        /\ Parsed.answer = "incomplete" => used' = came /\ ~msg'.complete /\ ~msg'.streaming
        /\ came >= 2 * n + 2 => Parsed.answer # "incomplete"
        /\ came >= 2 * n + 2 /\ KindOf(n + 1) \in {"get", "empty"} => Parsed.answer = "complete"
        /\ Parsed.answer \in {"complete", "headers", "error", "incomplete"}
  BY <1>a, ParsedPlace DEF OrderFacts, ParserPlace
<1>f. ASSUME NEW u \in Threads, pc[u] = "continue" \/ Abandons(u), ~Over
      PROVE  /\ ~msg'.failed /\ Parsed.answer # "error"
             /\ \/ HasRequest /\ HasRequest' /\ Parsed.answer # "incomplete"
                \/ /\ ~HasRequest /\ onData = 0 /\ Abandons(u) /\ msg'.streaming /\ ~msg'.complete
                   /\ Parsed.answer = "headers"
                \/ ~HasRequest /\ onData = 0 /\ Abandons(u) /\ msg' = msg /\ used' = used /\ used = came
  <2>1. CASE HasRequest
    <3>1. ~msg.failed /\ msg' = msg BY <1>b, <1>f, <2>1 DEF OrderFacts, ParserPlace
    <3>2. Parsed.answer \notin {"error", "incomplete"} BY <1>a, <2>1 DEF Parsed, HasRequest, Marks
    <3> QED BY <2>1, <3>1, <3>2 DEF HasRequest
  <2>2. CASE ~HasRequest
    <3>1. Abandons(u) /\ onData = 0 /\ msg = NoMsg /\ used = 2 * n - 1 /\ n > 0 /\ KindOf(n) \in {"upload", "badBody"}
      BY <1>f, <2>2 DEF OrderFacts, ParserPlace, HasRequest
    <3>2. (used + 2) \div 2 = n BY <1>a, <3>1
    <3>3. CASE came - used = 0
      <4>1. Parsed = [answer |-> "incomplete", used |-> used + 0, msg |-> msg] BY <3>1, <3>3 DEF Parsed, NoMsg
      <4> QED BY <1>a, <2>2, <3>1, <3>3, <4>1 DEF NoMsg
    <3>4. CASE came - used # 0
      <4>1. Parsed = [answer |-> "headers", used |-> used + 1,
                      msg |-> [[msg EXCEPT !.started = TRUE] EXCEPT !.streaming = TRUE]]
        BY <3>1, <3>2, <3>4 DEF Parsed, NoMsg
      <4> QED BY <1>a, <2>2, <3>1, <4>1 DEF NoMsg, HasRequest
    <3> QED BY <3>3, <3>4
  <2> QED BY <2>1, <2>2
<1>g. /\ \A u \in Threads : Abandons(u)' <=> Abandons(u)
      /\ \A u \in Threads : \A p \in Holding \cup {"continue", "end", "error"} : pc'[u] = p <=> pc[u] = p
  BY <1>a DEF Abandons, Holding
<1>h. ~Over' => ~Over /\ ~msg'.failed /\ Parsed.answer # "error" /\ (HasRequest => HasRequest')
  <2> SUFFICES ASSUME ~Over' PROVE ~Over /\ ~msg'.failed /\ Parsed.answer # "error" /\ (HasRequest => HasRequest')
    OBVIOUS
  <2>1. ~Over BY <1>1
  <2>2. HasRequest => HasRequest' BY <1>b DEF HasRequest
  <2>3. Parsed.answer = "error" => NoRequest' BY <1>e, <1>f, <2>1 DEF NoRequest, HasRequest
  <2>4. ~NoRequest' BY DEF Over
  <2> QED BY <1>e, <1>f, <2>1, <2>2, <2>3, <2>4
<1>2. ParserPlace'
  <2> SUFFICES ASSUME ~Over' PROVE ParserPlace!2' BY DEF ParserPlace
  <2>1. (\A u \in Threads : pc[u] # "continue" /\ ~Abandons(u))' => Position(n)' BY <1>e, <1>g, <1>h
  <2>2. ASSUME NEW u \in Threads
        PROVE  /\ pc'[u] \in Holding => HasRequest' /\ held'[u] = Current'
               /\ pc'[u] = "continue" => n > 0 /\ Position(n - 1)' /\ HasRequest'
               /\ Abandons(u)' =>
                    /\ onData' = 0
                    /\ \/ msg'.streaming /\ ~msg'.complete
                       \/ /\ msg' = NoMsg /\ used' = 2 * n - 1 /\ n > 0
                          /\ KindOf(n)' \in {"upload", "badBody"}
    <3>1. pc'[u] \in Holding => HasRequest' /\ held'[u] = Current'
      BY <1>a, <1>b, <1>g, <1>h DEF OrderFacts, ParserPlace, HasRequest, Current
    <3>2. pc'[u] = "continue" => n > 0 /\ Position(n - 1)' /\ HasRequest'
      BY <1>a, <1>b, <1>g, <1>h DEF OrderFacts, ParserPlace, HasRequest, Position, KindOf
    <3>3. Abandons(u)' => onData' = 0 BY <1>a, <1>g, <1>h DEF OrderFacts, ParserPlace
    <3>4. Abandons(u)' =>  \/ msg'.streaming /\ ~msg'.complete
                       \/ /\ msg' = NoMsg /\ used' = 2 * n - 1 /\ n > 0
                          /\ KindOf(n)' \in {"upload", "badBody"}
      BY <1>a, <1>b, <1>f, <1>g, <1>h DEF OrderFacts, ParserPlace, HasRequest, KindOf, NoMsg
    <3> QED BY <3>1, <3>2, <3>3, <3>4
  <2>3. onEnd' # 0 => HasRequest' /\ onEnd' = Current'
    BY <1>a, <1>b, <1>h DEF OrderFacts, ParserPlace, HasRequest, Current
  <2> QED BY <1>a, <1>h, <2>1, <2>2, <2>3
<1>3. Callbacks'
  <2>1. onData' # 0 => onData' \in (DOMAIN requests)' /\ OnStreamRoute(KindOf(onData))'
    BY <1>a DEF OrderFacts, Callbacks, KindOf, OnStreamRoute
  <2> SUFFICES ASSUME ~Over' PROVE Callbacks!2!2' BY <2>1 DEF Callbacks
  <2>2. onData' <= n \/ (onData' = n + 1 /\ HasRequest' /\ \A u \in Threads : pc'[u] # "continue")
    BY <1>a, <1>g, <1>h DEF OrderFacts, Callbacks
  <2>3. ASSUME onData # 0, msg'.streaming, ~msg'.complete PROVE onEnd = onData
    <3>1. CASE HasRequest BY <1>b, <1>h, <2>3, <3>1 DEF OrderFacts, Callbacks
    <3>2. CASE ~HasRequest
      <4>1. \A u \in Threads : pc[u] # "continue" /\ ~Abandons(u)
        BY <1>f, <1>h, <2>3, <3>2 DEF OrderFacts, ParserPlace
      <4>2. KindOf(n + 1) \in {"upload", "badBody"} /\ n + 1 \in DOMAIN requests BY <1>e, <1>h, <2>3, <3>2, <4>1
      <4>3. onData <= n /\ onData \in DOMAIN requests /\ OnStreamRoute(KindOf(onData))
        BY <1>h, <2>3, <3>2 DEF OrderFacts, Callbacks
      <4>4. onData = n + 1 BY <4>2, <4>3 DEF OrderFacts, OneStreamed, OnStreamRoute, KindOf
      <4> QED BY <1>a, <4>3, <4>4
    <3> QED BY <3>1, <3>2
  <2>4. \A u \in Threads : pc'[u] = "end" => onEnd' # 0 /\ msg'.complete
    BY <1>a, <1>b, <1>g, <1>h DEF OrderFacts, Callbacks, HasRequest
  <2>5. \A u, v \in Threads : pc'[u] = "end" /\ pc'[v] = "end" => u = v BY <1>g, <1>h DEF OrderFacts, Callbacks
  <2> QED BY <1>a, <2>2, <2>3, <2>4, <2>5
<1>4. ErrorsEnd'
  <2>1. msg'.failed => Over' BY <1>h
  <2>2. ~InOrder' => Over' /\ closing' BY <1>a, <1>1 DEF OrderFacts, ErrorsEnd, InOrder
  <2>3. \A u \in Threads : (pc'[u] = "error" => Over') /\ (got'[u] = "error" => msg'.failed)
    <3>1. msg.failed => msg'.failed BY <1>b DEF HasRequest, NoRequest, OrderFacts, LocalsOK, Marks
    <3> QED BY <1>1, <1>a, <1>c, <1>g, <3>1 DEF OrderFacts, ErrorsEnd
  <2>4. TurnLost' => closing' \/ \E u \in Threads : pc'[u] = "error"
    <3>1. TurnLost' /\ onEnd = 0 => TurnLost BY <1>a DEF TurnLost, ActingPcs
    <3>2. onEnd # 0 /\ ~TurnLost => HasRequest /\ ~msg.failed BY DEF OrderFacts, ErrorsEnd, ParserPlace, Over
    <3>3. TurnLost' /\ onEnd # 0 => TurnLost BY <1>a, <1>b, <3>2 DEF TurnLost
    <3> QED BY <1>a, <1>g, <3>1, <3>3 DEF OrderFacts, ErrorsEnd
  <2>5. NoRequest' => /\ msg'.started /\ onEnd' = 0
                      /\ \A u \in Threads : pc'[u] \notin Holding \cup {"continue"}
    <3> SUFFICES ASSUME NoRequest'
                 PROVE  /\ msg'.started /\ onEnd = 0
                        /\ \A u \in Threads : pc[u] \notin Holding \cup {"continue"} BY <1>a, <1>g
    <3>1. ~HasRequest BY <1>b DEF NoRequest, HasRequest
    <3>2. CASE msg.failed BY <1>b, <3>1, <3>2 DEF NoRequest, OrderFacts, ErrorsEnd
    <3>3. CASE ~msg.failed
      <4>1. msg'.started BY <1>a, <3>1, <3>3 DEF Parsed, NoRequest, HasRequest, Marks
      <4>2. CASE TurnLost BY <3>3, <4>1, <4>2 DEF TurnLost, ActingPcs, Holding
      <4>3. CASE ~TurnLost BY <3>1, <3>3, <4>1, <4>3 DEF OrderFacts, ParserPlace, Over, NoRequest
      <4> QED BY <4>2, <4>3
    <3> QED BY <3>2, <3>3
  <2>6. NoRequest' /\ InOrder' /\ ~TurnLost' =>
       /\ n + 1 \in (DOMAIN requests)' /\ KindOf(n + 1)' = "bad"
       /\ n = 0 => closing' \/ pc'[Loop] = "error" \/ (pc'[Loop] = "act" /\ got'[Loop] = "error")
    <3> SUFFICES ASSUME NoRequest', InOrder', ~TurnLost' PROVE <2>6!2 OBVIOUS
    <3>1. ~HasRequest /\ ~TurnLost /\ InOrder BY <1>a, <1>b, <1>d DEF NoRequest, HasRequest, InOrder
    <3>2. CASE NoRequest
      <4>1. /\ n + 1 \in DOMAIN requests /\ KindOf(n + 1) = "bad"
            /\ n = 0 => closing \/ pc[Loop] = "error" \/ (pc[Loop] = "act" /\ got[Loop] = "error")
        BY <3>1, <3>2 DEF OrderFacts, ErrorsEnd
      <4>2. pc[Loop] \in {"error", "act"} => pc'[Loop] = pc[Loop] /\ got'[Loop] = got[Loop] BY <1>a
      <4>3. requests' = requests /\ closing' = closing /\ answers' = answers BY <1>a
      <4>4. n = 0 => closing' \/ pc'[Loop] = "error" \/ (pc'[Loop] = "act" /\ got'[Loop] = "error")
        BY <4>1, <4>2, <4>3
      <4> QED BY <4>1, <4>3, <4>4 DEF KindOf
    <3>3. CASE ~NoRequest
      <4>1. ~Over /\ msg'.failed BY <3>1, <3>3 DEF Over, NoRequest
      <4>2. Parsed.answer = "error" BY <1>e, <1>f, <4>1
      <4>3. n + 1 \in DOMAIN requests /\ KindOf(n + 1) = "bad" BY <1>e, <1>f, <4>1, <4>2
      <4>4. n = 0 => from = "check" BY <1>a DEF OrderFacts, SomebodyLooks
      <4> QED BY <1>a, <4>2, <4>3, <4>4 DEF KindOf
    <3> QED BY <3>2, <3>3
  <2> QED BY <1>a, <2>1, <2>2, <2>3, <2>4, <2>5, <2>6 DEF ErrorsEnd
<1>5. SomebodyLooks'
  <2>1. ASSUME ~isProcessing, Arrived(n + 1), ~closing, ~removed, ~NoRequest',
               from \in {"check", "recheck"}
        PROVE  \/ from = "check" /\ Parsed.answer \in {"complete", "headers"}
               \/ from = "recheck" /\ Parsed.answer = "complete"
    <3>1. ~Over BY <1>b, <2>1 DEF Over, TurnLost, NoRequest, HasRequest
    <3>2. \A u \in Threads : pc[u] # "continue" /\ ~Abandons(u) BY <2>1 DEF OrderFacts, OneTurn, ActingPcs, Abandons
    <3>3. came >= 2 * n + 2 /\ n + 1 \in 1 .. Len(requests) /\ (n > 0 => KindOf(n + 1) \in {"get", "empty"})
      BY <1>a, <2>1 DEF Arrived, OrderFacts, TypeOK
    <3>4. from = "recheck" => n > 0 BY <1>a DEF OrderFacts, SomebodyLooks
    <3>5. Parsed.answer # "error" BY <1>e, <2>1, <3>1, <3>2 DEF NoRequest, HasRequest
    <3> QED BY <1>e, <2>1, <3>1, <3>2, <3>3, <3>4, <3>5
  <2>2. from = "checkNext" => isProcessing BY <1>a DEF OrderFacts, OneTurn, ActingPcs
  <2>3. NoRequest => NoRequest' BY <1>b DEF NoRequest, HasRequest
  <2>4. ASSUME ~isProcessing', Arrived(n + 1)', ~closing', ~removed', ~NoRequest'
        PROVE  \/ pc'[Loop] \in {"route", "busy", "check"}
               \/ pc'[Loop] = "act" /\ got'[Loop] \in {"complete", "headers"}
               \/ \E u \in Threads : pc'[u] = "recheck" \/ (pc'[u] = "again" /\ got'[u] = "complete")
    <3>1. Arrived(n + 1) BY <1>a, <2>4 DEF Arrived, KindOf
    <3>2. CASE from = "check" BY <1>a, <2>1, <2>4, <3>1, <3>2
    <3>3. CASE from = "recheck" BY <1>a, <2>1, <2>4, <3>1, <3>3
    <3> QED BY <1>a, <2>2, <2>4, <3>2, <3>3
  <2>5. \A u \in Threads :
       pc'[u] \in {"continue", "leave", "checkNext", "next", "release", "recheck", "again"} => n > 0
    BY <1>a DEF OrderFacts, SomebodyLooks
  <2>6. pc'[Loop] = "act" /\ got'[Loop] = "incomplete" /\ ~Over' => used' = came /\ ~HasRequest'
    <3> SUFFICES ASSUME pc'[Loop] = "act", got'[Loop] = "incomplete", ~Over' PROVE used' = came /\ ~HasRequest'
      OBVIOUS
    <3>1. CASE t = Loop
      <4>1. Parsed.answer = "incomplete" BY <1>a, <3>1
      <4>2. CASE \E u \in Threads : pc[u] = "continue" \/ Abandons(u) BY <1>f, <1>h, <4>1, <4>2 DEF HasRequest
      <4> QED BY <1>e, <1>h, <4>1, <4>2 DEF HasRequest
    <3>2. CASE t # Loop
      <4>1. used = came /\ ~HasRequest BY <1>a, <1>h, <3>2 DEF OrderFacts, SomebodyLooks
      <4>2. ~msg.failed BY <1>h DEF OrderFacts, ParserPlace
      <4>3. Parsed = [answer |-> "incomplete", used |-> used + 0, msg |-> msg]
        BY <1>a, <4>1, <4>2 DEF Parsed, HasRequest
      <4> QED BY <1>a, <4>1, <4>3 DEF HasRequest
    <3> QED BY <3>1, <3>2
  <2>7. state' = "streaming" =>
          isProcessing' /\ \A u \in Threads : pc'[u] \notin {"checkNext", "next", "release"}
    BY <1>a DEF OrderFacts, SomebodyLooks
  <2> QED BY <1>a, <2>4, <2>5, <2>6, <2>7 DEF SomebodyLooks
<1>6. ReadOwed' BY <1>a DEF OrderFacts, ReadOwed
<1>7. NoticeExact' BY <1>a DEF OrderFacts, NoticeExact
<1>8. AnsweredInOrder' BY <1>a DEF OrderFacts, AnsweredInOrder, PeerLeft
<1> QED BY <1>1, <1>2, <1>3, <1>4, <1>5, <1>6, <1>7, <1>8 DEF OrderParts

\* Places in the loop where the turn, the parser and the errors are not touched.
Elsewhere == {"idle", "route", "busy", "check", "stream", "readMore", "remove", "notice", "closeIdle"}

\* A step that moves threads among those places, or from one of a handler's to
\* another, and changes neither the parser nor who has the turn.
LEMMA OrderFrame ==
  ASSUME OrderFacts,
         UNCHANGED <<requests, used, msg, onData, onEnd, jobs, answers, got, held, isProcessing>>,
         closing => closing', PeerLeft' <=> PeerLeft,
         \A u \in Threads : \/ pc'[u] = pc[u]
                            \/ pc[u] \in Holding /\ pc'[u] \in Holding
                            \/ pc[u] \in Elsewhere /\ pc'[u] \in Elsewhere
  PROVE  /\ Over' <=> Over
         /\ ParserPlace' /\ Callbacks' /\ ErrorsEnd' /\ AnsweredInOrder'
<1>1. ASSUME NEW u \in Threads
      PROVE  /\ pc'[u] \in Holding <=> pc[u] \in Holding
             /\ pc'[u] \in ActingPcs <=> pc[u] \in ActingPcs
             /\ \A p \in {"continue", "leave", "end", "error", "act"} : pc'[u] = p <=> pc[u] = p
  BY DEF Elsewhere, Holding, ActingPcs
<1>2. (TurnLost' <=> TurnLost) /\ (NoRequest' <=> NoRequest) /\ (InOrder' <=> InOrder) /\ (HasRequest' <=> HasRequest)
  BY <1>1 DEF TurnLost, NoRequest, HasRequest, InOrder
<1>3. Over' <=> Over BY <1>2 DEF Over
<1>4. ParserPlace' BY <1>1, <1>2, <1>3 DEF OrderFacts, ParserPlace, Abandons, Position, KindOf, Current
<1>5. Callbacks' BY <1>1, <1>2, <1>3 DEF OrderFacts, Callbacks, KindOf
<1>6. ErrorsEnd'
  <2>1. Loop \in Threads BY DEF Threads
  <2> QED BY <1>1, <1>2, <1>3, <2>1 DEF OrderFacts, ErrorsEnd, KindOf
<1>7. AnsweredInOrder' BY DEF OrderFacts, AnsweredInOrder
<1> QED BY <1>3, <1>4, <1>5, <1>6, <1>7

\* What the loop does around the requests.
LEMMA OrderLoop ==
  ASSUME OrderFacts, ~PeerLeft, ~PeerLeft',
         \/ \E n \in 1 .. 2 * MaxRequests : ReadComplete(n)
         \/ Route \/ Busy \/ ReadMore \/ Remove \/ Notice \/ CloseIdle \/ BeginDrain \/ ServerShutdown \/ GoAway
  PROVE  OrderParts'
<1>1. /\ Loop \in Threads /\ pc \in [Threads -> Pcs] /\ Len(answers) \in Nat
      /\ UNCHANGED <<requests, used, msg, onData, onEnd, jobs, answers, got, held, isProcessing, state>>
      /\ \/ pc' = pc
         \/ /\ pc[Loop] \in Elsewhere \ {"stream"}
            /\ \E p \in Elsewhere : pc' = [pc EXCEPT ![Loop] = p]
      /\ (closing => closing') /\ (removed => removed')
  <2>1. CASE \E n \in 1 .. 2 * MaxRequests : ReadComplete(n)
    BY <2>1 DEF OrderFacts, TypeOK, LocalsOK, ReadComplete, Goto, Elsewhere, Threads, parser, flags, streams, locals, history
  <2>2. CASE Route \/ Busy
    BY <2>2 DEF OrderFacts, TypeOK, LocalsOK, Route, Busy, Goto, Elsewhere, Threads, input, parser, flags, streams, locals, history
  <2>3. CASE ReadMore \/ Remove
    BY <2>3 DEF OrderFacts, TypeOK, LocalsOK, ReadMore, Remove, Goto, Elsewhere, Threads, input, parser, flags, streams, locals, history
  <2>4. CASE Notice \/ CloseIdle
    BY <2>4 DEF OrderFacts, TypeOK, LocalsOK, Notice, CloseIdle, Goto, Elsewhere, Threads, input, parser, flags, streams, locals, history
  <2>5. CASE BeginDrain \/ ServerShutdown \/ GoAway
    BY <2>5 DEF OrderFacts, TypeOK, LocalsOK, BeginDrain, ServerShutdown, GoAway, Goto, Elsewhere, Threads, input, parser, streams, locals, history
  <2> QED BY <2>1, <2>2, <2>3, <2>4, <2>5
<1>2. /\ Over' <=> Over
      /\ ParserPlace' /\ Callbacks' /\ ErrorsEnd' /\ AnsweredInOrder'
  <2>1. \A u \in Threads : pc'[u] = pc[u] \/ (pc[u] \in Elsewhere /\ pc'[u] \in Elsewhere) BY <1>1 DEF Elsewhere
  <2> QED BY <1>1, <2>1, OrderFrame
<1>3. SomebodyLooks'
  <2>1. ~isProcessing => state # "streaming" BY DEF OrderFacts, SomebodyLooks
  <2>2. (NoRequest' <=> NoRequest) /\ (Arrived(Len(answers) + 1)' => Arrived(Len(answers) + 1) \/ came' # came)
    BY <1>1 DEF NoRequest, HasRequest, Arrived, KindOf
  <2>3. came' = came \/ pc'[Loop] = "route"
    BY <1>1 DEF ReadComplete, Route, Busy, ReadMore, Remove, Notice, CloseIdle, BeginDrain, ServerShutdown, GoAway, input, Goto
  <2>4. ASSUME ~isProcessing', pc[Loop] \in {"route", "busy", "check"}
        PROVE  pc'[Loop] \in {"route", "busy", "check"}
    BY <1>1, <2>1, <2>4 DEF ReadComplete, Route, Busy, ReadMore, Remove, Notice, CloseIdle, BeginDrain, ServerShutdown, GoAway, Goto
  <2>5. ASSUME NEW u \in Threads, NEW p \in {"recheck", "again", "act"}
        PROVE  pc'[u] = p <=> pc[u] = p BY <1>1 DEF Elsewhere
  <2>6. ~isProcessing' /\ Arrived(Len(answers) + 1)' =>
       \/ closing' \/ removed' \/ NoRequest'
       \/ pc'[Loop] \in {"route", "busy", "check"}
       \/ pc'[Loop] = "act" /\ got'[Loop] \in {"complete", "headers"}
       \/ \E t \in Threads : pc'[t] = "recheck" \/ (pc'[t] = "again" /\ got'[t] = "complete")
    BY <1>1, <2>2, <2>3, <2>4, <2>5 DEF OrderFacts, SomebodyLooks
  <2>7. \A t \in Threads :
       pc'[t] \in {"continue", "leave", "checkNext", "next", "release", "recheck", "again"} => Len(answers) > 0
    BY <1>1 DEF OrderFacts, SomebodyLooks, Elsewhere
  <2>8. pc'[Loop] = "act" /\ got'[Loop] = "incomplete" /\ ~Over' => used' = came' /\ ~HasRequest'
    BY <1>1, <1>2, <2>3, <2>5 DEF OrderFacts, SomebodyLooks, HasRequest
  <2>9. state' = "streaming" =>
          isProcessing' /\ \A t \in Threads : pc'[t] \notin {"checkNext", "next", "release"}
    BY <1>1 DEF OrderFacts, SomebodyLooks, Elsewhere
  <2> QED BY <1>1, <2>6, <2>7, <2>8, <2>9 DEF SomebodyLooks
<1>4. ReadOwed'
  <2>1. CASE \E n \in 1 .. 2 * MaxRequests : ReadComplete(n) BY <1>1, <2>1 DEF ReadOwed, ReadComplete, Goto
  <2>2. CASE Route \/ Busy BY <1>1, <2>2 DEF OrderFacts, ReadOwed, Route, Busy, Goto
  <2>3. CASE ReadMore BY <1>1, <2>3 DEF OrderFacts, ReadOwed, ReadMore, TriggerRead, Goto, flags
  <2>4. CASE Remove \/ Notice \/ CloseIdle
    BY <1>1, <2>4 DEF OrderFacts, ReadOwed, Remove, Notice, CloseIdle, Goto, flags, locals
  <2>5. CASE BeginDrain \/ ServerShutdown \/ GoAway
    BY <1>1, <2>5 DEF OrderFacts, ReadOwed, BeginDrain, ServerShutdown, GoAway, Goto, flags, locals
  <2> QED BY <2>1, <2>2, <2>3, <2>4, <2>5
<1>5. NoticeExact'
  <2>1. CASE Notice
    <3>1. CASE IdleNow
      <4>1. \A t \in Threads : pc[t] # "continue" /\ ~Abandons(t)
        BY <3>1 DEF IdleNow, OrderFacts, OneTurn, ActingPcs, Abandons
      <4>2. ~Over BY <3>1 DEF IdleNow, OrderFacts, Over, TurnLost, ErrorsEnd
      <4>3. used = 2 * Len(answers) BY <3>1, <4>1, <4>2 DEF IdleNow, OrderFacts, ParserPlace, Position
      <4> QED BY <2>1, <3>1, <4>3 DEF IdleNow, NoticeExact, Notice, input, history, flags
    <3>2. CASE ~IdleNow BY <1>1, <2>1, <3>2 DEF NoticeExact, Notice, Goto
    <3> QED BY <3>1, <3>2
  <2>2. CASE \E n \in 1 .. 2 * MaxRequests : ReadComplete(n) BY <1>1, <2>2 DEF NoticeExact, ReadComplete, Goto
  <2>3. CASE Route \/ Busy \/ ReadMore BY <1>1, <2>3 DEF NoticeExact, Route, Busy, ReadMore, Goto
  <2>4. CASE Remove \/ CloseIdle BY <1>1, <2>4 DEF NoticeExact, Remove, CloseIdle, Goto
  <2>5. CASE BeginDrain \/ ServerShutdown \/ GoAway
    BY <1>1, <2>5 DEF OrderFacts, NoticeExact, BeginDrain, ServerShutdown, GoAway, Goto, input
  <2> QED BY <2>1, <2>2, <2>3, <2>4, <2>5
<1> QED BY <1>2, <1>3, <1>4, <1>5 DEF OrderParts

\* The handler goes on with its response.
LEMMA OrderHandler ==
  ASSUME OrderFacts, ~PeerLeft, NEW w \in Workers, Respond(w) \/ SendHeaders(w) \/ EndResponse(w)
  PROVE  OrderParts'
<1>1. /\ w \in Threads /\ w # Loop /\ Loop \in Threads /\ pc \in [Threads -> Pcs]
      /\ pc[w] \in Holding /\ \E p \in Holding : pc' = [pc EXCEPT ![w] = p]
      /\ UNCHANGED <<requests, came, used, msg, onData, onEnd, jobs, answers, got, held, isProcessing, state,
                     closing, removed, back>>
      /\ isReading => isReading'
  BY RequestsAssumption DEF OrderFacts, TypeOK, Respond, SendHeaders, EndResponse, TriggerRead, Goto, Holding,
     Threads, input, parser, flags, streams, locals, history
<1>2. /\ Over' <=> Over
      /\ ParserPlace' /\ Callbacks' /\ ErrorsEnd' /\ AnsweredInOrder'
  <2>1. \A u \in Threads : pc'[u] = pc[u] \/ (pc[u] \in Holding /\ pc'[u] \in Holding) BY <1>1 DEF Holding
  <2> QED BY <1>1, <2>1, OrderFrame DEF PeerLeft
<1>3. \A u \in Threads : pc'[u] = pc[u] \/ (pc[u] \in Holding /\ pc'[u] \in Holding) BY <1>1
<1>4. pc'[Loop] = pc[Loop] /\ (NoRequest' <=> NoRequest) /\ (HasRequest' <=> HasRequest)
      /\ (Arrived(Len(answers) + 1)' <=> Arrived(Len(answers) + 1)) BY <1>1 DEF NoRequest, HasRequest, Arrived, KindOf
<1>5. SomebodyLooks' BY <1>1, <1>2, <1>3, <1>4 DEF OrderFacts, SomebodyLooks, Holding
<1>6. ReadOwed' /\ NoticeExact' BY <1>1, <1>3, <1>4 DEF OrderFacts, ReadOwed, NoticeExact, Holding
<1> QED BY <1>2, <1>5, <1>6 DEF OrderParts

\* The turn passes from the queue to a worker.
LEMMA OrderTake ==
  ASSUME OrderFacts, ~PeerLeft, NEW w \in Workers, Take(w)
  PROVE  OrderParts'
<1>1. /\ w \in Threads /\ w # Loop /\ Loop \in Threads /\ pc \in [Threads -> Pcs]
      /\ pc[w] = "idle" /\ pc' = [pc EXCEPT ![w] = "process"] /\ jobs = 1 /\ jobs' = 0
      /\ UNCHANGED <<requests, came, used, msg, onData, onEnd, answers, got, held, isProcessing, state,
                     isReading, closing, removed, back>>
  BY RequestsAssumption DEF OrderFacts, OneTurn, TypeOK, Take, Goto, Threads, input, parser, flags, streams,
     locals, history
<1>2. \A u \in Threads : pc'[u] = pc[u] \/ (pc[u] = "idle" /\ pc'[u] = "process") BY <1>1
<1>3. /\ (Over' <=> Over) /\ ~TurnLost /\ ~TurnLost' /\ (NoRequest' <=> NoRequest) /\ (HasRequest' <=> HasRequest)
      /\ (Arrived(Len(answers) + 1)' <=> Arrived(Len(answers) + 1)) /\ (InOrder' <=> InOrder)
  BY <1>1 DEF Over, TurnLost, NoRequest, HasRequest, Arrived, KindOf, InOrder, ActingPcs
<1>4. ParserPlace' BY <1>1, <1>2, <1>3 DEF OrderFacts, ParserPlace, Abandons, Position, KindOf, Current, Holding
<1>5. Callbacks' BY <1>1, <1>2, <1>3 DEF OrderFacts, Callbacks, KindOf
<1>6. ErrorsEnd' BY <1>1, <1>2, <1>3 DEF OrderFacts, ErrorsEnd, KindOf, Holding
<1>7. SomebodyLooks' BY <1>1, <1>2, <1>3 DEF OrderFacts, SomebodyLooks
<1>8. ReadOwed' /\ NoticeExact' /\ AnsweredInOrder'
  BY <1>1, <1>2 DEF OrderFacts, ReadOwed, NoticeExact, AnsweredInOrder, PeerLeft
<1> QED BY <1>3, <1>4, <1>5, <1>6, <1>7, <1>8 DEF OrderParts

\* The handler gets the request that is next to be answered; if there is none,
\* nobody has the turn any more.
LEMMA OrderProcess ==
  ASSUME OrderFacts, ~PeerLeft, NEW w \in Workers, NEW close \in BOOLEAN, Process(w, close)
  PROVE  OrderParts'
<1>1. /\ w \in Threads /\ w # Loop /\ Loop \in Threads /\ pc \in [Threads -> Pcs] /\ held \in [Threads -> 0 .. Len(requests)]
      /\ pc[w] = "process"
      /\ UNCHANGED <<requests, came, used, msg, onData, onEnd, jobs, answers, got, isProcessing, state,
                     isReading, closing, removed, back>>
  BY RequestsAssumption DEF OrderFacts, TypeOK, LocalsOK, Process, Threads, input, parser, streams, history
<1>2. jobs = 0 /\ onEnd = 0 /\ isProcessing /\ \A u \in Threads : u # w => pc[u] \notin ActingPcs
  BY <1>1 DEF OrderFacts, OneTurn, ActingPcs, TypeOK
<1>3. /\ ~TurnLost /\ (NoRequest' <=> NoRequest) /\ (HasRequest' <=> HasRequest)
      /\ (Arrived(Len(answers) + 1)' <=> Arrived(Len(answers) + 1)) /\ (InOrder' <=> InOrder)
  BY <1>1 DEF TurnLost, NoRequest, HasRequest, Arrived, KindOf, InOrder, ActingPcs
<1>4. CASE HasRequest
  <2>1. pc' = [pc EXCEPT ![w] = "handler"] /\ held' = [held EXCEPT ![w] = Current] BY <1>4 DEF Process, Goto
  <2>2. ~TurnLost' /\ (Over' <=> Over) BY <1>1, <1>3, <2>1 DEF TurnLost, Over, ActingPcs
  <2>3. ParserPlace'
    BY <1>1, <1>2, <1>3, <1>4, <2>1, <2>2 DEF OrderFacts, ParserPlace, Abandons, Position, KindOf, Current, Holding
  <2>4. Callbacks' /\ ErrorsEnd'
    BY <1>1, <1>3, <1>4, <2>1, <2>2 DEF OrderFacts, Callbacks, ErrorsEnd, KindOf, Holding, NoRequest
  <2>5. SomebodyLooks' BY <1>1, <1>3, <2>1, <2>2 DEF OrderFacts, SomebodyLooks
  <2>6. ReadOwed' /\ NoticeExact' /\ AnsweredInOrder'
    BY <1>1, <2>1 DEF OrderFacts, ReadOwed, NoticeExact, AnsweredInOrder, PeerLeft
  <2> QED BY <2>2, <2>3, <2>4, <2>5, <2>6 DEF OrderParts
<1>5. CASE ~HasRequest
  <2>1. pc' = [pc EXCEPT ![w] = "error"] /\ held' = held BY <1>5 DEF Process, Goto
  <2>2. TurnLost' /\ Over' BY <1>1, <1>2, <2>1 DEF TurnLost, Over, ActingPcs
  <2>3. ParserPlace' /\ Callbacks' BY <1>1, <2>2 DEF OrderFacts, ParserPlace, Callbacks, KindOf
  <2>4. ErrorsEnd' BY <1>1, <1>3, <2>1, <2>2 DEF OrderFacts, ErrorsEnd, Holding
  <2>5. SomebodyLooks' BY <1>1, <1>2, <2>1, <2>2 DEF OrderFacts, SomebodyLooks
  <2>6. ReadOwed' /\ NoticeExact' /\ AnsweredInOrder'
    BY <1>1, <2>1 DEF OrderFacts, ReadOwed, NoticeExact, AnsweredInOrder, PeerLeft
  <2> QED BY <2>2, <2>3, <2>4, <2>5, <2>6 DEF OrderParts
<1> QED BY <1>4, <1>5

\* The handler asks for the body.
LEMMA OrderReadBody ==
  ASSUME OrderFacts, ~PeerLeft, NEW w \in Workers, ReadBodyStream(w)
  PROVE  OrderParts'
<1> DEFINE n == Len(answers)
<1>1. /\ w \in Threads /\ w # Loop /\ Loop \in Threads /\ pc \in [Threads -> Pcs]
      /\ held \in [Threads -> 0 .. Len(requests)] /\ n \in Nat
      /\ pc[w] = "handler" /\ OnStreamRoute(KindOf(held[w])) /\ onData' = held[w]
      /\ UNCHANGED <<requests, came, used, msg, jobs, answers, got, held, isProcessing, state, isReading,
                     closing, removed, back>>
      /\ DOMAIN requests = 1 .. Len(requests) /\ Len(requests) \in Nat /\ used \in Nat
  BY RequestsAssumption DEF OrderFacts, TypeOK, LocalsOK, ReadBodyStream, Threads, input, parser, flags, locals, history
<1>2. /\ jobs = 0 /\ onEnd = 0 /\ isProcessing
      /\ \A u \in Threads : u # w => pc[u] \notin ActingPcs BY <1>1 DEF OrderFacts, OneTurn, ActingPcs, TypeOK
<1>3. /\ ~TurnLost /\ ~NoRequest /\ ~Over /\ (NoRequest' <=> NoRequest) /\ (HasRequest' <=> HasRequest)
      /\ (Arrived(n + 1)' <=> Arrived(n + 1)) /\ (InOrder' <=> InOrder)
  BY <1>1 DEF OrderFacts, ErrorsEnd, Over, TurnLost, NoRequest, HasRequest, Arrived, KindOf, InOrder, ActingPcs, Holding
<1>4. HasRequest /\ held[w] = Current /\ Position(n) /\ ~msg.failed
  BY <1>1, <1>2, <1>3 DEF OrderFacts, ParserPlace, Holding, Abandons, ActingPcs
<1>5. Current = n + 1 /\ n + 1 \in DOMAIN requests
  <2>1. Current = n + 1 BY <1>1, <1>4 DEF Position, HasRequest, Current, NoMsg
  <2> QED BY <1>1, <1>4, <2>1
<1>6. \A u \in Threads : pc[u] # "end" BY <1>2, <1>3 DEF OrderFacts, Callbacks
<1>7. CASE msg.streaming
  <2>1. pc' = [pc EXCEPT ![w] = "stream"] /\ onEnd' = n + 1 BY <1>1, <1>4, <1>5, <1>7 DEF ReadBodyStream, Goto
  <2>2. ~TurnLost' /\ ~Over' BY <1>1, <1>3, <1>4, <2>1 DEF TurnLost, Over
  <2>3. ParserPlace'
    BY <1>1, <1>2, <1>3, <1>4, <1>5, <2>1, <2>2 DEF ParserPlace, Abandons, Position, KindOf, Current, Holding, ActingPcs
  <2>4. Callbacks' BY <1>1, <1>2, <1>3, <1>4, <1>5, <1>6, <2>1 DEF Callbacks, KindOf, ActingPcs
  <2>5. ErrorsEnd' BY <1>1, <1>3, <1>4, <2>1, <2>2 DEF OrderFacts, ErrorsEnd
  <2>6. SomebodyLooks' /\ ReadOwed' /\ NoticeExact' /\ AnsweredInOrder'
    BY <1>1, <1>2, <1>3, <2>1, <2>2 DEF OrderFacts, SomebodyLooks, ReadOwed, NoticeExact, AnsweredInOrder, PeerLeft
  <2> QED BY <1>3, <2>3, <2>4, <2>5, <2>6 DEF OrderParts
<1>8. CASE ~msg.streaming
  <2>1. pc' = [pc EXCEPT ![w] = "answer"] /\ onEnd' = 0 BY <1>8 DEF ReadBodyStream, Goto
  <2>2. ~TurnLost' /\ ~Over' BY <1>1, <1>3, <2>1 DEF TurnLost, Over, ActingPcs
  <2>3. ParserPlace'
    BY <1>1, <1>2, <1>3, <1>4, <1>5, <2>1, <2>2 DEF ParserPlace, Abandons, Position, KindOf, Current, Holding, ActingPcs
  <2>4. Callbacks' BY <1>1, <1>2, <1>3, <1>4, <1>5, <1>6, <1>8, <2>1 DEF Callbacks, KindOf, ActingPcs
  <2>5. ErrorsEnd' BY <1>1, <1>3, <1>4, <2>1, <2>2 DEF OrderFacts, ErrorsEnd
  <2>6. SomebodyLooks' /\ ReadOwed' /\ NoticeExact' /\ AnsweredInOrder'
    BY <1>1, <1>2, <1>3, <2>1, <2>2 DEF OrderFacts, SomebodyLooks, ReadOwed, NoticeExact, AnsweredInOrder, PeerLeft
  <2> QED BY <1>3, <2>3, <2>4, <2>5, <2>6 DEF OrderParts
<1>9. msg.streaming \in BOOLEAN BY DEF OrderFacts, LocalsOK, Marks
<1> QED BY <1>7, <1>8, <1>9

LEMMA Rearmed == TriggerRead => isReading' \/ removed BY Zenon DEF TriggerRead

\* The loop acts on what it was told.
LEMMA OrderAct ==
  ASSUME OrderFacts, ~PeerLeft, Act
  PROVE  OrderParts'
<1> DEFINE n == Len(answers)
<1>1. /\ Loop \in Threads /\ pc \in [Threads -> Pcs] /\ pc[Loop] = "act" /\ jobs \in Nat
      /\ UNCHANGED <<requests, came, used, msg, onData, onEnd, answers, got, held, closing, removed, back>>
      /\ \E p \in {"idle", "error"} : pc' = [pc EXCEPT ![Loop] = p]
  BY DEF OrderFacts, TypeOK, Act, Goto, Threads, input, parser, streams, locals, history
<1>2. /\ (NoRequest' <=> NoRequest) /\ (HasRequest' <=> HasRequest)
      /\ (Arrived(n + 1)' <=> Arrived(n + 1)) /\ (InOrder' <=> InOrder)
      /\ \A u \in Threads : (pc'[u] \in ActingPcs <=> pc[u] \in ActingPcs) /\ (pc'[u] = "end" <=> pc[u] = "end")
      /\ \A u \in Threads : u # Loop => pc'[u] = pc[u]
  BY <1>1 DEF NoRequest, HasRequest, Arrived, KindOf, InOrder, ActingPcs
<1>3. TurnLost' <=> TurnLost
  <2>1. CASE got[Loop] \in {"complete", "headers"} /\ ~isProcessing BY <1>1, <2>1 DEF Act, Dispatch, TurnLost
  <2>2. CASE ~(got[Loop] \in {"complete", "headers"} /\ ~isProcessing)
    <3>1. jobs' = jobs /\ isProcessing' = isProcessing BY <2>2 DEF Act
    <3> QED BY <1>1, <1>2, <3>1 DEF TurnLost
  <2> QED BY <2>1, <2>2
<1>4. Over' <=> Over BY <1>2, <1>3 DEF Over
<1>5. ParserPlace' BY <1>1, <1>2, <1>4 DEF OrderFacts, ParserPlace, Abandons, Position, KindOf, Current, Holding
<1>6. Callbacks' BY <1>1, <1>2, <1>4 DEF OrderFacts, Callbacks, KindOf
<1>7. ErrorsEnd'
  <2>1. pc'[Loop] = "error" <=> got[Loop] = "error" BY <1>1 DEF Act, Goto
  <2> QED BY <1>1, <1>2, <1>3, <1>4, <2>1 DEF OrderFacts, ErrorsEnd, KindOf, Holding
<1>8. SomebodyLooks'
  <2>1. ~isProcessing' => ~isProcessing /\ got[Loop] \notin {"complete", "headers"} BY DEF Act
  <2>2. state' = "streaming" =>
          isProcessing' /\ \A u \in Threads : pc'[u] \notin {"checkNext", "next", "release"}
    <3>1. ~isProcessing => \A u \in Threads : pc[u] \notin {"checkNext", "next", "release"}
      BY DEF OrderFacts, OneTurn, ActingPcs
    <3>2. CASE got[Loop] \in {"complete", "headers"} /\ ~isProcessing BY <1>1, <3>1, <3>2 DEF Act
    <3>3. CASE ~(got[Loop] \in {"complete", "headers"} /\ ~isProcessing)
      BY <1>1, <3>3 DEF OrderFacts, SomebodyLooks, Act
    <3> QED BY <3>2, <3>3
  <2>3. ~isProcessing' /\ Arrived(n + 1)' =>
       \/ closing' \/ removed' \/ NoRequest'
       \/ \E t \in Threads : pc'[t] = "recheck" \/ (pc'[t] = "again" /\ got'[t] = "complete")
    BY <1>1, <1>2, <2>1 DEF OrderFacts, SomebodyLooks
  <2> QED BY <1>1, <1>2, <1>4, <2>2, <2>3 DEF OrderFacts, SomebodyLooks
<1>9. ReadOwed'
  <2>1. CASE got[Loop] \in {"complete", "headers"} BY <2>1 DEF ReadOwed, Act
  <2>2. CASE got[Loop] = "error"
    <3>1. pc'[Loop] = "error" BY <1>1, <2>2 DEF Act, Goto
    <3> QED BY <3>1 DEF ReadOwed
  <2>3. CASE got[Loop] = "incomplete"
    <3>1. isReading' \/ removed' BY <1>1, <2>3, Rearmed DEF Act
    <3> QED BY <3>1 DEF ReadOwed
  <2> QED BY <2>1, <2>2, <2>3 DEF Act
<1>10. NoticeExact' /\ AnsweredInOrder' BY <1>1 DEF OrderFacts, NoticeExact, AnsweredInOrder, PeerLeft
<1> QED BY <1>4, <1>5, <1>6, <1>7, <1>8, <1>9, <1>10 DEF OrderParts

\* Where a thread is that has done what it was called for.
LEMMA Returned ==
  ASSUME OrderFacts, ~PeerLeft, NEW t \in Threads, Return(t)
  PROVE  /\ \E p \in {"idle", "readMore"} : pc' = [pc EXCEPT ![t] = p]
         /\ t = Loop => pc'[Loop] = back BY DEF OrderFacts, TypeOK, PeerLeft, Return, Goto

\* A thread hands the next request over, or gives the turn up.
LEMMA OrderNextRequest ==
  ASSUME OrderFacts, ~PeerLeft, NEW t \in Threads, NextRequest(t)
  PROVE  OrderParts'
<1> DEFINE n == Len(answers)
<1>1. /\ Loop \in Threads /\ pc \in [Threads -> Pcs] /\ pc[t] = "next" /\ jobs \in Nat
      /\ UNCHANGED <<requests, came, used, msg, onData, onEnd, answers, got, held, closing, removed, back, isProcessing>>
      /\ \E p \in {"idle", "readMore", "error", "release"} : pc' = [pc EXCEPT ![t] = p]
  BY Returned DEF OrderFacts, TypeOK, NextRequest, Goto, Threads, input, parser, streams, locals, history
<1>2. /\ jobs = 0 /\ onEnd = 0 /\ isProcessing
      /\ \A u \in Threads : u # t => pc[u] \notin ActingPcs BY <1>1 DEF OrderFacts, OneTurn, ActingPcs, TypeOK
<1>3. /\ (NoRequest' <=> NoRequest) /\ (HasRequest' <=> HasRequest)
      /\ (Arrived(n + 1)' <=> Arrived(n + 1)) /\ (InOrder' <=> InOrder)
      /\ \A u \in Threads : (u # t => pc'[u] = pc[u]) /\ (pc'[u] = "end" <=> pc[u] = "end")
  BY <1>1 DEF NoRequest, HasRequest, Arrived, KindOf, InOrder
<1>4. /\ ~TurnLost /\ (pc'[t] = "error" => got[t] = "error") /\ (TurnLost' => pc'[t] = "error")
      /\ (pc'[t] = "release" => pc[t] = "next")
  <2>1. ~TurnLost BY <1>1 DEF TurnLost, ActingPcs
  <2>2. CASE got[t] \in {"complete", "headers"}
    <3>1. jobs' = 1 /\ Return(t) BY <1>2, <2>2 DEF NextRequest, Dispatch
    <3>2. pc'[t] \in {"idle", "readMore"} BY <1>1, <3>1, Returned
    <3> QED BY <2>1, <3>1, <3>2 DEF TurnLost
  <2>3. CASE got[t] = "error"
    <3>1. pc' = [pc EXCEPT ![t] = "error"] BY <2>3 DEF NextRequest, Goto
    <3> QED BY <1>1, <2>1, <2>3, <3>1
  <2>4. CASE got[t] = "incomplete"
    <3>1. pc' = [pc EXCEPT ![t] = "release"] BY <2>4 DEF NextRequest, Goto
    <3> QED BY <1>1, <2>1, <3>1 DEF TurnLost, ActingPcs
  <2> QED BY <2>2, <2>3, <2>4 DEF NextRequest
<1>5. /\ Over => Over'
      /\ ~Over' => ~Over BY <1>3, <1>4 DEF Over
<1>6. ParserPlace' BY <1>1, <1>3, <1>5 DEF OrderFacts, ParserPlace, Abandons, Position, KindOf, Current, Holding
<1>7. Callbacks' BY <1>1, <1>3, <1>5 DEF OrderFacts, Callbacks, KindOf
<1>8. ErrorsEnd'
  <2>1. pc'[t] = "error" => Over' BY <1>4, <1>5 DEF OrderFacts, ErrorsEnd
  <2> QED BY <1>1, <1>3, <1>4, <1>5, <2>1 DEF OrderFacts, ErrorsEnd, KindOf, Holding
<1>9. SomebodyLooks'
  <2>1. state' = "streaming" =>
          isProcessing' /\ \A u \in Threads : pc'[u] \notin {"checkNext", "next", "release"}
    <3>1. state' = "streaming" => got[t] = "headers" BY <1>1 DEF OrderFacts, SomebodyLooks, NextRequest, Dispatch
    <3>2. got[t] = "headers" => pc'[t] \in {"idle", "readMore"} BY <1>1, Returned DEF NextRequest
    <3> QED BY <1>1, <1>2, <1>3, <3>1, <3>2 DEF ActingPcs
  <2> QED BY <1>1, <1>2, <1>3, <1>5, <2>1 DEF OrderFacts, SomebodyLooks
<1>10. ReadOwed' /\ NoticeExact' /\ AnsweredInOrder'
  BY <1>1, <1>2, <1>3 DEF OrderFacts, ReadOwed, NoticeExact, AnsweredInOrder, PeerLeft
<1> QED BY <1>5, <1>6, <1>7, <1>8, <1>9, <1>10 DEF OrderParts

LEMMA OrderRelease ==
  ASSUME OrderFacts, ~PeerLeft, NEW t \in Threads, Release(t)
  PROVE  OrderParts'
<1> DEFINE n == Len(answers)
<1>1. /\ Loop \in Threads /\ pc \in [Threads -> Pcs] /\ pc[t] = "release" /\ pc' = [pc EXCEPT ![t] = "recheck"]
      /\ UNCHANGED <<requests, came, used, msg, onData, onEnd, answers, got, held, closing, removed, back, jobs,
                     isReading, state>>
      /\ ~isProcessing'
  BY DEF OrderFacts, TypeOK, Release, Goto, Threads, input, parser, flags, streams, locals, history
<1>2. /\ (NoRequest' <=> NoRequest) /\ (HasRequest' <=> HasRequest)
      /\ (Arrived(n + 1)' <=> Arrived(n + 1)) /\ (InOrder' <=> InOrder)
      /\ \A u \in Threads : u # t => pc'[u] = pc[u] BY <1>1 DEF NoRequest, HasRequest, Arrived, KindOf, InOrder
<1>3. ~TurnLost /\ ~TurnLost' /\ (Over' <=> Over) BY <1>1, <1>2 DEF TurnLost, Over, ActingPcs
<1>4. ParserPlace' BY <1>1, <1>2, <1>3 DEF OrderFacts, ParserPlace, Abandons, Position, KindOf, Current, Holding
<1>5. Callbacks' BY <1>1, <1>2, <1>3 DEF OrderFacts, Callbacks, KindOf
<1>6. ErrorsEnd' BY <1>1, <1>2, <1>3 DEF OrderFacts, ErrorsEnd, KindOf, Holding
<1>7. SomebodyLooks'
  <2>1. state # "streaming" BY <1>1 DEF OrderFacts, SomebodyLooks
  <2> QED BY <1>1, <1>2, <1>3, <2>1 DEF OrderFacts, SomebodyLooks
<1>8. ReadOwed' /\ NoticeExact' /\ AnsweredInOrder'
  BY <1>1, <1>2 DEF OrderFacts, ReadOwed, NoticeExact, AnsweredInOrder, PeerLeft
<1> QED BY <1>3, <1>4, <1>5, <1>6, <1>7, <1>8 DEF OrderParts

LEMMA OrderAgain ==
  ASSUME OrderFacts, ~PeerLeft, NEW t \in Threads, Again(t)
  PROVE  OrderParts'
<1> DEFINE n == Len(answers)
<1>1. /\ Loop \in Threads /\ pc \in [Threads -> Pcs] /\ pc[t] = "again" /\ jobs \in Nat
      /\ UNCHANGED <<requests, came, used, msg, onData, onEnd, answers, got, held, closing, removed, back, state>>
      /\ \E p \in {"idle", "readMore"} : pc' = [pc EXCEPT ![t] = p]
  BY Returned DEF OrderFacts, TypeOK, Again, Threads, input, parser, flags, streams, locals, history
<1>2. /\ (NoRequest' <=> NoRequest) /\ (HasRequest' <=> HasRequest)
      /\ (Arrived(n + 1)' <=> Arrived(n + 1)) /\ (InOrder' <=> InOrder)
      /\ \A u \in Threads : (pc'[u] \in ActingPcs <=> pc[u] \in ActingPcs) /\ (pc'[u] = "end" <=> pc[u] = "end")
      /\ \A u \in Threads : u # t => pc'[u] = pc[u]
  BY <1>1 DEF NoRequest, HasRequest, Arrived, KindOf, InOrder, ActingPcs
<1>3. /\ isProcessing => isProcessing' /\ jobs' = jobs
      /\ ~isProcessing' => got[t] # "complete" /\ jobs' = jobs
      /\ isProcessing' \/ isReading' \/ removed
      /\ ~isProcessing /\ isProcessing' => jobs' # 0
  <2>1. CASE got[t] = "complete" /\ ~isProcessing BY <1>1, <2>1 DEF Again
  <2>2. CASE got[t] = "complete" /\ isProcessing BY <2>2 DEF Again
  <2>3. CASE got[t] # "complete" BY <1>1, <2>3, Rearmed DEF Again
  <2> QED BY <2>1, <2>2, <2>3
<1>4. (TurnLost' <=> TurnLost) /\ (Over' <=> Over) BY <1>1, <1>2, <1>3 DEF TurnLost, Over
<1>5. ParserPlace' BY <1>1, <1>2, <1>4 DEF OrderFacts, ParserPlace, Abandons, Position, KindOf, Current, Holding
<1>6. Callbacks' BY <1>1, <1>2, <1>4 DEF OrderFacts, Callbacks, KindOf
<1>7. ErrorsEnd' BY <1>1, <1>2, <1>4 DEF OrderFacts, ErrorsEnd, KindOf, Holding
<1>8. SomebodyLooks' BY <1>1, <1>2, <1>3, <1>4 DEF OrderFacts, SomebodyLooks
<1>9. ReadOwed' /\ NoticeExact' /\ AnsweredInOrder'
  BY <1>1, <1>2, <1>3 DEF OrderFacts, ReadOwed, NoticeExact, AnsweredInOrder, PeerLeft
<1> QED BY <1>4, <1>5, <1>6, <1>7, <1>8, <1>9 DEF OrderParts

\* A response is queued: the answer to the next request.
LEMMA OrderAnswer ==
  ASSUME OrderFacts, ~PeerLeft, NEW t \in Threads, Answer(t)
  PROVE  OrderParts'
<1> DEFINE n == Len(answers)
<1>1. /\ Loop \in Threads /\ pc \in [Threads -> Pcs] /\ pc[t] \in {"answer", "finish"} /\ n \in Nat
      /\ UNCHANGED <<requests, came, used, msg, onData, onEnd, got, held, removed, back, jobs, isReading, state,
                     isProcessing>>
      /\ answers' = Append(answers, held[t]) /\ answers \in Seq(Nat) /\ held[t] \in Nat /\ used \in Nat
      /\ closing => closing' BY DEF OrderFacts, TypeOK, LocalsOK, Answer, Threads, input, parser, streams, locals
<1>2. /\ jobs = 0 /\ onEnd = 0 /\ isProcessing
      /\ \A u \in Threads : u # t => pc[u] \notin ActingPcs BY <1>1 DEF OrderFacts, OneTurn, ActingPcs, TypeOK
<1>3. ~TurnLost /\ ~NoRequest /\ ~Over BY <1>1 DEF OrderFacts, ErrorsEnd, Over, TurnLost, ActingPcs, Holding
<1>4. HasRequest /\ held[t] = Current /\ Position(n) /\ ~msg.failed /\ InOrder
  BY <1>1, <1>2, <1>3 DEF OrderFacts, ParserPlace, ErrorsEnd, Holding, Abandons, ActingPcs
<1>5. held[t] = n + 1 BY <1>1, <1>4 DEF Position, HasRequest, Current, NoMsg
<1>6. Len(answers') = n + 1 /\ InOrder' BY <1>1, <1>4, <1>5, AppendFacts DEF InOrder
<1>7. \/ pc' = [pc EXCEPT ![t] = "continue"]
      \/ closing' /\ \E p \in {"idle", "readMore"} : pc' = [pc EXCEPT ![t] = p] BY <1>1, Returned DEF Answer, Goto
<1>8. \A u \in Threads : u # t => pc'[u] = pc[u] /\ pc[u] \notin ActingPcs BY <1>1, <1>2, <1>7
<1>9. (HasRequest' <=> HasRequest) /\ (NoRequest' <=> NoRequest) BY <1>1 DEF HasRequest, NoRequest
<1>10. \A u \in Threads : pc'[u] # "end" /\ pc'[u] # "error"
  BY <1>1, <1>2, <1>3, <1>7, <1>8 DEF OrderFacts, Callbacks, ErrorsEnd
<1>11. TurnLost' => closing' BY <1>1, <1>7 DEF TurnLost, ActingPcs
<1>12. ParserPlace'
  <2> SUFFICES ASSUME ~Over' PROVE ParserPlace' BY DEF ParserPlace
  <2>1. pc' = [pc EXCEPT ![t] = "continue"] BY <1>1, <1>2, <1>7, <1>8 DEF Over, TurnLost, ActingPcs
  <2>3. \A u \in Threads : u # t => pc'[u] \notin Holding \cup {"continue", "leave"} BY <1>8 DEF Holding, ActingPcs
  <2>4. pc'[t] = "continue" BY <1>1, <2>1
  <2>5. Len(answers') > 0 /\ Len(answers') - 1 = n BY <1>1, <1>6
  <2>6. Position(Len(answers) - 1)' BY <1>1, <1>4, <2>5 DEF Position, KindOf
  <2> QED BY <1>1, <1>2, <1>4, <1>9, <2>3, <2>4, <2>5, <2>6 DEF ParserPlace, Abandons, Holding
<1>13. Callbacks' BY <1>1, <1>3, <1>4, <1>6, <1>10 DEF OrderFacts, Callbacks, KindOf, TypeOK
<1>14. ErrorsEnd' BY <1>1, <1>3, <1>4, <1>6, <1>9, <1>10, <1>11 DEF OrderFacts, ErrorsEnd
<1>15. SomebodyLooks'
  <2>1. \A u \in Threads : pc'[u] \notin {"checkNext", "next", "release"} BY <1>1, <1>7, <1>8 DEF ActingPcs
  <2>2. pc'[Loop] = "act" => t # Loop /\ pc[Loop] = "act" BY <1>1, <1>7
  <2>3. ~(pc'[Loop] = "act" /\ got'[Loop] = "incomplete") BY <1>1, <1>3, <1>4, <2>2 DEF OrderFacts, SomebodyLooks
  <2> QED BY <1>1, <1>2, <1>6, <2>1, <2>3 DEF SomebodyLooks
<1>16. ReadOwed' BY <1>1, <1>2 DEF ReadOwed
<1>17. NoticeExact'
  <2>1. pc[Loop] = "closeIdle" /\ ~closing => came = 2 * n BY DEF OrderFacts, NoticeExact
  <2>2. used > 2 * n /\ used <= came /\ came \in Nat
    BY <1>1, <1>4 DEF Position, HasRequest, NoMsg, OrderFacts, TypeOK, LocalsOK
  <2>3. pc'[Loop] = "closeIdle" => pc[Loop] = "closeIdle" BY <1>1, <1>7
  <2> QED BY <1>1, <2>1, <2>2, <2>3 DEF NoticeExact
<1>18. AnsweredInOrder' BY <1>6 DEF AnsweredInOrder, InOrder
<1> QED BY <1>3, <1>12, <1>13, <1>14, <1>15, <1>16, <1>17, <1>18 DEF OrderParts

\* An error is answered: the conversation is over.
LEMMA OrderError ==
  ASSUME OrderFacts, ~PeerLeft, NEW t \in Threads, SendError(t)
  PROVE  OrderParts'
<1> DEFINE n == Len(answers)
<1>1. /\ Loop \in Threads /\ pc \in [Threads -> Pcs] /\ pc[t] = "error" /\ n \in Nat
      /\ UNCHANGED <<requests, came, msg, onData, onEnd, got, held, removed, back, jobs, isReading, state,
                     isProcessing>>
      /\ answers' = Append(answers, 0) /\ answers \in Seq(Nat) /\ closing'
      /\ \E p \in {"idle", "readMore"} : pc' = [pc EXCEPT ![t] = p]
  BY Returned DEF OrderFacts, TypeOK, LocalsOK, SendError, Threads, input, streams, locals
<1>2. \A u \in Threads : /\ (pc'[u] \in ActingPcs <=> pc[u] \in ActingPcs) /\ (pc'[u] = "end" <=> pc[u] = "end")
                         /\ pc'[u] = pc[u] \/ pc'[u] \in {"idle", "readMore"} BY <1>1 DEF ActingPcs
<1>3. (TurnLost' <=> TurnLost) /\ (NoRequest' <=> NoRequest) /\ (HasRequest' <=> HasRequest)
  BY <1>1, <1>2 DEF TurnLost, NoRequest, HasRequest
<1>4. Over /\ Over' BY <1>1, <1>3 DEF OrderFacts, ErrorsEnd, Over
<1>5. Len(answers') = n + 1 /\ ~InOrder' BY <1>1, AppendFacts DEF InOrder
<1>6. ParserPlace' /\ Callbacks' BY <1>1, <1>4 DEF OrderFacts, ParserPlace, Callbacks, KindOf
<1>7. ErrorsEnd' BY <1>1, <1>2, <1>3, <1>4, <1>5 DEF OrderFacts, ErrorsEnd, Holding
<1>8. SomebodyLooks' /\ ReadOwed' /\ NoticeExact'
  BY <1>1, <1>2, <1>4, <1>5 DEF OrderFacts, SomebodyLooks, ReadOwed, NoticeExact
<1>9. AnsweredInOrder'
  <2> SUFFICES ASSUME NEW i \in DOMAIN answers'
               PROVE  answers'[i] = i \/ \A j \in i .. Len(answers') : answers'[j] = 0 BY DEF AnsweredInOrder
  <2>1. i \in 1 .. n + 1 /\ answers'[n + 1] = 0 /\ \A j \in 1 .. n : answers'[j] = answers[j] BY <1>1, AppendFacts
  <2>2. i \in 1 .. n => answers[i] = i \/ \A j \in i .. n : answers[j] = 0 BY <1>1 DEF OrderFacts, AnsweredInOrder
  <2> QED BY <1>1, <1>5, <2>1, <2>2
<1> QED BY <1>4, <1>6, <1>7, <1>8, <1>9 DEF OrderParts

\* The parser moves on.
LEMMA OrderContinue ==
  ASSUME OrderFacts, ~PeerLeft, NEW t \in Threads, ContinueAfter(t)
  PROVE  OrderParts'
<1> DEFINE n == Len(answers)
<1>1. /\ Loop \in Threads /\ pc \in [Threads -> Pcs] /\ pc[t] = "continue" /\ pc' = [pc EXCEPT ![t] = "leave"]
      /\ got \in [Threads -> Verdicts] /\ n \in Nat /\ used \in Nat
      /\ got' = [got EXCEPT ![t] = IF msg.streaming /\ ~msg.complete THEN "unread" ELSE "read"]
      /\ UNCHANGED <<requests, came, used, onData, onEnd, answers, held, closing, removed, back, jobs,
                     isReading, state, isProcessing>>
      /\ msg' = [NoMsg EXCEPT !.failed = msg.failed] /\ msg \in Marks
  BY DEF OrderFacts, TypeOK, LocalsOK, ContinueAfter, Goto, Threads, input, flags, streams, history
<1>2. /\ jobs = 0 /\ onEnd = 0 /\ isProcessing
      /\ \A u \in Threads : u # t => pc'[u] = pc[u] /\ pc[u] \notin ActingPcs
  BY <1>1 DEF OrderFacts, OneTurn, ActingPcs, TypeOK
<1>3. ~TurnLost /\ ~NoRequest /\ ~Over BY <1>1 DEF OrderFacts, ErrorsEnd, Over, TurnLost, ActingPcs
<1>4. HasRequest /\ Position(n - 1) /\ n > 0 /\ ~msg.failed BY <1>1, <1>3 DEF OrderFacts, ParserPlace
<1>5. msg' = NoMsg /\ ~HasRequest' /\ ~NoRequest' /\ ~TurnLost' /\ ~Over'
  <2>1. msg.failed = FALSE BY <1>1, <1>4 DEF Marks
  <2>2. msg' = NoMsg BY <1>1, <2>1 DEF NoMsg
  <2>3. ~HasRequest' /\ ~NoRequest' BY <2>2 DEF NoMsg, HasRequest, NoRequest
  <2>4. pc'[t] \in ActingPcs BY <1>1 DEF ActingPcs
  <2> QED BY <2>2, <2>3, <2>4 DEF TurnLost, Over
<1>6. IF msg.streaming /\ ~msg.complete
      THEN used = 2 * n - 1 /\ KindOf(n) \in {"upload", "badBody"} /\ onData = 0
      ELSE used = 2 * n
  <2>1. CASE msg.streaming /\ ~msg.complete
    <3>1. onData = 0 BY <1>2, <1>3, <2>1 DEF OrderFacts, Callbacks
    <3>2. used = 2 * (n - 1) + 1 /\ KindOf((n - 1) + 1) \in {"upload", "badBody"} BY <1>4, <2>1 DEF Position, NoMsg
    <3>3. (n - 1) + 1 = n /\ used = 2 * n - 1 BY <1>1, <3>2
    <3> QED BY <2>1, <3>1, <3>2, <3>3
  <2>2. CASE ~(msg.streaming /\ ~msg.complete)
    <3>1. msg.complete BY <1>4, <2>2 DEF HasRequest
    <3>2. used = 2 * (n - 1) + 2 BY <1>4, <3>1 DEF Position, NoMsg
    <3> QED BY <1>1, <2>2, <3>2
  <2> QED BY <2>1, <2>2
<1>7. ParserPlace'
  <2>1. \A u \in Threads : u # t => pc'[u] \notin Holding \cup {"continue", "leave"} BY <1>2 DEF Holding, ActingPcs
  <2>2. pc'[t] = "leave" /\ (Abandons(t)' <=> msg.streaming /\ ~msg.complete) BY <1>1 DEF Abandons
  <2>3. ~(msg.streaming /\ ~msg.complete) => Position(n)' BY <1>1, <1>5, <1>6 DEF Position
  <2> QED BY <1>1, <1>2, <1>4, <1>5, <1>6, <2>1, <2>2, <2>3 DEF ParserPlace, Abandons, Holding, NoMsg, KindOf
<1>8. Callbacks'
  <2>1. onData <= n
    <3>1. onData # n + 1 BY <1>1, <1>2, <1>3, <1>4 DEF OrderFacts, Callbacks
    <3> QED BY <1>3, <3>1 DEF OrderFacts, Callbacks
  <2> QED BY <1>1, <1>2, <1>3, <1>5, <2>1 DEF OrderFacts, Callbacks, KindOf, NoMsg
<1>9. ErrorsEnd' BY <1>1, <1>2, <1>3, <1>5 DEF OrderFacts, ErrorsEnd, InOrder, NoMsg
<1>10. SomebodyLooks' BY <1>1, <1>2, <1>3, <1>4, <1>5 DEF OrderFacts, SomebodyLooks
<1>11. ReadOwed' /\ NoticeExact' /\ AnsweredInOrder'
  BY <1>1, <1>2 DEF OrderFacts, ReadOwed, NoticeExact, AnsweredInOrder, PeerLeft
<1> QED BY <1>3, <1>7, <1>8, <1>9, <1>10, <1>11 DEF OrderParts

\* The streaming state is left.
LEMMA OrderLeave ==
  ASSUME OrderFacts, ~PeerLeft, NEW t \in Threads, LeaveStream(t)
  PROVE  OrderParts'
<1> DEFINE n == Len(answers)
<1>1. /\ Loop \in Threads /\ pc \in [Threads -> Pcs] /\ pc[t] = "leave"
      /\ UNCHANGED <<requests, came, used, msg, onData, onEnd, answers, got, held, removed, back, jobs,
                     isReading, isProcessing>>
      /\ state' = "http" /\ (closing => closing')
      /\ IF got[t] = "unread" THEN closing' /\ \E p \in {"idle", "readMore"} : pc' = [pc EXCEPT ![t] = p]
                              ELSE pc' = [pc EXCEPT ![t] = "checkNext"]
  BY Returned DEF OrderFacts, TypeOK, LeaveStream, Goto, Threads, input, parser, streams, locals, history
<1>2. /\ jobs = 0 /\ onEnd = 0 /\ isProcessing
      /\ \A u \in Threads : u # t => pc'[u] = pc[u] /\ pc[u] \notin ActingPcs
  BY <1>1 DEF OrderFacts, OneTurn, ActingPcs, TypeOK
<1>3. /\ (NoRequest' <=> NoRequest) /\ (HasRequest' <=> HasRequest) /\ ~TurnLost /\ (InOrder' <=> InOrder)
  BY <1>1 DEF NoRequest, HasRequest, TurnLost, ActingPcs, InOrder
<1>4. n > 0 BY <1>1 DEF OrderFacts, SomebodyLooks
<1>5. CASE got[t] = "unread"
  <2>1. TurnLost' /\ Over' /\ closing' /\ pc'[t] \in {"idle", "readMore"}
    BY <1>1, <1>2, <1>5 DEF TurnLost, Over, ActingPcs
  <2>2. ParserPlace' /\ Callbacks' BY <1>1, <2>1 DEF OrderFacts, ParserPlace, Callbacks, KindOf
  <2>3. ErrorsEnd' BY <1>1, <1>2, <1>3, <2>1 DEF OrderFacts, ErrorsEnd, Holding
  <2>4. SomebodyLooks' /\ ReadOwed' /\ NoticeExact' /\ AnsweredInOrder'
    BY <1>1, <1>2, <1>4, <2>1 DEF SomebodyLooks, ReadOwed, NoticeExact, OrderFacts, AnsweredInOrder, PeerLeft
  <2> QED BY <2>1, <2>2, <2>3, <2>4 DEF OrderParts
<1>6. CASE got[t] # "unread"
  <2>1. pc' = [pc EXCEPT ![t] = "checkNext"] /\ pc'[t] = "checkNext" BY <1>1, <1>6
  <2>2. ~TurnLost' /\ (Over' <=> Over) BY <1>1, <1>3, <2>1 DEF TurnLost, Over, ActingPcs
  <2>3. \A u \in Threads : (Abandons(u)' <=> Abandons(u)) /\ (pc'[u] = "continue" <=> pc[u] = "continue")
    BY <1>1, <1>2, <1>6, <2>1 DEF Abandons
  <2>4. ParserPlace'
    BY <1>1, <1>2, <1>3, <2>1, <2>2, <2>3 DEF OrderFacts, ParserPlace, Position, KindOf, Current, Holding
  <2>5. Callbacks' BY <1>1, <1>2, <1>3, <2>1, <2>2 DEF OrderFacts, Callbacks, KindOf
  <2>6. ErrorsEnd' BY <1>1, <1>2, <1>3, <2>1, <2>2 DEF OrderFacts, ErrorsEnd, Holding, KindOf
  <2>7. SomebodyLooks' BY <1>1, <1>2, <1>3, <1>4, <2>1, <2>2 DEF OrderFacts, SomebodyLooks
  <2>8. ReadOwed' /\ NoticeExact' /\ AnsweredInOrder'
    BY <1>1, <1>2, <2>1 DEF ReadOwed, NoticeExact, OrderFacts, AnsweredInOrder, PeerLeft
  <2> QED BY <2>2, <2>4, <2>5, <2>6, <2>7, <2>8 DEF OrderParts
<1> QED BY <1>5, <1>6

\* The body has ended: the handler that waited for it answers.
LEMMA OrderStreamEnd ==
  ASSUME OrderFacts, ~PeerLeft, NEW t \in Threads, StreamEnd(t)
  PROVE  OrderParts'
<1> DEFINE n == Len(answers)
<1>1. /\ Loop \in Threads /\ pc \in [Threads -> Pcs] /\ pc[t] = "end" /\ held \in [Threads -> 0 .. Len(requests)]
      /\ UNCHANGED <<requests, came, used, msg, onData, answers, got, removed, back, jobs,
                     isReading, isProcessing, closing, state>>
  BY DEF OrderFacts, TypeOK, LocalsOK, StreamEnd, Threads, input, parser, flags, history
<1>2. /\ (NoRequest' <=> NoRequest) /\ (HasRequest' <=> HasRequest) /\ (InOrder' <=> InOrder)
      /\ (Arrived(n + 1)' <=> Arrived(n + 1)) BY <1>1 DEF NoRequest, HasRequest, InOrder, Arrived, KindOf
<1>3. CASE onEnd # 0
  <2>1. /\ held' = [held EXCEPT ![t] = onEnd] /\ onEnd' = 0 /\ pc' = [pc EXCEPT ![t] = "answer"] /\ pc'[t] = "answer"
        /\ \A u \in Threads : u # t => pc'[u] = pc[u] BY <1>1, <1>3 DEF StreamEnd, Goto
  <2>2. isProcessing /\ jobs = 0 /\ \A u \in Threads : pc[u] \notin ActingPcs BY <1>3 DEF OrderFacts, OneTurn, TypeOK
  <2>3. ~TurnLost /\ ~NoRequest /\ ~Over BY <1>1, <1>3 DEF OrderFacts, ErrorsEnd, TurnLost, Over
  <2>4. ~TurnLost' /\ ~Over' BY <1>2, <2>1, <2>3 DEF TurnLost, Over, ActingPcs
  <2>5. HasRequest /\ onEnd = Current /\ msg.complete BY <1>1, <1>3, <2>3 DEF OrderFacts, ParserPlace, Callbacks
  <2>6. ParserPlace'
    <3>1. Position(n)' BY <1>1, <2>2, <2>3 DEF OrderFacts, ParserPlace, Abandons, ActingPcs, Position, KindOf
    <3>2. Current' = Current /\ held'[t] = onEnd BY <1>1, <2>1 DEF Current
    <3> QED BY <1>1, <1>2, <2>1, <2>2, <2>3, <2>5, <3>1, <3>2 DEF OrderFacts, ParserPlace, Abandons, ActingPcs, Holding
  <2>7. Callbacks' BY <1>1, <1>2, <2>1, <2>3, <2>5 DEF OrderFacts, Callbacks, KindOf
  <2>8. ErrorsEnd' BY <1>1, <1>2, <2>1, <2>3, <2>4 DEF OrderFacts, ErrorsEnd
  <2>9. SomebodyLooks' BY <1>1, <1>2, <2>1, <2>2, <2>3, <2>4 DEF OrderFacts, SomebodyLooks
  <2>10. ReadOwed' /\ NoticeExact' /\ AnsweredInOrder'
    BY <1>1, <2>1, <2>2 DEF OrderFacts, ReadOwed, NoticeExact, AnsweredInOrder, PeerLeft
  <2> QED BY <2>3, <2>6, <2>7, <2>8, <2>9, <2>10 DEF OrderParts
<1>4. CASE onEnd = 0
  <2>1. /\ held' = held /\ onEnd' = onEnd
        /\ \E p \in {"idle", "readMore"} : pc' = [pc EXCEPT ![t] = p]
        /\ t = Loop => pc'[Loop] = back BY <1>1, <1>4, Returned DEF StreamEnd
  <2>2. \A u \in Threads : (pc'[u] \in ActingPcs <=> pc[u] \in ActingPcs) /\ (u # t => pc'[u] = pc[u])
    BY <1>1, <2>1 DEF ActingPcs
  <2>3. (TurnLost' <=> TurnLost) /\ (Over' <=> Over) /\ Over
    <3>1. TurnLost' <=> TurnLost BY <1>1, <1>4, <2>1, <2>2 DEF TurnLost
    <3>2. Over BY <1>1, <1>4 DEF OrderFacts, Callbacks
    <3> QED BY <1>2, <3>1, <3>2 DEF Over
  <2>4. ParserPlace' /\ Callbacks' BY <1>1, <2>3 DEF OrderFacts, ParserPlace, Callbacks, KindOf
  <2>5. ErrorsEnd' BY <1>1, <1>2, <2>1, <2>2, <2>3 DEF OrderFacts, ErrorsEnd, Holding, KindOf
  <2>6. SomebodyLooks' BY <1>1, <1>2, <2>1, <2>2, <2>3 DEF OrderFacts, SomebodyLooks
  <2>7. ReadOwed' /\ NoticeExact' /\ AnsweredInOrder'
    BY <1>1, <2>1, <2>2 DEF OrderFacts, ReadOwed, NoticeExact, AnsweredInOrder, PeerLeft
  <2> QED BY <2>3, <2>4, <2>5, <2>6, <2>7 DEF OrderParts
<1> QED BY <1>3, <1>4

\* The body goes to the handler that asked for it; if it is malformed, the
\* conversation ends.
LEMMA OrderStreamData ==
  ASSUME OrderFacts, ~PeerLeft, NEW t \in Threads, StreamData(t)
  PROVE  OrderParts'
<1> DEFINE n == Len(answers)
           nothing == ~msg.streaming \/ msg.complete \/ onData = 0 \/ used = came
           broken == KindOf(Current) = "badBody" \/ msg.failed
<1>1. /\ Loop \in Threads /\ pc \in [Threads -> Pcs] /\ pc[t] = "stream" /\ n \in Nat
      /\ UNCHANGED <<requests, came, onData, onEnd, answers, got, held, removed, back, jobs,
                     isReading, isProcessing, closing, state>>
      /\ msg \in Marks /\ used \in Nat /\ came \in Nat /\ used <= came
  BY DEF OrderFacts, TypeOK, LocalsOK, StreamData, Threads, input, flags, streams, locals
<1>2. /\ (InOrder' <=> InOrder) /\ (Arrived(n + 1)' <=> Arrived(n + 1)) BY <1>1 DEF InOrder, Arrived, KindOf
<1>3. CASE nothing
  <2>1. /\ used' = used /\ msg' = msg
        /\ \E p \in {"idle", "readMore"} : pc' = [pc EXCEPT ![t] = p]
        /\ t = Loop => pc'[Loop] = back BY <1>1, <1>3, Returned DEF StreamData, parser
  <2>2. /\ Over' <=> Over
        /\ ParserPlace' /\ Callbacks' /\ ErrorsEnd' /\ AnsweredInOrder'
    <3>1. \A u \in Threads : pc'[u] = pc[u] \/ (pc[u] \in Elsewhere /\ pc'[u] \in Elsewhere)
      BY <1>1, <2>1 DEF Elsewhere
    <3> QED BY <1>1, <2>1, <3>1, OrderFrame DEF PeerLeft
  <2>3. \A u \in Threads : u # t => pc'[u] = pc[u] BY <1>1, <2>1
  <2>4. SomebodyLooks'
    <3>1. (NoRequest' <=> NoRequest) /\ (HasRequest' <=> HasRequest) BY <2>1 DEF NoRequest, HasRequest
    <3> QED BY <1>1, <1>2, <2>1, <2>2, <2>3, <3>1 DEF OrderFacts, SomebodyLooks
  <2>5. ReadOwed' /\ NoticeExact' BY <1>1, <2>1, <2>3 DEF OrderFacts, ReadOwed, NoticeExact
  <2> QED BY <2>2, <2>4, <2>5 DEF OrderParts
<1>4. CASE ~nothing /\ broken
  <2>1. /\ msg' = [msg EXCEPT !.failed = TRUE] /\ pc' = [pc EXCEPT ![t] = "error"]
        /\ \A u \in Threads : u # t => pc'[u] = pc[u] BY <1>1, <1>4 DEF StreamData, Goto
  <2>2. msg.streaming /\ ~msg.complete /\ onData # 0 BY <1>4
  <2>3. msg'.failed /\ msg'.streaming /\ HasRequest' /\ ~NoRequest' /\ ~NoRequest /\ HasRequest
    BY <1>1, <2>1, <2>2 DEF Marks, HasRequest, NoRequest
  <2>4. TurnLost'
    <3>1. CASE Over
      <4>1. TurnLost BY <2>3, <3>1 DEF Over
      <4> QED BY <1>1, <2>1, <2>3, <4>1 DEF TurnLost, ActingPcs
    <3>2. CASE ~Over
      <4>1. onEnd # 0 /\ \A u \in Threads : pc[u] # "end" BY <2>2, <3>2 DEF OrderFacts, Callbacks
      <4>2. isProcessing /\ jobs = 0 /\ \A u \in Threads : pc[u] \notin ActingPcs
        BY <4>1 DEF OrderFacts, OneTurn, TypeOK
      <4> QED BY <1>1, <2>1, <2>3, <4>1, <4>2 DEF TurnLost, ActingPcs
    <3> QED BY <3>1, <3>2
  <2>5. Over' BY <2>4 DEF Over
  <2>6. ParserPlace' /\ Callbacks' BY <1>1, <2>5 DEF OrderFacts, ParserPlace, Callbacks, KindOf
  <2>7. ErrorsEnd'
    <3>1. pc'[t] = "error" BY <1>1, <2>1
    <3> QED BY <1>1, <1>2, <2>1, <2>3, <2>5, <3>1 DEF OrderFacts, ErrorsEnd
  <2>8. isProcessing' BY <2>4 DEF TurnLost
  <2>9. SomebodyLooks' BY <1>1, <2>1, <2>5, <2>8 DEF OrderFacts, SomebodyLooks
  <2>10. ReadOwed' /\ NoticeExact' /\ AnsweredInOrder'
    BY <1>1, <2>1, <2>8 DEF OrderFacts, ReadOwed, NoticeExact, AnsweredInOrder, PeerLeft
  <2> QED BY <2>5, <2>6, <2>7, <2>9, <2>10 DEF OrderParts
<1>5. CASE ~nothing /\ ~broken
  <2>1. /\ msg' = [msg EXCEPT !.complete = TRUE] /\ used' = used + 1 /\ pc' = [pc EXCEPT ![t] = "end"]
        /\ \A u \in Threads : u # t => pc'[u] = pc[u] BY <1>1, <1>5 DEF StreamData, Goto
  <2>2. msg.streaming /\ ~msg.complete /\ onData # 0 /\ ~msg.failed /\ used # came BY <1>5
  <2>3. /\ ~msg'.failed /\ msg'.streaming /\ msg'.complete /\ msg'.started = msg.started
        /\ HasRequest' /\ ~NoRequest' /\ ~NoRequest /\ HasRequest BY <1>1, <2>1, <2>2 DEF Marks, HasRequest, NoRequest
  <2>4. TurnLost => TurnLost' /\ onEnd = 0 BY <1>1, <2>1, <2>2 DEF TurnLost, ActingPcs
  <2>5. TurnLost' => TurnLost BY <1>1, <2>1, <2>3 DEF TurnLost, ActingPcs
  <2>6. Over' <=> Over BY <2>3, <2>4, <2>5 DEF Over
  <2>7. ~Over => /\ onEnd = onData /\ onEnd = Current /\ \A u \in Threads : pc[u] # "end" /\ pc[u] \notin ActingPcs
    BY <2>2 DEF OrderFacts, Callbacks, ParserPlace, OneTurn
  <2>8. ParserPlace'
    <3> SUFFICES ASSUME ~Over PROVE ParserPlace' BY <2>6 DEF ParserPlace
    <3>1. Position(n) BY <2>7 DEF OrderFacts, ParserPlace, Abandons, ActingPcs
    <3>2. used = 2 * n + 1 /\ msg.started /\ KindOf(n + 1) \in {"upload", "badBody"} BY <2>2, <3>1 DEF Position, NoMsg
    <3>3. Position(n)' /\ Current' = Current BY <1>1, <2>1, <2>3, <3>2 DEF Position, KindOf, Current
    <3>4. \A u \in Threads : pc'[u] \notin Holding \cup {"continue", "leave"}
      BY <1>1, <2>1, <2>7 DEF Holding, ActingPcs
    <3> QED BY <1>1, <2>3, <2>7, <3>3, <3>4 DEF ParserPlace, Abandons
  <2>9. Callbacks' BY <1>1, <2>1, <2>2, <2>3, <2>6, <2>7 DEF OrderFacts, Callbacks, KindOf
  <2>10. ErrorsEnd' BY <1>1, <1>2, <2>1, <2>2, <2>3, <2>5, <2>6 DEF OrderFacts, ErrorsEnd
  <2>11. SomebodyLooks'
    <3>1. ~(pc'[Loop] = "act" /\ got'[Loop] = "incomplete" /\ ~Over')
      BY <1>1, <2>1, <2>3, <2>6 DEF OrderFacts, SomebodyLooks
    <3> QED BY <1>1, <1>2, <2>1, <2>3, <3>1 DEF OrderFacts, SomebodyLooks
  <2>12. ReadOwed' /\ NoticeExact' /\ AnsweredInOrder'
    BY <1>1, <2>1 DEF OrderFacts, ReadOwed, NoticeExact, AnsweredInOrder, PeerLeft
  <2> QED BY <2>6, <2>8, <2>9, <2>10, <2>11, <2>12 DEF OrderParts
<1> QED BY <1>3, <1>4, <1>5

LEMMA OrderNext ==
  ASSUME OrderInv, [Next]_vars
  PROVE  OrderInv'
<1>1. TurnInv' /\ OneStreamed'
  <2>1. requests' = requests
    BY DEF Next, vars, LoopStep, AnswerStep, WorkerStep, HandlerStep, ReadComplete, ReadEnds, Route,
       Busy, CheckRequestState, Act, ReadMore, Remove, Notice, CloseIdle, BeginDrain, ServerShutdown, GoAway,
       StreamData, StreamEnd, Answer, SendError, ContinueAfter, LeaveStream, NextRequest, Release, Again,
       Take, Process, Respond, SendHeaders, EndResponse, ReadBodyStream, input
  <2> QED BY <2>1, TurnNext DEF OrderInv, OneStreamed
<1>2. CASE UNCHANGED vars
  BY <1>1, <1>2 DEF OrderInv, vars, input, parser, flags, streams, locals, history, PeerLeft, OrderParts, ParserPlace,
     Callbacks, ErrorsEnd, SomebodyLooks, ReadOwed, NoticeExact, AnsweredInOrder, Over, TurnLost, NoRequest, HasRequest,
     InOrder, Abandons, Position, Current, KindOf, Arrived
<1>3. CASE Next /\ ~PeerLeft'
  <2> SUFFICES OrderParts' BY <1>1 DEF OrderInv
  <2>1. ~PeerLeft BY <1>3, LeftForGood DEF OrderInv
  <2>2. OrderFacts BY <2>1 DEF OrderInv, OrderFacts, OrderParts, TurnInv
  <2>3. Loop \in Threads /\ \A w \in Workers : w \in Threads BY DEF Threads
  <2>4. CASE \/ \E n \in 1 .. 2 * MaxRequests : ReadComplete(n)
             \/ Route \/ Busy \/ ReadMore \/ Remove \/ Notice \/ CloseIdle \/ BeginDrain \/ ServerShutdown \/ GoAway
    BY <1>3, <2>1, <2>2, <2>4, OrderLoop
  <2>5. CASE CheckRequestState(Loop, "check", "act") BY <2>2, <2>3, <2>5, OrderCheck
  <2>6. CASE Act BY <2>1, <2>2, <2>6, OrderAct
  <2>7. CASE ReadEnds BY <1>3, <2>7 DEF ReadEnds, PeerLeft
  <2>8. ASSUME NEW t \in Threads, AnswerStep(t) PROVE OrderParts'
    <3>1. CASE CheckRequestState(t, "checkNext", "next") \/ CheckRequestState(t, "recheck", "again")
      BY <2>2, <3>1, OrderCheck
    <3> QED BY <2>1, <2>2, <2>8, <3>1, OrderStreamData, OrderStreamEnd, OrderAnswer, OrderError, OrderContinue,
              OrderLeave, OrderNextRequest, OrderRelease, OrderAgain DEF AnswerStep
  <2>9. ASSUME NEW w \in Workers, WorkerStep(w) \/ HandlerStep(w) PROVE OrderParts'
    BY <2>1, <2>2, <2>9, OrderTake, OrderProcess, OrderHandler, OrderReadBody DEF WorkerStep, HandlerStep
  <2> QED BY <1>3, <2>4, <2>5, <2>6, <2>7, <2>8, <2>9 DEF Next, LoopStep
<1>4. CASE Next /\ PeerLeft' BY <1>1, <1>4 DEF OrderInv
<1> QED BY <1>2, <1>3, <1>4

LEMMA OrderInit ==
  ASSUME MaxStreamed <= 1, Init
  PROVE  OrderInv
<1>1. TurnInv BY TurnInit
<1>2. OneStreamed
  <2> DEFINE S == {n \in DOMAIN requests : OnStreamRoute(requests[n])}
  <2>1. IsFiniteSet(S) /\ Cardinality(S) <= 1
    <3>1. DOMAIN requests = 1 .. Len(requests) /\ Len(requests) \in Nat BY <1>1 DEF TurnInv, LocalsOK
    <3>2. IsFiniteSet(1 .. Len(requests)) BY <3>1, FS_Interval
    <3>3. IsFiniteSet(S) BY <3>1, <3>2, FS_Subset
    <3>4. Cardinality(S) <= MaxStreamed /\ Cardinality(S) \in Nat BY <3>3, FS_CardinalityType DEF Init
    <3> QED BY <3>3, <3>4, RequestsAssumption
  <2>2. ASSUME NEW m \in S, NEW n \in S PROVE m = n
    <3>1. IsFiniteSet(S \ {m}) /\ Cardinality(S \ {m}) = Cardinality(S) - 1 BY <2>1, FS_RemoveElement
    <3>2. Cardinality(S \ {m}) = 0 BY <2>1, <3>1, FS_CardinalityType
    <3>3. S \ {m} = {} BY <3>1, <3>2, FS_EmptySet
    <3> QED BY <3>3
  <2> QED BY <2>2 DEF OneStreamed
<1>3. /\ Len(answers) = 0 /\ answers = << >> /\ msg = NoMsg /\ used = 0 /\ came = 0 /\ onData = 0 /\ onEnd = 0
      /\ isReading /\ ~isProcessing /\ state = "http" /\ \A t \in Threads : pc[t] = "idle" /\ got[t] = "incomplete"
      /\ Loop \in Threads BY DEF Init, Threads
<1>4. ~HasRequest /\ ~NoRequest /\ ~TurnLost /\ ~Over /\ InOrder /\ ~msg.failed
  BY <1>3 DEF HasRequest, NoRequest, TurnLost, Over, InOrder, NoMsg
<1>5. ParserPlace /\ Callbacks BY <1>3, <1>4 DEF ParserPlace, Callbacks, Holding, Abandons, Position, NoMsg
<1>6. ErrorsEnd /\ AnsweredInOrder BY <1>3, <1>4 DEF ErrorsEnd, AnsweredInOrder
<1>7. SomebodyLooks /\ ReadOwed /\ NoticeExact BY <1>3, <1>4 DEF SomebodyLooks, ReadOwed, NoticeExact, Arrived
<1> QED BY <1>1, <1>2, <1>5, <1>6, <1>7 DEF OrderInv, OrderParts

\* When all is quiet, nothing waits.
LEMMA QuietIsDone == OrderInv => NothingForgotten
<1> SUFFICES ASSUME OrderInv, \A t \in Threads : pc[t] = "idle", jobs = 0, onEnd = 0, ~closing, ~removed
             PROVE  ~Arrived(Len(answers) + 1) /\ ~isProcessing /\ isReading BY DEF NothingForgotten
<1>1. Loop \in Threads BY DEF Threads
<1>2. ~PeerLeft BY <1>1 DEF OrderInv, TurnInv, LoopLeaving
<1>3. ErrorsEnd /\ SomebodyLooks /\ ReadOwed BY <1>2 DEF OrderInv, OrderParts
<1>4. ~TurnLost BY <1>3 DEF ErrorsEnd
<1>5. ~isProcessing BY <1>4 DEF TurnLost, ActingPcs
<1>6. isReading BY <1>1, <1>3, <1>5 DEF ReadOwed
<1>7. ASSUME Arrived(Len(answers) + 1) PROVE FALSE
  <2>1. NoRequest /\ InOrder BY <1>1, <1>3, <1>5, <1>7 DEF SomebodyLooks, ErrorsEnd
  <2>2. /\ Len(answers) + 1 \in DOMAIN requests /\ KindOf(Len(answers) + 1) = "bad"
        /\ Len(answers) # 0 BY <1>1, <1>3, <1>4, <2>1 DEF ErrorsEnd
  <2>3. Len(answers) \in Nat /\ DOMAIN requests = 1 .. Len(requests) /\ Len(requests) \in Nat
    BY DEF OrderInv, TurnInv, LocalsOK
  <2>4. Len(answers) + 1 \in 2 .. Len(requests) BY <2>2, <2>3
  <2> QED BY <1>7, <2>2, <2>3, <2>4 DEF Arrived
<1> QED BY <1>5, <1>6, <1>7

----
\* Theorems

\* Whatever the other components do, a step of the run is one of the App's, or
\* leaves the App alone; and so for the router and the connection.
LEMMA PartSteps ==
  ASSUME [MCNext]_<<part, vars, appVars, erVars>>
  PROVE  [Next]_vars /\ [AppNext]_appVars /\ [ErNext]_erVars BY DEF MCNext

\* stop() and shutdown() reach every loop whenever they come, the on_stop hooks
\* run once, and a request in flight is cut off only by a stop or the deadline,
\* for any number of loops, calling threads and signals (App::listen, App::stop).
THEOREM ShutdownClean == MCSpec => []StopsClean
<1>1. MCInit => AppInv BY AppInitInv DEF MCInit
<1>2. AppInv /\ [MCNext]_<<part, vars, appVars, erVars>> => AppInv' BY PartSteps, AppNextInv
<1>3. AppInv => StopsClean BY DEF AppInv, StopsClean, HooksCounted, HooksOnce, AppTypeOK
<1> QED BY <1>1, <1>2, <1>3, PTL DEF MCSpec

\* Rooms and sockets agree, and a broadcast never writes to a connection that is
\* gone unless a drain closed it before its handler set on_close, for any number
\* of sockets and rooms (EventRouter).
THEOREM RoomsAgree == MCSpec => []RoomsSound
<1>1. MCInit => ErInv BY ErInitInv DEF MCInit
<1>2. ErInv /\ [MCNext]_<<part, vars, appVars, erVars>> => ErInv' BY PartSteps, ErNextInv
<1>3. ErInv => RoomsSound BY DEF ErInv
<1> QED BY <1>1, <1>2, <1>3, PTL DEF MCSpec

\* One request of a connection is handled at a time, by one thread, and
\* is_processing_request_ says so, for any number of workers, requests and
\* uploads (Connection::continue_after_response).
THEOREM OneRequestAtATime == MCSpec => []OneAtATime
<1>1. MCInit => TurnInv BY TurnInit DEF MCInit
<1>2. TurnInv /\ [MCNext]_<<part, vars, appVars, erVars>> => TurnInv' BY PartSteps, TurnNext
<1>3. TurnInv => OneAtATime BY TurnCounts
<1> QED BY <1>1, <1>2, <1>3, PTL DEF MCSpec

\* Pipelined requests are answered once and in order, and none is left in the
\* buffer, for any number of requests and workers, if at most one request of the
\* connection is on a stream route: a second one's body may go to the callback
\* the first has left (BodyToItsHandler), and then its end is missed.
THEOREM RequestsAnswered ==
  ASSUME MaxStreamed <= 1
  PROVE  MCSpec => []RequestsInOrder
<1>1. MCInit => OrderInv BY OrderInit DEF MCInit
<1>2. OrderInv /\ [MCNext]_<<part, vars, appVars, erVars>> => OrderInv' BY PartSteps, OrderNext
<1>3. OrderInv => RequestsInOrder
  <2> SUFFICES ASSUME OrderInv PROVE RequestsInOrder OBVIOUS
  <2>1. TypeOK /\ OneAtATime BY TurnCounts DEF OrderInv, TurnInv
  <2>2. AnsweredInOrder BY DEF OrderInv, OrderParts, AnsweredInOrder
  <2> QED BY <2>1, <2>2, QuietIsDone DEF RequestsInOrder
<1> QED BY <1>1, <1>2, <1>3, PTL DEF MCSpec

\* The notice of a draining server closes a connection only when all that has
\* arrived is answered (Connection::on_server_shutdown).
THEOREM NoticeLosesNothing ==
  ASSUME MaxStreamed <= 1
  PROVE  MCSpec => NoticeKeepsRequests
<1>1. MCInit => OrderInv BY OrderInit DEF MCInit
<1>2. OrderInv /\ [MCNext]_<<part, vars, appVars, erVars>> => OrderInv' BY PartSteps, OrderNext
<1>3. OrderInv => (pc[Loop] = "closeIdle" /\ ~closing => 2 * Len(answers) = came)
  <2> SUFFICES ASSUME OrderInv, pc[Loop] = "closeIdle", ~closing PROVE 2 * Len(answers) = came OBVIOUS
  <2>1. ~PeerLeft BY DEF OrderInv, TurnInv, LoopLeaving
  <2> QED BY <2>1 DEF OrderInv, OrderParts, NoticeExact
<1>4. OrderInv /\ [MCNext]_<<part, vars, appVars, erVars>> =>
        [pc[Loop] = "closeIdle" /\ ~closing /\ closing' => 2 * Len(answers) = came]_vars BY <1>3
<1> QED BY <1>1, <1>2, <1>4, PTL DEF MCSpec, NoticeKeepsRequests

====
