---- MODULE MCLifecycle ----
\* For TLC: the requests of a connection, the rooms its WebSockets are in, or
\* the life of the App that serves it, one per behaviour.
EXTENDS ConnectionRequests, App, EventRouter

CONSTANT Parts       \* the components this instance covers

VARIABLE part        \* the component the behaviour is about

MCInit == part \in Parts /\ Init /\ AppInit /\ ErInit /\ (part # "requests" => requests = <<"get">>)

MCNext ==
  /\ UNCHANGED part
  /\ \/ part = "requests" /\ Next /\ UNCHANGED <<appVars, erVars>>
     \/ part = "app" /\ AppNext /\ UNCHANGED <<vars, erVars>>
     \/ part = "rooms" /\ ErNext /\ UNCHANGED <<vars, appVars>>

\* The fairness of ConnectionRequests and of App, each for its own behaviours.
\* The threads that broadcast keep running, and the mutex they pass around
\* goes to one of the close handlers some time: each asks for it a few times.
MCFairness ==
  /\ WF_vars(part = "requests" /\ LoopStep)
  /\ \A t \in Threads : WF_vars(part = "requests" /\ AnswerStep(t))
  /\ \A w \in Workers : WF_vars(part = "requests" /\ WorkerStep(w)) /\ WF_vars(part = "requests" /\ HandlerStep(w))
  /\ WF_appVars(part = "app" /\ ListenStep) /\ WF_appVars(part = "app" /\ TickStep) /\ WF_appVars(part = "app" /\ DeadlinePasses)
  /\ \A l \in Loops : WF_appVars(part = "app" /\ LoopEnds(l))
  /\ \A t \in AppThreads : WF_appVars(part = "app" /\ CallStep(t))
  /\ SF_erVars(part = "rooms" /\ \E i \in ErIds : ErCloseStep(i))
  /\ WF_erVars(part = "rooms" /\ ErCastOne)

MCSpec == MCInit /\ [][MCNext]_<<part, vars, appVars, erVars>> /\ MCFairness

\* Shutting down at any moment: stop reaches every loop, the hooks run once, and
\* requests in flight are cut off only by a stop or the deadline (App::stop,
\* App::listen).
StopsClean == AppTypeOK /\ StopReachesLoops /\ HooksOnce /\ RequestsFinish

\* Pipelined requests are handled one at a time, answered in the order they came
\* and never left lying in the buffer (Connection::check_request_state,
\* Connection::continue_after_response).
RequestsInOrder == TypeOK /\ OneAtATime /\ AnsweredInOrder /\ NothingForgotten
====
