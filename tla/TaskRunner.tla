---- MODULE TaskRunner ----
\* What orbit::concurrency::ThreadPool promises the code that uses it: a
\* task handed over runs exactly once, tasks start in the order they were
\* handed over, and shutting down waits for all of them.
EXTENDS Naturals, Sequences

CONSTANT Tasks

VARIABLES
  waiting,   \* the tasks handed over and not started, in order
  active,    \* the tasks running
  finished,  \* the tasks that have run
  shut       \* whether the runner has shut down

vars == <<waiting, active, finished, shut>>

Known(t) == t \in active \cup finished \/ \E i \in DOMAIN waiting : waiting[i] = t

Init == waiting = << >> /\ active = {} /\ finished = {} /\ shut = FALSE

Submit(t) ==
  /\ ~shut /\ ~Known(t)
  /\ waiting' = Append(waiting, t)
  /\ UNCHANGED <<active, finished, shut>>

Start ==
  /\ waiting # << >>
  /\ active' = active \cup {Head(waiting)}
  /\ waiting' = Tail(waiting)
  /\ UNCHANGED <<finished, shut>>

Finish(t) ==
  /\ t \in active
  /\ active' = active \ {t}
  /\ finished' = finished \cup {t}
  /\ UNCHANGED <<waiting, shut>>

Shut ==
  /\ waiting = << >> /\ active = {}
  /\ shut' = TRUE
  /\ UNCHANGED <<waiting, active, finished>>

Next == Start \/ Shut \/ \E t \in Tasks : Submit(t) \/ Finish(t)

\* Every task that was handed over is run.
Spec ==
  /\ Init /\ [][Next]_vars
  /\ WF_vars(Start) /\ \A t \in Tasks : WF_vars(Finish(t))

====
