---- MODULE EventLoopProofs ----
\* The event loops' invariants, proved for every number of loops, clients
\* and connections and for every size of the accept batch.
EXTENDS EventLoop, FiniteSetTheorems, TLAPS

\* The steps of the accept callback that happen before its last line.
Accepting == {"load", "cas", "accept", "giveBack", "giveBackNoFd", "limit"}

\* What holds of each loop thread: where the listener is watched, where
\* accepting may be paused, and why the loop may have been told to end.
ListenerInv ==
  \A l \in Loops :
    /\ armed[l] => ~paused[l] /\ accepting[l] /\ pc[l] \notin Accepting \cup {"start", "rearm"}
    /\ pc[l] \in Accepting \cup {"start", "rearm"} => accepting[l]
    /\ pc[l] \in Accepting \cup {"start"} => ~paused[l]
    /\ pc[l] \in {"poll", "resume", "drain", "deadline", "exit"} /\ accepting[l]
         => armed[l] \/ paused[l]
    /\ pc[l] = "check" /\ running[l] /\ accepting[l] => armed[l] \/ paused[l]
    /\ pc[l] \in {"load", "cas", "giveBack", "giveBackNoFd"} => Shared

EndInv ==
  \A l \in Loops :
    /\ requested[l] => deadline[l] # "unset"
    /\ pc[l] = "deadline" => requested[l]
    /\ pc[l] = "ended" => ~running[l]
    /\ ~running[l] => \/ stopped[l] \/ deadline[l] = "over"
                      \/ Table(l) = {} /\ ~accepting[l]

SlotsBounded == Shared => slots <= MaxConnections

\* A single loop with a limit.
Single == Cardinality(Loops) = 1 /\ MaxConnections > 0

OwnerInv == \A c \in Clients : stage[c] # "away" => owner[c] \in Loops

\* Wherever a single loop can go on to accept, its table has room.
RoomInv ==
  Single =>
    /\ Cardinality(AllConnections) <= MaxConnections
    /\ \A l \in Loops :
         armed[l] \/ pc[l] \in {"start", "accept"} \/ (pc[l] = "rearm" /\ ~paused[l])
           => Cardinality(AllConnections) < MaxConnections

\* Every variable but the counter, which is a natural number only because it is
\* exact.
TypeRest ==
  /\ pc \in [Loops -> Steps]
  /\ taken \in [Loops -> 0 .. AcceptBatch]
  /\ seen \in [Loops -> Nat]
  /\ armed \in [Loops -> BOOLEAN]
  /\ paused \in [Loops -> BOOLEAN]
  /\ backoff \in [Loops -> BOOLEAN]
  /\ accepting \in [Loops -> BOOLEAN]
  /\ running \in [Loops -> BOOLEAN]
  /\ requested \in [Loops -> BOOLEAN]
  /\ deadline \in [Loops -> {"unset", "ahead", "over"}]
  /\ stopped \in [Loops -> BOOLEAN]
  /\ stage \in [Clients -> Stages]
  /\ owner \in [Clients -> Loops \cup {NoLoop}]
  /\ fdErrors \in 0 .. MaxFdErrors

\* While an iteration of the accept loop runs, the batch is not used up.
BatchInv ==
  \A l \in Loops :
    /\ pc[l] \in Accepting => taken[l] < AcceptBatch
    /\ pc[l] \notin Accepting \cup {"rearm"} => taken[l] = 0

\* The inductive invariant.
LoopInv ==
  /\ TypeOK /\ BatchInv
  /\ ListenerInv /\ EndInv
  /\ SlotsExact /\ SlotsBounded
  /\ OwnerInv /\ RoomInv

\* Facts about sets that the counting below needs.
LEMMA CountedFinite ==
  /\ IsFiniteSet(Counted) /\ Cardinality(Counted) \in Nat
  /\ IsFiniteSet(Reserving) /\ Cardinality(Reserving) \in Nat
  /\ IsFiniteSet(AllConnections) /\ Cardinality(AllConnections) \in Nat
BY LoopAssumption, FS_Subset, FS_CardinalityType DEF Counted, Reserving, AllConnections

LEMMA InitInv == Init => LoopInv
<1> SUFFICES ASSUME Init PROVE LoopInv OBVIOUS
<1>1. TypeOK BY LoopAssumption DEF Init, TypeOK, Steps, Stages
<1>2. Counted = {} /\ Reserving = {} /\ AllConnections = {} BY DEF Init, Counted, Reserving, AllConnections
<1>3. SlotsExact /\ SlotsBounded BY <1>2, FS_EmptySet, LoopAssumption DEF SlotsExact, SlotsBounded, Init, Shared
<1>4. OwnerInv /\ RoomInv BY <1>2, FS_EmptySet, LoopAssumption DEF OwnerInv, RoomInv, Init, Single
<1>5. ListenerInv /\ EndInv /\ BatchInv BY LoopAssumption DEF ListenerInv, EndInv, BatchInv, Accepting, Init
<1> QED BY <1>1, <1>3, <1>4, <1>5 DEF LoopInv

\* Every step keeps the types, the counter aside.
LEMMA TypeStep ==
  ASSUME LoopInv, Next
  PROVE  TypeRest' /\ BatchInv'
<1> USE LoopAssumption DEF At, Goto, LoopInv, TypeOK, acceptVars, flagVars, TypeRest, BatchInv, Accepting,
    Steps, Stages
<1>1. ASSUME NEW l \in Loops, LoopStep(l)
      PROVE  TypeRest' /\ BatchInv'
  <2>1. CASE Start(l) BY <2>1 DEF Start, DoAccept
  <2>2. CASE Check(l) BY <2>2 DEF Check
  <2>3. CASE PollReadable(l) BY <2>3 DEF PollReadable, NextAccept
  <2>4. CASE PollOther(l) BY <2>4 DEF PollOther
  <2>5. CASE LoadSlots(l) BY <2>5 DEF LoadSlots
  <2>6. CASE CasSlots(l) \/ AcceptNoFd(l) \/ Limit(l) \/ Rearm(l)
    <3> USE <2>6 DEF CasSlots, AcceptNoFd, Limit, Rearm, PauseForFd, NextAccept, DoAccept, EndCallback
    <3>1. pc' \in [Loops -> Steps] /\ taken' \in [Loops -> 0 .. AcceptBatch] OBVIOUS
    <3>2. armed' \in [Loops -> BOOLEAN] OBVIOUS
    <3>3. paused' \in [Loops -> BOOLEAN] OBVIOUS
    <3>4. backoff' \in [Loops -> BOOLEAN] OBVIOUS
    <3>5. seen' \in [Loops -> Nat] OBVIOUS
    <3>6. fdErrors' \in 0 .. MaxFdErrors OBVIOUS
    <3>7. TypeRest' BY <3>1, <3>2, <3>3, <3>4, <3>5, <3>6
    <3>8. BatchInv' OBVIOUS
    <3> QED BY <3>7, <3>8
  <2>7. ASSUME NEW c \in Clients, AcceptClient(l, c)
        PROVE  TypeRest' /\ BatchInv' BY <2>7 DEF AcceptClient
  <2>8. CASE AcceptNone(l) BY <2>8 DEF AcceptNone
  <2>10. CASE GiveBack(l) BY <2>10 DEF GiveBack
  <2>11. CASE GiveBackNoFd(l) BY <2>11 DEF GiveBackNoFd, PauseForFd, EndCallback
  <2>14. CASE Resume(l) BY <2>14 DEF Resume, DoAccept
  <2>15. CASE DrainStep(l) BY <2>15 DEF DrainStep, DrainedStage, Drained, Backlog
  <2>16. CASE NoDrain(l) BY <2>16 DEF NoDrain
  <2>17. CASE DeadlineCheck(l) BY <2>17 DEF DeadlineCheck
  <2>18. CASE ExitCheck(l) BY <2>18 DEF ExitCheck
  <2> QED BY <1>1, <2>1, <2>2, <2>3, <2>4, <2>5, <2>6, <2>7, <2>8, <2>10, <2>11, <2>14, <2>15, <2>16, <2>17, <2>18
  DEF LoopStep
<1>2. ASSUME NEW l \in Loops, \/ SetDeadline(l) \/ RequestShutdown(l) \/ Stop(l)
                              \/ BackoffPasses(l) \/ DeadlinePasses(l)
                              \/ \E c \in Clients : Connect(c, l)
      PROVE  TypeRest' /\ BatchInv'
  <2>1. CASE SetDeadline(l) BY <2>1 DEF SetDeadline
  <2>2. CASE RequestShutdown(l) BY <2>2 DEF RequestShutdown
  <2>3. CASE Stop(l) BY <2>3 DEF Stop
  <2>4. CASE BackoffPasses(l) BY <2>4 DEF BackoffPasses
  <2>5. CASE DeadlinePasses(l) BY <2>5 DEF DeadlinePasses
  <2>6. ASSUME NEW c \in Clients, Connect(c, l)
        PROVE  TypeRest' /\ BatchInv' BY <2>6 DEF Connect
  <2> QED BY <1>2, <2>1, <2>2, <2>3, <2>4, <2>5, <2>6
<1>3. ASSUME NEW c \in Clients, Request(c) \/ Respond(c) \/ Remove(c) \/ Removed(c)
      PROVE  TypeRest' /\ BatchInv'
  <2>1. CASE Request(c) BY <2>1 DEF Request
  <2>2. CASE Respond(c) BY <2>2 DEF Respond
  <2>3. CASE Remove(c) BY <2>3 DEF Remove
  <2>4. CASE Removed(c) BY <2>4 DEF Removed
  <2> QED BY <1>3, <2>1, <2>2, <2>3, <2>4
<1> QED BY <1>1, <1>2, <1>3 DEF Next

\* Every step keeps the listener watched or accepting paused, and the reasons
\* for a loop to end.
LEMMA EndStep ==
  ASSUME LoopInv, Next
  PROVE  ListenerInv' /\ EndInv'
<1> USE DEF At, Goto, LoopInv, TypeOK, acceptVars, flagVars, EndInv, ListenerInv, Accepting,
    Steps, Table, DeadlineOver
<1>1. ASSUME NEW l \in Loops, LoopStep(l)
      PROVE  ListenerInv' /\ EndInv'
  <2>1. CASE Start(l) BY <2>1 DEF Start, DoAccept
  <2>2. CASE Check(l) BY <2>2 DEF Check
  <2>3. CASE PollReadable(l) BY <2>3 DEF PollReadable, NextAccept
  <2>4. CASE PollOther(l) BY <2>4 DEF PollOther
  <2>5. CASE LoadSlots(l) BY <2>5 DEF LoadSlots
  <2>6. CASE CasSlots(l) BY <2>6 DEF CasSlots, EndCallback
  <2>7. ASSUME NEW c \in Clients, AcceptClient(l, c)
        PROVE  ListenerInv' /\ EndInv' BY <2>7 DEF AcceptClient, Backlog
  <2>8. CASE AcceptNone(l) BY <2>8 DEF AcceptNone
  <2>9. CASE AcceptNoFd(l) BY <2>9 DEF AcceptNoFd, PauseForFd, EndCallback
  <2>10. CASE GiveBack(l) BY <2>10 DEF GiveBack
  <2>11. CASE GiveBackNoFd(l) BY <2>11 DEF GiveBackNoFd, PauseForFd, EndCallback
  <2>12. CASE Limit(l) BY <2>12 DEF Limit, NextAccept
  <2>13. CASE Rearm(l) BY <2>13 DEF Rearm, DoAccept, EndCallback
  <2>14. CASE Resume(l) BY <2>14 DEF Resume, DoAccept
  <2>15. CASE DrainStep(l) BY <2>15 DEF DrainStep, DrainedStage, Drained, Backlog
  <2>16. CASE NoDrain(l) BY <2>16 DEF NoDrain
  <2>17. CASE DeadlineCheck(l) BY <2>17 DEF DeadlineCheck
  <2>18. CASE ExitCheck(l) BY <2>18 DEF ExitCheck
  <2> QED BY <1>1, <2>1, <2>2, <2>3, <2>4, <2>5, <2>6, <2>7, <2>8, <2>9, <2>10, <2>11, <2>12, <2>13, <2>14, <2>15, <2>16, <2>17, <2>18
  DEF LoopStep
<1>2. ASSUME NEW l \in Loops, \/ SetDeadline(l) \/ RequestShutdown(l) \/ Stop(l)
                              \/ BackoffPasses(l) \/ DeadlinePasses(l)
                              \/ \E c \in Clients : Connect(c, l)
      PROVE  ListenerInv' /\ EndInv'
  <2>1. CASE SetDeadline(l) BY <2>1 DEF SetDeadline
  <2>2. CASE RequestShutdown(l) BY <2>2 DEF RequestShutdown
  <2>3. CASE Stop(l) BY <2>3 DEF Stop
  <2>4. CASE BackoffPasses(l) BY <2>4 DEF BackoffPasses
  <2>5. CASE DeadlinePasses(l) BY <2>5 DEF DeadlinePasses
  <2>6. ASSUME NEW c \in Clients, Connect(c, l)
        PROVE  ListenerInv' /\ EndInv' BY <2>6 DEF Connect
  <2> QED BY <1>2, <2>1, <2>2, <2>3, <2>4, <2>5, <2>6
<1>3. ASSUME NEW c \in Clients, Request(c) \/ Respond(c) \/ Remove(c) \/ Removed(c)
      PROVE  ListenerInv' /\ EndInv'
  <2>1. CASE Request(c) BY <2>1 DEF Request
  <2>2. CASE Respond(c) BY <2>2 DEF Respond
  <2>3. CASE Remove(c) BY <2>3 DEF Remove
  <2>4. CASE Removed(c) BY <2>4 DEF Removed
  <2> QED BY <1>3, <2>1, <2>2, <2>3, <2>4
<1> QED BY <1>1, <1>2, <1>3 DEF Next

\* The steps at which a loop holds a slot it has not used yet.
Holding == {"accept", "giveBack", "giveBackNoFd"}

\* A step that touches neither the counter nor what it counts.
LEMMA SlotsUntouched ==
  ASSUME LoopInv, slots' = slots, Counted' = Counted, Reserving' = Reserving
  PROVE  slots' \in Nat /\ SlotsExact' /\ SlotsBounded' BY DEF LoopInv, TypeOK, SlotsExact, SlotsBounded

\* A step of a loop that moves no connection and neither takes nor drops a slot.
LEMMA NoSlotMoved ==
  ASSUME LoopInv, slots' = slots, stage' = stage,
         Shared => \A k \in Loops : pc'[k] \in Holding <=> pc[k] \in Holding
  PROVE  slots' \in Nat /\ SlotsExact' /\ SlotsBounded'
<1>1. Counted' = Counted BY DEF Counted
<1>2. Reserving' = Reserving BY DEF Reserving, Holding
<1> QED BY <1>1, <1>2, SlotsUntouched

\* Every step keeps the shared counter exact and within the limit.
LEMMA SlotsStep ==
  ASSUME LoopInv, Next
  PROVE  slots' \in Nat /\ SlotsExact' /\ SlotsBounded'
<1> USE NoSlotMoved DEF At, Goto, LoopInv, TypeOK, acceptVars, flagVars, Holding
<1>1. ASSUME NEW l \in Loops, LoopStep(l)
      PROVE  slots' \in Nat /\ SlotsExact' /\ SlotsBounded'
  <2>1. CASE Start(l) BY <2>1 DEF Start, DoAccept
  <2>2. CASE Check(l) BY <2>2 DEF Check
  <2>3. CASE PollReadable(l) BY <2>3 DEF PollReadable, NextAccept
  <2>4. CASE PollOther(l) BY <2>4 DEF PollOther
  <2>5. CASE LoadSlots(l) BY <2>5 DEF LoadSlots
  <2>6. CASE CasSlots(l)
    <3>1. Counted' = Counted BY <2>6 DEF CasSlots, Counted
    <3>2. CASE seen[l] >= MaxConnections
      <4>1. slots' = slots /\ Reserving' = Reserving
        BY <2>6, <3>2, LoopAssumption DEF CasSlots, EndCallback, Reserving
      <4> QED BY <3>1, <4>1, SlotsUntouched
    <3>3. CASE seen[l] < MaxConnections /\ seen[l] = slots
      <4>1. slots' = slots + 1 /\ slots' <= MaxConnections /\ slots \in Nat BY <2>6, <3>3, LoopAssumption DEF CasSlots
      <4>2. l \notin Reserving /\ Reserving' = Reserving \cup {l}
        BY <2>6, <3>3, LoopAssumption DEF CasSlots, EndCallback, Reserving, ListenerInv
      <4>3. Cardinality(Reserving') = Cardinality(Reserving) + 1 BY <4>2, CountedFinite, FS_AddElement
      <4> QED BY <3>1, <4>1, <4>3, CountedFinite DEF SlotsExact, SlotsBounded
    <3>4. CASE seen[l] < MaxConnections /\ seen[l] # slots
      <4>1. slots' = slots /\ Reserving' = Reserving BY <2>6, <3>4, LoopAssumption DEF CasSlots, Reserving
      <4> QED BY <3>1, <4>1, SlotsUntouched
    <3> QED BY <3>2, <3>3, <3>4, LoopAssumption
  <2>7. ASSUME NEW c \in Clients, AcceptClient(l, c)
        PROVE  slots' \in Nat /\ SlotsExact' /\ SlotsBounded'
    <3>1. slots' = slots /\ slots \in Nat BY <2>7 DEF AcceptClient
    <3>2. CASE Shared
      <4>1. c \notin Counted /\ Counted' = Counted \cup {c} BY <2>7 DEF AcceptClient, Backlog, Counted
      <4>2. l \in Reserving /\ Reserving' = Reserving \ {l} BY <2>7, <3>2 DEF AcceptClient, Reserving
      <4>3. Cardinality(Counted') = Cardinality(Counted) + 1 BY <4>1, CountedFinite, FS_AddElement
      <4>4. Cardinality(Reserving') = Cardinality(Reserving) - 1 BY <4>2, CountedFinite, FS_RemoveElement
      <4> QED BY <3>1, <4>3, <4>4, CountedFinite DEF SlotsExact, SlotsBounded
    <3> QED BY <3>1, <3>2 DEF SlotsExact, SlotsBounded
  <2>8. CASE AcceptNone(l) BY <2>8 DEF AcceptNone
  <2>9. CASE AcceptNoFd(l) BY <2>9 DEF AcceptNoFd, PauseForFd, EndCallback
  <2>10. CASE GiveBack(l)
    <3>1. Shared /\ l \in Reserving BY <2>10 DEF GiveBack, Reserving, ListenerInv
    <3>2. Counted' = Counted /\ Reserving' = Reserving \ {l} BY <2>10 DEF GiveBack, Counted, Reserving
    <3>3. Cardinality(Reserving') = Cardinality(Reserving) - 1 /\ Cardinality(Reserving') \in Nat
      BY <3>1, <3>2, CountedFinite, FS_RemoveElement, FS_CardinalityType
    <3>4. slots' = slots - 1 /\ slots \in Nat BY <2>10 DEF GiveBack
    <3> QED BY <3>1, <3>2, <3>3, <3>4, CountedFinite, LoopAssumption DEF SlotsExact, SlotsBounded
  <2>11. CASE GiveBackNoFd(l)
    <3>1. Shared /\ l \in Reserving BY <2>11 DEF GiveBackNoFd, Reserving, ListenerInv
    <3>2. Counted' = Counted /\ Reserving' = Reserving \ {l}
      BY <2>11 DEF GiveBackNoFd, PauseForFd, EndCallback, Counted, Reserving
    <3>3. Cardinality(Reserving') = Cardinality(Reserving) - 1 /\ Cardinality(Reserving') \in Nat
      BY <3>1, <3>2, CountedFinite, FS_RemoveElement, FS_CardinalityType
    <3>4. slots' = slots - 1 /\ slots \in Nat BY <2>11 DEF GiveBackNoFd
    <3> QED BY <3>1, <3>2, <3>3, <3>4, CountedFinite, LoopAssumption DEF SlotsExact, SlotsBounded
  <2>12. CASE Limit(l) BY <2>12 DEF Limit, NextAccept
  <2>13. CASE Rearm(l) BY <2>13 DEF Rearm, DoAccept, EndCallback
  <2>14. CASE Resume(l) BY <2>14 DEF Resume, DoAccept
  <2>15. CASE DrainStep(l)
    <3>1. slots' = slots /\ Counted' = Counted /\ Reserving' = Reserving
      BY <2>15 DEF DrainStep, DrainedStage, Drained, Backlog, Counted, Reserving, Table
    <3> QED BY <3>1, SlotsUntouched
  <2>16. CASE NoDrain(l) BY <2>16 DEF NoDrain
  <2>17. CASE DeadlineCheck(l) BY <2>17 DEF DeadlineCheck
  <2>18. CASE ExitCheck(l) BY <2>18 DEF ExitCheck
  <2> QED BY <1>1, <2>1, <2>2, <2>3, <2>4, <2>5, <2>6, <2>7, <2>8, <2>9, <2>10, <2>11, <2>12, <2>13, <2>14, <2>15, <2>16, <2>17, <2>18
  DEF LoopStep
<1>2. ASSUME NEW l \in Loops, \/ SetDeadline(l) \/ RequestShutdown(l) \/ Stop(l)
                              \/ BackoffPasses(l) \/ DeadlinePasses(l)
                              \/ \E c \in Clients : Connect(c, l)
      PROVE  slots' \in Nat /\ SlotsExact' /\ SlotsBounded'
  <2>1. CASE SetDeadline(l) BY <2>1 DEF SetDeadline
  <2>2. CASE RequestShutdown(l) BY <2>2 DEF RequestShutdown
  <2>3. CASE Stop(l) BY <2>3 DEF Stop
  <2>4. CASE BackoffPasses(l) BY <2>4 DEF BackoffPasses
  <2>5. CASE DeadlinePasses(l) BY <2>5 DEF DeadlinePasses
  <2>6. ASSUME NEW c \in Clients, Connect(c, l)
        PROVE  slots' \in Nat /\ SlotsExact' /\ SlotsBounded'
    <3>1. slots' = slots /\ Counted' = Counted /\ Reserving' = Reserving BY <2>6 DEF Connect, Counted, Reserving
    <3> QED BY <3>1, SlotsUntouched
  <2> QED BY <1>2, <2>1, <2>2, <2>3, <2>4, <2>5, <2>6
<1>3. ASSUME NEW c \in Clients, Request(c) \/ Respond(c) \/ Remove(c) \/ Removed(c)
      PROVE  slots' \in Nat /\ SlotsExact' /\ SlotsBounded'
  <2>1. CASE Request(c) \/ Respond(c) \/ Remove(c)
    <3>1. slots' = slots /\ Counted' = Counted /\ Reserving' = Reserving
      BY <2>1 DEF Request, Respond, Remove, Counted, Reserving
    <3> QED BY <3>1, SlotsUntouched
  <2>2. CASE Removed(c)
    <3>1. c \in Counted /\ Counted' = Counted \ {c} /\ Reserving' = Reserving BY <2>2 DEF Removed, Counted, Reserving
    <3>2. Cardinality(Counted') = Cardinality(Counted) - 1 /\ Cardinality(Counted') \in Nat
      BY <3>1, CountedFinite, FS_RemoveElement, FS_CardinalityType
    <3>3. slots' = (IF Shared THEN slots - 1 ELSE slots) /\ slots \in Nat BY <2>2 DEF Removed
    <3> QED BY <3>1, <3>2, <3>3, CountedFinite, LoopAssumption DEF SlotsExact, SlotsBounded
  <2> QED BY <1>3, <2>1, <2>2
<1> QED BY <1>1, <1>2, <1>3 DEF Next

\* With a single loop there is no shared limit, and its table is all there is.
LEMMA SingleLoop ==
  ASSUME Single, TypeOK, OwnerInv
  PROVE  /\ ~Shared
         /\ \A k, l \in Loops : k = l
         /\ \A l \in Loops : Table(l) = AllConnections
<1>1. ~Shared BY DEF Single, Shared
<1>2. \A k, l \in Loops : k = l BY LoopAssumption, FS_Singleton DEF Single
<1>3. \A l \in Loops : Table(l) = AllConnections BY <1>2 DEF Table, AllConnections, OwnerInv, TypeOK
<1> QED BY <1>1, <1>2, <1>3

\* Where a loop can go on to accept.
MayAccept(l) ==
  armed[l] \/ pc[l] \in {"start", "accept"} \/ (pc[l] = "rearm" /\ ~paused[l])

\* A step that opens no connection and leads no loop towards accepting.
LEMMA RoomUntouched ==
  ASSUME LoopInv, AllConnections' \subseteq AllConnections,
         Single => \A l \in Loops : MayAccept(l)' =>
                     MayAccept(l) \/ Cardinality(AllConnections) < MaxConnections
  PROVE  RoomInv'
<1>1. /\ Cardinality(AllConnections') \in Nat /\ Cardinality(AllConnections) \in Nat
      /\ Cardinality(AllConnections') <= Cardinality(AllConnections) BY CountedFinite, FS_Subset, FS_CardinalityType
<1> QED BY <1>1, LoopAssumption DEF LoopInv, RoomInv, MayAccept

\* The same for a step that moves no connection.
LEMMA NoConnectionMoved ==
  ASSUME LoopInv, UNCHANGED <<stage, owner>>,
         Single => \A l \in Loops : MayAccept(l)' =>
                     MayAccept(l) \/ Cardinality(AllConnections) < MaxConnections
  PROVE  OwnerInv' /\ RoomInv'
<1>1. OwnerInv' /\ AllConnections' = AllConnections BY DEF LoopInv, OwnerInv, AllConnections
<1> QED BY <1>1, RoomUntouched

\* Every step keeps a single loop within its limit.
LEMMA RoomStep ==
  ASSUME LoopInv, Next
  PROVE  OwnerInv' /\ RoomInv'
<1> USE NoConnectionMoved, SingleLoop DEF At, Goto, LoopInv, TypeOK, acceptVars, flagVars, MayAccept, ListenerInv
<1> DEFINE Widens == Single => \A k \in Loops : MayAccept(k)' =>
                   MayAccept(k) \/ Cardinality(AllConnections) < MaxConnections
<1>1. ASSUME NEW l \in Loops, LoopStep(l)
      PROVE  OwnerInv' /\ RoomInv'
  <2>1. CASE Start(l) BY <2>1 DEF Start, DoAccept
  <2>2. CASE Check(l) BY <2>2 DEF Check
  <2>3. CASE PollReadable(l) BY <2>3 DEF PollReadable, NextAccept
  <2>4. CASE PollOther(l) BY <2>4 DEF PollOther
  <2>5. CASE LoadSlots(l) BY <2>5 DEF LoadSlots
  <2>6. CASE CasSlots(l) BY <2>6 DEF CasSlots, EndCallback
  <2>7. ASSUME NEW c \in Clients, AcceptClient(l, c)
        PROVE  OwnerInv' /\ RoomInv'
    <3>1. OwnerInv' BY <2>7 DEF AcceptClient, Backlog, OwnerInv
    <3>2. c \notin AllConnections /\ AllConnections' = AllConnections \cup {c}
      BY <2>7 DEF AcceptClient, Backlog, AllConnections
    <3>3. Cardinality(AllConnections') = Cardinality(AllConnections) + 1 BY <3>2, CountedFinite, FS_AddElement
    <3>4. Single => Cardinality(AllConnections) < MaxConnections BY <2>7 DEF AcceptClient, RoomInv
    <3>5. Single => \A k \in Loops : ~MayAccept(k)' BY <2>7 DEF AcceptClient, MayAccept, Accepting, ListenerInv
    <3> QED BY <3>1, <3>3, <3>4, <3>5, CountedFinite, LoopAssumption DEF RoomInv, MayAccept
  <2>8. CASE AcceptNone(l) BY <2>8 DEF AcceptNone
  <2>9. CASE AcceptNoFd(l) BY <2>9 DEF AcceptNoFd, PauseForFd, EndCallback
  <2>10. CASE GiveBack(l) BY <2>10 DEF GiveBack
  <2>11. CASE GiveBackNoFd(l) BY <2>11 DEF GiveBackNoFd, PauseForFd, EndCallback
  <2>12. CASE Limit(l) BY <2>12, CountedFinite, LoopAssumption DEF Limit, NextAccept, AtLimit, Single
  <2>13. CASE Rearm(l) BY <2>13 DEF Rearm, DoAccept, EndCallback
  <2>14. CASE Resume(l) BY <2>14, CountedFinite, LoopAssumption DEF Resume, DoAccept, AtLimit, Single
  <2>15. CASE DrainStep(l)
    <3>1. OwnerInv' BY <2>15 DEF DrainStep, DrainedStage, Drained, Backlog, OwnerInv, Table
    <3>2. AllConnections' \subseteq AllConnections
      BY <2>15 DEF DrainStep, DrainedStage, Drained, Backlog, AllConnections, Table
    <3>3. Widens BY <2>15 DEF DrainStep, DrainedStage, Drained, Backlog
    <3> QED BY <3>1, <3>2, <3>3, RoomUntouched
  <2>16. CASE NoDrain(l) BY <2>16 DEF NoDrain
  <2>17. CASE DeadlineCheck(l) BY <2>17 DEF DeadlineCheck
  <2>18. CASE ExitCheck(l) BY <2>18 DEF ExitCheck
  <2> QED BY <1>1, <2>1, <2>2, <2>3, <2>4, <2>5, <2>6, <2>7, <2>8, <2>9, <2>10, <2>11, <2>12, <2>13, <2>14, <2>15, <2>16, <2>17, <2>18
  DEF LoopStep
<1>2. ASSUME NEW l \in Loops, \/ SetDeadline(l) \/ RequestShutdown(l) \/ Stop(l)
                              \/ BackoffPasses(l) \/ DeadlinePasses(l)
                              \/ \E c \in Clients : Connect(c, l)
      PROVE  OwnerInv' /\ RoomInv'
  <2>1. CASE SetDeadline(l) BY <2>1 DEF SetDeadline
  <2>2. CASE RequestShutdown(l) BY <2>2 DEF RequestShutdown
  <2>3. CASE Stop(l) BY <2>3 DEF Stop
  <2>4. CASE BackoffPasses(l) BY <2>4 DEF BackoffPasses
  <2>5. CASE DeadlinePasses(l) BY <2>5 DEF DeadlinePasses
  <2>6. ASSUME NEW c \in Clients, Connect(c, l)
        PROVE  OwnerInv' /\ RoomInv'
    <3>1. OwnerInv' BY <2>6 DEF Connect, OwnerInv
    <3>2. AllConnections' \subseteq AllConnections BY <2>6 DEF Connect, AllConnections
    <3>3. Widens BY <2>6 DEF Connect
    <3> QED BY <3>1, <3>2, <3>3, RoomUntouched
  <2> QED BY <1>2, <2>1, <2>2, <2>3, <2>4, <2>5, <2>6
<1>3. ASSUME NEW c \in Clients, Request(c) \/ Respond(c) \/ Remove(c) \/ Removed(c)
      PROVE  OwnerInv' /\ RoomInv'
  <2> USE <1>3 DEF Request, Respond, Remove, Removed
  <2>1. OwnerInv' /\ AllConnections' \subseteq AllConnections BY DEF OwnerInv, AllConnections
  <2>2. Widens OBVIOUS
  <2> QED BY <2>1, <2>2, RoomUntouched
<1> QED BY <1>1, <1>2, <1>3 DEF Next

LEMMA InvStep == LoopInv /\ [Next]_vars => LoopInv'
<1> SUFFICES ASSUME LoopInv, [Next]_vars PROVE LoopInv' OBVIOUS
<1>1. CASE Next
  <2>1. TypeOK' BY <1>1, TypeStep, SlotsStep DEF TypeOK, TypeRest
  <2> QED BY <1>1, <2>1, TypeStep, EndStep, SlotsStep, RoomStep DEF LoopInv
<1>2. CASE UNCHANGED vars BY <1>2 DEF vars, LoopInv, TypeOK, BatchInv, ListenerInv, EndInv, SlotsExact, SlotsBounded,
      OwnerInv, RoomInv, Table, Counted, Reserving, AllConnections
<1> QED BY <1>1, <1>2

\* The inductive invariant holds of every behaviour of the event loops.
THEOREM LoopInvariant == Spec => []LoopInv BY InitInv, InvStep, PTL DEF Spec

\* Types, for any number of loops and clients; in particular shared_open_, a
\* size_t, is never decremented at zero.
THEOREM TypeCorrect == Spec => []TypeOK
<1>1. LoopInv => TypeOK BY DEF LoopInv
<1> QED BY <1>1, LoopInvariant, PTL

\* reserve_slot, wait_and_accept and on_removed_ keep the shared counter equal
\* to the connections plus the reservations in progress.
THEOREM SharedCountExact == Spec => []SlotsExact
<1>1. LoopInv => SlotsExact BY DEF LoopInv
<1> QED BY <1>1, LoopInvariant, PTL

\* The loops of an App together never hold more than max_connections, with the
\* shared budget of several loops as well as with the single loop's own count.
THEOREM ConnectionLimit == Spec => []LimitKept
<1>1. LoopInv => LimitKept
  <2> SUFFICES ASSUME LoopInv, MaxConnections > 0, Shared \/ Cardinality(Loops) = 1
               PROVE  Cardinality(AllConnections) <= MaxConnections BY DEF LimitKept
  <2>1. CASE Shared
    <3>1. AllConnections \in SUBSET Counted BY DEF AllConnections, Counted
    <3>2. Cardinality(AllConnections) <= Cardinality(Counted) BY <3>1, CountedFinite, FS_Subset
    <3> QED BY <2>1, <3>2, CountedFinite, LoopAssumption DEF LoopInv, TypeOK, SlotsExact, SlotsBounded
  <2>2. CASE Cardinality(Loops) = 1 BY <2>2 DEF LoopInv, RoomInv, Single
  <2> QED BY <2>1, <2>2
<1> QED BY <1>1, LoopInvariant, PTL

\* A loop that still accepts never polls with a deaf listener.
THEOREM ListenerNeverDeaf == Spec => []ListenerWatched
<1>1. LoopInv => ListenerWatched BY DEF LoopInv, ListenerInv, ListenerWatched, At
<1> QED BY <1>1, LoopInvariant, PTL

\* A closed listener is neither watched nor accepted on again.
THEOREM ListenerClosedForGood == Spec => []ClosedStaysClosed
<1>1. LoopInv => ClosedStaysClosed BY DEF LoopInv, TypeOK, ListenerInv, ClosedStaysClosed, Accepting
<1> QED BY <1>1, LoopInvariant, PTL

\* Requests in flight are cut off only by stop() or after the deadline.
THEOREM EndsGracefully == Spec => []GracefulExit
<1>1. LoopInv => GracefulExit BY DEF LoopInv, EndInv, GracefulExit, At
<1> QED BY <1>1, LoopInvariant, PTL

====
