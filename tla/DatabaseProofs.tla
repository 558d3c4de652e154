---- MODULE DatabaseProofs ----
\* The invariants of the database connection pool, for every number of
\* clients and acquirers and for every health-check and backoff setting, and
\* of the Redis and PostgreSQL clients, the database awaits and the
\* migration runners, for every value of theirs.
EXTENDS MCDbConnectionPool, DatabaseClients, FiniteSetTheorems, SequenceTheorems, WellFoundedInduction, TLAPS

\* The idle queue holds each idle client once, and nothing else.
IdleQueueExact ==
  /\ \A i \in 1 .. Len(idle) : where[idle[i]] = "idle"
  /\ \A i, j \in 1 .. Len(idle) : idle[i] = idle[j] => i = j

Reconnecting == {c \in Clients : where[c] \in {"connecting", "backoff"}}

\* The inductive invariant: the exclusiveness of a handed-out client rests on
\* the idle queue holding it at most once, and reconnecting_ staying a natural
\* number (it is an unsigned counter) on its being exactly the number of
\* attempts.
PoolInv ==
  /\ TypeOK
  /\ NoIdleWhileWaiting
  /\ IdleQueueExact
  /\ ExclusiveUse
  /\ ReconnectingExact

\* The smallest member of a set of natural numbers is one of its members.
LEMMA MinMember ==
  ASSUME NEW S \in SUBSET Nat, S # {}
  PROVE  Min(S) \in S /\ \A y \in S : Min(S) <= y
<1>1. \E n \in S : \A y \in S : <<y, n>> \notin OpToRel(<, Nat) BY NatLessThanWellFounded, WFMin, Zenon
<1>2. \A x, y \in Nat : y < x => <<y, x>> \in OpToRel(<, Nat) BY DEF OpToRel
<1>3. PICK n \in S : \A y \in S : ~(y < n) BY <1>1, <1>2, Zenon
<1>4. \A y \in S : n <= y BY <1>3
<1> QED BY <1>4, Zenon DEF Min

\* The delay before the next attempt stays within the configured maximum, and is
\* at least the initial backoff.
LEMMA NextDelayBounds ==
  ASSUME NEW d \in Delays
  PROVE  NextDelay(d) \in InitialBackoff .. MaxBackoff
<1> DEFINE m == Max({InitialBackoff, 2 * d})
<1>1. m \in Nat /\ m >= InitialBackoff
  <2>1. \E x \in {InitialBackoff, 2 * d} : \A y \in {InitialBackoff, 2 * d} : x >= y BY PoolAssumption DEF Delays
  <2>2. m \in {InitialBackoff, 2 * d} /\ \A y \in {InitialBackoff, 2 * d} : m >= y BY <2>1 DEF Max
  <2> QED BY <2>2, PoolAssumption DEF Delays
<1>2. {m, MaxBackoff} \in SUBSET Nat BY <1>1, PoolAssumption
<1> HIDE DEF m
<1>3. Min({m, MaxBackoff}) \in {m, MaxBackoff}
      /\ \A y \in {m, MaxBackoff} : Min({m, MaxBackoff}) <= y BY <1>2, MinMember
<1>4. Min({m, MaxBackoff}) \in InitialBackoff .. MaxBackoff BY <1>1, <1>3, PoolAssumption
<1> QED BY <1>4 DEF NextDelay, m

\* acquire() drops a prefix of the idle queue.
LEMMA DroppedPrefix ==
  ASSUME TypeOK
  PROVE  Dropped \in 0 .. Len(idle)
<1> DEFINE usableAt == {i \in 1 .. Len(idle) : Usable(idle[i])}
<1>0. Len(idle) \in Nat BY DEF TypeOK
<1>1. CASE usableAt = {} BY <1>0, <1>1 DEF Dropped
<1>2. CASE usableAt # {}
  <2>1. usableAt \in SUBSET Nat BY <1>0
  <2>2. Min(usableAt) \in usableAt BY <1>2, <2>1, MinMember
  <2> QED BY <1>0, <1>2, <2>2 DEF Dropped
<1> QED BY <1>1, <1>2

LEMMA ReconnectingFinite == IsFiniteSet(Reconnecting) /\ Cardinality(Reconnecting) \in Nat
BY PoolAssumption, FS_Subset, FS_CardinalityType DEF Reconnecting

LEMMA InitInv == Init => PoolInv
<1> SUFFICES ASSUME Init PROVE PoolInv OBVIOUS
<1>1. TypeOK
  <2>1. where \in [Clients -> Places] /\ delay \in [Clients -> Delays]
        /\ healthy \in [Clients -> BOOLEAN] BY PoolAssumption DEF Init, Places, Delays
  <2>2. pc \in [Acquirers -> {"free", "replacing", "waiting", "holding"}]
        /\ drops \in [Acquirers -> Nat] /\ holds \in [Acquirers -> Clients \cup {NoClient}] BY DEF Init
  <2>3. idle \in Seq(Clients) /\ waitq \in Seq(Acquirers) BY DEF Init
  <2> QED BY <2>1, <2>2, <2>3 DEF Init, TypeOK
<1>2. Reconnecting = {} BY DEF Init, Reconnecting
<1>3. ReconnectingExact BY <1>2, FS_EmptySet DEF Init, ReconnectingExact, Reconnecting
<1>4. NoIdleWhileWaiting /\ IdleQueueExact /\ ExclusiveUse
  BY DEF Init, NoIdleWhileWaiting, IdleQueueExact, ExclusiveUse
<1> QED BY <1>1, <1>3, <1>4 DEF PoolInv

\* What a step that leaves both queues, the acquirers and the idle and
\* handed-out clients alone preserves.
LEMMA QueuesUntouched ==
  ASSUME PoolInv, UNCHANGED <<idle, waitq, holds>>,
         \A c \in Clients : where[c] \in {"idle", "out"} => where'[c] = where[c]
  PROVE  NoIdleWhileWaiting' /\ IdleQueueExact' /\ ExclusiveUse'
<1>1. NoIdleWhileWaiting' BY DEF PoolInv, NoIdleWhileWaiting
<1>2. IdleQueueExact'
  <2>1. \A i \in 1 .. Len(idle) : idle[i] \in Clients BY DEF PoolInv, TypeOK
  <2> QED BY <2>1 DEF PoolInv, IdleQueueExact
<1>3. ExclusiveUse'
  <2>1. \A a \in Acquirers : holds[a] # NoClient => holds[a] \in Clients BY DEF PoolInv, TypeOK
  <2> QED BY <2>1 DEF PoolInv, ExclusiveUse
<1> QED BY <1>1, <1>2, <1>3

\* A step that moves no client into or out of reconnection keeps the count
\* exact.
LEMMA CountUntouched ==
  ASSUME PoolInv, UNCHANGED reconnecting, alive' => alive,
         alive' => \A c \in Clients : (c \in Reconnecting) <=> (c \in Reconnecting')
  PROVE  ReconnectingExact'
<1>1. alive' => Reconnecting' = Reconnecting BY DEF Reconnecting
<1> QED BY <1>1 DEF PoolInv, ReconnectingExact, Reconnecting

LEMMA InitConnectedStep ==
  ASSUME PoolInv, NEW c \in Clients, NEW success \in BOOLEAN, InitConnected(c, success)
  PROVE  PoolInv'
<1>1. TypeOK'
  <2>1. AfterInitConnect(success) \in Places BY DEF AfterInitConnect, Places
  <2>2. 0 \in Delays /\ InitialBackoff \in Delays BY PoolAssumption DEF Delays
  <2> QED BY <2>1, <2>2 DEF PoolInv, TypeOK, InitConnected, userVars
<1>2. NoIdleWhileWaiting' /\ IdleQueueExact' /\ ExclusiveUse'
  BY QueuesUntouched DEF InitConnected, userVars, PoolInv, TypeOK
<1>3. ReconnectingExact' BY CountUntouched DEF InitConnected, AfterInitConnect, Reconnecting, PoolInv, TypeOK
<1> QED BY <1>1, <1>2, <1>3 DEF PoolInv

\* acquire(): the client it takes leaves the queue that held it only once, so
\* nobody else has it.
LEMMA AcquireStep ==
  ASSUME PoolInv, NEW a \in Acquirers, Acquire(a)
  PROVE  PoolInv'
<1> DEFINE k == Dropped
           gone == {idle[i] : i \in 1 .. k}
           found == k < Len(idle)
           client == IF found THEN idle[k + 1] ELSE NoClient
           rest == SubSeq(idle, k + 2, Len(idle))
<1>k. k \in 0 .. Len(idle) BY DroppedPrefix DEF PoolInv
<1> HIDE DEF k
<1>0. /\ idle \in Seq(Clients) /\ Len(idle) \in Nat
      /\ idle' = rest
      /\ where' = [c \in Clients |-> IF c \in gone THEN "none"
                                     ELSE IF c = client THEN "out" ELSE where[c]]
      /\ drops' = [drops EXCEPT ![a] = k]
      /\ holds' = [holds EXCEPT ![a] = client]
      /\ waitq' = IF found THEN waitq ELSE Append(waitq, a)
      /\ pc' = [pc EXCEPT ![a] = IF found THEN IF k = 0 THEN "holding" ELSE "replacing"
                                 ELSE "waiting"]
      /\ UNCHANGED <<delay, healthy, reconnecting, alive, breaks, initVars>> BY DEF Acquire, PoolInv, TypeOK, k
<1>1. /\ rest \in Seq(Clients)
      /\ Len(rest) = IF found THEN Len(idle) - k - 1 ELSE 0
      /\ \A i \in 1 .. Len(rest) : rest[i] = idle[i + k + 1] BY <1>k, <1>0, SubSeqProperties
<1>2. /\ gone \subseteq {c \in Clients : where[c] = "idle"}
      /\ found => client \in Clients /\ where[client] = "idle" /\ client \notin gone
      /\ \A i \in 1 .. Len(rest) : rest[i] \in Clients /\ rest[i] \notin gone \cup {client}
  <2>1. gone \subseteq {c \in Clients : where[c] = "idle"}
    <3>1. \A i \in 1 .. k : idle[i] \in Clients /\ where[idle[i]] = "idle" BY <1>k, <1>0 DEF PoolInv, IdleQueueExact
    <3> QED BY <3>1
  <2>2. found => client \in Clients /\ where[client] = "idle" /\ client \notin gone
    BY <1>k, <1>0 DEF PoolInv, IdleQueueExact
  <2>3. ASSUME NEW i \in 1 .. Len(rest)
        PROVE  rest[i] \in Clients /\ rest[i] \notin gone \cup {client}
    <3>1. found /\ rest[i] = idle[i + k + 1] /\ i + k + 1 \in 1 .. Len(idle) BY <1>k, <1>0, <1>1
    <3>2. \A j \in 1 .. k + 1 : idle[j] # idle[i + k + 1] BY <1>k, <1>0, <3>1 DEF PoolInv, IdleQueueExact
    <3> QED BY <1>k, <1>0, <3>1, <3>2
  <2> QED BY <2>1, <2>2, <2>3
<1>3. TypeOK'
  <2>1. where' \in [Clients -> Places] BY <1>0 DEF PoolInv, TypeOK, Places
  <2>2. waitq' \in Seq(Acquirers) BY <1>0, AppendProperties DEF PoolInv, TypeOK
  <2>3. holds' \in [Acquirers -> Clients \cup {NoClient}] BY <1>0, <1>2 DEF PoolInv, TypeOK
  <2>4. pc' \in [Acquirers -> {"free", "replacing", "waiting", "holding"}] BY <1>0 DEF PoolInv, TypeOK
  <2>5. drops' \in [Acquirers -> Nat] BY <1>k, <1>0 DEF PoolInv, TypeOK
  <2> QED BY <1>0, <1>1, <2>1, <2>2, <2>3, <2>4, <2>5 DEF PoolInv, TypeOK, initVars
<1>4. NoIdleWhileWaiting'
  <2>1. CASE found BY <1>k, <1>0, <2>1 DEF PoolInv, NoIdleWhileWaiting
  <2>2. CASE ~found BY <1>0, <1>1, <2>2, EmptySeq DEF NoIdleWhileWaiting
  <2> QED BY <2>1, <2>2
<1>5. IdleQueueExact'
  <2>1. \A i \in 1 .. Len(rest) : where'[rest[i]] = "idle"
    <3>1. \A i \in 1 .. Len(rest) : where[rest[i]] = "idle" BY <1>k, <1>0, <1>1 DEF PoolInv, IdleQueueExact
    <3> QED BY <1>0, <1>2, <3>1
  <2>2. \A i, j \in 1 .. Len(rest) : rest[i] = rest[j] => i = j BY <1>k, <1>0, <1>1 DEF PoolInv, IdleQueueExact
  <2> QED BY <1>0, <2>1, <2>2 DEF IdleQueueExact
<1>6. ExclusiveUse'
  <2>1. \A b \in Acquirers : holds[b] # NoClient =>
          holds[b] \in Clients /\ where[holds[b]] = "out" BY DEF PoolInv, TypeOK, ExclusiveUse
  <2>2. client # NoClient => where'[client] = "out" BY <1>0, <1>2
  <2>3. \A b \in Acquirers \ {a} : holds'[b] = holds[b] BY <1>0 DEF PoolInv, TypeOK
  <2>4. \A b \in Acquirers \ {a} : holds[b] # NoClient =>
          where'[holds[b]] = "out" /\ holds[b] # client BY <1>0, <1>2, <2>1
  <2>5. holds'[a] = client BY <1>0 DEF PoolInv, TypeOK
  <2> HIDE DEF client
  <2> QED BY <2>2, <2>3, <2>4, <2>5 DEF PoolInv, ExclusiveUse
<1>7. ReconnectingExact'
  <2>1. \A c \in Clients : where'[c] # where[c] =>
          where[c] = "idle" /\ where'[c] \in {"none", "out"} BY <1>0, <1>2, PoolAssumption
  <2> QED BY <1>0, <2>1, CountUntouched DEF Reconnecting
<1> QED BY <1>3, <1>4, <1>5, <1>6, <1>7 DEF PoolInv

\* release()'s critical section: a checked client goes to the first waiter, or
\* into the idle queue when nobody waits.
LEMMA ReleaseReturnStep ==
  ASSUME PoolInv, NEW c \in Clients, ReleaseReturn(c)
  PROVE  PoolInv'
<1>1. where[c] = "checked" /\ where \in [Clients -> Places] /\ idle \in Seq(Clients)
      /\ waitq \in Seq(Acquirers) /\ Len(idle) \in Nat BY DEF PoolInv, TypeOK, ReleaseReturn
<1>2. ReconnectingExact'
  <2>1. \A d \in Clients : d \in Reconnecting <=> d \in Reconnecting' BY <1>1 DEF ReleaseReturn, Reconnecting
  <2> QED BY <2>1, CountUntouched DEF ReleaseReturn
<1>3. CASE waitq # << >>
  <2>1. /\ where' = [where EXCEPT ![c] = "out"]
        /\ waitq' = Tail(waitq)
        /\ pc' = [pc EXCEPT ![Head(waitq)] = "holding"]
        /\ holds' = [holds EXCEPT ![Head(waitq)] = c]
        /\ UNCHANGED <<idle, delay, healthy, drops, reconnecting, alive, breaks, initVars>> BY <1>3 DEF ReleaseReturn
  <2>2. Head(waitq) \in Acquirers /\ Tail(waitq) \in Seq(Acquirers) BY <1>1, <1>3, HeadTailProperties
  <2>3. TypeOK' BY <2>1, <2>2 DEF PoolInv, TypeOK, Places, initVars
  <2>4. NoIdleWhileWaiting' BY <1>3, <2>1 DEF PoolInv, NoIdleWhileWaiting
  <2>5. IdleQueueExact' BY <1>1, <2>1 DEF PoolInv, IdleQueueExact
  <2>6. ExclusiveUse'
    <3>1. \A b \in Acquirers : holds[b] # NoClient => holds[b] \in Clients /\ holds[b] # c
      BY <1>1 DEF PoolInv, TypeOK, ExclusiveUse
    <3>2. holds'[Head(waitq)] = c /\ \A b \in Acquirers \ {Head(waitq)} : holds'[b] = holds[b]
      BY <2>1, <2>2 DEF PoolInv, TypeOK
    <3>3. where'[c] = "out" /\ \A d \in Clients \ {c} : where'[d] = where[d] BY <1>1, <2>1
    <3> QED BY <3>1, <3>2, <3>3 DEF PoolInv, ExclusiveUse
  <2> QED BY <1>2, <2>3, <2>4, <2>5, <2>6 DEF PoolInv
<1>4. CASE waitq = << >>
  <2>1. /\ where' = [where EXCEPT ![c] = "idle"]
        /\ idle' = Append(idle, c)
        /\ UNCHANGED <<waitq, pc, holds, delay, healthy, drops, reconnecting, alive,
                       breaks, initVars>> BY <1>4 DEF ReleaseReturn
  <2>2. /\ idle' \in Seq(Clients) /\ Len(idle') = Len(idle) + 1
        /\ \A i \in 1 .. Len(idle) : idle'[i] = idle[i]
        /\ idle'[Len(idle) + 1] = c BY <1>1, <2>1, AppendProperties
  <2>3. TypeOK' BY <2>1, <2>2 DEF PoolInv, TypeOK, Places, initVars
  <2>4. NoIdleWhileWaiting' BY <1>4, <2>1 DEF NoIdleWhileWaiting
  <2>5. IdleQueueExact'
    <3>1. \A i \in 1 .. Len(idle) : idle[i] \in Clients \ {c} /\ where[idle[i]] = "idle"
      BY <1>1 DEF PoolInv, IdleQueueExact
    <3>2. \A i \in 1 .. Len(idle') : where'[idle'[i]] = "idle" BY <1>1, <2>1, <2>2, <3>1
    <3>3. \A i, j \in 1 .. Len(idle') : idle'[i] = idle'[j] => i = j BY <1>1, <2>2, <3>1 DEF PoolInv, IdleQueueExact
    <3> QED BY <3>2, <3>3 DEF IdleQueueExact
  <2>6. ExclusiveUse' BY <1>1, <2>1 DEF PoolInv, TypeOK, ExclusiveUse
  <2> QED BY <1>2, <2>3, <2>4, <2>5, <2>6 DEF PoolInv
<1> QED BY <1>3, <1>4

\* A replacement started by acquire() is counted, whatever the other threads do.
LEMMA AcquireReplaceStep ==
  ASSUME PoolInv, NEW a \in Acquirers, NEW c \in Clients, AcquireReplace(a, c)
  PROVE  PoolInv'
<1>1. TypeOK'
  <2>1. delay' \in [Clients -> Delays] BY PoolAssumption DEF AcquireReplace, StartReplacement, PoolInv, TypeOK, Delays
  <2>2. where' \in [Clients -> Places] BY DEF AcquireReplace, PoolInv, TypeOK, Places
  <2>3. drops' \in [Acquirers -> Nat] BY DEF AcquireReplace, PoolInv, TypeOK
  <2>4. pc' \in [Acquirers -> {"free", "replacing", "waiting", "holding"}] BY DEF AcquireReplace, PoolInv, TypeOK
  <2>5. reconnecting' \in Nat /\ UNCHANGED <<healthy, idle, waitq, holds, alive, breaks, initVars>>
    BY DEF AcquireReplace, StartReplacement, PoolInv, TypeOK
  <2> QED BY <2>1, <2>2, <2>3, <2>4, <2>5 DEF PoolInv, TypeOK, initVars
<1>2. NoIdleWhileWaiting' /\ IdleQueueExact' /\ ExclusiveUse' BY QueuesUntouched DEF AcquireReplace, PoolInv, TypeOK
<1>3. ReconnectingExact'
  <2>1. c \notin Reconnecting /\ Reconnecting' = Reconnecting \cup {c}
    BY DEF AcquireReplace, Reconnecting, PoolInv, TypeOK
  <2>2. Cardinality(Reconnecting') = Cardinality(Reconnecting) + 1 BY <2>1, ReconnectingFinite, FS_AddElement
  <2> QED BY <2>2 DEF PoolInv, ReconnectingExact, Reconnecting, AcquireReplace, StartReplacement
<1> QED BY <1>1, <1>2, <1>3 DEF PoolInv

LEMMA ReplaceStep ==
  ASSUME PoolInv, NEW c \in Clients, NEW fresh \in Clients, Replace(c, fresh)
  PROVE  PoolInv'
<1>1. TypeOK'
  <2>1. delay' \in [Clients -> Delays] BY DEF Replace, StartReplacement, PoolInv, TypeOK
  <2>2. where' \in [Clients -> Places] BY DEF Replace, PoolInv, TypeOK, Places
  <2>3. reconnecting' \in Nat /\ UNCHANGED <<healthy, idle, alive, breaks, userVars, initVars>>
    BY DEF Replace, StartReplacement, PoolInv, TypeOK
  <2> QED BY <2>1, <2>2, <2>3 DEF PoolInv, TypeOK, userVars, initVars
<1>2. NoIdleWhileWaiting' /\ IdleQueueExact' /\ ExclusiveUse'
  BY QueuesUntouched DEF Replace, PoolInv, TypeOK, userVars
<1>3. ReconnectingExact'
  <2>1. fresh \notin Reconnecting /\ Reconnecting' = Reconnecting \cup {fresh}
    BY DEF Replace, Reconnecting, PoolInv, TypeOK
  <2>2. Cardinality(Reconnecting') = Cardinality(Reconnecting) + 1 BY <2>1, ReconnectingFinite, FS_AddElement
  <2> QED BY <2>2 DEF PoolInv, ReconnectingExact, Reconnecting, Replace, StartReplacement
<1> QED BY <1>1, <1>2, <1>3 DEF PoolInv

\* The counter is decremented only for an attempt it counts: it cannot wrap.
LEMMA ReconnectedStep ==
  ASSUME PoolInv, NEW c \in Clients, NEW success \in BOOLEAN, Reconnected(c, success)
  PROVE  PoolInv'
<1>1. NoIdleWhileWaiting' /\ IdleQueueExact' /\ ExclusiveUse'
  BY QueuesUntouched DEF Reconnected, PoolInv, TypeOK, userVars
<1>2. CASE alive
  <2>1. c \in Reconnecting /\ Reconnecting' = Reconnecting \ {c}
    BY <1>2 DEF Reconnected, Reconnecting, PoolInv, TypeOK
  <2>2. Cardinality(Reconnecting') = Cardinality(Reconnecting) - 1 BY <2>1, ReconnectingFinite, FS_RemoveElement
  <2>3. Cardinality(Reconnecting) # 0 BY <2>1, ReconnectingFinite, FS_EmptySet
  <2>4. reconnecting = Cardinality(Reconnecting) BY <1>2 DEF PoolInv, ReconnectingExact, Reconnecting
  <2>5. reconnecting' \in Nat /\ reconnecting' = Cardinality(Reconnecting')
    BY <1>2, <2>2, <2>3, <2>4, ReconnectingFinite DEF Reconnected
  <2>6. TypeOK'
    <3>1. delay[c] \in Delays BY DEF PoolInv, TypeOK
    <3>2. NextDelay(delay[c]) \in Delays /\ 0 \in Delays BY <3>1, NextDelayBounds, PoolAssumption DEF Delays
    <3>3. delay' \in [Clients -> Delays] BY <1>2, <3>2 DEF Reconnected, PoolInv, TypeOK
    <3>4. where' \in [Clients -> Places] /\ healthy' \in [Clients -> BOOLEAN]
      BY <1>2 DEF Reconnected, PoolInv, TypeOK, Places
    <3> QED BY <2>5, <3>3, <3>4 DEF Reconnected, PoolInv, TypeOK, userVars, initVars
  <2>7. ReconnectingExact' BY <2>5 DEF ReconnectingExact, Reconnecting
  <2> QED BY <1>1, <2>6, <2>7 DEF PoolInv
<1>3. CASE ~alive
  <2>1. TypeOK' BY <1>3 DEF Reconnected, PoolInv, TypeOK, Places, userVars, initVars
  <2>2. ReconnectingExact' BY <1>3 DEF Reconnected, ReconnectingExact
  <2> QED BY <1>1, <2>1, <2>2 DEF PoolInv
<1> QED BY <1>2, <1>3 DEF PoolInv, TypeOK

\* Every step of the pool preserves the inductive invariant.
LEMMA NextInv == PoolInv /\ [Next]_vars => PoolInv'
<1> SUFFICES ASSUME PoolInv, [Next]_vars PROVE PoolInv' OBVIOUS
<1>1. CASE InitPool \/ OnReady
           \/ \E c \in Clients : InitConnect(c) \/ ReleaseCheck(c) \/ BackoffOver(c) \/ Break(c)
  <2>1. TypeOK'
    <3> USE DEF PoolInv, TypeOK, userVars
    <3>1. CASE InitPool BY <3>1, PoolAssumption DEF InitPool
    <3>2. CASE OnReady BY <3>2 DEF OnReady
    <3>3. CASE \E c \in Clients : InitConnect(c) BY <3>3 DEF InitConnect, Places
    <3>4. CASE \E c \in Clients : ReleaseCheck(c) BY <3>4, PoolAssumption DEF ReleaseCheck, Places, Delays,
       initVars
    <3>5. CASE \E c \in Clients : BackoffOver(c) BY <3>5 DEF BackoffOver, Places, initVars
    <3>6. CASE \E c \in Clients : Break(c) BY <3>6 DEF Break, initVars
    <3> QED BY <1>1, <3>1, <3>2, <3>3, <3>4, <3>5, <3>6
  <2>2. NoIdleWhileWaiting' /\ IdleQueueExact' /\ ExclusiveUse'
    <3> USE DEF userVars
    <3>1. CASE InitPool BY <3>1, QueuesUntouched DEF InitPool
    <3>2. CASE OnReady BY <3>2, QueuesUntouched DEF OnReady
    <3>3. CASE \E c \in Clients : InitConnect(c) BY <3>3, QueuesUntouched DEF InitConnect, PoolInv, TypeOK
    <3>4. CASE \E c \in Clients : ReleaseCheck(c) BY <3>4, QueuesUntouched DEF ReleaseCheck, PoolInv, TypeOK
    <3>5. CASE \E c \in Clients : BackoffOver(c) BY <3>5, QueuesUntouched DEF BackoffOver, PoolInv, TypeOK
    <3>6. CASE \E c \in Clients : Break(c) BY <3>6, QueuesUntouched DEF Break
    <3> QED BY <1>1, <3>1, <3>2, <3>3, <3>4, <3>5, <3>6
  <2>3. ReconnectingExact'
    <3> USE DEF PoolInv
    <3>1. CASE InitPool BY <3>1 DEF InitPool, ReconnectingExact
    <3>2. CASE OnReady BY <3>2 DEF OnReady, ReconnectingExact
    <3>3. CASE \E c \in Clients : InitConnect(c) BY <3>3, CountUntouched DEF InitConnect, Reconnecting,
       TypeOK
    <3>4. CASE \E c \in Clients : ReleaseCheck(c) BY <3>4, CountUntouched DEF ReleaseCheck, Reconnecting,
       TypeOK
    <3>5. CASE \E c \in Clients : BackoffOver(c) BY <3>5, CountUntouched DEF BackoffOver, Reconnecting,
       TypeOK
    <3>6. CASE \E c \in Clients : Break(c) BY <3>6 DEF Break, ReconnectingExact
    <3> QED BY <1>1, <3>1, <3>2, <3>3, <3>4, <3>5, <3>6
  <2> QED BY <2>1, <2>2, <2>3 DEF PoolInv
<1>3. CASE Destroy
  <2>1. TypeOK'
    <3>1. where' \in [Clients -> Places] BY <1>3 DEF Destroy, PoolInv, TypeOK, Places
    <3>2. idle' \in Seq(Clients) BY <1>3 DEF Destroy
    <3> QED BY <1>3, <3>1, <3>2 DEF Destroy, PoolInv, TypeOK, userVars, initVars
  <2>2. NoIdleWhileWaiting' /\ IdleQueueExact' /\ ReconnectingExact'
    BY <1>3 DEF Destroy, NoIdleWhileWaiting, IdleQueueExact, ReconnectingExact
  <2>3. ExclusiveUse' BY <1>3 DEF Destroy, PoolInv, TypeOK, ExclusiveUse, userVars
  <2> QED BY <2>1, <2>2, <2>3 DEF PoolInv
<1>4. ASSUME NEW a \in Acquirers, Acquire(a) PROVE PoolInv' BY <1>4, AcquireStep
<1>5. ASSUME NEW a \in Acquirers, Release(a) PROVE PoolInv'
  <2>1. TypeOK' BY <1>5 DEF Release, PoolInv, TypeOK, Places, initVars
  <2>2. NoIdleWhileWaiting' BY <1>5 DEF Release, PoolInv, NoIdleWhileWaiting
  <2>3. holds[a] # NoClient => holds[a] \in Clients /\ where[holds[a]] = "out" BY DEF PoolInv, TypeOK, ExclusiveUse
  <2>4. IdleQueueExact'
    <3>1. \A i \in 1 .. Len(idle) : idle[i] \in Clients /\ where[idle[i]] = "idle"
      BY DEF PoolInv, TypeOK, IdleQueueExact
    <3>2. \A i \in 1 .. Len(idle) : idle[i] # holds[a] BY <2>3, <3>1, PoolAssumption
    <3> QED BY <1>5, <3>1, <3>2 DEF Release, PoolInv, TypeOK, IdleQueueExact
  <2>5. ExclusiveUse' BY <1>5, <2>3 DEF Release, PoolInv, TypeOK, ExclusiveUse
  <2>6. ReconnectingExact'
    <3>1. \A c \in Clients : c \in Reconnecting <=> c \in Reconnecting'
      BY <1>5, <2>3, PoolAssumption DEF Release, Reconnecting, PoolInv, TypeOK
    <3> QED BY <1>5, <3>1, CountUntouched DEF Release
  <2> QED BY <2>1, <2>2, <2>4, <2>5, <2>6 DEF PoolInv
<1>6. ASSUME NEW a \in Acquirers, NEW c \in Clients, AcquireReplace(a, c) PROVE PoolInv' BY <1>6, AcquireReplaceStep
<1>9. ASSUME NEW c \in Clients, ReleaseReturn(c) PROVE PoolInv' BY <1>9, ReleaseReturnStep
<1>12. ASSUME NEW c \in Clients, NEW success \in BOOLEAN,
              InitConnected(c, success) \/ Reconnected(c, success)
       PROVE  PoolInv' BY <1>12, InitConnectedStep, ReconnectedStep
<1>13. ASSUME NEW c \in Clients, NEW fresh \in Clients, Replace(c, fresh) PROVE PoolInv' BY <1>13, ReplaceStep
<1>14. CASE UNCHANGED vars
  BY <1>14 DEF vars, PoolInv, TypeOK, NoIdleWhileWaiting, IdleQueueExact, ExclusiveUse, ReconnectingExact
<1> QED BY <1>1, <1>3, <1>4, <1>5, <1>6, <1>9, <1>12, <1>13, <1>14 DEF Next

----
\* Accounting: where the max_size_ connections are.

Live == {c \in Clients : where[c] # "none"}
Attempts == {c \in Clients : where[c] = "initConnecting"}

\* Before init() there is nothing to account for; after it, every iteration of
\* its loop is still to come, in its connector or counted.
InitAccounted ==
  IF connector
  THEN toStart + Cardinality(Attempts) + succeeded + failed = MaxSize
  ELSE /\ toStart = 0 /\ succeeded = 0 /\ failed = 0 /\ ready = "no"
       /\ Live = {} /\ Owed = {}

\* Conserved capacity is not inductive alone: what init()'s callbacks add to
\* the count has to be what they took from it, and on_ready is due only once.
AccountInv ==
  /\ IsFiniteSet(Owed)
  /\ InitAccounted
  /\ CapacityConserved
  /\ ReadyReportsInit

LEMMA ClientSets ==
  /\ IsFiniteSet(Live) /\ Cardinality(Live) \in Nat
  /\ IsFiniteSet(Attempts) /\ Cardinality(Attempts) \in Nat
BY PoolAssumption, FS_Subset, FS_CardinalityType DEF Live, Attempts

LEMMA OwedCount == IsFiniteSet(Owed) => Cardinality(Owed) \in Nat BY FS_CardinalityType

\* A list without repetitions has as many members as places.
LEMMA ListCount ==
  ASSUME NEW k \in Nat, NEW T, NEW f \in [1 .. k -> T],
         \A x \in T : \E i \in 1 .. k : f[i] = x,
         \A i, j \in 1 .. k : f[i] = f[j] => i = j
  PROVE  IsFiniteSet(T) /\ Cardinality(T) = k
<1>1. f \in Injection(1 .. k, T) BY DEF Injection, IsInjective
<1>2. f \in Surjection(1 .. k, T) BY DEF Surjection
<1>3. ExistsBijection(1 .. k, T) BY <1>1, <1>2, Zenon DEF ExistsBijection, Bijection
<1> QED BY <1>3, FS_NatBijection, FS_CountingElements

\* Connections change hands, and nothing is begun or given up.
LEMMA NothingBegun ==
  ASSUME PoolInv, AccountInv, UNCHANGED <<initVars, drops>>, alive' => alive,
         alive' => Live' = Live,
         ~connector => Live' = {},
         \A c \in Clients : where[c] = "initConnecting" <=> where'[c] = "initConnecting"
  PROVE  AccountInv'
<1>1. Owed' = Owed /\ Attempts' = Attempts BY DEF Owed, Attempts
<1>2. InitAccounted' BY <1>1 DEF AccountInv, InitAccounted, initVars
<1>3. CapacityConserved' BY <1>1 DEF AccountInv, CapacityConserved, Live, initVars
<1>4. ReadyReportsInit' BY DEF AccountInv, ReadyReportsInit, initVars
<1> QED BY <1>1, <1>2, <1>3, <1>4 DEF AccountInv

\* acquire() owes one replacement for each client it dropped.
LEMMA AcquireAccounted ==
  ASSUME PoolInv, AccountInv, NEW a \in Acquirers, Acquire(a)
  PROVE  AccountInv'
<1> DEFINE k == Dropped
           gone == {idle[i] : i \in 1 .. k}
           found == k < Len(idle)
           client == IF found THEN idle[k + 1] ELSE NoClient
           owes == {a} \X (1 .. k)
<1>k. k \in 0 .. Len(idle) /\ k \in Nat BY DroppedPrefix DEF PoolInv, TypeOK
<1> HIDE DEF k
<1>0. /\ idle \in Seq(Clients) /\ Len(idle) \in Nat
      /\ where \in [Clients -> Places]
      /\ drops \in [Acquirers -> Nat] /\ drops[a] = 0
      /\ where' = [c \in Clients |-> IF c \in gone THEN "none"
                                     ELSE IF c = client THEN "out" ELSE where[c]]
      /\ drops' = [drops EXCEPT ![a] = k]
      /\ UNCHANGED <<alive, initVars>> BY DEF Acquire, PoolInv, TypeOK, k
<1>1. /\ \A i \in 1 .. k : idle[i] \in Clients /\ where[idle[i]] = "idle"
      /\ \A i, j \in 1 .. k : idle[i] = idle[j] => i = j
      /\ found => client \in Clients /\ where[client] = "idle" /\ client \notin gone
  BY <1>k, <1>0 DEF PoolInv, IdleQueueExact
<1>2. IsFiniteSet(gone) /\ Cardinality(gone) = k
  <2> DEFINE f == [i \in 1 .. k |-> idle[i]]
  <2>1. f \in [1 .. k -> gone] /\ \A i \in 1 .. k : f[i] = idle[i] OBVIOUS
  <2>2. \A x \in gone : \E i \in 1 .. k : f[i] = x BY <2>1
  <2>3. \A i, j \in 1 .. k : f[i] = f[j] => i = j BY <1>1, <2>1
  <2> HIDE DEF f, gone
  <2> QED BY <1>k, <2>1, <2>2, <2>3, ListCount
<1>3. gone \subseteq Live /\ Live' = Live \ gone BY <1>0, <1>1, PoolAssumption DEF Live
<1>4. Cardinality(Live') = Cardinality(Live) - k
  <2>1. Live \cap gone = gone BY <1>3
  <2> HIDE DEF gone
  <2>2. Cardinality(Live \ gone) = Cardinality(Live) - Cardinality(Live \cap gone) BY ClientSets, FS_Difference
  <2> QED BY <1>2, <1>3, <2>1, <2>2
<1>5. Owed' = Owed \cup owes /\ Owed \cap owes = {}
  <2>1. \A b \in Acquirers : drops'[b] = IF b = a THEN k ELSE drops[b] BY <1>0
  <2>2. Owed' = UNION {{b} \X (1 .. drops'[b]) : b \in Acquirers} BY DEF Owed
  <2>3. \A p : p \in Owed' <=> p \in Owed \cup owes BY <1>0, <2>1, <2>2 DEF Owed
  <2>4. Owed \cap owes = {} BY <1>0 DEF Owed
  <2> QED BY <2>3, <2>4
<1>6. IsFiniteSet(owes) /\ Cardinality(owes) = k
  <2> DEFINE f == [i \in 1 .. k |-> <<a, i>>]
  <2>1. f \in [1 .. k -> owes] /\ \A i \in 1 .. k : f[i] = <<a, i>> OBVIOUS
  <2>2. \A x \in owes : \E i \in 1 .. k : f[i] = x BY <2>1
  <2>3. \A i, j \in 1 .. k : f[i] = f[j] => i = j BY <2>1
  <2> HIDE DEF f, owes
  <2> QED BY <1>k, <2>1, <2>2, <2>3, ListCount
<1>7. IsFiniteSet(Owed') /\ Cardinality(Owed') = Cardinality(Owed) + k
  <2> HIDE DEF owes
  <2>1. IsFiniteSet(Owed) BY DEF AccountInv
  <2>2. /\ IsFiniteSet(Owed \cup owes)
        /\ Cardinality(Owed \cup owes)
             = Cardinality(Owed) + Cardinality(owes) - Cardinality(Owed \cap owes) BY <1>6, <2>1, FS_Union
  <2>3. Cardinality(Owed \cap owes) = 0 /\ Cardinality(Owed) \in Nat BY <1>5, <2>1, FS_EmptySet, OwedCount
  <2>4. Owed' = Owed \cup owes BY <1>5
  <2> HIDE DEF Owed
  <2> QED BY <1>k, <1>6, <2>2, <2>3, <2>4
<1>8. Attempts' = Attempts BY <1>0, <1>1, PoolAssumption DEF Attempts
<1>9. CapacityConserved' BY <1>k, <1>0, <1>4, <1>7, ClientSets, OwedCount
     DEF AccountInv, CapacityConserved, Live, initVars, PoolInv, TypeOK
<1>10. InitAccounted'
  <2>1. CASE connector BY <1>0, <1>8, <2>1 DEF AccountInv, InitAccounted, initVars
  <2>2. CASE ~connector
    <3>1. Live = {} /\ Owed = {} BY <2>2 DEF AccountInv, InitAccounted
    <3>2. k = 0
      <4>1. 1 \notin 1 .. k BY <1>1, <3>1 DEF Live
      <4> QED BY <1>k, <4>1
    <3>3. Live' = {} /\ Owed' = {} BY <1>3, <1>5, <3>1, <3>2
    <3> QED BY <1>0, <2>2, <3>3 DEF AccountInv, InitAccounted, initVars
  <2> QED BY <2>1, <2>2
<1>11. ReadyReportsInit' BY <1>0, <1>8 DEF AccountInv, ReadyReportsInit, Attempts, initVars
<1> QED BY <1>7, <1>9, <1>10, <1>11 DEF AccountInv

\* A replacement that is begun is no longer owed.
LEMMA AcquireReplaceAccounted ==
  ASSUME PoolInv, AccountInv, NEW a \in Acquirers, NEW c \in Clients, AcquireReplace(a, c)
  PROVE  AccountInv'
<1> DEFINE d == <<a, drops[a]>>
<1>0. /\ where \in [Clients -> Places] /\ where[c] = "none"
      /\ where' = [where EXCEPT ![c] = "connecting"]
      /\ drops \in [Acquirers -> Nat] /\ drops[a] \in Nat /\ drops[a] > 0
      /\ drops' = [drops EXCEPT ![a] = drops[a] - 1]
      /\ UNCHANGED <<alive, initVars>> BY DEF AcquireReplace, PoolInv, TypeOK
<1>1. d \in Owed BY <1>0 DEF Owed
<1>2. Owed' = Owed \ {d}
  <2>1. \A b \in Acquirers : drops'[b] = IF b = a THEN drops[a] - 1 ELSE drops[b] BY <1>0
  <2>2. \A p : p \in Owed' <=> p \in UNION {{b} \X (1 .. drops'[b]) : b \in Acquirers} BY DEF Owed
  <2>3. \A p : p \in Owed' <=> p \in Owed \ {d} BY <1>0, <2>1, <2>2 DEF Owed
  <2> QED BY <2>3
<1>3. IsFiniteSet(Owed') /\ Cardinality(Owed') = Cardinality(Owed) - 1 BY <1>1, <1>2, FS_RemoveElement DEF AccountInv
<1>4. c \notin Live /\ Live' = Live \cup {c} BY <1>0 DEF Live
<1>5. Cardinality(Live') = Cardinality(Live) + 1 BY <1>4, ClientSets, FS_AddElement
<1>6. Attempts' = Attempts BY <1>0 DEF Attempts
<1>7. connector BY <1>1 DEF AccountInv, InitAccounted
<1>8. CapacityConserved'
  BY <1>0, <1>3, <1>5, ClientSets, OwedCount DEF AccountInv, CapacityConserved, Live, initVars, PoolInv, TypeOK
<1>9. InitAccounted' BY <1>0, <1>6, <1>7 DEF AccountInv, InitAccounted, initVars
<1>10. ReadyReportsInit' BY <1>0, <1>6 DEF AccountInv, ReadyReportsInit, Attempts, initVars
<1> QED BY <1>3, <1>8, <1>9, <1>10 DEF AccountInv

\* An attempt of init() ends as a connection, as a replacement, or, without a
\* health check, as a failure for good. The last one makes on_ready due.
LEMMA InitConnectedAccounted ==
  ASSUME PoolInv, AccountInv, NEW c \in Clients, NEW success \in BOOLEAN,
         InitConnected(c, success)
  PROVE  AccountInv'
<1>0. /\ where \in [Clients -> Places] /\ where[c] = "initConnecting"
      /\ where' = [where EXCEPT ![c] = AfterInitConnect(success)]
      /\ toStart \in Nat /\ succeeded \in Nat /\ failed \in Nat
      /\ succeeded' = succeeded + (IF success THEN 1 ELSE 0)
      /\ failed' = failed + (IF success THEN 0 ELSE 1)
      /\ UNCHANGED <<alive, drops, connector, toStart>> BY DEF InitConnected, PoolInv, TypeOK, userVars
<1>1. AfterInitConnect(success) # "initConnecting"
      /\ (AfterInitConnect(success) = "none" <=> ~success /\ ~HealthCheck) BY DEF AfterInitConnect
<1>2. Owed' = Owed BY <1>0 DEF Owed
<1>3. c \in Attempts /\ c \in Live /\ Attempts' = Attempts \ {c} BY <1>0, <1>1 DEF Attempts, Live
<1>4. Cardinality(Attempts') = Cardinality(Attempts) - 1 BY <1>3, ClientSets, FS_RemoveElement
<1>5. Cardinality(Attempts) # 0 /\ Cardinality(Attempts') \in Nat BY <1>3, <1>4, ClientSets, FS_EmptySet
<1>6. connector BY <1>3 DEF AccountInv, InitAccounted
<1>7. succeeded' \in Nat /\ failed' \in Nat /\ succeeded' + failed' = succeeded + failed + 1 BY <1>0
<1>8. toStart + Cardinality(Attempts) + succeeded + failed = MaxSize BY <1>6 DEF AccountInv, InitAccounted
<1>9. InitAccounted' BY <1>0, <1>4, <1>6, <1>7, <1>8, ClientSets DEF InitAccounted
<1>10. ready = "no" BY <1>0, <1>5, <1>8, ClientSets DEF AccountInv, ReadyReportsInit, Attempts
<1>11. CapacityConserved'
  <2>1. CASE ~success /\ ~HealthCheck
    <3>1. Live' = Live \ {c} /\ failed' = failed + 1 BY <1>0, <1>1, <2>1 DEF Live
    <3>2. Cardinality(Live') = Cardinality(Live) - 1 BY <1>3, <3>1, ClientSets, FS_RemoveElement
    <3>3. connector /\ alive =>
            toStart + Cardinality(Live) + Cardinality(Owed) + failed = MaxSize
      BY <2>1 DEF AccountInv, CapacityConserved, Live
    <3>4. (connector /\ alive)' =>
            toStart' + Cardinality(Live') + Cardinality(Owed') + failed' = MaxSize
      BY <1>0, <1>2, <3>1, <3>2, <3>3, ClientSets, OwedCount DEF AccountInv
    <3> QED BY <2>1, <3>4 DEF CapacityConserved, Live
  <2>2. CASE success \/ HealthCheck
    <3>1. Live' = Live BY <1>0, <1>1, <2>2 DEF Live
    <3>2. (IF HealthCheck THEN 0 ELSE failed') = (IF HealthCheck THEN 0 ELSE failed) BY <1>0, <2>2
    <3> QED BY <1>0, <1>2, <3>1, <3>2 DEF AccountInv, CapacityConserved, Live
  <2> QED BY <2>1, <2>2, PoolAssumption
<1>12. ReadyReportsInit'
  <2>1. CASE AllDone(succeeded', failed')
    <3>1. succeeded' + failed' = MaxSize BY <2>1 DEF AllDone
    <3>2. toStart' = 0 /\ Cardinality(Attempts') = 0 BY <1>0, <1>4, <1>5, <1>7, <1>8, <3>1, ClientSets
    <3>3. Attempts' = {} BY <1>3, <3>2, ClientSets, FS_RemoveElement, FS_EmptySet
    <3>4. ready' = IF failed' = 0 THEN "due_ok" ELSE "due_fail" BY <2>1 DEF InitConnected
    <3> QED BY <3>1, <3>2, <3>3, <3>4 DEF ReadyReportsInit, Attempts
  <2>2. CASE ~AllDone(succeeded', failed') BY <1>10, <2>2 DEF InitConnected, ReadyReportsInit
  <2> QED BY <2>1, <2>2
<1> QED BY <1>2, <1>9, <1>11, <1>12 DEF AccountInv

\* A dropped client's place goes to the fresh one.
LEMMA ReplaceAccounted ==
  ASSUME PoolInv, AccountInv, NEW c \in Clients, NEW fresh \in Clients, Replace(c, fresh)
  PROVE  AccountInv'
<1>0. /\ where \in [Clients -> Places] /\ where[c] = "replacing"
      /\ where[fresh] = "none" \/ fresh = c
      /\ where' = [where EXCEPT ![c] = "none",
                                ![fresh] = IF delay[c] = 0 THEN "connecting" ELSE "backoff"]
      /\ UNCHANGED <<alive, drops, initVars>> BY DEF Replace, PoolInv, TypeOK, userVars
<1>1. CASE fresh = c
  <2>1. \A x \in Clients : where[x] = "initConnecting" <=> where'[x] = "initConnecting" BY <1>0, <1>1
  <2>2. Live' = Live /\ c \in Live BY <1>0, <1>1 DEF Live
  <2> QED BY <1>0, <2>1, <2>2, NothingBegun DEF AccountInv, InitAccounted
<1>2. CASE fresh # c
  <2>1. where[fresh] = "none" BY <1>0, <1>2
  <2>2. c \in Live /\ fresh \notin Live /\ Live' = (Live \ {c}) \cup {fresh} BY <1>0, <1>2, <2>1 DEF Live
  <2>3. Cardinality(Live') = Cardinality(Live)
    <3>1. IsFiniteSet(Live \ {c}) /\ Cardinality(Live \ {c}) = Cardinality(Live) - 1
      BY <2>2, ClientSets, FS_RemoveElement
    <3>2. Cardinality((Live \ {c}) \cup {fresh}) = Cardinality(Live \ {c}) + 1 BY <2>2, <3>1, FS_AddElement
    <3> QED BY <2>2, <3>1, <3>2, ClientSets
  <2>4. Owed' = Owed /\ Attempts' = Attempts BY <1>0, <1>2, <2>1 DEF Owed, Attempts
  <2>5. connector BY <2>2 DEF AccountInv, InitAccounted
  <2>6. InitAccounted' BY <1>0, <2>4, <2>5 DEF AccountInv, InitAccounted, initVars
  <2>7. CapacityConserved' BY <1>0, <2>3, <2>4 DEF AccountInv, CapacityConserved, Live, initVars
  <2>8. ReadyReportsInit' BY <1>0, <2>4 DEF AccountInv, ReadyReportsInit, Attempts, initVars
  <2> QED BY <2>4, <2>6, <2>7, <2>8 DEF AccountInv
<1> QED BY <1>1, <1>2

\* Every step keeps the accounts.
LEMMA AccountStep == PoolInv /\ AccountInv /\ [Next]_vars => AccountInv'
<1> SUFFICES ASSUME PoolInv, AccountInv, [Next]_vars PROVE AccountInv' OBVIOUS
<1>0. where \in [Clients -> Places] /\ toStart \in Nat /\ succeeded \in Nat /\ failed \in Nat BY DEF PoolInv, TypeOK
<1>1. CASE InitPool
  <2>1. Live' = Live /\ Owed' = Owed /\ Attempts' = Attempts /\ Live = {} /\ Owed = {}
    BY <1>1 DEF InitPool, userVars, Live, Owed, Attempts, AccountInv, InitAccounted
  <2>2. Attempts = {} /\ \A c \in Clients : where[c] = "none" BY <2>1 DEF Live, Attempts
  <2>3. toStart' = MaxSize /\ succeeded' = 0 /\ failed' = 0 /\ connector' /\ where' = where
    BY <1>1 DEF InitPool, AccountInv, InitAccounted
  <2>4. InitAccounted' BY <2>1, <2>2, <2>3, FS_EmptySet, PoolAssumption DEF InitAccounted
  <2>5. CapacityConserved' BY <2>1, <2>3, FS_EmptySet, PoolAssumption DEF CapacityConserved, Live
  <2>6. ReadyReportsInit' BY <1>1, <2>2, <2>3 DEF InitPool, ReadyReportsInit
  <2> QED BY <2>1, <2>4, <2>5, <2>6, FS_EmptySet DEF AccountInv
<1>2. CASE OnReady
  <2>1. Live' = Live /\ Owed' = Owed /\ Attempts' = Attempts BY <1>2 DEF OnReady, userVars, Live, Owed, Attempts
  <2> QED BY <1>2, <2>1 DEF OnReady, AccountInv, InitAccounted, CapacityConserved, ReadyReportsInit, Live
<1>3. CASE Destroy BY <1>0, <1>3, NothingBegun DEF Destroy, userVars, Live, AccountInv, InitAccounted
<1>4. ASSUME NEW a \in Acquirers, Acquire(a) PROVE AccountInv' BY <1>4, AcquireAccounted
<1>5. ASSUME NEW a \in Acquirers, Release(a) PROVE AccountInv'
  <2>1. /\ where' = [where EXCEPT ![holds[a]] = "releasing"]
        /\ UNCHANGED <<drops, alive, initVars>> BY <1>5 DEF Release
  <2>2. holds[a] # NoClient => holds[a] \in Clients /\ where[holds[a]] = "out" BY DEF PoolInv, TypeOK, ExclusiveUse
  <2>3. \A x \in Clients : /\ where[x] = "none" <=> where'[x] = "none"
                           /\ where[x] = "initConnecting" <=> where'[x] = "initConnecting"
    BY <1>0, <2>1, <2>2, PoolAssumption
  <2>4. Live' = Live BY <2>3 DEF Live
  <2> QED BY <2>1, <2>3, <2>4, NothingBegun DEF AccountInv, InitAccounted
<1>6. ASSUME NEW a \in Acquirers, NEW c \in Clients, AcquireReplace(a, c) PROVE AccountInv'
  BY <1>6, AcquireReplaceAccounted
<1>7. ASSUME NEW c \in Clients, InitConnect(c) PROVE AccountInv'
  <2>0. /\ where' = [where EXCEPT ![c] = "initConnecting"] /\ where[c] = "none"
        /\ toStart > 0 /\ toStart' = toStart - 1
        /\ UNCHANGED <<drops, alive, connector, succeeded, failed, ready>> BY <1>7 DEF InitConnect, userVars
  <2>1. c \notin Live /\ c \notin Attempts /\ Owed' = Owed
        /\ Live' = Live \cup {c} /\ Attempts' = Attempts \cup {c} BY <1>0, <2>0 DEF Live, Attempts, Owed
  <2>2. /\ Cardinality(Live') = Cardinality(Live) + 1
        /\ Cardinality(Attempts') = Cardinality(Attempts) + 1 BY <2>1, ClientSets, FS_AddElement
  <2>3. connector /\ ready = "no" BY <1>0, <2>0 DEF AccountInv, InitAccounted, ReadyReportsInit
  <2>4. InitAccounted' BY <1>0, <2>0, <2>2, <2>3, ClientSets DEF AccountInv, InitAccounted
  <2>5. CapacityConserved' BY <1>0, <2>0, <2>1, <2>2, ClientSets, OwedCount DEF AccountInv, CapacityConserved, Live
  <2>6. ReadyReportsInit' BY <2>0, <2>3 DEF ReadyReportsInit
  <2> QED BY <2>1, <2>4, <2>5, <2>6 DEF AccountInv
<1>8. ASSUME NEW c \in Clients, ReleaseCheck(c) \/ ReleaseReturn(c) \/ BackoffOver(c) \/ Break(c)
      PROVE  AccountInv'
  <2>1. UNCHANGED <<drops, alive, initVars>> BY <1>8 DEF ReleaseCheck, ReleaseReturn, BackoffOver, Break, userVars
  <2>2. \A x \in Clients : where[x] = "initConnecting" <=> where'[x] = "initConnecting"
    BY <1>0, <1>8 DEF ReleaseCheck, ReleaseReturn, BackoffOver, Break
  <2>3. alive \/ ~BackoffOver(c) => Live' = Live
    BY <1>0, <1>8 DEF ReleaseCheck, ReleaseReturn, BackoffOver, Break, Live
  <2>4. Live' \subseteq Live BY <1>0, <1>8 DEF ReleaseCheck, ReleaseReturn, BackoffOver, Break, Live
  <2> QED BY <2>1, <2>2, <2>3, <2>4, NothingBegun DEF AccountInv, InitAccounted
<1>9. ASSUME NEW c \in Clients, NEW success \in BOOLEAN, InitConnected(c, success)
      PROVE  AccountInv' BY <1>9, InitConnectedAccounted
<1>10. ASSUME NEW c \in Clients, NEW success \in BOOLEAN, Reconnected(c, success)
       PROVE  AccountInv'
  <2>1. UNCHANGED <<drops, alive, initVars>> BY <1>10 DEF Reconnected, userVars
  <2>2. \A x \in Clients : where[x] = "initConnecting" <=> where'[x] = "initConnecting" BY <1>0, <1>10 DEF Reconnected
  <2>3. (alive => Live' = Live) /\ Live' \subseteq Live BY <1>0, <1>10 DEF Reconnected, Live
  <2> QED BY <2>1, <2>2, <2>3, NothingBegun DEF AccountInv, InitAccounted
<1>11. ASSUME NEW c \in Clients, NEW fresh \in Clients, Replace(c, fresh) PROVE AccountInv' BY <1>11, ReplaceAccounted
<1>12. CASE UNCHANGED vars BY <1>12, NothingBegun DEF vars, initVars, Live, AccountInv, InitAccounted
<1> QED BY <1>1, <1>2, <1>3, <1>4, <1>5, <1>6, <1>7, <1>8, <1>9, <1>10, <1>11, <1>12 DEF Next

----
\* The inductive invariant holds in every reachable state.
THEOREM PoolInvariant == Spec => []PoolInv BY InitInv, NextInv, PTL DEF Spec

\* No client is idle while an acquirer waits, however acquire() and release()
\* calls of any number of threads interleave.
THEOREM NobodyWaitsBesideIdle == Spec => []NoIdleWhileWaiting
<1>1. PoolInv => NoIdleWhileWaiting BY DEF PoolInv
<1> QED BY <1>1, PoolInvariant, PTL

\* A client is never in the hands of two acquirers.
THEOREM ClientsExclusive == Spec => []ExclusiveUse
<1>1. PoolInv => ExclusiveUse BY DEF PoolInv
<1> QED BY <1>1, PoolInvariant, PTL

\* reconnecting_count() is the number of replacements under way.
THEOREM ReconnectingCountExact == Spec => []ReconnectingExact
<1>1. PoolInv => ReconnectingExact BY DEF PoolInv
<1> QED BY <1>1, PoolInvariant, PTL

\* Type correctness, reconnecting_ never going below zero included; and no place
\* of the pool is lost or used twice, whatever breaks, is dropped and
\* is replaced meanwhile, and on_ready reports once, when every first attempt is
\* over, whether all of them succeeded (ConnectionPool::init, replace).
THEOREM CapacityKept == Spec => []PoolAccounted
<1>1. Init => AccountInv
  <2> SUFFICES ASSUME Init PROVE AccountInv OBVIOUS
  <2>1. Live = {} /\ Owed = {} BY DEF Init, Live, Owed
  <2> QED BY <2>1, FS_EmptySet DEF Init, AccountInv, InitAccounted, CapacityConserved, ReadyReportsInit
<1>2. PoolInv /\ AccountInv => PoolAccounted BY DEF PoolInv, AccountInv, PoolAccounted
<1> QED BY <1>1, <1>2, AccountStep, PoolInvariant, PTL DEF Spec

\* A new acquire() never takes a client past those already waiting, and
\* release() serves the one that has waited longest.
THEOREM WaitersFirst == Spec => NoBarging
<1>1. PoolInv /\ [Next]_vars =>
        [waitq # << >> =>
           \A a \in Acquirers : pc[a] # "holding" /\ pc'[a] = "holding" =>
             a = Head(waitq) \/ pc[a] = "replacing"]_vars
  <2> SUFFICES ASSUME PoolInv, Next, waitq # << >>, NEW a \in Acquirers,
                      pc[a] # "holding", pc'[a] = "holding"
               PROVE  a = Head(waitq) \/ pc[a] = "replacing" BY DEF vars
  <2>1. idle = << >> /\ pc \in [Acquirers -> {"free", "replacing", "waiting", "holding"}]
    BY DEF PoolInv, TypeOK, NoIdleWhileWaiting
  <2>2. ASSUME NEW b \in Acquirers, Acquire(b) PROVE FALSE
    <3>1. Dropped \in 0 .. Len(idle) /\ Len(idle) = 0 BY <2>1, DroppedPrefix DEF PoolInv
    <3>2. pc' = [pc EXCEPT ![b] = "waiting"] BY <2>2, <3>1 DEF Acquire
    <3> QED BY <2>1, <3>2
  <2>3. ASSUME NEW b \in Acquirers, Release(b) PROVE FALSE BY <2>1, <2>3 DEF Release
  <2>4. ASSUME NEW b \in Acquirers, NEW c \in Clients, AcquireReplace(b, c)
        PROVE  pc[a] = "replacing" BY <2>1, <2>4 DEF AcquireReplace
  <2>5. ASSUME NEW c \in Clients, ReleaseReturn(c) PROVE a = Head(waitq) BY <2>1, <2>5 DEF ReleaseReturn
  <2>6. CASE UNCHANGED pc BY <2>6
  <2> QED BY <2>2, <2>3, <2>4, <2>5, <2>6
          DEF Next, InitPool, OnReady, Destroy, InitConnect, InitConnected, ReleaseCheck,
              BackoffOver, Break, Reconnected, Replace, userVars
<1> QED BY <1>1, PoolInvariant, PTL DEF Spec, NoBarging

----
\* The Redis client: what the connection in use still owes is the answer to
\* the command whose caller holds the mutex, and nothing when that caller is
\* not reading.

RdKinds == {"none", "text", "nil", "error", "array"}
RdReplies == [call : Nat, is : RdKinds]

RdTyped ==
  /\ rdPc \in [RdThreads -> {"idle", "connect", "send", "read"}]
  /\ rdGot \in [RdThreads -> RdReplies] /\ rdCall \in [RdThreads -> Nat]
  /\ rdServer \in [RdConns -> Seq(Nat)] /\ rdStream \in [RdConns -> Seq(RdReplies)]
  /\ rdFd \in Nat /\ rdLastFd \in Nat /\ rdCalls \in Nat
  /\ rdFd <= rdLastFd /\ rdLastFd <= rdCalls /\ rdCalls <= RdMaxCalls

RdQuiet(c) == rdServer[c] = << >> /\ rdStream[c] = << >>

\* The reply the connection owes: still with Redis, or on its way.
RdOwes(c, call) ==
  \/ rdServer[c] = <<call>> /\ rdStream[c] = << >>
  \/ rdServer[c] = << >> /\ \E is \in RdKinds : rdStream[c] = <<[call |-> call, is |-> is]>>

RdThread(t) ==
  /\ rdGot[t].call \in {0, rdCall[t]}
  /\ rdPc[t] # "idle" <=> rdMutex = t
  /\ rdPc[t] = "connect" => rdLastFd < rdCalls
  /\ rdPc[t] \in {"send", "read"} => rdFd # 0
  /\ rdPc[t] = "read" => RdOwes(rdFd, rdCall[t])

RdInv ==
  /\ RdTyped
  /\ \A t \in RdThreads : RdThread(t)
  /\ \A c \in RdConns : c > rdLastFd => RdQuiet(c)
  /\ rdFd # 0 /\ (\A t \in RdThreads : rdPc[t] # "read") => RdQuiet(rdFd)

LEMMA RdStarted == RdInit => RdInv
BY RdAssumption DEF RdInit, RdInv, RdTyped, RdThread, RdQuiet, RdReplies, RdKinds, RdNothing, RdConns

LEMMA RdHolds == RdInv => RepliesMatch BY DEF RdInv, RdThread, RepliesMatch

\* Only the thread that has the mutex is in a call.
LEMMA RdAlone ==
  ASSUME RdInv, NEW t \in RdThreads, rdPc[t] # "idle"
  PROVE  /\ rdMutex = t
         /\ \A u \in RdThreads \ {t} : rdPc[u] = "idle" BY DEF RdInv, RdThread

\* The connection in use is one of those there can be.
LEMMA RdInUse ==
  ASSUME RdTyped, rdFd # 0
  PROVE  rdFd \in RdConns BY RdAssumption DEF RdTyped, RdConns

\* A call that ends.
LEMMA RdReturns ==
  ASSUME RdTyped, NEW t \in RdThreads, NEW got \in RdReplies, RdReturn(t, got)
  PROVE  /\ rdPc' \in [RdThreads -> {"idle", "connect", "send", "read"}]
         /\ rdGot' \in [RdThreads -> RdReplies] BY DEF RdTyped, RdReturn, RdGoto

LEMMA RdStep == RdInv /\ [RdNext]_rdVars => RdInv'
<1> SUFFICES ASSUME RdInv, [RdNext]_rdVars PROVE RdInv' OBVIOUS
<1> USE RdAssumption
<1>0. RdTyped /\ RdNothing \in RdReplies /\ RdNothing.call = 0 BY DEF RdInv, RdNothing, RdReplies, RdKinds
<1>1. CASE UNCHANGED rdVars BY <1>1 DEF rdVars, RdInv, RdTyped, RdThread, RdQuiet, RdOwes
<1>2. ASSUME NEW t \in RdThreads, RdEnter(t) PROVE RdInv'
  <2>1. \A u \in RdThreads : rdPc[u] = "idle" BY <1>2 DEF RdEnter, RdInv, RdThread, RdTyped
  <2>2. RdTyped' BY <1>0, <1>2 DEF RdEnter, RdGoto, RdTyped
  <2>3. \A u \in RdThreads : RdThread(u)' BY <1>0, <1>2, <2>1 DEF RdEnter, RdGoto, RdTyped, RdThread, RdInv
  <2> QED BY <1>0, <1>2, <2>1, <2>2, <2>3 DEF RdEnter, RdGoto, RdTyped, RdInv, RdQuiet
<1>3. ASSUME NEW t \in RdThreads, RdConnect(t) PROVE RdInv'
  <2>0. rdPc[t] = "connect" BY <1>3 DEF RdConnect
  <2>1. rdMutex = t /\ rdLastFd < rdCalls /\ \A u \in RdThreads \ {t} : rdPc[u] = "idle"
    BY <2>0, RdAlone DEF RdInv, RdThread
  <2>2. RdTyped'
    <3>1. UNCHANGED <<rdServer, rdStream, rdCall, rdCalls>> BY <1>3 DEF RdConnect
    <3>2. CASE rdFd # 0 /\ RdGoto(t, "send") /\ UNCHANGED <<rdMutex, rdFd, rdLastFd, rdGot>>
      BY <1>0, <3>1, <3>2 DEF RdGoto, RdTyped
    <3>3. CASE rdFd = 0 /\ rdFd' = rdLastFd + 1 /\ rdLastFd' = rdLastFd + 1 /\ RdGoto(t, "send") /\ UNCHANGED <<rdMutex, rdGot>>
      BY <1>0, <2>1, <3>1, <3>3 DEF RdGoto, RdTyped
    <3>4. CASE rdFd = 0 /\ RdReturn(t, RdNothing) /\ UNCHANGED <<rdFd, rdLastFd>>
      BY <1>0, <3>1, <3>4, RdReturns DEF RdTyped
    <3> QED BY <1>3, <3>2, <3>3, <3>4 DEF RdConnect
  <2>3. \A u \in RdThreads : RdThread(u)'
    BY <1>0, <1>3, <2>1 DEF RdConnect, RdReturn, RdGoto, RdTyped, RdThread, RdInv
  <2>4. rdFd # 0 => RdQuiet(rdFd) BY <2>0, <2>1 DEF RdInv
  <2>5. rdLastFd + 1 \in RdConns /\ RdQuiet(rdLastFd + 1) BY <1>0, <2>1 DEF RdInv, RdTyped, RdConns
  <2>a. \A c \in RdConns : RdQuiet(c) => RdQuiet(c)' BY <1>3 DEF RdConnect, RdQuiet
  <2>b. \/ UNCHANGED <<rdFd, rdLastFd>>
        \/ rdFd' = rdLastFd + 1 /\ rdLastFd' = rdLastFd + 1 BY <1>3 DEF RdConnect
  <2>c. \A c \in RdConns : c \in Nat BY DEF RdConns
  <2>6. /\ \A c \in RdConns : (c > rdLastFd => RdQuiet(c))'
        /\ (rdFd # 0 => RdQuiet(rdFd))'
    <3>1. CASE UNCHANGED <<rdFd, rdLastFd>> BY <1>0, <2>4, <2>a, <3>1, RdInUse DEF RdInv
    <3>2. CASE rdFd' = rdLastFd + 1 /\ rdLastFd' = rdLastFd + 1
      <4>1. RdQuiet(rdFd)' BY <1>3, <2>5, <3>2 DEF RdConnect, RdQuiet
      <4>2. ASSUME NEW c \in RdConns, c > rdLastFd' PROVE RdQuiet(c)'
        BY <1>0, <2>a, <2>c, <3>2, <4>2 DEF RdInv, RdTyped
      <4> QED BY <4>1, <4>2
    <3> QED BY <2>b, <3>1, <3>2
  <2> QED BY <2>2, <2>3, <2>6 DEF RdInv
<1>4. ASSUME NEW t \in RdThreads, RdSend(t) PROVE RdInv'
  <2>0. rdPc[t] = "send" BY <1>4 DEF RdSend
  <2>1. rdMutex = t /\ rdFd # 0 /\ \A u \in RdThreads \ {t} : rdPc[u] = "idle" BY <2>0, RdAlone DEF RdInv, RdThread
  <2>a. \A u \in RdThreads : rdPc[u] # "read" BY <2>0, <2>1
  <2>2. RdQuiet(rdFd) /\ rdFd \in RdConns BY <1>0, <2>1, <2>a, RdInUse DEF RdInv
  <2>b. UNCHANGED <<rdLastFd, rdStream, rdCall, rdCalls>> BY <1>4 DEF RdSend
  <2>3. RdTyped'
    <3>1. CASE rdServer' = [rdServer EXCEPT ![rdFd] = Append(@, rdCall[t])] /\ RdGoto(t, "read") /\ UNCHANGED <<rdMutex, rdFd, rdGot>>
      BY <1>0, <2>2, <2>b, <3>1 DEF RdGoto, RdTyped
    <3>2. CASE rdFd' = 0 /\ RdReturn(t, RdNothing) /\ UNCHANGED rdServer BY <1>0, <2>b, <3>2, RdReturns DEF RdTyped
    <3> QED BY <1>4, <3>1, <3>2 DEF RdSend
  <2>4. rdFd' # 0 => RdOwes(rdFd, rdCall[t])'
    BY <1>0, <1>4, <2>2, Append(<< >>, rdCall[t]) = <<rdCall[t]>> DEF RdSend, RdQuiet, RdOwes, RdTyped
  <2>5. \A u \in RdThreads : RdThread(u)'
    BY <1>0, <1>4, <2>1, <2>4 DEF RdSend, RdReturn, RdGoto, RdTyped, RdThread, RdInv
  <2>c. \A c \in RdConns : c # rdFd => (RdQuiet(c) => RdQuiet(c)') BY <1>0, <1>4 DEF RdSend, RdTyped, RdQuiet
  <2>d. rdFd <= rdLastFd /\ rdLastFd' = rdLastFd /\ rdLastFd \in Nat /\ rdFd \in Nat BY <1>0, <2>b DEF RdTyped
  <2>6. /\ \A c \in RdConns : (c > rdLastFd => RdQuiet(c))'
        /\ rdFd' # 0 => rdPc'[t] = "read"
    <3>1. \A c \in RdConns : (c > rdLastFd => RdQuiet(c))' BY <2>c, <2>d DEF RdInv, RdConns
    <3>2. rdFd' # 0 => rdPc'[t] = "read" BY <1>0, <1>4 DEF RdSend, RdGoto, RdTyped
    <3> QED BY <3>1, <3>2
  <2> QED BY <2>3, <2>5, <2>6 DEF RdInv
<1>5. ASSUME NEW t \in RdThreads, RdRead(t) PROVE RdInv'
  <2>0. rdPc[t] = "read" BY <1>5 DEF RdRead
  <2>1. rdMutex = t /\ rdFd # 0 /\ RdOwes(rdFd, rdCall[t]) /\ \A u \in RdThreads \ {t} : rdPc[u] = "idle"
    BY <2>0, RdAlone DEF RdInv, RdThread
  <2>2. rdFd \in RdConns BY <1>0, <2>1 DEF RdTyped, RdConns
  <2>3. ASSUME rdStream[rdFd] # << >>
        PROVE  /\ rdServer[rdFd] = << >> /\ Tail(rdStream[rdFd]) = << >>
               /\ Head(rdStream[rdFd]) \in RdReplies /\ Head(rdStream[rdFd]).call = rdCall[t]
    <3>1. rdServer[rdFd] = << >> /\ \E is \in RdKinds : rdStream[rdFd] = <<[call |-> rdCall[t], is |-> is]>>
      BY <2>1, <2>3 DEF RdOwes
    <3>2. PICK is \in RdKinds : rdStream[rdFd] = <<[call |-> rdCall[t], is |-> is]>> BY <3>1
    <3>3. [call |-> rdCall[t], is |-> is] \in RdReplies BY <1>0 DEF RdReplies, RdTyped
    <3> QED BY <3>1, <3>2, <3>3
  <2>4. \E got \in RdReplies :
          /\ got.call \in {0, rdCall[t]} /\ RdReturn(t, got)
          /\ (rdFd' = 0 /\ UNCHANGED rdStream) \/ (rdFd' \in {0, rdFd} /\ rdStream[rdFd] # << >> /\ rdStream' = [rdStream EXCEPT ![rdFd] = Tail(@)])
    <3>1. CASE rdStream[rdFd] # << >> /\ rdStream' = [rdStream EXCEPT ![rdFd] = Tail(@)]
               /\ Head(rdStream[rdFd]).is = "array" /\ close_locked /\ RdReturn(t, RdNothing)
      BY <1>0, <3>1 DEF close_locked
    <3>2. CASE rdStream[rdFd] # << >> /\ rdStream' = [rdStream EXCEPT ![rdFd] = Tail(@)] /\ UNCHANGED rdFd
               /\ RdReturn(t, IF Head(rdStream[rdFd]).is \in {"error", "nil"}
                              THEN [Head(rdStream[rdFd]) EXCEPT !.is = "none"] ELSE Head(rdStream[rdFd]))
      <4> DEFINE r == Head(rdStream[rdFd])
                 got == IF r.is \in {"error", "nil"} THEN [r EXCEPT !.is = "none"] ELSE r
      <4>1. r \in RdReplies /\ r.call = rdCall[t] BY <2>3, <3>2
      <4>2. got \in RdReplies /\ got.call = rdCall[t] BY <4>1 DEF RdReplies, RdKinds
      <4> QED BY <3>2, <4>2
    <3>3. CASE close_locked /\ RdReturn(t, RdNothing) /\ UNCHANGED rdStream BY <1>0, <3>3 DEF close_locked
    <3> QED BY <1>5, <3>1, <3>2, <3>3 DEF RdRead
  <2>5. PICK got \in RdReplies :
          /\ got.call \in {0, rdCall[t]} /\ RdReturn(t, got)
          /\ (rdFd' = 0 /\ UNCHANGED rdStream) \/ (rdFd' \in {0, rdFd} /\ rdStream[rdFd] # << >> /\ rdStream' = [rdStream EXCEPT ![rdFd] = Tail(@)])
    BY <2>4
  <2>6. UNCHANGED <<rdLastFd, rdServer, rdCall, rdCalls>> BY <1>5 DEF RdRead
  <2>b. rdStream[rdFd] # << >> => Tail(rdStream[rdFd]) \in Seq(RdReplies)
    BY <1>0, <2>2, HeadTailProperties DEF RdTyped
  <2>a. rdFd' \in {0, rdFd} /\ rdStream' \in [RdConns -> Seq(RdReplies)] BY <1>0, <2>2, <2>5, <2>b DEF RdTyped
  <2>7. RdTyped' BY <1>0, <2>a, <2>5, <2>6, RdReturns DEF RdTyped
  <2>8. \A u \in RdThreads : RdThread(u)' BY <1>0, <2>1, <2>5, <2>6 DEF RdReturn, RdGoto, RdTyped, RdThread, RdInv
  <2>9. /\ \A c \in RdConns : (c > rdLastFd => RdQuiet(c))'
        /\ (rdFd # 0 => RdQuiet(rdFd))' BY <1>0, <2>2, <2>3, <2>5, <2>6 DEF RdTyped, RdInv, RdQuiet, RdConns
  <2> QED BY <2>7, <2>8, <2>9 DEF RdInv
<1>6. ASSUME NEW t \in RdThreads, RdDisconnect(t) PROVE RdInv'
  <2>1. \A u \in RdThreads : rdPc[u] = "idle" BY <1>6 DEF RdDisconnect, RdInv, RdThread, RdTyped
  <2> QED BY <1>0, <1>6, <2>1 DEF RdDisconnect, RdTyped, RdThread, RdInv, RdQuiet
<1>7. ASSUME NEW c \in RdConns, RdAnswer(c) PROVE RdInv'
  <2>1. PICK is \in {"text", "nil", "error", "array"} :
          rdStream' = [rdStream EXCEPT ![c] = Append(@, [call |-> Head(rdServer[c]), is |-> is])] BY <1>7 DEF RdAnswer
  <2>2. /\ rdServer[c] # << >> /\ rdServer' = [rdServer EXCEPT ![c] = Tail(@)]
        /\ UNCHANGED <<rdPc, rdMutex, rdFd, rdLastFd, rdGot, rdCall, rdCalls>> BY <1>7 DEF RdAnswer
  <2>3. Head(rdServer[c]) \in Nat /\ Tail(rdServer[c]) \in Seq(Nat) BY <1>0, <2>2 DEF RdTyped
  <2>4. [call |-> Head(rdServer[c]), is |-> is] \in RdReplies BY <2>3 DEF RdReplies, RdKinds
  <2>5. RdTyped' BY <1>0, <2>1, <2>2, <2>3, <2>4 DEF RdTyped
  <2>6. ASSUME rdFd = c, NEW n, RdOwes(c, n) PROVE RdOwes(c, n)'
    <3>1. rdServer[c] = <<n>> /\ rdStream[c] = << >> BY <2>2, <2>6 DEF RdOwes
    <3>2. rdServer'[c] = << >> /\ rdStream'[c] = <<[call |-> n, is |-> is]>> BY <1>0, <2>1, <2>2, <3>1 DEF RdTyped
    <3> QED BY <3>2 DEF RdOwes, RdKinds
  <2>7. \A t \in RdThreads : RdThread(t)'
    <3> SUFFICES ASSUME NEW t \in RdThreads PROVE RdThread(t)' OBVIOUS
    <3>1. rdCall[t] \in Nat /\ RdThread(t) BY <1>0 DEF RdTyped, RdInv
    <3>2. rdPc[t] = "read" => RdOwes(rdFd, rdCall[t])'
      <4>1. CASE rdFd = c BY <2>2, <2>6, <3>1, <4>1 DEF RdThread
      <4>2. CASE rdFd # c
        <5>1. rdFd' = rdFd /\ rdServer'[rdFd] = rdServer[rdFd] /\ rdStream'[rdFd] = rdStream[rdFd]
          BY <1>0, <2>1, <2>2, <4>2 DEF RdTyped
        <5> QED BY <3>1, <5>1, <2>2 DEF RdThread, RdOwes
      <4> QED BY <4>1, <4>2
    <3> QED BY <3>1, <3>2, <2>2 DEF RdThread
  <2>8. \A d \in RdConns : RdQuiet(d) => d # c BY <2>2 DEF RdQuiet
  <2>9. \A d \in RdConns : RdQuiet(d) => RdQuiet(d)' BY <1>0, <2>1, <2>2, <2>8 DEF RdTyped, RdQuiet
  <2>10. rdFd # 0 => rdFd \in RdConns BY <1>0 DEF RdTyped, RdConns
  <2> QED BY <2>2, <2>5, <2>7, <2>9, <2>10 DEF RdInv
<1> QED BY <1>1, <1>2, <1>3, <1>4, <1>5, <1>6, <1>7 DEF RdNext

----
\* The PostgreSQL client: what it was told succeeded is committed or pending
\* in the transaction that is open, unless that transaction has failed, and
\* then a COMMIT knows it.

PgTexts == PgSqls \cup {""}
PgOps == [op : {"idle", "BEGIN", "COMMIT", "ROLLBACK", "query", "execute"}, sql : PgTexts,
          step : {"", "prepare", "prepared", "run"}, failed : BOOLEAN]
PgSessions == [names : SUBSET Nat, tx : {"idle", "open", "error"}, pending : SUBSET PgTexts]

PgTyped ==
  /\ pgConnected \in BOOLEAN /\ pgLink \in {"none", "up", "lost"}
  /\ pgPrepared \in [PgSqls -> Nat] /\ pgNames \in Nat
  /\ pgRunning \in PgOps /\ pgServer \in PgSessions
  /\ pgVerdict \in {"none", "ok", "failed"}

\* The operation under way, and who is waiting for it.
PgUnderWay ==
  /\ pgRunning.op = "idle" => pgRunning = PgIdle
  /\ pgRunning.op \in {"query", "execute"} => pgRunning.sql \in PgSqls
  /\ pgRunning.step \in {"prepare", "prepared"} => pgRunning.op = "execute"
  /\ pgRunning # PgIdle => pgVerdict = "none"
  /\ pgOwed = (IF pgRunning = PgIdle THEN 0 ELSE 1)

PgCached == pgLink = "up" => \A s \in PgSqls : pgPrepared[s] = 0 \/ pgPrepared[s] \in pgServer.names

\* A transaction that failed is known to the COMMIT that ends it.
PgFailureKnown == pgLink = "up" /\ pgRunning.op = "COMMIT" /\ pgServer.tx = "error" => pgRunning.failed

PgTold ==
  /\ pgVerdict = "ok" => pgTold \subseteq pgCommitted
  /\ pgLink = "up" /\ pgVerdict # "failed" =>
       /\ pgServer.tx = "idle" => pgTold \subseteq pgCommitted
       /\ pgServer.tx = "open" => pgTold \subseteq pgCommitted \cup pgServer.pending

PgInv == PgTyped /\ PgUnderWay /\ PgCached /\ PgFailureKnown /\ PgTold

LEMMA PgStarted == PgInit => PgInv
<1> SUFFICES ASSUME PgInit PROVE PgInv OBVIOUS
<1>1. PgIdle \in PgOps /\ PgNewSession \in PgSessions BY DEF PgIdle, PgOps, PgTexts, PgNewSession, PgSessions
<1>2. PgIdle.op = "idle" /\ PgIdle.step = "" BY DEF PgIdle
<1> QED BY <1>1, <1>2 DEF PgInit, PgInv, PgTyped, PgUnderWay, PgCached, PgFailureKnown, PgTold

LEMMA PgHolds == PgInv => CommitsTrue BY DEF PgInv, PgTold, PgCached, PgUnderWay, CommitsTrue

\* What a reply does to everything but what the client was told.
LEMMA PgReplied ==
  ASSUME PgInv, pgRunning # PgIdle, NEW ok \in BOOLEAN, NEW server \in PgSessions, NEW committed,
         PgReply(ok, server, committed),
         pgServer.names \subseteq server.names,
         pgRunning.step = "prepare" /\ ok => pgNames \in server.names
  PROVE  PgTyped' /\ PgUnderWay' /\ PgCached' /\ PgFailureKnown'
<1>0. PgTyped /\ PgUnderWay /\ PgCached BY DEF PgInv
<1>1. /\ pgServer' = server /\ pgCommitted' = committed
      /\ UNCHANGED <<pgConnected, pgLink, pgNames, pgLosses>> BY DEF PgReply
<1>2. PgIdle \in PgOps /\ PgIdle.op = "idle" /\ PgIdle.step = "" BY DEF PgIdle, PgOps, PgTexts
<1>3. CASE pgRunning.step = "prepare" /\ ok
  <2> DEFINE r == [pgRunning EXCEPT !.step = "prepared"]
  <2>1. /\ pgPrepared' = [pgPrepared EXCEPT ![pgRunning.sql] = pgNames]
        /\ pgRunning' = r /\ UNCHANGED <<pgTold, pgVerdict, pgOwed>> BY <1>3 DEF PgReply
  <2>2. r \in PgOps /\ r.op = "execute" /\ r.sql \in PgSqls /\ r # PgIdle
    BY <1>0, <1>2, <1>3 DEF PgTyped, PgUnderWay, PgOps, PgTexts
  <2>3. PgTyped' BY <1>0, <1>1, <2>1, <2>2 DEF PgTyped
  <2>4. PgUnderWay' /\ PgFailureKnown' BY <1>0, <2>1, <2>2 DEF PgUnderWay, PgFailureKnown
  <2>5. PgCached' BY <1>0, <1>1, <1>3, <2>1 DEF PgTyped, PgCached
  <2> QED BY <2>3, <2>4, <2>5
<1>4. CASE ~(pgRunning.step = "prepare" /\ ok)
  <2>1. /\ pgRunning' = PgIdle /\ pgOwed' = pgOwed - 1 /\ UNCHANGED pgPrepared
        /\ pgVerdict' \in {"none", "ok", "failed"} BY <1>4 DEF PgReply
  <2>2. PgTyped' BY <1>0, <1>1, <1>2, <2>1 DEF PgTyped
  <2>a. pgOwed = 1 BY <1>0 DEF PgUnderWay
  <2>b. pgRunning' = PgIdle /\ pgOwed' = 0 BY <2>1, <2>a
  <2>3. PgUnderWay' /\ PgFailureKnown' BY <1>2, <2>b DEF PgUnderWay, PgFailureKnown
  <2>4. PgCached' BY <1>0, <1>1, <2>1 DEF PgCached
  <2> QED BY <2>2, <2>3, <2>4
<1> QED BY <1>3, <1>4

\* The operation that ends with a reply, and what is reported of it.
LEMMA PgReports ==
  ASSUME PgInv, pgRunning # PgIdle, NEW ok \in BOOLEAN, NEW server, NEW committed,
         PgReply(ok, server, committed)
  PROVE  /\ pgServer' = server /\ pgCommitted' = committed /\ pgLink' = pgLink /\ pgVerdict = "none"
         /\ pgRunning.step = "prepare" /\ ok => UNCHANGED <<pgTold, pgVerdict>>
         /\ ~ok /\ pgRunning.op # "COMMIT" => pgTold' = pgTold /\ pgVerdict' = "none"
         /\ ~ok /\ pgRunning.op = "COMMIT" => pgTold' = pgTold /\ pgVerdict' = "failed"
         /\ pgRunning.op \in {"BEGIN", "ROLLBACK"} /\ ok => pgTold' = {} /\ pgVerdict' = "none"
         /\ pgRunning.op = "COMMIT" /\ ok =>
              pgTold' = pgTold /\ pgVerdict' = IF pgRunning.failed THEN "failed" ELSE "ok"
         /\ pgRunning.op \in {"query", "execute"} /\ pgRunning.step # "prepare" /\ ok =>
              pgTold' = pgTold \cup {pgRunning.sql} /\ pgVerdict' = "none"
<1>1. PgUnderWay /\ pgRunning \in PgOps BY DEF PgInv, PgTyped
<1>2. /\ pgServer' = server /\ pgCommitted' = committed /\ pgLink' = pgLink /\ pgVerdict = "none"
  BY <1>1 DEF PgReply, PgUnderWay
<1>3. pgRunning.step = "prepare" /\ ok => UNCHANGED <<pgTold, pgVerdict>> BY DEF PgReply
<1>4. ~(pgRunning.step = "prepare" /\ ok) =>
        /\ pgTold' = CASE pgRunning.op = "BEGIN" /\ ok -> {}
                       [] pgRunning.op \in {"query", "execute"} /\ ok /\ ~(pgRunning.op = "COMMIT" /\ pgRunning.failed) -> pgTold \cup {pgRunning.sql}
                       [] pgRunning.op = "ROLLBACK" /\ ok -> {}
                       [] OTHER -> pgTold
        /\ pgVerdict' = IF pgRunning.op = "COMMIT" THEN (IF ok /\ ~(pgRunning.op = "COMMIT" /\ pgRunning.failed) THEN "ok" ELSE "failed") ELSE "none"
  BY DEF PgReply
<1>5. pgRunning.op \in {"BEGIN", "COMMIT", "ROLLBACK"} => pgRunning.step # "prepare" BY <1>1 DEF PgUnderWay
<1>6. /\ ~ok /\ pgRunning.op # "COMMIT" => pgTold' = pgTold /\ pgVerdict' = "none"
      /\ ~ok /\ pgRunning.op = "COMMIT" => pgTold' = pgTold /\ pgVerdict' = "failed" BY <1>4
<1>7. /\ pgRunning.op = "BEGIN" /\ ok => pgTold' = {} /\ pgVerdict' = "none"
      /\ pgRunning.op = "ROLLBACK" /\ ok => pgTold' = {} /\ pgVerdict' = "none"
      /\ pgRunning.op = "COMMIT" /\ ok =>
           pgTold' = pgTold /\ pgVerdict' = IF pgRunning.failed THEN "failed" ELSE "ok" BY <1>4, <1>5
<1>8. pgRunning.op \in {"query", "execute"} /\ pgRunning.step # "prepare" /\ ok =>
        pgTold' = pgTold \cup {pgRunning.sql} /\ pgVerdict' = "none" BY <1>4
<1> QED BY <1>2, <1>3, <1>6, <1>7, <1>8

LEMMA PgAnswers == ASSUME PgInv, PgServed PROVE PgInv'
<1> DEFINE s == pgServer
           r == pgRunning
           fails == [s EXCEPT !.tx = IF @ = "idle" THEN @ ELSE "error"]
           applied == [s EXCEPT !.pending = IF s.tx = "open" THEN @ \cup {r.sql} ELSE @]
           ended == [s EXCEPT !.tx = "idle", !.pending = {}]
           named == [s EXCEPT !.names = @ \cup {pgNames}]
           begun == IF s.tx = "idle" THEN [s EXCEPT !.tx = "open"] ELSE s
<1>0. PgTyped /\ PgUnderWay /\ PgTold /\ PgFailureKnown /\ r # PgIdle /\ pgLink = "up" /\ r \in PgOps /\ s \in PgSessions
  BY DEF PgInv, PgServed, PgTyped
<1>1. /\ fails \in PgSessions /\ fails.names = s.names /\ fails.pending = s.pending
      /\ fails.tx = "idle" => s.tx = "idle"
      /\ fails.tx # "open" BY <1>0 DEF PgSessions
<1>2. /\ applied \in PgSessions /\ applied.names = s.names /\ applied.tx = s.tx
      /\ s.tx = "open" => applied.pending = s.pending \cup {r.sql} BY <1>0 DEF PgSessions, PgOps, PgTexts
<1>3. ended \in PgSessions /\ ended.names = s.names /\ ended.tx = "idle" BY <1>0 DEF PgSessions
<1>4. named \in PgSessions /\ named.names = s.names \cup {pgNames} /\ named.tx = s.tx /\ named.pending = s.pending
  BY <1>0 DEF PgSessions, PgTyped
<1>5. begun \in PgSessions /\ begun.names = s.names BY <1>0 DEF PgSessions
<1>6. \/ r.op = "BEGIN" /\ PgReply(TRUE, begun, pgCommitted)
      \/ r.op = "COMMIT" /\ PgReply(TRUE, ended, IF s.tx = "open" THEN pgCommitted \cup s.pending ELSE pgCommitted)
      \/ r.op = "ROLLBACK" /\ PgReply(TRUE, ended, pgCommitted)
      \/ r.step = "prepare" /\ s.tx # "error" /\ PgReply(TRUE, named, pgCommitted)
      \/ PgReply(FALSE, fails, pgCommitted) /\ r.op \notin {"BEGIN", "COMMIT", "ROLLBACK"}
      \/ /\ r.op \notin {"BEGIN", "COMMIT", "ROLLBACK"} /\ r.step # "prepare" /\ s.tx # "error"
         /\ PgReply(TRUE, applied, IF s.tx = "idle" THEN pgCommitted \cup {r.sql} ELSE pgCommitted)
  BY <1>0 DEF PgServed, PgUnderWay
<1>7. r.op # "idle" /\ pgVerdict = "none" BY <1>0 DEF PgUnderWay
<1>8. /\ s.tx = "idle" => pgTold \subseteq pgCommitted
      /\ s.tx = "open" => pgTold \subseteq pgCommitted \cup s.pending BY <1>0, <1>7 DEF PgTold
<1> HIDE DEF s, r, fails, applied, ended, named, begun
<1>a. CASE r.op = "BEGIN" /\ PgReply(TRUE, begun, pgCommitted)
  <2>1. pgTold' = {} /\ pgVerdict' = "none" BY <1>0, <1>a, PgReports DEF r
  <2>2. PgTold' BY <2>1 DEF PgTold
  <2> QED BY <1>0, <1>5, <1>a, <2>2, PgReplied DEF r, s, PgInv, PgUnderWay
<1>b. CASE r.op = "COMMIT" /\ PgReply(TRUE, ended, IF s.tx = "open" THEN pgCommitted \cup s.pending ELSE pgCommitted)
  <2> DEFINE committed == IF s.tx = "open" THEN pgCommitted \cup s.pending ELSE pgCommitted
  <2>1. /\ pgTold' = pgTold /\ pgVerdict' = (IF r.failed THEN "failed" ELSE "ok") /\ pgServer' = ended
        /\ pgCommitted' = committed BY <1>0, <1>b, PgReports DEF r
  <2>2. ~r.failed => s.tx # "error" BY <1>0, <1>b DEF PgFailureKnown, r, s
  <2>3. ~r.failed => pgTold \subseteq committed BY <1>0, <1>8, <2>2 DEF PgSessions
  <2>4. PgTold' BY <1>3, <2>1, <2>3 DEF PgTold
  <2> QED BY <1>0, <1>3, <1>b, <2>4, PgReplied DEF r, s, PgInv, PgUnderWay
<1>c. CASE r.op = "ROLLBACK" /\ PgReply(TRUE, ended, pgCommitted)
  <2>1. pgTold' = {} /\ pgVerdict' = "none" BY <1>0, <1>c, PgReports DEF r
  <2>2. PgTold' BY <2>1 DEF PgTold
  <2> QED BY <1>0, <1>3, <1>c, <2>2, PgReplied DEF r, s, PgInv, PgUnderWay
<1>d. CASE r.step = "prepare" /\ s.tx # "error" /\ PgReply(TRUE, named, pgCommitted)
  <2>1. pgTold' = pgTold /\ pgVerdict' = "none" /\ pgServer' = named /\ pgCommitted' = pgCommitted
    BY <1>0, <1>7, <1>d, PgReports DEF r
  <2>2. PgTold' BY <1>4, <1>8, <2>1 DEF PgTold
  <2> QED BY <1>0, <1>4, <1>d, <2>2, PgReplied DEF r, s, PgInv
<1>e. CASE PgReply(FALSE, fails, pgCommitted) /\ r.op \notin {"BEGIN", "COMMIT", "ROLLBACK"}
  <2>1. pgTold' = pgTold /\ pgVerdict' = "none" /\ pgServer' = fails /\ pgCommitted' = pgCommitted
    BY <1>0, <1>e, PgReports DEF r
  <2>2. PgTold' BY <1>1, <1>8, <2>1 DEF PgTold
  <2> QED BY <1>0, <1>1, <1>e, <2>2, PgReplied DEF r, s, PgInv
<1>f. CASE /\ r.op \notin {"BEGIN", "COMMIT", "ROLLBACK"} /\ r.step # "prepare" /\ s.tx # "error"
           /\ PgReply(TRUE, applied, IF s.tx = "idle" THEN pgCommitted \cup {r.sql} ELSE pgCommitted)
  <2> DEFINE committed == IF s.tx = "idle" THEN pgCommitted \cup {r.sql} ELSE pgCommitted
  <2>0. r.op \in {"query", "execute"} BY <1>0, <1>7, <1>f DEF PgOps, PgTexts
  <2>1. pgTold' = pgTold \cup {r.sql} /\ pgVerdict' = "none" /\ pgServer' = applied /\ pgCommitted' = committed
    BY <1>0, <1>f, <2>0, PgReports DEF r
  <2>2. /\ s.tx = "idle" => pgTold \cup {r.sql} \subseteq committed
        /\ s.tx = "open" => pgTold \cup {r.sql} \subseteq committed \cup applied.pending BY <1>2, <1>8
  <2>3. PgTold' BY <1>2, <2>1, <2>2 DEF PgTold
  <2> QED BY <1>0, <1>2, <1>f, <2>3, PgReplied DEF r, s, PgInv
<1> QED BY <1>6, <1>a, <1>b, <1>c, <1>d, <1>e, <1>f

LEMMA PgStarts ==
  ASSUME PgInv, NEW op \in {"BEGIN", "COMMIT", "ROLLBACK", "query", "execute"}, NEW sql \in PgTexts,
         op \in {"query", "execute"} => sql \in PgSqls, PgStart(op, sql)
  PROVE  PgInv'
<1>0. PgTyped /\ PgUnderWay /\ PgCached /\ PgTold BY DEF PgInv
<1>1. /\ pgOwed' = 1 /\ pgVerdict' = "none" /\ pgTold' = (IF pgVerdict = "none" THEN pgTold ELSE {})
      /\ UNCHANGED <<pgConnected, pgLink, pgPrepared, pgServer, pgCommitted, pgLosses>> BY DEF PgStart
<1> DEFINE step == PgFirstStep(op, sql)
<1>3. step \in {"prepare", "prepared", "run"} /\ (step # "run" => op = "execute") BY DEF PgFirstStep
<1>2. /\ pgNames' = IF step = "prepare" THEN pgNames + 1 ELSE pgNames
      /\ pgRunning' = [op |-> op, sql |-> sql, step |-> step, failed |-> op = "COMMIT" /\ pgServer.tx = "error"]
  BY DEF PgStart
<1> HIDE DEF step
<1> DEFINE broke == op = "COMMIT" /\ pgServer.tx = "error"
<1>4. broke \in BOOLEAN /\ (op = "COMMIT" /\ pgServer.tx = "error" => broke) OBVIOUS
<1> HIDE DEF broke
<1> DEFINE r == [op |-> op, sql |-> sql, step |-> step, failed |-> broke]
<1>5. pgRunning' = r BY <1>2 DEF broke
<1>6. r \in PgOps /\ r.op = op /\ r.sql = sql /\ r.step = step /\ (r.failed <=> broke) /\ r # PgIdle
  BY <1>3, <1>4 DEF PgOps, PgIdle
<1> HIDE DEF r
<1>b. pgNames' \in {pgNames, pgNames + 1} BY <1>2
<1>a. pgNames' \in Nat BY <1>0, <1>b DEF PgTyped
<1>7. PgTyped' BY <1>0, <1>1, <1>5, <1>6, <1>a DEF PgTyped
<1>8. PgUnderWay' /\ PgFailureKnown' BY <1>1, <1>3, <1>4, <1>5, <1>6 DEF PgUnderWay, PgFailureKnown
<1>9. PgCached' /\ PgTold' BY <1>0, <1>1 DEF PgCached, PgTold
<1> QED BY <1>7, <1>8, <1>9 DEF PgInv

LEMMA PgStep == PgInv /\ [PgNext]_pgVars => PgInv'
<1> SUFFICES ASSUME PgInv, [PgNext]_pgVars PROVE PgInv' OBVIOUS
<1>0. PgTyped /\ PgUnderWay /\ PgCached /\ PgTold /\ PgFailureKnown BY DEF PgInv
<1>n. PgNewSession \in PgSessions /\ PgIdle.op = "idle" BY DEF PgNewSession, PgSessions, PgIdle
<1>1. CASE UNCHANGED pgVars BY <1>0, <1>1 DEF pgVars, PgInv, PgTyped, PgUnderWay, PgCached, PgFailureKnown, PgTold
<1>2. CASE PgConnect
  <2>1. /\ pgRunning = PgIdle /\ pgOwed = 0 /\ pgPrepared' = [s \in PgSqls |-> 0]
        /\ pgConnected' \in BOOLEAN /\ pgLink' \in {"up", "none"}
        /\ pgServer' = PgNewSession /\ pgTold' = {} /\ pgVerdict' = "none"
        /\ UNCHANGED <<pgNames, pgRunning, pgCommitted, pgOwed, pgLosses>> BY <1>2 DEF PgConnect, close_connection
  <2>2. PgTyped' BY <1>0, <1>n, <2>1 DEF PgTyped
  <2>3. PgUnderWay' /\ PgFailureKnown' BY <1>0, <1>n, <2>1 DEF PgUnderWay, PgFailureKnown
  <2>4. PgCached' /\ PgTold' BY <2>1 DEF PgCached, PgTold
  <2> QED BY <2>2, <2>3, <2>4 DEF PgInv
<1>3. CASE PgLose
  <2>1. PgTyped' /\ PgUnderWay' BY <1>0, <1>3, <1>n DEF PgLose, PgTyped, PgUnderWay
  <2>2. PgCached' /\ PgFailureKnown' /\ PgTold' BY <1>0, <1>3 DEF PgLose, PgCached, PgFailureKnown, PgTold
  <2> QED BY <2>1, <2>2 DEF PgInv
<1>4. CASE PgServed BY <1>4, PgAnswers
<1>5. CASE PgBroken
  <2>1. pgRunning # PgIdle /\ pgLink # "up" /\ PgReply(FALSE, pgServer, pgCommitted) BY <1>5 DEF PgBroken
  <2>2. PgTyped' /\ PgUnderWay' /\ PgCached' /\ PgFailureKnown' BY <1>0, <2>1, PgReplied DEF PgTyped
  <2>3. pgLink' # "up" /\ pgVerdict' # "ok" BY <1>0, <2>1, PgReports DEF PgTyped, PgOps, PgTexts
  <2>4. PgTold' BY <2>3 DEF PgTold
  <2> QED BY <2>2, <2>4 DEF PgInv
<1>6. ASSUME NEW op \in {"BEGIN", "COMMIT", "ROLLBACK"}, PgStart(op, "") PROVE PgInv' BY <1>6, PgStarts DEF PgTexts
<1>7. ASSUME NEW op \in {"query", "execute"}, NEW sql \in PgSqls, PgStart(op, sql) PROVE PgInv'
  BY <1>7, PgStarts DEF PgTexts
<1> QED BY <1>1, <1>2, <1>3, <1>4, <1>5, <1>6, <1>7 DEF PgNext

----
\* Coroutines that await MySQL and MongoDB: a task is of one worker and one
\* coroutine, and the connections out of the pool are those of the workers
\* whose task holds one.

AqSteps == {"runs", "connecting", "querying", "storing", "queued", "task", "holds"}
AqWords == {"none", "error", "bad json", "connected", "rows", "affected", "done"}
AqAsked == {"connect", "query", "find", "insert"}
AqOps == AqAsked \cup {"none"}
AqAwaiters == [op : AqOps, step : AqSteps, truth : AqWords, told : AqWords, left : Nat, resumed : Nat, waits : Nat]

AqHolding == {w \in AqWorkers : aqTask[w] # AqNone /\ aqCoro[aqTask[w]].step = "holds"}

AqTyped ==
  /\ aqCoro \in [AqCoros -> AqAwaiters] /\ aqQueue \in Seq(AqCoros)
  /\ aqTask \in [AqWorkers -> AqCoros \cup {AqNone}] /\ aqFree \in Nat

\* What a coroutine was told, how often it was resumed, and which of its
\* operations no worker has.
AqSays(truth, told) == told = "error" <=> truth \in {"bad json", "error"}
AqHonest(r) == AqSays(r.truth, r.told)
AqToldTrue(r) ==
  /\ r.resumed = AqMaxOps - r.left - (IF r.step = "runs" THEN 0 ELSE 1)
  /\ r.step = "runs" => AqHonest(r)

AqNotATask(c) == aqCoro[c].step \in {"connecting", "querying", "storing", "queued"} => \A w \in AqWorkers : aqTask[w] # c

AqInv ==
  /\ AqTyped
  /\ \A c \in AqCoros : AqToldTrue(aqCoro[c]) /\ AqNotATask(c)
  /\ \A v, w \in AqWorkers : aqTask[v] = aqTask[w] /\ aqTask[v] # AqNone => v = w
  /\ \A i \in DOMAIN aqQueue : aqCoro[aqQueue[i]].step = "queued"
  /\ \A i, j \in DOMAIN aqQueue : aqQueue[i] = aqQueue[j] => i = j
  /\ aqFree + Cardinality(AqHolding) = AqClients

LEMMA AqStarted == AqInit => AqInv
<1> SUFFICES ASSUME AqInit PROVE AqInv OBVIOUS
<1> USE AqAssumption DEF AqAssumption
<1> DEFINE r == [op |-> "none", step |-> "runs", truth |-> "none", told |-> "none", left |-> AqMaxOps, resumed |-> 0, waits |-> 0]
<1>1. r \in AqAwaiters /\ AqToldTrue(r) /\ r.step = "runs"
  <2>1. AqHonest(r) /\ r.step = "runs" BY DEF AqHonest, AqSays
  <2>2. r.resumed = AqMaxOps - r.left - 0 OBVIOUS
  <2>3. "none" \in AqOps /\ "runs" \in AqSteps /\ "none" \in AqWords BY DEF AqOps, AqSteps, AqWords
  <2>4. r \in AqAwaiters BY <2>3 DEF AqAwaiters
  <2> QED BY <2>1, <2>2, <2>4 DEF AqToldTrue
<1>2. \A c \in AqCoros : aqCoro[c] = r BY DEF AqInit
<1>3. AqTyped BY <1>1 DEF AqInit, AqTyped
<1>4. AqHolding = {} BY DEF AqInit, AqHolding
<1>5. \A c \in AqCoros : AqToldTrue(aqCoro[c]) /\ AqNotATask(c) BY <1>1, <1>2 DEF AqNotATask
<1> QED BY <1>3, <1>4, <1>5, FS_EmptySet DEF AqInit, AqInv

LEMMA AqHolds == AqInv => AwaitsAnswered
<1> SUFFICES ASSUME AqInv PROVE AwaitsAnswered OBVIOUS
<1>1. \A c \in AqCoros : AqToldTrue(aqCoro[c]) BY DEF AqInv
<1>2. aqFree + Cardinality({w \in AqWorkers : aqTask[w] # AqNone /\ aqCoro[aqTask[w]].step = "holds"}) = AqClients
  BY DEF AqInv, AqHolding
<1>3. ASSUME NEW c \in AqCoros
      PROVE  /\ aqCoro[c].resumed = AqMaxOps - aqCoro[c].left - (IF aqCoro[c].step = "runs" THEN 0 ELSE 1)
             /\ aqCoro[c].step = "runs" => (aqCoro[c].told = "error" <=> aqCoro[c].truth \in {"bad json", "error"})
  BY <1>1, Zenon DEF AqToldTrue, AqHonest, AqSays
<1> QED BY <1>2, <1>3, Zenon DEF AwaitsAnswered

LEMMA AqCountable == IsFiniteSet(AqHolding)
<1>1. AqHolding \subseteq AqWorkers BY DEF AqHolding
<1> QED BY <1>1, FS_Subset, AqAssumption DEF AqAssumption

\* A coroutine whose operation is not a task goes on.
LEMMA AqGoesOn ==
  ASSUME AqInv, NEW c \in AqCoros, aqCoro[c].step \in {"connecting", "querying", "storing"},
         NEW r \in AqAwaiters, AqToldTrue(r), AqSet(c, r), r.step \in {"runs", "connecting", "querying", "storing"},
         UNCHANGED <<aqQueue, aqTask, aqFree>>
  PROVE  AqInv'
<1> USE AqAssumption DEF AqAssumption
<1>0. AqTyped /\ aqCoro' = [aqCoro EXCEPT ![c] = r] BY DEF AqInv, AqSet
<1>1. AqTyped' BY <1>0 DEF AqTyped
<1>2. \A w \in AqWorkers : aqTask[w] # c BY DEF AqInv, AqNotATask
<1>3. \A d \in AqCoros : AqToldTrue(aqCoro'[d]) BY <1>0 DEF AqInv, AqTyped
<1>a. \A d \in AqCoros : AqNotATask(d)' BY <1>0, <1>2 DEF AqInv, AqNotATask, AqTyped
<1>4. AqHolding' = AqHolding BY <1>0, <1>2 DEF AqHolding, AqTyped
<1>5. \A i \in DOMAIN aqQueue : aqQueue[i] \in AqCoros \ {c} BY <1>0 DEF AqInv, AqTyped
<1>6. \A i \in DOMAIN aqQueue : aqCoro'[aqQueue[i]].step = "queued" BY <1>0, <1>5 DEF AqInv, AqTyped
<1> QED BY <1>1, <1>3, <1>a, <1>4, <1>6 DEF AqInv

LEMMA AqAwaits ==
  ASSUME AqInv, NEW c \in AqCoros, NEW op \in AqAsked, await_suspend(c, op)
  PROVE  AqInv'
<1> USE AqAssumption DEF AqAssumption
<1> DEFINE r == [aqCoro[c] EXCEPT !.op = op, !.left = @ - 1, !.truth = "none", !.told = "none",
                          !.step = CASE op = "connect" -> "connecting" [] op = "query" -> "querying" [] OTHER -> "queued"]
<1>0. /\ AqTyped /\ aqCoro' = [aqCoro EXCEPT ![c] = r] /\ aqFree' = aqFree
      /\ aqCoro[c] \in AqAwaiters /\ aqCoro[c].step = "runs" /\ aqCoro[c].left > 0 /\ AqToldTrue(aqCoro[c])
      /\ aqTask' = [w \in AqWorkers |-> IF aqTask[w] = c THEN AqNone ELSE aqTask[w]]
  BY DEF AqInv, AqTyped, await_suspend, AqSet
<1>1. /\ r \in AqAwaiters /\ r.left = aqCoro[c].left - 1 /\ r.resumed = aqCoro[c].resumed
      /\ r.step \in {"connecting", "querying", "queued"}
      /\ op \in {"connect", "query"} => r.step # "queued"
  <2>1. r.step \in {"connecting", "querying", "queued"} /\ (op \in {"connect", "query"} => r.step # "queued") /\ r.step \in AqSteps
    BY DEF AqSteps
  <2>2. aqCoro[c].left - 1 \in Nat BY <1>0 DEF AqAwaiters
  <2>3. op \in AqOps /\ "none" \in AqWords BY DEF AqOps, AqWords
  <2> DEFINE s == r.step
  <2>4. /\ r = [aqCoro[c] EXCEPT !.op = op, !.left = @ - 1, !.truth = "none", !.told = "none", !.step = s]
        /\ s \in AqSteps BY <1>0, <2>1 DEF AqAwaiters
  <2> HIDE DEF s
  <2>5. r \in AqAwaiters /\ r.left = aqCoro[c].left - 1 /\ r.resumed = aqCoro[c].resumed
    BY <1>0, <2>2, <2>3, <2>4 DEF AqAwaiters
  <2> QED BY <2>1, <2>5
<1>q. op \in {"find", "insert"} => r.step = "queued" OBVIOUS
<1> HIDE DEF r
<1>2. AqToldTrue(r)
  <2>1. r.resumed = AqMaxOps - r.left - (IF r.step = "runs" THEN 0 ELSE 1) BY <1>0, <1>1 DEF AqToldTrue, AqAwaiters
  <2> QED BY <1>1, <2>1 DEF AqToldTrue
<1>3. /\ op \in {"find", "insert"} => aqQueue' = Append(aqQueue, c)
      /\ op \notin {"find", "insert"} => aqQueue' = aqQueue BY DEF await_suspend
<1>4. AqTyped'
  <2>1. aqQueue \in Seq(AqCoros) BY <1>0 DEF AqTyped
  <2>2. Append(aqQueue, c) \in Seq(AqCoros) BY <2>1, AppendProperties
  <2>3. aqQueue' \in Seq(AqCoros) BY <1>3, <2>1, <2>2
  <2> QED BY <1>0, <1>1, <2>3 DEF AqTyped
<1>5. \A d \in AqCoros : AqToldTrue(aqCoro'[d]) BY <1>0, <1>2 DEF AqInv, AqTyped
<1>6. \A d \in AqCoros : AqNotATask(d)'
  <2> SUFFICES ASSUME NEW d \in AqCoros PROVE AqNotATask(d)' OBVIOUS
  <2>1. \A w \in AqWorkers : aqTask'[w] # c BY <1>0
  <2>2. CASE d # c BY <1>0, <2>2 DEF AqInv, AqNotATask, AqTyped
  <2> QED BY <2>1, <2>2 DEF AqNotATask
<1>7. \A v, w \in AqWorkers : (aqTask[v] = aqTask[w] /\ aqTask[v] # AqNone => v = w)' BY <1>0 DEF AqInv
<1>8. AqHolding' = AqHolding
  <2>1. ASSUME NEW w \in AqWorkers PROVE w \in AqHolding' <=> w \in AqHolding BY <1>0, <1>1 DEF AqHolding, AqTyped
  <2> QED BY <2>1 DEF AqHolding
<1>9. /\ \A i \in DOMAIN aqQueue : aqQueue[i] \in AqCoros \ {c} /\ aqCoro'[aqQueue[i]].step = "queued"
      /\ aqCoro'[c] = r BY <1>0 DEF AqInv, AqTyped
<1>10. /\ \A i \in DOMAIN aqQueue' : aqCoro'[aqQueue'[i]].step = "queued"
       /\ \A i, j \in DOMAIN aqQueue' : aqQueue'[i] = aqQueue'[j] => i = j
  <2>1. CASE op \notin {"find", "insert"} BY <1>3, <1>9, <2>1 DEF AqInv
  <2>2. CASE op \in {"find", "insert"}
    <3>1. /\ Len(aqQueue') = Len(aqQueue) + 1 /\ aqQueue'[Len(aqQueue) + 1] = c
          /\ \A i \in 1..Len(aqQueue) : aqQueue'[i] = aqQueue[i]
          /\ DOMAIN aqQueue' = 1..(Len(aqQueue) + 1) /\ DOMAIN aqQueue = 1..Len(aqQueue) /\ Len(aqQueue) \in Nat
      BY <1>0, <1>3, <2>2 DEF AqTyped
    <3>2. \A i \in DOMAIN aqQueue' : i \in DOMAIN aqQueue \/ i = Len(aqQueue) + 1 BY <3>1
    <3>3. \A i \in DOMAIN aqQueue' : aqCoro'[aqQueue'[i]].step = "queued" BY <1>q, <1>9, <2>2, <3>1, <3>2
    <3>4. ASSUME NEW i \in DOMAIN aqQueue', NEW j \in DOMAIN aqQueue', aqQueue'[i] = aqQueue'[j] PROVE i = j
      <4>1. CASE i \in DOMAIN aqQueue /\ j \in DOMAIN aqQueue BY <3>1, <3>4, <4>1 DEF AqInv
      <4>2. CASE i = Len(aqQueue) + 1 \/ j = Len(aqQueue) + 1 BY <1>9, <3>1, <3>2, <3>4, <4>2
      <4> QED BY <3>2, <4>1, <4>2
    <3> QED BY <3>3, <3>4
  <2> QED BY <2>1, <2>2
<1> QED BY <1>0, <1>4, <1>5, <1>6, <1>7, <1>8, <1>10 DEF AqInv

LEMMA AqReturns == ASSUME AqInv, NEW c \in AqCoros, AqReturn(c) PROVE AqInv'
<1>0. /\ AqTyped /\ UNCHANGED <<aqCoro, aqQueue, aqFree>> /\ aqCoro[c].step = "runs"
      /\ aqTask' = [w \in AqWorkers |-> IF aqTask[w] = c THEN AqNone ELSE aqTask[w]] BY DEF AqInv, AqReturn
<1>1. AqTyped' BY <1>0 DEF AqTyped
<1>2. \A d \in AqCoros : AqToldTrue(aqCoro'[d]) BY <1>0 DEF AqInv
<1>3. \A d \in AqCoros : AqNotATask(d)' BY <1>0, AqAssumption DEF AqInv, AqNotATask
<1>4. \A v, w \in AqWorkers : (aqTask[v] = aqTask[w] /\ aqTask[v] # AqNone => v = w)' BY <1>0 DEF AqInv
<1>5. AqHolding' = AqHolding BY <1>0 DEF AqHolding
<1> QED BY <1>0, <1>1, <1>2, <1>3, <1>4, <1>5 DEF AqInv

LEMMA AqResumed ==
  ASSUME AqTyped, NEW c \in AqCoros, AqToldTrue(aqCoro[c]), aqCoro[c].step # "runs",
         NEW truth \in AqWords, NEW told \in AqWords, AqSays(truth, told),
         AqResume(c, truth, told)
  PROVE  \E r \in AqAwaiters : AqToldTrue(r) /\ r.step = "runs" /\ AqSet(c, r)
<1> DEFINE r == [aqCoro[c] EXCEPT !.step = "runs", !.truth = truth, !.told = told, !.resumed = @ + 1, !.waits = 0]
<1>0. aqCoro[c] \in AqAwaiters BY DEF AqTyped
<1>1. /\ r \in AqAwaiters /\ r.step = "runs" /\ r.truth = truth /\ r.told = told
      /\ r.left = aqCoro[c].left /\ r.resumed = aqCoro[c].resumed + 1
  <2>1. r \in [op : AqOps, step : AqSteps, truth : AqWords, told : AqWords, left : Nat, resumed : Nat, waits : Nat]
    <3>0. aqCoro[c].resumed + 1 \in Nat BY <1>0 DEF AqAwaiters
    <3>1. aqCoro[c].resumed + 1 \in Nat /\ "runs" \in AqSteps BY <3>0 DEF AqSteps
    <3> QED BY <1>0, <3>1 DEF AqAwaiters
  <2> QED BY <1>0, <2>1 DEF AqAwaiters
<1>2. AqSet(c, r) BY DEF AqResume
<1> HIDE DEF r
<1>3. AqToldTrue(r)
  <2>1. r.resumed = AqMaxOps - r.left - 0 BY <1>0, <1>1, AqAssumption DEF AqToldTrue, AqAwaiters, AqAssumption
  <2>2. AqHonest(r) BY <1>1, Zenon DEF AqHonest
  <2> QED BY <1>1, <2>1, <2>2 DEF AqToldTrue
<1> QED BY <1>1, <1>2, <1>3

LEMMA AqWaits ==
  ASSUME AqTyped, NEW c \in AqCoros, AqToldTrue(aqCoro[c]), wait_for_status(c)
  PROVE  \E r \in AqAwaiters : AqToldTrue(r) /\ r.step = aqCoro[c].step /\ AqSet(c, r)
<1> DEFINE r == [aqCoro[c] EXCEPT !.waits = @ + 1]
<1>0. aqCoro[c] \in AqAwaiters BY DEF AqTyped
<1>1. /\ r \in AqAwaiters /\ r.step = aqCoro[c].step /\ r.truth = aqCoro[c].truth /\ r.told = aqCoro[c].told
      /\ r.left = aqCoro[c].left /\ r.resumed = aqCoro[c].resumed BY <1>0 DEF AqAwaiters
<1>2. AqSet(c, r) BY DEF wait_for_status
<1> HIDE DEF r
<1>3. AqToldTrue(r) BY <1>1 DEF AqToldTrue, AqHonest
<1> QED BY <1>1, <1>2, <1>3

LEMMA AqMysql == ASSUME AqInv, NEW c \in AqCoros, resume_loop(c) \/ process_result_cont(c) PROVE AqInv'
<1>0. /\ AqTyped /\ AqToldTrue(aqCoro[c]) /\ UNCHANGED <<aqQueue, aqTask, aqFree>>
      /\ aqCoro[c].step \in {"connecting", "querying", "storing"} BY DEF AqInv, resume_loop, process_result_cont
<1>1. CASE wait_for_status(c) BY <1>0, <1>1, AqWaits, AqGoesOn
<1>2. CASE \E truth \in {"error", "connected", "rows", "affected"} : AqResume(c, truth, truth)
  BY <1>0, <1>2, AqResumed, AqGoesOn DEF AqWords, AqSays
<1>3. CASE aqCoro[c].step = "querying" /\ AqSet(c, [aqCoro[c] EXCEPT !.step = "storing", !.waits = 0])
  <2> DEFINE r == [aqCoro[c] EXCEPT !.step = "storing", !.waits = 0]
  <2>0. aqCoro[c] \in AqAwaiters BY <1>0 DEF AqTyped
  <2>1. /\ r \in AqAwaiters /\ r.step = "storing" /\ r.left = aqCoro[c].left /\ r.resumed = aqCoro[c].resumed
    BY <2>0 DEF AqAwaiters, AqSteps
  <2>2. AqSet(c, r) BY <1>3
  <2> HIDE DEF r
  <2>3. AqToldTrue(r) BY <1>0, <1>3, <2>1 DEF AqToldTrue
  <2> QED BY <1>0, <2>1, <2>2, <2>3, AqGoesOn
<1> QED BY <1>1, <1>2, <1>3 DEF resume_loop, process_result_cont

LEMMA AqTakes == ASSUME AqInv, NEW w \in AqWorkers, AqTake(w) PROVE AqInv'
<1> USE AqAssumption DEF AqAssumption
<1> DEFINE c == Head(aqQueue)
           r == [aqCoro[c] EXCEPT !.step = "task"]
<1>0. /\ AqTyped /\ aqCoro' = [aqCoro EXCEPT ![c] = r] /\ aqFree' = aqFree
      /\ aqTask[w] = AqNone /\ aqQueue # << >> /\ aqQueue' = Tail(aqQueue) /\ aqTask' = [aqTask EXCEPT ![w] = c]
  BY DEF AqInv, AqTake, AqSet
<1>1. /\ c \in AqCoros /\ c = aqQueue[1] /\ 1 \in DOMAIN aqQueue
      /\ aqQueue' \in Seq(AqCoros)
      /\ \A i \in DOMAIN aqQueue' : i + 1 \in DOMAIN aqQueue /\ i \in Nat /\ i # 0 /\ aqQueue'[i] = aqQueue[i + 1]
  BY <1>0 DEF AqTyped
<1>2. aqCoro[c].step = "queued" /\ AqToldTrue(aqCoro[c]) /\ aqCoro[c] \in AqAwaiters /\ \A v \in AqWorkers : aqTask[v] # c
  BY <1>0, <1>1 DEF AqInv, AqNotATask, AqTyped
<1> HIDE DEF c
<1>3. /\ r \in AqAwaiters /\ r.step = "task" /\ r.left = aqCoro[c].left /\ r.resumed = aqCoro[c].resumed
  BY <1>2 DEF AqAwaiters, AqSteps
<1> HIDE DEF r
<1>4. AqToldTrue(r) BY <1>2, <1>3 DEF AqToldTrue
<1>5. AqTyped' BY <1>0, <1>1, <1>3 DEF AqTyped
<1>6. \A d \in AqCoros : AqToldTrue(aqCoro'[d]) /\ AqNotATask(d)'
  <2>1. \A d \in AqCoros : AqToldTrue(aqCoro'[d]) BY <1>0, <1>4 DEF AqInv, AqTyped
  <2>2. ASSUME NEW d \in AqCoros PROVE AqNotATask(d)'
    <3>1. CASE d = c BY <1>0, <1>1, <1>3, <3>1 DEF AqNotATask, AqTyped
    <3>2. CASE d # c BY <1>0, <1>1, <3>2 DEF AqInv, AqNotATask, AqTyped
    <3> QED BY <3>1, <3>2
  <2> QED BY <2>1, <2>2
<1>7. \A u, v \in AqWorkers : (aqTask[u] = aqTask[v] /\ aqTask[u] # AqNone => u = v)' BY <1>0, <1>2 DEF AqInv, AqTyped
<1>8. AqHolding' = AqHolding
  <2>1. ASSUME NEW v \in AqWorkers PROVE v \in AqHolding' <=> v \in AqHolding
    BY <1>0, <1>1, <1>2, <1>3 DEF AqHolding, AqTyped
  <2> QED BY <2>1 DEF AqHolding
<1>9. /\ \A i \in DOMAIN aqQueue' : aqCoro'[aqQueue'[i]].step = "queued"
      /\ \A i, j \in DOMAIN aqQueue' : aqQueue'[i] = aqQueue'[j] => i = j
  <2>1. ASSUME NEW i \in DOMAIN aqQueue', NEW j \in DOMAIN aqQueue', aqQueue'[i] = aqQueue'[j] PROVE i = j
    <3>1. i + 1 = j + 1 BY <1>1, <2>1 DEF AqInv
    <3> QED BY <1>1, <3>1
  <2>2. ASSUME NEW i \in DOMAIN aqQueue' PROVE aqCoro'[aqQueue'[i]].step = "queued"
    <3>1. aqQueue[i + 1] # c
      <4>1. i + 1 # 1 BY <1>1
      <4> QED BY <1>1, <4>1 DEF AqInv
    <3>2. aqQueue[i + 1] \in AqCoros /\ aqCoro[aqQueue[i + 1]].step = "queued" BY <1>0, <1>1 DEF AqInv, AqTyped
    <3> QED BY <1>0, <1>1, <3>1, <3>2 DEF AqTyped
  <2> QED BY <2>1, <2>2
<1> QED BY <1>0, <1>5, <1>6, <1>7, <1>8, <1>9 DEF AqInv

\* A task takes a connection, or gives it back and resumes its coroutine.
LEMMA AqTaskSteps ==
  ASSUME AqInv, NEW w \in AqWorkers, aqTask[w] # AqNone, aqCoro[aqTask[w]].step \in {"task", "holds"},
         NEW r \in AqAwaiters, AqToldTrue(r), r.step \in {"runs", "holds"},
         AqSet(aqTask[w], r), UNCHANGED <<aqQueue, aqTask>>,
         aqFree' \in Nat,
         \/ r.step = "holds" /\ aqCoro[aqTask[w]].step = "task" /\ aqFree' = aqFree - 1
         \/ r.step = "runs" /\ aqCoro[aqTask[w]].step = "holds" /\ aqFree' = aqFree + 1
  PROVE  AqInv'
<1> USE AqAssumption DEF AqAssumption
<1> DEFINE c == aqTask[w]
<1>0. AqTyped /\ c \in AqCoros /\ aqCoro' = [aqCoro EXCEPT ![c] = r] BY DEF AqInv, AqTyped, AqSet
<1>1. AqTyped' BY <1>0 DEF AqTyped
<1>2. \A d \in AqCoros : AqToldTrue(aqCoro'[d]) /\ AqNotATask(d)'
  <2>1. \A d \in AqCoros : AqToldTrue(aqCoro'[d]) BY <1>0 DEF AqInv, AqTyped
  <2>2. \A d \in AqCoros : AqNotATask(d)' BY <1>0 DEF AqInv, AqNotATask, AqTyped
  <2> QED BY <2>1, <2>2
<1>3. \A u, v \in AqWorkers : (aqTask[u] = aqTask[v] /\ aqTask[u] # AqNone => u = v)' BY <1>0 DEF AqInv
<1>4. /\ \A i \in DOMAIN aqQueue' : aqCoro'[aqQueue'[i]].step = "queued"
      /\ \A i, j \in DOMAIN aqQueue' : aqQueue'[i] = aqQueue'[j] => i = j
  <2>1. \A i \in DOMAIN aqQueue : aqQueue[i] \in AqCoros \ {c} BY <1>0 DEF AqInv, AqTyped
  <2> QED BY <1>0, <2>1 DEF AqInv, AqTyped
<1>5. \A v \in AqWorkers \ {w} : v \in AqHolding' <=> v \in AqHolding
  <2> SUFFICES ASSUME NEW v \in AqWorkers \ {w} PROVE v \in AqHolding' <=> v \in AqHolding OBVIOUS
  <2>1. aqTask[v] # c BY <1>0 DEF AqInv
  <2> QED BY <1>0, <2>1 DEF AqHolding, AqTyped
<1>6. (w \in AqHolding' <=> r.step = "holds") /\ (w \in AqHolding <=> aqCoro[c].step = "holds")
  BY <1>0 DEF AqHolding, AqTyped
<1>7. AqHolding \subseteq AqWorkers /\ AqHolding' \subseteq AqWorkers BY DEF AqHolding
<1>8. IsFiniteSet(AqHolding) /\ Cardinality(AqHolding) \in Nat BY AqCountable, FS_CardinalityType
<1>9. aqFree' + Cardinality(AqHolding') = AqClients
  <2>1. CASE r.step = "holds" /\ aqCoro[c].step = "task" /\ aqFree' = aqFree - 1
    <3>1. AqHolding' = AqHolding \cup {w} /\ w \notin AqHolding BY <1>5, <1>6, <1>7, <2>1
    <3>2. Cardinality(AqHolding') = Cardinality(AqHolding) + 1 BY <1>8, <3>1, FS_AddElement
    <3> QED BY <1>0, <1>8, <2>1, <3>2 DEF AqInv, AqTyped
  <2>2. CASE r.step = "runs" /\ aqCoro[c].step = "holds" /\ aqFree' = aqFree + 1
    <3>1. AqHolding' = AqHolding \ {w} /\ w \in AqHolding BY <1>5, <1>6, <1>7, <2>2
    <3>2. Cardinality(AqHolding') = Cardinality(AqHolding) - 1 BY <1>8, <3>1, FS_RemoveElement
    <3> QED BY <1>0, <1>8, <2>2, <3>2 DEF AqInv, AqTyped
  <2> QED BY <2>1, <2>2
<1> QED BY <1>1, <1>2, <1>3, <1>4, <1>9 DEF AqInv

LEMMA AqPops == ASSUME AqInv, NEW w \in AqWorkers, mongoc_client_pool_pop(w) PROVE AqInv'
<1> DEFINE c == aqTask[w]
           r == [aqCoro[c] EXCEPT !.step = "holds"]
<1>0. /\ AqTyped /\ c # AqNone /\ aqCoro[c].step = "task" /\ aqFree > 0 /\ aqFree' = aqFree - 1
      /\ AqSet(c, r) /\ UNCHANGED <<aqQueue, aqTask>> BY DEF AqInv, mongoc_client_pool_pop
<1>1. c \in AqCoros /\ aqCoro[c] \in AqAwaiters /\ AqToldTrue(aqCoro[c]) BY <1>0 DEF AqInv, AqTyped
<1>2. r \in AqAwaiters /\ r.step = "holds" /\ r.left = aqCoro[c].left /\ r.resumed = aqCoro[c].resumed
  BY <1>1 DEF AqAwaiters, AqSteps
<1> HIDE DEF r
<1>3. AqToldTrue(r) BY <1>0, <1>1, <1>2 DEF AqToldTrue
<1>4. aqFree' \in Nat BY <1>0 DEF AqTyped
<1> QED BY <1>0, <1>2, <1>3, <1>4, AqTaskSteps

LEMMA AqMongoEnds == ASSUME AqInv, NEW w \in AqWorkers, AqMongo(w) PROVE AqInv'
<1> DEFINE c == aqTask[w]
<1>0. /\ AqTyped /\ c # AqNone /\ aqCoro[c].step = "holds" /\ aqFree' = aqFree + 1
      /\ UNCHANGED <<aqQueue, aqTask>> BY DEF AqInv, AqMongo
<1>1. c \in AqCoros /\ AqToldTrue(aqCoro[c]) BY <1>0 DEF AqInv, AqTyped
<1>4. aqFree' \in Nat BY <1>0 DEF AqTyped
<1>2. PICK truth \in {"bad json", "error", "done"} : AqResume(c, truth, IF truth = "done" THEN "done" ELSE "error")
  BY DEF AqMongo
<1>3. \E r \in AqAwaiters : AqToldTrue(r) /\ r.step = "runs" /\ AqSet(c, r)
  <2> DEFINE told == IF truth = "done" THEN "done" ELSE "error"
  <2>1. truth \in AqWords /\ told \in AqWords /\ AqSays(truth, told) BY DEF AqWords, AqSays
  <2>2. AqResume(c, truth, told) BY <1>2
  <2> HIDE DEF told
  <2> QED BY <1>0, <1>1, <2>1, <2>2, AqResumed
<1> QED BY <1>0, <1>3, <1>4, AqTaskSteps

LEMMA AqStep == AqInv /\ [AqNext]_aqVars => AqInv'
<1> SUFFICES ASSUME AqInv, [AqNext]_aqVars PROVE AqInv' OBVIOUS
<1>1. CASE UNCHANGED aqVars
  <2>1. AqHolding' = AqHolding BY <1>1 DEF aqVars, AqHolding
  <2> QED BY <1>1, <2>1 DEF aqVars, AqInv, AqTyped, AqNotATask
<1>2. CASE AqNext BY <1>2, AqAwaits, AqReturns, AqMysql, AqTakes, AqPops, AqMongoEnds DEF AqNext, AqAsked
<1> QED BY <1>1, <1>2

----
\* Migrations: an instance whose session is up and that is past the lock has
\* it, so that what it read of orbit_migrations is still so: the file between
\* its BEGIN and COMMIT is the one after the last applied.

MgSteps == {"lock", "queued", "read", "next", "sql", "track", "rollback", "commit", "unlock", "abandoned", "done"}
MgHolding == {"read", "next", "sql", "track", "rollback", "commit", "unlock", "abandoned"}
MgWithin == {"sql", "track", "rollback", "commit", "abandoned"}
MgReads == {"next", "sql", "track", "commit"}
MgApplies == {"sql", "track", "commit"}
MgTxs == {"none", "open", "ran", "tracked", "error"}
MgResults == {"none", "ok", "error", "timeout"}
MgRecs == [pc : MgSteps, seen : SUBSET Nat, file : Nat, failed : BOOLEAN, result : MgResults, up : BOOLEAN, tx : MgTxs]

\* q holds the lock, as far as it knows.
MgHolds(q) == q.up /\ q.pc \in MgHolding
MgOpen(q) == q.up /\ q.tx # "none" => q.pc \in MgWithin
\* What q has seen, and the last file it looked at, when n files are applied.
MgAhead(q, n, k) == q.pc = "next" => q.file <= n /\ (q.up => q.file = n \/ (q.file = 0 /\ k = n))
MgKnows(q, n) == q.pc \in MgReads => \E k \in 0..n : q.seen = 1..k /\ MgAhead(q, n, k)
MgTurn(q, n) == /\ q.up /\ q.pc \in MgApplies => q.file = n + 1
                /\ q.up /\ q.pc = "commit" => q.tx = "tracked"
MgClaims(q) == (q.pc = "unlock" /\ ~q.failed) \/ q.result = "ok"
MgEarly == {"lock", "read"}
MgFresh(q) == q.pc \in MgEarly => q.file = 0
MgSound(q, n, F) == MgFresh(q) /\ MgOpen(q) /\ MgKnows(q, n) /\ MgTurn(q, n) /\ (MgClaims(q) => F <= n)

MgInv ==
  /\ mgRun \in [MgRunners -> MgRecs] /\ mgEffects \in Seq(Nat)
  /\ mgTracked = 1..Len(mgEffects) /\ \A i \in 1..Len(mgEffects) : mgEffects[i] = i
  /\ \A r \in MgRunners : MgHolds(mgRun[r]) => mgLock = r
  /\ \A r \in MgRunners : MgSound(mgRun[r], Len(mgEffects), MgFiles[r])

LEMMA MgBegins == MgNew \in MgRecs /\ ~MgHolds(MgNew) /\ \A n \in Nat, F \in Nat : MgSound(MgNew, n, F)
<1>1. MgNew \in MgRecs
  <2>1. "lock" \in MgSteps /\ "none" \in MgResults /\ "none" \in MgTxs BY DEF MgSteps, MgResults, MgTxs
  <2> QED BY <2>1 DEF MgRecs, MgNew
<1>2. ~MgHolds(MgNew) /\ \A n \in Nat, F \in Nat : MgSound(MgNew, n, F)
  <2>1. ~MgHolds(MgNew) BY DEF MgHolds, MgNew, MgHolding
  <2>3. MgFresh(MgNew) BY DEF MgFresh, MgNew
  <2>2. MgNew.pc \notin MgReads /\ MgNew.pc \notin MgApplies /\ MgNew.pc # "commit" /\ ~MgClaims(MgNew) /\ MgOpen(MgNew)
    BY DEF MgNew, MgReads, MgApplies, MgClaims, MgOpen
  <2> QED BY <2>1, <2>2, <2>3 DEF MgSound, MgKnows, MgTurn
<1> QED BY <1>1, <1>2

LEMMA MgStarted == MgInit => MgInv
<1> SUFFICES ASSUME MgInit PROVE MgInv OBVIOUS
<1>3. mgEffects \in Seq(Nat) /\ Len(mgEffects) = 0 /\ mgTracked = 1..Len(mgEffects) BY DEF MgInit
<1>4. mgRun = [r \in MgRunners |-> MgNew] BY DEF MgInit
<1>5. \A r \in MgRunners : MgFiles[r] \in Nat BY MgAssumption DEF MgAssumption
<1>6. \A r \in MgRunners : MgSound(mgRun[r], Len(mgEffects), MgFiles[r]) BY MgBegins, <1>3, <1>4, <1>5
<1> QED BY MgBegins, <1>3, <1>4, <1>6 DEF MgInv

LEMMA MgIsOnce == MgInv => MigrationsOnce
<1> SUFFICES ASSUME MgInv PROVE MigrationsOnce OBVIOUS
<1> DEFINE n == Len(mgEffects)
<1>1. DOMAIN mgEffects = 1..n /\ n \in Nat /\ mgTracked = 1..n /\ \A i \in 1..n : mgEffects[i] = i BY DEF MgInv
<1>2. mgTracked = {mgEffects[i] : i \in DOMAIN mgEffects} BY <1>1
<1>3. ASSUME NEW r \in MgRunners, mgRun[r].result = "ok" PROVE 1..MgFiles[r] \subseteq mgTracked
  <2>1. MgFiles[r] <= n BY <1>3 DEF MgInv, MgSound, MgClaims
  <2>2. MgFiles[r] \in Nat BY MgAssumption DEF MgAssumption
  <2> QED BY <1>1, <2>1, <2>2
<1>4. ASSUME NEW r \in MgRunners, mgRun[r].tx # "none", mgRun[r].up PROVE mgLock = r
  <2>1. mgRun[r].pc \in MgWithin BY <1>4 DEF MgInv, MgSound, MgOpen
  <2> QED BY <1>4, <2>1 DEF MgInv, MgHolds, MgWithin, MgHolding
<1> QED BY <1>1, <1>2, <1>3, <1>4 DEF MigrationsOnce

\* An instance that does not have the lock is not disturbed by files applied.
LEMMA MgLater ==
  ASSUME NEW q \in MgRecs, NEW n \in Nat, NEW F \in Nat, MgSound(q, n, F), ~MgHolds(q)
  PROVE  MgSound(q, n + 1, F)
<1>1. MgFresh(q) /\ MgOpen(q) BY DEF MgSound
<1>2. q.up => q.pc \notin MgReads /\ q.pc \notin MgApplies /\ q.pc # "commit"
  BY DEF MgHolds, MgHolding, MgReads, MgApplies
<1>3. MgTurn(q, n + 1) BY <1>2 DEF MgTurn
<1>4. MgKnows(q, n + 1)
  <2> SUFFICES ASSUME q.pc \in MgReads PROVE \E k \in 0..(n + 1) : q.seen = 1..k /\ MgAhead(q, n + 1, k)
    BY DEF MgKnows
  <2>1. PICK k \in 0..n : q.seen = 1..k /\ MgAhead(q, n, k) BY DEF MgSound, MgKnows
  <2>2. ~q.up /\ q.file \in Nat BY <1>2 DEF MgRecs
  <2>3. MgAhead(q, n + 1, k) BY <2>1, <2>2 DEF MgAhead
  <2>4. k \in 0..(n + 1) OBVIOUS
  <2> QED BY <2>1, <2>3, <2>4
<1>5. MgClaims(q) => F <= n + 1 BY DEF MgSound
<1> QED BY <1>1, <1>3, <1>4, <1>5 DEF MgSound

\* A step of one instance that applies no file.
LEMMA MgMoves ==
  ASSUME MgInv, NEW r \in MgRunners, NEW q \in MgRecs, MgSet(r, q), MgRows,
         mgLock' = mgLock \/ mgLock = r \/ mgLock = MgNobody,
         MgHolds(q) => mgLock' = r,
         MgSound(q, Len(mgEffects), MgFiles[r])
  PROVE  MgInv'
<1>1. /\ mgRun \in [MgRunners -> MgRecs] /\ mgRun' = [mgRun EXCEPT ![r] = q]
      /\ mgEffects' = mgEffects /\ mgTracked' = mgTracked BY DEF MgInv, MgSet, MgRows
<1>2. \A s \in MgRunners : s # MgNobody BY MgAssumption DEF MgAssumption
<1>3. \A s \in MgRunners : MgHolds(mgRun'[s]) => mgLock' = s BY <1>1, <1>2 DEF MgInv
<1>4. \A s \in MgRunners : MgSound(mgRun'[s], Len(mgEffects), MgFiles[s]) BY <1>1 DEF MgInv
<1> QED BY <1>1, <1>3, <1>4 DEF MgInv

\* A transaction that reaches the server: the file after the last one.
LEMMA MgAppliesOne ==
  ASSUME MgInv, NEW r \in MgRunners, MgHolds(mgRun[r]), mgRun[r].pc = "commit",
         NEW q \in MgRecs, MgSet(r, q),
         mgTracked' = mgTracked \cup {mgRun[r].file}, mgEffects' = Append(mgEffects, mgRun[r].file),
         mgLock' = mgLock \/ mgLock = r, MgHolds(q) => mgLock' = r,
         MgSound(q, Len(mgEffects) + 1, MgFiles[r])
  PROVE  MgInv'
<1> DEFINE n == Len(mgEffects)
<1>1. /\ mgRun \in [MgRunners -> MgRecs] /\ mgRun' = [mgRun EXCEPT ![r] = q] /\ mgEffects \in Seq(Nat) /\ n \in Nat
      /\ mgTracked = 1..n /\ \A i \in 1..n : mgEffects[i] = i BY DEF MgInv, MgSet
<1>2. mgLock = r BY DEF MgInv
<1>3. mgRun[r].file = n + 1
  <2>1. MgTurn(mgRun[r], n) /\ mgRun[r].up /\ mgRun[r].pc \in MgApplies BY DEF MgInv, MgSound, MgHolds, MgApplies
  <2> QED BY <2>1 DEF MgTurn
<1>4. mgEffects' \in Seq(Nat) /\ Len(mgEffects') = n + 1 /\ \A i \in 1..(n + 1) : mgEffects'[i] = i BY <1>1, <1>3
<1>5. mgTracked' = 1..(n + 1) BY <1>1, <1>3
<1>6. \A s \in MgRunners : MgHolds(mgRun'[s]) => mgLock' = s BY <1>1, <1>2 DEF MgInv
<1>7. ASSUME NEW s \in MgRunners PROVE MgSound(mgRun'[s], n + 1, MgFiles[s])
  <2>1. CASE s = r BY <1>1, <2>1
  <2>2. CASE s # r
    <3>1. mgRun'[s] = mgRun[s] /\ mgRun[s] \in MgRecs /\ ~MgHolds(mgRun[s]) /\ MgSound(mgRun[s], n, MgFiles[s])
      BY <1>1, <1>2, <2>2 DEF MgInv
    <3>2. MgFiles[s] \in Nat BY MgAssumption DEF MgAssumption
    <3> QED BY <1>1, <3>1, <3>2, MgLater
  <2> QED BY <2>1, <2>2
<1> QED BY <1>1, <1>4, <1>5, <1>6, <1>7 DEF MgInv

LEMMA MgGround ==
  ASSUME MgInv, NEW r \in MgRunners
  PROVE  /\ mgRun[r] \in MgRecs /\ MgSound(mgRun[r], Len(mgEffects), MgFiles[r])
         /\ MgHolds(mgRun[r]) => mgLock = r
         /\ Len(mgEffects) \in Nat /\ MgFiles[r] \in Nat /\ mgTracked = 1..Len(mgEffects)
BY MgAssumption DEF MgInv, MgAssumption

\* An instance that reads nothing.
LEMMA MgAside ==
  ASSUME NEW q, NEW n, NEW F, q.pc \notin MgReads, MgFresh(q), MgOpen(q), MgClaims(q) => F <= n
  PROVE  MgSound(q, n, F)
<1>1. q.pc \notin MgApplies /\ q.pc # "commit" BY DEF MgReads, MgApplies
<1> QED BY <1>1 DEF MgSound, MgKnows, MgTurn

LEMMA MgTakesLock == ASSUME MgInv, NEW r \in MgRunners, MgTakeLock(r) PROVE MgInv'
<1> DEFINE p == mgRun[r]
<1>0. p \in MgRecs /\ MgSound(p, Len(mgEffects), MgFiles[r]) /\ p.pc = "lock" /\ MgRows
  BY MgGround DEF MgTakeLock, MgAt
<1>1. CASE p.up /\ mgLock = MgNobody /\ mgLock' = r /\ MgSet(r, [p EXCEPT !.pc = "read"])
  <2> DEFINE q == [p EXCEPT !.pc = "read"]
  <2>1. /\ q \in MgRecs /\ q.pc = "read" /\ q.up = p.up /\ q.tx = p.tx /\ q.failed = p.failed /\ q.result = p.result
        /\ q.file = p.file BY <1>0 DEF MgRecs, MgSteps
  <2>2. MgSet(r, q) BY <1>1
  <2> HIDE DEF q
  <2>3. q.pc \notin MgReads /\ MgOpen(q) /\ MgFresh(q)
    BY <1>0, <2>1 DEF MgReads, MgOpen, MgSound, MgWithin, MgFresh, MgEarly
  <2>4. MgClaims(q) => MgFiles[r] <= Len(mgEffects) BY <1>0, <2>1 DEF MgSound, MgClaims
  <2>5. MgSound(q, Len(mgEffects), MgFiles[r]) BY <2>3, <2>4, MgAside
  <2> QED BY <1>0, <1>1, <2>1, <2>2, <2>5, MgMoves
<1>2. CASE ~p.up /\ MgSet(r, [p EXCEPT !.pc = "done", !.result = "error"]) /\ UNCHANGED mgLock
  <2> DEFINE q == [p EXCEPT !.pc = "done", !.result = "error"]
  <2>1. q \in MgRecs /\ q.pc = "done" /\ q.up = p.up /\ q.tx = p.tx /\ q.result = "error"
    BY <1>0 DEF MgRecs, MgSteps, MgResults
  <2>2. MgSet(r, q) BY <1>2
  <2> HIDE DEF q
  <2>3. q.pc \notin MgReads /\ MgFresh(q) /\ MgOpen(q) /\ ~MgClaims(q) /\ ~MgHolds(q)
    BY <1>2, <2>1 DEF MgReads, MgOpen, MgClaims, MgHolds, MgFresh, MgEarly
  <2>5. MgSound(q, Len(mgEffects), MgFiles[r]) BY <2>3, MgAside
  <2> QED BY <1>0, <1>2, <2>1, <2>2, <2>3, <2>5, MgMoves
<1> QED BY <1>1, <1>2 DEF MgTakeLock

\* A step that ends the run of an instance early.
LEMMA MgStopsShort ==
  ASSUME MgInv, NEW r \in MgRunners, NEW q \in MgRecs, MgSet(r, q), MgRows, UNCHANGED mgLock,
         q.pc \in {"unlock", "rollback", "queued", "abandoned"}, q.pc = "unlock" => q.failed,
         q.result = mgRun[r].result \/ q.result = "timeout",
         q.up = mgRun[r].up, q.up /\ q.tx # "none" => q.pc \in MgWithin,
         MgHolds(mgRun[r]) \/ q.pc = "queued" \/ ~q.up
  PROVE  MgInv'
<1>1. MgSound(mgRun[r], Len(mgEffects), MgFiles[r]) /\ (MgHolds(mgRun[r]) => mgLock = r) BY MgGround
<1>2. q.pc \notin MgReads /\ MgFresh(q) /\ MgOpen(q) BY DEF MgReads, MgFresh, MgEarly, MgOpen
<1>3. MgClaims(q) => MgClaims(mgRun[r]) BY DEF MgClaims
<1>4. MgSound(q, Len(mgEffects), MgFiles[r]) BY <1>1, <1>2, <1>3, MgAside DEF MgSound
<1>5. MgHolds(q) => mgLock' = r BY <1>1 DEF MgHolds, MgHolding
<1> QED BY <1>4, <1>5, MgMoves

LEMMA MgReadsRows == ASSUME MgInv, NEW r \in MgRunners, MgRead(r) PROVE MgInv'
<1> DEFINE p == mgRun[r]
           n == Len(mgEffects)
<1>0. /\ p \in MgRecs /\ MgSound(p, n, MgFiles[r]) /\ p.pc = "read" /\ MgRows /\ mgLock' = mgLock
      /\ (MgHolds(p) => mgLock = r) /\ n \in Nat /\ mgTracked = 1..n BY MgGround DEF MgRead, MgAt, MgQuiet, MgRows
<1>1. CASE p.up
  <2> DEFINE q == [p EXCEPT !.pc = "next", !.seen = mgTracked]
  <2>0. 1..n \subseteq Nat BY <1>0
  <2>1. /\ q \in MgRecs /\ q.pc = "next" /\ q.seen = 1..n /\ q.up = p.up /\ q.tx = p.tx /\ q.file = p.file
        /\ q.failed = p.failed /\ q.result = p.result BY <1>0, <2>0 DEF MgRecs, MgSteps
  <2>2. MgSet(r, q) BY <1>1 DEF MgRead
  <2> HIDE DEF q, n
  <2>3. q.file = 0 BY <1>0, <2>1 DEF MgSound, MgFresh, MgEarly
  <2>4. MgOpen(q) /\ MgFresh(q) /\ q.pc \notin MgApplies /\ q.pc # "commit" /\ mgLock = r
    BY <1>0, <1>1, <2>1 DEF MgSound, MgOpen, MgWithin, MgFresh, MgEarly, MgApplies, MgHolds, MgHolding
  <2>5. MgClaims(q) => MgFiles[r] <= n BY <1>0, <2>1 DEF MgSound, MgClaims
  <2>6. MgAhead(q, n, n) /\ n \in 0..n BY <1>0, <2>3 DEF MgAhead
  <2>7. MgKnows(q, n) BY <2>1, <2>6 DEF MgKnows
  <2>8. MgSound(q, n, MgFiles[r]) BY <2>4, <2>5, <2>7 DEF MgSound, MgTurn
  <2> QED BY <1>0, <2>1, <2>2, <2>4, <2>8, MgMoves DEF n
<1>2. CASE ~p.up
  <2> DEFINE q == [p EXCEPT !.pc = "unlock", !.failed = TRUE]
  <2>1. q \in MgRecs /\ q.pc = "unlock" /\ q.failed /\ q.result = p.result /\ q.up = p.up BY <1>0 DEF MgRecs, MgSteps
  <2>2. MgSet(r, q) BY <1>2 DEF MgRead
  <2> HIDE DEF q
  <2> QED BY <1>0, <1>2, <2>1, <2>2, MgStopsShort
<1> QED BY <1>1, <1>2

\* The statements of a file, or its row, go in.
LEMMA MgWrites ==
  ASSUME MgInv, NEW r \in MgRunners, MgAt(r, "sql") \/ MgAt(r, "track"), MgRows, UNCHANGED mgLock, mgRun[r].up,
         NEW q \in MgRecs, MgSet(r, q), q.seen = mgRun[r].seen, q.up, q.file = mgRun[r].file, q.result = mgRun[r].result,
         q.pc = "track" \/ (q.pc = "commit" /\ q.tx = "tracked")
  PROVE  MgInv'
<1> DEFINE p == mgRun[r]
           n == Len(mgEffects)
<1>g. /\ p \in MgRecs /\ MgSound(p, n, MgFiles[r]) /\ (MgHolds(p) => mgLock = r) /\ n \in Nat /\ p.pc \in {"sql", "track"}
  BY MgGround DEF MgAt
<1> HIDE DEF n
<1>4. /\ MgOpen(q) /\ MgFresh(q) /\ mgLock = r /\ p.pc \in MgApplies /\ p.pc \in MgReads /\ q.pc # "next"
      /\ q.pc = "commit" => q.tx = "tracked"
  BY <1>g DEF MgOpen, MgWithin, MgFresh, MgEarly, MgApplies, MgReads, MgHolds, MgHolding
<1>5. MgClaims(q) => MgFiles[r] <= n BY <1>g DEF MgSound, MgClaims
<1>6. MgTurn(q, n) BY <1>g, <1>4 DEF MgSound, MgTurn
<1>7. MgKnows(q, n) BY <1>g, <1>4 DEF MgSound, MgKnows, MgAhead
<1>8. MgSound(q, n, MgFiles[r]) BY <1>4, <1>5, <1>6, <1>7 DEF MgSound
<1> QED BY <1>g, <1>4, <1>8, MgMoves DEF n

LEMMA MgRunsSql == ASSUME MgInv, NEW r \in MgRunners, MgSql(r) \/ MgTrack(r) PROVE MgInv'
<1> DEFINE p == mgRun[r]
           n == Len(mgEffects)
<1>0. /\ p \in MgRecs /\ MgSound(p, n, MgFiles[r]) /\ MgRows /\ mgLock' = mgLock
      /\ (MgHolds(p) => mgLock = r) /\ n \in Nat /\ p.pc \in {"sql", "track"}
  BY MgGround DEF MgSql, MgTrack, MgAt, MgQuiet, MgRows
<1>2. ASSUME MgSet(r, [p EXCEPT !.pc = "rollback", !.tx = "error"])
      PROVE  MgInv'
  <2> DEFINE q == [p EXCEPT !.pc = "rollback", !.tx = "error"]
  <2>1. q \in MgRecs /\ q.pc = "rollback" /\ q.result = p.result /\ q.up = p.up /\ q.pc \in MgWithin
    BY <1>0 DEF MgRecs, MgSteps, MgTxs, MgWithin
  <2>2. MgSet(r, q) BY <1>2
  <2> HIDE DEF q
  <2>3. MgHolds(p) \/ ~q.up BY <1>0, <2>1 DEF MgHolds, MgHolding
  <2> QED BY <1>0, <2>1, <2>2, <2>3, MgStopsShort
<1>3. CASE MgSql(r)
  <2>1. \/ p.up /\ MgSet(r, [p EXCEPT !.pc = "track", !.tx = "ran"])
        \/ MgSet(r, [p EXCEPT !.pc = "rollback", !.tx = "error"]) BY <1>3 DEF MgSql
  <2>2. CASE p.up /\ MgSet(r, [p EXCEPT !.pc = "track", !.tx = "ran"])
    <3> DEFINE q == [p EXCEPT !.pc = "track", !.tx = "ran"]
    <3>1. q \in MgRecs /\ q.pc = "track" /\ q.seen = p.seen /\ q.up /\ q.file = p.file /\ q.result = p.result
      BY <1>0, <2>2 DEF MgRecs, MgSteps, MgTxs
    <3>2. MgSet(r, q) /\ MgAt(r, "sql") BY <1>3, <2>2 DEF MgSql
    <3> HIDE DEF q
    <3> QED BY <1>0, <2>2, <3>1, <3>2, MgWrites
  <2> QED BY <1>2, <2>1, <2>2
<1>4. CASE MgTrack(r)
  <2>1. \/ p.up /\ MgSet(r, [p EXCEPT !.pc = "commit", !.tx = "tracked"])
        \/ MgSet(r, [p EXCEPT !.pc = "rollback", !.tx = "error"]) BY <1>4 DEF MgTrack
  <2>2. CASE p.up /\ MgSet(r, [p EXCEPT !.pc = "commit", !.tx = "tracked"])
    <3> DEFINE q == [p EXCEPT !.pc = "commit", !.tx = "tracked"]
    <3>1. /\ q \in MgRecs /\ q.pc = "commit" /\ q.tx = "tracked" /\ q.seen = p.seen /\ q.up /\ q.file = p.file
          /\ q.result = p.result BY <1>0, <2>2 DEF MgRecs, MgSteps, MgTxs
    <3>2. MgSet(r, q) /\ MgAt(r, "track") BY <1>4, <2>2 DEF MgTrack
    <3> HIDE DEF q
    <3> QED BY <1>0, <2>2, <3>1, <3>2, MgWrites
  <2> QED BY <1>2, <2>1, <2>2
<1> QED BY <1>3, <1>4

LEMMA MgRollsBack == ASSUME MgInv, NEW r \in MgRunners, MgRollback(r) PROVE MgInv'
<1> DEFINE p == mgRun[r]
           q == [p EXCEPT !.pc = "unlock", !.failed = TRUE, !.tx = "none"]
<1>0. p \in MgRecs /\ p.pc = "rollback" /\ MgRows /\ mgLock' = mgLock /\ MgSet(r, q)
  BY MgGround DEF MgRollback, MgAt, MgQuiet, MgRows
<1>1. q \in MgRecs /\ q.pc = "unlock" /\ q.failed /\ q.result = p.result /\ q.up = p.up /\ q.tx = "none"
  BY <1>0 DEF MgRecs, MgSteps, MgTxs
<1> HIDE DEF q
<1>2. MgHolds(p) \/ ~q.up BY <1>0, <1>1 DEF MgHolds, MgHolding
<1> QED BY <1>0, <1>1, <1>2, MgStopsShort

LEMMA MgFindsNext == ASSUME MgInv, NEW r \in MgRunners, MgNextFile(r) PROVE MgInv'
<1> DEFINE p == mgRun[r]
           n == Len(mgEffects)
           F == MgFiles[r]
           left == {f \in (p.file + 1)..F : f \notin p.seen}
           next == CHOOSE f \in left : \A g \in left : f <= g
<1>0. /\ p \in MgRecs /\ MgSound(p, n, F) /\ p.pc = "next" /\ MgRows /\ mgLock' = mgLock
      /\ (MgHolds(p) => mgLock = r) /\ n \in Nat /\ F \in Nat BY MgGround DEF MgNextFile, MgAt, MgQuiet, MgRows
<1>a. p.file \in Nat /\ (p.up => p.tx = "none") /\ p.pc \in MgReads
  BY <1>0 DEF MgRecs, MgSound, MgOpen, MgWithin, MgReads
<1>k. PICK k \in 0..n : p.seen = 1..k /\ MgAhead(p, n, k) BY <1>0, <1>a DEF MgSound, MgKnows
<1>b. p.file <= n /\ (p.up => p.file = n \/ (p.file = 0 /\ k = n)) BY <1>0, <1>k DEF MgAhead
<1>1. CASE left = {}
  <2> DEFINE q == [p EXCEPT !.pc = "unlock"]
  <2>1. q \in MgRecs /\ q.pc = "unlock" /\ q.up = p.up /\ q.tx = p.tx BY <1>0 DEF MgRecs, MgSteps
  <2>2. MgSet(r, q) BY <1>1 DEF MgNextFile
  <2> HIDE DEF q
  <2>3. F <= n
    <3>1. F \in (p.file + 1)..F => F \in 1..k BY <1>0, <1>1, <1>k
    <3> QED BY <1>0, <1>a, <1>b, <3>1
  <2>4. q.pc \notin MgReads /\ MgFresh(q) /\ MgOpen(q) BY <1>a, <2>1 DEF MgReads, MgFresh, MgEarly, MgOpen
  <2>5. MgSound(q, n, F) BY <2>3, <2>4, MgAside
  <2>6. MgHolds(q) => mgLock' = r BY <1>0, <2>1 DEF MgHolds, MgHolding
  <2> QED BY <1>0, <2>1, <2>2, <2>5, <2>6, MgMoves
<1>2. CASE left # {} /\ p.up
  <2> DEFINE q == [p EXCEPT !.file = next, !.pc = "sql", !.failed = FALSE, !.tx = "open"]
  <2>0. next = n + 1
    <3>1. \A f \in left : f >= n + 1 /\ f <= F BY <1>0, <1>2, <1>a, <1>b, <1>k
    <3>2. n + 1 \in left BY <1>0, <1>2, <1>a, <1>b, <1>k, <3>1
    <3>3. \E f \in left : \A g \in left : f <= g BY <3>1, <3>2
    <3>4. next \in left /\ \A g \in left : next <= g BY <3>3
    <3> HIDE DEF next
    <3>5. next <= n + 1 /\ next >= n + 1 /\ next \in Int BY <1>0, <1>a, <3>1, <3>2, <3>4
    <3> QED BY <1>0, <3>5
  <2>s. MgSet(r, q) BY <1>2 DEF MgNextFile
  <2> HIDE DEF next
  <2>t. next \in Nat BY <1>0, <2>0
  <2>1. /\ q \in MgRecs /\ q.pc = "sql" /\ q.seen = p.seen /\ q.up = p.up /\ q.tx = "open" /\ q.file = next
        /\ q.result = p.result BY <1>0, <2>t DEF MgRecs, MgSteps, MgTxs
  <2> HIDE DEF q, n, F, left
  <2>4. /\ MgOpen(q) /\ MgFresh(q) /\ mgLock = r /\ q.pc # "next" /\ q.pc # "commit"
    BY <1>0, <1>2, <2>1 DEF MgOpen, MgWithin, MgFresh, MgEarly, MgHolds, MgHolding
  <2>5. MgClaims(q) => F <= n BY <1>0, <2>1 DEF MgSound, MgClaims
  <2>6. MgTurn(q, n) BY <2>0, <2>1, <2>4 DEF MgTurn
  <2>7. MgKnows(q, n) BY <1>k, <2>1, <2>4 DEF MgKnows, MgAhead
  <2>8. MgSound(q, n, F) BY <2>4, <2>5, <2>6, <2>7 DEF MgSound
  <2> QED BY <1>0, <2>1, <2>s, <2>4, <2>8, MgMoves DEF n, F
<1>3. CASE left # {} /\ ~p.up
  <2> DEFINE q == [p EXCEPT !.file = next, !.pc = "unlock", !.failed = TRUE, !.tx = "none"]
  <2>0. next \in Nat
    <3>1. \A f \in left : f \in Nat BY <1>0, <1>a
    <3>2. PICK g \in left : TRUE BY <1>3
    <3> DEFINE m == IF p.file >= k THEN p.file + 1 ELSE k + 1
    <3>4. m \in left /\ \A h \in left : m <= h BY <1>0, <1>a, <1>k, <3>2
    <3>3. \E f \in left : \A h \in left : f <= h BY <3>4
    <3> QED BY <3>1, <3>3
  <2>s. MgSet(r, q) BY <1>3 DEF MgNextFile
  <2> HIDE DEF next
  <2>1. q \in MgRecs /\ q.pc = "unlock" /\ q.failed /\ q.result = p.result /\ q.up = p.up
    BY <1>0, <2>0 DEF MgRecs, MgSteps, MgTxs
  <2> HIDE DEF q
  <2> QED BY <1>0, <1>3, <2>1, <2>s, MgStopsShort
<1> QED BY <1>1, <1>2, <1>3

LEMMA MgCommits == ASSUME MgInv, NEW r \in MgRunners, MgCommit(r) PROVE MgInv'
<1> DEFINE p == mgRun[r]
           n == Len(mgEffects)
           F == MgFiles[r]
<1>0. /\ p \in MgRecs /\ MgSound(p, n, F) /\ p.pc = "commit" /\ mgLock' = mgLock
      /\ (MgHolds(p) => mgLock = r) /\ n \in Nat /\ F \in Nat BY MgGround DEF MgCommit, MgAt
<1>1. CASE p.up
  <2> DEFINE q == [p EXCEPT !.pc = "next", !.tx = "none"]
  <2>0. MgHolds(p) /\ p.pc \in MgApplies /\ p.pc \in MgReads BY <1>0, <1>1 DEF MgHolds, MgHolding, MgApplies, MgReads
  <2>1. /\ q \in MgRecs /\ q.pc = "next" /\ q.seen = p.seen /\ q.up /\ q.tx = "none" /\ q.file = p.file
        /\ q.result = p.result BY <1>0, <1>1 DEF MgRecs, MgSteps, MgTxs
  <2>2. MgSet(r, q) BY <1>1 DEF MgCommit
  <2> HIDE DEF q
  <2>3. p.tx = "tracked" /\ p.file = n + 1 BY <1>0, <1>1, <2>0 DEF MgSound, MgTurn
  <2>4. mgTracked' = mgTracked \cup {p.file} /\ mgEffects' = Append(mgEffects, p.file) BY <1>1, <2>3 DEF MgCommit
  <2>k. PICK k \in 0..n : p.seen = 1..k BY <1>0, <2>0 DEF MgSound, MgKnows
  <2>5. MgAhead(q, n + 1, k) /\ k \in 0..(n + 1) BY <1>0, <2>1, <2>3 DEF MgAhead
  <2>6. MgKnows(q, n + 1) BY <2>1, <2>k, <2>5 DEF MgKnows
  <2>7. MgFresh(q) /\ MgOpen(q) /\ q.pc \notin MgApplies /\ q.pc # "commit"
    BY <2>1 DEF MgFresh, MgEarly, MgOpen, MgApplies
  <2>8. MgClaims(q) => F <= n + 1
    <3>1. MgClaims(q) => MgClaims(p) BY <2>1 DEF MgClaims
    <3> QED BY <1>0, <3>1 DEF MgSound
  <2>9. MgSound(q, n + 1, F) BY <2>6, <2>7, <2>8 DEF MgSound, MgTurn
  <2> QED BY <1>0, <2>0, <2>1, <2>2, <2>4, <2>9, MgAppliesOne
<1>2. CASE ~p.up
  <2> DEFINE q == [p EXCEPT !.pc = "unlock", !.failed = TRUE, !.tx = "none"]
  <2>1. q \in MgRecs /\ q.pc = "unlock" /\ q.failed /\ q.result = p.result /\ q.up = p.up
    BY <1>0 DEF MgRecs, MgSteps, MgTxs
  <2>2. MgSet(r, q) /\ MgRows BY <1>2 DEF MgCommit
  <2> HIDE DEF q
  <2> QED BY <1>0, <1>2, <2>1, <2>2, MgStopsShort
<1> QED BY <1>1, <1>2

LEMMA MgUnlocks == ASSUME MgInv, NEW r \in MgRunners, MgUnlock(r) PROVE MgInv'
<1> DEFINE p == mgRun[r]
           n == Len(mgEffects)
           F == MgFiles[r]
           out == IF p.result # "none" THEN p.result ELSE IF p.failed THEN "error" ELSE "ok"
           q == [p EXCEPT !.pc = "done", !.result = out]
<1>0. /\ p \in MgRecs /\ MgSound(p, n, F) /\ p.pc = "unlock" /\ MgRows
      /\ (MgHolds(p) => mgLock = r) /\ mgLock' = (IF mgLock = r /\ p.up THEN MgNobody ELSE mgLock) /\ MgSet(r, q)
  BY MgGround DEF MgUnlock, MgAt
<1>1. out \in MgResults /\ (out = "ok" => p.result = "ok" \/ ~p.failed) BY <1>0 DEF MgRecs, MgResults
<1> HIDE DEF out
<1>2. q \in MgRecs /\ q.pc = "done" /\ q.up = p.up /\ q.tx = p.tx /\ q.result = out BY <1>0, <1>1 DEF MgRecs, MgSteps
<1> HIDE DEF q
<1>3. q.pc \notin MgReads /\ MgFresh(q) /\ MgOpen(q) /\ ~MgHolds(q)
  BY <1>0, <1>2 DEF MgReads, MgFresh, MgEarly, MgOpen, MgWithin, MgSound, MgHolds, MgHolding
<1>4. MgClaims(q) => MgClaims(p) BY <1>0, <1>1, <1>2 DEF MgClaims
<1>5. MgSound(q, n, F) BY <1>0, <1>3, <1>4, MgAside DEF MgSound
<1> QED BY <1>0, <1>2, <1>3, <1>5, MgMoves

LEMMA MgLoses == ASSUME MgInv, NEW r \in MgRunners, MgLose(r) PROVE MgInv'
<1> DEFINE p == mgRun[r]
           n == Len(mgEffects)
           F == MgFiles[r]
<1>0. /\ p \in MgRecs /\ MgSound(p, n, F) /\ p.up
      /\ (MgHolds(p) => mgLock = r) /\ mgLock' = (IF mgLock = r THEN MgNobody ELSE mgLock)
      /\ n \in Nat /\ F \in Nat BY MgGround DEF MgLose
<1>1. \E q \in MgRecs : MgSet(r, q) /\ ~MgHolds(q) /\ MgSound(q, n, F)
  <2>1. CASE MgSet(r, [p EXCEPT !.up = FALSE, !.tx = "none"])
    <3> DEFINE q == [p EXCEPT !.up = FALSE, !.tx = "none"]
    <3>1. /\ q \in MgRecs /\ q.pc = p.pc /\ q.seen = p.seen /\ ~q.up /\ q.file = p.file /\ q.failed = p.failed
          /\ q.result = p.result BY <1>0 DEF MgRecs, MgTxs
    <3>2. MgSet(r, q) BY <2>1
    <3> HIDE DEF q, n, F
    <3>3. ~MgHolds(q) /\ MgFresh(q) /\ MgOpen(q) /\ MgTurn(q, n)
      BY <1>0, <3>1 DEF MgHolds, MgSound, MgFresh, MgOpen, MgTurn
    <3>4. MgClaims(q) => F <= n BY <1>0, <3>1 DEF MgSound, MgClaims
    <3>5. MgKnows(q, n)
      <4> SUFFICES ASSUME q.pc \in MgReads PROVE \E k \in 0..n : q.seen = 1..k /\ MgAhead(q, n, k) BY DEF MgKnows
      <4>1. PICK k \in 0..n : p.seen = 1..k /\ MgAhead(p, n, k) BY <1>0, <3>1 DEF MgSound, MgKnows
      <4>2. MgAhead(q, n, k) BY <3>1, <4>1 DEF MgAhead
      <4> QED BY <3>1, <4>1, <4>2
    <3> QED BY <3>1, <3>2, <3>3, <3>4, <3>5 DEF MgSound
  <2>2. CASE MgSet(r, MgNew) BY <1>0, <2>2, MgBegins
  <2> QED BY <2>1, <2>2 DEF MgLose
<1>2. PICK q \in MgRecs : MgSet(r, q) /\ ~MgHolds(q) /\ MgSound(q, n, F) BY <1>1
<1>3. CASE MgRows BY <1>0, <1>2, <1>3, MgMoves
<1>4. CASE MgAt(r, "commit") /\ mgTracked' = mgTracked \cup {p.file} /\ mgEffects' = Append(mgEffects, p.file)
  <2>1. MgHolds(p) /\ p.pc = "commit" /\ mgLock = r BY <1>0, <1>4 DEF MgHolds, MgHolding, MgAt
  <2>2. MgSound(q, n + 1, F) BY <1>0, <1>2, MgLater
  <2> HIDE DEF n, F
  <2>3. CASE mgLock' = mgLock BY <1>2, <1>4, <2>1, <2>2, <2>3, MgAppliesOne DEF n, F
  <2> QED BY <1>0, <1>2, <1>4, <2>1, <2>2, MgAppliesOne DEF n, F
<1> QED BY <1>3, <1>4 DEF MgLose

LEMMA MgGivesUp == ASSUME MgInv, NEW r \in MgRunners, MgGiveUp(r) PROVE MgInv'
<1> DEFINE p == mgRun[r]
           goes == IF p.pc = "lock" THEN "queued" ELSE "abandoned"
           q == [p EXCEPT !.pc = goes, !.result = "timeout"]
<1>0. /\ p \in MgRecs /\ MgSound(p, Len(mgEffects), MgFiles[r]) /\ MgRows /\ UNCHANGED mgLock /\ MgSet(r, q)
      /\ p.pc \notin {"done", "abandoned", "queued"} BY MgGround DEF MgGiveUp
<1>1. goes \in MgSteps /\ goes \in {"queued", "abandoned"} /\ (goes = "queued" <=> p.pc = "lock") /\ "timeout" \in MgResults
  BY DEF MgSteps, MgResults
<1> HIDE DEF goes
<1>2. q \in MgRecs /\ q.pc = goes /\ q.up = p.up /\ q.tx = p.tx /\ q.result = "timeout" BY <1>0, <1>1 DEF MgRecs
<1> HIDE DEF q
<1>3. MgHolds(p) \/ q.pc = "queued" \/ ~q.up BY <1>0, <1>1, <1>2 DEF MgHolds, MgHolding, MgRecs, MgSteps
<1>4. q.up /\ q.tx # "none" => q.pc \in MgWithin BY <1>0, <1>1, <1>2 DEF MgSound, MgOpen, MgWithin
<1> QED BY <1>0, <1>1, <1>2, <1>3, <1>4, MgStopsShort

LEMMA MgLateLock == ASSUME MgInv, NEW r \in MgRunners, MgGranted(r) \/ MgEnd(r) PROVE MgInv'
<1> DEFINE p == mgRun[r]
<1>0. /\ p \in MgRecs /\ MgSound(p, Len(mgEffects), MgFiles[r]) /\ MgRows /\ (MgHolds(p) => mgLock = r)
      /\ p.pc \in {"queued", "abandoned", "done"} /\ p.up BY MgGround DEF MgGranted, MgEnd, MgAt
<1>1. CASE MgGranted(r)
  <2> DEFINE q == [p EXCEPT !.pc = "abandoned"]
  <2>1. q \in MgRecs /\ q.pc = "abandoned" /\ q.up = p.up /\ q.tx = p.tx /\ q.result = p.result
    BY <1>0 DEF MgRecs, MgSteps
  <2>2. MgSet(r, q) /\ mgLock = MgNobody /\ mgLock' = r BY <1>1 DEF MgGranted
  <2> HIDE DEF q
  <2>3. q.pc \notin MgReads /\ MgFresh(q) /\ MgOpen(q) BY <2>1 DEF MgReads, MgFresh, MgEarly, MgOpen, MgWithin
  <2>4. MgClaims(q) => MgClaims(p) BY <2>1 DEF MgClaims
  <2>5. MgSound(q, Len(mgEffects), MgFiles[r]) BY <1>0, <2>3, <2>4, MgAside DEF MgSound
  <2> QED BY <1>0, <2>1, <2>2, <2>5, MgMoves
<1>2. CASE MgEnd(r)
  <2> DEFINE q == [p EXCEPT !.up = FALSE, !.tx = "none"]
  <2>1. q \in MgRecs /\ q.pc = p.pc /\ ~q.up /\ q.result = p.result BY <1>0 DEF MgRecs, MgTxs
  <2>2. MgSet(r, q) /\ mgLock' = (IF mgLock = r THEN MgNobody ELSE mgLock) BY <1>2 DEF MgEnd
  <2> HIDE DEF q
  <2>3. q.pc \notin MgReads /\ MgFresh(q) /\ MgOpen(q) /\ ~MgHolds(q)
    BY <1>0, <2>1 DEF MgReads, MgFresh, MgEarly, MgOpen, MgWithin, MgHolds
  <2>4. MgClaims(q) => MgClaims(p) BY <1>0, <2>1 DEF MgClaims
  <2>5. MgSound(q, Len(mgEffects), MgFiles[r]) BY <1>0, <2>3, <2>4, MgAside DEF MgSound
  <2> QED BY <1>0, <2>1, <2>2, <2>3, <2>5, MgMoves
<1> QED BY <1>1, <1>2

LEMMA MgStep == MgInv /\ [MgNext]_mgVars => MgInv'
<1> SUFFICES ASSUME MgInv, [MgNext]_mgVars PROVE MgInv' OBVIOUS
<1>1. CASE UNCHANGED mgVars BY <1>1 DEF mgVars, MgInv
<1>2. CASE MgNext
  BY <1>2, MgTakesLock, MgReadsRows, MgFindsNext, MgRunsSql, MgRollsBack, MgCommits, MgUnlocks, MgLoses, MgGivesUp, MgLateLock DEF MgNext
<1> QED BY <1>1, <1>2

\* The clients of databases together.

\* A reply goes to the command it answers, and a caller is told of no other's
\* (RedisClient::command).
THEOREM RepliesGoHome == RdSpec => []RepliesMatch
<1> QED BY RdStarted, RdStep, RdHolds, PTL DEF RdSpec

\* A commit that is reported is one, and nothing of a failed transaction is
\* (PostgresClient).
THEOREM CommitsAreTrue == PgSpec => []CommitsTrue
<1> QED BY PgStarted, PgStep, PgHolds, PTL DEF PgSpec

\* Whoever awaits a query is resumed once, with its own result, and no client
\* is with two (AsyncQuery, MongoClient).
THEOREM AwaitsEnd == AqSpec => []AwaitsAnswered
<1> QED BY AqStarted, AqStep, AqHolds, PTL DEF AqSpec

\* Every migration takes effect at most once, in name order, however many
\* instances start and whatever crashes (MigrationRunner::migrate).
THEOREM MigrationsApplyOnce == MgSpec => []MigrationsOnce
<1> QED BY MgStarted, MgStep, MgIsOnce, PTL DEF MgSpec

\* What the database did is what the program is told (RedisClient,
\* PostgresClient, MigrationRunner).
THEOREM DatabaseIsSound == RdSpec /\ PgSpec /\ AqSpec /\ MgSpec => []DatabaseSound
<1>1. RepliesMatch /\ CommitsTrue /\ AwaitsAnswered /\ MigrationsOnce => DatabaseSound BY DEF DatabaseSound
<1> QED BY <1>1, RepliesGoHome, CommitsAreTrue, AwaitsEnd, MigrationsApplyOnce, PTL
====
