---- MODULE DatabaseClients ----
\* The clients of Redis and PostgreSQL, the queries coroutines await, and the
\* migrations run over a session of their own.
EXTENDS Integers, FiniteSets, Sequences

----
\* The synchronous Redis client (database/RedisClient.cpp) shared by worker
\* threads: one connection, one mutex, replies matched to commands by their
\* order alone. Redis answers late, in pieces, or not before the receive
\* timeout. A reply is the command it answers and its type.

CONSTANTS RdThreads, RdMaxCalls, RdNobody

VARIABLES rdPc,            \* thread -> where it is in send_command()
          rdMutex,         \* its holder
          rdFd,            \* the connection, 0 when there is none
          rdLastFd,        \* connections made so far
          rdServer,        \* connection -> commands Redis has not answered
          rdStream,        \* connection -> replies on their way to us
          rdGot,           \* thread -> what its call returned
          rdCall,          \* thread -> the call it is in
          rdCalls          \* calls made

ASSUME RdAssumption == RdMaxCalls \in Nat /\ RdNobody \notin RdThreads

rdVars == <<rdPc, rdMutex, rdFd, rdLastFd, rdServer, rdStream, rdGot, rdCall, rdCalls>>

RdNothing == [call |-> 0, is |-> "none"]
RdConns == 1..(RdMaxCalls + 1)

RdInit ==
  /\ rdPc = [t \in RdThreads |-> "idle"] /\ rdMutex = RdNobody /\ rdFd = 0 /\ rdLastFd = 0
  /\ rdServer = [c \in RdConns |-> << >>] /\ rdStream = [c \in RdConns |-> << >>]
  /\ rdGot = [t \in RdThreads |-> RdNothing] /\ rdCall = [t \in RdThreads |-> 0] /\ rdCalls = 0

RdGoto(t, pc) == rdPc' = [rdPc EXCEPT ![t] = pc]

\* send_command() takes the mutex; a disconnect() does as well.
RdEnter(t) ==
  /\ rdPc[t] = "idle" /\ rdCalls < RdMaxCalls /\ rdMutex = RdNobody
  /\ rdMutex' = t /\ rdCalls' = rdCalls + 1 /\ rdCall' = [rdCall EXCEPT ![t] = rdCalls + 1]
  /\ rdGot' = [rdGot EXCEPT ![t] = RdNothing]
  /\ RdGoto(t, "connect")
  /\ UNCHANGED <<rdFd, rdLastFd, rdServer, rdStream>>

RdReturn(t, got) == rdGot' = [rdGot EXCEPT ![t] = got] /\ rdMutex' = RdNobody /\ RdGoto(t, "idle")

\* connect_locked(): the mutex is held already.
RdConnect(t) ==
  /\ rdPc[t] = "connect"
  /\ \/ rdFd # 0 /\ RdGoto(t, "send") /\ UNCHANGED <<rdMutex, rdFd, rdLastFd, rdGot>>
     \/ rdFd = 0 /\ rdFd' = rdLastFd + 1 /\ rdLastFd' = rdLastFd + 1 /\ RdGoto(t, "send") /\ UNCHANGED <<rdMutex, rdGot>>
     \/ rdFd = 0 /\ RdReturn(t, RdNothing) /\ UNCHANGED <<rdFd, rdLastFd>>
  /\ UNCHANGED <<rdServer, rdStream, rdCall, rdCalls>>

\* The command goes out whole, or the connection is dropped.
RdSend(t) ==
  /\ rdPc[t] = "send"
  /\ \/ rdServer' = [rdServer EXCEPT ![rdFd] = Append(@, rdCall[t])] /\ RdGoto(t, "read") /\ UNCHANGED <<rdMutex, rdFd, rdGot>>
     \/ rdFd' = 0 /\ RdReturn(t, RdNothing) /\ UNCHANGED rdServer
  /\ UNCHANGED <<rdLastFd, rdStream, rdCall, rdCalls>>

\* Mutant: the connection is kept.
close_locked_Keeps == rdFd' = rdFd

\* close_locked() after a failed read: the position in the stream is unknown.
close_locked == rdFd' = 0

\* read_response(): a line, and for a bulk string its bytes.
RdRead(t) ==
  /\ rdPc[t] = "read"
  /\ \/ /\ rdStream[rdFd] # << >>      \* a whole reply: simple, integer, error, nil or bulk
        /\ rdStream' = [rdStream EXCEPT ![rdFd] = Tail(@)]
        /\ LET r == Head(rdStream[rdFd])
           IN IF r.is = "array" THEN close_locked /\ RdReturn(t, RdNothing)
              ELSE RdReturn(t, IF r.is \in {"error", "nil"} THEN [r EXCEPT !.is = "none"] ELSE r) /\ UNCHANGED rdFd
     \/ close_locked /\ RdReturn(t, RdNothing) /\ UNCHANGED rdStream      \* the 2 s pass, or the peer closes
  /\ UNCHANGED <<rdLastFd, rdServer, rdCall, rdCalls>>

\* The other types are read as text: ping, set, get, incr, expire and del are
\* this call with its arguments, and compare or convert what it returns.
RdDisconnect(t) ==
  /\ rdPc[t] = "idle" /\ rdMutex = RdNobody /\ rdFd # 0
  /\ rdFd' = 0
  /\ UNCHANGED <<rdPc, rdMutex, rdLastFd, rdServer, rdStream, rdGot, rdCall, rdCalls>>

\* Redis answers in order, when it gets to it, on connections it still has.
RdAnswer(c) ==
  /\ rdServer[c] # << >>
  /\ rdServer' = [rdServer EXCEPT ![c] = Tail(@)]
  /\ \E is \in {"text", "nil", "error", "array"} : rdStream' = [rdStream EXCEPT ![c] = Append(@, [call |-> Head(rdServer[c]), is |-> is])]
  /\ UNCHANGED <<rdPc, rdMutex, rdFd, rdLastFd, rdGot, rdCall, rdCalls>>

RdNext ==
  \/ \E t \in RdThreads : RdEnter(t) \/ RdConnect(t) \/ RdSend(t) \/ RdRead(t) \/ RdDisconnect(t)
  \/ \E c \in RdConns : RdAnswer(c)

RdSpec == RdInit /\ [][RdNext]_rdVars

\* A call returns the answer to its own command or nothing, whatever timed out
\* before it; and no caller waits on the mutex it holds itself: who has it is
\* inside a call, and whoever is inside has it.
RepliesMatch ==
  /\ \A t \in RdThreads : rdGot[t].call \in {0, rdCall[t]}
  /\ \A t \in RdThreads : rdPc[t] # "idle" <=> rdMutex = t

----
\* One PostgresClient (database/PostgresClient.cpp) and the server session it
\* talks to: statements run one after the other, through the cache of prepared
\* ones or not, in transactions or not, and the connection is lost and made
\* again in between. The server is external: it keeps its session's prepared
\* names, the state of the transaction, and what has been committed.

CONSTANTS PgSqls,          \* statements that change something
          PgMaxPrepared,   \* max_prepared_
          PgMaxNames,      \* statements prepared, at most
          PgMaxLosses      \* connections lost, at most

VARIABLES pgConnected,     \* connected_
          pgLink,          \* the connection: "none", "up" or "lost" (the client need not know)
          pgPrepared,      \* sql -> name; sqls that are not cached map to 0
          pgNames,         \* next_statement_
          pgRunning,       \* the operation under way: [op, sql, step, failed], or PgIdle
          pgServer,        \* the server's session: [names, tx, pending, lost]
          pgCommitted,     \* sqls whose effect is in the database
          pgTold,          \* what the client was told since BEGIN: sqls that succeeded
          pgVerdict,       \* what the last COMMIT reported: "none", "ok", "failed"
          pgOwed,          \* callbacks that are owed
          pgLosses

pgVars == <<pgConnected, pgLink, pgPrepared, pgNames, pgRunning, pgServer, pgCommitted, pgTold, pgVerdict, pgOwed, pgLosses>>

PgIdle == [op |-> "idle", sql |-> "", step |-> "", failed |-> FALSE]
PgNewSession == [names |-> {}, tx |-> "idle", pending |-> {}]

PgInit ==
  /\ pgConnected = FALSE /\ pgLink = "none"
  /\ pgPrepared = [s \in PgSqls |-> 0] /\ pgNames = 0 /\ pgRunning = PgIdle /\ pgServer = PgNewSession
  /\ pgCommitted = {} /\ pgTold = {} /\ pgVerdict = "none" /\ pgOwed = 0 /\ pgLosses = 0

\* connect(), and reconnect() after close_connection(): the cache goes with the
\* session. statement_timeout_, if any, is set by the first query.
close_connection == pgPrepared' = [s \in PgSqls |-> 0]
PgConnect ==
  /\ pgRunning = PgIdle /\ pgOwed = 0 /\ pgLink # "up"
  /\ close_connection
  /\ \/ pgConnected' = TRUE /\ pgLink' = "up"
     \/ pgConnected' = FALSE /\ pgLink' = "none"      \* PGRES_POLLING_FAILED: callback(false)
  /\ pgServer' = PgNewSession
  /\ pgTold' = {} /\ pgVerdict' = "none"
  /\ UNCHANGED <<pgNames, pgRunning, pgCommitted, pgOwed, pgLosses>>

\* The connection breaks: the session and its transaction are gone.
PgLose ==
  /\ pgLink = "up" /\ pgLosses < PgMaxLosses
  /\ pgLink' = "lost" /\ pgLosses' = pgLosses + 1
  /\ pgServer' = PgNewSession
  /\ UNCHANGED <<pgConnected, pgPrepared, pgNames, pgRunning, pgCommitted, pgTold, pgVerdict, pgOwed>>

\* execute() prepares a statement it has not cached, while there is room.
PgFirstStep(op, sql) ==
  CASE op = "execute" /\ pgPrepared[sql] = 0 /\ Cardinality({s \in PgSqls : pgPrepared[s] # 0}) < PgMaxPrepared -> "prepare"
    [] op = "execute" /\ pgPrepared[sql] # 0 -> "prepared"
    [] OTHER -> "run"

\* begin(), commit(), rollback(), query(), execute(): nothing is sent without a
\* connection, and the caller is told at once.
PgStart(op, sql) ==
  /\ pgRunning = PgIdle /\ pgOwed = 0
  /\ pgConnected
  /\ pgOwed' = 1 /\ pgVerdict' = "none"
  /\ pgTold' = IF pgVerdict = "none" THEN pgTold ELSE {}
  /\ PgFirstStep(op, sql) = "prepare" => pgNames < PgMaxNames
  /\ pgNames' = IF PgFirstStep(op, sql) = "prepare" THEN pgNames + 1 ELSE pgNames
  /\ pgRunning' = [op |-> op, sql |-> sql, step |-> PgFirstStep(op, sql), failed |-> op = "COMMIT" /\ pgServer.tx = "error"]
  /\ UNCHANGED <<pgConnected, pgLink, pgPrepared, pgServer, pgCommitted, pgLosses>>

\* Mutant: a reply to COMMIT counts as a commit.
PgReply_Trusting(ok, server, committed) ==
  /\ pgServer' = server /\ pgCommitted' = committed
  /\ LET r == pgRunning
     IN IF r.step = "prepare" /\ ok
        THEN /\ pgPrepared' = [pgPrepared EXCEPT ![r.sql] = pgNames]
             /\ pgRunning' = [r EXCEPT !.step = "prepared"]
             /\ UNCHANGED <<pgTold, pgVerdict, pgOwed>>
        ELSE /\ pgRunning' = PgIdle /\ pgOwed' = pgOwed - 1
             /\ pgTold' = IF r.op \in {"query", "execute"} /\ ok THEN pgTold \cup {r.sql} ELSE IF r.op \in {"BEGIN", "ROLLBACK"} THEN {} ELSE pgTold
             /\ pgVerdict' = IF r.op = "COMMIT" THEN (IF ok THEN "ok" ELSE "failed") ELSE "none"
             /\ UNCHANGED pgPrepared
  /\ UNCHANGED <<pgConnected, pgLink, pgNames, pgLosses>>

\* The server runs what was sent, and the client hears of it: handle_query().
PgReply(ok, server, committed) ==
  /\ pgServer' = server /\ pgCommitted' = committed
  /\ LET r == pgRunning
         reported == ok /\ ~(r.op = "COMMIT" /\ r.failed)
     IN IF r.step = "prepare" /\ ok
        THEN /\ pgPrepared' = [pgPrepared EXCEPT ![r.sql] = pgNames]
             /\ pgRunning' = [r EXCEPT !.step = "prepared"]
             /\ UNCHANGED <<pgTold, pgVerdict, pgOwed>>
        ELSE /\ pgRunning' = PgIdle /\ pgOwed' = pgOwed - 1
             /\ pgTold' = CASE r.op = "BEGIN" /\ ok -> {}
                            [] r.op \in {"query", "execute"} /\ reported -> pgTold \cup {r.sql}
                            [] r.op = "ROLLBACK" /\ ok -> {}
                            [] OTHER -> pgTold
             /\ pgVerdict' = IF r.op = "COMMIT" THEN (IF reported THEN "ok" ELSE "failed") ELSE "none"
             /\ UNCHANGED pgPrepared
  /\ UNCHANGED <<pgConnected, pgLink, pgNames, pgLosses>>

\* The session's answer to what is running; a failing statement spoils its
\* transaction, and COMMIT then rolls back and says so only in its tag.
PgServed ==
  /\ pgRunning # PgIdle /\ pgLink = "up"
  /\ LET s == pgServer  r == pgRunning
         fails == [s EXCEPT !.tx = IF @ = "idle" THEN @ ELSE "error"]
         applied == [s EXCEPT !.pending = IF s.tx = "open" THEN @ \cup {r.sql} ELSE @]
     IN CASE r.op = "BEGIN" -> PgReply(TRUE, IF s.tx = "idle" THEN [s EXCEPT !.tx = "open"] ELSE s, pgCommitted)
          [] r.op = "COMMIT" -> PgReply(TRUE, [s EXCEPT !.tx = "idle", !.pending = {}],
                IF s.tx = "open" THEN pgCommitted \cup s.pending ELSE pgCommitted)
          [] r.op = "ROLLBACK" -> PgReply(TRUE, [s EXCEPT !.tx = "idle", !.pending = {}], pgCommitted)
          [] r.step = "prepare" -> \/ s.tx # "error" /\ PgReply(TRUE, [s EXCEPT !.names = @ \cup {pgNames}], pgCommitted)
                                   \/ PgReply(FALSE, fails, pgCommitted)
          [] OTHER -> \/ /\ s.tx # "error" /\ (r.step = "prepared" => pgPrepared[r.sql] \in s.names)
                         /\ PgReply(TRUE, applied, IF s.tx = "idle" THEN pgCommitted \cup {r.sql} ELSE pgCommitted)
                      \/ PgReply(FALSE, fails, pgCommitted)

\* PQflush or PQconsumeInput fails on a connection that is gone.
PgBroken == pgRunning # PgIdle /\ pgLink # "up" /\ PgReply(FALSE, pgServer, pgCommitted)

PgNext ==
  \/ PgConnect \/ PgLose \/ PgServed \/ PgBroken
  \/ \E op \in {"BEGIN", "COMMIT", "ROLLBACK"} : PgStart(op, "")
  \/ \E op \in {"query", "execute"}, sql \in PgSqls : PgStart(op, sql)

PgSpec == PgInit /\ [][PgNext]_pgVars

\* What the caller is told is so: a COMMIT reported as done has put every
\* statement it was told succeeded since BEGIN into the database; a cached name
\* is one the session it will be run in has prepared, across lost connections
\* and reconnects; and every operation is answered exactly once.
CommitsTrue ==
  /\ pgVerdict = "ok" => pgTold \subseteq pgCommitted
  /\ pgLink = "up" => \A s \in PgSqls : pgPrepared[s] = 0 \/ pgPrepared[s] \in pgServer.names
  /\ pgOwed = (IF pgRunning = PgIdle THEN 0 ELSE 1)

----
\* Coroutines that co_await a MySQL client (database/MysqlClient.cpp: the
\* library says what to wait for until it is done) or a MongoDB one
\* (database/MongoClient.cpp: a task of the worker pool takes a connection of
\* the driver's pool, and resumes the coroutine on its own thread). The two
\* drivers are external. A PostgresCoro.hpp awaiter resumes in the callback.

CONSTANTS AqCoros,       \* coroutines; each has a MysqlClient of its own
          AqWorkers,     \* threads of the worker pool
          AqClients,     \* connections of the MongoDB driver's pool
          AqMaxOps,      \* operations a coroutine awaits, at most
          AqMaxWaits     \* times the MySQL library asks to wait, at most

VARIABLES aqCoro,        \* per coroutine, its awaiter: [op, step, truth, told, left, resumed, waits]
          aqQueue,       \* tasks of the worker pool: coroutines
          aqTask,        \* per worker, the coroutine it works for, or AqNone
          aqFree         \* connections in the MongoDB driver's pool

aqVars == <<aqCoro, aqQueue, aqTask, aqFree>>

AqNone == "nobody"
ASSUME AqAssumption ==
  AqNone \notin AqCoros /\ IsFiniteSet(AqWorkers) /\ AqClients \in Nat /\ AqMaxOps \in Nat
AqInit ==
  /\ aqCoro = [c \in AqCoros |-> [op |-> "none", step |-> "runs", truth |-> "none", told |-> "none",
                                 left |-> AqMaxOps, resumed |-> 0, waits |-> 0]]
  /\ aqQueue = << >> /\ aqTask = [w \in AqWorkers |-> AqNone] /\ aqFree = AqClients

AqSet(c, r) == aqCoro' = [aqCoro EXCEPT ![c] = r]

\* coro.resume(): await_resume() throws, or hands over what the awaiter holds.
AqResume(c, truth, told) ==
  AqSet(c, [aqCoro[c] EXCEPT !.step = "runs", !.truth = truth, !.told = told, !.resumed = @ + 1, !.waits = 0])

\* The coroutine awaits its next operation. The task queue of the pool takes it,
\* or the MySQL library is started on it.
await_suspend(c, op) ==
  /\ aqCoro[c].step = "runs" /\ aqCoro[c].left > 0
  /\ AqSet(c, [aqCoro[c] EXCEPT !.op = op, !.left = @ - 1, !.truth = "none", !.told = "none",
                                !.step = CASE op = "connect" -> "connecting" [] op = "query" -> "querying" [] OTHER -> "queued"])
  /\ aqQueue' = IF op \in {"find", "insert"} THEN Append(aqQueue, c) ELSE aqQueue
  \* a coroutine that was resumed by a task gives its thread back when it suspends
  /\ aqTask' = [w \in AqWorkers |-> IF aqTask[w] = c THEN AqNone ELSE aqTask[w]]
  /\ UNCHANGED aqFree

\* A coroutine that ends gives its thread back too.
AqReturn(c) ==
  /\ aqCoro[c].step = "runs" /\ \E w \in AqWorkers : aqTask[w] = c
  /\ aqTask' = [w \in AqWorkers |-> IF aqTask[w] = c THEN AqNone ELSE aqTask[w]]
  /\ UNCHANGED <<aqCoro, aqQueue, aqFree>>

\* wait_for_status(): one event of the socket, one way or the other, then the
\* library goes on.
wait_for_status(c) ==
  /\ aqCoro[c].waits < AqMaxWaits
  /\ AqSet(c, [aqCoro[c] EXCEPT !.waits = @ + 1])

\* mysql_real_connect and mysql_real_query, from start to status 0.
resume_loop(c) ==
  /\ aqCoro[c].step \in {"connecting", "querying"}
  /\ \/ wait_for_status(c)
     \/ AqResume(c, "error", "error")                     \* no ret_ptr; err # 0
     \/ aqCoro[c].step = "connecting" /\ AqResume(c, "connected", "connected")
     \/ aqCoro[c].step = "querying" /\ AqSet(c, [aqCoro[c] EXCEPT !.step = "storing", !.waits = 0])
  /\ UNCHANGED <<aqQueue, aqTask, aqFree>>

\* mysql_store_result: rows; no rows and no columns, a statement that changes
\* something; columns but no rows to be had, an error.
process_result_cont(c) ==
  /\ aqCoro[c].step = "storing"
  /\ \/ wait_for_status(c)
     \/ \E truth \in {"rows", "affected", "error"} : AqResume(c, truth, truth)
  /\ UNCHANGED <<aqQueue, aqTask, aqFree>>

\* A worker takes the next task.
AqTake(w) ==
  /\ aqTask[w] = AqNone /\ aqQueue # << >>
  /\ aqTask' = [aqTask EXCEPT ![w] = Head(aqQueue)] /\ aqQueue' = Tail(aqQueue)
  /\ AqSet(Head(aqQueue), [aqCoro[Head(aqQueue)] EXCEPT !.step = "task"])
  /\ UNCHANGED aqFree

\* mongoc_client_pool_pop() waits for a connection.
mongoc_client_pool_pop(w) ==
  /\ aqTask[w] # AqNone /\ aqCoro[aqTask[w]].step = "task" /\ aqFree > 0
  /\ aqFree' = aqFree - 1 /\ AqSet(aqTask[w], [aqCoro[aqTask[w]] EXCEPT !.step = "holds"])
  /\ UNCHANGED <<aqQueue, aqTask>>

\* Mutant: the client is kept when the query fails.
AqMongo_Leaks(w) ==
  /\ aqTask[w] # AqNone /\ aqCoro[aqTask[w]].step = "holds"
  /\ \E truth \in {"bad json", "error", "done"} :
       /\ AqResume(aqTask[w], truth, IF truth = "done" THEN "done" ELSE "error")
       /\ aqFree' = IF truth = "bad json" THEN aqFree ELSE aqFree + 1
  /\ UNCHANGED <<aqQueue, aqTask>>

\* The document does not parse, the cursor or the insert fails, or it is done:
\* the connection goes back on each path, and only then the coroutine goes on.
AqMongo(w) ==
  /\ aqTask[w] # AqNone /\ aqCoro[aqTask[w]].step = "holds"
  /\ \E truth \in {"bad json", "error", "done"} : AqResume(aqTask[w], truth, IF truth = "done" THEN "done" ELSE "error")
  /\ aqFree' = aqFree + 1 /\ UNCHANGED <<aqQueue, aqTask>>
AqNext ==
  \/ \E c \in AqCoros, op \in {"connect", "query", "find", "insert"} : await_suspend(c, op)
  \/ \E c \in AqCoros : AqReturn(c) \/ resume_loop(c) \/ process_result_cont(c)
  \/ \E w \in AqWorkers : AqTake(w) \/ mongoc_client_pool_pop(w) \/ AqMongo(w)

AqSpec == AqInit /\ [][AqNext]_aqVars

\* Every operation awaited resumes its coroutine once, and with what became of
\* it: a query whose rows could not be read is not reported as one that changed
\* nothing. Nobody waits for good: the connections of the MongoDB driver that
\* are not in its pool are held by tasks still at work, even when there are
\* fewer of them than workers.
AwaitsAnswered ==
  /\ \A c \in AqCoros :
       /\ aqCoro[c].resumed = AqMaxOps - aqCoro[c].left - (IF aqCoro[c].step = "runs" THEN 0 ELSE 1)
       /\ aqCoro[c].step = "runs" => (aqCoro[c].told = "error" <=> aqCoro[c].truth \in {"bad json", "error"})
  /\ aqFree + Cardinality({w \in AqWorkers : aqTask[w] # AqNone /\ aqCoro[aqTask[w]].step = "holds"}) = AqClients

----
\* Several instances of an application start at once, and each runs the
\* migrations of its directory (orm/MigrationRunner.hpp) over a database
\* session of its own. PostgreSQL is external: an advisory lock that ends with
\* its session, transactions, and a unique column of versions. Instances
\* crash, sessions are lost at any point, and migrate_sync() gives up after a
\* while.

CONSTANTS MgRunners,      \* instances
          MgFiles,        \* instance -> number of .sql files of its directory, 1.. in name order
          MgBroken,       \* files whose statements fail
          MgMaxFaults     \* crashes, lost sessions and timeouts, at most

VARIABLES mgRun,          \* per instance: [pc, seen, file, failed, result, up, tx]
          mgLock,         \* who holds the advisory lock, or MgNobody
          mgTracked,      \* rows of orbit_migrations
          mgEffects,      \* files whose statements took effect, in order
          mgFaults

mgVars == <<mgRun, mgLock, mgTracked, mgEffects, mgFaults>>

MgNobody == "nobody"
ASSUME MgAssumption == MgFiles \in [MgRunners -> Nat] /\ MgNobody \notin MgRunners

\* pc: the query awaited. tx: what the open transaction did, "error" if it
\* failed.
MgNew == [pc |-> "lock", seen |-> {}, file |-> 0, failed |-> FALSE, result |-> "none", up |-> TRUE, tx |-> "none"]
MgInit == mgRun = [r \in MgRunners |-> MgNew] /\ mgLock = MgNobody /\ mgTracked = {} /\ mgEffects = << >> /\ mgFaults = 0

MgSet(r, new) == mgRun' = [mgRun EXCEPT ![r] = new]
MgAt(r, pc) == mgRun[r].pc = pc
MgRows == UNCHANGED <<mgTracked, mgEffects>>
MgQuiet == UNCHANGED <<mgLock, mgTracked, mgEffects, mgFaults>>

\* pg_advisory_lock() waits; its session holds the lock until it is unlocked or
\* ends.
MgTakeLock(r) ==
  /\ MgAt(r, "lock")
  /\ \/ mgRun[r].up /\ mgLock = MgNobody /\ mgLock' = r /\ MgSet(r, [mgRun[r] EXCEPT !.pc = "read"])
     \/ ~mgRun[r].up /\ MgSet(r, [mgRun[r] EXCEPT !.pc = "done", !.result = "error"]) /\ UNCHANGED mgLock
  /\ MgRows /\ UNCHANGED mgFaults

\* CREATE TABLE IF NOT EXISTS, the versions applied, the files of the directory.
MgRead(r) ==
  /\ MgAt(r, "read")
  /\ MgSet(r, IF mgRun[r].up THEN [mgRun[r] EXCEPT !.pc = "next", !.seen = mgTracked] ELSE [mgRun[r] EXCEPT !.pc = "unlock", !.failed = TRUE])
  /\ MgQuiet

\* The next file that was not applied yet, and BEGIN.
MgNextFile(r) ==
  /\ MgAt(r, "next")
  /\ LET left == {f \in (mgRun[r].file + 1)..MgFiles[r] : f \notin mgRun[r].seen}
     IN IF left = {} THEN MgSet(r, [mgRun[r] EXCEPT !.pc = "unlock"])
        ELSE MgSet(r, [mgRun[r] EXCEPT !.file = CHOOSE f \in left : \A g \in left : f <= g,
                                     !.pc = IF mgRun[r].up THEN "sql" ELSE "unlock", !.failed = ~mgRun[r].up,
                                     !.tx = IF mgRun[r].up THEN "open" ELSE "none"])
  /\ MgQuiet

\* The statements of the file, then its row in the same transaction: the row is
\* refused if another one has the version.
MgSql(r) ==
  /\ MgAt(r, "sql")
  /\ LET ok == mgRun[r].up /\ mgRun[r].file \notin MgBroken
     IN MgSet(r, [mgRun[r] EXCEPT !.pc = IF ok THEN "track" ELSE "rollback", !.tx = IF ok THEN "ran" ELSE "error"])
  /\ MgQuiet

\* Mutant: the tracking row is not checked.
MgTrack_Unchecked(r) ==
  /\ MgAt(r, "track")
  /\ \E ok \in {mgRun[r].up /\ mgRun[r].file \notin mgTracked, FALSE} :
       MgSet(r, [mgRun[r] EXCEPT !.pc = "commit", !.tx = IF ok THEN "tracked" ELSE "error"])
  /\ MgQuiet

MgTrack(r) ==
  /\ MgAt(r, "track")
  /\ \E ok \in {mgRun[r].up /\ mgRun[r].file \notin mgTracked, FALSE} :
       MgSet(r, [mgRun[r] EXCEPT !.pc = IF ok THEN "commit" ELSE "rollback", !.tx = IF ok THEN "tracked" ELSE "error"])
  /\ MgQuiet
MgRollback(r) == MgAt(r, "rollback") /\ MgSet(r, [mgRun[r] EXCEPT !.pc = "unlock", !.failed = TRUE, !.tx = "none"]) /\ MgQuiet

\* COMMIT: of a transaction that failed it is a rollback that is reported as
\* done.
MgCommit(r) ==
  /\ MgAt(r, "commit")
  /\ IF mgRun[r].up THEN MgSet(r, [mgRun[r] EXCEPT !.pc = "next", !.tx = "none"])
     ELSE MgSet(r, [mgRun[r] EXCEPT !.pc = "unlock", !.failed = TRUE, !.tx = "none"])
  /\ IF mgRun[r].up /\ mgRun[r].tx = "tracked"
     THEN mgTracked' = mgTracked \cup {mgRun[r].file} /\ mgEffects' = Append(mgEffects, mgRun[r].file)
     ELSE MgRows
  /\ UNCHANGED <<mgLock, mgFaults>>

MgUnlock(r) ==
  /\ MgAt(r, "unlock")
  /\ mgLock' = IF mgLock = r /\ mgRun[r].up THEN MgNobody ELSE mgLock
  /\ MgSet(r, [mgRun[r] EXCEPT !.pc = "done", !.result = IF @ # "none" THEN @ ELSE IF mgRun[r].failed THEN "error" ELSE "ok"])
  /\ MgRows /\ UNCHANGED mgFaults

\* The session of an instance ends, with its transaction and its lock: the
\* process crashes and is started again, or the connection breaks. A COMMIT that
\* was under way may have reached the server before.
MgLose(r) ==
  /\ mgFaults < MgMaxFaults /\ mgRun[r].up /\ mgRun[r].pc # "done"
  /\ mgFaults' = mgFaults + 1
  /\ mgLock' = IF mgLock = r THEN MgNobody ELSE mgLock
  /\ MgSet(r, [mgRun[r] EXCEPT !.up = FALSE, !.tx = "none"]) \/ MgSet(r, MgNew)
  /\ \/ MgRows
     \/ /\ MgAt(r, "commit") /\ mgRun[r].tx = "tracked"
        /\ mgTracked' = mgTracked \cup {mgRun[r].file} /\ mgEffects' = Append(mgEffects, mgRun[r].file)

\* migrate_sync() gives up: nobody runs the loop any more, and the session stays
\* as it is, its lock with it (a lock it waits for is granted later), until the
\* process ends.
MgGiveUp(r) ==
  /\ mgFaults < MgMaxFaults /\ mgRun[r].pc \notin {"done", "abandoned", "queued"}
  /\ mgFaults' = mgFaults + 1
  /\ MgSet(r, [mgRun[r] EXCEPT !.pc = IF @ = "lock" THEN "queued" ELSE "abandoned", !.result = "timeout"])
  /\ MgRows /\ UNCHANGED mgLock
MgGranted(r) ==
  /\ MgAt(r, "queued") /\ mgRun[r].up /\ mgLock = MgNobody
  /\ mgLock' = r /\ MgSet(r, [mgRun[r] EXCEPT !.pc = "abandoned"])
  /\ MgRows /\ UNCHANGED mgFaults
MgEnd(r) ==
  /\ mgRun[r].pc \in {"abandoned", "queued", "done"} /\ mgRun[r].up
  /\ MgSet(r, [mgRun[r] EXCEPT !.up = FALSE, !.tx = "none"])
  /\ mgLock' = IF mgLock = r THEN MgNobody ELSE mgLock
  /\ MgRows /\ UNCHANGED mgFaults

MgNext == \E r \in MgRunners :
  \/ MgTakeLock(r) \/ MgRead(r) \/ MgNextFile(r) \/ MgSql(r) \/ MgTrack(r) \/ MgRollback(r) \/ MgCommit(r) \/ MgUnlock(r)
  \/ MgLose(r) \/ MgGiveUp(r) \/ MgGranted(r) \/ MgEnd(r)

MgSpec == MgInit /\ [][MgNext]_mgVars

\* Whatever crashes, and however many instances start together: the statements
\* of every file take effect at most once, in name order and with none left out,
\* and orbit_migrations names exactly the files that did; an instance that
\* reports success finds all of its files applied; and while one is between
\* BEGIN and COMMIT no other is.
MigrationsOnce ==
  /\ \A i \in DOMAIN mgEffects : mgEffects[i] = i
  /\ mgTracked = {mgEffects[i] : i \in DOMAIN mgEffects}
  /\ \A r \in MgRunners : mgRun[r].result = "ok" => 1..MgFiles[r] \subseteq mgTracked
  /\ \A r \in MgRunners : mgRun[r].tx # "none" /\ mgRun[r].up => mgLock = r

\* What the database did is what the program is told: replies go to their
\* commands, a commit is one, everyone who awaits is resumed, and each migration
\* is applied once (RedisClient, PostgresClient, MigrationRunner).
DatabaseSound == RepliesMatch /\ CommitsTrue /\ AwaitsAnswered /\ MigrationsOnce
====
