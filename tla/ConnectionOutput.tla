---- MODULE ConnectionOutput ----
\* The write side of one connection (src/server/Connection.cpp): responses
\* and messages are queued by worker threads and by the event loop, and
\* written by whichever thread wins is_writing_, in plaintext or over TLS,
\* with file bodies sent by sendfile() or read into TLS records, until the
\* connection is removed.
\*
\* A step is a critical section (write_mutex_, tls_mutex_, io_mutex_) or an
\* access to an atomic.  Bytes are pieces: what one send_data() queues, one
\* part of a file, one TLS record of the handshake.  A write moves one or
\* more of the pieces it was given.
EXTENDS Naturals, Sequences, SequencesExt, FiniteSets

CONSTANTS
  Workers,       \* pool threads
  Loop,          \* the event-loop thread, which runs all completions
  TlsModes,      \* whether connections have an ssl_: FALSE and/or TRUE
  Modes,         \* the kinds of connection: "http" and/or "stream"
  Kinds,         \* what responses are made of: "plain" and/or "file"
  FileParts,     \* bound: parts a file is sent in
  MaxQueued,     \* bound: responses and messages in plaintext
  MaxQueuedTls,  \* ... and over TLS
  MaxRecords     \* bound: TLS records the read side makes

ASSUME OutputAssumption ==
  /\ Loop \notin Workers
  /\ TlsModes \subseteq BOOLEAN
  /\ Modes \subseteq {"http", "stream"}
  /\ Kinds \subseteq {"plain", "file"}
  /\ FileParts \in Nat \ {0}
  /\ MaxQueued \in Nat /\ MaxQueuedTls \in Nat /\ MaxRecords \in Nat

Threads == Workers \cup {Loop}

VARIABLES
  tls,           \* whether ssl_ is set
  mode,          \* "http": one response at a time; "stream": messages (WebSocket,
                 \* HTTP/2, chunks) from any thread
  phase,         \* "http": "reading", "granted" (process_request queued), "handling"
  writeBuffer,   \* write_buffer_
  activeBuffer,  \* active_write_buffer_ (plaintext)
  tlsBuffer,     \* tls_write_buffer_
  inflight,      \* tls_inflight_
  fileOpen,      \* file_fd_ # -1
  fileLeft,      \* the parts between file_offset_ and file_size_ of an open file
  storing,       \* write_mutex_ is held by a send() that stores a file (over TLS)
  torn,          \* history: parts of files the writer read or closed while send() stored them
  closeAfter,    \* close_after_write_
  resumeAfter,   \* resume_after_write_
  isWriting,     \* is_writing_
  removed,       \* "no", or what removed the connection
  io,            \* the operation the proactor has: "none", "write", "sendfile"
  pc, job,       \* what each thread is doing, and the send_data() it is in
  chunk,         \* chunk_to_encrypt of the thread in trigger_write()
  made,          \* responses and messages made so far, records made so far
  queued,        \* history: the pieces in the order they were promised
  closeMark,     \* history: how many of them precede the close request
  wire           \* history: what the peer was sent

vars == <<tls, mode, phase, writeBuffer, activeBuffer, tlsBuffer, inflight, fileOpen,
          fileLeft, storing, torn, closeAfter, resumeAfter, isWriting, removed, io, pc, job, chunk,
          made, queued, closeMark, wire>>

buffers == <<writeBuffer, activeBuffer, tlsBuffer, inflight, chunk>>
fileVars == <<fileOpen, fileLeft, storing, torn>>
history == <<queued, closeMark>>

\* Pieces: the queued bytes of the n-th response or message, part k of its file,
\* and TLS handshake records, which carry none of the application's bytes.
Text(n) == <<"text", n>>
FilePart(n, k) == <<"file", n, k>>
Record(n) == <<"record", n>>
FileOf(n) == [k \in 1 .. FileParts |-> FilePart(n, k)]

NoJob == [items |-> << >>, file |-> << >>, close |-> FALSE, then |-> "idle"]

\* A thread inside trigger_write() that has won is_writing_.
WriterPcs == {"gather", "take", "encrypt", "lookAtFile", "closeFile", "submit", "clear", "unlatch"}
Pcs == WriterPcs \cup {"idle", "setFile", "storeExtent", "queue", "cas", "pending", "continue", "cancel"}

TypeOK ==
  /\ tls \in TlsModes /\ mode \in Modes /\ phase \in {"reading", "granted", "handling"}
  /\ fileOpen \in BOOLEAN /\ storing \in BOOLEAN /\ closeAfter \in BOOLEAN /\ resumeAfter \in BOOLEAN
  /\ isWriting \in BOOLEAN
  /\ removed \in {"no", "close", "error", "peer"}
  /\ io \in {"none", "write", "sendfile"}
  /\ pc \in [Threads -> Pcs]
  /\ \A t \in Threads : job[t].then \in {"idle", "continue"}
  /\ closeMark <= Len(queued)

Init ==
  /\ tls \in TlsModes /\ mode \in Modes /\ phase = "reading"
  /\ writeBuffer = << >> /\ activeBuffer = << >> /\ tlsBuffer = << >> /\ inflight = << >>
  /\ fileOpen = FALSE /\ fileLeft = << >> /\ storing = FALSE /\ torn = {}
  /\ closeAfter = FALSE /\ resumeAfter = FALSE /\ isWriting = FALSE
  /\ removed = "no" /\ io = "none"
  /\ pc = [t \in Threads |-> "idle"]
  /\ job = [t \in Threads |-> NoJob]
  /\ chunk = << >>
  /\ made = [texts |-> 0, records |-> 0]
  /\ queued = << >> /\ closeMark = 0 /\ wire = << >>

\* How many responses and messages are made.
QueueBound == IF tls THEN MaxQueuedTls ELSE MaxQueued

Goto(t, place) == pc' = [pc EXCEPT ![t] = place]

----
\* Who sends

\* send() up to its call of send_data(): what it will queue, whether it is the
\* last response (should_close_), and a file's parts.
Respond(t, kind, last) ==
  /\ made.texts < QueueBound
  /\ LET n == made.texts + 1
     IN  /\ job' = [job EXCEPT ![t] =
                      [items |-> <<Text(n)>>,
                       file  |-> IF kind = "file" THEN FileOf(n) ELSE << >>,
                       close |-> last,
                       then  |-> IF last \/ kind = "file" THEN "idle" ELSE "continue"]]
         /\ made' = [made EXCEPT !.texts = n]
  /\ Goto(t, IF kind = "file" THEN "setFile" ELSE "queue")
  /\ UNCHANGED <<tls, mode, buffers, fileVars, closeAfter, resumeAfter, isWriting, removed, io,
                 history, wire>>

\* A handler answers the request it was given.
HandlerResponds(t, kind, last) ==
  /\ mode = "http" /\ phase = "granted"
  /\ t \in Workers /\ pc[t] = "idle"
  /\ phase' = "handling"
  /\ Respond(t, kind, last)

\* The loop answers bytes that are no request (send_error).
LoopRespondsError ==
  /\ mode = "http" /\ phase = "reading" /\ removed = "no"
  /\ pc[Loop] = "idle"
  /\ phase' = "handling"
  /\ Respond(Loop, "plain", TRUE)

\* The loop has parsed a request and hands it to the pool.
RequestRead ==
  /\ mode = "http" /\ phase = "reading" /\ removed = "no"
  /\ pc[Loop] = "idle"
  /\ phase' = "granted"
  /\ UNCHANGED <<tls, mode, buffers, fileVars, closeAfter, resumeAfter, isWriting, removed, io,
                 pc, job, made, history, wire>>

\* send_data() with no response to finish: "100 Continue" from the loop, a
\* message or chunk from any thread (write_raw, write_chunk).
Message(t) ==
  /\ IF mode = "http" THEN t = Loop /\ phase = "reading" ELSE TRUE
  /\ pc[t] = "idle"
  /\ t = Loop => removed = "no"
  /\ made.texts < QueueBound
  /\ made' = [made EXCEPT !.texts = @ + 1]
  /\ job' = [job EXCEPT ![t] = [NoJob EXCEPT !.items = <<Text(made.texts + 1)>>]]
  /\ Goto(t, "queue")
  /\ UNCHANGED <<tls, mode, phase, buffers, fileVars, closeAfter, resumeAfter, isWriting, removed,
                 io, history, wire>>

\* mark_for_close(): on shutdown, or by a session that is done.
MarkForClose(t) ==
  /\ IF mode = "http" THEN t = Loop /\ phase = "reading" ELSE TRUE
  /\ pc[t] = "idle"
  /\ t = Loop => removed = "no"
  /\ ~closeAfter
  /\ job' = [job EXCEPT ![t] = [NoJob EXCEPT !.close = TRUE]]
  /\ Goto(t, "queue")
  /\ UNCHANGED <<tls, mode, phase, buffers, fileVars, closeAfter, resumeAfter, isWriting, removed,
                 io, made, history, wire>>

\* Mutant: the records join the bytes that are being written.
TlsReadMakesRecord_InFlight ==
  /\ tls /\ removed = "no"
  /\ pc[Loop] = "idle"
  /\ made.records < MaxRecords
  /\ made' = [made EXCEPT !.records = @ + 1]
  /\ inflight' = Append(inflight, Record(made.records + 1))
  /\ Goto(Loop, "cas")
  /\ UNCHANGED <<tls, mode, phase, writeBuffer, activeBuffer, tlsBuffer, chunk, fileVars, closeAfter,
                 resumeAfter, isWriting, removed, io, job, history, wire>>

\* The read side decrypts input and leaves records of its own to send.
TlsReadMakesRecord ==
  /\ tls /\ removed = "no"
  /\ pc[Loop] = "idle"
  /\ made.records < MaxRecords
  /\ made' = [made EXCEPT !.records = @ + 1]
  /\ tlsBuffer' = Append(tlsBuffer, Record(made.records + 1))
  /\ Goto(Loop, "cas")
  /\ UNCHANGED <<tls, mode, phase, writeBuffer, activeBuffer, inflight, chunk, fileVars, closeAfter,
                 resumeAfter, isWriting, removed, io, job, history, wire>>

\* send(): a file's descriptor and extent, in a critical section of their own.
\* In plaintext whoever looks at the file takes write_mutex_ too.
SetFile(t) ==
  /\ pc[t] = "setFile" /\ ~tls
  /\ fileOpen' = TRUE /\ fileLeft' = job[t].file
  /\ resumeAfter' = (resumeAfter \/ ~job[t].close)
  /\ Goto(t, "queue")
  /\ UNCHANGED <<storing, torn, tls, mode, phase, buffers, closeAfter, isWriting, removed, io, job, made,
                 history, wire>>

\* Over TLS the writer looks without write_mutex_, and sees one store after the
\* other: the descriptor beside an extent that is still, in part or whole, that of
\* the file before ...
StoreFile(t) ==
  /\ pc[t] = "setFile" /\ tls /\ ~storing
  /\ fileOpen' = TRUE /\ fileLeft' \in Suffixes(job[t].file)
  /\ storing' = TRUE
  /\ Goto(t, "storeExtent")
  /\ UNCHANGED <<tls, mode, phase, buffers, torn, closeAfter, resumeAfter, isWriting, removed, io,
                 job, made, history, wire>>

\* ... and the extent, which is of no use if the descriptor was closed meanwhile, and
\* which a read that is not over (file_offset_ += bytes_read) may move.
StoreExtent(t) ==
  /\ pc[t] = "storeExtent"
  /\ LET file == job[t].file
         midRead == Range(file) \subseteq torn /\ \E u \in Threads : pc[u] = "lookAtFile"
     IN  /\ fileLeft' \in IF ~fileOpen THEN {<< >>} ELSE IF midRead THEN Suffixes(file) ELSE {file}
         /\ torn' = IF fileOpen THEN torn ELSE torn \cup Range(file)
  /\ storing' = FALSE
  /\ resumeAfter' = (resumeAfter \/ ~job[t].close)
  /\ Goto(t, "queue")
  /\ UNCHANGED <<tls, mode, phase, buffers, fileOpen, closeAfter, isWriting, removed, io, job,
                 made, history, wire>>

\* Mutant: the close request does not wait for the data's critical section.
SendData_CloseFirst(t) ==
  /\ pc[t] = "queue" /\ ~storing
  /\ IF job[t].close /\ ~closeAfter
     THEN /\ closeAfter' = TRUE
          /\ closeMark' = Len(queued) + Len(job[t].items)
          /\ UNCHANGED <<writeBuffer, queued, pc>>
     ELSE /\ writeBuffer' = writeBuffer \o job[t].items
          /\ queued' = queued \o job[t].items \o job[t].file
          /\ Goto(t, "cas")
          /\ UNCHANGED <<closeAfter, closeMark>>
  /\ UNCHANGED <<tls, mode, phase, activeBuffer, tlsBuffer, inflight, chunk, fileVars, resumeAfter,
                 isWriting, removed, io, job, made, wire>>

\* send_data(): the bytes and the close request in one critical section.
SendData(t) ==
  /\ pc[t] = "queue" /\ ~storing
  /\ writeBuffer' = writeBuffer \o job[t].items
  /\ queued' = queued \o job[t].items \o job[t].file
  /\ closeAfter' = (closeAfter \/ job[t].close)
  /\ closeMark' = IF job[t].close /\ ~closeAfter THEN Len(queued') ELSE closeMark
  /\ Goto(t, "cas")
  /\ UNCHANGED <<tls, mode, phase, activeBuffer, tlsBuffer, inflight, chunk, fileVars, resumeAfter,
                 isWriting, removed, io, job, made, wire>>

----
\* trigger_write()

\* Back to the caller of trigger_write(): send() goes on to the next request.
Return(t) ==
  /\ Goto(t, job[t].then)
  /\ job' = [job EXCEPT ![t] = NoJob]

\* remove_connection(): the first caller bars new I/O (on_removed) and goes on
\* to cancel what is pending; anyone later finds the connection gone already.
RemoveConnection(t, why) ==
  IF removed = "no"
  THEN removed' = why /\ Goto(t, "cancel") /\ UNCHANGED job
  ELSE Return(t) /\ UNCHANGED removed

\* Mutant: the flag is set without looking at it.
Win_Unguarded(t) ==
  /\ pc[t] = "cas"
  /\ isWriting' = TRUE
  /\ Goto(t, IF tls THEN "take" ELSE "gather")
  /\ UNCHANGED <<tls, mode, phase, buffers, fileVars, closeAfter, resumeAfter, removed, io, job,
                 made, history, wire>>

\* is_writing_.compare_exchange_strong(false, true)
Win(t) ==
  /\ pc[t] = "cas" /\ ~isWriting
  /\ isWriting' = TRUE
  /\ Goto(t, IF tls THEN "take" ELSE "gather")
  /\ UNCHANGED <<tls, mode, phase, buffers, fileVars, closeAfter, resumeAfter, removed, io, job,
                 made, history, wire>>

Lose(t) ==
  /\ pc[t] = "cas" /\ isWriting
  /\ Return(t)
  /\ UNCHANGED <<tls, mode, phase, buffers, fileVars, closeAfter, resumeAfter, isWriting, removed,
                 io, made, history, wire>>

\* Mutant: I/O is submitted whether or not the connection was removed.
Submit_Always(t, op) == io' = op /\ Return(t) /\ UNCHANGED isWriting

\* submit_io(): nothing is submitted once the connection was removed, and the
\* writer's flag is dropped again.
Submit(t, op) ==
  /\ IF removed = "no"
     THEN io' = op /\ UNCHANGED isWriting
     ELSE isWriting' = FALSE /\ UNCHANGED io
  /\ Return(t)

\* The plaintext branch, one critical section of write_mutex_: the next buffer,
\* then the file, else nothing is left to do.
Gather(t) ==
  /\ pc[t] = "gather"
  /\ LET active == IF activeBuffer = << >> THEN writeBuffer ELSE activeBuffer
     IN  /\ activeBuffer' = active
         /\ writeBuffer' = IF activeBuffer = << >> THEN << >> ELSE writeBuffer
         /\ \/ /\ active # << >>
               /\ Submit(t, "write")
               /\ UNCHANGED fileOpen
            \/ /\ active = << >> /\ fileOpen /\ fileLeft # << >>
               /\ Submit(t, "sendfile")
               /\ UNCHANGED fileOpen
            \/ /\ active = << >> /\ (~fileOpen \/ fileLeft = << >>)
               /\ fileOpen' = FALSE
               /\ Goto(t, "clear")
               /\ UNCHANGED <<io, isWriting, job>>
  /\ UNCHANGED <<tls, mode, phase, tlsBuffer, inflight, chunk, fileLeft, storing, torn, closeAfter,
                 resumeAfter, removed, made, history, wire>>

\* The TLS branch: take the plaintext (write_mutex_) ...
Take(t) ==
  /\ pc[t] = "take" /\ ~storing
  /\ chunk' = writeBuffer /\ writeBuffer' = << >>
  /\ Goto(t, "encrypt")
  /\ UNCHANGED <<tls, mode, phase, activeBuffer, tlsBuffer, inflight, fileVars, closeAfter,
                 resumeAfter, isWriting, removed, io, job, made, history, wire>>

PartsStored == UNION {Range(job[u].file) : u \in {v \in Threads : pc[v] = "storeExtent"}}

\* ... encrypt it (tls_mutex_ only), with one part of the file when nothing else is
\* to be sent, and hand the ciphertext over; a failed file read ends it all.
Encrypt(t, readFails) ==
  /\ pc[t] = "encrypt"
  /\ LET cipher == tlsBuffer \o chunk
         readsFile == fileOpen /\ fileLeft # << >> /\ cipher = << >> /\ inflight = << >>
         out == IF readsFile /\ ~readFails THEN <<Head(fileLeft)>> ELSE cipher
     IN  /\ readFails => readsFile
         /\ fileLeft' = IF readsFile /\ ~readFails THEN Tail(fileLeft) ELSE fileLeft
         /\ inflight' = IF inflight = << >> THEN out ELSE inflight
         /\ tlsBuffer' = IF inflight = << >> THEN << >> ELSE out
         /\ torn' = IF readsFile /\ storing THEN torn \cup PartsStored ELSE torn
  /\ chunk' = << >>
  /\ IF readFails
     THEN isWriting' = FALSE /\ RemoveConnection(t, "error")
     ELSE Goto(t, "lookAtFile") /\ UNCHANGED <<isWriting, removed, job>>
  /\ UNCHANGED <<tls, mode, phase, writeBuffer, activeBuffer, fileOpen, storing, closeAfter,
                 resumeAfter, io, made, history, wire>>

AfterFile == IF inflight # << >> THEN "submit" ELSE "clear"

\* ... look, with no lock, whether a file was read to its end, close whatever
\* descriptor there is by then, and submit what is in flight.
LookAtFile(t) ==
  /\ pc[t] = "lookAtFile"
  /\ Goto(t, IF fileOpen /\ fileLeft = << >> THEN "closeFile" ELSE AfterFile)
  /\ UNCHANGED <<tls, mode, phase, buffers, fileVars, closeAfter, resumeAfter, isWriting, removed,
                 io, job, made, history, wire>>

CloseFile(t) ==
  /\ pc[t] = "closeFile"
  /\ fileOpen' = FALSE /\ fileLeft' = << >>
  /\ torn' = torn \cup Range(fileLeft)
  /\ Goto(t, AfterFile)
  /\ UNCHANGED <<tls, mode, phase, buffers, storing, closeAfter, resumeAfter, isWriting, removed,
                 io, job, made, history, wire>>

SubmitTls(t) ==
  /\ pc[t] = "submit"
  /\ Submit(t, "write")
  /\ UNCHANGED <<tls, mode, phase, buffers, fileVars, closeAfter, resumeAfter, removed, made,
                 history, wire>>

\* is_writing_ = false, before the last look (nothing to write) or before
\* another round (a write has completed).
ClearWriting(t) ==
  /\ pc[t] \in {"clear", "unlatch"}
  /\ isWriting' = FALSE
  /\ Goto(t, IF pc[t] = "clear" THEN "pending" ELSE "cas")
  /\ UNCHANGED <<tls, mode, phase, buffers, fileVars, closeAfter, resumeAfter, removed, io, job,
                 made, history, wire>>

\* Mutants: nothing is looked at again; the buffer being written is not counted.
PendingOutput_None == FALSE
PendingOutput_NotActive == writeBuffer # << >> \/ (tls /\ tlsBuffer # << >>)

PendingOutput ==
  \/ writeBuffer # << >> \/ activeBuffer # << >>
  \/ fileOpen /\ fileLeft # << >>
  \/ tls /\ tlsBuffer # << >>

\* has_pending_output() and what trigger_write() does about its answer: another
\* round, the requested close, the next request after a file, or nothing.
LastLook(t) ==
  /\ pc[t] = "pending" /\ ~storing
  /\ \/ /\ PendingOutput
        /\ Goto(t, "cas")
        /\ UNCHANGED <<job, resumeAfter, removed>>
     \/ /\ ~PendingOutput
        /\ resumeAfter' = FALSE
        /\ \/ /\ closeAfter
              /\ RemoveConnection(t, "close")
           \/ /\ ~closeAfter /\ resumeAfter
              /\ Goto(t, "continue")
              /\ UNCHANGED <<job, removed>>
           \/ /\ ~closeAfter /\ ~resumeAfter
              /\ Return(t)
              /\ UNCHANGED removed
  /\ UNCHANGED <<tls, mode, phase, buffers, fileVars, closeAfter, isWriting, io, made, history, wire>>

\* remove_connection() after on_removed(): proactor_.remove().
Cancel(t) ==
  /\ pc[t] = "cancel"
  /\ io' = "none"
  /\ Return(t)
  /\ UNCHANGED <<tls, mode, phase, buffers, fileVars, closeAfter, resumeAfter, isWriting, removed,
                 made, history, wire>>

\* continue_after_response(): the next request is there, or is awaited; or the
\* rest of a streamed body is unread, and the connection closes.
Continue(t, nextPhase) ==
  /\ pc[t] = "continue"
  /\ phase' = nextPhase
  /\ job' = [job EXCEPT ![t] = IF nextPhase = "handling" THEN [NoJob EXCEPT !.close = TRUE]
                               ELSE NoJob]
  /\ Goto(t, IF nextPhase = "handling" THEN "queue" ELSE "idle")
  /\ UNCHANGED <<tls, mode, buffers, fileVars, closeAfter, resumeAfter, isWriting, removed, io,
                 made, history, wire>>

----
\* Completions, on the loop's thread

\* Mutant: a partial write counts as a whole one.
Unsent_None(buffer, n) == << >>

Unsent(buffer, n) == SubSeq(buffer, n + 1, Len(buffer))

\* on_write_complete / on_sendfile_complete after n pieces were sent.
WriteComplete(n) ==
  /\ io = "write" /\ pc[Loop] = "idle"
  /\ LET sent == IF tls THEN inflight ELSE activeBuffer
     IN  /\ n \in 1 .. Len(sent)
         /\ wire' = wire \o SubSeq(sent, 1, n)
         /\ inflight' = IF tls THEN Unsent(inflight, n) ELSE inflight
         /\ activeBuffer' = IF tls THEN activeBuffer ELSE Unsent(activeBuffer, n)
  /\ io' = "none"
  /\ Goto(Loop, "unlatch")
  /\ UNCHANGED <<tls, mode, phase, writeBuffer, tlsBuffer, chunk, fileVars, closeAfter, resumeAfter,
                 isWriting, removed, job, made, history>>

SendfileComplete(n) ==
  /\ io = "sendfile" /\ pc[Loop] = "idle"
  /\ n \in 1 .. Len(fileLeft)
  /\ wire' = wire \o SubSeq(fileLeft, 1, n)
  /\ fileLeft' = Unsent(fileLeft, n)
  /\ io' = "none"
  /\ Goto(Loop, "unlatch")
  /\ UNCHANGED <<tls, mode, phase, buffers, fileOpen, storing, torn, closeAfter, resumeAfter, isWriting,
                 removed, job, made, history>>

\* The socket's buffer was full: nothing was sent, try again.
WriteWouldBlock ==
  /\ io # "none" /\ pc[Loop] = "idle"
  /\ io' = "none"
  /\ Goto(Loop, "unlatch")
  /\ UNCHANGED <<tls, mode, phase, buffers, fileVars, closeAfter, resumeAfter, isWriting, removed,
                 job, made, history, wire>>

\* The write failed: the connection is removed, is_writing_ stays set.
WriteFailed ==
  /\ io # "none" /\ pc[Loop] = "idle"
  /\ removed' = IF removed = "no" THEN "error" ELSE removed
  /\ io' = "none"
  /\ UNCHANGED <<tls, mode, phase, buffers, fileVars, closeAfter, resumeAfter, isWriting, pc, job,
                 made, history, wire>>

\* The read side or a timer removes the connection.
PeerGone ==
  /\ removed = "no" /\ pc[Loop] = "idle"
  /\ removed' = "peer"
  /\ Goto(Loop, "cancel")
  /\ UNCHANGED <<tls, mode, phase, buffers, fileVars, closeAfter, resumeAfter, isWriting, io, job,
                 made, history, wire>>

Step(t) ==
  \/ SetFile(t) \/ StoreFile(t) \/ StoreExtent(t) \/ SendData(t) \/ Win(t) \/ Lose(t)
  \/ Gather(t) \/ Take(t) \/ LookAtFile(t) \/ CloseFile(t) \/ SubmitTls(t) \/ ClearWriting(t) \/ LastLook(t) \/ Cancel(t)
  \/ Encrypt(t, FALSE)

Environment ==
  \/ \E t \in Threads, nextPhase \in {"granted", "reading", "handling"} : Continue(t, nextPhase)
  \/ \E t \in Threads : Encrypt(t, TRUE) \/ Message(t) \/ MarkForClose(t)
  \/ \E t \in Workers, kind \in Kinds, last \in BOOLEAN : HandlerResponds(t, kind, last)
  \/ LoopRespondsError \/ RequestRead \/ TlsReadMakesRecord
  \/ WriteWouldBlock \/ WriteFailed \/ PeerGone

Sent(n) == WriteComplete(n) \/ SendfileComplete(n)

Next ==
  \/ \E t \in Threads : Step(t)
  \/ Environment
  \/ \E n \in 1 .. Len(queued) + MaxRecords : Sent(n)

Spec == Init /\ [][Next]_vars

\* Threads run on; a peer that keeps its connection open reads in the end.
FairSpec ==
  /\ Spec
  /\ \A t \in Threads :
       WF_vars(Step(t) \/ \E nextPhase \in {"granted", "reading", "handling"} : Continue(t, nextPhase))
  /\ SF_vars(\E n \in 1 .. Len(queued) + MaxRecords : Sent(n))

----
\* Properties

\* One writer: is_writing_ admits a single thread to the write path, and none
\* while the proactor holds an operation, so no two writes overlap.
WriterExclusive ==
  LET writers == {t \in Threads : pc[t] \in WriterPcs}
      pending == IF io = "none" THEN 0 ELSE 1
  IN  /\ Cardinality(writers) + pending <= 1
      /\ writers # {} \/ io # "none" => isWriting

\* What the proactor was handed stays put until the write completes: neither the
\* next response nor a TLS record moves the buffer under the kernel.
InFlightStable ==
  [][io = "write" /\ io' = "write" =>
       IF tls THEN inflight' = inflight ELSE activeBuffer' = activeBuffer]_vars

\* Nothing is left behind: when every thread has returned and the proactor is
\* done, nothing queued is unsent, no file is half sent and no close or next
\* request is still owed.
NothingStranded ==
  (\A t \in Threads : pc[t] = "idle") /\ io = "none" /\ removed = "no" =>
    /\ writeBuffer = << >> /\ activeBuffer = << >> /\ tlsBuffer = << >> /\ inflight = << >>
    /\ ~fileOpen /\ ~closeAfter /\ ~resumeAfter

IsText(piece) == piece[1] = "text"

\* The peer receives the responses and messages that were queued, each once, and
\* none before those queued ahead of it, however the writes are cut up.
InOrder ==
  /\ \A i, j \in 1 .. Len(wire) : IsText(wire[i]) /\ wire[i] = wire[j] => i = j
  /\ \A j \in 1 .. Len(wire) : IsText(wire[j]) =>
       \E k \in 1 .. Len(queued) :
         /\ queued[k] = wire[j]
         /\ \A i \in 1 .. k - 1 : IsText(queued[i]) => \E h \in 1 .. j - 1 : wire[h] = queued[i]

\* A connection that closes by request has sent everything queued before the
\* request: the last response is never cut short.
AllSentAtClose ==
  removed = "close" => \A i \in 1 .. closeMark : \E j \in 1 .. Len(wire) : wire[j] = queued[i]

\* ... in plaintext.
CloseAfterQueued == ~tls => AllSentAtClose

\* Removal leaves no I/O behind: nothing is submitted once new I/O was barred,
\* and what was pending is cancelled.
RemovedQuiet == removed # "no" /\ (\A t \in Threads : pc[t] # "cancel") => io = "none"

\* The next pipelined request is taken up only once every part of every file
\* response was sent or encrypted, so no response overwrites the state of another's
\* file; over TLS, parts that the writer read or closed as send() stored them are
\* excepted, and may be lost or sent twice (see README).
FileBeforeNext ==
  [][\A t \in Threads : pc[t] = "continue" /\ pc'[t] = "idle" =>
       \A i \in 1 .. Len(queued) : ~IsText(queued[i]) =>
         queued[i] \in Range(wire) \cup Range(inflight) \cup torn]_vars

\* Output never stays behind: again and again everything queued so far has been
\* sent, but for torn files, unless the connection goes away.
OutputDelivered ==
  []<>(removed # "no" \/ \A i \in 1 .. Len(queued) : queued[i] \in Range(wire) \cup torn)

====
