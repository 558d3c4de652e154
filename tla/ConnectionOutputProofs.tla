---- MODULE ConnectionOutputProofs ----
\* The write side of a connection, proved for any number of workers and
\* responses, for files of any length, in plaintext and over TLS.
EXTENDS MCConnectionOutput, FiniteSetTheorems, SequenceTheorems, TLAPS

Pieces == {Text(n) : n \in Nat} \cup {FilePart(n, k) : n, k \in Nat} \cup {Record(n) : n \in Nat}
Jobs == [items : Seq(Pieces), file : Seq(Pieces), close : BOOLEAN, then : {"idle", "continue"}]

\* The end of a sequence.
LEMMA SuffixParts ==
  ASSUME NEW s \in Seq(Pieces)
  PROVE  \A x \in Suffixes(s) :
           x \in Seq(Pieces) /\ \A i \in 1 .. Len(x) : \E j \in 1 .. Len(s) : x[i] = s[j]
<1> SUFFICES ASSUME NEW x \in Suffixes(s)
             PROVE  x \in Seq(Pieces) /\ \A i \in 1 .. Len(x) : \E j \in 1 .. Len(s) : x[i] = s[j] OBVIOUS
<1>1. CASE x = << >> BY <1>1
<1>2. ASSUME NEW l \in 1 .. Len(s), x = SubSeq(s, l, Len(s))
      PROVE  x \in Seq(Pieces) /\ \A i \in 1 .. Len(x) : \E j \in 1 .. Len(s) : x[i] = s[j]
  <2>1. /\ x \in Seq(Pieces) /\ Len(x) = Len(s) - l + 1
        /\ \A i \in 1 .. Len(x) : x[i] = s[l + i - 1] /\ l + i - 1 \in 1 .. Len(s) BY <1>2, SubSeqProperties
  <2> QED BY <2>1
<1> QED BY <1>1, <1>2 DEF Suffixes

\* What the buffers hold, beyond TypeOK.
BuffersOK ==
  /\ writeBuffer \in Seq(Pieces) /\ activeBuffer \in Seq(Pieces) /\ tlsBuffer \in Seq(Pieces)
  /\ inflight \in Seq(Pieces) /\ chunk \in Seq(Pieces) /\ fileLeft \in Seq(Pieces)
  /\ queued \in Seq(Pieces) /\ wire \in Seq(Pieces)
  /\ job \in [Threads -> Jobs]
  /\ made \in [texts : Nat, records : Nat]
  /\ closeMark \in Nat

----
\* Who may write

\* One thread holds is_writing_, or the proactor does for it.
OneWriter ==
  /\ \A t, u \in Threads : pc[t] \in WriterPcs /\ pc[u] \in WriterPcs => t = u
  /\ \A t \in Threads : pc[t] \in WriterPcs => io = "none" /\ isWriting
  /\ io # "none" => isWriting
  /\ removed = "no" /\ isWriting => io # "none" \/ \E t \in Threads : pc[t] \in WriterPcs

\* Only removal cancels.
CancelsRemoved == \A t \in Threads : pc[t] = "cancel" => removed # "no"

\* Each kind of connection uses its own buffers and its own branch.
TlsApart ==
  /\ ~tls => /\ inflight = << >> /\ tlsBuffer = << >> /\ chunk = << >>
             /\ \A t \in Threads :
                  pc[t] \notin {"take", "encrypt", "lookAtFile", "closeFile", "submit", "storeExtent"}
             /\ torn = {} /\ ~storing
  /\ tls => /\ activeBuffer = << >> /\ io # "sendfile"
            /\ \A t \in Threads : pc[t] # "gather"
  /\ chunk # << >> => \E t \in Threads : pc[t] = "encrypt"

----
\* Whose turn it is to respond

\* Where send() stores a file.
FilePcs == {"setFile", "storeExtent"}
USE DEF FilePcs

\* A thread that has yet to set a file, or to go on to the next request.
Holder(t) == pc[t] \in FilePcs \cup {"continue"} \/ job[t].then = "continue"

\* The turn to respond is in one place: a thread, a file that is being sent, or
\* the phase.
OneTurn ==
  /\ \A t, u \in Threads : Holder(t) /\ Holder(u) => t = u
  /\ \A t \in Threads : Holder(t) =>
       phase = "handling" /\ ~resumeAfter /\ IF pc[t] = "storeExtent" THEN storing ELSE fileLeft = << >>
  /\ resumeAfter \/ fileLeft # << >> => phase = "handling"

FileKept ==
  /\ fileLeft # << >> => fileOpen
  /\ \A i \in 1 .. Len(fileLeft) : ~IsText(fileLeft[i])

----
\* Somebody looks again

LookingPcs == WriterPcs \cup {"storeExtent", "queue", "cas", "pending"}
AttendingPcs == {"cas", "gather", "take", "encrypt", "lookAtFile", "closeFile", "submit", "unlatch"}

Stirred == io # "none" \/ \E t \in Threads : pc[t] \in LookingPcs
Attended == io # "none" \/ \E t \in Threads : pc[t] \in AttendingPcs

\* A file to be closed, and not one whose extent is yet to be stored.
FileDone == fileOpen /\ fileLeft = << >> /\ ~storing

\* What is still to be done has a thread or the proactor that will do it; the
\* last look may miss ciphertext in flight and a file sent to its end, so those
\* have somebody that is not past them.
SomebodyLooks ==
  /\ removed = "no" /\ (\/ writeBuffer # << >> \/ activeBuffer # << >> \/ tlsBuffer # << >>
                        \/ fileOpen \/ closeAfter \/ resumeAfter) => Stirred
  /\ removed = "no" /\ (inflight # << >> \/ FileDone) => Attended
  /\ \A t \in Threads : pc[t] = "clear" => inflight = << >> /\ ~FileDone

----
\* The order of the texts

\* Everything sent or on its way, in the order in which it will be sent.
Line == wire \o (inflight \o (tlsBuffer \o (chunk \o (activeBuffer \o writeBuffer))))

\* The texts of s are those of q, each once and in the same order.
SameTexts(q, s) ==
  /\ \A i, j \in 1 .. Len(q) : IsText(q[i]) /\ q[i] = q[j] => i = j
  /\ \A i, j \in 1 .. Len(s) : IsText(s[i]) /\ s[i] = s[j] => i = j
  /\ \A i \in 1 .. Len(q) : IsText(q[i]) => \E j \in 1 .. Len(s) : s[j] = q[i]
  /\ \A j \in 1 .. Len(s) : IsText(s[j]) => \E i \in 1 .. Len(q) : q[i] = s[j]
  /\ \A i, k \in 1 .. Len(q) : i < k /\ IsText(q[i]) /\ IsText(q[k]) =>
       \A j, l \in 1 .. Len(s) : s[j] = q[i] /\ s[l] = q[k] => j < l

\* A thread between making a response and queueing it.
Making(t) == pc[t] \in FilePcs \cup {"queue"} /\ job[t].items # << >>

\* Each response is queued once.
JobsFresh ==
  /\ \A t \in Threads :
       /\ \/ job[t].items = << >> /\ job[t].file = << >>
          \/ \E n \in 1 .. made.texts : job[t].items = <<Text(n)>>
       /\ \A i \in 1 .. Len(job[t].file) : ~IsText(job[t].file[i])
       /\ pc[t] \in FilePcs => job[t].file # << >> /\ job[t].then = "idle"
  /\ \A t \in Threads : Making(t) =>
       /\ \A i \in 1 .. Len(queued) : queued[i] # job[t].items[1]
       /\ \A u \in Threads : Making(u) /\ job[u].items[1] = job[t].items[1] => u = t
  /\ \A i \in 1 .. Len(queued) : IsText(queued[i]) =>
       \E n \in 1 .. made.texts : queued[i] = Text(n)

----
\* What has been sent at the close

\* What is left of a file that is being stored does not count yet.
Covered == Range(wire) \cup Range(inflight) \cup torn \cup (IF storing THEN {} ELSE Range(fileLeft))

\* No part of a file is dropped, but for the torn ones.
FilesSent ==
  /\ \A i \in 1 .. Len(queued) : ~IsText(queued[i]) => queued[i] \in Covered
  /\ \A t \in Threads : pc[t] = "queue" => Range(job[t].file) \subseteq Covered

CloseAsked == removed = "close" => closeAfter

OutInv ==
  /\ TypeOK /\ BuffersOK /\ OneWriter /\ CancelsRemoved /\ RemovedQuiet /\ TlsApart
  /\ OneTurn /\ FileKept /\ SomebodyLooks
  /\ JobsFresh /\ SameTexts(queued, Line)
  /\ FilesSent /\ CloseAsked /\ CloseAfterQueued

----
\* Types

\* A completion sends a natural number of pieces.
LEMMA SentCounts == BuffersOK => \A n \in 1 .. Len(queued) + MaxRecords : n \in Nat BY OutputAssumption DEF BuffersOK

\* The pieces and the jobs the actions build.
LEMMA PieceTypes ==
  /\ \A n \in Nat : <<Text(n)>> \in Seq(Pieces) /\ FileOf(n) \in Seq(Pieces) /\ Record(n) \in Pieces
  /\ NoJob \in Jobs /\ [NoJob EXCEPT !.close = TRUE] \in Jobs
  /\ << >> \in Seq(Pieces)
<1>1. \A n \in Nat : Text(n) \in Pieces /\ Record(n) \in Pieces BY DEF Pieces
<1>2. \A n \in Nat : <<Text(n)>> \in Seq(Pieces) BY <1>1
<1>3. ASSUME NEW n \in Nat PROVE FileOf(n) \in Seq(Pieces)
  <2>1. \A k \in 1 .. FileParts : FilePart(n, k) \in Pieces BY OutputAssumption DEF Pieces
  <2>2. FileOf(n) \in [1 .. FileParts -> Pieces] BY <2>1 DEF FileOf
  <2> QED BY <2>2, OutputAssumption, SeqDef
<1>4. << >> \in Seq(Pieces) OBVIOUS
<1>5. NoJob \in Jobs /\ [NoJob EXCEPT !.close = TRUE] \in Jobs BY <1>4 DEF NoJob, Jobs
<1> QED BY <1>1, <1>2, <1>3, <1>4, <1>5

\* Where trigger_write() returns to, and what removing the connection leaves.
LEMMA ReturnTypes ==
  ASSUME TypeOK, BuffersOK, NEW t \in Threads
  PROVE  /\ Return(t) => pc' \in [Threads -> Pcs] /\ job' \in [Threads -> Jobs]
         /\ \A place \in Pcs : Goto(t, place) => pc' \in [Threads -> Pcs]
         /\ \A why \in {"close", "error"} : RemoveConnection(t, why) =>
              /\ pc' \in [Threads -> Pcs] /\ job' \in [Threads -> Jobs]
              /\ removed' \in {"no", "close", "error", "peer"}
<1>1. /\ pc \in [Threads -> Pcs] /\ job \in [Threads -> Jobs]
      /\ removed \in {"no", "close", "error", "peer"} BY DEF TypeOK, BuffersOK
<1>2. job[t].then \in Pcs /\ "cancel" \in Pcs BY <1>1 DEF TypeOK, Pcs
<1>3. \A place \in Pcs : Goto(t, place) => pc' \in [Threads -> Pcs] BY <1>1 DEF Goto
<1>4. Return(t) => pc' \in [Threads -> Pcs] /\ job' \in [Threads -> Jobs] BY <1>1, <1>2, PieceTypes DEF Return, Goto
<1> QED BY <1>1, <1>2, <1>3, <1>4 DEF RemoveConnection

\* TypeOK is preserved by every step.
LEMMA TypesStep ==
  ASSUME TypeOK, BuffersOK, [Next]_vars
  PROVE  TypeOK'
<1> USE DEF Goto, buffers, fileVars, history, Threads
<1>1. ASSUME NEW t \in Threads, SetFile(t) \/ Win(t) \/ Lose(t) \/ Take(t) \/ CloseFile(t)
              \/ SubmitTls(t) \/ ClearWriting(t) \/ Cancel(t) \/ Message(t) \/ MarkForClose(t)
              \/ StoreFile(t) \/ StoreExtent(t) \/ LookAtFile(t)
      PROVE  TypeOK'
  <2> USE DEF TypeOK, BuffersOK, WriterPcs, Pcs, Jobs, NoJob
  <2>1. CASE SetFile(t) BY <2>1 DEF SetFile
  <2>2. CASE Win(t) BY <2>2 DEF Win
  <2>3. CASE Lose(t) BY <2>3 DEF Lose, Return
  <2>4. CASE Take(t) BY <2>4 DEF Take
  <2>5. CASE CloseFile(t) BY <2>5 DEF CloseFile, AfterFile
  <2>6. CASE SubmitTls(t) BY <2>6 DEF SubmitTls, Submit, Return
  <2>7. CASE ClearWriting(t) BY <2>7 DEF ClearWriting
  <2>8. CASE Cancel(t) BY <2>8 DEF Cancel, Return
  <2>9. CASE Message(t) BY <2>9 DEF Message
  <2>10. CASE MarkForClose(t) BY <2>10 DEF MarkForClose
  <2>11. CASE StoreFile(t) BY <2>11 DEF StoreFile
  <2>12. CASE StoreExtent(t) BY <2>12 DEF StoreExtent
  <2>13. CASE LookAtFile(t) BY <2>13 DEF LookAtFile, AfterFile
  <2> QED BY <1>1, <2>1, <2>2, <2>3, <2>4, <2>5, <2>6, <2>7, <2>8, <2>9, <2>10, <2>11, <2>12, <2>13
<1>2. ASSUME NEW t \in Threads, SendData(t)
      PROVE  TypeOK'
  <2>1. closeMark' <= Len(queued')
    <3>1. /\ job[t].items \in Seq(Pieces) /\ job[t].file \in Seq(Pieces)
          /\ queued \in Seq(Pieces) /\ closeMark \in Nat /\ closeMark <= Len(queued) BY DEF TypeOK, BuffersOK, Jobs
    <3>2. queued' = queued \o job[t].items \o job[t].file
          /\ (closeMark' = Len(queued') \/ closeMark' = closeMark) BY <1>2 DEF SendData
    <3>3. Len(queued \o job[t].items \o job[t].file)
            = Len(queued) + Len(job[t].items) + Len(job[t].file) BY <3>1, ConcatProperties
    <3>4. /\ Len(queued) \in Nat /\ Len(job[t].items) \in Nat /\ Len(job[t].file) \in Nat
          /\ Len(queued') = Len(queued) + Len(job[t].items) + Len(job[t].file) BY <3>1, <3>2, <3>3, LenProperties
    <3>5. \A a, b, c, m \in Nat : a + b + c <= a + b + c /\ (m <= a => m <= a + b + c) OBVIOUS
    <3>6. closeMark <= Len(queued') BY <3>1, <3>4, <3>5, Zenon
    <3>7. Len(queued') <= Len(queued') BY <3>4, <3>5, Zenon
    <3> QED BY <3>2, <3>6, <3>7
  <2>2. pc' \in [Threads -> Pcs] /\ closeAfter' \in BOOLEAN /\ job' = job
    BY <1>2 DEF SendData, TypeOK, BuffersOK, Jobs, Pcs
  <2> QED BY <1>2, <2>1, <2>2 DEF SendData, TypeOK
<1>5. ASSUME NEW t \in Threads, Gather(t)
      PROVE  TypeOK'
  <2>1. pc' \in [Threads -> Pcs] /\ job' \in [Threads -> Jobs]
    <3>1. CASE Goto(t, "clear") /\ job' = job BY <3>1, ReturnTypes DEF Pcs, WriterPcs, BuffersOK
    <3>2. CASE Return(t) BY <3>2, ReturnTypes
    <3> QED BY <1>5, <3>1, <3>2 DEF Gather, Submit
  <2>2. io' \in {"none", "write", "sendfile"} /\ fileOpen' \in BOOLEAN /\ isWriting' \in BOOLEAN
    BY <1>5 DEF Gather, Submit, TypeOK
  <2> QED BY <1>5, <2>1, <2>2 DEF Gather, TypeOK, Jobs
<1>7. ASSUME NEW t \in Threads, NEW readFails \in BOOLEAN, Encrypt(t, readFails)
      PROVE  TypeOK'
  <2>1. pc' \in [Threads -> Pcs] /\ job' \in [Threads -> Jobs] /\ isWriting' \in BOOLEAN
        /\ removed' \in {"no", "close", "error", "peer"}
    <3>1. CASE readFails BY <1>7, <3>1, ReturnTypes DEF Encrypt
    <3>2. CASE ~readFails
      <4>1. Goto(t, "lookAtFile") /\ UNCHANGED <<isWriting, removed, job>> BY <1>7, <3>2 DEF Encrypt
      <4>2. pc' \in [Threads -> Pcs] BY <4>1, ReturnTypes DEF Pcs, WriterPcs
      <4> QED BY <4>1, <4>2 DEF BuffersOK, TypeOK
    <3> QED BY <3>1, <3>2
  <2> QED BY <1>7, <2>1 DEF Encrypt, TypeOK, Jobs
<1>11. ASSUME NEW t \in Threads, LastLook(t)
      PROVE  TypeOK'
  <2>1. pc' \in [Threads -> Pcs] /\ job' \in [Threads -> Jobs]
        /\ removed' \in {"no", "close", "error", "peer"} /\ resumeAfter' \in BOOLEAN
    BY <1>11, ReturnTypes DEF LastLook, Pcs, BuffersOK, TypeOK
  <2> QED BY <1>11, <2>1 DEF LastLook, TypeOK, Jobs
<1>13. ASSUME NEW t \in Threads, NEW nextPhase \in {"granted", "reading", "handling"},
              Continue(t, nextPhase)
      PROVE  TypeOK' BY <1>13 DEF Continue, TypeOK, BuffersOK, WriterPcs, Pcs, Jobs, NoJob
<1>16. ASSUME NEW t \in Workers, NEW kind \in Kinds, NEW last \in BOOLEAN,
              HandlerResponds(t, kind, last)
      PROVE  TypeOK' BY <1>16 DEF HandlerResponds, Respond, TypeOK, BuffersOK, WriterPcs, Pcs, Jobs, NoJob
<1>17. CASE LoopRespondsError \/ RequestRead \/ TlsReadMakesRecord \/ WriteWouldBlock \/ WriteFailed
            \/ PeerGone
  <2> USE DEF TypeOK, BuffersOK, WriterPcs, Pcs, Jobs, NoJob
  <2>1. CASE LoopRespondsError BY <2>1 DEF LoopRespondsError, Respond
  <2>2. CASE RequestRead BY <2>2 DEF RequestRead
  <2>3. CASE TlsReadMakesRecord BY <2>3 DEF TlsReadMakesRecord
  <2>4. CASE WriteWouldBlock BY <2>4 DEF WriteWouldBlock
  <2>5. CASE WriteFailed BY <2>5 DEF WriteFailed
  <2>6. CASE PeerGone BY <2>6 DEF PeerGone
  <2> QED BY <1>17, <2>1, <2>2, <2>3, <2>4, <2>5, <2>6
<1>23. ASSUME NEW n \in Nat, WriteComplete(n)
      PROVE  TypeOK' BY <1>23 DEF WriteComplete, Unsent, TypeOK, BuffersOK, WriterPcs, Pcs, Jobs, NoJob
<1>24. ASSUME NEW n \in Nat, SendfileComplete(n)
      PROVE  TypeOK' BY <1>24 DEF SendfileComplete, Unsent, TypeOK, BuffersOK, WriterPcs, Pcs, Jobs, NoJob
<1>25. CASE UNCHANGED vars BY <1>25 DEF vars, TypeOK, BuffersOK, WriterPcs, Pcs, Jobs, NoJob
<1> QED BY <1>1, <1>2, <1>5, <1>7, <1>11, <1>13, <1>16, <1>17, <1>23,
           <1>24, <1>25, SentCounts DEF Next, Step, Environment, Sent

\* The counters of what was made.
LEMMA MadeTypes ==
  ASSUME BuffersOK
  PROVE  /\ made.texts + 1 \in Nat /\ made.records + 1 \in Nat
         /\ [made EXCEPT !.texts = made.texts + 1] \in [texts : Nat, records : Nat]
         /\ [made EXCEPT !.records = made.records + 1] \in [texts : Nat, records : Nat]
<1>1. made \in [texts : Nat, records : Nat] BY DEF BuffersOK
<1>2. made.texts + 1 \in Nat /\ made.records + 1 \in Nat BY <1>1
<1> QED BY <1>1, <1>2

\* The job of send().
LEMMA RespondTypes ==
  ASSUME BuffersOK, NEW kind, NEW last \in BOOLEAN
  PROVE  [items |-> <<Text(made.texts + 1)>>,
          file  |-> IF kind = "file" THEN FileOf(made.texts + 1) ELSE << >>,
          close |-> last,
          then  |-> IF last \/ kind = "file" THEN "idle" ELSE "continue"] \in Jobs
<1>1. made.texts + 1 \in Nat BY MadeTypes
<1>2. /\ <<Text(made.texts + 1)>> \in Seq(Pieces)
      /\ (IF kind = "file" THEN FileOf(made.texts + 1) ELSE << >>) \in Seq(Pieces) BY <1>1, PieceTypes
<1>3. (IF last \/ kind = "file" THEN "idle" ELSE "continue") \in {"idle", "continue"} OBVIOUS
<1> QED BY <1>2, <1>3 DEF Jobs

\* So is what the buffers hold.
LEMMA BuffersStep ==
  ASSUME TypeOK, BuffersOK, [Next]_vars
  PROVE  BuffersOK'
<1> USE DEF Goto, buffers, fileVars, history, Threads
<1>1. ASSUME NEW t \in Threads, SetFile(t) \/ Win(t) \/ Lose(t) \/ Take(t) \/ CloseFile(t)
              \/ SubmitTls(t) \/ ClearWriting(t) \/ Cancel(t) \/ MarkForClose(t) \/ LookAtFile(t)
      PROVE  BuffersOK'
  <2> USE DEF BuffersOK, TypeOK, Jobs
  <2>1. CASE SetFile(t) BY <2>1, PieceTypes DEF SetFile
  <2>2. CASE Win(t) BY <2>2, PieceTypes DEF Win
  <2>3. CASE Lose(t) BY <2>3, PieceTypes DEF Lose, Return
  <2>4. CASE Take(t) BY <2>4, PieceTypes DEF Take
  <2>5. CASE CloseFile(t) BY <2>5, PieceTypes DEF CloseFile, AfterFile
  <2>6. CASE SubmitTls(t) BY <2>6, PieceTypes DEF SubmitTls, Submit, Return
  <2>7. CASE ClearWriting(t) BY <2>7, PieceTypes DEF ClearWriting
  <2>8. CASE Cancel(t) BY <2>8, PieceTypes DEF Cancel, Return
  <2>9. CASE MarkForClose(t) BY <2>9, PieceTypes DEF MarkForClose
  <2>10. CASE LookAtFile(t) BY <2>10, PieceTypes DEF LookAtFile, AfterFile
  <2> QED BY <1>1, <2>1, <2>2, <2>3, <2>4, <2>5, <2>6, <2>7, <2>8, <2>9, <2>10
<1>2. ASSUME NEW t \in Threads, SendData(t)
      PROVE  BuffersOK'
  <2>1. /\ writeBuffer' \in Seq(Pieces) /\ queued' \in Seq(Pieces)
        /\ closeMark' \in Nat
    <3>1. /\ job[t].items \in Seq(Pieces) /\ job[t].file \in Seq(Pieces)
          /\ queued \in Seq(Pieces) /\ writeBuffer \in Seq(Pieces) /\ closeMark \in Nat BY DEF BuffersOK, Jobs
    <3>2. /\ queued \o job[t].items \o job[t].file \in Seq(Pieces)
          /\ writeBuffer \o job[t].items \in Seq(Pieces) BY <3>1, ConcatProperties
    <3>3. Len(queued') \in Nat BY <1>2, <3>2, LenProperties DEF SendData
    <3> QED BY <1>2, <3>1, <3>2, <3>3 DEF SendData
  <2> QED BY <1>2, <2>1 DEF SendData, BuffersOK
<1>5. ASSUME NEW t \in Threads, Gather(t)
      PROVE  BuffersOK'
  <2>1. job' \in [Threads -> Jobs] BY <1>5, ReturnTypes DEF Gather, Submit, BuffersOK
  <2> QED BY <1>5, <2>1, PieceTypes DEF Gather, BuffersOK
<1>7. ASSUME NEW t \in Threads, NEW readFails \in BOOLEAN, Encrypt(t, readFails)
      PROVE  BuffersOK'
  <2>1. job' \in [Threads -> Jobs] BY <1>7, ReturnTypes DEF Encrypt, BuffersOK
  <2>2. fileLeft # << >> => <<Head(fileLeft)>> \in Seq(Pieces) /\ Tail(fileLeft) \in Seq(Pieces)
    BY HeadTailProperties DEF BuffersOK
  <2>3. tlsBuffer \o chunk \in Seq(Pieces) BY DEF BuffersOK
  <2>4. inflight' \in Seq(Pieces) /\ tlsBuffer' \in Seq(Pieces) /\ fileLeft' \in Seq(Pieces)
        /\ chunk' \in Seq(Pieces) BY <1>7, <2>2, <2>3, PieceTypes DEF Encrypt, BuffersOK
  <2> QED BY <1>7, <2>1, <2>4 DEF Encrypt, BuffersOK
<1>11. ASSUME NEW t \in Threads, LastLook(t)
      PROVE  BuffersOK'
  <2>1. job' \in [Threads -> Jobs] BY <1>11, ReturnTypes DEF LastLook, BuffersOK
  <2> QED BY <1>11, <2>1 DEF LastLook, BuffersOK
<1>13. ASSUME NEW t \in Threads, NEW nextPhase \in {"granted", "reading", "handling"},
              Continue(t, nextPhase)
      PROVE  BuffersOK' BY <1>13, PieceTypes DEF Continue, BuffersOK, TypeOK, Jobs
<1>14. ASSUME NEW t \in Threads, Message(t)
      PROVE  BuffersOK'
  <2>1. job' \in [Threads -> Jobs]
    <3>1. made.texts + 1 \in Nat BY MadeTypes
    <3>2. [NoJob EXCEPT !.items = <<Text(made.texts + 1)>>] \in Jobs BY <3>1, PieceTypes DEF NoJob, Jobs
    <3> QED BY <1>14, <3>2 DEF Message, BuffersOK
  <2>2. made' \in [texts : Nat, records : Nat]
    <3>1. /\ [made EXCEPT !.texts = made.texts + 1] \in [texts : Nat, records : Nat]
          /\ [made EXCEPT !.records = made.records + 1] \in [texts : Nat, records : Nat] BY MadeTypes
    <3> QED BY <1>14, <3>1 DEF Message
  <2> QED BY <1>14, <2>1, <2>2 DEF Message, BuffersOK
<1>16. ASSUME NEW t \in Workers, NEW kind \in Kinds, NEW last \in BOOLEAN,
              HandlerResponds(t, kind, last)
      PROVE  BuffersOK'
  <2>1. job' \in [Threads -> Jobs] BY <1>16, RespondTypes DEF HandlerResponds, Respond, BuffersOK
  <2>2. made' \in [texts : Nat, records : Nat]
    <3>1. /\ [made EXCEPT !.texts = made.texts + 1] \in [texts : Nat, records : Nat]
          /\ [made EXCEPT !.records = made.records + 1] \in [texts : Nat, records : Nat] BY MadeTypes
    <3> QED BY <1>16, <3>1 DEF HandlerResponds, Respond
  <2> QED BY <1>16, <2>1, <2>2 DEF HandlerResponds, Respond, BuffersOK
<1>17. CASE LoopRespondsError
  <2>1. job' \in [Threads -> Jobs] BY <1>17, RespondTypes DEF LoopRespondsError, Respond, BuffersOK
  <2>2. made' \in [texts : Nat, records : Nat]
    <3>1. /\ [made EXCEPT !.texts = made.texts + 1] \in [texts : Nat, records : Nat]
          /\ [made EXCEPT !.records = made.records + 1] \in [texts : Nat, records : Nat] BY MadeTypes
    <3> QED BY <1>17, <3>1 DEF LoopRespondsError, Respond
  <2> QED BY <1>17, <2>1, <2>2 DEF LoopRespondsError, Respond, BuffersOK
<1>18. CASE RequestRead BY <1>18, PieceTypes DEF RequestRead, BuffersOK, TypeOK, Jobs
<1>19. CASE TlsReadMakesRecord
  <2>1. tlsBuffer' \in Seq(Pieces)
    <3>1. Record(made.records + 1) \in Pieces BY PieceTypes, MadeTypes
    <3> QED BY <1>19, <3>1, AppendProperties DEF TlsReadMakesRecord, BuffersOK
  <2>2. made' \in [texts : Nat, records : Nat]
    <3>1. /\ [made EXCEPT !.texts = made.texts + 1] \in [texts : Nat, records : Nat]
          /\ [made EXCEPT !.records = made.records + 1] \in [texts : Nat, records : Nat] BY MadeTypes
    <3> QED BY <1>19, <3>1 DEF TlsReadMakesRecord
  <2> QED BY <1>19, <2>1, <2>2 DEF TlsReadMakesRecord, BuffersOK
<1>20. CASE WriteWouldBlock BY <1>20, PieceTypes DEF WriteWouldBlock, BuffersOK, TypeOK, Jobs
<1>21. CASE WriteFailed BY <1>21, PieceTypes DEF WriteFailed, BuffersOK, TypeOK, Jobs
<1>22. CASE PeerGone BY <1>22, PieceTypes DEF PeerGone, BuffersOK, TypeOK, Jobs
<1>23. ASSUME NEW n \in Nat, WriteComplete(n)
      PROVE  BuffersOK'
  <2>1. \A s \in Seq(Pieces) : n <= Len(s) =>
          SubSeq(s, 1, n) \in Seq(Pieces) /\ SubSeq(s, n + 1, Len(s)) \in Seq(Pieces) BY SubSeqProperties
  <2>2. inflight' \in Seq(Pieces) /\ activeBuffer' \in Seq(Pieces) /\ wire' \in Seq(Pieces)
    <3>1. CASE tls
      <4>1. n <= Len(inflight) /\ wire' = wire \o SubSeq(inflight, 1, n)
            /\ inflight' = SubSeq(inflight, n + 1, Len(inflight)) /\ activeBuffer' = activeBuffer
        BY <1>23, <3>1 DEF WriteComplete, Unsent
      <4> QED BY <4>1, <2>1, ConcatProperties DEF BuffersOK
    <3>2. CASE ~tls
      <4>1. n <= Len(activeBuffer) /\ wire' = wire \o SubSeq(activeBuffer, 1, n)
            /\ activeBuffer' = SubSeq(activeBuffer, n + 1, Len(activeBuffer)) /\ inflight' = inflight
        BY <1>23, <3>2 DEF WriteComplete, Unsent
      <4> QED BY <4>1, <2>1, ConcatProperties DEF BuffersOK
    <3> QED BY <3>1, <3>2
  <2> QED BY <1>23, <2>2 DEF WriteComplete, BuffersOK
<1>24. ASSUME NEW n \in Nat, SendfileComplete(n)
      PROVE  BuffersOK'
  <2>1. \A s \in Seq(Pieces) : n <= Len(s) =>
          SubSeq(s, 1, n) \in Seq(Pieces) /\ SubSeq(s, n + 1, Len(s)) \in Seq(Pieces) BY SubSeqProperties
  <2>2. fileLeft' \in Seq(Pieces) /\ wire' \in Seq(Pieces) BY <1>24, <2>1 DEF SendfileComplete, Unsent, BuffersOK
  <2> QED BY <1>24, <2>2 DEF SendfileComplete, BuffersOK
<1>25. CASE UNCHANGED vars BY <1>25 DEF vars, BuffersOK, TypeOK, Jobs
<1>26. ASSUME NEW t \in Threads, StoreFile(t)
      PROVE  BuffersOK'
  <2>1. job[t].file \in Seq(Pieces) BY DEF BuffersOK, Jobs
  <2>2. fileLeft' \in Seq(Pieces) BY <1>26, <2>1, SuffixParts DEF StoreFile
  <2> QED BY <1>26, <2>2 DEF StoreFile, BuffersOK
<1>27. ASSUME NEW t \in Threads, StoreExtent(t)
      PROVE  BuffersOK'
  <2>1. job[t].file \in Seq(Pieces) BY DEF BuffersOK, Jobs
  <2>2. fileLeft' = << >> \/ fileLeft' = job[t].file \/ fileLeft' \in Suffixes(job[t].file) BY <1>27 DEF StoreExtent
  <2>3. << >> \in Seq(Pieces) /\ \A x \in Suffixes(job[t].file) : x \in Seq(Pieces) BY <2>1, SuffixParts, PieceTypes
  <2>4. fileLeft' \in Seq(Pieces) BY <2>1, <2>2, <2>3
  <2> QED BY <1>27, <2>4 DEF StoreExtent, BuffersOK
<1> QED BY <1>1, <1>2, <1>5, <1>7, <1>11, <1>13, <1>14, <1>16, <1>17, <1>18, <1>19, <1>20, <1>21, <1>22, <1>23,
           <1>24, <1>25, <1>26, <1>27, SentCounts DEF Next, Step, Environment, Sent

----
\* Who may write

\* is_writing_ stays with one thread or with the proactor, and removal leaves no I/O.
LEMMA WriterStep ==
  ASSUME TypeOK, BuffersOK, OneWriter, CancelsRemoved, RemovedQuiet, [Next]_vars
  PROVE  OneWriter' /\ CancelsRemoved' /\ RemovedQuiet'
<1> USE DEF Goto, buffers, fileVars, history, Threads
<1>1. ASSUME NEW t \in Threads, SetFile(t) \/ SendData(t) \/ Win(t) \/ Lose(t) \/ Gather(t) \/ Take(t)
              \/ CloseFile(t) \/ SubmitTls(t) \/ ClearWriting(t) \/ LastLook(t) \/ Cancel(t)
              \/ Message(t) \/ MarkForClose(t) \/ StoreFile(t) \/ StoreExtent(t) \/ LookAtFile(t)
      PROVE  OneWriter' /\ CancelsRemoved' /\ RemovedQuiet'
  <2> USE DEF TypeOK, OneWriter, CancelsRemoved, RemovedQuiet, WriterPcs
  <2>1. CASE SetFile(t) BY <2>1 DEF SetFile
  <2>2. CASE SendData(t) BY <2>2 DEF SendData
  <2>3. CASE Win(t) BY <2>3 DEF Win
  <2>4. CASE Lose(t) BY <2>4 DEF Lose, Return
  <2>5. CASE Gather(t) BY <2>5 DEF Gather, Submit, Return
  <2>6. CASE Take(t) BY <2>6 DEF Take
  <2>7. CASE CloseFile(t) BY <2>7 DEF CloseFile, AfterFile
  <2>8. CASE SubmitTls(t) BY <2>8 DEF SubmitTls, Submit, Return
  <2>9. CASE ClearWriting(t) BY <2>9 DEF ClearWriting
  <2>10. CASE LastLook(t) BY <2>10 DEF LastLook, PendingOutput, RemoveConnection, Return
  <2>11. CASE Cancel(t) BY <2>11 DEF Cancel, Return
  <2>12. CASE Message(t) BY <2>12 DEF Message
  <2>13. CASE MarkForClose(t) BY <2>13 DEF MarkForClose
  <2>14. CASE StoreFile(t) BY <2>14 DEF StoreFile
  <2>15. CASE StoreExtent(t) BY <2>15 DEF StoreExtent
  <2>16. CASE LookAtFile(t) BY <2>16 DEF LookAtFile, AfterFile
  <2> QED BY <1>1, <2>1, <2>2, <2>3, <2>4, <2>5, <2>6, <2>7, <2>8, <2>9, <2>10, <2>11, <2>12, <2>13, <2>14,
    <2>15, <2>16
<1>7. ASSUME NEW t \in Threads, NEW readFails \in BOOLEAN, Encrypt(t, readFails)
      PROVE  OneWriter' /\ CancelsRemoved' /\ RemovedQuiet'
  BY <1>7 DEF Encrypt, RemoveConnection, Return, TypeOK, OneWriter, CancelsRemoved, RemovedQuiet, WriterPcs
<1>13. ASSUME NEW t \in Threads, NEW nextPhase \in {"granted", "reading", "handling"},
              Continue(t, nextPhase)
      PROVE  OneWriter' /\ CancelsRemoved' /\ RemovedQuiet'
  BY <1>13 DEF Continue, TypeOK, OneWriter, CancelsRemoved, RemovedQuiet, WriterPcs
<1>16. ASSUME NEW t \in Workers, NEW kind \in Kinds, NEW last \in BOOLEAN,
              HandlerResponds(t, kind, last)
      PROVE  OneWriter' /\ CancelsRemoved' /\ RemovedQuiet'
  BY <1>16 DEF HandlerResponds, Respond, TypeOK, OneWriter, CancelsRemoved, RemovedQuiet, WriterPcs
<1>17. CASE LoopRespondsError \/ RequestRead \/ TlsReadMakesRecord \/ WriteWouldBlock \/ WriteFailed
            \/ PeerGone
  <2> USE DEF TypeOK, OneWriter, CancelsRemoved, RemovedQuiet, WriterPcs
  <2>1. CASE LoopRespondsError BY <2>1 DEF LoopRespondsError, Respond
  <2>2. CASE RequestRead BY <2>2 DEF RequestRead
  <2>3. CASE TlsReadMakesRecord BY <2>3 DEF TlsReadMakesRecord
  <2>4. CASE WriteWouldBlock BY <2>4 DEF WriteWouldBlock
  <2>5. CASE WriteFailed BY <2>5 DEF WriteFailed
  <2>6. CASE PeerGone BY <2>6 DEF PeerGone
  <2> QED BY <1>17, <2>1, <2>2, <2>3, <2>4, <2>5, <2>6
<1>23. ASSUME NEW n \in Nat, WriteComplete(n)
      PROVE  OneWriter' /\ CancelsRemoved' /\ RemovedQuiet'
  BY <1>23 DEF WriteComplete, Unsent, TypeOK, OneWriter, CancelsRemoved, RemovedQuiet, WriterPcs
<1>24. ASSUME NEW n \in Nat, SendfileComplete(n)
      PROVE  OneWriter' /\ CancelsRemoved' /\ RemovedQuiet'
  BY <1>24 DEF SendfileComplete, Unsent, TypeOK, OneWriter, CancelsRemoved, RemovedQuiet, WriterPcs
<1>25. CASE UNCHANGED vars BY <1>25 DEF vars, TypeOK, OneWriter, CancelsRemoved, RemovedQuiet, WriterPcs
<1> QED BY <1>1, <1>7, <1>13, <1>16, <1>17, <1>23,
           <1>24, <1>25, SentCounts DEF Next, Step, Environment, Sent

----
\* Whose turn it is

\* Thread u has the turn after a step only if it had it.
Keeps(u) == Holder(u)' => Holder(u) /\ (pc[u] = "storeExtent" <=> pc'[u] = "storeExtent")

\* Nobody gets the turn by returning from trigger_write() or by removing the connection.
LEMMA ReturnKeepsTurn ==
  ASSUME TypeOK, BuffersOK, NEW t \in Threads, pc[t] \in Pcs \ {"setFile", "storeExtent", "continue"}
  PROVE  /\ Return(t) => \A u \in Threads : Keeps(u)
         /\ \A place \in Pcs \ {"setFile", "storeExtent", "continue"} :
              Goto(t, place) /\ job' = job => \A u \in Threads : Keeps(u)
         /\ \A why : RemoveConnection(t, why) => \A u \in Threads : Keeps(u)
<1>1. Return(t) => \A u \in Threads : Keeps(u) BY DEF TypeOK, BuffersOK, Return, Goto, Holder, Keeps, NoJob
<1>2. \A place \in Pcs \ {"setFile", "storeExtent", "continue"} :
        Goto(t, place) /\ job' = job => \A u \in Threads : Keeps(u) BY DEF TypeOK, Goto, Holder, Keeps
<1>3. "cancel" \in Pcs \ {"setFile", "storeExtent", "continue"} BY DEF Pcs
<1> QED BY <1>1, <1>2, <1>3 DEF RemoveConnection

\* The turn to respond stays in one place.
LEMMA TurnStep ==
  ASSUME TypeOK, BuffersOK, OneTurn, FileKept, OneWriter, TlsApart, JobsFresh, [Next]_vars
  PROVE  OneTurn' /\ (fileLeft' # << >> => fileOpen')
<1> USE DEF Goto, buffers, fileVars, history, Threads
<1>1. ASSUME NEW t \in Threads, SetFile(t)
      PROVE  OneTurn' /\ (fileLeft' # << >> => fileOpen')
  <2>1. /\ job[t].then = "idle" /\ Holder(t) /\ phase = "handling" BY <1>1 DEF SetFile, JobsFresh, Holder, OneTurn
  <2>2. \A u \in Threads : ~Holder(u)' BY <1>1, <2>1 DEF SetFile, TypeOK, Holder, OneTurn
  <2> QED BY <1>1, <2>1, <2>2 DEF SetFile, OneTurn
<1>2. ASSUME NEW t \in Threads, SendData(t) \/ Win(t) \/ Lose(t) \/ Take(t) \/ CloseFile(t)
              \/ SubmitTls(t) \/ ClearWriting(t) \/ Cancel(t) \/ Message(t) \/ MarkForClose(t)
              \/ LookAtFile(t)
      PROVE  OneTurn' /\ (fileLeft' # << >> => fileOpen')
  <2> USE DEF TypeOK, BuffersOK, OneTurn, FileKept, Holder, Jobs, NoJob
  <2>1. CASE SendData(t) BY <2>1 DEF SendData
  <2>2. CASE Win(t) BY <2>2 DEF Win
  <2>3. CASE Lose(t) BY <2>3 DEF Lose, Return
  <2>4. CASE Take(t) BY <2>4 DEF Take
  <2>5. CASE CloseFile(t) BY <2>5 DEF CloseFile, AfterFile
  <2>6. CASE SubmitTls(t) BY <2>6 DEF SubmitTls, Submit, Return
  <2>7. CASE ClearWriting(t) BY <2>7 DEF ClearWriting
  <2>8. CASE Cancel(t) BY <2>8 DEF Cancel, Return
  <2>9. CASE Message(t) BY <2>9 DEF Message
  <2>10. CASE MarkForClose(t) BY <2>10 DEF MarkForClose
  <2>11. CASE LookAtFile(t) BY <2>11 DEF LookAtFile, AfterFile
  <2> QED BY <1>2, <2>1, <2>2, <2>3, <2>4, <2>5, <2>6, <2>7, <2>8, <2>9, <2>10, <2>11
<1>5. ASSUME NEW t \in Threads, Gather(t)
      PROVE  OneTurn' /\ (fileLeft' # << >> => fileOpen')
  <2>1. \A u \in Threads : Keeps(u)
    <3>1. CASE Return(t) BY <1>5, <3>1, ReturnKeepsTurn DEF Gather, Pcs, WriterPcs
    <3>2. CASE Goto(t, "clear") /\ job' = job BY <1>5, <3>2, ReturnKeepsTurn DEF Gather, Pcs, WriterPcs
    <3> QED BY <1>5, <3>1, <3>2 DEF Gather, Submit
  <2>2. /\ UNCHANGED <<phase, resumeAfter, fileLeft, storing>>
        /\ fileLeft # << >> /\ fileOpen => fileOpen' BY <1>5 DEF Gather, Submit
  <2> QED BY <2>1, <2>2 DEF OneTurn, FileKept, Keeps
<1>7. ASSUME NEW t \in Threads, NEW readFails \in BOOLEAN, Encrypt(t, readFails)
      PROVE  OneTurn' /\ (fileLeft' # << >> => fileOpen')
  <2>1. \A u \in Threads : Keeps(u)
    <3>1. CASE readFails BY <1>7, <3>1, ReturnKeepsTurn DEF Encrypt, Pcs, WriterPcs
    <3>2. CASE ~readFails BY <1>7, <3>2, ReturnKeepsTurn DEF Encrypt, Pcs, WriterPcs
    <3> QED BY <3>1, <3>2
  <2>2. /\ UNCHANGED <<phase, resumeAfter, fileOpen, storing>>
        /\ fileLeft = << >> => fileLeft' = << >> BY <1>7 DEF Encrypt
  <2> QED BY <2>1, <2>2 DEF OneTurn, FileKept, Keeps
<1>11. ASSUME NEW t \in Threads, LastLook(t)
      PROVE  OneTurn' /\ (fileLeft' # << >> => fileOpen')
  <2>1. /\ UNCHANGED <<phase, fileLeft, fileOpen, storing>>
        /\ (resumeAfter' => resumeAfter) BY <1>11 DEF LastLook
  <2>2. CASE \A u \in Threads : Keeps(u) BY <2>1, <2>2 DEF OneTurn, FileKept, Keeps
  <2>3. CASE ~PendingOutput /\ ~closeAfter /\ resumeAfter /\ Goto(t, "continue") /\ job' = job /\ ~resumeAfter'
    <3>1. \A u \in Threads : ~Holder(u) BY <2>3 DEF OneTurn
    <3>2. pc'[t] = "continue" /\ \A u \in Threads : Holder(u)' => u = t BY <1>11, <2>3, <3>1 DEF TypeOK, Holder
    <3>3. fileLeft = << >> /\ phase = "handling" BY <2>3 DEF PendingOutput, FileKept, OneTurn
    <3> QED BY <2>1, <2>3, <3>2, <3>3 DEF OneTurn
  <2>4. CASE Goto(t, "cas") /\ job' = job BY <1>11, <2>2, <2>4, ReturnKeepsTurn DEF LastLook, Pcs
  <2>5. CASE Return(t) \/ RemoveConnection(t, "close") BY <1>11, <2>2, <2>5, ReturnKeepsTurn DEF LastLook, Pcs
  <2> QED BY <1>11, <2>3, <2>4, <2>5 DEF LastLook
<1>13. ASSUME NEW t \in Threads, NEW nextPhase \in {"granted", "reading", "handling"},
              Continue(t, nextPhase)
      PROVE  OneTurn' /\ (fileLeft' # << >> => fileOpen')
  BY <1>13 DEF Continue, TypeOK, BuffersOK, OneTurn, FileKept, Holder, Jobs, NoJob
<1>16. ASSUME NEW t \in Workers, NEW kind \in Kinds, NEW last \in BOOLEAN,
              HandlerResponds(t, kind, last)
      PROVE  OneTurn' /\ (fileLeft' # << >> => fileOpen')
  BY <1>16 DEF HandlerResponds, Respond, TypeOK, BuffersOK, OneTurn, FileKept, Holder, Jobs, NoJob
<1>17. CASE LoopRespondsError \/ RequestRead \/ TlsReadMakesRecord \/ WriteWouldBlock \/ WriteFailed
            \/ PeerGone
  <2> USE DEF TypeOK, BuffersOK, OneTurn, FileKept, Holder, Jobs, NoJob
  <2>1. CASE LoopRespondsError BY <2>1 DEF LoopRespondsError, Respond
  <2>2. CASE RequestRead BY <2>2 DEF RequestRead
  <2>3. CASE TlsReadMakesRecord BY <2>3 DEF TlsReadMakesRecord
  <2>4. CASE WriteWouldBlock BY <2>4 DEF WriteWouldBlock
  <2>5. CASE WriteFailed BY <2>5 DEF WriteFailed
  <2>6. CASE PeerGone BY <2>6 DEF PeerGone
  <2> QED BY <1>17, <2>1, <2>2, <2>3, <2>4, <2>5, <2>6
<1>23. ASSUME NEW n \in Nat, WriteComplete(n)
      PROVE  OneTurn' /\ (fileLeft' # << >> => fileOpen')
  BY <1>23 DEF WriteComplete, Unsent, TypeOK, BuffersOK, OneTurn, FileKept, Holder, Jobs, NoJob
<1>24. ASSUME NEW n \in Nat, SendfileComplete(n)
      PROVE  OneTurn' /\ (fileLeft' # << >> => fileOpen')
  <2>1. fileLeft # << >> BY <1>24 DEF SendfileComplete
  <2>2. \A u \in Threads : Keeps(u) BY <1>24 DEF SendfileComplete, TypeOK, Holder, Keeps
  <2>3. \A u \in Threads : pc[u] # "storeExtent" BY <1>24 DEF SendfileComplete, TlsApart, TypeOK
  <2>4. \A u \in Threads : ~Holder(u)' BY <2>1, <2>2, <2>3 DEF OneTurn, Keeps
  <2> QED BY <1>24, <2>1, <2>4 DEF SendfileComplete, OneTurn, FileKept
<1>25. CASE UNCHANGED vars BY <1>25 DEF vars, TypeOK, BuffersOK, OneTurn, FileKept, Holder, Jobs, NoJob
<1>26. ASSUME NEW t \in Threads, StoreFile(t)
      PROVE  OneTurn' /\ (fileLeft' # << >> => fileOpen')
  <2>1. Holder(t) /\ phase = "handling" /\ ~resumeAfter BY <1>26 DEF StoreFile, Holder, OneTurn
  <2>2. pc'[t] = "storeExtent" /\ \A u \in Threads : Holder(u)' => u = t
    BY <1>26, <2>1 DEF StoreFile, TypeOK, Holder, OneTurn
  <2> QED BY <1>26, <2>1, <2>2 DEF StoreFile, OneTurn
<1>27. ASSUME NEW t \in Threads, StoreExtent(t)
      PROVE  OneTurn' /\ (fileLeft' # << >> => fileOpen')
  <2>1. /\ job[t].then = "idle" /\ Holder(t) /\ phase = "handling"
    BY <1>27 DEF StoreExtent, JobsFresh, Holder, OneTurn
  <2>2. \A u \in Threads : ~Holder(u)' BY <1>27, <2>1 DEF StoreExtent, TypeOK, Holder, OneTurn
  <2>3. fileLeft' # << >> => fileOpen' BY <1>27 DEF StoreExtent
  <2> QED BY <1>27, <2>1, <2>2, <2>3 DEF StoreExtent, OneTurn
<1> QED BY <1>1, <1>2, <1>5, <1>7, <1>11, <1>13, <1>16, <1>17, <1>23,
           <1>24, <1>25, <1>26, <1>27, SentCounts DEF Next, Step, Environment, Sent

----
\* What each kind of connection uses

\* The two branches of trigger_write() keep to their own buffers.
LEMMA ApartStep ==
  ASSUME TypeOK, BuffersOK, OneWriter, TlsApart, [Next]_vars
  PROVE  TlsApart'
<1> USE DEF Goto, buffers, fileVars, history, Threads
<1>1. ASSUME NEW t \in Threads, SetFile(t) \/ SendData(t) \/ Win(t) \/ Lose(t) \/ Gather(t) \/ Take(t)
              \/ CloseFile(t) \/ SubmitTls(t) \/ ClearWriting(t) \/ Cancel(t) \/ Message(t)
              \/ MarkForClose(t) \/ StoreFile(t) \/ StoreExtent(t) \/ LookAtFile(t)
      PROVE  TlsApart'
  <2> USE DEF TypeOK, BuffersOK, OneWriter, TlsApart, WriterPcs, Jobs
  <2>1. CASE SetFile(t) BY <2>1 DEF SetFile
  <2>2. CASE SendData(t) BY <2>2 DEF SendData
  <2>3. CASE Win(t) BY <2>3 DEF Win
  <2>4. CASE Lose(t) BY <2>4 DEF Lose, Return
  <2>5. CASE Gather(t) BY <2>5 DEF Gather, Submit, Return
  <2>6. CASE Take(t) BY <2>6 DEF Take
  <2>7. CASE CloseFile(t) BY <2>7 DEF CloseFile, AfterFile
  <2>8. CASE SubmitTls(t) BY <2>8 DEF SubmitTls, Submit, Return
  <2>9. CASE ClearWriting(t) BY <2>9 DEF ClearWriting
  <2>10. CASE Cancel(t) BY <2>10 DEF Cancel, Return
  <2>11. CASE Message(t) BY <2>11 DEF Message
  <2>12. CASE MarkForClose(t) BY <2>12 DEF MarkForClose
  <2>13. CASE StoreFile(t) BY <2>13 DEF StoreFile
  <2>14. CASE StoreExtent(t) BY <2>14 DEF StoreExtent
  <2>15. CASE LookAtFile(t) BY <2>15 DEF LookAtFile, AfterFile
  <2> QED BY <1>1, <2>1, <2>2, <2>3, <2>4, <2>5, <2>6, <2>7, <2>8, <2>9, <2>10, <2>11, <2>12, <2>13, <2>14,
    <2>15
<1>7. ASSUME NEW t \in Threads, NEW readFails \in BOOLEAN, Encrypt(t, readFails)
      PROVE  TlsApart'
  BY <1>7 DEF Encrypt, RemoveConnection, Return, TypeOK, BuffersOK, OneWriter, TlsApart, WriterPcs, Jobs
<1>11. ASSUME NEW t \in Threads, LastLook(t)
      PROVE  TlsApart'
  <2>1. \A u \in Threads : pc'[u] = pc[u] \/ (u = t /\ pc'[u] \in {"cas", "cancel", "continue", "idle"})
    BY <1>11 DEF LastLook, RemoveConnection, Return, TypeOK
  <2>2. chunk # << >> => \E u \in Threads : pc'[u] = "encrypt"
    BY <1>11, <2>1 DEF LastLook, RemoveConnection, Return, TypeOK, TlsApart
  <2> QED BY <1>11, <2>1, <2>2 DEF LastLook, TlsApart
<1>13. ASSUME NEW t \in Threads, NEW nextPhase \in {"granted", "reading", "handling"},
              Continue(t, nextPhase)
      PROVE  TlsApart' BY <1>13 DEF Continue, TypeOK, BuffersOK, OneWriter, TlsApart, WriterPcs, Jobs
<1>16. ASSUME NEW t \in Workers, NEW kind \in Kinds, NEW last \in BOOLEAN,
              HandlerResponds(t, kind, last)
      PROVE  TlsApart' BY <1>16 DEF HandlerResponds, Respond, TypeOK, BuffersOK, OneWriter, TlsApart, WriterPcs, Jobs
<1>17. CASE LoopRespondsError \/ RequestRead \/ TlsReadMakesRecord \/ WriteWouldBlock \/ WriteFailed
            \/ PeerGone
  <2> USE DEF TypeOK, BuffersOK, OneWriter, TlsApart, WriterPcs, Jobs
  <2>1. CASE LoopRespondsError BY <2>1 DEF LoopRespondsError, Respond
  <2>2. CASE RequestRead BY <2>2 DEF RequestRead
  <2>3. CASE TlsReadMakesRecord BY <2>3 DEF TlsReadMakesRecord
  <2>4. CASE WriteWouldBlock BY <2>4 DEF WriteWouldBlock
  <2>5. CASE WriteFailed BY <2>5 DEF WriteFailed
  <2>6. CASE PeerGone BY <2>6 DEF PeerGone
  <2> QED BY <1>17, <2>1, <2>2, <2>3, <2>4, <2>5, <2>6
<1>23. ASSUME NEW n \in Nat, WriteComplete(n)
      PROVE  TlsApart' BY <1>23 DEF WriteComplete, Unsent, TypeOK, BuffersOK, OneWriter, TlsApart, WriterPcs, Jobs
<1>24. ASSUME NEW n \in Nat, SendfileComplete(n)
      PROVE  TlsApart' BY <1>24 DEF SendfileComplete, Unsent, TypeOK, BuffersOK, OneWriter, TlsApart, WriterPcs, Jobs
<1>25. CASE UNCHANGED vars BY <1>25 DEF vars, TypeOK, BuffersOK, OneWriter, TlsApart, WriterPcs, Jobs
<1> QED BY <1>1, <1>7, <1>11, <1>13, <1>16, <1>17, <1>23,
           <1>24, <1>25, SentCounts DEF Next, Step, Environment, Sent

\* What is left of a file holds no text.
LEMMA FileStep ==
  ASSUME TypeOK, BuffersOK, FileKept, JobsFresh, [Next]_vars
  PROVE  (\A i \in 1 .. Len(fileLeft) : ~IsText(fileLeft[i]))'
<1> USE DEF Goto, buffers, fileVars, history, Threads
<1>1. ASSUME NEW t \in Threads, SetFile(t) \/ SendData(t) \/ Win(t) \/ Lose(t) \/ Gather(t) \/ Take(t)
              \/ CloseFile(t) \/ SubmitTls(t) \/ ClearWriting(t) \/ LastLook(t) \/ Cancel(t)
              \/ Message(t) \/ MarkForClose(t) \/ LookAtFile(t)
      PROVE  (\A i \in 1 .. Len(fileLeft) : ~IsText(fileLeft[i]))'
  <2> USE DEF BuffersOK, FileKept, JobsFresh
  <2>1. CASE SetFile(t) BY <2>1 DEF SetFile
  <2>2. CASE SendData(t) BY <2>2 DEF SendData
  <2>3. CASE Win(t) BY <2>3 DEF Win
  <2>4. CASE Lose(t) BY <2>4 DEF Lose, Return
  <2>5. CASE Gather(t) BY <2>5 DEF Gather, Submit, Return
  <2>6. CASE Take(t) BY <2>6 DEF Take
  <2>7. CASE CloseFile(t) BY <2>7 DEF CloseFile, AfterFile
  <2>8. CASE SubmitTls(t) BY <2>8 DEF SubmitTls, Submit, Return
  <2>9. CASE ClearWriting(t) BY <2>9 DEF ClearWriting
  <2>10. CASE LastLook(t) BY <2>10 DEF LastLook, PendingOutput, RemoveConnection, Return
  <2>11. CASE Cancel(t) BY <2>11 DEF Cancel, Return
  <2>12. CASE Message(t) BY <2>12 DEF Message
  <2>13. CASE MarkForClose(t) BY <2>13 DEF MarkForClose
  <2>14. CASE LookAtFile(t) BY <2>14 DEF LookAtFile, AfterFile
  <2> QED BY <1>1, <2>1, <2>2, <2>3, <2>4, <2>5, <2>6, <2>7, <2>8, <2>9, <2>10, <2>11, <2>12, <2>13, <2>14
<1>7. ASSUME NEW t \in Threads, NEW readFails \in BOOLEAN, Encrypt(t, readFails)
      PROVE  (\A i \in 1 .. Len(fileLeft) : ~IsText(fileLeft[i]))'
  BY <1>7 DEF Encrypt, RemoveConnection, Return, BuffersOK, FileKept, JobsFresh
<1>13. ASSUME NEW t \in Threads, NEW nextPhase \in {"granted", "reading", "handling"},
              Continue(t, nextPhase)
      PROVE  (\A i \in 1 .. Len(fileLeft) : ~IsText(fileLeft[i]))'
  BY <1>13 DEF Continue, BuffersOK, FileKept, JobsFresh
<1>16. ASSUME NEW t \in Workers, NEW kind \in Kinds, NEW last \in BOOLEAN,
              HandlerResponds(t, kind, last)
      PROVE  (\A i \in 1 .. Len(fileLeft) : ~IsText(fileLeft[i]))'
  BY <1>16 DEF HandlerResponds, Respond, BuffersOK, FileKept, JobsFresh
<1>17. CASE LoopRespondsError BY <1>17 DEF LoopRespondsError, Respond, BuffersOK, FileKept, JobsFresh
<1>18. CASE RequestRead BY <1>18 DEF RequestRead, BuffersOK, FileKept, JobsFresh
<1>19. CASE TlsReadMakesRecord BY <1>19 DEF TlsReadMakesRecord, BuffersOK, FileKept, JobsFresh
<1>20. CASE WriteWouldBlock BY <1>20 DEF WriteWouldBlock, BuffersOK, FileKept, JobsFresh
<1>21. CASE WriteFailed BY <1>21 DEF WriteFailed, BuffersOK, FileKept, JobsFresh
<1>22. CASE PeerGone BY <1>22 DEF PeerGone, BuffersOK, FileKept, JobsFresh
<1>23. ASSUME NEW n \in Nat, WriteComplete(n)
      PROVE  (\A i \in 1 .. Len(fileLeft) : ~IsText(fileLeft[i]))'
  BY <1>23 DEF WriteComplete, Unsent, BuffersOK, FileKept, JobsFresh
<1>24. ASSUME NEW n \in Nat, SendfileComplete(n)
      PROVE  (\A i \in 1 .. Len(fileLeft) : ~IsText(fileLeft[i]))'
  <2>1. fileLeft' = SubSeq(fileLeft, n + 1, Len(fileLeft)) /\ n \in 1 .. Len(fileLeft)
    BY <1>24 DEF SendfileComplete, Unsent
  <2>2. fileLeft \in Seq(Pieces) BY DEF BuffersOK
  <2>3. \A i \in 1 .. Len(fileLeft') : fileLeft'[i] = fileLeft[n + i] /\ n + i \in 1 .. Len(fileLeft)
    BY <2>1, <2>2, SubSeqProperties
  <2> QED BY <2>3 DEF FileKept
<1>25. CASE UNCHANGED vars BY <1>25 DEF vars, BuffersOK, FileKept, JobsFresh
<1>26. ASSUME NEW t \in Threads, StoreFile(t)
      PROVE  (\A i \in 1 .. Len(fileLeft) : ~IsText(fileLeft[i]))'
  <2>1. job[t].file \in Seq(Pieces) BY DEF BuffersOK, Jobs
  <2>2. fileLeft' \in Suffixes(job[t].file) BY <1>26 DEF StoreFile
  <2>3. \A x \in Suffixes(job[t].file) : \A i \in 1 .. Len(x) : \E j \in 1 .. Len(job[t].file) : x[i] = job[t].file[j]
    BY <2>1, SuffixParts
  <2> QED BY <2>2, <2>3 DEF JobsFresh
<1>27. ASSUME NEW t \in Threads, StoreExtent(t)
      PROVE  (\A i \in 1 .. Len(fileLeft) : ~IsText(fileLeft[i]))'
  <2>1. job[t].file \in Seq(Pieces) BY DEF BuffersOK, Jobs
  <2>2. fileLeft' = << >> \/ fileLeft' = job[t].file \/ fileLeft' \in Suffixes(job[t].file) BY <1>27 DEF StoreExtent
  <2>3. \A x \in Suffixes(job[t].file) : \A i \in 1 .. Len(x) : \E j \in 1 .. Len(job[t].file) : x[i] = job[t].file[j]
    BY <2>1, SuffixParts
  <2> QED BY <2>2, <2>3 DEF JobsFresh
<1> QED BY <1>1, <1>7, <1>13, <1>16, <1>17, <1>18, <1>19, <1>20, <1>21, <1>22, <1>23,
           <1>24, <1>25, <1>26, <1>27, SentCounts DEF Next, Step, Environment, Sent

\* A connection closes by request only when that was asked for.
LEMMA AskedStep ==
  ASSUME TypeOK, BuffersOK, CloseAsked, [Next]_vars
  PROVE  CloseAsked'
<1> USE DEF Goto, buffers, fileVars, history, Threads
<1>1. ASSUME NEW t \in Threads, SetFile(t) \/ SendData(t) \/ Win(t) \/ Lose(t) \/ Gather(t) \/ Take(t)
              \/ CloseFile(t) \/ SubmitTls(t) \/ ClearWriting(t) \/ LastLook(t) \/ Cancel(t)
              \/ Message(t) \/ MarkForClose(t) \/ StoreFile(t) \/ StoreExtent(t) \/ LookAtFile(t)
      PROVE  CloseAsked'
  <2> USE DEF CloseAsked, TypeOK
  <2>1. CASE SetFile(t) BY <2>1 DEF SetFile
  <2>2. CASE SendData(t) BY <2>2 DEF SendData
  <2>3. CASE Win(t) BY <2>3 DEF Win
  <2>4. CASE Lose(t) BY <2>4 DEF Lose, Return
  <2>5. CASE Gather(t) BY <2>5 DEF Gather, Submit, Return
  <2>6. CASE Take(t) BY <2>6 DEF Take
  <2>7. CASE CloseFile(t) BY <2>7 DEF CloseFile, AfterFile
  <2>8. CASE SubmitTls(t) BY <2>8 DEF SubmitTls, Submit, Return
  <2>9. CASE ClearWriting(t) BY <2>9 DEF ClearWriting
  <2>10. CASE LastLook(t) BY <2>10 DEF LastLook, PendingOutput, RemoveConnection, Return
  <2>11. CASE Cancel(t) BY <2>11 DEF Cancel, Return
  <2>12. CASE Message(t) BY <2>12 DEF Message
  <2>13. CASE MarkForClose(t) BY <2>13 DEF MarkForClose
  <2>14. CASE StoreFile(t) BY <2>14 DEF StoreFile
  <2>15. CASE StoreExtent(t) BY <2>15 DEF StoreExtent
  <2>16. CASE LookAtFile(t) BY <2>16 DEF LookAtFile, AfterFile
  <2> QED BY <1>1, <2>1, <2>2, <2>3, <2>4, <2>5, <2>6, <2>7, <2>8, <2>9, <2>10, <2>11, <2>12, <2>13, <2>14,
    <2>15, <2>16
<1>7. ASSUME NEW t \in Threads, NEW readFails \in BOOLEAN, Encrypt(t, readFails)
      PROVE  CloseAsked' BY <1>7 DEF Encrypt, RemoveConnection, Return, CloseAsked, TypeOK
<1>13. ASSUME NEW t \in Threads, NEW nextPhase \in {"granted", "reading", "handling"},
              Continue(t, nextPhase)
      PROVE  CloseAsked' BY <1>13 DEF Continue, CloseAsked, TypeOK
<1>16. ASSUME NEW t \in Workers, NEW kind \in Kinds, NEW last \in BOOLEAN,
              HandlerResponds(t, kind, last)
      PROVE  CloseAsked' BY <1>16 DEF HandlerResponds, Respond, CloseAsked, TypeOK
<1>17. CASE LoopRespondsError BY <1>17 DEF LoopRespondsError, Respond, CloseAsked, TypeOK
<1>18. CASE RequestRead BY <1>18 DEF RequestRead, CloseAsked, TypeOK
<1>19. CASE TlsReadMakesRecord BY <1>19 DEF TlsReadMakesRecord, CloseAsked, TypeOK
<1>20. CASE WriteWouldBlock BY <1>20 DEF WriteWouldBlock, CloseAsked, TypeOK
<1>21. CASE WriteFailed BY <1>21 DEF WriteFailed, CloseAsked, TypeOK
<1>22. CASE PeerGone BY <1>22 DEF PeerGone, CloseAsked, TypeOK
<1>23. ASSUME NEW n \in Nat, WriteComplete(n)
      PROVE  CloseAsked' BY <1>23 DEF WriteComplete, Unsent, CloseAsked, TypeOK
<1>24. ASSUME NEW n \in Nat, SendfileComplete(n)
      PROVE  CloseAsked' BY <1>24 DEF SendfileComplete, Unsent, CloseAsked, TypeOK
<1>25. CASE UNCHANGED vars BY <1>25 DEF vars, CloseAsked, TypeOK
<1> QED BY <1>1, <1>7, <1>13, <1>16, <1>17, <1>18, <1>19, <1>20, <1>21, <1>22, <1>23,
           <1>24, <1>25, SentCounts DEF Next, Step, Environment, Sent

----
\* Somebody looks

\* Whatever is still to be done keeps somebody who will look at it.
LEMMA LooksStep ==
  ASSUME TypeOK, BuffersOK, OneWriter, CancelsRemoved, TlsApart, JobsFresh, SomebodyLooks,
         [Next]_vars
  PROVE  SomebodyLooks'
<1> USE DEF Goto, buffers, fileVars, history, Threads, FileDone
<1>1. ASSUME NEW t \in Threads, SetFile(t)
      PROVE  SomebodyLooks'
  <2>1. fileLeft' # << >> /\ pc'[t] = "queue" /\ \A u \in Threads : u # t => pc'[u] = pc[u]
    BY <1>1 DEF SetFile, JobsFresh, TypeOK
  <2>2. Attended => Attended' BY <1>1, <2>1 DEF SetFile, Attended, AttendingPcs
  <2>3. Stirred' BY <2>1 DEF Stirred, LookingPcs
  <2>4. inflight' = inflight /\ removed' = removed BY <1>1 DEF SetFile
  <2> QED BY <2>1, <2>2, <2>3, <2>4 DEF SomebodyLooks
<1>2. ASSUME NEW t \in Threads, SendData(t) \/ Win(t) \/ Take(t) \/ CloseFile(t) \/ SubmitTls(t)
              \/ ClearWriting(t) \/ Message(t) \/ MarkForClose(t) \/ LookAtFile(t)
      PROVE  SomebodyLooks'
  <2> USE DEF TypeOK, BuffersOK, SomebodyLooks, Stirred, Attended, LookingPcs, AttendingPcs, WriterPcs
  <2>1. CASE SendData(t) BY <2>1 DEF SendData
  <2>2. CASE Win(t) BY <2>2 DEF Win
  <2>3. CASE Take(t) BY <2>3 DEF Take
  <2>4. CASE CloseFile(t) BY <2>4 DEF CloseFile, AfterFile
  <2>5. CASE SubmitTls(t) BY <2>5 DEF SubmitTls, Submit, Return
  <2>6. CASE ClearWriting(t) BY <2>6 DEF ClearWriting
  <2>7. CASE Message(t) BY <2>7 DEF Message
  <2>8. CASE MarkForClose(t) BY <2>8 DEF MarkForClose
  <2>9. CASE LookAtFile(t) BY <2>9 DEF LookAtFile, AfterFile
  <2> QED BY <1>2, <2>1, <2>2, <2>3, <2>4, <2>5, <2>6, <2>7, <2>8, <2>9
<1>4. ASSUME NEW t \in Threads, Lose(t)
      PROVE  SomebodyLooks'
  <2>1. /\ \A u \in Threads : u # t => pc'[u] = pc[u]
        /\ pc[t] = "cas" /\ pc'[t] \in {"idle", "continue"} /\ isWriting
        /\ io' = io /\ removed' = removed BY <1>4 DEF Lose, Return, TypeOK
  <2>2. CASE removed # "no" BY <1>4, <2>1, <2>2 DEF Lose, SomebodyLooks
  <2>3. CASE io # "none" BY <1>4, <2>1, <2>3 DEF Lose, SomebodyLooks, Stirred, Attended
  <2>4. ASSUME NEW u \in Threads, pc[u] \in WriterPcs PROVE SomebodyLooks'
    <3>1. pc'[u] = pc[u] BY <2>1, <2>4 DEF WriterPcs
    <3>2. Stirred' BY <2>4, <3>1 DEF Stirred, LookingPcs
    <3>3. pc[u] # "clear" => Attended' BY <2>4, <3>1 DEF Attended, AttendingPcs, WriterPcs
    <3> QED BY <1>4, <2>1, <3>1, <3>2, <3>3 DEF Lose, SomebodyLooks
  <2> QED BY <2>1, <2>2, <2>3, <2>4 DEF OneWriter
<1>5. ASSUME NEW t \in Threads, Gather(t)
      PROVE  SomebodyLooks'
  <2>1. ~tls /\ pc[t] = "gather" /\ \A u \in Threads : u # t => pc'[u] = pc[u] /\ pc[u] # "clear"
    BY <1>5 DEF Gather, Submit, Return, TlsApart, OneWriter, WriterPcs, TypeOK
  <2>2. CASE Submit(t, "write") \/ Submit(t, "sendfile")
    <3>1. pc'[t] # "clear" /\ removed' = removed /\ (removed = "no" => io' # "none")
      BY <1>5, <2>2 DEF Gather, Submit, Return, TypeOK
    <3> QED BY <2>1, <3>1 DEF SomebodyLooks, Stirred, Attended
  <2>3. CASE fileOpen' = FALSE /\ Goto(t, "clear") /\ writeBuffer' = << >> /\ activeBuffer' = << >>
    <3>1. pc'[t] = "clear" /\ inflight' = << >> /\ tlsBuffer' = << >> BY <1>5, <2>1, <2>3 DEF Gather, TlsApart, TypeOK
    <3>2. Stirred' BY <3>1 DEF Stirred, LookingPcs, WriterPcs
    <3> QED BY <2>1, <2>3, <3>1, <3>2 DEF SomebodyLooks
  <2> QED BY <1>5, <2>2, <2>3 DEF Gather
<1>7. ASSUME NEW t \in Threads, NEW readFails \in BOOLEAN, Encrypt(t, readFails)
      PROVE  SomebodyLooks'
  <2>1. \A u \in Threads : u # t => pc'[u] = pc[u] /\ pc[u] # "clear"
    BY <1>7 DEF Encrypt, RemoveConnection, Return, OneWriter, WriterPcs, TypeOK
  <2>2. CASE readFails BY <1>7, <2>1, <2>2 DEF Encrypt, RemoveConnection, Return, TypeOK, SomebodyLooks
  <2>3. CASE ~readFails
    <3>1. pc'[t] = "lookAtFile" BY <1>7, <2>3 DEF Encrypt, TypeOK
    <3>2. Stirred' /\ Attended' BY <3>1 DEF Stirred, Attended, LookingPcs, AttendingPcs, WriterPcs
    <3> QED BY <2>1, <3>1, <3>2 DEF SomebodyLooks
  <2> QED BY <2>2, <2>3
<1>11. ASSUME NEW t \in Threads, LastLook(t)
      PROVE  SomebodyLooks'
  <2>1. /\ pc[t] = "pending" /\ pc'[t] # "clear" /\ (\A u \in Threads : u # t => pc'[u] = pc[u])
        /\ io' = io BY <1>11 DEF LastLook, RemoveConnection, Return, TypeOK
  <2>2. Attended => Attended' BY <2>1 DEF Attended, AttendingPcs
  <2>3. CASE pc'[t] = "cas"
    <3>1. Stirred' /\ Attended' BY <2>3 DEF Stirred, Attended, LookingPcs, AttendingPcs
    <3> QED BY <1>11, <2>1, <3>1 DEF LastLook, SomebodyLooks
  <2>4. CASE ~PendingOutput /\ removed' = "no"
    <3>1. ~closeAfter /\ removed = "no" /\ ~resumeAfter' BY <1>11, <2>4 DEF LastLook, RemoveConnection
    <3>2. writeBuffer = << >> /\ activeBuffer = << >> /\ tlsBuffer = << >> /\ (fileOpen => fileLeft = << >>)
      BY <2>4 DEF PendingOutput, TlsApart
    <3>3. Attended' => Stirred' BY DEF Stirred, Attended, LookingPcs, AttendingPcs, WriterPcs
    <3>4. fileOpen \/ inflight # << >> => Attended BY <1>11, <3>1, <3>2 DEF LastLook, SomebodyLooks
    <3> QED BY <1>11, <2>1, <2>2, <3>1, <3>2, <3>3, <3>4 DEF LastLook, SomebodyLooks
  <2>5. CASE removed' # "no" BY <1>11, <2>1, <2>5 DEF LastLook, SomebodyLooks
  <2> QED BY <1>11, <2>3, <2>4, <2>5 DEF LastLook, TypeOK
<1>12. ASSUME NEW t \in Threads, Cancel(t)
      PROVE  SomebodyLooks'
  <2>1. removed' # "no" /\ (\A u \in Threads : u # t => pc'[u] = pc[u]) /\ pc'[t] # "clear"
    BY <1>12 DEF Cancel, Return, CancelsRemoved, TypeOK
  <2> QED BY <1>12, <2>1 DEF Cancel, SomebodyLooks
<1>13. ASSUME NEW t \in Threads, NEW nextPhase \in {"granted", "reading", "handling"},
              Continue(t, nextPhase)
      PROVE  SomebodyLooks' BY <1>13 DEF Continue, TypeOK, BuffersOK, SomebodyLooks, Stirred, Attended, LookingPcs,
     AttendingPcs, WriterPcs
<1>16. ASSUME NEW t \in Workers, NEW kind \in Kinds, NEW last \in BOOLEAN,
              HandlerResponds(t, kind, last)
      PROVE  SomebodyLooks' BY <1>16 DEF HandlerResponds, Respond, TypeOK, BuffersOK, SomebodyLooks, Stirred,
     Attended, LookingPcs, AttendingPcs, WriterPcs
<1>17. CASE LoopRespondsError \/ RequestRead \/ TlsReadMakesRecord \/ WriteWouldBlock \/ WriteFailed
            \/ PeerGone
  <2> USE DEF TypeOK, BuffersOK, SomebodyLooks, Stirred, Attended, LookingPcs, AttendingPcs, WriterPcs
  <2>1. CASE LoopRespondsError BY <2>1 DEF LoopRespondsError, Respond
  <2>2. CASE RequestRead BY <2>2 DEF RequestRead
  <2>3. CASE TlsReadMakesRecord BY <2>3 DEF TlsReadMakesRecord
  <2>4. CASE WriteWouldBlock BY <2>4 DEF WriteWouldBlock
  <2>5. CASE WriteFailed BY <2>5 DEF WriteFailed
  <2>6. CASE PeerGone BY <2>6 DEF PeerGone
  <2> QED BY <1>17, <2>1, <2>2, <2>3, <2>4, <2>5, <2>6
<1>23. ASSUME NEW n \in Nat, WriteComplete(n)
      PROVE  SomebodyLooks'
  <2>1. pc'[Loop] = "unlatch" /\ (\A u \in Threads : u # Loop => pc'[u] = pc[u] /\ pc[u] # "clear")
    BY <1>23 DEF WriteComplete, TypeOK, OneWriter, WriterPcs
  <2>2. Stirred' /\ Attended' BY <2>1 DEF Stirred, Attended, LookingPcs, AttendingPcs, WriterPcs
  <2> QED BY <2>1, <2>2 DEF SomebodyLooks
<1>24. ASSUME NEW n \in Nat, SendfileComplete(n)
      PROVE  SomebodyLooks'
  <2>1. pc'[Loop] = "unlatch" /\ (\A u \in Threads : u # Loop => pc'[u] = pc[u] /\ pc[u] # "clear")
    BY <1>24 DEF SendfileComplete, TypeOK, OneWriter, WriterPcs
  <2>2. Stirred' /\ Attended' BY <2>1 DEF Stirred, Attended, LookingPcs, AttendingPcs, WriterPcs
  <2> QED BY <2>1, <2>2 DEF SomebodyLooks
<1>25. CASE UNCHANGED vars
  BY <1>25 DEF vars, TypeOK, BuffersOK, SomebodyLooks, Stirred, Attended, LookingPcs, AttendingPcs, WriterPcs
<1>26. ASSUME NEW t \in Threads, StoreFile(t)
      PROVE  SomebodyLooks'
  <2>1. /\ storing' /\ pc'[t] = "storeExtent" /\ \A u \in Threads : u # t => pc'[u] = pc[u]
        /\ UNCHANGED <<inflight, removed, io>> BY <1>26 DEF StoreFile, TypeOK
  <2>2. Attended => Attended' BY <1>26, <2>1 DEF StoreFile, Attended, AttendingPcs
  <2>3. Stirred' BY <2>1 DEF Stirred, LookingPcs
  <2> QED BY <2>1, <2>2, <2>3 DEF SomebodyLooks
<1>27. ASSUME NEW t \in Threads, StoreExtent(t)
      PROVE  SomebodyLooks'
  <2>1. /\ ~storing' /\ pc'[t] = "queue" /\ \A u \in Threads : u # t => pc'[u] = pc[u]
        /\ UNCHANGED <<inflight, removed, io>> /\ job[t].file # << >> BY <1>27 DEF StoreExtent, TypeOK, JobsFresh
  <2>2. Attended => Attended' BY <1>27, <2>1 DEF StoreExtent, Attended, AttendingPcs
  <2>3. Stirred' BY <2>1 DEF Stirred, LookingPcs
  <2>4. CASE FileDone'
    <3>1. PICK u \in Threads : pc[u] = "lookAtFile" BY <1>27, <2>1, <2>4 DEF StoreExtent
    <3>2. \A v \in Threads : pc'[v] # "clear" BY <1>27, <2>1, <3>1 DEF StoreExtent, OneWriter, WriterPcs
    <3>3. Attended' BY <1>27, <2>1, <3>1 DEF StoreExtent, Attended, AttendingPcs
    <3> QED BY <2>3, <3>2, <3>3 DEF SomebodyLooks
  <2>5. CASE ~FileDone'
    <3>1. \A v \in Threads : pc'[v] = "clear" => pc[v] = "clear" BY <2>1
    <3> QED BY <2>1, <2>2, <2>3, <2>5, <3>1 DEF SomebodyLooks
  <2> QED BY <2>4, <2>5
<1> QED BY <1>1, <1>2, <1>4, <1>5, <1>7, <1>11, <1>12,
           <1>13, <1>16, <1>17, <1>23,
           <1>24, <1>25, <1>26, <1>27, SentCounts DEF Next, Step, Environment, Sent

----
\* Each response is made once

\* The pieces' shapes.
LEMMA PieceShapes ==
  /\ \A n \in Nat : IsText(Text(n)) /\ ~IsText(Record(n))
  /\ \A n, k \in Nat : ~IsText(FilePart(n, k))
  /\ \A n, m \in Nat : Text(n) = Text(m) => n = m BY DEF IsText, Text, FilePart, Record

\* A file has parts, and no text among them.
LEMMA FileHasNoText ==
  ASSUME NEW n \in Nat
  PROVE  FileOf(n) # << >> /\ \A i \in 1 .. Len(FileOf(n)) : ~IsText(FileOf(n)[i])
<1>1. FileOf(n) \in [1 .. FileParts -> Pieces] BY OutputAssumption DEF FileOf, Pieces
<1>2. FileOf(n) \in Seq(Pieces) /\ Len(FileOf(n)) = FileParts BY <1>1, OutputAssumption, SeqDef, LenProperties
<1>3. \A i \in 1 .. FileParts : FileOf(n)[i] = FilePart(n, i) /\ i \in Nat BY OutputAssumption DEF FileOf
<1> QED BY <1>2, <1>3, PieceShapes, OutputAssumption

\* What send_data() appends, place by place.
LEMMA QueuedPlaces ==
  ASSUME NEW q \in Seq(Pieces), NEW item \in Seq(Pieces), NEW file \in Seq(Pieces),
         NEW i \in 1 .. Len(q \o item \o file)
  PROVE  \/ i \in 1 .. Len(q) /\ (q \o item \o file)[i] = q[i]
         \/ i - Len(q) \in 1 .. Len(item) /\ (q \o item \o file)[i] = item[i - Len(q)]
         \/ /\ i - Len(q) - Len(item) \in 1 .. Len(file)
            /\ (q \o item \o file)[i] = file[i - Len(q) - Len(item)]
<1>1. /\ q \o item \in Seq(Pieces) /\ Len(q \o item) = Len(q) + Len(item)
      /\ Len(q \o item \o file) = Len(q) + Len(item) + Len(file)
      /\ Len(q) \in Nat /\ Len(item) \in Nat /\ Len(file) \in Nat BY ConcatProperties, LenProperties
<1>2. CASE i <= Len(q) BY <1>1, <1>2
<1>3. CASE i > Len(q) /\ i <= Len(q) + Len(item) BY <1>1, <1>3
<1>4. CASE i > Len(q) + Len(item) BY <1>1, <1>4
<1> QED BY <1>1, <1>2, <1>3, <1>4

\* What becomes of the job of thread u in a step that makes none.
Ended(u) ==
  \/ /\ job'[u].items = << >> /\ job'[u].file = << >> /\ pc'[u] \notin FilePcs
  \/ /\ job'[u] = job[u] /\ (Making(u)' => Making(u))
     /\ (pc'[u] \in FilePcs => pc[u] \in FilePcs)

\* Jobs end where trigger_write() returns, and are kept where it goes on.
LEMMA ReturnEnds ==
  ASSUME TypeOK, BuffersOK, NEW t \in Threads
  PROVE  /\ Return(t) => \A u \in Threads : Ended(u)
         /\ \A place \in Pcs \ {"setFile", "storeExtent", "queue"} :
              Goto(t, place) /\ job' = job => \A u \in Threads : Ended(u)
         /\ \A why : RemoveConnection(t, why) => \A u \in Threads : Ended(u)
<1>1. Return(t) => \A u \in Threads : Ended(u)
  <2> SUFFICES ASSUME Return(t), NEW u \in Threads PROVE Ended(u) OBVIOUS
  <2>1. /\ job'[t].items = << >> /\ job'[t].file = << >> /\ pc'[t] \notin FilePcs
    BY DEF TypeOK, BuffersOK, Return, Goto, NoJob
  <2>2. u # t => pc'[u] = pc[u] /\ job'[u] = job[u] BY DEF TypeOK, BuffersOK, Return, Goto
  <2>3. CASE u # t BY <2>2, <2>3 DEF Making, Ended
  <2> QED BY <2>1, <2>3 DEF Ended
<1>2. \A place \in Pcs \ {"setFile", "storeExtent", "queue"} :
        Goto(t, place) /\ job' = job => \A u \in Threads : Ended(u) BY DEF TypeOK, Goto, Making, Ended
<1>3. "cancel" \in Pcs \ {"setFile", "storeExtent", "queue"} BY DEF Pcs
<1> QED BY <1>1, <1>2, <1>3 DEF RemoveConnection

\* A step that makes and queues nothing, whatever jobs it ends.
LEMMA JobsKept ==
  ASSUME JobsFresh, queued' = queued, made'.texts = made.texts,
         \A u \in Threads : Ended(u)
  PROVE  JobsFresh'
<1>1. \A u \in Threads : Making(u)' => job'[u] = job[u] /\ Making(u) BY DEF Making, Ended
<1>2. ASSUME NEW u \in Threads
      PROVE  /\ \/ job'[u].items = << >> /\ job'[u].file = << >>
                \/ \E n \in 1 .. made'.texts : job'[u].items = <<Text(n)>>
             /\ \A i \in 1 .. Len(job'[u].file) : ~IsText(job'[u].file[i])
             /\ pc'[u] \in FilePcs => job'[u].file # << >> /\ job'[u].then = "idle"
  <2>1. CASE job'[u].items = << >> /\ job'[u].file = << >> /\ pc'[u] \notin FilePcs BY <2>1
  <2>2. CASE job'[u] = job[u] /\ (pc'[u] \in FilePcs => pc[u] \in FilePcs) BY <2>2 DEF JobsFresh
  <2> QED BY <2>1, <2>2 DEF Ended
<1>3. ASSUME NEW u \in Threads, Making(u)'
      PROVE  /\ \A i \in 1 .. Len(queued') : queued'[i] # job'[u].items[1]
             /\ \A v \in Threads : Making(v)' /\ job'[v].items[1] = job'[u].items[1] => v = u
  BY <1>1, <1>3 DEF JobsFresh
<1>4. \A i \in 1 .. Len(queued') : IsText(queued'[i]) => \E n \in 1 .. made'.texts : queued'[i] = Text(n)
  BY DEF JobsFresh
<1> QED BY <1>2, <1>3, <1>4 DEF JobsFresh

\* A new response or message.
LEMMA JobMade ==
  ASSUME BuffersOK, JobsFresh, NEW t \in Threads, ~Making(t), queued' = queued,
         made'.texts = made.texts + 1,
         \A u \in Threads : u # t => pc'[u] = pc[u] /\ job'[u] = job[u],
         job'[t].items = <<Text(made.texts + 1)>>,
         \A i \in 1 .. Len(job'[t].file) : ~IsText(job'[t].file[i]),
         pc'[t] \in FilePcs => job'[t].file # << >> /\ job'[t].then = "idle"
  PROVE  JobsFresh'
<1> DEFINE m == made.texts + 1
<1>1. made.texts \in Nat /\ m \in Nat /\ m \in 1 .. made'.texts BY DEF BuffersOK
<1>2. \A n \in 1 .. made.texts : n \in Nat /\ n \in 1 .. made'.texts /\ n # m BY <1>1
<1>3. \A n \in 1 .. made.texts : Text(n) # Text(m) BY <1>1, <1>2, PieceShapes
<1>4. \A u \in Threads : u # t => (Making(u)' <=> Making(u)) BY DEF Making
<1>5. job'[t].items[1] = Text(m) /\ job'[t].items # << >> OBVIOUS
<1> HIDE DEF m
<1>6. \A i \in 1 .. Len(queued) : queued[i] # Text(m) BY <1>1, <1>3, PieceShapes DEF JobsFresh
<1>7. \A u \in Threads : u # t /\ Making(u) => job[u].items[1] # Text(m)
  <2> SUFFICES ASSUME NEW u \in Threads, Making(u) PROVE job[u].items[1] # Text(m) OBVIOUS
  <2>1. PICK n \in 1 .. made.texts : job[u].items = <<Text(n)>> BY DEF JobsFresh, Making
  <2> QED BY <2>1, <1>3
<1>8. ASSUME NEW u \in Threads
      PROVE  /\ \/ job'[u].items = << >> /\ job'[u].file = << >>
                \/ \E n \in 1 .. made'.texts : job'[u].items = <<Text(n)>>
             /\ \A i \in 1 .. Len(job'[u].file) : ~IsText(job'[u].file[i])
             /\ pc'[u] \in FilePcs => job'[u].file # << >> /\ job'[u].then = "idle"
  <2>1. CASE u = t BY <2>1, <1>1 DEF m
  <2>2. CASE u # t BY <2>2, <1>2 DEF JobsFresh
  <2> QED BY <2>1, <2>2
<1>9. ASSUME NEW u \in Threads, Making(u)'
      PROVE  /\ \A i \in 1 .. Len(queued') : queued'[i] # job'[u].items[1]
             /\ \A v \in Threads : Making(v)' /\ job'[v].items[1] = job'[u].items[1] => v = u
  <2>1. CASE u = t BY <2>1, <1>4, <1>5, <1>6, <1>7
  <2>2. CASE u # t BY <2>2, <1>4, <1>5, <1>7, <1>9 DEF JobsFresh
  <2> QED BY <2>1, <2>2
<1>10. \A i \in 1 .. Len(queued') : IsText(queued'[i]) => \E n \in 1 .. made'.texts : queued'[i] = Text(n)
  BY <1>2 DEF JobsFresh
<1> QED BY <1>8, <1>9, <1>10 DEF JobsFresh

\* Every response is made once and queued once.
LEMMA FreshStep ==
  ASSUME TypeOK, BuffersOK, JobsFresh, [Next]_vars
  PROVE  JobsFresh'
<1> USE DEF Goto, buffers, fileVars, history, Threads
<1>1. CASE \/ \E t \in Threads : SetFile(t) \/ Win(t) \/ Lose(t) \/ Take(t) \/ CloseFile(t) \/ SubmitTls(t)
                               \/ ClearWriting(t) \/ Cancel(t) \/ MarkForClose(t) \/ StoreFile(t)
                               \/ StoreExtent(t) \/ LookAtFile(t)
           \/ RequestRead \/ TlsReadMakesRecord \/ WriteWouldBlock \/ WriteFailed \/ PeerGone
           \/ \E t \in Threads, nextPhase \in {"granted", "reading", "handling"} : Continue(t, nextPhase)
           \/ \E n \in Nat : WriteComplete(n) \/ SendfileComplete(n)
  <2> DEFINE Same == queued' = queued /\ made'.texts = made.texts /\ \A u \in Threads : Ended(u)
  <2>1. Same
    <3> USE DEF TypeOK, BuffersOK, Making, NoJob, Ended
    <3>1. CASE \E t \in Threads : SetFile(t) BY <3>1 DEF SetFile
    <3>2. CASE \E t \in Threads : Win(t) BY <3>2 DEF Win
    <3>3. ASSUME NEW t \in Threads, Lose(t) PROVE Same BY <3>3 DEF Lose, Return
    <3>4. CASE \E t \in Threads : Take(t) BY <3>4 DEF Take
    <3>5. CASE \E t \in Threads : CloseFile(t) BY <3>5 DEF CloseFile, AfterFile
    <3>6. ASSUME NEW t \in Threads, SubmitTls(t) PROVE Same BY <3>6 DEF SubmitTls, Submit, Return
    <3>7. CASE \E t \in Threads : ClearWriting(t) BY <3>7 DEF ClearWriting
    <3>8. ASSUME NEW t \in Threads, Cancel(t) PROVE Same BY <3>8 DEF Cancel, Return
    <3>9. CASE \E t \in Threads : MarkForClose(t) BY <3>9 DEF MarkForClose
    <3>10. CASE \E t \in Threads : StoreFile(t) BY <3>10 DEF StoreFile
    <3>11. CASE \E t \in Threads : StoreExtent(t) BY <3>11 DEF StoreExtent
    <3>12. CASE \E t \in Threads : LookAtFile(t) BY <3>12 DEF LookAtFile, AfterFile
    <3>13. CASE RequestRead BY <3>13 DEF RequestRead
    <3>14. CASE TlsReadMakesRecord BY <3>14, MadeTypes DEF TlsReadMakesRecord
    <3>15. CASE WriteWouldBlock BY <3>15 DEF WriteWouldBlock
    <3>16. CASE WriteFailed BY <3>16 DEF WriteFailed
    <3>17. CASE PeerGone BY <3>17 DEF PeerGone
    <3>18. CASE \E t \in Threads, nextPhase \in {"granted", "reading", "handling"} : Continue(t, nextPhase) BY <3>18
      DEF Continue
    <3>19. CASE \E n \in Nat : WriteComplete(n) BY <3>19 DEF WriteComplete, Unsent
    <3>20. CASE \E n \in Nat : SendfileComplete(n) BY <3>20 DEF SendfileComplete, Unsent
    <3> QED BY <1>1, <3>1, <3>2, <3>3, <3>4, <3>5, <3>6, <3>7, <3>8, <3>9, <3>10, <3>11, <3>12, <3>13,
      <3>14, <3>15, <3>16, <3>17, <3>18, <3>19, <3>20
  <2> QED BY <2>1, JobsKept
<1>2. ASSUME NEW t \in Threads, SendData(t)
      PROVE  JobsFresh'
  <2> DEFINE item == job[t].items
             file == job[t].file
  <2>1. /\ queued \in Seq(Pieces) /\ item \in Seq(Pieces) /\ file \in Seq(Pieces) BY DEF BuffersOK, Jobs
  <2>2. /\ queued' = queued \o item \o file /\ made' = made /\ job' = job /\ pc'[t] = "cas" /\ pc[t] = "queue"
        /\ \A u \in Threads : u # t => pc'[u] = pc[u] BY <1>2 DEF SendData, TypeOK
  <2>3. \A i \in 1 .. Len(file) : ~IsText(file[i]) BY DEF JobsFresh
  <2>4. /\ item = << >> \/ \E n \in 1 .. made.texts : item = <<Text(n)>>
        /\ item # << >> => Making(t) BY <2>2 DEF JobsFresh, Making
  <2>5. \A u \in Threads : (Making(u)' => u # t /\ Making(u)) /\ (pc'[u] \in FilePcs => pc[u] \in FilePcs)
    BY <2>2 DEF Making
  <2>6. ASSUME NEW i \in 1 .. Len(queued')
        PROVE  \/ \E j \in 1 .. Len(queued) : queued'[i] = queued[j]
               \/ item # << >> /\ queued'[i] = item[1]
               \/ ~IsText(queued'[i])
    <3>1. i \in 1 .. Len(queued \o item \o file) BY <2>2
    <3>3. CASE i - Len(queued) \in 1 .. Len(item) /\ queued'[i] = item[i - Len(queued)] BY <3>3, <2>4
    <3> HIDE DEF item, file
    <3>2. \/ i \in 1 .. Len(queued) /\ (queued \o item \o file)[i] = queued[i]
          \/ i - Len(queued) \in 1 .. Len(item) /\ (queued \o item \o file)[i] = item[i - Len(queued)]
          \/ /\ i - Len(queued) - Len(item) \in 1 .. Len(file)
             /\ (queued \o item \o file)[i] = file[i - Len(queued) - Len(item)] BY <2>1, <3>1, QueuedPlaces
    <3>4. \/ i \in 1 .. Len(queued) /\ queued'[i] = queued[i]
          \/ i - Len(queued) \in 1 .. Len(item) /\ queued'[i] = item[i - Len(queued)]
          \/ /\ i - Len(queued) - Len(item) \in 1 .. Len(file)
             /\ queued'[i] = file[i - Len(queued) - Len(item)] BY <2>2, <3>2
    <3> QED BY <3>4, <3>3, <2>3
  <2>7. ASSUME NEW u \in Threads, Making(u), u # t
        PROVE  \A i \in 1 .. Len(queued') : queued'[i] # job[u].items[1]
    <3>1. IsText(job[u].items[1])
      <4>1. PICK n \in 1 .. made.texts : job[u].items = <<Text(n)>> BY <2>7 DEF JobsFresh, Making
      <4>2. n \in Nat BY DEF BuffersOK
      <4> QED BY <4>1, <4>2, PieceShapes
    <3>2. \A j \in 1 .. Len(queued) : queued[j] # job[u].items[1] BY <2>7 DEF JobsFresh
    <3>3. item # << >> => item[1] # job[u].items[1] BY <2>4, <2>7 DEF JobsFresh
    <3> QED BY <2>6, <3>1, <3>2, <3>3
  <2>8. \A i \in 1 .. Len(queued') : IsText(queued'[i]) => \E n \in 1 .. made.texts : queued'[i] = Text(n)
    BY <2>4, <2>6 DEF JobsFresh
  <2>9. \A u, v \in Threads : Making(u)' /\ Making(v)' /\ job'[u].items[1] = job'[v].items[1] => u = v
    BY <2>2, <2>5 DEF JobsFresh
  <2>10. \A u \in Threads : Making(u)' => \A i \in 1 .. Len(queued') : queued'[i] # job'[u].items[1]
    BY <2>2, <2>5, <2>7
  <2>11. ASSUME NEW u \in Threads
         PROVE  /\ \/ job'[u].items = << >> /\ job'[u].file = << >>
                   \/ \E n \in 1 .. made'.texts : job'[u].items = <<Text(n)>>
                /\ \A i \in 1 .. Len(job'[u].file) : ~IsText(job'[u].file[i])
                /\ pc'[u] \in FilePcs => job'[u].file # << >> /\ job'[u].then = "idle" BY <2>2, <2>5 DEF JobsFresh
  <2> QED BY <2>2, <2>8, <2>9, <2>10, <2>11 DEF JobsFresh
<1>5. ASSUME NEW t \in Threads, Gather(t)
      PROVE  JobsFresh'
  <2>1. queued' = queued /\ made'.texts = made.texts BY <1>5 DEF Gather, Submit, Return
  <2>2. \A u \in Threads : Ended(u)
    <3>1. CASE Return(t) BY <3>1, ReturnEnds
    <3>2. CASE Goto(t, "clear") /\ job' = job BY <3>2, ReturnEnds DEF Pcs, WriterPcs
    <3> QED BY <1>5, <3>1, <3>2 DEF Gather, Submit
  <2> QED BY <2>1, <2>2, JobsKept
<1>7. ASSUME NEW t \in Threads, NEW readFails \in BOOLEAN, Encrypt(t, readFails)
      PROVE  JobsFresh'
  <2>1. queued' = queued /\ made'.texts = made.texts BY <1>7 DEF Encrypt, RemoveConnection, Return
  <2>2. \A u \in Threads : Ended(u)
    <3>1. CASE readFails BY <1>7, <3>1, ReturnEnds DEF Encrypt
    <3>2. CASE ~readFails BY <1>7, <3>2, ReturnEnds DEF Encrypt, Pcs, WriterPcs
    <3> QED BY <3>1, <3>2
  <2> QED BY <2>1, <2>2, JobsKept
<1>11. ASSUME NEW t \in Threads, LastLook(t)
      PROVE  JobsFresh'
  <2>1. queued' = queued /\ made'.texts = made.texts BY <1>11 DEF LastLook, PendingOutput, RemoveConnection, Return
  <2>2. \A u \in Threads : Ended(u)
    <3>1. CASE Return(t) \/ RemoveConnection(t, "close") BY <3>1, ReturnEnds
    <3>2. CASE (Goto(t, "cas") \/ Goto(t, "continue")) /\ job' = job BY <3>2, ReturnEnds DEF Pcs
    <3> QED BY <1>11, <3>1, <3>2 DEF LastLook
  <2> QED BY <2>1, <2>2, JobsKept
<1>14. ASSUME NEW t \in Threads, Message(t)
      PROVE  JobsFresh'
  <2>1. made'.texts = made.texts + 1 /\ queued' = queued BY <1>14, MadeTypes DEF Message, BuffersOK
  <2>2. /\ job'[t].items = <<Text(made.texts + 1)>> /\ job'[t].file = << >> /\ pc'[t] = "queue"
        /\ \A u \in Threads : u # t => pc'[u] = pc[u] /\ job'[u] = job[u]
        /\ pc[t] = "idle" BY <1>14 DEF Message, NoJob, TypeOK, BuffersOK
  <2> QED BY <2>1, <2>2, JobMade DEF Making
<1>16. ASSUME NEW t \in Workers, NEW kind \in Kinds, NEW last \in BOOLEAN,
              HandlerResponds(t, kind, last)
      PROVE  JobsFresh'
  <2>1. made'.texts = made.texts + 1 /\ queued' = queued BY <1>16, MadeTypes DEF HandlerResponds, Respond, BuffersOK
  <2>2. /\ job'[t].items = <<Text(made.texts + 1)>>
        /\ job'[t].file = (IF kind = "file" THEN FileOf(made.texts + 1) ELSE << >>)
        /\ job'[t].then = (IF last \/ kind = "file" THEN "idle" ELSE "continue")
        /\ pc'[t] = (IF kind = "file" THEN "setFile" ELSE "queue")
        /\ \A u \in Threads : u # t => pc'[u] = pc[u] /\ job'[u] = job[u]
        /\ pc[t] = "idle" /\ t \in Threads BY <1>16 DEF HandlerResponds, Respond, TypeOK, BuffersOK
  <2>3. FileOf(made.texts + 1) # << >>
        /\ \A i \in 1 .. Len(FileOf(made.texts + 1)) : ~IsText(FileOf(made.texts + 1)[i]) BY FileHasNoText, MadeTypes
  <2>4. \A i \in 1 .. Len(job'[t].file) : ~IsText(job'[t].file[i]) BY <2>2, <2>3
  <2>5. pc'[t] \in FilePcs => job'[t].file # << >> /\ job'[t].then = "idle" BY <2>2, <2>3
  <2> QED BY <2>1, <2>2, <2>4, <2>5, JobMade DEF Making
<1>17. CASE LoopRespondsError
  <2>1. made'.texts = made.texts + 1 /\ queued' = queued BY <1>17, MadeTypes DEF LoopRespondsError, Respond, BuffersOK
  <2>2. /\ job'[Loop].items = <<Text(made.texts + 1)>> /\ job'[Loop].file = << >> /\ pc'[Loop] = "queue"
        /\ \A u \in Threads : u # Loop => pc'[u] = pc[u] /\ job'[u] = job[u]
        /\ pc[Loop] = "idle" /\ Loop \in Threads BY <1>17 DEF LoopRespondsError, Respond, TypeOK, BuffersOK
  <2> QED BY <2>1, <2>2, JobMade DEF Making
<1>25. CASE UNCHANGED vars BY <1>25 DEF vars, JobsFresh, Making
<1> QED BY <1>1, <1>2, <1>5, <1>7, <1>11, <1>14, <1>16, <1>17, <1>25, SentCounts DEF Next, Step, Environment, Sent

----
\* The same texts

\* Pieces without text may come between.
LEMMA InsertQuiet ==
  ASSUME NEW q \in Seq(Pieces), NEW a \in Seq(Pieces), NEW m \in Seq(Pieces),
         NEW b \in Seq(Pieces),
         SameTexts(q, a \o b), \A i \in 1 .. Len(m) : ~IsText(m[i])
  PROVE  SameTexts(q, (a \o m) \o b)
<1> DEFINE s == a \o b
           r == (a \o m) \o b
           f == [j \in 1 .. Len(s) |-> IF j <= Len(a) THEN j ELSE j + Len(m)]
<1>1. /\ Len(a) \in Nat /\ Len(m) \in Nat /\ Len(b) \in Nat
      /\ s \in Seq(Pieces) /\ a \o m \in Seq(Pieces) /\ r \in Seq(Pieces)
      /\ Len(s) = Len(a) + Len(b) /\ Len(a \o m) = Len(a) + Len(m)
      /\ Len(r) = Len(a) + Len(m) + Len(b) BY ConcatProperties, LenProperties
<1>2. \A i \in 1 .. Len(a) + Len(b) : s[i] = IF i <= Len(a) THEN a[i] ELSE b[i - Len(a)] BY ConcatProperties
<1>3. \A i \in 1 .. Len(a) + Len(m) : (a \o m)[i] = IF i <= Len(a) THEN a[i] ELSE m[i - Len(a)] BY ConcatProperties
<1>4. \A i \in 1 .. Len(a) + Len(m) + Len(b) :
        r[i] = IF i <= Len(a) + Len(m) THEN (a \o m)[i] ELSE b[i - (Len(a) + Len(m))] BY <1>1, ConcatProperties
<1> HIDE DEF s, r
<1>5. f \in [1 .. Len(s) -> 1 .. Len(r)] /\ \A i, j \in 1 .. Len(s) : i < j => f[i] < f[j] BY <1>1
<1>6. ASSUME NEW i \in 1 .. Len(s) PROVE r[f[i]] = s[i]
  <2>1. CASE i <= Len(a)
    <3>1. /\ i \in 1 .. Len(a) + Len(b) /\ i \in 1 .. Len(a) + Len(m) /\ f[i] = i
          /\ i \in 1 .. Len(a) + Len(m) + Len(b) /\ i <= Len(a) + Len(m) BY <1>1, <2>1
    <3>2. s[i] = a[i] /\ (a \o m)[i] = a[i] BY <1>2, <1>3, <2>1, <3>1
    <3>3. r[i] = (a \o m)[i] BY <1>4, <3>1
    <3> QED BY <3>1, <3>2, <3>3
  <2>2. CASE i > Len(a)
    <3>1. f[i] = i + Len(m) /\ i + Len(m) \in 1 .. Len(a) + Len(m) + Len(b) BY <1>1, <2>2
    <3>2. (i + Len(m)) - (Len(a) + Len(m)) = i - Len(a) /\ ~(i + Len(m) <= Len(a) + Len(m)) BY <1>1, <2>2
    <3>3. s[i] = b[i - Len(a)] /\ r[i + Len(m)] = b[(i + Len(m)) - (Len(a) + Len(m))]
      BY <1>1, <1>2, <1>4, <2>2, <3>1, <3>2
    <3> QED BY <3>1, <3>2, <3>3
  <2> QED BY <1>1, <2>1, <2>2
<1>7. ASSUME NEW l \in 1 .. Len(r), IsText(r[l]) PROVE \E j \in 1 .. Len(s) : f[j] = l
  <2>1. CASE l <= Len(a) BY <1>1, <2>1
  <2>2. CASE l > Len(a) /\ l <= Len(a) + Len(m)
    <3>1. l - Len(a) \in 1 .. Len(m) /\ l \in 1 .. Len(a) + Len(m) /\ l \in 1 .. Len(a) + Len(m) + Len(b)
      BY <1>1, <2>2
    <3>2. r[l] = m[l - Len(a)] BY <1>3, <1>4, <2>2, <3>1
    <3> QED BY <1>7, <3>1, <3>2
  <2>3. CASE l > Len(a) + Len(m)
    <3>1. l - Len(m) \in 1 .. Len(s) /\ f[l - Len(m)] = l BY <1>1, <2>3
    <3> QED BY <3>1
  <2> QED BY <1>1, <2>1, <2>2, <2>3
<1>8. SameTexts(q, s) BY DEF s
<1> HIDE DEF f
<1>9. \A i \in 1 .. Len(s) : r[f[i]] = s[i] BY <1>6
<1>10. \A l \in 1 .. Len(r) : IsText(r[l]) => \E j \in 1 .. Len(s) : f[j] = l BY <1>7
<1>11. \A i, j \in 1 .. Len(q) : IsText(q[i]) /\ q[i] = q[j] => i = j BY <1>8 DEF SameTexts
<1>12. \A i, j \in 1 .. Len(r) : IsText(r[i]) /\ r[i] = r[j] => i = j
  <2> SUFFICES ASSUME NEW i \in 1 .. Len(r), NEW j \in 1 .. Len(r), IsText(r[i]),
      r[i] = r[j]
               PROVE  i = j OBVIOUS
  <2>1. PICK c \in 1 .. Len(s), d \in 1 .. Len(s) : f[c] = i /\ f[d] = j BY <1>10
  <2>2. IsText(s[c]) /\ s[c] = s[d] BY <2>1, <1>9
  <2> QED BY <2>1, <2>2, <1>8 DEF SameTexts
<1>13. \A i \in 1 .. Len(q) : IsText(q[i]) => \E j \in 1 .. Len(r) : r[j] = q[i]
  <2> SUFFICES ASSUME NEW i \in 1 .. Len(q),
      IsText(q[i]) PROVE \E j \in 1 .. Len(r) : r[j] = q[i] OBVIOUS
  <2>1. PICK c \in 1 .. Len(s) : s[c] = q[i] BY <1>8 DEF SameTexts
  <2> QED BY <2>1, <1>5, <1>9
<1>14. \A j \in 1 .. Len(r) : IsText(r[j]) => \E i \in 1 .. Len(q) : q[i] = r[j]
  <2> SUFFICES ASSUME NEW j \in 1 .. Len(r),
      IsText(r[j]) PROVE \E i \in 1 .. Len(q) : q[i] = r[j] OBVIOUS
  <2>1. PICK c \in 1 .. Len(s) : f[c] = j BY <1>10
  <2> QED BY <2>1, <1>8, <1>9 DEF SameTexts
<1>15. ASSUME NEW i \in 1 .. Len(q), NEW k \in 1 .. Len(q), i < k, IsText(q[i]),
              IsText(q[k]),
             NEW j \in 1 .. Len(r), NEW l \in 1 .. Len(r), r[j] = q[i], r[l] = q[k]
      PROVE  j < l
  <2>1. PICK c \in 1 .. Len(s), d \in 1 .. Len(s) : f[c] = j /\ f[d] = l BY <1>15, <1>10
  <2>2. s[c] = q[i] /\ s[d] = q[k] BY <1>15, <2>1, <1>9
  <2>3. c < d BY <1>15, <2>2, <1>8 DEF SameTexts
  <2> QED BY <2>1, <2>3, <1>5
<1>16. SameTexts(q, r) BY <1>11, <1>12, <1>13, <1>14, <1>15 DEF SameTexts
<1> QED BY <1>16 DEF r

\* The relation goes both ways.
LEMMA SameTextsSymmetric ==
  ASSUME NEW q \in Seq(Pieces), NEW s \in Seq(Pieces), SameTexts(q, s)
  PROVE  SameTexts(s, q)
<1>1. ASSUME NEW i \in 1 .. Len(s), NEW k \in 1 .. Len(s), i < k, IsText(s[i]),
             IsText(s[k]),
             NEW j \in 1 .. Len(q), NEW l \in 1 .. Len(q), q[j] = s[i], q[l] = s[k]
      PROVE  j < l
  <2>1. j # l
    <3> SUFFICES ASSUME j = l PROVE FALSE OBVIOUS
    <3>1. s[i] = s[k] BY <1>1
    <3>2. i = k BY <1>1, <3>1 DEF SameTexts
    <3> QED BY <1>1, <3>2
  <2>2. l < j => k < i BY <1>1 DEF SameTexts
  <2>3. j \in Int /\ l \in Int /\ i \in Int /\ k \in Int OBVIOUS
  <2> QED BY <1>1, <2>1, <2>2, <2>3
<1> QED BY <1>1 DEF SameTexts

\* Text x, new to both, is appended to both.
LEMMA AppendText ==
  ASSUME NEW q \in Seq(Pieces), NEW s \in Seq(Pieces), NEW x \in Pieces, SameTexts(q, s),
         IsText(x),
         \A i \in 1 .. Len(q) : q[i] # x
  PROVE  SameTexts(q \o <<x>>, s \o <<x>>)
<1> DEFINE p == q \o <<x>>
           r == s \o <<x>>
           a == Len(q)
           b == Len(s)
<1>1. /\ a \in Nat /\ b \in Nat /\ Len(p) = a + 1 /\ Len(r) = b + 1
      /\ \A i \in 1 .. a : p[i] = q[i]
      /\ \A i \in 1 .. b : r[i] = s[i]
      /\ p[a + 1] = x /\ r[b + 1] = x OBVIOUS
<1>2. \A j \in 1 .. b : s[j] # x BY DEF SameTexts
<1>3. /\ \A i \in 1 .. Len(p) : i \in 1 .. a \/ i = a + 1
      /\ \A i \in 1 .. Len(r) : i \in 1 .. b \/ i = b + 1
      /\ \A i \in 1 .. a : i \in 1 .. Len(p) /\ i < a + 1
      /\ \A i \in 1 .. b : i \in 1 .. Len(r) /\ i < b + 1
      /\ a + 1 \in 1 .. Len(p) /\ b + 1 \in 1 .. Len(r) BY <1>1
<1> HIDE DEF p, r, a, b
<1>4. /\ \A i, j \in 1 .. a : IsText(q[i]) /\ q[i] = q[j] => i = j
      /\ \A i, j \in 1 .. b : IsText(s[i]) /\ s[i] = s[j] => i = j
      /\ \A i \in 1 .. a : IsText(q[i]) => \E j \in 1 .. b : s[j] = q[i]
      /\ \A j \in 1 .. b : IsText(s[j]) => \E i \in 1 .. a : q[i] = s[j]
      /\ \A i, k \in 1 .. a : i < k /\ IsText(q[i]) /\ IsText(q[k]) =>
           \A j, l \in 1 .. b : s[j] = q[i] /\ s[l] = q[k] => j < l BY DEF SameTexts, a, b
<1>5. \A i \in 1 .. a : q[i] # x BY DEF a
<1>6. \A i, j \in 1 .. Len(p) : IsText(p[i]) /\ p[i] = p[j] => i = j
  <2>1. \A i \in 1 .. a : p[i] # x BY <1>1, <1>5
  <2>2. \A i, j \in 1 .. a : IsText(p[i]) /\ p[i] = p[j] => i = j BY <1>1, <1>4
  <2> QED BY <2>1, <2>2, <1>1, <1>3
<1>7. \A i, j \in 1 .. Len(r) : IsText(r[i]) /\ r[i] = r[j] => i = j
  <2>1. \A i \in 1 .. b : r[i] # x BY <1>1, <1>2
  <2> QED BY <2>1, <1>1, <1>3, <1>4
<1>8. \A i \in 1 .. Len(p) : IsText(p[i]) => \E j \in 1 .. Len(r) : r[j] = p[i] BY <1>1, <1>3, <1>4
<1>9. ASSUME NEW j \in 1 .. Len(r), IsText(r[j]) PROVE \E i \in 1 .. Len(p) : p[i] = r[j]
  <2>1. CASE j = b + 1 BY <2>1, <1>1, <1>3
  <2>2. CASE j \in 1 .. b
    <3>1. PICK i \in 1 .. a : q[i] = s[j] BY <2>2, <1>1, <1>4, <1>9
    <3> QED BY <3>1, <2>2, <1>1, <1>3
  <2> QED BY <2>1, <2>2, <1>3
<1>10. ASSUME NEW i \in 1 .. Len(p), NEW k \in 1 .. Len(p), i < k, IsText(p[i]),
              IsText(p[k]),
              NEW j \in 1 .. Len(r), NEW l \in 1 .. Len(r), r[j] = p[i], r[l] = p[k]
       PROVE  j < l
  <2>1. i \in 1 .. a /\ j \in 1 .. b
    <3>1. i \in 1 .. a BY <1>10, <1>1, <1>3
    <3> QED BY <3>1, <1>10, <1>1, <1>3, <1>5
  <2>2. CASE k = a + 1
    <3>1. l = b + 1 BY <2>2, <1>10, <1>1, <1>2, <1>3 DEF b
    <3> QED BY <2>1, <3>1, <1>3
  <2>3. CASE k \in 1 .. a
    <3>1. l \in 1 .. b BY <2>3, <1>10, <1>1, <1>3, <1>5
    <3> QED BY <2>1, <2>3, <3>1, <1>10, <1>1, <1>4
  <2> QED BY <2>2, <2>3, <1>3
<1>11. SameTexts(p, r) BY <1>6, <1>7, <1>8, <1>9, <1>10 DEF SameTexts
<1> QED BY <1>11 DEF p, r

\* Pieces without text after either.
LEMMA AppendQuiet ==
  ASSUME NEW q \in Seq(Pieces), NEW s \in Seq(Pieces), NEW m \in Seq(Pieces), SameTexts(q, s),
         \A i \in 1 .. Len(m) : ~IsText(m[i])
  PROVE  SameTexts(q \o m, s)
<1>1. << >> \in Seq(Pieces) /\ q \o m \in Seq(Pieces) BY EmptySeq, ConcatProperties
<1>2. q \o << >> = q /\ (q \o m) \o << >> = q \o m BY <1>1, ConcatEmptySeq
<1>3. SameTexts(s, q \o << >>) BY <1>2, SameTextsSymmetric
<1>4. SameTexts(s, (q \o m) \o << >>) BY <1>1, <1>3, InsertQuiet
<1> QED BY <1>1, <1>2, <1>4, SameTextsSymmetric

----
\* The line of pieces

\* Concatenation, as facts to cite for given sequences.
Associates(a, b, c) == (a \o b) \o c = a \o (b \o c)
Regroups(a, b, c, d) == a \o (b \o (c \o d)) = (a \o (b \o c)) \o d

\* For any three sequences of pieces ...
LEMMA Associative == \A a, b, c \in Seq(Pieces) : Associates(a, b, c) BY ConcatAssociative DEF Associates

\* ... and for any four.
LEMMA Regroup == \A a, b, c, d \in Seq(Pieces) : Regroups(a, b, c, d)
<1> SUFFICES ASSUME NEW a \in Seq(Pieces), NEW b \in Seq(Pieces), NEW c \in Seq(Pieces),
                    NEW d \in Seq(Pieces)
             PROVE  Regroups(a, b, c, d) OBVIOUS
<1>1. b \o c \in Seq(Pieces) BY ConcatProperties
<1>2. Associates(b, c, d) BY Associative
<1>3. Associates(a, b \o c, d) BY <1>1, Associative
<1> QED BY <1>2, <1>3, Zenon DEF Associates, Regroups

\* The line consists of pieces.
LEMMA LineTypes == BuffersOK => Line \in Seq(Pieces)
<1> SUFFICES ASSUME BuffersOK PROVE Line \in Seq(Pieces) OBVIOUS
<1>1. /\ writeBuffer \in Seq(Pieces) /\ activeBuffer \in Seq(Pieces) /\ tlsBuffer \in Seq(Pieces)
      /\ inflight \in Seq(Pieces) /\ chunk \in Seq(Pieces) /\ wire \in Seq(Pieces) BY DEF BuffersOK
<1>2. activeBuffer \o writeBuffer \in Seq(Pieces) BY <1>1, ConcatProperties
<1>3. chunk \o (activeBuffer \o writeBuffer) \in Seq(Pieces) BY <1>1, <1>2, ConcatProperties
<1>4. tlsBuffer \o (chunk \o (activeBuffer \o writeBuffer)) \in Seq(Pieces) BY <1>1, <1>3, ConcatProperties
<1>5. inflight \o (tlsBuffer \o (chunk \o (activeBuffer \o writeBuffer))) \in Seq(Pieces)
  BY <1>1, <1>4, ConcatProperties
<1> QED BY <1>1, <1>5, ConcatProperties DEF Line

\* What is queued joins the end of the line.
LEMMA LineEnd ==
  ASSUME BuffersOK, NEW x \in Seq(Pieces)
  PROVE  wire \o (inflight \o (tlsBuffer \o (chunk \o (activeBuffer \o (writeBuffer \o x)))))
           = Line \o x
<1> DEFINE g == chunk \o (activeBuffer \o writeBuffer)
<1>1. /\ writeBuffer \in Seq(Pieces) /\ activeBuffer \in Seq(Pieces) /\ tlsBuffer \in Seq(Pieces)
      /\ inflight \in Seq(Pieces) /\ chunk \in Seq(Pieces) /\ wire \in Seq(Pieces) BY DEF BuffersOK
<1>2. activeBuffer \o writeBuffer \in Seq(Pieces) BY <1>1, ConcatProperties
<1>3. g \in Seq(Pieces) BY <1>1, <1>2, ConcatProperties
<1>9. Regroups(chunk, activeBuffer, writeBuffer, x) BY <1>1, Regroup
<1>4. chunk \o (activeBuffer \o (writeBuffer \o x)) = g \o x BY <1>9, Zenon DEF Regroups
<1> HIDE DEF g
<1>5. Associates(tlsBuffer, g, x) BY <1>1, <1>3, Associative
<1>6. tlsBuffer \o g \in Seq(Pieces) BY <1>1, <1>3, ConcatProperties
<1>7. Regroups(wire, inflight, tlsBuffer \o g, x) BY <1>1, <1>6, Regroup
<1>8. Line = wire \o (inflight \o (tlsBuffer \o g)) BY DEF Line, g
<1> QED BY <1>4, <1>5, <1>7, <1>8, Zenon DEF Associates, Regroups

\* Every step keeps the texts of the line those that were queued, in order.
LEMMA LineStep ==
  ASSUME TypeOK, BuffersOK, OneWriter, TlsApart, FileKept, JobsFresh, SameTexts(queued, Line), [Next]_vars
  PROVE  SameTexts(queued', Line')
<1> USE DEF Goto, buffers, fileVars, history, Threads
<1>0. /\ writeBuffer \in Seq(Pieces) /\ activeBuffer \in Seq(Pieces) /\ tlsBuffer \in Seq(Pieces)
      /\ inflight \in Seq(Pieces) /\ chunk \in Seq(Pieces) /\ wire \in Seq(Pieces)
      /\ fileLeft \in Seq(Pieces) /\ queued \in Seq(Pieces) BY DEF BuffersOK
<1>1. CASE \/ \E t \in Threads : SetFile(t) \/ Win(t) \/ Lose(t) \/ CloseFile(t) \/ SubmitTls(t)
                               \/ ClearWriting(t) \/ LastLook(t) \/ Cancel(t) \/ Message(t)
                               \/ MarkForClose(t) \/ StoreFile(t) \/ StoreExtent(t) \/ LookAtFile(t)
           \/ LoopRespondsError \/ RequestRead \/ WriteWouldBlock \/ WriteFailed \/ PeerGone
           \/ \E t \in Threads, nextPhase \in {"granted", "reading", "handling"} : Continue(t, nextPhase)
           \/ \E t \in Workers, kind \in Kinds, last \in BOOLEAN : HandlerResponds(t, kind, last)
  <2>1. Line' = Line /\ queued' = queued
    <3> USE DEF Line
    <3>1. CASE \E t \in Threads : SetFile(t) BY <3>1 DEF SetFile
    <3>2. CASE \E t \in Threads : Win(t) BY <3>2 DEF Win
    <3>3. CASE \E t \in Threads : Lose(t) BY <3>3 DEF Lose, Return
    <3>4. CASE \E t \in Threads : CloseFile(t) BY <3>4 DEF CloseFile, AfterFile
    <3>5. CASE \E t \in Threads : SubmitTls(t) BY <3>5 DEF SubmitTls, Submit, Return
    <3>6. CASE \E t \in Threads : ClearWriting(t) BY <3>6 DEF ClearWriting
    <3>7. CASE \E t \in Threads : LastLook(t) BY <3>7 DEF LastLook, PendingOutput, RemoveConnection, Return
    <3>8. CASE \E t \in Threads : Cancel(t) BY <3>8 DEF Cancel, Return
    <3>9. CASE \E t \in Threads : Message(t) BY <3>9 DEF Message
    <3>10. CASE \E t \in Threads : MarkForClose(t) BY <3>10 DEF MarkForClose
    <3>11. CASE \E t \in Threads : StoreFile(t) BY <3>11 DEF StoreFile
    <3>12. CASE \E t \in Threads : StoreExtent(t) BY <3>12 DEF StoreExtent
    <3>13. CASE \E t \in Threads : LookAtFile(t) BY <3>13 DEF LookAtFile, AfterFile
    <3>14. CASE LoopRespondsError BY <3>14 DEF LoopRespondsError, Respond
    <3>15. CASE RequestRead BY <3>15 DEF RequestRead
    <3>16. CASE WriteWouldBlock BY <3>16 DEF WriteWouldBlock
    <3>17. CASE WriteFailed BY <3>17 DEF WriteFailed
    <3>18. CASE PeerGone BY <3>18 DEF PeerGone
    <3>19. CASE \E t \in Threads, nextPhase \in {"granted", "reading", "handling"} : Continue(t, nextPhase) BY <3>19
      DEF Continue
    <3>20. CASE \E t \in Workers, kind \in Kinds, last \in BOOLEAN : HandlerResponds(t, kind, last) BY <3>20
      DEF HandlerResponds, Respond
    <3> QED BY <1>1, <3>1, <3>2, <3>3, <3>4, <3>5, <3>6, <3>7, <3>8, <3>9, <3>10, <3>11, <3>12, <3>13,
      <3>14, <3>15, <3>16, <3>17, <3>18, <3>19, <3>20
  <2> QED BY <2>1
<1>2. ASSUME NEW t \in Threads, SendData(t)
      PROVE  SameTexts(queued', Line')
  <2> DEFINE item == job[t].items
             file == job[t].file
  <2>1. /\ queued \in Seq(Pieces) /\ item \in Seq(Pieces) /\ file \in Seq(Pieces) BY DEF BuffersOK, Jobs
  <2>2. /\ queued' = (queued \o item) \o file /\ pc[t] = "queue"
        /\ Line' = wire \o (inflight \o (tlsBuffer \o (chunk \o (activeBuffer \o (writeBuffer \o item)))))
    BY <1>2 DEF SendData, Line
  <2>3. \A i \in 1 .. Len(file) : ~IsText(file[i]) BY DEF JobsFresh
  <2>4. (item = << >> /\ file = << >>) \/ \E n \in 1 .. made.texts : item = <<Text(n)>> BY DEF JobsFresh
  <2>5. item # << >> => \A i \in 1 .. Len(queued) : queued[i] # item[1] BY <2>2 DEF JobsFresh, Making
  <2> HIDE DEF item, file
  <2>6. Line' = Line \o item BY <2>1, <2>2, LineEnd
  <2>7. CASE item = << >> /\ file = << >>
    <3>1. queued' = queued /\ Line' = Line BY <2>1, <2>2, <2>6, <2>7, LineTypes, ConcatEmptySeq
    <3> QED BY <3>1
  <2>8. ASSUME NEW n \in 1 .. made.texts, item = <<Text(n)>>
        PROVE  SameTexts(queued', Line')
    <3>1. n \in Nat BY DEF BuffersOK
    <3>2. Text(n) \in Pieces /\ IsText(Text(n)) BY <3>1, PieceShapes DEF Pieces
    <3>3. \A i \in 1 .. Len(queued) : queued[i] # Text(n) BY <2>5, <2>8
    <3>4. SameTexts(queued \o <<Text(n)>>, Line \o <<Text(n)>>) BY <2>1, <3>2, <3>3, LineTypes, AppendText
    <3>5. queued \o item \in Seq(Pieces) /\ Line \o item \in Seq(Pieces) BY <2>1, LineTypes, ConcatProperties
    <3>6. SameTexts((queued \o item) \o file, Line \o item) BY <2>1, <2>3, <2>8, <3>4, <3>5, AppendQuiet
    <3> QED BY <2>2, <2>6, <3>6
  <2> QED BY <2>4, <2>7, <2>8
<1>5. ASSUME NEW t \in Threads, Gather(t)
      PROVE  SameTexts(queued', Line')
  <2>1. activeBuffer' \o writeBuffer' = activeBuffer \o writeBuffer
    <3>1. CASE activeBuffer = << >>
      <4>1. activeBuffer' = writeBuffer /\ writeBuffer' = << >> BY <1>5, <3>1 DEF Gather
      <4> QED BY <1>0, <3>1, <4>1, ConcatEmptySeq
    <3>2. CASE activeBuffer # << >> BY <1>5, <3>2 DEF Gather
    <3> QED BY <3>1, <3>2
  <2>2. UNCHANGED <<wire, inflight, tlsBuffer, chunk, queued>> BY <1>5 DEF Gather
  <2>3. Line' = Line BY <2>1, <2>2 DEF Line
  <2> QED BY <2>2, <2>3
<1>6. ASSUME NEW t \in Threads, Take(t)
      PROVE  SameTexts(queued', Line')
  <2>1. tls /\ chunk = << >> /\ activeBuffer = << >> BY <1>6 DEF Take, TlsApart, OneWriter, WriterPcs
  <2>2. /\ UNCHANGED <<wire, inflight, tlsBuffer, activeBuffer, queued>>
        /\ chunk' = writeBuffer /\ writeBuffer' = << >> BY <1>6 DEF Take
  <2>3. chunk' \o (activeBuffer' \o writeBuffer') = writeBuffer BY <1>0, <2>1, <2>2, ConcatEmptySeq, EmptySeq
  <2>4. chunk \o (activeBuffer \o writeBuffer) = writeBuffer BY <1>0, <2>1, ConcatEmptySeq
  <2>5. Line' = Line BY <2>2, <2>3, <2>4 DEF Line
  <2> QED BY <2>2, <2>5
<1>7. ASSUME NEW t \in Threads, NEW readFails \in BOOLEAN, Encrypt(t, readFails)
      PROVE  SameTexts(queued', Line')
  <2> DEFINE w == activeBuffer \o writeBuffer
             cipher == tlsBuffer \o chunk
             readsFile == fileOpen /\ fileLeft # << >> /\ cipher = << >> /\ inflight = << >>
  <2>1. w \in Seq(Pieces) /\ cipher \in Seq(Pieces) /\ << >> \in Seq(Pieces) BY <1>0, ConcatProperties, EmptySeq
  <2>2. Line = wire \o (inflight \o (cipher \o w))
    <3>1. Associates(tlsBuffer, chunk, w) BY <1>0, <2>1, Associative
    <3> QED BY <3>1, Zenon DEF Line, Associates
  <2>3. /\ wire' = wire /\ queued' = queued /\ chunk' = << >>
        /\ activeBuffer' \o writeBuffer' = w BY <1>7 DEF Encrypt
  <2> HIDE DEF w
  <2>4. << >> \o w = w BY <2>1, ConcatEmptySeq
  <2>5. Line' = wire \o (inflight' \o (tlsBuffer' \o w)) BY <2>3, <2>4 DEF Line
  <2>6. CASE inflight # << >>
    <3>1. tlsBuffer' = cipher /\ inflight' = inflight BY <1>7, <2>6 DEF Encrypt
    <3>2. Line' = Line BY <2>2, <2>5, <3>1
    <3> QED BY <2>3, <3>2
  <2>7. CASE inflight = << >> /\ ~(readsFile /\ ~readFails)
    <3>1. inflight' = cipher /\ tlsBuffer' = << >> BY <1>7, <2>7 DEF Encrypt
    <3> HIDE DEF cipher
    <3>2. cipher \o w \in Seq(Pieces) BY <2>1, ConcatProperties
    <3>3. Line' = Line BY <2>1, <2>2, <2>4, <2>5, <2>7, <3>1, <3>2, ConcatEmptySeq
    <3> QED BY <2>3, <3>3
  <2>8. CASE readsFile /\ ~readFails
    <3> DEFINE h == <<Head(fileLeft)>>
    <3>1. inflight' = h /\ tlsBuffer' = << >> /\ inflight = << >> /\ cipher = << >> /\ fileLeft # << >>
      BY <1>7, <2>8 DEF Encrypt
    <3>2. h \in Seq(Pieces) /\ Len(h) = 1 /\ h[1] = Head(fileLeft) BY <1>0, <3>1, HeadTailProperties
    <3>3. Head(fileLeft) = fileLeft[1] /\ 1 \in 1 .. Len(fileLeft) BY <1>0, <3>1
    <3>4. \A i \in 1 .. Len(h) : ~IsText(h[i]) BY <3>2, <3>3 DEF FileKept
    <3> HIDE DEF h, cipher
    <3>5. Line = wire \o w BY <2>1, <2>2, <2>4, <3>1
    <3>6. Line' = (wire \o h) \o w
      <4>1. Line' = wire \o (h \o w) BY <2>4, <2>5, <3>1
      <4>2. Associates(wire, h, w) BY <1>0, <2>1, <3>2, Associative
      <4> QED BY <4>1, <4>2, Zenon DEF Associates
    <3>7. SameTexts(queued, (wire \o h) \o w) BY <1>0, <2>1, <3>2, <3>4, <3>5, InsertQuiet
    <3> QED BY <2>3, <3>6, <3>7
  <2> QED BY <2>6, <2>7, <2>8
<1>19. CASE TlsReadMakesRecord
  <2> DEFINE r == Record(made.records + 1)
             a == wire \o (inflight \o tlsBuffer)
             b == chunk \o (activeBuffer \o writeBuffer)
  <2>1. r \in Pieces /\ ~IsText(r) BY MadeTypes, PieceTypes, PieceShapes
  <2>2. activeBuffer \o writeBuffer \in Seq(Pieces) /\ inflight \o tlsBuffer \in Seq(Pieces) BY <1>0, ConcatProperties
  <2>3. a \in Seq(Pieces) /\ b \in Seq(Pieces) BY <1>0, <2>2, ConcatProperties
  <2>4. /\ UNCHANGED <<wire, inflight, chunk, activeBuffer, writeBuffer, queued>>
        /\ tlsBuffer' = Append(tlsBuffer, r) BY <1>19 DEF TlsReadMakesRecord
  <2> HIDE DEF r
  <2>5. /\ Append(tlsBuffer, r) = tlsBuffer \o <<r>> /\ <<r>> \in Seq(Pieces)
        /\ Len(<<r>>) = 1 /\ <<r>>[1] = r BY <1>0, <2>1, AppendIsConcat
  <2>6. tlsBuffer \o <<r>> \in Seq(Pieces) BY <1>0, <2>5, ConcatProperties
  <2>7. Line' = wire \o (inflight \o ((tlsBuffer \o <<r>>) \o b)) BY <2>4, <2>5 DEF Line
  <2>8. Line = wire \o (inflight \o (tlsBuffer \o b)) BY DEF Line
  <2> HIDE DEF b
  <2>9. Line = a \o b
    <3>1. Regroups(wire, inflight, tlsBuffer, b) BY <1>0, <2>3, Regroup
    <3> QED BY <2>8, <3>1, Zenon DEF Regroups
  <2>10. Line' = (wire \o (inflight \o (tlsBuffer \o <<r>>))) \o b
    <3> DEFINE c == tlsBuffer \o <<r>>
    <3>1. c \in Seq(Pieces) /\ Line' = wire \o (inflight \o (c \o b)) BY <2>6, <2>7, Zenon
    <3> HIDE DEF c
    <3>2. Regroups(wire, inflight, c, b) BY <1>0, <2>3, <3>1, Regroup
    <3> QED BY <3>1, <3>2, Zenon DEF c, Regroups
  <2>11. wire \o (inflight \o (tlsBuffer \o <<r>>)) = a \o <<r>>
    <3>1. Regroups(wire, inflight, tlsBuffer, <<r>>) BY <1>0, <2>5, Regroup
    <3> QED BY <3>1, Zenon DEF Regroups
  <2> HIDE DEF a
  <2>12. \A i \in 1 .. Len(<<r>>) : ~IsText(<<r>>[i]) BY <2>1, <2>5
  <2>13. SameTexts(queued, (a \o <<r>>) \o b) BY <1>0, <2>3, <2>5, <2>9, <2>12, InsertQuiet
  <2> QED BY <2>4, <2>10, <2>11, <2>13
<1>23. ASSUME NEW n \in Nat, WriteComplete(n)
      PROVE  SameTexts(queued', Line')
  <2> DEFINE w == activeBuffer \o writeBuffer
             rest == tlsBuffer \o (chunk \o w)
  <2>1. w \in Seq(Pieces) BY <1>0, ConcatProperties
  <2>2. chunk \o w \in Seq(Pieces) BY <1>0, <2>1, ConcatProperties
  <2>3. rest \in Seq(Pieces) BY <1>0, <2>2, ConcatProperties
  <2>4. ASSUME NEW s \in Seq(Pieces), NEW r \in Seq(Pieces), n \in 1 .. Len(s)
        PROVE  (wire \o SubSeq(s, 1, n)) \o (SubSeq(s, n + 1, Len(s)) \o r) = wire \o (s \o r)
    <3>1. SubSeq(s, 1, n) \o SubSeq(s, n + 1, Len(s)) = SubSeq(s, 1, Len(s))
      BY <2>4, LenProperties, ConcatAdjacentSubSeq
    <3>2. SubSeq(s, 1, Len(s)) = s BY SubSeqFull
    <3>3. SubSeq(s, 1, n) \in Seq(Pieces) /\ SubSeq(s, n + 1, Len(s)) \in Seq(Pieces) BY <2>4, SubSeqProperties
    <3> DEFINE x == SubSeq(s, 1, n)
               y == SubSeq(s, n + 1, Len(s))
    <3>4. x \in Seq(Pieces) /\ y \in Seq(Pieces) /\ x \o y = s BY <3>1, <3>2, <3>3
    <3> HIDE DEF x, y
    <3>5. y \o r \in Seq(Pieces) BY <3>4, ConcatProperties
    <3>6. Associates(wire, x, y \o r) BY <1>0, <3>4, <3>5, Associative
    <3>7. x \o (y \o r) = s \o r
      <4>1. Associates(x, y, r) BY <3>4, Associative
      <4> QED BY <3>4, <4>1, Zenon DEF Associates
    <3> QED BY <3>6, <3>7, Zenon DEF x, y, Associates
  <2>5. CASE tls
    <3>1. /\ n \in 1 .. Len(inflight) /\ wire' = wire \o SubSeq(inflight, 1, n)
          /\ inflight' = SubSeq(inflight, n + 1, Len(inflight))
          /\ UNCHANGED <<tlsBuffer, chunk, activeBuffer, writeBuffer, queued>>
      BY <1>23, <2>5 DEF WriteComplete, Unsent
    <3>2. Line' = (wire \o SubSeq(inflight, 1, n)) \o (SubSeq(inflight, n + 1, Len(inflight)) \o rest)
      BY <3>1 DEF Line
    <3>3. Line = wire \o (inflight \o rest) BY DEF Line
    <3> HIDE DEF rest
    <3>4. Line' = Line BY <1>0, <2>3, <2>4, <3>1, <3>2, <3>3
    <3> QED BY <3>1, <3>4
  <2>6. CASE ~tls
    <3>1. inflight = << >> /\ tlsBuffer = << >> /\ chunk = << >> BY <2>6 DEF TlsApart
    <3>2. /\ n \in 1 .. Len(activeBuffer) /\ wire' = wire \o SubSeq(activeBuffer, 1, n)
          /\ activeBuffer' = SubSeq(activeBuffer, n + 1, Len(activeBuffer))
          /\ UNCHANGED <<tlsBuffer, chunk, inflight, writeBuffer, queued>> BY <1>23, <2>6 DEF WriteComplete, Unsent
    <3>3. \A s \in Seq(Pieces) : << >> \o (<< >> \o (<< >> \o s)) = s BY ConcatEmptySeq
    <3>4. Line = wire \o (activeBuffer \o writeBuffer) BY <2>1, <3>1, <3>3 DEF Line
    <3>5. SubSeq(activeBuffer, n + 1, Len(activeBuffer)) \in Seq(Pieces) BY <1>0, <3>2, SubSeqProperties
    <3>6. SubSeq(activeBuffer, n + 1, Len(activeBuffer)) \o writeBuffer \in Seq(Pieces)
      BY <1>0, <3>5, ConcatProperties
    <3>7. Line' = wire' \o (SubSeq(activeBuffer, n + 1, Len(activeBuffer)) \o writeBuffer)
      BY <3>1, <3>2, <3>3, <3>6 DEF Line
    <3>8. Line' = Line BY <1>0, <2>4, <3>2, <3>4, <3>7
    <3> QED BY <3>2, <3>8
  <2> QED BY <2>5, <2>6
<1>24. ASSUME NEW n \in Nat, SendfileComplete(n)
      PROVE  SameTexts(queued', Line')
  <2> DEFINE rest == inflight \o (tlsBuffer \o (chunk \o (activeBuffer \o writeBuffer)))
             m == SubSeq(fileLeft, 1, n)
  <2>1. activeBuffer \o writeBuffer \in Seq(Pieces) BY <1>0, ConcatProperties
  <2>2. chunk \o (activeBuffer \o writeBuffer) \in Seq(Pieces) BY <1>0, <2>1, ConcatProperties
  <2>3. tlsBuffer \o (chunk \o (activeBuffer \o writeBuffer)) \in Seq(Pieces) BY <1>0, <2>2, ConcatProperties
  <2>4. rest \in Seq(Pieces) BY <1>0, <2>3, ConcatProperties
  <2>5. /\ wire' = wire \o m /\ queued' = queued /\ n \in 1 .. Len(fileLeft)
        /\ UNCHANGED <<inflight, tlsBuffer, chunk, activeBuffer, writeBuffer>> BY <1>24 DEF SendfileComplete
  <2>6. m \in Seq(Pieces) /\ Len(m) = n /\ \A i \in 1 .. n : m[i] = fileLeft[i] /\ i \in 1 .. Len(fileLeft)
    BY <1>0, <2>5, SubSeqProperties
  <2>7. \A i \in 1 .. Len(m) : ~IsText(m[i]) BY <2>6 DEF FileKept
  <2>8. Line = wire \o rest /\ Line' = (wire \o m) \o rest BY <2>5 DEF Line
  <2> HIDE DEF rest, m
  <2>9. SameTexts(queued, (wire \o m) \o rest) BY <1>0, <2>4, <2>6, <2>7, <2>8, InsertQuiet
  <2> QED BY <2>5, <2>8, <2>9
<1>25. CASE UNCHANGED vars
  <2>1. Line' = Line /\ queued' = queued BY <1>25 DEF vars, Line
  <2> QED BY <2>1
<1> QED BY <1>1, <1>2, <1>5, <1>6, <1>7, <1>19, <1>23, <1>24, <1>25, SentCounts DEF Next, Step, Environment, Sent

----
\* What has been sent when the connection closes

\* A step that queues nothing and starts to queue no file, and leaves every piece
\* sent or left.
LEMMA FilesKept ==
  ASSUME FilesSent, queued' = queued, Covered \subseteq Covered',
         \A u \in Threads : pc'[u] = "queue" =>
           job'[u].file = << >> \/ (pc[u] = "queue" /\ job'[u] = job[u])
  PROVE  FilesSent'
<1>1. \A i \in 1 .. Len(queued') : ~IsText(queued'[i]) => queued'[i] \in Covered' BY DEF FilesSent
<1>2. ASSUME NEW u \in Threads, pc'[u] = "queue" PROVE Range(job'[u].file) \subseteq Covered'
  <2>1. CASE job'[u].file = << >> BY <2>1 DEF Range
  <2>2. CASE pc[u] = "queue" /\ job'[u] = job[u] BY <2>2 DEF FilesSent
  <2> QED BY <1>2, <2>1, <2>2
<1> QED BY <1>1, <1>2 DEF FilesSent

\* Nobody starts to queue by returning from trigger_write().
LEMMA ReturnQueues ==
  ASSUME TypeOK, BuffersOK, NEW t \in Threads
  PROVE  /\ Return(t) => \A u \in Threads : pc'[u] = "queue" => pc[u] = "queue" /\ job'[u] = job[u]
         /\ \A place \in Pcs \ {"queue"} : Goto(t, place) /\ job' = job =>
              \A u \in Threads : pc'[u] = "queue" => pc[u] = "queue" /\ job'[u] = job[u]
         /\ \A why : RemoveConnection(t, why) =>
              \A u \in Threads : pc'[u] = "queue" => pc[u] = "queue" /\ job'[u] = job[u]
<1>1. Return(t) => \A u \in Threads : pc'[u] = "queue" => pc[u] = "queue" /\ job'[u] = job[u]
  BY DEF TypeOK, BuffersOK, Return, Goto
<1>2. \A place \in Pcs \ {"queue"} : Goto(t, place) /\ job' = job =>
        \A u \in Threads : pc'[u] = "queue" => pc[u] = "queue" /\ job'[u] = job[u] BY DEF TypeOK, BuffersOK, Goto
<1>3. "cancel" \in Pcs \ {"queue"} BY DEF Pcs
<1> QED BY <1>1, <1>2, <1>3 DEF RemoveConnection

\* Where the pieces are when x is put behind w.
LEMMA SentGrows ==
  ASSUME NEW w \in Seq(Pieces), NEW x \in Seq(Pieces)
  PROVE  /\ Len(w) \in Nat /\ Len(w \o x) \in Nat /\ Len(w) <= Len(w \o x)
         /\ \A j \in 1 .. Len(w) : j \in 1 .. Len(w \o x) /\ (w \o x)[j] = w[j]
         /\ \A j \in 1 .. Len(x) : Len(w) + j \in 1 .. Len(w \o x) /\ (w \o x)[Len(w) + j] = x[j] OBVIOUS

\* The pieces of a buffer are those in its places.
LEMMA PiecesOf ==
  ASSUME NEW s \in Seq(Pieces)
  PROVE  /\ \A j \in 1 .. Len(s) : s[j] \in Range(s)
         /\ \A piece \in Range(s) : \E j \in 1 .. Len(s) : s[j] = piece BY DEF Range

\* What is put together or cut in two has the same pieces.
LEMMA SamePieces ==
  ASSUME NEW a \in Seq(Pieces), NEW b \in Seq(Pieces)
  PROVE  /\ Range(a \o b) = Range(a) \cup Range(b)
         /\ \A n \in 1 .. Len(a) :
              Range(a) = Range(SubSeq(a, 1, n)) \cup Range(SubSeq(a, n + 1, Len(a)))
<1>1. ASSUME NEW c \in Seq(Pieces), NEW d \in Seq(Pieces) PROVE Range(c \o d) = Range(c) \cup Range(d)
  <2>0. c \o d \in Seq(Pieces) BY ConcatProperties
  <2>1. Range(c) \cup Range(d) \subseteq Range(c \o d)
    <3>0. \A j \in 1 .. Len(c \o d) : (c \o d)[j] \in Range(c \o d) BY <2>0, PiecesOf
    <3>1. \A j \in 1 .. Len(c) : c[j] \in Range(c \o d) BY <3>0, SentGrows
    <3>2. ASSUME NEW j \in 1 .. Len(d) PROVE d[j] \in Range(c \o d)
      <4>1. Len(c) + j \in 1 .. Len(c \o d) /\ (c \o d)[Len(c) + j] = d[j] BY SentGrows
      <4>2. (c \o d)[Len(c) + j] \in Range(c \o d) BY <3>0, <4>1
      <4> QED BY <4>1, <4>2
    <3> QED BY <3>1, <3>2, PiecesOf
  <2>2. ASSUME NEW j \in 1 .. Len(c \o d) PROVE (c \o d)[j] \in Range(c) \cup Range(d)
    <3>1. CASE j <= Len(c) BY <3>1 DEF Range
    <3>2. CASE j > Len(c)
      <4>1. j - Len(c) \in 1 .. Len(d) /\ (c \o d)[j] = d[j - Len(c)] BY <3>2
      <4> QED BY <4>1 DEF Range
    <3> QED BY <3>1, <3>2
  <2>3. Range(c \o d) \subseteq Range(c) \cup Range(d) BY <2>2 DEF Range
  <2> QED BY <2>1, <2>3
<1>2. ASSUME NEW n \in 1 .. Len(a)
      PROVE  Range(a) = Range(SubSeq(a, 1, n)) \cup Range(SubSeq(a, n + 1, Len(a)))
  <2> DEFINE x == SubSeq(a, 1, n)
             y == SubSeq(a, n + 1, Len(a))
  <2>1. /\ x \in Seq(Pieces) /\ Len(x) = n /\ \A i \in 1 .. n : x[i] = a[i]
        /\ y \in Seq(Pieces) /\ Len(y) = Len(a) - n /\ \A i \in 1 .. Len(a) - n : y[i] = a[n + i] BY SubSeqProperties
  <2> HIDE DEF x, y
  <2>2. \A j \in 1 .. Len(a) : (j <= n /\ j \in 1 .. n) \/ (j - n \in 1 .. Len(a) - n /\ n + (j - n) = j) OBVIOUS
  <2>3. ASSUME NEW j \in 1 .. Len(a) PROVE a[j] \in Range(x) \cup Range(y)
    <3>1. CASE j \in 1 .. n BY <3>1, <2>1, PiecesOf
    <3>2. CASE j - n \in 1 .. Len(a) - n /\ n + (j - n) = j
      <4>1. y[j - n] = a[j] /\ j - n \in 1 .. Len(y) BY <3>2, <2>1
      <4>2. y[j - n] \in Range(y) BY <4>1, <2>1, PiecesOf
      <4> QED BY <4>1, <4>2
    <3> QED BY <2>2, <3>1, <3>2
  <2>4. Range(x) \subseteq Range(a)
    <3>0. \A i \in 1 .. n : i \in 1 .. Len(a) OBVIOUS
    <3>1. \A i \in 1 .. Len(x) : x[i] \in Range(a) BY <2>1, <3>0, PiecesOf, Zenon
    <3> QED BY <3>1, <2>1, PiecesOf
  <2>5. Range(y) \subseteq Range(a)
    <3>1. \A i \in 1 .. Len(a) - n : n + i \in 1 .. Len(a) OBVIOUS
    <3>2. \A i \in 1 .. Len(y) : y[i] \in Range(a) BY <3>1, <2>1, PiecesOf
    <3> QED BY <3>2, <2>1, PiecesOf
  <2>6. Range(a) = Range(x) \cup Range(y) BY <2>3, <2>4, <2>5, PiecesOf
  <2> QED BY <2>6 DEF x, y
<1> QED BY <1>1, <1>2

\* What a completion sends moves to the wire.
LEMMA WireGrows ==
  ASSUME NEW s \in Seq(Pieces), wire \in Seq(Pieces), NEW n \in 1 .. Len(s),
         wire' = wire \o SubSeq(s, 1, n)
  PROVE  Range(wire') \cup Range(SubSeq(s, n + 1, Len(s))) = Range(wire) \cup Range(s)
<1>1. SubSeq(s, 1, n) \in Seq(Pieces) BY SubSeqProperties
<1>2. Range(wire') = Range(wire) \cup Range(SubSeq(s, 1, n)) BY <1>1, SamePieces
<1>3. Range(s) = Range(SubSeq(s, 1, n)) \cup Range(SubSeq(s, n + 1, Len(s))) BY SamePieces
<1> QED BY <1>2, <1>3, Zenon

\* Nothing that was sent is taken back.
LEMMA WireKept ==
  ASSUME BuffersOK, NEW n \in Nat, Sent(n)
  PROVE  \A j \in 1 .. Len(wire) : j \in 1 .. Len(wire') /\ wire'[j] = wire[j]
<1>1. ASSUME NEW s \in Seq(Pieces), n \in 1 .. Len(s), wire' = wire \o SubSeq(s, 1, n)
      PROVE  \A j \in 1 .. Len(wire) : j \in 1 .. Len(wire') /\ wire'[j] = wire[j]
  <2>1. SubSeq(s, 1, n) \in Seq(Pieces) /\ wire \in Seq(Pieces) BY <1>1, SubSeqProperties DEF BuffersOK
  <2> QED BY <1>1, <2>1, SentGrows
<1>2. inflight \in Seq(Pieces) /\ activeBuffer \in Seq(Pieces) /\ fileLeft \in Seq(Pieces) BY DEF BuffersOK
<1>3. CASE WriteComplete(n) /\ tls
  <2>1. n \in 1 .. Len(inflight) /\ wire' = wire \o SubSeq(inflight, 1, n) BY <1>3 DEF WriteComplete
  <2> QED BY <1>1, <1>2, <2>1
<1>4. CASE WriteComplete(n) /\ ~tls
  <2>1. n \in 1 .. Len(activeBuffer) /\ wire' = wire \o SubSeq(activeBuffer, 1, n) BY <1>4 DEF WriteComplete
  <2> QED BY <1>1, <1>2, <2>1
<1>5. CASE SendfileComplete(n)
  <2>1. n \in 1 .. Len(fileLeft) /\ wire' = wire \o SubSeq(fileLeft, 1, n) BY <1>5 DEF SendfileComplete
  <2> QED BY <1>1, <1>2, <2>1
<1> QED BY <1>3, <1>4, <1>5 DEF Sent

\* Every part of a queued file stays sent, left to send, or torn.
LEMMA FilesStep ==
  ASSUME TypeOK, BuffersOK, TlsApart, OneTurn, JobsFresh, FilesSent, [Next]_vars
  PROVE  FilesSent'
<1> USE DEF Goto, buffers, fileVars, history, Threads
<1>1. ASSUME NEW t \in Threads, SetFile(t)
      PROVE  FilesSent'
  <2>1. fileLeft = << >> /\ fileLeft' = job[t].file BY <1>1 DEF SetFile, OneTurn, Holder
  <2>2. Range(fileLeft) = {} BY <2>1 DEF Range
  <2>3. UNCHANGED <<wire, inflight, torn, storing, queued, job>> BY <1>1 DEF SetFile
  <2>4. ~storing BY <1>1 DEF SetFile, TlsApart
  <2>5. Covered \subseteq Covered' BY <2>2, <2>3 DEF Covered
  <2>6. Range(job[t].file) \subseteq Covered' BY <2>1, <2>3, <2>4 DEF Covered
  <2>7. pc'[t] = "queue" /\ \A u \in Threads : u # t => pc'[u] = pc[u] BY <1>1 DEF SetFile, TypeOK
  <2> QED BY <2>3, <2>5, <2>6, <2>7 DEF FilesSent
<1>2. ASSUME NEW t \in Threads, SendData(t)
      PROVE  FilesSent'
  <2> DEFINE item == job[t].items
             file == job[t].file
  <2>1. item \in Seq(Pieces) /\ file \in Seq(Pieces) /\ queued \in Seq(Pieces) BY DEF Jobs, BuffersOK
  <2>2. /\ queued' = queued \o item \o file /\ pc[t] = "queue" /\ job' = job
        /\ UNCHANGED <<wire, inflight, fileVars>> BY <1>2 DEF SendData
  <2>3. \A u \in Threads : pc'[u] = "queue" => pc[u] = "queue" BY <1>2 DEF SendData, TypeOK
  <2>4. \A i \in 1 .. Len(item) : IsText(item[i])
    <3>1. CASE item = << >> BY <3>1
    <3>2. ASSUME NEW n \in 1 .. made.texts,
                 item = <<Text(n)>> PROVE \A i \in 1 .. Len(item) : IsText(item[i])
      <4>1. n \in Nat BY DEF BuffersOK
      <4> QED BY <4>1, <3>2, PieceShapes
    <3> QED BY <3>1, <3>2 DEF JobsFresh
  <2>5. Covered' = Covered BY <2>2 DEF Covered
  <2>6. Range(file) \subseteq Covered BY <2>2 DEF FilesSent
  <2>7. \A x \in Range(item) : IsText(x) BY <2>4, <2>1, PiecesOf
  <2>8. \A x \in Range(queued) : ~IsText(x) => x \in Covered BY <2>1, PiecesOf DEF FilesSent
  <2> HIDE DEF item, file
  <2>9. queued \o item \in Seq(Pieces) BY <2>1, ConcatProperties
  <2>10. Range(queued \o item \o file) = Range(queued \o item) \cup Range(file) BY <2>1, <2>9, SamePieces
  <2>11. Range(queued \o item) = Range(queued) \cup Range(item) BY <2>1, SamePieces
  <2>12. \A x \in Range(queued') : ~IsText(x) => x \in Covered BY <2>2, <2>6, <2>7, <2>8, <2>10, <2>11
  <2>13. queued' \in Seq(Pieces) BY <2>1, <2>2, <2>9, ConcatProperties
  <2>14. \A i \in 1 .. Len(queued') : queued'[i] \in Range(queued') BY <2>13 DEF Range
  <2>15. \A i \in 1 .. Len(queued') : ~IsText(queued'[i]) => queued'[i] \in Covered' BY <2>5, <2>12, <2>14
  <2>16. \A u \in Threads : pc'[u] = "queue" => Range(job'[u].file) \subseteq Covered'
    BY <2>2, <2>3, <2>5 DEF FilesSent
  <2> QED BY <2>15, <2>16 DEF FilesSent
<1>3. CASE \/ \E t \in Threads : Win(t) \/ Lose(t) \/ Gather(t) \/ Take(t) \/ CloseFile(t) \/ SubmitTls(t)
                               \/ ClearWriting(t) \/ LastLook(t) \/ Cancel(t) \/ Message(t)
                               \/ MarkForClose(t) \/ LookAtFile(t)
           \/ LoopRespondsError \/ RequestRead \/ TlsReadMakesRecord \/ WriteWouldBlock \/ WriteFailed
           \/ PeerGone
           \/ \E t \in Threads, nextPhase \in {"granted", "reading", "handling"} : Continue(t, nextPhase)
  <2>1. /\ queued' = queued /\ Covered \subseteq Covered'
        /\ \A u \in Threads : pc'[u] = "queue" =>
             job'[u].file = << >> \/ (pc[u] = "queue" /\ job'[u] = job[u])
    <3> USE DEF TypeOK, BuffersOK, NoJob, Covered
    <3>1. CASE \E t \in Threads : Win(t) BY <3>1 DEF Win
    <3>2. CASE \E t \in Threads : Lose(t) BY <3>2 DEF Lose, Return
    <3>3. CASE \E t \in Threads : Gather(t) BY <3>3, ReturnQueues DEF Gather, Submit, Return, Pcs, WriterPcs
    <3>4. CASE \E t \in Threads : Take(t) BY <3>4 DEF Take
    <3>5. CASE \E t \in Threads : CloseFile(t) BY <3>5 DEF CloseFile, AfterFile
    <3>6. CASE \E t \in Threads : SubmitTls(t) BY <3>6 DEF SubmitTls, Submit, Return
    <3>7. CASE \E t \in Threads : ClearWriting(t) BY <3>7 DEF ClearWriting
    <3>8. CASE \E t \in Threads : LastLook(t) BY <3>8, ReturnQueues DEF LastLook, PendingOutput, RemoveConnection, Return, Pcs
    <3>9. CASE \E t \in Threads : Cancel(t) BY <3>9 DEF Cancel, Return
    <3>10. CASE \E t \in Threads : Message(t) BY <3>10 DEF Message
    <3>11. CASE \E t \in Threads : MarkForClose(t) BY <3>11 DEF MarkForClose
    <3>12. CASE \E t \in Threads : LookAtFile(t) BY <3>12 DEF LookAtFile, AfterFile
    <3>13. CASE LoopRespondsError BY <3>13 DEF LoopRespondsError, Respond
    <3>14. CASE RequestRead BY <3>14 DEF RequestRead
    <3>15. CASE TlsReadMakesRecord BY <3>15 DEF TlsReadMakesRecord
    <3>16. CASE WriteWouldBlock BY <3>16 DEF WriteWouldBlock
    <3>17. CASE WriteFailed BY <3>17 DEF WriteFailed
    <3>18. CASE PeerGone BY <3>18 DEF PeerGone
    <3>19. CASE \E t \in Threads, nextPhase \in {"granted", "reading", "handling"} : Continue(t, nextPhase) BY <3>19
      DEF Continue
    <3> QED BY <1>3, <3>1, <3>2, <3>3, <3>4, <3>5, <3>6, <3>7, <3>8, <3>9, <3>10, <3>11, <3>12, <3>13,
      <3>14, <3>15, <3>16, <3>17, <3>18, <3>19
  <2> QED BY <2>1, FilesKept
<1>7. ASSUME NEW t \in Threads, NEW readFails \in BOOLEAN, Encrypt(t, readFails)
      PROVE  FilesSent'
  <2>1. queued' = queued /\ wire' = wire /\ storing' = storing /\ torn \subseteq torn' BY <1>7 DEF Encrypt
  <2>2. \A u \in Threads : pc'[u] = "queue" =>
          job'[u].file = << >> \/ (pc[u] = "queue" /\ job'[u] = job[u])
    BY <1>7, ReturnQueues DEF Encrypt, Pcs, WriterPcs
  <2>3. /\ inflight # << >> => inflight' = inflight /\ fileLeft' = fileLeft
        /\ fileLeft' = fileLeft \/ (fileLeft # << >> /\ fileLeft' = Tail(fileLeft) /\ inflight' = <<Head(fileLeft)>>)
    BY <1>7 DEF Encrypt
  <2>4. Range(inflight) \subseteq Range(inflight') BY <2>3 DEF Range
  <2>5. Range(fileLeft) \subseteq Range(inflight') \cup Range(fileLeft')
    <3>1. CASE fileLeft' = fileLeft BY <3>1
    <3>2. CASE fileLeft # << >> /\ fileLeft' = Tail(fileLeft) /\ inflight' = <<Head(fileLeft)>>
      <4>1. fileLeft \in Seq(Pieces) BY DEF BuffersOK
      <4>2. \A i \in 1 .. Len(fileLeft) : i = 1 \/ (i - 1 \in 1 .. Len(Tail(fileLeft)) /\ Tail(fileLeft)[i - 1] = fileLeft[i])
        BY <4>1, <3>2
      <4>3. fileLeft[1] \in Range(inflight') BY <3>2, <4>1 DEF Range
      <4>4. Tail(fileLeft) \in Seq(Pieces) BY <4>1, <3>2, HeadTailProperties
      <4>5. \A i \in 1 .. Len(fileLeft) : fileLeft[i] \in Range(inflight') \cup Range(fileLeft')
        BY <3>2, <4>2, <4>3, <4>4, PiecesOf
      <4> QED BY <4>1, <4>5, PiecesOf
    <3> QED BY <2>3, <3>1, <3>2
  <2>6. Covered \subseteq Covered' BY <2>1, <2>4, <2>5 DEF Covered
  <2> QED BY <2>1, <2>2, <2>6, FilesKept
<1>16. ASSUME NEW t \in Workers, NEW kind \in Kinds, NEW last \in BOOLEAN,
              HandlerResponds(t, kind, last)
      PROVE  FilesSent'
  <2>1. /\ UNCHANGED <<queued, wire, inflight, fileVars>>
        /\ \A u \in Threads : u # t => pc'[u] = pc[u] /\ job'[u] = job[u]
        /\ pc'[t] = "queue" => job'[t].file = << >> BY <1>16 DEF HandlerResponds, Respond, TypeOK, BuffersOK
  <2>2. Covered \subseteq Covered' BY <2>1 DEF Covered
  <2> QED BY <2>1, <2>2, FilesKept
<1>23. ASSUME NEW n \in Nat, WriteComplete(n)
      PROVE  FilesSent'
  <2>1. UNCHANGED <<queued, fileVars, job>> BY <1>23 DEF WriteComplete
  <2>2. \A u \in Threads : pc'[u] = "queue" => pc[u] = "queue" BY <1>23 DEF WriteComplete, TypeOK
  <2>3. PICK s \in {activeBuffer, inflight} :
          /\ n \in 1 .. Len(s) /\ wire' = wire \o SubSeq(s, 1, n)
          /\ IF tls THEN s = inflight /\ inflight' = SubSeq(s, n + 1, Len(s)) ELSE inflight' = inflight
    BY <1>23 DEF WriteComplete, Unsent
  <2>4. Range(wire') \cup Range(SubSeq(s, n + 1, Len(s))) = Range(wire) \cup Range(s) BY <2>3, WireGrows DEF BuffersOK
  <2>5. Range(wire) \cup Range(inflight) \subseteq Range(wire') \cup Range(inflight')
    <3>1. CASE tls BY <3>1, <2>3, <2>4
    <3>2. CASE ~tls
      <4>1. inflight' = inflight BY <3>2, <2>3
      <4>2. SubSeq(s, 1, n) \in Seq(Pieces) /\ wire \in Seq(Pieces) BY <2>3, SubSeqProperties DEF BuffersOK
      <4>3. Range(wire') = Range(wire) \cup Range(SubSeq(s, 1, n)) BY <2>3, <4>2, SamePieces
      <4> QED BY <4>1, <4>3
    <3> QED BY <3>1, <3>2
  <2>6. Covered \subseteq Covered' BY <2>1, <2>5 DEF Covered
  <2> QED BY <2>1, <2>2, <2>6, FilesKept
<1>24. ASSUME NEW n \in Nat, SendfileComplete(n)
      PROVE  FilesSent'
  <2>1. UNCHANGED <<queued, inflight, storing, torn, job>> BY <1>24 DEF SendfileComplete
  <2>2. \A u \in Threads : pc'[u] = "queue" => pc[u] = "queue" BY <1>24 DEF SendfileComplete, TypeOK
  <2>3. /\ n \in 1 .. Len(fileLeft) /\ wire' = wire \o SubSeq(fileLeft, 1, n)
        /\ fileLeft' = SubSeq(fileLeft, n + 1, Len(fileLeft)) BY <1>24 DEF SendfileComplete, Unsent
  <2>4. Range(wire') \cup Range(fileLeft') = Range(wire) \cup Range(fileLeft) BY <2>3, WireGrows DEF BuffersOK
  <2>5. ~storing BY <1>24 DEF SendfileComplete, TlsApart
  <2>6. Covered \subseteq Covered' BY <2>1, <2>4, <2>5 DEF Covered
  <2> QED BY <2>1, <2>2, <2>6, FilesKept
<1>25. CASE UNCHANGED vars
  <2>1. UNCHANGED <<queued, wire, inflight, fileVars, pc, job>> BY <1>25 DEF vars
  <2>2. Covered \subseteq Covered' BY <2>1 DEF Covered
  <2> QED BY <2>1, <2>2, FilesKept
<1>26. ASSUME NEW t \in Threads, StoreFile(t)
      PROVE  FilesSent'
  <2>1. fileLeft = << >> /\ UNCHANGED <<wire, inflight, torn, queued>> BY <1>26 DEF StoreFile, OneTurn, Holder
  <2>2. Range(fileLeft) = {} BY <2>1 DEF Range
  <2>3. Covered \subseteq Covered' BY <2>1, <2>2 DEF Covered
  <2>4. \A u \in Threads : pc'[u] = "queue" => pc[u] = "queue" /\ job'[u] = job[u] BY <1>26 DEF StoreFile, TypeOK
  <2> QED BY <2>1, <2>3, <2>4, FilesKept
<1>27. ASSUME NEW t \in Threads, StoreExtent(t)
      PROVE  FilesSent'
  <2>1. /\ UNCHANGED <<wire, inflight, queued, job>> /\ ~storing' /\ torn \subseteq torn'
        /\ \/ Range(job[t].file) \subseteq torn'
           \/ fileLeft' = job[t].file BY <1>27 DEF StoreExtent
  <2>2. storing BY <1>27 DEF StoreExtent, OneTurn, Holder
  <2>3. Covered \subseteq Covered' /\ Range(job[t].file) \subseteq Covered' BY <2>1, <2>2 DEF Covered
  <2>4. \A u \in Threads : u # t => pc'[u] = pc[u] BY <1>27 DEF StoreExtent, TypeOK
  <2> QED BY <2>1, <2>3, <2>4 DEF FilesSent
<1> QED BY <1>1, <1>2, <1>3, <1>7, <1>16, <1>23, <1>24, <1>25, <1>26, <1>27, SentCounts DEF Next, Step, Environment, Sent

\* A requested close finds everything that was queued before it sent.
LEMMA CloseStep ==
  ASSUME TypeOK, BuffersOK, TlsApart, FileKept, FilesSent, CloseAsked, SameTexts(queued, Line), CloseAfterQueued, [Next]_vars
  PROVE  CloseAfterQueued'
<1> USE DEF Goto, buffers, fileVars, history, Threads
<1>1. CASE \/ \E t \in Threads : SetFile(t) \/ Win(t) \/ Lose(t) \/ Gather(t) \/ Take(t) \/ CloseFile(t)
                               \/ SubmitTls(t) \/ ClearWriting(t) \/ Cancel(t) \/ Message(t)
                               \/ MarkForClose(t) \/ StoreFile(t) \/ StoreExtent(t) \/ LookAtFile(t)
           \/ LoopRespondsError \/ RequestRead \/ TlsReadMakesRecord \/ WriteWouldBlock \/ WriteFailed
           \/ PeerGone
           \/ \E t \in Threads, nextPhase \in {"granted", "reading", "handling"} : Continue(t, nextPhase)
           \/ \E t \in Workers, kind \in Kinds, last \in BOOLEAN : HandlerResponds(t, kind, last)
  <2>1. UNCHANGED <<tls, queued, wire, closeMark>> /\ (removed' = "close" => removed = "close")
    <3>1. CASE \E t \in Threads : SetFile(t) BY <3>1 DEF SetFile
    <3>2. CASE \E t \in Threads : Win(t) BY <3>2 DEF Win
    <3>3. CASE \E t \in Threads : Lose(t) BY <3>3 DEF Lose, Return
    <3>4. CASE \E t \in Threads : Gather(t) BY <3>4 DEF Gather, Submit, Return
    <3>5. CASE \E t \in Threads : Take(t) BY <3>5 DEF Take
    <3>6. CASE \E t \in Threads : CloseFile(t) BY <3>6 DEF CloseFile
    <3>7. CASE \E t \in Threads : SubmitTls(t) BY <3>7 DEF SubmitTls, Submit, Return
    <3>8. CASE \E t \in Threads : ClearWriting(t) BY <3>8 DEF ClearWriting
    <3>9. CASE \E t \in Threads : Cancel(t) BY <3>9 DEF Cancel, Return
    <3>10. CASE \E t \in Threads : Message(t) BY <3>10 DEF Message
    <3>11. CASE \E t \in Threads : MarkForClose(t) BY <3>11 DEF MarkForClose
    <3>12. CASE \E t \in Threads : StoreFile(t) BY <3>12 DEF StoreFile
    <3>13. CASE \E t \in Threads : StoreExtent(t) BY <3>13 DEF StoreExtent
    <3>14. CASE \E t \in Threads : LookAtFile(t) BY <3>14 DEF LookAtFile, AfterFile
    <3>15. CASE LoopRespondsError BY <3>15 DEF LoopRespondsError, Respond
    <3>16. CASE RequestRead BY <3>16 DEF RequestRead
    <3>17. CASE TlsReadMakesRecord BY <3>17 DEF TlsReadMakesRecord
    <3>18. CASE WriteWouldBlock BY <3>18 DEF WriteWouldBlock
    <3>19. CASE WriteFailed BY <3>19 DEF WriteFailed
    <3>20. CASE PeerGone BY <3>20 DEF PeerGone
    <3>21. CASE \E t \in Threads, nextPhase \in {"granted", "reading", "handling"} : Continue(t, nextPhase) BY <3>21
      DEF Continue
    <3>22. CASE \E t \in Workers, kind \in Kinds, last \in BOOLEAN : HandlerResponds(t, kind, last) BY <3>22
      DEF HandlerResponds, Respond
    <3> QED BY <1>1, <3>1, <3>2, <3>3, <3>4, <3>5, <3>6, <3>7, <3>8, <3>9, <3>10, <3>11, <3>12, <3>13,
      <3>14, <3>15, <3>16, <3>17, <3>18, <3>19, <3>20, <3>21, <3>22
  <2> QED BY <2>1 DEF CloseAfterQueued, AllSentAtClose
<1>2. ASSUME NEW t \in Threads, SendData(t)
      PROVE  CloseAfterQueued'
  <2>1. queued \in Seq(Pieces) /\ job[t].items \in Seq(Pieces) /\ job[t].file \in Seq(Pieces)
        /\ closeMark \in Nat /\ closeMark <= Len(queued) BY DEF BuffersOK, Jobs, TypeOK
  <2>2. SUFFICES ASSUME ~tls, removed = "close" PROVE AllSentAtClose'
    BY <1>2 DEF SendData, CloseAfterQueued, AllSentAtClose
  <2>3. UNCHANGED <<wire, closeMark>> /\ queued' = (queued \o job[t].items) \o job[t].file
    BY <1>2, <2>2 DEF SendData, CloseAsked
  <2>4. queued \o job[t].items \in Seq(Pieces) BY <2>1, ConcatProperties
  <2>5. \A i \in 1 .. Len(queued) : queued'[i] = queued[i]
    <3>1. \A i \in 1 .. Len(queued) : /\ i \in 1 .. Len(queued \o job[t].items)
                                      /\ (queued \o job[t].items)[i] = queued[i] BY <2>1, SentGrows
    <3> DEFINE front == queued \o job[t].items
    <3> HIDE DEF front
    <3>2. \A i \in 1 .. Len(front) : (front \o job[t].file)[i] = front[i] BY <2>1, <2>4, SentGrows DEF front
    <3> QED BY <2>3, <3>1, <3>2 DEF front
  <2>6. \A i \in 1 .. closeMark : i \in 1 .. Len(queued) BY <2>1
  <2> QED BY <2>2, <2>3, <2>5, <2>6 DEF CloseAfterQueued, AllSentAtClose
<1>7. ASSUME NEW t \in Threads, NEW readFails \in BOOLEAN, Encrypt(t, readFails)
      PROVE  CloseAfterQueued'
  <2>1. tls /\ tls' = tls BY <1>7 DEF Encrypt, TlsApart
  <2> QED BY <2>1 DEF CloseAfterQueued
<1>11. ASSUME NEW t \in Threads, LastLook(t)
      PROVE  CloseAfterQueued'
  <2>1. UNCHANGED <<tls, queued, wire, closeMark>> BY <1>11 DEF LastLook
  <2>2. CASE removed' = "close" => removed = "close" BY <2>1, <2>2 DEF CloseAfterQueued, AllSentAtClose
  <2>3. CASE removed' = "close" /\ removed # "close" /\ ~tls
    <3>1. ~PendingOutput BY <1>11, <2>3 DEF LastLook
    <3>2. /\ writeBuffer = << >> /\ activeBuffer = << >> /\ fileLeft = << >>
          /\ inflight = << >> /\ tlsBuffer = << >> /\ chunk = << >>
      BY <2>3, <3>1 DEF PendingOutput, TlsApart, FileKept
    <3>3. << >> \o << >> = << >> /\ wire \o << >> = wire BY ConcatEmptySeq, EmptySeq DEF BuffersOK
    <3>4. Line = wire BY <3>2, <3>3 DEF Line
    <3>5. \A i \in 1 .. closeMark : i \in 1 .. Len(queued) BY DEF TypeOK, BuffersOK
    <3>6. ASSUME NEW i \in 1 .. Len(queued) PROVE \E j \in 1 .. Len(wire) : wire[j] = queued[i]
      <4>1. CASE IsText(queued[i]) BY <3>4, <4>1 DEF SameTexts
      <4>2. CASE ~IsText(queued[i])
        <5>1. queued[i] \in Covered /\ torn = {} BY <2>3, <4>2 DEF FilesSent, TlsApart
        <5>2. Range(inflight) = {} /\ Range(fileLeft) = {} BY <3>2 DEF Range
        <5>3. wire \in Seq(Pieces) BY DEF BuffersOK
        <5> QED BY <5>1, <5>2, <5>3 DEF Covered, Range
      <4> QED BY <4>1, <4>2
    <3> QED BY <2>1, <3>5, <3>6 DEF CloseAfterQueued, AllSentAtClose
  <2> QED BY <2>1, <2>2, <2>3 DEF CloseAfterQueued
<1>23. ASSUME NEW n \in Nat, WriteComplete(n)
      PROVE  CloseAfterQueued'
  <2>1. UNCHANGED <<tls, queued, closeMark, removed>> BY <1>23 DEF WriteComplete
  <2> QED BY <1>23, <2>1, WireKept DEF Sent, CloseAfterQueued, AllSentAtClose
<1>24. ASSUME NEW n \in Nat, SendfileComplete(n)
      PROVE  CloseAfterQueued'
  <2>1. UNCHANGED <<tls, queued, closeMark, removed>> BY <1>24 DEF SendfileComplete
  <2> QED BY <1>24, <2>1, WireKept DEF Sent, CloseAfterQueued, AllSentAtClose
<1>25. CASE UNCHANGED vars BY <1>25 DEF vars, CloseAfterQueued, AllSentAtClose
<1> QED BY <1>1, <1>2, <1>7, <1>11, <1>23, <1>24, <1>25, SentCounts DEF Next, Step, Environment, Sent

----
\* The invariant

\* The invariant holds when the connection is made ...
LEMMA OutInit == Init => OutInv
<1> SUFFICES ASSUME Init PROVE OutInv OBVIOUS
<1>1. TypeOK
  <2>1. closeMark <= Len(queued) BY EmptySeq DEF Init
  <2>2. pc \in [Threads -> Pcs] /\ \A t \in Threads : job[t].then \in {"idle", "continue"} BY DEF Init, Pcs, NoJob
  <2> QED BY <2>1, <2>2 DEF Init, TypeOK
<1>2. BuffersOK BY PieceTypes DEF Init, BuffersOK
<1>3. OneWriter /\ CancelsRemoved /\ RemovedQuiet BY DEF Init, OneWriter, CancelsRemoved, RemovedQuiet, WriterPcs
<1>4. TlsApart /\ FileKept /\ CloseAsked BY DEF Init, TlsApart, FileKept, CloseAsked
<1>5. OneTurn BY DEF Init, OneTurn, Holder, NoJob
<1>6. SomebodyLooks BY DEF Init, SomebodyLooks, Stirred, Attended, FileDone
<1>7. JobsFresh BY DEF Init, JobsFresh, Making, NoJob
<1>8. FilesSent BY DEF Init, FilesSent, NoJob
<1>9. CloseAfterQueued BY DEF Init, CloseAfterQueued, AllSentAtClose
<1>10. Line = << >> /\ queued = << >>
  <2>1. << >> \o << >> = << >> BY ConcatEmptySeq, EmptySeq
  <2> QED BY <2>1 DEF Init, Line
<1>11. SameTexts(queued, Line) BY <1>10 DEF SameTexts
<1> QED BY <1>1, <1>2, <1>3, <1>4, <1>5, <1>6, <1>7, <1>8, <1>9, <1>11 DEF OutInv

\* ... and every step keeps it.
LEMMA OutStep == OutInv /\ [Next]_vars => OutInv'
<1> SUFFICES ASSUME OutInv, [Next]_vars PROVE OutInv' OBVIOUS
<1>1. /\ TypeOK /\ BuffersOK /\ OneWriter /\ CancelsRemoved /\ RemovedQuiet /\ TlsApart
      /\ OneTurn /\ FileKept /\ SomebodyLooks /\ JobsFresh /\ SameTexts(queued, Line)
      /\ FilesSent /\ CloseAsked /\ CloseAfterQueued BY DEF OutInv
<1>2. TypeOK' /\ BuffersOK' BY <1>1, TypesStep, BuffersStep
<1>3. OneWriter' /\ CancelsRemoved' /\ RemovedQuiet' BY <1>1, WriterStep
<1>4. TlsApart' BY <1>1, ApartStep
<1>5. OneTurn' /\ (fileLeft' # << >> => fileOpen') BY <1>1, TurnStep
<1>6. FileKept' BY <1>1, <1>5, FileStep DEF FileKept
<1>7. SomebodyLooks' BY <1>1, LooksStep
<1>8. JobsFresh' BY <1>1, FreshStep
<1>9. SameTexts(queued', Line') BY <1>1, LineStep
<1>10. FilesSent' BY <1>1, FilesStep
<1>11. CloseAsked' BY <1>1, AskedStep
<1>12. CloseAfterQueued' BY <1>1, CloseStep
<1> QED BY <1>2, <1>3, <1>4, <1>5, <1>6, <1>7, <1>8, <1>9, <1>10, <1>11, <1>12 DEF OutInv

\* The line is what was sent and then the rest, so what was sent keeps the order.
LEMMA LineInOrder == BuffersOK /\ SameTexts(queued, Line) => InOrder
<1> SUFFICES ASSUME BuffersOK, SameTexts(queued, Line) PROVE InOrder OBVIOUS
<1>1. PICK rest \in Seq(Pieces) : Line = wire \o rest
  <2>1. /\ writeBuffer \in Seq(Pieces) /\ activeBuffer \in Seq(Pieces) /\ tlsBuffer \in Seq(Pieces)
        /\ inflight \in Seq(Pieces) /\ chunk \in Seq(Pieces) BY DEF BuffersOK
  <2>2. activeBuffer \o writeBuffer \in Seq(Pieces) BY <2>1, ConcatProperties
  <2>3. chunk \o (activeBuffer \o writeBuffer) \in Seq(Pieces) BY <2>1, <2>2, ConcatProperties
  <2>4. tlsBuffer \o (chunk \o (activeBuffer \o writeBuffer)) \in Seq(Pieces) BY <2>1, <2>3, ConcatProperties
  <2>5. inflight \o (tlsBuffer \o (chunk \o (activeBuffer \o writeBuffer))) \in Seq(Pieces)
    BY <2>1, <2>4, ConcatProperties
  <2> QED BY <2>5, Zenon DEF Line
<1>2. wire \in Seq(Pieces) /\ Len(wire) \in Nat BY LenProperties DEF BuffersOK
<1>3. \A j \in 1 .. Len(wire) : j \in 1 .. Len(Line) /\ Line[j] = wire[j] BY <1>1, <1>2, SentGrows
<1>4. \A i, j \in 1 .. Len(wire) : IsText(wire[i]) /\ wire[i] = wire[j] => i = j BY <1>3 DEF SameTexts
<1>5. ASSUME NEW j \in 1 .. Len(wire), IsText(wire[j])
      PROVE  \E k \in 1 .. Len(queued) :
               /\ queued[k] = wire[j]
               /\ \A i \in 1 .. k - 1 : IsText(queued[i]) => \E h \in 1 .. j - 1 : wire[h] = queued[i]
  <2>1. PICK k \in 1 .. Len(queued) : queued[k] = Line[j] BY <1>3, <1>5 DEF SameTexts
  <2>2. ASSUME NEW i \in 1 .. k - 1,
               IsText(queued[i]) PROVE \E h \in 1 .. j - 1 : wire[h] = queued[i]
    <3>1. i \in 1 .. Len(queued) /\ i < k OBVIOUS
    <3>2. PICK h \in 1 .. Len(Line) : Line[h] = queued[i] BY <2>2, <3>1 DEF SameTexts
    <3>3. h < j BY <1>3, <1>5, <2>1, <2>2, <3>1, <3>2 DEF SameTexts
    <3>4. h \in 1 .. Len(wire) /\ h \in 1 .. j - 1 BY <3>3, <1>2
    <3> QED BY <1>3, <3>2, <3>4
  <2> QED BY <1>3, <2>1, <2>2
<1> QED BY <1>4, <1>5 DEF InOrder

\* One holder of is_writing_ is one writer.
LEMMA OneWriterCounted == OneWriter => WriterExclusive
<1> SUFFICES ASSUME OneWriter PROVE WriterExclusive OBVIOUS
<1> DEFINE writers == {t \in Threads : pc[t] \in WriterPcs}
<1>1. writers # {} \/ io # "none" => isWriting BY DEF OneWriter
<1>2. CASE writers = {}
  <2>1. Cardinality(writers) = 0 BY <1>2, FS_EmptySet
  <2> QED BY <1>1, <2>1 DEF WriterExclusive
<1>3. ASSUME NEW t \in writers PROVE WriterExclusive
  <2>1. writers = {t} /\ io = "none" BY <1>3 DEF OneWriter
  <2>2. Cardinality(writers) = 1 BY <2>1, FS_Singleton
  <2> QED BY <1>1, <2>1, <2>2 DEF WriterExclusive
<1> QED BY <1>2, <1>3

\* Nobody left to look means nothing left to do.
LEMMA QuietSent == TypeOK /\ BuffersOK /\ SomebodyLooks => NothingStranded
BY DEF SomebodyLooks, Stirred, Attended, LookingPcs, AttendingPcs, WriterPcs, NothingStranded

\* The write side of Connection.cpp keeps OutInv, for any number of worker threads
\* and responses and for files of any length, in plaintext and over TLS.
THEOREM OutputInvariant == Spec => []OutInv
<1>1. Init => OutInv BY OutInit
<1>2. OutInv /\ [Next]_vars => OutInv' BY OutStep
<1> QED BY <1>1, <1>2, PTL DEF Spec

\* trigger_write() and send(): one writer at a time, nothing left unsent when all
\* threads have returned, a requested close (in plaintext) only behind everything
\* queued before it, every response and message on the wire once and in the order
\* in which it was queued, and no I/O once the connection was removed.
THEOREM OutputKept == Spec => []OutputSound
<1>1. OutInv => OutputSound BY LineInOrder, OneWriterCounted, QuietSent DEF OutInv, OutputSound
<1> QED BY <1>1, OutputInvariant, PTL

\* What the proactor was handed is not touched before it completes.
LEMMA InFlightStep ==
  ASSUME BuffersOK, OneWriter, [Next]_vars
  PROVE  io = "write" /\ io' = "write" =>
           IF tls THEN inflight' = inflight ELSE activeBuffer' = activeBuffer
<1> USE DEF Goto, buffers, fileVars, history, Threads
<1>1. ASSUME NEW t \in Threads, SetFile(t) \/ SendData(t) \/ Win(t) \/ Lose(t) \/ Gather(t) \/ Take(t)
              \/ CloseFile(t) \/ SubmitTls(t) \/ ClearWriting(t) \/ LastLook(t) \/ Cancel(t)
              \/ Message(t) \/ MarkForClose(t) \/ StoreFile(t) \/ StoreExtent(t) \/ LookAtFile(t)
      PROVE  io = "write" /\ io' = "write" =>
           IF tls THEN inflight' = inflight ELSE activeBuffer' = activeBuffer
  <2> USE DEF OneWriter, WriterPcs
  <2>1. CASE SetFile(t) BY <2>1 DEF SetFile
  <2>2. CASE SendData(t) BY <2>2 DEF SendData
  <2>3. CASE Win(t) BY <2>3 DEF Win
  <2>4. CASE Lose(t) BY <2>4 DEF Lose, Return
  <2>5. CASE Gather(t) BY <2>5 DEF Gather, Submit, Return
  <2>6. CASE Take(t) BY <2>6 DEF Take
  <2>7. CASE CloseFile(t) BY <2>7 DEF CloseFile, AfterFile
  <2>8. CASE SubmitTls(t) BY <2>8 DEF SubmitTls, Submit, Return
  <2>9. CASE ClearWriting(t) BY <2>9 DEF ClearWriting
  <2>10. CASE LastLook(t) BY <2>10 DEF LastLook, PendingOutput, RemoveConnection, Return
  <2>11. CASE Cancel(t) BY <2>11 DEF Cancel, Return
  <2>12. CASE Message(t) BY <2>12 DEF Message
  <2>13. CASE MarkForClose(t) BY <2>13 DEF MarkForClose
  <2>14. CASE StoreFile(t) BY <2>14 DEF StoreFile
  <2>15. CASE StoreExtent(t) BY <2>15 DEF StoreExtent
  <2>16. CASE LookAtFile(t) BY <2>16 DEF LookAtFile, AfterFile
  <2> QED BY <1>1, <2>1, <2>2, <2>3, <2>4, <2>5, <2>6, <2>7, <2>8, <2>9, <2>10, <2>11, <2>12, <2>13, <2>14,
    <2>15, <2>16
<1>7. ASSUME NEW t \in Threads, NEW readFails \in BOOLEAN, Encrypt(t, readFails)
      PROVE  io = "write" /\ io' = "write" =>
           IF tls THEN inflight' = inflight ELSE activeBuffer' = activeBuffer
  BY <1>7 DEF Encrypt, RemoveConnection, Return, OneWriter, WriterPcs
<1>13. ASSUME NEW t \in Threads, NEW nextPhase \in {"granted", "reading", "handling"},
              Continue(t, nextPhase)
      PROVE  io = "write" /\ io' = "write" =>
           IF tls THEN inflight' = inflight ELSE activeBuffer' = activeBuffer
  BY <1>13 DEF Continue, OneWriter, WriterPcs
<1>16. ASSUME NEW t \in Workers, NEW kind \in Kinds, NEW last \in BOOLEAN,
              HandlerResponds(t, kind, last)
      PROVE  io = "write" /\ io' = "write" =>
           IF tls THEN inflight' = inflight ELSE activeBuffer' = activeBuffer
  BY <1>16 DEF HandlerResponds, Respond, OneWriter, WriterPcs
<1>17. CASE LoopRespondsError BY <1>17 DEF LoopRespondsError, Respond, OneWriter, WriterPcs
<1>18. CASE RequestRead BY <1>18 DEF RequestRead, OneWriter, WriterPcs
<1>19. CASE TlsReadMakesRecord BY <1>19 DEF TlsReadMakesRecord, OneWriter, WriterPcs
<1>20. CASE WriteWouldBlock BY <1>20 DEF WriteWouldBlock, OneWriter, WriterPcs
<1>21. CASE WriteFailed BY <1>21 DEF WriteFailed, OneWriter, WriterPcs
<1>22. CASE PeerGone BY <1>22 DEF PeerGone, OneWriter, WriterPcs
<1>23. ASSUME NEW n \in Nat, WriteComplete(n)
      PROVE  io = "write" /\ io' = "write" =>
           IF tls THEN inflight' = inflight ELSE activeBuffer' = activeBuffer
  BY <1>23 DEF WriteComplete, Unsent, OneWriter, WriterPcs
<1>24. ASSUME NEW n \in Nat, SendfileComplete(n)
      PROVE  io = "write" /\ io' = "write" =>
           IF tls THEN inflight' = inflight ELSE activeBuffer' = activeBuffer
  BY <1>24 DEF SendfileComplete, Unsent, OneWriter, WriterPcs
<1>25. CASE UNCHANGED vars BY <1>25 DEF vars
<1> QED BY <1>1, <1>7, <1>13, <1>16, <1>17, <1>18, <1>19, <1>20, <1>21, <1>22, <1>23,
           <1>24, <1>25, SentCounts DEF Next, Step, Environment, Sent

\* Who goes on to the next request leaves no part of a file behind.
LEMMA FileBeforeNextStep ==
  ASSUME OneTurn, FilesSent
  PROVE  \A t \in Threads : pc[t] = "continue" /\ pc'[t] = "idle" =>
           \A i \in 1 .. Len(queued) : ~IsText(queued[i]) =>
             queued[i] \in Range(wire) \cup Range(inflight) \cup torn
<1> SUFFICES ASSUME NEW t \in Threads, pc[t] = "continue", NEW i \in 1 .. Len(queued), ~IsText(queued[i])
             PROVE  queued[i] \in Range(wire) \cup Range(inflight) \cup torn OBVIOUS
<1>1. queued[i] \in Covered BY DEF FilesSent
<1>2. fileLeft = << >> BY DEF OneTurn, Holder
<1>3. Range(fileLeft) = {} BY <1>2 DEF Range
<1> QED BY <1>1, <1>3 DEF Covered

\* trigger_write() and continue_after_response(): the buffer that is being written
\* does not change under the kernel, and the next request is taken up only when the
\* files of the responses before it were sent, but for parts torn by the TLS writer.
THEOREM OutputSteady == Spec => OutputStable
<1>1. OutInv /\ [Next]_vars =>
        (io = "write" /\ io' = "write" =>
           IF tls THEN inflight' = inflight ELSE activeBuffer' = activeBuffer) BY InFlightStep DEF OutInv
<1>2. OutInv => \A t \in Threads : pc[t] = "continue" /\ pc'[t] = "idle" =>
           \A i \in 1 .. Len(queued) : ~IsText(queued[i]) =>
             queued[i] \in Range(wire) \cup Range(inflight) \cup torn BY FileBeforeNextStep DEF OutInv
<1>3. Spec => InFlightStable BY <1>1, OutputInvariant, PTL DEF Spec, InFlightStable
<1>4. Spec => FileBeforeNext BY <1>2, OutputInvariant, PTL DEF Spec, FileBeforeNext
<1> QED BY <1>3, <1>4 DEF OutputStable
====
