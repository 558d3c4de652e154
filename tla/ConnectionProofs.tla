---- MODULE ConnectionProofs ----
\* What holds of the components under and inside a connection, for every
\* value of their constants: of each an invariant, that it holds at the start,
\* that every step keeps it, and what it implies.
EXTENDS ConnectionTimers, Proactors, Endpoints, ResponseLife, Upgrades, Http2Session, Quic,
        FiniteSetTheorems, SequenceTheorems, WellFoundedInduction, TLAPS

----
\* io_uring.

IuRequest == [at : {"none", "pending", "batch", "kernel", "completed", "cancelled", "ran", "dropped",
                    "lost", "leaked"},
              fd : IuFds \cup {0}, gen : Nat, told : BOOLEAN]

IuTypeOK ==
  /\ iuReq \in [IuRequests -> IuRequest]
  /\ iuLoop \in {"new", "top", "drain", "wait", "handle", "bottom", "drain_again", "gone"}
  /\ iuWakeFd \in BOOLEAN
  /\ iuWakeArmed \in {"no", "armed", "completed", "failed"}
  /\ iuGen \in [IuFds -> Nat]

\* A wake-up is on its way, or never comes.
IuWaking == iuWakeArmed \in {"completed", "failed"} \/ (iuWakeArmed = "armed" /\ iuWakeFd)

\* From the swap of the queue to the end of the wait, whoever has queued a
\* request and written to the eventfd has seen to a wake-up; at any other
\* moment a swap of the queue is still to come. A batch is in the loop's hands
\* only inside drain_pending().
IuInv ==
  /\ IuTypeOK
  /\ iuLoop \notin {"new", "gone"} => iuWakeArmed # "no"
  /\ iuLoop \in {"drain", "wait"} => \A r \in IuRequests : iuReq[r].at = "pending" /\ iuReq[r].told => IuWaking
  /\ \A r \in IuRequests :
       /\ iuReq[r].at = "pending" => iuReq[r].fd \in IuFds /\ iuReq[r].gen = iuGen[iuReq[r].fd]
       /\ iuReq[r].at = "batch" => iuLoop \in {"drain", "drain_again"}
       /\ iuLoop = "gone" => iuReq[r].at \in {"none", "ran", "dropped", "lost", "leaked"}

LEMMA IuStarted == IuInit => IuInv
<1> SUFFICES ASSUME IuInit PROVE IuInv OBVIOUS
<1>1. NoIo \in IuRequest BY DEF NoIo, IuRequest
<1>2. IuTypeOK BY <1>1 DEF IuInit, IuTypeOK
<1>3. \A r \in IuRequests : iuReq[r].at = "none" BY DEF IuInit, NoIo
<1> QED BY <1>2, <1>3 DEF IuInit, IuInv

LEMMA IuStep == IuInv /\ [IuNext]_iuVars => IuInv'
<1> SUFFICES ASSUME IuInv, [IuNext]_iuVars PROVE IuInv' OBVIOUS
<1> USE DEF IuInv, IuTypeOK, IuRequest, IuWaking, Iu, IuMove, IuPrepared
<1>1. ASSUME NEW r \in IuRequests, NEW f \in IuFds, iuLoop # "gone", IuSubmitHere(r, f) PROVE IuInv'
  BY <1>1 DEF IuSubmitHere
<1>2. ASSUME NEW r \in IuRequests, NEW f \in IuFds, iuLoop # "gone", submit(r, f) PROVE IuInv' BY <1>2 DEF submit
<1>3. ASSUME NEW r \in IuRequests, IuWrite(r) PROVE IuInv'
  <2>1. [iuReq[r] EXCEPT !.told = TRUE] \in IuRequest BY DEF IuTypeOK
  <2>2. IuTypeOK' BY <1>3, <2>1, Zenon DEF IuWrite, IuTypeOK
  <2>3. \A q \in IuRequests : iuReq'[q].at = iuReq[q].at /\ iuReq'[q].fd = iuReq[q].fd /\ iuReq'[q].gen = iuReq[q].gen
    BY <1>3 DEF IuWrite
  <2> QED BY <1>3, <2>2, <2>3 DEF IuWrite
<1>4. ASSUME NEW r \in IuRequests, IuCompletes(r) PROVE IuInv' BY <1>4 DEF IuCompletes
<1>5. ASSUME NEW f \in IuFds, iuLoop # "gone", remove_pending(f) PROVE IuInv'
  <2>1. \A r \in IuRequests :
          /\ iuReq'[r] \in IuRequest /\ iuReq'[r].fd = iuReq[r].fd /\ iuReq'[r].gen = iuReq[r].gen
          /\ iuReq'[r].at = "pending" => iuReq[r].at = "pending" /\ iuReq[r].fd # f /\ iuReq'[r].told = iuReq[r].told
          /\ iuReq'[r].at = "batch" => iuReq[r].at = "batch" BY <1>5 DEF remove_pending
  <2>2. /\ iuGen' \in [IuFds -> Nat] /\ \A g \in IuFds : g # f => iuGen'[g] = iuGen[g]
        /\ UNCHANGED <<iuLoop, iuWakeFd, iuWakeArmed>> /\ iuReq' = [r \in IuRequests |-> iuReq'[r]]
    BY <1>5 DEF remove_pending
  <2>3. iuReq' \in [IuRequests -> IuRequest] BY <2>1, <2>2
  <2> QED BY <1>5, <2>1, <2>2, <2>3
<1>6. CASE IuWakes BY <1>6 DEF IuWakes
<1>7. CASE IuOwn BY <1>7 DEF IuOwn
<1>8. CASE drain_swap BY <1>8 DEF drain_swap
<1>9. CASE drain_pending BY <1>9 DEF drain_pending
<1>10. CASE IuWait BY <1>10 DEF IuWait
<1>11. CASE IuHandle BY <1>11 DEF IuHandle
<1>12. CASE IuHandled BY <1>12 DEF IuHandled
<1>13. CASE teardown BY <1>13 DEF teardown
<1>14. CASE UNCHANGED iuVars BY <1>14 DEF iuVars
<1> QED BY <1>1, <1>2, <1>3, <1>4, <1>5, <1>6, <1>7, <1>8, <1>9, <1>10, <1>11, <1>12, <1>13, <1>14 DEF IuNext

LEMMA IuHolds == IuInv => QueueWakesLoop BY DEF IuInv, IuTypeOK, IuRequest, IuWaking, QueueWakesLoop, Iu

----
\* Completion ports.

IcContext == [kind : {"none", "io", "accept"}, fd : IcFds \cup {0},
              at : {"none", "registered", "kernel", "port", "taken", "gone", "refused", "unposted"}]

IcTypeOK ==
  /\ icOp \in [IcOps -> IcContext]
  /\ icPending \in [IcFds -> SUBSET IcOps]
  /\ icCalls \in [IcOps -> Nat] /\ icFreed \in [IcOps -> Nat]
  /\ icGone \in BOOLEAN

IcOutstanding == {"registered", "kernel", "port"}
IcEnds == {"gone", "refused", "unposted"}

\* A context is in the table of its descriptor, and in no other, exactly while
\* the caller, the kernel or the port has it, until the proactor goes; then
\* all that is left is what was deleted.
IcPlace(o) ==
  /\ \A f \in IcFds : o \in icPending[f] => icOp[o].fd = f /\ icOp[o].at \in IcOutstanding
  /\ icCalls[o] = IF icOp[o].at = "gone" THEN 1 ELSE 0
  /\ IF icGone
     THEN /\ icOp[o].at \notin {"registered", "taken"} /\ \A f \in IcFds : o \notin icPending[f]
          /\ icFreed[o] = IF icOp[o].at = "none" THEN 0 ELSE 1
     ELSE /\ icOp[o].at \in IcOutstanding => icOp[o].fd \in IcFds /\ o \in icPending[icOp[o].fd]
          /\ icFreed[o] = IF icOp[o].at \in IcEnds THEN 1 ELSE 0

IcPlaces == \A o \in IcOps : IcPlace(o)

IcInv == IcTypeOK /\ IcPlaces

LEMMA IcStarted == IcInit => IcInv
<1> SUFFICES ASSUME IcInit PROVE IcInv OBVIOUS
<1>1. IcNone \in IcContext BY DEF IcNone, IcContext
<1>2. IcTypeOK BY <1>1 DEF IcInit, IcTypeOK
<1>3. IcPlaces BY DEF IcInit, IcNone, IcPlaces, IcPlace, IcOutstanding, IcEnds
<1> QED BY <1>2, <1>3 DEF IcInv

\* What a step that concerns one operation does to the others: nothing.
LEMMA IcOthers ==
  ASSUME IcInv, ~icGone, ~icGone', NEW o \in IcOps, IcTypeOK', IcPlace(o)',
         \A p \in IcOps \ {o} : /\ icOp'[p] = icOp[p] /\ icCalls'[p] = icCalls[p] /\ icFreed'[p] = icFreed[p]
                                /\ \A f \in IcFds : p \in icPending'[f] <=> p \in icPending[f]
  PROVE  IcInv'
<1> USE DEF IcInv, IcTypeOK, IcContext
<1>1. ASSUME NEW p \in IcOps \ {o} PROVE IcPlace(p)'
  <2>1. IcPlace(p) BY DEF IcPlaces
  <2> QED BY <2>1 DEF IcPlace
<1> QED BY <1>1, Zenon DEF IcPlaces

LEMMA IcStep == IcInv /\ [IcNext]_icVars => IcInv'
<1> SUFFICES ASSUME IcInv, [IcNext]_icVars PROVE IcInv' OBVIOUS
<1> USE DEF IcInv, IcTypeOK, IcContext, IcOutstanding, IcEnds
<1>1. ASSUME ~icGone, NEW o \in IcOps, NEW f \in IcFds, NEW kind \in {"io", "accept"}, IcRegister(o, f, kind)
      PROVE  IcInv'
  <2>1. IcTypeOK' /\ IcPlace(o)' BY <1>1 DEF IcRegister, IcPlaces, IcPlace
  <2> QED BY <1>1, <2>1, IcOthers DEF IcRegister
<1>2. ASSUME ~icGone, NEW o \in IcOps, IcStart(o) \/ IcCompletes(o) PROVE IcInv'
  <2>1. IcTypeOK' /\ IcPlace(o)' BY <1>2 DEF IcStart, IcCompletes, IcPlaces, IcPlace
  <2> QED BY <1>2, <2>1, IcOthers DEF IcStart, IcCompletes
<1>3. ASSUME ~icGone, NEW o \in IcOps, IcFailLater(o) \/ IcAcceptRefused(o) PROVE IcInv'
  <2>0. PICK why \in {"refused", "unposted"} : icOp[o].at = "registered" /\ IcFree(o, why)
    BY <1>3 DEF IcFailLater, IcAcceptRefused
  <2>1. IcTypeOK'
    <3>1. [icOp[o] EXCEPT !.at = why] \in IcContext BY <2>0
    <3>2. icOp' \in [IcOps -> IcContext] BY <2>0, <3>1, Zenon DEF IcFree, IcTypeOK
    <3>3. icPending' = [icPending EXCEPT ![icOp[o].fd] = @ \ {o}] BY <2>0, Zenon DEF IcFree
    <3>4. icFreed' = [icFreed EXCEPT ![o] = @ + 1] BY <2>0, Zenon DEF IcFree
    <3>5. icPending' \in [IcFds -> SUBSET IcOps] BY <3>3
    <3>6. icFreed' \in [IcOps -> Nat] BY <3>4
    <3> QED BY <2>0, <3>2, <3>5, <3>6, Zenon DEF IcFree, IcTypeOK
  <2>2. IcPlace(o) BY DEF IcPlaces
  <2>3. icOp'[o].at = why /\ icFreed'[o] = icFreed[o] + 1 /\ icCalls' = icCalls /\ icGone' = icGone BY <2>0 DEF IcFree
  <2>4. \A f \in IcFds : o \notin icPending'[f] BY <1>3, <2>0, <2>2 DEF IcFree, IcPlace
  <2>5. IcPlace(o)' BY <1>3, <2>0, <2>2, <2>3, <2>4 DEF IcPlace
  <2>6. \A p \in IcOps \ {o} : /\ icOp'[p] = icOp[p] /\ icCalls'[p] = icCalls[p] /\ icFreed'[p] = icFreed[p]
                               /\ \A f \in IcFds : p \in icPending'[f] <=> p \in icPending[f] BY <2>0 DEF IcFree
  <2> QED BY <1>3, <2>1, <2>3, <2>5, <2>6, IcOthers
<1>4. ASSUME ~icGone, NEW o \in IcOps, IcDequeue(o) PROVE IcInv'
  <2>1. IcTypeOK' /\ IcPlace(o)' BY <1>4 DEF IcDequeue, IcPlaces, IcPlace
  <2> QED BY <1>4, <2>1, IcOthers DEF IcDequeue
<1>5. ASSUME ~icGone, NEW o \in IcOps, run_once(o) PROVE IcInv'
  <2>0. IcTypeOK' BY <1>5 DEF run_once
  <2>1. IcTypeOK' /\ IcPlace(o)' BY <1>5, <2>0 DEF run_once, IcPlaces, IcPlace
  <2> QED BY <1>5, <2>1, IcOthers DEF run_once
<1>6. ASSUME ~icGone, NEW f \in IcFds, cancel(f) PROVE IcInv'
  <2>1. IcTypeOK' BY <1>6 DEF cancel
  <2>2. ASSUME NEW o \in IcOps PROVE IcPlace(o)' BY <1>6 DEF cancel, IcPlaces, IcPlace
  <2> QED BY <2>1, <2>2, Zenon DEF IcPlaces
<1>7. CASE ~icGone /\ IcDestroy
  <2>1. IcTypeOK' BY <1>7 DEF IcDestroy
  <2>2. ASSUME NEW o \in IcOps PROVE IcPlace(o)' BY <1>7 DEF IcDestroy, IcPlaces, IcPlace
  <2> QED BY <2>1, <2>2, Zenon DEF IcPlaces
<1>8. CASE UNCHANGED icVars BY <1>8 DEF icVars, IcPlaces, IcPlace
<1> QED BY <1>1, <1>2, <1>3, <1>4, <1>5, <1>6, <1>7, <1>8, Zenon DEF IcNext

LEMMA IcHolds == IcInv => ContextsFreedOnce
  BY DEF IcInv, IcTypeOK, IcPlaces, IcPlace, IcContext, IcOutstanding, IcEnds, ContextsFreedOnce

----
\* Descriptors.

\* A set of numbers has a smallest one.
LEMMA Smallest ==
  ASSUME NEW S \in SUBSET Nat, S # {}
  PROVE  \E n \in S : \A y \in S : n <= y
<1>1. \E n \in S : \A y \in S : <<y, n>> \notin OpToRel(<, Nat) BY NatLessThanWellFounded, WFMin, Zenon
<1>2. \A x, y \in Nat : y < x => <<y, x>> \in OpToRel(<, Nat) BY DEF OpToRel
<1>3. PICK n \in S : \A y \in S : ~(y < n) BY <1>1, <1>2, Zenon
<1>4. \A y \in S : n <= y BY <1>3
<1> QED BY <1>3, <1>4

\* The kernel's lowest free descriptor exists.
LEMMA LowestFree ==
  ASSUME NEW S, SkFds \ S # {}
  PROVE  \E f \in SkFds \ S : \A g \in SkFds \ S : f <= g
<1>1. SkFds \ S \in SUBSET Nat BY SkAssumption
<1> QED BY <1>1, Smallest, Zenon

\* Only between create and bind does start() hold a socket of its own.
SkInv ==
  /\ SkTypeOK /\ DescriptorsOwned
  /\ skAt # "bind" => skFd["candidate"] = INVALID_SOCKET_FD

LEMMA SkStarted == SkInit => SkInv
  BY SkAssumption DEF SkInit, SkInv, SkTypeOK, DescriptorsOwned, INVALID_SOCKET_FD, Objects_

LEMMA Wrapped ==
  ASSUME SkTypeOK, DescriptorsOwned, NEW o \in Objects_, skFd[o] = INVALID_SOCKET_FD, Wrap(o)
  PROVE  SkTypeOK' /\ DescriptorsOwned' /\ \A q \in Objects_ \ {o} : skFd'[q] = skFd[q]
<1> DEFINE f == Lowest
<1>1. f \in SkFds \ skOpen BY LowestFree DEF Lowest, Wrap, SkTypeOK
<1>2. skOpen' = skOpen \cup {f} /\ skFd' = [skFd EXCEPT ![o] = f] BY DEF Wrap
<1>3. f # INVALID_SOCKET_FD BY <1>1, SkAssumption DEF INVALID_SOCKET_FD
<1> HIDE DEF f
<1>4. \A q \in Objects_ : skFd'[q] = IF q = o THEN f ELSE skFd[q] BY <1>2 DEF SkTypeOK
<1>5. SkTypeOK' BY <1>1, <1>2 DEF SkTypeOK
<1>6. skOpen' = {skFd'[q] : q \in Objects_} \ {INVALID_SOCKET_FD} BY <1>2, <1>3, <1>4 DEF DescriptorsOwned
<1>7. \A q \in Objects_ : skFd[q] # f BY <1>1, <1>3 DEF DescriptorsOwned
<1> QED BY <1>4, <1>5, <1>6, <1>7 DEF DescriptorsOwned

LEMMA Closed ==
  ASSUME SkTypeOK, DescriptorsOwned, NEW o \in Objects_, Close(o)
  PROVE  /\ SkTypeOK' /\ DescriptorsOwned' /\ skFd'[o] = INVALID_SOCKET_FD
         /\ \A q \in Objects_ \ {o} : skFd'[q] = skFd[q]
<1>1. \A q \in Objects_ : skFd'[q] = IF q = o THEN INVALID_SOCKET_FD ELSE skFd[q] BY DEF Close, SkTypeOK
<1>2. SkTypeOK' BY DEF Close, SkTypeOK
<1>3. skOpen' = {skFd'[q] : q \in Objects_} \ {INVALID_SOCKET_FD} BY <1>1 DEF Close, DescriptorsOwned
<1> QED BY <1>1, <1>2, <1>3 DEF DescriptorsOwned

LEMMA Moved ==
  ASSUME SkTypeOK, DescriptorsOwned, NEW from \in Objects_, NEW to \in Objects_, from # to, Move(from, to)
  PROVE  /\ SkTypeOK' /\ DescriptorsOwned' /\ skFd'[from] = INVALID_SOCKET_FD
         /\ \A q \in Objects_ \ {from, to} : skFd'[q] = skFd[q]
<1>1. \A q \in Objects_ : skFd'[q] = IF q = from THEN INVALID_SOCKET_FD ELSE IF q = to THEN skFd[from] ELSE skFd[q]
  BY DEF Move, SkTypeOK
<1>2. SkTypeOK' BY DEF Move, SkTypeOK
<1>3. skOpen' = {skFd'[q] : q \in Objects_} \ {INVALID_SOCKET_FD}
  <2>1. ASSUME NEW x \in skOpen' PROVE x \in {skFd'[q] : q \in Objects_} \ {INVALID_SOCKET_FD}
    <3>1. x \in skOpen /\ x # skFd[to] BY <2>1 DEF Move
    <3>2. PICK q \in Objects_ : x = skFd[q] /\ x # INVALID_SOCKET_FD BY <3>1 DEF DescriptorsOwned
    <3> QED BY <1>1, <3>1, <3>2
  <2>2. ASSUME NEW q \in Objects_, skFd'[q] # INVALID_SOCKET_FD PROVE skFd'[q] \in skOpen'
    <3>1. PICK p \in Objects_ : skFd'[q] = skFd[p] /\ p # to BY <1>1, <2>2
    <3>2. skFd[p] # skFd[to] BY <2>2, <3>1, Zenon DEF DescriptorsOwned
    <3>3. skFd[p] \in skOpen BY <2>2, <3>1, Zenon DEF DescriptorsOwned
    <3> QED BY <3>1, <3>2, <3>3 DEF Move
  <2> QED BY <2>1, <2>2
<1> QED BY <1>1, <1>2, <1>3 DEF DescriptorsOwned

LEMMA SkStep == SkInv /\ [SkNext]_skVars => SkInv'
<1> SUFFICES ASSUME SkInv, [SkNext]_skVars PROVE SkInv' OBVIOUS
<1>o. {"listener", "candidate", "accepted", "connection", "udp"} \subseteq Objects_ BY DEF Objects_
<1>1. CASE UNCHANGED skVars \/ Resolve \/ CreateFails \/ Listen
  BY <1>1 DEF skVars, Resolve, CreateFails, After, Listen, Enter, SkInv, SkTypeOK, DescriptorsOwned
<1>2. CASE Create BY <1>2, <1>o, Wrapped DEF Create, Enter, SkInv
<1>3. CASE OptionsFail BY <1>3, <1>o, Closed DEF OptionsFail, Enter, SkInv
<1>4. CASE BindFails BY <1>4, <1>o, Closed DEF BindFails, Enter, After, SkInv
<1>5. CASE Bound BY <1>5, <1>o, Moved DEF Bound, Enter, SkInv
<1>6. CASE accept_connection BY <1>6, <1>o, Wrapped DEF accept_connection, SkInv
<1>7. CASE HandOver BY <1>7, <1>o, Moved DEF HandOver, SkInv
<1>8. CASE UdpSocket BY <1>8, <1>o, Wrapped DEF UdpSocket, SkInv
<1>9. ASSUME NEW o \in Objects_, CloseAny(o) PROVE SkInv' BY <1>9, <1>o, Closed DEF CloseAny, SkInv
<1> QED BY <1>1, <1>2, <1>3, <1>4, <1>5, <1>6, <1>7, <1>8, <1>9 DEF SkNext

LEMMA SkHolds == SkInv => SkTypeOK /\ DescriptorsOwned BY DEF SkInv

----
\* Certificates.

\* What a stamp and the version read after it say of a file: the stamp is not
\* ahead of the file, and as long as the file has the stamped version, that
\* version is the one that was read.
NotAhead(s, f) == s[f] \in Nat /\ s[f] <= Age(disk[f])
ReadAsStamped(s, c, f) == s[f] = disk[f] => c[f] = disk[f]

\* The first n files: stamped, read after being stamped, and in pairs.
StampsTrue(s, n) == Len(s) = n /\ s \in Seq(Nat) /\ \A f \in TlFiles : f <= n => NotAhead(s, f)
ReadsTrue(s, c, n) == Len(c) = n /\ c \in Seq(Int) /\ \A f \in TlFiles : f <= n => ReadAsStamped(s, c, f)
Pairs(c, n) == (n >= 2 => c[1] = c[2]) /\ (n >= 4 => c[3] = c[4])

TlJobOK(j) ==
  \/ j.at \in 0 .. 4 /\ StampsTrue(j.stamp, j.at) /\ j.set = << >>
  \/ j.at \in 5 .. 8 /\ StampsTrue(j.stamp, 4) /\ ReadsTrue(j.stamp, j.set, j.at - 4) /\ Pairs(j.set, j.at - 4)

TlJob == [at : Nat, stamp : Seq(Nat), set : Seq(Int)]

TlDiskOK == disk \in [TlFiles -> Int \ {0}]
TlAges == Age(disk[1]) + Age(disk[2]) + Age(disk[3]) + Age(disk[4]) <= 4 + TlMaxRewrites
TlJobs == job \in [TlReloaders -> TlJob] /\ \A r \in TlReloaders : TlJobOK(job[r])
TlCerts == certs # << >> => StampsTrue(stamp, 4) /\ ReadsTrue(stamp, certs, 4) /\ Pairs(certs, 4)

TlInv == TlDiskOK /\ TlAges /\ TlJobs /\ TlCerts

LEMMA TlFresh == TlJobOK(NoJob) /\ NoJob \in TlJob BY DEF TlJobOK, TlJob, NoJob, StampsTrue, TlFiles

LEMMA TlStarted == TlInit => TlInv
<1> SUFFICES ASSUME TlInit PROVE TlInv OBVIOUS
<1>1. TlDiskOK BY DEF TlInit, TlDiskOK, TlFiles
<1>2. TlAges BY TlAssumption DEF TlInit, TlAges, TlFiles, Age
<1>3. TlJobs BY TlFresh DEF TlInit, TlJobs
<1> QED BY <1>1, <1>2, <1>3 DEF TlInv, TlInit, TlCerts

\* A rewrite moves a file beyond every stamp of it.
LEMMA Rewritten ==
  ASSUME TlInv, NEW g \in TlFiles, Rewrite(g)
  PROVE  TlInv'
<1>1. PICK v \in {Age(disk[g]) + 1, -(Age(disk[g]) + 1)} : disk' = [disk EXCEPT ![g] = v] BY DEF Rewrite
<1>2. disk[g] \in Int /\ Age(disk[g]) \in Nat \ {0} BY DEF TlInv, TlDiskOK, Age
<1>3. v \in Int \ {0} /\ Age(v) = Age(disk[g]) + 1 BY <1>1, <1>2 DEF Age
<1>4. TlDiskOK' BY <1>1, <1>3 DEF TlInv, TlDiskOK
<1>5. \A f \in TlFiles : disk'[f] = IF f = g THEN v ELSE disk[f] BY <1>1 DEF TlInv, TlDiskOK
<1>6. \A f \in TlFiles : Age(disk[f]) \in Nat /\ Age(disk'[f]) = IF f = g THEN Age(disk[f]) + 1 ELSE Age(disk[f])
  <2>1. \A f \in TlFiles : Age(disk[f]) \in Nat BY DEF Age, TlInv, TlDiskOK
  <2> QED BY <1>3, <1>5, <2>1 DEF Age
<1>7. TlAges'
  <2>1. Age(disk[1]) + Age(disk[2]) + Age(disk[3]) + Age(disk[4]) < 4 + TlMaxRewrites BY DEF Rewrite
  <2>2. /\ Age(disk[1]) \in Nat /\ Age(disk[2]) \in Nat /\ Age(disk[3]) \in Nat /\ Age(disk[4]) \in Nat
        /\ Age(disk'[1]) = IF 1 = g THEN Age(disk[1]) + 1 ELSE Age(disk[1])
        /\ Age(disk'[2]) = IF 2 = g THEN Age(disk[2]) + 1 ELSE Age(disk[2])
        /\ Age(disk'[3]) = IF 3 = g THEN Age(disk[3]) + 1 ELSE Age(disk[3])
        /\ Age(disk'[4]) = IF 4 = g THEN Age(disk[4]) + 1 ELSE Age(disk[4]) BY <1>6 DEF TlFiles
  <2> QED BY <2>1, <2>2, TlAssumption DEF TlAges
<1>8. ASSUME NEW s, NEW f \in TlFiles, NotAhead(s, f) PROVE NotAhead(s, f)' BY <1>6, <1>8 DEF NotAhead
<1>9. ASSUME NEW s, NEW c, NEW f \in TlFiles, NotAhead(s, f), ReadAsStamped(s, c, f) PROVE ReadAsStamped(s, c, f)'
  <2>1. CASE f = g
    <3>1. disk'[f] = v /\ s[f] \in Nat /\ s[f] < Age(v) BY <1>2, <1>3, <1>5, <1>9, <2>1 DEF NotAhead
    <3>2. s[f] # v BY <1>3, <3>1 DEF Age
    <3> QED BY <3>1, <3>2 DEF ReadAsStamped
  <2>2. CASE f # g BY <1>5, <1>9, <2>2 DEF ReadAsStamped
  <2> QED BY <2>1, <2>2
<1>10. ASSUME NEW s, NEW n, StampsTrue(s, n) PROVE StampsTrue(s, n)' BY <1>8, <1>10 DEF StampsTrue
<1>11. ASSUME NEW s, NEW c, NEW n \in 0 .. 4, StampsTrue(s, 4), ReadsTrue(s, c, n) PROVE ReadsTrue(s, c, n)'
  BY <1>9, <1>11 DEF StampsTrue, ReadsTrue, TlFiles
<1>12. job' = job /\ certs' = certs /\ stamp' = stamp BY DEF Rewrite
<1>13. ASSUME NEW j, TlJobOK(j) PROVE TlJobOK(j)'
  <2>1. CASE j.at \in 0 .. 4 /\ StampsTrue(j.stamp, j.at) /\ j.set = << >> BY <1>10, <2>1 DEF TlJobOK
  <2>2. CASE j.at \in 5 .. 8 /\ StampsTrue(j.stamp, 4) /\ ReadsTrue(j.stamp, j.set, j.at - 4) /\ Pairs(j.set, j.at - 4)
    <3>1. j.at - 4 \in 0 .. 4 BY <2>2
    <3> QED BY <1>10, <1>11, <2>2, <3>1 DEF TlJobOK, Pairs
  <2> QED BY <1>13, <2>1, <2>2 DEF TlJobOK
<1>14. TlJobs' BY <1>12, <1>13 DEF TlInv, TlJobs
<1>15. TlCerts' BY <1>10, <1>11, <1>12 DEF TlInv, TlCerts, Pairs
<1> QED BY <1>4, <1>7, <1>14, <1>15 DEF TlInv

LEMMA TlStep == TlInv /\ [TlNext]_tlVars => TlInv'
<1> SUFFICES ASSUME TlInv, [TlNext]_tlVars PROVE TlInv' OBVIOUS
<1>0. ASSUME disk' = disk, certs' = certs, stamp' = stamp, TlJobs' PROVE TlInv'
  BY <1>0 DEF TlInv, TlDiskOK, TlAges, TlCerts, StampsTrue, ReadsTrue, NotAhead, ReadAsStamped
<1>j. ASSUME disk' = disk, NEW j, TlJobOK(j) PROVE TlJobOK(j)'
  BY <1>j DEF TlJobOK, StampsTrue, ReadsTrue, NotAhead, ReadAsStamped, Pairs
<1>m. ASSUME disk' = disk, NEW r \in TlReloaders, NEW k \in TlJob, TlJobOK(k),
             job' = [job EXCEPT ![r] = k]
      PROVE  TlJobs' BY <1>j, <1>m DEF TlInv, TlJobs
<1>1. ASSUME NEW f \in TlFiles, Rewrite(f) PROVE TlInv' BY <1>1, Rewritten
<1>2. ASSUME NEW r \in TlReloaders, file_stamp(r) PROVE TlInv'
  <2> DEFINE j == job[r]
             x == StampOf(disk[j.at + 1])
             n == j.at + 1
             s == Append(j.stamp, x)
             k == [j EXCEPT !.at = n, !.stamp = s]
  <2>1. job' = [job EXCEPT ![r] = k] /\ disk' = disk /\ certs' = certs /\ stamp' = stamp BY <1>2 DEF file_stamp
  <2>2. j \in TlJob /\ TlJobOK(j) BY DEF TlInv, TlJobs
  <2>3. j.at \in 0 .. 3 /\ j.at + 1 \in TlFiles /\ StampsTrue(j.stamp, j.at) /\ j.set = << >>
    <3>1. j.at < 4 BY <1>2 DEF file_stamp
    <3>2. j.at \in 0 .. 3 /\ StampsTrue(j.stamp, j.at) /\ j.set = << >> BY <2>2, <3>1 DEF TlJobOK
    <3> QED BY <3>2 DEF TlFiles
  <2>4. x \in Nat /\ x <= Age(disk[j.at + 1])
    <3>1. disk[j.at + 1] \in Int BY <2>3 DEF TlInv, TlDiskOK
    <3> QED BY <3>1 DEF StampOf, Missing, Age
  <2> HIDE DEF x
  <2>5. k.at = j.at + 1 /\ k.stamp = Append(j.stamp, x) /\ k.set = << >> /\ k \in TlJob
    <3>1. s \in Seq(Nat) /\ n \in Nat BY <2>2, <2>4 DEF TlJob
    <3> HIDE DEF s, n, j
    <3>2. k.at = n /\ k.stamp = s /\ k.set = j.set /\ k \in TlJob BY <2>2, <3>1 DEF TlJob
    <3> QED BY <2>3, <3>2 DEF s, n
  <2> HIDE DEF k, j
  <2>6. Len(j.stamp) = j.at /\ j.stamp \in Seq(Nat) BY <2>3 DEF StampsTrue
  <2>7. Len(k.stamp) = k.at /\ k.stamp \in Seq(Nat) /\ k.stamp[k.at] = x /\ \A f \in 1 .. j.at : k.stamp[f] = j.stamp[f]
    BY <2>3, <2>4, <2>5, <2>6
  <2>8. ASSUME NEW f \in TlFiles, f <= k.at PROVE NotAhead(k.stamp, f)
    <3>1. CASE f = k.at BY <2>4, <2>5, <2>7, <3>1 DEF NotAhead
    <3>2. CASE f # k.at
      <4>1. f \in 1 .. j.at BY <2>3, <2>5, <2>8, <3>2 DEF TlFiles
      <4>2. NotAhead(j.stamp, f) BY <2>3, <4>1 DEF StampsTrue
      <4> QED BY <2>7, <4>1, <4>2 DEF NotAhead
    <3> QED BY <3>1, <3>2
  <2>9. TlJobOK(k) BY <2>3, <2>5, <2>7, <2>8 DEF TlJobOK, StampsTrue
  <2> QED BY <1>0, <1>m, <2>1, <2>5, <2>9, Zenon
<1>3. ASSUME NEW r \in TlReloaders, load(r) PROVE TlInv'
  <2> DEFINE j == job[r]
             f == j.at - 3
             n == j.at + 1
             c == Append(j.set, disk[f])
             k == [j EXCEPT !.at = n, !.set = c]
  <2>1. disk' = disk /\ certs' = certs /\ stamp' = stamp BY <1>3 DEF load
  <2>2. j \in TlJob /\ TlJobOK(j) BY DEF TlInv, TlJobs
  <2>3. j.at \in 4 .. 7 /\ f \in TlFiles BY <1>3 DEF load, TlFiles
  <2>4. CASE ~Loads(j.set, f)
    <3>1. job' = [job EXCEPT ![r] = NoJob] BY <1>3, <2>4 DEF load
    <3> QED BY <1>0, <1>m, <2>1, <3>1, TlFresh, Zenon
  <2>5. CASE Loads(j.set, f)
    <3>1. job' = [job EXCEPT ![r] = k] BY <1>3, <2>5 DEF load
    <3>2. disk[f] \in Int BY <2>3 DEF TlInv, TlDiskOK
    <3>3. k.at = j.at + 1 /\ k.set = Append(j.set, disk[f]) /\ k.stamp = j.stamp /\ k \in TlJob
      <4>1. c \in Seq(Int) /\ n \in Nat BY <2>2, <3>2 DEF TlJob
      <4> HIDE DEF n, c, j
      <4>2. k.at = n /\ k.stamp = j.stamp /\ k.set = c /\ k \in TlJob BY <2>2, <4>1 DEF TlJob
      <4> QED BY <4>2 DEF n, c
    <3>4. (f = 2 \/ f = 4) => j.set[f - 1] = disk[f] BY <2>5 DEF Loads
    <3>5. StampsTrue(j.stamp, 4) BY <2>2, <2>3 DEF TlJobOK
    <3>6. j.set \in Seq(Int) /\ Len(j.set) = f - 1
      <4>1. CASE j.at = 4
        <5>1. j.set = << >> BY <2>2, <4>1 DEF TlJobOK
        <5> QED BY <4>1, <5>1
      <4>2. CASE j.at # 4 BY <2>2, <2>3, <4>2 DEF TlJobOK, ReadsTrue
      <4> QED BY <4>1, <4>2
    <3>7. \A i \in TlFiles : i <= f - 1 => ReadAsStamped(j.stamp, j.set, i)
      BY <2>2, <2>3 DEF TlJobOK, ReadsTrue, TlFiles
    <3>8. f - 1 >= 2 => j.set[1] = j.set[2] BY <2>2, <2>3 DEF TlJobOK, Pairs
    <3>f. f \in 1 .. 4 /\ j.at = f + 3 BY <2>3 DEF TlFiles
    <3> HIDE DEF k, j, f
    <3>9. k.set \in Seq(Int) /\ Len(k.set) = f /\ k.set[f] = disk[f] /\ \A i \in TlFiles : i <= f - 1 => k.set[i] = j.set[i]
      BY <3>f, <3>2, <3>3, <3>6 DEF TlFiles
    <3>10. Pairs(k.set, f)
      <4>1. f = 1 \/ f = 2 \/ f = 3 \/ f = 4 BY <3>f
      <4>2. 1 \in TlFiles /\ 2 \in TlFiles /\ 3 \in TlFiles BY DEF TlFiles
      <4>3. CASE f = 1 BY <4>3 DEF Pairs
      <4>4. CASE f = 2 BY <3>4, <3>9, <4>2, <4>4 DEF Pairs
      <4>5. CASE f = 3 BY <3>8, <3>9, <4>2, <4>5 DEF Pairs
      <4>6. CASE f = 4 BY <3>4, <3>8, <3>9, <4>2, <4>6 DEF Pairs
      <4> QED BY <4>1, <4>3, <4>4, <4>5, <4>6
    <3>11. ASSUME NEW i \in TlFiles, i <= f PROVE ReadAsStamped(k.stamp, k.set, i)
      <4>1. CASE i = f BY <3>9, <4>1 DEF ReadAsStamped
      <4>2. CASE i # f
        <5>1. i <= f - 1 BY <3>f, <3>11, <4>2 DEF TlFiles
        <5> QED BY <3>3, <3>7, <3>9, <5>1 DEF ReadAsStamped
      <4> QED BY <4>1, <4>2
    <3>12. ReadsTrue(k.stamp, k.set, f) BY <3>9, <3>11 DEF ReadsTrue
    <3>13. k.at \in 5 .. 8 /\ k.at - 4 = f BY <3>f, <3>3
    <3>14. TlJobOK(k) BY <3>3, <3>5, <3>10, <3>12, <3>13, Zenon DEF TlJobOK
    <3> QED BY <1>0, <1>m, <2>1, <3>1, <3>3, <3>14, Zenon
  <2> QED BY <2>4, <2>5
<1>4. ASSUME NEW r \in TlReloaders, install(r) PROVE TlInv'
  <2>1. job' = [job EXCEPT ![r] = NoJob] /\ disk' = disk /\ certs' = job[r].set /\ stamp' = job[r].stamp
    BY <1>4 DEF install
  <2>2. TlJobs' BY <1>m, <2>1, TlFresh, Zenon
  <2>3. StampsTrue(job[r].stamp, 4) /\ ReadsTrue(job[r].stamp, job[r].set, 4) /\ Pairs(job[r].set, 4)
    <3>1. job[r].at = 8 /\ TlJobOK(job[r]) BY <1>4 DEF install, TlInv, TlJobs
    <3> QED BY <3>1 DEF TlJobOK
  <2>4. TlCerts' BY <2>1, <2>3 DEF TlCerts, StampsTrue, ReadsTrue, NotAhead, ReadAsStamped, Pairs
  <2> QED BY <2>1, <2>2, <2>4 DEF TlInv, TlDiskOK, TlAges
<1>5. CASE UNCHANGED <<disk, certs, stamp, job>> BY <1>0, <1>j, <1>5 DEF TlInv, TlJobs
<1> QED BY <1>1, <1>2, <1>3, <1>4, <1>5 DEF TlNext, servername_cb, tlVars

LEMMA TlHolds == TlInv => TlTypeOK /\ StaleCertsNoticed
<1> SUFFICES ASSUME TlInv PROVE TlTypeOK /\ StaleCertsNoticed OBVIOUS
<1>1. disk \in [TlFiles -> -(1 + TlMaxRewrites)..(1 + TlMaxRewrites)]
  <2>1. \A f \in TlFiles : disk[f] \in Int /\ Age(disk[f]) \in Nat \ {0} BY DEF TlInv, TlDiskOK, Age
  <2>2. \A f \in TlFiles : Age(disk[f]) <= 1 + TlMaxRewrites BY <2>1, TlAssumption DEF TlInv, TlAges, TlFiles
  <2>3. \A f \in TlFiles : disk[f] \in -(1 + TlMaxRewrites)..(1 + TlMaxRewrites) BY <2>1, <2>2, TlAssumption DEF Age
  <2> QED BY <2>3 DEF TlInv, TlDiskOK
<1>2. \A r \in TlReloaders : job[r].at \in 0 .. 8 BY DEF TlInv, TlJobs, TlJobOK
<1>3. ASSUME certs # << >> PROVE certs[1] = certs[2] /\ certs[3] = certs[4] BY <1>3 DEF TlInv, TlCerts, Pairs
<1>4. ASSUME certs # << >>, \A f \in TlFiles : ~Missing(disk[f]), stamp = [f \in TlFiles |-> StampOf(disk[f])],
             NEW f \in TlFiles
      PROVE  certs[f] = disk[f]
  <2>1. stamp[f] = disk[f] BY <1>4 DEF StampOf
  <2>2. f <= 4 BY DEF TlFiles
  <2> QED BY <1>4, <2>1, <2>2 DEF TlInv, TlCerts, ReadsTrue, ReadAsStamped
<1> QED BY <1>1, <1>2, <1>3, <1>4, Zenon DEF TlTypeOK, StaleCertsNoticed, files_changed

----
\* Readiness: epoll and kqueue.

Dirs == {"in", "out"}

PaTypeOK ==
  /\ paKind \in {"epoll", "kqueue"}
  /\ paCtx \in [PaFds -> SUBSET PaOps]
  /\ paArmed \in [PaFds -> SUBSET Dirs]
  /\ paEvents \subseteq PaFds \X Dirs
  /\ paBatch \in Seq(PaKey)
  /\ paRun \in [PaKey -> {"idle", "started"}]

InBatch(k) == \E i \in DOMAIN paBatch : paBatch[i] = k

\* An operation is started exactly while it is in its context or collected,
\* and never in both.
PaPlaces ==
  \A f \in PaFds, op \in PaOps :
    /\ paRun[<<f, op>>] = "started" <=> (op \in paCtx[f] \/ InBatch(<<f, op>>))
    /\ ~(op \in paCtx[f] /\ InBatch(<<f, op>>))

\* The kernel watches for what a context holds; under epoll, unless an event
\* of the descriptor was returned, which disarms it.
PaWatched ==
  \A f \in PaFds : \A op \in paCtx[f] :
    Filter(op) \in paArmed[f] \/ (paKind = "epoll" /\ \E e \in paEvents : e[1] = f)

\* Events are looked at before anything is collected.
PaPhases == paKind = "epoll" /\ paEvents # {} => paBatch = << >>

PaDistinct == \A i, j \in DOMAIN paBatch : i # j => paBatch[i] # paBatch[j]

PaInv == PaTypeOK /\ PaPlaces /\ PaWatched /\ PaPhases /\ PaDistinct

LEMMA PaStarted == PaInit => PaInv
<1> SUFFICES ASSUME PaInit PROVE PaInv OBVIOUS
<1>1. PaTypeOK BY DEF PaInit, PaTypeOK, PaKey
<1>2. DOMAIN paBatch = {} BY DEF PaInit
<1> QED BY <1>1, <1>2 DEF PaInit, PaInv, PaPlaces, PaWatched, PaPhases, PaDistinct, InBatch, PaKey

LEMMA Filtered == \A op \in PaOps : Filter(op) \in Dirs BY DEF Filter, Dirs

LEMMA Interested ==
  /\ \A ops \in SUBSET PaOps : Interest(ops) \in SUBSET Dirs
  /\ \A ops : \A op \in ops : Filter(op) \in Interest(ops) BY Filtered DEF Interest

\* One operation at most is handled by an event: no two of a filter rank alike.
LEMMA ServedOne ==
  ASSUME PaTypeOK, NEW f \in PaFds, NEW d
  PROVE  /\ Served(f, d) \subseteq paCtx[f]
         /\ \A a, b \in Served(f, d) : a = b
<1>1. Served(f, d) \subseteq paCtx[f] /\ \A a \in Served(f, d) : Filter(a) = d BY DEF Served
<1>2. ASSUME NEW a \in Served(f, d), NEW b \in Served(f, d) PROVE Rank(a) <= Rank(b) /\ Rank(b) <= Rank(a) /\ Filter(a) = Filter(b)
  BY <1>1 DEF Served
<1>3. \A a, b \in PaOps : Filter(a) = Filter(b) /\ Rank(a) <= Rank(b) /\ Rank(b) <= Rank(a) => a = b
  BY PaAssumption DEF Rank, Filter, In, PaTypeOK
<1>4. Served(f, d) \subseteq PaOps BY <1>1 DEF PaTypeOK
<1> QED BY <1>1, <1>2, <1>3, <1>4

\* An ordering of a finite set without gaps holds each member once.
LEMMA OrderedOnce ==
  ASSUME NEW S, IsFiniteSet(S), NEW order \in [1 .. Cardinality(S) -> S],
         \A k \in S : \E i \in DOMAIN order : order[i] = k
  PROVE  /\ order \in Seq(S)
         /\ DOMAIN order = 1 .. Cardinality(S)
         /\ \A i, j \in DOMAIN order : i # j => order[i] # order[j]
<1>1. Cardinality(S) \in Nat BY FS_CardinalityType
<1>2. IsFiniteSet(1 .. Cardinality(S)) /\ Cardinality(1 .. Cardinality(S)) = Cardinality(S) BY <1>1, FS_Interval
<1>3. order \in Surjection(1 .. Cardinality(S), S) BY DEF Surjection
<1>4. order \in Injection(1 .. Cardinality(S), S) BY <1>2, <1>3, FS_Surjection
<1>5. \A i, j \in 1 .. Cardinality(S) : order[i] = order[j] => i = j BY <1>4 DEF Injection, IsInjective
<1> QED BY <1>1, <1>5

LEMMA PaKeysFinite == IsFiniteSet(PaKey)
<1>0. \A S, x : IsFiniteSet(S) => IsFiniteSet(S \cup {x}) BY FS_AddElement
<1> DEFINE A == (({} \cup {"accept"}) \cup {"read"}) \cup {"wait_read"}
           B == (((A \cup {"connect"}) \cup {"write"}) \cup {"wait_write"}) \cup {"sendfile"}
<1>a. IsFiniteSet(A) BY <1>0, FS_EmptySet, Zenon
<1>b. IsFiniteSet(B)
  <2> HIDE DEF A
  <2> QED BY <1>0, <1>a, Zenon
<1>1. IsFiniteSet({"accept", "read", "wait_read", "connect", "write", "wait_write", "sendfile"})
  <2>1. B = {"accept", "read", "wait_read", "connect", "write", "wait_write", "sendfile"} OBVIOUS
  <2> HIDE DEF B
  <2> QED BY <1>b, <2>1
<1>2. IsFiniteSet(PaOps) BY <1>1, PaAssumption, FS_Subset
<1> QED BY <1>2, PaAssumption, FS_Product DEF PaKey

LEMMA PaStep == PaInv /\ [PaNext]_paVars => PaInv'
<1> SUFFICES ASSUME PaInv, [PaNext]_paVars PROVE PaInv' OBVIOUS
<1> USE DEF PaInv
<1>1. ASSUME NEW f \in PaFds, NEW op \in PaOps, PaStart(f, op) PROVE PaInv'
  <2>1. paCtx'[f] = paCtx[f] \cup {op} /\ paCtx' \in [PaFds -> SUBSET PaOps] /\ \A g \in PaFds \ {f} : paCtx'[g] = paCtx[g]
    BY <1>1 DEF PaStart, PaTypeOK
  <2>2. paArmed'[f] = Interest(paCtx'[f]) /\ paArmed' \in [PaFds -> SUBSET Dirs] /\ \A g \in PaFds \ {f} : paArmed'[g] = paArmed[g]
    BY <1>1, <2>1, Interested DEF PaStart, PaTypeOK
  <2>3. paRun' \in [PaKey -> {"idle", "started"}] /\ \A k \in PaKey : paRun'[k] = IF k = <<f, op>> THEN "started" ELSE paRun[k]
    BY <1>1 DEF PaStart, PaTypeOK, PaKey
  <2>4. paKind' = paKind /\ paEvents' = paEvents /\ paBatch' = paBatch BY <1>1 DEF PaStart
  <2>5. PaTypeOK' BY <2>1, <2>2, <2>3, <2>4 DEF PaTypeOK
  <2>6. ~InBatch(<<f, op>>) BY <1>1 DEF PaStart, PaPlaces
  <2>7. PaPlaces'
    <3>1. \A k : InBatch(k)' <=> InBatch(k) BY <2>4 DEF InBatch
    <3>2. ASSUME NEW g \in PaFds, NEW o \in PaOps
          PROVE  /\ paRun'[<<g, o>>] = "started" <=> (o \in paCtx'[g] \/ InBatch(<<g, o>>)')
                 /\ ~(o \in paCtx'[g] /\ InBatch(<<g, o>>)')
      <4>1. CASE g = f /\ o = op BY <2>1, <2>3, <2>6, <3>1, <4>1 DEF PaKey
      <4>2. CASE ~(g = f /\ o = op)
        <5>1. (o \in paCtx'[g] <=> o \in paCtx[g]) /\ paRun'[<<g, o>>] = paRun[<<g, o>>] BY <2>1, <2>3, <4>2 DEF PaKey
        <5> QED BY <3>1, <5>1 DEF PaPlaces
      <4> QED BY <4>1, <4>2
    <3> QED BY <3>2 DEF PaPlaces
  <2>8. PaWatched' BY <2>1, <2>2, <2>4, Interested DEF PaWatched
  <2> QED BY <2>4, <2>5, <2>7, <2>8 DEF PaPhases, PaDistinct
<1>2. ASSUME NEW f \in PaFds, remove(f) PROVE PaInv'
  <2>1. \A g \in PaFds : paCtx'[g] = (IF g = f THEN {} ELSE paCtx[g]) /\ paArmed'[g] = (IF g = f THEN {} ELSE paArmed[g])
    BY <1>2 DEF remove, PaTypeOK
  <2>2. paKind' = paKind /\ paEvents' = paEvents /\ paBatch' = paBatch BY <1>2 DEF remove
  <2>3. PaTypeOK' BY <1>2 DEF remove, PaTypeOK
  <2>4. \A g \in PaFds, op \in PaOps : paRun'[<<g, op>>] = IF g = f /\ op \in paCtx[f] THEN "idle" ELSE paRun[<<g, op>>]
    BY <1>2 DEF remove, PaKey
  <2>5. PaPlaces'
    <3>1. \A k : InBatch(k)' <=> InBatch(k) BY <2>2 DEF InBatch
    <3>2. ASSUME NEW g \in PaFds, NEW o \in PaOps
          PROVE  /\ paRun'[<<g, o>>] = "started" <=> (o \in paCtx'[g] \/ InBatch(<<g, o>>)')
                 /\ ~(o \in paCtx'[g] /\ InBatch(<<g, o>>)')
      <4>1. CASE g = f BY <2>1, <2>4, <3>1, <4>1 DEF PaPlaces
      <4>2. CASE g # f
        <5>1. paCtx'[g] = paCtx[g] /\ paRun'[<<g, o>>] = paRun[<<g, o>>] BY <2>1, <2>4, <4>2
        <5> QED BY <3>1, <5>1 DEF PaPlaces
      <4> QED BY <4>1, <4>2
    <3> QED BY <3>2 DEF PaPlaces
  <2>6. PaWatched' BY <2>1, <2>2 DEF PaWatched
  <2> QED BY <2>2, <2>3, <2>5, <2>6 DEF PaPhases, PaDistinct
<1>3. CASE PaWait
  <2>1. PICK ready \in SUBSET {e \in PaFds \X Dirs : e[2] \in paArmed[e[1]]} :
          /\ paEvents' = ready
          /\ paArmed' = [f \in PaFds |-> IF paKind = "epoll" /\ \E e \in ready : e[1] = f THEN {} ELSE paArmed[f]]
    BY <1>3 DEF PaWait, Dirs
  <2>2. paKind' = paKind /\ paCtx' = paCtx /\ paBatch' = paBatch /\ paRun' = paRun /\ paEvents = {} /\ paBatch = << >>
    BY <1>3 DEF PaWait
  <2>3. PaTypeOK' BY <2>1, <2>2 DEF PaTypeOK
  <2>4. PaPlaces'
    <3>1. \A k : InBatch(k)' <=> InBatch(k) BY <2>2 DEF InBatch
    <3> QED BY <2>2, <3>1 DEF PaPlaces
  <2>5. PaWatched' BY <2>1, <2>2 DEF PaWatched
  <2> QED BY <2>2, <2>3, <2>4, <2>5 DEF PaPhases, PaDistinct
<1>4. CASE PaCollect
  <2> DEFINE handled == UNION {{<<e[1], op>> : op \in Served(e[1], e[2])} : e \in paEvents}
  <2>1. PICK order \in [1 .. Cardinality(handled) -> handled] :
          /\ \A k \in handled : \E i \in DOMAIN order : order[i] = k
          /\ paBatch' = order BY <1>4 DEF PaCollect
  <2>2. /\ paCtx' = [f \in PaFds |-> {op \in paCtx[f] : <<f, op>> \notin handled}]
        /\ paArmed' = [f \in PaFds |-> IF \E e \in paEvents : e[1] = f THEN Interest(paCtx'[f]) ELSE paArmed[f]]
        /\ paEvents' = {} /\ paKind' = paKind /\ paRun' = paRun /\ paKind = "epoll" /\ paBatch = << >>
    BY <1>4 DEF PaCollect, PaPhases
  <2>3. \A k \in handled : k \in PaKey /\ k[2] \in paCtx[k[1]]
    <3>1. ASSUME NEW e \in paEvents, NEW op \in Served(e[1], e[2]) PROVE <<e[1], op>> \in PaKey /\ op \in paCtx[e[1]]
      <4>1. e[1] \in PaFds BY DEF PaTypeOK
      <4>2. op \in paCtx[e[1]] BY <4>1, ServedOne
      <4> QED BY <4>1, <4>2 DEF PaTypeOK, PaKey
    <3> QED BY <3>1
  <2> HIDE DEF handled
  <2>4. IsFiniteSet(handled) BY <2>3, PaKeysFinite, FS_Subset
  <2>5. order \in Seq(handled) /\ \A i, j \in DOMAIN order : i # j => order[i] # order[j] BY <2>1, <2>4, OrderedOnce
  <2>6. \A k : (\E i \in DOMAIN order : order[i] = k) <=> k \in handled BY <2>1
  <2>7. paCtx' \in [PaFds -> SUBSET PaOps] BY <2>2 DEF PaTypeOK
  <2>8. PaTypeOK'
    <3>1. paArmed' \in [PaFds -> SUBSET Dirs] BY <2>2, <2>7, Interested DEF PaTypeOK
    <3>2. paBatch' \in Seq(PaKey) BY <2>1, <2>3, <2>5
    <3> QED BY <2>2, <2>7, <3>1, <3>2 DEF PaTypeOK
  <2>9. \A k : InBatch(k)' <=> k \in handled BY <2>1, <2>6 DEF InBatch
  <2>10. \A k : ~InBatch(k) BY <2>2 DEF InBatch
  <2>11. PaPlaces' BY <2>2, <2>3, <2>9, <2>10 DEF PaPlaces
  <2>12. PaWatched' BY <2>2, Interested DEF PaWatched
  <2> QED BY <2>1, <2>2, <2>5, <2>8, <2>11, <2>12 DEF PaPhases, PaDistinct
<1>5. CASE handle_event
  <2>1. PICK e \in paEvents :
          LET f == e[1]  handled == Served(f, e[2]) IN
          /\ paEvents' = paEvents \ {e}
          /\ paCtx' = [paCtx EXCEPT ![f] = @ \ handled]
          /\ paArmed' = IF handled = {} THEN paArmed ELSE [paArmed EXCEPT ![f] = Interest(paCtx'[f])]
          /\ paBatch' = IF handled = {} THEN <<>> ELSE <<<<f, CHOOSE op \in handled : TRUE>>>>
    BY <1>5 DEF handle_event
  <2> DEFINE f == e[1]
             handled == Served(f, e[2])
  <2>2. paKind' = paKind /\ paRun' = paRun /\ paKind = "kqueue" /\ paBatch = << >> BY <1>5 DEF handle_event
  <2>3. f \in PaFds BY DEF PaTypeOK
  <2>4. handled \subseteq paCtx[f] /\ \A a, b \in handled : a = b BY <2>3, ServedOne
  <2>5. /\ paEvents' = paEvents \ {e}
        /\ paCtx' = [paCtx EXCEPT ![f] = @ \ handled]
        /\ paArmed' = IF handled = {} THEN paArmed ELSE [paArmed EXCEPT ![f] = Interest(paCtx'[f])]
        /\ paBatch' = IF handled = {} THEN <<>> ELSE <<<<f, CHOOSE op \in handled : TRUE>>>> BY <2>1
  <2> HIDE DEF f, handled
  <2>6. /\ paCtx' \in [PaFds -> SUBSET PaOps] /\ paCtx'[f] = paCtx[f] \ handled
        /\ \A g \in PaFds \ {f} : paCtx'[g] = paCtx[g] BY <2>3, <2>5 DEF PaTypeOK
  <2>7. CASE handled = {}
    <3>1. paCtx' = paCtx BY <2>3, <2>6, <2>7 DEF PaTypeOK
    <3>2. paBatch' = paBatch /\ paArmed' = paArmed BY <2>2, <2>5, <2>7
    <3>3. PaTypeOK' BY <2>2, <2>5, <3>1, <3>2 DEF PaTypeOK
    <3> QED BY <2>2, <3>1, <3>2, <3>3 DEF PaPlaces, PaWatched, PaPhases, PaDistinct, InBatch
  <2>8. CASE handled # {}
    <3>1. PICK op \in handled : paBatch' = <<<<f, op>>>> BY <2>5, <2>8
    <3>2. handled = {op} /\ op \in PaOps /\ op \in paCtx[f] BY <2>3, <2>4, <3>1 DEF PaTypeOK
    <3>3. <<f, op>> \in PaKey /\ DOMAIN paBatch' = {1} /\ paBatch'[1] = <<f, op>> BY <2>3, <3>1, <3>2 DEF PaKey
    <3>4. /\ paArmed'[f] = Interest(paCtx'[f]) /\ paArmed' \in [PaFds -> SUBSET Dirs]
          /\ \A g \in PaFds \ {f} : paArmed'[g] = paArmed[g] BY <2>3, <2>5, <2>6, <2>8, Interested DEF PaTypeOK
    <3>5. PaTypeOK'
      <4>1. paBatch' \in Seq(PaKey) BY <3>1, <3>3
      <4> QED BY <2>2, <2>5, <2>6, <3>4, <4>1 DEF PaTypeOK
    <3>6. \A k : InBatch(k)' <=> k = <<f, op>> BY <3>3 DEF InBatch
    <3>7. \A k : ~InBatch(k) BY <2>2 DEF InBatch
    <3>8. PaPlaces' BY <2>2, <2>3, <2>6, <3>2, <3>6, <3>7 DEF PaPlaces
    <3>9. PaWatched' BY <2>2, <2>3, <2>6, <3>4, Interested DEF PaWatched
    <3> QED BY <2>2, <3>3, <3>5, <3>8, <3>9 DEF PaPhases, PaDistinct
  <2> QED BY <2>7, <2>8
<1>6. CASE PaTrigger
  <2>1. paKind' = paKind /\ paCtx' = paCtx /\ paArmed' = paArmed /\ paEvents' = paEvents /\ paBatch # << >> /\ paBatch' = Tail(paBatch)
    BY <1>6 DEF PaTrigger
  <2>2. DOMAIN paBatch = 1 .. Len(paBatch) /\ Len(paBatch) \in Nat \ {0} /\ Head(paBatch) = paBatch[1] /\ Head(paBatch) \in PaKey
    BY <2>1 DEF PaTypeOK
  <2>3. paBatch' \in Seq(PaKey) /\ DOMAIN paBatch' = 1 .. Len(paBatch) - 1 /\ \A i \in 1 .. Len(paBatch) - 1 : paBatch'[i] = paBatch[i + 1]
    BY <2>1, <2>2 DEF PaTypeOK
  <2>4. paRun' \in [PaKey -> {"idle", "started"}] /\ \A k \in PaKey : paRun'[k] = IF k = Head(paBatch) THEN "idle" ELSE paRun[k]
    BY <1>6, <2>2 DEF PaTrigger, PaTypeOK
  <2>5. \A k : InBatch(k)' <=> InBatch(k) /\ k # Head(paBatch)
    <3>1. ASSUME NEW i \in DOMAIN paBatch' PROVE i + 1 \in DOMAIN paBatch /\ paBatch'[i] = paBatch[i + 1] /\ paBatch[i + 1] # Head(paBatch)
      <4>1. i + 1 \in DOMAIN paBatch /\ 1 \in DOMAIN paBatch /\ i + 1 # 1 BY <2>2, <2>3
      <4> QED BY <2>2, <2>3, <4>1 DEF PaDistinct
    <3>2. ASSUME NEW i \in DOMAIN paBatch, paBatch[i] # Head(paBatch) PROVE i - 1 \in DOMAIN paBatch' /\ paBatch'[i - 1] = paBatch[i]
      BY <2>2, <2>3, <3>2
    <3> QED BY <3>1, <3>2 DEF InBatch
  <2>6. PaTypeOK' BY <2>1, <2>3, <2>4 DEF PaTypeOK
  <2>7. InBatch(Head(paBatch)) BY <2>2 DEF InBatch
  <2>8. PaPlaces' BY <2>1, <2>4, <2>5, <2>7 DEF PaPlaces, PaKey
  <2>9. PaDistinct'
    <3>1. \A i \in DOMAIN paBatch' : i + 1 \in DOMAIN paBatch /\ paBatch'[i] = paBatch[i + 1] /\ i \in Nat
      BY <2>2, <2>3
    <3> QED BY <3>1 DEF PaDistinct
  <2> QED BY <2>1, <2>6, <2>8, <2>9 DEF PaPhases, PaWatched
<1>7. CASE PaDestroy
  <2>1. paKind' = paKind /\ paEvents' = paEvents /\ paBatch' = paBatch /\ \A f \in PaFds : paCtx'[f] = {} /\ paArmed'[f] = {}
    BY <1>7 DEF PaDestroy
  <2>2. PaTypeOK' BY <1>7 DEF PaDestroy, PaTypeOK
  <2>3. \A g \in PaFds, op \in PaOps : paRun'[<<g, op>>] = IF op \in paCtx[g] THEN "idle" ELSE paRun[<<g, op>>]
    BY <1>7 DEF PaDestroy, PaKey
  <2>4. PaPlaces'
    <3>1. \A k : InBatch(k)' <=> InBatch(k) BY <2>1 DEF InBatch
    <3> QED BY <2>1, <2>3, <3>1 DEF PaPlaces
  <2> QED BY <2>1, <2>2, <2>4 DEF PaWatched, PaPhases, PaDistinct
<1>8. CASE UNCHANGED paVars BY <1>8 DEF paVars, PaTypeOK, PaPlaces, PaWatched, PaPhases, PaDistinct, InBatch
<1> QED BY <1>1, <1>2, <1>3, <1>4, <1>5, <1>6, <1>7, <1>8 DEF PaNext

LEMMA PaHolds == PaInv => WaitsAreArmed BY DEF PaInv, PaPlaces, PaWatched, PaDistinct, InBatch, WaitsAreArmed

----
\* Responses.

RlWriters == [gen : 0 .. RlMaxRequests, responded : BOOLEAN, sink : 0 .. RlMaxRequests, closed : BOOLEAN, callbacks : SUBSET RlCallbacks]
RlPlaces == {"none", "runs", "throws", "compared", "unanswered", "sink", "last", "done"}
RlTasks == [at : RlPlaces, helper : {"none", "awaited", "taken"}, answered : BOOLEAN, raced : BOOLEAN, sink : 0 .. RlMaxRequests]

RlTypeOK ==
  /\ rlWriter \in RlWriters
  /\ rlConn \in {"idle", "reset", "generation", "request", "serves"}
  /\ rlTask \in [RlRequests -> RlTasks]
  /\ rlHeld \in [RlRequests -> SUBSET {"connection", "task"}]
  /\ rlRan \in [RlCallbacks -> Nat]
  /\ rlRunning \subseteq RlCallbacks
  /\ rlSent \in [RlRequests -> Nat]
  /\ rlStray \subseteq [to : RlRequests, from : RlRequests]

\* A callback is in one place, and leaves it to run.
RlCallbackOnce ==
  /\ \A c \in RlCallbacks :
       \/ rlRan[c] = 0 /\ ~(c \in rlRunning /\ c \in rlWriter.callbacks)
       \/ rlRan[c] = 1 /\ c \notin rlRunning /\ c \notin rlWriter.callbacks
  /\ rlWriter.closed => rlWriter.callbacks = {}

RlReporting == {"compared", "unanswered", "sink", "last"}
Stray(r) == \E s \in rlStray : s.to = r

RlFresh(r) == rlTask[r].at = "none" /\ ~rlTask[r].answered /\ ~rlTask[r].raced

\* The connection's place and the writer: the requests before the writer's
\* generation have begun, the one it is at once the connection serves it, and
\* until the reset reaches it the sink is that request's.
RlTurn ==
  /\ rlConn \in {"generation", "request", "serves"} => rlWriter.gen > 0
  /\ rlConn = "reset" => rlWriter.gen < RlMaxRequests
  /\ rlConn \in {"idle", "reset", "serves"} => rlWriter.sink = rlWriter.gen

RlTurnOf(r) ==
  /\ r > rlWriter.gen => RlFresh(r)
  /\ (r = rlWriter.gen /\ rlConn \in {"generation", "request"}) => RlFresh(r)

\* A report that no reset overtook is about the request the writer is at.
RlReportOf(r) ==
  /\ (rlTask[r].at \in RlReporting /\ ~rlTask[r].raced) => rlWriter.gen = r /\ rlConn \in {"idle", "serves"}
  /\ rlTask[r].at \in {"none", "runs", "throws"} => ~rlTask[r].raced
  /\ rlTask[r].at \notin {"none", "done"} => "task" \in rlHeld[r]
  /\ (rlTask[r].at = "sink" /\ ~rlTask[r].raced) => rlTask[r].sink = r

\* A response by somebody else is known to be one.
RlStrays == \A s \in rlStray : rlTask[s.from].raced

\* How many responses a request has, unless it was raced or got a stray one.
RlCount(r) ==
  LET at == rlTask[r].at IN
  /\ rlSent[r] <= 1
  /\ at \in {"none", "unanswered", "sink"} => rlSent[r] = 0
  /\ (at \in {"runs", "throws", "compared"} /\ rlSent[r] = 1) =>
       rlTask[r].answered /\ (rlWriter.gen = r /\ rlConn \in {"idle", "serves"} => rlWriter.responded)
  /\ (at = "last" /\ rlSent[r] = 1) => rlWriter.responded

RlCountedOf(r) == rlTask[r].raced \/ Stray(r) \/ RlCount(r)

RlEach == \A r \in RlRequests : RlTurnOf(r) /\ RlReportOf(r) /\ RlCountedOf(r)

RlInv == RlTypeOK /\ RlCallbackOnce /\ RlTurn /\ RlStrays /\ RlEach

LEMMA RlStarted == RlInit => RlInv
<1> SUFFICES ASSUME RlInit PROVE RlInv OBVIOUS
<1>1. NoTask \in RlTasks /\ NoTask.at = "none" /\ ~NoTask.raced /\ ~NoTask.answered
  BY RlAssumption DEF NoTask, RlTasks, RlPlaces
<1>2. Writer \in RlWriters /\ Writer.gen = 0 /\ Writer.sink = 0 /\ Writer.callbacks = {}
  BY RlAssumption DEF Writer, RlWriters
<1>3. RlTypeOK BY <1>1, <1>2 DEF RlInit, RlTypeOK
<1>4. RlTurn BY <1>1, <1>2, RlAssumption DEF RlInit, RlTurn
<1> QED
  BY <1>1, <1>2, <1>3, <1>4 DEF RlInit, RlInv, RlCallbackOnce, RlStrays, RlEach, RlTurnOf, RlFresh, RlReportOf, RlCountedOf, RlCount, Stray, RlReporting

LEMMA RlHolds == RlInv => LateFailuresHarmless /\ CloseCallbacksOnce
<1> SUFFICES ASSUME RlInv PROVE LateFailuresHarmless /\ CloseCallbacksOnce OBVIOUS
<1>1. LateFailuresHarmless
  BY DEF RlInv, RlEach, RlReportOf, RlStrays, RlCountedOf, RlCount, Stray, LateFailuresHarmless, RlTypeOK
<1>2. CloseCallbacksOnce
  <2>1. ASSUME NEW S, NEW c PROVE Cardinality(S \cap {c}) = IF c \in S THEN 1 ELSE 0
    <3>1. CASE c \in S
      <4>1. S \cap {c} = {c} BY <3>1
      <4> QED BY <3>1, <4>1, FS_Singleton
    <3>2. CASE c \notin S
      <4>1. S \cap {c} = {} BY <3>2
      <4> QED BY <3>2, <4>1, FS_EmptySet
    <3> QED BY <3>1, <3>2
  <2>2. ASSUME NEW c \in RlCallbacks
        PROVE  rlRan[c] + Cardinality(rlRunning \cap {c}) + Cardinality(rlWriter.callbacks \cap {c}) <= 1
    <3>1. Cardinality(rlRunning \cap {c}) = (IF c \in rlRunning THEN 1 ELSE 0) BY <2>1
    <3>2. Cardinality(rlWriter.callbacks \cap {c}) = (IF c \in rlWriter.callbacks THEN 1 ELSE 0) BY <2>1
    <3> QED BY <3>1, <3>2 DEF RlInv, RlCallbackOnce
  <2> QED BY <2>2 DEF RlInv, RlCallbackOnce, CloseCallbacksOnce
<1> QED BY <1>1, <1>2

\* A task's record is replaced by another: the other tasks stay as they are.
LEMMA RlPut ==
  ASSUME NEW f \in [RlRequests -> RlTasks], NEW r \in RlRequests, NEW t \in RlTasks
  PROVE  LET g == [f EXCEPT ![r] = t] IN
         g \in [RlRequests -> RlTasks] /\ g[r] = t /\ \A q \in RlRequests : q # r => g[q] = f[q] BY DEF RlRequests

\* What a step of a task makes of it: the rest of the record and the other
\* tasks stay. The step goes from one place to another, with what it may do to
\* the mark of a race.
RlMoved(r, from, to, raced) ==
  /\ rlTask' \in [RlRequests -> RlTasks]
  /\ \A q \in RlRequests : q # r => rlTask'[q] = rlTask[q]
  /\ rlTask[r].at = from /\ rlTask'[r].at = to
  /\ (rlTask'[r].raced <=> raced)

RlMarked(r, answered) == (rlTask'[r].answered <=> answered)

LEMMA Moved_RlTaskSends ==
  ASSUME RlTypeOK, NEW r \in RlRequests, RlTaskSends(r)
  PROVE  RlMoved(r, "runs", "runs", rlTask[r].raced) /\ RlMarked(r, TRUE)
<1> DEFINE t == [rlTask[r] EXCEPT !.answered = TRUE]
<1>1. t \in RlTasks /\ (t.at = rlTask[r].at) /\ (t.helper = rlTask[r].helper) /\ (t.answered <=> (TRUE)) /\ (t.raced <=> rlTask[r].raced) /\ (t.sink = rlTask[r].sink)
  BY RlAssumption DEF RlTypeOK, RlTasks, RlPlaces, RlWriters
<1>2. rlTask[r].at = "runs" /\ rlTask' = [rlTask EXCEPT ![r] = t] BY DEF RlTypeOK, RlTaskSends, RlRespond
<1> HIDE DEF t
<1> QED BY <1>1, <1>2, RlPut DEF RlTypeOK, RlMoved, RlMarked

LEMMA Moved_await_suspend ==
  ASSUME RlTypeOK, NEW r \in RlRequests, await_suspend(r)
  PROVE  RlMoved(r, "runs", "runs", rlTask[r].raced) /\ RlMarked(r, rlTask[r].answered)
<1> DEFINE t == [rlTask[r] EXCEPT !.helper = "awaited"]
<1>1. t \in RlTasks /\ (t.at = rlTask[r].at) /\ (t.helper = ("awaited")) /\ (t.answered <=> rlTask[r].answered) /\ (t.raced <=> rlTask[r].raced) /\ (t.sink = rlTask[r].sink)
  BY RlAssumption DEF RlTypeOK, RlTasks, RlPlaces, RlWriters
<1>2. rlTask[r].at = "runs" /\ rlTask' = [rlTask EXCEPT ![r] = t] BY DEF RlTypeOK, await_suspend
<1> HIDE DEF t
<1> QED BY <1>1, <1>2, RlPut DEF RlTypeOK, RlMoved, RlMarked

LEMMA Moved_RlTaskReturns ==
  ASSUME RlTypeOK, NEW r \in RlRequests, RlTaskReturns(r)
  PROVE  RlMoved(r, "runs", "done", rlTask[r].raced) /\ RlMarked(r, rlTask[r].answered)
<1> DEFINE t == [rlTask[r] EXCEPT !.at = "done"]
<1>1. t \in RlTasks /\ (t.at = ("done")) /\ (t.helper = rlTask[r].helper) /\ (t.answered <=> rlTask[r].answered) /\ (t.raced <=> rlTask[r].raced) /\ (t.sink = rlTask[r].sink)
  BY RlAssumption DEF RlTypeOK, RlTasks, RlPlaces, RlWriters
<1>2. rlTask[r].at = "runs" /\ rlTask' = [rlTask EXCEPT ![r] = t] BY DEF RlTypeOK, RlTaskReturns, TaskAt
<1> HIDE DEF t
<1> QED BY <1>1, <1>2, RlPut DEF RlTypeOK, RlMoved, RlMarked

LEMMA Moved_unhandled_exception ==
  ASSUME RlTypeOK, NEW r \in RlRequests, unhandled_exception(r)
  PROVE  RlMoved(r, "runs", "throws", rlTask[r].raced) /\ RlMarked(r, rlTask[r].answered)
<1> DEFINE t == [rlTask[r] EXCEPT !.at = "throws"]
<1>1. t \in RlTasks /\ (t.at = ("throws")) /\ (t.helper = rlTask[r].helper) /\ (t.answered <=> rlTask[r].answered) /\ (t.raced <=> rlTask[r].raced) /\ (t.sink = rlTask[r].sink)
  BY RlAssumption DEF RlTypeOK, RlTasks, RlPlaces, RlWriters
<1>2. rlTask[r].at = "runs" /\ rlTask' = [rlTask EXCEPT ![r] = t] BY DEF RlTypeOK, unhandled_exception, TaskAt
<1> HIDE DEF t
<1> QED BY <1>1, <1>2, RlPut DEF RlTypeOK, RlMoved, RlMarked

LEMMA Moved_RlErrorHandler ==
  ASSUME RlTypeOK, NEW r \in RlRequests, RlErrorHandler(r)
  PROVE  RlMoved(r, "sink", "last", rlTask[r].raced) /\ RlMarked(r, rlTask[r].answered)
<1> DEFINE t == [rlTask[r] EXCEPT !.at = "last"]
<1>1. t \in RlTasks /\ (t.at = ("last")) /\ (t.helper = rlTask[r].helper) /\ (t.answered <=> rlTask[r].answered) /\ (t.raced <=> rlTask[r].raced) /\ (t.sink = rlTask[r].sink)
  BY RlAssumption DEF RlTypeOK, RlTasks, RlPlaces, RlWriters
<1>2. rlTask[r].at = "sink" /\ rlTask' = [rlTask EXCEPT ![r] = t] BY DEF RlTypeOK, RlErrorHandler, TaskAt
<1> HIDE DEF t
<1> QED BY <1>1, <1>2, RlPut DEF RlTypeOK, RlMoved, RlMarked

LEMMA Moved_report_500 ==
  ASSUME RlTypeOK, NEW r \in RlRequests, report_500(r)
  PROVE  RlMoved(r, "last", "done", rlTask[r].raced) /\ RlMarked(r, rlTask[r].answered)
<1> DEFINE t == [rlTask[r] EXCEPT !.at = "done"]
<1>1. t \in RlTasks /\ (t.at = ("done")) /\ (t.helper = rlTask[r].helper) /\ (t.answered <=> rlTask[r].answered) /\ (t.raced <=> rlTask[r].raced) /\ (t.sink = rlTask[r].sink)
  BY RlAssumption DEF RlTypeOK, RlTasks, RlPlaces, RlWriters
<1>2. rlTask[r].at = "last" /\ rlTask' = [rlTask EXCEPT ![r] = t] BY DEF RlTypeOK, report_500, TaskAt
<1> HIDE DEF t
<1> QED BY <1>1, <1>2, RlPut DEF RlTypeOK, RlMoved, RlMarked

LEMMA Moved_report_sink ==
  ASSUME RlTypeOK, NEW r \in RlRequests, report_sink(r)
  PROVE  RlMoved(r, "unanswered", IF rlWriter.sink = 0 THEN "last" ELSE "sink", rlTask[r].raced) /\ RlMarked(r, rlTask[r].answered) /\ rlTask'[r].sink = rlWriter.sink
<1> DEFINE t == [rlTask[r] EXCEPT !.sink = rlWriter.sink, !.at = IF rlWriter.sink = 0 THEN "last" ELSE "sink"]
<1>1. t \in RlTasks /\ (t.at = (IF rlWriter.sink = 0 THEN "last" ELSE "sink")) /\ (t.helper = rlTask[r].helper) /\ (t.answered <=> rlTask[r].answered) /\ (t.raced <=> rlTask[r].raced) /\ (t.sink = (rlWriter.sink))
  BY RlAssumption DEF RlTypeOK, RlTasks, RlPlaces, RlWriters
<1>2. rlTask[r].at = "unanswered" /\ rlTask' = [rlTask EXCEPT ![r] = t] BY DEF RlTypeOK, report_sink
<1> HIDE DEF t
<1> QED BY <1>1, <1>2, RlPut DEF RlTypeOK, RlMoved, RlMarked

LEMMA Moved_await_resume ==
  ASSUME RlTypeOK, NEW r \in RlRequests, await_resume(r)
  PROVE  \E to \in {"runs", "throws"} : RlMoved(r, "runs", to, rlTask[r].raced) /\ RlMarked(r, rlTask[r].answered)
<1>0. PICK to \in {"runs", "throws"} : rlTask' = [rlTask EXCEPT ![r].helper = "taken", ![r].at = to]
  BY DEF await_resume
<1> DEFINE t == [rlTask[r] EXCEPT !.helper = "taken", !.at = to]
<1>1. t \in RlTasks /\ t.at = to /\ (t.answered <=> rlTask[r].answered) /\ (t.raced <=> rlTask[r].raced)
  BY DEF RlTypeOK, RlTasks, RlPlaces
<1>2. rlTask[r].at = "runs" /\ rlTask' = [rlTask EXCEPT ![r] = t] BY <1>0 DEF RlTypeOK, await_resume
<1> HIDE DEF t
<1>3. RlMoved(r, "runs", to, rlTask[r].raced) /\ RlMarked(r, rlTask[r].answered)
  BY <1>1, <1>2, RlPut DEF RlTypeOK, RlMoved, RlMarked
<1> QED BY <1>3

LEMMA Moved_report_generation_Reset ==
  ASSUME RlTypeOK, NEW r \in RlRequests, report_generation(r), rlWriter.gen = r, rlConn = "reset"
  PROVE  RlMoved(r, "throws", "compared", TRUE) /\ RlMarked(r, rlTask[r].answered)
<1> DEFINE u == [rlTask[r] EXCEPT !.raced = TRUE]
           t == [u EXCEPT !.at = "compared"]
<1>1. u \in RlTasks /\ (u.answered <=> rlTask[r].answered) /\ u.raced
  <2>1. rlTask[r] \in RlTasks BY DEF RlTypeOK
  <2>2. u \in RlTasks BY <2>1 DEF RlTasks
  <2>3. u.answered <=> rlTask[r].answered BY <2>1 DEF RlTasks
  <2>4. u.raced BY <2>1 DEF RlTasks
  <2> QED BY <2>2, <2>3, <2>4
<1>2. rlTask[r].at = "throws" /\ rlTask' = [rlTask EXCEPT ![r] = [[rlTask[r] EXCEPT !.raced = TRUE] EXCEPT !.at = "compared"]]
  BY DEF RlTypeOK, report_generation
<1>3. rlTask' = [rlTask EXCEPT ![r] = t] BY <1>2
<1> HIDE DEF u
<1>4. t \in RlTasks /\ t.at = "compared" /\ (t.answered <=> u.answered) /\ (t.raced <=> u.raced)
  BY <1>1 DEF RlTasks, RlPlaces
<1> HIDE DEF t
<1> QED BY <1>1, <1>2, <1>3, <1>4, RlPut DEF RlTypeOK, RlMoved, RlMarked

LEMMA Moved_report_generation ==
  ASSUME RlTypeOK, NEW r \in RlRequests, report_generation(r), rlWriter.gen = r, rlConn # "reset"
  PROVE  RlMoved(r, "throws", "compared", FALSE) /\ RlMarked(r, rlTask[r].answered)
<1> DEFINE u == [rlTask[r] EXCEPT !.raced = FALSE]
           t == [u EXCEPT !.at = "compared"]
<1>1. u \in RlTasks /\ (u.answered <=> rlTask[r].answered) /\ ~u.raced
  <2>1. rlTask[r] \in RlTasks BY DEF RlTypeOK
  <2>2. u \in RlTasks BY <2>1 DEF RlTasks
  <2>3. u.answered <=> rlTask[r].answered BY <2>1 DEF RlTasks
  <2>4. ~u.raced BY <2>1 DEF RlTasks
  <2> QED BY <2>2, <2>3, <2>4
<1>2. rlTask[r].at = "throws" /\ rlTask' = [rlTask EXCEPT ![r] = [[rlTask[r] EXCEPT !.raced = FALSE] EXCEPT !.at = "compared"]]
  BY DEF RlTypeOK, report_generation
<1>3. rlTask' = [rlTask EXCEPT ![r] = t] BY <1>2
<1> HIDE DEF u
<1>4. t \in RlTasks /\ t.at = "compared" /\ (t.answered <=> u.answered) /\ (t.raced <=> u.raced)
  BY <1>1 DEF RlTasks, RlPlaces
<1> HIDE DEF t
<1> QED BY <1>1, <1>2, <1>3, <1>4, RlPut DEF RlTypeOK, RlMoved, RlMarked

LEMMA Moved_report_generation_Late ==
  ASSUME RlTypeOK, NEW r \in RlRequests, report_generation(r), rlWriter.gen # r
  PROVE  RlMoved(r, "throws", "done", rlTask[r].raced) /\ RlMarked(r, rlTask[r].answered)
<1> DEFINE t == [rlTask[r] EXCEPT !.at = "done"]
<1>1. t \in RlTasks /\ (t.at = ("done")) /\ (t.helper = rlTask[r].helper) /\ (t.answered <=> rlTask[r].answered) /\ (t.raced <=> rlTask[r].raced) /\ (t.sink = rlTask[r].sink)
  BY RlAssumption DEF RlTypeOK, RlTasks, RlPlaces, RlWriters
<1>2. rlTask[r].at = "throws" /\ rlTask' = [rlTask EXCEPT ![r] = t] BY DEF RlTypeOK, report_generation, TaskAt
<1> HIDE DEF t
<1> QED BY <1>1, <1>2, RlPut DEF RlTypeOK, RlMoved, RlMarked

LEMMA Moved_report_responded ==
  ASSUME RlTypeOK, NEW r \in RlRequests, report_responded(r), rlWriter.responded
  PROVE  RlMoved(r, "compared", "done", rlTask[r].raced) /\ RlMarked(r, rlTask[r].answered)
<1> DEFINE t == [rlTask[r] EXCEPT !.at = "done"]
<1>1. t \in RlTasks /\ (t.at = ("done")) /\ (t.helper = rlTask[r].helper) /\ (t.answered <=> rlTask[r].answered) /\ (t.raced <=> rlTask[r].raced) /\ (t.sink = rlTask[r].sink)
  BY RlAssumption DEF RlTypeOK, RlTasks, RlPlaces, RlWriters
<1>2. rlTask[r].at = "compared" /\ rlTask' = [rlTask EXCEPT ![r] = t] BY DEF RlTypeOK, report_responded, TaskAt
<1> HIDE DEF t
<1> QED BY <1>1, <1>2, RlPut DEF RlTypeOK, RlMoved, RlMarked

LEMMA Moved_report_responded_None ==
  ASSUME RlTypeOK, NEW r \in RlRequests, report_responded(r), ~rlWriter.responded
  PROVE  RlMoved(r, "compared", "unanswered", rlTask[r].raced) /\ RlMarked(r, rlTask[r].answered)
<1> DEFINE t == [rlTask[r] EXCEPT !.at = "unanswered"]
<1>1. t \in RlTasks /\ (t.at = ("unanswered")) /\ (t.helper = rlTask[r].helper) /\ (t.answered <=> rlTask[r].answered) /\ (t.raced <=> rlTask[r].raced) /\ (t.sink = rlTask[r].sink)
  BY RlAssumption DEF RlTypeOK, RlTasks, RlPlaces, RlWriters
<1>2. rlTask[r].at = "compared" /\ rlTask' = [rlTask EXCEPT ![r] = t] BY DEF RlTypeOK, report_responded, TaskAt
<1> HIDE DEF t
<1> QED BY <1>1, <1>2, RlPut DEF RlTypeOK, RlMoved, RlMarked

LEMMA Moved_promise_type ==
  ASSUME RlTypeOK, RlTurn, RlEach, promise_type
  PROVE  rlWriter.gen \in RlRequests /\ RlMoved(rlWriter.gen, "none", "runs", FALSE) /\ RlMarked(rlWriter.gen, FALSE)
<1> DEFINE t == [rlTask[rlWriter.gen] EXCEPT !.at = "runs"]
<1>0. rlWriter.gen \in RlRequests BY RlAssumption DEF RlTypeOK, RlWriters, RlTurn, RlRequests, promise_type
<1>1. t \in RlTasks /\ t.at = "runs" /\ (t.raced <=> rlTask[rlWriter.gen].raced) /\ (t.answered <=> rlTask[rlWriter.gen].answered)
  BY <1>0 DEF RlTypeOK, RlTasks, RlPlaces
<1>2. RlFresh(rlWriter.gen) BY <1>0 DEF RlEach, RlTurnOf, promise_type
<1>3. rlTask' = [rlTask EXCEPT ![rlWriter.gen] = t] BY <1>0 DEF promise_type, RlTypeOK
<1> HIDE DEF t
<1> QED BY <1>0, <1>1, <1>2, <1>3, RlPut DEF RlTypeOK, RlMoved, RlMarked, RlFresh

LEMMA Moved_wrap_handler ==
  ASSUME RlTypeOK, RlTurn, RlEach, wrap_handler
  PROVE  rlWriter.gen \in RlRequests /\ RlMoved(rlWriter.gen, "none", "done", FALSE) /\ RlMarked(rlWriter.gen, FALSE)
<1> DEFINE t == [rlTask[rlWriter.gen] EXCEPT !.at = "done"]
<1>0. rlWriter.gen \in RlRequests BY RlAssumption DEF RlTypeOK, RlWriters, RlTurn, RlRequests, wrap_handler
<1>1. t \in RlTasks /\ t.at = "done" /\ (t.raced <=> rlTask[rlWriter.gen].raced) /\ (t.answered <=> rlTask[rlWriter.gen].answered)
  BY <1>0 DEF RlTypeOK, RlTasks, RlPlaces
<1>2. RlFresh(rlWriter.gen) BY <1>0 DEF RlEach, RlTurnOf, wrap_handler
<1>3. rlTask' = [rlTask EXCEPT ![rlWriter.gen] = t] BY <1>0 DEF wrap_handler, RlTypeOK
<1> HIDE DEF t
<1> QED BY <1>0, <1>1, <1>2, <1>3, RlPut DEF RlTypeOK, RlMoved, RlMarked, RlFresh

LEMMA Overtaken ==
  ASSUME RlTypeOK, RlOvertake
  PROVE  /\ rlTask' \in [RlRequests -> RlTasks]
         /\ \A q \in RlRequests :
              /\ rlTask'[q].at = rlTask[q].at /\ rlTask'[q].answered = rlTask[q].answered /\ rlTask'[q].sink = rlTask[q].sink
              /\ rlTask'[q].raced <=> (rlTask[q].raced \/ rlTask[q].at \in RlReporting)
<1> DEFINE t(q) == [rlTask[q] EXCEPT !.raced = @ \/ rlTask[q].at \in RlReporting]
<1>1. ASSUME NEW q \in RlRequests
      PROVE  /\ t(q) \in RlTasks
             /\ t(q).at = rlTask[q].at /\ t(q).answered = rlTask[q].answered /\ t(q).sink = rlTask[q].sink
             /\ t(q).raced <=> (rlTask[q].raced \/ rlTask[q].at \in RlReporting) BY DEF RlTypeOK, RlTasks, RlPlaces
<1>3. rlTask' = [q \in RlRequests |-> t(q)] BY DEF RlOvertake, RlReporting
<1> HIDE DEF t
<1> QED BY <1>1, <1>3

\* A request whose coroutine has begun is one the writer has reached.
LEMMA RlBegun ==
  ASSUME RlTypeOK, RlEach, NEW r \in RlRequests, rlTask[r].at # "none"
  PROVE  /\ r <= rlWriter.gen /\ rlWriter.gen \in RlRequests
         /\ r = rlWriter.gen => rlConn \in {"idle", "reset", "serves"}
<1>1. RlTurnOf(r) /\ ~RlFresh(r) BY DEF RlEach, RlFresh
<1>2. rlWriter.gen \in 0 .. RlMaxRequests BY DEF RlTypeOK, RlWriters
<1>3. r <= rlWriter.gen BY <1>1, <1>2, RlAssumption DEF RlTurnOf, RlRequests
<1> QED BY <1>1, <1>2, <1>3, RlAssumption DEF RlTurnOf, RlRequests, RlTypeOK

\* What a step of a task does to the rest.
RlAside(r) ==
  /\ rlWriter' \in RlWriters /\ rlWriter'.gen = rlWriter.gen /\ rlWriter'.sink = rlWriter.sink
  /\ rlWriter.responded => rlWriter'.responded
  /\ rlHeld' \in [RlRequests -> SUBSET {"connection", "task"}]
  /\ \A q \in RlRequests : q # r => rlHeld'[q] = rlHeld[q]
  /\ rlSent' \in [RlRequests -> Nat]
  /\ \A q \in RlRequests : rlSent'[q] = rlSent[q] \/ (q = rlWriter.gen /\ (q = r \/ Stray(q)'))
  /\ rlStray' \subseteq [to : RlRequests, from : RlRequests]
  /\ rlStray \subseteq rlStray'
  /\ \A s \in rlStray' : s \in rlStray \/ (s.from = r /\ r # rlWriter.gen)
  /\ rlConn' = rlConn /\ rlRan' = rlRan /\ rlRunning' = rlRunning

LEMMA RlResponds ==
  ASSUME RlTypeOK, NEW r \in RlRequests, rlWriter.gen \in RlRequests, RlRespond(r), UNCHANGED <<rlConn, rlRan, rlRunning>>,
         rlHeld' = rlHeld \/ FreeTask(r)
  PROVE  /\ RlAside(r) /\ rlWriter'.responded
         /\ rlSent'[rlWriter.gen] \in {rlSent[rlWriter.gen], rlSent[rlWriter.gen] + 1}
         /\ r = rlWriter.gen => rlStray' = rlStray
<1>1. rlWriter' \in RlWriters /\ rlWriter'.gen = rlWriter.gen /\ rlWriter'.sink = rlWriter.sink
  BY DEF RlRespond, RlTypeOK, RlWriters
<1>2. rlWriter'.responded BY DEF RlRespond, RlTypeOK, RlWriters
<1>3. rlHeld' \in [RlRequests -> SUBSET {"connection", "task"}] /\ \A q \in RlRequests : q # r => rlHeld'[q] = rlHeld[q]
  BY DEF FreeTask, RlTypeOK
<1>4. /\ rlSent' \in [RlRequests -> Nat] /\ \A q \in RlRequests : q # rlWriter.gen => rlSent'[q] = rlSent[q]
      /\ rlSent'[rlWriter.gen] \in {rlSent[rlWriter.gen], rlSent[rlWriter.gen] + 1}
  <2>1. CASE rlSent' = rlSent BY <2>1 DEF RlTypeOK
  <2>2. CASE rlSent' = [rlSent EXCEPT ![rlWriter.gen] = @ + 1] BY <2>2 DEF RlTypeOK
  <2> QED BY <2>1, <2>2 DEF RlRespond
<1>5. CASE r = rlWriter.gen
  <2>1. rlStray' = rlStray BY <1>5 DEF RlRespond
  <2> QED BY <1>1, <1>2, <1>3, <1>4, <1>5, <2>1 DEF RlTypeOK, RlAside
<1>6. CASE r # rlWriter.gen
  <2> DEFINE s == [to |-> rlWriter.gen, from |-> r]
  <2>1. rlStray' = rlStray \cup {s} BY <1>6 DEF RlRespond
  <2>2. s \in [to : RlRequests, from : RlRequests] /\ s.to = rlWriter.gen /\ s.from = r OBVIOUS
  <2> HIDE DEF s
  <2>3. Stray(rlWriter.gen)' BY <1>1, <2>1, <2>2 DEF Stray
  <2> QED BY <1>1, <1>2, <1>3, <1>4, <1>6, <2>1, <2>2, <2>3 DEF RlTypeOK, RlAside
<1> QED BY <1>5, <1>6

LEMMA RlQuiet ==
  ASSUME RlTypeOK, NEW r \in RlRequests, UNCHANGED <<rlWriter, rlConn, rlRan, rlRunning, rlSent, rlStray>>,
         rlHeld' = rlHeld \/ FreeTask(r)
  PROVE  RlAside(r)
<1>1. rlHeld' \in [RlRequests -> SUBSET {"connection", "task"}] /\ \A q \in RlRequests : q # r => rlHeld'[q] = rlHeld[q]
  BY DEF FreeTask, RlTypeOK
<1> QED BY <1>1 DEF RlAside, RlTypeOK

\* A step of one task keeps what is said of the connection and of the other
\* requests; a response to another's request is one of a report that was
\* overtaken.
LEMMA RlTaskStep ==
  ASSUME RlInv, NEW r \in RlRequests, NEW from, NEW to, NEW raced, from # "none",
         RlMoved(r, from, to, raced), RlAside(r), rlTask[r].raced => raced,
         r = rlWriter.gen \/ rlStray' = rlStray \/ raced
  PROVE  /\ RlTypeOK' /\ RlTurn' /\ RlStrays'
         /\ \A q \in RlRequests : q # r => RlTurnOf(q)' /\ RlReportOf(q)' /\ RlCountedOf(q)'
         /\ RlTurnOf(r)'
<1>1. RlTypeOK' BY DEF RlInv, RlTypeOK, RlMoved, RlAside
<1>2. RlTurn' BY DEF RlInv, RlTurn, RlAside
<1>3. RlStrays' BY DEF RlInv, RlStrays, RlMoved, RlAside, RlTypeOK
<1>4. RlTurnOf(r)'
  <2>1. rlTask[r].at # "none" BY DEF RlMoved
  <2>2. r <= rlWriter.gen /\ (r = rlWriter.gen => rlConn \in {"idle", "reset", "serves"}) BY <2>1, RlBegun DEF RlInv
  <2>3. rlWriter'.gen = rlWriter.gen /\ rlConn' = rlConn /\ rlWriter.gen \in Nat
    BY RlAssumption DEF RlAside, RlInv, RlTypeOK, RlWriters
  <2> QED BY <2>2, <2>3 DEF RlTurnOf, RlRequests
<1>5. ASSUME NEW q \in RlRequests, q # r PROVE RlTurnOf(q)' /\ RlReportOf(q)' /\ RlCountedOf(q)'
  <2>1. rlTask'[q] = rlTask[q] /\ rlHeld'[q] = rlHeld[q] /\ rlConn' = rlConn /\ rlWriter'.gen = rlWriter.gen
    BY <1>5 DEF RlMoved, RlAside
  <2>2. RlTurnOf(q) /\ RlReportOf(q) /\ RlCountedOf(q) BY DEF RlInv, RlEach
  <2>3. RlTurnOf(q)' /\ RlReportOf(q)' BY <2>1, <2>2 DEF RlTurnOf, RlFresh, RlReportOf
  <2>4. CASE Stray(q) \/ Stray(q)' BY <2>4, <2>3 DEF RlCountedOf, Stray, RlAside
  <2>5. CASE ~Stray(q) /\ ~Stray(q)'
    <3>1. rlSent'[q] = rlSent[q] BY <1>5, <2>5 DEF RlAside
    <3>2. (rlTask[q].raced \/ RlCount(q)) => (rlTask'[q].raced \/ RlCount(q)') BY <2>1, <3>1 DEF RlCount, RlAside
    <3> QED BY <2>2, <2>3, <2>5, <3>2 DEF RlCountedOf
  <2> QED BY <2>4, <2>5
<1> QED BY <1>1, <1>2, <1>3, <1>4, <1>5

LEMMA Keeps_await_suspend ==
  ASSUME RlInv, NEW r \in RlRequests, await_suspend(r)
  PROVE  RlTypeOK' /\ RlTurn' /\ RlStrays' /\ RlEach'
<1>1. RlAside(r) /\ rlSent' = rlSent /\ rlStray' = rlStray /\ rlWriter' = rlWriter
  <2>1. rlHeld' = rlHeld \/ FreeTask(r) BY DEF await_suspend
  <2> QED BY <2>1, RlQuiet DEF await_suspend, RlInv
<1>2. rlTask[r].at = "runs" /\ rlTask[r].at # "none" BY DEF await_suspend, TaskAt
<1>3. r <= rlWriter.gen /\ (r = rlWriter.gen => rlConn \in {"idle", "reset", "serves"}) /\ rlWriter.gen \in RlRequests
  BY <1>2, RlBegun DEF RlInv
<1>4. RlReportOf(r) /\ RlCountedOf(r) /\ rlSent[r] \in Nat /\ RlTurn BY DEF RlInv, RlEach, RlTypeOK
<1>5. RlTypeOK' /\ RlTurn' /\ RlStrays' /\ RlEach'
  <2>1. RlMoved(r, "runs", "runs", rlTask[r].raced) /\ RlMarked(r, rlTask[r].answered)
    BY Moved_await_suspend DEF RlInv
  <2>2. /\ RlTypeOK' /\ RlTurn' /\ RlStrays'
        /\ \A q \in RlRequests : q # r => RlTurnOf(q)' /\ RlReportOf(q)' /\ RlCountedOf(q)'
        /\ RlTurnOf(r)' BY <1>1, <1>2, <1>4, <2>1, RlTaskStep DEF RlReportOf
  <2>3. RlReportOf(r)'
    BY <1>1, <1>2, <1>3, <1>4, <2>1 DEF RlMoved, RlReportOf, RlReporting, RlAside, RlTurn, await_suspend
  <2>4. RlCountedOf(r)'
    BY <1>1, <1>2, <1>3, <1>4, <2>1 DEF RlMoved, RlMarked, RlReportOf, RlReporting, RlCountedOf, RlCount, Stray, await_suspend
  <2> QED BY <2>2, <2>3, <2>4 DEF RlEach
<1> QED BY <1>5

LEMMA Keeps_RlTaskReturns ==
  ASSUME RlInv, NEW r \in RlRequests, RlTaskReturns(r)
  PROVE  RlTypeOK' /\ RlTurn' /\ RlStrays' /\ RlEach'
<1>1. RlAside(r) /\ rlSent' = rlSent /\ rlStray' = rlStray /\ rlWriter' = rlWriter
  <2>1. rlHeld' = rlHeld \/ FreeTask(r) BY DEF RlTaskReturns
  <2> QED BY <2>1, RlQuiet DEF RlTaskReturns, RlInv
<1>2. rlTask[r].at = "runs" /\ rlTask[r].at # "none" BY DEF RlTaskReturns, TaskAt
<1>3. r <= rlWriter.gen /\ (r = rlWriter.gen => rlConn \in {"idle", "reset", "serves"}) /\ rlWriter.gen \in RlRequests
  BY <1>2, RlBegun DEF RlInv
<1>4. RlReportOf(r) /\ RlCountedOf(r) /\ rlSent[r] \in Nat /\ RlTurn BY DEF RlInv, RlEach, RlTypeOK
<1>5. RlTypeOK' /\ RlTurn' /\ RlStrays' /\ RlEach'
  <2>1. RlMoved(r, "runs", "done", rlTask[r].raced) /\ RlMarked(r, rlTask[r].answered)
    BY Moved_RlTaskReturns DEF RlInv
  <2>2. /\ RlTypeOK' /\ RlTurn' /\ RlStrays'
        /\ \A q \in RlRequests : q # r => RlTurnOf(q)' /\ RlReportOf(q)' /\ RlCountedOf(q)'
        /\ RlTurnOf(r)' BY <1>1, <1>2, <1>4, <2>1, RlTaskStep DEF RlReportOf
  <2>3. RlReportOf(r)'
    BY <1>1, <1>2, <1>3, <1>4, <2>1 DEF RlMoved, RlReportOf, RlReporting, RlAside, RlTurn, RlTaskReturns
  <2>4. RlCountedOf(r)'
    BY <1>1, <1>2, <1>3, <1>4, <2>1 DEF RlMoved, RlMarked, RlReportOf, RlReporting, RlCountedOf, RlCount, Stray, RlTaskReturns
  <2> QED BY <2>2, <2>3, <2>4 DEF RlEach
<1> QED BY <1>5

LEMMA Keeps_unhandled_exception ==
  ASSUME RlInv, NEW r \in RlRequests, unhandled_exception(r)
  PROVE  RlTypeOK' /\ RlTurn' /\ RlStrays' /\ RlEach'
<1>1. RlAside(r) /\ rlSent' = rlSent /\ rlStray' = rlStray /\ rlWriter' = rlWriter
  <2>1. rlHeld' = rlHeld \/ FreeTask(r) BY DEF unhandled_exception
  <2> QED BY <2>1, RlQuiet DEF unhandled_exception, RlInv
<1>2. rlTask[r].at = "runs" /\ rlTask[r].at # "none" BY DEF unhandled_exception, TaskAt
<1>3. r <= rlWriter.gen /\ (r = rlWriter.gen => rlConn \in {"idle", "reset", "serves"}) /\ rlWriter.gen \in RlRequests
  BY <1>2, RlBegun DEF RlInv
<1>4. RlReportOf(r) /\ RlCountedOf(r) /\ rlSent[r] \in Nat /\ RlTurn BY DEF RlInv, RlEach, RlTypeOK
<1>5. RlTypeOK' /\ RlTurn' /\ RlStrays' /\ RlEach'
  <2>1. RlMoved(r, "runs", "throws", rlTask[r].raced) /\ RlMarked(r, rlTask[r].answered)
    BY Moved_unhandled_exception DEF RlInv
  <2>2. /\ RlTypeOK' /\ RlTurn' /\ RlStrays'
        /\ \A q \in RlRequests : q # r => RlTurnOf(q)' /\ RlReportOf(q)' /\ RlCountedOf(q)'
        /\ RlTurnOf(r)' BY <1>1, <1>2, <1>4, <2>1, RlTaskStep DEF RlReportOf
  <2>3. RlReportOf(r)'
    BY <1>1, <1>2, <1>3, <1>4, <2>1 DEF RlMoved, RlReportOf, RlReporting, RlAside, RlTurn, unhandled_exception
  <2>4. RlCountedOf(r)'
    BY <1>1, <1>2, <1>3, <1>4, <2>1 DEF RlMoved, RlMarked, RlReportOf, RlReporting, RlCountedOf, RlCount, Stray, unhandled_exception
  <2> QED BY <2>2, <2>3, <2>4 DEF RlEach
<1> QED BY <1>5

LEMMA Keeps_report_generation ==
  ASSUME RlInv, NEW r \in RlRequests, report_generation(r)
  PROVE  RlTypeOK' /\ RlTurn' /\ RlStrays' /\ RlEach'
<1>1. RlAside(r) /\ rlSent' = rlSent /\ rlStray' = rlStray /\ rlWriter' = rlWriter
  <2>1. rlHeld' = rlHeld \/ FreeTask(r) BY DEF report_generation
  <2> QED BY <2>1, RlQuiet DEF report_generation, RlInv
<1>2. rlTask[r].at = "throws" /\ rlTask[r].at # "none" BY DEF report_generation, TaskAt
<1>3. r <= rlWriter.gen /\ (r = rlWriter.gen => rlConn \in {"idle", "reset", "serves"}) /\ rlWriter.gen \in RlRequests
  BY <1>2, RlBegun DEF RlInv
<1>4. RlReportOf(r) /\ RlCountedOf(r) /\ rlSent[r] \in Nat /\ RlTurn BY DEF RlInv, RlEach, RlTypeOK
<1>5. CASE rlWriter.gen = r /\ rlConn = "reset"
  <2>1. RlMoved(r, "throws", "compared", TRUE) /\ RlMarked(r, rlTask[r].answered)
    BY <1>5, Moved_report_generation_Reset DEF RlInv
  <2>2. /\ RlTypeOK' /\ RlTurn' /\ RlStrays'
        /\ \A q \in RlRequests : q # r => RlTurnOf(q)' /\ RlReportOf(q)' /\ RlCountedOf(q)'
        /\ RlTurnOf(r)' BY <1>5, <1>1, <1>2, <1>4, <2>1, RlTaskStep DEF RlReportOf
  <2>3. RlReportOf(r)'
    BY <1>5, <1>1, <1>2, <1>3, <1>4, <2>1 DEF RlMoved, RlReportOf, RlReporting, RlAside, RlTurn, report_generation
  <2>4. RlCountedOf(r)'
    BY <1>5, <1>1, <1>2, <1>3, <1>4, <2>1 DEF RlMoved, RlMarked, RlReportOf, RlReporting, RlCountedOf, RlCount, Stray, report_generation
  <2> QED BY <2>2, <2>3, <2>4 DEF RlEach
<1>6. CASE rlWriter.gen = r /\ rlConn # "reset"
  <2>1. RlMoved(r, "throws", "compared", FALSE) /\ RlMarked(r, rlTask[r].answered)
    BY <1>6, Moved_report_generation DEF RlInv
  <2>2. /\ RlTypeOK' /\ RlTurn' /\ RlStrays'
        /\ \A q \in RlRequests : q # r => RlTurnOf(q)' /\ RlReportOf(q)' /\ RlCountedOf(q)'
        /\ RlTurnOf(r)' BY <1>6, <1>1, <1>2, <1>4, <2>1, RlTaskStep DEF RlReportOf
  <2>3. RlReportOf(r)'
    BY <1>6, <1>1, <1>2, <1>3, <1>4, <2>1 DEF RlMoved, RlReportOf, RlReporting, RlAside, RlTurn, report_generation
  <2>4. RlCountedOf(r)'
    BY <1>6, <1>1, <1>2, <1>3, <1>4, <2>1 DEF RlMoved, RlMarked, RlReportOf, RlReporting, RlCountedOf, RlCount, Stray, report_generation
  <2> QED BY <2>2, <2>3, <2>4 DEF RlEach
<1>7. CASE rlWriter.gen # r
  <2>1. RlMoved(r, "throws", "done", rlTask[r].raced) /\ RlMarked(r, rlTask[r].answered)
    BY <1>7, Moved_report_generation_Late DEF RlInv
  <2>2. /\ RlTypeOK' /\ RlTurn' /\ RlStrays'
        /\ \A q \in RlRequests : q # r => RlTurnOf(q)' /\ RlReportOf(q)' /\ RlCountedOf(q)'
        /\ RlTurnOf(r)' BY <1>7, <1>1, <1>2, <1>4, <2>1, RlTaskStep DEF RlReportOf
  <2>3. RlReportOf(r)'
    BY <1>7, <1>1, <1>2, <1>3, <1>4, <2>1 DEF RlMoved, RlReportOf, RlReporting, RlAside, RlTurn, report_generation
  <2>4. RlCountedOf(r)'
    BY <1>7, <1>1, <1>2, <1>3, <1>4, <2>1 DEF RlMoved, RlMarked, RlReportOf, RlReporting, RlCountedOf, RlCount, Stray, report_generation
  <2> QED BY <2>2, <2>3, <2>4 DEF RlEach
<1> QED BY <1>5, <1>6, <1>7

LEMMA Keeps_report_responded ==
  ASSUME RlInv, NEW r \in RlRequests, report_responded(r)
  PROVE  RlTypeOK' /\ RlTurn' /\ RlStrays' /\ RlEach'
<1>1. RlAside(r) /\ rlSent' = rlSent /\ rlStray' = rlStray /\ rlWriter' = rlWriter
  <2>1. rlHeld' = rlHeld \/ FreeTask(r) BY DEF report_responded
  <2> QED BY <2>1, RlQuiet DEF report_responded, RlInv
<1>2. rlTask[r].at = "compared" /\ rlTask[r].at # "none" BY DEF report_responded, TaskAt
<1>3. r <= rlWriter.gen /\ (r = rlWriter.gen => rlConn \in {"idle", "reset", "serves"}) /\ rlWriter.gen \in RlRequests
  BY <1>2, RlBegun DEF RlInv
<1>4. RlReportOf(r) /\ RlCountedOf(r) /\ rlSent[r] \in Nat /\ RlTurn BY DEF RlInv, RlEach, RlTypeOK
<1>5. CASE rlWriter.responded
  <2>1. RlMoved(r, "compared", "done", rlTask[r].raced) /\ RlMarked(r, rlTask[r].answered)
    BY <1>5, Moved_report_responded DEF RlInv
  <2>2. /\ RlTypeOK' /\ RlTurn' /\ RlStrays'
        /\ \A q \in RlRequests : q # r => RlTurnOf(q)' /\ RlReportOf(q)' /\ RlCountedOf(q)'
        /\ RlTurnOf(r)' BY <1>5, <1>1, <1>2, <1>4, <2>1, RlTaskStep DEF RlReportOf
  <2>3. RlReportOf(r)'
    BY <1>5, <1>1, <1>2, <1>3, <1>4, <2>1 DEF RlMoved, RlReportOf, RlReporting, RlAside, RlTurn, report_responded
  <2>4. RlCountedOf(r)'
    BY <1>5, <1>1, <1>2, <1>3, <1>4, <2>1 DEF RlMoved, RlMarked, RlReportOf, RlReporting, RlCountedOf, RlCount, Stray, report_responded
  <2> QED BY <2>2, <2>3, <2>4 DEF RlEach
<1>6. CASE ~rlWriter.responded
  <2>1. RlMoved(r, "compared", "unanswered", rlTask[r].raced) /\ RlMarked(r, rlTask[r].answered)
    BY <1>6, Moved_report_responded_None DEF RlInv
  <2>2. /\ RlTypeOK' /\ RlTurn' /\ RlStrays'
        /\ \A q \in RlRequests : q # r => RlTurnOf(q)' /\ RlReportOf(q)' /\ RlCountedOf(q)'
        /\ RlTurnOf(r)' BY <1>6, <1>1, <1>2, <1>4, <2>1, RlTaskStep DEF RlReportOf
  <2>3. RlReportOf(r)'
    BY <1>6, <1>1, <1>2, <1>3, <1>4, <2>1 DEF RlMoved, RlReportOf, RlReporting, RlAside, RlTurn, report_responded
  <2>4. RlCountedOf(r)'
    BY <1>6, <1>1, <1>2, <1>3, <1>4, <2>1 DEF RlMoved, RlMarked, RlReportOf, RlReporting, RlCountedOf, RlCount, Stray, report_responded
  <2> QED BY <2>2, <2>3, <2>4 DEF RlEach
<1> QED BY <1>5, <1>6

LEMMA Keeps_report_sink ==
  ASSUME RlInv, NEW r \in RlRequests, report_sink(r)
  PROVE  RlTypeOK' /\ RlTurn' /\ RlStrays' /\ RlEach'
<1>1. RlAside(r) /\ rlSent' = rlSent /\ rlStray' = rlStray /\ rlWriter' = rlWriter
  <2>1. rlHeld' = rlHeld \/ FreeTask(r) BY DEF report_sink
  <2> QED BY <2>1, RlQuiet DEF report_sink, RlInv
<1>2. rlTask[r].at = "unanswered" /\ rlTask[r].at # "none" BY DEF report_sink, TaskAt
<1>3. r <= rlWriter.gen /\ (r = rlWriter.gen => rlConn \in {"idle", "reset", "serves"}) /\ rlWriter.gen \in RlRequests
  BY <1>2, RlBegun DEF RlInv
<1>4. RlReportOf(r) /\ RlCountedOf(r) /\ rlSent[r] \in Nat /\ RlTurn BY DEF RlInv, RlEach, RlTypeOK
<1>5. RlTypeOK' /\ RlTurn' /\ RlStrays' /\ RlEach'
  <2>1. RlMoved(r, "unanswered", (IF rlWriter.sink = 0 THEN "last" ELSE "sink"), rlTask[r].raced) /\ RlMarked(r, rlTask[r].answered) /\ rlTask'[r].sink = rlWriter.sink
    BY Moved_report_sink DEF RlInv
  <2>2. /\ RlTypeOK' /\ RlTurn' /\ RlStrays'
        /\ \A q \in RlRequests : q # r => RlTurnOf(q)' /\ RlReportOf(q)' /\ RlCountedOf(q)'
        /\ RlTurnOf(r)' BY <1>1, <1>2, <1>4, <2>1, RlTaskStep DEF RlReportOf
  <2>3. RlReportOf(r)'
    BY <1>1, <1>2, <1>3, <1>4, <2>1 DEF RlMoved, RlReportOf, RlReporting, RlAside, RlTurn, report_sink
  <2>4. RlCountedOf(r)'
    BY <1>1, <1>2, <1>3, <1>4, <2>1 DEF RlMoved, RlMarked, RlReportOf, RlReporting, RlCountedOf, RlCount, Stray, report_sink
  <2> QED BY <2>2, <2>3, <2>4 DEF RlEach
<1> QED BY <1>5

LEMMA Keeps_await_resume ==
  ASSUME RlInv, NEW r \in RlRequests, await_resume(r)
  PROVE  RlTypeOK' /\ RlTurn' /\ RlStrays' /\ RlEach'
<1>1. RlAside(r) /\ rlSent' = rlSent /\ rlStray' = rlStray /\ rlWriter' = rlWriter BY RlQuiet DEF await_resume, RlInv
<1>2. PICK to \in {"runs", "throws"} : RlMoved(r, "runs", to, rlTask[r].raced) /\ RlMarked(r, rlTask[r].answered)
  BY Moved_await_resume DEF RlInv
<1>3. RlReportOf(r) /\ RlCountedOf(r) BY DEF RlInv, RlEach
<1>4. /\ RlTypeOK' /\ RlTurn' /\ RlStrays'
      /\ \A q \in RlRequests : q # r => RlTurnOf(q)' /\ RlReportOf(q)' /\ RlCountedOf(q)'
      /\ RlTurnOf(r)' BY <1>1, <1>2, RlTaskStep
<1>5. RlReportOf(r)' BY <1>1, <1>2, <1>3 DEF RlMoved, RlReportOf, RlReporting, await_resume
<1>6. RlCountedOf(r)'
  BY <1>1, <1>2, <1>3 DEF RlMoved, RlMarked, RlReportOf, RlReporting, RlCountedOf, RlCount, Stray, await_resume
<1> QED BY <1>4, <1>5, <1>6 DEF RlEach

LEMMA Keeps_RlTaskSends ==
  ASSUME RlInv, NEW r \in RlRequests, RlTaskSends(r)
  PROVE  RlTypeOK' /\ RlTurn' /\ RlStrays' /\ RlEach'
<1>1. rlWriter.gen = r /\ rlTask[r].at = "runs" /\ ~rlTask[r].answered BY DEF RlTaskSends
<1>2. RlAside(r) /\ rlWriter'.responded /\ rlStray' = rlStray /\ rlSent'[r] \in {rlSent[r], rlSent[r] + 1}
  BY <1>1, RlResponds DEF RlTaskSends, RlInv
<1>3. RlMoved(r, "runs", "runs", rlTask[r].raced) /\ RlMarked(r, TRUE) BY Moved_RlTaskSends DEF RlInv
<1>4. RlReportOf(r) /\ RlCountedOf(r) /\ rlSent[r] \in Nat BY DEF RlInv, RlEach, RlTypeOK
<1>5. /\ RlTypeOK' /\ RlTurn' /\ RlStrays'
      /\ \A q \in RlRequests : q # r => RlTurnOf(q)' /\ RlReportOf(q)' /\ RlCountedOf(q)'
      /\ RlTurnOf(r)' BY <1>1, <1>2, <1>3, RlTaskStep
<1>6. RlReportOf(r)' BY <1>1, <1>2, <1>3, <1>4 DEF RlMoved, RlReportOf, RlReporting, RlTaskSends
<1>7. RlCountedOf(r)'
  <2>1. rlTask[r].raced \/ Stray(r) \/ rlSent[r] = 0 BY <1>1, <1>4 DEF RlCountedOf, RlCount
  <2> QED BY <1>1, <1>2, <1>3, <1>4, <2>1 DEF RlMoved, RlMarked, RlCountedOf, RlCount, Stray
<1> QED BY <1>5, <1>6, <1>7 DEF RlEach

LEMMA Keeps_RlErrorHandler ==
  ASSUME RlInv, NEW r \in RlRequests, RlErrorHandler(r)
  PROVE  RlTypeOK' /\ RlTurn' /\ RlStrays' /\ RlEach'
<1>1. RlMoved(r, "sink", "last", rlTask[r].raced) /\ RlMarked(r, rlTask[r].answered) BY Moved_RlErrorHandler DEF RlInv
<1>2. rlTask[r].at = "sink" /\ rlWriter.gen \in RlRequests /\ (rlWriter.gen = r \/ rlTask[r].raced)
  <2>1. rlTask[r].at = "sink" BY <1>1 DEF RlMoved
  <2> QED BY <2>1, RlBegun DEF RlInv, RlEach, RlReportOf, RlReporting
<1>3. RlAside(r) /\ (rlWriter.gen = r => rlStray' = rlStray) /\ rlSent'[r] \in {rlSent[r], rlSent[r] + 1}
      /\ (rlSent'[r] = rlSent[r] + 1 => rlWriter'.responded)
  <2>1. CASE UNCHANGED <<rlWriter, rlSent, rlStray>>
    <3>1. RlAside(r) BY <2>1, RlQuiet DEF RlErrorHandler, RlInv
    <3> QED BY <2>1, <3>1 DEF RlInv, RlTypeOK
  <2>2. CASE RlRespond(r)
    <3>1. /\ RlAside(r) /\ rlWriter'.responded
          /\ rlSent'[rlWriter.gen] \in {rlSent[rlWriter.gen], rlSent[rlWriter.gen] + 1}
          /\ r = rlWriter.gen => rlStray' = rlStray BY <1>2, <2>2, RlResponds DEF RlErrorHandler, RlInv
    <3> QED BY <3>1 DEF RlAside
  <2> QED BY <2>1, <2>2 DEF RlErrorHandler
<1>4. RlReportOf(r) /\ RlCountedOf(r) /\ rlSent[r] \in Nat BY DEF RlInv, RlEach, RlTypeOK
<1>5. /\ RlTypeOK' /\ RlTurn' /\ RlStrays'
      /\ \A q \in RlRequests : q # r => RlTurnOf(q)' /\ RlReportOf(q)' /\ RlCountedOf(q)'
      /\ RlTurnOf(r)' BY <1>1, <1>2, <1>3, RlTaskStep
<1>6. RlReportOf(r)' BY <1>1, <1>2, <1>3, <1>4 DEF RlMoved, RlReportOf, RlReporting, RlAside, RlErrorHandler
<1>7. RlCountedOf(r)'
  <2>1. CASE rlTask[r].raced \/ Stray(r) BY <2>1, <1>1, <1>3 DEF RlMoved, RlCountedOf, Stray, RlAside
  <2>2. CASE ~rlTask[r].raced /\ ~Stray(r)
    <3>1. RlCount(r) /\ rlWriter.gen = r BY <1>2, <1>4, <2>2 DEF RlCountedOf
    <3>2. rlSent'[r] <= 1 BY <1>2, <1>3, <1>4, <3>1 DEF RlCount, RlRespond, RlErrorHandler
    <3> QED BY <1>1, <1>2, <1>3, <1>4, <3>1, <3>2 DEF RlMoved, RlCountedOf, RlCount, RlAside
  <2> QED BY <2>1, <2>2
<1> QED BY <1>5, <1>6, <1>7 DEF RlEach

LEMMA Keeps_report_500 ==
  ASSUME RlInv, NEW r \in RlRequests, report_500(r)
  PROVE  RlTypeOK' /\ RlTurn' /\ RlStrays' /\ RlEach'
<1>1. RlMoved(r, "last", "done", rlTask[r].raced) /\ RlMarked(r, rlTask[r].answered) BY Moved_report_500 DEF RlInv
<1>2. rlTask[r].at = "last" /\ rlWriter.gen \in RlRequests /\ (rlWriter.gen = r \/ rlTask[r].raced)
  <2>1. rlTask[r].at = "last" BY <1>1 DEF RlMoved
  <2> QED BY <2>1, RlBegun DEF RlInv, RlEach, RlReportOf, RlReporting
<1>3. RlAside(r) /\ (rlWriter.gen = r => rlStray' = rlStray) /\ rlSent'[r] \in {rlSent[r], rlSent[r] + 1}
      /\ (rlSent'[r] = rlSent[r] + 1 => rlWriter'.responded)
  <2>1. CASE UNCHANGED <<rlWriter, rlSent, rlStray>>
    <3>1. RlAside(r) BY <2>1, RlQuiet DEF report_500, RlInv
    <3> QED BY <2>1, <3>1 DEF RlInv, RlTypeOK
  <2>2. CASE RlRespond(r)
    <3>1. /\ RlAside(r) /\ rlWriter'.responded
          /\ rlSent'[rlWriter.gen] \in {rlSent[rlWriter.gen], rlSent[rlWriter.gen] + 1}
          /\ r = rlWriter.gen => rlStray' = rlStray BY <1>2, <2>2, RlResponds DEF report_500, RlInv
    <3> QED BY <3>1 DEF RlAside
  <2> QED BY <2>1, <2>2 DEF report_500
<1>4. RlReportOf(r) /\ RlCountedOf(r) /\ rlSent[r] \in Nat BY DEF RlInv, RlEach, RlTypeOK
<1>5. /\ RlTypeOK' /\ RlTurn' /\ RlStrays'
      /\ \A q \in RlRequests : q # r => RlTurnOf(q)' /\ RlReportOf(q)' /\ RlCountedOf(q)'
      /\ RlTurnOf(r)' BY <1>1, <1>2, <1>3, RlTaskStep
<1>6. RlReportOf(r)' BY <1>1, <1>2, <1>3, <1>4 DEF RlMoved, RlReportOf, RlReporting, RlAside, report_500
<1>7. RlCountedOf(r)'
  <2>1. CASE rlTask[r].raced \/ Stray(r) BY <2>1, <1>1, <1>3 DEF RlMoved, RlCountedOf, Stray, RlAside
  <2>2. CASE ~rlTask[r].raced /\ ~Stray(r)
    <3>1. RlCount(r) /\ rlWriter.gen = r BY <1>2, <1>4, <2>2 DEF RlCountedOf
    <3>2. rlSent'[r] <= 1 BY <1>2, <1>3, <1>4, <3>1 DEF RlCount, RlRespond, report_500
    <3> QED BY <1>1, <1>2, <1>3, <1>4, <3>1, <3>2 DEF RlMoved, RlCountedOf, RlCount, RlAside
  <2> QED BY <2>1, <2>2
<1> QED BY <1>5, <1>6, <1>7 DEF RlEach

\* A callback is kept, taken to run, and run.
LEMMA RlCalledOnce ==
  ASSUME RlInv, [RlNext]_rlVars
  PROVE  RlCallbackOnce'
<1>1. CASE reset_responded \/ promise_type \/ wrap_handler \/ RlNextRequest \/ on_close \/ mark_closed
            \/ RlRunCallback
  <2> USE DEF RlInv, RlTypeOK, RlWriters, RlCallbackOnce
  <2>1. CASE reset_responded BY <2>1 DEF reset_responded, RlOvertake
  <2>2. CASE promise_type BY <2>2 DEF promise_type
  <2>3. CASE wrap_handler BY <2>3 DEF wrap_handler
  <2>4. CASE RlNextRequest BY <2>4 DEF RlNextRequest
  <2>5. CASE on_close BY <2>5 DEF on_close, RlNew
  <2>6. CASE mark_closed BY <2>6 DEF mark_closed
  <2>7. CASE RlRunCallback BY <2>7 DEF RlRunCallback
  <2> QED BY <1>1, <2>1, <2>2, <2>3, <2>4, <2>5, <2>6, <2>7
<1>8. ASSUME NEW r \in RlRequests, RlTaskSends(r) \/ await_suspend(r) \/ await_resume(r)
              \/ RlTaskReturns(r) \/ unhandled_exception(r) \/ report_generation(r)
              \/ report_responded(r) \/ report_sink(r) \/ RlErrorHandler(r) \/ report_500(r)
      PROVE  RlCallbackOnce'
  <2> USE DEF RlInv, RlTypeOK, RlWriters, RlCallbackOnce
  <2>1. CASE RlTaskSends(r) BY <2>1 DEF RlTaskSends, RlRespond
  <2>2. CASE await_suspend(r) BY <2>2 DEF await_suspend
  <2>3. CASE await_resume(r) BY <2>3 DEF await_resume
  <2>4. CASE RlTaskReturns(r) BY <2>4 DEF RlTaskReturns, TaskAt, FreeTask
  <2>5. CASE unhandled_exception(r) BY <2>5 DEF unhandled_exception, TaskAt
  <2>6. CASE report_generation(r) BY <2>6 DEF report_generation, TaskAt, FreeTask
  <2>7. CASE report_responded(r) BY <2>7 DEF report_responded, TaskAt, FreeTask
  <2>8. CASE report_sink(r) BY <2>8 DEF report_sink
  <2>9. CASE RlErrorHandler(r) BY <2>9 DEF RlErrorHandler, RlRespond, TaskAt
  <2>10. CASE report_500(r) BY <2>10 DEF report_500, RlRespond, TaskAt, FreeTask
  <2> QED BY <1>8, <2>1, <2>2, <2>3, <2>4, <2>5, <2>6, <2>7, <2>8, <2>9, <2>10
<1>18. CASE UNCHANGED rlVars BY <1>18 DEF rlVars, RlInv, RlTypeOK, RlWriters, RlCallbackOnce
<1> QED
  BY <1>1, <1>8, <1>18 DEF RlNext

LEMMA Keeps_promise_type ==
  ASSUME RlInv, promise_type
  PROVE  RlTypeOK' /\ RlTurn' /\ RlStrays' /\ RlEach'
<1> DEFINE g == rlWriter.gen
<1>1. g \in RlRequests /\ RlMoved(g, "none", "runs", FALSE) /\ RlMarked(g, FALSE) BY Moved_promise_type DEF RlInv
<1>2. rlWriter' \in RlWriters /\ rlWriter'.gen = g /\ rlWriter'.sink = g /\ rlConn = "request" /\ rlConn' = "serves"
      /\ rlStray' = rlStray BY <1>1 DEF promise_type, RlInv, RlTypeOK, RlWriters, RlRequests
<1>3. rlHeld' \in [RlRequests -> SUBSET {"connection", "task"}] /\ \A q \in RlRequests : q # g => rlHeld'[q] = rlHeld[q]
  BY DEF promise_type, RlInv, RlTypeOK
<1>4. /\ rlSent' \in [RlRequests -> Nat] /\ \A q \in RlRequests : q # g => rlSent'[q] = rlSent[q]
      /\ rlSent'[g] \in {rlSent[g], rlSent[g] + 1} BY <1>1 DEF promise_type, RlInv, RlTypeOK
<1>5. RlTurnOf(g) /\ RlReportOf(g) /\ RlCountedOf(g) /\ rlSent[g] \in Nat BY <1>1 DEF RlInv, RlEach, RlTypeOK
<1>6. RlTypeOK' BY <1>1, <1>2, <1>3, <1>4 DEF RlInv, RlTypeOK, RlMoved, promise_type
<1>7. RlTurn' BY <1>1, <1>2, RlAssumption DEF RlTurn, RlRequests
<1>8. RlStrays'
  <2>1. RlFresh(g) BY <1>2, <1>5 DEF RlTurnOf
  <2> QED BY <1>1, <1>2, <2>1 DEF RlInv, RlStrays, RlMoved, RlTypeOK, RlFresh
<1>9. ASSUME NEW q \in RlRequests, q # g PROVE RlTurnOf(q)' /\ RlReportOf(q)' /\ RlCountedOf(q)'
  <2>1. rlTask'[q] = rlTask[q] /\ rlHeld'[q] = rlHeld[q] /\ rlSent'[q] = rlSent[q]
    BY <1>1, <1>3, <1>4, <1>9 DEF RlMoved
  <2>2. RlTurnOf(q) /\ RlReportOf(q) /\ RlCountedOf(q) BY DEF RlInv, RlEach
  <2>3. RlTurnOf(q)' /\ RlReportOf(q)' BY <1>2, <1>9, <2>1, <2>2 DEF RlTurnOf, RlFresh, RlReportOf
  <2>4. RlCountedOf(q)'
    <3>1. CASE rlTask[q].raced \/ Stray(q) BY <1>2, <2>1, <3>1 DEF RlCountedOf, Stray
    <3>2. CASE ~rlTask[q].raced /\ RlCount(q)
      <4>1. rlTask[q].at \notin RlReporting BY <1>2, <2>2, <3>2 DEF RlReportOf
      <4> QED BY <1>2, <1>9, <2>1, <3>2, <4>1 DEF RlCountedOf, RlCount, RlReporting
    <3> QED BY <2>2, <3>1, <3>2 DEF RlCountedOf
  <2> QED BY <2>3, <2>4
<1>10. RlTurnOf(g)' /\ RlReportOf(g)' /\ RlCountedOf(g)'
  <2>1. RlTurnOf(g)' BY <1>1, <1>2 DEF RlTurnOf, RlRequests
  <2>2. RlReportOf(g)' BY <1>1, <1>2 DEF RlReportOf, RlMoved, RlReporting, promise_type, RlInv, RlTypeOK
  <2>3. RlCountedOf(g)'
    <3>1. CASE Stray(g) BY <1>1, <1>2, <3>1 DEF RlCountedOf, Stray
    <3>2. CASE ~Stray(g)
      <4>1. rlTask[g].at = "none" /\ ~rlTask[g].raced BY <1>2, <1>5 DEF RlTurnOf, RlFresh
      <4>2. rlSent[g] = 0 BY <3>2, <4>1, <1>5 DEF RlCountedOf, RlCount
      <4>3. rlSent' = rlSent BY <1>4, <4>2 DEF promise_type
      <4> QED BY <1>1, <1>2, <4>2, <4>3 DEF RlCountedOf, RlCount, RlMoved
    <3> QED BY <3>1, <3>2
  <2> QED BY <2>1, <2>2, <2>3
<1> QED BY <1>2, <1>6, <1>7, <1>8, <1>9, <1>10 DEF RlEach

LEMMA Keeps_wrap_handler ==
  ASSUME RlInv, wrap_handler
  PROVE  RlTypeOK' /\ RlTurn' /\ RlStrays' /\ RlEach'
<1> DEFINE g == rlWriter.gen
<1>1. g \in RlRequests /\ RlMoved(g, "none", "done", FALSE) /\ RlMarked(g, FALSE) BY Moved_wrap_handler DEF RlInv
<1>2. rlWriter' \in RlWriters /\ rlWriter'.gen = g /\ rlWriter'.sink = g /\ rlConn = "request" /\ rlConn' = "serves"
      /\ rlStray' = rlStray BY <1>1 DEF wrap_handler, RlInv, RlTypeOK, RlWriters, RlRequests
<1>3. rlHeld' \in [RlRequests -> SUBSET {"connection", "task"}] /\ \A q \in RlRequests : q # g => rlHeld'[q] = rlHeld[q]
  BY DEF wrap_handler, RlInv, RlTypeOK
<1>4. /\ rlSent' \in [RlRequests -> Nat] /\ \A q \in RlRequests : q # g => rlSent'[q] = rlSent[q]
      /\ rlSent'[g] \in {rlSent[g], rlSent[g] + 1} BY <1>1 DEF wrap_handler, RlInv, RlTypeOK
<1>5. RlTurnOf(g) /\ RlReportOf(g) /\ RlCountedOf(g) /\ rlSent[g] \in Nat BY <1>1 DEF RlInv, RlEach, RlTypeOK
<1>6. RlTypeOK' BY <1>1, <1>2, <1>3, <1>4 DEF RlInv, RlTypeOK, RlMoved, wrap_handler
<1>7. RlTurn' BY <1>1, <1>2, RlAssumption DEF RlTurn, RlRequests
<1>8. RlStrays'
  <2>1. RlFresh(g) BY <1>2, <1>5 DEF RlTurnOf
  <2> QED BY <1>1, <1>2, <2>1 DEF RlInv, RlStrays, RlMoved, RlTypeOK, RlFresh
<1>9. ASSUME NEW q \in RlRequests, q # g PROVE RlTurnOf(q)' /\ RlReportOf(q)' /\ RlCountedOf(q)'
  <2>1. rlTask'[q] = rlTask[q] /\ rlHeld'[q] = rlHeld[q] /\ rlSent'[q] = rlSent[q]
    BY <1>1, <1>3, <1>4, <1>9 DEF RlMoved
  <2>2. RlTurnOf(q) /\ RlReportOf(q) /\ RlCountedOf(q) BY DEF RlInv, RlEach
  <2>3. RlTurnOf(q)' /\ RlReportOf(q)' BY <1>2, <1>9, <2>1, <2>2 DEF RlTurnOf, RlFresh, RlReportOf
  <2>4. RlCountedOf(q)'
    <3>1. CASE rlTask[q].raced \/ Stray(q) BY <1>2, <2>1, <3>1 DEF RlCountedOf, Stray
    <3>2. CASE ~rlTask[q].raced /\ RlCount(q)
      <4>1. rlTask[q].at \notin RlReporting BY <1>2, <2>2, <3>2 DEF RlReportOf
      <4> QED BY <1>2, <1>9, <2>1, <3>2, <4>1 DEF RlCountedOf, RlCount, RlReporting
    <3> QED BY <2>2, <3>1, <3>2 DEF RlCountedOf
  <2> QED BY <2>3, <2>4
<1>10. RlTurnOf(g)' /\ RlReportOf(g)' /\ RlCountedOf(g)'
  <2>1. RlTurnOf(g)' BY <1>1, <1>2 DEF RlTurnOf, RlRequests
  <2>2. RlReportOf(g)' BY <1>1, <1>2 DEF RlReportOf, RlMoved, RlReporting, wrap_handler, RlInv, RlTypeOK
  <2>3. RlCountedOf(g)'
    <3>1. CASE Stray(g) BY <1>1, <1>2, <3>1 DEF RlCountedOf, Stray
    <3>2. CASE ~Stray(g)
      <4>1. rlTask[g].at = "none" /\ ~rlTask[g].raced BY <1>2, <1>5 DEF RlTurnOf, RlFresh
      <4>2. rlSent[g] = 0 BY <3>2, <4>1, <1>5 DEF RlCountedOf, RlCount
      <4>3. rlSent'[g] <= 1 BY <1>4, <4>2 DEF wrap_handler
      <4> QED BY <1>1, <1>2, <4>2, <4>3 DEF RlCountedOf, RlCount, RlMoved
    <3> QED BY <3>1, <3>2
  <2> QED BY <2>1, <2>2, <2>3
<1> QED BY <1>2, <1>6, <1>7, <1>8, <1>9, <1>10 DEF RlEach

LEMMA Keeps_reset_responded ==
  ASSUME RlInv, reset_responded
  PROVE  RlTypeOK' /\ RlTurn' /\ RlStrays' /\ RlEach'
<1>1. rlHeld' = rlHeld /\ rlSent' = rlSent /\ rlStray' = rlStray /\ rlRan' = rlRan /\ rlRunning' = rlRunning
  BY DEF reset_responded
<1>2. \A q \in RlRequests : RlTurnOf(q) /\ RlReportOf(q) /\ RlCountedOf(q) BY DEF RlInv, RlEach
<1>3. rlWriter \in RlWriters /\ rlWriter.gen \in Nat BY RlAssumption DEF RlInv, RlTypeOK, RlWriters
<1>4. CASE rlConn \in {"idle", "reset"}
  <2>1. /\ rlTask' \in [RlRequests -> RlTasks]
        /\ \A q \in RlRequests :
             /\ rlTask'[q].at = rlTask[q].at /\ rlTask'[q].answered = rlTask[q].answered /\ rlTask'[q].sink = rlTask[q].sink
             /\ rlTask'[q].raced <=> (rlTask[q].raced \/ rlTask[q].at \in RlReporting)
    BY <1>4, Overtaken DEF reset_responded, RlInv
  <2>2. /\ rlWriter' \in RlWriters /\ rlConn' \in {"reset", "generation"}
        /\ rlConn' = "reset" => rlWriter'.gen = rlWriter.gen /\ rlWriter'.sink = rlWriter.sink /\ rlConn = "idle" /\ rlWriter.gen < RlMaxRequests
        /\ rlConn' = "generation" => rlWriter'.gen = rlWriter.gen + 1 /\ rlConn = "reset"
    <3>1. CASE rlConn = "idle" BY <1>3, <3>1 DEF reset_responded, RlWriters
    <3>2. CASE rlConn = "reset"
      <4>1. rlWriter.gen + 1 \in 0 .. RlMaxRequests /\ rlWriter' = [rlWriter EXCEPT !.gen = rlWriter.gen + 1] /\ rlConn' = "generation"
        BY <1>3, <3>2, RlAssumption DEF RlInv, RlTurn, reset_responded, RlWriters
      <4> QED BY <1>3, <3>2, <4>1 DEF RlWriters
    <3> QED BY <1>4, <3>1, <3>2
  <2>3. RlTypeOK' BY <1>1, <2>1, <2>2 DEF RlInv, RlTypeOK
  <2>4. RlTurn' BY <1>3, <2>2 DEF RlInv, RlTurn
  <2>5. RlStrays' BY <1>1, <2>1 DEF RlInv, RlStrays, RlTypeOK
  <2>6. ASSUME NEW q \in RlRequests PROVE RlTurnOf(q)' /\ RlReportOf(q)' /\ RlCountedOf(q)'
    <3>1. RlFresh(q) => RlFresh(q)' BY <2>1 DEF RlFresh, RlReporting
    <3>2. RlTurnOf(q)' BY <1>2, <1>3, <2>2, <3>1, RlAssumption DEF RlTurnOf, RlRequests
    <3>3. RlReportOf(q)' BY <1>1, <1>2, <2>1 DEF RlReportOf, RlReporting
    <3>4. RlCountedOf(q)'
      <4>1. CASE rlTask[q].raced \/ rlTask[q].at \in RlReporting \/ Stray(q)
        BY <1>1, <2>1, <4>1 DEF RlCountedOf, Stray
      <4>2. CASE rlTask[q].at \notin RlReporting /\ RlCount(q)
        BY <1>1, <2>1, <2>2, <4>2 DEF RlCountedOf, RlCount, RlReporting
      <4> QED BY <1>2, <4>1, <4>2 DEF RlCountedOf
    <3> QED BY <3>2, <3>3, <3>4
  <2> QED BY <2>3, <2>4, <2>5, <2>6 DEF RlEach
<1>5. CASE rlConn = "generation"
  <2>1. rlTask' = rlTask /\ rlConn' = "request" /\ rlWriter' \in RlWriters /\ rlWriter'.gen = rlWriter.gen
        /\ (rlWriter'.responded <=> rlWriter.responded) BY <1>3, <1>5, RlAssumption DEF reset_responded, RlWriters
  <2>2. RlTypeOK' /\ RlTurn' /\ RlStrays' BY <1>1, <1>5, <2>1 DEF RlInv, RlTypeOK, RlTurn, RlStrays
  <2>3. ASSUME NEW q \in RlRequests PROVE RlTurnOf(q)' /\ RlReportOf(q)' /\ RlCountedOf(q)'
    <3>1. RlTurnOf(q)' /\ RlReportOf(q)' BY <1>1, <1>2, <1>5, <2>1 DEF RlTurnOf, RlFresh, RlReportOf
    <3>2. RlCountedOf(q)'
      <4>1. RlReportOf(q) /\ RlCountedOf(q) BY <1>2
      <4> QED BY <1>1, <1>5, <2>1, <4>1 DEF RlCountedOf, RlCount, RlReportOf, RlReporting, Stray
    <3> QED BY <3>1, <3>2
  <2> QED BY <2>2, <2>3 DEF RlEach
<1> QED BY <1>4, <1>5 DEF reset_responded

LEMMA Keeps_RlNextRequest ==
  ASSUME RlInv, RlNextRequest
  PROVE  RlTypeOK' /\ RlTurn' /\ RlStrays' /\ RlEach'
<1>1. rlWriter' = rlWriter /\ rlTask' = rlTask /\ rlSent' = rlSent /\ rlStray' = rlStray /\ rlConn = "serves" /\ rlConn' = "idle"
  BY DEF RlNextRequest
<1>2. rlHeld' \in [RlRequests -> SUBSET {"connection", "task"}] /\ \A q \in RlRequests : "task" \in rlHeld[q] => "task" \in rlHeld'[q]
  BY DEF RlNextRequest, RlInv, RlTypeOK
<1>3. RlTypeOK' /\ RlTurn' /\ RlStrays' BY <1>1, <1>2 DEF RlInv, RlTypeOK, RlTurn, RlStrays, RlNextRequest
<1>4. ASSUME NEW q \in RlRequests PROVE RlTurnOf(q)' /\ RlReportOf(q)' /\ RlCountedOf(q)'
  <2>1. RlTurnOf(q) /\ RlReportOf(q) /\ RlCountedOf(q) BY DEF RlInv, RlEach
  <2>2. RlTurnOf(q)' /\ RlReportOf(q)' BY <1>1, <1>2, <2>1 DEF RlTurnOf, RlFresh, RlReportOf
  <2>3. RlCountedOf(q)' BY <1>1, <2>1 DEF RlCountedOf, RlCount, Stray
  <2> QED BY <2>2, <2>3
<1> QED BY <1>3, <1>4 DEF RlEach

\* Closing and its callbacks leave the requests alone.
LEMMA RlAlone ==
  ASSUME RlInv, UNCHANGED <<rlConn, rlTask, rlHeld, rlSent, rlStray>>, rlWriter' \in RlWriters,
         rlWriter'.gen = rlWriter.gen, rlWriter'.sink = rlWriter.sink, rlWriter'.responded <=> rlWriter.responded,
         rlRan' \in [RlCallbacks -> Nat], rlRunning' \subseteq RlCallbacks
  PROVE  RlTypeOK' /\ RlTurn' /\ RlStrays' /\ RlEach'
<1>1. RlTypeOK' /\ RlTurn' /\ RlStrays' BY DEF RlInv, RlTypeOK, RlTurn, RlStrays
<1>2. ASSUME NEW q \in RlRequests PROVE RlTurnOf(q)' /\ RlReportOf(q)' /\ RlCountedOf(q)'
  <2>1. RlTurnOf(q) /\ RlReportOf(q) /\ RlCountedOf(q) BY DEF RlInv, RlEach
  <2>2. RlTurnOf(q)' /\ RlReportOf(q)' BY <2>1 DEF RlTurnOf, RlFresh, RlReportOf
  <2>3. RlCountedOf(q)' BY <2>1 DEF RlCountedOf, RlCount, Stray
  <2> QED BY <2>2, <2>3
<1> QED BY <1>1, <1>2 DEF RlEach

LEMMA RlStep == ASSUME RlInv, [RlNext]_rlVars PROVE RlInv'
<1> DEFINE Kept == RlTypeOK' /\ RlTurn' /\ RlStrays' /\ RlEach'
<1>1. ASSUME on_close PROVE Kept
  <2>1. rlWriter' \in RlWriters /\ rlWriter'.gen = rlWriter.gen /\ rlWriter'.sink = rlWriter.sink /\ (rlWriter'.responded <=> rlWriter.responded)
    BY <1>1 DEF on_close, RlNew, RlInv, RlTypeOK, RlWriters
  <2>2. rlRan' \in [RlCallbacks -> Nat] /\ rlRunning' \subseteq RlCallbacks
    BY <1>1 DEF on_close, RlNew, RlInv, RlTypeOK
  <2> QED BY <1>1, <2>1, <2>2, RlAlone DEF on_close
<1>2. ASSUME mark_closed PROVE Kept
  <2>1. rlWriter' \in RlWriters /\ rlWriter'.gen = rlWriter.gen /\ rlWriter'.sink = rlWriter.sink /\ (rlWriter'.responded <=> rlWriter.responded)
    BY <1>2 DEF mark_closed, RlInv, RlTypeOK, RlWriters
  <2>2. rlRan' \in [RlCallbacks -> Nat] /\ rlRunning' \subseteq RlCallbacks
    BY <1>2 DEF mark_closed, RlInv, RlTypeOK, RlWriters
  <2> QED BY <1>2, <2>1, <2>2, RlAlone DEF mark_closed
<1>3. ASSUME RlRunCallback PROVE Kept
  <2>1. rlRan' \in [RlCallbacks -> Nat] /\ rlRunning' \subseteq RlCallbacks /\ rlWriter' = rlWriter
    BY <1>3 DEF RlRunCallback, RlInv, RlTypeOK
  <2> QED BY <1>3, <2>1, RlAlone DEF RlRunCallback, RlInv, RlTypeOK
<1>4. ASSUME UNCHANGED rlVars PROVE Kept BY <1>4, RlAlone DEF rlVars, RlInv, RlTypeOK
<1>5. Kept
  BY <1>1, <1>2, <1>3, <1>4, Keeps_reset_responded, Keeps_promise_type, Keeps_wrap_handler, Keeps_RlNextRequest,
     Keeps_RlTaskSends, Keeps_await_suspend, Keeps_await_resume, Keeps_RlTaskReturns, Keeps_unhandled_exception,
     Keeps_report_generation, Keeps_report_responded, Keeps_report_sink, Keeps_RlErrorHandler, Keeps_report_500
     DEF RlNext
<1> QED BY <1>5, RlCalledOnce DEF RlInv

----
\* Timeouts.

CtTable ==
  /\ \A f \in Fds : table[f] # NoConn => ctStage[table[f]] = "open" /\ fdOf[table[f]] = f
  /\ \A c \in Conns : ctStage[c] = "open" => table[fdOf[c]] = c
  /\ \A c, d \in Conns : (ctStage[c] # "none" /\ ctStage[d] # "none" /\ fdOf[c] = fdOf[d]) => c = d

\* Whose a timer is: no two connections remember the same one, one that is
\* live is its connection's last, and one that arms has none.
CtOwned ==
  /\ \A c, d \in Conns : (timer[c] = timer[d] /\ timer[c] # NoId) => c = d
  /\ \A e \in live : ctStage[e.conn] # "none" /\ timer[e.conn] = e.id /\ fdOf[e.conn] = e.fd
  /\ \A c \in arming : timer[c] = NoId /\ ctStage[c] # "none"

\* Until they have fired, the descriptors of expired timers have no new owner.
CtFiring ==
  /\ firing # {} => loop = "fire"
  /\ \A e \in firing, d \in Conns : (ctStage[d] # "none" /\ fdOf[d] = e.fd) => d = e.conn

CtQueued == live \subseteq queue

\* When the loop looks for its next wait no live timer is over, and while it
\* waits none is further past than what it has waited.
CtTime ==
  /\ sleep \in 0 .. Cap
  /\ loop \in {"fire", "next"} => \A e \in live : e.left > 0
  /\ loop = "wait" => \A e \in live : e.left > sleep - Cap
  /\ \A e \in live : e.left > -Cap

CtInv == CtTypeOK /\ CtTable /\ CtOwned /\ CtFiring /\ CtQueued /\ StaysArmed /\ CtTime

LEMMA CtHolds == CtInv => CtTypeOK /\ TimeoutHitsOwner /\ StaysArmed /\ FiresInTime
<1> SUFFICES ASSUME CtInv PROVE TimeoutHitsOwner /\ FiresInTime BY DEF CtInv
<1>1. ASSUME NEW e \in live \cup firing PROVE table[e.fd] \in {e.conn, NoConn}
  <2>1. e \in Entries /\ e.fd \in Fds /\ e.conn \in Conns BY DEF CtInv, CtTypeOK, Entries
  <2> SUFFICES ASSUME table[e.fd] # NoConn PROVE table[e.fd] = e.conn OBVIOUS
  <2>2. table[e.fd] \in Conns /\ ctStage[table[e.fd]] # "none" /\ fdOf[table[e.fd]] = e.fd
    BY <2>1 DEF CtInv, CtTypeOK, CtTable
  <2>3. CASE e \in live BY <2>1, <2>2, <2>3 DEF CtInv, CtOwned, CtTable
  <2>4. CASE e \in firing BY <2>1, <2>2, <2>4 DEF CtInv, CtFiring
  <2> QED BY <2>3, <2>4
<1> QED BY <1>1 DEF CtInv, CtTime, TimeoutHitsOwner, FiresInTime

LEMMA CtStarted == CtInit => CtInv
<1> SUFFICES ASSUME CtInit PROVE CtInv OBVIOUS
<1>1. (CHOOSE f \in Fds : TRUE) \in Fds BY TimersAssumption
<1>2. CtTypeOK BY <1>1 DEF CtInit, CtTypeOK
<1>3. CtTable BY TimersAssumption DEF CtInit, CtTable
<1>4. CtTime BY TimersAssumption DEF CtInit, CtTime
<1> QED BY <1>2, <1>3, <1>4 DEF CtInit, CtInv, CtOwned, CtFiring, CtQueued, StaysArmed

LEMMA CtCompacts == ASSUME NEW a, NEW b, b \subseteq a PROVE b \subseteq Compacted(a, b) /\ Compacted(a, b) \subseteq a
  BY DEF Compacted

\* There is a time until the first of the entries, at most the cap.
LEMMA CtWait == ASSUME NEW q \in SUBSET Entries PROVE WaitFor(q) \in 0 .. Cap
<1> DEFINE Good(t) == /\ t = Cap \/ \E e \in q : e.left <= t
                      /\ \A e \in q : t <= e.left \/ t = 0
<1>0. Cap \in Nat /\ Cap > 0 /\ \A e \in q : e.left \in Int BY TimersAssumption DEF Entries
<1>1. \E t \in 0 .. Cap : Good(t)
  <2>1. CASE \E e \in q : e.left <= 0 BY <2>1, <1>0
  <2>2. CASE \A e \in q : e.left > 0
    <3> DEFINE S == {t \in Nat : t = Cap \/ \E e \in q : e.left = t}
    <3>1. PICK m \in S : \A n \in S : m <= n BY <1>0, Smallest
    <3>2. m \in 0 .. Cap /\ Good(m) BY <1>0, <2>2, <3>1
    <3> QED BY <3>2
  <2> QED BY <2>1, <2>2, <1>0
<1>2. WaitFor(q) = CHOOSE t \in 0 .. Cap : Good(t) BY DEF WaitFor
<1> QED BY <1>1, <1>2

\* A timer is cancelled: those of others stay.
LEMMA CtCancelled ==
  ASSUME CtInv, NEW c \in Conns, CancelTimer(timer[c]), timer' = [timer EXCEPT ![c] = NoId], fired' = fired \ {timer[c]},
         fdOf' = fdOf, loopVars' = loopVars
  PROVE  /\ live' \subseteq live /\ queue' \subseteq queue /\ CtQueued' /\ StaysArmed' /\ CtTime'
         /\ live' \subseteq Entries /\ queue' \subseteq Entries /\ fired' \subseteq Ids
         /\ timer' \in [Conns -> Ids \cup {NoId}] /\ timer'[c] = NoId
         /\ \A d \in Conns : d # c => timer'[d] = timer[d]
         /\ \A e \in live' : e.conn # c
<1>1. live' = {e \in live : e.id # timer[c]} /\ queue' = Compacted(queue, live') BY DEF CancelTimer
<1>2. live' \subseteq live /\ live' \subseteq queue BY <1>1 DEF CtInv, CtQueued
<1>3. queue' \subseteq queue /\ live' \subseteq queue' BY <1>1, <1>2, CtCompacts
<1>4. timer' \in [Conns -> Ids \cup {NoId}] /\ timer'[c] = NoId /\ \A d \in Conns : d # c => timer'[d] = timer[d]
  BY DEF CtInv, CtTypeOK
<1>5. CtTime' BY <1>2 DEF CtInv, CtTime, loopVars
<1>6. ASSUME NEW e \in live' PROVE e.conn # c BY <1>1 DEF CtInv, CtOwned
<1>7. StaysArmed'
  <2> SUFFICES ASSUME NEW d \in Conns, timer'[d] # NoId
               PROVE  timer'[d] \in fired' \/ \E e \in live' \cap queue' : e.id = timer'[d] /\ e.conn = d /\ e.fd = fdOf[d]
    BY DEF StaysArmed
  <2>1. d # c /\ timer'[d] = timer[d] /\ timer[d] # timer[c] BY <1>4 DEF CtInv, CtOwned
  <2>2. CASE timer[d] \in fired BY <2>1, <2>2
  <2>3. CASE \E e \in live \cap queue : e.id = timer[d] /\ e.conn = d /\ e.fd = fdOf[d]
    <3>1. PICK e \in live : e.id = timer[d] /\ e.conn = d /\ e.fd = fdOf[d] BY <2>3
    <3>2. e \in live' /\ e \in queue' BY <1>1, <1>3, <2>1, <3>1
    <3> QED BY <2>1, <3>1, <3>2
  <2> QED BY <2>1, <2>2, <2>3 DEF CtInv, StaysArmed
<1> QED BY <1>2, <1>3, <1>4, <1>5, <1>6, <1>7 DEF CtInv, CtTypeOK, CtQueued

\* A timer with a fresh id is added for a connection that has none.
CtAdds(c, f, id, timeout) ==
  /\ id \in FreshIds /\ AddTimer(id, c, f, timeout) /\ timer' = [timer EXCEPT ![c] = id]
  /\ fdOf' \in [Conns -> Fds] /\ fdOf'[c] = f /\ \A d \in Conns : d # c => fdOf'[d] = fdOf[d]
  /\ fired' = fired /\ loopVars' = loopVars

CtHasAdded(c, f, id) ==
  /\ CtQueued' /\ StaysArmed' /\ CtTime'
  /\ live' \subseteq Entries /\ queue' \subseteq Entries
  /\ timer' \in [Conns -> Ids \cup {NoId}] /\ timer'[c] = id /\ id # NoId
  /\ \A d \in Conns : d # c => timer'[d] = timer[d] /\ timer[d] # id
  /\ \A e \in live' : e \in live \/ (e.conn = c /\ e.id = id /\ e.fd = f)

LEMMA CtAdded ==
  ASSUME CtInv, NEW c \in Conns, NEW f \in Fds, NEW id \in Ids, NEW timeout \in Timeouts, CtAdds(c, f, id, timeout)
  PROVE  CtHasAdded(c, f, id)
<1> USE DEF CtAdds
<1> DEFINE entry == [id |-> id, fd |-> f, conn |-> c, left |-> timeout]
<1>1. entry \in Entries /\ entry.id = id /\ entry.fd = f /\ entry.conn = c /\ entry.left = timeout /\ timeout > 0 /\ timeout \in Int
      /\ id \in Ids BY TimersAssumption DEF Entries, FreshIds
<1>2. live' = live \cup {entry} /\ queue' = Compacted(queue \cup {entry}, live') BY DEF AddTimer
<1> HIDE DEF entry
<1>3. live' \subseteq queue \cup {entry} BY <1>2 DEF CtInv, CtQueued
<1>4. live' \subseteq queue' /\ queue' \subseteq queue \cup {entry} BY <1>2, <1>3, CtCompacts
<1>5. timer' \in [Conns -> Ids \cup {NoId}] /\ timer'[c] = id /\ id # NoId
      /\ \A d \in Conns : d # c => timer'[d] = timer[d] /\ timer[d] # id
  BY <1>1, TimersAssumption DEF CtInv, CtTypeOK, FreshIds, Remembered
<1>6. CtTime'
  <2>1. sleep \in 0 .. Cap /\ sleep' = sleep /\ loop' = loop /\ Cap \in Nat
    BY TimersAssumption DEF CtInv, CtTime, loopVars
  <2>2. ASSUME NEW e \in live' PROVE e \in live \/ (e.left > 0 /\ e.left > sleep - Cap /\ e.left > -Cap)
    BY <1>1, <1>2, <2>1
  <2> QED BY <2>1, <2>2 DEF CtInv, CtTime
<1>7. StaysArmed'
  <2> SUFFICES ASSUME NEW d \in Conns, timer'[d] # NoId
               PROVE  timer'[d] \in fired' \/ \E e \in live' \cap queue' : e.id = timer'[d] /\ e.conn = d /\ e.fd = fdOf'[d]
    BY DEF StaysArmed
  <2>1. CASE d = c BY <1>1, <1>2, <1>4, <1>5, <2>1
  <2>2. CASE d # c
    <3>1. timer'[d] = timer[d] /\ fdOf'[d] = fdOf[d] BY <1>5, <2>2
    <3>2. CASE \E e \in live \cap queue : e.id = timer[d] /\ e.conn = d /\ e.fd = fdOf[d]
      <4>1. PICK e \in live : e.id = timer[d] /\ e.conn = d /\ e.fd = fdOf[d] BY <3>2
      <4> QED BY <1>2, <1>4, <3>1, <4>1
    <3> QED BY <3>1, <3>2 DEF CtInv, StaysArmed
  <2> QED BY <2>1, <2>2
<1> QED BY <1>1, <1>2, <1>4, <1>5, <1>6, <1>7 DEF CtInv, CtTypeOK, CtQueued, CtHasAdded

\* What removing a connection does to the table and to the others.
LEMMA CtRemoved ==
  ASSUME CtInv, NEW f \in Fds, CtRemove(f), fdOf' = fdOf
  PROVE  /\ table' \in [Fds -> Conns \cup {NoConn}] /\ ctStage' \in [Conns -> {"none", "open", "removed"}]
         /\ CtTable' /\ \A c \in Conns : ctStage'[c] # "none" <=> ctStage[c] # "none"
<1>1. CASE table[f] = NoConn BY <1>1 DEF CtInv, CtTypeOK, CtTable, CtRemove
<1>2. CASE table[f] # NoConn
  <2> DEFINE d == table[f]
  <2>1. d \in Conns /\ ctStage[d] = "open" /\ fdOf[d] = f /\ NoConn \notin Conns
    BY <1>2, TimersAssumption DEF CtInv, CtTypeOK, CtTable
  <2>2. table' = [table EXCEPT ![f] = NoConn] /\ ctStage' = [ctStage EXCEPT ![d] = "removed"] BY <1>2 DEF CtRemove
  <2> HIDE DEF d
  <2>3. table' \in [Fds -> Conns \cup {NoConn}] /\ ctStage' \in [Conns -> {"none", "open", "removed"}]
        /\ ctStage'[d] = "removed" /\ table'[f] = NoConn
        /\ (\A c \in Conns : c # d => ctStage'[c] = ctStage[c]) /\ (\A g \in Fds : g # f => table'[g] = table[g])
    BY <2>1, <2>2 DEF CtInv, CtTypeOK
  <2>4. \A c \in Conns : ctStage'[c] # "none" <=> ctStage[c] # "none" BY <2>1, <2>3
  <2>5. CtTable'
    <3>1. ASSUME NEW g \in Fds, table'[g] # NoConn PROVE ctStage'[table'[g]] = "open" /\ fdOf'[table'[g]] = g
      <4>1. g # f /\ table'[g] = table[g] /\ table[g] \in Conns /\ fdOf[table[g]] = g /\ ctStage[table[g]] = "open"
        BY <2>3, <3>1 DEF CtInv, CtTypeOK, CtTable
      <4> QED BY <2>1, <2>3, <4>1
    <3>2. ASSUME NEW c \in Conns, ctStage'[c] = "open" PROVE table'[fdOf'[c]] = c
      <4>1. c # d /\ ctStage[c] = "open" BY <2>3, <3>2
      <4>2. table[fdOf[c]] = c /\ fdOf[c] # f /\ fdOf[c] \in Fds BY <2>1, <4>1 DEF CtInv, CtTypeOK, CtTable
      <4> QED BY <2>3, <4>2
    <3> QED BY <2>4, <3>1, <3>2 DEF CtInv, CtTable
  <2> QED BY <2>3, <2>4, <2>5
<1> QED BY <1>1, <1>2

LEMMA CtStep == ASSUME CtInv, [CtNext]_ctVars PROVE CtInv'
<1> USE DEF CtInv
<1>1. CASE NextTimeout
  <2>1. PICK q \in FrontDropped : queue' = q /\ sleep' = WaitFor(q) BY <1>1 DEF NextTimeout
  <2>2. q \subseteq queue /\ live \subseteq q BY <2>1 DEF FrontDropped, CtQueued
  <2>3. sleep' \in 0 .. Cap BY <2>1, <2>2, CtWait DEF CtTypeOK
  <2>4. live' = live /\ loop = "next" /\ loop' = "wait" /\ UNCHANGED <<connVars, timer, arming, firing, fired>>
    BY <1>1 DEF NextTimeout
  <2>5. CtTypeOK' BY <2>1, <2>2, <2>3, <2>4, TimersAssumption DEF CtTypeOK, connVars
  <2>6. CtTime'
    <3>1. ASSUME NEW e \in live PROVE e.left > sleep' - Cap /\ e.left > -Cap
      <4>1. e.left > 0 /\ e.left \in Int BY <2>4 DEF CtTime, CtTypeOK, Entries
      <4> QED BY <2>3, <4>1, TimersAssumption
    <3> QED BY <2>3, <2>4, <3>1 DEF CtTime
  <2>7. StaysArmed' BY <2>1, <2>2, <2>4 DEF StaysArmed, connVars
  <2> QED BY <2>1, <2>2, <2>4, <2>5, <2>6, <2>7 DEF CtTable, CtOwned, CtFiring, CtQueued, connVars
<1>2. CASE WaitEnds
  BY <1>2, TimersAssumption DEF WaitEnds, timerVars, connVars, CtTypeOK, CtTable, CtOwned, CtFiring, CtQueued, StaysArmed, CtTime
<1>3. CASE Expire
  <2> DEFINE over == {e \in queue : e.left <= 0}
  <2>1. /\ queue' = queue \ over /\ live' = {e \in live : e.id \notin IdsOf(over)}
        /\ firing' = {e \in live : e.id \in IdsOf(over)} /\ fired' = fired \cup IdsOf(firing')
        /\ loop' = "fire" /\ UNCHANGED <<connVars, timer, arming, sleep>> BY <1>3 DEF Expire
  <2>2. ASSUME NEW e \in over PROVE e.id \in IdsOf(over) BY DEF IdsOf
  <2>3. ASSUME NEW e \in live' PROVE e \in queue' /\ e.left > 0
    <3>1. e \in queue /\ e.left \in Int /\ e \notin over BY <2>1, <2>2 DEF CtQueued, CtTypeOK, Entries
    <3> QED BY <2>1, <3>1
  <2> HIDE DEF over
  <2>4. CtTypeOK' BY <2>1 DEF CtTypeOK, IdsOf, Entries, connVars
  <2>5. CtTime' BY <2>1, <2>3 DEF CtTime
  <2>6. StaysArmed'
    <3> SUFFICES ASSUME NEW d \in Conns, timer[d] # NoId
                 PROVE  timer[d] \in fired' \/ \E e \in live' \cap queue' : e.id = timer[d] /\ e.conn = d /\ e.fd = fdOf[d]
      BY <2>1 DEF StaysArmed, connVars
    <3>1. CASE timer[d] \in fired BY <2>1, <3>1
    <3>2. CASE \E e \in live \cap queue : e.id = timer[d] /\ e.conn = d /\ e.fd = fdOf[d]
      <4>1. PICK e \in live : e.id = timer[d] /\ e.conn = d /\ e.fd = fdOf[d] BY <3>2
      <4>2. CASE e.id \in IdsOf(over) BY <2>1, <4>1, <4>2 DEF IdsOf
      <4>3. CASE e.id \notin IdsOf(over) BY <2>1, <2>3, <4>1, <4>3
      <4> QED BY <4>2, <4>3
    <3> QED BY <3>1, <3>2 DEF StaysArmed
  <2>7. CtFiring'
    <3>1. ASSUME NEW e \in firing', NEW d \in Conns, ctStage[d] # "none", fdOf[d] = e.fd PROVE d = e.conn
      <4>1. e \in live /\ e.conn \in Conns BY <2>1 DEF CtTypeOK, Entries
      <4> QED BY <3>1, <4>1 DEF CtOwned, CtTable
    <3> QED BY <2>1, <3>1 DEF CtFiring, connVars
  <2> QED BY <2>1, <2>3, <2>4, <2>5, <2>6, <2>7 DEF CtTable, CtOwned, CtQueued, connVars
<1>4. ASSUME NEW e \in firing, Fire(e) PROVE CtInv'
  <2>1. e.fd \in Fds BY DEF CtTypeOK, Entries
  <2>2. /\ table' \in [Fds -> Conns \cup {NoConn}] /\ ctStage' \in [Conns -> {"none", "open", "removed"}]
        /\ CtTable' /\ \A c \in Conns : ctStage'[c] # "none" <=> ctStage[c] # "none" BY <1>4, <2>1, CtRemoved DEF Fire
  <2>3. firing' \subseteq firing /\ loop = "fire" /\ UNCHANGED <<live, queue, fdOf, timer, arming, loop, sleep, fired>>
    BY <1>4 DEF Fire, timerVars
  <2>4. CtOwned' BY <2>2, <2>3 DEF CtOwned, CtTypeOK, Entries
  <2>5. CtFiring' BY <2>2, <2>3 DEF CtFiring
  <2> QED BY <2>2, <2>3, <2>4, <2>5 DEF CtTypeOK, CtQueued, StaysArmed, CtTime
<1>5. CASE FireDone
  BY <1>5, TimersAssumption DEF FireDone, timerVars, connVars, CtTypeOK, CtTable, CtOwned, CtFiring, CtQueued, StaysArmed, CtTime
<1>6. CASE Tick
  <2> DEFINE Later(e) == [e EXCEPT !.left = @ - 1]
  <2>1. loop = "wait" /\ sleep > 0 /\ sleep' = sleep - 1 /\ live' = {Later(e) : e \in live} /\ queue' = {Later(e) : e \in queue}
        /\ UNCHANGED <<connVars, timer, arming, loop, firing, fired>> BY <1>6 DEF Tick
  <2>2. ASSUME NEW e \in Entries
        PROVE  Later(e) \in Entries /\ Later(e).id = e.id /\ Later(e).fd = e.fd /\ Later(e).conn = e.conn /\ Later(e).left = e.left - 1
    BY DEF Entries
  <2> HIDE DEF Later
  <2>3. CtTypeOK' BY <2>1, <2>2, TimersAssumption DEF CtTypeOK, CtTime, connVars
  <2>4. CtTime'
    <3>1. sleep \in 0 .. Cap /\ Cap \in Nat BY TimersAssumption DEF CtTime
    <3>2. ASSUME NEW e \in live PROVE Later(e).left > sleep' - Cap /\ Later(e).left > -Cap
      <4>1. e.left > sleep - Cap /\ e.left \in Int /\ Later(e).left = e.left - 1
        BY <2>1, <2>2 DEF CtTime, CtTypeOK, Entries
      <4> QED BY <2>1, <3>1, <4>1
    <3> QED BY <2>1, <3>1, <3>2 DEF CtTime
  <2>5. CtOwned'
    <3>1. ASSUME NEW e \in live' PROVE ctStage[e.conn] # "none" /\ timer[e.conn] = e.id /\ fdOf[e.conn] = e.fd
      <4>1. PICK d \in live : e = Later(d) BY <2>1
      <4> QED BY <2>2, <4>1 DEF CtOwned, CtTypeOK
    <3> QED BY <2>1, <3>1 DEF CtOwned, connVars
  <2>6. StaysArmed'
    <3> SUFFICES ASSUME NEW d \in Conns, timer[d] # NoId
                 PROVE  timer[d] \in fired \/ \E e \in live' \cap queue' : e.id = timer[d] /\ e.conn = d /\ e.fd = fdOf[d]
      BY <2>1 DEF StaysArmed, connVars
    <3>1. CASE \E e \in live \cap queue : e.id = timer[d] /\ e.conn = d /\ e.fd = fdOf[d]
      <4>1. PICK e \in live \cap queue : e.id = timer[d] /\ e.conn = d /\ e.fd = fdOf[d] BY <3>1
      <4>2. Later(e) \in live' \cap queue' BY <2>1, <4>1
      <4> QED BY <2>2, <4>1, <4>2 DEF CtTypeOK
    <3> QED BY <3>1 DEF StaysArmed
  <2> QED BY <2>1, <2>3, <2>4, <2>5, <2>6 DEF CtTable, CtFiring, CtQueued, connVars
<1>7. ASSUME NEW c \in Conns, ArmCancel(c) PROVE CtInv'
  <2>1. /\ live' \subseteq live /\ queue' \subseteq queue /\ CtQueued' /\ StaysArmed' /\ CtTime'
        /\ live' \subseteq Entries /\ queue' \subseteq Entries /\ fired' \subseteq Ids
        /\ timer' \in [Conns -> Ids \cup {NoId}] /\ timer'[c] = NoId
        /\ \A d \in Conns : d # c => timer'[d] = timer[d]
        /\ \A e \in live' : e.conn # c BY <1>7, CtCancelled DEF ArmCancel, connVars
  <2>2. ctStage[c] # "none" /\ arming' = arming \cup {c} /\ UNCHANGED <<connVars, loopVars>>
    BY <1>7 DEF ArmCancel, Objects
  <2>3. CtOwned'
    <3>1. \A e \in live' : e \in live /\ e.conn \in Conns /\ timer'[e.conn] = timer[e.conn] BY <2>1 DEF Entries
    <3>2. \A d \in arming' : timer'[d] = NoId /\ ctStage[d] # "none" BY <2>1, <2>2 DEF CtOwned, CtTypeOK
    <3>3. \A d, q \in Conns : (timer'[d] = timer'[q] /\ timer'[d] # NoId) => d = q BY <2>1 DEF CtOwned
    <3> QED BY <2>2, <3>1, <3>2, <3>3 DEF CtOwned, connVars
  <2> QED BY <2>1, <2>2, <2>3 DEF CtTypeOK, CtTable, CtFiring, connVars, loopVars
<1>8. ASSUME NEW c \in Conns, ArmNone(c) PROVE CtInv'
  BY <1>8 DEF ArmNone, timerVars, connVars, loopVars, CtTypeOK, CtTable, CtOwned, CtFiring, CtQueued, StaysArmed, CtTime
<1>9. ASSUME NEW c \in Conns, RemoveSelf(c) PROVE CtInv'
  <2>1. fdOf[c] \in Fds BY DEF CtTypeOK
  <2>2. /\ table' \in [Fds -> Conns \cup {NoConn}] /\ ctStage' \in [Conns -> {"none", "open", "removed"}]
        /\ CtTable' /\ \A d \in Conns : ctStage'[d] # "none" <=> ctStage[d] # "none"
    BY <1>9, <2>1, CtRemoved DEF RemoveSelf
  <2>3. UNCHANGED <<live, queue, fdOf, timer, arming, loop, sleep, firing, fired>>
    BY <1>9 DEF RemoveSelf, timerVars, loopVars
  <2>4. CtOwned' /\ CtFiring' BY <2>2, <2>3 DEF CtOwned, CtFiring, CtTypeOK, Entries
  <2> QED BY <2>2, <2>3, <2>4 DEF CtTypeOK, CtQueued, StaysArmed, CtTime
<1>10. ASSUME NEW c \in Conns, CtDestroy(c) PROVE CtInv'
  <2>1. /\ live' \subseteq live /\ queue' \subseteq queue /\ CtQueued' /\ StaysArmed' /\ CtTime'
        /\ live' \subseteq Entries /\ queue' \subseteq Entries /\ fired' \subseteq Ids
        /\ timer' \in [Conns -> Ids \cup {NoId}] /\ timer'[c] = NoId
        /\ \A d \in Conns : d # c => timer'[d] = timer[d]
        /\ \A e \in live' : e.conn # c BY <1>10, CtCancelled DEF CtDestroy
  <2>2. /\ ctStage' \in [Conns -> {"none", "open", "removed"}] /\ ctStage[c] = "removed" /\ ctStage'[c] = "none" /\ c \notin arming
        /\ \A d \in Conns : d # c => ctStage'[d] = ctStage[d]
        /\ UNCHANGED <<table, fdOf, arming, loopVars>> BY <1>10 DEF CtDestroy, CtTypeOK
  <2>3. CtOwned'
    <3>1. \A e \in live' : e \in live /\ e.conn \in Conns /\ timer'[e.conn] = timer[e.conn] /\ ctStage'[e.conn] = ctStage[e.conn]
      BY <2>1, <2>2 DEF Entries
    <3>2. \A d \in arming' : timer'[d] = NoId /\ ctStage'[d] # "none" BY <2>1, <2>2 DEF CtOwned, CtTypeOK
    <3>3. \A d, q \in Conns : (timer'[d] = timer'[q] /\ timer'[d] # NoId) => d = q BY <2>1 DEF CtOwned
    <3> QED BY <2>2, <3>1, <3>2, <3>3 DEF CtOwned
  <2>4. CtTable'
    <3>1. \A f \in Fds : table[f] # NoConn => table[f] \in Conns /\ table[f] # c BY <2>2 DEF CtTable, CtTypeOK
    <3> QED BY <2>2, <3>1 DEF CtTable
  <2> QED BY <2>1, <2>2, <2>3, <2>4 DEF CtTypeOK, CtFiring, loopVars
<1>11. ASSUME NEW c \in Conns, NEW id \in Ids, NEW timeout \in Timeouts, ArmAdd(c, id, timeout) PROVE CtInv'
  <2>1. c \in arming /\ timer[c] = NoId /\ ctStage[c] # "none" /\ id \in FreshIds /\ fdOf[c] \in Fds
    BY <1>11 DEF ArmAdd, CtOwned, CtTypeOK
  <2>2. /\ CtQueued' /\ StaysArmed' /\ CtTime'
        /\ live' \subseteq Entries /\ queue' \subseteq Entries
        /\ timer' \in [Conns -> Ids \cup {NoId}] /\ timer'[c] = id /\ id # NoId
        /\ \A d \in Conns : d # c => timer'[d] = timer[d] /\ timer[d] # id
        /\ \A e \in live' : e \in live \/ (e.conn = c /\ e.id = id /\ e.fd = fdOf[c])
    <3>1. /\ AddTimer(id, c, fdOf[c], timeout) /\ timer' = [timer EXCEPT ![c] = id] /\ fdOf' = fdOf /\ fired' = fired
          /\ loopVars' = loopVars BY <1>11 DEF ArmAdd, connVars
    <3>2. fdOf' \in [Conns -> Fds] /\ fdOf'[c] = fdOf[c] /\ \A d \in Conns : d # c => fdOf'[d] = fdOf[d]
      BY <3>1 DEF CtTypeOK
    <3>3. CtAdds(c, fdOf[c], id, timeout) BY <2>1, <3>1, <3>2 DEF CtAdds
    <3> HIDE DEF CtInv
    <3>4. CtHasAdded(c, fdOf[c], id) BY <2>1, <3>3, CtAdded
    <3> QED BY <3>4 DEF CtHasAdded
  <2>3. arming' = arming \ {c} /\ UNCHANGED <<connVars, loopVars, fired>> BY <1>11 DEF ArmAdd
  <2>4. CtOwned'
    <3>1. ASSUME NEW e \in live' PROVE ctStage[e.conn] # "none" /\ timer'[e.conn] = e.id /\ fdOf[e.conn] = e.fd
      <4>1. CASE e.conn = c
        <5>1. e \notin live
          <6>1. e \in Entries /\ e.id # NoId BY <2>2, TimersAssumption DEF Entries
          <6> QED BY <2>1, <4>1, <6>1 DEF CtOwned
        <5> QED BY <2>1, <2>2, <4>1, <5>1
      <4>2. CASE e.conn # c BY <2>2, <4>2 DEF CtOwned, Entries
      <4> QED BY <4>1, <4>2
    <3>2. \A d \in arming' : timer'[d] = NoId /\ ctStage[d] # "none" BY <2>2, <2>3 DEF CtOwned, CtTypeOK
    <3>3. \A d, q \in Conns : (timer'[d] = timer'[q] /\ timer'[d] # NoId) => d = q BY <2>2 DEF CtOwned
    <3> QED BY <2>3, <3>1, <3>2, <3>3 DEF CtOwned, connVars
  <2> QED BY <2>2, <2>3, <2>4 DEF CtTypeOK, CtTable, CtFiring, connVars, loopVars
<1>12. ASSUME NEW c \in Conns, NEW id \in Ids, NEW timeout \in Timeouts, NEW f \in Fds, Accept(c, f, id, timeout) PROVE CtInv'
  <2>1. /\ ctStage[c] = "none" /\ id \in FreshIds /\ loop = "wait"
        /\ \A d \in Conns : ctStage[d] # "none" => fdOf[d] # f BY <1>12 DEF Accept, Objects
  <2>2. /\ ctStage' \in [Conns -> {"none", "open", "removed"}] /\ ctStage'[c] = "open"
        /\ fdOf' \in [Conns -> Fds] /\ fdOf'[c] = f /\ table' \in [Fds -> Conns \cup {NoConn}] /\ table'[f] = c
        /\ (\A d \in Conns : d # c => ctStage'[d] = ctStage[d] /\ fdOf'[d] = fdOf[d])
        /\ (\A g \in Fds : g # f => table'[g] = table[g])
        /\ UNCHANGED <<arming, loopVars, fired>> BY <1>12 DEF Accept, CtTypeOK
  <2>3. /\ CtQueued' /\ StaysArmed' /\ CtTime'
        /\ live' \subseteq Entries /\ queue' \subseteq Entries
        /\ timer' \in [Conns -> Ids \cup {NoId}] /\ timer'[c] = id /\ id # NoId
        /\ \A d \in Conns : d # c => timer'[d] = timer[d] /\ timer[d] # id
        /\ \A e \in live' : e \in live \/ (e.conn = c /\ e.id = id /\ e.fd = f)
    <3>1. AddTimer(id, c, f, timeout) /\ timer' = [timer EXCEPT ![c] = id] /\ fired' = fired /\ loopVars' = loopVars
      BY <1>12 DEF Accept
    <3>3. CtAdds(c, f, id, timeout) BY <2>1, <2>2, <3>1 DEF CtAdds
    <3> HIDE DEF CtInv
    <3>4. CtHasAdded(c, f, id) BY <2>1, <3>3, CtAdded
    <3> QED BY <3>4 DEF CtHasAdded
  <2>4. CtOwned'
    <3>1. ASSUME NEW e \in live' PROVE ctStage'[e.conn] # "none" /\ timer'[e.conn] = e.id /\ fdOf'[e.conn] = e.fd
      <4>1. CASE e.conn = c BY <2>1, <2>2, <2>3, <4>1 DEF CtOwned
      <4>2. CASE e.conn # c BY <2>2, <2>3, <4>2 DEF CtOwned, Entries
      <4> QED BY <4>1, <4>2
    <3>2. \A d \in arming' : timer'[d] = NoId /\ ctStage'[d] # "none" BY <2>1, <2>2, <2>3 DEF CtOwned, CtTypeOK
    <3>3. \A d, q \in Conns : (timer'[d] = timer'[q] /\ timer'[d] # NoId) => d = q BY <2>3 DEF CtOwned
    <3> QED BY <3>1, <3>2, <3>3 DEF CtOwned
  <2>5. CtTable'
    <3>1. ASSUME NEW g \in Fds, table'[g] # NoConn PROVE ctStage'[table'[g]] = "open" /\ fdOf'[table'[g]] = g
      <4>1. CASE g = f BY <2>2, <4>1
      <4>2. CASE g # f
        <5>1. table'[g] = table[g] /\ table[g] \in Conns /\ ctStage[table[g]] = "open" /\ fdOf[table[g]] = g
          BY <2>2, <3>1, <4>2 DEF CtTable, CtTypeOK
        <5> QED BY <2>1, <2>2, <5>1
      <4> QED BY <4>1, <4>2
    <3>2. ASSUME NEW d \in Conns, ctStage'[d] = "open" PROVE table'[fdOf'[d]] = d
      <4>1. CASE d = c BY <2>2, <4>1
      <4>2. CASE d # c BY <2>1, <2>2, <3>2, <4>2 DEF CtTable, CtTypeOK
      <4> QED BY <4>1, <4>2
    <3>3. ASSUME NEW d \in Conns, NEW e \in Conns, ctStage'[d] # "none", ctStage'[e] # "none", fdOf'[d] = fdOf'[e] PROVE d = e
      BY <2>1, <2>2, <3>3 DEF CtTable
    <3> QED BY <3>1, <3>2, <3>3 DEF CtTable
  <2>6. firing = {} BY <2>1 DEF CtFiring
  <2> QED BY <2>2, <2>3, <2>4, <2>5, <2>6 DEF CtTypeOK, CtFiring, loopVars
<1>13. CASE UNCHANGED ctVars BY <1>13 DEF ctVars, CtTypeOK, CtTable, CtOwned, CtFiring, CtQueued, StaysArmed, CtTime
<1> QED
  BY <1>1, <1>2, <1>3, <1>4, <1>5, <1>6, <1>7, <1>8, <1>9, <1>10, <1>11, <1>12, <1>13 DEF CtNext, CtLoopStep, ConnStep

----
\* The timeout of the phase a connection is in.

UpFlags ==
  [proto : {"http", "http2", "websocket", "raw"}, decided : BOOLEAN, secure : BOOLEAN, reading : BOOLEAN,
   processing : BOOLEAN, started : BOOLEAN, fresh : BOOLEAN, close : BOOLEAN, closing : BOOLEAN, removed : BOOLEAN,
   ws : BOOLEAN, handler : BOOLEAN, onData : BOOLEAN, draining : BOOLEAN, notified : BOOLEAN, told : BOOLEAN,
   writing : BOOLEAN, timer : UpTimers, crossed : BOOLEAN]

UpHttpPlaces == {"process", "answer", "middleware", "upgrade", "raw"}
UpStreamPlaces == {"install", "handler", "callbacks", "flush"}

UpTyped ==
  /\ up \in UpFlags
  /\ upLoop \in {"idle", "dispatch", "rearm"}
  /\ upWork \in {"idle"} \cup UpHttpPlaces \cup UpStreamPlaces
  /\ upLate \in {"idle", "pick", "arm", "recheck", "trigger"}
  /\ upPick \in [loop : UpTimers, late : UpTimers]

\* Whose turn it is: a worker has the connection while a request is handled,
\* and as long as nothing was dispatched as HTTP there is none.
UpTurn ==
  /\ upWork # "idle" => up.processing
  /\ upWork \in UpHttpPlaces => up.proto = "http"
  /\ upWork \in UpStreamPlaces => up.proto \in {"websocket", "raw"}
  /\ (up.processing \/ upLate # "idle") => up.decided
  /\ (up.processing /\ up.proto = "http" /\ ~up.closing) => upWork # "idle"
  /\ up.proto \in {"websocket", "raw"} => up.processing
  /\ upLate # "idle" => up.proto # "http2"
  /\ (upClient.tls # "no" /\ ~up.secure) => ~up.decided /\ upLoop # "dispatch"

\* A timeout that was picked is the one of the phase, or the phase has changed
\* since; and the armed one fits.
UpPicked ==
  ~up.crossed => /\ upLoop = "rearm" => upPick.loop = UpPhase
                 /\ upLate = "arm" => upPick.late = UpPhase

UpFits ==
  /\ up.proto = "http" => up.timer \in (IF up.processing THEN {"none"} ELSE {"header", "keep_alive"})
  /\ up.proto = "http2" => up.timer = "idle" \/ upLoop = "dispatch"
  /\ up.proto \in {"websocket", "raw"} => up.timer = "websocket_idle" \/ upWork = "install"

UpTimed == (~up.crossed /\ ~up.removed /\ ~up.closing /\ upLate \notin {"pick", "arm"}) => UpFits

UpInv == UpTyped /\ UpTurn /\ UpPicked /\ UpTimed

LEMMA UpStarted == UpInit => UpInv
<1> SUFFICES ASSUME UpInit PROVE UpInv OBVIOUS
<1>1. up \in UpFlags /\ up.proto = "http" /\ ~up.processing /\ ~up.decided /\ up.timer = "header"
  BY DEF UpInit, UpFlags, UpTimers
<1>2. upPick \in [loop : UpTimers, late : UpTimers] BY DEF UpInit, UpTimers
<1> QED BY <1>1, <1>2 DEF UpInit, UpInv, UpTyped, UpTurn, UpPicked, UpTimed, UpFits, UpHttpPlaces, UpStreamPlaces

LEMMA UpHolds == UpInv => PhaseTimed
<1> SUFFICES ASSUME UpInv, ~up.crossed, upLoop = "idle", upLate = "idle", ~up.removed, ~up.closing
             PROVE  /\ UpWaits => up.timer \in CASE up.proto = "http" -> {"header", "keep_alive"}
                                                 [] up.proto = "http2" -> {"idle"}
                                                 [] OTHER -> {"websocket_idle"}
                    /\ up.proto = "http" /\ upWork # "idle" => up.timer = "none" BY DEF PhaseTimed
<1>1. UpFits /\ up.proto \in {"http", "http2", "websocket", "raw"} BY DEF UpInv, UpTimed, UpTyped, UpFlags
<1>2. (up.proto = "http" /\ upWork # "idle") => up.timer = "none" BY <1>1 DEF UpInv, UpTurn, UpFits
<1>3. ASSUME upWork = "idle"
      PROVE  /\ up.proto = "http" => up.timer \in {"header", "keep_alive"}
             /\ up.proto = "http2" => up.timer = "idle"
             /\ up.proto \in {"websocket", "raw"} => up.timer = "websocket_idle"
  BY <1>1, <1>3 DEF UpInv, UpTurn, UpFits
<1> QED BY <1>1, <1>2, <1>3 DEF UpWaits

\* What the invariant looks at of the flags.
UpAlike(u, v) ==
  /\ v \in UpFlags
  /\ v.proto = u.proto /\ v.timer = u.timer
  /\ v.decided <=> u.decided
  /\ v.secure <=> u.secure
  /\ v.processing <=> u.processing
  /\ v.removed <=> u.removed
  /\ v.crossed <=> u.crossed

LEMMA UpReads ==
  ASSUME NEW u \in UpFlags
  PROVE  UpAlike(u, trigger_read(u)) /\ (trigger_read(u).closing <=> u.closing) BY DEF UpFlags, UpAlike, trigger_read

LEMMA UpErrs ==
  ASSUME NEW u \in UpFlags
  PROVE  UpAlike(u, send_error(u)) /\ send_error(u).closing BY DEF UpFlags, UpAlike, send_error

LEMMA UpCrosses ==
  ASSUME NEW u \in UpFlags
  PROVE  /\ UpCross(u) \in UpFlags /\ UpCross(u).proto = u.proto /\ UpCross(u).timer = u.timer
         /\ UpCross(u).decided <=> u.decided
         /\ UpCross(u).secure <=> u.secure
         /\ UpCross(u).processing <=> u.processing
         /\ UpCross(u).removed <=> u.removed
         /\ UpCross(u).closing <=> u.closing
         /\ UpCross(u).crossed <=> (u.crossed \/ upLoop = "rearm" \/ upLate = "arm") BY DEF UpFlags, UpCross

\* The phase follows from the protocol and from whether a handler works.
LEMMA UpPhaseSame ==
  ASSUME up'.proto = up.proto, up'.processing <=> up.processing
  PROVE  UpPhase' = UpPhase BY DEF UpPhase

UpPasses ==
  \/ upWork' = upWork
  \/ upWork \in UpHttpPlaces /\ upWork' \in UpHttpPlaces
  \/ upWork \in UpHttpPlaces /\ upWork' = "idle" /\ up'.closing
  \/ upWork \in UpStreamPlaces \ {"install"} /\ upWork' \in {"flush", "idle"}

\* Steps that neither end a phase nor arm a timeout.
LEMMA UpQuiet ==
  ASSUME UpInv, UpAlike(up, up'), up.closing => up'.closing, UNCHANGED <<upClient, upLoop, upPick>>,
         upLate' = upLate \/ (upLate \in {"recheck", "trigger"} /\ upLate' \in {"idle", "trigger"}), UpPasses
  PROVE  UpInv'
<1>1. UpPhase' = UpPhase BY UpPhaseSame DEF UpAlike
<1>2. UpTyped' BY DEF UpInv, UpTyped, UpAlike, UpPasses, UpHttpPlaces, UpStreamPlaces
<1>3. UpTurn' BY DEF UpInv, UpTyped, UpTurn, UpAlike, UpPasses, UpHttpPlaces, UpStreamPlaces
<1>4. UpPicked' BY <1>1 DEF UpInv, UpPicked, UpAlike
<1>5. UpTimed'
  <2>1. UpFits => UpFits' BY DEF UpFits, UpAlike, UpPasses, UpInv, UpTurn, UpHttpPlaces, UpStreamPlaces
  <2> QED BY <2>1 DEF UpInv, UpTimed, UpAlike
<1> QED BY <1>2, <1>3, <1>4, <1>5 DEF UpInv

LEMMA UpPhaseIs == UpPhase \in UpTimers BY DEF UpPhase, UpTimers

LEMMA UpQuietSteps ==
  ASSUME UpInv, \/ UpHandle \/ UpLateRead \/ run_ws_middlewares \/ UpAccept \/ UpHandler \/ UpFlush \/ UpTunnelHead
                \/ upgrade_to_raw_stream \/ mark_shutting_down
  PROVE  UpInv'
<1>1. up \in UpFlags BY DEF UpInv, UpTyped
<1>2. \E u \in UpFlags : UpAlike(up, u) /\ (u.closing <=> up.closing) /\ (up' = u \/ up' = trigger_read(u))
  <2>1. CASE UpHandle BY <1>1, <2>1 DEF UpHandle, UpFlags, UpAlike
  <2>2. CASE UpLateRead \/ UpFlush BY <1>1, <2>2 DEF UpLateRead, UpFlush, UpAlike
  <2>3. CASE run_ws_middlewares BY <1>1, <2>3 DEF run_ws_middlewares, UpFlags, UpAlike
  <2>4. CASE UpAccept BY <1>1, <2>4 DEF UpAccept, UpFlags, UpAlike
  <2>5. CASE UpHandler BY <1>1, <2>5 DEF UpHandler, UpFlags, UpAlike
  <2>6. CASE UpTunnelHead
    <3> DEFINE shut == up.close \/ up.draining
               u == [up EXCEPT !.writing = TRUE, !.close = shut]
    <3>1. up' = trigger_read(u) /\ shut \in BOOLEAN BY <1>1, <2>6 DEF UpTunnelHead, UpFlags
    <3> HIDE DEF shut
    <3>2. u \in UpFlags /\ UpAlike(up, u) /\ (u.closing <=> up.closing) BY <1>1, <3>1 DEF UpFlags, UpAlike
    <3> QED BY <3>1, <3>2
  <2>7. CASE upgrade_to_raw_stream BY <1>1, <2>7 DEF upgrade_to_raw_stream, UpFlags, UpAlike
  <2>8. CASE mark_shutting_down BY <1>1, <2>8 DEF mark_shutting_down, UpFlags, UpAlike
  <2> QED BY <2>1, <2>2, <2>3, <2>4, <2>5, <2>6, <2>7, <2>8
<1>3. UpAlike(up, up') /\ (up'.closing <=> up.closing) BY <1>2, UpReads DEF UpAlike
<1>4. UNCHANGED <<upClient, upLoop, upPick>> /\ UpPasses
  BY DEF UpHandle, UpLateRead, run_ws_middlewares, UpAccept, UpHandler, UpFlush, UpTunnelHead, upgrade_to_raw_stream, mark_shutting_down,
    UpPasses, UpStep, UpWorks, UpHttpPlaces, UpStreamPlaces
<1>5. upLate' = upLate \/ (upLate \in {"recheck", "trigger"} /\ upLate' \in {"idle", "trigger"})
  BY DEF UpHandle, UpLateRead, run_ws_middlewares, UpAccept, UpHandler, UpFlush, UpTunnelHead, upgrade_to_raw_stream, mark_shutting_down, UpWorks
<1> QED BY <1>3, <1>4, <1>5, UpQuiet

LEMMA UpClosingSteps == ASSUME UpInv, UpLastAnswer \/ UpRefuse \/ UpStopped PROVE UpInv'
<1>1. up \in UpFlags /\ up' = send_error(up) BY DEF UpInv, UpTyped, UpLastAnswer, UpRefuse, UpStopped, send_error
<1>2. UpAlike(up, up') /\ up'.closing BY <1>1, UpErrs
<1> QED BY <1>2, UpQuiet DEF UpLastAnswer, UpRefuse, UpStopped, UpPasses, UpStep, UpWorks, UpHttpPlaces

LEMMA UpDrains == ASSUME UpInv, NEW idle \in BOOLEAN, on_server_shutdown(idle) PROVE UpInv'
<1>1. up \in UpFlags /\ up.proto \in {"http", "http2", "websocket", "raw"} BY DEF UpInv, UpTyped, UpFlags
<1>2. UpAlike(up, up') /\ (up.closing => up'.closing)
  <2>1. up' \in UpFlags
    <3>1. CASE up.proto = "websocket"
      <4> DEFINE t == up.told \/ (~up.notified /\ up.ws)
      <4>1. t \in BOOLEAN /\ up' = [[up EXCEPT !.notified = TRUE] EXCEPT !.told = t]
        BY <1>1, <3>1 DEF UpFlags, on_server_shutdown
      <4> HIDE DEF t
      <4> QED BY <1>1, <4>1 DEF UpFlags
    <3>2. CASE up.proto = "http2" BY <1>1, <3>2 DEF UpFlags, on_server_shutdown
    <3>3. CASE up.proto = "raw"
      <4>1. up' = [[up EXCEPT !.notified = TRUE] EXCEPT !.close = TRUE] BY <3>3 DEF on_server_shutdown
      <4> QED BY <1>1, <4>1 DEF UpFlags
    <3>4. CASE up.proto = "http" BY <1>1, <3>4 DEF UpFlags, on_server_shutdown
    <3> QED BY <1>1, <3>1, <3>2, <3>3, <3>4
  <2>2. /\ up'.proto = up.proto /\ up'.timer = up.timer /\ (up'.decided <=> up.decided) /\ (up'.secure <=> up.secure)
        /\ (up'.processing <=> up.processing) /\ (up'.removed <=> up.removed) /\ (up'.crossed <=> up.crossed) /\ (up.closing => up'.closing)
    BY <1>1 DEF UpFlags, on_server_shutdown
  <2> QED BY <2>1, <2>2 DEF UpAlike
<1> QED BY <1>2, UpQuiet DEF on_server_shutdown, UpPasses

\* The flags that no timeout and no change of the protocol disturbs.
UpKept(u, v) ==
  /\ v \in UpFlags /\ (v.decided <=> u.decided) /\ (v.secure <=> u.secure) /\ (v.closing <=> u.closing)
  /\ (v.processing <=> u.processing)

LEMMA UpLeaves == ASSUME UpInv, UpLeave PROVE UpInv'
<1>1. UpKept(up, up') /\ up'.proto = up.proto /\ up'.timer = up.timer /\ up'.removed /\ (up'.crossed <=> up.crossed)
  BY DEF UpInv, UpTyped, UpLeave, UpFlags, UpKept
<1> QED
  BY <1>1 DEF UpLeave, UpKept, UpInv, UpTyped, UpTurn, UpPicked, UpTimed, UpFits, UpPhase, UpHttpPlaces, UpStreamPlaces

LEMMA UpArms == ASSUME UpInv, UpLatePick \/ UpLateArm \/ UpRearm PROVE UpInv'
<1>1. UpKept(up, up') /\ up'.proto = up.proto /\ (up'.removed <=> up.removed) /\ (up'.crossed <=> up.crossed)
      /\ up'.timer = IF UpLateArm THEN upPick.late ELSE IF UpRearm THEN upPick.loop ELSE up.timer
  <2>1. CASE UpLateArm BY <2>1 DEF UpInv, UpTyped, UpLateArm, UpRearm, UpFlags, UpKept
  <2>2. CASE UpRearm BY <2>2 DEF UpInv, UpTyped, UpLateArm, UpRearm, UpFlags, UpKept
  <2>3. CASE UpLatePick BY <2>3 DEF UpInv, UpTyped, UpLateArm, UpRearm, UpLatePick, UpFlags, UpKept
  <2> QED BY <2>1, <2>2, <2>3
<1> QED
  BY <1>1, UpPhaseIs DEF UpLatePick, UpLateArm, UpRearm, UpKept, UpInv, UpTyped, UpTurn, UpPicked, UpTimed, UpFits, UpPhase, UpHttpPlaces, UpStreamPlaces

LEMMA UpUpgrades == ASSUME UpInv, UpSetWebSocket \/ UpSetRaw \/ upgrade_to_websocket PROVE UpInv'
<1>1. UpKept(up, up') /\ (up'.removed <=> up.removed)
      /\ \/ /\ UpSetWebSocket /\ up'.proto = "websocket" /\ up'.timer = up.timer
            /\ (up'.crossed <=> (up.crossed \/ upLoop = "rearm" \/ upLate = "arm"))
         \/ /\ UpSetRaw /\ up'.proto = "raw" /\ up'.timer = "websocket_idle"
            /\ (up'.crossed <=> (up.crossed \/ upLoop = "rearm" \/ upLate = "arm"))
         \/ upgrade_to_websocket /\ up'.proto = up.proto /\ up'.timer = "websocket_idle" /\ (up'.crossed <=> up.crossed)
  <2>1. CASE UpSetWebSocket
    <3> DEFINE v == [up EXCEPT !.proto = "websocket"]
    <3>1. v \in UpFlags /\ UpKept(up, v) /\ v.proto = "websocket" /\ v.timer = up.timer /\ (v.removed <=> up.removed) /\ (v.crossed <=> up.crossed)
      BY DEF UpInv, UpTyped, UpFlags, UpKept
    <3>2. up' = UpCross(v) BY <2>1 DEF UpSetWebSocket
    <3> HIDE DEF v
    <3> QED BY <2>1, <3>1, <3>2, UpCrosses DEF UpKept
  <2>2. CASE UpSetRaw
    <3> DEFINE v == [up EXCEPT !.proto = "raw", !.timer = "websocket_idle"]
    <3>1. v \in UpFlags /\ UpKept(up, v) /\ v.proto = "raw" /\ v.timer = "websocket_idle" /\ (v.removed <=> up.removed) /\ (v.crossed <=> up.crossed)
      BY DEF UpInv, UpTyped, UpFlags, UpKept, UpTimers
    <3>2. up' = UpCross(v) BY <2>2 DEF UpSetRaw
    <3> HIDE DEF v
    <3> QED BY <2>2, <3>1, <3>2, UpCrosses DEF UpKept
  <2>3. CASE upgrade_to_websocket BY <2>3 DEF UpInv, UpTyped, upgrade_to_websocket, UpFlags, UpKept, UpTimers
  <2> QED BY <2>1, <2>2, <2>3
<1> QED
  BY <1>1 DEF UpSetWebSocket, UpSetRaw, upgrade_to_websocket, UpStep, UpWorks, UpKept, UpInv, UpTyped, UpTurn, UpPicked, UpTimed, UpFits, UpPhase, UpHttpPlaces, UpStreamPlaces

LEMMA UpWrites == ASSUME UpInv, UpWritten PROVE UpInv'
<1> DEFINE y == up.reading /\ ~up.closing
<1>1. up \in UpFlags /\ y \in BOOLEAN /\ up.closing \in BOOLEAN /\ up' = [up EXCEPT !.writing = FALSE, !.removed = up.closing, !.reading = y]
  BY DEF UpInv, UpTyped, UpFlags, UpWritten
<1> HIDE DEF y
<1>2. UpKept(up, up') /\ up'.proto = up.proto /\ up'.timer = up.timer /\ (up'.removed <=> up.closing) /\ (up'.crossed <=> up.crossed)
  BY <1>1 DEF UpFlags, UpKept
<1> QED
  BY <1>2, UpPhaseIs DEF UpWritten, UpKept, UpInv, UpTyped, UpTurn, UpPicked, UpTimed, UpFits, UpPhase, UpHttpPlaces, UpStreamPlaces

LEMMA UpAwaits == ASSUME UpInv, UpAwaitPreface PROVE UpInv'
<1> DEFINE v == [up EXCEPT !.timer = IF up.fresh THEN "header" ELSE @]
<1>1. v \in UpFlags /\ UpKept(up, v) /\ v.proto = up.proto /\ (v.removed <=> up.removed) /\ (v.crossed <=> up.crossed) /\ v.timer \in {"header", up.timer}
  BY DEF UpInv, UpTyped, UpFlags, UpKept, UpTimers
<1>2. up' = trigger_read(v) BY DEF UpAwaitPreface
<1> HIDE DEF v
<1>3. UpKept(up, up') /\ up'.proto = up.proto /\ (up'.removed <=> up.removed) /\ (up'.crossed <=> up.crossed) /\ up'.timer \in {"header", up.timer}
  BY <1>1, <1>2, UpReads DEF UpKept, UpAlike
<1> QED
  BY <1>3 DEF UpAwaitPreface, maybe_preface, UpUndecided, UpKept, UpInv, UpTyped, UpTurn, UpPicked, UpTimed, UpFits, UpPhase, UpHttpPlaces, UpStreamPlaces

LEMMA UpTakesUp == ASSUME UpInv, UpHttp PROVE UpInv'
<1> DEFINE x == up.started \/ check_request_state(up.started).took > 0
           y == IF up.fresh THEN "header" ELSE up.timer
           u == [up EXCEPT !.decided = TRUE]
<1>1. up \in UpFlags /\ x \in BOOLEAN /\ y \in UpTimers /\ y \in {"header", up.timer}
  BY DEF UpInv, UpTyped, UpFlags, UpTimers
<1>2. up.proto = "http" /\ upLoop = "dispatch" /\ upLoop' = "idle" /\ UNCHANGED <<upClient, upLate, upPick>>
  BY DEF UpHttp
<1>3. \/ up.processing /\ up' = u /\ upWork' = upWork
      \/ ~up.processing /\ upWork' = "process" /\ up' = UpCross([u EXCEPT !.processing = TRUE, !.timer = "none"])
      \/ ~up.processing /\ upWork' = upWork /\ up' = send_error(u)
      \/ ~up.processing /\ upWork' = upWork /\ up' = trigger_read([u EXCEPT !.started = x, !.timer = y])
  BY <1>1 DEF UpHttp, UpFlags
<1> HIDE DEF x, y
<1>4. /\ UpAlike([up EXCEPT !.decided = TRUE], u) /\ u.decided /\ (u.closing <=> up.closing) /\ (u.secure <=> up.secure)
      /\ (u.processing <=> up.processing) /\ (u.removed <=> up.removed) /\ (u.crossed <=> up.crossed) /\ u.proto = up.proto /\ u.timer = up.timer
  BY <1>1 DEF UpFlags, UpAlike
<1> DEFINE Fields(w, processing, timers) ==
             /\ w \in UpFlags /\ w.proto = up.proto /\ w.timer \in timers /\ w.decided /\ (w.secure <=> up.secure)
             /\ (w.processing <=> processing) /\ (w.removed <=> up.removed)
<1>5. \/ /\ Fields(up', up.processing, {up.timer}) /\ upWork' = upWork /\ (up'.crossed <=> up.crossed) /\ up'.closing
         /\ ~up.processing
      \/ /\ Fields(up', up.processing, {up.timer}) /\ upWork' = upWork /\ (up'.crossed <=> up.crossed) /\ (up'.closing <=> up.closing)
         /\ up.processing
      \/ /\ Fields(up', TRUE, {"none"}) /\ upWork' = "process" /\ (up'.crossed <=> up.crossed \/ upLate = "arm") /\ ~up.processing
         /\ (up'.closing <=> up.closing)
      \/ /\ Fields(up', up.processing, {"header", up.timer}) /\ upWork' = upWork /\ (up'.crossed <=> up.crossed) /\ ~up.processing
         /\ (up'.closing <=> up.closing)
  <2>1. CASE up.processing BY <1>3, <1>4, <2>1 DEF UpAlike
  <2>2. CASE ~up.processing /\ upWork' = upWork /\ up' = send_error(u)
    <3> HIDE DEF u
    <3> QED BY <1>4, <2>2, UpErrs DEF UpAlike
  <2>3. CASE ~up.processing /\ upWork' = "process" /\ up' = UpCross([u EXCEPT !.processing = TRUE, !.timer = "none"])
    <3> DEFINE v == [u EXCEPT !.processing = TRUE, !.timer = "none"]
    <3>1. Fields(v, TRUE, {"none"}) /\ (v.crossed <=> up.crossed) /\ (v.closing <=> up.closing)
      BY <1>1 DEF UpFlags, UpTimers
    <3>2. up' = UpCross(v) BY <2>3
    <3> HIDE DEF v
    <3> QED BY <1>2, <2>3, <3>1, <3>2, UpCrosses
  <2>4. CASE ~up.processing /\ upWork' = upWork /\ up' = trigger_read([u EXCEPT !.started = x, !.timer = y])
    <3> DEFINE v == [u EXCEPT !.started = x, !.timer = y]
    <3>1. Fields(v, up.processing, {"header", up.timer}) /\ (v.crossed <=> up.crossed) /\ (v.closing <=> up.closing)
      BY <1>1 DEF UpFlags
    <3>2. up' = trigger_read(v) BY <2>4
    <3> HIDE DEF v
    <3> QED BY <2>4, <3>1, <3>2, UpReads DEF UpAlike
  <2> QED BY <1>3, <2>1, <2>2, <2>3, <2>4
<1> HIDE DEF u
<1> QED
  BY <1>1, <1>2, <1>5 DEF UpInv, UpTyped, UpTurn, UpPicked, UpTimed, UpFits, UpPhase, UpHttpPlaces, UpStreamPlaces

LEMMA UpPassesOn == ASSUME UpInv, UpPass PROVE UpInv'
<1> DEFINE x == IF is_preface THEN "http2" ELSE up.proto
           y == IF x = "http2" THEN "idle" ELSE "websocket_idle"
           v == [up EXCEPT !.decided = TRUE, !.proto = x, !.timer = y]
<1>1. /\ up \in UpFlags /\ x \in {"http2", "websocket", "raw"} /\ y \in UpTimers
      /\ (x = "http2" => y = "idle") /\ (x # "http2" => y = "websocket_idle")
  BY DEF UpInv, UpTyped, UpFlags, UpTimers, UpPass
<1>2. upLoop = "dispatch" /\ upLoop' = "idle" /\ UNCHANGED <<upClient, upWork, upLate, upPick>> /\ up' = trigger_read(v)
  BY DEF UpPass
<1>3. x = up.proto \/ (x = "http2" /\ ~up.decided) BY DEF is_preface, UpUndecided
<1> HIDE DEF x, y
<1>4. /\ v \in UpFlags /\ v.proto = x /\ v.timer = y /\ v.decided /\ (v.secure <=> up.secure) /\ (v.processing <=> up.processing)
      /\ (v.removed <=> up.removed) /\ (v.closing <=> up.closing) /\ (v.crossed <=> up.crossed) BY <1>1 DEF UpFlags
<1> HIDE DEF v
<1>5. /\ up' \in UpFlags /\ up'.proto = x /\ up'.timer = y /\ up'.decided /\ (up'.secure <=> up.secure) /\ (up'.processing <=> up.processing)
      /\ (up'.removed <=> up.removed) /\ (up'.closing <=> up.closing) /\ (up'.crossed <=> up.crossed)
  BY <1>2, <1>4, UpReads DEF UpAlike
<1> QED
  BY <1>1, <1>2, <1>3, <1>5 DEF UpInv, UpTyped, UpTurn, UpPicked, UpTimed, UpFits, UpPhase, UpHttpPlaces, UpStreamPlaces

LEMMA UpReadsKeep == ASSUME UpInv, NEW n \in 0 .. Len(UpUnits), NEW notify \in BOOLEAN, UpRead(n, notify) PROVE UpInv'
<1> DEFINE came == SubSeq(UpUnits, upCame + 1, upCame + n)
           s == up.secure \/ \E i \in DOMAIN came : came[i] = "fin"
           x == up.close \/ notify
           y == UpBuffer = << >> /\ ~up.started
           p == IF s /\ ~up.secure /\ upClient.tls = "h2" THEN "http2" ELSE up.proto
           left == [up EXCEPT !.removed = TRUE, !.reading = FALSE, !.secure = TRUE]
           go == [up EXCEPT !.reading = FALSE, !.secure = s, !.close = x, !.fresh = y, !.proto = p]
<1>1. /\ up \in UpFlags /\ s \in BOOLEAN /\ x \in BOOLEAN /\ y \in BOOLEAN /\ p \in {"http", "http2", "websocket", "raw"}
      /\ p = up.proto \/ (p = "http2" /\ ~up.secure /\ upClient.tls # "no")
      /\ up.secure => s BY DEF UpInv, UpTyped, UpFlags
<1>2. /\ upLoop = "idle" /\ up.reading /\ ~up.removed /\ UNCHANGED <<upClient, upWork, upLate, upPick>>
      /\ up' = up \/ up' = left \/ (up' = go /\ (upClient.tls # "no" => s))
      /\ upLoop' = IF up'.reading \/ up'.removed THEN "idle" ELSE "dispatch" BY DEF UpRead
<1> HIDE DEF came, s, x, y, p
<1>3. CASE up' = up
  BY <1>1, <1>2, <1>3 DEF UpInv, UpTyped, UpTurn, UpPicked, UpTimed, UpFits, UpPhase, UpHttpPlaces, UpStreamPlaces
<1>4. CASE up' = left
  <2>1. UpKept([up EXCEPT !.secure = TRUE], up') /\ up'.proto = up.proto /\ up'.timer = up.timer /\ up'.removed /\ up'.secure
        /\ (up'.decided <=> up.decided) /\ (up'.processing <=> up.processing) /\ (up'.crossed <=> up.crossed)
    BY <1>1, <1>4 DEF UpFlags, UpKept
  <2> HIDE DEF left
  <2> QED
    BY <1>2, <2>1 DEF UpKept, UpInv, UpTyped, UpTurn, UpPicked, UpTimed, UpFits, UpPhase, UpHttpPlaces, UpStreamPlaces
<1>5. CASE up' = go /\ (upClient.tls # "no" => s)
  <2>a. go \in UpFlags BY <1>1 DEF UpFlags
  <2>1. /\ up' \in UpFlags /\ up'.proto = p /\ up'.timer = up.timer /\ (up'.decided <=> up.decided) /\ (up'.secure <=> s) /\ ~up'.reading
        /\ (up'.processing <=> up.processing) /\ (up'.removed <=> up.removed) /\ (up'.closing <=> up.closing) /\ (up'.crossed <=> up.crossed)
    BY <1>1, <1>5, <2>a DEF UpFlags
  <2> HIDE DEF go
  <2> QED
    BY <1>1, <1>2, <1>5, <2>1 DEF UpInv, UpTyped, UpTurn, UpPicked, UpTimed, UpFits, UpPhase, UpHttpPlaces, UpStreamPlaces
<1> QED BY <1>2, <1>3, <1>4, <1>5

LEMMA UpContinues == ASSUME UpInv, continue_after_response PROVE UpInv'
<1> DEFINE x == check_request_state(FALSE).took > 0
           w == [up EXCEPT !.started = FALSE, !.writing = TRUE]
<1>0. up \in UpFlags /\ x \in BOOLEAN BY DEF UpInv, UpTyped
<1>1. w \in UpFlags /\ UpAlike(up, w) /\ (w.closing <=> up.closing) BY <1>0 DEF UpFlags, UpAlike
<1>2. /\ upWork = "answer" /\ upLate = "idle" /\ UNCHANGED <<upClient, upLoop, upPick>>
      /\ \/ upWork' = "process" /\ upLate' = upLate /\ up' = w
         \/ upWork' = "idle" /\ upLate' = upLate /\ up' = send_error(w)
         \/ upWork' = "idle" /\ upLate' = "pick" /\ up' = UpCross([w EXCEPT !.started = x, !.processing = FALSE])
  BY DEF continue_after_response
<1> HIDE DEF x, w
<1>3. CASE upWork' = "process" /\ upLate' = upLate /\ up' = w BY <1>1, <1>2, <1>3, UpQuiet DEF UpPasses, UpHttpPlaces
<1>4. CASE upWork' = "idle" /\ upLate' = upLate /\ up' = send_error(w)
  <2>1. UpAlike(up, up') /\ up'.closing BY <1>1, <1>4, UpErrs DEF UpAlike
  <2> QED BY <1>2, <1>4, <2>1, UpQuiet DEF UpPasses, UpHttpPlaces
<1>5. CASE upWork' = "idle" /\ upLate' = "pick" /\ up' = UpCross([w EXCEPT !.started = x, !.processing = FALSE])
  <2> DEFINE v == [w EXCEPT !.started = x, !.processing = FALSE]
  <2>a. v \in UpFlags BY <1>0, <1>1 DEF UpFlags
  <2>1. /\ v.proto = w.proto /\ v.timer = w.timer /\ (v.decided <=> w.decided) /\ (v.secure <=> w.secure) /\ ~v.processing
        /\ (v.removed <=> w.removed) /\ (v.closing <=> w.closing) /\ (v.crossed <=> w.crossed) BY <1>1 DEF UpFlags
  <2>2. up' = UpCross(v) BY <1>5
  <2> HIDE DEF v
  <2>3. /\ up' \in UpFlags /\ up'.proto = up.proto /\ up'.timer = up.timer /\ (up'.decided <=> up.decided) /\ (up'.secure <=> up.secure)
        /\ ~up'.processing /\ (up'.removed <=> up.removed) /\ (up'.closing <=> up.closing) /\ (up'.crossed <=> up.crossed \/ upLoop = "rearm")
    BY <1>1, <1>2, <2>a, <2>1, <2>2, UpCrosses DEF UpAlike
  <2> QED
    BY <1>2, <1>5, <2>3 DEF UpInv, UpTyped, UpTurn, UpPicked, UpTimed, UpFits, UpPhase, UpHttpPlaces, UpStreamPlaces
<1> QED BY <1>2, <1>3, <1>4, <1>5

LEMMA UpRechecks == ASSUME UpInv, UpRecheck PROVE UpInv'
<1> DEFINE x == up.started \/ check_request_state(up.started).took > 0
<1>1. up \in UpFlags /\ x \in BOOLEAN BY DEF UpInv, UpTyped
<1>2. /\ upLate = "recheck" /\ UNCHANGED <<upClient, upLoop, upPick>>
      /\ \/ upLate' \in {"idle", "trigger"} /\ upWork' = upWork /\ up' = up
         \/ upLate' = "trigger" /\ upWork' = upWork /\ up' = [up EXCEPT !.started = x]
         \/ ~up.processing /\ upLate' = "idle" /\ upWork' = "process" /\ up' = [up EXCEPT !.processing = TRUE, !.crossed = TRUE]
  BY DEF UpRecheck
<1> HIDE DEF x
<1>3. CASE upLate' \in {"idle", "trigger"} /\ upWork' = upWork /\ (up' = up \/ up' = [up EXCEPT !.started = x])
  <2>1. UpAlike(up, up') /\ (up'.closing <=> up.closing) BY <1>1, <1>3 DEF UpFlags, UpAlike
  <2> QED BY <1>2, <1>3, <2>1, UpQuiet DEF UpPasses
<1>4. CASE ~up.processing /\ upLate' = "idle" /\ upWork' = "process" /\ up' = [up EXCEPT !.processing = TRUE, !.crossed = TRUE]
  <2>1. /\ up' \in UpFlags /\ up'.proto = up.proto /\ up'.timer = up.timer /\ (up'.decided <=> up.decided) /\ (up'.secure <=> up.secure)
        /\ up'.processing /\ (up'.removed <=> up.removed) /\ (up'.closing <=> up.closing) /\ up'.crossed
    BY <1>1, <1>4 DEF UpFlags
  <2>2. up.proto \in {"http", "http2", "websocket", "raw"} BY <1>1 DEF UpFlags
  <2> QED
    BY <1>2, <1>4, <2>1, <2>2 DEF UpInv, UpTyped, UpTurn, UpPicked, UpTimed, UpFits, UpPhase, UpHttpPlaces, UpStreamPlaces
<1> QED BY <1>2, <1>3, <1>4

LEMMA UpStays == ASSUME UpInv, [UpNext]_upVars PROVE UpInv'
<1>1. CASE UNCHANGED upVars BY <1>1 DEF upVars, UpInv, UpTyped, UpTurn, UpPicked, UpPhase, UpTimed, UpFits
<1>2. CASE UpNext
  BY <1>2, UpQuietSteps, UpClosingSteps, UpDrains, UpLeaves, UpArms, UpUpgrades, UpWrites, UpAwaits, UpTakesUp, UpPassesOn, UpReadsKeep,
    UpContinues, UpRechecks DEF UpNext
<1> QED BY <1>1, <1>2

----
\* Every unit reaches the protocol it was meant for.

UpTakers == {"tls", "http", "http2", "websocket", "raw", "nobody", "dropped"}

\* Whom the unit i may have been given to.
UpRight(i) ==
  {UpMeant(i)} \cup (IF up.closing THEN {"dropped"} ELSE {}) \cup (IF UpHasStream THEN {"nobody"} ELSE {})

UpSent ==
  /\ upClient \in UpClients /\ upCame \in 0 .. Len(UpUnits) /\ upGiven \in Seq(UpTakers) /\ Len(upGiven) <= upCame
  /\ \A i \in 1 .. Len(upGiven) : upGiven[i] \in UpRight(i)

\* The handshake goes to TLS, all of it before anything else.
UpShaken ==
  /\ up.secure => upClient.tls # "no"
  /\ IF upClient.tls # "no" /\ ~up.secure
     THEN Len(upGiven) = upCame /\ \A i \in 1 .. upCame : UpUnits[i] = "hello"
     ELSE \A i \in 1 .. Len(UpUnits) : UpUnits[i] \in UpShakes => i <= Len(upGiven)

\* The protocol follows from the client and from what it asked for.
UpSpoken ==
  /\ up.proto = "http2" => upClient.tls = "h2" \/ UpPrefaced
  /\ (upClient.tls = "h2" /\ up.secure) => up.proto = "http2" \/ (up.removed /\ ~up.decided /\ upLoop # "dispatch")
  /\ UpPrefaced => up.proto = "http2" \/ ~up.decided
  /\ up.proto = "websocket" => \E j \in 1 .. Len(upGiven) : UpUnits[j] = "ws"
  /\ up.proto = "raw" => \E j \in 1 .. Len(upGiven) : UpUnits[j] = "tunnel"
  /\ upWork # "idle" => Len(upGiven) > 0
  /\ upWork = "upgrade" => UpRequest = "ws"
  /\ upWork = "raw" => UpRequest = "tunnel"

\* How far an upgrade has come.
UpReady ==
  /\ upWork \in {"install", "handler"} => up.proto = "websocket"
  /\ upWork = "callbacks" => up.proto = "raw"
  /\ (up.proto = "websocket" /\ upWork # "install") => up.ws
  /\ (up.proto = "websocket" /\ upWork \notin {"install", "handler"}) => up.handler
  /\ (up.proto = "raw" /\ upWork # "callbacks") => up.onData

\* Somebody reads on, and without a streamed response nobody while a worker has
\* the connection.
UpReadsOn ==
  (upLoop # "dispatch" /\ upWork = "idle" /\ (up.processing \/ upLate = "idle") /\ ~up.closing /\ ~up.removed) => up.reading
UpReadsOnce ==
  ~UpHasStream =>
    /\ (upWork \notin {"idle", "raw"} /\ up.proto # "raw") => ~up.reading /\ upLoop # "dispatch"
    /\ upLate # "idle" => upWork = "idle" /\ ~up.reading /\ upLoop # "dispatch"
    /\ (upLoop = "dispatch" /\ up.proto # "raw") => ~up.reading

\* What has come is taken, or somebody is at it.
UpTaken ==
  /\ (Len(upGiven) < upCame /\ ~up.closing /\ ~up.removed) => upLoop = "dispatch" \/ upWork # "idle" \/ maybe_preface
  /\ (upClient.tls = "no" /\ ~up.decided) => Len(upGiven) = 0 /\ (upLoop = "dispatch" => upCame > 0)

UpPlaced == UpSpoken /\ UpReady /\ UpReadsOn /\ UpReadsOnce /\ UpTaken
UpWay == UpSent /\ UpShaken /\ UpPlaced

UpIdles == UNCHANGED <<upClient, upCame, upGiven>>

\* What a step may change of the flags that matter here, and what not.
UpSame(u, v) ==
  /\ v.proto = u.proto /\ (v.decided <=> u.decided) /\ (v.secure <=> u.secure) /\ (v.closing <=> u.closing)
  /\ (v.processing <=> u.processing) /\ (v.removed <=> u.removed)
UpSet(u, v) == (v.ws <=> u.ws) /\ (v.handler <=> u.handler) /\ (v.onData <=> u.onData)

LEMMA UpHolding ==
  ASSUME UpWay, UpIdles, up.closing => up'.closing, (up'.secure <=> up.secure), UpPlaced'
  PROVE  UpWay'
<1>1. UpSent' BY DEF UpWay, UpSent, UpIdles, UpRight, UpMeant, UpUnits, UpPrefaced, UpHasStream
<1>2. UpShaken' BY DEF UpWay, UpShaken, UpIdles, UpUnits
<1> QED BY <1>1, <1>2 DEF UpWay

LEMMA UpPrefaceStays ==
  ASSUME UpIdles, up'.proto = up.proto, (up'.decided <=> up.decided)
  PROVE  maybe_preface' <=> maybe_preface BY DEF UpIdles, maybe_preface, UpUndecided, UpBuffer, UpUnits

LEMMA UpQuietly ==
  ASSUME UpInv, UpWay, UpIdles, UpSame(up, up'), UpSet(up, up'), up.reading => up'.reading,
         up'.reading => up.reading \/ (upLate = "trigger" /\ upLate' = "idle") \/ UpHasStream \/ (upWork # "raw" /\ upWork' = "raw"),
         upLoop' = upLoop \/ (upLoop # "dispatch" /\ upLoop' # "dispatch"),
         \/ upWork' = upWork /\ (upLate' = upLate \/ (upLate # "idle" /\ upLate' # "idle") \/ (upLate = "trigger" /\ (up.removed \/ up'.reading)))
         \/ upLate' = upLate /\ \/ upWork = "process" /\ upWork' \in {"answer", "middleware"}
                                \/ upWork = "process" /\ upWork' = "raw" /\ UpRequest = "tunnel"
                                \/ upWork = "middleware" /\ upWork' = "upgrade" /\ UpRequest = "ws"
  PROVE  UpWay'
<1>1. maybe_preface' <=> maybe_preface BY UpPrefaceStays DEF UpSame
<1>2. UpSpoken' /\ UpReady'
  BY DEF UpInv, UpTyped, UpTurn, UpHttpPlaces, UpStreamPlaces, UpSame, UpSet, UpIdles, UpWay, UpPlaced, UpSpoken, UpReady, UpUnits, UpRequest, UpPrefaced
<1>3. UpReadsOn' BY DEF UpInv, UpTyped, UpTurn, UpSame, UpSet, UpIdles, UpWay, UpPlaced, UpReadsOn
<1>4. UpReadsOnce'
  BY DEF UpInv, UpTyped, UpTurn, UpHttpPlaces, UpSame, UpSet, UpIdles, UpWay, UpPlaced, UpReadsOnce, UpHasStream, UpUnits
<1>5. UpTaken' BY <1>1 DEF UpInv, UpTyped, UpSame, UpSet, UpIdles, UpWay, UpPlaced, UpTaken, UpUnits
<1> QED BY <1>2, <1>3, <1>4, <1>5, UpHolding DEF UpSame, UpPlaced

LEMMA UpReadsAgain ==
  ASSUME NEW u \in UpFlags
  PROVE  UpSame(u, trigger_read(u)) /\ UpSet(u, trigger_read(u)) /\ (trigger_read(u).reading <=> u.reading \/ ~u.removed)
  BY DEF UpFlags, trigger_read, UpSame, UpSet

LEMMA W_Leave == ASSUME UpInv, UpWay, UpLeave PROVE UpWay'
<1>1. /\ UpIdles /\ (up'.closing <=> up.closing) /\ (up'.secure <=> up.secure)
      /\ up'.proto = up.proto /\ (up'.decided <=> up.decided) BY DEF UpLeave, UpInv, UpTyped, UpFlags, UpIdles
<1>2. UpPlaced'
  BY <1>1, UpPrefaceStays DEF UpLeave, UpInv, UpTyped, UpFlags, UpIdles, UpWay, UpPlaced, UpSpoken, UpReady, UpReadsOn, UpReadsOnce, UpTaken, UpUnits, UpRequest, UpPrefaced, UpHasStream
<1> QED BY <1>1, <1>2, UpHolding

LEMMA W_Quiet ==
  ASSUME UpInv, UpWay,
         UpLateRead \/ UpHandle \/ UpLatePick \/ UpLateArm \/ run_ws_middlewares \/ UpAccept \/ UpTunnelHead \/ UpRearm \/ mark_shutting_down
  PROVE UpWay'
<1>0. up \in UpFlags BY DEF UpInv, UpTyped
<1>1. CASE UpLateRead BY <1>0, <1>1, UpReadsAgain, UpQuietly DEF UpLateRead, UpIdles
<1>2. CASE UpHandle /\ UpRequest = "stream"
  <2> DEFINE u == [up EXCEPT !.writing = TRUE]
  <2>1. u \in UpFlags /\ UpSame(up, u) /\ UpSet(up, u) BY <1>0 DEF UpSame, UpSet, UpFlags
  <2>2. up' = trigger_read(u) /\ (up.reading => u.reading) BY <1>0, <1>2 DEF UpHandle, UpFlags
  <2>3. Len(upGiven) \in DOMAIN UpUnits BY <1>2 DEF UpHandle, UpStep, UpWay, UpSent, UpPlaced, UpSpoken, UpUnits
  <2>4. UpHasStream BY <1>2, <2>3 DEF UpHasStream, UpRequest
  <2> HIDE DEF u
  <2> QED BY <1>2, <2>1, <2>2, <2>4, UpReadsAgain, UpQuietly DEF UpHandle, UpStep, UpWorks, UpIdles, UpSame, UpSet
<1>3. CASE UpHandle /\ UpRequest # "stream"
  BY <1>0, <1>3, UpQuietly DEF UpHandle, UpStep, UpWorks, UpIdles, UpSame, UpSet
<1>4. CASE UpLatePick BY <1>0, <1>4, UpQuietly DEF UpLatePick, UpIdles, UpSame, UpSet
<1>5. CASE UpLateArm \/ UpRearm \/ mark_shutting_down
  <2>1. UpSame(up, up') /\ UpSet(up, up') /\ (up'.reading <=> up.reading)
    BY <1>0, <1>5 DEF UpLateArm, UpRearm, mark_shutting_down, UpSame, UpSet, UpFlags
  <2> QED BY <1>5, <2>1, UpQuietly DEF UpLateArm, UpRearm, mark_shutting_down, UpIdles
<1>6. CASE run_ws_middlewares \/ UpAccept
  <2>1. UpSame(up, up') /\ UpSet(up, up') /\ (up'.reading <=> up.reading)
    BY <1>0, <1>6 DEF run_ws_middlewares, UpAccept, UpSame, UpSet, UpFlags
  <2> QED BY <1>6, <2>1, UpQuietly DEF run_ws_middlewares, UpAccept, UpStep, UpWorks, UpIdles
<1>7. CASE UpTunnelHead
  <2> DEFINE u == [up EXCEPT !.writing = TRUE, !.close = @ \/ up.draining]
  <2>1. u \in UpFlags /\ UpSame(up, u) /\ UpSet(up, u) /\ (u.reading <=> up.reading)
    BY <1>0 DEF UpSame, UpSet, UpFlags
  <2>2. up' = trigger_read(u) BY <1>7 DEF UpTunnelHead
  <2> HIDE DEF u
  <2> QED BY <1>7, <2>1, <2>2, UpReadsAgain, UpQuietly DEF UpTunnelHead, UpStep, UpWorks, UpIdles, UpSame, UpSet
<1> QED BY <1>1, <1>2, <1>3, <1>4, <1>5, <1>6, <1>7

LEMMA UpCloses ==
  ASSUME UpInv, UpWay, UpIdles, up'.closing, up'.proto = up.proto, (up'.decided <=> up.decided), (up'.secure <=> up.secure),
         (up'.removed <=> up.removed), UpSet(up, up'), (up'.reading <=> up.reading), UNCHANGED <<upLoop, upLate>>,
         upWork' = upWork \/ (upWork \in UpHttpPlaces /\ upWork' = "idle")
  PROVE  UpWay'
<1>1. UpSpoken' /\ UpReady'
  BY DEF UpInv, UpTyped, UpTurn, UpHttpPlaces, UpStreamPlaces, UpSet, UpIdles, UpWay, UpPlaced, UpSpoken, UpReady, UpUnits, UpRequest, UpPrefaced
<1>2. UpReadsOn' /\ UpTaken' BY DEF UpReadsOn, UpTaken, UpIdles, UpWay, UpPlaced, UpUnits
<1>3. UpReadsOnce' BY DEF UpInv, UpTyped, UpIdles, UpWay, UpPlaced, UpReadsOnce, UpHasStream, UpUnits
<1> QED BY <1>1, <1>2, <1>3, UpHolding DEF UpPlaced

LEMMA W_Closes ==
  ASSUME UpInv, UpWay, UpLastAnswer \/ UpRefuse \/ UpStopped
  PROVE  UpWay'
<1>1. up \in UpFlags /\ UpIdles /\ UNCHANGED <<upLoop, upLate>> /\ upWork \in UpHttpPlaces /\ upWork' = "idle"
  BY DEF UpInv, UpTyped, UpLastAnswer, UpRefuse, UpStopped, UpStep, UpHttpPlaces, UpWorks, UpIdles
<1>2. /\ up'.closing /\ up'.proto = up.proto /\ (up'.decided <=> up.decided) /\ (up'.secure <=> up.secure)
      /\ (up'.removed <=> up.removed) /\ UpSet(up, up') /\ (up'.reading <=> up.reading)
  <2>1. up' = [up EXCEPT !.close = TRUE, !.closing = TRUE, !.writing = TRUE]
    BY DEF UpLastAnswer, UpRefuse, UpStopped, send_error
  <2> QED BY <1>1, <2>1 DEF UpFlags, UpSet
<1> QED BY <1>1, <1>2, UpCloses

LEMMA W_Shutdown ==
  ASSUME UpInv, UpWay, NEW idle \in BOOLEAN, on_server_shutdown(idle)
  PROVE  UpWay'
<1>1. up \in UpFlags /\ up.proto \in {"http", "http2", "websocket", "raw"} BY DEF UpInv, UpTyped, UpFlags
<1>2. /\ up'.proto = up.proto /\ (up'.decided <=> up.decided) /\ (up'.secure <=> up.secure) /\ (up'.processing <=> up.processing)
      /\ (up'.removed <=> up.removed) /\ UpSet(up, up') /\ (up'.reading <=> up.reading) /\ (up.closing => up'.closing)
  BY <1>1 DEF UpFlags, UpSet, on_server_shutdown
<1>3. CASE up'.closing BY <1>2, <1>3, UpCloses DEF on_server_shutdown, UpIdles
<1>4. CASE ~up'.closing BY <1>2, <1>4, UpQuietly DEF on_server_shutdown, UpIdles, UpSame
<1> QED BY <1>3, <1>4

LEMMA W_Upgrades ==
  ASSUME UpInv, UpWay, UpSetWebSocket \/ upgrade_to_websocket \/ UpHandler \/ UpSetRaw \/ upgrade_to_raw_stream
  PROVE  UpWay'
<1>1. up \in UpFlags BY DEF UpInv, UpTyped
<1>2. /\ UpIdles /\ (up'.decided <=> up.decided) /\ (up'.secure <=> up.secure) /\ (up'.processing <=> up.processing)
      /\ (up'.removed <=> up.removed) /\ (up'.reading <=> up.reading) /\ (up'.closing <=> up.closing)
      /\ UNCHANGED <<upLoop, upLate>>
  <2>1. CASE UpSetWebSocket BY <1>1, <2>1 DEF UpFlags, UpSetWebSocket, UpCross, UpWorks, UpIdles
  <2>2. CASE UpSetRaw BY <1>1, <2>2 DEF UpFlags, UpSetRaw, UpCross, UpWorks, UpIdles
  <2>3. CASE upgrade_to_websocket \/ UpHandler \/ upgrade_to_raw_stream
    BY <1>1, <2>3 DEF UpFlags, upgrade_to_websocket, UpHandler, upgrade_to_raw_stream, UpWorks, UpIdles
  <2> QED BY <2>1, <2>2, <2>3
<1>3. \/ upWork = "upgrade" /\ upWork' = "install" /\ up'.proto = "websocket"
      \/ upWork = "install" /\ upWork' = "handler" /\ up'.proto = up.proto /\ up'.ws
      \/ upWork = "handler" /\ upWork' = "flush" /\ up'.proto = up.proto /\ up'.handler /\ (up'.ws <=> up.ws)
      \/ upWork = "raw" /\ upWork' = "callbacks" /\ up'.proto = "raw"
      \/ upWork = "callbacks" /\ upWork' = "flush" /\ up'.proto = up.proto /\ up'.onData
  BY <1>1 DEF UpFlags, UpSetWebSocket, upgrade_to_websocket, UpHandler, UpSetRaw, upgrade_to_raw_stream, UpCross, UpStep
<1>4. up.proto # "http2" /\ up.decided BY <1>3 DEF UpInv, UpTurn, UpHttpPlaces, UpStreamPlaces
<1>5. UpSpoken'
  <2>1. Len(upGiven) \in 1 .. Len(upGiven) BY <1>3 DEF UpWay, UpSent, UpPlaced, UpSpoken
  <2>2. (upClient.tls = "h2" /\ up.secure) => up.removed /\ ~up.decided BY <1>4 DEF UpWay, UpPlaced, UpSpoken
  <2>3. ~UpPrefaced BY <1>4 DEF UpWay, UpPlaced, UpSpoken
  <2>4. upWork = "upgrade" => UpUnits[Len(upGiven)] = "ws" BY DEF UpWay, UpPlaced, UpSpoken, UpRequest
  <2>5. upWork = "raw" => UpUnits[Len(upGiven)] = "tunnel" BY DEF UpWay, UpPlaced, UpSpoken, UpRequest
  <2>6. upGiven' = upGiven /\ UpUnits' = UpUnits /\ UpPrefaced' = UpPrefaced /\ upClient' = upClient
    BY <1>2 DEF UpIdles, UpUnits, UpPrefaced
  <2> QED BY <1>2, <1>3, <1>4, <2>1, <2>2, <2>3, <2>4, <2>5, <2>6 DEF UpWay, UpPlaced, UpSpoken
<1>6. UpReady' BY <1>3 DEF UpWay, UpPlaced, UpReady
<1>7. UpReadsOn' /\ UpTaken' BY <1>2, <1>3, <1>4 DEF UpIdles, UpWay, UpPlaced, UpReadsOn, UpTaken, UpUnits
<1>8. UpReadsOnce'
  BY <1>2, <1>3 DEF UpInv, UpTurn, UpHttpPlaces, UpIdles, UpWay, UpPlaced, UpReady, UpReadsOnce, UpHasStream, UpUnits
<1> QED BY <1>2, <1>5, <1>6, <1>7, <1>8, UpHolding DEF UpPlaced

LEMMA W_Written == ASSUME UpInv, UpWay, UpWritten PROVE UpWay'
<1>1. up \in UpFlags BY DEF UpInv, UpTyped
<1>2. /\ up'.proto = up.proto /\ (up'.decided <=> up.decided) /\ (up'.secure <=> up.secure) /\ (up'.processing <=> up.processing)
      /\ UpSet(up, up') /\ (up'.closing <=> up.closing) /\ (up.closing \/ ((up'.reading <=> up.reading) /\ ~up'.removed)) /\ (up'.reading => up.reading)
  BY <1>1 DEF UpWritten, UpFlags, UpSet
<1>3. UpIdles /\ upLoop = "idle" /\ upLoop' \in {"idle", "rearm"} /\ UNCHANGED <<upWork, upLate>> /\ ~up.removed
  BY DEF UpWritten, UpIdles
<1>4. maybe_preface' <=> maybe_preface BY <1>2, <1>3, UpPrefaceStays
<1>5. UpSpoken' /\ UpReady'
  BY <1>2, <1>3 DEF UpSet, UpIdles, UpWay, UpPlaced, UpSpoken, UpReady, UpUnits, UpRequest, UpPrefaced
<1>6. UpReadsOn' /\ UpReadsOnce'
  BY <1>2, <1>3 DEF UpIdles, UpWay, UpPlaced, UpReadsOn, UpReadsOnce, UpHasStream, UpUnits
<1>7. UpTaken' BY <1>2, <1>3, <1>4 DEF UpIdles, UpWay, UpPlaced, UpTaken, UpUnits
<1> QED BY <1>2, <1>3, <1>5, <1>6, <1>7, UpHolding DEF UpPlaced

LEMMA UpClientIs ==
  ASSUME upClient \in UpClients
  PROVE  /\ UpUnits \in Seq(UpKinds) /\ upClient.tls \in {"no", "h1", "h2"}
         /\ \A i, j \in 1 .. Len(UpUnits) : (i < j /\ UpUnits[j] \in UpShakes) => UpUnits[i] = "hello"
         /\ \A i, j \in 1 .. Len(UpUnits) : (i < j /\ UpUnits[i] \in {"ws", "tunnel"}) => UpUnits[j] = "data"
         /\ upClient.tls = "no" => \A j \in 1 .. Len(UpUnits) : UpUnits[j] \notin UpShakes
         /\ upClient.tls # "no" => \A j \in 1 .. Len(UpUnits) : UpUnits[j] \in UpShakes \/ \E i \in 1 .. j : UpUnits[i] = "fin"
<1>1. UpUnits \in Seq(UpKinds) /\ upClient.tls \in {"no", "h1", "h2"} BY UpAssumption DEF UpUnits
<1>2. DOMAIN UpUnits = 1 .. Len(UpUnits) BY <1>1
<1> QED BY <1>1, <1>2, UpAssumption DEF UpUnits

LEMMA UpMeantIs ==
  ASSUME upClient \in UpClients, NEW i \in 1 .. Len(UpUnits)
  PROVE  /\ UpUnits[i] \in UpShakes => UpMeant(i) = "tls"
         /\ (UpUnits[i] \notin UpShakes /\ (upClient.tls = "h2" \/ UpPrefaced)) => UpMeant(i) = "http2"
         /\ (UpUnits[i] \notin UpShakes /\ upClient.tls # "h2" /\ ~UpPrefaced) =>
               /\ UpUnits[i] # "data" => UpMeant(i) = "http"
               /\ \A j \in 1 .. i - 1 : UpUnits[j] = "ws" => UpMeant(i) = "websocket"
               /\ \A j \in 1 .. i - 1 : UpUnits[j] = "tunnel" => UpMeant(i) = "raw"
<1>1. Len(UpUnits) \in Nat BY UpClientIs
<1>2. \A j \in 1 .. i - 1 : j \in 1 .. Len(UpUnits) /\ j < i BY <1>1
<1>3. ASSUME UpUnits[i] # "data" PROVE \A j \in 1 .. i - 1 : UpUnits[j] # "ws" /\ UpUnits[j] # "tunnel"
  BY <1>2, <1>3, UpClientIs
<1>4. ASSUME NEW j \in 1 .. i - 1, UpUnits[j] = "tunnel" PROVE ~\E k \in 1 .. i - 1 : UpUnits[k] = "ws"
  <2> SUFFICES ASSUME NEW k \in 1 .. i - 1, UpUnits[k] = "ws" PROVE FALSE OBVIOUS
  <2>1. k < j \/ j < k BY <1>1, <1>4
  <2>2. UpUnits[j] = "data" \/ UpUnits[k] = "data" BY <1>2, <1>4, <2>1, UpClientIs
  <2> QED BY <1>4, <2>2
<1> QED BY <1>3, <1>4 DEF UpMeant

LEMMA UpGives ==
  ASSUME UpSent, NEW n \in Nat, NEW who, n > 0 => who \in UpTakers, UpGive(n, who), upClient' = upClient,
         upCame' \in upCame .. Len(UpUnits), Len(upGiven) + n <= upCame', up.closing => up'.closing,
         \A i \in Len(upGiven) + 1 .. Len(upGiven) + n : who \in UpRight(i)'
  PROVE  UpSent' /\ Len(upGiven') = Len(upGiven) + n
<1> DEFINE more == [i \in 1 .. n |-> who]
<1>1. more \in Seq(UpTakers) /\ Len(more) = n OBVIOUS
<1>2. upGiven \in Seq(UpTakers) /\ upGiven' = upGiven \o more BY DEF UpSent, UpGive
<1> HIDE DEF more
<1>3. /\ upGiven' \in Seq(UpTakers) /\ Len(upGiven') = Len(upGiven) + n
      /\ \A i \in 1 .. Len(upGiven) + n : upGiven'[i] = IF i <= Len(upGiven) THEN upGiven[i] ELSE more[i - Len(upGiven)]
  <2> DEFINE given == upGiven
             g == upGiven'
  <2>1. given \in Seq(UpTakers) /\ more \in Seq(UpTakers) /\ g = given \o more /\ Len(more) = n BY <1>1, <1>2
  <2> HIDE DEF given, g
  <2>2. /\ g \in Seq(UpTakers) /\ Len(g) = Len(given) + n
        /\ \A i \in 1 .. Len(given) + n : g[i] = IF i <= Len(given) THEN given[i] ELSE more[i - Len(given)]
    BY <2>1, ConcatProperties
  <2> QED BY <2>2 DEF given, g
<1>4. \A i : upGiven[i] \in UpRight(i) => upGiven[i] \in UpRight(i)'
  BY DEF UpRight, UpMeant, UpUnits, UpPrefaced, UpHasStream
<1>5. ASSUME NEW i \in 1 .. Len(upGiven') PROVE upGiven'[i] \in UpRight(i)'
  <2>1. i \in 1 .. Len(upGiven) + n /\ Len(upGiven) \in Nat BY <1>2, <1>3
  <2>2. CASE i <= Len(upGiven) BY <1>3, <1>4, <2>1, <2>2 DEF UpSent
  <2>3. CASE i > Len(upGiven)
    <3>1. more[i - Len(upGiven)] = who BY <2>1, <2>3 DEF more
    <3>2. i \in Len(upGiven) + 1 .. Len(upGiven) + n BY <2>1, <2>3
    <3>3. upGiven'[i] = who BY <1>3, <2>1, <2>3, <3>1
    <3> QED BY <3>2, <3>3, Zenon
  <2> QED BY <2>1, <2>2, <2>3
<1>6. upCame' \in 0 .. Len(UpUnits') /\ upClient' \in UpClients BY DEF UpSent, UpUnits
<1> QED BY <1>3, <1>5, <1>6 DEF UpSent

\* What has come and was given to nobody.
LEMMA UpBufferIs ==
  ASSUME UpSent
  PROVE  /\ UpBuffer \in Seq(UpKinds) /\ Len(UpBuffer) = upCame - Len(upGiven)
         /\ \A i \in 1 .. Len(UpBuffer) : UpBuffer[i] = UpUnits[Len(upGiven) + i] BY UpClientIs DEF UpSent, UpBuffer

\* What check_request_state() takes.
LEMMA UpChecks ==
  ASSUME UpSent, NEW started \in BOOLEAN
  PROVE  LET parsed == check_request_state(started)
         IN  /\ parsed.is \in {"incomplete", "complete", "error"} /\ parsed.took \in 0 .. Len(UpBuffer)
             /\ parsed.is # "complete" => parsed.took = Len(UpBuffer)
             /\ parsed.is = "complete" => parsed.took > 0
             /\ parsed.is # "error" => \A i \in 1 .. parsed.took : UpBuffer[i] \in UpWhole \cup {"pre1", "post2"}
<1> DEFINE text == UpBuffer
<1>1. text \in Seq(UpKinds) /\ Len(text) \in Nat BY UpBufferIs
<1>2. text = << >> <=> Len(text) = 0 BY <1>1
<1> QED BY <1>1, <1>2 DEF check_request_state, UpWhole

LEMMA UpShakenGrows ==
  ASSUME UpSent, UpShaken, upClient.tls = "no" \/ up.secure, upClient' = upClient, (up'.secure <=> up.secure),
         Len(upGiven) <= Len(upGiven'), Len(upGiven') \in Nat
  PROVE  UpShaken'
<1>1. Len(upGiven) \in Nat /\ Len(UpUnits) \in Nat BY UpClientIs DEF UpSent
<1> QED BY <1>1 DEF UpShaken, UpUnits

\* Where HTTP is spoken, what is taken as HTTP is HTTP.
LEMMA UpTakesHttp ==
  ASSUME UpInv, UpWay, NEW started \in BOOLEAN, UpTake(check_request_state(started)), up.proto = "http",
         up.decided \/ (upLoop = "dispatch" /\ ~UpPrefaced),
         upClient' = upClient, upCame' = upCame, (up'.secure <=> up.secure), up.closing => up'.closing,
         check_request_state(started).is = "error" => up'.closing
  PROVE  UpSent' /\ UpShaken' /\ Len(upGiven') = Len(upGiven) + check_request_state(started).took
<1> DEFINE parsed == check_request_state(started)
           who == IF parsed.is = "error" THEN "dropped" ELSE "http"
<1>1. /\ parsed.is \in {"incomplete", "complete", "error"} /\ parsed.took \in 0 .. Len(UpBuffer)
      /\ parsed.is # "error" => \A i \in 1 .. parsed.took : UpBuffer[i] \in UpWhole \cup {"pre1", "pre2", "post2"}
  BY UpChecks DEF UpWay
<1>2. UpGive(parsed.took, who) BY DEF UpTake
<1>3. UpSent /\ UpShaken /\ ~UpPrefaced /\ upClient.tls # "h2" /\ (upClient.tls = "no" \/ up.secure)
  BY UpClientIs DEF UpWay, UpPlaced, UpSpoken, UpSent, UpInv, UpTurn
<1> HIDE DEF parsed
<1>4. Len(UpBuffer) = upCame - Len(upGiven) /\ \A i \in 1 .. Len(UpBuffer) : UpBuffer[i] = UpUnits[Len(upGiven) + i]
  BY <1>3, UpBufferIs
<1>5. Len(upGiven) \in Nat /\ upCame \in 0 .. Len(UpUnits) /\ Len(upGiven) <= upCame /\ Len(UpUnits) \in Nat /\ upClient \in UpClients
  BY <1>3, UpClientIs DEF UpSent
<1>6. ASSUME NEW i \in Len(upGiven) + 1 .. Len(upGiven) + parsed.took PROVE who \in UpRight(i)'
  <2>1. CASE parsed.is = "error" BY <2>1 DEF UpRight, parsed
  <2>2. CASE parsed.is # "error"
    <3>1. i \in 1 .. Len(UpUnits) /\ i - Len(upGiven) \in 1 .. parsed.took /\ UpUnits[i] = UpBuffer[i - Len(upGiven)]
      BY <1>1, <1>4, <1>5
    <3>2. UpUnits[i] \in UpWhole \cup {"pre1", "pre2", "post2"} BY <1>1, <2>2, <3>1
    <3>3. UpUnits[i] \notin UpShakes /\ UpUnits[i] # "data" BY <3>2 DEF UpWhole, UpShakes
    <3>4. UpMeant(i) = "http" BY <1>3, <1>5, <3>1, <3>3, UpMeantIs
    <3>5. UpMeant(i)' = UpMeant(i) BY DEF UpMeant, UpUnits, UpPrefaced
    <3> QED BY <2>2, <3>4, <3>5 DEF UpRight
  <2> QED BY <2>1, <2>2
<1>7. UpSent' /\ Len(upGiven') = Len(upGiven) + parsed.took
  BY <1>1, <1>2, <1>3, <1>4, <1>5, <1>6, UpGives DEF UpTakers
<1>8. UpShaken' BY <1>1, <1>3, <1>5, <1>7, UpShakenGrows
<1> QED BY <1>7, <1>8 DEF parsed

LEMMA W_Http == ASSUME UpInv, UpWay, UpHttp PROVE UpWay'
<1> DEFINE parsed == check_request_state(up.started)
           u == [up EXCEPT !.decided = TRUE]
<1>1. up \in UpFlags /\ up.started \in BOOLEAN BY DEF UpInv, UpTyped, UpFlags
<1>2. /\ parsed.is \in {"incomplete", "complete", "error"} /\ parsed.took \in 0 .. Len(UpBuffer)
      /\ parsed.is # "complete" => parsed.took = Len(UpBuffer)
      /\ parsed.is = "complete" => parsed.took > 0 BY <1>1, UpChecks DEF UpWay
<1>3. ~UpPrefaced
  <2> SUFFICES ASSUME UpPrefaced PROVE FALSE OBVIOUS
  <2>1. up.proto = "http" /\ ~up.decided /\ upLoop = "dispatch" /\ upClient.tls = "no"
    BY DEF UpHttp, UpWay, UpPlaced, UpSpoken, UpPrefaced
  <2>2. Len(upGiven) = 0 /\ upCame \in 1 .. Len(UpUnits) BY <2>1 DEF UpWay, UpPlaced, UpTaken, UpSent
  <2>3. UpUndecided BY <2>1 DEF UpUndecided, UpPrefaced
  <2>4. UpBuffer \in Seq(UpKinds) /\ Len(UpBuffer) = upCame /\ UpBuffer[1] = "pre1" /\ (upCame >= 2 => UpBuffer[2] = "pre2")
    BY <2>2, UpBufferIs DEF UpWay, UpPrefaced
  <2>5. CASE upCame = 1
    <3>1. UpBuffer = <<"pre1">> BY <2>4, <2>5
    <3> QED BY <2>3, <3>1 DEF UpHttp, maybe_preface
  <2>6. CASE upCame >= 2
    <3> DEFINE two == SubSeq(UpBuffer, 1, 2)
    <3>a. two \in Seq(UpKinds) /\ Len(two) = 2 BY <2>4, <2>6
    <3>b. two[1] = "pre1" /\ two[2] = "pre2" BY <2>4, <2>6
    <3> HIDE DEF two
    <3>c. two = <<"pre1", "pre2">> BY <3>a, <3>b
    <3>1. Len(UpBuffer) >= 2 /\ SubSeq(UpBuffer, 1, 2) = <<"pre1", "pre2">> BY <2>4, <2>6, <3>c DEF two
    <3> QED BY <2>3, <3>1 DEF UpHttp, is_preface
  <2> QED BY <2>2, <2>5, <2>6
<1>a. up.proto = "http" BY DEF UpHttp
<1>4. u \in UpFlags /\ u.decided /\ UpSet(up, u) /\ u.proto = "http" /\ (u.secure <=> up.secure) /\ (u.closing <=> up.closing)
      /\ (u.processing <=> up.processing) /\ (u.removed <=> up.removed) /\ (u.reading <=> up.reading)
  BY <1>1, <1>a DEF UpFlags, UpSet
<1> HIDE DEF u
<1>5. CASE up.processing
  <2>1. up' = u /\ UpIdles /\ UNCHANGED <<upWork, upLate>> /\ upLoop = "dispatch" /\ upLoop' = "idle" /\ up.proto = "http"
    BY <1>5 DEF UpHttp, UpIdles, u
  <2>2. upWork # "idle" \/ up.closing BY <1>5, <2>1 DEF UpInv, UpTurn
  <2>3. UpSpoken' /\ UpReady' /\ UpTaken'
    BY <1>3, <1>4, <2>1, <2>2 DEF UpSet, UpIdles, UpWay, UpPlaced, UpSpoken, UpReady, UpTaken, UpUnits, UpRequest, UpPrefaced
  <2>4. UpReadsOn' /\ UpReadsOnce'
    BY <1>4, <2>1, <2>2 DEF UpIdles, UpWay, UpPlaced, UpReadsOn, UpReadsOnce, UpHasStream, UpUnits
  <2> QED BY <1>4, <2>1, <2>3, <2>4, UpHolding DEF UpPlaced
<1>6. CASE ~up.processing
  <2>1. /\ UpTake(parsed) /\ up.proto = "http" /\ upLoop = "dispatch" /\ upLoop' = "idle"
        /\ UNCHANGED <<upClient, upCame, upLate>> /\ upWork = "idle" BY <1>6 DEF UpHttp, UpInv, UpTurn
  <2>2. /\ up'.proto = "http" /\ up'.decided /\ UpSet(up, up') /\ (up'.secure <=> up.secure) /\ (up'.removed <=> up.removed)
        /\ \/ parsed.is = "complete" /\ upWork' = "process" /\ (up'.closing <=> up.closing) /\ (up'.reading <=> up.reading)
           \/ parsed.is = "error" /\ up'.closing /\ upWork' = "idle" /\ (up'.reading <=> up.reading)
           \/ /\ parsed.is = "incomplete" /\ upWork' = "idle" /\ (up'.closing <=> up.closing)
              /\ (up'.reading <=> up.reading \/ ~up.removed) /\ (up'.processing <=> up.processing)
    <3>1. CASE parsed.is = "complete"
      <4>1. up' = UpCross([u EXCEPT !.processing = TRUE, !.timer = "none"]) /\ upWork' = "process"
        BY <1>6, <3>1 DEF UpHttp, u
      <4> QED BY <1>4, <3>1, <4>1 DEF UpFlags, UpSet, UpCross
    <3>2. CASE parsed.is = "error"
      <4>1. up' = send_error(u) /\ upWork' = upWork BY <1>6, <3>2 DEF UpHttp, u
      <4> QED BY <1>4, <2>1, <3>2, <4>1 DEF UpFlags, UpSet, send_error
    <3>3. CASE parsed.is = "incomplete"
      <4> DEFINE w == [u EXCEPT !.started = @ \/ parsed.took > 0, !.timer = IF up.fresh THEN "header" ELSE @]
      <4>1. up' = trigger_read(w) /\ upWork' = upWork BY <1>6, <3>3 DEF UpHttp, u
      <4> HIDE DEF parsed
      <4>2. /\ w \in UpFlags /\ w.proto = "http" /\ w.decided /\ UpSet(u, w) /\ (w.secure <=> u.secure) /\ (w.closing <=> u.closing)
            /\ (w.processing <=> u.processing) /\ (w.removed <=> u.removed) /\ (w.reading <=> u.reading)
        <5>1. u.started \in BOOLEAN /\ u.timer \in UpTimers BY <1>4 DEF UpFlags
        <5> DEFINE st == u.started \/ parsed.took > 0
                   ti == IF up.fresh THEN "header" ELSE u.timer
        <5>2. st \in BOOLEAN /\ ti \in UpTimers BY <5>1 DEF UpTimers
        <5>3. w = [[u EXCEPT !.started = st] EXCEPT !.timer = ti] BY <1>4 DEF UpFlags
        <5> HIDE DEF w, st, ti
        <5> QED BY <1>4, <5>2, <5>3 DEF UpFlags, UpSet
      <4> HIDE DEF w
      <4> QED BY <1>4, <2>1, <3>3, <4>1, <4>2, UpReadsAgain DEF UpSame, UpSet
    <3> QED BY <1>2, <3>1, <3>2, <3>3
  <2>3. UpSent' /\ UpShaken' /\ Len(upGiven') = Len(upGiven) + parsed.took BY <1>1, <1>3, <2>1, <2>2, UpTakesHttp
  <2>4. Len(upGiven) \in Nat /\ Len(upGiven) <= upCame /\ upCame \in Nat /\ Len(UpBuffer) = upCame - Len(upGiven)
    BY UpBufferIs DEF UpWay, UpSent
  <2> HIDE DEF parsed
  <2>5. UpSpoken' /\ UpReady'
    BY <1>2, <1>3, <2>1, <2>2, <2>3, <2>4 DEF UpSet, UpWay, UpPlaced, UpSpoken, UpReady, UpUnits, UpRequest, UpPrefaced
  <2>6. UpReadsOn' /\ UpReadsOnce'
    BY <1>6, <2>1, <2>2 DEF UpWay, UpPlaced, UpReadsOn, UpReadsOnce, UpHasStream, UpUnits
  <2>7. UpTaken' BY <1>2, <2>1, <2>2, <2>3, <2>4 DEF UpTaken
  <2> QED BY <2>3, <2>5, <2>6, <2>7 DEF UpWay, UpPlaced
<1> QED BY <1>5, <1>6

LEMMA W_Await == ASSUME UpInv, UpWay, UpAwaitPreface PROVE UpWay'
<1> DEFINE u == [up EXCEPT !.timer = IF up.fresh THEN "header" ELSE @]
<1>1. up \in UpFlags /\ maybe_preface /\ up' = trigger_read(u) /\ UpIdles /\ upLoop = "dispatch" /\ upLoop' = "idle"
      /\ UNCHANGED <<upWork, upLate>> BY DEF UpInv, UpTyped, UpAwaitPreface, UpIdles
<1>2. u \in UpFlags /\ UpSame(up, u) /\ UpSet(up, u) /\ (u.reading <=> up.reading)
  BY <1>1 DEF UpFlags, UpSame, UpSet, UpTimers
<1>3. upWork = "idle" /\ upLate = "idle" /\ ~up.processing BY <1>1 DEF UpInv, UpTurn, maybe_preface, UpUndecided
<1> HIDE DEF u
<1>4. UpSame(up, up') /\ UpSet(up, up') /\ (up'.reading <=> up.reading \/ ~up.removed)
  BY <1>1, <1>2, UpReadsAgain DEF UpSame, UpSet
<1>5. maybe_preface' BY <1>1, <1>4, UpPrefaceStays DEF UpSame
<1>6. UpSpoken' /\ UpReady'
  BY <1>1, <1>3, <1>4 DEF UpSame, UpSet, UpIdles, UpWay, UpPlaced, UpSpoken, UpReady, UpUnits, UpRequest, UpPrefaced
<1>7. UpReadsOn' /\ UpReadsOnce' /\ UpTaken'
  BY <1>1, <1>3, <1>4, <1>5 DEF UpSame, UpIdles, UpWay, UpPlaced, UpReadsOn, UpReadsOnce, UpTaken, UpHasStream, UpUnits
<1> QED BY <1>1, <1>4, <1>6, <1>7, UpHolding DEF UpPlaced, UpSame

\* What has come may go to the protocol that is spoken, all of it.
LEMMA UpGoesOn ==
  ASSUME UpSent, UpShaken, upClient.tls = "no" \/ up.secure, NEW who, UpGive(Len(UpBuffer), who),
         upClient' = upClient, upCame' = upCame, (up'.secure <=> up.secure), up.closing => up'.closing,
         \/ who = "http2" /\ (upClient.tls = "h2" \/ UpPrefaced)
         \/ /\ upClient.tls # "h2" /\ ~UpPrefaced
            /\ \/ who = "websocket" /\ \E j \in 1 .. Len(upGiven) : UpUnits[j] = "ws"
               \/ who = "raw" /\ \E j \in 1 .. Len(upGiven) : UpUnits[j] = "tunnel"
         \/ who = "nobody" /\ UpHasStream
  PROVE  UpSent' /\ UpShaken' /\ Len(upGiven') = upCame'
<1>1. Len(upGiven) \in Nat /\ upCame \in 0 .. Len(UpUnits) /\ Len(upGiven) <= upCame /\ Len(UpUnits) \in Nat /\ upClient \in UpClients
      /\ Len(UpBuffer) = upCame - Len(upGiven) BY UpClientIs, UpBufferIs DEF UpSent
<1>2. ASSUME NEW i \in Len(upGiven) + 1 .. upCame PROVE who \in UpRight(i)'
  <2>1. i \in 1 .. Len(UpUnits) /\ UpUnits[i] \notin UpShakes /\ 1 .. Len(upGiven) \subseteq 1 .. i - 1
    BY <1>1 DEF UpShaken
  <2>2. UpMeant(i)' = UpMeant(i) /\ UpHasStream' = UpHasStream BY DEF UpMeant, UpUnits, UpPrefaced, UpHasStream
  <2>3. UpMeant(i) = who \/ (who = "nobody" /\ UpHasStream) BY <1>1, <2>1, UpMeantIs, UpClientIs
  <2> QED BY <2>2, <2>3 DEF UpRight
<1>3. UpSent' /\ Len(upGiven') = Len(upGiven) + Len(UpBuffer) BY <1>1, <1>2, UpGives DEF UpTakers
<1> QED BY <1>1, <1>3, UpShakenGrows

LEMMA W_Flush == ASSUME UpInv, UpWay, UpFlush PROVE UpWay'
<1>1. /\ up \in UpFlags /\ up' = trigger_read(up) /\ UNCHANGED <<upClient, upCame, upLoop, upLate>> /\ UpGive(Len(UpBuffer), up.proto)
      /\ upWork = "flush" /\ upWork' = "idle" /\ up.proto \in {"websocket", "raw"} /\ up.decided /\ up.processing
      /\ (upClient.tls = "no" \/ up.secure) BY DEF UpInv, UpTyped, UpTurn, UpStreamPlaces, UpFlush, UpStep, UpWorks
<1>2. UpSame(up, up') /\ UpSet(up, up') /\ (up'.reading <=> up.reading \/ ~up.removed) BY <1>1, UpReadsAgain
<1>3. upClient.tls # "h2" /\ ~UpPrefaced BY <1>1 DEF UpWay, UpPlaced, UpSpoken
<1>4. UpSent' /\ UpShaken' /\ Len(upGiven') = upCame'
  BY <1>1, <1>2, <1>3, UpGoesOn DEF UpSame, UpWay, UpPlaced, UpSpoken
<1>5. 1 .. Len(upGiven) \subseteq 1 .. Len(upGiven') BY <1>1, <1>4 DEF UpWay, UpSent
<1>6. UpSpoken' BY <1>1, <1>2, <1>3, <1>5 DEF UpSame, UpWay, UpPlaced, UpSpoken, UpUnits, UpPrefaced
<1>7. UpReady' /\ UpReadsOn' /\ UpReadsOnce' /\ UpTaken'
  BY <1>1, <1>2, <1>4 DEF UpSame, UpSet, UpWay, UpSent, UpPlaced, UpReady, UpReadsOn, UpReadsOnce, UpTaken, UpHasStream, UpUnits
<1> QED BY <1>4, <1>6, <1>7 DEF UpWay, UpPlaced

LEMMA W_Continue == ASSUME UpInv, UpWay, continue_after_response PROVE UpWay'
<1> DEFINE parsed == check_request_state(FALSE)
           next == [up EXCEPT !.started = FALSE, !.writing = TRUE]
<1>1. /\ up \in UpFlags /\ UpTake(parsed) /\ UNCHANGED <<upClient, upCame, upLoop>> /\ upWork = "answer" /\ upLate = "idle"
      /\ up.proto = "http" /\ up.decided /\ up.processing
  BY DEF UpInv, UpTyped, UpTurn, UpHttpPlaces, continue_after_response
<1>2. /\ parsed.is \in {"incomplete", "complete", "error"} /\ parsed.took \in 0 .. Len(UpBuffer)
      /\ parsed.is # "complete" => parsed.took = Len(UpBuffer)
      /\ parsed.is = "complete" => parsed.took > 0 BY UpChecks DEF UpWay
<1>3. /\ up'.proto = "http" /\ up'.decided /\ (up'.secure <=> up.secure) /\ (up'.removed <=> up.removed) /\ (up'.reading <=> up.reading)
      /\ \/ parsed.is = "complete" /\ upWork' = "process" /\ upLate' = "idle" /\ (up'.closing <=> up.closing)
         \/ parsed.is = "error" /\ up'.closing /\ upWork' = "idle" /\ upLate' = "idle"
         \/ parsed.is = "incomplete" /\ upWork' = "idle" /\ upLate' = "pick" /\ ~up'.processing /\ (up'.closing <=> up.closing)
  <2>1. CASE parsed.is = "complete" BY <1>1, <2>1 DEF continue_after_response, UpFlags
  <2>2. CASE parsed.is = "error" BY <1>1, <2>2 DEF continue_after_response, UpFlags, send_error
  <2>3. CASE parsed.is = "incomplete"
    <3> DEFINE w == [next EXCEPT !.started = parsed.took > 0, !.processing = FALSE]
    <3>1. up' = UpCross(w) /\ upWork' = "idle" /\ upLate' = "pick" BY <1>1, <2>3 DEF continue_after_response
    <3>2. DOMAIN w = DOMAIN up /\ w.proto = up.proto /\ (w.decided <=> up.decided) /\ (w.secure <=> up.secure)
          /\ (w.removed <=> up.removed) /\ (w.reading <=> up.reading) /\ (w.closing <=> up.closing) /\ ~w.processing
      BY <1>1 DEF UpFlags
    <3> HIDE DEF w
    <3>3. "crossed" \in DOMAIN w BY <1>1, <3>2 DEF UpFlags
    <3> QED BY <1>1, <2>3, <3>1, <3>2, <3>3 DEF UpCross, UpFlags
  <2> QED BY <1>2, <2>1, <2>2, <2>3
<1>4. UpSent' /\ UpShaken' /\ Len(upGiven') = Len(upGiven) + parsed.took BY <1>1, <1>3, UpTakesHttp
<1>5. Len(upGiven) \in Nat /\ Len(upGiven) <= upCame /\ upCame \in Nat /\ Len(UpBuffer) = upCame - Len(upGiven)
  BY UpBufferIs DEF UpWay, UpSent
<1> HIDE DEF parsed
<1>6. UpSpoken' /\ UpReady'
  BY <1>1, <1>2, <1>3, <1>4, <1>5 DEF UpWay, UpPlaced, UpSpoken, UpReady, UpUnits, UpPrefaced
<1>7. UpReadsOn' /\ UpReadsOnce' BY <1>1, <1>3 DEF UpWay, UpPlaced, UpReadsOn, UpReadsOnce, UpHasStream, UpUnits
<1>8. UpTaken' BY <1>2, <1>3, <1>4, <1>5, <1>1 DEF UpTaken
<1> QED BY <1>4, <1>6, <1>7, <1>8 DEF UpWay, UpPlaced

LEMMA W_Recheck == ASSUME UpInv, UpWay, UpRecheck PROVE UpWay'
<1> DEFINE parsed == check_request_state(up.started)
<1>1. /\ up \in UpFlags /\ up.started \in BOOLEAN /\ UNCHANGED <<upClient, upCame, upLoop>> /\ upLate = "recheck" /\ up.decided
      /\ up.proto \in {"http", "websocket", "raw"} /\ (~up.processing => upWork = "idle" /\ up.proto = "http")
  BY DEF UpInv, UpTyped, UpTurn, UpFlags, UpRecheck
<1>2. /\ parsed.is \in {"incomplete", "complete", "error"} /\ parsed.took \in 0 .. Len(UpBuffer)
      /\ parsed.is # "complete" => parsed.took = Len(UpBuffer)
      /\ parsed.is = "complete" => parsed.took > 0 BY <1>1, UpChecks DEF UpWay
<1>3. CASE up.processing
  <2>1. upLate' = "idle" /\ UNCHANGED <<up, upWork>> /\ UpIdles BY <1>1, <1>3 DEF UpRecheck, UpIdles
  <2>2. maybe_preface' <=> maybe_preface BY <2>1, UpPrefaceStays
  <2>3. UpSpoken' /\ UpReady'
    BY <1>1, <2>1 DEF UpIdles, UpWay, UpPlaced, UpSpoken, UpReady, UpUnits, UpRequest, UpPrefaced
  <2>4. UpReadsOn' /\ UpReadsOnce' /\ UpTaken'
    BY <1>1, <1>3, <2>1, <2>2 DEF UpIdles, UpWay, UpPlaced, UpReadsOn, UpReadsOnce, UpTaken, UpHasStream, UpUnits
  <2> QED BY <2>1, <2>3, <2>4, UpHolding DEF UpPlaced
<1>4. CASE ~up.processing /\ parsed.is = "error"
  <2>1. upLate' = "trigger" /\ UNCHANGED <<up, upWork>> /\ UpIdles /\ upLoop' = upLoop
    BY <1>1, <1>4 DEF UpRecheck, UpIdles
  <2> QED BY <1>1, <2>1, UpQuietly DEF UpSame, UpSet
<1>5. CASE ~up.processing /\ parsed.is # "error"
  <2>1. UpTake(parsed) BY <1>5 DEF UpRecheck
  <2>2. /\ up'.proto = "http" /\ up'.decided /\ (up'.secure <=> up.secure) /\ (up'.removed <=> up.removed)
        /\ (up'.reading <=> up.reading) /\ (up'.closing <=> up.closing)
        /\ \/ parsed.is = "complete" /\ upWork' = "process" /\ upLate' = "idle"
           \/ parsed.is = "incomplete" /\ upWork' = "idle" /\ upLate' = "trigger" /\ ~up'.processing
    <3>1. CASE parsed.is = "complete" BY <1>1, <1>5, <3>1 DEF UpRecheck, UpFlags
    <3>2. CASE parsed.is = "incomplete"
      <4>1. /\ up' = [up EXCEPT !.started = @ \/ parsed.took > 0] /\ UNCHANGED upWork /\ upLate' = "trigger"
        BY <1>5, <3>2 DEF UpRecheck
      <4> QED BY <1>1, <1>5, <3>2, <4>1 DEF UpFlags
    <3> QED BY <1>2, <1>5, <3>1, <3>2
  <2>3. UpSent' /\ UpShaken' /\ Len(upGiven') = Len(upGiven) + parsed.took BY <1>1, <1>5, <2>1, <2>2, UpTakesHttp
  <2>4. Len(upGiven) \in Nat /\ Len(upGiven) <= upCame /\ upCame \in Nat /\ Len(UpBuffer) = upCame - Len(upGiven)
    BY UpBufferIs DEF UpWay, UpSent
  <2> HIDE DEF parsed
  <2>5. UpSpoken' /\ UpReady'
    BY <1>1, <1>2, <2>2, <2>3, <2>4 DEF UpWay, UpPlaced, UpSpoken, UpReady, UpUnits, UpPrefaced
  <2>6. UpReadsOn' /\ UpReadsOnce' BY <1>1, <2>2 DEF UpWay, UpPlaced, UpReadsOn, UpReadsOnce, UpHasStream, UpUnits
  <2>7. UpTaken' BY <1>1, <1>2, <2>2, <2>3, <2>4 DEF UpTaken
  <2> QED BY <2>3, <2>5, <2>6, <2>7 DEF UpWay, UpPlaced
<1> QED BY <1>2, <1>3, <1>4, <1>5

LEMMA W_Pass == ASSUME UpInv, UpWay, UpPass PROVE UpWay'
<1> DEFINE proto == IF is_preface THEN "http2" ELSE up.proto
           taker == CASE proto = "websocket" /\ up.ws -> IF up.handler THEN proto ELSE "nobody"
                      [] proto = "raw" /\ up.onData -> proto
                      [] proto = "http2" -> proto
                      [] OTHER -> "none"
           time == IF proto = "http2" THEN "idle" ELSE "websocket_idle"
           u == [up EXCEPT !.decided = TRUE, !.proto = proto, !.timer = time]
<1>1. /\ up \in UpFlags /\ up.proto \in {"http", "http2", "websocket", "raw"}
      /\ UNCHANGED <<upClient, upCame, upWork, upLate>> /\ upLoop = "dispatch" /\ upLoop' = "idle" /\ proto # "http"
      /\ up' = trigger_read(u) /\ UpGive(IF taker = "none" THEN 0 ELSE Len(UpBuffer), taker)
  BY DEF UpInv, UpTyped, UpFlags, UpPass
<1>2. is_preface => UpPrefaced /\ up.proto = "http" /\ upWork = "idle" /\ upLate = "idle"
  <2> SUFFICES ASSUME is_preface PROVE UpPrefaced /\ up.proto = "http" /\ upWork = "idle" /\ upLate = "idle" OBVIOUS
  <2>1. upClient.tls = "no" /\ upClient.h2c /\ up.proto = "http" /\ ~up.decided /\ Len(UpBuffer) >= 2 /\ SubSeq(UpBuffer, 1, 2) = <<"pre1", "pre2">>
    BY DEF is_preface, UpUndecided
  <2>2. Len(upGiven) = 0 /\ upWork = "idle" /\ upLate = "idle" BY <2>1 DEF UpInv, UpTurn, UpWay, UpPlaced, UpTaken
  <2>3. UpBuffer \in Seq(UpKinds) /\ Len(UpBuffer) = upCame /\ UpBuffer[1] = UpUnits[1] /\ UpBuffer[2] = UpUnits[2] /\ upCame <= Len(UpUnits)
        /\ Len(UpUnits) \in Nat /\ upCame \in Nat BY <2>1, <2>2, UpBufferIs, UpClientIs DEF UpWay, UpSent
  <2> DEFINE two == SubSeq(UpBuffer, 1, 2)
  <2>4. two[1] = UpBuffer[1] /\ two[2] = UpBuffer[2] /\ two = <<"pre1", "pre2">> BY <2>1, <2>3
  <2> HIDE DEF two
  <2>5. UpBuffer[1] = "pre1" /\ UpBuffer[2] = "pre2" BY <2>4
  <2> QED BY <2>1, <2>2, <2>3, <2>5 DEF UpPrefaced
<1>3. upClient.tls = "no" \/ up.secure BY <1>1 DEF UpInv, UpTurn
<1>4. /\ proto = "http2" => upClient.tls = "h2" \/ UpPrefaced
      /\ proto # "http2" => proto \in {"websocket", "raw"} /\ proto = up.proto /\ up.decided /\ upClient.tls # "h2" /\ ~UpPrefaced
  BY <1>1, <1>2, <1>3, UpClientIs DEF UpInv, UpTurn, UpWay, UpSent, UpPlaced, UpSpoken
<1>5. /\ proto = "websocket" => (up.ws \/ upWork = "install") /\ (up.handler \/ upWork \in {"install", "handler"})
      /\ proto = "raw" => up.onData \/ upWork = "callbacks"
      /\ (proto = "websocket" /\ upWork \in {"install", "handler"}) => UpHasStream
  BY <1>1, <1>4 DEF UpWay, UpPlaced, UpReady, UpReadsOnce
<1>6. /\ up'.proto = proto /\ up'.decided /\ (up'.secure <=> up.secure) /\ (up'.closing <=> up.closing) /\ UpSet(up, up')
      /\ (up'.removed <=> up.removed) /\ (up'.processing <=> up.processing) /\ (up'.reading <=> up.reading \/ ~up.removed)
  <2>1. proto \in {"http2", "websocket", "raw"} /\ time \in UpTimers BY <1>1 DEF UpTimers
  <2> HIDE DEF proto, time
  <2>2. u \in UpFlags /\ u.proto = proto /\ u.decided /\ (u.secure <=> up.secure) /\ (u.closing <=> up.closing) /\ UpSet(up, u)
        /\ (u.removed <=> up.removed) /\ (u.processing <=> up.processing) /\ (u.reading <=> up.reading)
    <3> DEFINE v == [up EXCEPT !.proto = proto]
    <3>1. v \in UpFlags /\ v.proto = proto /\ (v.secure <=> up.secure) /\ (v.closing <=> up.closing) /\ UpSet(up, v)
          /\ (v.removed <=> up.removed) /\ (v.processing <=> up.processing) /\ (v.reading <=> up.reading)
      BY <1>1, <2>1 DEF UpFlags, UpSet
    <3>2. u = [[v EXCEPT !.decided = TRUE] EXCEPT !.timer = time] BY <1>1 DEF UpFlags
    <3> HIDE DEF v, u
    <3> QED BY <2>1, <3>1, <3>2 DEF UpFlags, UpSet
  <2> HIDE DEF u
  <2> QED BY <1>1, <2>2, UpReadsAgain DEF UpSame, UpSet
<1>7. UpSent' /\ UpShaken' /\ Len(upGiven) <= Len(upGiven') /\ (Len(upGiven') = upCame' \/ upWork \in {"install", "callbacks"})
  <2>1. CASE taker = "none"
    <3>1. UpGive(0, taker) /\ upWork \in {"install", "callbacks"} BY <1>1, <1>4, <1>5, <2>1
    <3>2. Len(upGiven) \in Nat /\ upCame \in Nat /\ Len(upGiven) <= upCame /\ upCame <= Len(UpUnits) /\ Len(UpUnits) \in Nat
      BY UpClientIs DEF UpWay, UpSent
    <3> HIDE DEF taker, proto, u
    <3>3. UpSent' /\ Len(upGiven') = Len(upGiven) + 0 BY <1>1, <1>6, <3>1, <3>2, UpGives DEF UpWay
    <3> QED BY <1>1, <1>3, <1>6, <3>1, <3>2, <3>3, UpShakenGrows DEF UpWay
  <2>2. CASE taker # "none"
    <3>1. UpGive(Len(UpBuffer), taker) BY <1>1, <2>2
    <3>2. \/ taker = "http2" /\ proto = "http2"
          \/ taker = proto /\ proto \in {"websocket", "raw"}
          \/ taker = "nobody" /\ UpHasStream BY <1>1, <1>4, <1>5, <2>2
    <3>3. /\ proto = "websocket" => \E j \in 1 .. Len(upGiven) : UpUnits[j] = "ws"
          /\ proto = "raw" => \E j \in 1 .. Len(upGiven) : UpUnits[j] = "tunnel" BY <1>4 DEF UpWay, UpPlaced, UpSpoken
    <3> HIDE DEF taker, proto, u
    <3>4. UpSent' /\ UpShaken' /\ Len(upGiven') = upCame'
      BY <1>1, <1>3, <1>4, <1>6, <3>1, <3>2, <3>3, UpGoesOn DEF UpWay
    <3> QED BY <1>1, <3>4 DEF UpWay, UpSent
  <2> QED BY <2>1, <2>2
<1>8. 1 .. Len(upGiven) \subseteq 1 .. Len(upGiven') /\ Len(upGiven) \in Nat /\ Len(upGiven') \in Nat
  BY <1>7 DEF UpWay, UpSent
<1>9. upWork \in UpHttpPlaces => up.proto = "http" BY DEF UpInv, UpTurn
<1> HIDE DEF taker, u
<1>10. UpSpoken' /\ UpReady'
  BY <1>1, <1>2, <1>4, <1>6, <1>8, <1>9 DEF UpHttpPlaces, UpSet, UpWay, UpPlaced, UpSpoken, UpReady, UpUnits, UpPrefaced
<1>11. UpReadsOn' /\ UpReadsOnce'
  BY <1>1, <1>2, <1>4, <1>6 DEF UpWay, UpPlaced, UpReadsOn, UpReadsOnce, UpHasStream, UpUnits
<1>12. UpTaken' BY <1>1, <1>6, <1>7, <1>8 DEF UpTaken
<1> QED BY <1>7, <1>10, <1>11, <1>12 DEF UpWay, UpPlaced

\* What a read brings: units of the handshake first.
LEMMA UpCameIs ==
  ASSUME UpSent, NEW n \in Nat, upCame + n <= Len(UpUnits)
  PROVE  LET came == SubSeq(UpUnits, upCame + 1, upCame + n)
             shook == CHOOSE k \in 0 .. n : \A i \in 1 .. n : came[i] \in UpShakes <=> i <= k
         IN  /\ DOMAIN came = 1 .. n /\ \A i \in 1 .. n : came[i] = UpUnits[upCame + i]
             /\ shook \in 0 .. n /\ \A i \in 1 .. n : UpUnits[upCame + i] \in UpShakes <=> i <= shook
<1> DEFINE came == SubSeq(UpUnits, upCame + 1, upCame + n)
           Fits(k) == \A i \in 1 .. n : came[i] \in UpShakes <=> i <= k
           others == {i \in 1 .. n : came[i] \notin UpShakes}
<1>1. UpUnits \in Seq(UpKinds) /\ upCame \in Nat /\ Len(UpUnits) \in Nat BY UpClientIs DEF UpSent
<1>2. DOMAIN came = 1 .. n /\ \A i \in 1 .. n : came[i] = UpUnits[upCame + i] BY <1>1
<1> HIDE DEF came
<1>3. ASSUME NEW i \in 1 .. n, NEW j \in 1 .. n, i < j, came[j] \in UpShakes PROVE came[i] \in UpShakes
  <2>1. upCame + i \in 1 .. Len(UpUnits) /\ upCame + j \in 1 .. Len(UpUnits) /\ upCame + i < upCame + j BY <1>1, <1>3
  <2>2. UpUnits[upCame + i] = "hello" BY <1>2, <1>3, <2>1, UpClientIs DEF UpSent
  <2> QED BY <1>2, <2>2 DEF UpShakes
<1>4. \E k \in 0 .. n : Fits(k)
  <2>1. CASE others = {}
    <3>1. Fits(n) BY <2>1
    <3> QED BY <3>1
  <2>2. CASE others # {}
    <3>a. others \in SUBSET Nat BY <1>1
    <3> HIDE DEF others
    <3>1. PICK m \in others : \A y \in others : m <= y BY <2>2, <3>a, Smallest
    <3> USE DEF others
    <3>2. m \in 1 .. n /\ came[m] \notin UpShakes BY <3>1
    <3>3. ASSUME NEW i \in 1 .. n PROVE came[i] \in UpShakes <=> i <= m - 1
      <4>1. CASE i < m
        <5>1. i \notin others BY <3>1, <3>2, <4>1
        <5> QED BY <3>2, <4>1, <5>1
      <4>2. CASE i = m BY <3>2, <4>2
      <4>3. CASE i > m BY <1>3, <3>2, <4>3
      <4> QED BY <3>2, <4>1, <4>2, <4>3
    <3>4. m - 1 \in 0 .. n /\ Fits(m - 1) BY <3>2, <3>3
    <3> QED BY <3>4
  <2> QED BY <2>1, <2>2
<1> DEFINE shook == CHOOSE k \in 0 .. n : Fits(k)
<1>5. shook \in 0 .. n /\ Fits(shook) BY <1>4
<1>6. \A i \in 1 .. n : UpUnits[upCame + i] \in UpShakes <=> i <= shook BY <1>2, <1>5
<1> QED BY <1>2, <1>5, <1>6 DEF came

LEMMA W_Read ==
  ASSUME UpInv, UpWay, NEW n \in 0 .. Len(UpUnits), NEW notify \in BOOLEAN, UpRead(n, notify)
  PROVE  UpWay'
<1> DEFINE came == SubSeq(UpUnits, upCame + 1, upCame + n)
           tls == upClient.tls # "no"
           secure == up.secure \/ \E i \in DOMAIN came : came[i] = "fin"
           shook == CHOOSE k \in 0 .. n : \A i \in 1 .. n : came[i] \in UpShakes <=> i <= k
<1>1. /\ upLoop = "idle" /\ up.reading /\ ~up.removed /\ upCame + n <= Len(UpUnits) /\ (n > 0 \/ notify) /\ (notify => tls /\ secure)
      /\ upCame' = upCame + n /\ UpGive(shook, "tls") /\ UNCHANGED <<upClient, upWork, upLate>>
      /\ upLoop' = IF up'.reading \/ up'.removed THEN "idle" ELSE "dispatch" BY DEF UpRead
<1>2. /\ up \in UpFlags /\ UpSent /\ UpShaken /\ Len(upGiven) \in Nat /\ upCame \in Nat /\ Len(upGiven) <= upCame /\ n \in Nat
      /\ Len(UpUnits) \in Nat /\ upClient \in UpClients BY UpClientIs DEF UpInv, UpTyped, UpWay, UpSent
<1>3. /\ DOMAIN came = 1 .. n /\ \A i \in 1 .. n : came[i] = UpUnits[upCame + i]
      /\ shook \in 0 .. n /\ \A i \in 1 .. n : UpUnits[upCame + i] \in UpShakes <=> i <= shook BY <1>1, <1>2, UpCameIs
<1>4. \/ /\ tls /\ ~secure /\ up' = up
      \/ /\ notify /\ n = shook /\ ~up.processing /\ tls /\ secure
         /\ up' = [up EXCEPT !.removed = TRUE, !.reading = FALSE, !.secure = TRUE]
      \/ /\ ~tls \/ secure
         /\ up' = [up EXCEPT !.reading = FALSE, !.secure = secure, !.close = @ \/ notify, !.fresh = UpBuffer = << >> /\ ~up.started,
                             !.proto = IF secure /\ ~up.secure /\ upClient.tls = "h2" THEN "http2" ELSE @]
  BY <1>1 DEF UpRead
<1> HIDE DEF came, shook
<1>5. ~tls => ~secure /\ ~up.secure
  <2> SUFFICES ASSUME ~tls PROVE ~secure /\ ~up.secure OBVIOUS
  <2>1. \A j \in 1 .. Len(UpUnits) : UpUnits[j] # "fin" BY <1>2, UpClientIs DEF UpShakes
  <2> QED BY <1>1, <1>2, <1>3, <2>1 DEF UpShaken
<1>6. (~tls \/ up.secure) => shook = 0
  <2> SUFFICES ASSUME ~tls \/ up.secure, shook # 0 PROVE FALSE BY <1>3
  <2>1. 1 \in 1 .. n /\ 1 <= shook BY <1>2, <1>3
  <2>2. UpUnits[upCame + 1] \in UpShakes /\ upCame + 1 \in 1 .. Len(UpUnits) BY <1>1, <1>2, <1>3, <2>1
  <2>3. upCame + 1 <= Len(upGiven) BY <1>2, <2>2 DEF UpShaken
  <2> QED BY <1>2, <2>3
<1>7. (tls /\ ~up.secure) => Len(upGiven) = upCame /\ ~up.decided /\ upWork = "idle" /\ upLate = "idle" /\ ~up.processing
  BY <1>2 DEF UpShaken, UpInv, UpTurn
<1>8. up'.closing <=> up.closing BY <1>2, <1>4 DEF UpFlags
<1>9. UpSent' /\ Len(upGiven') = Len(upGiven) + shook
  <2>1. ASSUME NEW i \in Len(upGiven) + 1 .. Len(upGiven) + shook PROVE "tls" \in UpRight(i)'
    <3>1. Len(upGiven) = upCame BY <1>2, <1>3, <1>6, <1>7
    <3>2. i - upCame \in 1 .. n /\ i - upCame <= shook /\ i = upCame + (i - upCame) /\ i \in 1 .. Len(UpUnits)
      BY <1>1, <1>2, <1>3, <3>1
    <3>3. UpUnits[i] \in UpShakes BY <1>3, <3>2
    <3>4. UpMeant(i) = "tls" BY <1>2, <3>2, <3>3, UpMeantIs
    <3>5. UpMeant(i)' = UpMeant(i) BY <1>1 DEF UpMeant, UpUnits, UpPrefaced
    <3> QED BY <3>4, <3>5 DEF UpRight
  <2>2. upCame' \in upCame .. Len(UpUnits) /\ Len(upGiven) + shook <= upCame' /\ shook \in Nat BY <1>1, <1>2, <1>3
  <2> QED BY <1>1, <1>2, <1>8, <2>1, <2>2, UpGives DEF UpTakers
<1>10. 1 .. Len(upGiven) \subseteq 1 .. Len(upGiven') /\ Len(upGiven') \in Nat BY <1>2, <1>3, <1>9
<1>11. CASE tls /\ ~secure
  <2>1. up' = up /\ up'.reading /\ upLoop' = "idle" /\ Len(upGiven) = upCame /\ upWork = "idle" /\ upLate = "idle" /\ ~up.decided
    BY <1>1, <1>4, <1>7, <1>11
  <2>2. \A i \in 1 .. upCame : UpUnits[i] = "hello" BY <1>2, <1>11 DEF UpShaken
  <2>3. \A i \in 1 .. n : UpUnits[upCame + i] # "fin" BY <1>3, <1>11
  <2>4. ASSUME NEW i \in 1 .. upCame + n PROVE UpUnits[i] # "fin"
    <3>1. CASE i <= upCame BY <1>2, <2>2, <3>1
    <3>2. CASE i > upCame
      <4>1. i - upCame \in 1 .. n /\ upCame + (i - upCame) = i BY <1>2, <3>2
      <4> QED BY <2>3, <4>1
    <3> QED BY <1>2, <3>1, <3>2
  <2>5. \A i \in 1 .. upCame + n : UpUnits[i] = "hello"
    <3> SUFFICES ASSUME NEW i \in 1 .. upCame + n PROVE UpUnits[i] = "hello" OBVIOUS
    <3>1. i \in 1 .. Len(UpUnits) /\ 1 .. i \subseteq 1 .. upCame + n BY <1>1, <1>2
    <3>2. UpUnits[i] \in UpShakes BY <1>2, <1>11, <2>4, <3>1, UpClientIs
    <3> QED BY <2>4, <3>2 DEF UpShakes
  <2>6. shook = n
    <3> SUFFICES ASSUME shook # n PROVE FALSE OBVIOUS
    <3>1. n \in 1 .. n /\ upCame + n \in 1 .. upCame + n /\ ~(n <= shook) BY <1>2, <1>3
    <3> QED BY <1>3, <2>5, <3>1 DEF UpShakes
  <2>7. Len(upGiven') = upCame' /\ UpShaken' BY <1>1, <1>2, <1>9, <1>11, <2>1, <2>5, <2>6 DEF UpShaken, UpUnits
  <2>8. UpSpoken' /\ UpReady' BY <1>1, <1>10, <2>1 DEF UpWay, UpPlaced, UpSpoken, UpReady, UpUnits, UpPrefaced
  <2>9. UpReadsOn' /\ UpReadsOnce' /\ UpTaken'
    BY <1>1, <1>11, <2>1, <2>7 DEF UpWay, UpPlaced, UpReadsOn, UpReadsOnce, UpTaken, UpHasStream, UpUnits
  <2> QED BY <1>9, <2>7, <2>8, <2>9 DEF UpWay, UpPlaced
<1>12. CASE ~tls \/ secure
  <2> DEFINE left == notify /\ n = shook /\ ~up.processing /\ tls
             proto == IF tls /\ ~up.secure /\ upClient.tls = "h2" THEN "http2" ELSE up.proto
  <2>1. /\ ~up'.reading /\ (up'.secure <=> secure) /\ (up'.decided <=> up.decided) /\ (up'.processing <=> up.processing) /\ UpSet(up, up')
        /\ \/ tls /\ ~up.processing /\ up'.removed /\ up'.proto = up.proto /\ upLoop' = "idle"
           \/ ~up'.removed /\ up'.proto = proto /\ upLoop' = "dispatch"
    <3>1. CASE /\ tls /\ secure /\ ~up.processing
               /\ up' = [up EXCEPT !.removed = TRUE, !.reading = FALSE, !.secure = TRUE]
      <4>1. /\ ~up'.reading /\ up'.secure /\ (up'.decided <=> up.decided) /\ (up'.processing <=> up.processing) /\ UpSet(up, up')
            /\ up'.removed /\ up'.proto = up.proto BY <1>2, <3>1 DEF UpFlags, UpSet
      <4> QED BY <1>1, <3>1, <4>1
    <3>2. CASE up' = [up EXCEPT !.reading = FALSE, !.secure = secure, !.close = @ \/ notify, !.fresh = UpBuffer = << >> /\ ~up.started,
                                !.proto = IF secure /\ ~up.secure /\ upClient.tls = "h2" THEN "http2" ELSE @]
      <4> DEFINE shut == up.close \/ notify
                 new == UpBuffer = << >> /\ ~up.started
                 then == IF secure /\ ~up.secure /\ upClient.tls = "h2" THEN "http2" ELSE up.proto
      <4>1. then = proto BY <1>5, <1>12
      <4>2. up' = [up EXCEPT !.reading = FALSE, !.secure = secure, !.close = shut, !.fresh = new, !.proto = then]
        BY <1>2, <3>2 DEF UpFlags
      <4> HIDE DEF shut, new, then, proto, secure
      <4>3. /\ ~up'.reading /\ up'.secure = secure /\ (up'.decided <=> up.decided) /\ (up'.processing <=> up.processing) /\ UpSet(up, up')
            /\ (up'.removed <=> up.removed) /\ up'.proto = then BY <1>2, <4>2 DEF UpFlags, UpSet
      <4> QED BY <1>1, <4>1, <4>3
    <3> QED BY <1>4, <1>12, <3>1, <3>2
  <2>2. UpShaken'
    <3>1. CASE ~tls \/ up.secure BY <1>1, <1>2, <1>5, <1>6, <1>9, <2>1, <3>1, UpShakenGrows
    <3>2. CASE tls /\ ~up.secure
      <4>1. PICK f \in 1 .. n : UpUnits[upCame + f] = "fin" BY <1>3, <1>12, <3>2
      <4>2. ASSUME NEW i \in 1 .. Len(UpUnits), UpUnits[i] \in UpShakes PROVE i <= upCame + shook
        <5>1. i <= upCame + f
          <6> SUFFICES ASSUME i > upCame + f PROVE FALSE BY <1>2
          <6>1. upCame + f \in 1 .. Len(UpUnits) BY <1>1, <1>2
          <6>2. UpUnits[upCame + f] = "hello" BY <1>2, <4>2, <6>1, UpClientIs
          <6> QED BY <4>1, <6>2
        <5>2. f <= shook BY <1>3, <4>1 DEF UpShakes
        <5> QED BY <1>2, <1>3, <5>1, <5>2
      <4> QED BY <1>1, <1>5, <1>7, <1>9, <1>12, <2>1, <3>2, <4>2 DEF UpShaken, UpUnits
    <3> QED BY <3>1, <3>2
  <2>3. (upWork # "idle" => shook = 0 /\ Len(upGiven') = Len(upGiven)) /\ (~tls => Len(upGiven') = Len(upGiven) /\ n > 0)
    BY <1>1, <1>2, <1>6, <1>7, <1>9
  <2>4. (tls /\ up.secure /\ upClient.tls = "h2") => up.proto = "http2" BY <1>1 DEF UpWay, UpPlaced, UpSpoken
  <2>5. UpPrefaced' <=> UpPrefaced BY <1>1 DEF UpPrefaced, UpUnits
  <2>6. UpPrefaced => ~tls BY DEF UpPrefaced
  <2> HIDE DEF secure
  <2>7. UpSpoken' /\ UpReady'
    BY <1>1, <1>5, <1>7, <1>10, <1>12, <2>1, <2>3, <2>4, <2>5, <2>6 DEF UpSet, UpWay, UpPlaced, UpSpoken, UpReady, UpUnits, UpRequest
  <2>8. UpReadsOn' /\ UpReadsOnce'
    BY <1>1, <1>7, <2>1 DEF UpWay, UpPlaced, UpReadsOn, UpReadsOnce, UpHasStream, UpUnits
  <2>9. UpTaken' BY <1>1, <1>2, <2>1, <2>3 DEF UpWay, UpPlaced, UpTaken
  <2> QED BY <1>9, <2>2, <2>7, <2>8, <2>9 DEF UpWay, UpPlaced
<1> QED BY <1>11, <1>12

LEMMA UpWayInit == UpInit => UpWay
<1> SUFFICES ASSUME UpInit PROVE UpWay OBVIOUS
<1>1. upClient \in UpClients /\ upCame = 0 /\ upGiven = << >> /\ Len(upGiven) = 0 /\ upLoop = "idle" /\ upWork = "idle" /\ upLate = "idle"
  BY DEF UpInit
<1>2. up.proto = "http" /\ ~up.secure /\ ~up.decided /\ up.reading /\ ~up.processing BY DEF UpInit
<1>3. UpSent /\ UpShaken BY <1>1, <1>2, UpClientIs DEF UpSent, UpShaken
<1>4. UpPlaced BY <1>1, <1>2 DEF UpPlaced, UpSpoken, UpReady, UpReadsOn, UpReadsOnce, UpTaken
<1> QED BY <1>3, <1>4 DEF UpWay

LEMMA UpWayStep == UpInv /\ UpWay /\ [UpNext]_upVars => UpWay'
<1> SUFFICES ASSUME UpInv, UpWay, [UpNext]_upVars PROVE UpWay' OBVIOUS
<1>1. CASE UNCHANGED upVars
  <2>1. UpSent' /\ UpShaken'
    BY <1>1 DEF upVars, UpWay, UpSent, UpShaken, UpRight, UpMeant, UpUnits, UpPrefaced, UpHasStream
  <2>2. UpPlaced'
    BY <1>1 DEF upVars, UpWay, UpPlaced, UpSpoken, UpReady, UpReadsOn, UpReadsOnce, UpTaken, UpUnits, UpRequest, UpPrefaced,
      UpHasStream, maybe_preface, UpUndecided, UpBuffer
  <2> QED BY <2>1, <2>2 DEF UpWay
<1>2. CASE UpNext
  BY <1>2, W_Leave, W_Quiet, W_Closes, W_Shutdown, W_Upgrades, W_Written, W_Http, W_Await, W_Flush, W_Continue, W_Recheck, W_Pass, W_Read
  DEF UpNext
<1> QED BY <1>1, <1>2

LEMMA UpWaySays == UpInv /\ UpWay => UpTypeOK /\ BytesFindProtocol
<1> SUFFICES ASSUME UpInv, UpWay PROVE UpTypeOK /\ BytesFindProtocol OBVIOUS
<1>1. DOMAIN upGiven = 1 .. Len(upGiven) /\ Len(upGiven) \in Nat /\ upCame \in Nat BY DEF UpWay, UpSent
<1>2. UpTypeOK BY DEF UpTypeOK, UpInv, UpTyped, UpFlags, UpWay, UpSent, UpUnits
<1>3. UpWaits => up.reading /\ (UpBuffer = << >> \/ maybe_preface)
  <2> SUFFICES ASSUME UpWaits PROVE up.reading /\ (UpBuffer = << >> \/ maybe_preface) OBVIOUS
  <2>1. up.reading /\ (~(Len(upGiven) < upCame) \/ maybe_preface) BY DEF UpWaits, UpWay, UpPlaced, UpReadsOn, UpTaken
  <2>2. Len(UpBuffer) = upCame - Len(upGiven) /\ UpBuffer \in Seq(UpKinds) /\ Len(upGiven) <= upCame
    BY UpBufferIs DEF UpWay, UpSent
  <2>3. Len(UpBuffer) = 0 => UpBuffer = << >> BY <2>2
  <2> DEFINE given == Len(upGiven)
             held == Len(UpBuffer)
  <2>a. given \in Nat /\ upCame \in Nat /\ held = upCame - given /\ given <= upCame BY <1>1, <2>2
  <2> HIDE DEF given, held
  <2>b. ~(given < upCame) => held = 0 BY <2>a
  <2>4. ~(Len(upGiven) < upCame) => Len(UpBuffer) = 0 BY <2>b DEF given, held
  <2> QED BY <2>1, <2>3, <2>4, Zenon
<1> QED BY <1>1, <1>2, <1>3 DEF BytesFindProtocol, UpWay, UpSent, UpRight

----
\* HTTP/2 streams.

H2Streams ==
  [st : {"none", "reading", "handling", "answering", "done", "closed"}, body : Nat, body_too_large : BOOLEAN,
   streaming : BOOLEAN, stream_ended : BOOLEAN, written : Nat, sent : Nat, window : Nat, deferred : BOOLEAN, file : BOOLEAN]
H2Writers == [exists : BOOLEAN, headers_sent : BOOLEAN, notice : Nat, told : {0, 1}]

\* What is true of a stream, its writer and its file inside a call of the
\* session, before send_pending() has run.
H2Data(c) ==
  /\ c.sent <= c.written
  /\ c.deferred => c.sent = c.written /\ c.streaming /\ ~c.stream_ended
  /\ c.st \notin {"answering", "done"} => c.sent = 0 /\ ~c.deferred /\ ~c.streaming
  /\ c.st = "none" => ~c.file

H2Told(c, w, fd) ==
  /\ c.st = "answering" => w.headers_sent
  /\ w.exists => c.st \in {"handling", "answering", "done", "closed"}
  /\ fd = (IF c.file /\ (c.st = "closed" \/ (h2Conn = "destroyed" /\ c.st # "none")) THEN 1 ELSE 0)
  /\ w.notice > 0 => c.st = "closed"
  /\ w.told > 0 => c.st = "closed" \/ h2Conn # "open"
  /\ (w.exists /\ (c.st = "closed" \/ h2Conn # "open")) => w.told = 1 \/ w.notice > 0
  /\ c.st = "done" => h2Conn = "open"

H2Inside(c, w, fd) == c \in H2Streams /\ w \in H2Writers /\ fd \in Nat /\ H2Data(c) /\ H2Told(c, w, fd)

\* Between the calls no stream is about to close, and one that answers waits
\* for its window or for its handler.
H2Rests(c) == c.st # "done" /\ ((c.st = "answering" /\ h2Conn = "open") => c.window = 0 \/ c.deferred)

H2Typed ==
  /\ h2Stream \in [H2Ids -> H2Streams] /\ h2Writer \in [H2Ids -> H2Writers] /\ h2Fd \in [H2Ids -> Nat]
  /\ h2Task \in [H2Ids -> {"none", "running", "returned"}]
  /\ h2Ended \in BOOLEAN /\ h2Closing \in BOOLEAN /\ h2Conn \in {"open", "gone", "destroyed"}

H2Streamed == \A s \in H2Ids : H2Inside(h2Stream[s], h2Writer[s], h2Fd[s]) /\ H2Rests(h2Stream[s])

H2Shut == (h2Closing /\ ~h2Ended) => \A s \in H2Ids : ~H2Open(s)

H2Inv == H2Typed /\ H2Streamed /\ H2Shut

LEMMA H2Started == H2Init => H2Inv
<1> SUFFICES ASSUME H2Init PROVE H2Inv OBVIOUS
<1>1. H2NoStream \in H2Streams /\ H2NoStream.st = "none" /\ H2NoStream.sent = 0 /\ H2NoStream.written = 0
      /\ ~H2NoStream.deferred /\ ~H2NoStream.streaming /\ ~H2NoStream.file BY DEF H2NoStream, H2Streams
<1>2. H2NoWriter \in H2Writers /\ ~H2NoWriter.exists /\ H2NoWriter.notice = 0 /\ H2NoWriter.told = 0
  BY DEF H2NoWriter, H2Writers
<1>3. H2Typed BY <1>1, <1>2 DEF H2Init, H2Typed
<1>4. ASSUME NEW s \in H2Ids PROVE H2Inside(h2Stream[s], h2Writer[s], h2Fd[s]) /\ H2Rests(h2Stream[s])
  <2>1. h2Stream[s] = H2NoStream /\ h2Writer[s] = H2NoWriter /\ h2Fd[s] = 0 /\ h2Conn = "open" BY DEF H2Init
  <2> QED BY <1>1, <1>2, <2>1 DEF H2Inside, H2Rests, H2Data, H2Told
<1> QED BY <1>3, <1>4 DEF H2Init, H2Inv, H2Streamed, H2Shut

LEMMA H2Holds == H2Inv => H2NothingStranded /\ H2EndsClean
<1> SUFFICES ASSUME H2Inv PROVE H2NothingStranded /\ H2EndsClean OBVIOUS
<1>1. H2NothingStranded BY DEF H2Inv, H2Streamed, H2Inside, H2Data, H2Rests, H2NothingStranded
<1>2. H2EndsClean
  <2>1. (h2Closing /\ ~h2Ended /\ h2Conn = "open") => \A s \in H2Ids : ~H2Open(s) BY DEF H2Inv, H2Shut
  <2>2. ASSUME NEW s \in H2Ids
        PROVE  /\ h2Fd[s] = IF (h2Stream[s].st = "closed" \/ (h2Conn = "destroyed" /\ H2Open(s))) /\ h2Stream[s].file THEN 1 ELSE 0
               /\ h2Writer[s].told > 0 => ~H2Open(s) \/ h2Conn # "open"
               /\ h2Writer[s].exists /\ (h2Stream[s].st = "closed" \/ h2Conn # "open") =>
                    h2Writer[s].told = 1 \/ h2Writer[s].notice > 0
    <3>1. H2Inside(h2Stream[s], h2Writer[s], h2Fd[s]) /\ h2Stream[s].st # "done" BY DEF H2Inv, H2Streamed, H2Rests
    <3>2. h2Stream[s].st \in {"none", "reading", "handling", "answering", "closed"} BY <3>1 DEF H2Inside, H2Streams
    <3>3. H2Open(s) <=> h2Stream[s].st \notin {"none", "closed"} BY <3>2 DEF H2Open
    <3> QED BY <3>1, <3>3 DEF H2Inside, H2Told
  <2> QED BY <2>1, <2>2 DEF H2EndsClean
<1> QED BY <1>1, <1>2

\* data_provider_read() takes what the window allows: then the window is used
\* up, or all is sent and the stream ends or sleeps until there is more.
LEMMA H2ReadOnce ==
  ASSUME NEW c \in H2Streams, c.st = "answering", H2Data(c)
  PROVE  LET d == data_provider_read(c) IN
         /\ d \in H2Streams /\ d.st \in {"answering", "done"} /\ H2Data(d)
         /\ d.file <=> c.file
         /\ d.st = "answering" => d.window = 0 \/ d.deferred
<1> DEFINE d == data_provider_read(c)
<1>1. CASE c.window = 0 \/ c.deferred
  <2>1. d = c BY <1>1 DEF data_provider_read
  <2> QED BY <1>1, <2>1
<1>2. CASE ~(c.window = 0 \/ c.deferred)
  <2> DEFINE more == c.streaming /\ ~c.stream_ended
             read == H2Least(c.window, c.written - c.sent)
             left == c.written - c.sent - read
             at == IF left = 0 /\ ~more THEN "done" ELSE c.st
             deferred == left = 0 /\ more
  <2>1. d = [c EXCEPT !.sent = @ + read, !.window = @ - read, !.st = at, !.deferred = deferred]
    BY <1>2 DEF data_provider_read
  <2>2. c.window \in Nat /\ c.written \in Nat /\ c.sent \in Nat /\ c.sent <= c.written BY DEF H2Streams, H2Data
  <2>3. /\ read \in Nat /\ left \in Nat /\ c.sent + read \in Nat /\ c.window - read \in Nat
        /\ c.sent + read <= c.written /\ (left = 0 => c.sent + read = c.written) /\ (left # 0 => c.window - read = 0)
    BY <2>2 DEF H2Least
  <2>4. at \in {"answering", "done"} /\ deferred \in BOOLEAN /\ (deferred <=> left = 0 /\ more) /\ (at = "answering" => left # 0 \/ more)
    OBVIOUS
  <2> HIDE DEF read, left, at, deferred
  <2>5. d \in H2Streams BY <2>1, <2>3, <2>4 DEF H2Streams
  <2>6. d.sent = c.sent + read /\ d.window = c.window - read /\ d.st = at /\ (d.deferred <=> deferred)
        /\ d.written = c.written /\ (d.file <=> c.file) /\ (d.streaming <=> c.streaming) /\ (d.stream_ended <=> c.stream_ended)
    BY <2>1, <2>3, <2>4 DEF H2Streams
  <2>7. H2Data(d) BY <2>2, <2>3, <2>4, <2>6 DEF H2Data
  <2> QED BY <2>3, <2>4, <2>5, <2>6, <2>7
<1> QED BY <1>1, <1>2

\* The context that on_stream_close() leaves behind.
LEMMA H2Gone ==
  ASSUME NEW f \in BOOLEAN
  PROVE  LET d == [H2NoStream EXCEPT !.st = "closed", !.file = f] IN
         d \in H2Streams /\ d.st = "closed" /\ H2Data(d) /\ (d.file <=> f)
<1> DEFINE d == [H2NoStream EXCEPT !.st = "closed", !.file = f]
<1>1. d \in H2Streams BY DEF H2NoStream, H2Streams
<1>2. d.st = "closed" /\ d.sent = 0 /\ d.written = 0 /\ ~d.deferred /\ ~d.streaming /\ (d.file <=> f)
  BY DEF H2NoStream
<1> QED BY <1>1, <1>2 DEF H2Data

\* on_stream_close() counts one more notice for the writer there is.
LEMMA H2Noticed ==
  ASSUME NEW w \in H2Writers
  PROVE  LET v == [w EXCEPT !.notice = @ + 1] IN
         /\ v \in H2Writers /\ v.notice = w.notice + 1 /\ v.notice > 0 /\ v.told = w.told
         /\ (v.exists <=> w.exists) /\ (v.headers_sent <=> w.headers_sent) BY DEF H2Writers

\* What send_pending() leaves of one stream.
LEMMA H2ReadStream ==
  ASSUME NEW c, NEW w, NEW fd, H2Inside(c, w, fd), NEW d,
         d = (IF c.st = "answering" /\ h2Conn = "open" THEN data_provider_read(c) ELSE c)
  PROVE  /\ H2Inside(d, w, fd)
         /\ (d.st = "answering" /\ h2Conn = "open") => d.window = 0 \/ d.deferred
         /\ c.st \in {"none", "done", "closed"} => d.st = c.st
<1>1. CASE c.st = "answering" /\ h2Conn = "open"
  <2>1. c \in H2Streams /\ H2Data(c) /\ d = data_provider_read(c) BY <1>1 DEF H2Inside
  <2>2. /\ d \in H2Streams /\ d.st \in {"answering", "done"} /\ H2Data(d)
        /\ d.file <=> c.file
        /\ d.st = "answering" => d.window = 0 \/ d.deferred BY <1>1, <2>1, H2ReadOnce
  <2>3. H2Told(d, w, fd) BY <1>1, <2>2 DEF H2Inside, H2Told, H2Writers
  <2> QED BY <1>1, <2>2, <2>3 DEF H2Inside
<1>2. CASE ~(c.st = "answering" /\ h2Conn = "open")
  <2>1. d = c BY <1>2
  <2> QED BY <1>2, <2>1
<1> QED BY <1>1, <1>2

\* What on_stream_close() leaves of it.
H2Quiet(d) == (d.st = "answering" /\ h2Conn = "open") => d.window = 0 \/ d.deferred
H2Shuts(d, w, fd, c2, w2, fd2) ==
  /\ c2 = (IF d.st = "done" THEN [H2NoStream EXCEPT !.st = "closed", !.file = d.file] ELSE d)
  /\ w2 = (IF d.st = "done" /\ w.exists THEN [w EXCEPT !.notice = @ + 1] ELSE w)
  /\ fd2 = (IF d.st = "done" /\ d.file THEN fd + 1 ELSE fd)

LEMMA H2CloseStream ==
  ASSUME NEW d, NEW w, NEW fd, NEW c2, NEW w2, NEW fd2,
         H2Inside(d, w, fd), H2Quiet(d), H2Shuts(d, w, fd, c2, w2, fd2)
  PROVE  /\ H2Inside(c2, w2, fd2) /\ H2Rests(c2)
         /\ d.st \in {"none", "done", "closed"} => c2.st \in {"none", "closed"}
<1>0. d \in H2Streams /\ w \in H2Writers /\ fd \in Nat /\ H2Data(d) /\ H2Told(d, w, fd) BY DEF H2Inside
<1>1. CASE d.st = "done"
  <2>1. d.file \in BOOLEAN BY <1>0 DEF H2Streams
  <2>2. c2 \in H2Streams /\ c2.st = "closed" /\ H2Data(c2) /\ (c2.file <=> d.file) BY <1>1, <2>1, H2Gone DEF H2Shuts
  <2>3. h2Conn = "open" /\ fd = 0 /\ w.notice = 0 /\ w.told = 0 BY <1>0, <1>1 DEF H2Told, H2Writers
  <2>4. fd2 = IF c2.file THEN 1 ELSE 0 BY <1>1, <2>2, <2>3 DEF H2Shuts
  <2>5. w2 \in H2Writers /\ w2.told = 0 /\ (w2.exists => w2.notice > 0) BY <1>0, <1>1, <2>3, H2Noticed DEF H2Shuts
  <2>6. H2Told(c2, w2, fd2) BY <2>2, <2>3, <2>4, <2>5 DEF H2Told
  <2> QED BY <2>2, <2>4, <2>5, <2>6 DEF H2Inside, H2Rests
<1>2. CASE d.st # "done"
  <2>1. c2 = d /\ w2 = w /\ fd2 = fd BY <1>2 DEF H2Shuts
  <2> QED BY <1>2, <2>1 DEF H2Rests, H2Quiet
<1> QED BY <1>1, <1>2

\* send_pending() ends every call of the session in a state of the invariant.
LEMMA H2Sent ==
  ASSUME NEW streams, NEW writers, NEW goaway, NEW ended \in BOOLEAN, H2Typed,
         \A s \in H2Ids : H2Inside(streams[s], writers[s], h2Fd[s]),
         (h2Closing /\ ~ended) => \A s \in H2Ids : streams[s].st \in {"none", "done", "closed"},
         send_pending(streams, writers, goaway, ended), h2Conn' = h2Conn,
         h2Task' \in [H2Ids -> {"none", "running", "returned"}]
  PROVE  H2Inv'
<1> DEFINE after == H2After(streams)
<1>1. ASSUME NEW s \in H2Ids
      PROVE  /\ H2Inside(after[s], writers[s], h2Fd[s])
             /\ (after[s].st = "answering" /\ h2Conn = "open") => after[s].window = 0 \/ after[s].deferred
             /\ streams[s].st \in {"none", "done", "closed"} => after[s].st = streams[s].st
  <2>1. after[s] = (IF streams[s].st = "answering" /\ h2Conn = "open" THEN data_provider_read(streams[s]) ELSE streams[s])
    BY DEF H2After
  <2>2. H2Inside(streams[s], writers[s], h2Fd[s]) OBVIOUS
  <2> HIDE DEF after
  <2> QED BY <2>1, <2>2, H2ReadStream
<1>2. /\ on_stream_close(after, writers) /\ h2Ended' = ended
      /\ h2Closing' = (h2Closing \/ (h2Conn = "open" /\
           (ended \/ (goaway # NoGoaway /\ \A s \in H2Ids : after[s].st \in {"none", "done", "closed"}))))
  BY DEF send_pending
<1> HIDE DEF after
<1>3. ASSUME NEW s \in H2Ids
      PROVE  /\ H2Inside(h2Stream'[s], h2Writer'[s], h2Fd'[s]) /\ H2Rests(h2Stream'[s])
             /\ after[s].st \in {"none", "done", "closed"} => h2Stream'[s].st \in {"none", "closed"}
  <2>1. h2Stream'[s] = (IF after[s].st = "done" THEN [H2NoStream EXCEPT !.st = "closed", !.file = after[s].file] ELSE after[s])
    BY <1>2 DEF on_stream_close
  <2>2. h2Writer'[s] = (IF after[s].st = "done" /\ writers[s].exists THEN [writers[s] EXCEPT !.notice = @ + 1] ELSE writers[s])
    BY <1>2 DEF on_stream_close
  <2>3. h2Fd'[s] = (IF after[s].st = "done" /\ after[s].file THEN h2Fd[s] + 1 ELSE h2Fd[s])
    BY <1>2 DEF on_stream_close
  <2>4. H2Inside(after[s], writers[s], h2Fd[s]) /\ H2Quiet(after[s]) BY <1>1 DEF H2Quiet
  <2>5. H2Shuts(after[s], writers[s], h2Fd[s], h2Stream'[s], h2Writer'[s], h2Fd'[s]) BY <2>1, <2>2, <2>3 DEF H2Shuts
  <2> QED BY <2>4, <2>5, H2CloseStream, Zenon
<1>4. H2Typed'
  <2>1. h2Stream' = [s \in H2Ids |-> h2Stream'[s]] /\ h2Writer' = [s \in H2Ids |-> h2Writer'[s]] /\ h2Fd' = [s \in H2Ids |-> h2Fd'[s]]
    BY <1>2 DEF on_stream_close
  <2>2. \A s \in H2Ids : h2Stream'[s] \in H2Streams /\ h2Writer'[s] \in H2Writers /\ h2Fd'[s] \in Nat
    BY <1>3 DEF H2Inside
  <2>3. h2Closing' \in BOOLEAN BY <1>2, Zenon
  <2> QED BY <1>2, <2>1, <2>2, <2>3 DEF H2Typed
<1>5. H2Streamed'
  <2>1. ASSUME NEW s \in H2Ids PROVE (H2Inside(h2Stream[s], h2Writer[s], h2Fd[s]) /\ H2Rests(h2Stream[s]))'
    BY <1>3 DEF H2Inside, H2Told, H2Data, H2Rests
  <2> QED BY <2>1, Zenon DEF H2Streamed
<1>6. H2Shut'
  <2>1. ASSUME h2Closing', ~h2Ended', NEW s \in H2Ids PROVE h2Stream'[s].st \in {"none", "closed"}
    <3>1. after[s].st \in {"none", "done", "closed"} BY <1>1, <1>2, <2>1
    <3> QED BY <1>3, <3>1
  <2> QED BY <2>1 DEF H2Shut, H2Open
<1> QED BY <1>4, <1>5, <1>6 DEF H2Inv

\* The same for a call that has changed one stream.
LEMMA H2Pumped ==
  ASSUME H2Inv, NEW s \in H2Ids, NEW c, NEW w, H2Inside(c, w, h2Fd[s]),
         h2Closing /\ ~h2Ended => c.st \in {"none", "done", "closed"},
         H2Pump([h2Stream EXCEPT ![s] = c], [h2Writer EXCEPT ![s] = w]), h2Conn' = h2Conn,
         h2Task' \in [H2Ids -> {"none", "running", "returned"}]
  PROVE  H2Inv'
<1> DEFINE streams == [h2Stream EXCEPT ![s] = c]
           writers == [h2Writer EXCEPT ![s] = w]
<1>1. H2Typed /\ h2Ended \in BOOLEAN BY DEF H2Inv, H2Typed
<1>2. \A r \in H2Ids : streams[r] = (IF r = s THEN c ELSE h2Stream[r]) /\ writers[r] = (IF r = s THEN w ELSE h2Writer[r])
  BY <1>1 DEF H2Typed
<1>3. send_pending(streams, writers, h2Goaway, h2Ended) BY DEF H2Pump
<1> HIDE DEF streams, writers
<1>4. \A r \in H2Ids : H2Inside(streams[r], writers[r], h2Fd[r]) BY <1>2 DEF H2Inv, H2Streamed
<1>5. h2Closing /\ ~h2Ended => \A r \in H2Ids : streams[r].st \in {"none", "done", "closed"}
  <2>1. \A r \in H2Ids : h2Stream[r].st \in {"none", "reading", "handling", "answering", "done", "closed"}
    BY <1>1 DEF H2Typed, H2Streams
  <2>2. h2Closing /\ ~h2Ended => \A r \in H2Ids : h2Stream[r].st \in {"none", "done", "closed"}
    BY <2>1 DEF H2Inv, H2Shut, H2Open
  <2> QED BY <1>2, <2>2
<1> QED BY <1>1, <1>3, <1>4, <1>5, H2Sent

\* What the invariant says of one stream.
LEMMA H2At ==
  ASSUME H2Inv, NEW s \in H2Ids
  PROVE  /\ h2Stream[s] \in H2Streams /\ h2Writer[s] \in H2Writers /\ h2Fd[s] \in Nat
         /\ H2Inside(h2Stream[s], h2Writer[s], h2Fd[s])
         /\ h2Writer = [h2Writer EXCEPT ![s] = h2Writer[s]] /\ h2Stream = [h2Stream EXCEPT ![s] = h2Stream[s]]
         /\ h2Task \in [H2Ids -> {"none", "running", "returned"}]
         /\ H2Open(s) => ~(h2Closing /\ ~h2Ended) BY DEF H2Inv, H2Typed, H2Streamed, H2Shut

\* A call that changes the stream's context only.
LEMMA H2Changed ==
  ASSUME H2Inv, NEW s \in H2Ids, NEW c \in H2Streams, H2Data(c), H2Told(c, h2Writer[s], h2Fd[s]),
         h2Closing /\ ~h2Ended => c.st \in {"none", "done", "closed"},
         H2Pump([h2Stream EXCEPT ![s] = c], h2Writer), UNCHANGED <<h2Task, h2Conn>>
  PROVE  H2Inv'
<1>1. H2Inside(c, h2Writer[s], h2Fd[s]) BY H2At DEF H2Inside
<1>2. h2Writer = [h2Writer EXCEPT ![s] = h2Writer[s]] /\ h2Task' \in [H2Ids -> {"none", "running", "returned"}]
  BY H2At
<1>3. H2Pump([h2Stream EXCEPT ![s] = c], [h2Writer EXCEPT ![s] = h2Writer[s]]) BY <1>2
<1> QED BY <1>1, <1>2, <1>3, H2Pumped

LEMMA H2_on_begin_headers ==
  ASSUME H2Inv, NEW s \in H2Ids, on_begin_headers(s)
  PROVE  H2Inv'
<1> DEFINE c == [h2Stream[s] EXCEPT !.st = "reading"]
<1>1. h2Stream[s].st = "none" /\ H2Reads /\ UNCHANGED <<h2Task, h2Conn>> BY DEF on_begin_headers
<1>2. h2Stream[s] \in H2Streams /\ H2Data(h2Stream[s]) /\ H2Told(h2Stream[s], h2Writer[s], h2Fd[s])
  BY H2At DEF H2Inside
<1>3. [h2Stream EXCEPT ![s].st = "reading"] = [h2Stream EXCEPT ![s] = c] OBVIOUS
<1>4. H2Pump([h2Stream EXCEPT ![s] = c], h2Writer) BY <1>3 DEF on_begin_headers
<1>5. /\ c \in H2Streams /\ c.st = "reading" /\ c.sent = h2Stream[s].sent /\ c.written = h2Stream[s].written
      /\ (c.deferred <=> h2Stream[s].deferred) /\ (c.streaming <=> h2Stream[s].streaming) /\ (c.file <=> h2Stream[s].file)
  BY <1>2 DEF H2Streams
<1> HIDE DEF c
<1>6. H2Data(c) BY <1>1, <1>2, <1>5 DEF H2Data
<1>7. H2Told(c, h2Writer[s], h2Fd[s]) BY <1>1, <1>2, <1>5 DEF H2Told, H2Reads
<1>8. ~h2Closing BY <1>1 DEF H2Reads
<1> QED BY <1>1, <1>4, <1>5, <1>6, <1>7, <1>8, H2Changed

LEMMA H2_on_data_chunk_recv ==
  ASSUME H2Inv, NEW s \in H2Ids, on_data_chunk_recv(s)
  PROVE  H2Inv'
<1>1. h2Stream[s].st = "reading" /\ H2Reads /\ UNCHANGED <<h2Task, h2Conn>> BY DEF on_data_chunk_recv
<1>2. h2Stream[s] \in H2Streams /\ H2Data(h2Stream[s]) /\ H2Told(h2Stream[s], h2Writer[s], h2Fd[s])
  BY H2At DEF H2Inside
<1>3. PICK n \in H2Sizes :
        LET big == h2Stream[s].body + n > H2MaxBody IN
        H2Pump([h2Stream EXCEPT ![s].body_too_large = big, ![s].body = IF big THEN 0 ELSE @ + n], h2Writer)
  BY DEF on_data_chunk_recv
<1> DEFINE big == h2Stream[s].body + n > H2MaxBody
           body == IF big THEN 0 ELSE h2Stream[s].body + n
           c == [h2Stream[s] EXCEPT !.body_too_large = big, !.body = body]
<1>4. big \in BOOLEAN /\ body \in Nat BY <1>2, H2Assumption DEF H2Streams
<1>5. H2Pump([h2Stream EXCEPT ![s].body_too_large = big, ![s].body = IF big THEN 0 ELSE @ + n], h2Writer) BY <1>3
<1>6. h2Stream \in [H2Ids -> H2Streams] BY DEF H2Inv, H2Typed
<1>7. [h2Stream EXCEPT ![s].body_too_large = big, ![s].body = IF big THEN 0 ELSE @ + n] = [h2Stream EXCEPT ![s] = c]
  <2> HIDE DEF big
  <2> QED BY <1>6 DEF H2Streams
<1>8. H2Pump([h2Stream EXCEPT ![s] = c], h2Writer) BY <1>5, <1>7
<1> HIDE DEF big, body
<1>9. /\ c \in H2Streams /\ c.st = h2Stream[s].st /\ c.sent = h2Stream[s].sent /\ c.written = h2Stream[s].written
      /\ (c.deferred <=> h2Stream[s].deferred) /\ (c.streaming <=> h2Stream[s].streaming)
      /\ (c.stream_ended <=> h2Stream[s].stream_ended) /\ (c.file <=> h2Stream[s].file) BY <1>2, <1>4 DEF H2Streams
<1> HIDE DEF c
<1>10. H2Data(c) BY <1>2, <1>9 DEF H2Data
<1>11. H2Told(c, h2Writer[s], h2Fd[s]) BY <1>2, <1>9 DEF H2Told
<1>12. ~h2Closing BY <1>1 DEF H2Reads
<1> QED BY <1>1, <1>8, <1>9, <1>10, <1>11, <1>12, H2Changed

LEMMA H2Ending ==
  ASSUME H2Inv, NEW s \in H2Ids, h2Conn = "open", H2Open(s),
         H2Pump([h2Stream EXCEPT ![s].st = "done"], h2Writer), UNCHANGED <<h2Task, h2Conn>>
  PROVE  H2Inv'
<1> DEFINE c == [h2Stream[s] EXCEPT !.st = "done"]
<1>1. h2Stream[s].st \in {"reading", "handling", "answering"} BY DEF H2Open
<1>2. h2Stream[s] \in H2Streams /\ H2Data(h2Stream[s]) /\ H2Told(h2Stream[s], h2Writer[s], h2Fd[s])
  BY H2At DEF H2Inside
<1>3. [h2Stream EXCEPT ![s].st = "done"] = [h2Stream EXCEPT ![s] = c] OBVIOUS
<1>4. H2Pump([h2Stream EXCEPT ![s] = c], h2Writer) BY <1>3
<1>5. /\ c \in H2Streams /\ c.st = "done" /\ c.sent = h2Stream[s].sent /\ c.written = h2Stream[s].written
      /\ (c.deferred <=> h2Stream[s].deferred) /\ (c.streaming <=> h2Stream[s].streaming)
      /\ (c.stream_ended <=> h2Stream[s].stream_ended) /\ (c.file <=> h2Stream[s].file) BY <1>2 DEF H2Streams
<1> HIDE DEF c
<1>6. H2Data(c) BY <1>2, <1>5 DEF H2Data
<1>7. H2Told(c, h2Writer[s], h2Fd[s]) BY <1>1, <1>2, <1>5 DEF H2Told
<1> QED BY <1>4, <1>5, <1>6, <1>7, H2Changed

LEMMA H2_H2Reset ==
  ASSUME H2Inv, NEW s \in H2Ids, H2Reset(s)
  PROVE  H2Inv' BY H2Ending DEF H2Reset, H2Reads

LEMMA H2_H2WindowUpdate ==
  ASSUME H2Inv, NEW s \in H2Ids, H2WindowUpdate(s)
  PROVE  H2Inv'
<1> DEFINE c == [h2Stream[s] EXCEPT !.window = H2Credit]
<1>1. H2Reads /\ UNCHANGED <<h2Task, h2Conn>> BY DEF H2WindowUpdate
<1>2. h2Stream[s] \in H2Streams /\ H2Data(h2Stream[s]) /\ H2Told(h2Stream[s], h2Writer[s], h2Fd[s])
  BY H2At DEF H2Inside
<1>3. [h2Stream EXCEPT ![s].window = H2Credit] = [h2Stream EXCEPT ![s] = c] OBVIOUS
<1>4. H2Pump([h2Stream EXCEPT ![s] = c], h2Writer) BY <1>3 DEF H2WindowUpdate
<1>5. /\ c \in H2Streams /\ c.st = h2Stream[s].st /\ c.sent = h2Stream[s].sent /\ c.written = h2Stream[s].written
      /\ (c.deferred <=> h2Stream[s].deferred) /\ (c.streaming <=> h2Stream[s].streaming)
      /\ (c.stream_ended <=> h2Stream[s].stream_ended) /\ (c.file <=> h2Stream[s].file)
  BY <1>2, H2Assumption DEF H2Streams
<1> HIDE DEF c
<1>6. H2Data(c) BY <1>2, <1>5 DEF H2Data
<1>7. H2Told(c, h2Writer[s], h2Fd[s]) BY <1>2, <1>5 DEF H2Told
<1>8. ~h2Closing BY <1>1 DEF H2Reads
<1> QED BY <1>1, <1>4, <1>5, <1>6, <1>7, <1>8, H2Changed

LEMMA H2_on_frame_recv ==
  ASSUME H2Inv, NEW s \in H2Ids, on_frame_recv(s)
  PROVE  H2Inv'
<1>1. h2Stream[s].st = "reading" /\ H2Reads /\ UNCHANGED h2Conn BY DEF on_frame_recv
<1>2. CASE H2Pump(submit_status_locked(s), h2Writer) /\ UNCHANGED h2Task
  BY <1>1, <1>2, H2Ending DEF submit_status_locked, H2Reads, H2Open
<1>3. CASE dispatch_request(s)
  <2> DEFINE c == [h2Stream[s] EXCEPT !.st = "handling", !.body = 0]
             w == [h2Writer[s] EXCEPT !.exists = TRUE]
  <2>1. /\ h2Stream[s] \in H2Streams /\ H2Data(h2Stream[s]) /\ H2Told(h2Stream[s], h2Writer[s], h2Fd[s])
        /\ h2Writer[s] \in H2Writers /\ h2Fd[s] \in Nat BY H2At DEF H2Inside
  <2>2. /\ [h2Stream EXCEPT ![s].st = "handling", ![s].body = 0] = [h2Stream EXCEPT ![s] = c]
        /\ [h2Writer EXCEPT ![s].exists = TRUE] = [h2Writer EXCEPT ![s] = w]
    BY DEF H2Inv, H2Typed, H2Streams, H2Writers
  <2>3. H2Pump([h2Stream EXCEPT ![s] = c], [h2Writer EXCEPT ![s] = w]) BY <1>3, <2>2 DEF dispatch_request
  <2>4. h2Task' \in [H2Ids -> {"none", "running", "returned"}] BY <1>3, H2At DEF dispatch_request
  <2>5. /\ c \in H2Streams /\ c.st = "handling" /\ c.sent = h2Stream[s].sent /\ c.written = h2Stream[s].written
        /\ (c.deferred <=> h2Stream[s].deferred) /\ (c.streaming <=> h2Stream[s].streaming)
        /\ (c.stream_ended <=> h2Stream[s].stream_ended) /\ (c.file <=> h2Stream[s].file) BY <2>1 DEF H2Streams
  <2>6. w \in H2Writers /\ w.exists /\ w.notice = h2Writer[s].notice /\ w.told = h2Writer[s].told
    BY <2>1 DEF H2Writers
  <2> HIDE DEF c, w
  <2>7. H2Data(c) BY <1>1, <2>1, <2>5 DEF H2Data
  <2>8. H2Told(c, w, h2Fd[s]) BY <1>1, <2>1, <2>5, <2>6 DEF H2Told, H2Reads
  <2>9. H2Inside(c, w, h2Fd[s]) /\ ~h2Closing BY <1>1, <2>1, <2>5, <2>6, <2>7, <2>8 DEF H2Inside, H2Reads
  <2> QED BY <1>1, <2>3, <2>4, <2>9, H2Pumped
<1> QED BY <1>2, <1>3 DEF on_frame_recv

\* A call that changes the context of an open stream and marks the response of
\* its writer as begun.
LEMMA H2Responded ==
  ASSUME H2Inv, NEW s \in H2Ids, NEW c \in H2Streams, H2Data(c),
         H2Told(c, [h2Writer[s] EXCEPT !.headers_sent = TRUE], h2Fd[s]),
         h2Closing /\ ~h2Ended => c.st \in {"none", "done", "closed"},
         H2Pump([h2Stream EXCEPT ![s] = c], [h2Writer EXCEPT ![s].headers_sent = TRUE]), UNCHANGED <<h2Task, h2Conn>>
  PROVE  H2Inv'
<1> DEFINE w == [h2Writer[s] EXCEPT !.headers_sent = TRUE]
<1>1. w \in H2Writers /\ h2Fd[s] \in Nat BY H2At DEF H2Writers
<1>2. [h2Writer EXCEPT ![s].headers_sent = TRUE] = [h2Writer EXCEPT ![s] = w] OBVIOUS
<1>3. H2Pump([h2Stream EXCEPT ![s] = c], [h2Writer EXCEPT ![s] = w]) BY <1>2
<1>4. h2Task' \in [H2Ids -> {"none", "running", "returned"}] BY H2At
<1>5. H2Inside(c, w, h2Fd[s]) BY <1>1 DEF H2Inside
<1> HIDE DEF w
<1> QED BY <1>3, <1>4, <1>5, H2Pumped

\* The writer with its response begun.
LEMMA H2Begun ==
  ASSUME NEW v \in H2Writers
  PROVE  LET w == [v EXCEPT !.headers_sent = TRUE] IN
         w \in H2Writers /\ w.headers_sent /\ (w.exists <=> v.exists) /\ w.notice = v.notice /\ w.told = v.told
BY DEF H2Writers

\* Whatever the response, a stream that is not open is left as it is.
LEMMA H2Late ==
  ASSUME H2Inv, NEW s \in H2Ids, ~H2Open(s), UNCHANGED <<h2Task, h2Conn>>,
         H2Pump(h2Stream, [h2Writer EXCEPT ![s].headers_sent = TRUE])
  PROVE  H2Inv'
<1> DEFINE w == [h2Writer[s] EXCEPT !.headers_sent = TRUE]
<1>1. /\ h2Stream[s] \in H2Streams /\ H2Data(h2Stream[s]) /\ H2Told(h2Stream[s], h2Writer[s], h2Fd[s])
      /\ h2Writer[s] \in H2Writers /\ h2Stream = [h2Stream EXCEPT ![s] = h2Stream[s]] BY H2At DEF H2Inside
<1>2. w.headers_sent /\ (w.exists <=> h2Writer[s].exists) /\ w.notice = h2Writer[s].notice /\ w.told = h2Writer[s].told
  BY <1>1, H2Begun
<1> HIDE DEF w
<1>3. H2Told(h2Stream[s], w, h2Fd[s]) BY <1>1, <1>2 DEF H2Told
<1>4. h2Stream[s].st \in {"none", "done", "closed"} BY <1>1 DEF H2Open, H2Streams
<1>5. H2Pump([h2Stream EXCEPT ![s] = h2Stream[s]], [h2Writer EXCEPT ![s].headers_sent = TRUE]) BY <1>1
<1> USE DEF w
<1> QED BY <1>1, <1>3, <1>4, <1>5, H2Responded

LEMMA H2_submit_response ==
  ASSUME H2Inv, NEW s \in H2Ids, NEW size \in Nat, NEW file \in BOOLEAN, NEW streaming \in BOOLEAN,
         H2MayWrite(s), ~h2Writer[s].headers_sent, submit_response(s, size, file, streaming),
         UNCHANGED <<h2Task, h2Conn>>
  PROVE  H2Inv'
<1>1. CASE ~H2Open(s) BY <1>1, H2Late DEF submit_response
<1>2. CASE H2Open(s)
  <2> DEFINE c == [h2Stream[s] EXCEPT !.st = "answering", !.written = size, !.streaming = streaming, !.file = file]
             w == [h2Writer[s] EXCEPT !.headers_sent = TRUE]
  <2>1. /\ h2Stream[s] \in H2Streams /\ H2Data(h2Stream[s]) /\ H2Told(h2Stream[s], h2Writer[s], h2Fd[s])
        /\ h2Writer[s] \in H2Writers /\ ~(h2Closing /\ ~h2Ended) BY <1>2, H2At DEF H2Inside
  <2>2. h2Stream \in [H2Ids -> H2Streams] BY DEF H2Inv, H2Typed
  <2>3. [h2Stream EXCEPT ![s].st = "answering", ![s].written = size, ![s].streaming = streaming, ![s].file = file]
        = [h2Stream EXCEPT ![s] = c] BY <2>2 DEF H2Streams
  <2>4. H2Pump([h2Stream EXCEPT ![s] = c], [h2Writer EXCEPT ![s].headers_sent = TRUE])
    BY <1>2, <2>3 DEF submit_response
  <2>5. /\ c \in H2Streams /\ c.st = "answering" /\ c.sent = h2Stream[s].sent /\ c.written = size
        /\ (c.deferred <=> h2Stream[s].deferred) BY <2>1 DEF H2Streams
  <2>6. w.headers_sent /\ (w.exists <=> h2Writer[s].exists) /\ w.notice = h2Writer[s].notice /\ w.told = h2Writer[s].told
    BY <2>1, H2Begun
  <2>7. h2Stream[s].st \in {"reading", "handling"} /\ h2Conn # "destroyed"
    BY <1>2, <2>1 DEF H2Open, H2Told, H2MayWrite
  <2> HIDE DEF c, w
  <2>8. H2Data(c) BY <2>1, <2>5, <2>7 DEF H2Data
  <2>9. H2Told(c, w, h2Fd[s]) BY <2>1, <2>5, <2>6, <2>7 DEF H2Told
  <2> USE DEF w
  <2> QED BY <2>1, <2>4, <2>5, <2>8, <2>9, H2Responded
<1> QED BY <1>1, <1>2

LEMMA H2_H2Send ==
  ASSUME H2Inv, NEW s \in H2Ids, H2Send(s)
  PROVE  H2Inv'
<1>1. H2MayWrite(s) /\ ~h2Writer[s].headers_sent /\ UNCHANGED <<h2Task, h2Conn>> BY DEF H2Send
<1>2. ASSUME NEW n \in H2Sizes, NEW file \in BOOLEAN, submit_response(s, n, file, FALSE) PROVE H2Inv'
  <2>1. n \in Nat BY H2Assumption
  <2> QED BY <1>1, <1>2, <2>1, H2_submit_response
<1>3. ASSUME H2Open(s),
             H2Pump([h2Stream EXCEPT ![s].st = IF h2Conn = "open" THEN "done" ELSE @], [h2Writer EXCEPT ![s].headers_sent = TRUE])
      PROVE  H2Inv'
  <2> DEFINE at == IF h2Conn = "open" THEN "done" ELSE h2Stream[s].st
             c == [h2Stream[s] EXCEPT !.st = at]
             w == [h2Writer[s] EXCEPT !.headers_sent = TRUE]
  <2>1. /\ h2Stream[s] \in H2Streams /\ H2Data(h2Stream[s]) /\ H2Told(h2Stream[s], h2Writer[s], h2Fd[s])
        /\ h2Writer[s] \in H2Writers /\ ~(h2Closing /\ ~h2Ended) BY <1>3, H2At DEF H2Inside
  <2>2. h2Stream \in [H2Ids -> H2Streams] BY DEF H2Inv, H2Typed
  <2>3. [h2Stream EXCEPT ![s].st = IF h2Conn = "open" THEN "done" ELSE @] = [h2Stream EXCEPT ![s] = c]
    BY <2>2 DEF H2Streams
  <2>4. H2Pump([h2Stream EXCEPT ![s] = c], [h2Writer EXCEPT ![s].headers_sent = TRUE]) BY <1>3, <2>3
  <2>5. at = (IF h2Conn = "open" THEN "done" ELSE h2Stream[s].st) OBVIOUS
  <2>6. at \in {"reading", "handling", "answering", "done"} /\ h2Stream[s].st \in {"reading", "handling", "answering"}
    BY <1>3 DEF H2Open
  <2> HIDE DEF at
  <2>7. /\ c \in H2Streams /\ c.st = at /\ c.sent = h2Stream[s].sent /\ c.written = h2Stream[s].written
        /\ (c.deferred <=> h2Stream[s].deferred) /\ (c.streaming <=> h2Stream[s].streaming)
        /\ (c.stream_ended <=> h2Stream[s].stream_ended) /\ (c.file <=> h2Stream[s].file) BY <2>1, <2>6 DEF H2Streams
  <2>8. w.headers_sent /\ (w.exists <=> h2Writer[s].exists) /\ w.notice = h2Writer[s].notice /\ w.told = h2Writer[s].told
    BY <2>1, H2Begun
  <2> HIDE DEF c, w
  <2>9. H2Data(c) BY <2>1, <2>5, <2>6, <2>7 DEF H2Data
  <2>10. H2Told(c, w, h2Fd[s]) BY <2>1, <2>5, <2>6, <2>7, <2>8 DEF H2Told
  <2> USE DEF w
  <2> QED BY <1>1, <2>1, <2>4, <2>7, <2>9, <2>10, H2Responded
<1> QED BY <1>2, <1>3 DEF H2Send

LEMMA H2_H2SendHeaders ==
  ASSUME H2Inv, NEW s \in H2Ids, H2SendHeaders(s)
  PROVE  H2Inv' BY H2_submit_response DEF H2SendHeaders

\* More of a streamed response, and its end: the stream is woken.
LEMMA H2Streaming ==
  ASSUME H2Inv, NEW s \in H2Ids, NEW written \in Nat, NEW c,
         H2Open(s), h2Stream[s].streaming, written >= h2Stream[s].written,
         c \in H2Streams /\ c.st = h2Stream[s].st /\ c.sent = h2Stream[s].sent /\ c.written = written /\ ~c.deferred
           /\ (c.streaming <=> h2Stream[s].streaming) /\ (c.file <=> h2Stream[s].file),
         H2Pump([h2Stream EXCEPT ![s] = c], h2Writer), UNCHANGED <<h2Task, h2Conn>>
  PROVE  H2Inv'
<1>1. /\ h2Stream[s] \in H2Streams /\ H2Data(h2Stream[s]) /\ H2Told(h2Stream[s], h2Writer[s], h2Fd[s])
      /\ ~(h2Closing /\ ~h2Ended) BY H2At DEF H2Inside
<1>2. h2Stream[s].st = "answering" /\ h2Stream[s].sent \in Nat /\ h2Stream[s].written \in Nat
  BY <1>1 DEF H2Data, H2Open, H2Streams
<1>3. H2Data(c) BY <1>1, <1>2 DEF H2Data
<1>4. H2Told(c, h2Writer[s], h2Fd[s]) BY <1>1, <1>2 DEF H2Told
<1> QED BY <1>1, <1>3, <1>4, H2Changed

LEMMA H2_submit_data ==
  ASSUME H2Inv, NEW s \in H2Ids, submit_data(s)
  PROVE  H2Inv'
<1>1. H2Open(s) /\ h2Stream[s].streaming /\ UNCHANGED <<h2Task, h2Conn>> BY DEF submit_data
<1>2. PICK n \in H2Sizes : H2Pump([h2Stream EXCEPT ![s].written = @ + n, ![s].deferred = FALSE], h2Writer)
  BY DEF submit_data
<1> DEFINE written == h2Stream[s].written + n
           c == [h2Stream[s] EXCEPT !.written = written, !.deferred = FALSE]
<1>3. h2Stream[s] \in H2Streams /\ h2Stream \in [H2Ids -> H2Streams] BY H2At DEF H2Inv, H2Typed
<1>4. written \in Nat /\ written >= h2Stream[s].written BY <1>3, H2Assumption DEF H2Streams
<1>5. [h2Stream EXCEPT ![s].written = @ + n, ![s].deferred = FALSE] = [h2Stream EXCEPT ![s] = c] BY <1>3 DEF H2Streams
<1>6. H2Pump([h2Stream EXCEPT ![s] = c], h2Writer) BY <1>2, <1>5
<1> HIDE DEF written
<1>7. c \in H2Streams /\ c.st = h2Stream[s].st /\ c.sent = h2Stream[s].sent /\ c.written = written /\ ~c.deferred
        /\ (c.streaming <=> h2Stream[s].streaming) /\ (c.file <=> h2Stream[s].file) BY <1>3, <1>4 DEF H2Streams
<1> HIDE DEF c
<1> QED BY <1>1, <1>4, <1>6, <1>7, H2Streaming

LEMMA H2_end_stream ==
  ASSUME H2Inv, NEW s \in H2Ids, end_stream(s)
  PROVE  H2Inv'
<1>1. H2Open(s) /\ h2Stream[s].streaming /\ UNCHANGED <<h2Task, h2Conn>> BY DEF end_stream
<1> DEFINE c == [h2Stream[s] EXCEPT !.stream_ended = TRUE, !.deferred = FALSE]
<1>2. h2Stream[s] \in H2Streams /\ h2Stream \in [H2Ids -> H2Streams] BY H2At DEF H2Inv, H2Typed
<1>3. [h2Stream EXCEPT ![s].stream_ended = TRUE, ![s].deferred = FALSE] = [h2Stream EXCEPT ![s] = c]
  BY <1>2 DEF H2Streams
<1>4. H2Pump([h2Stream EXCEPT ![s] = c], h2Writer) BY <1>3 DEF end_stream
<1>5. c \in H2Streams /\ c.st = h2Stream[s].st /\ c.sent = h2Stream[s].sent /\ c.written = h2Stream[s].written /\ ~c.deferred
        /\ (c.streaming <=> h2Stream[s].streaming) /\ (c.file <=> h2Stream[s].file) BY <1>2 DEF H2Streams
<1>6. h2Stream[s].written \in Nat /\ h2Stream[s].written >= h2Stream[s].written BY <1>2 DEF H2Streams
<1> HIDE DEF c
<1> QED BY <1>1, <1>4, <1>5, <1>6, H2Streaming

LEMMA H2_H2Return ==
  ASSUME H2Inv, NEW s \in H2Ids, H2Return(s)
  PROVE  H2Inv'
<1>1. h2Task' \in [H2Ids -> {"none", "running", "returned"}] BY H2At DEF H2Return
<1>2. UNCHANGED <<h2Stream, h2Writer, h2Fd, h2Goaway, h2Ended, h2Closing, h2Conn>> BY DEF H2Return
<1> QED BY <1>1, <1>2 DEF H2Inv, H2Typed, H2Streamed, H2Shut, H2Inside, H2Rests, H2Data, H2Told, H2Open

LEMMA H2_H2MarkClosed ==
  ASSUME H2Inv, NEW s \in H2Ids, H2MarkClosed(s)
  PROVE  H2Inv'
<1> DEFINE told == IF h2Writer[s].told = 0 THEN 1 ELSE h2Writer[s].told
           left == h2Writer[s].notice - 1
           w == [h2Writer[s] EXCEPT !.notice = left, !.told = told]
<1>1. UNCHANGED <<h2Stream, h2Task, h2Fd, h2Goaway, h2Ended, h2Closing, h2Conn>> /\ h2Writer[s].notice > 0
  BY DEF H2MarkClosed
<1>2. /\ h2Stream[s] \in H2Streams /\ H2Data(h2Stream[s]) /\ H2Told(h2Stream[s], h2Writer[s], h2Fd[s])
      /\ h2Writer[s] \in H2Writers /\ h2Writer \in [H2Ids -> H2Writers] BY H2At DEF H2Inside, H2Inv, H2Typed
<1>3. h2Writer' = [h2Writer EXCEPT ![s] = w] BY <1>2 DEF H2MarkClosed, H2Writers
<1>4. told = 1 /\ left \in Nat BY <1>1, <1>2 DEF H2Writers
<1> HIDE DEF told, left
<1>5. w \in H2Writers /\ w.told = 1 /\ (w.exists <=> h2Writer[s].exists) /\ (w.headers_sent <=> h2Writer[s].headers_sent)
  BY <1>2, <1>4 DEF H2Writers
<1>6. h2Stream[s].st = "closed" BY <1>1, <1>2 DEF H2Told
<1> HIDE DEF w
<1>7. H2Told(h2Stream[s], w, h2Fd[s]) BY <1>2, <1>5, <1>6 DEF H2Told
<1>8. \A r \in H2Ids : h2Writer'[r] = IF r = s THEN w ELSE h2Writer[r] BY <1>2, <1>3
<1>9. H2Typed' BY <1>1, <1>2, <1>3, <1>5 DEF H2Inv, H2Typed
<1>10. ASSUME NEW r \in H2Ids PROVE (H2Inside(h2Stream[r], h2Writer[r], h2Fd[r]) /\ H2Rests(h2Stream[r]))'
  <2>1. H2Inside(h2Stream[r], h2Writer'[r], h2Fd[r]) /\ H2Rests(h2Stream[r])
    <3>1. H2Inside(h2Stream[r], h2Writer[r], h2Fd[r]) /\ H2Rests(h2Stream[r]) BY DEF H2Inv, H2Streamed
    <3> QED BY <1>5, <1>7, <1>8, <3>1 DEF H2Inside
  <2> QED BY <1>1, <2>1 DEF H2Inside, H2Told, H2Data, H2Rests
<1> QED BY <1>1, <1>9, <1>10 DEF H2Inv, H2Streamed, H2Shut, H2Open

LEMMA H2_H2ProtocolError ==
  ASSUME H2Inv, H2ProtocolError
  PROVE  H2Inv'
<1>1. PICK goaway : send_pending(h2Stream, h2Writer, goaway, TRUE) BY DEF H2ProtocolError
<1>2. h2Conn' = h2Conn /\ h2Task' \in [H2Ids -> {"none", "running", "returned"}] /\ H2Typed
  BY DEF H2Inv, H2Typed, H2ProtocolError
<1>3. \A s \in H2Ids : H2Inside(h2Stream[s], h2Writer[s], h2Fd[s]) BY DEF H2Inv, H2Streamed
<1> QED BY <1>1, <1>2, <1>3, H2Sent

LEMMA H2_begin_shutdown ==
  ASSUME H2Inv, begin_shutdown
  PROVE  H2Inv'
<1>1. PICK goaway : send_pending(h2Stream, h2Writer, goaway, h2Ended) BY DEF begin_shutdown
<1>2. h2Conn' = h2Conn /\ h2Task' \in [H2Ids -> {"none", "running", "returned"}] /\ H2Typed /\ h2Ended \in BOOLEAN
  BY DEF H2Inv, H2Typed, begin_shutdown
<1>3. \A s \in H2Ids : H2Inside(h2Stream[s], h2Writer[s], h2Fd[s]) BY DEF H2Inv, H2Streamed
<1>4. h2Closing /\ ~h2Ended => \A s \in H2Ids : h2Stream[s].st \in {"none", "done", "closed"}
  BY DEF H2Inv, H2Typed, H2Streams, H2Shut, H2Open
<1> QED BY <1>1, <1>2, <1>3, <1>4, H2Sent

LEMMA H2_close_streams ==
  ASSUME H2Inv, close_streams
  PROVE  H2Inv'
<1>1. UNCHANGED <<h2Stream, h2Task, h2Fd, h2Goaway, h2Ended, h2Closing>> /\ h2Conn = "open" /\ h2Conn' = "gone"
  BY DEF close_streams
<1>2. ASSUME NEW s \in H2Ids
      PROVE  /\ h2Writer'[s] \in H2Writers
             /\ (H2Inside(h2Stream[s], h2Writer[s], h2Fd[s]) /\ H2Rests(h2Stream[s]))'
  <2> DEFINE w == [h2Writer[s] EXCEPT !.told = 1]
  <2>1. /\ h2Stream[s] \in H2Streams /\ H2Data(h2Stream[s]) /\ H2Told(h2Stream[s], h2Writer[s], h2Fd[s])
        /\ h2Writer[s] \in H2Writers /\ h2Fd[s] \in Nat /\ h2Stream[s].st # "done"
    BY H2At DEF H2Inside, H2Inv, H2Streamed, H2Rests
  <2>2. w \in H2Writers /\ w.told = 1 /\ w.notice = h2Writer[s].notice /\ (w.exists <=> h2Writer[s].exists)
          /\ (w.headers_sent <=> h2Writer[s].headers_sent) BY <2>1 DEF H2Writers
  <2>3. h2Writer'[s] = IF H2Open(s) /\ h2Writer[s].exists THEN w ELSE h2Writer[s] BY DEF close_streams
  <2>4. H2Open(s) <=> h2Stream[s].st \in {"reading", "handling", "answering"} BY DEF H2Open
  <2> HIDE DEF w
  <2>5. h2Writer'[s] \in H2Writers BY <2>1, <2>2, <2>3
  <2>6. H2Told(h2Stream[s], h2Writer[s], h2Fd[s])'
    <3>1. CASE H2Open(s) /\ h2Writer[s].exists BY <1>1, <2>1, <2>2, <2>3, <2>4, <3>1 DEF H2Told
    <3>2. CASE ~(H2Open(s) /\ h2Writer[s].exists) BY <1>1, <2>1, <2>3, <2>4, <3>2 DEF H2Told
    <3> QED BY <3>1, <3>2
  <2> QED BY <1>1, <2>1, <2>5, <2>6 DEF H2Inside, H2Data, H2Rests
<1>3. H2Typed' BY <1>1, <1>2 DEF H2Inv, H2Typed, close_streams
<1> QED BY <1>1, <1>2, <1>3 DEF H2Inv, H2Streamed, H2Shut, H2Open

LEMMA H2_H2Destroy ==
  ASSUME H2Inv, H2Destroy
  PROVE  H2Inv'
<1>1. UNCHANGED <<h2Stream, h2Task, h2Writer, h2Goaway, h2Ended, h2Closing>> /\ h2Conn = "gone" /\ h2Conn' = "destroyed"
  BY DEF H2Destroy
<1>2. ASSUME NEW s \in H2Ids
      PROVE  /\ h2Fd'[s] \in Nat
             /\ (H2Inside(h2Stream[s], h2Writer[s], h2Fd[s]) /\ H2Rests(h2Stream[s]))'
  <2>1. /\ h2Stream[s] \in H2Streams /\ H2Data(h2Stream[s]) /\ H2Told(h2Stream[s], h2Writer[s], h2Fd[s])
        /\ h2Writer[s] \in H2Writers /\ h2Fd[s] \in Nat /\ h2Stream[s].st # "done"
    BY H2At DEF H2Inside, H2Inv, H2Streamed, H2Rests
  <2>2. h2Fd'[s] = IF H2Open(s) /\ h2Stream[s].file THEN h2Fd[s] + 1 ELSE h2Fd[s] BY DEF H2Destroy
  <2>3. h2Stream[s].st \in {"none", "reading", "handling", "answering", "closed"} BY <2>1 DEF H2Streams
  <2>4. H2Open(s) <=> h2Stream[s].st \in {"reading", "handling", "answering"} BY DEF H2Open
  <2>5. H2Told(h2Stream[s], h2Writer[s], h2Fd[s])' BY <1>1, <2>1, <2>2, <2>3, <2>4 DEF H2Told, H2Data
  <2> QED BY <1>1, <2>1, <2>2, <2>5 DEF H2Inside, H2Data, H2Rests
<1>3. H2Typed' BY <1>1, <1>2 DEF H2Inv, H2Typed, H2Destroy
<1> QED BY <1>1, <1>2, <1>3 DEF H2Inv, H2Streamed, H2Shut, H2Open

LEMMA H2Step == H2Inv /\ [H2Next]_h2Vars => H2Inv'
<1> SUFFICES ASSUME H2Inv, [H2Next]_h2Vars PROVE H2Inv' OBVIOUS
<1>1. CASE UNCHANGED h2Vars
  BY <1>1 DEF h2Vars, H2Inv, H2Typed, H2Streamed, H2Shut, H2Inside, H2Rests, H2Data, H2Told, H2Open
<1> QED
  BY <1>1, H2_on_begin_headers, H2_on_data_chunk_recv, H2_on_frame_recv, H2_H2Reset, H2_H2WindowUpdate, H2_H2Send,
     H2_H2SendHeaders, H2_submit_data, H2_end_stream, H2_H2Return, H2_H2MarkClosed, H2_H2ProtocolError, H2_begin_shutdown,
     H2_close_streams, H2_H2Destroy DEF H2Next

----
\* QUIC connections and their ids.

QcRecords == [st : {"none", "open", "closing", "closed"}, valid : SUBSET QcIds, issued : SUBSET QcIds, retired : SUBSET QcIds]

QcTyped ==
  /\ qcTable \in [QcIds -> QcConns \cup {QcNobody}] /\ qcConn \in [QcConns -> QcRecords]
  /\ qcLoop \in QcConns \cup {QcNobody} /\ qcGauge \in Int /\ qcAfter \in [QcConns -> Nat]

\* The ids of a connection, and the connections that have one in the table.
QcHas(c) == qcConn[c].valid \cup qcConn[c].retired
QcListed == {qcTable[i] : i \in QcIds} \ {QcNobody}

\* A connection from its first packet on has a valid id, and is in the table
\* until the loop has synced its end; ids issued or retired since the last
\* sync are those the table does not know of; it closes once.
QcWhole(c) ==
  /\ c.st # "none" => c.valid # {}
  /\ c.st = "none" => c.valid = {} /\ c.retired = {}
  /\ c.valid \cap c.retired = {} /\ c.issued \subseteq c.valid \cup c.retired
QcPlace(c) ==
  /\ qcConn[c].st \in {"open", "closing"} => \A i \in qcConn[c].valid : qcTable[i] = c \/ i \in qcConn[c].issued
  /\ qcConn[c].st \in {"open", "closing"} \/ qcLoop = c <=> c \in QcListed
  /\ qcLoop = c => qcConn[c].st # "none"
  /\ qcAfter[c] <= IF qcConn[c].st \in {"none", "open"} THEN 0 ELSE 1
QcRightful == \A i \in QcIds : qcTable[i] # QcNobody => i \in QcHas(qcTable[i])
QcApart == \A c, d \in QcConns : c # d => QcHas(c) \cap QcHas(d) = {}
QcCounted == qcGauge = Cardinality(QcListed)

QcInv ==
  /\ QcTyped /\ (\A c \in QcConns : QcWhole(qcConn[c])) /\ (\A c \in QcConns : QcPlace(c))
  /\ QcRightful /\ QcApart /\ QcCounted

LEMMA QcListedFinite ==
  ASSUME QcTyped
  PROVE  IsFiniteSet(QcListed) /\ Cardinality(QcListed) \in Nat
<1> DEFINE all == {qcTable[i] : i \in QcIds}
<1>1. qcTable \in Surjection(QcIds, all) BY DEF QcTyped, Surjection
<1>2. IsFiniteSet(all) BY <1>1, FS_Surjection, QcAssumption
<1>3. QcListed \in SUBSET all BY DEF QcListed
<1>4. IsFiniteSet(QcListed) BY <1>2, <1>3, FS_Subset
<1> QED BY <1>4, FS_CardinalityType

LEMMA QcStarted == QcInit => QcInv
<1> SUFFICES ASSUME QcInit PROVE QcInv OBVIOUS
<1>1. QcNew \in QcRecords /\ QcNew.st = "none" /\ QcNew.valid = {} /\ QcNew.retired = {} /\ QcNew.issued = {}
  BY DEF QcNew, QcRecords
<1>2. QcTyped BY <1>1 DEF QcInit, QcTyped
<1>3. QcListed = {} BY DEF QcInit, QcListed
<1>4. \A c \in QcConns : qcConn[c] = QcNew /\ qcLoop # c /\ qcAfter[c] = 0 BY QcAssumption DEF QcInit
<1>5. \A c \in QcConns : QcWhole(qcConn[c]) BY <1>1, <1>4 DEF QcWhole
<1>6. \A c \in QcConns : QcPlace(c) BY <1>1, <1>3, <1>4 DEF QcPlace
<1>7. QcRightful BY DEF QcInit, QcRightful
<1>8. QcApart BY <1>1, <1>4 DEF QcApart, QcHas
<1>9. QcCounted BY <1>3, FS_EmptySet DEF QcInit, QcCounted
<1> QED BY <1>2, <1>5, <1>6, <1>7, <1>8, <1>9 DEF QcInv

LEMMA QcHolds == QcInv => QuicTableSound
<1> SUFFICES ASSUME QcInv PROVE QuicTableSound OBVIOUS
<1>1. ASSUME NEW c \in QcConns PROVE qcAfter[c] <= 1
  <2>1. qcAfter[c] \in Nat /\ qcAfter[c] <= IF qcConn[c].st \in {"none", "open"} THEN 0 ELSE 1
    BY DEF QcInv, QcTyped, QcPlace
  <2> QED BY <2>1
<1>2. ASSUME NEW c \in QcConns, qcConn[c].st \in {"open", "closing"}, NEW i \in qcConn[c].valid
      PROVE  qcTable[i] = c \/ i \in qcConn[c].issued BY <1>2 DEF QcInv, QcPlace
<1>3. ASSUME qcLoop = QcNobody, NEW i \in QcIds, qcTable[i] # QcNobody
      PROVE  i \in qcConn[qcTable[i]].valid \cup qcConn[qcTable[i]].retired /\ qcConn[qcTable[i]].st # "closed"
  <2>1. qcTable[i] \in QcConns /\ qcTable[i] \in QcListed BY <1>3 DEF QcInv, QcTyped, QcListed
  <2>2. qcLoop # qcTable[i] BY <1>3
  <2> QED BY <1>3, <2>1, <2>2 DEF QcInv, QcPlace, QcRightful, QcHas
<1>4. qcGauge = Cardinality({qcTable[i] : i \in QcIds} \ {QcNobody}) BY DEF QcInv, QcCounted, QcListed
<1> QED BY <1>1, <1>2, <1>3, <1>4 DEF QuicTableSound

\* What ngtcp2 may have done to a connection's ids, and to its state.
QcGrown(s, n) ==
  /\ n \in QcRecords /\ QcWhole(n)
  /\ s.valid \cup s.retired \subseteq n.valid \cup n.retired
  /\ n.valid \cup n.retired \subseteq s.valid \cup s.retired \cup (QcIds \ QcUsed)
  /\ \A i \in n.valid : i \in s.valid \/ i \in n.issued
  /\ s.issued \subseteq n.issued

LEMMA QcChanged ==
  ASSUME QcInv, NEW c \in QcConns, qcConn[c].st # "none", NEW s \in QcIdsChange(qcConn[c])
  PROVE  QcGrown(qcConn[c], s) /\ s.st = qcConn[c].st
<1> DEFINE r == qcConn[c]
<1>1. r \in QcRecords /\ QcWhole(r) /\ r.st # "none" BY DEF QcInv, QcTyped
<1>2. CASE s = r BY <1>1, <1>2 DEF QcGrown
<1>3. ASSUME NEW i \in QcIds \ QcUsed, s = [r EXCEPT !.valid = @ \cup {i}, !.issued = @ \cup {i}]
      PROVE  QcGrown(r, s) /\ s.st = r.st
  <2>1. s \in QcRecords /\ s.st = r.st /\ s.valid = r.valid \cup {i} /\ s.issued = r.issued \cup {i} /\ s.retired = r.retired
    BY <1>1, <1>3 DEF QcRecords
  <2>2. i \notin r.valid /\ i \notin r.retired BY DEF QcUsed
  <2> HIDE DEF r
  <2> QED BY <1>1, <2>1, <2>2 DEF QcGrown, QcWhole
<1>4. ASSUME Cardinality(r.valid) > 1, NEW i \in r.valid, s = [r EXCEPT !.valid = @ \ {i}, !.retired = @ \cup {i}]
      PROVE  QcGrown(r, s) /\ s.st = r.st
  <2>1. r.valid \subseteq QcIds BY <1>1 DEF QcRecords
  <2>2. s \in QcRecords /\ s.st = r.st /\ s.valid = r.valid \ {i} /\ s.issued = r.issued /\ s.retired = r.retired \cup {i}
    BY <1>1, <1>4, <2>1 DEF QcRecords
  <2>3. r.valid # {i}
    <3>1. Cardinality({i}) = 1 BY FS_Singleton
    <3>2. ASSUME r.valid = {i} PROVE FALSE
      <4>1. Cardinality(r.valid) = 1 BY <3>1, <3>2
      <4> HIDE DEF r
      <4> QED BY <1>4, <4>1
    <3> QED BY <3>2
  <2> HIDE DEF r
  <2>4. s.valid # {} BY <1>4, <2>2, <2>3
  <2> QED BY <1>1, <1>4, <2>2, <2>4 DEF QcGrown, QcWhole
<1> QED BY <1>2, <1>3, <1>4 DEF QcIdsChange

\* The state of a connection changes; the loop may have it to sync then.
LEMMA QcMoved ==
  ASSUME NEW s, NEW n, NEW st \in {"open", "closing", "closed"}, QcGrown(s, n), n.st # "none"
  PROVE  QcGrown(s, [n EXCEPT !.st = st]) /\ [n EXCEPT !.st = st].st = st
<1> DEFINE m == [n EXCEPT !.st = st]
<1>1. m \in QcRecords /\ m.st = st /\ m.valid = n.valid /\ m.issued = n.issued /\ m.retired = n.retired
  BY DEF QcGrown, QcRecords
<1> HIDE DEF m
<1>2. QcGrown(s, m) BY <1>1 DEF QcGrown, QcWhole
<1> USE DEF m
<1> QED BY <1>1, <1>2

LEMMA QcPut ==
  ASSUME QcInv, NEW c \in QcConns, qcConn[c].st \in {"open", "closing"}, NEW n, QcGrown(qcConn[c], n),
         n.st \in {"open", "closing", "closed"}, qcConn' = [qcConn EXCEPT ![c] = n],
         NEW k \in Nat, qcAfter' = [qcAfter EXCEPT ![c] = k], k <= IF n.st = "open" THEN 0 ELSE 1,
         qcLoop' = qcLoop \/ (qcLoop' = c /\ qcLoop = QcNobody), n.st = "closed" => qcLoop' = c, UNCHANGED <<qcTable, qcGauge>>
  PROVE  QcInv'
<1>0. QcTyped BY DEF QcInv
<1>1. \A d \in QcConns : qcConn'[d] = (IF d = c THEN n ELSE qcConn[d]) /\ qcAfter'[d] = (IF d = c THEN k ELSE qcAfter[d])
  BY <1>0 DEF QcTyped
<1>2. QcTyped' BY <1>0 DEF QcTyped, QcGrown
<1>3. QcListed' = QcListed BY DEF QcListed
<1>4. \A d \in QcConns : QcWhole(qcConn'[d]) BY <1>1 DEF QcInv, QcGrown
<1>5. ASSUME NEW d \in QcConns PROVE QcPlace(d)'
  <2>1. CASE d = c
    <3>1. qcConn'[c] = n /\ qcAfter'[c] = k BY <1>1
    <3>2. n.st \in {"open", "closing"} => \A i \in n.valid : qcTable[i] = c \/ i \in n.issued
      BY DEF QcInv, QcPlace, QcGrown
    <3>3. c \in QcListed BY DEF QcInv, QcPlace
    <3> QED BY <1>3, <2>1, <3>1, <3>2, <3>3 DEF QcPlace
  <2>2. CASE d # c
    <3>1. qcConn'[d] = qcConn[d] /\ qcAfter'[d] = qcAfter[d] /\ (qcLoop' = d <=> qcLoop = d) /\ QcPlace(d)
      BY <1>1, <2>2, QcAssumption DEF QcInv
    <3> QED BY <1>3, <3>1 DEF QcPlace
  <2> QED BY <2>1, <2>2
<1>6. \A d \in QcConns : QcHas(d)' = IF d = c THEN n.valid \cup n.retired ELSE QcHas(d) BY <1>1 DEF QcHas
<1>7. QcRightful'
  <2>1. \A i \in QcIds : qcTable[i] # QcNobody => qcTable[i] \in QcConns BY <1>0 DEF QcTyped
  <2>2. QcHas(c) \subseteq n.valid \cup n.retired BY DEF QcGrown, QcHas
  <2>3. ASSUME NEW i \in QcIds, qcTable'[i] # QcNobody PROVE i \in qcConn'[qcTable'[i]].valid \cup qcConn'[qcTable'[i]].retired
    <3>1. qcTable'[i] = qcTable[i] /\ qcTable[i] \in QcConns /\ i \in QcHas(qcTable[i])
      BY <2>1, <2>3 DEF QcInv, QcRightful
    <3> QED BY <1>1, <2>2, <3>1 DEF QcHas
  <2> QED BY <2>3 DEF QcRightful, QcHas
<1>8. QcApart'
  <2>1. n.valid \cup n.retired \subseteq QcHas(c) \cup (QcIds \ QcUsed) BY DEF QcGrown, QcHas
  <2>2. \A d \in QcConns : QcHas(d) \cap (QcIds \ QcUsed) = {} BY DEF QcUsed, QcHas
  <2>3. \A d \in QcConns \ {c} : (n.valid \cup n.retired) \cap QcHas(d) = {} BY <2>1, <2>2 DEF QcInv, QcApart
  <2>4. ASSUME NEW d \in QcConns, NEW e \in QcConns, d # e PROVE QcHas(d)' \cap QcHas(e)' = {}
    BY <1>6, <2>3, <2>4 DEF QcInv, QcApart
  <2> QED BY <2>4 DEF QcApart
<1>9. QcCounted' BY <1>3 DEF QcInv, QcCounted
<1> QED BY <1>2, <1>4, <1>5, <1>7, <1>8, <1>9 DEF QcInv

LEMMA Qc_QcRun ==
  ASSUME QcInv, NEW c \in QcConns, qcConn[c].st = "open", NEW mayDrop \in BOOLEAN, QcRun(c, mayDrop),
         qcLoop' = qcLoop \/ (qcLoop' = c /\ qcLoop = QcNobody), mayDrop => qcLoop' = c, UNCHANGED <<qcTable, qcGauge>>
  PROVE  QcInv'
<1>1. PICK s \in QcIdsChange(qcConn[c]) :
        \/ qcConn' = [qcConn EXCEPT ![c] = s] /\ UNCHANGED qcAfter
        \/ /\ qcConn' = [qcConn EXCEPT ![c] = [s EXCEPT !.st = "closing"]]
           /\ \E close \in {0, 1} : qcAfter' = [qcAfter EXCEPT ![c] = @ + close]
        \/ /\ mayDrop
           /\ qcConn' = [qcConn EXCEPT ![c] = [s EXCEPT !.st = "closed"]]
           /\ UNCHANGED qcAfter BY DEF QcRun
<1>2. QcGrown(qcConn[c], s) /\ s.st = "open" BY QcChanged
<1>3. qcAfter[c] = 0 /\ \E k \in Nat : k = 0 /\ qcAfter = [qcAfter EXCEPT ![c] = k] BY DEF QcInv, QcTyped, QcPlace
<1>4. CASE qcConn' = [qcConn EXCEPT ![c] = s] /\ UNCHANGED qcAfter
  <2>1. PICK k \in Nat : k = 0 /\ qcAfter' = [qcAfter EXCEPT ![c] = k] BY <1>3, <1>4
  <2>2. k <= IF s.st = "open" THEN 0 ELSE 1 BY <1>2, <2>1
  <2> QED BY <1>2, <1>4, <2>1, <2>2, QcPut
<1>5. CASE /\ qcConn' = [qcConn EXCEPT ![c] = [s EXCEPT !.st = "closing"]]
           /\ \E close \in {0, 1} : qcAfter' = [qcAfter EXCEPT ![c] = @ + close]
  <2> DEFINE n == [s EXCEPT !.st = "closing"]
  <2>1. QcGrown(qcConn[c], n) /\ n.st = "closing" BY <1>2, QcMoved
  <2>2. PICK k \in {0, 1} : qcAfter' = [qcAfter EXCEPT ![c] = k]
    <3>1. PICK close \in {0, 1} : qcAfter' = [qcAfter EXCEPT ![c] = @ + close] BY <1>5
    <3>2. qcAfter[c] + close = close BY <1>3
    <3> QED BY <3>1, <3>2
  <2>3. qcConn' = [qcConn EXCEPT ![c] = n] /\ k \in Nat /\ k <= 1 BY <1>5
  <2> HIDE DEF n
  <2> QED BY <2>1, <2>2, <2>3, QcPut
<1>6. CASE /\ mayDrop
           /\ qcConn' = [qcConn EXCEPT ![c] = [s EXCEPT !.st = "closed"]]
           /\ UNCHANGED qcAfter
  <2> DEFINE n == [s EXCEPT !.st = "closed"]
  <2>1. QcGrown(qcConn[c], n) /\ n.st = "closed" BY <1>2, QcMoved
  <2>2. PICK k \in Nat : k = 0 /\ qcAfter' = [qcAfter EXCEPT ![c] = k] BY <1>3, <1>6
  <2>3. qcConn' = [qcConn EXCEPT ![c] = n] /\ k <= 1 BY <1>6, <2>2
  <2> HIDE DEF n
  <2> QED BY <1>6, <2>1, <2>2, <2>3, QcPut
<1> QED BY <1>1, <1>4, <1>5, <1>6

\* The loop turns to a connection without changing it.
LEMMA QcTurned ==
  ASSUME QcInv, NEW c \in QcConns, qcConn[c].st \in {"open", "closing"}, qcLoop = QcNobody, qcLoop' = c,
         UNCHANGED <<qcTable, qcConn, qcGauge, qcAfter>>
  PROVE  QcInv'
<1>1. QcGrown(qcConn[c], qcConn[c]) /\ qcConn' = [qcConn EXCEPT ![c] = qcConn[c]] BY DEF QcInv, QcTyped, QcGrown
<1>2. qcAfter[c] \in Nat /\ qcAfter' = [qcAfter EXCEPT ![c] = qcAfter[c]] /\ qcAfter[c] <= IF qcConn[c].st = "open" THEN 0 ELSE 1
  BY DEF QcInv, QcTyped, QcPlace
<1> QED BY <1>1, <1>2, QcPut

LEMMA Qc_QcKnown ==
  ASSUME QcInv, NEW i \in QcIds, QcKnown(i)
  PROVE  QcInv'
<1> DEFINE c == qcTable[i]
<1>1. c \in QcConns /\ c \in QcListed BY DEF QcKnown, QcInv, QcTyped, QcListed
<1>2. process_packet(c) /\ qcLoop = QcNobody /\ qcLoop' = c /\ UNCHANGED <<qcTable, qcGauge>> BY DEF QcKnown
<1> HIDE DEF c
<1>3. qcConn[c].st \in {"open", "closing"} BY <1>1, <1>2, QcAssumption DEF QcInv, QcPlace
<1>4. CASE qcConn[c].st = "open" BY <1>1, <1>2, <1>4, Qc_QcRun DEF process_packet
<1>5. CASE qcConn[c].st # "open" BY <1>1, <1>2, <1>3, <1>5, QcTurned DEF process_packet
<1> QED BY <1>4, <1>5

LEMMA Qc_handle_expiry ==
  ASSUME QcInv, NEW c \in QcConns, handle_expiry(c)
  PROVE  QcInv'
<1>1. qcLoop = QcNobody /\ qcLoop' = c /\ UNCHANGED <<qcTable, qcGauge>> BY DEF handle_expiry
<1>2. CASE qcConn[c].st = "open" /\ QcRun(c, TRUE) BY <1>1, <1>2, Qc_QcRun
<1>3. CASE qcConn[c].st = "closing" /\ qcConn' = [qcConn EXCEPT ![c].st = "closed"] /\ UNCHANGED qcAfter
  <2> DEFINE n == [qcConn[c] EXCEPT !.st = "closed"]
  <2>1. QcGrown(qcConn[c], qcConn[c]) BY DEF QcInv, QcTyped, QcGrown
  <2>2. QcGrown(qcConn[c], n) /\ n.st = "closed" BY <1>3, <2>1, QcMoved
  <2>3. qcConn' = [qcConn EXCEPT ![c] = n] BY <1>3
  <2>4. qcAfter[c] \in Nat /\ qcAfter' = [qcAfter EXCEPT ![c] = qcAfter[c]] /\ qcAfter[c] <= 1
    BY <1>3 DEF QcInv, QcTyped, QcPlace
  <2> HIDE DEF n
  <2> QED BY <1>1, <1>3, <2>2, <2>3, <2>4, QcPut
<1> QED BY <1>2, <1>3 DEF handle_expiry

LEMMA Qc_QcWorker ==
  ASSUME QcInv, NEW c \in QcConns, QcWorker(c)
  PROVE  QcInv' BY Qc_QcRun DEF QcWorker

\* A new connection has two ids nobody has had.
LEMMA Qc_QcAccept ==
  ASSUME QcInv, NEW c \in QcConns, QcAccept(c)
  PROVE  QcInv'
<1>0. QcTyped /\ qcLoop = QcNobody /\ qcConn[c].st = "none" /\ UNCHANGED qcAfter BY DEF QcInv, QcAccept
<1>1. PICK i, j \in QcIds \ QcUsed :
        /\ i # j
        /\ qcTable' = [qcTable EXCEPT ![i] = c, ![j] = c]
        /\ qcGauge' = qcGauge + 1
        /\ qcLoop' = c
        /\ \E st \in {"open", "closing", "closed"} :
             qcConn' = [qcConn EXCEPT ![c] = [QcNew EXCEPT !.st = st, !.valid = {i, j}]] BY DEF QcAccept
<1>2. PICK st \in {"open", "closing", "closed"} :
        qcConn' = [qcConn EXCEPT ![c] = [QcNew EXCEPT !.st = st, !.valid = {i, j}]] BY <1>1
<1> DEFINE n == [QcNew EXCEPT !.st = st, !.valid = {i, j}]
<1>3. n \in QcRecords /\ n.st = st /\ n.valid = {i, j} /\ n.issued = {} /\ n.retired = {} BY DEF QcNew, QcRecords
<1>4. qcConn' = [qcConn EXCEPT ![c] = n] BY <1>2
<1> HIDE DEF n
<1>5. \A d \in QcConns : qcConn'[d] = IF d = c THEN n ELSE qcConn[d] BY <1>0, <1>4 DEF QcTyped
<1>6. \A k \in QcIds : qcTable'[k] = IF k \in {i, j} THEN c ELSE qcTable[k] BY <1>0, <1>1 DEF QcTyped
<1>7. /\ qcTable[i] = QcNobody /\ qcTable[j] = QcNobody
      /\ \A d \in QcConns : i \notin QcHas(d) /\ j \notin QcHas(d) BY DEF QcUsed, QcHas
<1>8. QcTyped' BY <1>0, <1>1, <1>3, <1>4 DEF QcTyped
<1>9. c \notin QcListed /\ c # QcNobody BY <1>0, QcAssumption DEF QcInv, QcPlace
<1>10. QcListed' = QcListed \cup {c}
  <2>1. \A d : d # c /\ d # QcNobody => \A k \in QcIds : qcTable'[k] = d <=> qcTable[k] = d BY <1>6, <1>7
  <2>2. qcTable'[i] = c BY <1>6
  <2>3. c \in QcListed' BY <1>9, <2>2 DEF QcListed
  <2>4. \A d : d # c => (d \in QcListed' <=> d \in QcListed) BY <2>1 DEF QcListed
  <2> QED BY <2>3, <2>4
<1>11. \A d \in QcConns : QcWhole(qcConn'[d])
  <2>1. QcWhole(n) BY <1>3 DEF QcWhole
  <2> QED BY <1>5, <2>1 DEF QcInv
<1>12. ASSUME NEW d \in QcConns PROVE QcPlace(d)'
  <2>1. CASE d = c
    <3>1. qcAfter[c] = 0 BY <1>0 DEF QcInv, QcTyped, QcPlace
    <3>2. \A k \in n.valid : qcTable'[k] = c BY <1>3, <1>6
    <3> QED BY <1>0, <1>1, <1>3, <1>5, <1>10, <2>1, <3>1, <3>2 DEF QcPlace
  <2>2. CASE d # c
    <3>1. QcPlace(d) /\ qcLoop # d /\ qcConn'[d] = qcConn[d] /\ (d \in QcListed' <=> d \in QcListed)
      BY <1>0, <1>5, <1>10, <2>2, QcAssumption DEF QcInv
    <3>2. ASSUME qcConn[d].st \in {"open", "closing"}, NEW k \in qcConn[d].valid PROVE qcTable'[k] = d \/ k \in qcConn[d].issued
      <4>1. qcTable[k] = d \/ k \in qcConn[d].issued BY <3>1, <3>2 DEF QcPlace
      <4>2. k \in QcIds /\ k \notin {i, j} BY <1>0, <1>7 DEF QcTyped, QcRecords, QcHas
      <4> QED BY <1>6, <4>1, <4>2
    <3> QED BY <1>0, <1>1, <2>2, <3>1, <3>2 DEF QcPlace
  <2> QED BY <2>1, <2>2
<1>13. \A d \in QcConns : QcHas(d)' = IF d = c THEN {i, j} ELSE QcHas(d) BY <1>3, <1>5 DEF QcHas
<1>14. QcRightful'
  <2>1. ASSUME NEW k \in QcIds, qcTable'[k] # QcNobody PROVE k \in qcConn'[qcTable'[k]].valid \cup qcConn'[qcTable'[k]].retired
    <3>1. CASE k \in {i, j} BY <1>3, <1>5, <1>6, <3>1
    <3>2. CASE k \notin {i, j}
      <4>1. qcTable'[k] = qcTable[k] /\ qcTable[k] \in QcListed /\ qcTable[k] \in QcConns
        BY <1>0, <1>6, <2>1, <3>2 DEF QcTyped, QcListed
      <4>2. k \in QcHas(qcTable[k]) /\ qcTable[k] # c BY <1>9, <2>1, <4>1 DEF QcInv, QcRightful
      <4> QED BY <1>5, <4>1, <4>2 DEF QcHas
    <3> QED BY <3>1, <3>2
  <2> QED BY <2>1 DEF QcRightful, QcHas
<1>15. QcApart'
  <2>1. ASSUME NEW d \in QcConns, NEW e \in QcConns, d # e PROVE QcHas(d)' \cap QcHas(e)' = {}
    BY <1>7, <1>13, <2>1 DEF QcInv, QcApart
  <2> QED BY <2>1 DEF QcApart
<1>16. QcCounted'
  <2>1. Cardinality(QcListed \cup {c}) = Cardinality(QcListed) + 1 BY <1>0, <1>9, QcListedFinite, FS_AddElement
  <2> QED BY <1>1, <1>10, <2>1 DEF QcInv, QcCounted
<1> QED BY <1>8, <1>11, <1>12, <1>14, <1>15, <1>16 DEF QcInv

\* The loop learns of what happened to the ids of a connection, and forgets a
\* connection that is closed.
LEMMA Qc_sync_connection ==
  ASSUME QcInv, NEW c \in QcConns, sync_connection(c)
  PROVE  QcInv'
<1> DEFINE closed == qcConn[c].st = "closed"
           routed == QcRouted(c)
           s == qcConn[c]
           n == [qcConn[c] EXCEPT !.issued = {}, !.retired = {}]
<1>0. QcTyped /\ qcLoop = c /\ qcLoop' = QcNobody /\ UNCHANGED qcAfter /\ c # QcNobody
  BY QcAssumption DEF QcInv, sync_connection
<1>1. /\ qcTable' = IF closed THEN [i \in QcIds |-> IF routed[i] = c THEN QcNobody ELSE routed[i]] ELSE routed
      /\ qcGauge' = IF closed THEN qcGauge - 1 ELSE qcGauge BY DEF sync_connection
<1>2. qcConn' = [qcConn EXCEPT ![c] = n] BY <1>0 DEF sync_connection, QcTyped, QcRecords
<1>3. s \in QcRecords /\ QcWhole(s) /\ QcPlace(c) /\ s.st # "none" /\ c \in QcListed
  BY <1>0 DEF QcInv, QcTyped, QcPlace
<1>4. n \in QcRecords /\ n.st = s.st /\ n.valid = s.valid /\ n.issued = {} /\ n.retired = {} BY <1>3 DEF QcRecords
<1> HIDE DEF n
<1>5. \A d \in QcConns : qcConn'[d] = IF d = c THEN n ELSE qcConn[d] BY <1>0, <1>2 DEF QcTyped
<1>6. ASSUME NEW i \in QcIds
      PROVE  /\ i \in s.issued \ s.retired => routed[i] = c
             /\ i \notin s.issued \ s.retired /\ i \in s.retired /\ qcTable[i] = c => routed[i] = QcNobody
             /\ i \notin s.issued \ s.retired /\ ~(i \in s.retired /\ qcTable[i] = c) => routed[i] = qcTable[i]
  BY DEF QcRouted
<1> HIDE DEF routed
<1>7. ASSUME NEW i \in QcIds PROVE qcTable'[i] = IF closed /\ routed[i] = c THEN QcNobody ELSE routed[i]
  BY <1>1 DEF QcRouted, routed
<1>8. ASSUME NEW i \in QcIds
      PROVE  /\ routed[i] = c <=> i \in s.valid /\ (qcTable[i] = c \/ i \in s.issued)
             /\ routed[i] # c => routed[i] = qcTable[i] \/ routed[i] = QcNobody
             /\ routed[i] # c /\ qcTable[i] # c => routed[i] = qcTable[i]
             /\ i \in s.issued => qcTable[i] = c \/ qcTable[i] = QcNobody
  <2>1. qcTable[i] = c => i \in s.valid \cup s.retired BY <1>0 DEF QcInv, QcRightful, QcHas
  <2>2. s.issued \subseteq s.valid \cup s.retired /\ s.valid \cap s.retired = {} BY <1>3 DEF QcWhole
  <2>3. ASSUME i \in s.issued PROVE qcTable[i] = c \/ qcTable[i] = QcNobody
    <3>1. qcTable[i] \in QcConns \cup {QcNobody} BY <1>0 DEF QcTyped
    <3>2. i \in QcHas(c) BY <2>2, <2>3 DEF QcHas
    <3>3. qcTable[i] # QcNobody => i \in QcHas(qcTable[i]) BY DEF QcInv, QcRightful
    <3> QED BY <3>1, <3>2, <3>3 DEF QcInv, QcApart
  <2> HIDE DEF s, closed
  <2> QED BY <1>0, <1>6, <2>1, <2>2, <2>3
<1>9. QcTyped'
  <2>1. \A i \in QcIds : qcTable'[i] \in QcConns \cup {QcNobody} BY <1>0, <1>7, <1>8 DEF QcTyped
  <2>2. qcTable' = [i \in QcIds |-> qcTable'[i]] BY <1>1 DEF QcRouted, routed
  <2>3. qcGauge' \in Int BY <1>0, <1>1 DEF QcTyped
  <2> QED BY <1>0, <1>2, <1>4, <2>1, <2>2, <2>3 DEF QcTyped
<1>10. QcListed' = IF closed THEN QcListed \ {c} ELSE QcListed
  <2>1. \A i \in QcIds : qcTable'[i] = c <=> ~closed /\ i \in s.valid /\ (qcTable[i] = c \/ i \in s.issued)
    BY <1>0, <1>7, <1>8
  <2>2. \A d : d # c /\ d # QcNobody => \A i \in QcIds : qcTable'[i] = d <=> qcTable[i] = d
    <3>1. ASSUME NEW d, d # c, d # QcNobody, NEW i \in QcIds PROVE qcTable'[i] = d <=> qcTable[i] = d
      <4>1. qcTable[i] = d => routed[i] # c BY <1>8, <3>1
      <4> HIDE DEF s, closed
      <4> QED BY <1>7, <1>8, <3>1, <4>1
    <3> QED BY <3>1
  <2>3. c \in QcListed' <=> ~closed
    <3>1. ~closed => \E i \in QcIds : qcTable'[i] = c
      <4>1. SUFFICES ASSUME ~closed PROVE \E i \in QcIds : qcTable'[i] = c OBVIOUS
      <4>2. s.st \in {"open", "closing"} BY <1>3, <4>1 DEF QcRecords
      <4>3. PICK i \in s.valid : TRUE BY <1>3 DEF QcWhole
      <4>4. i \in QcIds /\ (qcTable[i] = c \/ i \in s.issued) BY <1>3, <4>2 DEF QcPlace, QcRecords
      <4> QED BY <2>1, <4>1, <4>3, <4>4
    <3> QED BY <1>0, <2>1, <3>1 DEF QcListed
  <2>4. \A d : d # c => (d \in QcListed' <=> d \in QcListed) BY <2>2 DEF QcListed
  <2> HIDE DEF closed
  <2> QED BY <1>3, <2>3, <2>4
<1>11. \A d \in QcConns : QcWhole(qcConn'[d])
  <2>1. QcWhole(n) BY <1>3, <1>4 DEF QcWhole
  <2> QED BY <1>5, <2>1 DEF QcInv
<1>12. ASSUME NEW d \in QcConns PROVE QcPlace(d)'
  <2>1. CASE d = c
    <3>1. n.st \in {"open", "closing"} => \A i \in n.valid : qcTable'[i] = c
      <4>1. ASSUME s.st \in {"open", "closing"}, NEW i \in s.valid PROVE qcTable'[i] = c
        <5>1. i \in QcIds /\ (qcTable[i] = c \/ i \in s.issued) BY <1>3, <4>1 DEF QcPlace, QcRecords
        <5> QED BY <1>7, <1>8, <4>1, <5>1
      <4> QED BY <1>4, <4>1
    <3>2. n.st \in {"open", "closing"} <=> c \in QcListed' BY <1>3, <1>4, <1>10 DEF QcRecords
    <3>3. qcConn'[c] = n /\ qcLoop' # c BY <1>0, <1>5
    <3>4. qcAfter[c] <= IF n.st \in {"none", "open"} THEN 0 ELSE 1 BY <1>3, <1>4 DEF QcPlace
    <3> QED BY <1>0, <2>1, <3>1, <3>2, <3>3, <3>4 DEF QcPlace
  <2>2. CASE d # c
    <3>1. QcPlace(d) /\ qcLoop # d /\ qcLoop' # d /\ qcConn'[d] = qcConn[d] /\ (d \in QcListed' <=> d \in QcListed)
      BY <1>0, <1>5, <1>10, <2>2, QcAssumption DEF QcInv
    <3>2. ASSUME qcConn[d].st \in {"open", "closing"}, NEW k \in qcConn[d].valid PROVE qcTable'[k] = d \/ k \in qcConn[d].issued
      <4>1. k \in QcIds /\ (qcTable[k] = d \/ k \in qcConn[d].issued)
        BY <1>0, <3>1, <3>2 DEF QcPlace, QcTyped, QcRecords
      <4>2. k \notin s.valid BY <2>2, <3>2 DEF QcInv, QcApart, QcHas
      <4>3. qcTable[k] = d => qcTable'[k] = d BY <1>7, <1>8, <2>2, <4>1, <4>2
      <4> QED BY <4>1, <4>3
    <3> QED BY <1>0, <3>1, <3>2 DEF QcPlace
  <2> QED BY <2>1, <2>2
<1>13. \A d \in QcConns : QcHas(d)' = IF d = c THEN s.valid ELSE QcHas(d) BY <1>4, <1>5 DEF QcHas
<1>14. QcRightful'
  <2>1. ASSUME NEW k \in QcIds, qcTable'[k] # QcNobody PROVE k \in qcConn'[qcTable'[k]].valid \cup qcConn'[qcTable'[k]].retired
    <3>1. CASE qcTable'[k] = c
      <4>1. k \in s.valid BY <1>0, <1>7, <1>8, <3>1
      <4> QED BY <1>4, <1>5, <3>1, <4>1
    <3>2. CASE qcTable'[k] # c
      <4>1. qcTable'[k] = qcTable[k] /\ qcTable[k] \in QcConns BY <1>0, <1>7, <1>8, <2>1, <3>2 DEF QcTyped
      <4>2. k \in QcHas(qcTable[k]) BY <2>1, <4>1 DEF QcInv, QcRightful
      <4> QED BY <1>5, <3>2, <4>1, <4>2 DEF QcHas
    <3> QED BY <3>1, <3>2
  <2> QED BY <2>1 DEF QcRightful, QcHas
<1>15. QcApart'
  <2>1. s.valid \subseteq QcHas(c) BY DEF QcHas
  <2>2. ASSUME NEW d \in QcConns, NEW e \in QcConns, d # e PROVE QcHas(d)' \cap QcHas(e)' = {}
    BY <1>13, <2>1, <2>2 DEF QcInv, QcApart
  <2> QED BY <2>2 DEF QcApart
<1>16. QcCounted'
  <2>1. IsFiniteSet(QcListed) /\ Cardinality(QcListed) \in Nat BY <1>0, QcListedFinite
  <2>2. Cardinality(QcListed \ {c}) = Cardinality(QcListed) - 1 BY <1>3, <2>1, FS_RemoveElement
  <2> QED BY <1>1, <1>10, <2>2 DEF QcInv, QcCounted
<1> QED BY <1>9, <1>11, <1>12, <1>14, <1>15, <1>16 DEF QcInv

LEMMA QcStep == QcInv /\ [QcNext]_qcVars => QcInv'
<1> SUFFICES ASSUME QcInv, [QcNext]_qcVars PROVE QcInv' OBVIOUS
<1>1. CASE UNCHANGED qcVars
  BY <1>1 DEF qcVars, QcInv, QcTyped, QcWhole, QcPlace, QcRightful, QcApart, QcCounted, QcHas, QcListed
<1> QED BY <1>1, Qc_QcKnown, Qc_QcAccept, Qc_handle_expiry, Qc_sync_connection, Qc_QcWorker DEF QcNext

----
\* HTTP/3 streams: first the arithmetic of chunks.

LEMMA H3Times ==
  ASSUME NEW a \in Nat, NEW b \in Nat, NEW k \in Nat
  PROVE  a * k \in Nat /\ (a <= b => a * k <= b * k) OBVIOUS

LEMMA H3Division ==
  ASSUME NEW n \in Int, NEW k \in Int, k > 0
  PROVE  n = k * (n \div k) + (n % k) OBVIOUS

LEMMA H3Divided ==
  ASSUME NEW n \in Nat, NEW k \in Nat \ {0}
  PROVE  n \div k \in Nat /\ n % k \in Nat /\ n % k < k /\ n = (n \div k) * k + (n % k)
<1>1. n \div k \in Int OBVIOUS
<1>2. n % k \in Int OBVIOUS
<1>3. n % k >= 0 /\ n % k < k OBVIOUS
<1>4. n = k * (n \div k) + (n % k) BY H3Division
<1>5. n \div k >= 0 OBVIOUS
<1> DEFINE q == n \div k
           r == n % k
<1>6. q \in Nat /\ r \in Nat /\ r < k /\ n = k * q + r BY <1>1, <1>2, <1>3, <1>4, <1>5
<1> HIDE DEF q, r
<1>7. n = q * k + r BY <1>6
<1> QED BY <1>6, <1>7, Zenon DEF q, r

\* Quotient and remainder are the only ones.
LEMMA H3Quotient ==
  ASSUME NEW n \in Nat, NEW k \in Nat \ {0}, NEW q \in Nat, NEW r \in Nat, n = q * k + r, r < k
  PROVE  n \div k = q /\ n % k = r
<1> DEFINE p == n \div k
           t == n % k
<1>1. p \in Nat /\ t \in Nat /\ t < k /\ n = p * k + t BY H3Divided
<1> HIDE DEF p, t
<1>2. ASSUME p + 1 <= q PROVE FALSE
  <2>1. (p + 1) * k <= q * k BY <1>1, <1>2, H3Times
  <2>2. (p + 1) * k = p * k + k BY <1>1
  <2> QED BY <1>1, <2>1, <2>2, H3Times
<1>3. ASSUME q + 1 <= p PROVE FALSE
  <2>1. (q + 1) * k <= p * k BY <1>1, <1>3, H3Times
  <2>2. (q + 1) * k = q * k + k OBVIOUS
  <2> QED BY <1>1, <2>1, <2>2, H3Times
<1>4. p = q BY <1>1, <1>2, <1>3
<1>5. t = r BY <1>1, <1>4, H3Times
<1> QED BY <1>4, <1>5 DEF p, t

\* Acknowledgements of n more bytes, when the chunks handed out hold them all.
H3Whole(a, n, k) == ((a % k) + n) \div k
H3Fits(a, n, h, k) == a + n <= ((a \div k) + h) * k
H3Passed(a, n, h, k) ==
  /\ H3Whole(a, n, k) \in Nat /\ H3Whole(a, n, k) <= h
  /\ ((a % k) + n) - H3Whole(a, n, k) * k \in Nat
  /\ (a + n) \div k = (a \div k) + H3Whole(a, n, k)
  /\ (a + n) % k = ((a % k) + n) - H3Whole(a, n, k) * k
LEMMA H3Acknowledged ==
  ASSUME NEW a \in Nat, NEW n \in Nat, NEW h \in Nat, NEW k \in Nat \ {0}, H3Fits(a, n, h, k)
  PROVE  H3Passed(a, n, h, k)
<1> DEFINE q == a \div k
           r == a % k
           w == (r + n) \div k
           t == (r + n) % k
<1>1. q \in Nat /\ r \in Nat /\ r < k /\ a = q * k + r BY H3Divided
<1>2. w \in Nat /\ t \in Nat /\ t < k /\ r + n = w * k + t BY <1>1, H3Divided
<1>3. a + n <= (q + h) * k BY DEF H3Fits
<1> HIDE DEF q, r, w, t
<1>4. (q + h) * k = q * k + h * k /\ (q + w) * k = q * k + w * k BY <1>1, <1>2
<1>5. q * k \in Nat /\ h * k \in Nat /\ w * k \in Nat BY <1>1, <1>2, H3Times
<1>6. w <= h
  <2>1. ASSUME h + 1 <= w PROVE FALSE
    <3>1. (h + 1) * k <= w * k BY <1>2, <2>1, H3Times
    <3>2. (h + 1) * k = h * k + k OBVIOUS
    <3> QED BY <1>1, <1>2, <1>3, <1>4, <1>5, <3>1, <3>2
  <2> QED BY <1>2, <2>1
<1>7. a + n = (q + w) * k + t BY <1>1, <1>2, <1>4, <1>5
<1>8. (a + n) \div k = q + w /\ (a + n) % k = t
  <2>1. a + n \in Nat /\ q + w \in Nat BY <1>1, <1>2
  <2> QED BY <1>2, <1>7, <2>1, H3Quotient
<1>9. t = (r + n) - w * k BY <1>1, <1>2, <1>5
<1> QED BY <1>2, <1>6, <1>8, <1>9 DEF q, r, w, H3Whole, H3Passed

H3Streams ==
  [st : {"none", "open", "closed"}, body : Nat, body_too_large : BOOLEAN, headers_complete : BOOLEAN, dispatched : {0, 1},
   streaming : BOOLEAN, ended : BOOLEAN, chunks : Nat, freed : Nat, handed_out : Nat, front_acked : Nat, written : Nat,
   acked : Nat, file : Nat, window : Nat, blocked : BOOLEAN, waits : BOOLEAN, eof : BOOLEAN, shut : BOOLEAN]
H3Writers == [exists : BOOLEAN, headers_sent : BOOLEAN, told : {0, 1}]

\* The chunks of a response: acknowledged ones are freed, handed out ones may
\* be written, and no more exist than were pushed.
H3Held(c) ==
  /\ c.freed = c.acked \div H3Chunk /\ c.front_acked = c.acked % H3Chunk
  /\ c.freed + c.handed_out <= c.chunks
  /\ c.acked <= c.written /\ c.written <= H3Handed(c)

\* How far it has come: the end is told only when everything is handed out and
\* nothing more can come.
H3Course(c) ==
  /\ c.blocked => c.written < H3Handed(c)
  /\ c.waits => c.streaming /\ ~c.ended /\ c.freed + c.handed_out = c.chunks /\ c.written = H3Handed(c)
  /\ c.eof => c.freed + c.handed_out = c.chunks /\ c.file = 0 /\ (c.streaming => c.ended) /\ c.dispatched = 1
  /\ c.shut => c.eof /\ c.written = H3Handed(c)

\* A response has a writer, and its stream is told of as a whole by it.
H3Begun(c, w) ==
  /\ w.headers_sent => w.exists
  /\ w.exists => c.dispatched = 1 /\ c.st # "none"
  /\ ~w.headers_sent => c.chunks = 0 /\ c.file = 0 /\ ~c.streaming /\ (w.exists => ~c.eof)
  /\ w.told = IF w.exists /\ (h3State = "gone" \/ c.st = "closed") THEN 1 ELSE 0

H3Fine(c, w) == c \in H3Streams /\ w \in H3Writers /\ H3Held(c) /\ H3Course(c) /\ H3Begun(c, w)

\* Nothing of a stream is left to be done.
H3Done(c) == (c.written = H3Handed(c) /\ c.freed + c.handed_out = c.chunks /\ (c.eof <=> c.shut)) \/ c.blocked

H3Typed ==
  /\ h3Stream \in [H3Ids -> H3Streams] /\ h3Writer \in [H3Ids -> H3Writers]
  /\ h3Window \in Nat /\ h3Sending \in BOOLEAN /\ h3State \in {"open", "closing", "gone"}

H3Inv ==
  /\ H3Typed /\ \A s \in H3Ids : H3Fine(h3Stream[s], h3Writer[s])
  /\ h3State = "open" /\ ~h3Sending => \A s \in H3Ids : h3Stream[s].st = "open" => H3Done(h3Stream[s])

LEMMA H3Started == H3Init => H3Inv
<1> SUFFICES ASSUME H3Init PROVE H3Inv OBVIOUS
<1> DEFINE w == [exists |-> FALSE, headers_sent |-> FALSE, told |-> 0]
<1>1. /\ H3NoStream \in H3Streams
      /\ H3NoStream.st = "none" /\ H3NoStream.dispatched = 0 /\ ~H3NoStream.streaming /\ ~H3NoStream.ended
      /\ H3NoStream.chunks = 0 /\ H3NoStream.freed = 0 /\ H3NoStream.handed_out = 0 /\ H3NoStream.front_acked = 0
      /\ H3NoStream.written = 0 /\ H3NoStream.acked = 0 /\ H3NoStream.file = 0 /\ ~H3NoStream.blocked
      /\ ~H3NoStream.waits /\ ~H3NoStream.eof /\ ~H3NoStream.shut BY DEF H3NoStream, H3Streams
<1>2. w \in H3Writers /\ ~w.exists /\ ~w.headers_sent /\ w.told = 0 BY DEF H3Writers
<1>3. \A s \in H3Ids : h3Stream[s] = H3NoStream /\ h3Writer[s] = w BY DEF H3Init
<1>4. H3Typed BY <1>1, <1>2, H3Assumption DEF H3Init, H3Typed
<1> HIDE DEF w
<1>5. H3Chunk \in Nat \ {0} BY H3Assumption
<1>6. H3Handed(H3NoStream) = 0 BY <1>1, <1>5 DEF H3Handed
<1>7. 0 \div H3Chunk = 0 /\ 0 % H3Chunk = 0 BY <1>5, H3Quotient, H3Times
<1>8. H3Held(H3NoStream) BY <1>1, <1>6, <1>7 DEF H3Held
<1>9. H3Course(H3NoStream) BY <1>1 DEF H3Course
<1>10. H3Begun(H3NoStream, w) BY <1>1, <1>2 DEF H3Begun
<1>11. \A s \in H3Ids : H3Fine(h3Stream[s], h3Writer[s]) BY <1>1, <1>2, <1>3, <1>8, <1>9, <1>10 DEF H3Fine
<1>12. \A s \in H3Ids : h3Stream[s].st # "open" BY <1>1, <1>3
<1> QED BY <1>4, <1>11, <1>12 DEF H3Inv

LEMMA H3Agree ==
  ASSUME NEW a \in BOOLEAN, NEW b \in BOOLEAN, a <=> b
  PROVE  a = b OBVIOUS

LEMMA H3Holds == H3Inv => ChunksLiveUntilAcked /\ H3NothingStranded
<1> SUFFICES ASSUME H3Inv PROVE ChunksLiveUntilAcked /\ H3NothingStranded OBVIOUS
<1>1. \A s \in H3Ids : H3Fine(h3Stream[s], h3Writer[s]) BY DEF H3Inv
<1>2. ChunksLiveUntilAcked BY <1>1 DEF ChunksLiveUntilAcked, H3Fine, H3Held
<1>3. ASSUME NEW s \in H3Ids
      PROVE  LET c == h3Stream[s] IN
             /\ c.st = "open" /\ h3State = "open" /\ ~h3Sending =>
                  (c.written = c.chunks * H3Chunk /\ c.eof = c.shut) \/ c.blocked
             /\ c.blocked => c.written < H3Handed(c)
             /\ c.waits => ~c.ended /\ c.streaming /\ ~has_unsent(c) /\ c.written = H3Handed(c)
             /\ c.shut => c.written = c.chunks * H3Chunk
  <2> DEFINE c == h3Stream[s]
  <2>1. c \in H3Streams /\ H3Course(c) /\ (h3State = "open" /\ ~h3Sending /\ c.st = "open" => H3Done(c))
    BY <1>1 DEF H3Fine, H3Inv
  <2> HIDE DEF c
  <2>2. c.eof \in BOOLEAN /\ c.shut \in BOOLEAN /\ c.chunks \in Nat /\ c.freed \in Nat /\ c.handed_out \in Nat
    BY <2>1 DEF H3Streams
  <2>3. (c.eof <=> c.shut) => c.eof = c.shut BY <2>2, H3Agree
  <2>4. c.freed + c.handed_out = c.chunks => H3Handed(c) = c.chunks * H3Chunk BY DEF H3Handed
  <2>5. c.freed + c.handed_out = c.chunks => ~has_unsent(c) BY <2>2 DEF has_unsent
  <2>6. c.st = "open" /\ h3State = "open" /\ ~h3Sending => (c.written = c.chunks * H3Chunk /\ c.eof = c.shut) \/ c.blocked
    BY <2>1, <2>3, <2>4, Zenon DEF H3Done
  <2>7. /\ c.blocked => c.written < H3Handed(c)
        /\ c.waits => ~c.ended /\ c.streaming /\ ~has_unsent(c) /\ c.written = H3Handed(c)
        /\ c.shut => c.written = c.chunks * H3Chunk BY <2>1, <2>4, <2>5, Zenon DEF H3Course
  <2> QED BY <2>6, <2>7, Zenon DEF c
<1>4. ASSUME NEW s \in H3Ids
      PROVE  /\ h3Stream[s].dispatched <= 1
             /\ h3Writer[s].told = IF h3Writer[s].exists /\ (h3State = "gone" \/ h3Stream[s].st = "closed") THEN 1 ELSE 0
  BY <1>1 DEF H3Fine, H3Streams, H3Begun
<1>5. H3NothingStranded BY <1>3, <1>4, Zenon DEF H3NothingStranded
<1> QED BY <1>2, <1>5

LEMMA H3At ==
  ASSUME H3Inv, NEW s \in H3Ids
  PROVE  /\ h3Stream[s] \in H3Streams /\ h3Writer[s] \in H3Writers
         /\ H3Held(h3Stream[s]) /\ H3Course(h3Stream[s]) /\ H3Begun(h3Stream[s], h3Writer[s]) BY DEF H3Inv, H3Fine

\* One stream and its writer change. send_pending_data() follows while the
\* connection is open, or is not over yet.
LEMMA H3Put ==
  ASSUME H3Inv, NEW s \in H3Ids, NEW c, NEW w, H3Fine(c, w),
         h3Stream' = [h3Stream EXCEPT ![s] = c], h3Writer' = [h3Writer EXCEPT ![s] = w],
         h3Window' \in Nat, h3Sending' \in BOOLEAN, h3State = "open" => h3Sending', h3State' = h3State
  PROVE  H3Inv'
<1>1. \A r \in H3Ids : h3Stream'[r] = (IF r = s THEN c ELSE h3Stream[r]) /\ h3Writer'[r] = (IF r = s THEN w ELSE h3Writer[r])
  BY DEF H3Inv, H3Typed
<1>2. H3Typed' BY DEF H3Inv, H3Typed, H3Fine
<1>3. ASSUME NEW r \in H3Ids PROVE H3Fine(h3Stream[r], h3Writer[r])'
  <2>1. H3Fine(h3Stream'[r], h3Writer'[r]) BY <1>1 DEF H3Inv
  <2> QED BY <2>1 DEF H3Fine, H3Held, H3Course, H3Begun, H3Handed
<1> QED BY <1>2, <1>3 DEF H3Inv

LEMMA H3PutStream ==
  ASSUME H3Inv, NEW s \in H3Ids, NEW c \in H3Streams, H3Held(c), H3Course(c), H3Begun(c, h3Writer[s]),
         h3Stream' = [h3Stream EXCEPT ![s] = c], h3Writer' = h3Writer,
         h3Window' \in Nat, h3Sending' \in BOOLEAN, h3State = "open" => h3Sending', h3State' = h3State
  PROVE  H3Inv'
<1>1. h3Writer' = [h3Writer EXCEPT ![s] = h3Writer[s]] BY DEF H3Inv, H3Typed
<1>2. H3Fine(c, h3Writer[s]) BY H3At DEF H3Fine
<1> QED BY <1>1, <1>2, H3Put

\* The amounts of a response are natural numbers.
LEMMA H3Amounts ==
  ASSUME NEW c \in H3Streams
  PROVE  /\ c.chunks \in Nat /\ c.freed \in Nat /\ c.handed_out \in Nat /\ c.written \in Nat /\ c.acked \in Nat
         /\ c.file \in Nat /\ c.window \in Nat /\ H3Handed(c) \in Nat /\ H3Chunk \in Nat \ {0}
<1>1. c.freed + c.handed_out \in Nat /\ H3Chunk \in Nat \ {0} BY H3Assumption DEF H3Streams
<1>2. H3Handed(c) \in Nat BY <1>1, H3Times DEF H3Handed
<1> QED BY <1>1, <1>2 DEF H3Streams

LEMMA H3_on_end_headers ==
  ASSUME H3Inv, NEW s \in H3Ids, on_end_headers(s)
  PROVE  H3Inv'
<1> DEFINE c == [h3Stream[s] EXCEPT !.st = "open", !.headers_complete = TRUE]
<1>1. h3Stream[s].st = "none" /\ h3State = "open" BY DEF on_end_headers
<1>2. /\ h3Stream[s] \in H3Streams /\ h3Writer[s] \in H3Writers
      /\ H3Held(h3Stream[s]) /\ H3Course(h3Stream[s]) /\ H3Begun(h3Stream[s], h3Writer[s]) BY H3At
<1>3. h3Stream' = [h3Stream EXCEPT ![s] = c] /\ h3Writer' = h3Writer /\ h3State' = h3State
        /\ h3Window' \in Nat /\ h3Sending' \in BOOLEAN /\ (h3State = "open" => h3Sending')
  BY H3Assumption DEF H3Inv, H3Typed, on_end_headers, H3Touch
<1>4. /\ c \in H3Streams
      /\ c.st = "open" /\ c.dispatched = h3Stream[s].dispatched /\ (c.streaming <=> h3Stream[s].streaming)
      /\ (c.ended <=> h3Stream[s].ended) /\ c.chunks = h3Stream[s].chunks /\ c.freed = h3Stream[s].freed
      /\ c.handed_out = h3Stream[s].handed_out /\ c.front_acked = h3Stream[s].front_acked
      /\ c.written = h3Stream[s].written /\ c.acked = h3Stream[s].acked /\ c.file = h3Stream[s].file
      /\ (c.blocked <=> h3Stream[s].blocked) /\ (c.waits <=> h3Stream[s].waits) /\ (c.eof <=> h3Stream[s].eof)
      /\ (c.shut <=> h3Stream[s].shut) BY <1>2 DEF H3Streams
<1> HIDE DEF c
<1>5. H3Handed(c) = H3Handed(h3Stream[s]) BY <1>4 DEF H3Handed
<1>6. H3Held(c) BY <1>2, <1>4, <1>5, H3Amounts DEF H3Held
<1>7. H3Course(c) BY <1>1, <1>2, <1>4, <1>5, H3Amounts DEF H3Course, H3Begun
<1>8. H3Begun(c, h3Writer[s]) BY <1>1, <1>2, <1>4 DEF H3Begun, H3Writers
<1> QED BY <1>3, <1>4, <1>6, <1>7, <1>8, H3PutStream

LEMMA H3_on_recv_data ==
  ASSUME H3Inv, NEW s \in H3Ids, on_recv_data(s)
  PROVE  H3Inv'
<1> DEFINE big == h3Stream[s].body + 1 > H3MaxBody
           body == IF big THEN 0 ELSE h3Stream[s].body + 1
           c == [h3Stream[s] EXCEPT !.body_too_large = big, !.body = body]
<1>1. h3State = "open" BY DEF on_recv_data
<1>2. /\ h3Stream[s] \in H3Streams /\ h3Writer[s] \in H3Writers
      /\ H3Held(h3Stream[s]) /\ H3Course(h3Stream[s]) /\ H3Begun(h3Stream[s], h3Writer[s]) BY H3At
<1>3. h3Stream' = [h3Stream EXCEPT ![s] = c] /\ h3Writer' = h3Writer /\ h3State' = h3State
        /\ h3Window' \in Nat /\ h3Sending' \in BOOLEAN /\ (h3State = "open" => h3Sending')
  BY H3Assumption DEF H3Inv, H3Typed, on_recv_data, H3Touch
<1> HIDE DEF c
<1>9. big \in BOOLEAN /\ body \in Nat BY <1>2 DEF H3Streams
<1> HIDE DEF big, body
<1> USE DEF c
<1>4. /\ c \in H3Streams
      /\ c.st = h3Stream[s].st /\ c.dispatched = h3Stream[s].dispatched
      /\ (c.streaming <=> h3Stream[s].streaming) /\ (c.ended <=> h3Stream[s].ended)
      /\ c.chunks = h3Stream[s].chunks /\ c.freed = h3Stream[s].freed /\ c.handed_out = h3Stream[s].handed_out
      /\ c.front_acked = h3Stream[s].front_acked /\ c.written = h3Stream[s].written
      /\ c.acked = h3Stream[s].acked /\ c.file = h3Stream[s].file /\ (c.blocked <=> h3Stream[s].blocked)
      /\ (c.waits <=> h3Stream[s].waits) /\ (c.eof <=> h3Stream[s].eof) /\ (c.shut <=> h3Stream[s].shut)
  BY <1>2, <1>9 DEF H3Streams
<1> HIDE DEF c
<1>5. H3Handed(c) = H3Handed(h3Stream[s]) BY <1>4 DEF H3Handed
<1>6. H3Held(c) BY <1>2, <1>4, <1>5, H3Amounts DEF H3Held
<1>7. H3Course(c) BY <1>1, <1>2, <1>4, <1>5, H3Amounts DEF H3Course, H3Begun
<1>8. H3Begun(c, h3Writer[s]) BY <1>1, <1>2, <1>4 DEF H3Begun, H3Writers
<1> QED BY <1>3, <1>4, <1>6, <1>7, <1>8, H3PutStream

LEMMA H3_on_extend_max_stream_data ==
  ASSUME H3Inv, NEW s \in H3Ids, on_extend_max_stream_data(s)
  PROVE  H3Inv'
<1> DEFINE window == h3Stream[s].window + H3Chunk + 1
           c == [h3Stream[s] EXCEPT !.window = window, !.blocked = FALSE]
<1>1. h3State = "open" BY DEF on_extend_max_stream_data
<1>2. /\ h3Stream[s] \in H3Streams /\ h3Writer[s] \in H3Writers
      /\ H3Held(h3Stream[s]) /\ H3Course(h3Stream[s]) /\ H3Begun(h3Stream[s], h3Writer[s]) BY H3At
<1>3. h3Stream' = [h3Stream EXCEPT ![s] = c] /\ h3Writer' = h3Writer /\ h3State' = h3State
        /\ h3Window' \in Nat /\ h3Sending' \in BOOLEAN /\ (h3State = "open" => h3Sending')
  BY H3Assumption DEF H3Inv, H3Typed, on_extend_max_stream_data, H3Touch
<1>9. window \in Nat BY <1>2, H3Amounts
<1> HIDE DEF window
<1>4. /\ c \in H3Streams
      /\ c.st = h3Stream[s].st /\ c.dispatched = h3Stream[s].dispatched
      /\ (c.streaming <=> h3Stream[s].streaming) /\ (c.ended <=> h3Stream[s].ended)
      /\ c.chunks = h3Stream[s].chunks /\ c.freed = h3Stream[s].freed /\ c.handed_out = h3Stream[s].handed_out
      /\ c.front_acked = h3Stream[s].front_acked /\ c.written = h3Stream[s].written
      /\ c.acked = h3Stream[s].acked /\ c.file = h3Stream[s].file /\ ~c.blocked
      /\ (c.waits <=> h3Stream[s].waits) /\ (c.eof <=> h3Stream[s].eof) /\ (c.shut <=> h3Stream[s].shut)
  BY <1>2, <1>9 DEF H3Streams
<1> HIDE DEF c
<1>5. H3Handed(c) = H3Handed(h3Stream[s]) BY <1>4 DEF H3Handed
<1>6. H3Held(c) BY <1>2, <1>4, <1>5, H3Amounts DEF H3Held
<1>7. H3Course(c) BY <1>1, <1>2, <1>4, <1>5, H3Amounts DEF H3Course, H3Begun
<1>8. H3Begun(c, h3Writer[s]) BY <1>1, <1>2, <1>4 DEF H3Begun, H3Writers
<1> QED BY <1>3, <1>4, <1>6, <1>7, <1>8, H3PutStream

LEMMA H3_H3EndStream ==
  ASSUME H3Inv, NEW s \in H3Ids, H3EndStream(s)
  PROVE  H3Inv'
<1> DEFINE c == [h3Stream[s] EXCEPT !.ended = TRUE, !.waits = FALSE]
<1>1. h3Stream[s].streaming /\ ~h3Stream[s].ended BY DEF H3EndStream, H3MayStream
<1>2. /\ h3Stream[s] \in H3Streams /\ h3Writer[s] \in H3Writers
      /\ H3Held(h3Stream[s]) /\ H3Course(h3Stream[s]) /\ H3Begun(h3Stream[s], h3Writer[s]) BY H3At
<1>3. h3Stream' = [h3Stream EXCEPT ![s] = c] /\ h3Writer' = h3Writer /\ h3State' = h3State
        /\ h3Window' \in Nat /\ h3Sending' \in BOOLEAN /\ (h3State = "open" => h3Sending')
  BY H3Assumption DEF H3Inv, H3Typed, H3EndStream, H3Touch
<1>4. /\ c \in H3Streams
      /\ c.st = h3Stream[s].st /\ c.dispatched = h3Stream[s].dispatched
      /\ (c.streaming <=> h3Stream[s].streaming) /\ c.ended /\ c.chunks = h3Stream[s].chunks
      /\ c.freed = h3Stream[s].freed /\ c.handed_out = h3Stream[s].handed_out
      /\ c.front_acked = h3Stream[s].front_acked /\ c.written = h3Stream[s].written
      /\ c.acked = h3Stream[s].acked /\ c.file = h3Stream[s].file /\ (c.blocked <=> h3Stream[s].blocked)
      /\ ~c.waits /\ (c.eof <=> h3Stream[s].eof) /\ (c.shut <=> h3Stream[s].shut) BY <1>2 DEF H3Streams
<1> HIDE DEF c
<1>5. H3Handed(c) = H3Handed(h3Stream[s]) BY <1>4 DEF H3Handed
<1>6. H3Held(c) BY <1>2, <1>4, <1>5, H3Amounts DEF H3Held
<1>7. H3Course(c) BY <1>1, <1>2, <1>4, <1>5, H3Amounts DEF H3Course, H3Begun
<1>8. H3Begun(c, h3Writer[s]) BY <1>1, <1>2, <1>4 DEF H3Begun, H3Writers
<1> QED BY <1>3, <1>4, <1>6, <1>7, <1>8, H3PutStream

\* A request is dispatched: it is answered here, or gets a handler.
LEMMA H3_on_end_stream ==
  ASSUME H3Inv, NEW s \in H3Ids, on_end_stream(s)
  PROVE  H3Inv'
<1>1. h3State = "open" /\ h3Stream[s].st = "open" /\ h3Stream[s].dispatched = 0 /\ handle_request(s)
      /\ UNCHANGED <<h3Window, h3State>> BY DEF on_end_stream, H3Live
<1>2. /\ h3Stream[s] \in H3Streams /\ h3Writer[s] \in H3Writers
      /\ H3Held(h3Stream[s]) /\ H3Course(h3Stream[s]) /\ H3Begun(h3Stream[s], h3Writer[s]) BY H3At
<1>3. ~h3Writer[s].exists /\ ~h3Writer[s].headers_sent /\ ~h3Stream[s].eof /\ h3Writer[s].told = 0
      /\ h3Stream[s].chunks = 0 /\ h3Stream[s].file = 0 /\ ~h3Stream[s].streaming BY <1>1, <1>2 DEF H3Begun, H3Course
<1>4. h3Window \in Nat BY DEF H3Inv, H3Typed
<1>5. h3Stream[s].freed + h3Stream[s].handed_out = 0 BY <1>2, <1>3, H3Amounts DEF H3Held
<1> DEFINE b == [h3Stream[s] EXCEPT !.dispatched = @ + 1]
<1>6. /\ b \in H3Streams
      /\ b.st = h3Stream[s].st /\ b.dispatched = 1 /\ (b.streaming <=> h3Stream[s].streaming)
      /\ (b.ended <=> h3Stream[s].ended) /\ b.chunks = h3Stream[s].chunks /\ b.freed = h3Stream[s].freed
      /\ b.handed_out = h3Stream[s].handed_out /\ b.front_acked = h3Stream[s].front_acked
      /\ b.written = h3Stream[s].written /\ b.acked = h3Stream[s].acked /\ b.file = h3Stream[s].file
      /\ (b.blocked <=> h3Stream[s].blocked) /\ (b.waits <=> h3Stream[s].waits) /\ (b.eof <=> h3Stream[s].eof)
      /\ (b.shut <=> h3Stream[s].shut) BY <1>1, <1>2 DEF H3Streams
<1> HIDE DEF b
<1>7. CASE H3Touch(s, [b EXCEPT !.eof = TRUE]) /\ UNCHANGED h3Writer
  <2> DEFINE c == [b EXCEPT !.eof = TRUE]
  <2>1. /\ c \in H3Streams
        /\ c.st = h3Stream[s].st /\ c.dispatched = 1 /\ (c.streaming <=> h3Stream[s].streaming)
        /\ (c.ended <=> h3Stream[s].ended) /\ c.chunks = h3Stream[s].chunks /\ c.freed = h3Stream[s].freed
        /\ c.handed_out = h3Stream[s].handed_out /\ c.front_acked = h3Stream[s].front_acked
        /\ c.written = h3Stream[s].written /\ c.acked = h3Stream[s].acked /\ c.file = h3Stream[s].file
        /\ (c.blocked <=> h3Stream[s].blocked) /\ (c.waits <=> h3Stream[s].waits) /\ c.eof
        /\ (c.shut <=> h3Stream[s].shut) BY <1>6 DEF H3Streams
  <2>2. h3Stream' = [h3Stream EXCEPT ![s] = c] /\ h3Sending' = (h3State = "open") /\ h3Writer' = h3Writer
    BY <1>7 DEF H3Touch
  <2> HIDE DEF c
  <2>3. H3Handed(c) = H3Handed(h3Stream[s]) BY <2>1 DEF H3Handed
  <2>4. H3Held(c) BY <1>2, <2>1, <2>3 DEF H3Held
  <2>5. H3Course(c) BY <1>2, <1>3, <1>5, <2>1, <2>3 DEF H3Course
  <2>6. H3Begun(c, h3Writer[s]) BY <1>1, <1>2, <1>3, <2>1 DEF H3Begun
  <2> QED BY <1>1, <1>4, <2>1, <2>2, <2>4, <2>5, <2>6, H3PutStream
<1>8. CASE H3Touch(s, b) /\ h3Writer' = [h3Writer EXCEPT ![s].exists = TRUE]
  <2> DEFINE w == [h3Writer[s] EXCEPT !.exists = TRUE]
  <2>1. w \in H3Writers /\ w.exists /\ ~w.headers_sent /\ w.told = 0 BY <1>2, <1>3 DEF H3Writers
  <2>2. h3Stream' = [h3Stream EXCEPT ![s] = b] /\ h3Sending' = (h3State = "open") /\ h3Writer' = [h3Writer EXCEPT ![s] = w]
    BY <1>8 DEF H3Touch
  <2> HIDE DEF w
  <2>3. H3Handed(b) = H3Handed(h3Stream[s]) BY <1>6 DEF H3Handed
  <2>4. H3Held(b) BY <1>2, <1>6, <2>3 DEF H3Held
  <2>5. H3Course(b) BY <1>2, <1>3, <1>6, <2>3 DEF H3Course
  <2>6. H3Begun(b, w) BY <1>1, <1>3, <1>6, <2>1 DEF H3Begun
  <2>7. H3Fine(b, w) BY <1>6, <2>1, <2>4, <2>5, <2>6 DEF H3Fine
  <2> QED BY <1>1, <1>4, <2>2, <2>7, H3Put
<1> QED BY <1>1, <1>7, <1>8 DEF handle_request, b

\* Acknowledgements free exactly the chunks they complete.
LEMMA H3Acked ==
  ASSUME NEW c \in H3Streams, H3Held(c), NEW n \in 1..(c.written - c.acked)
  PROVE  LET d == [SentChunks_ack(c, n) EXCEPT !.acked = @ + n] IN
         /\ d \in H3Streams /\ H3Held(d) /\ H3Handed(d) = H3Handed(c)
         /\ d.freed + d.handed_out = c.freed + c.handed_out
         /\ d.st = c.st /\ d.dispatched = c.dispatched /\ (d.streaming <=> c.streaming) /\ (d.ended <=> c.ended)
         /\ d.chunks = c.chunks  /\ d.written >= d.acked
         /\ d.written = c.written  /\ d.file = c.file /\ (d.blocked <=> c.blocked)
         /\ (d.waits <=> c.waits) /\ (d.eof <=> c.eof) /\ (d.shut <=> c.shut)
<1> DEFINE whole == (c.front_acked + n) \div H3Chunk
           drop == IF whole < c.handed_out THEN whole ELSE c.handed_out
           front == c.front_acked + n - drop * H3Chunk
           d == [SentChunks_ack(c, n) EXCEPT !.acked = @ + n]
<1>1. /\ c.chunks \in Nat /\ c.freed \in Nat /\ c.handed_out \in Nat /\ c.written \in Nat /\ c.acked \in Nat
      /\ H3Chunk \in Nat \ {0} /\ n \in Nat /\ c.acked + n <= c.written /\ c.acked + n \in Nat BY H3Amounts
<1>2. c.front_acked = c.acked % H3Chunk /\ c.freed = c.acked \div H3Chunk /\ c.written <= (c.freed + c.handed_out) * H3Chunk
  BY DEF H3Held, H3Handed
<1>3. c.acked + n <= ((c.acked \div H3Chunk) + c.handed_out) * H3Chunk
  <2>1. (c.freed + c.handed_out) * H3Chunk \in Nat BY <1>1, H3Times
  <2>2. c.acked + n <= (c.freed + c.handed_out) * H3Chunk BY <1>1, <1>2, <2>1
  <2> QED BY <1>2, <2>2
<1>4. /\ whole \in Nat /\ whole <= c.handed_out
      /\ ((c.acked % H3Chunk) + n) - whole * H3Chunk \in Nat
      /\ (c.acked + n) \div H3Chunk = (c.acked \div H3Chunk) + whole
      /\ (c.acked + n) % H3Chunk = ((c.acked % H3Chunk) + n) - whole * H3Chunk
  <2> DEFINE w == H3Whole(c.acked, n, H3Chunk)
  <2>1. /\ w \in Nat /\ w <= c.handed_out
        /\ ((c.acked % H3Chunk) + n) - w * H3Chunk \in Nat
        /\ (c.acked + n) \div H3Chunk = (c.acked \div H3Chunk) + w
        /\ (c.acked + n) % H3Chunk = ((c.acked % H3Chunk) + n) - w * H3Chunk
    <3>1. c.acked \in Nat BY <1>1
    <3>2. n \in Nat BY <1>1
    <3>3. c.handed_out \in Nat BY <1>1
    <3>4. H3Chunk \in Nat \ {0} BY <1>1
    <3>5. H3Fits(c.acked, n, c.handed_out, H3Chunk) BY <1>3 DEF H3Fits
    <3>6. H3Passed(c.acked, n, c.handed_out, H3Chunk) BY <3>1, <3>2, <3>3, <3>4, <3>5, H3Acknowledged
    <3> QED BY <3>6, Zenon DEF H3Passed
  <2>2. whole = w BY <1>2 DEF H3Whole
  <2> HIDE DEF w, whole
  <2> QED BY <2>1, <2>2, Zenon
<1> HIDE DEF whole
<1>40. whole \in Nat /\ whole <= c.handed_out BY <1>4
<1>5. drop = whole BY <1>1, <1>40
<1> HIDE DEF drop
<1>41. front = ((c.front_acked + n) - whole * H3Chunk)
  <2>1. c.front_acked \in Nat /\ whole * H3Chunk \in Nat BY <1>1, <1>40, H3Times DEF H3Streams
  <2> QED BY <1>1, <1>5, <2>1
<1>6. front = ((c.acked % H3Chunk) + n) - whole * H3Chunk BY <1>2, <1>41
<1> USE DEF whole, drop
<1>7. d = [c EXCEPT !.front_acked = front, !.freed = @ + drop, !.handed_out = @ - drop, !.acked = @ + n]
  BY DEF SentChunks_ack, H3Streams
<1> HIDE DEF whole, drop, front
<1> DEFINE freed == c.freed + drop
           handed == c.handed_out - drop
           acked == c.acked + n
<1>8. freed \in Nat /\ handed \in Nat /\ acked \in Nat /\ front \in Nat /\ freed + handed = c.freed + c.handed_out
      /\ acked <= c.written BY <1>1, <1>4, <1>5, <1>6
<1>9. d = [c EXCEPT !.front_acked = front, !.freed = freed, !.handed_out = handed, !.acked = acked] BY <1>7
<1>10. freed = acked \div H3Chunk /\ front = acked % H3Chunk BY <1>2, <1>4, <1>5, <1>6
<1> HIDE DEF freed, handed, acked, d
<1>11. /\ d \in H3Streams
       /\ d.st = c.st /\ d.dispatched = c.dispatched /\ (d.streaming <=> c.streaming) /\ (d.ended <=> c.ended)
       /\ d.chunks = c.chunks /\ d.freed = freed /\ d.handed_out = handed /\ d.front_acked = front
       /\ d.written = c.written /\ d.acked = acked /\ d.file = c.file /\ (d.blocked <=> c.blocked)
       /\ (d.waits <=> c.waits) /\ (d.eof <=> c.eof) /\ (d.shut <=> c.shut) BY <1>8, <1>9 DEF H3Streams
<1>12. H3Handed(d) = H3Handed(c) BY <1>8, <1>11 DEF H3Handed
<1>13. H3Held(d) BY <1>8, <1>10, <1>11, <1>12 DEF H3Held
<1>14. d.freed + d.handed_out = c.freed + c.handed_out /\ d.written >= d.acked BY <1>1, <1>8, <1>11
<1> USE DEF d
<1> QED BY <1>11, <1>12, <1>13, <1>14

LEMMA H3_on_acked_stream_data ==
  ASSUME H3Inv, NEW s \in H3Ids, on_acked_stream_data(s)
  PROVE  H3Inv'
<1>1. h3State' = h3State /\ h3Window' = h3Window /\ h3Writer' = h3Writer BY DEF on_acked_stream_data
<1>2. /\ h3Stream[s] \in H3Streams /\ h3Writer[s] \in H3Writers
      /\ H3Held(h3Stream[s]) /\ H3Course(h3Stream[s]) /\ H3Begun(h3Stream[s], h3Writer[s]) BY H3At
<1>3. h3Window \in Nat /\ h3Sending \in BOOLEAN BY DEF H3Inv, H3Typed
<1>4. PICK n \in 1..(h3Stream[s].written - h3Stream[s].acked) :
        H3Touch(s, [SentChunks_ack(h3Stream[s], n) EXCEPT !.acked = @ + n]) BY DEF on_acked_stream_data
<1> DEFINE c == [SentChunks_ack(h3Stream[s], n) EXCEPT !.acked = @ + n]
<1>5. H3Touch(s, c) BY <1>4
<1>6. /\ c \in H3Streams /\ H3Held(c) /\ H3Handed(c) = H3Handed(h3Stream[s])
      /\ c.freed + c.handed_out = h3Stream[s].freed + h3Stream[s].handed_out
      /\ c.st = h3Stream[s].st /\ c.dispatched = h3Stream[s].dispatched
      /\ (c.streaming <=> h3Stream[s].streaming) /\ (c.ended <=> h3Stream[s].ended)
      /\ c.chunks = h3Stream[s].chunks 
       /\ c.written = h3Stream[s].written
       /\ c.file = h3Stream[s].file /\ (c.blocked <=> h3Stream[s].blocked)
      /\ (c.waits <=> h3Stream[s].waits) /\ (c.eof <=> h3Stream[s].eof) /\ (c.shut <=> h3Stream[s].shut)
  BY <1>2, <1>4, H3Acked
<1> HIDE DEF c
<1>7. H3Course(c) BY <1>2, <1>6 DEF H3Course
<1>8. H3Begun(c, h3Writer[s]) BY <1>2, <1>6 DEF H3Begun
<1> QED BY <1>1, <1>3, <1>5, <1>6, <1>7, <1>8, H3PutStream DEF H3Touch

\* All chunks that are there are handed out.
LEMMA H3HandOut ==
  ASSUME NEW c \in H3Streams, H3Held(c)
  PROVE  LET d == hand_out(c) IN
         /\ d \in H3Streams /\ H3Held(d) /\ H3Handed(c) <= H3Handed(d) /\ d.freed + d.handed_out = d.chunks
         /\ d.st = c.st /\ d.dispatched = c.dispatched /\ (d.streaming <=> c.streaming) /\ (d.ended <=> c.ended)
         /\ d.chunks = c.chunks /\ d.freed = c.freed /\ d.handed_out = c.chunks - c.freed
         /\ d.front_acked = c.front_acked /\ d.written = c.written /\ d.acked = c.acked /\ d.file = c.file
         /\ (d.blocked <=> c.blocked) /\ (d.waits <=> c.waits) /\ (d.eof <=> c.eof) /\ (d.shut <=> c.shut)
<1> DEFINE n == c.chunks - c.freed
           d == [c EXCEPT !.handed_out = n]
<1>1. /\ c.chunks \in Nat /\ c.freed \in Nat /\ c.handed_out \in Nat /\ c.written \in Nat /\ c.acked \in Nat
      /\ c.freed + c.handed_out <= c.chunks /\ H3Handed(c) \in Nat /\ H3Chunk \in Nat BY H3Amounts DEF H3Held
<1>2. n \in Nat /\ c.freed + n = c.chunks BY <1>1
<1>3. d = hand_out(c) /\ n = c.chunks - c.freed BY DEF hand_out
<1> HIDE DEF n
<1>4. /\ d \in H3Streams
      /\ d.st = c.st /\ d.dispatched = c.dispatched /\ (d.streaming <=> c.streaming) /\ (d.ended <=> c.ended)
      /\ d.chunks = c.chunks /\ d.freed = c.freed /\ d.handed_out = n /\ d.front_acked = c.front_acked
      /\ d.written = c.written /\ d.acked = c.acked /\ d.file = c.file /\ (d.blocked <=> c.blocked)
      /\ (d.waits <=> c.waits) /\ (d.eof <=> c.eof) /\ (d.shut <=> c.shut) BY <1>2 DEF H3Streams
<1> HIDE DEF d
<1>5. H3Handed(d) = c.chunks * H3Chunk BY <1>2, <1>4 DEF H3Handed
<1>6. H3Handed(c) <= H3Handed(d)
  <2>1. c.freed + c.handed_out \in Nat BY <1>1
  <2> QED BY <1>1, <1>5, <2>1, H3Times DEF H3Handed
<1>7. H3Held(d)
  <2>1. H3Handed(d) \in Nat BY <1>4, H3Amounts
  <2>2. d.written <= H3Handed(d) BY <1>1, <1>4, <1>6, <2>1 DEF H3Held
  <2> QED BY <1>1, <1>2, <1>4, <2>2 DEF H3Held
<1> QED BY <1>2, <1>3, <1>4, <1>6, <1>7

\* The next piece of a file becomes a chunk.
LEMMA H3Piece ==
  ASSUME NEW c \in H3Streams, H3Held(c), c.file > 0
  PROVE  LET d == [c EXCEPT !.file = @ - 1, !.chunks = @ + 1] IN
         /\ d \in H3Streams /\ H3Held(d) /\ H3Handed(d) = H3Handed(c)
         /\ d.st = c.st /\ d.dispatched = c.dispatched /\ (d.streaming <=> c.streaming) /\ (d.ended <=> c.ended)
         /\ d.chunks = c.chunks + 1 /\ d.freed = c.freed /\ d.handed_out = c.handed_out
         /\ d.front_acked = c.front_acked /\ d.written = c.written /\ d.acked = c.acked /\ d.file = c.file - 1
         /\ (d.blocked <=> c.blocked) /\ (d.waits <=> c.waits) /\ (d.eof <=> c.eof) /\ (d.shut <=> c.shut)
<1> DEFINE f == c.file - 1
           n == c.chunks + 1
           d == [c EXCEPT !.file = f, !.chunks = n]
<1>1. f \in Nat /\ n \in Nat /\ c.chunks \in Nat /\ c.freed \in Nat /\ c.handed_out \in Nat /\ c.chunks <= n
  BY H3Amounts
<1>2. d = [c EXCEPT !.file = @ - 1, !.chunks = @ + 1] /\ f = c.file - 1 /\ n = c.chunks + 1 BY DEF H3Streams
<1> HIDE DEF f, n
<1>3. /\ d \in H3Streams
      /\ d.st = c.st /\ d.dispatched = c.dispatched /\ (d.streaming <=> c.streaming) /\ (d.ended <=> c.ended)
      /\ d.chunks = n /\ d.freed = c.freed /\ d.handed_out = c.handed_out /\ d.front_acked = c.front_acked
      /\ d.written = c.written /\ d.acked = c.acked /\ d.file = f /\ (d.blocked <=> c.blocked)
      /\ (d.waits <=> c.waits) /\ (d.eof <=> c.eof) /\ (d.shut <=> c.shut) BY <1>1 DEF H3Streams
<1> HIDE DEF d
<1>4. H3Handed(d) = H3Handed(c) BY <1>3 DEF H3Handed
<1>5. H3Held(d) BY <1>1, <1>3, <1>4 DEF H3Held
<1> QED BY <1>2, <1>3, <1>4, <1>5

\* read_data() moves a response on, whatever it finds.
LEMMA H3Read ==
  ASSUME NEW c \in H3Streams, H3Held(c), H3Course(c), H3Asks(c), c.dispatched = 1
  PROVE  LET e == read_data(c) IN
         e \in H3Streams /\ H3Held(e) /\ H3Course(e) /\ e.st = c.st /\ e.dispatched = 1
<1> DEFINE piece == c.file > 0 /\ ~has_unsent(c)
           d == IF piece THEN [c EXCEPT !.file = @ - 1, !.chunks = @ + 1] ELSE c
           n == d.chunks - d.freed - d.handed_out
           more == d.file > 0 \/ (d.streaming /\ ~d.ended)
           h == hand_out(d)
<1>1. ~c.blocked /\ ~c.waits /\ ~c.eof /\ ~c.shut /\ c.written = H3Handed(c) BY DEF H3Asks, H3Course
<1>2. c.chunks \in Nat /\ c.freed \in Nat /\ c.handed_out \in Nat /\ c.file \in Nat /\ c.freed + c.handed_out <= c.chunks
  BY H3Amounts DEF H3Held
<1>3. /\ d \in H3Streams /\ H3Held(d) /\ H3Handed(d) = H3Handed(c)
      /\ d.st = c.st /\ d.dispatched = 1 /\ ~d.blocked /\ ~d.waits /\ ~d.eof /\ ~d.shut /\ d.written = c.written
      /\ (n = 0 => d.file = 0)
  <2>1. CASE piece
    <3> DEFINE t == [c EXCEPT !.file = @ - 1, !.chunks = @ + 1]
    <3>1. /\ t \in H3Streams /\ H3Held(t) /\ H3Handed(t) = H3Handed(c)
          /\ t.st = c.st /\ t.dispatched = c.dispatched /\ (t.streaming <=> c.streaming) /\ (t.ended <=> c.ended)
          /\ t.chunks = c.chunks + 1 /\ t.freed = c.freed /\ t.handed_out = c.handed_out
          /\ t.front_acked = c.front_acked /\ t.written = c.written /\ t.acked = c.acked /\ t.file = c.file - 1
          /\ (t.blocked <=> c.blocked) /\ (t.waits <=> c.waits) /\ (t.eof <=> c.eof) /\ (t.shut <=> c.shut)
      BY <2>1, H3Piece
    <3>2. d = t BY <2>1
    <3> HIDE DEF t, d, piece
    <3>3. ~(n = 0) BY <1>2, <3>1, <3>2
    <3> HIDE DEF n
    <3> QED BY <1>1, <3>1, <3>2, <3>3
  <2>2. CASE ~piece
    <3>1. d = c BY <2>2
    <3>2. n = 0 => c.file = 0 BY <1>2, <2>2, <3>1 DEF has_unsent
    <3> HIDE DEF d, n, piece
    <3> QED BY <1>1, <3>1, <3>2
  <2> QED BY <2>1, <2>2
<1>4. read_data(c) = IF ~more THEN [h EXCEPT !.eof = TRUE] ELSE IF n = 0 THEN [d EXCEPT !.waits = TRUE] ELSE h
  BY DEF read_data
<1> HIDE DEF d, piece
<1>5. /\ h \in H3Streams /\ H3Held(h) /\ H3Handed(d) <= H3Handed(h) /\ h.freed + h.handed_out = h.chunks
      /\ h.st = d.st /\ h.dispatched = d.dispatched /\ (h.streaming <=> d.streaming) /\ (h.ended <=> d.ended)
      /\ h.chunks = d.chunks /\ h.freed = d.freed /\ h.handed_out = d.chunks - d.freed
      /\ h.front_acked = d.front_acked /\ h.written = d.written /\ h.acked = d.acked /\ h.file = d.file
      /\ (h.blocked <=> d.blocked) /\ (h.waits <=> d.waits) /\ (h.eof <=> d.eof) /\ (h.shut <=> d.shut)
  BY <1>3, H3HandOut
<1> HIDE DEF h
<1>6. CASE ~more
  <2> DEFINE e == [h EXCEPT !.eof = TRUE]
  <2>1. /\ e \in H3Streams
        /\ e.st = h.st /\ e.dispatched = h.dispatched /\ (e.streaming <=> h.streaming) /\ (e.ended <=> h.ended)
        /\ e.chunks = h.chunks /\ e.freed = h.freed /\ e.handed_out = h.handed_out /\ e.front_acked = h.front_acked
        /\ e.written = h.written /\ e.acked = h.acked /\ e.file = h.file /\ (e.blocked <=> h.blocked)
        /\ (e.waits <=> h.waits) /\ e.eof /\ (e.shut <=> h.shut) BY <1>5 DEF H3Streams
  <2>2. read_data(c) = e BY <1>4, <1>6
  <2>3. d.file = 0 /\ (d.streaming => d.ended) BY <1>3, <1>6, H3Amounts
  <2> HIDE DEF e, more, n
  <2>4. H3Handed(e) = H3Handed(h) BY <2>1 DEF H3Handed
  <2>5. H3Held(e) BY <1>5, <2>1, <2>4 DEF H3Held
  <2>6. H3Course(e) BY <1>3, <1>5, <2>1, <2>3 DEF H3Course
  <2> QED BY <1>3, <1>5, <2>1, <2>2, <2>5, <2>6
<1>7. CASE more /\ n = 0
  <2> DEFINE e == [d EXCEPT !.waits = TRUE]
  <2>1. /\ e \in H3Streams
        /\ e.st = d.st /\ e.dispatched = d.dispatched /\ (e.streaming <=> d.streaming) /\ (e.ended <=> d.ended)
        /\ e.chunks = d.chunks /\ e.freed = d.freed /\ e.handed_out = d.handed_out /\ e.front_acked = d.front_acked
        /\ e.written = d.written /\ e.acked = d.acked /\ e.file = d.file /\ (e.blocked <=> d.blocked) /\ e.waits
        /\ (e.eof <=> d.eof) /\ (e.shut <=> d.shut) BY <1>3 DEF H3Streams
  <2>2. read_data(c) = e BY <1>4, <1>7
  <2>3. d.streaming /\ ~d.ended BY <1>3, <1>7
  <2>4. d.freed + d.handed_out = d.chunks BY <1>3, <1>7, H3Amounts
  <2> HIDE DEF e, more, n
  <2>5. H3Handed(e) = H3Handed(d) BY <2>1 DEF H3Handed
  <2>6. H3Held(e) BY <1>3, <2>1, <2>5 DEF H3Held
  <2>7. H3Course(e) BY <1>1, <1>3, <2>1, <2>3, <2>4, <2>5 DEF H3Course
  <2> QED BY <1>3, <2>1, <2>2, <2>6, <2>7
<1>8. CASE more /\ n # 0
  <2>1. read_data(c) = h BY <1>4, <1>8
  <2> HIDE DEF more, n
  <2>2. H3Course(h) BY <1>3, <1>5 DEF H3Course
  <2> QED BY <1>3, <1>5, <2>1, <2>2
<1> QED BY <1>6, <1>7, <1>8

LEMMA H3_H3Ask ==
  ASSUME H3Inv, NEW s \in H3Ids, H3Ask(s)
  PROVE  H3Inv'
<1>1. /\ h3Stream[s] \in H3Streams /\ h3Writer[s] \in H3Writers
      /\ H3Held(h3Stream[s]) /\ H3Course(h3Stream[s]) /\ H3Begun(h3Stream[s], h3Writer[s]) BY H3At
<1>2. H3Asks(h3Stream[s]) /\ h3Sending /\ h3Writer' = h3Writer /\ h3Window' = h3Window
      /\ h3Sending' = h3Sending /\ h3State' = h3State /\ h3Window \in Nat /\ h3Sending \in BOOLEAN
  BY DEF H3Ask, H3Inv, H3Typed
<1>3. h3Writer[s].headers_sent /\ h3Stream[s].dispatched = 1
  <2>1. h3Stream[s].streaming \/ h3Stream[s].chunks > 0 \/ h3Stream[s].file > 0 BY <1>2 DEF H3Asks
  <2> QED BY <1>1, <2>1 DEF H3Begun
<1> DEFINE c == read_data(h3Stream[s])
<1>4. c \in H3Streams /\ H3Held(c) /\ H3Course(c) /\ c.st = h3Stream[s].st /\ c.dispatched = 1
  BY <1>1, <1>2, <1>3, H3Read
<1>5. h3Stream' = [h3Stream EXCEPT ![s] = c] BY DEF H3Ask
<1> HIDE DEF c
<1>6. H3Begun(c, h3Writer[s]) BY <1>1, <1>3, <1>4 DEF H3Begun
<1> QED BY <1>2, <1>4, <1>5, <1>6, H3PutStream

\* Bytes go out as far as both windows allow, or the stream is blocked.
LEMMA H3_H3Write ==
  ASSUME H3Inv, NEW s \in H3Ids, H3Write(s)
  PROVE  H3Inv'
<1> DEFINE b == h3Stream[s]
           left == H3Handed(b) - b.written
           credit == IF b.window < h3Window THEN b.window ELSE h3Window
           n == IF left < credit THEN left ELSE credit
<1>1. b \in H3Streams /\ H3Held(b) /\ H3Course(b) /\ H3Begun(b, h3Writer[s]) BY H3At
<1>2. /\ h3Sending /\ H3Offers(b) /\ h3Writer' = h3Writer /\ h3Sending' = h3Sending /\ h3State' = h3State
      /\ h3Window \in Nat /\ h3Sending \in BOOLEAN BY DEF H3Write, H3Inv, H3Typed
<1>3. IF left > 0 /\ credit = 0
      THEN h3Stream' = [h3Stream EXCEPT ![s].blocked = TRUE] /\ UNCHANGED h3Window
      ELSE /\ h3Stream' = [h3Stream EXCEPT ![s].written = @ + n, ![s].window = @ - n, ![s].shut = b.eof /\ n = left]
           /\ h3Window' = h3Window - n BY DEF H3Write
<1>4. ~b.blocked /\ ~b.shut BY <1>2 DEF H3Offers
<1>5. h3Stream \in [H3Ids -> H3Streams] BY DEF H3Inv, H3Typed
<1>50. b = h3Stream[s] OBVIOUS
<1> HIDE DEF b
<1>6. b.written \in Nat /\ b.window \in Nat /\ H3Handed(b) \in Nat /\ b.acked \in Nat /\ b.acked <= b.written /\ b.written <= H3Handed(b)
  BY <1>1, H3Amounts DEF H3Held
<1>7. left \in Nat /\ credit \in Nat /\ credit <= b.window /\ credit <= h3Window BY <1>2, <1>6
<1>70. b.written + left = H3Handed(b) BY <1>6
<1> HIDE DEF left, credit
<1>8. n \in Nat /\ n <= left /\ n <= b.window /\ n <= h3Window BY <1>2, <1>6, <1>7
<1> HIDE DEF n
<1>9. CASE left > 0 /\ credit = 0
  <2> DEFINE c == [b EXCEPT !.blocked = TRUE]
  <2>1. h3Stream' = [h3Stream EXCEPT ![s] = c] /\ h3Window' = h3Window BY <1>3, <1>5, <1>9, <1>50
  <2>2. /\ c \in H3Streams
        /\ c.st = b.st /\ c.dispatched = b.dispatched /\ (c.streaming <=> b.streaming) /\ (c.ended <=> b.ended)
        /\ c.chunks = b.chunks /\ c.freed = b.freed /\ c.handed_out = b.handed_out /\ c.front_acked = b.front_acked
        /\ c.written = b.written /\ c.acked = b.acked /\ c.file = b.file /\ c.blocked /\ (c.waits <=> b.waits)
        /\ (c.eof <=> b.eof) /\ (c.shut <=> b.shut) BY <1>1 DEF H3Streams
  <2> HIDE DEF c
  <2>3. H3Handed(c) = H3Handed(b) BY <2>2 DEF H3Handed
  <2>4. H3Held(c) BY <1>1, <2>2, <2>3 DEF H3Held
  <2>5. b.written < H3Handed(b) BY <1>6, <1>7, <1>70, <1>9
  <2>6. H3Course(c) BY <1>1, <2>2, <2>3, <2>5 DEF H3Course
  <2>7. H3Begun(c, h3Writer[s]) BY <1>1, <2>2 DEF H3Begun
  <2> QED BY <1>2, <2>1, <2>2, <2>4, <2>6, <2>7, H3PutStream
<1>10. CASE ~(left > 0 /\ credit = 0)
  <2> DEFINE shut == b.eof /\ n = left
             written == b.written + n
             window == b.window - n
             c == [b EXCEPT !.written = written, !.window = window, !.shut = shut]
  <2>1. h3Stream' = [h3Stream EXCEPT ![s] = c] /\ h3Window' = h3Window - n BY <1>3, <1>5, <1>10, <1>50
  <2>2. shut \in BOOLEAN /\ (shut => b.eof /\ n = left) /\ written \in Nat /\ window \in Nat /\ h3Window - n \in Nat
        /\ written <= H3Handed(b) /\ b.acked <= written BY <1>2, <1>6, <1>7, <1>70, <1>8
  <2>3. (n = left => written = H3Handed(b)) /\ (b.written = H3Handed(b) => written = H3Handed(b))
    BY <1>6, <1>7, <1>70, <1>8
  <2> HIDE DEF shut, written, window
  <2>4. /\ c \in H3Streams
        /\ c.st = b.st /\ c.dispatched = b.dispatched /\ (c.streaming <=> b.streaming) /\ (c.ended <=> b.ended)
        /\ c.chunks = b.chunks /\ c.freed = b.freed /\ c.handed_out = b.handed_out /\ c.front_acked = b.front_acked
        /\ c.written = written /\ c.acked = b.acked /\ c.file = b.file /\ (c.blocked <=> b.blocked)
        /\ (c.waits <=> b.waits) /\ (c.eof <=> b.eof) /\ (c.shut <=> shut) BY <1>1, <2>2 DEF H3Streams
  <2> HIDE DEF c
  <2>5. H3Handed(c) = H3Handed(b) BY <2>4 DEF H3Handed
  <2>6. H3Held(c) BY <1>1, <2>2, <2>4, <2>5 DEF H3Held
  <2>7. H3Course(c) BY <1>1, <1>4, <2>2, <2>3, <2>4, <2>5 DEF H3Course
  <2>8. H3Begun(c, h3Writer[s]) BY <1>1, <2>4 DEF H3Begun
  <2> QED BY <1>2, <2>1, <2>2, <2>4, <2>6, <2>7, <2>8, H3PutStream
<1> QED BY <1>9, <1>10

LEMMA H3_H3StreamClose ==
  ASSUME H3Inv, NEW s \in H3Ids, H3StreamClose(s)
  PROVE  H3Inv'
<1> DEFINE c == [h3Stream[s] EXCEPT !.st = "closed"]
           w == IF h3Writer[s].exists THEN [h3Writer[s] EXCEPT !.told = @ + 1] ELSE h3Writer[s]
<1>1. h3State = "open" /\ h3Stream[s].st = "open" BY DEF H3StreamClose, H3Live
<1>2. /\ h3Stream[s] \in H3Streams /\ h3Writer[s] \in H3Writers
      /\ H3Held(h3Stream[s]) /\ H3Course(h3Stream[s]) /\ H3Begun(h3Stream[s], h3Writer[s]) BY H3At
<1>3. h3Stream' = [h3Stream EXCEPT ![s] = c] /\ h3Sending' = (h3State = "open") /\ h3Window' = h3Window /\ h3State' = h3State
  BY DEF H3StreamClose, H3Touch
<1>4. h3Window \in Nat /\ h3Writer \in [H3Ids -> H3Writers] BY DEF H3Inv, H3Typed
<1>5. h3Writer' = [h3Writer EXCEPT ![s] = w]
  <2>1. CASE h3Writer[s].exists BY <1>4, <2>1 DEF H3StreamClose
  <2>2. CASE ~h3Writer[s].exists BY <1>4, <2>2 DEF H3StreamClose
  <2> QED BY <2>1, <2>2
<1>6. h3Writer[s].told = 0 BY <1>1, <1>2 DEF H3Begun
<1>7. w \in H3Writers /\ (w.exists <=> h3Writer[s].exists) /\ (w.headers_sent <=> h3Writer[s].headers_sent)
      /\ w.told = IF h3Writer[s].exists THEN 1 ELSE 0 BY <1>2, <1>6 DEF H3Writers
<1>8. /\ c \in H3Streams
      /\ c.st = "closed" /\ c.dispatched = h3Stream[s].dispatched /\ (c.streaming <=> h3Stream[s].streaming)
      /\ (c.ended <=> h3Stream[s].ended) /\ c.chunks = h3Stream[s].chunks /\ c.freed = h3Stream[s].freed
      /\ c.handed_out = h3Stream[s].handed_out /\ c.front_acked = h3Stream[s].front_acked
      /\ c.written = h3Stream[s].written /\ c.acked = h3Stream[s].acked /\ c.file = h3Stream[s].file
      /\ (c.blocked <=> h3Stream[s].blocked) /\ (c.waits <=> h3Stream[s].waits) /\ (c.eof <=> h3Stream[s].eof)
      /\ (c.shut <=> h3Stream[s].shut) BY <1>2 DEF H3Streams
<1> HIDE DEF c, w
<1>9. H3Handed(c) = H3Handed(h3Stream[s]) BY <1>8 DEF H3Handed
<1>10. H3Held(c) BY <1>2, <1>8, <1>9 DEF H3Held
<1>11. H3Course(c) BY <1>2, <1>8, <1>9 DEF H3Course
<1>12. H3Begun(c, w) BY <1>2, <1>7, <1>8 DEF H3Begun
<1>13. H3Fine(c, w) BY <1>7, <1>8, <1>10, <1>11, <1>12 DEF H3Fine
<1> QED BY <1>1, <1>3, <1>4, <1>5, <1>13, H3Put

\* A response starts: its stream tells of it as a whole, or in pieces, or the
\* stream is over.
LEMMA H3_H3Submit ==
  ASSUME H3Inv, NEW s \in H3Ids, H3Submit(s)
  PROVE  H3Inv'
<1> DEFINE w == [h3Writer[s] EXCEPT !.headers_sent = TRUE]
<1>1. /\ h3Stream[s] \in H3Streams /\ h3Writer[s] \in H3Writers
      /\ H3Held(h3Stream[s]) /\ H3Course(h3Stream[s]) /\ H3Begun(h3Stream[s], h3Writer[s]) BY H3At
<1>2. h3Writer[s].exists /\ ~h3Writer[s].headers_sent /\ h3Window' = h3Window /\ h3State' = h3State BY DEF H3Submit
<1>3. /\ h3Writer \in [H3Ids -> H3Writers] /\ h3Stream \in [H3Ids -> H3Streams] /\ h3Window \in Nat
      /\ h3Sending \in BOOLEAN /\ H3MaxChunks \in Nat BY H3Assumption DEF H3Inv, H3Typed
<1>4. h3Writer' = [h3Writer EXCEPT ![s] = w] BY <1>3 DEF H3Submit
<1>5. w \in H3Writers /\ w.exists /\ w.headers_sent /\ w.told = h3Writer[s].told BY <1>1, <1>2 DEF H3Writers
<1>6. /\ h3Stream[s].dispatched = 1 /\ h3Stream[s].chunks = 0 /\ h3Stream[s].file = 0
      /\ ~h3Stream[s].streaming /\ ~h3Stream[s].eof /\ ~h3Stream[s].waits /\ ~h3Stream[s].shut
      /\ h3Stream[s].freed + h3Stream[s].handed_out = 0
  <2>1. h3Stream[s].dispatched = 1 /\ h3Stream[s].chunks = 0 /\ h3Stream[s].file = 0 /\ ~h3Stream[s].streaming /\ ~h3Stream[s].eof
    BY <1>1, <1>2 DEF H3Begun
  <2>2. ~h3Stream[s].waits /\ ~h3Stream[s].shut BY <1>1, <2>1 DEF H3Course
  <2>3. h3Stream[s].freed + h3Stream[s].handed_out = 0 BY <1>1, <2>1, H3Amounts DEF H3Held
  <2> QED BY <2>1, <2>2, <2>3
<1> HIDE DEF w
<1>7. CASE ~H3Live(s) /\ UNCHANGED <<h3Stream, h3Sending>>
  <2>1. \A r \in H3Ids : h3Writer'[r] = (IF r = s THEN w ELSE h3Writer[r]) /\ h3Stream'[r] = h3Stream[r]
    BY <1>3, <1>4, <1>7
  <2>2. H3Begun(h3Stream[s], w) BY <1>1, <1>2, <1>5 DEF H3Begun
  <2>3. H3Typed' BY <1>2, <1>3, <1>4, <1>5, <1>7 DEF H3Inv, H3Typed
  <2>4. ASSUME NEW r \in H3Ids PROVE H3Fine(h3Stream[r], h3Writer[r])'
    <3>1. H3Fine(h3Stream'[r], h3Writer'[r]) BY <1>1, <1>5, <2>1, <2>2 DEF H3Inv, H3Fine
    <3> QED BY <1>2, <3>1 DEF H3Fine, H3Held, H3Course, H3Begun, H3Handed
  <2>5. (h3State = "open" /\ ~h3Sending => \A r \in H3Ids : h3Stream[r].st = "open" => H3Done(h3Stream[r]))'
    BY <1>2, <1>7 DEF H3Inv, H3Done, H3Handed
  <2> QED BY <2>3, <2>4, <2>5 DEF H3Inv
<1>8. ASSUME NEW c \in H3Streams, H3Touch(s, c),
             c.st = h3Stream[s].st, c.dispatched = 1, c.written = h3Stream[s].written, c.acked = h3Stream[s].acked,
             c.freed = h3Stream[s].freed, c.handed_out = h3Stream[s].handed_out, c.front_acked = h3Stream[s].front_acked,
             c.blocked <=> h3Stream[s].blocked, ~c.waits, ~c.shut,
             c.eof => c.chunks = 0 /\ c.file = 0 /\ ~c.streaming
      PROVE  H3Inv'
  <2>1. H3Handed(c) = H3Handed(h3Stream[s]) BY <1>8 DEF H3Handed
  <2>2. H3Held(c) BY <1>1, <1>6, <1>8, <2>1, H3Amounts DEF H3Held
  <2>3. H3Course(c) BY <1>1, <1>6, <1>8, <2>1 DEF H3Course
  <2>4. H3Begun(c, w) BY <1>1, <1>2, <1>5, <1>8 DEF H3Begun
  <2>5. H3Fine(c, w) BY <1>5, <1>8, <2>2, <2>3, <2>4 DEF H3Fine
  <2> QED BY <1>2, <1>3, <1>4, <1>8, <2>5, H3Put DEF H3Touch
<1>9. CASE H3Touch(s, [h3Stream[s] EXCEPT !.eof = TRUE])
  <2> DEFINE c == [h3Stream[s] EXCEPT !.eof = TRUE]
  <2>1. /\ c \in H3Streams
        /\ c.st = h3Stream[s].st /\ c.dispatched = h3Stream[s].dispatched
        /\ (c.streaming <=> h3Stream[s].streaming) /\ (c.ended <=> h3Stream[s].ended)
        /\ c.chunks = h3Stream[s].chunks /\ c.freed = h3Stream[s].freed /\ c.handed_out = h3Stream[s].handed_out
        /\ c.front_acked = h3Stream[s].front_acked /\ c.written = h3Stream[s].written
        /\ c.acked = h3Stream[s].acked /\ c.file = h3Stream[s].file /\ (c.blocked <=> h3Stream[s].blocked)
        /\ (c.waits <=> h3Stream[s].waits) /\ c.eof /\ (c.shut <=> h3Stream[s].shut) BY <1>1, <1>3 DEF H3Streams
  <2>2. H3Touch(s, c) BY <1>9
  <2> HIDE DEF c
  <2> QED BY <1>6, <1>8, <2>1, <2>2
<1>10. CASE H3Touch(s, [h3Stream[s] EXCEPT !.chunks = 1])
  <2> DEFINE c == [h3Stream[s] EXCEPT !.chunks = 1]
  <2>1. /\ c \in H3Streams
        /\ c.st = h3Stream[s].st /\ c.dispatched = h3Stream[s].dispatched
        /\ (c.streaming <=> h3Stream[s].streaming) /\ (c.ended <=> h3Stream[s].ended) /\ c.chunks = 1
        /\ c.freed = h3Stream[s].freed /\ c.handed_out = h3Stream[s].handed_out
        /\ c.front_acked = h3Stream[s].front_acked /\ c.written = h3Stream[s].written
        /\ c.acked = h3Stream[s].acked /\ c.file = h3Stream[s].file /\ (c.blocked <=> h3Stream[s].blocked)
        /\ (c.waits <=> h3Stream[s].waits) /\ (c.eof <=> h3Stream[s].eof) /\ (c.shut <=> h3Stream[s].shut)
    BY <1>1, <1>3 DEF H3Streams
  <2>2. H3Touch(s, c) BY <1>10
  <2> HIDE DEF c
  <2> QED BY <1>6, <1>8, <2>1, <2>2
<1>11. CASE H3Touch(s, [h3Stream[s] EXCEPT !.file = H3MaxChunks])
  <2> DEFINE c == [h3Stream[s] EXCEPT !.file = H3MaxChunks]
  <2>1. /\ c \in H3Streams
        /\ c.st = h3Stream[s].st /\ c.dispatched = h3Stream[s].dispatched
        /\ (c.streaming <=> h3Stream[s].streaming) /\ (c.ended <=> h3Stream[s].ended)
        /\ c.chunks = h3Stream[s].chunks /\ c.freed = h3Stream[s].freed /\ c.handed_out = h3Stream[s].handed_out
        /\ c.front_acked = h3Stream[s].front_acked /\ c.written = h3Stream[s].written
        /\ c.acked = h3Stream[s].acked /\ c.file = H3MaxChunks /\ (c.blocked <=> h3Stream[s].blocked)
        /\ (c.waits <=> h3Stream[s].waits) /\ (c.eof <=> h3Stream[s].eof) /\ (c.shut <=> h3Stream[s].shut)
    BY <1>1, <1>3 DEF H3Streams
  <2>2. H3Touch(s, c) BY <1>11
  <2> HIDE DEF c
  <2> QED BY <1>6, <1>8, <2>1, <2>2
<1>12. CASE H3Touch(s, [h3Stream[s] EXCEPT !.streaming = TRUE])
  <2> DEFINE c == [h3Stream[s] EXCEPT !.streaming = TRUE]
  <2>1. /\ c \in H3Streams
        /\ c.st = h3Stream[s].st /\ c.dispatched = h3Stream[s].dispatched /\ c.streaming
        /\ (c.ended <=> h3Stream[s].ended) /\ c.chunks = h3Stream[s].chunks /\ c.freed = h3Stream[s].freed
        /\ c.handed_out = h3Stream[s].handed_out /\ c.front_acked = h3Stream[s].front_acked
        /\ c.written = h3Stream[s].written /\ c.acked = h3Stream[s].acked /\ c.file = h3Stream[s].file
        /\ (c.blocked <=> h3Stream[s].blocked) /\ (c.waits <=> h3Stream[s].waits) /\ (c.eof <=> h3Stream[s].eof)
        /\ (c.shut <=> h3Stream[s].shut) BY <1>1, <1>3 DEF H3Streams
  <2>2. H3Touch(s, c) BY <1>12
  <2> HIDE DEF c
  <2> QED BY <1>6, <1>8, <2>1, <2>2
<1> QED BY <1>7, <1>9, <1>10, <1>11, <1>12 DEF H3Submit

LEMMA H3_H3SubmitData ==
  ASSUME H3Inv, NEW s \in H3Ids, H3SubmitData(s)
  PROVE  H3Inv'
<1> DEFINE n == h3Stream[s].chunks + 1
           c == [h3Stream[s] EXCEPT !.chunks = n, !.waits = FALSE]
<1>1. h3Stream[s].streaming /\ ~h3Stream[s].ended BY DEF H3SubmitData, H3MayStream
<1>2. /\ h3Stream[s] \in H3Streams /\ h3Writer[s] \in H3Writers
      /\ H3Held(h3Stream[s]) /\ H3Course(h3Stream[s]) /\ H3Begun(h3Stream[s], h3Writer[s]) BY H3At
<1>3. h3Stream' = [h3Stream EXCEPT ![s] = c] /\ h3Writer' = h3Writer /\ h3State' = h3State
        /\ h3Window' \in Nat /\ h3Sending' \in BOOLEAN /\ (h3State = "open" => h3Sending')
  BY H3Assumption DEF H3Inv, H3Typed, H3SubmitData, H3Touch
<1>9. n \in Nat /\ n = h3Stream[s].chunks + 1 BY <1>2, H3Amounts
<1> HIDE DEF n
<1>4. /\ c \in H3Streams
      /\ c.st = h3Stream[s].st /\ c.dispatched = h3Stream[s].dispatched
      /\ (c.streaming <=> h3Stream[s].streaming) /\ (c.ended <=> h3Stream[s].ended) /\ c.chunks = n
      /\ c.freed = h3Stream[s].freed /\ c.handed_out = h3Stream[s].handed_out
      /\ c.front_acked = h3Stream[s].front_acked /\ c.written = h3Stream[s].written
      /\ c.acked = h3Stream[s].acked /\ c.file = h3Stream[s].file /\ (c.blocked <=> h3Stream[s].blocked)
      /\ ~c.waits /\ (c.eof <=> h3Stream[s].eof) /\ (c.shut <=> h3Stream[s].shut) BY <1>2, <1>9 DEF H3Streams
<1> HIDE DEF c
<1>5. H3Handed(c) = H3Handed(h3Stream[s]) BY <1>4 DEF H3Handed
<1>6. H3Held(c) BY <1>2, <1>4, <1>5, <1>9, H3Amounts DEF H3Held
<1>7. H3Course(c) BY <1>1, <1>2, <1>4, <1>5, H3Amounts DEF H3Course
<1>8. H3Begun(c, h3Writer[s]) BY <1>1, <1>2, <1>4 DEF H3Begun
<1> QED BY <1>3, <1>4, <1>6, <1>7, <1>8, H3PutStream

\* Steps of the connection. When send_pending_data() has come to its end, each
\* stream is either done or blocked.
LEMMA H3_H3MaxData ==
  ASSUME H3Inv, H3MaxData
  PROVE  H3Inv'
<1>1. h3Window' \in Nat BY H3Assumption DEF H3MaxData, H3Inv, H3Typed
<1>2. h3Stream' = h3Stream /\ h3Writer' = h3Writer /\ h3Sending' = TRUE /\ h3State' = h3State BY DEF H3MaxData
<1> QED BY <1>1, <1>2 DEF H3Inv, H3Typed, H3Fine, H3Held, H3Course, H3Begun, H3Handed

LEMMA H3_H3Sent ==
  ASSUME H3Inv, H3Sent
  PROVE  H3Inv'
<1>1. h3Stream' = h3Stream /\ h3Writer' = h3Writer /\ h3Window' = h3Window /\ h3Sending' = FALSE /\ h3State' = h3State
  BY DEF H3Sent
<1>2. ASSUME NEW s \in H3Ids, h3Stream[s].st = "open"
      PROVE  H3Done(h3Stream[s])
  <2> DEFINE c == h3Stream[s]
  <2>1. c \in H3Streams /\ H3Held(c) /\ H3Course(c) /\ ~H3Offers(c) /\ ~H3Asks(c) /\ c.st = "open"
    BY <1>2, H3At DEF H3Sent
  <2> HIDE DEF c
  <2>2. /\ H3Handed(c) \in Nat /\ c.written \in Nat /\ c.freed \in Nat /\ c.handed_out \in Nat /\ c.chunks \in Nat
        /\ c.file \in Nat /\ c.written <= H3Handed(c) /\ c.freed + c.handed_out <= c.chunks
    BY <2>1, H3Amounts DEF H3Held
  <2>3. CASE c.blocked BY <2>3 DEF H3Done, c
  <2>4. CASE ~c.blocked /\ c.shut BY <2>1, <2>4 DEF H3Course, H3Done, c
  <2>5. CASE ~c.blocked /\ ~c.shut
    <3>1. ~(c.written < H3Handed(c)) /\ ~c.eof BY <2>1, <2>5 DEF H3Offers
    <3>2. c.written = H3Handed(c) BY <2>2, <3>1
    <3>3. c.freed + c.handed_out = c.chunks
      <4>1. CASE c.waits BY <2>1, <4>1 DEF H3Course
      <4>2. CASE ~c.waits
        <5>1. ~(c.chunks > 0) BY <2>1, <2>5, <3>1, <3>2, <4>2 DEF H3Asks
        <5> QED BY <2>2, <5>1
      <4> QED BY <4>1, <4>2
    <3> QED BY <2>5, <3>1, <3>2, <3>3 DEF H3Done, c
  <2> QED BY <2>3, <2>4, <2>5
<1>3. H3Typed' BY <1>1 DEF H3Inv, H3Typed
<1>4. (\A s \in H3Ids : H3Fine(h3Stream[s], h3Writer[s]))'
  BY <1>1 DEF H3Inv, H3Fine, H3Held, H3Course, H3Begun, H3Handed
<1>5. (\A s \in H3Ids : h3Stream[s].st = "open" => H3Done(h3Stream[s]))' BY <1>1, <1>2 DEF H3Done, H3Handed
<1> QED BY <1>3, <1>4, <1>5 DEF H3Inv

LEMMA H3_H3Closing ==
  ASSUME H3Inv, H3Closing
  PROVE  H3Inv'
<1>1. /\ h3Stream' = h3Stream /\ h3Writer' = h3Writer /\ h3Window' = h3Window /\ h3Sending' = h3Sending
      /\ h3State = "open" /\ h3State' = "closing" BY DEF H3Closing
<1>2. H3Typed' BY <1>1 DEF H3Inv, H3Typed
<1>3. (\A s \in H3Ids : H3Fine(h3Stream[s], h3Writer[s]))'
  BY <1>1 DEF H3Inv, H3Fine, H3Held, H3Course, H3Begun, H3Handed
<1> QED BY <1>1, <1>2, <1>3 DEF H3Inv

LEMMA H3_H3Gone ==
  ASSUME H3Inv, H3Gone
  PROVE  H3Inv'
<1>1. h3Stream' = h3Stream /\ h3Window' = h3Window /\ h3Sending' = h3Sending /\ h3State = "closing" /\ h3State' = "gone"
  BY DEF H3Gone
<1>2. ASSUME NEW s \in H3Ids
      PROVE  h3Writer'[s] \in H3Writers /\ H3Fine(h3Stream[s], h3Writer[s])'
  <2> DEFINE w == h3Writer'[s]
  <2>1. /\ h3Stream[s] \in H3Streams /\ h3Writer[s] \in H3Writers
        /\ H3Held(h3Stream[s]) /\ H3Course(h3Stream[s]) /\ H3Begun(h3Stream[s], h3Writer[s]) BY H3At
  <2>2. w = IF H3Live(s) /\ h3Writer[s].exists THEN [h3Writer[s] EXCEPT !.told = @ + 1] ELSE h3Writer[s] BY DEF H3Gone
  <2>3. h3Writer[s].told = IF h3Writer[s].exists /\ h3Stream[s].st = "closed" THEN 1 ELSE 0 BY <1>1, <2>1 DEF H3Begun
  <2>4. h3Writer[s].exists => h3Stream[s].st = "open" \/ h3Stream[s].st = "closed" BY <2>1 DEF H3Begun, H3Streams
  <2>5. w \in H3Writers /\ (w.exists <=> h3Writer[s].exists) /\ (w.headers_sent <=> h3Writer[s].headers_sent)
        /\ w.told = IF w.exists THEN 1 ELSE 0 BY <2>1, <2>2, <2>3, <2>4 DEF H3Writers, H3Live
  <2>8. h3Writer'[s] = w OBVIOUS
  <2> HIDE DEF w
  <2>6. H3Begun(h3Stream[s], h3Writer[s])' BY <1>1, <2>1, <2>5, <2>8 DEF H3Begun
  <2>7. (H3Held(h3Stream[s]) /\ H3Course(h3Stream[s]))' BY <1>1, <2>1 DEF H3Held, H3Course, H3Handed
  <2> QED BY <1>1, <2>1, <2>5, <2>6, <2>7, <2>8 DEF H3Fine
<1>3. h3Writer' \in [H3Ids -> H3Writers] BY <1>2 DEF H3Gone
<1>4. H3Typed' BY <1>1, <1>3 DEF H3Inv, H3Typed
<1> QED BY <1>1, <1>2, <1>4 DEF H3Inv

LEMMA H3Step == H3Inv /\ [H3Next]_h3Vars => H3Inv'
<1> SUFFICES ASSUME H3Inv, [H3Next]_h3Vars PROVE H3Inv' OBVIOUS
<1>1. CASE UNCHANGED h3Vars BY <1>1 DEF h3Vars, H3Inv, H3Typed, H3Fine, H3Held, H3Course, H3Begun, H3Handed, H3Done
<1>2. ASSUME NEW s \in H3Ids,
             \/ on_end_headers(s) \/ on_recv_data(s) \/ on_end_stream(s)
             \/ on_acked_stream_data(s) \/ on_extend_max_stream_data(s)
      PROVE  H3Inv'
  BY <1>2, H3_on_end_headers, H3_on_recv_data, H3_on_end_stream, H3_on_acked_stream_data, H3_on_extend_max_stream_data
<1>3. ASSUME NEW s \in H3Ids,
             \/ H3Ask(s) \/ H3Write(s) \/ H3StreamClose(s)
             \/ H3Submit(s) \/ H3SubmitData(s) \/ H3EndStream(s)
      PROVE  H3Inv' BY <1>3, H3_H3Ask, H3_H3Write, H3_H3StreamClose, H3_H3Submit, H3_H3SubmitData, H3_H3EndStream
<1>4. CASE H3MaxData \/ H3Sent \/ H3Closing \/ H3Gone BY <1>4, H3_H3MaxData, H3_H3Sent, H3_H3Closing, H3_H3Gone
<1> QED BY <1>1, <1>2, <1>3, <1>4 DEF H3Next

====
