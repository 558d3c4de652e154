---- MODULE ServicesProofs ----
\* The HTTP client, the proxy and its pool of upstreams, login flows and
\* tokens, rate limiters and sessions, the router, responses and what is
\* reported of requests: what the services run checks of them on small
\* instances, proved for every value of their constants. Each part states its
\* inductive invariant, one lemma per action and the theorem.
EXTENDS Authentication, ClientState, Upstreams, Router, Messages, FiniteSetTheorems, SequenceTheorems, WellFoundedInduction, TLAPS

----
\* The HTTP client: where a transfer is says how often its callback ran and
\* where the client thread still has to come by.

ClPlaces == {"none", "incoming", "batch", "active", "done"}
ClTransfers == [at : ClPlaces, headers : Nat, body : Nat, too_large : BOOLEAN, error : BOOLEAN]

ClFine(t) ==
  /\ t.body <= ClMaxBody
  /\ t.error => t.at = "done" /\ t.body = 0 /\ t.headers = 0
  /\ t.at = "done" /\ t.too_large => t.error

\* Where transfers can be, given where the thread and ~Client are.
ClPlaced(t) ==
  /\ t.at = "batch" => clThread = "batch"
  /\ t.at = "active" => clThread # "ended"
  /\ clStopping = "gone" => t.at \in {"none", "done"}

ClInv ==
  /\ clReq \in [ClRequests -> ClTransfers] /\ clCalls \in [ClRequests -> Nat]
  /\ \A q \in ClRequests : ClFine(clReq[q]) /\ ClPlaced(clReq[q])
  /\ \A q \in ClRequests : clCalls[q] = IF clReq[q].at = "done" THEN 1 ELSE 0
  /\ clStopping = "gone" => clThread = "ended"

LEMMA ClStarted == ClInit => ClInv
<1> SUFFICES ASSUME ClInit PROVE ClInv OBVIOUS
<1>1. Transfer \in ClTransfers /\ Transfer.at = "none" /\ ClFine(Transfer)
  <2>1. Transfer \in ClTransfers /\ Transfer.at = "none" /\ Transfer.body = 0 /\ ~Transfer.error /\ ~Transfer.too_large
    BY DEF Transfer, ClTransfers, ClPlaces
  <2> QED BY <2>1, ClAssumption DEF ClFine, ClAssumption
<1>2. \A q \in ClRequests : clReq[q] = Transfer /\ clCalls[q] = 0 BY DEF ClInit
<1>3. clStopping = "no" /\ clThread = "swap" BY DEF ClInit
<1>4. \A q \in ClRequests : ClPlaced(clReq[q]) BY <1>1, <1>2, <1>3 DEF ClPlaced
<1> QED BY <1>1, <1>2, <1>3, <1>4 DEF ClInv, ClInit

LEMMA ClHolds == ClInv => ClientAnswersOnce
<1> SUFFICES ASSUME ClInv PROVE ClientAnswersOnce OBVIOUS
<1>1. ASSUME NEW q \in ClRequests
      PROVE  /\ clCalls[q] = IF clReq[q].at = "done" THEN 1 ELSE 0
             /\ clReq[q].body <= ClMaxBody
             /\ clReq[q].error => clReq[q].body = 0 /\ clReq[q].headers = 0
             /\ clReq[q].at = "done" /\ clReq[q].too_large => clReq[q].error BY <1>1 DEF ClInv, ClFine
<1>2. ASSUME clStopping = "gone" PROVE ClAt("none") \cup ClAt("done") = ClRequests BY <1>2 DEF ClInv, ClPlaced, ClAt
<1> QED BY <1>1, <1>2 DEF ClientAnswersOnce

\* Transfers that are not done end: each callback runs for the first time.
LEMMA ClFinishes ==
  ASSUME ClInv, NEW qs \in SUBSET ClRequests, NEW broken \in BOOLEAN, finish(qs, broken),
         \A q \in qs : clReq[q].at # "done" /\ (~broken => ~clReq[q].too_large)
  PROVE  /\ clReq' \in [ClRequests -> ClTransfers] /\ clCalls' \in [ClRequests -> Nat]
         /\ \A q \in ClRequests : /\ ClFine(clReq'[q])
                                  /\ clReq'[q].at = IF q \in qs THEN "done" ELSE clReq[q].at
                                  /\ clCalls'[q] = IF clReq'[q].at = "done" THEN 1 ELSE 0
<1> DEFINE bad == [Transfer EXCEPT !.at = "done", !.error = TRUE]
<1>1. bad \in ClTransfers /\ bad.at = "done" /\ bad.body = 0 /\ bad.headers = 0 /\ bad.error
  BY DEF Transfer, ClTransfers, ClPlaces
<1>b. ClFine(bad) BY <1>1, ClAssumption DEF ClFine, ClAssumption
<1> DEFINE good(q) == [clReq[q] EXCEPT !.at = "done"]
<1>2. ASSUME NEW q \in qs, ~broken
      PROVE  good(q) \in ClTransfers /\ good(q).at = "done" /\ ClFine(good(q))
  <2>1. clReq[q] \in ClTransfers /\ ClFine(clReq[q]) /\ clReq[q].at # "done" /\ ~clReq[q].too_large BY <1>2 DEF ClInv
  <2>2. /\ good(q) \in ClTransfers /\ good(q).at = "done" /\ good(q).body = clReq[q].body
        /\ good(q).error = clReq[q].error /\ ~good(q).too_large BY <2>1 DEF ClTransfers, ClPlaces
  <2> HIDE DEF good
  <2> QED BY <2>1, <2>2 DEF ClFine
<1>3. \A q \in ClRequests : clReq'[q] = IF q \notin qs THEN clReq[q] ELSE IF broken THEN bad ELSE good(q)
  BY DEF finish
<1>4. clCalls' = [q \in ClRequests |-> clCalls[q] + IF q \in qs THEN 1 ELSE 0] BY DEF finish
<1>5. clReq' = [q \in ClRequests |-> IF q \notin qs THEN clReq[q] ELSE IF broken THEN bad ELSE good(q)] BY DEF finish
<1> HIDE DEF bad, good
<1>6. ASSUME NEW q \in ClRequests
      PROVE  clReq'[q] \in ClTransfers /\ ClFine(clReq'[q]) /\ clReq'[q].at = IF q \in qs THEN "done" ELSE clReq[q].at
  BY <1>1, <1>b, <1>2, <1>3 DEF ClInv
<1>7. ASSUME NEW q \in ClRequests
      PROVE  clCalls'[q] \in Nat /\ clCalls'[q] = IF q \in qs THEN 1 ELSE clCalls[q] BY <1>4 DEF ClInv
<1> QED BY <1>4, <1>5, <1>6, <1>7 DEF ClInv

\* Steps after which every transfer is where it was, or at places of the thread.
LEMMA ClMoves ==
  ASSUME ClInv, clReq' \in [ClRequests -> ClTransfers], clCalls' \in [ClRequests -> Nat],
         \A q \in ClRequests : /\ ClFine(clReq'[q]) /\ ClPlaced(clReq[q])'
                               /\ clCalls'[q] = IF clReq'[q].at = "done" THEN 1 ELSE 0,
         clStopping' = "gone" => clThread' = "ended"
  PROVE  ClInv' BY DEF ClInv

LEMMA ClSends == ASSUME ClInv, NEW q \in ClRequests, send(q) PROVE ClInv'
<1>0. clReq[q].at = "none" /\ clStopping # "gone" /\ UNCHANGED <<clThread, clStopping>> BY DEF send
<1>1. CASE finish({q}, TRUE)
  <2>1. ClInv /\ {q} \in SUBSET ClRequests /\ TRUE \in BOOLEAN OBVIOUS
  <2>2. /\ clReq' \in [ClRequests -> ClTransfers] /\ clCalls' \in [ClRequests -> Nat]
        /\ \A p \in ClRequests : /\ ClFine(clReq'[p])
                                 /\ clReq'[p].at = IF p \in {q} THEN "done" ELSE clReq[p].at
                                 /\ clCalls'[p] = IF clReq'[p].at = "done" THEN 1 ELSE 0
    BY <1>0, <1>1, <2>1, ClFinishes
  <2>3. \A p \in ClRequests : ClPlaced(clReq[p])' BY <1>0, <2>2 DEF ClInv, ClPlaced
  <2> QED BY <1>0, <2>2, <2>3, ClMoves DEF ClInv
<1>2. CASE clReq' = [clReq EXCEPT ![q].at = "incoming"] /\ UNCHANGED clCalls
  <2> DEFINE t == [clReq[q] EXCEPT !.at = "incoming"]
  <2>1. clReq[q] \in ClTransfers /\ ClFine(clReq[q]) /\ clReq' = [clReq EXCEPT ![q] = t] BY <1>2 DEF ClInv
  <2>2. t \in ClTransfers /\ t.at = "incoming" /\ t.body = clReq[q].body /\ t.error = clReq[q].error
    BY <2>1 DEF ClTransfers, ClPlaces
  <2> HIDE DEF t
  <2>3. ClFine(t) BY <1>0, <2>1, <2>2 DEF ClFine
  <2>4. \A p \in ClRequests : ClPlaced(clReq[p])' BY <1>0, <2>1, <2>2 DEF ClInv, ClPlaced
  <2> QED BY <1>0, <1>2, <2>1, <2>2, <2>3, <2>4, ClMoves DEF ClInv
<1> QED BY <1>1, <1>2 DEF send

\* What the thread takes in, and what it starts.
LEMMA ClTakesIn == ASSUME ClInv, ClSwap PROVE ClInv'
<1> DEFINE t(q) == [clReq[q] EXCEPT !.at = "batch"]
<1>0. /\ clReq' = [q \in ClRequests |-> IF clReq[q].at = "incoming" THEN t(q) ELSE clReq[q]]
      /\ clThread = "swap" /\ clThread' = "batch" /\ UNCHANGED <<clStopping, clCalls>> BY DEF ClSwap
<1>1. ASSUME NEW q \in ClRequests, clReq[q].at = "incoming"
      PROVE  t(q) \in ClTransfers /\ t(q).at = "batch" /\ ClFine(t(q))
  <2>1. clReq[q] \in ClTransfers /\ ClFine(clReq[q]) BY DEF ClInv
  <2>2. t(q) \in ClTransfers /\ t(q).at = "batch" /\ t(q).body = clReq[q].body /\ t(q).error = clReq[q].error
    BY <2>1 DEF ClTransfers, ClPlaces
  <2> HIDE DEF t
  <2> QED BY <1>1, <2>1, <2>2 DEF ClFine
<1> HIDE DEF t
<1>2. \A q \in ClRequests : clReq'[q] \in ClTransfers /\ ClFine(clReq'[q]) /\ clReq'[q].at = IF clReq[q].at = "incoming" THEN "batch" ELSE clReq[q].at
  BY <1>0, <1>1 DEF ClInv
<1>3. clStopping # "gone" BY <1>0 DEF ClInv
<1>4. \A q \in ClRequests : ClPlaced(clReq[q])' BY <1>0, <1>2, <1>3 DEF ClInv, ClPlaced
<1> QED BY <1>0, <1>2, <1>3, <1>4, ClMoves DEF ClInv

LEMMA ClStarts == ASSUME ClInv, start PROVE ClInv'
<1> DEFINE bad == [Transfer EXCEPT !.at = "done", !.error = TRUE]
           t(q) == [clReq[q] EXCEPT !.at = "active"]
<1>0. /\ clThread = "batch" /\ clThread' = "perform" /\ UNCHANGED clStopping /\ clStopping = "no" BY DEF start
<1>1. PICK refused \in SUBSET ClAt("batch") :
        /\ clReq' = [q \in ClRequests |-> IF q \in refused THEN bad ELSE IF clReq[q].at = "batch" THEN t(q) ELSE clReq[q]]
        /\ clCalls' = [q \in ClRequests |-> clCalls[q] + IF q \in refused THEN 1 ELSE 0] BY DEF start
<1>2. bad \in ClTransfers /\ bad.at = "done" /\ bad.body = 0 /\ bad.headers = 0 /\ bad.error
  BY DEF Transfer, ClTransfers, ClPlaces
<1>3. ClFine(bad) BY <1>2, ClAssumption DEF ClFine, ClAssumption
<1>4. ASSUME NEW q \in ClRequests, clReq[q].at = "batch"
      PROVE  t(q) \in ClTransfers /\ t(q).at = "active" /\ ClFine(t(q))
  <2>1. clReq[q] \in ClTransfers /\ ClFine(clReq[q]) BY DEF ClInv
  <2>2. t(q) \in ClTransfers /\ t(q).at = "active" /\ t(q).body = clReq[q].body /\ t(q).error = clReq[q].error
    BY <2>1 DEF ClTransfers, ClPlaces
  <2> HIDE DEF t
  <2> QED BY <1>4, <2>1, <2>2 DEF ClFine
<1> HIDE DEF bad, t
<1>5. \A q \in refused : clReq[q].at = "batch" BY DEF ClAt
<1>6. ASSUME NEW q \in ClRequests
      PROVE  /\ clReq'[q] \in ClTransfers /\ ClFine(clReq'[q])
             /\ clReq'[q].at = IF q \in refused THEN "done" ELSE IF clReq[q].at = "batch" THEN "active" ELSE clReq[q].at
  BY <1>1, <1>2, <1>3, <1>4 DEF ClInv
<1>7. ASSUME NEW q \in ClRequests PROVE clCalls'[q] \in Nat /\ clCalls'[q] = IF q \in refused THEN 1 ELSE clCalls[q]
  BY <1>1, <1>5 DEF ClInv
<1>8. \A q \in ClRequests : clCalls'[q] = IF clReq'[q].at = "done" THEN 1 ELSE 0 BY <1>5, <1>6, <1>7 DEF ClInv
<1>9. \A q \in ClRequests : ClPlaced(clReq[q])' BY <1>0, <1>6 DEF ClInv, ClPlaced
<1> QED BY <1>0, <1>1, <1>6, <1>7, <1>8, <1>9, ClMoves

LEMMA ClPerforms == ASSUME ClInv, ClPerform PROVE ClInv'
<1>0. clThread = "perform" /\ UNCHANGED <<clThread, clStopping, clCalls>> BY DEF ClPerform
<1>1. \E q \in ClRequests, t \in ClTransfers :
        /\ clReq' = [clReq EXCEPT ![q] = t] /\ clReq[q].at = "active" /\ t.at = "active" /\ ClFine(t)
  <2>1. PICK q \in ClRequests : on_header(q) \/ on_body(q) BY DEF ClPerform
  <2>2. clReq[q] \in ClTransfers /\ ClFine(clReq[q]) /\ clReq[q].at = "active" BY <2>1 DEF ClInv, on_header, on_body
  <2>3. CASE on_header(q)
    <3>1. PICK n \in {0, clReq[q].headers + 1} : clReq' = [clReq EXCEPT ![q].headers = n] BY <2>3 DEF on_header
    <3> DEFINE t == [clReq[q] EXCEPT !.headers = n]
    <3>0. n \in Nat BY <2>2 DEF ClTransfers
    <3>2. t \in ClTransfers /\ t.at = "active" /\ t.body = clReq[q].body /\ t.error = clReq[q].error
      BY <2>2, <3>0 DEF ClTransfers
    <3>3. clReq' = [clReq EXCEPT ![q] = t] BY <3>1 DEF ClInv
    <3> HIDE DEF t
    <3>4. ClFine(t) BY <2>2, <3>2 DEF ClFine
    <3> QED BY <2>2, <3>2, <3>3, <3>4
  <2>4. CASE on_body(q)
    <3> DEFINE big == [clReq[q] EXCEPT !.too_large = TRUE]
               more == [clReq[q] EXCEPT !.body = @ + 1]
    <3>1. \/ clReq[q].body + 1 > ClMaxBody /\ clReq' = [clReq EXCEPT ![q] = big]
          \/ ~(clReq[q].body + 1 > ClMaxBody) /\ clReq' = [clReq EXCEPT ![q] = more] BY <2>4, Zenon DEF on_body
    <3>2. big \in ClTransfers /\ big.at = "active" /\ big.body = clReq[q].body /\ big.error = clReq[q].error
      BY <2>2 DEF ClTransfers
    <3>0. clReq[q].body + 1 \in Nat BY <2>2 DEF ClTransfers
    <3>3. more \in ClTransfers /\ more.at = "active" /\ more.body = clReq[q].body + 1 /\ more.error = clReq[q].error
      BY <2>2, <3>0 DEF ClTransfers
    <3> HIDE DEF big, more
    <3>4. ClFine(big) BY <2>2, <3>2 DEF ClFine
    <3>5. clReq[q].body + 1 <= ClMaxBody => ClFine(more) BY <2>2, <3>3 DEF ClFine
    <3>6. clReq[q].body + 1 > ClMaxBody \/ clReq[q].body + 1 <= ClMaxBody BY <3>0, ClAssumption DEF ClAssumption
    <3> QED BY <2>2, <3>1, <3>2, <3>3, <3>4, <3>5, <3>6
  <2> QED BY <2>1, <2>3, <2>4
<1>2. PICK q \in ClRequests, t \in ClTransfers :
        /\ clReq' = [clReq EXCEPT ![q] = t] /\ clReq[q].at = "active" /\ t.at = "active" /\ ClFine(t) BY <1>1
<1>3. \A p \in ClRequests : ClFine(clReq'[p]) /\ ClPlaced(clReq[p])' /\ clReq'[p].at = clReq[p].at
  BY <1>0, <1>2 DEF ClInv, ClPlaced
<1> QED BY <1>0, <1>2, <1>3, ClMoves DEF ClInv

\* A transfer ends while the thread is about: libcurl says so, or the client stops.
LEMMA ClEnds ==
  ASSUME ClInv, NEW qs \in SUBSET ClRequests, NEW broken \in BOOLEAN, finish(qs, broken),
         \A q \in qs : clReq[q].at # "done" /\ (~broken => ~clReq[q].too_large),
         clThread' = clThread \/ (clThread = "batch" /\ clThread' = "abandon" /\ ClAt("batch") \subseteq qs),
         \/ clStopping' = clStopping
         \/ clStopping' = "gone" /\ clThread = "ended" /\ clThread' = "ended" /\ ClAt("incoming") \subseteq qs
  PROVE  ClInv'
<1>1. /\ clReq' \in [ClRequests -> ClTransfers] /\ clCalls' \in [ClRequests -> Nat]
      /\ \A q \in ClRequests : /\ ClFine(clReq'[q])
                               /\ clReq'[q].at = IF q \in qs THEN "done" ELSE clReq[q].at
                               /\ clCalls'[q] = IF clReq'[q].at = "done" THEN 1 ELSE 0 BY ClFinishes
<1>2. ASSUME NEW q \in ClRequests PROVE ClPlaced(clReq[q])'
  <2>1. ClPlaced(clReq[q]) /\ clReq[q].at \in ClPlaces BY DEF ClInv, ClTransfers
  <2>2. clReq'[q].at = IF q \in qs THEN "done" ELSE clReq[q].at BY <1>1
  <2>3. CASE q \in qs BY <2>2, <2>3 DEF ClPlaced
  <2>4. CASE q \notin qs BY <2>1, <2>2, <2>4 DEF ClPlaced, ClPlaces, ClAt
  <2> QED BY <2>3, <2>4
<1>3. clStopping' = "gone" => clThread' = "ended" BY DEF ClInv
<1> QED BY <1>1, <1>2, <1>3, ClMoves

LEMMA ClStep == ClInv /\ [ClNext]_clVars => ClInv'
<1> SUFFICES ASSUME ClInv, [ClNext]_clVars PROVE ClInv' OBVIOUS
<1>1. CASE UNCHANGED clVars BY <1>1 DEF clVars, ClInv, ClPlaced
<1>2. CASE \E q \in ClRequests : ClSend(q) \/ send_sync(q) BY <1>2, ClSends DEF ClSend, send_sync
<1>3. CASE \E q \in ClRequests : ClSyncReturns(q) BY <1>3 DEF ClSyncReturns, ClInv, ClPlaced
<1>4. CASE ClSwap BY <1>4, ClTakesIn
<1>5. CASE ClStopSeen
  <2>1. ClAt("batch") \in SUBSET ClRequests /\ \A q \in ClAt("batch") : clReq[q].at # "done" BY DEF ClAt
  <2>2. finish(ClAt("batch"), TRUE) /\ clThread = "batch" /\ clThread' = "abandon" /\ clStopping' = clStopping
    BY <1>5 DEF ClStopSeen
  <2> DEFINE qs == ClAt("batch")
  <2> HIDE DEF qs
  <2>3. qs = ClAt("batch") BY DEF qs
  <2> QED BY <2>1, <2>2, <2>3, ClEnds
<1>6. CASE start BY <1>6, ClStarts
<1>7. CASE ClPerform BY <1>7, ClPerforms
<1>8. CASE complete
  <2>1. PICK q \in ClAt("active"), broken \in BOOLEAN : finish({q}, broken \/ clReq[q].too_large) BY <1>8 DEF complete
  <2>2. q \in ClRequests /\ clReq[q].at = "active" /\ clReq[q].too_large \in BOOLEAN BY DEF ClAt, ClInv, ClTransfers
  <2>3. clThread' = clThread /\ clStopping' = clStopping BY <1>8 DEF complete
  <2> DEFINE bad == broken \/ clReq[q].too_large
  <2>4. bad \in BOOLEAN /\ (~bad => ~clReq[q].too_large) /\ finish({q}, bad) BY <2>1, <2>2
  <2> HIDE DEF bad
  <2> QED BY <2>2, <2>3, <2>4, ClEnds
<1>9. CASE ClPoll BY <1>9 DEF ClPoll, ClInv, ClPlaced
<1>10. CASE ClAbandon
  <2>1. CASE ClAt("active") = {} BY <1>10, <2>1 DEF ClAbandon, ClInv, ClPlaced, ClAt
  <2>2. CASE ClAt("active") # {}
    <3>1. PICK q \in ClAt("active") : finish({q}, TRUE) BY <1>10, <2>2 DEF ClAbandon
    <3>2. q \in ClRequests /\ clReq[q].at = "active" /\ clThread' = clThread /\ clStopping' = clStopping
      BY <1>10, <2>2 DEF ClAt, ClAbandon
    <3> DEFINE qs == {q}
    <3>3. qs \in SUBSET ClRequests /\ (\A p \in qs : clReq[p].at # "done") /\ finish(qs, TRUE) BY <3>1, <3>2
    <3> HIDE DEF qs
    <3> QED BY <3>2, <3>3, ClEnds
  <2> QED BY <2>1, <2>2
<1>11. CASE ClDestroy BY <1>11 DEF ClDestroy, ClInv, ClPlaced
<1>12. CASE ClDestroyed
  <2> DEFINE qs == ClAt("incoming")
  <2>1. qs \in SUBSET ClRequests /\ \A q \in qs : clReq[q].at # "done" BY DEF ClAt
  <2>2. finish(qs, TRUE) /\ clThread' = clThread /\ clThread = "ended" /\ clStopping' = "gone"
    BY <1>12 DEF ClDestroyed
  <2>3. ClAt("incoming") \subseteq qs OBVIOUS
  <2> HIDE DEF qs
  <2> QED BY <2>1, <2>2, <2>3, ClEnds
<1> QED BY <1>1, <1>2, <1>3, <1>4, <1>5, <1>6, <1>7, <1>8, <1>9, <1>10, <1>11, <1>12 DEF ClNext

----
\* The reverse proxy: a descriptor is of the pool or of one request (next to
\* requests that only have to make the proactor forget it), and how far a
\* request is says what its client got.

PxSteps == {"none", "start", "connect", "handshake", "send", "write", "read", "tunnel", "release", "forget", "drop", "gone"}
PxConnectedAt == {"connect", "handshake", "send", "write", "read", "tunnel", "release", "forget"}
PxUnconnectedAt == {"none", "start", "gone"}
PxBefore == {"none", "start", "connect", "handshake", "send", "write"}
PxWaitsAt == {"connect", "write", "read"}
PxModes == {"none", "websocket", "length", "chunked", "close"}
PxPlaces == PxFds \cup {PxNobody}
PxReqs == [at : PxSteps, fd : PxPlaces, is_reused : BOOLEAN, headers_sent : BOOLEAN, keep_alive : BOOLEAN, mode : PxModes,
           finished : BOOLEAN, heads : Nat, ends : Nat, relayed : SUBSET PxRequests,
           interim : BOOLEAN, reads_on : BOOLEAN, deaf : BOOLEAN]
PxPieces == [of : PxRequests, is : STRING]
PxSides == {"none", "open", "closed"}
PxSockets == [open : BOOLEAN, peer : PxSides, coming : Seq(PxPieces), inbox : Seq(PxPieces)]
PxWaiters == PxRequests \cup {PxNobody}

PxTyped == /\ pxReq \in [PxRequests -> PxReqs] /\ pxPool \in Seq(PxFds) /\ pxFd \in [PxFds -> PxSockets]
           /\ pxWait \in [PxFds -> PxWaiters]

\* A request's connection, which it may use.
PxUses(r) == r.fd # PxNobody /\ r.at # "forget"

PxShape(r) == /\ r.at \in PxConnectedAt => r.fd # PxNobody
              /\ r.at \in PxUnconnectedAt => r.fd = PxNobody
              /\ r.at = "tunnel" => r.mode = "websocket"

\* What the client got, when r is at such a place.
PxCounts(r, heads, ends) == r.heads = heads /\ r.ends = ends
PxSilent(r) == PxCounts(r, 0, 0) /\ ~r.headers_sent /\ r.mode = "none"
PxBegun(r) == PxCounts(r, 1, 0) /\ r.headers_sent
PxPast(r) == r.reads_on /\ r.headers_sent /\ r.heads = 1 /\ r.ends \in Nat \ {0}
PxOpen(r) == PxSilent(r) \/ PxBegun(r) \/ PxPast(r)
PxDone(r) == PxCounts(r, 1, 1) \/ PxPast(r)
PxOver(r) == PxDone(r) \/ (PxCounts(r, 1, 0) /\ r.mode = "websocket")
PxTold(r) == /\ r.at \in PxBefore => PxSilent(r)
             /\ r.at = "read" => PxOpen(r)
             /\ r.at = "tunnel" => PxBegun(r) \/ PxPast(r)
             /\ r.at \in {"release", "forget"} => PxDone(r)
             /\ r.at \in {"drop", "gone"} => PxOver(r)
PxHears(p, r, wait) == ~r.deaf /\ r.at \in PxWaitsAt => wait[r.fd] = p

PxOwned ==
  /\ \A i, j \in DOMAIN pxPool : pxPool[i] = pxPool[j] => i = j
  /\ \A i \in DOMAIN pxPool : pxFd[pxPool[i]].open
  /\ \A p \in PxRequests : PxUses(pxReq[p]) =>
       pxFd[pxReq[p].fd].open /\ \A i \in DOMAIN pxPool : pxPool[i] # pxReq[p].fd
  /\ \A p, q \in PxRequests : PxUses(pxReq[p]) /\ PxUses(pxReq[q]) /\ pxReq[p].fd = pxReq[q].fd => p = q

PxInv ==
  /\ PxTyped /\ PxOwned
  /\ \A p \in PxRequests : PxShape(pxReq[p]) /\ PxTold(pxReq[p]) /\ PxHears(p, pxReq[p], pxWait)

LEMMA PxStarted == PxInit => PxInv
<1> SUFFICES ASSUME PxInit PROVE PxInv OBVIOUS
<1> DEFINE r == NoProxyRequest
<1>1. r.at = "none" /\ r.fd = PxNobody /\ PxCounts(r, 0, 0) /\ ~r.headers_sent /\ r.mode = "none"
  BY DEF NoProxyRequest, PxCounts
<1>2. r \in PxReqs BY DEF NoProxyRequest, PxReqs, PxSteps, PxModes, PxPlaces
<1>3. NoSocket \in PxSockets BY DEF NoSocket, PxSockets, PxSides
<1>4. PxTyped BY <1>2, <1>3 DEF PxInit, PxTyped, PxWaiters
<1>5. \A p \in PxRequests : pxReq[p] = r /\ ~PxUses(pxReq[p]) BY <1>1 DEF PxInit, PxUses
<1>6. PxShape(r) /\ PxTold(r) /\ \A p \in PxRequests : PxHears(p, r, pxWait)
  <2>1. PxShape(r) BY <1>1 DEF PxShape, PxConnectedAt
  <2>2. PxTold(r) /\ r.at \notin PxWaitsAt BY <1>1 DEF PxTold, PxBefore, PxSilent, PxWaitsAt
  <2> QED BY <2>1, <2>2 DEF PxHears
<1>7. PxOwned BY <1>5 DEF PxInit, PxOwned
<1> QED BY <1>4, <1>5, <1>6, <1>7 DEF PxInv

LEMMA PxIsExclusive == PxInv => UpstreamExclusive
<1> SUFFICES ASSUME PxInv PROVE UpstreamExclusive OBVIOUS
<1>1. pxPool \in Seq(PxFds) /\ ToSet(pxPool) = {pxPool[i] : i \in DOMAIN pxPool} BY DEF PxInv, PxTyped, ToSet
<1>2. Cardinality(ToSet(pxPool)) = Len(pxPool)
  <2> DEFINE k == Len(pxPool)
             T == ToSet(pxPool)
             f == [i \in 1..k |-> pxPool[i]]
  <2>1. k \in Nat /\ DOMAIN pxPool = 1..k BY <1>1
  <2>2. f \in [1..k -> T] /\ \A i \in 1..k : f[i] = pxPool[i] BY <1>1, <2>1
  <2> HIDE DEF f
  <2>3. (\A x \in T : \E i \in 1..k : f[i] = x) /\ \A i, j \in 1..k : f[i] = f[j] => i = j
    BY <1>1, <2>1, <2>2 DEF PxInv, PxOwned
  <2> HIDE DEF k, T
  <2>4. f \in Injection(1..k, T) /\ f \in Surjection(1..k, T) BY <2>2, <2>3 DEF Injection, IsInjective, Surjection
  <2>5. ExistsBijection(1..k, T) BY <2>4, Zenon DEF ExistsBijection, Bijection
  <2>6. Cardinality(T) = k BY <2>1, <2>5, FS_CountingElements
  <2> QED BY <2>6 DEF k, T
<1>3. \A f \in ToSet(pxPool) : pxFd[f].open BY <1>1 DEF PxInv, PxOwned
<1>4. ASSUME NEW p \in PxRequests, pxReq[p].fd # PxNobody, pxReq[p].at # "forget"
      PROVE  /\ pxFd[pxReq[p].fd].open /\ pxReq[p].fd \notin ToSet(pxPool)
             /\ \A q \in PxRequests \ {p} : pxReq[q].fd = pxReq[p].fd => pxReq[q].at = "forget"
  BY <1>1, <1>4 DEF PxInv, PxOwned, PxUses
<1> QED BY <1>2, <1>3, <1>4 DEF UpstreamExclusive

LEMMA PxAnswersSo ==
  ASSUME PxInv, NEW p \in PxRequests
  PROVE  /\ pxReq[p].heads <= 1 /\ (pxReq[p].ends <= 1 \/ pxReq[p].reads_on)
         /\ pxReq[p].at \in {"connect", "write", "read"} => Ready(p) \/ pxReq[p].deaf
         /\ pxReq[p].at \in {"start", "send", "write"} => pxReq[p].heads = 0
         /\ pxReq[p].at = "gone" => pxReq[p].heads = 1 /\ (pxReq[p].ends >= 1 \/ pxReq[p].mode = "websocket")
<1> DEFINE r == pxReq[p]
<1>1. r \in PxReqs /\ PxShape(r) /\ PxTold(r) /\ PxHears(p, r, pxWait) BY DEF PxInv, PxTyped
<1>2. r.at \in {"connect", "write", "read"} => Ready(p) \/ r.deaf
  BY <1>1 DEF PxHears, PxWaitsAt, PxShape, PxConnectedAt, Ready
<1>3. PxOpen(r) \/ PxOver(r) BY <1>1 DEF PxTold, PxReqs, PxSteps, PxBefore, PxOpen, PxOver
<1>4. r.heads <= 1 /\ (r.ends <= 1 \/ r.reads_on)
  BY <1>3 DEF PxOpen, PxOver, PxDone, PxPast, PxSilent, PxBegun, PxCounts
<1>5. r.at \in {"start", "send", "write"} => r.heads = 0
  <2>1. r.at \in {"start", "send", "write"} => PxSilent(r) BY <1>1 DEF PxTold, PxBefore
  <2> QED BY <2>1 DEF PxSilent, PxCounts
<1>6. r.at = "gone" => r.heads = 1 /\ (r.ends >= 1 \/ r.mode = "websocket")
  BY <1>1 DEF PxTold, PxOver, PxDone, PxPast, PxCounts
<1> QED BY <1>2, <1>4, <1>5, <1>6

\* A step of one request on its own connection, and of nobody else's.
LEMMA PxLocal ==
  ASSUME PxInv, NEW p \in PxRequests, NEW r \in PxReqs, pxReq' = [pxReq EXCEPT ![p] = r], pxPool' = pxPool,
         pxFd' \in [PxFds -> PxSockets], pxWait' \in [PxFds -> PxWaiters],
         \A f \in PxFds : pxFd'[f].open = pxFd[f].open \/ (f = pxReq[p].fd /\ PxUses(pxReq[p]) /\ ~PxUses(r)),
         \A f \in PxFds : pxWait'[f] = pxWait[f] \/ (f = pxReq[p].fd /\ PxUses(pxReq[p])),
         PxUses(r) => r.fd = pxReq[p].fd /\ PxUses(pxReq[p]),
         PxShape(r), PxTold(r), PxHears(p, r, pxWait')
  PROVE  PxInv'
<1>0. PxTyped /\ PxOwned BY DEF PxInv
<1>1. PxTyped' BY <1>0 DEF PxTyped
<1>2. \A q \in PxRequests : pxReq'[q] = IF q = p THEN r ELSE pxReq[q] BY <1>0 DEF PxTyped
<1>3. \A q \in PxRequests : PxUses(pxReq'[q]) => PxUses(pxReq[q]) /\ pxReq'[q].fd = pxReq[q].fd /\ pxReq[q].fd \in PxFds
  BY <1>0, <1>2 DEF PxTyped, PxReqs, PxPlaces, PxUses
<1>4. \A i \in DOMAIN pxPool : pxPool[i] \in PxFds BY <1>0 DEF PxTyped
<1>5. \A i \in DOMAIN pxPool : pxFd'[pxPool[i]].open BY <1>0, <1>4 DEF PxOwned
<1>6. ASSUME NEW q \in PxRequests, PxUses(pxReq'[q])
      PROVE  pxFd'[pxReq'[q].fd].open /\ \A i \in DOMAIN pxPool : pxPool[i] # pxReq'[q].fd
  <2>1. PxUses(pxReq[q]) /\ pxReq'[q].fd = pxReq[q].fd /\ pxReq[q].fd \in PxFds BY <1>3, <1>6
  <2>2. pxFd[pxReq[q].fd].open /\ \A i \in DOMAIN pxPool : pxPool[i] # pxReq[q].fd BY <1>0, <2>1 DEF PxOwned
  <2>3. ~(pxReq[q].fd = pxReq[p].fd /\ PxUses(pxReq[p]) /\ ~PxUses(r)) BY <1>0, <1>2, <1>6, <2>1 DEF PxOwned
  <2> QED BY <2>1, <2>2, <2>3
<1>7. \A q, s \in PxRequests : PxUses(pxReq'[q]) /\ PxUses(pxReq'[s]) /\ pxReq'[q].fd = pxReq'[s].fd => q = s
  BY <1>0, <1>3 DEF PxOwned
<1>8. PxOwned' BY <1>0, <1>5, <1>6, <1>7 DEF PxOwned
<1>9. ASSUME NEW q \in PxRequests PROVE PxHears(q, pxReq'[q], pxWait')
  <2>1. CASE q = p BY <1>2, <2>1
  <2>2. CASE q # p /\ ~pxReq[q].deaf /\ pxReq[q].at \in PxWaitsAt
    <3>1. pxReq[q].at \in PxConnectedAt /\ pxReq[q].at # "forget" /\ PxShape(pxReq[q]) /\ pxReq[q].fd \in PxPlaces
      BY <1>0, <2>2 DEF PxInv, PxWaitsAt, PxConnectedAt, PxTyped, PxReqs
    <3>2. PxUses(pxReq[q]) /\ pxReq[q].fd \in PxFds BY <3>1 DEF PxShape, PxUses, PxPlaces
    <3>3. pxWait'[pxReq[q].fd] = pxWait[pxReq[q].fd] BY <1>0, <2>2, <3>2 DEF PxOwned
    <3> QED BY <1>2, <2>2, <3>3 DEF PxInv, PxHears
  <2> QED BY <1>2, <2>1, <2>2 DEF PxHears
<1> QED BY <1>1, <1>2, <1>8, <1>9 DEF PxInv

\* The descriptors go on, and nothing else changes.
LEMMA PxTraffic ==
  ASSUME PxInv, UNCHANGED <<pxReq, pxPool, pxWait>>, pxFd' \in [PxFds -> PxSockets],
         \A f \in PxFds : pxFd'[f].open = pxFd[f].open
  PROVE  PxInv'
<1>0. PxTyped /\ PxOwned BY DEF PxInv
<1>1. \A i \in DOMAIN pxPool : pxPool[i] \in PxFds BY <1>0 DEF PxTyped
<1>2. \A p \in PxRequests : PxUses(pxReq[p]) => pxReq[p].fd \in PxFds BY <1>0 DEF PxTyped, PxReqs, PxPlaces, PxUses
<1>3. PxOwned' BY <1>0, <1>1, <1>2 DEF PxOwned
<1> QED BY <1>0, <1>3 DEF PxInv, PxTyped

\* What a piece of a response does to its request.

\* s is r later, with no more relayed than a piece of x's response.
PxKeeps(r, s, x) ==
  /\ s \in PxReqs /\ s.fd = r.fd /\ s.deaf = r.deaf /\ s.relayed \subseteq r.relayed \cup {x}
  /\ (r.interim => s.interim) /\ (r.reads_on => s.reads_on) /\ (s.reads_on => r.reads_on \/ pxTls)

\* A response that is over is told so wherever the request is now.
LEMMA PxDoneTold ==
  ASSUME NEW s, s.at \in {"release", "forget", "drop", "gone"}
  PROVE  (PxDone(s) => PxTold(s)) /\ (s.at \in {"drop", "gone"} /\ PxOver(s) => PxTold(s))
BY DEF PxTold, PxOver, PxBefore

LEMMA PxFailed ==
  ASSUME NEW r \in PxReqs, NEW x \in PxRequests
  PROVE  /\ PxKeeps(r, failed(r), x) /\ failed(r).at = "drop" /\ failed(r).mode = r.mode
         /\ failed(r).relayed = r.relayed /\ failed(r).headers_sent
         /\ failed(r).interim = r.interim /\ failed(r).reads_on = r.reads_on
         /\ PxOpen(r) => PxDone(failed(r)) /\ failed(r).heads = 1 /\ failed(r).ends \in Nat \ {0}
<1> DEFINE s == IF r.headers_sent THEN [r EXCEPT !.ends = @ + 1]
                ELSE [r EXCEPT !.headers_sent = TRUE, !.heads = @ + 1, !.ends = @ + 1]
<1>0. r.heads + 1 \in Nat /\ r.ends + 1 \in Nat BY DEF PxReqs
<1>1. /\ s \in PxReqs /\ s.fd = r.fd /\ s.deaf = r.deaf /\ s.relayed = r.relayed /\ s.mode = r.mode
      /\ s.interim = r.interim /\ s.reads_on = r.reads_on /\ s.headers_sent
      /\ r.headers_sent => s.heads = r.heads /\ s.ends = r.ends + 1
      /\ ~r.headers_sent => s.heads = r.heads + 1 /\ s.ends = r.ends + 1
  <2>1. CASE r.headers_sent BY <1>0, <2>1 DEF PxReqs
  <2>2. CASE ~r.headers_sent BY <1>0, <2>2 DEF PxReqs
  <2> QED BY <2>1, <2>2
<1>2. failed(r) = [s EXCEPT !.at = "drop"] BY DEF failed
<1> HIDE DEF s
<1>3. /\ failed(r) \in PxReqs /\ failed(r).fd = s.fd /\ failed(r).deaf = s.deaf /\ failed(r).relayed = s.relayed
      /\ failed(r).interim = s.interim /\ failed(r).reads_on = s.reads_on /\ failed(r).headers_sent = s.headers_sent
      /\ failed(r).mode = s.mode /\ failed(r).at = "drop" /\ failed(r).heads = s.heads /\ failed(r).ends = s.ends
  BY <1>1, <1>2 DEF PxReqs, PxSteps
<1>4. PxOpen(r) => PxDone(failed(r)) BY <1>1, <1>3 DEF PxOpen, PxDone, PxPast, PxSilent, PxBegun, PxCounts
<1>5. PxOpen(r) => failed(r).heads = 1 /\ failed(r).ends \in Nat \ {0}
  BY <1>1, <1>3 DEF PxOpen, PxPast, PxSilent, PxBegun, PxCounts
<1> QED BY <1>1, <1>3, <1>4, <1>5 DEF PxKeeps

LEMMA PxFailedOpen ==
  ASSUME NEW r \in PxReqs, NEW x \in PxRequests, pxTls
  PROVE  /\ PxKeeps(r, failed_open(r), x) /\ failed_open(r).at = "read" /\ (PxOpen(r) => PxPast(failed_open(r)))
<1> DEFINE mode == IF r.headers_sent THEN r.mode ELSE "close"
<1>1. mode \in PxModes BY DEF PxReqs, PxModes
<1>2. failed_open(r) = [failed(r) EXCEPT !.at = "read", !.reads_on = TRUE, !.mode = mode] BY DEF failed_open
<1> HIDE DEF mode
<1>3. /\ PxKeeps(r, failed(r), x) /\ failed(r).headers_sent
      /\ PxOpen(r) => failed(r).heads = 1 /\ failed(r).ends \in Nat \ {0} BY PxFailed
<1> QED BY <1>1, <1>2, <1>3 DEF PxKeeps, PxReqs, PxSteps, PxPast

LEMMA PxRelayed ==
  ASSUME NEW r \in PxReqs, NEW piece \in PxPieces
  PROVE  /\ PxKeeps(r, relay(r, piece), piece.of) /\ relay(r, piece).at = r.at /\ relay(r, piece).mode = r.mode
         /\ relay(r, piece).headers_sent = r.headers_sent /\ relay(r, piece).heads = r.heads /\ relay(r, piece).ends = r.ends
         /\ (PxOpen(r) => PxOpen(relay(r, piece))) /\ (PxBegun(r) => PxBegun(relay(r, piece)))
         /\ (PxPast(r) => PxPast(relay(r, piece)))
         /\ piece.is = "informational" => relay(r, piece).interim
<1>1. r.relayed \cup {piece.of} \in SUBSET PxRequests BY DEF PxReqs, PxPieces
<1> DEFINE b == r.interim \/ piece.is = "informational"
<1>2. relay(r, piece) = [r EXCEPT !.relayed = r.relayed \cup {piece.of}, !.interim = b] BY DEF relay
<1>3. b \in BOOLEAN /\ (r.interim => b) /\ (piece.is = "informational" => b) OBVIOUS
<1> HIDE DEF b
<1>4. /\ PxKeeps(r, relay(r, piece), piece.of) /\ relay(r, piece).at = r.at /\ relay(r, piece).mode = r.mode
      /\ relay(r, piece).headers_sent = r.headers_sent /\ relay(r, piece).heads = r.heads /\ relay(r, piece).ends = r.ends
      /\ relay(r, piece).reads_on = r.reads_on /\ (piece.is = "informational" => relay(r, piece).interim)
  BY <1>1, <1>2, <1>3 DEF PxReqs, PxKeeps
<1> QED BY <1>4 DEF PxOpen, PxSilent, PxBegun, PxPast, PxCounts

LEMMA PxCompleted ==
  ASSUME NEW r \in PxReqs, NEW x \in PxRequests
  PROVE  /\ PxKeeps(r, completed(r), x) /\ completed(r).at \in {"release", "drop"}
         /\ completed(r).interim = r.interim /\ (PxBegun(r) \/ PxPast(r) => PxDone(completed(r)))
<1> DEFINE at == IF r.keep_alive THEN "release" ELSE "drop"
<1>0. r.ends + 1 \in Nat BY DEF PxReqs
<1>1. at \in PxSteps /\ at \in {"release", "drop"} BY DEF PxSteps
<1>2. completed(r) = [r EXCEPT !.finished = TRUE, !.ends = @ + 1, !.at = at] BY DEF completed
<1> HIDE DEF at
<1>3. /\ PxKeeps(r, completed(r), x) /\ completed(r).at \in {"release", "drop"} /\ completed(r).interim = r.interim
      /\ completed(r).heads = r.heads /\ completed(r).ends = r.ends + 1
      /\ completed(r).reads_on = r.reads_on /\ completed(r).headers_sent = r.headers_sent
  BY <1>0, <1>1, <1>2 DEF PxReqs, PxKeeps
<1> QED BY <1>0, <1>3 DEF PxBegun, PxPast, PxDone, PxCounts

LEMMA PxHeaders ==
  ASSUME NEW r \in PxReqs, NEW piece \in PxPieces, NEW mode \in PxModes, NEW keep \in BOOLEAN
  PROVE  LET s == sent_headers(r, piece, mode, keep)
         IN  /\ PxKeeps(r, s, piece.of) /\ s.at = r.at /\ (PxSilent(r) => PxBegun(s))
             /\ piece.is = "informational" => s.interim
<1> DEFINE t == [r EXCEPT !.headers_sent = TRUE, !.heads = @ + 1, !.mode = mode, !.keep_alive = keep]
<1>0. r.heads + 1 \in Nat BY DEF PxReqs
<1>1. /\ t \in PxReqs /\ t.fd = r.fd /\ t.deaf = r.deaf /\ t.relayed = r.relayed /\ t.at = r.at /\ t.headers_sent
      /\ t.heads = r.heads + 1 /\ t.ends = r.ends /\ t.interim = r.interim /\ t.reads_on = r.reads_on
  BY <1>0 DEF PxReqs
<1>2. sent_headers(r, piece, mode, keep) = relay(t, piece) BY DEF sent_headers
<1> HIDE DEF t
<1>3. /\ PxKeeps(t, relay(t, piece), piece.of) /\ relay(t, piece).at = t.at
      /\ (PxBegun(t) => PxBegun(relay(t, piece))) /\ (piece.is = "informational" => relay(t, piece).interim)
  BY <1>1, PxRelayed
<1>4. PxSilent(r) => PxBegun(t) BY <1>1 DEF PxSilent, PxBegun, PxCounts
<1> QED BY <1>1, <1>2, <1>3, <1>4 DEF PxKeeps

\* What a request that read a piece may look like: it keeps the connection in
\* good shape only when the piece was the last of its response.
PxGoesOn(r, s, piece) ==
  /\ PxKeeps(r, s, piece.of) /\ s.at \in {"read", "drop", "release"}
  /\ PxOpen(r) => PxTold(s)
  /\ s.at = "release" => piece.is \in PxEnders \/ s.interim

LEMMA PxCompletes ==
  ASSUME NEW r \in PxReqs, NEW piece \in PxPieces, NEW s \in PxReqs, PxKeeps(r, s, piece.of),
         PxOpen(r) => PxBegun(s) \/ PxPast(s), piece.is \in PxEnders \/ s.interim
  PROVE  PxGoesOn(r, completed(s), piece)
<1> DEFINE x == piece.of
<1>1. x \in PxRequests BY DEF PxPieces
<1> HIDE DEF x
<1>2. /\ PxKeeps(s, completed(s), x) /\ completed(s).at \in {"release", "drop"}
      /\ completed(s).interim = s.interim /\ (PxBegun(s) \/ PxPast(s) => PxDone(completed(s))) BY <1>1, PxCompleted
<1>3. PxOpen(r) => PxTold(completed(s)) BY <1>2, PxDoneTold
<1>4. PxKeeps(r, completed(s), x) BY <1>2 DEF PxKeeps, x
<1> QED BY <1>2, <1>3, <1>4 DEF PxGoesOn, x

LEMMA PxFailsOn ==
  ASSUME NEW r \in PxReqs, NEW piece \in PxPieces
  PROVE  PxGoesOn(r, failed(r), piece)
<1>1. piece.of \in PxRequests BY DEF PxPieces
<1>2. PxKeeps(r, failed(r), piece.of) /\ failed(r).at = "drop" /\ (PxOpen(r) => PxDone(failed(r))) BY <1>1, PxFailed
<1> QED BY <1>2, PxDoneTold DEF PxGoesOn

LEMMA PxReadsOn ==
  ASSUME NEW r \in PxReqs, NEW piece \in PxPieces, NEW s \in PxReqs, PxKeeps(r, s, piece.of), s.at = "read",
         PxOpen(r) => PxOpen(s)
  PROVE  PxGoesOn(r, s, piece) BY DEF PxGoesOn, PxTold, PxBefore

LEMMA PxConsumes ==
  ASSUME NEW r \in PxReqs, NEW piece \in PxPieces, r.at = "read", r.headers_sent
  PROVE  PxGoesOn(r, consume_body(r, piece), piece)
<1> DEFINE x == piece.of
           u == relay(r, piece)
<1>0. x \in PxRequests /\ (PxOpen(r) => PxBegun(r) \/ PxPast(r)) BY DEF PxPieces, PxOpen, PxSilent
<1>r. /\ PxKeeps(r, u, x) /\ u \in PxReqs /\ u.at = r.at
      /\ (PxOpen(r) => PxOpen(u)) /\ (PxOpen(r) => PxBegun(u) \/ PxPast(u)) BY <1>0, PxRelayed DEF PxKeeps
<1>1. CASE consume_body(r, piece) = [failed([r EXCEPT !.keep_alive = FALSE]) EXCEPT !.finished = TRUE]
  <2> DEFINE t == [r EXCEPT !.keep_alive = FALSE]
             s == [failed(t) EXCEPT !.finished = TRUE]
  <2>1. /\ t \in PxReqs /\ t.fd = r.fd /\ t.deaf = r.deaf /\ t.relayed = r.relayed /\ t.headers_sent = r.headers_sent
        /\ t.heads = r.heads /\ t.ends = r.ends /\ t.mode = r.mode /\ t.interim = r.interim /\ t.reads_on = r.reads_on
    BY DEF PxReqs
  <2> HIDE DEF t
  <2>2. PxKeeps(t, failed(t), x) /\ failed(t).at = "drop" /\ (PxOpen(t) => PxDone(failed(t))) BY <1>0, <2>1, PxFailed
  <2>3. /\ s \in PxReqs /\ s.fd = failed(t).fd /\ s.deaf = failed(t).deaf /\ s.relayed = failed(t).relayed
        /\ s.at = "drop" /\ s.heads = failed(t).heads /\ s.ends = failed(t).ends /\ s.interim = failed(t).interim
        /\ s.reads_on = failed(t).reads_on /\ s.headers_sent = failed(t).headers_sent BY <2>2 DEF PxKeeps, PxReqs
  <2> HIDE DEF s
  <2>4. PxOpen(r) => PxOpen(t) BY <2>1 DEF PxOpen, PxSilent, PxBegun, PxPast, PxCounts
  <2>5. PxDone(failed(t)) => PxDone(s) BY <2>3 DEF PxDone, PxPast, PxCounts
  <2>6. PxOpen(r) => PxTold(s) BY <2>2, <2>3, <2>4, <2>5, PxDoneTold
  <2>7. PxKeeps(r, s, x) BY <2>1, <2>2, <2>3 DEF PxKeeps
  <2>8. PxGoesOn(r, s, piece) BY <2>3, <2>6, <2>7 DEF PxGoesOn
  <2> QED BY <1>1, <2>8 DEF s, t
<1> HIDE DEF u
<1>2. CASE piece.is = "last" /\ consume_body(r, piece) = completed(u) BY <1>0, <1>r, <1>2, PxCompletes DEF PxEnders
<1>3. CASE consume_body(r, piece) = u BY <1>0, <1>r, <1>3, PxReadsOn
<1> QED BY <1>1, <1>2, <1>3, Zenon DEF consume_body, u

LEMMA PxParses ==
  ASSUME NEW r \in PxReqs, NEW piece \in PxPieces, NEW keep \in BOOLEAN, r.at = "read", ~r.headers_sent
  PROVE  PxGoesOn(r, parse_and_send_headers(r, piece, keep), piece)
<1> DEFINE x == piece.of
           h(mode, k) == sent_headers(r, piece, mode, k)
<1>0. x \in PxRequests /\ (PxOpen(r) => PxSilent(r)) /\ PxKeeps(r, r, x)
  BY DEF PxPieces, PxOpen, PxBegun, PxPast, PxKeeps
<1>h. ASSUME NEW mode \in PxModes, NEW k \in BOOLEAN
      PROVE  /\ h(mode, k) \in PxReqs /\ PxKeeps(r, h(mode, k), x) /\ h(mode, k).at = "read"
             /\ PxOpen(r) => PxBegun(h(mode, k))
             /\ piece.is = "informational" => h(mode, k).interim
  <2>1. /\ PxKeeps(r, h(mode, k), x) /\ h(mode, k).at = r.at /\ (PxSilent(r) => PxBegun(h(mode, k)))
        /\ piece.is = "informational" => h(mode, k).interim BY PxHeaders
  <2> HIDE DEF h
  <2> QED BY <1>0, <2>1 DEF PxKeeps
<1>g. ASSUME NEW mode \in PxModes, NEW k \in BOOLEAN
      PROVE  /\ PxGoesOn(r, h(mode, k), piece)
             /\ piece.is \in {"empty", "informational"} => PxGoesOn(r, completed(h(mode, k)), piece)
  <2>1. /\ h(mode, k) \in PxReqs /\ PxKeeps(r, h(mode, k), x) /\ h(mode, k).at = "read"
        /\ PxOpen(r) => PxBegun(h(mode, k))
        /\ piece.is = "informational" => h(mode, k).interim BY <1>h
  <2>2. PxBegun(h(mode, k)) => PxOpen(h(mode, k)) BY DEF PxOpen
  <2> HIDE DEF h
  <2>3. PxGoesOn(r, h(mode, k), piece) BY <2>1, <2>2, PxReadsOn
  <2>4. ASSUME piece.is \in {"empty", "informational"} PROVE PxGoesOn(r, completed(h(mode, k)), piece)
    <3>1. piece.is \in PxEnders \/ h(mode, k).interim BY <2>1, <2>4 DEF PxEnders
    <3> QED BY <2>1, <3>1, PxCompletes
  <2> QED BY <2>3, <2>4
<1>o. pxTls => PxGoesOn(r, failed_open(r), piece)
  <2> SUFFICES ASSUME pxTls PROVE PxGoesOn(r, failed_open(r), piece) OBVIOUS
  <2>1. /\ PxKeeps(r, failed_open(r), x) /\ failed_open(r).at = "read" /\ (PxOpen(r) => PxOpen(failed_open(r)))
    BY <1>0, PxFailedOpen DEF PxOpen
  <2> QED BY <2>1, PxReadsOn DEF PxKeeps
<1>1. CASE parse_and_send_headers(r, piece, keep) = r BY <1>0, <1>1, PxReadsOn
<1>2. CASE parse_and_send_headers(r, piece, keep) = IF pxTls THEN failed_open(r) ELSE failed(r)
  BY <1>0, <1>o, <1>2, PxFailsOn
<1>3. CASE parse_and_send_headers(r, piece, keep) = h("websocket", FALSE) BY <1>g, <1>3 DEF PxModes
<1>4. CASE piece.is \in {"empty", "informational"} /\ parse_and_send_headers(r, piece, keep) = completed(h("none", keep))
  BY <1>g, <1>4 DEF PxModes
<1>5. CASE piece.is \in {"length", "chunked"} /\ parse_and_send_headers(r, piece, keep) = h(piece.is, keep)
  BY <1>g, <1>5 DEF PxModes
<1>6. CASE parse_and_send_headers(r, piece, keep) = h("close", FALSE) BY <1>g, <1>6 DEF PxModes
<1> QED BY <1>1, <1>2, <1>3, <1>4, <1>5, <1>6, Zenon DEF parse_and_send_headers

LEMMA PxProcesses ==
  ASSUME NEW r \in PxReqs, NEW piece \in PxPieces, NEW keep \in BOOLEAN, r.at = "read"
  PROVE  PxGoesOn(r, process_cleartext(r, piece, keep), piece)
<1>1. CASE r.mode = "websocket"
  <2>1. /\ PxKeeps(r, relay(r, piece), piece.of) /\ relay(r, piece).at = "read" /\ relay(r, piece) \in PxReqs
        /\ PxOpen(r) => PxOpen(relay(r, piece)) BY PxRelayed DEF PxKeeps
  <2> QED BY <1>1, <2>1, PxReadsOn DEF process_cleartext
<1>2. CASE r.mode # "websocket" /\ ~r.headers_sent BY <1>2, PxParses DEF process_cleartext
<1>3. CASE r.mode # "websocket" /\ r.headers_sent BY <1>3, PxConsumes DEF process_cleartext
<1> QED BY <1>1, <1>2, <1>3 DEF PxReqs

\* The steps of one request on its own connection.

LEMMA PxMyself ==
  ASSUME PxInv, NEW p \in PxRequests
  PROVE  /\ pxReq[p] \in PxReqs /\ PxShape(pxReq[p]) /\ PxTold(pxReq[p]) /\ PxHears(p, pxReq[p], pxWait)
         /\ pxReq \in [PxRequests -> PxReqs] /\ pxFd \in [PxFds -> PxSockets] /\ pxWait \in [PxFds -> PxWaiters]
         /\ pxPool \in Seq(PxFds)
         /\ pxReq[p].fd \in PxPlaces /\ (pxReq[p].fd # PxNobody => pxReq[p].fd \in PxFds)
         /\ pxReq[p].at \in PxConnectedAt \ {"forget"} => PxUses(pxReq[p]) /\ pxReq[p].fd \in PxFds
<1>1. /\ pxReq[p] \in PxReqs /\ PxShape(pxReq[p]) /\ PxTold(pxReq[p]) /\ PxHears(p, pxReq[p], pxWait)
      /\ pxReq \in [PxRequests -> PxReqs] /\ pxFd \in [PxFds -> PxSockets] /\ pxWait \in [PxFds -> PxWaiters]
      /\ pxPool \in Seq(PxFds) BY DEF PxInv, PxTyped
<1>2. pxReq[p].fd \in PxPlaces BY <1>1 DEF PxReqs
<1>3. pxReq[p].fd # PxNobody => pxReq[p].fd \in PxFds BY <1>2 DEF PxPlaces
<1>4. pxReq[p].at \in PxConnectedAt \ {"forget"} => PxUses(pxReq[p]) BY <1>1 DEF PxShape, PxUses
<1> QED BY <1>1, <1>2, <1>3, <1>4 DEF PxUses

LEMMA PxUnwaits ==
  ASSUME PxInv, NEW p \in PxRequests, Unwait(p)
  PROVE  /\ pxWait' \in [PxFds -> PxWaiters]
         /\ \A f \in PxFds : pxWait'[f] = pxWait[f] \/ (f = pxReq[p].fd /\ pxWait'[f] = PxNobody)
BY PxMyself DEF Unwait, PxWaiters

\* p moves on, and at most stops waiting.
LEMMA PxMoves ==
  ASSUME PxInv, NEW p \in PxRequests, NEW r \in PxReqs, pxReq' = [pxReq EXCEPT ![p] = r], pxPool' = pxPool, pxFd' = pxFd,
         pxWait' = pxWait \/ (PxUses(pxReq[p]) /\ Unwait(p)),
         r.fd = pxReq[p].fd, PxUses(r) => PxUses(pxReq[p]),
         PxShape(r), PxTold(r), PxHears(p, r, pxWait')
  PROVE  PxInv'
<1>1. pxFd' \in [PxFds -> PxSockets] /\ pxWait \in [PxFds -> PxWaiters] BY PxMyself
<1>2. /\ pxWait' \in [PxFds -> PxWaiters]
      /\ \A f \in PxFds : pxWait'[f] = pxWait[f] \/ (f = pxReq[p].fd /\ PxUses(pxReq[p])) BY <1>1, PxUnwaits
<1> QED BY <1>1, <1>2, PxLocal

LEMMA PxFails ==
  ASSUME PxInv, NEW p \in PxRequests, pxReq[p].at \in {"start", "connect", "handshake", "write", "read"},
         pxReq' = [pxReq EXCEPT ![p] = failed(@)], pxPool' = pxPool, pxFd' = pxFd,
         pxWait' = pxWait \/ (PxUses(pxReq[p]) /\ Unwait(p))
  PROVE  PxInv'
<1> DEFINE r == pxReq[p]
           s == failed(r)
<1>1. r \in PxReqs /\ PxTold(r) /\ pxReq' = [pxReq EXCEPT ![p] = s] /\ PxShape(r) BY PxMyself
<1>2. /\ s \in PxReqs /\ s.fd = r.fd /\ s.deaf = r.deaf /\ s.at = "drop" /\ s.relayed = r.relayed
      /\ PxOpen(r) => PxDone(s)
  <2>1. PxKeeps(r, s, p) BY <1>1, PxFailed
  <2> QED BY <1>1, <2>1, PxFailed DEF PxKeeps
<1>3. PxOpen(r) BY <1>1 DEF PxTold, PxBefore, PxOpen
<1> HIDE DEF s
<1>5. PxTold(s) BY <1>2, <1>3, PxDoneTold
<1>6. PxShape(s) /\ PxHears(p, s, pxWait') BY <1>2 DEF PxShape, PxConnectedAt, PxUnconnectedAt, PxHears, PxWaitsAt
<1>7. PxUses(s) => PxUses(r) BY <1>2 DEF PxUses
<1> QED BY <1>1, <1>2, <1>5, <1>6, <1>7, PxMoves

\* A silent request moves to another place before the answer.
LEMMA PxSilentOn ==
  ASSUME NEW p \in PxRequests, NEW r \in PxReqs, NEW at \in PxBefore \cup {"read"}, r.at \in PxBefore, PxTold(r)
  PROVE  LET s == [r EXCEPT !.at = at]
         IN  s \in PxReqs /\ s.fd = r.fd /\ s.deaf = r.deaf /\ s.at = at /\ s.mode = r.mode /\ PxTold(s)
<1> DEFINE s == [r EXCEPT !.at = at]
<1>1. /\ s \in PxReqs /\ s.fd = r.fd /\ s.deaf = r.deaf /\ s.at = at /\ s.mode = r.mode /\ s.heads = r.heads /\ s.ends = r.ends
      /\ s.headers_sent = r.headers_sent /\ s.relayed = r.relayed BY DEF PxReqs, PxSteps, PxBefore
<1> HIDE DEF s
<1>2. PxTold(r) => PxSilent(s) BY <1>1 DEF PxTold, PxSilent, PxCounts
<1>3. PxSilent(s) => PxTold(s) BY <1>1 DEF PxTold, PxBefore, PxOpen
<1>4. PxTold(s) BY <1>1, <1>2, <1>3
<1> QED BY <1>1, <1>4 DEF s

LEMMA PxBeginKeeps == ASSUME PxInv, NEW p \in PxRequests, PxBegin(p) PROVE PxInv'
<1> DEFINE r == pxReq[p]
           s == [r EXCEPT !.at = "start"]
<1>1. /\ r.at = "none" /\ pxReq' = [pxReq EXCEPT ![p] = s] /\ UNCHANGED <<pxPool, pxFd, pxWait>> BY DEF PxBegin, PxAt
<1>2. r \in PxReqs /\ PxTold(r) /\ PxShape(r) BY PxMyself
<1>3. s \in PxReqs /\ s.fd = r.fd /\ s.at = "start" /\ PxTold(s)
  <2>1. "start" \in PxBefore \cup {"read"} /\ r.at \in PxBefore BY <1>1 DEF PxBefore
  <2> QED BY <1>2, <2>1, PxSilentOn
<1> HIDE DEF s
<1>4. r.fd = PxNobody BY <1>1, <1>2 DEF PxShape, PxUnconnectedAt
<1>5. PxShape(s) /\ PxHears(p, s, pxWait') /\ ~PxUses(s)
  BY <1>3, <1>4 DEF PxShape, PxConnectedAt, PxHears, PxWaitsAt, PxUses
<1> QED BY <1>1, <1>3, <1>5, PxMoves

LEMMA PxConnectedKeeps == ASSUME PxInv, NEW p \in PxRequests, PxConnected(p) PROVE PxInv'
<1> DEFINE r == pxReq[p]
           at == IF pxTls THEN "handshake" ELSE "send"
           s == [r EXCEPT !.at = at]
<1>1. /\ r.at = "connect" /\ UNCHANGED <<pxPool, pxFd>> /\ Unwait(p)
      /\ pxReq' = [pxReq EXCEPT ![p] = failed(@)] \/ pxReq' = [pxReq EXCEPT ![p] = s] BY DEF PxConnected, PxAt
<1>2. r \in PxReqs /\ PxTold(r) /\ PxShape(r) /\ PxUses(r) BY <1>1, PxMyself DEF PxConnectedAt
<1>3. CASE pxReq' = [pxReq EXCEPT ![p] = failed(@)] BY <1>1, <1>2, <1>3, PxFails
<1>4. CASE pxReq' = [pxReq EXCEPT ![p] = s]
  <2>1. s \in PxReqs /\ s.fd = r.fd /\ s.at = at /\ s.mode = r.mode /\ PxTold(s)
    <3>1. at \in PxBefore \cup {"read"} /\ r.at \in PxBefore BY <1>1 DEF PxBefore
    <3> HIDE DEF at
    <3> QED BY <1>2, <3>1, PxSilentOn
  <2>2. at \in {"handshake", "send"} OBVIOUS
  <2> HIDE DEF s, at
  <2>3. PxShape(s) /\ PxHears(p, s, pxWait')
    BY <1>2, <2>1, <2>2 DEF PxShape, PxUses, PxUnconnectedAt, PxHears, PxWaitsAt
  <2> QED BY <1>1, <1>2, <1>4, <2>1, <2>3, PxMoves
<1> QED BY <1>1, <1>3, <1>4

LEMMA PxHandshakeKeeps == ASSUME PxInv, NEW p \in PxRequests, do_handshake(p) PROVE PxInv'
<1> DEFINE r == pxReq[p]
           s == [r EXCEPT !.at = "send"]
<1>1. /\ r.at = "handshake" /\ UNCHANGED <<pxPool, pxFd, pxWait>>
      /\ pxReq' = [pxReq EXCEPT ![p] = failed(@)] \/ pxReq' = [pxReq EXCEPT ![p] = s] BY DEF do_handshake, PxAt
<1>2. r \in PxReqs /\ PxTold(r) /\ PxShape(r) /\ PxUses(r) BY <1>1, PxMyself DEF PxConnectedAt
<1>3. CASE pxReq' = [pxReq EXCEPT ![p] = failed(@)] BY <1>1, <1>2, <1>3, PxFails
<1>4. CASE pxReq' = [pxReq EXCEPT ![p] = s]
  <2>1. s \in PxReqs /\ s.fd = r.fd /\ s.at = "send" /\ PxTold(s)
    <3>1. "send" \in PxBefore \cup {"read"} /\ r.at \in PxBefore BY <1>1 DEF PxBefore
    <3> QED BY <1>2, <3>1, PxSilentOn
  <2> HIDE DEF s
  <2>3. PxShape(s) /\ PxHears(p, s, pxWait') BY <1>2, <2>1 DEF PxShape, PxUses, PxUnconnectedAt, PxHears, PxWaitsAt
  <2> QED BY <1>1, <1>2, <1>4, <2>1, <2>3, PxMoves
<1> QED BY <1>1, <1>3, <1>4

LEMMA PxSendKeeps == ASSUME PxInv, NEW p \in PxRequests, send_request(p) PROVE PxInv'
<1> DEFINE r == pxReq[p]
           s == [r EXCEPT !.at = "write"]
<1>1. /\ r.at = "send" /\ UNCHANGED <<pxPool, pxFd>> /\ pxReq' = [pxReq EXCEPT ![p] = s]
      /\ pxWait' = [pxWait EXCEPT ![r.fd] = p] BY DEF send_request, PxAt
<1>2. r \in PxReqs /\ PxTold(r) /\ PxShape(r) /\ PxUses(r) /\ r.fd \in PxFds BY <1>1, PxMyself DEF PxConnectedAt
<1>3. pxFd' \in [PxFds -> PxSockets] /\ pxWait \in [PxFds -> PxWaiters] BY <1>1, PxMyself
<1>4. /\ pxWait' \in [PxFds -> PxWaiters] /\ pxWait'[r.fd] = p
      /\ \A f \in PxFds : pxWait'[f] = pxWait[f] \/ f = r.fd BY <1>1, <1>2, <1>3 DEF PxWaiters
<1>5. s \in PxReqs /\ s.fd = r.fd /\ s.at = "write" /\ PxTold(s)
  <2>1. "write" \in PxBefore \cup {"read"} /\ r.at \in PxBefore BY <1>1 DEF PxBefore
  <2> QED BY <1>2, <2>1, PxSilentOn
<1> HIDE DEF s
<1>6. PxShape(s) /\ PxHears(p, s, pxWait') /\ PxUses(s)
  BY <1>2, <1>4, <1>5 DEF PxShape, PxUses, PxUnconnectedAt, PxHears, PxWaitsAt
<1> QED BY <1>1, <1>2, <1>3, <1>4, <1>5, <1>6, PxLocal

\* p gives its connection up and closes it.
LEMMA PxCloses ==
  ASSUME PxInv, NEW p \in PxRequests, PxUses(pxReq[p]), NEW r \in PxReqs, pxReq' = [pxReq EXCEPT ![p] = r],
         pxPool' = pxPool, pxFd' = [pxFd EXCEPT ![pxReq[p].fd] = NoSocket], Unwait(p),
         r.fd = PxNobody, r.at \in {"start", "drop", "gone"}, PxTold(r)
  PROVE  PxInv'
<1>1. /\ pxReq[p].fd \in PxFds /\ pxFd \in [PxFds -> PxSockets] BY PxMyself DEF PxUses
<1>2. NoSocket \in PxSockets BY DEF NoSocket, PxSockets, PxSides
<1>3. /\ pxFd' \in [PxFds -> PxSockets]
      /\ \A f \in PxFds : pxFd'[f] = pxFd[f] \/ f = pxReq[p].fd BY <1>1, <1>2
<1>4. /\ pxWait' \in [PxFds -> PxWaiters]
      /\ \A f \in PxFds : pxWait'[f] = pxWait[f] \/ f = pxReq[p].fd BY PxUnwaits
<1>5. ~PxUses(r) /\ PxShape(r) /\ PxHears(p, r, pxWait') BY DEF PxUses, PxShape, PxConnectedAt, PxHears, PxWaitsAt
<1> QED BY <1>3, <1>4, <1>5, PxLocal

LEMMA PxDropKeeps == ASSUME PxInv, NEW p \in PxRequests, PxDrop(p) PROVE PxInv'
<1> DEFINE r == pxReq[p]
           s == [r EXCEPT !.at = "gone", !.fd = PxNobody]
<1>1. /\ r.at = "drop" /\ pxPool' = pxPool /\ pxReq' = [pxReq EXCEPT ![p] = s] BY DEF PxDrop, PxAt
<1>2. r \in PxReqs /\ PxTold(r) /\ r.fd \in PxPlaces BY PxMyself
<1>3. /\ s \in PxReqs /\ s.fd = PxNobody /\ s.at = "gone" /\ s.deaf = r.deaf /\ s.mode = r.mode
      /\ s.heads = r.heads /\ s.ends = r.ends /\ s.reads_on = r.reads_on /\ s.headers_sent = r.headers_sent
  BY <1>2 DEF PxReqs, PxSteps, PxPlaces
<1> HIDE DEF s
<1>5. PxTold(s)
  <2>1. PxOver(r) BY <1>1, <1>2 DEF PxTold
  <2>2. PxOver(s) BY <1>3, <2>1 DEF PxOver, PxDone, PxPast, PxCounts
  <2> QED BY <1>3, <2>2, PxDoneTold
<1>6. CASE r.fd = PxNobody
  <2>1. UNCHANGED <<pxFd, pxWait>> BY <1>6 DEF PxDrop
  <2>2. ~PxUses(s) /\ PxShape(s) /\ PxHears(p, s, pxWait')
    BY <1>3 DEF PxUses, PxShape, PxConnectedAt, PxHears, PxWaitsAt
  <2> QED BY <1>1, <1>3, <1>5, <1>6, <2>1, <2>2, PxMoves
<1>7. CASE r.fd # PxNobody
  <2>1. Unwait(p) /\ pxFd' = [pxFd EXCEPT ![r.fd] = NoSocket] BY <1>7 DEF PxDrop
  <2>2. PxUses(r) BY <1>1, <1>7 DEF PxUses
  <2> QED BY <1>1, <1>3, <1>5, <2>1, <2>2, PxCloses
<1> QED BY <1>6, <1>7

LEMMA PxTunnelCloses == ASSUME PxInv, NEW p \in PxRequests, start_websocket_passthrough(p) PROVE PxInv'
<1> DEFINE r == pxReq[p]
           s == [r EXCEPT !.fd = PxNobody, !.at = "drop"]
<1>1. /\ r.mode = "websocket" /\ r.at \in {"read", "tunnel"} /\ pxPool' = pxPool /\ pxReq' = [pxReq EXCEPT ![p] = s]
      /\ Unwait(p) /\ pxFd' = [pxFd EXCEPT ![r.fd] = NoSocket] BY DEF start_websocket_passthrough
<1>2. r \in PxReqs /\ PxTold(r) /\ PxUses(r) BY <1>1, PxMyself DEF PxConnectedAt
<1>3. /\ s \in PxReqs /\ s.fd = PxNobody /\ s.at = "drop" /\ s.deaf = r.deaf /\ s.mode = r.mode
      /\ s.heads = r.heads /\ s.ends = r.ends /\ s.reads_on = r.reads_on /\ s.headers_sent = r.headers_sent
  BY <1>2 DEF PxReqs, PxSteps, PxPlaces
<1> HIDE DEF s
<1>5. PxTold(s)
  <2>1. PxBegun(r) \/ PxPast(r) BY <1>1, <1>2 DEF PxTold, PxOpen, PxSilent
  <2>2. PxOver(s) BY <1>1, <1>3, <2>1 DEF PxBegun, PxCounts, PxOver, PxDone, PxPast
  <2> QED BY <1>3, <2>2, PxDoneTold
<1> QED BY <1>1, <1>2, <1>3, <1>5, PxCloses

LEMMA PxWrittenKeeps == ASSUME PxInv, NEW p \in PxRequests, PxWritten(p) PROVE PxInv'
<1> DEFINE r == pxReq[p]
           f == r.fd
           s == [r EXCEPT !.at = "read"]
           t == [r EXCEPT !.fd = PxNobody, !.is_reused = FALSE, !.at = "start"]
           sent(response) == [i \in 1 .. Len(response) |-> [of |-> p, is |-> response[i]]]
<1>1. r.at = "write" /\ Ready(p) /\ pxPool' = pxPool BY DEF PxWritten, PxAt
<1>2. /\ r \in PxReqs /\ PxTold(r) /\ PxUses(r) /\ f \in PxFds /\ PxHears(p, r, pxWait)
      /\ pxFd \in [PxFds -> PxSockets] /\ pxWait \in [PxFds -> PxWaiters] BY <1>1, PxMyself DEF PxConnectedAt
<1>3. /\ s \in PxReqs /\ s.fd = f /\ s.deaf = r.deaf /\ s.at = "read" /\ PxTold(s)
  <2>1. "read" \in PxBefore \cup {"read"} /\ r.at \in PxBefore BY <1>1 DEF PxBefore
  <2> QED BY <1>2, <2>1, PxSilentOn
<1>4. /\ t \in PxReqs /\ t.fd = PxNobody /\ t.at = "start" /\ PxTold(t)
  <2>1. /\ t \in PxReqs /\ t.fd = PxNobody /\ t.deaf = r.deaf /\ t.at = "start" /\ t.mode = r.mode /\ t.heads = r.heads
        /\ t.ends = r.ends /\ t.headers_sent = r.headers_sent /\ t.relayed = r.relayed
    BY <1>2 DEF PxReqs, PxSteps, PxPlaces
  <2> HIDE DEF t
  <2>2. PxTold(r) => PxSilent(t) BY <1>1, <2>1 DEF PxTold, PxBefore, PxSilent, PxCounts
  <2>3. PxSilent(t) => PxTold(t) BY <2>1 DEF PxTold, PxBefore
  <2> QED BY <1>2, <2>1, <2>2, <2>3
<1>5. CASE pxReq' = [pxReq EXCEPT ![p] = s] /\ pxWait' = pxWait
           /\ \/ UNCHANGED pxFd
              \/ \E response \in PxResponses : pxFd' = [pxFd EXCEPT ![f].coming = @ \o sent(response)]
  <2>1. pxFd' \in [PxFds -> PxSockets] /\ \A g \in PxFds : pxFd'[g].open = pxFd[g].open
    <3>1. CASE UNCHANGED pxFd BY <1>2, <3>1
    <3>2. ASSUME NEW response \in PxResponses, pxFd' = [pxFd EXCEPT ![f].coming = @ \o sent(response)]
          PROVE  pxFd' \in [PxFds -> PxSockets] /\ \A g \in PxFds : pxFd'[g].open = pxFd[g].open
      <4>1. response \in Seq(STRING) BY PxAssumption DEF PxAssumption
      <4>2. sent(response) \in Seq(PxPieces)
        <5>1. Len(response) \in Nat /\ \A i \in 1 .. Len(response) : response[i] \in STRING BY <4>1
        <5>2. \A i \in 1 .. Len(response) : [of |-> p, is |-> response[i]] \in PxPieces BY <5>1 DEF PxPieces
        <5> QED BY <5>1, <5>2
      <4> DEFINE c == pxFd[f].coming \o sent(response)
      <4> HIDE DEF sent
      <4>3. c \in Seq(PxPieces) BY <1>2, <4>2 DEF PxSockets
      <4>4. pxFd' = [pxFd EXCEPT ![f] = [pxFd[f] EXCEPT !.coming = c]] BY <3>2
      <4> HIDE DEF c
      <4> QED BY <1>2, <4>3, <4>4 DEF PxSockets
    <3> QED BY <1>5, <3>1, <3>2
  <2> HIDE DEF s
  <2>2. PxShape(s) /\ PxHears(p, s, pxWait') /\ PxUses(s)
    BY <1>1, <1>2, <1>3, <1>5 DEF PxShape, PxUses, PxUnconnectedAt, PxHears, Ready
  <2> QED BY <1>1, <1>2, <1>3, <1>5, <2>1, <2>2, PxLocal
<1>6. CASE pxReq' = [pxReq EXCEPT ![p] = t] /\ pxFd' = [pxFd EXCEPT ![f] = NoSocket] /\ Unwait(p)
  <2> HIDE DEF t
  <2> QED BY <1>1, <1>2, <1>4, <1>6, PxCloses
<1>7. CASE pxReq' = [pxReq EXCEPT ![p] = failed(@)] /\ Unwait(p) /\ UNCHANGED pxFd BY <1>1, <1>2, <1>7, PxFails
<1> QED
  <2>1. \/ /\ pxReq' = [pxReq EXCEPT ![p].at = "read"]
           /\ \/ UNCHANGED pxFd
              \/ \E response \in PxResponses : pxFd' = [pxFd EXCEPT ![f].coming = @ \o sent(response)]
           /\ UNCHANGED pxWait
        \/ /\ pxReq' = [pxReq EXCEPT ![p].fd = PxNobody, ![p].is_reused = FALSE, ![p].at = "start"]
           /\ pxFd' = [pxFd EXCEPT ![f] = NoSocket]
           /\ Unwait(p)
        \/ pxReq' = [pxReq EXCEPT ![p] = failed(@)] /\ Unwait(p) /\ UNCHANGED pxFd BY Zenon DEF PxWritten
  <2>2. /\ pxReq' = [pxReq EXCEPT ![p].at = "read"] => pxReq' = [pxReq EXCEPT ![p] = s]
        /\ pxReq' = [pxReq EXCEPT ![p].fd = PxNobody, ![p].is_reused = FALSE, ![p].at = "start"]
             => pxReq' = [pxReq EXCEPT ![p] = t] OBVIOUS
  <2> HIDE DEF s, t, sent
  <2> QED BY <1>5, <1>6, <1>7, <2>1, <2>2

LEMMA PxFlushKeeps == ASSUME PxInv, NEW p \in PxRequests, flush_tls_writes(p) PROVE PxInv'
<1> DEFINE r == pxReq[p]
           s == failed_open(r)
<1>1. /\ pxTls /\ r.at = "read" /\ UNCHANGED <<pxPool, pxFd, pxWait>> /\ pxReq' = [pxReq EXCEPT ![p] = s]
  BY DEF flush_tls_writes, PxAt
<1>2. r \in PxReqs /\ PxUses(r) /\ PxTold(r) /\ PxHears(p, r, pxWait) BY <1>1, PxMyself DEF PxConnectedAt
<1>3. s \in PxReqs /\ s.fd = r.fd /\ s.deaf = r.deaf /\ s.at = "read" /\ (PxOpen(r) => PxPast(s))
  BY <1>1, <1>2, PxFailedOpen DEF PxKeeps
<1> HIDE DEF s
<1>4. PxTold(s) BY <1>1, <1>2, <1>3 DEF PxTold, PxOpen, PxBefore
<1>5. PxShape(s) /\ PxHears(p, s, pxWait')
  BY <1>1, <1>2, <1>3 DEF PxShape, PxUses, PxUnconnectedAt, PxHears, PxWaitsAt
<1> QED BY <1>1, <1>2, <1>3, <1>4, <1>5, PxMoves

LEMMA PxEnds ==
  ASSUME NEW p \in PxRequests, NEW r \in PxReqs, r.at = "read", PxTold(r)
  PROVE  PxKeeps(r, PxEof(r), p) /\ PxTold(PxEof(r))
         /\ PxEof(r).at \in {"tunnel", "drop"} /\ (PxEof(r).at = "tunnel" => PxEof(r).mode = "websocket")
<1> DEFINE t == [r EXCEPT !.at = "tunnel"]
           e == [r EXCEPT !.finished = TRUE, !.ends = @ + 1, !.at = "drop"]
<1>0. r.ends + 1 \in Nat /\ PxOpen(r) BY DEF PxReqs, PxTold, PxBefore
<1>1. CASE r.mode = "websocket"
  <2>1. /\ PxKeeps(r, t, p) /\ t.at = "tunnel" /\ t.mode = r.mode /\ t.heads = r.heads
        /\ t.ends = r.ends /\ t.headers_sent = r.headers_sent /\ t.reads_on = r.reads_on
    BY DEF PxReqs, PxSteps, PxKeeps
  <2>2. PxEof(r) = t BY <1>1 DEF PxEof
  <2> HIDE DEF t
  <2>3. PxBegun(t) \/ PxPast(t) BY <1>0, <1>1, <2>1 DEF PxOpen, PxSilent, PxBegun, PxPast, PxCounts
  <2>4. PxTold(t) BY <2>1, <2>3 DEF PxTold, PxBefore
  <2> QED BY <1>1, <2>1, <2>2, <2>4
<1>2. CASE r.mode # "websocket" /\ ~r.headers_sent
  <2>1. PxEof(r) = failed(r) BY <1>2 DEF PxEof
  <2>2. PxKeeps(r, failed(r), p) /\ failed(r).at = "drop" /\ PxDone(failed(r)) BY <1>0, PxFailed
  <2> QED BY <2>1, <2>2, PxDoneTold
<1>3. CASE r.mode # "websocket" /\ r.headers_sent
  <2>1. /\ PxKeeps(r, e, p) /\ e.at = "drop" /\ e.heads = r.heads /\ e.headers_sent = r.headers_sent
        /\ e.ends = r.ends + 1 /\ e.reads_on = r.reads_on BY <1>0 DEF PxReqs, PxSteps, PxKeeps
  <2>2. PxEof(r) = e BY <1>3 DEF PxEof
  <2> HIDE DEF e
  <2>3. PxDone(e) BY <1>0, <1>3, <2>1 DEF PxOpen, PxDone, PxSilent, PxBegun, PxPast, PxCounts
  <2> QED BY <2>1, <2>2, <2>3, PxDoneTold
<1> QED BY <1>1, <1>2, <1>3 DEF PxReqs

\* What read_loop() may do: take a piece, or see the end of the input.
LEMMA PxReads ==
  ASSUME PxInv, NEW p \in PxRequests, read_loop(p)
  PROVE  /\ pxReq[p].at = "read" /\ UNCHANGED <<pxPool, pxTls>>
         /\ \/ \E keep \in BOOLEAN :
                 LET s == pxFd[pxReq[p].fd]
                     n == process_cleartext(pxReq[p], Head(s.inbox), keep)
                 IN  /\ s.inbox # <<>> /\ pxReq' = [pxReq EXCEPT ![p] = n]
                     /\ pxFd' = [pxFd EXCEPT ![pxReq[p].fd].inbox = Tail(@)]
                     /\ IF n.at = "read" THEN UNCHANGED pxWait ELSE Unwait(p)
            \/ pxReq' = [pxReq EXCEPT ![p] = PxEof(pxReq[p])] /\ Unwait(p) /\ UNCHANGED pxFd
BY Zenon DEF read_loop, PxAt

LEMMA PxReadKeeps == ASSUME PxInv, NEW p \in PxRequests, read_loop(p) PROVE PxInv'
<1> DEFINE r == pxReq[p]
           f == r.fd
           piece == Head(pxFd[f].inbox)
           next(keep) == process_cleartext(r, piece, keep)
<1>1. r.at = "read" /\ Ready(p) /\ pxPool' = pxPool BY DEF read_loop, PxAt
<1>2. /\ r \in PxReqs /\ PxTold(r) /\ PxUses(r) /\ f \in PxFds
      /\ pxFd \in [PxFds -> PxSockets] /\ pxWait \in [PxFds -> PxWaiters] /\ pxReq \in [PxRequests -> PxReqs]
  BY <1>1, PxMyself DEF PxConnectedAt
<1>3. ASSUME NEW keep \in BOOLEAN, pxFd[f].inbox # <<>>,
             pxReq' = [pxReq EXCEPT ![p] = next(keep)],
             pxFd' = [pxFd EXCEPT ![f].inbox = Tail(@)],
             IF next(keep).at = "read" THEN UNCHANGED pxWait ELSE Unwait(p)
      PROVE  PxInv'
  <2>1. piece \in PxPieces /\ Tail(pxFd[f].inbox) \in Seq(PxPieces)
    <3>1. pxFd[f].inbox \in Seq(PxPieces) BY <1>2 DEF PxSockets
    <3> QED BY <1>3, <3>1, HeadTailProperties
  <2>2. pxFd' \in [PxFds -> PxSockets] /\ \A g \in PxFds : pxFd'[g].open = pxFd[g].open
    <3>1. pxFd' = [pxFd EXCEPT ![f] = [pxFd[f] EXCEPT !.inbox = Tail(pxFd[f].inbox)]] BY <1>3
    <3> DEFINE tail == Tail(pxFd[f].inbox)
    <3>2. tail \in Seq(PxPieces) /\ pxFd' = [pxFd EXCEPT ![f] = [pxFd[f] EXCEPT !.inbox = tail]] BY <2>1, <3>1
    <3> HIDE DEF tail
    <3> QED BY <1>2, <3>2 DEF PxSockets
  <2> DEFINE n == next(keep)
  <2> HIDE DEF piece
  <2>3. PxGoesOn(r, n, piece) BY <1>1, <1>2, <2>1, PxProcesses
  <2>4. n \in PxReqs /\ n.fd = f /\ n.deaf = r.deaf /\ n.at \in {"read", "drop", "release"} BY <2>3 DEF PxGoesOn, PxKeeps
  <2>5. PxTold(n)
    <3>1. PxOpen(r) BY <1>1, <1>2 DEF PxTold
    <3> QED BY <2>3, <3>1 DEF PxGoesOn
  <2>6. (pxWait' = pxWait \/ Unwait(p)) /\ (n.at = "read" => pxWait' = pxWait) BY <1>3
  <2>7. pxReq' = [pxReq EXCEPT ![p] = n] BY <1>3
  <2> HIDE DEF n, next
  <2>8. PxShape(n) /\ PxUses(n) BY <1>2, <2>4 DEF PxShape, PxUses, PxUnconnectedAt
  <2>9. PxHears(p, n, pxWait') BY <1>1, <2>4, <2>6 DEF PxHears, PxWaitsAt, Ready
  <2>10. pxWait' \in [PxFds -> PxWaiters] /\ \A g \in PxFds : pxWait'[g] = pxWait[g] \/ g = f BY <1>2, <2>6, PxUnwaits
  <2> QED BY <1>1, <1>2, <2>2, <2>4, <2>5, <2>7, <2>8, <2>9, <2>10, PxLocal
<1>4. CASE pxReq' = [pxReq EXCEPT ![p] = PxEof(r)] /\ Unwait(p) /\ UNCHANGED pxFd
  <2> DEFINE t == PxEof(r)
  <2>1. /\ t \in PxReqs /\ t.fd = f /\ t.deaf = r.deaf /\ PxTold(t)
        /\ t.at \in {"tunnel", "drop"} /\ (t.at = "tunnel" => t.mode = "websocket") BY <1>1, <1>2, PxEnds DEF PxKeeps
  <2>2. pxReq' = [pxReq EXCEPT ![p] = t] BY <1>4
  <2> HIDE DEF t
  <2>3. PxShape(t) /\ PxHears(p, t, pxWait') BY <1>2, <2>1 DEF PxShape, PxUses, PxUnconnectedAt, PxHears, PxWaitsAt
  <2> QED BY <1>1, <1>2, <1>4, <2>1, <2>2, <2>3, PxMoves
<1> QED BY <1>3, <1>4, PxReads

\* The steps at the pool.

LEMMA PxAcquireKeeps == ASSUME PxInv, NEW p \in PxRequests, acquire(p) PROVE PxInv'
<1> DEFINE r == pxReq[p]
           k == Len(pxPool)
           f == Last(pxPool)
           s == [r EXCEPT !.fd = f, !.is_reused = TRUE, !.at = "send"]
<1>0. PxTyped /\ PxOwned BY DEF PxInv
<1>1. r.at = "start" /\ pxPool # <<>> /\ pxPool' = Front(pxPool) /\ pxWait' = pxWait BY DEF acquire, PxAt
<1>2. /\ r \in PxReqs /\ PxTold(r) /\ PxShape(r) /\ pxReq \in [PxRequests -> PxReqs]
      /\ pxFd \in [PxFds -> PxSockets] /\ pxWait \in [PxFds -> PxWaiters] /\ pxPool \in Seq(PxFds) BY PxMyself
<1>3. /\ f \in PxFds /\ pxFd[f].open /\ pxPool' \in Seq(PxFds) /\ DOMAIN pxPool' \subseteq DOMAIN pxPool
      /\ \A i \in DOMAIN pxPool' : pxPool'[i] = pxPool[i] /\ pxPool[i] # f
      /\ \E i \in DOMAIN pxPool : pxPool[i] = f
  <2>1. k \in Nat /\ k > 0 /\ DOMAIN pxPool = 1 .. k /\ \A i \in 1 .. k : pxPool[i] \in PxFds BY <1>1, <1>2, EmptySeq
  <2>2. f = pxPool[k] /\ pxPool' = [i \in 1 .. (k - 1) |-> pxPool[i]]
    <3>1. pxPool' = SubSeq(pxPool, 1, k - 1) BY <1>1 DEF Front
    <3> QED BY <1>2, <2>1, <3>1 DEF Last
  <2>3. k \in 1 .. k /\ 1 .. (k - 1) \subseteq 1 .. k /\ k \notin 1 .. (k - 1) /\ k - 1 \in Nat BY <2>1
  <2>4. DOMAIN pxPool' = 1 .. (k - 1) /\ pxPool' \in Seq(PxFds) BY <2>1, <2>2, <2>3
  <2> HIDE DEF k, f
  <2>5. pxFd[f].open /\ \A i \in 1 .. (k - 1) : pxPool[i] # f BY <1>0, <2>1, <2>2, <2>3 DEF PxOwned
  <2> QED BY <2>1, <2>2, <2>3, <2>4, <2>5
<1>4. ASSUME NEW q \in PxRequests, PxUses(pxReq[q]) PROVE pxReq[q].fd # f /\ pxReq[q].fd \in PxFds
  BY <1>0, <1>3, <1>4, PxMyself DEF PxOwned, PxUses
<1> HIDE DEF f
<1>5. CASE pxFd' = [pxFd EXCEPT ![f] = NoSocket] /\ UNCHANGED pxReq
  <2>1. pxFd' \in [PxFds -> PxSockets] /\ \A g \in PxFds : g # f => pxFd'[g] = pxFd[g]
    <3>1. NoSocket \in PxSockets BY DEF NoSocket, PxSockets, PxSides
    <3> QED BY <1>2, <1>3, <1>5, <3>1
  <2>2. PxTyped' BY <1>1, <1>2, <1>3, <1>5, <2>1 DEF PxTyped
  <2>3. \A i \in DOMAIN pxPool' : pxFd'[pxPool'[i]] = pxFd[pxPool[i]] BY <1>2, <1>3, <2>1
  <2>4. \A q \in PxRequests : PxUses(pxReq[q]) => pxFd'[pxReq[q].fd] = pxFd[pxReq[q].fd] BY <1>4, <2>1
  <2>5. PxOwned' BY <1>0, <1>3, <1>5, <2>3, <2>4 DEF PxOwned
  <2> QED BY <1>1, <1>5, <2>2, <2>5 DEF PxInv
<1>6. CASE pxReq' = [pxReq EXCEPT ![p] = s] /\ UNCHANGED pxFd
  <2>2. /\ s \in PxReqs /\ s.fd = f /\ s.at = "send" /\ s.mode = r.mode
        /\ s.heads = r.heads /\ s.ends = r.ends /\ s.headers_sent = r.headers_sent
    BY <1>2, <1>3 DEF PxReqs, PxSteps, PxPlaces
  <2> HIDE DEF s
  <2>4. PxTold(s)
    <3>1. PxTold(r) => PxSilent(s) BY <1>1, <2>2 DEF PxTold, PxBefore, PxSilent, PxCounts
    <3>2. PxSilent(s) => PxTold(s) BY <2>2 DEF PxTold, PxBefore
    <3> QED BY <1>2, <3>1, <3>2
  <2>5. f # PxNobody BY <1>3, PxAssumption DEF PxAssumption
  <2>6. PxShape(s) /\ PxHears(p, s, pxWait) BY <2>2, <2>5 DEF PxShape, PxUnconnectedAt, PxHears, PxWaitsAt
  <2>7. \A q \in PxRequests : pxReq'[q] = IF q = p THEN s ELSE pxReq[q] BY <1>2, <1>6
  <2>8. PxTyped' BY <1>1, <1>2, <1>3, <1>6, <2>2 DEF PxTyped
  <2>9. ASSUME NEW q \in PxRequests, PxUses(pxReq'[q])
        PROVE  pxFd'[pxReq'[q].fd].open /\ \A i \in DOMAIN pxPool' : pxPool'[i] # pxReq'[q].fd
    <3>1. CASE q = p BY <1>3, <1>6, <2>2, <2>7, <3>1
    <3>2. CASE q # p BY <1>0, <1>3, <1>6, <2>7, <2>9, <3>2 DEF PxOwned
    <3> QED BY <3>1, <3>2
  <2>10. \A q, t \in PxRequests : PxUses(pxReq'[q]) /\ PxUses(pxReq'[t]) /\ pxReq'[q].fd = pxReq'[t].fd => q = t
    BY <1>0, <1>4, <2>2, <2>7 DEF PxOwned
  <2>11. \A i \in DOMAIN pxPool' : pxFd'[pxPool'[i]].open BY <1>0, <1>3, <1>6 DEF PxOwned
  <2>12. \A i, j \in DOMAIN pxPool' : pxPool'[i] = pxPool'[j] => i = j BY <1>0, <1>3 DEF PxOwned
  <2>13. PxOwned' BY <2>9, <2>10, <2>11, <2>12 DEF PxOwned
  <2> QED BY <1>1, <2>4, <2>6, <2>7, <2>8, <2>13 DEF PxInv
<1> QED
  <2>1. pxReq' = [pxReq EXCEPT ![p].fd = f, ![p].is_reused = TRUE, ![p].at = "send"]
          => pxReq' = [pxReq EXCEPT ![p] = s] BY <1>2
  <2> QED BY <1>5, <1>6, <2>1 DEF acquire, f

LEMMA PxCleanupKeeps == ASSUME PxInv, cleanup_stale_connections PROVE PxInv'
<1>0. PxTyped /\ PxOwned BY DEF PxInv
<1> DEFINE k == Len(pxPool)
<1>1. k \in Nat /\ DOMAIN pxPool = 1 .. k /\ \A i \in 1 .. k : pxPool[i] \in PxFds BY <1>0 DEF PxTyped
<1>2. UNCHANGED <<pxReq, pxWait>> BY DEF cleanup_stale_connections
<1>3. PICK n \in 1 .. k :
        /\ pxPool' = SubSeq(pxPool, n + 1, k)
        /\ pxFd' = [f \in PxFds |-> IF f \in {pxPool[i] : i \in 1..n} THEN NoSocket ELSE pxFd[f]]
  BY DEF cleanup_stale_connections
<1>4. n \in Nat /\ k - n \in Nat /\ \A i \in 1 .. (k - n) : i + n \in 1 .. k /\ i + n \notin 1 .. n BY <1>1, <1>3
<1>5. pxPool' \in Seq(PxFds) /\ DOMAIN pxPool' = 1 .. (k - n) /\ \A i \in 1 .. (k - n) : pxPool'[i] = pxPool[i + n]
  <2>1. pxPool \in Seq(PxFds) /\ n + 1 \in 1 .. (k + 1) /\ k \in (n + 1) - 1 .. k BY <1>0, <1>1, <1>3 DEF PxTyped
  <2>2. pxPool' = [i \in 1 .. (k - n) |-> pxPool[i + n]] BY <1>1, <1>3, <1>4, <2>1
  <2> QED BY <1>1, <1>4, <2>2
<1>6. \A i \in 1 .. n : i \in 1 .. k BY <1>1, <1>3
<1> HIDE DEF k
<1>7. pxFd' \in [PxFds -> PxSockets] /\ \A f \in PxFds : (\A i \in 1 .. n : pxPool[i] # f) => pxFd'[f] = pxFd[f]
  <2>1. NoSocket \in PxSockets BY DEF NoSocket, PxSockets, PxSides
  <2> QED BY <1>0, <1>3, <2>1 DEF PxTyped
<1>8. PxTyped' BY <1>0, <1>2, <1>5, <1>7 DEF PxTyped
<1>9. ASSUME NEW i \in 1 .. (k - n) PROVE pxFd'[pxPool'[i]].open
  <2>1. i + n \in 1 .. k /\ pxPool'[i] = pxPool[i + n] /\ i + n \notin 1 .. n BY <1>4, <1>5
  <2>2. \A j \in 1 .. n : pxPool[j] # pxPool[i + n] BY <1>0, <1>1, <1>6, <2>1 DEF PxOwned
  <2> QED BY <1>0, <1>1, <1>7, <2>1, <2>2 DEF PxOwned
<1>10. ASSUME NEW p \in PxRequests, PxUses(pxReq[p])
       PROVE  pxFd'[pxReq[p].fd].open /\ \A i \in 1 .. (k - n) : pxPool'[i] # pxReq[p].fd
  <2>1. pxReq[p].fd \in PxFds BY <1>10, PxMyself DEF PxUses
  <2>2. pxFd[pxReq[p].fd].open /\ \A i \in 1 .. k : pxPool[i] # pxReq[p].fd BY <1>0, <1>1, <1>10 DEF PxOwned
  <2> QED BY <1>4, <1>5, <1>6, <1>7, <2>1, <2>2
<1>11. ASSUME NEW i \in 1 .. (k - n), NEW j \in 1 .. (k - n), pxPool'[i] = pxPool'[j] PROVE i = j
  <2>1. i + n \in DOMAIN pxPool /\ j + n \in DOMAIN pxPool /\ pxPool[i + n] = pxPool[j + n] BY <1>1, <1>4, <1>5, <1>11
  <2>2. i + n = j + n BY <1>0, <2>1 DEF PxOwned
  <2> QED BY <1>4, <2>2
<1>12. PxOwned' BY <1>0, <1>2, <1>5, <1>9, <1>10, <1>11 DEF PxOwned
<1> QED BY <1>2, <1>8, <1>12 DEF PxInv

LEMMA PxResolveKeeps == ASSUME PxInv, NEW p \in PxRequests, PxResolve(p) PROVE PxInv'
<1> DEFINE r == pxReq[p]
           socket == [NoSocket EXCEPT !.open = TRUE, !.peer = "open"]
           s(f) == [r EXCEPT !.fd = f, !.at = "connect"]
<1>0. PxTyped /\ PxOwned BY DEF PxInv
<1>1. r.at = "start" /\ pxPool = <<>> /\ pxPool' = pxPool BY DEF PxResolve, PxAt
<1>2. /\ r \in PxReqs /\ PxTold(r) /\ PxShape(r) /\ pxReq \in [PxRequests -> PxReqs]
      /\ pxFd \in [PxFds -> PxSockets] /\ pxWait \in [PxFds -> PxWaiters] BY PxMyself
<1>3. CASE pxReq' = [pxReq EXCEPT ![p] = failed(@)] /\ UNCHANGED <<pxFd, pxWait>> BY <1>1, <1>3, PxFails
<1>4. ASSUME NEW f \in PxFds, ~pxFd[f].open, pxFd' = [pxFd EXCEPT ![f] = socket], pxWait' = [pxWait EXCEPT ![f] = p],
             pxReq' = [pxReq EXCEPT ![p].fd = f, ![p].at = "connect"]
      PROVE  PxInv'
  <2> DEFINE t == s(f)
  <2>1. /\ t \in PxReqs /\ t.fd = f /\ t.at = "connect" /\ t.deaf = r.deaf /\ t.relayed = r.relayed /\ t.mode = r.mode
        /\ t.heads = r.heads /\ t.ends = r.ends /\ t.headers_sent = r.headers_sent
    BY <1>2 DEF PxReqs, PxSteps, PxPlaces
  <2>2. pxReq' = [pxReq EXCEPT ![p] = t] BY <1>4
  <2> HIDE DEF t
  <2>3. PxTold(t)
    <3>1. PxTold(r) => PxSilent(t) BY <1>1, <2>1 DEF PxTold, PxBefore, PxSilent, PxCounts
    <3>2. PxSilent(t) => PxTold(t) BY <2>1 DEF PxTold, PxBefore
    <3> QED BY <1>2, <2>1, <3>1, <3>2
  <2>4. /\ pxWait' \in [PxFds -> PxWaiters] /\ pxWait'[f] = p /\ \A g \in PxFds : g # f => pxWait'[g] = pxWait[g]
    BY <1>2, <1>4 DEF PxWaiters
  <2>5. f # PxNobody BY PxAssumption DEF PxAssumption
  <2>6. PxShape(t) /\ PxHears(p, t, pxWait') BY <2>1, <2>4, <2>5 DEF PxShape, PxUnconnectedAt, PxHears
  <2>7. socket \in PxSockets /\ socket.open
    <3>1. NoSocket \in PxSockets BY DEF NoSocket, PxSockets, PxSides
    <3> QED BY <3>1 DEF PxSockets, PxSides
  <2>8. pxFd' \in [PxFds -> PxSockets] /\ pxFd'[f].open /\ \A g \in PxFds : g # f => pxFd'[g] = pxFd[g]
    BY <1>2, <1>4, <2>7
  <2>9. \A q \in PxRequests : pxReq'[q] = IF q = p THEN t ELSE pxReq[q] BY <1>2, <2>2
  <2>10. PxTyped' BY <1>0, <1>1, <2>1, <2>2, <2>4, <2>8 DEF PxTyped
  <2>11. ASSUME NEW q \in PxRequests, PxUses(pxReq[q])
         PROVE  pxReq[q].fd # f /\ pxReq[q].fd \in PxFds /\ pxFd[pxReq[q].fd].open
    BY <1>0, <1>4, <2>11, PxMyself DEF PxOwned, PxUses
  <2>12. PxOwned'
    <3>1. \A q \in PxRequests : PxUses(pxReq'[q]) => pxFd'[pxReq'[q].fd].open BY <2>1, <2>8, <2>9, <2>11
    <3>2. \A q, u \in PxRequests : PxUses(pxReq'[q]) /\ PxUses(pxReq'[u]) /\ pxReq'[q].fd = pxReq'[u].fd => q = u
      BY <1>0, <2>1, <2>9, <2>11 DEF PxOwned
    <3>3. DOMAIN pxPool' = {} BY <1>1
    <3> QED BY <3>1, <3>2, <3>3 DEF PxOwned
  <2>13. ASSUME NEW q \in PxRequests, q # p PROVE PxHears(q, pxReq[q], pxWait')
    <3>1. PxHears(q, pxReq[q], pxWait) /\ (pxReq[q].at \in PxWaitsAt => PxUses(pxReq[q]))
      BY PxMyself DEF PxWaitsAt, PxConnectedAt
    <3>2. pxReq[q].at \in PxWaitsAt => pxWait'[pxReq[q].fd] = pxWait[pxReq[q].fd] BY <2>4, <2>11, <3>1
    <3> QED BY <3>1, <3>2 DEF PxHears
  <2> QED BY <2>3, <2>6, <2>9, <2>10, <2>12, <2>13 DEF PxInv
<1> QED BY <1>3, <1>4 DEF PxResolve

LEMMA PxReleaseKeeps == ASSUME PxInv, NEW p \in PxRequests, release(p) PROVE PxInv'
<1> DEFINE r == pxReq[p]
           k == Len(pxPool)
           s == [r EXCEPT !.at = "forget"]
<1>0. PxTyped /\ PxOwned BY DEF PxInv
<1>1. r.at = "release" /\ pxPool' = Append(pxPool, r.fd) /\ pxReq' = [pxReq EXCEPT ![p] = s] /\ UNCHANGED <<pxFd, pxWait>>
  BY DEF release, PxAt
<1>2. /\ r \in PxReqs /\ PxTold(r) /\ PxShape(r) /\ PxUses(r) /\ r.fd \in PxFds
      /\ pxPool \in Seq(PxFds) /\ pxReq \in [PxRequests -> PxReqs] BY <1>1, PxMyself DEF PxConnectedAt
<1>3. /\ s \in PxReqs /\ s.fd = r.fd /\ s.at = "forget" /\ s.deaf = r.deaf /\ s.headers_sent = r.headers_sent
      /\ s.heads = r.heads /\ s.ends = r.ends /\ s.reads_on = r.reads_on BY <1>2 DEF PxReqs, PxSteps
<1> HIDE DEF s
<1>4. PxTold(s)
  <2>1. PxDone(s) BY <1>1, <1>2, <1>3 DEF PxTold, PxDone, PxPast, PxCounts
  <2> QED BY <1>3, <2>1, PxDoneTold
<1>5. PxShape(s) /\ PxHears(p, s, pxWait) /\ ~PxUses(s)
  BY <1>2, <1>3 DEF PxShape, PxUses, PxUnconnectedAt, PxHears, PxWaitsAt
<1>6. \A q \in PxRequests : pxReq'[q] = IF q = p THEN s ELSE pxReq[q] BY <1>1, <1>2
<1>7. /\ k \in Nat /\ DOMAIN pxPool = 1 .. k /\ DOMAIN pxPool' = 1 .. (k + 1) /\ pxPool' \in Seq(PxFds)
      /\ pxPool'[k + 1] = r.fd /\ \A i \in 1 .. k : pxPool'[i] = pxPool[i] BY <1>1, <1>2, AppendProperties
<1>8. \A i \in 1 .. (k + 1) : i = k + 1 \/ i \in 1 .. k BY <1>7
<1> HIDE DEF k
<1>9. PxTyped' BY <1>0, <1>1, <1>3, <1>7 DEF PxTyped
<1>10. \A i \in 1 .. k : pxPool[i] # r.fd BY <1>0, <1>2, <1>7 DEF PxOwned
<1>11. \A i, j \in 1 .. (k + 1) : pxPool'[i] = pxPool'[j] => i = j BY <1>0, <1>7, <1>8, <1>10 DEF PxOwned
<1>12. \A i \in 1 .. (k + 1) : pxFd'[pxPool'[i]].open BY <1>0, <1>1, <1>2, <1>7, <1>8 DEF PxOwned
<1>13. ASSUME NEW q \in PxRequests, PxUses(pxReq'[q])
       PROVE  q # p /\ pxReq'[q] = pxReq[q] /\ pxFd'[pxReq[q].fd].open /\ \A i \in 1 .. (k + 1) : pxPool'[i] # pxReq[q].fd
  <2>1. q # p /\ pxReq'[q] = pxReq[q] BY <1>5, <1>6, <1>13
  <2>2. pxReq[q].fd # r.fd /\ pxFd[pxReq[q].fd].open /\ \A i \in 1 .. k : pxPool[i] # pxReq[q].fd
    BY <1>0, <1>2, <1>7, <1>13, <2>1 DEF PxOwned
  <2> QED BY <1>1, <1>7, <1>8, <2>1, <2>2
<1>14. PxOwned' BY <1>0, <1>7, <1>11, <1>12, <1>13 DEF PxOwned
<1> QED BY <1>1, <1>4, <1>5, <1>6, <1>9, <1>14 DEF PxInv

LEMMA PxForgetKeeps == ASSUME PxInv, NEW p \in PxRequests, PxForget(p) PROVE PxInv'
<1> DEFINE r == pxReq[p]
           s == [r EXCEPT !.fd = PxNobody, !.at = "drop"]
           o(q) == pxReq[q].deaf \/ pxWait[r.fd] = q
           t(q) == [pxReq[q] EXCEPT !.deaf = o(q)]
<1>0. PxTyped /\ PxOwned BY DEF PxInv
<1>1. r.at = "forget" /\ UNCHANGED <<pxPool, pxFd>> /\ Unwait(p) BY DEF PxForget, PxAt
<1>2. r \in PxReqs /\ PxTold(r) /\ pxReq \in [PxRequests -> PxReqs] BY PxMyself
<1>3. /\ s \in PxReqs /\ s.fd = PxNobody /\ s.at = "drop" /\ s.headers_sent = r.headers_sent
      /\ s.heads = r.heads /\ s.ends = r.ends /\ s.reads_on = r.reads_on BY <1>2 DEF PxReqs, PxSteps, PxPlaces
<1>4. ASSUME NEW q \in PxRequests
      PROVE  /\ t(q) \in PxReqs /\ t(q).fd = pxReq[q].fd /\ t(q).at = pxReq[q].at /\ t(q).relayed = pxReq[q].relayed
             /\ t(q).heads = pxReq[q].heads /\ t(q).ends = pxReq[q].ends /\ t(q).mode = pxReq[q].mode
             /\ t(q).headers_sent = pxReq[q].headers_sent /\ t(q).deaf = o(q)
             /\ t(q).reads_on = pxReq[q].reads_on
  <2>1. pxReq[q] \in PxReqs BY <1>2
  <2>2. o(q) \in BOOLEAN BY <2>1 DEF PxReqs
  <2> HIDE DEF o
  <2> QED BY <2>1, <2>2 DEF PxReqs
<1>5. \A q \in PxRequests : pxReq'[q] = IF q = p THEN s ELSE t(q) BY DEF PxForget
<1>6. pxReq' \in [PxRequests -> PxReqs]
  <2>1. pxReq' = [q \in PxRequests |-> IF q = p THEN s ELSE t(q)] BY DEF PxForget
  <2> HIDE DEF s, t
  <2> QED BY <1>3, <1>4, <2>1
<1>o. \A q \in PxRequests : ~o(q) => ~pxReq[q].deaf /\ pxWait[r.fd] # q BY <1>2 DEF PxReqs
<1> HIDE DEF s, t, o
<1>7. /\ pxWait' \in [PxFds -> PxWaiters]
      /\ \A f \in PxFds : pxWait'[f] = pxWait[f] \/ f = r.fd BY <1>1, PxUnwaits
<1>8. PxTyped' BY <1>0, <1>1, <1>6, <1>7 DEF PxTyped
<1>9. ASSUME NEW q \in PxRequests, PxUses(pxReq'[q]) PROVE PxUses(pxReq[q]) /\ pxReq'[q].fd = pxReq[q].fd
  BY <1>3, <1>4, <1>5, <1>9 DEF PxUses
<1>10. PxOwned' BY <1>0, <1>1, <1>9 DEF PxOwned
<1>11. PxShape(s) /\ PxTold(s) /\ PxHears(p, s, pxWait')
  <2>1. PxDone(s) BY <1>1, <1>2, <1>3 DEF PxTold, PxDone, PxPast, PxCounts
  <2>3. PxTold(s) BY <1>3, <2>1, PxDoneTold
  <2> QED BY <1>3, <2>3 DEF PxShape, PxConnectedAt, PxHears, PxWaitsAt
<1>12. ASSUME NEW q \in PxRequests, q # p PROVE PxShape(t(q)) /\ PxTold(t(q)) /\ PxHears(q, t(q), pxWait')
  <2>1. /\ PxShape(pxReq[q]) /\ PxTold(pxReq[q]) /\ PxHears(q, pxReq[q], pxWait)
        /\ pxReq[q].at \in PxWaitsAt => pxReq[q].fd \in PxFds BY PxMyself DEF PxWaitsAt, PxConnectedAt
  <2>2. PxShape(t(q)) BY <1>4, <2>1 DEF PxShape
  <2>3. PxTold(pxReq[q]) => PxTold(t(q))
    <3>1. /\ (PxSilent(pxReq[q]) => PxSilent(t(q))) /\ (PxBegun(pxReq[q]) => PxBegun(t(q)))
          /\ (PxPast(pxReq[q]) => PxPast(t(q))) /\ (PxDone(pxReq[q]) => PxDone(t(q)))
          /\ PxOver(pxReq[q]) => PxOver(t(q)) BY <1>4 DEF PxSilent, PxBegun, PxPast, PxCounts, PxDone, PxOver
    <3> QED BY <1>4, <3>1 DEF PxTold, PxOpen
  <2>4. PxTold(t(q)) BY <1>4, <1>o, <2>1, <2>3
  <2>5. PxHears(q, t(q), pxWait') BY <1>4, <1>7, <1>o, <2>1 DEF PxHears
  <2> QED BY <2>2, <2>4, <2>5
<1> QED BY <1>5, <1>8, <1>10, <1>11, <1>12 DEF PxInv

\* The two lemmas about traffic, and every step.

LEMMA PxTrafficKeeps == ASSUME PxInv, PxPeerCloses \/ PxArrives PROVE PxInv'
<1>0. pxFd \in [PxFds -> PxSockets] /\ UNCHANGED <<pxReq, pxPool, pxWait>>
  BY DEF PxInv, PxTyped, PxPeerCloses, PxArrives
<1>1. ASSUME NEW f \in PxFds, NEW socket \in PxSockets, socket.open = pxFd[f].open, pxFd' = [pxFd EXCEPT ![f] = socket]
      PROVE  PxInv' BY <1>0, <1>1, PxTraffic
<1>2. CASE PxPeerCloses
  <2>1. PICK f \in PxFds : pxFd' = [pxFd EXCEPT ![f].peer = "closed", ![f].coming = <<>>] BY <1>2 DEF PxPeerCloses
  <2> DEFINE socket == [pxFd[f] EXCEPT !.peer = "closed", !.coming = <<>>]
  <2>2. socket \in PxSockets /\ socket.open = pxFd[f].open
    <3>1. pxFd[f] \in PxSockets /\ <<>> \in Seq(PxPieces) BY <1>0, EmptySeq
    <3> QED BY <3>1 DEF PxSockets, PxSides
  <2>3. pxFd' = [pxFd EXCEPT ![f] = socket] BY <2>1
  <2> QED BY <1>1, <2>2, <2>3
<1>3. CASE PxArrives
  <2>1. PICK f \in PxFds : /\ pxFd[f].coming # <<>>
                           /\ pxFd' = [pxFd EXCEPT ![f].inbox = Append(@, Head(pxFd[f].coming)), ![f].coming = Tail(@)]
    BY <1>3 DEF PxArrives
  <2> DEFINE x == Append(pxFd[f].inbox, Head(pxFd[f].coming))
             y == Tail(pxFd[f].coming)
             socket == [pxFd[f] EXCEPT !.inbox = x, !.coming = y]
  <2>2. x \in Seq(PxPieces) /\ y \in Seq(PxPieces)
    <3>1. pxFd[f].inbox \in Seq(PxPieces) /\ pxFd[f].coming \in Seq(PxPieces) BY <1>0 DEF PxSockets
    <3>2. Head(pxFd[f].coming) \in PxPieces /\ y \in Seq(PxPieces) BY <2>1, <3>1, HeadTailProperties
    <3> QED BY <3>1, <3>2, AppendProperties
  <2>3. pxFd' = [pxFd EXCEPT ![f] = socket] BY <2>1
  <2> HIDE DEF x, y
  <2>4. socket \in PxSockets /\ socket.open = pxFd[f].open BY <1>0, <2>2 DEF PxSockets
  <2> QED BY <1>1, <2>3, <2>4
<1> QED BY <1>2, <1>3

LEMMA PxStep == PxInv /\ [PxNext]_pxVars => PxInv'
<1> SUFFICES ASSUME PxInv, [PxNext]_pxVars PROVE PxInv' OBVIOUS
<1>1. ASSUME NEW p \in PxRequests, PxBegin(p) PROVE PxInv' BY <1>1, PxBeginKeeps
<1>2. ASSUME NEW p \in PxRequests, acquire(p) PROVE PxInv' BY <1>2, PxAcquireKeeps
<1>3. ASSUME NEW p \in PxRequests, PxResolve(p) PROVE PxInv' BY <1>3, PxResolveKeeps
<1>4. ASSUME NEW p \in PxRequests, PxConnected(p) PROVE PxInv' BY <1>4, PxConnectedKeeps
<1>5. ASSUME NEW p \in PxRequests, do_handshake(p) PROVE PxInv' BY <1>5, PxHandshakeKeeps
<1>6. ASSUME NEW p \in PxRequests, send_request(p) PROVE PxInv' BY <1>6, PxSendKeeps
<1>7. ASSUME NEW p \in PxRequests, PxWritten(p) PROVE PxInv' BY <1>7, PxWrittenKeeps
<1>8. ASSUME NEW p \in PxRequests, read_loop(p) PROVE PxInv' BY <1>8, PxReadKeeps
<1>9. ASSUME NEW p \in PxRequests, flush_tls_writes(p) PROVE PxInv' BY <1>9, PxFlushKeeps
<1>10. ASSUME NEW p \in PxRequests, start_websocket_passthrough(p) PROVE PxInv' BY <1>10, PxTunnelCloses
<1>11. ASSUME NEW p \in PxRequests, release(p) PROVE PxInv' BY <1>11, PxReleaseKeeps
<1>12. ASSUME NEW p \in PxRequests, PxForget(p) PROVE PxInv' BY <1>12, PxForgetKeeps
<1>13. ASSUME NEW p \in PxRequests, PxDrop(p) PROVE PxInv' BY <1>13, PxDropKeeps
<1>14. CASE cleanup_stale_connections BY <1>14, PxCleanupKeeps
<1>15. CASE PxPeerCloses \/ PxArrives BY <1>15, PxTrafficKeeps
<1>16. CASE UNCHANGED pxVars
  <2>1. UNCHANGED <<pxReq, pxPool, pxFd, pxWait>> BY <1>16 DEF pxVars
  <2> QED BY <2>1 DEF PxInv, PxTyped, PxOwned
<1> QED
  BY <1>1, <1>2, <1>3, <1>4, <1>5, <1>6, <1>7, <1>8, <1>9, <1>10, <1>11, <1>12, <1>13, <1>14, <1>15, <1>16 DEF PxNext

\* What is relayed: until an upstream has sent an informational response, what
\* a descriptor holds is of the request that uses it, a response is over where
\* a request stops reading it, and an idle descriptor holds nothing.

PxClear(socket) == socket.inbox = <<>> /\ socket.coming = <<>>
PxHolds(p, socket) ==
  /\ \A i \in DOMAIN socket.inbox :
       socket.inbox[i].of = p /\ (socket.inbox[i].is \in PxEnders => i = Len(socket.inbox) /\ socket.coming = <<>>)
  /\ \A i \in DOMAIN socket.coming :
       socket.coming[i].of = p /\ (socket.coming[i].is \in PxEnders => i = Len(socket.coming))
PxQuietAt == {"connect", "handshake", "send", "write", "release"}
PxOwnBytes(p, r, socket) == PxUses(r) => PxHolds(p, socket) /\ (r.at \in PxQuietAt => PxClear(socket))
PxPlain == \A p \in PxRequests : ~pxReq[p].interim
PxStraight ==
  /\ \A p \in PxRequests : pxReq[p].reads_on => pxTls
  /\ PxPlain => /\ \A i \in DOMAIN pxPool : PxClear(pxFd[pxPool[i]])
                /\ \A p \in PxRequests : PxOwnBytes(p, pxReq[p], pxFd[pxReq[p].fd]) /\ pxReq[p].relayed \subseteq {p}

\* A descriptor that is used by nobody goes on, or is emptied.
PxFollows(s, t) == (PxClear(s) => PxClear(t)) /\ \A p \in PxRequests : PxHolds(p, s) => PxHolds(p, t)
\* A request that changes in nothing that matters here.
PxSame(r, s) == s.fd = r.fd /\ s.at = r.at /\ s.relayed = r.relayed /\ s.interim = r.interim /\ s.reads_on = r.reads_on

LEMMA PxEmptied == ASSUME NEW s PROVE PxFollows(s, s) /\ PxFollows(s, NoSocket) /\ PxClear(NoSocket)
BY DEF PxFollows, PxClear, PxHolds, NoSocket

LEMMA PxClearHolds == ASSUME NEW s, PxClear(s), NEW p PROVE PxHolds(p, s) BY DEF PxClear, PxHolds

\* The requests of M take a step, on their own descriptors.
LEMMA PxStraightOn ==
  ASSUME PxInv, PxStraight, NEW M \in SUBSET PxRequests, pxTls' = pxTls,
         \A f \in PxFds : PxFollows(pxFd[f], pxFd'[f]) \/ \E p \in M : f = pxReq[p].fd /\ PxUses(pxReq[p]),
         \A q \in PxRequests \ M : PxSame(pxReq[q], pxReq'[q]),
         \A p \in M : (pxReq[p].interim => pxReq'[p].interim) /\ (pxReq'[p].reads_on => pxReq[p].reads_on \/ pxTls),
         PxPlain /\ PxPlain' =>
           \A p \in M : PxOwnBytes(p, pxReq'[p], pxFd'[pxReq'[p].fd]) /\ pxReq'[p].relayed \subseteq {p},
         PxPlain /\ PxPlain' =>
           \A i \in DOMAIN pxPool' : PxClear(pxFd'[pxPool'[i]]) \/ \E j \in DOMAIN pxPool : pxPool'[i] = pxPool[j]
  PROVE  PxStraight'
<1>0. PxTyped /\ PxOwned BY DEF PxInv
<1>1. \A p \in PxRequests : pxReq'[p].reads_on => pxTls' BY DEF PxStraight, PxSame
<1>2. ASSUME PxPlain' PROVE PxPlain BY <1>2 DEF PxPlain, PxSame
<1>3. ASSUME PxPlain', NEW q \in PxRequests \ M
      PROVE  PxOwnBytes(q, pxReq'[q], pxFd'[pxReq'[q].fd]) /\ pxReq'[q].relayed \subseteq {q}
  <2>1. PxOwnBytes(q, pxReq[q], pxFd[pxReq[q].fd]) /\ pxReq[q].relayed \subseteq {q} BY <1>2, <1>3 DEF PxStraight
  <2>2. PxSame(pxReq[q], pxReq'[q]) OBVIOUS
  <2>3. ASSUME PxUses(pxReq[q]) PROVE PxFollows(pxFd[pxReq[q].fd], pxFd'[pxReq[q].fd])
    <3>1. pxReq[q].fd \in PxFds BY <2>3, PxMyself DEF PxUses
    <3>2. \A p \in M : PxUses(pxReq[p]) => pxReq[p].fd # pxReq[q].fd BY <1>0, <2>3 DEF PxOwned
    <3> QED BY <3>1, <3>2
  <2> QED BY <2>1, <2>2, <2>3 DEF PxOwnBytes, PxSame, PxFollows, PxUses
<1>4. ASSUME PxPlain', NEW i \in DOMAIN pxPool' PROVE PxClear(pxFd'[pxPool'[i]])
  <2>1. CASE PxClear(pxFd'[pxPool'[i]]) BY <2>1
  <2>2. ASSUME NEW j \in DOMAIN pxPool, pxPool'[i] = pxPool[j] PROVE PxClear(pxFd'[pxPool'[i]])
    <3>1. pxPool[j] \in PxFds BY <1>0 DEF PxTyped
    <3>2. \A p \in M : PxUses(pxReq[p]) => pxReq[p].fd # pxPool[j] BY <1>0 DEF PxOwned
    <3>3. PxFollows(pxFd[pxPool[j]], pxFd'[pxPool[j]]) BY <3>1, <3>2
    <3>4. PxClear(pxFd[pxPool[j]]) BY <1>2, <1>4 DEF PxStraight
    <3> QED BY <2>2, <3>3, <3>4 DEF PxFollows
  <2> QED BY <1>2, <1>4, <2>1, <2>2
<1>5. ASSUME PxPlain', NEW p \in M
      PROVE  PxOwnBytes(p, pxReq'[p], pxFd'[pxReq'[p].fd]) /\ pxReq'[p].relayed \subseteq {p} BY <1>2, <1>5
<1>6. PxPlain' => /\ \A i \in DOMAIN pxPool' : PxClear(pxFd'[pxPool'[i]])
                  /\ \A p \in PxRequests : PxOwnBytes(p, pxReq'[p], pxFd'[pxReq'[p].fd]) /\ pxReq'[p].relayed \subseteq {p}
  BY <1>3, <1>4, <1>5
<1> QED BY <1>1, <1>6 DEF PxStraight, PxOwnBytes, PxUses

LEMMA PxStraightNobody ==
  ASSUME PxInv, PxStraight, UNCHANGED <<pxReq, pxTls>>, \A f \in PxFds : PxFollows(pxFd[f], pxFd'[f]),
         \A i \in DOMAIN pxPool' : \E j \in DOMAIN pxPool : pxPool'[i] = pxPool[j]
  PROVE  PxStraight'
<1> DEFINE M == {}
<1>1. M \in SUBSET PxRequests /\ (\A q \in PxRequests \ M : PxSame(pxReq[q], pxReq'[q])) /\ \A p \in M : FALSE BY DEF PxSame
<1> HIDE DEF M
<1> QED BY <1>1, PxStraightOn

LEMMA PxStraightOne ==
  ASSUME PxInv, PxStraight, NEW p \in PxRequests, pxTls' = pxTls,
         \A f \in PxFds : PxFollows(pxFd[f], pxFd'[f]) \/ (f = pxReq[p].fd /\ PxUses(pxReq[p])),
         \A q \in PxRequests \ {p} : PxSame(pxReq[q], pxReq'[q]),
         (pxReq[p].interim => pxReq'[p].interim) /\ (pxReq'[p].reads_on => pxReq[p].reads_on \/ pxTls),
         PxPlain /\ PxPlain' => PxOwnBytes(p, pxReq'[p], pxFd'[pxReq'[p].fd]) /\ pxReq'[p].relayed \subseteq {p},
         PxPlain /\ PxPlain' =>
           \A i \in DOMAIN pxPool' : PxClear(pxFd'[pxPool'[i]]) \/ \E j \in DOMAIN pxPool : pxPool'[i] = pxPool[j]
  PROVE  PxStraight'
<1> DEFINE M == {p}
<1>1. M \in SUBSET PxRequests /\ p \in M /\ (\A q \in M : q = p) /\ M = {p} OBVIOUS
<1>2. \A q \in PxRequests \ M : PxSame(pxReq[q], pxReq'[q]) OBVIOUS
<1> HIDE DEF M
<1>3. \A f \in PxFds : PxFollows(pxFd[f], pxFd'[f]) \/ \E q \in M : f = pxReq[q].fd /\ PxUses(pxReq[q]) BY <1>1
<1>4. \A q \in M : (pxReq[q].interim => pxReq'[q].interim) /\ (pxReq'[q].reads_on => pxReq[q].reads_on \/ pxTls) BY <1>1
<1>5. PxPlain /\ PxPlain' =>
        \A q \in M : PxOwnBytes(q, pxReq'[q], pxFd'[pxReq'[q].fd]) /\ pxReq'[q].relayed \subseteq {q} BY <1>1
<1> QED BY <1>1, <1>2, <1>3, <1>4, <1>5, PxStraightOn

\* p takes a step that leaves the pool alone.
LEMMA PxStraightLocal ==
  ASSUME PxInv, PxStraight, NEW p \in PxRequests, NEW r, pxReq' = [pxReq EXCEPT ![p] = r], UNCHANGED <<pxPool, pxTls>>,
         \A f \in PxFds : PxFollows(pxFd[f], pxFd'[f]) \/ (f = pxReq[p].fd /\ PxUses(pxReq[p])),
         (pxReq[p].interim => r.interim) /\ (r.reads_on => pxReq[p].reads_on \/ pxTls),
         PxPlain /\ ~r.interim => PxOwnBytes(p, r, pxFd'[r.fd]) /\ r.relayed \subseteq {p}
  PROVE  PxStraight'
<1>1. pxReq'[p] = r /\ \A q \in PxRequests : q # p => pxReq'[q] = pxReq[q] BY PxMyself
<1>2. \A q \in PxRequests \ {p} : PxSame(pxReq[q], pxReq'[q]) BY <1>1 DEF PxSame
<1>3. PxPlain' => ~r.interim BY <1>1 DEF PxPlain
<1>4. PxPlain /\ PxPlain' => PxOwnBytes(p, pxReq'[p], pxFd'[pxReq'[p].fd]) /\ pxReq'[p].relayed \subseteq {p}
  BY <1>1, <1>3
<1> QED BY <1>1, <1>2, <1>4, PxStraightOne

\* p goes on, or fails, without a look at what it got.
LEMMA PxStraightMoves ==
  ASSUME PxInv, PxStraight, NEW p \in PxRequests, NEW r, pxReq' = [pxReq EXCEPT ![p] = r], UNCHANGED <<pxPool, pxTls>>,
         \A f \in PxFds : PxFollows(pxFd[f], pxFd'[f]),
         r.interim = pxReq[p].interim, r.reads_on => pxReq[p].reads_on \/ pxTls, r.relayed = pxReq[p].relayed,
         PxUses(r) => r.fd = pxReq[p].fd /\ PxUses(pxReq[p]) /\ (r.at \in PxQuietAt => pxReq[p].at \in PxQuietAt)
  PROVE  PxStraight'
<1>1. ASSUME PxPlain PROVE PxOwnBytes(p, r, pxFd'[r.fd]) /\ r.relayed \subseteq {p}
  <2>1. PxOwnBytes(p, pxReq[p], pxFd[pxReq[p].fd]) /\ pxReq[p].relayed \subseteq {p} BY <1>1 DEF PxStraight
  <2>2. ASSUME PxUses(r) PROVE PxHolds(p, pxFd'[r.fd]) /\ (r.at \in PxQuietAt => PxClear(pxFd'[r.fd]))
    <3>1. r.fd \in PxFds BY <2>2, PxMyself DEF PxUses
    <3>2. PxFollows(pxFd[r.fd], pxFd'[r.fd]) BY <3>1
    <3> QED BY <2>1, <2>2, <3>2 DEF PxOwnBytes, PxFollows
  <2> QED BY <2>1, <2>2 DEF PxOwnBytes
<1> QED BY <1>1, PxStraightLocal

LEMMA PxStraightFails ==
  ASSUME PxInv, PxStraight, NEW p \in PxRequests, pxReq[p].at # "forget",
         pxReq' = [pxReq EXCEPT ![p] = failed(@)], UNCHANGED <<pxPool, pxFd, pxTls>>
  PROVE  PxStraight'
<1> DEFINE r == failed(pxReq[p])
<1>1. pxReq[p] \in PxReqs /\ pxReq' = [pxReq EXCEPT ![p] = r] BY PxMyself
<1>2. r.fd = pxReq[p].fd /\ r.at = "drop" /\ r.relayed = pxReq[p].relayed /\ r.interim = pxReq[p].interim
      /\ r.reads_on = pxReq[p].reads_on BY <1>1, PxFailed DEF PxKeeps
<1> HIDE DEF r
<1>3. \A f \in PxFds : PxFollows(pxFd[f], pxFd'[f]) BY PxEmptied
<1>4. PxUses(r) => PxUses(pxReq[p]) /\ r.at \notin PxQuietAt BY <1>2 DEF PxUses, PxQuietAt
<1> QED BY <1>1, <1>2, <1>3, <1>4, PxStraightMoves

\* p goes from one place to another before the answer.
LEMMA PxStraightEarly ==
  ASSUME PxInv, PxStraight, NEW p \in PxRequests, PxBegin(p) \/ PxConnected(p) \/ do_handshake(p) \/ send_request(p)
  PROVE  PxStraight'
<1> DEFINE r == pxReq[p]
<1>1. /\ UNCHANGED <<pxPool, pxFd, pxTls>> /\ r.at \in {"none", "connect", "handshake", "send"}
      /\ \/ pxReq' = [pxReq EXCEPT ![p] = failed(@)]
         \/ \E at \in {"start", "handshake", "send", "write"} :
              pxReq' = [pxReq EXCEPT ![p].at = at] /\ (at = "start" => r.at = "none") /\ (at # "start" => r.at # "none")
  <2>1. CASE PxBegin(p) BY <2>1 DEF PxBegin, PxAt
  <2>2. CASE PxConnected(p) BY <2>2 DEF PxConnected, PxAt
  <2>3. CASE do_handshake(p) BY <2>3 DEF do_handshake, PxAt
  <2>4. CASE send_request(p) BY <2>4 DEF send_request, PxAt
  <2> QED BY <2>1, <2>2, <2>3, <2>4
<1>2. r \in PxReqs /\ PxShape(r) BY PxMyself
<1>3. CASE pxReq' = [pxReq EXCEPT ![p] = failed(@)] BY <1>1, <1>3, PxStraightFails
<1>4. ASSUME NEW at \in {"start", "handshake", "send", "write"}, pxReq' = [pxReq EXCEPT ![p].at = at],
             at = "start" => r.at = "none", at # "start" => r.at # "none"
      PROVE  PxStraight'
  <2> DEFINE s == [r EXCEPT !.at = at]
  <2>1. pxReq' = [pxReq EXCEPT ![p] = s] BY <1>4
  <2>2. /\ s.fd = r.fd /\ s.at = at /\ s.relayed = r.relayed /\ s.interim = r.interim /\ s.reads_on = r.reads_on
    BY <1>2 DEF PxReqs
  <2> HIDE DEF s
  <2>3. \A f \in PxFds : PxFollows(pxFd[f], pxFd'[f]) BY <1>1, PxEmptied
  <2>4. PxUses(s) => PxUses(r) /\ r.at \in PxQuietAt
    BY <1>1, <1>2, <1>4, <2>2 DEF PxUses, PxShape, PxUnconnectedAt, PxQuietAt
  <2> QED BY <1>1, <2>1, <2>2, <2>3, <2>4, PxStraightMoves
<1> QED BY <1>1, <1>3, <1>4

\* p gives its connection up.
LEMMA PxStraightCloses ==
  ASSUME PxInv, PxStraight, NEW p \in PxRequests, NEW r,
         pxReq' = [pxReq EXCEPT ![p] = r], UNCHANGED <<pxPool, pxTls>>,
         pxFd' = pxFd \/ pxFd' = [pxFd EXCEPT ![pxReq[p].fd] = NoSocket],
         r.fd = PxNobody, r.relayed = pxReq[p].relayed, r.interim = pxReq[p].interim, r.reads_on = pxReq[p].reads_on
  PROVE  PxStraight'
<1>1. pxFd \in [PxFds -> PxSockets] BY PxMyself
<1>2. \A f \in PxFds : pxFd'[f] = pxFd[f] \/ pxFd'[f] = NoSocket BY <1>1
<1>3. \A f \in PxFds : PxFollows(pxFd[f], pxFd'[f]) BY <1>2, PxEmptied
<1>4. ~PxUses(r) BY DEF PxUses
<1> QED BY <1>3, <1>4, PxStraightMoves

LEMMA PxStraightEnds ==
  ASSUME PxInv, PxStraight, NEW p \in PxRequests, start_websocket_passthrough(p) \/ PxDrop(p)
  PROVE  PxStraight'
<1> DEFINE r == pxReq[p]
<1>1. PICK at \in {"drop", "gone"} : pxReq' = [pxReq EXCEPT ![p].at = at, ![p].fd = PxNobody]
  <2>1. CASE PxDrop(p) BY <2>1 DEF PxDrop
  <2>2. CASE start_websocket_passthrough(p)
    <3>1. r \in PxReqs /\ pxReq \in [PxRequests -> PxReqs] BY PxMyself
    <3>2. pxReq' = [pxReq EXCEPT ![p].fd = PxNobody, ![p].at = "drop"] BY <2>2 DEF start_websocket_passthrough
    <3>3. [r EXCEPT !.fd = PxNobody, !.at = "drop"] = [r EXCEPT !.at = "drop", !.fd = PxNobody] BY <3>1 DEF PxReqs
    <3>4. pxReq' = [pxReq EXCEPT ![p].at = "drop", ![p].fd = PxNobody] BY <3>1, <3>2, <3>3
    <3> QED BY <3>4
  <2> QED BY <2>1, <2>2
<1>2. /\ UNCHANGED <<pxPool, pxTls>>
      /\ pxFd' = pxFd \/ pxFd' = [pxFd EXCEPT ![r.fd] = NoSocket] BY DEF PxDrop, start_websocket_passthrough
<1> DEFINE s == [r EXCEPT !.at = at, !.fd = PxNobody]
<1>3. /\ s.fd = PxNobody /\ s.relayed = r.relayed /\ s.interim = r.interim /\ s.reads_on = r.reads_on
      /\ pxReq' = [pxReq EXCEPT ![p] = s]
  <2>1. r \in PxReqs BY PxMyself
  <2>2. pxReq' = [pxReq EXCEPT ![p] = s] BY <1>1
  <2> QED BY <2>1, <2>2 DEF PxReqs
<1> HIDE DEF s
<1> QED BY <1>2, <1>3, PxStraightCloses

LEMMA PxStraightWritten == ASSUME PxInv, PxStraight, NEW p \in PxRequests, PxWritten(p) PROVE PxStraight'
<1> DEFINE r == pxReq[p]
           f == r.fd
           s == [r EXCEPT !.at = "read"]
           t == [r EXCEPT !.fd = PxNobody, !.is_reused = FALSE, !.at = "start"]
           sent(response) == [i \in 1 .. Len(response) |-> [of |-> p, is |-> response[i]]]
<1>1. r.at = "write" /\ UNCHANGED <<pxPool, pxTls>> BY DEF PxWritten, PxAt
<1>2. r \in PxReqs /\ PxUses(r) /\ f \in PxFds /\ pxFd \in [PxFds -> PxSockets] BY <1>1, PxMyself DEF PxConnectedAt
<1>3. CASE pxReq' = [pxReq EXCEPT ![p].at = "read"] /\ UNCHANGED pxFd
  <2>1. pxReq' = [pxReq EXCEPT ![p] = s] BY <1>3
  <2>2. s.fd = f /\ s.at = "read" /\ s.relayed = r.relayed /\ s.interim = r.interim /\ s.reads_on = r.reads_on
    BY <1>2 DEF PxReqs
  <2> HIDE DEF s
  <2>3. \A g \in PxFds : PxFollows(pxFd[g], pxFd'[g]) BY <1>3, PxEmptied
  <2> QED BY <1>1, <1>2, <2>1, <2>2, <2>3, PxStraightMoves DEF PxQuietAt
<1>4. ASSUME NEW response \in PxResponses, pxReq' = [pxReq EXCEPT ![p].at = "read"],
             pxFd' = [pxFd EXCEPT ![f].coming = @ \o sent(response)]
      PROVE  PxStraight'
  <2>1. pxReq' = [pxReq EXCEPT ![p] = s] BY <1>4
  <2>2. s.fd = f /\ s.at = "read" /\ s.relayed = r.relayed /\ s.interim = r.interim /\ s.reads_on = r.reads_on
    BY <1>2 DEF PxReqs
  <2> HIDE DEF s
  <2>3. \A g \in PxFds : PxFollows(pxFd[g], pxFd'[g]) \/ g = f BY <1>2, <1>4, PxEmptied
  <2> DEFINE c == sent(response)
  <2>4. response \in Seq(STRING) /\ \A i \in 1 .. Len(response) - 1 : response[i] \notin PxEnders
    BY PxAssumption, PxFraming DEF PxAssumption, PxFraming
  <2>5. /\ Len(response) \in Nat /\ c \in Seq(PxPieces) /\ Len(c) = Len(response) /\ DOMAIN c = 1 .. Len(response)
        /\ \A i \in DOMAIN c : c[i].of = p /\ c[i].is = response[i]
    <3>1. Len(response) \in Nat /\ \A i \in 1 .. Len(response) : response[i] \in STRING BY <2>4
    <3>2. \A i \in 1 .. Len(response) : [of |-> p, is |-> response[i]] \in PxPieces BY <3>1 DEF PxPieces
    <3>3. c \in Seq(PxPieces) /\ DOMAIN c = 1 .. Len(response) BY <3>1, <3>2
    <3> QED BY <3>1, <3>3
  <2>6. ASSUME PxPlain PROVE PxHolds(p, pxFd'[f])
    <3>1. PxClear(pxFd[f]) BY <1>1, <1>2, <2>6 DEF PxStraight, PxOwnBytes, PxQuietAt
    <3>2. pxFd'[f] = [pxFd[f] EXCEPT !.coming = pxFd[f].coming \o c] BY <1>2, <1>4
    <3> HIDE DEF c
    <3>3. pxFd[f].coming \o c = c BY <2>5, <3>1 DEF PxClear
    <3>4. pxFd'[f].coming = c /\ pxFd'[f].inbox = <<>> BY <1>2, <3>1, <3>2, <3>3 DEF PxClear, PxSockets
    <3>5. \A i \in DOMAIN c : c[i].is \in PxEnders => i = Len(c) BY <2>4, <2>5
    <3> QED BY <2>5, <3>4, <3>5 DEF PxHolds
  <2>7. PxPlain => PxOwnBytes(p, s, pxFd'[s.fd]) /\ s.relayed \subseteq {p}
    BY <2>2, <2>6 DEF PxOwnBytes, PxQuietAt, PxStraight
  <2> QED BY <1>1, <1>2, <2>1, <2>2, <2>3, <2>7, PxStraightLocal
<1>5. CASE /\ pxReq' = [pxReq EXCEPT ![p].fd = PxNobody, ![p].is_reused = FALSE, ![p].at = "start"]
           /\ pxFd' = [pxFd EXCEPT ![f] = NoSocket]
  <2>1. pxReq' = [pxReq EXCEPT ![p] = t] BY <1>5
  <2>2. t.fd = PxNobody /\ t.relayed = r.relayed /\ t.interim = r.interim /\ t.reads_on = r.reads_on BY <1>2 DEF PxReqs
  <2> HIDE DEF t
  <2> QED BY <1>1, <1>5, <2>1, <2>2, PxStraightCloses
<1>6. CASE pxReq' = [pxReq EXCEPT ![p] = failed(@)] /\ UNCHANGED pxFd BY <1>1, <1>6, PxStraightFails
<1> HIDE DEF sent
<1>7. \/ pxReq' = [pxReq EXCEPT ![p].at = "read"] /\ UNCHANGED pxFd
      \/ \E response \in PxResponses :
           pxReq' = [pxReq EXCEPT ![p].at = "read"] /\ pxFd' = [pxFd EXCEPT ![f].coming = @ \o sent(response)]
      \/ /\ pxReq' = [pxReq EXCEPT ![p].fd = PxNobody, ![p].is_reused = FALSE, ![p].at = "start"]
         /\ pxFd' = [pxFd EXCEPT ![f] = NoSocket]
      \/ pxReq' = [pxReq EXCEPT ![p] = failed(@)] /\ UNCHANGED pxFd BY Zenon DEF PxWritten, sent
<1> HIDE DEF s, t
<1> QED BY <1>3, <1>4, <1>5, <1>6, <1>7

\* A piece is taken: what is left is still of p, and nothing after the last one.
LEMMA PxTakes ==
  ASSUME NEW p \in PxRequests, NEW s \in PxSockets, PxHolds(p, s), s.inbox # <<>>
  PROVE  LET t == [s EXCEPT !.inbox = Tail(s.inbox)]
         IN  /\ PxHolds(p, t) /\ Head(s.inbox).of = p /\ Head(s.inbox) \in PxPieces
             /\ Head(s.inbox).is \in PxEnders => PxClear(t)
<1> DEFINE n == Len(s.inbox)
           x == Tail(s.inbox)
           t == [s EXCEPT !.inbox = x]
<1>1. s.inbox \in Seq(PxPieces) /\ s.coming \in Seq(PxPieces) BY DEF PxSockets
<1>2. /\ n \in Nat /\ n > 0 /\ DOMAIN s.inbox = 1 .. n /\ Head(s.inbox) = s.inbox[1] /\ 1 \in DOMAIN s.inbox
      /\ x \in Seq(PxPieces) /\ Len(x) = n - 1 /\ DOMAIN x = 1 .. (n - 1) /\ \A i \in 1 .. (n - 1) : x[i] = s.inbox[i + 1]
  BY <1>1, HeadTailProperties, EmptySeq
<1>3. \A i \in 1 .. (n - 1) : i + 1 \in 1 .. n BY <1>2
<1> HIDE DEF x
<1>4. t.inbox = x /\ t.coming = s.coming BY DEF PxSockets
<1>5. Head(s.inbox).of = p /\ (Head(s.inbox).is \in PxEnders => 1 = n /\ s.coming = <<>>) BY <1>2 DEF PxHolds
<1>6. Head(s.inbox).is \in PxEnders => PxClear(t) BY <1>2, <1>4, <1>5, EmptySeq DEF PxClear
<1>7. ASSUME NEW i \in DOMAIN x
      PROVE  x[i].of = p /\ (x[i].is \in PxEnders => i = Len(x) /\ s.coming = <<>>)
  <2>1. i + 1 \in DOMAIN s.inbox /\ x[i] = s.inbox[i + 1] BY <1>2, <1>3
  <2>2. s.inbox[i + 1].of = p /\ (s.inbox[i + 1].is \in PxEnders => i + 1 = n /\ s.coming = <<>>) BY <2>1 DEF PxHolds
  <2> QED BY <1>2, <2>1, <2>2
<1>8. PxHolds(p, t) BY <1>4, <1>7 DEF PxHolds
<1>9. Head(s.inbox) \in PxPieces BY <1>1, <1>2
<1> QED BY <1>5, <1>6, <1>8, <1>9 DEF x

LEMMA PxStraightReads == ASSUME PxInv, PxStraight, NEW p \in PxRequests, read_loop(p) PROVE PxStraight'
<1> DEFINE r == pxReq[p]
           f == r.fd
           piece == Head(pxFd[f].inbox)
           next(keep) == process_cleartext(r, piece, keep)
<1>1. r.at = "read" /\ UNCHANGED <<pxPool, pxTls>> BY PxReads
<1>2. r \in PxReqs /\ PxTold(r) /\ PxUses(r) /\ f \in PxFds /\ pxFd \in [PxFds -> PxSockets]
  BY <1>1, PxMyself DEF PxConnectedAt
<1>3. PxPlain => PxHolds(p, pxFd[f]) /\ r.relayed \subseteq {p} BY <1>2 DEF PxStraight, PxOwnBytes
<1>4. ASSUME NEW keep \in BOOLEAN, pxFd[f].inbox # <<>>, pxReq' = [pxReq EXCEPT ![p] = next(keep)],
             pxFd' = [pxFd EXCEPT ![f].inbox = Tail(@)]
      PROVE  PxStraight'
  <2> DEFINE n == next(keep)
             t == [pxFd[f] EXCEPT !.inbox = Tail(pxFd[f].inbox)]
  <2>1. piece \in PxPieces
    <3>1. pxFd[f].inbox \in Seq(PxPieces) BY <1>2 DEF PxSockets
    <3> QED BY <1>4, <3>1, HeadTailProperties
  <2>2. pxFd'[f] = t /\ \A g \in PxFds : g # f => pxFd'[g] = pxFd[g] BY <1>2, <1>4
  <2>3. PxPlain => PxHolds(p, t) /\ piece.of = p /\ (piece.is \in PxEnders => PxClear(t)) BY <1>2, <1>3, <1>4, PxTakes
  <2> HIDE DEF piece, t
  <2>4. PxGoesOn(r, n, piece) BY <1>1, <1>2, <2>1, PxProcesses
  <2> HIDE DEF n, next
  <2>5. n.fd = f /\ (r.interim => n.interim) /\ (n.reads_on => r.reads_on \/ pxTls) /\ n.relayed \subseteq r.relayed \cup {piece.of}
        /\ n.at \in {"read", "drop", "release"} /\ (n.at = "release" => piece.is \in PxEnders \/ n.interim)
    BY <2>4 DEF PxGoesOn, PxKeeps
  <2>6. \A g \in PxFds : PxFollows(pxFd[g], pxFd'[g]) \/ g = f BY <2>2, PxEmptied
  <2>7. PxPlain /\ ~n.interim => PxOwnBytes(p, n, pxFd'[n.fd]) /\ n.relayed \subseteq {p}
    BY <1>3, <2>2, <2>3, <2>5 DEF PxOwnBytes, PxQuietAt
  <2>8. pxReq' = [pxReq EXCEPT ![p] = n] BY <1>4 DEF n
  <2> QED BY <1>1, <1>2, <2>5, <2>6, <2>7, <2>8, PxStraightLocal
<1>5. CASE pxReq' = [pxReq EXCEPT ![p] = PxEof(r)] /\ UNCHANGED pxFd
  <2> DEFINE n == PxEof(r)
  <2>1. /\ n.fd = f /\ (r.interim => n.interim) /\ (n.reads_on => r.reads_on \/ pxTls)
        /\ n.relayed \subseteq r.relayed \cup {p} /\ n.at \in {"tunnel", "drop"} BY <1>1, <1>2, PxEnds DEF PxKeeps
  <2>2. pxReq' = [pxReq EXCEPT ![p] = n] BY <1>5
  <2> HIDE DEF n
  <2>3. \A g \in PxFds : PxFollows(pxFd[g], pxFd'[g]) BY <1>5, PxEmptied
  <2>4. PxPlain => PxOwnBytes(p, n, pxFd'[n.fd]) /\ n.relayed \subseteq {p}
    BY <1>3, <1>5, <2>1 DEF PxOwnBytes, PxQuietAt
  <2> QED BY <1>1, <2>1, <2>2, <2>3, <2>4, PxStraightLocal
<1> QED BY <1>4, <1>5, PxReads

LEMMA PxStraightFlush == ASSUME PxInv, PxStraight, NEW p \in PxRequests, flush_tls_writes(p) PROVE PxStraight'
<1> DEFINE r == pxReq[p]
           n == failed_open(r)
<1>1. pxTls /\ r.at = "read" /\ UNCHANGED <<pxPool, pxFd, pxTls>> /\ pxReq' = [pxReq EXCEPT ![p] = n]
  BY DEF flush_tls_writes, PxAt
<1>2. r \in PxReqs /\ PxUses(r) BY <1>1, PxMyself DEF PxConnectedAt
<1>3. n.fd = r.fd /\ (r.interim => n.interim) /\ n.relayed \subseteq r.relayed \cup {p} /\ n.at = "read"
  BY <1>1, <1>2, PxFailedOpen DEF PxKeeps
<1> HIDE DEF n
<1>4. \A g \in PxFds : PxFollows(pxFd[g], pxFd'[g]) BY <1>1, PxEmptied
<1>5. PxPlain => PxOwnBytes(p, n, pxFd'[n.fd]) /\ n.relayed \subseteq {p}
  BY <1>1, <1>2, <1>3 DEF PxOwnBytes, PxQuietAt, PxStraight
<1> QED BY <1>1, <1>3, <1>4, <1>5, PxStraightLocal

LEMMA PxStraightAcquire == ASSUME PxInv, PxStraight, NEW p \in PxRequests, acquire(p) PROVE PxStraight'
<1> DEFINE r == pxReq[p]
           k == Len(pxPool)
           f == Last(pxPool)
           s == [r EXCEPT !.fd = f, !.is_reused = TRUE, !.at = "send"]
<1>1. r.at = "start" /\ pxPool # <<>> /\ pxPool' = Front(pxPool) /\ pxTls' = pxTls BY DEF acquire, PxAt
<1>2. r \in PxReqs /\ PxShape(r) /\ pxReq \in [PxRequests -> PxReqs] /\ pxFd \in [PxFds -> PxSockets] /\ pxPool \in Seq(PxFds)
  BY PxMyself
<1>3. f \in PxFds /\ \A i \in DOMAIN pxPool' : \E j \in DOMAIN pxPool : pxPool'[i] = pxPool[j]
  <2>1. k \in Nat /\ k > 0 /\ DOMAIN pxPool = 1 .. k /\ \A i \in 1 .. k : pxPool[i] \in PxFds BY <1>1, <1>2, EmptySeq
  <2>2. f = pxPool[k] /\ pxPool' = [i \in 1 .. (k - 1) |-> pxPool[i]]
    <3>1. pxPool' = SubSeq(pxPool, 1, k - 1) BY <1>1 DEF Front
    <3> QED BY <1>2, <2>1, <3>1 DEF Last
  <2> HIDE DEF f
  <2>3. f \in PxFds /\ DOMAIN pxPool' = 1 .. (k - 1) /\ \A i \in 1 .. (k - 1) : i \in 1 .. k /\ pxPool'[i] = pxPool[i]
    BY <2>1, <2>2
  <2> QED BY <2>1, <2>3
<1>4. PxPlain => PxClear(pxFd[f])
  <2>1. k \in DOMAIN pxPool /\ f = pxPool[k] BY <1>1, <1>2, EmptySeq DEF Last
  <2> QED BY <2>1 DEF PxStraight
<1> HIDE DEF f
<1>5. CASE pxFd' = [pxFd EXCEPT ![f] = NoSocket] /\ UNCHANGED pxReq
  <2>1. \A g \in PxFds : pxFd'[g] = pxFd[g] \/ pxFd'[g] = NoSocket BY <1>2, <1>3, <1>5
  <2>2. \A g \in PxFds : PxFollows(pxFd[g], pxFd'[g]) BY <2>1, PxEmptied
  <2> QED BY <1>1, <1>3, <1>5, <2>2, PxStraightNobody
<1>6. CASE pxReq' = [pxReq EXCEPT ![p] = s] /\ UNCHANGED pxFd
  <2>1. s.fd = f /\ s.relayed = r.relayed /\ s.interim = r.interim /\ s.reads_on = r.reads_on BY <1>2 DEF PxReqs
  <2> HIDE DEF s
  <2>2. pxReq'[p] = s /\ \A q \in PxRequests : q # p => pxReq'[q] = pxReq[q] BY <1>2, <1>6
  <2>3. \A q \in PxRequests \ {p} : PxSame(pxReq[q], pxReq'[q]) BY <2>2 DEF PxSame
  <2>4. \A g \in PxFds : PxFollows(pxFd[g], pxFd'[g]) BY <1>6, PxEmptied
  <2>5. PxPlain => PxOwnBytes(p, s, pxFd'[s.fd]) /\ s.relayed \subseteq {p}
    <3>1. PxPlain => PxClear(pxFd'[s.fd]) /\ PxHolds(p, pxFd'[s.fd]) BY <1>4, <1>6, <2>1, PxClearHolds
    <3> QED BY <2>1, <3>1 DEF PxOwnBytes, PxStraight
  <2> QED BY <1>1, <1>3, <2>1, <2>2, <2>3, <2>4, <2>5, PxStraightOne
<1> QED
  <2>1. pxReq' = [pxReq EXCEPT ![p].fd = f, ![p].is_reused = TRUE, ![p].at = "send"] => pxReq' = [pxReq EXCEPT ![p] = s]
    BY <1>2
  <2> QED BY <1>5, <1>6, <2>1 DEF acquire, f

LEMMA PxStraightCleanup == ASSUME PxInv, PxStraight, cleanup_stale_connections PROVE PxStraight'
<1> DEFINE k == Len(pxPool)
<1>1. pxPool \in Seq(PxFds) /\ k \in Nat /\ DOMAIN pxPool = 1 .. k BY DEF PxInv, PxTyped
<1>2. UNCHANGED <<pxReq, pxTls>> BY DEF cleanup_stale_connections
<1>3. PICK n \in 1 .. k :
        /\ pxPool' = SubSeq(pxPool, n + 1, k)
        /\ pxFd' = [f \in PxFds |-> IF f \in {pxPool[i] : i \in 1..n} THEN NoSocket ELSE pxFd[f]]
  BY DEF cleanup_stale_connections
<1>4. n \in Nat /\ k - n \in Nat /\ \A i \in 1 .. (k - n) : i + n \in 1 .. k BY <1>1, <1>3
<1>5. DOMAIN pxPool' = 1 .. (k - n) /\ \A i \in 1 .. (k - n) : pxPool'[i] = pxPool[i + n]
  <2>1. n + 1 \in 1 .. (k + 1) /\ k \in (n + 1) - 1 .. k BY <1>1, <1>3
  <2>2. pxPool' = [i \in 1 .. (k - n) |-> pxPool[i + n]] BY <1>1, <1>3, <1>4, <2>1
  <2> QED BY <2>2
<1>6. \A i \in DOMAIN pxPool' : \E j \in DOMAIN pxPool : pxPool'[i] = pxPool[j] BY <1>1, <1>4, <1>5
<1>7. \A f \in PxFds : pxFd'[f] = pxFd[f] \/ pxFd'[f] = NoSocket BY <1>3
<1>8. \A f \in PxFds : PxFollows(pxFd[f], pxFd'[f]) BY <1>7, PxEmptied
<1> QED BY <1>2, <1>6, <1>8, PxStraightNobody

LEMMA PxStraightResolve == ASSUME PxInv, PxStraight, NEW p \in PxRequests, PxResolve(p) PROVE PxStraight'
<1> DEFINE r == pxReq[p]
           socket == [NoSocket EXCEPT !.open = TRUE, !.peer = "open"]
<1>1. r.at = "start" /\ UNCHANGED <<pxPool, pxTls>> BY DEF PxResolve, PxAt
<1>2. r \in PxReqs /\ pxFd \in [PxFds -> PxSockets] BY PxMyself
<1>3. CASE pxReq' = [pxReq EXCEPT ![p] = failed(@)] /\ UNCHANGED pxFd BY <1>1, <1>3, PxStraightFails
<1>4. ASSUME NEW f \in PxFds, pxFd' = [pxFd EXCEPT ![f] = socket],
             pxReq' = [pxReq EXCEPT ![p].fd = f, ![p].at = "connect"]
      PROVE  PxStraight'
  <2> DEFINE s == [r EXCEPT !.fd = f, !.at = "connect"]
  <2>1. pxReq' = [pxReq EXCEPT ![p] = s] BY <1>4
  <2>2. s.fd = f /\ s.relayed = r.relayed /\ s.interim = r.interim /\ s.reads_on = r.reads_on BY <1>2 DEF PxReqs
  <2> HIDE DEF s
  <2>3. PxClear(socket) BY DEF PxClear, NoSocket
  <2>4. \A q \in PxRequests : PxHolds(q, socket) BY <2>3, PxClearHolds
  <2>5. pxFd'[f] = socket /\ \A g \in PxFds : g # f => pxFd'[g] = pxFd[g] BY <1>2, <1>4
  <2> HIDE DEF socket
  <2>6. \A g \in PxFds : PxFollows(pxFd[g], pxFd'[g])
    <3>1. PxFollows(pxFd[f], pxFd'[f]) BY <2>3, <2>4, <2>5 DEF PxFollows
    <3> QED BY <2>5, <3>1, PxEmptied
  <2>7. PxPlain => PxOwnBytes(p, s, pxFd'[s.fd]) /\ s.relayed \subseteq {p}
    BY <2>2, <2>3, <2>4, <2>5 DEF PxOwnBytes, PxStraight
  <2> QED BY <1>1, <2>1, <2>2, <2>6, <2>7, PxStraightLocal
<1> QED BY <1>3, <1>4 DEF PxResolve

LEMMA PxStraightReleases == ASSUME PxInv, PxStraight, NEW p \in PxRequests, release(p) \/ PxForget(p) PROVE PxStraight'
<1> DEFINE r == pxReq[p]
<1>1. pxReq \in [PxRequests -> PxReqs] /\ r \in PxReqs /\ pxPool \in Seq(PxFds) /\ pxTls' = pxTls /\ pxFd' = pxFd
  BY PxMyself DEF release, PxForget
<1>2. \A f \in PxFds : PxFollows(pxFd[f], pxFd'[f]) BY <1>1, PxEmptied
<1>3. ASSUME NEW s, s.relayed = r.relayed, ~PxUses(s)
      PROVE  PxPlain => PxOwnBytes(p, s, pxFd'[s.fd]) /\ s.relayed \subseteq {p} BY <1>3 DEF PxOwnBytes, PxStraight
<1>4. CASE release(p)
  <2> DEFINE s == [r EXCEPT !.at = "forget"]
             k == Len(pxPool)
  <2>1. r.at = "release" /\ pxPool' = Append(pxPool, r.fd) /\ pxReq' = [pxReq EXCEPT ![p] = s] BY <1>4 DEF release, PxAt
  <2>2. s.relayed = r.relayed /\ s.interim = r.interim /\ s.reads_on = r.reads_on /\ ~PxUses(s) BY <1>1 DEF PxReqs, PxUses
  <2> HIDE DEF s
  <2>3. pxReq'[p] = s /\ \A q \in PxRequests : q # p => pxReq'[q] = pxReq[q] BY <1>1, <2>1
  <2>4. \A q \in PxRequests \ {p} : PxSame(pxReq[q], pxReq'[q]) BY <2>3 DEF PxSame
  <2>5. PxUses(r) /\ r.fd \in PxFds BY <2>1, PxMyself DEF PxConnectedAt
  <2>6. PxPlain => PxClear(pxFd'[r.fd]) BY <1>1, <2>1, <2>5 DEF PxStraight, PxOwnBytes, PxQuietAt
  <2>7. \A i \in DOMAIN pxPool' : pxPool'[i] = r.fd \/ \E j \in DOMAIN pxPool : pxPool'[i] = pxPool[j]
    <3>1. /\ k \in Nat /\ DOMAIN pxPool = 1 .. k /\ DOMAIN pxPool' = 1 .. (k + 1)
          /\ pxPool'[k + 1] = r.fd /\ \A i \in 1 .. k : pxPool'[i] = pxPool[i] BY <1>1, <2>1, <2>5, AppendProperties
    <3>2. \A i \in 1 .. (k + 1) : i = k + 1 \/ i \in 1 .. k BY <3>1
    <3> QED BY <3>1, <3>2
  <2>8. PxPlain => PxOwnBytes(p, s, pxFd'[s.fd]) /\ s.relayed \subseteq {p} BY <1>3, <2>2
  <2> QED BY <1>1, <1>2, <2>2, <2>3, <2>4, <2>6, <2>7, <2>8, PxStraightOne
<1>5. CASE PxForget(p)
  <2> DEFINE s == [r EXCEPT !.fd = PxNobody, !.at = "drop"]
             o(q) == pxReq[q].deaf \/ pxWait[r.fd] = q
             t(q) == [pxReq[q] EXCEPT !.deaf = o(q)]
  <2>1. pxPool' = pxPool /\ \A q \in PxRequests : pxReq'[q] = IF q = p THEN s ELSE t(q) BY <1>5 DEF PxForget
  <2>2. s.relayed = r.relayed /\ s.interim = r.interim /\ s.reads_on = r.reads_on /\ ~PxUses(s) BY <1>1 DEF PxReqs, PxUses
  <2>3. \A q \in PxRequests : PxSame(pxReq[q], t(q))
    <3> HIDE DEF o
    <3> QED BY <1>1 DEF PxReqs, PxSame
  <2> HIDE DEF s, t
  <2>4. pxReq'[p] = s /\ \A q \in PxRequests \ {p} : PxSame(pxReq[q], pxReq'[q]) BY <2>1, <2>3
  <2>5. PxPlain => PxOwnBytes(p, s, pxFd'[s.fd]) /\ s.relayed \subseteq {p} BY <1>3, <2>2
  <2> QED BY <1>1, <1>2, <2>1, <2>2, <2>4, <2>5, PxStraightOne
<1> QED BY <1>4, <1>5

\* What is on its way stays behind what came before it.
LEMMA PxStraightTraffic == ASSUME PxInv, PxStraight, PxPeerCloses \/ PxArrives PROVE PxStraight'
<1>0. pxFd \in [PxFds -> PxSockets] /\ UNCHANGED <<pxReq, pxPool, pxTls>> BY DEF PxInv, PxTyped, PxPeerCloses, PxArrives
<1>1. ASSUME NEW f \in PxFds, NEW t, PxFollows(pxFd[f], t), pxFd' = [pxFd EXCEPT ![f] = t] PROVE PxStraight'
  <2>1. \A g \in PxFds : pxFd'[g] = pxFd[g] \/ (g = f /\ pxFd'[g] = t) BY <1>0, <1>1
  <2>2. \A g \in PxFds : PxFollows(pxFd[g], pxFd'[g]) BY <1>1, <2>1, PxEmptied
  <2>3. \A i \in DOMAIN pxPool' : \E j \in DOMAIN pxPool : pxPool'[i] = pxPool[j] BY <1>0
  <2> QED BY <1>0, <2>2, <2>3, PxStraightNobody
<1>2. CASE PxPeerCloses
  <2>1. PICK f \in PxFds : pxFd' = [pxFd EXCEPT ![f].peer = "closed", ![f].coming = <<>>] BY <1>2 DEF PxPeerCloses
  <2> DEFINE t == [pxFd[f] EXCEPT !.peer = "closed", !.coming = <<>>]
  <2>2. pxFd' = [pxFd EXCEPT ![f] = t] BY <2>1
  <2>3. t.inbox = pxFd[f].inbox /\ t.coming = <<>> BY <1>0 DEF PxSockets
  <2> HIDE DEF t
  <2>4. PxFollows(pxFd[f], t) BY <2>3 DEF PxFollows, PxClear, PxHolds
  <2> QED BY <1>1, <2>2, <2>4
<1>3. CASE PxArrives
  <2>1. PICK f \in PxFds : /\ pxFd[f].coming # <<>>
                           /\ pxFd' = [pxFd EXCEPT ![f].inbox = Append(@, Head(pxFd[f].coming)), ![f].coming = Tail(@)]
    BY <1>3 DEF PxArrives
  <2> DEFINE a == pxFd[f].inbox
             c == pxFd[f].coming
             n == Len(a)
             m == Len(c)
             x == Append(a, Head(c))
             y == Tail(c)
             t == [pxFd[f] EXCEPT !.inbox = x, !.coming = y]
  <2>2. pxFd' = [pxFd EXCEPT ![f] = t] BY <2>1
  <2>3. t.inbox = x /\ t.coming = y /\ a \in Seq(PxPieces) /\ c \in Seq(PxPieces) BY <1>0 DEF PxSockets
  <2>4. /\ m \in Nat /\ m > 0 /\ DOMAIN c = 1 .. m /\ Head(c) = c[1] /\ 1 \in 1 .. m
        /\ Len(y) = m - 1 /\ DOMAIN y = 1 .. (m - 1) /\ (m = 1 => y = <<>>) /\ \A i \in 1 .. (m - 1) : y[i] = c[i + 1]
    <3>1. /\ m \in Nat /\ m > 0 /\ DOMAIN c = 1 .. m /\ Head(c) = c[1] /\ y \in Seq(PxPieces) /\ Len(y) = m - 1
          /\ DOMAIN y = 1 .. (m - 1) /\ \A i \in 1 .. (m - 1) : y[i] = c[i + 1]
      BY <2>1, <2>3, HeadTailProperties, EmptySeq
    <3> HIDE DEF c, y
    <3>2. m = 1 => y = <<>> BY <3>1, EmptySeq
    <3> QED BY <3>1, <3>2
  <2>5. n \in Nat /\ DOMAIN a = 1 .. n /\ Len(x) = n + 1 /\ DOMAIN x = 1 .. (n + 1) /\ x[n + 1] = c[1] /\ \A i \in 1 .. n : x[i] = a[i]
    BY <2>3, <2>4, AppendProperties
  <2>6. c # <<>> BY <2>1
  <2> HIDE DEF t, x, y
  <2>7. ASSUME NEW p \in PxRequests, PxHolds(p, pxFd[f]) PROVE PxHolds(p, t)
    <3>1. ASSUME NEW i \in 1 .. n PROVE a[i].of = p /\ a[i].is \notin PxEnders BY <2>5, <2>6, <2>7 DEF PxHolds
    <3>2. ASSUME NEW i \in 1 .. m PROVE c[i].of = p /\ (c[i].is \in PxEnders => i = m) BY <2>4, <2>7 DEF PxHolds
    <3> HIDE DEF a, c, n, m
    <3>3. ASSUME NEW i \in 1 .. (n + 1)
          PROVE  x[i].of = p /\ (x[i].is \in PxEnders => i = n + 1 /\ y = <<>>)
      <4>1. CASE i \in 1 .. n BY <2>5, <3>1, <4>1
      <4>2. CASE i = n + 1 BY <2>4, <2>5, <3>2, <4>2
      <4>3. i \in 1 .. n \/ i = n + 1 BY <2>5
      <4> QED BY <4>1, <4>2, <4>3
    <3>4. ASSUME NEW i \in 1 .. (m - 1) PROVE y[i].of = p /\ (y[i].is \in PxEnders => i = m - 1)
      <4>1. i + 1 \in 1 .. m /\ y[i] = c[i + 1] /\ i \in Nat BY <2>4
      <4>2. c[i + 1].of = p /\ (c[i + 1].is \in PxEnders => i + 1 = m) BY <3>2, <4>1
      <4> QED BY <2>4, <4>1, <4>2
    <3> QED BY <2>3, <2>4, <2>5, <3>3, <3>4 DEF PxHolds
  <2>8. PxFollows(pxFd[f], t) BY <2>6, <2>7 DEF PxFollows, PxClear
  <2> QED BY <1>1, <2>2, <2>8
<1> QED BY <1>2, <1>3

\* The two invariants together.
PxAll == PxInv /\ PxStraight

LEMMA PxAllStarted == PxInit => PxAll
<1> SUFFICES ASSUME PxInit PROVE PxStraight BY PxStarted DEF PxAll
<1>1. \A p \in PxRequests : pxReq[p] = NoProxyRequest BY DEF PxInit
<1>2. pxPool = <<>> BY DEF PxInit
<1> QED BY <1>1, <1>2 DEF PxStraight, PxPlain, PxOwnBytes, PxUses, NoProxyRequest

LEMMA PxAllStep == PxAll /\ [PxNext]_pxVars => PxAll'
<1> SUFFICES ASSUME PxInv, PxStraight, [PxNext]_pxVars PROVE PxStraight' BY PxStep DEF PxAll
<1>1. ASSUME NEW p \in PxRequests, PxBegin(p) \/ PxConnected(p) \/ do_handshake(p) \/ send_request(p) PROVE PxStraight'
  BY <1>1, PxStraightEarly
<1>2. ASSUME NEW p \in PxRequests, acquire(p) PROVE PxStraight' BY <1>2, PxStraightAcquire
<1>3. ASSUME NEW p \in PxRequests, PxResolve(p) PROVE PxStraight' BY <1>3, PxStraightResolve
<1>4. ASSUME NEW p \in PxRequests, PxWritten(p) PROVE PxStraight' BY <1>4, PxStraightWritten
<1>5. ASSUME NEW p \in PxRequests, read_loop(p) PROVE PxStraight' BY <1>5, PxStraightReads
<1>6. ASSUME NEW p \in PxRequests, flush_tls_writes(p) PROVE PxStraight' BY <1>6, PxStraightFlush
<1>7. ASSUME NEW p \in PxRequests, start_websocket_passthrough(p) \/ PxDrop(p) PROVE PxStraight' BY <1>7, PxStraightEnds
<1>8. ASSUME NEW p \in PxRequests, release(p) \/ PxForget(p) PROVE PxStraight' BY <1>8, PxStraightReleases
<1>9. CASE cleanup_stale_connections BY <1>9, PxStraightCleanup
<1>10. CASE PxPeerCloses \/ PxArrives BY <1>10, PxStraightTraffic
<1>11. CASE UNCHANGED pxVars
  <2>1. UNCHANGED <<pxReq, pxPool, pxFd, pxTls>> BY <1>11 DEF pxVars
  <2> QED BY <2>1 DEF PxStraight, PxPlain, PxOwnBytes, PxUses
<1> QED BY <1>1, <1>2, <1>3, <1>4, <1>5, <1>6, <1>7, <1>8, <1>9, <1>10, <1>11 DEF PxNext

LEMMA PxAnswersOwn == PxAll => ProxyAnswersOwn
<1> SUFFICES ASSUME PxInv, PxStraight PROVE ProxyAnswersOwn BY DEF PxAll
<1>1. ASSUME NEW p \in PxRequests PROVE pxReq[p].reads_on => pxTls BY DEF PxStraight
<1>2. PxPlain => \A p \in PxRequests : pxReq[p].relayed \subseteq {p} BY DEF PxStraight
<1> QED BY <1>1, <1>2, PxAnswersSo DEF ProxyAnswersOwn, PxPlain

\* The client and the proxy together.

\* Every request of the client gets its one callback (Client::finish).
THEOREM ClientCallsBackOnce == ClSpec => []ClientAnswersOnce
<1> QED BY ClStarted, ClStep, ClHolds, PTL DEF ClSpec

\* No two proxied requests use one upstream connection (ConnectionPool::acquire,
\* release).
THEOREM UpstreamHasOneUser == PxSpec => []UpstreamExclusive
<1> QED BY PxStarted, PxStep, PxIsExclusive, PTL DEF PxSpec

\* What a proxied request's client gets is one response, made of the answer to
\* that request, up to what an upstream adds after an informational answer and
\* what is read on over TLS after a failure (ProxyRequest::complete, fail,
\* process_tls_read).
THEOREM ProxiedOnce == PxSpec => []ProxyAnswersOwn
<1> QED BY PxAllStarted, PxAllStep, PxAnswersOwn, PTL DEF PxSpec

\* What a server asks other servers is answered once, by its own answer, on a
\* connection nobody else uses (Client::finish, Proxy).
THEOREM UpstreamsAreSound == ClSpec /\ PxSpec => []UpstreamsSound
<1>1. ClientAnswersOnce /\ UpstreamExclusive /\ ProxyAnswersOwn => UpstreamsSound BY DEF UpstreamsSound
<1> QED BY <1>1, ClientCallsBackOnce, UpstreamHasOneUser, ProxiedOnce, PTL
----
\* Logins and forms of a browser (OAuth2, Csrf): whatever a browser holds of a
\* flow was begun in it, and a csrf token is in one browser only.

BfValues == BfTokens \cup {BfNone}
BfAsked == {Idle} \cup [kind : {"login"}, flow : BfTokens] \cup [kind : {"page"}, token : BfTokens, first : BOOLEAN]
             \cup [kind : {"exchange", "refused"}, flow : BfValues, code : BfValues, verifier : BfValues]
BfTyped ==
  /\ bfJar \in [BfBrowsers -> [state : BfValues, verifier : BfValues, csrf : BfValues]]
  /\ bfReq \in [Tabs -> BfAsked] /\ bfUsed \subseteq BfTokens /\ bfLinks \subseteq [state : BfTokens, code : BfTokens]
  /\ bfPages \subseteq [browser : BfBrowsers, token : BfTokens, first : BOOLEAN]

\* Flows: a login begun in the browser, its cookie, and the callback it opened.
BfBegan(f, b) == [flow |-> f, browser |-> b] \in bfFlows
BfOpened(t, r) ==
  /\ r.kind = "login" => BfBegan(r.flow, t[1])
  /\ r.kind = "exchange" => BfBegan(r.flow, t[1]) /\ r.code = r.flow
BfTaken(l) == l.code \in bfRedeemed /\ l.code = l.flow /\ BfBegan(l.flow, l.browser)
BfLogged ==
  /\ \A b \in BfBrowsers : bfJar[b].state # BfNone => BfBegan(bfJar[b].state, b)
  /\ \A t \in Tabs : BfOpened(t, bfReq[t])
  /\ \A link \in bfLinks : link.state = link.code
  /\ \A l \in bfLogins : BfTaken(l)
  /\ \A l, k \in bfLogins : l.flow = k.flow => l = k

\* Forms: where browser b has the csrf token x.
BfHas(b, x) == \/ bfJar[b].csrf = x
               \/ \E t \in Tabs : t[1] = b /\ bfReq[t].kind = "page" /\ bfReq[t].token = x
               \/ \E p \in bfPages : p.browser = b /\ p.token = x
BfPaged ==
  /\ \A b, c \in BfBrowsers, x \in BfTokens : BfHas(b, x) /\ BfHas(c, x) => b = c
  /\ \A b \in BfBrowsers, x \in BfTokens : BfHas(b, x) => x \in bfUsed
  /\ \A b \in BfBrowsers : bfJar[b].csrf # BfNone => \E p \in bfPages : p.browser = b /\ p.first /\ p.token = bfJar[b].csrf
  /\ \A p \in bfPages : bfJar[p.browser].csrf # BfNone
  /\ \A t \in Tabs : bfReq[t].kind = "page" /\ ~bfReq[t].first => bfJar[t[1]].csrf # BfNone

\* The last answer to a form.
BfChecked ==
  bfPassed # NoCheck =>
    /\ bfPassed.ok => bfPassed.page.browser = bfPassed.browser
    /\ bfPassed.page.browser = bfPassed.browser /\ ~bfPassed.ok =>
         \E p \in bfPages : p.browser = bfPassed.browser /\ p.first /\ p.token # bfPassed.page.token

BfInv == BfTyped /\ BfLogged /\ BfPaged /\ BfChecked

LEMMA BfStarted == BfInit => BfInv
<1> SUFFICES ASSUME BfInit PROVE BfInv OBVIOUS
<1>1. /\ \A b \in BfBrowsers : bfJar[b] = EmptyJar
      /\ \A t \in Tabs : bfReq[t] = Idle /\ bfReq[t].kind = "idle"
      /\ bfLinks = {} /\ bfRedeemed = {} /\ bfFlows = {} /\ bfLogins = {} /\ bfPages = {} /\ bfUsed = {} /\ bfPassed = NoCheck
  BY DEF BfInit, Idle
<1>2. EmptyJar.state = BfNone /\ EmptyJar.csrf = BfNone /\ EmptyJar \in [state : BfValues, verifier : BfValues, csrf : BfValues]
  BY DEF EmptyJar, BfValues
<1>3. BfTyped BY <1>1, <1>2 DEF BfTyped, BfInit, BfAsked
<1>4. BfLogged BY <1>1, <1>2 DEF BfLogged, BfOpened
<1>5. \A b \in BfBrowsers, x \in BfTokens : ~BfHas(b, x) BY <1>1, <1>2, BfAssumption DEF BfHas, BfAssumption
<1>6. BfPaged BY <1>1, <1>2, <1>5 DEF BfPaged
<1> QED BY <1>1, <1>3, <1>4, <1>6 DEF BfInv, BfChecked

LEMMA BfHolds == BfInv => BfTypeOK /\ FlowsOwned
BY DEF BfInv, BfTyped, BfLogged, BfTaken, BfBegan, BfChecked, BfTypeOK, FlowsOwned

LEMMA BfFresh == ASSUME BfInv, Spare PROVE Fresh \in BfTokens \ bfUsed BY DEF BfInv, BfTyped, Spare, Fresh

LEMMA BfTab == ASSUME NEW t \in Tabs PROVE t[1] \in BfBrowsers BY BfAssumption DEF BfAssumption

LEMMA BfFormsStay ==
  ASSUME BfInv, \A b \in BfBrowsers : bfJar'[b].csrf = bfJar[b].csrf, bfPages' = bfPages, bfUsed \subseteq bfUsed',
         \A t \in Tabs : bfReq'[t].kind = "page" => bfReq'[t] = bfReq[t]
  PROVE  BfPaged'
<1>1. \A b \in BfBrowsers, x \in BfTokens : BfHas(b, x)' => BfHas(b, x) BY DEF BfHas
<1>2. \A t \in Tabs : t[1] \in BfBrowsers BY BfTab
<1>3. \A p \in bfPages : p.browser \in BfBrowsers BY DEF BfInv, BfTyped
<1> QED BY <1>1, <1>2, <1>3 DEF BfInv, BfPaged

LEMMA BfLoginsStay ==
  ASSUME BfInv, UNCHANGED <<bfLinks, bfRedeemed, bfFlows, bfLogins>>,
         \A b \in BfBrowsers : bfJar'[b].state \in {bfJar[b].state, BfNone},
         \A t \in Tabs : bfReq'[t] = bfReq[t] \/ bfReq'[t].kind \notin {"login", "exchange"}
  PROVE  BfLogged' BY DEF BfInv, BfLogged, BfOpened, BfTaken, BfBegan

\* A tab goes from one state to another, and its browser's cookies change.
LEMMA BfTypes ==
  ASSUME BfInv, NEW t \in Tabs, NEW r \in BfAsked, NEW jar \in [state : BfValues, verifier : BfValues, csrf : BfValues],
         bfReq' = [bfReq EXCEPT ![t] = r], bfJar' = [bfJar EXCEPT ![t[1]] = jar]
  PROVE  /\ bfReq' \in [Tabs -> BfAsked]
         /\ bfJar' \in [BfBrowsers -> [state : BfValues, verifier : BfValues, csrf : BfValues]]
         /\ \A u \in Tabs : bfReq'[u] = IF u = t THEN r ELSE bfReq[u]
         /\ \A b \in BfBrowsers : bfJar'[b] = IF b = t[1] THEN jar ELSE bfJar[b] BY BfTab DEF BfInv, BfTyped

LEMMA BfMyself ==
  ASSUME BfInv, NEW t \in Tabs
  PROVE  /\ t[1] \in BfBrowsers /\ bfReq[t] \in BfAsked /\ bfJar[t[1]] \in [state : BfValues, verifier : BfValues, csrf : BfValues]
         /\ bfJar = [bfJar EXCEPT ![t[1]] = bfJar[t[1]]] /\ Idle \in BfAsked /\ Idle.kind = "idle"
BY BfTab DEF BfInv, BfTyped, BfAsked, Idle

\* What a tab asks next, and what its browser's cookies become, keep the logins
\* in order when the flows they name were begun here.
LEMMA BfLoginsMove ==
  ASSUME BfInv, NEW t \in Tabs, NEW r, NEW jar,
         \A u \in Tabs : bfReq'[u] = IF u = t THEN r ELSE bfReq[u],
         \A b \in BfBrowsers : bfJar'[b] = IF b = t[1] THEN jar ELSE bfJar[b],
         bfFlows \subseteq bfFlows', UNCHANGED <<bfRedeemed, bfLogins>>, \A link \in bfLinks' : link.state = link.code,
         r.kind = "login" => [flow |-> r.flow, browser |-> t[1]] \in bfFlows',
         r.kind = "exchange" => [flow |-> r.flow, browser |-> t[1]] \in bfFlows' /\ r.code = r.flow,
         jar.state # BfNone => [flow |-> jar.state, browser |-> t[1]] \in bfFlows'
  PROVE  BfLogged'
<1>1. \A b \in BfBrowsers : bfJar'[b].state # BfNone => [flow |-> bfJar'[b].state, browser |-> b] \in bfFlows'
  BY DEF BfInv, BfLogged, BfBegan
<1>2. \A u \in Tabs : /\ bfReq'[u].kind = "login" => [flow |-> bfReq'[u].flow, browser |-> u[1]] \in bfFlows'
                      /\ bfReq'[u].kind = "exchange" => /\ [flow |-> bfReq'[u].flow, browser |-> u[1]] \in bfFlows'
                                                        /\ bfReq'[u].code = bfReq'[u].flow
  BY DEF BfInv, BfLogged, BfOpened, BfBegan
<1>3. /\ \A l \in bfLogins : l.code \in bfRedeemed /\ l.code = l.flow /\ [flow |-> l.flow, browser |-> l.browser] \in bfFlows
      /\ \A l, k \in bfLogins : l.flow = k.flow => l = k BY DEF BfInv, BfLogged, BfTaken, BfBegan
<1> QED BY <1>1, <1>2, <1>3 DEF BfLogged, BfOpened, BfTaken, BfBegan

LEMMA BfLoginKeeps == ASSUME BfInv, NEW t \in Tabs, Login(t) PROVE BfInv'
<1>1. PICK f \in BfTokens \ bfUsed :
        /\ bfReq' = [bfReq EXCEPT ![t] = [kind |-> "login", flow |-> f]]
        /\ bfFlows' = bfFlows \cup {[flow |-> f, browser |-> t[1]]} /\ bfUsed' = bfUsed \cup {f} BY BfFresh DEF Login
<1> DEFINE r == [kind |-> "login", flow |-> f]
           jar == bfJar[t[1]]
<1>2. UNCHANGED <<bfPkce, bfJar, bfLinks, bfRedeemed, bfLogins, bfPages>> /\ bfPassed' = NoCheck BY DEF Login
<1>3. r \in BfAsked /\ r.kind = "login" /\ r.flow = f BY DEF BfAsked
<1>m. jar \in [state : BfValues, verifier : BfValues, csrf : BfValues] /\ bfJar' = [bfJar EXCEPT ![t[1]] = jar]
  BY <1>2, BfMyself
<1>r. bfReq' = [bfReq EXCEPT ![t] = r] BY <1>1
<1>s. jar.state # BfNone => [flow |-> jar.state, browser |-> t[1]] \in bfFlows BY BfTab DEF BfInv, BfLogged, BfBegan
<1> HIDE DEF r, jar
<1>4. /\ bfReq' \in [Tabs -> BfAsked] /\ bfJar' \in [BfBrowsers -> [state : BfValues, verifier : BfValues, csrf : BfValues]]
      /\ \A u \in Tabs : bfReq'[u] = IF u = t THEN r ELSE bfReq[u]
      /\ \A b \in BfBrowsers : bfJar'[b] = IF b = t[1] THEN jar ELSE bfJar[b] BY <1>r, <1>3, <1>m, BfTypes
<1>5. BfTyped' BY <1>1, <1>2, <1>4 DEF BfInv, BfTyped
<1>6. BfPaged'
  <2>1. \A u \in Tabs : bfReq'[u].kind = "page" => bfReq'[u] = bfReq[u] BY <1>3, <1>4
  <2> QED BY <1>1, <1>2, <2>1, BfFormsStay
<1>7. BfLogged'
  <2>1. \A link \in bfLinks' : link.state = link.code BY <1>2 DEF BfInv, BfLogged
  <2>2. /\ bfFlows \subseteq bfFlows' /\ UNCHANGED <<bfRedeemed, bfLogins>>
        /\ r.kind = "login" => [flow |-> r.flow, browser |-> t[1]] \in bfFlows'
        /\ r.kind # "exchange" /\ (jar.state # BfNone => [flow |-> jar.state, browser |-> t[1]] \in bfFlows')
    BY <1>1, <1>2, <1>3, <1>s
  <2> QED BY <1>4, <2>1, <2>2, BfLoginsMove
<1> QED BY <1>2, <1>5, <1>6, <1>7 DEF BfInv, BfChecked
LEMMA BfRedirectedKeeps == ASSUME BfInv, NEW t \in Tabs, Redirected(t) PROVE BfInv'
<1> DEFINE f == bfReq[t].flow
           was == bfJar[t[1]]
           jar == [was EXCEPT !.state = f, !.verifier = IF bfPkce THEN f ELSE was.verifier]
<1>1. bfReq[t].kind = "login" /\ f \in BfTokens /\ was \in [state : BfValues, verifier : BfValues, csrf : BfValues]
      /\ [flow |-> f, browser |-> t[1]] \in bfFlows /\ t[1] \in BfBrowsers
  <2>1. bfReq[t].kind = "login" BY DEF Redirected
  <2>2. bfReq[t] \in BfAsked /\ t[1] \in BfBrowsers /\ was \in [state : BfValues, verifier : BfValues, csrf : BfValues]
    BY BfMyself
  <2>3. f \in BfTokens BY <2>1, <2>2 DEF BfAsked, Idle
  <2> QED BY <2>1, <2>2, <2>3 DEF BfInv, BfLogged, BfOpened, BfBegan
<1>2. UNCHANGED <<bfRedeemed, bfFlows, bfLogins, bfPages, bfUsed>> /\ bfPassed' = NoCheck
      /\ bfReq' = [bfReq EXCEPT ![t] = Idle] /\ bfLinks' = bfLinks \cup {[state |-> f, code |-> f]} BY DEF Redirected
<1>3. jar \in [state : BfValues, verifier : BfValues, csrf : BfValues] /\ jar.state = f /\ jar.csrf = was.csrf
  BY <1>1 DEF BfValues
<1>4. bfJar' = [bfJar EXCEPT ![t[1]] = jar] BY DEF Redirected
<1> HIDE DEF jar
<1>5. /\ bfReq' \in [Tabs -> BfAsked] /\ bfJar' \in [BfBrowsers -> [state : BfValues, verifier : BfValues, csrf : BfValues]]
      /\ \A u \in Tabs : bfReq'[u] = IF u = t THEN Idle ELSE bfReq[u]
      /\ \A b \in BfBrowsers : bfJar'[b] = IF b = t[1] THEN jar ELSE bfJar[b] BY <1>2, <1>3, <1>4, BfTypes, BfMyself
<1>6. BfTyped' BY <1>1, <1>2, <1>5 DEF BfInv, BfTyped
<1>7. BfPaged'
  <2>1. \A u \in Tabs : bfReq'[u].kind = "page" => bfReq'[u] = bfReq[u] BY <1>5, BfMyself
  <2>2. \A b \in BfBrowsers : bfJar'[b].csrf = bfJar[b].csrf BY <1>3, <1>5
  <2> QED BY <1>2, <2>1, <2>2, BfFormsStay
<1>8. BfLogged'
  <2>1. \A link \in bfLinks' : link.state = link.code BY <1>2 DEF BfInv, BfLogged
  <2>2. /\ Idle.kind = "idle" /\ bfFlows \subseteq bfFlows' /\ UNCHANGED <<bfRedeemed, bfLogins>>
        /\ jar.state # BfNone => [flow |-> jar.state, browser |-> t[1]] \in bfFlows' BY <1>1, <1>2, <1>3, BfMyself
  <2> DEFINE r == Idle
  <2>3. /\ r.kind = "login" => [flow |-> r.flow, browser |-> t[1]] \in bfFlows'
        /\ r.kind = "exchange" => [flow |-> r.flow, browser |-> t[1]] \in bfFlows' /\ r.code = r.flow
        /\ \A b \in BfBrowsers : bfJar'[b] = IF b = t[1] THEN jar ELSE bfJar[b]
        /\ \A u \in Tabs : bfReq'[u] = IF u = t THEN r ELSE bfReq[u] BY <1>5, <2>2
  <2> HIDE DEF f, r
  <2> QED BY <1>5, <2>1, <2>2, <2>3, BfLoginsMove
<1> QED BY <1>2, <1>6, <1>7, <1>8 DEF BfInv, BfChecked

LEMMA BfCallbackOpensKeeps ==
  ASSUME BfInv, NEW t \in Tabs, NEW link \in bfLinks \cup {[state |-> BfNone, code |-> BfNone]}, CallbackOpens(t, link)
  PROVE  BfInv'
<1> DEFINE jar == bfJar[t[1]]
           ok == state_matches(link, jar) /\ link.code # BfNone /\ (bfPkce => jar.verifier # BfNone)
           r == [kind |-> IF ok THEN "exchange" ELSE "refused", flow |-> link.state, code |-> link.code, verifier |-> jar.verifier]
<1>1. jar \in [state : BfValues, verifier : BfValues, csrf : BfValues] /\ t[1] \in BfBrowsers
      /\ link.state \in BfValues /\ link.code \in BfValues /\ (link.code # BfNone => link.state = link.code)
  BY BfMyself DEF BfInv, BfTyped, BfLogged, BfValues
<1>2. UNCHANGED <<bfLinks, bfRedeemed, bfFlows, bfLogins, bfPages, bfUsed>> /\ bfPassed' = NoCheck
      /\ bfReq' = [bfReq EXCEPT ![t] = r] /\ bfJar' = [bfJar EXCEPT ![t[1]] = jar] BY BfMyself DEF CallbackOpens
<1>3. r \in BfAsked /\ r.kind \in {"exchange", "refused"} /\ r.flow = link.state /\ r.code = link.code
  BY <1>1 DEF BfAsked
<1>4. r.kind = "exchange" => [flow |-> r.flow, browser |-> t[1]] \in bfFlows /\ r.code = r.flow
  <2> HAVE r.kind = "exchange"
  <2>1. ok OBVIOUS
  <2>2. link.state = jar.state /\ jar.state # BfNone /\ link.state = link.code BY <2>1, <1>1 DEF state_matches
  <2>3. [flow |-> jar.state, browser |-> t[1]] \in bfFlows BY <1>1, <2>2 DEF BfInv, BfLogged, BfBegan
  <2> QED BY <2>2, <2>3, <1>3
<1>5. jar.state # BfNone => [flow |-> jar.state, browser |-> t[1]] \in bfFlows BY <1>1 DEF BfInv, BfLogged, BfBegan
<1> HIDE DEF r, jar, ok
<1>6. /\ bfReq' \in [Tabs -> BfAsked] /\ bfJar' \in [BfBrowsers -> [state : BfValues, verifier : BfValues, csrf : BfValues]]
      /\ \A u \in Tabs : bfReq'[u] = IF u = t THEN r ELSE bfReq[u]
      /\ \A b \in BfBrowsers : bfJar'[b] = IF b = t[1] THEN jar ELSE bfJar[b] BY <1>1, <1>2, <1>3, BfTypes
<1>7. BfTyped' BY <1>2, <1>6 DEF BfInv, BfTyped
<1>8. BfPaged'
  <2>1. \A u \in Tabs : bfReq'[u].kind = "page" => bfReq'[u] = bfReq[u] BY <1>3, <1>6
  <2>2. \A b \in BfBrowsers : bfJar'[b].csrf = bfJar[b].csrf BY <1>6 DEF jar
  <2> QED BY <1>2, <2>1, <2>2, BfFormsStay
<1>9. BfLogged'
  <2>1. \A l \in bfLinks' : l.state = l.code BY <1>2 DEF BfInv, BfLogged
  <2> QED BY <1>2, <1>3, <1>4, <1>5, <1>6, <2>1, BfLoginsMove
<1> QED BY <1>2, <1>7, <1>8, <1>9 DEF BfInv, BfChecked

LEMMA BfCallbackEndsKeeps == ASSUME BfInv, NEW t \in Tabs, CallbackEnds(t) PROVE BfInv'
<1> DEFINE was == bfJar[t[1]]
           jar == [was EXCEPT !.state = BfNone, !.verifier = IF bfPkce THEN BfNone ELSE was.verifier]
<1>1. was \in [state : BfValues, verifier : BfValues, csrf : BfValues] /\ t[1] \in BfBrowsers BY BfMyself
<1>2. UNCHANGED <<bfLinks, bfRedeemed, bfFlows, bfLogins, bfPages, bfUsed>> /\ bfPassed' = NoCheck
      /\ bfReq' = [bfReq EXCEPT ![t] = Idle] BY DEF CallbackEnds
<1>3. jar \in [state : BfValues, verifier : BfValues, csrf : BfValues] /\ jar.state = BfNone /\ jar.csrf = was.csrf
  BY <1>1 DEF BfValues
<1>4. bfJar' = [bfJar EXCEPT ![t[1]] = jar] BY DEF CallbackEnds
<1> HIDE DEF jar
<1>5. /\ bfReq' \in [Tabs -> BfAsked] /\ bfJar' \in [BfBrowsers -> [state : BfValues, verifier : BfValues, csrf : BfValues]]
      /\ \A u \in Tabs : bfReq'[u] = IF u = t THEN Idle ELSE bfReq[u]
      /\ \A b \in BfBrowsers : bfJar'[b] = IF b = t[1] THEN jar ELSE bfJar[b] BY <1>2, <1>3, <1>4, BfTypes, BfMyself
<1>6. BfTyped' BY <1>2, <1>5 DEF BfInv, BfTyped
<1>7. BfPaged'
  <2>1. \A u \in Tabs : bfReq'[u].kind = "page" => bfReq'[u] = bfReq[u] BY <1>5, BfMyself
  <2>2. \A b \in BfBrowsers : bfJar'[b].csrf = bfJar[b].csrf BY <1>3, <1>5
  <2> QED BY <1>2, <2>1, <2>2, BfFormsStay
<1>8. BfLogged'
  <2>1. /\ \A b \in BfBrowsers : bfJar'[b].state \in {bfJar[b].state, BfNone}
        /\ \A u \in Tabs : bfReq'[u] = bfReq[u] \/ bfReq'[u].kind \notin {"login", "exchange"} BY <1>3, <1>5, BfMyself
  <2> QED BY <1>2, <2>1, BfLoginsStay
<1> QED BY <1>2, <1>6, <1>7, <1>8 DEF BfInv, BfChecked

LEMMA BfExchangeKeeps == ASSUME BfInv, NEW t \in Tabs, NEW fails \in BOOLEAN, Exchange(t, fails) PROVE BfInv'
<1> DEFINE r == bfReq[t]
           s == [r EXCEPT !.kind = "refused"]
           login == [flow |-> r.flow, code |-> r.code, browser |-> t[1], tab |-> t[2]]
<1>1. r.kind = "exchange" /\ [flow |-> r.flow, browser |-> t[1]] \in bfFlows /\ r.code = r.flow
      /\ r \in [kind : {"exchange", "refused"}, flow : BfValues, code : BfValues, verifier : BfValues]
  <2>1. r.kind = "exchange" BY DEF Exchange
  <2>2. r \in BfAsked BY BfMyself
  <2>3. r \in [kind : {"exchange", "refused"}, flow : BfValues, code : BfValues, verifier : BfValues]
    BY <2>1, <2>2 DEF BfAsked, Idle
  <2> QED BY <2>1, <2>3 DEF BfInv, BfLogged, BfOpened, BfBegan
<1>2. UNCHANGED <<bfJar, bfLinks, bfFlows, bfPages, bfUsed>> /\ bfPassed' = NoCheck BY DEF Exchange
<1>3. bfReq' = [bfReq EXCEPT ![t] = s] BY <1>1, BfMyself DEF Exchange, BfInv, BfTyped
<1>4. \/ bfLogins' = bfLogins /\ bfRedeemed \subseteq bfRedeemed'
      \/ r.code \notin bfRedeemed /\ bfLogins' = bfLogins \cup {login} /\ bfRedeemed' = bfRedeemed \cup {r.code}
  <2>1. CASE r.code \notin bfRedeemed /\ (bfPkce => r.verifier = r.code) BY <2>1 DEF Exchange
  <2>2. CASE ~(r.code \notin bfRedeemed /\ (bfPkce => r.verifier = r.code)) BY <2>2 DEF Exchange
  <2> QED BY <2>1, <2>2
<1>5. s \in [kind : {"exchange", "refused"}, flow : BfValues, code : BfValues, verifier : BfValues] /\ s.kind = "refused"
  BY <1>1
<1>6. login.flow = r.flow /\ login.code = r.code /\ login.browser = t[1] OBVIOUS
<1>7. s \in BfAsked BY <1>5 DEF BfAsked
<1> HIDE DEF s, login
<1>8. bfReq' \in [Tabs -> BfAsked] /\ \A u \in Tabs : bfReq'[u] = IF u = t THEN s ELSE bfReq[u]
  BY <1>3, <1>7 DEF BfInv, BfTyped
<1>9. BfTyped' BY <1>2, <1>8 DEF BfInv, BfTyped
<1>10. BfPaged'
  <2>1. \A u \in Tabs : bfReq'[u].kind = "page" => bfReq'[u] = bfReq[u] BY <1>5, <1>8
  <2> QED BY <1>2, <2>1, BfFormsStay
<1>11. BfLogged'
  <2>2. \A u \in Tabs : bfReq'[u] = bfReq[u] => BfOpened(u, bfReq[u])'
    BY <1>2, <1>8 DEF BfInv, BfLogged, BfOpened, BfBegan
  <2>3. \A u \in Tabs : BfOpened(u, bfReq[u])' BY <1>5, <1>8, <2>2 DEF BfOpened
  <2>4. \A l \in bfLogins' : BfTaken(l)'
    <3>1. /\ \A l \in bfLogins : l.code \in bfRedeemed /\ l.code = l.flow /\ [flow |-> l.flow, browser |-> l.browser] \in bfFlows
          /\ bfRedeemed \subseteq bfRedeemed' /\ bfFlows' = bfFlows
      BY <1>2, <1>4 DEF BfInv, BfLogged, BfTaken, BfBegan
    <3>2. ASSUME NEW l \in bfLogins' PROVE l \in bfLogins \/ (l = login /\ bfRedeemed' = bfRedeemed \cup {r.code})
      BY <1>4
    <3>3. ASSUME NEW l \in bfLogins' PROVE BfTaken(l)'
      <4>1. CASE l \in bfLogins BY <3>1, <4>1 DEF BfTaken, BfBegan
      <4>2. CASE l = login /\ bfRedeemed' = bfRedeemed \cup {r.code}
        <5> DEFINE f == r.flow
        <5>1. l.code = f /\ l.flow = f /\ l.browser = t[1] /\ r.code = f /\ [flow |-> f, browser |-> t[1]] \in bfFlows'
          BY <1>1, <1>2, <1>6, <4>2
        <5> HIDE DEF f
        <5> QED BY <4>2, <5>1 DEF BfTaken, BfBegan
      <4> QED BY <3>2, <3>3, <4>1, <4>2
    <3> QED BY <3>3
  <2>5. \A l, k \in bfLogins' : l.flow = k.flow => l = k BY <1>1, <1>4, <1>6 DEF BfInv, BfLogged, BfTaken
  <2> QED BY <1>2, <2>3, <2>4, <2>5 DEF BfInv, BfLogged, BfBegan
<1> QED BY <1>2, <1>9, <1>10, <1>11 DEF BfInv, BfChecked
LEMMA BfGetKeeps == ASSUME BfInv, NEW t \in Tabs, Get(t) PROVE BfInv'
<1> DEFINE jar == bfJar[t[1]]
           known == jar.csrf
<1>1. jar \in [state : BfValues, verifier : BfValues, csrf : BfValues] /\ t[1] \in BfBrowsers BY BfMyself
<1>2. UNCHANGED <<bfJar, bfLinks, bfRedeemed, bfFlows, bfLogins, bfPages>> /\ bfPassed' = NoCheck BY DEF Get
<1>3. PICK x \in BfTokens :
        /\ bfReq' = [bfReq EXCEPT ![t] = [kind |-> "page", token |-> x, first |-> known = BfNone]]
        /\ bfUsed' = bfUsed \cup {x} /\ (IF known # BfNone THEN x = known ELSE x \notin bfUsed)
  <2>1. CASE known # BfNone BY <1>1, <2>1 DEF Get, BfValues
  <2>2. CASE known = BfNone BY <2>2, BfFresh DEF Get
  <2> QED BY <2>1, <2>2
<1> DEFINE r == [kind |-> "page", token |-> x, first |-> known = BfNone]
<1>4. r \in BfAsked /\ r.kind = "page" /\ r.token = x /\ (r.first <=> known = BfNone) BY DEF BfAsked
<1>5. bfReq' = [bfReq EXCEPT ![t] = r] /\ bfJar' = [bfJar EXCEPT ![t[1]] = jar] BY <1>2, <1>3, BfMyself
<1> HIDE DEF r
<1>6. /\ bfReq' \in [Tabs -> BfAsked] /\ bfJar' \in [BfBrowsers -> [state : BfValues, verifier : BfValues, csrf : BfValues]]
      /\ \A u \in Tabs : bfReq'[u] = IF u = t THEN r ELSE bfReq[u]
      /\ \A b \in BfBrowsers : bfJar'[b] = IF b = t[1] THEN jar ELSE bfJar[b] BY <1>1, <1>4, <1>5, BfTypes
<1>7. BfTyped' BY <1>2, <1>3, <1>6 DEF BfInv, BfTyped
<1>8. BfLogged'
  <2>1. /\ \A b \in BfBrowsers : bfJar'[b].state \in {bfJar[b].state, BfNone}
        /\ \A u \in Tabs : bfReq'[u] = bfReq[u] \/ bfReq'[u].kind \notin {"login", "exchange"} BY <1>2, <1>4, <1>6
  <2> QED BY <1>2, <2>1, BfLoginsStay
<1>9. BfPaged'
  <2>1. ASSUME NEW b \in BfBrowsers, NEW y \in BfTokens, BfHas(b, y)'
        PROVE  BfHas(b, y) \/ (b = t[1] /\ y = x) BY <1>2, <1>4, <1>6, <2>1 DEF BfHas
  <2>2. known # BfNone => BfHas(t[1], x) BY <1>3 DEF BfHas
  <2>3. known = BfNone => \A b \in BfBrowsers : ~BfHas(b, x) BY <1>3 DEF BfInv, BfPaged
  <2>4. /\ \A b, c \in BfBrowsers, y \in BfTokens : BfHas(b, y) /\ BfHas(c, y) => b = c
        /\ \A b \in BfBrowsers, y \in BfTokens : BfHas(b, y) => y \in bfUsed BY DEF BfInv, BfPaged
  <2>5. \A b, c \in BfBrowsers, y \in BfTokens : BfHas(b, y)' /\ BfHas(c, y)' => b = c
    <3> SUFFICES ASSUME NEW b \in BfBrowsers, NEW c \in BfBrowsers, NEW y \in BfTokens, BfHas(b, y)', BfHas(c, y)' PROVE b = c
      OBVIOUS
    <3>1. (BfHas(b, y) \/ (b = t[1] /\ y = x)) /\ (BfHas(c, y) \/ (c = t[1] /\ y = x)) BY <2>1
    <3> QED BY <1>1, <2>2, <2>3, <2>4, <3>1
  <2>6. \A b \in BfBrowsers, y \in BfTokens : BfHas(b, y)' => y \in bfUsed'
    <3> SUFFICES ASSUME NEW b \in BfBrowsers, NEW y \in BfTokens, BfHas(b, y)' PROVE y \in bfUsed' OBVIOUS
    <3>1. BfHas(b, y) \/ (b = t[1] /\ y = x) BY <2>1
    <3> QED BY <1>3, <2>4, <3>1
  <2>7. \A u \in Tabs : bfReq'[u].kind = "page" /\ ~bfReq'[u].first => bfJar'[u[1]].csrf # BfNone
    BY <1>2, <1>4, <1>6 DEF BfInv, BfPaged
  <2> QED BY <1>2, <2>5, <2>6, <2>7 DEF BfInv, BfPaged
<1> QED BY <1>2, <1>7, <1>8, <1>9 DEF BfInv, BfChecked

LEMMA BfPageKeeps == ASSUME BfInv, NEW t \in Tabs, Page(t) PROVE BfInv'
<1> DEFINE r == bfReq[t]
           was == bfJar[t[1]]
           jar == [was EXCEPT !.csrf = IF r.first THEN r.token ELSE was.csrf]
           page == [browser |-> t[1], token |-> r.token, first |-> r.first]
<1>1. /\ r.kind = "page" /\ r.token \in BfTokens /\ r.first \in BOOLEAN
      /\ was \in [state : BfValues, verifier : BfValues, csrf : BfValues] /\ t[1] \in BfBrowsers
  <2>1. r.kind = "page" /\ r \in BfAsked BY BfMyself DEF Page
  <2>2. r.token \in BfTokens /\ r.first \in BOOLEAN BY <2>1 DEF BfAsked, Idle
  <2> QED BY <2>1, <2>2, BfMyself
<1>2. UNCHANGED <<bfLinks, bfRedeemed, bfFlows, bfLogins, bfUsed>> /\ bfPassed' = NoCheck
      /\ bfReq' = [bfReq EXCEPT ![t] = Idle] /\ bfPages' = bfPages \cup {page} BY DEF Page
<1>3. jar \in [state : BfValues, verifier : BfValues, csrf : BfValues] /\ jar.state = was.state
      /\ jar.csrf = IF r.first THEN r.token ELSE was.csrf BY <1>1 DEF BfValues
<1>4. bfJar' = [bfJar EXCEPT ![t[1]] = jar] BY <1>1 DEF Page, BfInv, BfTyped
<1>5. page \in [browser : BfBrowsers, token : BfTokens, first : BOOLEAN]
      /\ page.browser = t[1] /\ page.token = r.token /\ (page.first <=> r.first) BY <1>1
<1> HIDE DEF jar, page
<1>6. /\ bfReq' \in [Tabs -> BfAsked] /\ bfJar' \in [BfBrowsers -> [state : BfValues, verifier : BfValues, csrf : BfValues]]
      /\ \A u \in Tabs : bfReq'[u] = IF u = t THEN Idle ELSE bfReq[u]
      /\ \A b \in BfBrowsers : bfJar'[b] = IF b = t[1] THEN jar ELSE bfJar[b] BY <1>2, <1>3, <1>4, BfTypes, BfMyself
<1>7. BfTyped' BY <1>1, <1>2, <1>5, <1>6 DEF BfInv, BfTyped
<1>8. BfLogged'
  <2>1. /\ \A b \in BfBrowsers : bfJar'[b].state \in {bfJar[b].state, BfNone}
        /\ \A u \in Tabs : bfReq'[u] = bfReq[u] \/ bfReq'[u].kind \notin {"login", "exchange"} BY <1>3, <1>6, BfMyself
  <2> QED BY <1>2, <2>1, BfLoginsStay
<1>9. BfPaged'
  <2>0. \A u \in Tabs : u[1] \in BfBrowsers BY BfTab
  <2>1. BfHas(t[1], r.token) /\ r.token # BfNone /\ Idle.kind = "idle"
    BY <1>1, BfMyself, BfAssumption DEF BfHas, BfAssumption
  <2>2. ASSUME NEW b \in BfBrowsers, NEW y \in BfTokens, BfHas(b, y)' PROVE BfHas(b, y)
    <3>1. CASE bfJar'[b].csrf = y BY <1>3, <1>6, <2>1, <3>1 DEF BfHas
    <3>2. CASE \E u \in Tabs : u[1] = b /\ bfReq'[u].kind = "page" /\ bfReq'[u].token = y
      BY <1>6, <2>1, <3>2 DEF BfHas
    <3>3. CASE \E p \in bfPages' : p.browser = b /\ p.token = y BY <1>2, <1>5, <2>1, <3>3 DEF BfHas
    <3> QED BY <2>2, <3>1, <3>2, <3>3 DEF BfHas
  <2>3. /\ \A b, c \in BfBrowsers, y \in BfTokens : BfHas(b, y)' /\ BfHas(c, y)' => b = c
        /\ \A b \in BfBrowsers, y \in BfTokens : BfHas(b, y)' => y \in bfUsed' BY <1>2, <2>2 DEF BfInv, BfPaged
  <2>4. /\ \A b \in BfBrowsers : bfJar[b].csrf # BfNone => \E p \in bfPages : p.browser = b /\ p.first /\ p.token = bfJar[b].csrf
        /\ \A p \in bfPages : p.browser \in BfBrowsers /\ bfJar[p.browser].csrf # BfNone
        /\ \A u \in Tabs : bfReq[u].kind = "page" /\ ~bfReq[u].first => bfJar[u[1]].csrf # BfNone
    BY DEF BfInv, BfPaged, BfTyped
  <2>5. jar.csrf # BfNone BY <1>1, <1>3, <2>1, <2>4
  <2>6. \A b \in BfBrowsers : bfJar'[b].csrf # BfNone => \E p \in bfPages' : p.browser = b /\ p.first /\ p.token = bfJar'[b].csrf
    <3> SUFFICES ASSUME NEW b \in BfBrowsers, bfJar'[b].csrf # BfNone
                 PROVE  \E p \in bfPages' : p.browser = b /\ p.first /\ p.token = bfJar'[b].csrf OBVIOUS
    <3>1. CASE b = t[1] /\ r.first
      <4>1. page \in bfPages' /\ page.browser = b /\ page.first /\ page.token = bfJar'[b].csrf
        BY <1>2, <1>3, <1>5, <1>6, <3>1
      <4> QED BY <4>1
    <3>2. CASE ~(b = t[1] /\ r.first)
      <4>1. bfJar'[b].csrf = bfJar[b].csrf BY <1>3, <1>6, <3>2
      <4> QED BY <1>2, <2>4, <4>1
    <3> QED BY <3>1, <3>2
  <2>7. \A p \in bfPages' : bfJar'[p.browser].csrf # BfNone BY <1>2, <1>5, <1>6, <2>4, <2>5
  <2>8. \A u \in Tabs : bfReq'[u].kind = "page" /\ ~bfReq'[u].first => bfJar'[u[1]].csrf # BfNone
    BY <1>6, <2>0, <2>1, <2>4, <2>5
  <2> QED BY <2>3, <2>6, <2>7, <2>8 DEF BfPaged
<1> QED BY <1>2, <1>7, <1>8, <1>9 DEF BfInv, BfChecked

LEMMA BfPostKeeps == ASSUME BfInv, NEW b \in BfBrowsers, NEW page \in bfPages, Post(b, page) PROVE BfInv'
<1> DEFINE cookie == bfJar[b].csrf
<1>1. UNCHANGED <<bfPkce, bfJar, bfReq, bfLinks, bfRedeemed, bfFlows, bfLogins, bfPages, bfUsed>>
      /\ bfPassed' = [ok |-> cookie # BfNone /\ page.token = cookie, browser |-> b, page |-> page] BY DEF Post
<1>2. (bfPassed'.ok <=> cookie # BfNone /\ page.token = cookie) /\ bfPassed'.browser = b /\ bfPassed'.page = page
  BY <1>1
<1>3. BfTyped' /\ BfLogged' /\ BfPaged'
  BY <1>1 DEF BfInv, BfTyped, BfLogged, BfPaged, BfHas, BfTaken, BfBegan, BfOpened
<1>4. page.token = cookie => page.browser = b
  <2>1. page.token \in BfTokens /\ page.browser \in BfBrowsers /\ BfHas(page.browser, page.token)
    BY DEF BfInv, BfTyped, BfHas
  <2> QED BY <2>1 DEF BfInv, BfPaged, BfHas
<1>5. page.browser = b => cookie # BfNone /\ \E p \in bfPages : p.browser = b /\ p.first /\ p.token = cookie
  BY DEF BfInv, BfPaged
<1>6. BfChecked' BY <1>1, <1>2, <1>4, <1>5 DEF BfChecked
<1> QED BY <1>3, <1>6 DEF BfInv

LEMMA BfStep == BfInv /\ [BfNext]_bfVars => BfInv'
<1> SUFFICES ASSUME BfInv, [BfNext]_bfVars PROVE BfInv' OBVIOUS
<1>1. CASE UNCHANGED bfVars
  BY <1>1 DEF bfVars, BfInv, BfTyped, BfLogged, BfPaged, BfChecked, BfHas, BfTaken, BfBegan, BfOpened
<1>2. CASE \E t \in Tabs : Login(t) \/ Redirected(t) \/ CallbackEnds(t) \/ Get(t) \/ Page(t)
  BY <1>2, BfLoginKeeps, BfRedirectedKeeps, BfCallbackEndsKeeps, BfGetKeeps, BfPageKeeps
<1>3. CASE \E t \in Tabs : \E link \in bfLinks \cup {[state |-> BfNone, code |-> BfNone]} : CallbackOpens(t, link)
  BY <1>3, BfCallbackOpensKeeps
<1>4. CASE \E t \in Tabs : \E fails \in BOOLEAN : Exchange(t, fails) BY <1>4, BfExchangeKeeps
<1>5. CASE \E b \in BfBrowsers : \E page \in bfPages : Post(b, page) BY <1>5, BfPostKeeps
<1> QED BY <1>1, <1>2, <1>3, <1>4, <1>5 DEF BfNext
----
\* Bearer tokens (JwtAuth): a cached key was published when it was fetched, and
\* the cache agrees with the issuer but for what changed since.

JwUsable == {k \in JwKeys : JwAlg[k] # ""}
JwSet(ks) == DOMAIN ks \subseteq JwKids /\ \A kid \in DOMAIN ks : ks[kid] \in JwUsable
JwTyped ==
  /\ jwOptions \in JwConfigs /\ jwNow \in Nat /\ jwFetched \in Nat /\ jwAttempted \in Nat
  /\ jwFetched <= jwNow /\ jwAttempted <= jwNow
  /\ jwIssuer \in [JwKids -> JwKeys \cup {NoKey}] /\ jwSince \in [JwKids -> Nat] /\ jwUntil \in [JwKeys -> Nat]
  /\ JwSet(jwKeys)

\* What was fetched at a time, give or take slack, from the issuer of now.
JwPublished(key) == \E kid \in JwKids : jwIssuer[kid] = key
JwCurrent(ks, at, slack) == \A kid \in DOMAIN ks : JwPublished(ks[kid]) \/ at <= jwUntil[ks[kid]] + slack
JwAgrees(ks, at, slack) ==
  \A kid \in JwKids : jwIssuer[kid] \in JwUsable =>
    (kid \in DOMAIN ks /\ ks[kid] = jwIssuer[kid]) \/ at <= jwSince[kid] + slack
JwCached == JwCurrent(jwKeys, jwFetched, JwTimeout) /\ JwAgrees(jwKeys, jwFetched, JwTimeout)
JwFetching ==
  IF jwFetch = NoFetch
    THEN jwFailing \/ jwAttempted <= jwFetched
    ELSE /\ jwFetch = [for |-> jwFetch.for, answer |-> jwFetch.answer]
         /\ jwFetch.for \in JwTokens \cup Issued /\ jwFetch.for.alg \in {"RS256", "ES256"} /\ UsesJwks(jwFetch.for)
         /\ jwNow <= jwAttempted + JwTimeout
         /\ jwFetch.answer # NoFetch =>
              /\ JwSet(jwFetch.answer.keys)
              /\ JwCurrent(jwFetch.answer.keys, jwAttempted, 0) /\ JwAgrees(jwFetch.answer.keys, jwAttempted, 0)

JwInv == JwTyped /\ JwCached /\ JwFetching /\ TokensSound

LEMMA JwNumbers == /\ JwRefresh \in Nat /\ JwRefresh > 0 /\ JwMinRefetch \in Nat /\ JwTimeout \in Nat /\ JwLeeway \in Nat
                   /\ JwExpiresIn \in Nat /\ JwHeld \in Nat /\ JwHeld > 0 /\ JwHeld >= JwRefresh /\ JwHeld >= JwMinRefetch
<1>1. JwRefresh \in Nat \ {0} /\ {JwMinRefetch, JwTimeout, JwLeeway, JwExpiresIn} \subseteq Nat
  BY JwAssumption, Zenon DEF JwAssumption
<1>2. JwRefresh \in Nat /\ JwRefresh # 0 /\ JwMinRefetch \in Nat /\ JwTimeout \in Nat /\ JwLeeway \in Nat /\ JwExpiresIn \in Nat
  BY <1>1
<1> QED BY <1>2 DEF JwHeld

LEMMA JwUsables == /\ \A k : k \in JwUsable <=> (k \in JwKeys \cup {NoKey} /\ key_from_jwk(k))
                   /\ NoKey \notin JwUsable /\ JwSecret \notin JwUsable /\ JwUsable \subseteq JwKeys
BY JwAssumption DEF JwAssumption, JwUsable, key_from_jwk

LEMMA JwToken ==
  ASSUME NEW t \in JwTokens \cup Issued
  PROVE  /\ t.signer # NoKey
         /\ t.iat # 0 => t.exp # NoClaim /\ t.exp \in Nat /\ "us" \in t.aud /\ (t.nbf = NoClaim \/ t.nbf \in Nat)
<1>1. CASE t \in JwTokens BY <1>1, JwAssumption DEF JwAssumption
<1>2. CASE t \in Issued
  <2>1. PICK key \in JwSuiting, kid \in JwSignKids, later \in JwDelays : t = sign(key, kid, later, 1)
    BY <1>2 DEF Issued
  <2>2. /\ t.signer = key /\ t.aud = {"us"} /\ t.exp = 1 + JwExpiresIn
        /\ t.nbf = IF later > 0 THEN 1 + later ELSE NoClaim BY <2>1 DEF sign
  <2>3. key # NoKey BY JwAssumption DEF JwAssumption, JwSuiting
  <2>4. later \in Nat /\ (t.nbf = NoClaim \/ t.nbf = 1 + later)
    <3>1. JwLeeway \in Nat /\ (later = 0 \/ later = 1 + JwLeeway) BY JwNumbers, Zenon DEF JwDelays
    <3>2. later \in Nat BY <3>1
    <3>3. t.nbf = NoClaim \/ t.nbf = 1 + later BY <2>2, Zenon
    <3> QED BY <3>2, <3>3
  <2> HIDE DEF JwDelays, JwSuiting
  <2>6. 1 + later \in Nat /\ 1 + JwExpiresIn \in Nat /\ 1 + JwExpiresIn # NoClaim BY <2>4, JwNumbers DEF NoClaim
  <2>5. t.exp \in Nat /\ t.exp # NoClaim /\ (t.nbf = NoClaim \/ t.nbf \in Nat) BY <2>2, <2>4, <2>6
  <2> QED BY <2>2, <2>3, <2>5
<1> QED BY <1>1, <1>2

LEMMA JwOnlyOne == ASSUME NEW S, Cardinality(S) = 1 PROVE (CHOOSE i \in S : TRUE) \in S BY FS_EmptySet

\* What the cache answers.
LEMMA JwLookup ==
  ASSUME JwSet(jwKeys), NEW kid
  PROVE  /\ lookup_locked(kid) = NoKey \/ \E i \in DOMAIN jwKeys : lookup_locked(kid) = jwKeys[i]
         /\ kid \in JwKids => lookup_locked(kid) = IF kid \in DOMAIN jwKeys THEN jwKeys[kid] ELSE NoKey
<1>1. NoKid \notin JwKids BY JwAssumption DEF JwAssumption
<1>2. CASE kid = NoKid /\ Cardinality(DOMAIN jwKeys) = 1 BY <1>1, <1>2, JwOnlyOne DEF lookup_locked, JwSet
<1>3. CASE ~(kid = NoKid /\ Cardinality(DOMAIN jwKeys) = 1) BY <1>1, <1>3 DEF lookup_locked, JwSet
<1> QED BY <1>2, <1>3

LEMMA JwStarted == JwInit => JwInv
<1> SUFFICES ASSUME JwInit PROVE JwInv OBVIOUS
<1>1. /\ jwOptions \in JwConfigs /\ jwNow = 1 /\ jwIssuer = JwFirst /\ jwKeys = [k \in {} |-> NoKey]
      /\ jwFetched = 0 /\ jwAttempted = 0 /\ jwFetch = NoFetch
      /\ jwSince = [k \in JwKids |-> 0] /\ jwUntil = [k \in JwKeys |-> 0] /\ jwVerdict = NoVerdict
  BY DEF JwInit, Never
<1>2. DOMAIN jwKeys = {} BY <1>1
<1>3. JwTyped
  <2>1. jwIssuer \in [JwKids -> JwKeys \cup {NoKey}] BY <1>1, JwAssumption, Zenon DEF JwAssumption
  <2>2. jwSince \in [JwKids -> Nat] /\ jwUntil \in [JwKeys -> Nat] BY <1>1
  <2>3. JwSet(jwKeys) BY <1>2 DEF JwSet
  <2> QED BY <1>1, <2>1, <2>2, <2>3 DEF JwTyped
<1>4. JwCached BY <1>1, <1>2, JwNumbers DEF JwCached, JwCurrent, JwAgrees
<1> QED BY <1>1, <1>3, <1>4 DEF JwInv, JwFetching, TokensSound

\* Who may be accepted, and who turned away.
LEMMA JwVerdictSound ==
  ASSUME NEW ok, NEW v, NEW t, jwVerdict' = [ok |-> ok, token |-> t, verified |-> v],
         ok => (t.alg = "HS256" <=> t.signer = JwSecret),
         ok => \/ t.signer \in {JwSecret, jwOptions'.static} \/ jwFailing'
               \/ JwPublished(t.signer)' \/ jwNow' < jwUntil'[t.signer] + JwHeld + JwTimeout,
         jwOptions'.jwks /\ t.kid \in JwKids /\ jwIssuer'[t.kid] = t.signer /\ t.alg = JwAlg[t.signer] /\ t.alg # "" /\ ~v =>
            \/ jwFailing'
            \/ /\ jwSince'[t.kid] + JwTimeout >= jwFetched'
               /\ \/ t.kid \in DOMAIN jwKeys' /\ jwNow' < jwFetched' + JwHeld
                  \/ t.kid \notin DOMAIN jwKeys' /\ (jwFetched' = jwNow' \/ jwNow' < jwAttempted' + JwMinRefetch),
         t.iat # 0 /\ v => (ok <=> jwNow' <= t.exp + JwLeeway /\ (t.nbf = NoClaim \/ jwNow' >= t.nbf - JwLeeway))
  PROVE  TokensSound' BY DEF TokensSound, JwPublished

LEMMA JwQuiet == jwVerdict' = NoVerdict => TokensSound' BY DEF TokensSound

LEMMA JwClaims ==
  ASSUME NEW t \in JwTokens \cup Issued, t.iat # 0, jwNow \in Nat
  PROVE  valid_claims(t) <=> jwNow <= t.exp + JwLeeway /\ (t.nbf = NoClaim \/ jwNow >= t.nbf - JwLeeway)
<1>1. t.exp # NoClaim /\ t.exp \in Nat /\ "us" \in t.aud /\ (t.nbf = NoClaim \/ t.nbf \in Nat) BY JwToken
<1>2. t.nbf = NoClaim \/ (jwNow + JwLeeway >= t.nbf <=> jwNow >= t.nbf - JwLeeway) BY <1>1, JwNumbers
<1> QED BY <1>1, <1>2 DEF valid_claims
\* What does not touch the cache, the issuer or the clock keeps what is known of them.
LEMMA JwStays ==
  ASSUME JwInv, UNCHANGED <<jwOptions, jwNow, jwIssuer, jwKeys, jwFetched, jwSince, jwUntil>>, jwAttempted' \in Nat, jwAttempted' <= jwNow
  PROVE  JwTyped' /\ JwCached' BY DEF JwInv, JwTyped, JwSet, JwCached, JwCurrent, JwAgrees, JwPublished

LEMMA JwAuthorizeKeeps == ASSUME JwInv, NEW t \in JwTokens \cup Issued, Authorize(t) PROVE JwInv'
<1> DEFINE v == verified(t)
           ok == v /\ valid_claims(t)
           cached == lookup_locked(t.kid)
<1>1. /\ UNCHANGED <<jwOptions, jwNow, jwIssuer, jwKeys, jwFetched, jwAttempted, jwFetch, jwSince, jwUntil, jwFailing>>
      /\ jwVerdict' = [ok |-> ok, token |-> t, verified |-> v]
      /\ ~NeedsFetch(t) /\ (jwFetch = NoFetch \/ t.alg = "HS256" \/ ~UsesJwks(t)) BY DEF Authorize
<1>2. JwTyped /\ JwCached /\ JwFetching BY DEF JwInv
<1>3. JwTyped' /\ JwCached' BY <1>1, <1>2, JwStays DEF JwTyped
<1>4. JwFetching' BY <1>1, <1>2 DEF JwFetching, JwSet, JwCurrent, JwAgrees, JwPublished, UsesJwks
<1>n. /\ jwNow \in Nat /\ jwFetched \in Nat /\ jwAttempted \in Nat /\ jwFetched <= jwNow
      /\ jwIssuer \in [JwKids -> JwKeys \cup {NoKey}] /\ jwSince \in [JwKids -> Nat] /\ jwUntil \in [JwKeys -> Nat]
      /\ JwSet(jwKeys) BY <1>2 DEF JwTyped
<1>s. t.signer # NoKey BY JwToken
\* The cache answers by itself: its keys are not old.
<1>5. ASSUME t.alg \in {"RS256", "ES256"}, UsesJwks(t), ~jwFailing
      PROVE  IF cached = NoKey THEN jwNow < jwAttempted + JwMinRefetch ELSE jwNow < jwFetched + JwHeld
  <2>1. jwFetch = NoFetch /\ ~refetches(t.kid) /\ jwAttempted <= jwFetched
    BY <1>1, <1>2, <1>5 DEF NeedsFetch, JwFetching
  <2>2. (cached # NoKey /\ jwNow - jwFetched < JwRefresh) \/ jwNow - jwAttempted < JwMinRefetch
    BY <2>1, <1>n, JwNumbers DEF refetches
  <2> QED BY <2>1, <2>2, <1>n, JwNumbers
<1>6. v => \/ t.alg = "HS256" /\ t.signer = JwSecret
           \/ /\ t.alg \in {"RS256", "ES256"} /\ t.signer # JwSecret /\ t.alg # "HS256"
              /\ t.signer = jwOptions.static \/ (UsesJwks(t) /\ cached = t.signer)
  <2> HAVE v
  <2>1. CASE t.alg = "HS256" BY <2>1, Zenon DEF verified
  <2>2. CASE t.alg # "HS256"
    <3>1. t.alg \in {"RS256", "ES256"} /\ KeyFor(t) # NoKey /\ t.signer = KeyFor(t) BY <2>2, Zenon DEF verified
    <3>2. KeyFor(t) = jwOptions.static \/ (UsesJwks(t) /\ KeyFor(t) = cached) BY Zenon DEF KeyFor
    <3>3. cached \in JwUsable \cup {NoKey} BY <1>n, JwLookup DEF JwSet
    <3>4. jwOptions.static \in JwKeys \cup {NoKey} BY <1>2, JwAssumption DEF JwTyped, JwAssumption
    <3>5. JwSecret \notin JwKeys \cup {NoKey} BY JwAssumption, Zenon DEF JwAssumption
    <3>6. t.signer # JwSecret BY <3>1, <3>2, <3>3, <3>4, <3>5, JwUsables
    <3> QED BY <2>2, <3>1, <3>2, <3>6
  <2> QED BY <2>1, <2>2
<1>7. ok => (t.alg = "HS256" <=> t.signer = JwSecret) BY <1>6
<1>8. ok => \/ t.signer \in {JwSecret, jwOptions.static} \/ jwFailing
            \/ JwPublished(t.signer) \/ jwNow < jwUntil[t.signer] + JwHeld + JwTimeout
  <2> SUFFICES ASSUME ok, t.signer \notin {JwSecret, jwOptions.static}, ~jwFailing, ~JwPublished(t.signer)
               PROVE  jwNow < jwUntil[t.signer] + JwHeld + JwTimeout OBVIOUS
  <2>1. t.alg \in {"RS256", "ES256"} /\ UsesJwks(t) /\ cached = t.signer BY <1>6
  <2>2. jwNow < jwFetched + JwHeld BY <1>5, <1>s, <2>1
  <2>3. PICK i \in DOMAIN jwKeys : jwKeys[i] = t.signer BY <1>n, <1>s, <2>1, JwLookup
  <2>4. t.signer \in JwKeys BY <1>n, <2>3, JwUsables DEF JwSet
  <2>5. jwFetched <= jwUntil[t.signer] + JwTimeout BY <1>2, <2>3 DEF JwCached, JwCurrent
  <2>6. jwUntil[t.signer] \in Nat BY <1>n, <2>4
  <2> QED BY <1>n, <2>2, <2>5, <2>6, JwNumbers
<1>9. jwOptions.jwks /\ t.kid \in JwKids /\ jwIssuer[t.kid] = t.signer /\ t.alg = JwAlg[t.signer] /\ t.alg # "" /\ ~v =>
            \/ jwFailing
            \/ /\ jwSince[t.kid] + JwTimeout >= jwFetched
               /\ \/ t.kid \in DOMAIN jwKeys /\ jwNow < jwFetched + JwHeld
                  \/ t.kid \notin DOMAIN jwKeys /\ (jwFetched = jwNow \/ jwNow < jwAttempted + JwMinRefetch)
  <2> SUFFICES ASSUME jwOptions.jwks, t.kid \in JwKids, jwIssuer[t.kid] = t.signer, t.alg = JwAlg[t.signer], t.alg # "", ~v, ~jwFailing
               PROVE  /\ jwSince[t.kid] + JwTimeout >= jwFetched
                      /\ \/ t.kid \in DOMAIN jwKeys /\ jwNow < jwFetched + JwHeld
                         \/ t.kid \notin DOMAIN jwKeys /\ jwNow < jwAttempted + JwMinRefetch OBVIOUS
  <2>1. t.signer \in JwUsable BY <1>n, <1>s DEF JwUsable
  <2>2. t.alg \in {"RS256", "ES256"} BY <2>1, JwAssumption DEF JwAssumption, JwUsable
  <2>3. UsesJwks(t) BY JwAssumption DEF JwAssumption, UsesJwks
  <2>4. cached # t.signer
    <3> SUFFICES ASSUME cached = t.signer PROVE FALSE OBVIOUS
    <3>1. KeyFor(t) = t.signer BY <1>s, <2>3, Zenon DEF KeyFor
    <3>2. CASE t.alg = "HS256" BY <2>2, <3>2
    <3> QED BY <1>s, <2>2, <3>1, <3>2 DEF verified
  <2>5. cached = IF t.kid \in DOMAIN jwKeys THEN jwKeys[t.kid] ELSE NoKey BY <1>n, JwLookup
  <2>6. jwFetched <= jwSince[t.kid] + JwTimeout BY <1>2, <2>1, <2>4, <2>5 DEF JwCached, JwAgrees
  <2>7. jwSince[t.kid] \in Nat BY <1>n
  <2>8. t.kid \in DOMAIN jwKeys => cached # NoKey BY <1>n, <2>5, JwUsables DEF JwSet
  <2>9. IF cached = NoKey THEN jwNow < jwAttempted + JwMinRefetch ELSE jwNow < jwFetched + JwHeld BY <1>5, <2>2, <2>3
  <2> QED BY <1>n, <2>5, <2>6, <2>7, <2>8, <2>9, JwNumbers
<1>10. t.iat # 0 /\ v => (ok <=> jwNow <= t.exp + JwLeeway /\ (t.nbf = NoClaim \/ jwNow >= t.nbf - JwLeeway))
  BY <1>n, JwClaims
<1> HIDE DEF ok, v
<1>11. TokensSound' BY <1>1, <1>7, <1>8, <1>9, <1>10, JwVerdictSound DEF JwPublished
<1> QED BY <1>3, <1>4, <1>11 DEF JwInv
LEMMA JwFetchKeeps == ASSUME JwInv, NEW t \in JwTokens \cup Issued, fetch_locked(t) PROVE JwInv'
<1>1. /\ UNCHANGED <<jwOptions, jwNow, jwIssuer, jwKeys, jwFetched, jwSince, jwUntil, jwFailing>>
      /\ jwAttempted' = jwNow /\ jwFetch' = [for |-> t, answer |-> NoFetch] /\ jwVerdict' = NoVerdict /\ NeedsFetch(t)
  BY DEF fetch_locked
<1>2. jwFetch'.for = t /\ jwFetch'.answer = NoFetch /\ jwFetch' # NoFetch
  <2>1. DOMAIN jwFetch' = {"for", "answer"} /\ DOMAIN NoFetch = {"for"} BY <1>1 DEF NoFetch
  <2> QED BY <1>1, <2>1
<1>3. JwTyped' /\ JwCached' BY <1>1, JwStays DEF JwInv, JwTyped
<1>4. JwFetching'
  <2>1. t.alg \in {"RS256", "ES256"} /\ UsesJwks(t)' BY <1>1 DEF NeedsFetch, UsesJwks
  <2>2. jwNow' <= jwAttempted' + JwTimeout BY <1>1, JwNumbers DEF JwInv, JwTyped
  <2> QED BY <1>1, <1>2, <2>1, <2>2 DEF JwFetching, UsesJwks
<1> QED BY <1>1, <1>3, <1>4, JwQuiet DEF JwInv

LEMMA JwAnswerKeeps == ASSUME JwInv, Answer PROVE JwInv'
<1>k. PICK ks : ks = key_set(jwIssuer) OBVIOUS
<1>1. /\ UNCHANGED <<jwOptions, jwNow, jwIssuer, jwKeys, jwFetched, jwAttempted, jwSince, jwUntil, jwFailing>>
      /\ jwFetch # NoFetch /\ jwFetch.answer = NoFetch /\ jwVerdict' = NoVerdict
      /\ jwFetch' = [jwFetch EXCEPT !.answer = [keys |-> ks]] BY <1>k DEF Answer
<1>2. JwTyped' /\ JwCached' BY <1>1, JwStays DEF JwInv, JwTyped
<1>3. /\ jwFetch.for \in JwTokens \cup Issued /\ jwFetch.for.alg \in {"RS256", "ES256"} /\ UsesJwks(jwFetch.for)
      /\ jwNow <= jwAttempted + JwTimeout /\ jwFetch = [for |-> jwFetch.for, answer |-> jwFetch.answer]
  BY <1>1 DEF JwInv, JwFetching
<1>4. /\ jwFetch' = [for |-> jwFetch.for, answer |-> [keys |-> ks]]
      /\ jwFetch'.for = jwFetch.for /\ jwFetch'.answer.keys = ks BY <1>1, <1>3
<1>5. jwIssuer \in [JwKids -> JwKeys \cup {NoKey}] BY DEF JwInv, JwTyped
<1>6. DOMAIN ks = {i \in JwKids : key_from_jwk(jwIssuer[i])} /\ \A i \in DOMAIN ks : ks[i] = jwIssuer[i]
  BY <1>k DEF key_set
<1>7. /\ DOMAIN ks \subseteq JwKids /\ (\A i \in JwKids : i \in DOMAIN ks <=> jwIssuer[i] \in JwUsable)
      /\ \A i \in DOMAIN ks : ks[i] = jwIssuer[i] BY <1>5, <1>6, JwUsables
<1>8. JwSet(ks) BY <1>7 DEF JwSet
<1>9. JwCurrent(ks, jwAttempted, 0) BY <1>7 DEF JwCurrent, JwPublished
<1>10. JwAgrees(ks, jwAttempted, 0) BY <1>7 DEF JwAgrees
<1>11. JwFetching'
  <2>1. jwFetch' = [for |-> jwFetch'.for, answer |-> jwFetch'.answer] /\ jwFetch' # NoFetch
    <3>1. DOMAIN jwFetch' = {"for", "answer"} /\ DOMAIN NoFetch = {"for"} BY <1>4 DEF NoFetch
    <3> QED BY <1>4, <3>1
  <2>2. JwSet(ks) /\ JwCurrent(ks, jwAttempted, 0)' /\ JwAgrees(ks, jwAttempted, 0)'
    BY <1>1, <1>8, <1>9, <1>10 DEF JwCurrent, JwAgrees, JwPublished
  <2>4. PICK f : f = jwFetch.for OBVIOUS
  <2>5. jwFetch'.for = f /\ f \in JwTokens \cup Issued /\ f.alg \in {"RS256", "ES256"} /\ UsesJwks(f)'
    BY <1>1, <1>3, <1>4, <2>4 DEF UsesJwks
  <2>6. jwNow' <= jwAttempted' + JwTimeout BY <1>1, <1>3
  <2> QED BY <1>4, <2>1, <2>2, <2>5, <2>6 DEF JwFetching, UsesJwks, JwCurrent, JwAgrees, JwPublished
<1> QED BY <1>1, <1>2, <1>11, JwQuiet DEF JwInv

LEMMA JwRotateKeeps ==
  ASSUME JwInv, NEW kid \in JwKids, NEW key \in JwPublishes[kid], Rotate(kid, key)
  PROVE  JwInv'
<1> DEFINE old == jwIssuer[kid]
<1>1. /\ UNCHANGED <<jwOptions, jwNow, jwKeys, jwFetched, jwAttempted, jwFetch, jwFailing>> /\ jwVerdict' = NoVerdict
      /\ jwIssuer' = [jwIssuer EXCEPT ![kid] = key] /\ jwSince' = [jwSince EXCEPT ![kid] = jwNow]
      /\ jwUntil' = [k \in JwKeys |-> IF k = old THEN jwNow ELSE jwUntil[k]] BY DEF Rotate
<1>2. JwTyped /\ JwCached /\ JwFetching BY DEF JwInv
<1>3. key \in JwKeys \cup {NoKey} BY JwAssumption DEF JwAssumption
<1>4. /\ jwNow \in Nat /\ jwFetched \in Nat /\ jwAttempted \in Nat /\ jwFetched <= jwNow /\ jwAttempted <= jwNow
      /\ jwIssuer \in [JwKids -> JwKeys \cup {NoKey}] /\ jwSince \in [JwKids -> Nat] /\ jwUntil \in [JwKeys -> Nat]
      /\ JwSet(jwKeys) BY <1>2 DEF JwTyped
<1>5. /\ jwIssuer' \in [JwKids -> JwKeys \cup {NoKey}] /\ jwSince' \in [JwKids -> Nat] /\ jwUntil' \in [JwKeys -> Nat]
  BY <1>1, <1>3, <1>4
<1>6. JwTyped' BY <1>1, <1>2, <1>5 DEF JwTyped, JwSet
<1>7. ASSUME NEW ks, JwSet(ks), NEW at \in Nat, at <= jwNow, NEW slack \in Nat, JwCurrent(ks, at, slack)
      PROVE  JwCurrent(ks, at, slack)'
  <2> SUFFICES ASSUME NEW i \in DOMAIN ks PROVE JwPublished(ks[i])' \/ at <= jwUntil'[ks[i]] + slack BY DEF JwCurrent
  <2>1. ks[i] \in JwKeys BY <1>7, JwUsables DEF JwSet
  <2>2. CASE ks[i] = old
    <3>1. jwUntil'[ks[i]] = jwNow BY <1>1, <2>1, <2>2
    <3> QED BY <1>4, <1>7, <3>1
  <2>3. CASE ks[i] # old
    <3>1. jwUntil'[ks[i]] = jwUntil[ks[i]] BY <1>1, <2>1, <2>3
    <3>2. JwPublished(ks[i]) => JwPublished(ks[i])' BY <1>1, <1>4, <2>3 DEF JwPublished
    <3> QED BY <1>7, <3>1, <3>2 DEF JwCurrent
  <2> QED BY <2>2, <2>3
<1>8. ASSUME NEW ks, NEW at \in Nat, at <= jwNow, NEW slack \in Nat, JwAgrees(ks, at, slack)
      PROVE  JwAgrees(ks, at, slack)'
  <2> SUFFICES ASSUME NEW i \in JwKids, jwIssuer'[i] \in JwUsable
               PROVE  (i \in DOMAIN ks /\ ks[i] = jwIssuer'[i]) \/ at <= jwSince'[i] + slack BY DEF JwAgrees
  <2>1. CASE i = kid
    <3>1. jwSince'[i] = jwNow BY <1>1, <1>4, <2>1
    <3> QED BY <1>4, <1>8, <3>1
  <2>2. CASE i # kid
    <3>1. jwSince'[i] = jwSince[i] /\ jwIssuer'[i] = jwIssuer[i] BY <1>1, <1>4, <2>2
    <3> QED BY <1>8, <3>1 DEF JwAgrees
  <2> QED BY <2>1, <2>2
<1>9. JwCached' BY <1>1, <1>2, <1>4, <1>7, <1>8, JwNumbers DEF JwCached, JwCurrent, JwAgrees, JwPublished
<1>10. JwFetching'
  <2>1. CASE jwFetch = NoFetch BY <1>1, <1>2, <2>1 DEF JwFetching
  <2>2. CASE jwFetch # NoFetch
    <3>1. jwFetch.answer # NoFetch =>
              /\ JwSet(jwFetch.answer.keys)
              /\ JwCurrent(jwFetch.answer.keys, jwAttempted, 0)' /\ JwAgrees(jwFetch.answer.keys, jwAttempted, 0)'
      <4> SUFFICES ASSUME jwFetch.answer # NoFetch
                   PROVE  /\ JwSet(jwFetch.answer.keys)
                          /\ JwCurrent(jwFetch.answer.keys, jwAttempted, 0)' /\ JwAgrees(jwFetch.answer.keys, jwAttempted, 0)'
        OBVIOUS
      <4>1. PICK ks : ks = jwFetch.answer.keys OBVIOUS
      <4>2. PICK at : at = jwAttempted OBVIOUS
      <4>3. jwFetch'.answer.keys = ks /\ jwAttempted' = at BY <1>1, <4>1, <4>2
      <4>4. JwSet(ks) /\ JwCurrent(ks, at, 0) /\ JwAgrees(ks, at, 0) BY <1>2, <2>2, <4>1, <4>2 DEF JwFetching
      <4>5. JwCurrent(ks, at, 0)' /\ JwAgrees(ks, at, 0)' BY <1>4, <1>7, <1>8, <4>2, <4>4
      <4> QED BY <4>1, <4>3, <4>4, <4>5 DEF JwCurrent, JwAgrees, JwPublished
    <3> QED BY <1>1, <1>2, <2>2, <3>1 DEF JwFetching, UsesJwks, JwSet, JwCurrent, JwAgrees, JwPublished
  <2> QED BY <2>1, <2>2
<1> QED BY <1>1, <1>6, <1>9, <1>10, JwQuiet DEF JwInv

LEMMA JwTickKeeps == ASSUME JwInv, JwTick PROVE JwInv'
<1>1. /\ UNCHANGED <<jwOptions, jwIssuer, jwKeys, jwFetched, jwAttempted, jwFetch, jwSince, jwUntil, jwFailing>>
      /\ (jwFetch # NoFetch => jwNow < jwAttempted + JwTimeout) /\ jwNow' = jwNow + 1 /\ jwVerdict' = NoVerdict
  BY DEF JwTick
<1>2. JwTyped' /\ JwCached' BY <1>1 DEF JwInv, JwTyped, JwSet, JwCached, JwCurrent, JwAgrees, JwPublished
<1>3. JwFetching'
  <2>1. jwFetch # NoFetch => jwNow' <= jwAttempted + JwTimeout BY <1>1, JwNumbers DEF JwInv, JwTyped
  <2> QED BY <1>1, <2>1 DEF JwInv, JwFetching, UsesJwks, JwSet, JwCurrent, JwAgrees, JwPublished
<1> QED BY <1>1, <1>2, <1>3, JwQuiet DEF JwInv
LEMMA JwSooner == \A n \in Nat : n < n + JwHeld BY JwNumbers

LEMMA JwFetchedKeeps == ASSUME JwInv, NEW ok \in BOOLEAN, Fetched(ok) PROVE JwInv'
<1>1. PICK t : t = jwFetch.for OBVIOUS
<1>2. PICK keys : keys = IF ok THEN jwFetch.answer.keys ELSE jwKeys OBVIOUS
<1>3. PICK found : found = CASE t.kid = NoKid /\ Cardinality(DOMAIN keys) = 1 -> keys[CHOOSE i \in DOMAIN keys : TRUE]
                             [] t.kid \in DOMAIN keys -> keys[t.kid]
                             [] OTHER -> jwOptions.static OBVIOUS
<1> DEFINE good == found # NoKey /\ JwAlg[found] = t.alg /\ t.signer = found
           pass == good /\ valid_claims(t)
<1>4. /\ UNCHANGED <<jwOptions, jwNow, jwIssuer, jwAttempted, jwSince, jwUntil>>
      /\ jwFetch # NoFetch /\ (ok => jwFetch.answer # NoFetch)
      /\ jwKeys' = keys /\ jwFetched' = (IF ok THEN jwNow ELSE jwFetched) /\ jwFailing' = ~ok /\ jwFetch' = NoFetch
      /\ jwVerdict' = [ok |-> pass, token |-> t, verified |-> good] BY <1>1, <1>2, <1>3, Zenon DEF Fetched
<1>5. /\ t \in JwTokens \cup Issued /\ t.alg \in {"RS256", "ES256"} /\ UsesJwks(t)
      /\ jwNow <= jwAttempted + JwTimeout BY <1>1, <1>4 DEF JwInv, JwFetching
<1>6. /\ jwNow \in Nat /\ jwFetched \in Nat /\ jwAttempted \in Nat /\ jwFetched <= jwNow /\ jwAttempted <= jwNow
      /\ jwIssuer \in [JwKids -> JwKeys \cup {NoKey}] /\ jwSince \in [JwKids -> Nat] /\ jwUntil \in [JwKeys -> Nat]
      /\ JwSet(jwKeys) BY DEF JwInv, JwTyped
<1>7. JwSet(keys) /\ (ok => JwCurrent(keys, jwAttempted, 0) /\ JwAgrees(keys, jwAttempted, 0))
  BY <1>2, <1>4, <1>6 DEF JwInv, JwFetching
<1>8. ok => JwCurrent(keys, jwNow, JwTimeout) /\ JwAgrees(keys, jwNow, JwTimeout)
  <2> HAVE ok
  <2>1. ASSUME NEW i \in DOMAIN keys PROVE JwPublished(keys[i]) \/ jwNow <= jwUntil[keys[i]] + JwTimeout
    <3>1. jwUntil[keys[i]] \in Nat BY <1>6, <1>7, JwUsables DEF JwSet
    <3>2. JwPublished(keys[i]) \/ jwAttempted <= jwUntil[keys[i]] + 0 BY <1>7 DEF JwCurrent
    <3> QED BY <1>5, <1>6, <3>1, <3>2, JwNumbers
  <2>2. ASSUME NEW i \in JwKids, jwIssuer[i] \in JwUsable
        PROVE  (i \in DOMAIN keys /\ keys[i] = jwIssuer[i]) \/ jwNow <= jwSince[i] + JwTimeout
    <3>1. jwSince[i] \in Nat BY <1>6
    <3>2. (i \in DOMAIN keys /\ keys[i] = jwIssuer[i]) \/ jwAttempted <= jwSince[i] + 0 BY <1>7, <2>2 DEF JwAgrees
    <3> QED BY <1>5, <1>6, <3>1, <3>2, JwNumbers
  <2> QED BY <2>1, <2>2 DEF JwCurrent, JwAgrees
<1>9. JwTyped' BY <1>4, <1>6, <1>7 DEF JwInv, JwTyped, JwSet
<1>10. JwCached'
  <2>1. CASE ok BY <1>4, <1>8, <2>1 DEF JwCached, JwCurrent, JwAgrees, JwPublished
  <2>2. CASE ~ok BY <1>2, <1>4, <2>2 DEF JwInv, JwCached, JwCurrent, JwAgrees, JwPublished
  <2> QED BY <2>1, <2>2
<1>11. JwFetching' BY <1>4, <1>6 DEF JwFetching
<1>12. NoKid \notin JwKids BY JwAssumption, Zenon DEF JwAssumption
<1>13. found = jwOptions.static \/ \E i \in DOMAIN keys : found = keys[i]
  <2>1. CASE t.kid = NoKid /\ Cardinality(DOMAIN keys) = 1
    <3>1. t.kid \notin DOMAIN keys BY <1>7, <1>12, <2>1 DEF JwSet
    <3>2. found = keys[CHOOSE i \in DOMAIN keys : TRUE] BY <1>3, <2>1, <3>1
    <3> QED BY <2>1, <3>2, JwOnlyOne
  <2>2. CASE ~(t.kid = NoKid /\ Cardinality(DOMAIN keys) = 1) BY <1>3, <2>2
  <2> QED BY <2>1, <2>2
<1>14. t.kid \in DOMAIN keys => found = keys[t.kid] BY <1>3, <1>7, <1>12 DEF JwSet
<1>15. pass => t.signer # JwSecret /\ t.alg # "HS256"
  <2>1. jwOptions.static \in JwKeys \cup {NoKey} BY JwAssumption DEF JwInv, JwTyped, JwAssumption
  <2>2. found \in JwKeys \cup {NoKey} BY <1>7, <1>13, <2>1, JwUsables DEF JwSet
  <2>3. JwSecret \notin JwKeys \cup {NoKey} BY JwAssumption, Zenon DEF JwAssumption
  <2> QED BY <1>5, <2>2, <2>3
<1>16. pass => \/ t.signer \in {JwSecret, jwOptions.static} \/ ~ok
               \/ JwPublished(t.signer) \/ jwNow < jwUntil[t.signer] + JwHeld + JwTimeout
  <2> SUFFICES ASSUME pass, t.signer # jwOptions.static, ok, ~JwPublished(t.signer)
               PROVE  jwNow < jwUntil[t.signer] + JwHeld + JwTimeout OBVIOUS
  <2>1. PICK i \in DOMAIN keys : t.signer = keys[i] BY <1>13
  <2>2. jwUntil[keys[i]] \in Nat BY <1>6, <1>7, JwUsables DEF JwSet
  <2>3. jwNow <= jwUntil[keys[i]] + JwTimeout BY <1>8, <2>1 DEF JwCurrent
  <2> QED BY <1>6, <2>1, <2>2, <2>3, JwNumbers
<1>17. jwOptions.jwks /\ t.kid \in JwKids /\ jwIssuer[t.kid] = t.signer /\ t.alg = JwAlg[t.signer] /\ t.alg # "" /\ ~good =>
            \/ ~ok
            \/ /\ jwSince[t.kid] + JwTimeout >= jwNow
               /\ \/ t.kid \in DOMAIN keys /\ jwNow < jwNow + JwHeld
                  \/ t.kid \notin DOMAIN keys
  <2> SUFFICES ASSUME t.kid \in JwKids, jwIssuer[t.kid] = t.signer, t.alg = JwAlg[t.signer], t.alg # "", ~good, ok
               PROVE  jwSince[t.kid] + JwTimeout >= jwNow /\ jwNow < jwNow + JwHeld OBVIOUS
  <2>1. t.signer # NoKey BY <1>5, JwToken
  <2>2. t.signer \in JwUsable BY <1>6, <2>1 DEF JwUsable
  <2>3. found # t.signer BY <2>1
  <2>4. jwNow <= jwSince[t.kid] + JwTimeout BY <1>8, <1>14, <2>2, <2>3 DEF JwAgrees
  <2>5. jwSince[t.kid] \in Nat BY <1>6
  <2>6. jwNow < jwNow + JwHeld
    <3>1. jwNow \in Nat BY <1>6
    <3>2. \A n \in Nat : n < n + JwHeld BY JwSooner
    <3> QED BY <3>1, <3>2
  <2>7. PICK since : since = jwSince[t.kid] OBVIOUS
  <2>8. since + JwTimeout >= jwNow
    <3>1. jwNow \in Nat /\ since \in Nat /\ jwNow <= since + JwTimeout BY <1>6, <2>4, <2>5, <2>7
    <3> QED BY <3>1, JwNumbers
  <2> QED BY <2>6, <2>7, <2>8
<1>18. t.iat # 0 /\ good => (pass <=> jwNow <= t.exp + JwLeeway /\ (t.nbf = NoClaim \/ jwNow >= t.nbf - JwLeeway))
  BY <1>5, <1>6, JwClaims
<1> HIDE DEF pass, good
<1>19. TokensSound'
  <2>1. pass => \/ t.signer \in {JwSecret, jwOptions'.static} \/ jwFailing'
                \/ JwPublished(t.signer)' \/ jwNow' < jwUntil'[t.signer] + JwHeld + JwTimeout
    BY <1>4, <1>16 DEF JwPublished
  <2>2. jwOptions'.jwks /\ t.kid \in JwKids /\ jwIssuer'[t.kid] = t.signer /\ t.alg = JwAlg[t.signer] /\ t.alg # "" /\ ~good =>
            \/ jwFailing'
            \/ /\ jwSince'[t.kid] + JwTimeout >= jwFetched'
               /\ \/ t.kid \in DOMAIN jwKeys' /\ jwNow' < jwFetched' + JwHeld
                  \/ t.kid \notin DOMAIN jwKeys' /\ (jwFetched' = jwNow' \/ jwNow' < jwAttempted' + JwMinRefetch)
    BY <1>4, <1>17
  <2> QED BY <1>4, <1>15, <1>18, <2>1, <2>2, JwVerdictSound
<1> QED BY <1>9, <1>10, <1>11, <1>19 DEF JwInv

LEMMA JwStep == JwInv /\ [JwNext]_jwVars => JwInv'
<1> SUFFICES ASSUME JwInv, [JwNext]_jwVars PROVE JwInv' OBVIOUS
<1>1. CASE UNCHANGED jwVars
  BY <1>1 DEF jwVars, JwInv, JwTyped, JwSet, JwCached, JwFetching, JwCurrent, JwAgrees, JwPublished, UsesJwks, TokensSound
<1>2. CASE \E t \in JwTokens \cup Issued : Authorize(t) \/ fetch_locked(t) BY <1>2, JwAuthorizeKeeps, JwFetchKeeps
<1>3. CASE Answer \/ \E ok \in BOOLEAN : Fetched(ok) BY <1>3, JwAnswerKeeps, JwFetchedKeeps
<1>4. CASE (\E kid \in JwKids : \E key \in JwPublishes[kid] : Rotate(kid, key)) \/ JwTick
  BY <1>4, JwRotateKeeps, JwTickKeeps
<1> QED BY <1>1, <1>2, <1>3, <1>4 DEF JwNext

LEMMA JwHolds == JwInv => JwTypeOK /\ TokensSound BY DEF JwInv, JwTyped, JwSet, JwTypeOK

\* A login succeeds once, where it began, and a form only with a token of the
\* browser's own pages (OAuth2 callback_handler, Csrf::operator()).
THEOREM FlowsAreOwned == BfSpec => [](BfTypeOK /\ FlowsOwned)
<1> QED BY BfStarted, BfStep, BfHolds, PTL DEF BfSpec

\* A token is accepted by a key that is, or lately was, the issuer's, and not
\* refused when the issuer's key is known (JwksCache::find, jwt_auth).
THEOREM TokensAreJudged == JwSpec => [](JwTypeOK /\ TokensSound)
<1> QED BY JwStarted, JwStep, JwHolds, PTL DEF JwSpec

\* Nobody is taken for somebody else (jwt_auth, OAuth2, csrf).
THEOREM CredentialsAreSound == JwSpec /\ BfSpec => []CredentialsSound
<1>1. (JwTypeOK /\ TokensSound) /\ (BfTypeOK /\ FlowsOwned) => CredentialsSound BY DEF CredentialsSound
<1> QED BY <1>1, TokensAreJudged, FlowsAreOwned, PTL
----
\* The limiters (RateLimiter, DistributedRateLimiter): a bucket that is full
\* may be forgotten, and elapsed seconds add up.

LEMMA LmSizes == /\ LmMaxRequests \in Nat /\ LmWindow \in Nat /\ LmWindow > 0 /\ LmMaxTracked \in Nat /\ LmMaxTracked > 0
                 /\ capacity \in Nat /\ One_ = LmWindow /\ (LmMaxRequests > 0 => capacity >= LmWindow)
<1>1. LmMaxRequests \in Nat /\ LmWindow \in Nat /\ LmWindow > 0 /\ LmMaxTracked \in Nat /\ LmMaxTracked > 0
  BY LmAssumption DEF LmAssumption
<1>2. capacity \in Nat BY <1>1 DEF capacity
<1>3. LmMaxRequests > 0 => capacity >= LmWindow
  <2> SUFFICES ASSUME LmMaxRequests > 0 PROVE capacity >= LmWindow OBVIOUS
  <2>1. PICK m \in Nat : LmMaxRequests = m + 1 BY <1>1
  <2>2. (m + 1) * LmWindow = m * LmWindow + LmWindow /\ m * LmWindow \in Nat BY <1>1
  <2> QED BY <1>1, <2>1, <2>2 DEF capacity
<1> QED BY <1>1, <1>2, <1>3 DEF One_

LEMMA LmRefills ==
  ASSUME NEW t \in 0..capacity, NEW age \in Nat
  PROVE  /\ Refilled(t, age) \in 0..capacity /\ Refilled(t, 0) = t
         /\ Refilled(t, age + 1) = Refilled(Refilled(t, age), 1)
         /\ age >= LmWindow => Refilled(t, age) = capacity
         /\ Refilled(t, age) >= t
<1>1. capacity \in Nat /\ LmMaxRequests \in Nat /\ LmWindow \in Nat BY LmSizes
<1>2. age * LmMaxRequests \in Nat /\ (age + 1) * LmMaxRequests = age * LmMaxRequests + LmMaxRequests /\ 0 * LmMaxRequests = 0
      /\ 1 * LmMaxRequests = LmMaxRequests BY <1>1
<1>3. age >= LmWindow => age * LmMaxRequests >= capacity
  <2> SUFFICES ASSUME age >= LmWindow PROVE age * LmMaxRequests >= capacity OBVIOUS
  <2>1. PICK more \in Nat : age = LmWindow + more BY <1>1
  <2>2. (LmWindow + more) * LmMaxRequests = LmMaxRequests * LmWindow + more * LmMaxRequests /\ more * LmMaxRequests \in Nat
    BY <1>1
  <2> QED BY <1>1, <2>1, <2>2 DEF capacity
<1> DEFINE refill == age * LmMaxRequests
<1>4. refill \in Nat /\ Refilled(t, age) = (IF capacity < t + refill THEN capacity ELSE t + refill)
      /\ Refilled(t, 0) = (IF capacity < t THEN capacity ELSE t)
      /\ Refilled(t, age + 1) = (IF capacity < t + refill + LmMaxRequests THEN capacity ELSE t + refill + LmMaxRequests)
  BY <1>1, <1>2 DEF Refilled, AtMost
<1>5. \A x \in Nat : Refilled(x, 1) = IF capacity < x + LmMaxRequests THEN capacity ELSE x + LmMaxRequests
  BY <1>1, <1>2 DEF Refilled, AtMost
<1>6. age >= LmWindow => refill >= capacity BY <1>3
<1> HIDE DEF refill
<1>7. Refilled(t, age) \in 0..capacity /\ Refilled(t, 0) = t /\ Refilled(t, age) >= t /\ Refilled(t, age) \in Nat
  BY <1>1, <1>4
<1>8. Refilled(t, age + 1) = Refilled(Refilled(t, age), 1)
  <2>1. Refilled(Refilled(t, age), 1) = IF capacity < Refilled(t, age) + LmMaxRequests THEN capacity ELSE Refilled(t, age) + LmMaxRequests
    BY <1>5, <1>7
  <2> QED BY <1>1, <1>4, <2>1
<1>9. age >= LmWindow => Refilled(t, age) = capacity BY <1>1, <1>4, <1>6
<1> QED BY <1>7, <1>8, <1>9

LEMMA LmRounds == ASSUME NEW m \in Nat, m > 0, NEW a \in Nat PROVE a \div m \in Nat /\ a < (a \div m) * m + m OBVIOUS

\* Whoever waits as long as it is told has a token.
LEMMA LmWaits ==
  ASSUME NEW t \in 0..capacity, LmMaxRequests > 0, t < One_
  PROVE  Refilled(t, Retry_after(t)) >= One_
<1>1. capacity \in Nat /\ LmMaxRequests \in Nat /\ LmWindow \in Nat /\ One_ = LmWindow /\ capacity >= LmWindow
  BY LmSizes
<1> DEFINE a == LmWindow - t + LmMaxRequests - 1
           q == a \div LmMaxRequests
<1>2. a \in Nat /\ a >= LmMaxRequests BY <1>1
<1>3. q \in Nat /\ a < q * LmMaxRequests + LmMaxRequests BY <1>1, <1>2, LmRounds
<1>4. Retry_after(t) = IF q < 1 THEN 1 ELSE q BY <1>1 DEF Retry_after
<1>5. q # 0
  <2>1. 0 * LmMaxRequests = 0 BY <1>1
  <2> QED BY <1>1, <1>2, <1>3, <2>1
<1>6. Retry_after(t) = q BY <1>3, <1>4, <1>5
<1>7. Refilled(t, q) = IF capacity < t + q * LmMaxRequests THEN capacity ELSE t + q * LmMaxRequests
  BY DEF Refilled, AtMost
<1> DEFINE refill == q * LmMaxRequests
<1>8. refill \in Nat BY <1>1, <1>3
<1>9. LmWindow - t + LmMaxRequests - 1 < refill + LmMaxRequests BY <1>3
<1>10. Refilled(t, q) = IF capacity < t + refill THEN capacity ELSE t + refill BY <1>7
<1> HIDE DEF a, q, refill
<1>11. t + refill >= LmWindow BY <1>1, <1>8, <1>9
<1> QED BY <1>1, <1>6, <1>8, <1>10, <1>11
\* What a bucket says, and the counters of Redis.
LmBuckets ==
  /\ DOMAIN buckets_ \subseteq LmClients /\ IsFiniteSet(DOMAIN buckets_) /\ Cardinality(DOMAIN buckets_) <= LmMaxTracked
  /\ \A k \in DOMAIN buckets_ : buckets_[k].tokens \in 0..capacity /\ buckets_[k].age \in 0..LmWindow
  /\ last_sweep_ \in 0..LmWindow /\ lmTrue \in [LmClients -> 0..capacity]
  /\ \A k \in LmClients : k \notin lmDropped => Tokens(k) = lmTrue[k]
LmCounters ==
  /\ lmCount \in [LmClients -> [n : Nat, left : 0..LmWindow]] /\ lmGranted \in [LmClients -> Nat]
  /\ \A k \in LmClients : /\ lmGranted[k] <= LmMaxRequests /\ lmGranted[k] <= lmCount[k].n
                          /\ lmCount[k].n > 0 => lmCount[k].left \in 1..LmWindow
LmInv == LmBuckets /\ LmCounters

LEMMA LmTokens == ASSUME LmBuckets, NEW k \in LmClients PROVE Tokens(k) \in 0..capacity
<1>1. CASE k \in DOMAIN buckets_
  <2>1. buckets_[k].tokens \in 0..capacity /\ buckets_[k].age \in Nat BY <1>1, LmSizes DEF LmBuckets
  <2> QED BY <1>1, <2>1, LmRefills DEF Tokens
<1>2. CASE k \notin DOMAIN buckets_ BY <1>2, LmSizes DEF Tokens
<1> QED BY <1>1, <1>2

LEMMA LmHolds == LmInv => LmTypeOK /\ LimitersExact
<1> SUFFICES ASSUME LmInv PROVE LmTypeOK /\ LimitersExact OBVIOUS
<1>1. ASSUME NEW k \in LmClients
      PROVE  LmMaxRequests > 0 /\ Tokens(k) < One_ => Refilled(Tokens(k), Retry_after(Tokens(k))) >= One_
  BY LmTokens, LmWaits DEF LmInv
<1> QED BY <1>1 DEF LmInv, LmBuckets, LmCounters, LmTypeOK, LimitersExact

LEMMA LmStarted == LmInit => LmInv
<1> SUFFICES ASSUME LmInit PROVE LmInv OBVIOUS
<1>1. /\ DOMAIN buckets_ = {} /\ last_sweep_ = 0 /\ lmCount = [k \in LmClients |-> NoCounter]
      /\ lmTrue = [k \in LmClients |-> capacity] /\ lmGranted = [k \in LmClients |-> 0] BY DEF LmInit
<1>2. LmBuckets BY <1>1, LmSizes, FS_EmptySet DEF LmBuckets, Tokens
<1>3. NoCounter \in [n : Nat, left : 0..LmWindow] /\ NoCounter.n = 0 BY LmSizes DEF NoCounter
<1>4. LmCounters BY <1>1, <1>3, LmSizes DEF LmCounters
<1> QED BY <1>2, <1>4 DEF LmInv

\* A step that leaves one half alone.
LEMMA LmBucketsStay == ASSUME LmBuckets, UNCHANGED <<buckets_, last_sweep_, lmTrue, lmDropped>> PROVE LmBuckets'
BY DEF LmBuckets, Tokens
LEMMA LmCountersStay == ASSUME LmCounters, UNCHANGED <<lmCount, lmGranted>> PROVE LmCounters' BY DEF LmCounters

LEMMA LmSecondKeeps == ASSUME LmInv, Second PROVE LmInv'
<1>s. /\ LmMaxRequests \in Nat /\ LmWindow \in Nat /\ LmWindow > 0 /\ capacity \in Nat BY LmSizes
<1>1. LmBuckets /\ LmCounters BY DEF LmInv
<1>2. /\ buckets_' = [k \in DOMAIN buckets_ |-> [tokens |-> buckets_[k].tokens, age |-> AtMost(LmWindow, buckets_[k].age + 1)]]
      /\ last_sweep_' = AtMost(LmWindow, last_sweep_ + 1)
      /\ lmTrue' = [k \in LmClients |-> Refilled(lmTrue[k], 1)]
      /\ lmDropped' = {k \in lmDropped : AtMost(Refilled(lmTrue[k], 1), Refilled(Tokens(k), 1)) < capacity}
  BY DEF Second
<1>3. \A a \in 0..LmWindow : AtMost(LmWindow, a + 1) \in 0..LmWindow /\ AtMost(LmWindow, a + 1) = IF a = LmWindow THEN a ELSE a + 1
  BY <1>s DEF AtMost
<1>4. DOMAIN buckets_' = DOMAIN buckets_ /\ \A k \in DOMAIN buckets_ :
        /\ buckets_'[k].tokens = buckets_[k].tokens /\ buckets_'[k].tokens \in 0..capacity
        /\ buckets_'[k].age = AtMost(LmWindow, buckets_[k].age + 1) /\ buckets_'[k].age \in 0..LmWindow
  BY <1>1, <1>2, <1>3 DEF LmBuckets
<1>5. last_sweep_' \in 0..LmWindow BY <1>1, <1>2, <1>3 DEF LmBuckets
<1>6. \A x \in 0..capacity : Refilled(x, 1) \in 0..capacity BY LmRefills
<1>7. lmTrue' \in [LmClients -> 0..capacity] BY <1>1, <1>2, <1>6 DEF LmBuckets
<1>8. ASSUME NEW k \in LmClients PROVE Tokens(k)' = Refilled(Tokens(k), 1)
  <2>1. CASE k \notin DOMAIN buckets_
    <3>1. Tokens(k)' = capacity /\ Tokens(k) = capacity BY <1>4, <2>1 DEF Tokens
    <3>2. Refilled(capacity, 1) >= capacity /\ Refilled(capacity, 1) \in 0..capacity BY <1>s, LmRefills
    <3> QED BY <1>s, <3>1, <3>2
  <2>2. CASE k \in DOMAIN buckets_
    <3> DEFINE t == buckets_[k].tokens
               age == buckets_[k].age
    <3>1. t \in 0..capacity /\ age \in 0..LmWindow /\ age \in Nat BY <1>s, <1>1, <2>2 DEF LmBuckets
    <3>2. Tokens(k) = Refilled(t, age) BY <2>2 DEF Tokens
    <3>3. Tokens(k)' = Refilled(t, IF age = LmWindow THEN age ELSE age + 1) BY <1>3, <1>4, <2>2, <3>1 DEF Tokens
    <3> HIDE DEF t, age
    <3>4. Refilled(t, age + 1) = Refilled(Refilled(t, age), 1) BY <3>1, LmRefills
    <3>5. CASE age # LmWindow BY <3>2, <3>3, <3>4, <3>5
    <3>6. CASE age = LmWindow
      <4>1. Refilled(t, age) = capacity /\ Refilled(t, age + 1) = capacity BY <1>s, <3>1, <3>6, LmRefills
      <4> QED BY <3>2, <3>3, <3>4, <3>6, <4>1
    <3> QED BY <3>5, <3>6
  <2> QED BY <2>1, <2>2
<1>9. ASSUME NEW k \in LmClients, k \notin lmDropped' PROVE Tokens(k)' = lmTrue'[k]
  <2>1. lmTrue'[k] = Refilled(lmTrue[k], 1) /\ lmTrue'[k] \in 0..capacity /\ Tokens(k)' = Refilled(Tokens(k), 1)
        /\ Tokens(k)' \in 0..capacity BY <1>1, <1>2, <1>6, <1>8, LmTokens DEF LmBuckets
  <2>2. CASE k \notin lmDropped BY <1>1, <2>1, <2>2 DEF LmBuckets
  <2>3. CASE k \in lmDropped
    <3>1. ~(AtMost(lmTrue'[k], Tokens(k)') < capacity) BY <1>2, <1>9, <2>1, <2>3
    <3> DEFINE x == lmTrue'[k]
               y == Tokens(k)'
    <3>2. x \in 0..capacity /\ y \in 0..capacity /\ ~(AtMost(x, y) < capacity) BY <2>1, <3>1
    <3> HIDE DEF x, y
    <3>3. x = y BY <1>s, <3>2 DEF AtMost
    <3> QED BY <3>3 DEF x, y
  <2> QED BY <2>2, <2>3
<1>10. LmBuckets' BY <1>1, <1>4, <1>5, <1>7, <1>9 DEF LmBuckets
<1>11. LmCounters'
  <2>1. /\ lmCount' = [k \in LmClients |-> IF lmCount[k].left <= 1 THEN NoCounter ELSE [n |-> lmCount[k].n, left |-> lmCount[k].left - 1]]
        /\ lmGranted' = [k \in LmClients |-> IF lmCount[k].left <= 1 THEN 0 ELSE lmGranted[k]] BY DEF Second
  <2>2. ASSUME NEW k \in LmClients
        PROVE  /\ lmCount'[k] \in [n : Nat, left : 0..LmWindow] /\ lmGranted'[k] \in Nat
               /\ lmGranted'[k] <= LmMaxRequests /\ lmGranted'[k] <= lmCount'[k].n
               /\ lmCount'[k].n > 0 => lmCount'[k].left \in 1..LmWindow
    <3>1. lmCount[k] \in [n : Nat, left : 0..LmWindow] /\ lmGranted[k] \in Nat /\ lmGranted[k] <= LmMaxRequests /\ lmGranted[k] <= lmCount[k].n
      BY <1>1 DEF LmCounters
    <3>2. CASE lmCount[k].left <= 1
      <4>1. lmCount'[k] = NoCounter /\ lmGranted'[k] = 0 BY <2>1, <3>2
      <4>2. NoCounter \in [n : Nat, left : 0..LmWindow] /\ NoCounter.n = 0 BY <1>s DEF NoCounter
      <4> QED BY <1>s, <4>1, <4>2
    <3>3. CASE ~(lmCount[k].left <= 1)
      <4>1. lmCount'[k] = [n |-> lmCount[k].n, left |-> lmCount[k].left - 1] /\ lmGranted'[k] = lmGranted[k]
        BY <2>1, <3>3
      <4>2. lmCount[k].n \in Nat /\ lmCount[k].left - 1 \in 1..LmWindow BY <1>s, <3>1, <3>3
      <4> QED BY <1>s, <3>1, <4>1, <4>2
    <3> QED BY <3>2, <3>3
  <2> QED BY <2>1, <2>2 DEF LmCounters
<1> QED BY <1>10, <1>11 DEF LmInv
LEMMA LmRequestKeeps == ASSUME LmInv, NEW k \in LmClients, LmRequest(k) PROVE LmInv'
<1>s. LmWindow \in Nat /\ LmWindow > 0 /\ LmMaxTracked \in Nat /\ LmMaxTracked > 0 /\ capacity \in Nat /\ One_ \in Nat
  BY LmSizes
<1>1. LmBuckets /\ LmCounters BY DEF LmInv
<1>2. PICK swept : swept = IF Swept THEN evict_refilled ELSE {} OBVIOUS
<1> DEFINE kept0 == DOMAIN buckets_ \ swept
<1>3. PICK kept \in RoomFor(k, kept0) : LmLimit(k, kept) /\ lmDropped' = lmDropped \cup (kept0 \ kept)
  BY <1>2 DEF LmRequest
<1>4. /\ last_sweep_' = (IF Swept THEN 0 ELSE last_sweep_)
      /\ lmTrue' = [lmTrue EXCEPT ![k] = IF lmTrue[k] >= One_ THEN lmTrue[k] - One_ ELSE lmTrue[k]]
      /\ UNCHANGED <<lmCount, lmGranted>> BY DEF LmRequest
<1> DEFINE full(c) == buckets_[c].tokens + buckets_[c].age * LmMaxRequests >= capacity
<1>5. \A c \in swept : c \in DOMAIN buckets_ /\ full(c) BY <1>2 DEF evict_refilled
<1>6. /\ kept \subseteq kept0 /\ kept \subseteq DOMAIN buckets_ /\ (k \in kept0 => kept = kept0)
      /\ IsFiniteSet(kept) /\ (k \notin kept => Cardinality(kept) < LmMaxTracked)
      /\ (k \in kept => Cardinality(kept) <= LmMaxTracked)
  <2>1. kept0 \subseteq DOMAIN buckets_ /\ IsFiniteSet(kept0) /\ Cardinality(kept0) <= Cardinality(DOMAIN buckets_)
    BY <1>1, FS_Subset DEF LmBuckets
  <2>2. CASE k \in kept0 \/ Cardinality(kept0) < LmMaxTracked
    <3>1. kept = kept0 BY <1>3, <2>2 DEF RoomFor
    <3>2. Cardinality(DOMAIN buckets_) \in Nat /\ Cardinality(kept0) \in Nat /\ Cardinality(DOMAIN buckets_) <= LmMaxTracked
      BY <1>1, <2>1, FS_CardinalityType DEF LmBuckets
    <3> QED BY <1>s, <2>1, <2>2, <3>1, <3>2
  <2>3. CASE ~(k \in kept0 \/ Cardinality(kept0) < LmMaxTracked)
    <3>1. kept \subseteq kept0 /\ Cardinality(kept) = LmMaxTracked - 1 BY <1>3, <2>3 DEF RoomFor
    <3>2. IsFiniteSet(kept) BY <2>1, <3>1, FS_Subset
    <3> QED BY <1>s, <2>1, <2>3, <3>1, <3>2
  <2> QED BY <2>2, <2>3
\* What the client has, and what is left of it.
<1> DEFINE tokens == IF k \in kept THEN Refilled(buckets_[k].tokens, buckets_[k].age) ELSE capacity
           left == IF tokens >= One_ THEN tokens - One_ ELSE tokens
<1>7. buckets_' = [c \in kept \cup {k} |-> IF c = k THEN [tokens |-> left, age |-> 0] ELSE buckets_[c]]
  BY <1>3 DEF LmLimit
<1>8. \A c \in LmClients : c \in swept => Tokens(c) = capacity
  <2> SUFFICES ASSUME NEW c \in LmClients, c \in swept PROVE Tokens(c) = capacity OBVIOUS
  <2>1. c \in DOMAIN buckets_ /\ buckets_[c].tokens + buckets_[c].age * LmMaxRequests >= capacity BY <1>5
  <2>2. Tokens(c) = AtMost(capacity, buckets_[c].tokens + buckets_[c].age * LmMaxRequests)
    BY <2>1 DEF Tokens, Refilled
  <2> DEFINE x == buckets_[c].tokens + buckets_[c].age * LmMaxRequests
  <2>3. x \in Nat BY <1>1, <2>1, LmSizes DEF LmBuckets
  <2>4. x >= capacity /\ Tokens(c) = AtMost(capacity, x) BY <2>1, <2>2
  <2> HIDE DEF x
  <2> QED BY <1>s, <2>3, <2>4 DEF AtMost
<1>9. tokens = Tokens(k)
  <2>1. CASE k \in kept BY <1>6, <2>1 DEF Tokens
  <2>2. CASE k \notin kept
    <3>1. k \notin DOMAIN buckets_ \/ k \in swept BY <1>6, <2>2
    <3>2. k \notin DOMAIN buckets_ => Tokens(k) = capacity BY DEF Tokens
    <3> QED BY <1>8, <2>2, <3>1, <3>2
  <2> QED BY <2>1, <2>2
<1>10. tokens \in 0..capacity BY <1>1, <1>9, LmTokens
<1>11. left = IF tokens >= One_ THEN tokens - One_ ELSE tokens OBVIOUS
<1> HIDE DEF tokens, left, full
<1>12. left \in 0..capacity BY <1>s, <1>10, <1>11
<1>13. DOMAIN buckets_' = kept \cup {k} /\ buckets_'[k] = [tokens |-> left, age |-> 0]
       /\ \A c \in kept : c # k => buckets_'[c] = buckets_[c] BY <1>7
<1>14. \A c \in DOMAIN buckets_' : buckets_'[c].tokens \in 0..capacity /\ buckets_'[c].age \in 0..LmWindow
  <2> SUFFICES ASSUME NEW c \in DOMAIN buckets_' PROVE buckets_'[c].tokens \in 0..capacity /\ buckets_'[c].age \in 0..LmWindow
    OBVIOUS
  <2>1. CASE c = k
    <3>1. buckets_'[c].tokens = left /\ buckets_'[c].age = 0 BY <1>13, <2>1
    <3> QED BY <1>s, <1>12, <3>1
  <2>2. CASE c # k BY <1>1, <1>6, <1>13, <2>2 DEF LmBuckets
  <2> QED BY <2>1, <2>2
<1>15. DOMAIN buckets_' \subseteq LmClients /\ IsFiniteSet(DOMAIN buckets_') /\ Cardinality(DOMAIN buckets_') <= LmMaxTracked
  <2>1. IsFiniteSet(kept \cup {k}) /\ Cardinality(kept) \in Nat
        /\ Cardinality(kept \cup {k}) = IF k \in kept THEN Cardinality(kept) ELSE Cardinality(kept) + 1
    BY <1>6, FS_AddElement, FS_CardinalityType
  <2>2. Cardinality(kept \cup {k}) <= LmMaxTracked BY <1>s, <1>6, <2>1
  <2> QED BY <1>1, <1>6, <1>13, <2>1, <2>2 DEF LmBuckets
<1>16. last_sweep_' \in 0..LmWindow BY <1>s, <1>1, <1>4 DEF LmBuckets
<1>17. lmTrue[k] \in 0..capacity /\ lmTrue \in [LmClients -> 0..capacity] BY <1>1 DEF LmBuckets
<1>18. lmTrue' \in [LmClients -> 0..capacity]
  <2>1. (IF lmTrue[k] >= One_ THEN lmTrue[k] - One_ ELSE lmTrue[k]) \in 0..capacity BY <1>s, <1>17
  <2> QED BY <1>4, <1>17, <2>1
<1>19. ASSUME NEW c \in LmClients, c \notin lmDropped' PROVE Tokens(c)' = lmTrue'[c]
  <2>0. c \notin lmDropped /\ Tokens(c) = lmTrue[c] BY <1>1, <1>3, <1>19 DEF LmBuckets
  <2>1. CASE c = k
    <3>1. lmTrue'[k] = left BY <1>4, <1>9, <1>11, <1>17, <2>0, <2>1
    <3>2. Tokens(k)' = Refilled(left, 0)
      <4>1. buckets_'[k].tokens = left /\ buckets_'[k].age = 0 /\ k \in DOMAIN buckets_' BY <1>13
      <4> QED BY <4>1 DEF Tokens
    <3> QED BY <1>12, <2>1, <3>1, <3>2, LmRefills
  <2>2. CASE c # k
    <3>1. lmTrue'[c] = lmTrue[c] BY <1>4, <1>17, <2>2
    <3>2. c \in kept => Tokens(c)' = Tokens(c) BY <1>6, <1>13, <2>2 DEF Tokens
    <3>3. c \notin kept => Tokens(c)' = capacity BY <1>13, <2>2 DEF Tokens
    <3>4. c \notin kept => c \notin DOMAIN buckets_ \/ c \in swept BY <1>3, <1>19
    <3>5. c \notin DOMAIN buckets_ => Tokens(c) = capacity BY DEF Tokens
    <3> QED BY <1>8, <2>0, <3>1, <3>2, <3>3, <3>4, <3>5
  <2> QED BY <2>1, <2>2
<1>20. LmBuckets' BY <1>14, <1>15, <1>16, <1>18, <1>19 DEF LmBuckets
<1> QED BY <1>1, <1>4, <1>20, LmCountersStay DEF LmInv

\* One more request is counted; whether it was granted too.
LEMMA LmCountKeeps ==
  ASSUME LmCounters, NEW k \in LmClients, lmCount' = [lmCount EXCEPT ![k] = incr_with_expiry(k)],
         \/ lmGranted' = lmGranted
         \/ lmGranted' = [lmGranted EXCEPT ![k] = IF incr_with_expiry(k).n <= LmMaxRequests THEN lmGranted[k] + 1 ELSE lmGranted[k]]
  PROVE  LmCounters'
<1>s. LmMaxRequests \in Nat /\ LmWindow \in Nat /\ LmWindow > 0 BY LmSizes
<1>1. PICK new : new = incr_with_expiry(k) OBVIOUS
<1>2. /\ lmCount[k] \in [n : Nat, left : 0..LmWindow] /\ lmGranted[k] \in Nat /\ lmGranted[k] <= LmMaxRequests
      /\ lmGranted[k] <= lmCount[k].n /\ (lmCount[k].n > 0 => lmCount[k].left \in 1..LmWindow) BY DEF LmCounters
<1>3. /\ new \in [n : Nat, left : 0..LmWindow] /\ new.n = lmCount[k].n + 1 /\ new.left \in 1..LmWindow
  <2>1. CASE lmCount[k].n = 0 BY <1>s, <1>1, <1>2, <2>1 DEF incr_with_expiry
  <2>2. CASE lmCount[k].n # 0
    <3>1. new = [n |-> lmCount[k].n + 1, left |-> lmCount[k].left] BY <1>1, <2>2 DEF incr_with_expiry
    <3>2. lmCount[k].n + 1 \in Nat /\ lmCount[k].left \in 1..LmWindow /\ lmCount[k].left \in 0..LmWindow
      BY <1>s, <1>2, <2>2
    <3> QED BY <3>1, <3>2
  <2> QED BY <2>1, <2>2
<1>4. lmCount' = [lmCount EXCEPT ![k] = new]
      /\ (lmGranted' = lmGranted \/ lmGranted' = [lmGranted EXCEPT ![k] = IF new.n <= LmMaxRequests THEN lmGranted[k] + 1 ELSE lmGranted[k]])
  BY <1>1
<1>5. PICK g : g = lmGranted'[k] OBVIOUS
<1>6. lmGranted' = [lmGranted EXCEPT ![k] = g] /\ (g = lmGranted[k] \/ (g = lmGranted[k] + 1 /\ new.n <= LmMaxRequests))
  BY <1>4, <1>5 DEF LmCounters
<1>7. g \in Nat /\ g <= LmMaxRequests /\ g <= new.n BY <1>s, <1>2, <1>3, <1>6
<1> QED BY <1>3, <1>4, <1>6, <1>7 DEF LmCounters

LEMMA LmStep == LmInv /\ [LmNext]_lmVars => LmInv'
<1> SUFFICES ASSUME LmInv, [LmNext]_lmVars PROVE LmInv' OBVIOUS
<1>1. CASE UNCHANGED lmVars BY <1>1, LmBucketsStay, LmCountersStay DEF lmVars, LmInv
<1>2. CASE Second BY <1>2, LmSecondKeeps
<1>3. CASE \E k \in LmClients : LmRequest(k) BY <1>3, LmRequestKeeps
<1>4. CASE \E k \in LmClients : RequestRedis(k) \/ RedisUnavailable(k)
  <2>1. PICK k \in LmClients : RequestRedis(k) \/ RedisUnavailable(k) BY <1>4
  <2>2. /\ lmCount' = [lmCount EXCEPT ![k] = incr_with_expiry(k)]
        /\ \/ lmGranted' = lmGranted
           \/ lmGranted' = [lmGranted EXCEPT ![k] = IF incr_with_expiry(k).n <= LmMaxRequests THEN lmGranted[k] + 1 ELSE lmGranted[k]]
        /\ UNCHANGED <<buckets_, last_sweep_, lmTrue, lmDropped>>
    <3>1. CASE RequestRedis(k) BY <3>1 DEF RequestRedis
    <3>2. CASE RedisUnavailable(k) BY <3>2 DEF RedisUnavailable
    <3> QED BY <2>1, <3>1, <3>2
  <2>3. LmCounters' BY <2>2, LmCountKeeps DEF LmInv
  <2> QED BY <2>2, <2>3, LmBucketsStay DEF LmInv
<1> QED BY <1>1, <1>2, <1>3, <1>4 DEF LmNext
----
\* Sessions (SessionManager): every id has at most one client, and what is
\* stored under it is that client's.

SmData == [id : SmIds, data : SUBSET SmClients]
\* sessions_: no id twice, and not more than there may be.
SmProper(store) == store \in Seq(SmData) /\ Len(store) <= SmMaxSessions
                   /\ \A i, j \in 1..Len(store) : store[i].id = store[j].id => i = j
SmWithin(few, many) == \A i \in 1..Len(few) : \E j \in 1..Len(many) : few[i] = many[j]

LEMMA SmSizes == SmMaxSessions \in Nat /\ SmMaxSessions > 0 /\ SmNone \notin SmIds BY SmAssumption DEF SmAssumption

LEMMA SmPlace ==
  ASSUME NEW store \in Seq(SmData), NEW id, Stored(store, id)
  PROVE  PlaceOf(store, id) \in 1..Len(store) /\ store[PlaceOf(store, id)].id = id
<1>1. DOMAIN store = 1..Len(store) OBVIOUS
<1> QED BY <1>1 DEF Stored, PlaceOf

LEMMA SmIsStored == ASSUME NEW store \in Seq(SmData), NEW id PROVE Stored(store, id) <=> \E i \in 1..Len(store) : store[i].id = id
<1>1. DOMAIN store = 1..Len(store) OBVIOUS
<1> QED BY <1>1 DEF Stored

LEMMA SmDrops ==
  ASSUME NEW store, SmProper(store), NEW id
  PROVE  /\ SmProper(Drop(store, id)) /\ SmWithin(Drop(store, id), store) /\ ~Stored(Drop(store, id), id)
         /\ Len(Drop(store, id)) = IF Stored(store, id) THEN Len(store) - 1 ELSE Len(store)
<1>1. store \in Seq(SmData) /\ Len(store) \in Nat /\ DOMAIN store = 1..Len(store) BY DEF SmProper
<1>2. CASE ~Stored(store, id) BY <1>1, <1>2 DEF Drop, SmWithin
<1>3. CASE Stored(store, id)
  <2> DEFINE n == Len(store)
             p == PlaceOf(store, id)
             rest == [i \in 1..(n - 1) |-> IF i < p THEN store[i] ELSE store[i + 1]]
  <2>1. Drop(store, id) = rest BY <1>3 DEF Drop
  <2>2. p \in 1..n /\ store[p].id = id /\ n \in Nat BY <1>1, <1>3, SmPlace
  <2>3. \A i \in 1..n : store[i] \in SmData BY <1>1
  <2>4. \A i \in 1..(n - 1) : rest[i] = IF i < p THEN store[i] ELSE store[i + 1] OBVIOUS
  <2>5. \A i \in 1..(n - 1) : rest[i] \in SmData BY <2>2, <2>3, <2>4
  <2>6. rest \in Seq(SmData) /\ Len(rest) = n - 1
    <3>1. n - 1 \in Nat BY <2>2
    <3>2. DOMAIN rest = 1..(n - 1) OBVIOUS
    <3> HIDE DEF n, p
    <3>3. rest = [i \in 1..(n - 1) |-> rest[i]] OBVIOUS
    <3>4. rest \in [1..(n - 1) -> SmData] BY <2>5, <3>3
    <3> HIDE DEF rest
    <3> QED BY <3>1, <3>4
  <2> HIDE DEF rest, p
  <2>7. ASSUME NEW i \in 1..(n - 1) PROVE \E j \in 1..n : rest[i] = store[j] /\ j # p /\ j = IF i < p THEN i ELSE i + 1
    BY <2>2, <2>4
  <2>8. SmWithin(rest, store) BY <2>6, <2>7 DEF SmWithin
  <2>9. \A i, j \in 1..n : store[i].id = store[j].id => i = j BY DEF SmProper
  <2>10. \A i, j \in 1..(n - 1) : rest[i].id = rest[j].id => i = j
    <3> SUFFICES ASSUME NEW i \in 1..(n - 1), NEW j \in 1..(n - 1), rest[i].id = rest[j].id PROVE i = j OBVIOUS
    <3>1. PICK a \in 1..n : rest[i] = store[a] /\ a = IF i < p THEN i ELSE i + 1 BY <2>7
    <3>2. PICK b \in 1..n : rest[j] = store[b] /\ b = IF j < p THEN j ELSE j + 1 BY <2>7
    <3>3. a = b BY <2>9, <3>1, <3>2
    <3> QED BY <2>2, <3>1, <3>2, <3>3
  <2>11. ~Stored(rest, id)
    <3>1. \A i \in 1..(n - 1) : rest[i].id # id BY <2>2, <2>7, <2>9
    <3> QED BY <2>6, <3>1, SmIsStored
  <2>12. n - 1 <= SmMaxSessions BY <1>1, SmSizes DEF SmProper
  <2> QED BY <1>3, <2>1, <2>6, <2>8, <2>10, <2>11, <2>12 DEF SmProper
<1> QED BY <1>2, <1>3

LEMMA SmTail ==
  ASSUME NEW store, SmProper(store), store # << >>
  PROVE  SmProper(Tail(store)) /\ SmWithin(Tail(store), store) /\ Len(Tail(store)) = Len(store) - 1
<1>1. store \in Seq(SmData) /\ Len(store) \in Nat /\ Len(store) # 0 BY EmptySeq DEF SmProper
<1>2. Tail(store) \in Seq(SmData) /\ Len(Tail(store)) = Len(store) - 1
      /\ \A i \in 1..(Len(store) - 1) : Tail(store)[i] = store[i + 1] /\ i + 1 \in 1..Len(store)
  BY <1>1, HeadTailProperties
<1>3. Len(store) - 1 <= SmMaxSessions BY <1>1, SmSizes DEF SmProper
<1>4. SmWithin(Tail(store), store) BY <1>2 DEF SmWithin
<1>5. \A i, j \in 1..(Len(store) - 1) : Tail(store)[i].id = Tail(store)[j].id => i = j
  <2> SUFFICES ASSUME NEW i \in 1..(Len(store) - 1), NEW j \in 1..(Len(store) - 1), store[i + 1].id = store[j + 1].id PROVE i = j
    BY <1>2
  <2>1. i + 1 \in 1..Len(store) /\ j + 1 \in 1..Len(store) BY <1>1
  <2>2. i + 1 = j + 1 BY <2>1 DEF SmProper
  <2> QED BY <2>2
<1> QED BY <1>2, <1>3, <1>4, <1>5 DEF SmProper

LEMMA SmSaves ==
  ASSUME NEW store, SmProper(store), NEW id \in SmIds, NEW data \in SUBSET SmClients
  PROVE  /\ SmProper(Saved(store, id, data))
         /\ \A i \in 1..Len(Saved(store, id, data)) :
              \/ Saved(store, id, data)[i] = [id |-> id, data |-> data]
              \/ \E j \in 1..Len(store) : Saved(store, id, data)[i] = store[j]
<1> DEFINE room == IF ~Stored(store, id) /\ Len(store) >= SmMaxSessions THEN Tail(store) ELSE store
           few == Drop(room, id)
           entry == [id |-> id, data |-> data]
           after == Append(few, entry)
<1>0. Saved(store, id, data) = after BY DEF Saved
<1>1. store \in Seq(SmData) /\ Len(store) \in Nat /\ Len(store) <= SmMaxSessions BY DEF SmProper
<1>2. /\ SmProper(room) /\ SmWithin(room, store)
      /\ Stored(room, id) \/ Len(room) < SmMaxSessions
  <2>1. CASE ~Stored(store, id) /\ Len(store) >= SmMaxSessions
    <3>1. store # << >> BY <1>1, <2>1, SmSizes, EmptySeq
    <3>2. room = Tail(store) BY <2>1
    <3> HIDE DEF room
    <3> QED BY <1>1, <3>1, <3>2, SmTail, SmSizes
  <2>2. CASE ~(~Stored(store, id) /\ Len(store) >= SmMaxSessions)
    <3>1. room = store BY <2>2
    <3> HIDE DEF room
    <3> QED BY <1>1, <2>2, <3>1, SmSizes DEF SmWithin
  <2> QED BY <2>1, <2>2
<1> HIDE DEF room
<1>3. /\ SmProper(few) /\ SmWithin(few, room) /\ ~Stored(few, id)
      /\ Len(few) = IF Stored(room, id) THEN Len(room) - 1 ELSE Len(room) BY <1>2, SmDrops
<1> HIDE DEF few
<1>4. few \in Seq(SmData) /\ Len(few) \in Nat /\ Len(few) < SmMaxSessions
  <2>1. few \in Seq(SmData) /\ Len(few) \in Nat /\ Len(room) \in Nat /\ Len(room) <= SmMaxSessions
    BY <1>2, <1>3 DEF SmProper
  <2> QED BY <1>2, <1>3, <2>1, SmSizes
<1>5. entry \in SmData /\ entry.id = id BY DEF SmData
<1> HIDE DEF entry
<1>6. after \in Seq(SmData) /\ Len(after) = Len(few) + 1 /\ after[Len(few) + 1] = entry
      /\ \A i \in 1..Len(few) : after[i] = few[i] BY <1>4, <1>5, AppendProperties
<1> HIDE DEF after
<1>7. \A i \in 1..Len(few) : few[i].id # id BY <1>3, <1>4, SmIsStored
<1>8. \A i \in 1..Len(after) : i = Len(few) + 1 \/ i \in 1..Len(few) BY <1>4, <1>6
<1>9. \A i, j \in 1..Len(after) : after[i].id = after[j].id => i = j
  <2> SUFFICES ASSUME NEW i \in 1..Len(after), NEW j \in 1..Len(after), after[i].id = after[j].id PROVE i = j OBVIOUS
  <2>1. CASE i \in 1..Len(few) /\ j \in 1..Len(few) BY <1>3, <1>6, <2>1 DEF SmProper
  <2>2. CASE i = Len(few) + 1 \/ j = Len(few) + 1 BY <1>5, <1>6, <1>7, <1>8, <2>2
  <2> QED BY <1>8, <2>1, <2>2
<1>10. Len(after) <= SmMaxSessions BY <1>4, <1>6, SmSizes
<1>11. ASSUME NEW i \in 1..Len(after) PROVE after[i] = entry \/ \E j \in 1..Len(store) : after[i] = store[j]
  <2>1. CASE i = Len(few) + 1 BY <1>6, <2>1
  <2>2. CASE i \in 1..Len(few)
    <3>1. PICK j \in 1..Len(room) : few[i] = room[j] BY <1>3, <2>2 DEF SmWithin
    <3>2. PICK m \in 1..Len(store) : room[j] = store[m] BY <1>2 DEF SmWithin
    <3> QED BY <1>6, <2>2, <3>1, <3>2
  <2> QED BY <1>8, <2>1, <2>2
<1> QED BY <1>0, <1>6, <1>9, <1>10, <1>11 DEF SmProper, entry

SmIdsOrNone == SmIds \cup {SmNone}
SmSessions == [at : {"idle", "handler", "save"}, client : SmClients \cup {SmNone}, id : SmIdsOrNone, previous : SmIdsOrNone,
               data : SUBSET SmClients, isNew : BOOLEAN, dirty : BOOLEAN, destroyed : BOOLEAN]
SmTyped ==
  /\ SmProper(smStore) /\ smReq \in [SmRequests -> SmSessions] /\ smHeld \in [SmClients -> SUBSET smUsed]
  /\ smUsed \subseteq SmIds /\ smRetired \subseteq smUsed

\* Client c has the id x: in its cookie, or in the session of a request.
SmHas(c, x) == x # SmNone /\ (x \in smHeld[c] \/ \E r \in SmRequests : /\ smReq[r].at # "idle" /\ smReq[r].client = c
                                                                       /\ x \in {smReq[r].id, smReq[r].previous})
SmOwned ==
  /\ \A c, d \in SmClients, x \in SmIds : SmHas(c, x) /\ SmHas(d, x) => c = d
  /\ \A c \in SmClients, x \in SmIds : SmHas(c, x) => x \in smUsed

\* A session in use; an id that was ended is saved by none.
SmGood(s) ==
  s.at # "idle" =>
    /\ s.client \in SmClients /\ s.id \in smUsed /\ s.previous \in smUsed \cup {SmNone} /\ s.previous # s.id
    /\ s.data \subseteq {s.client} /\ (s.id \in smRetired => s.destroyed)
SmAsked == \A r \in SmRequests : SmGood(smReq[r])

\* What is stored under an id is its client's.
SmEntry(e) == e.id \in smUsed /\ e.id \notin smRetired /\ \A c \in SmClients : SmHas(c, e.id) => e.data \subseteq {c}
SmKept == \A i \in 1..Len(smStore) : SmEntry(smStore[i])

SmInv == SmTyped /\ SmOwned /\ SmAsked /\ SmKept

LEMMA SmNew == NoSession \in SmSessions /\ NoSession.at = "idle" BY DEF NoSession, SmSessions, SmIdsOrNone

LEMMA SmFresh == ASSUME SmInv, SmIds # smUsed PROVE generate_session_id \in SmIds \ smUsed
BY DEF SmInv, SmTyped, generate_session_id

LEMMA SmStarted == SmInit => SmInv
<1> SUFFICES ASSUME SmInit PROVE SmInv OBVIOUS
<1>1. /\ smStore = << >> /\ smReq = [r \in SmRequests |-> NoSession] /\ smHeld = [c \in SmClients |-> {}]
      /\ smUsed = {} /\ smRetired = {} BY DEF SmInit
<1>2. Len(smStore) = 0 /\ SmProper(smStore) BY <1>1, SmSizes, EmptySeq DEF SmProper
<1>3. SmTyped BY <1>1, <1>2, SmNew DEF SmTyped
<1>4. \A c \in SmClients, x \in SmIds : ~SmHas(c, x) BY <1>1, SmNew DEF SmHas
<1>5. SmAsked BY <1>1, SmNew DEF SmAsked, SmGood
<1> QED BY <1>2, <1>3, <1>4, <1>5 DEF SmInv, SmOwned, SmKept

LEMMA SmHolds == SmInv => SmTypeOK /\ SessionsApart
<1> SUFFICES ASSUME SmInv PROVE SmTypeOK /\ SessionsApart OBVIOUS
<1>1. \A c, d \in SmClients : c # d => smHeld[c] \cap smHeld[d] = {}
  <2> SUFFICES ASSUME NEW c \in SmClients, NEW d \in SmClients, c # d, NEW x \in smHeld[c] \cap smHeld[d] PROVE FALSE
    OBVIOUS
  <2>1. x \in SmIds /\ x # SmNone BY SmSizes DEF SmInv, SmTyped
  <2>2. SmHas(c, x) /\ SmHas(d, x) BY <2>1 DEF SmHas
  <2> QED BY <2>1, <2>2 DEF SmInv, SmOwned
<1>2. \A id \in smRetired : ~Stored(smStore, id) BY SmIsStored DEF SmInv, SmTyped, SmProper, SmKept, SmEntry
<1>3. \A r \in SmRequests : smReq[r].at # "idle" => smReq[r].data \subseteq {smReq[r].client}
  BY DEF SmInv, SmAsked, SmGood
<1> QED BY <1>1, <1>2, <1>3 DEF SmInv, SmTyped, SmProper, SmTypeOK, SessionsApart

\* Who has what after a step in which client o may have got the new id f.
LEMMA SmOwnersMove ==
  ASSUME SmInv, NEW f \in SmIds, NEW o \in SmClients, smUsed' = smUsed \/ (f \notin smUsed /\ smUsed' = smUsed \cup {f}),
         \A c \in SmClients, x \in SmIds : SmHas(c, x)' => SmHas(c, x) \/ (f \notin smUsed /\ f \in smUsed' /\ c = o /\ x = f)
  PROVE  SmOwned'
<1>1. ASSUME NEW c \in SmClients, NEW x \in SmIds, SmHas(c, x) PROVE x \in smUsed BY <1>1 DEF SmInv, SmOwned
<1>2. \A c, d \in SmClients, x \in SmIds : SmHas(c, x)' /\ SmHas(d, x)' => c = d BY <1>1 DEF SmInv, SmOwned
<1>3. \A c \in SmClients, x \in SmIds : SmHas(c, x)' => x \in smUsed' BY <1>1
<1> QED BY <1>2, <1>3 DEF SmOwned

\* What stays in the store, when no id ends.
LEMMA SmEntriesStay ==
  ASSUME SmInv, NEW f \in SmIds, NEW o \in SmClients, smUsed \subseteq smUsed', smRetired' = smRetired,
         \A c \in SmClients, x \in SmIds : SmHas(c, x)' => SmHas(c, x) \/ (f \notin smUsed /\ c = o /\ x = f),
         NEW e, \E i \in 1..Len(smStore) : e = smStore[i]
  PROVE  SmEntry(e)'
<1>1. smStore \in Seq(SmData) BY DEF SmInv, SmTyped, SmProper
<1>2. e \in SmData /\ SmEntry(e) BY <1>1 DEF SmInv, SmKept
<1>3. e.id \in SmIds /\ e.id \in smUsed BY <1>2 DEF SmData, SmEntry
<1> QED BY <1>2, <1>3 DEF SmEntry

\* The sessions of the other requests stay in order.
LEMMA SmRequestsMove ==
  ASSUME SmInv, NEW r \in SmRequests, NEW s \in SmSessions, smReq' = [smReq EXCEPT ![r] = s],
         smUsed \subseteq smUsed', smRetired' = smRetired, SmGood(s)'
  PROVE  smReq' \in [SmRequests -> SmSessions] /\ SmAsked' /\ \A q \in SmRequests : smReq'[q] = IF q = r THEN s ELSE smReq[q]
<1>1. smReq' \in [SmRequests -> SmSessions] /\ \A q \in SmRequests : smReq'[q] = IF q = r THEN s ELSE smReq[q]
  BY DEF SmInv, SmTyped
<1>2. ASSUME NEW q \in SmRequests PROVE SmGood(smReq[q])' \/ smReq'[q] # smReq[q] BY DEF SmInv, SmAsked, SmGood
<1> QED BY <1>1, <1>2 DEF SmInv, SmAsked, SmGood
\* A step that only changes the session of r to s.
LEMMA SmHandlerKeeps ==
  ASSUME SmInv, NEW r \in SmRequests, smReq[r].at = "handler", NEW s \in SmSessions, s.at = "handler", s.client = smReq[r].client,
         smReq' = [smReq EXCEPT ![r] = s], UNCHANGED <<smStore, smHeld, smRetired, smUsed>>,
         s.id = smReq[r].id, s.previous = smReq[r].previous, s.data \subseteq smReq[r].data \cup {s.client},
         s.destroyed \/ ~smReq[r].destroyed
  PROVE  SmInv'
<1>1. smReq[r].client \in SmClients /\ SmGood(smReq[r]) BY DEF SmInv, SmAsked, SmGood
<1>2. SmGood(s)' BY <1>1 DEF SmGood
<1>3. smReq' \in [SmRequests -> SmSessions] /\ SmAsked' /\ \A q \in SmRequests : smReq'[q] = IF q = r THEN s ELSE smReq[q]
  BY <1>2, SmRequestsMove
<1>4. \A c \in SmClients, x \in SmIds : SmHas(c, x)' => SmHas(c, x) BY <1>3 DEF SmHas
<1>5. SmOwned' BY <1>4 DEF SmInv, SmOwned
<1>6. SmKept' BY <1>4 DEF SmInv, SmKept, SmEntry, SmTyped, SmProper, SmData
<1> QED BY <1>3, <1>5, <1>6 DEF SmInv, SmTyped

LEMMA SmMine ==
  ASSUME SmInv, NEW r \in SmRequests, smReq[r].at # "idle"
  PROVE  /\ smReq[r] \in SmSessions /\ smReq[r].client \in SmClients /\ SmGood(smReq[r])
         /\ smReq[r].id \in SmIds \cap smUsed /\ smReq[r].previous \in smUsed \cup {SmNone} /\ SmHas(smReq[r].client, smReq[r].id)
<1>1. smReq[r] \in SmSessions /\ SmGood(smReq[r]) /\ smUsed \subseteq SmIds BY DEF SmInv, SmTyped, SmAsked
<1>2. smReq[r].client \in SmClients /\ smReq[r].id \in SmIds \cap smUsed /\ smReq[r].previous \in smUsed \cup {SmNone}
  BY <1>1 DEF SmGood
<1> QED BY <1>1, <1>2, SmSizes DEF SmHas

LEMMA SmSetKeeps == ASSUME SmInv, NEW r \in SmRequests, set(r) \/ erase(r) \/ destroy(r) PROVE SmInv'
<1>1. smReq[r].at = "handler" /\ UNCHANGED <<smStore, smHeld, smRetired, smUsed>> BY DEF set, erase, destroy, Handler
<1>2. smReq[r] \in SmSessions /\ smReq[r].client \in SmClients BY <1>1, SmMine
<1>3. PICK was : was = smReq[r] OBVIOUS
<1> DEFINE s1 == [was EXCEPT !.data = was.data \cup {was.client}, !.dirty = TRUE]
           s2 == [was EXCEPT !.data = {}, !.dirty = TRUE]
           s3 == [was EXCEPT !.destroyed = TRUE, !.data = {}]
<1>4. /\ s1 \in SmSessions /\ s1.at = was.at /\ s1.client = was.client /\ s1.id = was.id /\ s1.previous = was.previous
      /\ s1.data = was.data \cup {was.client} /\ s1.destroyed = was.destroyed BY <1>2, <1>3 DEF SmSessions
<1>5. /\ s2 \in SmSessions /\ s2.at = was.at /\ s2.client = was.client /\ s2.id = was.id /\ s2.previous = was.previous
      /\ s2.data = {} /\ s2.destroyed = was.destroyed BY <1>2, <1>3 DEF SmSessions
<1>6. /\ s3 \in SmSessions /\ s3.at = was.at /\ s3.client = was.client /\ s3.id = was.id /\ s3.previous = was.previous
      /\ s3.data = {} /\ s3.destroyed BY <1>2, <1>3 DEF SmSessions
<1>7. \/ smReq' = [smReq EXCEPT ![r] = s1] /\ ~was.destroyed
      \/ smReq' = [smReq EXCEPT ![r] = s2] /\ ~was.destroyed
      \/ smReq' = [smReq EXCEPT ![r] = s3] BY <1>3 DEF set, erase, destroy, Handler
<1> HIDE DEF s1, s2, s3
<1>8. PICK s \in {s1, s2, s3} : smReq' = [smReq EXCEPT ![r] = s] /\ (s = s3 \/ ~was.destroyed) BY <1>7
<1>9. /\ s \in SmSessions /\ s.at = "handler" /\ s.client = smReq[r].client /\ s.id = smReq[r].id /\ s.previous = smReq[r].previous
      /\ s.data \subseteq smReq[r].data \cup {s.client} /\ (s.destroyed \/ ~smReq[r].destroyed)
  BY <1>1, <1>3, <1>4, <1>5, <1>6, <1>8
<1> QED BY <1>1, <1>8, <1>9, SmHandlerKeeps

LEMMA SmRegenerateKeeps == ASSUME SmInv, NEW r \in SmRequests, regenerate(r) PROVE SmInv'
<1>1. PICK was : was = smReq[r] OBVIOUS
<1>2. was.at = "handler" /\ UNCHANGED <<smStore, smHeld, smRetired>> /\ SmIds # smUsed /\ ~was.destroyed
  BY <1>1 DEF regenerate, Handler
<1>3. PICK f : f = generate_session_id OBVIOUS
<1> DEFINE ended == IF was.previous = SmNone /\ ~was.isNew THEN was.id ELSE was.previous
           s == [was EXCEPT !.previous = ended, !.id = f, !.dirty = TRUE]
<1>4. f \in SmIds \ smUsed /\ smUsed' = smUsed \cup {f} /\ smReq' = [smReq EXCEPT ![r] = s]
  BY <1>1, <1>2, <1>3, SmFresh DEF regenerate, Handler
<1>5. /\ was \in SmSessions /\ was.client \in SmClients /\ SmGood(was) /\ was.id \in SmIds \cap smUsed
      /\ was.previous \in smUsed \cup {SmNone} BY <1>1, <1>2, SmMine
<1>6. ended \in smUsed \cup {SmNone} /\ ended \in {was.id, was.previous} /\ ended \in SmIdsOrNone
  BY <1>5 DEF SmInv, SmTyped, SmIdsOrNone
<1> HIDE DEF ended
<1>7. /\ s \in SmSessions /\ s.at = "handler" /\ s.client = was.client /\ s.id = f /\ s.previous = ended
      /\ s.data = was.data /\ s.destroyed = was.destroyed BY <1>2, <1>4, <1>5, <1>6 DEF SmSessions, SmIdsOrNone
<1> HIDE DEF s
<1>8. SmGood(s)'
  <2>1. f # SmNone /\ f \notin smRetired BY <1>4, SmSizes DEF SmInv, SmTyped
  <2> QED BY <1>2, <1>4, <1>5, <1>6, <1>7, <2>1 DEF SmGood
<1>9. smReq' \in [SmRequests -> SmSessions] /\ SmAsked' /\ \A q \in SmRequests : smReq'[q] = IF q = r THEN s ELSE smReq[q]
  BY <1>2, <1>4, <1>7, <1>8, SmRequestsMove
<1>10. \A c \in SmClients, x \in SmIds : SmHas(c, x)' => SmHas(c, x) \/ (c = was.client /\ x = f)
  BY <1>1, <1>2, <1>6, <1>7, <1>9 DEF SmHas
<1>11. SmOwned' BY <1>4, <1>5, <1>10, SmOwnersMove
<1>12. SmKept'
  <2>1. \A i \in 1..Len(smStore) : SmEntry(smStore[i])'
    <3> SUFFICES ASSUME NEW i \in 1..Len(smStore) PROVE SmEntry(smStore[i])' OBVIOUS
    <3>1. PICK e : e = smStore[i] OBVIOUS
    <3>2. SmEntry(e)' BY <1>2, <1>4, <1>5, <1>10, <3>1, SmEntriesStay
    <3> QED BY <1>2, <3>1, <3>2 DEF SmEntry
  <2> QED BY <1>2, <2>1 DEF SmKept
<1>13. SmTyped' BY <1>2, <1>4, <1>9 DEF SmInv, SmTyped
<1> QED BY <1>9, <1>11, <1>12, <1>13 DEF SmInv
\* A step that puts an entry into the store, or one that is there already last.
LEMMA SmKeptBySaving ==
  ASSUME SmInv, NEW f \in SmIds, NEW o \in SmClients, smUsed \subseteq smUsed', smRetired' = smRetired,
         \A c \in SmClients, x \in SmIds : SmHas(c, x)' => SmHas(c, x) \/ (f \notin smUsed /\ c = o /\ x = f),
         NEW id \in SmIds, NEW data \in SUBSET SmClients, smStore' = Saved(smStore, id, data),
         SmEntry([id |-> id, data |-> data])'
  PROVE  SmKept' /\ SmProper(smStore')
<1>1. /\ SmProper(smStore')
      /\ \A i \in 1..Len(smStore') : smStore'[i] = [id |-> id, data |-> data] \/ \E j \in 1..Len(smStore) : smStore'[i] = smStore[j]
  BY SmSaves DEF SmInv, SmTyped
<1>2. ASSUME NEW i \in 1..Len(smStore') PROVE SmEntry(smStore[i])'
  <2>1. PICK e : e = smStore'[i] OBVIOUS
  <2>2. SmEntry(e)'
    <3>1. CASE e = [id |-> id, data |-> data] BY <3>1
    <3>2. CASE \E j \in 1..Len(smStore) : e = smStore[j] BY <3>2, SmEntriesStay
    <3> QED BY <1>1, <2>1, <3>1, <3>2
  <2> QED BY <2>1, <2>2 DEF SmEntry
<1> QED BY <1>1, <1>2 DEF SmKept

LEMMA SmKeptAsIs ==
  ASSUME SmInv, NEW f \in SmIds, NEW o \in SmClients, smUsed \subseteq smUsed', smRetired' = smRetired,
         \A c \in SmClients, x \in SmIds : SmHas(c, x)' => SmHas(c, x) \/ (f \notin smUsed /\ c = o /\ x = f),
         SmWithin(smStore', smStore)
  PROVE  SmKept'
<1> SUFFICES ASSUME NEW i \in 1..Len(smStore') PROVE SmEntry(smStore[i])' BY DEF SmKept
<1>1. PICK e : e = smStore'[i] OBVIOUS
<1>2. \E j \in 1..Len(smStore) : e = smStore[j] BY <1>1 DEF SmWithin
<1>3. SmEntry(e)' BY <1>2, SmEntriesStay
<1> QED BY <1>1, <1>3 DEF SmEntry

LEMMA SmLoadKeeps ==
  ASSUME SmInv, NEW r \in SmRequests, NEW c \in SmClients, NEW cookie \in smHeld[c] \cup {SmNone}, Load(r, c, cookie)
  PROVE  SmInv'
<1>0. UNCHANGED <<smSave, smHeld, smRetired>> /\ smReq[r].at = "idle" BY DEF Load
<1>t. /\ SmProper(smStore) /\ smReq \in [SmRequests -> SmSessions] /\ smHeld \in [SmClients -> SUBSET smUsed] /\ smUsed \subseteq SmIds
      /\ smRetired \subseteq smUsed /\ smStore \in Seq(SmData) /\ \A i \in 1..Len(smStore) : smStore[i] \in SmData
  BY DEF SmInv, SmTyped, SmProper
<1>1. CASE Stored(smStore, cookie)
  <2>1. PICK place \in 1..Len(smStore) : place = PlaceOf(smStore, cookie) /\ smStore[place].id = cookie
    BY <1>1, <1>t, SmPlace
  <2>2. PICK data : data = smStore[place].data OBVIOUS
  <2> DEFINE s == [NoSession EXCEPT !.at = "handler", !.client = c, !.id = cookie, !.data = data]
  <2>3. smReq' = [smReq EXCEPT ![r] = s] /\ smStore' = Saved(smStore, cookie, data) /\ smUsed' = smUsed
    BY <1>1, <2>1, <2>2 DEF Load, Touched, DataOf
  <2>4. data \in SUBSET SmClients /\ cookie \in SmIds /\ cookie # SmNone /\ cookie \in smHeld[c] /\ SmEntry(smStore[place])
    BY <1>t, <2>1, <2>2, SmSizes DEF SmData, SmInv, SmKept
  <2>5. SmHas(c, cookie) BY <2>4 DEF SmHas
  <2>6. cookie \in smUsed /\ cookie \notin smRetired /\ data \subseteq {c}
        /\ \A d \in SmClients : SmHas(d, cookie) => data \subseteq {d} BY <2>1, <2>2, <2>4, <2>5 DEF SmEntry
  <2>7. /\ s \in SmSessions /\ s.at = "handler" /\ s.client = c /\ s.id = cookie /\ s.previous = SmNone /\ s.data = data
    BY <2>4 DEF NoSession, SmSessions, SmIdsOrNone
  <2> HIDE DEF s
  <2>8. SmGood(s)' BY <1>0, <2>3, <2>4, <2>6, <2>7 DEF SmGood
  <2>9. smReq' \in [SmRequests -> SmSessions] /\ SmAsked' /\ \A q \in SmRequests : smReq'[q] = IF q = r THEN s ELSE smReq[q]
    BY <1>0, <2>3, <2>7, <2>8, SmRequestsMove
  <2>10. \A d \in SmClients, x \in SmIds : SmHas(d, x)' => SmHas(d, x) BY <1>0, <2>5, <2>7, <2>9 DEF SmHas
  <2>11. SmOwned' BY <2>3, <2>10 DEF SmInv, SmOwned
  <2>12. SmEntry([id |-> cookie, data |-> data])' BY <1>0, <2>3, <2>4, <2>6, <2>10 DEF SmEntry
  <2>13. SmKept' /\ SmProper(smStore') BY <1>0, <2>3, <2>4, <2>10, <2>12, SmKeptBySaving
  <2>14. SmTyped' BY <1>0, <1>t, <2>3, <2>9, <2>13 DEF SmTyped
  <2> QED BY <2>9, <2>11, <2>13, <2>14 DEF SmInv
<1>2. CASE ~Stored(smStore, cookie)
  <2>1. PICK f : f = generate_session_id OBVIOUS
  <2> DEFINE s == [NoSession EXCEPT !.at = "handler", !.client = c, !.id = f, !.isNew = TRUE]
  <2>2. /\ SmIds # smUsed /\ smReq' = [smReq EXCEPT ![r] = s] /\ smUsed' = smUsed \cup {f}
        /\ smStore' = IF smSave THEN Saved(smStore, f, {}) ELSE smStore BY <1>2, <2>1 DEF Load
  <2>3. f \in SmIds \ smUsed /\ f # SmNone BY <2>1, <2>2, SmFresh, SmSizes
  <2>4. /\ s \in SmSessions /\ s.at = "handler" /\ s.client = c /\ s.id = f /\ s.previous = SmNone /\ s.data = {}
    BY <2>3 DEF NoSession, SmSessions, SmIdsOrNone
  <2> HIDE DEF s
  <2>5. SmGood(s)' BY <1>0, <1>t, <2>2, <2>3, <2>4 DEF SmGood
  <2>6. smReq' \in [SmRequests -> SmSessions] /\ SmAsked' /\ \A q \in SmRequests : smReq'[q] = IF q = r THEN s ELSE smReq[q]
    BY <1>0, <2>2, <2>4, <2>5, SmRequestsMove
  <2>7. \A d \in SmClients, x \in SmIds : SmHas(d, x)' => SmHas(d, x) \/ (d = c /\ x = f)
    BY <1>0, <2>4, <2>6 DEF SmHas
  <2>8. SmOwned' BY <2>2, <2>3, <2>7, SmOwnersMove
  <2>9. SmEntry([id |-> f, data |-> {}])' BY <1>0, <1>t, <2>2, <2>3 DEF SmEntry
  <2>10. SmKept' /\ SmProper(smStore')
    <3>1. CASE smSave
      <4>1. smStore' = Saved(smStore, f, {}) /\ smUsed \subseteq smUsed' BY <2>2, <3>1
      <4> QED BY <1>0, <2>3, <2>7, <2>9, <4>1, SmKeptBySaving
    <3>2. CASE ~smSave
      <4>1. SmWithin(smStore', smStore) /\ smStore' = smStore /\ smUsed \subseteq smUsed' BY <2>2, <3>2 DEF SmWithin
      <4> QED BY <1>0, <1>t, <2>3, <2>7, <4>1, SmKeptAsIs
    <3> QED BY <3>1, <3>2
  <2>11. SmTyped' BY <1>0, <1>t, <2>2, <2>3, <2>6, <2>10 DEF SmTyped
  <2> QED BY <2>6, <2>8, <2>10, <2>11 DEF SmInv
<1> QED BY <1>1, <1>2
LEMMA SmEndKeeps == ASSUME SmInv, NEW r \in SmRequests, End(r) PROVE SmInv'
<1>1. PICK was : was = smReq[r] OBVIOUS
<1> DEFINE s == [was EXCEPT !.at = "save"]
           gone == IF was.destroyed THEN {was.id} ELSE {}
           half == IF was.destroyed THEN Drop(smStore, was.id) ELSE smStore
<1>2. /\ was.at = "handler" /\ smReq' = [smReq EXCEPT ![r] = s] /\ UNCHANGED <<smHeld, smUsed>>
      /\ smStore' = Drop(half, was.previous)
      /\ smRetired' = smRetired \cup {i \in Ending(was) : Holders(i) \subseteq {r}} BY <1>1 DEF End
<1>3. /\ was \in SmSessions /\ was.client \in SmClients /\ SmGood(was) /\ was.id \in SmIds \cap smUsed
      /\ was.previous \in smUsed \cup {SmNone} /\ was.previous # was.id BY <1>1, <1>2, SmMine DEF SmGood
<1>4. /\ s \in SmSessions /\ s.at = "save" /\ s.client = was.client /\ s.id = was.id /\ s.previous = was.previous
      /\ s.data = was.data /\ s.destroyed = was.destroyed BY <1>3 DEF SmSessions
<1>t. /\ SmProper(smStore) /\ smReq \in [SmRequests -> SmSessions] /\ smHeld \in [SmClients -> SUBSET smUsed] /\ smUsed \subseteq SmIds
      /\ smRetired \subseteq smUsed BY DEF SmInv, SmTyped
<1>5. \A q \in SmRequests : smReq'[q] = IF q = r THEN s ELSE smReq[q] BY <1>2, <1>t
\* The ids that end are gone from the store.
<1>6. SmProper(half) /\ SmWithin(half, smStore) /\ (was.destroyed => ~Stored(half, was.id))
  <2>1. CASE was.destroyed BY <1>t, <2>1, SmDrops
  <2>2. CASE ~was.destroyed BY <1>t, <2>2 DEF SmWithin
  <2> QED BY <2>1, <2>2
<1> HIDE DEF half, s
<1>7. SmProper(smStore') /\ SmWithin(smStore', half) /\ ~Stored(smStore', was.previous) BY <1>2, <1>6, SmDrops
<1>8. SmWithin(smStore', smStore) BY <1>6, <1>7 DEF SmWithin
<1>9. was.destroyed => ~Stored(smStore', was.id)
  <2> SUFFICES ASSUME was.destroyed, Stored(smStore', was.id) PROVE FALSE OBVIOUS
  <2>1. PICK i \in 1..Len(smStore') : smStore'[i].id = was.id BY <1>7, SmIsStored DEF SmProper
  <2>2. PICK j \in 1..Len(half) : half[j].id = was.id BY <1>7, <2>1 DEF SmWithin
  <2> QED BY <1>6, <2>2, SmIsStored DEF SmProper
<1>10. \A i \in Ending(was) : ~Stored(smStore', i) /\ (i = was.previous \/ (i = was.id /\ was.destroyed)) /\ i \in smUsed
  BY <1>3, <1>7, <1>9 DEF Ending
<1>11. smRetired' \subseteq smUsed' BY <1>2, <1>t, <1>10
<1>12. \A c \in SmClients, x \in SmIds : SmHas(c, x)' => SmHas(c, x) BY <1>1, <1>2, <1>4, <1>5 DEF SmHas
<1>13. SmOwned' BY <1>2, <1>12 DEF SmInv, SmOwned
<1>14. SmAsked'
  <2> SUFFICES ASSUME NEW q \in SmRequests, smReq'[q].at # "idle", smReq'[q].id \in smRetired' PROVE smReq'[q].destroyed
    BY <1>1, <1>2, <1>3, <1>4, <1>5 DEF SmInv, SmAsked, SmGood
  <2>1. CASE smReq'[q].id \in smRetired BY <1>3, <1>2, <1>4, <1>5, <2>1 DEF SmInv, SmAsked, SmGood
  <2>2. CASE smReq'[q].id \in Ending(was) /\ Holders(smReq'[q].id) \subseteq {r}
    <3>1. smReq[q].at # "idle" /\ smReq[q].id = smReq'[q].id BY <1>1, <1>2, <1>4, <1>5
    <3>2. q = r BY <2>2, <3>1 DEF Holders
    <3>3. was.id \in Ending(was) BY <1>1, <2>2, <3>1, <3>2
    <3>4. was.destroyed BY <1>3, <1>10, <3>3
    <3> QED BY <1>4, <1>5, <3>2, <3>4
  <2> QED BY <1>2, <2>1, <2>2
<1>15. SmKept'
  <2> SUFFICES ASSUME NEW i \in 1..Len(smStore') PROVE SmEntry(smStore[i])' BY DEF SmKept
  <2>1. PICK e : e = smStore'[i] OBVIOUS
  <2>2. PICK j \in 1..Len(smStore) : e = smStore[j] BY <1>8, <2>1 DEF SmWithin
  <2>3. SmEntry(e) /\ e \in SmData BY <2>2, <1>t DEF SmInv, SmKept, SmProper
  <2>4. Stored(smStore', e.id) BY <1>7, <2>1, SmIsStored DEF SmProper
  <2>5. e.id \notin smRetired' BY <1>2, <1>10, <2>3, <2>4 DEF SmEntry
  <2>6. SmEntry(e)' BY <1>2, <1>12, <2>3, <2>5 DEF SmEntry, SmData
  <2> QED BY <2>1, <2>6 DEF SmEntry
<1>16. SmTyped' BY <1>2, <1>4, <1>7, <1>11, <1>t DEF SmTyped
<1> QED BY <1>13, <1>14, <1>15, <1>16 DEF SmInv

LEMMA SmSaveKeeps == ASSUME SmInv, NEW r \in SmRequests, Save(r) PROVE SmInv'
<1>1. PICK was : was = smReq[r] OBVIOUS
<1>2. PICK given \in {{}, {was.id}} : (given # {} => ~was.destroyed) /\ smHeld' = [smHeld EXCEPT ![was.client] = smHeld[was.client] \cup given]
  BY <1>1 DEF Save
<1>3. /\ was.at = "save" /\ smReq' = [smReq EXCEPT ![r] = NoSession] /\ UNCHANGED <<smUsed, smRetired>>
      /\ smStore' = IF ~was.destroyed /\ (was.dirty \/ (was.isNew /\ smSave)) THEN Saved(smStore, was.id, was.data) ELSE smStore
  BY <1>1 DEF Save
<1>4. /\ was \in SmSessions /\ was.client \in SmClients /\ SmGood(was) /\ was.id \in SmIds \cap smUsed
      /\ SmHas(was.client, was.id) BY <1>1, <1>3, SmMine
<1>t. /\ SmProper(smStore) /\ smReq \in [SmRequests -> SmSessions] /\ smHeld \in [SmClients -> SUBSET smUsed] /\ smUsed \subseteq SmIds
      /\ smRetired \subseteq smUsed BY DEF SmInv, SmTyped
<1>5. SmGood(NoSession)' BY SmNew DEF SmGood
<1>6. smReq' \in [SmRequests -> SmSessions] /\ SmAsked' /\ \A q \in SmRequests : smReq'[q] = IF q = r THEN NoSession ELSE smReq[q]
  BY <1>3, <1>5, SmNew, SmRequestsMove
<1>7. smHeld' \in [SmClients -> SUBSET smUsed'] /\ \A c \in SmClients : smHeld'[c] \subseteq smHeld[c] \cup (IF c = was.client THEN {was.id} ELSE {})
  BY <1>2, <1>3, <1>4, <1>t
<1>8. \A c \in SmClients, x \in SmIds : SmHas(c, x)' => SmHas(c, x)
  <2> SUFFICES ASSUME NEW c \in SmClients, NEW x \in SmIds, SmHas(c, x)' PROVE SmHas(c, x) OBVIOUS
  <2>1. CASE x \in smHeld'[c] BY <1>4, <1>7, <2>1, SmSizes DEF SmHas
  <2>2. CASE x \notin smHeld'[c] BY <1>6, <2>2, SmNew DEF SmHas
  <2> QED BY <2>1, <2>2
<1>9. SmOwned' BY <1>3, <1>8 DEF SmInv, SmOwned
<1>10. SmKept' /\ SmProper(smStore')
  <2>1. CASE ~was.destroyed /\ (was.dirty \/ (was.isNew /\ smSave))
    <3>1. smStore' = Saved(smStore, was.id, was.data) /\ was.data \in SUBSET SmClients
      BY <1>3, <1>4, <2>1 DEF SmSessions
    <3>2. SmEntry([id |-> was.id, data |-> was.data])'
      <4>1. was.id \notin smRetired /\ was.data \subseteq {was.client} BY <1>3, <1>4, <2>1 DEF SmGood
      <4>2. \A c \in SmClients : SmHas(c, was.id)' => c = was.client BY <1>4, <1>8 DEF SmInv, SmOwned
      <4> QED BY <1>3, <1>4, <4>1, <4>2 DEF SmEntry
    <3> QED BY <1>3, <1>4, <1>8, <3>1, <3>2, SmKeptBySaving
  <2>2. CASE ~(~was.destroyed /\ (was.dirty \/ (was.isNew /\ smSave)))
    <3>1. smStore' = smStore /\ SmWithin(smStore', smStore) BY <1>3, <2>2 DEF SmWithin
    <3> QED BY <1>3, <1>4, <1>8, <1>t, <3>1, SmKeptAsIs
  <2> QED BY <2>1, <2>2
<1>11. SmTyped' BY <1>3, <1>6, <1>7, <1>10, <1>t DEF SmTyped
<1> QED BY <1>6, <1>9, <1>10, <1>11 DEF SmInv

LEMMA SmExpireKeeps == ASSUME SmInv, Expire_ PROVE SmInv'
<1>1. smStore # << >> /\ smStore' = Tail(smStore) /\ UNCHANGED <<smReq, smHeld, smUsed, smRetired>> BY DEF Expire_
<1>2. SmProper(smStore') /\ SmWithin(smStore', smStore) BY <1>1, SmTail DEF SmInv, SmTyped
<1>3. \A c \in SmClients, x \in SmIds : SmHas(c, x)' <=> SmHas(c, x) BY <1>1 DEF SmHas
<1>4. SmKept'
  <2> SUFFICES ASSUME NEW i \in 1..Len(smStore') PROVE SmEntry(smStore[i])' BY DEF SmKept
  <2>1. PICK e : e = smStore'[i] OBVIOUS
  <2>2. PICK j \in 1..Len(smStore) : e = smStore[j] BY <1>2, <2>1 DEF SmWithin
  <2>3. SmEntry(e) BY <2>2 DEF SmInv, SmKept
  <2>4. SmEntry(e)' BY <1>1, <2>3 DEF SmEntry, SmHas
  <2> QED BY <2>1, <2>4 DEF SmEntry
<1> QED BY <1>1, <1>2, <1>3, <1>4 DEF SmInv, SmTyped, SmOwned, SmAsked, SmGood

LEMMA SmStep == SmInv /\ [SmNext]_smVars => SmInv'
<1> SUFFICES ASSUME SmInv, [SmNext]_smVars PROVE SmInv' OBVIOUS
<1>1. CASE UNCHANGED smVars BY <1>1 DEF smVars, SmInv, SmTyped, SmOwned, SmAsked, SmGood, SmKept, SmEntry, SmHas
<1>2. CASE \E r \in SmRequests : \E c \in SmClients : \E cookie \in smHeld[c] \cup {SmNone} : Load(r, c, cookie)
  BY <1>2, SmLoadKeeps
<1>3. CASE \E r \in SmRequests : set(r) \/ erase(r) \/ destroy(r) \/ regenerate(r)
  BY <1>3, SmSetKeeps, SmRegenerateKeeps
<1>4. CASE \E r \in SmRequests : End(r) \/ Save(r) BY <1>4, SmEndKeeps, SmSaveKeeps
<1>5. CASE Expire_ BY <1>5, SmExpireKeeps
<1> QED BY <1>1, <1>2, <1>3, <1>4, <1>5 DEF SmNext

\* The limiter that forgets grants what one that never forgets would, and the
\* shared counter never too much (RateLimiter, DistributedRateLimiter).
THEOREM LimitsAreExact == LmSpec => [](LmTypeOK /\ LimitersExact)
<1> QED BY LmStarted, LmStep, LmHolds, PTL DEF LmSpec

\* No session of one client shows another's data, and none that was ended comes
\* back (SessionManager).
THEOREM SessionsStayApart == SmSpec => [](SmTypeOK /\ SessionsApart)
<1> QED BY SmStarted, SmStep, SmHolds, PTL DEF SmSpec

\* What the server remembers of one client is not mistaken for another's
\* (RateLimiter, SessionManager).
THEOREM ClientsAreApart == LmSpec /\ SmSpec => []ClientsApart
<1>1. (LmTypeOK /\ LimitersExact) /\ (SmTypeOK /\ SessionsApart) => ClientsApart BY DEF ClientsApart
<1> QED BY <1>1, LimitsAreExact, SessionsStayApart, PTL

----
\* What is said step by step of a sequence.

LEMMA SmallestOf ==
  ASSUME NEW S \in SUBSET Nat, S # {}
  PROVE  \E n \in S : \A y \in S : n <= y
<1>1. \E n \in S : \A y \in S : <<y, n>> \notin OpToRel(<, Nat) BY NatLessThanWellFounded, WFMin, Zenon
<1>2. \A x, y \in Nat : y < x => <<y, x>> \in OpToRel(<, Nat) BY DEF OpToRel
<1>3. PICK n \in S : \A y \in S : ~(y < n) BY <1>1, <1>2, Zenon
<1>4. \A y \in S : n <= y BY <1>3
<1> QED BY <1>4, Zenon

LEMMA UpFromZero ==
  ASSUME NEW n \in Nat, NEW S, 0 \in S, \A i \in 1 .. n : i - 1 \in S => i \in S
  PROVE  \A i \in 0 .. n : i \in S
<1> DEFINE Bad == {i \in 0 .. n : i \notin S}
<1>1. CASE Bad = {} BY <1>1
<1>2. CASE Bad # {}
  <2>0. Bad \in SUBSET Nat OBVIOUS
  <2>1. PICK b \in Bad : \A y \in Bad : b <= y
    <3> HIDE DEF Bad
    <3> QED BY <1>2, <2>0, SmallestOf
  <2>2. b \in 1 .. n /\ b - 1 \notin Bad BY <2>1
  <2> QED BY <2>1, <2>2
<1> QED BY <1>1, <1>2

\* A value, and how the next one comes from it, give a sequence of values.
Course(n, S, c, step, f) == f \in [0 .. n -> S] /\ f[0] = c /\ \A i \in 1 .. n : f[i] = step[i][f[i - 1]]

LEMMA StepByStep ==
  ASSUME NEW n \in Nat, NEW S, NEW c \in S, NEW step, \A i \in 1 .. n : \A x \in S : step[i][x] \in S
  PROVE  \E f : Course(n, S, c, step, f)
<1> DEFINE Good == {k \in 0 .. n : \E f : Course(k, S, c, step, f)}
<1>1. 0 \in Good
  <2>1. Course(0, S, c, step, [i \in 0 .. 0 |-> c]) BY DEF Course
  <2> QED BY <2>1
<1>2. ASSUME NEW k \in 1 .. n, k - 1 \in Good PROVE k \in Good
  <2>1. PICK f : Course(k - 1, S, c, step, f) BY <1>2
  <2> DEFINE g == [i \in 0 .. k |-> IF i = k THEN step[k][f[k - 1]] ELSE f[i]]
  <2>2. g \in [0 .. k -> S] BY <2>1 DEF Course
  <2>3. g[0] = c BY <2>1 DEF Course
  <2>4. ASSUME NEW i \in 1 .. k PROVE g[i] = step[i][g[i - 1]] BY <2>1 DEF Course
  <2>5. Course(k, S, c, step, g)
    <3> HIDE DEF g
    <3> QED BY <2>2, <2>3, <2>4 DEF Course
  <2> QED BY <2>5
<1> HIDE DEF Good
<1>3. n \in Good
  <2>1. \A k \in 1 .. n : k - 1 \in Good => k \in Good BY <1>2
  <2>2. \A k \in 0 .. n : k \in Good BY <1>1, <2>1, UpFromZero, Zenon
  <2>3. n \in 0 .. n OBVIOUS
  <2> QED BY <2>2, <2>3
<1> QED BY <1>3 DEF Good

----
\* Router: what the search finds is what the registrations say.

RtSegs == Names \cup Params \cup {"*"}
Pattern == {p \in Seq(RtSegs) : \A i \in DOMAIN p : is_wildcard(p[i]) => i = Len(p)}

\* What is before the wildcard, if there is one.
Open(p) == IF wild(p) THEN Len(p) - 1 ELSE Len(p)

\* The pattern and the path agree in the first i segments.
Agree(p, q, i) == i <= Len(q) /\ \A j \in 1 .. i : Fits(p[j], q[j])
Literals(p, i) == {j \in 1 .. i : Literal(p[j])}

LEMMA OpenPart ==
  ASSUME NEW p \in Pattern
  PROVE  /\ Open(p) \in Nat /\ Open(p) <= Len(p)
         /\ Literals(p, Open(p)) = {i \in DOMAIN p : Literal(p[i])} BY DEF Open, wild, Pattern, Literals, Literal

LEMMA LiteralsCount ==
  ASSUME NEW p, NEW i \in Nat
  PROVE  /\ IsFiniteSet(Literals(p, i)) /\ Cardinality(Literals(p, i)) \in Nat
         /\ Literals(p, 0) = {} /\ Cardinality(Literals(p, 0)) = 0
         /\ i > 0 => Cardinality(Literals(p, i)) = Cardinality(Literals(p, i - 1)) + (IF Literal(p[i]) THEN 1 ELSE 0)
<1>1. \A k \in Nat : IsFiniteSet(Literals(p, k))
  <2> TAKE k \in Nat
  <2>1. IsFiniteSet(1 .. k) BY FS_Interval
  <2> QED BY <2>1, FS_Subset DEF Literals
<1>2. Literals(p, 0) = {} BY DEF Literals
<1>3. ASSUME i > 0 PROVE Cardinality(Literals(p, i)) = Cardinality(Literals(p, i - 1)) + (IF Literal(p[i]) THEN 1 ELSE 0)
  <2>1. CASE Literal(p[i])
    <3>1. Literals(p, i) = Literals(p, i - 1) \cup {i} /\ i \notin Literals(p, i - 1) BY <1>3, <2>1 DEF Literals
    <3>2. IsFiniteSet(Literals(p, i - 1)) BY <1>1, <1>3
    <3> QED BY <3>1, <3>2, <2>1, FS_AddElement
  <2>2. CASE ~Literal(p[i])
    <3>1. Literals(p, i) = Literals(p, i - 1) BY <1>3, <2>2 DEF Literals
    <3>2. Cardinality(Literals(p, i - 1)) \in Nat BY <1>1, <1>3, FS_CardinalityType
    <3> QED BY <3>1, <3>2, <2>2
  <2> QED BY <2>1, <2>2
<1> QED BY <1>1, <1>2, <1>3, FS_EmptySet, FS_CardinalityType

\* match_segments() tells whether all of the pattern fits, and its literals.
LEMMA MatchIs ==
  ASSUME NEW p \in Pattern, NEW q \in Seq(STRING)
  PROVE  match_segments(p, q) = IF Agree(p, q, Open(p)) /\ (wild(p) \/ Len(q) = Open(p))
                                THEN Cardinality({i \in DOMAIN p : Literal(p[i])}) ELSE -1
<1> DEFINE n == Open(p)
           count(i) == Cardinality(Literals(p, i))
           One(i, x) == IF x = -1 \/ i > Len(q) \/ ~Fits(p[i], q[i]) THEN -1 ELSE x + (IF Literal(p[i]) THEN 1 ELSE 0)
           step == [i \in 1 .. n |-> [x \in Int |-> One(i, x)]]
           Body(f) == [i \in 0 .. n |-> IF i = 0 THEN 0 ELSE One(i, f[i - 1])]
           upto == CHOOSE f : f = Body(f)
<1>1. n \in Nat /\ n <= Len(p) /\ Literals(p, n) = {i \in DOMAIN p : Literal(p[i])} BY OpenPart
<1>2. match_segments(p, q) = IF wild(p) \/ Len(q) = n THEN upto[n] ELSE -1 BY DEF match_segments, Open
<1>3. \A i \in 1 .. n : \A x \in Int : One(i, x) \in Int /\ step[i][x] = One(i, x) OBVIOUS
<1>4. PICK f : Course(n, Int, 0, step, f)
  <2> HIDE DEF step, n, One
  <2>1. \A i \in 1 .. n : \A x \in Int : step[i][x] \in Int BY <1>3
  <2>2. n \in Nat /\ 0 \in Int BY <1>1
  <2> HIDE DEF step
  <2> QED BY <2>1, <2>2, StepByStep
<1>5. f \in [0 .. n -> Int] /\ f[0] = 0 /\ \A i \in 1 .. n : f[i] = One(i, f[i - 1])
  <2>1. f \in [0 .. n -> Int] /\ f[0] = 0 /\ \A i \in 1 .. n : f[i] = step[i][f[i - 1]] BY <1>4 DEF Course
  <2>2. \A i \in 1 .. n : f[i - 1] \in Int BY <2>1, <1>1
  <2> HIDE DEF step, One
  <2> QED BY <2>1, <2>2, <1>3
<1>6. f = Body(f)
  <2> HIDE DEF One
  <2> QED BY <1>5
<1>7. upto = Body(upto)
  <2> HIDE DEF Body
  <2> QED BY <1>6
<1>8. upto[0] = 0 /\ \A i \in 1 .. n : upto[i] = One(i, upto[i - 1])
  <2> HIDE DEF One, upto
  <2> QED BY <1>7, <1>1
<1> HIDE DEF upto
<1>9. \A i \in 0 .. n : count(i) \in Nat /\ count(0) = 0 BY LiteralsCount, <1>1
<1>10. \A i \in 1 .. n : count(i) = count(i - 1) + (IF Literal(p[i]) THEN 1 ELSE 0) BY LiteralsCount, <1>1
<1> HIDE DEF count
<1> DEFINE Good == {i \in 0 .. n : upto[i] = IF Agree(p, q, i) THEN count(i) ELSE -1}
<1>11. 0 \in Good
  <2>1. Agree(p, q, 0) BY DEF Agree
  <2> QED BY <2>1, <1>8, <1>9, <1>1
<1>12. ASSUME NEW i \in 1 .. n, i - 1 \in Good PROVE i \in Good
  <2>1. Agree(p, q, i) <=> Agree(p, q, i - 1) /\ i <= Len(q) /\ Fits(p[i], q[i]) BY <1>1 DEF Agree
  <2>2. upto[i] = One(i, upto[i - 1]) /\ upto[i - 1] = IF Agree(p, q, i - 1) THEN count(i - 1) ELSE -1 BY <1>8, <1>12
  <2>3. count(i - 1) \in Nat /\ Len(q) \in Nat BY <1>9, <1>1
  <2>4. upto[i] = IF Agree(p, q, i) THEN count(i) ELSE -1 BY <2>1, <2>2, <2>3, <1>10
  <2> QED BY <2>4
<1>13. n \in Good
  <2> HIDE DEF Good
  <2>1. \A i \in 0 .. n : i \in Good BY <1>1, <1>11, <1>12, UpFromZero
  <2> QED BY <2>1, <1>1
<1> QED BY <1>13, <1>2, <1>1 DEF count

RtRoutes == {r \in [id : Nat \ {0}, method : Methods, path : Pattern, mws : Seq(Seq(Names)), errors : Groups_] :
               r.mws \in Seq({Prefix[r.errors]}) /\ IsPrefix(Prefix[r.errors], r.path)}
RtAsked == [path : Seq(STRING), tidy : BOOLEAN]

LEMMA RouteFacts ==
  ASSUME NEW r \in RtRoutes
  PROVE  /\ r.id \in Nat \ {0} /\ r # NoRoute /\ r.method \in Methods /\ r.path \in Pattern /\ r.errors \in Groups_
         /\ Fixed(r) \in Nat /\ Kind(r) \in {0, 1, 2}
         /\ Kind(r) = 0 <=> static(r.path)
         /\ ~static(r.path) => (Kind(r) = 2 <=> wild(r.path))
<1>1. r.id \in Nat \ {0} /\ r.method \in Methods /\ r.path \in Pattern /\ r.errors \in Groups_ BY DEF RtRoutes
<1>2. r # NoRoute BY <1>1 DEF NoRoute
<1>3. Fixed(r) \in Nat BY <1>1, OpenPart, LiteralsCount DEF Fixed
<1> QED BY <1>1, <1>2, <1>3 DEF Kind

LEMMA BeforeIs ==
  ASSUME NEW r \in RtRoutes, NEW s \in RtRoutes
  PROVE  Before(r, s) <=> \/ Kind(r) < Kind(s)
                          \/ /\ Kind(r) = Kind(s)
                             /\ Kind(r) = 0 => r.id > s.id
                             /\ Kind(r) = 1 => r.id < s.id
                             /\ Kind(r) = 2 => Fixed(r) > Fixed(s) \/ (Fixed(r) = Fixed(s) /\ r.id < s.id)
<1>1. Kind(r) \in {0, 1, 2} /\ Kind(s) \in {0, 1, 2} BY RouteFacts
<1>2. CASE Kind(r) = 0 BY <1>1, <1>2 DEF Before
<1>3. CASE Kind(r) = 1 BY <1>1, <1>3 DEF Before
<1>4. CASE Kind(r) = 2 BY <1>1, <1>4 DEF Before
<1> QED BY <1>1, <1>2, <1>3, <1>4

LEMMA BeforeOrders ==
  ASSUME NEW r \in RtRoutes, NEW s \in RtRoutes
  PROVE  /\ Before(r, s) => ~Before(s, r)
         /\ r.id # s.id => Before(r, s) \/ Before(s, r)
         /\ \A t \in RtRoutes : Before(r, s) /\ Before(s, t) => Before(r, t)
<1>1. \A x \in RtRoutes : x.id \in Nat /\ Fixed(x) \in Nat /\ Kind(x) \in {0, 1, 2} BY RouteFacts
<1>2. r.id \in Nat /\ Fixed(r) \in Nat /\ Kind(r) \in {0, 1, 2} /\ s.id \in Nat /\ Fixed(s) \in Nat /\ Kind(s) \in {0, 1, 2}
  BY <1>1
<1>3. Before(r, s) => ~Before(s, r) BY <1>2, BeforeIs
<1>4. r.id # s.id => Before(r, s) \/ Before(s, r) BY <1>2, BeforeIs
<1>5. ASSUME NEW t \in RtRoutes, Before(r, s), Before(s, t) PROVE Before(r, t)
  <2>1. t.id \in Nat /\ Fixed(t) \in Nat /\ Kind(t) \in {0, 1, 2} BY <1>1
  <2>2. /\ Before(r, t) <=> \/ Kind(r) < Kind(t)
                            \/ /\ Kind(r) = Kind(t)
                               /\ Kind(r) = 0 => r.id > t.id
                               /\ Kind(r) = 1 => r.id < t.id
                               /\ Kind(r) = 2 => Fixed(r) > Fixed(t) \/ (Fixed(r) = Fixed(t) /\ r.id < t.id)
    BY BeforeIs
  <2> QED BY <1>2, <1>5, <2>1, <2>2, BeforeIs
<1> QED BY <1>3, <1>4, <1>5

\* A request that a dynamic route matches is one it covers, by as many literals
\* as it has.
LEMMA MatchIsCover ==
  ASSUME NEW r \in RtRoutes, ~static(r.path), NEW m, NEW uri \in RtAsked
  PROVE  /\ match_segments(r.path, uri.path) \in Int
         /\ r.method = m /\ match_segments(r.path, uri.path) # -1 <=> Covers(r, m, uri)
         /\ Covers(r, m, uri) => match_segments(r.path, uri.path) = Fixed(r)
<1>1. r.path \in Pattern /\ uri.path \in Seq(STRING) /\ Fixed(r) \in Nat BY RouteFacts DEF RtAsked
<1>2. match_segments(r.path, uri.path) = IF Agree(r.path, uri.path, Open(r.path)) /\ (wild(r.path) \/ Len(uri.path) = Open(r.path))
                                         THEN Fixed(r) ELSE -1 BY <1>1, MatchIs DEF Fixed
<1>3. Covers(r, m, uri) <=> /\ r.method = m
                            /\ Agree(r.path, uri.path, Open(r.path)) /\ (wild(r.path) \/ Len(uri.path) = Open(r.path))
  <2>1. Open(r.path) \in Nat /\ Len(uri.path) \in Nat BY <1>1, OpenPart
  <2>2. Open(r.path) = IF wild(r.path) THEN Len(r.path) - 1 ELSE Len(r.path) BY DEF Open
  <2> QED BY <2>1, <2>2 DEF Covers, Agree
<1> QED BY <1>1, <1>2, <1>3

LEMMA StaticCover ==
  ASSUME NEW r \in RtRoutes, static(r.path), NEW m, NEW uri \in RtAsked
  PROVE  Covers(r, m, uri) <=> r.method = m /\ r.path = uri.path /\ uri.tidy
<1>1. r.path \in Seq(RtSegs) /\ uri.path \in Seq(STRING) /\ uri.tidy \in BOOLEAN BY DEF RtRoutes, RtAsked, Pattern
<1>2. ~wild(r.path) BY <1>1 DEF wild, static, Literal
<1>3. \A i \in 1 .. Len(r.path) : \A x : Fits(r.path[i], x) <=> r.path[i] = x
  <2> TAKE i \in 1 .. Len(r.path)
  <2> DEFINE seg == r.path[i]
  <2>1. Literal(seg) BY <1>1 DEF static
  <2>2. seg \notin Params /\ seg # "{n:int}" BY <2>1 DEF Literal, Params
  <2> HIDE DEF seg
  <2>3. \A x : Fits(seg, x) <=> seg = x BY <2>2 DEF Fits
  <2> QED BY <2>3 DEF seg
<1>4. Covers(r, m, uri) <=> /\ r.method = m /\ uri.tidy /\ Len(r.path) = Len(uri.path)
                            /\ \A i \in 1 .. Len(r.path) : r.path[i] = uri.path[i] BY <1>1, <1>2, <1>3 DEF Covers
<1>5. (Len(r.path) = Len(uri.path) /\ \A i \in 1 .. Len(r.path) : r.path[i] = uri.path[i]) <=> r.path = uri.path
  <2>1. ASSUME Len(r.path) = Len(uri.path), \A i \in 1 .. Len(r.path) : r.path[i] = uri.path[i] PROVE r.path = uri.path
    BY <1>1, <2>1, SeqEqual
  <2> QED BY <2>1
<1> QED BY <1>4, <1>5

----
\* What is registered, and the two tables the search reads.

RtBase ==
  /\ registered \in Seq(RtRoutes) /\ \A i \in DOMAIN registered : registered[i].id = i
  /\ handlers \in SUBSET Groups_ /\ middlewares_ \in Seq(Seq(Names))
  /\ local_middlewares_ \in [Groups_ -> Seq(Seq(Names))]
  /\ \A g \in Groups_ : local_middlewares_[g] \in Seq({Prefix[g]})

\* The other routes are in the order they were registered in, all of them.
DynamicKept ==
  /\ dynamic_routes_ \in Seq(RtRoutes) /\ Len(dynamic_routes_) <= Len(registered)
  /\ \A i \in DOMAIN dynamic_routes_ : /\ dynamic_routes_[i].id \in DOMAIN registered
                                       /\ registered[dynamic_routes_[i].id] = dynamic_routes_[i]
                                       /\ ~static(dynamic_routes_[i].path)
  /\ \A i, j \in DOMAIN dynamic_routes_ : i < j => dynamic_routes_[i].id < dynamic_routes_[j].id
  /\ \A k \in DOMAIN registered : ~static(registered[k].path) => \E i \in DOMAIN dynamic_routes_ : dynamic_routes_[i] = registered[k]

\* Of the static routes of a method and a path, the last one is kept.
StaticKept ==
  /\ \A key \in DOMAIN routes_ : /\ routes_[key].id \in DOMAIN registered
                                 /\ registered[routes_[key].id] = routes_[key]
                                 /\ static(routes_[key].path)
                                 /\ key = <<routes_[key].method, routes_[key].path>>
  /\ \A k \in DOMAIN registered : static(registered[k].path) =>
        /\ <<registered[k].method, registered[k].path>> \in DOMAIN routes_
        /\ k <= routes_[<<registered[k].method, registered[k].path>>].id

RtInv == RtBase /\ DynamicKept /\ StaticKept

\* Of the first k dynamic routes, x is what a request gets.
Picked(m, uri, k, x) ==
  \/ x = NoRoute /\ \A j \in 1 .. k : ~Covers(dynamic_routes_[j], m, uri)
  \/ \E i \in 1 .. k : /\ x = dynamic_routes_[i] /\ Covers(x, m, uri)
                       /\ \A j \in 1 .. k : Covers(dynamic_routes_[j], m, uri) => j = i \/ Before(x, dynamic_routes_[j])

LEMMA DynamicRoute ==
  ASSUME DynamicKept, NEW i \in 1 .. Len(dynamic_routes_)
  PROVE  /\ dynamic_routes_[i] \in RtRoutes /\ ~static(dynamic_routes_[i].path) /\ dynamic_routes_[i].id \in Nat
         /\ dynamic_routes_[i] # NoRoute /\ Kind(dynamic_routes_[i]) \in {1, 2}
         /\ Kind(dynamic_routes_[i]) = 2 <=> wild(dynamic_routes_[i].path)
         /\ \A j \in 1 .. Len(dynamic_routes_) : i < j => dynamic_routes_[i].id < dynamic_routes_[j].id
<1> DEFINE r == dynamic_routes_[i]
<1>1. r \in RtRoutes /\ ~static(r.path) /\ \A j \in 1 .. Len(dynamic_routes_) : i < j => r.id < dynamic_routes_[j].id
  BY DEF DynamicKept
<1> HIDE DEF r
<1>2. r.id \in Nat /\ r # NoRoute /\ Kind(r) \in {1, 2} /\ (Kind(r) = 2 <=> wild(r.path)) BY <1>1, RouteFacts
<1> QED BY <1>1, <1>2 DEF r

LEMMA BetterPicks ==
  ASSUME DynamicKept, NEW m, NEW uri \in RtAsked, NEW k \in 1 .. Len(dynamic_routes_), NEW x, Picked(m, uri, k - 1, x)
  PROVE  Picked(m, uri, k, Better(m, uri, x, dynamic_routes_[k]))
<1> DEFINE r == dynamic_routes_[k]
           d(j) == dynamic_routes_[j]
           hit(j) == Covers(d(j), m, uri)
<1>0. Len(dynamic_routes_) \in Nat BY DEF DynamicKept
<1>1. /\ r \in RtRoutes /\ ~static(r.path) /\ r.id \in Nat /\ r # NoRoute /\ Kind(r) \in {1, 2} /\ (Kind(r) = 2 <=> wild(r.path))
  BY DynamicRoute
<1>2. \A j \in 1 .. k - 1 : /\ d(j) \in RtRoutes /\ d(j) # NoRoute /\ ~static(d(j).path) /\ d(j).id \in Nat /\ d(j).id < r.id
                            /\ Kind(d(j)) \in {1, 2} /\ (Kind(d(j)) = 2 <=> wild(d(j).path)) BY DynamicRoute, <1>0
<1>3. /\ match_segments(r.path, uri.path) \in Int
      /\ r.method = m /\ match_segments(r.path, uri.path) # -1 <=> hit(k)
      /\ hit(k) => match_segments(r.path, uri.path) = Fixed(r) BY <1>1, MatchIsCover
<1>4. CASE x = NoRoute /\ \A j \in 1 .. k - 1 : ~hit(j)
  <2>1. CASE hit(k)
    <3>1. Better(m, uri, x, r) = r BY <1>3, <1>4, <2>1 DEF Better
    <3>2. k \in 1 .. k /\ \A j \in 1 .. k : j \in 1 .. k - 1 \/ j = k BY <1>0
    <3> QED BY <3>1, <3>2, <1>4, <2>1 DEF Picked
  <2>2. CASE ~hit(k)
    <3>1. Better(m, uri, x, r) = x BY <1>3, <1>4, <2>2 DEF Better
    <3>2. \A j \in 1 .. k : j \in 1 .. k - 1 \/ j = k BY <1>0
    <3> QED BY <3>1, <3>2, <1>4, <2>2 DEF Picked
  <2> QED BY <2>1, <2>2
<1>5. ASSUME NEW i \in 1 .. k - 1, x = d(i), hit(i), \A j \in 1 .. k - 1 : hit(j) => j = i \/ Before(x, d(j))
      PROVE  Picked(m, uri, k, Better(m, uri, x, r))
  <2>1. x \in RtRoutes /\ x # NoRoute /\ ~static(x.path) /\ x.id \in Nat /\ x.id < r.id /\ Kind(x) \in {1, 2} /\ (Kind(x) = 2 <=> wild(x.path))
    BY <1>5, <1>2
  <2>2. match_segments(x.path, uri.path) = Fixed(x) /\ Fixed(x) \in Nat /\ Fixed(r) \in Nat
    BY <1>5, <2>1, <1>1, MatchIsCover, RouteFacts
  <2>3. \A j \in 1 .. k : j \in 1 .. k - 1 \/ j = k BY <1>0
  <2>4. /\ Before(x, r) <=> \/ Kind(x) < Kind(r)
                            \/ /\ Kind(x) = Kind(r)
                               /\ Kind(x) = 0 => x.id > r.id
                               /\ Kind(x) = 1 => x.id < r.id
                               /\ Kind(x) = 2 => Fixed(x) > Fixed(r) \/ (Fixed(x) = Fixed(r) /\ x.id < r.id)
        /\ Before(r, x) \/ Before(x, r) BY <2>1, <1>1, BeforeIs, BeforeOrders
  <2>5. Better(m, uri, x, r) = IF hit(k) /\ ~Before(x, r) THEN r ELSE x BY <1>1, <1>3, <2>1, <2>2, <2>4 DEF Better
  <2>6. CASE hit(k) /\ ~Before(x, r)
    <3>1. \A j \in 1 .. k - 1 : hit(j) => Before(r, d(j))
      <4> TAKE j \in 1 .. k - 1
      <4>1. ASSUME hit(j), j # i PROVE Before(r, d(j))
        <5>1. Before(r, x) /\ Before(x, d(j)) /\ d(j) \in RtRoutes BY <2>4, <2>6, <4>1, <1>5, <1>2
        <5> QED BY <5>1, <1>1, <2>1, BeforeOrders
      <4> QED BY <4>1, <2>4, <2>6, <1>5
    <3> QED BY <3>1, <2>3, <2>5, <2>6, <1>0 DEF Picked
  <2>7. CASE ~(hit(k) /\ ~Before(x, r))
    <3>1. i \in 1 .. k /\ \A j \in 1 .. k : hit(j) => j = i \/ Before(x, d(j)) BY <2>3, <2>7, <1>5, <1>0
    <3>2. x = d(i) /\ Covers(x, m, uri) BY <1>5
    <3> QED BY <3>1, <3>2, <2>5, <2>7 DEF Picked
  <2> QED BY <2>6, <2>7
<1> QED BY <1>4, <1>5 DEF Picked

\* The search ends with the route that is picked of all dynamic ones.
LEMMA SearchPicks ==
  ASSUME DynamicKept, NEW m, NEW uri \in RtAsked, ~(uri.tidy /\ <<m, uri.path>> \in DOMAIN routes_)
  PROVE  Picked(m, uri, Len(dynamic_routes_), find_handler(m, uri))
<1> DEFINE n == Len(dynamic_routes_)
           S == RtRoutes \cup {NoRoute}
           step == [i \in 1 .. n |-> [x \in S |-> Better(m, uri, x, dynamic_routes_[i])]]
           Body(f) == [k \in 0 .. n |-> IF k = 0 THEN NoRoute ELSE Better(m, uri, f[k - 1], dynamic_routes_[k])]
           found == CHOOSE f : f = Body(f)
<1>1. n \in Nat /\ \A i \in 1 .. n : dynamic_routes_[i] \in RtRoutes BY DEF DynamicKept
<1>2. find_handler(m, uri) = found[n] BY DEF find_handler
<1>3. \A i \in 1 .. n : \A x \in S : step[i][x] = Better(m, uri, x, dynamic_routes_[i]) /\ step[i][x] \in S
  <2> TAKE i \in 1 .. n
  <2> TAKE x \in S
  <2>1. Better(m, uri, x, dynamic_routes_[i]) \in {x, dynamic_routes_[i]} BY DEF Better
  <2> QED BY <2>1, <1>1
<1>4. PICK f : Course(n, S, NoRoute, step, f)
  <2>1. \A i \in 1 .. n : \A x \in S : step[i][x] \in S BY <1>3
  <2>2. n \in Nat /\ NoRoute \in S BY <1>1
  <2> HIDE DEF step, n, S
  <2> QED BY <2>1, <2>2, StepByStep
<1>5. f \in [0 .. n -> S] /\ f[0] = NoRoute /\ \A i \in 1 .. n : f[i] = Better(m, uri, f[i - 1], dynamic_routes_[i])
  <2>1. f \in [0 .. n -> S] /\ f[0] = NoRoute /\ \A i \in 1 .. n : f[i] = step[i][f[i - 1]] BY <1>4 DEF Course
  <2>2. \A i \in 1 .. n : f[i - 1] \in S BY <2>1, <1>1
  <2> HIDE DEF step, S
  <2> QED BY <2>1, <2>2, <1>3
<1>6. f = Body(f) BY <1>5
<1>7. found = Body(found)
  <2> HIDE DEF Body
  <2> QED BY <1>6
<1>8. found[0] = NoRoute /\ \A i \in 1 .. n : found[i] = Better(m, uri, found[i - 1], dynamic_routes_[i])
  <2> HIDE DEF found
  <2> QED BY <1>7, <1>1
<1> HIDE DEF found
<1> DEFINE Good == {k \in 0 .. n : Picked(m, uri, k, found[k])}
<1>9. 0 \in Good BY <1>1, <1>8 DEF Picked
<1>10. ASSUME NEW k \in 1 .. n, k - 1 \in Good PROVE k \in Good
  <2>1. Picked(m, uri, k - 1, found[k - 1]) BY <1>10
  <2>2. Picked(m, uri, k, Better(m, uri, found[k - 1], dynamic_routes_[k])) BY <2>1, BetterPicks
  <2> QED BY <2>2, <1>8
<1>11. n \in Good
  <2> HIDE DEF Good
  <2>1. \A k \in 0 .. n : k \in Good BY <1>1, <1>9, <1>10, UpFromZero
  <2> QED BY <2>1, <1>1
<1> QED BY <1>11, <1>2

\* What is first among all routes that cover a request is the reference's answer.
LEMMA FirstIsBest ==
  ASSUME RtBase, NEW m, NEW uri, NEW x \in RtRoutes, x \in ToSet(registered), Covers(x, m, uri),
         \A s \in ToSet(registered) : Covers(s, m, uri) => s = x \/ Before(x, s)
  PROVE  x = Best(m, uri)
<1> DEFINE all == {r \in ToSet(registered) : Covers(r, m, uri)}
           First(r) == r \in all /\ \A s \in all \ {r} : Before(r, s)
<1>1. First(x) OBVIOUS
<1>2. \A r \in all : r \in RtRoutes BY DEF RtBase, ToSet
<1>3. \A r : First(r) => r = x
  <2> TAKE r
  <2>1. ASSUME First(r), r # x PROVE FALSE
    <3>1. r \in RtRoutes /\ Before(r, x) /\ Before(x, r) BY <2>1, <1>1, <1>2
    <3> QED BY <3>1, BeforeOrders
  <2> QED BY <2>1
<1>4. all # {} /\ Best(m, uri) = CHOOSE r \in all : \A s \in all \ {r} : Before(r, s) BY <1>1 DEF Best
<1>5. (CHOOSE r \in all : \A s \in all \ {r} : Before(r, s)) = x
  <2> HIDE DEF all
  <2> QED BY <1>1, <1>3
<1> QED BY <1>4, <1>5

LEMMA NoneIsBest ==
  ASSUME NEW m, NEW uri, \A s \in ToSet(registered) : ~Covers(s, m, uri)
  PROVE  Best(m, uri) = NoRoute BY DEF Best

LEMMA Registered ==
  ASSUME RtBase
  PROVE  /\ ToSet(registered) = {registered[k] : k \in 1 .. Len(registered)} /\ DOMAIN registered = 1 .. Len(registered)
         /\ Len(registered) \in Nat
         /\ \A k \in 1 .. Len(registered) : registered[k] \in RtRoutes /\ registered[k].id = k BY DEF RtBase, ToSet

\* find_handler() gives the reference's answer.
LEMMA FindIsBest ==
  ASSUME RtInv, NEW m, NEW uri \in RtAsked
  PROVE  /\ find_handler(m, uri) = Best(m, uri)
         /\ \/ find_handler(m, uri) = NoRoute
            \/ /\ find_handler(m, uri) \in RtRoutes /\ find_handler(m, uri) \in ToSet(registered)
               /\ Covers(find_handler(m, uri), m, uri)
<1> DEFINE x == find_handler(m, uri)
           key == <<m, uri.path>>
<1>0. RtBase /\ DynamicKept /\ StaticKept /\ uri.tidy \in BOOLEAN BY DEF RtInv, RtAsked
<1>1. /\ ToSet(registered) = {registered[k] : k \in 1 .. Len(registered)} /\ DOMAIN registered = 1 .. Len(registered)
      /\ \A k \in 1 .. Len(registered) : registered[k] \in RtRoutes /\ registered[k].id = k /\ k \in Nat
  BY <1>0, Registered
<1>2. CASE uri.tidy /\ key \in DOMAIN routes_
  <2>1. x = routes_[key] BY <1>2 DEF find_handler
  <2> DEFINE r == routes_[key]
  <2>2. /\ r.id \in 1 .. Len(registered) /\ registered[r.id] = r /\ static(r.path) /\ r.method = m /\ r.path = uri.path
        /\ r \in RtRoutes /\ r \in ToSet(registered) /\ r.id \in Nat BY <1>0, <1>1, <1>2 DEF StaticKept
  <2>3. Covers(r, m, uri) BY <2>2, <1>2, StaticCover
  <2>4. \A k \in 1 .. Len(registered) : Covers(registered[k], m, uri) => registered[k] = r \/ Before(r, registered[k])
    <3> TAKE k \in 1 .. Len(registered)
    <3> DEFINE s == registered[k]
    <3>1. s \in RtRoutes /\ Kind(s) \in {0, 1, 2} /\ (Kind(s) = 0 <=> static(s.path)) /\ Kind(r) = 0 /\ s.id = k /\ k \in Nat
      BY <1>1, <2>2, RouteFacts
    <3>2. ASSUME ~static(s.path) PROVE Before(r, s)
      <4>1. Kind(r) < Kind(s) BY <3>1, <3>2
      <4> QED BY <4>1, <3>1, <2>2, BeforeIs
    <3>3. ASSUME static(s.path), Covers(s, m, uri), s # r PROVE Before(r, s)
      <4>1. s.method = m /\ s.path = uri.path BY <3>1, <3>3, StaticCover
      <4>2. k <= r.id BY <4>1, <3>3, <1>0, <1>1 DEF StaticKept
      <4>3. r.id > s.id BY <4>2, <3>1, <3>3, <2>2
      <4> QED BY <4>3, <3>1, <3>3, <2>2, BeforeIs
    <3> QED BY <3>2, <3>3
  <2> HIDE DEF r
  <2>5. r = Best(m, uri) BY <2>2, <2>3, <2>4, <1>0, <1>1, FirstIsBest
  <2> QED BY <2>1, <2>2, <2>3, <2>5 DEF r
<1>3. CASE ~(uri.tidy /\ key \in DOMAIN routes_)
  <2>1. Picked(m, uri, Len(dynamic_routes_), x) BY <1>0, <1>3, SearchPicks
  <2>2. \A k \in 1 .. Len(registered) :
           Covers(registered[k], m, uri) => \E j \in 1 .. Len(dynamic_routes_) : dynamic_routes_[j] = registered[k]
    <3> TAKE k \in 1 .. Len(registered)
    <3>1. ASSUME Covers(registered[k], m, uri) PROVE ~static(registered[k].path)
      <4>1. ASSUME static(registered[k].path) PROVE FALSE
        <5>1. registered[k].method = m /\ registered[k].path = uri.path /\ uri.tidy BY <4>1, <3>1, <1>1, StaticCover
        <5> QED BY <5>1, <4>1, <1>0, <1>1, <1>3 DEF StaticKept
      <4> QED BY <4>1
    <3> QED BY <3>1, <1>0, <1>1 DEF DynamicKept
  <2>3. \A i \in 1 .. Len(dynamic_routes_) : dynamic_routes_[i] \in RtRoutes /\ dynamic_routes_[i] \in ToSet(registered)
    BY <1>0, <1>1 DEF DynamicKept
  <2>4. CASE x = NoRoute /\ \A j \in 1 .. Len(dynamic_routes_) : ~Covers(dynamic_routes_[j], m, uri)
    <3>1. \A s \in ToSet(registered) : ~Covers(s, m, uri) BY <2>2, <2>4, <1>1
    <3> QED BY <3>1, <2>4, NoneIsBest
  <2>5. ASSUME NEW i \in 1 .. Len(dynamic_routes_), x = dynamic_routes_[i], Covers(x, m, uri),
               \A j \in 1 .. Len(dynamic_routes_) : Covers(dynamic_routes_[j], m, uri) => j = i \/ Before(x, dynamic_routes_[j])
        PROVE  x \in RtRoutes /\ x \in ToSet(registered) /\ x = Best(m, uri)
    <3>1. x \in RtRoutes /\ x \in ToSet(registered) BY <2>3, <2>5
    <3>2. \A s \in ToSet(registered) : Covers(s, m, uri) => s = x \/ Before(x, s) BY <2>2, <2>5, <1>1
    <3> HIDE DEF x
    <3> QED BY <3>1, <3>2, <2>5, <1>0, FirstIsBest
  <2> HIDE DEF x
  <2> QED BY <2>1, <2>4, <2>5 DEF Picked, x
<1> QED BY <1>2, <1>3

----
\* Every registration keeps the tables true.

LEMMA PrefixIs ==
  /\ Groups_ = {"root", "outer", "inner"} /\ Prefix["root"] = << >> /\ Prefix["outer"] = <<"a">> /\ Prefix["inner"] = <<"a", "1">>
  /\ \A g \in Groups_ : Prefix[g] \in Seq(RtSegs) /\ Prefix[g] \in Seq(Names) /\ \A i \in 1 .. Len(Prefix[g]) : Prefix[g][i] \in {"a", "1"}
<1>1. Groups_ = {"root", "outer", "inner"} /\ Prefix["root"] = << >> /\ Prefix["outer"] = <<"a">> /\ Prefix["inner"] = <<"a", "1">>
  BY DEF Groups_, Prefix
<1>2. "a" \in RtSegs /\ "1" \in RtSegs /\ "a" \in Names /\ "1" \in Names BY DEF RtSegs, Names
<1>3. \A S : \A x, y \in S : << >> \in Seq(S) /\ <<x>> \in Seq(S) /\ <<x, y>> \in Seq(S) OBVIOUS
<1>4. \A s \in {<< >>, <<"a">>, <<"a", "1">>} : s \in Seq(RtSegs) /\ s \in Seq(Names) BY <1>2, <1>3, Zenon
<1>5. \A g \in Groups_ : Prefix[g] \in Seq(RtSegs) /\ Prefix[g] \in Seq(Names) BY <1>1, <1>4
<1>6. \A g \in Groups_ : \A i \in 1 .. Len(Prefix[g]) : Prefix[g][i] \in {"a", "1"}
  <2>1. \A i \in 1 .. Len(Prefix["root"]) : Prefix["root"][i] \in {"a", "1"} BY <1>1
  <2>2. \A i \in 1 .. Len(Prefix["outer"]) : Prefix["outer"][i] \in {"a", "1"} BY <1>1
  <2>3. \A i \in 1 .. Len(Prefix["inner"]) : Prefix["inner"][i] \in {"a", "1"}
    <3>1. Len(<<"a", "1">>) = 2 /\ <<"a", "1">>[1] = "a" /\ <<"a", "1">>[2] = "1" OBVIOUS
    <3>2. \A i \in 1 .. 2 : i = 1 \/ i = 2 OBVIOUS
    <3> QED BY <1>1, <3>1, <3>2
  <2> QED BY <1>1, <2>1, <2>2, <2>3
<1> QED BY <1>1, <1>5, <1>6

LEMMA PrefixStays ==
  ASSUME NEW S, NEW s \in Seq(S), NEW t \in Seq(S)
  PROVE  IsPrefix(s, s \o t) BY DEF IsPrefix

\* What add_route() registers.
LEMMA NewRoute ==
  ASSUME RtBase, NEW g \in Groups_, NEW m \in Methods, NEW path \in RtPatterns,
         \A i \in DOMAIN (Prefix[g] \o path) : is_wildcard((Prefix[g] \o path)[i]) => i = Len(Prefix[g] \o path)
  PROVE  [id |-> Len(registered) + 1, method |-> m, path |-> Prefix[g] \o path, mws |-> local_middlewares_[g], errors |-> g] \in RtRoutes
<1> DEFINE full == Prefix[g] \o path
           route == [id |-> Len(registered) + 1, method |-> m, path |-> full, mws |-> local_middlewares_[g], errors |-> g]
<1>1. path \in Seq(RtSegs) /\ Prefix[g] \in Seq(RtSegs) BY RtAssumption, PrefixIs DEF RtAssumption, RtSegs
<1>2. full \in Seq(RtSegs) /\ IsPrefix(Prefix[g], full) BY <1>1, ConcatProperties, PrefixStays
<1>3. full \in Pattern BY <1>2 DEF Pattern
<1> HIDE DEF full
<1>4. Len(registered) + 1 \in Nat \ {0} BY DEF RtBase
<1>5. local_middlewares_[g] \in Seq({Prefix[g]}) /\ local_middlewares_[g] \in Seq(Seq(Names)) BY DEF RtBase
<1>6. route \in [id : Nat \ {0}, method : Methods, path : Pattern, mws : Seq(Seq(Names)), errors : Groups_]
  BY <1>3, <1>4, <1>5
<1>7. route.mws = local_middlewares_[g] /\ route.errors = g /\ route.path = full OBVIOUS
<1> HIDE DEF route
<1>8. route \in RtRoutes BY <1>2, <1>5, <1>6, <1>7 DEF RtRoutes
<1> QED BY <1>8 DEF route, full

LEMMA RoutesAdded ==
  ASSUME RtInv, NEW g \in Groups_, NEW m \in Methods, NEW path \in RtPatterns, add_route(g, m, path),
         UNCHANGED <<middlewares_, local_middlewares_, handlers>>
  PROVE  RtInv'
<1> DEFINE full == Prefix[g] \o path
           n == Len(registered) + 1
           route == [id |-> n, method |-> m, path |-> full, mws |-> local_middlewares_[g], errors |-> g]
           key == <<m, full>>
<1>0. RtBase /\ DynamicKept /\ StaticKept BY DEF RtInv
<1>7. route \in RtRoutes
  <2>1. \A i \in DOMAIN full : is_wildcard(full[i]) => i = Len(full) BY DEF add_route
  <2> QED BY <1>0, <2>1, NewRoute
<1>8. n \in Nat /\ registered \in Seq(RtRoutes) /\ dynamic_routes_ \in Seq(RtRoutes) /\ Len(dynamic_routes_) \in Nat
      /\ Len(dynamic_routes_) < n BY <1>0 DEF RtBase, DynamicKept
<1>9. registered' = Append(registered, route) BY DEF add_route
<1>1. /\ route \in RtRoutes /\ route.id = n /\ route.path = full /\ route.method = m
      /\ registered' = Append(registered, route)
      /\ n \in Nat /\ registered \in Seq(RtRoutes) /\ dynamic_routes_ \in Seq(RtRoutes) BY <1>7, <1>8, <1>9
<1>10. n \in Nat /\ n > 0 /\ \A k \in 1 .. n : k = n \/ k \in 1 .. n - 1 BY <1>8
<1>2. /\ static(full) => /\ routes_' = [k \in DOMAIN routes_ \cup {key} |-> IF k = key THEN route ELSE routes_[k]]
                         /\ dynamic_routes_' = dynamic_routes_
      /\ ~static(full) => routes_' = routes_ /\ dynamic_routes_' = Append(dynamic_routes_, route) BY DEF add_route
<1> HIDE DEF route, full, key, n
<1>3. /\ registered' \in Seq(RtRoutes) /\ Len(registered') = n /\ DOMAIN registered' = 1 .. n /\ DOMAIN registered = 1 .. n - 1
      /\ registered'[n] = route /\ \A i \in 1 .. n - 1 : registered'[i] = registered[i]
  BY <1>1, AppendProperties DEF n
<1>4. RtBase'
  <2>1. \A i \in DOMAIN registered' : registered'[i].id = i BY <1>0, <1>1, <1>3 DEF RtBase
  <2> QED BY <2>1, <1>0, <1>3 DEF RtBase
<1>5. DynamicKept'
  <2>1. CASE static(full)
    <3>1. dynamic_routes_' = dynamic_routes_ BY <1>2, <2>1
    <3>2. Len(dynamic_routes_) <= Len(registered') BY <1>0, <1>1, <1>3 DEF DynamicKept, n
    <3>3. \A i \in DOMAIN dynamic_routes_ : /\ dynamic_routes_[i].id \in DOMAIN registered'
                                           /\ registered'[dynamic_routes_[i].id] = dynamic_routes_[i]
                                           /\ ~static(dynamic_routes_[i].path) BY <1>0, <1>3, <1>1 DEF DynamicKept
    <3>4. \A k \in DOMAIN registered' : ~static(registered'[k].path) => \E i \in DOMAIN dynamic_routes_ : dynamic_routes_[i] = registered'[k]
      <4> TAKE k \in DOMAIN registered'
      <4>1. k = n \/ k \in 1 .. n - 1 BY <1>3, <1>1
      <4> QED BY <4>1, <1>0, <1>1, <1>3, <2>1 DEF DynamicKept
    <3> QED BY <3>1, <3>2, <3>3, <3>4, <1>0 DEF DynamicKept
  <2>2. CASE ~static(full)
    <3> DEFINE l == Len(dynamic_routes_)
    <3>1. /\ l \in Nat /\ l < n /\ dynamic_routes_' \in Seq(RtRoutes) /\ Len(dynamic_routes_') = l + 1
          /\ DOMAIN dynamic_routes_' = 1 .. l + 1 /\ DOMAIN dynamic_routes_ = 1 .. l
          /\ dynamic_routes_'[l + 1] = route /\ \A i \in 1 .. l : dynamic_routes_'[i] = dynamic_routes_[i]
      BY <1>7, <1>8, <1>2, <2>2, AppendProperties
    <3> HIDE DEF l
    <3>2. \A i \in 1 .. l : /\ dynamic_routes_[i].id \in 1 .. n - 1 /\ registered[dynamic_routes_[i].id] = dynamic_routes_[i]
                            /\ ~static(dynamic_routes_[i].path) BY <1>0, <1>3, <3>1 DEF DynamicKept
    <3>3. ASSUME NEW i \in 1 .. l + 1
          PROVE  /\ dynamic_routes_'[i].id \in 1 .. n /\ registered'[dynamic_routes_'[i].id] = dynamic_routes_'[i]
                 /\ ~static(dynamic_routes_'[i].path)
      <4>1. CASE i = l + 1 BY <4>1, <3>1, <1>1, <1>3, <2>2
      <4>2. CASE i \in 1 .. l BY <4>2, <3>1, <3>2, <1>1, <1>3
      <4> QED BY <4>1, <4>2, <3>1
    <3>4. ASSUME NEW i \in 1 .. l + 1, NEW j \in 1 .. l + 1, i < j PROVE dynamic_routes_'[i].id < dynamic_routes_'[j].id
      <4>1. i \in 1 .. l /\ dynamic_routes_'[i] = dynamic_routes_[i] BY <3>1, <3>4
      <4>2. CASE j = l + 1 BY <4>1, <4>2, <3>1, <3>2, <1>1
      <4>3. CASE j \in 1 .. l BY <4>1, <4>3, <3>1, <3>4, <1>0 DEF DynamicKept
      <4> QED BY <4>2, <4>3, <3>1
    <3>5. ASSUME NEW k \in 1 .. n, ~static(registered'[k].path) PROVE \E i \in 1 .. l + 1 : dynamic_routes_'[i] = registered'[k]
      <4>1. CASE k = n BY <4>1, <3>1, <1>3
      <4>2. CASE k \in 1 .. n - 1
        <5>1. registered'[k] = registered[k] /\ k \in DOMAIN registered BY <4>2, <1>3
        <5>2. PICK i \in 1 .. l : dynamic_routes_[i] = registered[k] BY <5>1, <3>1, <3>5, <1>0 DEF DynamicKept
        <5>3. i \in 1 .. l + 1 /\ dynamic_routes_'[i] = registered'[k] BY <5>1, <5>2, <3>1
        <5> QED BY <5>3
      <4> QED BY <4>1, <4>2, <1>10
    <3>6. dynamic_routes_' \in Seq(RtRoutes) /\ Len(dynamic_routes_') <= Len(registered') BY <3>1, <1>3, <1>10
    <3>7. DOMAIN dynamic_routes_' = 1 .. l + 1 /\ DOMAIN registered' = 1 .. n BY <3>1, <1>3
    <3> QED BY <3>3, <3>4, <3>5, <3>6, <3>7 DEF DynamicKept
  <2> QED BY <2>1, <2>2
<1>6. StaticKept'
  <2>1. CASE ~static(full)
    <3>1. routes_' = routes_ BY <1>2, <2>1
    <3>2. \A k \in DOMAIN routes_ : routes_[k].id \in 1 .. n - 1 BY <1>0, <1>3 DEF StaticKept
    <3>3. \A k \in DOMAIN registered' : static(registered'[k].path) => k \in 1 .. n - 1 /\ registered'[k] = registered[k]
      BY <1>1, <1>3, <2>1
    <3>4. \A k \in DOMAIN routes_ : routes_[k].id \in DOMAIN registered' /\ registered'[routes_[k].id] = registered[routes_[k].id]
      BY <3>2, <1>3, <1>10
    <3>5. \A k \in DOMAIN registered' : static(registered'[k].path) => k \in DOMAIN registered /\ registered'[k] = registered[k]
      BY <3>3, <1>3
    <3> QED BY <3>1, <3>4, <3>5, <1>0 DEF StaticKept
  <2>2. CASE static(full)
    <3>1. /\ DOMAIN routes_' = DOMAIN routes_ \cup {key} /\ routes_'[key] = route
          /\ \A k \in DOMAIN routes_ : k # key => routes_'[k] = routes_[k] BY <1>2, <2>2
    <3>2. ASSUME NEW k \in DOMAIN routes_'
          PROVE  /\ routes_'[k].id \in DOMAIN registered' /\ registered'[routes_'[k].id] = routes_'[k]
                 /\ static(routes_'[k].path) /\ k = <<routes_'[k].method, routes_'[k].path>>
      <4>1. CASE k = key BY <4>1, <3>1, <1>1, <1>3, <2>2 DEF key
      <4>2. CASE k # key
        <5>1. k \in DOMAIN routes_ /\ routes_'[k] = routes_[k] BY <4>2, <3>1
        <5>2. routes_[k].id \in 1 .. n - 1 /\ registered[routes_[k].id] = routes_[k] /\ static(routes_[k].path)
              /\ k = <<routes_[k].method, routes_[k].path>> BY <5>1, <1>0, <1>3 DEF StaticKept
        <5> QED BY <5>1, <5>2, <1>1, <1>3
      <4> QED BY <4>1, <4>2
    <3>3. ASSUME NEW k \in 1 .. n, static(registered'[k].path)
          PROVE  /\ <<registered'[k].method, registered'[k].path>> \in DOMAIN routes_'
                 /\ k <= routes_'[<<registered'[k].method, registered'[k].path>>].id
      <4>1. CASE k = n BY <4>1, <3>1, <1>1, <1>3 DEF key
      <4>2. CASE k \in 1 .. n - 1
        <5> DEFINE old == <<registered[k].method, registered[k].path>>
        <5>1. registered'[k] = registered[k] /\ k \in DOMAIN registered BY <4>2, <1>3
        <5>2. old \in DOMAIN routes_ /\ k <= routes_[old].id BY <5>1, <3>3, <1>0 DEF StaticKept
        <5>3. k <= routes_'[old].id
          <6>1. CASE old = key BY <6>1, <3>1, <1>7, <1>10, <4>2 DEF route
          <6>2. CASE old # key BY <6>2, <5>2, <3>1
          <6> QED BY <6>1, <6>2
        <5> QED BY <5>1, <5>2, <5>3, <3>1
      <4> QED BY <4>1, <4>2, <1>10
    <3> QED BY <3>2, <3>3, <1>3 DEF StaticKept
  <2> QED BY <2>1, <2>2
<1> QED BY <1>4, <1>5, <1>6 DEF RtInv

LEMMA RtInitHolds ==
  ASSUME RtInit
  PROVE  RtInv
<1>1. registered = << >> /\ dynamic_routes_ = << >> /\ routes_ = << >> /\ middlewares_ = << >> /\ handlers = {}
      /\ local_middlewares_ = [g \in Groups_ |-> << >>] BY DEF RtInit
<1>2. << >> \in Seq(RtRoutes) /\ << >> \in Seq(Seq(Names)) /\ \A g \in Groups_ : << >> \in Seq({Prefix[g]}) OBVIOUS
<1>3. DOMAIN << >> = {} /\ Len(<< >>) = 0 OBVIOUS
<1>4. RtBase BY <1>1, <1>2, <1>3 DEF RtBase
<1>5. DynamicKept BY <1>1, <1>2, <1>3 DEF DynamicKept
<1>6. StaticKept BY <1>1, <1>3 DEF StaticKept
<1> QED BY <1>4, <1>5, <1>6 DEF RtInv

LEMMA RtStep ==
  ASSUME RtInv, [RtNext]_rtVars
  PROVE  RtInv'
<1>0. RtBase /\ DynamicKept /\ StaticKept BY DEF RtInv
<1>1. ASSUME UNCHANGED <<routes_, dynamic_routes_, registered>>, RtBase' PROVE RtInv'
  <2>1. DynamicKept' BY <1>0, <1>1 DEF DynamicKept
  <2>2. StaticKept' BY <1>0, <1>1 DEF StaticKept
  <2> QED BY <1>1, <2>1, <2>2 DEF RtInv
<1>2. CASE UNCHANGED rtVars
  <2>1. RtBase' BY <1>0, <1>2 DEF RtBase, rtVars
  <2> QED BY <1>1, <1>2, <2>1 DEF rtVars
<1>3. ASSUME NEW g \in Groups_, NEW method \in {"GET", "POST"}, NEW path \in RtPatterns, Register(g, method, path) PROVE RtInv'
  <2>1. method \in Methods BY DEF Methods
  <2> QED BY <1>3, <2>1, RoutesAdded DEF Register
<1>4. ASSUME NEW path \in RtPatterns, add_stream_route("outer", "POST", path) PROVE RtInv'
  <2>1. "POST" \in Methods /\ "outer" \in Groups_ BY DEF Methods, Groups_
  <2> QED BY <1>4, <2>1, RoutesAdded DEF add_stream_route
<1>5. ASSUME NEW g \in Groups_, on_error(g) PROVE RtInv'
  <2>1. RtBase' BY <1>0, <1>5 DEF RtBase, on_error
  <2> QED BY <1>1, <1>5, <2>1 DEF on_error
<1>6. ASSUME ws("outer", <<"a">>) PROVE RtInv'
  <2>1. RtBase' BY <1>0, <1>6 DEF RtBase, ws
  <2> QED BY <1>1, <1>6, <2>1 DEF ws
<1>7. ASSUME use("inner", << >>) PROVE RtInv'
  <2>1. "inner" # "root" /\ "inner" \in Groups_ /\ Prefix["inner"] \in Seq(Names) /\ Prefix["inner"] \o << >> = Prefix["inner"]
    <3>1. Prefix["inner"] = <<"a", "1">> /\ "inner" \in Groups_ /\ Prefix["inner"] \in Seq(Names) BY PrefixIs
    <3>2. <<"a", "1">> \o << >> = <<"a", "1">> OBVIOUS
    <3> QED BY <3>1, <3>2
  <2>2. /\ local_middlewares_' = [local_middlewares_ EXCEPT !["inner"] = Append(@, Prefix["inner"])]
        /\ UNCHANGED <<middlewares_, routes_, dynamic_routes_, handlers, registered>> BY <1>7, <2>1 DEF use
  <2>3. ASSUME NEW g \in Groups_
        PROVE  local_middlewares_'[g] \in Seq(Seq(Names)) /\ local_middlewares_'[g] \in Seq({Prefix[g]})
    <3>1. local_middlewares_[g] \in Seq(Seq(Names)) /\ local_middlewares_[g] \in Seq({Prefix[g]}) BY <1>0 DEF RtBase
    <3>2. CASE g = "inner"
      <4>1. local_middlewares_'[g] = Append(local_middlewares_[g], Prefix[g]) BY <2>1, <2>2, <3>2, <1>0 DEF RtBase
      <4> QED BY <3>1, <3>2, <4>1, <2>1, AppendProperties
    <3>3. CASE g # "inner" BY <2>2, <3>1, <3>3, <1>0 DEF RtBase
    <3> QED BY <3>2, <3>3
  <2>4. local_middlewares_' \in [Groups_ -> Seq(Seq(Names))] BY <2>2, <2>3, <1>0 DEF RtBase
  <2>5. RtBase' BY <2>2, <2>3, <2>4, <1>0 DEF RtBase
  <2> QED BY <1>1, <2>2, <2>5
<1>8. ASSUME use("root", <<"a">>) PROVE RtInv'
  <2>1. <<"a">> \in Seq(Names)
    <3>1. "outer" \in Groups_ BY DEF Groups_
    <3> QED BY <3>1, PrefixIs
  <2>2. middlewares_' = Append(middlewares_, <<"a">>) /\ UNCHANGED <<local_middlewares_, routes_, dynamic_routes_, handlers, registered>>
    BY <1>8 DEF use
  <2>3. middlewares_' \in Seq(Seq(Names)) BY <2>1, <2>2, <1>0, AppendProperties DEF RtBase
  <2>4. RtBase' BY <2>2, <2>3, <1>0 DEF RtBase
  <2> QED BY <1>1, <2>2, <2>4
<1> QED BY <1>2, <1>3, <1>4, <1>5, <1>6, <1>7, <1>8 DEF RtNext

----
\* What the tables say of a request.

\* A request that a route covers is under the route's group.
LEMMA UnderGroup ==
  ASSUME NEW r \in RtRoutes, NEW m, NEW uri \in RtAsked, Covers(r, m, uri)
  PROVE  IsPrefix(Prefix[r.errors], uri.path)
<1> DEFINE s == Prefix[r.errors]
<1>1. /\ r.errors \in Groups_ /\ r.path \in Pattern /\ r.path \in Seq(RtSegs) /\ uri.path \in Seq(STRING)
      /\ IsPrefix(s, r.path) BY RouteFacts DEF RtRoutes, Pattern, RtAsked
<1>2. s \in Seq(RtSegs) /\ \A i \in 1 .. Len(s) : s[i] \in {"a", "1"} BY <1>1, PrefixIs
<1> HIDE DEF s
<1>3. Len(s) \in Nat /\ Len(s) <= Len(r.path) /\ \A i \in 1 .. Len(s) : r.path[i] = s[i]
  <2>1. Len(s) <= Len(r.path) /\ SubSeq(s, 1, Len(s)) = SubSeq(r.path, 1, Len(s)) BY <1>1 DEF IsPrefix
  <2>2. \A i \in 1 .. Len(s) : SubSeq(s, 1, Len(s))[i] = s[i] /\ SubSeq(r.path, 1, Len(s))[i] = r.path[i]
    BY <1>1, <1>2, <2>1
  <2> QED BY <1>2, <2>1, <2>2
<1>4. Len(s) <= Open(r.path) /\ Open(r.path) \in Nat
  <2>1. ASSUME wild(r.path), Len(s) = Len(r.path) PROVE FALSE
    <3>1. r.path[Len(r.path)] = "*" /\ Len(r.path) \in 1 .. Len(s) BY <1>1, <2>1 DEF wild, is_wildcard
    <3>2. r.path[Len(r.path)] \in {"a", "1"} BY <3>1, <1>2, <1>3
    <3> QED BY <3>1, <3>2
  <2> QED BY <1>1, <1>3, <2>1 DEF Open
<1>5. Open(r.path) <= Len(uri.path) /\ \A i \in 1 .. Open(r.path) : Fits(r.path[i], uri.path[i])
  BY <1>1, <1>4 DEF Covers, Open
<1>6. Len(s) <= Len(uri.path) /\ \A i \in 1 .. Len(s) : s[i] = uri.path[i]
  <2>1. \A seg \in {"a", "1"} : \A x : Fits(seg, x) => seg = x BY DEF Fits, Params
  <2>2. \A i \in 1 .. Len(s) : Fits(s[i], uri.path[i]) BY <1>3, <1>4, <1>5
  <2> QED BY <2>1, <2>2, <1>1, <1>2, <1>3, <1>4, <1>5
<1>7. SubSeq(s, 1, Len(s)) = SubSeq(uri.path, 1, Len(s))
  <2>1. SubSeq(s, 1, Len(s)) = [i \in 1 .. Len(s) |-> s[i]] /\ SubSeq(uri.path, 1, Len(s)) = [i \in 1 .. Len(s) |-> uri.path[i]]
    BY <1>1, <1>2, <1>6
  <2> QED BY <2>1, <1>6
<1> QED BY <1>6, <1>7 DEF IsPrefix, s

LEMMA ChosenIs ==
  ASSUME RtInv, NEW m, NEW uri \in RtAsked
  PROVE  /\ Chosen(m, uri) = IF m = "HEAD" /\ Best(m, uri) = NoRoute THEN Best("GET", uri) ELSE Best(m, uri)
         /\ \/ Chosen(m, uri) = NoRoute
            \/ Chosen(m, uri) \in RtRoutes /\ \E n : Covers(Chosen(m, uri), n, uri)
<1>1. find_handler(m, uri) = Best(m, uri) /\ find_handler("GET", uri) = Best("GET", uri) BY FindIsBest
<1>2. /\ find_handler(m, uri) = NoRoute \/ (find_handler(m, uri) \in RtRoutes /\ Covers(find_handler(m, uri), m, uri))
      /\ find_handler("GET", uri) = NoRoute \/ (find_handler("GET", uri) \in RtRoutes /\ Covers(find_handler("GET", uri), "GET", uri))
  BY FindIsBest
<1>3. Chosen(m, uri) = IF find_handler(m, uri) = NoRoute /\ m = "HEAD" THEN find_handler("GET", uri) ELSE find_handler(m, uri)
  BY DEF Chosen
<1> QED BY <1>1, <1>2, <1>3

LEMMA StreamKnown ==
  ASSUME NEW r \in RtRoutes, NEW m, NEW n, NEW uri \in RtAsked, Covers(r, n, uri), <<m, r.path>> \in streams
  PROVE  is_stream_route(m, uri)
<1>1. CASE static(r.path)
  <2>1. r.path = uri.path /\ uri.tidy BY <1>1, StaticCover
  <2> DEFINE s == <<m, r.path>>
  <2>2. s \in streams /\ s[1] = m /\ s[2] = r.path OBVIOUS
  <2> HIDE DEF s
  <2> QED BY <1>1, <2>1, <2>2 DEF is_stream_route
<1>2. CASE ~static(r.path)
  <2>1. match_segments(r.path, uri.path) = Fixed(r) /\ Fixed(r) \in Nat BY <1>2, MatchIsCover, RouteFacts
  <2> DEFINE s == <<m, r.path>>
  <2>2. s \in streams /\ s[1] = m /\ s[2] = r.path /\ match_segments(r.path, uri.path) >= 0 BY <2>1
  <2> HIDE DEF s
  <2> QED BY <1>2, <2>2 DEF is_stream_route
<1> QED BY <1>1, <1>2

\* No middleware runs outside of what it was added for.
LEMMA RanUnder ==
  ASSUME RtInv, NEW m, NEW uri \in RtAsked, NEW p \in ToSet(RanFor(m, uri))
  PROVE  IsPrefix(p, uri.path)
<1> DEFINE n == Len(middlewares_)
           S == Seq({q \in Seq(Names) : IsPrefix(q, uri.path)})
           One(i, x) == IF IsPrefix(middlewares_[i], uri.path) THEN Append(x, middlewares_[i]) ELSE x
           step == [i \in 1 .. n |-> [x \in S |-> One(i, x)]]
           Body(f) == [k \in 0 .. n |-> IF k = 0 THEN << >> ELSE One(k, f[k - 1])]
           ran == CHOOSE f : f = Body(f)
           mws == IF Chosen(m, uri) = NoRoute THEN << >> ELSE Chosen(m, uri).mws
<1>1. n \in Nat /\ << >> \in S /\ \A i \in 1 .. n : middlewares_[i] \in Seq(Names) BY DEF RtInv, RtBase
<1>2. RanFor(m, uri) = ran[n] \o mws BY DEF RanFor
<1>3. \A i \in 1 .. n : \A x \in S : step[i][x] = One(i, x) /\ step[i][x] \in S
  <2> TAKE i \in 1 .. n
  <2> TAKE x \in S
  <2>1. One(i, x) \in S BY <1>1, AppendProperties
  <2>2. step[i][x] = One(i, x) OBVIOUS
  <2> QED BY <2>1, <2>2
<1>4. PICK f : Course(n, S, << >>, step, f)
  <2>1. \A i \in 1 .. n : \A x \in S : step[i][x] \in S BY <1>3
  <2> HIDE DEF step, n, S
  <2> QED BY <1>1, <2>1, StepByStep
<1>5. f \in [0 .. n -> S] /\ f[0] = << >> /\ \A i \in 1 .. n : f[i] = One(i, f[i - 1])
  <2>1. f \in [0 .. n -> S] /\ f[0] = << >> /\ \A i \in 1 .. n : f[i] = step[i][f[i - 1]] BY <1>4 DEF Course
  <2>2. \A i \in 1 .. n : f[i - 1] \in S BY <2>1, <1>1
  <2> HIDE DEF step, S, One
  <2> QED BY <2>1, <2>2, <1>3
<1>6. f = Body(f)
  <2> HIDE DEF One, S
  <2> QED BY <1>5
<1>7. ran = Body(ran)
  <2> HIDE DEF Body
  <2> QED BY <1>6
<1>8. ran[0] = << >> /\ \A i \in 1 .. n : ran[i] = One(i, ran[i - 1])
  <2> HIDE DEF ran, One
  <2> QED BY <1>7, <1>1
<1> HIDE DEF ran
<1> DEFINE Good == {k \in 0 .. n : ran[k] \in S}
<1>9. 0 \in Good
  <2> HIDE DEF S, n, One
  <2> QED BY <1>1, <1>8
<1>10. ASSUME NEW k \in 1 .. n, k - 1 \in Good PROVE k \in Good
  <2>1. ran[k - 1] \in S /\ ran[k] = One(k, ran[k - 1]) BY <1>8, <1>10
  <2>2. One(k, ran[k - 1]) \in S BY <1>3, <2>1
  <2> HIDE DEF S, n, One
  <2> QED BY <2>1, <2>2, <1>1
<1>11. ran[n] \in S
  <2>1. n \in Good
    <3> HIDE DEF Good
    <3>1. \A k \in 0 .. n : k \in Good BY <1>1, <1>9, <1>10, UpFromZero
    <3> QED BY <3>1, <1>1
  <2> QED BY <2>1
<1>12. mws \in S
  <2>1. CASE Chosen(m, uri) = NoRoute BY <2>1, <1>1
  <2>2. CASE Chosen(m, uri) # NoRoute
    <3> DEFINE r == Chosen(m, uri)
    <3>1. r \in RtRoutes /\ \E x : Covers(r, x, uri) BY <2>2, ChosenIs
    <3> HIDE DEF r
    <3>2. IsPrefix(Prefix[r.errors], uri.path) /\ r.mws \in Seq({Prefix[r.errors]}) /\ Prefix[r.errors] \in Seq(Names)
      BY <3>1, UnderGroup, RouteFacts, PrefixIs DEF RtRoutes
    <3>3. r.mws \in S BY <3>2
    <3> QED BY <3>3, <2>2 DEF r
  <2> QED BY <2>1, <2>2
<1>13. RanFor(m, uri) \in S
  <2> HIDE DEF mws
  <2> QED BY <1>2, <1>11, <1>12, ConcatProperties
<1> QED BY <1>13 DEF ToSet

\* An exception goes to the nearest handler around its route.
LEMMA NearestHandler ==
  ASSUME NEW g \in Groups_
  PROVE  ErrorHandlerOf(g) = IF g \in handlers THEN g
                             ELSE IF g = "root" THEN "none"
                             ELSE IF Enclosing[g] \in handlers THEN Enclosing[g]
                             ELSE IF g = "outer" THEN "none"
                             ELSE IF "root" \in handlers THEN "root" ELSE "none"
<1> DEFINE Body(f) == [h \in Groups_ |-> IF h \in handlers THEN h ELSE IF h = "root" THEN "none" ELSE f[Enclosing[h]]]
           up == CHOOSE f : f = Body(f)
           root == IF "root" \in handlers THEN "root" ELSE "none"
           outer == IF "outer" \in handlers THEN "outer" ELSE root
           inner == IF "inner" \in handlers THEN "inner" ELSE outer
           w == [h \in Groups_ |-> IF h = "root" THEN root ELSE IF h = "outer" THEN outer ELSE inner]
<1>1. Groups_ = {"root", "outer", "inner"} /\ Enclosing["outer"] = "root" /\ Enclosing["inner"] = "outer"
  BY DEF Groups_, Enclosing
<1>2. w = Body(w) BY <1>1
<1>3. up = Body(up)
  <2> HIDE DEF Body, w
  <2> QED BY <1>2
<1>4. ErrorHandlerOf(g) = up[g] BY DEF ErrorHandlerOf
<1> HIDE DEF up
<1>5. up["root"] = root /\ up["outer"] = outer /\ up["inner"] = inner BY <1>1, <1>3
<1> QED BY <1>1, <1>4, <1>5

LEMMA ErrorsStayInside ==
  ASSUME RtInv, NEW r \in RtRoutes, ErrorHandlerOf(r.errors) # "none"
  PROVE  /\ ErrorHandlerOf(r.errors) \in handlers /\ IsPrefix(Prefix[ErrorHandlerOf(r.errors)], r.path)
         /\ \A h \in handlers : Len(Prefix[h]) > Len(Prefix[ErrorHandlerOf(r.errors)]) => Len(Prefix[h]) > Len(Prefix[r.errors])
<1> DEFINE g == r.errors
           e == ErrorHandlerOf(g)
<1>1. g \in Groups_ /\ r.path \in Seq(RtSegs) /\ IsPrefix(Prefix[g], r.path) /\ handlers \in SUBSET Groups_
  BY RouteFacts DEF RtRoutes, Pattern, RtInv, RtBase
<1>2. Groups_ = {"root", "outer", "inner"} /\ Enclosing["outer"] = "root" /\ Enclosing["inner"] = "outer"
  BY DEF Groups_, Enclosing
<1>3. e = IF g \in handlers THEN g
          ELSE IF g = "root" THEN "none"
          ELSE IF Enclosing[g] \in handlers THEN Enclosing[g]
          ELSE IF g = "outer" THEN "none"
          ELSE IF "root" \in handlers THEN "root" ELSE "none" BY <1>1, NearestHandler
<1>4. /\ Prefix["root"] = << >> /\ Prefix["outer"] = <<"a">> /\ Prefix["inner"] = <<"a", "1">>
      /\ Len(Prefix["root"]) = 0 /\ Len(Prefix["outer"]) = 1 /\ Len(Prefix["inner"]) = 2 BY PrefixIs
<1>5. e \in handlers /\ e \in Groups_ /\ \A h \in handlers : Len(Prefix[h]) > Len(Prefix[e]) => Len(Prefix[h]) > Len(Prefix[g])
  <2> HIDE DEF e, g
  <2>1. CASE g = "root" BY <2>1, <1>1, <1>2, <1>3, <1>4 DEF e, g
  <2>2. CASE g = "outer"
    <3>1. e = IF "outer" \in handlers THEN "outer" ELSE IF "root" \in handlers THEN "root" ELSE "none"
      BY <2>2, <1>2, <1>3
    <3>2. e # "none" BY DEF e, g
    <3>3. CASE "outer" \in handlers BY <2>2, <3>1, <3>3, <1>2
    <3>4. CASE "outer" \notin handlers
      <4>1. e = "root" /\ "root" \in handlers BY <3>1, <3>2, <3>4
      <4>2. \A h \in handlers : h = "root" \/ h = "inner" BY <1>1, <1>2, <3>4
      <4>3. \A h \in handlers : Len(Prefix[h]) > Len(Prefix["root"]) => Len(Prefix[h]) > Len(Prefix["outer"])
        BY <4>2, <1>4
      <4> QED BY <4>1, <4>3, <2>2, <1>2
    <3> QED BY <3>3, <3>4
  <2>3. CASE g = "inner" BY <2>3, <1>1, <1>2, <1>3, <1>4 DEF e, g
  <2> QED BY <1>1, <1>2, <2>1, <2>2, <2>3
<1>6. IsPrefix(Prefix[e], r.path)
  <2>1. \A i \in 1 .. Len(Prefix[g]) : r.path[i] = Prefix[g][i]
    <3>1. Prefix[g] \in Seq(RtSegs) /\ Len(Prefix[g]) <= Len(r.path) /\ SubSeq(Prefix[g], 1, Len(Prefix[g])) = SubSeq(r.path, 1, Len(Prefix[g]))
      BY <1>1, PrefixIs DEF IsPrefix
    <3> DEFINE s == Prefix[g]
    <3>2. \A i \in 1 .. Len(s) : SubSeq(s, 1, Len(s))[i] = s[i] /\ SubSeq(r.path, 1, Len(s))[i] = r.path[i]
      <4> HIDE DEF s
      <4> QED BY <3>1, <1>1 DEF s
    <3> QED BY <3>1, <3>2
  <2>2. Len(Prefix[e]) <= Len(Prefix[g]) /\ Prefix[e] \in Seq(RtSegs) /\ Len(Prefix[g]) <= Len(r.path)
        /\ \A i \in 1 .. Len(Prefix[e]) : Prefix[e][i] = Prefix[g][i]
    <3> HIDE DEF e, g
    <3>1. Prefix[e] \in Seq(RtSegs) /\ Len(Prefix[g]) <= Len(r.path) BY <1>1, <1>5, PrefixIs DEF IsPrefix
    <3>2. Len(Prefix[e]) <= Len(Prefix[g]) /\ \A i \in 1 .. Len(Prefix[e]) : Prefix[e][i] = Prefix[g][i]
      <4>1. <<g, e>> \in {<<"root", "root">>, <<"outer", "root">>, <<"outer", "outer">>, <<"inner", "root">>, <<"inner", "outer">>, <<"inner", "inner">>}
        BY <1>1, <1>2, <1>3, <1>5 DEF e, g
      <4>2. CASE e = g BY <4>2, <1>1, <1>2, <1>4
      <4>3. CASE e = "root" BY <4>1, <4>3, <1>4
      <4>4. CASE e = "outer" /\ g = "inner"
        <5>1. \A i \in 1 .. 1 : i = 1 OBVIOUS
        <5>2. <<"a">>[1] = <<"a", "1">>[1] OBVIOUS
        <5> QED BY <4>4, <5>1, <5>2, <1>4
      <4> QED BY <4>1, <4>2, <4>3, <4>4
    <3> QED BY <3>1, <3>2
  <2>3. Len(Prefix[e]) \in Nat /\ Len(Prefix[g]) \in Nat BY <2>2, <1>1, PrefixIs
  <2> DEFINE s == Prefix[e]
  <2>4. s \in Seq(RtSegs) /\ Len(s) \in Nat /\ Len(s) <= Len(r.path) /\ \A i \in 1 .. Len(s) : r.path[i] = s[i]
    BY <2>1, <2>2, <2>3, <1>1
  <2> HIDE DEF s
  <2>5. SubSeq(s, 1, Len(s)) = [i \in 1 .. Len(s) |-> s[i]] /\ SubSeq(r.path, 1, Len(s)) = [i \in 1 .. Len(s) |-> r.path[i]]
    BY <1>1, <2>4
  <2>6. IsPrefix(s, r.path) BY <2>4, <2>5 DEF IsPrefix
  <2> QED BY <2>6 DEF s
<1> QED BY <1>5, <1>6

\* A static route that a request for its own path does not get is reported.
LEMMA HiddenReported ==
  ASSUME RtInv, NEW r \in ToSet(registered), Kind(r) = 0, find_handler(r.method, [path |-> r.path, tidy |-> TRUE]) # r
  PROVE  <<r.method, r.path>> \in validate_routes
<1> DEFINE uri == [path |-> r.path, tidy |-> TRUE]
           key == <<r.method, r.path>>
           x == routes_[key]
           same == {i \in DOMAIN registered : <<registered[i].method, registered[i].path>> = key}
<1>0. RtBase /\ StaticKept BY DEF RtInv
<1>1. /\ ToSet(registered) = {registered[k] : k \in 1 .. Len(registered)} /\ DOMAIN registered = 1 .. Len(registered)
      /\ Len(registered) \in Nat
      /\ \A k \in 1 .. Len(registered) : registered[k] \in RtRoutes /\ registered[k].id = k BY <1>0, Registered
<1>2. r \in RtRoutes /\ static(r.path) /\ r.id \in 1 .. Len(registered) /\ registered[r.id] = r BY <1>1, RouteFacts
<1>3. key \in DOMAIN routes_ BY <1>0, <1>1, <1>2 DEF StaticKept
<1>4. find_handler(r.method, uri) = x BY <1>3 DEF find_handler
<1>5. x.id \in 1 .. Len(registered) /\ registered[x.id] = x /\ key = <<x.method, x.path>> /\ x # r
  BY <1>0, <1>1, <1>3, <1>4 DEF StaticKept
<1>6. r.id # x.id /\ r.id \in same /\ x.id \in same
  <2> HIDE DEF x
  <2> QED BY <1>1, <1>2, <1>5
<1>7. Cardinality(same) > 1
  <2> DEFINE one == {r.id}
  <2>1. IsFiniteSet(same)
    <3>1. IsFiniteSet(1 .. Len(registered)) BY <1>1, FS_Interval
    <3> QED BY <3>1, <1>1, FS_Subset
  <2>2. IsFiniteSet(one) /\ Cardinality(one) = 1 BY FS_Singleton
  <2>3. one \subseteq same /\ one # same
    <3> HIDE DEF same, x
    <3> QED BY <1>6
  <2> HIDE DEF same, one
  <2>4. Cardinality(one) <= Cardinality(same) /\ Cardinality(one) # Cardinality(same) /\ Cardinality(same) \in Nat
    BY <2>1, <2>3, FS_Subset, FS_CardinalityType
  <2> QED BY <2>2, <2>4
<1> QED BY <1>7 DEF validate_routes

LEMMA RoutedInv ==
  ASSUME RtInv
  PROVE  RoutedAsRegistered
<1>0. RtBase /\ DynamicKept /\ StaticKept BY DEF RtInv
<1>1. /\ ToSet(registered) = {registered[k] : k \in 1 .. Len(registered)} /\ DOMAIN registered = 1 .. Len(registered)
      /\ \A k \in 1 .. Len(registered) : registered[k] \in RtRoutes BY <1>0, Registered
<1>2. RtTypeOK
  <2>1. ASSUME NEW key \in DOMAIN routes_ PROVE key \in Methods \X Seq(Names)
    <3> DEFINE r == routes_[key]
    <3>1. r \in RtRoutes /\ static(r.path) /\ key = <<r.method, r.path>> BY <1>0, <1>1 DEF StaticKept
    <3> HIDE DEF r
    <3>2. r.method \in Methods /\ r.path \in Seq(RtSegs) BY <3>1, RouteFacts DEF Pattern
    <3>3. \A i \in 1 .. Len(r.path) : r.path[i] \in Names BY <3>1, <3>2 DEF static, Literal, is_wildcard, RtSegs
    <3>4. r.path \in Seq(Names) BY <3>2, <3>3
    <3> QED BY <3>1, <3>2, <3>4
  <2> QED BY <2>1, <1>0 DEF RtTypeOK, DynamicKept, RtBase
<1>3. ASSUME NEW uri \in RtPaths, NEW m \in Methods
      PROVE  /\ Chosen(m, uri) = IF m = "HEAD" /\ Best(m, uri) = NoRoute THEN Best("GET", uri) ELSE Best(m, uri)
             /\ (Chosen(m, uri) # NoRoute) = (m \in Allow(uri))
             /\ (Chosen(m, uri) # NoRoute /\ <<m, Chosen(m, uri).path>> \in streams) => is_stream_route(m, uri)
             /\ \A p \in ToSet(RanFor(m, uri)) : IsPrefix(p, uri.path)
  <2>1. uri \in RtAsked BY RtAssumption DEF RtAssumption, RtAsked
  <2>2. (Chosen(m, uri) # NoRoute) = (m \in Allow(uri)) BY DEF Chosen, Allow
  <2>3. (Chosen(m, uri) # NoRoute /\ <<m, Chosen(m, uri).path>> \in streams) => is_stream_route(m, uri)
    BY <2>1, ChosenIs, StreamKnown
  <2> QED BY <2>1, <2>2, <2>3, ChosenIs, RanUnder
<1>4. ASSUME NEW r \in ToSet(registered)
      PROVE  /\ Kind(r) = 0 /\ find_handler(r.method, [path |-> r.path, tidy |-> TRUE]) # r => <<r.method, r.path>> \in validate_routes
             /\ LET e == ErrorHandlerOf(r.errors)
                IN e # "none" => e \in handlers /\ IsPrefix(Prefix[e], r.path)
                                   /\ \A h \in handlers : Len(Prefix[h]) > Len(Prefix[e]) => Len(Prefix[h]) > Len(Prefix[r.errors])
  BY <1>1, HiddenReported, ErrorsStayInside
<1> QED BY <1>2, <1>3, <1>4 DEF RoutedAsRegistered

\* Requests get the handler, middleware and error handler that the registrations
\* give them, in whatever order those came (Router.cpp:420, find_handler).
THEOREM RoutesAreRegistered == RtSpec => []RoutedAsRegistered
<1>1. RtInit => RtInv BY RtInitHolds
<1>2. RtInv /\ [RtNext]_rtVars => RtInv' BY RtStep
<1>3. RtInv => RoutedAsRegistered BY RoutedInv
<1> QED BY <1>1, <1>2, <1>3, PTL DEF RtSpec
----
\* Requests and responses: a value in the context has one slot, where its
\* reference points, and an open file one response.

LEMMA MinOf ==
  ASSUME NEW S \in SUBSET Nat, S # {}
  PROVE  Min(S) \in S /\ \A x \in S : Min(S) <= x
<1>1. \E n \in S : \A y \in S : n <= y BY SmallestOf
<1> QED BY <1>1 DEF Min

LEMMA MinOfTwo ==
  ASSUME NEW a \in Nat, NEW b \in Nat
  PROVE  Min({a, b}) \in {a, b} /\ Min({a, b}) <= a /\ Min({a, b}) <= b
<1>1. {a, b} \in SUBSET Nat /\ {a, b} # {} OBVIOUS
<1> QED BY <1>1, MinOf

MsSlots == [key : MsTypes \cup {"void"}, value : Nat, used : BOOLEAN]

ContextInv ==
  /\ msSlots \in Seq(MsSlots) /\ msSets \in Nat
  /\ msWant \in [MsTypes -> Nat] /\ msRefs \in [MsTypes -> Nat]
  /\ \A i \in DOMAIN msSlots : msSlots[i].used =>
       /\ msSlots[i].key \in MsTypes /\ msRefs[msSlots[i].key] = i
       /\ msWant[msSlots[i].key] = msSlots[i].value /\ msSlots[i].value # 0
  /\ \A t \in MsTypes : msWant[t] # 0 =>
       msRefs[t] \in DOMAIN msSlots /\ msSlots[msRefs[t]].used /\ msSlots[msRefs[t]].key = t

LEMMA SlotOf ==
  ASSUME ContextInv, NEW t \in MsTypes
  PROVE  /\ MsSlot(t) = IF msWant[t] = 0 THEN {} ELSE {msRefs[t]}
         /\ MsSlot(t) # {} => (CHOOSE i \in MsSlot(t) : TRUE) = msRefs[t]
<1>1. \A i \in MsSlot(t) : i = msRefs[t] /\ msWant[t] # 0 BY DEF MsSlot, ContextInv
<1>2. msWant[t] # 0 => msRefs[t] \in MsSlot(t) BY DEF MsSlot, ContextInv
<1> QED BY <1>1, <1>2

LEMMA ContextHolds ==
  ASSUME ContextInv
  PROVE  ContextKept
<1> SUFFICES ASSUME NEW t \in MsTypes
             PROVE  /\ Cardinality(MsSlot(t)) = (IF msWant[t] = 0 THEN 0 ELSE 1)
                    /\ msWant[t] # 0 => msSlots[msRefs[t]].key = t /\ msSlots[msRefs[t]].value = msWant[t]
  BY DEF ContextKept
<1>1. Cardinality(MsSlot(t)) = (IF msWant[t] = 0 THEN 0 ELSE 1) BY SlotOf, FS_EmptySet, FS_Singleton
<1>2. msWant[t] # 0 => msSlots[msRefs[t]].key = t /\ msSlots[msRefs[t]].value = msWant[t] BY DEF ContextInv
<1> QED BY <1>1, <1>2

LEMMA ContextStarts ==
  ASSUME MsInit
  PROVE  ContextInv
<1>1. msSlots = [i \in 1 .. MsInline |-> MsFree] /\ MsInline \in Nat /\ msSets = 0
      /\ msWant = [t \in MsTypes |-> 0] /\ msRefs = [t \in MsTypes |-> 0] BY MsAssumption DEF MsInit, MsAssumption
<1>2. MsFree \in MsSlots /\ ~MsFree.used BY DEF MsFree, MsSlots
<1>3. msSlots \in Seq(MsSlots) /\ DOMAIN msSlots = 1 .. MsInline /\ \A i \in DOMAIN msSlots : ~msSlots[i].used
  BY <1>1, <1>2
<1> QED BY <1>1, <1>3 DEF ContextInv

LEMMA ContextSet ==
  ASSUME ContextInv, NEW t \in MsTypes, MsSet(t)
  PROVE  ContextInv'
<1> DEFINE i == slot_for(t)
           slot == [key |-> t, value |-> msSets + 1, used |-> TRUE]
           n == Len(msSlots)
           free == {j \in DOMAIN msSlots : ~msSlots[j].used}
<1>1. /\ msSlots' = IF i > n THEN Append(msSlots, slot) ELSE [msSlots EXCEPT ![i] = slot]
      /\ msRefs' = [msRefs EXCEPT ![t] = i]
      /\ msSets' = msSets + 1 /\ msWant' = [msWant EXCEPT ![t] = msSets + 1] BY DEF MsSet
<1>2. /\ msSlots \in Seq(MsSlots) /\ DOMAIN msSlots = 1 .. n /\ n \in Nat /\ msSets \in Nat
      /\ msWant \in [MsTypes -> Nat] /\ msRefs \in [MsTypes -> Nat] BY DEF ContextInv
\* The slot is the type's own or nobody's.
<1>3. /\ i \in 1 .. n + 1
      /\ i \in 1 .. n /\ msSlots[i].used => msSlots[i].key = t
      /\ \A j \in 1 .. n : msSlots[j].used /\ msSlots[j].key = t => j = i
  <2>1. CASE MsSlot(t) # {}
    <3>1. i = msRefs[t] /\ MsSlot(t) = {msRefs[t]} BY <2>1, SlotOf DEF slot_for
    <3> QED BY <3>1, <1>2 DEF MsSlot
  <2>2. CASE MsSlot(t) = {}
    <3>1. \A j \in 1 .. n : ~(msSlots[j].used /\ msSlots[j].key = t) BY <2>2, <1>2 DEF MsSlot
    <3>2. CASE free = {}
      <4>1. i = n + 1 BY <2>2, <3>2 DEF slot_for
      <4> QED BY <4>1, <3>1, <1>2
    <3>3. CASE free # {}
      <4>1. i = Min(free) /\ free \in SUBSET Nat BY <2>2, <3>3, <1>2 DEF slot_for
      <4>2. i \in free
        <5> HIDE DEF i, free
        <5> QED BY <4>1, <3>3, MinOf
      <4> QED BY <4>2, <3>1, <1>2
    <3> QED BY <3>2, <3>3
  <2> QED BY <2>1, <2>2
<1>4. slot \in MsSlots /\ slot.used /\ slot.key = t /\ slot.value = msSets + 1 BY <1>2 DEF MsSlots
<1> HIDE DEF i, slot
<1>5. /\ msSlots' \in Seq(MsSlots) /\ i \in DOMAIN msSlots' /\ msSlots'[i] = slot
      /\ 1 .. n \subseteq DOMAIN msSlots'
      /\ \A j \in DOMAIN msSlots' : j # i => j \in 1 .. n /\ msSlots'[j] = msSlots[j]
  <2>1. CASE i > n
    <3>1. i = n + 1 /\ msSlots' = Append(msSlots, slot) BY <2>1, <1>1, <1>2, <1>3
    <3>2. msSlots' \in Seq(MsSlots) /\ Len(msSlots') = n + 1 /\ DOMAIN msSlots' = 1 .. n + 1 /\ msSlots'[n + 1] = slot
          /\ \A j \in 1 .. n : msSlots'[j] = msSlots[j] BY <3>1, <1>2, <1>4, AppendProperties
    <3> QED BY <3>1, <3>2, <1>2
  <2>2. CASE ~(i > n) BY <2>2, <1>1, <1>2, <1>3, <1>4
  <2> QED BY <2>1, <2>2
<1>6. /\ msRefs' \in [MsTypes -> Nat] /\ msRefs'[t] = i /\ msWant' \in [MsTypes -> Nat] /\ msWant'[t] = msSets + 1
      /\ \A u \in MsTypes : u # t => msRefs'[u] = msRefs[u] /\ msWant'[u] = msWant[u] BY <1>1, <1>2, <1>3
<1>7. ASSUME NEW j \in DOMAIN msSlots', msSlots'[j].used
      PROVE  /\ msSlots'[j].key \in MsTypes /\ msRefs'[msSlots'[j].key] = j
             /\ msWant'[msSlots'[j].key] = msSlots'[j].value /\ msSlots'[j].value # 0
  <2>1. CASE j = i BY <2>1, <1>2, <1>4, <1>5, <1>6
  <2>2. CASE j # i
    <3>1. j \in 1 .. n /\ msSlots'[j] = msSlots[j] /\ msSlots[j].key # t BY <2>2, <1>3, <1>5, <1>7
    <3> QED BY <3>1, <1>2, <1>6, <1>7 DEF ContextInv
  <2> QED BY <2>1, <2>2
<1>8. ASSUME NEW u \in MsTypes, msWant'[u] # 0
      PROVE  msRefs'[u] \in DOMAIN msSlots' /\ msSlots'[msRefs'[u]].used /\ msSlots'[msRefs'[u]].key = u
  <2>1. CASE u = t BY <2>1, <1>4, <1>5, <1>6
  <2>2. CASE u # t
    <3>1. msRefs'[u] = msRefs[u] /\ msRefs[u] \in 1 .. n /\ msSlots[msRefs[u]].used /\ msSlots[msRefs[u]].key = u
      BY <2>2, <1>2, <1>6, <1>8 DEF ContextInv
    <3>2. msRefs[u] # i BY <2>2, <3>1, <1>3
    <3>3. msSlots'[msRefs[u]] = msSlots[msRefs[u]] /\ msRefs[u] \in DOMAIN msSlots' BY <3>1, <3>2, <1>5
    <3> QED BY <3>1, <3>3
  <2> QED BY <2>1, <2>2
<1>9. msSets' \in Nat BY <1>1, <1>2
<1> QED BY <1>5, <1>6, <1>7, <1>8, <1>9 DEF ContextInv

LEMMA ContextErased ==
  ASSUME ContextInv, NEW t \in MsTypes, MsErase(t)
  PROVE  ContextInv'
<1> DEFINE i == msRefs[t]
           n == Len(msSlots)
<1>1. /\ msSlots \in Seq(MsSlots) /\ DOMAIN msSlots = 1 .. n /\ n \in Nat
      /\ msWant \in [MsTypes -> Nat] /\ msRefs \in [MsTypes -> Nat] BY DEF ContextInv
<1>2. msWant[t] # 0 /\ i \in 1 .. n /\ msSlots' = [msSlots EXCEPT ![i] = MsFree]
      /\ msWant' = [msWant EXCEPT ![t] = 0] /\ msRefs' = [msRefs EXCEPT ![t] = 0] /\ msSets' = msSets
  <2>1. MsSlot(t) # {} BY DEF MsErase
  <2>2. MsSlot(t) = {i} /\ (CHOOSE j \in MsSlot(t) : TRUE) = i /\ msWant[t] # 0 BY <2>1, SlotOf
  <2> QED BY <2>2, <1>1 DEF MsErase, MsSlot
<1>3. MsFree \in MsSlots /\ ~MsFree.used BY DEF MsFree, MsSlots
<1>4. /\ msSlots' \in Seq(MsSlots) /\ DOMAIN msSlots' = 1 .. n /\ ~msSlots'[i].used
      /\ \A j \in 1 .. n : j # i => msSlots'[j] = msSlots[j] BY <1>1, <1>2, <1>3
<1>5. /\ msRefs' \in [MsTypes -> Nat] /\ msWant' \in [MsTypes -> Nat] /\ msWant'[t] = 0
      /\ \A u \in MsTypes : u # t => msRefs'[u] = msRefs[u] /\ msWant'[u] = msWant[u] BY <1>1, <1>2
<1>6. ASSUME NEW j \in DOMAIN msSlots', msSlots'[j].used
      PROVE  /\ msSlots'[j].key \in MsTypes /\ msRefs'[msSlots'[j].key] = j
             /\ msWant'[msSlots'[j].key] = msSlots'[j].value /\ msSlots'[j].value # 0
  <2>1. j \in 1 .. n /\ j # i /\ msSlots'[j] = msSlots[j] BY <1>4, <1>6
  <2>2. msSlots[j].key \in MsTypes /\ msRefs[msSlots[j].key] = j /\ msWant[msSlots[j].key] = msSlots[j].value /\ msSlots[j].value # 0
    BY <2>1, <1>1, <1>6 DEF ContextInv
  <2> QED BY <2>1, <2>2, <1>5
<1>7. ASSUME NEW u \in MsTypes, msWant'[u] # 0
      PROVE  msRefs'[u] \in DOMAIN msSlots' /\ msSlots'[msRefs'[u]].used /\ msSlots'[msRefs'[u]].key = u
  <2>1. u # t /\ msRefs'[u] = msRefs[u] /\ msWant[u] # 0 BY <1>5, <1>7
  <2>2. msRefs[u] \in 1 .. n /\ msSlots[msRefs[u]].used /\ msSlots[msRefs[u]].key = u BY <2>1, <1>1 DEF ContextInv
  <2>3. msRefs[u] # i BY <2>1, <2>2, <1>1, <1>2 DEF ContextInv
  <2> QED BY <2>1, <2>2, <2>3, <1>4
<1>8. msSets' \in Nat BY <1>2 DEF ContextInv
<1> QED BY <1>4, <1>5, <1>6, <1>7, <1>8 DEF ContextInv

MsStatuses == {200, 204, 304, 404, 500, 1000}
MsResponses == [status : MsStatuses, fd : MsFds \cup {MsNoFd}, size : Nat, offset : Nat, body : Nat,
                length : Nat \cup {-1}, cookies : {0}, chunked : {FALSE}]

\* What is announced is what follows.
Framed(r) ==
  IF r.fd # MsNoFd THEN r.offset <= r.size /\ r.length = r.size - r.offset
  ELSE r.length = r.body \/ (r.length = -1 /\ r.body = 0)

FilesInv ==
  /\ msRes \in [MsObjects -> MsResponses \cup {MsGone}]
  /\ msClosed = 0
  /\ \A f : f \in msOpen <=> f # MsNoFd /\ \E o \in MsObjects : MsAlive(o) /\ msRes[o].fd = f
  /\ \A o, p \in MsObjects : o # p /\ MsAlive(o) /\ MsAlive(p) /\ msRes[o].fd # MsNoFd => msRes[o].fd # msRes[p].fd
  /\ \A o \in MsObjects \ msLate : MsAlive(o) => Framed(msRes[o])

LEMMA ResponseIs ==
  ASSUME NEW r \in MsResponses
  PROVE  /\ r # MsGone /\ r.status \in MsStatuses /\ r.fd \in MsFds \cup {MsNoFd} /\ r.size \in Nat /\ r.offset \in Nat /\ r.body \in Nat
         /\ r.length \in Nat \cup {-1}
         /\ \A n \in Nat : set_body(r, n) \in MsResponses /\ set_body(r, n).fd = r.fd /\ set_body(r, n).body = n /\ set_body(r, n).length = n
<1>1. r.status # MsGone.status BY DEF MsResponses, MsGone, MsStatuses
<1> QED BY <1>1 DEF MsResponses, set_body

LEMMA FreshIs ==
  MsFresh \in MsResponses /\ MsFresh # MsGone /\ MsFresh.fd = MsNoFd /\ Framed(MsFresh)
<1>1. MsFresh \in MsResponses BY DEF MsFresh, MsResponses, MsStatuses
<1>2. MsFresh # MsGone BY <1>1, ResponseIs
<1>3. MsFresh.fd = MsNoFd /\ MsFresh.length = -1 /\ MsFresh.body = 0 BY DEF MsFresh
<1> QED BY <1>1, <1>2, <1>3 DEF Framed

LEMMA WireIs ==
  ASSUME NEW r \in MsResponses, Framed(r), bodiless(r) => r.fd = MsNoFd
  PROVE  LET wire == serialize(r) IN wire.bytes \in {0, wire.head.length} /\ (wire.bytes = 0 => bodiless(r) \/ wire.head.length = 0)
<1> DEFINE wire == serialize(r)
<1>1. r.status \in MsStatuses /\ r.size \in Nat /\ r.offset \in Nat /\ r.body \in Nat /\ r.length \in Nat \cup {-1}
  BY ResponseIs
<1>2. bodiless(r) <=> r.status \in {204, 304} BY <1>1 DEF bodiless, code, MsStatuses
<1>3. wire.bytes = (IF r.fd # MsNoFd THEN r.size - r.offset ELSE IF r.status < 200 \/ r.status \in {204, 304} THEN 0 ELSE r.body)
      /\ wire.head.length = (IF r.length >= 0 THEN r.length ELSE IF bodiless(r) THEN -1 ELSE r.body)
  BY DEF serialize, serialize_headers
<1>4. ~(r.status < 200) BY <1>1 DEF MsStatuses
<1> HIDE DEF wire
<1>5. wire.bytes \in {0, wire.head.length} /\ (wire.bytes = 0 => bodiless(r) \/ wire.head.length = 0)
  BY <1>1, <1>2, <1>3, <1>4 DEF Framed
<1> QED BY <1>5 DEF wire

LEMMA FilesHold ==
  ASSUME FilesInv
  PROVE  FilesOwned
<1>1. \A o \in MsObjects : MsAlive(o) => msRes[o] \in MsResponses BY DEF FilesInv, MsAlive
<1>2. msOpen = {msRes[o].fd : o \in {p \in MsObjects : MsAlive(p)}} \ {MsNoFd} BY DEF FilesInv
<1>3. ASSUME NEW o \in MsObjects \ msLate, MsAlive(o), bodiless(msRes[o]) => msRes[o].fd = MsNoFd
      PROVE  LET wire == serialize(msRes[o]) IN wire.bytes \in {0, wire.head.length} /\ (wire.bytes = 0 => bodiless(msRes[o]) \/ wire.head.length = 0)
  <2>1. msRes[o] \in MsResponses /\ Framed(msRes[o]) BY <1>1, <1>3 DEF FilesInv
  <2> QED BY <2>1, <1>3, WireIs
<1>4. msClosed = 0 /\ \A o, p \in MsObjects : o # p /\ MsAlive(o) /\ MsAlive(p) /\ msRes[o].fd # MsNoFd => msRes[o].fd # msRes[p].fd
  BY DEF FilesInv
<1> QED BY <1>2, <1>3, <1>4 DEF FilesOwned

LEMMA FilesStart ==
  ASSUME MsInit
  PROVE  FilesInv
<1>1. msRes = [o \in MsObjects |-> MsFresh] /\ msOpen = {} /\ msClosed = 0 BY DEF MsInit
<1>2. msRes \in [MsObjects -> MsResponses \cup {MsGone}] /\ \A o \in MsObjects : msRes[o].fd = MsNoFd /\ Framed(msRes[o])
  BY <1>1, FreshIs
<1> QED BY <1>1, <1>2 DEF FilesInv

\* A descriptor that a response has is open, so closing it is no mistake.
LEMMA ClosesOpen ==
  ASSUME FilesInv, NEW fds, MsClose(fds), \A f \in fds : f # MsNoFd /\ \E o \in MsObjects : MsAlive(o) /\ msRes[o].fd = f
  PROVE  msOpen' = msOpen \ fds /\ msClosed' = 0
<1>1. fds \ msOpen = {} BY DEF FilesInv
<1> QED BY <1>1, FS_EmptySet DEF MsClose, FilesInv

\* One response changes; what it has of files after the step is fd.
LEMMA OneChanges ==
  ASSUME FilesInv, NEW o \in MsObjects, MsAlive(o), NEW r \in MsResponses, msRes' = [msRes EXCEPT ![o] = r], msClosed' = 0,
         \/ r.fd = msRes[o].fd /\ msOpen' = msOpen
         \/ r.fd = MsNoFd /\ msOpen' = msOpen \ ({msRes[o].fd} \ {MsNoFd})
         \/ r.fd \in MsFds \ msOpen /\ msOpen' = (msOpen \ ({msRes[o].fd} \ {MsNoFd})) \cup {r.fd},
         msLate' \cup {o} = msLate \cup {o}, o \notin msLate' => Framed(r)
  PROVE  FilesInv'
<1>0. MsNoFd \notin MsFds BY MsAssumption DEF MsAssumption
<1>1. /\ msRes \in [MsObjects -> MsResponses \cup {MsGone}] /\ msRes' \in [MsObjects -> MsResponses \cup {MsGone}] /\ msRes'[o] = r
      /\ \A p \in MsObjects : p # o => msRes'[p] = msRes[p] BY DEF FilesInv
<1>2. r # MsGone BY ResponseIs
<1>3. MsAlive(o)' /\ \A p \in MsObjects : p # o => (MsAlive(p)' <=> MsAlive(p)) BY <1>1, <1>2 DEF MsAlive
<1>4. \A p \in MsObjects : p # o /\ MsAlive(p) /\ msRes[o].fd # MsNoFd => msRes[p].fd # msRes[o].fd BY DEF FilesInv
<1>5. \A f : f \in msOpen' <=> f # MsNoFd /\ \E p \in MsObjects : MsAlive(p)' /\ msRes'[p].fd = f
  <2> TAKE f
  <2>1. f \in msOpen <=> f # MsNoFd /\ (msRes[o].fd = f \/ \E p \in MsObjects : p # o /\ MsAlive(p) /\ msRes[p].fd = f)
    BY DEF FilesInv
  <2>2. (\E p \in MsObjects : MsAlive(p)' /\ msRes'[p].fd = f) <=> (r.fd = f \/ \E p \in MsObjects : p # o /\ MsAlive(p) /\ msRes[p].fd = f)
    BY <1>1, <1>3
  <2>3. ASSUME f = msRes[o].fd, f # MsNoFd PROVE ~\E p \in MsObjects : p # o /\ MsAlive(p) /\ msRes[p].fd = f
    BY <2>3, <1>4
  <2>4. f \in msOpen' <=> f # MsNoFd /\ (r.fd = f \/ \E p \in MsObjects : p # o /\ MsAlive(p) /\ msRes[p].fd = f)
    <3>1. CASE r.fd = msRes[o].fd /\ msOpen' = msOpen BY <3>1, <2>1
    <3>2. CASE r.fd = MsNoFd /\ msOpen' = msOpen \ ({msRes[o].fd} \ {MsNoFd}) BY <3>2, <2>1, <2>3
    <3>3. CASE r.fd \in MsFds \ msOpen /\ msOpen' = (msOpen \ ({msRes[o].fd} \ {MsNoFd})) \cup {r.fd}
      BY <3>3, <2>1, <2>3, <1>0
    <3> QED BY <3>1, <3>2, <3>3
  <2> QED BY <2>2, <2>4
<1>6. \A p \in MsObjects : p # o /\ MsAlive(p) /\ r.fd # MsNoFd => msRes[p].fd # r.fd
  <2> TAKE p \in MsObjects
  <2>1. CASE r.fd = msRes[o].fd BY <2>1, <1>4
  <2>2. CASE r.fd \in MsFds \ msOpen BY <2>2, <1>0 DEF FilesInv
  <2>3. CASE r.fd = MsNoFd BY <2>3
  <2> QED BY <2>1, <2>2, <2>3
<1>7. \A p, q \in MsObjects : p # q /\ MsAlive(p)' /\ MsAlive(q)' /\ msRes'[p].fd # MsNoFd => msRes'[p].fd # msRes'[q].fd
  <2> TAKE p, q \in MsObjects
  <2>1. CASE p = o BY <2>1, <1>1, <1>3, <1>6
  <2>2. CASE q = o BY <2>2, <1>1, <1>3, <1>6
  <2>3. CASE p # o /\ q # o BY <2>3, <1>1, <1>3 DEF FilesInv
  <2> QED BY <2>1, <2>2, <2>3
<1>8. \A p \in MsObjects \ msLate' : MsAlive(p)' => Framed(msRes'[p])
  <2> TAKE p \in MsObjects \ msLate'
  <2>1. CASE p = o BY <2>1, <1>1
  <2>2. CASE p # o BY <2>2, <1>1, <1>3 DEF FilesInv
  <2> QED BY <2>1, <2>2
<1> QED BY <1>1, <1>5, <1>7, <1>8 DEF FilesInv, MsAlive

\* A response of which one field is set.
LEMMA FieldSet ==
  ASSUME NEW q \in MsResponses
  PROVE  /\ \A v \in MsStatuses : LET r == [q EXCEPT !.status = v]
              IN r \in MsResponses /\ r.status = v /\ r.fd = q.fd /\ r.size = q.size /\ r.offset = q.offset /\ r.body = q.body /\ r.length = q.length
         /\ \A v \in MsFds \cup {MsNoFd} : LET r == [q EXCEPT !.fd = v]
              IN r \in MsResponses /\ r.status = q.status /\ r.fd = v /\ r.size = q.size /\ r.offset = q.offset /\ r.body = q.body /\ r.length = q.length
         /\ \A v \in Nat : LET r == [q EXCEPT !.size = v]
              IN r \in MsResponses /\ r.status = q.status /\ r.fd = q.fd /\ r.size = v /\ r.offset = q.offset /\ r.body = q.body /\ r.length = q.length
         /\ \A v \in Nat : LET r == [q EXCEPT !.offset = v]
              IN r \in MsResponses /\ r.status = q.status /\ r.fd = q.fd /\ r.size = q.size /\ r.offset = v /\ r.body = q.body /\ r.length = q.length
         /\ \A v \in Nat \cup {-1} : LET r == [q EXCEPT !.length = v]
              IN r \in MsResponses /\ r.status = q.status /\ r.fd = q.fd /\ r.size = q.size /\ r.offset = q.offset /\ r.body = q.body /\ r.length = v
<1>1. \A v \in MsStatuses : LET r == [q EXCEPT !.status = v]
              IN r \in MsResponses /\ r.status = v /\ r.fd = q.fd /\ r.size = q.size /\ r.offset = q.offset /\ r.body = q.body /\ r.length = q.length
  BY DEF MsResponses
<1>2. \A v \in MsFds \cup {MsNoFd} : LET r == [q EXCEPT !.fd = v]
              IN r \in MsResponses /\ r.status = q.status /\ r.fd = v /\ r.size = q.size /\ r.offset = q.offset /\ r.body = q.body /\ r.length = q.length
  BY DEF MsResponses
<1>3. \A v \in Nat : LET r == [q EXCEPT !.size = v]
              IN r \in MsResponses /\ r.status = q.status /\ r.fd = q.fd /\ r.size = v /\ r.offset = q.offset /\ r.body = q.body /\ r.length = q.length
  BY DEF MsResponses
<1>4. \A v \in Nat : LET r == [q EXCEPT !.offset = v]
              IN r \in MsResponses /\ r.status = q.status /\ r.fd = q.fd /\ r.size = q.size /\ r.offset = v /\ r.body = q.body /\ r.length = q.length
  BY DEF MsResponses
<1>5. \A v \in Nat \cup {-1} : LET r == [q EXCEPT !.length = v]
              IN r \in MsResponses /\ r.status = q.status /\ r.fd = q.fd /\ r.size = q.size /\ r.offset = q.offset /\ r.body = q.body /\ r.length = v
  BY DEF MsResponses
<1> QED BY <1>1, <1>2, <1>3, <1>4, <1>5

LEMMA BodySet ==
  ASSUME FilesInv, NEW o \in MsObjects, MsSetBody(o)
  PROVE  FilesInv'
<1>1. PICK size \in MsSizes : msRes' = [msRes EXCEPT ![o] = set_body(msRes[o], size)] BY DEF MsSetBody
<1>2. MsAlive(o) /\ msRes[o] \in MsResponses /\ size \in Nat /\ msClosed = 0
  BY MsAssumption DEF MsSetBody, MsAlive, FilesInv, MsAssumption
<1> DEFINE r == set_body(msRes[o], size)
<1>3. r \in MsResponses /\ r.fd = msRes[o].fd /\ r.body = size /\ r.length = size BY <1>2, ResponseIs
<1>4. msOpen' = msOpen /\ msClosed' = 0 /\ msLate' = IF msRes[o].fd # MsNoFd THEN msLate \cup {o} ELSE msLate
  BY <1>2 DEF MsSetBody
<1> HIDE DEF r
<1>5. o \notin msLate' => Framed(r) BY <1>3, <1>4 DEF Framed
<1>6. msLate' \cup {o} = msLate \cup {o} BY <1>4
<1>7. msRes' = [msRes EXCEPT ![o] = r] BY <1>1 DEF r
<1> QED BY <1>2, <1>3, <1>4, <1>5, <1>6, <1>7, OneChanges

LEMMA FileSent ==
  ASSUME FilesInv, NEW o \in MsObjects, MsSendFile(o)
  PROVE  FilesInv'
<1> DEFINE had == IF msRes[o].fd = MsNoFd THEN {} ELSE {msRes[o].fd}
           q == msRes[o]
<1>1. MsAlive(o) /\ q \in MsResponses /\ msLate' = msLate \ {o} BY DEF MsSendFile, MsAlive, FilesInv
<1>2. had = {q.fd} \ {MsNoFd} /\ \A f \in had : f # MsNoFd /\ \E p \in MsObjects : MsAlive(p) /\ msRes[p].fd = f
  BY <1>1
<1>3. msLate' \cup {o} = msLate \cup {o} BY <1>1
<1>4. \/ /\ MsClose(had)
         /\ \E status \in {404, 500} : msRes' = [msRes EXCEPT ![o] = set_body([q EXCEPT !.fd = MsNoFd, !.offset = 0, !.status = status], 1)]
      \/ \E fd \in MsFds \ msOpen, size \in MsSizes :
             /\ msOpen' = (msOpen \ had) \cup {fd} /\ msClosed' = msClosed + Cardinality(had \ msOpen)
             /\ msRes' = [msRes EXCEPT ![o].fd = fd, ![o].size = size, ![o].offset = 0, ![o].length = size]
  BY DEF MsSendFile
<1>5. had \ msOpen = {} /\ msClosed = 0 BY <1>2 DEF FilesInv
<1>6. Cardinality(had \ msOpen) = 0 BY <1>5, FS_EmptySet
<1>7. CASE MsClose(had) /\ \E status \in {404, 500} : msRes' = [msRes EXCEPT ![o] = set_body([q EXCEPT !.fd = MsNoFd, !.offset = 0, !.status = status], 1)]
  <2>1. PICK status \in {404, 500} : msRes' = [msRes EXCEPT ![o] = set_body([q EXCEPT !.fd = MsNoFd, !.offset = 0, !.status = status], 1)]
    BY <1>7
  <2> DEFINE u == [q EXCEPT !.fd = MsNoFd]
             w == [u EXCEPT !.offset = 0]
             s == [w EXCEPT !.status = status]
             r == set_body(s, 1)
  <2>2. s \in MsResponses /\ s.fd = MsNoFd
    <3>1. u \in MsResponses /\ u.fd = MsNoFd BY <1>1, FieldSet
    <3> HIDE DEF u
    <3>2. w \in MsResponses /\ w.fd = MsNoFd BY <3>1, FieldSet
    <3> HIDE DEF w
    <3>3. status \in MsStatuses BY DEF MsStatuses
    <3> QED BY <3>2, <3>3, FieldSet
  <2>3. r \in MsResponses /\ r.fd = MsNoFd /\ r.body = 1 /\ r.length = 1
    <3> HIDE DEF s
    <3> QED BY <2>2, ResponseIs
  <2>4. msOpen' = msOpen \ ({q.fd} \ {MsNoFd}) /\ msClosed' = 0 BY <1>7, <1>2, <1>5, <1>6 DEF MsClose
  <2>5. msRes' = [msRes EXCEPT ![o] = r] BY <2>1
  <2> HIDE DEF r
  <2>6. Framed(r) BY <2>3 DEF Framed
  <2> QED BY <1>1, <1>3, <2>3, <2>4, <2>5, <2>6, OneChanges
<1>8. CASE \E fd \in MsFds \ msOpen, size \in MsSizes :
             /\ msOpen' = (msOpen \ had) \cup {fd} /\ msClosed' = msClosed + Cardinality(had \ msOpen)
             /\ msRes' = [msRes EXCEPT ![o].fd = fd, ![o].size = size, ![o].offset = 0, ![o].length = size]
  <2>1. PICK fd \in MsFds \ msOpen, size \in MsSizes :
             /\ msOpen' = (msOpen \ had) \cup {fd} /\ msClosed' = msClosed + Cardinality(had \ msOpen)
             /\ msRes' = [msRes EXCEPT ![o].fd = fd, ![o].size = size, ![o].offset = 0, ![o].length = size] BY <1>8
  <2> DEFINE u == [q EXCEPT !.fd = fd]
             w == [u EXCEPT !.size = size]
             v == [w EXCEPT !.offset = 0]
             r == [v EXCEPT !.length = size]
  <2>2. size \in Nat /\ fd # MsNoFd BY MsAssumption DEF MsAssumption
  <2>3. r \in MsResponses /\ r.fd = fd /\ r.size = size /\ r.offset = 0 /\ r.length = size
    <3>1. u \in MsResponses /\ u.fd = fd BY <1>1, FieldSet
    <3> HIDE DEF u
    <3>2. w \in MsResponses /\ w.fd = fd /\ w.size = size BY <2>2, <3>1, FieldSet
    <3> HIDE DEF w
    <3>3. v \in MsResponses /\ v.fd = fd /\ v.size = size /\ v.offset = 0 BY <3>2, FieldSet
    <3> HIDE DEF v
    <3> QED BY <2>2, <3>3, FieldSet
  <2>4. msRes' = [msRes EXCEPT ![o] = r] BY <2>1
  <2>5. msOpen' = (msOpen \ ({q.fd} \ {MsNoFd})) \cup {r.fd} /\ msClosed' = 0 BY <2>1, <2>3, <1>2, <1>5, <1>6
  <2> HIDE DEF r
  <2>6. Framed(r) BY <2>2, <2>3 DEF Framed
  <2>7. r.fd \in MsFds \ msOpen BY <2>3
  <2> QED BY <1>1, <1>3, <2>3, <2>4, <2>5, <2>6, <2>7, OneChanges
<1> HIDE DEF had, q
<1> QED BY <1>4, <1>7, <1>8

LEMMA RangeSet ==
  ASSUME FilesInv, NEW o \in MsObjects, MsSetFileRange(o)
  PROVE  FilesInv'
<1>1. PICK a \in MsSizes, b \in MsSizes : msRes' = [msRes EXCEPT ![o] = set_file_range(msRes[o], a, b)]
  BY DEF MsSetFileRange
<1> DEFINE q == msRes[o]
           r == set_file_range(q, a, b)
           e == Min({b, q.size})
           s == Min({a, e})
<1>2. MsAlive(o) /\ q \in MsResponses /\ a \in Nat /\ b \in Nat /\ msClosed = 0
  BY MsAssumption DEF MsSetFileRange, MsAlive, FilesInv, MsAssumption
<1>3. msOpen' = msOpen /\ msClosed' = 0 /\ msLate' = IF q.fd # MsNoFd THEN msLate \ {o} ELSE msLate
  BY <1>2 DEF MsSetFileRange
<1>4. q.size \in Nat BY <1>2, ResponseIs
<1>5. e \in Nat /\ e <= b /\ e <= q.size BY <1>2, <1>4, MinOfTwo
<1>6. s \in Nat /\ s <= e
  <2> HIDE DEF e
  <2> QED BY <1>2, <1>5, MinOfTwo
<1>7. r \in MsResponses /\ r.fd = q.fd /\ (o \notin msLate' => Framed(r))
  <2>1. CASE q.fd = MsNoFd BY <2>1, <1>2, <1>3 DEF set_file_range, FilesInv
  <2>2. CASE q.fd # MsNoFd
    <3>1. r = [q EXCEPT !.offset = s, !.size = e, !.length = e - s] BY <2>2 DEF set_file_range
    <3> HIDE DEF r, s, e
    <3> DEFINE u == [q EXCEPT !.offset = s]
               w == [u EXCEPT !.size = e]
               x == [w EXCEPT !.length = e - s]
    <3>2. r = x BY <3>1
    <3>3. u \in MsResponses /\ u.fd = q.fd /\ u.offset = s BY <1>2, <1>6, FieldSet
    <3> HIDE DEF u
    <3>4. w \in MsResponses /\ w.fd = q.fd /\ w.offset = s /\ w.size = e BY <1>5, <3>3, FieldSet
    <3> HIDE DEF w
    <3>5. x \in MsResponses /\ x.fd = q.fd /\ x.offset = s /\ x.size = e /\ x.length = e - s
      <4>1. e - s \in Nat BY <1>5, <1>6
      <4> QED BY <3>4, <4>1, FieldSet
    <3> HIDE DEF x
    <3>6. r \in MsResponses /\ r.fd = q.fd /\ r.offset = s /\ r.size = e /\ r.length = e - s BY <3>2, <3>5
    <3> QED BY <2>2, <3>6, <1>6 DEF Framed
  <2> QED BY <2>1, <2>2
<1>8. msRes' = [msRes EXCEPT ![o] = r] BY <1>1
<1>9. msLate' \cup {o} = msLate \cup {o} BY <1>3
<1> HIDE DEF r, e, s
<1> QED BY <1>2, <1>3, <1>7, <1>8, <1>9, OneChanges

LEMMA StatusSet ==
  ASSUME FilesInv, NEW o \in MsObjects, MsStatus(o)
  PROVE  FilesInv'
<1>1. PICK status \in {204, 304, 1000} : msRes' = [msRes EXCEPT ![o].status = status] BY DEF MsStatus
<1> DEFINE q == msRes[o]
           r == [q EXCEPT !.status = status]
<1>2. MsAlive(o) /\ q \in MsResponses /\ msOpen' = msOpen /\ msClosed' = 0 /\ msLate' = msLate
  BY DEF MsStatus, MsAlive, FilesInv
<1>3. r \in MsResponses /\ r.fd = q.fd /\ r.size = q.size /\ r.offset = q.offset /\ r.length = q.length /\ r.body = q.body
  <2>1. status \in MsStatuses BY DEF MsStatuses
  <2> QED BY <1>2, <2>1, FieldSet
<1>4. msRes' = [msRes EXCEPT ![o] = r] BY <1>1
<1> HIDE DEF r
<1>5. o \notin msLate' => Framed(r) BY <1>2, <1>3 DEF Framed, FilesInv
<1>6. msLate' \cup {o} = msLate \cup {o} BY <1>2
<1> QED BY <1>2, <1>3, <1>4, <1>5, <1>6, OneChanges

LEMMA ResponseGoes ==
  ASSUME FilesInv, NEW o \in MsObjects, MsDestroy(o)
  PROVE  FilesInv'
<1>1. MsAlive(o) /\ msRes' = [msRes EXCEPT ![o] = MsGone] /\ msLate' = msLate \ {o} BY DEF MsDestroy
<1>2. msOpen' = msOpen \ ({msRes[o].fd} \ {MsNoFd}) /\ msClosed' = 0 BY <1>1, ClosesOpen DEF MsDestroy
<1>3. /\ msRes \in [MsObjects -> MsResponses \cup {MsGone}] /\ msRes' \in [MsObjects -> MsResponses \cup {MsGone}]
      /\ ~MsAlive(o)' /\ \A p \in MsObjects : p # o => msRes'[p] = msRes[p] /\ (MsAlive(p)' <=> MsAlive(p))
  BY <1>1 DEF FilesInv, MsAlive
<1>4. \A f : f \in msOpen' <=> f # MsNoFd /\ \E p \in MsObjects : MsAlive(p)' /\ msRes'[p].fd = f
  <2> TAKE f
  <2>1. f \in msOpen <=> f # MsNoFd /\ (msRes[o].fd = f \/ \E p \in MsObjects : p # o /\ MsAlive(p) /\ msRes[p].fd = f)
    BY <1>1 DEF FilesInv
  <2>2. (\E p \in MsObjects : MsAlive(p)' /\ msRes'[p].fd = f) <=> \E p \in MsObjects : p # o /\ MsAlive(p) /\ msRes[p].fd = f
    BY <1>3
  <2>3. ASSUME f = msRes[o].fd, f # MsNoFd PROVE ~\E p \in MsObjects : p # o /\ MsAlive(p) /\ msRes[p].fd = f
    BY <2>3, <1>1 DEF FilesInv
  <2> QED BY <2>1, <2>2, <2>3, <1>2
<1>5. \A p, q \in MsObjects : p # q /\ MsAlive(p)' /\ MsAlive(q)' /\ msRes'[p].fd # MsNoFd => msRes'[p].fd # msRes'[q].fd
  BY <1>3 DEF FilesInv
<1>6. \A p \in MsObjects \ msLate' : MsAlive(p)' => Framed(msRes'[p]) BY <1>1, <1>3 DEF FilesInv
<1> QED BY <1>2, <1>3, <1>4, <1>5, <1>6 DEF FilesInv, MsAlive

LEMMA ResponseMoves ==
  ASSUME FilesInv, NEW to \in MsObjects, NEW from \in MsObjects, MsMove(to, from)
  PROVE  FilesInv'
<1>1. MsAlive(to) /\ MsAlive(from) /\ msRes[to] \in MsResponses /\ msRes[from] \in MsResponses
  BY DEF MsMove, MsAlive, FilesInv
<1>2. CASE to = from BY <1>2 DEF MsMove, FilesInv, MsAlive
<1>3. CASE to # from
  <2> DEFINE left == [MsFresh EXCEPT !.status = msRes[from].status, !.size = msRes[from].size, !.offset = msRes[from].offset]
  <2>1. /\ MsClose({msRes[to].fd} \ {MsNoFd})
        /\ msRes' = [msRes EXCEPT ![to] = msRes[from], ![from] = left]
        /\ msLate' = (IF from \in msLate THEN msLate \cup {to} ELSE msLate \ {to}) \ {from} BY <1>3 DEF MsMove
  <2>2. left \in MsResponses /\ left.fd = MsNoFd /\ Framed(left)
    <3> DEFINE u == [MsFresh EXCEPT !.status = msRes[from].status]
               w == [u EXCEPT !.size = msRes[from].size]
               x == [w EXCEPT !.offset = msRes[from].offset]
    <3>0. msRes[from].status \in MsStatuses /\ msRes[from].size \in Nat /\ msRes[from].offset \in Nat
      BY <1>1, ResponseIs
    <3>1. left \in MsResponses
      <4>1. left = x OBVIOUS
      <4>2. u \in MsResponses BY <3>0, FreshIs, FieldSet
      <4> HIDE DEF u
      <4>3. w \in MsResponses BY <3>0, <4>2, FieldSet
      <4> HIDE DEF w
      <4>4. x \in MsResponses BY <3>0, <4>3, FieldSet
      <4> HIDE DEF x, left
      <4> QED BY <4>1, <4>4
    <3>2. left.fd = MsNoFd /\ left.length = -1 /\ left.body = 0 BY DEF MsFresh
    <3> HIDE DEF left
    <3> QED BY <3>1, <3>2 DEF Framed
  <2> HIDE DEF left
  <2>3. left # MsGone BY <2>2, ResponseIs
  <2>4. /\ msRes \in [MsObjects -> MsResponses \cup {MsGone}] /\ msRes' \in [MsObjects -> MsResponses \cup {MsGone}]
        /\ msRes'[to] = msRes[from] /\ msRes'[from] = left
        /\ \A p \in MsObjects : p # to /\ p # from => msRes'[p] = msRes[p] BY <1>1, <1>3, <2>1, <2>2 DEF FilesInv
  <2>5. MsAlive(to)' /\ MsAlive(from)' /\ \A p \in MsObjects : p # to /\ p # from => (MsAlive(p)' <=> MsAlive(p))
    BY <2>3, <2>4, <1>1 DEF MsAlive
  <2>6. msOpen' = msOpen \ ({msRes[to].fd} \ {MsNoFd}) /\ msClosed' = 0 BY <1>1, <2>1, ClosesOpen
  <2>7. \A p, q \in MsObjects : p # q /\ MsAlive(p) /\ MsAlive(q) /\ msRes[p].fd # MsNoFd => msRes[p].fd # msRes[q].fd
    BY DEF FilesInv
  <2>8. \A f : f \in msOpen' <=> f # MsNoFd /\ \E p \in MsObjects : MsAlive(p)' /\ msRes'[p].fd = f
    <3> TAKE f
    <3>1. f \in msOpen <=> f # MsNoFd /\ (msRes[to].fd = f \/ msRes[from].fd = f \/ \E p \in MsObjects : p # to /\ p # from /\ MsAlive(p) /\ msRes[p].fd = f)
      BY <1>1 DEF FilesInv
    <3>2. f # MsNoFd => ((\E p \in MsObjects : MsAlive(p)' /\ msRes'[p].fd = f)
                          <=> (msRes[from].fd = f \/ \E p \in MsObjects : p # to /\ p # from /\ MsAlive(p) /\ msRes[p].fd = f))
      BY <2>2, <2>4, <2>5
    <3>3. ASSUME f = msRes[to].fd, f # MsNoFd
          PROVE  msRes[from].fd # f /\ ~\E p \in MsObjects : p # to /\ p # from /\ MsAlive(p) /\ msRes[p].fd = f
      BY <3>3, <1>1, <1>3, <2>7
    <3> QED BY <3>1, <3>2, <3>3, <2>6
  <2>9. \A p, q \in MsObjects : p # q /\ MsAlive(p)' /\ MsAlive(q)' /\ msRes'[p].fd # MsNoFd => msRes'[p].fd # msRes'[q].fd
    <3> TAKE p, q \in MsObjects
    <3>1. CASE p = from BY <3>1, <2>2, <2>4
    <3>2. CASE q = from BY <3>2, <2>2, <2>4
    <3>3. CASE p # from /\ q # from BY <3>3, <1>1, <2>4, <2>5, <2>7
    <3> QED BY <3>1, <3>2, <3>3
  <2>10. \A p \in MsObjects \ msLate' : MsAlive(p)' => Framed(msRes'[p])
    <3> TAKE p \in MsObjects \ msLate'
    <3>1. CASE p = from BY <3>1, <2>2, <2>4
    <3>2. CASE p = to BY <3>2, <1>1, <1>3, <2>1, <2>4 DEF FilesInv
    <3>3. CASE p # from /\ p # to BY <3>3, <2>1, <2>4, <2>5 DEF FilesInv
    <3> QED BY <3>1, <3>2, <3>3
  <2> QED BY <2>4, <2>6, <2>8, <2>9, <2>10 DEF FilesInv, MsAlive
<1> QED BY <1>2, <1>3

MsInv == FilesInv /\ ContextInv

LEMMA MsStep ==
  ASSUME MsInv, [MsNext]_msVars
  PROVE  MsInv'
<1>1. ASSUME UNCHANGED <<msRes, msOpen, msClosed, msLate>> PROVE FilesInv' BY <1>1 DEF MsInv, FilesInv, MsAlive
<1>2. ASSUME UNCHANGED MsContext PROVE ContextInv' BY <1>2 DEF MsInv, ContextInv, MsContext
<1>3. CASE UNCHANGED msVars
  <2>1. UNCHANGED <<msRes, msOpen, msClosed, msLate>> /\ UNCHANGED MsContext BY <1>3 DEF msVars, MsContext
  <2> QED BY <2>1, <1>1, <1>2 DEF MsInv
<1>4. ASSUME NEW o \in MsObjects, MsSetBody(o) \/ MsSendFile(o) \/ MsSetFileRange(o) \/ MsStatus(o) \/ MsDestroy(o)
      PROVE  MsInv'
  <2>1. FilesInv' BY <1>4, BodySet, FileSent, RangeSet, StatusSet, ResponseGoes DEF MsInv
  <2>2. UNCHANGED MsContext BY <1>4 DEF MsSetBody, MsSendFile, MsSetFileRange, MsStatus, MsDestroy
  <2> QED BY <2>1, <2>2, <1>2 DEF MsInv
<1>5. ASSUME NEW to \in MsObjects, NEW from \in MsObjects, MsMove(to, from)
      PROVE  MsInv'
  <2>1. UNCHANGED MsContext BY <1>5 DEF MsMove
  <2> QED BY <2>1, <1>2, <1>5, ResponseMoves DEF MsInv
<1>6. ASSUME NEW t \in MsTypes, MsSet(t) \/ MsEnsure(t) \/ MsErase(t)
      PROVE  MsInv'
  <2>1. ContextInv' BY <1>6, ContextSet, ContextErased DEF MsInv, MsEnsure
  <2>2. UNCHANGED <<msRes, msOpen, msClosed, msLate>> BY <1>6 DEF MsSet, MsEnsure, MsErase
  <2> QED BY <2>1, <2>2, <1>1 DEF MsInv
<1> QED BY <1>3, <1>4, <1>5, <1>6 DEF MsNext

\* A file is closed once and announced as it is, and a value in the context stays
\* where it was put (HttpResponse, RequestContext).
THEOREM MessagesKept == MsSpec => [](FilesOwned /\ ContextKept)
<1>1. MsInit => MsInv BY FilesStart, ContextStarts DEF MsInv
<1>2. MsInv /\ [MsNext]_msVars => MsInv' BY MsStep
<1>3. MsInv => FilesOwned /\ ContextKept BY FilesHold, ContextHolds DEF MsInv
<1> QED BY <1>1, <1>2, <1>3, PTL DEF MsSpec

----
\* What the operator sees: which hooks of a request are left says what has
\* been reported of it.

ObStates == {"open", "sending", "answered", "dropped"}
ObRecords == [sent_id : Nat, traceparent : Nat, upgrade : BOOLEAN, took : Nat, state : ObStates]

ObRequests == [n : Nat, sent_id : Nat, traceparent : Nat, upgrade : BOOLEAN, request_id : Nat, trace_id : Nat, span_id : Nat]

\* The request the middleware makes of what came.
RequestOf(n, s) ==
  [n |-> n, sent_id |-> s.sent_id, traceparent |-> s.traceparent, upgrade |-> s.upgrade,
   request_id |-> IF s.sent_id # 0 THEN s.sent_id ELSE ObRandom(n),
   trace_id |-> IF s.traceparent # 0 THEN s.traceparent ELSE ObRandom(n), span_id |-> ObRandom(n)]

LEMMA RequestIs ==
  ASSUME NEW n, NEW s
  PROVE  LET r == [n |-> n, sent_id |-> s.sent_id, traceparent |-> s.traceparent, upgrade |-> s.upgrade,
                   request_id |-> 0, trace_id |-> 0, span_id |-> 0]
         IN tracing(request_id(r)) = RequestOf(n, s)
<1> DEFINE r == [n |-> n, sent_id |-> s.sent_id, traceparent |-> s.traceparent, upgrade |-> s.upgrade,
                 request_id |-> 0, trace_id |-> 0, span_id |-> 0]
           q == [n |-> n, sent_id |-> s.sent_id, traceparent |-> s.traceparent, upgrade |-> s.upgrade,
                 request_id |-> IF s.sent_id # 0 THEN s.sent_id ELSE ObRandom(n), trace_id |-> 0, span_id |-> 0]
<1>1. request_id(r) = q BY DEF request_id
<1>2. tracing(q) = [q EXCEPT !.trace_id = IF s.traceparent # 0 THEN s.traceparent ELSE ObRandom(n), !.span_id = ObRandom(n)]
  <2>1. q.traceparent = s.traceparent /\ q.trace_id = 0 /\ q.n = n OBVIOUS
  <2> HIDE DEF q
  <2>2. (IF (IF q.traceparent # 0 THEN q.traceparent ELSE q.trace_id) = 0 THEN ObRandom(q.n) ELSE IF q.traceparent # 0 THEN q.traceparent ELSE q.trace_id)
        = IF s.traceparent # 0 THEN s.traceparent ELSE ObRandom(n) BY <2>1
  <2> QED BY <2>1, <2>2 DEF tracing
<1>3. tracing(q) = RequestOf(n, s) BY <1>2 DEF RequestOf
<1> QED BY <1>1, <1>3

\* The hooks a request begins with, and what can be left of them.
AllHooks(r) == IF r.upgrade THEN <<SpanHook(r), LineHook(r)>> ELSE <<SpanHook(r), TrackHook(r), LineHook(r)>>
HooksLeft(r) == {AllHooks(r), <<TrackHook(r), LineHook(r)>>, <<LineHook(r)>>, << >>}

\* Of a sequence of hooks, whether one is of a kind.
Has(hooks, kind) == \E k \in DOMAIN hooks : hooks[k].kind = kind

LEMMA TuplesJoin ==
  ASSUME NEW a, NEW b, NEW c
  PROVE  <<a>> \o << >> = <<a>> /\ <<a>> \o <<b>> = <<a, b>> /\ <<a, b>> \o <<c>> = <<a, b, c>>
<1> DEFINE S == {a, b, c}
<1>1. <<a>> \in Seq(S) /\ <<a, b>> \in Seq(S) /\ b \in S /\ c \in S OBVIOUS
<1>2. <<a>> \o << >> = <<a>> BY <1>1, ConcatEmptySeq
<1>3. <<a>> \o <<b>> = Append(<<a>>, b) /\ <<a, b>> \o <<c>> = Append(<<a, b>>, c) BY <1>1, AppendIsConcat
<1>4. Append(<<a>>, b) = <<a, b>> /\ Append(<<a, b>>, c) = <<a, b, c>>
  <2>1. Append(<<a>>, b) \in Seq(S) /\ <<a, b>> \in Seq(S) /\ Append(<<a, b>>, c) \in Seq(S) /\ <<a, b, c>> \in Seq(S)
    BY <1>1
  <2>2. Len(Append(<<a>>, b)) = 2 /\ Append(<<a>>, b)[1] = a /\ Append(<<a>>, b)[2] = b BY <1>1, AppendProperties
  <2>3. Len(Append(<<a, b>>, c)) = 3 /\ Append(<<a, b>>, c)[1] = a /\ Append(<<a, b>>, c)[2] = b /\ Append(<<a, b>>, c)[3] = c
    BY <1>1, AppendProperties
  <2>4. Append(<<a>>, b) = <<a, b>>
    <3> DEFINE x == Append(<<a>>, b)
               y == <<a, b>>
    <3>1. x \in Seq(S) /\ y \in Seq(S) /\ Len(x) = 2 /\ Len(y) = 2 /\ x[1] = y[1] /\ x[2] = y[2] BY <2>1, <2>2
    <3> HIDE DEF x, y, S
    <3>2. \A i \in 1 .. Len(x) : x[i] = y[i] BY <3>1
    <3>3. x = y BY <3>1, <3>2, SeqEqual
    <3> QED BY <3>3 DEF x, y
  <2>5. Append(<<a, b>>, c) = <<a, b, c>>
    <3> DEFINE x == Append(<<a, b>>, c)
               y == <<a, b, c>>
    <3>1. x \in Seq(S) /\ y \in Seq(S) /\ Len(x) = 3 /\ Len(y) = 3 /\ x[1] = y[1] /\ x[2] = y[2] /\ x[3] = y[3]
      BY <2>1, <2>3
    <3> HIDE DEF x, y, S
    <3>2. \A i \in 1 .. Len(x) : x[i] = y[i] BY <3>1
    <3>3. x = y BY <3>1, <3>2, SeqEqual
    <3> QED BY <3>3 DEF x, y
  <2> QED BY <2>4, <2>5
<1> QED BY <1>2, <1>3, <1>4

LEMMA HooksAre ==
  ASSUME NEW r \in ObRequests
  PROVE  /\ <<SpanHook(r)>> \o track(r) \o <<LineHook(r)>> = AllHooks(r)
         /\ Has(AllHooks(r), "span") /\ Has(AllHooks(r), "line") /\ (Has(AllHooks(r), "track") <=> ~r.upgrade)
         /\ ~Has(<<TrackHook(r), LineHook(r)>>, "span") /\ Has(<<TrackHook(r), LineHook(r)>>, "track") /\ Has(<<TrackHook(r), LineHook(r)>>, "line")
         /\ ~Has(<<LineHook(r)>>, "span") /\ ~Has(<<LineHook(r)>>, "track") /\ Has(<<LineHook(r)>>, "line")
         /\ ~Has(<< >>, "span") /\ ~Has(<< >>, "track") /\ ~Has(<< >>, "line")
<1>0. r.upgrade \in BOOLEAN BY DEF ObRequests
<1>1. SpanHook(r).kind = "span" /\ TrackHook(r).kind = "track" /\ LineHook(r).kind = "line"
  BY DEF SpanHook, TrackHook, LineHook
<1>2. <<SpanHook(r)>> \o track(r) \o <<LineHook(r)>> = AllHooks(r)
  <2>1. CASE r.upgrade
    <3>1. track(r) = << >> /\ AllHooks(r) = <<SpanHook(r), LineHook(r)>> BY <2>1 DEF track, AllHooks
    <3>2. <<SpanHook(r)>> \o << >> = <<SpanHook(r)>> /\ <<SpanHook(r)>> \o <<LineHook(r)>> = <<SpanHook(r), LineHook(r)>>
      BY TuplesJoin
    <3> QED BY <3>1, <3>2
  <2>2. CASE ~r.upgrade
    <3>1. track(r) = <<TrackHook(r)>> /\ AllHooks(r) = <<SpanHook(r), TrackHook(r), LineHook(r)>>
      BY <2>2 DEF track, AllHooks
    <3>2. /\ <<SpanHook(r)>> \o <<TrackHook(r)>> = <<SpanHook(r), TrackHook(r)>>
          /\ <<SpanHook(r), TrackHook(r)>> \o <<LineHook(r)>> = <<SpanHook(r), TrackHook(r), LineHook(r)>>
      BY TuplesJoin
    <3> QED BY <3>1, <3>2
  <2> QED BY <2>1, <2>2, <1>0
<1>3. Has(AllHooks(r), "span") /\ Has(AllHooks(r), "line") /\ (Has(AllHooks(r), "track") <=> ~r.upgrade)
  <2>1. CASE r.upgrade
    <3>1. AllHooks(r) = <<SpanHook(r), LineHook(r)>> BY <2>1 DEF AllHooks
    <3> QED BY <3>1, <2>1, <1>1 DEF Has
  <2>2. CASE ~r.upgrade
    <3>1. AllHooks(r) = <<SpanHook(r), TrackHook(r), LineHook(r)>> BY <2>2 DEF AllHooks
    <3> QED BY <3>1, <2>2, <1>1 DEF Has
  <2> QED BY <2>1, <2>2
<1>4. ~Has(<<TrackHook(r), LineHook(r)>>, "span") /\ Has(<<TrackHook(r), LineHook(r)>>, "track") /\ Has(<<TrackHook(r), LineHook(r)>>, "line")
  BY <1>1 DEF Has
<1>5. ~Has(<<LineHook(r)>>, "span") /\ ~Has(<<LineHook(r)>>, "track") /\ Has(<<LineHook(r)>>, "line") BY <1>1 DEF Has
<1>6. ~Has(<< >>, "span") /\ ~Has(<< >>, "track") /\ ~Has(<< >>, "line") BY DEF Has
<1> QED BY <1>2, <1>3, <1>4, <1>5, <1>6

\* What a step of Connection::send leaves of the hooks.
LEMMA HookTaken ==
  ASSUME NEW r \in ObRequests, NEW hooks \in HooksLeft(r), hooks # << >>,
         r.upgrade => hooks # <<TrackHook(r), LineHook(r)>>
  PROVE  /\ Tail(hooks) \in HooksLeft(r) /\ (r.upgrade => Tail(hooks) # <<TrackHook(r), LineHook(r)>>)
         /\ Head(hooks) \in {SpanHook(r), TrackHook(r), LineHook(r)}
         /\ ~Has(Tail(hooks), Head(hooks).kind) /\ Has(hooks, Head(hooks).kind)
         /\ \A kind \in {"span", "track", "line"} : kind # Head(hooks).kind => (Has(Tail(hooks), kind) <=> Has(hooks, kind))
         /\ Head(hooks).kind = "track" => ~r.upgrade
<1>1. SpanHook(r).kind = "span" /\ TrackHook(r).kind = "track" /\ LineHook(r).kind = "line"
  BY DEF SpanHook, TrackHook, LineHook
<1>3. /\ Has(AllHooks(r), "span") /\ Has(AllHooks(r), "line") /\ (Has(AllHooks(r), "track") <=> ~r.upgrade)
      /\ ~Has(<<TrackHook(r), LineHook(r)>>, "span") /\ Has(<<TrackHook(r), LineHook(r)>>, "track") /\ Has(<<TrackHook(r), LineHook(r)>>, "line")
      /\ ~Has(<<LineHook(r)>>, "span") /\ ~Has(<<LineHook(r)>>, "track") /\ Has(<<LineHook(r)>>, "line")
      /\ ~Has(<< >>, "span") /\ ~Has(<< >>, "track") /\ ~Has(<< >>, "line")
  <2>1. Has(AllHooks(r), "span") /\ Has(AllHooks(r), "line") /\ (Has(AllHooks(r), "track") <=> ~r.upgrade) BY HooksAre
  <2>2. ~Has(<<TrackHook(r), LineHook(r)>>, "span") /\ Has(<<TrackHook(r), LineHook(r)>>, "track") /\ Has(<<TrackHook(r), LineHook(r)>>, "line")
    BY HooksAre
  <2>3. ~Has(<<LineHook(r)>>, "span") /\ ~Has(<<LineHook(r)>>, "track") /\ Has(<<LineHook(r)>>, "line") BY HooksAre
  <2>4. ~Has(<< >>, "span") /\ ~Has(<< >>, "track") /\ ~Has(<< >>, "line") BY HooksAre
  <2> QED BY <2>1, <2>2, <2>3, <2>4
<1> DEFINE S == SpanHook(r)
           T == TrackHook(r)
           L == LineHook(r)
           Goal(hh) == /\ Tail(hh) \in HooksLeft(r) /\ (r.upgrade => Tail(hh) # <<T, L>>)
                       /\ Head(hh) \in {S, T, L}
                       /\ ~Has(Tail(hh), Head(hh).kind) /\ Has(hh, Head(hh).kind)
                       /\ \A kind \in {"span", "track", "line"} : kind # Head(hh).kind => (Has(Tail(hh), kind) <=> Has(hh, kind))
                       /\ Head(hh).kind = "track" => ~r.upgrade
<1>2. << >> \in HooksLeft(r) /\ <<L>> \in HooksLeft(r) /\ <<T, L>> \in HooksLeft(r) /\ << >> # <<T, L>> /\ <<L>> # <<T, L>>
  BY DEF HooksLeft
<1>4. ASSUME hooks = <<L>> PROVE Goal(hooks)
  <2>1. Head(hooks) = L /\ Tail(hooks) = << >> BY <1>4
  <2> QED BY <1>1, <1>2, <1>3, <1>4, <2>1
<1>5. ASSUME hooks = <<T, L>> PROVE Goal(hooks)
  <2>1. Head(hooks) = T /\ Tail(hooks) = <<L>> BY <1>5
  <2> QED BY <1>1, <1>2, <1>3, <1>5, <2>1
<1>6. ASSUME hooks = AllHooks(r), r.upgrade PROVE Goal(hooks)
  <2>1. Head(hooks) = S /\ Tail(hooks) = <<L>> BY <1>6 DEF AllHooks
  <2> QED BY <1>1, <1>2, <1>3, <1>6, <2>1
<1>7. ASSUME hooks = AllHooks(r), ~r.upgrade PROVE Goal(hooks)
  <2>1. Head(hooks) = S /\ Tail(hooks) = <<T, L>> BY <1>7 DEF AllHooks
  <2> QED BY <1>1, <1>2, <1>3, <1>7, <2>1
<1>8. hooks \in {AllHooks(r), <<T, L>>, <<L>>} BY DEF HooksLeft
<1>9. Goal(hooks)
  <2> HIDE DEF Goal
  <2> QED BY <1>4, <1>5, <1>6, <1>7, <1>8
<1> QED BY <1>9

\* A log that has one entry for each of some requests, and no other.
LogOf(log, entry, done) ==
  /\ \A k \in DOMAIN log : log[k].n \in done /\ log[k] = entry[log[k].n]
  /\ \A j, k \in DOMAIN log : log[j].n = log[k].n => j = k
  /\ \A n \in done : \E k \in DOMAIN log : log[k].n = n

LEMMA LogStays ==
  ASSUME NEW log, NEW entry, NEW done, LogOf(log, entry, done), NEW next, \A n \in done : next[n] = entry[n]
  PROVE  LogOf(log, next, done) BY DEF LogOf

LEMMA LogGrows ==
  ASSUME NEW S, NEW log \in Seq(S), NEW entry, NEW done, LogOf(log, entry, done),
         NEW n, n \notin done, entry[n].n = n, entry[n] \in S
  PROVE  LogOf(Append(log, entry[n]), entry, done \cup {n})
<1> DEFINE new == Append(log, entry[n])
           len == Len(log)
<1>1. len \in Nat /\ DOMAIN log = 1 .. len OBVIOUS
<1>2. /\ DOMAIN new = 1 .. len + 1 /\ new[len + 1] = entry[n] /\ \A k \in 1 .. len : new[k] = log[k]
  BY AppendProperties
<1> HIDE DEF new
<1>3. \A k \in DOMAIN new : new[k].n \in done \cup {n} /\ new[k] = entry[new[k].n]
  <2> TAKE k \in DOMAIN new
  <2>1. CASE k = len + 1 BY <2>1, <1>2
  <2>2. CASE k \in 1 .. len BY <2>2, <1>1, <1>2 DEF LogOf
  <2> QED BY <2>1, <2>2, <1>1, <1>2
<1>4. \A k \in 1 .. len : new[k].n # n BY <1>1, <1>2 DEF LogOf
<1>5. \A j, k \in DOMAIN new : new[j].n = new[k].n => j = k
  <2> TAKE j, k \in DOMAIN new
  <2>1. CASE j \in 1 .. len /\ k \in 1 .. len BY <2>1, <1>1, <1>2 DEF LogOf
  <2>2. CASE j = len + 1 \/ k = len + 1 BY <2>2, <1>1, <1>2, <1>4
  <2> QED BY <2>1, <2>2, <1>1, <1>2
<1>6. \A m \in done \cup {n} : \E k \in DOMAIN new : new[k].n = m
  <2> TAKE m \in done \cup {n}
  <2>1. CASE m = n BY <2>1, <1>1, <1>2
  <2>2. CASE m \in done
    <3>1. PICK k \in 1 .. len : log[k].n = m BY <2>2, <1>1 DEF LogOf
    <3> QED BY <3>1, <1>1, <1>2
  <2> QED BY <2>1, <2>2
<1>7. LogOf(new, entry, done \cup {n}) BY <1>3, <1>5, <1>6 DEF LogOf
<1> QED BY <1>7 DEF new

LEMMA LogHasOne ==
  ASSUME NEW log, NEW entry, NEW done, LogOf(log, entry, done), NEW n \in done
  PROVE  Cardinality({k \in DOMAIN log : log[k].n = n}) = 1
<1>1. PICK k \in DOMAIN log : log[k].n = n BY DEF LogOf
<1>2. {j \in DOMAIN log : log[j].n = n} = {k} BY <1>1 DEF LogOf
<1> QED BY <1>2, FS_Singleton

ObKinds == {"span", "track", "line"}

\* The requests whose hook of a kind has run.
Reported(kind) == {n \in DOMAIN obSeen : obSeen[n].state = "answered"
                     \/ (obSeen[n].state = "sending" /\ \A c \in ObConns : obReq[c].n = n => ~Has(obHooks[c], kind))}
AllTracked == {n \in DOMAIN obSeen : Tracked(n)}

SpanOf == [n \in DOMAIN obSeen |-> SpanHook(RequestOf(n, obSeen[n]))]
LineOf == [n \in DOMAIN obSeen |-> LineHook(RequestOf(n, obSeen[n]))]

\* The bucket a duration goes to, 0 if it is longer than every bound.
Fitting(v) == {i \in DOMAIN ObBounds : v <= ObBounds[i]}
BucketOf(v) == IF Fitting(v) = {} THEN 0 ELSE Min(Fitting(v))
InBucket(i) == {n \in Counted : BucketOf(obSeen[n].took) = i}

\* A connection and the request it serves.
Serving(c) ==
  IF obReq[c] = ObNone THEN obHooks[c] = << >> /\ ~obSending[c]
  ELSE LET n == obReq[c].n
       IN /\ n \in DOMAIN obSeen /\ obReq[c] = RequestOf(n, obSeen[n])
          /\ obHooks[c] \in HooksLeft(obReq[c]) /\ (obReq[c].upgrade => obHooks[c] # <<TrackHook(obReq[c]), LineHook(obReq[c])>>)
          /\ IF obSending[c] THEN obSeen[n].state = "sending" ELSE obSeen[n].state = "open" /\ obHooks[c] = AllHooks(obReq[c])

ServesInv ==
  /\ obSeen \in Seq(ObRecords) /\ obReq \in [ObConns -> ObRequests \cup {ObNone}]
  /\ obSending \in [ObConns -> BOOLEAN] /\ DOMAIN obHooks = ObConns
  /\ \A c \in ObConns : Serving(c)
  /\ \A c, d \in ObConns : c # d /\ obReq[c] # ObNone => obReq[c].n # obReq[d].n

AccountInv ==
  /\ obSpans \in Seq({SpanHook(r) : r \in ObRequests}) /\ LogOf(obSpans, SpanOf, Reported("span"))
  /\ obLines \in Seq({LineHook(r) : r \in ObRequests}) /\ LogOf(obLines, LineOf, Reported("line"))
  /\ obGauge = Cardinality(AllTracked \ Counted) /\ obCount = Cardinality(Counted)
  /\ obBuckets \in [DOMAIN ObBounds -> Nat] /\ \A i \in DOMAIN ObBounds : obBuckets[i] = Cardinality(InBucket(i))

ReportsInv == ServesInv /\ AccountInv

LEMMA CountedIs ==
  Counted = AllTracked \cap Reported("track") BY DEF Counted, AllTracked, Reported, Has

LEMMA SeenFinite ==
  ASSUME obSeen \in Seq(ObRecords)
  PROVE  /\ IsFiniteSet(AllTracked) /\ IsFiniteSet(Counted) /\ Counted \subseteq AllTracked /\ AllTracked \subseteq DOMAIN obSeen
         /\ IsFiniteSet(AllTracked \ Counted) /\ \A i : IsFiniteSet(InBucket(i))
<1>1. IsFiniteSet(DOMAIN obSeen)
  <2>1. Len(obSeen) \in Nat /\ DOMAIN obSeen = 1 .. Len(obSeen) OBVIOUS
  <2> QED BY <2>1, FS_Interval
<1>2. AllTracked \subseteq DOMAIN obSeen /\ Counted \subseteq AllTracked BY DEF AllTracked, Counted
<1>3. IsFiniteSet(AllTracked) /\ IsFiniteSet(Counted) BY <1>1, <1>2, FS_Subset
<1>4. IsFiniteSet(AllTracked \ Counted) BY <1>3, FS_Subset
<1>5. \A i : InBucket(i) \subseteq Counted BY DEF InBucket
<1>6. \A i : IsFiniteSet(InBucket(i)) BY <1>3, <1>5, FS_Subset
<1> QED BY <1>2, <1>3, <1>4, <1>6

LEMMA RequestTyped ==
  ASSUME NEW n \in Nat, NEW s \in ObRecords
  PROVE  RequestOf(n, s) \in ObRequests /\ RequestOf(n, s).n = n /\ RequestOf(n, s).upgrade = s.upgrade
<1>1. s.sent_id \in Nat /\ s.traceparent \in Nat /\ s.upgrade \in BOOLEAN /\ ObRandom(n) \in Nat
  BY DEF ObRecords, ObRandom
<1> QED BY <1>1 DEF RequestOf, ObRequests

LEMMA NoRequest ==
  /\ ObNone.n = 0
  /\ \A r \in ObRequests : r # ObNone
<1>1. \A r \in ObRequests : "upgrade" \in DOMAIN r BY DEF ObRequests
<1>2. "upgrade" \notin DOMAIN ObNone BY DEF ObNone
<1> QED BY <1>1, <1>2 DEF ObNone

\* What a connection's step does not concern stays reported, or not reported.
LEMMA ReportedElse ==
  ASSUME ServesInv, NEW c \in ObConns, NEW m \in Nat, m # 0, obReq[c].n \in {0, m}, obReq'[c].n \in {0, m},
         \A d \in ObConns : d # c => obReq'[d] = obReq[d] /\ obHooks'[d] = obHooks[d],
         DOMAIN obSeen \subseteq DOMAIN obSeen', DOMAIN obSeen' \subseteq DOMAIN obSeen \cup {m},
         \A n \in DOMAIN obSeen : n # m => obSeen'[n] = obSeen[n]
  PROVE  \A kind \in ObKinds : \A n : n # m => (n \in Reported(kind)' <=> n \in Reported(kind))
<1> TAKE kind \in ObKinds
<1> TAKE n
<1> HAVE n # m
<1>1. CASE n \in DOMAIN obSeen
  <2>1. n # 0 /\ n \in DOMAIN obSeen' /\ obSeen'[n] = obSeen[n] BY <1>1 DEF ServesInv
  <2>2. (\A d \in ObConns : obReq'[d].n = n => ~Has(obHooks'[d], kind)) <=> (\A d \in ObConns : obReq[d].n = n => ~Has(obHooks[d], kind))
    BY <2>1
  <2> QED BY <1>1, <2>1, <2>2 DEF Reported
<1>2. CASE n \notin DOMAIN obSeen BY <1>2 DEF Reported
<1> QED BY <1>1, <1>2

\* Of the request a connection serves, hooks that are left are not reported.
LEMMA ReportedOwn ==
  ASSUME ServesInv, NEW c \in ObConns, obReq[c] # ObNone, NEW kind \in ObKinds
  PROVE  obReq[c].n \in Reported(kind) <=> obSending[c] /\ ~Has(obHooks[c], kind)
<1> DEFINE n == obReq[c].n
<1>1. n \in DOMAIN obSeen /\ obSeen[n].state = (IF obSending[c] THEN "sending" ELSE "open") /\ obSending[c] \in BOOLEAN
  BY DEF ServesInv, Serving
<1>2. \A d \in ObConns : obReq[d].n = n => d = c BY DEF ServesInv
<1> HIDE DEF n
<1> QED BY <1>1, <1>2 DEF Reported, n

LEMMA ServingElse ==
  ASSUME ServesInv, NEW c \in ObConns, NEW m \in Nat, m # 0,
         m \notin DOMAIN obSeen \/ (obReq[c] # ObNone /\ obReq[c].n = m),
         \A d \in ObConns : d # c => obReq'[d] = obReq[d] /\ obHooks'[d] = obHooks[d] /\ obSending'[d] = obSending[d],
         DOMAIN obSeen \subseteq DOMAIN obSeen', \A n \in DOMAIN obSeen : n # m => obSeen'[n] = obSeen[n],
         obSeen' \in Seq(ObRecords), obReq' \in [ObConns -> ObRequests \cup {ObNone}],
         obSending' \in [ObConns -> BOOLEAN], DOMAIN obHooks' = ObConns,
         Serving(c)', obReq'[c] # ObNone => obReq'[c].n = m
  PROVE  ServesInv'
<1>1. \A d \in ObConns : d # c => obReq[d].n # m
  <2> TAKE d \in ObConns
  <2>1. CASE obReq[d] = ObNone BY <2>1, NoRequest
  <2>2. CASE obReq[d] # ObNone
    <3>1. obReq[d].n \in DOMAIN obSeen BY <2>2 DEF ServesInv, Serving
    <3> QED BY <2>2, <3>1 DEF ServesInv
  <2> QED BY <2>1, <2>2
<1>2. ASSUME NEW d \in ObConns PROVE Serving(d)'
  <2>1. CASE d = c BY <2>1
  <2>2. CASE d # c
    <3>1. Serving(d) /\ obReq'[d] = obReq[d] /\ obHooks'[d] = obHooks[d] /\ obSending'[d] = obSending[d] /\ obReq[d].n # m
      BY <2>2, <1>1 DEF ServesInv
    <3>2. obReq[d] # ObNone => obReq[d].n \in DOMAIN obSeen /\ obReq[d].n \in DOMAIN obSeen' /\ obSeen'[obReq[d].n] = obSeen[obReq[d].n]
      BY <3>1 DEF Serving
    <3> QED BY <3>1, <3>2 DEF Serving
  <2> QED BY <2>1, <2>2
<1>3. \A d, e \in ObConns : d # e /\ obReq'[d] # ObNone => obReq'[d].n # obReq'[e].n
  <2> TAKE d, e \in ObConns
  <2> SUFFICES ASSUME d # e, obReq'[d] # ObNone PROVE obReq'[d].n # obReq'[e].n OBVIOUS
  <2>1. CASE d = c BY <2>1, <1>1
  <2>2. CASE e = c
    <3>1. obReq[d] # ObNone /\ obReq'[d] = obReq[d] /\ obReq[d].n # m /\ obReq[d].n \in DOMAIN obSeen
      BY <2>2, <1>1 DEF ServesInv, Serving
    <3>2. obReq[d].n # 0 BY <3>1 DEF ServesInv
    <3> QED BY <2>2, <3>1, <3>2, NoRequest
  <2>3. CASE d # c /\ e # c BY <2>3 DEF ServesInv
  <2> QED BY <2>1, <2>2, <2>3
<1> QED BY <1>2, <1>3 DEF ServesInv

\* A step that reports nothing.
LEMMA AccountKept ==
  ASSUME AccountInv, ServesInv, Counted' = Counted, Reported("span")' = Reported("span"), Reported("line")' = Reported("line"),
         DOMAIN obSeen \subseteq DOMAIN obSeen',
         \A n \in DOMAIN obSeen : RequestOf(n, obSeen'[n]) = RequestOf(n, obSeen[n]),
         \A n \in Counted : obSeen'[n].took = obSeen[n].took,
         UNCHANGED <<obSpans, obLines, obBuckets, obCount>>, obGauge' = Cardinality((AllTracked \ Counted)')
  PROVE  AccountInv'
<1>1. Reported("span") \subseteq DOMAIN obSeen /\ Reported("line") \subseteq DOMAIN obSeen /\ Counted \subseteq DOMAIN obSeen
  BY DEF Reported, Counted
<1>2. \A n \in DOMAIN obSeen : SpanOf'[n] = SpanOf[n] /\ LineOf'[n] = LineOf[n] BY DEF SpanOf, LineOf
<1>3. LogOf(obSpans, SpanOf', Reported("span")) /\ LogOf(obLines, LineOf', Reported("line"))
  <2>1. \A n \in Reported("span") : SpanOf'[n] = SpanOf[n] BY <1>1, <1>2
  <2>2. \A n \in Reported("line") : LineOf'[n] = LineOf[n] BY <1>1, <1>2
  <2>3. LogOf(obSpans, SpanOf, Reported("span")) /\ LogOf(obLines, LineOf, Reported("line")) BY DEF AccountInv
  <2>4. LogOf(obSpans, SpanOf', Reported("span")) BY <2>1, <2>3, LogStays
  <2>5. LogOf(obLines, LineOf', Reported("line")) BY <2>2, <2>3, LogStays
  <2> QED BY <2>4, <2>5
<1>4. LogOf(obSpans, SpanOf, Reported("span"))' /\ LogOf(obLines, LineOf, Reported("line"))'
  <2>1. obSpans' = obSpans /\ obLines' = obLines OBVIOUS
  <2> QED BY <1>3, <2>1 DEF LogOf
<1>5. \A i : InBucket(i)' = InBucket(i) BY DEF InBucket, BucketOf, Fitting
<1>6. \A i \in DOMAIN ObBounds : Cardinality(InBucket(i))' = Cardinality(InBucket(i)) BY <1>5
<1> QED BY <1>4, <1>6 DEF AccountInv

LEMMA AllReported ==
  ASSUME NEW A, NEW B, NEW m, \A n : n # m => (n \in A <=> n \in B), m \in A <=> m \in B
  PROVE  A = B OBVIOUS

LEMMA RequestArrives ==
  ASSUME ReportsInv, NEW c \in ObConns, ObArrive(c)
  PROVE  ReportsInv'
<1> DEFINE m == Len(obSeen) + 1
<1>1. PICK id \in ObIds, tp \in ObIds, up \in BOOLEAN :
       LET r == [n |-> Len(obSeen) + 1, sent_id |-> id, traceparent |-> tp, upgrade |-> up, request_id |-> 0, trace_id |-> 0, span_id |-> 0]
       IN /\ process_request(c, r)
          /\ obGauge' = IF up THEN obGauge ELSE obGauge + 1
          /\ obSeen' = Append(obSeen, [sent_id |-> id, traceparent |-> tp, upgrade |-> up, took |-> 0, state |-> "open"])
  BY DEF ObArrive
<1> DEFINE s == [sent_id |-> id, traceparent |-> tp, upgrade |-> up, took |-> 0, state |-> "open"]
           req == RequestOf(m, s)
<1>2. /\ obSeen \in Seq(ObRecords) /\ DOMAIN obSeen = 1 .. Len(obSeen) /\ Len(obSeen) \in Nat /\ m \in Nat /\ m # 0
      /\ obReq \in [ObConns -> ObRequests \cup {ObNone}] /\ DOMAIN obHooks = ObConns /\ obSending \in [ObConns -> BOOLEAN]
  BY DEF ReportsInv, ServesInv
<1>3. s \in ObRecords /\ s.upgrade = up /\ s.state = "open" BY DEF ObRecords, ObStates, ObIds
<1>4. req \in ObRequests /\ req.n = m /\ req.upgrade = up
  <2> HIDE DEF s, m
  <2> QED BY <1>2, <1>3, RequestTyped
<1>5. obReq[c] = ObNone /\ obSending[c] = FALSE /\ obSending' = obSending /\ UNCHANGED <<obBuckets, obCount, obLines, obSpans>>
  BY DEF ObArrive, ReportsInv, ServesInv, Serving
<1>6. obReq' = [obReq EXCEPT ![c] = req] /\ obHooks' = [obHooks EXCEPT ![c] = AllHooks(req)]
  <2> DEFINE r == [n |-> m, sent_id |-> s.sent_id, traceparent |-> s.traceparent, upgrade |-> s.upgrade, request_id |-> 0, trace_id |-> 0, span_id |-> 0]
  <2>1. process_request(c, r) BY <1>1
  <2>2. tracing(request_id(r)) = req
    <3> HIDE DEF s, m
    <3> QED BY RequestIs
  <2> HIDE DEF r, req
  <2>3. obReq' = [obReq EXCEPT ![c] = req] /\ obHooks' = [obHooks EXCEPT ![c] = <<SpanHook(req)>> \o track(req) \o <<LineHook(req)>>]
    BY <2>1, <2>2 DEF process_request
  <2> QED BY <2>3, <1>4, HooksAre
<1>7. obSeen' = Append(obSeen, s) /\ obGauge' = IF up THEN obGauge ELSE obGauge + 1 BY <1>1
<1> HIDE DEF s
<1>8. /\ obSeen' \in Seq(ObRecords) /\ DOMAIN obSeen' = 1 .. m /\ obSeen'[m] = s
      /\ \A n \in DOMAIN obSeen : obSeen'[n] = obSeen[n] BY <1>2, <1>3, <1>7, AppendProperties
<1> HIDE DEF req
<1>9. /\ obReq' \in [ObConns -> ObRequests \cup {ObNone}] /\ obReq'[c] = req /\ obHooks'[c] = AllHooks(req) /\ DOMAIN obHooks' = ObConns
      /\ \A d \in ObConns : d # c => obReq'[d] = obReq[d] /\ obHooks'[d] = obHooks[d] /\ obSending'[d] = obSending[d]
      /\ obSending' \in [ObConns -> BOOLEAN] /\ obSending'[c] = FALSE BY <1>2, <1>4, <1>5, <1>6
<1>10. Serving(c)'
  <2>1. req # ObNone BY <1>4, NoRequest
  <2>2. req.upgrade => AllHooks(req) # <<TrackHook(req), LineHook(req)>> BY <1>4, HooksAre
  <2>3. req.n \in DOMAIN obSeen' /\ req = RequestOf(req.n, obSeen'[req.n]) /\ obSeen'[req.n].state = "open"
    BY <1>2, <1>3, <1>4, <1>8 DEF req
  <2>4. AllHooks(req) \in HooksLeft(req) BY DEF HooksLeft
  <2> QED BY <2>1, <2>2, <2>3, <2>4, <1>9 DEF Serving
<1>11. ServesInv'
  <2>1. m \notin DOMAIN obSeen /\ DOMAIN obSeen \subseteq DOMAIN obSeen' BY <1>2, <1>8
  <2>2. ServesInv BY DEF ReportsInv
  <2> HIDE DEF m
  <2> QED BY <1>2, <1>4, <1>8, <1>9, <1>10, <2>1, <2>2, ServingElse
<1>12. \A kind \in ObKinds : Reported(kind)' = Reported(kind)
  <2> TAKE kind \in ObKinds
  <2>1. m \notin Reported(kind) /\ m \notin Reported(kind)' BY <1>2, <1>3, <1>8 DEF Reported
  <2>2. \A n : n # m => (n \in Reported(kind)' <=> n \in Reported(kind))
    <3>1. ServesInv /\ obReq[c].n \in {0, m} /\ obReq'[c].n \in {0, m} BY <1>4, <1>5, <1>9, NoRequest DEF ReportsInv
    <3>2. DOMAIN obSeen \subseteq DOMAIN obSeen' /\ DOMAIN obSeen' \subseteq DOMAIN obSeen \cup {m} BY <1>2, <1>8
    <3>3. \A n \in DOMAIN obSeen : n # m => obSeen'[n] = obSeen[n] BY <1>8
    <3>4. \A d \in ObConns : d # c => obReq'[d] = obReq[d] /\ obHooks'[d] = obHooks[d] BY <1>9
    <3>5. m # 0 /\ m \in Nat BY <1>2
    <3> HIDE DEF m
    <3> QED BY <3>1, <3>2, <3>3, <3>4, <3>5, ReportedElse
  <2> QED BY <2>1, <2>2
<1>13. AllTracked' = IF up THEN AllTracked ELSE AllTracked \cup {m} BY <1>2, <1>3, <1>8 DEF AllTracked, Tracked
<1>14. Counted' = Counted
  <2>1. Reported("track")' = Reported("track") /\ Reported("track") \subseteq DOMAIN obSeen
    BY <1>12 DEF ObKinds, Reported
  <2>2. Counted' = (AllTracked \cap Reported("track"))' BY CountedIs DEF Counted, AllTracked, Reported, Has
  <2> QED BY <2>1, <2>2, <1>2, <1>13, CountedIs
<1>15. obGauge' = Cardinality((AllTracked \ Counted)')
  <2>1. m \notin AllTracked /\ m \notin Counted BY <1>2 DEF AllTracked, Counted
  <2>2. (AllTracked \ Counted)' = IF up THEN AllTracked \ Counted ELSE (AllTracked \ Counted) \cup {m}
    BY <2>1, <1>13, <1>14
  <2>3. IsFiniteSet(AllTracked \ Counted) /\ obGauge = Cardinality(AllTracked \ Counted)
    BY <1>2, SeenFinite DEF ReportsInv, AccountInv
  <2>4. Cardinality((AllTracked \ Counted) \cup {m}) = Cardinality(AllTracked \ Counted) + 1
    BY <2>1, <2>3, FS_AddElement
  <2> QED BY <2>2, <2>3, <2>4, <1>7
<1>16. AccountInv'
  <2>1. AccountInv /\ ServesInv /\ DOMAIN obSeen \subseteq DOMAIN obSeen' /\ Counted \subseteq DOMAIN obSeen
    BY <1>2, <1>8 DEF ReportsInv, Counted
  <2>2. (\A n \in DOMAIN obSeen : RequestOf(n, obSeen'[n]) = RequestOf(n, obSeen[n])) /\ \A n \in Counted : obSeen'[n].took = obSeen[n].took
    BY <2>1, <1>8
  <2>3. Reported("span")' = Reported("span") /\ Reported("line")' = Reported("line") BY <1>12 DEF ObKinds
  <2> QED BY <2>1, <2>2, <2>3, <1>5, <1>14, <1>15, AccountKept
<1> QED BY <1>11, <1>16 DEF ReportsInv

\* A step of a connection that only moves its request on.
LEMMA QuietStep ==
  ASSUME ReportsInv, NEW c \in ObConns, obReq[c] # ObNone, NEW m, m = obReq[c].n, NEW x \in ObRecords,
         x.sent_id = obSeen[m].sent_id, x.traceparent = obSeen[m].traceparent, x.upgrade = obSeen[m].upgrade,
         obSeen' = [obSeen EXCEPT ![m] = x],
         \A d \in ObConns : d # c => obReq'[d] = obReq[d] /\ obHooks'[d] = obHooks[d] /\ obSending'[d] = obSending[d],
         obReq' \in [ObConns -> ObRequests \cup {ObNone}], obSending' \in [ObConns -> BOOLEAN], DOMAIN obHooks' = ObConns,
         Serving(c)', obReq'[c] \in {obReq[c], ObNone},
         \A kind \in ObKinds : kind # "track" \/ ~x.upgrade => (m \in Reported(kind)' <=> m \in Reported(kind)),
         m \in Counted => x.took = obSeen[m].took,
         UNCHANGED <<obSpans, obLines, obBuckets, obCount, obGauge>>
  PROVE  ReportsInv'
<1>1. /\ obSeen \in Seq(ObRecords) /\ DOMAIN obSeen = 1 .. Len(obSeen) /\ Len(obSeen) \in Nat /\ m \in DOMAIN obSeen /\ m \in Nat /\ m # 0
      /\ ServesInv /\ AccountInv BY DEF ReportsInv, ServesInv, Serving
<1>2. /\ obSeen' \in Seq(ObRecords) /\ DOMAIN obSeen' = DOMAIN obSeen /\ obSeen'[m] = x
      /\ \A n \in DOMAIN obSeen : n # m => obSeen'[n] = obSeen[n] BY <1>1
<1>3. obReq'[c].n \in {0, m} /\ (obReq'[c] # ObNone => obReq'[c].n = m) BY NoRequest
<1>4. ServesInv' BY <1>1, <1>2, <1>3, ServingElse
<1>5. \A kind \in ObKinds : \A n : n # m => (n \in Reported(kind)' <=> n \in Reported(kind))
  <2>1. DOMAIN obSeen \subseteq DOMAIN obSeen' /\ DOMAIN obSeen' \subseteq DOMAIN obSeen \cup {m} BY <1>2
  <2>2. obReq[c].n \in {0, m} /\ obReq'[c].n \in {0, m} BY <1>3
  <2>3. \A d \in ObConns : d # c => obReq'[d] = obReq[d] /\ obHooks'[d] = obHooks[d] OBVIOUS
  <2>4. ServesInv /\ m \in Nat /\ m # 0 /\ \A n \in DOMAIN obSeen : n # m => obSeen'[n] = obSeen[n] BY <1>1, <1>2
  <2> QED BY <2>1, <2>2, <2>3, <2>4, ReportedElse
<1>6. \A kind \in ObKinds : kind # "track" \/ ~x.upgrade => Reported(kind)' = Reported(kind)
  <2> TAKE kind \in ObKinds
  <2> HAVE kind # "track" \/ ~x.upgrade
  <2>1. \A n : n # m => (n \in Reported(kind)' <=> n \in Reported(kind)) BY <1>5
  <2>2. m \in Reported(kind)' <=> m \in Reported(kind) OBVIOUS
  <2> QED BY <2>1, <2>2, AllReported
<1>7. AllTracked' = AllTracked /\ (m \in AllTracked <=> ~x.upgrade) BY <1>1, <1>2 DEF AllTracked, Tracked
<1>8. Counted' = Counted
  <2>1. Counted' = AllTracked' \cap Reported("track")' BY CountedIs DEF Counted, AllTracked, Reported, Has
  <2>2. CASE x.upgrade BY <2>1, <2>2, <1>5, <1>7, CountedIs DEF ObKinds
  <2>3. CASE ~x.upgrade BY <2>1, <2>3, <1>6, <1>7, CountedIs DEF ObKinds
  <2> QED BY <2>2, <2>3
<1>9. obGauge' = Cardinality((AllTracked \ Counted)') BY <1>1, <1>7, <1>8 DEF AccountInv
<1>10. AccountInv'
  <2>1. \A n \in DOMAIN obSeen : RequestOf(n, obSeen'[n]) = RequestOf(n, obSeen[n]) BY <1>1, <1>2 DEF RequestOf
  <2>2. \A n \in Counted : obSeen'[n].took = obSeen[n].took BY <1>2 DEF Counted
  <2>3. Reported("span")' = Reported("span") /\ Reported("line")' = Reported("line") BY <1>6 DEF ObKinds
  <2>4. DOMAIN obSeen \subseteq DOMAIN obSeen' BY <1>2
  <2> QED BY <2>1, <2>2, <2>3, <2>4, <1>1, <1>8, <1>9, AccountKept
<1> QED BY <1>4, <1>10 DEF ReportsInv

\* Of a request that is being sent or has been answered, by what is left of it.
LEMMA ReportedNext ==
  ASSUME ServesInv, NEW c \in ObConns, obReq[c] # ObNone, NEW m, m = obReq[c].n, NEW kind,
         \A d \in ObConns : d # c => obReq'[d] = obReq[d], m \in DOMAIN obSeen'
  PROVE  /\ obSeen'[m].state = "answered" => m \in Reported(kind)'
         /\ obSeen'[m].state = "dropped" => m \notin Reported(kind)'
         /\ obSeen'[m].state = "sending" /\ obReq'[c] = obReq[c] => (m \in Reported(kind)' <=> ~Has(obHooks'[c], kind))
<1>1. \A d \in ObConns : d # c => obReq'[d].n # m BY DEF ServesInv
<1>2. obReq'[c] = obReq[c] => ((\A d \in ObConns : obReq'[d].n = m => ~Has(obHooks'[d], kind)) <=> ~Has(obHooks'[c], kind))
  BY <1>1
<1> QED BY <1>2 DEF Reported

LEMMA RequestDropped ==
  ASSUME ReportsInv, NEW c \in ObConns, ObDrop(c)
  PROVE  ReportsInv'
<1> DEFINE m == obReq[c].n
           x == [obSeen[m] EXCEPT !.state = "dropped"]
<1>1. /\ obReq[c] # ObNone /\ ~obSending[c] /\ obSending' = obSending /\ UNCHANGED <<obSpans, obLines, obBuckets, obCount, obGauge>>
      /\ obReq' = [obReq EXCEPT ![c] = ObNone] /\ obHooks' = [obHooks EXCEPT ![c] = << >>] /\ obSeen' = [obSeen EXCEPT ![m] = x]
  BY DEF ObDrop
<1>2. /\ ServesInv /\ obSeen \in Seq(ObRecords) /\ m \in DOMAIN obSeen /\ DOMAIN obHooks = ObConns
      /\ obReq \in [ObConns -> ObRequests \cup {ObNone}] /\ obSending \in [ObConns -> BOOLEAN]
  BY <1>1 DEF ReportsInv, ServesInv, Serving
<1>3. /\ x \in ObRecords /\ x.state = "dropped" /\ x.took = obSeen[m].took
      /\ x.sent_id = obSeen[m].sent_id /\ x.traceparent = obSeen[m].traceparent /\ x.upgrade = obSeen[m].upgrade
  <2>1. obSeen[m] \in ObRecords BY <1>2
  <2> QED BY <2>1 DEF ObRecords, ObStates
<1> HIDE DEF x, m
<1>4. /\ obReq' \in [ObConns -> ObRequests \cup {ObNone}] /\ obReq'[c] = ObNone /\ obHooks'[c] = << >> /\ DOMAIN obHooks' = ObConns
      /\ obSending'[c] = FALSE /\ obSending' \in [ObConns -> BOOLEAN]
      /\ \A d \in ObConns : d # c => obReq'[d] = obReq[d] /\ obHooks'[d] = obHooks[d] /\ obSending'[d] = obSending[d]
  BY <1>1, <1>2
<1>5. Serving(c)' BY <1>4 DEF Serving
<1>6. m \in DOMAIN obSeen' /\ obSeen'[m].state = "dropped" BY <1>1, <1>2, <1>3
<1>7. \A kind \in ObKinds : m \notin Reported(kind)' /\ m \notin Reported(kind)
  BY <1>1, <1>2, <1>4, <1>6, ReportedOwn, ReportedNext DEF m
<1>8. m = obReq[c].n BY DEF m
<1> QED BY <1>1, <1>3, <1>4, <1>5, <1>7, <1>8, QuietStep

LEMMA ResponseBegins ==
  ASSUME ReportsInv, NEW c \in ObConns, ObSend(c)
  PROVE  ReportsInv'
<1> DEFINE m == obReq[c].n
<1>1. PICK d \in ObDurations : obSeen' = [obSeen EXCEPT ![m] = [obSeen[m] EXCEPT !.took = d, !.state = "sending"]]
  BY DEF ObSend
<1> DEFINE x == [obSeen[m] EXCEPT !.took = d, !.state = "sending"]
<1>2. /\ obReq[c] # ObNone /\ ~obSending[c] /\ obSending' = [obSending EXCEPT ![c] = TRUE]
      /\ UNCHANGED <<obReq, obHooks, obSpans, obLines, obBuckets, obCount, obGauge>> BY DEF ObSend
<1>3. /\ ServesInv /\ obSeen \in Seq(ObRecords) /\ m \in DOMAIN obSeen /\ DOMAIN obHooks = ObConns /\ Serving(c)
      /\ obReq \in [ObConns -> ObRequests \cup {ObNone}] /\ obSending \in [ObConns -> BOOLEAN] /\ obReq[c] \in ObRequests
  BY <1>2 DEF ReportsInv, ServesInv, Serving
<1>4. d \in Nat BY ObAssumption DEF ObAssumption
<1>5. obSeen[m] \in ObRecords /\ obSeen' = [obSeen EXCEPT ![m] = x] BY <1>1, <1>3
<1>6. /\ x \in ObRecords /\ x.state = "sending" /\ x.took = d
      /\ x.sent_id = obSeen[m].sent_id /\ x.traceparent = obSeen[m].traceparent /\ x.upgrade = obSeen[m].upgrade
  BY <1>4, <1>5 DEF ObRecords, ObStates
<1> HIDE DEF x, m
<1>7. /\ obReq'[c] = obReq[c] /\ obSending'[c] = TRUE /\ obSending' \in [ObConns -> BOOLEAN]
      /\ \A e \in ObConns : e # c => obReq'[e] = obReq[e] /\ obHooks'[e] = obHooks[e] /\ obSending'[e] = obSending[e]
  BY <1>2, <1>3
<1>8. m \in DOMAIN obSeen' /\ obSeen'[m] = x /\ m = obReq[c].n BY <1>3, <1>5 DEF m
<1>9. obReq[c] = RequestOf(m, obSeen[m]) /\ obHooks[c] = AllHooks(obReq[c]) /\ obReq[c].upgrade = x.upgrade
  <2>1. obReq[c] = RequestOf(m, obSeen[m]) /\ obHooks[c] = AllHooks(obReq[c]) BY <1>2, <1>3, <1>8 DEF Serving
  <2>2. m \in Nat BY <1>3
  <2> QED BY <2>1, <2>2, <1>5, <1>6, RequestTyped
<1>10. Serving(c)'
  <2>1. RequestOf(m, obSeen'[m]) = RequestOf(m, obSeen[m]) BY <1>6, <1>8 DEF RequestOf
  <2>2. obReq'[c] # ObNone /\ obReq'[c] = RequestOf(m, obSeen'[m]) /\ obHooks'[c] = obHooks[c] /\ obSeen'[m].state = "sending"
    BY <2>1, <1>2, <1>6, <1>8, <1>9
  <2>3. obHooks[c] \in HooksLeft(obReq[c]) /\ (obReq[c].upgrade => obHooks[c] # <<TrackHook(obReq[c]), LineHook(obReq[c])>>)
    BY <1>2, <1>3 DEF Serving
  <2> QED BY <2>2, <2>3, <1>7, <1>8 DEF Serving
<1>11. \A kind \in ObKinds : kind # "track" \/ ~x.upgrade => m \notin Reported(kind)' /\ m \notin Reported(kind)
  <2> TAKE kind \in ObKinds
  <2> HAVE kind # "track" \/ ~x.upgrade
  <2>1. Has(obHooks[c], kind) BY <1>3, <1>9, HooksAre DEF ObKinds
  <2>2. m \notin Reported(kind) BY <1>2, <1>3, <1>8, ReportedOwn
  <2>3. obHooks'[c] = obHooks[c] /\ obSeen'[m].state = "sending" BY <1>2, <1>6, <1>8
  <2>4. m \notin Reported(kind)' BY <2>1, <2>3, <1>2, <1>3, <1>7, <1>8, ReportedNext
  <2> QED BY <2>2, <2>4
<1>12. m \notin Counted
  <2>1. m \in Counted => ~x.upgrade /\ m \in Reported("track") BY <1>6, CountedIs DEF AllTracked, Tracked
  <2> QED BY <2>1, <1>11 DEF ObKinds
<1>13. DOMAIN obHooks' = ObConns /\ obReq' \in [ObConns -> ObRequests \cup {ObNone}] BY <1>2, <1>3
<1> QED BY <1>2, <1>5, <1>6, <1>7, <1>8, <1>10, <1>11, <1>12, <1>13, QuietStep

LEMMA ResponseEnds ==
  ASSUME ReportsInv, NEW c \in ObConns, ObSent(c)
  PROVE  ReportsInv'
<1> DEFINE m == obReq[c].n
           x == [obSeen[m] EXCEPT !.state = "answered"]
<1>1. /\ obSending[c] /\ obHooks[c] = << >> /\ obHooks' = obHooks /\ UNCHANGED <<obSpans, obLines, obBuckets, obCount, obGauge>>
      /\ obReq' = [obReq EXCEPT ![c] = ObNone] /\ obSending' = [obSending EXCEPT ![c] = FALSE] /\ obSeen' = [obSeen EXCEPT ![m] = x]
  BY DEF ObSent
<1>2. /\ ServesInv /\ obSeen \in Seq(ObRecords) /\ obReq[c] # ObNone /\ m \in DOMAIN obSeen /\ DOMAIN obHooks = ObConns
      /\ obReq \in [ObConns -> ObRequests \cup {ObNone}] /\ obSending \in [ObConns -> BOOLEAN]
  BY <1>1 DEF ReportsInv, ServesInv, Serving
<1>3. /\ x \in ObRecords /\ x.state = "answered" /\ x.took = obSeen[m].took
      /\ x.sent_id = obSeen[m].sent_id /\ x.traceparent = obSeen[m].traceparent /\ x.upgrade = obSeen[m].upgrade
  <2>1. obSeen[m] \in ObRecords BY <1>2
  <2> QED BY <2>1 DEF ObRecords, ObStates
<1> HIDE DEF x, m
<1>4. /\ obReq' \in [ObConns -> ObRequests \cup {ObNone}] /\ obReq'[c] = ObNone /\ obHooks'[c] = << >> /\ DOMAIN obHooks' = ObConns
      /\ obSending'[c] = FALSE /\ obSending' \in [ObConns -> BOOLEAN]
      /\ \A d \in ObConns : d # c => obReq'[d] = obReq[d] /\ obHooks'[d] = obHooks[d] /\ obSending'[d] = obSending[d]
  BY <1>1, <1>2
<1>5. Serving(c)' BY <1>4 DEF Serving
<1>6. m \in DOMAIN obSeen' /\ obSeen'[m].state = "answered" /\ m = obReq[c].n BY <1>1, <1>2, <1>3 DEF m
<1>7. \A kind \in ObKinds : m \in Reported(kind)' /\ m \in Reported(kind)
  <2> TAKE kind \in ObKinds
  <2>1. ~Has(obHooks[c], kind) BY <1>1 DEF Has
  <2> QED BY <2>1, <1>1, <1>2, <1>4, <1>6, ReportedOwn, ReportedNext
<1> QED BY <1>1, <1>2, <1>3, <1>4, <1>5, <1>6, <1>7, QuietStep

LEMMA BucketIs ==
  ASSUME NEW v \in Nat
  PROVE  /\ BucketOf(v) \in {0} \cup DOMAIN ObBounds /\ (BucketOf(v) = 0 <=> Fitting(v) = {})
         /\ BucketOf(v) # 0 => BucketOf(v) \in Fitting(v) /\ \A i \in Fitting(v) : BucketOf(v) <= i
<1>1. Fitting(v) \in SUBSET Nat /\ 0 \notin DOMAIN ObBounds /\ Fitting(v) \subseteq DOMAIN ObBounds
  BY ObAssumption DEF Fitting, ObAssumption
<1>2. CASE Fitting(v) = {} BY <1>2 DEF BucketOf
<1>3. CASE Fitting(v) # {}
  <2>1. BucketOf(v) = Min(Fitting(v)) BY <1>3 DEF BucketOf
  <2>2. Min(Fitting(v)) \in Fitting(v) /\ \A i \in Fitting(v) : Min(Fitting(v)) <= i BY <1>1, <1>3, MinOf
  <2> QED BY <2>1, <2>2, <1>1, <1>3
<1> QED BY <1>2, <1>3

\* observe_histogram() adds one to the bucket the duration goes to.
LEMMA Observed ==
  ASSUME NEW v \in Nat, observe_histogram(v), obBuckets \in [DOMAIN ObBounds -> Nat]
  PROVE  /\ obCount' = obCount + 1 /\ obBuckets' \in [DOMAIN ObBounds -> Nat]
         /\ \A i \in DOMAIN ObBounds : obBuckets'[i] = IF i = BucketOf(v) THEN obBuckets[i] + 1 ELSE obBuckets[i]
<1>1. obCount' = obCount + 1 /\ obBuckets' = IF Fitting(v) = {} THEN obBuckets ELSE [obBuckets EXCEPT ![Min(Fitting(v))] = @ + 1]
  BY DEF observe_histogram, Fitting
<1>2. 0 \notin DOMAIN ObBounds BY ObAssumption DEF ObAssumption
<1>3. CASE Fitting(v) = {}
  <2>1. obBuckets' = obBuckets /\ BucketOf(v) = 0 BY <1>1, <1>3 DEF BucketOf
  <2> QED BY <2>1, <1>1, <1>2
<1>4. CASE Fitting(v) # {}
  <2>1. obBuckets' = [obBuckets EXCEPT ![BucketOf(v)] = @ + 1] BY <1>1, <1>4 DEF BucketOf
  <2>2. BucketOf(v) \in DOMAIN ObBounds BY <1>4, BucketIs
  <2> QED BY <2>1, <2>2, <1>1
<1> QED BY <1>3, <1>4

LEMMA HookRuns ==
  ASSUME ReportsInv, NEW c \in ObConns, ObHook(c)
  PROVE  ReportsInv'
<1> DEFINE m == obReq[c].n
           r == obReq[c]
           h == Head(obHooks[c])
<1>1. /\ obSending[c] /\ obHooks[c] # << >> /\ obHooks' = [obHooks EXCEPT ![c] = Tail(obHooks[c])]
      /\ obReq' = obReq /\ obSending' = obSending /\ obSeen' = obSeen BY DEF ObHook
<1>2. /\ ServesInv /\ AccountInv /\ obSeen \in Seq(ObRecords) /\ DOMAIN obHooks = ObConns /\ Serving(c)
      /\ obReq \in [ObConns -> ObRequests \cup {ObNone}] /\ obSending \in [ObConns -> BOOLEAN]
  BY DEF ReportsInv, ServesInv
<1>3. /\ r # ObNone /\ r \in ObRequests /\ m \in DOMAIN obSeen /\ r = RequestOf(m, obSeen[m])
      /\ obHooks[c] \in HooksLeft(r) /\ (r.upgrade => obHooks[c] # <<TrackHook(r), LineHook(r)>>) /\ obSeen[m].state = "sending"
  BY <1>1, <1>2 DEF Serving
<1>4. m \in Nat /\ m # 0 /\ obSeen[m] \in ObRecords BY <1>2, <1>3
<1>5. obSeen[m].upgrade = r.upgrade /\ obSeen[m].took \in Nat
  <2>1. obSeen[m].upgrade = r.upgrade BY <1>3, <1>4, RequestTyped
  <2> QED BY <2>1, <1>4 DEF ObRecords
<1>6. /\ Tail(obHooks[c]) \in HooksLeft(r) /\ (r.upgrade => Tail(obHooks[c]) # <<TrackHook(r), LineHook(r)>>)
      /\ h \in {SpanHook(r), TrackHook(r), LineHook(r)} /\ (h.kind = "track" => ~r.upgrade)
      /\ ~Has(Tail(obHooks[c]), h.kind) /\ Has(obHooks[c], h.kind)
      /\ \A kind \in ObKinds : kind # h.kind => (Has(Tail(obHooks[c]), kind) <=> Has(obHooks[c], kind))
  <2> DEFINE hooks == obHooks[c]
  <2>1. hooks \in HooksLeft(r) /\ hooks # << >> /\ r \in ObRequests /\ (r.upgrade => hooks # <<TrackHook(r), LineHook(r)>>)
    BY <1>1, <1>3
  <2> HIDE DEF hooks, r
  <2>2. /\ Tail(hooks) \in HooksLeft(r) /\ (r.upgrade => Tail(hooks) # <<TrackHook(r), LineHook(r)>>)
        /\ Head(hooks) \in {SpanHook(r), TrackHook(r), LineHook(r)} /\ (Head(hooks).kind = "track" => ~r.upgrade)
        /\ ~Has(Tail(hooks), Head(hooks).kind) /\ Has(hooks, Head(hooks).kind)
        /\ \A kind \in {"span", "track", "line"} : kind # Head(hooks).kind => (Has(Tail(hooks), kind) <=> Has(hooks, kind))
    BY <2>1, HookTaken
  <2> QED BY <2>2 DEF hooks, ObKinds
<1>7. SpanHook(r).kind = "span" /\ TrackHook(r).kind = "track" /\ LineHook(r).kind = "line"
  BY DEF SpanHook, TrackHook, LineHook
<1>8. obHooks'[c] = Tail(obHooks[c]) /\ DOMAIN obHooks' = ObConns /\ \A d \in ObConns : d # c => obHooks'[d] = obHooks[d]
  BY <1>1, <1>2
<1>9. ServesInv'
  <2>1. Serving(c)' BY <1>1, <1>3, <1>6, <1>8 DEF Serving
  <2>2. m = obReq[c].n /\ obReq'[c].n = m BY <1>1
  <2> HIDE DEF m, r, h
  <2> QED BY <2>1, <2>2, <1>1, <1>2, <1>3, <1>4, <1>8, ServingElse DEF r
<1>10. h.kind \in ObKinds BY <1>6, <1>7 DEF ObKinds
<1>11. \A kind \in ObKinds : Reported(kind)' = (IF kind = h.kind THEN Reported(kind) \cup {m} ELSE Reported(kind)) /\ (kind = h.kind => m \notin Reported(kind))
  <2> TAKE kind \in ObKinds
  <2>1. \A n : n # m => (n \in Reported(kind)' <=> n \in Reported(kind))
    <3>1. obReq[c].n \in {0, m} /\ obReq'[c].n \in {0, m} BY <1>1
    <3>2. DOMAIN obSeen \subseteq DOMAIN obSeen' /\ DOMAIN obSeen' \subseteq DOMAIN obSeen \cup {m} /\ \A n \in DOMAIN obSeen : n # m => obSeen'[n] = obSeen[n]
      BY <1>1
    <3>3. \A d \in ObConns : d # c => obReq'[d] = obReq[d] /\ obHooks'[d] = obHooks[d] BY <1>1, <1>8
    <3> HIDE DEF m
    <3> QED BY <3>1, <3>2, <3>3, <1>2, <1>4, ReportedElse
  <2>2. m \in Reported(kind) <=> ~Has(obHooks[c], kind) BY <1>1, <1>2, <1>3, ReportedOwn
  <2>3. m \in Reported(kind)' <=> ~Has(Tail(obHooks[c]), kind) BY <1>1, <1>2, <1>3, <1>8, ReportedNext
  <2>4. CASE kind = h.kind
    <3>1. m \in Reported(kind)' /\ m \notin Reported(kind) BY <2>2, <2>3, <2>4, <1>6
    <3> QED BY <3>1, <2>1, <2>4
  <2>5. CASE kind # h.kind
    <3>1. m \in Reported(kind)' <=> m \in Reported(kind) BY <2>2, <2>3, <2>5, <1>6
    <3>2. Reported(kind)' = Reported(kind) BY <3>1, <2>1, AllReported
    <3> QED BY <3>2, <2>5
  <2> QED BY <2>4, <2>5
<1>12. AllTracked' = AllTracked /\ SpanOf' = SpanOf /\ LineOf' = LineOf /\ (m \in AllTracked <=> ~r.upgrade)
  BY <1>1, <1>3, <1>5 DEF AllTracked, Tracked, SpanOf, LineOf
<1>13. Counted' = AllTracked \cap Reported("track")' BY <1>12, CountedIs DEF Counted, AllTracked, Reported, Has
<1>14. SpanOf[m] = SpanHook(r) /\ LineOf[m] = LineHook(r) /\ SpanHook(r).n = m /\ LineHook(r).n = m
  BY <1>3 DEF SpanOf, LineOf, SpanHook, LineHook
<1>15. CASE h.kind = "track"
  <2>1. obGauge' = obGauge - 1 /\ observe_histogram(obSeen[m].took) /\ UNCHANGED <<obLines, obSpans>>
    BY <1>15 DEF ObHook
  <2>2. Counted' = Counted \cup {m} /\ m \notin Counted /\ m \in AllTracked /\ Reported("span")' = Reported("span") /\ Reported("line")' = Reported("line")
    BY <1>6, <1>11, <1>12, <1>13, <1>15, CountedIs DEF ObKinds
  <2>3. IsFiniteSet(AllTracked \ Counted) /\ IsFiniteSet(Counted) /\ \A i : IsFiniteSet(InBucket(i))
    BY <1>2, SeenFinite
  <2>4. obGauge' = Cardinality((AllTracked \ Counted)')
    <3>1. (AllTracked \ Counted)' = (AllTracked \ Counted) \ {m} /\ m \in AllTracked \ Counted BY <2>2, <1>12
    <3>2. Cardinality((AllTracked \ Counted) \ {m}) = Cardinality(AllTracked \ Counted) - 1
      BY <3>1, <2>3, FS_RemoveElement
    <3>3. obGauge = Cardinality(AllTracked \ Counted) BY <1>2 DEF AccountInv
    <3> QED BY <3>1, <3>2, <3>3, <2>1
  <2>5. obCount' = Cardinality(Counted') /\ obBuckets' \in [DOMAIN ObBounds -> Nat]
        /\ \A i \in DOMAIN ObBounds : obBuckets'[i] = IF i = BucketOf(obSeen[m].took) THEN obBuckets[i] + 1 ELSE obBuckets[i]
    <3>1. obBuckets \in [DOMAIN ObBounds -> Nat] /\ obCount = Cardinality(Counted) BY <1>2 DEF AccountInv
    <3>2. Cardinality(Counted') = Cardinality(Counted) + 1 BY <2>2, <2>3, FS_AddElement
    <3> QED BY <3>1, <3>2, <2>1, <1>5, Observed
  <2>6. ASSUME NEW i \in DOMAIN ObBounds PROVE obBuckets'[i] = Cardinality(InBucket(i)')
    <3>1. obBuckets[i] = Cardinality(InBucket(i)) BY <1>2 DEF AccountInv
    <3>2. InBucket(i)' = IF i = BucketOf(obSeen[m].took) THEN InBucket(i) \cup {m} ELSE InBucket(i)
      BY <2>2, <1>1 DEF InBucket, BucketOf, Fitting
    <3>3. m \notin InBucket(i) BY <2>2 DEF InBucket
    <3>4. Cardinality(InBucket(i) \cup {m}) = Cardinality(InBucket(i)) + 1 BY <3>3, <2>3, FS_AddElement
    <3> QED BY <3>1, <3>2, <3>4, <2>5
  <2>7. LogOf(obSpans, SpanOf, Reported("span"))' /\ LogOf(obLines, LineOf, Reported("line"))'
    <3>1. LogOf(obSpans', SpanOf', Reported("span")') /\ LogOf(obLines', LineOf', Reported("line")')
      BY <2>1, <2>2, <1>2, <1>12 DEF AccountInv
    <3> QED BY <3>1 DEF LogOf
  <2>8. AccountInv' BY <2>1, <2>4, <2>5, <2>6, <2>7, <1>2 DEF AccountInv
  <2> QED BY <2>8, <1>9 DEF ReportsInv
<1>16. ASSUME h.kind # "track", UNCHANGED <<obGauge, obCount, obBuckets>>
       PROVE  /\ obGauge' = Cardinality((AllTracked \ Counted)') /\ obCount' = Cardinality(Counted')
              /\ obBuckets' \in [DOMAIN ObBounds -> Nat] /\ \A i \in DOMAIN ObBounds : obBuckets'[i] = Cardinality(InBucket(i)')
  <2>1. Counted' = Counted BY <1>11, <1>12, <1>13, <1>16, CountedIs DEF ObKinds
  <2>2. \A i : InBucket(i)' = InBucket(i) BY <2>1, <1>1 DEF InBucket, BucketOf, Fitting
  <2> QED BY <2>1, <2>2, <1>2, <1>12, <1>16 DEF AccountInv
<1>17. CASE h.kind = "span"
  <2>1. obSpans' = Append(obSpans, h) /\ UNCHANGED <<obGauge, obCount, obBuckets, obLines>> BY <1>17 DEF ObHook
  <2>2. h = SpanOf[m] BY <1>6, <1>7, <1>14, <1>17
  <2>3. Reported("span")' = Reported("span") \cup {m} /\ m \notin Reported("span") /\ Reported("line")' = Reported("line")
    BY <1>11, <1>17 DEF ObKinds
  <2>4. obSpans \in Seq({SpanHook(q) : q \in ObRequests}) /\ LogOf(obSpans, SpanOf, Reported("span")) /\ SpanOf[m] \in {SpanHook(q) : q \in ObRequests} /\ SpanOf[m].n = m
    BY <1>2, <1>3, <1>14 DEF AccountInv
  <2>5. LogOf(Append(obSpans, SpanOf[m]), SpanOf, Reported("span") \cup {m}) /\ Append(obSpans, SpanOf[m]) \in Seq({SpanHook(q) : q \in ObRequests})
    <3> HIDE DEF m
    <3>1. LogOf(Append(obSpans, SpanOf[m]), SpanOf, Reported("span") \cup {m}) BY <2>3, <2>4, LogGrows
    <3> QED BY <3>1, <2>4, AppendProperties
  <2>6. LogOf(obSpans, SpanOf, Reported("span"))' /\ LogOf(obLines, LineOf, Reported("line"))'
    <3>1. LogOf(obSpans', SpanOf', Reported("span")') /\ LogOf(obLines', LineOf', Reported("line")')
      BY <2>1, <2>2, <2>3, <2>5, <1>2, <1>12 DEF AccountInv
    <3> QED BY <3>1 DEF LogOf
  <2>7. obSpans' \in Seq({SpanHook(q) : q \in ObRequests}) /\ obLines' \in Seq({LineHook(q) : q \in ObRequests})
    BY <2>1, <2>2, <2>5, <1>2 DEF AccountInv
  <2>8. AccountInv' BY <2>1, <2>6, <2>7, <1>16, <1>17 DEF AccountInv
  <2> QED BY <2>8, <1>9 DEF ReportsInv
<1>18. CASE h.kind = "line"
  <2>1. obLines' = Append(obLines, h) /\ UNCHANGED <<obGauge, obCount, obBuckets, obSpans>> BY <1>18 DEF ObHook
  <2>2. h = LineOf[m] BY <1>6, <1>7, <1>14, <1>18
  <2>3. Reported("line")' = Reported("line") \cup {m} /\ m \notin Reported("line") /\ Reported("span")' = Reported("span")
    BY <1>11, <1>18 DEF ObKinds
  <2>4. obLines \in Seq({LineHook(q) : q \in ObRequests}) /\ LogOf(obLines, LineOf, Reported("line")) /\ LineOf[m] \in {LineHook(q) : q \in ObRequests} /\ LineOf[m].n = m
    BY <1>2, <1>3, <1>14 DEF AccountInv
  <2>5. LogOf(Append(obLines, LineOf[m]), LineOf, Reported("line") \cup {m}) /\ Append(obLines, LineOf[m]) \in Seq({LineHook(q) : q \in ObRequests})
    <3> HIDE DEF m
    <3>1. LogOf(Append(obLines, LineOf[m]), LineOf, Reported("line") \cup {m}) BY <2>3, <2>4, LogGrows
    <3> QED BY <3>1, <2>4, AppendProperties
  <2>6. LogOf(obSpans, SpanOf, Reported("span"))' /\ LogOf(obLines, LineOf, Reported("line"))'
    <3>1. LogOf(obSpans', SpanOf', Reported("span")') /\ LogOf(obLines', LineOf', Reported("line")')
      BY <2>1, <2>2, <2>3, <2>5, <1>2, <1>12 DEF AccountInv
    <3> QED BY <3>1 DEF LogOf
  <2>7. obSpans' \in Seq({SpanHook(q) : q \in ObRequests}) /\ obLines' \in Seq({LineHook(q) : q \in ObRequests})
    BY <2>1, <2>2, <2>5, <1>2 DEF AccountInv
  <2>8. AccountInv' BY <2>1, <2>6, <2>7, <1>16, <1>18 DEF AccountInv
  <2> QED BY <2>8, <1>9 DEF ReportsInv
<1> QED BY <1>10, <1>15, <1>17, <1>18 DEF ObKinds

LEMMA BoundsGrow ==
  ASSUME NEW i \in DOMAIN ObBounds, NEW j \in DOMAIN ObBounds, i <= j
  PROVE  ObBounds[i] <= ObBounds[j]
<1> DEFINE B == ObBounds
           n == Len(B)
           Good == {0} \cup {k \in 1 .. n : i <= k => B[i] <= B[k]}
<1>1. n \in Nat /\ DOMAIN B = 1 .. n /\ (\A k \in 1 .. n : B[k] \in Nat) /\ \A k \in 2 .. n : B[k - 1] <= B[k]
  BY ObAssumption DEF ObAssumption
<1>2. ASSUME NEW k \in 1 .. n, k - 1 \in Good PROVE k \in Good
  <2>1. CASE i <= k - 1
    <3>1. B[i] <= B[k - 1] /\ B[k - 1] <= B[k] /\ B[i] \in Nat /\ B[k - 1] \in Nat /\ B[k] \in Nat BY <2>1, <1>1, <1>2
    <3> QED BY <3>1
  <2>2. CASE ~(i <= k - 1) BY <2>2, <1>1
  <2> QED BY <2>1, <2>2
<1>3. \A k \in 0 .. n : k \in Good
  <2>1. 0 \in Good OBVIOUS
  <2> HIDE DEF Good, n
  <2> QED BY <1>1, <1>2, <2>1, UpFromZero
<1> QED BY <1>1, <1>3

\* A scrape shows for a bound what took no longer.
LEMMA ExposeIs ==
  ASSUME obBuckets \in [DOMAIN ObBounds -> Nat], NEW i \in DOMAIN ObBounds, IsFiniteSet(Counted),
         \A k \in DOMAIN ObBounds : obBuckets[k] = Cardinality(InBucket(k)),
         \A k \in Counted : obSeen[k].took \in Nat
  PROVE  expose(i) = Cardinality({k \in Counted : obSeen[k].took <= ObBounds[i]})
<1> DEFINE n == Len(ObBounds)
           Body(f) == [j \in 0 .. n |-> IF j = 0 THEN 0 ELSE f[j - 1] + obBuckets[j]]
           shown == CHOOSE f : f = Body(f)
           step == [j \in 1 .. n |-> [x \in Nat |-> x + obBuckets[j]]]
           UpTo(j) == {k \in Counted : BucketOf(obSeen[k].took) \in 1 .. j}
<1>1. n \in Nat /\ DOMAIN ObBounds = 1 .. n /\ \A j \in 1 .. n : obBuckets[j] \in Nat BY ObAssumption DEF ObAssumption
<1>2. expose(i) = shown[i] BY DEF expose
<1>3. \A j \in 1 .. n : \A x \in Nat : step[j][x] = x + obBuckets[j] /\ step[j][x] \in Nat BY <1>1
<1>4. PICK f : Course(n, Nat, 0, step, f)
  <2>1. \A j \in 1 .. n : \A x \in Nat : step[j][x] \in Nat BY <1>3
  <2> HIDE DEF step, n
  <2> QED BY <2>1, <1>1, StepByStep
<1>5. f \in [0 .. n -> Nat] /\ f[0] = 0 /\ \A j \in 1 .. n : f[j] = f[j - 1] + obBuckets[j]
  <2>1. f \in [0 .. n -> Nat] /\ f[0] = 0 /\ \A j \in 1 .. n : f[j] = step[j][f[j - 1]] BY <1>4 DEF Course
  <2> HIDE DEF step, n
  <2>2. \A j \in 1 .. n : f[j - 1] \in Nat
    <3>1. n \in Nat BY <1>1
    <3>2. f \in [0 .. n -> Nat] BY <2>1
    <3> QED BY <3>1, <3>2
  <2> QED BY <2>1, <2>2, <1>3
<1>6. f = Body(f) BY <1>5
<1>7. shown = Body(shown)
  <2> HIDE DEF Body
  <2> QED BY <1>6
<1>8. shown[0] = 0 /\ \A j \in 1 .. n : shown[j] = shown[j - 1] + obBuckets[j]
  <2> HIDE DEF shown
  <2> QED BY <1>7, <1>1
<1> HIDE DEF shown
<1>9. UpTo(0) = {} /\ \A j : IsFiniteSet(UpTo(j)) /\ IsFiniteSet(InBucket(j))
  <2>1. \A j : UpTo(j) \subseteq Counted /\ InBucket(j) \subseteq Counted BY DEF InBucket
  <2>2. UpTo(0) = {} OBVIOUS
  <2> HIDE DEF UpTo
  <2> QED BY <2>1, <2>2, FS_Subset
<1>10. \A j \in 1 .. n : Cardinality(UpTo(j)) = Cardinality(UpTo(j - 1)) + obBuckets[j]
  <2> TAKE j \in 1 .. n
  <2>1. UpTo(j) = UpTo(j - 1) \cup InBucket(j) /\ UpTo(j - 1) \cap InBucket(j) = {} BY <1>1 DEF InBucket
  <2> HIDE DEF UpTo
  <2>2. Cardinality(UpTo(j)) = Cardinality(UpTo(j - 1)) + Cardinality(InBucket(j)) - Cardinality(UpTo(j - 1) \cap InBucket(j))
    BY <2>1, <1>9, FS_Union
  <2>3. Cardinality(UpTo(j - 1) \cap InBucket(j)) = 0 /\ Cardinality(UpTo(j - 1)) \in Nat /\ Cardinality(InBucket(j)) \in Nat
    BY <2>1, <1>9, FS_EmptySet, FS_CardinalityType
  <2>4. obBuckets[j] = Cardinality(InBucket(j)) BY <1>1
  <2> QED BY <2>2, <2>3, <2>4
<1> DEFINE Good == {j \in 0 .. n : shown[j] = Cardinality(UpTo(j))}
<1>11. \A j \in 0 .. n : j \in Good
  <2>1. 0 \in Good
    <3>1. Cardinality(UpTo(0)) = 0 BY <1>9, FS_EmptySet
    <3>2. 0 \in 0 .. n BY <1>1
    <3> HIDE DEF UpTo, n
    <3> QED BY <3>1, <3>2, <1>8
  <2>2. ASSUME NEW j \in 1 .. n, j - 1 \in Good PROVE j \in Good
    <3> HIDE DEF UpTo
    <3> QED BY <2>2, <1>8, <1>10
  <2> HIDE DEF Good, n
  <2> QED BY <2>1, <2>2, <1>1, UpFromZero
<1>12. UpTo(i) = {k \in Counted : obSeen[k].took <= ObBounds[i]}
  <2>1. ASSUME NEW v \in Nat PROVE BucketOf(v) \in 1 .. i <=> v <= ObBounds[i]
    <3>1. CASE v <= ObBounds[i]
      <4>1. i \in Fitting(v) BY <3>1 DEF Fitting
      <4>2. BucketOf(v) \in DOMAIN ObBounds /\ BucketOf(v) <= i BY <4>1, BucketIs
      <4> QED BY <4>2, <3>1, <1>1
    <3>2. CASE BucketOf(v) \in 1 .. i
      <4>1. BucketOf(v) \in Fitting(v) /\ BucketOf(v) <= i /\ BucketOf(v) \in DOMAIN ObBounds BY <3>2, <1>1, BucketIs
      <4>2. v <= ObBounds[BucketOf(v)] /\ ObBounds[BucketOf(v)] <= ObBounds[i] BY <4>1, BoundsGrow DEF Fitting
      <4>3. ObBounds[BucketOf(v)] \in Nat /\ ObBounds[i] \in Nat BY <4>1, ObAssumption DEF ObAssumption
      <4> HIDE DEF n
      <4> QED BY <4>2, <4>3, <3>2
    <3> QED BY <3>1, <3>2
  <2> QED BY <2>1
<1> QED BY <1>1, <1>2, <1>11, <1>12

LEMMA ReportsHold ==
  ASSUME ReportsInv
  PROVE  ReportsTrue
<1>1. obSeen \in Seq(ObRecords) /\ IsFiniteSet(Counted) /\ Counted \subseteq DOMAIN obSeen
  BY SeenFinite DEF ReportsInv, ServesInv
<1>2. \A n \in DOMAIN obSeen : n \in Nat /\ obSeen[n] \in ObRecords /\ obSeen[n].took \in Nat
  <2> TAKE n \in DOMAIN obSeen
  <2>1. n \in Nat /\ obSeen[n] \in ObRecords BY <1>1
  <2> QED BY <2>1 DEF ObRecords
<1>3. obGauge = Cardinality({n \in DOMAIN obSeen : Tracked(n)} \ Counted) /\ obCount = Cardinality(Counted)
  BY DEF ReportsInv, AccountInv, AllTracked
<1>4. \A i \in DOMAIN ObBounds : expose(i) = Cardinality({n \in Counted : obSeen[n].took <= ObBounds[i]})
  <2>1. obBuckets \in [DOMAIN ObBounds -> Nat] /\ \A k \in DOMAIN ObBounds : obBuckets[k] = Cardinality(InBucket(k))
    BY DEF ReportsInv, AccountInv
  <2>2. \A k \in Counted : obSeen[k].took \in Nat BY <1>1, <1>2
  <2> QED BY <2>1, <2>2, <1>1, ExposeIs
<1>5. LogOf(obSpans, SpanOf, Reported("span")) /\ LogOf(obLines, LineOf, Reported("line"))
  BY DEF ReportsInv, AccountInv
<1>6. \A n \in DOMAIN obSeen : /\ SpanOf[n].trace_id = IF obSeen[n].traceparent = 0 THEN ObRandom(n) ELSE obSeen[n].traceparent
                               /\ LineOf[n].trace_id = SpanOf[n].trace_id
                               /\ LineOf[n].request_id = IF obSeen[n].sent_id = 0 THEN ObRandom(n) ELSE obSeen[n].sent_id
  BY DEF SpanOf, LineOf, SpanHook, LineHook, RequestOf
<1>7. ASSUME NEW n \in {k \in DOMAIN obSeen : obSeen[k].state = "answered"}
      PROVE  /\ Cardinality({k \in DOMAIN obSpans : obSpans[k].n = n}) = 1 /\ Cardinality({k \in DOMAIN obLines : obLines[k].n = n}) = 1
             /\ \A k \in DOMAIN obLines : obLines[k].n = n =>
                  /\ obLines[k].request_id = (IF obSeen[n].sent_id = 0 THEN ObRandom(n) ELSE obSeen[n].sent_id)
                  /\ \E s \in DOMAIN obSpans : obSpans[s].n = n /\ obSpans[s].trace_id = obLines[k].trace_id
                        /\ obSpans[s].trace_id = (IF obSeen[n].traceparent = 0 THEN ObRandom(n) ELSE obSeen[n].traceparent)
  <2>1. n \in Reported("span") /\ n \in Reported("line") /\ n \in DOMAIN obSeen BY DEF Reported
  <2>2. Cardinality({k \in DOMAIN obSpans : obSpans[k].n = n}) = 1 /\ Cardinality({k \in DOMAIN obLines : obLines[k].n = n}) = 1
    BY <2>1, <1>5, LogHasOne
  <2>3. PICK s \in DOMAIN obSpans : obSpans[s].n = n BY <2>1, <1>5 DEF LogOf
  <2>4. obSpans[s] = SpanOf[n] BY <2>3, <1>5 DEF LogOf
  <2>5. ASSUME NEW k \in DOMAIN obLines, obLines[k].n = n PROVE obLines[k] = LineOf[n] BY <2>5, <1>5 DEF LogOf
  <2> QED BY <2>1, <2>2, <2>3, <2>4, <2>5, <1>6
<1>8. \A k \in DOMAIN obLines : obSeen[obLines[k].n].state \in {"sending", "answered"} BY <1>5 DEF LogOf, Reported
<1> QED BY <1>3, <1>4, <1>7, <1>8 DEF ReportsTrue

LEMMA ReportsStart ==
  ASSUME ObInit
  PROVE  ReportsInv
<1>1. /\ obReq = [c \in ObConns |-> ObNone] /\ obHooks = [c \in ObConns |-> << >>] /\ obSending = [c \in ObConns |-> FALSE]
      /\ obGauge = 0 /\ obBuckets = [i \in DOMAIN ObBounds |-> 0] /\ obCount = 0
      /\ obLines = << >> /\ obSpans = << >> /\ obSeen = << >> BY DEF ObInit
<1>2. ServesInv BY <1>1 DEF ServesInv, Serving
<1>3. AllTracked = {} /\ Counted = {} /\ Reported("span") = {} /\ Reported("line") = {} /\ AllTracked \ Counted = {} /\ \A i : InBucket(i) = {}
  BY <1>1 DEF AllTracked, Counted, Reported, InBucket
<1>4. LogOf(obSpans, SpanOf, Reported("span")) /\ LogOf(obLines, LineOf, Reported("line")) BY <1>1, <1>3 DEF LogOf
<1>5. Cardinality({}) = 0 BY FS_EmptySet
<1>6. AccountInv
  <2>1. obGauge = Cardinality(AllTracked \ Counted) /\ obCount = Cardinality(Counted) BY <1>1, <1>3, <1>5
  <2>2. \A i \in DOMAIN ObBounds : obBuckets[i] = Cardinality(InBucket(i)) BY <1>1, <1>3, <1>5
  <2>3. obBuckets \in [DOMAIN ObBounds -> Nat] BY <1>1
  <2>4. obSpans \in Seq({SpanHook(r) : r \in ObRequests}) /\ obLines \in Seq({LineHook(r) : r \in ObRequests}) BY <1>1
  <2> QED BY <2>1, <2>2, <2>3, <2>4, <1>4 DEF AccountInv
<1> QED BY <1>2, <1>6 DEF ReportsInv

LEMMA ReportsStep ==
  ASSUME ReportsInv, [ObNext]_obVars
  PROVE  ReportsInv'
<1>1. CASE UNCHANGED obVars
  <2>1. /\ obReq' = obReq /\ obHooks' = obHooks /\ obSending' = obSending /\ obGauge' = obGauge /\ obBuckets' = obBuckets
        /\ obCount' = obCount /\ obLines' = obLines /\ obSpans' = obSpans /\ obSeen' = obSeen BY <1>1 DEF obVars
  <2>2. ServesInv' BY <2>1 DEF ReportsInv, ServesInv, Serving
  <2>3. /\ Counted' = Counted /\ Reported("span")' = Reported("span") /\ Reported("line")' = Reported("line")
        /\ AllTracked' = AllTracked BY <2>1 DEF Counted, Reported, AllTracked, Tracked
  <2>4. obGauge' = Cardinality((AllTracked \ Counted)') BY <2>1, <2>3 DEF ReportsInv, AccountInv
  <2>5. AccountInv' BY <2>1, <2>3, <2>4, AccountKept DEF ReportsInv
  <2> QED BY <2>2, <2>5 DEF ReportsInv
<1>2. ASSUME NEW c \in ObConns, ObArrive(c) \/ ObDrop(c) \/ ObSend(c) \/ ObHook(c) \/ ObSent(c)
      PROVE  ReportsInv' BY <1>2, RequestArrives, RequestDropped, ResponseBegins, HookRuns, ResponseEnds
<1> QED BY <1>1, <1>2 DEF ObNext

\* What is reported of the requests is what happened to them: gauge, histogram,
\* spans and access lines at any moment, whatever hooks of whichever connections
\* have run (middleware/Observability.cpp, utils/PrometheusRegistry.cpp).
THEOREM ReportsStayTrue == ObSpec => []ReportsTrue
<1>1. ObInit => ReportsInv BY ReportsStart
<1>2. ReportsInv /\ [ObNext]_obVars => ReportsInv' BY ReportsStep
<1>3. ReportsInv => ReportsTrue BY ReportsHold
<1> QED BY <1>1, <1>2, <1>3, PTL DEF ObSpec

\* Responses own their files, contexts keep their values and reports are true,
\* however the three are used beside one another (HttpResponse, RequestContext,
\* Observability).
THEOREM MessagesAreSound == MsSpec /\ ObSpec => []MessagesSound
<1>1. MsSpec => [](FilesOwned /\ ContextKept) BY MessagesKept
<1>2. ObSpec => []ReportsTrue BY ReportsStayTrue
<1>3. (FilesOwned /\ ContextKept) /\ ReportsTrue => MessagesSound BY DEF MessagesSound
<1> QED BY <1>1, <1>2, <1>3, PTL

====
