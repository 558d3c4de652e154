---- MODULE ClientState ----
\* What the server remembers of its clients between requests: how much they
\* have asked for lately, and their sessions.
EXTENDS Integers, FiniteSets, Sequences

----
\* The token-bucket limiter in memory (RateLimiter.cpp) and the fixed-window
\* one in Redis (DistributedRateLimiter.cpp); lmKind says which one it is. One
\* tick is a second; tokens are counted in 1/window-ths, so that a second
\* refills max_requests of them. An age says how long ago something was, and
\* stops at the window, by when every bucket is full.

CONSTANTS LmClients, LmMaxRequests, LmWindow, LmMaxTracked

VARIABLES lmKind,       \* "memory" or "redis"
          buckets_,     \* clients tracked: tokens, and the age of that number
          last_sweep_,  \* its age
          lmCount,      \* Redis: the counter of each client, and the seconds it still lives
          lmTrue,       \* history: each client's tokens, had nothing been forgotten
          lmDropped,    \* history: clients dropped to make room, until they are full again
          lmGranted     \* history: requests each client was granted in the life of its counter

lmVars == <<lmKind, buckets_, last_sweep_, lmCount, lmTrue, lmDropped, lmGranted>>

ASSUME LmAssumption == LmMaxRequests \in Nat /\ LmWindow \in Nat \ {0} /\ LmMaxTracked \in Nat \ {0}

capacity == LmMaxRequests * LmWindow
One_ == LmWindow                           \* the tokens of one request
AtMost(a, b) == IF a < b THEN a ELSE b
Refilled(tokens, elapsed) == AtMost(capacity, tokens + elapsed * LmMaxRequests)
NoCounter == [n |-> 0, left |-> 0]

LmInit ==
  /\ lmKind \in {"memory", "redis"}
  /\ buckets_ = [k \in {} |-> 0] /\ last_sweep_ = 0
  /\ lmCount = [k \in LmClients |-> NoCounter]
  /\ lmTrue = [k \in LmClients |-> capacity]
  /\ lmDropped = {} /\ lmGranted = [k \in LmClients |-> 0]

Without(f, gone) == [k \in DOMAIN f \ gone |-> f[k]]

\* As if a bucket were forgotten once it allows a request.
evict_refilled_Early == {k \in DOMAIN buckets_ : buckets_[k].tokens + buckets_[k].age * LmMaxRequests >= One_}

\* evict_refilled(): a bucket that would be full by now says nothing.
evict_refilled == {k \in DOMAIN buckets_ : buckets_[k].tokens + buckets_[k].age * LmMaxRequests >= capacity}

\* operator() under mutex_: sweep, make room, take or open the bucket, grant.
Swept == last_sweep_ >= LmWindow \/ (Cardinality(DOMAIN buckets_) >= LmMaxTracked /\ last_sweep_ >= 1)

RoomFor(k, kept) ==
  IF k \in kept \/ Cardinality(kept) < LmMaxTracked THEN {kept}
  ELSE {s \in SUBSET kept : Cardinality(s) = LmMaxTracked - 1}

Retry_after(tokens) ==
  LET seconds == IF LmMaxRequests > 0 THEN (One_ - tokens + LmMaxRequests - 1) \div LmMaxRequests ELSE LmWindow
  IN IF seconds < 1 THEN 1 ELSE seconds

LmLimit(k, kept) ==
  LET tokens == IF k \in kept THEN Refilled(buckets_[k].tokens, buckets_[k].age) ELSE capacity
      left == IF tokens >= One_ THEN tokens - One_ ELSE tokens
  IN buckets_' = [c \in kept \cup {k} |-> IF c = k THEN [tokens |-> left, age |-> 0] ELSE buckets_[c]]

LmRequest(k) ==
  LET swept == IF Swept THEN evict_refilled ELSE {}
      kept0 == DOMAIN buckets_ \ swept
  IN /\ last_sweep_' = IF Swept THEN 0 ELSE last_sweep_
     /\ \E kept \in RoomFor(k, kept0) :
          /\ LmLimit(k, kept)
          /\ lmDropped' = lmDropped \cup (kept0 \ kept)
     /\ lmTrue' = [lmTrue EXCEPT ![k] = IF @ >= One_ THEN @ - One_ ELSE @]
     /\ UNCHANGED <<lmCount, lmGranted>>

\* The distributed limiter: one script counts and, on the first request, gives
\* the counter its life. Without an answer the request may have been counted.
incr_with_expiry(k) == IF lmCount[k].n = 0 THEN [n |-> 1, left |-> LmWindow] ELSE [n |-> lmCount[k].n + 1, left |-> lmCount[k].left]

RequestRedis(k) ==
  /\ lmCount[k].n <= LmMaxRequests
  /\ lmCount' = [lmCount EXCEPT ![k] = incr_with_expiry(k)]
  /\ lmGranted' = [lmGranted EXCEPT ![k] = IF incr_with_expiry(k).n <= LmMaxRequests THEN @ + 1 ELSE @]
  /\ UNCHANGED <<buckets_, last_sweep_, lmTrue, lmDropped>>

RedisUnavailable(k) ==
  /\ lmCount[k].n <= LmMaxRequests
  /\ lmCount' = [lmCount EXCEPT ![k] = incr_with_expiry(k)]
  /\ UNCHANGED <<buckets_, last_sweep_, lmTrue, lmDropped, lmGranted>>

Tokens(k) == IF k \in DOMAIN buckets_ THEN Refilled(buckets_[k].tokens, buckets_[k].age) ELSE capacity

Second ==
  /\ buckets_' = [k \in DOMAIN buckets_ |-> [tokens |-> buckets_[k].tokens, age |-> AtMost(LmWindow, buckets_[k].age + 1)]]
  /\ last_sweep_' = AtMost(LmWindow, last_sweep_ + 1)
  /\ lmCount' = [k \in LmClients |-> IF lmCount[k].left <= 1 THEN NoCounter ELSE [n |-> lmCount[k].n, left |-> lmCount[k].left - 1]]
  /\ lmGranted' = [k \in LmClients |-> IF lmCount[k].left <= 1 THEN 0 ELSE lmGranted[k]]
  /\ lmTrue' = [k \in LmClients |-> Refilled(lmTrue[k], 1)]
  /\ lmDropped' = {k \in lmDropped : AtMost(Refilled(lmTrue[k], 1), Refilled(Tokens(k), 1)) < capacity}

LmNext ==
  /\ UNCHANGED lmKind
  /\ \/ Second
     \/ lmKind = "memory" /\ \E k \in LmClients : LmRequest(k)
     \/ lmKind = "redis" /\ \E k \in LmClients : RequestRedis(k) \/ RedisUnavailable(k)

LmSpec == LmInit /\ [][LmNext]_lmVars

LmTypeOK == /\ DOMAIN buckets_ \subseteq LmClients /\ last_sweep_ \in 0..LmWindow
             /\ \A k \in DOMAIN buckets_ : buckets_[k].tokens \in 0..capacity /\ buckets_[k].age \in 0..LmWindow

\* The limiter with bounded memory treats every client as one that never
\* forgets would, unless the client was dropped to make room and has not been
\* full again since; it never tracks more clients than it may; whoever waits
\* the Retry-After it was told is let in; and the shared counter grants at
\* most max_requests in its life, which always ends, so nobody is locked out
\* (RateLimiter.cpp:32-45, 63; DistributedRateLimiter).
LimitersExact ==
  /\ \A k \in LmClients :
       /\ k \notin lmDropped => Tokens(k) = lmTrue[k]
       /\ LmMaxRequests > 0 /\ Tokens(k) < One_ => Refilled(Tokens(k), Retry_after(Tokens(k))) >= One_
       /\ lmGranted[k] <= LmMaxRequests /\ (lmCount[k].n > 0 => lmCount[k].left \in 1..LmWindow)
  /\ Cardinality(DOMAIN buckets_) <= LmMaxTracked

----
\* Sessions (SessionManager.cpp): requests of several clients, and several at
\* once of one client, over a store that holds a limited number of sessions. A
\* session's data is the set of the clients that wrote into it.

CONSTANTS SmClients, SmRequests, SmIds, SmMaxSessions, SmNone

VARIABLES smSave,     \* save_uninitialized
          smStore,    \* sessions_: data by id, in the order in which they will expire
          smReq,      \* the Session of every request, and where the request is
          smHeld,     \* the ids each client was ever given: its cookie may be out of date
          smUsed,     \* ids that have been generated
          smRetired   \* history: ids that a response ended, which no other request held

smVars == <<smSave, smStore, smReq, smHeld, smUsed, smRetired>>

ASSUME SmAssumption == SmNone \notin SmIds /\ SmMaxSessions \in Nat \ {0}

NoSession == [at |-> "idle", client |-> SmNone, id |-> SmNone, previous |-> SmNone, data |-> {},
              isNew |-> FALSE, dirty |-> FALSE, destroyed |-> FALSE]

SmInit ==
  /\ smSave \in BOOLEAN /\ smStore = << >>
  /\ smReq = [r \in SmRequests |-> NoSession]
  /\ smHeld = [c \in SmClients |-> {}]
  /\ smUsed = {} /\ smRetired = {}

Stored(store, id) == \E i \in DOMAIN store : store[i].id = id
PlaceOf(store, id) == CHOOSE i \in DOMAIN store : store[i].id = id
Drop(store, id) ==
  IF Stored(store, id) THEN [i \in 1..(Len(store) - 1) |-> IF i < PlaceOf(store, id) THEN store[i] ELSE store[i + 1]] ELSE store
DataOf(id) == smStore[PlaceOf(smStore, id)].data

\* MemorySessionStore::save, evict_locked: when it is full, a new session costs
\* the one closest to expiry.
Saved(store, id, data) ==
  LET room == IF ~Stored(store, id) /\ Len(store) >= SmMaxSessions THEN Tail(store) ELSE store
  IN Append(Drop(room, id), [id |-> id, data |-> data])

\* touch(): an existing session expires last from now on.
Touched(id) == Saved(smStore, id, DataOf(id))

generate_session_id == CHOOSE i \in SmIds \ smUsed : TRUE

\* As if the id of the client's cookie were adopted when the store has none.
Load_Adopt(r, c, cookie) ==
  LET fresh == IF cookie # SmNone THEN cookie ELSE generate_session_id
  IN /\ smReq[r].at = "idle"
     /\ IF Stored(smStore, cookie)
        THEN /\ smReq' = [smReq EXCEPT ![r] = [NoSession EXCEPT !.at = "handler", !.client = c, !.id = cookie, !.data = DataOf(cookie)]]
             /\ smStore' = Touched(cookie)
             /\ UNCHANGED smUsed
        ELSE /\ SmIds # smUsed
             /\ smReq' = [smReq EXCEPT ![r] = [NoSession EXCEPT !.at = "handler", !.client = c, !.id = fresh, !.isNew = TRUE]]
             /\ smStore' = IF smSave THEN Saved(smStore, fresh, {}) ELSE smStore
             /\ smUsed' = smUsed \cup {fresh}
     /\ UNCHANGED <<smSave, smHeld, smRetired>>

\* operator(): the session of the cookie, or a new one with an id of the
\* server's own.
Load(r, c, cookie) ==
  LET fresh == generate_session_id
  IN /\ smReq[r].at = "idle"
     /\ IF Stored(smStore, cookie)
        THEN /\ smReq' = [smReq EXCEPT ![r] = [NoSession EXCEPT !.at = "handler", !.client = c, !.id = cookie, !.data = DataOf(cookie)]]
             /\ smStore' = Touched(cookie)
             /\ UNCHANGED smUsed
        ELSE /\ SmIds # smUsed
             /\ smReq' = [smReq EXCEPT ![r] = [NoSession EXCEPT !.at = "handler", !.client = c, !.id = fresh, !.isNew = TRUE]]
             /\ smStore' = IF smSave THEN Saved(smStore, fresh, {}) ELSE smStore
             /\ smUsed' = smUsed \cup {fresh}
     /\ UNCHANGED <<smSave, smHeld, smRetired>>

\* What the handler does with req.session: set() and erase(), regenerate(), and
\* at last maybe destroy().
Handler(r, session) ==
  /\ smReq[r].at = "handler"
  /\ smReq' = [smReq EXCEPT ![r] = session]
  /\ UNCHANGED <<smSave, smStore, smHeld, smRetired>>

set(r) ==
  LET s == smReq[r]
  IN ~s.destroyed /\ Handler(r, [s EXCEPT !.data = s.data \cup {s.client}, !.dirty = TRUE]) /\ UNCHANGED smUsed
erase(r) ==
  LET s == smReq[r]
  IN s.data # {} /\ ~s.destroyed /\ Handler(r, [s EXCEPT !.data = {}, !.dirty = TRUE]) /\ UNCHANGED smUsed
destroy(r) == Handler(r, [smReq[r] EXCEPT !.destroyed = TRUE, !.data = {}]) /\ UNCHANGED smUsed
regenerate(r) ==
  LET s == smReq[r]
      ended == IF s.previous = SmNone /\ ~s.isNew THEN s.id ELSE s.previous
  IN /\ SmIds # smUsed /\ ~s.destroyed
     /\ Handler(r, [s EXCEPT !.previous = ended, !.id = generate_session_id, !.dirty = TRUE])
     /\ smUsed' = smUsed \cup {generate_session_id}

\* The interceptor, when the response goes out: first the ids that end here,
\* then, as a second visit to the store, the session that stays.
Ending(s) == (IF s.destroyed THEN {s.id} ELSE {}) \cup ({s.previous} \ {SmNone})
Holders(id) == {q \in SmRequests : smReq[q].at # "idle" /\ smReq[q].id = id}

End(r) ==
  LET s == smReq[r]
  IN /\ s.at = "handler"
     /\ smStore' = Drop(IF s.destroyed THEN Drop(smStore, s.id) ELSE smStore, s.previous)
     /\ smRetired' = smRetired \cup {i \in Ending(s) : Holders(i) \subseteq {r}}
     /\ smReq' = [smReq EXCEPT ![r] = [s EXCEPT !.at = "save"]]
     /\ UNCHANGED <<smSave, smHeld, smUsed>>

Save(r) ==
  LET s == smReq[r]
      changed == s.isNew \/ s.previous # SmNone
  IN /\ s.at = "save"
     /\ smStore' = IF ~s.destroyed /\ (s.dirty \/ (s.isNew /\ smSave)) THEN Saved(smStore, s.id, s.data) ELSE smStore
     /\ smHeld' = [smHeld EXCEPT ![s.client] = @ \cup IF ~s.destroyed /\ changed /\ (s.dirty \/ smSave) THEN {s.id} ELSE {}]
     /\ smReq' = [smReq EXCEPT ![r] = NoSession]
     /\ UNCHANGED <<smSave, smUsed, smRetired>>

\* The idle lifetime of the oldest session is over.
Expire_ ==
  /\ smStore # << >> /\ smStore' = Tail(smStore)
  /\ UNCHANGED <<smSave, smReq, smHeld, smUsed, smRetired>>

SmNext ==
  \/ \E r \in SmRequests : \/ \E c \in SmClients : \E cookie \in smHeld[c] \cup {SmNone} : Load(r, c, cookie)
                           \/ set(r) \/ erase(r) \/ destroy(r) \/ regenerate(r) \/ End(r) \/ Save(r)
  \/ Expire_

SmSpec == SmInit /\ [][SmNext]_smVars

SmTypeOK == /\ Len(smStore) <= SmMaxSessions /\ smUsed \subseteq SmIds
            /\ \A c \in SmClients : smHeld[c] \subseteq smUsed

\* However requests of one session overlap, and whatever expires or is dropped
\* for room: two clients never see each other's data or share an id; an id
\* that a response has ended, by destroy() or by regenerate(), is gone from
\* the store for good unless another request already held the session then;
\* and the store keeps its bound (SessionManager.cpp:170-173, 198-208).
SessionsApart ==
  /\ \A r \in SmRequests : smReq[r].at # "idle" => smReq[r].data \subseteq {smReq[r].client}
  /\ \A c, d \in SmClients : c # d => smHeld[c] \cap smHeld[d] = {}
  /\ \A id \in smRetired : ~Stored(smStore, id)
  /\ Len(smStore) <= SmMaxSessions

\* What the server remembers of one client is not mistaken for another's: its
\* allowance, its session (RateLimiter, SessionManager).
ClientsApart == LmTypeOK /\ LimitersExact /\ SmTypeOK /\ SessionsApart
====
