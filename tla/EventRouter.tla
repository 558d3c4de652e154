---- MODULE EventRouter ----
\* The WebSocket event router (include/orbit/websocket/EventRouter.hpp): its
\* table of sockets and rooms, under one mutex, beside the route handlers that
\* register sockets on worker threads, messages, closing from either side and
\* the drain of the server. Of a WebSocketConnection it keeps what the router
\* relies on: whether it is closed, whether on_close was set by then, and
\* whether the object still exists.
EXTENDS Naturals, FiniteSets

CONSTANTS ErIds,      \* the sockets that connect
          ErRooms     \* the rooms they may join

VARIABLES
  erSockets,    \* the keys of sockets_
  erRooms,      \* rooms_: the members of each room
  erOwn,        \* EventSocket::rooms_ of each socket
  erHandler,    \* where the route handler of each connection is
  erConn,       \* is_closed_ and the life of each WebSocketConnection
  erOnClose,    \* on_close was set on the connection
  erClosing,    \* close handlers being run, and how far they are
  erDrained,    \* history: connections closed by a drain before on_close was set
  erCast,       \* the broadcast in progress: it holds mutex_
  erTouched     \* history: a broadcast wrote to a connection that is gone

erVars == <<erSockets, erRooms, erOwn, erHandler, erConn, erOnClose, erClosing,
            erDrained, erCast, erTouched>>

ErNoCast == [members |-> {}, held |-> FALSE]

ErInit ==
  /\ erSockets = {} /\ erRooms = [r \in ErRooms |-> {}] /\ erOwn = [i \in ErIds |-> {}]
  /\ erHandler = [i \in ErIds |-> "none"] /\ erConn = [i \in ErIds |-> "open"]
  /\ erOnClose = [i \in ErIds |-> FALSE] /\ erClosing = [i \in ErIds |-> "no"]
  /\ erDrained = {} /\ erCast = ErNoCast /\ erTouched = FALSE

ErFree == ~erCast.held

\* attach(): the handler of one connection registers the socket, runs
\* on_connect_, in which it may join rooms, and sets the callbacks.
ErRegister(i) ==
  /\ erHandler[i] = "none" /\ ErFree
  /\ erSockets' = erSockets \cup {i}
  /\ erHandler' = [erHandler EXCEPT ![i] = "connecting"]
  /\ UNCHANGED <<erRooms, erOwn, erConn, erOnClose, erClosing, erDrained, erCast, erTouched>>

ErSetCallbacks(i) ==
  /\ erHandler[i] = "connecting"
  /\ erOnClose' = [erOnClose EXCEPT ![i] = TRUE]
  /\ erHandler' = [erHandler EXCEPT ![i] = "ready"]
  /\ UNCHANGED <<erSockets, erRooms, erOwn, erConn, erClosing, erDrained, erCast, erTouched>>

\* The socket's own handlers, on_connect_ and the message handlers, may join
\* and leave rooms; a message comes only while the connection is open. A
\* handler that still runs after the socket was erased changes nothing.
ErMayAct(i) == erHandler[i] = "connecting" \/ (erHandler[i] = "ready" /\ erConn[i] # "gone")

\* Mutant: also a socket that is gone joins.
join_room_Unregistered(i, r) ==
  /\ ErMayAct(i) /\ ErFree /\ r \notin erOwn[i]
  /\ erOwn' = [erOwn EXCEPT ![i] = @ \cup {r}]
  /\ erRooms' = [erRooms EXCEPT ![r] = @ \cup {i}]
  /\ UNCHANGED <<erSockets, erHandler, erConn, erOnClose, erClosing, erDrained, erCast, erTouched>>

join_room(i, r) ==
  /\ ErMayAct(i) /\ ErFree /\ r \notin erOwn[i]
  /\ i \in erSockets
  /\ erOwn' = [erOwn EXCEPT ![i] = @ \cup {r}]
  /\ erRooms' = [erRooms EXCEPT ![r] = @ \cup {i}]
  /\ UNCHANGED <<erSockets, erHandler, erConn, erOnClose, erClosing, erDrained, erCast, erTouched>>

leave_room(i, r) ==
  /\ ErMayAct(i) /\ ErFree /\ r \in erOwn[i]
  /\ i \in erSockets
  /\ erOwn' = [erOwn EXCEPT ![i] = @ \ {r}]
  /\ erRooms' = [erRooms EXCEPT ![r] = @ \ {i}]
  /\ UNCHANGED <<erSockets, erHandler, erConn, erOnClose, erClosing, erDrained, erCast, erTouched>>

\* Mutant: the close handler is not called.
ErClose_Silent(i) ==
  /\ erConn[i] = "open" /\ erHandler[i] = "ready"
  /\ erConn' = [erConn EXCEPT ![i] = "closed"]
  /\ UNCHANGED <<erSockets, erRooms, erOwn, erHandler, erOnClose, erClosing, erDrained, erCast, erTouched>>

\* A connection closes: for the client or the application once its handler is
\* through (only then is it read from), for the drain of the server at any
\* moment after the upgrade. The close handler is called if it was set.
ErClose(i) ==
  /\ erConn[i] = "open"
  /\ \/ /\ erHandler[i] = "ready" /\ UNCHANGED erDrained
     \/ /\ erHandler[i] \in {"none", "connecting"}
        /\ erDrained' = erDrained \cup {i}
  /\ erConn' = [erConn EXCEPT ![i] = "closed"]
  /\ erClosing' = IF erOnClose[i] THEN [erClosing EXCEPT ![i] = "lookup"] ELSE erClosing
  /\ UNCHANGED <<erSockets, erRooms, erOwn, erHandler, erOnClose, erCast, erTouched>>

\* The close handler: get_socket(), on_disconnect_ (which may still join
\* rooms), then the erasure under the mutex.
ErCloseLookup(i) ==
  /\ erClosing[i] = "lookup" /\ ErFree
  /\ erClosing' = [erClosing EXCEPT ![i] = "disconnect"]
  /\ UNCHANGED <<erSockets, erRooms, erOwn, erHandler, erConn, erOnClose, erDrained, erCast, erTouched>>

ErCloseErase(i) ==
  /\ erClosing[i] = "disconnect" /\ ErFree
  /\ erRooms' = [r \in ErRooms |-> IF r \in erOwn[i] THEN erRooms[r] \ {i} ELSE erRooms[r]]
  /\ erSockets' = erSockets \ {i}
  /\ erClosing' = [erClosing EXCEPT ![i] = "done"]
  /\ UNCHANGED <<erOwn, erHandler, erConn, erOnClose, erDrained, erCast, erTouched>>

\* The Connection, and the WebSocketConnection in it, is destroyed: after its
\* handler and its close handler are through. handle_transport_closed() in the
\* destructor does nothing, as the connection is closed.
ErDestroy(i) ==
  /\ erConn[i] = "closed" /\ erHandler[i] = "ready" /\ erClosing[i] \in {"no", "done"}
  /\ erConn' = [erConn EXCEPT ![i] = "gone"]
  /\ UNCHANGED <<erSockets, erRooms, erOwn, erHandler, erOnClose, erClosing, erDrained, erCast, erTouched>>

\* broadcast_to_room(): under the mutex, one send() after the other to the
\* members that are registered.
ErBroadcast(r) ==
  /\ ErFree /\ erRooms[r] # {}
  /\ erCast' = [members |-> erRooms[r], held |-> TRUE]
  /\ UNCHANGED <<erSockets, erRooms, erOwn, erHandler, erConn, erOnClose, erClosing, erDrained, erTouched>>

ErCastOne ==
  /\ erCast.held
  /\ \/ \E i \in erCast.members :
          /\ erTouched' = (erTouched \/ (i \in erSockets /\ erConn[i] = "gone"))
          /\ erCast' = [erCast EXCEPT !.members = @ \ {i}]
     \/ /\ erCast.members = {}
        /\ erCast' = ErNoCast /\ UNCHANGED erTouched
  /\ UNCHANGED <<erSockets, erRooms, erOwn, erHandler, erConn, erOnClose, erClosing, erDrained>>

ErHandlerStep(i) == ErRegister(i) \/ ErSetCallbacks(i)
ErCloseStep(i) == ErCloseLookup(i) \/ ErCloseErase(i) \/ ErDestroy(i)

ErNext ==
  \/ \E i \in ErIds : ErHandlerStep(i) \/ ErClose(i) \/ ErCloseStep(i)
  \/ \E i \in ErIds, r \in ErRooms : join_room(i, r) \/ leave_room(i, r)
  \/ \E r \in ErRooms : ErBroadcast(r)
  \/ ErCastOne

----
\* Rooms and sockets agree whatever joins, leaves, closes and broadcasts
\* interleave: a member of a room is a registered socket that knows of the
\* room. Every socket that is registered has a connection that exists, and no
\* broadcast writes to one that does not, except to sockets whose connection a
\* drain closed while their handler had not set on_close yet: those stay in
\* the table for good.
RoomsSound ==
  /\ \A r \in ErRooms : \A i \in erRooms[r] : i \in erSockets /\ r \in erOwn[i]
  /\ \A i \in erSockets : \A r \in erOwn[i] : i \in erRooms[r]
  /\ \A i \in erSockets : erConn[i] = "gone" => i \in erDrained
  /\ erTouched => erDrained # {}

\* Once a socket is closed, other than by a drain that was too early, it
\* leaves the table and the rooms: its close handler does not wait for ever
\* for the mutex that broadcasts hold while they send. Again and again no
\* socket in the table is closed.
ErLeaves == []<>(\A i \in erSockets : erConn[i] # "open" => i \in erDrained)
====
