--------------------------- MODULE WsConnections ---------------------------
(***************************************************************************)
(* The registry of the WebSocket server: ConnectionManager (connections,   *)
(* rooms, user index, connection counter) driven by one endpoint task per  *)
(* client and by the heartbeat task, all on one asyncio event loop.        *)
(*                                                                         *)
(* asyncio runs a task without interruption up to its next real            *)
(* suspension.  The variable `loop' names the task that is running between *)
(* two suspensions, or NoTask when every task is suspended; a task only    *)
(* takes a step when the loop is free or already its own.                  *)
(*                                                                         *)
(* disconnect, _leave_room_internal, send_to_room and _send_message_direct *)
(* call each other recursively (a failed send disconnects its target,      *)
(* whose rooms are told, which may fail again), so each task carries its   *)
(* call stack.  A frame holds the function (op), the point it has reached  *)
(* (at), its connection, its room, and what its loop has still to visit.   *)
(***************************************************************************)
EXTENDS Naturals, Sequences, FiniteSets

CONSTANTS
    Conn,            \* connection ids; uuid4 per connection, so used once each
    Room,            \* room ids
    User,            \* authenticated users
    UserOf,          \* the user each connection authenticates as
    MaxConnections,  \* _max_connections_allowed
    StoresFail,      \* may the database and the shared cache raise?
    Heartbeat,       \* the task running _heartbeat_loop
    NoTask           \* the event loop is waiting

ASSUME ConnAssumption == IsFiniteSet(Conn) /\ Heartbeat \notin Conn
                         /\ NoTask \notin Conn \cup {Heartbeat}
ASSUME UserAssumption == UserOf \in [Conn -> User]
ASSUME MaxAssumption  == MaxConnections \in Nat
ASSUME StoresAssumption == StoresFail \in BOOLEAN

VARIABLES
    conns,      \* keys of _connections, _connection_metadata and _last_ping
    count,      \* _active_connection_count
    userConns,  \* _user_connections
    rooms,      \* _room_subscriptions: the members
    roomKeys,   \* _room_subscriptions: the rooms that have an entry
    redis,      \* ws:room:{room}:members in the shared cache
    dbRow,      \* the connection's row in websocket_connections
    socket,     \* the server's end of the WebSocket
    client,     \* the client's end
    pc,         \* where each endpoint task is
    beat,       \* where the heartbeat task is
    stack,      \* the call stack of every task
    loop        \* the task the event loop is running

registry == <<conns, count, userConns>>
roomVars == <<rooms, roomKeys>>
extern   == <<redis, dbRow, socket, client>>
tasks    == <<pc, beat, stack, loop>>
vars     == <<registry, roomVars, extern, tasks>>

Task == Conn \cup {Heartbeat}

DisconnectFrame == [op: {"disconnect"}, at: {"call", "quiet", "notify", "rooms", "close", "db"},
                    c: Conn, r: {NoTask}, todo: SUBSET Room]
LeaveFrame      == [op: {"leave"}, at: {"srem"}, c: Conn, r: Room, todo: {{}}]
TellFrame       == [op: {"tell"}, at: {"each"}, c: {NoTask}, r: {NoTask}, todo: SUBSET Conn]
                   \cup [op: {"tell"}, at: {"send"}, c: Conn, r: {NoTask}, todo: SUBSET Conn]
SubscribeFrame  == [op: {"subscribe"}, at: {"sadd", "joined", "confirm"}, c: Conn, r: Room, todo: {{}}]

Frame == DisconnectFrame \cup LeaveFrame \cup TellFrame \cup SubscribeFrame

EndpointState == {"new", "accept", "store", "welcome", "refused", "serve",
                  "reply", "fatal", "lastwords", "final", "closing", "done"}

Asleep == [at |-> "sleep", c |-> NoTask, todo |-> {}, dead |-> {}]

TypeOK ==
    /\ conns \subseteq Conn
    /\ count \in Nat
    /\ userConns \in [User -> SUBSET Conn]
    /\ rooms \in [Room -> SUBSET Conn]
    /\ roomKeys \subseteq Room
    /\ redis \in [Room -> SUBSET Conn]
    /\ dbRow \in [Conn -> {"none", "open", "closed"}]
    /\ socket \in [Conn -> {"open", "closed"}]
    /\ client \in [Conn -> {"up", "gone"}]
    /\ pc \in [Conn -> EndpointState]
    /\ beat \in [at: {"sleep", "sweep", "reap"}, c: {NoTask}, todo: SUBSET Conn, dead: SUBSET Conn]
               \cup [at: {"send"}, c: Conn, todo: SUBSET Conn, dead: SUBSET Conn]
    /\ stack \in [Task -> Seq(Frame)]
    /\ loop \in Task \cup {NoTask}

Init ==
    /\ conns = {} /\ count = 0
    /\ userConns = [u \in User |-> {}]
    /\ rooms = [r \in Room |-> {}] /\ roomKeys = {}
    /\ redis = [r \in Room |-> {}]
    /\ dbRow = [c \in Conn |-> "none"]
    /\ socket = [c \in Conn |-> "open"]
    /\ client = [c \in Conn |-> "up"]
    /\ pc = [c \in Conn |-> "new"]
    /\ beat = Asleep
    /\ stack = [t \in Task |-> <<>>]
    /\ loop = NoTask

(***************************************************************************)
(* Frames and the event loop.                                              *)
(***************************************************************************)
Top(t) == stack[t][Len(stack[t])]
Active(t, op, at) == stack[t] # <<>> /\ Top(t).op = op /\ Top(t).at = at

Goto(t, f) == [stack EXCEPT ![t][Len(stack[t])] = f]
Push(t, f) == [stack EXCEPT ![t] = Append(@, f)]
Return(t)  == [stack EXCEPT ![t] = SubSeq(@, 1, Len(@) - 1)]
GotoPush(t, f, g) == [stack EXCEPT ![t] = Append([@ EXCEPT ![Len(@)] = f], g)]

\* A call of disconnect, at "call", or at "quiet" with skip_notification.
Disconnect(c, at) ==
    [op |-> "disconnect", at |-> at, c |-> c, r |-> NoTask, todo |-> {}]

\* After an await a task takes the free loop; between awaits it keeps it.
Awaited(t) == loop = NoTask
Running(t) == loop = t
GoOn(t)    == loop' = t
Suspend    == loop' = NoTask

\* A KeyError unwinds the whole stack of its task.  While the endpoint serves
\* messages its handler reports the error to the client; the report itself
\* swallows errors ("final"); nothing catches one during connect or in the
\* final disconnect.  The heartbeat loop swallows it and goes back to sleep.
Raise(t) ==
    /\ stack' = [stack EXCEPT ![t] = <<>>]
    /\ IF t = Heartbeat
       THEN /\ beat' = Asleep
            /\ Suspend /\ UNCHANGED pc
       ELSE /\ pc' = [pc EXCEPT ![t] = CASE @ = "serve" -> "fatal"
                                         [] @ = "final" -> "final"
                                         [] OTHER -> "done"]
            /\ loop' = IF pc[t] = "serve" THEN t ELSE NoTask
            /\ UNCHANGED beat

\* How a send that was awaited may end: accepted by an open socket, or raised
\* because the peer or the socket is gone.
SendOk(c)    == socket[c] = "open"
SendFails(c) == client[c] = "gone" \/ socket[c] = "closed"

(***************************************************************************)
(* disconnect.                                                             *)
(***************************************************************************)

\* Mutant: a connection out of the user index counts as already disconnected.
DisconnectUnknown_TrustsIndex(t) ==
    /\ Running(t)
    /\ stack[t] # <<>> /\ Top(t).op = "disconnect" /\ Top(t).at \in {"call", "quiet"}
    /\ Top(t).c \notin userConns[UserOf[Top(t).c]]
    /\ stack' = Return(t) /\ GoOn(t)
    /\ UNCHANGED <<registry, roomVars, extern, pc, beat>>

\* The connection is not registered (any more): an Err, nothing is done.
DisconnectUnknown(t) ==
    /\ Running(t)
    /\ stack[t] # <<>> /\ Top(t).op = "disconnect" /\ Top(t).at \in {"call", "quiet"}
    /\ Top(t).c \notin conns
    /\ stack' = Return(t) /\ GoOn(t)
    /\ UNCHANGED <<registry, roomVars, extern, pc, beat>>

\* Tell the client; whether that send succeeds does not matter.
DisconnectNotify(t) ==
    /\ Running(t) /\ Active(t, "disconnect", "call")
    /\ Top(t).c \in conns
    /\ stack' = Goto(t, [Top(t) EXCEPT !.at = "notify"]) /\ Suspend
    /\ UNCHANGED <<registry, roomVars, extern, pc, beat>>

\* Mutant: the user index is left alone.
\* Leave the user index and take the snapshot of the rooms to go through.
DisconnectUser(t) ==
    LET c == Top(t).c IN
    /\ \/ Awaited(t) /\ Active(t, "disconnect", "notify")
       \/ Running(t) /\ Active(t, "disconnect", "quiet") /\ c \in conns
    /\ userConns' = [userConns EXCEPT ![UserOf[c]] = @ \ {c}]
    /\ stack' = Goto(t, [Top(t) EXCEPT !.at = "rooms", !.todo = roomKeys])
    /\ GoOn(t)
    /\ UNCHANGED <<conns, count, roomVars, extern, pc, beat>>

\* Mutant: the member is still there while the room is told.
LeaveRoom_TellsFirst(c, r) == UNCHANGED roomVars

\* _leave_room_internal up to its first await.
LeaveRoom(c, r) ==
    /\ rooms' = [rooms EXCEPT ![r] = @ \ {c}]
    /\ roomKeys' = IF rooms[r] \subseteq {c} THEN roomKeys \ {r} ELSE roomKeys

Leaving(c, r) == [op |-> "leave", at |-> "srem", c |-> c, r |-> r, todo |-> {}]

\* One room of the snapshot: reading a room that is gone raises KeyError.
DisconnectRoom(t) ==
    LET f == Top(t) IN
    /\ Running(t) /\ Active(t, "disconnect", "rooms")
    /\ \E r \in f.todo :
        LET rest == [f EXCEPT !.todo = @ \ {r}] IN
        \/ /\ r \notin roomKeys
           /\ Raise(t) /\ UNCHANGED roomVars
        \/ /\ r \in roomKeys /\ f.c \notin rooms[r]
           /\ stack' = Goto(t, rest) /\ GoOn(t)
           /\ UNCHANGED <<roomVars, pc, beat>>
        \/ /\ r \in roomKeys /\ f.c \in rooms[r]
           /\ LeaveRoom(f.c, r)
           /\ stack' = GotoPush(t, rest, Leaving(f.c, r)) /\ Suspend
           /\ UNCHANGED <<pc, beat>>
    /\ UNCHANGED <<registry, extern>>

\* Mutant: the local state is dropped before the socket is closed.
DisconnectClose_DropsFirst(t) ==
    /\ Running(t) /\ Active(t, "disconnect", "rooms") /\ Top(t).todo = {}
    /\ conns' = conns \ {Top(t).c}
    /\ stack' = Goto(t, [Top(t) EXCEPT !.at = "close"]) /\ Suspend
    /\ UNCHANGED <<count, userConns, roomVars, extern, pc, beat>>

\* Look the socket up again and close it.
DisconnectClose(t) ==
    /\ Running(t) /\ Active(t, "disconnect", "rooms") /\ Top(t).todo = {}
    /\ \/ /\ Top(t).c \notin conns
          /\ Raise(t)
       \/ /\ Top(t).c \in conns
          /\ stack' = Goto(t, [Top(t) EXCEPT !.at = "close"]) /\ Suspend
          /\ UNCHANGED <<pc, beat>>
    /\ UNCHANGED <<registry, roomVars, extern>>

\* Mutant: dropping the local state twice does not raise.
DisconnectUnregister_Unguarded(t) ==
    LET c == Top(t).c IN
    /\ Awaited(t) /\ Active(t, "disconnect", "close")
    /\ socket' = [socket EXCEPT ![c] = "closed"]
    /\ conns' = conns \ {c}
    /\ count' = count - 1
    /\ stack' = Goto(t, [Top(t) EXCEPT !.at = "db"]) /\ Suspend
    /\ UNCHANGED <<userConns, roomVars, redis, dbRow, client, pc, beat>>

\* The socket is closed: drop the local state.  `del' raises when another task
\* has dropped it meanwhile, before the counter is touched.
DisconnectUnregister(t) ==
    LET c == Top(t).c IN
    /\ Awaited(t) /\ Active(t, "disconnect", "close")
    /\ socket' = [socket EXCEPT ![c] = "closed"]
    /\ \/ /\ c \notin conns
          /\ Raise(t)
          /\ UNCHANGED <<registry>>
       \/ /\ c \in conns
          /\ conns' = conns \ {c}
          /\ count' = count - 1
          /\ stack' = Goto(t, [Top(t) EXCEPT !.at = "db"]) /\ Suspend
          /\ UNCHANGED <<userConns, pc, beat>>
    /\ UNCHANGED <<roomVars, redis, dbRow, client>>

\* _remove_connection: the row is marked closed, unless the update fails.
DisconnectStored(t) ==
    LET c == Top(t).c IN
    /\ Awaited(t) /\ Active(t, "disconnect", "db")
    /\ \/ dbRow' = [dbRow EXCEPT ![c] = IF @ = "open" THEN "closed" ELSE @]
       \/ StoresFail /\ UNCHANGED dbRow
    /\ stack' = Return(t) /\ GoOn(t)
    /\ UNCHANGED <<registry, roomVars, redis, socket, client, pc, beat>>

(***************************************************************************)
(* _leave_room_internal after its await, send_to_room, _send_message_direct*)
(***************************************************************************)
Telling(members) == [op |-> "tell", at |-> "each", c |-> NoTask, r |-> NoTask, todo |-> members]

\* The shared cache is updated (a failure is ignored); the room is told.
LeaveCached(t) ==
    LET f == Top(t) IN
    /\ Awaited(t) /\ Active(t, "leave", "srem")
    /\ \/ redis' = [redis EXCEPT ![f.r] = @ \ {f.c}]
       \/ StoresFail /\ UNCHANGED redis
    /\ stack' = IF f.r \in roomKeys THEN Goto(t, Telling(rooms[f.r]))
                                    ELSE Return(t)
    /\ GoOn(t)
    /\ UNCHANGED <<registry, roomVars, dbRow, socket, client, pc, beat>>

\* The next member: skipped when it is unregistered, rate limited or under
\* backpressure, else sent the message.
TellNext(t) ==
    LET f == Top(t) IN
    /\ Running(t) /\ Active(t, "tell", "each")
    /\ \E m \in f.todo :
        \/ stack' = Goto(t, [f EXCEPT !.todo = @ \ {m}]) /\ GoOn(t)
        \/ /\ m \in conns
           /\ stack' = Goto(t, [f EXCEPT !.todo = @ \ {m}, !.c = m, !.at = "send"])
           /\ Suspend
    /\ UNCHANGED <<registry, roomVars, extern, pc, beat>>

\* A failed send disconnects the member, quietly, before the next one.
TellSent(t) ==
    LET m == Top(t).c
        f == Telling(Top(t).todo) IN
    /\ Awaited(t) /\ Active(t, "tell", "send")
    /\ \/ SendOk(m) /\ stack' = Goto(t, f)
       \/ SendFails(m) /\ stack' = GotoPush(t, f, Disconnect(m, "quiet"))
    /\ GoOn(t)
    /\ UNCHANGED <<registry, roomVars, extern, pc, beat>>

TellDone(t) ==
    /\ Running(t) /\ Active(t, "tell", "each") /\ Top(t).todo = {}
    /\ stack' = Return(t) /\ GoOn(t)
    /\ UNCHANGED <<registry, roomVars, extern, pc, beat>>

(***************************************************************************)
(* subscribe_to_room and unsubscribe_from_room, called by the endpoint.    *)
(***************************************************************************)
Serving(c) == pc[c] = "serve" /\ stack[c] = <<>> /\ Awaited(c)
Receives(c) ==
    Serving(c) /\ socket[c] = "open" /\ client[c] = "up" /\ c \in conns

Subscribe(c, r) ==
    /\ Receives(c)
    /\ c \notin rooms[r]
    /\ rooms' = [rooms EXCEPT ![r] = @ \cup {c}]
    /\ roomKeys' = roomKeys \cup {r}
    /\ stack' = Push(c, [op |-> "subscribe", at |-> "sadd", c |-> c, r |-> r, todo |-> {}])
    /\ UNCHANGED <<registry, extern, pc, beat, loop>>

\* The cache answered: announce the member, or roll back.  Either way the
\* room's entry is read again, and may be gone.
SubscribeCached(t) ==
    LET f == Top(t) IN
    /\ Awaited(t) /\ Active(t, "subscribe", "sadd")
    /\ \/ /\ redis' = [redis EXCEPT ![f.r] = @ \cup {f.c}]
          /\ UNCHANGED rooms
          /\ \/ /\ f.r \notin roomKeys
                /\ Raise(t)
             \/ /\ f.r \in roomKeys
                /\ stack' = GotoPush(t, [f EXCEPT !.at = "joined"],
                                     Telling(rooms[f.r] \ {f.c}))
                /\ GoOn(t) /\ UNCHANGED <<pc, beat>>
       \/ /\ StoresFail /\ UNCHANGED redis
          /\ \/ /\ f.r \notin roomKeys
                /\ Raise(t) /\ UNCHANGED rooms
             \/ /\ f.r \in roomKeys
                /\ rooms' = [rooms EXCEPT ![f.r] = @ \ {f.c}]
                /\ stack' = Return(t) /\ GoOn(t) /\ UNCHANGED <<pc, beat>>
    /\ UNCHANGED <<registry, roomKeys, dbRow, socket, client>>

\* The confirmation goes out like any message.
SubscribeConfirm(t) ==
    LET f == Top(t) IN
    /\ Running(t) /\ Active(t, "subscribe", "joined")
    /\ \/ stack' = Return(t) /\ GoOn(t)
       \/ /\ f.c \in conns
          /\ stack' = Goto(t, [f EXCEPT !.at = "confirm"]) /\ Suspend
    /\ UNCHANGED <<registry, roomVars, extern, pc, beat>>

SubscribeConfirmed(t) ==
    LET f == Top(t) IN
    /\ Awaited(t) /\ Active(t, "subscribe", "confirm")
    /\ \/ SendOk(f.c) /\ stack' = Return(t)
       \/ SendFails(f.c) /\ stack' = Goto(t, Disconnect(f.c, "quiet"))
    /\ GoOn(t)
    /\ UNCHANGED <<registry, roomVars, extern, pc, beat>>

Unsubscribe(c, r) ==
    /\ Receives(c)
    /\ r \in roomKeys /\ c \in rooms[r]
    /\ LeaveRoom(c, r)
    /\ stack' = Push(c, Leaving(c, r))
    /\ UNCHANGED <<registry, extern, pc, beat, loop>>

(***************************************************************************)
(* The endpoint task: connect, the receive loop, the cleanup.              *)
(***************************************************************************)

\* connect up to the handshake: the limit is checked before the await.
Connect(c) ==
    /\ Awaited(c) /\ pc[c] = "new"
    /\ pc' = [pc EXCEPT ![c] = IF count >= MaxConnections THEN "done" ELSE "accept"]
    /\ UNCHANGED <<registry, roomVars, extern, beat, stack, loop>>

\* The handshake ends: register the connection, or give up.
Accepted(c) ==
    /\ Awaited(c) /\ pc[c] = "accept"
    /\ \/ /\ conns' = conns \cup {c}
          /\ count' = count + 1
          /\ userConns' = [userConns EXCEPT ![UserOf[c]] = @ \cup {c}]
          /\ pc' = [pc EXCEPT ![c] = "store"]
       \/ /\ client[c] = "gone"
          /\ pc' = [pc EXCEPT ![c] = "done"]
          /\ UNCHANGED registry
    /\ UNCHANGED <<roomVars, extern, beat, stack, loop>>

\* The row is inserted (a failure is tolerated); the welcome message is refused
\* if the connection has been dropped meanwhile.
Stored(c) ==
    /\ Awaited(c) /\ pc[c] = "store"
    /\ \/ dbRow' = [dbRow EXCEPT ![c] = "open"]
       \/ StoresFail /\ UNCHANGED dbRow
    /\ IF c \in conns
       THEN pc' = [pc EXCEPT ![c] = "welcome"] /\ UNCHANGED socket
       ELSE pc' = [pc EXCEPT ![c] = "done"] /\ socket' = [socket EXCEPT ![c] = "closed"]
    /\ UNCHANGED <<registry, roomVars, redis, client, beat, stack, loop>>

\* A failed welcome is disconnected by the send, and once more by connect.
Welcomed(c) ==
    /\ Awaited(c) /\ pc[c] = "welcome"
    /\ \/ /\ SendOk(c)
          /\ pc' = [pc EXCEPT ![c] = "serve"]
          /\ UNCHANGED <<stack, loop>>
       \/ /\ SendFails(c)
          /\ pc' = [pc EXCEPT ![c] = "refused"]
          /\ stack' = [stack EXCEPT ![c] = <<Disconnect(c, "call"), Disconnect(c, "quiet")>>]
          /\ GoOn(c)
    /\ UNCHANGED <<registry, roomVars, extern, beat>>

Refused(c) ==
    /\ Running(c) /\ pc[c] = "refused" /\ stack[c] = <<>>
    /\ pc' = [pc EXCEPT ![c] = "done"]
    /\ socket' = [socket EXCEPT ![c] = "closed"]
    /\ Suspend
    /\ UNCHANGED <<registry, roomVars, redis, dbRow, client, beat, stack>>

\* A ping, or a message the endpoint answers with an error: one reply, unless
\* it is rate limited.
Reply(c) ==
    /\ Receives(c)
    /\ \/ pc' = [pc EXCEPT ![c] = "reply"]
       \/ UNCHANGED pc
    /\ UNCHANGED <<registry, roomVars, extern, beat, stack, loop>>

Replied(c) ==
    /\ Awaited(c) /\ pc[c] = "reply"
    /\ pc' = [pc EXCEPT ![c] = "serve"]
    /\ \/ SendOk(c) /\ UNCHANGED <<stack, loop>>
       \/ SendFails(c) /\ stack' = Push(c, Disconnect(c, "quiet")) /\ GoOn(c)
    /\ UNCHANGED <<registry, roomVars, extern, beat>>

\* A handler has returned to the receive loop.
AwaitMessage(c) ==
    /\ Running(c) /\ pc[c] = "serve" /\ stack[c] = <<>>
    /\ Suspend
    /\ UNCHANGED <<registry, roomVars, extern, pc, beat, stack>>

\* receive_text raises: the peer is gone or the server has closed the socket.
HangUp(c) ==
    /\ Serving(c) /\ SendFails(c)
    /\ pc' = [pc EXCEPT ![c] = "final"]
    /\ UNCHANGED <<registry, roomVars, extern, beat, stack, loop>>

\* An unexpected error is reported to the client, if that is still possible.
Fatal(c) ==
    /\ Running(c) /\ pc[c] = "fatal"
    /\ \/ pc' = [pc EXCEPT ![c] = "final"]
       \/ c \in conns /\ pc' = [pc EXCEPT ![c] = "lastwords"]
    /\ Suspend
    /\ UNCHANGED <<registry, roomVars, extern, beat, stack>>

FatalSent(c) ==
    /\ Awaited(c) /\ pc[c] = "lastwords"
    /\ pc' = [pc EXCEPT ![c] = "final"]
    /\ \/ SendOk(c) /\ UNCHANGED <<stack, loop>>
       \/ SendFails(c) /\ stack' = Push(c, Disconnect(c, "quiet")) /\ GoOn(c)
    /\ UNCHANGED <<registry, roomVars, extern, beat>>

\* The finally block: the four handlers clean up, and any of them may raise;
\* only if none does is the connection disconnected.
Cleanup(c) ==
    /\ loop \in {NoTask, c} /\ pc[c] = "final" /\ stack[c] = <<>>
    /\ \/ /\ pc' = [pc EXCEPT ![c] = "closing"]
          /\ stack' = Push(c, Disconnect(c, "call")) /\ GoOn(c)
       \/ /\ pc' = [pc EXCEPT ![c] = "done"]
          /\ Suspend /\ UNCHANGED stack
    /\ UNCHANGED <<registry, roomVars, extern, beat>>

Closed(c) ==
    /\ Running(c) /\ pc[c] = "closing" /\ stack[c] = <<>>
    /\ pc' = [pc EXCEPT ![c] = "done"]
    /\ Suspend
    /\ UNCHANGED <<registry, roomVars, extern, beat, stack>>

(***************************************************************************)
(* The heartbeat task.                                                     *)
(***************************************************************************)

\* Every 30 seconds: a snapshot of the connections, of which those with no ping
\* in the last 90 seconds are found dead.  Pings are not timed here: any
\* registered connection may be found dead.
BeatFinds(dead) ==
    /\ Awaited(Heartbeat) /\ beat.at = "sleep"
    /\ beat' = [beat EXCEPT !.at = "sweep", !.todo = conns \ dead, !.dead = dead]
    /\ GoOn(Heartbeat)
    /\ UNCHANGED <<registry, roomVars, extern, pc, stack>>

BeatWakes == \E dead \in SUBSET conns : BeatFinds(dead)

BeatIdle(at) == Running(Heartbeat) /\ stack[Heartbeat] = <<>> /\ beat.at = at

\* A heartbeat for the next connection of the snapshot: skipped when it is
\* unregistered, rate limited or under backpressure.
BeatNext ==
    /\ BeatIdle("sweep")
    /\ \E c \in beat.todo :
        \/ /\ beat' = [beat EXCEPT !.todo = @ \ {c}]
           /\ GoOn(Heartbeat)
        \/ /\ c \in conns
           /\ beat' = [beat EXCEPT !.todo = @ \ {c}, !.at = "send", !.c = c]
           /\ Suspend
    /\ UNCHANGED <<registry, roomVars, extern, pc, stack>>

BeatSent ==
    /\ Awaited(Heartbeat) /\ beat.at = "send" /\ stack[Heartbeat] = <<>>
    /\ beat' = [beat EXCEPT !.at = "sweep", !.c = NoTask]
    /\ \/ SendOk(beat.c) /\ UNCHANGED stack
       \/ SendFails(beat.c) /\ stack' = Push(Heartbeat, Disconnect(beat.c, "quiet"))
    /\ GoOn(Heartbeat)
    /\ UNCHANGED <<registry, roomVars, extern, pc>>

BeatSwept ==
    /\ BeatIdle("sweep") /\ beat.todo = {}
    /\ beat' = [beat EXCEPT !.at = "reap"]
    /\ UNCHANGED <<registry, roomVars, extern, pc, stack, loop>>

\* Mutant: the dead connections are only counted.
BeatReaps_Counts ==
    /\ BeatIdle("reap")
    /\ \E c \in beat.dead : beat' = [beat EXCEPT !.dead = @ \ {c}]
    /\ UNCHANGED <<registry, roomVars, extern, pc, stack, loop>>

\* The dead connections are disconnected one by one.
BeatReaps ==
    /\ BeatIdle("reap")
    /\ \E c \in beat.dead :
        /\ beat' = [beat EXCEPT !.dead = @ \ {c}]
        /\ stack' = Push(Heartbeat, Disconnect(c, "call"))
    /\ UNCHANGED <<registry, roomVars, extern, pc, loop>>

BeatSleeps ==
    /\ BeatIdle("reap") /\ beat.dead = {}
    /\ beat' = [beat EXCEPT !.at = "sleep"]
    /\ Suspend
    /\ UNCHANGED <<registry, roomVars, extern, pc, stack>>

(***************************************************************************)
(* Clients.                                                                *)
(***************************************************************************)
ClientLeaves(c) ==
    /\ loop = NoTask /\ pc[c] # "done" /\ client[c] = "up"
    /\ client' = [client EXCEPT ![c] = "gone"]
    /\ UNCHANGED <<registry, roomVars, redis, dbRow, socket, tasks>>

(***************************************************************************)
(* The specification.                                                      *)
(***************************************************************************)
DisconnectStep(t) ==
    \/ DisconnectUnknown(t) \/ DisconnectNotify(t) \/ DisconnectUser(t)
    \/ DisconnectRoom(t) \/ DisconnectClose(t) \/ DisconnectUnregister(t)
    \/ DisconnectStored(t)

RoomStep(t) ==
    \/ LeaveCached(t) \/ TellNext(t) \/ TellSent(t) \/ TellDone(t)
    \/ SubscribeCached(t) \/ SubscribeConfirm(t) \/ SubscribeConfirmed(t)

CallStep(t) == DisconnectStep(t) \/ RoomStep(t)

\* What the endpoint does without waiting for its client to send something.
EndpointStep(c) ==
    \/ Connect(c) \/ Accepted(c) \/ Stored(c) \/ Welcomed(c) \/ Refused(c)
    \/ Replied(c) \/ AwaitMessage(c) \/ HangUp(c) \/ Fatal(c) \/ FatalSent(c)
    \/ Cleanup(c) \/ Closed(c)

Message(c) == Reply(c) \/ \E r \in Room : Subscribe(c, r) \/ Unsubscribe(c, r)

BeatStep == BeatWakes \/ BeatNext \/ BeatSent \/ BeatSwept \/ BeatReaps \/ BeatSleeps

Next ==
    \/ \E t \in Task : CallStep(t)
    \/ \E c \in Conn : EndpointStep(c) \/ Message(c) \/ ClientLeaves(c)
    \/ BeatStep

Spec == Init /\ [][Next]_vars

\* asyncio's ready queue is first-in first-out, so a task whose await has
\* completed runs again; time passes, so an absent client is found dead.
Fairness ==
    /\ \A t \in Task : SF_vars(CallStep(t))
    /\ \A c \in Conn : SF_vars(EndpointStep(c))
    /\ SF_vars(BeatStep)
    /\ \A c \in Conn :
        SF_vars(client[c] = "gone" /\ \E dead \in SUBSET conns : c \in dead /\ BeatFinds(dead))

FairSpec == Spec /\ Fairness

(***************************************************************************)
(* Properties that hold.                                                   *)
(***************************************************************************)

\* The counter that admits connections is the number of registered ones, also
\* after disconnects that raced each other and failed half way
\* (_active_connection_count in connect and disconnect).
CountMatches == count = Cardinality(conns)

\* The user index only names registered connections, each under its own user:
\* send_to_user never works on a forgotten one.
UserIndexRegistered ==
    \A u \in User : userConns[u] \subseteq {c \in conns : UserOf[c] = u}

\* Why the user index stays right.  A connection is new until it is registered,
\* once; a disconnect that has found it registered never meets it new again, and
\* from the moment it takes it out of the index nobody puts it back.
IsNew(c) == pc[c] \in {"new", "accept"}

FrameOK(f) ==
    f.op = "disconnect" =>
        /\ f.at \in {"notify", "rooms", "close"} => ~IsNew(f.c)
        /\ f.at \in {"rooms", "close"} => f.c \notin userConns[UserOf[f.c]]

NewUnregistered == \A c \in Conn : IsNew(c) => c \notin conns
FramesOK == \A t \in Task : \A i \in 1..Len(stack[t]) : FrameOK(stack[t][i])

RegistryInv ==
    TypeOK /\ CountMatches /\ UserIndexRegistered /\ NewUnregistered /\ FramesOK

\* A connection is forgotten only with its socket closed and after it has left
\* the user index, however the tasks that disconnect it interleave.
ClosedBeforeForgotten ==
    [][\A c \in conns \ conns' : socket'[c] = "closed" /\ c \notin userConns[UserOf[c]]]_vars

\* When connect has refused a connection, or the endpoint's last disconnect has
\* returned, the connection is forgotten, whichever task was disconnecting it too.
EndedIsForgotten ==
    [][\A c \in Conn : Refused(c) \/ Closed(c) => c \notin conns']_vars

\* disconnect and the notifications it sends call each other; the recursion is
\* bounded by the rooms that are left and the members that fail.
StackBound ==
    \A t \in Task : Len(stack[t]) =< 2 * Cardinality(Conn) * Cardinality(Room) + 2

\* Once its client is gone a connection is eventually forgotten for good: by its
\* endpoint, by a failed send or by the heartbeat, if the others did not get through.
GoneIsForgotten ==
    \A c \in Conn : client[c] = "gone" ~> [](c \notin conns)

(***************************************************************************)
(* What the comments and messages of the code say, and the code does not   *)
(* keep: TLC refutes each of them.                                         *)
(***************************************************************************)

\* A call of disconnect, leave or subscribe is under way for c.
InCall(c) == \E t \in Task : \E i \in 1..Len(stack[t]) :
                stack[t][i].op # "tell" /\ stack[t][i].c = c

\* connect: "System cannot accept new connections until existing ones disconnect."
LimitRespected == count =< MaxConnections

\* disconnect: "Remove from all rooms and notify room members".  Nobody is a
\* member of a room once it is disconnected and its endpoint has ended.
NoGhostMembers ==
    \A c \in Conn \ conns : pc[c] = "done" /\ ~InCall(c) => \A r \in Room : c \notin rooms[r]

\* send_to_user: "Send a message to all connections of a user."  A registered
\* connection that nobody is disconnecting can be found under its user.
UserIndexComplete ==
    \A c \in conns : ~InCall(c) => c \in userConns[UserOf[c]]

\* _send_message_direct: "disconnect (skip notification to prevent recursion)".
\* No task disconnects a connection from inside its own disconnect of it.
NoNestedDisconnect ==
    \A t \in Task : \A i, j \in 1..Len(stack[t]) :
        i < j /\ stack[t][i].c = stack[t][j].c =>
            ~(stack[t][i].op = "disconnect" /\ stack[t][i].at = "rooms"
              /\ stack[t][j].op = "disconnect" /\ stack[t][j].at \in {"rooms", "close"})

\* _cache_room_subscription: "Cache room subscription for distributed systems."
\* The shared cache agrees with the rooms about a registered connection that no
\* call is moving, as long as no store fails.
MirrorAgrees ==
    \A c \in conns, r \in Room : ~StoresFail /\ ~InCall(c) => (c \in redis[r] <=> c \in rooms[r])

=============================================================================
