------------------------ MODULE WsConnectionsProofs ------------------------
(***************************************************************************)
(* Proofs about the connection registry: its types, that the admission     *)
(* counter is the number of registered connections, that the user index    *)
(* names only registered ones, that a connection is forgotten only after   *)
(* its socket is closed and it has left the user index, that the recursion *)
(* of disconnect is bounded, and that a refused or ended connection is     *)
(* forgotten whoever else was disconnecting it.                            *)
(***************************************************************************)
EXTENDS WsConnections, FiniteSetTheorems, TLAPS

(***************************************************************************)
(* Call stacks.                                                            *)
(***************************************************************************)

\* The operations on call stacks keep every stack a sequence of frames.
LEMMA StackTypes ==
    ASSUME stack \in [Task -> Seq(Frame)], NEW t \in Task
    PROVE  /\ stack[t] # <<>> =>
                /\ Len(stack[t]) \in 1..Len(stack[t])
                /\ Top(t) \in Frame
                /\ Return(t) \in [Task -> Seq(Frame)]
                /\ \A f \in Frame : Goto(t, f) \in [Task -> Seq(Frame)]
                /\ \A f, g \in Frame : GotoPush(t, f, g) \in [Task -> Seq(Frame)]
           /\ \A f \in Frame : Push(t, f) \in [Task -> Seq(Frame)]
<1>. DEFINE s == stack[t]
<1>1. s \in Seq(Frame)
  OBVIOUS
<1>2. ASSUME s # <<>> PROVE Len(s) \in 1..Len(s) /\ s[Len(s)] \in Frame
  BY <1>1, <1>2
<1>3. ASSUME s # <<>> PROVE SubSeq(s, 1, Len(s) - 1) \in Seq(Frame)
  BY <1>1, <1>3
<1>4. \A f \in Frame : Append(s, f) \in Seq(Frame)
  BY <1>1
<1>5. ASSUME s # <<>>, NEW f \in Frame PROVE [s EXCEPT ![Len(s)] = f] \in Seq(Frame)
  <2>. DEFINE n == Len(s)
  <2>1. n \in Nat /\ s \in [1..n -> Frame]
    BY <1>1
  <2>2. [s EXCEPT ![n] = f] \in [1..n -> Frame]
    BY <2>1
  <2>. QED  BY <2>1, <2>2
<1>6. ASSUME s # <<>>, NEW f \in Frame, NEW g \in Frame
      PROVE  Append([s EXCEPT ![Len(s)] = f], g) \in Seq(Frame)
  BY <1>5, <1>6
<1>. HIDE DEF s
<1>7. /\ s # <<>> => /\ Return(t) \in [Task -> Seq(Frame)]
                     /\ \A f \in Frame : Goto(t, f) \in [Task -> Seq(Frame)]
                     /\ \A f, g \in Frame : GotoPush(t, f, g) \in [Task -> Seq(Frame)]
      /\ \A f \in Frame : Push(t, f) \in [Task -> Seq(Frame)]
  BY <1>3, <1>4, <1>5, <1>6 DEF Return, Goto, GotoPush, Push, s
<1>. QED  BY <1>2, <1>7 DEF Top, s

(***************************************************************************)
(* Type correctness.                                                       *)
(***************************************************************************)

\* A KeyError leaves the task variables well typed.
LEMMA RaiseType ==
    ASSUME TypeOK, NEW t \in Task, Raise(t)
    PROVE  /\ stack' \in [Task -> Seq(Frame)]
           /\ beat' \in [at: {"sleep", "sweep", "reap"}, c: {NoTask}, todo: SUBSET Conn, dead: SUBSET Conn]
                       \cup [at: {"send"}, c: Conn, todo: SUBSET Conn, dead: SUBSET Conn]
           /\ pc' \in [Conn -> EndpointState]
           /\ loop' \in Task \cup {NoTask}
<1>1. stack' \in [Task -> Seq(Frame)]
  BY DEF TypeOK, Raise
<1>2. CASE t = Heartbeat
  BY <1>1, <1>2 DEF TypeOK, Raise, Asleep, Suspend
<1>3. CASE t # Heartbeat
  <2>1. t \in Conn /\ pc[t] \in EndpointState /\ pc \in [Conn -> EndpointState]
    BY <1>3 DEF TypeOK, Task
  <2>2. PICK s : s \in {"fatal", "final", "done"} /\ pc' = [pc EXCEPT ![t] = s]
    BY <1>3 DEF Raise
  <2>3. pc' \in [Conn -> EndpointState]
    BY <2>1, <2>2 DEF EndpointState
  <2>4. loop' \in Task \cup {NoTask} /\ UNCHANGED beat
    BY <1>3 DEF Raise
  <2>. QED  BY <1>1, <2>3, <2>4 DEF TypeOK
<1>. QED  BY <1>2, <1>3

\* Every step of the disconnect code keeps the types.
LEMMA DisconnectType ==
    ASSUME TypeOK, CountMatches, NEW t \in Task, DisconnectStep(t)
    PROVE  TypeOK'
<1>. USE DEF TypeOK
<1>. DEFINE f == Top(t)
<1>1. stack[t] # <<>>
  BY DEF DisconnectStep, DisconnectUnknown, DisconnectNotify, DisconnectUser, DisconnectRoom,
         DisconnectClose, DisconnectUnregister, DisconnectStored, Active
<1>2. f \in DisconnectFrame
  <2>1. f \in Frame /\ f.op = "disconnect"
    BY <1>1, StackTypes
       DEF DisconnectStep, DisconnectUnknown, DisconnectNotify, DisconnectUser, DisconnectRoom,
           DisconnectClose, DisconnectUnregister, DisconnectStored, Active
  <2>. QED  BY <2>1 DEF Frame, DisconnectFrame, LeaveFrame, TellFrame, SubscribeFrame
<1>3. /\ Return(t) \in [Task -> Seq(Frame)]
      /\ \A g \in Frame : Goto(t, g) \in [Task -> Seq(Frame)]
      /\ \A g, h \in Frame : GotoPush(t, g, h) \in [Task -> Seq(Frame)]
  BY <1>1, StackTypes
<1>4. \A s \in {"call", "quiet", "notify", "rooms", "close", "db"} : [f EXCEPT !.at = s] \in Frame
  BY <1>2 DEF Frame, DisconnectFrame
<1>5. CASE DisconnectUnknown(t)
  BY <1>3, <1>5 DEF DisconnectUnknown, GoOn, registry, roomVars, extern
<1>6. CASE DisconnectNotify(t)
  BY <1>3, <1>4, <1>6 DEF DisconnectNotify, Suspend, registry, roomVars, extern
<1>7. CASE DisconnectUser(t)
  <2>1. [f EXCEPT !.at = "rooms", !.todo = roomKeys] \in Frame
    BY <1>2 DEF Frame, DisconnectFrame
  <2>2. userConns' \in [User -> SUBSET Conn]
    BY <1>7 DEF DisconnectUser
  <2>. QED  BY <1>3, <1>7, <2>1, <2>2 DEF DisconnectUser, GoOn, roomVars, extern
<1>8. CASE DisconnectRoom(t)
  <2>1. PICK r \in f.todo :
          LET rest == [f EXCEPT !.todo = @ \ {r}] IN
          \/ r \notin roomKeys /\ Raise(t) /\ UNCHANGED roomVars
          \/ /\ r \in roomKeys /\ f.c \notin rooms[r]
             /\ stack' = Goto(t, rest) /\ GoOn(t)
             /\ UNCHANGED <<roomVars, pc, beat>>
          \/ /\ r \in roomKeys /\ f.c \in rooms[r]
             /\ LeaveRoom(f.c, r)
             /\ stack' = GotoPush(t, rest, Leaving(f.c, r)) /\ Suspend
             /\ UNCHANGED <<pc, beat>>
    BY <1>8 DEF DisconnectRoom
  <2>2. r \in Room /\ f.c \in Conn
    BY <1>2 DEF DisconnectFrame
  <2>3. [f EXCEPT !.todo = @ \ {r}] \in Frame
    BY <1>2 DEF Frame, DisconnectFrame
  <2>4. Leaving(f.c, r) \in Frame
    BY <2>2 DEF Frame, LeaveFrame, Leaving
  <2>5. UNCHANGED <<registry, extern>>
    BY <1>8 DEF DisconnectRoom
  <2>6. CASE Raise(t) /\ UNCHANGED roomVars
    BY <2>5, <2>6, RaiseType DEF registry, extern, roomVars
  <2>7. CASE stack' = Goto(t, [f EXCEPT !.todo = @ \ {r}]) /\ GoOn(t) /\ UNCHANGED <<roomVars, pc, beat>>
    BY <1>3, <2>3, <2>5, <2>7 DEF GoOn, registry, extern, roomVars
  <2>8. CASE /\ LeaveRoom(f.c, r)
             /\ stack' = GotoPush(t, [f EXCEPT !.todo = @ \ {r}], Leaving(f.c, r)) /\ Suspend
             /\ UNCHANGED <<pc, beat>>
    BY <1>3, <2>2, <2>3, <2>4, <2>5, <2>8 DEF LeaveRoom, Suspend, registry, extern
  <2>. QED  BY <2>1, <2>6, <2>7, <2>8
<1>9. CASE DisconnectClose(t)
  <2>1. CASE Raise(t)
    BY <1>9, <2>1, RaiseType DEF DisconnectClose, registry, roomVars, extern
  <2>2. CASE stack' = Goto(t, [f EXCEPT !.at = "close"]) /\ Suspend /\ UNCHANGED <<pc, beat>>
    <3>1. stack' \in [Task -> Seq(Frame)]
      BY <1>3, <1>4, <2>2
    <3>2. loop' \in Task \cup {NoTask}
      BY <2>2 DEF Suspend
    <3>. QED  BY <1>9, <2>2, <3>1, <3>2 DEF DisconnectClose, registry, roomVars, extern
  <2>. QED  BY <1>9, <2>1, <2>2 DEF DisconnectClose
<1>10. CASE DisconnectUnregister(t)
  <2>1. f.c \in Conn
    BY <1>2 DEF DisconnectFrame
  <2>2. socket' \in [Conn -> {"open", "closed"}]
    BY <1>10 DEF DisconnectUnregister
  <2>3. CASE f.c \notin conns
    BY <1>10, <2>2, <2>3, RaiseType DEF DisconnectUnregister, registry, roomVars
  <2>4. CASE f.c \in conns
    <3>1. IsFiniteSet(conns)
      BY ConnAssumption, FS_Subset
    <3>2. Cardinality(conns) \in Nat /\ Cardinality(conns) # 0
      BY <2>4, <3>1, FS_CardinalityType, FS_EmptySet
    <3>3. count - 1 \in Nat
      BY <3>2 DEF CountMatches
    <3>4. /\ conns' = conns \ {f.c} /\ count' = count - 1
          /\ stack' = Goto(t, [f EXCEPT !.at = "db"]) /\ loop' = NoTask
          /\ UNCHANGED <<userConns, rooms, roomKeys, redis, dbRow, client, pc, beat>>
      BY <1>10, <2>4 DEF DisconnectUnregister, Suspend, roomVars
    <3>5. stack' \in [Task -> Seq(Frame)]
      BY <1>3, <1>4, <3>4
    <3>. QED  BY <2>2, <3>3, <3>4, <3>5
  <2>. QED  BY <2>3, <2>4
<1>11. CASE DisconnectStored(t)
  <2>1. dbRow' \in [Conn -> {"none", "open", "closed"}]
    <3>1. CASE UNCHANGED dbRow
      BY <3>1
    <3>2. CASE dbRow' = [dbRow EXCEPT ![f.c] = IF @ = "open" THEN "closed" ELSE @]
      <4>1. f.c \in Conn
        BY <1>2 DEF DisconnectFrame
      <4>. QED  BY <3>2, <4>1
    <3>. QED  BY <1>11, <3>1, <3>2 DEF DisconnectStored
  <2>. QED  BY <1>3, <1>11, <2>1 DEF DisconnectStored, GoOn, registry, roomVars
<1>. QED  BY <1>5, <1>6, <1>7, <1>8, <1>9, <1>10, <1>11 DEF DisconnectStep

\* Every step of the room code keeps the types.
LEMMA RoomType ==
    ASSUME TypeOK, NEW t \in Task, RoomStep(t)
    PROVE  TypeOK'
<1>. USE DEF TypeOK
<1>. DEFINE f == Top(t)
<1>1. stack[t] # <<>>
  BY DEF RoomStep, LeaveCached, TellNext, TellSent, TellDone, SubscribeCached, SubscribeConfirm,
         SubscribeConfirmed, Active
<1>2. f \in Frame
  BY <1>1, StackTypes
<1>3. /\ Return(t) \in [Task -> Seq(Frame)]
      /\ \A g \in Frame : Goto(t, g) \in [Task -> Seq(Frame)]
      /\ \A g, h \in Frame : GotoPush(t, g, h) \in [Task -> Seq(Frame)]
  BY <1>1, StackTypes
<1>4. \A M \in SUBSET Conn : Telling(M) \in Frame
  BY DEF Telling, Frame, TellFrame
<1>5. \A c \in Conn : Disconnect(c, "quiet") \in Frame
  BY DEF Disconnect, Frame, DisconnectFrame
<1>6. CASE LeaveCached(t)
  <2>1. f \in LeaveFrame
    BY <1>2, <1>6 DEF LeaveCached, Active, Frame, DisconnectFrame, LeaveFrame, TellFrame, SubscribeFrame
  <2>2. f.c \in Conn /\ f.r \in Room
    BY <2>1 DEF LeaveFrame
  <2>3. redis' \in [Room -> SUBSET Conn]
    BY <1>6, <2>2 DEF LeaveCached
  <2>4. stack' \in [Task -> Seq(Frame)]
    <3>1. rooms[f.r] \in SUBSET Conn
      BY <2>2
    <3>. QED  BY <1>3, <1>4, <1>6, <3>1 DEF LeaveCached
  <2>. QED  BY <1>6, <2>3, <2>4 DEF LeaveCached, GoOn, registry, roomVars
<1>7. CASE TellNext(t)
  <2>1. f \in TellFrame /\ f.at = "each"
    BY <1>2, <1>7 DEF TellNext, Active, Frame, DisconnectFrame, LeaveFrame, TellFrame, SubscribeFrame
  <2>2. PICK m \in f.todo :
           \/ stack' = Goto(t, [f EXCEPT !.todo = @ \ {m}]) /\ GoOn(t)
           \/ stack' = Goto(t, [f EXCEPT !.todo = @ \ {m}, !.c = m, !.at = "send"]) /\ Suspend
    BY <1>7 DEF TellNext
  <2>3. /\ [f EXCEPT !.todo = @ \ {m}] \in Frame
        /\ [f EXCEPT !.todo = @ \ {m}, !.c = m, !.at = "send"] \in Frame
    <3>1. /\ f \in [op: {"tell"}, at: {"each"}, c: {NoTask}, r: {NoTask}, todo: SUBSET Conn]
          /\ m \in Conn
      BY <2>1, <2>2 DEF TellFrame
    <3>2. [f EXCEPT !.todo = @ \ {m}] \in TellFrame
      BY <3>1 DEF TellFrame
    <3>3. [f EXCEPT !.todo = @ \ {m}, !.c = m, !.at = "send"] \in TellFrame
      BY <3>1 DEF TellFrame
    <3>. QED  BY <3>2, <3>3 DEF Frame
  <2>4. stack' \in [Task -> Seq(Frame)] /\ loop' \in Task \cup {NoTask}
    BY <1>3, <2>2, <2>3 DEF GoOn, Suspend
  <2>. QED  BY <1>7, <2>4 DEF TellNext, registry, roomVars, extern
<1>8. CASE TellSent(t)
  <2>1. f \in TellFrame /\ f.at = "send"
    BY <1>2, <1>8 DEF TellSent, Active, Frame, DisconnectFrame, LeaveFrame, TellFrame, SubscribeFrame
  <2>2. f.c \in Conn /\ f.todo \in SUBSET Conn
    BY <2>1 DEF TellFrame
  <2>3. stack' \in [Task -> Seq(Frame)]
    <3>1. \/ stack' = Goto(t, Telling(f.todo))
          \/ stack' = GotoPush(t, Telling(f.todo), Disconnect(f.c, "quiet"))
      BY <1>8 DEF TellSent
    <3>2. Telling(f.todo) \in Frame /\ Disconnect(f.c, "quiet") \in Frame
      BY <1>4, <1>5, <2>2
    <3>. QED  BY <1>3, <3>1, <3>2
  <2>. QED  BY <1>8, <2>3 DEF TellSent, GoOn, registry, roomVars, extern
<1>9. CASE TellDone(t)
  BY <1>3, <1>9 DEF TellDone, GoOn, registry, roomVars, extern
<1>10. CASE SubscribeCached(t)
  <2>1. f \in SubscribeFrame
    BY <1>2, <1>10 DEF SubscribeCached, Active, Frame, DisconnectFrame, LeaveFrame, TellFrame, SubscribeFrame
  <2>2. f.c \in Conn /\ f.r \in Room
    BY <2>1 DEF SubscribeFrame
  <2>3. [f EXCEPT !.at = "joined"] \in Frame /\ Telling(rooms[f.r] \ {f.c}) \in Frame
    BY <1>4, <2>1, <2>2 DEF Frame, SubscribeFrame
  <2>4. redis' \in [Room -> SUBSET Conn] /\ rooms' \in [Room -> SUBSET Conn]
    <3>1. redis' = redis \/ redis' = [redis EXCEPT ![f.r] = @ \cup {f.c}]
      BY <1>10 DEF SubscribeCached
    <3>2. rooms' = rooms \/ rooms' = [rooms EXCEPT ![f.r] = @ \ {f.c}]
      BY <1>10 DEF SubscribeCached
    <3>3. redis' \in [Room -> SUBSET Conn]
      BY <2>2, <3>1
    <3>4. rooms' \in [Room -> SUBSET Conn]
      BY <2>2, <3>2
    <3>. QED  BY <3>3, <3>4
  <2>5. UNCHANGED <<registry, roomKeys, dbRow, socket, client>>
    BY <1>10 DEF SubscribeCached
  <2>6. CASE Raise(t)
    BY <2>4, <2>5, <2>6, RaiseType DEF registry
  <2>7. CASE ~Raise(t)
    <3>1. /\ stack' \in {Return(t), GotoPush(t, [f EXCEPT !.at = "joined"], Telling(rooms[f.r] \ {f.c}))}
          /\ loop' = t /\ UNCHANGED <<pc, beat>>
      BY <1>10, <2>7 DEF SubscribeCached, GoOn
    <3>2. stack' \in [Task -> Seq(Frame)]
      BY <1>3, <2>3, <3>1
    <3>. QED  BY <2>4, <2>5, <3>1, <3>2 DEF registry
  <2>. QED  BY <2>6, <2>7
<1>11. CASE SubscribeConfirm(t)
  <2>1. f \in SubscribeFrame
    BY <1>2, <1>11 DEF SubscribeConfirm, Active, Frame, DisconnectFrame, LeaveFrame, TellFrame, SubscribeFrame
  <2>2. [f EXCEPT !.at = "confirm"] \in Frame
    BY <2>1 DEF Frame, SubscribeFrame
  <2>3. stack' \in [Task -> Seq(Frame)] /\ loop' \in Task \cup {NoTask}
    BY <1>3, <1>11, <2>2 DEF SubscribeConfirm, GoOn, Suspend
  <2>. QED  BY <1>11, <2>3 DEF SubscribeConfirm, registry, roomVars, extern
<1>12. CASE SubscribeConfirmed(t)
  <2>1. f \in SubscribeFrame
    BY <1>2, <1>12 DEF SubscribeConfirmed, Active, Frame, DisconnectFrame, LeaveFrame, TellFrame, SubscribeFrame
  <2>2. f.c \in Conn
    BY <2>1 DEF SubscribeFrame
  <2>3. stack' \in [Task -> Seq(Frame)]
    BY <1>3, <1>5, <1>12, <2>2 DEF SubscribeConfirmed
  <2>. QED  BY <1>12, <2>3 DEF SubscribeConfirmed, GoOn, registry, roomVars, extern
<1>. QED  BY <1>6, <1>7, <1>8, <1>9, <1>10, <1>11, <1>12 DEF RoomStep

\* Every step of an endpoint task, and every message it receives, keeps the types.
LEMMA EndpointType ==
    ASSUME TypeOK, NEW c \in Conn, EndpointStep(c) \/ Message(c)
    PROVE  TypeOK'
<1>. USE DEF TypeOK
<1>1. c \in Task
  BY DEF Task
<1>2. \A f \in Frame : Push(c, f) \in [Task -> Seq(Frame)]
  BY <1>1, StackTypes
<1>3. Disconnect(c, "quiet") \in Frame /\ Disconnect(c, "call") \in Frame
  BY DEF Disconnect, Frame, DisconnectFrame
<1>. DEFINE At(s) == [pc EXCEPT ![c] = s]
<1>a. \A s \in EndpointState : At(s) \in [Conn -> EndpointState]
  OBVIOUS
<1>b. {"new", "accept", "store", "welcome", "refused", "serve", "reply", "fatal", "lastwords",
       "final", "closing", "done"} \subseteq EndpointState
  BY DEF EndpointState
<1>4. CASE Connect(c)
  BY <1>4 DEF Connect, EndpointState, registry, roomVars, extern
<1>5. CASE Accepted(c)
  <2>1. UserOf[c] \in User
    BY UserAssumption
  <2>2. /\ conns' \subseteq Conn /\ count' \in Nat /\ userConns' \in [User -> SUBSET Conn]
    <3>1. \/ /\ conns' = conns \cup {c} /\ count' = count + 1
             /\ userConns' = [userConns EXCEPT ![UserOf[c]] = userConns[UserOf[c]] \cup {c}]
          \/ UNCHANGED registry
      BY <1>5 DEF Accepted
    <3>2. userConns[UserOf[c]] \cup {c} \in SUBSET Conn
      BY <2>1
    <3>3. CASE UNCHANGED registry
      BY <3>3 DEF registry
    <3>4. CASE userConns' = [userConns EXCEPT ![UserOf[c]] = userConns[UserOf[c]] \cup {c}]
               /\ conns' = conns \cup {c} /\ count' = count + 1
      <4>1. userConns' \in [User -> SUBSET Conn]
        BY <3>2, <3>4
      <4>. QED  BY <3>4, <4>1
    <3>. QED  BY <3>1, <3>3, <3>4
  <2>3. pc' \in [Conn -> EndpointState]
    <3>1. pc' = At("store") \/ pc' = At("done")
      BY <1>5 DEF Accepted
    <3>. QED  BY <1>a, <1>b, <3>1
  <2>. QED  BY <1>5, <2>2, <2>3 DEF Accepted, roomVars, extern
<1>6. CASE Stored(c)
  <2>1. /\ dbRow' \in [Conn -> {"none", "open", "closed"}]
        /\ pc' \in [Conn -> EndpointState] /\ socket' \in [Conn -> {"open", "closed"}]
    <3>1. pc' = At("welcome") \/ pc' = At("done")
      BY <1>6 DEF Stored
    <3>2. pc' \in [Conn -> EndpointState]
      BY <1>a, <1>b, <3>1
    <3>3. dbRow' = dbRow \/ dbRow' = [dbRow EXCEPT ![c] = "open"]
      BY <1>6 DEF Stored
    <3>4. dbRow' \in [Conn -> {"none", "open", "closed"}]
      BY <3>3
    <3>5. socket' = socket \/ socket' = [socket EXCEPT ![c] = "closed"]
      BY <1>6 DEF Stored
    <3>6. socket' \in [Conn -> {"open", "closed"}]
      BY <3>5
    <3>. QED  BY <3>2, <3>4, <3>6
  <2>. QED  BY <1>6, <2>1 DEF Stored, registry, roomVars
<1>7. CASE Welcomed(c)
  <2>1. stack' \in [Task -> Seq(Frame)] /\ loop' \in Task \cup {NoTask}
    <3>. DEFINE F == Disconnect(c, "call")  T == Disconnect(c, "quiet")
    <3>. HIDE DEF F, T
    <3>1. <<F, T>> \in Seq(Frame)
      BY <1>3 DEF F, T
    <3>2. \/ UNCHANGED <<stack, loop>>
          \/ stack' = [stack EXCEPT ![c] = <<F, T>>] /\ loop' = c
      BY <1>7 DEF Welcomed, GoOn, F, T
    <3>. QED  BY <1>1, <3>1, <3>2
  <2>2. pc' \in [Conn -> EndpointState]
    <3>1. pc' = At("serve") \/ pc' = At("refused")
      BY <1>7 DEF Welcomed
    <3>. QED  BY <1>a, <1>b, <3>1
  <2>. QED  BY <1>7, <2>1, <2>2 DEF Welcomed, registry, roomVars, extern
<1>8. CASE Refused(c)
  BY <1>8 DEF Refused, EndpointState, Suspend, registry, roomVars
<1>9. CASE Replied(c)
  BY <1>1, <1>2, <1>3, <1>9 DEF Replied, EndpointState, GoOn, registry, roomVars, extern
<1>10. CASE AwaitMessage(c)
  BY <1>10 DEF AwaitMessage, Suspend, registry, roomVars, extern
<1>11. CASE HangUp(c)
  BY <1>11 DEF HangUp, EndpointState, registry, roomVars, extern
<1>12. CASE Fatal(c)
  <2>1. pc' = At("final") \/ pc' = At("lastwords")
    BY <1>12 DEF Fatal
  <2>2. pc' \in [Conn -> EndpointState]
    BY <1>a, <1>b, <2>1
  <2>. QED  BY <1>12, <2>2 DEF Fatal, Suspend, registry, roomVars, extern
<1>13. CASE FatalSent(c)
  BY <1>1, <1>2, <1>3, <1>13 DEF FatalSent, EndpointState, GoOn, registry, roomVars, extern
<1>14. CASE Cleanup(c)
  <2>1. pc' = At("closing") \/ pc' = At("done")
    BY <1>14 DEF Cleanup
  <2>2. pc' \in [Conn -> EndpointState]
    BY <1>a, <1>b, <2>1
  <2>3. stack' \in [Task -> Seq(Frame)] /\ loop' \in Task \cup {NoTask}
    BY <1>1, <1>2, <1>3, <1>14 DEF Cleanup, GoOn, Suspend
  <2>. QED  BY <1>14, <2>2, <2>3 DEF Cleanup, registry, roomVars, extern
<1>15. CASE Closed(c)
  BY <1>15 DEF Closed, EndpointState, Suspend, registry, roomVars, extern
<1>16. CASE Reply(c)
  BY <1>16 DEF Reply, EndpointState, registry, roomVars, extern
<1>17. ASSUME NEW r \in Room, Subscribe(c, r) PROVE TypeOK'
  <2>1. [op |-> "subscribe", at |-> "sadd", c |-> c, r |-> r, todo |-> {}] \in Frame
    BY DEF Frame, SubscribeFrame
  <2>2. stack' \in [Task -> Seq(Frame)]
    BY <1>2, <1>17, <2>1 DEF Subscribe
  <2>3. rooms' \in [Room -> SUBSET Conn] /\ roomKeys' \subseteq Room
    BY <1>17 DEF Subscribe
  <2>. QED  BY <1>17, <2>2, <2>3 DEF Subscribe, registry, extern
<1>18. ASSUME NEW r \in Room, Unsubscribe(c, r) PROVE TypeOK'
  <2>1. Leaving(c, r) \in Frame
    BY DEF Leaving, Frame, LeaveFrame
  <2>2. stack' \in [Task -> Seq(Frame)]
    BY <1>2, <1>18, <2>1 DEF Unsubscribe
  <2>3. rooms' \in [Room -> SUBSET Conn] /\ roomKeys' \subseteq Room
    BY <1>18 DEF Unsubscribe, LeaveRoom
  <2>. QED  BY <1>18, <2>2, <2>3 DEF Unsubscribe, registry, extern
<1>. QED
  BY <1>4, <1>5, <1>6, <1>7, <1>8, <1>9, <1>10, <1>11, <1>12, <1>13, <1>14, <1>15, <1>16, <1>17, <1>18
     DEF EndpointStep, Message

\* Every step of the heartbeat keeps the types.
LEMMA BeatType ==
    ASSUME TypeOK, BeatStep
    PROVE  TypeOK'
<1>. USE DEF TypeOK
<1>. DEFINE Beats == [at: {"sleep", "sweep", "reap"}, c: {NoTask}, todo: SUBSET Conn, dead: SUBSET Conn]
                     \cup [at: {"send"}, c: Conn, todo: SUBSET Conn, dead: SUBSET Conn]
<1>1. Heartbeat \in Task
  BY DEF Task
<1>2. \A f \in Frame : Push(Heartbeat, f) \in [Task -> Seq(Frame)]
  BY <1>1, StackTypes
<1>3. \A c \in Conn : Disconnect(c, "quiet") \in Frame /\ Disconnect(c, "call") \in Frame
  BY DEF Disconnect, Frame, DisconnectFrame
<1>4. beat.todo \in SUBSET Conn /\ beat.dead \in SUBSET Conn
  OBVIOUS
<1>5. CASE BeatWakes
  <2>1. PICK dead \in SUBSET conns : BeatFinds(dead)
    BY <1>5 DEF BeatWakes
  <2>2. beat' \in Beats
    BY <2>1 DEF BeatFinds
  <2>. QED  BY <1>1, <2>1, <2>2 DEF BeatFinds, GoOn, registry, roomVars, extern
<1>6. CASE BeatNext
  <2>1. PICK c \in beat.todo :
          \/ beat' = [beat EXCEPT !.todo = @ \ {c}] /\ GoOn(Heartbeat)
          \/ beat' = [beat EXCEPT !.todo = @ \ {c}, !.at = "send", !.c = c] /\ Suspend
    BY <1>6 DEF BeatNext
  <2>2. beat \in [at: {"sweep"}, c: {NoTask}, todo: SUBSET Conn, dead: SUBSET Conn]
    BY <1>6 DEF BeatNext, BeatIdle
  <2>3. [beat EXCEPT !.todo = @ \ {c}] \in Beats
    BY <2>2
  <2>4. [beat EXCEPT !.todo = @ \ {c}, !.at = "send", !.c = c] \in Beats
    BY <1>4, <2>2
  <2>. QED  BY <1>1, <1>6, <2>1, <2>3, <2>4 DEF BeatNext, GoOn, Suspend, registry, roomVars, extern
<1>7. CASE BeatSent
  <2>1. beat \in [at: {"send"}, c: Conn, todo: SUBSET Conn, dead: SUBSET Conn]
    BY <1>7 DEF BeatSent
  <2>2. [beat EXCEPT !.at = "sweep", !.c = NoTask] \in Beats
    BY <2>1
  <2>3. stack' \in [Task -> Seq(Frame)]
    BY <1>2, <1>3, <1>7, <2>1 DEF BeatSent
  <2>. QED  BY <1>1, <1>7, <2>2, <2>3 DEF BeatSent, GoOn, registry, roomVars, extern
<1>8. CASE BeatSwept
  BY <1>8 DEF BeatSwept, BeatIdle, registry, roomVars, extern
<1>9. CASE BeatReaps
  <2>1. PICK c \in beat.dead : /\ beat' = [beat EXCEPT !.dead = @ \ {c}]
                              /\ stack' = Push(Heartbeat, Disconnect(c, "call"))
    BY <1>9 DEF BeatReaps
  <2>2. beat' \in Beats /\ stack' \in [Task -> Seq(Frame)]
    BY <1>2, <1>3, <1>4, <2>1
  <2>. QED  BY <1>9, <2>2 DEF BeatReaps, registry, roomVars, extern
<1>10. CASE BeatSleeps
  BY <1>10 DEF BeatSleeps, BeatIdle, Suspend, registry, roomVars, extern
<1>. QED  BY <1>5, <1>6, <1>7, <1>8, <1>9, <1>10 DEF BeatStep

\* Initially, and after every step, the types are right; the counter matters
\* because it is decremented.
LEMMA InitType == Init => TypeOK
<1>. SUFFICES ASSUME Init PROVE TypeOK
  OBVIOUS
<1>1. stack \in [Task -> Seq(Frame)]
  BY DEF Init
<1>2. Asleep \in [at: {"sleep", "sweep", "reap"}, c: {NoTask}, todo: SUBSET Conn, dead: SUBSET Conn]
  BY DEF Asleep
<1>. QED  BY <1>1, <1>2 DEF Init, TypeOK, EndpointState

LEMMA NextType == TypeOK /\ CountMatches /\ [Next]_vars => TypeOK'
<1>. SUFFICES ASSUME TypeOK, CountMatches, [Next]_vars PROVE TypeOK'
  OBVIOUS
<1>1. CASE UNCHANGED vars
  BY <1>1 DEF vars, registry, roomVars, extern, tasks, TypeOK
<1>2. ASSUME NEW t \in Task, CallStep(t) PROVE TypeOK'
  BY <1>2, DisconnectType, RoomType DEF CallStep
<1>3. ASSUME NEW c \in Conn, EndpointStep(c) \/ Message(c) PROVE TypeOK'
  BY <1>3, EndpointType
<1>4. ASSUME NEW c \in Conn, ClientLeaves(c) PROVE TypeOK'
  BY <1>4 DEF ClientLeaves, registry, roomVars, tasks, TypeOK
<1>. QED  BY <1>1, <1>2, <1>3, <1>4, BeatType DEF Next

(***************************************************************************)
(* The registry invariant.                                                 *)
(***************************************************************************)

\* Every frame of the next state is in F or was on its stack, in its place.
NewFrames(F) ==
    \A s \in Task : \A i \in 1..Len(stack'[s]) :
        \/ stack'[s][i] \in F
        \/ i \in 1..Len(stack[s]) /\ stack'[s][i] = stack[s][i]

\* What each operation on a call stack adds to it.
LEMMA StackFrames ==
    ASSUME stack \in [Task -> Seq(Frame)], NEW t \in Task
    PROVE  /\ UNCHANGED stack => NewFrames({})
           /\ stack' = [stack EXCEPT ![t] = <<>>] => NewFrames({})
           /\ \A f \in Frame : stack' = Push(t, f) => NewFrames({f})
           /\ stack[t] # <<>> =>
                /\ stack' = Return(t) => NewFrames({})
                /\ \A f \in Frame : stack' = Goto(t, f) => NewFrames({f})
                /\ \A f, g \in Frame : stack' = GotoPush(t, f, g) => NewFrames({f, g})
<1>. DEFINE s == stack[t]
<1>1. s \in Seq(Frame) /\ Len(s) \in Nat
  OBVIOUS
<1>2. UNCHANGED stack => NewFrames({})
  BY DEF NewFrames
<1>3. stack' = [stack EXCEPT ![t] = <<>>] => NewFrames({})
  BY DEF NewFrames
<1>4. ASSUME NEW f \in Frame, stack' = Push(t, f) PROVE NewFrames({f})
  <2>1. stack' = [stack EXCEPT ![t] = Append(s, f)]
    BY <1>4 DEF Push
  <2>2. \A i \in 1..Len(Append(s, f)) : Append(s, f)[i] = f \/ (i \in 1..Len(s) /\ Append(s, f)[i] = s[i])
    BY <1>1
  <2>. QED  BY <2>1, <2>2 DEF NewFrames
<1>5. ASSUME s # <<>>, stack' = Return(t) PROVE NewFrames({})
  <2>1. stack' = [stack EXCEPT ![t] = SubSeq(s, 1, Len(s) - 1)]
    BY <1>5 DEF Return
  <2>2. \A i \in 1..Len(SubSeq(s, 1, Len(s) - 1)) : i \in 1..Len(s) /\ SubSeq(s, 1, Len(s) - 1)[i] = s[i]
    BY <1>1, <1>5
  <2>. QED  BY <2>1, <2>2 DEF NewFrames
<1>6. ASSUME s # <<>>, NEW f \in Frame
      PROVE  /\ [s EXCEPT ![Len(s)] = f] \in Seq(Frame)
             /\ Len([s EXCEPT ![Len(s)] = f]) = Len(s)
             /\ \A i \in 1..Len(s) : [s EXCEPT ![Len(s)] = f][i] \in {f, s[i]}
  <2>. DEFINE n == Len(s)
  <2>1. n \in Nat /\ s \in [1..n -> Frame]
    BY <1>1
  <2>2. [s EXCEPT ![n] = f] \in [1..n -> Frame]
    BY <2>1
  <2>3. \A i \in 1..n : [s EXCEPT ![n] = f][i] \in {f, s[i]}
    BY <2>1
  <2>. QED  BY <2>1, <2>2, <2>3
<1>7. ASSUME s # <<>>, NEW f \in Frame, stack' = Goto(t, f) PROVE NewFrames({f})
  <2>1. stack' = [stack EXCEPT ![t] = [s EXCEPT ![Len(s)] = f]]
    BY <1>7 DEF Goto
  <2>. QED  BY <1>6, <1>7, <2>1 DEF NewFrames
<1>8. ASSUME s # <<>>, NEW f \in Frame, NEW g \in Frame, stack' = GotoPush(t, f, g)
      PROVE  NewFrames({f, g})
  <2>. DEFINE u == [s EXCEPT ![Len(s)] = f]
  <2>1. stack' = [stack EXCEPT ![t] = Append(u, g)]
    BY <1>8 DEF GotoPush
  <2>2. u \in Seq(Frame) /\ Len(u) = Len(s) /\ \A i \in 1..Len(s) : u[i] \in {f, s[i]}
    BY <1>6, <1>8
  <2>. HIDE DEF u
  <2>3. \A i \in 1..Len(Append(u, g)) :
            Append(u, g)[i] \in {f, g} \/ (i \in 1..Len(s) /\ Append(u, g)[i] = s[i])
    BY <1>1, <2>2
  <2>. QED  BY <2>1, <2>3 DEF NewFrames
<1>. QED  BY <1>2, <1>3, <1>4, <1>5, <1>7, <1>8 DEF s

\* A step keeps the invariant when it registers nobody, forgets nobody, puts
\* nobody into the user index, makes nobody new and only adds sound frames.
LEMMA Preserved ==
    ASSUME RegistryInv, TypeOK', UNCHANGED <<conns, count>>,
           \A u \in User : userConns'[u] \subseteq userConns[u],
           \A c \in Conn : IsNew(c)' => IsNew(c),
           NEW F, NewFrames(F), \A f \in F : FrameOK(f)'
    PROVE  RegistryInv'
<1>1. CountMatches'
  BY DEF RegistryInv, CountMatches
<1>2. UserIndexRegistered'
  BY DEF RegistryInv, UserIndexRegistered
<1>3. NewUnregistered'
  BY DEF RegistryInv, NewUnregistered
<1>4. ASSUME NEW t \in Task, NEW i \in 1..Len(stack'[t]) PROVE FrameOK(stack[t][i])'
  <2>1. CASE stack'[t][i] \in F
    BY <2>1
  <2>2. CASE i \in 1..Len(stack[t]) /\ stack'[t][i] = stack[t][i]
    <3>. DEFINE f == stack[t][i]
    <3>1. f \in Frame /\ FrameOK(f)
      <4>1. stack[t] \in Seq(Frame)
        BY DEF RegistryInv, TypeOK
      <4>. QED  BY <2>2, <4>1 DEF RegistryInv, FramesOK
    <3>2. f.op = "disconnect" => f.c \in Conn /\ UserOf[f.c] \in User
      BY <3>1, UserAssumption DEF Frame, DisconnectFrame, LeaveFrame, TellFrame, SubscribeFrame
    <3>. QED  BY <2>2, <3>1, <3>2 DEF FrameOK
  <2>. QED  BY <2>1, <2>2 DEF NewFrames
<1>. QED  BY <1>1, <1>2, <1>3, <1>4 DEF RegistryInv, FramesOK

\* Frames that promise nothing about their connection.
Harmless(f) == f.op = "disconnect" => f.at \in {"call", "quiet", "db"}

LEMMA HarmlessOK ==
    ASSUME NEW f, Harmless(f)
    PROVE  FrameOK(f)'
BY DEF Harmless, FrameOK

\* A KeyError adds no frame and makes no connection new.
LEMMA RaiseQuiet ==
    ASSUME TypeOK, NEW t \in Task, Raise(t)
    PROVE  NewFrames({}) /\ \A c \in Conn : IsNew(c)' => IsNew(c)
<1>1. NewFrames({})
  BY StackFrames DEF TypeOK, Raise
<1>2. CASE t = Heartbeat
  BY <1>1, <1>2 DEF Raise, IsNew
<1>3. CASE t # Heartbeat
  BY <1>1, <1>3 DEF TypeOK, Raise, IsNew
<1>. QED  BY <1>2, <1>3

\* Every step of the disconnect code keeps the registry invariant.
LEMMA DisconnectInv ==
    ASSUME RegistryInv, TypeOK', NEW t \in Task, DisconnectStep(t)
    PROVE  RegistryInv'
<1>. DEFINE f == Top(t)
<1>1. TypeOK /\ stack \in [Task -> Seq(Frame)]
  BY DEF RegistryInv, TypeOK
<1>2. stack[t] # <<>> /\ f.op = "disconnect"
  BY DEF DisconnectStep, DisconnectUnknown, DisconnectNotify, DisconnectUser, DisconnectRoom,
         DisconnectClose, DisconnectUnregister, DisconnectStored, Active
<1>3. f \in DisconnectFrame /\ FrameOK(f)
  <2>1. f \in Frame /\ Len(stack[t]) \in 1..Len(stack[t])
    BY <1>1, <1>2, StackTypes
  <2>2. FrameOK(f)
    BY <2>1 DEF RegistryInv, FramesOK, Top
  <2>. QED  BY <1>2, <2>1, <2>2 DEF Frame, DisconnectFrame, LeaveFrame, TellFrame, SubscribeFrame
<1>4. f.c \in Conn /\ UserOf[f.c] \in User
  BY <1>3, UserAssumption DEF DisconnectFrame
<1>5. /\ \A s \in {"call", "quiet", "notify", "rooms", "close", "db"} : [f EXCEPT !.at = s] \in Frame
      /\ [f EXCEPT !.at = "rooms", !.todo = roomKeys] \in Frame
      /\ \A r \in f.todo : r \in Room /\ [f EXCEPT !.todo = @ \ {r}] \in Frame
      /\ \A r \in Room : Leaving(f.c, r) \in Frame
  BY <1>1, <1>3, <1>4 DEF TypeOK, Frame, DisconnectFrame, LeaveFrame, Leaving
<1>6. /\ stack' = Return(t) => NewFrames({})
      /\ \A g \in Frame : stack' = Goto(t, g) => NewFrames({g})
      /\ \A g, h \in Frame : stack' = GotoPush(t, g, h) => NewFrames({g, h})
  BY <1>1, <1>2, StackFrames
<1>7. CASE DisconnectUnknown(t)
  BY <1>6, <1>7, Preserved DEF DisconnectUnknown, registry, IsNew
<1>8. CASE DisconnectNotify(t)
  <2>1. NewFrames({[f EXCEPT !.at = "notify"]})
    BY <1>5, <1>6, <1>8 DEF DisconnectNotify
  <2>2. FrameOK([f EXCEPT !.at = "notify"])
    BY <1>3, <1>4, <1>8 DEF DisconnectNotify, FrameOK, DisconnectFrame, RegistryInv, NewUnregistered
  <2>3. UNCHANGED <<conns, count, userConns, pc>>
    BY <1>8 DEF DisconnectNotify, registry
  <2>4. \A g : FrameOK(g) => FrameOK(g)'
    BY <2>3 DEF FrameOK, IsNew
  <2>. QED  BY <2>1, <2>2, <2>3, <2>4, Preserved DEF IsNew
<1>9. CASE DisconnectUser(t)
  <2>. DEFINE g == [f EXCEPT !.at = "rooms", !.todo = roomKeys]
  <2>1. NewFrames({g})
    BY <1>5, <1>6, <1>9 DEF DisconnectUser
  <2>2. ~IsNew(f.c)
    BY <1>3, <1>4, <1>9 DEF DisconnectUser, Active, FrameOK, RegistryInv, NewUnregistered
  <2>3. /\ UNCHANGED <<conns, count, pc>>
        /\ userConns' = [userConns EXCEPT ![UserOf[f.c]] = @ \ {f.c}]
    BY <1>9 DEF DisconnectUser
  <2>4. f.c \notin userConns'[UserOf[f.c]] /\ \A u \in User : userConns'[u] \subseteq userConns[u]
    BY <1>1, <1>4, <2>3 DEF TypeOK
  <2>5. g.op = "disconnect" /\ g.c = f.c
    BY <1>3 DEF DisconnectFrame
  <2>. HIDE DEF g
  <2>6. ASSUME NEW h \in {g} PROVE FrameOK(h)'
    BY <2>2, <2>3, <2>4, <2>5, <2>6 DEF FrameOK, IsNew
  <2>. QED  BY <2>1, <2>3, <2>4, <2>6, Preserved DEF IsNew
<1>10. CASE DisconnectRoom(t)
  <2>1. UNCHANGED <<conns, count, userConns>>
    BY <1>10 DEF DisconnectRoom, registry
  <2>2. CASE Raise(t)
    BY <1>1, <2>1, <2>2, RaiseQuiet, Preserved
  <2>3. CASE ~Raise(t)
    <3>1. PICK r \in f.todo :
             \/ stack' = Goto(t, [f EXCEPT !.todo = @ \ {r}])
             \/ stack' = GotoPush(t, [f EXCEPT !.todo = @ \ {r}], Leaving(f.c, r))
      BY <1>10, <2>3 DEF DisconnectRoom
    <3>. DEFINE g == [f EXCEPT !.todo = @ \ {r}]
                F == {g, Leaving(f.c, r)}
    <3>2. NewFrames({g}) \/ NewFrames({g, Leaving(f.c, r)})
      BY <1>5, <1>6, <3>1
    <3>3. NewFrames(F)
      BY <3>2 DEF NewFrames
    <3>4. UNCHANGED pc
      BY <1>10, <2>3 DEF DisconnectRoom
    <3>5. g.op = f.op /\ g.at = f.at /\ g.c = f.c
      BY <1>3 DEF DisconnectFrame
    <3>6. FrameOK(g) /\ FrameOK(Leaving(f.c, r))
      <4>1. FrameOK(Leaving(f.c, r))
        BY DEF FrameOK, Leaving
      <4>. HIDE DEF g
      <4>. QED  BY <1>3, <3>5, <4>1 DEF FrameOK
    <3>7. \A h : FrameOK(h) => FrameOK(h)'
      BY <2>1, <3>4 DEF FrameOK, IsNew
    <3>8. \A c \in Conn : IsNew(c)' => IsNew(c)
      BY <3>4 DEF IsNew
    <3>9. \A h \in F : FrameOK(h)'
      <4>. HIDE DEF g
      <4>. QED  BY <3>6, <3>7
    <3>. HIDE DEF F
    <3>. QED  BY <2>1, <3>3, <3>8, <3>9, Preserved
  <2>. QED  BY <2>2, <2>3
<1>11. CASE DisconnectClose(t)
  <2>1. UNCHANGED <<conns, count, userConns>> /\ f.at = "rooms"
    BY <1>11 DEF DisconnectClose, registry, Active
  <2>2. CASE Raise(t)
    BY <1>1, <2>1, <2>2, RaiseQuiet, Preserved
  <2>3. CASE ~Raise(t)
    <3>. DEFINE g == [f EXCEPT !.at = "close"]
    <3>1. stack' = Goto(t, g) /\ UNCHANGED pc
      BY <1>11, <2>3 DEF DisconnectClose
    <3>2. NewFrames({g})
      BY <1>5, <1>6, <3>1
    <3>3. FrameOK(g)
      BY <1>3, <2>1 DEF DisconnectFrame, FrameOK
    <3>4. \A h : FrameOK(h) => FrameOK(h)'
      BY <2>1, <3>1 DEF FrameOK, IsNew
    <3>. QED  BY <2>1, <3>1, <3>2, <3>3, <3>4, Preserved DEF IsNew
  <2>. QED  BY <2>2, <2>3
<1>12. CASE DisconnectUnregister(t)
  <2>1. f.at = "close" /\ UNCHANGED userConns
    BY <1>12 DEF DisconnectUnregister, Active, registry
  <2>2. CASE f.c \notin conns
    BY <1>1, <1>12, <2>2, RaiseQuiet, Preserved DEF DisconnectUnregister, registry
  <2>3. CASE f.c \in conns
    <3>. DEFINE g == [f EXCEPT !.at = "db"]
    <3>1. /\ conns' = conns \ {f.c} /\ count' = count - 1
          /\ stack' = Goto(t, g) /\ UNCHANGED <<userConns, pc>>
      BY <1>12, <2>3 DEF DisconnectUnregister
    <3>2. CountMatches'
      <4>1. IsFiniteSet(conns)
        BY <1>1, ConnAssumption, FS_Subset DEF TypeOK
      <4>2. Cardinality(conns \ {f.c}) = Cardinality(conns) - 1
        BY <2>3, <4>1, FS_RemoveElement
      <4>. QED  BY <3>1, <4>2 DEF RegistryInv, CountMatches
    <3>3. UserIndexRegistered'
      <4>1. f.c \notin userConns[UserOf[f.c]]
        BY <1>2, <1>3, <2>1 DEF FrameOK
      <4>. QED  BY <3>1, <4>1 DEF RegistryInv, UserIndexRegistered
    <3>4. NewUnregistered'
      BY <3>1 DEF RegistryInv, NewUnregistered, IsNew
    <3>5. FramesOK'
      <4>1. NewFrames({g})
        BY <1>5, <1>6, <3>1
      <4>2. \A h : FrameOK(h) => FrameOK(h)'
        BY <3>1 DEF FrameOK, IsNew
      <4>3. FrameOK(g)
        BY <1>3 DEF DisconnectFrame, FrameOK
      <4>. HIDE DEF g
      <4>. QED  BY <4>1, <4>2, <4>3 DEF RegistryInv, FramesOK, NewFrames
    <3>. QED  BY <3>2, <3>3, <3>4, <3>5 DEF RegistryInv
  <2>. QED  BY <2>2, <2>3
<1>13. CASE DisconnectStored(t)
  BY <1>6, <1>13, Preserved DEF DisconnectStored, registry, IsNew
<1>. QED  BY <1>7, <1>8, <1>9, <1>10, <1>11, <1>12, <1>13 DEF DisconnectStep

\* A step that leaves the registry alone, makes no connection new and adds only
\* harmless frames keeps the registry invariant.
LEMMA HarmlessStep ==
    ASSUME RegistryInv, TypeOK', UNCHANGED registry,
           \A c \in Conn : IsNew(c)' => IsNew(c),
           NEW F, NewFrames(F), \A f \in F : Harmless(f)
    PROVE  RegistryInv'
<1>1. \A f \in F : FrameOK(f)'
  BY HarmlessOK
<1>2. UNCHANGED <<conns, count>> /\ \A u \in User : userConns'[u] \subseteq userConns[u]
  BY DEF registry
<1>. QED  BY <1>1, <1>2, Preserved

\* Every step of the room code keeps the registry invariant.
LEMMA RoomInv ==
    ASSUME RegistryInv, TypeOK', NEW t \in Task, RoomStep(t)
    PROVE  RegistryInv'
<1>. DEFINE f == Top(t)
<1>1. TypeOK /\ stack \in [Task -> Seq(Frame)]
  BY DEF RegistryInv, TypeOK
<1>2. stack[t] # <<>> /\ f.op \in {"leave", "tell", "subscribe"}
  BY DEF RoomStep, LeaveCached, TellNext, TellSent, TellDone, SubscribeCached, SubscribeConfirm,
         SubscribeConfirmed, Active
<1>3. f \in LeaveFrame \cup TellFrame \cup SubscribeFrame
  <2>1. f \in Frame
    BY <1>1, <1>2, StackTypes
  <2>. QED  BY <1>2, <2>1 DEF Frame, DisconnectFrame
<1>4. /\ stack' = Return(t) => NewFrames({})
      /\ \A g \in Frame : stack' = Goto(t, g) => NewFrames({g})
      /\ \A g, h \in Frame : stack' = GotoPush(t, g, h) => NewFrames({g, h})
  BY <1>1, <1>2, StackFrames
<1>5. /\ \A M : Harmless(Telling(M))
      /\ \A c : Harmless(Disconnect(c, "quiet"))
  BY DEF Harmless, Telling, Disconnect
<1>6. /\ \A M \in SUBSET Conn : Telling(M) \in Frame
      /\ \A c \in Conn : Disconnect(c, "quiet") \in Frame
  BY DEF Telling, Disconnect, Frame, TellFrame, DisconnectFrame
<1>7. UNCHANGED registry
  BY DEF RoomStep, LeaveCached, TellNext, TellSent, TellDone, SubscribeCached, SubscribeConfirm,
         SubscribeConfirmed
<1>8. CASE Raise(t)
  BY <1>1, <1>7, <1>8, RaiseQuiet, HarmlessStep
<1>9. ASSUME ~Raise(t) PROVE UNCHANGED pc
  BY <1>9 DEF RoomStep, LeaveCached, TellNext, TellSent, TellDone, SubscribeCached, SubscribeConfirm,
         SubscribeConfirmed
<1>10. ASSUME ~Raise(t), NEW F, NewFrames(F), \A g \in F : Harmless(g) PROVE RegistryInv'
  <2>1. \A c \in Conn : IsNew(c)' => IsNew(c)
    BY <1>9, <1>10 DEF IsNew
  <2>. QED  BY <1>7, <1>10, <2>1, HarmlessStep
<1>11. CASE ~Raise(t) /\ stack' = Return(t)
  BY <1>4, <1>10, <1>11
<1>12. ASSUME ~Raise(t), NEW g \in Frame, Harmless(g), stack' = Goto(t, g) PROVE RegistryInv'
  BY <1>4, <1>10, <1>12
<1>13. ASSUME ~Raise(t), NEW g \in Frame, NEW h \in Frame, Harmless(g), Harmless(h),
              stack' = GotoPush(t, g, h)
       PROVE  RegistryInv'
  <2>1. NewFrames({g, h})
    BY <1>4, <1>13
  <2>. QED  BY <1>10, <1>13, <2>1
<1>14. CASE ~Raise(t) /\ LeaveCached(t)
  <2>1. f.r \in Room
    BY <1>3, <1>14 DEF LeaveCached, Active, LeaveFrame, TellFrame, SubscribeFrame
  <2>2. Telling(rooms[f.r]) \in Frame
    BY <1>1, <1>6, <2>1 DEF TypeOK
  <2>. QED  BY <1>5, <1>11, <1>12, <1>14, <2>2 DEF LeaveCached
<1>15. CASE ~Raise(t) /\ TellNext(t)
  <2>1. f \in [op: {"tell"}, at: {"each"}, c: {NoTask}, r: {NoTask}, todo: SUBSET Conn]
    BY <1>3, <1>15 DEF TellNext, Active, LeaveFrame, TellFrame, SubscribeFrame
  <2>2. PICK m \in f.todo :
           \/ stack' = Goto(t, [f EXCEPT !.todo = @ \ {m}])
           \/ stack' = Goto(t, [f EXCEPT !.todo = @ \ {m}, !.c = m, !.at = "send"])
    BY <1>15 DEF TellNext
  <2>3. m \in Conn
    BY <2>1
  <2>4. [f EXCEPT !.todo = @ \ {m}] \in Frame /\ Harmless([f EXCEPT !.todo = @ \ {m}])
    BY <2>1 DEF Frame, TellFrame, Harmless
  <2>5. /\ [f EXCEPT !.todo = @ \ {m}, !.c = m, !.at = "send"] \in Frame
        /\ Harmless([f EXCEPT !.todo = @ \ {m}, !.c = m, !.at = "send"])
    BY <2>1, <2>3 DEF Frame, TellFrame, Harmless
  <2>. QED  BY <1>12, <1>15, <2>2, <2>4, <2>5
<1>16. CASE ~Raise(t) /\ TellSent(t)
  <2>1. f.c \in Conn /\ f.todo \in SUBSET Conn
    BY <1>3, <1>16 DEF TellSent, Active, LeaveFrame, TellFrame, SubscribeFrame
  <2>2. \/ stack' = Goto(t, Telling(f.todo))
        \/ stack' = GotoPush(t, Telling(f.todo), Disconnect(f.c, "quiet"))
    BY <1>16 DEF TellSent
  <2>. QED  BY <1>5, <1>6, <1>12, <1>13, <1>16, <2>1, <2>2
<1>17. CASE ~Raise(t) /\ TellDone(t)
  BY <1>11, <1>17 DEF TellDone
<1>18. CASE ~Raise(t) /\ SubscribeCached(t)
  <2>1. f \in SubscribeFrame
    BY <1>3, <1>18 DEF SubscribeCached, Active, LeaveFrame, TellFrame
  <2>2. f.c \in Conn /\ f.r \in Room
    BY <2>1 DEF SubscribeFrame
  <2>. DEFINE g == [f EXCEPT !.at = "joined"]
              h == Telling(rooms[f.r] \ {f.c})
  <2>3. g \in Frame /\ Harmless(g)
    BY <2>1 DEF Frame, SubscribeFrame, Harmless
  <2>4. h \in Frame /\ Harmless(h)
    BY <1>1, <1>5, <1>6, <2>2 DEF TypeOK
  <2>5. stack' = Return(t) \/ stack' = GotoPush(t, g, h)
    BY <1>18 DEF SubscribeCached
  <2>. HIDE DEF g, h
  <2>. QED  BY <1>11, <1>13, <1>18, <2>3, <2>4, <2>5
<1>19. CASE ~Raise(t) /\ SubscribeConfirm(t)
  <2>1. f \in SubscribeFrame
    BY <1>3, <1>19 DEF SubscribeConfirm, Active, LeaveFrame, TellFrame
  <2>2. [f EXCEPT !.at = "confirm"] \in Frame /\ Harmless([f EXCEPT !.at = "confirm"])
    BY <2>1 DEF Frame, SubscribeFrame, Harmless
  <2>. QED  BY <1>11, <1>12, <1>19, <2>2 DEF SubscribeConfirm
<1>20. CASE ~Raise(t) /\ SubscribeConfirmed(t)
  <2>1. f.c \in Conn
    BY <1>3, <1>20 DEF SubscribeConfirmed, Active, LeaveFrame, TellFrame, SubscribeFrame
  <2>. QED  BY <1>5, <1>6, <1>11, <1>12, <1>20, <2>1 DEF SubscribeConfirmed
<1>. QED  BY <1>8, <1>14, <1>15, <1>16, <1>17, <1>18, <1>19, <1>20 DEF RoomStep

\* A connection is registered once, when it is new, so nobody is disconnecting it.
LEMMA AcceptedInv ==
    ASSUME RegistryInv, TypeOK', NEW c \in Conn, Accepted(c)
    PROVE  RegistryInv'
<1>1. TypeOK /\ IsNew(c) /\ c \notin conns /\ UserOf[c] \in User
  BY UserAssumption DEF RegistryInv, NewUnregistered, Accepted, IsNew
<1>2. UNCHANGED stack
  BY DEF Accepted
<1>3. \A d \in Conn : IsNew(d)' => IsNew(d) /\ d # c
  BY <1>1 DEF Accepted, IsNew, TypeOK
<1>4. CASE UNCHANGED registry
  <2>1. NewFrames({})
    BY <1>2 DEF NewFrames
  <2>. QED  BY <1>3, <1>4, <2>1, HarmlessStep
<1>5. CASE /\ conns' = conns \cup {c} /\ count' = count + 1
           /\ userConns' = [userConns EXCEPT ![UserOf[c]] = @ \cup {c}]
  <2>1. CountMatches'
    <3>1. IsFiniteSet(conns)
      BY <1>1, ConnAssumption, FS_Subset DEF TypeOK
    <3>2. Cardinality(conns \cup {c}) = Cardinality(conns) + 1
      BY <1>1, <3>1, FS_AddElement
    <3>. QED  BY <1>5, <3>2 DEF RegistryInv, CountMatches
  <2>2. UserIndexRegistered'
    BY <1>1, <1>5 DEF RegistryInv, UserIndexRegistered, TypeOK
  <2>3. NewUnregistered'
    BY <1>3, <1>5 DEF RegistryInv, NewUnregistered
  <2>4. ASSUME NEW t \in Task, NEW i \in 1..Len(stack[t]) PROVE FrameOK(stack[t][i])'
    <3>. DEFINE f == stack[t][i]
    <3>1. f \in Frame /\ FrameOK(f)
      <4>1. stack[t] \in Seq(Frame)
        BY <1>1 DEF TypeOK
      <4>. QED  BY <4>1 DEF RegistryInv, FramesOK
    <3>2. ASSUME f.op = "disconnect" PROVE f.c \in Conn /\ UserOf[f.c] \in User
      BY <3>1, <3>2, UserAssumption DEF Frame, DisconnectFrame, LeaveFrame, TellFrame, SubscribeFrame
    <3>3. ASSUME NEW d \in Conn, ~IsNew(d)
          PROVE  ~IsNew(d)' /\ (d \notin userConns[UserOf[d]] => d \notin userConns'[UserOf[d]])
      BY <1>1, <1>3, <1>5, <3>3 DEF TypeOK
    <3>4. f' = f
      BY <1>2
    <3>5. ASSUME NEW h, h \in Frame, h.op = "disconnect" => h.c \in Conn, FrameOK(h) PROVE FrameOK(h)'
      BY <3>3, <3>5 DEF FrameOK
    <3>6. FrameOK(f)' <=> \E h \in {f} : FrameOK(h)'
      BY <3>4 DEF FrameOK
    <3>. QED  BY <3>1, <3>2, <3>5, <3>6
  <2>5. FramesOK'
    BY <1>2, <2>4 DEF FramesOK
  <2>. QED  BY <2>1, <2>2, <2>3, <2>5 DEF RegistryInv
<1>. QED  BY <1>4, <1>5 DEF Accepted

\* The other steps of an endpoint task, and its messages, add harmless frames.
LEMMA EndpointInv ==
    ASSUME RegistryInv, TypeOK', NEW c \in Conn, EndpointStep(c) \/ Message(c), ~Accepted(c)
    PROVE  RegistryInv'
<1>. DEFINE F == {Disconnect(c, "call"), Disconnect(c, "quiet")} \cup {Leaving(c, r) : r \in Room}
                  \cup {[op |-> "subscribe", at |-> "sadd", c |-> c, r |-> r, todo |-> {}] : r \in Room}
<1>1. TypeOK /\ c \in Task /\ stack \in [Task -> Seq(Frame)]
  BY DEF RegistryInv, TypeOK, Task
<1>2. \A f \in F : Harmless(f)
  BY DEF Harmless, Disconnect, Leaving
<1>3. F \subseteq Frame
  BY DEF Disconnect, Leaving, Frame, DisconnectFrame, LeaveFrame, SubscribeFrame
<1>4. UNCHANGED registry
  BY DEF EndpointStep, Message, Connect, Accepted, Stored, Welcomed, Refused, Replied, AwaitMessage,
         HangUp, Fatal, FatalSent, Cleanup, Closed, Reply, Subscribe, Unsubscribe
<1>5. ASSUME NEW d \in Conn, IsNew(d)' PROVE IsNew(d)
  <2>. DEFINE Old == {"welcome", "done", "serve", "refused", "reply", "final", "lastwords", "closing"}
  <2>1. pc \in [Conn -> EndpointState]
    BY <1>1 DEF TypeOK
  <2>2. \/ UNCHANGED pc
        \/ \E s \in Old : pc' = [pc EXCEPT ![c] = s]
        \/ IsNew(c) /\ pc' = [pc EXCEPT ![c] = "accept"]
    BY DEF EndpointStep, Message, Connect, Stored, Welcomed, Refused, Replied, AwaitMessage,
           HangUp, Fatal, FatalSent, Cleanup, Closed, Reply, Subscribe, Unsubscribe, IsNew
  <2>3. CASE \E s \in Old : pc' = [pc EXCEPT ![c] = s]
    BY <1>5, <2>1, <2>3 DEF IsNew
  <2>4. CASE IsNew(c) /\ pc' = [pc EXCEPT ![c] = "accept"]
    BY <1>5, <2>1, <2>4 DEF IsNew
  <2>. QED  BY <1>5, <2>2, <2>3, <2>4 DEF IsNew
<1>6. \/ UNCHANGED stack
      \/ \E f \in F : stack' = Push(c, f)
      \/ stack' = [stack EXCEPT ![c] = <<Disconnect(c, "call"), Disconnect(c, "quiet")>>]
  BY DEF EndpointStep, Message, Connect, Accepted, Stored, Welcomed, Refused, Replied, AwaitMessage,
         HangUp, Fatal, FatalSent, Cleanup, Closed, Reply, Subscribe, Unsubscribe
<1>. HIDE DEF F
<1>7. CASE UNCHANGED stack
  <2>1. NewFrames({})
    BY <1>7 DEF NewFrames
  <2>. QED  BY <1>4, <1>5, <2>1, HarmlessStep
<1>8. ASSUME NEW f \in F, stack' = Push(c, f) PROVE RegistryInv'
  <2>1. NewFrames({f})
    BY <1>1, <1>3, <1>8, StackFrames
  <2>. QED  BY <1>2, <1>4, <1>5, <1>8, <2>1, HarmlessStep
<1>9. CASE stack' = [stack EXCEPT ![c] = <<Disconnect(c, "call"), Disconnect(c, "quiet")>>]
  <2>1. NewFrames({Disconnect(c, "call"), Disconnect(c, "quiet")})
    BY <1>1, <1>9 DEF NewFrames
  <2>2. \A f \in {Disconnect(c, "call"), Disconnect(c, "quiet")} : Harmless(f)
    BY DEF Harmless, Disconnect
  <2>. QED  BY <1>4, <1>5, <2>1, <2>2, HarmlessStep
<1>. QED  BY <1>6, <1>7, <1>8, <1>9

\* So do the steps of the heartbeat.
LEMMA BeatInv ==
    ASSUME RegistryInv, TypeOK', BeatStep
    PROVE  RegistryInv'
<1>1. TypeOK /\ Heartbeat \in Task /\ stack \in [Task -> Seq(Frame)]
  BY DEF RegistryInv, TypeOK, Task
<1>2. UNCHANGED registry /\ \A c \in Conn : IsNew(c)' => IsNew(c)
  BY DEF BeatStep, BeatWakes, BeatFinds, BeatNext, BeatSent, BeatSwept, BeatReaps, BeatSleeps, IsNew
<1>3. \A c : Harmless(Disconnect(c, "call")) /\ Harmless(Disconnect(c, "quiet"))
  BY DEF Harmless, Disconnect
<1>4. \A c \in Conn : Disconnect(c, "call") \in Frame /\ Disconnect(c, "quiet") \in Frame
  BY DEF Disconnect, Frame, DisconnectFrame
<1>5. \A c \in beat.dead : c \in Conn
  BY <1>1 DEF TypeOK
<1>6. ASSUME beat.at = "send" PROVE beat.c \in Conn
  BY <1>1, <1>6 DEF TypeOK
<1>7. \/ UNCHANGED stack
      \/ \E c \in Conn : \/ stack' = Push(Heartbeat, Disconnect(c, "call"))
                         \/ stack' = Push(Heartbeat, Disconnect(c, "quiet"))
  BY <1>5, <1>6
     DEF BeatStep, BeatWakes, BeatFinds, BeatNext, BeatSent, BeatSwept, BeatReaps, BeatSleeps
<1>8. CASE UNCHANGED stack
  <2>1. NewFrames({})
    BY <1>8 DEF NewFrames
  <2>. QED  BY <1>2, <2>1, HarmlessStep
<1>9. ASSUME NEW f \in Frame, Harmless(f), stack' = Push(Heartbeat, f) PROVE RegistryInv'
  <2>1. NewFrames({f})
    BY <1>1, <1>9, StackFrames
  <2>. QED  BY <1>2, <1>9, <2>1, HarmlessStep
<1>. QED  BY <1>3, <1>4, <1>7, <1>8, <1>9

LEMMA NextInv == RegistryInv /\ [Next]_vars => RegistryInv'
<1>. SUFFICES ASSUME RegistryInv, [Next]_vars PROVE RegistryInv'
  OBVIOUS
<1>1. TypeOK'
  BY NextType DEF RegistryInv
<1>2. CASE UNCHANGED <<registry, pc, stack>>
  <2>1. NewFrames({})
    BY <1>2 DEF NewFrames
  <2>2. \A c \in Conn : IsNew(c)' => IsNew(c)
    BY <1>2 DEF IsNew
  <2>. QED  BY <1>1, <1>2, <2>1, <2>2, HarmlessStep
<1>3. CASE UNCHANGED vars
  BY <1>2, <1>3 DEF vars, tasks
<1>4. ASSUME NEW t \in Task, CallStep(t) PROVE RegistryInv'
  BY <1>1, <1>4, DisconnectInv, RoomInv DEF CallStep
<1>5. ASSUME NEW c \in Conn, EndpointStep(c) \/ Message(c) PROVE RegistryInv'
  BY <1>1, <1>5, AcceptedInv, EndpointInv
<1>6. ASSUME NEW c \in Conn, ClientLeaves(c) PROVE RegistryInv'
  BY <1>2, <1>6 DEF ClientLeaves, tasks
<1>. QED  BY <1>1, <1>3, <1>4, <1>5, <1>6, BeatInv DEF Next

LEMMA InitInv == Init => RegistryInv
<1>. SUFFICES ASSUME Init PROVE RegistryInv
  OBVIOUS
<1>1. CountMatches
  BY FS_EmptySet DEF Init, CountMatches
<1>2. UserIndexRegistered /\ NewUnregistered
  BY DEF Init, UserIndexRegistered, NewUnregistered
<1>3. FramesOK
  BY DEF Init, FramesOK
<1>. QED  BY <1>1, <1>2, <1>3, InitType DEF RegistryInv

(***************************************************************************)
(* The theorems.                                                           *)
(***************************************************************************)

\* The registry invariant holds in every reachable state, for any number of
\* connections, rooms and users, and whether or not the stores fail.
THEOREM RegistryInvariant == Spec => []RegistryInv
<1>1. Init => RegistryInv
  BY InitInv
<1>2. RegistryInv /\ [Next]_vars => RegistryInv'
  BY NextInv
<1>. QED  BY <1>1, <1>2, PTL DEF Spec

\* Every variable keeps its type; in particular the connection counter never
\* goes below zero.
THEOREM TypeCorrect == Spec => []TypeOK
<1>1. RegistryInv => TypeOK
  BY DEF RegistryInv
<1>. QED  BY <1>1, RegistryInvariant, PTL

\* The counter that admits connections is the number of registered connections.
THEOREM CountCorrect == Spec => []CountMatches
<1>1. RegistryInv => CountMatches
  BY DEF RegistryInv
<1>. QED  BY <1>1, RegistryInvariant, PTL

\* The user index names only registered connections.
THEOREM UserIndexCorrect == Spec => []UserIndexRegistered
<1>1. RegistryInv => UserIndexRegistered
  BY DEF RegistryInv
<1>. QED  BY <1>1, RegistryInvariant, PTL

\* A connection is forgotten only with its socket closed and out of the index.
THEOREM ForgottenClosed == Spec => ClosedBeforeForgotten
<1>1. ASSUME RegistryInv, Next, NEW c \in conns \ conns'
      PROVE  socket'[c] = "closed" /\ c \notin userConns[UserOf[c]]
  <2>1. PICK t \in Task : DisconnectUnregister(t) /\ conns' = conns \ {Top(t).c}
    <3>1. ~UNCHANGED conns /\ ~(conns \subseteq conns')
      BY <1>1
    <3>2. ASSUME NEW t \in Task, DisconnectStep(t)
          PROVE  DisconnectUnregister(t) /\ conns' = conns \ {Top(t).c}
      BY <3>1, <3>2 DEF DisconnectStep, DisconnectUnknown, DisconnectNotify, DisconnectUser,
                        DisconnectRoom, DisconnectClose, DisconnectUnregister, DisconnectStored, registry
    <3>3. \A t \in Task : ~RoomStep(t)
      BY <3>1 DEF RoomStep, LeaveCached, TellNext, TellSent, TellDone, SubscribeCached, SubscribeConfirm,
                  SubscribeConfirmed, registry
    <3>4. \A d \in Conn : ~EndpointStep(d)
      BY <3>1 DEF EndpointStep, Connect, Accepted, Stored, Welcomed, Refused, Replied, AwaitMessage,
                  HangUp, Fatal, FatalSent, Cleanup, Closed, registry
    <3>5. \A d \in Conn : ~Message(d) /\ ~ClientLeaves(d)
      BY <3>1 DEF Message, Reply, Subscribe, Unsubscribe, ClientLeaves, registry
    <3>6. ~BeatStep
      BY <3>1 DEF BeatStep, BeatWakes, BeatFinds, BeatNext, BeatSent, BeatSwept, BeatReaps, BeatSleeps, registry
    <3>. QED  BY <1>1, <3>2, <3>3, <3>4, <3>5, <3>6 DEF Next, CallStep
  <2>. DEFINE f == Top(t)
  <2>2. c = f.c
    BY <1>1, <2>1
  <2>3. FrameOK(f) /\ f.op = "disconnect" /\ f.at = "close"
    <3>1. f.op = "disconnect" /\ f.at = "close" /\ stack[t] # <<>>
      BY <2>1 DEF DisconnectUnregister, Active
    <3>2. Len(stack[t]) \in 1..Len(stack[t])
      BY <1>1, <3>1, StackTypes DEF RegistryInv, TypeOK
    <3>. QED  BY <1>1, <3>1, <3>2 DEF RegistryInv, FramesOK, Top
  <2>4. c \notin userConns[UserOf[c]]
    BY <2>2, <2>3 DEF FrameOK
  <2>5. socket'[c] = "closed"
    BY <1>1, <2>1, <2>2 DEF DisconnectUnregister, RegistryInv, TypeOK
  <2>. QED  BY <2>4, <2>5
<1>2. RegistryInv /\ [Next]_vars
        => [\A c \in conns \ conns' : socket'[c] = "closed" /\ c \notin userConns[UserOf[c]]]_vars
  BY <1>1
<1>. QED  BY <1>2, RegistryInvariant, PTL DEF Spec, ClosedBeforeForgotten

(***************************************************************************)
(* How deep the calls nest.  A stack is sound when each of its nested      *)
(* disconnects is of a lost connection, every other frame is one, and      *)
(* every one of them that has gone deeper has taken its connection out of  *)
(* a room for good.                                                        *)
(***************************************************************************)

\* Connections that no send can reach any more, and the rooms they have left.
Lost == {c \in Conn : SendFails(c)}
Left == {p \in Conn \X Room : p[1] \in Lost /\ p[1] \notin rooms[p[2]]}

\* The calls of disconnect, but the outermost, that a frame was reached through.
Below(s, j) == {i \in 2..(j - 1) : s[i].op = "disconnect"}

\* A frame that may go deeper, or that was called to go deeper.
Deeper(s, j) == \/ s[j].op = "tell" /\ (s[j].at = "send" \/ s[j].todo # {})
                \/ j >= 3 /\ s[j].op = "disconnect"

Pairs == Conn \X Room

InnerFrame(f, lost) == /\ f.op \in {"disconnect", "leave", "tell"}
                       /\ f.op = "disconnect" => f.c \in lost

Sound(s, lost, left) ==
    /\ \A i \in 2..Len(s) : InnerFrame(s[i], lost)
    /\ \E p \in {0, 1} : \A i \in 2..Len(s) : s[i].op = "disconnect" <=> i % 2 = p
    /\ Cardinality(Below(s, Len(s))) <= Cardinality(left)
    /\ \A j \in 1..Len(s) : Deeper(s, j) => Cardinality(Below(s, j)) < Cardinality(Pairs)

LEMMA BelowFinite ==
    ASSUME NEW s, NEW n \in Nat
    PROVE  IsFiniteSet(Below(s, n)) /\ Cardinality(Below(s, n)) \in Nat
<1>1. IsFiniteSet(2..(n - 1))
  BY FS_Interval
<1>. QED  BY <1>1, FS_Subset, FS_CardinalityType DEF Below

LEMMA PairsFinite ==
    ASSUME IsFiniteSet(Room)
    PROVE  /\ IsFiniteSet(Pairs) /\ Cardinality(Pairs) \in Nat
           /\ Cardinality(Pairs) = Cardinality(Conn) * Cardinality(Room)
BY ConnAssumption, FS_Product, FS_CardinalityType DEF Pairs

\* Every other index up to 2n + p, from 2 + p on, makes n of them.
LEMMA EveryOther ==
    ASSUME NEW T, IsFiniteSet(T), NEW n \in Nat, NEW p \in {0, 1},
           \A k \in 1..n : 2 * k + p \in T
    PROVE  n <= Cardinality(T)
<1>. DEFINE f == [k \in 1..n |-> 2 * k + p]
<1>1. f \in Injection(1..n, T)
  BY DEF Injection, IsInjective
<1>2. Cardinality(1..n) = n
  BY FS_Interval
<1>. QED  BY <1>1, <1>2, FS_Injection

\* A sound stack is not deeper than two frames for every room of every connection,
\* and two more.
LEMMA SoundBounded ==
    ASSUME IsFiniteSet(Room), NEW s \in Seq(Frame), NEW lost,
           NEW left \in SUBSET Pairs, Sound(s, lost, left)
    PROVE  Len(s) <= 2 * Cardinality(Pairs) + 2
<1>. DEFINE n == Cardinality(Pairs)
<1>1. n \in Nat /\ Cardinality(left) \in Nat /\ Cardinality(left) <= n
  BY PairsFinite, FS_Subset, FS_CardinalityType
<1>2. Len(s) \in Nat
  OBVIOUS
<1>3. PICK p \in {0, 1} : \A i \in 2..Len(s) : s[i].op = "disconnect" <=> i % 2 = p
  BY DEF Sound
<1>. HIDE DEF n
<1>4. CASE p = 0 /\ Len(s) > 2 * n + 2
  <2>1. \A k \in 1..(n + 1) : 2 * k + 0 \in 2..(Len(s) - 1) /\ 2 * k + 0 \in 2..Len(s) /\ (2 * k + 0) % 2 = 0
    BY <1>1, <1>2, <1>4
  <2>2. \A k \in 1..(n + 1) : 2 * k + 0 \in Below(s, Len(s))
    BY <1>3, <1>4, <2>1 DEF Below
  <2>3. n + 1 <= Cardinality(Below(s, Len(s)))
    BY <1>1, <1>2, <2>2, EveryOther, BelowFinite
  <2>4. Cardinality(Below(s, Len(s))) <= Cardinality(left)
    BY DEF Sound
  <2>. QED  BY <1>1, <1>2, <2>3, <2>4, BelowFinite
<1>5. CASE p = 1 /\ Len(s) > 2 * n + 2
  <2>. DEFINE m == 2 * n + 3
  <2>1. m \in 2..Len(s) /\ m \in Nat /\ m \in 1..Len(s) /\ m >= 3 /\ m % 2 = 1
    BY <1>1, <1>2, <1>5
  <2>2. \A k \in 1..n : 2 * k + 1 \in 2..(m - 1) /\ 2 * k + 1 \in 2..Len(s) /\ (2 * k + 1) % 2 = 1
    BY <1>1, <1>2, <1>5
  <2>. HIDE DEF m
  <2>3. \A k \in 1..n : 2 * k + 1 \in Below(s, m)
    BY <1>3, <1>5, <2>2 DEF Below
  <2>4. n <= Cardinality(Below(s, m))
    BY <1>1, <2>1, <2>3, EveryOther, BelowFinite
  <2>5. Deeper(s, m)
    BY <1>3, <1>5, <2>1 DEF Deeper
  <2>6. Cardinality(Below(s, m)) < n
    BY <2>1, <2>5 DEF Sound, n
  <2>. QED  BY <1>1, <2>1, <2>4, <2>6, BelowFinite
<1>. QED  BY <1>1, <1>2, <1>4, <1>5 DEF n


\* A stack stays sound when frames return, when its top frame moves on in the
\* same call, and when others lose connections or take them out of rooms.
LEMMA SoundSame ==
    ASSUME IsFiniteSet(Room), NEW s \in Seq(Frame), NEW u \in Seq(Frame),
           NEW lost, NEW lost2, lost \subseteq lost2,
           NEW left, NEW left2 \in SUBSET Pairs, left \subseteq left2,
           Sound(s, lost, left), Len(u) <= Len(s),
           \A i \in 1..(Len(u) - 1) : u[i] = s[i],
           Len(u) >= 1 =>
              \/ u[Len(u)] = s[Len(u)]
              \/ /\ Len(u) >= 2 => /\ u[Len(u)].op = "disconnect" <=> s[Len(u)].op = "disconnect"
                                   /\ InnerFrame(u[Len(u)], lost2)
                 /\ \/ ~ Deeper(u, Len(u))
                    \/ Deeper(s, Len(u))
                    \/ Cardinality(Below(s, Len(u))) < Cardinality(Pairs)
    PROVE  Sound(u, lost2, left2)
<1>. DEFINE n == Len(u)
<1>1. n \in Nat /\ Len(s) \in Nat /\ n <= Len(s)
  OBVIOUS
<1>. HIDE DEF n
<1>2. ASSUME NEW i \in 2..n
      PROVE  /\ InnerFrame(u[i], lost2)
             /\ u[i].op = "disconnect" <=> s[i].op = "disconnect"
  <2>1. i \in 2..Len(s)
    BY <1>1
  <2>2. InnerFrame(s[i], lost2)
    BY <2>1 DEF Sound, InnerFrame
  <2>3. CASE i \in 1..(n - 1)
    BY <2>2, <2>3 DEF n
  <2>4. CASE i = n
    BY <2>2, <2>4, <1>1 DEF n
  <2>. QED  BY <2>3, <2>4, <1>1
<1>3. \A j \in 0..n : Below(u, j) = Below(s, j)
  <2>1. ASSUME NEW j \in 0..n, NEW i \in 2..(j - 1)
        PROVE  u[i] = s[i]
    BY <1>1 DEF n
  <2>. QED  BY <2>1 DEF Below
<1>4. Cardinality(Below(u, n)) <= Cardinality(left2)
  <2>1. Below(u, n) \in SUBSET Below(s, Len(s))
    BY <1>1, <1>3 DEF Below
  <2>2. Cardinality(Below(u, n)) <= Cardinality(Below(s, Len(s)))
    BY <1>1, <2>1, BelowFinite, FS_Subset
  <2>3. Cardinality(left) <= Cardinality(left2)
    BY PairsFinite, FS_Subset
  <2>4. Cardinality(Below(s, Len(s))) <= Cardinality(left)
    BY DEF Sound
  <2>5. Cardinality(left) \in Nat /\ Cardinality(left2) \in Nat
    BY PairsFinite, FS_Subset, FS_CardinalityType
  <2>. QED  BY <1>1, <2>2, <2>3, <2>4, <2>5, BelowFinite
<1>5. ASSUME NEW j \in 1..n, Deeper(u, j)
      PROVE  Cardinality(Below(u, j)) < Cardinality(Pairs)
  <2>1. j \in 1..Len(s) /\ Below(u, j) = Below(s, j)
    BY <1>1, <1>3
  <2>2. CASE u[j] = s[j]
    BY <1>5, <2>1, <2>2 DEF Deeper, Sound
  <2>3. CASE j = n /\ u[j] # s[j]
    BY <1>1, <1>5, <2>1, <2>3 DEF Sound, n
  <2>4. CASE j \in 1..(n - 1)
    BY <2>2, <2>4 DEF n
  <2>. QED  BY <1>1, <2>2, <2>3, <2>4
<1>6. PICK p \in {0, 1} : \A i \in 2..Len(s) : s[i].op = "disconnect" <=> i % 2 = p
  BY DEF Sound
<1>7. \A i \in 2..n : u[i].op = "disconnect" <=> i % 2 = p
  <2>1. ASSUME NEW i \in 2..n PROVE i \in 2..Len(s)
    BY <1>1
  <2>. QED  BY <1>2, <1>6, <2>1
<1>. QED  BY <1>2, <1>4, <1>5, <1>7 DEF Sound, n

\* A stack stays sound when its top frame calls: a disconnect that leaves a room
\* for good, unless it is the outermost; a message that finds a member lost; a
\* subscription that tells the room.
LEMMA SoundCall ==
    ASSUME IsFiniteSet(Room), NEW s \in Seq(Frame), NEW u \in Seq(Frame), NEW n \in Nat \ {0},
           NEW lost, NEW left \in SUBSET Pairs, NEW left2 \in SUBSET Pairs, left \subseteq left2,
           Sound(s, lost, left), Len(s) = n, Len(u) = n + 1,
           \A i \in 1..(n - 1) : u[i] = s[i],
           u[n].op = s[n].op, u[n].c = s[n].c \/ u[n].op # "disconnect", Deeper(u, n) => Deeper(s, n),
           \/ /\ s[n].op = "disconnect" /\ u[n + 1].op = "leave"
              /\ n >= 2 => Cardinality(left) + 1 <= Cardinality(left2)
           \/ /\ s[n].op = "tell" /\ Deeper(s, n)
              /\ u[n + 1].op = "disconnect" /\ u[n + 1].c \in lost
           \/ /\ n = 1 /\ u[2].op = "tell"
              /\ Deeper(u, 2) => Pairs # {}
    PROVE  Sound(u, lost, left2)
<1>1. ASSUME NEW i \in 2..n
      PROVE  /\ InnerFrame(u[i], lost)
             /\ u[i].op = "disconnect" <=> s[i].op = "disconnect"
  <2>1. InnerFrame(s[i], lost)
    BY DEF Sound
  <2>2. CASE i \in 1..(n - 1)
    BY <2>1, <2>2
  <2>3. CASE i = n
    BY <2>1, <2>3 DEF InnerFrame
  <2>. QED  BY <2>2, <2>3
<1>2. InnerFrame(u[n + 1], lost)
  BY DEF InnerFrame
<1>3. \A j \in 0..(n + 1) : Below(u, j) \in SUBSET (2..n)
                            /\ Below(u, j) = {i \in 2..(j - 1) : s[i].op = "disconnect"}
  <2>1. ASSUME NEW j \in 0..(n + 1), NEW i \in 2..(j - 1)
        PROVE  i \in 2..n
    OBVIOUS
  <2>. QED  BY <1>1, <2>1 DEF Below
<1>4. /\ \A j \in 0..n : Below(u, j) = Below(s, j)
      /\ Below(u, n + 1) = IF n >= 2 /\ s[n].op = "disconnect" THEN Below(s, n) \cup {n} ELSE Below(s, n)
  BY <1>3 DEF Below
<1>b. IsFiniteSet(Below(s, n)) /\ Cardinality(Below(s, n)) \in Nat
  BY BelowFinite
<1>5. Cardinality(Below(u, n + 1)) <= Cardinality(left2)
  <2>1. /\ Cardinality(left) <= Cardinality(left2)
        /\ Cardinality(left) \in Nat /\ Cardinality(left2) \in Nat
    BY PairsFinite, FS_Subset, FS_CardinalityType
  <2>2. Cardinality(Below(s, n)) <= Cardinality(left)
    BY DEF Sound
  <2>3. CASE n >= 2 /\ s[n].op = "disconnect"
    <3>1. Cardinality(Below(s, n) \cup {n}) = Cardinality(Below(s, n)) + 1
      <4>1. n \notin Below(s, n)
        BY DEF Below
      <4>2. Cardinality(Below(s, n) \cup {n}) =
              IF n \in Below(s, n) THEN Cardinality(Below(s, n)) ELSE Cardinality(Below(s, n)) + 1
        BY <1>b, FS_AddElement
      <4>. QED  BY <4>1, <4>2
    <3>2. Cardinality(left) + 1 <= Cardinality(left2)
      BY <2>3
    <3>3. Below(u, n + 1) = Below(s, n) \cup {n}
      BY <1>4, <2>3
    <3>. DEFINE b == Cardinality(Below(s, n))
                l == Cardinality(left)
                k == Cardinality(left2)
    <3>4. /\ b \in Nat /\ l \in Nat /\ k \in Nat /\ b <= l /\ l + 1 <= k
          /\ Cardinality(Below(u, n + 1)) = b + 1
      BY <1>b, <2>1, <2>2, <3>1, <3>2, <3>3
    <3>. HIDE DEF b, l, k
    <3>5. Cardinality(Below(u, n + 1)) <= k
      BY <3>4
    <3>. QED  BY <3>5 DEF k
  <2>4. CASE ~(n >= 2 /\ s[n].op = "disconnect")
    BY <1>4, <1>b, <2>1, <2>2, <2>4
  <2>. QED  BY <2>3, <2>4
<1>6. ASSUME NEW j \in 1..n, Deeper(u, j)
      PROVE  Cardinality(Below(u, j)) < Cardinality(Pairs)
  <2>1. Deeper(s, j)
    BY <1>6 DEF Deeper
  <2>. QED  BY <1>4, <2>1 DEF Sound
<1>7. ASSUME Deeper(u, n + 1)
      PROVE  Cardinality(Below(u, n + 1)) < Cardinality(Pairs)
  <2>1. CASE s[n].op = "tell" /\ Deeper(s, n)
    <3>1. Below(u, n + 1) = Below(s, n)
      BY <1>4, <2>1
    <3>. QED  BY <2>1, <3>1 DEF Sound
  <2>2. CASE n = 1 /\ Pairs # {}
    <3>1. Below(u, n + 1) = {}
      BY <2>2 DEF Below
    <3>2. Cardinality(Below(u, n + 1)) = 0
      BY <3>1, FS_EmptySet
    <3>3. Cardinality(Pairs) # 0 /\ Cardinality(Pairs) \in Nat
      BY <2>2, PairsFinite, FS_EmptySet
    <3>. QED  BY <3>2, <3>3
  <2>3. ~ (s[n].op = "disconnect" /\ u[n + 1].op = "leave")
    BY <1>7 DEF Deeper
  <2>. QED  BY <1>7, <2>1, <2>2, <2>3
<1>8. \E p \in {0, 1} : \A i \in 2..(n + 1) : u[i].op = "disconnect" <=> i % 2 = p
  <2>1. CASE n = 1
    <3>1. CASE u[2].op = "disconnect"
      <4>1. \A i \in 2..(n + 1) : u[i].op = "disconnect" <=> i % 2 = 0
        BY <2>1, <3>1
      <4>. QED  BY <4>1
    <3>2. CASE u[2].op # "disconnect"
      <4>1. \A i \in 2..(n + 1) : u[i].op = "disconnect" <=> i % 2 = 1
        BY <2>1, <3>2
      <4>. QED  BY <4>1
    <3>. QED  BY <3>1, <3>2
  <2>2. CASE n >= 2
    <3>1. PICK p \in {0, 1} : \A i \in 2..n : s[i].op = "disconnect" <=> i % 2 = p
      BY DEF Sound
    <3>2. s[n].op = "disconnect" <=> n % 2 = p
      BY <2>2, <3>1
    <3>3. (u[n + 1].op = "disconnect") <=> ~(s[n].op = "disconnect")
      BY <2>2
    <3>4. ((n + 1) % 2 = p) <=> ~(n % 2 = p)
      OBVIOUS
    <3>5. ASSUME NEW i \in 2..(n + 1)
          PROVE  u[i].op = "disconnect" <=> i % 2 = p
      <4>1. CASE i \in 2..n
        BY <1>1, <3>1, <4>1
      <4>2. CASE i = n + 1
        BY <3>2, <3>3, <3>4, <4>2
      <4>. QED  BY <4>1, <4>2
    <3>. QED  BY <3>5
  <2>. QED  BY <2>1, <2>2
<1>9. \A i \in 2..(n + 1) : InnerFrame(u[i], lost)
  <2>1. \A i \in 2..(n + 1) : i \in 2..n \/ i = n + 1
    OBVIOUS
  <2>. QED  BY <1>1, <1>2, <2>1
<1>10. \A j \in 1..(n + 1) : Deeper(u, j) => Cardinality(Below(u, j)) < Cardinality(Pairs)
  <2>1. \A j \in 1..(n + 1) : j \in 1..n \/ j = n + 1
    OBVIOUS
  <2>. QED  BY <1>6, <1>7, <2>1
<1>. QED  BY <1>5, <1>8, <1>9, <1>10 DEF Sound

\* What a task begins with.
LEMMA SoundStart ==
    ASSUME IsFiniteSet(Room), NEW s \in Seq(Frame), NEW lost, NEW left \in SUBSET Pairs,
           \/ s = <<>>
           \/ Len(s) = 1 /\ ~ Deeper(s, 1)
           \/ /\ Len(s) = 2 /\ ~ Deeper(s, 1)
              /\ s[2].op = "disconnect" /\ s[2].c \in lost
    PROVE  Sound(s, lost, left)
<1>1. Len(s) \in 0..2
  OBVIOUS
<1>2. Cardinality(Below(s, Len(s))) <= Cardinality(left)
  <2>1. Below(s, Len(s)) = {}
    <3>1. \A n \in 0..2 : 2..(n - 1) = {}
      OBVIOUS
    <3>. QED  BY <1>1, <3>1 DEF Below
  <2>. QED  BY <2>1, FS_EmptySet, PairsFinite, FS_Subset, FS_CardinalityType
<1>3. \A j \in 1..Len(s) : ~ Deeper(s, j)
  BY <1>1 DEF Deeper
<1>4. \A i \in 2..Len(s) : i = 2 /\ s[i].op = "disconnect" /\ s[i].c \in lost
  OBVIOUS
<1>5. \A i \in 2..Len(s) : s[i].op = "disconnect" <=> i % 2 = 0
  BY <1>4
<1>. QED  BY <1>2, <1>3, <1>4, <1>5 DEF Sound, InnerFrame

\* Where a task that has no call to finish stands.
Unengaged == \A c \in Conn : pc[c] \in {"reply", "fatal", "lastwords"} => stack[c] = <<>>

StacksSound == \A t \in Task : Sound(stack[t], Lost, Left)

DepthInv == StacksSound /\ Unengaged

\* A connection that is lost stays lost.
LEMMA LostForGood ==
    ASSUME TypeOK, [Next]_vars
    PROVE  Lost \subseteq Lost'
<1>1. /\ \A c \in Conn : socket'[c] = socket[c] \/ socket'[c] = "closed"
      /\ \A c \in Conn : client'[c] = client[c] \/ client'[c] = "gone"
  <2>1. CASE UNCHANGED vars
    BY <2>1 DEF vars, extern
  <2>2. ASSUME NEW t \in Task, CallStep(t)
        PROVE  client' = client /\ \A c \in Conn : socket'[c] = socket[c] \/ socket'[c] = "closed"
    <3>1. CASE DisconnectUnregister(t)
      <4>1. client' = client /\ socket' = [socket EXCEPT ![Top(t).c] = "closed"]
        BY <3>1 DEF DisconnectUnregister
      <4>. QED  BY <4>1 DEF TypeOK
    <3>2. CASE ~DisconnectUnregister(t)
      BY <2>2, <3>2 DEF CallStep, DisconnectStep, RoomStep, DisconnectUnknown, DisconnectNotify, DisconnectUser,
         DisconnectRoom, DisconnectClose, DisconnectStored, LeaveCached, TellNext, TellSent,
         TellDone, SubscribeCached, SubscribeConfirm, SubscribeConfirmed, extern
    <3>. QED  BY <3>1, <3>2
  <2>3. ASSUME NEW d \in Conn, EndpointStep(d) \/ Message(d)
        PROVE  client' = client /\ (socket' = socket \/ socket' = [socket EXCEPT ![d] = "closed"])
    BY <2>3 DEF EndpointStep, Message, Connect, Accepted, Stored, Welcomed, Refused, Reply, Replied,
       AwaitMessage, HangUp, Fatal, FatalSent, Cleanup, Closed, Subscribe, Unsubscribe, extern
  <2>4. ASSUME NEW d \in Conn, ClientLeaves(d)
        PROVE  socket' = socket /\ client' = [client EXCEPT ![d] = "gone"]
    BY <2>4 DEF ClientLeaves
  <2>5. CASE BeatStep
    BY <2>5 DEF BeatStep, BeatWakes, BeatFinds, BeatNext, BeatSent, BeatSwept, BeatReaps, BeatSleeps, extern
  <2>6. /\ \A d \in Conn : socket' = [socket EXCEPT ![d] = "closed"] =>
                 \A c \in Conn : socket'[c] = socket[c] \/ socket'[c] = "closed"
        /\ \A d \in Conn : client' = [client EXCEPT ![d] = "gone"] =>
                 \A c \in Conn : client'[c] = client[c] \/ client'[c] = "gone"
    BY DEF TypeOK
  <2>. QED  BY <2>1, <2>2, <2>3, <2>4, <2>5, <2>6 DEF Next
<1>. QED  BY <1>1 DEF Lost, SendFails

\* Only a client that is there, over an open socket, joins a room.
LEMMA LostDoNotJoin ==
    ASSUME TypeOK, [Next]_vars
    PROVE  \A r \in Room : rooms'[r] \subseteq rooms[r] \cup (Conn \ Lost)
<1>1. CASE UNCHANGED rooms
  BY <1>1
<1>2. ASSUME NEW t \in Task, CallStep(t), ~ UNCHANGED rooms
      PROVE  \A r \in Room : rooms'[r] \subseteq rooms[r]
  <2>1. DisconnectRoom(t) \/ SubscribeCached(t)
    BY <1>2 DEF CallStep, DisconnectStep, RoomStep, DisconnectUnknown, DisconnectNotify, DisconnectUser,
       DisconnectClose, DisconnectUnregister, DisconnectStored, LeaveCached, TellNext, TellSent,
       TellDone, SubscribeConfirm, SubscribeConfirmed, roomVars
  <2>2. PICK r, c : rooms' = [rooms EXCEPT ![r] = @ \ {c}]
    BY <1>2, <2>1 DEF DisconnectRoom, LeaveRoom, SubscribeCached, roomVars
  <2>. QED  BY <2>2 DEF TypeOK
<1>3. ASSUME NEW c \in Conn, EndpointStep(c)
      PROVE  UNCHANGED rooms
  BY <1>3 DEF EndpointStep, Connect, Accepted, Stored, Welcomed, Refused, Replied,
     AwaitMessage, HangUp, Fatal, FatalSent, Cleanup, Closed, roomVars
<1>4. ASSUME NEW c \in Conn, Message(c), ~ UNCHANGED rooms
      PROVE  \A r \in Room : rooms'[r] \subseteq rooms[r] \cup (Conn \ Lost)
  <2>1. c \notin Lost
    BY <1>4 DEF Message, Reply, Subscribe, Unsubscribe, Receives, Lost, SendFails, roomVars
  <2>2. PICK r \in Room : rooms' = [rooms EXCEPT ![r] = @ \cup {c}] \/ rooms' = [rooms EXCEPT ![r] = @ \ {c}]
    BY <1>4 DEF Message, Reply, Subscribe, Unsubscribe, LeaveRoom, roomVars
  <2>3. ASSUME NEW q \in Room
        PROVE  rooms'[q] \subseteq rooms[q] \cup {c}
    <3>1. rooms \in [Room -> SUBSET Conn]
      BY DEF TypeOK
    <3>2. CASE rooms' = [rooms EXCEPT ![r] = @ \cup {c}]
      BY <3>1, <3>2
    <3>3. CASE rooms' = [rooms EXCEPT ![r] = @ \ {c}]
      BY <3>1, <3>3
    <3>. QED  BY <2>2, <3>2, <3>3
  <2>. QED  BY <2>1, <2>3
<1>5. ASSUME NEW c \in Conn, ClientLeaves(c) PROVE UNCHANGED rooms
  BY <1>5 DEF ClientLeaves, roomVars
<1>6. BeatStep => UNCHANGED rooms
  BY DEF BeatStep, BeatWakes, BeatFinds, BeatNext, BeatSent, BeatSwept, BeatReaps, BeatSleeps, roomVars
<1>7. UNCHANGED vars => UNCHANGED rooms
  BY DEF vars, roomVars
<1>. QED  BY <1>1, <1>2, <1>3, <1>4, <1>5, <1>6, <1>7 DEF Next

LEMMA LeftForGood ==
    ASSUME TypeOK, [Next]_vars
    PROVE  Left \subseteq Left' /\ Left \in SUBSET Pairs /\ Left' \in SUBSET Pairs
<1>1. ASSUME NEW p \in Left PROVE p \in Left'
  <2>1. p \in Conn \X Room /\ p[1] \in Conn /\ p[2] \in Room /\ p[1] \in Lost /\ p[1] \notin rooms[p[2]]
    BY DEF Left
  <2>2. p[1] \in Lost' /\ p[1] \notin rooms'[p[2]]
    BY <2>1, LostForGood, LostDoNotJoin
  <2>. QED  BY <2>1, <2>2 DEF Left
<1>. QED  BY <1>1 DEF Left, Pairs

\* What the operations on a call stack leave in it.
LEMMA StackOps ==
    ASSUME stack \in [Task -> Seq(Frame)], NEW t \in Task, stack[t] # <<>>
    PROVE  LET s == stack[t]
               n == Len(s)
               u == stack'[t]
           IN  /\ n \in Nat \ {0} /\ s \in Seq(Frame) /\ s[n] = Top(t)
               /\ stack' = Return(t) =>
                     Len(u) = n - 1 /\ \A i \in 1..(n - 1) : u[i] = s[i]
               /\ \A f \in Frame : stack' = Goto(t, f) =>
                     Len(u) = n /\ u[n] = f /\ \A i \in 1..(n - 1) : u[i] = s[i]
               /\ \A f, g \in Frame : stack' = GotoPush(t, f, g) =>
                     Len(u) = n + 1 /\ u[n] = f /\ u[n + 1] = g /\ \A i \in 1..(n - 1) : u[i] = s[i]
               /\ \A f, g \in Frame :
                    (stack' = Return(t) \/ stack' = Goto(t, f) \/ stack' = GotoPush(t, f, g)) =>
                       \A v \in Task \ {t} : stack'[v] = stack[v]
<1>. DEFINE s == stack[t]
            n == Len(s)
            u == stack'[t]
<1>1. s \in Seq(Frame) /\ n \in Nat \ {0} /\ s[n] = Top(t) /\ s \in [1..n -> Frame]
  BY DEF Top
<1>2. stack' = Return(t) => u = SubSeq(s, 1, n - 1)
  BY DEF Return
<1>3. \A f \in Frame : stack' = Goto(t, f) => u = [s EXCEPT ![n] = f]
  BY DEF Goto
<1>4. \A f, g \in Frame : stack' = GotoPush(t, f, g) => u = Append([s EXCEPT ![n] = f], g)
  BY DEF GotoPush
<1>5. \A f, g \in Frame :
        (stack' = Return(t) \/ stack' = Goto(t, f) \/ stack' = GotoPush(t, f, g)) =>
           \A v \in Task \ {t} : stack'[v] = stack[v]
  BY DEF Return, Goto, GotoPush
<1>. HIDE DEF s, n, u
<1>6. n = Len(s)
  BY DEF n
<1>7. /\ Len(SubSeq(s, 1, n - 1)) = n - 1
      /\ \A i \in 1..(n - 1) : SubSeq(s, 1, n - 1)[i] = s[i]
  BY <1>1, <1>6
<1>8. ASSUME NEW f \in Frame, NEW g \in Frame
      PROVE  LET w == [s EXCEPT ![n] = f]
             IN  /\ Len(w) = n /\ w[n] = f /\ \A i \in 1..(n - 1) : w[i] = s[i]
                 /\ Len(Append(w, g)) = n + 1 /\ Append(w, g)[n] = f /\ Append(w, g)[n + 1] = g
                 /\ \A i \in 1..(n - 1) : Append(w, g)[i] = s[i]
  <2>. DEFINE w == [s EXCEPT ![n] = f]
  <2>1. w \in [1..n -> Frame]
    BY <1>1
  <2>2. w \in Seq(Frame) /\ Len(w) = n
    BY <1>1, <2>1
  <2>3. w[n] = f /\ \A i \in 1..(n - 1) : w[i] = s[i]
    BY <1>1
  <2>. HIDE DEF w
  <2>4. /\ Len(Append(w, g)) = n + 1 /\ Append(w, g)[n] = f /\ Append(w, g)[n + 1] = g
        /\ \A i \in 1..(n - 1) : Append(w, g)[i] = s[i]
    BY <1>1, <2>2, <2>3
  <2>. QED  BY <2>2, <2>3, <2>4 DEF w
<1>9. stack' = Return(t) => Len(u) = n - 1 /\ \A i \in 1..(n - 1) : u[i] = s[i]
  BY <1>2, <1>7
<1>10. ASSUME NEW f \in Frame, NEW g \in Frame
       PROVE  /\ stack' = Goto(t, f) =>
                    Len(u) = n /\ u[n] = f /\ \A i \in 1..(n - 1) : u[i] = s[i]
              /\ stack' = GotoPush(t, f, g) =>
                    Len(u) = n + 1 /\ u[n] = f /\ u[n + 1] = g /\ \A i \in 1..(n - 1) : u[i] = s[i]
  <2>. DEFINE w == [s EXCEPT ![n] = f]
  <2>1. /\ Len(w) = n /\ w[n] = f /\ \A i \in 1..(n - 1) : w[i] = s[i]
        /\ Len(Append(w, g)) = n + 1 /\ Append(w, g)[n] = f /\ Append(w, g)[n + 1] = g
        /\ \A i \in 1..(n - 1) : Append(w, g)[i] = s[i]
    BY <1>8
  <2>2. (stack' = Goto(t, f) => u = w) /\ (stack' = GotoPush(t, f, g) => u = Append(w, g))
    BY <1>3, <1>4
  <2>. HIDE DEF w
  <2>. QED  BY <2>1, <2>2
<1>. QED  BY <1>1, <1>5, <1>9, <1>10 DEF s, n, u

\* What the steps below have in common.
Stepping == IsFiniteSet(Room) /\ TypeOK /\ TypeOK' /\ DepthInv /\ [Next]_vars

\* What is to be shown of a step of task t.
StepSound(t) == /\ Sound(stack'[t], Lost', Left')
                /\ \A v \in Task \ {t} : stack'[v] = stack[v]

LEMMA SteppingFacts ==
    ASSUME Stepping, NEW t \in Task
    PROVE  /\ stack \in [Task -> Seq(Frame)] /\ stack[t] \in Seq(Frame) /\ stack'[t] \in Seq(Frame)
           /\ Sound(stack[t], Lost, Left)
           /\ Lost \subseteq Lost' /\ Left \subseteq Left' /\ Left \in SUBSET Pairs /\ Left' \in SUBSET Pairs
           /\ IsFiniteSet(Room)
BY LostForGood, LeftForGood DEF Stepping, TypeOK, DepthInv, StacksSound

LEMMA ClearSound ==
    ASSUME Stepping, NEW t \in Task, stack' = [stack EXCEPT ![t] = <<>>]
    PROVE  StepSound(t)
<1>1. stack'[t] = <<>> /\ \A v \in Task \ {t} : stack'[v] = stack[v]
  BY SteppingFacts
<1>2. Sound(stack'[t], Lost', Left')
  BY <1>1, SteppingFacts, SoundStart
<1>. QED  BY <1>1, <1>2 DEF StepSound

LEMMA RaiseSound ==
    ASSUME Stepping, NEW t \in Task, Raise(t)
    PROVE  StepSound(t)
BY ClearSound DEF Raise

LEMMA ReturnSound ==
    ASSUME Stepping, NEW t \in Task, stack[t] # <<>>, stack' = Return(t)
    PROVE  StepSound(t)
<1>. DEFINE s == stack[t]
            u == stack'[t]
            n == Len(s)
<1>1. /\ n \in Nat \ {0} /\ Len(u) = n - 1 /\ \A i \in 1..(n - 1) : u[i] = s[i]
      /\ \A v \in Task \ {t} : stack'[v] = stack[v]
  <2>1. \E f, g : f \in Frame /\ g \in Frame
    <3>1. Top(t) \in Frame
      BY SteppingFacts, StackTypes
    <3>. QED  BY <3>1
  <2>. QED  BY <2>1, SteppingFacts, StackOps
<1>2. s \in Seq(Frame) /\ u \in Seq(Frame) /\ Sound(s, Lost, Left)
  BY SteppingFacts
<1>. HIDE DEF s, u
<1>3. /\ Len(u) <= Len(s) /\ \A i \in 1..(Len(u) - 1) : u[i] = s[i]
      /\ Len(u) >= 1 => u[Len(u)] = s[Len(u)]
  BY <1>1, <1>2
<1>4. Sound(u, Lost', Left')
  BY <1>2, <1>3, SteppingFacts, SoundSame
<1>. QED  BY <1>1, <1>4 DEF StepSound, u

\* The top frame moves on.
LEMMA GotoSound ==
    ASSUME Stepping, NEW t \in Task, stack[t] # <<>>, NEW f \in Frame, stack' = Goto(t, f),
           \/ Top(t).op = "subscribe"
           \/ f.op \in {"disconnect", "leave", "tell"} /\ (f.op = "disconnect" <=> Top(t).op = "disconnect"),
           f.op = "disconnect" /\ Top(t).op = "disconnect" => f.c = Top(t).c,
           f.op = "tell" /\ (f.at = "send" \/ f.todo # {}) =>
              \/ Top(t).op = "tell" /\ (Top(t).at = "send" \/ Top(t).todo # {})
              \/ Cardinality(Left) < Cardinality(Pairs)
    PROVE  StepSound(t)
<1>. DEFINE s == stack[t]
            u == stack'[t]
            n == Len(s)
<1>1. /\ n \in Nat \ {0} /\ s[n] = Top(t)
      /\ Len(u) = n /\ u[n] = f /\ \A i \in 1..(n - 1) : u[i] = s[i]
      /\ \A v \in Task \ {t} : stack'[v] = stack[v]
  BY SteppingFacts, StackOps
<1>2. s \in Seq(Frame) /\ u \in Seq(Frame) /\ Sound(s, Lost, Left)
  BY SteppingFacts
<1>3. Len(s) = n
  OBVIOUS
<1>. HIDE DEF s, u, n
<1>4. n >= 2 => InnerFrame(s[n], Lost)
  BY <1>1, <1>3, <1>2 DEF Sound
<1>5. n >= 2 => /\ u[n].op = "disconnect" <=> s[n].op = "disconnect"
                /\ InnerFrame(u[n], Lost')
  BY <1>1, <1>4, SteppingFacts DEF InnerFrame
<1>6. Deeper(u, n) => Deeper(s, n) \/ Cardinality(Left) < Cardinality(Pairs)
  BY <1>1, <1>5 DEF Deeper
<1>7. Cardinality(Left) < Cardinality(Pairs) => Cardinality(Below(s, n)) < Cardinality(Pairs)
  <2>1. Cardinality(Below(s, n)) <= Cardinality(Left)
    BY <1>2, <1>3 DEF Sound
  <2>2. Cardinality(Below(s, n)) \in Nat /\ Cardinality(Left) \in Nat /\ Cardinality(Pairs) \in Nat
    BY <1>1, BelowFinite, PairsFinite, SteppingFacts, FS_Subset, FS_CardinalityType
  <2>. QED  BY <2>1, <2>2
<1>8. Sound(u, Lost', Left')
  BY <1>1, <1>2, <1>3, <1>5, <1>6, <1>7, SteppingFacts, SoundSame
<1>. QED  BY <1>1, <1>8 DEF StepSound, u

\* The top frame calls.
LEMMA CallSound ==
    ASSUME Stepping, NEW t \in Task, stack[t] # <<>>, NEW f \in Frame, NEW g \in Frame,
           stack' = GotoPush(t, f, g),
           f.op = Top(t).op, f.op = "disconnect" => f.c = Top(t).c,
           f.op = "tell" => Top(t).at = "send" \/ Top(t).todo # {},
           \/ /\ f.op = "disconnect" /\ g.op = "leave"
              /\ f.c \in Lost => Cardinality(Left) + 1 <= Cardinality(Left')
           \/ f.op = "tell" /\ g.op = "disconnect" /\ g.c \in Lost
           \/ /\ f.op = "subscribe" /\ g.op = "tell"
              /\ Pairs # {}
    PROVE  StepSound(t)
<1>. DEFINE s == stack[t]
            u == stack'[t]
            n == Len(s)
<1>1. /\ n \in Nat \ {0} /\ s[n] = Top(t)
      /\ Len(u) = n + 1 /\ u[n] = f /\ u[n + 1] = g /\ \A i \in 1..(n - 1) : u[i] = s[i]
      /\ \A v \in Task \ {t} : stack'[v] = stack[v]
  BY SteppingFacts, StackOps
<1>2. s \in Seq(Frame) /\ u \in Seq(Frame) /\ Sound(s, Lost, Left)
  BY SteppingFacts
<1>3. Len(s) = n
  OBVIOUS
<1>. HIDE DEF s, u, n
<1>4. n >= 2 => InnerFrame(s[n], Lost)
  BY <1>1, <1>3, <1>2 DEF Sound
<1>5. Deeper(u, n) => Deeper(s, n)
  BY <1>1 DEF Deeper
<1>6. f.op = "tell" => Deeper(s, n)
  BY <1>1 DEF Deeper
<1>7. \/ /\ s[n].op = "disconnect" /\ u[n + 1].op = "leave"
         /\ n >= 2 => Cardinality(Left) + 1 <= Cardinality(Left')
      \/ /\ s[n].op = "tell" /\ Deeper(s, n)
         /\ u[n + 1].op = "disconnect" /\ u[n + 1].c \in Lost
      \/ /\ n = 1 /\ u[2].op = "tell"
         /\ Deeper(u, 2) => Pairs # {}
  BY <1>1, <1>4, <1>6 DEF InnerFrame
<1>8. u[n].op = s[n].op /\ (u[n].c = s[n].c \/ u[n].op # "disconnect")
  BY <1>1
<1>9. Sound(u, Lost, Left')
  BY <1>1, <1>2, <1>3, <1>5, <1>7, <1>8, SteppingFacts, SoundCall
<1>10. Sound(u, Lost', Left')
  BY <1>9, SteppingFacts DEF Sound, InnerFrame
<1>. QED  BY <1>1, <1>10 DEF StepSound, u

\* Which frames are on top when the code of a function runs.
LEMMA FrameKinds ==
    ASSUME NEW f \in Frame
    PROVE  /\ f.op = "disconnect" => f \in DisconnectFrame
           /\ f.op = "leave" => f \in LeaveFrame
           /\ f.op = "tell" => f \in TellFrame
           /\ f.op = "subscribe" => f \in SubscribeFrame
           /\ f.op \in {"disconnect", "leave", "tell", "subscribe"}
BY DEF Frame, DisconnectFrame, LeaveFrame, TellFrame, SubscribeFrame

\* Each step of the disconnect code leaves the stack of its task sound.
LEMMA DisconnectSound ==
    ASSUME Stepping, NEW t \in Task, DisconnectStep(t)
    PROVE  StepSound(t)
<1>. DEFINE f == Top(t)
<1>1. stack[t] # <<>> /\ f.op = "disconnect"
  BY DEF DisconnectStep, DisconnectUnknown, DisconnectNotify, DisconnectUser, DisconnectRoom,
         DisconnectClose, DisconnectUnregister, DisconnectStored, Active
<1>2. f \in DisconnectFrame /\ f \in Frame
  BY <1>1, SteppingFacts, StackTypes, FrameKinds
<1>3. /\ \A a \in {"notify", "close", "db"} :
            /\ [f EXCEPT !.at = a] \in Frame
            /\ [f EXCEPT !.at = a].op = "disconnect" /\ [f EXCEPT !.at = a].c = f.c
      /\ \A todo \in SUBSET Room :
            /\ [f EXCEPT !.at = "rooms", !.todo = todo] \in Frame
            /\ [f EXCEPT !.at = "rooms", !.todo = todo].op = "disconnect"
            /\ [f EXCEPT !.at = "rooms", !.todo = todo].c = f.c
      /\ \A r \in f.todo :
            /\ r \in Room /\ [f EXCEPT !.todo = @ \ {r}] \in Frame
            /\ [f EXCEPT !.todo = @ \ {r}].op = "disconnect"
            /\ [f EXCEPT !.todo = @ \ {r}].c = f.c
            /\ Leaving(f.c, r) \in Frame /\ Leaving(f.c, r).op = "leave"
  BY <1>2 DEF Frame, DisconnectFrame, LeaveFrame, Leaving
<1>4. ASSUME NEW g \in Frame, stack' = Goto(t, g), g.op = "disconnect", g.c = f.c
      PROVE  StepSound(t)
  BY <1>1, <1>4, GotoSound
<1>5. CASE DisconnectUnknown(t) \/ DisconnectStored(t)
  BY <1>1, <1>5, ReturnSound DEF DisconnectUnknown, DisconnectStored
<1>6. CASE DisconnectNotify(t)
  BY <1>3, <1>4, <1>6 DEF DisconnectNotify
<1>7. CASE DisconnectUser(t)
  <2>1. roomKeys \in SUBSET Room
    BY DEF Stepping, TypeOK
  <2>. QED  BY <1>3, <1>4, <1>7, <2>1 DEF DisconnectUser
<1>8. CASE DisconnectClose(t) \/ DisconnectUnregister(t)
  <2>1. \/ Raise(t)
        \/ stack' = Goto(t, [f EXCEPT !.at = "close"])
        \/ stack' = Goto(t, [f EXCEPT !.at = "db"])
    BY <1>8 DEF DisconnectClose, DisconnectUnregister
  <2>2. CASE Raise(t)
    BY <2>2, RaiseSound
  <2>3. CASE stack' = Goto(t, [f EXCEPT !.at = "close"])
    BY <1>3, <1>4, <2>3
  <2>4. CASE stack' = Goto(t, [f EXCEPT !.at = "db"])
    BY <1>3, <1>4, <2>4
  <2>. QED  BY <2>1, <2>2, <2>3, <2>4
<1>9. CASE DisconnectRoom(t)
  <2>1. PICK r \in f.todo :
          \/ Raise(t)
          \/ stack' = Goto(t, [f EXCEPT !.todo = @ \ {r}])
          \/ /\ f.c \in rooms[r] /\ rooms' = [rooms EXCEPT ![r] = @ \ {f.c}]
             /\ stack' = GotoPush(t, [f EXCEPT !.todo = @ \ {r}], Leaving(f.c, r))
    BY <1>9 DEF DisconnectRoom, LeaveRoom
  <2>2. CASE Raise(t)
    BY <2>2, RaiseSound
  <2>3. CASE stack' = Goto(t, [f EXCEPT !.todo = @ \ {r}])
    BY <1>3, <1>4, <2>3
  <2>4. CASE /\ f.c \in rooms[r] /\ rooms' = [rooms EXCEPT ![r] = @ \ {f.c}]
             /\ stack' = GotoPush(t, [f EXCEPT !.todo = @ \ {r}], Leaving(f.c, r))
    <3>1. ASSUME f.c \in Lost PROVE Cardinality(Left) + 1 <= Cardinality(Left')
      <4>1. r \in Room /\ f.c \in Conn
        BY <1>2, <1>3 DEF DisconnectFrame
      <4>. DEFINE p == <<f.c, r>>
      <4>2. p \notin Left
        BY <2>4 DEF Left
      <4>3. p \in Left'
        <5>1. f.c \notin rooms'[r]
          BY <2>4, <4>1 DEF Stepping, TypeOK
        <5>2. f.c \in Lost'
          BY <3>1, SteppingFacts
        <5>. QED  BY <4>1, <5>1, <5>2 DEF Left
      <4>. HIDE DEF p
      <4>4. IsFiniteSet(Left) /\ IsFiniteSet(Left') /\ Cardinality(Left) \in Nat /\ Cardinality(Left') \in Nat
        BY SteppingFacts, PairsFinite, FS_Subset, FS_CardinalityType
      <4>5. Cardinality(Left \cup {p}) = Cardinality(Left) + 1
        BY <4>2, <4>4, FS_AddElement
      <4>6. Left \cup {p} \in SUBSET Left'
        BY <4>3, SteppingFacts
      <4>7. Cardinality(Left \cup {p}) <= Cardinality(Left')
        BY <4>4, <4>6, FS_Subset
      <4>. QED  BY <4>5, <4>7
    <3>. DEFINE g == [f EXCEPT !.todo = @ \ {r}]
                h == Leaving(f.c, r)
    <3>2. /\ g \in Frame /\ g.op = "disconnect" /\ g.c = f.c
          /\ h \in Frame /\ h.op = "leave" /\ stack' = GotoPush(t, g, h)
      BY <1>3, <2>4
    <3>. HIDE DEF g, h
    <3>. QED  BY <1>1, <3>1, <3>2, CallSound
  <2>. QED  BY <2>1, <2>2, <2>3, <2>4
<1>. QED  BY <1>5, <1>6, <1>7, <1>8, <1>9 DEF DisconnectStep

\* And so does each step of the room code.
LEMMA RoomSound ==
    ASSUME Stepping, NEW t \in Task, RoomStep(t)
    PROVE  StepSound(t)
<1>. DEFINE f == Top(t)
<1>1. stack[t] # <<>> /\ f.op \in {"leave", "tell", "subscribe"}
  BY DEF RoomStep, LeaveCached, TellNext, TellSent, TellDone, SubscribeCached, SubscribeConfirm,
         SubscribeConfirmed, Active
<1>2. f \in Frame
  BY <1>1, SteppingFacts, StackTypes
<1>3. \A todo \in SUBSET Conn :
        Telling(todo) \in Frame /\ Telling(todo).op = "tell" /\ Telling(todo).at = "each" /\ Telling(todo).todo = todo
  BY DEF Frame, TellFrame, Telling
<1>4. \A c \in Conn : Disconnect(c, "quiet") \in Frame /\ Disconnect(c, "quiet").op = "disconnect"
                      /\ Disconnect(c, "quiet").c = c
  BY DEF Frame, DisconnectFrame, Disconnect
<1>5. rooms \in [Room -> SUBSET Conn]
  BY DEF Stepping, TypeOK
<1>6. ASSUME NEW r \in Room, NEW m \in rooms[r]
      PROVE  Cardinality(Left) < Cardinality(Pairs)
  <2>1. <<m, r>> \in Pairs \ Left
    BY <1>5 DEF Pairs, Left
  <2>2. IsFiniteSet(Pairs) /\ Left \in SUBSET Pairs /\ Cardinality(Pairs) \in Nat
    BY SteppingFacts, PairsFinite
  <2>3. Cardinality(Left) <= Cardinality(Pairs) /\ Cardinality(Left) # Cardinality(Pairs)
    BY <2>1, <2>2, FS_Subset
  <2>. QED  BY <2>2, <2>3, FS_Subset, FS_CardinalityType
<1>7. CASE LeaveCached(t)
  <2>1. f.op = "leave" /\ f.r \in Room
    BY <1>2, <1>7, FrameKinds DEF LeaveCached, Active, LeaveFrame
  <2>2. stack' = Return(t) \/ stack' = Goto(t, Telling(rooms[f.r]))
    BY <1>7 DEF LeaveCached
  <2>. DEFINE g == Telling(rooms[f.r])
  <2>3. g \in Frame /\ g.op = "tell" /\ g.at = "each" /\ g.todo = rooms[f.r]
    BY <1>3, <1>5, <2>1
  <2>4. g.todo # {} => Cardinality(Left) < Cardinality(Pairs)
    BY <1>6, <2>1, <2>3
  <2>. HIDE DEF g
  <2>5. CASE stack' = Goto(t, g)
    BY <1>1, <2>1, <2>3, <2>4, <2>5, GotoSound
  <2>. QED  BY <1>1, <2>2, <2>5, ReturnSound DEF g
<1>8. CASE TellNext(t)
  <2>1. f \in TellFrame /\ f.op = "tell" /\ f.at = "each"
    BY <1>2, <1>8, FrameKinds DEF TellNext, Active
  <2>2. PICK m \in f.todo : \/ stack' = Goto(t, [f EXCEPT !.todo = @ \ {m}])
                            \/ stack' = Goto(t, [f EXCEPT !.todo = @ \ {m}, !.c = m, !.at = "send"])
    BY <1>8 DEF TellNext
  <2>3. PICK g \in Frame : g.op = "tell" /\ stack' = Goto(t, g)
    <3>1. /\ [f EXCEPT !.todo = @ \ {m}] \in Frame
          /\ [f EXCEPT !.todo = @ \ {m}, !.c = m, !.at = "send"] \in Frame
          /\ [f EXCEPT !.todo = @ \ {m}].op = "tell"
          /\ [f EXCEPT !.todo = @ \ {m}, !.c = m, !.at = "send"].op = "tell"
      BY <2>1 DEF Frame, TellFrame
    <3>. QED  BY <2>2, <3>1
  <2>4. f.todo # {}
    BY <2>2
  <2>. QED  BY <1>1, <2>1, <2>3, <2>4, GotoSound
<1>9. CASE TellSent(t)
  <2>1. f \in TellFrame /\ f.op = "tell" /\ f.at = "send" /\ f.c \in Conn /\ f.todo \in SUBSET Conn
    BY <1>2, <1>9, FrameKinds DEF TellSent, Active, TellFrame
  <2>2. \/ stack' = Goto(t, Telling(f.todo))
        \/ SendFails(f.c) /\ stack' = GotoPush(t, Telling(f.todo), Disconnect(f.c, "quiet"))
    BY <1>9 DEF TellSent
  <2>. DEFINE g == Telling(f.todo)
              h == Disconnect(f.c, "quiet")
  <2>3. g \in Frame /\ g.op = "tell" /\ h \in Frame /\ h.op = "disconnect" /\ h.c = f.c
    BY <1>3, <1>4, <2>1
  <2>. HIDE DEF g, h
  <2>4. CASE stack' = Goto(t, g)
    BY <1>1, <2>1, <2>3, <2>4, GotoSound
  <2>5. CASE SendFails(f.c) /\ stack' = GotoPush(t, g, h)
    <3>1. h.c \in Lost
      BY <2>1, <2>3, <2>5 DEF Lost
    <3>. QED  BY <1>1, <2>1, <2>3, <2>5, <3>1, CallSound
  <2>. QED  BY <2>2, <2>4, <2>5 DEF g, h
<1>10. CASE TellDone(t)
  BY <1>1, <1>10, ReturnSound DEF TellDone
<1>11. CASE SubscribeCached(t)
  <2>1. f \in SubscribeFrame /\ f.op = "subscribe" /\ f.c \in Conn /\ f.r \in Room
    BY <1>2, <1>11, FrameKinds DEF SubscribeCached, Active, SubscribeFrame
  <2>. DEFINE g == [f EXCEPT !.at = "joined"]
              h == Telling(rooms[f.r] \ {f.c})
  <2>2. \/ Raise(t)
        \/ stack' = Return(t)
        \/ stack' = GotoPush(t, g, h)
    BY <1>11 DEF SubscribeCached
  <2>3. g \in Frame /\ g.op = "subscribe" /\ h \in Frame /\ h.op = "tell"
    <3>1. g \in Frame /\ g.op = "subscribe"
      BY <2>1 DEF Frame, SubscribeFrame
    <3>. QED  BY <1>3, <1>5, <2>1, <3>1
  <2>4. Pairs # {}
    <3>1. <<f.c, f.r>> \in Pairs
      BY <2>1 DEF Pairs
    <3>. QED  BY <3>1
  <2>. HIDE DEF g, h
  <2>5. CASE stack' = GotoPush(t, g, h)
    BY <1>1, <2>1, <2>3, <2>4, <2>5, CallSound
  <2>. QED  BY <1>1, <2>2, <2>5, RaiseSound, ReturnSound
<1>12. CASE SubscribeConfirm(t) \/ SubscribeConfirmed(t)
  <2>1. f \in SubscribeFrame /\ f.op = "subscribe" /\ f.c \in Conn
    BY <1>2, <1>12, FrameKinds DEF SubscribeConfirm, SubscribeConfirmed, Active, SubscribeFrame
  <2>2. \/ stack' = Return(t)
        \/ stack' = Goto(t, [f EXCEPT !.at = "confirm"])
        \/ stack' = Goto(t, Disconnect(f.c, "quiet"))
    BY <1>12 DEF SubscribeConfirm, SubscribeConfirmed
  <2>3. /\ [f EXCEPT !.at = "confirm"] \in Frame /\ [f EXCEPT !.at = "confirm"].op = "subscribe"
        /\ Disconnect(f.c, "quiet") \in Frame /\ Disconnect(f.c, "quiet").op = "disconnect"
    BY <1>4, <2>1 DEF Frame, SubscribeFrame
  <2>4. stack' = Return(t) \/ \E g \in Frame : g.op # "tell" /\ stack' = Goto(t, g)
    BY <2>2, <2>3
  <2>5. ASSUME NEW g \in Frame, g.op # "tell", stack' = Goto(t, g)
        PROVE  StepSound(t)
    BY <1>1, <2>1, <2>5, GotoSound
  <2>. QED  BY <1>1, <2>4, <2>5, ReturnSound
<1>. QED  BY <1>7, <1>8, <1>9, <1>10, <1>11, <1>12 DEF RoomStep

\* A task with no call to finish begins one.
LEMMA PushSound ==
    ASSUME Stepping, NEW t \in Task, stack[t] = <<>>, NEW f \in Frame, stack' = Push(t, f), f.op # "tell"
    PROVE  StepSound(t)
<1>1. stack'[t] = <<f>> /\ \A v \in Task \ {t} : stack'[v] = stack[v]
  BY SteppingFacts DEF Push
<1>2. Len(stack'[t]) = 1 /\ stack'[t][1] = f
  BY <1>1
<1>3. Len(stack'[t]) = 1 /\ ~ Deeper(stack'[t], 1)
  BY <1>2 DEF Deeper
<1>4. Sound(stack'[t], Lost', Left')
  BY <1>3, SteppingFacts, SoundStart
<1>. QED  BY <1>1, <1>4 DEF StepSound

LEMMA StillSound ==
    ASSUME Stepping, NEW t \in Task, stack'[t] = stack[t]
    PROVE  Sound(stack'[t], Lost', Left')
<1>1. Len(stack[t]) <= Len(stack[t]) /\ Len(stack[t]) \in Nat
  BY SteppingFacts
<1>. QED  BY <1>1, SteppingFacts, SoundSame

LEMMA EndpointSound ==
    ASSUME Stepping, NEW c \in Conn, EndpointStep(c) \/ Message(c)
    PROVE  UNCHANGED stack \/ StepSound(c)
<1>1. c \in Task
  BY DEF Task
<1>2. /\ \A a \in {"call", "quiet"} :
            Disconnect(c, a) \in Frame /\ Disconnect(c, a).op = "disconnect" /\ Disconnect(c, a).c = c
      /\ \A r \in Room : Leaving(c, r) \in Frame /\ Leaving(c, r).op = "leave"
      /\ \A r \in Room : [op |-> "subscribe", at |-> "sadd", c |-> c, r |-> r, todo |-> {}] \in Frame
  BY DEF Frame, DisconnectFrame, LeaveFrame, SubscribeFrame, Disconnect, Leaving
<1>3. CASE Welcomed(c) /\ ~ UNCHANGED stack
  <2>1. stack' = [stack EXCEPT ![c] = <<Disconnect(c, "call"), Disconnect(c, "quiet")>>] /\ c \in Lost
    BY <1>3 DEF Welcomed, Lost
  <2>2. /\ stack'[c] = <<Disconnect(c, "call"), Disconnect(c, "quiet")>>
        /\ \A v \in Task \ {c} : stack'[v] = stack[v]
    BY <1>1, <2>1, SteppingFacts
  <2>3. /\ Len(stack'[c]) = 2 /\ stack'[c][1] = Disconnect(c, "call") /\ stack'[c][2] = Disconnect(c, "quiet")
    BY <2>2
  <2>4. ~ Deeper(stack'[c], 1) /\ stack'[c][2].op = "disconnect" /\ stack'[c][2].c \in Lost'
    BY <1>2, <2>1, <2>3, <1>1, SteppingFacts DEF Deeper
  <2>5. Sound(stack'[c], Lost', Left')
    BY <1>1, <2>3, <2>4, SteppingFacts, SoundStart
  <2>. QED  BY <2>2, <2>5 DEF StepSound
<1>4. CASE (Replied(c) \/ FatalSent(c) \/ Cleanup(c)) /\ ~ UNCHANGED stack
  <2>1. stack[c] = <<>>
    BY <1>4 DEF Replied, FatalSent, Cleanup, Stepping, DepthInv, Unengaged
  <2>2. \E a \in {"call", "quiet"} : stack' = Push(c, Disconnect(c, a))
    BY <1>4 DEF Replied, FatalSent, Cleanup
  <2>. QED  BY <1>1, <1>2, <2>1, <2>2, PushSound
<1>5. CASE \E r \in Room : Subscribe(c, r) \/ Unsubscribe(c, r)
  <2>1. stack[c] = <<>>
    BY <1>5 DEF Subscribe, Unsubscribe, Receives, Serving
  <2>2. PICK r \in Room : \/ stack' = Push(c, [op |-> "subscribe", at |-> "sadd", c |-> c, r |-> r, todo |-> {}])
                          \/ stack' = Push(c, Leaving(c, r))
    BY <1>5 DEF Subscribe, Unsubscribe
  <2>3. \E f \in Frame : f.op # "tell" /\ stack' = Push(c, f)
    BY <1>2, <2>2
  <2>. QED  BY <1>1, <2>1, <2>3, PushSound
<1>6. CASE \/ Connect(c) \/ Accepted(c) \/ Stored(c) \/ Refused(c) \/ Reply(c)
           \/ AwaitMessage(c) \/ HangUp(c) \/ Fatal(c) \/ Closed(c)
  BY <1>6 DEF Connect, Accepted, Stored, Refused, Reply, AwaitMessage, HangUp, Fatal, Closed
<1>. QED  BY <1>3, <1>4, <1>5, <1>6 DEF EndpointStep, Message

LEMMA BeatSound ==
    ASSUME Stepping, BeatStep
    PROVE  UNCHANGED stack \/ StepSound(Heartbeat)
<1>1. CASE BeatSent /\ ~ UNCHANGED stack
  <2>1. stack[Heartbeat] = <<>> /\ beat.at = "send" /\ stack' = Push(Heartbeat, Disconnect(beat.c, "quiet"))
    BY <1>1 DEF BeatSent
  <2>2. beat.c \in Conn
    BY <2>1 DEF Stepping, TypeOK
  <2>3. Disconnect(beat.c, "quiet") \in Frame /\ Disconnect(beat.c, "quiet").op # "tell"
    BY <2>2 DEF Frame, DisconnectFrame, Disconnect
  <2>. QED  BY <2>1, <2>3, PushSound DEF Task
<1>2. CASE BeatReaps
  <2>1. PICK c \in beat.dead : stack' = Push(Heartbeat, Disconnect(c, "call"))
    BY <1>2 DEF BeatReaps
  <2>2. c \in Conn /\ stack[Heartbeat] = <<>>
    BY <1>2 DEF BeatReaps, BeatIdle, Stepping, TypeOK
  <2>3. Disconnect(c, "call") \in Frame /\ Disconnect(c, "call").op # "tell"
    BY <2>2 DEF Frame, DisconnectFrame, Disconnect
  <2>. QED  BY <2>1, <2>2, <2>3, PushSound DEF Task
<1>3. CASE BeatWakes \/ BeatNext \/ BeatSwept \/ BeatSleeps
  BY <1>3 DEF BeatWakes, BeatFinds, BeatNext, BeatSwept, BeatSleeps
<1>. QED  BY <1>1, <1>2, <1>3 DEF BeatStep

LEMMA NextStacks ==
    ASSUME Stepping
    PROVE  StacksSound'
<1>1. ASSUME NEW t \in Task, StepSound(t)
      PROVE  StacksSound'
  BY <1>1, StillSound DEF StepSound, StacksSound
<1>2. CASE UNCHANGED stack
  BY <1>2, StillSound DEF StacksSound
<1>3. UNCHANGED vars => UNCHANGED stack
  BY DEF vars, tasks
<1>4. \A c \in Conn : ClientLeaves(c) => UNCHANGED stack
  BY DEF ClientLeaves, tasks
<1>5. \A c \in Conn : c \in Task
  BY DEF Task
<1>6. Heartbeat \in Task
  BY DEF Task
<1>. QED  BY <1>1, <1>2, <1>3, <1>4, <1>5, <1>6, DisconnectSound, RoomSound, EndpointSound, BeatSound
          DEF Stepping, Next, CallStep

LEMMA NextUnengaged ==
    ASSUME Stepping
    PROVE  Unengaged'
<1>. DEFINE Rests == {"reply", "fatal", "lastwords"}
<1>1. stack \in [Task -> Seq(Frame)] /\ pc \in [Conn -> EndpointState] /\ Heartbeat \notin Conn
      /\ Unengaged
  BY ConnAssumption DEF Stepping, TypeOK, DepthInv
<1>2. ASSUME NEW t \in Task, Raise(t)
      PROVE  Unengaged'
  <2>1. stack' = [stack EXCEPT ![t] = <<>>]
    BY <1>2 DEF Raise
  <2>2. \A c \in Conn : c # t => pc'[c] = pc[c] /\ stack'[c] = stack[c]
    BY <1>1, <1>2, <2>1 DEF Raise, Task
  <2>3. t \in Conn => stack'[t] = <<>>
    BY <1>1, <2>1
  <2>. QED  BY <1>1, <2>2, <2>3 DEF Unengaged
<1>3. ASSUME NEW t \in Task, UNCHANGED pc, \A v \in Task \ {t} : stack'[v] = stack[v], stack[t] # <<>>
      PROVE  Unengaged'
  BY <1>1, <1>3 DEF Unengaged, Task
<1>4. ASSUME NEW t \in Task, CallStep(t)
      PROVE  Unengaged'
  <2>1. CASE Raise(t)
    BY <1>2, <2>1
  <2>2. CASE ~Raise(t)
    <3>1. UNCHANGED pc /\ stack[t] # <<>>
      BY <1>4, <2>2 DEF CallStep, DisconnectStep, RoomStep, DisconnectUnknown, DisconnectNotify,
         DisconnectUser, DisconnectRoom, DisconnectClose, DisconnectUnregister, DisconnectStored,
         LeaveCached, TellNext, TellSent, TellDone, SubscribeCached, SubscribeConfirm,
         SubscribeConfirmed, Active
    <3>2. StepSound(t)
      BY <1>4, DisconnectSound, RoomSound DEF CallStep
    <3>. QED  BY <1>3, <3>1, <3>2 DEF StepSound
  <2>. QED  BY <2>1, <2>2
<1>5. ASSUME NEW c \in Conn, EndpointStep(c) \/ Message(c)
      PROVE  Unengaged'
  <2>1. \A d \in Conn : d # c => pc'[d] = pc[d] /\ stack'[d] = stack[d]
    <3>1. \A d \in Conn : d # c => stack'[d] = stack[d]
      BY <1>5, EndpointSound DEF StepSound, Task
    <3>2. pc' = pc \/ \E q : pc' = [pc EXCEPT ![c] = q]
      BY <1>5 DEF EndpointStep, Message, Connect, Accepted, Stored, Welcomed, Refused, Reply, Replied,
         AwaitMessage, HangUp, Fatal, FatalSent, Cleanup, Closed, Subscribe, Unsubscribe
    <3>. QED  BY <1>1, <3>1, <3>2
  <2>2. pc'[c] \in Rests => stack'[c] = <<>>
    <3>1. CASE Fatal(c)
      BY <1>1, <3>1 DEF Fatal, Unengaged
    <3>2. CASE Reply(c)
      BY <1>1, <3>2 DEF Reply, Receives, Serving
    <3>3. CASE UNCHANGED <<pc, stack>>
      BY <1>1, <3>3 DEF Unengaged
    <3>4. CASE \E q \in EndpointState \ Rests : pc' = [pc EXCEPT ![c] = q]
      BY <1>1, <3>4
    <3>5. CASE pc[c] = "serve" /\ UNCHANGED pc
      BY <3>5
    <3>. QED  BY <1>5, <3>1, <3>2, <3>3, <3>4, <3>5
              DEF EndpointStep, Message, Connect, Accepted, Stored, Welcomed, Refused, Replied, EndpointState,
                  AwaitMessage, HangUp, FatalSent, Cleanup, Closed, Subscribe, Unsubscribe, Receives, Serving
  <2>. QED  BY <1>1, <2>1, <2>2 DEF Unengaged
<1>6. CASE BeatStep
  <2>1. \A d \in Conn : stack'[d] = stack[d]
    BY <1>1, <1>6, BeatSound DEF StepSound, Task
  <2>2. UNCHANGED pc
    BY <1>6 DEF BeatStep, BeatWakes, BeatFinds, BeatNext, BeatSent, BeatSwept, BeatReaps, BeatSleeps
  <2>. QED  BY <1>1, <2>1, <2>2 DEF Unengaged
<1>7. UNCHANGED vars \/ (\E c \in Conn : ClientLeaves(c)) => Unengaged'
  BY <1>1 DEF ClientLeaves, vars, tasks, Unengaged
<1>. QED  BY <1>4, <1>5, <1>6, <1>7 DEF Stepping, Next

LEMMA InitDepth ==
    ASSUME IsFiniteSet(Room), Init
    PROVE  DepthInv
<1>1. \A t \in Task : stack[t] = <<>>
  BY DEF Init
<1>2. Left \in SUBSET Pairs
  BY DEF Left, Pairs
<1>3. <<>> \in Seq(Frame)
  OBVIOUS
<1>4. Sound(<<>>, Lost, Left)
  BY <1>2, <1>3, SoundStart
<1>. QED  BY <1>1, <1>4 DEF Init, DepthInv, StacksSound, Unengaged

\* The recursion of disconnect, _leave_room_internal, send_to_room and
\* _send_message_direct is bounded, for any number of connections and finitely
\* many rooms: each nested disconnect is of a connection that no send reaches any
\* more, and takes it out of a room that it will never join again.
THEOREM RecursionBounded ==
    ASSUME IsFiniteSet(Room)
    PROVE  Spec => []StackBound
<1>1. Init => DepthInv
  BY InitDepth
<1>2. TypeOK /\ TypeOK' /\ DepthInv /\ [Next]_vars => DepthInv'
  BY NextStacks, NextUnengaged DEF Stepping, DepthInv
<1>3. TypeOK /\ DepthInv => StackBound
  <2>1. ASSUME TypeOK, DepthInv, NEW t \in Task
        PROVE  Len(stack[t]) <= 2 * Cardinality(Pairs) + 2
    <3>1. stack[t] \in Seq(Frame) /\ Left \in SUBSET Pairs /\ Sound(stack[t], Lost, Left)
      BY <2>1 DEF TypeOK, DepthInv, StacksSound, Left, Pairs
    <3>. QED  BY <3>1, SoundBounded
  <2>2. 2 * Cardinality(Pairs) = 2 * Cardinality(Conn) * Cardinality(Room)
    <3>1. Cardinality(Conn) \in Nat /\ Cardinality(Room) \in Nat
      BY ConnAssumption, FS_CardinalityType
    <3>. DEFINE m == Cardinality(Conn)
                n == Cardinality(Room)
    <3>. HIDE DEF m, n
    <3>2. m \in Nat /\ n \in Nat => 2 * (m * n) = 2 * m * n
      OBVIOUS
    <3>. QED  BY <3>1, <3>2, PairsFinite DEF m, n
  <2>. QED  BY <2>1, <2>2 DEF StackBound
<1>. QED  BY <1>1, <1>2, <1>3, TypeCorrect, PTL DEF Spec
(***************************************************************************)
(* What connect and the endpoint may rely on when their own disconnect     *)
(* returns.  Until then it is the outermost call of their task, and it has *)
(* not yet reached the point past which it has forgotten the connection    *)
(* itself; if it finds the connection gone, another task has forgotten it, *)
(* and nobody registers it again.                                          *)
(***************************************************************************)
Disconnecting(c) ==
    /\ stack[c] # <<>>
    /\ stack[c][1].op = "disconnect" /\ stack[c][1].c = c /\ stack[c][1].at # "db"

EndInv == \A c \in Conn : pc[c] \in {"refused", "closing"} => c \notin conns \/ Disconnecting(c)

\* One step of a call that does not raise: it returns, or goes on, perhaps
\* calling another.  A disconnect returns, or reaches the database, only with
\* its connection out of the registry.
Returns(t) ==
    /\ stack' = Return(t)
    /\ Top(t).op = "disconnect" => Top(t).at = "db" \/ Top(t).c \notin conns

GoesOn(t, f) ==
    /\ stack' = Goto(t, f) \/ \E g \in Frame : stack' = GotoPush(t, f, g)
    /\ Top(t).op = "disconnect" =>
            f.op = "disconnect" /\ f.c = Top(t).c /\ (f.at = "db" => f.c \notin conns')

Turn(t) == Returns(t) \/ \E f \in Frame : GoesOn(t, f)

LEMMA DisconnectTurn ==
    ASSUME TypeOK, NEW t \in Task, DisconnectStep(t), ~Raise(t)
    PROVE  stack[t] # <<>> /\ UNCHANGED pc /\ conns' \subseteq conns /\ Turn(t)
<1>. DEFINE f == Top(t)
<1>1. stack[t] # <<>> /\ f.op = "disconnect" /\ UNCHANGED pc /\ conns' \subseteq conns
  BY DEF DisconnectStep, DisconnectUnknown, DisconnectNotify, DisconnectUser, DisconnectRoom,
         DisconnectClose, DisconnectUnregister, DisconnectStored, Active, registry
<1>. SUFFICES Turn(t)
  BY <1>1
<1>2. f \in DisconnectFrame
  BY <1>1, StackTypes, FrameKinds DEF TypeOK
<1>3. /\ \A a \in {"notify", "close", "db"} :
            /\ [f EXCEPT !.at = a] \in Frame /\ [f EXCEPT !.at = a].at = a
            /\ [f EXCEPT !.at = a].op = "disconnect" /\ [f EXCEPT !.at = a].c = f.c
      /\ \A todo \in SUBSET Room :
            /\ [f EXCEPT !.at = "rooms", !.todo = todo] \in Frame
            /\ [f EXCEPT !.at = "rooms", !.todo = todo].at = "rooms"
            /\ [f EXCEPT !.at = "rooms", !.todo = todo].op = "disconnect"
            /\ [f EXCEPT !.at = "rooms", !.todo = todo].c = f.c
      /\ \A r \in f.todo :
            /\ r \in Room /\ [f EXCEPT !.todo = @ \ {r}] \in Frame
            /\ [f EXCEPT !.todo = @ \ {r}].op = "disconnect"
            /\ [f EXCEPT !.todo = @ \ {r}].c = f.c
            /\ [f EXCEPT !.todo = @ \ {r}].at = f.at
            /\ Leaving(f.c, r) \in Frame
  BY <1>2 DEF Frame, DisconnectFrame, LeaveFrame, Leaving
<1>4. ASSUME NEW g \in Frame, g.op = "disconnect", g.c = f.c, g.at = "db" => f.c \notin conns',
             stack' = Goto(t, g) \/ \E h \in Frame : stack' = GotoPush(t, g, h)
      PROVE  Turn(t)
  <2>1. GoesOn(t, g)
    BY <1>4 DEF GoesOn
  <2>. QED  BY <2>1 DEF Turn
<1>5. CASE DisconnectUnknown(t) \/ DisconnectStored(t)
  BY <1>5 DEF DisconnectUnknown, DisconnectStored, Active, Turn, Returns
<1>6. CASE DisconnectNotify(t)
  BY <1>3, <1>4, <1>6 DEF DisconnectNotify
<1>7. CASE DisconnectUser(t)
  <2>1. roomKeys \in SUBSET Room
    BY DEF TypeOK
  <2>. DEFINE g == [f EXCEPT !.at = "rooms", !.todo = roomKeys]
  <2>2. g \in Frame /\ g.op = "disconnect" /\ g.c = f.c /\ g.at = "rooms" /\ stack' = Goto(t, g)
    BY <1>3, <1>7, <2>1 DEF DisconnectUser
  <2>. HIDE DEF g
  <2>. QED  BY <1>4, <2>2
<1>8. CASE DisconnectRoom(t)
  <2>1. PICK r \in f.todo :
          \/ stack' = Goto(t, [f EXCEPT !.todo = @ \ {r}])
          \/ stack' = GotoPush(t, [f EXCEPT !.todo = @ \ {r}], Leaving(f.c, r))
    BY <1>8 DEF DisconnectRoom
  <2>. DEFINE g == [f EXCEPT !.todo = @ \ {r}]
              h == Leaving(f.c, r)
  <2>2. f.at = "rooms"
    BY <1>8 DEF DisconnectRoom, Active
  <2>3. /\ g \in Frame /\ g.op = "disconnect" /\ g.c = f.c /\ g.at = "rooms" /\ h \in Frame
        /\ stack' = Goto(t, g) \/ stack' = GotoPush(t, g, h)
    BY <1>3, <2>1, <2>2
  <2>. HIDE DEF g, h
  <2>. QED  BY <1>4, <2>3
<1>9. CASE DisconnectClose(t)
  <2>. DEFINE g == [f EXCEPT !.at = "close"]
  <2>1. g \in Frame /\ g.op = "disconnect" /\ g.c = f.c /\ g.at = "close" /\ stack' = Goto(t, g)
    BY <1>3, <1>9 DEF DisconnectClose
  <2>. HIDE DEF g
  <2>. QED  BY <1>4, <2>1
<1>10. CASE DisconnectUnregister(t)
  <2>. DEFINE g == [f EXCEPT !.at = "db"]
  <2>1. /\ g \in Frame /\ g.op = "disconnect" /\ g.c = f.c /\ stack' = Goto(t, g)
        /\ f.c \notin conns'
    BY <1>3, <1>10 DEF DisconnectUnregister
  <2>. HIDE DEF g
  <2>. QED  BY <1>4, <2>1
<1>. QED  BY <1>5, <1>6, <1>7, <1>8, <1>9, <1>10 DEF DisconnectStep

LEMMA RoomTurn ==
    ASSUME TypeOK, NEW t \in Task, RoomStep(t), ~Raise(t)
    PROVE  stack[t] # <<>> /\ UNCHANGED <<pc, conns>> /\ Turn(t)
<1>. DEFINE f == Top(t)
<1>1. stack[t] # <<>> /\ f.op \in {"leave", "tell", "subscribe"} /\ UNCHANGED <<pc, conns>>
  BY DEF RoomStep, LeaveCached, TellNext, TellSent, TellDone, SubscribeCached, SubscribeConfirm,
         SubscribeConfirmed, Active, registry
<1>. SUFFICES Turn(t)
  BY <1>1
<1>2. f \in Frame /\ rooms \in [Room -> SUBSET Conn]
  BY <1>1, StackTypes DEF TypeOK
<1>3. \A todo \in SUBSET Conn : Telling(todo) \in Frame
  BY DEF Frame, TellFrame, Telling
<1>4. \A c \in Conn : Disconnect(c, "quiet") \in Frame
  BY DEF Frame, DisconnectFrame, Disconnect
<1>5. ASSUME \/ stack' = Return(t)
             \/ \E g \in Frame : stack' = Goto(t, g)
             \/ \E g, h \in Frame : stack' = GotoPush(t, g, h)
      PROVE  Turn(t)
  BY <1>1, <1>5 DEF Turn, Returns, GoesOn
<1>6. CASE LeaveCached(t)
  <2>1. f.r \in Room
    BY <1>2, <1>6, FrameKinds DEF LeaveCached, Active, LeaveFrame
  <2>2. stack' = Return(t) \/ stack' = Goto(t, Telling(rooms[f.r]))
    BY <1>6 DEF LeaveCached
  <2>. QED  BY <1>2, <1>3, <1>5, <2>1, <2>2
<1>7. CASE TellNext(t)
  <2>1. f \in TellFrame
    BY <1>2, <1>7, FrameKinds DEF TellNext, Active
  <2>2. PICK m \in f.todo : \/ stack' = Goto(t, [f EXCEPT !.todo = @ \ {m}])
                            \/ stack' = Goto(t, [f EXCEPT !.todo = @ \ {m}, !.c = m, !.at = "send"])
    BY <1>7 DEF TellNext
  <2>3. /\ [f EXCEPT !.todo = @ \ {m}] \in Frame
        /\ [f EXCEPT !.todo = @ \ {m}, !.c = m, !.at = "send"] \in Frame
    BY <2>1 DEF Frame, TellFrame
  <2>. QED  BY <1>5, <2>2, <2>3
<1>8. CASE TellSent(t)
  <2>1. f.c \in Conn /\ f.todo \in SUBSET Conn
    BY <1>2, <1>8, FrameKinds DEF TellSent, Active, TellFrame
  <2>2. \/ stack' = Goto(t, Telling(f.todo))
        \/ stack' = GotoPush(t, Telling(f.todo), Disconnect(f.c, "quiet"))
    BY <1>8 DEF TellSent
  <2>. QED  BY <1>3, <1>4, <1>5, <2>1, <2>2
<1>9. CASE TellDone(t)
  BY <1>5, <1>9 DEF TellDone
<1>10. CASE SubscribeCached(t)
  <2>1. f \in SubscribeFrame /\ f.c \in Conn /\ f.r \in Room
    BY <1>2, <1>10, FrameKinds DEF SubscribeCached, Active, SubscribeFrame
  <2>2. [f EXCEPT !.at = "joined"] \in Frame
    BY <2>1 DEF Frame, SubscribeFrame
  <2>3. \/ stack' = Return(t)
        \/ stack' = GotoPush(t, [f EXCEPT !.at = "joined"], Telling(rooms[f.r] \ {f.c}))
    BY <1>10 DEF SubscribeCached
  <2>4. Telling(rooms[f.r] \ {f.c}) \in Frame
    BY <1>2, <1>3, <2>1
  <2>. QED  BY <1>5, <2>2, <2>3, <2>4
<1>11. CASE SubscribeConfirm(t) \/ SubscribeConfirmed(t)
  <2>1. f \in SubscribeFrame /\ f.c \in Conn
    BY <1>2, <1>11, FrameKinds DEF SubscribeConfirm, SubscribeConfirmed, Active, SubscribeFrame
  <2>2. \/ stack' = Return(t)
        \/ stack' = Goto(t, [f EXCEPT !.at = "confirm"])
        \/ stack' = Goto(t, Disconnect(f.c, "quiet"))
    BY <1>11 DEF SubscribeConfirm, SubscribeConfirmed
  <2>3. [f EXCEPT !.at = "confirm"] \in Frame
    BY <2>1 DEF Frame, SubscribeFrame
  <2>. QED  BY <1>4, <1>5, <2>1, <2>2, <2>3
<1>. QED  BY <1>6, <1>7, <1>8, <1>9, <1>10, <1>11 DEF RoomStep

\* A step of a call keeps the invariant: what it does to the outermost call of
\* its task it does only when that is the call that is running.
LEMMA CallEnds ==
    ASSUME TypeOK, EndInv, NEW t \in Task, CallStep(t)
    PROVE  EndInv'
<1>. SUFFICES ASSUME NEW c \in Conn, pc'[c] \in {"refused", "closing"}
              PROVE  c \notin conns' \/ Disconnecting(c)'
  BY DEF EndInv
<1>. DEFINE s == stack[c]
            u == stack'[c]
<1>1. stack \in [Task -> Seq(Frame)] /\ pc \in [Conn -> EndpointState] /\ Heartbeat \notin Conn /\ c \in Task
  BY ConnAssumption DEF TypeOK, Task
<1>2. conns' \subseteq conns
  BY DEF CallStep, DisconnectStep, RoomStep, DisconnectUnknown, DisconnectNotify,
         DisconnectUser, DisconnectRoom, DisconnectClose, DisconnectUnregister, DisconnectStored,
         LeaveCached, TellNext, TellSent, TellDone, SubscribeCached, SubscribeConfirm,
         SubscribeConfirmed, registry
<1>3. CASE Raise(t)
  <2>1. c # t /\ pc'[c] = pc[c] /\ stack'[c] = stack[c]
    BY <1>1, <1>3 DEF Raise
  <2>. QED  BY <1>2, <2>1 DEF EndInv, Disconnecting
<1>4. CASE ~Raise(t)
  <2>1. stack[t] # <<>> /\ pc'[c] = pc[c] /\ Turn(t)
    BY <1>4, DisconnectTurn, RoomTurn DEF CallStep
  <2>2. SUFFICES ASSUME Disconnecting(c) PROVE c \notin conns' \/ Disconnecting(c)'
    BY <1>2, <2>1 DEF EndInv
  <2>3. \A v \in Task \ {t} : stack'[v] = stack[v]
    BY <1>1, <2>1, StackOps DEF Turn, Returns, GoesOn
  <2>4. CASE t # c
    BY <1>1, <2>2, <2>3, <2>4 DEF Disconnecting
  <2>5. CASE t = c /\ Len(s) = 1
    <3>1. Top(c) = s[1] /\ Top(c).op = "disconnect" /\ Top(c).c = c /\ Top(c).at # "db"
      BY <2>2, <2>5 DEF Disconnecting, Top
    <3>2. CASE Returns(c)
      BY <1>2, <3>1, <3>2 DEF Returns
    <3>3. ASSUME NEW f \in Frame, GoesOn(c, f)
          PROVE  c \notin conns' \/ Disconnecting(c)'
      <4>1. u # <<>> /\ u[1] = f
        <5>1. stack' = Goto(c, f) \/ \E g \in Frame : stack' = GotoPush(c, f, g)
          BY <3>3 DEF GoesOn
        <5>2. CASE stack' = Goto(c, f)
          <6>1. Len(u) = 1 /\ u[1] = f
            BY <1>1, <2>1, <2>5, <5>2, StackOps
          <6>. QED  BY <6>1
        <5>3. ASSUME NEW g \in Frame, stack' = GotoPush(c, f, g)
              PROVE  u # <<>> /\ u[1] = f
          <6>1. Len(u) = Len(s) + 1 /\ u[Len(s)] = f
            BY <1>1, <2>1, <2>5, <5>3, StackOps
          <6>2. Len(u) = 2 /\ u[1] = f
            BY <2>5, <6>1
          <6>. QED  BY <6>2
        <5>. QED  BY <5>1, <5>2, <5>3
      <4>2. f.op = "disconnect" /\ f.c = c /\ (f.at = "db" => c \notin conns')
        BY <3>1, <3>3 DEF GoesOn
      <4>. QED  BY <4>1, <4>2 DEF Disconnecting
    <3>. QED  BY <2>1, <2>5, <3>2, <3>3 DEF Turn
  <2>6. CASE t = c /\ Len(s) # 1
    <3>1. Len(s) \in Nat /\ Len(s) >= 2
      <4>1. Len(s) \in Nat \ {0}
        BY <1>1, <2>1, <2>6, StackOps
      <4>. DEFINE n == Len(s)
      <4>2. n \in Nat \ {0} /\ n # 1
        BY <2>6, <4>1
      <4>. HIDE DEF n
      <4>3. n \in Nat /\ n >= 2
        BY <4>2
      <4>. QED  BY <4>3 DEF n
    <3>2. Len(u) >= 1 /\ u[1] = s[1]
      BY <1>1, <2>1, <2>6, <3>1, StackOps DEF Turn, Returns, GoesOn
    <3>3. u # <<>>
      BY <3>2
    <3>. QED  BY <2>2, <3>2, <3>3 DEF Disconnecting
  <2>. QED  BY <2>4, <2>5, <2>6
<1>. QED  BY <1>3, <1>4

LEMMA EndpointEnds ==
    ASSUME TypeOK, EndInv, NEW d \in Conn, EndpointStep(d) \/ Message(d)
    PROVE  EndInv'
<1>. SUFFICES ASSUME NEW c \in Conn, pc'[c] \in {"refused", "closing"}
              PROVE  c \notin conns' \/ Disconnecting(c)'
  BY DEF EndInv
<1>1. stack \in [Task -> Seq(Frame)] /\ pc \in [Conn -> EndpointState] /\ c \in Task /\ d \in Task
  BY DEF TypeOK, Task
<1>2. Disconnect(c, "call").op = "disconnect" /\ Disconnect(c, "call").c = c /\ Disconnect(c, "call").at = "call"
  BY DEF Disconnect
<1>3. CASE c # d
  <2>1. /\ pc' = pc \/ \E q : pc' = [pc EXCEPT ![d] = q]
        /\ stack' = stack \/ \E z : stack' = [stack EXCEPT ![d] = z]
        /\ conns' \subseteq conns \cup {d}
    BY DEF EndpointStep, Message, Connect, Accepted, Stored, Welcomed, Refused, Reply, Replied, AwaitMessage,
           HangUp, Fatal, FatalSent, Cleanup, Closed, Subscribe, Unsubscribe, Push, registry
  <2>2. pc'[c] = pc[c] /\ stack'[c] = stack[c]
    BY <1>1, <1>3, <2>1
  <2>. QED  BY <1>3, <2>1, <2>2 DEF EndInv, Disconnecting
<1>4. CASE c = d /\ Welcomed(c)
  <2>1. stack' = [stack EXCEPT ![c] = <<Disconnect(c, "call"), Disconnect(c, "quiet")>>]
    BY <1>1, <1>4 DEF Welcomed
  <2>2. stack'[c] = <<Disconnect(c, "call"), Disconnect(c, "quiet")>>
    BY <1>1, <2>1
  <2>3. stack'[c] # <<>> /\ stack'[c][1] = Disconnect(c, "call")
    BY <2>2
  <2>. QED  BY <1>2, <2>3 DEF Disconnecting
<1>5. CASE c = d /\ Cleanup(c)
  <2>1. stack[c] = <<>> /\ stack' = Push(c, Disconnect(c, "call"))
    BY <1>1, <1>5 DEF Cleanup
  <2>2. stack'[c] = <<Disconnect(c, "call")>>
    BY <1>1, <2>1 DEF Push
  <2>3. stack'[c] # <<>> /\ stack'[c][1] = Disconnect(c, "call")
    BY <2>2
  <2>. QED  BY <1>2, <2>3 DEF Disconnecting
<1>. QED
  BY <1>1, <1>3, <1>4, <1>5
     DEF EndpointStep, Message, Connect, Accepted, Stored, Refused, Reply, Replied, AwaitMessage,
         HangUp, Fatal, FatalSent, Closed, Subscribe, Unsubscribe, Receives, Serving

LEMMA NextEnds ==
    ASSUME TypeOK, EndInv, [Next]_vars
    PROVE  EndInv'
<1>1. stack \in [Task -> Seq(Frame)] /\ Heartbeat \notin Conn
  BY ConnAssumption DEF TypeOK
<1>2. CASE BeatStep
  <2>1. UNCHANGED <<conns, pc>> /\ (stack' = stack \/ \E z : stack' = [stack EXCEPT ![Heartbeat] = z])
    BY <1>2 DEF BeatStep, BeatWakes, BeatFinds, BeatNext, BeatSent, BeatSwept, BeatReaps, BeatSleeps,
                Push, registry
  <2>2. \A c \in Conn : stack'[c] = stack[c]
    BY <1>1, <2>1 DEF Task
  <2>. QED  BY <2>1, <2>2 DEF EndInv, Disconnecting
<1>3. CASE UNCHANGED vars \/ \E c \in Conn : ClientLeaves(c)
  BY <1>3 DEF ClientLeaves, vars, tasks, registry, EndInv, Disconnecting
<1>. QED  BY <1>2, <1>3, CallEnds, EndpointEnds DEF Next

\* When connect has refused a connection, or the last disconnect of its endpoint
\* has returned, it is forgotten, whichever other tasks (a failed send of another
\* client, the heartbeat) were disconnecting it at the same time.
THEOREM EndedForgotten == Spec => EndedIsForgotten
<1>1. Init => EndInv
  BY DEF Init, EndInv
<1>2. TypeOK /\ EndInv /\ [Next]_vars => EndInv'
  BY NextEnds
<1>3. EndInv => [\A c \in Conn : Refused(c) \/ Closed(c) => c \notin conns']_vars
  BY DEF EndInv, Disconnecting, Refused, Closed, registry
<1>. QED  BY <1>1, <1>2, <1>3, TypeCorrect, PTL DEF Spec, EndedIsForgotten
=============================================================================
