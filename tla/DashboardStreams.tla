-------------------------- MODULE DashboardStreams --------------------------
(***************************************************************************)
(* websocket/handlers/analytics.py: the streams of one connection's         *)
(* dashboards, each a task of its own beside the endpoint of the            *)
(* connection.  Both they and the heartbeat may disconnect it               *)
(* (ConnectionManager.disconnect, of which WsConnections has the detail),   *)
(* and the endpoint cancels streams in the middle of that.                  *)
(***************************************************************************)
EXTENDS Naturals, FiniteSets

CONSTANTS Dash,             \* dashboard_type
          MaxStreams,       \* bound: streams that are not over or in the table
          Endpoint, Beat,   \* the tasks that are no streams
          None              \* no dashboard

ActorsAssumption == /\ MaxStreams \in Nat /\ None \notin Dash
                    /\ Endpoint # Beat /\ {Endpoint, Beat} \cap 1..MaxStreams = {}

Stream == 1..MaxStreams
Actor == Stream \cup {Endpoint, Beat}

VARIABLES at, back,     \* where an actor is, and where it goes on after a disconnect
          arg, todo,    \* of the endpoint: its dashboard, and those to clean up
          table,        \* _streaming_tasks, 0 for none
          cancelled,    \* the streams that have been cancelled and are not over
          socket, registered, row   \* of the connection: open or not, known, and in the database

control == <<back, arg, todo, table, cancelled>>
connection == <<socket, registered, row>>
vars == <<at, control, connection>>

Alive == {s \in Stream : at[s] # "ended"}
Free  == {s \in Stream \ Alive : \A d \in Dash : table[d] # s}

Init ==
  /\ at = [a \in Actor |-> CASE a = Endpoint -> "reads" [] a = Beat -> "sleeps" [] OTHER -> "ended"]
  /\ back = [a \in Actor |-> "ended"]
  /\ arg = None /\ table = [d \in Dash |-> 0] /\ todo = {} /\ cancelled = {}
  /\ socket = "open" /\ registered = TRUE /\ row = "open"

Goes(a, to) == at' = [at EXCEPT ![a] = to]

-----------------------------------------------------------------------------
(* Manager.disconnect and the sends that lead to it. *)

Disconnects(a, then) ==
  IF registered THEN Goes(a, "leaves") /\ back' = [back EXCEPT ![a] = then]
  ELSE Goes(a, then) /\ UNCHANGED back

\* What a send comes to: it fails, or it is done, or refused for the rate limit.
SendFails(a, then) == Disconnects(a, then)
SendPasses(a, then) == socket = "open" /\ Goes(a, then) /\ UNCHANGED back
SendRefused(a, then) == Goes(a, then) /\ UNCHANGED back

\* A KeyError, because another disconnect came first.
Raises(a) == Goes(a, IF a \in Stream THEN "fatal" ELSE back[a])

Shuts(a) ==
  /\ at[a] = "leaves"
  /\ IF registered THEN Goes(a, "closes") /\ socket' = "closed"
     ELSE Raises(a) /\ UNCHANGED socket
  /\ UNCHANGED <<control, registered, row>>

Unregisters(a) ==
  /\ at[a] = "closes"
  /\ IF registered THEN Goes(a, "erases") ELSE Raises(a)
  /\ registered' = FALSE
  /\ UNCHANGED <<control, socket, row>>

Erases(a) ==
  /\ at[a] = "erases" /\ Goes(a, back[a])
  /\ row' = "closed" /\ back' = [back EXCEPT ![a] = "ended"]
  /\ UNCHANGED <<arg, todo, table, cancelled, socket, registered>>

DisconnectStep(a) == Shuts(a) \/ Unregisters(a) \/ Erases(a)

Reaps ==
  /\ at[Beat] = "sleeps" /\ registered /\ socket = "closed"
  /\ Disconnects(Beat, "sleeps")
  /\ UNCHANGED <<arg, todo, table, cancelled, connection>>

ClientLeaves ==
  /\ socket = "open" /\ socket' = "closed"
  /\ UNCHANGED <<at, control, registered, row>>

-----------------------------------------------------------------------------
(* _stream_dashboard_data *)

Wakes_Unchecked(s) ==
  /\ at[s] = "sleeps" /\ Goes(s, "fetches")
  /\ UNCHANGED <<control, connection>>

Wakes(s) ==
  /\ at[s] = "sleeps"
  /\ Goes(s, IF registered THEN "fetches" ELSE "ended")
  /\ UNCHANGED <<control, connection>>

Fetches(s) ==
  /\ at[s] = "fetches"
  /\ \E next \in {"sends", "tells"} : Goes(s, next)
  /\ UNCHANGED <<control, connection>>

Sends(s) ==
  /\ at[s] = "sends"
  /\ SendPasses(s, "sleeps") \/ SendRefused(s, "ended") \/ SendFails(s, "ended")
  /\ UNCHANGED <<arg, todo, table, cancelled, connection>>

Tells(s) ==
  /\ at[s] = "tells"
  /\ SendPasses(s, "sleeps") \/ SendRefused(s, "sleeps") \/ SendFails(s, "sleeps")
  /\ UNCHANGED <<arg, todo, table, cancelled, connection>>

(* It came from a disconnect that found the connection forgotten, so that   *)
(* its message goes nowhere.                                                *)
Fatal(s) ==
  /\ at[s] = "fatal" /\ Goes(s, "ended")
  /\ UNCHANGED <<control, connection>>

(* CancelledError, also in the middle of a disconnect. *)
IsCancelled(s) ==
  /\ s \in Alive \cap cancelled
  /\ Goes(s, "ended")
  /\ cancelled' = cancelled \ {s} /\ back' = [back EXCEPT ![s] = "ended"]
  /\ UNCHANGED <<arg, todo, table, connection>>

StreamStep(s) ==
  \/ IsCancelled(s)
  \/ s \notin cancelled /\ (Wakes(s) \/ Fetches(s) \/ Sends(s) \/ Tells(s) \/ Fatal(s) \/ DisconnectStep(s))

-----------------------------------------------------------------------------
(* The endpoint, as far as it is about the dashboards. *)

AsksFor(d) ==
  /\ at[Endpoint] = "reads" /\ socket = "open" /\ registered
  /\ Goes(Endpoint, "subscribes") /\ arg' = d
  /\ UNCHANGED <<back, todo, table, cancelled, connection>>

Cancels(d) == cancelled' = cancelled \cup ({table[d]} \cap Alive)
HasEnded(d) == at[table[d]] = "ended"

Creates(d) ==
  \E s \in Free :
    /\ \A r \in Free : s <= r
    /\ at' = [at EXCEPT ![s] = "sleeps", ![Endpoint] = "greets"]
    /\ table' = [table EXCEPT ![d] = s] /\ arg' = None

Subscribed ==
  /\ at[Endpoint] = "subscribes"
  /\ \/ Goes(Endpoint, "reads") /\ arg' = None /\ UNCHANGED <<table, cancelled>>
     \/ table[arg] # 0 /\ Goes(Endpoint, "replaces") /\ Cancels(arg) /\ UNCHANGED <<arg, table>>
     \/ table[arg] = 0 /\ Creates(arg) /\ UNCHANGED cancelled
  /\ UNCHANGED <<back, todo, connection>>

Replaces ==
  /\ at[Endpoint] = "replaces" /\ HasEnded(arg) /\ Creates(arg)
  /\ UNCHANGED <<back, todo, cancelled, connection>>

Greets ==
  /\ at[Endpoint] = "greets"
  /\ SendRefused(Endpoint, "reads") \/ SendFails(Endpoint, "reads")
  /\ UNCHANGED <<arg, todo, table, cancelled, connection>>

AsksToStop(d) ==
  /\ at[Endpoint] = "reads" /\ socket = "open" /\ table[d] # 0
  /\ Goes(Endpoint, "stops") /\ arg' = d /\ Cancels(d)
  /\ UNCHANGED <<back, todo, table, connection>>

Stops ==
  /\ at[Endpoint] = "stops" /\ HasEnded(arg)
  /\ Goes(Endpoint, "reads") /\ table' = [table EXCEPT ![arg] = 0] /\ arg' = None
  /\ UNCHANGED <<back, todo, cancelled, connection>>

(* The finally block.  The cleanup of the quote handler comes first, and if *)
(* it raises an exception nothing else is done.                             *)
HangsUp ==
  /\ at[Endpoint] = "reads" /\ socket = "closed"
  /\ \E next \in {"cleans", "raised"} : Goes(Endpoint, next)
  /\ todo' = {d \in Dash : table[d] # 0}
  /\ UNCHANGED <<back, arg, table, cancelled, connection>>

Cleans(d) ==
  /\ at[Endpoint] = "cleans" /\ d \in todo
  /\ Goes(Endpoint, "awaits") /\ arg' = d /\ Cancels(d)
  /\ UNCHANGED <<back, todo, table, connection>>

Awaited_Not ==
  /\ at[Endpoint] = "awaits"
  /\ Goes(Endpoint, "cleans")
  /\ table' = [table EXCEPT ![arg] = 0] /\ todo' = todo \ {arg} /\ arg' = None
  /\ UNCHANGED <<back, cancelled, connection>>

Awaited ==
  /\ at[Endpoint] = "awaits" /\ HasEnded(arg)
  /\ Goes(Endpoint, "cleans")
  /\ table' = [table EXCEPT ![arg] = 0] /\ todo' = todo \ {arg} /\ arg' = None
  /\ UNCHANGED <<back, cancelled, connection>>

Leaves ==
  /\ at[Endpoint] = "cleans" /\ todo = {} /\ Disconnects(Endpoint, "done")
  /\ UNCHANGED <<arg, todo, table, cancelled, connection>>

EndpointStep == \/ Subscribed \/ Replaces \/ Greets \/ Stops \/ HangsUp
                \/ (\E d \in Dash : Cleans(d)) \/ Awaited \/ Leaves
                \/ DisconnectStep(Endpoint)

BeatStep == Reaps \/ DisconnectStep(Beat)

Next == \/ ClientLeaves \/ EndpointStep \/ BeatStep
        \/ \E d \in Dash : AsksFor(d) \/ AsksToStop(d)
        \/ \E s \in Stream : StreamStep(s)

(* Timers fire, calls return, and the heartbeat reaps a connection that is  *)
(* silent; nobody has to send a message or to leave.                        *)
Fairness == /\ WF_vars(EndpointStep) /\ WF_vars(BeatStep)
            /\ \A s \in Stream : WF_vars(StreamStep(s))

Spec == Init /\ [][Next]_vars /\ Fairness

-----------------------------------------------------------------------------
(* However the endpoint and the streams interleave, a stream that is not    *)
(* over is the one of its dashboard in the table, so that it can be         *)
(* cancelled; and once the endpoint has cleaned up and is done, no stream,  *)
(* entry or registration is left, although cancelling a stream may have     *)
(* abandoned the disconnect it was about (cleanup_connection).              *)
Owned ==
  /\ \A s \in Alive : \E d \in Dash : table[d] = s
  /\ at[Endpoint] = "done" => Alive = {} /\ ~ registered /\ \A d \in Dash : table[d] = 0

(* When the client is gone all streams end and the connection is forgotten, *)
(* also where the endpoint has not cleaned up or a disconnect was abandoned *)
(* (_stream_dashboard_data, cleanup_connection, _heartbeat_loop).           *)
AllEnd == socket = "closed" ~> [](Alive = {} /\ ~ registered)

-----------------------------------------------------------------------------
(* What the comments say, and the code does not do. *)

(* "Connection failed, stop streaming": a stream that ends by itself has    *)
(* lost its connection.  Refuted: the rate limit ends it too.               *)
EndsOnlyIfFailed ==
  [][\A s \in Alive \ cancelled : at'[s] = "ended" => socket = "closed" \/ ~ registered]_vars

(* "Remove from database": the row of a forgotten connection is closed in   *)
(* the end.  Refuted: the endpoint cancels the stream that was about to.    *)
RowIsClosed == ~ registered ~> row = "closed"
=============================================================================
