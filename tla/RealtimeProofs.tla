--------------------------- MODULE RealtimeProofs ---------------------------
(***************************************************************************)
(* Proofs of what the parts of the WebSocket package keep that run beside   *)
(* the connection registry: the reconnection manager for any limits, the    *)
(* streams of any dashboards, and the cached permissions of any users and   *)
(* rooms.  They share nothing but these pages.                              *)
(***************************************************************************)
EXTENDS Realtime, TLAPS

-----------------------------------------------------------------------------
(* The reconnection manager (Reconnection). *)

(* The invariant holds of a new manager (__init__). *)
LEMMA KeptAtFirst == ASSUME Init PROVE Kept
  <1>1. Flags
    BY DEF Init, Flags
  <1>2. TypeOK
    BY <1>1, ConfigAssumption DEF Init, TypeOK
  <1> QED BY <1>2 DEF Init, Kept, NotForgotten, FailedIsExhausted, OpenIsEarned

(* The reports of the application and the ping keep it: a loss always leaves *)
(* a task behind, a failure in half open finds the count at the threshold.   *)
LEMMA ReportsKeep ==
  ASSUME Kept,
         \/ Established
         \/ Lost /\ health' \in {"idle", health}
         \/ AttemptFails
  PROVE  Kept'
  <1> USE DEF Kept
  <1>1. CASE Established
    <2>1. Flags'
      BY <1>1 DEF Established, TypeOK, Flags
    <2>2. TypeOK'
      BY <1>1, <2>1, ConfigAssumption DEF Established, TypeOK
    <2>3. NotForgotten'
      BY <1>1 DEF Established, TypeOK, Flags, NotForgotten
    <2>4. FailedIsExhausted' /\ OpenIsEarned'
      BY <1>1, ConfigAssumption DEF Established, TypeOK, FailedIsExhausted, OpenIsEarned
    <2> QED BY <2>2, <2>3, <2>4
  <1>2. CASE Lost /\ health' \in {"idle", health}
    <2>1. Flags'
      BY <1>2 DEF Lost, TypeOK, Flags
    <2>2. TypeOK'
      BY <1>2, <2>1, ConfigAssumption DEF Lost, TypeOK
    <2>3. NotForgotten'
      BY <1>2 DEF Lost, TypeOK, Flags, NotForgotten
    <2>4. FailedIsExhausted' /\ OpenIsEarned'
      BY <1>2, ConfigAssumption DEF Lost, TypeOK, FailedIsExhausted, OpenIsEarned
    <2> QED BY <2>2, <2>3, <2>4
  <1>3. CASE AttemptFails
    <2>1. Flags'
      BY <1>3 DEF AttemptFails, CountsFailure, Opens, TypeOK, Flags
    <2>2. TypeOK'
      BY <1>3, <2>1, ConfigAssumption DEF AttemptFails, CountsFailure, Opens, TypeOK
    <2>3. NotForgotten'
      BY <1>3 DEF AttemptFails, CountsFailure, Opens, TypeOK, Flags, NotForgotten
    <2>4. FailedIsExhausted' /\ OpenIsEarned'
      BY <1>3, ConfigAssumption DEF AttemptFails, CountsFailure, Opens, TypeOK, FailedIsExhausted, OpenIsEarned
    <2> QED BY <2>2, <2>3, <2>4
  <1> QED BY <1>1, <1>2, <1>3

(* A run of the reconnection task keeps it (_reconnection_loop): it goes on, *)
(* or ends with the attempts used up, or behind an open breaker.             *)
LEMMA LoopKeeps ==
  ASSUME Kept, LoopRuns
  PROVE  Kept'
  <1> USE DEF Kept, LoopRuns
  <1>1. CASE Attempts
    <2>1. Flags'
      BY <1>1 DEF Attempts, Allowed, TypeOK, Flags
    <2>2. TypeOK'
      BY <1>1, <2>1, ConfigAssumption DEF Attempts, Allowed, TypeOK
    <2>3. NotForgotten'
      BY <1>1 DEF Attempts, Allowed, TypeOK, Flags, NotForgotten
    <2>4. FailedIsExhausted' /\ OpenIsEarned'
      BY <1>1, ConfigAssumption DEF Attempts, Allowed, TypeOK, FailedIsExhausted, OpenIsEarned
    <2> QED BY <2>2, <2>3, <2>4
  <1>2. CASE CallbackRaises
    <2>1. Flags'
      BY <1>2 DEF CallbackRaises, Allowed, CountsFailure, Opens, Exhausted, TypeOK, Flags
    <2>2. TypeOK'
      BY <1>2, <2>1, ConfigAssumption DEF CallbackRaises, Allowed, CountsFailure, Opens, Exhausted, TypeOK
    <2>3. NotForgotten'
      BY <1>2 DEF CallbackRaises, Allowed, CountsFailure, Opens, Exhausted, TypeOK, Flags, NotForgotten
    <2>4. FailedIsExhausted' /\ OpenIsEarned'
      BY <1>2, ConfigAssumption DEF CallbackRaises, Allowed, CountsFailure, Opens, Exhausted, TypeOK, FailedIsExhausted, OpenIsEarned
    <2> QED BY <2>2, <2>3, <2>4
  <1>3. CASE GivesUp
    <2>1. Flags'
      BY <1>3 DEF GivesUp, Allowed, Exhausted, TypeOK, Flags
    <2>2. TypeOK'
      BY <1>3, <2>1, ConfigAssumption DEF GivesUp, Allowed, Exhausted, TypeOK
    <2>3. NotForgotten'
      <3>1. CASE attempt >= MaxAttempts
        BY <1>3, <3>1 DEF GivesUp, Exhausted, NotForgotten
      <3>2. CASE ~ (attempt >= MaxAttempts)
        <4>1. attempt < MaxAttempts /\ state' = state /\ breaker' = breaker
          BY <1>3, <3>2, ConfigAssumption DEF GivesUp, Exhausted, TypeOK
        <4>2. state = "disconnected" => breaker = "open"
          BY <1>3, <4>1 DEF GivesUp, Allowed
        <4> QED BY <4>1, <4>2 DEF NotForgotten
      <3> QED BY <3>1, <3>2
    <2>4. FailedIsExhausted' /\ OpenIsEarned'
      BY <1>3, ConfigAssumption DEF GivesUp, Allowed, Exhausted, TypeOK, FailedIsExhausted, OpenIsEarned
    <2> QED BY <2>2, <2>3, <2>4
  <1> QED BY <1>1, <1>2, <1>3

(* stop(), the clock and the health task keep it. *)
LEMMA OthersKeep ==
  ASSUME Kept, HealthLooks \/ Pings \/ PingAnswered \/ Stop \/ CancelsLoop \/ CoolsDown
  PROVE  Kept'
  <1> USE DEF Kept
  <1>1. CASE HealthLooks \/ Pings \/ PingAnswered
    <2>1. Flags'
      BY <1>1 DEF HealthLooks, Pings, PingAnswered, TypeOK, Flags
    <2>2. TypeOK'
      BY <1>1, <2>1, ConfigAssumption DEF HealthLooks, Pings, PingAnswered, TypeOK
    <2>3. NotForgotten'
      BY <1>1 DEF HealthLooks, Pings, PingAnswered, TypeOK, Flags, NotForgotten
    <2>4. FailedIsExhausted' /\ OpenIsEarned'
      BY <1>1, ConfigAssumption DEF HealthLooks, Pings, PingAnswered, TypeOK, FailedIsExhausted, OpenIsEarned
    <2> QED BY <2>2, <2>3, <2>4
  <1>2. CASE Stop \/ CoolsDown
    <2>1. Flags'
      BY <1>2 DEF Stop, CoolsDown, TypeOK, Flags
    <2>2. TypeOK'
      BY <1>2, <2>1, ConfigAssumption DEF Stop, CoolsDown, TypeOK
    <2>3. NotForgotten'
      BY <1>2 DEF Stop, CoolsDown, TypeOK, Flags, NotForgotten
    <2>4. FailedIsExhausted' /\ OpenIsEarned'
      BY <1>2, ConfigAssumption DEF Stop, CoolsDown, TypeOK, FailedIsExhausted, OpenIsEarned
    <2> QED BY <2>2, <2>3, <2>4
  <1>3. CASE CancelsLoop
    <2>1. Flags'
      BY <1>3 DEF CancelsLoop, Exhausted, TypeOK, Flags
    <2>2. TypeOK'
      BY <1>3, <2>1, ConfigAssumption DEF CancelsLoop, Exhausted, TypeOK
    <2>3. NotForgotten'
      BY <1>3 DEF CancelsLoop, Exhausted, TypeOK, Flags, NotForgotten
    <2>4. FailedIsExhausted' /\ OpenIsEarned'
      BY <1>3, ConfigAssumption DEF CancelsLoop, Exhausted, TypeOK, FailedIsExhausted, OpenIsEarned
    <2> QED BY <2>2, <2>3, <2>4
  <1> QED BY <1>1, <1>2, <1>3

(* For every configuration, the manager forgets no lost connection, says    *)
(* FAILED only when its attempts are used up, and opens its breaker only    *)
(* after as many failures as configured (the whole class).                  *)
THEOREM ManagerKeeps == Spec => []Kept
  <1>1. Kept /\ [Next]_vars => Kept'
    <2> SUFFICES ASSUME Kept, [Next]_vars PROVE Kept'
      OBVIOUS
    <2>1. CASE Established \/ ReportsLost \/ AttemptFails \/ PingTimesOut
      BY <2>1, ReportsKeep DEF ReportsLost, PingTimesOut
    <2>2. CASE LoopRuns
      BY <2>2, LoopKeeps
    <2>3. CASE HealthLooks \/ Pings \/ PingAnswered \/ Stop \/ CancelsLoop \/ CoolsDown
      BY <2>3, OthersKeep
    <2>4. CASE UNCHANGED vars
      BY <2>4 DEF vars, Kept, TypeOK, Flags, NotForgotten, FailedIsExhausted, OpenIsEarned
    <2> QED BY <2>1, <2>2, <2>3, <2>4 DEF Next
  <1> QED BY KeptAtFirst, <1>1, PTL DEF Spec

(* A manager that lost its connection has a task under way, unless its      *)
(* breaker is open or it was stopped (handle_connection_lost).              *)
THEOREM NothingForgotten == Spec => []NotForgotten
  BY ManagerKeeps, PTL DEF Kept

-----------------------------------------------------------------------------
(* The streams of a connection (DashboardStreams). *)

Leaving == {"leaves", "closes", "erases"}

Places == Leaving \cup {"reads", "sleeps", "ended", "fetches", "sends", "tells", "fatal",
  "subscribes", "replaces", "greets", "stops", "cleans", "raised", "awaits", "done"}

StreamsTyped ==
  /\ at \in [Streams!Actor -> Places] /\ back \in [Streams!Actor -> Places]
  /\ arg \in Dash \cup {None} /\ todo \subseteq Dash
  /\ table \in [Dash -> 0..MaxStreams] /\ registered \in BOOLEAN

InTable == \A s \in Streams!Alive : \E d \in Dash : table[d] = s

Emptied == \A d \in Dash : table[d] = 0

(* Where the endpoint is in its life, and what it has done by then. *)
EndpointInv ==
  /\ at[Endpoint] \in {"subscribes", "replaces", "stops", "awaits"} => arg \in Dash
  /\ at[Endpoint] \in {"cleans", "awaits"} => \A d \in Dash \ todo : table[d] = 0
  /\ at[Endpoint] \in Leaving => /\ back[Endpoint] \in {"reads", "done"}
                                 /\ back[Endpoint] = "done" => Emptied
  /\ at[Endpoint] = "done" => Emptied
  /\ at[Endpoint] \in {"erases", "done"} => ~ registered

StreamsInv == StreamsTyped /\ InTable /\ EndpointInv

(* The endpoint, the beat and a stream are not the same task. *)
LEMMA ActorsApart ==
  ASSUME Streams!ActorsAssumption
  PROVE  /\ Endpoint \in Streams!Actor /\ Beat \in Streams!Actor
         /\ \A s \in Streams!Stream : /\ s \in Streams!Actor /\ s # Endpoint /\ s # Beat
                                      /\ s \in 0..MaxStreams /\ s # 0
         /\ Endpoint # Beat
  BY DEF Streams!ActorsAssumption, Streams!Actor, Streams!Stream

(* A step of another actor than the endpoint, which creates no stream. *)
LEMMA OthersKeepStreams ==
  ASSUME Streams!ActorsAssumption, StreamsInv,
         NEW a \in Streams!Actor \ {Endpoint}, NEW to \in Places,
         at' = [at EXCEPT ![a] = to], a \in Streams!Stream => at[a] # "ended",
         back' \in [Streams!Actor -> Places], back'[Endpoint] = back[Endpoint],
         UNCHANGED <<arg, todo, table>>, registered' \in {registered, FALSE}
  PROVE  StreamsInv'
  <1> USE ActorsApart DEF StreamsInv, StreamsTyped
  <1>1. StreamsTyped' /\ at'[Endpoint] = at[Endpoint]
    OBVIOUS
  <1>2. Streams!Alive' \subseteq Streams!Alive
    BY DEF Streams!Alive
  <1>3. InTable'
    BY <1>2 DEF InTable
  <1>4. EndpointInv'
    BY <1>1 DEF EndpointInv, Emptied
  <1> QED BY <1>1, <1>3, <1>4

(* A disconnect by any actor (ConnectionManager.disconnect). *)
LEMMA DisconnectKeepsStreams ==
  ASSUME Streams!ActorsAssumption, StreamsInv, NEW a \in Streams!Actor, Streams!DisconnectStep(a)
  PROVE  StreamsInv'
  <1> USE ActorsApart DEF Streams!Goes, Streams!Raises, Streams!control
  <1> DEFINE to == at'[a]
             Moved == /\ at' = [at EXCEPT ![a] = to] /\ at[a] \in Leaving /\ to \in Places
                      /\ back' \in [Streams!Actor -> Places]
                      /\ \A b \in Streams!Actor \ {a} : back'[b] = back[b]
                      /\ UNCHANGED <<arg, todo, table>> /\ registered' \in {registered, FALSE}
                      /\ a = Endpoint => \/ to = "closes" /\ back' = back
                                         \/ to = "erases" /\ back' = back /\ ~ registered'
                                         \/ to = back[a] /\ ~ registered'
  <1>1. Moved
    <2> USE DEF StreamsInv, StreamsTyped, Leaving
    <2>0. {"closes", "erases", "fatal"} \subseteq Places /\ \A b \in Streams!Actor : back[b] \in Places
      BY DEF Places
    <2>1. CASE Streams!Shuts(a)
      <3>1. CASE registered
        BY <2>0, <2>1, <3>1 DEF Streams!Shuts
      <3>2. CASE ~ registered
        BY <2>0, <2>1, <3>2 DEF Streams!Shuts
      <3> QED BY <3>1, <3>2
    <2>2. CASE Streams!Unregisters(a)
      <3>1. CASE registered
        BY <2>0, <2>2, <3>1 DEF Streams!Unregisters
      <3>2. CASE ~ registered
        BY <2>0, <2>2, <3>2 DEF Streams!Unregisters
      <3> QED BY <3>1, <3>2
    <2>3. CASE Streams!Erases(a)
      BY <2>0, <2>3 DEF Streams!Erases, EndpointInv, Places
    <2> QED BY <2>1, <2>2, <2>3 DEF Streams!DisconnectStep
  <1>2. CASE a # Endpoint
    BY <1>1, <1>2, OthersKeepStreams DEF Leaving
  <1>3. CASE a = Endpoint
    <2>1. StreamsTyped'
      BY <1>1, <1>3 DEF StreamsInv, StreamsTyped
    <2>2. Streams!Alive' = Streams!Alive
      BY <1>1, <1>3 DEF StreamsInv, StreamsTyped, Streams!Alive
    <2>3. InTable'
      BY <1>1, <2>2 DEF InTable, StreamsInv
    <2>4. EndpointInv'
      BY <1>1, <1>3 DEF StreamsInv, StreamsTyped, EndpointInv, Emptied, Leaving
    <2> QED BY <2>1, <2>3, <2>4 DEF StreamsInv
  <1> QED BY <1>2, <1>3

(* A step of one of the streams (_stream_dashboard_data). *)
LEMMA StreamKeeps ==
  ASSUME Streams!ActorsAssumption, StreamsInv, NEW s \in Streams!Stream, Streams!StreamStep(s)
  PROVE  StreamsInv'
  <1> DEFINE Moved == \E to \in Places :
               /\ at' = [at EXCEPT ![s] = to] /\ at[s] # "ended"
               /\ back' \in [Streams!Actor -> Places] /\ back'[Endpoint] = back[Endpoint]
               /\ UNCHANGED <<arg, todo, table, registered>>
  <1>1. CASE Streams!IsCancelled(s)
    <2>1. at' = [at EXCEPT ![s] = "ended"] /\ at[s] # "ended" /\ UNCHANGED <<arg, todo, table, registered>>
      BY <1>1 DEF Streams!IsCancelled, Streams!Alive, Streams!Goes, Streams!connection
    <2>2. back' \in [Streams!Actor -> Places] /\ back'[Endpoint] = back[Endpoint]
      BY <1>1, ActorsApart DEF Streams!IsCancelled, StreamsInv, StreamsTyped, Places
    <2>3. "ended" \in Places
      BY DEF Places
    <2> QED BY <2>1, <2>2, <2>3, ActorsApart, OthersKeepStreams
  <1>2. CASE Streams!Wakes(s) \/ Streams!Fetches(s) \/ Streams!Fatal(s)
    <2>1. Moved
      BY <1>2, ActorsApart DEF Streams!Wakes, Streams!Fetches, Streams!Fatal, Streams!Goes,
         Streams!control, Streams!connection, StreamsInv, StreamsTyped, Places
    <2> QED BY <2>1, ActorsApart, OthersKeepStreams
  <1>3. CASE Streams!Sends(s) \/ Streams!Tells(s)
    <2>1. PICK then \in {"ended", "sleeps"} :
             \/ Streams!SendPasses(s, then) \/ Streams!SendRefused(s, then) \/ Streams!SendFails(s, then)
             \/ Streams!SendPasses(s, "sleeps")
      BY <1>3 DEF Streams!Sends, Streams!Tells
    <2>2. at[s] # "ended" /\ UNCHANGED <<arg, todo, table, registered>>
      BY <1>3 DEF Streams!Sends, Streams!Tells, Streams!connection
    <2>3. Moved
      BY <2>1, <2>2, ActorsApart DEF Streams!SendPasses, Streams!SendRefused, Streams!SendFails,
         Streams!Disconnects, Streams!Goes, StreamsInv, StreamsTyped, Places, Leaving
    <2> QED BY <2>3, ActorsApart, OthersKeepStreams
  <1>4. CASE Streams!DisconnectStep(s)
    BY <1>4, ActorsApart, DisconnectKeepsStreams
  <1> QED BY <1>1, <1>2, <1>3, <1>4 DEF Streams!StreamStep

(* A new stream for the dashboard d, whose last one has ended or never was. *)
LEMMA CreatesKeeps ==
  ASSUME Streams!ActorsAssumption, StreamsInv, NEW d \in Dash, Streams!Creates(d),
         table[d] # 0 => Streams!HasEnded(d),
         UNCHANGED <<back, todo, registered>>, at[Endpoint] \in {"subscribes", "replaces"}
  PROVE  StreamsInv'
  <1>1. PICK s \in Streams!Free :
           /\ at' = [at EXCEPT ![s] = "sleeps", ![Endpoint] = "greets"]
           /\ table' = [table EXCEPT ![d] = s] /\ arg' = None
    BY DEF Streams!Creates
  <1>2. s \in Streams!Stream /\ s # Endpoint /\ s \in 0..MaxStreams /\ s \in Streams!Actor
    BY ActorsApart DEF Streams!Free
  <1>3. StreamsTyped'
    BY <1>1, <1>2 DEF StreamsInv, StreamsTyped, Places
  <1>4. at'[Endpoint] = "greets"
    BY <1>1, <1>2, ActorsApart DEF StreamsInv, StreamsTyped
  <1>5. EndpointInv'
    BY <1>4 DEF EndpointInv, Leaving
  <1>6. ASSUME NEW r \in Streams!Alive' PROVE \E e \in Dash : table'[e] = r
    <2>1. CASE r = s
      BY <1>1, <2>1 DEF StreamsInv, StreamsTyped
    <2>2. CASE r # s
      <3>1. r \in Streams!Alive /\ r # 0
        BY <1>1, <1>2, <1>6, <2>2, ActorsApart DEF Streams!Alive, StreamsInv, StreamsTyped
      <3>2. PICK e \in Dash : table[e] = r
        BY <3>1 DEF StreamsInv, InTable
      <3>3. e # d
        BY <3>1, <3>2 DEF Streams!HasEnded, Streams!Alive
      <3> QED BY <1>1, <3>2, <3>3 DEF StreamsInv, StreamsTyped
    <2> QED BY <2>1, <2>2
  <1> QED BY <1>3, <1>5, <1>6 DEF StreamsInv, InTable

(* The dashboard of a stream that has ended is forgotten. *)
LEMMA ForgetsKeep ==
  ASSUME Streams!ActorsAssumption, StreamsInv, Streams!Stops \/ Streams!Awaited
  PROVE  StreamsInv'
  <1> USE DEF Streams!Stops, Streams!Awaited, Streams!Goes, Streams!connection
  <1>1. /\ arg \in Dash /\ Streams!HasEnded(arg) /\ table' = [table EXCEPT ![arg] = 0]
        /\ arg' = None /\ todo' \in SUBSET Dash /\ UNCHANGED <<back, registered>>
    BY DEF StreamsInv, EndpointInv, StreamsTyped
  <1>2. PICK to \in {"reads", "cleans"} : at' = [at EXCEPT ![Endpoint] = to]
    OBVIOUS
  <1>3. StreamsTyped' /\ at'[Endpoint] = to
    BY <1>1, <1>2, ActorsApart DEF StreamsInv, StreamsTyped, Places, Streams!ActorsAssumption
  <1>4. Streams!Alive' = Streams!Alive
    BY <1>2, ActorsApart DEF StreamsInv, StreamsTyped, Streams!Alive
  <1>5. InTable'
    BY <1>1, <1>4 DEF StreamsInv, StreamsTyped, InTable, Streams!HasEnded, Streams!Alive
  <1>6. EndpointInv'
    <2>1. ASSUME Streams!Awaited PROVE \A d \in Dash \ todo' : table'[d] = 0
      BY <1>1, <2>1 DEF StreamsInv, StreamsTyped, EndpointInv
    <2>2. to = "cleans" => Streams!Awaited
      BY <1>2, <1>3, ActorsApart DEF StreamsInv, StreamsTyped
    <2> QED BY <1>3, <2>1, <2>2 DEF EndpointInv, Leaving
  <1> QED BY <1>3, <1>5, <1>6 DEF StreamsInv

(* The steps of the endpoint that leave the table alone. *)
LEMMA EndpointStays ==
  ASSUME Streams!ActorsAssumption, StreamsInv, StreamsTyped', NEW to, at' = [at EXCEPT ![Endpoint] = to],
         table' = table, EndpointInv'
  PROVE  StreamsInv'
  <1>1. Streams!Alive' = Streams!Alive
    BY ActorsApart DEF StreamsInv, StreamsTyped, Streams!Alive
  <1> QED BY <1>1 DEF StreamsInv, InTable

(* The steps of the endpoint keep it (subscribe, cleanup, disconnect). *)
LEMMA EndpointKeeps ==
  ASSUME Streams!ActorsAssumption, StreamsInv,
         Streams!EndpointStep \/ \E d \in Dash : Streams!AsksFor(d) \/ Streams!AsksToStop(d)
  PROVE  StreamsInv'
  <1> USE ActorsApart DEF Streams!Goes, Streams!connection
  <1>1. ASSUME NEW d \in Dash, Streams!AsksFor(d) \/ Streams!AsksToStop(d) PROVE StreamsInv'
    <2>1. PICK to \in {"subscribes", "stops"} : at' = [at EXCEPT ![Endpoint] = to]
      BY <1>1 DEF Streams!AsksFor, Streams!AsksToStop
    <2>2. arg' = d /\ UNCHANGED <<back, todo, table, registered>>
      BY <1>1 DEF Streams!AsksFor, Streams!AsksToStop
    <2>3. StreamsTyped' /\ EndpointInv'
      BY <2>1, <2>2 DEF StreamsInv, StreamsTyped, Places, EndpointInv, Leaving
    <2> QED BY <2>1, <2>2, <2>3, EndpointStays
  <1>2. CASE Streams!Subscribed
    <2>1. CASE Streams!Goes(Endpoint, "reads") /\ arg' = None /\ UNCHANGED table
      <3>1. StreamsTyped' /\ EndpointInv'
        BY <1>2, <2>1 DEF Streams!Subscribed, StreamsInv, StreamsTyped, Places, EndpointInv, Leaving
      <3> QED BY <2>1, <3>1, EndpointStays
    <2>2. CASE Streams!Goes(Endpoint, "replaces") /\ UNCHANGED <<arg, table>>
      <3>1. StreamsTyped' /\ EndpointInv'
        BY <1>2, <2>2 DEF Streams!Subscribed, StreamsInv, StreamsTyped, Places, EndpointInv, Leaving
      <3> QED BY <2>2, <3>1, EndpointStays
    <2>3. CASE table[arg] = 0 /\ Streams!Creates(arg)
      <3>1. arg \in Dash /\ at[Endpoint] = "subscribes" /\ UNCHANGED <<back, todo, registered>>
        BY <1>2 DEF Streams!Subscribed, StreamsInv, EndpointInv
      <3> QED BY <2>3, <3>1, CreatesKeeps
    <2> QED BY <1>2, <2>1, <2>2, <2>3 DEF Streams!Subscribed
  <1>3. CASE Streams!Replaces
    <2>1. arg \in Dash /\ at[Endpoint] = "replaces" /\ UNCHANGED <<back, todo, registered>>
      BY <1>3 DEF Streams!Replaces, StreamsInv, EndpointInv
    <2> QED BY <1>3, <2>1, CreatesKeeps DEF Streams!Replaces
  <1>4. CASE Streams!Greets
    <2>1. PICK to \in {"reads", "leaves"} :
             /\ at' = [at EXCEPT ![Endpoint] = to]
             /\ back' \in {back, [back EXCEPT ![Endpoint] = "reads"]}
             /\ to = "leaves" => back' = [back EXCEPT ![Endpoint] = "reads"]
      BY <1>4 DEF Streams!Greets, Streams!SendRefused, Streams!SendFails, Streams!Disconnects
    <2>2. UNCHANGED <<arg, todo, table, registered>>
      BY <1>4 DEF Streams!Greets
    <2>3. StreamsTyped' /\ EndpointInv'
      BY <2>1, <2>2 DEF StreamsInv, StreamsTyped, Places, EndpointInv, Leaving
    <2> QED BY <2>1, <2>2, <2>3, EndpointStays
  <1>5. CASE Streams!Stops \/ Streams!Awaited
    BY <1>5, ForgetsKeep
  <1>6. CASE Streams!HangsUp
    <2>1. PICK to \in {"cleans", "raised"} : at' = [at EXCEPT ![Endpoint] = to]
      BY <1>6 DEF Streams!HangsUp
    <2>2. UNCHANGED <<arg, back, table, registered>> /\ todo' = {d \in Dash : table[d] # 0}
      BY <1>6 DEF Streams!HangsUp
    <2>3. StreamsTyped' /\ EndpointInv'
      BY <2>1, <2>2 DEF StreamsInv, StreamsTyped, Places, EndpointInv, Leaving
    <2> QED BY <2>1, <2>2, <2>3, EndpointStays
  <1>7. ASSUME NEW d \in Dash, Streams!Cleans(d) PROVE StreamsInv'
    <2>1. StreamsTyped' /\ EndpointInv'
      BY <1>7 DEF Streams!Cleans, StreamsInv, StreamsTyped, Places, EndpointInv, Leaving
    <2> QED BY <1>7, <2>1, EndpointStays DEF Streams!Cleans
  <1>8. CASE Streams!Leaves
    <2>1. UNCHANGED <<arg, todo, table, registered>> /\ Emptied
      BY <1>8 DEF Streams!Leaves, StreamsInv, EndpointInv, Emptied
    <2>2. PICK to \in {"done", "leaves"} :
             /\ at' = [at EXCEPT ![Endpoint] = to]
             /\ back' \in {back, [back EXCEPT ![Endpoint] = "done"]}
             /\ IF to = "leaves" THEN back' = [back EXCEPT ![Endpoint] = "done"] ELSE ~ registered
      BY <1>8 DEF Streams!Leaves, Streams!Disconnects
    <2>3. StreamsTyped' /\ EndpointInv'
      BY <2>1, <2>2 DEF StreamsInv, StreamsTyped, Places, EndpointInv, Leaving, Emptied
    <2> QED BY <2>1, <2>2, <2>3, EndpointStays
  <1>9. CASE Streams!DisconnectStep(Endpoint)
    BY <1>9, DisconnectKeepsStreams
  <1> QED BY <1>1, <1>2, <1>3, <1>4, <1>5, <1>6, <1>7, <1>8, <1>9 DEF Streams!EndpointStep

(* Every step keeps the invariant of the streams. *)
LEMMA NextKeepsStreams ==
  ASSUME Streams!ActorsAssumption, StreamsInv, [Streams!Next]_Streams!vars
  PROVE  StreamsInv'
  <1>1. CASE Streams!ClientLeaves \/ UNCHANGED Streams!vars
    BY <1>1 DEF Streams!ClientLeaves, Streams!vars, Streams!control, Streams!connection,
       StreamsInv, StreamsTyped, InTable, EndpointInv, Emptied, Streams!Alive
  <1>2. CASE Streams!BeatStep
    <2>1. CASE Streams!Reaps
      <3>1. PICK to \in Places : at' = [at EXCEPT ![Beat] = to]
        BY <2>1 DEF Streams!Reaps, Streams!Disconnects, Streams!Goes, Places, Leaving
      <3>2. /\ back' \in {back, [back EXCEPT ![Beat] = "sleeps"]}
            /\ UNCHANGED <<arg, todo, table, registered>>
        BY <2>1 DEF Streams!Reaps, Streams!Disconnects, Streams!connection
      <3>3. back' \in [Streams!Actor -> Places] /\ back'[Endpoint] = back[Endpoint]
        BY <3>2, ActorsApart DEF StreamsInv, StreamsTyped, Places
      <3>4. Beat \notin Streams!Stream
        BY ActorsApart
      <3> QED BY <3>1, <3>2, <3>3, <3>4, ActorsApart, OthersKeepStreams
    <2>2. CASE Streams!DisconnectStep(Beat)
      BY <2>2, ActorsApart, DisconnectKeepsStreams
    <2> QED BY <1>2, <2>1, <2>2 DEF Streams!BeatStep
  <1> QED BY <1>1, <1>2, EndpointKeeps, StreamKeeps DEF Streams!Next

(* For any dashboards and any number of streams: a stream that is not over  *)
(* is the one of its dashboard in the table, and a connection that has      *)
(* cleaned up and is done leaves no stream, entry or registration           *)
(* (cleanup_connection).                                                    *)
THEOREM StreamsOwned == Streams!Spec => []Owned
  <1> USE RealtimeAssumption
  <1>1. Streams!Init => StreamsInv
    BY ActorsApart DEF Streams!ActorsAssumption, Streams!Init, StreamsInv, StreamsTyped, InTable, EndpointInv,
       Emptied, Streams!Alive, Places, Leaving
  <1>2. StreamsInv /\ [Streams!Next]_Streams!vars => StreamsInv'
    BY NextKeepsStreams
  <1>3. StreamsInv => Owned
    BY ActorsApart DEF Owned, StreamsInv, InTable, EndpointInv, Emptied, Streams!Owned, Streams!Alive
  <1> QED BY <1>1, <1>2, <1>3, PTL DEF Streams!Spec

-----------------------------------------------------------------------------
(* The permissions of rooms (RoomPermissions). *)

(* What is in the cache is what the checks would say. *)
RoomsInv == Rooms!TypeOK /\ Rooms!AnswersAreFresh

LEMMA FreshIsBoolean == \A u, r, p : Rooms!Fresh(u, r, p) \in BOOLEAN
  BY DEF Rooms!Fresh

(* The answer to a question depends on its user and its room alone. *)
LEMMA FreshIsLocal ==
  ASSUME NEW u \in User, NEW r \in Room, NEW p,
         perms'[u] = perms[u], owner'[r] = owner[r]
  PROVE  Rooms!Fresh(u, r, p)' = Rooms!Fresh(u, r, p)
  BY DEF Rooms!Fresh, Rooms!MayEnter, Rooms!MayDo, Rooms!Alphabetical

(* A check that goes by the cache comes to what it would without one        *)
(* (can_user_perform_action).                                               *)
LEMMA CanIsFresh ==
  ASSUME RoomsInv, NEW u \in User, NEW r \in Room, NEW p \in Permission \cup {"access"}
  PROVE  Rooms!Can(u, r, p) = Rooms!Fresh(u, r, p)
  <1>1. cached[<<u, r, "access">>] # None => cached[<<u, r, "access">>] = Rooms!MayEnter(u, r)
    <2>1. Rooms!Fresh(u, r, "access") = Rooms!MayEnter(u, r)
      BY DEF Rooms!Fresh, Rooms!MayEnter
    <2> QED BY <2>1 DEF RoomsInv, Rooms!AnswersAreFresh
  <1>2. Rooms!Enters(u, r) <=> Rooms!MayEnter(u, r)
    BY <1>1 DEF Rooms!Enters, Rooms!Cached
  <1>3. (Rooms!Enters(u, r) /\ (p = "access" \/ Rooms!MayDo(u, r, p))) = Rooms!Fresh(u, r, p)
    BY <1>2 DEF Rooms!Fresh
  <1>4. cached[<<u, r, p>>] # None => cached[<<u, r, p>>] = Rooms!Fresh(u, r, p)
    BY DEF RoomsInv, Rooms!AnswersAreFresh
  <1> QED BY <1>3, <1>4 DEF Rooms!Can, Rooms!Cached

(* What is asked leaves fresh answers. *)
LEMMA AskedIsFresh ==
  ASSUME RoomsInv, NEW by \in User, NEW in \in Room, NEW x,
         NEW q \in Rooms!Questions
  PROVE  Rooms!Asked(by, in, x)[q] \in {cached[q], Rooms!Fresh(q[1], q[2], q[3])}
  <1> DEFINE looked == IF cached[<<by, in, x>>] = None THEN {"access", x} ELSE {}
  <1>1. Rooms!Asked(by, in, x)[q] =
          IF q \in {<<by, in, y>> : y \in looked} THEN Rooms!Can(by, in, q[3]) ELSE cached[q]
    BY DEF Rooms!Asked
  <1>2. ASSUME q \in {<<by, in, y>> : y \in looked} PROVE Rooms!Can(by, in, q[3]) = Rooms!Fresh(q[1], q[2], q[3])
    <2>1. q[1] = by /\ q[2] = in
      BY <1>2
    <2>2. q[3] \in Permission \cup {"access"}
      BY DEF Rooms!Questions
    <2> QED BY <2>1, <2>2, CanIsFresh
  <1> QED BY <1>1, <1>2

(* Answers that are fresh in a cache c, but for those that a change cleared. *)
LEMMA ClearedIsFresh ==
  ASSUME RoomsInv, NEW changed \in SUBSET Rooms!Questions,
         cached' \in [Rooms!Questions -> {None} \cup BOOLEAN],
         \A q \in Rooms!Questions : IF q \in changed THEN cached'[q] = None
                              ELSE cached'[q] \in {None, cached[q], Rooms!Fresh(q[1], q[2], q[3])},
         \A q \in Rooms!Questions \ changed : perms'[q[1]] = perms[q[1]] /\ owner'[q[2]] = owner[q[2]]
  PROVE  Rooms!AnswersAreFresh'
  <1> SUFFICES ASSUME NEW u \in User, NEW r \in Room, NEW p \in Permission \cup {"access"},
                      cached'[<<u, r, p>>] # None
               PROVE  cached'[<<u, r, p>>] = Rooms!Fresh(u, r, p)'
    BY DEF Rooms!AnswersAreFresh
  <1> DEFINE q == <<u, r, p>>
  <1>1. q \in Rooms!Questions /\ q[1] = u /\ q[2] = r /\ q[3] = p
    BY DEF Rooms!Questions
  <1>2. q \notin changed
    BY <1>1
  <1>3. cached'[q] \in {cached[q], Rooms!Fresh(u, r, p)}
    BY <1>1, <1>2
  <1>4. cached[q] # None => cached[q] = Rooms!Fresh(u, r, p)
    BY DEF RoomsInv, Rooms!AnswersAreFresh
  <1>5. cached'[q] = Rooms!Fresh(u, r, p)
    BY <1>3, <1>4
  <1>6. perms'[u] = perms[u] /\ owner'[r] = owner[r]
    BY <1>1, <1>2
  <1> QED BY <1>5, <1>6, FreshIsLocal

(* Every change of a user or a room clears what was cached of it. *)
LEMMA NextIsFresh ==
  ASSUME Rooms!ProfilesAssumption, RoomsInv, [Rooms!Next]_Rooms!vars
  PROVE  RoomsInv'
  <1> USE DEF Rooms!Questions
  <1> DEFINE Answers == {None} \cup BOOLEAN
             Typed == Rooms!TypeOK'
  <1>1. /\ perms \in [User -> {None} \cup Rooms!UserPermissions]
        /\ owner \in [Room -> User \cup {None}]
        /\ cached \in [Rooms!Questions -> Answers]
    BY DEF RoomsInv, Rooms!TypeOK
  <1>2. ASSUME NEW u \in User, NEW r \in Room, NEW p, Rooms!Asks(u, r, p) PROVE RoomsInv'
    <2>1. cached' = Rooms!Asked(u, r, p) /\ UNCHANGED <<perms, owner>>
      BY <1>2 DEF Rooms!Asks
    <2>2. \A q \in Rooms!Questions : cached'[q] \in {cached[q], Rooms!Fresh(q[1], q[2], q[3])}
      BY <2>1, AskedIsFresh
    <2>3. cached' \in [Rooms!Questions -> Answers]
      <3>1. \A q \in Rooms!Questions : cached'[q] \in Answers
        BY <1>1, <2>2, FreshIsBoolean
      <3>2. cached' = [q \in Rooms!Questions |-> cached'[q]]
        BY <2>1 DEF Rooms!Asked
      <3> QED BY <3>1, <3>2
    <2>4. Rooms!AnswersAreFresh'
      BY <2>1, <2>2, <2>3, ClearedIsFresh, {} \in SUBSET Rooms!Questions
    <2> QED BY <1>1, <2>1, <2>3, <2>4 DEF RoomsInv, Rooms!TypeOK
  <1>3. ASSUME NEW q \in Rooms!Questions, Rooms!Lapses(q) PROVE RoomsInv'
    <2>1. cached' = [cached EXCEPT ![q] = None] /\ UNCHANGED <<perms, owner>>
      BY <1>3 DEF Rooms!Lapses
    <2>2. cached' \in [Rooms!Questions -> Answers]
      BY <1>1, <2>1
    <2>3. Rooms!AnswersAreFresh'
      BY <1>1, <2>1, <2>2, ClearedIsFresh, {q} \in SUBSET Rooms!Questions
    <2> QED BY <1>1, <2>1, <2>2, <2>3 DEF RoomsInv, Rooms!TypeOK
  <1>4. ASSUME NEW u \in User, Rooms!Sets(u) PROVE RoomsInv'
    <2>1. PICK profile \in Profiles :
             /\ perms' = [perms EXCEPT ![u] = profile]
             /\ cached' = Rooms!ClearsUser(cached, u) /\ UNCHANGED owner
      BY <1>4 DEF Rooms!Sets
    <2>2. perms' \in [User -> {None} \cup Rooms!UserPermissions]
      BY <1>1, <2>1 DEF Rooms!ProfilesAssumption
    <2>3. cached' \in [Rooms!Questions -> Answers]
      BY <1>1, <2>1 DEF Rooms!ClearsUser
    <2>4. \A q \in Rooms!Questions : IF q[1] = u THEN cached'[q] = None
                               ELSE cached'[q] = cached[q] /\ perms'[q[1]] = perms[q[1]]
      BY <1>1, <2>1 DEF Rooms!ClearsUser
    <2>5. Rooms!AnswersAreFresh'
      <3> DEFINE changed == {q \in Rooms!Questions : q[1] = u}
      <3>1. changed \in SUBSET Rooms!Questions
        OBVIOUS
      <3>2. \A q \in Rooms!Questions : q \in changed <=> q[1] = u
        OBVIOUS
      <3> HIDE DEF changed
      <3> QED BY <2>1, <2>3, <2>4, <3>1, <3>2, ClearedIsFresh
    <2> QED BY <1>1, <2>1, <2>2, <2>3, <2>5 DEF RoomsInv, Rooms!TypeOK
  <1>5. ASSUME NEW u \in User, NEW r \in Room, Rooms!Owns(u, r) PROVE RoomsInv'
    <2>1. /\ owner' = [owner EXCEPT ![r] = u]
          /\ cached' = Rooms!ClearsRoom(cached, r) /\ UNCHANGED perms
      BY <1>5 DEF Rooms!Owns
    <2>2. owner' \in [Room -> User \cup {None}]
      BY <1>1, <2>1
    <2>3. cached' \in [Rooms!Questions -> Answers]
      BY <1>1, <2>1 DEF Rooms!ClearsRoom
    <2>4. \A q \in Rooms!Questions : IF q[2] = r THEN cached'[q] = None
                               ELSE cached'[q] = cached[q] /\ owner'[q[2]] = owner[q[2]]
      BY <1>1, <2>1 DEF Rooms!ClearsRoom
    <2>5. Rooms!AnswersAreFresh'
      <3> DEFINE changed == {q \in Rooms!Questions : q[2] = r}
      <3>1. changed \in SUBSET Rooms!Questions
        OBVIOUS
      <3>2. \A q \in Rooms!Questions : q \in changed <=> q[2] = r
        OBVIOUS
      <3> HIDE DEF changed
      <3> QED BY <2>1, <2>3, <2>4, <3>1, <3>2, ClearedIsFresh
    <2> QED BY <1>1, <2>1, <2>2, <2>3, <2>5 DEF RoomsInv, Rooms!TypeOK
  <1>6. ASSUME NEW by \in User, NEW u \in User, NEW r \in Room, NEW given \in SUBSET Permission,
               Rooms!Changes(by, u, r, given)
        PROVE  RoomsInv'
    <2>1. /\ perms' = IF perms[u] = None THEN perms ELSE [perms EXCEPT ![u].rooms[r] = given]
          /\ cached' = Rooms!ClearsUser(Rooms!Asked(by, r, "admin"), u) /\ UNCHANGED owner
      BY <1>6 DEF Rooms!Changes
    <2>2. perms' \in [User -> {None} \cup Rooms!UserPermissions]
      <3>1. CASE perms[u] = None
        BY <1>1, <2>1, <3>1
      <3>2. CASE perms[u] # None
        <4>1. perms[u] \in Rooms!UserPermissions
          BY <1>1, <3>2
        <4>2. [perms[u] EXCEPT !.rooms[r] = given] \in Rooms!UserPermissions
          BY <4>1 DEF Rooms!UserPermissions
        <4>3. perms' = [perms EXCEPT ![u] = [perms[u] EXCEPT !.rooms[r] = given]]
          BY <1>1, <2>1, <3>2
        <4> QED BY <1>1, <4>2, <4>3
      <3> QED BY <3>1, <3>2
    <2>3. \A q \in Rooms!Questions :
            IF q[1] = u THEN cached'[q] = None
            ELSE /\ cached'[q] \in {cached[q], Rooms!Fresh(q[1], q[2], q[3])}
                 /\ perms'[q[1]] = perms[q[1]]
      BY <1>1, <2>1, AskedIsFresh DEF Rooms!ClearsUser
    <2>4. cached' \in [Rooms!Questions -> Answers]
      <3>1. \A q \in Rooms!Questions : cached'[q] \in Answers
        BY <1>1, <2>3, FreshIsBoolean
      <3>2. cached' = [q \in Rooms!Questions |-> cached'[q]]
        BY <2>1 DEF Rooms!ClearsUser
      <3> QED BY <3>1, <3>2
    <2>5. Rooms!AnswersAreFresh'
      <3> DEFINE changed == {q \in Rooms!Questions : q[1] = u}
      <3>1. changed \in SUBSET Rooms!Questions
        OBVIOUS
      <3>2. \A q \in Rooms!Questions : q \in changed <=> q[1] = u
        OBVIOUS
      <3> HIDE DEF changed
      <3> QED BY <2>1, <2>3, <2>4, <3>1, <3>2, ClearedIsFresh
    <2> QED BY <1>1, <2>1, <2>2, <2>4, <2>5 DEF RoomsInv, Rooms!TypeOK
  <1>7. CASE Rooms!CleansUp
    <2>1. cached' = [q \in Rooms!Questions |-> None] /\ UNCHANGED <<perms, owner>>
      BY <1>7 DEF Rooms!CleansUp
    <2>2. Rooms!AnswersAreFresh'
      BY <2>1 DEF Rooms!AnswersAreFresh
    <2> QED BY <1>1, <2>1, <2>2 DEF RoomsInv, Rooms!TypeOK
  <1>8. CASE UNCHANGED Rooms!vars
    BY <1>8, ClearedIsFresh, <1>1, {} \in SUBSET Rooms!Questions DEF Rooms!vars, RoomsInv, Rooms!TypeOK
  <1>9. ASSUME NEW u \in User, NEW r \in Room, NEW p \in Permission
        PROVE  Rooms!Held(u, r) \cup {p} \in SUBSET Permission /\ Rooms!Held(u, r) \ {p} \in SUBSET Permission
    BY <1>1 DEF Rooms!Held, Rooms!UserPermissions
  <1>10. ASSUME NEW by \in User, NEW u \in User, NEW r \in Room, NEW p \in Permission,
                Rooms!Grants(by, u, r, p) \/ Rooms!Revokes(by, u, r, p)
         PROVE  RoomsInv'
    BY <1>6, <1>9, <1>10 DEF Rooms!Grants, Rooms!Revokes
  <1>11. ASSUME NEW q \in Rooms!Questions, Rooms!Asks(q[1], q[2], q[3]) \/ Rooms!Lapses(q) PROVE RoomsInv'
    <2>1. q[1] \in User /\ q[2] \in Room
      OBVIOUS
    <2> QED BY <1>2, <1>3, <1>11, <2>1
  <1>12. ASSUME NEW u \in User, NEW r \in Room, Rooms!Refused(u, r) PROVE RoomsInv'
    BY <1>2, <1>12 DEF Rooms!Refused
  <1> HIDE DEF Rooms!Questions
  <1> QED BY <1>4, <1>5, <1>7, <1>8, <1>10, <1>11, <1>12 DEF Rooms!Next

(* For any users, rooms and permissions: an answer that is in the cache is  *)
(* the one the checks would give (can_user_access_room,                     *)
(* can_user_perform_action).                                                *)
THEOREM FreshAnswers == Rooms!Spec => []AnswersAreFresh
  <1> USE RealtimeAssumption
  <1>1. Rooms!Init => RoomsInv
    BY DEF Rooms!Init, RoomsInv, Rooms!TypeOK, Rooms!AnswersAreFresh, Rooms!Questions
  <1>2. RoomsInv /\ [Rooms!Next]_Rooms!vars => RoomsInv'
    BY NextIsFresh
  <1>3. RoomsInv => AnswersAreFresh
    BY DEF RoomsInv, AnswersAreFresh
  <1> QED BY <1>1, <1>2, <1>3, PTL DEF Rooms!Spec
=============================================================================
