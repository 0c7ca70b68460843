--------------------------- MODULE MCReconnection ---------------------------
(***************************************************************************)
(* The manager, the streams and the rooms of Realtime, and the message      *)
(* queue with a single message and workers that may hang: each has a part   *)
(* of the run of its own.                                                   *)
(***************************************************************************)
EXTENDS Realtime, TLC

CONSTANTS m1, w1, w2, w3, cleaner

VARIABLES part,
          pending, processing, dead, acked, sent, op, swept, late, old, failed

queueVars == <<pending, processing, dead, acked, sent, op, swept, late, old, failed>>

Queue == INSTANCE MessageQueue WITH
  Msg <- {m1}, Worker <- {w1, w2, w3}, Cleaner <- cleaner,
  NPriority <- 2, PriorityOf <- m1 :> 2, MaxRetries <- 2, todo <- swept

\* A room of quotes, which a customer may enter who may read it.
QuotesNeed   == "quote" :> {"read"}
CustomerRoom == "quote" :> "customer"

Profile(role, active, granted) ==
  [role |-> role, active |-> active, rooms |-> "quote" :> granted]

SomeProfiles == {Profile("customer", TRUE, {}), Profile("admin", TRUE, {"read"}),
                 Profile("customer", FALSE, {})}

PartsInit ==
  /\ part \in {"manager", "queue", "streams", "rooms"}
  /\ Init /\ Queue!Init /\ Streams!Init /\ Rooms!Init

ManagerNext == part = "manager" /\ Next /\ UNCHANGED <<queueVars, streamVars, roomVars>>
QueueNext   == part = "queue" /\ Queue!Next /\ UNCHANGED <<vars, streamVars, roomVars>>
StreamsNext == part = "streams" /\ Streams!Next /\ UNCHANGED <<vars, queueVars, roomVars>>
RoomsNext   == part = "rooms" /\ Rooms!Next /\ UNCHANGED <<vars, queueVars, streamVars>>

PartsNext ==
  (ManagerNext \/ QueueNext \/ StreamsNext \/ RoomsNext) /\ UNCHANGED part

PartsSpec ==
  /\ PartsInit
  /\ [][PartsNext]_<<part, vars, queueVars, streamVars, roomVars>>
  /\ WF_vars(part = "manager" /\ LoopRuns)
  /\ WF_vars(part = "manager" /\ CoolsDown)
  /\ WF_vars(part = "manager" /\ trying /\ (Established \/ AttemptFails))
  /\ WF_queueVars(part = "queue" /\ Queue!SweepStep)
  /\ WF_queueVars(part = "queue" /\ Queue!RejectStep(cleaner))
  /\ WF_queueVars(part = "queue" /\ Queue!GetsOld(m1))
  /\ WF_streamVars(part = "streams" /\ Streams!EndpointStep)
  /\ WF_streamVars(part = "streams" /\ Streams!BeatStep)
  /\ \A s \in 1..MaxStreams : WF_streamVars(part = "streams" /\ Streams!StreamStep(s))

(* ProcessingDrains, of MessageQueue; AllEnd, of DashboardStreams. *)
ProcessingDrains == Queue!ProcessingDrains
AllEnd == Streams!AllEnd
=============================================================================
