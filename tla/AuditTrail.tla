----------------------------- MODULE AuditTrail -----------------------------
(***************************************************************************)
(* compliance/audit_logger.py: the one AuditLogger that all controls share. *)
(* A call of log_event writes an event of high risk itself, and leaves any  *)
(* other one to the call that fills the batch.  That call reads the list    *)
(* before its await and clears it after, while others go on appending.      *)
(***************************************************************************)
EXTENDS Naturals, FiniteSets

CONSTANTS Event,      \* events, each logged by a call of log_event
          HighRisk,   \* those of RiskLevel.HIGH and CRITICAL
          Unwritable, \* those that the table refuses, as a resource_id that is no UUID
          BatchSize,  \* _batch_size
          MaxRows     \* events whose fields fit in the parameters of one INSERT

ASSUME BatchAssumption == BatchSize \in Nat \ {0} /\ MaxRows \in Nat

VARIABLES pc,       \* the await at which each call is
          pending,  \* _pending_events
          batch,    \* the events whose values a call has taken for its INSERT
          stored,   \* the number of rows of each event in audit_logs
          late,     \* events that were appended while a flush was under way
          forgone   \* events that were pending when the process ended

vars == <<pc, pending, batch, stored, late, forgone>>

InFlight == {"inserting", "inserted"}
Ended    == {"ok", "err", "dead"}
Flushing == {e \in Event \ HighRisk : pc[e] \in InFlight}

TypeOK ==
  /\ pc \in [Event -> {"new"} \cup InFlight \cup Ended]
  /\ pending \subseteq Event \ HighRisk
  /\ batch \in [Event -> SUBSET Event]
  /\ stored \in [Event -> Nat]
  /\ late \subseteq Event /\ forgone \subseteq Event

Init ==
  /\ pc = [e \in Event |-> "new"]
  /\ batch = [e \in Event |-> {}]
  /\ stored = [e \in Event |-> 0]
  /\ pending = {} /\ late = {} /\ forgone = {}

Goes(e, at) == pc' = [pc EXCEPT ![e] = at]

-----------------------------------------------------------------------------
(* log_event *)

Writes(e) ==
  /\ pc[e] = "new" /\ e \in HighRisk
  /\ batch' = [batch EXCEPT ![e] = {e}]
  /\ Goes(e, "inserting")
  /\ UNCHANGED <<pending, stored, late, forgone>>

Appends(e) ==
  /\ pc[e] = "new" /\ e \notin HighRisk
  /\ pending' = pending \cup {e}
  /\ late' = IF Flushing = {} THEN late ELSE late \cup {e}
  /\ UNCHANGED <<stored, forgone>>

Leaves_WhenOver(e) ==
  /\ Appends(e)
  /\ Cardinality(pending') <= BatchSize
  /\ Goes(e, "ok")
  /\ UNCHANGED batch

Leaves(e) ==
  /\ Appends(e)
  /\ Cardinality(pending') < BatchSize
  /\ Goes(e, "ok")
  /\ UNCHANGED batch

Flushes_WithoutOwn(e) ==
  /\ Appends(e)
  /\ Cardinality(pending') >= BatchSize
  /\ batch' = [batch EXCEPT ![e] = pending]
  /\ Goes(e, "inserting")

Flushes(e) ==
  /\ Appends(e)
  /\ Cardinality(pending') >= BatchSize
  /\ batch' = [batch EXCEPT ![e] = pending']
  /\ Goes(e, "inserting")

\* The row's id and time are new in every conversion, so no row is refused
\* as one that is there.
Inserts(e) ==
  /\ pc[e] = "inserting"
  /\ batch[e] \cap Unwritable = {} /\ Cardinality(batch[e]) <= MaxRows
  /\ stored' = [o \in Event |-> IF o \in batch[e] THEN stored[o] + 1 ELSE stored[o]]
  /\ Goes(e, "inserted")
  /\ UNCHANGED <<pending, batch, late, forgone>>

Returns_WithoutClearing(e) ==
  /\ pc[e] = "inserted"
  /\ Goes(e, "ok")
  /\ UNCHANGED <<pending, batch, stored, late, forgone>>

Returns(e) ==
  /\ pc[e] = "inserted"
  /\ Goes(e, "ok")
  /\ pending' = IF e \in HighRisk THEN pending ELSE {}
  /\ UNCHANGED <<batch, stored, late, forgone>>

\* execute raises, whether or not the INSERT took effect: a retry after a lost
\* answer finds its own row.  Or the task of the caller is cancelled.
Raises(e) ==
  /\ pc[e] \in InFlight
  /\ Goes(e, "err")
  /\ UNCHANGED <<pending, batch, stored, late, forgone>>

(* Nothing flushes when the process ends: nobody uses the logger as a       *)
(* context manager.  Another process takes over, with a list of its own.    *)
Dies ==
  /\ pending # {} \/ \E e \in Event : pc[e] \in InFlight
  /\ pc' = [e \in Event |-> IF pc[e] \in InFlight THEN "dead" ELSE pc[e]]
  /\ forgone' = forgone \cup pending
  /\ pending' = {}
  /\ UNCHANGED <<batch, stored, late>>

Next ==
  \/ \E e \in Event : \/ Writes(e) \/ Leaves(e) \/ Flushes(e)
                      \/ Inserts(e) \/ Returns(e) \/ Raises(e)
  \/ Dies

Spec == Init /\ [][Next]_vars

-----------------------------------------------------------------------------
(* An event whose call was answered is in the list or in the table, unless  *)
(* it was appended during the await of a flush, which then cleared it, or   *)
(* the process ended: no order of overlapping and failing flushes loses any *)
(* other (_flush_pending_events, log_event).                                *)
LostOnlyIfLate == \A e \in Event \ HighRisk : pc[e] # "new" =>
  e \in pending \cup late \cup forgone \/ stored[e] > 0

(* The list outgrows the batch only while a flush is under way or after one *)
(* has failed: no path leaves a full batch to itself (log_event).           *)
BacklogHasAFlush == Cardinality(pending) >= BatchSize =>
  \/ Flushing # {}
  \/ \E e \in Event \ HighRisk : pc[e] = "err"

RowsAreShared == \A e \in Event :
  /\ e \in HighRisk /\ pc[e] = "ok" => stored[e] = 1
  /\ stored[e] > 1 => \E f, g \in Event : f # g /\ e \in batch[f] \cap batch[g]

(* An event of high risk that was answered with Ok has one row, and what    *)
(* has two rows was taken by two flushes.  A flush takes nothing that an    *)
(* earlier one had and was answered with Ok: so the two overlapped, or the  *)
(* earlier one ended in an error (_write_event_to_database,                 *)
(* _flush_pending_events).                                                  *)
TwiceOnlyIfShared ==
  /\ []RowsAreShared
  /\ [][\A f, g \in Event : pc[f] = "ok" /\ pc[g] = "new" => batch[f] \cap batch'[g] = {}]_vars

(* "Flush all pending events to database."  Refuted. *)
PendingIsStored == \A e \in Event \ HighRisk :
  pc[e] # "new" => e \in pending \cup forgone \/ stored[e] > 0
=============================================================================
