--------------------------- MODULE MessageQueue ---------------------------
(***************************************************************************)
(* RedisMessageQueue: four Redis lists by priority, a processing list and  *)
(* a dead-letter list, shared by workers (dequeue, then acknowledge or     *)
(* reject) and by the cleanup task that runs once a minute.                *)
(*                                                                         *)
(* Every Redis command is one step, since every command is an await and    *)
(* workers may live in different processes.  LPUSH is Append and the       *)
(* right end of a list is its Head.  Clocks are abstract: an entry that    *)
(* has been in processing for longer than processing_timeout_seconds is in *)
(* `late', a message older than message_ttl_seconds is in `old'.           *)
(* A caller that gets an Err gives the message up.                         *)
(***************************************************************************)
EXTENDS Naturals, Sequences, FiniteSets

CONSTANTS
    Msg,          \* message ids
    Worker,       \* tasks that call dequeue, acknowledge and reject
    Cleaner,      \* the task of _cleanup_loop
    NPriority,    \* priorities, 1 the most urgent
    PriorityOf,   \* the priority a message is enqueued with
    MaxRetries    \* max_retries

ASSUME WorkerAssumption == IsFiniteSet(Worker) /\ Cleaner \notin Worker
ASSUME PriorityAssumption == /\ NPriority \in Nat \ {0}
                             /\ PriorityOf \in [Msg -> 1..NPriority]
ASSUME RetryAssumption == MaxRetries \in Nat

VARIABLES
    pending,      \* the lists of all priorities, as one sequence
    processing,   \* the processing list
    dead,         \* the dead-letter list
    acked,        \* messages whose acknowledge returned Ok
    sent,         \* messages whose enqueue returned Ok
    op,           \* what every task is doing
    todo,         \* the cleaner's snapshot of processing, still to visit
    late,         \* entries in processing beyond the timeout
    old,          \* messages beyond their time to live
    failed        \* messages that an operation failed in the middle of

queues == <<pending, processing, dead>>
clocks == <<late, old, failed>>
vars   == <<queues, acked, sent, op, todo, clocks>>

Priority == 1..NPriority
Task     == Worker \cup {Cleaner}

\* The serialised QueuedMessage: LREM compares the whole value.
Entry == [id: Msg, prio: Priority, retries: 0..(MaxRetries + 1), started: BOOLEAN]

Idle(at) == [at |-> at]
Op == {Idle("idle")}
      \cup [at: {"look"}, prio: Priority]
      \cup [at: {"taken", "moved", "holds", "acking", "backoff", "bury", "dropped"}, e: Entry]
      \cup [at: {"rejecting"}, e: Entry, retry: BOOLEAN]

TypeOK ==
    /\ pending \in Seq(Entry) /\ processing \in Seq(Entry) /\ dead \in Seq(Entry) /\ todo \in Seq(Entry)
    /\ acked \subseteq Msg /\ sent \subseteq Msg /\ old \subseteq Msg /\ failed \subseteq Msg
    /\ op \in [Task -> Op]
    /\ late \subseteq Entry

Init ==
    /\ pending = <<>> /\ processing = <<>> /\ dead = <<>> /\ todo = <<>>
    /\ acked = {} /\ sent = {} /\ late = {} /\ old = {} /\ failed = {}
    /\ op = [t \in Task |-> Idle("idle")]

-----------------------------------------------------------------------------
\* Redis

Entries(s) == {s[i] : i \in DOMAIN s}

\* LREM key 1 value: nothing happens when the value is not there.
LRem(s, e) ==
    IF e \notin Entries(s) THEN s
    ELSE LET k == CHOOSE i \in DOMAIN s : s[i] = e /\ \A j \in 1..(i - 1) : s[j] # e
         IN  SubSeq(s, 1, k - 1) \o SubSeq(s, k + 1, Len(s))

\* The right end of the list of one priority.
Oldest(p) ==
    {pending[i] : i \in {j \in DOMAIN pending : /\ pending[j].prio = p
                                               /\ \A k \in 1..(j - 1) : pending[k].prio # p}}

\* The entry a scan of the processing list by id finds.
Found(id) == {e \in Entries(processing) : e.id = id}

Goes(t, o)  == op' = [op EXCEPT ![t] = o]
At(t, at)   == op[t].at = at

-----------------------------------------------------------------------------
Enqueue(m) ==
    /\ m \notin sent
    /\ sent' = sent \cup {m}
    /\ pending' = Append(pending, [id |-> m, prio |-> PriorityOf[m], retries |-> 0, started |-> FALSE])
    /\ UNCHANGED <<processing, dead, acked, op, todo, clocks>>

\* dequeue looks at the lists one after the other, waiting on each.
Dequeue(w) ==
    /\ At(w, "idle")
    /\ Goes(w, [at |-> "look", prio |-> 1])
    /\ UNCHANGED <<queues, acked, sent, todo, clocks>>

LooksFurther(w) ==
    /\ At(w, "look")
    /\ Oldest(op[w].prio) = {}
    /\ Goes(w, IF op[w].prio = NPriority THEN Idle("idle")
               ELSE [op[w] EXCEPT !.prio = @ + 1])
    /\ UNCHANGED <<queues, acked, sent, todo, clocks>>

Takes_Peeks(w) ==
    /\ At(w, "look")
    /\ \E e \in Oldest(op[w].prio) :
         /\ processing' = Append(processing, e)
         /\ Goes(w, [at |-> "taken", e |-> e])
    /\ UNCHANGED <<pending, dead, acked, sent, todo, clocks>>

\* BRPOPLPUSH
Takes(w) ==
    /\ At(w, "look")
    /\ \E e \in Oldest(op[w].prio) :
         /\ pending' = LRem(pending, e)
         /\ processing' = Append(processing, e)
         /\ Goes(w, [at |-> "taken", e |-> e])
    /\ UNCHANGED <<dead, acked, sent, todo, clocks>>

\* The popped value is replaced by one that says when processing started.
TakesOut(w) ==
    /\ At(w, "taken")
    /\ processing' = LRem(processing, op[w].e)
    /\ Goes(w, [at |-> "moved", e |-> [op[w].e EXCEPT !.started = TRUE]])
    /\ UNCHANGED <<pending, dead, acked, sent, todo, clocks>>

Starts(w) ==
    /\ At(w, "moved")
    /\ processing' = Append(processing, op[w].e)
    /\ Goes(w, [op[w] EXCEPT !.at = "holds"])
    /\ UNCHANGED <<pending, dead, acked, sent, todo, clocks>>

-----------------------------------------------------------------------------
Acknowledge(w) ==
    /\ At(w, "holds")
    /\ \/ \E e \in Found(op[w].e.id) : Goes(w, [at |-> "acking", e |-> e])
       \/ Found(op[w].e.id) = {} /\ Goes(w, Idle("idle"))
    /\ UNCHANGED <<queues, acked, sent, todo, clocks>>

Acknowledged_Keeps(w) ==
    /\ At(w, "acking")
    /\ acked' = acked \cup {op[w].e.id}
    /\ Goes(w, Idle("idle"))
    /\ UNCHANGED <<queues, sent, todo, clocks>>

Acknowledged(w) ==
    /\ At(w, "acking")
    /\ processing' = LRem(processing, op[w].e)
    /\ acked' = acked \cup {op[w].e.id}
    /\ Goes(w, Idle("idle"))
    /\ UNCHANGED <<pending, dead, sent, todo, clocks>>

\* reject, called by a worker, or by the cleaner for the entry it dropped.
Reject(t) ==
    /\ At(t, IF t = Cleaner THEN "dropped" ELSE "holds")
    /\ \/ \E e \in Found(op[t].e.id), retry \in IF t = Cleaner THEN {TRUE} ELSE BOOLEAN :
            Goes(t, [at |-> "rejecting", e |-> e, retry |-> retry])
       \/ Found(op[t].e.id) = {} /\ Goes(t, Idle("idle"))
    /\ UNCHANGED <<queues, acked, sent, todo, clocks>>

Rejected(t) ==
    /\ At(t, "rejecting")
    /\ processing' = LRem(processing, op[t].e)
    /\ LET e == [op[t].e EXCEPT !.retries = @ + 1, !.started = FALSE]
       IN  Goes(t, [at |-> IF op[t].retry /\ e.retries < MaxRetries THEN "backoff" ELSE "bury",
                    e |-> e])
    /\ UNCHANGED <<pending, dead, acked, sent, todo, clocks>>

\* After asyncio.sleep(delay).
Requeues(t) ==
    /\ At(t, "backoff")
    /\ pending' = Append(pending, op[t].e)
    /\ Goes(t, Idle("idle"))
    /\ UNCHANGED <<processing, dead, acked, sent, todo, clocks>>

Buries(t) ==
    /\ At(t, "bury")
    /\ dead' = Append(dead, op[t].e)
    /\ Goes(t, Idle("idle"))
    /\ UNCHANGED <<pending, processing, acked, sent, todo, clocks>>

-----------------------------------------------------------------------------
\* _cleanup_loop

Sweep ==
    /\ At(Cleaner, "idle") /\ todo = <<>>
    /\ processing # <<>>
    /\ todo' = processing
    /\ UNCHANGED <<queues, acked, sent, op, clocks>>

Overdue(e) == e.started /\ e \in late

Expired_OnlyStarted(e) == e.started /\ e.id \in old
Expired(e) == e.id \in old

Visits(e) == At(Cleaner, "idle") /\ todo # <<>> /\ e = Head(todo) /\ todo' = Tail(todo)

SweepsOverdue(e) ==
    /\ Visits(e) /\ Overdue(e)
    /\ processing' = LRem(processing, e)
    /\ Goes(Cleaner, [at |-> "dropped", e |-> e])
    /\ UNCHANGED <<pending, dead, acked, sent, clocks>>

SweepsExpired(e) ==
    /\ Visits(e) /\ ~Overdue(e)
    /\ Expired(e)
    /\ processing' = LRem(processing, e)
    /\ UNCHANGED <<pending, dead, acked, sent, op, clocks>>

SweepsPast(e) ==
    /\ Visits(e) /\ ~Overdue(e)
    /\ ~Expired(e)
    /\ UNCHANGED <<queues, acked, sent, op, clocks>>

-----------------------------------------------------------------------------
\* Time, and a command that raises: the operation ends where it is, with an
\* Err or with the process.

GetsLate(e) ==
    /\ e.started /\ e \notin late
    /\ late' = late \cup {e}
    /\ UNCHANGED <<queues, acked, sent, op, todo, old, failed>>

GetsOld(m) ==
    /\ m \in sent \ old
    /\ old' = old \cup {m}
    /\ UNCHANGED <<queues, acked, sent, op, todo, late, failed>>

Fails(t) ==
    /\ ~At(t, "idle")
    /\ Goes(t, Idle("idle"))
    /\ failed' = failed \cup (IF At(t, "look") THEN {} ELSE {op[t].e.id})
    /\ UNCHANGED <<queues, acked, sent, todo, late, old>>

WorkerStep(w) ==
    \/ Dequeue(w) \/ LooksFurther(w) \/ Takes(w) \/ TakesOut(w) \/ Starts(w)
    \/ Acknowledge(w) \/ Acknowledged(w)

RejectStep(t) == Reject(t) \/ Rejected(t) \/ Requeues(t) \/ Buries(t)

SweepStep ==
    \/ Sweep
    \/ \E e \in Entries(todo) : SweepsOverdue(e) \/ SweepsExpired(e) \/ SweepsPast(e)

TimeStep ==
    \/ \E e \in Entries(processing) \cup Entries(todo) : GetsLate(e)
    \/ \E m \in sent : GetsOld(m)

Next ==
    \/ \E m \in Msg : Enqueue(m)
    \/ \E w \in Worker : WorkerStep(w)
    \/ \E t \in Task : RejectStep(t) \/ Fails(t)
    \/ SweepStep
    \/ TimeStep

Spec == Init /\ [][Next]_vars

\* The cleanup task runs for as long as its process does, and time passes.
\* Nothing is assumed of the workers.
FairSpec ==
    /\ Spec
    /\ WF_vars(SweepStep) /\ WF_vars(RejectStep(Cleaner))
    /\ \A m \in Msg : WF_vars(GetsOld(m))

-----------------------------------------------------------------------------
\* Properties

\* A message that has never overstayed, neither in processing nor in all.
Prompt(m) == m \notin old /\ \A e \in late : e.id # m

Count(s, m) == Cardinality({i \in DOMAIN s : s[i].id = m})

InHands(m) == {t \in Task : op[t].at \in {"moved", "backoff", "bury"} /\ op[t].e.id = m}

\* How many copies of the message there are: in the lists, in the hands of a
\* task between two commands, and one for having been acknowledged.
Copies(m) ==
    Count(pending, m) + Count(processing, m) + Count(dead, m)
    + Cardinality(InHands(m)) + Cardinality(acked \cap {m})

\* A prompt message is never duplicated: it is in one list, or in the hands
\* of one task, or acknowledged, whatever fails in between.  Nor is it lost,
\* unless an operation on itself fails half way: no interleaving of dequeue,
\* acknowledge, reject and the cleanup makes it disappear.  All entries keep
\* their types, the retries their bound among them, whoever rejects.
PromptOnce ==
    /\ TypeOK
    /\ \A m \in sent : Prompt(m) => Copies(m) <= 1 /\ (m \notin failed => Copies(m) > 0)

Working(w, m) == op[w].at \in {"taken", "moved", "holds", "acking", "rejecting"} /\ op[w].e.id = m

\* At most one worker at a time has a prompt message to process.
OneWorker ==
    \A m \in sent : Prompt(m) => Cardinality({w \in Worker : Working(w, m)}) <= 1

\* Nothing stays in the processing list for good, although workers may hang
\* and dequeue may die between BRPOPLPUSH and writing the start time.
ProcessingDrains ==
    \A m \in Msg : [](Found(m) # {} => <>(Found(m) = {}))

TimedOut(m) == \E e \in late : e.id = m

\* Refuted: "Remove from processing queue and reject", with retry=True.  A
\* message that timed out is retried or put in the dead-letter list, when no
\* command on it has failed and its time to live is not over.
TimedOutIsKept ==
    \A m \in sent : TimedOut(m) /\ m \notin old \cup failed =>
        \/ Copies(m) > 0
        \/ At(Cleaner, "dropped") /\ op[Cleaner].e.id = m

\* Refuted: "Check if message has been processing too long".  The cleaner
\* takes from the processing list only what has been there too long.
OnlyOverdueTaken ==
    [][\A e \in Entries(processing) :
         (At(Cleaner, "rejecting") /\ ~At(Cleaner, "rejecting")' /\ e = op[Cleaner].e) => Overdue(e)]_vars
=============================================================================
