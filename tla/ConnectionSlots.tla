--------------------------- MODULE ConnectionSlots ---------------------------
(***************************************************************************)
(* core/redis_connection_manager.py: the connection slots of one pool, kept *)
(* in Redis for all processes.  A call of managed_connection takes a slot,  *)
(* or queues, subscribes and waits to be told of one.  Every Redis command  *)
(* is a step of its own; the two Lua scripts are atomic.  A call is one     *)
(* request (its id ends in time_ns), in a process that may die.             *)
(***************************************************************************)
EXTENDS Naturals, Sequences, FiniteSets

CONSTANTS Request,          \* calls of managed_connection
          Client,           \* client ids
          ClientOf,         \* the client_id of a call
          Nobody,           \* no request
          MaxConnections,   \* max_connections
          MaxRequests       \* RateLimitConfig.max_requests

ASSUME RequestAssumption == /\ IsFiniteSet(Request) /\ Nobody \notin Request
                            /\ ClientOf \in [Request -> Client]
ASSUME SlotsAssumption == MaxConnections \in Nat /\ MaxRequests \in Nat

VARIABLES pc,       \* the await at which each call is
          active,   \* the `active' field of the pool's state hash
          queue,    \* the sorted set of queued requests, lowest score first
          counted,  \* requests in the sliding windows of their clients
          mail,     \* notifications that a subscriber has not read yet
          head,     \* the request that a releasing call has found first
          told,     \* requests a notification was published for
          lost      \* slots in `active' that no call is going to release

shared == <<active, queue, counted>>
vars   == <<pc, shared, mail, head, told, lost>>

\* "borrows" is the body of a call that waited: it runs inside the timeout.
Using   == {"uses", "borrows"}
Holding == Using \cup {"metrics", "releases"}
Ended   == {"over", "dead"}
PC      == {"calls", "asks", "queues", "queued", "waits", "peeks", "notifies", "removes"}
           \cup Holding \cup Ended

Holders == {r \in Request : pc[r] \in Holding}

TypeOK ==
    /\ pc \in [Request -> PC]
    /\ active \in 0..MaxConnections
    /\ queue \in Seq(Request)
    /\ counted \subseteq Request /\ told \subseteq Request
    /\ mail \in [Request -> Nat]
    /\ head \in [Request -> Request \cup {Nobody}]
    /\ lost \in 0..MaxConnections

Init ==
    /\ pc = [r \in Request |-> "calls"]
    /\ active = 0 /\ queue = <<>> /\ counted = {} /\ told = {} /\ lost = 0
    /\ mail = [r \in Request |-> 0]
    /\ head = [r \in Request |-> Nobody]

At(r, at)   == pc[r] = at
Goes(r, at) == pc' = [pc EXCEPT ![r] = at]

-----------------------------------------------------------------------------
\* Redis

Free_OffByOne == active <= MaxConnections
Free == active < MaxConnections

\* ZADD: the score was taken before, from the clock of the caller's process.
Queued(r) == \E i \in 0..Len(queue) :
               queue' = SubSeq(queue, 1, i) \o <<r>> \o SubSeq(queue, i + 1, Len(queue))

\* ZREM: a member is in a sorted set once.
InQueue(r) == \E i \in DOMAIN queue : queue[i] = r

Without(r) ==
    IF ~InQueue(r) THEN queue
    ELSE LET i == CHOOSE i \in DOMAIN queue : queue[i] = r
         IN  SubSeq(queue, 1, i - 1) \o SubSeq(queue, i + 1, Len(queue))

\* PUBLISH: whoever has not subscribed yet, or no longer waits, misses it.
Published(r) == /\ told' = told \cup {r}
                /\ mail' = IF At(r, "waits") THEN [mail EXCEPT ![r] = @ + 1] ELSE mail

UnderLimit(r) == Cardinality({q \in counted : ClientOf[q] = ClientOf[r]}) < MaxRequests

-----------------------------------------------------------------------------
\* managed_connection up to the yield

Acquires(r) ==
    /\ At(r, "calls") /\ Free
    /\ active' = active + 1
    /\ Goes(r, "uses")
    /\ UNCHANGED <<queue, counted, mail, head, told, lost>>

Busy(r) ==
    /\ At(r, "calls") /\ ~Free
    /\ Goes(r, "asks")
    /\ UNCHANGED <<shared, mail, head, told, lost>>

\* check_rate_limit
Admitted(r) ==
    /\ At(r, "asks") /\ UnderLimit(r)
    /\ counted' = counted \cup {r}
    /\ Goes(r, "queues")
    /\ UNCHANGED <<active, queue, mail, head, told, lost>>

Limited(r) ==
    /\ At(r, "asks") /\ ~UnderLimit(r)
    /\ Goes(r, "over")
    /\ UNCHANGED <<shared, mail, head, told, lost>>

Queues(r) ==
    /\ At(r, "queues")
    /\ Queued(r)
    /\ Goes(r, "queued")
    /\ UNCHANGED <<active, counted, mail, head, told, lost>>

\* ZRANK, which changes nothing, and then SUBSCRIBE.
Subscribes(r) ==
    /\ At(r, "queued")
    /\ Goes(r, "waits")
    /\ UNCHANGED <<shared, mail, head, told, lost>>

Reads(r) == At(r, "waits") /\ mail[r] > 0 /\ mail' = [mail EXCEPT ![r] = @ - 1]

Woken(r) ==
    /\ Reads(r) /\ Free
    /\ active' = active + 1
    /\ Goes(r, "borrows")
    /\ UNCHANGED <<queue, counted, head, told, lost>>

\* Somebody else was faster: the call waits on, no longer in the queue.
WokenLate(r) ==
    /\ Reads(r) /\ ~Free
    /\ UNCHANGED <<pc, shared, head, told, lost>>

Deadline_NotInUse(r) ==
    /\ At(r, "waits")
    /\ Goes(r, "over")
    /\ UNCHANGED <<shared, mail, head, told, lost>>

Deadline_SkipsFinally(r) ==
    /\ pc[r] \in {"waits", "borrows"}
    /\ Goes(r, "over")
    /\ UNCHANGED <<shared, mail, head, told, lost>>

\* asyncio.timeout: the wait ends with a refusal, its entry still in the
\* queue; a body that runs inside it is cut off and its generator closed.
Deadline(r) ==
    /\ pc[r] \in {"waits", "borrows"}
    /\ Goes(r, IF At(r, "waits") THEN "over" ELSE "metrics")
    /\ UNCHANGED <<shared, mail, head, told, lost>>

\* The timeout cancels the script call that has just taken a slot.
CutWhileAcquiring(r) ==
    /\ Reads(r) /\ Free
    /\ active' = active + 1 /\ lost' = lost + 1
    /\ Goes(r, "over")
    /\ UNCHANGED <<queue, counted, head, told>>

-----------------------------------------------------------------------------
\* The finally block: the metrics, release_connection_slot, _process_queue

Leaves(r) ==
    /\ pc[r] \in Using
    /\ Goes(r, "metrics")
    /\ UNCHANGED <<shared, mail, head, told, lost>>

Measures(r) ==
    /\ At(r, "metrics")
    /\ Goes(r, "releases")
    /\ UNCHANGED <<shared, mail, head, told, lost>>

Releases(r) ==
    /\ At(r, "releases")
    /\ active' = active - 1
    /\ Goes(r, "peeks")
    /\ UNCHANGED <<queue, counted, mail, head, told, lost>>

FindsNobody(r) ==
    /\ At(r, "peeks") /\ queue = <<>>
    /\ Goes(r, "over")
    /\ UNCHANGED <<shared, mail, head, told, lost>>

Finds(r) ==
    /\ At(r, "peeks") /\ queue # <<>>
    /\ head' = [head EXCEPT ![r] = Head(queue)]
    /\ Goes(r, "notifies")
    /\ UNCHANGED <<shared, mail, told, lost>>

Notifies_RemovesFirst(r) ==
    /\ At(r, "notifies")
    /\ queue' = Without(head[r])
    /\ Goes(r, "removes")
    /\ UNCHANGED <<active, counted, mail, head, told, lost>>

Notifies(r) ==
    /\ At(r, "notifies")
    /\ Published(head[r])
    /\ Goes(r, "removes")
    /\ UNCHANGED <<shared, head, lost>>

Removes(r) ==
    /\ At(r, "removes")
    /\ queue' = Without(head[r])
    /\ Goes(r, "over")
    /\ UNCHANGED <<active, counted, mail, head, told, lost>>

-----------------------------------------------------------------------------
\* What may go wrong: a command raises before it has taken effect, or its
\* answer is lost after it has; the process dies.

NextAfterError(r) == IF At(r, "calls") THEN "asks" ELSE "over"

Raises(r) ==
    /\ \/ /\ pc[r] \notin Using \cup Ended \cup {"waits"}
          /\ Goes(r, NextAfterError(r))
          /\ lost' = IF pc[r] \in Holding THEN lost + 1 ELSE lost
          /\ UNCHANGED mail
       \/ Reads(r) /\ UNCHANGED <<pc, lost>>
    /\ UNCHANGED <<shared, head, told>>

AnswerLost(r) ==
    \/ /\ At(r, "calls") /\ Free
       /\ active' = active + 1 /\ lost' = lost + 1
       /\ Goes(r, NextAfterError(r))
       /\ UNCHANGED <<queue, counted, mail, head, told>>
    \/ /\ Reads(r) /\ Free
       /\ active' = active + 1 /\ lost' = lost + 1
       /\ UNCHANGED <<pc, queue, counted, head, told>>
    \/ /\ At(r, "asks") /\ UnderLimit(r)
       /\ counted' = counted \cup {r}
       /\ Goes(r, NextAfterError(r))
       /\ UNCHANGED <<active, queue, mail, head, told, lost>>
    \/ /\ At(r, "queues") /\ Queued(r)
       /\ Goes(r, NextAfterError(r))
       /\ UNCHANGED <<active, counted, mail, head, told, lost>>
    \/ /\ At(r, "releases")
       /\ active' = active - 1
       /\ Goes(r, NextAfterError(r))
       /\ UNCHANGED <<queue, counted, mail, head, told, lost>>
    \/ /\ At(r, "notifies") /\ Published(head[r])
       /\ Goes(r, NextAfterError(r))
       /\ UNCHANGED <<shared, head, lost>>

Dies(r) ==
    /\ pc[r] \notin Ended
    /\ Goes(r, "dead")
    /\ lost' = IF r \in Holders THEN lost + 1 ELSE lost
    /\ UNCHANGED <<shared, mail, head, told>>

\* window_seconds have passed since the request was counted.
Slides(r) ==
    /\ r \in counted
    /\ counted' = counted \ {r}
    /\ UNCHANGED <<pc, active, queue, mail, head, told, lost>>

AskStep(r)   == Acquires(r) \/ Busy(r) \/ Admitted(r) \/ Limited(r) \/ Queues(r) \/ Subscribes(r)
WaitStep(r)  == Woken(r) \/ WokenLate(r) \/ Deadline(r) \/ CutWhileAcquiring(r)
LeaveStep(r) == Measures(r) \/ Releases(r) \/ FindsNobody(r) \/ Finds(r) \/ Notifies(r) \/ Removes(r)
FaultStep(r) == Raises(r) \/ AnswerLost(r) \/ Dies(r)

Next ==
    \E r \in Request : AskStep(r) \/ WaitStep(r) \/ Leaves(r) \/ LeaveStep(r) \/ FaultStep(r) \/ Slides(r)

Spec == Init /\ [][Next]_vars

\* A call whose await is over runs on, and the timer of asyncio.timeout
\* fires.  A body need not end by itself.
FairSpec ==
    /\ Spec
    /\ \A r \in Request : WF_vars(AskStep(r)) /\ WF_vars(LeaveStep(r)) /\ WF_vars(Deadline(r))

-----------------------------------------------------------------------------
\* Properties

\* The counter in Redis is never less than what is really in use: it counts
\* every call that has a slot, and besides only slots that are lost for good.
Accounted == active = Cardinality(Holders) + lost

\* A request disappears from the queue only after it was sent a notification,
\* although two releasing calls may find the same request first.
ToldBeforeRemoved ==
    [][\A r \in Request : InQueue(r) /\ ~InQueue(r)' => r \in told]_vars

\* A call that had to queue comes to its end, whether its notification comes,
\* comes too late, or was sent before it had subscribed.  A dead process is an end.
QueuedCallEnds == \A r \in Request : At(r, "queues") ~> pc[r] \in Ended

\* What is promised to the callers: a semaphore.
Slots == INSTANCE Semaphore WITH Size <- MaxConnections, holders <- Holders

\* The slots in Redis are a semaphore of max_connections that may lose slots,
\* but under no failure and in no order of steps hands out one too many.
ImplementsSemaphore == Slots!Spec

\* Refuted: "Automatic release".  Slots are only lost to a command that fails
\* or to a process that dies.
AutomaticRelease == [][lost' # lost => \E r \in Request : FaultStep(r)]_vars

\* Refuted: "Publish to waiting client".  A request that is taken out of the
\* queue while its call goes on has a notification to read.
RemovedIsWoken ==
    [][\A r \in Request : InQueue(r) /\ At(r, "waits") /\ ~InQueue(r)' => mail'[r] > 0]_vars
=============================================================================
