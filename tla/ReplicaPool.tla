----------------------------- MODULE ReplicaPool -----------------------------
(***************************************************************************)
(* core/enterprise_db_architecture.py: EnterpriseConnectionPool.  A request *)
(* for a read connection waits its turn in a queue kept in Redis, is routed *)
(* to a replica that looks healthy or else to the primary, and its outcome  *)
(* feeds the replica's circuit breaker, as does a periodic health check.    *)
(* Write requests only use the primary and have no part in any of this.     *)
(***************************************************************************)
EXTENDS Naturals, Sequences

CONSTANTS Request,           \* callers of acquire_connection
          Replica,           \* read replicas
          None,              \* no replica chosen
          FailureThreshold,  \* CircuitBreakerConfig.failure_threshold
          HalfOpenRequests   \* CircuitBreakerConfig.half_open_requests

ASSUME ConfigAssumption == /\ FailureThreshold \in Nat \ {0}
                           /\ HalfOpenRequests \in Nat \ {0}
                           /\ None \notin Replica

VARIABLES queue,    \* the requests by score, that is by the time they started
          pc,       \* where each caller is
          chosen,   \* the replica a caller was routed to
          healthy,  \* _replica_health[r].healthy
          breaker   \* _circuit_breakers[r]

vars == <<queue, pc, chosen, healthy, breaker>>

Waiting == {"starts", "polls", "removes"}

TypeOK ==
  /\ queue \in Seq(Request)
  /\ pc \in [Request -> Waiting \cup {"idle", "replica", "onReplica", "primary", "onPrimary", "again", "gone"}]
  /\ chosen \in [Request -> Replica \cup {None}]
  /\ healthy \in [Replica -> BOOLEAN]
  /\ breaker \in [Replica -> [state: {"closed", "open", "half_open"},
                              failures: 0..FailureThreshold,
                              cooled: BOOLEAN,          \* recovery_timeout has passed
                              tests: 0..HalfOpenRequests]]

Init == /\ queue = <<>>
        /\ pc = [r \in Request |-> "idle"]
        /\ chosen = [r \in Request |-> None]
        /\ healthy = [p \in Replica |-> TRUE]
        /\ breaker = [p \in Replica |->
                       [state |-> "closed", failures |-> 0, cooled |-> FALSE, tests |-> 0]]

At(r, place) == pc[r] = place
Goes(r, place) == pc' = [pc EXCEPT ![r] = place]

-----------------------------------------------------------------------------
(* CircuitBreaker.  Failures are counted up to the threshold. *)

OnSuccess(b) ==
  IF b.state = "half_open" /\ b.tests >= HalfOpenRequests
  THEN [b EXCEPT !.state = "closed", !.failures = 0]
  ELSE IF b.state = "closed" THEN [b EXCEPT !.failures = 0] ELSE b

Tripped_Late(b) == b.state = "half_open" \/ b.failures >= FailureThreshold

Tripped(b) == b.state = "half_open" \/ b.failures + 1 >= FailureThreshold

OnFailure(b) ==
  [b EXCEPT !.failures = IF @ < FailureThreshold THEN @ + 1 ELSE @,
            !.cooled = FALSE,
            !.state = IF Tripped(b) THEN "open" ELSE @]

Allows(b) == \/ b.state = "closed"
             \/ b.state = "open" /\ b.cooled
             \/ b.state = "half_open" /\ b.tests < HalfOpenRequests

AfterAsking(b) ==
  IF b.state = "open" /\ b.cooled THEN [b EXCEPT !.state = "half_open", !.tests = 0]
  ELSE IF b.state = "half_open" /\ Allows(b) THEN [b EXCEPT !.tests = @ + 1] ELSE b

-----------------------------------------------------------------------------
(* Waiting for one's turn: zadd with the time of the call as its score, then *)
(* zrange until one is first, then zrem.  execute_query, the only caller,    *)
(* leaves the priority at its default.                                       *)

Starts(r) ==
  /\ At(r, "idle") /\ Goes(r, "starts")
  /\ queue' = Append(queue, r)
  /\ UNCHANGED <<chosen, healthy, breaker>>

(* The entry is in Redis, perhaps after the entry of a later call. *)
Arrives(r) ==
  /\ At(r, "starts") /\ Goes(r, "polls")
  /\ UNCHANGED <<queue, chosen, healthy, breaker>>

(* What Redis has of the queue, and the entry that is first there. *)
Arrived == {i \in DOMAIN queue : pc[queue[i]] # "starts"}
First   == {queue[i] : i \in {j \in Arrived : \A k \in Arrived : j <= k}}

IsNext_Last(r) == \E i \in Arrived : queue[i] = r /\ \A k \in Arrived : k <= i

IsNext(r) == r \in First

SeesItsTurn(r) ==
  /\ At(r, "polls") /\ IsNext(r) /\ Goes(r, "removes")
  /\ UNCHANGED <<queue, chosen, healthy, breaker>>

Without_Kept(r) == queue

(* ZREM, wherever the entry is: a member is in a sorted set once. *)
Without(r) ==
  IF \A i \in DOMAIN queue : queue[i] # r THEN queue
  ELSE LET i == CHOOSE i \in DOMAIN queue : queue[i] = r
       IN  SubSeq(queue, 1, i - 1) \o SubSeq(queue, i + 1, Len(queue))

(* _select_replica, then allow_request on the choice: nothing runs between. *)
Usable == {p \in Replica : healthy[p] /\ breaker[p].state # "open"}

IsRouted(r) ==
  /\ At(r, "removes")
  /\ queue' = Without(r)
  /\ \/ /\ Usable = {} /\ Goes(r, "primary")
        /\ UNCHANGED <<chosen, breaker>>
     \/ \E p \in Usable :
          /\ chosen' = [chosen EXCEPT ![r] = p]
          /\ breaker' = [breaker EXCEPT ![p] = AfterAsking(@)]
          /\ Goes(r, IF Allows(breaker[p]) THEN "replica" ELSE "primary")
  /\ UNCHANGED healthy

(* A caller that times out or is cancelled while it waits leaves its entry; *)
(* in the middle of zadd or zrem there may be none.                         *)
Stops(r) ==
  /\ pc[r] \in Waiting /\ Goes(r, "gone")
  /\ \/ queue' = queue
     \/ ~ At(r, "polls") /\ queue' = Without(r)
  /\ UNCHANGED <<chosen, healthy, breaker>>

-----------------------------------------------------------------------------
(* Using a connection. *)

ReplicaConnects(r) ==
  /\ At(r, "replica") /\ Goes(r, "onReplica")
  /\ breaker' = [breaker EXCEPT ![chosen[r]] = OnSuccess(@)]
  /\ UNCHANGED <<queue, chosen, healthy>>

ReplicaRefuses(r) ==
  /\ At(r, "replica") /\ Goes(r, "primary")
  /\ breaker' = [breaker EXCEPT ![chosen[r]] = OnFailure(@)]
  /\ UNCHANGED <<queue, chosen, healthy>>

(* The caller's own exception comes back through the yield: it counts       *)
(* against the replica, and the generator goes for the primary once more.   *)
CallerRaises(r) ==
  /\ At(r, "onReplica") /\ Goes(r, "again")
  /\ breaker' = [breaker EXCEPT ![chosen[r]] = OnFailure(@)]
  /\ UNCHANGED <<queue, chosen, healthy>>

PrimaryConnects(r) ==
  /\ At(r, "primary") /\ Goes(r, "onPrimary")
  /\ UNCHANGED <<queue, chosen, healthy, breaker>>

(* The caller is done, or a second yield, or a refused primary, raises. *)
Finishes(r) ==
  /\ pc[r] \in {"onReplica", "primary", "onPrimary", "again"} /\ Goes(r, "idle")
  /\ chosen' = [chosen EXCEPT ![r] = None]
  /\ UNCHANGED <<queue, healthy, breaker>>

-----------------------------------------------------------------------------
(* _health_check_loop, one replica, and the clock. *)

Answers(p) ==
  /\ healthy' = [healthy EXCEPT ![p] = TRUE]
  /\ breaker' = [breaker EXCEPT ![p] = OnSuccess(@)]
  /\ UNCHANGED <<queue, pc, chosen>>

FailsCheck(p) ==
  /\ healthy' = [healthy EXCEPT ![p] = FALSE]
  /\ breaker' = [breaker EXCEPT ![p] = OnFailure(@)]
  /\ UNCHANGED <<queue, pc, chosen>>

Cools(p) ==
  /\ breaker[p].state = "open" /\ ~ breaker[p].cooled
  /\ breaker' = [breaker EXCEPT ![p].cooled = TRUE]
  /\ UNCHANGED <<queue, pc, chosen, healthy>>

Serves(r) == \/ Arrives(r) \/ SeesItsTurn(r) \/ IsRouted(r)
             \/ ReplicaConnects(r) \/ ReplicaRefuses(r) \/ CallerRaises(r)
             \/ PrimaryConnects(r) \/ Finishes(r)

Next == \/ \E r \in Request : Starts(r) \/ Serves(r) \/ Stops(r)
        \/ \E p \in Replica : Answers(p) \/ FailsCheck(p) \/ Cools(p)

Spec == Init /\ [][Next]_vars

(* A caller polls every 10 ms and every await of it ends; the health check  *)
(* is a loop, and a replica answers it now and then; the clock passes the   *)
(* recovery timeout.  Nobody has to call, and no replica has to fail.       *)
FairSpec == /\ Spec
            /\ \A r \in Request : WF_vars(Serves(r))
            /\ \A p \in Replica : WF_vars(Answers(p)) /\ WF_vars(Cools(p))

-----------------------------------------------------------------------------
NobodyGone == \A r \in Request : ~ At(r, "gone")

HeadWaits == \E h \in First : pc[h] \in Waiting

(* As long as no caller gives up while waiting, the queue has no dead head:  *)
(* whenever somebody polls, the entry that must go first belongs to somebody *)
(* who waits, although seeing one's turn and leaving the queue are two       *)
(* commands and calls may overtake each other between (acquire_connection).  *)
HeadIsAlive ==
  (NobodyGone /\ \E r \in Request : At(r, "polls")) => HeadWaits

(* The breaker keeps its count across interleaved requests and checks: it   *)
(* is open exactly from the FailureThreshold-th failure in a row on         *)
(* (on_failure, on_success).                                                *)
OpenMeansFailed == \A p \in Replica :
  (breaker[p].state = "open") <=> (breaker[p].failures = FailureThreshold)

(* Whoever calls for a connection gets through and is served, as long as no  *)
(* caller gives up while waiting (acquire_connection).                       *)
GetsThrough == \A r \in Request : At(r, "starts") ~> (At(r, "idle") \/ ~ NobodyGone)

-----------------------------------------------------------------------------
(* What the comments promise and the code does not do. *)

(* "Dequeue when ready (O(1) operation)": the queue has no dead head. *)
TurnsComeRound == (\E r \in Request : At(r, "polls")) => HeadWaits

(* "Reset circuit breaker if needed", says the health check that succeeds:  *)
(* a replica that stays healthy does not stay behind an open breaker.       *)
HealthyIsUsed == \A p \in Replica : (<>[]healthy[p]) => []<>(breaker[p].state # "open")

(* Why it does not: against that comment, and though there is a recovery    *)
(* timeout, no step takes a breaker out of OPEN.  The only way out is       *)
(* through allow_request, which is asked only for what _select_replica      *)
(* returns, and that is never a replica whose breaker is open.              *)
OpenForGood ==
  [][\A p \in Replica : breaker[p].state = "open" => breaker'[p].state = "open"]_vars
=============================================================================
