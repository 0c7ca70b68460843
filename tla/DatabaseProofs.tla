--------------------------- MODULE DatabaseProofs ---------------------------
(***************************************************************************)
(* Proofs about the two pools of the database layer, which share nothing:   *)
(* the circuit breakers and the turns of ReplicaPool, and the holders of    *)
(* DatabasePool, which is an instance here as it is for model checking.     *)
(*                                                                          *)
(* The circuit breakers of ReplicaPool, for every threshold and any numbers *)
(* of replicas and callers.  OpenMeansFailed is not inductive: a breaker    *)
(* that is half open has the failures of an open one.  It is the routing    *)
(* that excludes this, since a breaker leaves OPEN only when asked and only *)
(* breakers that are not open are asked.                                    *)
(***************************************************************************)
EXTENDS Database, SequenceTheorems, FiniteSetTheorems, WellFoundedInduction, TLAPS

Place == Waiting \cup {"idle", "replica", "onReplica", "primary", "onPrimary", "again", "gone"}

BreakerType == [state: {"closed", "open", "half_open"}, failures: 0..FailureThreshold,
                cooled: BOOLEAN, tests: 0..HalfOpenRequests]

(* A breaker that is open exactly with all its failures, and never half open. *)
Sound(b) == /\ b \in BreakerType
            /\ b.state # "half_open"
            /\ (b.state = "open") <=> (b.failures = FailureThreshold)

(* Whoever uses a replica was routed to one. *)
Routed(place, replica) == place \in {"replica", "onReplica"} => replica \in Replica

BreakerInv ==
  /\ pc \in [Request -> Place]
  /\ chosen \in [Request -> Replica \cup {None}]
  /\ breaker \in [Replica -> BreakerType]
  /\ \A p \in Replica : Sound(breaker[p])
  /\ \A r \in Request : Routed(pc[r], chosen[r])

-----------------------------------------------------------------------------
(* on_success keeps a breaker sound (CircuitBreaker.on_success). *)
LEMMA SuccessKeeps ==
  ASSUME NEW b, Sound(b) PROVE Sound(OnSuccess(b))
  BY ConfigAssumption DEF Sound, OnSuccess, BreakerType

(* on_failure opens it with the failure that reaches the threshold           *)
(* (CircuitBreaker.on_failure).                                              *)
LEMMA FailureKeeps ==
  ASSUME NEW b, Sound(b) PROVE Sound(OnFailure(b))
  <1> DEFINE more == IF b.failures < FailureThreshold THEN b.failures + 1 ELSE b.failures
             then == IF Tripped(b) THEN "open" ELSE b.state
  <1>1. b \in BreakerType /\ b.failures \in 0..FailureThreshold /\ b.state \in {"closed", "open"}
    BY DEF Sound, BreakerType
  <1>2. OnFailure(b) = [b EXCEPT !.failures = more, !.cooled = FALSE, !.state = then]
    BY DEF OnFailure
  <1>3. more \in 0..FailureThreshold /\ then \in {"closed", "open"}
    BY <1>1, ConfigAssumption
  <1>4. (then = "open") <=> (more = FailureThreshold)
    BY <1>1, ConfigAssumption DEF Sound, Tripped
  <1> HIDE DEF more, then
  <1>5. [b EXCEPT !.failures = more] \in BreakerType
    BY <1>1, <1>3 DEF BreakerType
  <1>6. [b EXCEPT !.failures = more, !.cooled = FALSE] \in BreakerType
    BY <1>5 DEF BreakerType
  <1>7. OnFailure(b) \in BreakerType
    BY <1>2, <1>3, <1>6 DEF BreakerType
  <1>8. OnFailure(b).failures = more /\ OnFailure(b).state = then
    BY <1>1, <1>2 DEF BreakerType
  <1> QED BY <1>3, <1>4, <1>7, <1>8 DEF Sound

(* A breaker that is asked is closed, and asking leaves it as it is          *)
(* (_select_replica, CircuitBreaker.allow_request).                          *)
LEMMA AskingKeeps ==
  ASSUME BreakerInv, NEW p \in Usable PROVE Allows(breaker[p]) /\ AfterAsking(breaker[p]) = breaker[p]
  BY DEF BreakerInv, Usable, Sound, BreakerType, Allows, AfterAsking

(* Changing one breaker to a sound one keeps all sound. *)
LEMMA OneBreaker ==
  ASSUME BreakerInv, NEW p \in Replica, NEW b, Sound(b),
         breaker' = [breaker EXCEPT ![p] = b]
  PROVE  breaker' \in [Replica -> BreakerType] /\ \A q \in Replica : Sound(breaker'[q])
  BY DEF BreakerInv, Sound

(* Sending one caller elsewhere keeps everybody routed. *)
LEMMA OneCaller ==
  ASSUME BreakerInv, NEW r \in Request, NEW place \in Place, NEW q \in Replica \cup {None},
         Routed(place, q),
         pc' = [pc EXCEPT ![r] = place], chosen' = [chosen EXCEPT ![r] = q]
  PROVE  /\ pc' \in [Request -> Place] /\ chosen' \in [Request -> Replica \cup {None}]
         /\ \A s \in Request : Routed(pc'[s], chosen'[s])
  BY DEF BreakerInv, Routed

-----------------------------------------------------------------------------
(* A new pool is sound (initialize). *)
LEMMA SoundAtFirst == Init => BreakerInv
  <1> SUFFICES ASSUME Init PROVE BreakerInv
    OBVIOUS
  <1>1. pc \in [Request -> Place] /\ chosen \in [Request -> Replica \cup {None}]
    BY DEF Init, Place
  <1>2. ASSUME NEW p \in Replica PROVE breaker[p] \in BreakerType /\ Sound(breaker[p])
    BY ConfigAssumption DEF Init, Sound, BreakerType
  <1>3. breaker \in [Replica -> BreakerType]
    BY <1>2 DEF Init
  <1>4. \A r \in Request : Routed(pc[r], chosen[r])
    BY DEF Init, Routed
  <1> QED BY <1>1, <1>2, <1>3, <1>4 DEF BreakerInv

(* Waiting for one's turn touches no breaker, and being routed only a closed *)
(* one (acquire_connection).                                                 *)
LEMMA WaitingKeeps ==
  ASSUME BreakerInv, NEW r \in Request,
         Starts(r) \/ Arrives(r) \/ SeesItsTurn(r) \/ IsRouted(r) \/ Stops(r)
  PROVE  BreakerInv'
  <1>1. CASE Starts(r) \/ Arrives(r) \/ SeesItsTurn(r) \/ Stops(r)
    <2>1. \E place \in Place : place \notin {"replica", "onReplica"} /\ pc' = [pc EXCEPT ![r] = place]
      BY <1>1 DEF Starts, Arrives, SeesItsTurn, Stops, Goes, Place, Waiting
    <2>2. UNCHANGED <<chosen, breaker>>
      BY <1>1 DEF Starts, Arrives, SeesItsTurn, Stops
    <2> QED BY <2>1, <2>2 DEF BreakerInv, Routed
  <1>2. ASSUME IsRouted(r), Usable = {}, Goes(r, "primary"), UNCHANGED <<chosen, breaker>>
        PROVE  BreakerInv'
    BY <1>2 DEF BreakerInv, Routed, Goes, Place
  <1>3. ASSUME NEW p \in Usable,
               chosen' = [chosen EXCEPT ![r] = p],
               breaker' = [breaker EXCEPT ![p] = AfterAsking(@)],
               Goes(r, IF Allows(breaker[p]) THEN "replica" ELSE "primary")
        PROVE  BreakerInv'
    <2>1. p \in Replica
      BY DEF Usable
    <2>2. Allows(breaker[p]) /\ AfterAsking(breaker[p]) = breaker[p]
      BY AskingKeeps
    <2>3. breaker' = breaker
      BY <1>3, <2>1, <2>2 DEF BreakerInv
    <2>4. pc' = [pc EXCEPT ![r] = "replica"] /\ "replica" \in Place
      BY <1>3, <2>2 DEF Goes, Place
    <2> QED BY <1>3, <2>1, <2>3, <2>4, OneCaller DEF BreakerInv, Routed
  <1>4. CASE IsRouted(r)
    BY <1>2, <1>3, <1>4 DEF IsRouted
  <1> QED BY <1>1, <1>4

(* What happens on a connection reports to the breaker of its replica        *)
(* (acquire_connection, execute_query).                                      *)
LEMMA UsingKeeps ==
  ASSUME BreakerInv, NEW r \in Request,
         \/ ReplicaConnects(r) \/ ReplicaRefuses(r) \/ CallerRaises(r)
         \/ PrimaryConnects(r) \/ Finishes(r)
  PROVE  BreakerInv'
  <1> USE DEF Goes, At
  <1>1. CASE pc[r] \in {"replica", "onReplica"} /\ ~ Finishes(r)
    <2>1. chosen[r] \in Replica
      BY <1>1 DEF BreakerInv, Routed
    <2>2. Sound(OnSuccess(breaker[chosen[r]])) /\ Sound(OnFailure(breaker[chosen[r]]))
      BY <2>1, SuccessKeeps, FailureKeeps DEF BreakerInv
    <2>3. \E b : Sound(b) /\ breaker' = [breaker EXCEPT ![chosen[r]] = b]
      BY <1>1, <2>2 DEF ReplicaConnects, ReplicaRefuses, CallerRaises, PrimaryConnects
    <2>4. breaker' \in [Replica -> BreakerType] /\ \A q \in Replica : Sound(breaker'[q])
      BY <2>1, <2>3, OneBreaker
    <2>5. chosen' = chosen /\ \E place \in Place : pc' = [pc EXCEPT ![r] = place]
      BY <1>1 DEF ReplicaConnects, ReplicaRefuses, CallerRaises, PrimaryConnects, Place
    <2> QED BY <2>1, <2>4, <2>5 DEF BreakerInv, Routed
  <1>2. CASE Finishes(r)
    BY <1>2 DEF Finishes, BreakerInv, Routed, Place
  <1>3. CASE PrimaryConnects(r)
    BY <1>3 DEF PrimaryConnects, BreakerInv, Routed, Place
  <1>4. pc[r] \in {"replica", "onReplica"} \/ PrimaryConnects(r) \/ Finishes(r)
    BY DEF ReplicaConnects, ReplicaRefuses, CallerRaises
  <1> QED BY <1>1, <1>2, <1>3, <1>4

(* The health check reports to one breaker; the clock changes none that is   *)
(* looked at (_health_check_loop).                                           *)
LEMMA ChecksKeep ==
  ASSUME BreakerInv, NEW p \in Replica, Answers(p) \/ FailsCheck(p) \/ Cools(p)
  PROVE  BreakerInv'
  <1>1. CASE Answers(p) \/ FailsCheck(p)
    <2>1. Sound(OnSuccess(breaker[p])) /\ Sound(OnFailure(breaker[p]))
      BY SuccessKeeps, FailureKeeps DEF BreakerInv
    <2>2. \E b : Sound(b) /\ breaker' = [breaker EXCEPT ![p] = b]
      BY <1>1, <2>1 DEF Answers, FailsCheck
    <2>3. breaker' \in [Replica -> BreakerType] /\ \A q \in Replica : Sound(breaker'[q])
      BY <2>2, OneBreaker
    <2> QED BY <1>1, <2>3 DEF BreakerInv, Answers, FailsCheck
  <1>2. CASE Cools(p)
    <2> DEFINE b == [breaker[p] EXCEPT !.cooled = TRUE]
    <2>1. breaker[p] \in BreakerType /\ Sound(breaker[p])
      BY DEF BreakerInv
    <2>2. b \in BreakerType
      BY <2>1 DEF BreakerType
    <2>3. b.state = breaker[p].state /\ b.failures = breaker[p].failures
      BY <2>1 DEF BreakerType
    <2>4. Sound(b)
      BY <2>1, <2>2, <2>3 DEF Sound
    <2>5. breaker' = [breaker EXCEPT ![p] = b]
      BY <1>2 DEF Cools
    <2>6. breaker' \in [Replica -> BreakerType] /\ \A q \in Replica : Sound(breaker'[q])
      BY <2>4, <2>5, OneBreaker
    <2> QED BY <1>2, <2>6 DEF BreakerInv, Cools
  <1> QED BY <1>1, <1>2

-----------------------------------------------------------------------------
(* The inductive invariant: every breaker is closed or open, and open        *)
(* exactly with all its failures, whatever callers, health checks and the    *)
(* clock do (CircuitBreaker, _select_replica).                               *)
THEOREM BreakersSound == Spec => []BreakerInv
  <1>1. BreakerInv /\ [Next]_vars => BreakerInv'
    <2> SUFFICES ASSUME BreakerInv, [Next]_vars PROVE BreakerInv'
      OBVIOUS
    <2>1. ASSUME NEW r \in Request, Starts(r) \/ Serves(r) \/ Stops(r) PROVE BreakerInv'
      BY <2>1, WaitingKeeps, UsingKeeps DEF Serves
    <2>2. ASSUME NEW p \in Replica, Answers(p) \/ FailsCheck(p) \/ Cools(p) PROVE BreakerInv'
      BY <2>2, ChecksKeep
    <2>3. CASE UNCHANGED vars
      BY <2>3 DEF vars, BreakerInv, Routed
    <2> QED BY <2>1, <2>2, <2>3 DEF Next
  <1> QED BY <1>1, SoundAtFirst, PTL DEF Spec

(* A breaker is open exactly from the FailureThreshold-th failure in a row   *)
(* on (CircuitBreaker.on_failure).                                           *)
THEOREM OpenCounts == Spec => []OpenMeansFailed
  <1>1. BreakerInv => OpenMeansFailed
    BY DEF BreakerInv, OpenMeansFailed, Sound
  <1> QED BY <1>1, BreakersSound, PTL

(* Why HealthyIsUsed is refuted: an open breaker stays open, whatever the    *)
(* health check, the clock or a caller does (CircuitBreaker.on_success,      *)
(* _select_replica).                                                         *)
THEOREM OpenStaysOpen == Spec => OpenForGood
  <1> DEFINE StaysOpen == \A p \in Replica : breaker[p].state = "open" => breaker'[p].state = "open"
  <1>1. BreakerInv /\ [Next]_vars => StaysOpen
    <2> SUFFICES ASSUME BreakerInv, [Next]_vars, NEW p \in Replica, breaker[p].state = "open"
                 PROVE  breaker'[p].state = "open"
      OBVIOUS
    <2>1. breaker \in [Replica -> BreakerType]
      BY DEF BreakerInv
    <2>2. OnSuccess(breaker[p]) = breaker[p] /\ OnFailure(breaker[p]).state = "open"
      BY <2>1 DEF OnSuccess, OnFailure, BreakerType
    <2>3. ASSUME NEW q \in Replica,
                 breaker' \in {[breaker EXCEPT ![q] = OnSuccess(@)], [breaker EXCEPT ![q] = OnFailure(@)],
                               [breaker EXCEPT ![q].cooled = TRUE]}
          PROVE  breaker'[p].state = "open"
      BY <2>1, <2>2, <2>3 DEF BreakerType
    <2>4. ASSUME NEW r \in Request, Starts(r) \/ Serves(r) \/ Stops(r) PROVE breaker'[p].state = "open"
      <3>1. CASE \/ Starts(r) \/ Arrives(r) \/ SeesItsTurn(r) \/ Stops(r)
                 \/ PrimaryConnects(r) \/ Finishes(r)
        BY <3>1 DEF Starts, Arrives, SeesItsTurn, Stops, PrimaryConnects, Finishes
      <3>2. CASE IsRouted(r)
        BY <2>1, <3>2 DEF IsRouted, Usable
      <3>3. CASE ReplicaConnects(r) \/ ReplicaRefuses(r) \/ CallerRaises(r)
        <4>1. chosen[r] \in Replica
          BY <3>3 DEF BreakerInv, Routed, ReplicaConnects, ReplicaRefuses, CallerRaises, At
        <4> QED BY <2>3, <3>3, <4>1 DEF ReplicaConnects, ReplicaRefuses, CallerRaises
      <3> QED BY <2>4, <3>1, <3>2, <3>3 DEF Serves
    <2>5. ASSUME NEW q \in Replica, Answers(q) \/ FailsCheck(q) \/ Cools(q) PROVE breaker'[p].state = "open"
      BY <2>3, <2>5 DEF Answers, FailsCheck, Cools
    <2>6. CASE UNCHANGED vars
      BY <2>6 DEF vars
    <2> QED BY <2>4, <2>5, <2>6 DEF Next
  <1>2. BreakerInv /\ [Next]_vars => [StaysOpen]_vars
    BY <1>1
  <1> QED BY <1>2, BreakersSound, PTL DEF Spec, OpenForGood

-----------------------------------------------------------------------------
(* The turns.  Nobody is in the queue twice, and unless callers give up the *)
(* queue has exactly the callers that wait.                                 *)

InQueue(r) == \E i \in DOMAIN queue : queue[i] = r

QueueInv ==
  /\ queue \in Seq(Request) /\ pc \in [Request -> Place]
  /\ \A i, j \in DOMAIN queue : queue[i] = queue[j] => i = j
  /\ \A r \in Request : /\ pc[r] \in Waiting => InQueue(r)
                        /\ InQueue(r) => pc[r] \in Waiting \cup {"gone"}

LEMMA LeastIndex ==
  ASSUME NEW T, T \subseteq Nat, T # {} PROVE \E n \in T : \A i \in T : n <= i
  <1>1. PICK n \in T : \A i \in T : ~(<<i, n>> \in OpToRel(<, Nat))
    BY NatLessThanWellFounded, WFMin, Zenon
  <1>2. \A i \in T : ~(i < n)
    BY <1>1 DEF OpToRel
  <1> QED BY <1>2

(* A sequence without its k-th element. *)
LEMMA CutOut ==
  ASSUME NEW S, NEW s \in Seq(S), NEW k \in 1..Len(s)
  PROVE  LET t == SubSeq(s, 1, k - 1) \o SubSeq(s, k + 1, Len(s))
         IN  /\ t \in Seq(S) /\ Len(t) = Len(s) - 1
             /\ \A i \in 1..Len(t) : t[i] = IF i < k THEN s[i] ELSE s[i + 1]
  <1> DEFINE l == SubSeq(s, 1, k - 1)
             r == SubSeq(s, k + 1, Len(s))
  <1>1. l \in Seq(S) /\ Len(l) = k - 1 /\ \A i \in 1..(k - 1) : l[i] = s[i]
    OBVIOUS
  <1>2. r \in Seq(S) /\ Len(r) = Len(s) - k /\ \A i \in 1..(Len(s) - k) : r[i] = s[k + i]
    OBVIOUS
  <1> HIDE DEF l, r
  <1>3. /\ l \o r \in Seq(S) /\ Len(l \o r) = Len(l) + Len(r)
        /\ \A i \in 1..(Len(l) + Len(r)) :
              (l \o r)[i] = IF i <= Len(l) THEN l[i] ELSE r[i - Len(l)]
    BY <1>1, <1>2, ConcatProperties
  <1>4. Len(l \o r) = Len(s) - 1
    BY <1>1, <1>2, <1>3
  <1>5. ASSUME NEW i \in 1..(Len(s) - 1)
        PROVE  (l \o r)[i] = IF i < k THEN s[i] ELSE s[i + 1]
    <2>1. (l \o r)[i] = IF i <= k - 1 THEN l[i] ELSE r[i - (k - 1)]
      BY <1>1, <1>2, <1>3
    <2>2. CASE i < k
      BY <2>1, <2>2, <1>1
    <2>3. CASE ~(i < k)
      <3>1. i - (k - 1) \in 1..(Len(s) - k)
        BY <2>3
      <3>2. r[i - (k - 1)] = s[k + (i - (k - 1))]
        BY <3>1, <1>2
      <3>3. k + (i - (k - 1)) = i + 1
        OBVIOUS
      <3> QED BY <2>1, <2>3, <3>2, <3>3
    <2> QED BY <2>2, <2>3
  <1> QED BY <1>3, <1>4, <1>5 DEF l, r

(* The queue after ZREM: the caller is gone, the others stay, nobody twice. *)
LEMMA QueueWithout ==
  ASSUME QueueInv, NEW r, queue' = Without(r)
  PROVE  /\ queue' \in Seq(Request)
         /\ \A i, j \in DOMAIN queue' : queue'[i] = queue'[j] => i = j
         /\ \A s : InQueue(s)' <=> (InQueue(s) /\ s # r)
  <1>0. queue \in Seq(Request) /\ \A i, j \in DOMAIN queue : queue[i] = queue[j] => i = j
    BY DEF QueueInv
  <1>1. CASE ~ InQueue(r)
    BY <1>0, <1>1 DEF Without, InQueue
  <1>2. CASE InQueue(r)
    <2> DEFINE k == CHOOSE i \in DOMAIN queue : queue[i] = r
    <2>1. k \in DOMAIN queue /\ queue[k] = r
      BY <1>2 DEF InQueue
    <2>2. queue' = SubSeq(queue, 1, k - 1) \o SubSeq(queue, k + 1, Len(queue))
      BY <1>2 DEF Without, InQueue
    <2> HIDE DEF k
    <2>3. k \in 1..Len(queue)
      BY <1>0, <2>1
    <2>4. /\ queue' \in Seq(Request) /\ Len(queue') = Len(queue) - 1
          /\ \A i \in 1..Len(queue') : queue'[i] = IF i < k THEN queue[i] ELSE queue[i + 1]
      <3> DEFINE t == SubSeq(queue, 1, k - 1) \o SubSeq(queue, k + 1, Len(queue))
      <3>1. /\ t \in Seq(Request) /\ Len(t) = Len(queue) - 1
            /\ \A i \in 1..Len(t) : t[i] = IF i < k THEN queue[i] ELSE queue[i + 1]
        BY <1>0, <2>3, CutOut
      <3> HIDE DEF t
      <3>2. queue' = t
        BY <2>2 DEF t
      <3> QED BY <3>1, <3>2
    <2>5. ASSUME NEW i \in DOMAIN queue', NEW j \in DOMAIN queue', queue'[i] = queue'[j]
          PROVE  i = j
      <3> DEFINE was(n) == IF n < k THEN n ELSE n + 1
      <3>0. i \in 1..Len(queue') /\ j \in 1..Len(queue')
        BY <2>4
      <3>1. ASSUME NEW n \in 1..Len(queue')
            PROVE  was(n) \in DOMAIN queue /\ queue'[n] = queue[was(n)]
        <4>1. CASE n < k
          BY <1>0, <2>3, <2>4, <4>1
        <4>2. CASE ~(n < k)
          BY <1>0, <2>3, <2>4, <4>2
        <4> QED BY <4>1, <4>2
      <3>2. was(i) = was(j)
        BY <1>0, <2>5, <3>0, <3>1
      <3> QED BY <2>3, <2>4, <3>0, <3>2
    <2>6. ASSUME NEW s, InQueue(s)' PROVE InQueue(s) /\ s # r
      <3>1. PICK i \in 1..Len(queue') : queue'[i] = s
        BY <2>4, <2>6 DEF InQueue
      <3> DEFINE j == IF i < k THEN i ELSE i + 1
      <3>2. j \in DOMAIN queue /\ queue[j] = s /\ j # k
        BY <1>0, <2>3, <2>4, <3>1
      <3> QED BY <1>0, <2>1, <3>2 DEF InQueue
    <2>7. ASSUME NEW s, InQueue(s), s # r PROVE InQueue(s)'
      <3>1. PICK j \in 1..Len(queue) : queue[j] = s
        BY <1>0, <2>7 DEF InQueue
      <3> DEFINE i == IF j < k THEN j ELSE j - 1
      <3>2. j # k
        BY <2>1, <2>7, <3>1
      <3>3. i \in 1..Len(queue') /\ queue'[i] = s
        BY <1>0, <2>3, <2>4, <3>1, <3>2
      <3> QED BY <2>4, <3>3 DEF InQueue
    <2> QED BY <2>4, <2>5, <2>6, <2>7
  <1> QED BY <1>1, <1>2

LEMMA TurnsKeep ==
  ASSUME QueueInv, [Next]_vars PROVE QueueInv'
  <1>0. /\ queue \in Seq(Request) /\ pc \in [Request -> Place]
        /\ \A i, j \in DOMAIN queue : queue[i] = queue[j] => i = j
        /\ \A s \in Request : /\ pc[s] \in Waiting => InQueue(s)
                              /\ InQueue(s) => pc[s] \in Waiting \cup {"gone"}
    BY DEF QueueInv
  <1>1. ASSUME NEW r \in Request, Starts(r) PROVE QueueInv'
    <2>1. queue' = Append(queue, r) /\ pc' = [pc EXCEPT ![r] = "starts"] /\ pc[r] = "idle"
      BY <1>1 DEF Starts, At, Goes
    <2>2. ~ InQueue(r)
      BY <1>0, <2>1 DEF Waiting
    <2>3. /\ queue' \in Seq(Request) /\ DOMAIN queue' = DOMAIN queue \cup {Len(queue) + 1}
          /\ Len(queue) + 1 \notin DOMAIN queue
          /\ \A i \in DOMAIN queue : queue'[i] = queue[i]
          /\ queue'[Len(queue) + 1] = r
      BY <1>0, <2>1
    <2>4. \A i, j \in DOMAIN queue' : queue'[i] = queue'[j] => i = j
      BY <1>0, <2>2, <2>3 DEF InQueue
    <2>5. \A s : InQueue(s)' <=> (InQueue(s) \/ s = r)
      BY <2>3 DEF InQueue
    <2>6. pc' \in [Request -> Place] /\ pc'[r] = "starts" /\ \A s \in Request : s # r => pc'[s] = pc[s]
      BY <1>0, <2>1 DEF Place, Waiting
    <2>7. \A s \in Request : /\ pc'[s] \in Waiting => InQueue(s)'
                             /\ InQueue(s)' => pc'[s] \in Waiting \cup {"gone"}
      BY <1>0, <2>5, <2>6 DEF Waiting
    <2> QED BY <2>3, <2>4, <2>6, <2>7 DEF QueueInv
  <1>2. ASSUME NEW r \in Request, NEW place \in Place, pc' = [pc EXCEPT ![r] = place],
               queue' = queue,
               place \in Waiting \cup {"gone"} <=> pc[r] \in Waiting \cup {"gone"},
               place \in Waiting => pc[r] \in Waiting
        PROVE  QueueInv'
    <2>1. pc' \in [Request -> Place] /\ pc'[r] = place /\ \A s \in Request : s # r => pc'[s] = pc[s]
      BY <1>0, <1>2
    <2>2. \A s : InQueue(s)' <=> InQueue(s)
      BY <1>2 DEF InQueue
    <2> QED BY <1>0, <1>2, <2>1, <2>2 DEF QueueInv
  <1>3. ASSUME NEW r \in Request, NEW place \in Place, pc' = [pc EXCEPT ![r] = place],
               queue' = Without(r), place \notin Waiting
        PROVE  QueueInv'
    <2>1. pc' \in [Request -> Place] /\ pc'[r] = place /\ \A s \in Request : s # r => pc'[s] = pc[s]
      BY <1>0, <1>3
    <2>2. /\ queue' \in Seq(Request)
          /\ \A i, j \in DOMAIN queue' : queue'[i] = queue'[j] => i = j
          /\ \A s : InQueue(s)' <=> (InQueue(s) /\ s # r)
      BY <1>3, QueueWithout
    <2>3. \A s \in Request : /\ pc'[s] \in Waiting => InQueue(s)'
                             /\ InQueue(s)' => pc'[s] \in Waiting \cup {"gone"}
      BY <1>0, <1>3, <2>1, <2>2
    <2> QED BY <2>1, <2>2, <2>3 DEF QueueInv
  <1> USE DEF Waiting, Place, At, Goes
  <1>4. ASSUME NEW r \in Request, Arrives(r) \/ SeesItsTurn(r) \/ ReplicaConnects(r)
               \/ ReplicaRefuses(r) \/ CallerRaises(r) \/ PrimaryConnects(r) \/ Finishes(r)
        PROVE  QueueInv'
    <2>1. queue' = queue
      BY <1>4 DEF Arrives, SeesItsTurn, ReplicaConnects, ReplicaRefuses, CallerRaises,
                  PrimaryConnects, Finishes
    <2>2. \E place \in Place : /\ pc' = [pc EXCEPT ![r] = place]
                               /\ place \in Waiting \cup {"gone"} <=> pc[r] \in Waiting \cup {"gone"}
                               /\ place \in Waiting => pc[r] \in Waiting
      BY <1>4 DEF Arrives, SeesItsTurn, ReplicaConnects, ReplicaRefuses, CallerRaises,
                  PrimaryConnects, Finishes
    <2> QED BY <1>2, <2>1, <2>2
  <1>5. ASSUME NEW r \in Request, IsRouted(r) PROVE QueueInv'
    <2>1. queue' = Without(r) /\ \E place \in {"replica", "primary"} : pc' = [pc EXCEPT ![r] = place]
      BY <1>5 DEF IsRouted
    <2> QED BY <1>3, <2>1
  <1>6. ASSUME NEW r \in Request, Stops(r) PROVE QueueInv'
    <2>1. /\ pc' = [pc EXCEPT ![r] = "gone"] /\ pc[r] \in Waiting
          /\ queue' = queue \/ queue' = Without(r)
      BY <1>6 DEF Stops
    <2> QED BY <1>2, <1>3, <2>1
  <1>7. CASE UNCHANGED <<queue, pc>>
    BY <1>7 DEF QueueInv, InQueue
  <1>8. ASSUME NEW p \in Replica, Answers(p) \/ FailsCheck(p) \/ Cools(p) PROVE UNCHANGED <<queue, pc>>
    BY <1>8 DEF Answers, FailsCheck, Cools
  <1> QED BY <1>1, <1>4, <1>5, <1>6, <1>7, <1>8 DEF Next, Serves, vars

(* Nobody waits in the queue twice, and whoever waits is in it, although the *)
(* entry, the poll and the removal are commands of their own                 *)
(* (acquire_connection).                                                     *)
THEOREM TurnsSound == Spec => []QueueInv
  <1>1. Init => QueueInv
    BY DEF Init, QueueInv, InQueue, Place, Waiting
  <1>2. QueueInv /\ [Next]_vars => QueueInv'
    BY TurnsKeep
  <1> QED BY <1>1, <1>2, PTL DEF Spec

(* Type correctness, the breakers' counters within their bounds included.    *)
THEOREM TypesSound == Spec => []TypeOK
  <1> DEFINE HealthOK == healthy \in [Replica -> BOOLEAN]
  <1>1. Init => HealthOK
    BY DEF Init
  <1>2. HealthOK /\ [Next]_vars => HealthOK'
    BY DEF Next, vars, Starts, Serves, Stops, Arrives, SeesItsTurn, IsRouted, ReplicaConnects,
           ReplicaRefuses, CallerRaises, PrimaryConnects, Finishes, Answers, FailsCheck, Cools
  <1>3. HealthOK /\ BreakerInv /\ QueueInv => TypeOK
    BY DEF BreakerInv, QueueInv, TypeOK, Place, BreakerType
  <1> HIDE DEF HealthOK
  <1> QED BY <1>1, <1>2, <1>3, BreakersSound, TurnsSound, PTL DEF Spec

(* While no caller gives up, the head of the queue belongs to a caller that  *)
(* still waits (acquire_connection).                                         *)
THEOREM HeadAlive == Spec => []HeadIsAlive
  <1>1. QueueInv => HeadIsAlive
    <2> SUFFICES ASSUME QueueInv, NobodyGone, NEW r \in Request, At(r, "polls") PROVE HeadWaits
      BY DEF HeadIsAlive
    <2>1. queue \in Seq(Request) /\ InQueue(r)
      BY DEF QueueInv, At, Waiting
    <2>2. Arrived \subseteq Nat /\ Arrived # {}
      BY <2>1 DEF Arrived, InQueue, At
    <2>3. PICK i \in Arrived : \A k \in Arrived : i <= k
      BY <2>2, LeastIndex
    <2>4. queue[i] \in First /\ queue[i] \in Request /\ InQueue(queue[i])
      BY <2>1, <2>3 DEF First, Arrived, InQueue
    <2>5. pc[queue[i]] \in Waiting
      BY <2>4 DEF QueueInv, NobodyGone, At
    <2> QED BY <2>4, <2>5 DEF HeadWaits
  <1> QED BY <1>1, TurnsSound, PTL

-----------------------------------------------------------------------------
(***************************************************************************)
(* The main pool of connections (DatabasePool), for any numbers of tasks,   *)
(* holders and attempts, however much the warm-up keeps.                    *)
(***************************************************************************)
Held(t) == conn[t] \cup tx[t]
InTx    == {t \in Task : tx[t] # {}}

(* Every holder is in one place: free, kept by the warm-up, or with one task *)
(* for one purpose.                                                          *)
HoldersInv ==
  /\ free \in Seq(Pool!Holder) /\ \A i, j \in DOMAIN free : free[i] = free[j] => i = j
  /\ warmed \subseteq Pool!Holder
  /\ conn \in [Task -> SUBSET Pool!Holder] /\ tx \in [Task -> SUBSET Pool!Holder]
  /\ Pool!Range(free) \cap warmed = {}
  /\ Pool!Range(free) \cup warmed \cup Pool!InHands = Pool!Holder
  /\ \A t \in Task : /\ \A g, h \in conn[t] : g = h
                     /\ \A g, h \in tx[t] : g = h
                     /\ conn[t] \cap tx[t] = {}
                     /\ Held(t) \cap (Pool!Range(free) \cup warmed) = {}
  /\ \A s, t \in Task : s # t => Held(s) \cap Held(t) = {}

(* A task has a holder exactly while it connects or runs, and begins a       *)
(* transaction only outside of one.                                          *)
CallsInv ==
  /\ open \subseteq Pool!Holder
  /\ at \in [Task -> {"idle", "waits", "connects", "runs", "sleeps"}]
  /\ op \in [Task -> {"execute", "fetch", "transaction"}]
  /\ tries \in [Task -> 0..(Attempts - 1)]
  /\ \A t \in Task :
       /\ (conn[t] # {}) <=> (at[t] \in {"connects", "runs"})
       /\ op[t] = "transaction" /\ at[t] \in {"waits", "connects"} => tx[t] = {}
       /\ at[t] = "sleeps" => op[t] = "execute"
       /\ tx[t] \cup (IF at[t] = "runs" THEN conn[t] ELSE {}) \subseteq open

CountInv ==
  /\ active \in Nat
  /\ active <= Cardinality(Pool!Counted) + Cardinality(InTx)

PoolInv == HoldersInv /\ CallsInv /\ CountInv

-----------------------------------------------------------------------------
(* The instance has operators of its own for what the library's facts are    *)
(* about; they are the same.                                                 *)
LEMMA SameCardinality == ASSUME NEW S PROVE Pool!Cardinality(S) = Cardinality(S)
  BY DEF Pool!Cardinality, Cardinality

(* The holders of a set of at most one, as a sequence. *)
LEMMA OneToSeq ==
  ASSUME NEW S, NEW A \in SUBSET S, \A g, h \in A : g = h
  PROVE  /\ Pool!SetToSeq(A) \in Seq(S) /\ Pool!Range(Pool!SetToSeq(A)) = A
         /\ \A i, j \in DOMAIN Pool!SetToSeq(A) : i = j
  <1> DEFINE f == Pool!SetToSeq(A)
  <1>1. CASE A = {}
    <2>1. Pool!Cardinality(A) = 0
      BY <1>1, FS_EmptySet, SameCardinality
    <2>2. <<>> \in [1..0 -> A] /\ \A g \in [1..0 -> A] : g = <<>>
      OBVIOUS
    <2>3. Pool!IsInjective(<<>>)
      BY DEF Pool!IsInjective
    <2>4. f = <<>>
      BY <2>1, <2>2, <2>3 DEF Pool!SetToSeq
    <2> HIDE DEF f
    <2>5. f \in Seq(S) /\ Pool!Range(f) = A /\ \A i, j \in DOMAIN f : i = j
      BY <1>1, <2>4 DEF Pool!Range
    <2> QED BY <2>5 DEF f
  <1>2. ASSUME NEW x \in A, A = {x}
        PROVE  f \in Seq(S) /\ Pool!Range(f) = A /\ \A i, j \in DOMAIN f : i = j
    <2>1. Pool!Cardinality({x}) = 1
      BY FS_Singleton, SameCardinality
    <2>2. <<x>> \in [1..1 -> {x}] /\ \A g \in [1..1 -> {x}] : g = <<x>>
      OBVIOUS
    <2>3. Pool!IsInjective(<<x>>)
      BY DEF Pool!IsInjective
    <2>4. f = <<x>>
      BY <1>2, <2>1, <2>2, <2>3 DEF Pool!SetToSeq
    <2> HIDE DEF f
    <2> QED BY <1>2, <2>4 DEF Pool!Range
  <1>3. CASE A # {}
    <2>1. PICK x \in A : TRUE
      BY <1>3
    <2>2. A = {x}
      BY <2>1
    <2> QED BY <1>2, <2>2
  <1> QED BY <1>1, <1>3

(* Two sequences without repetitions and without anything in common. *)
LEMMA Joined ==
  ASSUME NEW S, NEW s \in Seq(S), NEW u \in Seq(S),
         \A i, j \in DOMAIN s : s[i] = s[j] => i = j,
         \A i, j \in DOMAIN u : u[i] = u[j] => i = j,
         Pool!Range(s) \cap Pool!Range(u) = {}
  PROVE  /\ s \o u \in Seq(S) /\ Pool!Range(s \o u) = Pool!Range(s) \cup Pool!Range(u)
         /\ \A i, j \in DOMAIN (s \o u) : (s \o u)[i] = (s \o u)[j] => i = j
  <1> DEFINE w == s \o u
  <1>1. /\ w \in Seq(S) /\ Len(w) = Len(s) + Len(u) /\ Len(s) \in Nat /\ Len(u) \in Nat
        /\ \A i \in 1..(Len(s) + Len(u)) : w[i] = IF i <= Len(s) THEN s[i] ELSE u[i - Len(s)]
    BY ConcatProperties
  <1>2. DOMAIN w = 1..(Len(s) + Len(u)) /\ DOMAIN s = 1..Len(s) /\ DOMAIN u = 1..Len(u)
    BY <1>1
  <1> HIDE DEF w
  <1>3. \A i \in 1..Len(s) : i \in DOMAIN w /\ w[i] = s[i]
    BY <1>1, <1>2
  <1>4. ASSUME NEW i \in DOMAIN w, ~ (i <= Len(s))
        PROVE  i - Len(s) \in DOMAIN u /\ w[i] = u[i - Len(s)]
    BY <1>1, <1>2, <1>4
  <1>5. \A i \in 1..Len(u) : i + Len(s) \in DOMAIN w /\ w[i + Len(s)] = u[i]
    <2> SUFFICES ASSUME NEW i \in 1..Len(u) PROVE i + Len(s) \in DOMAIN w /\ w[i + Len(s)] = u[i]
      OBVIOUS
    <2>1. i + Len(s) \in 1..(Len(s) + Len(u)) /\ ~ (i + Len(s) <= Len(s)) /\ (i + Len(s)) - Len(s) = i
      BY <1>1
    <2> QED BY <1>1, <1>2, <2>1
  <1>6. Pool!Range(w) = Pool!Range(s) \cup Pool!Range(u)
    <2>1. \A x \in Pool!Range(w) : x \in Pool!Range(s) \cup Pool!Range(u)
      <3> SUFFICES ASSUME NEW i \in DOMAIN w PROVE w[i] \in Pool!Range(s) \cup Pool!Range(u)
        BY DEF Pool!Range
      <3>1. CASE i <= Len(s)
        BY <1>1, <1>2, <3>1 DEF Pool!Range
      <3>2. CASE ~ (i <= Len(s))
        BY <1>4, <3>2 DEF Pool!Range
      <3> QED BY <3>1, <3>2
    <2>2. \A x \in Pool!Range(s) : x \in Pool!Range(w)
      BY <1>2, <1>3 DEF Pool!Range
    <2>3. \A x \in Pool!Range(u) : x \in Pool!Range(w)
      BY <1>2, <1>5 DEF Pool!Range
    <2> QED BY <2>1, <2>2, <2>3
  <1>7. ASSUME NEW i \in DOMAIN w, NEW j \in DOMAIN w, w[i] = w[j] PROVE i = j
    <2>1. CASE i <= Len(s) /\ j <= Len(s)
      <3>1. i \in DOMAIN s /\ j \in DOMAIN s /\ w[i] = s[i] /\ w[j] = s[j]
        BY <1>1, <1>2, <2>1
      <3> QED BY <1>7, <3>1
    <2>2. CASE ~ (i <= Len(s)) /\ ~ (j <= Len(s))
      <3>1. i - Len(s) = j - Len(s)
        BY <1>4, <1>7, <2>2
      <3> QED BY <1>1, <1>2, <3>1
    <2>3. ASSUME NEW a \in DOMAIN w, NEW b \in DOMAIN w, a <= Len(s), ~ (b <= Len(s))
          PROVE  w[a] # w[b]
      <3>1. a \in DOMAIN s /\ w[a] = s[a]
        BY <1>1, <1>2, <2>3
      <3>2. b - Len(s) \in DOMAIN u /\ w[b] = u[b - Len(s)]
        BY <1>4, <2>3
      <3>3. w[a] \in Pool!Range(s) /\ w[b] \in Pool!Range(u)
        BY <3>1, <3>2 DEF Pool!Range
      <3> QED BY <3>3
    <2> QED BY <1>7, <2>1, <2>2, <2>3
  <1> QED BY <1>1, <1>6, <1>7 DEF w

-----------------------------------------------------------------------------
(* A step that moves holders between the free ones and one task. *)
LEMMA OneTaskMoves ==
  ASSUME HoldersInv, NEW t \in Task, warmed' = warmed,
         free' \in Seq(Pool!Holder), \A i, j \in DOMAIN free' : free'[i] = free'[j] => i = j,
         NEW c \in SUBSET Pool!Holder, NEW x \in SUBSET Pool!Holder,
         conn' = [conn EXCEPT ![t] = c], tx' = [tx EXCEPT ![t] = x],
         \A g, h \in c : g = h, \A g, h \in x : g = h, c \cap x = {},
         Pool!Range(free') \cap (c \cup x) = {},
         Pool!Range(free') \cup c \cup x = Pool!Range(free) \cup Held(t)
  PROVE  HoldersInv'
  <1>1. /\ conn' \in [Task -> SUBSET Pool!Holder] /\ tx' \in [Task -> SUBSET Pool!Holder]
        /\ conn'[t] = c /\ tx'[t] = x
        /\ \A s \in Task : s # t => conn'[s] = conn[s] /\ tx'[s] = tx[s]
    BY DEF HoldersInv
  <1>2. \A s \in Task : Held(s)' = IF s = t THEN c \cup x ELSE Held(s)
    BY <1>1 DEF Held
  <1>3. \A h : h \in Pool!InHands <=> \E s \in Task : h \in Held(s)
    BY DEF Pool!InHands, Held
  <1>4. \A h : h \in Pool!InHands' <=> \E s \in Task : h \in Held(s)'
    BY DEF Pool!InHands, Held
  <1>5. Pool!Range(free') \cap warmed' = {}
    BY DEF HoldersInv, Held
  <1>6. Pool!Range(free') \cup warmed' \cup Pool!InHands' = Pool!Holder
    <2>1. \A h : h \in Pool!Range(free') \cup Pool!InHands'
                   <=> h \in Pool!Range(free) \cup Pool!InHands
      BY <1>2, <1>3, <1>4
    <2> QED BY <2>1 DEF HoldersInv
  <1>7. ASSUME NEW s \in Task
        PROVE  /\ \A g, h \in conn'[s] : g = h
               /\ \A g, h \in tx'[s] : g = h
               /\ conn'[s] \cap tx'[s] = {}
    BY <1>1 DEF HoldersInv
  <1>8. ASSUME NEW s \in Task PROVE Held(s)' \cap (Pool!Range(free') \cup warmed') = {}
    <2>1. CASE s = t
      <3>1. (c \cup x) \cap warmed = {}
        BY DEF HoldersInv
      <3> QED BY <1>2, <2>1, <3>1
    <2>2. CASE s # t
      <3>1. Held(s)' = Held(s) /\ Held(s) \cap Held(t) = {}
        BY <1>2, <2>2 DEF HoldersInv
      <3>2. Held(s) \cap (Pool!Range(free) \cup warmed) = {}
        BY DEF HoldersInv
      <3> QED BY <3>1, <3>2
    <2> QED BY <2>1, <2>2
  <1>9. ASSUME NEW s \in Task, s # t PROVE Held(s) \cap (c \cup x) = {}
    <2>1. Held(s) \cap Held(t) = {} /\ Held(s) \cap Pool!Range(free) = {}
      BY <1>9 DEF HoldersInv
    <2> QED BY <2>1
  <1>10. ASSUME NEW s \in Task, NEW u \in Task, s # u PROVE Held(s)' \cap Held(u)' = {}
    <2>1. CASE s # t /\ u # t
      BY <1>2, <1>10, <2>1 DEF HoldersInv
    <2>2. CASE s = t \/ u = t
      BY <1>2, <1>9, <1>10, <2>2
    <2> QED BY <2>1, <2>2
  <1> QED BY <1>1, <1>5, <1>6, <1>7, <1>8, <1>10 DEF HoldersInv

(* A release appends what it is given to the free holders. *)
LEMMA ReturnsAppends ==
  ASSUME HoldersInv, NEW t \in Task, NEW x \in {{}, tx[t]}, Pool!Returns(conn[t], x)
  PROVE  /\ free' \in Seq(Pool!Holder) /\ \A i, j \in DOMAIN free' : free'[i] = free'[j] => i = j
         /\ Pool!Range(free') = Pool!Range(free) \cup conn[t] \cup x
         /\ warmed' = warmed /\ open' \subseteq open /\ open \ (conn[t] \cup x) \subseteq open'
  <1> DEFINE c == Pool!SetToSeq(conn[t])
             d == Pool!SetToSeq(x)
  <1>1. /\ conn[t] \in SUBSET Pool!Holder /\ x \in SUBSET Pool!Holder
        /\ \A g, h \in conn[t] : g = h
        /\ \A g, h \in x : g = h
        /\ conn[t] \cap x = {}
        /\ (conn[t] \cup x) \cap Pool!Range(free) = {}
    BY DEF HoldersInv, Held
  <1>2. c \in Seq(Pool!Holder) /\ Pool!Range(c) = conn[t] /\ \A i, j \in DOMAIN c : i = j
    BY <1>1, OneToSeq
  <1>3. d \in Seq(Pool!Holder) /\ Pool!Range(d) = x /\ \A i, j \in DOMAIN d : i = j
    BY <1>1, OneToSeq
  <1>4. /\ free' = free \o c \o d /\ warmed' = warmed
        /\ open' \subseteq open /\ open \ (conn[t] \cup x) \subseteq open'
    BY DEF Pool!Returns
  <1> HIDE DEF c, d
  <1>5. /\ free \o c \in Seq(Pool!Holder) /\ Pool!Range(free \o c) = Pool!Range(free) \cup conn[t]
        /\ \A i, j \in DOMAIN (free \o c) : (free \o c)[i] = (free \o c)[j] => i = j
    <2>1. /\ free \in Seq(Pool!Holder)
          /\ \A i, j \in DOMAIN free : free[i] = free[j] => i = j
          /\ Pool!Range(free) \cap Pool!Range(c) = {}
      BY <1>1, <1>2 DEF HoldersInv
    <2> QED BY <1>2, <2>1, Joined
  <1> DEFINE fc == free \o c
  <1> HIDE DEF fc
  <1>6. /\ fc \o d \in Seq(Pool!Holder) /\ Pool!Range(fc \o d) = Pool!Range(fc) \cup x
        /\ \A i, j \in DOMAIN (fc \o d) : (fc \o d)[i] = (fc \o d)[j] => i = j
    <2>1. /\ fc \in Seq(Pool!Holder)
          /\ \A i, j \in DOMAIN fc : fc[i] = fc[j] => i = j
          /\ Pool!Range(fc) \cap Pool!Range(d) = {}
      BY <1>1, <1>3, <1>5 DEF fc
    <2> QED BY <1>3, <2>1, Joined
  <1> QED BY <1>4, <1>5, <1>6 DEF fc

LEMMA HoldersKept ==
  ASSUME PoolInv, NEW t \in Task, Pool!Steps(t)
  PROVE  HoldersInv'
  <1>0. HoldersInv /\ CallsInv /\ conn[t] \in SUBSET Pool!Holder /\ tx[t] \in SUBSET Pool!Holder
    BY DEF PoolInv, HoldersInv
  <1>1. CASE UNCHANGED <<free, warmed, conn, tx>>
    BY <1>0, <1>1 DEF HoldersInv, Held, Pool!InHands, Pool!Range
  <1>2. CASE Pool!Takes(t)
    <2> DEFINE h == free[Len(free)]
               f == SubSeq(free, 1, Len(free) - 1)
    <2>1. /\ at[t] = "waits" /\ free # <<>> /\ free \in Seq(Pool!Holder)
          /\ \A i, j \in DOMAIN free : free[i] = free[j] => i = j
      BY <1>0, <1>2 DEF Pool!Takes, HoldersInv
    <2>2. conn[t] = {}
      BY <1>0, <2>1 DEF CallsInv
    <2>3. /\ free' = f /\ conn' = [conn EXCEPT ![t] = {h}] /\ tx' = tx /\ warmed' = warmed
      BY <1>2 DEF Pool!Takes
    <2>4. h \in Pool!Holder /\ Len(free) \in Nat /\ Len(free) > 0 /\ DOMAIN free = 1..Len(free)
      BY <2>1
    <2>5. /\ f \in Seq(Pool!Holder) /\ DOMAIN f = 1..(Len(free) - 1)
          /\ \A i \in 1..(Len(free) - 1) : f[i] = free[i]
      BY <2>1, <2>4
    <2> HIDE DEF f
    <2>6. \A i, j \in DOMAIN f : f[i] = f[j] => i = j
      BY <2>1, <2>4, <2>5
    <2>7. h \notin Pool!Range(f)
      BY <2>1, <2>4, <2>5 DEF Pool!Range
    <2>8. Pool!Range(f) \cup {h} = Pool!Range(free)
      <3>1. \A g \in Pool!Range(free) : g \in Pool!Range(f) \cup {h}
        BY <2>4, <2>5 DEF Pool!Range
      <3>2. \A g \in Pool!Range(f) \cup {h} : g \in Pool!Range(free)
        BY <2>4, <2>5 DEF Pool!Range
      <3> QED BY <3>1, <3>2
    <2> HIDE DEF h
    <2>9. tx' = [tx EXCEPT ![t] = tx[t]]
      BY <1>0, <2>3 DEF HoldersInv
    <2>10. /\ \A g, k \in tx[t] : g = k
           /\ tx[t] \cap Pool!Range(free) = {} /\ Held(t) = tx[t]
      BY <1>0, <2>2 DEF HoldersInv, Held
    <2>11. /\ {h} \cap tx[t] = {} /\ Pool!Range(f) \cap ({h} \cup tx[t]) = {}
           /\ Pool!Range(f) \cup {h} \cup tx[t] = Pool!Range(free) \cup Held(t)
      BY <2>7, <2>8, <2>10
    <2>12. {h} \in SUBSET Pool!Holder /\ \A g, k \in {h} : g = k
      BY <2>4
    <2> QED BY <1>0, <2>3, <2>5, <2>6, <2>9, <2>10, <2>11, <2>12, OneTaskMoves
  <1>3. CASE Pool!Gets(t) /\ op[t] = "transaction"
    <2>1. /\ free' = free /\ warmed' = warmed /\ at[t] = "connects"
          /\ conn' = [conn EXCEPT ![t] = {}] /\ tx' = [tx EXCEPT ![t] = conn[t]]
      BY <1>3 DEF Pool!Gets
    <2>2. tx[t] = {}
      BY <1>0, <1>3, <2>1 DEF CallsInv
    <2>3. /\ free' \in Seq(Pool!Holder) /\ \A i, j \in DOMAIN free' : free'[i] = free'[j] => i = j
          /\ \A g, k \in conn[t] : g = k
          /\ Pool!Range(free') \cap ({} \cup conn[t]) = {}
          /\ Pool!Range(free') \cup {} \cup conn[t] = Pool!Range(free) \cup Held(t)
      BY <1>0, <2>1, <2>2 DEF HoldersInv, Held
    <2>4. {} \in SUBSET Pool!Holder /\ (\A g, k \in {} : g = k) /\ {} \cap conn[t] = {}
      OBVIOUS
    <2> QED BY <1>0, <2>1, <2>3, <2>4, OneTaskMoves
  <1>4. CASE Pool!Ends(t) \/ Pool!Fails(t) \/ Pool!Expires(t)
    <2>1. /\ Pool!Returns(conn[t], {}) /\ conn' = [conn EXCEPT ![t] = {}] /\ tx' = tx
      BY <1>4 DEF Pool!Ends, Pool!Fails, Pool!Expires, Pool!Leaves
    <2>2. /\ free' \in Seq(Pool!Holder) /\ \A i, j \in DOMAIN free' : free'[i] = free'[j] => i = j
          /\ Pool!Range(free') = Pool!Range(free) \cup conn[t] /\ warmed' = warmed
      BY <1>0, <2>1, ReturnsAppends
    <2>3. tx' = [tx EXCEPT ![t] = tx[t]]
      BY <1>0, <2>1 DEF HoldersInv
    <2>4. /\ \A g, k \in tx[t] : g = k
          /\ Pool!Range(free') \cap ({} \cup tx[t]) = {}
          /\ Pool!Range(free') \cup {} \cup tx[t] = Pool!Range(free) \cup Held(t)
      BY <1>0, <2>2 DEF HoldersInv, Held
    <2>5. {} \in SUBSET Pool!Holder /\ (\A g, k \in {} : g = k) /\ {} \cap tx[t] = {}
      OBVIOUS
    <2> QED BY <1>0, <2>1, <2>2, <2>3, <2>4, <2>5, OneTaskMoves
  <1>5. CASE Pool!EndsTransaction(t)
    <2>1. /\ Pool!Returns(conn[t], tx[t])
          /\ conn' = [conn EXCEPT ![t] = {}] /\ tx' = [tx EXCEPT ![t] = {}]
      BY <1>5 DEF Pool!EndsTransaction
    <2>2. /\ free' \in Seq(Pool!Holder) /\ \A i, j \in DOMAIN free' : free'[i] = free'[j] => i = j
          /\ Pool!Range(free') = Pool!Range(free) \cup conn[t] \cup tx[t] /\ warmed' = warmed
      BY <1>0, <2>1, ReturnsAppends
    <2>3. /\ Pool!Range(free') \cap ({} \cup {}) = {}
          /\ Pool!Range(free') \cup {} \cup {} = Pool!Range(free) \cup Held(t)
      BY <2>2 DEF Held
    <2>4. {} \in SUBSET Pool!Holder /\ (\A g, k \in {} : g = k) /\ {} \cap {} = {}
      OBVIOUS
    <2> QED BY <1>0, <2>1, <2>2, <2>3, <2>4, OneTaskMoves
  <1>6. ASSUME Pool!Asks(t) \/ Pool!Wakes(t) \/ (Pool!Gets(t) /\ op[t] # "transaction")
        PROVE  UNCHANGED <<free, warmed, conn, tx>>
    BY <1>6 DEF Pool!Asks, Pool!Wakes, Pool!Gets
  <1> QED BY <1>1, <1>2, <1>3, <1>4, <1>5, <1>6 DEF Pool!Steps

LEMMA CallsKept ==
  ASSUME Pool!PoolAssumption, PoolInv, NEW t \in Task, Pool!Steps(t)
  PROVE  CallsInv'
  <1> USE DEF Pool!Goes
  <1>0. /\ HoldersInv /\ CallsInv /\ Attempts \in Nat \ {0}
        /\ conn \in [Task -> SUBSET Pool!Holder] /\ tx \in [Task -> SUBSET Pool!Holder]
        /\ at \in [Task -> {"idle", "waits", "connects", "runs", "sleeps"}]
        /\ op \in [Task -> {"execute", "fetch", "transaction"}]
        /\ tries \in [Task -> 0..(Attempts - 1)]
    BY DEF PoolInv, HoldersInv, CallsInv, Pool!PoolAssumption
  (* What the one task leaves behind is enough; the others keep their calls, *)
  (* as long as nothing of theirs is closed.                                 *)
  <1>1. ASSUME /\ at' \in [Task -> {"idle", "waits", "connects", "runs", "sleeps"}]
               /\ op' \in [Task -> {"execute", "fetch", "transaction"}]
               /\ tries' \in [Task -> 0..(Attempts - 1)]
               /\ open' \subseteq Pool!Holder
               /\ \A s \in Task : s # t =>
                     /\ conn'[s] = conn[s] /\ tx'[s] = tx[s] /\ at'[s] = at[s] /\ op'[s] = op[s]
                     /\ Held(s) \cap open \subseteq open'
               /\ (conn'[t] # {}) <=> (at'[t] \in {"connects", "runs"})
               /\ op'[t] = "transaction" /\ at'[t] \in {"waits", "connects"} => tx'[t] = {}
               /\ at'[t] = "sleeps" => op'[t] = "execute"
               /\ tx'[t] \cup (IF at'[t] = "runs" THEN conn'[t] ELSE {}) \subseteq open'
        PROVE  CallsInv'
    <2>1. ASSUME NEW s \in Task
          PROVE  /\ (conn'[s] # {}) <=> (at'[s] \in {"connects", "runs"})
                 /\ op'[s] = "transaction" /\ at'[s] \in {"waits", "connects"} => tx'[s] = {}
                 /\ at'[s] = "sleeps" => op'[s] = "execute"
                 /\ tx'[s] \cup (IF at'[s] = "runs" THEN conn'[s] ELSE {}) \subseteq open'
      <3>1. CASE s = t
        BY <1>1, <3>1
      <3>2. CASE s # t
        <4>1. tx[s] \cup (IF at[s] = "runs" THEN conn[s] ELSE {}) \subseteq Held(s) \cap open
          BY <1>0 DEF CallsInv, Held
        <4>2. /\ (conn[s] # {}) <=> (at[s] \in {"connects", "runs"})
              /\ op[s] = "transaction" /\ at[s] \in {"waits", "connects"} => tx[s] = {}
              /\ at[s] = "sleeps" => op[s] = "execute"
          BY <1>0 DEF CallsInv
        <4>3. Held(s) \cap open \subseteq open'
          BY <1>1, <3>2
        <4> QED BY <1>1, <3>2, <4>1, <4>2, <4>3
      <3> QED BY <3>1, <3>2
    <2> QED BY <1>1, <2>1 DEF CallsInv
  <1>2. open \subseteq Pool!Holder
    BY <1>0 DEF CallsInv
  <1>3. CASE Pool!Asks(t)
    <2>1. PICK o \in {"execute", "fetch", "transaction"} :
            (o = "transaction" => tx[t] = {}) /\ op' = [op EXCEPT ![t] = o]
      BY <1>3 DEF Pool!Asks
    <2>2. at[t] = "idle" /\ at' = [at EXCEPT ![t] = "waits"] /\ UNCHANGED <<open, conn, tx, tries>>
      BY <1>3 DEF Pool!Asks
    <2>3. conn[t] = {} /\ tx[t] \subseteq open
      BY <1>0, <2>2 DEF CallsInv
    <2> QED BY <1>0, <1>1, <1>2, <2>1, <2>2, <2>3
  <1>4. CASE Pool!Takes(t)
    <2>1. /\ at[t] = "waits" /\ at' = [at EXCEPT ![t] = "connects"]
          /\ conn' = [conn EXCEPT ![t] = {free[Len(free)]}] /\ UNCHANGED <<open, op, tx, tries>>
      BY <1>4 DEF Pool!Takes
    <2>2. tx[t] \subseteq open /\ (op[t] = "transaction" => tx[t] = {})
      BY <1>0, <2>1 DEF CallsInv
    <2>3. conn'[t] # {} /\ at'[t] = "connects"
      BY <1>0, <2>1
    <2> QED BY <1>0, <1>1, <1>2, <2>1, <2>2, <2>3
  <1>5. CASE Pool!Gets(t)
    <2>1. /\ at[t] = "connects" /\ open' = open \cup conn[t] /\ UNCHANGED <<op, tries>>
      BY <1>5 DEF Pool!Gets
    <2>2. tx[t] \subseteq open /\ conn[t] # {} /\ conn[t] \in SUBSET Pool!Holder
          /\ (op[t] = "transaction" => tx[t] = {})
      BY <1>0, <2>1 DEF CallsInv
    <2>3. CASE op[t] = "transaction"
      <3>1. /\ at' = [at EXCEPT ![t] = "idle"]
            /\ tx' = [tx EXCEPT ![t] = conn[t]] /\ conn' = [conn EXCEPT ![t] = {}]
        BY <1>5, <2>3 DEF Pool!Gets
      <3> QED BY <1>0, <1>1, <1>2, <2>1, <2>2, <3>1
    <2>4. CASE op[t] # "transaction"
      <3>1. at' = [at EXCEPT ![t] = "runs"] /\ UNCHANGED <<tx, conn>>
        BY <1>5, <2>4 DEF Pool!Gets
      <3> QED BY <1>0, <1>1, <1>2, <2>1, <2>2, <2>4, <3>1
    <2> QED BY <2>3, <2>4
  <1>6. ASSUME NEW s \in Task, s # t PROVE Held(s) \cap Held(t) = {}
    BY <1>0, <1>6 DEF HoldersInv
  <1>7. ASSUME tries' \in [Task -> 0..(Attempts - 1)], op' = op,
               at' \in [Task -> {"idle", "waits", "connects", "runs", "sleeps"}],
               \A s \in Task : s # t => conn'[s] = conn[s] /\ tx'[s] = tx[s] /\ at'[s] = at[s],
               at'[t] \in {"idle", "sleeps"}, conn'[t] = {}, at'[t] = "sleeps" => op'[t] = "execute",
               open' \subseteq open, open \ Held(t) \subseteq open', tx'[t] \subseteq open'
        PROVE  CallsInv'
    <2>1. \A s \in Task : s # t => Held(s) \cap open \subseteq open'
      BY <1>6, <1>7
    <2> QED BY <1>0, <1>1, <1>2, <1>7, <2>1
  <1>8. CASE Pool!Ends(t) \/ Pool!Expires(t) \/ Pool!Fails(t)
    <2>1. /\ conn' = [conn EXCEPT ![t] = {}] /\ Pool!Returns(conn[t], {}) /\ tx' = tx /\ UNCHANGED op
      BY <1>8 DEF Pool!Ends, Pool!Expires, Pool!Fails, Pool!Leaves
    <2>2. /\ \A s \in Task : s # t => conn'[s] = conn[s] /\ tx'[s] = tx[s]
          /\ conn'[t] = {} /\ tx'[t] = tx[t] /\ tx[t] \subseteq open /\ conn[t] \cap tx[t] = {}
      BY <1>0, <2>1 DEF CallsInv, HoldersInv
    <2>0. open' \subseteq open /\ open \ Held(t) \subseteq open' /\ tx'[t] \subseteq open'
      <3>1. open' \subseteq open /\ open \ (conn[t] \cup {}) \subseteq open'
        BY <1>0, <2>1, ReturnsAppends
      <3> QED BY <2>2, <3>1 DEF Held
    <2>3. CASE Pool!Ends(t) \/ Pool!Expires(t)
      <3>1. at' = [at EXCEPT ![t] = "idle"] /\ tries' = [tries EXCEPT ![t] = 0]
        BY <2>3 DEF Pool!Ends, Pool!Expires
      <3>2. /\ tries' \in [Task -> 0..(Attempts - 1)] /\ at'[t] = "idle"
            /\ at' \in [Task -> {"idle", "waits", "connects", "runs", "sleeps"}]
            /\ \A s \in Task : s # t => at'[s] = at[s]
        BY <1>0, <3>1
      <3> QED BY <1>7, <2>0, <2>1, <2>2, <3>2
    <2>4. CASE Pool!Fails(t)
      <3>1. /\ at' = [at EXCEPT ![t] = "sleeps"] /\ tries' = [tries EXCEPT ![t] = tries[t] + 1]
            /\ tries[t] + 1 < Attempts /\ op[t] = "execute"
        BY <2>4 DEF Pool!Fails
      <3>2. tries[t] + 1 \in 0..(Attempts - 1)
        BY <1>0, <3>1
      <3>3. /\ tries' \in [Task -> 0..(Attempts - 1)] /\ at'[t] = "sleeps"
            /\ at' \in [Task -> {"idle", "waits", "connects", "runs", "sleeps"}]
            /\ \A s \in Task : s # t => at'[s] = at[s]
        BY <1>0, <3>1, <3>2
      <3> QED BY <1>7, <2>0, <2>1, <2>2, <3>1, <3>3
    <2> QED BY <1>8, <2>3, <2>4
  <1>9. CASE Pool!EndsTransaction(t)
    <2>1. /\ conn' = [conn EXCEPT ![t] = {}] /\ Pool!Returns(conn[t], tx[t]) /\ UNCHANGED op
          /\ tx' = [tx EXCEPT ![t] = {}]
          /\ at' = [at EXCEPT ![t] = "idle"] /\ tries' = [tries EXCEPT ![t] = 0]
      BY <1>9 DEF Pool!EndsTransaction
    <2>2. /\ tries' \in [Task -> 0..(Attempts - 1)] /\ at'[t] = "idle"
          /\ at' \in [Task -> {"idle", "waits", "connects", "runs", "sleeps"}]
          /\ \A s \in Task : s # t => conn'[s] = conn[s] /\ tx'[s] = tx[s] /\ at'[s] = at[s]
          /\ conn'[t] = {} /\ tx'[t] = {} /\ op' = op
      BY <1>0, <2>1
    <2>3. open' \subseteq open /\ open \ Held(t) \subseteq open' /\ tx'[t] \subseteq open'
      BY <1>0, <2>1, <2>2, ReturnsAppends DEF Held
    <2> QED BY <1>7, <2>2, <2>3
  <1>10. CASE Pool!Wakes(t)
    <2>1. /\ at[t] = "sleeps" /\ UNCHANGED <<open, op, conn, tx>>
          /\ \/ at' = [at EXCEPT ![t] = "idle"] /\ tries' = [tries EXCEPT ![t] = 0]
             \/ at' = [at EXCEPT ![t] = "waits"] /\ tries' = tries
      BY <1>10 DEF Pool!Wakes
    <2>2. conn[t] = {} /\ tx[t] \subseteq open /\ op[t] # "transaction"
      BY <1>0, <2>1 DEF CallsInv
    <2>3. /\ at' \in [Task -> {"idle", "waits", "connects", "runs", "sleeps"}]
          /\ tries' \in [Task -> 0..(Attempts - 1)] /\ at'[t] \in {"idle", "waits"}
          /\ \A s \in Task : s # t => at'[s] = at[s]
      BY <1>0, <2>1
    <2> QED BY <1>0, <1>1, <1>2, <2>1, <2>2, <2>3
  <1> QED BY <1>3, <1>4, <1>5, <1>8, <1>9, <1>10 DEF Pool!Steps

-----------------------------------------------------------------------------
(* connections_active.  A change of one task changes each of the two counts  *)
(* by at most one.                                                           *)
LEMMA Counts ==
  ASSUME IsFiniteSet(Task), NEW t \in Task,
         \A s \in Task : s # t => at'[s] = at[s] /\ op'[s] = op[s] /\ tx'[s] = tx[s]
  PROVE  LET counted == op[t] = "execute" /\ at[t] = "runs"
             then    == op'[t] = "execute" /\ at'[t] = "runs"
             n == Cardinality(Pool!Counted)
             m == Cardinality(InTx)
         IN  /\ n \in Nat /\ m \in Nat
             /\ Cardinality(Pool!Counted') \in Nat /\ Cardinality(InTx') \in Nat
             /\ Cardinality(Pool!Counted') = n + (IF then THEN 1 ELSE 0) - (IF counted THEN 1 ELSE 0)
             /\ Cardinality(InTx') = m + (IF tx'[t] # {} THEN 1 ELSE 0) - (IF tx[t] # {} THEN 1 ELSE 0)
  <1> DEFINE counted == op[t] = "execute" /\ at[t] = "runs"
             then    == op'[t] = "execute" /\ at'[t] = "runs"
             A == Pool!Counted
             B == Pool!Counted'
             C == InTx
             D == InTx'
  <1>1. A \subseteq Task /\ C \subseteq Task /\ (t \in A <=> counted) /\ (t \in C <=> tx[t] # {})
    BY DEF Pool!Counted, InTx
  <1>2. B = IF then THEN A \cup {t} ELSE A \ {t}
    BY DEF Pool!Counted
  <1>3. D = IF tx'[t] # {} THEN C \cup {t} ELSE C \ {t}
    BY DEF InTx
  <1> HIDE DEF A, B, C, D, counted, then
  <1>4. IsFiniteSet(A) /\ IsFiniteSet(C) /\ Cardinality(A) \in Nat /\ Cardinality(C) \in Nat
    BY <1>1, FS_Subset, FS_CardinalityType
  <1>5. /\ Cardinality(A \cup {t}) = IF t \in A THEN Cardinality(A) ELSE Cardinality(A) + 1
        /\ Cardinality(A \ {t}) = IF t \in A THEN Cardinality(A) - 1 ELSE Cardinality(A)
    BY <1>4, FS_AddElement, FS_RemoveElement
  <1>6. /\ Cardinality(C \cup {t}) = IF t \in C THEN Cardinality(C) ELSE Cardinality(C) + 1
        /\ Cardinality(C \ {t}) = IF t \in C THEN Cardinality(C) - 1 ELSE Cardinality(C)
    BY <1>4, FS_AddElement, FS_RemoveElement
  <1>7. IsFiniteSet(B) /\ IsFiniteSet(D)
    BY <1>2, <1>3, <1>4, FS_AddElement, FS_RemoveElement
  <1>8. Cardinality(B) \in Nat /\ Cardinality(D) \in Nat
    BY <1>7, FS_CardinalityType
  <1>9. Cardinality(B) = Cardinality(A) + (IF then THEN 1 ELSE 0) - (IF counted THEN 1 ELSE 0)
    BY <1>1, <1>2, <1>4, <1>5
  <1>10. Cardinality(D) = Cardinality(C) + (IF tx'[t] # {} THEN 1 ELSE 0) - (IF tx[t] # {} THEN 1 ELSE 0)
    BY <1>1, <1>3, <1>4, <1>6
  <1> QED BY <1>4, <1>8, <1>9, <1>10 DEF A, B, C, D, counted, then

LEMMA CountKept ==
  ASSUME IsFiniteSet(Task), PoolInv, NEW t \in Task, Pool!Steps(t)
  PROVE  CountInv'
  <1> USE DEF Pool!Goes
  <1>0. /\ CallsInv /\ active \in Nat /\ active <= Cardinality(Pool!Counted) + Cardinality(InTx)
        /\ tx \in [Task -> SUBSET Pool!Holder]
        /\ at \in [Task -> {"idle", "waits", "connects", "runs", "sleeps"}]
        /\ op \in [Task -> {"execute", "fetch", "transaction"}]
    BY DEF PoolInv, HoldersInv, CallsInv, CountInv
  <1> DEFINE n  == Cardinality(Pool!Counted)
             m  == Cardinality(InTx)
             n2 == Cardinality(Pool!Counted')
             m2 == Cardinality(InTx')
             c  == op[t] = "execute" /\ at[t] = "runs"
             c2 == op'[t] = "execute" /\ at'[t] = "runs"
  <1>1. \A s \in Task : s # t => at'[s] = at[s] /\ op'[s] = op[s] /\ tx'[s] = tx[s]
    BY <1>0 DEF Pool!Steps, Pool!Asks, Pool!Takes, Pool!Gets, Pool!Ends, Pool!Fails, Pool!Wakes,
                Pool!Expires, Pool!EndsTransaction, Pool!Leaves
  <1>2. /\ n \in Nat /\ m \in Nat /\ n2 \in Nat /\ m2 \in Nat
        /\ n2 = n + (IF c2 THEN 1 ELSE 0) - (IF c THEN 1 ELSE 0)
        /\ m2 = m + (IF tx'[t] # {} THEN 1 ELSE 0) - (IF tx[t] # {} THEN 1 ELSE 0)
    BY <1>1, Counts
  <1>3. SUFFICES active' \in Nat /\ active' <= n2 + m2
    BY DEF CountInv
  <1>4. active <= n + m
    BY <1>0
  <1> HIDE DEF n, m, n2, m2
  <1>5. CASE Pool!Asks(t) \/ Pool!Takes(t) \/ Pool!Wakes(t)
    <2>1. active' = active /\ tx' = tx /\ ~ c /\ ~ c2
      BY <1>0, <1>5 DEF Pool!Asks, Pool!Takes, Pool!Wakes
    <2> QED BY <1>0, <1>2, <1>4, <2>1
  <1>6. CASE Pool!Gets(t)
    <2>1. at[t] = "connects" /\ active' = Pool!Up(t) /\ op' = op
      BY <1>6 DEF Pool!Gets
    <2>2. CASE op[t] = "transaction"
      <3>1. tx'[t] = conn[t] /\ conn[t] # {} /\ tx[t] = {} /\ ~ c /\ ~ c2 /\ active' = active + 1
        BY <1>0, <1>6, <2>1, <2>2 DEF Pool!Gets, CallsInv, Pool!Up
      <3> QED BY <1>0, <1>2, <1>4, <3>1
    <2>3. CASE op[t] = "execute"
      <3>1. tx' = tx /\ ~ c /\ c2 /\ active' = active + 1
        BY <1>0, <1>6, <2>1, <2>3 DEF Pool!Gets, Pool!Up
      <3> QED BY <1>0, <1>2, <1>4, <3>1
    <2>4. CASE op[t] = "fetch"
      <3>1. tx' = tx /\ ~ c /\ ~ c2 /\ active' = active
        BY <1>0, <1>6, <2>1, <2>4 DEF Pool!Gets, Pool!Up
      <3> QED BY <1>0, <1>2, <1>4, <3>1
    <2> QED BY <1>0, <2>2, <2>3, <2>4
  <1>7. CASE Pool!Ends(t) \/ Pool!Fails(t) \/ Pool!Expires(t)
    <2>1. /\ tx' = tx /\ op' = op /\ at'[t] \in {"idle", "sleeps"}
          /\ active' = IF op[t] = "fetch" THEN active ELSE Pool!Down(active)
      BY <1>0, <1>7 DEF Pool!Ends, Pool!Fails, Pool!Expires, Pool!Leaves
    <2>2. CASE op[t] = "fetch"
      BY <1>0, <1>2, <1>4, <2>1, <2>2
    <2>3. CASE op[t] # "fetch"
      <3>1. active' = IF active = 0 THEN 0 ELSE active - 1
        BY <2>1, <2>3 DEF Pool!Down
      <3>2. n2 + m2 >= n + m - 1
        BY <1>2, <2>1
      <3> QED BY <1>0, <1>2, <1>4, <3>1, <3>2
    <2> QED BY <2>2, <2>3
  <1>8. CASE Pool!EndsTransaction(t)
    <2>1. /\ tx[t] # {} /\ tx'[t] = {} /\ op' = op /\ at'[t] = "idle"
          /\ active' = IF at[t] \in {"idle", "sleeps"} \/ op[t] = "fetch" THEN Pool!Down(active)
                       ELSE Pool!Down(Pool!Down(active))
      BY <1>0, <1>8 DEF Pool!EndsTransaction
    <2>2. m2 = m - 1 /\ ~ c2
      BY <1>2, <2>1
    <2>3. CASE at[t] \in {"idle", "sleeps"} \/ op[t] = "fetch"
      <3>1. n2 = n
        BY <1>2, <2>2, <2>3
      <3>2. active' = IF active = 0 THEN 0 ELSE active - 1
        BY <2>1, <2>3 DEF Pool!Down
      <3> QED BY <1>0, <1>2, <1>4, <2>2, <3>1, <3>2
    <2>4. CASE ~ (at[t] \in {"idle", "sleeps"} \/ op[t] = "fetch")
      <3>1. n2 >= n - 1
        BY <1>2, <2>2
      <3>2. active' = IF active <= 1 THEN 0 ELSE active - 2
        BY <1>0, <2>1, <2>4 DEF Pool!Down
      <3> QED BY <1>0, <1>2, <1>4, <2>2, <3>1, <3>2
    <2> QED BY <2>3, <2>4
  <1> QED BY <1>5, <1>6, <1>7, <1>8 DEF Pool!Steps

-----------------------------------------------------------------------------
LEMMA PoolAtFirst ==
  ASSUME Pool!PoolAssumption, Pool!Init PROVE PoolInv
  <1>0. Size \in Nat /\ Warmed \in 0..(Size - 1) /\ Attempts \in Nat \ {0} /\ IsFiniteSet(Task)
    BY DEF Pool!PoolAssumption, Pool!IsFiniteSet, IsFiniteSet
  <1>1. PICK n \in 0..Warmed : /\ warmed = (Size - n + 1)..Size
                               /\ free = [i \in 1..(Size - n) |-> i]
    BY DEF Pool!Init
  <1>2. /\ at = [t \in Task |-> "idle"] /\ op = [t \in Task |-> "fetch"]
        /\ conn = [t \in Task |-> {}] /\ tx = [t \in Task |-> {}] /\ open = warmed
        /\ tries = [t \in Task |-> 0] /\ active = 0
    BY DEF Pool!Init
  <1>3. HoldersInv
    <2>1. free \in Seq(Pool!Holder) /\ \A i, j \in DOMAIN free : free[i] = free[j] => i = j
      BY <1>0, <1>1 DEF Pool!Holder
    <2>2. Pool!Range(free) = 1..(Size - n)
      BY <1>0, <1>1 DEF Pool!Range
    <2>3. Pool!InHands = {} /\ \A t \in Task : Held(t) = {}
      BY <1>2 DEF Pool!InHands, Held
    <2>4. warmed \subseteq Pool!Holder /\ Pool!Range(free) \cap warmed = {}
          /\ Pool!Range(free) \cup warmed = Pool!Holder
      BY <1>0, <1>1, <2>2 DEF Pool!Holder
    <2> QED BY <1>2, <2>1, <2>3, <2>4 DEF HoldersInv
  <1>4. CallsInv
    BY <1>0, <1>1, <1>2 DEF CallsInv, Pool!Holder
  <1>5. CountInv
    <2>1. Pool!Counted = {} /\ InTx = {}
      BY <1>2 DEF Pool!Counted, InTx
    <2>2. Cardinality(Pool!Counted) = 0 /\ Cardinality(InTx) = 0
      BY <2>1, FS_EmptySet
    <2> QED BY <1>2, <2>2 DEF CountInv
  <1> QED BY <1>3, <1>4, <1>5 DEF PoolInv

LEMMA PoolKept ==
  ASSUME Pool!PoolAssumption, PoolInv, [Pool!Next]_(Pool!vars) PROVE PoolInv'
  <1>0. IsFiniteSet(Task)
    BY DEF Pool!PoolAssumption, Pool!IsFiniteSet, IsFiniteSet
  <1>1. ASSUME NEW t \in Task, Pool!Steps(t) PROVE PoolInv'
    BY <1>0, <1>1, HoldersKept, CallsKept, CountKept DEF PoolInv
  <1>2. CASE Pool!Closes
    <2>1. PICK i \in DOMAIN free : /\ open' = open \ {free[i]}
                                   /\ UNCHANGED <<free, warmed, at, op, conn, tx, tries, active>>
      BY <1>2 DEF Pool!Closes
    <2>2. HoldersInv'
      BY <2>1 DEF PoolInv, HoldersInv, Held, Pool!InHands, Pool!Range
    <2>3. \A t \in Task : free[i] \notin Held(t)
      BY <2>1 DEF PoolInv, HoldersInv, Pool!Range
    <2>4. CallsInv'
      BY <2>1, <2>3 DEF PoolInv, CallsInv, Held
    <2>5. CountInv'
      BY <2>1 DEF PoolInv, CountInv, Pool!Counted, InTx
    <2> QED BY <2>2, <2>4, <2>5 DEF PoolInv
  <1>3. CASE UNCHANGED Pool!vars
    BY <1>3 DEF Pool!vars, PoolInv, HoldersInv, CallsInv, CountInv, Held, InTx, Pool!InHands,
                Pool!Range, Pool!Counted
  <1> QED BY <1>1, <1>2, <1>3 DEF Pool!Next

(* The number of different values of a sequence without repetitions. *)
LEMMA CountOfRange ==
  ASSUME NEW S, NEW s \in Seq(S), \A i, j \in DOMAIN s : s[i] = s[j] => i = j
  PROVE  IsFiniteSet(Pool!Range(s)) /\ Cardinality(Pool!Range(s)) = Len(s)
  <1>1. s \in [1..Len(s) -> Pool!Range(s)] /\ Len(s) \in Nat
    BY DEF Pool!Range
  <1>2. s \in Bijection(1..Len(s), Pool!Range(s))
    BY <1>1 DEF Bijection, Injection, Surjection, IsInjective, Pool!Range
  <1>3. ExistsBijection(1..Len(s), Pool!Range(s))
    BY <1>2 DEF ExistsBijection
  <1>4. IsFiniteSet(1..Len(s)) /\ Cardinality(1..Len(s)) = Len(s)
    <2>1. IsFiniteSet(1..Len(s)) /\ Cardinality(1..Len(s)) = IF 1 > Len(s) THEN 0 ELSE Len(s) - 1 + 1
      BY <1>1, FS_Interval
    <2> QED BY <1>1, <2>1
  <1> QED BY <1>3, <1>4, FS_Bijection

(* No holder is lost or with two owners, and connections_active is never     *)
(* above what is in use.                                                     *)
LEMMA PoolKeeps ==
  ASSUME Pool!PoolAssumption PROVE Pool!Spec => [](Pool!TypeOK /\ Pool!HoldersAccounted)
  <1>1. Pool!Init => PoolInv
    BY PoolAtFirst
  <1>2. PoolInv /\ [Pool!Next]_(Pool!vars) => PoolInv'
    BY PoolKept
  <1>3. ASSUME PoolInv PROVE Pool!TypeOK /\ Pool!HoldersAccounted
    <2>1. Pool!TypeOK
      BY <1>3 DEF PoolInv, CallsInv, Pool!TypeOK
    <2> DEFINE F == Pool!Range(free)
               W == warmed
               H == Pool!InHands
    <2>2. F \cup W \cup H = Pool!Holder /\ F \cap W = {} /\ (F \cup W) \cap H = {}
      BY <1>3 DEF PoolInv, HoldersInv, Held, Pool!InHands
    <2>3. IsFiniteSet(F) /\ Cardinality(F) = Len(free)
      BY <1>3, CountOfRange DEF PoolInv, HoldersInv
    <2>4. Size \in Nat /\ IsFiniteSet(Pool!Holder) /\ Cardinality(Pool!Holder) = Size
      BY FS_Interval DEF Pool!PoolAssumption, Pool!Holder
    <2> HIDE DEF F, W, H
    <2>5. IsFiniteSet(W) /\ IsFiniteSet(H)
      BY <2>2, <2>4, FS_Subset
    <2>6. /\ IsFiniteSet(F \cup W)
          /\ Cardinality(F \cup W) = Cardinality(F) + Cardinality(W) - Cardinality({})
      BY <2>2, <2>3, <2>5, FS_Union
    <2>7. Cardinality((F \cup W) \cup H) = Cardinality(F \cup W) + Cardinality(H) - Cardinality({})
      BY <2>2, <2>5, <2>6, FS_Union
    <2>8. Cardinality({}) = 0 /\ Cardinality(W) \in Nat /\ Cardinality(H) \in Nat /\ Len(free) \in Nat
      BY <1>3, <2>5, FS_EmptySet, FS_CardinalityType DEF PoolInv, HoldersInv
    <2>9. Len(free) + Cardinality(W) + Cardinality(H) = Size
      <3>1. Cardinality((F \cup W) \cup H) = Size
        BY <2>2, <2>4
      <3>2. Cardinality(F \cup W) = Len(free) + Cardinality(W)
        BY <2>3, <2>6, <2>8
      <3> QED BY <2>4, <2>7, <2>8, <3>1, <3>2
    <2>10. /\ Pool!Cardinality(W) = Cardinality(W) /\ Pool!Cardinality(H) = Cardinality(H)
           /\ Pool!Cardinality(Pool!Counted) = Cardinality(Pool!Counted)
           /\ Pool!Cardinality({t \in Task : tx[t] # {}}) = Cardinality({t \in Task : tx[t] # {}})
      BY SameCardinality
    <2>11. \A s, t \in Task : s # t => (conn[s] \cup tx[s]) \cap (conn[t] \cup tx[t]) = {}
      BY <1>3 DEF PoolInv, HoldersInv, Held
    <2>12. \A t \in Task : tx[t] \cup (IF at[t] = "runs" THEN conn[t] ELSE {}) \subseteq open
      BY <1>3 DEF PoolInv, CallsInv
    <2>13. active <= Cardinality(Pool!Counted) + Cardinality({t \in Task : tx[t] # {}})
      BY <1>3 DEF PoolInv, CountInv, InTx
    <2> QED BY <2>1, <2>2, <2>9, <2>10, <2>11, <2>12, <2>13 DEF Pool!HoldersAccounted, F, W, H
  <1> QED BY <1>1, <1>2, <1>3, PTL DEF Pool!Spec
(* Whatever tasks, timers and lost connections do, no holder of the main     *)
(* pool is lost or with two owners and connections_active is never above     *)
(* what is in use, and all variables of both pools keep their types          *)
(* (acquire, acquire_read, transaction, execute_with_retry).                 *)
THEOREM HoldersAreAccounted == Spec /\ Pool!Spec => []HoldersAccounted
  <1> USE TypesSound, PoolKeeps, PoolsAssumption
  <1> QED BY PTL DEF HoldersAccounted
=============================================================================
