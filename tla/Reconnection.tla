---------------------------- MODULE Reconnection ----------------------------
(***************************************************************************)
(* websocket/reconnection.py: the ReconnectionManager of a WebSocket       *)
(* client.  A reconnection task waits and asks for one attempt after       *)
(* another, a health task pings, a circuit breaker holds attempts back.    *)
(* The socket itself is the application's: it tells the manager that a     *)
(* connection was made, was lost, or that an attempt failed.               *)
(***************************************************************************)
EXTENDS Naturals

CONSTANTS MaxAttempts,  \* config.max_attempts
          Threshold,    \* config.circuit_breaker_failure_threshold
          BreakerOn,    \* config.circuit_breaker_enabled
          CallbackMayRaise \* whether on_reconnection_attempt may raise

ASSUME ConfigAssumption == /\ MaxAttempts \in Nat \ {0}
                           /\ Threshold \in Nat \ {0}
                           /\ BreakerOn \in BOOLEAN
                           /\ CallbackMayRaise \in BOOLEAN

VARIABLES state,     \* ConnectionState
          attempt,   \* current_attempt
          breaker,   \* circuit_breaker_state
          failures,  \* circuit_breaker_failures, counted up to Threshold
          cooled,    \* the breaker's timeout has passed since the last failure
          loop,      \* the reconnection task: none, created, sleeping
          health,    \* the health task: idle, interval, ping, or off
          began,     \* last_successful_connection is set
          trying,    \* the application is making the attempt it was asked for
          stopping   \* stop(): not called, waiting for the health task, done

vars == <<state, attempt, breaker, failures, cooled, loop, health, began, trying, stopping>>

Flags == {cooled, began, trying} \subseteq BOOLEAN

TypeOK == /\ state \in {"disconnected", "connected", "reconnecting", "failed"}
          /\ attempt \in 0..MaxAttempts
          /\ breaker \in {"closed", "open", "half-open"}
          /\ failures \in 0..Threshold
          /\ Flags
          /\ loop \in {"none", "created", "sleeping"}
          /\ health \in {"idle", "interval", "ping", "off"}
          /\ stopping \in {"no", "waits", "done"}

Init == /\ state = "disconnected" /\ attempt = 0
        /\ breaker = "closed" /\ failures = 0 /\ cooled = FALSE
        /\ loop = "none" /\ health = "idle"
        /\ began = FALSE /\ trying = FALSE /\ stopping = "no"

-----------------------------------------------------------------------------
(* handle_reconnection_failed, as far as the breaker goes. *)

Opens == BreakerOn /\ failures + 1 >= Threshold

CountsFailure ==
  /\ failures' = IF failures < Threshold THEN failures + 1 ELSE failures
  /\ cooled' = FALSE
  /\ breaker' = IF Opens THEN "open" ELSE breaker

(* should_attempt_reconnection: a cooled breaker is half opened by asking. *)

Allowed == attempt < MaxAttempts /\ (breaker = "open" => cooled)

-----------------------------------------------------------------------------
(* What the application reports. *)

Established ==
  /\ state' = "connected" /\ began' = TRUE /\ trying' = FALSE
  /\ attempt' = 0 /\ breaker' = "closed" /\ failures' = 0
  /\ UNCHANGED <<cooled, loop, health, stopping>>

Lost_OnlyOnline ==
  /\ state # "disconnected"
  /\ state' = "disconnected"
  /\ loop' = IF loop = "none" /\ state = "connected" THEN "created" ELSE loop
  /\ UNCHANGED <<attempt, breaker, failures, cooled, began, trying, stopping>>

(* handle_connection_lost: the early return is the guard; a task that is    *)
(* still running is left to see the new state when it wakes.                *)
Lost ==
  /\ state # "disconnected"
  /\ state' = "disconnected"
  /\ loop' = IF loop = "none" THEN "created" ELSE loop
  /\ UNCHANGED <<attempt, breaker, failures, cooled, began, trying, stopping>>

AttemptFails ==
  /\ trying /\ trying' = FALSE
  /\ CountsFailure
  /\ UNCHANGED <<state, attempt, loop, health, began, stopping>>

-----------------------------------------------------------------------------
(* The reconnection task.  From one await to the next nothing else runs.    *)

Exhausted(n, s) == IF n >= MaxAttempts THEN "failed" ELSE s

Attempts_Uncounted ==
  /\ state = "disconnected" /\ Allowed
  /\ state' = "reconnecting" /\ loop' = "sleeping"
  /\ breaker' = IF breaker = "open" THEN "half-open" ELSE breaker
  /\ UNCHANGED <<attempt, failures, cooled>>

(* One turn of the loop, to its sleep. *)
Attempts ==
  /\ state = "disconnected" /\ Allowed
  /\ state' = "reconnecting" /\ attempt' = attempt + 1 /\ loop' = "sleeping"
  /\ breaker' = IF breaker = "open" THEN "half-open" ELSE breaker
  /\ UNCHANGED <<failures, cooled>>

(* The same turn when the on_reconnection_attempt callback raises: the      *)
(* failure is counted and, the state not being DISCONNECTED, the loop ends. *)
CallbackRaises ==
  /\ CallbackMayRaise
  /\ state = "disconnected" /\ Allowed
  /\ attempt' = attempt + 1 /\ state' = Exhausted(attempt + 1, "reconnecting")
  /\ CountsFailure
  /\ loop' = "none"

GivesUp ==
  /\ ~ (state = "disconnected" /\ Allowed)
  /\ state' = Exhausted(attempt, state) /\ loop' = "none"
  /\ UNCHANGED <<attempt, breaker, failures, cooled>>

(* The task starts, or wakes from its sleep: then the application is to     *)
(* make the attempt, and the loop looks at the state again at once.         *)
LoopRuns ==
  /\ loop # "none"
  /\ Attempts \/ CallbackRaises \/ GivesUp
  /\ trying' = (trying \/ loop = "sleeping")
  /\ UNCHANGED <<health, began, stopping>>

-----------------------------------------------------------------------------
(* The health task looks at the state before its sleep and not after it.    *)

HealthLooks ==
  /\ health = "idle" /\ state = "connected"
  /\ health' = "interval"
  /\ UNCHANGED <<state, attempt, breaker, failures, cooled, loop, began, trying, stopping>>

Pings ==
  /\ health = "interval" /\ health' = "ping"
  /\ UNCHANGED <<state, attempt, breaker, failures, cooled, loop, began, trying, stopping>>

PingAnswered ==
  /\ health = "ping" /\ health' = "idle"
  /\ UNCHANGED <<state, attempt, breaker, failures, cooled, loop, began, trying, stopping>>

PingTimesOut == health = "ping" /\ health' = "idle" /\ Lost

-----------------------------------------------------------------------------
(* stop() cancels one task, waits for it, then cancels the other.  A task   *)
(* that has not run yet never does; one that sleeps leaves its loop.        *)

Stop ==
  /\ stopping = "no" /\ stopping' = "waits" /\ health' = "off"
  /\ UNCHANGED <<state, attempt, breaker, failures, cooled, loop, began, trying>>

CancelsLoop ==
  /\ stopping = "waits" /\ stopping' = "done" /\ loop' = "none"
  /\ state' = IF loop = "sleeping" THEN Exhausted(attempt, state) ELSE state
  /\ UNCHANGED <<attempt, breaker, failures, cooled, health, began, trying>>

CoolsDown ==
  /\ ~ cooled /\ cooled' = TRUE
  /\ UNCHANGED <<state, attempt, breaker, failures, loop, health, began, trying, stopping>>

ReportsLost == Lost /\ UNCHANGED health

Next == \/ Established \/ ReportsLost \/ AttemptFails
        \/ LoopRuns
        \/ HealthLooks \/ Pings \/ PingAnswered \/ PingTimesOut
        \/ Stop \/ CancelsLoop \/ CoolsDown

Spec == Init /\ [][Next]_vars

(* Timers fire and tasks run, the clock passes the breaker's timeout, and   *)
(* the application says what came of an attempt; it may report a failure    *)
(* every time.  Nothing makes it report that a connection was lost.         *)
FairSpec == /\ Spec
            /\ WF_vars(LoopRuns) /\ WF_vars(CoolsDown)
            /\ WF_vars(trying /\ (Established \/ AttemptFails))

-----------------------------------------------------------------------------
(* A lost connection is not forgotten: a manager that was once connected    *)
(* and is DISCONNECTED has a reconnection task under way, whatever order    *)
(* losses, pings, wake-ups and failures came in, unless its breaker is open *)
(* or it was stopped (handle_connection_lost, _reconnection_loop).          *)
NotForgotten ==
  state = "disconnected" /\ loop = "none" =>
    ~ began \/ breaker = "open" \/ stopping # "no"

(* FAILED is said only of a manager that has used up its attempts, and a    *)
(* success that comes after all takes the verdict back with the count       *)
(* (_reconnection_loop, handle_connection_established).                     *)
FailedIsExhausted == state = "failed" => attempt = MaxAttempts

(* A breaker that is not closed has seen Threshold failures since the last *)
(* connection, so that the first failure while it is half open opens it     *)
(* again (handle_reconnection_failed, handle_connection_established).       *)
OpenIsEarned == breaker # "closed" => BreakerOn /\ failures = Threshold

(* The attempts run out: without a new connection the reconnection task is  *)
(* over sooner or later, however often the application reports a loss while *)
(* it runs (_reconnection_loop).                                            *)
LoopEnds == []<>(loop = "none" \/ state = "connected")

-----------------------------------------------------------------------------
(* What the code's comments promise and the code does not do. *)

(* "Check if we can try half-open": a manager kept DISCONNECTED by its open *)
(* breaker tries again once the timeout has passed.                         *)
OpenIsProbed ==
  (state = "disconnected" /\ breaker = "open") ~> (state # "disconnected" \/ stopping # "no")

(* "If we've exhausted all attempts, mark as failed": an attempt that fails *)
(* is followed by another, by a connection, or by FAILED.                   *)
AttemptsGoOn ==
  (state = "reconnecting") ~> (state # "reconnecting" \/ stopping # "no")
-----------------------------------------------------------------------------
(* What the manager keeps true, for every number of attempts and every      *)
(* threshold.  The three properties are inductive together with the types:  *)
(* a loop only ends DISCONNECTED when the breaker stops it, and only a      *)
(* connection takes failures and attempts back.                             *)
Kept == TypeOK /\ NotForgotten /\ FailedIsExhausted /\ OpenIsEarned
=============================================================================
