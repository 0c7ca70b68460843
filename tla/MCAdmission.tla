---------------------------- MODULE MCAdmission ----------------------------
(***************************************************************************)
(* The slots and the limiter have a part of the run each.  Of the slots,    *)
(* two calls of one client and one of another, and a single slot.           *)
(***************************************************************************)
EXTENDS Admission, TLC

CONSTANTS r1, r2, r3, a, b,             \* of the slots
          admin, default, monitoring    \* of the limiter

VARIABLE part

TwoOfOne == r1 :> a @@ r2 :> a @@ r3 :> b

\* Three of the rules, scaled down: limits that the deques can count, and one
\* that only its burst limit enforces.
Limits(ofAdmin, ofDefault, ofMonitoring) ==
  admin :> ofAdmin @@ default :> ofDefault @@ monitoring :> ofMonitoring

MinuteLimits == Limits(2, 3, 5)
HourLimits   == Limits(3, 5, 9)
BurstLimits  == Limits(1, 2, 2)

AllInit == part \in {"slots", "limiter"} /\ Init /\ Limiter!Init

SlotsNext   == part = "slots" /\ Next /\ UNCHANGED <<part, limiterVars>>
LimiterNext == part = "limiter" /\ Limiter!Next /\ UNCHANGED <<part, vars>>

\* The fairness of each module, for its part.
AllSpec ==
  /\ AllInit
  /\ [][SlotsNext \/ LimiterNext]_<<part, vars, limiterVars>>
  /\ \A r \in Request : /\ WF_vars(part = "slots" /\ AskStep(r))
                        /\ WF_vars(part = "slots" /\ LeaveStep(r))
                        /\ WF_vars(part = "slots" /\ Deadline(r))
  /\ WF_limiterVars(part = "limiter" /\ Limiter!Tick)

(* A client that asks on is served again: ServedAgain of RateLimiter        *)
(* (check_rate_limit).                                                      *)
ServedAgain == part = "limiter" => Limiter!ServedAgain
=============================================================================
