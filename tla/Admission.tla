----------------------------- MODULE Admission -----------------------------
(* Who is let in: the connection slots (ConnectionSlots) and the rate       *)
(* limiter (RateLimiter), which share nothing.                              *)
EXTENDS ConnectionSlots

\* Of the limiter, whose clients are askers here.
CONSTANTS Asker, Rule, PerMinute, PerHour, Burst, Second, Minute, Hour,
          MinuteKeeps, HourKeeps

VARIABLES minute, hour, last, served

limiterVars == <<minute, hour, last, served>>

Limiter == INSTANCE RateLimiter WITH Client <- Asker

ASSUME LimiterAssumption == Limiter!WindowAssumption /\ Limiter!RuleAssumption

(* LimitsRespected of RateLimiter, with the types it relies on              *)
(* (check_rate_limit).                                                      *)
LimitsRespected == Limiter!TypeOK /\ Limiter!LimitsRespected
=============================================================================
