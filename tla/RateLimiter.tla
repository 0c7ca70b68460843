----------------------------- MODULE RateLimiter -----------------------------
(***************************************************************************)
(* core/rate_limiter.py: one tracker per client, shared by the rules of all *)
(* endpoints, with two bounded deques of the times of accepted requests.    *)
(* check_rate_limit does not await, so a request is one step.               *)
(*                                                                          *)
(* A time is kept as its age in ticks: the clock makes everything older,    *)
(* and what is older than the hour window is as old as it gets.             *)
(***************************************************************************)
EXTENDS Naturals, Sequences, FiniteSets

CONSTANTS Client,
          Rule,                       \* the rules of RateLimitConfig
          PerMinute, PerHour, Burst,  \* the numbers of each rule
          Second, Minute, Hour,       \* in ticks
          MinuteKeeps, HourKeeps      \* maxlen of the deques

WindowAssumption == /\ Second \in Nat \ {0} /\ Minute \in Nat /\ Hour \in Nat
                    /\ Second <= Minute /\ Minute <= Hour

(* Every rule asks for no more than its deque can count, or else the burst  *)
(* limits of all rules, which share the tracker, with one request a second  *)
(* beyond them stay below it.  No burst is more than one request a second   *)
(* for a minute.                                                            *)
RuleAssumption ==
  /\ {PerMinute, PerHour, Burst} \subseteq [Rule -> Nat \ {0}]
  /\ MinuteKeeps \in Nat \ {0} /\ HourKeeps \in Nat \ {0}
  /\ \A r \in Rule :
       /\ Burst[r] <= MinuteKeeps /\ Burst[r] * Second <= Minute
       /\ \/ PerMinute[r] <= MinuteKeeps
          \/ \A q \in Rule : Burst[q] * Second + Minute <= PerMinute[r] * Second
       /\ \/ PerHour[r] <= HourKeeps
          \/ \A q \in Rule : Burst[q] * Second + Hour <= PerHour[r] * Second

VARIABLES minute,   \* requests_this_minute
          hour,     \* requests_this_hour
          last,     \* last_request_time
          served    \* what each client was served in the last hour, under which rule

vars == <<minute, hour, last, served>>

Ancient == Hour + 1
Age     == 0..Ancient

TypeOK ==
  /\ minute \in [Client -> Seq(Age)] /\ \A c \in Client : Len(minute[c]) <= MinuteKeeps
  /\ hour \in [Client -> Seq(Age)] /\ \A c \in Client : Len(hour[c]) <= HourKeeps
  /\ last \in [Client -> Age]
  /\ served \in [Client -> Seq([age: 0..Hour, rule: Rule])]

(* A client without a tracker gets a new one, which looks like this. *)
Init == /\ minute = [c \in Client |-> <<>>]
        /\ hour = [c \in Client |-> <<>>]
        /\ last = [c \in Client |-> Ancient]
        /\ served = [c \in Client |-> <<>>]

-----------------------------------------------------------------------------
(* ClientRateTracker *)

(* append to a deque with a maxlen: the oldest falls out *)
Pushed(deque, keeps) ==
  Append(IF Len(deque) = keeps THEN Tail(deque) ELSE deque, 0)

Fresh_Stale(deque, window) == deque

(* cleanup_old_requests: popleft for as long as the first is old *)
Popped(s, old) ==
  LET n == CHOOSE n \in 0..Len(s) : n + 1 \notin old /\ 1..n \subseteq old
  IN  SubSeq(s, n + 1, Len(s))

Fresh(deque, window) == Popped(deque, {i \in DOMAIN deque : deque[i] > window})

Bursts(c) == last[c] < Second

CanRequest(c, r) ==
  LET minuteCount == Len(Fresh(minute[c], Minute))
      hourCount   == Len(Fresh(hour[c], Hour))
  IN  /\ minuteCount < PerMinute[r]
      /\ hourCount < PerHour[r]
      /\ Bursts(c) => minuteCount < Burst[r]

-----------------------------------------------------------------------------
(* check_rate_limit *)

Allows(c, r) ==
  /\ CanRequest(c, r)
  /\ minute' = [minute EXCEPT ![c] = Pushed(Fresh(@, Minute), MinuteKeeps)]
  /\ hour'   = [hour EXCEPT ![c] = Pushed(Fresh(@, Hour), HourKeeps)]
  /\ last'   = [last EXCEPT ![c] = 0]
  /\ served' = [served EXCEPT ![c] = Append(@, [age |-> 0, rule |-> r])]

Refuses(c, r) ==
  /\ ~ CanRequest(c, r)
  /\ minute' = [minute EXCEPT ![c] = Fresh(@, Minute)]
  /\ hour'   = [hour EXCEPT ![c] = Fresh(@, Hour)]
  /\ UNCHANGED <<last, served>>

Inactive_ForMinute(c) == last[c] > Minute

Inactive(c) == last[c] > Hour

(* cleanup_inactive_clients deletes their trackers. *)
CleansUp ==
  /\ \E c \in Client : Inactive(c)
  /\ minute' = [c \in Client |-> IF Inactive(c) THEN <<>> ELSE minute[c]]
  /\ hour'   = [c \in Client |-> IF Inactive(c) THEN <<>> ELSE hour[c]]
  /\ last'   = [c \in Client |-> IF Inactive(c) THEN Ancient ELSE last[c]]
  /\ UNCHANGED served

(* The clock, which does not run backwards. *)
Older(age) == IF age < Ancient THEN age + 1 ELSE age

Tick ==
  /\ minute' = [c \in Client |-> [i \in DOMAIN minute[c] |-> Older(minute[c][i])]]
  /\ hour'   = [c \in Client |-> [i \in DOMAIN hour[c] |-> Older(hour[c][i])]]
  /\ last'   = [c \in Client |-> Older(last[c])]
  /\ served' = [c \in Client |->
                 LET aged == [i \in DOMAIN served[c] |-> [served[c][i] EXCEPT !.age = Older(@)]]
                 IN  Popped(aged, {i \in DOMAIN aged : aged[i].age > Hour})]

Next == \/ \E c \in Client, r \in Rule : Allows(c, r) \/ Refuses(c, r)
        \/ CleansUp
        \/ Tick

Spec == Init /\ [][Next]_vars

(* Time passes.  Nothing is assumed of the clients. *)
FairSpec == Spec /\ WF_vars(Tick)

-----------------------------------------------------------------------------
(* What client c had been served in a window when its i-th request was. *)
Within(c, i, window) ==
  Cardinality({j \in 1..i : served[c][j].age <= served[c][i].age + window})

(* No request is served beyond the minute and hour limits of its rule, and  *)
(* none within a second of the one before beyond its burst limit: the       *)
(* client had fewer than that in the window before, under whatever rules,   *)
(* although a deque forgets what falls out of it and a cleanup deletes the  *)
(* whole tracker (can_make_request, cleanup_inactive_clients).              *)
LimitsRespected == \A c \in Client : \A i \in DOMAIN served[c] :
  LET rule == served[c][i].rule
      bursts == i > 1 /\ served[c][i - 1].age < served[c][i].age + Second
  IN  /\ Within(c, i, Minute) <= PerMinute[rule]
      /\ Within(c, i, Hour) <= PerHour[rule]
      /\ bursts => Within(c, i, Minute) <= Burst[rule]

(* A client that goes on asking under one rule is served again: what is     *)
(* refused does not count against it, and what was served expires           *)
(* (check_rate_limit, cleanup_old_requests).                                *)
ServedAgain == \A c \in Client, r \in Rule :
  WF_vars(Allows(c, r)) => []<>(last[c] = 0)
=============================================================================
