---------------------------- MODULE DatabasePool ----------------------------
(***************************************************************************)
(* core/database.py: the main pool of connections after connect(), as the   *)
(* statements and transactions of concurrent tasks use it.  asyncpg keeps   *)
(* a holder for each connection that there may be, open or not, and hands   *)
(* out the one that was returned last.                                      *)
(***************************************************************************)
EXTENDS Naturals, Sequences, SequencesExt

CONSTANTS Task,
          Size,       \* max_connections of the pool
          Warmed,     \* connections that the warm-up acquires: 80% of them
          Attempts    \* max_attempts of execute_with_retry

\* Stated by the module that gives them their values.
PoolAssumption == /\ IsFiniteSet(Task) /\ Size \in Nat \ {0} /\ Attempts \in Nat \ {0}
                  /\ Warmed \in 0..(Size - 1)

VARIABLES free,     \* the free holders, the next one last
          open,     \* the holders that have a connection
          warmed,   \* the holders that the warm-up has acquired
          pc, op,   \* of a task: where its call is, and what it calls
          conn, tx, \* in a set: the holder of its call, and of its transaction
          tries,    \* attempts that failed
          active    \* connections_active

vars == <<free, open, warmed, pc, op, conn, tx, tries, active>>

Holder == 1..Size
InHands == UNION {conn[t] \cup tx[t] : t \in Task}
Counted == {t \in Task : op[t] = "execute" /\ pc[t] = "runs"}

\* The warm-up never gives back what it acquires, even where the four
\* statements that it runs at once on one connection fail.
Init ==
  /\ \E n \in 0..Warmed : /\ warmed = (Size - n + 1)..Size
                          /\ free = [i \in 1..(Size - n) |-> i]
  /\ open = warmed
  /\ pc = [t \in Task |-> "idle"] /\ op = [t \in Task |-> "fetch"]
  /\ conn = [t \in Task |-> {}] /\ tx = conn
  /\ tries = [t \in Task |-> 0] /\ active = 0

Goes(t, to) == pc' = [pc EXCEPT ![t] = to]

-----------------------------------------------------------------------------
(* check_pool_health takes the holders without a connection for the free    *)
(* ones.  A call that it refuses leaves all as it was.                      *)
Exhausted == Holder \subseteq open

Asks(t) ==
  /\ pc[t] = "idle"
  /\ \E o \in {"execute", "fetch", "transaction"} :
       /\ o # "fetch" => ~ Exhausted
       /\ o = "transaction" => tx[t] = {}
       /\ op' = [op EXCEPT ![t] = o]
  /\ Goes(t, "waits")
  /\ UNCHANGED <<free, open, warmed, conn, tx, tries, active>>

Takes(t) ==
  /\ pc[t] = "waits" /\ free # <<>>
  /\ conn' = [conn EXCEPT ![t] = {free[Len(free)]}]
  /\ free' = SubSeq(free, 1, Len(free) - 1)
  /\ Goes(t, "connects")
  /\ UNCHANGED <<open, warmed, op, tx, tries, active>>

Up_ForAll(t) == active + 1
Up(t) == IF op[t] = "fetch" THEN active ELSE active + 1

\* in a finally, also for a call that never got a connection
Down(n) == IF n = 0 THEN 0 ELSE n - 1

(* The connection is opened where there is none, and set up. *)
Gets(t) ==
  /\ pc[t] = "connects"
  /\ open' = open \cup conn[t]
  /\ active' = Up(t)
  /\ IF op[t] = "transaction"
     THEN /\ Goes(t, "idle")
          /\ tx' = [tx EXCEPT ![t] = conn[t]] /\ conn' = [conn EXCEPT ![t] = {}]
     ELSE Goes(t, "runs") /\ UNCHANGED <<tx, conn>>
  /\ UNCHANGED <<free, warmed, op, tries>>

\* a connection that is closed leaves its holder without one
Returns(holder, outer) ==
  /\ free' = free \o SetToSeq(holder) \o SetToSeq(outer)
  /\ \E closed \in SUBSET (holder \cup outer) : open' = open \ closed
  /\ UNCHANGED warmed

Leaves(t) ==
  /\ Returns(conn[t], {})
  /\ conn' = [conn EXCEPT ![t] = {}]
  /\ active' = IF op[t] = "fetch" THEN active ELSE Down(active)
  /\ UNCHANGED <<op, tx>>

(* A statement is done, or it, or opening its connection, raises an error   *)
(* that is not one of PostgreSQL: that, or the last error, ends the call.   *)
Ends(t) ==
  /\ pc[t] \in {"connects", "runs"}
  /\ Leaves(t)
  /\ Goes(t, "idle") /\ tries' = [tries EXCEPT ![t] = 0]

(* An error of PostgreSQL, or a lost connection: execute_with_retry sleeps  *)
(* and tries again.                                                         *)
Fails(t) ==
  /\ pc[t] \in {"connects", "runs"}
  /\ op[t] = "execute" /\ tries[t] + 1 < Attempts
  /\ Leaves(t)
  /\ Goes(t, "sleeps") /\ tries' = [tries EXCEPT ![t] = @ + 1]

Wakes(t) ==
  /\ pc[t] = "sleeps"
  /\ IF Exhausted THEN Goes(t, "idle") /\ tries' = [tries EXCEPT ![t] = 0]
     ELSE Goes(t, "waits") /\ UNCHANGED tries
  /\ UNCHANGED <<free, open, warmed, op, conn, tx, active>>

Expires_OnlyCounted(t) ==
  /\ pc[t] \in {"waits", "connects", "runs"} /\ op[t] # "fetch"
  /\ Leaves(t)
  /\ Goes(t, "idle") /\ tries' = [tries EXCEPT ![t] = 0]

(* asyncio.timeout, which is about the wait and the body alike. *)
Expires(t) ==
  /\ pc[t] \in {"waits", "connects", "runs"}
  /\ Leaves(t)
  /\ Goes(t, "idle") /\ tries' = [tries EXCEPT ![t] = 0]

(* Between two of its calls a transaction commits or rolls back; during a   *)
(* call, its timer cancels both.                                            *)
EndsTransaction(t) ==
  /\ tx[t] # {}
  /\ Returns(conn[t], tx[t])
  /\ conn' = [conn EXCEPT ![t] = {}] /\ tx' = [tx EXCEPT ![t] = {}]
  /\ active' = IF pc[t] \in {"idle", "sleeps"} \/ op[t] = "fetch" THEN Down(active)
               ELSE Down(Down(active))
  /\ Goes(t, "idle") /\ tries' = [tries EXCEPT ![t] = 0]
  /\ UNCHANGED op

(* A connection that nobody has used for long is closed. *)
Closes ==
  \E i \in DOMAIN free :
    /\ free[i] \in open
    /\ open' = open \ {free[i]}
    /\ UNCHANGED <<free, warmed, pc, op, conn, tx, tries, active>>

Steps(t) == \/ Asks(t) \/ Takes(t) \/ Gets(t) \/ Ends(t) \/ Fails(t) \/ Wakes(t)
            \/ Expires(t) \/ EndsTransaction(t)

Next == (\E t \in Task : Steps(t)) \/ Closes

Fairness ==
  /\ WF_vars(Closes)
  /\ \A t \in Task : WF_vars(Expires(t)) /\ WF_vars(Wakes(t)) /\ WF_vars(EndsTransaction(t))

Spec == Init /\ [][Next]_vars /\ Fairness

-----------------------------------------------------------------------------
(* No order of calls, timeouts, cancellations and lost connections loses a  *)
(* holder or hands one out twice, but for those of the warm-up; and what    *)
(* connections_active reports, which a call that never got a connection     *)
(* takes one from as well, is never above what is in use (acquire).          *)
TypeOK ==
  /\ open \subseteq Holder /\ tries \in [Task -> 0..(Attempts - 1)]
  /\ pc \in [Task -> {"idle", "waits", "connects", "runs", "sleeps"}]
  /\ \A t \in Task : (conn[t] # {}) = (pc[t] \in {"connects", "runs"})

HoldersAccounted ==
  /\ Range(free) \cup warmed \cup InHands = Holder
  /\ Len(free) + Cardinality(warmed) + Cardinality(InHands) = Size
  /\ \A s, t \in Task : s # t => (conn[s] \cup tx[s]) \cap (conn[t] \cup tx[t]) = {}
  /\ \A t \in Task : tx[t] \cup (IF pc[t] = "runs" THEN conn[t] ELSE {}) \subseteq open
  /\ active <= Cardinality(Counted) + Cardinality({t \in Task : tx[t] # {}})

(* Tasks that hold a connection each and wait for another one do not wait   *)
(* for ever, and a pool that refuses every call opens up again once nobody  *)
(* uses it (acquire, acquire_read, check_pool_health).                      *)
CallsEnd == \A t \in Task : (pc[t] # "idle" \/ tx[t] # {}) ~> (pc[t] = "idle" /\ tx[t] = {})
OpensUp == Exhausted ~> (~ Exhausted \/ InHands # {})

(* "Connection pool exhausted: {pool_size} connections in use".  Refuted:   *)
(* the pool is exhausted while its connections are open, used or not.       *)
ExhaustedIsInUse == Exhausted => free = <<>>

(* "Release all warmed connections back to pool".  Refuted. *)
WarmedAreReleased == warmed = {}
=============================================================================
