------------------------------ MODULE ApiKeys ------------------------------
(***************************************************************************)
(* core/auth/oauth2/api_keys.py: the keys of one client, as rows of         *)
(* api_keys and as entries of the cache that validate_api_key looks into    *)
(* first.  A hit asks neither whether the key is active nor whether it has  *)
(* expired.  Time is in ticks, of which an hour and a day have Hour and     *)
(* Day; lives and entries count down.                                       *)
(***************************************************************************)
EXTENDS Naturals, FiniteSets

CONSTANTS Key, Task,
          Hour, Day,
          Never       \* the life of a key that does not expire

LivesAssumption == Hour \in Nat /\ Day \in Nat \ {0} /\ Hour <= Day /\ Never \notin 0..Day

VARIABLES row,        \* "none", "active" or "revoked"
          life,       \* ticks until expires_at
          entry,      \* ticks that the entry of a key will stay in the cache
          pc, keys,   \* of a task: its await, and the keys it is about
          old,        \* the key it rotates, in a set
          revoked,    \* keys whose revocation was answered with Ok
          raced       \* keys whose entry was written when they were inactive

vars == <<row, life, entry, pc, keys, old, revoked, raced>>
rows == <<row, life>>

Smaller(m, n) == IF m < n THEN m ELSE n

TypeOK ==
  /\ row \in [Key -> {"none", "active", "revoked"}]
  /\ life \in [Key -> 0..Day \cup {Never}]
  /\ entry \in [Key -> 0..Day]
  /\ pc \in [Task -> {"idle", "reads", "fills", "renews", "caches",
                      "updates", "drops", "clears"}]
  /\ keys \in [Task -> SUBSET Key]
  /\ old \in [Task -> SUBSET Key] /\ \A t \in Task : Cardinality(old[t]) <= 1
  /\ revoked \subseteq Key /\ raced \subseteq Key

Init ==
  /\ row = [k \in Key |-> "none"] /\ life = [k \in Key |-> 0]
  /\ entry = [k \in Key |-> 0]
  /\ pc = [t \in Task |-> "idle"]
  /\ keys = [t \in Task |-> {}] /\ old = keys
  /\ revoked = {} /\ raced = {}

Goes(t, from, to) == pc[t] = from /\ pc' = [pc EXCEPT ![t] = to]
About(t, ks) == keys' = [keys EXCEPT ![t] = ks]
Finishes(t, from) ==
  /\ Goes(t, from, "idle")
  /\ keys' = [keys EXCEPT ![t] = {}] /\ old' = [old EXCEPT ![t] = {}]

\* cache.set: an entry is written whatever has become of the row since
Writes(k, ticks) ==
  /\ entry' = [entry EXCEPT ![k] = ticks]
  /\ raced' = IF row[k] = "active" THEN raced ELSE raced \cup {k}

Deletes(ks) ==
  /\ entry' = [k \in Key |-> IF k \in ks THEN 0 ELSE entry[k]]
  /\ raced' = raced \ ks

-----------------------------------------------------------------------------
(* validate_api_key *)

Hits_Renew(k) == entry[k] > 0 /\ Writes(k, Day) /\ UNCHANGED <<rows, pc, keys, old, revoked>>

\* The allowed addresses, the scope and the rate of the calls decide what is
\* answered, here and after an entry was written.
Hits(k) == entry[k] > 0 /\ UNCHANGED vars

Misses(t, k) ==
  /\ row[k] # "none" /\ entry[k] = 0
  /\ Goes(t, "idle", "reads")
  /\ About(t, {k})
  /\ UNCHANGED <<rows, entry, old, revoked, raced>>

Reads(t) == \E k \in keys[t] :
  /\ row[k] = "active" /\ life[k] # 0
  /\ Goes(t, "reads", "fills")
  /\ UNCHANGED <<rows, entry, keys, old, revoked, raced>>

Rejects(t) == \E k \in keys[t] :
  /\ row[k] # "active" \/ life[k] = 0
  /\ Finishes(t, "reads")
  /\ UNCHANGED <<rows, entry, revoked, raced>>

Fills(t) == \E k \in keys[t] :
  /\ Finishes(t, "fills")
  /\ Writes(k, Hour)
  /\ UNCHANGED <<rows, revoked>>

-----------------------------------------------------------------------------
(* create_api_key, create_scoped_api_key and the first half of a rotation *)

Adds(t, k, ticks) ==
  /\ row[k] = "none"
  /\ row' = [row EXCEPT ![k] = "active"] /\ life' = [life EXCEPT ![k] = ticks]
  /\ About(t, {k})
  /\ UNCHANGED <<entry, old, revoked, raced>>

Creates(t, k) == \E ticks \in {Day, Never} : Goes(t, "idle", "caches") /\ Adds(t, k, ticks)

\* the rest of the old key's life in whole days, and one day at least, which
\* also an expired key is given
Renewed(ticks) ==
  IF ticks = Never THEN Never ELSE IF ticks < Day THEN Day ELSE Day * (ticks \div Day)

Rotates(t, k) ==
  /\ row[k] = "active"
  /\ Goes(t, "idle", "renews")
  /\ old' = [old EXCEPT ![t] = {k}]
  /\ UNCHANGED <<rows, entry, keys, revoked, raced>>

Renews(t, k) == \E o \in old[t] : Goes(t, "renews", "caches") /\ Adds(t, k, Renewed(life[o]))

\* Redis refuses an entry that has no time left.
Caches(t) == \E k \in keys[t] :
  /\ life[k] # 0
  /\ Writes(k, IF life[k] = Never THEN Hour ELSE Smaller(life[k], Day))
  /\ IF old[t] = {} THEN Finishes(t, "caches")
     ELSE Goes(t, "caches", "updates") /\ About(t, old[t]) /\ UNCHANGED old
  /\ UNCHANGED <<rows, revoked>>

-----------------------------------------------------------------------------
(* revoke_api_key and bulk_revoke_keys *)

Revokes(t, k) ==
  /\ row[k] # "none"
  /\ Goes(t, "idle", "updates")
  /\ About(t, {k})
  /\ UNCHANGED <<rows, entry, old, revoked, raced>>

Deactivates(ks) ==
  /\ row' = [k \in Key |-> IF k \in ks THEN "revoked" ELSE row[k]]
  /\ UNCHANGED <<life, old, revoked>>

Updates(t) ==
  /\ Goes(t, "updates", "drops")
  /\ Deactivates(keys[t])
  /\ UNCHANGED <<entry, keys, raced>>

Drops_ById(t) ==
  /\ Finishes(t, "drops")
  /\ revoked' = revoked \cup keys[t]
  /\ UNCHANGED <<rows, entry, raced>>

Drops(t) ==
  /\ Finishes(t, "drops")
  /\ Deletes(keys[t])
  /\ revoked' = revoked \cup keys[t]
  /\ UNCHANGED rows

Active == {k \in Key : row[k] = "active"}

UpdatesAll(t) ==
  /\ Goes(t, "idle", "clears")
  /\ About(t, Active)
  /\ Deactivates(Active)
  /\ UNCHANGED <<entry, raced>>

\* clear_pattern: an entry that is written between its scan and its DELETE is
\* one of those that are written behind a revocation.
Clears(t) ==
  /\ Finishes(t, "clears")
  /\ Deletes(Key)
  /\ revoked' = revoked \cup keys[t]
  /\ UNCHANGED rows

\* An await raises, before it took effect: the call returns an Err, but for a
\* rotation, which does not look at what became of the revocation.
Fails(t) ==
  /\ pc[t] # "idle"
  /\ Finishes(t, pc[t])
  /\ UNCHANGED <<rows, entry, revoked, raced>>

Tick ==
  /\ \E k \in Key : entry[k] > 0 \/ life[k] \in 1..Day
  /\ entry' = [k \in Key |-> IF entry[k] = 0 THEN 0 ELSE entry[k] - 1]
  /\ life'  = [k \in Key |-> IF life[k] \in 1..Day THEN life[k] - 1 ELSE life[k]]
  /\ raced' = {k \in raced : entry'[k] > 0}
  /\ UNCHANGED <<row, pc, keys, old, revoked>>

Starts(t) ==
  \/ UpdatesAll(t)
  \/ \E k \in Key : Misses(t, k) \/ Creates(t, k) \/ Rotates(t, k) \/ Revokes(t, k)

Steps(t) ==
  \/ Reads(t) \/ Rejects(t) \/ Fills(t) \/ Caches(t)
  \/ (\E k \in Key : Renews(t, k))
  \/ Updates(t) \/ Drops(t) \/ Clears(t) \/ Fails(t)

Next == Tick \/ (\E k \in Key : Hits(k)) \/ \E t \in Task : Starts(t) \/ Steps(t)

Fairness == WF_vars(Tick) /\ \A t \in Task : WF_vars(Steps(t))

Spec == Init /\ [][Next]_vars /\ Fairness

-----------------------------------------------------------------------------
(* After a revocation that was answered with Ok, the key is accepted from   *)
(* the cache only where a call that had read or made the row before wrote   *)
(* its entry behind it: no order of validations, rotations and revocations  *)
(* leaves another entry (revoke_api_key, bulk_revoke_keys).                 *)
StaleOnlyIfRaced == \A k \in revoked : entry[k] > 0 => k \in raced

(* In the end a key that was revoked or has expired is refused for good:    *)
(* no use of a key renews its entry, and no entry is for ever               *)
(* (validate_api_key).                                                      *)
Over(k) == row[k] = "revoked" \/ (row[k] = "active" /\ life[k] = 0)

RefusedInTheEnd == \A k \in Key : Over(k) ~> [](entry[k] = 0)

(* An entry outlives its key by an hour at most (create_api_key gives it    *)
(* the life of the key).                                                    *)
OutlivesByAnHour == \A k \in Key : life[k] = 0 => entry[k] <= Hour

(* The entry of a key in the cache is one that somebody owes it: both, and  *)
(* the types (revoke_api_key, create_api_key).                              *)
EntryIsOwed == TypeOK /\ StaleOnlyIfRaced /\ OutlivesByAnHour
=============================================================================
