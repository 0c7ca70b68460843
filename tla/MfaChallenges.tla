--------------------------- MODULE MfaChallenges ---------------------------
(***************************************************************************)
(* core/auth/mfa/manager.py: the challenges of the factors, entries of the  *)
(* cache that a verification reads, decides upon and writes back.  Whether  *)
(* an answer is right is an outcome (the recovery codes are in              *)
(* RecoveryCodes); time is in minutes and counts down.                      *)
(***************************************************************************)
EXTENDS Naturals

CONSTANTS Challenge, Task,
          MaxAttempts,
          Life, Kept,   \* minutes of a challenge, and of one that was answered
          None

VARIABLES entry,        \* of a challenge in the cache
          left, age,    \* minutes until the entry goes; since it was created
          pc, about,    \* of a task: its await, its challenge
          seen, right,  \* the entry it has read, the outcome
          wrong, passed,\* answers of a challenge that were told
          raced         \* challenges that were written over a newer entry

cache == <<entry, left>>
tasks == <<pc, about, seen, right>>
told  == <<wrong, passed, raced>>
vars  == <<cache, age, tasks, told>>

ChallengeAssumption ==
  /\ MaxAttempts \in Nat /\ Life \in Nat /\ Kept \in 1..Life
  /\ None \notin Nat /\ None \notin [status: {"pending", "verified", "failed"}, tries: 0..MaxAttempts]

Entries == {None} \cup
  [status: {"pending", "verified", "failed"}, tries: 0..MaxAttempts]

\* The counters stop where they can make no more difference.
Oldest == Life + Kept * MaxAttempts + 1
Counts(n, bound) == IF n < bound THEN n + 1 ELSE n

TypeOK ==
  /\ entry \in [Challenge -> Entries] /\ left \in [Challenge -> 0..Life]
  /\ \A c \in Challenge : entry[c] = None <=> left[c] = 0
  /\ age \in [Challenge -> 0..Oldest \cup {None}]
  /\ pc \in [Task -> {"idle", "decides", "stores", "marks"}]
  /\ about \in [Task -> Challenge \cup {None}]
  /\ seen \in [Task -> Entries] /\ right \in [Task -> BOOLEAN]

Init ==
  /\ entry = [c \in Challenge |-> None] /\ age = entry
  /\ left = [c \in Challenge |-> 0]
  /\ pc = [t \in Task |-> "idle"] /\ right = [t \in Task |-> FALSE]
  /\ about = [t \in Task |-> None] /\ seen = about
  /\ wrong = [c \in Challenge |-> 0] /\ passed = wrong
  /\ raced = {}

\* create_mfa_challenge stores a challenge as its last step.
Creates(c) ==
  /\ age[c] = None
  /\ entry' = [entry EXCEPT ![c] = [status |-> "pending", tries |-> 0]]
  /\ left' = [left EXCEPT ![c] = Life] /\ age' = [age EXCEPT ![c] = 0]
  /\ UNCHANGED <<tasks, told>>

-----------------------------------------------------------------------------
(* verify_mfa_challenge *)

Goes(t, from, to) == pc[t] = from /\ pc' = [pc EXCEPT ![t] = to]

Finishes(t, from) ==
  /\ Goes(t, from, "idle")
  /\ about' = [about EXCEPT ![t] = None] /\ seen' = [seen EXCEPT ![t] = None]
  /\ right' = [right EXCEPT ![t] = FALSE]

\* cache.get, and what follows it up to the next await
Opens(t, c, to) ==
  /\ entry[c] # None /\ entry[c].status = "pending"
  /\ Goes(t, "idle", to)
  /\ about' = [about EXCEPT ![t] = c] /\ seen' = [seen EXCEPT ![t] = entry[c]]
  /\ UNCHANGED <<cache, age, told, right>>

Reads(t, c)   == entry[c] # None /\ entry[c].tries < MaxAttempts /\ Opens(t, c, "decides")
GivesUp(t, c) == entry[c] # None /\ entry[c].tries >= MaxAttempts /\ Opens(t, c, "marks")

\* TOTP and recovery codes are looked up; a request that lacks the answer is
\* a wrong one.
Decides(t) == \E ok \in BOOLEAN :
  /\ Goes(t, "decides", "stores")
  /\ right' = [right EXCEPT ![t] = ok]
  /\ UNCHANGED <<cache, age, told, about, seen>>

\* cache.set, whatever has become of the entry that was read
Writes(t, c, e, minutes) ==
  /\ entry' = [entry EXCEPT ![c] = e] /\ left' = [left EXCEPT ![c] = minutes]
  /\ raced' = IF entry[c] = seen[t] THEN raced ELSE raced \cup {c}
  /\ UNCHANGED age

Stores(t) == LET c == about[t] IN
  /\ Finishes(t, "stores")
  /\ IF right[t]
     THEN /\ Writes(t, c, [seen[t] EXCEPT !.status = "verified"], Kept)
          /\ passed' = [passed EXCEPT ![c] = Counts(@, 2)] /\ UNCHANGED wrong
     ELSE /\ Writes(t, c, [seen[t] EXCEPT !.tries = @ + 1], Kept)
          /\ wrong' = [wrong EXCEPT ![c] = Counts(@, MaxAttempts + 1)] /\ UNCHANGED passed

\* _mark_challenge_failed
Marks(t) ==
  /\ Finishes(t, "marks")
  /\ Writes(t, about[t], [seen[t] EXCEPT !.status = "failed"], Life)
  /\ UNCHANGED <<wrong, passed>>

\* The cache raises: the call returns an Err, and nothing is counted.
Fails(t) ==
  /\ pc[t] \in {"stores", "marks"}
  /\ Finishes(t, pc[t])
  /\ UNCHANGED <<cache, age, told>>

Tick ==
  /\ \E c \in Challenge : left[c] > 0
  /\ left' = [c \in Challenge |-> IF left[c] = 0 THEN 0 ELSE left[c] - 1]
  /\ entry' = [c \in Challenge |-> IF left[c] <= 1 THEN None ELSE entry[c]]
  /\ age' = [c \in Challenge |-> IF left[c] = 0 THEN age[c] ELSE Counts(age[c], Oldest)]
  /\ UNCHANGED <<tasks, told>>

Next ==
  \/ Tick
  \/ \E c \in Challenge : Creates(c) \/ \E t \in Task : Reads(t, c) \/ GivesUp(t, c)
  \/ \E t \in Task : Decides(t) \/ Stores(t) \/ Marks(t) \/ Fails(t)

Spec == Init /\ [][Next]_vars

-----------------------------------------------------------------------------
(* Unless two verifications of it overlapped or one outlasted its entry, a  *)
(* challenge is passed once at most, tells MaxAttempts wrong answers at     *)
(* most, and once passed is not pending again (verify_mfa_challenge).       *)
AnswersCount == \A c \in Challenge \ raced :
  /\ wrong[c] <= MaxAttempts /\ passed[c] <= 1
  /\ passed[c] = 1 /\ entry[c] # None => entry[c].status = "verified"

(* Nobody compares expires_at: a challenge is open as long as its entry is, *)
(* and each wrong answer, but nothing else, may add the minute for which an *)
(* answered one is kept (verify_mfa_challenge).                             *)
LastsSoLong == \A c \in Challenge \ raced :
  entry[c] # None /\ entry[c].status = "pending" => age[c] <= Life + Kept * entry[c].tries
=============================================================================
