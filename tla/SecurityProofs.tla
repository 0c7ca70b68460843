--------------------------- MODULE SecurityProofs ---------------------------
(***************************************************************************)
(* Proofs of what the security components keep, for any number of keys,     *)
(* challenges, codes, templates, events and calls and for any configured    *)
(* life, limit and batch: the entries of API keys, the challenges, recovery *)
(* codes and templates of the second factors, the risk of a login, the      *)
(* scopes of a token, and the audit trail.  They share nothing but these    *)
(* pages.                                                                   *)
(***************************************************************************)
EXTENDS TrailAndKeys, Access, FiniteSetTheorems, SequenceTheorems, TLAPS

-----------------------------------------------------------------------------
(* API keys: row and cached entry (ApiKeys). *)

(* An entry lasts as long as its key, or an hour, and a row comes first. *)
EntriesLast == \A k \in Key :
  /\ row[k] = "none" => entry[k] = 0
  /\ life[k] # Never => entry[k] <= life[k] \/ entry[k] <= Hour

(* What was revoked stays so, and a call is about keys that have a row. *)
RowsStay ==
  /\ \A k \in revoked : row[k] = "revoked"
  /\ \A t \in Caller : /\ \A k \in keys[t] \cup old[t] : row[k] # "none"
                       /\ at[t] \in {"drops", "clears"} => \A k \in keys[t] : row[k] = "revoked"

KeysInv == Keys!EntryIsOwed /\ EntriesLast /\ RowsStay

(* A call rotates one key at most. *)
LEMMA OneOld == Keys!Cardinality({}) <= 1 /\ \A k : Keys!Cardinality({k}) <= 1
  <1>1. \A S : Keys!Cardinality(S) = Cardinality(S)
    BY DEF Keys!Cardinality, Cardinality
  <1>2. Cardinality({}) = 0 /\ \A k : Cardinality({k}) = 1
    BY FS_EmptySet, FS_Singleton
  <1>3. 0 <= 1 /\ 1 <= 1
    OBVIOUS
  <1> QED BY <1>1, <1>2, <1>3

(* The rest of a life in whole days is a life again (rotate_api_key). *)
LEMMA WholeDays ==
  ASSUME Keys!LivesAssumption, NEW ticks \in 0..Day \cup {Never}
  PROVE  Keys!Renewed(ticks) \in 0..Day \cup {Never}
  <1>1. CASE ticks = Never
    BY <1>1 DEF Keys!Renewed
  <1>2. CASE ticks # Never /\ ticks < Day
    BY <1>2 DEF Keys!Renewed, Keys!LivesAssumption
  <1>3. CASE ticks # Never /\ ticks = Day
    <2>1. Day \div Day = 1
      BY DEF Keys!LivesAssumption
    <2>2. Day * 1 = Day /\ ~ (Day < Day)
      BY DEF Keys!LivesAssumption
    <2>3. Keys!Renewed(ticks) = Day * (Day \div Day)
      BY <1>3, <2>2 DEF Keys!Renewed
    <2> QED BY <2>1, <2>2, <2>3 DEF Keys!LivesAssumption
  <1> QED BY <1>1, <1>2, <1>3 DEF Keys!LivesAssumption

LEMMA KeysAtFirst == ASSUME Keys!LivesAssumption, Keys!Init PROVE KeysInv
  BY OneOld DEF Keys!LivesAssumption, Keys!Init, KeysInv, EntriesLast, RowsStay, Keys!EntryIsOwed,
     Keys!TypeOK, Keys!StaleOnlyIfRaced, Keys!OutlivesByAnHour

(* Every step of the calls and the clock keeps the entries owed. *)
LEMMA NextOwed ==
  ASSUME Keys!LivesAssumption, KeysInv, [Keys!Next]_Keys!vars
  PROVE  KeysInv'
  <1> USE DEF KeysInv, EntriesLast, RowsStay, Keys!EntryIsOwed, Keys!TypeOK,
              Keys!StaleOnlyIfRaced, Keys!OutlivesByAnHour,
              Keys!Goes, Keys!About, Keys!Finishes, Keys!rows
  <1>1. ASSUME NEW t \in Caller, NEW k \in Key,
               Keys!Misses(t, k) \/ Keys!Rotates(t, k) \/ Keys!Revokes(t, k) \/ Keys!Creates(t, k)
        PROVE  KeysInv'
    <2>1. CASE Keys!Misses(t, k)
      BY <2>1 DEF Keys!Misses
    <2>2. CASE Keys!Rotates(t, k)
      BY <2>2, OneOld DEF Keys!Rotates
    <2>3. CASE Keys!Revokes(t, k)
      BY <2>3 DEF Keys!Revokes
    <2>4. CASE Keys!Creates(t, k)
      BY <2>4 DEF Keys!Creates, Keys!Adds, Keys!LivesAssumption
    <2> QED BY <1>1, <2>1, <2>2, <2>3, <2>4
  <1>2. ASSUME NEW t \in Caller, NEW k \in Key, Keys!Renews(t, k)
        PROVE  KeysInv'
    <2>1. PICK o \in old[t] : /\ Keys!Goes(t, "renews", "caches")
                              /\ Keys!Adds(t, k, Keys!Renewed(life[o]))
      BY <1>2 DEF Keys!Renews
    <2>2. PICK ticks \in 0..Day \cup {Never} : Keys!Adds(t, k, ticks)
      BY <2>1, WholeDays
    <2> QED BY <2>1, <2>2 DEF Keys!Adds, Keys!LivesAssumption
  <1>3. ASSUME NEW t \in Caller, Keys!Reads(t) \/ Keys!Rejects(t) \/ Keys!Fails(t)
        PROVE  KeysInv'
    <2>1. CASE Keys!Reads(t)
      BY <2>1 DEF Keys!Reads
    <2>2. CASE Keys!Rejects(t)
      BY <2>2, OneOld DEF Keys!Rejects
    <2>3. CASE Keys!Fails(t)
      BY <2>3, OneOld DEF Keys!Fails
    <2> QED BY <1>3, <2>1, <2>2, <2>3
  <1>4. ASSUME NEW t \in Caller, Keys!Fills(t)
        PROVE  KeysInv'
    <2>1. PICK k \in keys[t] : Keys!Writes(k, Hour)
      BY <1>4 DEF Keys!Fills
    <2>2. Keys!TypeOK'
      BY <1>4, <2>1, OneOld DEF Keys!Fills, Keys!Writes, Keys!LivesAssumption
    <2>3. Keys!StaleOnlyIfRaced' /\ RowsStay'
      BY <1>4, <2>1 DEF Keys!Fills, Keys!Writes
    <2>4. EntriesLast' /\ Keys!OutlivesByAnHour'
      BY <1>4, <2>1 DEF Keys!Fills, Keys!Writes, Keys!LivesAssumption
    <2> QED BY <2>2, <2>3, <2>4
  <1>5. ASSUME NEW t \in Caller, Keys!Caches(t)
        PROVE  KeysInv'
    <2>1. PICK k \in keys[t], ticks \in 0..Day :
             /\ life[k] # 0 /\ Keys!Writes(k, ticks)
             /\ ticks = IF life[k] = Never THEN Hour ELSE Keys!Smaller(life[k], Day)
      BY <1>5 DEF Keys!Caches, Keys!Smaller, Keys!LivesAssumption
    <2>2. life[k] # Never => ticks <= life[k]
      BY <2>1 DEF Keys!Smaller, Keys!LivesAssumption
    <2>3. /\ UNCHANGED <<row, life, revoked>>
          /\ at[t] = "caches" /\ at' \in [Caller -> {"idle", "reads", "fills", "renews", "caches",
                      "updates", "drops", "clears"}]
          /\ \A u \in Caller : at'[u] = at[u] \/ at'[u] \in {"idle", "updates"}
          /\ keys' \in [Caller -> SUBSET Key] /\ old' \in [Caller -> SUBSET Key]
          /\ \A u \in Caller : (keys'[u] = keys[u] \/ keys'[u] = {} \/ keys'[u] = old[u])
          /\ \A u \in Caller : (old'[u] = old[u] \/ old'[u] = {})
          /\ \A u \in Caller : at'[u] # at[u] \/ (keys'[u] = keys[u])
      BY <1>5 DEF Keys!Caches
    <2>4. entry' = [entry EXCEPT ![k] = ticks]
          /\ raced' = IF row[k] = "active" THEN raced ELSE raced \cup {k}
      BY <2>1 DEF Keys!Writes
    <2>5. Keys!TypeOK'
      BY <2>3, <2>4, OneOld
    <2>6. Keys!StaleOnlyIfRaced'
      BY <2>3, <2>4
    <2>7. EntriesLast' /\ Keys!OutlivesByAnHour'
      BY <2>1, <2>2, <2>3, <2>4, <2>5
    <2>8. RowsStay'
      BY <2>3
    <2> QED BY <2>5, <2>6, <2>7, <2>8
  <1>6. ASSUME NEW t \in Caller, Keys!Updates(t) \/ Keys!UpdatesAll(t)
        PROVE  KeysInv'
    BY <1>6 DEF Keys!Updates, Keys!UpdatesAll, Keys!Deactivates, Keys!Active
  <1>7. ASSUME NEW t \in Caller, Keys!Drops(t) \/ Keys!Clears(t)
        PROVE  KeysInv'
    <2>1. PICK ks \in SUBSET Key :
            /\ keys[t] \subseteq ks
            /\ entry' = [k \in Key |-> IF k \in ks THEN 0 ELSE entry[k]]
            /\ raced' = raced \ ks
      BY <1>7 DEF Keys!Drops, Keys!Clears, Keys!Deletes
    <2>2. /\ at[t] \in {"drops", "clears"} /\ at' = [at EXCEPT ![t] = "idle"]
          /\ keys' = [keys EXCEPT ![t] = {}] /\ old' = [old EXCEPT ![t] = {}]
          /\ UNCHANGED <<row, life>> /\ revoked' = revoked \cup keys[t]
      BY <1>7 DEF Keys!Drops, Keys!Clears
    <2>4. entry' \in [Key -> 0..Day] /\ \A k \in Key : entry'[k] \in {0, entry[k]}
      BY <2>1 DEF Keys!LivesAssumption
    <2>3. Keys!TypeOK'
      BY <2>1, <2>2, <2>4, OneOld
    <2>5. Keys!StaleOnlyIfRaced'
      BY <2>1, <2>2
    <2>6. EntriesLast' /\ Keys!OutlivesByAnHour'
      BY <2>2, <2>4 DEF Keys!LivesAssumption
    <2>7. RowsStay'
      BY <2>2
    <2> QED BY <2>3, <2>5, <2>6, <2>7
  <1>8. CASE Keys!Tick
    BY <1>8 DEF Keys!Tick, Keys!LivesAssumption
  <1>9. CASE UNCHANGED Keys!vars
    BY <1>9 DEF Keys!vars
  <1> HIDE DEF KeysInv
  <1> QED
    BY <1>1, <1>2, <1>3, <1>4, <1>5, <1>6, <1>7, <1>8, <1>9
    DEF Keys!Next, Keys!Starts, Keys!Steps, Keys!Hits

(* For any keys and lives, and any order of the calls: a revoked key is in  *)
(* the cache only where a call that had read or made its row before wrote   *)
(* its entry behind the revocation, and no entry outlives its key by more   *)
(* than an hour (validate_api_key, revoke_api_key, create_api_key).         *)
THEOREM EntriesAreOwed == Keys!Spec => []EntryIsOwed
  <1> USE KeysAssumption
  <1>1. Keys!Init => KeysInv
    BY KeysAtFirst
  <1>2. KeysInv /\ [Keys!Next]_Keys!vars => KeysInv'
    BY NextOwed
  <1>3. KeysInv => EntryIsOwed
    BY DEF KeysInv, EntryIsOwed
  <1> QED BY <1>1, <1>2, <1>3, PTL DEF Keys!Spec

-----------------------------------------------------------------------------
(* The challenges of the second factor (MfaChallenges). *)

Open(e) == e # None /\ e.status = "pending"

(* A verification has read an open answer, which was there to be read. *)
VerifiesSound == \A t \in Task : mfaAt[t] # "idle" =>
  /\ mfaAbout[t] \in Challenge /\ age[mfaAbout[t]] # None
  /\ Open(mfaSeen[t])
  /\ mfaAt[t] \in {"decides", "stores"} => mfaSeen[t].tries < MaxAttempts

(* A challenge that was not created has no answer and no answers; one that   *)
(* is open has counted its wrong answers, and lasts as long as they made it.*)
Counted(c) ==
  /\ wrong[c] <= MaxAttempts /\ passed[c] <= 1
  /\ entryOf[c] # None =>
       /\ passed[c] = 1 => entryOf[c].status = "verified"
       /\ Open(entryOf[c]) =>
            /\ wrong[c] = entryOf[c].tries
            /\ age[c] + minutes[c] <= Life + KeptFor * entryOf[c].tries

ChallengesSound == \A c \in Challenge :
  /\ age[c] = None => entryOf[c] = None /\ wrong[c] = 0 /\ passed[c] = 0
  /\ c \notin crossed => Counted(c)

MfaInv ==
  /\ Mfa!TypeOK
  /\ wrong \in [Challenge -> Nat] /\ passed \in [Challenge -> Nat]
  /\ VerifiesSound /\ ChallengesSound

Ent == [status: {"pending", "verified", "failed"}, tries: 0..MaxAttempts]

(* What the constants have to be. *)
LEMMA ConfiguredNumbers ==
  ASSUME Mfa!ChallengeAssumption
  PROVE  /\ MaxAttempts \in Nat /\ Life \in Nat /\ KeptFor \in Nat
         /\ KeptFor # 0 /\ Life # 0 /\ KeptFor \in 0..Life /\ Life \in 0..Life /\ 0 \in 0..Life
         /\ Mfa!Oldest \in Nat /\ 0 \in 0..Mfa!Oldest
         /\ Mfa!Entries = {None} \cup Ent /\ None \notin Ent /\ None \notin Nat
  <1>1. /\ MaxAttempts \in Nat /\ Life \in Nat /\ KeptFor \in Nat
        /\ KeptFor # 0 /\ Life # 0 /\ KeptFor \in 0..Life /\ Life \in 0..Life /\ 0 \in 0..Life
    BY DEF Mfa!ChallengeAssumption
  <1>2. Mfa!Oldest \in Nat
    BY <1>1 DEF Mfa!Oldest
  <1>3. 0 \in 0..Mfa!Oldest
    BY <1>2
  <1> QED BY <1>1, <1>2, <1>3 DEF Mfa!ChallengeAssumption, Ent, Mfa!Entries

(* How much longer a challenge is kept with one more wrong answer. *)
LEMMA KeptLonger ==
  ASSUME Mfa!ChallengeAssumption, NEW n \in Nat
  PROVE  KeptFor * n \in Nat /\ KeptFor * (n + 1) = KeptFor * n + KeptFor
  BY DEF Mfa!ChallengeAssumption

(* A verification reads the entry (verify_mfa_challenge). *)
LEMMA ReadsKeep ==
  ASSUME Mfa!ChallengeAssumption, MfaInv, NEW t \in Task, NEW c \in Challenge,
         NEW to \in {"decides", "marks"}, Mfa!Opens(t, c, to),
         to = "decides" => entryOf[c].tries < MaxAttempts
  PROVE  MfaInv'
  <1> USE DEF MfaInv, Mfa!TypeOK, Mfa!Opens, Mfa!Goes, Mfa!cache, Mfa!told
  <1>1. Mfa!TypeOK'
    OBVIOUS
  <1>2. VerifiesSound'
    BY DEF VerifiesSound, ChallengesSound, Open
  <1>3. ChallengesSound'
    BY DEF ChallengesSound, Counted, Open
  <1> QED BY <1>1, <1>2, <1>3

(* It compares what it has read with what it was told. *)
LEMMA DecidesKeeps ==
  ASSUME MfaInv, NEW t \in Task, Mfa!Decides(t)
  PROVE  MfaInv'
  <1> USE DEF MfaInv, Mfa!TypeOK, Mfa!Decides, Mfa!Goes, Mfa!cache, Mfa!told
  <1>1. Mfa!TypeOK'
    OBVIOUS
  <1>2. VerifiesSound'
    BY DEF VerifiesSound, Open
  <1>3. ChallengesSound'
    BY DEF ChallengesSound, Counted, Open
  <1> QED BY <1>1, <1>2, <1>3

(* A call fails, and has written what it has written. *)
LEMMA MfaFailsKeeps ==
  ASSUME MfaInv, NEW t \in Task, Mfa!Fails(t)
  PROVE  MfaInv'
  <1> USE DEF MfaInv, Mfa!TypeOK, Mfa!Fails, Mfa!Finishes, Mfa!Goes, Mfa!cache, Mfa!told
  <1>1. Mfa!TypeOK'
    BY DEF Mfa!Entries
  <1>2. VerifiesSound'
    BY DEF VerifiesSound, Open
  <1>3. ChallengesSound'
    BY DEF ChallengesSound, Counted, Open
  <1> QED BY <1>1, <1>2, <1>3

(* A challenge that is created is new (create_mfa_challenge). *)
LEMMA CreatesKeeps ==
  ASSUME Mfa!ChallengeAssumption, MfaInv, NEW c \in Challenge, Mfa!Creates(c)
  PROVE  MfaInv'
  <1> USE ConfiguredNumbers DEF MfaInv, Mfa!TypeOK, Mfa!Creates, Mfa!tasks, Mfa!told
  <1> DEFINE new == [status |-> "pending", tries |-> 0]
  <1>1. new \in Ent /\ new.status = "pending" /\ new.tries = 0 /\ new # None
    BY DEF Ent
  <1>2. entryOf' = [entryOf EXCEPT ![c] = new]
    OBVIOUS
  <1> HIDE DEF new
  <1>6. /\ entryOf' \in [Challenge -> Mfa!Entries] /\ minutes' \in [Challenge -> 0..Life]
        /\ age' \in [Challenge -> 0..Mfa!Oldest \cup {None}]
    BY <1>1, <1>2
  <1>3. Mfa!TypeOK'
    BY <1>1, <1>2, <1>6
  <1>4. VerifiesSound'
    BY DEF VerifiesSound, Open
  <1>7. age[c] = None /\ age'[c] = 0 /\ minutes'[c] = Life /\ entryOf'[c] = new
    BY <1>2
  <1>8. Counted(c)'
    <2>1. wrong[c] = 0 /\ passed[c] = 0
      BY <1>7 DEF ChallengesSound
    <2>2. KeptFor * 0 = 0
      BY <1>1
    <2> QED BY <1>1, <1>7, <2>1, <2>2 DEF Counted, Open
  <1>9. \A d \in Challenge \ {c} : age'[d] = age[d] /\ minutes'[d] = minutes[d] /\ entryOf'[d] = entryOf[d]
    BY <1>2
  <1>5. ChallengesSound'
    <2>1. \A d \in Challenge \ {c} : Counted(d)' <=> Counted(d)
      BY <1>9 DEF Counted, Open
    <2> QED BY <1>7, <1>8, <1>9, <2>1 DEF ChallengesSound
  <1> QED BY <1>3, <1>4, <1>5

(* A verification that ends writes an answer over what it has read. *)
LEMMA WritesKeep ==
  ASSUME Mfa!ChallengeAssumption, MfaInv, NEW t \in Task, NEW c \in Challenge, c = mfaAbout[t],
         NEW from \in {"stores", "marks"}, Mfa!Finishes(t, from),
         NEW e \in Ent, NEW m \in {KeptFor, Life}, Mfa!Writes(t, c, e, m),
         wrong' \in [Challenge -> Nat], passed' \in [Challenge -> Nat],
         \A d \in Challenge \ {c} : wrong'[d] = wrong[d] /\ passed'[d] = passed[d],
         c \notin crossed' => Counted(c)'
  PROVE  MfaInv'
  <1> USE ConfiguredNumbers DEF MfaInv, Mfa!Finishes, Mfa!Writes, Mfa!Goes
  <1>1. age[c] # None /\ e # None /\ m # 0 /\ m \in 0..Life
    <2>1. mfaAt[t] # "idle"
      OBVIOUS
    <2>2. KeptFor # 0 /\ Life # 0 /\ KeptFor \in 0..Life /\ Life \in 0..Life
      BY ConfiguredNumbers
    <2> QED BY <2>1, <2>2 DEF VerifiesSound
  <1>2. Mfa!TypeOK'
    BY <1>1 DEF Mfa!TypeOK
  <1>3. VerifiesSound'
    BY DEF VerifiesSound, Open, Mfa!TypeOK
  <1>4. ASSUME NEW d \in Challenge, d # c PROVE Counted(d)' <=> Counted(d)
    BY <1>4 DEF Counted, Open, Mfa!TypeOK
  <1>5. crossed \subseteq crossed' /\ \A d \in Challenge \ {c} : entryOf'[d] = entryOf[d]
    BY DEF Mfa!TypeOK
  <1>6. ChallengesSound'
    BY <1>1, <1>4, <1>5 DEF ChallengesSound
  <1> QED BY <1>2, <1>3, <1>6

(* A wrong answer is stored, and the entry lasts longer for it. *)
LEMMA StoresKeep ==
  ASSUME Mfa!ChallengeAssumption, MfaInv, NEW t \in Task, Mfa!Stores(t)
  PROVE  MfaInv'
  <1>1. PICK c \in Challenge : /\ c = mfaAbout[t]
                               /\ Open(mfaSeen[t]) /\ mfaSeen[t].tries < MaxAttempts
                               /\ mfaSeen[t] \in Ent
    <2>1. mfaAt[t] = "stores"
      BY DEF Mfa!Stores, Mfa!Finishes, Mfa!Goes
    <2> QED BY <2>1, ConfiguredNumbers DEF MfaInv, VerifiesSound, Mfa!TypeOK, Open
  <1>2. PICK e \in Ent :
          /\ e = IF right[t] THEN [mfaSeen[t] EXCEPT !.status = "verified"]
                 ELSE [mfaSeen[t] EXCEPT !.tries = @ + 1]
          /\ e.tries = mfaSeen[t].tries + (IF right[t] THEN 0 ELSE 1)
          /\ e.status = IF right[t] THEN "verified" ELSE "pending"
    <2> DEFINE f == IF right[t] THEN [mfaSeen[t] EXCEPT !.status = "verified"]
                    ELSE [mfaSeen[t] EXCEPT !.tries = @ + 1]
    <2>1. /\ f \in Ent /\ f.tries = mfaSeen[t].tries + (IF right[t] THEN 0 ELSE 1)
          /\ f.status = IF right[t] THEN "verified" ELSE "pending"
      BY <1>1, ConfiguredNumbers DEF Ent, Open
    <2> QED BY <2>1
  <1>3. Mfa!Finishes(t, "stores") /\ Mfa!Writes(t, c, e, KeptFor)
    BY <1>1, <1>2 DEF Mfa!Stores
  <1>4. /\ wrong' = IF right[t] THEN wrong ELSE [wrong EXCEPT ![c] = Mfa!Counts(@, MaxAttempts + 1)]
        /\ passed' = IF right[t] THEN [passed EXCEPT ![c] = Mfa!Counts(@, 2)] ELSE passed
    BY <1>1 DEF Mfa!Stores
  <1>5. /\ wrong' \in [Challenge -> Nat] /\ passed' \in [Challenge -> Nat]
        /\ \A d \in Challenge \ {c} : wrong'[d] = wrong[d] /\ passed'[d] = passed[d]
    BY <1>1, <1>4 DEF MfaInv, Mfa!Counts
  <1>6. ASSUME c \notin crossed' PROVE Counted(c)'
    <2>1. c \notin crossed /\ entryOf[c] = mfaSeen[t] /\ entryOf'[c] = e /\ minutes'[c] = KeptFor /\ age' = age
      BY <1>1, <1>3, <1>6 DEF Mfa!Writes, MfaInv, Mfa!TypeOK
    <2>2. /\ wrong[c] = entryOf[c].tries /\ passed[c] = 0
          /\ age[c] + minutes[c] <= Life + KeptFor * entryOf[c].tries
      <3>1. Counted(c) /\ Open(entryOf[c])
        BY <1>1, <2>1 DEF MfaInv, ChallengesSound
      <3>2. passed[c] \in Nat
        BY <1>1 DEF MfaInv
      <3> QED BY <3>1, <3>2 DEF Counted, Open
    <2>3. CASE right[t]
      BY <1>1, <1>2, <1>4, <2>1, <2>2, <2>3, ConfiguredNumbers DEF Counted, Open, Mfa!Counts, MfaInv, Ent
    <2>4. CASE ~ right[t]
      <3>1. wrong'[c] = e.tries /\ passed'[c] = 0 /\ e.tries = entryOf[c].tries + 1 /\ e.tries <= MaxAttempts
            /\ entryOf[c].tries \in Nat
        BY <1>1, <1>2, <1>4, <2>1, <2>2, <2>4, ConfiguredNumbers DEF Mfa!Counts, MfaInv, Ent
      <3>2. KeptFor * e.tries = KeptFor * entryOf[c].tries + KeptFor /\ KeptFor * entryOf[c].tries \in Nat
        BY <3>1, KeptLonger
      <3>3. age[c] \in Nat /\ minutes[c] \in Nat
        <4>1. age[c] # None
          BY <1>3, <1>1 DEF MfaInv, VerifiesSound, Mfa!Finishes, Mfa!Goes
        <4> QED BY <1>1, <4>1, ConfiguredNumbers DEF MfaInv, Mfa!TypeOK
      <3>4. age'[c] + minutes'[c] <= Life + KeptFor * e.tries
        BY <2>1, <2>2, <3>2, <3>3, ConfiguredNumbers
      <3> QED BY <2>1, <3>1, <3>4, ConfiguredNumbers DEF Counted
    <2> QED BY <2>3, <2>4
  <1> QED BY <1>1, <1>2, <1>3, <1>5, <1>6, WritesKeep

(* A right answer is stored. *)
LEMMA MarksKeep ==
  ASSUME Mfa!ChallengeAssumption, MfaInv, NEW t \in Task, Mfa!Marks(t)
  PROVE  MfaInv'
  <1>1. PICK c \in Challenge : c = mfaAbout[t] /\ Open(mfaSeen[t]) /\ mfaSeen[t] \in Ent
    <2>1. mfaAt[t] = "marks"
      BY DEF Mfa!Marks, Mfa!Finishes, Mfa!Goes
    <2> QED BY <2>1, ConfiguredNumbers DEF MfaInv, VerifiesSound, Mfa!TypeOK, Open
  <1>2. PICK e \in Ent : e = [mfaSeen[t] EXCEPT !.status = "failed"] /\ e.status = "failed"
    <2>1. [mfaSeen[t] EXCEPT !.status = "failed"] \in Ent /\ [mfaSeen[t] EXCEPT !.status = "failed"].status = "failed"
      BY <1>1 DEF Ent
    <2> QED BY <2>1
  <1>3. Mfa!Finishes(t, "marks") /\ Mfa!Writes(t, c, e, Life) /\ UNCHANGED <<wrong, passed>>
    BY <1>1, <1>2 DEF Mfa!Marks
  <1>4. ASSUME c \notin crossed' PROVE Counted(c)'
    <2>1. c \notin crossed /\ entryOf[c] = mfaSeen[t] /\ entryOf'[c] = e
      BY <1>1, <1>3, <1>4 DEF Mfa!Writes, MfaInv, Mfa!TypeOK
    <2>2. Counted(c) /\ passed[c] # 1
      BY <1>1, <2>1 DEF MfaInv, ChallengesSound, Counted, Open
    <2> QED BY <1>2, <1>3, <2>1, <2>2 DEF Counted, Open
  <1>5. /\ wrong' \in [Challenge -> Nat] /\ passed' \in [Challenge -> Nat]
        /\ \A d \in Challenge \ {c} : wrong'[d] = wrong[d] /\ passed'[d] = passed[d]
    BY <1>3 DEF MfaInv
  <1> QED BY <1>1, <1>2, <1>3, <1>4, <1>5, WritesKeep

(* The clock: the age of a challenge and the life of its entry go together. *)
LEMMA MinutesKeep ==
  ASSUME Mfa!ChallengeAssumption, MfaInv, Mfa!Tick
  PROVE  MfaInv'
  <1> USE ConfiguredNumbers
  <1>1. UNCHANGED <<mfaAt, mfaAbout, mfaSeen, right, wrong, passed, crossed>>
    BY DEF Mfa!Tick, Mfa!tasks, Mfa!told
  <1>2. \A c \in Challenge :
          /\ minutes[c] = 0 => entryOf[c] = None /\ minutes'[c] = 0 /\ entryOf'[c] = None /\ age'[c] = age[c]
          /\ minutes[c] # 0 => /\ entryOf[c] # None /\ age[c] # None /\ minutes'[c] = minutes[c] - 1
                               /\ age[c] \in Nat /\ minutes[c] \in Nat
                               /\ age'[c] \in 0..Mfa!Oldest /\ age'[c] <= age[c] + 1
                               /\ entryOf'[c] = IF minutes[c] = 1 THEN None ELSE entryOf[c]
    BY DEF MfaInv, Mfa!TypeOK, ChallengesSound, Mfa!Tick, Mfa!Counts
  <1>3. Mfa!TypeOK'
    <2>1. /\ minutes' = [c \in Challenge |-> minutes'[c]] /\ age' = [c \in Challenge |-> age'[c]]
          /\ entryOf' = [c \in Challenge |-> entryOf'[c]]
      BY DEF Mfa!Tick
    <2>2. \A c \in Challenge : minutes[c] \in 0..Life /\ entryOf[c] \in Mfa!Entries
                               /\ age[c] \in 0..Mfa!Oldest \cup {None}
      BY DEF MfaInv, Mfa!TypeOK
    <2>3. \A c \in Challenge : minutes'[c] \in 0..Life /\ entryOf'[c] \in Mfa!Entries
                               /\ age'[c] \in 0..Mfa!Oldest \cup {None}
                               /\ (entryOf'[c] = None <=> minutes'[c] = 0)
      BY <1>2, <2>2
    <2> QED BY <1>1, <2>1, <2>3 DEF MfaInv, Mfa!TypeOK
  <1>4. VerifiesSound'
    <2>1. \A c \in Challenge : age[c] # None => age'[c] # None
      BY <1>2
    <2> QED BY <1>1, <2>1 DEF MfaInv, VerifiesSound, Open
  <1>5. ASSUME NEW c \in Challenge, Counted(c) PROVE Counted(c)'
    <2>1. CASE minutes[c] = 0
      BY <1>1, <1>2, <1>5, <2>1 DEF Counted, Open
    <2>2. CASE minutes[c] # 0
      <3>1. entryOf'[c] # None => entryOf'[c] = entryOf[c]
        BY <1>2, <2>2
      <3>2. age'[c] \in Nat /\ age'[c] + minutes'[c] <= age[c] + minutes[c]
        BY <1>2, <2>2
      <3>3. entryOf[c] # None => KeptFor * entryOf[c].tries \in Nat
        BY KeptLonger, ConfiguredNumbers DEF MfaInv, Mfa!TypeOK, Ent
      <3> QED BY <1>1, <1>2, <1>5, <2>2, <3>1, <3>2, <3>3 DEF Counted, Open
    <2> QED BY <2>1, <2>2
  <1>6. ChallengesSound'
    BY <1>1, <1>2, <1>5 DEF MfaInv, ChallengesSound
  <1> QED BY <1>1, <1>3, <1>4, <1>6 DEF MfaInv

(* Every step keeps the invariant of the challenges. *)
LEMMA NextKeepsChallenges ==
  ASSUME Mfa!ChallengeAssumption, MfaInv, [Mfa!Next]_Mfa!vars
  PROVE  MfaInv'
  <1>1. CASE UNCHANGED Mfa!vars
    BY <1>1 DEF Mfa!vars, Mfa!cache, Mfa!tasks, Mfa!told, MfaInv, Mfa!TypeOK, VerifiesSound, ChallengesSound, Counted, Open
  <1>2. ASSUME NEW c \in Challenge, NEW t \in Task, Mfa!Reads(t, c) \/ Mfa!GivesUp(t, c)
        PROVE  MfaInv'
    BY <1>2, ReadsKeep DEF Mfa!Reads, Mfa!GivesUp
  <1> QED BY <1>1, <1>2, MinutesKeep, CreatesKeeps, DecidesKeeps, StoresKeep, MarksKeep, MfaFailsKeeps DEF Mfa!Next

(* For any challenges and limits, and any order of the calls: a challenge   *)
(* whose verifications neither overlapped nor outlasted its entry is passed *)
(* once and tells MaxAttempts wrong answers at most, and lasts no longer    *)
(* than its wrong answers made it (verify_mfa_challenge).                   *)
THEOREM ChallengesHold ==
  ASSUME Mfa!ChallengeAssumption
  PROVE  Mfa!Spec => [](Mfa!TypeOK /\ Mfa!AnswersCount /\ Mfa!LastsSoLong)
  <1>1. Mfa!Init => MfaInv
    BY ConfiguredNumbers DEF Mfa!Init, MfaInv, Mfa!TypeOK, VerifiesSound, ChallengesSound, Counted, Open
  <1>2. MfaInv /\ [Mfa!Next]_Mfa!vars => MfaInv'
    BY NextKeepsChallenges
  <1>3. MfaInv => Mfa!AnswersCount /\ Mfa!LastsSoLong
    <2> SUFFICES ASSUME MfaInv, NEW c \in Challenge, c \notin crossed
                 PROVE  /\ wrong[c] <= MaxAttempts /\ passed[c] <= 1
                        /\ passed[c] = 1 /\ entryOf[c] # None => entryOf[c].status = "verified"
                        /\ entryOf[c] # None /\ entryOf[c].status = "pending" =>
                             age[c] <= Life + KeptFor * entryOf[c].tries
      BY DEF Mfa!AnswersCount, Mfa!LastsSoLong
    <2>1. Counted(c)
      BY DEF MfaInv, ChallengesSound
    <2>2. ASSUME entryOf[c] # None PROVE age[c] \in Nat /\ minutes[c] \in Nat /\ entryOf[c].tries \in Nat
      BY <2>2, ConfiguredNumbers DEF MfaInv, ChallengesSound, Mfa!TypeOK, Ent
    <2>3. ASSUME entryOf[c] # None, entryOf[c].status = "pending" PROVE age[c] <= Life + KeptFor * entryOf[c].tries
      <3>1. KeptFor * entryOf[c].tries \in Nat /\ Life \in Nat
        BY <2>2, <2>3, KeptLonger, ConfiguredNumbers
      <3>2. age[c] + minutes[c] <= Life + KeptFor * entryOf[c].tries
        BY <2>1, <2>3 DEF Counted, Open
      <3> DEFINE more == KeptFor * entryOf[c].tries
      <3> HIDE DEF more
      <3>3. more \in Nat /\ age[c] + minutes[c] <= Life + more
        BY <3>1, <3>2 DEF more
      <3>4. age[c] <= Life + more
        BY <2>2, <2>3, <3>1, <3>3
      <3> QED BY <3>4 DEF more
    <2> QED BY <2>1, <2>3 DEF Counted
  <1> QED BY <1>1, <1>2, <1>3, PTL DEF Mfa!Spec, MfaInv

-----------------------------------------------------------------------------
(* Recovery codes (RecoveryCodes). *)

(* A list that no call has stored yet: it is still to be handed out, or is  *)
(* the one of a setup that is pending or being confirmed.                   *)
Unstored(b) ==
  \/ b \notin issued
  \/ /\ b \notin active
     /\ setup = b \/ \E t \in Task : codeAt[t] = "activates" /\ key[t] = b

CallsSound == \A t \in Task :
  /\ codeAt[t] = "reads" => key[t] \in Recovery!Recovery
  /\ codeAt[t] = "spends" => key[t] \in hand[t]
  /\ codeAt[t] = "activates" => key[t] \in issued

NewListsUnused == \A b \in Batch : Unstored(b) =>
  \A n \in Code : /\ used[<<b, n>>] = 0 /\ <<b, n>> \notin codes
                  /\ \A t \in Task : <<b, n>> \notin hand[t]

SpentAreGone == ~ blurred => \A k \in codes : used[k] = 0

CodesInv ==
  /\ Recovery!TypeOK /\ Recovery!CodesOnce
  /\ setup \in issued \cup {None}
  /\ CallsSound /\ NewListsUnused /\ SpentAreGone

(* Every step of a setup, a confirmation and a verification keeps it. *)
LEMMA NextKeepsCodes ==
  ASSUME None \notin Batch, CodesInv, [Recovery!Next]_Recovery!vars
  PROVE  CodesInv'
  <1> USE DEF CodesInv, Recovery!TypeOK, Recovery!CodesOnce, CallsSound, NewListsUnused, SpentAreGone,
              Unstored, Recovery!Recovery, Recovery!ListOf, Recovery!Goes, Recovery!Finishes
  <1>1. CASE Recovery!SetsUp
    <2>1. Recovery!TypeOK'
      BY <1>1 DEF Recovery!SetsUp
    <2>2. (setup \in issued \cup {None})' /\ CallsSound'
      BY <1>1 DEF Recovery!SetsUp
    <2>3. NewListsUnused'
      <3>1. \A b \in Batch : Unstored(b)' => Unstored(b)
        <4>1. PICK new \in Batch \ issued : setup' = new /\ issued' = issued \cup {new}
                                            /\ UNCHANGED <<active, codeAt, key>>
          BY <1>1 DEF Recovery!SetsUp
        <4> QED BY ONLY <4>1 DEF Unstored
      <3> QED BY <1>1, <3>1 DEF Recovery!SetsUp
    <2>4. Recovery!CodesOnce' /\ SpentAreGone'
      BY <1>1 DEF Recovery!SetsUp
    <2> QED BY <2>1, <2>2, <2>3, <2>4
  <1>2. CASE Recovery!Expires
    BY <1>2 DEF Recovery!Expires
  <1>3. CASE Recovery!Regenerates
    <2>1. Recovery!TypeOK'
      BY <1>3 DEF Recovery!Regenerates
    <2>2. (setup \in issued \cup {None})' /\ CallsSound'
      BY <1>3 DEF Recovery!Regenerates
    <2>3. NewListsUnused'
      BY <1>3 DEF Recovery!Regenerates
    <2>4. Recovery!CodesOnce' /\ SpentAreGone'
      <3>1. PICK b \in Batch : b \notin issued /\ codes' = {b} \X Code /\ UNCHANGED <<used, blurred>>
        BY <1>3 DEF Recovery!Regenerates
      <3>2. \A k \in codes' : \E n \in Code : k = <<b, n>>
        BY <3>1
      <3>3. Unstored(b)
        BY <3>1
      <3>4. \A n \in Code : used[<<b, n>>] = 0
        BY <3>3, NewListsUnused
      <3> QED BY <3>1, <3>2, <3>4
    <2> QED BY <2>1, <2>2, <2>3, <2>4
  <1>4. ASSUME NEW t \in Task, Recovery!Given(t) PROVE CodesInv'
    <2>1. Recovery!TypeOK'
      BY <1>4 DEF Recovery!Given
    <2>2. (setup \in issued \cup {None})' /\ CallsSound'
      BY <1>4 DEF Recovery!Given
    <2>3. NewListsUnused'
      BY <1>4 DEF Recovery!Given
    <2>4. Recovery!CodesOnce' /\ SpentAreGone'
      BY <1>4 DEF Recovery!Given
    <2> QED BY <2>1, <2>2, <2>3, <2>4
  <1>5. ASSUME NEW t \in Task, Recovery!Reads(t) PROVE CodesInv'
    <2>1. Recovery!TypeOK'
      BY <1>5 DEF Recovery!Reads
    <2>2. (setup \in issued \cup {None})' /\ CallsSound'
      BY <1>5 DEF Recovery!Reads
    <2>3. NewListsUnused'
      BY <1>5 DEF Recovery!Reads
    <2>4. Recovery!CodesOnce' /\ SpentAreGone'
      BY <1>5 DEF Recovery!Reads
    <2> QED BY <2>1, <2>2, <2>3, <2>4
  <1>6. ASSUME NEW t \in Task, Recovery!Rejects(t) PROVE CodesInv'
    BY <1>6 DEF Recovery!Rejects
  <1>7. ASSUME NEW t \in Task, Recovery!Spends(t) PROVE CodesInv'
    <2>1. Recovery!TypeOK'
      BY <1>7 DEF Recovery!Spends
    <2>2. (setup \in issued \cup {None})' /\ CallsSound'
      BY <1>7 DEF Recovery!Spends
    <2>3. NewListsUnused'
      BY <1>7 DEF Recovery!Spends
    <2>4. Recovery!CodesOnce' /\ SpentAreGone'
      <3> SUFFICES ASSUME ~ blurred' PROVE \A k \in Recovery!Recovery : used'[k] <= 1 /\ (k \in codes' => used'[k] = 0)
        BY <2>1
      <3>1. ~ blurred /\ codes = hand[t] /\ key[t] \in codes /\ codes' = codes \ {key[t]}
        BY <1>7 DEF Recovery!Spends
      <3>2. used[key[t]] = 0 /\ key[t] \in Recovery!Recovery
        BY <3>1
      <3>3. used' = [used EXCEPT ![key[t]] = 1]
        BY <1>7, <3>2 DEF Recovery!Spends
      <3> HIDE DEF Recovery!Recovery
      <3>4. used \in [Recovery!Recovery -> 0..2] /\ codes \subseteq Recovery!Recovery
        OBVIOUS
      <3> QED BY <3>1, <3>2, <3>3, <3>4
    <2> QED BY <2>1, <2>2, <2>3, <2>4
  <1>8. ASSUME NEW t \in Task, Recovery!Confirms(t) PROVE CodesInv'
    <2>1. Recovery!TypeOK'
      BY <1>8 DEF Recovery!Confirms
    <2>2. (setup \in issued \cup {None})' /\ CallsSound'
      BY <1>8 DEF Recovery!Confirms
    <2>3. NewListsUnused'
      BY <1>8 DEF Recovery!Confirms
    <2>4. Recovery!CodesOnce' /\ SpentAreGone'
      BY <1>8 DEF Recovery!Confirms
    <2> QED BY <2>1, <2>2, <2>3, <2>4
  <1>9. ASSUME NEW t \in Task, Recovery!Activates(t) PROVE CodesInv'
    <2>1. Recovery!TypeOK'
      BY <1>9 DEF Recovery!Activates
    <2>2. (setup \in issued \cup {None})' /\ CallsSound'
      BY <1>9 DEF Recovery!Activates
    <2>3. NewListsUnused'
      BY <1>9 DEF Recovery!Activates
    <2>4. Recovery!CodesOnce' /\ SpentAreGone'
      <3>1. /\ key[t] \in issued /\ codes' = {key[t]} \X Code /\ UNCHANGED used
            /\ ~ blurred' => ~ blurred /\ Unstored(key[t])
        BY <1>9 DEF Recovery!Activates
      <3>2. \A k \in codes' : \E n \in Code : k = <<key[t], n>>
        BY <3>1
      <3>3. Unstored(key[t]) => \A n \in Code : used[<<key[t], n>>] = 0
        BY <3>1
      <3> HIDE DEF Unstored
      <3> QED BY <3>1, <3>2, <3>3
    <2> QED BY <2>1, <2>2, <2>3, <2>4
  <1>10. ASSUME NEW t \in Task, Recovery!Drops(t) PROVE CodesInv'
    BY <1>10 DEF Recovery!Drops
  <1>11. ASSUME NEW t \in Task, Recovery!Fails(t) PROVE CodesInv'
    BY <1>11 DEF Recovery!Fails
  <1>12. CASE UNCHANGED Recovery!vars
    BY <1>12 DEF Recovery!vars
  <1> HIDE DEF CodesInv
  <1> QED BY <1>1, <1>2, <1>3, <1>4, <1>5, <1>6, <1>7, <1>8, <1>9, <1>10, <1>11, <1>12 DEF Recovery!Next

(* For any lists of codes and any order of the calls: a code is accepted    *)
(* once at most, unless a list was written over a newer one or one setup    *)
(* was confirmed twice (_verify_recovery_code, verify_totp_setup).          *)
THEOREM CodesAreSpentOnce ==
  ASSUME Recovery!ListsAssumption
  PROVE  Recovery!Spec => [](Recovery!TypeOK /\ Recovery!CodesOnce)
  <1>1. Recovery!Init => CodesInv
    <2> SUFFICES ASSUME Recovery!Init PROVE CodesInv
      OBVIOUS
    <2>1. PICK b \in Batch : codes = {b} \X Code /\ issued = {b} /\ active = {b}
      BY DEF Recovery!Init, Recovery!ListOf
    <2>2. /\ setup = None /\ used = [k \in Recovery!Recovery |-> 0] /\ blurred = FALSE
          /\ codeAt = [t \in Task |-> "idle"] /\ key = [t \in Task |-> None] /\ hand = [t \in Task |-> {}]
      BY DEF Recovery!Init
    <2>3. Recovery!TypeOK
      <3>1. codes \subseteq Recovery!Recovery
        BY <2>1 DEF Recovery!Recovery
      <3>2. used \in [Recovery!Recovery -> 0..2]
        BY <2>2
      <3>3. hand \in [Task -> SUBSET Recovery!Recovery]
        BY <2>2
      <3> QED BY <2>1, <2>2, <3>1, <3>2, <3>3 DEF Recovery!TypeOK
    <2>4. \A c \in Batch : Unstored(c) => c # b
      BY <2>1, <2>2 DEF Unstored
    <2>5. NewListsUnused
      BY <2>1, <2>2, <2>4 DEF NewListsUnused, Recovery!Recovery
    <2>6. \A k \in Recovery!Recovery : used[k] = 0
      BY <2>2
    <2>7. codes \subseteq Recovery!Recovery
      BY <2>1 DEF Recovery!Recovery
    <2> QED BY <2>2, <2>3, <2>5, <2>6, <2>7 DEF CodesInv, Recovery!CodesOnce, CallsSound, SpentAreGone
  <1>2. CodesInv /\ [Recovery!Next]_Recovery!vars => CodesInv'
    BY NextKeepsCodes DEF Recovery!ListsAssumption
  <1> QED BY <1>1, <1>2, PTL DEF Recovery!Spec, CodesInv

-----------------------------------------------------------------------------
(* The templates of biometrics (Biometrics). *)

Once(s) == \A i, j \in DOMAIN s : s[i] = s[j] => i = j

(* The lists without one of their templates, and with one more. *)
LEMMA WithoutOne ==
  ASSUME NEW S, NEW s \in Seq(S), Once(s), NEW x
  PROVE  /\ Bio!Without(s, x) \in Seq(S) /\ Once(Bio!Without(s, x))
         /\ Len(Bio!Without(s, x)) <= Len(s)
         /\ Bio!Listed(Bio!Without(s, x)) = Bio!Listed(s) \ {x}
  <1> DEFINE w == Bio!Without(s, x)
  <1>1. CASE x \notin Bio!Listed(s)
    <2>1. w = s
      BY <1>1 DEF Bio!Without
    <2> QED BY <1>1, <2>1
  <1>2. CASE x \in Bio!Listed(s)
    <2>1. PICK k \in DOMAIN s : s[k] = x /\ w = SubSeq(s, 1, k - 1) \o SubSeq(s, k + 1, Len(s))
      BY <1>2 DEF Bio!Without, Bio!Listed
    <2>2. k \in 1..Len(s)
      BY <2>1
    <2> HIDE DEF w
    <2> DEFINE l == SubSeq(s, 1, k - 1)
               r == SubSeq(s, k + 1, Len(s))
    <2>3. l \in Seq(S) /\ Len(l) = k - 1 /\ \A i \in 1..(k - 1) : l[i] = s[i]
      BY <2>2
    <2>4. r \in Seq(S) /\ Len(r) = Len(s) - k /\ \A i \in 1..(Len(s) - k) : r[i] = s[k + i]
      BY <2>2
    <2> HIDE DEF l, r
    <2>5. /\ w \in Seq(S) /\ Len(w) = Len(s) - 1
          /\ \A i \in 1..(Len(l) + Len(r)) : w[i] = IF i <= Len(l) THEN l[i] ELSE r[i - Len(l)]
      <3>1. w = l \o r
        BY <2>1 DEF l, r
      <3>2. Len(l) + Len(r) = Len(s) - 1
        BY <2>2, <2>3, <2>4
      <3> QED BY <2>3, <2>4, <3>1, <3>2, ConcatProperties
    <2> DEFINE was(i) == IF i < k THEN i ELSE i + 1
    <2>6. DOMAIN w = 1..(Len(s) - 1) /\ DOMAIN s = 1..Len(s)
      BY <2>5
    <2>7. ASSUME NEW i \in DOMAIN w PROVE was(i) \in DOMAIN s /\ was(i) # k /\ w[i] = s[was(i)]
      <3>1. i \in 1..(Len(s) - 1) /\ i \in 1..(Len(l) + Len(r))
        BY <2>2, <2>3, <2>4, <2>6, <2>7
      <3>2. CASE i < k
        BY <2>2, <2>3, <2>5, <2>6, <3>1, <3>2
      <3>3. CASE ~ (i < k)
        <4>1. i - (k - 1) \in 1..(Len(s) - k) /\ k + (i - (k - 1)) = i + 1
          BY <2>2, <3>1, <3>3
        <4>2. w[i] = r[i - (k - 1)]
          BY <2>2, <2>3, <2>5, <3>1, <3>3
        <4>3. r[i - (k - 1)] = s[k + (i - (k - 1))]
          BY <2>4, <4>1
        <4>4. w[i] = s[i + 1]
          BY <4>1, <4>2, <4>3
        <4>5. was(i) = i + 1
          BY <3>3
        <4>6. i + 1 \in DOMAIN s /\ i + 1 # k
          BY <2>2, <2>6, <3>1, <3>3
        <4> QED BY <4>4, <4>5, <4>6
      <3> HIDE DEF was
      <3> QED BY <3>2, <3>3
    <2>8. Once(w)
      <3> SUFFICES ASSUME NEW i \in DOMAIN w, NEW j \in DOMAIN w, w[i] = w[j] PROVE i = j
        BY DEF Once
      <3>1. was(i) = was(j)
        BY <2>7 DEF Once
      <3> QED BY <2>2, <2>6, <3>1
    <2>9. Bio!Listed(w) = Bio!Listed(s) \ {x}
      <3>1. ASSUME NEW i \in DOMAIN w PROVE w[i] \in Bio!Listed(s) \ {x}
        BY <2>1, <2>7 DEF Bio!Listed, Once
      <3>2. ASSUME NEW i \in DOMAIN s, s[i] # x PROVE \E j \in DOMAIN w : w[j] = s[i]
        <4>1. CASE i < k
          BY <2>2, <2>6, <2>7, <4>1
        <4>2. CASE ~ (i < k)
          <5>1. i - 1 \in DOMAIN w /\ was(i - 1) = i
            BY <2>1, <2>2, <2>6, <3>2, <4>2
          <5> QED BY <2>7, <5>1
        <4> QED BY <4>1, <4>2
      <3> QED BY <3>1, <3>2 DEF Bio!Listed
    <2> QED BY <2>2, <2>5, <2>8, <2>9 DEF w
  <1> QED BY <1>1, <1>2

LEMMA OneMore ==
  ASSUME NEW S, NEW s \in Seq(S), Once(s), NEW x \in S, x \notin Bio!Listed(s),
         MaxTemplates \in Nat \ {0}, Len(s) <= MaxTemplates
  PROVE  LET w == Append(Bio!Kept(s), x)
         IN  /\ w \in Seq(S) /\ Once(w) /\ Len(w) <= MaxTemplates
             /\ Bio!Listed(w) = {x} \cup (IF Len(s) < MaxTemplates THEN Bio!Listed(s)
                                          ELSE Bio!Listed(s) \ {Head(s)})
  <1> DEFINE u == Bio!Kept(s)
             w == Append(u, x)
  <1>1. /\ u \in Seq(S) /\ Once(u) /\ Len(u) < MaxTemplates
        /\ Bio!Listed(u) = IF Len(s) < MaxTemplates THEN Bio!Listed(s) ELSE Bio!Listed(s) \ {Head(s)}
    <2>1. CASE Len(s) < MaxTemplates
      BY <2>1 DEF Bio!Kept
    <2>2. CASE ~ (Len(s) < MaxTemplates)
      <3>1. Len(s) = MaxTemplates /\ s # << >> /\ u = Tail(s)
        BY <2>2 DEF Bio!Kept
      <3> HIDE DEF u
      <3>2. /\ u \in Seq(S) /\ Len(u) = Len(s) - 1 /\ \A i \in 1..Len(u) : u[i] = s[i + 1]
            /\ Head(s) = s[1]
        BY <3>1
      <3>3. DOMAIN u = 1..(Len(s) - 1) /\ DOMAIN s = 1..Len(s) /\ Len(s) \in Nat \ {0}
        BY <3>1, <3>2
      <3>4. Once(u)
        <4> SUFFICES ASSUME NEW i \in DOMAIN u, NEW j \in DOMAIN u, u[i] = u[j] PROVE i = j
          BY DEF Once
        <4>1. s[i + 1] = s[j + 1] /\ i + 1 \in DOMAIN s /\ j + 1 \in DOMAIN s
          BY <3>2, <3>3
        <4>2. i + 1 = j + 1
          BY <4>1 DEF Once
        <4> QED BY <3>3, <4>2
      <3>5. ASSUME NEW i \in DOMAIN u PROVE u[i] \in Bio!Listed(s) \ {s[1]}
        <4>1. i + 1 \in DOMAIN s /\ 1 \in DOMAIN s /\ i + 1 # 1
          BY <3>3
        <4> QED BY <3>2, <3>3, <4>1 DEF Bio!Listed, Once
      <3>6. ASSUME NEW i \in DOMAIN s, s[i] # s[1] PROVE \E j \in DOMAIN u : u[j] = s[i]
        <4>1. i - 1 \in DOMAIN u /\ (i - 1) + 1 = i
          BY <3>3, <3>6
        <4> QED BY <3>2, <3>3, <4>1
      <3>7. Bio!Listed(u) = Bio!Listed(s) \ {Head(s)}
        BY <3>2, <3>5, <3>6 DEF Bio!Listed
      <3> QED BY <2>2, <3>1, <3>2, <3>4, <3>7
    <2> QED BY <2>1, <2>2
  <1> HIDE DEF u
  <1>2. x \notin Bio!Listed(u)
    BY <1>1
  <1>3. /\ w \in Seq(S) /\ Len(w) = Len(u) + 1 /\ w[Len(u) + 1] = x
        /\ \A i \in 1..Len(u) : w[i] = u[i]
    BY <1>1
  <1> HIDE DEF w
  <1>4. DOMAIN w = 1..(Len(u) + 1) /\ DOMAIN u = 1..Len(u) /\ Len(u) \in Nat
    BY <1>1, <1>3
  <1>5. Once(w)
    BY <1>1, <1>2, <1>3, <1>4 DEF Once, Bio!Listed
  <1>6. Bio!Listed(w) = Bio!Listed(u) \cup {x}
    <2>1. Len(u) + 1 \in DOMAIN w /\ \A i \in DOMAIN u : i \in DOMAIN w /\ w[i] = u[i]
      BY <1>3, <1>4
    <2>2. \A i \in DOMAIN w : i \in DOMAIN u \/ i = Len(u) + 1
      BY <1>4
    <2> QED BY <1>3, <2>1, <2>2 DEF Bio!Listed
  <1>7. Len(w) <= MaxTemplates
    BY <1>1, <1>3, <1>4
  <1> QED BY <1>1, <1>3, <1>5, <1>6, <1>7 DEF w, u

-----------------------------------------------------------------------------
Enrolling == {"lists", "evicts", "appends"}
Leaving   == {"relists", "shrinks"}

BioTyped ==
  /\ record \subseteq born /\ nameable \subseteq born /\ enrolled \subseteq born
  /\ born \subseteq Template
  /\ list \in Seq(born) /\ Len(list) <= MaxTemplates /\ Once(list)
  /\ Bio!Listed(list) \subseteq nameable
  /\ bioAt \in [Task -> {"idle", "counts"} \cup Enrolling \cup Leaving]
  /\ bioAbout \in [Task -> born \cup {None}] /\ bioSeen \in [Task -> Seq(born)]
  /\ removed \subseteq enrolled /\ revived \subseteq nameable /\ torn \in BOOLEAN

(* What a call has read is a list that once was, a full one where it makes  *)
(* room.                                                                    *)
SeenSound(t) ==
  /\ Once(bioSeen[t]) /\ Len(bioSeen[t]) <= MaxTemplates
  /\ Bio!Listed(bioSeen[t]) \subseteq nameable
  /\ bioAt[t] = "evicts" => Len(bioSeen[t]) = MaxTemplates

Enrols(t, x) == bioAt[t] \in Enrolling /\ bioAbout[t] = x
Removes(t, x) == bioAt[t] \in Leaving /\ bioAbout[t] = x
Evicts(t, x) == bioAt[t] = "appends" /\ Len(bioSeen[t]) = MaxTemplates /\ Head(bioSeen[t]) = x

(* A template that is enrolled has a record, and nobody else knows of it;   *)
(* one that is removed or evicted has none, unless a use wrote it back.     *)
CallSound(t) ==
  /\ \A x \in born : Enrols(t, x) =>
       /\ x \in record \ (nameable \cup enrolled)
       /\ \A u \in Task \ {t} : ~ Enrols(u, x)
  /\ \A x \in born : Removes(t, x) => x \in enrolled
  /\ \A x \in born : Removes(t, x) \/ Evicts(t, x) => x \notin record \ revived
  /\ bioAt[t] \in Enrolling \cup Leaving => bioAbout[t] # None
  /\ bioAt[t] = "counts" => bioAbout[t] \in nameable

(* But for the templates that a call is about, record and list agree. *)
AgreeSoFar == ~ torn =>
  /\ removed \cap Bio!Listed(list) = {}
  /\ \A x \in record \ revived : x \in Bio!Listed(list) \/ \E t \in Task : Enrols(t, x)
  /\ \A x \in Bio!Listed(list) \ revived :
       x \in record \/ \E t \in Task : Removes(t, x) \/ Evicts(t, x)

BioInv ==
  /\ BioTyped /\ (\A t \in Task : SeenSound(t)) /\ (\A t \in Task : CallSound(t))
  /\ removed \cap record \subseteq revived
  /\ AgreeSoFar

(* The other calls are where they were. *)
OthersStay(t) == \A u \in Task \ {t} :
  bioAt'[u] = bioAt[u] /\ bioAbout'[u] = bioAbout[u] /\ bioSeen'[u] = bioSeen[u]

(* What holds of a call that is where it was still holds of it. *)
LEMMA OthersAgree ==
  ASSUME NEW t \in Task, OthersStay(t), NEW u \in Task, u # t, NEW x
  PROVE  /\ Enrols(u, x)' <=> Enrols(u, x)
         /\ Removes(u, x)' <=> Removes(u, x)
         /\ Evicts(u, x)' <=> Evicts(u, x)
  BY DEF OthersStay, Enrols, Removes, Evicts

(* A call keeps the invariant if it keeps what is said of itself, takes     *)
(* nothing from the other calls, and lets record and list agree.            *)
LEMMA StepKeeps ==
  ASSUME BioInv, NEW t \in Task, OthersStay(t),
         BioTyped', SeenSound(t)', CallSound(t)',
         born \subseteq born', nameable \subseteq nameable',
         (removed \cap record \subseteq revived)', AgreeSoFar',
         \A x \in born' \ born : \A u \in Task \ {t} : ~ Enrols(u, x) /\ ~ Removes(u, x) /\ ~ Evicts(u, x),
         \A u \in Task \ {t} : \A x \in born :
            /\ Enrols(u, x) => x \in record' \ (nameable' \cup enrolled') /\ ~ Enrols(t, x)'
            /\ Removes(u, x) => x \in enrolled',
         \A x \in record' \ revived' : x \in record \ revived \/ x \notin born
  PROVE  BioInv'
  <1>1. ASSUME NEW u \in Task, u # t PROVE SeenSound(u)'
    BY <1>1 DEF BioInv, SeenSound, OthersStay
  <1>2. ASSUME NEW u \in Task, u # t PROVE CallSound(u)'
    <2>1. CallSound(u)
      BY DEF BioInv
    <2>2. \A x : \A v \in Task \ {t} : /\ Enrols(v, x)' <=> Enrols(v, x)
                                       /\ Removes(v, x)' <=> Removes(v, x)
                                       /\ Evicts(v, x)' <=> Evicts(v, x)
      BY OthersAgree
    <2>3. ASSUME NEW x \in born', Enrols(u, x)'
          PROVE  /\ x \in record' \ (nameable' \cup enrolled')
                 /\ \A v \in Task \ {u} : ~ Enrols(v, x)'
      BY <1>2, <2>1, <2>2, <2>3 DEF CallSound
    <2>4. ASSUME NEW x \in born', Removes(u, x)' PROVE x \in enrolled'
      BY <1>2, <2>1, <2>2, <2>4
    <2>5. ASSUME NEW x \in born', Removes(u, x)' \/ Evicts(u, x)' PROVE x \notin record' \ revived'
      BY <1>2, <2>1, <2>2, <2>5 DEF CallSound
    <2>6. /\ bioAt'[u] \in Enrolling \cup Leaving => bioAbout'[u] # None
          /\ bioAt'[u] = "counts" => bioAbout'[u] \in nameable'
      BY <1>2, <2>1 DEF CallSound, OthersStay
    <2> QED BY <2>3, <2>4, <2>5, <2>6 DEF CallSound
  <1> QED BY <1>1, <1>2 DEF BioInv

(* The same of a call that leaves the list alone. *)
LEMMA StillAgree ==
  ASSUME BioInv, NEW t \in Task, OthersStay(t), UNCHANGED <<list, removed, torn>>,
         revived \subseteq revived',
         \A x \in record' \ revived' : x \in record \ revived \/ Enrols(t, x)',
         \A x \in record : x \in record' \/ Removes(t, x)' \/ Evicts(t, x)',
         \A x : /\ Enrols(t, x) => Enrols(t, x)'
                /\ Removes(t, x) => Removes(t, x)'
                /\ Evicts(t, x) => Evicts(t, x)'
  PROVE  AgreeSoFar'
  <1>1. ASSUME ~ torn', NEW x \in record' \ revived'
        PROVE  x \in Bio!Listed(list') \/ \E u \in Task : Enrols(u, x)'
    <2>1. CASE Enrols(t, x)'
      BY <2>1
    <2>2. CASE x \in record \ revived
      <3>1. x \in Bio!Listed(list) \/ \E u \in Task : Enrols(u, x)
        BY <1>1, <2>2 DEF BioInv, AgreeSoFar
      <3> QED BY <3>1, OthersAgree
    <2> QED BY <1>1, <2>1, <2>2
  <1>2. ASSUME ~ torn', NEW x \in Bio!Listed(list') \ revived'
        PROVE  x \in record' \/ \E u \in Task : Removes(u, x)' \/ Evicts(u, x)'
    <2>1. x \in record \/ \E u \in Task : Removes(u, x) \/ Evicts(u, x)
      BY <1>2 DEF BioInv, AgreeSoFar
    <2> QED BY <2>1, OthersAgree
  <1>3. ~ torn' => removed' \cap Bio!Listed(list') = {}
    BY DEF BioInv, AgreeSoFar
  <1> QED BY <1>1, <1>2, <1>3 DEF AgreeSoFar

(* No call is about a template that was not made. *)
LEMMA AboutBorn ==
  ASSUME Bio!TemplatesAssumption, BioInv, NEW u \in Task, NEW x \in Template \ born
  PROVE  ~ Enrols(u, x) /\ ~ Removes(u, x) /\ ~ Evicts(u, x)
  <1>1. x # None /\ bioAbout[u] \in born \cup {None} /\ bioSeen[u] \in Seq(born)
    BY DEF Bio!TemplatesAssumption, BioInv, BioTyped
  <1>2. Len(bioSeen[u]) = MaxTemplates => Head(bioSeen[u]) \in born
    BY <1>1 DEF Bio!TemplatesAssumption
  <1> QED BY <1>1, <1>2 DEF Enrols, Removes, Evicts

(* An enrolment writes the record of a new template (enroll_biometric). *)
LEMMA EnrolsKeeps ==
  ASSUME Bio!TemplatesAssumption, BioInv, NEW t \in Task, NEW x \in Template, Bio!Enrols(t, x)
  PROVE  BioInv'
  <1> USE DEF Bio!Enrols, Bio!Goes, Bio!ghosts
  <1>0. /\ bioAt[t] = "idle" /\ bioAt'[t] = "lists" /\ bioAbout'[t] = x /\ OthersStay(t)
        /\ x \notin born /\ born' = born \cup {x} /\ record' = record \cup {x}
        /\ UNCHANGED <<list, nameable, enrolled, bioSeen, removed, revived, torn>>
    BY DEF BioInv, BioTyped, OthersStay
  <1>1. BioTyped'
    <2>1. Seq(born) \subseteq Seq(born')
      BY <1>0
    <2> QED BY <1>0, <2>1 DEF BioInv, BioTyped, Enrolling
  <1>2. SeenSound(t)'
    BY <1>0 DEF BioInv, SeenSound
  <1>3. \A y : /\ ~ Enrols(t, y) /\ ~ Removes(t, y) /\ ~ Evicts(t, y)
               /\ Enrols(t, y)' <=> y = x
               /\ ~ Removes(t, y)' /\ ~ Evicts(t, y)'
    BY <1>0 DEF Enrols, Removes, Evicts, Enrolling, Leaving
  <1>4. \A u \in Task : ~ Enrols(u, x) /\ ~ Removes(u, x) /\ ~ Evicts(u, x)
    BY <1>0, AboutBorn
  <1>5. CallSound(t)'
    <2>1. \A u \in Task \ {t} : ~ Enrols(u, x)'
      BY <1>0, <1>4, OthersAgree
    <2>2. x \in record' \ (nameable' \cup enrolled') /\ x # None
      BY <1>0 DEF BioInv, BioTyped, Bio!TemplatesAssumption
    <2>3. bioAt'[t] # "counts"
      BY <1>0
    <2> QED BY <1>0, <1>3, <2>1, <2>2, <2>3 DEF CallSound
  <1>6. AgreeSoFar'
    BY <1>0, <1>3, StillAgree
  <1>7. (removed \cap record \subseteq revived)'
    BY <1>0 DEF BioInv, BioTyped
  <1>8. \A u \in Task \ {t} : \A y \in born :
            /\ Enrols(u, y) => y \in record' \ (nameable' \cup enrolled') /\ ~ Enrols(t, y)'
            /\ Removes(u, y) => y \in enrolled'
    BY <1>0, <1>3 DEF BioInv, CallSound
  <1> QED BY <1>0, <1>1, <1>2, <1>4, <1>5, <1>6, <1>7, <1>8, StepKeeps

(* It reads the list (_update_user_biometrics). *)
LEMMA ListsKeeps ==
  ASSUME Bio!TemplatesAssumption, BioInv, NEW t \in Task, Bio!Lists(t) \/ Bio!Relists(t)
  PROVE  BioInv'
  <1> USE DEF Bio!Lists, Bio!Relists, Bio!ReadsList, Bio!Goes, Bio!ghosts, Bio!cached, Bio!ids
  <1>0. /\ \/ bioAt[t] = "lists" /\ bioAt'[t] = "appends" /\ Len(list) # MaxTemplates
           \/ bioAt[t] = "lists" /\ bioAt'[t] = "evicts" /\ Len(list) = MaxTemplates
           \/ bioAt[t] = "relists" /\ bioAt'[t] = "shrinks"
        /\ OthersStay(t) /\ bioSeen' = [bioSeen EXCEPT ![t] = list] /\ bioSeen'[t] = list
        /\ bioAt' \in [Task -> {"idle", "counts"} \cup Enrolling \cup Leaving]
        /\ UNCHANGED <<bioAbout, record, list, born, nameable, enrolled, removed, revived, torn>>
    BY DEF BioInv, BioTyped, OthersStay, Bio!TemplatesAssumption, Enrolling, Leaving
  <1>1. BioTyped'
    BY <1>0 DEF BioInv, BioTyped
  <1>2. SeenSound(t)'
    BY <1>0 DEF BioInv, BioTyped, SeenSound
  <1>3. \A y : /\ Enrols(t, y)' <=> Enrols(t, y)
               /\ Removes(t, y)' <=> Removes(t, y)
               /\ ~ Evicts(t, y)' /\ ~ Evicts(t, y)
    BY <1>0 DEF Enrols, Removes, Evicts, Enrolling, Leaving
  <1>5. CallSound(t)'
    <2>1. \A y : \A u \in Task \ {t} : Enrols(u, y)' <=> Enrols(u, y)
      BY <1>0, OthersAgree
    <2>2. bioAt[t] \in Enrolling \cup Leaving /\ bioAt'[t] # "counts"
      BY <1>0 DEF Enrolling, Leaving
    <2>3. CallSound(t)
      BY DEF BioInv
    <2> QED BY <1>0, <1>3, <2>1, <2>2, <2>3 DEF CallSound
  <1>6. AgreeSoFar'
    BY <1>0, <1>3, StillAgree
  <1>8. \A u \in Task \ {t} : \A y \in born :
            /\ Enrols(u, y) => y \in record' \ (nameable' \cup enrolled') /\ ~ Enrols(t, y)'
            /\ Removes(u, y) => y \in enrolled'
    BY <1>0, <1>3 DEF BioInv, CallSound
  <1> QED BY <1>0, <1>1, <1>2, <1>5, <1>6, <1>8, StepKeeps DEF BioInv

(* It makes room in a full list by taking the record of its oldest          *)
(* template.                                                                *)
LEMMA EvictsKeeps ==
  ASSUME Bio!TemplatesAssumption, BioInv, NEW t \in Task, Bio!Evicts(t)
  PROVE  BioInv'
  <1> USE DEF Bio!Evicts, Bio!Goes, Bio!ghosts, Bio!ids
  <1> DEFINE h == Head(bioSeen[t])
  <1>0. /\ bioAt[t] = "evicts" /\ bioAt'[t] = "appends" /\ OthersStay(t)
        /\ record' = record \ {h} /\ Len(bioSeen[t]) = MaxTemplates
        /\ bioAt' \in [Task -> {"idle", "counts"} \cup Enrolling \cup Leaving]
        /\ UNCHANGED <<bioSeen, bioAbout, list, born, nameable, enrolled, removed, revived, torn>>
    BY DEF BioInv, BioTyped, SeenSound, OthersStay, Enrolling, Leaving
  <1>1. BioTyped'
    BY <1>0 DEF BioInv, BioTyped
  <1>2. SeenSound(t)'
    BY <1>0 DEF BioInv, SeenSound
  <1>3. \A y : /\ Enrols(t, y)' <=> Enrols(t, y)
               /\ ~ Removes(t, y)' /\ ~ Removes(t, y)
               /\ ~ Evicts(t, y) /\ (Evicts(t, y)' <=> y = h)
    BY <1>0 DEF Enrols, Removes, Evicts, Enrolling, Leaving
  <1>4. h \in nameable
    <2>1. 1 \in DOMAIN bioSeen[t] /\ h = bioSeen[t][1]
      BY <1>0 DEF BioInv, BioTyped, Bio!TemplatesAssumption
    <2> QED BY <2>1 DEF BioInv, SeenSound, Bio!Listed
  <1>5. CallSound(t)'
    <2>1. \A y : \A u \in Task \ {t} : Enrols(u, y)' <=> Enrols(u, y)
      BY <1>0, OthersAgree
    <2>2. bioAt[t] \in Enrolling \cup Leaving /\ bioAt'[t] # "counts"
      BY <1>0 DEF Enrolling, Leaving
    <2>3. CallSound(t)
      BY DEF BioInv
    <2> QED BY <1>0, <1>3, <1>4, <2>1, <2>2, <2>3 DEF CallSound
  <1>6. AgreeSoFar'
    BY <1>0, <1>3, StillAgree
  <1>8. \A u \in Task \ {t} : \A y \in born :
            /\ Enrols(u, y) => y \in record' \ (nameable' \cup enrolled') /\ ~ Enrols(t, y)'
            /\ Removes(u, y) => y \in enrolled'
    BY <1>0, <1>3, <1>4 DEF BioInv, CallSound
  <1> QED BY <1>0, <1>1, <1>2, <1>5, <1>6, <1>8, StepKeeps DEF BioInv

(* A removal takes the record first (remove_biometric). *)
LEMMA RemovesKeeps ==
  ASSUME Bio!TemplatesAssumption, BioInv, NEW t \in Task, NEW x \in Template, Bio!Removes(t, x)
  PROVE  BioInv'
  <1> USE DEF Bio!Removes, Bio!Goes, Bio!ghosts, Bio!ids
  <1>0. /\ bioAt[t] = "idle" /\ bioAt'[t] = "relists" /\ bioAbout'[t] = x /\ OthersStay(t)
        /\ x \in enrolled /\ x \in born /\ x # None /\ record' = record \ {x}
        /\ bioAt' \in [Task -> {"idle", "counts"} \cup Enrolling \cup Leaving]
        /\ bioAbout' \in [Task -> born \cup {None}]
        /\ UNCHANGED <<list, born, nameable, enrolled, bioSeen, removed, revived, torn>>
    BY DEF BioInv, BioTyped, OthersStay, Bio!TemplatesAssumption, Leaving
  <1>1. BioTyped'
    BY <1>0 DEF BioInv, BioTyped
  <1>2. SeenSound(t)'
    BY <1>0 DEF BioInv, SeenSound
  <1>3. \A y : /\ ~ Enrols(t, y) /\ ~ Removes(t, y) /\ ~ Evicts(t, y)
               /\ ~ Enrols(t, y)' /\ ~ Evicts(t, y)'
               /\ Removes(t, y)' <=> y = x
    BY <1>0 DEF Enrols, Removes, Evicts, Enrolling, Leaving
  <1>5. CallSound(t)'
    BY <1>0, <1>3 DEF CallSound
  <1>6. AgreeSoFar'
    BY <1>0, <1>3, StillAgree
  <1>8. \A u \in Task \ {t} : \A y \in born :
            /\ Enrols(u, y) => y \in record' \ (nameable' \cup enrolled') /\ ~ Enrols(t, y)'
            /\ Removes(u, y) => y \in enrolled'
    BY <1>0, <1>3 DEF BioInv, CallSound
  <1> QED BY <1>0, <1>1, <1>2, <1>5, <1>6, <1>8, StepKeeps DEF BioInv

(* A verification finds a record of a template it may name. *)
LEMMA MatchesKeeps ==
  ASSUME Bio!TemplatesAssumption, BioInv, NEW t \in Task, NEW x \in Template, Bio!Matches(t, x)
  PROVE  BioInv'
  <1> USE DEF Bio!Matches, Bio!Goes, Bio!ghosts, Bio!ids, Bio!cached
  <1>0. /\ bioAt[t] = "idle" /\ bioAt'[t] = "counts" /\ bioAbout'[t] = x /\ OthersStay(t)
        /\ x \in nameable
        /\ bioAt' \in [Task -> {"idle", "counts"} \cup Enrolling \cup Leaving]
        /\ bioAbout' \in [Task -> born \cup {None}]
        /\ UNCHANGED <<record, list, born, nameable, enrolled, bioSeen, removed, revived, torn>>
    BY DEF BioInv, BioTyped, OthersStay
  <1>1. BioTyped'
    BY <1>0 DEF BioInv, BioTyped
  <1>2. SeenSound(t)'
    BY <1>0 DEF BioInv, SeenSound
  <1>3. \A y : /\ ~ Enrols(t, y) /\ ~ Removes(t, y) /\ ~ Evicts(t, y)
               /\ ~ Enrols(t, y)' /\ ~ Removes(t, y)' /\ ~ Evicts(t, y)'
    BY <1>0 DEF Enrols, Removes, Evicts, Enrolling, Leaving
  <1>5. CallSound(t)'
    BY <1>0, <1>3 DEF CallSound, Enrolling, Leaving
  <1>6. AgreeSoFar'
    BY <1>0, <1>3, StillAgree
  <1>8. \A u \in Task \ {t} : \A y \in born :
            /\ Enrols(u, y) => y \in record' \ (nameable' \cup enrolled') /\ ~ Enrols(t, y)'
            /\ Removes(u, y) => y \in enrolled'
    BY <1>0, <1>3 DEF BioInv, CallSound
  <1> QED BY <1>0, <1>1, <1>2, <1>5, <1>6, <1>8, StepKeeps DEF BioInv

(* What a call leaves behind when it is over. *)
LEMMA FinishesSoundly ==
  ASSUME Bio!TemplatesAssumption, BioInv, NEW t \in Task, NEW from, Bio!Finishes(t, from)
  PROVE  /\ OthersStay(t) /\ bioAt[t] = from
         /\ bioAt' \in [Task -> {"idle", "counts"} \cup Enrolling \cup Leaving]
         /\ bioAbout' \in [Task -> born \cup {None}] /\ bioSeen' \in [Task -> Seq(born)]
         /\ SeenSound(t)' /\ CallSound(t)'
         /\ \A y : ~ Enrols(t, y)' /\ ~ Removes(t, y)' /\ ~ Evicts(t, y)'
  <1> USE DEF Bio!Finishes, Bio!Goes
  <1>0. /\ bioAt'[t] = "idle" /\ bioAbout'[t] = None /\ bioSeen'[t] = << >> /\ OthersStay(t)
        /\ bioAt' \in [Task -> {"idle", "counts"} \cup Enrolling \cup Leaving]
        /\ bioAbout' \in [Task -> born \cup {None}] /\ bioSeen' \in [Task -> Seq(born)]
    BY DEF BioInv, BioTyped, OthersStay
  <1>1. Once(<< >>) /\ Len(<< >>) <= MaxTemplates /\ Bio!Listed(<< >>) = {}
    BY DEF Once, Bio!Listed, Bio!TemplatesAssumption
  <1>2. SeenSound(t)'
    BY <1>0, <1>1 DEF SeenSound
  <1>3. \A y : ~ Enrols(t, y)' /\ ~ Removes(t, y)' /\ ~ Evicts(t, y)'
    BY <1>0 DEF Enrols, Removes, Evicts, Enrolling, Leaving
  <1>4. CallSound(t)'
    BY <1>0, <1>3 DEF CallSound, Enrolling, Leaving
  <1> QED BY <1>0, <1>2, <1>3, <1>4

(* And writes it again, whether or not it is still there                    *)
(* (_update_template_usage).                                                *)
LEMMA CountsKeeps ==
  ASSUME Bio!TemplatesAssumption, BioInv, NEW t \in Task, Bio!Counts(t)
  PROVE  BioInv'
  <1> USE DEF Bio!Counts, Bio!ids
  <1>0. Bio!Finishes(t, "counts") /\ bioAt[t] = "counts"
    BY DEF Bio!Finishes, Bio!Goes
  <1>1. PICK x \in nameable : /\ record' = record \cup {x}
                              /\ revived' = IF x \in record THEN revived ELSE revived \cup {x}
    BY <1>0 DEF BioInv, CallSound
  <1>2. UNCHANGED <<list, born, nameable, enrolled, removed, torn>>
    OBVIOUS
  <1>3. BioTyped'
    BY <1>0, <1>1, <1>2, FinishesSoundly DEF BioInv, BioTyped
  <1>4. \A y : ~ Enrols(t, y) /\ ~ Removes(t, y) /\ ~ Evicts(t, y)
    BY <1>0 DEF Enrols, Removes, Evicts, Enrolling, Leaving
  <1>5. /\ revived \subseteq revived' /\ record \subseteq record'
        /\ record' \ revived' \subseteq record \ revived
    BY <1>1
  <1>6. AgreeSoFar'
    BY <1>0, <1>2, <1>4, <1>5, StillAgree, FinishesSoundly
  <1>7. (removed \cap record \subseteq revived)'
    BY <1>1, <1>2 DEF BioInv
  <1>8. \A u \in Task \ {t} : \A y \in born :
            /\ Enrols(u, y) => y \in record' \ (nameable' \cup enrolled') /\ ~ Enrols(t, y)'
            /\ Removes(u, y) => y \in enrolled'
    BY <1>0, <1>1, <1>2, FinishesSoundly DEF BioInv, CallSound
  <1> QED BY <1>0, <1>2, <1>3, <1>5, <1>6, <1>7, <1>8, StepKeeps, FinishesSoundly

(* A call fails, and has written what it has written. *)
LEMMA BioFailsKeeps ==
  ASSUME Bio!TemplatesAssumption, BioInv, NEW t \in Task, Bio!Fails(t)
  PROVE  BioInv'
  <1> USE DEF Bio!Fails, Bio!ids, Bio!cached
  <1>0. Bio!Finishes(t, bioAt[t])
    OBVIOUS
  <1>1. UNCHANGED <<record, list, born, nameable, enrolled, removed, revived>>
    OBVIOUS
  <1>2. torn' \in BOOLEAN /\ (~ torn' => ~ torn /\ bioAt[t] = "counts")
    BY DEF BioInv, BioTyped
  <1>3. BioTyped'
    BY <1>0, <1>1, <1>2, FinishesSoundly DEF BioInv, BioTyped
  <1>6. AgreeSoFar'
    <2>1. CASE torn'
      BY <2>1 DEF AgreeSoFar
    <2>2. CASE ~ torn'
      <3>1. \A y : ~ Enrols(t, y) /\ ~ Removes(t, y) /\ ~ Evicts(t, y)
        BY <1>2, <2>2 DEF Enrols, Removes, Evicts, Enrolling, Leaving
      <3>2. UNCHANGED torn
        BY <1>2, <2>2 DEF BioInv, BioTyped
      <3> QED BY <1>0, <1>1, <3>1, <3>2, StillAgree, FinishesSoundly
    <2> QED BY <2>1, <2>2
  <1>8. \A u \in Task \ {t} : \A y \in born :
            /\ Enrols(u, y) => y \in record' \ (nameable' \cup enrolled') /\ ~ Enrols(t, y)'
            /\ Removes(u, y) => y \in enrolled'
    BY <1>0, <1>1, FinishesSoundly DEF BioInv, CallSound
  <1> QED BY <1>0, <1>1, <1>3, <1>6, <1>8, StepKeeps, FinishesSoundly DEF BioInv

(* A list that is written over itself, from the same call's reading: whoever *)
(* is in it had a record, was enrolled now, or is on the way out.            *)
LEMMA AppendsKeeps ==
  ASSUME Bio!TemplatesAssumption, BioInv, NEW t \in Task, Bio!Appends(t)
  PROVE  BioInv'
  <1> USE DEF Bio!Appends, Bio!WritesList
  <1>0. Bio!Finishes(t, "appends") /\ bioAt[t] = "appends"
    BY DEF Bio!Finishes, Bio!Goes
  <1>1. PICK x \in born : x = bioAbout[t] /\ Enrols(t, x)
    BY <1>0 DEF BioInv, BioTyped, CallSound, Enrols, Enrolling
  <1>2. /\ x \in record \ (nameable \cup enrolled)
        /\ \A u \in Task \ {t} : ~ Enrols(u, x)
    BY <1>1 DEF BioInv, CallSound
  <1>3. /\ enrolled' = enrolled \cup {x} /\ nameable' = nameable \cup Bio!Listed(list')
        /\ torn' = (torn \/ list # bioSeen[t])
        /\ UNCHANGED <<record, born, removed, revived>>
    BY <1>1
  <1>4. /\ list' \in Seq(born) /\ Once(list') /\ Len(list') <= MaxTemplates
        /\ Bio!Listed(list') =
             {x} \cup (IF Len(bioSeen[t]) < MaxTemplates THEN Bio!Listed(bioSeen[t])
                       ELSE Bio!Listed(bioSeen[t]) \ {Head(bioSeen[t])})
    <2>1. /\ bioSeen[t] \in Seq(born) /\ Once(bioSeen[t]) /\ Len(bioSeen[t]) <= MaxTemplates
          /\ x \notin Bio!Listed(bioSeen[t])
      BY <1>2 DEF BioInv, BioTyped, SeenSound
    <2>2. list' = Append(Bio!Kept(bioSeen[t]), x)
      BY <1>1
    <2> QED BY <2>1, <2>2, OneMore DEF Bio!TemplatesAssumption
  <1>5. nameable' = nameable \cup {x} /\ Bio!Listed(list') \subseteq nameable'
    BY <1>3, <1>4 DEF BioInv, SeenSound
  <1>6. BioTyped'
    BY <1>0, <1>3, <1>4, <1>5, FinishesSoundly DEF BioInv, BioTyped
  <1>7. ASSUME ~ torn'
        PROVE  /\ (removed \cap Bio!Listed(list) = {})'
               /\ \A y \in record' \ revived' : y \in Bio!Listed(list') \/ \E u \in Task : Enrols(u, y)'
               /\ \A y \in Bio!Listed(list') \ revived' :
                    y \in record' \/ \E u \in Task : Removes(u, y)' \/ Evicts(u, y)'
    <2>1. ~ torn /\ list = bioSeen[t]
      BY <1>3, <1>7 DEF BioInv, BioTyped
    <2>2. (removed \cap Bio!Listed(list) = {})'
      BY <1>2, <1>3, <1>4, <2>1 DEF BioInv, BioTyped, AgreeSoFar
    <2>3. ASSUME NEW y \in record' \ revived'
          PROVE  y \in Bio!Listed(list') \/ \E u \in Task : Enrols(u, y)'
      <3>1. CASE y = x
        BY <1>4, <3>1
      <3>2. CASE ~ (Len(bioSeen[t]) < MaxTemplates) /\ y = Head(bioSeen[t])
        <4>1. Evicts(t, y)
          BY <1>0, <3>2 DEF Evicts, BioInv, SeenSound, BioTyped, Bio!TemplatesAssumption
        <4> QED BY <1>3, <2>3, <4>1 DEF BioInv, CallSound, BioTyped
      <3>3. CASE y # x /\ (Len(bioSeen[t]) < MaxTemplates \/ y # Head(bioSeen[t]))
        <4>1. y \in Bio!Listed(list) \/ \E u \in Task : Enrols(u, y)
          BY <1>3, <2>1, <2>3 DEF BioInv, AgreeSoFar
        <4>2. ASSUME NEW u \in Task, Enrols(u, y) PROVE u # t
          BY <1>1, <3>3, <4>2 DEF Enrols
        <4> QED BY <1>0, <1>4, <2>1, <3>3, <4>1, <4>2, OthersAgree, FinishesSoundly
      <3> QED BY <3>1, <3>2, <3>3
    <2>4. ASSUME NEW y \in Bio!Listed(list') \ revived'
          PROVE  y \in record' \/ \E u \in Task : Removes(u, y)' \/ Evicts(u, y)'
      <3>1. CASE y = x
        BY <1>2, <1>3, <3>1
      <3>2. CASE y # x
        <4>1. y \in Bio!Listed(list) /\ ~ Evicts(t, y)
          BY <1>4, <2>1, <2>4, <3>2 DEF Evicts, Bio!TemplatesAssumption
        <4>2. y \in record \/ \E u \in Task : Removes(u, y) \/ Evicts(u, y)
          BY <1>3, <2>1, <2>4, <4>1 DEF BioInv, AgreeSoFar
        <4>3. ~ Removes(t, y)
          BY <1>0 DEF Removes, Leaving
        <4> QED BY <1>0, <1>3, <4>1, <4>2, <4>3, OthersAgree, FinishesSoundly
      <3> QED BY <3>1, <3>2
    <2> QED BY <2>2, <2>3, <2>4
  <1>8. \A u \in Task \ {t} : \A y \in born :
            /\ Enrols(u, y) => y \in record' \ (nameable' \cup enrolled') /\ ~ Enrols(t, y)'
            /\ Removes(u, y) => y \in enrolled'
    BY <1>0, <1>2, <1>3, <1>5, FinishesSoundly DEF BioInv, CallSound
  <1> QED BY <1>0, <1>3, <1>5, <1>6, <1>7, <1>8, StepKeeps, FinishesSoundly DEF BioInv, AgreeSoFar

(* A removal writes the list without its template. *)
LEMMA ShrinksKeeps ==
  ASSUME Bio!TemplatesAssumption, BioInv, NEW t \in Task, Bio!Shrinks(t)
  PROVE  BioInv'
  <1> USE DEF Bio!Shrinks, Bio!WritesList
  <1>0. Bio!Finishes(t, "shrinks") /\ bioAt[t] = "shrinks"
    BY DEF Bio!Finishes, Bio!Goes
  <1>1. PICK x \in born : x = bioAbout[t] /\ Removes(t, x)
    BY <1>0 DEF BioInv, BioTyped, CallSound, Removes, Leaving
  <1>2. x \in enrolled /\ (x \in record => x \in revived)
    BY <1>1 DEF BioInv, CallSound
  <1>3. /\ removed' = removed \cup {x} /\ nameable' = nameable \cup Bio!Listed(list')
        /\ torn' = (torn \/ list # bioSeen[t])
        /\ UNCHANGED <<record, born, enrolled, revived>>
    BY <1>1
  <1>4. /\ list' \in Seq(born) /\ Once(list') /\ Len(list') <= MaxTemplates
        /\ Bio!Listed(list') = Bio!Listed(bioSeen[t]) \ {x}
    <2>1. bioSeen[t] \in Seq(born) /\ Once(bioSeen[t]) /\ Len(bioSeen[t]) <= MaxTemplates
      BY DEF BioInv, BioTyped, SeenSound
    <2>2. list' = Bio!Without(bioSeen[t], x)
      BY <1>1
    <2>3. /\ list' \in Seq(born) /\ Once(list') /\ Len(list') <= Len(bioSeen[t])
          /\ Bio!Listed(list') = Bio!Listed(bioSeen[t]) \ {x}
      BY <2>1, <2>2, WithoutOne
    <2> QED BY <2>1, <2>3 DEF Bio!TemplatesAssumption
  <1>5. nameable' = nameable /\ Bio!Listed(list') \subseteq nameable'
    BY <1>3, <1>4 DEF BioInv, SeenSound
  <1>6. BioTyped'
    BY <1>0, <1>2, <1>3, <1>4, <1>5, FinishesSoundly DEF BioInv, BioTyped
  <1>7. ASSUME ~ torn'
        PROVE  /\ (removed \cap Bio!Listed(list) = {})'
               /\ \A y \in record' \ revived' : y \in Bio!Listed(list') \/ \E u \in Task : Enrols(u, y)'
               /\ \A y \in Bio!Listed(list') \ revived' :
                    y \in record' \/ \E u \in Task : Removes(u, y)' \/ Evicts(u, y)'
    <2>1. ~ torn /\ list = bioSeen[t]
      BY <1>3, <1>7 DEF BioInv, BioTyped
    <2>2. (removed \cap Bio!Listed(list) = {})'
      BY <1>3, <1>4, <2>1 DEF BioInv, AgreeSoFar
    <2>5. \A y : ~ Enrols(t, y) /\ ~ Evicts(t, y) /\ (Removes(t, y) => y = x)
      BY <1>0, <1>1 DEF Enrols, Evicts, Removes, Enrolling
    <2>3. ASSUME NEW y \in record' \ revived'
          PROVE  y \in Bio!Listed(list') \/ \E u \in Task : Enrols(u, y)'
      <3>1. y # x
        BY <1>2, <1>3, <2>3
      <3>2. y \in Bio!Listed(list) \/ \E u \in Task : Enrols(u, y)
        BY <1>3, <2>1, <2>3 DEF BioInv, AgreeSoFar
      <3> QED BY <1>0, <1>4, <2>1, <2>5, <3>1, <3>2, OthersAgree, FinishesSoundly
    <2>4. ASSUME NEW y \in Bio!Listed(list') \ revived'
          PROVE  y \in record' \/ \E u \in Task : Removes(u, y)' \/ Evicts(u, y)'
      <3>1. y # x /\ y \in Bio!Listed(list)
        BY <1>4, <2>1, <2>4
      <3>2. y \in record \/ \E u \in Task : Removes(u, y) \/ Evicts(u, y)
        BY <1>3, <2>1, <2>4, <3>1 DEF BioInv, AgreeSoFar
      <3> QED BY <1>0, <1>3, <2>5, <3>1, <3>2, OthersAgree, FinishesSoundly
    <2> QED BY <2>2, <2>3, <2>4
  <1>8. \A u \in Task \ {t} : \A y \in born :
            /\ Enrols(u, y) => y \in record' \ (nameable' \cup enrolled') /\ ~ Enrols(t, y)'
            /\ Removes(u, y) => y \in enrolled'
    BY <1>0, <1>3, <1>5, FinishesSoundly DEF BioInv, CallSound
  <1>9. (removed \cap record \subseteq revived)'
    BY <1>2, <1>3 DEF BioInv
  <1> QED BY <1>0, <1>3, <1>5, <1>6, <1>7, <1>8, <1>9, StepKeeps, FinishesSoundly DEF AgreeSoFar

(* Every step keeps the invariant of the templates. *)
LEMMA NextKeepsTemplates ==
  ASSUME Bio!TemplatesAssumption, BioInv, [Bio!Next]_Bio!vars
  PROVE  BioInv'
  <1>1. CASE UNCHANGED Bio!vars
    BY <1>1 DEF Bio!vars, Bio!cached, Bio!ids, Bio!ghosts, BioInv, BioTyped, SeenSound, CallSound, AgreeSoFar,
       Enrols, Removes, Evicts
  <1> QED
    BY <1>1, EnrolsKeeps, RemovesKeeps, MatchesKeeps, ListsKeeps, EvictsKeeps, AppendsKeeps, ShrinksKeeps,
       CountsKeeps, BioFailsKeeps DEF Bio!Next

(* For any number of templates and calls: while no list was written over a  *)
(* newer one, records and list agree but for templates that a call is about *)
(* or that a use wrote back, and a removed template has no record unless a  *)
(* use wrote it back (enroll_biometric, remove_biometric,                   *)
(* _update_template_usage).                                                 *)
THEOREM TemplatesHold ==
  ASSUME Bio!TemplatesAssumption
  PROVE  Bio!Spec => [](Bio!TypeOK /\ Bio!TemplatesAgree /\ Bio!RemovedIsGone)
  <1>1. Bio!Init => BioInv
    <2> SUFFICES ASSUME Bio!Init PROVE BioInv
      OBVIOUS
    <2> USE DEF Bio!Init
    <2>1. Once(<< >>) /\ Len(<< >>) = 0 /\ Bio!Listed(<< >>) = {}
      BY DEF Once, Bio!Listed
    <2>2. BioTyped
      <3>1. list \in Seq(born) /\ bioSeen \in [Task -> Seq(born)]
        OBVIOUS
      <3>2. Len(list) <= MaxTemplates
        BY <2>1 DEF Bio!TemplatesAssumption
      <3>3. bioAt \in [Task -> {"idle", "counts"} \cup Enrolling \cup Leaving]
        OBVIOUS
      <3>4. bioAbout \in [Task -> born \cup {None}]
        OBVIOUS
      <3>5. Once(list) /\ Bio!Listed(list) \subseteq nameable
        BY <2>1
      <3> QED BY <3>1, <3>2, <3>3, <3>4, <3>5 DEF BioTyped
    <2>4. \A t \in Task : SeenSound(t)
      BY <2>1 DEF SeenSound, Bio!TemplatesAssumption
    <2>3. \A t \in Task : CallSound(t)
      BY DEF CallSound, Enrols, Removes, Evicts, Enrolling, Leaving
    <2> QED BY <2>1, <2>2, <2>3, <2>4 DEF BioInv, AgreeSoFar
  <1>2. BioInv /\ [Bio!Next]_Bio!vars => BioInv'
    BY NextKeepsTemplates
  <1>3. BioInv => Bio!TypeOK /\ Bio!TemplatesAgree /\ Bio!RemovedIsGone
    <2> SUFFICES ASSUME BioInv PROVE Bio!TypeOK /\ Bio!TemplatesAgree /\ Bio!RemovedIsGone
      OBVIOUS
    <2>1. Bio!TypeOK
      BY DEF BioInv, BioTyped, Bio!TypeOK, Enrolling, Leaving
    <2>2. Bio!RemovedIsGone
      BY DEF BioInv, AgreeSoFar, Bio!RemovedIsGone
    <2>3. Bio!TemplatesAgree
      <3> SUFFICES ASSUME ~ torn, \A t \in Task : bioAt[t] \in {"idle", "counts"}
                   PROVE  record \ revived = Bio!Listed(list) \ revived
        BY DEF Bio!TemplatesAgree
      <3>1. \A t \in Task : \A x : ~ Enrols(t, x) /\ ~ Removes(t, x) /\ ~ Evicts(t, x)
        BY DEF Enrols, Removes, Evicts, Enrolling, Leaving
      <3> QED BY <3>1 DEF BioInv, AgreeSoFar
    <2> QED BY <2>1, <2>2, <2>3
  <1> QED BY <1>1, <1>2, <1>3, PTL DEF Bio!Spec

-----------------------------------------------------------------------------
(* For any challenges, codes and templates, and any order of the calls: a   *)
(* challenge counts its answers and lasts as long as it may, a recovery     *)
(* code is accepted once, and the records and the list of the templates     *)
(* agree (verify_mfa_challenge, _verify_recovery_code, enroll_biometric,    *)
(* remove_biometric).                                                       *)
THEOREM SecondFactorsTogether == Mfa!Spec /\ Recovery!Spec /\ Bio!Spec => []SecondFactorsHold
  <1> USE FactorsAssumption, ChallengesHold, CodesAreSpentOnce, TemplatesHold
  <1> QED BY PTL DEF SecondFactorsHold

-----------------------------------------------------------------------------
(* The audit logger (AuditTrail). *)

\* What a flush has not taken is late, and what an INSERT has written is there.
FlushesOK ==
  \A f \in Flushing : /\ pending \ batch[f] \subseteq late
                      /\ pc[f] = "inserted" => \A o \in batch[f] : stored[o] > 0

\* An event of high risk is written by its own call alone.
AlonesOK ==
  /\ \A f \in Event : pc[f] = "new" => batch[f] = {}
  /\ \A f \in Event \ HighRisk : batch[f] \cap HighRisk = {}
  /\ \A e \in HighRisk \cap Event :
       /\ pc[e] # "new" => batch[e] = {e}
       /\ pc[e] \in {"new", "inserting"} => stored[e] = 0
       /\ pc[e] \in {"inserted", "ok"} => stored[e] = 1

\* A row was written by a call that is past its INSERT.
RowsHaveWriters ==
  \A e \in Event : stored[e] > 0 =>
    \E f \in Event : e \in batch[f] /\ pc[f] \notin {"new", "inserting"}

TrailInv == TypeOK /\ FlushesOK /\ LostOnlyIfLate

\* What a call was answered Ok for is no longer in the list, and what is in
\* a batch or in the list has begun.
ClosedOK ==
  /\ \A f \in Event : pc[f] = "ok" => batch[f] \cap pending = {}
  /\ \A f \in Event : \A o \in batch[f] : pc[o] # "new"
  /\ \A o \in pending : pc[o] # "new"

ClosedInv == TypeOK /\ AlonesOK /\ ClosedOK

RowsInv == TypeOK /\ AlonesOK /\ RowsHaveWriters /\ RowsAreShared

BacklogInv == TypeOK /\ IsFiniteSet(pending) /\ BacklogHasAFlush

USE BatchAssumption

-----------------------------------------------------------------------------
(* Types. *)

LEMMA InitTyped == Init => TypeOK
BY DEF Init, TypeOK

(* Every step of log_event and of a flush keeps the types. *)
LEMMA NextTyped ==
    ASSUME TypeOK, [Next]_vars
    PROVE  TypeOK'
<1> USE DEF TypeOK, InFlight, Ended, Goes
<1>1. ASSUME NEW e \in Event, Writes(e) PROVE TypeOK'
  BY <1>1 DEF Writes
<1>2. ASSUME NEW e \in Event, Leaves(e) PROVE TypeOK'
  BY <1>2 DEF Leaves, Appends
<1>3. ASSUME NEW e \in Event, Flushes(e) PROVE TypeOK'
  BY <1>3 DEF Flushes, Appends
<1>4. ASSUME NEW e \in Event, Inserts(e) PROVE TypeOK'
  BY <1>4 DEF Inserts
<1>5. ASSUME NEW e \in Event, Returns(e) PROVE TypeOK'
  BY <1>5 DEF Returns
<1>6. ASSUME NEW e \in Event, Raises(e) PROVE TypeOK'
  BY <1>6 DEF Raises
<1>7. CASE Dies
  BY <1>7 DEF Dies
<1>8. CASE UNCHANGED vars
  BY <1>8 DEF vars
<1> QED BY <1>1, <1>2, <1>3, <1>4, <1>5, <1>6, <1>7, <1>8 DEF Next

-----------------------------------------------------------------------------
(* What is lost. *)

(* A flush forgets what it has not taken, and nothing else                  *)
(* (_flush_pending_events).                                                 *)
LEMMA NextKeepsTrail ==
    ASSUME TrailInv, [Next]_vars
    PROVE  FlushesOK' /\ LostOnlyIfLate'
<1> USE DEF TrailInv, TypeOK, FlushesOK, LostOnlyIfLate, Flushing, InFlight, Ended, Goes
<1>1. ASSUME NEW e \in Event, Writes(e) PROVE FlushesOK' /\ LostOnlyIfLate'
  BY <1>1 DEF Writes
<1>2. ASSUME NEW e \in Event, Leaves(e) PROVE FlushesOK' /\ LostOnlyIfLate'
  \* a flush that is under way makes e late
  <2>1. FlushesOK'
    BY <1>2 DEF Leaves, Appends
  <2>2. LostOnlyIfLate'
    BY <1>2 DEF Leaves, Appends
  <2> QED BY <2>1, <2>2
<1>3. ASSUME NEW e \in Event, Flushes(e) PROVE FlushesOK' /\ LostOnlyIfLate'
  <2>1. FlushesOK'
    BY <1>3 DEF Flushes, Appends
  <2>2. LostOnlyIfLate'
    BY <1>3 DEF Flushes, Appends
  <2> QED BY <2>1, <2>2
<1>4. ASSUME NEW e \in Event, Inserts(e) PROVE FlushesOK' /\ LostOnlyIfLate'
  <2>1. \A o \in Event : stored'[o] >= stored[o] /\ (o \in batch[e] => stored'[o] > 0)
    BY <1>4 DEF Inserts
  <2>2. FlushesOK'
    BY <1>4, <2>1 DEF Inserts
  <2>3. LostOnlyIfLate'
    BY <1>4, <2>1 DEF Inserts
  <2> QED BY <2>2, <2>3
<1>5. ASSUME NEW e \in Event, Returns(e) PROVE FlushesOK' /\ LostOnlyIfLate'
  \* the list is cleared by a flush that has written all of it but the late ones
  <2>1. CASE e \in HighRisk
    BY <1>5, <2>1 DEF Returns
  <2>2. CASE e \notin HighRisk
    BY <1>5, <2>2 DEF Returns
  <2> QED BY <2>1, <2>2
<1>6. ASSUME NEW e \in Event, Raises(e) PROVE FlushesOK' /\ LostOnlyIfLate'
  BY <1>6 DEF Raises
<1>7. CASE Dies
  BY <1>7 DEF Dies
<1>8. CASE UNCHANGED vars
  BY <1>8 DEF vars
<1> QED BY <1>1, <1>2, <1>3, <1>4, <1>5, <1>6, <1>7, <1>8 DEF Next

-----------------------------------------------------------------------------
(* What is stored twice. *)

(* A second row is written by a second call that had the event in its       *)
(* batch.                                                                   *)
LEMMA NextKeepsRows ==
    ASSUME RowsInv, [Next]_vars
    PROVE  AlonesOK' /\ RowsHaveWriters' /\ RowsAreShared'
<1> DEFINE Keeps == AlonesOK' /\ RowsHaveWriters' /\ RowsAreShared'
<1> USE DEF RowsInv, TypeOK, AlonesOK, RowsHaveWriters, RowsAreShared, InFlight, Ended, Goes
<1>1. ASSUME NEW e \in Event, Writes(e) PROVE Keeps
  <2>1. \A f \in Event : batch[f] \subseteq batch'[f]
    BY <1>1 DEF Writes
  <2>2. AlonesOK'
    BY <1>1 DEF Writes
  <2>3. RowsHaveWriters'
    BY <1>1, <2>1 DEF Writes
  <2>4. \A o \in Event : o \in HighRisk /\ pc'[o] = "ok" => stored'[o] = 1
    BY <1>1 DEF Writes
  <2>5. ASSUME NEW o \in Event, stored'[o] > 1
        PROVE  \E f, g \in Event : f # g /\ o \in batch'[f] \cap batch'[g]
    <3>1. PICK f \in Event, g \in Event : f # g /\ o \in batch[f] \cap batch[g]
      BY <1>1, <2>5 DEF Writes
    <3> QED BY <2>1, <3>1
  <2> QED BY <2>2, <2>3, <2>4, <2>5
<1>2. ASSUME NEW e \in Event, Leaves(e) PROVE Keeps
  BY <1>2 DEF Leaves, Appends
<1>3. ASSUME NEW e \in Event, Flushes(e) PROVE Keeps
  <2>1. \A f \in Event : batch[f] \subseteq batch'[f]
    BY <1>3 DEF Flushes, Appends
  <2>2. UNCHANGED stored /\ e \notin HighRisk /\ pc' = [pc EXCEPT ![e] = "inserting"] /\ pc[e] = "new"
    BY <1>3 DEF Flushes, Appends
  <2>3. AlonesOK'
    BY <1>3 DEF Flushes, Appends
  <2>4. RowsHaveWriters'
    BY <2>1, <2>2
  <2>5. ASSUME NEW o \in Event, stored'[o] > 1
        PROVE  \E f, g \in Event : f # g /\ o \in batch'[f] \cap batch'[g]
    <3>1. PICK f \in Event, g \in Event : f # g /\ o \in batch[f] \cap batch[g]
      BY <2>2, <2>5
    <3> QED BY <2>1, <3>1
  <2>6. \A o \in Event : o \in HighRisk /\ pc'[o] = "ok" => stored'[o] = 1
    BY <2>2
  <2> QED BY <2>3, <2>4, <2>5, <2>6
<1>4. ASSUME NEW e \in Event, Inserts(e) PROVE Keeps
  <2>1. pc[e] = "inserting" /\ pc' = [pc EXCEPT ![e] = "inserted"] /\ UNCHANGED batch
    BY <1>4 DEF Inserts
  <2>2. \A o \in Event : stored'[o] = IF o \in batch[e] THEN stored[o] + 1 ELSE stored[o]
    BY <1>4 DEF Inserts
  <2>3. AlonesOK'
    BY <2>1, <2>2
  <2>4. RowsHaveWriters'
    BY <2>1, <2>2
  <2>5. \A o \in Event : o \in HighRisk /\ pc'[o] = "ok" => stored'[o] = 1
    BY <2>3
  \* a second row: whoever wrote the first is not e
  <2>6. ASSUME NEW o \in Event, stored'[o] > 1
        PROVE  \E f, g \in Event : f # g /\ o \in batch'[f] \cap batch'[g]
    <3>1. CASE stored[o] > 1
      BY <2>1, <3>1
    <3>2. CASE ~ (stored[o] > 1)
      <4>1. stored[o] > 0 /\ o \in batch[e]
        BY <2>2, <2>6, <3>2
      <4>2. PICK f \in Event : o \in batch[f] /\ pc[f] \notin {"new", "inserting"}
        BY <4>1
      <4> QED BY <2>1, <4>1, <4>2
    <3> QED BY <3>1, <3>2
  <2> QED BY <2>3, <2>4, <2>5, <2>6
<1>5. ASSUME NEW e \in Event, Returns(e) PROVE Keeps
  BY <1>5 DEF Returns
<1>6. ASSUME NEW e \in Event, Raises(e) PROVE Keeps
  BY <1>6 DEF Raises
<1>7. CASE Dies
  BY <1>7 DEF Dies
<1>8. CASE UNCHANGED vars
  BY <1>8 DEF vars
<1> QED BY <1>1, <1>2, <1>3, <1>4, <1>5, <1>6, <1>7, <1>8 DEF Next

(* A flush that is answered with Ok leaves nothing of its batch in the list *)
(* (_flush_pending_events).                                                 *)
LEMMA NextKeepsClosed ==
    ASSUME ClosedInv, [Next]_vars
    PROVE  ClosedOK'
<1> USE DEF ClosedInv, TypeOK, AlonesOK, ClosedOK, InFlight, Ended, Goes
<1>1. ASSUME NEW e \in Event, Writes(e) PROVE ClosedOK'
  BY <1>1 DEF Writes
<1>2. ASSUME NEW e \in Event, Leaves(e) PROVE ClosedOK'
  BY <1>2 DEF Leaves, Appends
<1>3. ASSUME NEW e \in Event, Flushes(e) PROVE ClosedOK'
  BY <1>3 DEF Flushes, Appends
<1>4. ASSUME NEW e \in Event, Inserts(e) PROVE ClosedOK'
  BY <1>4 DEF Inserts
<1>5. ASSUME NEW e \in Event, Returns(e) PROVE ClosedOK'
  BY <1>5 DEF Returns
<1>6. ASSUME NEW e \in Event, Raises(e) PROVE ClosedOK'
  BY <1>6 DEF Raises
<1>7. CASE Dies
  BY <1>7 DEF Dies
<1>8. CASE UNCHANGED vars
  BY <1>8 DEF vars
<1> QED BY <1>1, <1>2, <1>3, <1>4, <1>5, <1>6, <1>7, <1>8 DEF Next

(* What a call takes is its own event, or the list: nothing that another    *)
(* call was answered Ok for (log_event).                                    *)
LEMMA TakesNothingClosed ==
    ASSUME ClosedInv, [Next]_vars
    PROVE  [\A f, g \in Event : pc[f] = "ok" /\ pc[g] = "new" => batch[f] \cap batch'[g] = {}]_vars
<1> SUFFICES ASSUME NEW f \in Event, NEW g \in Event, pc[f] = "ok", pc[g] = "new"
             PROVE  batch[f] \cap batch'[g] = {}
  OBVIOUS
<1> USE DEF ClosedInv, TypeOK, AlonesOK, ClosedOK, InFlight, Ended, Goes
<1>1. ASSUME NEW e \in Event, Writes(e) PROVE batch[f] \cap batch'[g] = {}
  BY <1>1 DEF Writes
<1>2. ASSUME NEW e \in Event, Flushes(e) PROVE batch[f] \cap batch'[g] = {}
  BY <1>2 DEF Flushes, Appends
<1>3. CASE UNCHANGED batch
  BY <1>3
<1> QED BY <1>1, <1>2, <1>3 DEF Next, Leaves, Inserts, Returns, Raises, Dies, vars

-----------------------------------------------------------------------------
(* The backlog. *)

(* A backlog that fills up is flushed by the call that fills it             *)
(* (log_event).                                                             *)
LEMMA NextKeepsBacklog ==
    ASSUME BacklogInv, [Next]_vars
    PROVE  IsFiniteSet(pending)' /\ BacklogHasAFlush'
<1> DEFINE Keeps == IsFiniteSet(pending)' /\ BacklogHasAFlush'
<1> USE DEF BacklogInv, TypeOK, BacklogHasAFlush, Flushing, InFlight, Ended, Goes
<1>0. ASSUME pending' = {} PROVE Keeps
  <2>1. ~ (Cardinality({}) >= BatchSize)
    BY FS_EmptySet
  <2> QED BY <1>0, <2>1, FS_EmptySet
<1>1. ASSUME NEW e \in Event, Writes(e) PROVE Keeps
  BY <1>1 DEF Writes
<1>2. ASSUME NEW e \in Event, Leaves(e) PROVE Keeps
  <2>1. IsFiniteSet(pending')
    BY <1>2, FS_AddElement DEF Leaves, Appends
  <2>2. Cardinality(pending') \in Nat /\ Cardinality(pending') < BatchSize
    BY <1>2, <2>1, FS_CardinalityType DEF Leaves
  <2>3. ~ (Cardinality(pending') >= BatchSize)
    BY <2>2
  <2> QED BY <2>1, <2>3
<1>3. ASSUME NEW e \in Event, Flushes(e) PROVE Keeps
  <2>1. IsFiniteSet(pending')
    BY <1>3, FS_AddElement DEF Flushes, Appends
  <2>2. e \in Flushing'
    BY <1>3 DEF Flushes, Appends
  <2> QED BY <2>1, <2>2
<1>4. ASSUME NEW e \in Event, Inserts(e) PROVE Keeps
  BY <1>4 DEF Inserts
<1>5. ASSUME NEW e \in Event, Returns(e) PROVE Keeps
  BY <1>0, <1>5 DEF Returns
<1>6. ASSUME NEW e \in Event, Raises(e) PROVE Keeps
  BY <1>6 DEF Raises
<1>7. CASE Dies
  BY <1>0, <1>7 DEF Dies
<1>8. CASE UNCHANGED vars
  BY <1>8 DEF vars
<1> QED BY <1>1, <1>2, <1>3, <1>4, <1>5, <1>6, <1>7, <1>8 DEF Next

-----------------------------------------------------------------------------
(* In every reachable state the variables have their types (AuditLogger).   *)
THEOREM TrailTyped == Spec => []TypeOK
BY InitTyped, NextTyped, PTL DEF Spec

(* No order of overlapping, failing and dying flushes loses an event that   *)
(* was not appended during the await of a flush, nor pending at the end     *)
(* (_flush_pending_events).                                                 *)
THEOREM NothingElseIsLost == Spec => []LostOnlyIfLate
<1>1. Init => TrailInv
  BY InitTyped DEF TrailInv, Init, FlushesOK, LostOnlyIfLate, Flushing, InFlight
<1>2. TrailInv /\ [Next]_vars => TrailInv'
  BY NextTyped, NextKeepsTrail DEF TrailInv
<1>3. TrailInv => LostOnlyIfLate
  BY DEF TrailInv
<1> QED BY <1>1, <1>2, <1>3, PTL DEF Spec

(* An event of high risk that was answered with Ok is written once; an event *)
(* is written twice only by two flushes, and no flush takes what an earlier  *)
(* one has written and was answered with Ok (_write_event_to_database,       *)
(* _flush_pending_events).                                                   *)
THEOREM NothingElseIsTwice == Spec => TwiceOnlyIfShared
<1>1. Init => RowsInv
  BY InitTyped DEF RowsInv, Init, AlonesOK, RowsHaveWriters, RowsAreShared
<1>2. RowsInv /\ [Next]_vars => RowsInv'
  BY NextTyped, NextKeepsRows DEF RowsInv
<1>3. RowsInv => RowsAreShared
  BY DEF RowsInv
<1>4. Init => ClosedInv
  BY InitTyped DEF ClosedInv, Init, AlonesOK, ClosedOK
<1>5. RowsInv /\ ClosedInv /\ [Next]_vars => ClosedInv'
  BY NextTyped, NextKeepsRows, NextKeepsClosed DEF RowsInv, ClosedInv
<1>6. ClosedInv /\ [Next]_vars =>
        [\A f, g \in Event : pc[f] = "ok" /\ pc[g] = "new" => batch[f] \cap batch'[g] = {}]_vars
  BY TakesNothingClosed
<1> QED BY <1>1, <1>2, <1>3, <1>4, <1>5, <1>6, PTL DEF Spec, TwiceOnlyIfShared

(* A full batch is being flushed, or a flush has failed (log_event).        *)
THEOREM FullIsFlushed == Spec => []BacklogHasAFlush
<1>1. Init => BacklogInv
  BY InitTyped, FS_EmptySet DEF BacklogInv, Init, BacklogHasAFlush
<1>2. BacklogInv /\ [Next]_vars => BacklogInv'
  BY NextTyped, NextKeepsBacklog DEF BacklogInv
<1>3. BacklogInv => BacklogHasAFlush
  BY DEF BacklogInv
<1> QED BY <1>1, <1>2, <1>3, PTL DEF Spec

-----------------------------------------------------------------------------
(* The risk of a login (RiskEngine): pure decisions about a short memory.   *)

(* The last assessment is one of the factors that it was given, which the   *)
(* failures and the memory of that time bound.                              *)
Assessed(a) ==
  /\ a.factors \in Risk!Factors
  /\ a.level = Risk!LevelOf(a.factors)
  /\ a.factors.velocity >= 80 => a.failures >= 4
  /\ a.familiar => /\ a.factors.device = 0 /\ a.factors.velocity = 0
                   /\ a.factors.location <= 40

RiskInv ==
  /\ failures \in Nat /\ located \in BOOLEAN /\ None \notin devices
  /\ assessed # None => Assessed(assessed)

LEMMA FactorsTyped ==
  ASSUME NEW f \in Risk!Factors
  PROVE  /\ f.device \in {0, 70, 100} /\ f.location \in {0, 40, 60} /\ f.network \in {0, 30}
         /\ f.velocity \in {0, 20, 40, 60, 80, 100}
         /\ f = [device |-> f.device, location |-> f.location,
                 network |-> f.network, velocity |-> f.velocity]
  <1>1. /\ f.device \in {0, 70, 100} /\ f.location \in {0, 40, 60} /\ f.network \in {0, 30}
        /\ f.velocity \in {20 * n : n \in 0..5}
        /\ f = [device |-> f.device, location |-> f.location,
                network |-> f.network, velocity |-> f.velocity]
    BY DEF Risk!Factors
  <1>2. PICK n \in 0..5 : f.velocity = 20 * n
    BY <1>1
  <1>3. n = 0 \/ n = 1 \/ n = 2 \/ n = 3 \/ n = 4 \/ n = 5
    BY <1>2
  <1>4. f.velocity \in {0, 20, 40, 60, 80, 100}
    BY <1>2, <1>3
  <1> QED BY <1>1, <1>4

(* The level is read off the sum of the weighted signs, but for the one sum *)
(* that is rounded below its threshold.                                     *)
Weighted(f) == 30 * f.device + 65 * f.location + 20 * f.velocity + 20 * f.network

LEMMA LevelIs ==
  ASSUME NEW f \in Risk!Factors
  PROVE  /\ Weighted(f) \in Nat
         /\ Risk!LevelOf(f) \in 1..4
         /\ Risk!LevelOf(f) = 4 <=> Weighted(f) >= 9000
         /\ Risk!LevelOf(f) >= 3 <=> Weighted(f) >= 7000
         /\ Risk!LevelOf(f) >= 2 <=> Weighted(f) >= 4000 /\ ~ Risk!RoundedDown(f)
         /\ Risk!RoundedDown(f) => Weighted(f) = 4000
  <1>1. Weighted(f) \in Nat
    BY FactorsTyped DEF Weighted
  <1>2. Risk!Score(f) = IF Weighted(f) < 10000 THEN Weighted(f) ELSE 10000
    <2>1. Risk!Score(f) = Risk!Smaller(10000, 30 * f.device + (25 + 40) * f.location + 20 * f.velocity + 20 * f.network)
      BY DEF Risk!Score
    <2>2. 30 * f.device + (25 + 40) * f.location + 20 * f.velocity + 20 * f.network = Weighted(f)
      BY FactorsTyped DEF Weighted
    <2> QED BY <1>1, <2>1, <2>2 DEF Risk!Smaller
  <1>3. Risk!RoundedDown(f) => Weighted(f) = 4000
    BY DEF Risk!RoundedDown, Weighted
  <1> DEFINE w == Weighted(f)
             s == Risk!Score(f)
             l == Risk!LevelOf(f)
             down == Risk!RoundedDown(f)
  <1>4. l = CASE s >= 9000 -> 4 [] s \in 7000..8999 -> 3 [] s \in 4000..6999 /\ ~ down -> 2 [] OTHER -> 1
    BY DEF Risk!LevelOf
  <1>5. w \in Nat /\ s = (IF w < 10000 THEN w ELSE 10000) /\ (down => w = 4000) /\ down \in BOOLEAN
    BY <1>1, <1>2, <1>3 DEF Risk!RoundedDown
  <1> HIDE DEF w, s, l, down
  <1>6. s \in Nat
    BY <1>5
  <1>7. /\ s >= 9000 => l = 4
        /\ s \in 7000..8999 => l = 3
        /\ s \in 4000..6999 /\ ~ down => l = 2
        /\ s < 4000 => l = 1
        /\ down /\ s \in 4000..6999 => l = 1
    <2> DEFINE A == s >= 9000
               B == s \in 7000..8999
               C == s \in 4000..6999 /\ ~ down
    <2>1. l = CASE A -> 4 [] B -> 3 [] C -> 2 [] OTHER -> 1
      BY <1>4
    <2>2. /\ s >= 9000 => A /\ ~ B /\ ~ C
          /\ s \in 7000..8999 => ~ A /\ B /\ ~ C
          /\ s \in 4000..6999 /\ ~ down => ~ A /\ ~ B /\ C
          /\ s < 4000 => ~ A /\ ~ B /\ ~ C
          /\ down /\ s \in 4000..6999 => ~ A /\ ~ B /\ ~ C
      BY <1>6
    <2> HIDE DEF A, B, C
    <2>3. /\ A /\ ~ B /\ ~ C => l = 4
          /\ ~ A /\ B /\ ~ C => l = 3
          /\ ~ A /\ ~ B /\ C => l = 2
          /\ ~ A /\ ~ B /\ ~ C => l = 1
      BY <2>1, Zenon
    <2> QED BY <2>2, <2>3
  <1>8. /\ l \in 1..4
        /\ l = 4 <=> w >= 9000
        /\ l >= 3 <=> w >= 7000
        /\ l >= 2 <=> (w >= 4000 /\ ~ down)
    BY <1>5, <1>6, <1>7
  <1> QED BY <1>1, <1>3, <1>8 DEF w, l, down

(* Worse signs weigh more, and as much only when none of them is worse.     *)
LEMMA WorseWeighsMore ==
  ASSUME NEW f \in Risk!Factors, NEW g \in Risk!Factors, \A x \in DOMAIN g : g[x] >= f[x]
  PROVE  /\ Weighted(g) >= Weighted(f)
         /\ Weighted(g) = Weighted(f) => g = f
         /\ Risk!LevelOf(g) >= Risk!LevelOf(f)
  <1>1. DOMAIN g = {"device", "location", "network", "velocity"}
    BY DEF Risk!Factors
  <1>2. /\ g.device >= f.device /\ g.location >= f.location
        /\ g.network >= f.network /\ g.velocity >= f.velocity
    BY <1>1
  <1>3. /\ f.device \in Int /\ f.location \in Int /\ f.network \in Int /\ f.velocity \in Int
        /\ g.device \in Int /\ g.location \in Int /\ g.network \in Int /\ g.velocity \in Int
    BY FactorsTyped
  <1>4. Weighted(g) >= Weighted(f)
    BY <1>2, <1>3 DEF Weighted
  <1>5. ASSUME Weighted(g) = Weighted(f) PROVE g = f
    <2> DEFINE a == f.device
               b == f.location
               c == f.network
               d == f.velocity
               p == g.device
               q == g.location
               r == g.network
               s == g.velocity
    <2>1. 30 * p + 65 * q + 20 * s + 20 * r = 30 * a + 65 * b + 20 * d + 20 * c
      BY <1>5 DEF Weighted
    <2>2. a = p /\ b = q /\ c = r /\ d = s
      <3>1. /\ a \in Int /\ b \in Int /\ c \in Int /\ d \in Int
            /\ p \in Int /\ q \in Int /\ r \in Int /\ s \in Int
            /\ p >= a /\ q >= b /\ r >= c /\ s >= d
        BY <1>2, <1>3
      <3> HIDE DEF a, b, c, d, p, q, r, s
      <3> QED BY <2>1, <3>1
    <2> QED BY <2>2, FactorsTyped
  <1>6. Risk!RoundedDown(g) /\ Weighted(g) = Weighted(f) => Risk!RoundedDown(f)
    BY <1>5
  <1> DEFINE lg == Risk!LevelOf(g)
             lf == Risk!LevelOf(f)
             wg == Weighted(g)
             wf == Weighted(f)
             dg == Risk!RoundedDown(g)
             df == Risk!RoundedDown(f)
  <1>7. /\ wg \in Nat /\ wf \in Nat /\ lg \in 1..4 /\ lf \in 1..4 /\ wg >= wf
        /\ lg = 4 <=> wg >= 9000
        /\ lf = 4 <=> wf >= 9000
        /\ lg >= 3 <=> wg >= 7000
        /\ lf >= 3 <=> wf >= 7000
        /\ lg >= 2 <=> (wg >= 4000 /\ ~ dg)
        /\ lf >= 2 <=> (wf >= 4000 /\ ~ df)
        /\ dg => wg = 4000
        /\ (dg /\ wg = wf) => df
    BY <1>4, <1>6, LevelIs
  <1> HIDE DEF lg, lf, wg, wf, dg, df
  <1>8. lg >= lf
    BY <1>7
  <1> QED BY <1>4, <1>5, <1>8 DEF lg, lf

(* What the parts of an assessment come to (assess_risk).                   *)
LEMMA AssessesKeeps ==
  ASSUME RiskInv, NEW d, NEW safe \in BOOLEAN, Risk!Assesses(d, safe)
  PROVE  RiskInv'
  <1>1. PICK reads \in BOOLEAN, writes \in BOOLEAN, places \in BOOLEAN, stores \in BOOLEAN, counts \in BOOLEAN :
          LET f == [device   |-> Risk!DeviceRisk(d, reads),
                    location |-> Risk!LocationRisk(places, stores),
                    network  |-> IF safe THEN 0 ELSE 30,
                    velocity |-> IF counts THEN Risk!Smaller(20 * failures, 100) ELSE 0]
          IN  /\ assessed' = [factors |-> f, level |-> Risk!LevelOf(f), failures |-> failures,
                              familiar |-> d \in devices /\ located /\ failures = 0]
              /\ devices' = IF d # None /\ reads /\ writes THEN devices \cup {d} ELSE devices
              /\ located' = (located \/ (places /\ stores))
              /\ UNCHANGED failures
    BY DEF Risk!Assesses
  <1> DEFINE device   == Risk!DeviceRisk(d, reads)
             location == Risk!LocationRisk(places, stores)
             network  == IF safe THEN 0 ELSE 30
             velocity == IF counts THEN Risk!Smaller(20 * failures, 100) ELSE 0
             f == [device |-> device, location |-> location, network |-> network, velocity |-> velocity]
             familiar == d \in devices /\ located /\ failures = 0
  <1>2. device \in {0, 70, 100} /\ (d \in devices => device = 0)
    BY DEF Risk!DeviceRisk, RiskInv
  <1>3. location \in {0, 40, 60} /\ (located => location <= 40)
    BY DEF Risk!LocationRisk
  <1>4. network \in {0, 30}
    OBVIOUS
  <1>5. /\ velocity \in {20 * n : n \in 0..5}
        /\ velocity >= 80 => failures >= 4
        /\ failures = 0 => velocity = 0
    <2>1. failures \in Nat /\ Risk!Smaller(20 * failures, 100) = IF 20 * failures < 100 THEN 20 * failures ELSE 100
      BY DEF Risk!Smaller, RiskInv
    <2> DEFINE n == IF counts THEN (IF failures < 5 THEN failures ELSE 5) ELSE 0
    <2>2. n \in 0..5 /\ velocity = 20 * n
      BY <2>1
    <2>3. velocity \in {20 * k : k \in 0..5}
      BY <2>2
    <2>4. (velocity >= 80 => failures >= 4) /\ (failures = 0 => velocity = 0)
      BY <2>1
    <2> QED BY <2>3, <2>4
  <1> HIDE DEF device, location, network, velocity
  <1>6. /\ f \in Risk!Factors /\ f.device = device /\ f.location = location /\ f.velocity = velocity
    BY <1>2, <1>3, <1>4, <1>5 DEF Risk!Factors
  <1>7. /\ assessed' = [factors |-> f, level |-> Risk!LevelOf(f), failures |-> failures, familiar |-> familiar]
        /\ devices' \subseteq devices \cup {d} /\ (d = None => devices' = devices)
        /\ located' \in BOOLEAN /\ failures' = failures
    BY <1>1 DEF RiskInv, device, location, network, velocity
  <1> HIDE DEF f
  <1>8. Assessed(assessed')
    BY <1>2, <1>3, <1>5, <1>6, <1>7 DEF Assessed
  <1>9. failures \in Nat /\ None \notin devices
    BY DEF RiskInv
  <1>10. failures' \in Nat /\ located' \in BOOLEAN /\ None \notin devices'
    BY <1>7, <1>9
  <1>11. Assessed(assessed)'
    BY <1>8 DEF Assessed
  <1> QED BY <1>10, <1>11, Zenon DEF RiskInv

LEMMA NextKeepsRisk == RiskInv /\ [Risk!Next]_Risk!vars => RiskInv'
  <1> SUFFICES ASSUME RiskInv, [Risk!Next]_Risk!vars PROVE RiskInv'
    OBVIOUS
  <1>1. CASE Risk!FailsToLogIn
    BY <1>1 DEF Risk!FailsToLogIn, RiskInv, Assessed
  <1>2. CASE Risk!Forgets
    <2>1. failures' \in Nat /\ located' \in BOOLEAN /\ None \notin devices' /\ UNCHANGED assessed
      <3>1. failures \in Nat /\ located \in BOOLEAN /\ None \notin devices
        BY DEF RiskInv
      <3>2. /\ devices' \in SUBSET devices /\ (located' = FALSE \/ located' = located)
            /\ (failures' = 0 \/ failures' = failures) /\ UNCHANGED assessed
        BY <1>2 DEF Risk!Forgets
      <3>3. failures' \in Nat
        BY <3>1, <3>2
      <3>4. located' \in BOOLEAN /\ None \notin devices'
        BY <3>1, <3>2
      <3> QED BY <3>2, <3>3, <3>4
    <2> QED BY <2>1 DEF RiskInv, Assessed
  <1>3. CASE UNCHANGED Risk!vars
    BY <1>3 DEF Risk!vars, RiskInv, Assessed
  <1> QED BY <1>1, <1>2, <1>3, AssessesKeeps DEF Risk!Next

(* The first of some methods in the order of priority is one of them.       *)
LEMMA FirstIsOne ==
  ASSUME NEW S \in SUBSET Risk!Method
  PROVE  IF S = {} THEN Risk!First(S) = None ELSE Risk!First(S) \in S
  <1>1. CASE S = {}
    BY <1>1 DEF Risk!First
  <1>2. CASE S # {}
    <2> DEFINE Comes(i) == Risk!Priority[i] \in S /\ \A j \in 1..(i - 1) : Risk!Priority[j] \notin S
    <2>1. /\ DOMAIN Risk!Priority = 1..4
          /\ Risk!Priority[1] = "webauthn" /\ Risk!Priority[2] = "totp"
          /\ Risk!Priority[3] = "sms" /\ Risk!Priority[4] = "recovery"
      BY DEF Risk!Priority
    <2>2. \E i \in 1..4 : Comes(i)
      <3>1. S \cap {"webauthn", "totp", "sms", "recovery"} # {}
        BY <1>2 DEF Risk!Method
      <3>2. CASE "webauthn" \in S
        <4>1. Comes(1)
          BY <2>1, <3>2
        <4> QED BY <4>1
      <3>3. CASE "webauthn" \notin S /\ "totp" \in S
        <4>1. \A j \in 1..(2 - 1) : j = 1
          OBVIOUS
        <4>2. Comes(2)
          BY <2>1, <3>3, <4>1
        <4> QED BY <4>2
      <3>4. CASE "webauthn" \notin S /\ "totp" \notin S /\ "sms" \in S
        <4>1. \A j \in 1..(3 - 1) : j = 1 \/ j = 2
          OBVIOUS
        <4>2. Comes(3)
          BY <2>1, <3>4, <4>1
        <4> QED BY <4>2
      <3>5. CASE "webauthn" \notin S /\ "totp" \notin S /\ "sms" \notin S /\ "recovery" \in S
        <4>1. \A j \in 1..(4 - 1) : j = 1 \/ j = 2 \/ j = 3
          OBVIOUS
        <4>2. Comes(4)
          BY <2>1, <3>5, <4>1
        <4> QED BY <4>2
      <3> QED BY <3>1, <3>2, <3>3, <3>4, <3>5
    <2> DEFINE first == CHOOSE i \in 1..4 : Comes(i)
    <2>3. Comes(first)
      <3> HIDE DEF Comes
      <3> QED BY <2>2
    <2>4. Risk!First(S) = Risk!Priority[first]
      BY <1>2, <2>1 DEF Risk!First
    <2> QED BY <1>2, <2>3, <2>4
  <1> QED BY <1>1, <1>2

(* What is recommended at the levels (_get_recommended_methods).            *)
LEMMA RecommendedIs ==
  /\ Risk!Recommended(1) = {}
  /\ \A level \in 2..4 : Risk!Recommended(level) # {}
  <1>1. /\ Risk!Recommended(1) = {} /\ Risk!Recommended(2) = {"totp", "sms"}
        /\ Risk!Recommended(3) = {"totp", "webauthn"} /\ Risk!Recommended(4) = {"webauthn"}
    BY DEF Risk!Recommended
  <1>2. \A level \in 2..4 : level = 2 \/ level = 3 \/ level = 4
    OBVIOUS
  <1> QED BY <1>1, <1>2

LEMMA OfferIsOne ==
  ASSUME NEW available \in SUBSET Risk!Method, NEW level \in 1..4, NEW wanted
  PROVE  LET chosen == Risk!Selected(available, level, wanted)
             fitting == IF level = 1 THEN available ELSE available \cap Risk!Recommended(level)
         IN  IF fitting = {} THEN chosen = None ELSE chosen \in fitting
  <1> DEFINE fitting == IF level = 1 THEN available ELSE available \cap Risk!Recommended(level)
  <1>1. fitting = IF Risk!Recommended(level) = {} THEN available ELSE available \cap Risk!Recommended(level)
    BY RecommendedIs
  <1>2. fitting \in SUBSET Risk!Method
    OBVIOUS
  <1>3. Risk!Selected(available, level, wanted) = IF wanted \in fitting THEN wanted ELSE Risk!First(fitting)
    BY <1>1 DEF Risk!Selected
  <1> HIDE DEF fitting
  <1>4. IF fitting = {} THEN Risk!Selected(available, level, wanted) = None
        ELSE Risk!Selected(available, level, wanted) \in fitting
    BY <1>2, <1>3, FirstIsOne
  <1> QED BY <1>4 DEF fitting

(* For any devices and however many failures: a worse sign never lowers the *)
(* level of a login; only failed logins, four at least, take it to the      *)
(* highest; one from a known place and device without any stays at the      *)
(* lowest, whatever the cache fails to tell; and the method that is offered *)
(* is one that the level allows whenever the user has such a one            *)
(* (assess_risk, _determine_risk_level, _select_mfa_method).                *)
THEOREM RisksAreOrdered == Risk!Spec => []RiskFits
  <1>1. Risk!Init => RiskInv
    <2> SUFFICES ASSUME Risk!Init PROVE RiskInv
      OBVIOUS
    <2>1. failures = 0 /\ located = FALSE /\ devices = {} /\ assessed = None
      BY DEF Risk!Init
    <2>2. 0 \in Nat
      OBVIOUS
    <2> QED BY <2>1, <2>2, Zenon DEF RiskInv
  <1>2. RiskInv => Risk!WorseIsNotLower
    BY WorseWeighsMore DEF RiskInv, Assessed, Risk!WorseIsNotLower
  <1>3. RiskInv => Risk!FailuresDecide
    <2> SUFFICES ASSUME Assessed(assessed)
                 PROVE  /\ assessed.level = 4 => assessed.failures >= 4
                        /\ assessed.familiar => assessed.level = 1
      BY DEF RiskInv, Risk!FailuresDecide
    <2> DEFINE f == assessed.factors
    <2>1. f \in Risk!Factors /\ assessed.level = Risk!LevelOf(f)
      BY DEF Assessed
    <2>2. assessed.level = 4 => f.velocity >= 80
      <3>1. ~ (f.velocity >= 80) => Weighted(f) < 9000
        BY <2>1, FactorsTyped DEF Weighted
      <3>2. Weighted(f) \in Nat /\ (assessed.level = 4 <=> Weighted(f) >= 9000)
        BY <2>1, LevelIs
      <3> QED BY <3>1, <3>2
    <2>3. assessed.familiar => assessed.level = 1
      <3>1. f.device = 0 /\ f.velocity = 0 /\ f.location <= 40 => Weighted(f) < 4000
        BY <2>1, FactorsTyped DEF Weighted
      <3>2. Weighted(f) < 4000 => Risk!LevelOf(f) = 1
        BY <2>1, LevelIs
      <3> QED BY <2>1, <3>1, <3>2 DEF Assessed
    <2> QED BY <2>2, <2>3 DEF Assessed
  <1>4. RiskInv => Risk!OfferFits
    <2> SUFFICES ASSUME Assessed(assessed), NEW available \in SUBSET Risk!Method, NEW wanted \in Risk!Method
                 PROVE  LET chosen == Risk!Selected(available, assessed.level, wanted)
                            fitting == IF assessed.level = 1 THEN available
                                       ELSE available \cap Risk!Recommended(assessed.level)
                        IN  IF fitting = {} THEN chosen = None ELSE chosen \in fitting
      BY DEF RiskInv, Risk!OfferFits
    <2>1. assessed.level \in 1..4
      BY LevelIs DEF Assessed
    <2> QED BY <2>1, OfferIsOne
  <1>5. RiskInv => RiskFits
    BY <1>2, <1>3, <1>4 DEF RiskFits, Risk!RiskFits
  <1> QED BY <1>1, <1>5, NextKeepsRisk, PTL DEF Risk!Spec

-----------------------------------------------------------------------------
(* The scopes of a token (Scopes). *)

\* What the calls under way have left to add.
Pending == UNION {calls[i] : i \in DOMAIN calls}
Reached == expanded \cup Pending

Closed(X) == \A s \in X : OAuth!Includes(s) \subseteq X

ScopesTyped ==
  /\ scopesAt \in {"called", "refused", "validates", "granted", "checks", "checked"}
  /\ expanded \subseteq OAuth!Scope
  /\ calls \in Seq(SUBSET OAuth!Scope)
  /\ scopesAt \notin {"called", "refused"} => scopes \subseteq OAuth!Scope
  /\ scopesAt \notin {"validates", "checks"} => calls = <<>>
  /\ scopesAt = "called" => expanded = {}

\* Between what is expanded and what is pending nothing is missing, and
\* nothing is there but for the scopes asked for and what those include.
Expanding == scopesAt \notin {"called", "refused"} =>
  /\ scopes \subseteq Reached
  /\ \A s \in expanded : OAuth!Includes(s) \subseteq Reached
  /\ \A s \in Reached \ scopes : \E r \in expanded : s \in OAuth!Includes(r)
  /\ \A X : scopes \subseteq X /\ Closed(X) => Reached \subseteq X

ScopesInv ==
  /\ ScopesTyped /\ Expanding
  /\ scopesAt \in {"checks", "checked"} => Closed(scopes)

LEMMA IncludesAre ==
    /\ \A s \in OAuth!Scope : OAuth!Includes(s) \subseteq OAuth!Scope
    /\ OAuth!Includes("user:write") = {"user:read"}
    /\ OAuth!Includes("quote:write") = {"quote:read"}
    /\ OAuth!Includes("quote:calculate") = {"quote:read"}
    /\ OAuth!Includes("quote:convert") = {"quote:read", "policy:write"}
    /\ OAuth!Includes("policy:write") = {"policy:read"}
    /\ OAuth!Includes("policy:cancel") = {"policy:read", "policy:write"}
    /\ OAuth!Includes("claim:write") = {"claim:read"}
    /\ OAuth!Includes("claim:approve") = {"claim:read", "claim:write"}
    /\ OAuth!Includes("analytics:export") = {"analytics:read"}
    /\ OAuth!Includes("admin:system") = {"admin:users", "admin:clients"}
<1>1. ASSUME NEW s
      PROVE  OAuth!Includes(s) =
               IF s = "user:write" THEN {"user:read"}
               ELSE IF s = "quote:write" THEN {"quote:read"}
               ELSE IF s = "quote:calculate" THEN {"quote:read"}
               ELSE IF s = "quote:convert" THEN {"quote:read", "policy:write"}
               ELSE IF s = "policy:write" THEN {"policy:read"}
               ELSE IF s = "policy:cancel" THEN {"policy:read", "policy:write"}
               ELSE IF s = "claim:write" THEN {"claim:read"}
               ELSE IF s = "claim:approve" THEN {"claim:read", "claim:write"}
               ELSE IF s = "analytics:export" THEN {"analytics:read"}
               ELSE IF s = "admin:system" THEN {"admin:users", "admin:clients"}
               ELSE {}
  BY DEF OAuth!Includes
<1>2. \A s \in OAuth!Scope : OAuth!Includes(s) \subseteq OAuth!Scope
  BY <1>1 DEF OAuth!Scope
<1> QED BY <1>1, <1>2

\* The calls under way when one of them adds a scope, calls another, or ends.
LEMMA InnermostAdds ==
    ASSUME NEW s, calls # <<>>, s \in Head(calls), calls \in Seq(SUBSET OAuth!Scope),
           NEW T \in SUBSET OAuth!Scope
    PROVE  /\ s \in OAuth!Scope
           /\ OAuth!Rest(s) \in Seq(SUBSET OAuth!Scope)
           /\ <<T>> \o OAuth!Rest(s) \in Seq(SUBSET OAuth!Scope)
           /\ Pending = {s} \cup UNION {OAuth!Rest(s)[i] : i \in DOMAIN OAuth!Rest(s)}
           /\ UNION {(<<T>> \o OAuth!Rest(s))[i] : i \in DOMAIN (<<T>> \o OAuth!Rest(s))}
                = T \cup UNION {OAuth!Rest(s)[i] : i \in DOMAIN OAuth!Rest(s)}
<1> DEFINE A == SUBSET OAuth!Scope
           rest == OAuth!Rest(s)
           n == Len(calls)
<1>1. n \in Nat /\ n > 0 /\ DOMAIN calls = 1..n /\ Head(calls) = calls[1] /\ calls[1] \in A
  OBVIOUS
<1>2. s \in OAuth!Scope
  BY <1>1
<1>3. /\ rest \in Seq(A) /\ Len(rest) = n
      /\ rest[1] = calls[1] \ {s} /\ \A i \in 2..n : rest[i] = calls[i]
  <2>1. Tail(calls) \in Seq(A) /\ Len(Tail(calls)) = n - 1
        /\ \A i \in 1..(n - 1) : Tail(calls)[i] = calls[i + 1]
    BY <1>1
  <2> DEFINE t == Tail(calls)
             first == Head(calls) \ {s}
  <2>2. first \in A /\ <<first>> \in Seq(A) /\ Len(<<first>>) = 1 /\ <<first>>[1] = first
    BY <1>1
  <2>3. rest = <<first>> \o t
    BY DEF OAuth!Rest
  <2>4. first = calls[1] \ {s}
    BY <1>1
  <2> HIDE DEF t, first, A, rest, n
  <2>5. rest \in Seq(A) /\ Len(rest) = n
    BY <1>1, <2>1, <2>2, <2>3 DEF t
  <2>6. rest[1] = first
    BY <1>1, <2>1, <2>2, <2>3 DEF t
  <2>7. ASSUME NEW i \in 2..n PROVE rest[i] = calls[i]
    <3>1. i - 1 \in 1..(n - 1) /\ (i - 1) + 1 = i
      BY <1>1
    <3>2. rest[i] = t[i - 1]
      BY <1>1, <2>1, <2>2, <2>3, <3>1 DEF t
    <3> QED BY <2>1, <3>1, <3>2 DEF t
  <2> QED BY <2>4, <2>5, <2>6, <2>7
<1> HIDE DEF rest, n
<1>4. DOMAIN rest = 1..n /\ 1 \in 1..n /\ \A i \in 1..n : i = 1 \/ i \in 2..n
  BY <1>1, <1>3
<1>5. Pending = {s} \cup UNION {rest[i] : i \in DOMAIN rest}
  <2>1. \A x : x \in Pending <=> \E i \in 1..n : x \in calls[i]
    BY <1>1 DEF Pending
  <2>2. \A x : x \in UNION {rest[i] : i \in DOMAIN rest} <=> \E i \in 1..n : x \in rest[i]
    BY <1>4
  <2>3. s \in calls[1]
    BY <1>1
  <2> SUFFICES ASSUME NEW x
               PROVE  x \in Pending <=> x = s \/ x \in UNION {rest[i] : i \in DOMAIN rest}
    OBVIOUS
  <2>4. ASSUME NEW i \in 1..n, x \in calls[i]
        PROVE  x = s \/ \E j \in 1..n : x \in rest[j]
    BY <1>3, <1>4, <2>4
  <2>5. ASSUME NEW i \in 1..n, x \in rest[i]
        PROVE  \E j \in 1..n : x \in calls[j]
    BY <1>3, <1>4, <2>5
  <2> QED BY <1>4, <2>1, <2>2, <2>3, <2>4, <2>5
<1> DEFINE more == <<T>> \o rest
<1>6. /\ more \in Seq(A) /\ Len(more) = n + 1 /\ more[1] = T
      /\ \A i \in 1..n : more[i + 1] = rest[i]
  BY <1>1, <1>3, <1>4
<1> HIDE DEF more
<1>7. UNION {more[i] : i \in DOMAIN more} = T \cup UNION {rest[i] : i \in DOMAIN rest}
  <2>1. /\ DOMAIN more = 1..(n + 1) /\ 1 \in 1..(n + 1)
        /\ \A i \in 1..(n + 1) : i = 1 \/ (i - 1 \in 1..n /\ (i - 1) + 1 = i)
        /\ \A i \in 1..n : i + 1 \in 1..(n + 1)
    BY <1>1, <1>6
  <2>a. \A x : x \in UNION {more[i] : i \in DOMAIN more} <=> \E i \in 1..(n + 1) : x \in more[i]
    BY <2>1
  <2>b. \A x : x \in UNION {rest[i] : i \in DOMAIN rest} <=> \E i \in 1..n : x \in rest[i]
    BY <1>4
  <2> DEFINE U == UNION {more[i] : i \in DOMAIN more}
             V == UNION {rest[i] : i \in DOMAIN rest}
  <2> SUFFICES ASSUME NEW x PROVE x \in U <=> (x \in T \/ x \in V)
    OBVIOUS
  <2>2. ASSUME NEW i \in 1..(n + 1), x \in more[i]
        PROVE  x \in T \/ \E j \in 1..n : x \in rest[j]
    <3>1. CASE i = 1
      BY <1>6, <2>2, <3>1
    <3>2. CASE i - 1 \in 1..n /\ (i - 1) + 1 = i
      <4>1. more[(i - 1) + 1] = rest[i - 1]
        BY <1>6, <3>2
      <4>2. x \in rest[i - 1]
        BY <2>2, <3>2, <4>1
      <4> QED BY <3>2, <4>2
    <3> QED BY <2>1, <3>1, <3>2
  <2>3. ASSUME NEW i \in 1..n, x \in rest[i]
        PROVE  \E j \in 1..(n + 1) : x \in more[j]
    BY <1>6, <2>1, <2>3
  <2>c. x \in T => \E j \in 1..(n + 1) : x \in more[j]
    BY <1>6, <2>1
  <2>d. (\E j \in 1..(n + 1) : x \in more[j]) <=> (x \in T \/ \E j \in 1..n : x \in rest[j])
    BY <2>2, <2>3, <2>c
  <2> QED BY <2>a, <2>b, <2>d
<1> QED BY <1>2, <1>3, <1>5, <1>6, <1>7 DEF rest, more

LEMMA InnermostEnds ==
    ASSUME calls # <<>>, Head(calls) = {}, calls \in Seq(SUBSET OAuth!Scope)
    PROVE  /\ Tail(calls) \in Seq(SUBSET OAuth!Scope)
           /\ Pending = UNION {Tail(calls)[i] : i \in DOMAIN Tail(calls)}
<1> DEFINE A == SUBSET OAuth!Scope
           rest == Tail(calls)
           n == Len(calls)
<1>1. n \in Nat /\ n > 0 /\ DOMAIN calls = 1..n /\ calls[1] = {}
  OBVIOUS
<1>2. rest \in Seq(A) /\ Len(rest) = n - 1 /\ DOMAIN rest = 1..(n - 1)
      /\ \A i \in 1..(n - 1) : rest[i] = calls[i + 1]
  BY <1>1
<1> HIDE DEF rest, n
<1>3. \A i \in 1..n : i = 1 \/ (i - 1 \in 1..(n - 1) /\ (i - 1) + 1 = i)
  BY <1>1
<1>4. \A i \in 1..(n - 1) : i + 1 \in 1..n
  BY <1>1
<1>5. ASSUME NEW x
      PROVE  (\E i \in 1..n : x \in calls[i]) <=> (\E i \in 1..(n - 1) : x \in rest[i])
  <2>1. ASSUME NEW i \in 1..n, x \in calls[i] PROVE \E j \in 1..(n - 1) : x \in rest[j]
    <3>1. i # 1
      BY <1>1, <2>1
    <3>2. i - 1 \in 1..(n - 1) /\ (i - 1) + 1 = i
      BY <1>3, <3>1
    <3>3. rest[i - 1] = calls[(i - 1) + 1]
      BY <1>2, <3>2
    <3>4. x \in rest[i - 1]
      BY <2>1, <3>2, <3>3
    <3> QED BY <3>2, <3>4
  <2>2. ASSUME NEW i \in 1..(n - 1), x \in rest[i] PROVE \E j \in 1..n : x \in calls[j]
    BY <1>2, <1>4, <2>2
  <2> QED BY <2>1, <2>2
<1>6. Pending = UNION {rest[i] : i \in DOMAIN rest}
  <2>1. \A x : x \in Pending <=> \E i \in 1..n : x \in calls[i]
    BY <1>1 DEF Pending
  <2>2. \A x : x \in UNION {rest[i] : i \in DOMAIN rest} <=> \E i \in 1..(n - 1) : x \in rest[i]
    BY <1>2
  <2> HIDE DEF Pending
  <2>3. \A x : x \in Pending <=> x \in UNION {rest[i] : i \in DOMAIN rest}
    BY <1>5, <2>1, <2>2
  <2> QED BY <2>3
<1> QED BY <1>2, <1>6 DEF rest

LEMMA ScopesInit == OAuth!Init => ScopesInv
<1> SUFFICES ASSUME OAuth!Init PROVE ScopesInv
  OBVIOUS
<1>1. scopesAt = "called" /\ expanded = {} /\ calls = <<>>
  BY DEF OAuth!Init
<1> QED BY <1>1 DEF ScopesInv, ScopesTyped, Expanding

\* A call of expand_scopes starts with all of its scopes pending.
LEMMA ExpansionStarts ==
    ASSUME ScopesInv, \/ scopesAt = "called" /\ scopesAt' = "validates" /\ scopes' \subseteq OAuth!Scope
                      \/ scopesAt = "granted" /\ scopesAt' = "checks" /\ scopes' = expanded,
           calls' = <<scopes'>>, expanded' = {}
    PROVE  ScopesInv'
<1> DEFINE A == SUBSET OAuth!Scope
           s == scopes'
<1>1. s \in A
  BY DEF ScopesInv, ScopesTyped
<1>2. calls' \in Seq(A) /\ Len(calls') = 1 /\ DOMAIN calls' = 1..1 /\ calls'[1] = s
  BY <1>1
<1>3. Pending' = s
  BY <1>2 DEF Pending
<1>4. Reached' = s
  BY <1>3 DEF Reached
<1>5. scopesAt' = "checks" => Closed(s)
  <2> SUFFICES ASSUME scopesAt' = "checks" PROVE Closed(s)
    OBVIOUS
  <2>1. scopesAt = "granted" /\ s = expanded /\ calls = <<>>
    BY DEF ScopesInv, ScopesTyped
  <2>2. Pending = {}
    BY <2>1 DEF Pending
  <2>3. \A r \in expanded : OAuth!Includes(r) \subseteq expanded
    BY <2>1, <2>2 DEF ScopesInv, Expanding, Reached
  <2> QED BY <2>1, <2>3 DEF Closed
<1>6. ScopesTyped'
  BY <1>1, <1>2 DEF ScopesInv, ScopesTyped
<1>7. Expanding'
  BY <1>4 DEF Expanding
<1>8. scopesAt' \in {"checks", "checked"} => Closed(scopes)'
  <2>1. Closed(scopes)' = Closed(s)
    BY DEF Closed
  <2>2. scopesAt' # "checked"
    OBVIOUS
  <2> QED BY <1>5, <2>1, <2>2
<1> QED BY <1>6, <1>7, <1>8 DEF ScopesInv

LEMMA AddsKeeps ==
    ASSUME ScopesInv, NEW s \in OAuth!Scope, OAuth!Adds(s)
    PROVE  ScopesInv'
<1> DEFINE T == OAuth!Includes(s)
           rest == OAuth!Rest(s)
           R == UNION {rest[i] : i \in DOMAIN rest}
<1>1. /\ calls # <<>> /\ s \in Head(calls) /\ calls \in Seq(SUBSET OAuth!Scope)
      /\ scopes' = scopes /\ scopesAt' = scopesAt /\ T \in SUBSET OAuth!Scope
      /\ scopesAt \in {"validates", "checks"}
  BY IncludesAre DEF ScopesInv, ScopesTyped, OAuth!Adds
<1>2. /\ rest \in Seq(SUBSET OAuth!Scope) /\ <<T>> \o rest \in Seq(SUBSET OAuth!Scope)
      /\ Pending = {s} \cup R
      /\ UNION {(<<T>> \o rest)[i] : i \in DOMAIN (<<T>> \o rest)} = T \cup R
  BY <1>1, InnermostAdds
<1>3. /\ scopes \subseteq Reached
      /\ \A r \in expanded : OAuth!Includes(r) \subseteq Reached
      /\ \A x \in Reached \ scopes : \E r \in expanded : x \in OAuth!Includes(r)
      /\ \A X : scopes \subseteq X /\ Closed(X) => Reached \subseteq X
  BY <1>1 DEF ScopesInv, Expanding
<1>4. CASE s \in expanded
  <2>1. calls' = rest /\ expanded' = expanded
    BY <1>4 DEF OAuth!Adds
  <2>2. Pending' = R
    BY <2>1 DEF Pending
  <2> HIDE DEF R, rest, T
  <2>3. Reached' = Reached
    BY <1>2, <1>4, <2>1, <2>2 DEF Reached
  <2>4. ScopesTyped'
    BY <1>1, <1>2, <2>1 DEF ScopesInv, ScopesTyped
  <2>5. Expanding'
    BY <1>1, <1>3, <2>1, <2>3 DEF Expanding
  <2> QED BY <1>1, <2>4, <2>5 DEF ScopesInv, Closed
<1>5. CASE s \notin expanded
  <2>1. calls' = <<T>> \o rest /\ expanded' = expanded \cup {s}
    BY <1>5 DEF OAuth!Adds
  <2>2. Pending' = T \cup R
    BY <1>2, <2>1 DEF Pending
  <2> HIDE DEF R, rest
  <2>3. Reached' = Reached \cup T
    BY <1>2, <2>1, <2>2 DEF Reached
  <2>4. ScopesTyped'
    BY <1>1, <1>2, <2>1 DEF ScopesInv, ScopesTyped
  <2>5. \A r \in expanded' : OAuth!Includes(r) \subseteq Reached'
    BY <1>3, <2>1, <2>3
  <2>6. \A x \in Reached' \ scopes : \E r \in expanded' : x \in OAuth!Includes(r)
    BY <1>3, <2>1, <2>3
  <2>7. ASSUME NEW X, scopes \subseteq X, Closed(X) PROVE Reached' \subseteq X
    <3>1. Reached \subseteq X /\ s \in X
      BY <1>2, <1>3, <2>7 DEF Reached
    <3>2. T \subseteq X
      BY <2>7, <3>1 DEF Closed
    <3> QED BY <2>3, <3>1, <3>2
  <2>8. \A X : Closed(X)' <=> Closed(X)
    BY DEF Closed
  <2>9. Expanding'
    <3>1. scopes' \subseteq Reached'
      BY <1>1, <1>3, <2>3
    <3> HIDE DEF Reached, Closed, T
    <3> QED BY <1>1, <2>5, <2>6, <2>7, <2>8, <3>1 DEF Expanding
  <2> QED BY <1>1, <2>4, <2>9 DEF ScopesInv, Closed
<1> QED BY <1>4, <1>5

LEMMA ReturnsKeeps ==
    ASSUME ScopesInv, OAuth!Returns
    PROVE  ScopesInv'
<1>1. /\ calls # <<>> /\ Head(calls) = {} /\ calls \in Seq(SUBSET OAuth!Scope)
      /\ scopes' = scopes /\ expanded' = expanded /\ calls' = Tail(calls)
      /\ scopesAt \in {"validates", "checks"}
  BY DEF ScopesInv, ScopesTyped, OAuth!Returns
<1>2. /\ calls' # <<>> => scopesAt' = scopesAt
      /\ calls' = <<>> => scopesAt' = IF scopesAt = "validates" THEN "granted" ELSE "checked"
  BY <1>1 DEF OAuth!Returns
<1>3. calls' \in Seq(SUBSET OAuth!Scope) /\ Pending' = Pending
  <2>1. Tail(calls) \in Seq(SUBSET OAuth!Scope) /\ Pending = UNION {Tail(calls)[i] : i \in DOMAIN Tail(calls)}
    BY <1>1, InnermostEnds
  <2> QED BY <1>1, <2>1 DEF Pending
<1>4. Reached' = Reached
  BY <1>1, <1>3 DEF Reached
<1>5. ScopesTyped'
  BY <1>1, <1>2, <1>3 DEF ScopesInv, ScopesTyped
<1>6. Expanding'
  BY <1>1, <1>2, <1>4 DEF ScopesInv, Expanding, Closed
<1>7. scopesAt' \in {"checks", "checked"} => scopesAt = "checks"
  BY <1>1, <1>2
<1>8. Closed(scopes)' <=> Closed(scopes)
  BY <1>1 DEF Closed
<1> QED BY <1>5, <1>6, <1>7, <1>8 DEF ScopesInv

LEMMA ScopesKeeps ==
    ASSUME ScopesInv, [OAuth!Next]_OAuth!vars
    PROVE  ScopesInv'
<1>1. CASE OAuth!Validates
  <2>1. CASE OAuth!Valid
    <3>1. /\ scopesAt = "called" /\ scopesAt' = "validates" /\ scopes' \subseteq OAuth!Scope
          /\ calls' = <<scopes'>> /\ expanded' = expanded
      BY <1>1, <2>1 DEF OAuth!Validates, OAuth!Valid
    <3>2. expanded = {} => ScopesInv'
      BY <3>1, ExpansionStarts
    <3> QED BY <3>1, <3>2 DEF ScopesInv, ScopesTyped
  <2>2. CASE ~ OAuth!Valid
    <3>1. /\ scopesAt = "called" /\ scopesAt' = "refused" /\ scopes' = scopes
          /\ calls' = calls /\ expanded' = expanded
      BY <1>1, <2>2 DEF OAuth!Validates
    <3>2. ScopesTyped'
      BY <3>1 DEF ScopesInv, ScopesTyped
    <3>3. Expanding' /\ scopesAt' \notin {"checks", "checked"}
      BY <3>1 DEF Expanding
    <3> QED BY <3>2, <3>3 DEF ScopesInv
  <2> QED BY <2>1, <2>2
<1>2. CASE OAuth!Checks
  BY <1>2, ExpansionStarts DEF OAuth!Checks
<1>3. CASE \E s \in OAuth!Scope : OAuth!Adds(s)
  BY <1>3, AddsKeeps
<1>4. CASE OAuth!Returns
  BY <1>4, ReturnsKeeps
<1>5. CASE UNCHANGED OAuth!vars
  <2>1. /\ scopes' = scopes /\ expanded' = expanded /\ calls' = calls /\ scopesAt' = scopesAt
    BY <1>5 DEF OAuth!vars
  <2>2. Reached' = Reached
    BY <2>1 DEF Reached, Pending
  <2> QED BY <2>1, <2>2 DEF ScopesInv, ScopesTyped, Expanding, Closed
<1> QED BY <1>1, <1>2, <1>3, <1>4, <1>5 DEF OAuth!Next

\* When the call has ended, what is expanded is all that was reached.
LEMMA ClosureIsLeast ==
    ASSUME ScopesInv, scopesAt \in {"granted", "checked"}
    PROVE  /\ scopes \subseteq expanded /\ Closed(expanded)
           /\ \A s \in expanded \ scopes : \E r \in expanded : s \in OAuth!Includes(r)
           /\ \A X : scopes \subseteq X /\ Closed(X) => expanded \subseteq X
           /\ scopesAt = "checked" => expanded = scopes
<1>1. calls = <<>>
  BY DEF ScopesInv, ScopesTyped
<1>2. Reached = expanded
  BY <1>1 DEF Reached, Pending
<1>3. /\ scopes \subseteq expanded
      /\ \A s \in expanded : OAuth!Includes(s) \subseteq expanded
      /\ \A s \in expanded \ scopes : \E r \in expanded : s \in OAuth!Includes(r)
      /\ \A X : scopes \subseteq X /\ Closed(X) => expanded \subseteq X
  BY <1>2 DEF ScopesInv, Expanding
<1>4. scopesAt = "checked" => Closed(scopes)
  BY DEF ScopesInv
<1>5. Closed(expanded)
  BY <1>3 DEF Closed
<1> QED BY <1>3, <1>4, <1>5

LEMMA ReadersOf ==
    ASSUME Closed(expanded), NEW op \in DOMAIN OAuth!Reading, OAuth!Required[op] \in expanded,
           NEW other \in OAuth!Reading[op]
    PROVE  OAuth!Required[other] \in expanded
<1>1. \A s \in expanded : OAuth!Includes(s) \subseteq expanded
  BY DEF Closed
<1>2. DOMAIN OAuth!Reading = {"create_quote", "calculate_quote", "convert_quote_to_policy",
        "update_policy", "cancel_policy", "update_claim", "approve_claim", "update_profile",
        "export_analytics", "system_admin"}
  BY DEF OAuth!Reading
<1> USE DEF OAuth!Reading, OAuth!Required
<1>3. CASE op = "create_quote"
  BY <1>1, <1>3, IncludesAre
<1>4. CASE op = "calculate_quote"
  BY <1>1, <1>4, IncludesAre
<1>5. CASE op = "convert_quote_to_policy"
  BY <1>1, <1>5, IncludesAre
<1>6. CASE op = "update_policy"
  BY <1>1, <1>6, IncludesAre
<1>7. CASE op = "cancel_policy"
  BY <1>1, <1>7, IncludesAre
<1>8. CASE op = "update_claim"
  BY <1>1, <1>8, IncludesAre
<1>9. CASE op = "approve_claim"
  BY <1>1, <1>9, IncludesAre
<1>10. CASE op = "update_profile"
  BY <1>1, <1>10, IncludesAre
<1>11. CASE op = "export_analytics"
  BY <1>1, <1>11, IncludesAre
<1>12. CASE op = "system_admin"
  BY <1>1, <1>12, IncludesAre
<1> HIDE DEF OAuth!Reading, OAuth!Required
<1> QED BY <1>2, <1>3, <1>4, <1>5, <1>6, <1>7, <1>8, <1>9, <1>10, <1>11, <1>12

\* A request is expanded to its closure, which a check does not expand
\* further, and whoever may change something may read it (expand_scopes,
\* check_scope_permission).
THEOREM ScopesDoFit == OAuth!Spec => []ScopesFit
<1>1. ASSUME ScopesInv PROVE ScopesFit
  <2>1. OAuth!ExpandIsClosure
    BY <1>1, ClosureIsLeast DEF OAuth!ExpandIsClosure, Closed
  <2>2. OAuth!WritersRead
    <3> SUFFICES ASSUME scopesAt = "checked" PROVE OAuth!WritersRead
      BY DEF OAuth!WritersRead
    <3>1. Closed(expanded)
      BY <1>1, ClosureIsLeast
    <3> QED BY <3>1, ReadersOf DEF OAuth!WritersRead, OAuth!Permits
  <2> QED BY <2>1, <2>2 DEF ScopesFit
<1>2. ScopesInv /\ [OAuth!Next]_OAuth!vars => ScopesInv'
  BY ScopesKeeps
<1> QED BY <1>1, <1>2, ScopesInit, PTL DEF OAuth!Spec

\* What is granted is the least of all sets that have the scopes asked for
\* and what their members include: no order of the visits grants more
\* (expand_scopes).
THEOREM GrantsAreLeast ==
    OAuth!Spec => [](scopesAt = "granted" =>
                       \A X \in SUBSET OAuth!Scope : scopes \subseteq X /\ Closed(X) => expanded \subseteq X)
<1>1. ASSUME ScopesInv
      PROVE  scopesAt = "granted" =>
               \A X \in SUBSET OAuth!Scope : scopes \subseteq X /\ Closed(X) => expanded \subseteq X
  BY <1>1, ClosureIsLeast
<1>2. ScopesInv /\ [OAuth!Next]_OAuth!vars => ScopesInv'
  BY ScopesKeeps
<1> QED BY <1>1, <1>2, ScopesInit, PTL DEF OAuth!Spec
=============================================================================
