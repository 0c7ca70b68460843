------------------------- MODULE MessageQueueProofs -------------------------
(* Proofs that a prompt message of MessageQueue exists once and has one     *)
(* worker, for any number of messages, workers, priorities and retries.     *)
EXTENDS MessageQueue, SequenceTheorems, FiniteSetTheorems, WellFoundedInduction, TLAPS

\* What a list but the dead-letter list holds: the retries of an entry that
\* may still be rejected have not reached their bound.
Live == [id: Msg, prio: Priority, retries: 0..MaxRetries, started: BOOLEAN]

RetriesBounded ==
    /\ pending \in Seq(Live) /\ processing \in Seq(Live) /\ todo \in Seq(Live)
    /\ \A t \in Task : op[t].at \notin {"idle", "look", "bury"} => op[t].e \in Live

\* The cleanup task rejects only what has overstayed, and sees only what was
\* sent.
CleanerIsLate ==
    /\ op[Cleaner].at \in {"idle", "dropped", "rejecting", "backoff", "bury"}
    /\ op[Cleaner].at # "idle" => ~Prompt(op[Cleaner].e.id)
    /\ \A e \in Entries(todo) : e.id \in sent

\* What a task may have to do with a message.
About(o, m)   == o.at \notin {"idle", "look"} /\ o.e.id = m
Holding(o, m) == o.at \in {"moved", "backoff", "bury"} /\ o.e.id = m
Listed(o, m)  == o.at \in {"taken", "holds", "acking", "rejecting"} /\ o.e.id = m

\* A message that was never sent is nowhere.  A prompt one is in one place,
\* and what the one worker at it is about to take from the processing list is
\* still in there.
MessageInv(m) ==
    /\ m \notin sent => Copies(m) = 0 /\ \A t \in Task : ~About(op[t], m)
    /\ m \in sent /\ Prompt(m) =>
         /\ Copies(m) <= 1 /\ (m \notin failed => Copies(m) > 0)
         /\ \A w \in Worker : Listed(op[w], m) => op[w].e \in Entries(processing)
         /\ \A v, w \in Worker : Working(v, m) /\ Working(w, m) => v = w

QueueInv ==
    TypeOK /\ RetriesBounded /\ CleanerIsLate /\ \A m \in Msg : MessageInv(m)

USE WorkerAssumption, PriorityAssumption, RetryAssumption

-----------------------------------------------------------------------------
\* Lists, and how often a message is in one.

LEMMA Smallest ==
    ASSUME NEW T, T \subseteq Nat, T # {}
    PROVE  \E n \in T : \A i \in T : n <= i
<1>1. \E n \in T : \A i \in T : ~(<<i, n>> \in OpToRel(<, Nat))
  BY NatLessThanWellFounded, WFMin, Zenon
<1>2. PICK n \in T : \A i \in T : ~(<<i, n>> \in OpToRel(<, Nat))
  BY <1>1
<1>3. ASSUME NEW i \in T PROVE n <= i
  <2>1. ~(i < n)
    BY <1>2 DEF OpToRel
  <2> QED BY <2>1
<1> QED BY <1>3

LEMMA CountIsNat ==
    ASSUME NEW S, NEW s \in Seq(S), NEW m
    PROVE  /\ IsFiniteSet({i \in DOMAIN s : s[i].id = m})
           /\ Count(s, m) \in Nat
<1>1. IsFiniteSet(1..Len(s))
  BY FS_Interval
<1>2. IsFiniteSet({i \in DOMAIN s : s[i].id = m})
  BY <1>1, FS_Subset
<1> QED BY <1>2, FS_CardinalityType DEF Count

LEMMA AppendCounts ==
    ASSUME NEW S, NEW s \in Seq(S), NEW e \in S
    PROVE  /\ Append(s, e) \in Seq(S)
           /\ Entries(Append(s, e)) = Entries(s) \cup {e}
           /\ \A m : Count(Append(s, e), m) = Count(s, m) + (IF e.id = m THEN 1 ELSE 0)
<1>1. /\ Append(s, e) \in Seq(S)
      /\ DOMAIN Append(s, e) = DOMAIN s \cup {Len(s) + 1} /\ Len(s) + 1 \notin DOMAIN s
      /\ \A i \in DOMAIN s : Append(s, e)[i] = s[i]
      /\ Append(s, e)[Len(s) + 1] = e
  OBVIOUS
<1>2. Entries(Append(s, e)) = Entries(s) \cup {e}
  BY <1>1 DEF Entries
<1>3. ASSUME NEW m
      PROVE  Count(Append(s, e), m) = Count(s, m) + (IF e.id = m THEN 1 ELSE 0)
  <2> DEFINE A == {i \in DOMAIN s : s[i].id = m}
             B == {i \in DOMAIN Append(s, e) : Append(s, e)[i].id = m}
  <2>1. B = IF e.id = m THEN A \cup {Len(s) + 1} ELSE A
    BY <1>1
  <2>2. IsFiniteSet(A) /\ Cardinality(A) \in Nat /\ Len(s) + 1 \notin A
    BY CountIsNat, <1>1 DEF Count
  <2> HIDE DEF A, B
  <2>3. Cardinality(B) = Cardinality(A) + (IF e.id = m THEN 1 ELSE 0)
    <3>1. Cardinality(A \cup {Len(s) + 1}) = Cardinality(A) + 1
      BY <2>2, FS_AddElement
    <3> QED BY <2>1, <2>2, <3>1
  <2> QED BY <2>3 DEF Count, A, B
<1> QED BY <1>1, <1>2, <1>3

LEMMA CutOut ==
    ASSUME NEW S, NEW s \in Seq(S), NEW k \in 1..Len(s)
    PROVE  LET t == SubSeq(s, 1, k - 1) \o SubSeq(s, k + 1, Len(s))
           IN  /\ t \in Seq(S) /\ Len(t) = Len(s) - 1
               /\ \A i \in 1..Len(t) : t[i] = IF i < k THEN s[i] ELSE s[i + 1]
<1> DEFINE l == SubSeq(s, 1, k - 1)
           r == SubSeq(s, k + 1, Len(s))
<1>1. l \in Seq(S) /\ Len(l) = k - 1 /\ \A i \in 1..(k - 1) : l[i] = s[i]
  OBVIOUS
<1>2. r \in Seq(S) /\ Len(r) = Len(s) - k /\ \A i \in 1..(Len(s) - k) : r[i] = s[k + i]
  OBVIOUS
<1> HIDE DEF l, r
<1>3. /\ l \o r \in Seq(S) /\ Len(l \o r) = Len(l) + Len(r)
      /\ \A i \in 1..(Len(l) + Len(r)) :
            (l \o r)[i] = IF i <= Len(l) THEN l[i] ELSE r[i - Len(l)]
  BY <1>1, <1>2, ConcatProperties
<1>4. Len(l \o r) = Len(s) - 1
  BY <1>1, <1>2, <1>3
<1>5. ASSUME NEW i \in 1..(Len(s) - 1)
      PROVE  (l \o r)[i] = IF i < k THEN s[i] ELSE s[i + 1]
  <2>1. (l \o r)[i] = IF i <= k - 1 THEN l[i] ELSE r[i - (k - 1)]
    BY <1>1, <1>2, <1>3
  <2>2. CASE i < k
    BY <2>1, <2>2, <1>1
  <2>3. CASE ~(i < k)
    <3>1. i - (k - 1) \in 1..(Len(s) - k)
      BY <2>3
    <3>2. r[i - (k - 1)] = s[k + (i - (k - 1))]
      BY <3>1, <1>2
    <3>3. k + (i - (k - 1)) = i + 1
      OBVIOUS
    <3> QED BY <2>1, <2>3, <3>2, <3>3
  <2> QED BY <2>2, <2>3
<1> QED BY <1>3, <1>4, <1>5 DEF l, r

LEMMA CutCounts ==
    ASSUME NEW S, NEW s \in Seq(S), NEW k \in 1..Len(s)
    PROVE  LET t == SubSeq(s, 1, k - 1) \o SubSeq(s, k + 1, Len(s))
           IN  /\ \A m : Count(t, m) = Count(s, m) - (IF s[k].id = m THEN 1 ELSE 0)
               /\ \A f \in Entries(s) : f # s[k] => f \in Entries(t)
<1> DEFINE t == SubSeq(s, 1, k - 1) \o SubSeq(s, k + 1, Len(s))
<1>0. /\ t \in Seq(S) /\ Len(t) = Len(s) - 1
      /\ \A i \in 1..Len(t) : t[i] = IF i < k THEN s[i] ELSE s[i + 1]
  BY CutOut
<1> HIDE DEF t
<1>1. ASSUME NEW m
      PROVE  Count(t, m) = Count(s, m) - (IF s[k].id = m THEN 1 ELSE 0)
  <2> DEFINE A == {i \in DOMAIN s : s[i].id = m}
             B == {i \in DOMAIN t : t[i].id = m}
             f == [i \in B |-> IF i < k THEN i ELSE i + 1]
  <2>1. f \in [B -> A \ {k}]
    BY <1>0
  <2>2. \A i, j \in B : f[i] = f[j] => i = j
    BY <1>0
  <2>3. \A j \in A \ {k} : \E i \in B : f[i] = j
    <3> SUFFICES ASSUME NEW j \in A \ {k} PROVE \E i \in B : f[i] = j
      OBVIOUS
    <3> DEFINE i == IF j < k THEN j ELSE j - 1
    <3>1. j \in 1..Len(s) /\ s[j].id = m /\ j # k
      OBVIOUS
    <3>2. i \in 1..Len(t) /\ t[i] = s[j] /\ (IF i < k THEN i ELSE i + 1) = j
      BY <3>1, <1>0
    <3>3. i \in B
      BY <3>1, <3>2, <1>0
    <3> HIDE DEF i, B
    <3>4. f[i] = j
      BY <3>2, <3>3
    <3> QED BY <3>3, <3>4
  <2> HIDE DEF f
  <2>4. f \in Bijection(B, A \ {k})
    BY <2>1, <2>2, <2>3 DEF Bijection, Injection, Surjection, IsInjective
  <2>5. ExistsBijection(B, A \ {k})
    BY <2>4 DEF ExistsBijection
  <2>6. IsFiniteSet(A) /\ Cardinality(A) \in Nat /\ IsFiniteSet(B)
    BY CountIsNat, <1>0 DEF Count
  <2>7. Cardinality(A \ {k}) = Cardinality(B)
    BY <2>5, <2>6, FS_Bijection
  <2>8. Cardinality(A \ {k}) = IF k \in A THEN Cardinality(A) - 1 ELSE Cardinality(A)
    BY <2>6, FS_RemoveElement
  <2>9. k \in A <=> s[k].id = m
    OBVIOUS
  <2> QED BY <2>6, <2>7, <2>8, <2>9 DEF Count
<1>2. ASSUME NEW f \in Entries(s), f # s[k]
      PROVE  f \in Entries(t)
  <2>1. PICK j \in 1..Len(s) : f = s[j]
    BY <1>2 DEF Entries
  <2>2. j # k
    BY <2>1, <1>2
  <2> DEFINE i == IF j < k THEN j ELSE j - 1
  <2>3. i \in 1..Len(t) /\ t[i] = f
    BY <2>1, <2>2, <1>0
  <2> QED BY <2>3, <1>0 DEF Entries
<1> QED BY <1>1, <1>2 DEF t

LEMMA LRemCounts ==
    ASSUME NEW S, NEW s \in Seq(S), NEW e, NEW m
    PROVE  /\ LRem(s, e) \in Seq(S)
           /\ \A f \in Entries(s) : f # e => f \in Entries(LRem(s, e))
           /\ e.id # m => Count(LRem(s, e), m) = Count(s, m)
           /\ e \in Entries(s) /\ e.id = m => Count(LRem(s, e), m) = Count(s, m) - 1
<1>1. CASE e \notin Entries(s)
  BY <1>1 DEF LRem
<1>2. CASE e \in Entries(s)
  <2> DEFINE First(i) == s[i] = e /\ \A j \in 1..(i - 1) : s[j] # e
             k == CHOOSE i \in DOMAIN s : First(i)
             t == SubSeq(s, 1, k - 1) \o SubSeq(s, k + 1, Len(s))
  <2>1. \E i \in DOMAIN s : First(i)
    <3> DEFINE T == {i \in DOMAIN s : s[i] = e}
    <3>1. T \subseteq Nat /\ T # {}
      BY <1>2 DEF Entries
    <3>2. PICK n \in T : \A i \in T : n <= i
      BY <3>1, Smallest
    <3>3. n \in DOMAIN s /\ First(n)
      BY <3>2
    <3> QED BY <3>3
  <2>2. k \in DOMAIN s /\ First(k)
    BY <2>1
  <2>3. LRem(s, e) = t
    BY <1>2 DEF LRem
  <2> HIDE DEF k
  <2>4. k \in 1..Len(s) /\ s[k] = e
    BY <2>2
  <2>7. /\ t \in Seq(S) /\ Len(t) = Len(s) - 1
        /\ \A i \in 1..Len(t) : t[i] = IF i < k THEN s[i] ELSE s[i + 1]
    BY <2>4, CutOut
  <2>8. /\ Count(t, m) = Count(s, m) - (IF s[k].id = m THEN 1 ELSE 0)
        /\ \A f \in Entries(s) : f # s[k] => f \in Entries(t)
    BY <2>4, CutCounts
  <2> HIDE DEF t
  <2>9. Count(s, m) \in Nat
    BY CountIsNat
  <2> QED BY <2>3, <2>4, <2>7, <2>8, <2>9
<1> QED BY <1>1, <1>2

LEMMA EntriesOfSeq ==
    ASSUME NEW S, NEW s \in Seq(S)
    PROVE  /\ Entries(s) \subseteq S
           /\ s # <<>> => Head(s) \in Entries(s) /\ Tail(s) \in Seq(S)
BY DEF Entries

LEMMA OldestIsPending == \A p : Oldest(p) \subseteq Entries(pending)
BY DEF Oldest, Entries

-----------------------------------------------------------------------------
\* What a task holds, and what a change of it does.

\* What an entry becomes in the hands of a task.
Started(e)  == [e EXCEPT !.started = TRUE]
Returned(e) == [e EXCEPT !.retries = @ + 1, !.started = FALSE]

LEMMA LiveIsEntry == Live \subseteq Entry
BY DEF Live, Entry

LEMMA StartedIsLive ==
    ASSUME NEW e \in Live
    PROVE  Started(e) \in Live /\ Started(e).id = e.id
BY DEF Live, Started

LEMMA ReturnedIsEntry ==
    ASSUME NEW e \in Live
    PROVE  /\ Returned(e) \in Entry /\ Returned(e).id = e.id
           /\ Returned(e).retries < MaxRetries => Returned(e) \in Live
<1>0. [e EXCEPT !.retries = @ + 1] \in Entry
  BY DEF Live, Entry
<1>1. Returned(e) \in Entry
  BY <1>0 DEF Entry, Returned
<1>2. Returned(e).id = e.id
  BY DEF Live, Returned
<1>3. Returned(e).retries = e.retries + 1
  BY DEF Live, Returned
<1> QED BY <1>1, <1>2, <1>3 DEF Live, Entry

LEMMA OpFacts ==
    ASSUME NEW o \in Op
    PROVE  /\ o.at \in {"idle", "look", "taken", "moved", "holds", "acking", "backoff", "bury",
                         "dropped", "rejecting"}
           /\ o.at = "look" => o.prio \in Priority
           /\ o.at \notin {"idle", "look"} => o.e \in Entry
           /\ o.at = "rejecting" => o.retry \in BOOLEAN
BY DEF Op, Idle

LEMMA OpsMade ==
    /\ Idle("idle") \in Op /\ Idle("idle").at = "idle"
    /\ \A p \in Priority : [at |-> "look", prio |-> p] \in Op
    /\ \A a \in {"taken", "moved", "holds", "acking", "backoff", "bury", "dropped"}, e \in Entry :
          [at |-> a, e |-> e] \in Op
    /\ \A e \in Entry, r \in BOOLEAN : [at |-> "rejecting", e |-> e, retry |-> r] \in Op
BY DEF Op, Idle

LEMMA OpChange ==
    ASSUME TypeOK, NEW t \in Task, NEW o \in Op, Goes(t, o)
    PROVE  /\ op' \in [Task -> Op] /\ op'[t] = o
           /\ \A u \in Task \ {t} : op'[u] = op[u]
BY DEF TypeOK, Goes

LEMMA HandsFinite ==
    ASSUME NEW m
    PROVE  IsFiniteSet(InHands(m)) /\ Cardinality(InHands(m)) \in Nat
<1>1. IsFiniteSet(Task)
  BY FS_AddElement DEF Task
<1>2. InHands(m) \subseteq Task
  BY DEF InHands
<1> QED BY <1>1, <1>2, FS_Subset, FS_CardinalityType

LEMMA HandsChange ==
    ASSUME TypeOK, NEW t \in Task, NEW o \in Op, Goes(t, o), NEW m
    PROVE  Cardinality(InHands(m)') = Cardinality(InHands(m))
             + (IF Holding(o, m) THEN 1 ELSE 0) - (IF Holding(op[t], m) THEN 1 ELSE 0)
<1>1. op'[t] = o /\ \A u \in Task \ {t} : op'[u] = op[u]
  BY OpChange
<1>2. InHands(m)' = IF Holding(o, m) THEN InHands(m) \cup {t} ELSE InHands(m) \ {t}
  BY <1>1 DEF InHands, Holding
<1>3. t \in InHands(m) <=> Holding(op[t], m)
  BY DEF InHands, Holding
<1> HIDE DEF Holding, InHands
<1>4. IsFiniteSet(InHands(m)) /\ Cardinality(InHands(m)) \in Nat
  BY HandsFinite
<1>5. /\ Cardinality(InHands(m) \cup {t}) =
            IF t \in InHands(m) THEN Cardinality(InHands(m)) ELSE Cardinality(InHands(m)) + 1
      /\ Cardinality(InHands(m) \ {t}) =
            IF t \in InHands(m) THEN Cardinality(InHands(m)) - 1 ELSE Cardinality(InHands(m))
  BY <1>4, FS_AddElement, FS_RemoveElement
<1> QED BY <1>2, <1>3, <1>4, <1>5

LEMMA AckedCount ==
    ASSUME NEW m
    PROVE  Cardinality(acked \cap {m}) = IF m \in acked THEN 1 ELSE 0
<1>1. acked \cap {m} = IF m \in acked THEN {m} ELSE {}
  OBVIOUS
<1> QED BY <1>1, FS_Singleton, FS_EmptySet

LEMMA ListedCounts ==
    ASSUME NEW S, NEW s \in Seq(S), NEW e \in Entries(s)
    PROVE  Count(s, e.id) >= 1
<1>1. PICK i \in DOMAIN s : s[i] = e
  BY DEF Entries
<1> DEFINE A == {j \in DOMAIN s : s[j].id = e.id}
<1>2. A # {}
  BY <1>1
<1>3. IsFiniteSet(A) /\ Cardinality(A) \in Nat
  BY CountIsNat DEF Count
<1> HIDE DEF A
<1>4. Cardinality(A) # 0
  BY <1>2, <1>3, FS_EmptySet
<1> QED BY <1>3, <1>4 DEF Count, A

LEMMA HeldCounts ==
    ASSUME NEW m, NEW t \in Task, Holding(op[t], m)
    PROVE  Cardinality(InHands(m)) >= 1
<1>1. InHands(m) # {}
  BY DEF Holding, InHands
<1> QED BY <1>1, HandsFinite, FS_EmptySet

LEMMA Parts ==
    ASSUME TypeOK, NEW m
    PROVE  /\ Count(pending, m) \in Nat /\ Count(processing, m) \in Nat /\ Count(dead, m) \in Nat
           /\ Cardinality(InHands(m)) \in Nat
           /\ Copies(m) = Count(pending, m) + Count(processing, m) + Count(dead, m)
                            + Cardinality(InHands(m)) + (IF m \in acked THEN 1 ELSE 0)
<1>1. /\ Count(pending, m) \in Nat /\ Count(processing, m) \in Nat /\ Count(dead, m) \in Nat
  BY CountIsNat DEF TypeOK
<1> QED BY <1>1, HandsFinite, AckedCount DEF Copies

(* A step of one task keeps the invariant of a message, if the number of its *)
(* copies stays right, and if no other worker loses an entry to it.          *)
LEMMA OneTaskMoves ==
    ASSUME TypeOK, NEW m \in Msg, MessageInv(m),
           NEW t \in Task, NEW o \in Op, Goes(t, o),
           sent' = sent, late' = late, old' = old, failed \subseteq failed',
           m \notin sent => Copies(m)' = 0 /\ ~About(o, m),
           m \in sent /\ Prompt(m) =>
             /\ Copies(m)' <= 1 /\ (m \notin failed' => Copies(m)' > 0)
             /\ t \in Worker /\ Listed(o, m) => o.e \in Entries(processing')
             /\ \/ /\ \A e \in Entries(processing) : e.id = m => e \in Entries(processing')
                   /\ Listed(o, m) \/ (About(o, m) /\ o.at = "moved") =>
                        t \notin Worker \/ Working(t, m)
                \/ \A u \in Worker \ {t} : ~Working(u, m)
    PROVE  MessageInv(m)'
<1>1. op'[t] = o /\ \A u \in Task \ {t} : op'[u] = op[u]
  BY OpChange
<1>2. m \notin sent => \A u \in Task : ~About(op'[u], m)
  BY <1>1 DEF MessageInv
<1>3. Prompt(m)' <=> Prompt(m)
  BY DEF Prompt
<1>4. \A u \in Worker \ {t} : Working(u, m)' <=> Working(u, m)
  BY <1>1 DEF Working, Task
<1>5. ASSUME m \in sent, Prompt(m), NEW w \in Worker, Listed(op'[w], m)
      PROVE  op'[w].e \in Entries(processing')
  <2>1. CASE w = t
    BY <2>1, <1>1, <1>5
  <2>2. CASE w # t
    <3>1. op'[w] = op[w] /\ Working(w, m) /\ op[w].e \in Entries(processing) /\ op[w].e.id = m
      BY <2>2, <1>1, <1>5 DEF MessageInv, Listed, Working, Task
    <3> QED BY <2>2, <3>1, <1>5
  <2> QED BY <2>1, <2>2
<1>6. ASSUME m \in sent, Prompt(m), NEW v \in Worker, NEW w \in Worker,
             Working(v, m)', Working(w, m)'
      PROVE  v = w
  <2>1. Working(t, m)' => Listed(o, m) \/ (About(o, m) /\ o.at = "moved")
    BY <1>1 DEF Working, Listed, About
  <2>2. CASE \A u \in Worker \ {t} : ~Working(u, m)
    BY <2>2, <1>4, <1>6
  <2>3. CASE Listed(o, m) \/ (About(o, m) /\ o.at = "moved") => t \notin Worker \/ Working(t, m)
    <3>1. Working(v, m) /\ Working(w, m)
      BY <2>1, <2>3, <1>4, <1>6
    <3> QED BY <3>1, <1>6 DEF MessageInv
  <2> QED BY <2>2, <2>3, <1>6
<1> QED BY <1>2, <1>3, <1>5, <1>6 DEF MessageInv

-----------------------------------------------------------------------------
\* Types

OpsLive == \A t \in Task : op[t].at \notin {"idle", "look", "bury"} => op[t].e \in Live

LEMMA OpsLiveKept ==
    ASSUME TypeOK, RetriesBounded, NEW t \in Task, NEW o \in Op, Goes(t, o),
           o.at \notin {"idle", "look", "bury"} => o.e \in Live
    PROVE  op' \in [Task -> Op] /\ OpsLive'
BY OpChange DEF RetriesBounded, OpsLive

LEMMA TypesFrom ==
    ASSUME TypeOK, RetriesBounded,
           pending' \in Seq(Live), processing' \in Seq(Live), todo' \in Seq(Live),
           dead' \in Seq(Entry), op' \in [Task -> Op], OpsLive',
           acked' \subseteq Msg, sent' \subseteq Msg, old' \subseteq Msg, failed' \subseteq Msg,
           late' \subseteq Entry
    PROVE  TypeOK' /\ RetriesBounded'
<1>1. pending' \in Seq(Entry) /\ processing' \in Seq(Entry) /\ todo' \in Seq(Entry)
  BY LiveIsEntry, SeqMonotonic
<1> QED BY <1>1 DEF TypeOK, RetriesBounded, OpsLive

LEMMA WorkerTypes ==
    ASSUME TypeOK, RetriesBounded, NEW w \in Worker, WorkerStep(w)
    PROVE  TypeOK' /\ RetriesBounded'
<1> USE DEF queues, clocks
<1>0. /\ w \in Task /\ op[w] \in Op /\ op \in [Task -> Op] /\ OpsLive
      /\ pending \in Seq(Live) /\ processing \in Seq(Live) /\ todo \in Seq(Live)
      /\ dead \in Seq(Entry) /\ acked \subseteq Msg /\ sent \subseteq Msg /\ old \subseteq Msg
      /\ failed \subseteq Msg /\ late \subseteq Entry
      /\ Entries(pending) \subseteq Live /\ Entries(processing) \subseteq Live
  BY EntriesOfSeq DEF TypeOK, RetriesBounded, OpsLive, Task
<1>1. CASE Dequeue(w)
  <2>1. op' \in [Task -> Op] /\ OpsLive'
    BY <1>0, <1>1, OpsMade, OpsLiveKept, PriorityAssumption DEF Dequeue, Priority
  <2> QED BY <1>0, <1>1, <2>1, TypesFrom DEF Dequeue
<1>2. CASE LooksFurther(w)
  <2>1. op[w].at = "look" /\ op[w].prio \in Priority
    BY <1>0, <1>2, OpFacts DEF LooksFurther, At
  <2>2. op[w].prio # NPriority =>
          /\ [op[w] EXCEPT !.prio = @ + 1] \in Op
          /\ [op[w] EXCEPT !.prio = @ + 1].at = "look"
    BY <1>0, <2>1 DEF Op, Priority, Idle
  <2>3. op' \in [Task -> Op] /\ OpsLive'
    BY <1>0, <1>2, <2>2, OpsMade, OpsLiveKept DEF LooksFurther
  <2> QED BY <1>0, <1>2, <2>3, TypesFrom DEF LooksFurther
<1>3. CASE Takes(w)
  <2>1. PICK e \in Oldest(op[w].prio) :
          /\ pending' = LRem(pending, e) /\ processing' = Append(processing, e)
          /\ Goes(w, [at |-> "taken", e |-> e])
    BY <1>3 DEF Takes
  <2>2. e \in Live /\ e \in Entry
    BY <1>0, OldestIsPending, LiveIsEntry
  <2>3. op' \in [Task -> Op] /\ OpsLive'
    BY <1>0, <2>1, <2>2, OpsMade, OpsLiveKept
  <2>4. pending' \in Seq(Live) /\ processing' \in Seq(Live)
    BY <1>0, <2>1, <2>2, LRemCounts, AppendCounts
  <2> QED BY <1>0, <1>3, <2>3, <2>4, TypesFrom DEF Takes
<1>4. CASE TakesOut(w)
  <2>1. op[w].e \in Live
    BY <1>0, <1>4 DEF TakesOut, At, OpsLive
  <2>2. Goes(w, [at |-> "moved", e |-> Started(op[w].e)])
    BY <1>4 DEF TakesOut, Started
  <2>3. Started(op[w].e) \in Live /\ Started(op[w].e) \in Entry
    BY <2>1, StartedIsLive, LiveIsEntry
  <2>4. op' \in [Task -> Op] /\ OpsLive'
    BY <1>0, <2>2, <2>3, OpsMade, OpsLiveKept
  <2>5. processing' \in Seq(Live)
    BY <1>0, <1>4, LRemCounts DEF TakesOut
  <2> QED BY <1>0, <1>4, <2>4, <2>5, TypesFrom DEF TakesOut
<1>5. CASE Starts(w)
  <2>1. op[w].at = "moved" /\ op[w].e \in Live
    BY <1>0, <1>5 DEF Starts, At, OpsLive
  <2>2. /\ [op[w] EXCEPT !.at = "holds"] \in Op
        /\ [op[w] EXCEPT !.at = "holds"].e = op[w].e
    BY <1>0, <2>1 DEF Op, Idle
  <2>3. op' \in [Task -> Op] /\ OpsLive'
    BY <1>0, <1>5, <2>1, <2>2, OpsLiveKept DEF Starts
  <2>4. processing' \in Seq(Live)
    BY <1>0, <1>5, <2>1, AppendCounts DEF Starts
  <2> QED BY <1>0, <1>5, <2>3, <2>4, TypesFrom DEF Starts
<1>6. CASE Acknowledge(w)
  <2>1. \A e \in Found(op[w].e.id) : e \in Live /\ e \in Entry
    BY <1>0, LiveIsEntry DEF Found
  <2>2. op' \in [Task -> Op] /\ OpsLive'
    BY <1>0, <1>6, <2>1, OpsMade, OpsLiveKept DEF Acknowledge
  <2> QED BY <1>0, <1>6, <2>2, TypesFrom DEF Acknowledge
<1>7. CASE Acknowledged(w)
  <2>1. op[w].e.id \in Msg
    BY <1>0, <1>7 DEF Acknowledged, At, OpsLive, Live
  <2>2. op' \in [Task -> Op] /\ OpsLive'
    BY <1>0, <1>7, OpsMade, OpsLiveKept DEF Acknowledged
  <2>3. processing' \in Seq(Live)
    BY <1>0, <1>7, LRemCounts DEF Acknowledged
  <2> QED BY <1>0, <1>7, <2>1, <2>2, <2>3, TypesFrom DEF Acknowledged
<1> QED BY <1>1, <1>2, <1>3, <1>4, <1>5, <1>6, <1>7 DEF WorkerStep

LEMMA OtherTypes ==
    ASSUME TypeOK, RetriesBounded,
           \/ \E m \in Msg : Enqueue(m)
           \/ \E t \in Task : RejectStep(t) \/ Fails(t)
           \/ SweepStep \/ TimeStep
    PROVE  TypeOK' /\ RetriesBounded'
<1> USE DEF queues, clocks
<1>0. /\ op \in [Task -> Op] /\ OpsLive /\ Cleaner \in Task
      /\ pending \in Seq(Live) /\ processing \in Seq(Live) /\ todo \in Seq(Live)
      /\ dead \in Seq(Entry) /\ acked \subseteq Msg /\ sent \subseteq Msg /\ old \subseteq Msg
      /\ failed \subseteq Msg /\ late \subseteq Entry
      /\ Entries(pending) \subseteq Live /\ Entries(processing) \subseteq Live
      /\ Entries(todo) \subseteq Live
  BY EntriesOfSeq DEF TypeOK, RetriesBounded, OpsLive, Task
<1>1. CASE \E m \in Msg : Enqueue(m)
  <2>1. PICK m \in Msg : Enqueue(m)
    BY <1>1
  <2>2. [id |-> m, prio |-> PriorityOf[m], retries |-> 0, started |-> FALSE] \in Live
    BY DEF Live, Priority
  <2>3. pending' \in Seq(Live) /\ OpsLive'
    BY <1>0, <2>1, <2>2, AppendCounts DEF Enqueue, OpsLive
  <2> QED BY <1>0, <2>1, <2>3, TypesFrom DEF Enqueue
<1>2. ASSUME NEW t \in Task, Reject(t) PROVE TypeOK' /\ RetriesBounded'
  <2>1. \A e \in Found(op[t].e.id) : e \in Live /\ e \in Entry
    BY <1>0, LiveIsEntry DEF Found
  <2>2. op' \in [Task -> Op] /\ OpsLive'
    BY <1>2, <2>1, OpsMade, OpsLiveKept DEF Reject
  <2> QED BY <1>0, <1>2, <2>2, TypesFrom DEF Reject
<1>3. ASSUME NEW t \in Task, Rejected(t) PROVE TypeOK' /\ RetriesBounded'
  <2> DEFINE e == Returned(op[t].e)
             a == IF op[t].retry /\ e.retries < MaxRetries THEN "backoff" ELSE "bury"
  <2>1. op[t].e \in Live
    BY <1>0, <1>3 DEF Rejected, At, OpsLive
  <2>2. e \in Entry /\ (e.retries < MaxRetries => e \in Live)
    BY <2>1, ReturnedIsEntry
  <2>3. Goes(t, [at |-> a, e |-> e])
    BY <1>3 DEF Rejected, Returned
  <2> HIDE DEF e
  <2>4. op' \in [Task -> Op] /\ OpsLive'
    <3>1. CASE op[t].retry /\ e.retries < MaxRetries
      BY <3>1, <2>2, <2>3, OpsMade, OpsLiveKept
    <3>2. CASE ~(op[t].retry /\ e.retries < MaxRetries)
      BY <3>2, <2>2, <2>3, OpsMade, OpsLiveKept
    <3> QED BY <3>1, <3>2
  <2>5. processing' \in Seq(Live)
    BY <1>0, <1>3, LRemCounts DEF Rejected
  <2> QED BY <1>0, <1>3, <2>4, <2>5, TypesFrom DEF Rejected
<1>4. ASSUME NEW t \in Task, Requeues(t) PROVE TypeOK' /\ RetriesBounded'
  <2>1. op' \in [Task -> Op] /\ OpsLive'
    BY <1>4, OpsMade, OpsLiveKept DEF Requeues
  <2>2. op[t].e \in Live
    BY <1>0, <1>4 DEF Requeues, At, OpsLive
  <2>3. pending' \in Seq(Live)
    BY <1>0, <1>4, <2>2, AppendCounts DEF Requeues
  <2> QED BY <1>0, <1>4, <2>1, <2>3, TypesFrom DEF Requeues
<1>5. ASSUME NEW t \in Task, Buries(t) PROVE TypeOK' /\ RetriesBounded'
  <2>1. op' \in [Task -> Op] /\ OpsLive'
    BY <1>5, OpsMade, OpsLiveKept DEF Buries
  <2>2. op[t].e \in Entry
    BY <1>0, <1>5, OpFacts DEF Buries, At
  <2>3. dead' \in Seq(Entry)
    BY <1>0, <1>5, <2>2, AppendCounts DEF Buries
  <2> QED BY <1>0, <1>5, <2>1, <2>3, TypesFrom DEF Buries
<1>6. ASSUME NEW t \in Task, Fails(t) PROVE TypeOK' /\ RetriesBounded'
  <2>1. op' \in [Task -> Op] /\ OpsLive'
    BY <1>6, OpsMade, OpsLiveKept DEF Fails
  <2>2. ~At(t, "look") => op[t].e.id \in Msg
    BY <1>0, <1>6, OpFacts DEF Fails, At, Entry
  <2>3. failed' \subseteq Msg
    BY <1>0, <1>6, <2>2 DEF Fails
  <2> QED BY <1>0, <1>6, <2>1, <2>3, TypesFrom DEF Fails
<1>7. CASE Sweep
  <2>1. op' \in [Task -> Op] /\ OpsLive'
    BY <1>0, <1>7 DEF Sweep, OpsLive
  <2> QED BY <1>0, <1>7, <2>1, TypesFrom DEF Sweep
<1>8. ASSUME NEW e \in Entries(todo), SweepsOverdue(e) \/ SweepsExpired(e) \/ SweepsPast(e)
      PROVE  TypeOK' /\ RetriesBounded'
  <2>1. todo' \in Seq(Live) /\ e \in Live /\ e \in Entry
    BY <1>0, <1>8, EntriesOfSeq, LiveIsEntry DEF SweepsOverdue, SweepsExpired, SweepsPast, Visits
  <2>2. op' \in [Task -> Op] /\ OpsLive'
    <3>1. CASE SweepsOverdue(e)
      BY <1>0, <2>1, <3>1, OpsMade, OpsLiveKept DEF SweepsOverdue
    <3>2. CASE op' = op
      BY <1>0, <3>2 DEF OpsLive
    <3> QED BY <1>8, <3>1, <3>2 DEF SweepsExpired, SweepsPast
  <2>3. processing' \in Seq(Live)
    <3>1. LRem(processing, e) \in Seq(Live)
      BY <1>0, LRemCounts
    <3> QED BY <1>0, <1>8, <3>1 DEF SweepsOverdue, SweepsExpired, SweepsPast
  <2> QED BY <1>0, <1>8, <2>1, <2>2, <2>3, TypesFrom DEF SweepsOverdue, SweepsExpired, SweepsPast
<1>9. CASE TimeStep
  <2>1. op' \in [Task -> Op] /\ OpsLive' /\ late' \subseteq Entry /\ old' \subseteq Msg
    BY <1>0, <1>9, LiveIsEntry DEF TimeStep, GetsLate, GetsOld, OpsLive
  <2> QED BY <1>0, <1>9, <2>1, TypesFrom DEF TimeStep, GetsLate, GetsOld
<1> QED BY <1>1, <1>2, <1>3, <1>4, <1>5, <1>6, <1>7, <1>8, <1>9 DEF RejectStep, SweepStep

-----------------------------------------------------------------------------
\* The invariant of one message, operation by operation.

Sound == TypeOK /\ RetriesBounded /\ CleanerIsLate

LEMMA SoundTypes ==
    ASSUME Sound
    PROVE  /\ op \in [Task -> Op] /\ OpsLive /\ TypeOK
           /\ pending \in Seq(Entry) /\ processing \in Seq(Entry) /\ dead \in Seq(Entry)
           /\ Cleaner \in Task /\ Worker \subseteq Task /\ Cleaner \notin Worker
           /\ \A t \in Task : op[t] \in Op
BY DEF Sound, TypeOK, RetriesBounded, OpsLive, Task

\* The terms of Copies for the next state.
LEMMA NextParts ==
    ASSUME TypeOK', NEW m
    PROVE  /\ Count(pending', m) \in Nat /\ Count(processing', m) \in Nat /\ Count(dead', m) \in Nat
           /\ Cardinality(InHands(m)') \in Nat
           /\ Copies(m)' = Count(pending', m) + Count(processing', m) + Count(dead', m)
                             + Cardinality(InHands(m)') + (IF m \in acked' THEN 1 ELSE 0)
<1>1. /\ Count(pending', m) \in Nat /\ Count(processing', m) \in Nat /\ Count(dead', m) \in Nat
  BY CountIsNat DEF TypeOK
<1>2. IsFiniteSet(InHands(m)') /\ Cardinality(InHands(m)') \in Nat
  <2>1. IsFiniteSet(Task)
    BY FS_AddElement DEF Task
  <2>2. InHands(m)' \subseteq Task
    BY DEF InHands
  <2> QED BY <2>1, <2>2, FS_Subset, FS_CardinalityType
<1>3. Cardinality(acked' \cap {m}) = IF m \in acked' THEN 1 ELSE 0
  <2>1. acked' \cap {m} = IF m \in acked' THEN {m} ELSE {}
    OBVIOUS
  <2> QED BY <2>1, FS_Singleton, FS_EmptySet
<1> QED BY <1>1, <1>2, <1>3 DEF Copies

(* Steps that change no list: only the task goes on.                         *)
LEMMA ListsStay ==
    ASSUME Sound, TypeOK', NEW m \in Msg, MessageInv(m),
           NEW t \in Task, NEW o \in Op, Goes(t, o),
           ~Holding(op[t], m), ~Holding(o, m), About(o, m) => About(op[t], m),
           UNCHANGED <<queues, acked, sent, late, old, failed>>,
           m \in sent /\ Prompt(m) =>
             /\ t \in Worker /\ Listed(o, m) => o.e \in Entries(processing)
             /\ Listed(o, m) => t \notin Worker \/ Working(t, m)
    PROVE  MessageInv(m)'
<1>1. pending' = pending /\ processing' = processing /\ dead' = dead
  BY DEF queues
<1>2. Cardinality(InHands(m)') = Cardinality(InHands(m))
  BY HandsChange, HandsFinite DEF Sound
<1>3. Copies(m)' = Copies(m)
  BY <1>1, <1>2 DEF Copies
<1>4. m \notin sent => Copies(m) = 0 /\ ~About(op[t], m)
  BY DEF MessageInv
<1>5. m \in sent /\ Prompt(m) => Copies(m) <= 1 /\ (m \notin failed => Copies(m) > 0)
  BY DEF MessageInv
<1>6. About(o, m) /\ o.at = "moved" => FALSE
  BY DEF Holding, About
<1>7. TypeOK
  BY DEF Sound
<1> QED BY <1>1, <1>3, <1>4, <1>5, <1>6, <1>7, OneTaskMoves

LEMMA LooksKeep ==
    ASSUME Sound, TypeOK', NEW m \in Msg, MessageInv(m),
           NEW w \in Worker, Dequeue(w) \/ LooksFurther(w)
    PROVE  MessageInv(m)'
<1>1. PICK o \in Op : Goes(w, o) /\ o.at \in {"idle", "look"}
  <2>1. CASE Dequeue(w)
    BY <2>1, OpsMade, PriorityAssumption DEF Dequeue, Priority
  <2>2. CASE LooksFurther(w)
    <3>1. op[w].at = "look" /\ op[w].prio \in Priority
      BY <2>2, SoundTypes, OpFacts DEF LooksFurther, At
    <3>2. op[w].prio # NPriority =>
            /\ [op[w] EXCEPT !.prio = @ + 1] \in Op
            /\ [op[w] EXCEPT !.prio = @ + 1].at = "look"
      BY <3>1, SoundTypes DEF Op, Priority, Idle
    <3> QED BY <2>2, <3>2, OpsMade DEF LooksFurther
  <2> QED BY <2>1, <2>2
<1>2. op[w].at \in {"idle", "look"}
  BY DEF Dequeue, LooksFurther, At
<1>3. UNCHANGED <<queues, acked, sent, late, old, failed>>
  BY DEF Dequeue, LooksFurther, clocks
<1>4. ~Holding(op[w], m) /\ ~Holding(o, m) /\ ~About(o, m) /\ ~Listed(o, m)
  BY <1>1, <1>2 DEF Holding, About, Listed
<1> QED BY <1>1, <1>3, <1>4, SoundTypes, ListsStay

(* What a step of one task does to the number of copies.                     *)
Counted(m, t, o) ==
    /\ Count(pending, m) \in Nat /\ Count(processing, m) \in Nat /\ Count(dead, m) \in Nat
    /\ Count(pending', m) \in Nat /\ Count(processing', m) \in Nat /\ Count(dead', m) \in Nat
    /\ Cardinality(InHands(m)) \in Nat
    /\ Copies(m) = Count(pending, m) + Count(processing, m) + Count(dead, m)
                     + Cardinality(InHands(m)) + (IF m \in acked THEN 1 ELSE 0)
    /\ Copies(m)' = Count(pending', m) + Count(processing', m) + Count(dead', m)
                      + (Cardinality(InHands(m))
                           + (IF Holding(o, m) THEN 1 ELSE 0)
                           - (IF Holding(op[t], m) THEN 1 ELSE 0))
                      + (IF m \in acked' THEN 1 ELSE 0)

LEMMA StepCounts ==
    ASSUME Sound, TypeOK', NEW m, NEW t \in Task, NEW o \in Op, Goes(t, o)
    PROVE  Counted(m, t, o)
<1>1. Cardinality(InHands(m)') = Cardinality(InHands(m))
             + (IF Holding(o, m) THEN 1 ELSE 0) - (IF Holding(op[t], m) THEN 1 ELSE 0)
  BY SoundTypes, HandsChange
<1>2. /\ Count(pending, m) \in Nat /\ Count(processing, m) \in Nat /\ Count(dead, m) \in Nat
      /\ Cardinality(InHands(m)) \in Nat
      /\ Copies(m) = Count(pending, m) + Count(processing, m) + Count(dead, m)
                       + Cardinality(InHands(m)) + (IF m \in acked THEN 1 ELSE 0)
  BY SoundTypes, Parts
<1>3. /\ Count(pending', m) \in Nat /\ Count(processing', m) \in Nat /\ Count(dead', m) \in Nat
      /\ Copies(m)' = Count(pending', m) + Count(processing', m) + Count(dead', m)
                        + Cardinality(InHands(m)') + (IF m \in acked' THEN 1 ELSE 0)
  BY NextParts
<1> QED BY <1>1, <1>2, <1>3 DEF Counted

(* A value taken out of a list, and one put into it.                         *)
LEMMA OutAndIn ==
    ASSUME NEW s \in Seq(Entry), NEW e \in Entry, NEW m
    PROVE  /\ e \in Entries(s) \/ e.id # m =>
                Count(LRem(s, e), m) = Count(s, m) - (IF e.id = m THEN 1 ELSE 0)
           /\ \A f \in Entries(s) : f # e => f \in Entries(LRem(s, e))
           /\ Count(Append(s, e), m) = Count(s, m) + (IF e.id = m THEN 1 ELSE 0)
           /\ Entries(Append(s, e)) = Entries(s) \cup {e}
           /\ e \in Entries(s) /\ e.id = m => Count(s, m) >= 1
<1>1. CASE e \in Entries(s)
  <2>1. Count(LRem(s, e), m) = Count(s, m) - (IF e.id = m THEN 1 ELSE 0)
    <3>1. Count(s, m) \in Nat
      BY CountIsNat
    <3>2. /\ e.id # m => Count(LRem(s, e), m) = Count(s, m)
          /\ e.id = m => Count(LRem(s, e), m) = Count(s, m) - 1
      BY <1>1, LRemCounts
    <3> QED BY <3>1, <3>2
  <2>2. \A f \in Entries(s) : f # e => f \in Entries(LRem(s, e))
    BY LRemCounts
  <2>3. Count(s, e.id) >= 1
    BY <1>1, ListedCounts
  <2> QED BY <2>1, <2>2, <2>3, AppendCounts
<1>2. CASE e \notin Entries(s)
  <2>1. LRem(s, e) = s
    BY <1>2 DEF LRem
  <2>2. Count(s, m) \in Nat
    BY CountIsNat
  <2> QED BY <1>2, <2>1, <2>2, AppendCounts
<1> QED BY <1>1, <1>2

(* A step of a task that has nothing to do with the message.                 *)
LEMMA Elsewhere ==
    ASSUME Sound, TypeOK', NEW m \in Msg, MessageInv(m),
           NEW t \in Task, NEW o \in Op, Goes(t, o),
           ~About(op[t], m), ~About(o, m),
           sent' = sent, late' = late, old' = old, failed \subseteq failed',
           Count(pending', m) = Count(pending, m),
           Count(processing', m) = Count(processing, m),
           Count(dead', m) = Count(dead, m),
           m \in acked' <=> m \in acked,
           \A e \in Entries(processing) : e.id = m => e \in Entries(processing')
    PROVE  MessageInv(m)'
<1>1. ~Holding(op[t], m) /\ ~Holding(o, m) /\ ~Listed(o, m)
  BY DEF Holding, Listed, About
<1>2. Copies(m)' = Copies(m)
  <2>1. Counted(m, t, o)
    BY StepCounts
  <2> QED BY <1>1, <2>1 DEF Counted
<1>3. /\ m \notin sent => Copies(m) = 0
      /\ m \in sent /\ Prompt(m) => Copies(m) <= 1 /\ (m \notin failed => Copies(m) > 0)
  BY DEF MessageInv
<1> QED BY <1>1, <1>2, <1>3, SoundTypes, OneTaskMoves

(* The worker of a prompt message is the only one, and nothing but what it   *)
(* works on is a copy of it.                                                 *)
LEMMA OwnMessage ==
    ASSUME Sound, NEW m \in Msg, MessageInv(m), NEW t \in Task, About(op[t], m)
    PROVE  /\ m \in sent
           /\ Prompt(m) =>
                /\ t \in Worker
                /\ Copies(m) <= 1 /\ (m \notin failed => Copies(m) > 0)
                /\ Working(t, m) => \A u \in Worker \ {t} : ~Working(u, m)
                /\ Listed(op[t], m) => op[t].e \in Entries(processing)
<1>1. m \in sent
  BY DEF MessageInv
<1>2. ASSUME Prompt(m) PROVE t \in Worker
  BY <1>2 DEF Sound, CleanerIsLate, About, Task
<1> QED BY <1>1, <1>2 DEF MessageInv

LEMMA TakesKeeps ==
    ASSUME Sound, TypeOK', NEW m \in Msg, MessageInv(m), NEW w \in Worker, Takes(w)
    PROVE  MessageInv(m)'
<1>1. PICK e \in Oldest(op[w].prio) :
        /\ pending' = LRem(pending, e) /\ processing' = Append(processing, e)
        /\ Goes(w, [at |-> "taken", e |-> e])
  BY DEF Takes
<1> DEFINE o == [at |-> "taken", e |-> e]
<1>2. e \in Entries(pending) /\ e \in Entry
  BY OldestIsPending, EntriesOfSeq, SoundTypes
<1>3. o \in Op /\ w \in Task /\ op[w].at = "look"
  BY <1>2, OpsMade, SoundTypes DEF Takes, At
<1>4. ~Holding(o, m) /\ ~Holding(op[w], m) /\ ~About(op[w], m)
      /\ (About(o, m) \/ Listed(o, m) => e.id = m)
  BY <1>3 DEF Holding, About, Listed
<1>5. sent' = sent /\ late' = late /\ old' = old /\ failed' = failed /\ dead' = dead /\ acked' = acked
  BY DEF Takes, clocks
<1>6. o.e = e /\ o.at = "taken" /\ Goes(w, o)
  BY <1>1
<1> HIDE DEF o
<1>7. /\ Count(pending', m) = Count(pending, m) - (IF e.id = m THEN 1 ELSE 0)
      /\ Count(processing', m) = Count(processing, m) + (IF e.id = m THEN 1 ELSE 0)
      /\ Entries(processing') = Entries(processing) \cup {e}
      /\ e.id = m => Count(pending, m) >= 1
  BY <1>1, <1>2, SoundTypes, OutAndIn
<1>8. /\ Copies(m)' = Copies(m)
      /\ e.id = m => Copies(m) >= 1 + Count(processing, m) + Cardinality(InHands(m))
      /\ Count(processing, m) \in Nat /\ Cardinality(InHands(m)) \in Nat
  <2>1. Counted(m, w, o)
    BY <1>3, <1>6, SoundTypes, StepCounts
  <2> QED BY <1>4, <1>5, <1>7, <2>1 DEF Counted
<1>9. e.id = m => m \in sent
  BY <1>8 DEF MessageInv
<1>10. ASSUME e.id = m, Prompt(m), NEW u \in Worker PROVE ~Working(u, m)
  <2>1. Copies(m) <= 1
    BY <1>9, <1>10 DEF MessageInv
  <2>2. Count(processing, m) = 0 /\ Cardinality(InHands(m)) = 0
    <3>1. Counted(m, w, o)
      BY <1>3, <1>6, SoundTypes, StepCounts
    <3> QED BY <1>8, <1>10, <2>1, <3>1 DEF Counted
  <2>3. ~Holding(op[u], m)
    BY <2>2, SoundTypes, HeldCounts
  <2>4. ~Listed(op[u], m)
    <3>1. SUFFICES ASSUME Listed(op[u], m) PROVE FALSE
      OBVIOUS
    <3>2. op[u].e \in Entries(processing) /\ op[u].e.id = m
      BY <1>9, <1>10, <3>1 DEF MessageInv, Listed
    <3> QED BY <2>2, <3>2, SoundTypes, ListedCounts
  <2> QED BY <2>3, <2>4 DEF Working, Holding, Listed
<1>11. /\ m \notin sent => Copies(m) = 0
       /\ m \in sent /\ Prompt(m) => Copies(m) <= 1 /\ (m \notin failed => Copies(m) > 0)
  BY DEF MessageInv
<1> QED BY <1>3, <1>4, <1>5, <1>6, <1>7, <1>8, <1>9, <1>10, <1>11, SoundTypes, OneTaskMoves

LEMMA TakesOutKeeps ==
    ASSUME Sound, TypeOK', NEW m \in Msg, MessageInv(m), NEW w \in Worker, TakesOut(w)
    PROVE  MessageInv(m)'
<1> DEFINE e == op[w].e
           o == [at |-> "moved", e |-> Started(e)]
<1>1. w \in Task /\ op[w].at = "taken" /\ e \in Entry /\ e \in Live
  BY SoundTypes, OpFacts DEF TakesOut, At, OpsLive
<1>2. o \in Op /\ Started(e).id = e.id
  BY <1>1, StartedIsLive, LiveIsEntry, OpsMade
<1>3. Goes(w, o) /\ processing' = LRem(processing, e)
  BY DEF TakesOut, Started
<1>4. /\ sent' = sent /\ late' = late /\ old' = old /\ failed' = failed
      /\ dead' = dead /\ acked' = acked /\ pending' = pending
  BY DEF TakesOut, clocks
<1>5. /\ ~Holding(op[w], m) /\ ~Listed(o, m)
      /\ (Holding(o, m) <=> e.id = m) /\ (About(o, m) <=> e.id = m) /\ (About(op[w], m) <=> e.id = m)
      /\ (Working(w, m) <=> e.id = m) /\ (Listed(op[w], m) <=> e.id = m)
  BY <1>1, <1>2 DEF Holding, About, Listed, Working
<1> HIDE DEF o
<1>6. CASE e.id # m
  <2>1. /\ Count(processing', m) = Count(processing, m)
        /\ \A f \in Entries(processing) : f.id = m => f \in Entries(processing')
    <3>1. Count(processing, m) \in Nat
      BY SoundTypes, Parts
    <3> QED BY <1>1, <1>3, <1>6, <3>1, SoundTypes, OutAndIn
  <2> QED BY <1>1, <1>2, <1>3, <1>4, <1>5, <1>6, <2>1, Elsewhere
<1>7. CASE e.id = m
  <2>1. /\ m \in sent
        /\ Prompt(m) => /\ Copies(m) <= 1 /\ (m \notin failed => Copies(m) > 0)
                        /\ \A u \in Worker \ {w} : ~Working(u, m)
                        /\ e \in Entries(processing)
    BY <1>1, <1>5, <1>7, OwnMessage
  <2>2. Prompt(m) => Count(processing', m) = Count(processing, m) - 1
    BY <1>1, <1>3, <1>7, <2>1, SoundTypes, OutAndIn
  <2>3. Prompt(m) => Copies(m)' = Copies(m)
    <3>1. Counted(m, w, o)
      BY <1>1, <1>2, <1>3, StepCounts
    <3> QED BY <1>4, <1>5, <1>7, <2>2, <3>1 DEF Counted
  <2> QED BY <1>1, <1>2, <1>3, <1>4, <1>5, <2>1, <2>3, SoundTypes, OneTaskMoves
<1> QED BY <1>6, <1>7

LEMMA StartsKeeps ==
    ASSUME Sound, TypeOK', NEW m \in Msg, MessageInv(m), NEW w \in Worker, Starts(w)
    PROVE  MessageInv(m)'
<1> DEFINE e == op[w].e
           o == [op[w] EXCEPT !.at = "holds"]
<1>1. w \in Task /\ op[w].at = "moved" /\ e \in Entry
  BY SoundTypes, OpFacts DEF Starts, At
<1>2. o \in Op /\ o.at = "holds" /\ o.e = e
  BY <1>1, SoundTypes DEF Op, Idle
<1>3. Goes(w, o) /\ processing' = Append(processing, e)
  BY DEF Starts
<1>4. /\ sent' = sent /\ late' = late /\ old' = old /\ failed' = failed
      /\ dead' = dead /\ acked' = acked /\ pending' = pending
  BY DEF Starts, clocks
<1> HIDE DEF o
<1>5. /\ ~Holding(o, m) /\ (Listed(o, m) <=> e.id = m)
      /\ (Holding(op[w], m) <=> e.id = m) /\ (About(o, m) <=> e.id = m) /\ (About(op[w], m) <=> e.id = m)
      /\ (Working(w, m) <=> e.id = m)
  BY <1>1, <1>2 DEF Holding, About, Listed, Working
<1>6. /\ Count(processing', m) = Count(processing, m) + (IF e.id = m THEN 1 ELSE 0)
      /\ Entries(processing') = Entries(processing) \cup {e}
  BY <1>1, <1>3, SoundTypes, OutAndIn
<1>7. Copies(m)' = Copies(m)
  <2>1. Counted(m, w, o)
    BY <1>1, <1>2, <1>3, StepCounts
  <2> QED BY <1>4, <1>5, <1>6, <2>1 DEF Counted
<1>8. CASE e.id # m
  <2>1. Count(processing', m) = Count(processing, m)
    BY <1>6, <1>8, SoundTypes, Parts
  <2> QED BY <1>1, <1>2, <1>3, <1>4, <1>5, <1>6, <1>8, <2>1, Elsewhere
<1>9. CASE e.id = m
  <2>1. /\ m \in sent
        /\ Prompt(m) => Copies(m) <= 1 /\ (m \notin failed => Copies(m) > 0)
    BY <1>1, <1>5, <1>9, OwnMessage
  <2> QED BY <1>1, <1>2, <1>3, <1>4, <1>5, <1>6, <1>7, <1>9, <2>1, SoundTypes, OneTaskMoves
<1> QED BY <1>8, <1>9

LEMMA FoundKeeps ==
    ASSUME Sound, TypeOK', NEW m \in Msg, MessageInv(m),
           NEW t \in Task, Reject(t) \/ (t \in Worker /\ Acknowledge(t))
    PROVE  MessageInv(m)'
<1>1. op[t].at = (IF t = Cleaner THEN "dropped" ELSE "holds")
  BY SoundTypes DEF Reject, Acknowledge, At
<1>2. \A e \in Found(op[t].e.id) : e \in Entries(processing) /\ e \in Entry /\ e.id = op[t].e.id
  BY SoundTypes, EntriesOfSeq DEF Found
<1>3. PICK o \in Op : /\ Goes(t, o)
                      /\ \/ o.at = "idle"
                         \/ /\ o.at \in {"acking", "rejecting"}
                            /\ o.e \in Entries(processing) /\ o.e.id = op[t].e.id
  <2>1. ASSUME NEW e \in Found(op[t].e.id), Goes(t, [at |-> "acking", e |-> e])
        PROVE  \E o \in Op : Goes(t, o) /\ o.at = "acking" /\ o.e \in Entries(processing)
                               /\ o.e.id = op[t].e.id
    <3>1. [at |-> "acking", e |-> e] \in Op
      BY <1>2, OpsMade
    <3> QED BY <1>2, <2>1, <3>1
  <2>2. ASSUME NEW e \in Found(op[t].e.id), NEW r \in BOOLEAN,
               Goes(t, [at |-> "rejecting", e |-> e, retry |-> r])
        PROVE  \E o \in Op : Goes(t, o) /\ o.at = "rejecting" /\ o.e \in Entries(processing)
                               /\ o.e.id = op[t].e.id
    <3>1. [at |-> "rejecting", e |-> e, retry |-> r] \in Op
      BY <1>2, OpsMade
    <3> QED BY <1>2, <2>2, <3>1
  <2>3. CASE Goes(t, Idle("idle"))
    BY <2>3, OpsMade
  <2>4. CASE Reject(t)
    <3>1. \/ \E e \in Found(op[t].e.id), r \in BOOLEAN :
                Goes(t, [at |-> "rejecting", e |-> e, retry |-> r])
          \/ Goes(t, Idle("idle"))
      BY <2>4 DEF Reject
    <3> QED BY <2>2, <2>3, <3>1
  <2>5. CASE Acknowledge(t)
    BY <2>1, <2>3, <2>5 DEF Acknowledge
  <2> QED BY <2>4, <2>5
<1>4. UNCHANGED <<queues, acked, sent, late, old, failed>>
  BY DEF Reject, Acknowledge, clocks
<1>5. /\ ~Holding(op[t], m) /\ ~Holding(o, m)
      /\ About(o, m) => About(op[t], m)
      /\ Listed(o, m) => /\ o.e \in Entries(processing)
                         /\ t \notin Worker \/ Working(t, m)
  BY <1>1, <1>3, SoundTypes DEF Holding, About, Listed, Working
<1> QED BY <1>3, <1>4, <1>5, ListsStay

LEMMA AcknowledgedKeeps ==
    ASSUME Sound, TypeOK', NEW m \in Msg, MessageInv(m), NEW w \in Worker, Acknowledged(w)
    PROVE  MessageInv(m)'
<1> DEFINE e == op[w].e
           o == Idle("idle")
<1>1. w \in Task /\ op[w].at = "acking" /\ e \in Entry
  BY SoundTypes, OpFacts DEF Acknowledged, At
<1>2. o \in Op /\ o.at = "idle"
  BY OpsMade
<1>3. Goes(w, o) /\ processing' = LRem(processing, e)
  BY DEF Acknowledged
<1>4. /\ sent' = sent /\ late' = late /\ old' = old /\ failed' = failed
      /\ dead' = dead /\ pending' = pending /\ acked' = acked \cup {e.id}
  BY DEF Acknowledged, clocks
<1> HIDE DEF o
<1>5. /\ ~Holding(op[w], m) /\ ~Holding(o, m) /\ ~Listed(o, m) /\ ~About(o, m)
      /\ (About(op[w], m) <=> e.id = m)
      /\ (Working(w, m) <=> e.id = m) /\ (Listed(op[w], m) <=> e.id = m)
  BY <1>1, <1>2 DEF Holding, About, Listed, Working
<1>6. CASE e.id # m
  <2>1. /\ Count(processing', m) = Count(processing, m)
        /\ \A f \in Entries(processing) : f.id = m => f \in Entries(processing')
    <3>1. Count(processing, m) \in Nat
      BY SoundTypes, Parts
    <3> QED BY <1>1, <1>3, <1>6, <3>1, SoundTypes, OutAndIn
  <2> QED BY <1>1, <1>2, <1>3, <1>4, <1>5, <1>6, <2>1, Elsewhere
<1>7. CASE e.id = m
  <2>1. /\ m \in sent
        /\ Prompt(m) => /\ Copies(m) <= 1
                        /\ \A u \in Worker \ {w} : ~Working(u, m)
                        /\ e \in Entries(processing)
    BY <1>1, <1>5, <1>7, OwnMessage
  <2>2. Prompt(m) => /\ Count(processing', m) = Count(processing, m) - 1
                     /\ Count(processing, m) >= 1
    BY <1>1, <1>3, <1>7, <2>1, SoundTypes, OutAndIn
  <2>3. Prompt(m) => Copies(m)' = 1
    <3>1. Counted(m, w, o)
      BY <1>1, <1>2, <1>3, StepCounts
    <3>2. m \in acked'
      BY <1>4, <1>7
    <3> QED BY <1>4, <1>5, <2>1, <2>2, <3>1, <3>2 DEF Counted
  <2> QED BY <1>1, <1>2, <1>3, <1>4, <1>5, <2>1, <2>3, SoundTypes, OneTaskMoves
<1> QED BY <1>6, <1>7

LEMMA RejectedKeeps ==
    ASSUME Sound, TypeOK', NEW m \in Msg, MessageInv(m), NEW t \in Task, Rejected(t)
    PROVE  MessageInv(m)'
<1> DEFINE e == op[t].e
           a == IF op[t].retry /\ Returned(e).retries < MaxRetries THEN "backoff" ELSE "bury"
           o == [at |-> a, e |-> Returned(e)]
<1>1. op[t].at = "rejecting" /\ e \in Entry /\ e \in Live
  BY SoundTypes, OpFacts DEF Rejected, At, OpsLive
<1>2. Goes(t, o) /\ processing' = LRem(processing, e)
  BY DEF Rejected, Returned
<1>3. a \in {"backoff", "bury"}
  OBVIOUS
<1> HIDE DEF a
<1>4. o \in Op /\ o.at \in {"backoff", "bury"} /\ o.e.id = e.id
  <2>1. Returned(e) \in Entry /\ Returned(e).id = e.id
    BY <1>1, ReturnedIsEntry
  <2> QED BY <1>3, <2>1, OpsMade
<1>5. /\ sent' = sent /\ late' = late /\ old' = old /\ failed' = failed
      /\ dead' = dead /\ acked' = acked /\ pending' = pending
  BY DEF Rejected, clocks
<1> HIDE DEF o
<1>6. /\ ~Holding(op[t], m) /\ ~Listed(o, m) /\ o.at # "moved"
      /\ (Holding(o, m) <=> e.id = m) /\ (About(o, m) <=> e.id = m) /\ (About(op[t], m) <=> e.id = m)
      /\ (Working(t, m) <=> e.id = m) /\ (Listed(op[t], m) <=> e.id = m)
  BY <1>1, <1>4 DEF Holding, About, Listed, Working
<1>7. CASE e.id # m
  <2>1. /\ Count(processing', m) = Count(processing, m)
        /\ \A f \in Entries(processing) : f.id = m => f \in Entries(processing')
    <3>1. Count(processing, m) \in Nat
      BY SoundTypes, Parts
    <3> QED BY <1>1, <1>2, <1>7, <3>1, SoundTypes, OutAndIn
  <2> QED BY <1>2, <1>4, <1>5, <1>6, <1>7, <2>1, Elsewhere
<1>8. CASE e.id = m
  <2>1. /\ m \in sent
        /\ Prompt(m) => /\ Copies(m) <= 1 /\ (m \notin failed => Copies(m) > 0)
                        /\ \A u \in Worker \ {t} : ~Working(u, m)
                        /\ e \in Entries(processing)
    BY <1>6, <1>8, OwnMessage
  <2>2. Prompt(m) => Count(processing', m) = Count(processing, m) - 1
    BY <1>1, <1>2, <1>8, <2>1, SoundTypes, OutAndIn
  <2>3. Prompt(m) => Copies(m)' = Copies(m)
    <3>1. Counted(m, t, o)
      BY <1>2, <1>4, StepCounts
    <3> QED BY <1>5, <1>6, <1>8, <2>2, <3>1 DEF Counted
  <2> QED BY <1>2, <1>4, <1>5, <1>6, <2>1, <2>3, SoundTypes, OneTaskMoves
<1> QED BY <1>7, <1>8

LEMMA ReturnKeeps ==
    ASSUME Sound, TypeOK', NEW m \in Msg, MessageInv(m), NEW t \in Task, Requeues(t) \/ Buries(t)
    PROVE  MessageInv(m)'
<1> DEFINE e == op[t].e
           o == Idle("idle")
<1>1. op[t].at \in {"backoff", "bury"} /\ e \in Entry
  BY SoundTypes, OpFacts DEF Requeues, Buries, At
<1>2. o \in Op /\ o.at = "idle"
  BY OpsMade
<1>3. Goes(t, o)
  BY DEF Requeues, Buries
<1>4. /\ sent' = sent /\ late' = late /\ old' = old /\ failed' = failed
      /\ acked' = acked /\ processing' = processing
      /\ \/ pending' = Append(pending, e) /\ dead' = dead
         \/ pending' = pending /\ dead' = Append(dead, e)
  BY DEF Requeues, Buries, clocks
<1> HIDE DEF o
<1>5. /\ ~Listed(o, m) /\ ~About(o, m) /\ ~Holding(o, m)
      /\ (Holding(op[t], m) <=> e.id = m) /\ (About(op[t], m) <=> e.id = m)
  BY <1>1, <1>2 DEF Holding, About, Listed
<1>6. /\ Count(Append(pending, e), m) = Count(pending, m) + (IF e.id = m THEN 1 ELSE 0)
      /\ Count(Append(dead, e), m) = Count(dead, m) + (IF e.id = m THEN 1 ELSE 0)
  BY <1>1, SoundTypes, OutAndIn
<1>7. Counted(m, t, o)
  BY <1>2, <1>3, StepCounts
<1>8. CASE e.id # m
  <2>1. Count(pending', m) = Count(pending, m) /\ Count(dead', m) = Count(dead, m)
    <3>1. /\ Count(Append(pending, e), m) = Count(pending, m)
          /\ Count(Append(dead, e), m) = Count(dead, m)
      BY <1>6, <1>7, <1>8 DEF Counted
    <3> QED BY <1>4, <3>1
  <2> QED BY <1>2, <1>3, <1>4, <1>5, <1>8, <2>1, Elsewhere
<1>9. CASE e.id = m
  <2>1. Copies(m)' = Copies(m)
    <3>1. \/ /\ Count(pending', m) = Count(pending, m) + 1
             /\ Count(dead', m) = Count(dead, m)
          \/ /\ Count(pending', m) = Count(pending, m)
             /\ Count(dead', m) = Count(dead, m) + 1
      <4>1. /\ Count(Append(pending, e), m) = Count(pending, m) + 1
            /\ Count(Append(dead, e), m) = Count(dead, m) + 1
        BY <1>6, <1>9
      <4> QED BY <1>4, <4>1
    <3>2. Count(processing', m) = Count(processing, m) /\ acked' = acked
      BY <1>4
    <3> QED BY <1>5, <1>7, <1>9, <3>1, <3>2 DEF Counted
  <2>2. m \in sent /\ (Prompt(m) => Copies(m) <= 1 /\ (m \notin failed => Copies(m) > 0))
    BY <1>5, <1>9, OwnMessage
  <2> QED BY <1>2, <1>3, <1>4, <1>5, <2>1, <2>2, SoundTypes, OneTaskMoves
<1> QED BY <1>8, <1>9

LEMMA FailsKeeps ==
    ASSUME Sound, TypeOK', NEW m \in Msg, MessageInv(m), NEW t \in Task, Fails(t)
    PROVE  MessageInv(m)'
<1> DEFINE o == Idle("idle")
<1>1. o \in Op /\ o.at = "idle"
  BY OpsMade
<1>2. Goes(t, o)
  BY DEF Fails
<1>3. /\ sent' = sent /\ late' = late /\ old' = old /\ failed \subseteq failed'
      /\ acked' = acked /\ processing' = processing /\ pending' = pending /\ dead' = dead
      /\ About(op[t], m) => m \in failed'
  BY DEF Fails, queues, About, At
<1> HIDE DEF o
<1>4. ~Listed(o, m) /\ ~About(o, m) /\ ~Holding(o, m)
  BY <1>1 DEF Holding, About, Listed
<1>5. CASE ~About(op[t], m)
  BY <1>1, <1>2, <1>3, <1>4, <1>5, Elsewhere
<1>6. CASE About(op[t], m)
  <2>1. Copies(m)' <= Copies(m) /\ Copies(m) \in Int /\ Copies(m)' \in Int
    <3>1. Counted(m, t, o)
      BY <1>1, <1>2, StepCounts
    <3> QED BY <1>3, <1>4, <3>1 DEF Counted
  <2>2. m \in sent /\ (Prompt(m) => Copies(m) <= 1)
    BY <1>6, OwnMessage
  <2>3. Prompt(m) => Copies(m)' <= 1
    BY <2>1, <2>2
  <2> QED BY <1>1, <1>2, <1>3, <1>4, <1>6, <2>2, <2>3, SoundTypes, OneTaskMoves
<1> QED BY <1>5, <1>6

(* Steps of no task.                                                         *)
LEMMA StillCounted ==
    ASSUME Sound, TypeOK', NEW m, op' = op, dead' = dead, acked' = acked
    PROVE  /\ Count(pending, m) \in Nat /\ Count(processing, m) \in Nat /\ Count(dead, m) \in Nat
           /\ Count(pending', m) \in Nat /\ Count(processing', m) \in Nat
           /\ Copies(m) \in Nat
           /\ Copies(m)' = Copies(m) + (Count(pending', m) - Count(pending, m))
                                     + (Count(processing', m) - Count(processing, m))
<1>1. InHands(m)' = InHands(m)
  BY DEF InHands
<1>2. Cardinality(InHands(m)') = Cardinality(InHands(m))
  BY <1>1
<1>3. /\ Count(pending, m) \in Nat /\ Count(processing, m) \in Nat /\ Count(dead, m) \in Nat
      /\ Cardinality(InHands(m)) \in Nat
      /\ Copies(m) = Count(pending, m) + Count(processing, m) + Count(dead, m)
                       + Cardinality(InHands(m)) + (IF m \in acked THEN 1 ELSE 0)
  BY SoundTypes, Parts
<1>4. /\ Count(pending', m) \in Nat /\ Count(processing', m) \in Nat
      /\ Copies(m)' = Count(pending', m) + Count(processing', m) + Count(dead', m)
                        + Cardinality(InHands(m)') + (IF m \in acked' THEN 1 ELSE 0)
  BY NextParts
<1>5. Count(dead', m) = Count(dead, m) /\ (m \in acked' <=> m \in acked)
  OBVIOUS
<1> QED BY <1>2, <1>3, <1>4, <1>5

LEMMA NoTaskMoves ==
    ASSUME Sound, TypeOK', NEW m \in Msg, MessageInv(m),
           op' = op, dead' = dead, acked' = acked, failed' = failed,
           m \in sent' <=> m \in sent, Prompt(m)' => Prompt(m),
           m \notin sent \/ Prompt(m)' =>
             /\ Count(pending', m) = Count(pending, m)
             /\ Count(processing', m) = Count(processing, m)
             /\ \A e \in Entries(processing) : e.id = m => e \in Entries(processing')
    PROVE  MessageInv(m)'
<1>1. m \notin sent \/ Prompt(m)' => Copies(m)' = Copies(m)
  BY StillCounted
<1>2. ASSUME m \in sent, Prompt(m)', NEW w \in Worker, Listed(op'[w], m)
      PROVE  op'[w].e \in Entries(processing')
  <2>1. op[w].e \in Entries(processing) /\ op[w].e.id = m
    BY <1>2 DEF MessageInv, Listed
  <2> QED BY <1>2, <2>1
<1>3. \A v \in Worker : Working(v, m)' <=> Working(v, m)
  BY DEF Working
<1>4. ASSUME m \in sent, Prompt(m)'
      PROVE  /\ Copies(m)' <= 1 /\ (m \notin failed' => Copies(m)' > 0)
             /\ \A v, w \in Worker : Working(v, m)' /\ Working(w, m)' => v = w
  BY <1>1, <1>3, <1>4 DEF MessageInv
<1>5. ASSUME m \notin sent
      PROVE  Copies(m)' = 0 /\ \A t \in Task : ~About(op'[t], m)
  BY <1>1, <1>5 DEF MessageInv
<1> QED BY <1>2, <1>4, <1>5 DEF MessageInv

LEMMA EnqueueKeeps ==
    ASSUME Sound, TypeOK', NEW m \in Msg, MessageInv(m), NEW n \in Msg, Enqueue(n)
    PROVE  MessageInv(m)'
<1> DEFINE e == [id |-> n, prio |-> PriorityOf[n], retries |-> 0, started |-> FALSE]
<1>1. e \in Entry /\ e.id = n
  BY DEF Entry, Priority
<1>2. /\ n \notin sent /\ sent' = sent \cup {n} /\ pending' = Append(pending, e)
      /\ processing' = processing /\ dead' = dead /\ acked' = acked /\ op' = op
      /\ late' = late /\ old' = old /\ failed' = failed
  BY DEF Enqueue, clocks
<1> HIDE DEF e
<1>3. Count(pending', m) = Count(pending, m) + (IF n = m THEN 1 ELSE 0)
  BY <1>1, <1>2, SoundTypes, OutAndIn
<1>4. Prompt(m)' <=> Prompt(m)
  BY <1>2 DEF Prompt
<1>5. CASE n # m
  <2>1. Count(pending', m) = Count(pending, m)
    BY <1>2, <1>3, <1>5, StillCounted
  <2> QED BY <1>2, <1>4, <1>5, <2>1, NoTaskMoves
<1>6. CASE n = m
  <2>1. Copies(m) = 0 /\ \A t \in Task : ~About(op[t], m)
    BY <1>2, <1>6 DEF MessageInv
  <2>2. Copies(m)' = 1
    <3>1. /\ Count(pending, m) \in Nat /\ Count(processing, m) \in Nat
          /\ Copies(m)' = Copies(m) + (Count(pending', m) - Count(pending, m))
                                    + (Count(processing', m) - Count(processing, m))
      BY <1>2, StillCounted
    <3>2. Count(pending', m) = Count(pending, m) + 1 /\ Count(processing', m) = Count(processing, m)
      BY <1>2, <1>3, <1>6
    <3> QED BY <2>1, <3>1, <3>2
  <2>3. \A w \in Worker : ~Listed(op'[w], m) /\ ~Working(w, m)'
    BY <1>2, <2>1, SoundTypes DEF About, Listed, Working
  <2>4. m \in sent'
    BY <1>2, <1>6
  <2> QED BY <2>2, <2>3, <2>4 DEF MessageInv
<1> QED BY <1>5, <1>6

LEMMA SweepKeeps ==
    ASSUME Sound, TypeOK', NEW m \in Msg, MessageInv(m), SweepStep
    PROVE  MessageInv(m)'
<1>1. CASE Sweep
  <2>1. /\ op' = op /\ dead' = dead /\ acked' = acked /\ failed' = failed /\ sent' = sent
        /\ pending' = pending /\ processing' = processing /\ late' = late /\ old' = old
    BY <1>1 DEF Sweep, queues, clocks
  <2>2. Prompt(m)' => Prompt(m)
    BY <2>1 DEF Prompt
  <2> QED BY <2>1, <2>2, NoTaskMoves
<1>2. ASSUME NEW e \in Entries(todo), SweepsOverdue(e) \/ SweepsExpired(e) \/ SweepsPast(e)
      PROVE  MessageInv(m)'
  <2>1. /\ dead' = dead /\ acked' = acked /\ failed' = failed /\ sent' = sent
        /\ pending' = pending /\ late' = late /\ old' = old
    BY <1>2 DEF SweepsOverdue, SweepsExpired, SweepsPast, queues, clocks
  <2>2. e.id \in sent /\ e \in Entry
    BY EntriesOfSeq, LiveIsEntry DEF Sound, CleanerIsLate, RetriesBounded
  <2>3. (Prompt(m)' <=> Prompt(m))
    BY <2>1 DEF Prompt
  <2>4. CASE SweepsPast(e)
    <3>1. op' = op /\ processing' = processing
      BY <2>4 DEF SweepsPast, queues
    <3> QED BY <2>1, <2>3, <3>1, NoTaskMoves
  <2>5. CASE ~SweepsPast(e)
    <3>1. processing' = LRem(processing, e) /\ ~Prompt(e.id)
      BY <1>2, <2>5 DEF SweepsOverdue, SweepsExpired, Overdue, Expired, Prompt
    <3>2. e.id # m =>
            /\ Count(processing', m) = Count(processing, m)
            /\ \A f \in Entries(processing) : f.id = m => f \in Entries(processing')
      <4>1. Count(processing, m) \in Nat
        BY SoundTypes, Parts
      <4> QED BY <2>2, <3>1, <4>1, SoundTypes, OutAndIn
    <3>3. CASE SweepsExpired(e)
      <4>1. op' = op
        BY <3>3 DEF SweepsExpired
      <4>2. m \notin sent \/ Prompt(m)' => e.id # m
        BY <2>2, <2>3, <3>1
      <4> QED BY <2>1, <2>3, <3>2, <4>1, <4>2, NoTaskMoves
    <3>4. CASE SweepsOverdue(e)
      <4> DEFINE o == [at |-> "dropped", e |-> e]
      <4>1. o \in Op /\ o.at = "dropped" /\ o.e = e
        BY <2>2, OpsMade
      <4>2. Goes(Cleaner, o) /\ op[Cleaner].at = "idle"
        BY <3>4 DEF SweepsOverdue, Visits, At
      <4> HIDE DEF o
      <4>3. CASE e.id # m
        <5>1. ~About(op[Cleaner], m) /\ ~About(o, m)
          BY <4>1, <4>2, <4>3 DEF About
        <5> QED BY <2>1, <3>2, <4>1, <4>2, <4>3, <5>1, SoundTypes, Elsewhere
      <4>4. CASE e.id = m
        <5>1. m \in sent' /\ ~Prompt(m)'
          BY <2>1, <2>2, <2>3, <3>1, <4>4
        <5> QED BY <5>1 DEF MessageInv
      <4> QED BY <4>3, <4>4
    <3> QED BY <1>2, <2>5, <3>3, <3>4
  <2> QED BY <2>4, <2>5
<1> QED BY <1>1, <1>2 DEF SweepStep

LEMMA TimeKeeps ==
    ASSUME Sound, TypeOK', NEW m \in Msg, MessageInv(m), TimeStep \/ UNCHANGED vars
    PROVE  MessageInv(m)'
<1>1. /\ op' = op /\ dead' = dead /\ acked' = acked /\ failed' = failed /\ sent' = sent
      /\ pending' = pending /\ processing' = processing
      /\ late \subseteq late' /\ old \subseteq old'
  BY DEF TimeStep, GetsLate, GetsOld, queues, clocks, vars
<1>2. Prompt(m)' => Prompt(m)
  BY <1>1 DEF Prompt
<1> QED BY <1>1, <1>2, NoTaskMoves

-----------------------------------------------------------------------------
LEMMA CleanerStays ==
    ASSUME Sound, TypeOK', \A m \in Msg : MessageInv(m), [Next]_vars
    PROVE  CleanerIsLate'
<1>1. sent \subseteq sent' /\ \A n : Prompt(n)' => Prompt(n)
  <2>1. sent \subseteq sent' /\ late \subseteq late' /\ old \subseteq old'
    BY DEF Next, WorkerStep, RejectStep, SweepStep, TimeStep, Enqueue, Dequeue, LooksFurther,
           Takes, TakesOut, Starts, Acknowledge, Acknowledged, Reject, Rejected, Requeues,
           Buries, Sweep, SweepsOverdue, SweepsExpired, SweepsPast, GetsLate, GetsOld, Fails,
           vars, clocks, queues
  <2> QED BY <2>1 DEF Prompt
<1>2. \A e \in Entries(todo') : e.id \in sent'
  <2>1. CASE Sweep
    <3>1. todo' = processing
      BY <2>1 DEF Sweep
    <3>2. ASSUME NEW e \in Entries(processing) PROVE e.id \in sent
      <4>1. e.id \in Msg /\ processing \in Seq(Entry)
        <5>1. e \in Entry /\ processing \in Seq(Entry)
          BY SoundTypes, EntriesOfSeq
        <5> QED BY <5>1 DEF Entry
      <4>2. Count(processing, e.id) >= 1
        BY <4>1, ListedCounts
      <4>3. /\ Count(pending, e.id) \in Nat /\ Count(processing, e.id) \in Nat
            /\ Count(dead, e.id) \in Nat /\ Cardinality(InHands(e.id)) \in Nat
            /\ Copies(e.id) = Count(pending, e.id) + Count(processing, e.id) + Count(dead, e.id)
                                + Cardinality(InHands(e.id)) + (IF e.id \in acked THEN 1 ELSE 0)
        BY SoundTypes, Parts
      <4>4. Copies(e.id) # 0
        BY <4>2, <4>3
      <4> QED BY <4>1, <4>4 DEF MessageInv
    <3> QED BY <1>1, <3>1, <3>2
  <2>2. CASE \E e \in Entries(todo) : SweepsOverdue(e) \/ SweepsExpired(e) \/ SweepsPast(e)
    <3>1. todo # <<>> /\ todo' = Tail(todo)
      BY <2>2 DEF SweepsOverdue, SweepsExpired, SweepsPast, Visits
    <3>2. \A i \in DOMAIN Tail(todo) : i + 1 \in DOMAIN todo /\ Tail(todo)[i] = todo[i + 1]
      BY <3>1 DEF Sound, TypeOK
    <3>3. Entries(todo') \subseteq Entries(todo)
      BY <3>1, <3>2 DEF Entries
    <3> QED BY <1>1, <3>3 DEF Sound, CleanerIsLate
  <2>3. CASE ~SweepStep
    <3>1. todo' = todo
      BY <2>3 DEF Next, WorkerStep, RejectStep, TimeStep, Enqueue, Dequeue, LooksFurther,
           Takes, TakesOut, Starts, Acknowledge, Acknowledged, Reject, Rejected, Requeues,
           Buries, GetsLate, GetsOld, Fails, vars
    <3> QED BY <1>1, <3>1 DEF Sound, CleanerIsLate
  <2> QED BY <2>1, <2>2, <2>3 DEF SweepStep
<1>3. /\ op'[Cleaner].at \in {"idle", "dropped", "rejecting", "backoff", "bury"}
      /\ op'[Cleaner].at # "idle" => ~Prompt(op'[Cleaner].e.id)
  <2>1. CASE op'[Cleaner] = op[Cleaner]
    BY <2>1, <1>1 DEF Sound, CleanerIsLate
  <2>2. ASSUME NEW w \in Worker, WorkerStep(w) PROVE op'[Cleaner] = op[Cleaner]
    BY <2>2, SoundTypes DEF WorkerStep, Dequeue, LooksFurther, Takes, TakesOut, Starts,
       Acknowledge, Acknowledged, Goes
  <2>3. ASSUME NEW t \in Task, t # Cleaner, RejectStep(t) \/ Fails(t)
        PROVE  op'[Cleaner] = op[Cleaner]
    BY <2>3, SoundTypes DEF RejectStep, Reject, Rejected, Requeues, Buries, Fails, Goes
  <2>4. CASE Goes(Cleaner, Idle("idle"))
    BY <2>4, SoundTypes DEF Goes, Idle
  <2>5. CASE Reject(Cleaner)
    <3>1. op[Cleaner].at = "dropped"
      BY <2>5 DEF Reject, At
    <3>2. CASE Goes(Cleaner, Idle("idle"))
      BY <2>4, <3>2
    <3>3. ASSUME NEW e \in Found(op[Cleaner].e.id), NEW r \in BOOLEAN,
                 Goes(Cleaner, [at |-> "rejecting", e |-> e, retry |-> r])
          PROVE  op'[Cleaner].at = "rejecting" /\ op'[Cleaner].e.id = op[Cleaner].e.id
      BY <3>3, SoundTypes DEF Goes, Found
    <3> QED BY <2>5, <3>1, <3>2, <3>3, <2>4 DEF Reject, Sound, CleanerIsLate
  <2>6. CASE Rejected(Cleaner)
    <3>1. op[Cleaner].at = "rejecting" /\ op[Cleaner].e \in Live
      BY <2>6, SoundTypes DEF Rejected, At, OpsLive
    <3>2. /\ op'[Cleaner].at \in {"backoff", "bury"}
          /\ op'[Cleaner].e = Returned(op[Cleaner].e)
      BY <2>6, SoundTypes DEF Rejected, Goes, Returned
    <3>3. op'[Cleaner].e.id = op[Cleaner].e.id
      BY <3>1, <3>2, ReturnedIsEntry
    <3> QED BY <1>1, <3>1, <3>2, <3>3 DEF Sound, CleanerIsLate
  <2>7. ASSUME NEW e \in Entries(todo), SweepsOverdue(e)
        PROVE  op'[Cleaner].at = "dropped" /\ op'[Cleaner].e = e /\ ~Prompt(e.id)
    BY <2>7, SoundTypes DEF SweepsOverdue, Goes, Overdue, Prompt
  <2>8. CASE \E e \in Entries(todo) : SweepsOverdue(e)
    BY <1>1, <2>7, <2>8
  <2>9. CASE op' = op
    BY <2>1, <2>9
  <2>10. CASE Requeues(Cleaner) \/ Buries(Cleaner) \/ Fails(Cleaner)
    BY <2>4, <2>10 DEF Requeues, Buries, Fails
  <2>11. CASE \E w \in Worker : WorkerStep(w)
    BY <2>1, <2>2, <2>11
  <2>12. CASE \E t \in Task : RejectStep(t) \/ Fails(t)
    BY <2>1, <2>3, <2>5, <2>6, <2>10, <2>12 DEF RejectStep
  <2>13. CASE SweepStep
    BY <2>8, <2>9, <2>13 DEF SweepStep, Sweep, SweepsExpired, SweepsPast
  <2>14. CASE (\E m \in Msg : Enqueue(m)) \/ TimeStep \/ UNCHANGED vars
    BY <2>9, <2>14 DEF Enqueue, TimeStep, GetsLate, GetsOld, vars
  <2> QED BY <2>11, <2>12, <2>13, <2>14 DEF Next
<1>4. op'[Cleaner].at # "idle" => ~Prompt(op[Cleaner].e.id)'
  BY <1>1, <1>3 DEF Prompt
<1> QED BY <1>2, <1>3, <1>4 DEF CleanerIsLate

LEMMA InitInv == ASSUME Init PROVE QueueInv
<1>1. TypeOK /\ RetriesBounded /\ CleanerIsLate
  BY OpsMade, EmptySeq DEF Init, TypeOK, RetriesBounded, CleanerIsLate, Task, Entries, Idle
<1>2. ASSUME NEW m \in Msg PROVE MessageInv(m)
  <2>1. Count(<<>>, m) = 0
    <3>1. {i \in DOMAIN <<>> : <<>>[i].id = m} = {}
      OBVIOUS
    <3> QED BY <3>1, FS_EmptySet DEF Count
  <2>2. InHands(m) = {} /\ acked \cap {m} = {}
    BY DEF Init, InHands, Idle
  <2>3. Copies(m) = 0
    BY <2>1, <2>2, FS_EmptySet DEF Copies, Init
  <2> QED BY <2>3 DEF MessageInv, Init, About, Idle
<1> QED BY <1>1, <1>2 DEF QueueInv

LEMMA NextInv == ASSUME QueueInv, [Next]_vars PROVE QueueInv'
<1>1. Sound /\ TypeOK /\ RetriesBounded /\ \A m \in Msg : MessageInv(m)
  BY DEF QueueInv, Sound
<1>2. TypeOK' /\ RetriesBounded'
  <2>1. CASE UNCHANGED vars
    BY <1>1, <2>1 DEF vars, queues, clocks, TypeOK, RetriesBounded
  <2>2. CASE Next
    BY <1>1, <2>2, WorkerTypes, OtherTypes DEF Next
  <2> QED BY <2>1, <2>2
<1>3. CleanerIsLate'
  BY <1>1, <1>2, CleanerStays
<1>4. ASSUME NEW m \in Msg PROVE MessageInv(m)'
  <2>1. CASE \E n \in Msg : Enqueue(n)
    BY <1>1, <1>2, <2>1, EnqueueKeeps
  <2>2. ASSUME NEW w \in Worker, WorkerStep(w) PROVE MessageInv(m)'
    <3>1. w \in Task
      BY DEF Task
    <3> QED BY <1>1, <1>2, <2>2, <3>1, LooksKeep, TakesKeeps, TakesOutKeeps, StartsKeeps,
            FoundKeeps, AcknowledgedKeeps DEF WorkerStep
  <2>3. ASSUME NEW t \in Task, RejectStep(t) \/ Fails(t) PROVE MessageInv(m)'
    BY <1>1, <1>2, <2>3, FoundKeeps, RejectedKeeps, ReturnKeeps, FailsKeeps DEF RejectStep
  <2>4. CASE SweepStep
    BY <1>1, <1>2, <2>4, SweepKeeps
  <2>5. CASE TimeStep \/ UNCHANGED vars
    BY <1>1, <1>2, <2>5, TimeKeeps
  <2> QED BY <2>1, <2>2, <2>3, <2>4, <2>5 DEF Next
<1> QED BY <1>2, <1>3, <1>4 DEF QueueInv

(* The invariant: types, the bound of the retries, the cleanup's distance    *)
(* from prompt messages, and the accounts of every message.                  *)
THEOREM QueueInvariant == Spec => []QueueInv
<1>1. Init => QueueInv
  BY InitInv
<1>2. QueueInv /\ [Next]_vars => QueueInv'
  BY NextInv
<1> QED BY <1>1, <1>2, PTL DEF Spec

(* A prompt message is never there twice, and is lost only by an operation   *)
(* on itself that fails half way: dequeue, acknowledge, reject and the       *)
(* cleanup, one Redis command at a time and in any order, keep it once.      *)
THEOREM PromptMessagesOnce == Spec => []PromptOnce
<1>1. QueueInv => PromptOnce
  BY DEF QueueInv, MessageInv, PromptOnce, TypeOK
<1> QED BY <1>1, QueueInvariant, PTL

(* No two workers ever process a prompt message at a time.                   *)
THEOREM OneWorkerAtATime == Spec => []OneWorker
<1>1. ASSUME QueueInv PROVE OneWorker
  <2> SUFFICES ASSUME NEW m \in sent, Prompt(m)
               PROVE  Cardinality({w \in Worker : Working(w, m)}) <= 1
    BY DEF OneWorker
  <2> DEFINE W == {w \in Worker : Working(w, m)}
  <2>1. \A v, w \in W : v = w
    BY <1>1 DEF QueueInv, MessageInv, TypeOK
  <2> SUFFICES Cardinality(W) <= 1
    OBVIOUS
  <2> HIDE DEF W
  <2>2. CASE W = {}
    <3>1. Cardinality({}) = 0
      BY FS_EmptySet
    <3> QED BY <2>2, <3>1
  <2>3. CASE W # {}
    <3>1. PICK v \in W : TRUE
      BY <2>3
    <3>2. W = {v}
      BY <2>1, <3>1
    <3>3. Cardinality({v}) = 1
      BY FS_Singleton
    <3> QED BY <3>2, <3>3
  <2> QED BY <2>2, <2>3
<1> QED BY <1>1, QueueInvariant, PTL
=============================================================================
