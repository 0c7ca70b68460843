-------------------------- MODULE AdmissionProofs --------------------------
(***************************************************************************)
(* Proofs about who is let in.  The slots of ConnectionSlots are counted    *)
(* correctly and are a semaphore, for any number of calls and slots; the    *)
(* limits of RateLimiter are respected, for any clients, any rules and any  *)
(* measure of time that meet its assumptions.                               *)
(***************************************************************************)
EXTENDS Admission, SequenceTheorems, FiniteSetTheorems, WellFoundedInduction, TLAPS

-----------------------------------------------------------------------------
\* Numbers and deques, for the limiter.

\* Every nonempty set of numbers has a least one.
LEMMA LeastNatural ==
    ASSUME NEW T \in SUBSET Nat, T # {}
    PROVE  \E m \in T : \A k \in T : m <= k
<1> DEFINE R == OpToRel(<, Nat)
<1>1. IsWellFoundedOn(R, Nat)
  BY NatLessThanWellFounded
<1>2. \A x, y \in Nat : y < x => <<y, x>> \in R
  BY DEF OpToRel
<1> HIDE DEF R
<1>3. PICK x \in T : \A y \in T : ~ (<<y, x>> \in R)
  BY <1>1, WFMin
<1>4. ASSUME NEW k \in T PROVE x <= k
  <2>1. x \in Nat /\ k \in Nat /\ ~ (k < x)
    BY <1>2, <1>3
  <2> QED BY <2>1
<1> QED BY <1>4

\* What popleft leaves: all but the old ones before the first that is not.
LEMMA PoppedSuffix ==
    ASSUME NEW S, NEW s \in Seq(S), NEW old \in SUBSET (1..Len(s))
    PROVE  \E n \in 0..Len(s) :
             /\ Limiter!Popped(s, old) \in Seq(S)
             /\ Len(Limiter!Popped(s, old)) = Len(s) - n
             /\ \A i \in 1..(Len(s) - n) : Limiter!Popped(s, old)[i] = s[n + i]
             /\ \A i \in 1..n : i \in old
             /\ n < Len(s) => n + 1 \notin old
<1> DEFINE T == {n \in 0..Len(s) : n + 1 \notin old}
           Stops(n) == n + 1 \notin old /\ 1..n \subseteq old
<1>1. Len(s) \in T
  OBVIOUS
<1>2. T \in SUBSET Nat
  OBVIOUS
<1>3. PICK m \in T : \A k \in T : m <= k
  <2> HIDE DEF T
  <2> QED BY <1>1, <1>2, LeastNatural
<1>4. Stops(m) /\ m \in 0..Len(s)
  <2>1. ASSUME NEW i \in 1..m PROVE i \in old
    <3>1. i - 1 \in 0..Len(s) /\ ~ (m <= i - 1) /\ (i - 1) + 1 = i
      BY <1>2
    <3>2. i - 1 \notin T
      BY <1>3, <3>1
    <3> QED BY <3>1, <3>2
  <2> QED BY <2>1
<1> DEFINE n == CHOOSE n \in 0..Len(s) : Stops(n)
<1>5. Stops(n) /\ n \in 0..Len(s)
  <2> HIDE DEF Stops
  <2> QED BY <1>4
<1>6. Limiter!Popped(s, old) = SubSeq(s, n + 1, Len(s))
  BY DEF Limiter!Popped
<1> HIDE DEF n
<1>7. /\ SubSeq(s, n + 1, Len(s)) \in Seq(S)
      /\ Len(SubSeq(s, n + 1, Len(s))) = Len(s) - n
      /\ \A i \in 1..(Len(s) - n) : SubSeq(s, n + 1, Len(s))[i] = s[n + i]
  BY <1>5
<1> QED BY <1>5, <1>6, <1>7

\* Products with the length of a second.
LEMMA Seconds ==
    ASSUME Limiter!WindowAssumption, NEW x \in Nat, NEW y \in Nat
    PROVE  /\ x * Second \in Nat
           /\ (x + y) * Second = x * Second + y * Second
           /\ x * Second <= y * Second => x <= y
           /\ x <= y => x * Second <= y * Second
<1>1. Second \in Nat \ {0}
  BY DEF Limiter!WindowAssumption
<1>2. x * Second \in Nat /\ (x + y) * Second = x * Second + y * Second
  BY <1>1
<1>3. ASSUME x <= y PROVE x * Second <= y * Second
  <2> DEFINE z == y - x
  <2>1. z \in Nat /\ y = x + z
    BY <1>3
  <2> HIDE DEF z
  <2>2. y * Second = x * Second + z * Second /\ z * Second \in Nat /\ x * Second \in Nat
    BY <1>1, <2>1
  <2> QED BY <2>2
<1>4. ASSUME ~ (x <= y) PROVE ~ (x * Second <= y * Second)
  <2> DEFINE z == x - y - 1
  <2>1. z \in Nat /\ x = (y + z) + 1
    BY <1>4
  <2> HIDE DEF z
  <2>2. x * Second = y * Second + z * Second + Second /\ z * Second \in Nat /\ y * Second \in Nat
    BY <1>1, <2>1
  <2> QED BY <1>1, <2>2
<1> QED BY <1>2, <1>3, <1>4

\* The greatest burst limit.
LEMMA GreatestBurst ==
    ASSUME Limiter!RuleAssumption, Rule # {}
    PROVE  \E m \in Rule : \A q \in Rule : Burst[q] <= Burst[m]
<1>1. /\ MinuteKeeps \in Nat
      /\ \A q \in Rule : Burst[q] \in Nat /\ Burst[q] <= MinuteKeeps
  BY DEF Limiter!RuleAssumption
<1> DEFINE T == {MinuteKeeps - Burst[q] : q \in Rule}
<1>2. T \in SUBSET Nat /\ T # {}
  BY <1>1
<1>3. PICK k \in T : \A j \in T : k <= j
  <2> HIDE DEF T
  <2> QED BY <1>2, LeastNatural
<1>4. PICK m \in Rule : k = MinuteKeeps - Burst[m]
  BY <1>3
<1>5. ASSUME NEW q \in Rule PROVE Burst[q] <= Burst[m]
  <2>1. k <= MinuteKeeps - Burst[q]
    BY <1>3
  <2> QED BY <1>1, <1>4, <2>1
<1> QED BY <1>5

-----------------------------------------------------------------------------
\* A tracker and what its client was served.

Accepted == [age : 0..Hour, rule : Rule]

\* The older requests come first.
Falling(s) == \A i \in 1..Len(s) : \A k \in 1..i : s[i].age <= s[k].age

\* A deque holds the times of the last requests, back to one that is no longer
\* in its window unless it is full.
Tracks(d, s, window, keeps) ==
    /\ Len(d) <= keeps
    /\ \A k \in 0..(Len(d) - 1) :
         d[Len(d) - k] = IF k < Len(s) THEN s[Len(s) - k].age ELSE Limiter!Ancient
    /\ Len(d) < Len(s) => Len(d) = keeps \/ s[Len(s) - Len(d)].age > window

LEMMA ServedTypes ==
    ASSUME NEW s \in Seq(Accepted), NEW i \in 1..Len(s)
    PROVE  s[i].age \in 0..Hour /\ s[i].age \in Nat /\ s[i].rule \in Rule
<1>1. s[i] \in Accepted
  OBVIOUS
<1> QED BY <1>1 DEF Accepted

LEMMA FreshTracks ==
    ASSUME Limiter!WindowAssumption, NEW d \in Seq(Limiter!Age), NEW s \in Seq(Accepted),
           NEW window \in Nat, NEW keeps \in Nat \ {0}, window <= Hour, Tracks(d, s, window, keeps)
    PROVE  /\ Limiter!Fresh(d, window) \in Seq(Limiter!Age)
           /\ Tracks(Limiter!Fresh(d, window), s, window, keeps)
<1> DEFINE f   == Limiter!Fresh(d, window)
           old == {i \in DOMAIN d : d[i] > window}
<1>1. f = Limiter!Popped(d, old) /\ old \in SUBSET (1..Len(d))
  BY DEF Limiter!Fresh
<1> HIDE DEF old
<1> HIDE DEF f
<1>2. PICK n \in 0..Len(d) :
        /\ f \in Seq(Limiter!Age) /\ Len(f) = Len(d) - n
        /\ \A i \in 1..(Len(d) - n) : f[i] = d[n + i]
        /\ \A i \in 1..n : i \in old
  <2>1. \E n \in 0..Len(d) :
          /\ Limiter!Popped(d, old) \in Seq(Limiter!Age)
          /\ Len(Limiter!Popped(d, old)) = Len(d) - n
          /\ \A i \in 1..(Len(d) - n) : Limiter!Popped(d, old)[i] = d[n + i]
          /\ \A i \in 1..n : i \in old
          /\ n < Len(d) => n + 1 \notin old
    BY <1>1, PoppedSuffix
  <2> QED BY <1>1, <2>1
<1>3. \A i \in 1..n : d[i] > window
  BY <1>2 DEF old
<1>4. Len(d) \in Nat /\ Len(s) \in Nat /\ Len(f) \in Nat /\ n \in Nat
  BY <1>2
<1>5. ASSUME NEW k \in 0..(Len(f) - 1)
      PROVE  f[Len(f) - k] = IF k < Len(s) THEN s[Len(s) - k].age ELSE Limiter!Ancient
  <2>1. Len(f) - k \in 1..(Len(d) - n) /\ n + (Len(f) - k) = Len(d) - k /\ k \in 0..(Len(d) - 1)
    BY <1>2, <1>4
  <2>2. f[Len(f) - k] = d[Len(d) - k]
    BY <1>2, <2>1
  <2> QED BY <2>1, <2>2 DEF Tracks
<1>6. ASSUME Len(f) < Len(s)
      PROVE  Len(f) = keeps \/ s[Len(s) - Len(f)].age > window
  <2>1. CASE n = 0
    <3>1. Len(f) = Len(d)
      BY <1>2, <1>4, <2>1
    <3> QED BY <1>6, <3>1 DEF Tracks
  <2>2. CASE n > 0
    <3>1. Len(f) \in 0..(Len(d) - 1) /\ Len(d) - Len(f) = n
      BY <1>2, <1>4, <2>2
    <3>2. d[n] = s[Len(s) - Len(f)].age
      BY <1>6, <3>1 DEF Tracks
    <3> QED BY <1>3, <1>4, <2>2, <3>2
  <2> QED BY <1>4, <2>1, <2>2
<1>7. Len(f) <= keeps
  BY <1>2, <1>4 DEF Tracks
<1> QED BY <1>2, <1>5, <1>6, <1>7 DEF f, Tracks

LEMMA PushTracks ==
    ASSUME Limiter!WindowAssumption, NEW d \in Seq(Limiter!Age), NEW s \in Seq(Accepted),
           NEW window \in Nat, NEW keeps \in Nat \ {0}, Tracks(d, s, window, keeps),
           NEW a, a.age = 0
    PROVE  /\ Limiter!Pushed(d, keeps) \in Seq(Limiter!Age)
           /\ Tracks(Limiter!Pushed(d, keeps), Append(s, a), window, keeps)
<1> DEFINE p == Limiter!Pushed(d, keeps)
           t == Append(s, a)
           m == IF Len(d) = keeps THEN 1 ELSE 0
           e == IF Len(d) = keeps THEN Tail(d) ELSE d
<1>1. 0 \in Limiter!Age
  BY DEF Limiter!Age, Limiter!Ancient, Limiter!WindowAssumption
<1>2. /\ e \in Seq(Limiter!Age) /\ Len(e) = Len(d) - m
      /\ \A i \in 1..(Len(d) - m) : e[i] = d[m + i]
  <2>1. CASE Len(d) = keeps
    <3>1. d # <<>> /\ Len(d) > 0
      BY <2>1
    <3>2. /\ Tail(d) \in Seq(Limiter!Age) /\ Len(Tail(d)) = Len(d) - 1
          /\ \A i \in 1..(Len(d) - 1) : Tail(d)[i] = d[1 + i]
      BY <3>1
    <3> QED BY <2>1, <3>2
  <2>2. CASE Len(d) # keeps
    BY <2>2
  <2> QED BY <2>1, <2>2
<1>3. p = Append(e, 0)
  BY DEF Limiter!Pushed
<1>4. Len(d) \in Nat /\ Len(s) \in Nat /\ m \in {0, 1} /\ Len(e) \in Nat /\ m <= Len(d)
  BY <1>2
<1>5. m = 1 <=> Len(d) = keeps
  OBVIOUS
<1> HIDE DEF e, m
<1>6. /\ p \in Seq(Limiter!Age) /\ Len(p) = Len(e) + 1 /\ p[Len(e) + 1] = 0
      /\ \A i \in 1..Len(e) : p[i] = e[i]
  BY <1>1, <1>2, <1>3
<1>7. /\ Len(t) = Len(s) + 1 /\ t[Len(s) + 1] = a
      /\ \A i \in 1..Len(s) : t[i] = s[i]
  OBVIOUS
<1> HIDE DEF p, t
<1>8. ASSUME NEW k \in 0..(Len(p) - 1)
      PROVE  p[Len(p) - k] = IF k < Len(t) THEN t[Len(t) - k].age ELSE Limiter!Ancient
  <2>1. CASE k = 0
    BY <1>4, <1>6, <1>7, <2>1
  <2>2. CASE k > 0
    <3> DEFINE j == k - 1
    <3>1. /\ j \in 0..(Len(d) - 1) /\ Len(p) - k \in 1..Len(e) /\ Len(p) - k \in 1..(Len(d) - m)
          /\ m + (Len(p) - k) = Len(d) - j
          /\ (k < Len(t)) <=> (j < Len(s))
          /\ Len(t) - k = Len(s) - j
      BY <1>2, <1>4, <1>6, <1>7, <2>2
    <3>2. p[Len(p) - k] = d[Len(d) - j]
      BY <1>2, <1>6, <3>1
    <3>3. (j < Len(s)) => t[Len(s) - j] = s[Len(s) - j]
      <4>1. ASSUME j < Len(s) PROVE Len(s) - j \in 1..Len(s)
        BY <1>4, <3>1, <4>1
      <4> HIDE DEF j
      <4> QED BY <1>7, <4>1
    <3> HIDE DEF j
    <3> QED BY <3>1, <3>2, <3>3 DEF Tracks
  <2> QED BY <1>4, <1>6, <2>1, <2>2
<1>9. ASSUME Len(p) < Len(t)
      PROVE  Len(p) = keeps \/ t[Len(t) - Len(p)].age > window
  <2>1. CASE m = 1
    BY <1>2, <1>4, <1>5, <1>6, <2>1
  <2>2. CASE m = 0
    <3>1. Len(p) = Len(d) + 1 /\ Len(d) < Len(s)
      BY <1>2, <1>4, <1>6, <1>7, <1>9, <2>2
    <3>2. s[Len(s) - Len(d)].age > window
      BY <1>5, <2>2, <3>1 DEF Tracks
    <3>3. Len(t) - Len(p) = Len(s) - Len(d) /\ Len(s) - Len(d) \in 1..Len(s)
      BY <1>4, <1>7, <3>1
    <3> QED BY <1>7, <3>2, <3>3
  <2> QED BY <1>4, <2>1, <2>2
<1>10. Len(p) <= keeps
  <2>1. Len(d) <= keeps
    BY DEF Tracks
  <2> QED BY <1>2, <1>4, <1>5, <1>6, <2>1
<1> QED BY <1>6, <1>8, <1>9, <1>10 DEF p, t, Tracks

\* What a tick does to what was served: the first n are out of the hour window.
Aged(s, t, n) ==
    /\ n \in 0..Len(s) /\ t \in Seq(Accepted) /\ Len(t) = Len(s) - n
    /\ \A i \in 1..(Len(s) - n) : t[i].age = s[n + i].age + 1 /\ t[i].rule = s[n + i].rule
    /\ \A i \in 1..n : s[i].age = Hour

LEMMA TickTracks ==
    ASSUME Limiter!WindowAssumption, NEW d \in Seq(Limiter!Age), NEW s \in Seq(Accepted),
           NEW window \in Nat, NEW keeps \in Nat \ {0}, Tracks(d, s, window, keeps),
           NEW t, NEW n, Aged(s, t, n)
    PROVE  LET e == [i \in DOMAIN d |-> Limiter!Older(d[i])]
           IN  e \in Seq(Limiter!Age) /\ Tracks(e, t, window, keeps)
<1> DEFINE e == [i \in DOMAIN d |-> Limiter!Older(d[i])]
<1>0. Hour \in Nat
  BY DEF Limiter!WindowAssumption
<1>1. /\ e \in Seq(Limiter!Age) /\ Len(e) = Len(d)
      /\ \A i \in 1..Len(d) : e[i] = Limiter!Older(d[i])
  <2>1. \A x \in Limiter!Age : Limiter!Older(x) \in Limiter!Age
    BY <1>0 DEF Limiter!Older, Limiter!Age, Limiter!Ancient
  <2> QED BY <2>1
<1> HIDE DEF e
<1>2. Len(d) \in Nat /\ Len(s) \in Nat /\ n \in Nat /\ n <= Len(s) /\ Len(t) = Len(s) - n
  BY DEF Aged
<1>3. \A i \in 1..Len(s) : s[i].age \in 0..Hour
  BY ServedTypes
<1>4. \A i \in 1..Len(t) : t[i].age = s[n + i].age + 1
  BY <1>2 DEF Aged
<1>5. ASSUME NEW k \in 0..(Len(e) - 1)
      PROVE  e[Len(e) - k] = IF k < Len(t) THEN t[Len(t) - k].age ELSE Limiter!Ancient
  <2>a. k \in 0..(Len(d) - 1) /\ Len(d) - k \in 1..Len(d) /\ Len(e) - k = Len(d) - k
    BY <1>1, <1>2
  <2>b. d[Len(d) - k] = IF k < Len(s) THEN s[Len(s) - k].age ELSE Limiter!Ancient
    BY <2>a DEF Tracks
  <2>c. e[Len(e) - k] = Limiter!Older(d[Len(d) - k])
    BY <1>1, <2>a
  <2>0. /\ d[Len(d) - k] = IF k < Len(s) THEN s[Len(s) - k].age ELSE Limiter!Ancient
        /\ e[Len(e) - k] = Limiter!Older(d[Len(d) - k])
    BY <2>b, <2>c
  <2>1. CASE k < Len(t)
    <3>1. k < Len(s) /\ Len(t) - k \in 1..Len(t) /\ n + (Len(t) - k) = Len(s) - k /\ Len(s) - k \in 1..Len(s)
      BY <1>1, <1>2, <2>1
    <3>2. t[Len(t) - k].age = s[Len(s) - k].age + 1
      BY <1>4, <3>1
    <3>3. s[Len(s) - k].age \in 0..Hour
      BY <1>3, <3>1
    <3>4. e[Len(e) - k] = s[Len(s) - k].age + 1
      <4> DEFINE x == s[Len(s) - k].age
      <4>1. e[Len(e) - k] = Limiter!Older(x)
        BY <2>0, <3>1
      <4>2. x \in 0..Hour
        BY <3>3
      <4> HIDE DEF x
      <4>3. Limiter!Older(x) = x + 1
        BY <1>0, <4>2 DEF Limiter!Older, Limiter!Ancient
      <4> QED BY <4>1, <4>3 DEF x
    <3> QED BY <2>1, <3>2, <3>4
  <2>2. CASE ~ (k < Len(t)) /\ k < Len(s)
    <3>1. Len(s) - k \in 1..n
      BY <1>1, <1>2, <2>2
    <3>2. s[Len(s) - k].age = Hour
      BY <3>1 DEF Aged
    <3> QED BY <1>0, <2>0, <2>2, <3>2 DEF Limiter!Older, Limiter!Ancient
  <2>3. CASE ~ (k < Len(t)) /\ ~ (k < Len(s))
    BY <1>0, <2>0, <2>3 DEF Limiter!Older, Limiter!Ancient
  <2> QED BY <2>1, <2>2, <2>3
<1>6. ASSUME Len(e) < Len(t)
      PROVE  Len(e) = keeps \/ t[Len(t) - Len(e)].age > window
  <2>1. /\ Len(d) < Len(s) /\ Len(t) - Len(e) \in 1..Len(t) /\ Len(s) - Len(d) \in 1..Len(s)
        /\ n + (Len(t) - Len(e)) = Len(s) - Len(d)
    BY <1>1, <1>2, <1>6
  <2>2. t[Len(t) - Len(e)].age = s[Len(s) - Len(d)].age + 1
    BY <1>4, <2>1
  <2>3. Len(d) = keeps \/ s[Len(s) - Len(d)].age > window
    BY <2>1 DEF Tracks
  <2>4. s[Len(s) - Len(d)].age \in Nat
    BY <1>0, <1>3, <2>1
  <2> QED BY <1>1, <2>2, <2>3, <2>4
<1> QED BY <1>1, <1>5, <1>6 DEF e, Tracks

\* What the tracker counts in a window is at least what was served in it,
\* unless its deque is full.
LEMMA CountsAll ==
    ASSUME Limiter!WindowAssumption, NEW d \in Seq(Limiter!Age), NEW s \in Seq(Accepted),
           NEW window \in Nat, NEW keeps \in Nat \ {0}, window <= Hour,
           Tracks(d, s, window, keeps), Falling(s),
           NEW k \in 1..Len(s), s[k].age <= window
    PROVE  \/ (Len(s) - k) + 1 <= Len(Limiter!Fresh(d, window))
           \/ Len(Limiter!Fresh(d, window)) = keeps
<1> DEFINE f == Limiter!Fresh(d, window)
<1>1. f \in Seq(Limiter!Age) /\ Tracks(f, s, window, keeps)
  BY FreshTracks
<1> HIDE DEF f
<1>2. Len(f) \in Nat /\ Len(s) \in Nat
  BY <1>1
<1>3. ASSUME ~ ((Len(s) - k) + 1 <= Len(f)) PROVE Len(f) = keeps
  <2> DEFINE j == Len(s) - Len(f)
  <2>1. j \in 1..Len(s) /\ k \in 1..j /\ Len(f) < Len(s)
    BY <1>2, <1>3
  <2>2. Len(f) = keeps \/ s[j].age > window
    BY <1>1, <2>1 DEF Tracks
  <2> HIDE DEF j
  <2>3. s[j].age <= s[k].age
    BY <2>1 DEF Falling
  <2>4. s[j].age \in Nat /\ s[k].age \in Nat
    BY <2>1, ServedTypes
  <2> QED BY <2>2, <2>3, <2>4
<1> QED BY <1>3 DEF f

\* last_request_time is the time of the last request that was served.
LastIs(l, s) == l = IF s = <<>> THEN Limiter!Ancient ELSE s[Len(s)].age

\* Beyond the greatest burst limit a client is served once a second.
Paced(s) == \A b \in Nat :
    (\A q \in Rule : Burst[q] <= b) /\ b * Second <= Minute
      => \A i \in 1..Len(s) : \A k \in 1..i :
           ((i - k) + 1) * Second + s[i].age <= b * Second + s[k].age

\* LimitsRespected, said of one request and an earlier one in its window.
Respects(s) == \A i \in 1..Len(s) : \A k \in 1..i :
    LET n      == (i - k) + 1
        bursts == i > 1 /\ s[i - 1].age < s[i].age + Second
    IN  /\ s[k].age <= s[i].age + Minute => n <= PerMinute[s[i].rule]
        /\ s[k].age <= s[i].age + Hour => n <= PerHour[s[i].rule]
        /\ bursts /\ s[k].age <= s[i].age + Minute => n <= Burst[s[i].rule]

\* What a request that is served adds.
Longer(s, t, r) ==
    /\ t \in Seq(Accepted) /\ Len(t) = Len(s) + 1
    /\ t[Len(s) + 1].age = 0 /\ t[Len(s) + 1].rule = r
    /\ \A i \in 1..Len(s) : t[i] = s[i]

LEMMA ServeFalling ==
    ASSUME NEW s \in Seq(Accepted), Falling(s), NEW t, NEW r, Longer(s, t, r)
    PROVE  Falling(t)
<1>1. ASSUME NEW i \in 1..Len(t), NEW k \in 1..i PROVE t[i].age <= t[k].age
  <2>1. CASE i = Len(s) + 1
    <3>1. t[k].age \in Nat
      BY <2>1, ServedTypes DEF Longer
    <3> QED BY <2>1, <3>1 DEF Longer
  <2>2. CASE i \in 1..Len(s)
    <3>1. k \in 1..Len(s)
      BY <2>2
    <3> QED BY <2>2, <3>1 DEF Longer, Falling
  <2> QED BY <2>1, <2>2 DEF Longer
<1> QED BY <1>1 DEF Falling

LEMMA Between ==
    ASSUME NEW x \in Nat, NEW c \in Nat, NEW m \in Nat, NEW g \in Nat, x <= c, c <= m, g > m
    PROVE  x <= g
OBVIOUS

LEMMA Paces ==
    ASSUME NEW x \in Nat, NEW y \in Nat, NEW c \in Nat, NEW g \in Nat, NEW e \in Nat,
           NEW z, z = y + x, y + g <= c + e, x <= g
    PROVE  z <= c + e
OBVIOUS

\* What the burst limit is for: the pace is kept.
LEMMA ServePaced ==
    ASSUME Limiter!WindowAssumption, Limiter!RuleAssumption,
           NEW s \in Seq(Accepted), NEW d \in Seq(Limiter!Age), NEW l, NEW r \in Rule,
           Tracks(d, s, Minute, MinuteKeeps), LastIs(l, s), Falling(s), Paced(s),
           l < Second => Len(Limiter!Fresh(d, Minute)) < Burst[r],
           NEW t, Longer(s, t, r)
    PROVE  Paced(t)
<1> SUFFICES ASSUME NEW b \in Nat, \A q \in Rule : Burst[q] <= b, b * Second <= Minute,
                    NEW i \in 1..Len(t), NEW k \in 1..i
             PROVE  ((i - k) + 1) * Second + t[i].age <= b * Second + t[k].age
  BY DEF Paced
<1> DEFINE n     == Len(s)
           count == Len(Limiter!Fresh(d, Minute))
<1>1. /\ Second \in Nat \ {0} /\ Minute \in Nat /\ Minute <= Hour
      /\ MinuteKeeps \in Nat \ {0}
      /\ Burst[r] \in Nat \ {0} /\ Burst[r] <= MinuteKeeps /\ Burst[r] <= b
  BY DEF Limiter!WindowAssumption, Limiter!RuleAssumption
<1>2. Limiter!Fresh(d, Minute) \in Seq(Limiter!Age) /\ count \in Nat
  <2>1. Limiter!Fresh(d, Minute) \in Seq(Limiter!Age)
    BY <1>1, FreshTracks
  <2> QED BY <2>1
<1>3. n \in Nat /\ Len(t) = n + 1 /\ b * Second \in Nat
  BY <1>1 DEF Longer
<1>4. \A j \in 1..n : t[j] = s[j] /\ s[j].age \in Nat
  BY ServedTypes DEF Longer
<1>5. \A j \in 1..n : \A h \in 1..j :
        ((j - h) + 1) * Second + s[j].age <= b * Second + s[h].age
  BY DEF Paced
<1>6. CASE i \in 1..n
  <2>1. k \in 1..n
    BY <1>6
  <2> QED BY <1>4, <1>5, <1>6, <2>1
<1>7. CASE i = n + 1 /\ k = n + 1
  <2>1. ((i - k) + 1) * Second = Second
    BY <1>1, <1>7
  <2>2. t[i].age = 0 /\ t[k].age = 0
    BY <1>7 DEF Longer
  <2>3. Second <= b * Second
    <3>1. 1 * Second <= b * Second
      BY <1>1, Seconds
    <3> QED BY <1>1, <3>1
  <2> QED BY <1>1, <1>3, <2>1, <2>2, <2>3
<1>8. CASE i = n + 1 /\ k \in 1..n
  <2>1. t[i].age = 0 /\ t[k].age = s[k].age /\ s[k].age \in Nat
    BY <1>4, <1>8 DEF Longer
  <2>2. SUFFICES ((n - k) + 2) * Second <= b * Second + s[k].age
    <3>1. (i - k) + 1 = (n - k) + 2
      BY <1>3, <1>8
    <3>2. ((n - k) + 2) * Second \in Nat
      <4>1. (n - k) + 2 \in Nat
        BY <1>3, <1>8
      <4> QED BY <1>1, <4>1
    <3> QED BY <2>1, <2>2, <3>1, <3>2
  <2>3. CASE ~ (l < Second)
    <3>1. s # <<>> /\ l = s[n].age /\ n \in 1..n
      BY <1>3, <1>8 DEF LastIs
    <3>2. ((n - k) + 1) * Second + s[n].age <= b * Second + s[k].age
      BY <1>5, <1>8, <3>1
    <3>3. ((n - k) + 2) * Second = ((n - k) + 1) * Second + Second /\ ((n - k) + 1) * Second \in Nat
      <4> DEFINE x == (n - k) + 1
      <4>1. x \in Nat /\ (n - k) + 2 = x + 1
        BY <1>3, <1>8
      <4> HIDE DEF x
      <4>2. (x + 1) * Second = x * Second + 1 * Second /\ x * Second \in Nat
        BY <4>1, Seconds
      <4> QED BY <1>1, <4>1, <4>2 DEF x
    <3>4. s[n].age \in Nat /\ Second <= s[n].age
      BY <1>1, <1>4, <2>3, <3>1
    <3>5. Second \in Nat
      BY <1>1
    <3> QED BY <1>3, <2>1, <3>2, <3>3, <3>4, <3>5, Paces
  <2>4. CASE l < Second
    <3>1. count < Burst[r]
      BY <2>4
    <3>2. \A j \in 1..n : s[j].age <= Minute => (n - j) + 1 <= count
      <4>1. ASSUME NEW j \in 1..n, s[j].age <= Minute PROVE (n - j) + 1 <= count
        <5>1. (Len(s) - j) + 1 <= count \/ count = MinuteKeeps
          BY <1>1, <4>1, CountsAll
        <5> QED BY <1>1, <1>2, <3>1, <5>1
      <4> QED BY <4>1
    <3>3. CASE s[k].age <= Minute
      <4>1. (n - k) + 2 <= b /\ (n - k) + 2 \in Nat
        BY <1>1, <1>2, <1>3, <1>8, <3>1, <3>2, <3>3
      <4>2. ((n - k) + 2) * Second <= b * Second /\ ((n - k) + 2) * Second \in Nat
        BY <4>1, Seconds
      <4> QED BY <1>3, <2>1, <4>2
    <3>4. CASE ~ (s[k].age <= Minute)
      <4> DEFINE T == {h \in 0..n : \A j \in 1..n : j > h => s[j].age <= Minute}
      <4>1. n \in T /\ T \in SUBSET Nat
        BY <1>3
      <4>2. PICK j \in T : \A h \in T : j <= h
        <5> HIDE DEF T
        <5> QED BY <4>1, LeastNatural
      <4>3. j \in 0..n /\ \A h \in 1..n : h > j => s[h].age <= Minute
        OBVIOUS
      <4>4. k <= j /\ j \in 1..n
        BY <1>3, <1>8, <3>4, <4>3
      <4>5. ~ (s[j].age <= Minute)
        <5> SUFFICES ASSUME s[j].age <= Minute PROVE FALSE
          OBVIOUS
        <5>1. j - 1 \in 0..n /\ ~ (j <= j - 1)
          BY <1>3, <4>4
        <5>2. ASSUME NEW h \in 1..n, h > j - 1 PROVE s[h].age <= Minute
          <6>1. h = j \/ h > j
            BY <4>4, <5>2
          <6> QED BY <4>3, <6>1
        <5>3. j - 1 \in T
          BY <5>1, <5>2
        <5> QED BY <4>2, <5>1, <5>3
      <4> HIDE DEF T
      <4>6. ((j - k) + 1) * Second + s[j].age <= b * Second + s[k].age
        BY <1>5, <1>8, <4>4
      <4>7. (n - j) + 1 <= b
        <5>1. CASE j = n
          BY <1>1, <1>3, <5>1
        <5>2. CASE j < n
          <6>1. j + 1 \in 1..n /\ s[j + 1].age <= Minute
            BY <1>3, <4>3, <4>4, <5>2
          <6>2. (n - (j + 1)) + 1 <= count
            BY <3>2, <6>1
          <6> QED BY <1>1, <1>2, <1>3, <3>1, <4>4, <6>2
        <5> QED BY <1>3, <4>3, <5>1, <5>2
      <4>8. /\ ((n - k) + 2) * Second = ((j - k) + 1) * Second + ((n - j) + 1) * Second
            /\ ((j - k) + 1) * Second \in Nat /\ ((n - j) + 1) * Second \in Nat
            /\ ((n - j) + 1) * Second <= b * Second
        <5> DEFINE x == (j - k) + 1
                   y == (n - j) + 1
        <5>1. x \in Nat /\ y \in Nat /\ y <= b /\ (n - k) + 2 = x + y
          BY <1>3, <1>8, <4>4, <4>7
        <5> HIDE DEF x, y
        <5>2. (x + y) * Second = x * Second + y * Second /\ x * Second \in Nat
          BY <5>1, Seconds
        <5>3. y * Second \in Nat /\ y * Second <= b * Second
          BY <5>1, Seconds
        <5> QED BY <5>1, <5>2, <5>3 DEF x, y
      <4>9. s[j].age \in Nat /\ s[j].age > Minute
        BY <1>1, <1>4, <4>4, <4>5
      <4>10. ((n - j) + 1) * Second <= s[j].age
        <5> DEFINE x == ((n - j) + 1) * Second
                   c == b * Second
        <5>1. x \in Nat /\ x <= c /\ c \in Nat /\ c <= Minute
          BY <1>3, <4>8
        <5> HIDE DEF x, c
        <5>2. x <= s[j].age
          BY <1>1, <4>9, <5>1, Between
        <5> QED BY <5>2 DEF x
      <4> DEFINE x == ((n - j) + 1) * Second
                 y == ((j - k) + 1) * Second
                 z == ((n - k) + 2) * Second
                 c == b * Second
      <4>11. z = y + x /\ x \in Nat /\ y \in Nat /\ x <= s[j].age
        BY <4>8, <4>10
      <4>12. y + s[j].age <= c + s[k].age /\ c \in Nat
        BY <1>3, <4>6
      <4> HIDE DEF x, y, z, c
      <4>13. z <= c + s[k].age
        BY <2>1, <4>9, <4>11, <4>12, Paces
      <4> QED BY <4>13 DEF z, c
    <3> QED BY <3>3, <3>4
  <2> QED BY <2>3, <2>4
<1> QED BY <1>3, <1>6, <1>7, <1>8

\* A limit that the tracker has counted, or that the pace keeps.
LEMMA LimitHolds ==
    ASSUME Limiter!WindowAssumption, Limiter!RuleAssumption,
           NEW s \in Seq(Accepted), NEW d \in Seq(Limiter!Age), NEW r \in Rule,
           NEW window \in Nat, NEW keeps \in Nat \ {0}, window <= Hour,
           Tracks(d, s, window, keeps), Falling(s),
           NEW per \in Nat, Len(Limiter!Fresh(d, window)) < per,
           per <= keeps \/ \A q \in Rule : Burst[q] * Second + window <= per * Second,
           NEW t, Longer(s, t, r), Paced(t),
           NEW k \in 1..(Len(s) + 1), t[k].age <= window
    PROVE  ((Len(s) + 1) - k) + 1 <= per
<1> DEFINE n     == Len(s)
           count == Len(Limiter!Fresh(d, window))
<1>1. Limiter!Fresh(d, window) \in Seq(Limiter!Age)
  BY FreshTracks
<1>2. n \in Nat /\ count \in Nat /\ per > 0
  BY <1>1
<1>3. CASE k = n + 1
  BY <1>2, <1>3
<1>4. CASE k \in 1..n /\ per <= keeps
  <2>1. s[k].age <= window
    BY <1>4 DEF Longer
  <2>2. (n - k) + 1 <= count \/ count = keeps
    BY <1>4, <2>1, CountsAll
  <2> HIDE DEF count
  <2>3. count < per
    BY DEF count
  <2> QED BY <1>2, <1>4, <2>2, <2>3
<1>5. CASE k \in 1..n /\ \A q \in Rule : Burst[q] * Second + window <= per * Second
  <2>1. PICK m \in Rule : \A q \in Rule : Burst[q] <= Burst[m]
    BY GreatestBurst
  <2>2. Burst[m] \in Nat /\ Burst[m] * Second <= Minute
    BY DEF Limiter!RuleAssumption
  <2>3. t[n + 1].age = 0 /\ n + 1 \in 1..Len(t) /\ k \in 1..(n + 1)
    BY <1>2, <1>5 DEF Longer
  <2>4. (((n + 1) - k) + 1) * Second + t[n + 1].age <= Burst[m] * Second + t[k].age
    BY <2>1, <2>2, <2>3 DEF Paced
  <2> DEFINE x == ((n + 1) - k) + 1
  <2>5. x \in Nat
    BY <1>2
  <2> HIDE DEF x
  <2>6. x * Second \in Nat /\ Burst[m] * Second \in Nat /\ per * Second \in Nat
    BY <2>2, <2>5, Seconds
  <2>7. x * Second <= Burst[m] * Second + t[k].age
    BY <2>3, <2>4, <2>6 DEF x
  <2>8. t[k].age \in Nat
    BY <2>3, ServedTypes DEF Longer
  <2>9. x * Second <= per * Second
    <3>1. Burst[m] * Second + window <= per * Second
      BY <1>5
    <3> QED BY <2>6, <2>7, <2>8, <3>1
  <2>10. x <= per
    BY <2>5, <2>9, Seconds
  <2> QED BY <2>10 DEF x
<1> QED BY <1>2, <1>3, <1>4, <1>5

LEMMA ServeRespects ==
    ASSUME Limiter!WindowAssumption, Limiter!RuleAssumption,
           NEW m \in Seq(Limiter!Age), NEW h \in Seq(Limiter!Age), NEW l,
           NEW s \in Seq(Accepted), NEW r \in Rule,
           Tracks(m, s, Minute, MinuteKeeps), Tracks(h, s, Hour, HourKeeps), LastIs(l, s),
           Falling(s), Respects(s),
           Len(Limiter!Fresh(m, Minute)) < PerMinute[r],
           Len(Limiter!Fresh(h, Hour)) < PerHour[r],
           l < Second => Len(Limiter!Fresh(m, Minute)) < Burst[r],
           NEW t, Longer(s, t, r), Paced(t)
    PROVE  Respects(t)
<1> DEFINE n == Len(s)
<1>1. /\ Second \in Nat \ {0} /\ Minute \in Nat /\ Hour \in Nat /\ Minute <= Hour
      /\ MinuteKeeps \in Nat \ {0} /\ HourKeeps \in Nat \ {0}
      /\ PerMinute[r] \in Nat /\ PerHour[r] \in Nat /\ Burst[r] \in Nat /\ Burst[r] <= MinuteKeeps
      /\ PerMinute[r] <= MinuteKeeps \/ \A q \in Rule : Burst[q] * Second + Minute <= PerMinute[r] * Second
      /\ PerHour[r] <= HourKeeps \/ \A q \in Rule : Burst[q] * Second + Hour <= PerHour[r] * Second
  BY DEF Limiter!WindowAssumption, Limiter!RuleAssumption
<1>2. n \in Nat /\ Len(t) = n + 1 /\ t[n + 1].age = 0 /\ t[n + 1].rule = r
  BY DEF Longer
<1>3. \A k \in 1..n : t[k] = s[k]
  BY DEF Longer
<1>4. ASSUME NEW k \in 1..(n + 1), t[k].age <= Minute
      PROVE  ((n + 1) - k) + 1 <= PerMinute[r]
  BY <1>1, <1>4, LimitHolds
<1>5. ASSUME NEW k \in 1..(n + 1), t[k].age <= Hour
      PROVE  ((n + 1) - k) + 1 <= PerHour[r]
  <2>1. Hour <= Hour
    BY <1>1
  <2> QED BY <1>1, <1>5, <2>1, LimitHolds
<1>6. ASSUME NEW k \in 1..(n + 1), n + 1 > 1, t[n].age < Second, t[k].age <= Minute
      PROVE  ((n + 1) - k) + 1 <= Burst[r]
  <2>1. n \in 1..n /\ s # <<>>
    BY <1>2, <1>6
  <2>2. l < Second
    BY <1>3, <1>6, <2>1 DEF LastIs
  <2> QED BY <1>1, <1>6, <2>2, LimitHolds
<1> DEFINE Good(i, k) ==
      /\ t[k].age <= t[i].age + Minute => (i - k) + 1 <= PerMinute[t[i].rule]
      /\ t[k].age <= t[i].age + Hour => (i - k) + 1 <= PerHour[t[i].rule]
      /\ (i > 1 /\ t[i - 1].age < t[i].age + Second) /\ t[k].age <= t[i].age + Minute
           => (i - k) + 1 <= Burst[t[i].rule]
<1>7. ASSUME NEW i \in 1..Len(t), NEW k \in 1..i PROVE Good(i, k)
  <2>1. CASE i = n + 1
    <3>1. (n + 1) - 1 = n /\ 0 + Minute = Minute /\ 0 + Hour = Hour /\ 0 + Second = Second
      BY <1>1, <1>2
    <3> QED BY <1>2, <1>4, <1>5, <1>6, <2>1, <3>1
  <2>2. CASE i \in 1..n
    <3>1. k \in 1..n /\ (i > 1 => i - 1 \in 1..n)
      BY <2>2
    <3>2. t[i] = s[i] /\ t[k] = s[k] /\ (i > 1 => t[i - 1] = s[i - 1])
      BY <1>3, <2>2, <3>1
    <3> QED BY <2>2, <3>2 DEF Respects
  <2> QED BY <1>2, <2>1, <2>2
<1> QED BY <1>7 DEF Respects

\* All that is known of one client.
Followed(m, h, l, s) ==
    /\ m \in Seq(Limiter!Age) /\ h \in Seq(Limiter!Age) /\ s \in Seq(Accepted)
    /\ Tracks(m, s, Minute, MinuteKeeps) /\ Tracks(h, s, Hour, HourKeeps)
    /\ LastIs(l, s)
    /\ Falling(s) /\ Paced(s) /\ Respects(s)

LEMMA RefuseKeeps ==
    ASSUME Limiter!WindowAssumption, Limiter!RuleAssumption,
           NEW m, NEW h, NEW l, NEW s, Followed(m, h, l, s)
    PROVE  Followed(Limiter!Fresh(m, Minute), Limiter!Fresh(h, Hour), l, s)
<1>1. /\ Minute \in Nat /\ Hour \in Nat /\ Minute <= Hour
      /\ MinuteKeeps \in Nat \ {0} /\ HourKeeps \in Nat \ {0}
  BY DEF Limiter!WindowAssumption, Limiter!RuleAssumption
<1>2. /\ Limiter!Fresh(m, Minute) \in Seq(Limiter!Age)
      /\ Tracks(Limiter!Fresh(m, Minute), s, Minute, MinuteKeeps)
  BY <1>1, FreshTracks DEF Followed
<1>3. /\ Limiter!Fresh(h, Hour) \in Seq(Limiter!Age)
      /\ Tracks(Limiter!Fresh(h, Hour), s, Hour, HourKeeps)
  BY <1>1, FreshTracks DEF Followed
<1> QED BY <1>2, <1>3 DEF Followed

LEMMA ServeKeeps ==
    ASSUME Limiter!WindowAssumption, Limiter!RuleAssumption,
           NEW m, NEW h, NEW l, NEW s, Followed(m, h, l, s), NEW r \in Rule,
           Len(Limiter!Fresh(m, Minute)) < PerMinute[r],
           Len(Limiter!Fresh(h, Hour)) < PerHour[r],
           l < Second => Len(Limiter!Fresh(m, Minute)) < Burst[r]
    PROVE  Followed(Limiter!Pushed(Limiter!Fresh(m, Minute), MinuteKeeps),
                    Limiter!Pushed(Limiter!Fresh(h, Hour), HourKeeps),
                    0, Append(s, [age |-> 0, rule |-> r]))
<1> DEFINE a  == [age |-> 0, rule |-> r]
           t  == Append(s, a)
           fm == Limiter!Fresh(m, Minute)
           fh == Limiter!Fresh(h, Hour)
<1>1. /\ Minute \in Nat /\ Hour \in Nat
      /\ MinuteKeeps \in Nat \ {0} /\ HourKeeps \in Nat \ {0}
  BY DEF Limiter!WindowAssumption, Limiter!RuleAssumption
<1>2. a \in Accepted /\ a.age = 0 /\ a.rule = r
  BY <1>1 DEF Accepted
<1> HIDE DEF a
<1>3. Longer(s, t, r)
  <2>1. s \in Seq(Accepted)
    BY DEF Followed
  <2>2. /\ t \in Seq(Accepted) /\ Len(t) = Len(s) + 1 /\ t[Len(s) + 1] = a
        /\ \A i \in 1..Len(s) : t[i] = s[i]
    BY <1>2, <2>1
  <2> QED BY <1>2, <2>2 DEF Longer
<1>4. Falling(t)
  BY <1>3, ServeFalling DEF Followed
<1>5. Paced(t)
  BY <1>3, ServePaced DEF Followed
<1>6. Respects(t)
  BY <1>3, <1>5, ServeRespects DEF Followed
<1>7. LastIs(0, t)
  BY <1>3 DEF LastIs, Longer, Followed
<1>8. Followed(fm, fh, l, s)
  BY RefuseKeeps
<1> HIDE DEF fm, fh
<1>9. /\ Limiter!Pushed(fm, MinuteKeeps) \in Seq(Limiter!Age)
      /\ Tracks(Limiter!Pushed(fm, MinuteKeeps), t, Minute, MinuteKeeps)
  BY <1>1, <1>2, <1>8, PushTracks DEF Followed
<1>10. /\ Limiter!Pushed(fh, HourKeeps) \in Seq(Limiter!Age)
       /\ Tracks(Limiter!Pushed(fh, HourKeeps), t, Hour, HourKeeps)
  BY <1>1, <1>2, <1>8, PushTracks DEF Followed
<1>11. t \in Seq(Accepted)
  BY <1>3 DEF Longer
<1> QED BY <1>4, <1>5, <1>6, <1>7, <1>9, <1>10, <1>11 DEF Followed, fm, fh, a

LEMMA Shifted ==
    ASSUME NEW x \in Nat, NEW y \in Nat, NEW w \in Nat, NEW z \in Nat
    PROVE  /\ (x + 1 <= (y + 1) + w) <=> (x <= y + w)
           /\ (w + (x + 1) <= z + (y + 1)) <=> (w + x <= z + y)
OBVIOUS

LEMMA TickKeeps ==
    ASSUME Limiter!WindowAssumption, Limiter!RuleAssumption,
           NEW m, NEW h, NEW l, NEW s, Followed(m, h, l, s), NEW t, NEW n, Aged(s, t, n)
    PROVE  Followed([i \in DOMAIN m |-> Limiter!Older(m[i])],
                    [i \in DOMAIN h |-> Limiter!Older(h[i])], Limiter!Older(l), t)
<1>1. /\ Minute \in Nat /\ Hour \in Nat /\ Second \in Nat
      /\ MinuteKeeps \in Nat \ {0} /\ HourKeeps \in Nat \ {0}
  BY DEF Limiter!WindowAssumption, Limiter!RuleAssumption
<1>2. s \in Seq(Accepted) /\ t \in Seq(Accepted) /\ Len(s) \in Nat /\ n \in 0..Len(s) /\ Len(t) = Len(s) - n
  BY DEF Followed, Aged
<1>3. ASSUME NEW i \in 1..Len(t)
      PROVE  /\ n + i \in 1..Len(s) /\ s[n + i].age \in 0..Hour
             /\ t[i].age = s[n + i].age + 1 /\ t[i].rule = s[n + i].rule
  <2>1. n + i \in 1..Len(s)
    BY <1>2
  <2> QED BY <1>2, <2>1, ServedTypes DEF Aged
<1>10. \A i \in 1..Len(t) : t[i].age = s[n + i].age + 1 /\ s[n + i].age \in Nat
  BY <1>1, <1>3
<1>4. LET e == [i \in DOMAIN m |-> Limiter!Older(m[i])]
      IN  e \in Seq(Limiter!Age) /\ Tracks(e, t, Minute, MinuteKeeps)
  BY <1>1, TickTracks DEF Followed
<1>5. LET e == [i \in DOMAIN h |-> Limiter!Older(h[i])]
      IN  e \in Seq(Limiter!Age) /\ Tracks(e, t, Hour, HourKeeps)
  BY <1>1, TickTracks DEF Followed
<1>6. LastIs(Limiter!Older(l), t)
  <2>1. CASE s = <<>>
    <3>1. t = <<>> /\ l = Limiter!Ancient
      BY <1>2, <2>1 DEF LastIs, Followed
    <3>2. Limiter!Older(l) = Limiter!Ancient
      BY <1>1, <3>1 DEF Limiter!Older, Limiter!Ancient
    <3> QED BY <3>1, <3>2 DEF LastIs
  <2>2. CASE s # <<>> /\ t = <<>>
    <3>1. Len(s) \in 1..n /\ l = s[Len(s)].age
      BY <1>2, <2>2 DEF LastIs, Followed
    <3>2. l = Hour
      BY <3>1 DEF Aged
    <3>3. Limiter!Older(l) = Limiter!Ancient
      BY <1>1, <3>2 DEF Limiter!Older, Limiter!Ancient
    <3> QED BY <2>2, <3>3 DEF LastIs
  <2>3. CASE s # <<>> /\ t # <<>>
    <3>1. Len(t) \in 1..Len(t) /\ n + Len(t) = Len(s) /\ l = s[Len(s)].age
      BY <1>2, <2>3 DEF LastIs, Followed
    <3>2. l \in 0..Hour /\ t[Len(t)].age = l + 1
      BY <1>3, <3>1
    <3>3. Limiter!Older(l) = l + 1
      BY <1>1, <3>2 DEF Limiter!Older, Limiter!Ancient
    <3> QED BY <2>3, <3>2, <3>3 DEF LastIs
  <2>4. s = <<>> => t = <<>>
    BY <1>2
  <2> QED BY <2>1, <2>2, <2>3, <2>4
<1>7. Falling(t)
  <2>1. ASSUME NEW i \in 1..Len(t), NEW k \in 1..i PROVE t[i].age <= t[k].age
    <3>1. k \in 1..Len(t) /\ n + k \in 1..(n + i)
      BY <1>2
    <3>2. s[n + i].age <= s[n + k].age
      BY <1>3, <3>1 DEF Falling, Followed
    <3>3. /\ t[i].age = s[n + i].age + 1 /\ s[n + i].age \in 0..Hour
          /\ t[k].age = s[n + k].age + 1 /\ s[n + k].age \in 0..Hour
      BY <1>3, <3>1
    <3> QED BY <1>1, <3>2, <3>3
  <2> QED BY <2>1 DEF Falling
<1>8. Paced(t)
  <2> SUFFICES ASSUME NEW b \in Nat, \A q \in Rule : Burst[q] <= b, b * Second <= Minute,
                      NEW i \in 1..Len(t), NEW k \in 1..i
               PROVE  ((i - k) + 1) * Second + t[i].age <= b * Second + t[k].age
    BY DEF Paced
  <2>1. k \in 1..Len(t) /\ n + k \in 1..(n + i) /\ (n + i) - (n + k) = i - k /\ (i - k) + 1 \in Nat
    BY <1>2
  <2>2. (((n + i) - (n + k)) + 1) * Second + s[n + i].age <= b * Second + s[n + k].age
    BY <1>3, <2>1 DEF Paced, Followed
  <2>3. /\ t[i].age = s[n + i].age + 1 /\ s[n + i].age \in Nat
        /\ t[k].age = s[n + k].age + 1 /\ s[n + k].age \in Nat
    BY <1>10, <2>1
  <2> DEFINE x == ((i - k) + 1) * Second
             c == b * Second
  <2>4. x \in Nat /\ c \in Nat
    BY <2>1, Seconds
  <2>5. x + s[n + i].age <= c + s[n + k].age
    BY <2>1, <2>2
  <2> HIDE DEF x, c
  <2>6. x + t[i].age <= c + t[k].age
    BY <2>3, <2>4, <2>5, Shifted
  <2> QED BY <2>6 DEF x, c
<1>9. Respects(t)
  <2> DEFINE Good(i, k) ==
        /\ t[k].age <= t[i].age + Minute => (i - k) + 1 <= PerMinute[t[i].rule]
        /\ t[k].age <= t[i].age + Hour => (i - k) + 1 <= PerHour[t[i].rule]
        /\ (i > 1 /\ t[i - 1].age < t[i].age + Second) /\ t[k].age <= t[i].age + Minute
             => (i - k) + 1 <= Burst[t[i].rule]
  <2>1. ASSUME NEW i \in 1..Len(t), NEW k \in 1..i PROVE Good(i, k)
    <3>1. k \in 1..Len(t) /\ n + k \in 1..(n + i) /\ (n + i) - (n + k) = i - k
      BY <1>2
    <3>2. /\ n + i \in 1..Len(s) /\ t[i].rule = s[n + i].rule
          /\ t[i].age = s[n + i].age + 1 /\ s[n + i].age \in Nat
          /\ t[k].age = s[n + k].age + 1 /\ s[n + k].age \in Nat
      BY <1>1, <1>3, <3>1
    <3>3. ASSUME i > 1
          PROVE  /\ n + i > 1 /\ (n + i) - 1 = n + (i - 1)
                 /\ t[i - 1].age = s[(n + i) - 1].age + 1 /\ s[(n + i) - 1].age \in Nat
      <4>1. i - 1 \in 1..Len(t) /\ n + i > 1 /\ (n + i) - 1 = n + (i - 1)
        BY <1>2, <3>3
      <4>2. t[i - 1].age = s[n + (i - 1)].age + 1 /\ s[n + (i - 1)].age \in Nat
        BY <1>1, <1>3, <4>1
      <4> QED BY <4>1, <4>2
    <3> DEFINE j == n + i
               g == n + k
    <3>4. /\ s[g].age <= s[j].age + Minute => (j - g) + 1 <= PerMinute[s[j].rule]
          /\ s[g].age <= s[j].age + Hour => (j - g) + 1 <= PerHour[s[j].rule]
          /\ (j > 1 /\ s[j - 1].age < s[j].age + Second) /\ s[g].age <= s[j].age + Minute
               => (j - g) + 1 <= Burst[s[j].rule]
      BY <3>1, <3>2 DEF Respects, Followed
    <3>5. \A w \in Nat : (t[k].age <= t[i].age + w) <=> (s[g].age <= s[j].age + w)
      <4>1. /\ t[i].age = s[j].age + 1 /\ s[j].age \in Nat
            /\ t[k].age = s[g].age + 1 /\ s[g].age \in Nat
        BY <3>2
      <4> HIDE DEF j, g
      <4>2. ASSUME NEW w \in Nat
            PROVE  (s[g].age + 1 <= (s[j].age + 1) + w) <=> (s[g].age <= s[j].age + w)
        <5>1. 0 \in Nat
          OBVIOUS
        <5> QED BY <4>1, <5>1, Shifted
      <4> QED BY <4>1, <4>2
    <3>6. i > 1 /\ t[i - 1].age < t[i].age + Second => j > 1 /\ s[j - 1].age < s[j].age + Second
      BY <1>1, <3>2, <3>3
    <3>7. j - g = i - k
      BY <3>1
    <3> HIDE DEF j, g
    <3>8. t[i].rule = s[j].rule
      BY <3>2 DEF j
    <3> QED BY <1>1, <3>4, <3>5, <3>6, <3>7, <3>8
  <2> QED BY <2>1 DEF Respects
<1> QED BY <1>2, <1>4, <1>5, <1>6, <1>7, <1>8, <1>9 DEF Followed

-----------------------------------------------------------------------------
\* The limiter.

LimiterInv ==
    /\ minute \in [Asker -> Seq(Limiter!Age)] /\ hour \in [Asker -> Seq(Limiter!Age)]
    /\ last \in [Asker -> Limiter!Age]
    /\ served \in [Asker -> Seq(Accepted)]
    /\ \A c \in Asker : Followed(minute[c], hour[c], last[c], served[c])

LEMMA NothingFollowed ==
    ASSUME Limiter!RuleAssumption
    PROVE  Followed(<<>>, <<>>, Limiter!Ancient, <<>>)
<1>1. MinuteKeeps \in Nat /\ HourKeeps \in Nat
  BY DEF Limiter!RuleAssumption
<1>2. <<>> \in Seq(Limiter!Age) /\ <<>> \in Seq(Accepted) /\ Len(<<>>) = 0
  OBVIOUS
<1>3. 1..0 = {} /\ 0..(0 - 1) = {} /\ ~ (0 < 0)
  OBVIOUS
<1>4. Tracks(<<>>, <<>>, Minute, MinuteKeeps) /\ Tracks(<<>>, <<>>, Hour, HourKeeps)
  BY <1>1, <1>2, <1>3 DEF Tracks
<1>5. LastIs(Limiter!Ancient, <<>>)
  BY DEF LastIs
<1>6. Falling(<<>>) /\ Paced(<<>>) /\ Respects(<<>>)
  BY <1>2, <1>3 DEF Falling, Paced, Respects
<1> QED BY <1>2, <1>4, <1>5, <1>6 DEF Followed

LEMMA AncientAge ==
    ASSUME Limiter!WindowAssumption
    PROVE  Limiter!Ancient \in Limiter!Age /\ 0 \in Limiter!Age
BY DEF Limiter!WindowAssumption, Limiter!Ancient, Limiter!Age

LEMMA InitLimiter ==
    ASSUME Limiter!WindowAssumption, Limiter!RuleAssumption, Limiter!Init
    PROVE  LimiterInv
<1>1. minute = [c \in Asker |-> <<>>] /\ hour = [c \in Asker |-> <<>>]
      /\ last = [c \in Asker |-> Limiter!Ancient] /\ served = [c \in Asker |-> <<>>]
  BY DEF Limiter!Init
<1>2. <<>> \in Seq(Limiter!Age) /\ <<>> \in Seq(Accepted)
  OBVIOUS
<1>3. \A c \in Asker : Followed(minute[c], hour[c], last[c], served[c])
  BY <1>1, NothingFollowed
<1> QED BY <1>1, <1>2, <1>3, AncientAge DEF LimiterInv

\* One client's tracker changes.
LEMMA OneFollowed ==
    ASSUME LimiterInv, NEW c \in Asker, NEW m, NEW h, NEW l \in Limiter!Age, NEW s,
           Followed(m, h, l, s),
           minute' = [minute EXCEPT ![c] = m], hour' = [hour EXCEPT ![c] = h],
           last' = [last EXCEPT ![c] = l], served' = [served EXCEPT ![c] = s]
    PROVE  LimiterInv'
<1>1. m \in Seq(Limiter!Age) /\ h \in Seq(Limiter!Age) /\ s \in Seq(Accepted)
  BY DEF Followed
<1>2. ASSUME NEW d \in Asker
      PROVE  Followed(minute'[d], hour'[d], last'[d], served'[d])
  <2>1. CASE d = c
    <3>1. minute'[d] = m /\ hour'[d] = h /\ last'[d] = l /\ served'[d] = s
      BY <2>1 DEF LimiterInv
    <3> QED BY <3>1
  <2>2. CASE d # c
    <3>1. minute'[d] = minute[d] /\ hour'[d] = hour[d] /\ last'[d] = last[d] /\ served'[d] = served[d]
      BY <2>2 DEF LimiterInv
    <3> QED BY <3>1 DEF LimiterInv
  <2> QED BY <2>1, <2>2
<1>3. /\ minute' \in [Asker -> Seq(Limiter!Age)] /\ hour' \in [Asker -> Seq(Limiter!Age)]
      /\ last' \in [Asker -> Limiter!Age] /\ served' \in [Asker -> Seq(Accepted)]
  BY <1>1 DEF LimiterInv
<1> QED BY <1>2, <1>3 DEF LimiterInv, Limiter!Age, Accepted, Limiter!Ancient

LEMMA AllowsKeeps ==
    ASSUME Limiter!WindowAssumption, Limiter!RuleAssumption, LimiterInv,
           NEW c \in Asker, NEW r \in Rule, Limiter!Allows(c, r)
    PROVE  LimiterInv'
<1> DEFINE m == Limiter!Pushed(Limiter!Fresh(minute[c], Minute), MinuteKeeps)
           h == Limiter!Pushed(Limiter!Fresh(hour[c], Hour), HourKeeps)
           s == Append(served[c], [age |-> 0, rule |-> r])
<1>1. Followed(minute[c], hour[c], last[c], served[c])
  BY DEF LimiterInv
<1>2. /\ Len(Limiter!Fresh(minute[c], Minute)) < PerMinute[r]
      /\ Len(Limiter!Fresh(hour[c], Hour)) < PerHour[r]
      /\ last[c] < Second => Len(Limiter!Fresh(minute[c], Minute)) < Burst[r]
  BY DEF Limiter!Allows, Limiter!CanRequest, Limiter!Bursts
<1>3. Followed(m, h, 0, s)
  BY <1>1, <1>2, ServeKeeps
<1>4. /\ minute' = [minute EXCEPT ![c] = m] /\ hour' = [hour EXCEPT ![c] = h]
      /\ last' = [last EXCEPT ![c] = 0] /\ served' = [served EXCEPT ![c] = s]
  BY DEF Limiter!Allows
<1> HIDE DEF m, h, s
<1> QED BY <1>3, <1>4, AncientAge, OneFollowed

LEMMA RefusesKeeps ==
    ASSUME Limiter!WindowAssumption, Limiter!RuleAssumption, LimiterInv,
           NEW c \in Asker, NEW r \in Rule, Limiter!Refuses(c, r)
    PROVE  LimiterInv'
<1> DEFINE m == Limiter!Fresh(minute[c], Minute)
           h == Limiter!Fresh(hour[c], Hour)
<1>1. Followed(minute[c], hour[c], last[c], served[c])
  BY DEF LimiterInv
<1>2. Followed(m, h, last[c], served[c])
  BY <1>1, RefuseKeeps
<1>3. /\ minute' = [minute EXCEPT ![c] = m] /\ hour' = [hour EXCEPT ![c] = h]
      /\ last' = [last EXCEPT ![c] = last[c]] /\ served' = [served EXCEPT ![c] = served[c]]
  BY DEF Limiter!Refuses, LimiterInv
<1>4. last[c] \in Limiter!Age
  BY DEF LimiterInv
<1> HIDE DEF m, h
<1> QED BY <1>2, <1>3, <1>4, OneFollowed

LEMMA CleanupKeeps ==
    ASSUME Limiter!WindowAssumption, Limiter!RuleAssumption, LimiterInv, Limiter!CleansUp
    PROVE  LimiterInv'
<1>1. ASSUME NEW c \in Asker, Limiter!Inactive(c)
      PROVE  served[c] = <<>>
  <2>1. served[c] \in Seq(Accepted) /\ LastIs(last[c], served[c]) /\ ~ (last[c] <= Hour)
    <3>1. last[c] > Hour
      BY <1>1 DEF Limiter!Inactive
    <3>2. Hour \in Nat /\ last[c] \in Nat
      BY DEF LimiterInv, Limiter!Age, Limiter!Ancient, Limiter!WindowAssumption
    <3> QED BY <3>1, <3>2 DEF LimiterInv, Followed
  <2>2. ASSUME served[c] # <<>> PROVE FALSE
    <3>1. Len(served[c]) \in 1..Len(served[c])
      BY <2>1, <2>2
    <3>2. served[c][Len(served[c])].age \in 0..Hour
      BY <2>1, <3>1, ServedTypes
    <3>3. last[c] = served[c][Len(served[c])].age
      BY <2>1, <2>2 DEF LastIs
    <3> QED BY <2>1, <3>2, <3>3
  <2> QED BY <2>2
<1>2. ASSUME NEW c \in Asker
      PROVE  Followed(minute'[c], hour'[c], last'[c], served'[c])
  <2>1. CASE Limiter!Inactive(c)
    <3>1. minute'[c] = <<>> /\ hour'[c] = <<>> /\ last'[c] = Limiter!Ancient /\ served'[c] = <<>>
      BY <1>1, <2>1 DEF Limiter!CleansUp
    <3> QED BY <3>1, NothingFollowed
  <2>2. CASE ~ Limiter!Inactive(c)
    <3>1. minute'[c] = minute[c] /\ hour'[c] = hour[c] /\ last'[c] = last[c] /\ served'[c] = served[c]
      BY <2>2 DEF Limiter!CleansUp
    <3> QED BY <3>1 DEF LimiterInv
  <2> QED BY <2>1, <2>2
<1>3. <<>> \in Seq(Limiter!Age)
  OBVIOUS
<1>4. /\ minute' \in [Asker -> Seq(Limiter!Age)] /\ hour' \in [Asker -> Seq(Limiter!Age)]
      /\ last' \in [Asker -> Limiter!Age] /\ served' \in [Asker -> Seq(Accepted)]
  BY <1>3, AncientAge DEF LimiterInv, Limiter!CleansUp
<1> QED BY <1>2, <1>4 DEF LimiterInv

\* What a tick leaves of what was served.
LEMMA TickAges ==
    ASSUME Limiter!WindowAssumption, NEW s \in Seq(Accepted), NEW t,
           t = LET aged == [i \in DOMAIN s |-> [s[i] EXCEPT !.age = Limiter!Older(@)]]
               IN  Limiter!Popped(aged, {i \in DOMAIN aged : aged[i].age > Hour}),
           Falling(s)
    PROVE  \E n \in 0..Len(s) : Aged(s, t, n)
<1> DEFINE old(i) == [s[i] EXCEPT !.age = Limiter!Older(@)]
           aged == [i \in DOMAIN s |-> old(i)]
           late == {i \in DOMAIN aged : aged[i].age > Hour}
           Aging == [age : Nat, rule : Rule]
<1>0. Hour \in Nat /\ Len(s) \in Nat /\ DOMAIN s = 1..Len(s)
  BY DEF Limiter!WindowAssumption
<1>1. ASSUME NEW i \in 1..Len(s)
      PROVE  old(i) \in Aging /\ old(i).age = s[i].age + 1 /\ old(i).rule = s[i].rule
  <2>1. s[i] \in Accepted /\ s[i].age \in 0..Hour /\ s[i].rule \in Rule
    <3>1. s[i] \in Accepted
      OBVIOUS
    <3> QED BY <3>1, ServedTypes
  <2>2. Limiter!Older(s[i].age) = s[i].age + 1
    BY <1>0, <2>1 DEF Limiter!Older, Limiter!Ancient
  <2>3. old(i) = [age |-> s[i].age + 1, rule |-> s[i].rule]
    BY <2>1, <2>2 DEF Accepted
  <2>4. s[i].age + 1 \in Nat
    BY <1>0, <2>1
  <2> HIDE DEF old
  <2> QED BY <2>1, <2>3, <2>4
<1> HIDE DEF old
<1>2. /\ aged \in Seq(Aging) /\ Len(aged) = Len(s) /\ DOMAIN aged = 1..Len(s)
      /\ \A i \in 1..Len(s) : aged[i] = old(i)
  <2> HIDE DEF Aging
  <2> QED BY <1>0, <1>1
<1>3. t = Limiter!Popped(aged, late)
  BY DEF old
<1>4. late \in SUBSET (1..Len(aged)) /\ \A i \in 1..Len(s) : i \in late <=> aged[i].age > Hour
  BY <1>2
<1> HIDE DEF late, aged, Aging
<1>5. \E n \in 0..Len(aged) :
        /\ Limiter!Popped(aged, late) \in Seq(Aging)
        /\ Len(Limiter!Popped(aged, late)) = Len(aged) - n
        /\ \A i \in 1..(Len(aged) - n) : Limiter!Popped(aged, late)[i] = aged[n + i]
        /\ \A i \in 1..n : i \in late
        /\ n < Len(aged) => n + 1 \notin late
  BY <1>2, <1>4, PoppedSuffix
<1>6. PICK n \in 0..Len(s) :
        /\ t \in Seq(Aging) /\ Len(t) = Len(s) - n
        /\ \A i \in 1..(Len(s) - n) : t[i] = aged[n + i]
        /\ \A i \in 1..n : i \in late
        /\ n < Len(s) => n + 1 \notin late
  BY <1>2, <1>3, <1>5
<1>7. ASSUME NEW i \in 1..(Len(s) - n)
      PROVE  /\ t[i].age = s[n + i].age + 1 /\ t[i].rule = s[n + i].rule
             /\ t[i] \in Accepted
  <2>1. n + i \in 1..Len(s) /\ n + 1 \in 1..Len(s) /\ n + 1 \in 1..(n + i) /\ n < Len(s)
    BY <1>0
  <2>2. t[i] = old(n + i) /\ t[i].age = s[n + i].age + 1 /\ t[i].rule = s[n + i].rule /\ t[i] \in Aging
    BY <1>1, <1>2, <1>6, <2>1
  <2>3. aged[n + 1].age = s[n + 1].age + 1 /\ ~ (aged[n + 1].age > Hour)
    <3>1. aged[n + 1].age = s[n + 1].age + 1
      BY <1>1, <1>2, <2>1
    <3> QED BY <1>4, <1>6, <2>1, <3>1
  <2>4. s[n + i].age <= s[n + 1].age /\ s[n + i].age \in Nat /\ s[n + 1].age \in Nat /\ s[n + i].rule \in Rule
    <3>1. s[n + i].age <= s[n + 1].age
      BY <2>1 DEF Falling
    <3> QED BY <2>1, <3>1, ServedTypes
  <2>5. t[i].age \in 0..Hour
    <3>1. s[n + 1].age + 1 <= Hour
      BY <1>0, <2>3, <2>4
    <3>2. s[n + i].age + 1 \in 0..Hour
      <4> DEFINE x == s[n + i].age
                 y == s[n + 1].age
      <4>1. x \in Nat /\ y \in Nat /\ x <= y /\ y + 1 <= Hour
        BY <2>4, <3>1
      <4> HIDE DEF x, y
      <4>2. x + 1 \in 0..Hour
        BY <1>0, <4>1
      <4> QED BY <4>2 DEF x
    <3> QED BY <2>2, <3>2
  <2>6. t[i] = [age |-> t[i].age, rule |-> t[i].rule]
    BY <2>2 DEF Aging
  <2>7. t[i].rule \in Rule
    BY <2>2, <2>4
  <2> QED BY <2>2, <2>5, <2>6, <2>7 DEF Accepted
<1>8. ASSUME NEW i \in 1..n PROVE s[i].age = Hour
  <2>1. i \in 1..Len(s) /\ i \in late
    BY <1>6
  <2>2. aged[i].age = s[i].age + 1 /\ aged[i].age > Hour
    BY <1>1, <1>2, <1>4, <2>1
  <2>3. s[i].age \in 0..Hour
    BY <2>1, ServedTypes
  <2> QED BY <1>0, <2>2, <2>3
<1>9. t \in Seq(Accepted)
  <2>1. Len(t) \in Nat /\ t \in [1..Len(t) -> Aging] /\ Len(t) = Len(s) - n
    BY <1>6, LenProperties
  <2>2. \A i \in 1..Len(t) : t[i] \in Accepted
    BY <1>7, <2>1
  <2>3. t \in [1..Len(t) -> Accepted]
    BY <2>1, <2>2
  <2>4. t \in UNION {[1..k -> Accepted] : k \in Nat}
    BY <2>1, <2>3
  <2> QED BY <2>4, SeqDef, Zenon
<1> QED BY <1>6, <1>7, <1>8, <1>9 DEF Aged

LEMMA ClockKeeps ==
    ASSUME Limiter!WindowAssumption, Limiter!RuleAssumption, LimiterInv, Limiter!Tick
    PROVE  LimiterInv'
<1>1. ASSUME NEW c \in Asker
      PROVE  Followed(minute'[c], hour'[c], last'[c], served'[c])
  <2>1. Followed(minute[c], hour[c], last[c], served[c])
    BY DEF LimiterInv
  <2>2. /\ minute'[c] = [i \in DOMAIN minute[c] |-> Limiter!Older(minute[c][i])]
        /\ hour'[c] = [i \in DOMAIN hour[c] |-> Limiter!Older(hour[c][i])]
        /\ last'[c] = Limiter!Older(last[c])
    BY DEF Limiter!Tick
  <2>3. served'[c] = LET aged == [i \in DOMAIN served[c] |-> [served[c][i] EXCEPT !.age = Limiter!Older(@)]]
                     IN  Limiter!Popped(aged, {i \in DOMAIN aged : aged[i].age > Hour})
    BY DEF Limiter!Tick
  <2>4. PICK n \in 0..Len(served[c]) : Aged(served[c], served'[c], n)
    <3>1. served[c] \in Seq(Accepted) /\ Falling(served[c])
      BY <2>1 DEF Followed
    <3> QED BY <2>3, <3>1, TickAges
  <2> QED BY <2>1, <2>2, <2>4, TickKeeps
<1>2. /\ minute' = [c \in Asker |-> minute'[c]] /\ hour' = [c \in Asker |-> hour'[c]]
      /\ last' = [c \in Asker |-> last'[c]] /\ served' = [c \in Asker |-> served'[c]]
  BY DEF Limiter!Tick
<1>3. \A c \in Asker : last'[c] \in Limiter!Age
  <2>1. \A x \in Limiter!Age : Limiter!Older(x) \in Limiter!Age
    BY DEF Limiter!Older, Limiter!Age, Limiter!Ancient, Limiter!WindowAssumption
  <2>2. \A c \in Asker : last'[c] = Limiter!Older(last[c]) /\ last[c] \in Limiter!Age
    BY DEF Limiter!Tick, LimiterInv
  <2> QED BY <2>1, <2>2
<1>4. \A c \in Asker : /\ minute'[c] \in Seq(Limiter!Age) /\ hour'[c] \in Seq(Limiter!Age)
                       /\ served'[c] \in Seq(Accepted)
  BY <1>1 DEF Followed
<1>5. /\ minute' \in [Asker -> Seq(Limiter!Age)] /\ hour' \in [Asker -> Seq(Limiter!Age)]
      /\ last' \in [Asker -> Limiter!Age] /\ served' \in [Asker -> Seq(Accepted)]
  BY <1>2, <1>3, <1>4
<1> QED BY <1>1, <1>5 DEF LimiterInv

LEMMA NextLimiter ==
    ASSUME Limiter!WindowAssumption, Limiter!RuleAssumption, LimiterInv, [Limiter!Next]_Limiter!vars
    PROVE  LimiterInv'
<1>1. CASE UNCHANGED Limiter!vars
  BY <1>1 DEF LimiterInv, Limiter!vars
<1>2. CASE Limiter!Next
  BY <1>2, AllowsKeeps, RefusesKeeps, CleanupKeeps, ClockKeeps DEF Limiter!Next
<1> QED BY <1>1, <1>2

\* What was served in a window, counted.
LEMMA WithinLimit ==
    ASSUME NEW s \in Seq(Accepted), NEW i \in 1..Len(s), NEW window, NEW limit \in Nat,
           \A k \in 1..i : s[k].age <= s[i].age + window => (i - k) + 1 <= limit
    PROVE  Limiter!Cardinality({j \in 1..i : s[j].age <= s[i].age + window}) <= limit
<1> DEFINE T == {j \in 1..i : s[j].age <= s[i].age + window}
<1>1. Limiter!Cardinality(T) = Cardinality(T)
  BY DEF Limiter!Cardinality, Cardinality, Limiter!IsFiniteSet, IsFiniteSet
<1>2. CASE T = {}
  <2>1. Cardinality(T) = 0
    BY <1>2, FS_EmptySet
  <2> QED BY <1>1, <2>1
<1>3. CASE T # {}
  <2>1. T \in SUBSET Nat
    OBVIOUS
  <2>2. PICK k \in T : \A j \in T : k <= j
    <3> HIDE DEF T
    <3> QED BY <1>3, <2>1, LeastNatural
  <2>3. k \in 1..i /\ T \subseteq k..i /\ (i - k) + 1 <= limit
    BY <2>2
  <2>4. k \in Int /\ i \in Int /\ k <= i
    BY <2>3
  <2>5. IsFiniteSet(k..i) /\ Cardinality(k..i) = (i - k) + 1
    BY <2>4, FS_Interval
  <2>6. Cardinality(T) <= Cardinality(k..i) /\ Cardinality(T) \in Nat
    <3> HIDE DEF T
    <3> QED BY <2>3, <2>5, FS_Subset, FS_CardinalityType
  <2>7. Cardinality(T) <= limit
    <3> HIDE DEF T
    <3> QED BY <2>3, <2>4, <2>5, <2>6
  <2> QED BY <1>1, <2>7
<1> QED BY <1>2, <1>3

LEMMA InvRespects ==
    ASSUME Limiter!WindowAssumption, Limiter!RuleAssumption, LimiterInv
    PROVE  Limiter!TypeOK /\ Limiter!LimitsRespected
<1>1. \A c \in Asker : Followed(minute[c], hour[c], last[c], served[c])
  BY DEF LimiterInv
<1>2. Limiter!TypeOK
  BY <1>1 DEF LimiterInv, Limiter!TypeOK, Followed, Tracks, Accepted
<1>3. ASSUME NEW c \in Asker, NEW i \in 1..Len(served[c])
      PROVE  LET rule == served[c][i].rule
                 bursts == i > 1 /\ served[c][i - 1].age < served[c][i].age + Second
             IN  /\ Limiter!Within(c, i, Minute) <= PerMinute[rule]
                 /\ Limiter!Within(c, i, Hour) <= PerHour[rule]
                 /\ bursts => Limiter!Within(c, i, Minute) <= Burst[rule]
  <2> DEFINE s == served[c]
             rule == s[i].rule
             bursts == i > 1 /\ s[i - 1].age < s[i].age + Second
  <2>1. s \in Seq(Accepted) /\ Respects(s)
    BY <1>1 DEF Followed
  <2>2. rule \in Rule
    BY <1>3, <2>1, ServedTypes
  <2>3. PerMinute[rule] \in Nat /\ PerHour[rule] \in Nat /\ Burst[rule] \in Nat
    BY <2>2 DEF Limiter!RuleAssumption
  <2>4. \A k \in 1..i :
          /\ s[k].age <= s[i].age + Minute => (i - k) + 1 <= PerMinute[rule]
          /\ s[k].age <= s[i].age + Hour => (i - k) + 1 <= PerHour[rule]
          /\ bursts /\ s[k].age <= s[i].age + Minute => (i - k) + 1 <= Burst[rule]
    BY <2>1 DEF Respects
  <2>5. \A w : Limiter!Within(c, i, w) = Limiter!Cardinality({j \in 1..i : s[j].age <= s[i].age + w})
    BY DEF Limiter!Within
  <2> HIDE DEF s, rule, bursts
  <2>6. i \in 1..Len(s)
    BY DEF s
  <2>7. Limiter!Within(c, i, Minute) <= PerMinute[rule]
    BY <2>1, <2>3, <2>4, <2>5, <2>6, WithinLimit
  <2>8. Limiter!Within(c, i, Hour) <= PerHour[rule]
    BY <2>1, <2>3, <2>4, <2>5, <2>6, WithinLimit
  <2>9. bursts => Limiter!Within(c, i, Minute) <= Burst[rule]
    BY <2>1, <2>3, <2>4, <2>5, <2>6, WithinLimit
  <2> QED BY <2>7, <2>8, <2>9 DEF s, rule, bursts
<1>4. \A c \in Asker : DOMAIN served[c] = 1..Len(served[c])
  BY DEF LimiterInv
<1>5. Limiter!LimitsRespected
  BY <1>3, <1>4 DEF Limiter!LimitsRespected
<1> QED BY <1>2, <1>5

\* No request is served beyond the minute and hour limits of its rule, and no
\* burst beyond its burst limit, whatever rules the client's other requests come
\* under, although a deque forgets what falls out of it and a cleanup deletes a
\* tracker (can_make_request, add_request, cleanup_inactive_clients).
THEOREM LimitsKept == Limiter!Spec => []LimitsRespected
<1> USE LimiterAssumption
<1>1. Limiter!Init => LimiterInv
  BY InitLimiter
<1>2. LimiterInv /\ [Limiter!Next]_Limiter!vars => LimiterInv'
  BY NextLimiter
<1>3. LimiterInv => LimitsRespected
  BY InvRespects DEF LimitsRespected
<1> QED BY <1>1, <1>2, <1>3, PTL DEF Limiter!Spec

-----------------------------------------------------------------------------
\* The slots.

\* A releasing call only publishes to, and removes, a request it has found.
HeadOK == \A r \in Request : pc[r] \in {"notifies", "removes"} => head[r] \in Request

SlotsInv == TypeOK /\ HeadOK /\ Accounted

USE RequestAssumption, SlotsAssumption

LEMMA HoldersFinite ==
    IsFiniteSet(Holders) /\ Cardinality(Holders) \in Nat
BY FS_Subset, FS_CardinalityType DEF Holders

\* A call that begins to hold a slot makes one holder more.
LEMMA OneMore ==
    ASSUME NEW r \in Request, r \notin Holders, Holders' = Holders \cup {r}
    PROVE  Cardinality(Holders') = Cardinality(Holders) + 1
BY HoldersFinite, FS_AddElement

\* A call that ceases to hold its slot makes one holder less.
LEMMA OneLess ==
    ASSUME NEW r \in Request, r \in Holders, Holders' = Holders \ {r}
    PROVE  Cardinality(Holders') = Cardinality(Holders) - 1
BY HoldersFinite, FS_RemoveElement

\* What a change of one program counter does to the set of holders.
LEMMA HoldersChange ==
    ASSUME TypeOK, NEW r \in Request, NEW a, Goes(r, a)
    PROVE  Holders' = IF a \in Holding THEN Holders \cup {r} ELSE Holders \ {r}
BY DEF TypeOK, Goes, Holders

\* Where a command that raises leaves a call, it holds no slot.
LEMMA ErrorHoldsNothing ==
    ASSUME NEW r \in Request
    PROVE  NextAfterError(r) \in PC \ Holding /\ NextAfterError(r) \notin {"notifies", "removes"}
BY DEF NextAfterError, PC, Holding, Using, Ended

-----------------------------------------------------------------------------
\* The queue, of which nothing is said but that it consists of requests.

LEMMA InsertInQueue ==
    ASSUME queue \in Seq(Request), NEW r \in Request, Queued(r)
    PROVE  queue' \in Seq(Request)
<1>1. PICK i \in 0..Len(queue) :
        queue' = SubSeq(queue, 1, i) \o <<r>> \o SubSeq(queue, i + 1, Len(queue))
  BY DEF Queued
<1>2. SubSeq(queue, 1, i) \in Seq(Request) /\ SubSeq(queue, i + 1, Len(queue)) \in Seq(Request)
  OBVIOUS
<1> QED BY <1>1, <1>2

LEMMA AroundInQueue ==
    ASSUME queue \in Seq(Request), NEW i \in 1..Len(queue)
    PROVE  SubSeq(queue, 1, i - 1) \o SubSeq(queue, i + 1, Len(queue)) \in Seq(Request)
<1>1. SubSeq(queue, 1, i - 1) \in Seq(Request)
  OBVIOUS
<1>2. SubSeq(queue, i + 1, Len(queue)) \in Seq(Request)
  OBVIOUS
<1> QED BY <1>1, <1>2

LEMMA RemoveFromQueue ==
    ASSUME queue \in Seq(Request), NEW r
    PROVE  Without(r) \in Seq(Request)
<1>1. CASE ~InQueue(r)
  BY <1>1 DEF Without
<1>2. CASE InQueue(r)
  <2> DEFINE i == CHOOSE i \in DOMAIN queue : queue[i] = r
  <2>1. i \in DOMAIN queue
    BY <1>2 DEF InQueue
  <2>2. i \in 1..Len(queue)
    BY <2>1
  <2> HIDE DEF i
  <2>3. SubSeq(queue, 1, i - 1) \o SubSeq(queue, i + 1, Len(queue)) \in Seq(Request)
    BY <2>2, AroundInQueue
  <2> QED BY <1>2, <2>3 DEF Without, i
<1> QED BY <1>1, <1>2

LEMMA HeadOfQueue ==
    ASSUME queue \in Seq(Request), queue # <<>>
    PROVE  Head(queue) \in Request
OBVIOUS

-----------------------------------------------------------------------------
\* What a step does to the slots, in one place: it leaves them alone, or is one
\* of the steps of the semaphore.
SlotStep ==
    \/ UNCHANGED <<active, lost>> /\ Holders' = Holders
    \/ /\ Free /\ active' = active + 1 /\ UNCHANGED lost
       /\ \E r \in Request : r \notin Holders /\ Holders' = Holders \cup {r}
    \/ /\ active' = active - 1 /\ UNCHANGED lost
       /\ \E r \in Request : r \in Holders /\ Holders' = Holders \ {r}
    \/ /\ UNCHANGED active /\ lost' = lost + 1
       /\ \E r \in Request : r \in Holders /\ Holders' = Holders \ {r}
    \/ Free /\ active' = active + 1 /\ lost' = lost + 1 /\ Holders' = Holders

LEMMA SlotStepAccounts ==
    ASSUME SlotsInv, SlotStep
    PROVE  active' \in 0..MaxConnections /\ lost' \in 0..MaxConnections /\ Accounted'
<1> DEFINE n == Cardinality(Holders)
<1>1. n \in Nat /\ active \in 0..MaxConnections /\ lost \in 0..MaxConnections /\ active = n + lost
  BY HoldersFinite DEF SlotsInv, TypeOK, Accounted
<1>2. ASSUME \E r \in Request : r \notin Holders /\ Holders' = Holders \cup {r}
      PROVE  Cardinality(Holders') = n + 1
  <2>1. PICK r \in Request : r \notin Holders /\ Holders' = Holders \cup {r}
    BY <1>2
  <2> QED BY <2>1, OneMore
<1>3. ASSUME \E r \in Request : r \in Holders /\ Holders' = Holders \ {r}
      PROVE  Cardinality(Holders') \in Nat /\ Cardinality(Holders') = n - 1
  <2>1. PICK r \in Request : r \in Holders /\ Holders' = Holders \ {r}
    BY <1>3
  <2>2. Cardinality(Holders') = n - 1
    BY <2>1, OneLess
  <2> QED BY <2>1, <2>2, HoldersFinite, FS_RemoveElement, FS_CardinalityType
<1>4. (Holders' = Holders) => Cardinality(Holders') = n
  OBVIOUS
<1> HIDE DEF n
<1>5. CASE UNCHANGED <<active, lost>> /\ Holders' = Holders
  BY <1>1, <1>4, <1>5 DEF Accounted
<1>6. CASE /\ Free /\ active' = active + 1 /\ UNCHANGED lost
           /\ \E r \in Request : r \notin Holders /\ Holders' = Holders \cup {r}
  BY <1>1, <1>2, <1>6 DEF Accounted, Free
<1>7. CASE /\ active' = active - 1 /\ UNCHANGED lost
           /\ \E r \in Request : r \in Holders /\ Holders' = Holders \ {r}
  BY <1>1, <1>3, <1>7 DEF Accounted
<1>8. CASE /\ UNCHANGED active /\ lost' = lost + 1
           /\ \E r \in Request : r \in Holders /\ Holders' = Holders \ {r}
  BY <1>1, <1>3, <1>8 DEF Accounted
<1>9. CASE Free /\ active' = active + 1 /\ lost' = lost + 1 /\ Holders' = Holders
  BY <1>1, <1>4, <1>9 DEF Accounted, Free
<1> QED BY <1>5, <1>6, <1>7, <1>8, <1>9 DEF SlotStep

\* A step of a call between two points that are both with or both without a slot.
LEMMA SameHolders ==
    ASSUME TypeOK, NEW r \in Request, NEW a, Goes(r, a), (a \in Holding) <=> (r \in Holders)
    PROVE  Holders' = Holders
BY HoldersChange DEF Holders

-----------------------------------------------------------------------------
\* The steps.

LEMMA InitSlots == Init => SlotsInv
<1> SUFFICES ASSUME Init PROVE SlotsInv
  OBVIOUS
<1>1. TypeOK /\ HeadOK
  BY DEF Init, TypeOK, HeadOK, PC, Holding, Using, Ended
<1>2. Holders = {}
  BY DEF Init, Holders, Holding, Using
<1>3. Cardinality(Holders) = 0
  BY <1>2, FS_EmptySet
<1> QED BY <1>1, <1>3 DEF SlotsInv, Accounted, Init

LEMMA AskSlots ==
    ASSUME SlotsInv, NEW r \in Request, AskStep(r)
    PROVE  SlotStep
<1>1. CASE Acquires(r)
  <2>1. Holders' = Holders \cup {r} /\ r \notin Holders
    BY <1>1, HoldersChange DEF SlotsInv, Acquires, At, Holders, Holding, Using
  <2> QED BY <1>1, <2>1 DEF Acquires, SlotStep
<1>2. CASE Busy(r) \/ Admitted(r) \/ Limited(r) \/ Queues(r) \/ Subscribes(r)
  <2>1. Holders' = Holders
    BY <1>2, SameHolders DEF SlotsInv, Busy, Admitted, Limited, Queues, Subscribes,
                             At, Holders, Holding, Using
  <2> QED BY <1>2, <2>1 DEF Busy, Admitted, Limited, Queues, Subscribes, shared, SlotStep
<1> QED BY <1>1, <1>2 DEF AskStep

LEMMA WaitSlots ==
    ASSUME SlotsInv, NEW r \in Request, WaitStep(r)
    PROVE  SlotStep
<1>1. CASE Woken(r)
  <2>1. Holders' = Holders \cup {r} /\ r \notin Holders
    BY <1>1, HoldersChange DEF SlotsInv, Woken, Reads, At, Holders, Holding, Using
  <2> QED BY <1>1, <2>1 DEF Woken, SlotStep
<1>2. CASE WokenLate(r)
  BY <1>2 DEF WokenLate, shared, SlotStep, Holders
<1>3. CASE Deadline(r)
  <2>1. Holders' = Holders
    BY <1>3, SameHolders DEF SlotsInv, Deadline, At, Holders, Holding, Using
  <2> QED BY <1>3, <2>1 DEF Deadline, shared, SlotStep
<1>4. CASE CutWhileAcquiring(r)
  <2>1. Holders' = Holders
    BY <1>4, SameHolders DEF SlotsInv, CutWhileAcquiring, Reads, At, Holders, Holding, Using
  <2> QED BY <1>4, <2>1 DEF CutWhileAcquiring, SlotStep
<1> QED BY <1>1, <1>2, <1>3, <1>4 DEF WaitStep

LEMMA LeaveSlots ==
    ASSUME SlotsInv, NEW r \in Request, Leaves(r) \/ LeaveStep(r)
    PROVE  SlotStep
<1>1. CASE Releases(r)
  <2>1. Holders' = Holders \ {r} /\ r \in Holders
    BY <1>1, HoldersChange DEF SlotsInv, Releases, At, Holders, Holding, Using
  <2> QED BY <1>1, <2>1 DEF Releases, SlotStep
<1>2. CASE Leaves(r) \/ Measures(r)
  <2>1. Holders' = Holders
    BY <1>2, SameHolders DEF SlotsInv, Leaves, Measures, At, Holders, Holding, Using
  <2> QED BY <1>2, <2>1 DEF Leaves, Measures, shared, SlotStep
<1>3. CASE FindsNobody(r) \/ Finds(r) \/ Notifies(r) \/ Removes(r)
  <2>1. Holders' = Holders
    BY <1>3, SameHolders DEF SlotsInv, FindsNobody, Finds, Notifies, Removes,
                             At, Holders, Holding, Using
  <2> QED BY <1>3, <2>1 DEF FindsNobody, Finds, Notifies, Removes, shared, SlotStep
<1> QED BY <1>1, <1>2, <1>3 DEF LeaveStep

LEMMA FaultSlots ==
    ASSUME SlotsInv, NEW r \in Request, FaultStep(r)
    PROVE  SlotStep
<1>1. CASE Raises(r)
  <2>1. CASE Reads(r) /\ UNCHANGED <<pc, shared, lost>>
    BY <2>1 DEF shared, SlotStep, Holders
  <2>2. CASE /\ Goes(r, NextAfterError(r)) /\ UNCHANGED shared
             /\ lost' = IF pc[r] \in Holding THEN lost + 1 ELSE lost
    <3>1. Holders' = Holders \ {r}
      BY <2>2, HoldersChange, ErrorHoldsNothing DEF SlotsInv
    <3>2. (r \in Holders) <=> (pc[r] \in Holding)
      BY DEF Holders
    <3> QED BY <2>2, <3>1, <3>2 DEF shared, SlotStep
  <2> QED BY <1>1, <2>1, <2>2 DEF Raises
<1>2. CASE AnswerLost(r)
  <2>1. CASE Free /\ active' = active + 1 /\ lost' = lost + 1 /\ At(r, "calls") /\ Goes(r, NextAfterError(r))
    <3>1. Holders' = Holders
      BY <2>1, SameHolders, ErrorHoldsNothing DEF SlotsInv, At, Holders, Holding, Using
    <3> QED BY <2>1, <3>1 DEF SlotStep
  <2>2. CASE Free /\ active' = active + 1 /\ lost' = lost + 1 /\ UNCHANGED pc
    BY <2>2 DEF SlotStep, Holders
  <2>3. CASE At(r, "releases") /\ active' = active - 1 /\ Goes(r, NextAfterError(r)) /\ UNCHANGED lost
    <3>1. Holders' = Holders \ {r} /\ r \in Holders
      BY <2>3, HoldersChange, ErrorHoldsNothing DEF SlotsInv, At, Holders, Holding
    <3> QED BY <2>3, <3>1 DEF SlotStep
  <2>4. CASE pc[r] \in {"asks", "queues", "notifies"} /\ UNCHANGED <<active, lost>>
             /\ Goes(r, NextAfterError(r))
    <3>1. Holders' = Holders
      BY <2>4, SameHolders, ErrorHoldsNothing DEF SlotsInv, Holders, Holding, Using
    <3> QED BY <2>4, <3>1 DEF SlotStep
  <2> QED BY <1>2, <2>1, <2>2, <2>3, <2>4 DEF AnswerLost, At, shared
<1>3. CASE Dies(r)
  <2>1. Holders' = Holders \ {r}
    BY <1>3, HoldersChange DEF SlotsInv, Dies, Holding, Using
  <2> QED BY <1>3, <2>1 DEF Dies, shared, SlotStep
<1> QED BY <1>1, <1>2, <1>3 DEF FaultStep

LEMMA NextSlots ==
    ASSUME SlotsInv, [Next]_vars
    PROVE  SlotStep
<1>1. CASE UNCHANGED vars
  BY <1>1 DEF vars, shared, SlotStep, Holders
<1>2. ASSUME NEW r \in Request, Slides(r)
      PROVE  SlotStep
  BY <1>2 DEF Slides, SlotStep, Holders
<1> QED BY <1>1, <1>2, AskSlots, WaitSlots, LeaveSlots, FaultSlots DEF Next

\* The variables that say nothing of the slots keep their types.
Others == /\ pc \in [Request -> PC]
          /\ queue \in Seq(Request)
          /\ counted \subseteq Request /\ told \subseteq Request
          /\ mail \in [Request -> Nat]
          /\ head \in [Request -> Request \cup {Nobody}]
          /\ HeadOK

LEMMA PublishedTypes ==
    ASSUME SlotsInv, NEW r \in Request, Published(r)
    PROVE  told' \subseteq Request /\ mail' \in [Request -> Nat]
BY DEF SlotsInv, TypeOK, Published

LEMMA GoesTypes ==
    ASSUME SlotsInv, NEW r \in Request, NEW a \in PC, Goes(r, a), UNCHANGED head,
           a \notin {"notifies", "removes"} \/ head[r] \in Request
    PROVE  pc' \in [Request -> PC] /\ HeadOK'
BY DEF SlotsInv, TypeOK, Goes, HeadOK

LEMMA AskTypes ==
    ASSUME SlotsInv, NEW r \in Request, AskStep(r)
    PROVE  Others'
<1> USE DEF SlotsInv, TypeOK, Others
<1>1. CASE Queues(r)
  <2>1. pc' \in [Request -> PC] /\ HeadOK'
    BY <1>1, GoesTypes DEF Queues, PC
  <2> QED BY <1>1, <2>1, InsertInQueue DEF Queues
<1>2. CASE Acquires(r) \/ Busy(r) \/ Admitted(r) \/ Limited(r) \/ Subscribes(r)
  <2>1. pc' \in [Request -> PC] /\ HeadOK'
    BY <1>2, GoesTypes DEF Acquires, Busy, Admitted, Limited, Subscribes, PC, Holding, Using, Ended
  <2> QED BY <1>2, <2>1 DEF Acquires, Busy, Admitted, Limited, Subscribes, shared
<1> QED BY <1>1, <1>2 DEF AskStep

LEMMA WaitTypes ==
    ASSUME SlotsInv, NEW r \in Request, WaitStep(r)
    PROVE  Others'
<1> USE DEF SlotsInv, TypeOK, Others
<1>1. CASE WokenLate(r)
  BY <1>1 DEF WokenLate, Reads, shared, HeadOK
<1>2. CASE Woken(r) \/ Deadline(r) \/ CutWhileAcquiring(r)
  <2>1. pc' \in [Request -> PC] /\ HeadOK'
    BY <1>2, GoesTypes DEF Woken, Deadline, CutWhileAcquiring, PC, Holding, Using, Ended
  <2>2. mail' \in [Request -> Nat]
    <3>1. CASE mail' = mail
      BY <3>1
    <3>2. CASE Reads(r)
      BY <3>2 DEF Reads
    <3> QED BY <1>2, <3>1, <3>2 DEF Woken, Deadline, CutWhileAcquiring
  <2>3. UNCHANGED <<queue, counted, told, head>>
    BY <1>2 DEF Woken, Deadline, CutWhileAcquiring, shared
  <2> QED BY <2>1, <2>2, <2>3
<1> QED BY <1>1, <1>2 DEF WaitStep

LEMMA LeaveTypes ==
    ASSUME SlotsInv, NEW r \in Request, Leaves(r) \/ LeaveStep(r)
    PROVE  Others'
<1> USE DEF SlotsInv, TypeOK, Others
<1>1. CASE Leaves(r) \/ Measures(r) \/ Releases(r) \/ FindsNobody(r)
  <2>1. pc' \in [Request -> PC] /\ HeadOK'
    BY <1>1, GoesTypes DEF Leaves, Measures, Releases, FindsNobody, PC, Holding, Using, Ended
  <2> QED BY <1>1, <2>1 DEF Leaves, Measures, Releases, FindsNobody, shared
<1>2. CASE Finds(r)
  <2>1. Head(queue) \in Request
    BY <1>2, HeadOfQueue DEF Finds
  <2>2. head' \in [Request -> Request \cup {Nobody}] /\ head'[r] \in Request
    BY <1>2, <2>1 DEF Finds
  <2>3. pc' \in [Request -> PC]
    BY <1>2 DEF Finds, Goes, PC
  <2>4. HeadOK'
    BY <1>2, <2>2 DEF Finds, Goes, HeadOK
  <2> QED BY <1>2, <2>2, <2>3, <2>4 DEF Finds, shared
<1>3. CASE Notifies(r)
  <2>1. head[r] \in Request
    BY <1>3 DEF Notifies, At, HeadOK
  <2>2. pc' \in [Request -> PC] /\ HeadOK'
    BY <1>3, <2>1, GoesTypes DEF Notifies, PC
  <2> QED BY <1>3, <2>1, <2>2, PublishedTypes DEF Notifies, shared
<1>4. CASE Removes(r)
  <2>1. pc' \in [Request -> PC] /\ HeadOK'
    BY <1>4, GoesTypes DEF Removes, PC, Ended
  <2> QED BY <1>4, <2>1, RemoveFromQueue DEF Removes
<1> QED BY <1>1, <1>2, <1>3, <1>4 DEF LeaveStep

LEMMA FaultTypes ==
    ASSUME SlotsInv, NEW r \in Request, FaultStep(r)
    PROVE  Others'
<1> USE DEF SlotsInv, TypeOK, Others
<1>1. CASE Raises(r)
  <2>1. CASE Reads(r) /\ UNCHANGED pc
    BY <1>1, <2>1 DEF Raises, Reads, shared, HeadOK
  <2>2. CASE Goes(r, NextAfterError(r)) /\ UNCHANGED mail
    <3>1. pc' \in [Request -> PC] /\ HeadOK'
      BY <1>1, <2>2, GoesTypes, ErrorHoldsNothing DEF Raises
    <3> QED BY <1>1, <2>2, <3>1 DEF Raises, shared
  <2> QED BY <1>1, <2>1, <2>2 DEF Raises
<1>2. CASE AnswerLost(r)
  <2>1. CASE Reads(r) /\ UNCHANGED <<pc, queue, counted, head, told>>
    BY <2>1 DEF Reads, HeadOK
  <2>2. CASE At(r, "notifies") /\ Published(head[r]) /\ Goes(r, NextAfterError(r)) /\ UNCHANGED <<shared, head>>
    <3>1. head[r] \in Request
      BY <2>2 DEF At, HeadOK
    <3>2. pc' \in [Request -> PC] /\ HeadOK'
      BY <2>2, GoesTypes, ErrorHoldsNothing
    <3> QED BY <2>2, <3>1, <3>2, PublishedTypes DEF shared
  <2>3. CASE Queued(r) /\ Goes(r, NextAfterError(r)) /\ UNCHANGED <<counted, mail, head, told>>
    <3>1. pc' \in [Request -> PC] /\ HeadOK'
      BY <2>3, GoesTypes, ErrorHoldsNothing
    <3> QED BY <2>3, <3>1, InsertInQueue
  <2>4. CASE /\ Goes(r, NextAfterError(r)) /\ UNCHANGED <<queue, mail, head, told>>
             /\ counted' \subseteq counted \cup {r}
    <3>1. pc' \in [Request -> PC] /\ HeadOK'
      BY <2>4, GoesTypes, ErrorHoldsNothing
    <3> QED BY <2>4, <3>1
  <2> QED BY <1>2, <2>1, <2>2, <2>3, <2>4 DEF AnswerLost, shared
<1>3. CASE Dies(r)
  <2>1. pc' \in [Request -> PC] /\ HeadOK'
    BY <1>3, GoesTypes DEF Dies, PC, Ended
  <2> QED BY <1>3, <2>1 DEF Dies, shared
<1> QED BY <1>1, <1>2, <1>3 DEF FaultStep

LEMMA NextTypes ==
    ASSUME SlotsInv, [Next]_vars
    PROVE  Others'
<1>1. CASE UNCHANGED vars
  BY <1>1 DEF vars, shared, SlotsInv, TypeOK, Others, HeadOK
<1>2. ASSUME NEW r \in Request, Slides(r)
      PROVE  Others'
  BY <1>2 DEF Slides, SlotsInv, TypeOK, Others, HeadOK
<1> QED BY <1>1, <1>2, AskTypes, WaitTypes, LeaveTypes, FaultTypes DEF Next

LEMMA NextInv == SlotsInv /\ [Next]_vars => SlotsInv'
BY NextSlots, SlotStepAccounts, NextTypes DEF SlotsInv, TypeOK, Others

\* The strengthened invariant.
THEOREM SlotsInvariant == Spec => []SlotsInv
BY InitSlots, NextInv, PTL DEF Spec

\* The counter in Redis and the number of lost slots stay between 0 and
\* max_connections, the queue consists of requests.
THEOREM SlotTypes == Spec => []TypeOK
<1>1. SlotsInv => TypeOK
  BY DEF SlotsInv
<1> QED BY <1>1, SlotsInvariant, PTL

\* The counter counts the calls that have a slot, and the lost slots.
THEOREM SlotsAccounted == Spec => []Accounted
<1>1. SlotsInv => Accounted
  BY DEF SlotsInv
<1> QED BY <1>1, SlotsInvariant, PTL

-----------------------------------------------------------------------------
\* Nobody is taken out of the queue untold.

\* What is in a sequence, which can be told of its parts.
In(s, q) == \E k \in 1..Len(s) : s[k] = q

LEMMA InJoined ==
    ASSUME NEW S, NEW s \in Seq(S), NEW t \in Seq(S), NEW q
    PROVE  In(s \o t, q) <=> In(s, q) \/ In(t, q)
<1>1. /\ s \o t \in Seq(S) /\ Len(s \o t) = Len(s) + Len(t)
      /\ \A k \in 1..(Len(s) + Len(t)) :
            (s \o t)[k] = IF k <= Len(s) THEN s[k] ELSE t[k - Len(s)]
  BY ConcatProperties
<1>2. ASSUME In(s \o t, q) PROVE In(s, q) \/ In(t, q)
  <2>1. PICK k \in 1..(Len(s) + Len(t)) : (s \o t)[k] = q
    BY <1>1, <1>2 DEF In
  <2>2. CASE k <= Len(s)
    BY <1>1, <2>1, <2>2 DEF In
  <2>3. CASE k > Len(s)
    <3>1. k - Len(s) \in 1..Len(t) /\ t[k - Len(s)] = q
      BY <1>1, <2>1, <2>3
    <3> QED BY <3>1 DEF In
  <2> QED BY <2>2, <2>3
<1>3. ASSUME In(s, q) PROVE In(s \o t, q)
  <2>1. PICK k \in 1..Len(s) : s[k] = q
    BY <1>3 DEF In
  <2>2. k \in 1..(Len(s) + Len(t)) /\ (s \o t)[k] = q
    BY <1>1, <2>1
  <2> QED BY <1>1, <2>2 DEF In
<1>4. ASSUME In(t, q) PROVE In(s \o t, q)
  <2>1. PICK k \in 1..Len(t) : t[k] = q
    BY <1>4 DEF In
  <2> DEFINE j == Len(s) + k
  <2>2. j \in 1..(Len(s) + Len(t)) /\ ~(j <= Len(s)) /\ j - Len(s) = k
    OBVIOUS
  <2>3. (s \o t)[j] = q
    BY <1>1, <2>1, <2>2
  <2> QED BY <1>1, <2>2, <2>3 DEF In
<1> QED BY <1>2, <1>3, <1>4

\* The part before an index, and the part from another one on.
LEMMA InPrefix ==
    ASSUME NEW S, NEW s \in Seq(S), NEW i \in 0..Len(s), NEW k \in 1..i
    PROVE  In(SubSeq(s, 1, i), s[k])
BY DEF In

LEMMA InSuffix ==
    ASSUME NEW S, NEW s \in Seq(S), NEW i \in 0..Len(s), NEW k \in (i + 1)..Len(s)
    PROVE  In(SubSeq(s, i + 1, Len(s)), s[k])
<1> DEFINE t == SubSeq(s, i + 1, Len(s))
           j == k - i
<1>1. Len(t) = Len(s) - i /\ \A n \in 1..(Len(s) - i) : t[n] = s[i + n]
  OBVIOUS
<1>2. j \in 1..(Len(s) - i) /\ i + j = k
  OBVIOUS
<1>3. j \in 1..Len(t) /\ t[j] = s[k]
  BY <1>1, <1>2
<1> QED BY <1>3 DEF In

\* A request that is added leaves every other one in the queue.
LEMMA InsertKeeps ==
    ASSUME queue \in Seq(Request), NEW r \in Request, Queued(r), NEW q, In(queue, q)
    PROVE  In(queue', q)
<1>1. PICK i \in 0..Len(queue) :
        queue' = SubSeq(queue, 1, i) \o <<r>> \o SubSeq(queue, i + 1, Len(queue))
  BY DEF Queued
<1> DEFINE front == SubSeq(queue, 1, i)
           rear  == SubSeq(queue, i + 1, Len(queue))
<1>2. front \in Seq(Request) /\ rear \in Seq(Request) /\ <<r>> \in Seq(Request)
  OBVIOUS
<1>3. PICK k \in 1..Len(queue) : queue[k] = q
  BY DEF In
<1>4. In(front, q) \/ In(rear, q)
  <2>1. CASE k \in 1..i
    BY <1>3, <2>1, InPrefix
  <2>2. CASE k \in (i + 1)..Len(queue)
    BY <1>3, <2>2, InSuffix
  <2> QED BY <2>1, <2>2
<1> HIDE DEF front, rear
<1>5. front \o <<r>> \in Seq(Request)
  BY <1>2
<1>6. In(front \o <<r>>, q) \/ In(rear, q)
  BY <1>2, <1>4, InJoined
<1>7. In((front \o <<r>>) \o rear, q)
  BY <1>2, <1>5, <1>6, InJoined
<1> QED BY <1>1, <1>7 DEF front, rear

\* ZREM takes no other request away.
LEMMA RemoveKeeps ==
    ASSUME queue \in Seq(Request), NEW h, queue' = Without(h), NEW q, q # h, In(queue, q)
    PROVE  In(queue', q)
<1>1. CASE ~InQueue(h)
  BY <1>1 DEF Without
<1>2. CASE InQueue(h)
  <2> DEFINE i == CHOOSE i \in DOMAIN queue : queue[i] = h
  <2>1. i \in DOMAIN queue /\ queue[i] = h
    BY <1>2 DEF InQueue
  <2>2. i \in 1..Len(queue) /\ i - 1 \in 0..Len(queue) /\ i \in 0..Len(queue)
    BY <2>1
  <2> DEFINE front == SubSeq(queue, 1, i - 1)
             rear  == SubSeq(queue, i + 1, Len(queue))
  <2>3. queue' = front \o rear
    BY <1>2 DEF Without
  <2> HIDE DEF i
  <2>4. front \in Seq(Request) /\ rear \in Seq(Request)
    BY <2>2
  <2>5. PICK k \in 1..Len(queue) : queue[k] = q
    BY DEF In
  <2>6. In(front, q) \/ In(rear, q)
    <3>1. CASE k \in 1..(i - 1)
      BY <2>2, <2>5, <3>1, InPrefix
    <3>2. CASE k \in (i + 1)..Len(queue)
      BY <2>2, <2>5, <3>2, InSuffix
    <3>3. k # i
      BY <2>1, <2>5
    <3> QED BY <2>2, <3>1, <3>2, <3>3
  <2> HIDE DEF front, rear
  <2> QED BY <2>3, <2>4, <2>6, InJoined
<1> QED BY <1>1, <1>2

\* A call removes only the request that it has published to.
RemovesTold == \A r \in Request : At(r, "removes") => head[r] \in told

\* What a step that is not ZREM does to the notifications it has sent.
LEMMA ToldKept ==
    ASSUME SlotsInv, RemovesTold, NEW r \in Request, NEW a, Goes(r, a), a # "removes",
           told \subseteq told', \A s \in Request : s # r => head'[s] = head[s]
    PROVE  RemovesTold'
BY DEF SlotsInv, TypeOK, RemovesTold, Goes, At

LEMMA InitTold == Init => RemovesTold
BY DEF Init, RemovesTold, At

LEMMA NextTold ==
    ASSUME SlotsInv, RemovesTold, [Next]_vars
    PROVE  RemovesTold'
<1>1. CASE UNCHANGED vars
  BY <1>1 DEF vars, RemovesTold, At
<1>2. ASSUME NEW r \in Request, AskStep(r)
      PROVE  RemovesTold'
  BY <1>2, ToldKept DEF AskStep, Acquires, Busy, Admitted, Limited, Queues, Subscribes
<1>3. ASSUME NEW r \in Request, WaitStep(r)
      PROVE  RemovesTold'
  <2>1. CASE WokenLate(r)
    BY <2>1 DEF WokenLate, RemovesTold, At
  <2>2. CASE Woken(r) \/ Deadline(r) \/ CutWhileAcquiring(r)
    BY <2>2, ToldKept DEF Woken, Deadline, CutWhileAcquiring
  <2> QED BY <1>3, <2>1, <2>2 DEF WaitStep
<1>4. ASSUME NEW r \in Request, Leaves(r) \/ LeaveStep(r)
      PROVE  RemovesTold'
  <2>1. CASE Notifies(r)
    <3>1. \A s \in Request : At(s, "removes")' => s = r \/ At(s, "removes")
      BY <2>1 DEF Notifies, Goes, At, SlotsInv, TypeOK
    <3>2. told' = told \cup {head[r]} /\ head' = head
      BY <2>1 DEF Notifies, Published
    <3> QED BY <3>1, <3>2 DEF RemovesTold
  <2>2. CASE Finds(r)
    <3>1. told' = told /\ \A s \in Request : s # r => head'[s] = head[s]
      BY <2>2 DEF Finds, SlotsInv, TypeOK
    <3> QED BY <2>2, <3>1, ToldKept DEF Finds
  <2>3. CASE Leaves(r) \/ Measures(r) \/ Releases(r) \/ FindsNobody(r) \/ Removes(r)
    BY <2>3, ToldKept DEF Leaves, Measures, Releases, FindsNobody, Removes
  <2> QED BY <1>4, <2>1, <2>2, <2>3 DEF LeaveStep
<1>5. ASSUME NEW r \in Request, FaultStep(r)
      PROVE  RemovesTold'
  <2>1. CASE UNCHANGED <<pc, head, told>>
    BY <2>1 DEF RemovesTold, At
  <2>2. told \subseteq told' /\ head' = head
    BY <1>5 DEF FaultStep, Raises, AnswerLost, Dies, Published
  <2>3. UNCHANGED <<pc, told>> \/ Goes(r, NextAfterError(r)) \/ Goes(r, "dead")
    BY <1>5 DEF FaultStep, Raises, AnswerLost, Dies
  <2>4. CASE Goes(r, NextAfterError(r)) \/ Goes(r, "dead")
    BY <2>2, <2>4, ToldKept, ErrorHoldsNothing
  <2> QED BY <2>1, <2>2, <2>3, <2>4
<1>6. ASSUME NEW r \in Request, Slides(r)
      PROVE  RemovesTold'
  BY <1>6 DEF Slides, RemovesTold, At
<1> QED BY <1>1, <1>2, <1>3, <1>4, <1>5, <1>6 DEF Next

\* Only ZREM takes a request out of the queue.
LEMMA QueueStep ==
    ASSUME [Next]_vars
    PROVE  \/ queue' = queue
           \/ \E r \in Request : Queued(r)
           \/ \E r \in Request : At(r, "removes") /\ queue' = Without(head[r])
<1>1. CASE UNCHANGED vars
  BY <1>1 DEF vars, shared
<1>2. ASSUME NEW r \in Request, AskStep(r) \/ WaitStep(r) \/ Slides(r)
      PROVE  queue' = queue \/ Queued(r)
  BY <1>2 DEF AskStep, Acquires, Busy, Admitted, Limited, Queues, Subscribes, shared, Slides,
              WaitStep, Woken, WokenLate, Deadline, CutWhileAcquiring
<1>3. ASSUME NEW r \in Request, Leaves(r) \/ LeaveStep(r)
      PROVE  queue' = queue \/ (At(r, "removes") /\ queue' = Without(head[r]))
  BY <1>3 DEF Leaves, LeaveStep, Measures, Releases, FindsNobody, Finds, Notifies, Removes, shared
<1>4. ASSUME NEW r \in Request, FaultStep(r)
      PROVE  queue' = queue \/ Queued(r)
  BY <1>4 DEF FaultStep, Raises, AnswerLost, Dies, shared
<1> QED BY <1>1, <1>2, <1>3, <1>4 DEF Next

LEMMA StepTold ==
    ASSUME SlotsInv, RemovesTold, [Next]_vars,
           NEW q \in Request, InQueue(q), ~InQueue(q)'
    PROVE  q \in told
<1>1. queue \in Seq(Request)
  BY DEF SlotsInv, TypeOK
<1>2. queue' # queue
  BY DEF InQueue
<1>3. In(queue, q) /\ ~In(queue', q)
  <2>1. queue' \in Seq(Request)
    BY NextTypes DEF Others
  <2> QED BY <1>1, <2>1 DEF InQueue, In
<1>4. ~ \E r \in Request : Queued(r)
  BY <1>1, <1>3, InsertKeeps
<1>5. PICK r \in Request : At(r, "removes") /\ queue' = Without(head[r])
  BY <1>2, <1>4, QueueStep
<1>6. q = head[r]
  BY <1>1, <1>3, <1>5, RemoveKeeps
<1> QED BY <1>5, <1>6 DEF RemovesTold

\* A releasing call takes a request out of the queue (_process_queue) only after
\* a notification was published for it, also when two of them have found the
\* same request, or one finds it again that another has told.
THEOREM ToldFirst == Spec => ToldBeforeRemoved
<1>1. Spec => []RemovesTold
  <2>1. SlotsInv /\ RemovesTold /\ [Next]_vars => RemovesTold'
    BY NextTold
  <2> QED BY <2>1, InitTold, SlotsInvariant, PTL DEF Spec
<1>2. SlotsInv /\ RemovesTold /\ [Next]_vars
        => [\A r \in Request : InQueue(r) /\ ~InQueue(r)' => r \in told]_vars
  BY StepTold
<1> QED BY <1>1, <1>2, SlotsInvariant, PTL DEF Spec, ToldBeforeRemoved

-----------------------------------------------------------------------------
\* The refinement.

LEMMA InitRefines == Init => Slots!Init
BY DEF Init, Slots!Init, Holders, Holding, Using

LEMMA StepRefines ==
    ASSUME SlotsInv, [Next]_vars
    PROVE  [Slots!Next]_<<Holders, lost>>
<1>1. SlotStep
  BY NextSlots
<1>2. Slots!Cardinality(Holders) = Cardinality(Holders)
  BY DEF Cardinality, Slots!Cardinality, Slots!IsFiniteSet, IsFiniteSet
<1>3. Free <=> Slots!InUse < MaxConnections
  BY <1>2 DEF SlotsInv, Accounted, Free, Slots!InUse
<1> QED BY <1>1, <1>3 DEF SlotStep, Slots!Next, Slots!Take, Slots!Give, Slots!Lose, Slots!Waste

\* Whatever fails and in whatever order commands arrive, the slots are a
\* semaphore of max_connections.
THEOREM SlotsAreSemaphore == Spec => ImplementsSemaphore
<1>1. Init => Slots!Init
  BY InitRefines
<1>2. SlotsInv /\ [Next]_vars => [Slots!Next]_<<Holders, lost>>
  BY StepRefines
<1> QED BY <1>1, <1>2, SlotsInvariant, PTL DEF Spec, ImplementsSemaphore, Slots!Spec
=============================================================================
