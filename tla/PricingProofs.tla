--------------------------- MODULE PricingProofs ----------------------------
(***************************************************************************)
(* Proofs of what the pricing keeps: the stacking of discounts, for any     *)
(* premium, rates, priorities, maxima and number of them; the surcharges,   *)
(* for any drivers, premiums, caps and age limits; and the rating factors,  *)
(* for any premiums, percents, losses, profiles and covers.                 *)
(***************************************************************************)
EXTENDS Pricing, FiniteSetTheorems, WellFoundedInduction, TLAPS

-----------------------------------------------------------------------------
(* Folds.  FoldLeft is defined by a function on the sets of positions; it   *)
(* exists, and what it is on the first positions is what the fold has come  *)
(* to.                                                                      *)
LEMMA LeastNatural ==
    ASSUME NEW T \in SUBSET Nat, T # {}
    PROVE  \E m \in T : \A k \in T : m <= k
<1> DEFINE R == OpToRel(<, Nat)
<1>1. IsWellFoundedOn(R, Nat)
  BY NatLessThanWellFounded
<1>2. \A x, y \in Nat : y < x => <<y, x>> \in R
  BY DEF OpToRel
<1> HIDE DEF R
<1>3. PICK x \in T : \A y \in T : ~ (<<y, x>> \in R)
  BY <1>1, WFMin
<1>4. ASSUME NEW k \in T PROVE x <= k
  <2>1. x \in Nat /\ k \in Nat /\ ~ (k < x)
    BY <1>2, <1>3
  <2> QED BY <2>1
<1> QED BY <1>4

\* Induction up to a number, as a statement about a set of numbers.
LEMMA UpTo ==
    ASSUME NEW n \in Nat, NEW T, 0 \in T, \A m \in 0..n : m \in T /\ m < n => m + 1 \in T
    PROVE  \A m \in 0..n : m \in T
<1> DEFINE Rest == {m \in 0..n : m \notin T}
<1>1. CASE Rest = {}
  BY <1>1
<1>2. CASE Rest # {}
  <2>1. Rest \in SUBSET Nat
    OBVIOUS
  <2>2. PICK m \in Rest : \A k \in Rest : m <= k
    <3> HIDE DEF Rest
    <3> QED BY <1>2, <2>1, LeastNatural
  <2>3. m \in Nat /\ m # 0 /\ m <= n /\ m \notin T
    BY <2>2
  <2>4. m - 1 \in 0..n /\ m - 1 < n /\ (m - 1) + 1 = m /\ ~ (m <= m - 1)
    BY <2>3
  <2>5. m - 1 \in T
    BY <2>2, <2>4
  <2>6. (m - 1) + 1 \in T
    BY <2>4, <2>5
  <2> QED BY <2>3, <2>4, <2>6
<1> QED BY <1>1, <1>2

LEMMA GreatestUpTo ==
    ASSUME NEW n \in Nat
    PROVE  /\ \A T \in SUBSET (1..(n + 1)) : n + 1 \in T => Max(T) = n + 1
           /\ \A T \in SUBSET (1..n) : T # {} => Max(T) \in T
<1>1. ASSUME NEW T \in SUBSET (1..(n + 1)), n + 1 \in T
      PROVE  Max(T) = n + 1
  <2>1. \A y \in T : n + 1 >= y
    BY <1>1
  <2>2. Max(T) \in T /\ \A y \in T : Max(T) >= y
    BY <1>1, <2>1 DEF Max
  <2>3. \A x \in Int : x >= n + 1 /\ n + 1 >= x => x = n + 1
    OBVIOUS
  <2>4. Max(T) >= n + 1 /\ n + 1 >= Max(T)
    BY <1>1, <2>1, <2>2
  <2>5. Max(T) \in Int
    <3>1. \A x \in T : x \in Int
      OBVIOUS
    <3> QED BY <2>2, <3>1
  <2> QED BY <2>3, <2>4, <2>5
<1>2. ASSUME NEW T \in SUBSET (1..n), T # {}
      PROVE  Max(T) \in T
  <2> DEFINE Up == {n - k : k \in T}
  <2>1. Up \in SUBSET Nat /\ Up # {}
    <3>1. \A k \in 1..n : n - k \in Nat
      OBVIOUS
    <3>2. PICK k \in T : TRUE
      BY <1>2
    <3>3. n - k \in Up
      OBVIOUS
    <3> QED BY <3>1, <3>3
  <2>2. PICK m \in Up : \A k \in Up : m <= k
    <3> HIDE DEF Up
    <3> QED BY <2>1, LeastNatural
  <2>3. PICK x \in T : m = n - x
    BY <2>2
  <2>4. ASSUME NEW y \in T PROVE x >= y
    <3>1. n - x <= n - y
      BY <2>2, <2>3
    <3>2. x \in Int /\ y \in Int
      OBVIOUS
    <3> QED BY <3>1, <3>2
  <2> QED BY <2>4 DEF Max
<1> QED BY <1>1, <1>2

\* There is a function that folds a step over every set of positions.
Folds(n, b, step, f) ==
    \A T \in SUBSET (1..n) : f[T] = IF T = {} THEN b ELSE step[f[T \ {Max(T)}], Max(T)]

LEMMA FoldExists ==
    ASSUME NEW n \in Nat, NEW A, NEW b \in A, NEW step \in [A \X (1..n) -> A]
    PROVE  \E f \in [SUBSET (1..n) -> A] : Folds(n, b, step, f)
<1>0. \A m \in 0..n : m < n => m \in Nat /\ m + 1 \in 1..n /\ 1..m \subseteq 1..n
  OBVIOUS
<1> DEFINE Have == {m \in Nat : \E f \in [SUBSET (1..m) -> A] : Folds(m, b, step, f)}
<1>1. 0 \in Have
  <2> DEFINE f == [T \in SUBSET (1..0) |-> b]
  <2>1. f \in [SUBSET (1..0) -> A] /\ Folds(0, b, step, f)
    <3>1. \A T \in SUBSET (1..0) : T = {}
      OBVIOUS
    <3> QED BY <3>1 DEF Folds
  <2> HIDE DEF f
  <2> QED BY <2>1
<1>2. ASSUME NEW m \in 0..n, m \in Have, m < n PROVE m + 1 \in Have
  <2>1. PICK f \in [SUBSET (1..m) -> A] : Folds(m, b, step, f)
    BY <1>2
  <2>2. m \in Nat /\ m + 1 \in 1..n /\ 1..m \subseteq 1..n
    <3> HIDE DEF Have
    <3> QED BY <1>0, <1>2
  <2> DEFINE g == [T \in SUBSET (1..(m + 1)) |->
                     IF m + 1 \in T THEN step[f[T \ {m + 1}], m + 1] ELSE f[T]]
  <2>3. ASSUME NEW T \in SUBSET (1..(m + 1))
        PROVE  /\ g[T] \in A
               /\ g[T] = IF T = {} THEN b ELSE step[g[T \ {Max(T)}], Max(T)]
    <3>1. CASE m + 1 \in T
      <4>1. Max(T) = m + 1 /\ T # {}
        BY <2>2, <3>1, GreatestUpTo
      <4>2. /\ T \ {m + 1} \in SUBSET (1..(m + 1)) /\ m + 1 \notin T \ {m + 1}
            /\ T \ {m + 1} \in SUBSET (1..m)
        BY <2>2
      <4>3. g[T \ {m + 1}] = f[T \ {m + 1}] /\ f[T \ {m + 1}] \in A
        BY <2>1, <4>2
      <4>4. g[T] = step[f[T \ {m + 1}], m + 1]
        BY <3>1
      <4>5. step[f[T \ {m + 1}], m + 1] \in A
        BY <2>2, <4>3
      <4> QED BY <4>1, <4>3, <4>4, <4>5
    <3>2. CASE m + 1 \notin T
      <4>1. T \in SUBSET (1..m)
        BY <2>2, <3>2
      <4>2. g[T] = f[T] /\ f[T] \in A
        BY <2>1, <3>2, <4>1
      <4>3. f[T] = IF T = {} THEN b ELSE step[f[T \ {Max(T)}], Max(T)]
        BY <2>1, <4>1 DEF Folds
      <4>4. g[T \ {Max(T)}] = f[T \ {Max(T)}]
        <5>1. T \ {Max(T)} \in SUBSET (1..(m + 1)) /\ m + 1 \notin T \ {Max(T)}
          BY <3>2
        <5> QED BY <5>1
      <4> QED BY <4>2, <4>3, <4>4
    <3> QED BY <3>1, <3>2
  <2>4. g \in [SUBSET (1..(m + 1)) -> A]
    <3>1. g = [T \in SUBSET (1..(m + 1)) |-> g[T]]
      OBVIOUS
    <3> HIDE DEF g
    <3> QED BY <2>3, <3>1
  <2>5. m + 1 \in Nat /\ Folds(m + 1, b, step, g)
    <3> HIDE DEF g
    <3>1. m + 1 \in Nat
      BY <2>2
    <3>2. Folds(m + 1, b, step, g)
      BY <2>3 DEF Folds
    <3> QED BY <3>1, <3>2
  <2> HIDE DEF g
  <2> QED BY <2>4, <2>5
<1>3. n \in Have
  <2> HIDE DEF Have
  <2>1. \A m \in 0..n : m \in Have
    BY <1>1, <1>2, UpTo
  <2> QED BY <2>1
<1> QED BY <1>3

LEMMA FirstOnes ==
    ASSUME NEW n \in Nat, NEW m \in 1..n
    PROVE  /\ 1..m \in SUBSET (1..n) /\ 1..m # {}
           /\ Max(1..m) = m /\ (1..m) \ {m} = 1..(m - 1)
<1>1. m \in Nat /\ m - 1 \in Nat /\ (m - 1) + 1 = m /\ m \in 1..m /\ 1..m \in SUBSET (1..n)
  OBVIOUS
<1>2. Max(1..m) = m
  <2>1. \A k \in Nat : \A T \in SUBSET (1..(k + 1)) : k + 1 \in T => Max(T) = k + 1
    BY GreatestUpTo
  <2> DEFINE k == m - 1
  <2>2. k \in Nat /\ k + 1 = m
    BY <1>1
  <2>3. 1..m \in SUBSET (1..(k + 1)) /\ k + 1 \in 1..m
    BY <1>1, <2>2
  <2> HIDE DEF k
  <2> QED BY <2>1, <2>2, <2>3
<1>3. ((1..m) \ {m}) = 1..(m - 1)
  <2>1. \A i \in 1..m : i # m => i \in 1..(m - 1)
    BY <1>1
  <2>2. \A i \in 1..(m - 1) : i \in 1..m /\ i # m
    BY <1>1
  <2> QED BY <2>1, <2>2
<1> QED BY <1>1, <1>2, <1>3

\* f adds up the values of v at a set of positions, from b on.
Sums(n, b, v, f) ==
    f = [T \in SUBSET (1..n) |-> IF T = {} THEN b ELSE f[T \ {Max(T)}] + v[Max(T)]]

LEMMA SumsExist ==
    ASSUME NEW n \in Nat, NEW b \in Int, NEW v \in [1..n -> Int]
    PROVE  \E f : Sums(n, b, v, f)
<1> DEFINE step == [p \in Int \X (1..n) |-> p[1] + v[p[2]]]
<1>1. step \in [Int \X (1..n) -> Int]
  OBVIOUS
<1>2. \A x \in Int : \A i \in 1..n : step[x, i] = x + v[i]
  OBVIOUS
<1> HIDE DEF step
<1>3. PICK f \in [SUBSET (1..n) -> Int] : Folds(n, b, step, f)
  BY <1>1, FoldExists
<1>4. ASSUME NEW T \in SUBSET (1..n)
      PROVE  f[T] = IF T = {} THEN b ELSE f[T \ {Max(T)}] + v[Max(T)]
  <2>1. T # {} => Max(T) \in T /\ T \ {Max(T)} \in SUBSET (1..n)
    BY GreatestUpTo
  <2>2. T # {} => Max(T) \in 1..n /\ f[T \ {Max(T)}] \in Int
    BY <2>1
  <2> QED BY <1>2, <1>3, <2>2 DEF Folds
<1>5. Sums(n, b, v, f)
  BY <1>4 DEF Sums
<1> QED BY <1>5

Grows(n, b, v, f) ==
    /\ f[1..0] = b
    /\ \A m \in 1..n : f[1..m] = f[1..(m - 1)] + v[m]
    /\ \A m \in 0..n : f[1..m] \in Int

LEMMA SumsGrow ==
    ASSUME NEW n \in Nat, NEW b \in Int, NEW v \in [1..n -> Int], NEW f, Sums(n, b, v, f)
    PROVE  Grows(n, b, v, f)
<1>1. 1..0 = {} /\ {} \in SUBSET (1..n)
  OBVIOUS
<1>2. f[1..0] = b
  BY <1>1 DEF Sums
<1>3. \A m \in 1..n : f[1..m] = f[1..(m - 1)] + v[m]
  <2> SUFFICES ASSUME NEW m \in 1..n PROVE f[1..m] = f[1..(m - 1)] + v[m]
    OBVIOUS
  <2>1. /\ 1..m \in SUBSET (1..n) /\ 1..m # {}
        /\ Max(1..m) = m /\ (1..m) \ {m} = 1..(m - 1)
    BY FirstOnes
  <2>2. f[1..m] = f[(1..m) \ {Max(1..m)}] + v[Max(1..m)]
    BY <2>1 DEF Sums
  <2> QED BY <2>1, <2>2
<1>4. \A m \in 0..n : f[1..m] \in Int
  <2> DEFINE Have == {m \in Nat : f[1..m] \in Int}
  <2>1. 0 \in Have
    BY <1>2
  <2>2. ASSUME NEW m \in 0..n, m \in Have, m < n PROVE m + 1 \in Have
    <3>1. m + 1 \in 1..n /\ m + 1 \in Nat /\ (m + 1) - 1 = m
      BY <2>2
    <3>2. f[1..(m + 1)] = f[1..m] + v[m + 1] /\ v[m + 1] \in Int
      BY <1>3, <3>1
    <3> QED BY <2>2, <3>1, <3>2
  <2> HIDE DEF Have
  <2>3. \A m \in 0..n : m \in Have
    BY <2>1, <2>2, UpTo
  <2> QED BY <2>3 DEF Have
<1> QED BY <1>2, <1>3, <1>4 DEF Grows

\* One value more adds that value.
Extends(n, v, w) == \A i \in 1..n : w[i] = v[i]
Adds(n, w, f, g) == f[1..n] \in Int /\ g[1..(n + 1)] = f[1..n] + w[n + 1]

LEMMA SumsAppend ==
    ASSUME NEW n \in Nat, NEW b \in Int, NEW v \in [1..n -> Int], NEW w \in [1..(n + 1) -> Int],
           Extends(n, v, w), NEW f, Sums(n, b, v, f), NEW g, Sums(n + 1, b, w, g)
    PROVE  Adds(n, w, f, g)
<1>1. Grows(n, b, v, f)
  BY SumsGrow
<1>2. Grows(n + 1, b, w, g)
  <2>1. \A k \in Nat : k = n + 1 => Grows(k, b, w, g)
    BY SumsGrow
  <2> QED BY <2>1
<1> DEFINE Same == {m \in Nat : f[1..m] = g[1..m]}
<1>3. 0 \in Same
  BY <1>1, <1>2 DEF Grows
<1>4. ASSUME NEW m \in 0..n, m \in Same, m < n PROVE m + 1 \in Same
  <2>1. m + 1 \in 1..n /\ m + 1 \in 1..(n + 1) /\ m + 1 \in Nat /\ (m + 1) - 1 = m
    BY <1>4
  <2>2. f[1..(m + 1)] = f[1..m] + v[m + 1] /\ g[1..(m + 1)] = g[1..m] + w[m + 1]
    BY <1>1, <1>2, <2>1 DEF Grows
  <2> QED BY <1>4, <2>1, <2>2 DEF Extends
<1>5. n \in Same
  <2> HIDE DEF Same
  <2>1. \A m \in 0..n : m \in Same
    BY <1>3, <1>4, UpTo
  <2> QED BY <2>1
<1>6. n + 1 \in 1..(n + 1) /\ (n + 1) - 1 = n /\ n \in 0..n
  OBVIOUS
<1> QED BY <1>1, <1>2, <1>5, <1>6 DEF Grows, Adds

-----------------------------------------------------------------------------
(* The stacking of discounts (DiscountStacking). *)

\* What is left to discount and what has been deducted make up the premium, or
\* more once an exclusive discount has replaced others.
Covered == remaining >= 0 /\ remaining + total >= base

StackingInv == TypeOK /\ Covered /\ Bounded /\ (pc = "loops" => base > 0)

USE RateAssumption

-----------------------------------------------------------------------------
(* Shares of an amount. *)

LEMMA ProductBounds ==
    ASSUME NEW x \in Nat, NEW r \in 0..100
    PROVE  x * r \in Nat /\ x * r <= x * 100
<1>1. x * r \in Nat
  OBVIOUS
<1>2. x * (100 - r) \in Nat
  OBVIOUS
<1>3. x * 100 = x * r + x * (100 - r)
  OBVIOUS
<1> QED BY <1>1, <1>2, <1>3

LEMMA HundredthBounds ==
    ASSUME NEW p \in Nat, NEW x \in Nat, p <= x * 100
    PROVE  p \div 100 \in Nat /\ p \div 100 <= x
OBVIOUS

\* A share in percent is between nothing and the whole.
LEMMA PartBounds ==
    ASSUME NEW x \in Nat, NEW r \in 0..100
    PROVE  Part(x, r) \in Nat /\ Part(x, r) <= x
<1> DEFINE p == x * r
<1>1. p \in Nat /\ p <= x * 100
  BY ProductBounds
<1>2. Part(x, r) = p \div 100
  BY DEF Part
<1> HIDE DEF p
<1> QED BY <1>1, <1>2, HundredthBounds

LEMMA OfferTyped ==
    ASSUME TypeOK, NEW i \in DOMAIN offers
    PROVE  offers[i].rate \in 0..100
<1>1. offers \in Seq(Offer) /\ i \in 1..Len(offers)
  BY DEF TypeOK
<1>2. offers[i] \in Offer
  BY <1>1
<1>3. offers[i].rate \in Rates
  BY <1>2 DEF Offer
<1> QED BY <1>3

LEMMA LimitBounds ==
    ASSUME TypeOK
    PROVE  Limit \in Nat /\ Limit <= base
BY PartBounds DEF TypeOK, Limit

LEMMA ExclusiveBounds ==
    ASSUME TypeOK, NEW i \in DOMAIN offers
    PROVE  Exclusive(i) \in Nat /\ Exclusive(i) <= base
<1> DEFINE rate == offers[i].rate
<1>1. rate \in 0..100 /\ base \in Nat
  BY OfferTyped DEF TypeOK
<1>2. Exclusive(i) = Part(base, rate)
  BY DEF Exclusive
<1> HIDE DEF rate
<1> QED BY <1>1, <1>2, PartBounds

\* What a stackable discount deducts: it leaves the total within the limit, and
\* never makes it negative.
LEMMA DiscountedBounds ==
    ASSUME TypeOK, Covered, NEW i \in DOMAIN offers
    PROVE  /\ Discounted(i) \in Int
           /\ total + Discounted(i) \in 0..Limit
           /\ remaining - Discounted(i) >= 0
<1> DEFINE rate == offers[i].rate
           amount == Part(remaining, rate)
<1>0. rate \in 0..100
  BY OfferTyped
<1>1. remaining \in Nat /\ total \in Nat /\ base \in Nat
  BY DEF TypeOK, Covered
<1>2. ASSUME NEW r \in 0..100
      PROVE  Part(remaining, r) \in Nat /\ Part(remaining, r) <= remaining
  BY <1>1, PartBounds
<1>3. Limit \in Nat /\ Limit <= base
  BY LimitBounds
<1>4. Discounted(i) = IF total + amount > Limit THEN Limit - total ELSE amount
  BY DEF Discounted
<1>5. remaining + total >= base
  BY DEF Covered
<1>6. amount \in Nat /\ amount <= remaining
  BY <1>0, <1>2
<1> HIDE DEF rate, amount
<1> QED BY <1>1, <1>3, <1>4, <1>5, <1>6

-----------------------------------------------------------------------------
(* The steps. *)

\* The list of the discounts only ever holds offers.
LEMMA ListTyped ==
    ASSUME TypeOK, NEW i \in DOMAIN offers, NEW c \in Int
    PROVE  /\ Append(applied, [offer |-> i, cents |-> c]) \in Seq([offer: DOMAIN offers, cents: Int])
           /\ <<[offer |-> i, cents |-> c]>> \in Seq([offer: DOMAIN offers, cents: Int])
BY DEF TypeOK

LEMMA CentsTyped ==
    ASSUME NEW amount \in Int
    PROVE  Cents(amount) \in Int
<1> DEFINE cents == amount \div Cent
<1>1. cents \in Int
  OBVIOUS
<1> HIDE DEF cents
<1> QED BY <1>1 DEF Cents, cents

LEMMA InitKeeps == Init => StackingInv
<1> SUFFICES ASSUME Init PROVE StackingInv
  OBVIOUS
<1>1. offers \in Seq(Offer) /\ Len(offers) <= MaxOffers
  <2>1. PICK n \in 0..MaxOffers : offers \in [1..n -> Offer]
    BY DEF Init
  <2>2. offers \in Seq(Offer) /\ Len(offers) = n
    BY <2>1
  <2> QED BY <2>2
<1>2. TypeOK
  BY <1>1 DEF Init, TypeOK
<1>3. base \in Nat /\ remaining = base /\ total = 0 /\ pc = "called" /\ Limit \in Nat
  BY <1>2, LimitBounds DEF Init
<1> HIDE DEF Limit
<1>4. Covered /\ Bounded
  BY <1>3 DEF Covered, Bounded
<1> QED BY <1>2, <1>3, <1>4 DEF StackingInv

LEMMA StacksKeeps ==
    ASSUME StackingInv, NEW i \in DOMAIN offers, Comes(i), Stacks(i)
    PROVE  StackingInv'
<1>1. /\ Discounted(i) \in Int
      /\ total + Discounted(i) \in 0..Limit
      /\ remaining - Discounted(i) >= 0
  BY DiscountedBounds DEF StackingInv
<1>2. /\ base \in Nat /\ base > 0 /\ UNCHANGED <<base, offers, cap>>
      /\ left' \subseteq DOMAIN offers /\ pc' \in {"loops", "ok"}
      /\ total' = total + Discounted(i) /\ remaining' = remaining - Discounted(i)
      /\ total \in Nat /\ remaining \in Int /\ remaining + total >= base
  BY DEF StackingInv, TypeOK, Covered, Comes, Stacks
<1>3. applied' \in Seq([offer: DOMAIN offers, cents: Int])
  BY <1>1, CentsTyped, ListTyped DEF Stacks, StackingInv
<1>4. Limit \in Nat /\ Limit' = Limit
  BY <1>2, LimitBounds DEF StackingInv, Limit
<1> HIDE DEF Limit
<1>5. total' \in Nat /\ total' <= Limit' /\ remaining' \in Int /\ Covered'
  BY <1>1, <1>2, <1>4 DEF Covered
<1>6. TypeOK'
  BY <1>2, <1>3, <1>5 DEF TypeOK, StackingInv
<1> QED BY <1>2, <1>5, <1>6 DEF StackingInv, Bounded

LEMMA ReplacesKeeps ==
    ASSUME StackingInv, NEW i \in DOMAIN offers, Comes(i), Replaces(i)
    PROVE  StackingInv'
<1>1. Exclusive(i) \in Nat /\ Exclusive(i) <= base
  BY ExclusiveBounds DEF StackingInv
<1>2. /\ base \in Nat /\ base > 0 /\ UNCHANGED <<base, offers, cap, remaining>>
      /\ left' \subseteq DOMAIN offers /\ pc' \in {"loops", "ok"}
      /\ total' = Exclusive(i) /\ total' > total /\ ~ offers[i].stackable
      /\ total \in Nat /\ remaining \in Int /\ remaining >= 0 /\ remaining + total >= base
  BY DEF StackingInv, TypeOK, Covered, Comes, Replaces
<1>3. applied' \in Seq([offer: DOMAIN offers, cents: Int])
  BY <1>1, CentsTyped, ListTyped DEF Replaces, StackingInv
<1>4. Covered'
  BY <1>1, <1>2 DEF Covered
<1>5. TypeOK'
  BY <1>1, <1>2, <1>3 DEF TypeOK, StackingInv
<1>6. Exclusive(i)' = Exclusive(i)
  BY <1>2 DEF Exclusive
<1> QED BY <1>2, <1>4, <1>5, <1>6 DEF StackingInv, Bounded

LEMMA RestKeeps ==
    ASSUME StackingInv,
           Starts \/ UNCHANGED vars \/ \E i \in DOMAIN offers : Comes(i) /\ Passes(i)
    PROVE  StackingInv'
<1>1. /\ UNCHANGED <<base, offers, cap, applied, remaining, total>>
      /\ left' \subseteq left /\ pc' \in {"called", "loops", "ok", "err"}
      /\ pc' = "loops" => base > 0
  BY DEF StackingInv, TypeOK, Starts, vars, Comes, Passes
<1>2. Limit' = Limit /\ \A i \in DOMAIN offers : Exclusive(i)' = Exclusive(i)
  BY <1>1 DEF Limit, Exclusive
<1>3. TypeOK'
  BY <1>1 DEF TypeOK, StackingInv
<1> QED BY <1>1, <1>2, <1>3 DEF StackingInv, Covered, Bounded

-----------------------------------------------------------------------------
(* All that stacking keeps, in one invariant of every reachable state.      *)
THEOREM StackingKeeps == Spec => []StackingInv
<1>1. StackingInv /\ [Next]_vars => StackingInv'
  BY StacksKeeps, ReplacesKeeps, RestKeeps DEF Next
<1> QED BY <1>1, InitKeeps, PTL DEF Spec

(* Whatever the order, the total exceeds the maximum only by one exclusive  *)
(* discount (calculate_stacked_discounts).                                  *)
THEOREM TotalIsBounded == Spec => []Bounded
<1>1. StackingInv => Bounded
  BY DEF StackingInv
<1> QED BY <1>1, StackingKeeps, PTL

(* The total is never negative nor more than the premium, so that the model *)
(* StackedDiscounts accepts it and the customer owes nothing below zero.    *)
THEOREM NeverMoreThanThePremium == Spec => [](total \in 0..base)
<1>1. ASSUME StackingInv PROVE total \in 0..base
  <2>1. TypeOK /\ Bounded /\ total \in Nat /\ base \in Nat
    BY <1>1 DEF StackingInv, TypeOK
  <2> QED BY <2>1, LimitBounds, ExclusiveBounds DEF Bounded
<1> QED BY <1>1, StackingKeeps, PTL

-----------------------------------------------------------------------------
(* The list that the customer is shown. *)

Line == [offer: Nat, cents: Int]
CentsOf(lines) == [i \in DOMAIN lines |-> lines[i].cents]

\* The sum that the fold computes.
LEMMA SummedIs ==
    ASSUME NEW lines \in Seq(Line), NEW n \in Nat, n = Len(lines)
    PROVE  /\ CentsOf(lines) \in [1..n -> Int]
           /\ \E f : Sums(n, 0, CentsOf(lines), f) /\ Summed(lines) = f[1..n]
<1> DEFINE v == CentsOf(lines)
           h == CHOOSE f : f = [T \in SUBSET DOMAIN lines |->
                                  IF T = {} THEN 0 ELSE f[T \ {Max(T)}] + lines[Max(T)].cents]
<1>1. /\ DOMAIN lines = 1..n /\ v \in [1..n -> Int]
      /\ \A i \in 1..n : v[i] = lines[i].cents
  <2>1. DOMAIN lines = 1..n /\ \A i \in 1..n : lines[i] \in Line
    OBVIOUS
  <2> QED BY <2>1 DEF Line, CentsOf
<1>2. Summed(lines) = h[DOMAIN lines]
  BY DEF Summed, FoldLeft, MapThenFoldSet
<1>3. \A T \in SUBSET (1..n) : T # {} => Max(T) \in 1..n
  <2>1. \A T \in SUBSET (1..n) : T # {} => Max(T) \in T
    BY GreatestUpTo
  <2> QED BY <2>1
<1> HIDE DEF v
<1>4. ASSUME NEW f
      PROVE  [T \in SUBSET DOMAIN lines |-> IF T = {} THEN 0 ELSE f[T \ {Max(T)}] + lines[Max(T)].cents]
           = [T \in SUBSET (1..n) |-> IF T = {} THEN 0 ELSE f[T \ {Max(T)}] + v[Max(T)]]
  BY <1>1, <1>3
<1>5. PICK f : Sums(n, 0, v, f)
  <2>1. 0 \in Int
    OBVIOUS
  <2> QED BY <1>1, <2>1, SumsExist
<1>6. Sums(n, 0, v, h)
  <2>1. f = [T \in SUBSET DOMAIN lines |-> IF T = {} THEN 0 ELSE f[T \ {Max(T)}] + lines[Max(T)].cents]
    BY <1>4, <1>5 DEF Sums
  <2>2. h = [T \in SUBSET DOMAIN lines |-> IF T = {} THEN 0 ELSE h[T \ {Max(T)}] + lines[Max(T)].cents]
    BY <2>1
  <2> HIDE DEF h
  <2> QED BY <1>4, <2>2 DEF Sums
<1> HIDE DEF h
<1> QED BY <1>1, <1>2, <1>6 DEF v

\* The sum of a list is a number, and grows by the last line.
LEMMA SummedAppend ==
    ASSUME NEW s \in Seq(Line), NEW a \in Line
    PROVE  /\ Summed(<<>>) = 0
           /\ Summed(<<a>>) = a.cents
           /\ Summed(s) \in Int
           /\ Summed(Append(s, a)) = Summed(s) + a.cents
<1>1. Summed(<<>>) = 0
  <2>1. <<>> \in Seq(Line) /\ Len(<<>>) = 0
    OBVIOUS
  <2>2. CentsOf(<<>>) \in [1..0 -> Int] /\ \E f : Sums(0, 0, CentsOf(<<>>), f) /\ Summed(<<>>) = f[1..0]
    BY <2>1, SummedIs
  <2>3. PICK f : Sums(0, 0, CentsOf(<<>>), f) /\ Summed(<<>>) = f[1..0]
    BY <2>2
  <2>4. Grows(0, 0, CentsOf(<<>>), f)
    BY <2>2, <2>3, SumsGrow
  <2> QED BY <2>3, <2>4 DEF Grows
<1>2. ASSUME NEW z \in Seq(Line)
      PROVE  Summed(z) \in Int /\ Summed(Append(z, a)) = Summed(z) + a.cents
  <2> DEFINE n == Len(z)
             t == Append(z, a)
             v == CentsOf(z)
             w == CentsOf(t)
  <2>1. /\ n \in Nat /\ n + 1 \in Nat /\ t \in Seq(Line) /\ n + 1 = Len(t)
        /\ DOMAIN z = 1..n /\ DOMAIN t = 1..(n + 1)
        /\ t[n + 1] = a /\ \A i \in 1..n : t[i] = z[i]
    OBVIOUS
  <2>2. v \in [1..n -> Int] /\ \E f : Sums(n, 0, v, f) /\ Summed(z) = f[1..n]
    BY <2>1, SummedIs
  <2>3. w \in [1..(n + 1) -> Int] /\ \E g : Sums(n + 1, 0, w, g) /\ Summed(t) = g[1..(n + 1)]
    BY <2>1, SummedIs
  <2>4. w[n + 1] = a.cents /\ Extends(n, v, w)
    BY <2>1 DEF CentsOf, Extends
  <2> HIDE DEF n, t, v, w
  <2>5. PICK f : Sums(n, 0, v, f) /\ Summed(z) = f[1..n]
    BY <2>2
  <2>6. PICK g : Sums(n + 1, 0, w, g) /\ Summed(t) = g[1..(n + 1)]
    BY <2>3
  <2>7. 0 \in Int
    OBVIOUS
  <2>8. Adds(n, w, f, g)
    BY <2>1, <2>2, <2>3, <2>4, <2>5, <2>6, <2>7, SumsAppend, Zenon
  <2> QED BY <2>4, <2>5, <2>6, <2>8 DEF t, Adds
<1>3. Summed(<<a>>) = a.cents
  <2>1. <<>> \in Seq(Line) /\ Append(<<>>, a) = <<a>> /\ a.cents \in Int
    BY DEF Line
  <2>2. Summed(Append(<<>>, a)) = Summed(<<>>) + a.cents
    BY <1>2, <2>1
  <2> QED BY <1>1, <2>1, <2>2
<1> QED BY <1>1, <1>2, <1>3

\* Rounding moves an amount by half a cent at most.
LEMMA HalfACent ==
    ASSUME NEW q \in Int, NEW r \in Int, NEW amount \in Int, NEW rounded \in Int, NEW k \in Int,
           k > 0, amount = k * q + r, 0 <= r, r < k,
           rounded = IF 2 * r > k \/ (2 * r = k /\ q % 2 = 1) THEN q + 1 ELSE q
    PROVE  /\ 2 * (rounded * k - amount) <= k
           /\ 2 * (amount - rounded * k) <= k
<1>1. (q + 1) * k = k * q + k /\ q * k = k * q /\ k * q \in Int
  OBVIOUS
<1> DEFINE p == k * q
<1> HIDE DEF p
<1>2. CASE rounded = q + 1 /\ 2 * r >= k
  <2>1. rounded * k = p + k
    BY <1>1, <1>2 DEF p
  <2> QED BY <1>1, <1>2, <2>1 DEF p
<1>3. CASE rounded = q /\ 2 * r <= k
  <2>1. rounded * k = p
    BY <1>1, <1>3 DEF p
  <2> QED BY <1>1, <1>3, <2>1 DEF p
<1> QED BY <1>2, <1>3

LEMMA DivMod ==
    ASSUME NEW a \in Int, NEW k \in Nat \ {0}
    PROVE  /\ a \div k \in Int /\ a % k \in Int
           /\ a = k * (a \div k) + (a % k) /\ 0 <= a % k /\ a % k < k
OBVIOUS

LEMMA CentIsPositive == Cent \in Nat \ {0} /\ Cent \in Int /\ Cent > 0 /\ 0 * Cent = 0
<1>1. Cent \in Nat \ {0}
  BY RateAssumption
<1>2. \A k \in Nat \ {0} : k \in Int /\ k > 0 /\ 0 * k = 0
  OBVIOUS
<1> QED BY <1>1, <1>2

LEMMA CentsAreClose ==
    ASSUME NEW amount \in Int
    PROVE  /\ Cents(amount) \in Int
           /\ 2 * (Cents(amount) * Cent - amount) <= Cent
           /\ 2 * (amount - Cents(amount) * Cent) <= Cent
<1> DEFINE q == amount \div Cent
           r == amount % Cent
<1>1. /\ q \in Int /\ r \in Int /\ amount = Cent * q + r /\ 0 <= r /\ r < Cent
      /\ Cent \in Int /\ Cent > 0
  BY DivMod, CentIsPositive, Zenon
<1>2. Cents(amount) = IF 2 * r > Cent \/ (2 * r = Cent /\ q % 2 = 1) THEN q + 1 ELSE q
  BY DEF Cents
<1>3. Cents(amount) \in Int
  BY CentsTyped
<1> HIDE DEF q, r
<1> QED BY <1>1, <1>2, <1>3, HalfACent

\* The list and the total are half a cent apart for each line at most.
Close(lines, amount) ==
    /\ 2 * (Summed(lines) * Cent - amount) <= Len(lines) * Cent
    /\ 2 * (amount - Summed(lines) * Cent) <= Len(lines) * Cent

LEMMA LinesTyped ==
    ASSUME TypeOK
    PROVE  applied \in Seq(Line) /\ \A i \in DOMAIN offers : \A c \in Int : [offer |-> i, cents |-> c] \in Line
<1>1. DOMAIN offers \subseteq Nat
  BY DEF TypeOK
<1>2. [offer: DOMAIN offers, cents: Int] \subseteq Line
  BY <1>1 DEF Line
<1>3. applied \in Seq([offer: DOMAIN offers, cents: Int])
  BY DEF TypeOK
<1>4. \A S : S \subseteq Line => Seq(S) \subseteq Seq(Line)
  OBVIOUS
<1>5. \A i \in DOMAIN offers : \A c \in Int : [offer |-> i, cents |-> c] \in [offer: DOMAIN offers, cents: Int]
  OBVIOUS
<1> QED BY <1>2, <1>3, <1>4, <1>5

LEMMA MoreLines ==
    ASSUME NEW s \in Int, NEW c \in Int, NEW k \in Nat, NEW n \in Nat, NEW a \in Int, NEW d \in Int,
           2 * (s * k - a) <= n * k, 2 * (a - s * k) <= n * k,
           2 * (c * k - d) <= k, 2 * (d - c * k) <= k
    PROVE  /\ 2 * ((s + c) * k - (a + d)) <= (n + 1) * k
           /\ 2 * ((a + d) - (s + c) * k) <= (n + 1) * k
<1>1. /\ (s + c) * k = s * k + c * k /\ (n + 1) * k = n * k + k
      /\ s * k \in Int /\ c * k \in Int /\ n * k \in Int
  OBVIOUS
<1> DEFINE sk == s * k
           ck == c * k
           nk == n * k
<1> HIDE DEF sk, ck, nk
<1>2. 2 * ((sk + ck) - (a + d)) <= nk + k /\ 2 * ((a + d) - (sk + ck)) <= nk + k
  BY <1>1 DEF sk, ck, nk
<1> QED BY <1>1, <1>2 DEF sk, ck, nk

LEMMA NextAddsUp ==
    ASSUME StackingInv, Close(applied, total), [Next]_vars
    PROVE  Close(applied, total)'
<1>1. total \in Int /\ Cent \in Nat \ {0} /\ applied \in Seq(Line)
  <2>1. TypeOK
    BY DEF StackingInv
  <2>2. total \in Int
    BY <2>1 DEF TypeOK
  <2> QED BY <2>1, <2>2, LinesTyped, CentIsPositive
<1>a. Close(applied', total') => Close(applied, total)'
  BY DEF Close, Summed, FoldLeft, MapThenFoldSet
<1>2. ASSUME NEW i \in DOMAIN offers, Stacks(i)
      PROVE  Close(applied, total)'
  <2> DEFINE d == Discounted(i)
             c == Cents(d)
             a == [offer |-> i, cents |-> c]
  <2>1. d \in Int
    BY DiscountedBounds DEF StackingInv
  <2>2. c \in Int /\ 2 * (c * Cent - d) <= Cent /\ 2 * (d - c * Cent) <= Cent
    BY <2>1, CentsAreClose
  <2>3. a \in Line /\ a.cents = c
    BY <2>2, LinesTyped DEF StackingInv
  <2>4. applied' = Append(applied, a) /\ total' = total + d
    BY <1>2 DEF Stacks
  <2> HIDE DEF a, d, c
  <2>5. /\ Summed(applied) \in Int /\ Summed(applied') = Summed(applied) + c
        /\ Len(applied') = Len(applied) + 1 /\ Len(applied) \in Nat
    <3>1. Summed(applied) \in Int /\ Summed(Append(applied, a)) = Summed(applied) + a.cents
      BY <1>1, <2>3, SummedAppend, Zenon
    <3>2. Len(Append(applied, a)) = Len(applied) + 1 /\ Len(applied) \in Nat
      BY <1>1, <2>3
    <3> QED BY <2>3, <2>4, <3>1, <3>2
  <2>6. /\ 2 * (Summed(applied) * Cent - total) <= Len(applied) * Cent
        /\ 2 * (total - Summed(applied) * Cent) <= Len(applied) * Cent
    BY DEF Close
  <2>7. /\ 2 * ((Summed(applied) + c) * Cent - (total + d)) <= (Len(applied) + 1) * Cent
        /\ 2 * ((total + d) - (Summed(applied) + c) * Cent) <= (Len(applied) + 1) * Cent
    BY <1>1, <2>1, <2>2, <2>5, <2>6, MoreLines
  <2>8. Close(applied', total')
    BY <2>4, <2>5, <2>7 DEF Close
  <2> QED BY <1>a, <2>8
<1>3. ASSUME NEW i \in DOMAIN offers, Replaces(i)
      PROVE  Close(applied, total)'
  <2> DEFINE d == Exclusive(i)
             c == Cents(d)
             a == [offer |-> i, cents |-> c]
  <2>1. d \in Int
    BY ExclusiveBounds DEF StackingInv
  <2>2. c \in Int /\ 2 * (c * Cent - d) <= Cent /\ 2 * (d - c * Cent) <= Cent
    BY <2>1, CentsAreClose
  <2>3. a \in Line /\ a.cents = c
    BY <2>2, LinesTyped DEF StackingInv
  <2>4. applied' = <<a>> /\ total' = d
    BY <1>3 DEF Replaces
  <2> HIDE DEF a, d, c
  <2>5. Summed(applied') = c /\ Len(applied') = 1
    BY <1>1, <2>3, <2>4, SummedAppend
  <2>6. 1 * Cent = Cent
    BY <1>1
  <2>7. Close(applied', total')
    BY <2>2, <2>4, <2>5, <2>6 DEF Close
  <2> QED BY <1>a, <2>7
<1>4. ASSUME UNCHANGED <<applied, total>>
      PROVE  Close(applied, total)'
  BY <1>a, <1>4
<1> QED BY <1>2, <1>3, <1>4 DEF Next, Starts, Passes, vars

(* The lines that are listed to the customer add up to the total but for    *)
(* half a cent each, in whatever order discounts are stacked and replaced   *)
(* (applied_discounts, total_discount_amount).                              *)
THEOREM ListedAddUp == Spec => []AddUp
<1>1. Init => Close(applied, total)
  <2> SUFFICES ASSUME Init PROVE Close(applied, total)
    OBVIOUS
  <2>1. applied = <<>> /\ total = 0 /\ Len(applied) = 0
    BY DEF Init
  <2>2. <<>> \in Seq(Line) /\ [offer |-> 0, cents |-> 0] \in Line
    BY DEF Line
  <2>3. Summed(applied) = 0
    BY <2>1, <2>2, SummedAppend
  <2>4. Close(applied, total) = (/\ 2 * (0 * Cent - 0) <= 0 * Cent /\ 2 * (0 - 0 * Cent) <= 0 * Cent)
    BY <2>1, <2>3 DEF Close
  <2>5. 0 * Cent = 0
    BY CentIsPositive
  <2> QED BY <2>4, <2>5
<1>2. StackingInv /\ Close(applied, total) => AddUp
  <2> SUFFICES ASSUME StackingInv, Close(applied, total) PROVE AddUp
    OBVIOUS
  <2>1. [offer |-> 0, cents |-> 0] \in Line
    BY DEF Line
  <2>2. Summed(applied) \in Int /\ total \in Int /\ Cent \in Int
    <3>1. TypeOK
      BY DEF StackingInv
    <3>2. total \in Int
      BY <3>1 DEF TypeOK
    <3>3. applied \in Seq(Line)
      BY <3>1, LinesTyped
    <3>4. Summed(applied) \in Int
      BY <2>1, <3>3, SummedAppend, Zenon
    <3> QED BY <3>2, <3>4, CentIsPositive
  <2> DEFINE shown == Summed(applied) * Cent
             most == Len(applied) * Cent
  <2>3. shown \in Int /\ 2 * (shown - total) <= most /\ 2 * (total - shown) <= most
    BY <2>2 DEF Close
  <2>4. AddUp = (2 * (IF shown > total THEN shown - total ELSE total - shown) <= most)
    BY DEF AddUp
  <2> HIDE DEF shown, most
  <2> QED BY <2>2, <2>3, <2>4
<1>3. StackingInv /\ Close(applied, total) /\ [Next]_vars => Close(applied, total)'
  BY NextAddsUp
<1> QED BY <1>1, <1>2, <1>3, StackingKeeps, PTL DEF Spec

(* The total exceeds the maximum only by one exclusive discount, and what   *)
(* is listed adds up to it (calculate_stacked_discounts).                   *)
THEOREM DiscountsAreFair == Spec => []DiscountsFair
<1> QED BY TotalIsBounded, ListedAddUp, PTL DEF DiscountsFair

-----------------------------------------------------------------------------
(* Products of integers. *)

HIDE RateAssumption

\* A common factor keeps an order, and can be taken from it.
LEMMA TimesGrows ==
    ASSUME NEW x \in Int, NEW y \in Int, x <= y, NEW k \in Nat
    PROVE  x * k \in Int /\ y * k \in Int /\ x * k <= y * k
<1> DEFINE xk == x * k
           yk == y * k
           d == (y - x) * k
<1>1. xk \in Int /\ yk \in Int /\ d \in Nat /\ yk = xk + d
  OBVIOUS
<1> HIDE DEF xk, yk, d
<1>2. xk <= yk
  BY <1>1
<1> QED BY <1>1, <1>2 DEF xk, yk

LEMMA CancelsInt ==
    ASSUME NEW x \in Int, NEW y \in Int, NEW k \in Nat \ {0}, x * k <= y * k
    PROVE  x <= y
<1>1. CASE ~ (x <= y)
  <2> DEFINE xk == x * k
             yk == y * k
             e == (x - (y + 1)) * k
  <2>1. xk \in Int /\ yk \in Int /\ e \in Nat /\ xk = yk + k + e /\ xk <= yk /\ k > 0 /\ k \in Nat
    BY <1>1
  <2> HIDE DEF xk, yk, e
  <2> QED BY <2>1
<1> QED BY <1>1

LEMMA Distributes ==
    ASSUME NEW x \in Int, NEW y \in Int, NEW k \in Int
    PROVE  /\ x * k \in Int /\ y * k \in Int
           /\ (x + y) * k = x * k + y * k /\ (x - y) * k = x * k - y * k
OBVIOUS

LEMMA Commutes == ASSUME NEW x \in Int, NEW y \in Int PROVE x * y = y * x /\ x * y \in Int
OBVIOUS

LEMMA Associates ==
    ASSUME NEW x \in Int, NEW y \in Int, NEW z \in Int
    PROVE  (x * y) * z = (x * z) * y /\ (x * y) * z = x * (y * z) /\ (x * y) * z \in Int
OBVIOUS

-----------------------------------------------------------------------------
(* The order of the discounts.  What discounts leave of a premium is        *)
(* compared with the product of their complements, whose order is free.     *)

Multiplies(n, v, f) ==
    /\ f \in [0..n -> Nat] /\ f[0] = 1
    /\ \A m \in 1..n : f[m] = f[m - 1] * v[m]

LEMMA ProductExists ==
    ASSUME NEW n \in Nat, NEW v \in [1..n -> Nat]
    PROVE  \E f : Multiplies(n, v, f)
<1> DEFINE step == [p \in Nat \X (1..n) |-> p[1] * v[p[2]]]
<1>1. step \in [Nat \X (1..n) -> Nat]
  <2>1. \A x \in Nat, y \in Nat : x * y \in Nat
    OBVIOUS
  <2> QED BY <2>1
<1>2. \A x \in Nat : \A i \in 1..n : step[x, i] = x * v[i]
  OBVIOUS
<1> HIDE DEF step
<1>3. PICK f \in [SUBSET (1..n) -> Nat] : Folds(n, 1, step, f)
  BY <1>1, FoldExists
<1> DEFINE e == [m \in 0..n |-> f[1..m]]
<1>4. \A m \in 0..n : 1..m \in SUBSET (1..n)
  OBVIOUS
<1>5. e \in [0..n -> Nat]
  BY <1>4
<1>6. e[0] = 1
  <2>1. 1..0 = {} /\ {} \in SUBSET (1..n) /\ 0 \in 0..n
    OBVIOUS
  <2> QED BY <1>3, <2>1 DEF Folds
<1>7. ASSUME NEW m \in 1..n PROVE e[m] = e[m - 1] * v[m]
  <2>1. /\ 1..m \in SUBSET (1..n) /\ 1..m # {}
        /\ Max(1..m) = m /\ (1..m) \ {m} = 1..(m - 1)
    BY FirstOnes
  <2>2. f[1..m] = step[f[1..(m - 1)], m]
    BY <1>3, <2>1 DEF Folds
  <2>3. m \in 0..n /\ m - 1 \in 0..n
    OBVIOUS
  <2>4. f[1..(m - 1)] \in Nat
    BY <1>4, <2>3
  <2> QED BY <1>2, <2>2, <2>3, <2>4
<1> HIDE DEF e
<1> QED BY <1>5, <1>6, <1>7 DEF Multiplies

Complements(os, D) == [i \in 1..Len(os) |-> IF i \in D THEN 100 - os[i].rate ELSE 100]
Kept(os, D) == (CHOOSE f : Multiplies(Len(os), Complements(os, D), f))[Len(os)]

LEMMA KeptIs ==
    ASSUME NEW os \in Seq(Offer), NEW n \in Nat, n = Len(os), NEW D
    PROVE  /\ \A i \in 1..n : os[i].rate \in 0..100
           /\ \A i \in 1..n : /\ Complements(os, D)[i] \in 0..100
                              /\ Complements(os, D)[i] = IF i \in D THEN 100 - os[i].rate ELSE 100
           /\ \E f : Multiplies(n, Complements(os, D), f) /\ Kept(os, D) = f[n]
<1>1. \A i \in 1..n : os[i] \in Offer
  OBVIOUS
<1>2. \A i \in 1..n : os[i].rate \in 0..100
  BY <1>1, RateAssumption DEF Offer
<1>3. \A i \in 1..n : /\ Complements(os, D)[i] \in 0..100
                      /\ Complements(os, D)[i] = IF i \in D THEN 100 - os[i].rate ELSE 100
  <2>1. \A i \in 1..n : Complements(os, D)[i] = IF i \in D THEN 100 - os[i].rate ELSE 100
    BY DEF Complements
  <2>2. \A x \in 0..100 : 100 - x \in 0..100 /\ 100 \in 0..100
    OBVIOUS
  <2> SUFFICES ASSUME NEW i \in 1..n
               PROVE  /\ Complements(os, D)[i] \in 0..100
                      /\ Complements(os, D)[i] = IF i \in D THEN 100 - os[i].rate ELSE 100
    OBVIOUS
  <2>3. os[i].rate \in 0..100 /\ Complements(os, D)[i] = IF i \in D THEN 100 - os[i].rate ELSE 100
    BY <1>2, <2>1
  <2> HIDE DEF Complements
  <2> QED BY <2>2, <2>3
<1>4. Complements(os, D) \in [1..n -> Nat]
  <2>1. Complements(os, D) = [i \in 1..n |-> Complements(os, D)[i]]
    BY DEF Complements
  <2>2. \A x \in 0..100 : x \in Nat
    OBVIOUS
  <2> HIDE DEF Complements
  <2> QED BY <1>3, <2>1, <2>2
<1>5. Multiplies(n, Complements(os, D), CHOOSE f : Multiplies(n, Complements(os, D), f))
  BY <1>4, ProductExists
<1> QED BY <1>2, <1>3, <1>5 DEF Kept

LEMMA KeptTyped ==
    ASSUME NEW os \in Seq(Offer), NEW D
    PROVE  Kept(os, D) \in Nat
<1> DEFINE n == Len(os)
<1>1. n \in Nat
  OBVIOUS
<1>2. PICK f : Multiplies(n, Complements(os, D), f) /\ Kept(os, D) = f[n]
  BY <1>1, KeptIs
<1>3. n \in 0..n
  BY <1>1
<1> QED BY <1>2, <1>3 DEF Multiplies

LEMMA KeptNone ==
    ASSUME NEW os \in Seq(Offer)
    PROVE  Kept(os, {}) \in Nat \ {0}
<1> DEFINE n == Len(os)
<1>1. n \in Nat
  OBVIOUS
<1>2. PICK f : Multiplies(n, Complements(os, {}), f) /\ Kept(os, {}) = f[n]
  BY <1>1, KeptIs
<1>3. \A i \in 1..n : Complements(os, {})[i] = 100
  BY <1>1, KeptIs
<1> HIDE DEF n
<1> DEFINE Have == {m \in Nat : f[m] \in Nat \ {0}}
<1>4. 0 \in Have
  BY <1>2 DEF Multiplies
<1>5. ASSUME NEW m \in 0..n, m \in Have, m < n PROVE m + 1 \in Have
  <2>1. m + 1 \in 1..n /\ m + 1 \in Nat /\ (m + 1) - 1 = m
    BY <1>1, <1>5
  <2>2. f[m + 1] = f[m] * 100
    BY <1>2, <1>3, <2>1 DEF Multiplies
  <2> QED BY <1>5, <2>1, <2>2
<1>6. \A m \in 0..n : m \in Have
  <2> HIDE DEF Have
  <2> QED BY <1>1, <1>4, <1>5, UpTo
<1> QED BY <1>1, <1>2, <1>6

\* The product is smaller the more complements are in it.
LEMMA KeptFalls ==
    ASSUME NEW os \in Seq(Offer), NEW D, NEW E, D \subseteq E
    PROVE  Kept(os, E) <= Kept(os, D)
<1> DEFINE n == Len(os)
           v == Complements(os, D)
           w == Complements(os, E)
<1>1. n \in Nat
  OBVIOUS
<1>2. PICK f : Multiplies(n, v, f) /\ Kept(os, D) = f[n]
  BY <1>1, KeptIs
<1>3. PICK g : Multiplies(n, w, g) /\ Kept(os, E) = g[n]
  BY <1>1, KeptIs
<1>4. \A i \in 1..n : v[i] \in 0..100 /\ w[i] \in 0..100 /\ w[i] <= v[i]
  <2>1. \A i \in 1..n : os[i].rate \in 0..100
    BY <1>1, KeptIs
  <2>2. \A i \in 1..n : v[i] \in 0..100 /\ v[i] = IF i \in D THEN 100 - os[i].rate ELSE 100
    BY <1>1, KeptIs
  <2>3. \A i \in 1..n : w[i] \in 0..100 /\ w[i] = IF i \in E THEN 100 - os[i].rate ELSE 100
    BY <1>1, KeptIs
  <2> HIDE DEF n, v, w
  <2> SUFFICES ASSUME NEW i \in 1..n PROVE v[i] \in 0..100 /\ w[i] \in 0..100 /\ w[i] <= v[i]
    OBVIOUS
  <2> DEFINE x == os[i].rate
  <2>4. x \in 0..100 /\ v[i] = (IF i \in D THEN 100 - x ELSE 100) /\ w[i] = (IF i \in E THEN 100 - x ELSE 100)
    BY <2>1, <2>2, <2>3
  <2> HIDE DEF x
  <2> QED BY <2>4
<1> HIDE DEF n, v, w
<1> DEFINE Have == {m \in Nat : f[m] \in Nat /\ g[m] \in Nat /\ g[m] <= f[m]}
<1>5. 0 \in Have
  BY <1>2, <1>3 DEF Multiplies
<1>6. ASSUME NEW m \in 0..n, m \in Have, m < n PROVE m + 1 \in Have
  <2>1. m + 1 \in 1..n /\ m + 1 \in Nat /\ (m + 1) - 1 = m
    BY <1>1, <1>6
  <2> DEFINE x == f[m]
             y == g[m]
             a == v[m + 1]
             b == w[m + 1]
  <2>2. f[m + 1] = x * a /\ g[m + 1] = y * b
    BY <1>2, <1>3, <2>1 DEF Multiplies
  <2>3. x \in Nat /\ y \in Nat /\ y <= x /\ a \in Nat /\ b \in Nat /\ b <= a
    <3>1. a \in 0..100 /\ b \in 0..100 /\ b <= a
      BY <1>4, <2>1
    <3>2. x \in Nat /\ y \in Nat /\ y <= x
      BY <1>6
    <3> HIDE DEF a, b
    <3> QED BY <3>1, <3>2
  <2> HIDE DEF x, y, a, b
  <2>4. y * b <= x * b
    BY <2>3, TimesGrows
  <2>5. x * b <= x * a
    <3>1. b * x <= a * x
      BY <2>3, TimesGrows
    <3>2. b * x = x * b /\ a * x = x * a
      BY <2>3, Commutes
    <3> QED BY <3>1, <3>2
  <2>6. y * b \in Nat /\ x * a \in Nat /\ x * b \in Nat
    BY <2>3
  <2>7. y * b <= x * a
    <3> DEFINE p == y * b
               q == x * b
               r == x * a
    <3>1. p \in Nat /\ q \in Nat /\ r \in Nat /\ p <= q /\ q <= r
      BY <2>4, <2>5, <2>6
    <3> HIDE DEF p, q, r
    <3>2. p <= r
      BY <3>1
    <3> QED BY <3>2 DEF p, r
  <2> QED BY <2>1, <2>2, <2>6, <2>7
<1>7. \A m \in 0..n : m \in Have
  <2> HIDE DEF Have
  <2> QED BY <1>1, <1>5, <1>6, UpTo
<1> QED BY <1>1, <1>2, <1>3, <1>7

\* One discount more takes its share.
LEMMA KeptAdds ==
    ASSUME NEW os \in Seq(Offer), NEW D, NEW i \in 1..Len(os), i \notin D
    PROVE  Kept(os, D \cup {i}) * 100 = Kept(os, D) * (100 - os[i].rate)
<1> DEFINE n == Len(os)
           E == D \cup {i}
           v == Complements(os, D)
           w == Complements(os, E)
           c == 100 - os[i].rate
<1>1. n \in Nat /\ i \in 1..n
  OBVIOUS
<1>2. PICK f : Multiplies(n, v, f) /\ Kept(os, D) = f[n]
  BY <1>1, KeptIs
<1>3. PICK g : Multiplies(n, w, g) /\ Kept(os, E) = g[n]
  BY <1>1, KeptIs
<1>4. /\ c \in 0..100 /\ v[i] = 100 /\ w[i] = c
      /\ \A j \in 1..n : v[j] \in 0..100 /\ w[j] \in 0..100 /\ (j # i => w[j] = v[j])
  <2>1. \A j \in 1..n : os[j].rate \in 0..100
    BY <1>1, KeptIs
  <2>2. \A j \in 1..n : v[j] \in 0..100 /\ v[j] = IF j \in D THEN 100 - os[j].rate ELSE 100
    BY <1>1, KeptIs
  <2>3. \A j \in 1..n : w[j] \in 0..100 /\ w[j] = IF j \in E THEN 100 - os[j].rate ELSE 100
    BY <1>1, KeptIs
  <2> HIDE DEF n, v, w
  <2>4. i \in E /\ \A j : j # i => (j \in E <=> j \in D)
    OBVIOUS
  <2> HIDE DEF E
  <2>5. c \in 0..100 /\ v[i] = 100 /\ w[i] = c
    <3>1. os[i].rate \in 0..100
      BY <1>1, <2>1
    <3> QED BY <1>1, <2>2, <2>3, <2>4, <3>1
  <2>6. \A j \in 1..n : j # i => w[j] = v[j]
    BY <2>2, <2>3, <2>4
  <2> QED BY <2>2, <2>3, <2>5, <2>6
<1> HIDE DEF n, v, w, c, E
<1> DEFINE Have == {m \in Nat : /\ f[m] \in Nat /\ g[m] \in Nat
                                /\ m < i => g[m] = f[m]
                                /\ m >= i => g[m] * 100 = f[m] * c}
<1>5. 0 \in Have
  BY <1>1, <1>2, <1>3 DEF Multiplies
<1>6. ASSUME NEW m \in 0..n, m \in Have, m < n PROVE m + 1 \in Have
  <2>1. m + 1 \in 1..n /\ m + 1 \in 0..n /\ m + 1 \in Nat /\ (m + 1) - 1 = m
    BY <1>1, <1>6
  <2> DEFINE x == f[m]
             y == g[m]
             a == v[m + 1]
             b == w[m + 1]
  <2>2. f[m + 1] = x * a /\ g[m + 1] = y * b /\ f[m + 1] \in Nat /\ g[m + 1] \in Nat
    BY <1>2, <1>3, <2>1 DEF Multiplies
  <2>3. /\ x \in Nat /\ y \in Nat /\ a \in Nat /\ b \in Nat /\ c \in Nat /\ i \in Nat
        /\ m < i => y = x
        /\ m >= i => y * 100 = x * c
    <3>1. a \in 0..100 /\ b \in 0..100 /\ c \in 0..100
      BY <1>4, <2>1
    <3>2. x \in Nat /\ y \in Nat /\ (m < i => y = x) /\ (m >= i => y * 100 = x * c)
      BY <1>6
    <3>3. i \in Nat
      BY <1>1
    <3> HIDE DEF x, y, a, b
    <3> QED BY <3>1, <3>2, <3>3
  <2>4. /\ m + 1 = i => a = 100 /\ b = c
        /\ m + 1 # i => b = a
    BY <1>4, <2>1
  <2> HIDE DEF x, y, a, b
  <2>5. CASE m + 1 < i
    <3>1. m < i /\ m + 1 # i /\ ~ (m + 1 >= i)
      BY <2>1, <2>3, <2>5
    <3> QED BY <2>1, <2>2, <2>3, <2>4, <3>1
  <2>6. CASE m + 1 = i
    <3>1. m < i /\ ~ (m + 1 < i)
      BY <2>1, <2>3, <2>6
    <3>2. (x * c) * 100 = (x * 100) * c
      BY <2>3, Associates
    <3>3. g[m + 1] * 100 = f[m + 1] * c
      BY <2>2, <2>3, <2>4, <2>6, <3>1, <3>2
    <3> QED BY <2>1, <2>2, <3>1, <3>3
  <2>7. CASE m + 1 > i
    <3>1. m >= i /\ m + 1 # i /\ ~ (m + 1 < i)
      BY <1>6, <2>1, <2>3, <2>7
    <3>2. (y * a) * 100 = (y * 100) * a
      BY <2>3, Associates
    <3>3. (x * c) * a = (x * a) * c
      BY <2>3, Associates
    <3>4. g[m + 1] * 100 = f[m + 1] * c
      <4>1. y * 100 = x * c /\ b = a
        BY <2>3, <2>4, <3>1
      <4> QED BY <2>2, <3>2, <3>3, <4>1
    <3> QED BY <2>1, <2>2, <3>1, <3>4
  <2> QED BY <2>1, <2>3, <2>5, <2>6, <2>7
<1>7. \A m \in 0..n : m \in Have
  <2> HIDE DEF Have
  <2> QED BY <1>1, <1>5, <1>6, UpTo
<1>8. n \in Have /\ n >= i
  BY <1>1, <1>7
<1> QED BY <1>2, <1>3, <1>8 DEF n, c, E

\* x of n-ths is what a share q of b is, but for k of them.
Within(b, q, x, k, n) == b * q <= x * n /\ x * n <= b * q + k * n

\* A further discount of r percent, rounded down, keeps within one more.
LEMMA WithinFurther ==
    ASSUME NEW b \in Nat, NEW q \in Nat, NEW p \in Nat, NEW x \in Nat, NEW k \in Nat, NEW n \in Nat \ {0},
           NEW r \in 0..100, Within(b, q, x, k, n), p * 100 = q * (100 - r)
    PROVE  /\ x - Part(x, r) \in Nat
           /\ Within(b, p, x - Part(x, r), k + 1, n)
<1> DEFINE c == 100 - r
           d == x - Part(x, r)
           e == (x * r) % 100
<1>1. c \in 0..100 /\ c \in Nat /\ n \in Nat
  OBVIOUS
<1>2. d \in Nat /\ e \in Nat /\ e <= 100 /\ d * 100 = x * c + e
  <2> DEFINE xr == x * r
             y == Part(x, r)
  <2>1. xr \in Int /\ x * c = 100 * x - xr
    OBVIOUS
  <2>2. y = xr \div 100 /\ y \in Nat /\ y <= x
    BY PartBounds DEF Part
  <2>3. e = xr % 100
    OBVIOUS
  <2> HIDE DEF xr, y, e
  <2>4. xr = 100 * y + e /\ e \in Int /\ 0 <= e /\ e < 100
    BY <2>1, <2>2, <2>3
  <2> HIDE DEF c
  <2>5. x - y \in Nat /\ (x - y) * 100 = 100 * x - 100 * y
    BY <2>2
  <2>6. d = x - y
    BY DEF y
  <2> HIDE DEF d
  <2>7. d \in Nat /\ d * 100 = 100 * x - 100 * y
    BY <2>5, <2>6
  <2>8. e \in Nat /\ e <= 100
    BY <2>4
  <2> DEFINE xc == x * c
  <2>9. xc = 100 * x - xr
    BY <2>1
  <2> HIDE DEF xc
  <2>10. d * 100 = xc + e
    BY <2>1, <2>2, <2>4, <2>7, <2>8, <2>9
  <2> QED BY <2>7, <2>8, <2>10 DEF xc
<1> HIDE DEF c, d, e
<1> DEFINE bq == b * q
           bp == b * p
           xn == x * n
           dn == d * n
           kn == k * n
           en == e * n
<1>3. /\ bq \in Nat /\ bp \in Nat /\ xn \in Nat /\ dn \in Nat /\ kn \in Nat /\ en \in Nat
      /\ (k + 1) * n = kn + n
  BY <1>1, <1>2
<1>4. bq <= xn /\ xn <= bq + kn
  BY DEF Within
<1>5. bp * 100 = bq * c
  <2>1. (b * p) * 100 = b * (p * 100) /\ (b * q) * c = b * (q * c)
    BY <1>1, Associates
  <2> QED BY <2>1 DEF c
<1>6. dn * 100 = xn * c + en
  <2>1. (d * n) * 100 = (d * 100) * n /\ (x * n) * c = (x * c) * n
    BY <1>1, <1>2, Associates
  <2>2. (x * c + e) * n = (x * c) * n + e * n
    <3>1. x * c \in Int
      BY <1>1
    <3> QED BY <1>1, <1>2, <3>1, Distributes
  <2> QED BY <1>2, <2>1, <2>2
<1>7. en <= 100 * n
  <2>1. e * n <= 100 * n
    BY <1>1, <1>2, TimesGrows
  <2> QED BY <2>1
<1>8. bq * c \in Int /\ xn * c \in Int /\ kn * c \in Int /\ bq * c <= xn * c
  BY <1>1, <1>3, <1>4, TimesGrows
<1>9. xn * c <= bq * c + kn * c
  <2>1. bq + kn \in Int
    BY <1>3
  <2>2. xn * c <= (bq + kn) * c
    BY <1>1, <1>3, <1>4, <2>1, TimesGrows
  <2>3. (bq + kn) * c = bq * c + kn * c
    BY <1>1, <1>3, Distributes
  <2> QED BY <2>2, <2>3
<1>10. kn * c <= kn * 100
  BY <1>1, <1>3, ProductBounds
<1> DEFINE bqc == bq * c
           xnc == xn * c
           knc == kn * c
<1>11. /\ bp * 100 = bqc /\ dn * 100 = xnc + en /\ en <= 100 * n
       /\ bqc \in Int /\ xnc \in Int /\ knc \in Int
       /\ bqc <= xnc /\ xnc <= bqc + knc /\ knc <= kn * 100
  BY <1>5, <1>6, <1>7, <1>8, <1>9, <1>10
<1> HIDE DEF bqc, xnc, knc, bq, bp, xn, dn, kn, en
<1>12. bp <= dn /\ dn <= bp + (kn + n)
  BY <1>1, <1>3, <1>11
<1>13. b * p <= d * n /\ d * n <= b * p + (k + 1) * n
  BY <1>3, <1>12 DEF bp, dn
<1>14. Within(b, p, d, k + 1, n)
  BY <1>13 DEF Within
<1> QED BY <1>2, <1>14 DEF d

\* f is what is left of b after each discount of os.
Leaves(n, b, os, f) ==
    /\ f \in [0..n -> Nat] /\ f[0] = b
    /\ \A m \in 1..n : f[m] = f[m - 1] - Part(f[m - 1], os[m].rate)

LEMMA CompoundedIs ==
    ASSUME TypeOK, NEW n \in Nat, n = Len(offers)
    PROVE  \E f : Leaves(n, base, offers, f) /\ Compounded = f[n]
<1> DEFINE less(x, o) == x - Part(x, o.rate)
           Folding(g) == g = [T \in SUBSET DOMAIN offers |->
                  IF T = {} THEN base ELSE less(g[T \ {Max(T)}], offers[Max(T)])]
           h == CHOOSE g : Folding(g)
<1>1. DOMAIN offers = 1..n /\ base \in Nat /\ \A i \in 1..n : offers[i].rate \in 0..100
  <2>1. DOMAIN offers = 1..n /\ base \in Nat
    BY RateAssumption DEF TypeOK
  <2> QED BY <2>1, OfferTyped
<1>2. Compounded = h[DOMAIN offers]
  BY DEF Compounded, FoldLeft, MapThenFoldSet
<1>3. \A T \in SUBSET (1..n) : T # {} => Max(T) \in 1..n
  <2>1. \A T \in SUBSET (1..n) : T # {} => Max(T) \in T
    BY GreatestUpTo
  <2> QED BY <2>1
<1>4. \A x \in Nat : \A i \in 1..n : less(x, offers[i]) \in Nat
  <2> SUFFICES ASSUME NEW x \in Nat, NEW i \in 1..n PROVE less(x, offers[i]) \in Nat
    OBVIOUS
  <2> DEFINE r == offers[i].rate
  <2>1. r \in 0..100
    BY <1>1
  <2> HIDE DEF r
  <2>2. Part(x, r) \in Nat /\ Part(x, r) <= x
    BY <2>1, PartBounds
  <2> QED BY <2>2 DEF r
<1> HIDE DEF less
<1>5. PICK f \in [SUBSET (1..n) -> Nat] :
        \A T \in SUBSET (1..n) : f[T] = IF T = {} THEN base ELSE less(f[T \ {Max(T)}], offers[Max(T)])
  <2> DEFINE step == [p \in Nat \X (1..n) |-> less(p[1], offers[p[2]])]
  <2>1. step \in [Nat \X (1..n) -> Nat]
    BY <1>4
  <2>2. \A x \in Nat : \A i \in 1..n : step[x, i] = less(x, offers[i])
    OBVIOUS
  <2> HIDE DEF step
  <2>3. PICK f \in [SUBSET (1..n) -> Nat] : Folds(n, base, step, f)
    BY <1>1, <2>1, FoldExists
  <2>4. ASSUME NEW T \in SUBSET (1..n)
        PROVE  f[T] = IF T = {} THEN base ELSE less(f[T \ {Max(T)}], offers[Max(T)])
    <3>1. f[T] = IF T = {} THEN base ELSE step[f[T \ {Max(T)}], Max(T)]
      BY <2>3 DEF Folds
    <3>2. f[T \ {Max(T)}] \in Nat
      OBVIOUS
    <3> QED BY <1>3, <2>2, <3>1, <3>2
  <2> QED BY <2>4
<1>6. ASSUME NEW g
      PROVE  Folding(g) <=> g = [T \in SUBSET (1..n) |->
                IF T = {} THEN base ELSE less(g[T \ {Max(T)}], offers[Max(T)])]
  BY <1>1
<1>7. Folding(f)
  <2>1. f = [T \in SUBSET (1..n) |-> IF T = {} THEN base ELSE less(f[T \ {Max(T)}], offers[Max(T)])]
    BY <1>5
  <2> HIDE DEF Folding
  <2> QED BY <1>6, <2>1
<1>8. Folding(h)
  <2> HIDE DEF Folding
  <2> QED BY <1>7
<1>9. h = [T \in SUBSET (1..n) |-> IF T = {} THEN base ELSE less(h[T \ {Max(T)}], offers[Max(T)])]
  <2> HIDE DEF Folding, h
  <2> QED BY <1>6, <1>8
<1> HIDE DEF Folding, h
<1> DEFINE e == [m \in 0..n |-> h[1..m]]
<1>10. e[0] = base
  <2>1. 1..0 = {} /\ {} \in SUBSET (1..n) /\ 0 \in 0..n
    OBVIOUS
  <2>2. h[{}] = base
    BY <1>9, <2>1
  <2> QED BY <2>1, <2>2
<1>11. ASSUME NEW m \in 1..n PROVE e[m] = less(e[m - 1], offers[m])
  <2>1. /\ 1..m \in SUBSET (1..n) /\ 1..m # {}
        /\ Max(1..m) = m /\ (1..m) \ {m} = 1..(m - 1)
    BY FirstOnes
  <2>2. h[1..m] = less(h[(1..m) \ {Max(1..m)}], offers[Max(1..m)])
    BY <1>9, <2>1
  <2>3. m \in 0..n /\ m - 1 \in 0..n
    OBVIOUS
  <2> QED BY <2>1, <2>2, <2>3
<1>12. n \in 0..n /\ Compounded = e[n]
  BY <1>1, <1>2
<1>13. e = [m \in 0..n |-> e[m]]
  OBVIOUS
<1> HIDE DEF e
<1> DEFINE Have == {m \in Nat : e[m] \in Nat}
<1>14. 0 \in Have
  BY <1>1, <1>10
<1>15. ASSUME NEW m \in 0..n, m \in Have, m < n PROVE m + 1 \in Have
  <2>1. m + 1 \in 1..n /\ m + 1 \in Nat /\ (m + 1) - 1 = m
    BY <1>15
  <2>2. e[m + 1] = less(e[m], offers[m + 1])
    BY <1>11, <2>1
  <2> QED BY <1>4, <1>15, <2>1, <2>2
<1>16. \A m \in 0..n : m \in Have
  <2> HIDE DEF Have
  <2> QED BY <1>14, <1>15, UpTo
<1>17. e \in [0..n -> Nat]
  BY <1>13, <1>16
<1> QED BY <1>10, <1>11, <1>12, <1>17 DEF Leaves, less

\* Multiplying the complements leaves the product, but for a unit each.
LEMMA CompoundedWithin ==
    ASSUME TypeOK
    PROVE  /\ Compounded \in Nat
           /\ Within(base, Kept(offers, DOMAIN offers), Compounded, Len(offers), Kept(offers, {}))
<1> DEFINE n == Len(offers)
           top == Kept(offers, {})
<1>1. /\ offers \in Seq(Offer) /\ n \in Nat /\ DOMAIN offers = 1..n /\ base \in Nat
      /\ \A i \in 1..n : offers[i].rate \in 0..100
  <2>1. offers \in Seq(Offer) /\ n \in Nat /\ DOMAIN offers = 1..n /\ base \in Nat
    BY RateAssumption DEF TypeOK
  <2> QED BY <2>1, OfferTyped
<1>2. top \in Nat \ {0}
  BY <1>1, KeptNone
<1>3. PICK f : Leaves(n, base, offers, f) /\ Compounded = f[n]
  BY <1>1, CompoundedIs
<1>4. \A i \in 1..n : \A D : i \notin D =>
        Kept(offers, D \cup {i}) * 100 = Kept(offers, D) * (100 - offers[i].rate)
  BY <1>1, KeptAdds
<1>5. \A D : Kept(offers, D) \in Nat
  BY <1>1, KeptTyped
<1> HIDE DEF n, top
<1> DEFINE Have == {m \in Nat : f[m] \in Nat /\ Within(base, Kept(offers, 1..m), f[m], m, top)}
<1>6. 0 \in Have
  <2>1. 1..0 = {} /\ f[0] = base
    BY <1>3 DEF Leaves
  <2>2. base * top <= base * top /\ base * top <= base * top + 0 * top
    BY <1>1, <1>2
  <2>3. Within(base, top, base, 0, top)
    BY <2>2 DEF Within
  <2> QED BY <1>1, <2>1, <2>3 DEF top
<1>7. ASSUME NEW m \in 0..n, m \in Have, m < n PROVE m + 1 \in Have
  <2>1. m + 1 \in 1..n /\ m + 1 \in Nat /\ (m + 1) - 1 = m /\ m \in Nat /\ m + 1 \notin 1..m
    BY <1>1, <1>7
  <2>2. 1..(m + 1) = 1..m \cup {m + 1}
    <3>1. \A i \in 1..(m + 1) : i \in 1..m \/ i = m + 1
      BY <2>1
    <3>2. \A i \in 1..m : i \in 1..(m + 1)
      BY <2>1
    <3> QED BY <2>1, <3>1, <3>2
  <2> DEFINE x == f[m]
             r == offers[m + 1].rate
             q == Kept(offers, 1..m)
             p == Kept(offers, 1..(m + 1))
  <2>3. x \in Nat /\ Within(base, q, x, m, top) /\ r \in 0..100 /\ q \in Nat /\ p \in Nat
    BY <1>1, <1>5, <1>7, <2>1
  <2>4. p * 100 = q * (100 - r)
    BY <1>4, <2>1, <2>2
  <2>5. f[m + 1] = x - Part(x, r)
    BY <1>3, <2>1 DEF Leaves
  <2> HIDE DEF x, r, q, p
  <2>6. x - Part(x, r) \in Nat /\ Within(base, p, x - Part(x, r), m + 1, top)
    BY <1>1, <1>2, <2>1, <2>3, <2>4, WithinFurther
  <2> QED BY <2>1, <2>5, <2>6 DEF p
<1>8. \A m \in 0..n : m \in Have
  <2> HIDE DEF Have
  <2> QED BY <1>1, <1>6, <1>7, UpTo
<1>9. n \in Have
  BY <1>1, <1>8
<1> QED BY <1>1, <1>3, <1>9 DEF n, top

-----------------------------------------------------------------------------
(* The loop keeps within the product, or has reached the limit. *)

AllStack   == \A i \in DOMAIN offers : offers[i].stackable
PastWithin == Within(base, Kept(offers, DOMAIN offers \ left), remaining,
                     Len(offers) - Cardinality(left), Kept(offers, {}))

\* The limit was reached: what would be left without it is no more than what is.
Reached == /\ total = Limit
           /\ \E r \in Nat : /\ r <= base - Limit
                             /\ base * Kept(offers, DOMAIN offers) <= r * Kept(offers, {})

OrderInv == AllStack => /\ remaining + total = base /\ total <= Limit
                        /\ \/ PastWithin /\ (pc = "ok" => left = {})
                           \/ pc = "ok" /\ Reached

LEMMA OffersCounted ==
    ASSUME TypeOK, NEW T, T \subseteq DOMAIN offers
    PROVE  /\ DOMAIN offers = 1..Len(offers) /\ Len(offers) \in Nat /\ offers \in Seq(Offer)
           /\ base \in Nat
           /\ IsFiniteSet(T) /\ Cardinality(T) \in Nat /\ Len(offers) - Cardinality(T) \in Nat
           /\ T = DOMAIN offers => Cardinality(T) = Len(offers)
<1>1. DOMAIN offers = 1..Len(offers) /\ Len(offers) \in Nat /\ offers \in Seq(Offer) /\ base \in Nat
  BY RateAssumption DEF TypeOK
<1> DEFINE n == Len(offers)
<1> HIDE DEF n
<1>2. n \in Nat /\ T \in SUBSET (1..n)
  BY <1>1 DEF n
<1>3. IsFiniteSet(1..n) /\ Cardinality(1..n) = n
  <2>1. 1 \in Int /\ n \in Int /\ (IF 1 > n THEN 0 ELSE n - 1 + 1) = n
    BY <1>2
  <2> QED BY <2>1, FS_Interval
<1>4. IsFiniteSet(T) /\ Cardinality(T) <= n
  BY <1>2, <1>3, FS_Subset
<1>5. Cardinality(T) \in Nat
  BY <1>4, FS_CardinalityType
<1>6. n - Cardinality(T) \in Nat
  BY <1>2, <1>4, <1>5
<1> QED BY <1>1, <1>3, <1>4, <1>5, <1>6 DEF n

LEMMA OrderInit == Init => OrderInv
<1> SUFFICES ASSUME Init PROVE OrderInv
  OBVIOUS
<1>1. TypeOK
  BY InitKeeps DEF StackingInv
<1>2. left = DOMAIN offers /\ remaining = base /\ total = 0 /\ pc = "called"
  BY DEF Init
<1>3. Limit \in Nat
  BY <1>1, LimitBounds
<1>4. base \in Nat /\ Len(offers) \in Nat /\ Cardinality(left) = Len(offers) /\ offers \in Seq(Offer)
  BY <1>1, <1>2, OffersCounted
<1> DEFINE top == Kept(offers, {})
<1>5. top \in Nat
  BY <1>4, KeptTyped
<1>6. (DOMAIN offers \ left) = {} /\ Len(offers) - Cardinality(left) = 0
  BY <1>2, <1>4
<1> HIDE DEF top
<1>7. Within(base, top, base, 0, top)
  <2>1. base * top <= base * top /\ base * top <= base * top + 0 * top
    BY <1>4, <1>5
  <2> QED BY <2>1 DEF Within
<1>8. PastWithin
  BY <1>2, <1>6, <1>7 DEF PastWithin, top
<1>9. remaining + total = base /\ total <= Limit /\ pc # "ok"
  BY <1>2, <1>3, <1>4
<1> QED BY <1>8, <1>9 DEF OrderInv

LEMMA StacksInOrder ==
    ASSUME StackingInv, StackingInv', OrderInv, NEW i \in DOMAIN offers, Comes(i), Stacks(i)
    PROVE  OrderInv'
<1>1. /\ TypeOK /\ pc = "loops" /\ i \in left /\ left \subseteq DOMAIN offers
      /\ left' = left \ {i} /\ base' = base /\ offers' = offers /\ cap' = cap
  BY DEF StackingInv, TypeOK, Comes
<1>2. AllStack' <=> AllStack
  BY <1>1 DEF AllStack
<1> SUFFICES ASSUME AllStack PROVE OrderInv'
  BY <1>2 DEF OrderInv
<1>3. PastWithin /\ remaining + total = base /\ total <= Limit
  BY <1>1 DEF OrderInv
<1> DEFINE n == Len(offers)
           top == Kept(offers, {})
           D == DOMAIN offers \ left
           E == DOMAIN offers \ (left \ {i})
           q == Kept(offers, D)
           p == Kept(offers, E)
           all == Kept(offers, DOMAIN offers)
           k == n - Cardinality(left)
           r == offers[i].rate
           x == remaining
           u == x - Part(x, r)
           l == Limit
<1>4. /\ n \in Nat /\ offers \in Seq(Offer) /\ i \in 1..n /\ base \in Nat
      /\ IsFiniteSet(left) /\ Cardinality(left) \in Nat /\ k \in Nat
  BY <1>1, OffersCounted
<1>5. n - Cardinality(left') = k + 1
  <2>1. Cardinality(left \ {i}) = Cardinality(left) - 1
    BY <1>1, <1>4, FS_RemoveElement
  <2> QED BY <1>1, <1>4, <2>1
<1>6. top \in Nat \ {0} /\ q \in Nat /\ p \in Nat /\ all \in Nat /\ r \in 0..100
  BY <1>1, <1>4, KeptNone, KeptTyped, OfferTyped
<1>7. p * 100 = q * (100 - r)
  <2>1. E = D \cup {i} /\ i \notin D
    BY <1>1
  <2> HIDE DEF D, E
  <2> QED BY <1>4, <2>1, KeptAdds
<1>8. all <= p
  <2>1. E \subseteq DOMAIN offers
    OBVIOUS
  <2> HIDE DEF E
  <2> QED BY <1>4, <2>1, KeptFalls
<1>9. x \in Nat /\ total \in Nat /\ l \in Nat
  BY <1>1, LimitBounds DEF StackingInv, TypeOK, Covered
<1>10. Within(base, q, x, k, top)
  BY <1>3 DEF PastWithin
<1> DEFINE t == Part(x, r)
<1>11. t \in Nat /\ t <= x
  <2> HIDE DEF x, r
  <2> QED BY <1>6, <1>9, PartBounds
<1>12. u \in Nat /\ Within(base, p, u, k + 1, top)
  <2> HIDE DEF x, r, q, p, k, top
  <2> QED BY <1>4, <1>6, <1>7, <1>9, <1>10, WithinFurther
<1>13. base * all <= u * top
  <2> HIDE DEF all, p, u, top
  <2>1. all * base <= p * base /\ all * base = base * all /\ p * base = base * p
    BY <1>4, <1>6, <1>8, TimesGrows, Commutes
  <2>2. base * p <= u * top
    BY <1>12 DEF Within
  <2>3. base * all \in Int /\ base * p \in Int /\ u * top \in Int
    BY <1>4, <1>6, <1>12
  <2> DEFINE a1 == base * all
             a2 == base * p
             a3 == u * top
  <2>4. a1 <= a2 /\ a2 <= a3 /\ a1 \in Int /\ a2 \in Int /\ a3 \in Int
    BY <2>1, <2>2, <2>3
  <2> HIDE DEF a1, a2, a3
  <2>5. a1 <= a3
    BY <2>4
  <2> QED BY <2>5 DEF a1, a3
<1>14. Discounted(i) = IF total + t > l THEN l - total ELSE t
  BY DEF Discounted
<1>15. /\ total' = total + Discounted(i) /\ remaining' = x - Discounted(i)
       /\ pc' = IF total' >= Limit \/ left' = {} THEN "ok" ELSE "loops"
  BY DEF Stacks
<1>16. Limit' = l /\ Kept(offers, {})' = top /\ Kept(offers, DOMAIN offers)' = all
       /\ Kept(offers, DOMAIN offers \ left)' = p /\ (Len(offers) - Cardinality(left))' = k + 1
       /\ base' = base /\ offers' = offers
  <2>1. Limit' = l
    BY <1>1 DEF Limit
  <2> QED BY <1>1, <1>5, <2>1
<1>17. x + total = base /\ total <= l
  BY <1>3
<1>18. u = x - t /\ u \in Nat
  BY <1>12
<1> HIDE DEF l, x, t, u, top, all, p, q, k, r, D, E
<1>19. /\ total' \in Nat /\ total' <= l /\ remaining' + total' = base
  BY <1>4, <1>9, <1>11, <1>14, <1>15, <1>17
<1>20. CASE total + t > l
  <2>1. total' = l /\ u <= base - l
    BY <1>4, <1>9, <1>11, <1>14, <1>15, <1>17, <1>18, <1>20
  <2>2. pc' = "ok"
    BY <1>9, <1>15, <2>1 DEF l
  <2>3. Reached'
    BY <1>13, <1>16, <1>18, <2>1 DEF Reached
  <2> QED BY <1>16, <1>19, <2>2, <2>3 DEF OrderInv
<1>21. CASE ~ (total + t > l)
  <2>1. remaining' = u
    BY <1>14, <1>15, <1>18, <1>21
  <2>2. PastWithin'
    BY <1>12, <1>16, <2>1 DEF PastWithin
  <2>3. CASE pc' = "ok" /\ left' # {}
    <3>1. total' >= l
      BY <1>15, <2>3 DEF l
    <3>2. total' = l /\ u <= base - l
      BY <1>4, <1>9, <1>18, <1>19, <2>1, <3>1
    <3>3. Reached'
      BY <1>13, <1>16, <1>18, <3>2 DEF Reached
    <3> QED BY <1>16, <1>19, <2>3, <3>3 DEF OrderInv
  <2>4. CASE ~ (pc' = "ok" /\ left' # {})
    BY <1>16, <1>19, <2>2, <2>4 DEF OrderInv
  <2> QED BY <2>3, <2>4
<1> QED BY <1>20, <1>21

LEMMA RestInOrder ==
    ASSUME StackingInv, OrderInv,
           \/ Starts \/ UNCHANGED vars
           \/ \E i \in DOMAIN offers : Comes(i) /\ (Replaces(i) \/ Passes(i))
    PROVE  OrderInv'
<1>1. CASE Starts \/ UNCHANGED vars
  <2>1. /\ base' = base /\ offers' = offers /\ cap' = cap /\ left' = left
        /\ remaining' = remaining /\ total' = total
        /\ \/ pc' = pc
           \/ pc = "called" /\ (pc' = "ok" => offers = <<>>)
    BY <1>1 DEF Starts, vars
  <2>2. Limit' = Limit /\ (PastWithin' <=> PastWithin) /\ (Reached' <=> Reached)
        /\ (AllStack' <=> AllStack)
    BY <2>1 DEF Limit, PastWithin, Reached, AllStack
  <2>3. offers = <<>> => left = {}
    BY DEF StackingInv, TypeOK
  <2> QED BY <2>1, <2>2, <2>3 DEF OrderInv
<1>2. CASE \E i \in DOMAIN offers : Comes(i) /\ (Replaces(i) \/ Passes(i))
  <2>1. PICK i \in DOMAIN offers : ~ offers[i].stackable /\ offers' = offers
    BY <1>2 DEF Comes, Replaces, Passes
  <2>2. ~ AllStack'
    BY <2>1 DEF AllStack
  <2> QED BY <2>2 DEF OrderInv
<1> QED BY <1>1, <1>2

\* Two amounts that are within a share, the one from above, are k apart at most.
LEMMA WithinShare ==
    ASSUME NEW b \in Nat, NEW q \in Nat, NEW x \in Nat, NEW k \in Nat, NEW n \in Nat \ {0},
           Within(b, q, x, k, n), NEW y \in Nat, b * q <= y * n
    PROVE  x <= y + k
<1> DEFINE xn == x * n
           kn == k * n
           yn == y * n
           bq == b * q
<1>1. xn \in Int /\ kn \in Int /\ yn \in Int /\ bq \in Int /\ (y + k) * n = yn + kn
  OBVIOUS
<1>2. xn <= bq + kn /\ bq <= yn
  BY DEF Within
<1> HIDE DEF xn, kn, yn, bq
<1>3. x * n <= (y + k) * n
  BY <1>1, <1>2 DEF xn
<1> QED BY <1>3, CancelsInt

LEMMA OrderMakesNoDifference ==
    ASSUME StackingInv, OrderInv
    PROVE  OrderIsFree
<1> SUFFICES ASSUME pc = "ok", AllStack PROVE OrderIsFree
  BY DEF OrderIsFree, AllStack
<1> DEFINE n == Len(offers)
           top == Kept(offers, {})
           all == Kept(offers, DOMAIN offers)
           c == Compounded
           l == Limit
           due == IF base - c > l THEN l ELSE base - c
<1>1. TypeOK
  BY DEF StackingInv
<1>2. n \in Nat /\ offers \in Seq(Offer) /\ base \in Nat
  <2>1. {} \subseteq DOMAIN offers
    OBVIOUS
  <2> QED BY <1>1, <2>1, OffersCounted
<1>3. top \in Nat \ {0} /\ all \in Nat
  BY <1>2, KeptNone, KeptTyped
<1>4. c \in Nat /\ Within(base, all, c, n, top)
  BY <1>1, CompoundedWithin
<1>5. remaining \in Nat /\ total \in Nat /\ l \in Nat /\ l <= base
  BY <1>1, LimitBounds DEF StackingInv, TypeOK, Covered
<1>6. remaining + total = base /\ total <= l
  BY DEF OrderInv
<1> HIDE DEF n, top, all, c, l
<1>7. CASE PastWithin /\ left = {}
  <2>1. Within(base, all, remaining, n, top)
    <3>1. (DOMAIN offers \ {}) = DOMAIN offers /\ Cardinality({}) = 0 /\ n - 0 = n
      BY <1>2, FS_EmptySet
    <3> QED BY <1>7, <3>1 DEF PastWithin, n, all, top
  <2>2. c <= remaining + n
    <3>1. base * all <= remaining * top
      BY <2>1 DEF Within
    <3> QED BY <1>2, <1>3, <1>4, <1>5, <3>1, WithinShare
  <2>3. remaining <= c + n
    <3>1. base * all <= c * top
      BY <1>4 DEF Within
    <3> QED BY <1>2, <1>3, <1>4, <1>5, <2>1, <3>1, WithinShare
  <2>4. total \in due - n .. due + n
    BY <1>2, <1>4, <1>5, <1>6, <2>2, <2>3
  <2> QED BY <2>4 DEF OrderIsFree, n, c, l
<1>8. CASE Reached
  <2>1. PICK r \in Nat : r <= base - l /\ base * all <= r * top /\ total = l
    BY <1>8 DEF Reached, l, all, top
  <2>2. c <= r + n
    BY <1>2, <1>3, <1>4, <2>1, WithinShare
  <2>3. total \in due - n .. due + n
    BY <1>2, <1>4, <1>5, <1>6, <2>1, <2>2
  <2> QED BY <2>3 DEF OrderIsFree, n, c, l
<1> QED BY <1>7, <1>8 DEF OrderInv

\* The order of the discounts makes no difference but for the rounding
\* (calculate_stacked_discounts).
THEOREM OrderOfDiscountsIsFree == Spec => []OrderIsFree
<1>1. Init => OrderInv
  BY OrderInit
<1>2. StackingInv /\ StackingInv' /\ OrderInv /\ [Next]_vars => OrderInv'
  BY StacksInOrder, RestInOrder DEF Next
<1>3. StackingInv /\ OrderInv => OrderIsFree
  BY OrderMakesNoDifference
<1> QED BY <1>1, <1>2, <1>3, StackingKeeps, PTL DEF Spec

-----------------------------------------------------------------------------
(* The surcharges (Surcharges).  A list is reasoned about by two sums, that *)
(* of all amounts and that of the fees among them.                          *)

Surcharge == [flat: BOOLEAN, amount: Nat]
AmountsOf(list) == [i \in DOMAIN list |-> list[i].amount]
FeesOf(list)    == [i \in DOMAIN list |-> IF list[i].flat THEN list[i].amount ELSE 0]

\* Values one after the other add up to the sum of either.
Joined(n, k, v, w, u) == /\ \A i \in 1..n : u[i] = v[i]
                         /\ \A j \in 1..k : u[n + j] = w[j]
Together(n, k, f, h, g) == g[1..(n + k)] = f[1..n] + h[1..k]

LEMMA SumsJoin ==
    ASSUME NEW n \in Nat, NEW k \in Nat, NEW v \in [1..n -> Int], NEW w \in [1..k -> Int],
           NEW u \in [1..(n + k) -> Int], Joined(n, k, v, w, u),
           NEW f, Grows(n, 0, v, f), NEW h, Grows(k, 0, w, h), NEW g, Grows(n + k, 0, u, g)
    PROVE  Together(n, k, f, h, g)
<1> DEFINE Same == {m \in Nat : f[1..m] = g[1..m]}
<1>1. n \in Same
  <2>1. 0 \in Same
    BY DEF Grows
  <2>2. ASSUME NEW m \in 0..n, m \in Same, m < n PROVE m + 1 \in Same
    <3>1. m + 1 \in 1..n /\ m + 1 \in 1..(n + k) /\ m + 1 \in Nat /\ (m + 1) - 1 = m
      BY <2>2
    <3>2. f[1..(m + 1)] = f[1..m] + v[m + 1] /\ g[1..(m + 1)] = g[1..m] + u[m + 1]
      BY <3>1 DEF Grows
    <3> QED BY <2>2, <3>1, <3>2 DEF Joined
  <2> HIDE DEF Same
  <2>3. \A m \in 0..n : m \in Same
    BY <2>1, <2>2, UpTo
  <2> QED BY <2>3
<1> DEFINE Sum2 == {m \in Nat : g[1..(n + m)] = f[1..n] + h[1..m]}
<1>2. k \in Sum2
  <2>0. f[1..n] \in Int /\ h[1..0] = 0 /\ n + 0 = n
    BY DEF Grows
  <2>1. 0 \in Sum2
    BY <1>1, <2>0
  <2>2. ASSUME NEW m \in 0..k, m \in Sum2, m < k PROVE m + 1 \in Sum2
    <3>1. /\ m + 1 \in 1..k /\ n + (m + 1) \in 1..(n + k) /\ m + 1 \in Nat
          /\ (m + 1) - 1 = m /\ (n + (m + 1)) - 1 = n + m
      BY <2>2
    <3>2. h[1..(m + 1)] = h[1..m] + w[m + 1] /\ g[1..(n + (m + 1))] = g[1..(n + m)] + u[n + (m + 1)]
      BY <3>1 DEF Grows
    <3>3. h[1..m] \in Int /\ w[m + 1] \in Int /\ u[n + (m + 1)] = w[m + 1]
      BY <2>2, <3>1 DEF Grows, Joined
    <3> QED BY <2>0, <2>2, <3>1, <3>2, <3>3
  <2> HIDE DEF Sum2
  <2>3. \A m \in 0..k : m \in Sum2
    BY <2>1, <2>2, UpTo
  <2> QED BY <2>3
<1> QED BY <1>2 DEF Together

-----------------------------------------------------------------------------
LEMMA SameChargeMax == \A T : Charges!Max(T) = Max(T)
BY DEF Charges!Max, Max

LEMMA AmountsTyped ==
    ASSUME NEW s \in Seq(Surcharge), NEW n \in Nat, n = Len(s)
    PROVE  /\ DOMAIN s = 1..n /\ \A i \in 1..n : s[i] \in Surcharge
           /\ AmountsOf(s) \in [1..n -> Nat] /\ \A i \in 1..n : AmountsOf(s)[i] = s[i].amount
           /\ FeesOf(s) \in [1..n -> Nat]
           /\ \A i \in 1..n : FeesOf(s)[i] = IF s[i].flat THEN s[i].amount ELSE 0
<1>1. DOMAIN s = 1..n /\ \A i \in 1..n : s[i] \in Surcharge
  OBVIOUS
<1> QED BY <1>1 DEF Surcharge, AmountsOf, FeesOf

LEMMA SumIs ==
    ASSUME NEW s \in Seq(Surcharge), NEW n \in Nat, n = Len(s)
    PROVE  \E f : Grows(n, 0, AmountsOf(s), f) /\ Charges!Sum(s) = f[1..n]
<1> DEFINE v == AmountsOf(s)
           h == CHOOSE f : f = [T \in SUBSET DOMAIN s |->
                  IF T = {} THEN 0 ELSE f[T \ {Charges!Max(T)}] + s[Charges!Max(T)].amount]
<1>1. DOMAIN s = 1..n /\ v \in [1..n -> Int] /\ \A i \in 1..n : v[i] = s[i].amount
  BY AmountsTyped
<1>2. Charges!Sum(s) = h[DOMAIN s]
  BY DEF Charges!Sum, Charges!FoldLeft, Charges!MapThenFoldSet
<1>3. \A T \in SUBSET (1..n) : T # {} => Max(T) \in 1..n
  <2>1. \A T \in SUBSET (1..n) : T # {} => Max(T) \in T
    BY GreatestUpTo
  <2> QED BY <2>1
<1> HIDE DEF v
<1>4. ASSUME NEW f
      PROVE  [T \in SUBSET DOMAIN s |->
                IF T = {} THEN 0 ELSE f[T \ {Charges!Max(T)}] + s[Charges!Max(T)].amount]
           = [T \in SUBSET (1..n) |-> IF T = {} THEN 0 ELSE f[T \ {Max(T)}] + v[Max(T)]]
  BY <1>1, <1>3, SameChargeMax
<1>5. PICK f : Sums(n, 0, v, f)
  <2>1. 0 \in Int
    OBVIOUS
  <2> QED BY <1>1, <2>1, SumsExist
<1>6. Sums(n, 0, v, h)
  <2>1. f = [T \in SUBSET DOMAIN s |->
               IF T = {} THEN 0 ELSE f[T \ {Charges!Max(T)}] + s[Charges!Max(T)].amount]
    BY <1>4, <1>5 DEF Sums
  <2>2. h = [T \in SUBSET DOMAIN s |->
               IF T = {} THEN 0 ELSE h[T \ {Charges!Max(T)}] + s[Charges!Max(T)].amount]
    BY <2>1
  <2> HIDE DEF h
  <2> QED BY <1>4, <2>2 DEF Sums
<1> HIDE DEF h
<1>7. Grows(n, 0, v, h)
  <2>1. 0 \in Int
    OBVIOUS
  <2> QED BY <1>1, <1>6, <2>1, SumsGrow
<1> QED BY <1>1, <1>2, <1>7 DEF v

LEMMA FlatIs ==
    ASSUME NEW s \in Seq(Surcharge), NEW n \in Nat, n = Len(s)
    PROVE  \E f : Grows(n, 0, FeesOf(s), f) /\ Charges!Flat(s) = f[1..n]
<1> DEFINE v == FeesOf(s)
           fee(i) == IF s[i].flat THEN s[i].amount ELSE 0
           h == CHOOSE f : f = [T \in SUBSET DOMAIN s |->
                  IF T = {} THEN 0 ELSE f[T \ {Charges!Max(T)}] + fee(Charges!Max(T))]
<1>1. DOMAIN s = 1..n /\ v \in [1..n -> Int] /\ \A i \in 1..n : v[i] = fee(i)
  BY AmountsTyped
<1>2. Charges!Flat(s) = h[DOMAIN s]
  BY DEF Charges!Flat, Charges!FoldLeft, Charges!MapThenFoldSet
<1>3. \A T \in SUBSET (1..n) : T # {} => Max(T) \in 1..n
  <2>1. \A T \in SUBSET (1..n) : T # {} => Max(T) \in T
    BY GreatestUpTo
  <2> QED BY <2>1
<1> HIDE DEF v, fee
<1>4. ASSUME NEW f
      PROVE  [T \in SUBSET DOMAIN s |->
                IF T = {} THEN 0 ELSE f[T \ {Charges!Max(T)}] + fee(Charges!Max(T))]
           = [T \in SUBSET (1..n) |-> IF T = {} THEN 0 ELSE f[T \ {Max(T)}] + v[Max(T)]]
  BY <1>1, <1>3, SameChargeMax
<1>5. PICK f : Sums(n, 0, v, f)
  <2>1. 0 \in Int
    OBVIOUS
  <2> QED BY <1>1, <2>1, SumsExist
<1>6. Sums(n, 0, v, h)
  <2>1. f = [T \in SUBSET DOMAIN s |->
               IF T = {} THEN 0 ELSE f[T \ {Charges!Max(T)}] + fee(Charges!Max(T))]
    BY <1>4, <1>5 DEF Sums
  <2>2. h = [T \in SUBSET DOMAIN s |->
               IF T = {} THEN 0 ELSE h[T \ {Charges!Max(T)}] + fee(Charges!Max(T))]
    BY <2>1
  <2> HIDE DEF h
  <2> QED BY <1>4, <2>2 DEF Sums
<1> HIDE DEF h
<1>7. Grows(n, 0, v, h)
  <2>1. 0 \in Int
    OBVIOUS
  <2> QED BY <1>1, <1>6, <2>1, SumsGrow
<1> QED BY <1>1, <1>2, <1>7 DEF v

\* Both sums of a list are naturals, the fees part of the whole.
LEMMA SumsTyped ==
    ASSUME NEW s \in Seq(Surcharge)
    PROVE  /\ Charges!Sum(s) \in Nat /\ Charges!Flat(s) \in Nat
           /\ Charges!Flat(s) <= Charges!Sum(s)
           /\ s = <<>> => Charges!Sum(s) = 0 /\ Charges!Flat(s) = 0
<1> DEFINE n == Len(s)
<1>1. n \in Nat /\ (s = <<>> => n = 0)
  OBVIOUS
<1> HIDE DEF n
<1>2. PICK f : Grows(n, 0, AmountsOf(s), f) /\ Charges!Sum(s) = f[1..n]
  BY <1>1, SumIs DEF n
<1>3. PICK g : Grows(n, 0, FeesOf(s), g) /\ Charges!Flat(s) = g[1..n]
  BY <1>1, FlatIs DEF n
<1> DEFINE Have == {m \in Nat : g[1..m] \in Nat /\ f[1..m] \in Nat /\ g[1..m] <= f[1..m]}
<1>4. 0 \in Have
  BY <1>2, <1>3 DEF Grows
<1>5. ASSUME NEW m \in 0..n, m \in Have, m < n PROVE m + 1 \in Have
  <2>1. m + 1 \in 1..n /\ m + 1 \in Nat /\ (m + 1) - 1 = m
    BY <1>1, <1>5
  <2>2. /\ f[1..(m + 1)] = f[1..m] + AmountsOf(s)[m + 1]
        /\ g[1..(m + 1)] = g[1..m] + FeesOf(s)[m + 1]
    BY <1>2, <1>3, <2>1 DEF Grows
  <2>3. /\ AmountsOf(s)[m + 1] \in Nat /\ FeesOf(s)[m + 1] \in Nat
        /\ FeesOf(s)[m + 1] <= AmountsOf(s)[m + 1]
    <3>1. s[m + 1] \in Surcharge /\ AmountsOf(s)[m + 1] = s[m + 1].amount
          /\ FeesOf(s)[m + 1] = IF s[m + 1].flat THEN s[m + 1].amount ELSE 0
      BY <1>1, <2>1, AmountsTyped DEF n
    <3> QED BY <3>1 DEF Surcharge
  <2> QED BY <1>5, <2>1, <2>2, <2>3
<1>6. \A m \in 0..n : m \in Have
  <2> HIDE DEF Have
  <2> QED BY <1>1, <1>4, <1>5, UpTo
<1>7. n \in Have
  BY <1>1, <1>6
<1> QED BY <1>1, <1>2, <1>3, <1>7 DEF Grows

\* Lists one after the other have the sums of both.
LEMMA SumsConcat ==
    ASSUME NEW s \in Seq(Surcharge), NEW t \in Seq(Surcharge)
    PROVE  /\ s \o t \in Seq(Surcharge)
           /\ Charges!Sum(s \o t) = Charges!Sum(s) + Charges!Sum(t)
           /\ Charges!Flat(s \o t) = Charges!Flat(s) + Charges!Flat(t)
<1> DEFINE n == Len(s)
           k == Len(t)
           u == s \o t
<1>1. /\ n \in Nat /\ k \in Nat /\ n + k \in Nat /\ u \in Seq(Surcharge) /\ n + k = Len(u)
      /\ \A i \in 1..n : u[i] = s[i]
      /\ \A j \in 1..k : u[n + j] = t[j]
  OBVIOUS
<1>2. \A i \in 1..n : i \in 1..(n + k)
  BY <1>1
<1>3. \A j \in 1..k : n + j \in 1..(n + k)
  BY <1>1
<1> HIDE DEF n, k, u
<1>4. /\ AmountsOf(s) \in [1..n -> Int] /\ FeesOf(s) \in [1..n -> Int]
      /\ \A i \in 1..n : /\ AmountsOf(s)[i] = s[i].amount
                         /\ FeesOf(s)[i] = IF s[i].flat THEN s[i].amount ELSE 0
  BY <1>1, AmountsTyped DEF n
<1>5. /\ AmountsOf(t) \in [1..k -> Int] /\ FeesOf(t) \in [1..k -> Int]
      /\ \A i \in 1..k : /\ AmountsOf(t)[i] = t[i].amount
                         /\ FeesOf(t)[i] = IF t[i].flat THEN t[i].amount ELSE 0
  BY <1>1, AmountsTyped DEF k
<1>6. /\ AmountsOf(u) \in [1..(n + k) -> Int] /\ FeesOf(u) \in [1..(n + k) -> Int]
      /\ \A i \in 1..(n + k) : /\ AmountsOf(u)[i] = u[i].amount
                               /\ FeesOf(u)[i] = IF u[i].flat THEN u[i].amount ELSE 0
  BY <1>1, AmountsTyped
<1>7. Joined(n, k, AmountsOf(s), AmountsOf(t), AmountsOf(u))
  BY <1>1, <1>2, <1>3, <1>4, <1>5, <1>6 DEF Joined
<1>8. Joined(n, k, FeesOf(s), FeesOf(t), FeesOf(u))
  <2>1. \A i \in 1..n : FeesOf(u)[i] = FeesOf(s)[i]
    BY <1>1, <1>2, <1>4, <1>6
  <2>2. \A j \in 1..k : FeesOf(u)[n + j] = FeesOf(t)[j]
    BY <1>1, <1>3, <1>5, <1>6
  <2> QED BY <2>1, <2>2 DEF Joined
<1>a. /\ n \in Nat /\ k \in Nat
      /\ AmountsOf(s) \in [1..n -> Int] /\ AmountsOf(t) \in [1..k -> Int]
      /\ AmountsOf(u) \in [1..(n + k) -> Int]
      /\ FeesOf(s) \in [1..n -> Int] /\ FeesOf(t) \in [1..k -> Int]
      /\ FeesOf(u) \in [1..(n + k) -> Int]
  BY <1>1, <1>4, <1>5, <1>6
<1>9. Charges!Sum(u) = Charges!Sum(s) + Charges!Sum(t)
  <2>1. PICK f : Grows(n, 0, AmountsOf(s), f) /\ Charges!Sum(s) = f[1..n]
    BY <1>1, SumIs DEF n
  <2>2. PICK h : Grows(k, 0, AmountsOf(t), h) /\ Charges!Sum(t) = h[1..k]
    BY <1>1, SumIs DEF k
  <2>3. PICK g : Grows(n + k, 0, AmountsOf(u), g) /\ Charges!Sum(u) = g[1..(n + k)]
    BY <1>1, SumIs
  <2>4. Together(n, k, f, h, g)
    BY <1>a, <1>7, <2>1, <2>2, <2>3, SumsJoin, Zenon
  <2> QED BY <2>1, <2>2, <2>3, <2>4 DEF Together
<1>10. Charges!Flat(u) = Charges!Flat(s) + Charges!Flat(t)
  <2>1. PICK f : Grows(n, 0, FeesOf(s), f) /\ Charges!Flat(s) = f[1..n]
    BY <1>1, FlatIs DEF n
  <2>2. PICK h : Grows(k, 0, FeesOf(t), h) /\ Charges!Flat(t) = h[1..k]
    BY <1>1, FlatIs DEF k
  <2>3. PICK g : Grows(n + k, 0, FeesOf(u), g) /\ Charges!Flat(u) = g[1..(n + k)]
    BY <1>1, FlatIs
  <2>4. Together(n, k, f, h, g)
    BY <1>a, <1>8, <2>1, <2>2, <2>3, SumsJoin, Zenon
  <2> QED BY <2>1, <2>2, <2>3, <2>4 DEF Together
<1> QED BY <1>1, <1>9, <1>10 DEF u

LEMMA SumOfOne ==
    ASSUME NEW a \in Surcharge
    PROVE  /\ <<a>> \in Seq(Surcharge) /\ Charges!Sum(<<a>>) = a.amount
           /\ Charges!Flat(<<a>>) = IF a.flat THEN a.amount ELSE 0
<1> DEFINE s == <<a>>
<1>1. s \in Seq(Surcharge) /\ Len(s) = 1 /\ 1 \in Nat /\ s[1] = a
  OBVIOUS
<1> HIDE DEF s
<1>2. /\ AmountsOf(s)[1] = a.amount /\ FeesOf(s)[1] = IF a.flat THEN a.amount ELSE 0
  BY <1>1, AmountsTyped
<1>3. PICK f : Grows(1, 0, AmountsOf(s), f) /\ Charges!Sum(s) = f[1..1]
  BY <1>1, SumIs
<1>4. PICK g : Grows(1, 0, FeesOf(s), g) /\ Charges!Flat(s) = g[1..1]
  BY <1>1, FlatIs
<1>5. f[1..1] = 0 + AmountsOf(s)[1] /\ g[1..1] = 0 + FeesOf(s)[1]
  <2>1. 1 \in 1..1 /\ 1 - 1 = 0
    OBVIOUS
  <2> QED BY <1>3, <1>4, <2>1 DEF Grows
<1>6. a.amount \in Nat
  BY DEF Surcharge
<1> QED BY <1>1, <1>2, <1>3, <1>4, <1>5, <1>6 DEF s

-----------------------------------------------------------------------------
(* Flattened lists. *)

\* e is what the first lists of ss come to.
Chain(n, ss, e) ==
    /\ e \in [0..n -> Seq(Surcharge)]
    /\ e[0] = <<>>
    /\ \A m \in 1..n : e[m] = e[m - 1] \o ss[m]

LEMMA ChainExists ==
    ASSUME NEW n \in Nat, NEW ss \in [1..n -> Seq(Surcharge)]
    PROVE  \E e : Chain(n, ss, e)
<1> DEFINE A == Seq(Surcharge)
           step == [p \in A \X (1..n) |-> p[1] \o ss[p[2]]]
<1>1. step \in [A \X (1..n) -> A]
  BY SumsConcat
<1>2. \A x \in A : \A i \in 1..n : step[x, i] = x \o ss[i]
  OBVIOUS
<1>3. <<>> \in A
  OBVIOUS
<1> HIDE DEF step, A
<1>4. PICK f \in [SUBSET (1..n) -> A] : Folds(n, <<>>, step, f)
  BY <1>1, <1>3, FoldExists
<1> DEFINE e == [m \in 0..n |-> f[1..m]]
<1>5. \A m \in 0..n : 1..m \in SUBSET (1..n)
  OBVIOUS
<1>6. e \in [0..n -> A]
  BY <1>5
<1>7. e[0] = <<>>
  <2>1. 1..0 = {} /\ {} \in SUBSET (1..n) /\ 0 \in 0..n
    OBVIOUS
  <2> QED BY <1>4, <2>1 DEF Folds
<1>8. ASSUME NEW m \in 1..n PROVE e[m] = e[m - 1] \o ss[m]
  <2>1. /\ 1..m \in SUBSET (1..n) /\ 1..m # {}
        /\ Max(1..m) = m /\ (1..m) \ {m} = 1..(m - 1)
    BY FirstOnes
  <2>2. f[1..m] = step[f[1..(m - 1)], m]
    BY <1>4, <2>1 DEF Folds
  <2>3. m \in 0..n /\ m - 1 \in 0..n
    OBVIOUS
  <2>4. f[1..(m - 1)] \in A
    BY <1>5, <2>3
  <2> QED BY <1>2, <2>2, <2>3, <2>4
<1> HIDE DEF e
<1> QED BY <1>6, <1>7, <1>8 DEF Chain, A

LEMMA FlattenIs ==
    ASSUME NEW n \in Nat, NEW ss \in [1..n -> Seq(Surcharge)], NEW e, Chain(n, ss, e)
    PROVE  Charges!FlattenSeq(ss) = e[n]
<1>1. ss \in Seq(Seq(Surcharge)) /\ Len(ss) = n
  OBVIOUS
<1>2. CASE n = 0
  <2>1. Charges!FlattenSeq(ss) = ss
    BY <1>1, <1>2 DEF Charges!FlattenSeq
  <2>2. ss = <<>>
    BY <1>1, <1>2
  <2> QED BY <1>2, <2>1, <2>2 DEF Chain
<1>3. CASE n # 0
  <2> DEFINE h == CHOOSE f : f = [i \in 1..Len(ss) |-> IF i = 1 THEN ss[i] ELSE f[i - 1] \o ss[i]]
  <2>1. Charges!FlattenSeq(ss) = h[Len(ss)]
    BY <1>1, <1>3 DEF Charges!FlattenSeq
  <2> DEFINE w == [i \in 1..n |-> e[i]]
  <2>2. ASSUME NEW i \in 1..n
        PROVE  w[i] = IF i = 1 THEN ss[i] ELSE w[i - 1] \o ss[i]
    <3>1. e[i] = e[i - 1] \o ss[i]
      BY DEF Chain
    <3>2. CASE i = 1
      <4>1. e[1 - 1] = <<>> /\ ss[1] \in Seq(Surcharge)
        BY <3>2 DEF Chain
      <4>2. <<>> \o ss[1] = ss[1]
        BY <4>1
      <4> QED BY <3>1, <3>2, <4>1, <4>2
    <3>3. CASE i # 1
      <4>1. i - 1 \in 1..n
        BY <3>3
      <4> QED BY <3>1, <3>3, <4>1
    <3> QED BY <3>2, <3>3
  <2>3. w = [i \in 1..Len(ss) |-> IF i = 1 THEN ss[i] ELSE w[i - 1] \o ss[i]]
    <3>1. w = [i \in 1..n |-> w[i]]
      OBVIOUS
    <3> HIDE DEF w
    <3> QED BY <1>1, <2>2, <3>1
  <2>4. h = [i \in 1..Len(ss) |-> IF i = 1 THEN ss[i] ELSE h[i - 1] \o ss[i]]
    <3> HIDE DEF w
    <3> QED BY <2>3
  <2> HIDE DEF h
  <2>5. \A i \in 1..n : h[i] = IF i = 1 THEN ss[i] ELSE h[i - 1] \o ss[i]
    BY <1>1, <2>4
  <2> DEFINE Same == {m \in Nat : m = 0 \/ h[m] = e[m]}
  <2>6. 0 \in Same
    OBVIOUS
  <2>7. ASSUME NEW m \in 0..n, m \in Same, m < n PROVE m + 1 \in Same
    <3>1. m + 1 \in 1..n /\ m + 1 \in Nat /\ (m + 1) - 1 = m
      BY <2>7
    <3>2. h[m + 1] = IF m + 1 = 1 THEN ss[m + 1] ELSE h[m] \o ss[m + 1]
      BY <2>5, <3>1
    <3>3. w[m + 1] = e[m + 1]
      BY <3>1
    <3>4. w[m + 1] = IF m + 1 = 1 THEN ss[m + 1] ELSE w[m] \o ss[m + 1]
      BY <2>2, <3>1
    <3>5. m # 0 => w[m] = e[m] /\ h[m] = e[m] /\ m + 1 # 1
      BY <2>7
    <3>6. m = 0 => m + 1 = 1
      BY <2>7
    <3> HIDE DEF w
    <3> QED BY <3>1, <3>2, <3>3, <3>4, <3>5, <3>6
  <2>8. \A m \in 0..n : m \in Same
    <3> HIDE DEF Same
    <3> QED BY <2>6, <2>7, UpTo
  <2>9. h[n] = e[n]
    BY <1>3, <2>8
  <2> QED BY <1>1, <2>1, <2>9
<1> QED BY <1>2, <1>3

\* What is due by one list is no more than by another.
Less(s, t) == Charges!Sum(s) <= Charges!Sum(t) /\ Charges!Flat(s) <= Charges!Flat(t)

LEMMA FlattenLess ==
    ASSUME NEW n \in Nat, NEW ss \in [1..n -> Seq(Surcharge)], NEW ts \in [1..n -> Seq(Surcharge)],
           \A i \in 1..n : Less(ss[i], ts[i])
    PROVE  /\ Charges!FlattenSeq(ss) \in Seq(Surcharge) /\ Charges!FlattenSeq(ts) \in Seq(Surcharge)
           /\ Less(Charges!FlattenSeq(ss), Charges!FlattenSeq(ts))
<1>1. PICK e : Chain(n, ss, e)
  BY ChainExists
<1>2. PICK g : Chain(n, ts, g)
  BY ChainExists
<1>3. Charges!FlattenSeq(ss) = e[n] /\ Charges!FlattenSeq(ts) = g[n]
  BY <1>1, <1>2, FlattenIs
<1>4. \A m \in 0..n : e[m] \in Seq(Surcharge) /\ g[m] \in Seq(Surcharge)
  BY <1>1, <1>2 DEF Chain
<1> DEFINE Have == {m \in Nat : Less(e[m], g[m])}
<1>5. 0 \in Have
  <2>1. e[0] = <<>> /\ g[0] = <<>> /\ <<>> \in Seq(Surcharge)
    BY <1>1, <1>2 DEF Chain
  <2>2. Charges!Sum(<<>>) = 0 /\ Charges!Flat(<<>>) = 0
    BY <2>1, SumsTyped
  <2> QED BY <2>1, <2>2 DEF Less
<1>6. ASSUME NEW m \in 0..n, m \in Have, m < n PROVE m + 1 \in Have
  <2>1. m + 1 \in 1..n /\ m + 1 \in Nat /\ (m + 1) - 1 = m
    BY <1>6
  <2>2. e[m + 1] = e[m] \o ss[m + 1] /\ g[m + 1] = g[m] \o ts[m + 1]
    BY <1>1, <1>2, <2>1 DEF Chain
  <2> DEFINE a == e[m]
             b == g[m]
             c == ss[m + 1]
             d == ts[m + 1]
  <2>3. /\ a \in Seq(Surcharge) /\ b \in Seq(Surcharge) /\ c \in Seq(Surcharge) /\ d \in Seq(Surcharge)
        /\ Less(a, b) /\ Less(c, d)
    BY <1>4, <1>6, <2>1
  <2> HIDE DEF a, b, c, d
  <2>4. /\ Charges!Sum(a \o c) = Charges!Sum(a) + Charges!Sum(c)
        /\ Charges!Flat(a \o c) = Charges!Flat(a) + Charges!Flat(c)
        /\ Charges!Sum(b \o d) = Charges!Sum(b) + Charges!Sum(d)
        /\ Charges!Flat(b \o d) = Charges!Flat(b) + Charges!Flat(d)
    BY <2>3, SumsConcat
  <2>5. /\ Charges!Sum(a) \in Nat /\ Charges!Flat(a) \in Nat
        /\ Charges!Sum(b) \in Nat /\ Charges!Flat(b) \in Nat
        /\ Charges!Sum(c) \in Nat /\ Charges!Flat(c) \in Nat
        /\ Charges!Sum(d) \in Nat /\ Charges!Flat(d) \in Nat
    BY <2>3, SumsTyped
  <2>6. Less(a \o c, b \o d)
    BY <2>3, <2>4, <2>5 DEF Less
  <2> QED BY <2>1, <2>2, <2>6 DEF a, b, c, d
<1>7. \A m \in 0..n : m \in Have
  <2> HIDE DEF Have
  <2> QED BY <1>5, <1>6, UpTo
<1> QED BY <1>3, <1>4, <1>7

-----------------------------------------------------------------------------
(* The surcharges of a driver. *)

Driver == [dui: Nat, violations: Nat, accidents: Nat, age: Nat, licensed: Nat, lapse: Nat]

DueBy(percent) == (premium * percent) \div 100

\* A list of at most one rate.
Rated1(s, percent) ==
    /\ s \in Seq(Surcharge)
    /\ Charges!Sum(s) = DueBy(percent) /\ Charges!Flat(s) = 0

LEMMA ShareGrows ==
    ASSUME NEW p \in Nat, NEW q \in Nat, p <= q, premium \in Nat
    PROVE  DueBy(p) \in Nat /\ DueBy(q) \in Nat /\ DueBy(p) <= DueBy(q) /\ DueBy(0) = 0
<1> DEFINE x == premium * p
           y == premium * q
           d == premium * (q - p)
<1>1. x \in Nat /\ y \in Nat /\ d \in Nat /\ y = x + d
  OBVIOUS
<1>2. DueBy(p) = x \div 100 /\ DueBy(q) = y \div 100 /\ DueBy(0) = 0
  BY DEF DueBy
<1> HIDE DEF x, y, d
<1> QED BY <1>1, <1>2

LEMMA RatedOne ==
    ASSUME NEW percent \in Nat, premium \in Nat, NEW condition \in BOOLEAN
    PROVE  /\ Charges!Rate(percent) \in Surcharge
           /\ Rated1(Charges!OnlyIf(condition, <<Charges!Rate(percent)>>), IF condition THEN percent ELSE 0)
<1>1. DueBy(percent) \in Nat /\ DueBy(0) = 0
  <2>1. percent <= percent
    OBVIOUS
  <2> QED BY <2>1, ShareGrows
<1>2. Charges!Rate(percent) = [flat |-> FALSE, amount |-> DueBy(percent)]
  BY DEF Charges!Rate, DueBy
<1>3. Charges!Rate(percent) \in Surcharge /\ ~ Charges!Rate(percent).flat
      /\ Charges!Rate(percent).amount = DueBy(percent)
  BY <1>1, <1>2 DEF Surcharge
<1>4. CASE condition
  <2>1. Charges!OnlyIf(condition, <<Charges!Rate(percent)>>) = <<Charges!Rate(percent)>>
    BY <1>4 DEF Charges!OnlyIf
  <2> QED BY <1>3, <1>4, <2>1, SumOfOne DEF Rated1
<1>5. CASE ~ condition
  <2>1. Charges!OnlyIf(condition, <<Charges!Rate(percent)>>) = <<>> /\ <<>> \in Seq(Surcharge)
    BY <1>5 DEF Charges!OnlyIf
  <2> QED BY <1>1, <1>3, <1>5, <2>1, SumsTyped DEF Rated1
<1> QED BY <1>3, <1>4, <1>5

\* What is rated by more is no less.
LEMMA RatedLess ==
    ASSUME NEW s, NEW t, NEW p \in Nat, NEW q \in Nat, p <= q, premium \in Nat,
           Rated1(s, p), Rated1(t, q)
    PROVE  s \in Seq(Surcharge) /\ t \in Seq(Surcharge) /\ Less(s, t)
<1>1. DueBy(p) <= DueBy(q)
  BY ShareGrows
<1> QED BY <1>1 DEF Rated1, Less

HighRiskPercent(score) == IF score >= 8 THEN 40 ELSE IF score >= 5 THEN 25 ELSE IF score >= 3 THEN 15 ELSE 0

LEMMA HighRiskIs ==
    ASSUME NEW d \in Driver, premium \in Nat
    PROVE  Rated1(Charges!HighRisk(d), HighRiskPercent(2 * d.violations + 3 * d.accidents))
<1> DEFINE score == 2 * d.violations + 3 * d.accidents
           percent == IF score >= 8 THEN 40 ELSE IF score >= 5 THEN 25 ELSE 15
           condition == score >= 3
<1>1. score \in Nat
  BY DEF Driver
<1>2. Charges!HighRisk(d) = Charges!OnlyIf(condition, <<Charges!Rate(percent)>>)
  BY DEF Charges!HighRisk
<1> HIDE DEF score
<1>3. percent \in Nat /\ condition \in BOOLEAN
  OBVIOUS
<1>4. HighRiskPercent(score) = IF condition THEN percent ELSE 0
  BY <1>1 DEF HighRiskPercent
<1> HIDE DEF percent, condition
<1>5. Rated1(Charges!HighRisk(d), HighRiskPercent(score))
  BY <1>2, <1>3, <1>4, RatedOne
<1> QED BY <1>5 DEF score

YoungPercent(age) ==
    IF age < YoungUntil[state]
    THEN IF age < 18 THEN 50 ELSE IF age <= 20 THEN 35 ELSE IF age <= 22 THEN 20 ELSE 10
    ELSE 0

LEMMA YoungIs ==
    ASSUME NEW d \in Driver, premium \in Nat, YoungUntil[state] \in Nat
    PROVE  Rated1(Charges!Young(d), YoungPercent(d.age))
<1> DEFINE A == d.age < 18
           B == d.age \in 18..20
           C == d.age \in 21..22
           percent == CASE A -> 50 [] B -> 35 [] C -> 20 [] OTHER -> 10
           condition == d.age < YoungUntil[state]
<1>1. d.age \in Nat
  BY DEF Driver
<1>2. Charges!Young(d) = Charges!OnlyIf(condition, <<Charges!Rate(percent)>>)
  BY DEF Charges!Young
<1>3. ~ (A /\ B) /\ ~ (A /\ C) /\ ~ (B /\ C)
  BY <1>1
<1>4. condition \in BOOLEAN
  OBVIOUS
<1>5. YoungPercent(d.age) = IF condition THEN IF A THEN 50 ELSE IF B THEN 35 ELSE IF C THEN 20 ELSE 10 ELSE 0
  BY <1>1 DEF YoungPercent
<1> HIDE DEF A, B, C
<1>6. percent = IF A THEN 50 ELSE IF B THEN 35 ELSE IF C THEN 20 ELSE 10
  BY <1>3, Zenon
<1> HIDE DEF percent, condition
<1>7. percent \in Nat
  BY <1>6
<1>8. YoungPercent(d.age) = IF condition THEN percent ELSE 0
  BY <1>5, <1>6
<1> QED BY <1>2, <1>4, <1>7, <1>8, RatedOne

NewPercent(licensed) ==
    IF licensed < 3 THEN IF licensed = 0 THEN 30 ELSE IF licensed = 1 THEN 20 ELSE 10 ELSE 0

LEMMA InexperiencedIs ==
    ASSUME NEW d \in Driver, premium \in Nat
    PROVE  Rated1(Charges!Inexperienced(d), NewPercent(d.licensed))
<1> DEFINE A == d.licensed = 0
           B == d.licensed = 1
           percent == CASE A -> 30 [] B -> 20 [] OTHER -> 10
           condition == d.licensed < 3
<1>1. d.licensed \in Nat
  BY DEF Driver
<1>2. Charges!Inexperienced(d) = Charges!OnlyIf(condition, <<Charges!Rate(percent)>>)
  BY DEF Charges!Inexperienced
<1>3. ~ (A /\ B)
  BY <1>1
<1>4. condition \in BOOLEAN
  OBVIOUS
<1>5. NewPercent(d.licensed) = IF condition THEN IF A THEN 30 ELSE IF B THEN 20 ELSE 10 ELSE 0
  BY <1>1 DEF NewPercent
<1> HIDE DEF A, B
<1>6. percent = IF A THEN 30 ELSE IF B THEN 20 ELSE 10
  BY <1>3, Zenon
<1> HIDE DEF percent, condition
<1>7. percent \in Nat
  BY <1>6
<1>8. NewPercent(d.licensed) = IF condition THEN percent ELSE 0
  BY <1>5, <1>6
<1> QED BY <1>2, <1>4, <1>7, <1>8, RatedOne

LapsePercent(days) ==
    IF days > 90 THEN 25 ELSE IF days > 30 THEN 15 ELSE IF days > 7 THEN 10 ELSE IF days > 0 THEN 5 ELSE 0

LEMMA LapseIs ==
    ASSUME NEW ds, Charges!Longest(ds) \in Nat, premium \in Nat
    PROVE  Rated1(Charges!Lapse(ds), LapsePercent(Charges!Longest(ds)))
<1> DEFINE days == Charges!Longest(ds)
           A == days > 90
           B == days \in 31..90
           C == days \in 8..30
           percent == CASE A -> 25 [] B -> 15 [] C -> 10 [] OTHER -> 5
           condition == days > 0
<1>1. Charges!Lapse(ds) = Charges!OnlyIf(condition, <<Charges!Rate(percent)>>)
  BY DEF Charges!Lapse
<1> HIDE DEF days
<1>2. ~ (A /\ B) /\ ~ (A /\ C) /\ ~ (B /\ C)
  BY DEF days
<1>3. condition \in BOOLEAN
  OBVIOUS
<1>4. LapsePercent(days) = IF condition THEN IF A THEN 25 ELSE IF B THEN 15 ELSE IF C THEN 10 ELSE 5 ELSE 0
  BY DEF LapsePercent, days
<1> HIDE DEF A, B, C
<1>5. percent = IF A THEN 25 ELSE IF B THEN 15 ELSE IF C THEN 10 ELSE 5
  BY <1>2, Zenon
<1> HIDE DEF percent, condition
<1>6. percent \in Nat
  BY <1>5
<1>7. LapsePercent(days) = IF condition THEN percent ELSE 0
  BY <1>4, <1>5
<1>8. Rated1(Charges!Lapse(ds), LapsePercent(days))
  BY <1>1, <1>3, <1>6, <1>7, RatedOne
<1> QED BY <1>8 DEF days

\* A conviction and its fee.
DuiPercent(n) == IF n = 0 THEN 0 ELSE IF n = 1 THEN 50 ELSE IF n = 2 THEN 75 ELSE 100
DuiFee(n) == IF n = 0 THEN 0 ELSE Fee

LEMMA DuiIs ==
    ASSUME NEW d \in Driver, premium \in Nat, Fee \in Nat
    PROVE  /\ Charges!Dui(d) \in Seq(Surcharge)
           /\ Charges!Sum(Charges!Dui(d)) = DueBy(DuiPercent(d.dui)) + DuiFee(d.dui)
           /\ Charges!Flat(Charges!Dui(d)) = DuiFee(d.dui)
           /\ DueBy(DuiPercent(d.dui)) \in Nat
<1> DEFINE A == d.dui = 1
           B == d.dui = 2
           percent == CASE A -> 50 [] B -> 75 [] OTHER -> 100
           fee == [flat |-> TRUE, amount |-> Fee]
<1>1. d.dui \in Nat
  BY DEF Driver
<1>2. Charges!Dui(d) = IF d.dui > 0 THEN <<Charges!Rate(percent), fee>> ELSE <<>>
  BY DEF Charges!Dui, Charges!OnlyIf
<1>3. ~ (A /\ B)
  OBVIOUS
<1>4. DuiPercent(d.dui) = IF d.dui > 0 THEN IF A THEN 50 ELSE IF B THEN 75 ELSE 100 ELSE 0
  BY <1>1 DEF DuiPercent
<1>5. DuiFee(d.dui) = IF d.dui > 0 THEN Fee ELSE 0
  BY <1>1 DEF DuiFee
<1> HIDE DEF A, B
<1>6. percent = IF A THEN 50 ELSE IF B THEN 75 ELSE 100
  BY <1>3, Zenon
<1> HIDE DEF percent
<1>7. percent \in Nat /\ 0 \in Nat /\ 0 <= percent
  BY <1>6
<1>8. DueBy(percent) \in Nat /\ DueBy(0) \in Nat /\ DueBy(0) = 0
  BY <1>7, ShareGrows
<1>9. Charges!Rate(percent) = [flat |-> FALSE, amount |-> DueBy(percent)]
  BY DEF Charges!Rate, DueBy
<1>10. fee \in Surcharge /\ Charges!Rate(percent) \in Surcharge
  BY <1>8, <1>9 DEF Surcharge
<1>11. CASE d.dui > 0
  <2> DEFINE a == Charges!Rate(percent)
  <2>1. <<a, fee>> = <<a>> \o <<fee>>
    <3>1. a \in Surcharge /\ fee \in Surcharge
      BY <1>10
    <3> HIDE DEF a, fee
    <3> QED BY <3>1
  <2>2. /\ <<a>> \in Seq(Surcharge) /\ Charges!Sum(<<a>>) = DueBy(percent) /\ Charges!Flat(<<a>>) = 0
    <3>1. a \in Surcharge /\ a.amount = DueBy(percent) /\ a.flat = FALSE
      BY <1>9, <1>10
    <3> HIDE DEF a
    <3> QED BY <3>1, SumOfOne
  <2>3. /\ <<fee>> \in Seq(Surcharge) /\ Charges!Sum(<<fee>>) = Fee /\ Charges!Flat(<<fee>>) = Fee
    BY <1>10, SumOfOne
  <2>4. /\ <<a>> \o <<fee>> \in Seq(Surcharge)
        /\ Charges!Sum(<<a>> \o <<fee>>) = Charges!Sum(<<a>>) + Charges!Sum(<<fee>>)
        /\ Charges!Flat(<<a>> \o <<fee>>) = Charges!Flat(<<a>>) + Charges!Flat(<<fee>>)
    BY <2>2, <2>3, SumsConcat
  <2>5. DuiPercent(d.dui) = percent /\ DuiFee(d.dui) = Fee /\ Charges!Dui(d) = <<a>> \o <<fee>>
    BY <1>2, <1>4, <1>5, <1>6, <1>11, <2>1
  <2> HIDE DEF a, fee
  <2> QED BY <1>8, <2>2, <2>3, <2>4, <2>5
<1>12. CASE ~ (d.dui > 0)
  <2>1. DuiPercent(d.dui) = 0 /\ DuiFee(d.dui) = 0 /\ Charges!Dui(d) = <<>> /\ <<>> \in Seq(Surcharge)
    BY <1>2, <1>4, <1>5, <1>12
  <2>2. Charges!Sum(<<>>) = 0 /\ Charges!Flat(<<>>) = 0
    BY <2>1, SumsTyped
  <2> QED BY <1>8, <2>1, <2>2
<1> QED BY <1>11, <1>12

-----------------------------------------------------------------------------
(* All the surcharges of a policy. *)

LEMMA LongestIs ==
    ASSUME NEW n \in Nat, NEW ds \in [1..n -> Driver]
    PROVE  /\ Charges!Longest(ds) \in Nat
           /\ \A i \in 1..n : ds[i].lapse <= Charges!Longest(ds)
           /\ \/ Charges!Longest(ds) = 0
              \/ \E i \in 1..n : Charges!Longest(ds) = ds[i].lapse
<1> DEFINE lapse == [i \in 1..n |-> ds[i].lapse]
           Top(m, x) == /\ x = 0 \/ \E i \in 1..m : x = lapse[i]
                        /\ \A i \in 1..m : lapse[i] <= x
           Have == {m \in Nat : \E x \in Nat : Top(m, x)}
<1>1. lapse \in [1..n -> Nat]
  BY DEF Driver
<1>2. Charges!Longest(ds) = Max({0} \cup {lapse[i] : i \in 1..n})
  <2>1. DOMAIN ds = 1..n /\ \A i \in 1..n : ds[i].lapse = lapse[i]
    OBVIOUS
  <2> HIDE DEF lapse
  <2> QED BY <2>1, SameChargeMax DEF Charges!Longest
<1>3. \A i \in 1..n : ds[i].lapse = lapse[i]
  OBVIOUS
<1> HIDE DEF lapse
<1>4. 0 \in Have
  <2>1. Top(0, 0)
    OBVIOUS
  <2> QED BY <2>1
<1>5. ASSUME NEW m \in 0..n, m \in Have, m < n PROVE m + 1 \in Have
  <2>1. m + 1 \in 1..n /\ m + 1 \in Nat /\ \A i \in 1..(m + 1) : i \in 1..m \/ i = m + 1
    BY <1>5
  <2>2. PICK x \in Nat : Top(m, x)
    BY <1>5
  <2>3. lapse[m + 1] \in Nat /\ \A i \in 1..m : lapse[i] \in Nat /\ i \in 1..(m + 1)
    BY <1>1, <1>5, <2>1
  <2>4. CASE lapse[m + 1] <= x
    <3>1. Top(m + 1, x)
      BY <2>1, <2>2, <2>3, <2>4
    <3> QED BY <2>1, <3>1
  <2>5. CASE ~ (lapse[m + 1] <= x)
    <3>1. \A i \in 1..m : lapse[i] <= lapse[m + 1]
      BY <2>2, <2>3, <2>5
    <3>2. m + 1 \in 1..(m + 1)
      BY <2>1
    <3>3. \A i \in 1..(m + 1) : lapse[i] <= lapse[m + 1]
      BY <2>1, <2>3, <3>1
    <3>4. Top(m + 1, lapse[m + 1])
      BY <3>2, <3>3
    <3> HIDE DEF Top
    <3> QED BY <2>1, <2>3, <3>4
  <2> QED BY <2>4, <2>5
<1>6. n \in Have
  <2> HIDE DEF Have
  <2>1. \A m \in 0..n : m \in Have
    BY <1>4, <1>5, UpTo
  <2> QED BY <2>1
<1>7. PICK x \in Nat : Top(n, x)
  BY <1>6
<1> DEFINE S == {0} \cup {lapse[i] : i \in 1..n}
<1>8. x \in S /\ \A y \in S : y \in Nat /\ x >= y
  BY <1>1, <1>7
<1> HIDE DEF S
<1>9. Max(S) \in S /\ \A y \in S : Max(S) >= y
  BY <1>8 DEF Max
<1>10. Max(S) \in Nat /\ Max(S) >= x /\ x >= Max(S)
  BY <1>8, <1>9
<1>11. Max(S) = x
  BY <1>10
<1>12. Charges!Longest(ds) = x
  BY <1>2, <1>11 DEF S
<1> QED BY <1>3, <1>7, <1>12

\* Whoever is no better has no less to pay: driver by driver, and together.
LEMMA WorseDriver ==
    ASSUME NEW d \in Driver, NEW e \in Driver, Charges!NoBetter(d, e),
           premium \in Nat, Fee \in Nat, YoungUntil[state] \in Nat
    PROVE  /\ Charges!Dui(d) \in Seq(Surcharge) /\ Charges!Dui(e) \in Seq(Surcharge)
           /\ Less(Charges!Dui(e), Charges!Dui(d))
           /\ Charges!HighRisk(d) \in Seq(Surcharge) /\ Charges!HighRisk(e) \in Seq(Surcharge)
           /\ Less(Charges!HighRisk(e), Charges!HighRisk(d))
           /\ Charges!Young(d) \in Seq(Surcharge) /\ Charges!Young(e) \in Seq(Surcharge)
           /\ Less(Charges!Young(e), Charges!Young(d))
           /\ Charges!Inexperienced(d) \in Seq(Surcharge) /\ Charges!Inexperienced(e) \in Seq(Surcharge)
           /\ Less(Charges!Inexperienced(e), Charges!Inexperienced(d))
<1>1. /\ d.dui \in Nat /\ d.violations \in Nat /\ d.accidents \in Nat
      /\ d.age \in Nat /\ d.licensed \in Nat
      /\ e.dui \in Nat /\ e.violations \in Nat /\ e.accidents \in Nat
      /\ e.age \in Nat /\ e.licensed \in Nat
  BY DEF Driver
<1>2. /\ d.dui >= e.dui /\ d.violations >= e.violations /\ d.accidents >= e.accidents
      /\ d.age <= e.age /\ d.licensed <= e.licensed
  BY DEF Charges!NoBetter
<1>3. /\ Charges!Dui(d) \in Seq(Surcharge) /\ Charges!Dui(e) \in Seq(Surcharge)
      /\ Less(Charges!Dui(e), Charges!Dui(d))
  <2>1. /\ DuiPercent(e.dui) \in Nat /\ DuiPercent(d.dui) \in Nat
        /\ DuiPercent(e.dui) <= DuiPercent(d.dui)
        /\ DuiFee(e.dui) \in Nat /\ DuiFee(d.dui) \in Nat /\ DuiFee(e.dui) <= DuiFee(d.dui)
    BY <1>1, <1>2 DEF DuiPercent, DuiFee
  <2>2. DueBy(DuiPercent(e.dui)) <= DueBy(DuiPercent(d.dui))
    BY <2>1, ShareGrows
  <2>3. /\ Charges!Dui(d) \in Seq(Surcharge)
        /\ Charges!Sum(Charges!Dui(d)) = DueBy(DuiPercent(d.dui)) + DuiFee(d.dui)
        /\ Charges!Flat(Charges!Dui(d)) = DuiFee(d.dui)
        /\ DueBy(DuiPercent(d.dui)) \in Nat
    BY DuiIs
  <2>4. /\ Charges!Dui(e) \in Seq(Surcharge)
        /\ Charges!Sum(Charges!Dui(e)) = DueBy(DuiPercent(e.dui)) + DuiFee(e.dui)
        /\ Charges!Flat(Charges!Dui(e)) = DuiFee(e.dui)
        /\ DueBy(DuiPercent(e.dui)) \in Nat
    BY DuiIs
  <2> QED BY <2>1, <2>2, <2>3, <2>4 DEF Less
<1>4. /\ Charges!HighRisk(d) \in Seq(Surcharge) /\ Charges!HighRisk(e) \in Seq(Surcharge)
      /\ Less(Charges!HighRisk(e), Charges!HighRisk(d))
  <2> DEFINE p == HighRiskPercent(2 * e.violations + 3 * e.accidents)
             q == HighRiskPercent(2 * d.violations + 3 * d.accidents)
  <2>1. p \in Nat /\ q \in Nat /\ p <= q
    BY <1>1, <1>2 DEF HighRiskPercent
  <2>2. Rated1(Charges!HighRisk(e), p) /\ Rated1(Charges!HighRisk(d), q)
    BY HighRiskIs
  <2> HIDE DEF p, q
  <2> QED BY <2>1, <2>2, RatedLess
<1>5. /\ Charges!Young(d) \in Seq(Surcharge) /\ Charges!Young(e) \in Seq(Surcharge)
      /\ Less(Charges!Young(e), Charges!Young(d))
  <2> DEFINE p == YoungPercent(e.age)
             q == YoungPercent(d.age)
  <2>1. p \in Nat /\ q \in Nat /\ p <= q
    BY <1>1, <1>2 DEF YoungPercent
  <2>2. Rated1(Charges!Young(e), p) /\ Rated1(Charges!Young(d), q)
    BY YoungIs
  <2> HIDE DEF p, q
  <2> QED BY <2>1, <2>2, RatedLess
<1>6. /\ Charges!Inexperienced(d) \in Seq(Surcharge) /\ Charges!Inexperienced(e) \in Seq(Surcharge)
      /\ Less(Charges!Inexperienced(e), Charges!Inexperienced(d))
  <2> DEFINE p == NewPercent(e.licensed)
             q == NewPercent(d.licensed)
  <2>1. p \in Nat /\ q \in Nat /\ p <= q
    BY <1>1, <1>2 DEF NewPercent
  <2>2. Rated1(Charges!Inexperienced(e), p) /\ Rated1(Charges!Inexperienced(d), q)
    BY InexperiencedIs
  <2> HIDE DEF p, q
  <2> QED BY <2>1, <2>2, RatedLess
<1> QED BY <1>3, <1>4, <1>5, <1>6

LEMMA WorseLapse ==
    ASSUME NEW n \in Nat, NEW ds \in [1..n -> Driver], NEW es \in [1..n -> Driver],
           \A i \in 1..n : ds[i].lapse >= es[i].lapse, premium \in Nat
    PROVE  /\ Charges!Lapse(ds) \in Seq(Surcharge) /\ Charges!Lapse(es) \in Seq(Surcharge)
           /\ Less(Charges!Lapse(es), Charges!Lapse(ds))
<1> DEFINE x == Charges!Longest(es)
           y == Charges!Longest(ds)
<1>1. /\ x \in Nat /\ (x = 0 \/ \E i \in 1..n : x = es[i].lapse)
      /\ y \in Nat /\ \A i \in 1..n : ds[i].lapse <= y
  BY LongestIs
<1>2. \A i \in 1..n : ds[i].lapse \in Nat /\ es[i].lapse \in Nat
  BY DEF Driver
<1>3. Rated1(Charges!Lapse(es), LapsePercent(x)) /\ Rated1(Charges!Lapse(ds), LapsePercent(y))
  BY <1>1, LapseIs
<1> HIDE DEF x, y
<1>4. x <= y
  BY <1>1, <1>2
<1>5. LapsePercent(x) \in Nat /\ LapsePercent(y) \in Nat /\ LapsePercent(x) <= LapsePercent(y)
  BY <1>1, <1>4 DEF LapsePercent
<1> QED BY <1>3, <1>5, RatedLess

LEMMA LessConcat ==
    ASSUME NEW a \in Seq(Surcharge), NEW b \in Seq(Surcharge), Less(a, b),
           NEW c \in Seq(Surcharge), NEW d \in Seq(Surcharge), Less(c, d)
    PROVE  a \o c \in Seq(Surcharge) /\ b \o d \in Seq(Surcharge) /\ Less(a \o c, b \o d)
<1>1. /\ a \o c \in Seq(Surcharge) /\ b \o d \in Seq(Surcharge)
      /\ Charges!Sum(a \o c) = Charges!Sum(a) + Charges!Sum(c)
      /\ Charges!Flat(a \o c) = Charges!Flat(a) + Charges!Flat(c)
      /\ Charges!Sum(b \o d) = Charges!Sum(b) + Charges!Sum(d)
      /\ Charges!Flat(b \o d) = Charges!Flat(b) + Charges!Flat(d)
  BY SumsConcat
<1>2. /\ Charges!Sum(a) \in Nat /\ Charges!Flat(a) \in Nat
      /\ Charges!Sum(b) \in Nat /\ Charges!Flat(b) \in Nat
      /\ Charges!Sum(c) \in Nat /\ Charges!Flat(c) \in Nat
      /\ Charges!Sum(d) \in Nat /\ Charges!Flat(d) \in Nat
  BY SumsTyped
<1> QED BY <1>1, <1>2 DEF Less

LEMMA WorsePolicy ==
    ASSUME NEW n \in Nat, NEW ds \in [1..n -> Driver], NEW es \in [1..n -> Driver],
           \A i \in 1..n : Charges!NoBetter(ds[i], es[i]),
           premium \in Nat, Fee \in Nat, YoungUntil[state] \in Nat
    PROVE  /\ Charges!Uncapped(ds) \in Seq(Surcharge) /\ Charges!Uncapped(es) \in Seq(Surcharge)
           /\ Less(Charges!Uncapped(es), Charges!Uncapped(ds))
<1> DEFINE d1 == [i \in 1..n |-> Charges!Dui(ds[i])]
           d2 == [i \in 1..n |-> Charges!HighRisk(ds[i])]
           d3 == [i \in 1..n |-> Charges!Young(ds[i])]
           d4 == [i \in 1..n |-> Charges!Inexperienced(ds[i])]
           e1 == [i \in 1..n |-> Charges!Dui(es[i])]
           e2 == [i \in 1..n |-> Charges!HighRisk(es[i])]
           e3 == [i \in 1..n |-> Charges!Young(es[i])]
           e4 == [i \in 1..n |-> Charges!Inexperienced(es[i])]
           F(s) == Charges!FlattenSeq(s)
           Fits(s, t) == /\ s \in [1..n -> Seq(Surcharge)] /\ t \in [1..n -> Seq(Surcharge)]
                         /\ \A i \in 1..n : Less(s[i], t[i])
<1>1. Fits(e1, d1) /\ Fits(e2, d2) /\ Fits(e3, d3) /\ Fits(e4, d4)
  <2>1. Fits(e1, d1)
    BY WorseDriver
  <2>2. Fits(e2, d2)
    BY WorseDriver
  <2>3. Fits(e3, d3)
    BY WorseDriver
  <2>4. Fits(e4, d4)
    BY WorseDriver
  <2> QED BY <2>1, <2>2, <2>3, <2>4
<1>2. /\ Charges!Uncapped(ds) = F(d1) \o F(d2) \o F(d3) \o F(d4) \o Charges!Lapse(ds)
      /\ Charges!Uncapped(es) = F(e1) \o F(e2) \o F(e3) \o F(e4) \o Charges!Lapse(es)
  <2>1. DOMAIN ds = 1..n /\ DOMAIN es = 1..n
    OBVIOUS
  <2> QED BY <2>1 DEF Charges!Uncapped
<1> HIDE DEF d1, d2, d3, d4, e1, e2, e3, e4
<1>3. /\ F(e1) \in Seq(Surcharge) /\ F(d1) \in Seq(Surcharge) /\ Less(F(e1), F(d1))
      /\ F(e2) \in Seq(Surcharge) /\ F(d2) \in Seq(Surcharge) /\ Less(F(e2), F(d2))
      /\ F(e3) \in Seq(Surcharge) /\ F(d3) \in Seq(Surcharge) /\ Less(F(e3), F(d3))
      /\ F(e4) \in Seq(Surcharge) /\ F(d4) \in Seq(Surcharge) /\ Less(F(e4), F(d4))
  BY <1>1, FlattenLess
<1>4. /\ Charges!Lapse(ds) \in Seq(Surcharge) /\ Charges!Lapse(es) \in Seq(Surcharge)
      /\ Less(Charges!Lapse(es), Charges!Lapse(ds))
  <2>1. \A i \in 1..n : ds[i].lapse >= es[i].lapse
    BY DEF Charges!NoBetter
  <2> QED BY <2>1, WorseLapse
<1> HIDE DEF F, Fits
<1>5. /\ F(e1) \o F(e2) \in Seq(Surcharge) /\ F(d1) \o F(d2) \in Seq(Surcharge)
      /\ Less(F(e1) \o F(e2), F(d1) \o F(d2))
  BY <1>3, LessConcat
<1>6. /\ F(e1) \o F(e2) \o F(e3) \in Seq(Surcharge) /\ F(d1) \o F(d2) \o F(d3) \in Seq(Surcharge)
      /\ Less(F(e1) \o F(e2) \o F(e3), F(d1) \o F(d2) \o F(d3))
  BY <1>3, <1>5, LessConcat
<1>7. /\ F(e1) \o F(e2) \o F(e3) \o F(e4) \in Seq(Surcharge)
      /\ F(d1) \o F(d2) \o F(d3) \o F(d4) \in Seq(Surcharge)
      /\ Less(F(e1) \o F(e2) \o F(e3) \o F(e4), F(d1) \o F(d2) \o F(d3) \o F(d4))
  BY <1>3, <1>6, LessConcat
<1> DEFINE due == F(d1) \o F(d2) \o F(d3) \o F(d4)
           owed == F(e1) \o F(e2) \o F(e3) \o F(e4)
<1>8. /\ due \in Seq(Surcharge) /\ owed \in Seq(Surcharge) /\ Less(owed, due)
      /\ Charges!Uncapped(ds) = due \o Charges!Lapse(ds)
      /\ Charges!Uncapped(es) = owed \o Charges!Lapse(es)
  BY <1>2, <1>7
<1> HIDE DEF due, owed
<1>9. /\ owed \o Charges!Lapse(es) \in Seq(Surcharge) /\ due \o Charges!Lapse(ds) \in Seq(Surcharge)
      /\ Less(owed \o Charges!Lapse(es), due \o Charges!Lapse(ds))
  BY <1>4, <1>8, LessConcat
<1> QED BY <1>8, <1>9, Zenon

-----------------------------------------------------------------------------
(* The cap on the surcharges. *)

LEMMA ScaledAmount ==
    ASSUME NEW a \in Nat, NEW l \in Nat, NEW b \in Nat \ {0}, l <= b
    PROVE  /\ (a * l) \div b \in Nat /\ (a * l) \div b <= a
           /\ ((a * l) \div b) * b <= a * l
           /\ a * l <= ((a * l) \div b) * b + b
<1> DEFINE p == a * l
           q == p \div b
           r == p % b
           qb == q * b
           ab == a * b
<1>1. p \in Int /\ p >= 0 /\ p <= ab /\ ab \in Int
  BY TimesGrows, Commutes
<1>2. q \in Int /\ r \in Int /\ p = qb + r /\ 0 <= r /\ r < b /\ qb \in Int
  <2>1. p = b * q + r /\ q \in Int /\ r \in Int /\ 0 <= r /\ r < b
    <3> HIDE DEF p
    <3> QED BY <1>1, DivMod
  <2> HIDE DEF p, q, r
  <2>2. b * q = qb /\ qb \in Int
    BY <2>1
  <2> QED BY <2>1, <2>2
<1> HIDE DEF p, r
<1>3. q <= a
  <2>1. qb <= ab
    <3> HIDE DEF qb, ab
    <3> QED BY <1>1, <1>2
  <2> HIDE DEF q
  <2> QED BY <1>2, <2>1, CancelsInt
<1>4. q >= 0
  <2>1. CASE q < 0
    <3>1. q + 1 <= 0 /\ q + 1 \in Int /\ 0 * b = 0 /\ 1 * b = b
      BY <1>2, <2>1
    <3>2. (q + 1) * b <= 0 * b
      <4> HIDE DEF q
      <4> QED BY <1>2, <3>1, TimesGrows
    <3>3. (q + 1) * b = qb + b
      <4> HIDE DEF q
      <4> QED BY <1>2, <3>1, Distributes
    <3> HIDE DEF qb, q
    <3> QED BY <1>1, <1>2, <3>1, <3>2, <3>3
  <2> HIDE DEF q
  <2> QED BY <1>2, <2>1
<1>5. q \in Nat /\ q <= a /\ qb <= p /\ p <= qb + b
  <2> HIDE DEF q, qb
  <2> QED BY <1>1, <1>2, <1>3, <1>4
<1> QED BY <1>5 DEF p

LEMMA ScaledTyped ==
    ASSUME NEW s \in Seq(Surcharge), NEW b \in Nat \ {0}, Charges!Limit \in Nat, Charges!Limit <= b
    PROVE  /\ Charges!Scaled(s, b) \in Seq(Surcharge) /\ Len(Charges!Scaled(s, b)) = Len(s)
           /\ \A i \in 1..Len(s) :
                /\ Charges!Scaled(s, b)[i].flat = s[i].flat
                /\ Charges!Scaled(s, b)[i].amount =
                     IF s[i].flat THEN s[i].amount ELSE (s[i].amount * Charges!Limit) \div b
                /\ Charges!Scaled(s, b)[i].amount <= s[i].amount
<1> DEFINE n == Len(s)
           l == Charges!Limit
           t == Charges!Scaled(s, b)
           one(i) == IF s[i].flat THEN s[i] ELSE [s[i] EXCEPT !.amount = (s[i].amount * l) \div b]
<1>1. n \in Nat /\ DOMAIN s = 1..n /\ \A i \in 1..n : s[i] \in Surcharge
  OBVIOUS
<1> HIDE DEF n, l
<1>2. t = [i \in 1..n |-> one(i)]
  BY <1>1 DEF Charges!Scaled, l
<1>3. ASSUME NEW i \in 1..n
      PROVE  /\ one(i) \in Surcharge /\ one(i).flat = s[i].flat
             /\ one(i).amount = IF s[i].flat THEN s[i].amount ELSE (s[i].amount * l) \div b
             /\ one(i).amount <= s[i].amount
  <2> DEFINE a == s[i].amount
             q == (a * l) \div b
  <2>1. s[i] \in Surcharge /\ a \in Nat
    BY <1>1 DEF Surcharge
  <2>2. q \in Nat /\ q <= a
    <3> HIDE DEF a
    <3> QED BY <2>1, ScaledAmount DEF l
  <2> HIDE DEF q
  <2>3. one(i) = IF s[i].flat THEN s[i] ELSE [s[i] EXCEPT !.amount = q]
    BY DEF q
  <2>4. /\ one(i) \in Surcharge /\ one(i).flat = s[i].flat
        /\ one(i).amount = (IF s[i].flat THEN s[i].amount ELSE q)
        /\ one(i).amount <= s[i].amount
    BY <2>1, <2>2, <2>3 DEF Surcharge
  <2> QED BY <2>4 DEF q
<1> HIDE DEF one, t
<1>4. t \in [1..n -> Surcharge] /\ \A i \in 1..n : t[i] = one(i)
  BY <1>2, <1>3
<1>5. t \in Seq(Surcharge) /\ Len(t) = n
  BY <1>1, <1>4
<1>6. \A i \in 1..n : /\ t[i].flat = s[i].flat
                      /\ t[i].amount = IF s[i].flat THEN s[i].amount ELSE (s[i].amount * l) \div b
                      /\ t[i].amount <= s[i].amount
  BY <1>3, <1>4
<1> QED BY <1>5, <1>6 DEF n, l, t

\* What scaling by l / b comes to, c, for a sum f with fees g of m surcharges.
Shrunk(c, f, g, m, l, b) ==
    c * b <= (f - g) * l + g * b /\ (f - g) * l + g * b <= c * b + m * b

LEMMA ShrunkFurther ==
    ASSUME NEW c \in Nat, NEW f \in Nat, NEW g \in Nat, NEW m \in Nat, NEW l \in Nat, NEW b \in Nat \ {0},
           l <= b, Shrunk(c, f, g, m, l, b), NEW a \in Nat, NEW flat \in BOOLEAN
    PROVE  IF flat THEN Shrunk(c + a, f + a, g + a, m + 1, l, b)
           ELSE Shrunk(c + (a * l) \div b, f + a, g, m + 1, l, b)
<1> DEFINE cb == c * b
           fl == (f - g) * l
           gb == g * b
           mb == m * b
           ab == a * b
           al == a * l
           q  == al \div b
           qb == q * b
<1>1. cb <= fl + gb /\ fl + gb <= cb + mb
  BY DEF Shrunk
<1>2. /\ cb \in Int /\ fl \in Int /\ gb \in Int /\ mb \in Int /\ ab \in Int /\ al \in Int
      /\ (m + 1) * b = mb + b /\ b \in Nat
  OBVIOUS
<1>3. q \in Nat /\ qb <= al /\ al <= qb + b /\ qb \in Int
  <2>1. q \in Nat /\ qb <= al /\ al <= qb + b
    BY ScaledAmount
  <2> HIDE DEF q
  <2> QED BY <2>1
<1>4. CASE flat
  <2>1. (c + a) * b = cb + ab /\ (g + a) * b = gb + ab /\ (f + a) - (g + a) = f - g
    OBVIOUS
  <2>2. ((f + a) - (g + a)) * l = fl
    BY <2>1
  <2> DEFINE x == (c + a) * b
             y == (g + a) * b
             z == ((f + a) - (g + a)) * l
             w == (m + 1) * b
  <2>3. x = cb + ab /\ y = gb + ab /\ z = fl /\ w = mb + b
    BY <1>2, <2>1, <2>2
  <2> HIDE DEF cb, fl, gb, mb, ab, al, x, y, z, w, q, qb
  <2>4. x <= z + y /\ z + y <= x + w
    BY <1>1, <1>2, <2>3
  <2>5. Shrunk(c + a, f + a, g + a, m + 1, l, b)
    BY <2>4 DEF Shrunk, x, y, z, w
  <2> QED BY <1>4, <2>5
<1>5. CASE ~ flat
  <2>1. (c + q) * b = cb + qb
    <3> HIDE DEF q
    <3> QED BY <1>3
  <2>2. ((f + a) - g) * l = fl + al
    <3>1. (f + a) - g = (f - g) + a /\ f - g \in Int
      OBVIOUS
    <3>2. ((f - g) + a) * l = (f - g) * l + a * l
      BY <3>1, Distributes
    <3> QED BY <3>1, <3>2
  <2> DEFINE x == (c + q) * b
             z == ((f + a) - g) * l
             w == (m + 1) * b
  <2>3. x = cb + qb /\ z = fl + al /\ w = mb + b
    BY <1>2, <2>1, <2>2
  <2> HIDE DEF cb, fl, mb, ab, x, z, w, qb
  <2>4. x <= z + gb /\ z + gb <= x + w
    <3> HIDE DEF al, gb, q
    <3> QED BY <1>1, <1>2, <1>3, <2>3
  <2>5. Shrunk(c + q, f + a, g, m + 1, l, b)
    BY <2>4 DEF Shrunk, x, z, w, gb
  <2> QED BY <1>5, <2>5 DEF q, al
<1> QED BY <1>4, <1>5

LEMMA ScaledSums ==
    ASSUME NEW s \in Seq(Surcharge), NEW b \in Nat \ {0}, Charges!Limit \in Nat, Charges!Limit <= b
    PROVE  Shrunk(Charges!Sum(Charges!Scaled(s, b)), Charges!Sum(s), Charges!Flat(s),
                  Len(s), Charges!Limit, b)
<1> DEFINE n == Len(s)
           l == Charges!Limit
           t == Charges!Scaled(s, b)
<1>1. /\ n \in Nat /\ l \in Nat /\ l <= b /\ t \in Seq(Surcharge) /\ Len(t) = n
      /\ \A i \in 1..n :
           t[i].amount = IF s[i].flat THEN s[i].amount ELSE (s[i].amount * l) \div b
  <2>1. /\ t \in Seq(Surcharge) /\ Len(t) = n
        /\ \A i \in 1..n :
             t[i].amount = IF s[i].flat THEN s[i].amount ELSE (s[i].amount * l) \div b
    BY ScaledTyped, Zenon
  <2>2. n \in Nat
    OBVIOUS
  <2> HIDE DEF n, t
  <2> QED BY <2>1, <2>2, Zenon
<1> HIDE DEF n, l, t
<1>2. /\ \A i \in 1..n : s[i] \in Surcharge
      /\ \A i \in 1..n : AmountsOf(s)[i] = s[i].amount
      /\ \A i \in 1..n : FeesOf(s)[i] = IF s[i].flat THEN s[i].amount ELSE 0
  BY <1>1, AmountsTyped DEF n
<1>3. /\ \A i \in 1..n : t[i] \in Surcharge
      /\ \A i \in 1..n : AmountsOf(t)[i] = t[i].amount
  BY <1>1, AmountsTyped
<1>4. PICK f : Grows(n, 0, AmountsOf(s), f) /\ Charges!Sum(s) = f[1..n]
  BY <1>1, SumIs DEF n
<1>5. PICK g : Grows(n, 0, FeesOf(s), g) /\ Charges!Flat(s) = g[1..n]
  BY <1>1, FlatIs DEF n
<1>6. PICK h : Grows(n, 0, AmountsOf(t), h) /\ Charges!Sum(t) = h[1..n]
  BY <1>1, SumIs
<1> DEFINE Have == {m \in Nat : /\ h[1..m] \in Nat /\ f[1..m] \in Nat /\ g[1..m] \in Nat
                                /\ Shrunk(h[1..m], f[1..m], g[1..m], m, l, b)}
<1>7. 0 \in Have
  <2>1. h[1..0] = 0 /\ f[1..0] = 0 /\ g[1..0] = 0
    BY <1>4, <1>5, <1>6 DEF Grows
  <2>2. 0 * b = 0 /\ (0 - 0) * l = 0
    BY <1>1
  <2>3. Shrunk(0, 0, 0, 0, l, b)
    BY <2>2 DEF Shrunk
  <2> QED BY <2>1, <2>3
<1>8. ASSUME NEW m \in 0..n, m \in Have, m < n PROVE m + 1 \in Have
  <2>1. m + 1 \in 1..n /\ m + 1 \in Nat /\ (m + 1) - 1 = m /\ m \in Nat
    BY <1>1, <1>8
  <2>2. /\ f[1..(m + 1)] = f[1..m] + AmountsOf(s)[m + 1]
        /\ g[1..(m + 1)] = g[1..m] + FeesOf(s)[m + 1]
        /\ h[1..(m + 1)] = h[1..m] + AmountsOf(t)[m + 1]
    BY <1>4, <1>5, <1>6, <2>1 DEF Grows
  <2> DEFINE x == h[1..m]
             y == f[1..m]
             z == g[1..m]
             a == s[m + 1].amount
             flat == s[m + 1].flat
             q == (a * l) \div b
  <2>3. /\ x \in Nat /\ y \in Nat /\ z \in Nat /\ Shrunk(x, y, z, m, l, b)
    BY <1>8
  <2>4. a \in Nat /\ flat \in BOOLEAN
    BY <1>2, <2>1 DEF Surcharge
  <2>5. /\ AmountsOf(s)[m + 1] = a
        /\ FeesOf(s)[m + 1] = (IF flat THEN a ELSE 0)
        /\ AmountsOf(t)[m + 1] = IF flat THEN a ELSE q
    BY <1>1, <1>2, <1>3, <2>1
  <2> HIDE DEF x, y, z, a, flat
  <2>6. q \in Nat
    BY <1>1, <2>4, ScaledAmount
  <2>7. IF flat THEN Shrunk(x + a, y + a, z + a, m + 1, l, b)
        ELSE Shrunk(x + q, y + a, z, m + 1, l, b)
    BY <1>1, <2>1, <2>3, <2>4, ShrunkFurther
  <2> HIDE DEF q
  <2>8. /\ f[1..(m + 1)] = y + a
        /\ g[1..(m + 1)] = (IF flat THEN z + a ELSE z)
        /\ h[1..(m + 1)] = (IF flat THEN x + a ELSE x + q)
    BY <2>2, <2>3, <2>4, <2>5 DEF x, y, z
  <2> QED BY <2>1, <2>3, <2>4, <2>6, <2>7, <2>8
<1>9. \A m \in 0..n : m \in Have
  <2> HIDE DEF Have
  <2> QED BY <1>1, <1>7, <1>8, UpTo
<1>10. n \in Have
  BY <1>1, <1>9
<1> QED BY <1>4, <1>5, <1>6, <1>10 DEF n, l, t

-----------------------------------------------------------------------------
\* Such a sum is the limit and the fees at most, and the limit but for a
\* cent of each surcharge at least.
LEMMA ShrunkBounds ==
    ASSUME NEW c \in Nat, NEW f \in Nat, NEW g \in Nat, NEW m \in Nat, NEW l \in Nat,
           f > l, g <= f, Shrunk(c, f, g, m, l, f)
    PROVE  /\ c <= l + g /\ l <= c + m
           /\ g * (f - l) <= ((c + m) - l) * f
           /\ (c - l) * f <= g * (f - l)
<1> DEFINE cf == c * f
           fl == f * l
           gl == g * l
           gf == g * f
           mf == m * f
           lf == l * f
<1>1. /\ cf \in Int /\ fl \in Int /\ gl \in Int /\ gf \in Int /\ mf \in Int
      /\ (f - g) * l = fl - gl /\ lf = fl
      /\ (l + g) * f = fl + gf /\ (c + m) * f = cf + mf
      /\ g * (f - l) = gf - gl
      /\ (c - l) * f = cf - fl
  OBVIOUS
<1>2. ((c + m) - l) * f = cf + mf - fl
  <2>1. ((c + m) - l) * f = (c + m) * f - l * f
    BY Distributes
  <2> HIDE DEF cf, mf, fl
  <2> QED BY <1>1, <2>1 DEF lf
<1>3. cf <= (fl - gl) + gf /\ (fl - gl) + gf <= cf + mf
  BY <1>1 DEF Shrunk
<1>4. gl >= 0 /\ gl <= gf
  <2>1. l * g <= f * g /\ l * g = gl /\ f * g = gf /\ gl >= 0
    <3>1. l \in Int /\ f \in Int /\ l <= f
      OBVIOUS
    <3>2. l * g <= f * g
      BY <3>1, TimesGrows
    <3> QED BY <3>2
  <2> QED BY <2>1
<1> HIDE DEF cf, fl, gl, gf, mf, lf
<1>5. cf <= fl + gf /\ fl <= cf + mf /\ gf - gl <= cf + mf - fl /\ cf - fl <= gf - gl
  BY <1>1, <1>3, <1>4
<1>6. c * f <= (l + g) * f /\ l * f <= (c + m) * f
  BY <1>1, <1>5 DEF cf, lf
<1>7. f \in Nat \ {0}
  OBVIOUS
<1>8. c <= l + g
  BY <1>6, <1>7, CancelsInt
<1>9. l <= c + m
  BY <1>6, <1>7, CancelsInt
<1> QED BY <1>1, <1>2, <1>5, <1>8, <1>9

\* Of two such sums the one of what is less is not above the other.
LEMMA ShrunkLess ==
    ASSUME NEW c \in Nat, NEW f \in Nat, NEW g \in Nat, NEW m \in Nat, NEW l \in Nat,
           f > l, g <= f, Shrunk(c, f, g, m, l, f),
           NEW d \in Nat, NEW e \in Nat, NEW k \in Nat, NEW i \in Nat,
           e > l, k <= e, Shrunk(d, e, k, i, l, e), e <= f, k <= g
    PROVE  d <= c + m
<1>1. g * (f - l) <= ((c + m) - l) * f
  BY ShrunkBounds
<1>2. (d - l) * e <= k * (e - l)
  BY ShrunkBounds
<1> DEFINE x == d - l
           y == (c + m) - l
           p == e - l
           q == f - l
<1>3. /\ x \in Int /\ y \in Int /\ p \in Nat \ {0} /\ q \in Nat \ {0}
      /\ e \in Nat \ {0} /\ f \in Nat \ {0}
  OBVIOUS
<1>4. p * f <= q * e
  <2>1. /\ (e - l) * f = e * f - l * f /\ (f - l) * e = e * f - l * e
        /\ l * e = e * l /\ l * f = f * l
        /\ e * f \in Int /\ l * f \in Int /\ l * e \in Int
    OBVIOUS
  <2>2. e * l <= f * l
    BY TimesGrows
  <2> DEFINE ef == e * f
             lf == l * f
             le == l * e
  <2>3. p * f = ef - lf /\ q * e = ef - le /\ le <= lf /\ ef \in Int /\ lf \in Int /\ le \in Int
    BY <2>1, <2>2
  <2> HIDE DEF ef, lf, le, p, q
  <2> QED BY <2>3
<1> HIDE DEF x, y, p, q
\* All four of these times a factor: x e f <= k p f <= g p f <= g q e <= y f e.
<1>5. x * e <= k * p /\ g * q <= y * f
  BY <1>1, <1>2 DEF x, y, p, q
<1>6. (x * e) * f <= (k * p) * f
  <2>1. x * e \in Int /\ k * p \in Int
    BY <1>3
  <2> QED BY <1>3, <1>5, <2>1, TimesGrows
<1>7. (k * p) * f <= (g * p) * f
  <2>1. k * p <= g * p
    BY <1>3, TimesGrows
  <2>2. k * p \in Int /\ g * p \in Int
    BY <1>3
  <2> QED BY <2>1, <2>2, TimesGrows
<1>8. (g * p) * f <= (g * q) * e
  <2>1. p * f \in Int /\ q * e \in Int
    BY <1>3
  <2>2. (p * f) * g <= (q * e) * g
    BY <1>4, <2>1, TimesGrows
  <2>3. (p * f) * g = (g * p) * f
    <3>1. (p * f) * g = (p * g) * f /\ p * g = g * p
      BY <1>3, Associates, Commutes
    <3> QED BY <3>1
  <2>4. (q * e) * g = (g * q) * e
    <3>1. (q * e) * g = (q * g) * e /\ q * g = g * q
      BY <1>3, Associates, Commutes
    <3> QED BY <3>1
  <2> QED BY <2>2, <2>3, <2>4
<1>9. (g * q) * e <= (y * f) * e
  <2>1. g * q \in Int /\ y * f \in Int
    BY <1>3
  <2> QED BY <1>3, <1>5, <2>1, TimesGrows
<1>10. (y * f) * e = (y * e) * f /\ (y * e) * f \in Int
  BY <1>3, Associates
<1>11. (x * e) * f <= (y * e) * f
  <2>1. /\ (x * e) * f \in Int /\ (k * p) * f \in Int /\ (g * p) * f \in Int
        /\ (g * q) * e \in Int /\ (y * f) * e \in Int
    BY <1>3, Associates
  <2> DEFINE r1 == (x * e) * f
             r2 == (k * p) * f
             r3 == (g * p) * f
             r4 == (g * q) * e
             r5 == (y * f) * e
             r6 == (y * e) * f
  <2>2. /\ r1 \in Int /\ r2 \in Int /\ r3 \in Int /\ r4 \in Int /\ r5 \in Int
        /\ r1 <= r2 /\ r2 <= r3 /\ r3 <= r4 /\ r4 <= r5 /\ r5 = r6
    BY <1>6, <1>7, <1>8, <1>9, <1>10, <2>1
  <2> HIDE DEF r1, r2, r3, r4, r5, r6
  <2>3. r1 <= r6
    BY <2>2
  <2> QED BY <2>3 DEF r1, r6
<1>12. x * e <= y * e
  <2>1. x * e \in Int /\ y * e \in Int
    BY <1>3
  <2> QED BY <1>3, <1>11, <2>1, CancelsInt
<1>13. x <= y
  BY <1>3, <1>12, CancelsInt
<1> QED BY <1>13 DEF x, y

-----------------------------------------------------------------------------
\* What _apply_state_surcharge_caps does to a list.
CapHolds(s, t) ==
    /\ t \in Seq(Surcharge) /\ Len(t) = Len(s)
    /\ Charges!Sum(s) <= Charges!Limit => t = s
    /\ Charges!Sum(t) <= Charges!Limit + Charges!Flat(s)
    /\ Charges!Sum(s) > Charges!Limit => Charges!Sum(t) + Len(s) >= Charges!Limit
    /\ \A i \in 1..Len(s) : t[i].amount <= s[i].amount

LEMMA CappedIs ==
    ASSUME NEW s \in Seq(Surcharge), Charges!Limit \in Nat
    PROVE  CapHolds(s, Charges!Capped(s))
<1> DEFINE f == Charges!Sum(s)
           g == Charges!Flat(s)
           l == Charges!Limit
<1>1. f \in Nat /\ g \in Nat /\ g <= f /\ l \in Nat /\ Len(s) \in Nat
  BY SumsTyped
<1>2. CASE f <= l
  <2>1. Charges!Capped(s) = s
    BY <1>2 DEF Charges!Capped
  <2>2. \A i \in 1..Len(s) : s[i].amount <= s[i].amount
    <3>1. \A i \in 1..Len(s) : s[i] \in Surcharge
      OBVIOUS
    <3>2. \A x \in Surcharge : x.amount <= x.amount
      BY DEF Surcharge
    <3> QED BY <3>1, <3>2
  <2> HIDE DEF f, g, l
  <2>3. f <= l + g /\ ~ (f > l)
    BY <1>1, <1>2
  <2> QED BY <2>1, <2>2, <2>3 DEF CapHolds, f, g, l
<1>3. CASE f > l
  <2> DEFINE t == Charges!Scaled(s, f)
             c == Charges!Sum(t)
  <2>1. Charges!Capped(s) = t
    <3>1. ~ (Charges!Sum(s) <= Charges!Limit)
      BY <1>1, <1>3
    <3> QED BY <3>1 DEF Charges!Capped
  <2>2. f \in Nat \ {0} /\ l <= f
    BY <1>1, <1>3
  <2>3. /\ t \in Seq(Surcharge) /\ Len(t) = Len(s)
        /\ \A i \in 1..Len(s) : t[i].amount <= s[i].amount
    <3> HIDE DEF f
    <3> QED BY <2>2, ScaledTyped
  <2>4. c \in Nat
    <3> HIDE DEF t
    <3> QED BY <2>3, SumsTyped
  <2>5. Shrunk(c, f, g, Len(s), l, f)
    BY <2>2, ScaledSums
  <2> HIDE DEF f, g, l, t, c
  <2>6. c <= l + g /\ l <= c + Len(s)
    BY <1>1, <1>3, <2>4, <2>5, ShrunkBounds
  <2>7. ~ (f <= l) /\ c + Len(s) >= l
    BY <1>1, <1>3, <2>4, <2>6
  <2> QED BY <2>1, <2>3, <2>6, <2>7 DEF CapHolds, f, g, l, c
<1> QED BY <1>1, <1>2, <1>3

\* The cap keeps what is less no dearer, but for a cent of each surcharge.
LEMMA CappedLess ==
    ASSUME NEW s \in Seq(Surcharge), NEW t \in Seq(Surcharge), Less(t, s), Charges!Limit \in Nat
    PROVE  Charges!Sum(Charges!Capped(t)) <= Charges!Sum(Charges!Capped(s)) + Len(s)
<1> DEFINE f == Charges!Sum(s)
           g == Charges!Flat(s)
           e == Charges!Sum(t)
           k == Charges!Flat(t)
           l == Charges!Limit
           c == Charges!Sum(Charges!Capped(s))
           d == Charges!Sum(Charges!Capped(t))
<1>1. /\ f \in Nat /\ g \in Nat /\ g <= f /\ e \in Nat /\ k \in Nat /\ k <= e /\ l \in Nat
      /\ Len(s) \in Nat /\ Len(t) \in Nat
  BY SumsTyped
<1>2. e <= f /\ k <= g
  BY DEF Less
<1>3. CapHolds(s, Charges!Capped(s)) /\ CapHolds(t, Charges!Capped(t))
  BY CappedIs
<1>4. Charges!Capped(s) \in Seq(Surcharge) /\ Charges!Capped(t) \in Seq(Surcharge)
  BY <1>3 DEF CapHolds
<1>5. c \in Nat /\ d \in Nat
  BY <1>4, SumsTyped
<1>6. /\ f <= l => c = f
      /\ e <= l => d = e
      /\ f > l => c + Len(s) >= l
  BY <1>3 DEF CapHolds
<1>7. CASE f > l /\ e > l
  <2>1. /\ Charges!Capped(s) = Charges!Scaled(s, f) /\ Charges!Capped(t) = Charges!Scaled(t, e)
    <3>1. ~ (f <= l) /\ ~ (e <= l)
      <4> HIDE DEF f, e, l
      <4> QED BY <1>1, <1>7
    <3> QED BY <3>1 DEF Charges!Capped
  <2>2. f \in Nat \ {0} /\ e \in Nat \ {0} /\ l <= f /\ l <= e
    BY <1>1, <1>7
  <2>3. Shrunk(c, f, g, Len(s), l, f)
    <3>1. Shrunk(Charges!Sum(Charges!Scaled(s, f)), f, g, Len(s), l, f)
      BY <2>2, ScaledSums
    <3> QED BY <2>1, <3>1
  <2>4. Shrunk(d, e, k, Len(t), l, e)
    <3>1. Shrunk(Charges!Sum(Charges!Scaled(t, e)), e, k, Len(t), l, e)
      BY <2>2, ScaledSums
    <3> QED BY <2>1, <3>1
  <2> HIDE DEF f, g, e, k, l, c, d
  <2>5. d <= c + Len(s)
    BY <1>1, <1>2, <1>5, <1>7, <2>3, <2>4, ShrunkLess
  <2> QED BY <2>5 DEF c, d
<1>8. CASE ~ (f > l /\ e > l)
  <2> HIDE DEF f, g, e, k, l, c, d
  <2>1. d <= c + Len(s)
    BY <1>1, <1>2, <1>5, <1>6, <1>8
  <2> QED BY <2>1 DEF c, d
<1> QED BY <1>7, <1>8

-----------------------------------------------------------------------------
(* The surcharges of a policy: what is listed is the capped list, of a      *)
(* premium the calculator accepts.                                          *)

ChargesInv ==
  /\ premium \in Charged /\ state \in States
  /\ \E n \in Nat : drivers \in [1..n -> Drivers]
  /\ at \in {"called", "ok", "err"}
  /\ at = "ok" => /\ premium > 0
                  /\ listed = Charges!Capped(Charges!Uncapped(drivers))
                  /\ sum = Charges!Sum(listed)

LEMMA ChargesInit == Charges!Init => ChargesInv
BY DEF Charges!Init, ChargesInv

LEMMA ChargesKeeps ==
    ASSUME PricingAssumption, ChargesInv, [Charges!CalculatesAll]_Charges!vars
    PROVE  ChargesInv'
<1>1. CASE Charges!CalculatesAll
  <2>1. premium' = premium /\ state' = state /\ drivers' = drivers /\ premium \in Int
    BY <1>1 DEF Charges!CalculatesAll, ChargesInv, Charges!SurchargeAssumption
  <2>2. CASE premium <= 0
    BY <1>1, <2>1, <2>2 DEF Charges!CalculatesAll, ChargesInv
  <2>3. CASE premium > 0
    <3>1. /\ at' = "ok" /\ listed' = Charges!Capped(Charges!Uncapped(drivers))
          /\ sum' = Charges!Sum(listed')
      BY <1>1, <2>1, <2>3 DEF Charges!CalculatesAll
    <3>2. Charges!Capped(Charges!Uncapped(drivers))' = Charges!Capped(Charges!Uncapped(drivers))
      BY <2>1 DEF Charges!Capped, Charges!Uncapped, Charges!Scaled, Charges!Limit, Charges!Dui,
                  Charges!HighRisk, Charges!Young, Charges!Inexperienced, Charges!Lapse,
                  Charges!Rate
    <3> QED BY <2>1, <2>3, <3>1, <3>2 DEF ChargesInv
  <2> QED BY <2>1, <2>2, <2>3
<1>2. CASE UNCHANGED Charges!vars
  <2>1. /\ premium' = premium /\ state' = state /\ drivers' = drivers /\ at' = at
        /\ listed' = listed /\ sum' = sum
    BY <1>2 DEF Charges!vars
  <2>2. Charges!Capped(Charges!Uncapped(drivers))' = Charges!Capped(Charges!Uncapped(drivers))
    BY <2>1 DEF Charges!Capped, Charges!Uncapped, Charges!Scaled, Charges!Limit, Charges!Dui,
                Charges!HighRisk, Charges!Young, Charges!Inexperienced, Charges!Lapse,
                Charges!Rate
  <2> QED BY <2>1, <2>2 DEF ChargesInv
<1> QED BY <1>1, <1>2

\* The state of a policy that has its surcharges.
LEMMA Surcharged ==
    ASSUME PricingAssumption, ChargesInv, at = "ok"
    PROVE  /\ premium \in Nat /\ Fee \in Nat /\ YoungUntil[state] \in Nat /\ Charges!Limit \in Nat
           /\ \E n \in Nat : drivers \in [1..n -> Driver] /\ drivers \in [1..n -> Drivers]
           /\ Drivers \subseteq Driver
<1>1. premium \in Nat /\ Fee \in Nat /\ YoungUntil[state] \in Nat /\ Caps[state] \in Nat
  BY DEF ChargesInv, PricingAssumption, Charges!SurchargeAssumption
<1>2. Charges!Limit \in Nat
  <2> DEFINE p == premium * Caps[state]
  <2>1. p \in Nat
    BY <1>1
  <2>2. Charges!Limit = p \div 100
    BY DEF Charges!Limit
  <2> HIDE DEF p
  <2> QED BY <2>1, <2>2
<1>3. Drivers \subseteq Driver
  BY DEF Driver, PricingAssumption, Charges!SurchargeAssumption
<1>4. PICK n \in Nat : drivers \in [1..n -> Drivers]
  BY DEF ChargesInv
<1>5. drivers \in [1..n -> Driver]
  BY <1>3, <1>4
<1> QED BY <1>1, <1>2, <1>3, <1>4, <1>5

LEMMA NoBetterThanSelf == \A d \in Driver : Charges!NoBetter(d, d)
BY DEF Charges!NoBetter, Driver

LEMMA CapDoesCap ==
    ASSUME PricingAssumption, ChargesInv
    PROVE  Charges!CapOnlyCaps
<1> SUFFICES ASSUME at = "ok" PROVE Charges!CapOnlyCaps
  BY DEF Charges!CapOnlyCaps
<1> DEFINE due == Charges!Uncapped(drivers)
<1>1. /\ premium \in Nat /\ Fee \in Nat /\ YoungUntil[state] \in Nat /\ Charges!Limit \in Nat
  BY Surcharged
<1>2. PICK n \in Nat : drivers \in [1..n -> Driver]
  BY Surcharged
<1>3. due \in Seq(Surcharge)
  <2>1. \A i \in 1..n : Charges!NoBetter(drivers[i], drivers[i])
    BY <1>2, NoBetterThanSelf
  <2> QED BY <1>1, <1>2, <2>1, WorsePolicy
<1>4. listed = Charges!Capped(due) /\ sum = Charges!Sum(listed)
  BY DEF ChargesInv
<1> HIDE DEF due
<1>5. CapHolds(due, listed)
  BY <1>1, <1>3, <1>4, CappedIs
<1>6. DOMAIN due = 1..Len(due)
  BY <1>3
<1> QED BY <1>4, <1>5, <1>6 DEF Charges!CapOnlyCaps, CapHolds, due

LEMMA WorseCostsNoLess ==
    ASSUME PricingAssumption, ChargesInv
    PROVE  Charges!WorseIsNotCheaper
<1> SUFFICES ASSUME at = "ok", NEW j \in DOMAIN drivers, NEW e \in Drivers,
                    Charges!NoBetter(drivers[j], e)
             PROVE  Charges!Sum(Charges!Capped(Charges!Uncapped([drivers EXCEPT ![j] = e])))
                      <= sum + Len(listed)
  BY DEF Charges!WorseIsNotCheaper
<1> DEFINE es == [drivers EXCEPT ![j] = e]
           due == Charges!Uncapped(drivers)
           owed == Charges!Uncapped(es)
<1>1. /\ premium \in Nat /\ Fee \in Nat /\ YoungUntil[state] \in Nat /\ Charges!Limit \in Nat
      /\ e \in Driver
  BY Surcharged
<1>2. PICK n \in Nat : drivers \in [1..n -> Driver]
  BY Surcharged
<1>3. es \in [1..n -> Driver] /\ \A i \in 1..n : es[i] = IF i = j THEN e ELSE drivers[i]
  BY <1>1, <1>2
<1> HIDE DEF es
<1>4. \A i \in 1..n : Charges!NoBetter(drivers[i], es[i])
  <2> SUFFICES ASSUME NEW i \in 1..n PROVE Charges!NoBetter(drivers[i], es[i])
    OBVIOUS
  <2>1. CASE i = j
    BY <1>3, <2>1
  <2>2. CASE i # j
    <3>1. es[i] = drivers[i] /\ drivers[i] \in Driver
      BY <1>2, <1>3, <2>2
    <3> QED BY <3>1, NoBetterThanSelf
  <2> QED BY <2>1, <2>2
<1>5. due \in Seq(Surcharge) /\ owed \in Seq(Surcharge) /\ Less(owed, due)
  BY <1>1, <1>2, <1>3, <1>4, WorsePolicy
<1>6. listed = Charges!Capped(due) /\ sum = Charges!Sum(listed)
  BY DEF ChargesInv
<1> HIDE DEF due, owed
<1>7. Charges!Sum(Charges!Capped(owed)) <= Charges!Sum(Charges!Capped(due)) + Len(due)
  BY <1>1, <1>5, CappedLess
<1>8. Len(listed) = Len(due)
  <2>1. CapHolds(due, listed)
    BY <1>1, <1>5, <1>6, CappedIs
  <2> QED BY <2>1 DEF CapHolds
<1>9. Charges!Sum(Charges!Capped(owed)) <= sum + Len(listed)
  BY <1>6, <1>7, <1>8
<1> QED BY <1>9 DEF owed, es

\* The surcharges of a policy are within the state's maximum but for the
\* fees, no more than is due, and never less for a worse driver
\* (calculate_all_surcharges, _apply_state_surcharge_caps).
THEOREM SurchargesAreFair ==
    Charges!Spec => [](Charges!CapOnlyCaps /\ Charges!WorseIsNotCheaper)
<1> USE PricingAssumption
<1>1. Charges!Init => ChargesInv
  BY ChargesInit
<1>2. ChargesInv /\ [Charges!CalculatesAll]_Charges!vars => ChargesInv'
  BY ChargesKeeps
<1>3. ChargesInv => Charges!CapOnlyCaps /\ Charges!WorseIsNotCheaper
  BY CapDoesCap, WorseCostsNoLess
<1> QED BY <1>1, <1>2, <1>3, PTL DEF Charges!Spec

\* What a customer pays by, of every discount and of every surcharge
\* (calculate_stacked_discounts, calculate_all_surcharges).
THEOREM ChargesAreFair == Spec /\ Charges!Spec => []ChargedFairly
<1>1. OrderIsFree /\ (Charges!CapOnlyCaps /\ Charges!WorseIsNotCheaper) => ChargedFairly
  BY DEF ChargedFairly
<1> QED BY <1>1, OrderOfDiscountsIsFree, SurchargesAreFair, PTL

-----------------------------------------------------------------------------
(* The rating factors (RatingFactors): functions, each called once. *)

\* An answer is that of the function that was called.
FactorsInv ==
    /\ call \in Factors!Call
    /\ answer # Unanswered =>
         /\ call.of = "factors" => answer = Factors!Factored(call.base, call.factor)
         /\ call.of = "territory" => answer = Factors!Territory(call.zip, call.base)
         /\ call.of = "age" => answer = Factors!AgeLookedUp(call.key)
         /\ call.of = "credit" =>
              answer = [score  |-> Factors!InsuranceScore(call.profile),
                        factor |-> Factors!CreditFactor(call.profile.score, call.state)]
         /\ call.of = "coverages" => answer = Factors!Required(call.state, call.selected)
         /\ call.of = "catastrophe" =>
              answer = Factors!Catastrophe(call.digit, call.covers, call.dwelling)

LEMMA FactorsInit == Factors!Init => FactorsInv
BY DEF Factors!Init, FactorsInv

LEMMA FactorsKeeps ==
    ASSUME FactorsInv, [Factors!Next]_Factors!vars
    PROVE  FactorsInv'
<1>1. CASE UNCHANGED Factors!vars
  BY <1>1 DEF FactorsInv, Factors!vars
<1>2. CASE Factors!FactorsApplied
  BY <1>2 DEF FactorsInv, Factors!FactorsApplied, Factors!Is
<1>3. CASE Factors!TerritoryRated
  BY <1>3 DEF FactorsInv, Factors!TerritoryRated, Factors!Is
<1>4. CASE Factors!AgeFound
  BY <1>4 DEF FactorsInv, Factors!AgeFound, Factors!Is
<1>5. CASE Factors!CreditScored
  BY <1>5 DEF FactorsInv, Factors!CreditScored, Factors!Is
<1>6. CASE Factors!CoveragesAdded
  BY <1>6 DEF FactorsInv, Factors!CoveragesAdded, Factors!Is
<1>7. CASE Factors!CatastropheLoad
  BY <1>7 DEF FactorsInv, Factors!CatastropheLoad, Factors!Is
<1> QED BY <1>1, <1>2, <1>3, <1>4, <1>5, <1>6, <1>7 DEF Factors!Next

LEMMA CallTyped ==
    ASSUME NEW c \in Factors!Call
    PROVE  /\ c.of = "factors" => c.base \in Rated /\ c.factor \in [Factors!ToSet(Factors!FactorOrder) -> Percents]
           /\ c.of = "territory" => c.base \in Bases
           /\ c.of = "age" => c.key \in 32..200
           /\ c.of = "credit" => c.profile \in Profiles
           /\ c.of = "coverages" => c.selected \in SUBSET Coverage
           /\ c.of = "catastrophe" => c.covers \in SUBSET Coverage /\ c.dwelling \in Factors!Dwelling
BY DEF Factors!Call

-----------------------------------------------------------------------------
(* Territories. *)

LEMMA Between ==
    ASSUME NEW x \in Nat, NEW c \in 0..100
    PROVE  /\ x <= 100 => Factors!Part(x, c) + (100 - c) \in x..100
           /\ x >= 100 => Factors!Part(x, c) + (100 - c) \in 100..x
<1> DEFINE p == x * c
<1>1. p \in Nat
  OBVIOUS
<1>2. (100 - x) * (100 - c) = 10000 - 100 * c - 100 * x + p /\ (x - 100) * c = p - 100 * c
  OBVIOUS
<1>3. x <= 100 => (100 - x) * (100 - c) >= 0 /\ (100 - x) * c >= 0
  OBVIOUS
<1>4. x >= 100 => (x - 100) * (100 - c) >= 0 /\ (x - 100) * c >= 0
  OBVIOUS
<1>5. (x - 100) * (100 - c) = 0 - (10000 - 100 * c - 100 * x + p) /\ (100 - x) * c = 100 * c - p
  OBVIOUS
<1>6. Factors!Part(x, c) = p \div 100
  BY DEF Factors!Part
<1>7. /\ x <= 100 => 10000 - 100 * c - 100 * x + p >= 0 /\ p <= 100 * c
      /\ x >= 100 => 10000 - 100 * c - 100 * x + p <= 0 /\ p >= 100 * c
  <2> DEFINE a == (100 - x) * (100 - c)
             b == (x - 100) * c
             d == (x - 100) * (100 - c)
             e == (100 - x) * c
  <2>1. /\ a = 10000 - 100 * c - 100 * x + p /\ b = p - 100 * c
        /\ d = 0 - (10000 - 100 * c - 100 * x + p) /\ e = 100 * c - p
        /\ x <= 100 => a >= 0 /\ e >= 0
        /\ x >= 100 => d >= 0 /\ b >= 0
    BY <1>2, <1>3, <1>4, <1>5
  <2> HIDE DEF a, b, d, e, p
  <2> QED BY <1>1, <2>1
<1> HIDE DEF p
<1> QED BY <1>1, <1>6, <1>7

LEMMA Nearer ==
    ASSUME NEW x \in Int
    PROVE  /\ Factors!Min({x, 100}) = (IF x <= 100 THEN x ELSE 100)
           /\ Factors!Max({x, 100}) = (IF x <= 100 THEN 100 ELSE x)
BY DEF Factors!Min, Factors!Max

LEMMA Share ==
    ASSUME NEW a \in Nat, NEW b \in Nat \ {0}
    PROVE  (100 * a) \div b \in Nat
OBVIOUS

LEMMA TerritoriesBlend ==
    ASSUME Factors!FactorAssumption, FactorsInv
    PROVE  Factors!TerritoryBlends
<1> SUFFICES ASSUME call.of = "territory", answer = Factors!Territory(call.zip, call.base)
             PROVE  LET cost == IF call.zip \in DOMAIN Territories THEN Territories[call.zip].cost ELSE call.base
                        own  == Factors!Within(50, 300, (100 * cost) \div call.base)
                    IN  answer \in Factors!Min({own, 100}) .. Factors!Max({own, 100})
  BY DEF FactorsInv, Factors!TerritoryBlends, Factors!Answered
<1> DEFINE cost == IF call.zip \in DOMAIN Territories THEN Territories[call.zip].cost ELSE call.base
           credibility == IF call.zip \in DOMAIN Territories THEN Territories[call.zip].credibility ELSE 50
           x == (100 * cost) \div call.base
           own == Factors!Within(50, 300, x)
           y == Factors!Part(x, credibility) + (100 - credibility)
<1>1. call.base \in Nat \ {0} /\ cost \in Nat /\ credibility \in 0..100
  <2>1. call.base \in Nat \ {0}
    BY CallTyped DEF FactorsInv, Factors!FactorAssumption
  <2>2. CASE call.zip \in DOMAIN Territories
    BY <2>1, <2>2 DEF Factors!FactorAssumption
  <2>3. CASE call.zip \notin DOMAIN Territories
    BY <2>1, <2>3
  <2> QED BY <2>2, <2>3
<1>2. answer = Factors!Within(50, 300, y)
  BY DEF Factors!Territory
<1> HIDE DEF cost, credibility
<1>3. x \in Nat
  BY <1>1, Share
<1> HIDE DEF x
<1>4. /\ x <= 100 => y \in x..100
      /\ x >= 100 => y \in 100..x
  BY <1>1, <1>3, Between
<1> HIDE DEF y
<1>5. own = IF x < 50 THEN 50 ELSE IF x > 300 THEN 300 ELSE x
  BY DEF Factors!Within
<1>6. answer = IF y < 50 THEN 50 ELSE IF y > 300 THEN 300 ELSE y
  BY <1>2 DEF Factors!Within
<1> HIDE DEF own
<1>7. own \in Int /\ Factors!Min({own, 100}) = (IF own <= 100 THEN own ELSE 100)
                  /\ Factors!Max({own, 100}) = (IF own <= 100 THEN 100 ELSE own)
  BY <1>3, <1>5, Nearer
<1>8. answer \in Factors!Min({own, 100}) .. Factors!Max({own, 100})
  BY <1>3, <1>4, <1>5, <1>6, <1>7
<1> QED BY <1>8 DEF own, x, cost

-----------------------------------------------------------------------------
(* Cover. *)

LEMMA CoversAreClosed ==
    ASSUME FactorsInv
    PROVE  Factors!CoverIsClosed
<1> SUFFICES ASSUME call.of = "coverages", answer = Factors!Required(call.state, call.selected)
             PROVE  /\ Factors!Required(call.state, answer) = answer
                    /\ \A more \in SUBSET Coverage :
                         call.selected \subseteq more => answer \subseteq Factors!Required(call.state, more)
  BY DEF FactorsInv, Factors!CoverIsClosed, Factors!Answered
<1> DEFINE where == call.state
           must == Factors!Mandatory(where)
           both == where \in {"CA", "NY"}
<1>1. \A S : Factors!Required(where, S) =
        IF "collision" \in S \cup must /\ both THEN (S \cup must) \cup {"comprehensive"} ELSE S \cup must
  BY DEF Factors!Required
<1> DEFINE all == call.selected \cup must
<1>2. answer = IF "collision" \in all /\ both THEN all \cup {"comprehensive"} ELSE all
  BY <1>1
<1>3. must \subseteq answer /\ call.selected \subseteq answer
  <2> HIDE DEF must, both
  <2> QED BY <1>2
<1>4. Factors!Required(where, answer) = answer
  <2> HIDE DEF must, both, where, all
  <2>1. answer \cup must = answer
    BY <1>3
  <2>2. Factors!Required(where, answer)
          = IF "collision" \in answer /\ both THEN answer \cup {"comprehensive"} ELSE answer
    BY <1>1, <2>1
  <2>3. "collision" \in answer /\ both => "comprehensive" \in answer
    BY <1>2
  <2> QED BY <2>2, <2>3
<1>5. ASSUME NEW more \in SUBSET Coverage, call.selected \subseteq more
      PROVE  answer \subseteq Factors!Required(where, more)
  <2> HIDE DEF must, both, where
  <2>1. all \subseteq more \cup must
    BY <1>5
  <2>2. Factors!Required(where, more)
          = IF "collision" \in more \cup must /\ both THEN (more \cup must) \cup {"comprehensive"} ELSE more \cup must
    BY <1>1
  <2> HIDE DEF all
  <2> QED BY <1>2, <2>1, <2>2
<1> QED BY <1>4, <1>5

LEMMA PartGrows ==
    ASSUME NEW a \in Nat, NEW b \in Nat, a <= b, NEW r \in Nat
    PROVE  Factors!Part(a, r) \in Nat /\ Factors!Part(b, r) \in Nat /\ Factors!Part(a, r) <= Factors!Part(b, r)
<1> DEFINE p == a * r
           q == b * r
           d == (b - a) * r
<1>1. p \in Nat /\ q \in Nat /\ d \in Nat /\ q = p + d
  OBVIOUS
<1>2. Factors!Part(a, r) = p \div 100 /\ Factors!Part(b, r) = q \div 100
  BY DEF Factors!Part
<1> HIDE DEF p, q, d
<1> QED BY <1>1, <1>2

\* The perils of a place, and what they cost with the covers.
Peril(digit, covers) ==
    IF digit \in {2, 3, 7} THEN IF covers \cap {"comprehensive", "collision"} # {} THEN 115 ELSE 100
    ELSE IF digit \in {8, 9} THEN IF "comprehensive" \in covers THEN 108 ELSE 100
    ELSE IF digit = 6 THEN IF "comprehensive" \in covers THEN 105 ELSE 100
    ELSE 100
Built(dwelling) ==
    IF dwelling.built = "masonry" THEN 95 ELSE IF dwelling.built = "mobile_home" THEN 125 ELSE 100
Roof(dwelling) == IF dwelling.roof = "impact_resistant" THEN 90 ELSE 100

LEMMA CatastropheIs ==
    ASSUME NEW digit, NEW covers, NEW dwelling
    PROVE  Factors!Catastrophe(digit, covers, dwelling)
             = Factors!Part(Factors!Part(1000 * Peril(digit, covers), Built(dwelling)), Roof(dwelling))
<1> DEFINE x == IF covers \cap {"comprehensive", "collision"} # {} THEN 115 ELSE 100
           y == IF "comprehensive" \in covers THEN 108 ELSE 100
           z == IF "comprehensive" \in covers THEN 105 ELSE 100
           A == digit \in {2, 3, 7}
           B == digit \in {8, 9}
           C == digit = 6
           D == dwelling.built = "masonry"
           E == dwelling.built = "mobile_home"
           peril == CASE A -> x [] B -> y [] C -> z [] OTHER -> 100
           built == CASE D -> 95 [] E -> 125 [] OTHER -> 100
<1>1. Factors!Catastrophe(digit, covers, dwelling)
        = Factors!Part(Factors!Part(1000 * peril, built), Roof(dwelling))
  BY DEF Factors!Catastrophe, Roof
<1>2. ~ (A /\ B) /\ ~ (A /\ C) /\ ~ (B /\ C) /\ ~ (D /\ E)
  OBVIOUS
<1>3. /\ Peril(digit, covers) = IF A THEN x ELSE IF B THEN y ELSE IF C THEN z ELSE 100
      /\ Built(dwelling) = IF D THEN 95 ELSE IF E THEN 125 ELSE 100
  BY DEF Peril, Built
<1> HIDE DEF x, y, z, A, B, C, D, E
<1>4. peril = IF A THEN x ELSE IF B THEN y ELSE IF C THEN z ELSE 100
  BY <1>2, Zenon
<1>5. built = IF D THEN 95 ELSE IF E THEN 125 ELSE 100
  BY <1>2, Zenon
<1> HIDE DEF peril, built
<1> QED BY <1>1, <1>3, <1>4, <1>5

LEMMA CoversCost ==
    ASSUME FactorsInv
    PROVE  Factors!CoverIsNotCheaper
<1> SUFFICES ASSUME call.of = "catastrophe", NEW cover \in Coverage,
                    answer = Factors!Catastrophe(call.digit, call.covers, call.dwelling)
             PROVE  Factors!Catastrophe(call.digit, call.covers \cup {cover}, call.dwelling) >= answer
  BY DEF FactorsInv, Factors!CoverIsNotCheaper, Factors!Answered
<1> DEFINE a == 1000 * Peril(call.digit, call.covers)
           b == 1000 * Peril(call.digit, call.covers \cup {cover})
           built == Built(call.dwelling)
           roof == Roof(call.dwelling)
<1>1. a \in Nat /\ b \in Nat /\ a <= b
  BY DEF Peril
<1>2. built \in Nat /\ roof \in Nat
  BY DEF Built, Roof
<1>3. /\ answer = Factors!Part(Factors!Part(a, built), roof)
      /\ Factors!Catastrophe(call.digit, call.covers \cup {cover}, call.dwelling)
           = Factors!Part(Factors!Part(b, built), roof)
  BY CatastropheIs
<1> HIDE DEF a, b, built, roof
<1> DEFINE c == Factors!Part(a, built)
           d == Factors!Part(b, built)
<1>4. c \in Nat /\ d \in Nat /\ c <= d
  BY <1>1, <1>2, PartGrows
<1> HIDE DEF c, d
<1>5. Factors!Part(c, roof) \in Nat /\ Factors!Part(d, roof) \in Nat /\ Factors!Part(c, roof) <= Factors!Part(d, roof)
  BY <1>2, <1>4, PartGrows
<1>6. Factors!Part(d, roof) >= Factors!Part(c, roof)
  BY <1>5
<1> QED BY <1>3, <1>6 DEF c, d

-----------------------------------------------------------------------------
(* Ages. *)

LEMMA TableIsBatch ==
    /\ DOMAIN Factors!AgeTable = 16..99
    /\ \A age \in 16..99 : Factors!AgeTable[age] = Factors!AgeBatched(age) /\ Factors!AgeBatched(age) \in Int
<1>1. DOMAIN Factors!AgeTable = 16..99
  BY DEF Factors!AgeTable
<1>2. ASSUME NEW age \in 16..99
      PROVE  Factors!AgeTable[age] = Factors!AgeBatched(age) /\ Factors!AgeBatched(age) \in Int
  <2> DEFINE x == 200 - 10 * (age - 16)
             z == 90 + 2 * (age - 65)
             A == age < 25
             B == age \in 25..65
             C == age <= 65
             factor == CASE A -> x [] B -> 90 [] OTHER -> z
  <2>1. Factors!AgeTable[age] = Factors!Within(50, 300, factor)
    BY DEF Factors!AgeTable
  <2>2. ~ (A /\ B) /\ (~ A => (B <=> C))
    OBVIOUS
  <2>3. Factors!AgeBatched(age) = Factors!Within(50, 300, IF A THEN x ELSE IF C THEN 90 ELSE z)
    BY DEF Factors!AgeBatched
  <2>4. Factors!AgeBatched(age) \in Int
    BY DEF Factors!AgeBatched, Factors!Within
  <2> HIDE DEF x, z, A, B, C
  <2>5. factor = IF A THEN x ELSE IF C THEN 90 ELSE z
    BY <2>2, Zenon
  <2> HIDE DEF factor
  <2> QED BY <2>1, <2>3, <2>4, <2>5
<1> QED BY <1>1, <1>2

\* The bounds that a key is bracketed with are the ages next to it.
AgesTo(key) == {a \in 16..99 : 2 * a <= key}
AgesAfter(key) == {a \in 16..99 : 2 * a > key}

Brackets(key, age) ==
    /\ AgesTo(key) # {} /\ Factors!Max(AgesTo(key)) = age
    /\ AgesAfter(key) = {} => key = 2 * age
    /\ AgesAfter(key) # {} => age + 1 \in 16..99 /\ Factors!Min(AgesAfter(key)) = age + 1

LEMMA Bracketed ==
    ASSUME NEW key \in 32..198, NEW age \in 16..99, age = key \div 2
    PROVE  Brackets(key, age)
<1> DEFINE below == {a \in 16..99 : 2 * a <= key}
           above == {a \in 16..99 : 2 * a > key}
<1>1. 2 * age <= key /\ key < 2 * (age + 1)
  OBVIOUS
<1>2. below # {} /\ Factors!Max(below) = age
  <2>1. age \in below /\ \A a \in below : a <= age
    BY <1>1
  <2>2. \A x \in below : (\A a \in below : x >= a) => x = age
    BY <2>1
  <2>3. \A a \in below : age >= a
    BY <2>1
  <2> QED BY <2>1, <2>2, <2>3 DEF Factors!Max
<1>3. above = {} => key = 2 * age
  <2>1. age # 99 => age + 1 \in above
    BY <1>1
  <2>2. age = 99 => key = 2 * age
    BY <1>1
  <2> QED BY <2>1, <2>2
<1>4. ASSUME above # {} PROVE age + 1 \in 16..99 /\ Factors!Min(above) = age + 1
  <2>1. \A a \in above : age + 1 <= a
    BY <1>1
  <2>2. age + 1 \in 16..99
    <3>1. PICK a \in above : TRUE
      BY <1>4
    <3> QED BY <2>1, <3>1
  <2>3. age + 1 \in above
    BY <1>1, <2>2
  <2>4. \A x \in above : (\A a \in above : x <= a) => x = age + 1
    BY <2>1, <2>3
  <2> QED BY <2>1, <2>2, <2>3, <2>4 DEF Factors!Min
<1> QED BY <1>2, <1>3, <1>4 DEF Brackets, AgesTo, AgesAfter

LEMMA AgesDoAgree ==
    ASSUME FactorsInv
    PROVE  Factors!AgesAgree
<1> SUFFICES ASSUME call.of = "age", call.key <= 198, answer = Factors!AgeLookedUp(call.key)
             PROVE  answer = Factors!AgeBatched(call.key \div 2) + Factors!AgeBatched((call.key + 1) \div 2)
  <2>1. 2 * 99 = 198
    OBVIOUS
  <2> QED BY <2>1 DEF FactorsInv, Factors!AgesAgree, Factors!Answered
<1>1. call.key \in 32..198
  BY CallTyped DEF FactorsInv
<1>2. PICK key \in 32..198 : key = call.key
  BY <1>1
<1>3. PICK age \in 16..99 : age = key \div 2
  OBVIOUS
<1>4. /\ key = 2 * age => (key + 1) \div 2 = age
      /\ key # 2 * age => (key + 1) \div 2 = age + 1
  BY <1>3
<1> DEFINE below == AgesTo(key)
           above == AgesAfter(key)
           table == Factors!AgeTable
<1>5. answer = IF below = {} THEN 2 * table[Factors!Min(above)]
               ELSE IF above = {} \/ 2 * Factors!Max(below) = key THEN 2 * table[Factors!Max(below)]
               ELSE table[Factors!Max(below)] + table[Factors!Min(above)]
  BY <1>2, TableIsBatch DEF Factors!AgeLookedUp, AgesTo, AgesAfter
<1>6. /\ below # {} /\ Factors!Max(below) = age
      /\ above = {} => key = 2 * age
      /\ above # {} => age + 1 \in 16..99 /\ Factors!Min(above) = age + 1
  <2>1. Brackets(key, age)
    BY <1>3, Bracketed
  <2> QED BY <2>1 DEF Brackets
<1> HIDE DEF below, above, table
<1>7. CASE key = 2 * age
  <2>1. answer = 2 * table[age]
    BY <1>5, <1>6, <1>7
  <2>2. table[age] = Factors!AgeBatched(age) /\ Factors!AgeBatched(age) \in Int
    BY TableIsBatch DEF table
  <2>3. \A x \in Int : 2 * x = x + x
    OBVIOUS
  <2> QED BY <1>2, <1>3, <1>4, <1>7, <2>1, <2>2, <2>3
<1>8. CASE key # 2 * age
  <2>1. age + 1 \in 16..99 /\ answer = table[age] + table[age + 1]
    BY <1>5, <1>6, <1>8
  <2>2. table[age] = Factors!AgeBatched(age) /\ table[age + 1] = Factors!AgeBatched(age + 1)
    BY <2>1, TableIsBatch DEF table
  <2> QED BY <1>2, <1>3, <1>4, <1>8, <2>1, <2>2
<1> QED BY <1>7, <1>8

-----------------------------------------------------------------------------
(* Credit. *)

Profile == [score: Int, paid: Int, used: Int, years: Int, inquiries: Int]

\* The points of a profile, before they are clamped.
Points(p) ==
    100 * p.score + 35 * (p.paid - 50)
      + (IF p.used <= 10 THEN 600 ELSE IF p.used <= 30 THEN 0 ELSE -15 * (p.used - 30))
      + 15 * Factors!Within(0, 30, 2 * p.years) + -50 * p.inquiries

LEMMA ScoresGrow ==
    ASSUME NEW p \in Profile, NEW q \in Profile, Factors!NoWorse(p, q)
    PROVE  Factors!InsuranceScore(p) >= Factors!InsuranceScore(q)
<1>1. \A r \in Profile : Points(r) \in Int /\ Factors!InsuranceScore(r) = Factors!Within(200, 997, Points(r) \div 100)
  BY DEF Profile, Points, Factors!InsuranceScore, Factors!Within
<1>2. Points(p) >= Points(q)
  <2>1. /\ p.score \in Int /\ p.paid \in Int /\ p.used \in Int /\ p.years \in Int /\ p.inquiries \in Int
        /\ q.score \in Int /\ q.paid \in Int /\ q.used \in Int /\ q.years \in Int /\ q.inquiries \in Int
    BY DEF Profile
  <2>2. /\ p.score >= q.score /\ p.paid >= q.paid /\ p.used <= q.used
        /\ p.years >= q.years /\ p.inquiries <= q.inquiries
    BY DEF Factors!NoWorse
  <2> DEFINE u(r) == IF r.used <= 10 THEN 600 ELSE IF r.used <= 30 THEN 0 ELSE -15 * (r.used - 30)
             w(r) == Factors!Within(0, 30, 2 * r.years)
  <2>3. u(p) \in Int /\ u(q) \in Int /\ u(p) >= u(q)
    BY <2>1, <2>2
  <2>4. w(p) \in Int /\ w(q) \in Int /\ w(p) >= w(q)
    BY <2>1, <2>2 DEF Factors!Within
  <2>5. /\ Points(p) = 100 * p.score + 35 * (p.paid - 50) + u(p) + 15 * w(p) + -50 * p.inquiries
        /\ Points(q) = 100 * q.score + 35 * (q.paid - 50) + u(q) + 15 * w(q) + -50 * q.inquiries
    BY DEF Points
  <2> HIDE DEF u, w
  <2> QED BY <2>1, <2>2, <2>3, <2>4, <2>5
<1>3. \A x, y \in Int : x >= y => Factors!Within(200, 997, x \div 100) >= Factors!Within(200, 997, y \div 100)
  BY DEF Factors!Within
<1>4. Points(p) \in Int /\ Points(q) \in Int
  BY <1>1
<1> HIDE DEF Points
<1> QED BY <1>1, <1>2, <1>3, <1>4

\* The bands of a credit score.
Band(score) == IF score >= 760 THEN 85 ELSE IF score >= 700 THEN 95 ELSE IF score >= 650 THEN 100
               ELSE IF score >= 600 THEN 110 ELSE 125

LEMMA CreditIs ==
    ASSUME NEW score \in Int, NEW where
    PROVE  Factors!CreditFactor(score, where)
             = IF where \in Factors!Prohibited \/ score \notin 300..850 THEN Unanswered ELSE Band(score)
<1> DEFINE A == score >= 760
           B == score \in 700..759
           C == score \in 650..699
           D == score \in 600..649
           E == where \in Factors!Prohibited \/ score \notin 300..850
           factor == CASE A -> 85 [] B -> 95 [] C -> 100 [] D -> 110 [] OTHER -> 125
<1>1. Factors!CreditFactor(score, where) = IF E THEN Unanswered ELSE factor
  BY DEF Factors!CreditFactor
<1>2. ~ (A /\ B) /\ ~ (A /\ C) /\ ~ (A /\ D) /\ ~ (B /\ C) /\ ~ (B /\ D) /\ ~ (C /\ D)
  OBVIOUS
<1>3. Band(score) = IF A THEN 85 ELSE IF B THEN 95 ELSE IF C THEN 100 ELSE IF D THEN 110 ELSE 125
  BY DEF Band
<1> HIDE DEF A, B, C, D, E
<1>4. factor = IF A THEN 85 ELSE IF B THEN 95 ELSE IF C THEN 100 ELSE IF D THEN 110 ELSE 125
  BY <1>2, Zenon
<1> HIDE DEF factor
<1> QED BY <1>1, <1>3, <1>4 DEF E

LEMMA BetterIsCheaper ==
    ASSUME Factors!FactorAssumption, FactorsInv
    PROVE  Factors!BetterIsNotDearer
<1> SUFFICES ASSUME call.of = "credit", NEW p \in Profiles, Factors!NoWorse(p, call.profile),
                    answer = [score  |-> Factors!InsuranceScore(call.profile),
                              factor |-> Factors!CreditFactor(call.profile.score, call.state)]
             PROVE  /\ Factors!InsuranceScore(p) >= answer.score
                    /\ Unanswered \notin {answer.factor, Factors!CreditFactor(p.score, call.state)}
                         => Factors!CreditFactor(p.score, call.state) <= answer.factor
  BY DEF FactorsInv, Factors!BetterIsNotDearer, Factors!Answered
<1>1. p \in Profile /\ call.profile \in Profile
  BY CallTyped DEF FactorsInv, Factors!FactorAssumption, Profile
<1>2. Factors!InsuranceScore(p) >= answer.score
  BY <1>1, ScoresGrow
<1>3. /\ p.score \in Int /\ call.profile.score \in Int /\ p.score >= call.profile.score
  BY <1>1 DEF Profile, Factors!NoWorse
<1>4. Band(p.score) <= Band(call.profile.score)
  BY <1>3 DEF Band
<1>5. ASSUME answer.factor # Unanswered, Factors!CreditFactor(p.score, call.state) # Unanswered
      PROVE  Factors!CreditFactor(p.score, call.state) <= answer.factor
  <2>1. Factors!CreditFactor(p.score, call.state) = Band(p.score)
    BY <1>3, <1>5, CreditIs
  <2>2. answer.factor = Band(call.profile.score)
    BY <1>3, <1>5, CreditIs
  <2> QED BY <1>4, <2>1, <2>2
<1> QED BY <1>2, <1>5

-----------------------------------------------------------------------------
(* Impacts. *)

LEMMA SameMax == \A T : Factors!Max(T) = Max(T)
BY DEF Factors!Max, Max

LEMMA TotalIs ==
    ASSUME NEW b \in Int, NEW s \in Seq(Int), NEW n \in Nat, n = Len(s)
    PROVE  s \in [1..n -> Int] /\ \E f : Sums(n, b, s, f) /\ Factors!Summed(b, s) = f[1..n]
<1> DEFINE h == CHOOSE f : f = [T \in SUBSET DOMAIN s |->
                                  IF T = {} THEN b ELSE f[T \ {Factors!Max(T)}] + s[Factors!Max(T)]]
<1>1. DOMAIN s = 1..n /\ s \in [1..n -> Int]
  OBVIOUS
<1>2. Factors!Summed(b, s) = h[DOMAIN s]
  BY DEF Factors!Summed, Factors!FoldLeft, Factors!MapThenFoldSet
<1>3. ASSUME NEW f
      PROVE  [T \in SUBSET DOMAIN s |-> IF T = {} THEN b ELSE f[T \ {Factors!Max(T)}] + s[Factors!Max(T)]]
           = [T \in SUBSET (1..n) |-> IF T = {} THEN b ELSE f[T \ {Max(T)}] + s[Max(T)]]
  BY <1>1, SameMax
<1>4. PICK f : Sums(n, b, s, f)
  BY <1>1, SumsExist
<1>5. Sums(n, b, s, h)
  <2>1. f = [T \in SUBSET DOMAIN s |-> IF T = {} THEN b ELSE f[T \ {Factors!Max(T)}] + s[Factors!Max(T)]]
    BY <1>3, <1>4 DEF Sums
  <2>2. h = [T \in SUBSET DOMAIN s |-> IF T = {} THEN b ELSE h[T \ {Factors!Max(T)}] + s[Factors!Max(T)]]
    BY <2>1
  <2> HIDE DEF h
  <2> QED BY <1>3, <2>2 DEF Sums
<1> HIDE DEF h
<1> QED BY <1>1, <1>2, <1>5

LEMMA TotalAppend ==
    ASSUME NEW b \in Int, NEW s \in Seq(Int), NEW a \in Int
    PROVE  /\ Factors!Summed(b, <<>>) = b
           /\ Factors!Summed(b, s) \in Int
           /\ Factors!Summed(b, Append(s, a)) = Factors!Summed(b, s) + a
<1>1. Factors!Summed(b, <<>>) = b
  <2>1. <<>> \in Seq(Int) /\ Len(<<>>) = 0
    OBVIOUS
  <2>2. <<>> \in [1..0 -> Int] /\ \E f : Sums(0, b, <<>>, f) /\ Factors!Summed(b, <<>>) = f[1..0]
    BY <2>1, TotalIs
  <2>3. PICK f : Sums(0, b, <<>>, f) /\ Factors!Summed(b, <<>>) = f[1..0]
    BY <2>2
  <2>4. Grows(0, b, <<>>, f)
    BY <2>2, <2>3, SumsGrow
  <2> QED BY <2>3, <2>4 DEF Grows
<1> DEFINE n == Len(s)
           t == Append(s, a)
<1>2. /\ n \in Nat /\ n + 1 \in Nat /\ t \in Seq(Int) /\ n + 1 = Len(t)
      /\ t[n + 1] = a /\ Extends(n, s, t)
  BY DEF Extends
<1> HIDE DEF n, t
<1>3. s \in [1..n -> Int] /\ \E f : Sums(n, b, s, f) /\ Factors!Summed(b, s) = f[1..n]
  BY <1>2, TotalIs DEF n
<1>4. t \in [1..(n + 1) -> Int] /\ \E g : Sums(n + 1, b, t, g) /\ Factors!Summed(b, t) = g[1..(n + 1)]
  <2>1. \A k \in Nat : k = Len(t) =>
          t \in [1..k -> Int] /\ \E g : Sums(k, b, t, g) /\ Factors!Summed(b, t) = g[1..k]
    BY <1>2, TotalIs
  <2> QED BY <1>2, <2>1
<1>5. PICK f : Sums(n, b, s, f) /\ Factors!Summed(b, s) = f[1..n]
  BY <1>3
<1>6. PICK g : Sums(n + 1, b, t, g) /\ Factors!Summed(b, t) = g[1..(n + 1)]
  BY <1>4
<1>7. Adds(n, t, f, g)
  BY <1>2, <1>3, <1>4, <1>5, <1>6, SumsAppend, Zenon
<1> QED BY <1>1, <1>2, <1>5, <1>6, <1>7 DEF t, Adds

\* The premium and the impacts, one factor on.
Done == [premium: Int, impacts: Seq(Int)]
Further(done, percent) ==
    [premium |-> Factors!Part(done.premium, percent),
     impacts |-> Append(done.impacts, Factors!Cents(Factors!Part(done.premium, percent - 100)))]

LEMMA SameCents == \A amount : Factors!Cents(amount) = Cents(amount)
BY DEF Factors!Cents, Cents

LEMMA FurtherTyped ==
    ASSUME NEW done \in Done, NEW percent \in Int
    PROVE  Further(done, percent) \in Done
<1>1. Factors!Part(done.premium, percent) \in Int /\ Factors!Part(done.premium, percent - 100) \in Int
  BY DEF Done, Factors!Part
<1>2. Factors!Cents(Factors!Part(done.premium, percent - 100)) \in Int
  BY <1>1, SameCents, CentsTyped
<1>3. done.impacts \in Seq(Int)
  BY DEF Done
<1> QED BY <1>1, <1>2, <1>3 DEF Done, Further

\* f is what is done after each factor of v.
Leads(n, first, v, f) ==
    /\ f[1..0] = first
    /\ \A m \in 1..n : f[1..m] = Further(f[1..(m - 1)], v[m])

LEMMA FactoredIs ==
    ASSUME NEW base0 \in Int, NEW factor, NEW n \in Nat, n = Len(Factors!FactorOrder),
           \A i \in 1..n : factor[Factors!FactorOrder[i]] \in Int
    PROVE  \E v \in [1..n -> Int] : \E f :
             /\ Leads(n, [premium |-> base0, impacts |-> <<>>], v, f)
             /\ Factors!Factored(base0, factor) = f[1..n]
<1> DEFINE order == Factors!FactorOrder
           v == [i \in 1..n |-> factor[order[i]]]
           first == [premium |-> base0, impacts |-> <<>>]
           Folding(f) == f = [T \in SUBSET DOMAIN order |->
                          IF T = {} THEN first ELSE Further(f[T \ {Factors!Max(T)}], factor[order[Factors!Max(T)]])]
           h == CHOOSE f : Folding(f)
<1>1. DOMAIN order = 1..n
  BY DEF Factors!FactorOrder
<1>2. Factors!Factored(base0, factor) = h[DOMAIN order]
  BY DEF Factors!Factored, Factors!FoldLeft, Factors!MapThenFoldSet, Further
<1>3. v \in [1..n -> Int] /\ first \in Done
  BY DEF Done
<1>4. \A i \in 1..n : v[i] = factor[order[i]]
  OBVIOUS
<1>5. \A T \in SUBSET (1..n) : T # {} => Max(T) \in 1..n
  <2>1. \A T \in SUBSET (1..n) : T # {} => Max(T) \in T
    BY GreatestUpTo
  <2> QED BY <2>1
<1> HIDE DEF order, v, first
<1>6. PICK f \in [SUBSET (1..n) -> Done] :
        \A T \in SUBSET (1..n) : f[T] = IF T = {} THEN first ELSE Further(f[T \ {Max(T)}], v[Max(T)])
  <2> DEFINE step == [p \in Done \X (1..n) |-> Further(p[1], v[p[2]])]
  <2>1. step \in [Done \X (1..n) -> Done]
    BY <1>3, FurtherTyped
  <2>2. \A d \in Done : \A i \in 1..n : step[d, i] = Further(d, v[i])
    OBVIOUS
  <2> HIDE DEF step
  <2>3. PICK f \in [SUBSET (1..n) -> Done] : Folds(n, first, step, f)
    BY <1>3, <2>1, FoldExists
  <2>4. ASSUME NEW T \in SUBSET (1..n)
        PROVE  f[T] = IF T = {} THEN first ELSE Further(f[T \ {Max(T)}], v[Max(T)])
    <3>1. f[T] = IF T = {} THEN first ELSE step[f[T \ {Max(T)}], Max(T)]
      BY <2>3 DEF Folds
    <3>2. f[T \ {Max(T)}] \in Done
      OBVIOUS
    <3> QED BY <1>5, <2>2, <3>1, <3>2
  <2> QED BY <2>4
<1>7. ASSUME NEW g
      PROVE  Folding(g) <=> g = [T \in SUBSET (1..n) |-> IF T = {} THEN first ELSE Further(g[T \ {Max(T)}], v[Max(T)])]
  <2>1. [T \in SUBSET DOMAIN order |->
           IF T = {} THEN first ELSE Further(g[T \ {Factors!Max(T)}], factor[order[Factors!Max(T)]])]
        = [T \in SUBSET (1..n) |-> IF T = {} THEN first ELSE Further(g[T \ {Max(T)}], v[Max(T)])]
    BY <1>1, <1>4, <1>5, SameMax
  <2> QED BY <2>1
<1>8. Folding(f)
  <2>1. f = [T \in SUBSET (1..n) |-> IF T = {} THEN first ELSE Further(f[T \ {Max(T)}], v[Max(T)])]
    BY <1>6
  <2> HIDE DEF Folding
  <2> QED BY <1>7, <2>1
<1>9. Folding(h)
  <2> HIDE DEF Folding
  <2> QED BY <1>8
<1>10. h = [T \in SUBSET (1..n) |-> IF T = {} THEN first ELSE Further(h[T \ {Max(T)}], v[Max(T)])]
  <2> HIDE DEF Folding, h
  <2> QED BY <1>7, <1>9
<1> HIDE DEF Folding, h
<1>11. Leads(n, first, v, h)
  <2>1. 1..0 = {} /\ {} \in SUBSET (1..n)
    OBVIOUS
  <2>2. h[1..0] = first
    BY <1>10, <2>1
  <2>3. ASSUME NEW m \in 1..n PROVE h[1..m] = Further(h[1..(m - 1)], v[m])
    <3>1. /\ 1..m \in SUBSET (1..n) /\ 1..m # {}
          /\ Max(1..m) = m /\ (1..m) \ {m} = 1..(m - 1)
      BY FirstOnes
    <3>2. h[1..m] = Further(h[(1..m) \ {Max(1..m)}], v[Max(1..m)])
      BY <1>10, <3>1
    <3> QED BY <3>1, <3>2
  <2> QED BY <2>2, <2>3 DEF Leads
<1> QED BY <1>1, <1>2, <1>3, <1>11 DEF first

\* A share of r percent is the whole and a share of r - 100 percent, exactly.
LEMMA PartShifts ==
    ASSUME NEW p \in Int, NEW r \in Int
    PROVE  /\ Factors!Part(p, r) \in Int /\ Factors!Part(p, r - 100) \in Int
           /\ Factors!Part(p, r) = p + Factors!Part(p, r - 100)
<1> DEFINE x == p * r
           y == p * (r - 100)
<1>1. x \in Int /\ y \in Int /\ x = y + 100 * p
  OBVIOUS
<1>2. Factors!Part(p, r) = x \div 100 /\ Factors!Part(p, r - 100) = y \div 100
  BY DEF Factors!Part
<1> HIDE DEF x, y
<1>3. x \div 100 = p + y \div 100 /\ x \div 100 \in Int /\ y \div 100 \in Int
  <2>1. \A z \in Int : (z + 100 * p) \div 100 = p + z \div 100
    OBVIOUS
  <2> QED BY <1>1, <2>1
<1> QED BY <1>2, <1>3

\* After m factors the impacts lead to the premium but for m + 1 half cents.
Near(b, done, m) ==
    /\ done \in Done /\ Len(done.impacts) = m
    /\ 2 * (Factors!Summed(b, done.impacts) * Cent - done.premium) <= (m + 1) * Cent
    /\ 2 * (done.premium - Factors!Summed(b, done.impacts) * Cent) <= (m + 1) * Cent

LEMMA NearFurther ==
    ASSUME NEW b \in Int, NEW m \in Nat, NEW done, Near(b, done, m), NEW percent \in Int
    PROVE  Near(b, Further(done, percent), m + 1)
<1> DEFINE p == done.premium
           d == Factors!Part(p, percent - 100)
           c == Factors!Cents(d)
           s == Factors!Summed(b, done.impacts)
           next == Further(done, percent)
<1>1. done \in Done /\ p \in Int /\ done.impacts \in Seq(Int) /\ Len(done.impacts) = m
  BY DEF Near, Done
<1>2. /\ d \in Int /\ next.premium = p + d /\ next.impacts = Append(done.impacts, c)
  BY <1>1, PartShifts DEF Further
<1> HIDE DEF d
<1>3. c \in Int /\ 2 * (c * Cent - d) <= Cent /\ 2 * (d - c * Cent) <= Cent
  BY <1>2, SameCents, CentsAreClose
<1> HIDE DEF c
<1>4. s \in Int /\ Factors!Summed(b, Append(done.impacts, c)) = s + c
  BY <1>1, <1>3, TotalAppend
<1>5. 2 * (s * Cent - p) <= (m + 1) * Cent /\ 2 * (p - s * Cent) <= (m + 1) * Cent
  BY DEF Near
<1>6. next \in Done
  BY <1>1, FurtherTyped
<1>7. Len(next.impacts) = m + 1
  BY <1>1, <1>2, <1>3
<1> HIDE DEF next, s, p
<1>8. /\ 2 * ((s + c) * Cent - (p + d)) <= ((m + 1) + 1) * Cent
      /\ 2 * ((p + d) - (s + c) * Cent) <= ((m + 1) + 1) * Cent
  <2>1. m + 1 \in Nat /\ Cent \in Nat /\ p \in Int
    BY <1>1, CentIsPositive
  <2> QED BY <1>2, <1>3, <1>4, <1>5, <2>1, MoreLines
<1>9. Near(b, next, m + 1)
  BY <1>2, <1>4, <1>6, <1>7, <1>8 DEF Near
<1> QED BY <1>9 DEF next

LEMMA Cancels ==
    ASSUME NEW x \in Int, NEW n \in Nat, NEW k \in Nat \ {0}, x * k <= n * k
    PROVE  x <= n
<1>1. CASE x > n
  <2>1. (x - n) * k = x * k - n * k /\ x - n \in Nat \ {0}
    BY <1>1
  <2>2. \A d \in Nat \ {0} : d * k > 0
    OBVIOUS
  <2>3. (x - n) * k > 0 /\ x * k \in Int /\ n * k \in Int
    BY <2>1, <2>2
  <2> DEFINE xk == x * k
             nk == n * k
             e == (x - n) * k
  <2>4. e = xk - nk /\ e > 0 /\ xk \in Int /\ nk \in Int /\ xk <= nk
    BY <2>1, <2>3
  <2> HIDE DEF xk, nk, e
  <2> QED BY <2>4
<1> QED BY <1>1

LEMMA ImpactsDoExplain ==
    ASSUME Factors!FactorAssumption, FactorsInv
    PROVE  Factors!ImpactsExplain
<1> SUFFICES ASSUME call.of = "factors", answer = Factors!Factored(call.base, call.factor)
             PROVE  LET off == Factors!Summed(Factors!Cents(call.base), answer.impacts) - Factors!Cents(answer.premium)
                    IN  2 * (IF off < 0 THEN -off ELSE off) <= Len(Factors!FactorOrder) + 2
  BY DEF FactorsInv, Factors!ImpactsExplain, Factors!Answered
<1> DEFINE n == Len(Factors!FactorOrder)
           b == Factors!Cents(call.base)
<1>1. call.base \in Int /\ n \in Nat /\ \A i \in 1..n : call.factor[Factors!FactorOrder[i]] \in Int
  <2>1. call.base \in Rated /\ call.factor \in [Factors!ToSet(Factors!FactorOrder) -> Percents]
    BY CallTyped DEF FactorsInv
  <2>2. n \in Nat /\ \A i \in 1..n : Factors!FactorOrder[i] \in Factors!ToSet(Factors!FactorOrder)
    BY DEF Factors!FactorOrder, Factors!ToSet
  <2> HIDE DEF n
  <2> QED BY <2>1, <2>2 DEF Factors!FactorAssumption
<1> HIDE DEF n
<1>0. PICK v \in [1..n -> Int] : \E f :
        /\ Leads(n, [premium |-> call.base, impacts |-> <<>>], v, f)
        /\ Factors!Factored(call.base, call.factor) = f[1..n]
  BY <1>1, FactoredIs DEF n
<1>2. PICK f :
        /\ Leads(n, [premium |-> call.base, impacts |-> <<>>], v, f)
        /\ Factors!Factored(call.base, call.factor) = f[1..n]
  BY <1>0
<1>3. b \in Int /\ 2 * (b * Cent - call.base) <= Cent /\ 2 * (call.base - b * Cent) <= Cent
  BY <1>1, SameCents, CentsAreClose
<1> HIDE DEF b
<1>4. Near(b, f[1..0], 0)
  <2>1. f[1..0] = [premium |-> call.base, impacts |-> <<>>]
    BY <1>2 DEF Leads
  <2>2. f[1..0] \in Done /\ Len(f[1..0].impacts) = 0 /\ f[1..0].premium = call.base /\ f[1..0].impacts = <<>>
    BY <1>1, <2>1 DEF Done
  <2>3. Factors!Summed(b, <<>>) = b
    <3>1. <<>> \in Seq(Int) /\ 0 \in Int
      OBVIOUS
    <3> QED BY <1>3, <3>1, TotalAppend
  <2>4. (0 + 1) * Cent = Cent
    BY CentIsPositive
  <2> QED BY <1>3, <2>2, <2>3, <2>4 DEF Near
<1> DEFINE Have == {m \in Nat : Near(b, f[1..m], m)}
<1>5. 0 \in Have
  BY <1>4
<1>6. ASSUME NEW m \in 0..n, m \in Have, m < n PROVE m + 1 \in Have
  <2>1. m \in Nat /\ m + 1 \in Nat /\ m + 1 \in 1..n /\ (m + 1) - 1 = m
    BY <1>1, <1>6
  <2>2. f[1..(m + 1)] = Further(f[1..m], v[m + 1]) /\ v[m + 1] \in Int
    BY <1>2, <2>1 DEF Leads
  <2>3. Near(b, f[1..m], m)
    BY <1>6
  <2>4. Near(b, f[1..(m + 1)], m + 1)
    BY <1>3, <2>1, <2>2, <2>3, NearFurther
  <2> QED BY <2>1, <2>4
<1>7. Near(b, answer, n)
  <2> HIDE DEF Have
  <2>1. \A m \in 0..n : m \in Have
    BY <1>1, <1>5, <1>6, UpTo
  <2>2. n \in 0..n
    BY <1>1
  <2> QED BY <1>2, <2>1, <2>2 DEF Have
<1> DEFINE s == Factors!Summed(b, answer.impacts)
           p == answer.premium
           c == Factors!Cents(p)
<1>8. /\ p \in Int /\ s \in Int
      /\ 2 * (s * Cent - p) <= (n + 1) * Cent /\ 2 * (p - s * Cent) <= (n + 1) * Cent
  <2>1. p \in Int /\ answer.impacts \in Seq(Int)
    BY <1>7 DEF Near, Done
  <2>2. 0 \in Int
    OBVIOUS
  <2>3. s \in Int
    BY <1>3, <2>1, <2>2, TotalAppend
  <2> QED BY <1>7, <2>1, <2>3 DEF Near
<1> HIDE DEF p
<1>9. c \in Int /\ 2 * (c * Cent - p) <= Cent /\ 2 * (p - c * Cent) <= Cent
  BY <1>8, SameCents, CentsAreClose
<1> HIDE DEF s, c
<1>10. Cent \in Nat \ {0} /\ Cent \in Int
  BY CentIsPositive
<1>11. (2 * (s - c)) * Cent <= (n + 2) * Cent /\ (2 * (c - s)) * Cent <= (n + 2) * Cent
  <2> DEFINE sk == s * Cent
             ck == c * Cent
             nk == n * Cent
  <2>1. /\ (2 * (s - c)) * Cent = 2 * sk - 2 * ck /\ (2 * (c - s)) * Cent = 2 * ck - 2 * sk
        /\ (n + 2) * Cent = nk + 2 * Cent /\ (n + 1) * Cent = nk + Cent
        /\ sk \in Int /\ ck \in Int /\ nk \in Int
    BY <1>1, <1>8, <1>9, <1>10
  <2>2. /\ 2 * (sk - p) <= nk + Cent /\ 2 * (p - sk) <= nk + Cent
        /\ 2 * (ck - p) <= Cent /\ 2 * (p - ck) <= Cent
    BY <1>8, <1>9, <2>1
  <2> HIDE DEF sk, ck, nk
  <2>3. 2 * sk - 2 * ck <= nk + 2 * Cent /\ 2 * ck - 2 * sk <= nk + 2 * Cent
    BY <1>8, <1>10, <2>1, <2>2
  <2> QED BY <2>1, <2>3
<1>12. 2 * (s - c) <= n + 2 /\ 2 * (c - s) <= n + 2
  <2>1. 2 * (s - c) \in Int /\ 2 * (c - s) \in Int /\ n + 2 \in Nat
    BY <1>1, <1>8, <1>9
  <2> QED BY <1>10, <1>11, <2>1, Cancels
<1>13. 2 * (IF s - c < 0 THEN -(s - c) ELSE s - c) <= n + 2
  BY <1>1, <1>8, <1>9, <1>12
<1> QED BY <1>13 DEF s, c, p, n, b

-----------------------------------------------------------------------------
(* For any premiums, factors, ZIPs, profiles and covers: the impacts that   *)
(* are listed lead from the base to the premium but for the rounding of     *)
(* each, a territory is blended between neutral and its own losses, table   *)
(* and batch agree on every age, who is better is not dearer, mandated      *)
(* cover is complete and more of it not cheaper (calculators.py).           *)
THEOREM FactorsAreConsistent == Factors!Spec => []FactorsConsistent
<1> USE PricingAssumption
<1>1. FactorsInv => FactorsConsistent
  BY ImpactsDoExplain, TerritoriesBlend, AgesDoAgree, BetterIsCheaper, CoversAreClosed, CoversCost
     DEF FactorsConsistent, Factors!FactorsConsistent
<1>2. FactorsInv /\ [Factors!Next]_Factors!vars => FactorsInv'
  BY FactorsKeeps
<1> QED BY <1>1, <1>2, FactorsInit, PTL DEF Factors!Spec
=============================================================================
