-------------------------- MODULE DiscountStacking --------------------------
(***************************************************************************)
(* services/rating/calculators.py: DiscountCalculator, the loop that stacks *)
(* the discounts of a policy in the order of their priority.  Amounts are   *)
(* exact, in units of which a cent has Cent; a rate is in percent.          *)
(***************************************************************************)
EXTENDS Integers, Sequences, SequencesExt

CONSTANTS Premiums,     \* base premiums, in units
          Rates,        \* of discounts
          Priorities,
          Maxima,       \* max_total_discount of a call, and of a state's rules
          MaxOffers,    \* bound: discounts of one policy
          Cent          \* units in a cent

ASSUME RateAssumption == /\ Premiums \subseteq Nat /\ Priorities \subseteq Nat
                         /\ Rates \subseteq 0..100 /\ Maxima \subseteq 0..100
                         /\ MaxOffers \in Nat /\ Cent \in Nat \ {0}

VARIABLES base,       \* base_premium
          offers,     \* applicable_discounts, as they are given
          cap,        \* the maximum that counts: the call's or the state's
          left,       \* offers the loop has not come to
          applied,    \* applied_discounts: which offer, and its rounded amount
          remaining,  \* remaining_premium
          total,      \* total_discount_amount
          pc

vars == <<base, offers, cap, left, applied, remaining, total, pc>>

Offer == [rate: Rates, stackable: BOOLEAN, priority: Priorities]

Part(amount, percent) == (amount * percent) \div 100

\* quantize: to the nearest cent, a half to the even one
Cents(amount) ==
  LET cents == amount \div Cent
      twice == 2 * (amount % Cent)
  IN  IF twice > Cent \/ (twice = Cent /\ cents % 2 = 1) THEN cents + 1 ELSE cents

TypeOK ==
  /\ base \in Premiums /\ cap \in Maxima
  /\ offers \in Seq(Offer) /\ Len(offers) <= MaxOffers
  /\ left \subseteq DOMAIN offers
  /\ applied \in Seq([offer: DOMAIN offers, cents: Int])
  /\ remaining \in Int
  /\ total \in Nat          \* StackedDiscounts refuses a negative one
  /\ pc \in {"called", "loops", "ok", "err"}

Init ==
  /\ base \in Premiums
  /\ offers \in UNION {[1..n -> Offer] : n \in 0..MaxOffers}
  /\ cap \in Maxima
  /\ left = DOMAIN offers
  /\ applied = <<>> /\ remaining = base /\ total = 0
  /\ pc = "called"

-----------------------------------------------------------------------------
Starts ==
  /\ pc = "called"
  /\ pc' = IF offers = <<>> THEN "ok" ELSE IF base <= 0 THEN "err" ELSE "loops"
  /\ UNCHANGED <<base, offers, cap, left, applied, remaining, total>>

\* sorted by priority, and stable
Before(i, j) == \/ offers[i].priority < offers[j].priority
                \/ offers[i].priority = offers[j].priority /\ i <= j

Comes(i) ==
  /\ pc = "loops" /\ i \in left
  /\ \A j \in left : Before(i, j)
  /\ left' = left \ {i}
  /\ UNCHANGED <<base, offers, cap>>

Limit == Part(base, cap)

\* an excess is cut down to the limit, from either side
Discounted(i) ==
  LET amount == Part(remaining, offers[i].rate)
  IN  IF total + amount > Limit THEN Limit - total ELSE amount

Stacks(i) ==
  /\ offers[i].stackable
  /\ applied' = Append(applied, [offer |-> i, cents |-> Cents(Discounted(i))])
  /\ total' = total + Discounted(i)
  /\ remaining' = remaining - Discounted(i)
  /\ pc' = IF total' >= Limit \/ left' = {} THEN "ok" ELSE "loops"

Exclusive(i) == Part(base, offers[i].rate)

Replaces_Adds(i) ==
  /\ ~ offers[i].stackable /\ Exclusive(i) > total
  /\ applied' = Append(applied, [offer |-> i, cents |-> Cents(Exclusive(i))])
  /\ total' = Exclusive(i)
  /\ pc' = IF left' = {} THEN "ok" ELSE "loops"
  /\ UNCHANGED remaining

\* A better exclusive discount takes the place of what was applied so far.
Replaces(i) ==
  /\ ~ offers[i].stackable /\ Exclusive(i) > total
  /\ applied' = <<[offer |-> i, cents |-> Cents(Exclusive(i))]>>
  /\ total' = Exclusive(i)
  /\ pc' = IF left' = {} THEN "ok" ELSE "loops"
  /\ UNCHANGED remaining

Passes(i) ==
  /\ ~ offers[i].stackable /\ Exclusive(i) <= total
  /\ pc' = IF left' = {} THEN "ok" ELSE "loops"
  /\ UNCHANGED <<applied, remaining, total>>

Next == \/ Starts
        \/ \E i \in DOMAIN offers : Comes(i) /\ (Stacks(i) \/ Replaces(i) \/ Passes(i))

Spec == Init /\ [][Next]_vars

-----------------------------------------------------------------------------
(* Whatever the order, the total is above the maximum only when a single    *)
(* exclusive discount is all of it (calculate_stacked_discounts).           *)
Bounded ==
  \/ total <= Limit
  \/ \E i \in DOMAIN offers : ~ offers[i].stackable /\ total = Exclusive(i)

(* The amounts listed to the customer add up to the total but for the       *)
(* rounding of each to a cent, also after an exclusive discount has         *)
(* replaced some and another has been stacked upon it                       *)
(* (applied_discounts, total_discount_amount).                              *)
Summed(lines) == FoldLeft(LAMBDA sum, a : sum + a.cents, 0, lines)

AddUp ==
  LET listed == Summed(applied) * Cent
      off    == IF listed > total THEN listed - total ELSE total - listed
  IN  2 * off <= Len(applied) * Cent

(* Both: what the customer is told of the discounts, and what it can cost.  *)
DiscountsFair == Bounded /\ AddUp

(* Discounts that all stack leave what multiplying their complements        *)
(* leaves, or the maximum: their priorities make no difference to the       *)
(* customer, but for a unit each at most that the divisions round           *)
(* ("Apply to remaining premium", calculate_stacked_discounts).  A test     *)
(* wants the rates to add up instead: see RatesAdd.                         *)
Compounded == FoldLeft(LAMBDA amount, o : amount - Part(amount, o.rate), base, offers)

OrderIsFree ==
  pc = "ok" /\ (\A i \in DOMAIN offers : offers[i].stackable) =>
    LET due == IF base - Compounded > Limit THEN Limit ELSE base - Compounded
    IN  total \in due - Len(offers) .. due + Len(offers)

(* "30% total" of 10, 15 and 5 percent (test_discount_stacking_within_limit *)
(* in tests/unit/test_rating_calculator.py): as long as the maximum is not  *)
(* reached, discounts that stack take the sum of their rates.  Refuted: the *)
(* code applies each to what the ones before it have left, so that the      *)
(* 1000.00 of the test get 273.25 and not the 300.00 it asserts.            *)
RatesAdd ==
  LET percent == FoldLeft(LAMBDA sum, o : sum + o.rate, 0, offers)
  IN  pc = "ok" /\ percent <= cap /\ (\A i \in DOMAIN offers : offers[i].stackable) =>
        total = Part(base, percent)
=============================================================================
