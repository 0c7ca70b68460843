----------------------------- MODULE MCPricing -----------------------------
(***************************************************************************)
(* The three parts of Pricing, each with a part of the run of its own.      *)
(***************************************************************************)
EXTENDS Pricing, TLC

VARIABLE part

\* A driver without a mark, the marks by themselves at the edges of their
\* bands, and two with many at once.
Careful == [dui |-> 0, violations |-> 0, accidents |-> 0, age |-> 40, licensed |-> 9, lapse |-> 0]

Marked == {[Careful EXCEPT !.dui = n] : n \in 1..3}
  \cup {[Careful EXCEPT !.violations = v, !.accidents = a] : v \in 1..2, a \in 0..2}
  \cup {[Careful EXCEPT !.age = n] : n \in {17, 18, 20, 21, 22, 23, 25}}
  \cup {[Careful EXCEPT !.licensed = n] : n \in 0..3}
  \cup {[Careful EXCEPT !.lapse = n] : n \in {7, 8, 30, 31, 90, 91}}

Reckless == [dui |-> 1, violations |-> 1, accidents |-> 1, age |-> 18, licensed |-> 2, lapse |-> 8]
Worst    == [dui |-> 3, violations |-> 2, accidents |-> 2, age |-> 17, licensed |-> 0, lapse |-> 91]

SomeDrivers == {Careful, Reckless, Worst} \cup Marked
SomeCaps    == "CA" :> 150 @@ "NY" :> 175 @@ "WA" :> 200
SomeYouths  == "CA" :> 25 @@ "NY" :> 26 @@ "WA" :> 25

\* A ZIP each that is dearer, much dearer and much cheaper than its base, and
\* one that is not listed; profiles at the edges of every band.
SomeTerritories == "90210" :> [cost |-> 120, credibility |-> 80]
            @@ "10001" :> [cost |-> 900, credibility |-> 100]
            @@ "60601" :> [cost |-> 10, credibility |-> 30]

SomeZips == DOMAIN SomeTerritories \cup {"00501"}

SomeProfiles ==
  [score: {299, 300, 599, 600, 649, 650, 699, 700, 759, 760, 850}, paid: {40, 100},
   used: {10, 11, 30, 31, 90}, years: {2, 20}, inquiries: {0, 3}]

NoDiscounts  == base = 0 /\ offers = <<>> /\ cap = 20 /\ Init
NoFactors    == call = [of |-> "age", key |-> 16] /\ answer = Unanswered
NoSurcharges == premium = 0 /\ state = "CA" /\ drivers = <<>> /\ Charges!Init

NoPricing == NoDiscounts /\ NoSurcharges /\ NoFactors

PricingInit ==
  \/ part = "discounts" /\ Init /\ NoSurcharges /\ NoFactors
  \/ part = "surcharges" /\ NoDiscounts /\ Charges!Init /\ NoFactors
  \/ part = "factors" /\ NoDiscounts /\ NoSurcharges /\ Factors!Init

pricingVars == <<vars, surchargeVars, factorVars>>

DiscountsNext  == part = "discounts" /\ Next /\ UNCHANGED <<surchargeVars, factorVars>>
SurchargesNext == part = "surcharges" /\ Charges!CalculatesAll /\ UNCHANGED <<vars, factorVars>>
FactorsNext    == part = "factors" /\ Factors!Next /\ UNCHANGED <<vars, surchargeVars>>

PricingNext == DiscountsNext \/ SurchargesNext \/ FactorsNext
=============================================================================
