--------------------------- MODULE RatingFactors ---------------------------
(***************************************************************************)
(* services/rating/calculators.py: the functions that turn a risk into the  *)
(* factors of its premium.  A call is a record, of names the function, and  *)
(* Answers gives its result.  Factors and rates are in percent.  A premium  *)
(* has Cent units in a cent; below a unit it is rounded down, where the     *)
(* code keeps ten digits.                                                   *)
(***************************************************************************)
EXTENDS Integers, Sequences, SequencesExt, FiniteSetsExt

CONSTANTS Premiums, Percents, Cent,  \* base premiums and the factors on them
          Zips, Listed,              \* zip_territories: [cost, credibility] of a ZIP
          Bases,                     \* base_loss_cost: nothing else is rated
          Profiles,                  \* [score, paid, used, years, inquiries]
          State, Coverage,
          None                       \* no answer yet

FactorAssumption ==
  /\ Premiums \subseteq Int /\ Percents \subseteq Int /\ Cent \in Nat \ {0}
  /\ \A zip \in DOMAIN Listed : Listed[zip].cost \in Nat /\ Listed[zip].credibility \in 0..100
  /\ Bases \subseteq Nat \ {0}
  /\ Profiles \subseteq [score: Int, paid: Int, used: Int, years: Int, inquiries: Int]

VARIABLES call, answer

vars == <<call, answer>>

Within(low, high, x) == IF x < low THEN low ELSE IF x > high THEN high ELSE x
Part(amount, percent) == (amount * percent) \div 100

\* quantize: to the nearest cent, a half to the even one
Cents(amount) ==
  LET cents == amount \div Cent
      twice == 2 * (amount % Cent)
  IN  IF twice > Cent \/ (twice = Cent /\ cents % 2 = 1) THEN cents + 1 ELSE cents

-----------------------------------------------------------------------------
FactorOrder == <<"territory", "driver_age", "experience", "vehicle_age",
                 "safety_features", "credit", "violations", "accidents">>

\* The impact of a factor is what it changes at its place in the order.
Factored_Late(base, factor) ==
  FoldLeft(LAMBDA done, name :
             LET premium == Part(done.premium, factor[name])
             IN  [premium |-> premium,
                  impacts |-> Append(done.impacts, Cents(Part(premium, factor[name] - 100)))],
           [premium |-> base, impacts |-> <<>>], FactorOrder)

Factored(base, factor) ==
  FoldLeft(LAMBDA done, name :
             [premium |-> Part(done.premium, factor[name]),
              impacts |-> Append(done.impacts, Cents(Part(done.premium, factor[name] - 100)))],
           [premium |-> base, impacts |-> <<>>], FactorOrder)

\* A ZIP that is not listed has the loss cost of the base, whatever that is.
Territory(zip, base) ==
  LET cost == IF zip \in DOMAIN Listed THEN Listed[zip].cost ELSE base
      credibility == IF zip \in DOMAIN Listed THEN Listed[zip].credibility ELSE 50
  IN  Within(50, 300, Part((100 * cost) \div base, credibility) + (100 - credibility))

-----------------------------------------------------------------------------
\* The table of precompute_lookup_tables, of the ages 16 to 99 ...
AgeTable == [age \in 16..99 |->
  Within(50, 300, CASE age < 25 -> 200 - 10 * (age - 16)
                    [] age \in 25..65 -> 90
                    [] OTHER -> 90 + 2 * (age - 65))]

\* ... and what lookup_factor reads from it, for a key in half years: twice
\* the factor, halfway between two ages their mean.
AgeLookedUp(key) ==
  LET below == {age \in DOMAIN AgeTable : 2 * age <= key}
      above == {age \in DOMAIN AgeTable : 2 * age > key}
  IN  IF below = {} THEN 2 * AgeTable[Min(above)]
      ELSE IF above = {} \/ 2 * Max(below) = key THEN 2 * AgeTable[Max(below)]
      ELSE AgeTable[Max(below)] + AgeTable[Min(above)]

\* batch_calculate_factors, which admits an age up to 100
AgeBatched(age) ==
  Within(50, 300, IF age < 25 THEN 200 - 10 * (age - 16)
                  ELSE IF age <= 65 THEN 90 ELSE 90 + 2 * (age - 65))

-----------------------------------------------------------------------------
Prohibited == {"CA", "HI", "MA", "MD", "MI", "MT", "NC", "OR", "UT", "WA"}

\* calculate_credit_factor, where it is an error None
CreditFactor(score, state) ==
  IF state \in Prohibited \/ score \notin 300..850 THEN None
  ELSE CASE score >= 760 -> 85
         [] score \in 700..759 -> 95
         [] score \in 650..699 -> 100
         [] score \in 600..649 -> 110
         [] OTHER -> 125

\* In hundredths of a point, until it is cut to points.
InsuranceScore(p) ==
  LET payment  == 35 * (p.paid - 50)
      use      == IF p.used <= 10 THEN 600 ELSE IF p.used <= 30 THEN 0 ELSE -15 * (p.used - 30)
      length   == 15 * Within(0, 30, 2 * p.years)
      inquired == -50 * p.inquiries
  IN  Within(200, 997, (100 * p.score + payment + use + length + inquired) \div 100)

-----------------------------------------------------------------------------
Mandatory(state) ==
  {"liability"}
    \cup (IF state \in {"CA", "NY", "MI"} THEN {"uninsured_motorist"} ELSE {})
    \cup (IF state \in {"NY", "FL", "MI"} THEN {"pip"} ELSE {})

\* apply_mandatory_coverages
Required(state, selected) ==
  LET all == selected \cup Mandatory(state)
  IN  IF "collision" \in all /\ state \in {"CA", "NY"} THEN all \cup {"comprehensive"} ELSE all

\* calculate_catastrophe_loading, in thousandths of a percent, by the first
\* digit of the ZIP.  Hail is never loaded on a 7, nor fire on an 8 or a 9.
Catastrophe(digit, covers, dwelling) ==
  LET peril == CASE digit \in {2, 3, 7} -> IF covers \cap {"comprehensive", "collision"} # {} THEN 115 ELSE 100
                 [] digit \in {8, 9}    -> IF "comprehensive" \in covers THEN 108 ELSE 100
                 [] digit = 6           -> IF "comprehensive" \in covers THEN 105 ELSE 100
                 [] OTHER               -> 100
      built == CASE dwelling.built = "masonry" -> 95 [] dwelling.built = "mobile_home" -> 125 [] OTHER -> 100
      roof  == IF dwelling.roof = "impact_resistant" THEN 90 ELSE 100
  IN  Part(Part(1000 * peril, built), roof)

Dwelling == [built: {"wood_frame", "masonry", "mobile_home"}, roof: {"asphalt_shingle", "impact_resistant"}]

-----------------------------------------------------------------------------
Call ==
  [of: {"factors"}, base: Premiums, factor: [ToSet(FactorOrder) -> Percents]]
    \cup [of: {"territory"}, zip: Zips, base: Bases]
    \cup [of: {"age"}, key: 32..200]
    \cup [of: {"credit"}, profile: Profiles, state: State]
    \cup [of: {"coverages"}, state: State, selected: SUBSET Coverage]
    \cup [of: {"catastrophe"}, digit: 0..9, covers: SUBSET Coverage, dwelling: Dwelling]

Init == call \in Call /\ answer = None

Is(function) == call.of = function /\ answer = None /\ UNCHANGED call

FactorsApplied  == Is("factors") /\ answer' = Factored(call.base, call.factor)
TerritoryRated  == Is("territory") /\ answer' = Territory(call.zip, call.base)
AgeFound        == Is("age") /\ answer' = AgeLookedUp(call.key)
CreditScored    == Is("credit") /\ answer' = [score  |-> InsuranceScore(call.profile),
                                              factor |-> CreditFactor(call.profile.score, call.state)]
CoveragesAdded  == Is("coverages") /\ answer' = Required(call.state, call.selected)
CatastropheLoad == Is("catastrophe") /\ answer' = Catastrophe(call.digit, call.covers, call.dwelling)

Next == \/ FactorsApplied \/ TerritoryRated \/ AgeFound
        \/ CreditScored \/ CoveragesAdded \/ CatastropheLoad

Spec == Init /\ [][Next]_vars

-----------------------------------------------------------------------------
Answered(function) == call.of = function /\ answer # None

(* The impacts that are listed to the customer lead from the base to the    *)
(* final premium, but for the rounding of each to a cent: none is counted   *)
(* on another amount than the one it changed                                *)
(* (apply_multiplicative_factors).                                          *)
Summed(amount, impacts) == FoldLeft(+, amount, impacts)

ImpactsExplain == Answered("factors") =>
  LET off == Summed(Cents(call.base), answer.impacts) - Cents(answer.premium)
  IN  2 * (IF off < 0 THEN -off ELSE off) <= Len(FactorOrder) + 2

(* A territory is never rated farther from neutral than its own losses,     *)
(* and one that is not listed is neutral whatever the base is               *)
(* (calculate_territory_factor).                                            *)
TerritoryBlends == Answered("territory") =>
  LET cost == IF call.zip \in DOMAIN Listed THEN Listed[call.zip].cost ELSE call.base
      own  == Within(50, 300, (100 * cost) \div call.base)
  IN  answer \in Min({own, 100}) .. Max({own, 100})

(* The two ways to an age factor, the table and the batch, agree for every  *)
(* age of the table, and in between the table is their mean: the bounds     *)
(* that the lookup brackets a key with are the next ages to it              *)
(* (lookup_factor, batch_calculate_factors).                                *)
AgesAgree == Answered("age") /\ call.key <= 2 * 99 =>
  answer = AgeBatched(call.key \div 2) + AgeBatched((call.key + 1) \div 2)

(* Who is better in every respect has no lower a score and no higher a      *)
(* factor, across every band and clamp (calculate_insurance_score,          *)
(* calculate_credit_factor).                                                *)
NoWorse(p, q) == /\ p.score >= q.score /\ p.paid >= q.paid /\ p.used <= q.used
                 /\ p.years >= q.years /\ p.inquiries <= q.inquiries

BetterIsNotDearer == Answered("credit") =>
  \A p \in Profiles : NoWorse(p, call.profile) =>
    /\ InsuranceScore(p) >= answer.score
    /\ None \notin {answer.factor, CreditFactor(p.score, call.state)}
         => CreditFactor(p.score, call.state) <= answer.factor

(* What the state mandates is complete when it has been added: quoting the  *)
(* result again adds nothing, and no cover that was chosen is dropped       *)
(* (apply_mandatory_coverages).                                             *)
CoverIsClosed == Answered("coverages") =>
  /\ Required(call.state, answer) = answer
  /\ \A more \in SUBSET Coverage :
       call.selected \subseteq more => answer \subseteq Required(call.state, more)

(* One cover more never makes a catastrophe cheaper                         *)
(* (calculate_catastrophe_loading).                                         *)
CoverIsNotCheaper == Answered("catastrophe") =>
  \A cover \in Coverage : Catastrophe(call.digit, call.covers \cup {cover}, call.dwelling) >= answer

(* All of them, each of its own function.                                   *)
FactorsConsistent ==
  ImpactsExplain /\ TerritoryBlends /\ AgesAgree /\ BetterIsNotDearer /\ CoverIsClosed /\ CoverIsNotCheaper
=============================================================================
