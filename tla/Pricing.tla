------------------------------- MODULE Pricing -------------------------------
(* The stacking of the discounts (DiscountStacking), the surcharges         *)
(* (Surcharges) and the rating factors (RatingFactors), which share nothing *)
(* but the cent.                                                            *)
EXTENDS DiscountStacking

CONSTANTS Charged, States, Caps, YoungUntil, Drivers, MaxDrivers, Fee,  \* of the surcharges
          Rated, Percents, Zips, Territories, Bases, Profiles, State, Coverage,  \* of the factors
          Unanswered

VARIABLES premium, state, drivers, listed, sum, at,    \* of the surcharges
          call, answer                                 \* of the factors

surchargeVars == <<premium, state, drivers, listed, sum, at>>
factorVars    == <<call, answer>>

Charges == INSTANCE Surcharges WITH
  Premiums <- Charged, base <- premium, total <- sum, pc <- at

Factors == INSTANCE RatingFactors WITH
  Premiums <- Rated, Listed <- Territories, None <- Unanswered

ASSUME PricingAssumption == Charges!SurchargeAssumption /\ Factors!FactorAssumption

(* What a customer pays by: the order of the discounts is free; the cap on  *)
(* the surcharges only caps, and who is worse is not cheaper                *)
(* (calculate_stacked_discounts, calculate_all_surcharges).                 *)
ChargedFairly == OrderIsFree /\ Charges!CapOnlyCaps /\ Charges!WorseIsNotCheaper

(* What the factors of a premium promise, each by the name of its function  *)
(* in RatingFactors.                                                        *)
FactorsConsistent == Factors!FactorsConsistent
=============================================================================
