----------------------------- MODULE Surcharges -----------------------------
(***************************************************************************)
(* services/rating/surcharge_calculator.py: what the drivers of a policy    *)
(* add to its premium, and the cap of the state on it.  Rates are in        *)
(* percent and amounts in cents; the division of the cap is rounded down,   *)
(* where the code keeps ten digits until it rounds to cents.                *)
(*                                                                          *)
(* A VehicleInfo has none of the attributes that a vehicle is surcharged    *)
(* for, so no policy has those surcharges.                                  *)
(***************************************************************************)
EXTENDS Integers, Sequences, SequencesExt

CONSTANTS Premiums,     \* base premiums, in cents
          States,
          Caps,         \* get_state_caps, of each state
          YoungUntil,   \* young_driver_age_limits, of each state
          Drivers,      \* [dui, violations, accidents, age, licensed, lapse]
          MaxDrivers,   \* bound: drivers of one policy
          Fee           \* sr22_filing_fee, in cents

SurchargeAssumption ==
  /\ Premiums \subseteq Int /\ Fee \in Nat /\ MaxDrivers \in Nat
  /\ Caps \in [States -> Nat] /\ YoungUntil \in [States -> Nat]
  /\ Drivers \subseteq [dui: Nat, violations: Nat, accidents: Nat,
                       age: Nat, licensed: Nat, lapse: Nat]

VARIABLES base, state, drivers,   \* the arguments
          listed,                 \* surcharges: [flat, amount] of each
          total, pc

vars == <<base, state, drivers, listed, total, pc>>

Rate(percent) == [flat |-> FALSE, amount |-> (base * percent) \div 100]
OnlyIf(condition, surcharge) == IF condition THEN surcharge ELSE <<>>

(* dui_convictions: by their number, with a filing fee for each driver *)
Dui(d) == OnlyIf(d.dui > 0,
            << Rate(CASE d.dui = 1 -> 50 [] d.dui = 2 -> 75 [] OTHER -> 100),
               [flat |-> TRUE, amount |-> Fee] >>)

HighRisk(d) ==
  LET score == 2 * d.violations + 3 * d.accidents
  IN  OnlyIf(score >= 3,
        << Rate(IF score >= 8 THEN 40 ELSE IF score >= 5 THEN 25 ELSE 15) >>)

Young_FromEighteen(d) ==
  OnlyIf(d.age < YoungUntil[state],
    << Rate(CASE d.age \in 18..20 -> 35 [] d.age \in 21..22 -> 20 [] OTHER -> 10) >>)

Young(d) ==
  OnlyIf(d.age < YoungUntil[state],
    << Rate(CASE d.age < 18 -> 50
              [] d.age \in 18..20 -> 35
              [] d.age \in 21..22 -> 20
              [] OTHER -> 10) >>)

Inexperienced(d) ==
  OnlyIf(d.licensed < 3,
    << Rate(CASE d.licensed = 0 -> 30 [] d.licensed = 1 -> 20 [] OTHER -> 10) >>)

(* Once for the policy, by the longest lapse of its drivers *)
Longest(ds) == Max({0} \cup {ds[i].lapse : i \in DOMAIN ds})

Lapse(ds) ==
  OnlyIf(Longest(ds) > 0,
    << Rate(CASE Longest(ds) > 90 -> 25
              [] Longest(ds) \in 31..90 -> 15
              [] Longest(ds) \in 8..30 -> 10
              [] OTHER -> 5) >>)

\* calculate_all_surcharges, before the cap
Uncapped(ds) ==
  FlattenSeq([i \in DOMAIN ds |-> Dui(ds[i])])
    \o FlattenSeq([i \in DOMAIN ds |-> HighRisk(ds[i])])
    \o FlattenSeq([i \in DOMAIN ds |-> Young(ds[i])])
    \o FlattenSeq([i \in DOMAIN ds |-> Inexperienced(ds[i])])
    \o Lapse(ds)

Sum(surcharges) == FoldLeft(LAMBDA sum, s : sum + s.amount, 0, surcharges)
Flat(surcharges) ==
  FoldLeft(LAMBDA sum, s : sum + (IF s.flat THEN s.amount ELSE 0), 0, surcharges)
Limit == (base * Caps[state]) \div 100

Scaled(surcharges, by) ==
  [i \in DOMAIN surcharges |->
    IF surcharges[i].flat THEN surcharges[i]
    ELSE [surcharges[i] EXCEPT !.amount = (@ * Limit) \div by]]

(* _apply_state_surcharge_caps: the fees are not scaled, but they count.    *)
Capped(surcharges) ==
  IF Sum(surcharges) <= Limit THEN surcharges ELSE Scaled(surcharges, Sum(surcharges))

-----------------------------------------------------------------------------
Init ==
  /\ base \in Premiums /\ state \in States
  /\ drivers \in UNION {[1..n -> Drivers] : n \in 0..MaxDrivers}
  /\ listed = <<>> /\ total = 0 /\ pc = "called"

CalculatesAll ==
  /\ pc = "called"
  /\ IF base <= 0 THEN pc' = "err" /\ UNCHANGED <<listed, total>>
     ELSE /\ pc' = "ok"
          /\ listed' = Capped(Uncapped(drivers))
          /\ total' = Sum(listed')
  /\ UNCHANGED <<base, state, drivers>>

Spec == Init /\ [][CalculatesAll]_vars

-----------------------------------------------------------------------------
(* The cap takes nothing from a policy that is below it, brings any other   *)
(* down to it but for the fees, which it does not scale, and never lists an *)
(* amount that was not due (_apply_state_surcharge_caps).                   *)
CapOnlyCaps == pc = "ok" =>
  LET due == Uncapped(drivers)
  IN  /\ Sum(due) <= Limit => listed = due
      /\ total <= Limit + Flat(due)
      /\ Sum(due) > Limit => total + Len(due) >= Limit
      /\ Len(listed) = Len(due)
      /\ \A i \in DOMAIN due : listed[i].amount <= due[i].amount

(* A worse record is never cheaper: whatever band, flag, lapse or cap a     *)
(* driver falls under, the policy with a driver who is no better in any     *)
(* respect costs no less, up to the rounding (calculate_all_surcharges).    *)
NoBetter(d, e) ==
  /\ d.dui >= e.dui /\ d.violations >= e.violations /\ d.accidents >= e.accidents
  /\ d.age <= e.age /\ d.licensed <= e.licensed /\ d.lapse >= e.lapse

WorseIsNotCheaper == pc = "ok" =>
  \A i \in DOMAIN drivers : \A e \in Drivers : NoBetter(drivers[i], e) =>
    Sum(Capped(Uncapped([drivers EXCEPT ![i] = e]))) <= total + Len(listed)

(* What a test and the table of the caps say: no policy of a state is       *)
(* surcharged more than its maximum.  Refuted: the fees go on top.          *)
WithinStateMaximum == total <= Limit
=============================================================================
