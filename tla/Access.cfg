SPECIFICATION AllSpec
CONSTANTS
  Premiums = {0, 3330000}
  Rates = {10, 20, 50}
  Priorities = {1, 2}
  Maxima = {20, 40}
  MaxOffers = 3
  Cent = 1000
  Charged = {0, 9999}
  States = {"CA", "NY", "WA"}
  Caps <- SomeCaps
  YoungUntil <- SomeYouths
  Drivers <- SomeDrivers
  MaxDrivers = 2
  Fee = 2500
  Rated = {10000, 1234500}
  Percents = {50, 115, 130}
  Zips <- SomeZips
  Territories <- SomeTerritories
  Bases = {80, 100, 250}
  Profiles <- SomeProfiles
  State = {"CA", "NY", "FL", "TX", "MI", "OH"}
  Coverage = {"liability", "uninsured_motorist", "pip", "collision", "comprehensive"}
  Unanswered = unanswered
  Task = {t1, t2}
  None = none
  Challenge = {c1}
  MaxAttempts = 3
  Life = 5
  KeptFor = 1
  b1 = b1  b2 = b2
  Batch = {b1, b2}
  Code = {1, 2}
  Template = {x1, x2, x3}
  MaxTemplates = 2
  Device = {d1}
  MaxFailures = 5
  Requests <- SomeRequests
  Allowed <- SomeAllowed
INVARIANTS
  DiscountsFair ChargedFairly FactorsConsistent
  SecondFactorsHold RiskFits ScopesFit
CHECK_DEADLOCK FALSE
