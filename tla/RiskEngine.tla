----------------------------- MODULE RiskEngine -----------------------------
(***************************************************************************)
(* core/auth/mfa/risk_engine.py and the choice of a method in manager.py:   *)
(* the assessment of one user's logins, with what it remembers in the       *)
(* cache, its score, the level and the methods that the level allows.       *)
(* Factors are in hundredths, weights in hundredths, scores in              *)
(* ten-thousandths.  Of the signs that the code looks for only those that   *)
(* _update_risk_factors keeps are here.                                     *)
(***************************************************************************)
EXTENDS Naturals, Sequences, FiniteSets

CONSTANTS Device, MaxFailures, None

VARIABLES known,     \* devices in the cache
          located,   \* whether last_location is in the cache
          failures,  \* failed_attempts, which others count
          last       \* the last assessment

vars == <<known, located, failures, last>>

Level == <<"low", "medium", "high", "critical">>
Method == {"webauthn", "totp", "sms", "recovery"}

\* What the parts of an assessment may come to.
Factors == [device: {0, 70, 100}, location: {0, 40, 60}, network: {0, 30},
            velocity: {20 * n : n \in 0..5}]

Init == known = {} /\ located = FALSE /\ failures = 0 /\ last = None

-----------------------------------------------------------------------------
Smaller(m, n) == IF m < n THEN m ELSE n

\* The sum of the weights: a factor of location counts for two of them.
Score(f) == Smaller(10000,
  30 * f.device + (25 + 40) * f.location + 20 * f.velocity + 20 * f.network)

\* In doubles 0.3 + 0.04 + 0.06 is less than 0.4, the one sum of these that
\* ends on the wrong side of its threshold.
RoundedDown(f) == f = [device |-> 100, location |-> 0, network |-> 30, velocity |-> 20]

LevelOf(f) ==
  CASE Score(f) >= 9000 -> 4
    [] Score(f) \in 7000..8999 -> 3
    [] Score(f) \in 4000..6999 /\ ~RoundedDown(f) -> 2
    [] OTHER -> 1

Recommended(level) ==
  CASE level = 1 -> {}
    [] level = 2 -> {"totp", "sms"}
    [] level = 3 -> {"totp", "webauthn"}
    [] level = 4 -> {"webauthn"}

\* _select_mfa_method, of the methods that a user has set up
Priority == <<"webauthn", "totp", "sms", "recovery">>

First(methods) == IF methods = {} THEN None ELSE
  Priority[CHOOSE i \in DOMAIN Priority :
    Priority[i] \in methods /\ \A j \in 1..(i - 1) : Priority[j] \notin methods]

\* What the user prefers goes before what the level asks for.
Selected_AsWanted(available, level, wanted) ==
  IF wanted \in available THEN wanted
  ELSE First(IF Recommended(level) = {} THEN available ELSE available \cap Recommended(level))

Selected(available, level, wanted) ==
  LET recommended == Recommended(level)
      methods == IF recommended = {} THEN available ELSE available \cap recommended
  IN  IF wanted \in methods THEN wanted ELSE First(methods)

-----------------------------------------------------------------------------
\* A failing get of the cache is a sign that is dropped for the device, and
\* one that counts for the location; a failing set forgets what was seen.
DeviceRisk(d, reads) ==
  IF d = None THEN 70 ELSE IF reads /\ d \notin known THEN 100 ELSE 0

LocationRisk(reads, writes) ==
  IF reads /\ ~located THEN 60 ELSE IF reads /\ writes THEN 0 ELSE 40

\* assess_risk, from a device or without an id of one
Assesses(d, safe) == \E reads, writes, places, stores, counts \in BOOLEAN :
  LET f == [device   |-> DeviceRisk(d, reads),
            location |-> LocationRisk(places, stores),
            network  |-> IF safe THEN 0 ELSE 30,
            velocity |-> IF counts THEN Smaller(20 * failures, 100) ELSE 0]
  IN  /\ last' = [factors |-> f, level |-> LevelOf(f), failures |-> failures,
                  familiar |-> d \in known /\ located /\ failures = 0]
      /\ known' = IF d # None /\ reads /\ writes THEN known \cup {d} ELSE known
      /\ located' = (located \/ (places /\ stores))
      /\ UNCHANGED failures

\* Other parts of a login count failures; entries expire.
FailsToLogIn == failures < MaxFailures /\ failures' = failures + 1 /\ UNCHANGED <<known, located, last>>
Forgets ==
  /\ known' \in SUBSET known /\ located' \in {FALSE, located} /\ failures' \in {0, failures}
  /\ UNCHANGED last

Next ==
  \/ FailsToLogIn \/ Forgets
  \/ \E d \in Device \cup {None}, safe \in BOOLEAN : Assesses(d, safe)

Spec == Init /\ [][Next]_vars

-----------------------------------------------------------------------------
(* A sign that is worse never gives a lower level, whatever the sums in     *)
(* floating point (_calculate_risk_score, _determine_risk_level).           *)
WorseIsNotLower == last # None => \A g \in Factors :
  (\A x \in DOMAIN g : g[x] >= last.factors[x]) => LevelOf(g) >= last.level

(* Only failed logins take a login to the critical level, four at least;    *)
(* and one from a known place and device without any stays at the lowest,   *)
(* whatever the cache fails to tell (assess_risk).  A test wants it one     *)
(* higher for a user without a second factor: see FamiliarIsMedium.         *)
FailuresDecide == last # None =>
  /\ last.level = 4 => last.failures >= 4
  /\ last.familiar => last.level = 1

(* A method is offered whenever the user has one that the level allows, and *)
(* never another (_select_mfa_method).                                      *)
OfferFits == last # None => \A available \in SUBSET Method, wanted \in Method :
  LET chosen == Selected(available, last.level, wanted)
      fitting == IF last.level = 1 THEN available ELSE available \cap Recommended(last.level)
  IN  IF fitting = {} THEN chosen = None ELSE chosen \in fitting

(* "Only risk factor should be no_mfa (0.3) since device and location are   *)
(* known", at level MEDIUM (test_assess_risk_trusted_network in             *)
(* tests/unit/test_mfa.py).  Refuted: _update_risk_factors drops no_mfa,    *)
(* which names no category, so such a login scores 0 and is LOW; and 0.3    *)
(* would be below the threshold of MEDIUM.                                  *)
FamiliarIsMedium == last # None => (last.familiar => last.level = 2)

(* All three: what is asked of a login fits the signs of its risk.          *)
RiskFits == WorseIsNotLower /\ FailuresDecide /\ OfferFits
=============================================================================
