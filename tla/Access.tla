------------------------------- MODULE Access -------------------------------
(* The parts of a login, which share nothing: the challenges of a second    *)
(* factor (MfaChallenges), the recovery codes (RecoveryCodes), the          *)
(* biometric templates (Biometrics), the risk (RiskEngine) and the scopes   *)
(* of a token (Scopes).                                                     *)

CONSTANTS Task, None,
          Challenge, MaxAttempts, Life, KeptFor,  \* of the challenges
          Batch, Code,                            \* of the codes
          Template, MaxTemplates,                 \* of the templates
          Device, MaxFailures,                    \* of the risk
          Requests, Allowed                       \* of the scopes

VARIABLES entryOf, minutes, age, mfaAt, mfaAbout, mfaSeen, right, wrong, passed, crossed,
          codes, setup, issued, active, codeAt, key, hand, used, blurred,
          record, list, born, nameable, enrolled, bioAt, bioAbout, bioSeen,
          removed, revived, torn,
          devices, located, failures, assessed,
          scopes, allowed, expanded, calls, scopesAt

mfaVars  == <<entryOf, minutes, age, mfaAt, mfaAbout, mfaSeen, right, wrong, passed, crossed>>
codeVars == <<codes, setup, issued, active, codeAt, key, hand, used, blurred>>
bioVars  == <<record, list, born, nameable, enrolled, bioAt, bioAbout, bioSeen, removed, revived, torn>>
riskVars == <<devices, located, failures, assessed>>
scopeVars == <<scopes, allowed, expanded, calls, scopesAt>>

Mfa == INSTANCE MfaChallenges WITH
  Kept <- KeptFor, entry <- entryOf, pc <- mfaAt, left <- minutes,
  about <- mfaAbout, seen <- mfaSeen, raced <- crossed

Recovery == INSTANCE RecoveryCodes WITH pc <- codeAt

Bio == INSTANCE Biometrics WITH
  pc <- bioAt, listed <- nameable, about <- bioAbout, seen <- bioSeen, known <- enrolled

Risk == INSTANCE RiskEngine WITH known <- devices, last <- assessed

OAuth == INSTANCE Scopes WITH pc <- scopesAt

ASSUME FactorsAssumption ==
  Mfa!ChallengeAssumption /\ Recovery!ListsAssumption /\ Bio!TemplatesAssumption

(* Of MfaChallenges, RecoveryCodes and Biometrics, with their types: a      *)
(* challenge counts its answers and lasts as long as it may, a recovery     *)
(* code is accepted once, and records and list of the templates agree       *)
(* (verify_mfa_challenge, _verify_recovery_code, enroll_biometric,          *)
(* remove_biometric).                                                       *)
SecondFactorsHold ==
  /\ Mfa!TypeOK /\ Mfa!AnswersCount /\ Mfa!LastsSoLong
  /\ Recovery!TypeOK /\ Recovery!CodesOnce
  /\ Bio!TypeOK /\ Bio!TemplatesAgree /\ Bio!RemovedIsGone

(* RiskFits of RiskEngine: a worse sign never lowers the level, failures    *)
(* decide on the highest, and the method offered is one the level allows    *)
(* (assess_risk, _select_mfa_method).                                       *)
RiskFits == Risk!RiskFits

(* Of Scopes: a request is expanded to its closure, and whoever may change  *)
(* something may read it (expand_scopes, check_scope_permission).           *)
ScopesFit == OAuth!ExpandIsClosure /\ OAuth!WritersRead
=============================================================================
