------------------------------ MODULE MCAccess ------------------------------
(***************************************************************************)
(* The modules of Access share nothing, neither with each other nor with    *)
(* the pricing: each has a part of the run of its own, besides those of     *)
(* MCPricing.                                                               *)
(***************************************************************************)
EXTENDS MCPricing, Access

CONSTANTS b1, b2

\* The table of scopes, apart from what is requested of it.
Table == INSTANCE Scopes WITH Requests <- {}, Allowed <- {}, pc <- scopesAt

\* Up to three scopes, or one that is not defined; a client that may use all of
\* them, and one that may convert quotes only.
SomeRequests == {{a, b, c} : a, b, c \in Table!Scope} \cup {{"x"}}
SomeAllowed  == {Table!Scope, {"quote:read", "quote:convert"}}

-----------------------------------------------------------------------------
NoCodes  == Recovery!Init /\ issued = {b1}
NoScopes == scopes = {} /\ allowed = {} /\ expanded = {} /\ calls = <<>> /\ scopesAt = "called"

AccessInit ==
  \/ part \in {"mfa", "bio", "risk"} /\ NoCodes /\ NoScopes
  \/ part = "codes" /\ Recovery!Init /\ NoScopes
  \/ part = "scopes" /\ NoCodes /\ OAuth!Init

AllInit ==
  /\ Mfa!Init /\ Bio!Init /\ Risk!Init
  /\ \/ PricingInit /\ NoCodes /\ NoScopes
     \/ NoPricing /\ AccessInit

accessVars == <<mfaVars, codeVars, bioVars, scopeVars, riskVars>>

MfaNext    == part = "mfa" /\ Mfa!Next /\ UNCHANGED <<codeVars, bioVars, scopeVars, riskVars>>
CodesNext  == part = "codes" /\ Recovery!Next /\ UNCHANGED <<mfaVars, bioVars, scopeVars, riskVars>>
BioNext    == part = "bio" /\ Bio!Next /\ UNCHANGED <<mfaVars, codeVars, scopeVars, riskVars>>
ScopesNext == part = "scopes" /\ OAuth!Next /\ UNCHANGED <<mfaVars, codeVars, bioVars, riskVars>>
RiskNext   == part = "risk" /\ Risk!Next /\ UNCHANGED <<mfaVars, codeVars, bioVars, scopeVars>>

AccessNext == MfaNext \/ CodesNext \/ BioNext \/ ScopesNext \/ RiskNext

AllNext ==
  \/ PricingNext /\ UNCHANGED <<part, accessVars>>
  \/ AccessNext /\ UNCHANGED <<part, pricingVars>>

AllSpec == AllInit /\ [][AllNext]_<<part, pricingVars, accessVars>>

=============================================================================
