--------------------------- MODULE MCTrailAndKeys ---------------------------
(* The trail and the keys have a part of the run each. *)
EXTENDS TrailAndKeys

VARIABLE part

BothInit == part \in {"trail", "keys"} /\ Init /\ Keys!Init

TrailNext == part = "trail" /\ Next /\ UNCHANGED <<part, keyVars>>
KeysNext  == part = "keys" /\ Keys!Next /\ UNCHANGED <<part, vars>>

BothSpec ==
  /\ BothInit
  /\ [][TrailNext \/ KeysNext]_<<part, vars, keyVars>>
  /\ WF_keyVars(part = "keys" /\ Keys!Tick)
  /\ \A t \in Caller : WF_keyVars(part = "keys" /\ at[t] # "idle" /\ Keys!Steps(t))

(* A revoked key is refused in the end: RefusedInTheEnd of ApiKeys           *)
(* (validate_api_key).                                                       *)
RefusedInTheEnd == Keys!RefusedInTheEnd
=============================================================================
