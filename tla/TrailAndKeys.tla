---------------------------- MODULE TrailAndKeys ----------------------------
(* The audit trail (AuditTrail) and the API keys (ApiKeys), which share     *)
(* nothing.                                                                 *)
EXTENDS AuditTrail

CONSTANTS Key, Caller, Hour, Day, Never   \* of the keys

VARIABLES row, life, entry, at, keys, old, revoked, raced

keyVars == <<row, life, entry, at, keys, old, revoked, raced>>

Keys == INSTANCE ApiKeys WITH Task <- Caller, pc <- at

ASSUME KeysAssumption == Keys!LivesAssumption

(* An entry in the cache is owed to an active key, or to a race: EntryIsOwed *)
(* of ApiKeys (validate_api_key, revoke_api_key, create_api_key).            *)
EntryIsOwed == Keys!EntryIsOwed
=============================================================================
