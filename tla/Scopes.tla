------------------------------- MODULE Scopes -------------------------------
(***************************************************************************)
(* core/auth/oauth2/scopes.py: the scopes, what each includes, and the      *)
(* validator.  A request is validated, which expands it depth first, and    *)
(* the scopes it is granted are expanded once more to check a permission.   *)
(***************************************************************************)
EXTENDS Sequences

CONSTANTS Requests,   \* the sets of scopes that are asked for
          Allowed     \* the sets that a client may be allowed

VARIABLES scopes,     \* the argument of the call: requested, or those of a token
          allowed,
          expanded,
          calls,      \* of add_scope_with_includes under way: what each has left to add
          pc

vars == <<scopes, allowed, expanded, calls, pc>>

\* SCOPES
Scope == {"user:read", "user:write", "quote:read", "quote:write", "quote:calculate",
  "quote:convert", "policy:read", "policy:write", "policy:cancel", "claim:read",
  "claim:write", "claim:approve", "analytics:read", "analytics:export",
  "admin:users", "admin:clients", "admin:system"}

\* what a scope includes directly
Includes(scope) ==
  CASE scope = "user:write"       -> {"user:read"}
    [] scope = "quote:write"      -> {"quote:read"}
    [] scope = "quote:calculate"  -> {"quote:read"}
    [] scope = "quote:convert"    -> {"quote:read", "policy:write"}
    [] scope = "policy:write"     -> {"policy:read"}
    [] scope = "policy:cancel"    -> {"policy:read", "policy:write"}
    [] scope = "claim:write"      -> {"claim:read"}
    [] scope = "claim:approve"    -> {"claim:read", "claim:write"}
    [] scope = "analytics:export" -> {"analytics:read"}
    [] scope = "admin:system"     -> {"admin:users", "admin:clients"}
    [] OTHER                      -> {}

\* get_required_scopes_for_operation, which every operation has one of
Required == [
  create_quote |-> "quote:write", read_quote |-> "quote:read",
  calculate_quote |-> "quote:calculate", convert_quote_to_policy |-> "quote:convert",
  create_policy |-> "policy:write", read_policy |-> "policy:read",
  update_policy |-> "policy:write", cancel_policy |-> "policy:cancel",
  create_claim |-> "claim:write", read_claim |-> "claim:read",
  update_claim |-> "claim:write", approve_claim |-> "claim:approve",
  read_profile |-> "user:read", update_profile |-> "user:write",
  view_analytics |-> "analytics:read", export_analytics |-> "analytics:export",
  manage_users |-> "admin:users", manage_clients |-> "admin:clients",
  system_admin |-> "admin:system"]

Init ==
  /\ scopes \in Requests /\ allowed \in Allowed
  /\ expanded = {} /\ calls = <<>> /\ pc = "called"

-----------------------------------------------------------------------------
\* validate_scopes, up to the expansion
Valid == scopes \subseteq Scope /\ scopes \subseteq allowed

Validates ==
  /\ pc = "called"
  /\ IF Valid THEN pc' = "validates" /\ calls' = <<scopes>>
              ELSE pc' = "refused" /\ UNCHANGED calls
  /\ UNCHANGED <<scopes, allowed, expanded>>

\* check_scope_permission, of the token that has the granted scopes
Checks ==
  /\ pc = "granted" /\ pc' = "checks"
  /\ scopes' = expanded /\ expanded' = {} /\ calls' = <<expanded>>
  /\ UNCHANGED allowed

\* add_scope_with_includes, called for a scope of the innermost loop; in which
\* order the lists name the scopes is left open
Rest(scope) == <<Head(calls) \ {scope}>> \o Tail(calls)

\* as if what an included scope includes were left out
Adds_Once(scope) ==
  /\ calls # <<>> /\ scope \in Head(calls)
  /\ IF scope \in expanded
     THEN calls' = Rest(scope) /\ UNCHANGED expanded
     ELSE /\ calls' = IF Len(calls) = 1 THEN <<Includes(scope)>> \o Rest(scope) ELSE Rest(scope)
          /\ expanded' = expanded \cup {scope}
  /\ UNCHANGED <<scopes, allowed, pc>>

Adds(scope) ==
  /\ calls # <<>> /\ scope \in Head(calls)
  /\ IF scope \in expanded
     THEN calls' = Rest(scope) /\ UNCHANGED expanded
     ELSE calls' = <<Includes(scope)>> \o Rest(scope) /\ expanded' = expanded \cup {scope}
  /\ UNCHANGED <<scopes, allowed, pc>>

\* the innermost loop has ended; with the outermost one, the call
Returns ==
  /\ calls # <<>> /\ Head(calls) = {}
  /\ calls' = Tail(calls)
  /\ pc' = IF calls' # <<>> THEN pc ELSE IF pc = "validates" THEN "granted" ELSE "checked"
  /\ UNCHANGED <<scopes, allowed, expanded>>

Next == Validates \/ Checks \/ (\E scope \in Scope : Adds(scope)) \/ Returns

Spec == Init /\ [][Next]_vars

-----------------------------------------------------------------------------
\* what a check answers
Permits(required) == required \in expanded

(* An expansion is closed under inclusion and has nothing that was not      *)
(* asked for or included by another of its scopes, and the scopes that were *)
(* granted are not expanded further when they are checked (expand_scopes,   *)
(* check_scope_permission).                                                 *)
ExpandIsClosure ==
  /\ pc \in {"granted", "checked"} =>
       /\ scopes \subseteq expanded
       /\ \A s \in expanded : Includes(s) \subseteq expanded
       /\ \A s \in expanded \ scopes : \E r \in expanded : s \in Includes(r)
  /\ pc = "checked" => expanded = scopes

(* The two tables fit: whoever may change, approve or convert something may *)
(* also read it and what comes of it (get_required_scopes_for_operation,    *)
(* check_scope_permission).                                                 *)
Reading == [
  create_quote |-> {"read_quote"}, calculate_quote |-> {"read_quote"},
  convert_quote_to_policy |-> {"read_quote", "create_policy", "read_policy"},
  update_policy |-> {"read_policy"}, cancel_policy |-> {"read_policy", "update_policy"},
  update_claim |-> {"read_claim"}, approve_claim |-> {"read_claim", "update_claim"},
  update_profile |-> {"read_profile"}, export_analytics |-> {"view_analytics"},
  system_admin |-> {"manage_users", "manage_clients"}]

WritersRead == pc = "checked" => \A op \in DOMAIN Reading :
  Permits(Required[op]) => \A other \in Reading[op] : Permits(Required[other])
=============================================================================
