---------------------------- MODULE RecoveryCodes ----------------------------
(***************************************************************************)
(* core/auth/mfa/manager.py: the recovery codes of one user, a list in a    *)
(* row of user_mfa_settings that a verification reads, shortens and writes  *)
(* back, and that a confirmed TOTP setup and generate_recovery_codes        *)
(* replace.  One step per await.                                            *)
(***************************************************************************)
EXTENDS Naturals

CONSTANTS Task,
          Batch, Code,   \* the lists that are handed out, and the codes of one
          None

VARIABLES codes,         \* recovery_codes_encrypted
          setup,         \* the list of the pending TOTP setup, in the cache
          issued,        \* lists that were handed out
          active,        \* lists that a confirmed setup has stored
          pc, key, hand, \* of a task: its await, its code, the list it has read
          used,          \* how often a code was accepted
          blurred        \* a list was written over a newer one

vars == <<codes, setup, issued, active, pc, key, hand, used, blurred>>

ListsAssumption == None \notin Batch

Recovery == Batch \X Code
ListOf(b) == {b} \X Code

TypeOK ==
  /\ codes \subseteq Recovery /\ setup \in Batch \cup {None}
  /\ issued \subseteq Batch /\ active \subseteq issued
  /\ pc \in [Task -> {"idle", "reads", "spends", "activates", "drops"}]
  /\ key \in [Task -> Recovery \cup Batch \cup {None}]
  /\ hand \in [Task -> SUBSET Recovery]
  /\ used \in [Recovery -> 0..2] /\ blurred \in BOOLEAN

\* A user who has activated one of the lists.
Init ==
  /\ \E b \in Batch : codes = ListOf(b) /\ issued = {b} /\ active = {b}
  /\ setup = None
  /\ pc = [t \in Task |-> "idle"] /\ key = [t \in Task |-> None]
  /\ hand = [t \in Task |-> {}]
  /\ used = [k \in Recovery |-> 0] /\ blurred = FALSE

Goes(t, from, to) == pc[t] = from /\ pc' = [pc EXCEPT ![t] = to]
Finishes(t, from) ==
  /\ Goes(t, from, "idle")
  /\ key' = [key EXCEPT ![t] = None] /\ hand' = [hand EXCEPT ![t] = {}]

-----------------------------------------------------------------------------
(* _verify_recovery_code *)

Given(t) == \E b \in issued, n \in Code :
  /\ Goes(t, "idle", "reads")
  /\ key' = [key EXCEPT ![t] = <<b, n>>]
  /\ UNCHANGED <<codes, setup, issued, active, hand, used, blurred>>

Reads(t) ==
  /\ key[t] \in codes
  /\ Goes(t, "reads", "spends")
  /\ hand' = [hand EXCEPT ![t] = codes]
  /\ UNCHANGED <<codes, setup, issued, active, key, used, blurred>>

Rejects(t) ==
  /\ key[t] \notin codes
  /\ Finishes(t, "reads")
  /\ UNCHANGED <<codes, setup, issued, active, used, blurred>>

Spends(t) ==
  /\ Finishes(t, "spends")
  /\ codes' = hand[t] \ {key[t]}
  /\ blurred' = (blurred \/ codes # hand[t])
  /\ used' = [used EXCEPT ![key[t]] = IF @ < 2 THEN @ + 1 ELSE 2]
  /\ UNCHANGED <<setup, issued, active>>

-----------------------------------------------------------------------------
(* setup_totp, verify_totp_setup and generate_recovery_codes *)

SetsUp == \E b \in Batch \ issued :
  /\ setup' = b /\ issued' = issued \cup {b}
  /\ UNCHANGED <<codes, active, pc, key, hand, used, blurred>>

Expires ==
  /\ setup # None /\ setup' = None
  /\ UNCHANGED <<codes, issued, active, pc, key, hand, used, blurred>>

\* the setup is in the cache, and the code of the application fits
Confirms(t) ==
  /\ setup # None
  /\ Goes(t, "idle", "activates")
  /\ key' = [key EXCEPT ![t] = setup]
  /\ UNCHANGED <<codes, setup, issued, active, hand, used, blurred>>

\* A second confirmation of one setup stores its codes a second time.
Activates(t) == LET b == key[t] IN
  /\ Goes(t, "activates", "drops")
  /\ codes' = ListOf(b) /\ active' = active \cup {b}
  /\ blurred' = (blurred \/ b \in active)
  /\ UNCHANGED <<setup, issued, key, hand, used>>

Drops(t) ==
  /\ Finishes(t, "drops")
  /\ setup' = None
  /\ UNCHANGED <<codes, issued, active, used, blurred>>

Regenerates == \E b \in Batch \ issued :
  /\ codes' = ListOf(b) /\ issued' = issued \cup {b}
  /\ UNCHANGED <<setup, active, pc, key, hand, used, blurred>>

\* An await raises, before it took effect: the call returns an Err.
Fails(t) ==
  /\ pc[t] # "idle"
  /\ Finishes(t, pc[t])
  /\ UNCHANGED <<codes, setup, issued, active, used, blurred>>

Next ==
  \/ SetsUp \/ Expires \/ Regenerates
  \/ \E t \in Task :
       \/ Given(t) \/ Reads(t) \/ Rejects(t) \/ Spends(t)
       \/ Confirms(t) \/ Activates(t) \/ Drops(t) \/ Fails(t)

Spec == Init /\ [][Next]_vars

-----------------------------------------------------------------------------
(* Unless a list was written over a newer one, or one setup was confirmed   *)
(* twice, a recovery code is accepted once at most, whatever lists replace  *)
(* each other meanwhile (_verify_recovery_code, verify_totp_setup).         *)
CodesOnce == ~blurred => \A k \in Recovery : used[k] <= 1
=============================================================================
