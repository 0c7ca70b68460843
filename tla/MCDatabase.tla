----------------------------- MODULE MCDatabase -----------------------------
(***************************************************************************)
(* Each of the two pools has a part of the run of its own.  Two tasks and   *)
(* the two holders that a warm-up leaves are the fewest that can hold a     *)
(* connection each while they wait for another one.                         *)
(***************************************************************************)
EXTENDS Database

VARIABLE part

BothInit == part \in {"replicas", "pool"} /\ Init /\ Pool!Init

ReplicasNext == part = "replicas" /\ Next /\ UNCHANGED <<part, poolVars>>
PoolNext     == part = "pool" /\ Pool!Next /\ UNCHANGED <<part, vars>>

BothSpec ==
  /\ BothInit
  /\ [][ReplicasNext \/ PoolNext]_<<part, vars, poolVars>>
  /\ \A r \in Request : WF_vars(part = "replicas" /\ Serves(r))
  /\ \A p \in Replica : /\ WF_vars(part = "replicas" /\ Answers(p))
                        /\ WF_vars(part = "replicas" /\ Cools(p))
  /\ WF_poolVars(part = "pool" /\ Pool!Closes)
  /\ \A t \in Task : /\ WF_poolVars(part = "pool" /\ Pool!Expires(t))
                     /\ WF_poolVars(part = "pool" /\ Pool!Wakes(t))
                     /\ WF_poolVars(part = "pool" /\ Pool!EndsTransaction(t))

(* CallsEnd and OpensUp, of DatabasePool. *)
PoolRecovers == Pool!CallsEnd /\ Pool!OpensUp
=============================================================================
