------------------------------ MODULE Database ------------------------------
(* The two pools of the database layer, which share nothing: the read       *)
(* replicas (ReplicaPool) and the main pool (DatabasePool).                 *)
EXTENDS ReplicaPool

CONSTANTS Task, Size, Warmed, Attempts   \* of the main pool

VARIABLES free, open, warmed, at, op, conn, tx, tries, active

poolVars == <<free, open, warmed, at, op, conn, tx, tries, active>>

Pool == INSTANCE DatabasePool WITH pc <- at

ASSUME PoolsAssumption == Pool!PoolAssumption

(* HoldersAccounted of DatabasePool, and the types of both pools (acquire,  *)
(* acquire_read, transaction, execute_with_retry).                          *)
HoldersAccounted == TypeOK /\ Pool!TypeOK /\ Pool!HoldersAccounted
=============================================================================
