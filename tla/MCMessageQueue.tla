--------------------------- MODULE MCMessageQueue ---------------------------
(* An instance of MessageQueue: messages of one priority, the last that a   *)
(* dequeue looks at.  The workers are interchangeable, and so are the       *)
(* messages.                                                                *)
EXTENDS MessageQueue, TLC

AllLeastUrgent == [m \in Msg |-> NPriority]

SameRoles == Permutations(Worker) \cup Permutations(Msg)
=============================================================================
