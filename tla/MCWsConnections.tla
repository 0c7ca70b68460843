-------------------------- MODULE MCWsConnections --------------------------
(* Instances of WsConnections: every connection belongs to one user.       *)
EXTENDS WsConnections, TLC

CONSTANTS c1, c2, u1

OneUser  == [c \in Conn |-> u1]
Symmetry == Permutations(Conn)
=============================================================================
