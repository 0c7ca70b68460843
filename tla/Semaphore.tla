----------------------------- MODULE Semaphore -----------------------------
(* What RedisConnectionManager promises: no more than Size requests have a  *)
(* connection slot at a time.  A slot may be lost with its holder, or be    *)
(* taken for nobody; a lost slot never comes back, and is never exceeded.   *)
EXTENDS Naturals, FiniteSets

CONSTANTS Request,   \* who asks for slots
          Size       \* how many slots there are

VARIABLES holders,   \* the requests that have a slot
          lost       \* how many slots are gone for good

InUse == Cardinality(holders) + lost

Init == holders = {} /\ lost = 0

Take(r) == /\ r \notin holders
           /\ InUse < Size
           /\ holders' = holders \cup {r}
           /\ UNCHANGED lost

Give(r) == /\ r \in holders
           /\ holders' = holders \ {r}
           /\ UNCHANGED lost

Lose(r) == /\ r \in holders
           /\ holders' = holders \ {r}
           /\ lost' = lost + 1

Waste == /\ InUse < Size
         /\ lost' = lost + 1
         /\ UNCHANGED holders

Next == (\E r \in Request : Take(r) \/ Give(r) \/ Lose(r)) \/ Waste

Spec == Init /\ [][Next]_<<holders, lost>>
=============================================================================
