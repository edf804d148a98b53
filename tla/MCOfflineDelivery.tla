-------------------------- MODULE MCOfflineDelivery --------------------------
(* Two agents of one node; the clock of the second is two ticks ahead of   *)
(* the server's, one more than the service allows.                         *)
EXTENDS OfflineDelivery, TLC

CONSTANTS a1, a2, n1

MCNodeOf == [a \in Agents |-> n1]
MCOffset == [a \in Agents |-> IF a = a1 THEN 0 ELSE 2]
MCMessageIds == Agents \X (0 .. MaxStarts) \X (0 .. MaxSequence - 1)
=============================================================================
