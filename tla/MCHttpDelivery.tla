--------------------------- MODULE MCHttpDelivery ---------------------------
(* Two agents of one node; their clocks agree with the server's or are one *)
(* tick ahead.                                                             *)
EXTENDS HttpDelivery, TLC

CONSTANTS a1, a2, n1

MCNodeOf == [a \in Agents |-> n1]
MCOffset == [a \in Agents |-> IF a = a1 THEN 0 ELSE 1]
MCMessageIds == Agents \X (0 .. MaxStarts) \X (0 .. MaxSequence - 1)
=============================================================================
