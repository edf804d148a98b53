-------------------------- MODULE MCCentralDetector --------------------------
(* Two ranks a1 and a2 on one node and a third agent on another; one agent *)
(* sends two batches, and a second one that forks its chain, one a         *)
(* heartbeat after its batch, and one batch has lost its signature.        *)
EXTENDS CentralDetector, TLC

CONSTANTS a1, a2, a3, n1, n2, b1, b2, b3, b4, h1

MCNodeOf == a1 :> n1 @@ a2 :> n1 @@ a3 :> n2

Batch(id, agent, sequence, created, previous) ==
  [type |-> "telemetry_batch", id |-> id, agent |-> agent, sequence |-> sequence,
   created |-> created, previous |-> previous, observed |-> {created}, envelope |-> "ok"]

Heartbeat(id, agent, sequence, created, previous) ==
  [type |-> "heartbeat", id |-> id, agent |-> agent, sequence |-> sequence,
   created |-> created, previous |-> previous, observed |-> {}, envelope |-> "ok"]

MCMessages ==
  {Batch(b1, a1, 0, 0, NoBatch), Batch(b2, a1, 1, 2, b1),
   Batch(b2, a1, 1, 1, NoBatch),
   [Batch(b1, a1, 0, 0, NoBatch) EXCEPT !.envelope = "invalid_signature"],
   Batch(b3, a2, 0, 0, NoBatch), Heartbeat(h1, a2, 1, 2, b3),
   [Batch(b4, a3, 0, 1, NoBatch) EXCEPT !.observed = {0, 2}]}

(* One early window, one in the future of the first clocks, and one that   *)
(* aggregate_window refuses.                                               *)
MCWindows == {<<0, 2>>, <<2, 4>>, <<1, 1>>}
=============================================================================
