------------------------------ MODULE NodeAgent ------------------------------
(***************************************************************************)
(* The state of the NodeAgents (central/agent.py), one per GPU, and what   *)
(* collect_once, flush and heartbeat do to it.  An agent object keeps its  *)
(* sequence and its queue in memory; a restarted process starts a new one. *)
(*                                                                         *)
(* Identifiers are fresh (uuid4): <<agent, start of the agent, sequence>>. *)
(***************************************************************************)
EXTENDS CentralService, SequencesExt

CONSTANTS
  Offset,              \* how far each agent's clock is ahead of the server's
  CollectedEnvelopes,  \* the envelopes a collected batch may have
  MaxSequence,         \* bound: messages an agent object may make
  MaxStarts            \* bound: restarts of one agent

ASSUME NodeAgentAssumption ==
  /\ Offset \in [Agents -> Int]
  /\ CollectedEnvelopes \subseteq Envelopes
  /\ MaxSequence \in Nat
  /\ MaxStarts \in Nat
  /\ MessageIds = Agents \X (0 .. MaxStarts) \X (0 .. MaxSequence - 1)

VARIABLES
  next_sequence,
  last_batch_id,
  pending,         \* the queue of signed batches not yet acknowledged
  starts,          \* how often the agent's process was restarted
  made,            \* history: the batches each agent queued, in their order
  acknowledged,    \* history: the batches each agent removed from its queue
  received         \* history: the batches the service ever accepted

agentVars == <<next_sequence, last_batch_id, pending, starts, made, acknowledged>>

-----------------------------------------------------------------------------

AgentInit ==
  /\ next_sequence = [a \in Agents |-> 0]
  /\ last_batch_id = [a \in Agents |-> NoBatch]
  /\ pending       = [a \in Agents |-> <<>>]
  /\ starts        = [a \in Agents |-> 0]
  /\ made          = [a \in Agents |-> <<>>]
  /\ acknowledged  = [a \in Agents |-> <<>>]
  /\ received      = {}

AgentClock(a) == clock + Offset[a]

FreshId(a) == <<a, starts[a], next_sequence[a]>>

(* Mutants: the queue is not looked at, or sequences begin at -1. *)
NewBatchAfterAcknowledged(a, envelope) ==
  [type     |-> "telemetry_batch",
   id       |-> FreshId(a),
   agent    |-> a,
   sequence |-> next_sequence[a],
   created  |-> AgentClock(a),
   previous |-> last_batch_id[a],
   observed |-> {AgentClock(a)},
   envelope |-> envelope]
NewBatchBeforeFirst(a, envelope) ==
  [NewBatchAfterAcknowledged(a, envelope) EXCEPT !.sequence = next_sequence[a] - 1]

(* A batch is linked to the last one queued, or else to the last one       *)
(* acknowledged; its samples are read when it is made.                     *)
NewBatch(a, envelope) ==
  [type     |-> "telemetry_batch",
   id       |-> FreshId(a),
   agent    |-> a,
   sequence |-> next_sequence[a],
   created  |-> AgentClock(a),
   previous |-> IF pending[a] # <<>> THEN Last(pending[a]).id ELSE last_batch_id[a],
   observed |-> {AgentClock(a)},
   envelope |-> envelope]

NewHeartbeat(a) ==
  [type     |-> "heartbeat",
   id       |-> FreshId(a),
   agent    |-> a,
   sequence |-> next_sequence[a],
   created  |-> AgentClock(a),
   previous |-> last_batch_id[a],
   observed |-> {},
   envelope |-> "ok"]

TakeSequence(a) ==
  /\ next_sequence[a] < MaxSequence
  /\ next_sequence' = [next_sequence EXCEPT ![a] = @ + 1]

(* collect_once: a reading that fails or does not validate raises before   *)
(* anything is changed.                                                    *)
QueueBatch(a) ==
  \E envelope \in CollectedEnvelopes :
    /\ TakeSequence(a)
    /\ pending' = [pending EXCEPT ![a] = Append(@, NewBatch(a, envelope))]
    /\ made' = [made EXCEPT ![a] = Append(@, FreshId(a))]
    /\ UNCHANGED <<last_batch_id, starts, acknowledged>>

(* flush, once the head of the queue is acknowledged as accepted. *)
PopPending(a) ==
  /\ last_batch_id' = [last_batch_id EXCEPT ![a] = Head(pending[a]).id]
  /\ pending' = [pending EXCEPT ![a] = Tail(@)]
  /\ acknowledged' = [acknowledged EXCEPT ![a] = Append(@, Head(pending[a]).id)]
  /\ UNCHANGED <<next_sequence, starts, made>>

(* A new NodeAgent object takes the place of the old one. *)
StartAgain(a) ==
  /\ starts[a] < MaxStarts
  /\ next_sequence' = [next_sequence EXCEPT ![a] = 0]
  /\ last_batch_id' = [last_batch_id EXCEPT ![a] = NoBatch]
  /\ pending' = [pending EXCEPT ![a] = <<>>]
  /\ starts' = [starts EXCEPT ![a] = @ + 1]
  /\ UNCHANGED <<made, acknowledged>>

(* ingest, with the history of the batches it accepted. *)
Receive(m) ==
  /\ Ingest(m)
  /\ received' = IF ReasonCode(m) = "accepted" /\ IsBatch(m)
                 THEN received \cup {m.id} ELSE received

-----------------------------------------------------------------------------

AgentTypeOK ==
  /\ next_sequence \in [Agents -> 0 .. MaxSequence]
  /\ last_batch_id \in [Agents -> MessageIds \cup {NoBatch}]
  /\ starts \in [Agents -> 0 .. MaxStarts]
  /\ \A a \in Agents : ToSet(pending[a]) \subseteq Message
  /\ \A a \in Agents : ToSet(made[a]) \cup ToSet(acknowledged[a]) \subseteq MessageIds
  /\ received \subseteq MessageIds

Ids(messages) == [i \in DOMAIN messages |-> messages[i].id]

BatchIds(list) == [i \in DOMAIN list |-> list[i].batch]

(* The object an agent's batch at place i of "made" belongs to. *)
ObjectAt(a, i) == IF i \in DOMAIN made[a] THEN made[a][i][2] ELSE starts[a]

(* Agents, transport and service together as a pipe: what an agent made    *)
(* and neither keeps nor saw acknowledged was lost with a restart.         *)
Pipe == INSTANCE TelemetryPipe WITH
  produced <- made,
  stored   <- [a \in Agents |-> BatchIds(accepted_samples_by_agent[a])],
  lost     <- [a \in Agents |->
                 ToSet(made[a]) \ (ToSet(acknowledged[a]) \cup ToSet(Ids(pending[a])))],
  begins   <- [a \in Agents |->
                 {i \in 1 .. Len(made[a]) + 1 : i = 1 \/ ObjectAt(a, i) # ObjectAt(a, i - 1)}]

=============================================================================
