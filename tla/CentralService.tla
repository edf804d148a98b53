--------------------------- MODULE CentralService ---------------------------
(***************************************************************************)
(* The state of CentralIngestionService (central/server.py) and its        *)
(* operations: ingest, the wall clock it reads, and the loss of its        *)
(* memory.  The service keeps everything in process memory, so a restart   *)
(* forgets every accepted message.                                         *)
(*                                                                         *)
(* A message is the signed JSON envelope an agent builds.  Its "envelope"  *)
(* field is the outcome of the checks that look at the message alone       *)
(* (size, protocol version, registration, node binding, HMAC, session,     *)
(* type, schema): "ok" or the first refusal.  The digest the service       *)
(* stores for an accepted message is the message itself.                   *)
(***************************************************************************)
EXTENDS Integers, Sequences, FiniteSets

CONSTANTS
  Agents,         \* the registered agent identities
  Nodes,          \* the expected nodes
  NodeOf,         \* the node each agent is registered for
  MessageIds,     \* batch and heartbeat identifiers
  NoBatch,        \* "no previous batch" (Python's None)
  MaxClockSkew,   \* maximum_clock_skew_seconds
  StaleAfter,     \* stale_after_seconds
  MaxClock        \* bound of the model: the last instant of the server clock

ASSUME ServiceAssumption ==
  /\ NodeOf \in [Agents -> Nodes]
  /\ Nodes = {NodeOf[a] : a \in Agents}
  /\ NoBatch \notin MessageIds
  /\ MaxClockSkew \in Nat
  /\ StaleAfter \in Nat \ {0}
  /\ MaxClock \in Nat

VARIABLES
  clock,                     \* the server's UTC clock, in ticks
  last_sequence_by_agent,
  last_batch_by_agent,
  last_seen_by_node,
  last_seen_by_agent,
  accepted_message_digests,  \* the accepted messages; their ids are seen_message_ids
  accepted_samples_by_node,
  accepted_samples_by_agent

sampleVars == <<accepted_samples_by_node, accepted_samples_by_agent>>

memory == <<last_sequence_by_agent, last_batch_by_agent, last_seen_by_node,
            last_seen_by_agent, accepted_message_digests, sampleVars>>

serviceVars == <<clock, memory>>

-----------------------------------------------------------------------------

(* Absent dictionary entries. *)
NoSequence == -1
NeverSeen  == -1

Envelopes == {"ok", "payload_too_large", "unsupported_protocol_version",
              "unknown_agent", "node_identity_mismatch", "invalid_signature",
              "session_mismatch", "unknown_message_type", "invalid_message"}

Message ==
  [type     : {"telemetry_batch", "heartbeat"},
   id       : MessageIds,
   agent    : Agents,
   sequence : Nat,
   created  : Int,                        \* created_at_utc, the agent's clock
   previous : MessageIds \cup {NoBatch},  \* previous_batch_id / last_batch_id
   observed : SUBSET Int,                 \* observed_at_utc of the samples
   envelope : Envelopes]

IsBatch(m) == m.type = "telemetry_batch"

(* One entry of an accepted-samples list: a batch and its samples' times. *)
SampleEntry == [batch : MessageIds, observed : SUBSET Int]

seen_message_ids == {m.id : m \in accepted_message_digests}

-----------------------------------------------------------------------------

MemoryInit ==
  /\ last_sequence_by_agent    = [a \in Agents |-> NoSequence]
  /\ last_batch_by_agent       = [a \in Agents |-> NoBatch]
  /\ last_seen_by_node         = [n \in Nodes |-> NeverSeen]
  /\ last_seen_by_agent        = [a \in Agents |-> NeverSeen]
  /\ accepted_message_digests  = {}
  /\ accepted_samples_by_node  = [n \in Nodes |-> <<>>]
  /\ accepted_samples_by_agent = [a \in Agents |-> <<>>]

ServiceInit ==
  /\ clock = 0
  /\ MemoryInit

Distance(x, y) == IF x < y THEN y - x ELSE x - y

(* Mutant: the absolute value is forgotten. *)
SkewedIfOld(time) == clock - time > MaxClockSkew

Skewed(time) == Distance(clock, time) > MaxClockSkew

(* A message is behind, or beyond, the successor of the agent's last       *)
(* accepted sequence.  The first message of an agent may have any.         *)
StaleSequence(m) ==
  /\ last_sequence_by_agent[m.agent] # NoSequence
  /\ m.sequence <= last_sequence_by_agent[m.agent]

SequenceGap(m) ==
  /\ last_sequence_by_agent[m.agent] # NoSequence
  /\ m.sequence # last_sequence_by_agent[m.agent] + 1

(* Mutant: a batch that names no parent is not checked. *)
ChainMismatchIfNamed(m) ==
  /\ IsBatch(m)
  /\ m.previous # NoBatch
  /\ m.previous # last_batch_by_agent[m.agent]

(* Only batches are chained, and only to a batch accepted before them. *)
ChainMismatch(m) ==
  /\ IsBatch(m)
  /\ last_batch_by_agent[m.agent] # NoBatch
  /\ m.previous # last_batch_by_agent[m.agent]

Reasons ==
  (Envelopes \ {"ok"}) \cup {"already_accepted", "message_id_conflict", "stale_sequence",
    "sequence_gap", "clock_skew", "sample_clock_skew", "batch_chain_mismatch", "accepted"}

(* The reason code of ingest's acknowledgment, in the order of its early   *)
(* returns.                                                                *)
ReasonCode(m) ==
  IF m.envelope # "ok"                      THEN m.envelope
  ELSE IF m \in accepted_message_digests    THEN "already_accepted"
  ELSE IF m.id \in seen_message_ids         THEN "message_id_conflict"
  ELSE IF StaleSequence(m)                  THEN "stale_sequence"
  ELSE IF SequenceGap(m)                    THEN "sequence_gap"
  ELSE IF Skewed(m.created)                 THEN "clock_skew"
  ELSE IF \E t \in m.observed : Skewed(t)   THEN "sample_clock_skew"
  ELSE IF ChainMismatch(m)                  THEN "batch_chain_mismatch"
  ELSE "accepted"

(* Mutants: an agent ignores already_accepted, gives up what is stale, or  *)
(* gives up what is too old.                                               *)
PositiveIfNew(reason)     == reason = "accepted"
PositiveIfStale(reason)   == reason \in {"accepted", "already_accepted", "stale_sequence"}
PositiveIfSkewed(reason)  == reason \in {"accepted", "already_accepted", "clock_skew"}

(* The field "accepted" of an acknowledgment with this reason code. *)
Positive(reason) == reason \in {"accepted", "already_accepted"}

(* Mutant: the list of the node is forgotten. *)
StoreBatchOfAgent(m) ==
  /\ last_batch_by_agent' = [last_batch_by_agent EXCEPT ![m.agent] = m.id]
  /\ accepted_samples_by_agent' =
       [accepted_samples_by_agent EXCEPT
          ![m.agent] = Append(@, [batch |-> m.id, observed |-> m.observed])]
  /\ UNCHANGED accepted_samples_by_node

(* What a batch adds to the state before the bookkeeping common to all     *)
(* messages.                                                               *)
StoreBatch(m) ==
  LET entry == [batch |-> m.id, observed |-> m.observed]
      node  == NodeOf[m.agent]
  IN  /\ last_batch_by_agent' = [last_batch_by_agent EXCEPT ![m.agent] = m.id]
      /\ accepted_samples_by_node' =
           [accepted_samples_by_node EXCEPT ![node] = Append(@, entry)]
      /\ accepted_samples_by_agent' =
           [accepted_samples_by_agent EXCEPT ![m.agent] = Append(@, entry)]

(* Mutants: the identifier is recorded in place of the sequence, only a    *)
(* batch advances the counter, or a heartbeat does not refresh its node.   *)
RecordMessageOfBatches(m) ==
  /\ last_sequence_by_agent' =
       IF IsBatch(m) THEN [last_sequence_by_agent EXCEPT ![m.agent] = m.sequence]
       ELSE last_sequence_by_agent
  /\ last_seen_by_node' = [last_seen_by_node EXCEPT ![NodeOf[m.agent]] = clock]
  /\ last_seen_by_agent' = [last_seen_by_agent EXCEPT ![m.agent] = clock]
  /\ accepted_message_digests' = accepted_message_digests \cup {m}
RecordMessageId(m) ==
  /\ last_sequence_by_agent' = [last_sequence_by_agent EXCEPT ![m.agent] = m.id]
  /\ last_seen_by_node' = [last_seen_by_node EXCEPT ![NodeOf[m.agent]] = clock]
  /\ last_seen_by_agent' = [last_seen_by_agent EXCEPT ![m.agent] = clock]
  /\ accepted_message_digests' = accepted_message_digests \cup {m}
RecordMessageOfAgent(m) ==
  /\ last_sequence_by_agent' = [last_sequence_by_agent EXCEPT ![m.agent] = m.sequence]
  /\ last_seen_by_node' =
       IF IsBatch(m) THEN [last_seen_by_node EXCEPT ![NodeOf[m.agent]] = clock]
       ELSE last_seen_by_node
  /\ last_seen_by_agent' = [last_seen_by_agent EXCEPT ![m.agent] = clock]
  /\ accepted_message_digests' = accepted_message_digests \cup {m}

(* The bookkeeping common to batches and heartbeats. *)
RecordMessage(m) ==
  /\ last_sequence_by_agent' = [last_sequence_by_agent EXCEPT ![m.agent] = m.sequence]
  /\ last_seen_by_node' = [last_seen_by_node EXCEPT ![NodeOf[m.agent]] = clock]
  /\ last_seen_by_agent' = [last_seen_by_agent EXCEPT ![m.agent] = clock]
  /\ accepted_message_digests' = accepted_message_digests \cup {m}

Accept(m) ==
  /\ IF IsBatch(m) THEN StoreBatch(m) ELSE UNCHANGED <<last_batch_by_agent, sampleVars>>
  /\ RecordMessage(m)

(* ingest: one call runs to its end before the next one starts. *)
Ingest(m) ==
  /\ IF ReasonCode(m) = "accepted" THEN Accept(m) ELSE UNCHANGED memory
  /\ UNCHANGED clock

(* The process that holds the service restarts: its memory is empty. *)
ServiceRestart ==
  /\ last_sequence_by_agent'    = [a \in Agents |-> NoSequence]
  /\ last_batch_by_agent'       = [a \in Agents |-> NoBatch]
  /\ last_seen_by_node'         = [n \in Nodes |-> NeverSeen]
  /\ last_seen_by_agent'        = [a \in Agents |-> NeverSeen]
  /\ accepted_message_digests'  = {}
  /\ accepted_samples_by_node'  = [n \in Nodes |-> <<>>]
  /\ accepted_samples_by_agent' = [a \in Agents |-> <<>>]
  /\ UNCHANGED clock

Tick ==
  /\ clock < MaxClock
  /\ clock' = clock + 1
  /\ UNCHANGED memory

-----------------------------------------------------------------------------

(* The types of the service's state, for the type invariants of the        *)
(* modules built on it.                                                    *)
ServiceTypeOK ==
  /\ clock \in Nat
  /\ last_sequence_by_agent \in [Agents -> Nat \cup {NoSequence}]
  /\ last_batch_by_agent \in [Agents -> MessageIds \cup {NoBatch}]
  /\ last_seen_by_node \in [Nodes -> Nat \cup {NeverSeen}]
  /\ last_seen_by_agent \in [Agents -> Nat \cup {NeverSeen}]
  /\ accepted_message_digests \subseteq Message
  /\ accepted_samples_by_node \in [Nodes -> Seq(SampleEntry)]
  /\ accepted_samples_by_agent \in [Agents -> Seq(SampleEntry)]

=============================================================================
