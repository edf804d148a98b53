-------------------------- MODULE CentralIngestion --------------------------
(***************************************************************************)
(* The ingestion service facing any client: each message of Messages may   *)
(* reach it at any time, any number of times and in any order, among ticks *)
(* of its clock and restarts.  Retries, delayed duplicates, restarted      *)
(* agents and misconfigured ones are all orders of such messages.          *)
(***************************************************************************)
EXTENDS CentralService

CONSTANT Messages   \* the messages clients may post

(* The schema check refuses a batch without samples. *)
ASSUME MessagesAssumption ==
  /\ Messages \subseteq Message
  /\ \A m \in Messages : IsBatch(m) /\ m.envelope = "ok" => m.observed # {}

Next ==
  \/ \E m \in Messages : Ingest(m)
  \/ ServiceRestart
  \/ Tick

Spec == ServiceInit /\ [][Next]_serviceVars

-----------------------------------------------------------------------------

TypeOK == ServiceTypeOK

(* The accepted messages of one agent. *)
AcceptedFrom(a) == {m \in accepted_message_digests : m.agent = a}

(* The batch that stands at position i of an agent's list is an accepted   *)
(* message of that agent.                                                  *)
IsLogged(m, a, i) ==
  /\ m \in AcceptedFrom(a)
  /\ IsBatch(m)
  /\ m.id = accepted_samples_by_agent[a][i].batch

(* Every agent's telemetry is kept once and as one chain: each batch in    *)
(* the list names the batch before it as its parent and has a higher       *)
(* sequence, whatever was repeated, delayed or interleaved with heartbeats *)
(* (ingest's digest, sequence and previous_batch_id checks together).      *)
TelemetryIsOneChain ==
  \A a \in Agents :
    \A i, j \in DOMAIN accepted_samples_by_agent[a] :
      \A m, n \in accepted_message_digests :
        i < j /\ IsLogged(m, a, i) /\ IsLogged(n, a, j) =>
          /\ m.id # n.id
          /\ m.sequence < n.sequence
          /\ j = i + 1 => n.previous = m.id

(* No accepted message of an agent is missing between another one and the  *)
(* counter, and no two share a sequence.                                   *)
SequencesHaveNoHole ==
  \A a \in Agents :
    /\ \A m, n \in AcceptedFrom(a) : m.sequence = n.sequence => m = n
    /\ \A m \in AcceptedFrom(a) :
         \A s \in m.sequence .. last_sequence_by_agent[a] :
           \E n \in AcceptedFrom(a) : n.sequence = s

(* The sequences accepted from an agent are an interval that ends at       *)
(* last_sequence_by_agent, each used once, so "nothing is missing between  *)
(* two accepted messages" can be read off the counter alone, whichever     *)
(* batches and heartbeats came first, twice or late.                       *)
AcceptedSequencesAreAnInterval ==
  /\ SequencesHaveNoHole
  /\ \A a \in Agents : \A m \in AcceptedFrom(a) : m.sequence <= last_sequence_by_agent[a]

(* The batches of a list of samples, and the agents of a node. *)
Batches(list) == {list[i].batch : i \in DOMAIN list}
AgentsOf(n)   == {a \in Agents : NodeOf[a] = n}

(* The node view and the agent view are two copies of the same facts:      *)
(* a node was last seen when its most recent agent was, and a batch is in  *)
(* the node's list exactly when it is in the list of one of its agents.    *)
(* aggregate_window counts samples in one and reads health in the other.   *)
NodeViewAgreesWithAgents ==
  \A n \in Nodes :
    /\ \E a \in AgentsOf(n) : last_seen_by_node[n] = last_seen_by_agent[a]
    /\ \A a \in AgentsOf(n) : last_seen_by_agent[a] <= last_seen_by_node[n]
    /\ Batches(accepted_samples_by_node[n]) =
         UNION {Batches(accepted_samples_by_agent[a]) : a \in AgentsOf(n)}

=============================================================================
