----------------------- MODULE CentralDetector_proofs -----------------------
(***************************************************************************)
(* Proofs about CentralIngestion and CentralDetector, for every set of     *)
(* agents, nodes, messages and windows and every limit.  First the service *)
(* by itself.  The detector leaves the service to the steps of             *)
(* CentralIngestion, so what is proved of the service holds in it; what it *)
(* adds rests on the origin of what the service stores.                    *)
(***************************************************************************)
EXTENDS CentralDetector, SequenceTheorems, TLAPS

-----------------------------------------------------------------------------
(* The ingestion service *)

(* An accepted message is identified by its id. *)
IdsAreUnique ==
  \A m, n \in accepted_message_digests : m.id = n.id => m = n

(* The counter of an agent bounds the sequences accepted from it. *)
CounterIsHighest ==
  \A m \in accepted_message_digests :
    /\ last_sequence_by_agent[m.agent] # NoSequence
    /\ m.sequence <= last_sequence_by_agent[m.agent]

(* Every entry of a list comes from an accepted batch. *)
ListsAreAccepted ==
  \A a \in Agents : \A i \in DOMAIN accepted_samples_by_agent[a] :
    \E m \in accepted_message_digests : IsLogged(m, a, i)

(* last_batch_by_agent names the last entry of the list. *)
LastBatchIsLastEntry ==
  \A a \in Agents :
    LET list == accepted_samples_by_agent[a]
    IN  IF list = <<>> THEN last_batch_by_agent[a] = NoBatch
        ELSE last_batch_by_agent[a] = list[Len(list)].batch

IInv ==
  /\ TypeOK
  /\ IdsAreUnique
  /\ CounterIsHighest
  /\ ListsAreAccepted
  /\ LastBatchIsLastEntry
  /\ TelemetryIsOneChain

-----------------------------------------------------------------------------
(* What the checks of ingest establish about a message that passes them. *)
LEMMA AcceptedPassesChecks ==
  ASSUME NEW m \in Message, ReasonCode(m) = "accepted"
  PROVE  /\ m \notin accepted_message_digests
         /\ m.id \notin seen_message_ids
         /\ ~StaleSequence(m)
         /\ ~SequenceGap(m)
         /\ ~ChainMismatch(m)
  <1>1. m.envelope = "ok"
    BY DEF ReasonCode, Message, Envelopes
  <1>2. QED
    BY <1>1 DEF ReasonCode

(* A call either accepts its message or leaves the memory alone. *)
LEMMA IngestAcceptsOrRefuses ==
  ASSUME NEW m \in Messages, Ingest(m)
  PROVE  \/ ReasonCode(m) = "accepted" /\ Accept(m) /\ UNCHANGED clock
         \/ UNCHANGED serviceVars
  BY DEF Ingest, serviceVars

(* The new entry of a list comes last and the old ones keep their place. *)
LEMMA AppendKeeps ==
  ASSUME NEW S, NEW list \in Seq(S), NEW e \in S
  PROVE  /\ Append(list, e) \in Seq(S)
         /\ Append(list, e) # <<>>
         /\ DOMAIN list = 1 .. Len(list)
         /\ DOMAIN Append(list, e) = 1 .. Len(list) + 1
         /\ Len(Append(list, e)) = Len(list) + 1
         /\ Append(list, e)[Len(list) + 1] = e
         /\ \A i \in 1 .. Len(list) : Append(list, e)[i] = list[i]
  OBVIOUS

-----------------------------------------------------------------------------
(* The type invariant *)

LEMMA TypeInit == ServiceInit => TypeOK
  <1> SUFFICES ASSUME ServiceInit PROVE TypeOK
    OBVIOUS
  <1>1. <<>> \in Seq(SampleEntry)
    OBVIOUS
  <1>2. QED
    BY <1>1 DEF ServiceInit, MemoryInit, TypeOK, ServiceTypeOK, NoSequence, NeverSeen

LEMMA TypeAccept ==
  ASSUME TypeOK, NEW m \in Message, Accept(m), UNCHANGED clock
  PROVE  TypeOK'
  <1> DEFINE entry == [batch |-> m.id, observed |-> m.observed]
  <1>1. /\ m.id \in MessageIds
        /\ m.agent \in Agents
        /\ NodeOf[m.agent] \in Nodes
        /\ m.sequence \in Nat
        /\ entry \in SampleEntry
    BY ServiceAssumption DEF Message, SampleEntry
  <1>2. /\ last_sequence_by_agent' \in [Agents -> Nat \cup {NoSequence}]
        /\ last_seen_by_node' \in [Nodes -> Nat \cup {NeverSeen}]
        /\ last_seen_by_agent' \in [Agents -> Nat \cup {NeverSeen}]
        /\ accepted_message_digests' \subseteq Message
        /\ clock' \in Nat
    BY <1>1 DEF TypeOK, ServiceTypeOK, Accept, RecordMessage
  <1>3. /\ last_batch_by_agent' \in [Agents -> MessageIds \cup {NoBatch}]
        /\ accepted_samples_by_node' \in [Nodes -> Seq(SampleEntry)]
        /\ accepted_samples_by_agent' \in [Agents -> Seq(SampleEntry)]
    <2>1. CASE IsBatch(m)
      <3>1. \A n \in Nodes : Append(accepted_samples_by_node[n], entry) \in Seq(SampleEntry)
        BY <1>1, AppendKeeps DEF TypeOK, ServiceTypeOK
      <3>2. \A a \in Agents : Append(accepted_samples_by_agent[a], entry) \in Seq(SampleEntry)
        BY <1>1, AppendKeeps DEF TypeOK, ServiceTypeOK
      <3>3. QED
        BY <2>1, <1>1, <3>1, <3>2 DEF TypeOK, ServiceTypeOK, Accept, StoreBatch
    <2>2. CASE ~IsBatch(m)
      BY <2>2 DEF TypeOK, ServiceTypeOK, Accept, sampleVars
    <2>3. QED
      BY <2>1, <2>2
  <1>4. QED
    BY <1>2, <1>3 DEF TypeOK, ServiceTypeOK

LEMMA TypeStep == TypeOK /\ [Next]_serviceVars => TypeOK'
  <1> SUFFICES ASSUME TypeOK, [Next]_serviceVars PROVE TypeOK'
    OBVIOUS
  <1>1. ASSUME NEW m \in Messages, Ingest(m) PROVE TypeOK'
    <2>1. m \in Message
      BY MessagesAssumption
    <2>2. CASE Accept(m) /\ UNCHANGED clock
      BY <2>1, <2>2, TypeAccept
    <2>3. CASE UNCHANGED serviceVars
      BY <2>3 DEF TypeOK, ServiceTypeOK, serviceVars, memory, sampleVars
    <2>4. QED
      BY <1>1, <2>2, <2>3, IngestAcceptsOrRefuses
  <1>2. CASE ServiceRestart
    <2>1. <<>> \in Seq(SampleEntry)
      OBVIOUS
    <2>2. QED
      BY <1>2, <2>1 DEF ServiceRestart, TypeOK, ServiceTypeOK, NoSequence, NeverSeen
  <1>3. CASE Tick
    BY <1>3 DEF Tick, TypeOK, ServiceTypeOK, memory, sampleVars
  <1>4. CASE UNCHANGED serviceVars
    BY <1>4 DEF TypeOK, ServiceTypeOK, serviceVars, memory, sampleVars
  <1>5. QED
    BY <1>1, <1>2, <1>3, <1>4 DEF Next

(* Every variable of the service keeps its type under every sequence of    *)
(* messages, ticks and restarts.                                           *)
THEOREM TypeCorrect == Spec => []TypeOK
  <1>1. ServiceInit => TypeOK
    BY TypeInit
  <1>2. TypeOK /\ [Next]_serviceVars => TypeOK'
    BY TypeStep
  <1>3. QED
    BY <1>1, <1>2, PTL DEF Spec

-----------------------------------------------------------------------------
(* The chain of an agent's batches *)

(* What accepting m does to the list of each agent. *)
LEMMA AcceptLists ==
  ASSUME TypeOK, NEW m \in Message, Accept(m), NEW a \in Agents
  PROVE  LET old == accepted_samples_by_agent[a]
             new == accepted_samples_by_agent'[a]
         IN  /\ IsBatch(m) /\ a = m.agent =>
                  /\ new # <<>>
                  /\ Len(old) \in Nat
                  /\ Len(new) = Len(old) + 1
                  /\ DOMAIN old = 1 .. Len(old)
                  /\ DOMAIN new = 1 .. Len(old) + 1
                  /\ new[Len(old) + 1].batch = m.id
                  /\ \A i \in DOMAIN old : new[i] = old[i]
                  /\ last_batch_by_agent'[a] = m.id
             /\ ~(IsBatch(m) /\ a = m.agent) =>
                  /\ new = old
                  /\ last_batch_by_agent'[a] = last_batch_by_agent[a]
  <1> DEFINE entry == [batch |-> m.id, observed |-> m.observed]
  <1>1. entry \in SampleEntry /\ m.agent \in Agents
    BY DEF Message, SampleEntry
  <1>2. accepted_samples_by_agent[a] \in Seq(SampleEntry)
    BY DEF TypeOK, ServiceTypeOK
  <1>3. CASE IsBatch(m) /\ a = m.agent
    <2>1. accepted_samples_by_agent'[a] = Append(accepted_samples_by_agent[a], entry)
      BY <1>1, <1>3 DEF TypeOK, ServiceTypeOK, Accept, StoreBatch
    <2>2. last_batch_by_agent'[a] = m.id
      BY <1>1, <1>3 DEF TypeOK, ServiceTypeOK, Accept, StoreBatch
    <2>3. entry.batch = m.id
      OBVIOUS
    <2>4. Len(accepted_samples_by_agent[a]) \in Nat
      BY <1>2
    <2> HIDE DEF entry
    <2>5. QED
      BY <1>1, <1>2, <1>3, <2>1, <2>2, <2>3, <2>4, AppendKeeps
  <1>4. CASE ~(IsBatch(m) /\ a = m.agent)
    <2>1. /\ accepted_samples_by_agent'[a] = accepted_samples_by_agent[a]
          /\ last_batch_by_agent'[a] = last_batch_by_agent[a]
      BY <1>1, <1>4 DEF TypeOK, ServiceTypeOK, Accept, StoreBatch, sampleVars
    <2>2. QED
      BY <1>4, <2>1
  <1>5. QED
    BY <1>3, <1>4

LEMMA IInvInit == ServiceInit => IInv
  <1> SUFFICES ASSUME ServiceInit PROVE IInv
    OBVIOUS
  <1>1. TypeOK
    BY TypeInit
  <1>2. \A a \in Agents : DOMAIN accepted_samples_by_agent[a] = {}
    BY DEF ServiceInit, MemoryInit
  <1>3. QED
    BY <1>1, <1>2 DEF ServiceInit, MemoryInit, IInv, IdsAreUnique, CounterIsHighest,
                      ListsAreAccepted, LastBatchIsLastEntry, TelemetryIsOneChain

(* A restart re-establishes the initial memory. *)
LEMMA IInvRestart ==
  ASSUME TypeOK', ServiceRestart
  PROVE  IInv'
  <1>1. \A a \in Agents : DOMAIN accepted_samples_by_agent'[a] = {}
    BY DEF ServiceRestart
  <1>2. QED
    BY <1>1 DEF ServiceRestart, IInv, IdsAreUnique, CounterIsHighest,
                ListsAreAccepted, LastBatchIsLastEntry, TelemetryIsOneChain

LEMMA IInvAccept ==
  ASSUME IInv, NEW m \in Message, ReasonCode(m) = "accepted", Accept(m), UNCHANGED clock
  PROVE  IInv'
  <1>1. TypeOK /\ TypeOK'
    BY TypeAccept DEF IInv
  <1>2. /\ m.agent \in Agents
        /\ m.sequence \in Nat
        /\ m.id \in MessageIds
    BY DEF Message
  <1>3. /\ m \notin accepted_message_digests
        /\ \A n \in accepted_message_digests : n.id # m.id
        /\ ~StaleSequence(m)
        /\ ~ChainMismatch(m)
    BY AcceptedPassesChecks DEF seen_message_ids
  <1>4. /\ accepted_message_digests' = accepted_message_digests \cup {m}
        /\ last_sequence_by_agent'[m.agent] = m.sequence
        /\ \A a \in Agents : a # m.agent =>
             last_sequence_by_agent'[a] = last_sequence_by_agent[a]
    BY <1>1, <1>2 DEF Accept, RecordMessage, TypeOK, ServiceTypeOK
  (* Messages accepted earlier from the same agent have lower sequences. *)
  <1>5. \A n \in accepted_message_digests : n.agent = m.agent => n.sequence < m.sequence
    <2> TAKE n \in accepted_message_digests
    <2>1. /\ n \in Message
          /\ n.sequence \in Nat
          /\ last_sequence_by_agent[m.agent] \in Nat \cup {NoSequence}
      BY <1>1, <1>2 DEF TypeOK, ServiceTypeOK, Message
    <2>2. QED
      BY <2>1, <1>2, <1>3 DEF IInv, CounterIsHighest, StaleSequence, NoSequence
  <1>6. IdsAreUnique'
    BY <1>3, <1>4 DEF IInv, IdsAreUnique
  <1>7. CounterIsHighest'
    <2> SUFFICES ASSUME NEW n \in accepted_message_digests'
                 PROVE  /\ last_sequence_by_agent'[n.agent] # NoSequence
                        /\ n.sequence <= last_sequence_by_agent'[n.agent]
      BY DEF CounterIsHighest
    <2>1. n \in Message /\ n.agent \in Agents /\ n.sequence \in Nat
      BY <1>1 DEF TypeOK, ServiceTypeOK, Message
    <2>2. CASE n.agent = m.agent
      BY <1>2, <1>4, <1>5, <2>1, <2>2 DEF NoSequence
    <2>3. CASE n.agent # m.agent
      BY <1>4, <2>1, <2>3 DEF IInv, CounterIsHighest
    <2>4. QED
      BY <2>2, <2>3
  <1>8. ListsAreAccepted'
    <2> SUFFICES ASSUME NEW a \in Agents, NEW i \in DOMAIN accepted_samples_by_agent'[a]
                 PROVE  \E n \in accepted_message_digests' : IsLogged(n, a, i)'
      BY DEF ListsAreAccepted
    <2>1. CASE i \in DOMAIN accepted_samples_by_agent[a]
      <3>1. PICK n \in accepted_message_digests : IsLogged(n, a, i)
        BY <2>1 DEF IInv, ListsAreAccepted
      <3>2. accepted_samples_by_agent'[a][i] = accepted_samples_by_agent[a][i]
        BY <1>1, <2>1, AcceptLists
      <3>3. QED
        BY <1>4, <3>1, <3>2 DEF IsLogged, AcceptedFrom, IsBatch
    <2>2. CASE i \notin DOMAIN accepted_samples_by_agent[a]
      <3>1. /\ IsBatch(m) /\ a = m.agent
            /\ accepted_samples_by_agent'[a][i].batch = m.id
        BY <1>1, <2>2, AcceptLists
      <3>2. QED
        BY <1>4, <3>1 DEF IsLogged, AcceptedFrom, IsBatch
    <2>3. QED
      BY <2>1, <2>2
  <1>9. LastBatchIsLastEntry'
    <2> SUFFICES ASSUME NEW a \in Agents
                 PROVE  LET list == accepted_samples_by_agent'[a]
                        IN  IF list = <<>> THEN last_batch_by_agent'[a] = NoBatch
                            ELSE last_batch_by_agent'[a] = list[Len(list)].batch
      BY DEF LastBatchIsLastEntry
    <2>1. CASE IsBatch(m) /\ a = m.agent
      BY <1>1, <2>1, AcceptLists
    <2>2. CASE ~(IsBatch(m) /\ a = m.agent)
      BY <1>1, <2>2, AcceptLists DEF IInv, LastBatchIsLastEntry
    <2>3. QED
      BY <2>1, <2>2
  <1>10. TelemetryIsOneChain'
    <2> SUFFICES ASSUME NEW a \in Agents,
                        NEW i \in DOMAIN accepted_samples_by_agent'[a],
                        NEW j \in DOMAIN accepted_samples_by_agent'[a],
                        NEW k \in accepted_message_digests',
                        NEW n \in accepted_message_digests',
                        i < j, IsLogged(k, a, i)', IsLogged(n, a, j)'
                 PROVE  /\ k.id # n.id
                        /\ k.sequence < n.sequence
                        /\ j = i + 1 => n.previous = k.id
      BY DEF TelemetryIsOneChain
    <2> DEFINE list == accepted_samples_by_agent[a]
    <2>0. /\ k.agent = a /\ IsBatch(k) /\ k.id = accepted_samples_by_agent'[a][i].batch
          /\ n.agent = a /\ IsBatch(n) /\ n.id = accepted_samples_by_agent'[a][j].batch
      BY DEF IsLogged, AcceptedFrom, IsBatch
    (* An entry of the old list is not the new message's. *)
    <2>1. ASSUME NEW x \in DOMAIN list,
                 NEW o \in accepted_message_digests',
                 o.id = accepted_samples_by_agent'[a][x].batch
          PROVE  o \in accepted_message_digests /\ o.id = list[x].batch
      <3>1. o.id = list[x].batch
        BY <1>1, <2>1, AcceptLists
      <3>2. \E l \in accepted_message_digests : l.id = list[x].batch
        BY <2>1 DEF IInv, ListsAreAccepted, IsLogged
      <3>3. QED
        BY <1>3, <1>4, <3>1, <3>2
    <2>2. CASE i \in DOMAIN list /\ j \in DOMAIN list
      <3>1. IsLogged(k, a, i) /\ IsLogged(n, a, j)
        BY <2>0, <2>1, <2>2 DEF IsLogged, AcceptedFrom
      <3>2. k \in accepted_message_digests /\ n \in accepted_message_digests
        BY <2>0, <2>1, <2>2
      <3>3. QED
        BY <2>2, <3>1, <3>2 DEF IInv, TelemetryIsOneChain
    <2>3. CASE ~(i \in DOMAIN list /\ j \in DOMAIN list)
      <3>1. /\ IsBatch(m) /\ a = m.agent
            /\ Len(list) \in Nat
            /\ DOMAIN list = 1 .. Len(list)
            /\ i \in DOMAIN list
            /\ j = Len(list) + 1
            /\ n.id = m.id
        <4>1. IsBatch(m) /\ a = m.agent
          BY <1>1, <2>3, AcceptLists
        <4>2. /\ Len(list) \in Nat
              /\ DOMAIN list = 1 .. Len(list)
              /\ i \in 1 .. Len(list) + 1
              /\ j \in 1 .. Len(list) + 1
              /\ accepted_samples_by_agent'[a][Len(list) + 1].batch = m.id
          BY <1>1, <4>1, AcceptLists
        <4> HIDE DEF list
        <4>3. j = Len(list) + 1 /\ i \in 1 .. Len(list)
          BY <2>3, <4>2
        <4>4. QED
          BY <2>0, <4>1, <4>2, <4>3
      <3>2. /\ k \in accepted_message_digests
            /\ k.id = list[i].batch
            /\ n = m
        BY <1>3, <1>4, <2>0, <2>1, <3>1
      <3>3. k.id # n.id /\ k.sequence < n.sequence
        BY <1>3, <1>5, <2>0, <3>1, <3>2
      <3>4. ASSUME j = i + 1 PROVE n.previous = k.id
        <4>1. i = Len(list)
          BY <3>1, <3>4
        <4>2. list # <<>>
          BY <3>1
        <4>3. last_batch_by_agent[a] = k.id
          BY <3>2, <4>1, <4>2 DEF IInv, LastBatchIsLastEntry
        <4>4. k.id # NoBatch
          BY <1>1, <3>2, ServiceAssumption DEF TypeOK, ServiceTypeOK, Message
        <4>5. QED
          BY <1>3, <3>1, <3>2, <4>3, <4>4 DEF ChainMismatch
      <3>5. QED
        BY <3>3, <3>4
    <2>4. QED
      BY <2>2, <2>3
  <1>11. QED
    BY <1>1, <1>6, <1>7, <1>8, <1>9, <1>10 DEF IInv

LEMMA IInvStep == IInv /\ [Next]_serviceVars => IInv'
  <1> SUFFICES ASSUME IInv, [Next]_serviceVars PROVE IInv'
    OBVIOUS
  <1> TypeOK'
    BY TypeStep DEF IInv
  <1>1. ASSUME UNCHANGED memory PROVE IInv'
    BY <1>1 DEF IInv, memory, sampleVars, IdsAreUnique, CounterIsHighest, ListsAreAccepted,
                LastBatchIsLastEntry, TelemetryIsOneChain, IsLogged, AcceptedFrom
  <1>2. ASSUME NEW m \in Messages, Ingest(m) PROVE IInv'
    <2>1. CASE ReasonCode(m) = "accepted" /\ Accept(m) /\ UNCHANGED clock
      BY <2>1, MessagesAssumption, IInvAccept
    <2>2. CASE UNCHANGED serviceVars
      BY <1>1, <2>2 DEF serviceVars
    <2>3. QED
      BY <1>2, <2>1, <2>2, IngestAcceptsOrRefuses
  <1>3. CASE ServiceRestart
    BY <1>3, IInvRestart
  <1>4. CASE Tick
    BY <1>1, <1>4 DEF Tick
  <1>5. CASE UNCHANGED serviceVars
    BY <1>1, <1>5 DEF serviceVars
  <1>6. QED
    BY <1>2, <1>3, <1>4, <1>5 DEF Next

(* Whatever reaches the service, in whatever order and however often, the  *)
(* telemetry it holds of an agent is one chain without repetition.         *)
THEOREM ChainCorrect == Spec => []TelemetryIsOneChain
  <1>1. ServiceInit => IInv
    BY IInvInit
  <1>2. IInv /\ [Next]_serviceVars => IInv'
    BY IInvStep
  <1>3. IInv => TelemetryIsOneChain
    BY DEF IInv
  <1>4. QED
    BY <1>1, <1>2, <1>3, PTL DEF Spec

-----------------------------------------------------------------------------
(* The accepted sequences *)

LEMMA IntervalAccept ==
  ASSUME IInv, SequencesHaveNoHole,
         NEW m \in Message, ReasonCode(m) = "accepted", Accept(m)
  PROVE  SequencesHaveNoHole'
  <1>1. /\ \A a \in Agents : last_sequence_by_agent[a] \in Nat \cup {NoSequence}
        /\ \A n \in accepted_message_digests : n \in Message
        /\ m.agent \in Agents
        /\ m.sequence \in Nat
    BY DEF IInv, TypeOK, ServiceTypeOK, Message
  <1>2. ~StaleSequence(m) /\ ~SequenceGap(m)
    BY AcceptedPassesChecks
  <1>3. /\ accepted_message_digests' = accepted_message_digests \cup {m}
        /\ last_sequence_by_agent'[m.agent] = m.sequence
        /\ \A a \in Agents : a # m.agent =>
             last_sequence_by_agent'[a] = last_sequence_by_agent[a]
    BY <1>1 DEF IInv, TypeOK, ServiceTypeOK, Accept, RecordMessage
  (* The counter of the agent is the predecessor of m, or there is none. *)
  <1>4. \A n \in accepted_message_digests : n.agent = m.agent =>
          /\ n.sequence \in Nat
          /\ last_sequence_by_agent[m.agent] \in Nat
          /\ n.sequence <= last_sequence_by_agent[m.agent]
          /\ m.sequence = last_sequence_by_agent[m.agent] + 1
    <2> TAKE n \in accepted_message_digests
    <2>1. /\ n.sequence \in Nat
          /\ last_sequence_by_agent[m.agent] \in Nat \cup {NoSequence}
      BY <1>1 DEF Message
    <2>2. QED
      BY <1>1, <1>2, <2>1 DEF IInv, CounterIsHighest, SequenceGap
  <1>5. ASSUME NEW a \in Agents, NEW k \in AcceptedFrom(a)', NEW n \in AcceptedFrom(a)',
               k.sequence = n.sequence
        PROVE  k = n
    <2>1. /\ k \in accepted_message_digests \cup {m} /\ k.agent = a
          /\ n \in accepted_message_digests \cup {m} /\ n.agent = a
      BY <1>3 DEF AcceptedFrom
    <2>2. CASE k # m /\ n # m
      BY <1>5, <2>1, <2>2 DEF SequencesHaveNoHole, AcceptedFrom
    <2>3. CASE k = m \/ n = m
      BY <1>4, <1>5, <2>1, <2>3
    <2>4. QED
      BY <2>2, <2>3
  <1>6. ASSUME NEW a \in Agents, NEW k \in AcceptedFrom(a)',
               NEW s \in k.sequence .. last_sequence_by_agent'[a]
        PROVE  \E n \in AcceptedFrom(a)' : n.sequence = s
    <2>1. k \in accepted_message_digests \cup {m} /\ k.agent = a
      BY <1>3 DEF AcceptedFrom
    <2>2. AcceptedFrom(a) \subseteq AcceptedFrom(a)'
      BY <1>3 DEF AcceptedFrom
    <2>3. CASE a # m.agent
      <3>1. k \in AcceptedFrom(a) /\ s \in k.sequence .. last_sequence_by_agent[a]
        BY <1>3, <2>1, <2>3 DEF AcceptedFrom
      <3>2. QED
        BY <2>2, <3>1 DEF SequencesHaveNoHole
    <2>4. CASE a = m.agent
      <3>1. m \in AcceptedFrom(a)'
        BY <1>3, <2>4 DEF AcceptedFrom
      <3>2. CASE s = m.sequence
        BY <3>1, <3>2
      <3>3. CASE s # m.sequence
        <4>1. k \in AcceptedFrom(a)
          BY <1>1, <1>3, <2>1, <2>4, <3>3 DEF AcceptedFrom
        <4>2. s \in k.sequence .. last_sequence_by_agent[a]
          BY <1>1, <1>3, <1>4, <2>4, <3>3, <4>1 DEF AcceptedFrom
        <4>3. QED
          BY <2>2, <4>1, <4>2 DEF SequencesHaveNoHole
      <3>4. QED
        BY <3>2, <3>3
    <2>5. QED
      BY <2>3, <2>4
  <1>7. QED
    BY <1>5, <1>6 DEF SequencesHaveNoHole

(* The accepted sequences of an agent are an interval that ends at the     *)
(* counter, each used once.                                                *)
THEOREM IntervalCorrect == Spec => []AcceptedSequencesAreAnInterval
  <1>1. ServiceInit => IInv /\ SequencesHaveNoHole
    <2>1. ServiceInit => SequencesHaveNoHole
      BY DEF ServiceInit, MemoryInit, SequencesHaveNoHole, AcceptedFrom
    <2>2. QED
      BY <2>1, IInvInit
  <1>2. IInv /\ SequencesHaveNoHole /\ [Next]_serviceVars
          => IInv' /\ SequencesHaveNoHole'
    <2> SUFFICES ASSUME IInv, SequencesHaveNoHole, [Next]_serviceVars
                 PROVE  SequencesHaveNoHole'
      BY IInvStep
    <2>1. ASSUME UNCHANGED memory PROVE SequencesHaveNoHole'
      BY <2>1 DEF memory, SequencesHaveNoHole, AcceptedFrom
    <2>2. ASSUME NEW m \in Messages, Ingest(m) PROVE SequencesHaveNoHole'
      <3>1. CASE ReasonCode(m) = "accepted" /\ Accept(m)
        BY <3>1, MessagesAssumption, IntervalAccept
      <3>2. CASE UNCHANGED serviceVars
        BY <2>1, <3>2 DEF serviceVars
      <3>3. QED
        BY <2>2, <3>1, <3>2, IngestAcceptsOrRefuses
    <2>3. CASE ServiceRestart
      BY <2>3 DEF ServiceRestart, SequencesHaveNoHole, AcceptedFrom
    <2>4. CASE Tick
      BY <2>1, <2>4 DEF Tick
    <2>5. CASE UNCHANGED serviceVars
      BY <2>1, <2>5 DEF serviceVars
    <2>6. QED
      BY <2>2, <2>3, <2>4, <2>5 DEF Next
  <1>3. IInv /\ SequencesHaveNoHole => AcceptedSequencesAreAnInterval
    BY DEF IInv, CounterIsHighest, AcceptedSequencesAreAnInterval, AcceptedFrom
  <1>4. QED
    BY <1>1, <1>2, <1>3, PTL DEF Spec

-----------------------------------------------------------------------------
(* The node view and the agent view *)

(* Nothing was seen in the future. *)
SeenBeforeNow == \A a \in Agents : last_seen_by_agent[a] <= clock

LEMMA AppendBatches ==
  ASSUME NEW list \in Seq(SampleEntry), NEW e \in SampleEntry
  PROVE  Batches(Append(list, e)) = Batches(list) \cup {e.batch}
  <1> DEFINE new == Append(list, e)
  <1>1. /\ Len(list) \in Nat
        /\ DOMAIN list = 1 .. Len(list)
        /\ DOMAIN new = 1 .. Len(list) + 1
        /\ new[Len(list) + 1] = e
        /\ \A i \in 1 .. Len(list) : new[i] = list[i]
    BY AppendKeeps
  <1> HIDE DEF new
  <1>2. ASSUME NEW b \in Batches(new) PROVE b \in Batches(list) \cup {e.batch}
    BY <1>1 DEF Batches
  <1>3. ASSUME NEW b \in Batches(list) PROVE b \in Batches(new)
    BY <1>1 DEF Batches
  <1>4. e.batch \in Batches(new)
    BY <1>1 DEF Batches
  <1>5. Batches(new) = Batches(list) \cup {e.batch}
    BY <1>2, <1>3, <1>4
  <1>6. QED
    BY <1>5 DEF new

LEMMA ViewAccept ==
  ASSUME TypeOK, SeenBeforeNow, NodeViewAgreesWithAgents,
         NEW m \in Message, Accept(m), UNCHANGED clock
  PROVE  SeenBeforeNow' /\ NodeViewAgreesWithAgents'
  <1> DEFINE entry == [batch |-> m.id, observed |-> m.observed]
             node  == NodeOf[m.agent]
  <1>1. /\ m.agent \in Agents
        /\ node \in Nodes
        /\ entry \in SampleEntry
        /\ entry.batch = m.id
    BY ServiceAssumption DEF Message, SampleEntry
  <1>2. /\ last_seen_by_node' = [last_seen_by_node EXCEPT ![node] = clock]
        /\ last_seen_by_agent' = [last_seen_by_agent EXCEPT ![m.agent] = clock]
    BY DEF Accept, RecordMessage
  <1>3. SeenBeforeNow'
    BY <1>2 DEF TypeOK, ServiceTypeOK, SeenBeforeNow, NeverSeen
  <1>4. ASSUME NEW n \in Nodes
        PROVE  /\ \E a \in AgentsOf(n) : last_seen_by_node'[n] = last_seen_by_agent'[a]
               /\ \A a \in AgentsOf(n) : last_seen_by_agent'[a] <= last_seen_by_node'[n]
    <2>1. /\ \E a \in AgentsOf(n) : last_seen_by_node[n] = last_seen_by_agent[a]
          /\ \A a \in AgentsOf(n) : last_seen_by_agent[a] <= last_seen_by_node[n]
      BY DEF NodeViewAgreesWithAgents
    <2>2. CASE n = node
      <3>1. m.agent \in AgentsOf(n)
        BY <1>1, <2>2 DEF AgentsOf
      <3>2. last_seen_by_node'[n] = clock /\ last_seen_by_agent'[m.agent] = clock
        BY <1>1, <1>2, <2>2 DEF TypeOK, ServiceTypeOK
      <3>3. QED
        BY <1>3, <3>1, <3>2 DEF SeenBeforeNow, AgentsOf
    <2>3. CASE n # node
      <3>1. last_seen_by_node'[n] = last_seen_by_node[n]
        BY <1>2, <2>3 DEF TypeOK, ServiceTypeOK
      <3>2. \A a \in AgentsOf(n) : last_seen_by_agent'[a] = last_seen_by_agent[a]
        BY <1>2, <2>3 DEF AgentsOf, TypeOK, ServiceTypeOK
      <3>3. QED
        BY <2>1, <3>1, <3>2
    <2>4. QED
      BY <2>2, <2>3
  <1>5. ASSUME NEW n \in Nodes
        PROVE  Batches(accepted_samples_by_node'[n]) =
                 UNION {Batches(accepted_samples_by_agent'[a]) : a \in AgentsOf(n)}
    <2>0. Batches(accepted_samples_by_node[n]) =
            UNION {Batches(accepted_samples_by_agent[a]) : a \in AgentsOf(n)}
      BY DEF NodeViewAgreesWithAgents
    <2>1. CASE IsBatch(m) /\ n = node
      <3>1. /\ accepted_samples_by_node'[n] = Append(accepted_samples_by_node[n], entry)
            /\ accepted_samples_by_agent'[m.agent] =
                 Append(accepted_samples_by_agent[m.agent], entry)
            /\ \A a \in Agents : a # m.agent =>
                 accepted_samples_by_agent'[a] = accepted_samples_by_agent[a]
        BY <1>1, <2>1 DEF TypeOK, ServiceTypeOK, Accept, StoreBatch
      <3>2. /\ accepted_samples_by_node[n] \in Seq(SampleEntry)
            /\ accepted_samples_by_agent[m.agent] \in Seq(SampleEntry)
        BY <1>1 DEF TypeOK, ServiceTypeOK
      <3>3. /\ Batches(accepted_samples_by_node'[n]) =
                 Batches(accepted_samples_by_node[n]) \cup {m.id}
            /\ Batches(accepted_samples_by_agent'[m.agent]) =
                 Batches(accepted_samples_by_agent[m.agent]) \cup {m.id}
        <4> HIDE DEF entry
        <4>1. QED
          BY <1>1, <3>1, <3>2, AppendBatches
      <3>4. /\ m.agent \in AgentsOf(n)
            /\ \A a \in AgentsOf(n) : a # m.agent =>
                 Batches(accepted_samples_by_agent'[a]) = Batches(accepted_samples_by_agent[a])
        BY <1>1, <2>1, <3>1 DEF AgentsOf
      <3>5. QED
        BY <2>0, <3>3, <3>4
    <2>2. CASE ~(IsBatch(m) /\ n = node)
      <3>1. /\ accepted_samples_by_node'[n] = accepted_samples_by_node[n]
            /\ \A a \in AgentsOf(n) :
                 accepted_samples_by_agent'[a] = accepted_samples_by_agent[a]
        BY <1>1, <2>2 DEF TypeOK, ServiceTypeOK, Accept, StoreBatch, sampleVars, AgentsOf
      <3>2. QED
        BY <2>0, <3>1
    <2>3. QED
      BY <2>1, <2>2
  <1>6. NodeViewAgreesWithAgents'
    BY <1>4, <1>5 DEF NodeViewAgreesWithAgents, AgentsOf
  <1>7. QED
    BY <1>3, <1>6

(* The samples and the health of a node are those of its agents. *)
THEOREM ViewsCorrect == Spec => []NodeViewAgreesWithAgents
  <1> DEFINE J == TypeOK /\ SeenBeforeNow /\ NodeViewAgreesWithAgents
  <1>1. ServiceInit => J
    <2> SUFFICES ASSUME ServiceInit PROVE SeenBeforeNow /\ NodeViewAgreesWithAgents
      BY TypeInit
    <2>1. SeenBeforeNow
      BY DEF ServiceInit, MemoryInit, SeenBeforeNow, NeverSeen
    <2>2. NodeViewAgreesWithAgents
      BY ServiceAssumption
         DEF ServiceInit, MemoryInit, NodeViewAgreesWithAgents, AgentsOf, Batches, NeverSeen
    <2>3. QED
      BY <2>1, <2>2
  <1>2. J /\ [Next]_serviceVars => J'
    <2> SUFFICES ASSUME J, [Next]_serviceVars
                 PROVE  SeenBeforeNow' /\ NodeViewAgreesWithAgents'
      BY TypeStep
    <2>1. ASSUME UNCHANGED memory, clock' \in {clock, clock + 1}
          PROVE  SeenBeforeNow' /\ NodeViewAgreesWithAgents'
      <3>1. SeenBeforeNow'
        <4>1. ASSUME NEW a \in Agents PROVE last_seen_by_agent[a] <= clock'
          <5>1. /\ clock \in Nat
                /\ last_seen_by_agent[a] \in Nat \cup {NeverSeen}
                /\ last_seen_by_agent[a] <= clock
            BY DEF TypeOK, ServiceTypeOK, SeenBeforeNow
          <5>2. QED
            BY <2>1, <5>1 DEF NeverSeen
        <4>2. last_seen_by_agent' = last_seen_by_agent
          BY <2>1 DEF memory
        <4>3. QED
          BY <4>1, <4>2 DEF SeenBeforeNow
      <3>2. NodeViewAgreesWithAgents'
        <4>1. /\ last_seen_by_agent' = last_seen_by_agent
              /\ last_seen_by_node' = last_seen_by_node
              /\ accepted_samples_by_node' = accepted_samples_by_node
              /\ accepted_samples_by_agent' = accepted_samples_by_agent
          BY <2>1 DEF memory, sampleVars
        <4>2. QED
          BY <4>1 DEF NodeViewAgreesWithAgents, AgentsOf
      <3>3. QED
        BY <3>1, <3>2
    <2>2. ASSUME NEW m \in Messages, Ingest(m)
          PROVE  SeenBeforeNow' /\ NodeViewAgreesWithAgents'
      <3>1. CASE Accept(m) /\ UNCHANGED clock
        BY <3>1, MessagesAssumption, ViewAccept
      <3>2. CASE UNCHANGED serviceVars
        BY <2>1, <3>2 DEF serviceVars
      <3>3. QED
        BY <2>2, <3>1, <3>2, IngestAcceptsOrRefuses
    <2>3. CASE ServiceRestart
      <3>1. SeenBeforeNow'
        BY <2>3 DEF ServiceRestart, SeenBeforeNow, TypeOK, ServiceTypeOK, NeverSeen
      <3>2. NodeViewAgreesWithAgents'
        BY <2>3, ServiceAssumption
           DEF ServiceRestart, NodeViewAgreesWithAgents, AgentsOf, Batches, NeverSeen
      <3>3. QED
        BY <3>1, <3>2
    <2>4. CASE Tick
      BY <2>1, <2>4 DEF Tick
    <2>5. CASE UNCHANGED serviceVars
      BY <2>1, <2>5 DEF serviceVars
    <2>6. QED
      BY <2>2, <2>3, <2>4, <2>5 DEF Next
  <1>3. QED
    BY <1>1, <1>2, PTL DEF Spec

-----------------------------------------------------------------------------
(* The detector *)

Entries(list) == {list[i] : i \in DOMAIN list}

(* The list of a node holds the entries of the lists of its agents. *)
EntriesAgree ==
  \A n \in Nodes :
    Entries(accepted_samples_by_node[n]) =
      UNION {Entries(accepted_samples_by_agent[a]) : a \in AgentsOf(n)}

(* Every entry of an agent's list was once received from it. *)
EntriesAreReceived ==
  \A a \in Agents : \A e \in Entries(accepted_samples_by_agent[a]) :
    \E m \in received : m.agent = a /\ m.id = e.batch /\ m.observed = e.observed

(* An agent was seen when a message of it was received that was new then. *)
SeenByMessage ==
  \A a \in Agents : last_seen_by_agent[a] # NeverSeen =>
    \E m \in received :
      /\ m.agent = a
      /\ m.created >= last_seen_by_agent[a] - MaxClockSkew
      /\ m.created <= last_seen_by_agent[a] + MaxClockSkew

(* No sample is further ahead of the clock than the skew. *)
ObservedByNow ==
  \A a \in Agents : \A e \in Entries(accepted_samples_by_agent[a]) :
    \A t \in e.observed : t <= clock + MaxClockSkew

Origins == EntriesAgree /\ EntriesAreReceived /\ SeenByMessage /\ ObservedByNow

(* Every agent contributed to the window w. *)
Covered(w) ==
  \A a \in Agents :
    /\ \E m \in received :
         /\ m.agent = a
         /\ m.id \in w.batches
         /\ \E t \in m.observed : w.start <= t /\ t < w.end
    /\ \E m \in received :
         /\ m.agent = a
         /\ m.created >= w.at - StaleAfter - MaxClockSkew
         /\ m.created <= w.at + MaxClockSkew

CompleteWindowsAreCovered == window # None /\ Complete(window) => Covered(window)

-----------------------------------------------------------------------------
(* The service within the detector *)

LEMMA DetectorStepIsServiceStep == [DetectorNext]_detectorVars => [Next]_serviceVars
  <1> SUFFICES ASSUME [DetectorNext]_detectorVars PROVE [Next]_serviceVars
    OBVIOUS
  <1>1. ASSUME NEW m \in Messages, Receive(m) PROVE Next
    BY <1>1 DEF Receive, Next
  <1>2. ASSUME NEW w \in Windows, AggregateWindow(w[1], w[2]) PROVE UNCHANGED serviceVars
    BY <1>2 DEF AggregateWindow
  <1>3. ASSUME NEW score \in Scores, Decide(score) PROVE UNCHANGED serviceVars
    BY <1>3 DEF Decide
  <1>4. CASE ServiceRestart \/ Tick
    BY <1>4 DEF Next
  <1>5. CASE UNCHANGED detectorVars
    BY <1>5 DEF detectorVars
  <1>6. QED
    BY <1>1, <1>2, <1>3, <1>4, <1>5 DEF DetectorNext

(* The detector implements the ingestion service: aggregation and decision *)
(* are stuttering steps of it.                                             *)
THEOREM ImplementsIngestion == DetectorSpec => Spec
  <1>1. DetectorInit => ServiceInit
    BY DEF DetectorInit
  <1>2. QED
    BY <1>1, DetectorStepIsServiceStep, PTL DEF DetectorSpec, Spec

(* What is proved of the service holds of it under the detector: the chain *)
(* of each agent's batches, ...                                            *)
THEOREM DetectorChainCorrect == DetectorSpec => []TelemetryIsOneChain
  BY ImplementsIngestion, ChainCorrect, PTL

(* ... the interval of its sequences, ...                                  *)
THEOREM DetectorIntervalCorrect == DetectorSpec => []AcceptedSequencesAreAnInterval
  BY ImplementsIngestion, IntervalCorrect, PTL

(* ... and the agreement of the node view with its agents.                 *)
THEOREM DetectorViewsCorrect == DetectorSpec => []NodeViewAgreesWithAgents
  BY ImplementsIngestion, ViewsCorrect, PTL

-----------------------------------------------------------------------------
(* The type invariant *)

LEMMA EvidenceIsIds ==
  ASSUME TypeOK, NEW start, NEW end
  PROVE  Evidence(start, end) \subseteq MessageIds
  <1>1. ASSUME NEW list \in Seq(SampleEntry) PROVE BatchesIn(list, start, end) \subseteq MessageIds
    <2>1. \A i \in DOMAIN list : list[i].batch \in MessageIds
      <3>1. \A i \in DOMAIN list : list[i] \in SampleEntry
        OBVIOUS
      <3>2. QED
        BY <3>1 DEF SampleEntry
    <2>2. QED
      BY <2>1 DEF BatchesIn
  <1>2. \A n \in Nodes : BatchesIn(accepted_samples_by_node[n], start, end) \subseteq MessageIds
    BY <1>1 DEF TypeOK, ServiceTypeOK
  <1>3. \A a \in Agents : BatchesIn(accepted_samples_by_agent[a], start, end) \subseteq MessageIds
    BY <1>1 DEF TypeOK, ServiceTypeOK
  <1>4. QED
    BY <1>2, <1>3 DEF Evidence

LEMMA WindowType ==
  ASSUME TypeOK, NEW w \in Windows, AggregateWindow(w[1], w[2])
  PROVE  window' \in Window
  <1>1. w[1] \in Int /\ w[2] \in Int
    BY DetectorAssumption
  <1>2. /\ MissingNodes(w[1], w[2]) \subseteq Nodes
        /\ MissingAgents(w[1], w[2]) \subseteq Agents
        /\ Evidence(w[1], w[2]) \subseteq MessageIds
        /\ clock \in Nat
    BY EvidenceIsIds DEF MissingNodes, MissingAgents, TypeOK, ServiceTypeOK
  <1>3. QED
    BY <1>1, <1>2 DEF AggregateWindow, Window

LEMMA DecisionType ==
  ASSUME window \in Window \cup {None}, NEW score \in Scores, Decide(score)
  PROVE  decision' \in Decision
  <1>1. window \in Window
    BY DEF Decide
  <1>2. (Distance(score, Threshold) <= AbstentionMargin) \in BOOLEAN
    OBVIOUS
  <1>3. QED
    BY <1>1, <1>2 DEF Decide, Decision

LEMMA DetectorTypeInit == DetectorInit => DetectorTypeOK
  BY TypeInit DEF DetectorInit, DetectorTypeOK

LEMMA DetectorTypeStep == DetectorTypeOK /\ [DetectorNext]_detectorVars => DetectorTypeOK'
  <1> SUFFICES ASSUME DetectorTypeOK, [DetectorNext]_detectorVars PROVE DetectorTypeOK'
    OBVIOUS
  <1>0. TypeOK'
    BY DetectorStepIsServiceStep, TypeStep DEF DetectorTypeOK
  <1>1. ASSUME NEW m \in Messages, Receive(m) PROVE DetectorTypeOK'
    BY <1>0, <1>1, MessagesAssumption DEF Receive, DetectorTypeOK
  <1>2. ASSUME NEW w \in Windows, AggregateWindow(w[1], w[2]) PROVE DetectorTypeOK'
    <2>1. window' \in Window
      BY <1>2, WindowType DEF DetectorTypeOK
    <2>2. QED
      BY <1>0, <1>2, <2>1 DEF AggregateWindow, DetectorTypeOK
  <1>3. ASSUME NEW score \in Scores, Decide(score) PROVE DetectorTypeOK'
    <2>1. decision' \in Decision
      BY <1>3, DecisionType DEF DetectorTypeOK
    <2>2. QED
      BY <1>0, <1>3, <2>1 DEF Decide, DetectorTypeOK
  <1>4. CASE (ServiceRestart \/ Tick) /\ UNCHANGED <<window, decision, received>>
    BY <1>0, <1>4 DEF DetectorTypeOK
  <1>5. CASE UNCHANGED detectorVars
    BY <1>0, <1>5 DEF detectorVars, DetectorTypeOK
  <1>6. QED
    BY <1>1, <1>2, <1>3, <1>4, <1>5 DEF DetectorNext

(* The variables of the detector and of its service keep their types.      *)
THEOREM DetectorTypeCorrect == DetectorSpec => []DetectorTypeOK
  BY DetectorTypeInit, DetectorTypeStep, PTL DEF DetectorSpec

-----------------------------------------------------------------------------
(* Where what the service stores comes from *)

LEMMA AppendEntries ==
  ASSUME NEW list \in Seq(SampleEntry), NEW e \in SampleEntry
  PROVE  Entries(Append(list, e)) = Entries(list) \cup {e}
  <1> DEFINE new == Append(list, e)
  <1>1. /\ Len(list) \in Nat
        /\ DOMAIN list = 1 .. Len(list)
        /\ DOMAIN new = 1 .. Len(list) + 1
        /\ new[Len(list) + 1] = e
        /\ \A i \in 1 .. Len(list) : new[i] = list[i]
    BY AppendKeeps
  <1> HIDE DEF new
  <1>2. Entries(new) \subseteq Entries(list) \cup {e}
    BY <1>1 DEF Entries
  <1>3. Entries(list) \cup {e} \subseteq Entries(new)
    BY <1>1 DEF Entries
  <1>4. QED
    BY <1>2, <1>3 DEF new

(* The clock is near what an accepted message says of its times. *)
LEMMA AcceptedIsTimely ==
  ASSUME TypeOK, NEW m \in Message, ReasonCode(m) = "accepted"
  PROVE  /\ m.created >= clock - MaxClockSkew
         /\ m.created <= clock + MaxClockSkew
         /\ \A t \in m.observed : t <= clock + MaxClockSkew
  <1>1. m.envelope = "ok"
    BY DEF ReasonCode, Message, Envelopes
  <1>2. ~Skewed(m.created) /\ \A t \in m.observed : ~Skewed(t)
    BY <1>1 DEF ReasonCode
  <1>3. /\ m.created \in Int /\ m.observed \subseteq Int
        /\ clock \in Nat /\ MaxClockSkew \in Nat
    BY ServiceAssumption DEF Message, TypeOK, ServiceTypeOK
  <1>4. ASSUME NEW t \in Int, ~Skewed(t)
        PROVE  clock - MaxClockSkew <= t /\ t <= clock + MaxClockSkew
    BY <1>3, <1>4 DEF Skewed, Distance
  <1>5. QED
    BY <1>2, <1>3, <1>4
LEMMA OriginsAccept ==
  ASSUME TypeOK, Origins, NEW m \in Message, ReasonCode(m) = "accepted", Accept(m),
         UNCHANGED clock, received' = received \cup {m}
  PROVE  Origins'
  <1> DEFINE entry == [batch |-> m.id, observed |-> m.observed]
             node  == NodeOf[m.agent]
  <1>1. /\ m.agent \in Agents
        /\ node \in Nodes
        /\ entry \in SampleEntry
        /\ entry.batch = m.id /\ entry.observed = m.observed
    BY ServiceAssumption DEF Message, SampleEntry
  <1>2. last_seen_by_agent' = [last_seen_by_agent EXCEPT ![m.agent] = clock]
    BY DEF Accept, RecordMessage
  (* The entries of each agent, and of each node, after the call. *)
  <1>3. ASSUME NEW a \in Agents
        PROVE  Entries(accepted_samples_by_agent'[a]) =
                 Entries(accepted_samples_by_agent[a])
                   \cup IF IsBatch(m) /\ a = m.agent THEN {entry} ELSE {}
    <2>1. CASE IsBatch(m) /\ a = m.agent
      <3>1. accepted_samples_by_agent'[a] = Append(accepted_samples_by_agent[a], entry)
        BY <1>1, <2>1 DEF TypeOK, ServiceTypeOK, Accept, StoreBatch
      <3>2. accepted_samples_by_agent[a] \in Seq(SampleEntry)
        BY DEF TypeOK, ServiceTypeOK
      <3> HIDE DEF entry
      <3>3. QED
        BY <1>1, <2>1, <3>1, <3>2, AppendEntries
    <2>2. CASE ~(IsBatch(m) /\ a = m.agent)
      <3>1. accepted_samples_by_agent'[a] = accepted_samples_by_agent[a]
        BY <1>1, <2>2 DEF TypeOK, ServiceTypeOK, Accept, StoreBatch, sampleVars
      <3>2. QED
        BY <2>2, <3>1
    <2>3. QED
      BY <2>1, <2>2
  <1>4. ASSUME NEW n \in Nodes
        PROVE  Entries(accepted_samples_by_node'[n]) =
                 Entries(accepted_samples_by_node[n])
                   \cup IF IsBatch(m) /\ n = node THEN {entry} ELSE {}
    <2>1. CASE IsBatch(m) /\ n = node
      <3>1. accepted_samples_by_node'[n] = Append(accepted_samples_by_node[n], entry)
        BY <1>1, <2>1 DEF TypeOK, ServiceTypeOK, Accept, StoreBatch
      <3>2. accepted_samples_by_node[n] \in Seq(SampleEntry)
        BY DEF TypeOK, ServiceTypeOK
      <3> HIDE DEF entry
      <3>3. QED
        BY <1>1, <2>1, <3>1, <3>2, AppendEntries
    <2>2. CASE ~(IsBatch(m) /\ n = node)
      <3>1. accepted_samples_by_node'[n] = accepted_samples_by_node[n]
        BY <1>1, <2>2 DEF TypeOK, ServiceTypeOK, Accept, StoreBatch, sampleVars
      <3>2. QED
        BY <2>2, <3>1
    <2>3. QED
      BY <2>1, <2>2
  <1> HIDE DEF entry
  <1>5. EntriesAgree'
    <2> SUFFICES ASSUME NEW n \in Nodes
                 PROVE  Entries(accepted_samples_by_node'[n]) =
                          UNION {Entries(accepted_samples_by_agent'[a]) : a \in AgentsOf(n)}
      BY DEF EntriesAgree, AgentsOf
    <2>1. Entries(accepted_samples_by_node[n]) =
            UNION {Entries(accepted_samples_by_agent[a]) : a \in AgentsOf(n)}
      BY DEF Origins, EntriesAgree
    <2>2. \A a \in AgentsOf(n) : a \in Agents /\ NodeOf[a] = n
      BY DEF AgentsOf
    <2>3. CASE IsBatch(m) /\ n = node
      <3>1. m.agent \in AgentsOf(n)
        BY <1>1, <2>3 DEF AgentsOf
      <3>2. Entries(accepted_samples_by_agent'[m.agent]) =
              Entries(accepted_samples_by_agent[m.agent]) \cup {entry}
        BY <1>1, <1>3, <2>3
      <3>3. \A a \in AgentsOf(n) : a # m.agent =>
              Entries(accepted_samples_by_agent'[a]) = Entries(accepted_samples_by_agent[a])
        BY <1>3, <2>2
      <3>4. Entries(accepted_samples_by_node'[n]) =
              Entries(accepted_samples_by_node[n]) \cup {entry}
        BY <1>4, <2>3
      <3>5. QED
        BY <2>1, <3>1, <3>2, <3>3, <3>4
    <2>4. CASE ~(IsBatch(m) /\ n = node)
      <3>1. \A a \in AgentsOf(n) :
              Entries(accepted_samples_by_agent'[a]) = Entries(accepted_samples_by_agent[a])
        BY <1>3, <2>2, <2>4
      <3>2. Entries(accepted_samples_by_node'[n]) = Entries(accepted_samples_by_node[n])
        BY <1>4, <2>4
      <3>3. QED
        BY <2>1, <3>1, <3>2
    <2>5. QED
      BY <2>3, <2>4
  <1>6. EntriesAreReceived'
    <2> SUFFICES ASSUME NEW a \in Agents,
                        NEW e \in Entries(accepted_samples_by_agent'[a])
                 PROVE  \E k \in received' :
                          k.agent = a /\ k.id = e.batch /\ k.observed = e.observed
      BY DEF EntriesAreReceived
    <2>1. CASE e \in Entries(accepted_samples_by_agent[a])
      BY <2>1 DEF Origins, EntriesAreReceived
    <2>2. CASE e \notin Entries(accepted_samples_by_agent[a])
      <3>1. a = m.agent /\ e = entry
        BY <1>3, <2>2
      <3>2. QED
        BY <1>1, <3>1
    <2>3. QED
      BY <2>1, <2>2
  <1>7. SeenByMessage'
    <2> SUFFICES ASSUME NEW a \in Agents, last_seen_by_agent'[a] # NeverSeen
                 PROVE  \E k \in received' :
                          /\ k.agent = a
                          /\ k.created >= last_seen_by_agent'[a] - MaxClockSkew
                          /\ k.created <= last_seen_by_agent'[a] + MaxClockSkew
      BY DEF SeenByMessage, NeverSeen
    <2>1. CASE a = m.agent
      <3>1. last_seen_by_agent'[a] = clock
        BY <1>2, <2>1 DEF TypeOK, ServiceTypeOK
      <3>2. QED
        BY <2>1, <3>1, AcceptedIsTimely
    <2>2. CASE a # m.agent
      <3>1. last_seen_by_agent'[a] = last_seen_by_agent[a]
        BY <1>2, <2>2 DEF TypeOK, ServiceTypeOK
      <3>2. QED
        BY <3>1 DEF Origins, SeenByMessage
    <2>3. QED
      BY <2>1, <2>2
  <1>8. ObservedByNow'
    <2> SUFFICES ASSUME NEW a \in Agents,
                        NEW e \in Entries(accepted_samples_by_agent'[a]),
                        NEW t \in e.observed
                 PROVE  t <= clock + MaxClockSkew
      BY DEF ObservedByNow
    <2>1. CASE e \in Entries(accepted_samples_by_agent[a])
      BY <2>1 DEF Origins, ObservedByNow
    <2>2. CASE e \notin Entries(accepted_samples_by_agent[a])
      <3>1. t \in m.observed
        BY <1>1, <1>3, <2>2
      <3>2. QED
        BY <3>1, AcceptedIsTimely
    <2>3. QED
      BY <2>1, <2>2
  <1>9. QED
    BY <1>5, <1>6, <1>7, <1>8 DEF Origins

(* A restart forgets what the origins are about; a tick and a refusal      *)
(* change neither the lists nor what was received.                         *)
LEMMA OriginsRestart ==
  ASSUME ServiceRestart, UNCHANGED received
  PROVE  Origins'
  <1>1. Entries(<<>>) = {}
    BY DEF Entries
  <1>2. /\ \A a \in Agents : Entries(accepted_samples_by_agent'[a]) = {}
        /\ \A n \in Nodes : Entries(accepted_samples_by_node'[n]) = {}
        /\ \A a \in Agents : last_seen_by_agent'[a] = NeverSeen
    BY <1>1 DEF ServiceRestart
  <1>3. EntriesAgree'
    BY <1>2 DEF EntriesAgree, AgentsOf
  <1>4. EntriesAreReceived' /\ SeenByMessage' /\ ObservedByNow'
    BY <1>2 DEF EntriesAreReceived, SeenByMessage, ObservedByNow, NeverSeen
  <1>5. QED
    BY <1>3, <1>4 DEF Origins

LEMMA OriginsKept ==
  ASSUME TypeOK, Origins, UNCHANGED memory, UNCHANGED received, clock' \in {clock, clock + 1}
  PROVE  Origins'
  <1>1. /\ accepted_samples_by_agent' = accepted_samples_by_agent
        /\ accepted_samples_by_node' = accepted_samples_by_node
        /\ last_seen_by_agent' = last_seen_by_agent
    BY DEF memory, sampleVars
  <1>2. EntriesAgree' /\ EntriesAreReceived' /\ SeenByMessage'
    BY <1>1 DEF Origins, EntriesAgree, EntriesAreReceived, SeenByMessage, AgentsOf, NeverSeen
  <1>3. ObservedByNow'
    <2> SUFFICES ASSUME NEW a \in Agents, NEW e \in Entries(accepted_samples_by_agent[a]),
                        NEW t \in e.observed
                 PROVE  t <= clock' + MaxClockSkew
      BY <1>1 DEF ObservedByNow
    <2>1. e \in SampleEntry
      <3>1. accepted_samples_by_agent[a] \in Seq(SampleEntry)
        BY DEF TypeOK, ServiceTypeOK
      <3>2. QED
        BY <3>1 DEF Entries
    <2>2. t \in Int /\ clock \in Nat /\ MaxClockSkew \in Nat
      BY <2>1, ServiceAssumption DEF SampleEntry, TypeOK, ServiceTypeOK
    <2>3. t <= clock + MaxClockSkew
      BY DEF Origins, ObservedByNow
    <2>4. QED
      BY <2>2, <2>3
  <1>4. QED
    BY <1>2, <1>3 DEF Origins

-----------------------------------------------------------------------------
(* Windows and decisions *)

DInv ==
  /\ DetectorTypeOK
  /\ SeenBeforeNow
  /\ NodeViewAgreesWithAgents
  /\ Origins
  /\ NodeLossIsLossOfAllItsAgents
  /\ CompleteWindowsAreCovered
  /\ ScoredDecisionsCoverEveryAgent
  /\ NoEvidenceFromTheFuture

(* BatchesIn is about the entries of a list. *)
LEMMA BatchesInEntries ==
  ASSUME NEW list, NEW start, NEW end
  PROVE  BatchesIn(list, start, end) =
           {e.batch : e \in {x \in Entries(list) : \E t \in x.observed : start <= t /\ t < end}}
  BY DEF BatchesIn, Entries

(* More messages received leave what is covered covered. *)
LEMMA CoveredStays ==
  ASSUME NEW w, Covered(w), received \subseteq received'
  PROVE  Covered(w)'
  BY DEF Covered

(* A node without a sample in the window, or not healthy, has no agent     *)
(* with one, or healthy.                                                   *)
LEMMA NodeLossAtAggregation ==
  ASSUME TypeOK, NodeViewAgreesWithAgents, Origins,
         NEW start, NEW end, NEW n \in MissingNodes(start, end)
  PROVE  AgentsOf(n) \subseteq MissingAgents(start, end)
  <1> SUFFICES ASSUME NEW a \in AgentsOf(n) PROVE a \in MissingAgents(start, end)
    OBVIOUS
  <1>1. n \in Nodes /\ a \in Agents
    BY DEF MissingNodes, AgentsOf
  <1>2. CASE BatchesIn(accepted_samples_by_node[n], start, end) = {}
    <2>1. Entries(accepted_samples_by_agent[a]) \subseteq Entries(accepted_samples_by_node[n])
      BY <1>1 DEF Origins, EntriesAgree
    <2>2. BatchesIn(accepted_samples_by_agent[a], start, end) = {}
      BY <1>2, <2>1, BatchesInEntries
    <2>3. QED
      BY <1>1, <2>2 DEF MissingAgents
  <1>3. CASE HealthStatus(last_seen_by_node[n]) # "healthy"
    <2>1. /\ last_seen_by_agent[a] <= last_seen_by_node[n]
          /\ last_seen_by_agent[a] \in Nat \cup {NeverSeen}
          /\ last_seen_by_node[n] \in Nat \cup {NeverSeen}
          /\ clock \in Nat /\ StaleAfter \in Nat
      BY <1>1, ServiceAssumption DEF NodeViewAgreesWithAgents, TypeOK, ServiceTypeOK
    <2>2. HealthStatus(last_seen_by_agent[a]) # "healthy"
      BY <1>3, <2>1 DEF HealthStatus, NeverSeen
    <2>3. QED
      BY <1>1, <2>2 DEF MissingAgents
  <1>4. QED
    BY <1>2, <1>3 DEF MissingNodes

(* An agent that is not missing contributed: its entry in the window was   *)
(* received, and so was the message it was last seen by.                   *)
LEMMA CoverageAtAggregation ==
  ASSUME TypeOK, Origins, SeenBeforeNow, received \subseteq Message, NEW w \in Windows, AggregateWindow(w[1], w[2]),
         window'.agents = {}
  PROVE  Covered(window')
  <1> DEFINE start == w[1]
             end   == w[2]
  <1>0. /\ window'.start = start /\ window'.end = end /\ window'.at = clock
        /\ window'.agents = MissingAgents(start, end)
        /\ window'.batches = Evidence(start, end)
    BY DEF AggregateWindow
  <1> HIDE DEF start, end
  <1> SUFFICES ASSUME NEW a \in Agents
               PROVE  /\ \E m \in received :
                           /\ m.agent = a
                           /\ m.id \in window'.batches
                           /\ \E t \in m.observed : window'.start <= t /\ t < window'.end
                      /\ \E m \in received :
                           /\ m.agent = a
                           /\ m.created >= window'.at - StaleAfter - MaxClockSkew
                           /\ m.created <= window'.at + MaxClockSkew
    BY DEF Covered
  <1>1. /\ BatchesIn(accepted_samples_by_agent[a], start, end) # {}
        /\ HealthStatus(last_seen_by_agent[a]) = "healthy"
    BY <1>0 DEF MissingAgents
  <1>2. \E m \in received :
          /\ m.agent = a
          /\ m.id \in window'.batches
          /\ \E t \in m.observed : window'.start <= t /\ t < window'.end
    <2>1. PICK e \in Entries(accepted_samples_by_agent[a]) :
            \E t \in e.observed : start <= t /\ t < end
      BY <1>1, BatchesInEntries
    <2>2. PICK m \in received : m.agent = a /\ m.id = e.batch /\ m.observed = e.observed
      BY DEF Origins, EntriesAreReceived
    <2>3. e.batch \in BatchesIn(accepted_samples_by_agent[a], start, end)
      BY <2>1, BatchesInEntries
    <2>4. e.batch \in Evidence(start, end)
      BY <2>3 DEF Evidence
    <2>5. QED
      BY <1>0, <2>1, <2>2, <2>4
  <1>3. \E m \in received :
          /\ m.agent = a
          /\ m.created >= window'.at - StaleAfter - MaxClockSkew
          /\ m.created <= window'.at + MaxClockSkew
    <2>1. /\ last_seen_by_agent[a] # NeverSeen
          /\ last_seen_by_agent[a] \in Nat
          /\ clock - last_seen_by_agent[a] <= StaleAfter
          /\ clock \in Nat /\ StaleAfter \in Nat /\ MaxClockSkew \in Nat
      BY <1>1, ServiceAssumption DEF HealthStatus, TypeOK, ServiceTypeOK, NeverSeen
    <2>2. PICK m \in received :
            /\ m.agent = a
            /\ m.created >= last_seen_by_agent[a] - MaxClockSkew
            /\ m.created <= last_seen_by_agent[a] + MaxClockSkew
      BY <2>1 DEF Origins, SeenByMessage
    <2>3. m.created \in Int
      BY DEF Message
    <2>4. last_seen_by_agent[a] <= clock
      BY DEF SeenBeforeNow
    <2>5. QED
      BY <1>0, <2>1, <2>2, <2>3, <2>4
  <1>4. QED
    BY <1>2, <1>3

(* What the evidence of a window names is in an agent's list. *)
LEMMA EvidenceIsNotFromTheFuture ==
  ASSUME TypeOK, Origins, NEW w \in Windows, Evidence(w[1], w[2]) # {}
  PROVE  w[1] <= clock + MaxClockSkew
  <1>1. PICK a \in Agents :
          \E e \in Entries(accepted_samples_by_agent[a]) :
            \E t \in e.observed : w[1] <= t /\ t < w[2]
    <2>1. CASE \E a \in Agents : BatchesIn(accepted_samples_by_agent[a], w[1], w[2]) # {}
      BY <2>1, BatchesInEntries
    <2>2. CASE \E n \in Nodes : BatchesIn(accepted_samples_by_node[n], w[1], w[2]) # {}
      <3>1. PICK n \in Nodes :
              \E e \in Entries(accepted_samples_by_node[n]) :
                \E t \in e.observed : w[1] <= t /\ t < w[2]
        BY <2>2, BatchesInEntries
      <3>2. PICK e \in Entries(accepted_samples_by_node[n]) :
              \E t \in e.observed : w[1] <= t /\ t < w[2]
        BY <3>1
      <3>3. \E a \in AgentsOf(n) : e \in Entries(accepted_samples_by_agent[a])
        BY <3>2 DEF Origins, EntriesAgree
      <3>4. QED
        BY <3>2, <3>3 DEF AgentsOf
    <2>3. QED
      BY <2>1, <2>2 DEF Evidence
  <1>2. PICK e \in Entries(accepted_samples_by_agent[a]) :
          \E t \in e.observed : w[1] <= t /\ t < w[2]
    BY <1>1
  <1>3. PICK t \in e.observed : w[1] <= t
    BY <1>2
  <1>4. e \in SampleEntry
    <2>1. accepted_samples_by_agent[a] \in Seq(SampleEntry)
      BY <1>1 DEF TypeOK, ServiceTypeOK
    <2>2. QED
      BY <1>2, <2>1 DEF Entries
  <1>5. /\ t \in Int /\ w[1] \in Int /\ clock \in Nat /\ MaxClockSkew \in Nat
        /\ t <= clock + MaxClockSkew
    BY <1>1, <1>2, <1>3, <1>4, ServiceAssumption, DetectorAssumption
       DEF SampleEntry, TypeOK, ServiceTypeOK, Origins, ObservedByNow
  <1>6. QED
    BY <1>3, <1>5

(* SeenBeforeNow is part of what ViewsCorrect rests on; the same steps     *)
(* keep it here.                                                           *)
LEMMA SeenBeforeNowStep ==
  TypeOK /\ SeenBeforeNow /\ NodeViewAgreesWithAgents /\ [Next]_serviceVars
    => SeenBeforeNow' /\ NodeViewAgreesWithAgents'
  <1> SUFFICES ASSUME TypeOK, SeenBeforeNow, NodeViewAgreesWithAgents, [Next]_serviceVars
               PROVE  SeenBeforeNow' /\ NodeViewAgreesWithAgents'
    OBVIOUS
  <1>1. ASSUME UNCHANGED memory, clock' \in {clock, clock + 1}
        PROVE  SeenBeforeNow' /\ NodeViewAgreesWithAgents'
    <2>1. \A a \in Agents : last_seen_by_agent[a] <= clock'
      <3> TAKE a \in Agents
      <3>1. /\ clock \in Nat
            /\ last_seen_by_agent[a] \in Nat \cup {NeverSeen}
            /\ last_seen_by_agent[a] <= clock
        BY DEF TypeOK, ServiceTypeOK, SeenBeforeNow
      <3>2. QED
        BY <1>1, <3>1 DEF NeverSeen
    <2>2. QED
      BY <1>1, <2>1 DEF memory, sampleVars, SeenBeforeNow, NodeViewAgreesWithAgents, AgentsOf
  <1>2. ASSUME NEW m \in Messages, Ingest(m)
        PROVE  SeenBeforeNow' /\ NodeViewAgreesWithAgents'
    <2>1. CASE Accept(m) /\ UNCHANGED clock
      BY <2>1, MessagesAssumption, ViewAccept
    <2>2. CASE UNCHANGED serviceVars
      BY <1>1, <2>2 DEF serviceVars
    <2>3. QED
      BY <1>2, <2>1, <2>2, IngestAcceptsOrRefuses
  <1>3. CASE ServiceRestart
    <2>1. SeenBeforeNow'
      BY <1>3 DEF ServiceRestart, SeenBeforeNow, TypeOK, ServiceTypeOK, NeverSeen
    <2>2. NodeViewAgreesWithAgents'
      BY <1>3, ServiceAssumption
         DEF ServiceRestart, NodeViewAgreesWithAgents, AgentsOf, Batches, NeverSeen
    <2>3. QED
      BY <2>1, <2>2
  <1>4. CASE Tick
    BY <1>1, <1>4 DEF Tick
  <1>5. CASE UNCHANGED serviceVars
    BY <1>1, <1>5 DEF serviceVars
  <1>6. QED
    BY <1>2, <1>3, <1>4, <1>5 DEF Next

LEMMA OriginsStep ==
  DetectorTypeOK /\ Origins /\ [DetectorNext]_detectorVars => Origins' /\ received \subseteq received'
  <1> SUFFICES ASSUME DetectorTypeOK, Origins, [DetectorNext]_detectorVars
               PROVE  Origins' /\ received \subseteq received'
    OBVIOUS
  <1>0. TypeOK
    BY DEF DetectorTypeOK
  <1>1. ASSUME UNCHANGED serviceVars, UNCHANGED received
        PROVE  Origins' /\ received \subseteq received'
    BY <1>0, <1>1, OriginsKept DEF serviceVars
  <1>2. ASSUME NEW m \in Messages, Receive(m) PROVE Origins' /\ received \subseteq received'
    <2>1. CASE ReasonCode(m) = "accepted"
      BY <1>0, <1>2, <2>1, MessagesAssumption, OriginsAccept DEF Receive, Ingest
    <2>2. CASE ReasonCode(m) # "accepted"
      BY <1>1, <1>2, <2>2 DEF Receive, Ingest, serviceVars
    <2>3. QED
      BY <2>1, <2>2
  <1>3. ASSUME NEW w \in Windows, AggregateWindow(w[1], w[2])
        PROVE  Origins' /\ received \subseteq received'
    BY <1>1, <1>3 DEF AggregateWindow
  <1>4. ASSUME NEW score \in Scores, Decide(score)
        PROVE  Origins' /\ received \subseteq received'
    BY <1>1, <1>4 DEF Decide
  <1>5. CASE ServiceRestart /\ UNCHANGED received
    BY <1>5, OriginsRestart
  <1>6. CASE Tick /\ UNCHANGED received
    BY <1>0, <1>6, OriginsKept DEF Tick
  <1>7. CASE UNCHANGED detectorVars
    BY <1>1, <1>7 DEF detectorVars
  <1>8. QED
    BY <1>2, <1>3, <1>4, <1>5, <1>6, <1>7 DEF DetectorNext

(* What DInv says of windows and decisions. *)
WindowsAreSound ==
  /\ NodeLossIsLossOfAllItsAgents
  /\ CompleteWindowsAreCovered
  /\ ScoredDecisionsCoverEveryAgent
  /\ NoEvidenceFromTheFuture

LEMMA ScoredIsCovered ==
  ScoredDecisionsCoverEveryAgent
    <=> (decision # None /\ decision.score # NoScore => Covered(decision.window))
  BY DEF ScoredDecisionsCoverEveryAgent, Covered

LEMMA WindowsKept ==
  ASSUME WindowsAreSound, UNCHANGED <<window, decision>>, received \subseteq received'
  PROVE  WindowsAreSound'
  <1>1. NodeLossIsLossOfAllItsAgents' /\ NoEvidenceFromTheFuture'
    BY DEF WindowsAreSound, NodeLossIsLossOfAllItsAgents, NoEvidenceFromTheFuture, AgentsOf
  <1>2. CompleteWindowsAreCovered'
    BY CoveredStays DEF WindowsAreSound, CompleteWindowsAreCovered, Complete
  <1>3. decision # None /\ decision.score # NoScore => Covered(decision.window)'
    BY CoveredStays, ScoredIsCovered DEF WindowsAreSound
  <1>4. ScoredDecisionsCoverEveryAgent'
    BY <1>3 DEF ScoredDecisionsCoverEveryAgent, Covered
  <1>5. QED
    BY <1>1, <1>2, <1>4 DEF WindowsAreSound

LEMMA WindowsAggregate ==
  ASSUME DetectorTypeOK, SeenBeforeNow, NodeViewAgreesWithAgents, Origins, WindowsAreSound,
         NEW w \in Windows, AggregateWindow(w[1], w[2])
  PROVE  WindowsAreSound'
  <1>0. TypeOK /\ received \subseteq Message
    BY DEF DetectorTypeOK
  <1>1. /\ window'.start = w[1] /\ window'.at = clock
        /\ window'.nodes = MissingNodes(w[1], w[2])
        /\ window'.agents = MissingAgents(w[1], w[2])
        /\ window'.batches = Evidence(w[1], w[2])
        /\ UNCHANGED <<decision, received>>
    BY DEF AggregateWindow
  <1>2. NodeLossIsLossOfAllItsAgents'
    BY <1>0, <1>1, NodeLossAtAggregation DEF NodeLossIsLossOfAllItsAgents, AgentsOf
  <1>3. CompleteWindowsAreCovered'
    <2>1. ASSUME window'.agents = {} PROVE Covered(window)'
      <3>1. Covered(window')
        BY <1>0, <2>1, CoverageAtAggregation
      <3>2. QED
        BY <1>1, <3>1 DEF Covered
    <2>2. QED
      BY <2>1 DEF CompleteWindowsAreCovered, Complete
  <1>4. ScoredDecisionsCoverEveryAgent'
    BY <1>1 DEF WindowsAreSound, ScoredDecisionsCoverEveryAgent
  <1>5. NoEvidenceFromTheFuture'
    BY <1>0, <1>1, EvidenceIsNotFromTheFuture DEF NoEvidenceFromTheFuture
  <1>6. QED
    BY <1>2, <1>3, <1>4, <1>5 DEF WindowsAreSound

LEMMA WindowsDecide ==
  ASSUME WindowsAreSound, NEW score \in Scores, Decide(score)
  PROVE  WindowsAreSound'
  <1>1. UNCHANGED <<window, received>>
    BY DEF Decide
  <1>2. /\ NodeLossIsLossOfAllItsAgents' /\ NoEvidenceFromTheFuture'
        /\ CompleteWindowsAreCovered'
    BY <1>1 DEF WindowsAreSound, NodeLossIsLossOfAllItsAgents, NoEvidenceFromTheFuture,
                CompleteWindowsAreCovered, Complete, Covered, AgentsOf
  <1>3. ASSUME decision'.score # NoScore PROVE Covered(decision'.window)
    <2>1. Complete(window) /\ window # None
      BY <1>3 DEF Decide
    <2>2. decision'.window = window
      BY <2>1 DEF Decide
    <2>3. QED
      BY <2>1, <2>2 DEF WindowsAreSound, CompleteWindowsAreCovered
  <1>4. ScoredDecisionsCoverEveryAgent'
    BY <1>1, <1>3 DEF ScoredDecisionsCoverEveryAgent, Covered
  <1>5. QED
    BY <1>2, <1>4 DEF WindowsAreSound

LEMMA DInvInit == DetectorInit => DInv /\ WindowsAreSound
  <1> SUFFICES ASSUME DetectorInit PROVE DInv /\ WindowsAreSound
    OBVIOUS
  <1>1. DetectorTypeOK
    BY DetectorTypeInit
  <1>2. SeenBeforeNow
    BY DEF DetectorInit, ServiceInit, MemoryInit, SeenBeforeNow, NeverSeen
  <1>3. NodeViewAgreesWithAgents
    BY ServiceAssumption
       DEF DetectorInit, ServiceInit, MemoryInit, NodeViewAgreesWithAgents, AgentsOf, Batches,
           NeverSeen
  <1>4. Origins
    <2>1. Entries(<<>>) = {}
      BY DEF Entries
    <2>2. /\ \A a \in Agents : Entries(accepted_samples_by_agent[a]) = {}
          /\ \A n \in Nodes : Entries(accepted_samples_by_node[n]) = {}
          /\ \A a \in Agents : last_seen_by_agent[a] = NeverSeen
      BY <2>1 DEF DetectorInit, ServiceInit, MemoryInit
    <2>3. EntriesAgree
      BY <2>2 DEF EntriesAgree, AgentsOf
    <2>4. QED
      BY <2>2, <2>3 DEF Origins, EntriesAreReceived, SeenByMessage, ObservedByNow
  <1>5. WindowsAreSound
    BY DEF DetectorInit, WindowsAreSound, NodeLossIsLossOfAllItsAgents,
           CompleteWindowsAreCovered, ScoredDecisionsCoverEveryAgent, NoEvidenceFromTheFuture
  <1>6. QED
    BY <1>1, <1>2, <1>3, <1>4, <1>5 DEF DInv, WindowsAreSound

LEMMA DInvStep == DInv /\ [DetectorNext]_detectorVars => DInv'
  <1> SUFFICES ASSUME DInv, [DetectorNext]_detectorVars PROVE DInv'
    OBVIOUS
  <1>0. /\ DetectorTypeOK /\ TypeOK /\ SeenBeforeNow /\ NodeViewAgreesWithAgents
        /\ Origins /\ WindowsAreSound
    BY DEF DInv, DetectorTypeOK, WindowsAreSound
  <1>1. DetectorTypeOK'
    BY <1>0, DetectorTypeStep
  <1>2. SeenBeforeNow' /\ NodeViewAgreesWithAgents'
    BY <1>0, SeenBeforeNowStep, DetectorStepIsServiceStep
  <1>3. Origins' /\ received \subseteq received'
    BY <1>0, OriginsStep
  <1>4. WindowsAreSound'
    <2>1. ASSUME NEW m \in Messages, Receive(m) PROVE WindowsAreSound'
      BY <1>0, <1>3, <2>1, WindowsKept DEF Receive
    <2>2. ASSUME NEW w \in Windows, AggregateWindow(w[1], w[2]) PROVE WindowsAreSound'
      BY <1>0, <2>2, WindowsAggregate
    <2>3. ASSUME NEW score \in Scores, Decide(score) PROVE WindowsAreSound'
      BY <1>0, <2>3, WindowsDecide
    <2>4. CASE (ServiceRestart \/ Tick) /\ UNCHANGED <<window, decision, received>>
      BY <1>0, <1>3, <2>4, WindowsKept
    <2>5. CASE UNCHANGED detectorVars
      BY <1>0, <1>3, <2>5, WindowsKept DEF detectorVars
    <2>6. QED
      BY <2>1, <2>2, <2>3, <2>4, <2>5 DEF DetectorNext
  <1>5. QED
    BY <1>1, <1>2, <1>3, <1>4 DEF DInv, WindowsAreSound

LEMMA DInvAlways == DetectorSpec => []DInv
  <1>1. DetectorInit => DInv
    BY DInvInit
  <1>2. QED
    BY <1>1, DInvStep, PTL DEF DetectorSpec

(* Losing a node is losing all its agents: the two lists of a window never *)
(* contradict each other.                                                  *)
THEOREM NodeLossCorrect == DetectorSpec => []NodeLossIsLossOfAllItsAgents
  <1>1. DInv => NodeLossIsLossOfAllItsAgents
    BY DEF DInv
  <1>2. QED
    BY <1>1, DInvAlways, PTL

(* No decision is scored unless every registered agent contributed a       *)
(* sample of the window and a recent message.                              *)
THEOREM ScoredDecisionsCorrect == DetectorSpec => []ScoredDecisionsCoverEveryAgent
  <1>1. DInv => ScoredDecisionsCoverEveryAgent
    BY DEF DInv
  <1>2. QED
    BY <1>1, DInvAlways, PTL

(* The evidence of a window is not further ahead than clocks may be.       *)
THEOREM EvidenceCorrect == DetectorSpec => []NoEvidenceFromTheFuture
  <1>1. DInv => NoEvidenceFromTheFuture
    BY DEF DInv
  <1>2. QED
    BY <1>1, DInvAlways, PTL

=============================================================================
