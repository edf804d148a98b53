------------------------ MODULE OfflineDelivery_proofs ------------------------
(***************************************************************************)
(* Agents and service joined by OfflineFileTransport, with files that may  *)
(* fail to be written, implement TelemetryPipe, and the files are a        *)
(* faithful log: for every set of agents, every clock offset and every     *)
(* limit.                                                                  *)
(***************************************************************************)
EXTENDS OfflineDelivery, NodeAgent_proofs

LogTypes ==
  /\ requests \in [MessageIds -> {"absent", "partial", "complete"}]
  /\ acknowledgments \in [MessageIds -> Reasons \cup {"absent", "partial"}]
  /\ flushing \subseteq Agents
  /\ result \in Reasons \cup {"none", "raised"}

(* The answer flush looks at next is one to the head of its queue, and a   *)
(* positive one is of a batch the service received.                        *)
ResultIsSound ==
  Returned =>
    \E a \in Agents :
      /\ flushing = {a} /\ pending[a] # <<>>
      /\ Positive(result) => Head(pending[a]).id \in received

OnlyBatches == \A m \in accepted_message_digests : IsBatch(m)

IInv ==
  /\ AgentsAreSound
  /\ ServiceIsSound
  /\ ListsOfOneObject
  /\ LogTypes
  /\ OnlyBatches
  /\ FilesAgreeWithService
  /\ ResultIsSound

-----------------------------------------------------------------------------

LEMMA CollectOnceStep ==
  ASSUME IInv, NEW a \in Agents, CollectOnce(a)
  PROVE  IInv' /\ PipeStep
  <1>1. /\ QueueBatch(a) /\ flushing = {}
        /\ UNCHANGED <<serviceVars, received, files, flushing, result>>
    BY DEF CollectOnce
  <1>2. AgentsAreSound /\ ServiceIsSound /\ ListsOfOneObject /\ clock \in Nat
    BY DEF IInv, ServiceIsSound, ServiceTypes
  <1>3. ServiceIsSound' /\ ListsOfOneObject' /\ UNCHANGED accepted_samples_by_agent
    BY <1>1, <1>2, ServiceStays
  <1>4. AgentsAreSound' /\ Pipe!Produce(a)
    BY <1>1, <1>2, <1>3, QueueStep
  <1>5. UNCHANGED accepted_message_digests
    BY <1>1 DEF serviceVars, memory
  <1>6. LogTypes' /\ OnlyBatches' /\ FilesAgreeWithService'
    BY <1>1, <1>5 DEF IInv, LogTypes, OnlyBatches, FilesAgreeWithService, files, seen_message_ids
  <1>7. ~Returned
    BY <1>1 DEF IInv, ResultIsSound
  <1>8. ResultIsSound'
    BY <1>1, <1>7 DEF ResultIsSound, Returned
  <1>9. QED
    BY <1>3, <1>4, <1>6, <1>8 DEF IInv, PipeStep, Pipe!Next

LEMMA FlushReturnedStep ==
  ASSUME IInv, NEW a \in Agents, FlushReturned(a)
  PROVE  IInv' /\ PipeStep
  <1>1. /\ flushing = {a} /\ Returned /\ result' = "none"
        /\ UNCHANGED <<serviceVars, received, files>>
    BY DEF FlushReturned
  <1>2. AgentsAreSound /\ ServiceIsSound /\ ListsOfOneObject
    BY DEF IInv
  <1>3. ServiceIsSound' /\ ListsOfOneObject' /\ UNCHANGED accepted_samples_by_agent
    BY <1>1, <1>2, ServiceStays
  <1>4. UNCHANGED accepted_message_digests
    BY <1>1 DEF serviceVars, memory
  <1>5. OnlyBatches' /\ FilesAgreeWithService'
    BY <1>1, <1>4 DEF IInv, OnlyBatches, FilesAgreeWithService, files, seen_message_ids
  <1>6. LogTypes'
    <2>1. flushing' \subseteq Agents
      BY DEF FlushReturned
    <2>2. QED
      BY <1>1, <2>1 DEF IInv, LogTypes, files
  <1>7. ResultIsSound'
    BY <1>1 DEF ResultIsSound, Returned
  <1>8. CASE ~Positive(result)
    <2>1. UNCHANGED agentVars
      BY <1>8 DEF FlushReturned
    <2>2. AgentsAreSound' /\ UNCHANGED Pipe!pipeVars
      BY <1>1, <1>2, <1>3, <2>1, AgentsStay, PipeStays
    <2>3. QED
      BY <1>3, <1>5, <1>6, <1>7, <2>2 DEF IInv, PipeStep
  <1>9. CASE Positive(result)
    <2>1. PopPending(a)
      BY <1>9 DEF FlushReturned
    <2>2. pending[a] # <<>> /\ Head(pending[a]).id \in received
      BY <1>1, <1>9 DEF IInv, ResultIsSound
    <2>3. AgentsAreSound' /\ Pipe!Acknowledge(a)
      BY <1>1, <1>2, <1>3, <2>1, <2>2, PopStep
    <2>4. QED
      BY <1>3, <1>5, <1>6, <1>7, <2>3 DEF IInv, PipeStep, Pipe!Next
  <1>10. QED
    BY <1>8, <1>9

LEMMA AdvanceClockStep ==
  ASSUME IInv, AdvanceClock
  PROVE  IInv' /\ PipeStep
  <1>1. Tick /\ UNCHANGED <<agentVars, received, files, flushing, result>>
    BY DEF AdvanceClock
  <1>2. AgentsAreSound /\ ServiceIsSound /\ ListsOfOneObject
    BY DEF IInv
  <1>3. ServiceIsSound' /\ ListsOfOneObject' /\ UNCHANGED Pipe!pipeVars
    BY <1>1, <1>2, TickStep
  <1>4. AgentsAreSound'
    BY <1>1, <1>2, AgentsStay
  <1>5. UNCHANGED accepted_message_digests
    BY <1>1 DEF Tick, memory
  <1>6. LogTypes' /\ OnlyBatches' /\ FilesAgreeWithService'
    BY <1>1, <1>5 DEF IInv, LogTypes, OnlyBatches, FilesAgreeWithService, files, seen_message_ids
  <1>7. ResultIsSound'
    BY <1>1 DEF IInv, ResultIsSound, Returned, agentVars
  <1>8. QED
    BY <1>3, <1>4, <1>6, <1>7 DEF IInv, PipeStep

LEMMA StutterStep ==
  ASSUME IInv, UNCHANGED vars
  PROVE  IInv' /\ PipeStep
  <1>1. UNCHANGED <<serviceVars, agentVars, received, files, flushing, result>>
    BY DEF vars
  <1>2. AgentsAreSound /\ ServiceIsSound /\ ListsOfOneObject
    BY DEF IInv
  <1>3. ServiceIsSound' /\ ListsOfOneObject' /\ UNCHANGED accepted_samples_by_agent
    BY <1>1, <1>2, ServiceStays
  <1>4. AgentsAreSound' /\ UNCHANGED Pipe!pipeVars
    BY <1>1, <1>2, <1>3, AgentsStay, PipeStays
  <1>5. UNCHANGED accepted_message_digests
    BY <1>1 DEF serviceVars, memory
  <1>6. LogTypes' /\ OnlyBatches' /\ FilesAgreeWithService'
    BY <1>1, <1>5 DEF IInv, LogTypes, OnlyBatches, FilesAgreeWithService, files, seen_message_ids
  <1>7. ResultIsSound'
    BY <1>1 DEF IInv, ResultIsSound, Returned, agentVars
  <1>8. QED
    BY <1>3, <1>4, <1>6, <1>7 DEF IInv, PipeStep

-----------------------------------------------------------------------------
(* send *)

LEMMA HeadIsBatch ==
  ASSUME IInv, NEW a \in Agents, pending[a] # <<>>
  PROVE  LET m == Head(pending[a])
         IN  MayBeSent(m) /\ IsBatch(m) /\ m.agent = a /\ m \in Message /\ m.id \in MessageIds
  BY HeadMayBeSent DEF IInv, HeadsMayBeSent, MayBeSent, Message

LEMMA ReceivedIsSeen ==
  ASSUME NEW m \in Message, Receive(m)
  PROVE  /\ accepted_message_digests \subseteq accepted_message_digests'
         /\ accepted_message_digests' \subseteq accepted_message_digests \cup {m}
         /\ Positive(ReasonCode(m)) => m \in accepted_message_digests'
  <1>1. CASE ReasonCode(m) = "accepted"
    BY <1>1 DEF Receive, Ingest, Accept, RecordMessage
  <1>2. CASE ReasonCode(m) # "accepted"
    <2>1. UNCHANGED accepted_message_digests
      BY <1>2 DEF Receive, Ingest, memory
    <2>2. QED
      BY <1>2, <2>1, AcceptedMeans DEF Positive
  <1>3. QED
    BY <1>1, <1>2

(* Writing the request raised, whatever it left on file: nothing was sent. *)
LEMMA NotLoggedStep ==
  ASSUME IInv, NEW m, NotLogged(m), m.id \in MessageIds,
         requests[m.id] # "complete",
         NEW left \in {"absent", "partial", "complete"},
         requests' = [requests EXCEPT ![m.id] = left],
         UNCHANGED agentVars
  PROVE  IInv' /\ PipeStep
  <1>1. /\ result' = "raised" /\ flushing' = {}
        /\ UNCHANGED <<serviceVars, received, acknowledgments>>
    BY DEF NotLogged, Raise
  <1>2. AgentsAreSound /\ ServiceIsSound /\ ListsOfOneObject
    BY DEF IInv
  <1>3. ServiceIsSound' /\ ListsOfOneObject' /\ UNCHANGED accepted_samples_by_agent
    BY <1>1, <1>2, ServiceStays
  <1>4. AgentsAreSound' /\ UNCHANGED Pipe!pipeVars
    BY <1>1, <1>2, <1>3, AgentsStay, PipeStays
  <1>5. UNCHANGED accepted_message_digests /\ seen_message_ids' = seen_message_ids
    BY <1>1 DEF serviceVars, memory, seen_message_ids
  <1>6. LogTypes' /\ OnlyBatches'
    BY <1>1, <1>5 DEF IInv, LogTypes, OnlyBatches
  <1>7. m.id \notin seen_message_ids /\ acknowledgments[m.id] = "absent"
    BY DEF IInv, FilesAgreeWithService
  <1>8. FilesAgreeWithService'
    <2>1. \A id \in MessageIds \ {m.id} : requests'[id] = requests[id]
      BY DEF IInv, LogTypes
    <2>2. QED
      BY <1>1, <1>5, <1>7, <2>1 DEF IInv, FilesAgreeWithService, Positive
  <1>9. ResultIsSound'
    BY <1>1 DEF ResultIsSound, Returned
  <1>10. QED
    BY <1>3, <1>4, <1>6, <1>8, <1>9 DEF IInv, PipeStep

(* A file is whole if writing it did not raise. *)
LEMMA WhatIsLeft ==
  ASSUME NEW content, NEW written \in WriteOutcomes(content)
  PROVE  /\ written.file \in {content, "absent", "partial"}
         /\ ~written.raises => written.file = content
  BY DEF WriteOutcomes

(* What the second half of send does to the acknowledgments and to flush. *)
LEMMA AcknowledgmentOnFile ==
  ASSUME IInv, NEW m \in Message, IngestAndAcknowledge(m)
  PROVE  /\ acknowledgments' \in [MessageIds -> Reasons \cup {"absent", "partial"}]
         /\ \A id \in MessageIds \ {m.id} : acknowledgments'[id] = acknowledgments[id]
         /\ acknowledgments'[m.id] \in {acknowledgments[m.id], ReasonCode(m), "partial"}
         /\ \/ result' = "raised" /\ flushing' = {}
            \/ result' = acknowledgments'[m.id] /\ flushing' = {m.agent}
         /\ result' \in Reasons \cup {"raised"}
  <1>1. /\ m.id \in MessageIds /\ ReasonCode(m) \in Reasons
        /\ acknowledgments \in [MessageIds -> Reasons \cup {"absent", "partial"}]
    BY ReasonIsKnown DEF Message, IInv, LogTypes
  <1>2. CASE acknowledgments[m.id] = "partial"
    <2>1. /\ UNCHANGED acknowledgments
          /\ result' = "raised" /\ flushing' = {}
      BY <1>2 DEF IngestAndAcknowledge, Raise
    <2>2. QED
      BY <1>1, <2>1
  <1>3. CASE acknowledgments[m.id] = "absent"
    <2>1. PICK written \in WriteOutcomes(ReasonCode(m)) :
            /\ acknowledgments' = [acknowledgments EXCEPT ![m.id] = written.file]
            /\ IF written.raises THEN Raise ELSE Return(m, ReasonCode(m))
      BY <1>3 DEF IngestAndAcknowledge
    <2>2. /\ written.file \in {ReasonCode(m), "absent", "partial"}
          /\ ~written.raises => written.file = ReasonCode(m)
      BY WhatIsLeft
    <2>3. CASE written.raises
      BY <1>1, <1>3, <2>1, <2>2, <2>3 DEF Raise
    <2>4. CASE ~written.raises
      BY <1>1, <2>1, <2>2, <2>4 DEF Return
    <2>5. QED
      BY <2>3, <2>4
  <1>4. CASE acknowledgments[m.id] \notin {"partial", "absent"}
    <2>1. /\ UNCHANGED acknowledgments
          /\ result' = acknowledgments[m.id]
          /\ flushing' = {m.agent}
      BY <1>4 DEF IngestAndAcknowledge, Return
    <2>2. QED
      BY <1>1, <1>4, <2>1
  <1>5. QED
    BY <1>2, <1>3, <1>4

LEMMA LoggedStep ==
  ASSUME IInv, NEW a \in Agents, pending[a] # <<>>, NEW m, m = Head(pending[a]),
         IngestAndAcknowledge(m),
         requests' = [requests EXCEPT ![m.id] = "complete"],
         UNCHANGED agentVars
  PROVE  IInv' /\ PipeStep
  <1>1. /\ MayBeSent(m) /\ IsBatch(m) /\ m.agent = a /\ m \in Message /\ m.id \in MessageIds
        /\ Receive(m)
    BY HeadIsBatch DEF IngestAndAcknowledge
  <1>2. AgentsAreSound /\ ServiceIsSound /\ ListsOfOneObject
    BY DEF IInv
  <1>3. /\ ServiceIsSound' /\ ListsOfOneObject' /\ received \subseteq received'
        /\ Pipe!Store(m.agent) \/ UNCHANGED Pipe!pipeVars
    BY <1>1, <1>2, ReceiveStep
  <1>4. AgentsAreSound' /\ pending' = pending
    BY <1>2, AgentsStay DEF agentVars
  <1>5. /\ accepted_message_digests \subseteq accepted_message_digests'
        /\ accepted_message_digests' \subseteq accepted_message_digests \cup {m}
        /\ Positive(ReasonCode(m)) => m \in accepted_message_digests'
    BY <1>1, ReceivedIsSeen
  <1>6. /\ seen_message_ids \subseteq seen_message_ids'
        /\ seen_message_ids' \subseteq seen_message_ids \cup {m.id}
        /\ Positive(ReasonCode(m)) => m.id \in seen_message_ids'
    BY <1>5 DEF seen_message_ids
  <1>7. /\ acknowledgments' \in [MessageIds -> Reasons \cup {"absent", "partial"}]
        /\ \A id \in MessageIds \ {m.id} : acknowledgments'[id] = acknowledgments[id]
        /\ acknowledgments'[m.id] \in {acknowledgments[m.id], ReasonCode(m), "partial"}
        /\ \/ result' = "raised" /\ flushing' = {}
           \/ result' = acknowledgments'[m.id] /\ flushing' = {a}
        /\ result' \in Reasons \cup {"raised"}
    BY <1>1, AcknowledgmentOnFile
  <1>8. LogTypes'
    BY <1>1, <1>7 DEF IInv, LogTypes
  <1>9. OnlyBatches'
    BY <1>1, <1>5 DEF IInv, OnlyBatches
  <1>10. Positive(acknowledgments'[m.id]) => m.id \in seen_message_ids'
    <2>1. Positive(acknowledgments[m.id]) => m.id \in seen_message_ids'
      BY <1>1, <1>6 DEF IInv, FilesAgreeWithService
    <2>2. ~Positive("partial")
      BY DEF Positive
    <2>3. QED
      BY <1>6, <1>7, <2>1, <2>2
  <1>11. FilesAgreeWithService'
    <2>1. /\ requests'[m.id] = "complete"
          /\ \A id \in MessageIds \ {m.id} : requests'[id] = requests[id]
      BY <1>1 DEF IInv, LogTypes
    <2>2. ASSUME NEW id \in MessageIds
          PROVE  /\ id \in seen_message_ids' => requests'[id] = "complete"
                 /\ Positive(acknowledgments'[id]) => id \in seen_message_ids'
                 /\ acknowledgments'[id] # "absent" => requests'[id] = "complete"
      <3>1. CASE id = m.id
        BY <1>10, <2>1, <3>1
      <3>2. CASE id # m.id
        BY <1>6, <1>7, <2>1, <3>2 DEF IInv, FilesAgreeWithService
      <3>3. QED
        BY <3>1, <3>2
    <2>3. QED
      BY <2>2 DEF FilesAgreeWithService
  <1>12. ResultIsSound'
    <2>1. SUFFICES ASSUME Returned'
                   PROVE  /\ flushing' = {a} /\ pending'[a] # <<>>
                          /\ Positive(result') => Head(pending'[a]).id \in received'
      BY DEF ResultIsSound
    <2>2. result' = acknowledgments'[m.id] /\ flushing' = {a}
      BY <1>7, <2>1 DEF Returned
    <2>3. m.id \in seen_message_ids' => m.id \in received'
      <3>1. SUFFICES ASSUME m.id \in seen_message_ids' PROVE m.id \in received'
        OBVIOUS
      <3>2. PICK d \in accepted_message_digests' : d.id = m.id
        BY <3>1 DEF seen_message_ids
      <3>3. QED
        BY <1>3, <1>9, <3>2 DEF ServiceIsSound, OnlyBatches
    <2>4. QED
      BY <1>4, <1>10, <2>2, <2>3
  <1>13. QED
    BY <1>1, <1>3, <1>4, <1>8, <1>9, <1>11, <1>12 DEF IInv, PipeStep, Pipe!Next

LEMMA SendStep ==
  ASSUME IInv, NEW a \in Agents, Send(a)
  PROVE  IInv' /\ PipeStep
  <1>1. PICK m : m = Head(pending[a])
    OBVIOUS
  <1>2. pending[a] # <<>> /\ UNCHANGED agentVars
    BY DEF Send
  <1>3. m.id \in MessageIds /\ requests \in [MessageIds -> {"absent", "partial", "complete"}]
    BY <1>1, <1>2, HeadIsBatch DEF IInv, LogTypes
  <1>4. CASE requests[m.id] = "partial"
    <2>1. NotLogged(m) /\ UNCHANGED requests
      BY <1>1, <1>4 DEF Send
    <2>2. requests' = [requests EXCEPT ![m.id] = "partial"]
      BY <1>3, <1>4, <2>1
    <2>3. QED
      BY <1>2, <1>3, <1>4, <2>1, <2>2, NotLoggedStep
  <1>5. CASE requests[m.id] = "absent"
    <2>1. PICK written \in WriteOutcomes("complete") :
            /\ requests' = [requests EXCEPT ![m.id] = written.file]
            /\ AfterRequest(m, written)
      BY <1>1, <1>5 DEF Send
    <2>2. /\ written.file \in {"complete", "absent", "partial"}
          /\ ~written.raises => written.file = "complete"
      BY WhatIsLeft
    <2>3. CASE written.raises
      BY <1>2, <1>3, <1>5, <2>1, <2>2, <2>3, NotLoggedStep DEF AfterRequest
    <2>4. CASE ~written.raises
      BY <1>1, <1>2, <2>1, <2>2, <2>4, LoggedStep DEF AfterRequest
    <2>5. QED
      BY <2>3, <2>4
  <1>6. CASE requests[m.id] = "complete"
    <2>1. IngestAndAcknowledge(m) /\ UNCHANGED requests
      BY <1>1, <1>6 DEF Send
    <2>2. requests' = [requests EXCEPT ![m.id] = "complete"]
      BY <1>3, <1>6, <2>1
    <2>3. QED
      BY <1>1, <1>2, <2>1, <2>2, LoggedStep
  <1>7. QED
    BY <1>3, <1>4, <1>5, <1>6

-----------------------------------------------------------------------------

(* Every step keeps the invariant and is a step of the pipe. *)
LEMMA EveryStep == IInv /\ [Next]_vars => IInv' /\ [Pipe!Next]_(Pipe!pipeVars)
  <1>1. SUFFICES ASSUME IInv, [Next]_vars PROVE IInv' /\ PipeStep
    BY DEF PipeStep
  <1>2. CASE UNCHANGED vars
    BY <1>1, <1>2, StutterStep
  <1>3. ASSUME NEW a \in Agents, CollectOnce(a) \/ Send(a) \/ FlushReturned(a)
        PROVE  IInv' /\ PipeStep
    BY <1>1, <1>3, CollectOnceStep, SendStep, FlushReturnedStep
  <1>4. CASE AdvanceClock
    BY <1>1, <1>4, AdvanceClockStep
  <1>5. QED
    BY <1>1, <1>2, <1>3, <1>4 DEF Next

LEMMA Begins == Init => IInv /\ Pipe!Init
  <1>1. SUFFICES ASSUME Init PROVE IInv /\ Pipe!Init
    OBVIOUS
  <1>2. AgentsAreSound /\ ServiceIsSound /\ ListsOfOneObject /\ Pipe!Init
    BY <1>1, SoundInit DEF Init
  <1>3. accepted_message_digests = {}
    BY <1>1 DEF Init, ServiceInit, MemoryInit
  <1>4. LogTypes
    BY <1>1 DEF Init, LogTypes
  <1>5. OnlyBatches /\ FilesAgreeWithService
    BY <1>1, <1>3 DEF Init, OnlyBatches, FilesAgreeWithService, seen_message_ids, Positive
  <1>6. ResultIsSound
    BY <1>1 DEF Init, ResultIsSound, Returned
  <1>7. QED
    BY <1>2, <1>4, <1>5, <1>6 DEF IInv

(* The reachable states satisfy the invariant. *)
THEOREM Invariance == Spec => []IInv
  <1>1. Init => IInv
    BY Begins
  <1>2. IInv /\ [Next]_vars => IInv'
    BY EveryStep
  <1>3. QED
    BY <1>1, <1>2, PTL DEF Spec

(* OfflineFileTransport and ingest: the types of what the agents, the      *)
(* files, flush and the service keep.                                      *)
THEOREM TypeCorrect == Spec => []TypeOK
  <1>1. IInv /\ ServiceTypeOK => TypeOK
    BY SoundTypes DEF IInv, LogTypes, TypeOK
  <1>2. Init => ServiceTypeOK
    BY ServiceTypesInit DEF Init
  <1>3. IInv /\ ServiceTypeOK /\ [Next]_vars => ServiceTypeOK'
    <2>1. SUFFICES ASSUME IInv, ServiceTypeOK, [Next]_vars PROVE ServiceTypeOK'
      OBVIOUS
    <2>2. CASE UNCHANGED vars
      BY <2>1, <2>2, ServiceTypesStay DEF vars
    <2>3. ASSUME NEW a \in Agents, CollectOnce(a) \/ FlushReturned(a)
          PROVE  ServiceTypeOK'
      BY <2>1, <2>3, ServiceTypesStay DEF CollectOnce, FlushReturned
    <2>4. ASSUME NEW a \in Agents, Send(a)
          PROVE  ServiceTypeOK'
      <3>1. PICK m : m = Head(pending[a])
        OBVIOUS
      <3>2. m \in Message
        BY <2>1, <2>4, <3>1, HeadIsBatch DEF Send
      <3>3. UNCHANGED serviceVars \/ Receive(m)
        BY <2>4, <3>1 DEF Send, NotLogged, AfterRequest, IngestAndAcknowledge
      <3>4. QED
        BY <2>1, <3>2, <3>3, ServiceTypesStay, ServiceTypesReceive
    <2>5. CASE AdvanceClock
      BY <2>1, <2>5, ServiceTypesTick DEF AdvanceClock
    <2>6. QED
      BY <2>1, <2>2, <2>3, <2>4, <2>5 DEF Next
  <1>4. QED
    BY <1>1, <1>2, <1>3, Invariance, PTL DEF Spec

(* What the service accepted has its request on file, and a positive       *)
(* acknowledgment on file is of an accepted batch, though writing either   *)
(* file may raise before, in or after it (_exclusive_json).                *)
THEOREM FilesAreFaithful == Spec => []FilesAgreeWithService
  <1>1. IInv => FilesAgreeWithService
    BY DEF IInv
  <1>2. QED
    BY <1>1, Invariance, PTL

(* Delivery through files implements the pipe. *)
THEOREM DeliveryIsPipe == Spec => ImplementsPipe
  <1>1. Init => Pipe!Init
    BY Begins
  <1>2. IInv /\ [Next]_vars => [Pipe!Next]_(Pipe!pipeVars)
    BY EveryStep
  <1>3. QED
    BY <1>1, <1>2, Invariance, PTL DEF Spec, ImplementsPipe, Pipe!Spec

=============================================================================
