------------------------- MODULE HttpDelivery_proofs -------------------------
(***************************************************************************)
(* Agents that post over HTTP, with timeouts, late and lost requests and   *)
(* restarts of agents and service, implement TelemetryPipe, and the        *)
(* service never mixes the batches of two objects of one agent: for every  *)
(* set of agents, every clock offset and every limit.  Without heartbeats  *)
(* and restarts only a clock can be the reason of a refusal.               *)
(***************************************************************************)
EXTENDS HttpDelivery, NodeAgent_proofs

(* An agent that waits for a batch waits for the head of its queue, and a  *)
(* positive answer to it is of a batch the service received.               *)
MessageIsSound(a, m) ==
  /\ MayBeSent(m) /\ m.agent = a
  /\ IsBatch(m) => pending[a] # <<>> /\ m = Head(pending[a])

CallIsSound(a) ==
  /\ call[a] \in Calls
  /\ call[a].stage # "idle" => MessageIsSound(a, call[a].message)
  /\ (/\ call[a].stage = "answered" /\ IsBatch(call[a].message)
      /\ Positive(call[a].reason)) => call[a].message.id \in received

OrphansMayBeSent == \A m \in orphans : MayBeSent(m)

IInv ==
  /\ AgentsAreSound
  /\ ServiceIsSound
  /\ ListsOfOneObject
  /\ DOMAIN call = Agents /\ \A a \in Agents : CallIsSound(a)
  /\ OrphansMayBeSent

-----------------------------------------------------------------------------

LEMMA IdleIsSound ==
  ASSUME NEW a \in Agents, call'[a] = Idle
  PROVE  CallIsSound(a)'
  BY DEF CallIsSound, Idle, Calls

LEMMA SentIsSound ==
  ASSUME NEW a \in Agents, NEW m \in Message, call'[a] = Sent(m), MessageIsSound(a, m)'
  PROVE  CallIsSound(a)'
  <1>1. call'[a] \in Calls /\ call'[a].stage = "sent" /\ call'[a].message = m
    BY DEF Sent, Calls
  <1>2. MessageIsSound(a, call[a].message)'
    BY <1>1
  <1>3. QED
    BY <1>1, <1>2 DEF CallIsSound

LEMMA StageParts ==
  ASSUME NEW a, call[a] \in Calls
  PROVE  /\ call[a].stage = "idle" <=> call[a] = Idle
         /\ call[a].stage \in {"idle", "sent", "answered"}
         /\ call[a].stage # "idle" => call[a].message \in Message
         /\ call[a].stage = "answered" => call[a].reason \in Reasons
  BY DEF Calls, Idle

(* A call is sound as long as the agent's queue is as it was. *)
LEMMA CallStays ==
  ASSUME NEW c \in Agents, CallIsSound(c), call'[c] = call[c], pending'[c] = pending[c],
         received \subseteq received', \A m : MayBeSent(m) => MayBeSent(m)'
  PROVE  CallIsSound(c)'
  <1>1. ASSUME NEW m, MessageIsSound(c, m)
        PROVE  MessageIsSound(c, m)'
    BY <1>1 DEF MessageIsSound
  <1>2. PICK m : m = call[c].message
    OBVIOUS
  <1>3. call[c].stage # "idle" => MessageIsSound(c, m)'
    BY <1>1, <1>2 DEF CallIsSound
  <1>4. call'[c].stage # "idle" => MessageIsSound(c, call[c].message)'
    BY <1>2, <1>3
  <1>5. QED
    BY <1>4 DEF CallIsSound

(* A step of agent a in which the others do nothing. *)
OthersStay(a) ==
  /\ DOMAIN call' = DOMAIN call
  /\ \A c \in Agents \ {a} : call'[c] = call[c] /\ pending'[c] = pending[c]

LEMMA StepOfOne ==
  ASSUME IInv, NEW a \in Agents, OthersStay(a), AgentsAreSound',
         ServiceIsSound', ListsOfOneObject', CallIsSound(a)',
         \A m : MayBeSent(m) => MayBeSent(m)', received \subseteq received',
         \A m \in orphans' : m \in orphans \/ MayBeSent(m)
  PROVE  IInv'
  <1>1. \A c \in Agents : CallIsSound(c)'
    BY CallStays DEF IInv, OthersStay
  <1>2. OrphansMayBeSent'
    BY DEF IInv, OrphansMayBeSent
  <1>3. DOMAIN call' = Agents
    BY DEF IInv, OthersStay
  <1>4. QED
    BY <1>1, <1>2, <1>3 DEF IInv

LEMMA CollectOnceStep ==
  ASSUME IInv, NEW a \in Agents, CollectOnce(a)
  PROVE  IInv' /\ PipeStep
  <1>1. QueueBatch(a) /\ UNCHANGED <<serviceVars, call, orphans, received>> /\ call[a] = Idle
    BY DEF CollectOnce
  <1>2. AgentsAreSound /\ ServiceIsSound /\ ListsOfOneObject /\ clock \in Nat
    BY DEF IInv, ServiceIsSound, ServiceTypes
  <1>3. ServiceIsSound' /\ ListsOfOneObject' /\ UNCHANGED <<received, accepted_samples_by_agent>>
    BY <1>1, <1>2, ServiceStays
  <1>4. AgentsAreSound' /\ Pipe!Produce(a) /\ \A m : MayBeSent(m) => MayBeSent(m)'
    BY <1>1, <1>2, <1>3, QueueStep
  <1>5. OthersStay(a)
    <2>1. \A c \in Agents \ {a} : pending'[c] = pending[c]
      BY <1>1, <1>2 DEF QueueBatch, AgentsAreSound, AgentTypes
    <2>2. QED
      BY <1>1, <2>1 DEF OthersStay
  <1>6. CallIsSound(a)'
    BY <1>1, IdleIsSound
  <1>7. IInv'
    BY <1>1, <1>3, <1>4, <1>5, <1>6, StepOfOne
  <1>8. QED
    BY <1>4, <1>7 DEF PipeStep, Pipe!Next

(* A step of an agent's call that leaves queues and service alone. *)
LEMMA CallStep ==
  ASSUME IInv, NEW a \in Agents, UNCHANGED <<serviceVars, agentVars, received>>,
         OthersStay(a), CallIsSound(a)',
         \A m \in orphans' : m \in orphans \/ MayBeSent(m)
  PROVE  IInv' /\ PipeStep
  <1>1. AgentsAreSound /\ ServiceIsSound /\ ListsOfOneObject
    BY DEF IInv
  <1>2. ServiceIsSound' /\ ListsOfOneObject' /\ UNCHANGED <<received, accepted_samples_by_agent>>
    BY <1>1, ServiceStays
  <1>3. /\ AgentsAreSound' /\ \A m : MayBeSent(m) => MayBeSent(m)'
        /\ \A c \in Agents : LostOf(c)' = LostOf(c) /\ BeginsOf(c)' = BeginsOf(c)
    BY <1>1, AgentsStay
  <1>4. IInv'
    BY <1>2, <1>3, StepOfOne
  <1>5. UNCHANGED Pipe!pipeVars
    BY <1>1, <1>2, PipeStays
  <1>6. QED
    BY <1>4, <1>5 DEF PipeStep

LEMMA FlushStep ==
  ASSUME IInv, NEW a \in Agents, Flush(a)
  PROVE  IInv' /\ PipeStep
  <1>1. PICK m : m = Head(pending[a])
    OBVIOUS
  <1>2. /\ pending[a] # <<>> /\ call' = [call EXCEPT ![a] = Sent(m)]
        /\ UNCHANGED <<serviceVars, agentVars, orphans, received>>
    BY <1>1 DEF Flush
  <1>3. MayBeSent(m) /\ m.agent = a /\ m \in Message
    BY <1>1, <1>2, HeadMayBeSent DEF IInv, HeadsMayBeSent, MayBeSent
  <1>4. AgentsAreSound /\ pending' = pending
    BY <1>2 DEF IInv, agentVars
  <1>5. MayBeSent(m)'
    BY <1>2, <1>3, <1>4, AgentsStay
  <1>6. MessageIsSound(a, m)'
    BY <1>1, <1>2, <1>3, <1>4, <1>5 DEF MessageIsSound
  <1>7. call'[a] = Sent(m) /\ OthersStay(a)
    <2>1. a \in DOMAIN call
      BY DEF IInv
    <2>2. QED
      BY <1>2, <1>4, <2>1 DEF OthersStay
  <1>8. CallIsSound(a)'
    BY <1>3, <1>6, <1>7, SentIsSound
  <1>9. QED
    BY <1>2, <1>7, <1>8, CallStep

LEMMA SendHeartbeatStep ==
  ASSUME IInv, NEW a \in Agents, SendHeartbeat(a)
  PROVE  IInv' /\ PipeStep
  <1>1. PICK m : m = NewHeartbeat(a)
    OBVIOUS
  <1>2. /\ TakeSequence(a) /\ call' = [call EXCEPT ![a] = Sent(m)]
        /\ UNCHANGED <<serviceVars, last_batch_id, pending, starts, made, acknowledged, received,
                       orphans>>
    BY <1>1 DEF SendHeartbeat
  <1>3. AgentsAreSound /\ ServiceIsSound /\ ListsOfOneObject /\ clock \in Nat
    BY DEF IInv, ServiceIsSound, ServiceTypes
  <1>4. /\ AgentsAreSound' /\ m \in Message
        /\ \A c \in Agents : LostOf(c)' = LostOf(c) /\ BeginsOf(c)' = BeginsOf(c)
        /\ \A x : MayBeSent(x) => MayBeSent(x)'
    BY <1>1, <1>2, <1>3, HeartbeatStep
  <1>5. ServiceIsSound' /\ ListsOfOneObject' /\ UNCHANGED accepted_samples_by_agent
    BY <1>2, <1>3, ServiceStays
  <1>6. ~IsBatch(m) /\ m.agent = a
    BY <1>1 DEF NewHeartbeat, IsBatch
  <1>7. MessageIsSound(a, m)'
    BY <1>4, <1>6 DEF MessageIsSound, MayBeSent
  <1>8. call'[a] = Sent(m) /\ OthersStay(a)
    BY <1>2 DEF IInv, OthersStay
  <1>9. CallIsSound(a)'
    BY <1>4, <1>7, <1>8, SentIsSound
  <1>10. IInv'
    BY <1>2, <1>4, <1>5, <1>8, <1>9, StepOfOne
  <1>11. UNCHANGED Pipe!pipeVars
    <2>1. \A c \in Agents : StoredOf(c)' = StoredOf(c)
      BY <1>5 DEF StoredOf, BatchIds
    <2>2. QED
      BY <1>2, <1>4, <2>1, PipeStutter
  <1>12. QED
    BY <1>10, <1>11 DEF PipeStep

(* The service handles a request of an agent that waits for the answer. *)
LEMMA ServeStep ==
  ASSUME IInv, NEW a \in Agents, Serve(a)
  PROVE  IInv' /\ PipeStep
  <1>1. PICK m, reason : m = call[a].message /\ reason = ReasonCode(m)
    OBVIOUS
  <1>2. /\ call[a].stage = "sent" /\ Receive(m)
        /\ call' = [call EXCEPT ![a] = Answered(m, reason)]
        /\ UNCHANGED <<agentVars, orphans>>
    BY <1>1 DEF Serve
  <1>3. AgentsAreSound /\ ServiceIsSound /\ ListsOfOneObject /\ CallIsSound(a)
    BY DEF IInv
  <1>4. MessageIsSound(a, m)
    BY <1>1, <1>2, <1>3 DEF CallIsSound
  <1>5. MayBeSent(m) /\ m.agent = a /\ m \in Message
    BY <1>4 DEF MessageIsSound, MayBeSent
  <1>6. /\ ServiceIsSound' /\ ListsOfOneObject'
        /\ Pipe!Store(m.agent) \/ UNCHANGED Pipe!pipeVars
        /\ IsBatch(m) /\ Positive(reason) => m.id \in received'
        /\ received \subseteq received'
    BY <1>1, <1>2, <1>3, <1>5, ReceiveStep
  <1>7. AgentsAreSound' /\ \A x : MayBeSent(x) => MayBeSent(x)'
    BY <1>2, <1>3, AgentsStay
  <1>8. pending' = pending
    BY <1>2 DEF agentVars
  <1>9. call'[a] = Answered(m, reason) /\ OthersStay(a)
    BY <1>2, <1>8 DEF IInv, OthersStay
  <1>10. reason \in Reasons
    BY <1>1, <1>5, ReasonIsKnown
  <1>11. CallIsSound(a)'
    <2>1. /\ call'[a] \in Calls /\ call'[a].message = m /\ call'[a].stage = "answered"
          /\ call'[a].reason = reason
      BY <1>5, <1>9, <1>10 DEF Answered, Calls
    <2>2. MessageIsSound(a, m)'
      BY <1>4, <1>7, <1>8 DEF MessageIsSound
    <2>3. MessageIsSound(a, call[a].message)'
      BY <2>1, <2>2
    <2>4. QED
      BY <1>6, <2>1, <2>3 DEF CallIsSound
  <1>12. IInv'
    BY <1>2, <1>6, <1>7, <1>9, <1>11, StepOfOne
  <1>13. QED
    BY <1>5, <1>6, <1>12 DEF PipeStep, Pipe!Next

(* flush removes an accepted batch and goes on, or stops. *)
LEMMA FlushReturnsStep ==
  ASSUME IInv, NEW a \in Agents, FlushReturns(a)
  PROVE  IInv' /\ PipeStep
  <1>1. PICK m : m = call[a].message
    OBVIOUS
  <1>2. /\ call[a].stage = "answered" /\ IsBatch(m)
        /\ UNCHANGED <<serviceVars, orphans, received>>
    BY <1>1 DEF FlushReturns
  <1>3. AgentsAreSound /\ ServiceIsSound /\ ListsOfOneObject /\ CallIsSound(a)
    BY DEF IInv
  <1>4. ServiceIsSound' /\ ListsOfOneObject' /\ UNCHANGED accepted_samples_by_agent
    BY <1>2, <1>3, ServiceStays
  <1>5. CASE ~Positive(call[a].reason)
    <2>1. call' = [call EXCEPT ![a] = Idle] /\ UNCHANGED agentVars
      BY <1>5 DEF FlushReturns
    <2>2. call'[a] = Idle /\ OthersStay(a)
      BY <2>1 DEF IInv, OthersStay, agentVars
    <2>3. CallIsSound(a)'
      BY <2>2, IdleIsSound
    <2>4. QED
      BY <1>2, <2>1, <2>2, <2>3, CallStep
  <1>6. CASE Positive(call[a].reason)
    <2>1. /\ PopPending(a)
          /\ call' = [call EXCEPT ![a] = IF Tail(pending[a]) = <<>> THEN Idle
                                         ELSE Sent(Head(Tail(pending[a])))]
      BY <1>6 DEF FlushReturns
    <2>2. pending[a] # <<>> /\ m = Head(pending[a]) /\ m.id \in received
      BY <1>1, <1>2, <1>3, <1>6 DEF CallIsSound, MessageIsSound
    <2>3. /\ AgentsAreSound' /\ Pipe!Acknowledge(a)
          /\ \A x : MayBeSent(x) => MayBeSent(x)'
      BY <1>2, <1>3, <1>4, <2>1, <2>2, PopStep
    <2>4. pending'[a] = Tail(pending[a])
      BY <1>3, <2>1 DEF PopPending, AgentsAreSound, AgentTypes
    <2>5. OthersStay(a)
      BY <1>3, <2>1 DEF IInv, OthersStay, PopPending, AgentsAreSound, AgentTypes
    <2>6. CallIsSound(a)'
      <3>1. CASE pending'[a] = <<>>
        <4>1. call'[a] = Idle
          BY <2>1, <2>4, <3>1 DEF IInv
        <4>2. QED
          BY <4>1, IdleIsSound
      <3>2. CASE pending'[a] # <<>>
        <4>1. PICK x : x = Head(pending'[a])
          OBVIOUS
        <4>2. call'[a] = Sent(x)
          BY <2>1, <2>4, <3>2, <4>1 DEF IInv
        <4>3. HeadsMayBeSent'
          BY <2>3, HeadMayBeSent, PTL
        <4>4. MayBeSent(Head(pending[a]))' /\ x.agent = a /\ IsBatch(x)
          BY <3>2, <4>1, <4>3 DEF HeadsMayBeSent
        <4>5. MayBeSent(x)'
          BY <4>1, <4>4
        <4>6. x \in Message
          BY <4>5 DEF MayBeSent
        <4>7. MessageIsSound(a, x)'
          BY <3>2, <4>1, <4>4, <4>5 DEF MessageIsSound
        <4>8. QED
          BY <4>2, <4>6, <4>7, SentIsSound
      <3>3. QED
        BY <3>1, <3>2
    <2>7. IInv'
      BY <1>2, <1>4, <2>3, <2>5, <2>6, StepOfOne
    <2>8. QED
      BY <2>3, <2>7 DEF PipeStep, Pipe!Next
  <1>7. QED
    BY <1>5, <1>6

(* The steps after which an agent waits no longer. *)
LEMMA IdleStep ==
  ASSUME IInv, NEW a \in Agents, call' = [call EXCEPT ![a] = Idle],
         UNCHANGED <<serviceVars, agentVars, received>>,
         \A m \in orphans' : m \in orphans \/ MayBeSent(m)
  PROVE  IInv' /\ PipeStep
  <1>1. call'[a] = Idle /\ OthersStay(a)
    BY DEF IInv, OthersStay, agentVars
  <1>2. CallIsSound(a)'
    BY <1>1, IdleIsSound
  <1>3. QED
    BY <1>1, <1>2, CallStep

LEMMA AbandonOrphans ==
  ASSUME IInv, NEW a \in Agents, Abandon(a)
  PROVE  \A m \in orphans' : m \in orphans \/ MayBeSent(m)
  <1>1. call[a].stage = "sent" => MayBeSent(call[a].message)
    BY DEF IInv, CallIsSound, MessageIsSound
  <1>2. QED
    BY <1>1 DEF Abandon

LEMMA AgentRestartStep ==
  ASSUME IInv, NEW a \in Agents, AgentRestart(a)
  PROVE  IInv' /\ PipeStep
  <1>1. StartAgain(a) /\ Abandon(a) /\ UNCHANGED <<serviceVars, received>>
    BY DEF AgentRestart
  <1>2. AgentsAreSound /\ ServiceIsSound /\ ListsOfOneObject
    BY DEF IInv
  <1>3. ServiceIsSound' /\ ListsOfOneObject' /\ UNCHANGED accepted_samples_by_agent
    BY <1>1, <1>2, ServiceStays
  <1>4. AgentsAreSound' /\ Pipe!Restart(a) /\ \A m : MayBeSent(m) => MayBeSent(m)'
    BY <1>1, <1>2, <1>3, StartStep
  <1>5. call'[a] = Idle /\ OthersStay(a)
    BY <1>1, <1>2 DEF IInv, OthersStay, Abandon, StartAgain, AgentsAreSound, AgentTypes
  <1>6. CallIsSound(a)'
    BY <1>5, IdleIsSound
  <1>7. \A m \in orphans' : m \in orphans \/ MayBeSent(m)
    BY <1>1, AbandonOrphans
  <1>8. IInv'
    BY <1>1, <1>3, <1>4, <1>5, <1>6, <1>7, StepOfOne
  <1>9. QED
    BY <1>4, <1>8 DEF PipeStep, Pipe!Next

(* The steps of no agent: all calls are as they were. *)
LEMMA StepOfNone ==
  ASSUME IInv, UNCHANGED <<agentVars, call>>, ServiceIsSound', ListsOfOneObject',
         received \subseteq received', orphans' \subseteq orphans
  PROVE  IInv'
  <1>1. AgentsAreSound' /\ \A m : MayBeSent(m) => MayBeSent(m)'
    BY AgentsStay DEF IInv
  <1>2. \A c \in Agents : CallIsSound(c)'
    BY <1>1, CallStays DEF IInv, agentVars
  <1>3. OrphansMayBeSent'
    BY <1>1 DEF IInv, OrphansMayBeSent
  <1>4. QED
    BY <1>1, <1>2, <1>3 DEF IInv

LEMMA ServeOrphanStep ==
  ASSUME IInv, NEW m \in orphans, ServeOrphan(m)
  PROVE  IInv' /\ PipeStep
  <1>1. MayBeSent(m) /\ AgentsAreSound /\ ServiceIsSound /\ ListsOfOneObject
    BY DEF IInv, OrphansMayBeSent
  <1>2. Receive(m) /\ orphans' \subseteq orphans /\ UNCHANGED <<agentVars, call>>
    BY DEF ServeOrphan
  <1>3. /\ ServiceIsSound' /\ ListsOfOneObject'
        /\ Pipe!Store(m.agent) \/ UNCHANGED Pipe!pipeVars
        /\ received \subseteq received'
    BY <1>1, <1>2, ReceiveStep
  <1>4. IInv'
    BY <1>2, <1>3, StepOfNone
  <1>5. m.agent \in Agents
    BY <1>1 DEF MayBeSent, Message
  <1>6. QED
    BY <1>3, <1>4, <1>5 DEF PipeStep, Pipe!Next

LEMMA LoseOrphanStep ==
  ASSUME IInv, NEW m \in orphans, LoseOrphan(m)
  PROVE  IInv' /\ PipeStep
  <1>1. /\ orphans' \subseteq orphans /\ UNCHANGED <<agentVars, call>>
        /\ UNCHANGED <<serviceVars, received>>
    BY DEF LoseOrphan
  <1>2. ServiceIsSound' /\ ListsOfOneObject' /\ UNCHANGED accepted_samples_by_agent
    BY <1>1, ServiceStays DEF IInv
  <1>3. IInv'
    BY <1>1, <1>2, StepOfNone
  <1>4. UNCHANGED Pipe!pipeVars
    BY <1>1, <1>2, PipeStays DEF IInv
  <1>5. QED
    BY <1>3, <1>4 DEF PipeStep

LEMMA ServiceStepStep ==
  ASSUME IInv, ServiceStep
  PROVE  IInv' /\ PipeStep
  <1>1. UNCHANGED <<agentVars, call, orphans, received>>
    BY DEF ServiceStep
  <1>2. AgentsAreSound /\ ServiceIsSound /\ ListsOfOneObject
    BY DEF IInv
  <1>3. /\ ServiceIsSound' /\ ListsOfOneObject'
        /\ Pipe!Forget \/ UNCHANGED Pipe!pipeVars
    <2>1. CASE Tick
      BY <1>1, <1>2, <2>1, TickStep
    <2>2. CASE ServiceRestart
      BY <1>1, <1>2, <2>2, RestartServiceStep
    <2>3. QED
      BY <2>1, <2>2 DEF ServiceStep
  <1>4. IInv'
    BY <1>1, <1>3, StepOfNone
  <1>5. QED
    BY <1>3, <1>4 DEF PipeStep, Pipe!Next

LEMMA StutterStep ==
  ASSUME IInv, UNCHANGED vars
  PROVE  IInv' /\ PipeStep
  <1>1. UNCHANGED <<agentVars, call, orphans, received, serviceVars>>
    BY DEF vars
  <1>2. ServiceIsSound' /\ ListsOfOneObject' /\ UNCHANGED accepted_samples_by_agent
    BY <1>1, ServiceStays DEF IInv
  <1>3. IInv'
    BY <1>1, <1>2, StepOfNone
  <1>4. UNCHANGED Pipe!pipeVars
    BY <1>1, <1>2, PipeStays DEF IInv
  <1>5. QED
    BY <1>3, <1>4 DEF PipeStep

(* Every step keeps the invariant and is a step of the pipe. *)
LEMMA EveryStep == IInv /\ [Next]_vars => IInv' /\ [Pipe!Next]_(Pipe!pipeVars)
  <1>1. SUFFICES ASSUME IInv, [Next]_vars PROVE IInv' /\ PipeStep
    BY DEF PipeStep
  <1>2. CASE UNCHANGED vars
    BY <1>1, <1>2, StutterStep
  <1>3. ASSUME NEW a \in Agents,
               \/ CollectOnce(a) \/ Flush(a) \/ SendHeartbeat(a)
               \/ Serve(a) \/ ServeTooLong(a) \/ FlushReturns(a) \/ HeartbeatReturns(a)
               \/ Timeout(a) \/ AgentRestart(a)
        PROVE  IInv' /\ PipeStep
    <2>1. CASE CollectOnce(a)
      BY <1>1, <2>1, CollectOnceStep
    <2>2. CASE Flush(a)
      BY <1>1, <2>2, FlushStep
    <2>3. CASE SendHeartbeat(a)
      BY <1>1, <2>3, SendHeartbeatStep
    <2>4. CASE Serve(a)
      BY <1>1, <2>4, ServeStep
    <2>5. CASE ServeTooLong(a)
      BY <1>1, <2>5, IdleStep DEF ServeTooLong
    <2>6. CASE FlushReturns(a)
      BY <1>1, <2>6, FlushReturnsStep
    <2>7. CASE HeartbeatReturns(a)
      BY <1>1, <2>7, IdleStep DEF HeartbeatReturns
    <2>8. CASE Timeout(a)
      <3>1. \A m \in orphans' : m \in orphans \/ MayBeSent(m)
        BY <1>1, <2>8, AbandonOrphans DEF Timeout
      <3>2. QED
        BY <1>1, <2>8, <3>1, IdleStep DEF Timeout, Abandon
    <2>9. CASE AgentRestart(a)
      BY <1>1, <2>9, AgentRestartStep
    <2>10. QED
      BY <1>3, <2>1, <2>2, <2>3, <2>4, <2>5, <2>6, <2>7, <2>8, <2>9
  <1>4. ASSUME NEW m \in orphans, ServeOrphan(m) \/ LoseOrphan(m)
        PROVE  IInv' /\ PipeStep
    BY <1>1, <1>4, ServeOrphanStep, LoseOrphanStep
  <1>5. CASE ServiceStep
    BY <1>1, <1>5, ServiceStepStep
  <1>6. QED
    BY <1>1, <1>2, <1>3, <1>4, <1>5 DEF Next

LEMMA Begins == Init => IInv /\ Pipe!Init
  <1>1. SUFFICES ASSUME Init PROVE IInv /\ Pipe!Init
    OBVIOUS
  <1>2. AgentsAreSound /\ ServiceIsSound /\ ListsOfOneObject /\ Pipe!Init
    BY <1>1, SoundInit DEF Init
  <1>3. \A a \in Agents : CallIsSound(a)
    BY <1>1 DEF Init, CallIsSound, Idle, Calls
  <1>4. QED
    BY <1>1, <1>2, <1>3 DEF Init, IInv, OrphansMayBeSent

(* The reachable states satisfy the invariant. *)
THEOREM Invariance == Spec => []IInv
  <1>1. Init => IInv
    BY Begins
  <1>2. IInv /\ [Next]_vars => IInv'
    BY EveryStep
  <1>3. QED
    BY <1>1, <1>2, PTL DEF Spec

(* Whatever reaches the service is a message. *)
LEMMA ServiceTypesStep ==
  ASSUME IInv, ServiceTypeOK, [Next]_vars
  PROVE  ServiceTypeOK'
  <1>1. CASE UNCHANGED serviceVars
    BY <1>1, ServiceTypesStay
  <1>2. CASE Tick
    BY <1>2, ServiceTypesTick
  <1>3. CASE ServiceRestart
    BY <1>3, ServiceTypesRestart
  <1>4. ASSUME NEW a \in Agents, Serve(a) PROVE ServiceTypeOK'
    <2>1. PICK m : m = call[a].message
      OBVIOUS
    <2>2. Receive(m) /\ call[a].stage = "sent"
      BY <1>4, <2>1 DEF Serve
    <2>3. m \in Message
      BY <2>1, <2>2 DEF IInv, CallIsSound, Calls, Idle
    <2>4. QED
      BY <2>2, <2>3, ServiceTypesReceive
  <1>5. ASSUME NEW m \in orphans, ServeOrphan(m) PROVE ServiceTypeOK'
    <2>1. m \in Message
      BY <1>5 DEF IInv, OrphansMayBeSent, MayBeSent
    <2>2. Receive(m)
      BY <1>5 DEF ServeOrphan
    <2>3. QED
      BY <2>1, <2>2, ServiceTypesReceive
  <1>6. \/ UNCHANGED serviceVars \/ Tick \/ ServiceRestart
        \/ \E a \in Agents : Serve(a)
        \/ \E m \in orphans : ServeOrphan(m)
    <2>1. CASE UNCHANGED vars
      BY <2>1 DEF vars
    <2>2. ASSUME NEW a \in Agents,
                 \/ CollectOnce(a) \/ Flush(a) \/ SendHeartbeat(a)
                 \/ Serve(a) \/ ServeTooLong(a) \/ FlushReturns(a) \/ HeartbeatReturns(a)
                 \/ Timeout(a) \/ AgentRestart(a)
          PROVE  UNCHANGED serviceVars \/ Serve(a)
      BY <2>2 DEF CollectOnce, Flush, SendHeartbeat, ServeTooLong, FlushReturns,
                  HeartbeatReturns, Timeout, AgentRestart
    <2>3. ASSUME NEW m \in orphans, LoseOrphan(m)
          PROVE  UNCHANGED serviceVars
      BY <2>3 DEF LoseOrphan
    <2>4. CASE ServiceStep
      BY <2>4 DEF ServiceStep
    <2>5. QED
      BY <2>1, <2>2, <2>3, <2>4 DEF Next
  <1>7. QED
    BY <1>1, <1>2, <1>3, <1>4, <1>5, <1>6

(* HttpTransport and ingest: the types of what the agents, the network and *)
(* the service keep.                                                       *)
THEOREM TypeCorrect == Spec => []TypeOK
  <1>1. IInv /\ ServiceTypeOK => TypeOK
    <2>1. SUFFICES ASSUME IInv, ServiceTypeOK PROVE TypeOK
      OBVIOUS
    <2>2. AgentTypeOK
      BY <2>1, SoundTypes DEF IInv
    <2>3. \A a \in Agents : call[a] \in Calls
      BY <2>1 DEF IInv, CallIsSound
    <2>4. orphans \subseteq Message
      BY <2>1 DEF IInv, OrphansMayBeSent, MayBeSent
    <2>5. QED
      BY <2>1, <2>2, <2>3, <2>4 DEF TypeOK
  <1>2. Init => ServiceTypeOK
    BY ServiceTypesInit DEF Init
  <1>3. IInv /\ ServiceTypeOK /\ [Next]_vars => ServiceTypeOK'
    BY ServiceTypesStep
  <1>4. QED
    BY <1>1, <1>2, <1>3, Invariance, PTL DEF Spec

(* The service never mixes the batches of two objects of an agent, however *)
(* late the requests of the first arrive.                                  *)
THEOREM OneIncarnation == Spec => []OneIncarnationPerChain
  <1>1. IInv => OneIncarnationPerChain
    BY DEF IInv, ListsOfOneObject, OneIncarnationPerChain
  <1>2. QED
    BY <1>1, Invariance, PTL

(* HTTP delivery implements the pipe: in order, once, without a hole, and  *)
(* nothing leaves a queue before the service has it.                       *)
THEOREM DeliveryIsPipe == Spec => ImplementsPipe
  <1>1. Init => Pipe!Init
    BY Begins
  <1>2. IInv /\ [Next]_vars => [Pipe!Next]_(Pipe!pipeVars)
    BY EveryStep
  <1>3. QED
    BY <1>1, <1>2, Invariance, PTL DEF Spec, ImplementsPipe, Pipe!Spec

-----------------------------------------------------------------------------
(* Only the clock refuses.                                                 *)
(*                                                                         *)
(* Without heartbeats and restarts a batch's sequence is its place, there  *)
(* is one message for each place, and what the service accepted of an      *)
(* agent is what the agent made first, at least to the head of its queue.  *)
(* What arrives is then the next batch or one that was accepted.           *)

Undisturbed ==
  /\ ~HeartbeatsUsed /\ ~ServiceRestarts /\ MaxStarts = 0
  /\ CollectedEnvelopes \subseteq {"ok", "payload_too_large"}

Queued(m) == \E a \in Agents : \E j \in 1 .. Len(pending[a]) : m = pending[a][j]

Around(m) == m \in accepted_message_digests \/ m \in orphans \/ Queued(m)

NumbersArePlaces == \A a \in Agents : starts[a] = 0 /\ next_sequence[a] = Len(made[a])

IsNumbered(m) ==
  /\ m.envelope \in {"ok", "payload_too_large"}
  /\ IsBatchAt(m.agent, m, m.sequence + 1)

AllAreNumbered == \A m : Around(m) => IsNumbered(m)

OneOfEach == \A m, n : Around(m) /\ Around(n) /\ m.id = n.id => m = n

(* How many batches of an agent the service accepted. *)
Upto(a) == last_sequence_by_agent[a] + 1

IsAbreast(a) ==
  /\ Upto(a) \in Base(a) .. Len(made[a])
  /\ last_batch_by_agent[a] = IF Upto(a) = 0 THEN NoBatch ELSE made[a][Upto(a)]
  /\ \A k \in 0 .. Upto(a) - 1 :
       \E m \in accepted_message_digests : m.agent = a /\ m.sequence = k
  /\ \A m \in accepted_message_digests : m.agent = a => m.sequence < Upto(a)

ServiceIsAbreast ==
  /\ last_sequence_by_agent \in [Agents -> Int]
  /\ \A a \in Agents : IsAbreast(a)

AnswerIsKind(a) ==
  call[a].stage = "answered" =>
    /\ call[a].reason \in {"accepted", "already_accepted", "clock_skew", "sample_clock_skew"}
    /\ Positive(call[a].reason) => call[a].message.sequence < Upto(a)

CInv ==
  /\ NumbersArePlaces
  /\ AllAreNumbered
  /\ OneOfEach
  /\ ServiceIsAbreast
  /\ \A a \in Agents : AnswerIsKind(a)
  /\ \A a \in Agents : call[a].stage # "idle" => IsBatch(call[a].message)

LEMMA PlaceIsOne ==
  ASSUME AgentsAreSound, NEW a \in Agents, NEW m, NEW i, NEW j,
         IsBatchAt(a, m, i), IsBatchAt(a, m, j)
  PROVE  i = j
  BY DEF IsBatchAt, AgentsAreSound, AgentIsSound, BatchesAreFresh

LEMMA ObjectsAreFirst ==
  ASSUME AgentsAreSound, NumbersArePlaces, NEW a \in Agents, NEW i \in 1 .. Len(made[a])
  PROVE  made[a][i][2] = 0
  <1>1. starts[a] = 0 /\ made[a] \in Seq(MessageIds)
    BY DEF NumbersArePlaces, AgentsAreSound, AgentTypes
  <1>2. made[a][i] \in MessageIds
    BY <1>1
  <1>3. made[a][i][2] \in Nat
    BY <1>2, IdParts
  <1>4. made[a][i][2] <= starts[a]
    BY DEF AgentsAreSound, AgentIsSound, BatchesAreFresh
  <1>5. QED
    BY <1>1, <1>3, <1>4

LEMMA NumberedParts ==
  ASSUME AgentsAreSound, NEW m, IsNumbered(m)
  PROVE  /\ m \in Message /\ m.agent \in Agents /\ m.sequence \in Nat /\ IsBatch(m)
         /\ m.sequence + 1 \in 1 .. Len(made[m.agent])
         /\ m.id = made[m.agent][m.sequence + 1]
         /\ m.sequence < Len(made[m.agent])
  <1>1. m \in Message
    BY DEF IsNumbered, IsBatchAt
  <1>2. m.agent \in Agents /\ m.sequence \in Nat
    BY <1>1 DEF Message
  <1>3. Len(made[m.agent]) \in Nat
    BY <1>2, QueueOfMade
  <1>4. QED
    BY <1>1, <1>2, <1>3 DEF IsNumbered, IsBatchAt

(* Nothing new is made: what is around stays numbered. *)
LEMMA NothingNew ==
  ASSUME AgentsAreSound, AllAreNumbered, OneOfEach,
         \A c \in Agents : Grows(c), \A m : Around(m)' => Around(m)
  PROVE  AllAreNumbered' /\ OneOfEach'
  <1>1. ASSUME NEW m, Around(m)
        PROVE  IsNumbered(m)'
    <2>1. IsNumbered(m) /\ m.agent \in Agents
      BY <1>1, NumberedParts DEF AllAreNumbered
    <2>2. IsBatchAt(m.agent, m, m.sequence + 1)'
      BY <2>1, BatchStays DEF IsNumbered
    <2>3. QED
      BY <2>1, <2>2 DEF IsNumbered
  <1>2. QED
    BY <1>1 DEF AllAreNumbered, OneOfEach

(* The service does nothing, and no queue gets ahead of it. *)
LEMMA AbreastStays ==
  ASSUME AgentsAreSound, ServiceIsAbreast, UNCHANGED memory,
         \A c \in Agents : Grows(c) /\ Base(c)' <= Upto(c)
  PROVE  ServiceIsAbreast' /\ \A c \in Agents : Upto(c)' = Upto(c)
  <1>1. /\ last_sequence_by_agent' = last_sequence_by_agent
        /\ last_batch_by_agent' = last_batch_by_agent
        /\ accepted_message_digests' = accepted_message_digests
    BY DEF memory
  <1>2. \A c \in Agents : Upto(c)' = Upto(c)
    BY <1>1 DEF Upto
  <1>3. ASSUME NEW c \in Agents
        PROVE  IsAbreast(c)'
    <2>1. PICK u : u = Upto(c)
      OBVIOUS
    <2>2. IsAbreast(c) /\ Grows(c) /\ Base(c)' <= u /\ u \in Int
      BY <2>1 DEF ServiceIsAbreast, Upto
    <2>3. Base(c) \in 0 .. Len(made[c])
      BY QueueOfMade
    <2>4. u \in Nat /\ u <= Len(made[c]) /\ u \in Base(c)' .. Len(made'[c])
      BY <2>1, <2>2, <2>3 DEF IsAbreast, Grows
    <2>5. u # 0 => made'[c][u] = made[c][u]
      BY <2>2, <2>4 DEF Grows
    <2>6. last_batch_by_agent[c] = IF u = 0 THEN NoBatch ELSE made'[c][u]
      BY <2>1, <2>2, <2>5 DEF IsAbreast
    <2>7. /\ \A k \in 0 .. u - 1 :
               \E m \in accepted_message_digests : m.agent = c /\ m.sequence = k
          /\ \A m \in accepted_message_digests : m.agent = c => m.sequence < u
      BY <2>1, <2>2 DEF IsAbreast
    <2>8. Upto(c)' = u
      BY <1>2, <2>1
    <2>9. QED
      BY <1>1, <2>4, <2>6, <2>7, <2>8 DEF IsAbreast
  <1>4. QED
    BY <1>1, <1>2, <1>3 DEF ServiceIsAbreast

(* An answer stays kind while the service remembers what it knew. *)
LEMMA AnswerStays ==
  ASSUME ServiceIsAbreast, NEW c \in Agents, AnswerIsKind(c), call'[c] = call[c],
         NEW u \in Int, u = Upto(c)', Upto(c) <= u,
         call[c].stage = "answered" => call[c].message.sequence \in Int
  PROVE  AnswerIsKind(c)'
  <1>1. Upto(c) \in Int
    BY DEF ServiceIsAbreast, Upto
  <1>2. \A x \in Int : x < Upto(c) => x < u
    BY <1>1
  <1>3. call[c].stage = "answered" /\ Positive(call[c].reason) => call[c].message.sequence < u
    BY <1>2 DEF AnswerIsKind
  <1>4. QED
    BY <1>3 DEF AnswerIsKind

LEMMA AnswersAreTyped ==
  ASSUME IInv, NEW c \in Agents, call[c].stage = "answered"
  PROVE  call[c].message.sequence \in Int
  <1>1. call[c].message \in Message
    BY StageParts DEF IInv, CallIsSound
  <1>2. QED
    BY <1>1 DEF Message

LEMMA SameGrows ==
  ASSUME AgentsAreSound, UNCHANGED agentVars
  PROVE  \A c \in Agents : Grows(c) /\ Base(c)' = Base(c)
  <1>1. ASSUME NEW c \in Agents
        PROVE  Grows(c) /\ Base(c)' = Base(c)
    <2>1. SameQueue(c) /\ next_sequence'[c] \in Nat /\ next_sequence[c] <= next_sequence'[c]
      BY DEF AgentsAreSound, AgentTypes, SameQueue, agentVars
    <2>2. Base(c)' = Base(c)
      BY DEF agentVars, Base
    <2>3. QED
      BY <2>1, <2>2, SameQueueKeeps
  <1>2. QED
    BY <1>1

(* What an agent waits for and what is late is around. *)
LEMMA CallIsAround ==
  ASSUME IInv, CInv, NEW a \in Agents, call[a].stage # "idle"
  PROVE  Around(call[a].message)
  <1>1. PICK m : m = call[a].message
    OBVIOUS
  <1>2. pending[a] # <<>> /\ m = Head(pending[a]) /\ pending[a] \in Seq(Message)
    BY <1>1 DEF CInv, IInv, CallIsSound, MessageIsSound, AgentsAreSound, AgentTypes
  <1>3. m = pending[a][1] /\ 1 \in 1 .. Len(pending[a])
    BY <1>2, TailSeq
  <1>4. QED
    BY <1>1, <1>3 DEF Around, Queued

(* A message that arrives is the next one or was accepted. *)
LEMMA ArrivesInOrder ==
  ASSUME AgentsAreSound, CInv, NEW m, MayBeSent(m), Around(m), m.envelope = "ok"
  PROVE  /\ ReasonCode(m) \in {"accepted", "already_accepted", "clock_skew", "sample_clock_skew"}
         /\ ReasonCode(m) = "accepted" => m.sequence = Upto(m.agent)
         /\ m \in accepted_message_digests => m.sequence < Upto(m.agent)
  <1>1. PICK a, n, u : a = m.agent /\ n = m.sequence /\ u = Upto(a)
    OBVIOUS
  <1>2. IsNumbered(m)
    BY DEF CInv, AllAreNumbered
  <1>3. /\ a \in Agents /\ n \in Nat /\ IsBatch(m) /\ n + 1 \in 1 .. Len(made[a])
        /\ m.id = made[a][n + 1]
    BY <1>1, <1>2, NumberedParts
  <1>4. n <= Base(a) /\ Base(a) \in 0 .. Len(made[a]) /\ Len(made[a]) \in Nat
    <2>1. PICK i \in 1 .. Base(a) + 1 : IsBatchAt(a, m, i)
      BY <1>1, <1>3 DEF MayBeSent
    <2>2. i = n + 1
      BY <1>1, <1>2, <1>3, <2>1, PlaceIsOne DEF IsNumbered
    <2>3. Base(a) \in 0 .. Len(made[a]) /\ Len(made[a]) \in Nat
      BY <1>3, QueueOfMade
    <2>4. QED
      BY <1>3, <2>1, <2>2, <2>3
  <1>5. /\ IsAbreast(a) /\ u \in Base(a) .. Len(made[a]) /\ last_sequence_by_agent[a] \in Int
        /\ u = last_sequence_by_agent[a] + 1
    BY <1>1, <1>3 DEF CInv, ServiceIsAbreast, IsAbreast, Upto
  <1>6. CASE m \in accepted_message_digests
    <2>1. ReasonCode(m) = "already_accepted"
      BY <1>6 DEF ReasonCode
    <2>2. n < u
      BY <1>1, <1>5, <1>6 DEF IsAbreast
    <2>3. QED
      BY <1>1, <2>1, <2>2
  <1>7. CASE m \notin accepted_message_digests
    <2>1. m.id \notin seen_message_ids
      BY <1>7 DEF CInv, OneOfEach, Around, seen_message_ids
    <2>2. ~(n < u)
      <3>1. SUFFICES ASSUME n < u PROVE FALSE
        OBVIOUS
      <3>2. n \in 0 .. u - 1
        BY <1>3, <1>5, <3>1
      <3>3. PICK x \in accepted_message_digests : x.agent = a /\ x.sequence = n
        BY <1>1, <1>5, <3>2 DEF IsAbreast
      <3>4. IsNumbered(x)
        BY <3>3 DEF CInv, AllAreNumbered, Around
      <3>5. x.id = m.id
        BY <1>3, <3>3, <3>4, NumberedParts
      <3>6. QED
        BY <2>1, <3>3, <3>5 DEF seen_message_ids
    <2>3. n = u
      BY <1>3, <1>4, <1>5, <2>2
    <2>4. ~StaleSequence(m) /\ ~SequenceGap(m)
      BY <1>1, <1>3, <1>5, <2>3 DEF StaleSequence, SequenceGap
    <2>5. ~ChainMismatch(m)
      <3>1. CASE n = 0
        BY <1>1, <1>5, <2>3, <3>1 DEF IsAbreast, ChainMismatch
      <3>2. CASE n # 0
        <4>1. last_batch_by_agent[a] = made[a][n]
          BY <1>1, <1>5, <2>3, <3>2 DEF IsAbreast
        <4>2. (n + 1) - 1 = n /\ n + 1 # 1 /\ n \in 1 .. Len(made[a]) /\ n + 1 \in 1 .. Len(made[a])
          BY <1>3, <1>4, <3>2
        <4>3. ~FirstAt(a, n + 1)
          <5>1. made[a][n][2] = 0 /\ made[a][n + 1][2] = 0
            BY <1>3, <4>2, ObjectsAreFirst DEF CInv
          <5>2. QED
            BY <4>2, <5>1 DEF FirstAt
        <4>4. m.previous = made[a][(n + 1) - 1]
          BY <1>1, <1>2, <4>3 DEF IsNumbered, IsBatchAt
        <4>5. QED
          BY <1>1, <4>1, <4>2, <4>4 DEF ChainMismatch
      <3>3. QED
        BY <3>1, <3>2
    <2>6. ReasonCode(m) \in {"accepted", "clock_skew", "sample_clock_skew"}
      BY <1>7, <2>1, <2>4, <2>5 DEF ReasonCode
    <2>7. QED
      BY <1>1, <1>7, <2>3, <2>6
  <1>8. QED
    BY <1>6, <1>7

(* What the service does with it keeps the service abreast. *)
LEMMA ReceiveKeeps ==
  ASSUME AgentsAreSound, ServiceIsSound, CInv, NEW m, MayBeSent(m), Around(m), m.envelope = "ok",
         Receive(m), UNCHANGED agentVars
  PROVE  /\ ServiceIsAbreast'
         /\ \A x \in accepted_message_digests' : Around(x)
         /\ Positive(ReasonCode(m)) => m.sequence < Upto(m.agent)'
         /\ \A c \in Agents : Upto(c)' \in Int /\ Upto(c) <= Upto(c)'
  <1>1. \A c \in Agents : Grows(c) /\ Base(c)' = Base(c) /\ made'[c] = made[c]
    BY SameGrows DEF agentVars
  <1>2. \A c \in Agents : IsAbreast(c) /\ Upto(c) \in Int /\ Base(c) \in Int /\ Base(c) <= Upto(c)
    <2>1. \A c \in Agents : IsAbreast(c) /\ Upto(c) \in Int
      BY DEF CInv, ServiceIsAbreast, Upto
    <2>2. \A c \in Agents : Base(c) \in 0 .. Len(made[c])
      BY QueueOfMade
    <2>3. QED
      BY <2>1, <2>2 DEF IsAbreast
  <1>3. CASE ReasonCode(m) # "accepted"
    <2>1. UNCHANGED memory
      BY <1>3 DEF Receive, Ingest
    <2>2. ServiceIsAbreast' /\ \A c \in Agents : Upto(c)' = Upto(c)
      BY <1>1, <1>2, <2>1, AbreastStays DEF CInv
    <2>3. Positive(ReasonCode(m)) => m \in accepted_message_digests /\ m.agent \in Agents
      BY <1>3, AcceptedMeans DEF Positive, MayBeSent, Message
    <2>4. QED
      BY <1>2, <2>1, <2>2, <2>3, ArrivesInOrder DEF memory, Around
  <1>4. CASE ReasonCode(m) = "accepted"
    <2>1. PICK a, n : a = m.agent /\ n = m.sequence
      OBVIOUS
    <2>2. IsNumbered(m)
      BY DEF CInv, AllAreNumbered
    <2>3. /\ a \in Agents /\ n \in Nat /\ IsBatch(m) /\ n + 1 \in 1 .. Len(made[a])
          /\ m.id = made[a][n + 1]
      BY <2>1, <2>2, NumberedParts
    <2>4. n = Upto(a)
      BY <1>4, <2>1, ArrivesInOrder
    <2>5. /\ last_sequence_by_agent' = [last_sequence_by_agent EXCEPT ![a] = n]
          /\ accepted_message_digests' = accepted_message_digests \cup {m}
          /\ last_batch_by_agent' = [last_batch_by_agent EXCEPT ![a] = m.id]
      BY <1>4, <2>1, <2>3 DEF Receive, Ingest, Accept, StoreBatch, RecordMessage
    <2>6. last_sequence_by_agent \in [Agents -> Int]
      BY DEF CInv, ServiceIsAbreast
    <2>7. last_sequence_by_agent' \in [Agents -> Int]
      BY <2>3, <2>5, <2>6
    <2>8. Upto(a)' = n + 1 /\ \A c \in Agents \ {a} : Upto(c)' = Upto(c)
      BY <2>3, <2>5, <2>6 DEF Upto
    <2>9. IsAbreast(a)'
      <3>1. IsAbreast(a) /\ Base(a) <= n /\ Base(a) \in 0 .. Len(made[a]) /\ Len(made[a]) \in Nat
        BY <1>2, <2>3, <2>4, QueueOfMade
      <3>2. n + 1 \in Base(a) .. Len(made[a]) /\ n + 1 # 0
        BY <2>3, <3>1
      <3>3. last_batch_by_agent'[a] = made[a][n + 1]
        BY <2>3, <2>5 DEF ServiceIsSound, ServiceTypes
      <3>4. \A k \in 0 .. (n + 1) - 1 :
              \E x \in accepted_message_digests' : x.agent = a /\ x.sequence = k
        <4>1. \A k \in 0 .. (n + 1) - 1 : k \in 0 .. n - 1 \/ k = n
          BY <2>3
        <4>2. \A k \in 0 .. n - 1 :
                \E x \in accepted_message_digests : x.agent = a /\ x.sequence = k
          BY <2>4, <3>1 DEF IsAbreast
        <4>3. QED
          BY <2>1, <2>5, <4>1, <4>2
      <3>5. \A x \in accepted_message_digests' : x.agent = a => x.sequence < n + 1
        <4>1. \A x \in accepted_message_digests : x.agent = a => x.sequence < n
          BY <2>4, <3>1 DEF IsAbreast
        <4>2. ASSUME NEW x \in accepted_message_digests, x.agent = a
              PROVE  x.sequence < n + 1
          <5>1. IsNumbered(x)
            BY DEF CInv, AllAreNumbered, Around
          <5>2. x.sequence \in Nat
            BY <5>1, NumberedParts
          <5>3. QED
            BY <2>3, <4>1, <4>2, <5>2
        <4>3. QED
          BY <2>1, <2>3, <2>5, <4>2
      <3>6. QED
        BY <1>1, <2>3, <2>8, <3>2, <3>3, <3>4, <3>5 DEF IsAbreast
    <2>10. ASSUME NEW c \in Agents \ {a}
           PROVE  IsAbreast(c)'
      <3>1. PICK u : u = Upto(c)
        OBVIOUS
      <3>2. last_batch_by_agent'[c] = last_batch_by_agent[c]
        BY <2>5
      <3>3. \A x \in accepted_message_digests' : x.agent = c => x \in accepted_message_digests
        BY <2>1, <2>5
      <3>4. IsAbreast(c) /\ Upto(c)' = u /\ Base(c)' = Base(c) /\ made'[c] = made[c]
        BY <1>1, <1>2, <2>8, <3>1
      <3>5. /\ u \in Base(c) .. Len(made[c])
            /\ last_batch_by_agent'[c] = IF u = 0 THEN NoBatch ELSE made[c][u]
            /\ \A k \in 0 .. u - 1 :
                 \E x \in accepted_message_digests' : x.agent = c /\ x.sequence = k
            /\ \A x \in accepted_message_digests' : x.agent = c => x.sequence < u
        BY <2>5, <3>1, <3>2, <3>3, <3>4 DEF IsAbreast
      <3>6. QED
        BY <3>4, <3>5 DEF IsAbreast
    <2>11. ServiceIsAbreast'
      BY <2>7, <2>9, <2>10 DEF ServiceIsAbreast
    <2>12. \A x \in accepted_message_digests' : Around(x)
      BY <2>5 DEF Around
    <2>13. m.sequence < Upto(m.agent)'
      BY <2>1, <2>3, <2>8
    <2>14. \A c \in Agents : Upto(c)' \in Int /\ Upto(c) <= Upto(c)'
      BY <1>2, <2>3, <2>4, <2>8
    <2>15. QED
      BY <2>11, <2>12, <2>13, <2>14
  <1>5. QED
    BY <1>3, <1>4

(* A step of a that leaves queues and service alone. *)
LEMMA CallKeeps ==
  ASSUME IInv, IInv', CInv, NEW a \in Agents, UNCHANGED <<memory, agentVars>>, OthersStay(a),
         \A m \in orphans' : Around(m),
         call'[a].stage # "answered" /\ (call'[a].stage # "idle" => IsBatch(call'[a].message))
  PROVE  CInv'
  <1>1. AgentsAreSound /\ UNCHANGED <<accepted_message_digests, pending>>
    BY DEF IInv, memory, agentVars
  <1>2. \A c \in Agents : Grows(c) /\ Base(c)' = Base(c)
    BY <1>1, SameGrows
  <1>3. \A m : Around(m)' => Around(m)
    BY <1>1 DEF Around, Queued
  <1>4. \A c \in Agents : Base(c) <= Upto(c) /\ Upto(c) \in Int
    <2>1. \A c \in Agents : Base(c) \in 0 .. Len(made[c]) /\ Upto(c) \in Base(c) .. Len(made[c])
      BY <1>1, QueueOfMade DEF CInv, ServiceIsAbreast, IsAbreast
    <2>2. QED
      BY <2>1
  <1>5. AllAreNumbered' /\ OneOfEach'
    BY <1>1, <1>2, <1>3, NothingNew DEF CInv
  <1>6. ServiceIsAbreast' /\ \A c \in Agents : Upto(c)' = Upto(c)
    BY <1>1, <1>2, <1>4, AbreastStays DEF CInv
  <1>7. NumbersArePlaces'
    BY DEF CInv, NumbersArePlaces, agentVars
  <1>8. \A c \in Agents \ {a} : AnswerIsKind(c)'
    BY <1>6 DEF CInv, AnswerIsKind, OthersStay
  <1>9. AnswerIsKind(a)'
    BY DEF AnswerIsKind
  <1>10. \A c \in Agents : call'[c].stage # "idle" => IsBatch(call'[c].message)
    BY DEF CInv, OthersStay
  <1>11. QED
    BY <1>5, <1>6, <1>7, <1>8, <1>9, <1>10 DEF CInv

LEMMA IdleKeeps ==
  ASSUME IInv, IInv', CInv, NEW a \in Agents, call' = [call EXCEPT ![a] = Idle],
         UNCHANGED <<memory, agentVars>>, \A m \in orphans' : Around(m)
  PROVE  CInv'
  <1>1. call'[a] = Idle /\ OthersStay(a)
    BY DEF IInv, OthersStay, agentVars
  <1>2. call'[a].stage = "idle"
    BY <1>1 DEF Idle
  <1>3. QED
    BY <1>1, <1>2, CallKeeps

LEMMA FlushKeeps ==
  ASSUME IInv, IInv', CInv, NEW a \in Agents, Flush(a)
  PROVE  CInv'
  <1>1. PICK m : m = Head(pending[a])
    OBVIOUS
  <1>2. /\ pending[a] # <<>> /\ call' = [call EXCEPT ![a] = Sent(m)]
        /\ UNCHANGED <<memory, agentVars>> /\ orphans' = orphans
    BY <1>1 DEF Flush, serviceVars
  <1>3. IsBatch(m)
    BY <1>1, <1>2, HeadMayBeSent DEF IInv, HeadsMayBeSent
  <1>4. call'[a] = Sent(m) /\ OthersStay(a)
    BY <1>2 DEF IInv, OthersStay, agentVars
  <1>5. call'[a].stage = "sent" /\ call'[a].message = m
    BY <1>4 DEF Sent
  <1>6. QED
    BY <1>2, <1>3, <1>4, <1>5, CallKeeps DEF Around

LEMMA AbandonedAreAround ==
  ASSUME IInv, CInv, NEW a \in Agents, Abandon(a)
  PROVE  \A m \in orphans' : Around(m)
  <1>1. call[a].stage = "sent" => Around(call[a].message)
    BY CallIsAround
  <1>2. QED
    BY <1>1 DEF Abandon, Around

LEMMA ServeKeeps ==
  ASSUME IInv, IInv', CInv, NEW a \in Agents, Serve(a)
  PROVE  CInv'
  <1>1. PICK m, reason : m = call[a].message /\ reason = ReasonCode(m)
    OBVIOUS
  <1>2. /\ call[a].stage = "sent" /\ Receive(m) /\ ~TooLong(m)
        /\ call' = [call EXCEPT ![a] = Answered(m, reason)]
        /\ UNCHANGED agentVars /\ orphans' = orphans
    BY <1>1 DEF Serve
  <1>3. AgentsAreSound /\ ServiceIsSound /\ MayBeSent(m) /\ m.agent = a
    BY <1>1, <1>2 DEF IInv, CallIsSound, MessageIsSound
  <1>4. Around(m) /\ IsBatch(m)
    BY <1>1, <1>2, CallIsAround DEF CInv
  <1>5. m.envelope = "ok"
    BY <1>2, <1>4 DEF CInv, AllAreNumbered, IsNumbered, TooLong
  <1>6. /\ ServiceIsAbreast'
        /\ \A x \in accepted_message_digests' : Around(x)
        /\ Positive(reason) => m.sequence < Upto(a)'
        /\ \A c \in Agents : Upto(c)' \in Int /\ Upto(c) <= Upto(c)'
    BY <1>1, <1>2, <1>3, <1>4, <1>5, ReceiveKeeps
  <1>7. reason \in {"accepted", "already_accepted", "clock_skew", "sample_clock_skew"}
    BY <1>1, <1>3, <1>4, <1>5, ArrivesInOrder
  <1>8. \A c \in Agents : Grows(c)
    BY <1>2, <1>3, SameGrows
  <1>9. \A x : Around(x)' => Around(x)
    BY <1>2, <1>6 DEF Around, Queued, agentVars
  <1>10. AllAreNumbered' /\ OneOfEach'
    BY <1>3, <1>8, <1>9, NothingNew DEF CInv
  <1>11. NumbersArePlaces'
    BY <1>2 DEF CInv, NumbersArePlaces, agentVars
  <1>12. call'[a] = Answered(m, reason) /\ \A c \in Agents \ {a} : call'[c] = call[c]
    BY <1>2 DEF IInv
  <1>13. call'[a].stage = "answered" /\ call'[a].message = m /\ call'[a].reason = reason
    BY <1>12 DEF Answered
  <1>14. AnswerIsKind(a)'
    <2>1. PICK u : u = Upto(a)'
      OBVIOUS
    <2>2. Positive(reason) => m.sequence < u
      BY <1>6, <2>1
    <2>3. QED
      BY <1>7, <1>13, <2>1, <2>2 DEF AnswerIsKind
  <1>15. \A c \in Agents \ {a} : AnswerIsKind(c)'
    BY <1>6, <1>12, AnswerStays, AnswersAreTyped DEF CInv
  <1>16. \A c \in Agents : call'[c].stage # "idle" => IsBatch(call'[c].message)
    BY <1>4, <1>12, <1>13 DEF CInv
  <1>17. QED
    BY <1>6, <1>10, <1>11, <1>14, <1>15, <1>16 DEF CInv

LEMMA ServeOrphanKeeps ==
  ASSUME IInv, IInv', CInv, NEW m \in orphans, ServeOrphan(m)
  PROVE  CInv'
  <1>1. UNCHANGED agentVars /\ call' = call /\ orphans' \subseteq orphans
    BY DEF ServeOrphan
  <1>2. AgentsAreSound /\ ServiceIsSound /\ MayBeSent(m) /\ Around(m)
    BY DEF IInv, OrphansMayBeSent, Around
  <1>3. \A c \in Agents : Grows(c) /\ Base(c)' = Base(c)
    BY <1>1, <1>2, SameGrows
  <1>4. /\ ServiceIsAbreast'
        /\ \A x \in accepted_message_digests' : Around(x)
        /\ \A c \in Agents : Upto(c)' \in Int /\ Upto(c) <= Upto(c)'
    <2>1. Receive(m) /\ ~TooLong(m)
      BY DEF ServeOrphan
    <2>2. m.envelope = "ok"
      BY <1>2, <2>1 DEF CInv, AllAreNumbered, IsNumbered, TooLong
    <2>3. QED
      BY <1>1, <1>2, <2>1, <2>2, ReceiveKeeps
  <1>5. \A x : Around(x)' => Around(x)
    BY <1>1, <1>4 DEF Around, Queued, agentVars
  <1>6. AllAreNumbered' /\ OneOfEach'
    BY <1>2, <1>3, <1>5, NothingNew DEF CInv
  <1>7. NumbersArePlaces'
    BY <1>1 DEF CInv, NumbersArePlaces, agentVars
  <1>8. \A c \in Agents : AnswerIsKind(c)'
    BY <1>1, <1>4, AnswerStays, AnswersAreTyped DEF CInv
  <1>9. QED
    BY <1>1, <1>4, <1>6, <1>7, <1>8 DEF CInv

(* The steps of no agent that leave the service's memory alone. *)
LEMMA RestKeeps ==
  ASSUME IInv, CInv, UNCHANGED <<memory, agentVars, call>>, orphans' \subseteq orphans
  PROVE  CInv'
  <1>1. AgentsAreSound /\ UNCHANGED <<accepted_message_digests, pending>>
    BY DEF IInv, memory, agentVars
  <1>2. \A c \in Agents : Grows(c) /\ Base(c)' = Base(c)
    BY <1>1, SameGrows
  <1>3. \A m : Around(m)' => Around(m)
    BY <1>1 DEF Around, Queued
  <1>4. \A c \in Agents : Base(c) <= Upto(c) /\ Upto(c) \in Int
    <2>1. \A c \in Agents : Base(c) \in 0 .. Len(made[c]) /\ Upto(c) \in Base(c) .. Len(made[c])
      BY <1>1, QueueOfMade DEF CInv, ServiceIsAbreast, IsAbreast
    <2>2. QED
      BY <2>1
  <1>5. AllAreNumbered' /\ OneOfEach'
    BY <1>1, <1>2, <1>3, NothingNew DEF CInv
  <1>6. ServiceIsAbreast' /\ \A c \in Agents : Upto(c)' = Upto(c)
    BY <1>1, <1>2, <1>4, AbreastStays DEF CInv
  <1>7. NumbersArePlaces'
    BY DEF CInv, NumbersArePlaces, agentVars
  <1>8. \A c \in Agents : AnswerIsKind(c)'
    BY <1>6 DEF CInv, AnswerIsKind
  <1>9. QED
    BY <1>5, <1>6, <1>7, <1>8 DEF CInv

LEMMA CollectKeeps ==
  ASSUME Undisturbed, IInv, IInv', CInv, NEW a \in Agents, CollectOnce(a)
  PROVE  CInv'
  <1>1. AgentsAreSound /\ AgentsAreSound' /\ clock \in Nat
    BY DEF IInv, ServiceIsSound, ServiceTypes
  <1>2. PICK envelope \in CollectedEnvelopes :
          /\ TakeSequence(a)
          /\ pending' = [pending EXCEPT ![a] = Append(@, NewBatch(a, envelope))]
          /\ made' = [made EXCEPT ![a] = Append(@, FreshId(a))]
          /\ UNCHANGED <<last_batch_id, starts, acknowledged>>
          /\ UNCHANGED <<memory, call, orphans>>
    BY DEF CollectOnce, QueueBatch, serviceVars
  <1>3. PICK b, n, p : b = NewBatch(a, envelope) /\ n = Len(made[a]) /\ p = Len(pending[a])
    OBVIOUS
  <1>4. /\ b.sequence = n /\ b.agent = a /\ b.id = FreshId(a)
        /\ b.envelope \in {"ok", "payload_too_large"}
    BY <1>2, <1>3 DEF NewBatch, CInv, NumbersArePlaces, Undisturbed
  <1>5. b \in Message /\ b.id \in MessageIds /\ b.id \notin {made[a][i] : i \in 1 .. n}
    BY <1>1, <1>2, <1>3, <1>4, NewBatchType DEF TakeSequence
  <1>6. made[a] \in Seq(MessageIds) /\ pending[a] \in Seq(Message)
    BY <1>1 DEF AgentsAreSound, AgentTypes
  <1>7. made'[a] = Append(made[a], b.id) /\ pending'[a] = Append(pending[a], b)
    BY <1>1, <1>2, <1>3, <1>4 DEF AgentsAreSound, AgentTypes
  <1>8. /\ n \in Nat /\ Len(made'[a]) = n + 1 /\ made'[a][n + 1] = b.id
        /\ \A i \in 1 .. n : made'[a][i] = made[a][i]
    BY <1>3, <1>5, <1>6, <1>7, AppendSeq
  <1>9. /\ p \in Nat /\ Len(pending'[a]) = p + 1 /\ pending'[a][p + 1] = b
        /\ \A j \in 1 .. p : pending'[a][j] = pending[a][j]
    BY <1>3, <1>5, <1>6, <1>7, AppendSeq
  <1>10. \A c \in Agents \ {a} :
           made'[c] = made[c] /\ pending'[c] = pending[c] /\ next_sequence'[c] = next_sequence[c]
    BY <1>1, <1>2 DEF AgentsAreSound, AgentTypes, TakeSequence
  <1>11. Base(a) = n - p /\ Base(a)' = n - p
    <2>1. Base(a)' = (n + 1) - (p + 1)
      BY <1>8, <1>9 DEF Base
    <2>2. QED
      BY <1>3, <1>8, <1>9, <2>1 DEF Base
  <1>12. \A c \in Agents : Grows(c) /\ Base(c)' = Base(c)
    <2>1. Grows(a)
      BY <1>3, <1>8, <1>9, <1>11 DEF Grows
    <2>2. ASSUME NEW c \in Agents \ {a}
          PROVE  Grows(c) /\ Base(c)' = Base(c)
      <3>1. Base(c)' = Base(c) /\ made'[c] = made[c]
        BY <1>10 DEF Base
      <3>2. Len(made[c]) \in Nat /\ Base(c) \in 0 .. Len(made[c])
        BY <1>1, QueueOfMade
      <3>3. QED
        BY <3>1, <3>2 DEF Grows
    <2>3. QED
      BY <1>11, <2>1, <2>2
  <1>13. NumbersArePlaces'
    <2>1. next_sequence'[a] = n + 1 /\ starts' = starts
      BY <1>1, <1>2, <1>3 DEF TakeSequence, AgentsAreSound, AgentTypes, CInv, NumbersArePlaces
    <2>2. QED
      BY <1>8, <1>10, <2>1 DEF CInv, NumbersArePlaces
  <1>14. \A m : Around(m)' => Around(m) \/ m = b
    <2>1. ASSUME NEW m, Queued(m)'
          PROVE  Queued(m) \/ m = b
      <3>0. PICK c \in Agents : \E j \in 1 .. Len(pending'[c]) : m = pending'[c][j]
        BY <2>1 DEF Queued
      <3>1. PICK j \in 1 .. Len(pending'[c]) : m = pending'[c][j]
        BY <3>0
      <3>2. CASE c = a
        <4>1. j \in 1 .. p \/ j = p + 1
          BY <1>9, <3>1, <3>2
        <4>2. QED
          BY <1>3, <1>9, <3>1, <3>2, <4>1 DEF Queued
      <3>3. CASE c # a
        BY <1>10, <3>1, <3>3 DEF Queued
      <3>4. QED
        BY <3>2, <3>3
    <2>2. QED
      BY <1>2, <2>1 DEF Around, memory
  <1>15. IsNumbered(b)'
    <2>1. p + 1 \in 1 .. Len(pending'[a])
      BY <1>9
    <2>2. QueueIsEnd(a)'
      BY <1>1 DEF AgentsAreSound, AgentIsSound
    <2>3. \A j \in 1 .. Len(pending'[a]) : IsBatchAt(a, pending[a][j], Base(a) + j)'
      BY <2>2 DEF QueueIsEnd
    <2>4. PICK q : q = Base(a)'
      OBVIOUS
    <2>5. \A j \in 1 .. Len(pending'[a]) :
            \A m, i : m = pending'[a][j] /\ i = q + j => IsBatchAt(a, m, i)'
      BY <2>3, <2>4 DEF IsBatchAt, FirstAt
    <2>6. q + (p + 1) = n + 1
      BY <1>8, <1>9, <1>11, <2>4
    <2>7. IsBatchAt(a, b, n + 1)'
      BY <1>9, <2>1, <2>5, <2>6
    <2>8. QED
      BY <1>4, <2>7 DEF IsNumbered
  <1>16. ASSUME NEW m, Around(m)
         PROVE  IsNumbered(m)' /\ m.id # b.id
    <2>1. IsNumbered(m)
      BY <1>16 DEF CInv, AllAreNumbered
    <2>2. /\ m.agent \in Agents /\ m.sequence + 1 \in 1 .. Len(made[m.agent])
          /\ m.id = made[m.agent][m.sequence + 1]
      BY <1>1, <2>1, NumberedParts
    <2>3. IsBatchAt(m.agent, m, m.sequence + 1)'
      BY <1>12, <2>1, <2>2, BatchStays DEF IsNumbered
    <2>4. m.id # b.id
      <3>1. CASE m.agent = a
        BY <1>3, <1>5, <2>2, <3>1
      <3>2. CASE m.agent # a
        <4>1. m.id[1] = m.agent
          BY <1>1, <2>2 DEF AgentsAreSound, AgentIsSound, BatchesAreFresh
        <4>2. b.id[1] = a
          BY <1>4 DEF FreshId
        <4>3. QED
          BY <3>2, <4>1, <4>2
      <3>3. QED
        BY <3>1, <3>2
    <2>5. QED
      BY <2>1, <2>3, <2>4 DEF IsNumbered
  <1>17. AllAreNumbered' /\ OneOfEach'
    <2>1. AllAreNumbered'
      <3>1. ASSUME NEW m, Around(m)'
            PROVE  IsNumbered(m)'
        <4>1. CASE Around(m)
          BY <1>16, <4>1
        <4>2. CASE m = b
          BY <1>15, <4>2 DEF IsNumbered, IsBatchAt, FirstAt
        <4>3. QED
          BY <1>14, <3>1, <4>1, <4>2
      <3>2. QED
        BY <3>1 DEF AllAreNumbered
    <2>2. ASSUME NEW m, NEW x, Around(m)', Around(x)', m.id = x.id
          PROVE  m = x
      BY <1>14, <1>16, <2>2 DEF CInv, OneOfEach
    <2>3. QED
      BY <2>1, <2>2 DEF OneOfEach
  <1>18. \A c \in Agents : Base(c) <= Upto(c) /\ Upto(c) \in Int
    <2>1. \A c \in Agents : Base(c) \in 0 .. Len(made[c]) /\ Upto(c) \in Base(c) .. Len(made[c])
      BY <1>1, QueueOfMade DEF CInv, ServiceIsAbreast, IsAbreast
    <2>2. QED
      BY <2>1
  <1>19. ServiceIsAbreast' /\ \A c \in Agents : Upto(c)' = Upto(c)
    BY <1>1, <1>2, <1>12, <1>18, AbreastStays DEF CInv
  <1>20. \A c \in Agents : AnswerIsKind(c)'
    BY <1>2, <1>19 DEF CInv, AnswerIsKind
  <1>21. \A c \in Agents : call'[c].stage # "idle" => IsBatch(call'[c].message)
    BY <1>2 DEF CInv
  <1>22. QED
    BY <1>13, <1>17, <1>19, <1>20, <1>21 DEF CInv

LEMMA FlushReturnsKeeps ==
  ASSUME IInv, IInv', CInv, NEW a \in Agents, FlushReturns(a)
  PROVE  CInv'
  <1>1. PICK m : m = call[a].message
    OBVIOUS
  <1>2. /\ call[a].stage = "answered" /\ IsBatch(m)
        /\ UNCHANGED memory /\ orphans' = orphans
    BY <1>1 DEF FlushReturns, serviceVars
  <1>3. AgentsAreSound /\ pending[a] \in Seq(Message) /\ made[a] \in Seq(MessageIds)
    BY DEF IInv, AgentsAreSound, AgentTypes
  <1>4. CASE ~Positive(call[a].reason)
    <2>1. call' = [call EXCEPT ![a] = Idle] /\ UNCHANGED agentVars
      BY <1>4 DEF FlushReturns
    <2>2. QED
      BY <1>2, <2>1, IdleKeeps DEF Around
  <1>5. CASE Positive(call[a].reason)
    <2>1. /\ PopPending(a)
          /\ call' = [call EXCEPT ![a] = IF Tail(pending[a]) = <<>> THEN Idle
                                         ELSE Sent(Head(Tail(pending[a])))]
      BY <1>5 DEF FlushReturns
    <2>2. pending[a] # <<>> /\ m = Head(pending[a])
      BY <1>1, <1>2 DEF IInv, CallIsSound, MessageIsSound
    <2>3. PICK p, n, rest : p = Len(pending[a]) /\ n = Len(made[a]) /\ rest = Tail(pending[a])
      OBVIOUS
    <2>4. /\ m = pending[a][1] /\ p \in Nat \ {0} /\ 1 \in 1 .. p
          /\ rest \in Seq(Message) /\ Len(rest) = p - 1
          /\ \A j \in 1 .. p - 1 : rest[j] = pending[a][j + 1]
      BY <1>3, <2>2, <2>3, TailSeq
    <2>5. m.sequence = Base(a) /\ Base(a) \in 0 .. n
      <3>1. IsBatchAt(a, m, Base(a) + 1)
        BY <1>3, <2>3, <2>4 DEF AgentsAreSound, AgentIsSound, QueueIsEnd
      <3>2. Around(m)
        BY <1>1, <1>2, CallIsAround
      <3>3. IsNumbered(m) /\ m.agent = a
        BY <3>1, <3>2 DEF CInv, AllAreNumbered, IsBatchAt
      <3>4. m.sequence + 1 = Base(a) + 1
        BY <1>3, <3>1, <3>3, PlaceIsOne DEF IsNumbered
      <3>5. m.sequence \in Nat /\ Base(a) \in 0 .. n
        BY <1>3, <2>3, <3>3, NumberedParts, QueueOfMade
      <3>6. QED
        BY <3>4, <3>5
    <2>6. Base(a) < Upto(a)
      BY <1>1, <1>2, <1>5, <2>5 DEF CInv, AnswerIsKind
    <2>7. pending'[a] = rest /\ made' = made /\ next_sequence' = next_sequence /\ starts' = starts
      BY <1>3, <2>1, <2>3 DEF PopPending, AgentsAreSound, AgentTypes
    <2>8. \A c \in Agents \ {a} : pending'[c] = pending[c] /\ call'[c] = call[c]
      BY <2>1 DEF IInv, PopPending, AgentsAreSound, AgentTypes
    <2>9. n \in Nat /\ Base(a) = n - p /\ Base(a)' = n - (p - 1)
      <3>1. n \in Nat
        BY <1>3, <2>3
      <3>2. Len(pending'[a]) = p - 1 /\ Len(made'[a]) = n
        BY <2>3, <2>4, <2>7
      <3>3. Base(a)' = n - (p - 1)
        BY <3>2 DEF Base
      <3>4. QED
        BY <2>3, <3>1, <3>3 DEF Base
    <2>10. Base(a)' = Base(a) + 1
      BY <2>4, <2>9
    <2>11. \A c \in Agents : Grows(c) /\ Base(c)' <= Upto(c) /\ Upto(c) \in Int
      <3>1. \A c \in Agents : /\ Base(c) \in 0 .. Len(made[c]) /\ Len(made[c]) \in Nat
                              /\ Upto(c) \in Base(c) .. Len(made[c])
        BY <1>3, QueueOfMade DEF CInv, ServiceIsAbreast, IsAbreast
      <3>2. ASSUME NEW c \in Agents \ {a}
            PROVE  Grows(c) /\ Base(c)' <= Upto(c) /\ Upto(c) \in Int
        <4>1. Base(c)' = Base(c)
          BY <2>7, <2>8 DEF Base
        <4>2. QED
          BY <2>7, <3>1, <4>1 DEF Grows
      <3>3. Grows(a) /\ Base(a)' <= Upto(a) /\ Upto(a) \in Int
        BY <2>6, <2>7, <2>10, <3>1 DEF Grows
      <3>4. QED
        BY <3>2, <3>3
    <2>12. \A x : Around(x)' => Around(x)
      <3>1. ASSUME NEW x, Queued(x)'
            PROVE  Queued(x)
        <4>0. PICK c \in Agents : \E j \in 1 .. Len(pending'[c]) : x = pending'[c][j]
          BY <3>1 DEF Queued
        <4>1. PICK j \in 1 .. Len(pending'[c]) : x = pending'[c][j]
          BY <4>0
        <4>2. CASE c = a
          <5>1. j \in 1 .. p - 1 /\ j + 1 \in 1 .. p
            BY <2>4, <2>7, <4>1, <4>2
          <5>2. x = pending[a][j + 1]
            BY <2>4, <2>7, <4>1, <4>2, <5>1
          <5>3. QED
            BY <2>3, <5>1, <5>2 DEF Queued
        <4>3. CASE c # a
          BY <2>8, <4>1, <4>3 DEF Queued
        <4>4. QED
          BY <4>2, <4>3
      <3>2. QED
        BY <1>2, <3>1 DEF Around, memory
    <2>13. AllAreNumbered' /\ OneOfEach'
      BY <1>3, <2>11, <2>12, NothingNew DEF CInv
    <2>14. ServiceIsAbreast' /\ \A c \in Agents : Upto(c)' = Upto(c)
      BY <1>2, <1>3, <2>11, AbreastStays DEF CInv
    <2>15. NumbersArePlaces'
      BY <2>7 DEF CInv, NumbersArePlaces
    <2>16. call'[a].stage # "answered" /\ (call'[a].stage # "idle" => IsBatch(call'[a].message))
      <3>1. CASE rest = <<>>
        <4>1. call'[a] = Idle
          BY <2>1, <2>3, <3>1 DEF IInv
        <4>2. QED
          BY <4>1 DEF Idle
      <3>2. CASE rest # <<>>
        <4>1. call'[a] = Sent(Head(rest))
          BY <2>1, <2>3, <3>2 DEF IInv
        <4>2. HeadsMayBeSent'
          BY HeadMayBeSent, PTL DEF IInv
        <4>3. IsBatch(Head(rest))
          BY <2>7, <3>2, <4>2 DEF HeadsMayBeSent
        <4>4. QED
          BY <4>1, <4>3 DEF Sent
      <3>3. QED
        BY <3>1, <3>2
    <2>17. \A c \in Agents : AnswerIsKind(c)'
      BY <2>8, <2>14, <2>16 DEF CInv, AnswerIsKind
    <2>18. \A c \in Agents : call'[c].stage # "idle" => IsBatch(call'[c].message)
      BY <2>8, <2>16 DEF CInv
    <2>19. QED
      BY <2>13, <2>14, <2>15, <2>17, <2>18 DEF CInv
  <1>6. QED
    BY <1>4, <1>5

LEMMA KindStep ==
  ASSUME Undisturbed, IInv, IInv', CInv, [Next]_vars
  PROVE  CInv'
  <1>1. ASSUME NEW a \in Agents,
               \/ CollectOnce(a) \/ Flush(a) \/ SendHeartbeat(a)
               \/ Serve(a) \/ ServeTooLong(a) \/ FlushReturns(a) \/ HeartbeatReturns(a)
               \/ Timeout(a) \/ AgentRestart(a)
        PROVE  CInv'
    <2>1. CASE CollectOnce(a)
      BY <2>1, CollectKeeps
    <2>2. CASE Flush(a)
      BY <2>2, FlushKeeps
    <2>3. CASE SendHeartbeat(a)
      BY <2>3 DEF SendHeartbeat, Undisturbed
    <2>4. CASE Serve(a)
      BY <2>4, ServeKeeps
    <2>5. CASE ServeTooLong(a) \/ HeartbeatReturns(a)
      <3>1. call' = [call EXCEPT ![a] = Idle] /\ UNCHANGED <<serviceVars, agentVars, orphans>>
        BY <2>5 DEF ServeTooLong, HeartbeatReturns
      <3>2. UNCHANGED <<memory, agentVars>> /\ \A m \in orphans' : Around(m)
        BY <3>1 DEF serviceVars, Around
      <3>3. QED
        BY <3>1, <3>2, IdleKeeps
    <2>6. CASE FlushReturns(a)
      BY <2>6, FlushReturnsKeeps
    <2>7. CASE Timeout(a)
      <3>1. \A m \in orphans' : Around(m)
        BY <2>7, AbandonedAreAround DEF Timeout
      <3>2. call' = [call EXCEPT ![a] = Idle] /\ UNCHANGED <<memory, agentVars>>
        BY <2>7 DEF Timeout, Abandon, serviceVars
      <3>3. QED
        BY <3>1, <3>2, IdleKeeps
    <2>8. CASE AgentRestart(a)
      <3>1. starts[a] < MaxStarts /\ starts[a] = 0 /\ MaxStarts = 0
        BY <2>8 DEF AgentRestart, StartAgain, CInv, NumbersArePlaces, Undisturbed
      <3>2. QED
        BY <3>1
    <2>9. QED
      BY <1>1, <2>1, <2>2, <2>3, <2>4, <2>5, <2>6, <2>7, <2>8
  <1>2. ASSUME NEW m \in orphans, ServeOrphan(m)
        PROVE  CInv'
    BY <1>2, ServeOrphanKeeps
  <1>3. ASSUME NEW m \in orphans, LoseOrphan(m)
        PROVE  CInv'
    <2>1. UNCHANGED <<memory, agentVars, call>> /\ orphans' \subseteq orphans
      BY <1>3 DEF LoseOrphan, serviceVars
    <2>2. QED
      BY <2>1, RestKeeps
  <1>4. CASE ServiceStep
    <2>1. Tick /\ UNCHANGED <<agentVars, call, orphans>>
      BY <1>4 DEF ServiceStep, Undisturbed
    <2>2. UNCHANGED memory
      BY <2>1 DEF Tick
    <2>3. QED
      BY <2>1, <2>2, RestKeeps
  <1>5. CASE UNCHANGED vars
    <2>1. UNCHANGED <<memory, agentVars, call, orphans>>
      BY <1>5 DEF vars, serviceVars
    <2>2. QED
      BY <2>1, RestKeeps
  <1>6. QED
    BY <1>1, <1>2, <1>3, <1>4, <1>5 DEF Next

LEMMA KindBegins ==
  ASSUME Init
  PROVE  CInv
  <1>1. \A a \in Agents : /\ pending[a] = <<>> /\ made[a] = <<>> /\ starts[a] = 0
                          /\ next_sequence[a] = 0 /\ Upto(a) = 0
                          /\ last_batch_by_agent[a] = NoBatch /\ call[a] = Idle
    BY DEF Init, AgentInit, ServiceInit, MemoryInit, Upto, NoSequence
  <1>2. \A m : ~Around(m)
    BY <1>1 DEF Init, ServiceInit, MemoryInit, Around, Queued
  <1>3. ASSUME NEW a \in Agents
        PROVE  IsAbreast(a)
    <2>1. Base(a) = 0 /\ Len(made[a]) = 0
      BY <1>1 DEF Base
    <2>2. QED
      BY <1>1, <2>1 DEF IsAbreast, Init, ServiceInit, MemoryInit
  <1>4. last_sequence_by_agent \in [Agents -> Int]
    BY DEF Init, ServiceInit, MemoryInit, NoSequence
  <1>5. \A a \in Agents : Len(made[a]) = 0 /\ call[a].stage = "idle"
    BY <1>1 DEF Idle
  <1>6. QED
    BY <1>1, <1>2, <1>3, <1>4, <1>5
    DEF CInv, NumbersArePlaces, AllAreNumbered, OneOfEach, ServiceIsAbreast, AnswerIsKind

(* NodeAgent.flush and ingest: where no heartbeat is sent and nothing is   *)
(* restarted, a request, retried or late, is refused for the clock only,   *)
(* for all agents, clocks, queues and networks.                            *)
THEOREM RefusalsCorrect ==
  ASSUME Undisturbed
  PROVE  Spec => []OnlyTheClockRefuses
  <1>1. Init => CInv
    BY KindBegins
  <1>2. IInv /\ IInv' /\ CInv /\ [Next]_vars => CInv'
    BY KindStep
  <1>3. CInv => OnlyTheClockRefuses
    BY DEF CInv, AnswerIsKind, OnlyTheClockRefuses
  <1>4. QED
    BY <1>1, <1>2, <1>3, Invariance, PTL DEF Spec

=============================================================================
