--------------------------- MODULE NodeAgent_proofs ---------------------------
(***************************************************************************)
(* What the operations of the agents and of the service do to the pipe     *)
(* they form, whatever transport joins them, for every set of agents and   *)
(* every limit.  HttpDelivery_proofs and OfflineDelivery_proofs put the    *)
(* lemmas together.                                                        *)
(***************************************************************************)
EXTENDS NodeAgent, TLAPS

(* The batches an agent made and does not keep come before those it keeps. *)
Base(a) == Len(made[a]) - Len(pending[a])

(* The batch at place i is the first of its agent object. *)
FirstAt(a, i) == i = 1 \/ made[a][i][2] # made[a][i - 1][2]

IsBatchAt(a, m, i) ==
  /\ m \in Message /\ IsBatch(m) /\ m.agent = a
  /\ i \in 1 .. Len(made[a])
  /\ m.id = made[a][i]
  /\ m.previous = IF FirstAt(a, i) THEN NoBatch ELSE made[a][i - 1]

(* What may be on its way: no batch beyond the head of the queue. *)
MayBeSent(m) ==
  /\ m \in Message
  /\ IsBatch(m) => \E i \in 1 .. Base(m.agent) + 1 : IsBatchAt(m.agent, m, i)

AgentTypes ==
  /\ next_sequence \in [Agents -> 0 .. MaxSequence]
  /\ last_batch_id \in [Agents -> MessageIds \cup {NoBatch}]
  /\ starts \in [Agents -> 0 .. MaxStarts]
  /\ pending \in [Agents -> Seq(Message)]
  /\ made \in [Agents -> Seq(MessageIds)]
  /\ acknowledged \in [Agents -> Seq(MessageIds)]

(* The batches of an agent are its own and all different, and the next one *)
(* will be.                                                                *)
BatchesAreFresh(a) ==
  /\ \A i \in 1 .. Len(made[a]) :
       /\ made[a][i][1] = a
       /\ made[a][i][2] <= starts[a]
       /\ made[a][i][2] = starts[a] => made[a][i][3] < next_sequence[a]
  /\ \A i, j \in 1 .. Len(made[a]) : made[a][i] = made[a][j] => i = j

(* The queue is the end of what was made, all by this agent object. *)
QueueIsEnd(a) ==
  /\ Len(pending[a]) <= Len(made[a])
  /\ \A j \in 1 .. Len(pending[a]) :
       /\ IsBatchAt(a, pending[a][j], Base(a) + j)
       /\ made[a][Base(a) + j][2] = starts[a]

AcknowledgedAreBefore(a) ==
  \A k \in 1 .. Len(acknowledged[a]) : \E i \in 1 .. Base(a) : made[a][i] = acknowledged[a][k]

(* With an empty queue the next batch is linked to the last one made, if   *)
(* this agent object made it.                                              *)
LinkIsLast(a) ==
  LET n == Len(made[a])
  IN  pending[a] = <<>> =>
        last_batch_id[a] = IF n > 0 /\ made[a][n][2] = starts[a] THEN made[a][n] ELSE NoBatch

AgentIsSound(a) ==
  /\ BatchesAreFresh(a)
  /\ QueueIsEnd(a)
  /\ AcknowledgedAreBefore(a)
  /\ LinkIsLast(a)

AgentsAreSound == AgentTypes /\ \A a \in Agents : AgentIsSound(a)

ServiceTypes ==
  /\ clock \in Nat
  /\ last_batch_by_agent \in [Agents -> MessageIds \cup {NoBatch}]
  /\ accepted_message_digests \subseteq Message
  /\ accepted_samples_by_agent \in [Agents -> Seq(SampleEntry)]
  /\ received \subseteq MessageIds

(* The service remembers the end of each list, and what it remembers it    *)
(* has received.                                                           *)
ServiceIsSound ==
  /\ ServiceTypes
  /\ \A a \in Agents :
       LET list == accepted_samples_by_agent[a]
       IN  last_batch_by_agent[a] = IF list = <<>> THEN NoBatch ELSE list[Len(list)].batch
  /\ \A m \in accepted_message_digests : IsBatch(m) => m.id \in received

-----------------------------------------------------------------------------
(* Sequences *)

LEMMA AppendSeq ==
  ASSUME NEW S, NEW list \in Seq(S), NEW e \in S
  PROVE  /\ Append(list, e) \in Seq(S)
         /\ Append(list, e) # <<>>
         /\ Len(list) \in Nat
         /\ Len(Append(list, e)) = Len(list) + 1
         /\ Append(list, e)[Len(list) + 1] = e
         /\ \A i \in 1 .. Len(list) : Append(list, e)[i] = list[i]
  OBVIOUS

LEMMA TailSeq ==
  ASSUME NEW S, NEW list \in Seq(S), list # <<>>
  PROVE  /\ Head(list) = list[1] /\ Head(list) \in S
         /\ Tail(list) \in Seq(S)
         /\ Len(list) \in Nat \ {0}
         /\ Len(Tail(list)) = Len(list) - 1
         /\ \A i \in 1 .. Len(list) - 1 : Tail(list)[i] = list[i + 1]
  OBVIOUS

LEMMA Difference ==
  ASSUME NEW m \in Nat, NEW n \in Nat, n <= m
  PROVE  m - n \in 0 .. m /\ n = m - (m - n)
  OBVIOUS

LEMMA LastSeq ==
  ASSUME NEW S, NEW list \in Seq(S)
  PROVE  /\ DOMAIN list = 1 .. Len(list)
         /\ Len(list) \in Nat
         /\ \A i \in 1 .. Len(list) : list[i] \in S
         /\ ToSet(list) = {list[i] : i \in 1 .. Len(list)}
         /\ (list = <<>>) = (Len(list) = 0)
         /\ list # <<>> => Last(list) = list[Len(list)]
  BY DEF ToSet, Last

LEMMA IdsSeq ==
  ASSUME NEW S, NEW list \in Seq(S)
  PROVE  ToSet(Ids(list)) = {list[i].id : i \in 1 .. Len(list)}
  BY DEF ToSet, Ids

LEMMA IdParts ==
  ASSUME NEW id \in MessageIds
  PROVE  id[2] \in Nat /\ id[3] \in Nat
  <1>1. PICK a \in Agents, o \in 0 .. MaxStarts, k \in 0 .. MaxSequence - 1 : id = <<a, o, k>>
    BY NodeAgentAssumption
  <1>2. QED
    BY <1>1, NodeAgentAssumption

LEMMA NewId ==
  ASSUME NEW a \in Agents, NEW o \in 0 .. MaxStarts, NEW k \in 0 .. MaxSequence - 1
  PROVE  <<a, o, k>> \in MessageIds
  BY NodeAgentAssumption

-----------------------------------------------------------------------------
(* The pipe *)

StoredOf(a) == BatchIds(accepted_samples_by_agent[a])

LostOf(a) == ToSet(made[a]) \ (ToSet(acknowledged[a]) \cup ToSet(Ids(pending[a])))

BeginsOf(a) ==
  {i \in 1 .. Len(made[a]) + 1 : i = 1 \/ ObjectAt(a, i) # ObjectAt(a, i - 1)}

(* The steps of the pipe in terms of the agents and the service. *)
LEMMA PipeProduce ==
  ASSUME NEW a \in Agents, NEW b \in MessageIds, b \notin ToSet(made[a]),
         made' = [made EXCEPT ![a] = Append(@, b)],
         \A c \in Agents : StoredOf(c)' = StoredOf(c) /\ LostOf(c)' = LostOf(c)
                             /\ BeginsOf(c)' = BeginsOf(c),
         UNCHANGED <<received, acknowledged>>
  PROVE  Pipe!Produce(a)
  BY DEF Pipe!Produce, Pipe!ToSet, ToSet, StoredOf, LostOf, BeginsOf

LEMMA PipeStutter ==
  ASSUME UNCHANGED <<made, received, acknowledged>>,
         \A c \in Agents : StoredOf(c)' = StoredOf(c) /\ LostOf(c)' = LostOf(c)
                             /\ BeginsOf(c)' = BeginsOf(c)
  PROVE  UNCHANGED Pipe!pipeVars
  BY DEF Pipe!pipeVars, StoredOf, LostOf, BeginsOf

LEMMA PipeForget ==
  ASSUME UNCHANGED <<made, received, acknowledged>>,
         \A c \in Agents : StoredOf(c)' = <<>> /\ LostOf(c)' = LostOf(c)
                             /\ BeginsOf(c)' = BeginsOf(c)
  PROVE  Pipe!Forget
  BY DEF Pipe!Forget, StoredOf, LostOf, BeginsOf

LEMMA PipeStore ==
  ASSUME NEW a \in Agents, NEW i \in DOMAIN made[a],
         \A j \in Pipe!Kept(a) : i <= j,
         StoredOf(a) # <<>> =>
           i \notin BeginsOf(a) /\ made[a][i - 1] = StoredOf(a)[Len(StoredOf(a))],
         \A c \in Agents :
           /\ StoredOf(c)' = IF c = a THEN Append(StoredOf(a), made[a][i]) ELSE StoredOf(c)
           /\ LostOf(c)' = LostOf(c) /\ BeginsOf(c)' = BeginsOf(c),
         received' = received \cup {made[a][i]},
         UNCHANGED <<made, acknowledged>>
  PROVE  Pipe!Store(a)
  BY DEF Pipe!Store, Pipe!Last, StoredOf, LostOf, BeginsOf

LEMMA PipeAcknowledge ==
  ASSUME NEW a \in Agents, NEW i \in Pipe!Kept(a),
         \A j \in Pipe!Kept(a) : i <= j,
         made[a][i] \in received,
         acknowledged' = [acknowledged EXCEPT ![a] = Append(@, made[a][i])],
         \A c \in Agents : StoredOf(c)' = StoredOf(c) /\ LostOf(c)' = LostOf(c)
                             /\ BeginsOf(c)' = BeginsOf(c),
         UNCHANGED <<made, received>>
  PROVE  Pipe!Acknowledge(a)
  BY DEF Pipe!Acknowledge, StoredOf, LostOf, BeginsOf

LEMMA PipeRestart ==
  ASSUME NEW a \in Agents,
         \A c \in Agents :
           /\ StoredOf(c)' = StoredOf(c)
           /\ LostOf(c)' = IF c = a THEN LostOf(a) \cup {made[a][i] : i \in Pipe!Kept(a)}
                           ELSE LostOf(c)
           /\ BeginsOf(c)' = IF c = a THEN BeginsOf(a) \cup {Len(made[a]) + 1} ELSE BeginsOf(c),
         UNCHANGED <<made, received, acknowledged>>
  PROVE  Pipe!Restart(a)
  BY DEF Pipe!Restart, StoredOf, LostOf, BeginsOf

(* What the pipe keeps is the queue. *)
LEMMA QueueOfMade ==
  ASSUME AgentsAreSound, NEW a \in Agents
  PROVE  /\ ToSet(made[a]) = {made[a][i] : i \in 1 .. Len(made[a])}
         /\ ToSet(Ids(pending[a])) = {made[a][i] : i \in Base(a) + 1 .. Len(made[a])}
         /\ ToSet(acknowledged[a]) \subseteq {made[a][i] : i \in 1 .. Base(a)}
         /\ Base(a) \in 0 .. Len(made[a])
         /\ Len(made[a]) \in Nat
  <1>1. /\ made[a] \in Seq(MessageIds) /\ pending[a] \in Seq(Message)
        /\ acknowledged[a] \in Seq(MessageIds)
        /\ AgentIsSound(a)
    BY DEF AgentsAreSound, AgentTypes
  <1>2. /\ DOMAIN made[a] = 1 .. Len(made[a]) /\ Len(made[a]) \in Nat
        /\ DOMAIN pending[a] = 1 .. Len(pending[a]) /\ Len(pending[a]) \in Nat
        /\ DOMAIN acknowledged[a] = 1 .. Len(acknowledged[a])
    BY <1>1
  <1>3. Base(a) \in 0 .. Len(made[a]) /\ Len(pending[a]) = Len(made[a]) - Base(a)
    <2>1. Len(pending[a]) <= Len(made[a])
      BY <1>1 DEF AgentIsSound, QueueIsEnd
    <2>2. Len(made[a]) \in Nat /\ Len(pending[a]) \in Nat
      BY <1>2
    <2>3. QED
      BY <2>1, <2>2, Difference DEF Base
  <1>4. \A j \in 1 .. Len(pending[a]) : pending[a][j].id = made[a][Base(a) + j]
    BY <1>1 DEF AgentIsSound, QueueIsEnd, IsBatchAt
  <1>5. ToSet(Ids(pending[a])) = {pending[a][j].id : j \in 1 .. Len(pending[a])}
    BY <1>2 DEF ToSet, Ids
  <1>6. ToSet(Ids(pending[a])) = {made[a][i] : i \in Base(a) + 1 .. Len(made[a])}
    <2>1. ASSUME NEW i \in Base(a) + 1 .. Len(made[a])
          PROVE  made[a][i] \in {pending[a][j].id : j \in 1 .. Len(pending[a])}
      <3>1. i - Base(a) \in 1 .. Len(pending[a]) /\ Base(a) + (i - Base(a)) = i
        BY <1>2, <1>3
      <3>2. QED
        BY <3>1, <1>4
    <2>2. ASSUME NEW j \in 1 .. Len(pending[a])
          PROVE  pending[a][j].id \in {made[a][i] : i \in Base(a) + 1 .. Len(made[a])}
      <3>1. Base(a) + j \in Base(a) + 1 .. Len(made[a])
        BY <1>2, <1>3
      <3>2. QED
        BY <3>1, <1>4
    <2>3. QED
      BY <1>5, <2>1, <2>2
  <1>7. ToSet(acknowledged[a]) \subseteq {made[a][i] : i \in 1 .. Base(a)}
    BY <1>1, <1>2 DEF ToSet, AgentIsSound, AcknowledgedAreBefore
  <1>8. QED
    BY <1>2, <1>3, <1>6, <1>7 DEF ToSet

LEMMA KeptIsQueue ==
  ASSUME AgentsAreSound, NEW a \in Agents
  PROVE  Pipe!Kept(a) = Base(a) + 1 .. Len(made[a])
  <1>1. Pipe!Kept(a) = {i \in DOMAIN made[a] : made[a][i] \notin ToSet(acknowledged[a]) \cup LostOf(a)}
    BY DEF Pipe!Kept, Pipe!ToSet, ToSet, LostOf
  <1>2. DOMAIN made[a] = 1 .. Len(made[a])
    BY LastSeq DEF AgentsAreSound, AgentTypes
  <1>3. \A i, j \in 1 .. Len(made[a]) : made[a][i] = made[a][j] => i = j
    BY DEF AgentsAreSound, AgentIsSound, BatchesAreFresh
  <1>4. \A i \in 1 .. Len(made[a]) :
          made[a][i] \notin ToSet(acknowledged[a]) \cup LostOf(a) <=> i \in Base(a) + 1 .. Len(made[a])
    <2> TAKE i \in 1 .. Len(made[a])
    <2>1. i \in Base(a) + 1 .. Len(made[a]) \/ i \in 1 .. Base(a)
      BY QueueOfMade
    <2>2. CASE i \in Base(a) + 1 .. Len(made[a])
      <3>1. made[a][i] \in ToSet(Ids(pending[a]))
        BY <2>2, QueueOfMade
      <3>2. made[a][i] \notin ToSet(acknowledged[a])
        <4>1. SUFFICES ASSUME made[a][i] \in ToSet(acknowledged[a]) PROVE FALSE
          OBVIOUS
        <4>2. PICK j \in 1 .. Base(a) : made[a][j] = made[a][i]
          BY <4>1, QueueOfMade
        <4>3. j \in 1 .. Len(made[a]) /\ j # i
          BY <2>2, QueueOfMade
        <4>4. QED
          BY <4>2, <4>3, <1>3
      <3>3. QED
        BY <2>2, <3>1, <3>2 DEF LostOf
    <2>3. CASE i \in 1 .. Base(a)
      <3>1. i \notin Base(a) + 1 .. Len(made[a])
        BY <2>3, QueueOfMade
      <3>2. made[a][i] \notin ToSet(Ids(pending[a]))
        <4>1. SUFFICES ASSUME made[a][i] \in ToSet(Ids(pending[a])) PROVE FALSE
          OBVIOUS
        <4>2. ToSet(Ids(pending[a])) = {made[a][j] : j \in Base(a) + 1 .. Len(made[a])}
          BY QueueOfMade
        <4>3. PICK j \in Base(a) + 1 .. Len(made[a]) : made[a][j] = made[a][i]
          BY <4>1, <4>2
        <4>4. j \in 1 .. Len(made[a]) /\ j # i
          BY <2>3, QueueOfMade
        <4>5. QED
          BY <4>3, <4>4, <1>3
      <3>3. made[a][i] \in ToSet(made[a])
        BY QueueOfMade
      <3>4. QED
        BY <3>1, <3>2, <3>3 DEF LostOf
    <2>4. QED
      BY <2>1, <2>2, <2>3
  <1>5. QED
    BY <1>1, <1>2, <1>4, QueueOfMade

-----------------------------------------------------------------------------
(* The operations of an agent *)

(* What an agent made stays where it is, and the queue only moves on. *)
Grows(c) ==
  /\ Len(made[c]) \in Nat /\ Len(made'[c]) \in Nat
  /\ Len(made[c]) <= Len(made'[c])
  /\ \A i \in 1 .. Len(made[c]) : made'[c][i] = made[c][i]
  /\ Base(c) \in Int /\ Base(c)' \in Int /\ Base(c) <= Base(c)'

LEMMA BatchStays ==
  ASSUME NEW c, Grows(c), NEW m, NEW i, IsBatchAt(c, m, i)
  PROVE  IsBatchAt(c, m, i)'
  <1>1. i \in 1 .. Len(made[c]) /\ i \in 1 .. Len(made'[c])
    BY DEF IsBatchAt, Grows
  <1>2. made'[c][i] = made[c][i]
    BY <1>1 DEF Grows
  <1>3. i # 1 => made'[c][i - 1] = made[c][i - 1]
    <2>1. i # 1 => i - 1 \in 1 .. Len(made[c])
      BY <1>1 DEF Grows
    <2>2. QED
      BY <2>1 DEF Grows
  <1>4. FirstAt(c, i)' = FirstAt(c, i)
    BY <1>2, <1>3 DEF FirstAt
  <1>5. CASE FirstAt(c, i)
    BY <1>1, <1>2, <1>4, <1>5 DEF IsBatchAt
  <1>6. CASE ~FirstAt(c, i)
    BY <1>1, <1>2, <1>3, <1>4, <1>6 DEF IsBatchAt, FirstAt
  <1>7. QED
    BY <1>5, <1>6

LEMMA SentStays ==
  ASSUME \A c \in Agents : Grows(c), NEW m, MayBeSent(m)
  PROVE  MayBeSent(m)'
  <1>1. m \in Message /\ m.agent \in Agents
    BY DEF MayBeSent, Message
  <1>2. ASSUME IsBatch(m)
        PROVE  \E i \in 1 .. Base(m.agent)' + 1 : IsBatchAt(m.agent, m, i)'
    <2>1. PICK i \in 1 .. Base(m.agent) + 1 : IsBatchAt(m.agent, m, i)
      BY <1>2 DEF MayBeSent
    <2>2. Grows(m.agent)
      BY <1>1
    <2>3. i \in 1 .. Base(m.agent)' + 1
      BY <2>2 DEF Grows
    <2>4. IsBatchAt(m.agent, m, i)'
      BY <2>1, <2>2, BatchStays
    <2>5. QED
      BY <2>3, <2>4
  <1>3. QED
    BY <1>1, <1>2 DEF MayBeSent, IsBatch

(* An agent that only takes a sequence is as sound as before. *)
SameQueue(c) ==
  /\ made'[c] = made[c] /\ pending'[c] = pending[c] /\ acknowledged'[c] = acknowledged[c]
  /\ starts'[c] = starts[c] /\ last_batch_id'[c] = last_batch_id[c]

LEMMA SameQueueKeeps ==
  ASSUME AgentsAreSound, NEW c \in Agents, SameQueue(c), next_sequence'[c] \in Nat,
         next_sequence[c] <= next_sequence'[c]
  PROVE  /\ AgentIsSound(c)' /\ Grows(c)
         /\ LostOf(c)' = LostOf(c) /\ BeginsOf(c)' = BeginsOf(c)
  <1>0. /\ AgentIsSound(c) /\ next_sequence[c] \in Nat /\ Len(made[c]) \in Nat
        /\ Base(c) \in 0 .. Len(made[c])
        /\ made[c] \in Seq(MessageIds)
    BY QueueOfMade DEF AgentsAreSound, AgentTypes
  <1>1. Base(c)' = Base(c)
    BY DEF SameQueue, Base
  <1>2. Grows(c)
    BY <1>0, <1>1 DEF Grows, SameQueue
  <1>3. \A m, i : IsBatchAt(c, m, i) => IsBatchAt(c, m, i)'
    BY <1>2, BatchStays
  <1>4. BatchesAreFresh(c)'
    <2>1. \A i \in 1 .. Len(made[c]) : made[c][i] \in MessageIds
      BY <1>0
    <2>2. \A i \in 1 .. Len(made[c]) : made[c][i][3] \in Nat
      BY <2>1, IdParts
    <2>3. QED
      BY <1>0, <2>2 DEF SameQueue, AgentIsSound, BatchesAreFresh
  <1>5. QueueIsEnd(c)'
    BY <1>0, <1>1, <1>3 DEF SameQueue, AgentIsSound, QueueIsEnd
  <1>6. AcknowledgedAreBefore(c)' /\ LinkIsLast(c)'
    BY <1>0, <1>1 DEF SameQueue, AgentIsSound, AcknowledgedAreBefore, LinkIsLast
  <1>7. LostOf(c)' = LostOf(c) /\ BeginsOf(c)' = BeginsOf(c)
    BY DEF SameQueue, LostOf, BeginsOf, ObjectAt, ToSet, Ids
  <1>8. QED
    BY <1>2, <1>4, <1>5, <1>6, <1>7 DEF AgentIsSound

(* collect_once: a batch is produced. *)
LEMMA NewBatchType ==
  ASSUME AgentsAreSound, clock \in Nat, NEW a \in Agents, next_sequence[a] < MaxSequence,
         NEW envelope \in CollectedEnvelopes
  PROVE  /\ NewBatch(a, envelope) \in Message
         /\ FreshId(a) \in MessageIds
         /\ FreshId(a) \notin {made[a][i] : i \in 1 .. Len(made[a])}
  <1>1. /\ next_sequence[a] \in 0 .. MaxSequence /\ starts[a] \in 0 .. MaxStarts
        /\ last_batch_id[a] \in MessageIds \cup {NoBatch}
        /\ pending[a] \in Seq(Message)
        /\ Offset[a] \in Int
        /\ envelope \in Envelopes
    BY NodeAgentAssumption DEF AgentsAreSound, AgentTypes
  <1>2. FreshId(a) \in MessageIds
    <2>1. next_sequence[a] \in 0 .. MaxSequence - 1
      BY <1>1, NodeAgentAssumption
    <2>2. QED
      BY <1>1, <2>1, NewId DEF FreshId
  <1>3. AgentClock(a) \in Int
    BY <1>1 DEF AgentClock
  <1>4. (IF pending[a] # <<>> THEN Last(pending[a]).id ELSE last_batch_id[a])
          \in MessageIds \cup {NoBatch}
    <2>1. CASE pending[a] # <<>>
      <3>1. Last(pending[a]) \in Message
        BY <1>1, <2>1, LastSeq
      <3>2. QED
        BY <2>1, <3>1 DEF Message
    <2>2. CASE pending[a] = <<>>
      BY <1>1, <2>2
    <2>3. QED
      BY <2>1, <2>2
  <1>5. NewBatch(a, envelope) \in Message
    BY <1>1, <1>2, <1>3, <1>4 DEF NewBatch, Message
  <1>6. ASSUME NEW i \in 1 .. Len(made[a]), made[a][i] = FreshId(a)
        PROVE  FALSE
    <2>1. made[a][i][2] = starts[a] /\ made[a][i][3] = next_sequence[a]
      BY <1>6 DEF FreshId
    <2>2. made[a][i][3] < next_sequence[a]
      BY <2>1 DEF AgentsAreSound, AgentIsSound, BatchesAreFresh
    <2>3. QED
      BY <1>1, <2>1, <2>2
  <1>7. QED
    BY <1>2, <1>5, <1>6

LEMMA QueueStep ==
  ASSUME AgentsAreSound, clock \in Nat, NEW a \in Agents, QueueBatch(a),
         UNCHANGED <<received, accepted_samples_by_agent>>
  PROVE  /\ AgentsAreSound'
         /\ Pipe!Produce(a)
         /\ \A m : MayBeSent(m) => MayBeSent(m)'
  <1>1. PICK envelope \in CollectedEnvelopes :
          /\ TakeSequence(a)
          /\ pending' = [pending EXCEPT ![a] = Append(@, NewBatch(a, envelope))]
          /\ made' = [made EXCEPT ![a] = Append(@, FreshId(a))]
          /\ UNCHANGED <<last_batch_id, starts, acknowledged>>
    BY DEF QueueBatch
  <1>0. PICK n, p, b, id :
          n = Len(made[a]) /\ p = Len(pending[a]) /\ b = NewBatch(a, envelope) /\ id = FreshId(a)
    OBVIOUS
  <1>2. /\ b \in Message /\ id \in MessageIds /\ id \notin ToSet(made[a])
        /\ id \notin {made[a][i] : i \in 1 .. n}
    BY <1>0, <1>1, NewBatchType, QueueOfMade DEF TakeSequence
  <1>3. /\ made[a] \in Seq(MessageIds) /\ pending[a] \in Seq(Message)
        /\ next_sequence[a] \in Nat /\ starts[a] \in Nat
        /\ AgentIsSound(a)
    BY DEF AgentsAreSound, AgentTypes
  <1>4. /\ IsBatch(b) /\ b.agent = a /\ b.id = id
        /\ b.previous = IF pending[a] # <<>> THEN Last(pending[a]).id ELSE last_batch_id[a]
        /\ id[1] = a /\ id[2] = starts[a] /\ id[3] = next_sequence[a]
    BY <1>0 DEF NewBatch, IsBatch, FreshId
  <1>5. /\ made'[a] = Append(made[a], id) /\ pending'[a] = Append(pending[a], b)
        /\ next_sequence'[a] = next_sequence[a] + 1
        /\ starts' = starts /\ last_batch_id' = last_batch_id /\ acknowledged' = acknowledged
    BY <1>0, <1>1 DEF AgentsAreSound, AgentTypes, TakeSequence
  <1>6. /\ n \in Nat /\ Len(made'[a]) = n + 1 /\ made'[a][n + 1] = id
        /\ \A i \in 1 .. n : made'[a][i] = made[a][i]
        /\ made'[a] \in Seq(MessageIds) /\ made'[a] # <<>>
    BY <1>0, <1>2, <1>3, <1>5, AppendSeq
  <1>7. /\ p \in Nat /\ Len(pending'[a]) = p + 1 /\ pending'[a][p + 1] = b
        /\ \A i \in 1 .. p : pending'[a][i] = pending[a][i]
        /\ pending'[a] \in Seq(Message) /\ pending'[a] # <<>>
    BY <1>0, <1>2, <1>3, <1>5, AppendSeq
  <1>8. Base(a) = n - p /\ Base(a)' = Base(a) /\ Base(a) \in 0 .. n
    <2>1. Base(a) = n - p
      BY <1>0 DEF Base
    <2>2. Base(a)' = (n + 1) - (p + 1)
      BY <1>6, <1>7 DEF Base
    <2>3. Base(a) \in 0 .. n
      BY <1>0, QueueOfMade
    <2>4. QED
      BY <1>6, <1>7, <2>1, <2>2, <2>3
  <1>9. Grows(a)
    BY <1>0, <1>6, <1>8 DEF Grows
  <1>10. AgentTypes'
    <2>1. AgentTypes
      BY DEF AgentsAreSound
    <2>2. next_sequence' \in [Agents -> 0 .. MaxSequence]
      <3>1. next_sequence[a] + 1 \in 0 .. MaxSequence
        BY <1>1, <2>1, NodeAgentAssumption DEF AgentTypes, TakeSequence
      <3>2. QED
        BY <1>1, <2>1, <3>1 DEF AgentTypes, TakeSequence
    <2>3. made' \in [Agents -> Seq(MessageIds)]
      <3>1. Append(made[a], id) \in Seq(MessageIds)
        BY <1>5, <1>6
      <3>2. QED
        BY <1>0, <1>1, <2>1, <3>1 DEF AgentTypes
    <2>4. pending' \in [Agents -> Seq(Message)]
      <3>1. Append(pending[a], b) \in Seq(Message)
        BY <1>5, <1>7
      <3>2. QED
        BY <1>0, <1>1, <2>1, <3>1 DEF AgentTypes
    <2>5. QED
      BY <1>1, <2>1, <2>2, <2>3, <2>4 DEF AgentTypes
  <1>11. BatchesAreFresh(a)'
    <2>1. \A i \in 1 .. n : made[a][i] # id
      BY <1>2
    <2>2. \A i \in 1 .. n : made[a][i][3] \in Nat
      <3>1. \A i \in 1 .. n : made[a][i] \in MessageIds
        BY <1>0, <1>3
      <3>2. QED
        BY <3>1, IdParts
    <2>3. ASSUME NEW i \in 1 .. Len(made'[a])
          PROVE  /\ made'[a][i][1] = a
                 /\ made'[a][i][2] <= starts'[a]
                 /\ made'[a][i][2] = starts'[a] => made'[a][i][3] < next_sequence'[a]
      <3>1. CASE i \in 1 .. n
        BY <1>0, <1>3, <1>5, <1>6, <2>2, <3>1 DEF AgentIsSound, BatchesAreFresh
      <3>2. CASE i = n + 1
        BY <1>3, <1>4, <1>5, <1>6, <3>2
      <3>3. QED
        BY <1>6, <3>1, <3>2
    <2>4. ASSUME NEW i \in 1 .. Len(made'[a]), NEW j \in 1 .. Len(made'[a]),
                 made'[a][i] = made'[a][j]
          PROVE  i = j
      <3>1. CASE i \in 1 .. n /\ j \in 1 .. n
        BY <1>0, <1>3, <1>6, <2>4, <3>1 DEF AgentIsSound, BatchesAreFresh
      <3>2. CASE i = n + 1 \/ j = n + 1
        BY <1>6, <2>1, <2>4, <3>2
      <3>3. QED
        BY <1>6, <3>1, <3>2
    <2>5. QED
      BY <2>3, <2>4 DEF BatchesAreFresh
  <1>12. p > 0 => Last(pending[a]).id = made[a][n] /\ made[a][n][2] = starts[a]
    <2>1. SUFFICES ASSUME p > 0 PROVE Last(pending[a]).id = made[a][n] /\ made[a][n][2] = starts[a]
      OBVIOUS
    <2>2. Last(pending[a]) = pending[a][p]
      BY <1>0, <1>3, <2>1, LastSeq
    <2>3. Base(a) + p = n /\ p \in 1 .. p
      BY <1>6, <1>7, <1>8, <2>1
    <2>4. IsBatchAt(a, pending[a][p], Base(a) + p) /\ made[a][Base(a) + p][2] = starts[a]
      BY <1>0, <1>3, <2>3 DEF AgentIsSound, QueueIsEnd
    <2>5. QED
      BY <2>2, <2>3, <2>4 DEF IsBatchAt
  <1>13. IsBatchAt(a, b, n + 1)'
    <2>1. b.previous = IF n + 1 = 1 \/ id[2] # made[a][n][2] THEN NoBatch ELSE made[a][n]
      <3>1. CASE p > 0
        <4>1. pending[a] # <<>> /\ n # 0
          BY <1>0, <1>3, <1>6, <1>7, <1>8, <3>1
        <4>2. QED
          BY <1>4, <1>6, <1>12, <3>1, <4>1
      <3>2. CASE p = 0
        <4>1. pending[a] = <<>>
          BY <1>0, <1>3, <3>2, LastSeq
        <4>2. last_batch_id[a]
                = IF n > 0 /\ made[a][n][2] = starts[a] THEN made[a][n] ELSE NoBatch
          BY <1>0, <1>3, <4>1 DEF AgentIsSound, LinkIsLast
        <4>3. QED
          BY <1>4, <1>6, <4>1, <4>2
      <3>3. QED
        BY <1>7, <3>1, <3>2
    <2>2. FirstAt(a, n + 1)' = (n + 1 = 1 \/ id[2] # made[a][n][2])
      <3>1. n # 0 => made'[a][n] = made[a][n]
        BY <1>6
      <3>2. (n + 1) - 1 = n
        BY <1>6
      <3>3. QED
        BY <1>6, <3>1, <3>2 DEF FirstAt
    <2>3. n # 0 => made'[a][(n + 1) - 1] = made[a][n]
      BY <1>6
    <2>4. n + 1 \in 1 .. Len(made'[a])
      BY <1>6
    <2>5. b.previous = (IF FirstAt(a, n + 1) THEN NoBatch ELSE made[a][(n + 1) - 1])'
      <3>1. CASE n + 1 = 1 \/ id[2] # made[a][n][2]
        <4>1. FirstAt(a, n + 1)'
          BY <2>2, <3>1
        <4>2. QED
          BY <2>1, <3>1, <4>1
      <3>2. CASE ~(n + 1 = 1 \/ id[2] # made[a][n][2])
        <4>1. ~FirstAt(a, n + 1)'
          BY <2>2, <3>2
        <4>2. n # 0
          BY <3>2
        <4>3. QED
          BY <2>1, <2>3, <3>2, <4>1, <4>2
      <3>3. QED
        BY <3>1, <3>2
    <2>6. QED
      BY <1>2, <1>4, <1>6, <2>4, <2>5 DEF IsBatchAt
  <1>14. QueueIsEnd(a)'
    <2>1. Len(pending'[a]) <= Len(made'[a])
      BY <1>6, <1>7, <1>8
    <2>2. \A m, i : IsBatchAt(a, m, i) => IsBatchAt(a, m, i)'
      BY <1>9, BatchStays
    <2>3. ASSUME NEW j \in 1 .. Len(pending'[a])
          PROVE  /\ IsBatchAt(a, pending[a][j], Base(a) + j)'
                 /\ (made[a][Base(a) + j][2] = starts[a])'
      <3>1. CASE j \in 1 .. p
        <4>1. IsBatchAt(a, pending[a][j], Base(a) + j) /\ made[a][Base(a) + j][2] = starts[a]
          BY <1>0, <1>3, <3>1 DEF AgentIsSound, QueueIsEnd
        <4>2. made'[a][Base(a) + j] = made[a][Base(a) + j]
          BY <1>6, <1>7, <1>8, <3>1
        <4>3. pending'[a][j] = pending[a][j]
          BY <1>7, <3>1
        <4>4. QED
          BY <1>5, <1>8, <2>2, <4>1, <4>2, <4>3
      <3>2. CASE j = p + 1
        <4>1. (Base(a) + j)' = n + 1
          BY <1>6, <1>7, <1>8, <3>2
        <4>2. pending'[a][j] = b
          BY <1>7, <3>2
        <4>3. QED
          BY <1>4, <1>5, <1>6, <1>13, <4>1, <4>2
      <3>3. QED
        BY <1>7, <3>1, <3>2
    <2>4. QED
      BY <2>1, <2>3 DEF QueueIsEnd
  <1>15. AcknowledgedAreBefore(a)'
    <2>1. \A i \in 1 .. Base(a) : made'[a][i] = made[a][i]
      BY <1>6, <1>8
    <2>2. QED
      BY <1>3, <1>5, <1>8, <2>1 DEF AgentIsSound, AcknowledgedAreBefore
  <1>16. LinkIsLast(a)'
    BY <1>7 DEF LinkIsLast
  <1>17. AgentIsSound(a)'
    BY <1>11, <1>14, <1>15, <1>16 DEF AgentIsSound
  <1>18. LostOf(a)' = LostOf(a)
    <2>1. ToSet(made[a])' = ToSet(made[a]) \cup {id}
      <3>1. ToSet(made[a]) = {made[a][i] : i \in 1 .. n}
        BY <1>0, QueueOfMade
      <3>2. ToSet(made'[a]) = {made'[a][i] : i \in 1 .. n + 1}
        BY <1>6, LastSeq
      <3>3. QED
        BY <1>6, <3>1, <3>2
    <2>2. ToSet(Ids(pending[a]))' = ToSet(Ids(pending[a])) \cup {id}
      <3>1. ToSet(Ids(pending[a])) = {pending[a][j].id : j \in 1 .. p}
        BY <1>0, <1>3, IdsSeq
      <3>2. ToSet(Ids(pending'[a])) = {pending'[a][j].id : j \in 1 .. p + 1}
        BY <1>7, IdsSeq
      <3>3. QED
        BY <1>4, <1>7, <3>1, <3>2
    <2>3. QED
      BY <1>2, <1>5, <2>1, <2>2 DEF LostOf
  <1>19. BeginsOf(a)' = BeginsOf(a)
    <2>1. /\ \A i \in 1 .. n : ObjectAt(a, i) = made[a][i][2] /\ ObjectAt(a, i)' = made[a][i][2]
          /\ ObjectAt(a, n + 1) = starts[a] /\ ObjectAt(a, n + 1)' = starts[a]
          /\ ObjectAt(a, n + 2)' = starts[a]
      <3>1. DOMAIN made[a] = 1 .. n /\ DOMAIN made'[a] = 1 .. n + 1
        BY <1>0, <1>3, <1>6
      <3>2. QED
        BY <1>4, <1>5, <1>6, <3>1 DEF ObjectAt
    <2>2. BeginsOf(a) = {i \in 1 .. n + 1 : i = 1 \/ ObjectAt(a, i) # ObjectAt(a, i - 1)}
      BY <1>0 DEF BeginsOf
    <2>3. BeginsOf(a)' = {i \in 1 .. n + 2 : i = 1 \/ ObjectAt(a, i)' # ObjectAt(a, i - 1)'}
      BY <1>6 DEF BeginsOf
    <2>4. \A i \in 1 .. n + 1 : ObjectAt(a, i)' = ObjectAt(a, i)
      BY <1>6, <2>1
    <2>5. n + 2 \notin BeginsOf(a)'
      BY <1>6, <2>1, <2>3
    <2>6. QED
      BY <1>6, <2>2, <2>3, <2>4, <2>5
  <1>20. \A c \in Agents \ {a} :
           AgentIsSound(c)' /\ Grows(c) /\ LostOf(c)' = LostOf(c) /\ BeginsOf(c)' = BeginsOf(c)
    <2>1. \A c \in Agents \ {a} : /\ SameQueue(c)
                                  /\ next_sequence'[c] = next_sequence[c]
                                  /\ next_sequence[c] \in Nat
      BY <1>1 DEF AgentsAreSound, AgentTypes, TakeSequence, SameQueue
    <2>2. QED
      BY <2>1, SameQueueKeeps
  <1>21. Pipe!Produce(a)
    <2>1. \A c \in Agents : StoredOf(c)' = StoredOf(c)
      BY DEF StoredOf, BatchIds
    <2>2. QED
      BY <1>0, <1>1, <1>2, <1>5, <1>18, <1>19, <1>20, <2>1, PipeProduce
  <1>22. QED
    BY <1>9, <1>10, <1>17, <1>20, <1>21, SentStays DEF AgentsAreSound

(* The head of a queue may be sent. *)
HeadsMayBeSent ==
  \A a \in Agents :
    pending[a] # <<>> =>
      MayBeSent(Head(pending[a])) /\ Head(pending[a]).agent = a /\ IsBatch(Head(pending[a]))

LEMMA HeadMayBeSent == AgentsAreSound => HeadsMayBeSent
  <1>1. SUFFICES ASSUME AgentsAreSound, NEW a \in Agents, pending[a] # <<>>
                 PROVE  /\ MayBeSent(Head(pending[a])) /\ Head(pending[a]).agent = a
                        /\ IsBatch(Head(pending[a]))
    BY DEF HeadsMayBeSent
  <1>2. pending[a] \in Seq(Message) /\ AgentIsSound(a)
    BY <1>1 DEF AgentsAreSound, AgentTypes
  <1>3. PICK m : m = Head(pending[a])
    OBVIOUS
  <1>4. m \in Message /\ m = pending[a][1] /\ 1 \in 1 .. Len(pending[a])
    BY <1>1, <1>2, <1>3, TailSeq
  <1>5. IsBatchAt(a, m, Base(a) + 1)
    BY <1>2, <1>4 DEF AgentIsSound, QueueIsEnd
  <1>6. m.agent = a /\ IsBatch(m) /\ Base(a) + 1 \in 1 .. Base(a) + 1
    BY <1>1, <1>5, QueueOfMade DEF IsBatchAt
  <1>7. MayBeSent(m)
    BY <1>4, <1>5, <1>6 DEF MayBeSent
  <1>8. QED
    BY <1>3, <1>6, <1>7

(* A heartbeat takes a sequence and leaves the queue alone. *)
LEMMA HeartbeatStep ==
  ASSUME AgentsAreSound, clock \in Nat, NEW a \in Agents, TakeSequence(a),
         UNCHANGED <<last_batch_id, pending, starts, made, acknowledged>>
  PROVE  /\ AgentsAreSound'
         /\ \A c \in Agents : LostOf(c)' = LostOf(c) /\ BeginsOf(c)' = BeginsOf(c)
         /\ \A m : MayBeSent(m) => MayBeSent(m)'
         /\ NewHeartbeat(a) \in Message
  <1>0. MaxSequence \in Nat /\ Offset \in [Agents -> Int]
    BY NodeAgentAssumption
  <1>1. /\ AgentTypes /\ next_sequence[a] \in 0 .. MaxSequence - 1
        /\ next_sequence' = [next_sequence EXCEPT ![a] = @ + 1]
    <2>1. AgentTypes /\ next_sequence[a] \in 0 .. MaxSequence /\ next_sequence[a] < MaxSequence
      BY DEF AgentsAreSound, AgentTypes, TakeSequence
    <2>2. QED
      BY <1>0, <2>1 DEF TakeSequence
  <1>2. \A c \in Agents : /\ SameQueue(c)
                          /\ next_sequence'[c] \in Nat /\ next_sequence[c] <= next_sequence'[c]
    BY <1>1 DEF AgentTypes, SameQueue
  <1>3. AgentTypes'
    <2>1. next_sequence[a] + 1 \in 0 .. MaxSequence
      BY <1>0, <1>1
    <2>2. QED
      BY <1>1, <2>1 DEF AgentTypes
  <1>4. \A c \in Agents : /\ AgentIsSound(c)' /\ Grows(c)
                          /\ LostOf(c)' = LostOf(c) /\ BeginsOf(c)' = BeginsOf(c)
    BY <1>2, SameQueueKeeps
  <1>5. NewHeartbeat(a) \in Message
    <2>1. FreshId(a) \in MessageIds
      BY <1>1, NewId DEF FreshId, AgentTypes
    <2>2. AgentClock(a) \in Int /\ last_batch_id[a] \in MessageIds \cup {NoBatch}
      BY <1>0, <1>1 DEF AgentClock, AgentTypes
    <2>3. QED
      BY <1>1, <2>1, <2>2 DEF NewHeartbeat, Message, Envelopes
  <1>6. QED
    BY <1>3, <1>4, <1>5, SentStays DEF AgentsAreSound

(* flush removes the head of the queue, which the service received. *)
LEMMA PopStep ==
  ASSUME AgentsAreSound, NEW a \in Agents, pending[a] # <<>>, Head(pending[a]).id \in received,
         PopPending(a), UNCHANGED <<received, accepted_samples_by_agent>>
  PROVE  /\ AgentsAreSound'
         /\ Pipe!Acknowledge(a)
         /\ \A m : MayBeSent(m) => MayBeSent(m)'
  <1>0. PICK n, p, id :
          n = Len(made[a]) /\ p = Len(pending[a]) /\ id = Head(pending[a]).id
    OBVIOUS
  <1>1. /\ made[a] \in Seq(MessageIds) /\ pending[a] \in Seq(Message)
        /\ acknowledged[a] \in Seq(MessageIds)
        /\ AgentTypes /\ AgentIsSound(a)
    BY DEF AgentsAreSound, AgentTypes
  <1>2. /\ pending'[a] = Tail(pending[a])
        /\ acknowledged'[a] = Append(acknowledged[a], id)
        /\ last_batch_id'[a] = id
        /\ made' = made /\ starts' = starts /\ next_sequence' = next_sequence
    BY <1>0, <1>1 DEF PopPending, AgentTypes
  <1>3. /\ p \in Nat \ {0} /\ n \in Nat /\ Len(pending'[a]) = p - 1
        /\ \A j \in 1 .. p - 1 : pending'[a][j] = pending[a][j + 1]
        /\ pending'[a] \in Seq(Message)
        /\ Head(pending[a]) = pending[a][1]
    BY <1>0, <1>1, <1>2, TailSeq
  <1>4. Base(a) = n - p /\ Base(a)' = Base(a) + 1 /\ Base(a) \in 0 .. n
    <2>1. Base(a) = n - p
      BY <1>0 DEF Base
    <2>2. Base(a)' = n - (p - 1)
      BY <1>0, <1>2, <1>3 DEF Base
    <2>3. Base(a) \in 0 .. n
      BY <1>0, QueueOfMade
    <2>4. QED
      BY <1>3, <2>1, <2>2, <2>3
  <1>5. /\ id = made[a][Base(a) + 1] /\ made[a][Base(a) + 1][2] = starts[a]
        /\ Base(a) + 1 \in 1 .. n /\ id \in MessageIds
    <2>1. 1 \in 1 .. Len(pending[a])
      BY <1>0, <1>3
    <2>2. IsBatchAt(a, pending[a][1], Base(a) + 1) /\ made[a][Base(a) + 1][2] = starts[a]
      BY <1>1, <2>1 DEF AgentIsSound, QueueIsEnd
    <2>3. Base(a) + 1 \in 1 .. n
      BY <1>3, <1>4
    <2>4. QED
      BY <1>0, <1>1, <1>3, <2>2, <2>3, LastSeq DEF IsBatchAt
  <1>6. Grows(a)
    BY <1>0, <1>2, <1>3, <1>4 DEF Grows
  <1>7. AgentTypes'
    <2>1. Append(acknowledged[a], id) \in Seq(MessageIds)
      BY <1>1, <1>5, AppendSeq
    <2>2. acknowledged' \in [Agents -> Seq(MessageIds)]
      BY <1>0, <1>1, <2>1 DEF AgentTypes, PopPending
    <2>3. pending' \in [Agents -> Seq(Message)]
      BY <1>1, <1>2, <1>3 DEF AgentTypes, PopPending
    <2>4. last_batch_id' \in [Agents -> MessageIds \cup {NoBatch}]
      BY <1>0, <1>1, <1>5 DEF AgentTypes, PopPending
    <2>5. QED
      BY <1>1, <1>2, <2>2, <2>3, <2>4 DEF AgentTypes
  <1>8. BatchesAreFresh(a)'
    BY <1>1, <1>2 DEF AgentIsSound, BatchesAreFresh
  <1>9. QueueIsEnd(a)'
    <2>1. Len(pending'[a]) <= Len(made'[a])
      BY <1>0, <1>2, <1>3, <1>4
    <2>2. \A m, i : IsBatchAt(a, m, i) => IsBatchAt(a, m, i)'
      BY <1>6, BatchStays
    <2>3. ASSUME NEW j \in 1 .. Len(pending'[a])
          PROVE  /\ IsBatchAt(a, pending[a][j], Base(a) + j)'
                 /\ (made[a][Base(a) + j][2] = starts[a])'
      <3>1. j + 1 \in 1 .. p /\ j \in 1 .. p - 1 /\ Base(a) + (j + 1) = (Base(a) + 1) + j
        BY <1>3, <1>4
      <3>2. /\ IsBatchAt(a, pending[a][j + 1], Base(a) + (j + 1))
            /\ made[a][Base(a) + (j + 1)][2] = starts[a]
        BY <1>0, <1>1, <3>1 DEF AgentIsSound, QueueIsEnd
      <3>3. PICK m, i : m = pending[a][j + 1] /\ i = Base(a) + (j + 1)
        OBVIOUS
      <3>4. IsBatchAt(a, m, i)'
        BY <2>2, <3>2, <3>3
      <3>5. m = pending'[a][j] /\ i = Base(a)' + j
        BY <1>3, <1>4, <3>1, <3>3
      <3>6. QED
        BY <1>2, <3>2, <3>3, <3>4, <3>5
    <2>4. QED
      BY <2>1, <2>3 DEF QueueIsEnd
  <1>10. AcknowledgedAreBefore(a)'
    <2>1. ASSUME NEW k \in 1 .. Len(acknowledged'[a])
          PROVE  \E i \in 1 .. Base(a) + 1 : made[a][i] = acknowledged'[a][k]
      <3>1. CASE k \in 1 .. Len(acknowledged[a])
        <4>1. acknowledged'[a][k] = acknowledged[a][k]
          BY <1>1, <1>2, <1>5, <3>1, AppendSeq
        <4>2. PICK i \in 1 .. Base(a) : made[a][i] = acknowledged[a][k]
          BY <1>1, <3>1 DEF AgentIsSound, AcknowledgedAreBefore
        <4>3. i \in 1 .. Base(a) + 1
          BY <1>4
        <4>4. QED
          BY <4>1, <4>2, <4>3
      <3>2. CASE k = Len(acknowledged[a]) + 1
        <4>1. acknowledged'[a][k] = id
          BY <1>1, <1>2, <1>5, <3>2, AppendSeq
        <4>2. Base(a) + 1 \in 1 .. Base(a) + 1
          BY <1>4
        <4>3. QED
          BY <1>5, <4>1, <4>2
      <3>3. QED
        BY <1>1, <1>2, <1>5, <3>1, <3>2, AppendSeq
    <2>2. QED
      BY <1>2, <1>4, <2>1 DEF AcknowledgedAreBefore
  <1>11. LinkIsLast(a)'
    <2>1. SUFFICES ASSUME pending'[a] = <<>>
                   PROVE  id = made[a][n] /\ n > 0 /\ made[a][n][2] = starts[a]
      BY <1>0, <1>2 DEF LinkIsLast
    <2>2. Base(a) + 1 = n
      BY <1>3, <1>4, <2>1
    <2>3. QED
      BY <1>3, <1>5, <2>2
  <1>12. AgentIsSound(a)'
    BY <1>8, <1>9, <1>10, <1>11 DEF AgentIsSound
  <1>13. LostOf(a)' = LostOf(a) /\ BeginsOf(a)' = BeginsOf(a)
    <2>1. ToSet(acknowledged'[a]) = ToSet(acknowledged[a]) \cup {id}
      <3>1. /\ ToSet(acknowledged[a]) = {acknowledged[a][i] : i \in 1 .. Len(acknowledged[a])}
            /\ Len(acknowledged[a]) \in Nat
        BY <1>1, LastSeq
      <3>2. /\ acknowledged'[a] \in Seq(MessageIds)
            /\ Len(acknowledged'[a]) = Len(acknowledged[a]) + 1
            /\ acknowledged'[a][Len(acknowledged[a]) + 1] = id
            /\ \A i \in 1 .. Len(acknowledged[a]) : acknowledged'[a][i] = acknowledged[a][i]
        BY <1>1, <1>2, <1>5, AppendSeq
      <3>3. ToSet(acknowledged'[a]) = {acknowledged'[a][i] : i \in 1 .. Len(acknowledged[a]) + 1}
        BY <3>2, LastSeq
      <3>4. QED
        BY <3>1, <3>2, <3>3
    <2>2. ToSet(Ids(pending[a])) = ToSet(Ids(pending'[a])) \cup {id}
      <3>1. ToSet(Ids(pending[a])) = {pending[a][j].id : j \in 1 .. p}
        BY <1>0, <1>1, IdsSeq
      <3>2. ToSet(Ids(pending'[a])) = {pending'[a][j].id : j \in 1 .. p - 1}
        BY <1>3, IdsSeq
      <3>3. ASSUME NEW j \in 1 .. p
            PROVE  pending[a][j].id = id \/ \E k \in 1 .. p - 1 : pending'[a][k] = pending[a][j]
        <4>1. CASE j = 1
          BY <1>0, <1>3, <4>1
        <4>2. CASE j # 1
          <5>1. j - 1 \in 1 .. p - 1 /\ (j - 1) + 1 = j
            BY <1>3, <4>2
          <5>2. QED
            BY <1>3, <5>1
        <4>3. QED
          BY <4>1, <4>2
      <3>4. \A k \in 1 .. p - 1 : pending'[a][k] = pending[a][k + 1] /\ k + 1 \in 1 .. p
        BY <1>3
      <3>5. id = pending[a][1].id /\ 1 \in 1 .. p
        BY <1>0, <1>3
      <3>6. QED
        BY <3>1, <3>2, <3>3, <3>4, <3>5
    <2>3. LostOf(a)' = LostOf(a)
      BY <1>2, <2>1, <2>2 DEF LostOf
    <2>4. QED
      BY <1>2, <2>3 DEF BeginsOf, ObjectAt
  <1>14. \A c \in Agents \ {a} :
           AgentIsSound(c)' /\ Grows(c) /\ LostOf(c)' = LostOf(c) /\ BeginsOf(c)' = BeginsOf(c)
    <2>1. \A c \in Agents \ {a} : /\ SameQueue(c)
                                  /\ next_sequence'[c] = next_sequence[c]
                                  /\ next_sequence[c] \in Nat
      BY <1>1 DEF AgentTypes, PopPending, SameQueue
    <2>2. QED
      BY <2>1, SameQueueKeeps
  <1>15. Pipe!Acknowledge(a)
    <2>1. \A c \in Agents : StoredOf(c)' = StoredOf(c)
      BY DEF StoredOf, BatchIds
    <2>2. \A c \in Agents : LostOf(c)' = LostOf(c) /\ BeginsOf(c)' = BeginsOf(c)
      BY <1>13, <1>14
    <2>3. /\ Base(a) + 1 \in Pipe!Kept(a)
          /\ \A j \in Pipe!Kept(a) : Base(a) + 1 <= j
      <3>1. Pipe!Kept(a) = Base(a) + 1 .. n
        BY <1>0, KeptIsQueue
      <3>2. QED
        BY <1>3, <1>4, <1>5, <3>1
    <2>4. acknowledged' = [acknowledged EXCEPT ![a] = Append(@, made[a][Base(a) + 1])]
      BY <1>0, <1>5 DEF PopPending
    <2>5. made[a][Base(a) + 1] \in received
      BY <1>0, <1>5
    <2>6. QED
      BY <1>2, <2>1, <2>2, <2>3, <2>4, <2>5, PipeAcknowledge
  <1>16. QED
    BY <1>6, <1>7, <1>12, <1>14, <1>15, SentStays DEF AgentsAreSound

(* A new object takes the place of the agent: its queue is lost. *)
LEMMA StartStep ==
  ASSUME AgentsAreSound, NEW a \in Agents, StartAgain(a),
         UNCHANGED <<received, accepted_samples_by_agent>>
  PROVE  /\ AgentsAreSound'
         /\ Pipe!Restart(a)
         /\ \A m : MayBeSent(m) => MayBeSent(m)'
  <1>0. PICK n : n = Len(made[a])
    OBVIOUS
  <1>1. /\ made[a] \in Seq(MessageIds) /\ pending[a] \in Seq(Message)
        /\ AgentTypes /\ AgentIsSound(a) /\ n \in Nat
        /\ starts[a] \in Nat
    BY <1>0 DEF AgentsAreSound, AgentTypes
  <1>2. /\ pending'[a] = <<>> /\ starts'[a] = starts[a] + 1
        /\ last_batch_id'[a] = NoBatch /\ next_sequence'[a] = 0
        /\ made' = made /\ acknowledged' = acknowledged
    BY <1>1 DEF StartAgain, AgentTypes
  <1>3. Base(a)' = n /\ Base(a) \in 0 .. n
    <2>1. Len(pending'[a]) = 0
      BY <1>2
    <2>2. Base(a)' = n - 0
      BY <1>0, <1>2, <2>1 DEF Base
    <2>3. Base(a) \in 0 .. n
      BY <1>0, QueueOfMade
    <2>4. QED
      BY <1>1, <2>2, <2>3
  <1>4. Grows(a)
    BY <1>0, <1>1, <1>2, <1>3 DEF Grows
  <1>5. AgentTypes'
    <2>1. starts[a] + 1 \in 0 .. MaxStarts /\ 0 \in 0 .. MaxSequence
      BY <1>1, NodeAgentAssumption DEF AgentTypes, StartAgain
    <2>2. <<>> \in Seq(Message)
      OBVIOUS
    <2>3. QED
      BY <1>1, <1>2, <2>1, <2>2 DEF AgentTypes, StartAgain
  <1>6. \A i \in 1 .. n : made[a][i][2] <= starts[a] /\ made[a][i][2] \in Nat
    <2>1. \A i \in 1 .. n : made[a][i] \in MessageIds
      BY <1>0, <1>1
    <2>2. QED
      BY <1>0, <1>1, <2>1, IdParts DEF AgentIsSound, BatchesAreFresh
  <1>7. BatchesAreFresh(a)'
    <2>1. \A i \in 1 .. n : made[a][i][2] <= starts[a] + 1 /\ made[a][i][2] # starts[a] + 1
      BY <1>1, <1>6
    <2>2. QED
      BY <1>0, <1>1, <1>2, <2>1 DEF AgentIsSound, BatchesAreFresh
  <1>8. QueueIsEnd(a)'
    <2>1. Len(pending'[a]) = 0
      BY <1>2
    <2>2. QED
      BY <1>0, <1>1, <1>2, <2>1 DEF QueueIsEnd
  <1>9. AcknowledgedAreBefore(a)'
    <2>1. ASSUME NEW k \in 1 .. Len(acknowledged[a])
          PROVE  \E i \in 1 .. n : made[a][i] = acknowledged[a][k]
      <3>1. PICK i \in 1 .. Base(a) : made[a][i] = acknowledged[a][k]
        BY <1>1 DEF AgentIsSound, AcknowledgedAreBefore
      <3>2. i \in 1 .. n
        BY <1>1, <1>3
      <3>3. QED
        BY <3>1, <3>2
    <2>2. QED
      BY <1>2, <1>3, <2>1 DEF AcknowledgedAreBefore
  <1>10. LinkIsLast(a)'
    <2>1. n > 0 => made[a][n][2] # starts[a] + 1
      <3>1. n > 0 => n \in 1 .. n
        BY <1>1
      <3>2. QED
        BY <1>1, <1>6, <3>1
    <2>2. QED
      BY <1>0, <1>2, <2>1 DEF LinkIsLast
  <1>11. AgentIsSound(a)'
    BY <1>7, <1>8, <1>9, <1>10 DEF AgentIsSound
  <1>12. LostOf(a)' = LostOf(a) \cup {made[a][i] : i \in Pipe!Kept(a)}
    <2>1. {made[a][i] : i \in Pipe!Kept(a)} = ToSet(Ids(pending[a]))
      BY KeptIsQueue, QueueOfMade
    <2>2. \A x \in ToSet(Ids(pending[a])) : x \notin ToSet(acknowledged[a]) /\ x \in ToSet(made[a])
      <3>1. ASSUME NEW i \in Base(a) + 1 .. n
            PROVE  made[a][i] \notin ToSet(acknowledged[a]) /\ made[a][i] \in ToSet(made[a])
        <4>1. i \in 1 .. n
          BY <1>1, <1>3
        <4>2. \A j \in 1 .. Base(a) : j \in 1 .. n /\ j # i
          BY <1>1, <1>3
        <4>3. \A j \in 1 .. Base(a) : made[a][j] # made[a][i]
          BY <1>0, <1>1, <4>1, <4>2 DEF AgentIsSound, BatchesAreFresh
        <4>4. /\ ToSet(acknowledged[a]) \subseteq {made[a][j] : j \in 1 .. Base(a)}
              /\ ToSet(made[a]) = {made[a][j] : j \in 1 .. n}
          BY <1>0, QueueOfMade
        <4>5. made[a][i] \notin {made[a][j] : j \in 1 .. Base(a)}
          BY <4>3
        <4>6. made[a][i] \in {made[a][j] : j \in 1 .. n}
          BY <4>1
        <4>7. QED
          BY <4>4, <4>5, <4>6
      <3>2. ToSet(Ids(pending[a])) = {made[a][i] : i \in Base(a) + 1 .. n}
        BY <1>0, QueueOfMade
      <3>3. QED
        BY <3>1, <3>2
    <2>3. ToSet(Ids(pending'[a])) = {}
      BY <1>2 DEF ToSet, Ids
    <2>4. QED
      BY <1>2, <2>1, <2>2, <2>3 DEF LostOf
  <1>13. BeginsOf(a)' = BeginsOf(a) \cup {n + 1}
    <2>1. DOMAIN made[a] = 1 .. n
      BY <1>0, <1>1
    <2>2. \A i \in 1 .. n : ObjectAt(a, i) = made[a][i][2] /\ ObjectAt(a, i)' = made[a][i][2]
      BY <1>2, <2>1 DEF ObjectAt
    <2>3. ObjectAt(a, n + 1)' = starts[a] + 1
      BY <1>1, <1>2, <2>1 DEF ObjectAt
    <2>4. BeginsOf(a) = {i \in 1 .. n + 1 : i = 1 \/ ObjectAt(a, i) # ObjectAt(a, i - 1)}
      BY <1>0 DEF BeginsOf
    <2>5. BeginsOf(a)' = {i \in 1 .. n + 1 : i = 1 \/ ObjectAt(a, i)' # ObjectAt(a, i - 1)'}
      BY <1>0, <1>2 DEF BeginsOf
    <2>6. ASSUME NEW i \in 1 .. n
          PROVE  i \in BeginsOf(a)' <=> i \in BeginsOf(a)
      <3>1. i = 1 \/ i - 1 \in 1 .. n
        BY <1>1
      <3>2. i \in 1 .. n + 1
        BY <1>1
      <3>3. QED
        BY <2>2, <2>4, <2>5, <3>1, <3>2
    <2>7. n + 1 \in BeginsOf(a)'
      <3>1. CASE n = 0
        BY <2>5, <3>1
      <3>2. CASE n # 0
        <4>1. n \in 1 .. n /\ (n + 1) - 1 = n /\ n + 1 \in 1 .. n + 1
          BY <1>1, <3>2
        <4>2. ObjectAt(a, n)' # starts[a] + 1
          BY <1>1, <1>6, <2>2, <4>1
        <4>3. QED
          BY <2>3, <2>5, <4>1, <4>2
      <3>3. QED
        BY <3>1, <3>2
    <2>8. \A i \in 1 .. n + 1 : i \in 1 .. n \/ i = n + 1
      BY <1>1
    <2>9. QED
      BY <2>4, <2>5, <2>6, <2>7, <2>8
  <1>14. \A c \in Agents \ {a} :
           AgentIsSound(c)' /\ Grows(c) /\ LostOf(c)' = LostOf(c) /\ BeginsOf(c)' = BeginsOf(c)
    <2>1. \A c \in Agents \ {a} : /\ SameQueue(c)
                                  /\ next_sequence'[c] = next_sequence[c]
                                  /\ next_sequence[c] \in Nat
      BY <1>1 DEF AgentTypes, StartAgain, SameQueue
    <2>2. QED
      BY <2>1, SameQueueKeeps
  <1>15. Pipe!Restart(a)
    <2>1. \A c \in Agents : StoredOf(c)' = StoredOf(c)
      BY DEF StoredOf, BatchIds
    <2>2. QED
      BY <1>0, <1>2, <1>12, <1>13, <1>14, <2>1, PipeRestart
  <1>16. QED
    BY <1>4, <1>5, <1>11, <1>14, <1>15, SentStays DEF AgentsAreSound

-----------------------------------------------------------------------------
(* The operations of the service *)

LEMMA BatchIdsSeq ==
  ASSUME NEW list \in Seq(SampleEntry)
  PROVE  BatchIds(list) \in Seq(MessageIds)
  <1>1. DOMAIN list = 1 .. Len(list) /\ Len(list) \in Nat
    OBVIOUS
  <1>2. \A i \in 1 .. Len(list) : list[i] \in SampleEntry
    OBVIOUS
  <1>3. \A i \in 1 .. Len(list) : list[i].batch \in MessageIds
    BY <1>2 DEF SampleEntry
  <1>4. [i \in 1 .. Len(list) |-> list[i].batch] \in [1 .. Len(list) -> MessageIds]
    BY <1>3
  <1>5. \A n \in Nat : \A f \in [1 .. n -> MessageIds] : f \in Seq(MessageIds)
    OBVIOUS
  <1>6. QED
    BY <1>1, <1>4, <1>5 DEF BatchIds

LEMMA BatchIdsAppend ==
  ASSUME NEW list \in Seq(SampleEntry), NEW e \in SampleEntry
  PROVE  /\ BatchIds(Append(list, e)) = Append(BatchIds(list), e.batch)
         /\ Len(BatchIds(list)) = Len(list)
         /\ (BatchIds(list) = <<>>) = (list = <<>>)
         /\ \A i \in 1 .. Len(list) : BatchIds(list)[i] = list[i].batch
  <1>1. /\ Append(list, e) \in Seq(SampleEntry)
        /\ DOMAIN list = 1 .. Len(list) /\ DOMAIN Append(list, e) = 1 .. Len(list) + 1
        /\ Len(list) \in Nat
    OBVIOUS
  <1>2. /\ \A i \in 1 .. Len(list) : Append(list, e)[i] = list[i]
        /\ Append(list, e)[Len(list) + 1] = e
    BY AppendSeq
  <1>3. BatchIds(list) \in Seq(MessageIds)
    BY BatchIdsSeq
  <1>4. Len(BatchIds(list)) = Len(list)
    BY <1>1, <1>3 DEF BatchIds
  <1>5. e.batch \in MessageIds
    BY DEF SampleEntry
  <1>6. BatchIds(Append(list, e)) \in Seq(MessageIds)
    BY <1>1, BatchIdsSeq
  <1>7. Len(BatchIds(Append(list, e))) = Len(list) + 1
    BY <1>1, <1>6 DEF BatchIds
  <1>8. Append(BatchIds(list), e.batch) \in Seq(MessageIds)
    BY <1>3, <1>5
  <1>9. \A i \in 1 .. Len(list) + 1 :
          BatchIds(Append(list, e))[i] = Append(BatchIds(list), e.batch)[i]
    <2>1. \A i \in 1 .. Len(list) + 1 :
            BatchIds(Append(list, e))[i] = Append(list, e)[i].batch
      BY <1>1 DEF BatchIds
    <2>2. \A i \in 1 .. Len(list) : BatchIds(list)[i] = list[i].batch
      BY <1>1 DEF BatchIds
    <2>3. /\ \A i \in 1 .. Len(list) : Append(BatchIds(list), e.batch)[i] = BatchIds(list)[i]
          /\ Append(BatchIds(list), e.batch)[Len(list) + 1] = e.batch
      BY <1>3, <1>4, <1>5, AppendSeq
    <2>4. QED
      <3>1. ASSUME NEW i \in 1 .. Len(list)
            PROVE  BatchIds(Append(list, e))[i] = Append(BatchIds(list), e.batch)[i]
        <4>1. i \in 1 .. Len(list) + 1
          BY <1>1
        <4>2. QED
          BY <1>2, <2>1, <2>2, <2>3, <4>1
      <3>2. BatchIds(Append(list, e))[Len(list) + 1] = Append(BatchIds(list), e.batch)[Len(list) + 1]
        <4>1. Len(list) + 1 \in 1 .. Len(list) + 1
          BY <1>1
        <4>2. QED
          BY <1>2, <2>1, <2>3, <4>1
      <3>3. \A i \in 1 .. Len(list) + 1 : i \in 1 .. Len(list) \/ i = Len(list) + 1
        BY <1>1
      <3>4. QED
        BY <3>1, <3>2, <3>3
  <1>10. Len(Append(BatchIds(list), e.batch)) = Len(list) + 1
    BY <1>3, <1>4, <1>5, AppendSeq
  <1>11. BatchIds(Append(list, e)) = Append(BatchIds(list), e.batch)
    BY <1>6, <1>7, <1>8, <1>9, <1>10
  <1>12. (BatchIds(list) = <<>>) = (list = <<>>)
    BY <1>3, <1>4, LastSeq
  <1>13. QED
    BY <1>1, <1>4, <1>11, <1>12 DEF BatchIds

(* Whatever the service does, the agents are as they were. *)
LEMMA AgentsStay ==
  ASSUME AgentsAreSound, UNCHANGED agentVars
  PROVE  /\ AgentsAreSound'
         /\ \A c \in Agents : LostOf(c)' = LostOf(c) /\ BeginsOf(c)' = BeginsOf(c)
         /\ \A m : MayBeSent(m) => MayBeSent(m)'
  <1>1. \A c \in Agents : /\ SameQueue(c)
                          /\ next_sequence'[c] \in Nat /\ next_sequence[c] <= next_sequence'[c]
    BY DEF AgentsAreSound, AgentTypes, SameQueue, agentVars
  <1>2. AgentTypes'
    BY DEF AgentsAreSound, AgentTypes, agentVars
  <1>3. \A c \in Agents : /\ AgentIsSound(c)' /\ Grows(c)
                          /\ LostOf(c)' = LostOf(c) /\ BeginsOf(c)' = BeginsOf(c)
    BY <1>1, SameQueueKeeps
  <1>4. QED
    BY <1>2, <1>3, SentStays DEF AgentsAreSound

PipeStep == Pipe!Next \/ UNCHANGED Pipe!pipeVars

LEMMA PipeStays ==
  ASSUME AgentsAreSound, UNCHANGED <<agentVars, received, accepted_samples_by_agent>>
  PROVE  UNCHANGED Pipe!pipeVars
  <1>1. \A c \in Agents : StoredOf(c)' = StoredOf(c)
    BY DEF StoredOf, BatchIds
  <1>2. \A c \in Agents : LostOf(c)' = LostOf(c) /\ BeginsOf(c)' = BeginsOf(c)
    BY AgentsStay
  <1>3. UNCHANGED <<made, received, acknowledged>>
    BY DEF agentVars
  <1>4. QED
    BY <1>1, <1>2, <1>3, PipeStutter

(* The batches the service holds of an agent were made by one object. *)
ListsOfOneObject ==
  \A a \in Agents :
    \A i, j \in DOMAIN accepted_samples_by_agent[a] :
      accepted_samples_by_agent[a][i].batch[2] = accepted_samples_by_agent[a][j].batch[2]

LEMMA ReasonIsKnown ==
  ASSUME NEW m \in Message
  PROVE  ReasonCode(m) \in Reasons
  <1>1. m.envelope \in Envelopes
    BY DEF Message
  <1>2. QED
    BY <1>1 DEF ReasonCode, Reasons

LEMMA AcceptedMeans ==
  ASSUME NEW m \in Message
  PROVE  /\ ReasonCode(m) = "accepted" => m.envelope = "ok" /\ ~ChainMismatch(m)
         /\ ReasonCode(m) = "already_accepted" => m \in accepted_message_digests
  <1>1. m.envelope \in Envelopes
    BY DEF Message
  <1>2. m.envelope # "accepted" /\ m.envelope # "already_accepted"
    BY <1>1 DEF Envelopes
  <1>3. QED
    BY <1>2 DEF ReasonCode

(* ingest refuses, or it accepts a heartbeat, or a batch that goes on with *)
(* the agent's list.                                                       *)
LEMMA AcceptStep ==
  ASSUME AgentsAreSound, ServiceIsSound, ListsOfOneObject,
         NEW m, MayBeSent(m), IsBatch(m), ReasonCode(m) = "accepted",
         Receive(m), UNCHANGED agentVars
  PROVE  /\ ServiceIsSound' /\ ListsOfOneObject'
         /\ Pipe!Store(m.agent)
         /\ m.id \in received'
  <1>0. PICK a, list, entry :
          /\ a = m.agent /\ list = accepted_samples_by_agent[a]
          /\ entry = [batch |-> m.id, observed |-> m.observed]
    OBVIOUS
  <1>1. /\ m \in Message /\ a \in Agents
        /\ m.id \in MessageIds /\ entry \in SampleEntry /\ entry.batch = m.id
    BY <1>0 DEF MayBeSent, Message, SampleEntry
  <1>2. PICK i \in 1 .. Base(a) + 1 : IsBatchAt(a, m, i)
    BY <1>0 DEF MayBeSent
  <1>3. /\ list \in Seq(SampleEntry) /\ ServiceTypes
        /\ last_batch_by_agent[a] = IF list = <<>> THEN NoBatch ELSE list[Len(list)].batch
    BY <1>0, <1>1 DEF ServiceIsSound, ServiceTypes
  <1>4. /\ last_batch_by_agent' = [last_batch_by_agent EXCEPT ![a] = m.id]
        /\ accepted_samples_by_agent' = [accepted_samples_by_agent EXCEPT ![a] = Append(@, entry)]
        /\ accepted_message_digests' = accepted_message_digests \cup {m}
        /\ received' = received \cup {m.id}
        /\ clock' = clock
    BY <1>0 DEF Receive, Ingest, Accept, StoreBatch, RecordMessage
  <1>5. accepted_samples_by_agent'[a] = Append(list, entry)
    BY <1>0, <1>1, <1>3, <1>4 DEF ServiceTypes
  <1>6. /\ Append(list, entry) \in Seq(SampleEntry) /\ Append(list, entry) # <<>>
        /\ Len(list) \in Nat /\ Len(Append(list, entry)) = Len(list) + 1
        /\ Append(list, entry)[Len(list) + 1] = entry
        /\ \A k \in 1 .. Len(list) : Append(list, entry)[k] = list[k]
    BY <1>1, <1>3, AppendSeq
  <1>7. list # <<>> =>
          /\ i # 1 /\ made[a][i - 1] = list[Len(list)].batch
          /\ made[a][i][2] = made[a][i - 1][2]
    <2>1. SUFFICES ASSUME list # <<>>
                   PROVE  /\ i # 1 /\ made[a][i - 1] = list[Len(list)].batch
                          /\ made[a][i][2] = made[a][i - 1][2]
      OBVIOUS
    <2>2. list[Len(list)].batch \in MessageIds /\ last_batch_by_agent[a] = list[Len(list)].batch
      <3>1. Len(list) \in 1 .. Len(list)
        BY <1>3, <2>1, LastSeq
      <3>2. list[Len(list)] \in SampleEntry
        BY <1>3, <3>1
      <3>3. QED
        BY <1>3, <2>1, <3>2 DEF SampleEntry
    <2>3. last_batch_by_agent[a] # NoBatch
      BY <2>2, ServiceAssumption
    <2>4. ~ChainMismatch(m)
      BY <1>1, AcceptedMeans
    <2>5. m.previous = list[Len(list)].batch
      BY <1>0, <2>2, <2>3, <2>4 DEF ChainMismatch
    <2>6. m.previous # NoBatch
      BY <2>2, <2>5, ServiceAssumption
    <2>7. ~FirstAt(a, i) /\ m.previous = made[a][i - 1]
      BY <1>2, <2>6 DEF IsBatchAt
    <2>8. QED
      BY <2>5, <2>7 DEF FirstAt
  <1>8. ServiceIsSound'
    <2>1. ServiceTypes'
      <3>1. accepted_samples_by_agent' \in [Agents -> Seq(SampleEntry)]
        BY <1>0, <1>1, <1>3, <1>4, <1>6 DEF ServiceTypes
      <3>2. last_batch_by_agent' \in [Agents -> MessageIds \cup {NoBatch}]
        BY <1>1, <1>3, <1>4 DEF ServiceTypes
      <3>3. QED
        BY <1>1, <1>3, <1>4, <3>1, <3>2 DEF ServiceTypes
    <2>2. ASSUME NEW c \in Agents
          PROVE  last_batch_by_agent'[c]
                   = IF accepted_samples_by_agent'[c] = <<>> THEN NoBatch
                     ELSE accepted_samples_by_agent'[c][Len(accepted_samples_by_agent'[c])].batch
      <3>1. CASE c = a
        <4>1. last_batch_by_agent'[a] = m.id
          BY <1>1, <1>3, <1>4 DEF ServiceTypes
        <4>2. QED
          BY <1>1, <1>5, <1>6, <3>1, <4>1
      <3>2. CASE c # a
        <4>1. /\ last_batch_by_agent'[c] = last_batch_by_agent[c]
              /\ accepted_samples_by_agent'[c] = accepted_samples_by_agent[c]
          BY <1>3, <1>4, <3>2 DEF ServiceTypes
        <4>2. QED
          BY <4>1 DEF ServiceIsSound
      <3>3. QED
        BY <3>1, <3>2
    <2>3. \A d \in accepted_message_digests' : IsBatch(d) => d.id \in received'
      BY <1>4 DEF ServiceIsSound
    <2>4. QED
      BY <2>1, <2>2, <2>3 DEF ServiceIsSound
  <1>9. ListsOfOneObject'
    <2>1. ASSUME NEW c \in Agents, NEW j \in DOMAIN accepted_samples_by_agent'[c],
                 NEW k \in DOMAIN accepted_samples_by_agent'[c]
          PROVE  accepted_samples_by_agent'[c][j].batch[2] = accepted_samples_by_agent'[c][k].batch[2]
      <3>1. CASE c # a
        <4>1. accepted_samples_by_agent'[c] = accepted_samples_by_agent[c]
          BY <1>3, <1>4, <3>1 DEF ServiceTypes
        <4>2. QED
          BY <2>1, <4>1 DEF ListsOfOneObject
      <3>2. CASE c = a
        <4>1. \A x \in 1 .. Len(list) : list[x].batch[2] = made[a][i][2]
          <5>1. SUFFICES ASSUME NEW x \in 1 .. Len(list) PROVE list[x].batch[2] = made[a][i][2]
            OBVIOUS
          <5>2. list # <<>> /\ Len(list) \in 1 .. Len(list)
            BY <1>3, <5>1, LastSeq
          <5>3. list[x].batch[2] = list[Len(list)].batch[2]
            BY <1>0, <1>1, <1>3, <5>1, <5>2, LastSeq DEF ListsOfOneObject
          <5>4. QED
            BY <1>7, <5>2, <5>3
        <4>2. entry.batch[2] = made[a][i][2]
          BY <1>1, <1>2 DEF IsBatchAt
        <4>3. \A x \in 1 .. Len(list) + 1 : Append(list, entry)[x].batch[2] = made[a][i][2]
          <5>1. \A x \in 1 .. Len(list) + 1 : x \in 1 .. Len(list) \/ x = Len(list) + 1
            BY <1>6
          <5>2. QED
            BY <1>6, <4>1, <4>2, <5>1
        <4>4. j \in 1 .. Len(list) + 1 /\ k \in 1 .. Len(list) + 1
          BY <1>5, <1>6, <2>1, <3>2, LastSeq
        <4>5. QED
          BY <1>5, <3>2, <4>3, <4>4
      <3>3. QED
        BY <3>1, <3>2
    <2>2. QED
      BY <2>1 DEF ListsOfOneObject
  <1>10. Pipe!Store(a)
    <2>1. i \in DOMAIN made[a] /\ m.id = made[a][i] /\ i \in 1 .. Len(made[a])
      BY <1>1, <1>2, LastSeq DEF IsBatchAt, AgentsAreSound, AgentTypes
    <2>2. \A j \in Pipe!Kept(a) : i <= j
      <3>1. Pipe!Kept(a) = Base(a) + 1 .. Len(made[a]) /\ Base(a) \in Nat
        BY <1>1, KeptIsQueue, QueueOfMade
      <3>2. QED
        BY <1>2, <3>1
    <2>3. StoredOf(a) # <<>> =>
            i \notin BeginsOf(a) /\ made[a][i - 1] = StoredOf(a)[Len(StoredOf(a))]
      <3>1. SUFFICES ASSUME list # <<>>
                     PROVE  i \notin BeginsOf(a) /\ made[a][i - 1] = BatchIds(list)[Len(BatchIds(list))]
        BY <1>0, <1>1, <1>3, BatchIdsAppend DEF StoredOf
      <3>2. Len(list) \in 1 .. Len(list)
        BY <1>3, <3>1, LastSeq
      <3>3. BatchIds(list)[Len(BatchIds(list))] = list[Len(list)].batch
        BY <1>1, <1>3, <3>2, BatchIdsAppend
      <3>4. i \notin BeginsOf(a)
        <4>1. i \in DOMAIN made[a] /\ i - 1 \in DOMAIN made[a]
          <5>1. i - 1 \in 1 .. Len(made[a])
            BY <1>7, <2>1, <3>1
          <5>2. QED
            BY <1>1, <2>1, <5>1, LastSeq DEF AgentsAreSound, AgentTypes
        <4>2. ObjectAt(a, i) = ObjectAt(a, i - 1)
          BY <1>7, <3>1, <4>1 DEF ObjectAt
        <4>3. QED
          BY <1>7, <3>1, <4>2 DEF BeginsOf
      <3>5. QED
        BY <1>7, <3>1, <3>3, <3>4
    <2>4. \A c \in Agents :
            /\ StoredOf(c)' = IF c = a THEN Append(StoredOf(a), made[a][i]) ELSE StoredOf(c)
            /\ LostOf(c)' = LostOf(c) /\ BeginsOf(c)' = BeginsOf(c)
      <3>1. StoredOf(a)' = Append(StoredOf(a), made[a][i])
        BY <1>0, <1>1, <1>3, <1>5, <2>1, BatchIdsAppend DEF StoredOf
      <3>2. \A c \in Agents \ {a} : StoredOf(c)' = StoredOf(c)
        BY <1>3, <1>4 DEF StoredOf, ServiceTypes
      <3>3. QED
        BY <3>1, <3>2, AgentsStay
    <2>5. made' = made /\ acknowledged' = acknowledged
      BY DEF agentVars
    <2>6. QED
      BY <1>1, <1>4, <2>1, <2>2, <2>3, <2>4, <2>5, PipeStore
  <1>11. QED
    BY <1>0, <1>4, <1>8, <1>9, <1>10

LEMMA ReceiveStep ==
  ASSUME AgentsAreSound, ServiceIsSound, ListsOfOneObject,
         NEW m, MayBeSent(m), Receive(m), UNCHANGED agentVars
  PROVE  /\ ServiceIsSound' /\ ListsOfOneObject'
         /\ Pipe!Store(m.agent) \/ UNCHANGED Pipe!pipeVars
         /\ IsBatch(m) /\ Positive(ReasonCode(m)) => m.id \in received'
         /\ received \subseteq received'
  <1>1. CASE IsBatch(m) /\ ReasonCode(m) = "accepted"
    <2>1. received' = received \cup {m.id}
      BY <1>1 DEF Receive
    <2>2. QED
      BY <1>1, <2>1, AcceptStep
  <1>2. CASE ~(IsBatch(m) /\ ReasonCode(m) = "accepted")
    <2>1. m \in Message
      BY DEF MayBeSent
    <2>2. /\ accepted_message_digests' \in
               {accepted_message_digests, accepted_message_digests \cup {m}}
          /\ UNCHANGED <<received, clock, last_batch_by_agent, accepted_samples_by_agent>>
          /\ IsBatch(m) => accepted_message_digests' = accepted_message_digests
      BY <1>2 DEF Receive, Ingest, Accept, RecordMessage, memory, sampleVars
    <2>3. ServiceIsSound'
      BY <2>1, <2>2 DEF ServiceIsSound, ServiceTypes
    <2>4. ListsOfOneObject'
      BY <2>2 DEF ListsOfOneObject
    <2>5. UNCHANGED Pipe!pipeVars
      BY <2>2, PipeStays
    <2>6. IsBatch(m) /\ Positive(ReasonCode(m)) => m.id \in received'
      <3>1. SUFFICES ASSUME IsBatch(m), ReasonCode(m) = "already_accepted"
                     PROVE  m.id \in received
        BY <1>2, <2>2 DEF Positive
      <3>2. m \in accepted_message_digests
        BY <2>1, <3>1, AcceptedMeans
      <3>3. QED
        BY <3>1, <3>2 DEF ServiceIsSound
    <2>7. QED
      BY <2>2, <2>3, <2>4, <2>5, <2>6
  <1>3. QED
    BY <1>1, <1>2

(* The service forgets, and time passes. *)
LEMMA RestartServiceStep ==
  ASSUME AgentsAreSound, ServiceIsSound, ServiceRestart, UNCHANGED <<agentVars, received>>
  PROVE  /\ ServiceIsSound' /\ ListsOfOneObject'
         /\ Pipe!Forget
  <1>1. /\ last_batch_by_agent' = [a \in Agents |-> NoBatch]
        /\ accepted_message_digests' = {}
        /\ accepted_samples_by_agent' = [a \in Agents |-> <<>>]
        /\ received' = received /\ clock' = clock
    BY DEF ServiceRestart
  <1>2. \A a \in Agents : accepted_samples_by_agent'[a] = <<>>
    BY <1>1
  <1>3. ServiceTypes'
    <2>1. <<>> \in Seq(SampleEntry)
      OBVIOUS
    <2>2. QED
      BY <1>1, <2>1 DEF ServiceIsSound, ServiceTypes
  <1>4. ServiceIsSound'
    BY <1>1, <1>2, <1>3 DEF ServiceIsSound
  <1>5. ListsOfOneObject'
    BY <1>2 DEF ListsOfOneObject
  <1>6. Pipe!Forget
    <2>1. \A c \in Agents : StoredOf(c)' = <<>>
      BY <1>2 DEF StoredOf, BatchIds
    <2>2. \A c \in Agents : LostOf(c)' = LostOf(c) /\ BeginsOf(c)' = BeginsOf(c)
      BY AgentsStay
    <2>3. UNCHANGED <<made, acknowledged, received>>
      BY DEF agentVars
    <2>4. QED
      BY <2>1, <2>2, <2>3, PipeForget
  <1>7. QED
    BY <1>4, <1>5, <1>6

LEMMA TickStep ==
  ASSUME AgentsAreSound, ServiceIsSound, ListsOfOneObject, Tick, UNCHANGED <<agentVars, received>>
  PROVE  /\ ServiceIsSound' /\ ListsOfOneObject'
         /\ UNCHANGED Pipe!pipeVars
  <1>1. /\ UNCHANGED <<last_batch_by_agent, accepted_message_digests, accepted_samples_by_agent,
                       received>>
        /\ clock' = clock + 1
    BY DEF Tick, memory, sampleVars
  <1>2. ServiceIsSound' /\ ListsOfOneObject'
    BY <1>1 DEF ServiceIsSound, ServiceTypes, ListsOfOneObject
  <1>3. UNCHANGED Pipe!pipeVars
    BY <1>1, PipeStays
  <1>4. QED
    BY <1>2, <1>3

(* An action of the agents alone leaves the service as it was. *)
LEMMA ServiceStays ==
  ASSUME ServiceIsSound, ListsOfOneObject, UNCHANGED <<serviceVars, received>>
  PROVE  ServiceIsSound' /\ ListsOfOneObject' /\ UNCHANGED accepted_samples_by_agent
  <1>1. UNCHANGED <<clock, last_batch_by_agent, accepted_message_digests,
                    accepted_samples_by_agent, received>>
    BY DEF serviceVars, memory, sampleVars
  <1>2. QED
    BY <1>1 DEF ServiceIsSound, ServiceTypes, ListsOfOneObject

(* The initial states are sound, and they are those of the pipe. *)
LEMMA SoundInit ==
  ASSUME ServiceInit, AgentInit
  PROVE  AgentsAreSound /\ ServiceIsSound /\ ListsOfOneObject /\ Pipe!Init
  <1>1. \A a \in Agents :
          /\ made[a] = <<>> /\ pending[a] = <<>> /\ acknowledged[a] = <<>>
          /\ last_batch_id[a] = NoBatch /\ starts[a] = 0 /\ next_sequence[a] = 0
          /\ accepted_samples_by_agent[a] = <<>> /\ last_batch_by_agent[a] = NoBatch
    BY DEF ServiceInit, MemoryInit, AgentInit
  <1>2. AgentTypes
    BY NodeAgentAssumption DEF AgentInit, AgentTypes
  <1>3. ASSUME NEW a \in Agents
        PROVE  AgentIsSound(a)
    <2>1. Len(made[a]) = 0 /\ Len(pending[a]) = 0 /\ Len(acknowledged[a]) = 0
      BY <1>1
    <2>2. QED
      BY <1>1, <2>1
      DEF AgentIsSound, BatchesAreFresh, QueueIsEnd, AcknowledgedAreBefore, LinkIsLast
  <1>4. ServiceIsSound
    <2>1. ServiceTypes /\ accepted_message_digests = {}
      BY DEF ServiceInit, MemoryInit, AgentInit, ServiceTypes
    <2>2. QED
      BY <1>1, <2>1 DEF ServiceIsSound
  <1>5. ListsOfOneObject
    BY <1>1 DEF ListsOfOneObject
  <1>6. Pipe!Init
    <2>1. made = [a \in Agents |-> <<>>] /\ acknowledged = [a \in Agents |-> <<>>] /\ received = {}
      BY DEF AgentInit
    <2>2. \A a \in Agents : /\ StoredOf(a) = <<>> /\ LostOf(a) = {} /\ BeginsOf(a) = {1}
      <3>1. ASSUME NEW a \in Agents
            PROVE  StoredOf(a) = <<>> /\ LostOf(a) = {} /\ BeginsOf(a) = {1}
        <4>1. StoredOf(a) = <<>>
          BY <1>1 DEF StoredOf, BatchIds
        <4>2. LostOf(a) = {}
          BY <1>1 DEF LostOf, ToSet
        <4>3. Len(made[a]) = 0
          BY <1>1
        <4>4. QED
          BY <4>1, <4>2, <4>3 DEF BeginsOf
      <3>2. QED
        BY <3>1
    <2>3. QED
      BY <2>1, <2>2 DEF Pipe!Init, StoredOf, LostOf, BeginsOf
  <1>7. QED
    BY <1>2, <1>3, <1>4, <1>5, <1>6 DEF AgentsAreSound

(* The service's variables keep their types in each of its operations. *)

LEMMA ServiceTypesInit == ServiceInit => ServiceTypeOK
  <1>1. /\ \A S : <<>> \in Seq(S)
        /\ -1 \in Int
    OBVIOUS
  <1>2. QED
    BY <1>1 DEF ServiceInit, MemoryInit, ServiceTypeOK, NoSequence, NeverSeen

LEMMA ServiceTypesStay == ServiceTypeOK /\ UNCHANGED serviceVars => ServiceTypeOK'
  BY DEF ServiceTypeOK, serviceVars, memory, sampleVars

LEMMA ServiceTypesTick == ServiceTypeOK /\ Tick => ServiceTypeOK'
  BY DEF ServiceTypeOK, Tick, memory, sampleVars

LEMMA ServiceTypesRestart == ServiceTypeOK /\ ServiceRestart => ServiceTypeOK'
  <1>1. \A S : <<>> \in Seq(S)
    OBVIOUS
  <1>2. QED
    BY <1>1 DEF ServiceRestart, ServiceTypeOK, NoSequence, NeverSeen

LEMMA ServiceTypesReceive ==
  ASSUME ServiceTypeOK, NEW m \in Message, Receive(m)
  PROVE  ServiceTypeOK'
  <1>1. /\ m.id \in MessageIds /\ m.agent \in Agents /\ m.sequence \in Nat
        /\ NodeOf[m.agent] \in Nodes
        /\ [batch |-> m.id, observed |-> m.observed] \in SampleEntry
    BY ServiceAssumption DEF Message, SampleEntry
  <1>2. CASE ReasonCode(m) # "accepted"
    BY <1>2 DEF Receive, Ingest, ServiceTypeOK, memory, sampleVars
  <1>3. CASE ReasonCode(m) = "accepted"
    <2>1. Accept(m) /\ UNCHANGED clock
      BY <1>3 DEF Receive, Ingest
    <2>2. /\ clock' \in Nat
          /\ last_sequence_by_agent' \in [Agents -> Nat \cup {NoSequence}]
          /\ last_seen_by_node' \in [Nodes -> Nat \cup {NeverSeen}]
          /\ last_seen_by_agent' \in [Agents -> Nat \cup {NeverSeen}]
          /\ accepted_message_digests' \subseteq Message
      BY <1>1, <2>1 DEF ServiceTypeOK, Accept, RecordMessage
    <2>3. CASE IsBatch(m)
      <3> DEFINE entry == [batch |-> m.id, observed |-> m.observed]
      <3> entry \in SampleEntry
        BY <1>1
      <3>1. /\ accepted_samples_by_node' = [accepted_samples_by_node EXCEPT
                   ![NodeOf[m.agent]] = Append(@, entry)]
            /\ accepted_samples_by_agent' = [accepted_samples_by_agent EXCEPT
                   ![m.agent] = Append(@, entry)]
        BY <2>1, <2>3 DEF Accept, StoreBatch
      <3> HIDE DEF entry
      <3>2. /\ accepted_samples_by_node' \in [Nodes -> Seq(SampleEntry)]
            /\ accepted_samples_by_agent' \in [Agents -> Seq(SampleEntry)]
        <4>1. \A list \in Seq(SampleEntry) : Append(list, entry) \in Seq(SampleEntry)
          BY AppendSeq
        <4>2. QED
          BY <1>1, <3>1, <4>1 DEF ServiceTypeOK
      <3>3. last_batch_by_agent' \in [Agents -> MessageIds \cup {NoBatch}]
        BY <1>1, <2>1, <2>3 DEF ServiceTypeOK, Accept, StoreBatch
      <3>4. QED
        BY <2>2, <3>1, <3>2, <3>3 DEF ServiceTypeOK
    <2>4. CASE ~IsBatch(m)
      BY <2>1, <2>2, <2>4 DEF ServiceTypeOK, Accept, sampleVars
    <2>5. QED
      BY <2>3, <2>4
  <1>4. QED
    BY <1>2, <1>3

LEMMA SoundTypes ==
  ASSUME AgentsAreSound, ServiceIsSound
  PROVE  AgentTypeOK
  <1>1. ASSUME NEW a \in Agents
        PROVE  /\ ToSet(pending[a]) \subseteq Message
               /\ ToSet(made[a]) \cup ToSet(acknowledged[a]) \subseteq MessageIds
    <2>1. /\ pending[a] \in Seq(Message)
          /\ made[a] \in Seq(MessageIds) /\ acknowledged[a] \in Seq(MessageIds)
      BY DEF AgentsAreSound, AgentTypes
    <2>2. QED
      BY <2>1, LastSeq
  <1>2. QED
    BY <1>1 DEF AgentTypeOK, AgentsAreSound, AgentTypes, ServiceIsSound, ServiceTypes

=============================================================================
