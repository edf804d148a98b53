---------------------------- MODULE HttpDelivery ----------------------------
(***************************************************************************)
(* Agents that post to the central service over HTTP (HttpTransport and    *)
(* the handler of build_http_handler).  An agent makes one call at a time  *)
(* and waits for the answer.  A call may time out before or after the      *)
(* service handled it; a request that timed out first may still arrive     *)
(* later, or never.  Agents and the service may restart at any time.       *)
(*                                                                         *)
(* The service handles one request at a time, as with http.server's        *)
(* HTTPServer; the repository leaves the choice of the server class to the *)
(* caller of build_http_handler.                                           *)
(***************************************************************************)
EXTENDS NodeAgent

CONSTANTS
  HeartbeatsUsed,    \* whether the caller of an agent uses heartbeat()
  ServiceRestarts,   \* whether the service may restart
  MaxOrphans         \* bound: late requests in the network at one time

ASSUME HttpAssumption ==
  /\ HeartbeatsUsed \in BOOLEAN
  /\ ServiceRestarts \in BOOLEAN
  /\ MaxOrphans \in Nat

VARIABLES
  call,     \* each agent's outstanding call
  orphans   \* requests that timed out and may still arrive

vars == <<serviceVars, agentVars, received, call, orphans>>

Idle == [stage |-> "idle"]
Sent(m) == [stage |-> "sent", message |-> m]
Answered(m, reason) == [stage |-> "answered", message |-> m, reason |-> reason]

Calls ==
  {Idle} \cup [stage : {"sent"}, message : Message]
         \cup [stage : {"answered"}, message : Message, reason : Reasons]

Init ==
  /\ ServiceInit
  /\ AgentInit
  /\ call = [a \in Agents |-> Idle]
  /\ orphans = {}

-----------------------------------------------------------------------------

CollectOnce(a) ==
  /\ call[a] = Idle
  /\ QueueBatch(a)
  /\ UNCHANGED <<serviceVars, call, orphans, received>>

(* flush starts with the head of the queue. *)
Flush(a) ==
  /\ call[a] = Idle
  /\ pending[a] # <<>>
  /\ call' = [call EXCEPT ![a] = Sent(Head(pending[a]))]
  /\ UNCHANGED <<serviceVars, agentVars, orphans, received>>

(* A heartbeat takes a sequence and is sent at once; it is not queued. *)
SendHeartbeat(a) ==
  /\ HeartbeatsUsed
  /\ call[a] = Idle
  /\ TakeSequence(a)
  /\ call' = [call EXCEPT ![a] = Sent(NewHeartbeat(a))]
  /\ UNCHANGED <<serviceVars, last_batch_id, pending, starts, made, acknowledged, received,
                 orphans>>

(* do_POST refuses a body over the limit without calling ingest. *)
TooLong(m) == m.envelope = "payload_too_large"

Serve(a) ==
  LET m == call[a].message
  IN  /\ call[a].stage = "sent"
      /\ ~TooLong(m)
      /\ Receive(m)
      /\ call' = [call EXCEPT ![a] = Answered(m, ReasonCode(m))]
      /\ UNCHANGED <<agentVars, orphans>>

(* The answer 413 raises in urlopen, like a failed connection. *)
ServeTooLong(a) ==
  /\ call[a].stage = "sent"
  /\ TooLong(call[a].message)
  /\ call' = [call EXCEPT ![a] = Idle]
  /\ UNCHANGED <<serviceVars, agentVars, orphans, received>>

(* The acknowledgment arrives.  flush removes an accepted batch and goes   *)
(* on with the next one; it stops at the first refusal.                    *)
FlushReturns(a) ==
  LET rest == Tail(pending[a])
  IN  /\ call[a].stage = "answered"
      /\ IsBatch(call[a].message)
      /\ IF Positive(call[a].reason)
         THEN /\ PopPending(a)
              /\ call' = [call EXCEPT ![a] = IF rest = <<>> THEN Idle ELSE Sent(Head(rest))]
         ELSE /\ call' = [call EXCEPT ![a] = Idle]
              /\ UNCHANGED agentVars
      /\ UNCHANGED <<serviceVars, orphans, received>>

HeartbeatReturns(a) ==
  /\ call[a].stage = "answered"
  /\ ~IsBatch(call[a].message)
  /\ call' = [call EXCEPT ![a] = Idle]
  /\ UNCHANGED <<serviceVars, agentVars, orphans, received>>

(* A request an agent no longer waits for is handled already, is lost, or  *)
(* may still arrive later (too long, it would change nothing then).        *)
Abandon(a) ==
  /\ call' = [call EXCEPT ![a] = Idle]
  /\ \/ UNCHANGED orphans
     \/ /\ call[a].stage = "sent"
        /\ ~TooLong(call[a].message)
        /\ Cardinality(orphans) < MaxOrphans
        /\ orphans' = orphans \cup {call[a].message}

(* send raises in the agent; flush has not touched the queue. *)
Timeout(a) ==
  /\ call[a] # Idle
  /\ Abandon(a)
  /\ UNCHANGED <<serviceVars, agentVars, received>>

ServeOrphan(m) ==
  /\ ~TooLong(m)
  /\ orphans' = orphans \ {m}
  /\ Receive(m)
  /\ UNCHANGED <<agentVars, call>>

LoseOrphan(m) ==
  /\ orphans' = orphans \ {m}
  /\ UNCHANGED <<serviceVars, agentVars, call, received>>

AgentRestart(a) ==
  /\ StartAgain(a)
  /\ Abandon(a)
  /\ UNCHANGED <<serviceVars, received>>

ServiceStep ==
  /\ Tick \/ (ServiceRestarts /\ ServiceRestart)
  /\ UNCHANGED <<agentVars, call, orphans, received>>

Next ==
  \/ \E a \in Agents :
       \/ CollectOnce(a) \/ Flush(a) \/ SendHeartbeat(a)
       \/ Serve(a) \/ ServeTooLong(a) \/ FlushReturns(a) \/ HeartbeatReturns(a)
       \/ Timeout(a) \/ AgentRestart(a)
  \/ \E m \in orphans : ServeOrphan(m) \/ LoseOrphan(m)
  \/ ServiceStep

Spec == Init /\ [][Next]_vars

(* Assumed of the caller and of the network, in the code's favour: flush   *)
(* is called again as long as the queue is not empty, a request that is    *)
(* sent again and again is eventually handled, and so is its answer.       *)
(* Nothing in the code promises this (run ends with the first exception of *)
(* send); it only serves to show what fails in spite of it.                *)
CallerPersists ==
  \A a \in Agents :
    /\ WF_vars(Flush(a))
    /\ SF_vars(Serve(a) \/ ServeTooLong(a))
    /\ SF_vars(FlushReturns(a) \/ HeartbeatReturns(a))

FairSpec == Spec /\ CallerPersists

-----------------------------------------------------------------------------

TypeOK ==
  /\ ServiceTypeOK
  /\ AgentTypeOK
  /\ \A a \in Agents : call[a] \in Calls
  /\ orphans \subseteq Message

(* Over HTTP the system is a pipe: every batch collected is still queued   *)
(* or was accepted by the service, and the service holds the batches in    *)
(* order, once and without a hole, whatever is lost, repeated or delayed   *)
(* and however often the service forgets everything.                       *)
ImplementsPipe == Pipe!Spec

(* The batches the service holds of one agent were all made by the same    *)
(* agent object: a restarted agent, whose sequence begins again at 0, and  *)
(* late requests of its predecessor are never mixed into one chain.        *)
OneIncarnationPerChain ==
  \A a \in Agents :
    \A i, j \in DOMAIN accepted_samples_by_agent[a] :
      accepted_samples_by_agent[a][i].batch[2] = accepted_samples_by_agent[a][j].batch[2]

(* Without heartbeats and restarts an agent's retries are never refused    *)
(* for their sequence, their identifier or their chain, however the late   *)
(* copies of its requests arrive: only its clock can be a reason.          *)
OnlyTheClockRefuses ==
  \A a \in Agents :
    call[a].stage = "answered" =>
      call[a].reason \in {"accepted", "already_accepted", "clock_skew", "sample_clock_skew"}

(* "A bounded agent loop and retained pending queue make transport         *)
(* failures retryable without dropping the batch"                          *)
(* (docs/central-monitoring-design.md): a batch whose request failed in    *)
(* transit is acknowledged in the end, if its queue is flushed again and   *)
(* again.                                                                  *)
TransportFailureIsRetryable ==
  \A a \in Agents : \A id \in MessageIds :
    (\E m \in orphans : IsBatch(m) /\ m.agent = a /\ m.id = id)
      ~> id \in ToSet(acknowledged[a])

=============================================================================
