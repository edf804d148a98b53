--------------------------- MODULE OfflineDelivery ---------------------------
(***************************************************************************)
(* Agents and the central service in one process, joined by                *)
(* OfflineFileTransport: send logs the request in a create-only file,      *)
(* calls ingest, and logs the acknowledgment in a second create-only file. *)
(* Writing a file may raise before the file exists (its directory or the   *)
(* file cannot be created), half-way (a full disk; what is left can be     *)
(* seen but not parsed) and after its content is complete (fsync).  A      *)
(* crash of the process begins with fresh identifiers and never reads the  *)
(* files again, so it is not modelled.                                     *)
(***************************************************************************)
EXTENDS NodeAgent

CONSTANT WritesFail    \* whether writing a file may fail

ASSUME OfflineAssumption == WritesFail \in BOOLEAN

VARIABLES
  requests,          \* requests/<id>.json of each batch
  acknowledgments,   \* acknowledgments/<id>.json: the reason it holds
  flushing,          \* the agent whose flush loop is running
  result             \* what the last send did: its outcome, raised or a reason code

files == <<requests, acknowledgments>>

vars == <<serviceVars, agentVars, received, files, flushing, result>>

(* An acknowledgment that flush has not looked at yet. *)
Returned == result \notin {"none", "raised"}

Init ==
  /\ ServiceInit
  /\ AgentInit
  /\ requests = [id \in MessageIds |-> "absent"]
  /\ acknowledgments = [id \in MessageIds |-> "absent"]
  /\ flushing = {}
  /\ result = "none"

-----------------------------------------------------------------------------

CollectOnce(a) ==
  /\ flushing = {}
  /\ QueueBatch(a)
  /\ UNCHANGED <<serviceVars, received, files, flushing, result>>

(* _exclusive_json: what it leaves on file, and whether it raises.  mkdir  *)
(* and open raise before there is a file, write leaves a part of one, and  *)
(* flush and fsync may raise over a file that is complete.                 *)
WriteOutcomes(content) ==
  {[file |-> content, raises |-> FALSE]}
    \cup {[file |-> left, raises |-> TRUE] :
            left \in IF WritesFail THEN {"absent", "partial", content} ELSE {}}

(* send raises: flush ends and the queue is as it was. *)
Raise ==
  /\ result' = "raised"
  /\ flushing' = {}

(* send returns an acknowledgment to flush. *)
Return(m, reason) ==
  /\ result' = reason
  /\ flushing' = {m.agent}

(* The second half of send: ingest, then the acknowledgment file.  An      *)
(* acknowledgment that is already on file is returned in place of the new  *)
(* one, and one that does not parse raises.                                *)
IngestAndAcknowledge(m) ==
  /\ Receive(m)
  /\ CASE acknowledgments[m.id] = "partial" ->
            Raise /\ UNCHANGED acknowledgments
       [] acknowledgments[m.id] = "absent" ->
            \E written \in WriteOutcomes(ReasonCode(m)) :
              /\ acknowledgments' = [acknowledgments EXCEPT ![m.id] = written.file]
              /\ IF written.raises THEN Raise ELSE Return(m, ReasonCode(m))
       [] OTHER ->
            Return(m, acknowledgments[m.id]) /\ UNCHANGED acknowledgments

NotLogged(m) == Raise /\ UNCHANGED <<serviceVars, received, acknowledgments>>

(* Mutant: a request that could not be written is ingested all the same. *)
AfterRequestAnyway(m, written) == IngestAndAcknowledge(m)

AfterRequest(m, written) ==
  IF written.raises THEN NotLogged(m) ELSE IngestAndAcknowledge(m)

(* One send of flush's loop. *)
Send(a) ==
  LET m == Head(pending[a])
  IN  /\ flushing \subseteq {a}
      /\ ~Returned
      /\ pending[a] # <<>>
      /\ CASE requests[m.id] = "partial" ->
                NotLogged(m) /\ UNCHANGED requests
           [] requests[m.id] = "absent" ->
                \E written \in WriteOutcomes("complete") :
                  /\ requests' = [requests EXCEPT ![m.id] = written.file]
                  /\ AfterRequest(m, written)
           [] OTHER ->
                IngestAndAcknowledge(m) /\ UNCHANGED requests
      /\ UNCHANGED agentVars

(* flush removes an accepted batch and goes on while the queue is not      *)
(* empty; it ends at the first refusal.                                    *)
FlushReturned(a) ==
  /\ flushing = {a}
  /\ Returned
  /\ result' = "none"
  /\ IF Positive(result)
     THEN /\ PopPending(a)
          /\ flushing' = IF Len(pending[a]) > 1 THEN {a} ELSE {}
     ELSE /\ flushing' = {}
          /\ UNCHANGED agentVars
  /\ UNCHANGED <<serviceVars, received, files>>

AdvanceClock ==
  /\ Tick
  /\ UNCHANGED <<agentVars, received, files, flushing, result>>

Next ==
  \/ \E a \in Agents : CollectOnce(a) \/ Send(a) \/ FlushReturned(a)
  \/ AdvanceClock

Spec == Init /\ [][Next]_vars

(* Assumed of the caller, in the code's favour: whatever flush returned or *)
(* raised it is called again as long as the queue is not empty, and time   *)
(* passes.  Nothing in the code promises this: a refutation under it is    *)
(* one under any weaker assumption.                                        *)
FairSpec == Spec /\ WF_vars(AdvanceClock) /\ \A a \in Agents : WF_vars(Send(a) \/ FlushReturned(a))

-----------------------------------------------------------------------------

TypeOK ==
  /\ ServiceTypeOK
  /\ AgentTypeOK
  /\ requests \in [MessageIds -> {"absent", "partial", "complete"}]
  /\ acknowledgments \in [MessageIds -> Reasons \cup {"absent", "partial"}]
  /\ flushing \subseteq Agents
  /\ result \in Reasons \cup {"none", "raised"}

(* With failing writes and refusals on file the system still is a pipe: a  *)
(* batch leaves the queue only after the service accepted it, and the      *)
(* service holds the batches in order, once and without a hole.            *)
ImplementsPipe == Pipe!Spec

(* The two files are a faithful log: what the service accepted has its     *)
(* request on file, a positive acknowledgment on file is of an accepted    *)
(* message, and only what is logged as a request is acknowledged.  The     *)
(* converses are false and are not claimed: a request may be on file that  *)
(* was never ingested, and an accepted message may have no acknowledgment. *)
FilesAgreeWithService ==
  \A id \in MessageIds :
    /\ id \in seen_message_ids => requests[id] = "complete"
    /\ Positive(acknowledgments[id]) => id \in seen_message_ids
    /\ acknowledgments[id] # "absent" => requests[id] = "complete"

(* "An exact authenticated retry of an already accepted envelope receives  *)
(* an idempotent already_accepted acknowledgment"                          *)
(* (docs/central-monitoring-design.md).                                    *)
RetryOfAcceptedIsAcknowledged ==
  [][\A a \in Agents :
       (/\ Send(a)
        /\ Head(pending[a]) \in accepted_message_digests
        /\ result' # "raised")
         => Positive(result')]_vars

=============================================================================
