------------------------------- MODULE AgentRun -------------------------------
(***************************************************************************)
(* NodeAgent.run over HTTP: a bounded number of cycles, each one reading   *)
(* of the sensors and one flush.  Nothing in the loop catches an           *)
(* exception: what collect_once or send raises ends it.  The agent object  *)
(* keeps its queue, and the caller may, or may not, call run again.        *)
(*                                                                         *)
(* Between runs the caller may also call collect_once and flush itself.    *)
(* Heartbeats and new agent objects are left to HttpDelivery.              *)
(***************************************************************************)
EXTENDS HttpDelivery

CONSTANT MaxCycles   \* bound: the cycles of one call of run

ASSUME AgentRunAssumption == MaxCycles \in Nat \ {0}

VARIABLES
  run,     \* where each agent's run is: its next call, or how it ended
  cycles   \* how many cycles it has left, the current one included

runVars == <<vars, run, cycles>>

RunInit ==
  /\ Init
  /\ run = [a \in Agents |-> "returned"]
  /\ cycles = [a \in Agents |-> 0]

-----------------------------------------------------------------------------

(* run is not being called, nor is a flush of the caller's. *)
NotRunning(a) == run[a] \in {"returned", "raised"} /\ call[a] = Idle

(* The caller calls run; the bound on sequences leaves room for it. *)
StartRun(a) ==
  /\ NotRunning(a)
  /\ \E n \in 1 .. MaxCycles :
       /\ next_sequence[a] + n <= MaxSequence
       /\ cycles' = [cycles EXCEPT ![a] = n]
  /\ run' = [run EXCEPT ![a] = "collect"]
  /\ UNCHANGED vars

RunCollects(a) ==
  /\ run[a] = "collect"
  /\ CollectOnce(a)
  /\ run' = [run EXCEPT ![a] = "flush"]
  /\ UNCHANGED cycles

(* Reading or validating the sensors raises, before anything is changed. *)
CollectRaises(a) ==
  /\ run[a] = "collect"
  /\ run' = [run EXCEPT ![a] = "raised"]
  /\ UNCHANGED <<vars, cycles>>

(* flush is called, and each of its calls is handled. *)
RunSends(a) ==
  /\ run[a] = "flush"
  /\ Flush(a) \/ Serve(a)
  /\ UNCHANGED <<run, cycles>>

(* Where run goes when flush returned, whatever flush was answered. *)
AfterFlush(a) == IF cycles[a] > 1 THEN "collect" ELSE "returned"

RunReturns(a) ==
  /\ run[a] = "flush"
  /\ FlushReturns(a)
  /\ IF call'[a] = Idle
     THEN /\ run' = [run EXCEPT ![a] = AfterFlush(a)]
          /\ cycles' = [cycles EXCEPT ![a] = @ - 1]
     ELSE UNCHANGED <<run, cycles>>

(* send raises out of flush and out of run. *)
RunRaises(a) ==
  /\ run[a] = "flush"
  /\ Timeout(a) \/ ServeTooLong(a)
  /\ run' = [run EXCEPT ![a] = "raised"]
  /\ UNCHANGED cycles

RunStep(a) == RunCollects(a) \/ CollectRaises(a) \/ RunSends(a) \/ RunReturns(a) \/ RunRaises(a)

(* collect_once and flush, called by something else than run. *)
CalledDirectly(a) ==
  /\ run[a] \in {"returned", "raised"}
  /\ \/ CollectOnce(a) \/ Flush(a) \/ Serve(a) \/ FlushReturns(a)
     \/ ServeTooLong(a) \/ Timeout(a)
  /\ UNCHANGED <<run, cycles>>

Environment ==
  /\ \/ \E m \in orphans : ServeOrphan(m) \/ LoseOrphan(m)
     \/ ServiceStep
  /\ UNCHANGED <<run, cycles>>

RunNext == (\E a \in Agents : StartRun(a) \/ RunStep(a) \/ CalledDirectly(a)) \/ Environment

(* A run that was called goes on: its loop is sequential code, a reading   *)
(* and a sleep end, and urlopen ends by an answer or by its timeout.       *)
(* Nobody is obliged to call run.                                          *)
RunSpec == RunInit /\ [][RunNext]_runVars /\ \A a \in Agents : WF_runVars(RunStep(a))

-----------------------------------------------------------------------------

(* A run that returns leaves no batch behind. What is queued while a run   *)
(* goes on, by this run, by an earlier one that was ended by a failed      *)
(* request, or by the caller, is acknowledged before the run returns,      *)
(* however many copies of its requests the service handled or still        *)
(* handles late; only a run that raises may leave it in the queue. (Clocks *)
(* within the allowed skew, no heartbeats, no restarts.)                   *)
EveryRunDelivers ==
  \A a \in Agents : \A id \in MessageIds :
    (run[a] \in {"collect", "flush"} /\ id \in ToSet(Ids(pending[a])))
      ~> (run[a] = "raised" \/ id \in ToSet(acknowledged[a]))

=============================================================================
