---------------------------- MODULE RunLifecycle ----------------------------
(***************************************************************************)
(* The runs of an orchestrator: run_experiment (orchestrator.py) with the  *)
(* launcher (distributed/launcher.py), the sampler thread                  *)
(* (telemetry/nvml.py) and the evidence files, called again and again.     *)
(* torchrun and its two ranks are processes in a session of their own:     *)
(* they do not die with the orchestrator.  torchrun is external; the ranks *)
(* are those of RankProcesses.                                             *)
(*                                                                         *)
(* The variables describe the last run begun; of earlier runs only the     *)
(* processes that still live matter to it.  A call that is refused before  *)
(* it has a directory leaves nothing behind and is left out.               *)
(***************************************************************************)
EXTENDS RankProcesses, Sequences

CONSTANT StoreFails    \* whether writing an artifact may fail

ASSUME StoreAssumption == StoreFails \in BOOLEAN

(* In the order they are written.  launch.json stands for the diagnostics, *)
(* the two logs and the launch record, which are written alike.            *)
EvidenceFiles == <<"telemetry.jsonl", "launch.json", "manifest.json">>

FileNames == {EvidenceFiles[i] : i \in DOMAIN EvidenceFiles}

VARIABLES
  phase,         \* where run_experiment is
  ended,         \* how the last call ended
  outcome,       \* what it has learned of the run
  torchrun,      \* the torchrun process of the run
  events,        \* the event files of its ranks
  sampler,       \* the collector's thread
  late,          \* whether it took a sample after telemetry.jsonl was written
  files,         \* the evidence files
  exit_status,   \* the exit status in manifest.json
  survivors      \* the kinds of processes of earlier runs that still live

processVars  == <<torchrun, joint, rank, events>>
samplerVars  == <<sampler, late>>
evidenceVars == <<files, exit_status>>
vars == <<phase, ended, outcome, processVars, samplerVars, evidenceVars, survivors>>

Unknown   == [timed_out |-> FALSE, participation_valid |-> FALSE, collector_error |-> FALSE]
NoRanks   == [k \in Ranks |-> "none"]
NoEvents  == [k \in Ranks |-> "incomplete"]
NoFiles   == [f \in FileNames |-> "absent"]

Init ==
  /\ phase = "idle" /\ ended = "no"
  /\ outcome = Unknown
  /\ torchrun = "none" /\ joint = TRUE /\ rank = NoRanks /\ events = NoEvents
  /\ sampler = "none" /\ late = FALSE
  /\ files = NoFiles /\ exit_status = "none"
  /\ survivors = {}

-----------------------------------------------------------------------------
(* The processes of the run. *)

(* A run's collectives depend on the ranks' clocks, or not. *)
Spawn ==
  /\ torchrun = "running" /\ rank = NoRanks
  /\ rank' = [k \in Ranks |-> "working"]
  /\ joint' \in BOOLEAN
  /\ UNCHANGED <<torchrun, events>>

FinalBarrier == PassFinalBarrier /\ UNCHANGED <<torchrun, events>>

(* The event "completion", the last of those the launcher requires. *)
RankCompletes(k) ==
  /\ Completes(k)
  /\ events' = [events EXCEPT ![k] = "complete"]
  /\ UNCHANGED torchrun

RankExits(k) ==
  /\ rank[k] = "teardown"
  /\ rank' = [rank EXCEPT ![k] = "exited"]
  /\ UNCHANGED <<torchrun, joint, events>>

RankFails(k) == Fails(k) /\ UNCHANGED <<torchrun, events>>

(* torchrun kills the other rank of a broken one, and both when it is told *)
(* to terminate.  A rank may be killed within a line of its event file.    *)
KillRank(k) ==
  /\ torchrun = "running"
  /\ Broken(Other(k)) \/ phase = "terminating"
  /\ IsKilled(k)
  /\ \E file \in {events[k], "torn"} : events' = [events EXCEPT ![k] = file]
  /\ UNCHANGED torchrun

(* By itself after its ranks, or before it has started them. *)
TorchrunExits ==
  /\ torchrun = "running"
  /\ \A k \in Ranks : ~Alive(k)
  /\ torchrun' = IF \A k \in Ranks : rank[k] = "exited" THEN "succeeded" ELSE "failed"
  /\ UNCHANGED <<joint, rank, events>>

(* torchrun is killed.  Its ranks may survive it. *)
TorchrunDies ==
  /\ torchrun = "running"
  /\ torchrun' = "failed"
  /\ UNCHANGED <<joint, rank, events>>

(* Processes of earlier runs end; a torchrun may still start workers. *)
SurvivorStep ==
  /\ survivors # {}
  /\ \E left \in SUBSET (IF "torchrun" \in survivors THEN {"torchrun", "worker"} ELSE survivors) :
       survivors' = left
  /\ UNCHANGED <<phase, ended, outcome, processVars, samplerVars, evidenceVars>>

ProcessStep ==
  /\ \/ Spawn \/ FinalBarrier \/ TorchrunExits \/ TorchrunDies
     \/ \E k \in Ranks : RankCompletes(k) \/ RankExits(k) \/ RankFails(k) \/ KillRank(k)
  /\ UNCHANGED <<phase, ended, outcome, samplerVars, evidenceVars, survivors>>

-----------------------------------------------------------------------------
(* The sampler thread.  Told to stop, it ends the cycle it is in.  What it *)
(* sampled before that is in memory when telemetry.jsonl is written.       *)

LastCycle ==
  /\ sampler = "stopping"
  /\ sampler' = "stopped"
  /\ late' \in {FALSE, files["telemetry.jsonl"] = "whole"}

SamplerFails ==
  /\ sampler \in {"sampling", "stopping"}
  /\ sampler' = "failed"
  /\ UNCHANGED late

SamplerStep ==
  /\ LastCycle \/ SamplerFails
  /\ UNCHANGED <<phase, ended, outcome, processVars, evidenceVars, survivors>>

-----------------------------------------------------------------------------
(* run_experiment. *)

End(how) == phase' = "idle" /\ ended' = how

(* The processes a scan finds by the worker's name in their command lines, *)
(* which torchrun has in its own.                                          *)
Live ==
  (IF torchrun = "running" THEN {"torchrun"} ELSE {}) \cup
  (IF \E k \in Ranks : Alive(k) THEN {"worker"} ELSE {})

(* Mutant: a survivor counts only while its torchrun lives. *)
StaleTorchruns == {w \in survivors : "torchrun" \in survivors}

StaleWorkers == survivors

(* The directory and its config.json, and then the sampler. *)
BeginRun ==
  /\ phase = "idle"
  /\ survivors' = survivors \cup Live
  /\ outcome' = Unknown
  /\ torchrun' = "none" /\ joint' = TRUE /\ rank' = NoRanks /\ events' = NoEvents
  /\ late' = FALSE
  /\ files' = NoFiles /\ exit_status' = "none"
  /\ \/ phase' = "launching" /\ sampler' = "sampling" /\ ended' = "no"
     \/ StoreFails /\ phase' = "idle" /\ sampler' = "none" /\ ended' = "raised"

Launch ==
  /\ phase = "launching" /\ StaleWorkers = {}
  /\ torchrun' = "running"
  /\ phase' = "waiting"
  /\ UNCHANGED <<ended, outcome, joint, rank, events, samplerVars, evidenceVars, survivors>>

RefuseToLaunch ==
  /\ phase = "launching" /\ StaleWorkers # {}
  /\ End("raised")
  /\ UNCHANGED <<outcome, processVars, samplerVars, evidenceVars, survivors>>

(* torchrun ends by itself or in the course of the cleanup. *)
TorchrunReturns ==
  /\ phase \in {"waiting", "terminating", "killing"}
  /\ torchrun # "running"
  /\ phase' = "validating"
  /\ UNCHANGED <<ended, outcome, processVars, samplerVars, evidenceVars, survivors>>

(* Mutant: the time counts from the start of the ranks. *)
HardTimeoutOfRanks ==
  /\ phase = "waiting" /\ torchrun = "running" /\ rank # NoRanks
  /\ outcome' = [outcome EXCEPT !.timed_out = TRUE]
  /\ phase' = "terminating"
  /\ UNCHANGED <<ended, processVars, samplerVars, evidenceVars, survivors>>

(* The hard timeout, and SIGTERM to torchrun. *)
HardTimeout ==
  /\ phase = "waiting" /\ torchrun = "running"
  /\ outcome' = [outcome EXCEPT !.timed_out = TRUE]
  /\ phase' = "terminating"
  /\ UNCHANGED <<ended, processVars, samplerVars, evidenceVars, survivors>>

(* The grace period ends: SIGKILL. *)
GraceEnds ==
  /\ phase = "terminating" /\ torchrun = "running"
  /\ phase' = "killing"
  /\ UNCHANGED <<ended, outcome, processVars, samplerVars, evidenceVars, survivors>>

(* The wait after SIGKILL raises out of the cleanup. *)
SecondWaitRaises ==
  /\ phase = "killing" /\ torchrun = "running"
  /\ End("raised")
  /\ UNCHANGED <<outcome, processVars, samplerVars, evidenceVars, survivors>>

(* An event file is read line by line; half a line raises. *)
Torn == \E k \in Ranks : events[k] = "torn"

Validate ==
  /\ phase = "validating" /\ ~Torn
  /\ outcome' = [outcome EXCEPT !.participation_valid =
       ~outcome.timed_out /\ \A k \in Ranks : events[k] = "complete"]
  /\ phase' = "stopping"
  /\ UNCHANGED <<ended, processVars, samplerVars, evidenceVars, survivors>>

ValidationRaises ==
  /\ phase = "validating" /\ Torn
  /\ End("raised")
  /\ UNCHANGED <<outcome, processVars, samplerVars, evidenceVars, survivors>>

StopCollector ==
  /\ phase = "stopping"
  /\ sampler' = IF sampler = "sampling" THEN "stopping" ELSE sampler
  /\ phase' = "joining"
  /\ UNCHANGED <<ended, outcome, processVars, late, evidenceVars, survivors>>

(* The thread has ended, or the join times out or is interrupted: every    *)
(* exception of stop becomes a collector error.                            *)
JoinCollector ==
  /\ phase = "joining"
  /\ outcome' = [outcome EXCEPT !.collector_error = sampler # "stopped"]
  /\ phase' = "writing"
  /\ UNCHANGED <<ended, processVars, samplerVars, evidenceVars, survivors>>

(* Mutants: the return code or the collector's error is left out.          *)
ExitStatusOfRanks ==
  IF outcome.timed_out THEN "timeout"
  ELSE IF outcome.participation_valid /\ ~outcome.collector_error THEN "completed"
  ELSE "failed"
ExitStatusOfLaunch ==
  IF outcome.timed_out THEN "timeout"
  ELSE IF torchrun = "succeeded" /\ outcome.participation_valid THEN "completed"
  ELSE "failed"

ExitStatus ==
  IF outcome.timed_out THEN "timeout"
  ELSE IF torchrun = "succeeded" /\ outcome.participation_valid /\ ~outcome.collector_error
  THEN "completed" ELSE "failed"

Unwritten == {i \in DOMAIN EvidenceFiles : files[EvidenceFiles[i]] = "absent"}
NextFile == EvidenceFiles[CHOOSE i \in Unwritten : \A j \in Unwritten : i <= j]

(* _write_run_evidence reads the event files again before its first file. *)
EventsUnreadable == Torn /\ Unwritten = DOMAIN EvidenceFiles

WriteFile ==
  /\ phase = "writing" /\ Unwritten # {} /\ ~EventsUnreadable
  /\ files' = [files EXCEPT ![NextFile] = "whole"]
  /\ exit_status' = IF NextFile = "manifest.json" THEN ExitStatus ELSE exit_status
  /\ UNCHANGED <<phase, ended, outcome, processVars, samplerVars, survivors>>

(* A write that fails removes its file. *)
WriteRaises ==
  /\ phase = "writing" /\ Unwritten # {}
  /\ StoreFails \/ EventsUnreadable
  /\ End("raised")
  /\ UNCHANGED <<outcome, processVars, samplerVars, evidenceVars, survivors>>

(* After the manifest the event files are read once more for the PCIe      *)
(* observation.                                                            *)
Return ==
  /\ phase = "writing" /\ Unwritten = {}
  /\ End(IF Torn THEN "raised" ELSE "returned")
  /\ UNCHANGED <<outcome, processVars, samplerVars, evidenceVars, survivors>>

(* A KeyboardInterrupt, as from a notebook's stop button, leaves the       *)
(* thread and torchrun alone; within a write it removes the file.          *)
Interrupt ==
  /\ phase \notin {"idle", "joining"}
  /\ End("interrupted")
  /\ UNCHANGED <<outcome, processVars, samplerVars, evidenceVars, survivors>>

(* The process dies and with it its threads; a file may be half written.   *)
Die ==
  /\ phase # "idle"
  /\ End("interrupted")
  /\ sampler' = IF sampler \in {"sampling", "stopping"} THEN "stopped" ELSE sampler
  /\ \/ UNCHANGED files
     \/ /\ phase = "writing" /\ Unwritten # {}
        /\ files' = [files EXCEPT ![NextFile] = "partial"]
  /\ UNCHANGED <<outcome, processVars, late, exit_status, survivors>>

OrchestratorStep ==
  \/ Launch \/ RefuseToLaunch \/ TorchrunReturns \/ HardTimeout \/ GraceEnds \/ SecondWaitRaises
  \/ Validate \/ ValidationRaises \/ StopCollector \/ JoinCollector
  \/ WriteFile \/ WriteRaises \/ Return

Next ==
  \/ ProcessStep \/ SurvivorStep \/ SamplerStep
  \/ BeginRun \/ OrchestratorStep \/ Interrupt \/ Die

Spec == Init /\ [][Next]_vars

(* The orchestrator goes on and its timeouts expire.  Nothing is assumed   *)
(* of torchrun, the ranks and the sampler: they may hang.                  *)
FairSpec == Spec /\ WF_vars(OrchestratorStep)

-----------------------------------------------------------------------------

Phases ==
  {"idle", "launching", "waiting", "terminating", "killing",
   "validating", "stopping", "joining", "writing"}

TypeOK ==
  /\ phase \in Phases
  /\ ended \in {"no", "returned", "raised", "interrupted"}
  /\ outcome \in [timed_out : BOOLEAN, participation_valid : BOOLEAN, collector_error : BOOLEAN]
  /\ torchrun \in {"none", "running", "succeeded", "failed"}
  /\ joint \in BOOLEAN
  /\ rank \in [Ranks -> RankStates]
  /\ events \in [Ranks -> {"incomplete", "complete", "torn"}]
  /\ sampler \in {"none", "sampling", "stopping", "stopped", "failed"}
  /\ late \in BOOLEAN
  /\ files \in [FileNames -> {"absent", "partial", "whole"}]
  /\ exit_status \in {"none", "completed", "failed", "timeout"}
  /\ survivors \subseteq {"torchrun", "worker"}

(* The workers of two runs never live at the same time, although workers   *)
(* outlive an interrupted call, a dead orchestrator and a killed torchrun. *)
OneRunAtATime == survivors = {} \/ Live = {}

(* A manifest that says "completed" is earned: both ranks wrote their      *)
(* completion and exited without a crash, torchrun was not killed, and all *)
(* other evidence is on disk, whole.                                       *)
CompletedIsEarned ==
  exit_status = "completed" =>
    /\ torchrun = "succeeded"
    /\ \A k \in Ranks : rank[k] = "exited" /\ events[k] = "complete"
    /\ \A f \in FileNames : files[f] = "whole"

(* The telemetry of a completed run is final: its sampler has ended and    *)
(* every sample it took is in telemetry.jsonl.                             *)
CompletedTelemetryIsFinal ==
  exit_status = "completed" => sampler = "stopped" /\ ~late

(* A call always ends: the hard timeout, the grace period, the second wait *)
(* and the join bound whatever torchrun, the ranks and the sampler do.     *)
EveryCallEnds == phase # "idle" ~> phase = "idle"

(* "Run one isolated two-rank experiment and preserve success or failure   *)
(* evidence" (docstring of run_experiment): a call that was not            *)
(* interrupted leaves a manifest.                                          *)
EveryRunLeavesEvidence ==
  ended \in {"returned", "raised"} => files["manifest.json"] = "whole"

=============================================================================
