------------------------- MODULE RunLifecycle_proofs -------------------------
(***************************************************************************)
(* Proofs about RunLifecycle, for any number of calls of run_experiment,   *)
(* with and without failing writes: no two runs have workers at the same   *)
(* time, and a manifest that says "completed" is earned and final.         *)
(***************************************************************************)
EXTENDS RunLifecycle, TLAPS

-----------------------------------------------------------------------------
(* The invariant *)

(* torchrun succeeds only after both ranks exited. *)
SuccessIsOfBoth == torchrun = "succeeded" => \A k \in Ranks : rank[k] = "exited"

(* Participation is validated after torchrun, which alone tears files.     *)
ValidationIsFinal ==
  outcome.participation_valid =>
    torchrun # "running" /\ \A k \in Ranks : events[k] = "complete"

(* The launcher is done with torchrun when it validates. *)
LaunchIsOver ==
  /\ phase \in {"validating", "stopping", "joining", "writing"} => torchrun # "running"
  /\ phase \notin {"idle", "launching"} => torchrun # "none"

(* What is known of a run when it is launched. *)
LaunchIsFresh == phase = "launching" => outcome = Unknown

(* The files are begun when the outcome is known; only a dead orchestrator *)
(* leaves a part of one.                                                   *)
FilesAreWrittenLast ==
  /\ phase \notin {"idle", "writing"} => files = NoFiles
  /\ phase = "writing" => \A f \in FileNames : files[f] # "partial"
  /\ exit_status # "none" => files["manifest.json"] = "whole"

(* A sample comes late only if its file is on disk. *)
LateIsAfterTheFile == late => files["telemetry.jsonl"] = "whole"

(* A collector without an error has ended before the first file. *)
CollectorIsJoined ==
  phase = "writing" /\ ~outcome.collector_error => sampler = "stopped" /\ ~late

IInv ==
  /\ TypeOK
  /\ OneRunAtATime
  /\ SuccessIsOfBoth /\ ValidationIsFinal /\ LaunchIsOver /\ LaunchIsFresh
  /\ FilesAreWrittenLast /\ LateIsAfterTheFile /\ CollectorIsJoined
  /\ CompletedIsEarned /\ CompletedTelemetryIsFinal

LEMMA Files ==
  /\ DOMAIN EvidenceFiles = {1, 2, 3}
  /\ EvidenceFiles[1] = "telemetry.jsonl" /\ EvidenceFiles[2] = "launch.json"
  /\ EvidenceFiles[3] = "manifest.json"
  /\ FileNames = {"telemetry.jsonl", "launch.json", "manifest.json"}
  <1>1. /\ DOMAIN EvidenceFiles = {1, 2, 3}
        /\ EvidenceFiles[1] = "telemetry.jsonl" /\ EvidenceFiles[2] = "launch.json"
        /\ EvidenceFiles[3] = "manifest.json"
    BY DEF EvidenceFiles
  <1>2. QED
    BY <1>1 DEF FileNames

(* The next file is absent, and the manifest is the last one. *)
LEMMA NextFileIs ==
  ASSUME Unwritten # {}
  PROVE  /\ NextFile \in FileNames /\ files[NextFile] = "absent"
         /\ NextFile = "manifest.json" =>
              \A f \in FileNames \ {"manifest.json"} : files[f] # "absent"
  <1>1. Unwritten \subseteq {1, 2, 3}
    BY Files DEF Unwritten
  <1>2. \E i \in Unwritten : \A j \in Unwritten : i <= j
    <2>1. CASE 1 \in Unwritten
      BY <1>1, <2>1
    <2>2. CASE 1 \notin Unwritten /\ 2 \in Unwritten
      BY <1>1, <2>2
    <2>3. CASE 1 \notin Unwritten /\ 2 \notin Unwritten
      <3>1. Unwritten = {3}
        BY <1>1, <2>3
      <3>2. QED
        BY <3>1
    <2>4. QED
      BY <2>1, <2>2, <2>3
  <1>3. PICK i \in Unwritten : (\A j \in Unwritten : i <= j) /\ NextFile = EvidenceFiles[i]
    BY <1>2 DEF NextFile
  <1>4. NextFile \in FileNames /\ files[NextFile] = "absent"
    BY <1>1, <1>3 DEF Unwritten, FileNames
  <1>5. ASSUME NextFile = "manifest.json"
        PROVE  1 \notin Unwritten /\ 2 \notin Unwritten
    <2>1. i \in {1, 2, 3} /\ EvidenceFiles[i] = "manifest.json"
      BY <1>1, <1>3, <1>5
    <2>2. i = 3
      BY <2>1, Files
    <2>3. QED
      BY <1>3, <2>2
  <1>6. QED
    BY <1>4, <1>5, Files DEF Unwritten

LEMMA Begins == Init => IInv
  <1> SUFFICES ASSUME Init PROVE IInv
    OBVIOUS
  <1>1. TypeOK
    BY DEF Init, TypeOK, Phases, Unknown, NoRanks, NoEvents, NoFiles, RankStates
  <1>2. OneRunAtATime /\ SuccessIsOfBoth /\ LaunchIsOver /\ LaunchIsFresh /\ CollectorIsJoined
    BY DEF Init, OneRunAtATime, SuccessIsOfBoth, LaunchIsOver, LaunchIsFresh, CollectorIsJoined
  <1>3. ValidationIsFinal
    BY DEF Init, ValidationIsFinal, Unknown
  <1>4. /\ FilesAreWrittenLast /\ LateIsAfterTheFile
        /\ CompletedIsEarned /\ CompletedTelemetryIsFinal
    BY DEF Init, FilesAreWrittenLast, LateIsAfterTheFile, CompletedIsEarned,
           CompletedTelemetryIsFinal
  <1>5. QED
    BY <1>1, <1>2, <1>3, <1>4 DEF IInv

-----------------------------------------------------------------------------
(* Types *)

LEMMA TypeStep ==
  ASSUME TypeOK, [Next]_vars
  PROVE  TypeOK'
  <1> USE DEF TypeOK, RankStates
  <1>1. CASE ProcessStep
    <2>1. UNCHANGED <<phase, ended, outcome, samplerVars, evidenceVars, survivors>>
      BY <1>1 DEF ProcessStep
    <2>2. /\ torchrun' \in {"none", "running", "succeeded", "failed"} /\ joint' \in BOOLEAN
          /\ rank' \in [Ranks -> RankStates]
          /\ events' \in [Ranks -> {"incomplete", "complete", "torn"}]
      BY <1>1 DEF ProcessStep, Spawn, FinalBarrier, TorchrunExits, TorchrunDies, RankCompletes,
         RankExits, RankFails, KillRank, PassFinalBarrier, Completes, Fails, IsKilled
    <2>3. QED
      BY <2>1, <2>2 DEF samplerVars, evidenceVars
  <1>2. CASE SurvivorStep
    BY <1>2 DEF SurvivorStep, processVars, samplerVars, evidenceVars
  <1>3. CASE SamplerStep
    <2>1. /\ sampler' \in {"stopped", "failed"} /\ late' \in BOOLEAN
          /\ UNCHANGED <<phase, ended, outcome, processVars, evidenceVars, survivors>>
      BY <1>3 DEF SamplerStep, LastCycle, SamplerFails
    <2>2. QED
      BY <2>1 DEF processVars, evidenceVars
  <1>4. CASE BeginRun
    <2>1. /\ torchrun' = "none" /\ joint' \in BOOLEAN /\ late' \in BOOLEAN
          /\ exit_status' = "none" /\ phase' \in Phases
          /\ sampler' \in {"none", "sampling", "stopping", "stopped", "failed"}
          /\ ended' \in {"no", "returned", "raised", "interrupted"}
      BY <1>4 DEF BeginRun, Phases
    <2>2. outcome' \in [timed_out : BOOLEAN, participation_valid : BOOLEAN, collector_error : BOOLEAN]
      BY <1>4 DEF BeginRun, Unknown
    <2>3. rank' \in [Ranks -> RankStates] /\ events' \in [Ranks -> {"incomplete", "complete", "torn"}]
      BY <1>4 DEF BeginRun, NoRanks, NoEvents
    <2>4. files' \in [FileNames -> {"absent", "partial", "whole"}]
      BY <1>4 DEF BeginRun, NoFiles
    <2>5. survivors' \subseteq {"torchrun", "worker"}
      BY <1>4 DEF BeginRun, Live
    <2>6. QED
      BY <2>1, <2>2, <2>3, <2>4, <2>5
  <1>5. CASE HardTimeout \/ Validate \/ JoinCollector
    <2>1. outcome' \in [timed_out : BOOLEAN, participation_valid : BOOLEAN, collector_error : BOOLEAN]
      <3>1. CASE HardTimeout
        BY <3>1 DEF HardTimeout
      <3>2. CASE Validate
        BY <3>2 DEF Validate
      <3>3. CASE JoinCollector
        BY <3>3 DEF JoinCollector
      <3>4. QED
        BY <1>5, <3>1, <3>2, <3>3
    <2>2. QED
      BY <1>5, <2>1 DEF HardTimeout, Validate, JoinCollector, Phases, processVars, samplerVars,
         evidenceVars
  <1>6. CASE Launch \/ StopCollector
    <2>1. UNCHANGED <<ended, outcome, joint, rank, events, late, evidenceVars, survivors>>
      BY <1>6 DEF Launch, StopCollector, processVars, samplerVars
    <2>2. /\ phase' \in Phases /\ torchrun' \in {"none", "running", "succeeded", "failed"}
          /\ sampler' \in {"none", "sampling", "stopping", "stopped", "failed"}
      BY <1>6 DEF Launch, StopCollector, Phases, processVars, samplerVars
    <2>3. QED
      BY <2>1, <2>2 DEF evidenceVars
  <1>7. CASE \/ RefuseToLaunch \/ TorchrunReturns \/ GraceEnds \/ SecondWaitRaises
              \/ ValidationRaises \/ WriteRaises \/ Return \/ Interrupt
    <2>1. /\ phase' \in Phases /\ ended' \in {"no", "returned", "raised", "interrupted"}
          /\ UNCHANGED <<outcome, processVars, samplerVars, evidenceVars, survivors>>
      BY <1>7 DEF RefuseToLaunch, TorchrunReturns, GraceEnds, SecondWaitRaises, ValidationRaises,
         WriteRaises, Return, Interrupt, End, Phases
    <2>2. QED
      BY <2>1 DEF processVars, samplerVars, evidenceVars
  <1>8. CASE WriteFile
    BY <1>8 DEF WriteFile, ExitStatus, processVars, samplerVars
  <1>9. CASE Die
    BY <1>9 DEF Die, End, Phases, processVars
  <1>10. CASE UNCHANGED vars
    BY <1>10 DEF vars, processVars, samplerVars, evidenceVars
  <1>11. QED
    BY <1>1, <1>2, <1>3, <1>4, <1>5, <1>6, <1>7, <1>8, <1>9, <1>10
       DEF Next, OrchestratorStep

-----------------------------------------------------------------------------
(* The processes *)

(* A step of run_experiment that leaves the processes and the thread alone. *)
Quiet ==
  \/ RefuseToLaunch \/ TorchrunReturns \/ HardTimeout \/ GraceEnds \/ SecondWaitRaises
  \/ Validate \/ ValidationRaises \/ StopCollector \/ JoinCollector
  \/ WriteFile \/ WriteRaises \/ Return \/ Interrupt \/ Die

LEMMA Steps ==
  ASSUME [Next]_vars
  PROVE  \/ ProcessStep \/ SurvivorStep \/ SamplerStep \/ BeginRun \/ Launch \/ Quiet
         \/ UNCHANGED vars
  BY DEF Next, OrchestratorStep, Quiet

LEMMA QuietLeaves ==
  ASSUME Quiet
  PROVE  UNCHANGED <<processVars, late, survivors>>
  BY DEF Quiet, RefuseToLaunch, TorchrunReturns, HardTimeout, GraceEnds, SecondWaitRaises,
     Validate, ValidationRaises, StopCollector, JoinCollector, WriteFile, WriteRaises, Return,
     Interrupt, Die, samplerVars

(* The ranks and torchrun end: none begins but the ranks of a running      *)
(* torchrun, and a rank that exited stays so.                              *)
LEMMA ProcessesEnd ==
  ASSUME TypeOK, ProcessStep
  PROVE  /\ UNCHANGED <<phase, ended, outcome, samplerVars, evidenceVars, survivors>>
         /\ torchrun # "running" => torchrun' = torchrun
         /\ torchrun = "running" => torchrun' \in {"running", "succeeded", "failed"}
         /\ torchrun' = "succeeded" /\ torchrun # "succeeded" =>
              \A k \in Ranks : rank'[k] = "exited"
         /\ \A k \in Ranks :
              /\ Alive(k)' => Alive(k) \/ torchrun = "running"
              /\ rank[k] = "exited" => rank'[k] = "exited" \/ rank = NoRanks
              /\ events'[k] # events[k] => events'[k] = "complete" \/ torchrun = "running"
  <1> USE DEF TypeOK, RankStates, Alive
  <1>0. UNCHANGED <<phase, ended, outcome, samplerVars, evidenceVars, survivors>>
    BY DEF ProcessStep
  <1>1. CASE Spawn
    BY <1>0, <1>1 DEF Spawn
  <1>2. CASE FinalBarrier
    BY <1>0, <1>2 DEF FinalBarrier, PassFinalBarrier
  <1>3. CASE TorchrunExits \/ TorchrunDies
    BY <1>0, <1>3 DEF TorchrunExits, TorchrunDies
  <1>4. ASSUME NEW j \in Ranks, RankCompletes(j)
        PROVE  /\ torchrun' = torchrun
               /\ \A k \in Ranks : /\ Alive(k)' => Alive(k)
                                   /\ rank[k] = "exited" => rank'[k] = "exited"
                                   /\ events'[k] # events[k] => events'[k] = "complete"
    BY <1>4 DEF RankCompletes, Completes
  <1>5. ASSUME NEW j \in Ranks, RankExits(j) \/ RankFails(j)
        PROVE  /\ torchrun' = torchrun /\ events' = events
               /\ \A k \in Ranks : /\ Alive(k)' => Alive(k)
                                   /\ rank[k] = "exited" => rank'[k] = "exited"
    BY <1>5 DEF RankExits, RankFails, Fails
  <1>6. ASSUME NEW j \in Ranks, KillRank(j)
        PROVE  /\ torchrun' = torchrun /\ torchrun = "running"
               /\ \A k \in Ranks : /\ Alive(k)' => Alive(k)
                                   /\ rank[k] = "exited" => rank'[k] = "exited"
    BY <1>6 DEF KillRank, IsKilled
  <1>7. QED
    BY <1>0, <1>1, <1>2, <1>3, <1>4, <1>5, <1>6 DEF ProcessStep

LEMMA OneRunStep ==
  ASSUME IInv, [Next]_vars
  PROVE  OneRunAtATime'
  <1>0. TypeOK /\ (survivors = {} \/ Live = {})
    BY DEF IInv, OneRunAtATime
  <1>1. Live = {} <=> torchrun # "running" /\ \A k \in Ranks : ~Alive(k)
    BY DEF Live
  <1>2. Live' = {} <=> torchrun' # "running" /\ \A k \in Ranks : ~Alive(k)'
    BY DEF Live
  <1>3. CASE ProcessStep
    BY <1>0, <1>1, <1>2, <1>3, ProcessesEnd DEF OneRunAtATime
  <1>4. CASE SurvivorStep
    BY <1>0, <1>1, <1>2, <1>4 DEF SurvivorStep, OneRunAtATime, processVars, Alive
  <1>5. CASE BeginRun
    BY <1>2, <1>5 DEF BeginRun, NoRanks, Alive, OneRunAtATime
  <1>6. CASE Launch
    BY <1>6 DEF Launch, StaleWorkers, OneRunAtATime
  <1>7. CASE SamplerStep \/ Quiet \/ UNCHANGED vars
    <2>1. UNCHANGED <<torchrun, rank, survivors>>
      BY <1>7, QuietLeaves DEF SamplerStep, vars, processVars
    <2>2. QED
      BY <1>0, <1>1, <1>2, <2>1 DEF OneRunAtATime, Alive
  <1>8. QED
    BY <1>3, <1>4, <1>5, <1>6, <1>7, Steps

LEMMA LaunchStep ==
  ASSUME IInv, [Next]_vars
  PROVE  SuccessIsOfBoth' /\ ValidationIsFinal' /\ LaunchIsOver' /\ LaunchIsFresh'
  <1>0. TypeOK /\ SuccessIsOfBoth /\ ValidationIsFinal /\ LaunchIsOver /\ LaunchIsFresh
    BY DEF IInv
  <1> USE DEF SuccessIsOfBoth, ValidationIsFinal, LaunchIsOver, LaunchIsFresh
  <1>1. CASE ProcessStep
    <2>1. phase' = phase /\ outcome' = outcome
      BY <1>1 DEF ProcessStep
    <2>2. \A k \in Ranks : rank[k] = "exited" => rank # NoRanks
      BY DEF NoRanks
    <2>3. SuccessIsOfBoth'
      BY <1>0, <1>1, <2>2, ProcessesEnd
    <2>4. ValidationIsFinal' /\ LaunchIsOver' /\ LaunchIsFresh'
      BY <1>0, <1>1, <2>1, ProcessesEnd
    <2>5. QED
      BY <2>3, <2>4
  <1>2. CASE BeginRun
    BY <1>2 DEF BeginRun, Unknown
  <1>3. CASE Launch
    <2>1. outcome' = outcome /\ events' = events /\ phase' = "waiting" /\ torchrun' = "running"
      BY <1>3 DEF Launch
    <2>2. ~outcome.participation_valid
      BY <1>0, <1>3 DEF Launch, Unknown
    <2>3. QED
      BY <2>1, <2>2
  <1>4. CASE SurvivorStep \/ SamplerStep \/ UNCHANGED vars
    BY <1>0, <1>4 DEF SurvivorStep, SamplerStep, vars, processVars
  <1>5. CASE Quiet
    <2>1. UNCHANGED <<torchrun, rank, events>>
      BY <1>5, QuietLeaves DEF processVars
    <2>2. ASSUME outcome'.participation_valid, ~outcome.participation_valid
          PROVE  phase = "validating" /\ \A k \in Ranks : events[k] = "complete"
      <3>1. CASE Validate
        BY <1>0, <2>2, <3>1 DEF Validate, TypeOK
      <3>2. CASE HardTimeout
        BY <1>0, <2>2, <3>2 DEF HardTimeout, TypeOK
      <3>3. CASE JoinCollector
        BY <1>0, <2>2, <3>3 DEF JoinCollector, TypeOK
      <3>4. CASE \/ RefuseToLaunch \/ TorchrunReturns \/ GraceEnds \/ SecondWaitRaises
                 \/ ValidationRaises \/ StopCollector \/ WriteFile \/ WriteRaises \/ Return
                 \/ Interrupt \/ Die
        BY <2>2, <3>4 DEF RefuseToLaunch, TorchrunReturns, GraceEnds, SecondWaitRaises,
           ValidationRaises, StopCollector, WriteFile, WriteRaises, Return, Interrupt, Die
      <3>5. QED
        BY <1>5, <3>1, <3>2, <3>3, <3>4 DEF Quiet
    <2>3. LaunchIsOver' /\ LaunchIsFresh'
      BY <1>0, <1>5, <2>1 DEF Quiet, RefuseToLaunch, TorchrunReturns, HardTimeout, GraceEnds,
         SecondWaitRaises, Validate, ValidationRaises, StopCollector, JoinCollector, WriteFile,
         WriteRaises, Return, Interrupt, Die, End
    <2>4. QED
      BY <1>0, <2>1, <2>2, <2>3
  <1>6. QED
    BY <1>1, <1>2, <1>3, <1>4, <1>5, Steps

-----------------------------------------------------------------------------
(* The evidence *)

EvidenceInv ==
  /\ FilesAreWrittenLast /\ LateIsAfterTheFile /\ CollectorIsJoined
  /\ CompletedIsEarned /\ CompletedTelemetryIsFinal

LEMMA EvidenceOfProcesses ==
  ASSUME IInv, ProcessStep \/ SurvivorStep \/ Launch \/ UNCHANGED vars
  PROVE  EvidenceInv'
  <1>1. UNCHANGED <<outcome, sampler, late, files, exit_status>>
    <2>1. CASE ProcessStep
      BY <2>1 DEF ProcessStep, samplerVars, evidenceVars
    <2>2. CASE SurvivorStep
      BY <2>2 DEF SurvivorStep, samplerVars, evidenceVars
    <2>3. CASE Launch
      BY <2>3 DEF Launch, samplerVars, evidenceVars
    <2>4. CASE UNCHANGED vars
      BY <2>4 DEF vars, samplerVars, evidenceVars
    <2>5. QED
      BY <2>1, <2>2, <2>3, <2>4
  <1>2. phase' = phase \/ (phase = "launching" /\ phase' = "waiting")
    <2>1. CASE Launch
      BY <2>1 DEF Launch
    <2>2. CASE ProcessStep
      BY <2>2 DEF ProcessStep
    <2>3. CASE SurvivorStep \/ UNCHANGED vars
      BY <2>3 DEF SurvivorStep, vars
    <2>4. QED
      BY <2>1, <2>2, <2>3
  <1>3. FilesAreWrittenLast' /\ LateIsAfterTheFile' /\ CollectorIsJoined'
    BY <1>1, <1>2 DEF IInv, FilesAreWrittenLast, LateIsAfterTheFile, CollectorIsJoined
  <1>4. CompletedTelemetryIsFinal'
    BY <1>1 DEF IInv, CompletedTelemetryIsFinal
  <1>5. CompletedIsEarned'
    <2> SUFFICES ASSUME exit_status = "completed" PROVE CompletedIsEarned'
      BY <1>1 DEF CompletedIsEarned
    <2>1. /\ TypeOK /\ torchrun = "succeeded"
          /\ \A k \in Ranks : rank[k] = "exited" /\ events[k] = "complete"
          /\ \A f \in FileNames : files[f] = "whole"
      BY DEF IInv, CompletedIsEarned
    <2>2. CASE ProcessStep
      <3>1. rank # NoRanks
        BY <2>1 DEF NoRanks, Ranks
      <3>2. torchrun' = "succeeded" /\ \A k \in Ranks : rank'[k] = "exited" /\ events'[k] = "complete"
        BY <2>1, <2>2, <3>1, ProcessesEnd
      <3>3. QED
        BY <1>1, <2>1, <3>2 DEF CompletedIsEarned
    <2>3. CASE Launch
      BY <2>1, <2>3, Files DEF Launch, IInv, FilesAreWrittenLast, NoFiles
    <2>4. CASE SurvivorStep \/ UNCHANGED vars
      BY <1>1, <2>1, <2>4 DEF SurvivorStep, vars, processVars, CompletedIsEarned
    <2>5. QED
      BY <2>2, <2>3, <2>4
  <1>6. QED
    BY <1>3, <1>4, <1>5 DEF EvidenceInv

LEMMA EvidenceOfSampler ==
  ASSUME IInv, SamplerStep
  PROVE  EvidenceInv'
  <1>1. /\ UNCHANGED <<phase, outcome, torchrun, rank, events, files, exit_status>>
        /\ sampler \in {"sampling", "stopping"}
    BY DEF SamplerStep, LastCycle, SamplerFails, processVars, evidenceVars
  <1>2. late' => late \/ files["telemetry.jsonl"] = "whole"
    BY DEF SamplerStep, LastCycle, SamplerFails
  <1>3. QED
    BY <1>1, <1>2 DEF EvidenceInv, IInv, FilesAreWrittenLast, LateIsAfterTheFile, CollectorIsJoined,
       CompletedIsEarned, CompletedTelemetryIsFinal

LEMMA EvidenceOfBegin ==
  ASSUME BeginRun
  PROVE  EvidenceInv'
  BY DEF BeginRun, EvidenceInv, FilesAreWrittenLast, LateIsAfterTheFile, CollectorIsJoined,
     CompletedIsEarned, CompletedTelemetryIsFinal

(* A step that neither writes a file nor moves the sampler. *)
LEMMA EvidenceLeft ==
  ASSUME IInv, UNCHANGED <<files, exit_status, torchrun, rank, events, late>>,
         sampler' = sampler \/ sampler \in {"sampling", "stopping"}
  PROVE  LateIsAfterTheFile' /\ CompletedIsEarned' /\ CompletedTelemetryIsFinal'
  BY DEF IInv, LateIsAfterTheFile, CompletedIsEarned, CompletedTelemetryIsFinal

LEMMA EvidenceOfEnd ==
  ASSUME IInv,
         \/ RefuseToLaunch \/ TorchrunReturns \/ HardTimeout \/ GraceEnds \/ SecondWaitRaises
         \/ Validate \/ ValidationRaises \/ StopCollector \/ WriteRaises \/ Return \/ Interrupt
  PROVE  EvidenceInv'
  <1>1. /\ UNCHANGED <<files, exit_status, torchrun, rank, events, late>>
        /\ sampler' = sampler \/ sampler = "sampling"
    BY DEF RefuseToLaunch, TorchrunReturns, HardTimeout, GraceEnds, SecondWaitRaises, Validate,
       ValidationRaises, StopCollector, WriteRaises, Return, Interrupt, processVars, samplerVars,
       evidenceVars
  <1>2. phase' # "writing" /\ (phase' # "idle" => phase \notin {"idle", "writing"})
    BY DEF RefuseToLaunch, TorchrunReturns, HardTimeout, GraceEnds, SecondWaitRaises, Validate,
       ValidationRaises, StopCollector, WriteRaises, Return, Interrupt, End
  <1>3. FilesAreWrittenLast' /\ CollectorIsJoined'
    BY <1>1, <1>2 DEF IInv, FilesAreWrittenLast, CollectorIsJoined
  <1>4. QED
    BY <1>1, <1>3, EvidenceLeft DEF EvidenceInv

LEMMA EvidenceOfJoin ==
  ASSUME IInv, JoinCollector
  PROVE  EvidenceInv'
  <1>1. /\ UNCHANGED <<files, exit_status, torchrun, rank, events, sampler, late>>
        /\ phase = "joining" /\ phase' = "writing" /\ files = NoFiles
        /\ outcome'.collector_error = (sampler # "stopped")
    BY DEF JoinCollector, processVars, samplerVars, evidenceVars, IInv, FilesAreWrittenLast, TypeOK
  <1>2. ~late
    BY <1>1, Files DEF IInv, LateIsAfterTheFile, NoFiles, TypeOK
  <1>3. FilesAreWrittenLast' /\ CollectorIsJoined'
    BY <1>1, <1>2, Files DEF IInv, FilesAreWrittenLast, CollectorIsJoined, NoFiles
  <1>4. QED
    BY <1>1, <1>3, EvidenceLeft DEF EvidenceInv

(* "completed" is written last, after a validated participation and the    *)
(* end of torchrun and of the sampler.                                     *)
LEMMA EvidenceOfWrite ==
  ASSUME IInv, WriteFile
  PROVE  EvidenceInv'
  <1>1. /\ UNCHANGED <<phase, outcome, torchrun, rank, events, sampler, late>>
        /\ phase = "writing" /\ Unwritten # {}
        /\ files' = [files EXCEPT ![NextFile] = "whole"]
        /\ exit_status' = IF NextFile = "manifest.json" THEN ExitStatus ELSE exit_status
    BY DEF WriteFile, processVars, samplerVars
  <1>2. /\ NextFile \in FileNames /\ files[NextFile] = "absent"
        /\ NextFile = "manifest.json" =>
             \A f \in FileNames \ {"manifest.json"} : files[f] # "absent"
    BY <1>1, NextFileIs
  <1>3. /\ \A f \in FileNames : files'[f] = IF f = NextFile THEN "whole" ELSE files[f]
        /\ files \in [FileNames -> {"absent", "partial", "whole"}]
    BY <1>1 DEF IInv, TypeOK
  <1>4. FilesAreWrittenLast' /\ LateIsAfterTheFile' /\ CollectorIsJoined'
    BY <1>1, <1>2, <1>3, Files
       DEF IInv, FilesAreWrittenLast, LateIsAfterTheFile, CollectorIsJoined
  <1>5. CASE NextFile # "manifest.json"
    <2>1. exit_status # "completed"
      BY <1>2 DEF IInv, CompletedIsEarned
    <2>2. QED
      BY <1>1, <1>4, <1>5, <2>1 DEF EvidenceInv, CompletedIsEarned, CompletedTelemetryIsFinal
  <1>6. CASE NextFile = "manifest.json" /\ ExitStatus = "completed"
    <2>1. torchrun = "succeeded" /\ outcome.participation_valid /\ ~outcome.collector_error
      BY <1>6 DEF ExitStatus
    <2>2. \A k \in Ranks : rank[k] = "exited" /\ events[k] = "complete"
      BY <2>1 DEF IInv, SuccessIsOfBoth, ValidationIsFinal
    <2>3. \A f \in FileNames : files'[f] = "whole"
      BY <1>1, <1>2, <1>3, <1>6 DEF IInv, FilesAreWrittenLast
    <2>4. sampler = "stopped" /\ ~late
      BY <1>1, <2>1 DEF IInv, CollectorIsJoined
    <2>5. QED
      BY <1>1, <1>4, <2>1, <2>2, <2>3, <2>4
         DEF EvidenceInv, CompletedIsEarned, CompletedTelemetryIsFinal
  <1>7. CASE NextFile = "manifest.json" /\ ExitStatus # "completed"
    BY <1>1, <1>4, <1>7 DEF EvidenceInv, CompletedIsEarned, CompletedTelemetryIsFinal
  <1>8. QED
    BY <1>5, <1>6, <1>7

LEMMA EvidenceOfDeath ==
  ASSUME IInv, Die
  PROVE  EvidenceInv'
  <1>1. /\ UNCHANGED <<exit_status, torchrun, rank, events, late>>
        /\ phase' = "idle"
        /\ sampler' = sampler \/ sampler \in {"sampling", "stopping"}
    BY DEF Die, End, processVars
  <1>2. CASE files' = files
    BY <1>1, <1>2, EvidenceLeft DEF EvidenceInv, IInv, FilesAreWrittenLast, CollectorIsJoined
  <1>3. CASE Unwritten # {} /\ files' = [files EXCEPT ![NextFile] = "partial"]
    <2>1. NextFile \in FileNames /\ files[NextFile] = "absent"
      BY <1>3, NextFileIs
    <2>2. \A f \in FileNames : files[f] = "whole" => files'[f] = "whole"
      BY <1>3, <2>1 DEF IInv, TypeOK
    <2>3. exit_status # "completed"
      BY <2>1 DEF IInv, CompletedIsEarned
    <2>4. QED
      BY <1>1, <2>2, <2>3, Files DEF EvidenceInv, IInv, FilesAreWrittenLast, LateIsAfterTheFile,
         CollectorIsJoined, CompletedIsEarned, CompletedTelemetryIsFinal
  <1>4. QED
    BY <1>2, <1>3 DEF Die

-----------------------------------------------------------------------------
(* The theorems *)

LEMMA EveryStep ==
  IInv /\ [Next]_vars => IInv'
  <1> SUFFICES ASSUME IInv, [Next]_vars
               PROVE  IInv'
    OBVIOUS
  <1>1. TypeOK' /\ OneRunAtATime'
    BY TypeStep, OneRunStep DEF IInv
  <1>2. SuccessIsOfBoth' /\ ValidationIsFinal' /\ LaunchIsOver' /\ LaunchIsFresh'
    BY LaunchStep
  <1>3. EvidenceInv'
    <2>1. CASE Quiet
      BY <2>1, EvidenceOfEnd, EvidenceOfJoin, EvidenceOfWrite, EvidenceOfDeath DEF Quiet
    <2>2. QED
      BY <2>1, Steps, EvidenceOfProcesses, EvidenceOfSampler, EvidenceOfBegin
  <1>4. QED
    BY <1>1, <1>2, <1>3 DEF IInv, EvidenceInv

LEMMA Invariant == Spec => []IInv
  BY Begins, EveryStep, PTL DEF Spec

(* The state of a run of run_experiment keeps its type, whatever the       *)
(* processes do and wherever the call is cut off.                          *)
THEOREM TypeCorrect ==
  Spec => []TypeOK
  <1>1. IInv => TypeOK
    BY DEF IInv
  <1>2. QED
    BY <1>1, Invariant, PTL

(* No two runs have workers at the same time: the launcher's scan sees     *)
(* whatever an earlier call left behind.                                   *)
THEOREM OneRunCorrect ==
  Spec => []OneRunAtATime
  <1>1. IInv => OneRunAtATime
    BY DEF IInv
  <1>2. QED
    BY <1>1, Invariant, PTL

(* A manifest that says "completed" is earned by both ranks, torchrun and  *)
(* all other evidence.                                                     *)
THEOREM EarnedCorrect ==
  Spec => []CompletedIsEarned
  <1>1. IInv => CompletedIsEarned
    BY DEF IInv
  <1>2. QED
    BY <1>1, Invariant, PTL

(* The telemetry of a completed run is final. *)
THEOREM FinalCorrect ==
  Spec => []CompletedTelemetryIsFinal
  <1>1. IInv => CompletedTelemetryIsFinal
    BY DEF IInv
  <1>2. QED
    BY <1>1, Invariant, PTL

=============================================================================
