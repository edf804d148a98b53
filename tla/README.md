# Verification of CommGuard

CommGuard runs bounded two-GPU workloads, samples NVML telemetry while they run,
keeps everything as artifacts, and can send telemetry to a central service that
aggregates it for a detector. This directory holds TLA+ models of its stateful
parts, TLC configurations that check them on small instances and TLAPS proofs
of theorems that hold for every instance. Paths below are relative to
`src/commguard/` of the repository unless they begin with `docs/`.

## 1. Inventory

| Component (source) | State | Operations | Interacts with | Hard behaviour | Correct when |
|---|---|---|---|---|---|
| Ingestion service (`central/server.py`) | last sequence, last batch, last-seen times, accepted messages, samples per node and per agent; all in memory | `ingest`, restart | transports call `ingest`; aggregation reads its state | retries, reordering, forged orders, clock skew, restarts | stored telemetry of an agent is one chain, once, without a hole; node and agent views agree |
| Aggregation and detector (`central/server.py`) | none of its own: window and decision objects | `node_health`, `agent_health`, `aggregate_window`, `decide` | reads the service | stale windows, one rank of a node lost, skewed clocks | a score is given only about a window every agent contributed to |
| Telemetry agent (`central/agent.py`) | next sequence, last batch, pending queue | `collect_once`, `flush`, `heartbeat`, `run` | transport | refusals, exceptions in the middle of `flush`, restart | no batch leaves the queue before the service has it |
| HTTP transport (`central/transport.py`) | the call in flight | `send`, `do_POST` | agent, service | timeouts, late and lost requests | see agent and service |
| Offline transport (`central/transport.py`) | create-only request and acknowledgment files | `send` | agent, service (same process) | writes that raise before, in or after a file, retries against old files | files and service agree |
| Message checks (`central/security.py`, `central/schemas.py`) | none | `sign_message`, `verify_message`, `validate` | service, agent | none (pure) | - |
| Rank worker (`distributed/worker.py`, `duration.py`) | event file, steps, controller | `main`, one handler per mode, `should_continue` | the other rank through NCCL, torchrun, launcher | ranks that decide by their own clocks, faults, timeouts | every collective is met by the same one; completion is joint |
| Launcher (`distributed/launcher.py`, `participation.py`) | child process | `launch_torchrun`, `_terminate_tree`, `validate_participation` | torchrun, ranks, orchestrator | hard timeout, survivors, truncated event files | a run is valid only if both ranks completed |
| Orchestrator (`orchestrator.py`) | run directories, plans, markers, manifests | `run_experiment`, `run_calibration_sweep`, `run_matrix`, `run_segmented_series`, `run_adversarial_matrix`, `run_periodic_synchronization_study` | launcher, collector, store | exceptions between steps, interruption and resumption | evidence of every run; a resumed matrix repeats no sweep and no run |
| Collector (`telemetry/nvml.py`) | sampler thread, samples, stop event | `start`, `stop`, `_run` | orchestrator | stop while sampling, failing backend | stopped when its run ends |
| Artifact store (`artifacts/storage.py`) | files | `write_*`, `export`, `export_with_checksum`, `restore_archive` | everything that writes | a crash within a file, a tree lost and restored | create-only, complete or absent |
| Calibration (`calibration.py`) | none | `analyze_calibration`, `validate_standard_calibration_result`, calibration references | orchestrator | verdicts at their thresholds, one bad row among many | a supported sweep is clean, responds to the payload and belongs to the session it gates |
| Adversarial strategies (`adversarial.py`) | holdout plan | `should_synchronize`, `synchronization_steps`, `HoldoutPlan` | worker, orchestrator, evaluation | a holdout defined by family, session or configuration over many calls | what is final stays sealed until it is released |
| Features, coverage (`features/`) | coverage records | `align_gpu_samples`, windows, `_extract_planned_run`, `require_primary_coverage` | orchestrator, evaluation | boundaries of intervals and windows, GPUs sampled at different instants | no run is lost to a boundary; what is left out has a reason |
| Splits, baselines (`evaluation/`) | saved evaluations | `make_split_plan`, folds, `evaluate_detector` | coverage, holdout plan, orchestrator | rounding of small strata, diagnostics that reuse a split | groups, classes and families stay whole; a passed gate is enough |
| Corpus manifests (`corpus.py`) | plan and final manifests | `CorpusManifest.validate` | orchestrator | ids that collide | ids are unique |
| Reports, prototype archives, preflight, schemas, workload table, provenance, CLI, notebooks, tools | files or none | rendering, probing, validating, parsing | - | none a model checker reaches | - |

`PROJECT.json` lists each of these with its status, and the hazards of the code
line by line.

## 2. Modules

    CentralService            state and operations of the ingestion service
     |- CentralIngestion      the service facing any client
     |   \- CentralDetector   + aggregation and decisions            (proofs of both)
     \- NodeAgent             + the agents                         (proofs)
         |- HttpDelivery      agents and service over HTTP  => TelemetryPipe  (proofs)
         |   \- AgentRun      + NodeAgent.run, which ends with the first exception
         \- OfflineDelivery   agents and service over files => TelemetryPipe  (proofs)
    TelemetryPipe             what agents and service promise together (abstract)
    RankProcesses             the two ranks of a run as the launcher sees them (abstract)
     \- RunLifecycle          run_experiment, launcher, sampler thread, evidence (proofs)
    RankWorkers               the two ranks and their collectives  => RankProcesses  (proofs)
    Calibration               the verdict on a calibration sweep
     \- BenignMatrix          run_matrix on one tree, cut off, resumed, restored (proofs)
    FeatureExtraction         from telemetry to coverage records
    GroupedSplits             split plans and folds
     \- DetectorEvaluation    extraction, evaluation, adversarial collections,
                              holdout (extends both)                 (proofs)

An `MC...` module gives a module's constants their values; the `.cfg` files
choose the properties and bounds. The proofs about a module `M` are in
`M_proofs`. An operator whose comment begins with "Mutant" is a faulty variant
of the one that follows it and is used by nothing but `PROJECT.json`.

**CentralService.** One variable per field of `CentralIngestionService`;
`accepted_message_digests` is the set of accepted messages (equal digests are
equal messages) and `seen_message_ids` is derived from it. `ReasonCode(m)` is
the chain of early returns of `ingest` in their order, `Accept(m)` what a
message changes. A message's `envelope` field is the verdict of the checks that
look at the message alone (size, version, registration, HMAC, session, schema);
signatures are assumed to be unforgeable by agents. `clock` is the server's UTC
clock in ticks.

**CentralIngestion.** The most general client: every message of `Messages` may
arrive at any time, any number of times, in any order.

**CentralDetector.** `AggregateWindow` computes the window from the samples and
the health at that instant; `Decide` uses the window it has, however old. The
scorer is an arbitrary number in `0..MaxScore`. `received` is a history variable.

**NodeAgent.** `pending`, `next_sequence`, `last_batch_id`, as in the code;
identifiers are `<<agent, start, sequence>>`, fresh like `uuid4`. `acknowledged`
and `received` are history variables that the refinement uses.

**HttpDelivery.** `flush` is `Flush` (send the head), `Serve` (the handler and
`ingest`), `FlushReturns` (pop and go on, or stop). A call may time out before
or after it was served; a request that timed out before may arrive later as an
orphan, or be lost. Agents and the service restart. One request is served at a
time (`http.server.HTTPServer`); the repository leaves the server class to the
caller of `build_http_handler`, and a threading server is outside the model.

**AgentRun.** `NodeAgent.run` over HTTP: `RunCollects`, then `RunSends` and
`RunReturns` until `flush` is over, for a number of cycles the caller chooses.
Nothing in `run` catches an exception, so a reading that fails (`CollectRaises`), a
timeout or an answer 413 (`RunRaises`) ends it. The object and its queue stay, and
the caller may call `run` again (`StartRun`), or not; it may also call
`collect_once` and `flush` itself (`CalledDirectly`). There are no heartbeats here.

**OfflineDelivery.** `Send` is one call of `OfflineFileTransport.send`: the
request file, `ingest`, the acknowledgment file. `WriteOutcomes` has the ways
`_exclusive_json` may end: the file is complete; or it raises with no file
(`mkdir`, `open`), with a part of one (`write`) or with a complete one (`flush`,
`fsync`). So a message may be accepted with no acknowledgment on file, and
its retry then files `already_accepted`. Agents and service are one process, so
no other step interleaves within `send`. A crash of that process starts with
fresh identifiers and empty memory and never reads the old files: nothing to check. Heartbeats are modelled
over HTTP only; they take the same path through `send`.

**TelemetryPipe.** The abstract specification: batches are produced in order,
the service stores them in order without a hole, an agent forgets a batch only
after the service has stored it, and the service may forget everything.

**RankProcesses.** The abstract specification of two ranks: they work, pass the
barrier before completion together (or, if what they call depends on their
clocks, possibly alone), complete, and fail or are killed on the way. `RankWorkers`
is shown to implement it; `RunLifecycle` builds its rank actions on it, so that
what is checked of the lifecycle rests on what the ranks really do.

**RankWorkers.** A rank is the sequence of collectives it still has to call
before its next decision (`todo`), its stage, its steps and the time its own
controller has measured. `Meet` is one collective called by both. Different
collectives at the two ranks have no defined result in NCCL: each rank may hang
until the group's timeout or pass alone. torchrun kills the other rank of a
failed one. Names of collectives stand for kind and size, so that the two
checksum gathers of a training step are the same collective. One model of all
modes: `mode` and `minimum` (0 for a run by count) are chosen in `Init`. The
stages are starting, entering (the handler's collectives before its controller),
measuring, leaving, and the ends completed, failed, timed_out, killed. Cooldown, warmup work and what the collectives
compute are left out.

**RunLifecycle.** `phase` is the position in `run_experiment`: launching (after
the directory, `config.json` and the sampler's start), waiting (`communicate`),
terminating (SIGTERM sent), killing (SIGKILL sent), validating the event files,
stopping and joining the sampler, writing. The variables describe the last run
begun; of earlier runs only the kinds of processes that still live are kept
(`survivors`), since nothing else of them can affect a later run, so the number
of runs needs no bound. The ranks are those of `RankProcesses`, with an event file
each that is incomplete, complete or torn within a line; `joint` is chosen for
every run when its ranks are started.
What torchrun does to them is external: it kills the other rank of a broken one
and both on SIGTERM, it may hang, and it may be killed while they live.
`launch.json` stands for four files written alike. A KeyboardInterrupt raises
out of the call, except in `collector.stop`, where it becomes a collector error
(`except BaseException`); a dead orchestrator may leave a file half written.
Whether the caller turns a failed run into an exception (`raise_on_failure`)
changes no state. One orchestrator is assumed per host.

**Calibration.** A sweep maps each planned observation to the row measured for
it. The operators are those of `analyze_calibration` (medians, deviations, rank
correlation, captures) over whole numbers; medians are kept doubled and
deviations fourfold, so that every threshold of the code is a comparison of
integers. `Status` is its verdict.

**BenignMatrix.** One artifact tree, several sessions that call `run_matrix` on
it. A call is a sequence of stages: plan, calibrate (reuse or sweep, result,
completed marker), verify, one step for each planned slot, final, extract,
summary. Every file the call writes is one step that may instead leave the file
torn (`Write`, `CutTorn`), and a call may be cut off at every stage. `Export`
keeps a copy of the tree, `HostLost` restores it or leaves an empty one. What a
call may be refused for is its `outcome`; `interrupted` records, as history, where
calls were cut off.

**FeatureExtraction** and **GroupedSplits** are operators without state: the
reasons for which `_extract_planned_run` excludes a run, in their order, with the
windows and pairs it finds; and the set of plans `make_split_plan` may return
over all outcomes of its seeded shuffle. `MaximumMatching` and `SteadilySampled`
are definitions to compare with, and translate no code.

**DetectorEvaluation.** What follows a collection: the planned runs are
extracted one by one, `evaluate_detector` may be called with any extraction, any
families and minimum for its coverage gate (`Gates`), any adversarial rows and
plan, and its saved result opens `run_adversarial_matrix` and
`run_periodic_synchronization_study`; their extractions, and those of
`run_segmented_series`, come back as rows of later evaluations. At its end an
evaluation parses every run manifest of the tree; `tree.torn` has the sessions in
which a run died while it wrote its own. Models and scores are left out: of a fit
and a score the model keeps the runs they use. The SDK's planners, which keep no state, are asked before the
extraction begins (`Analyse`, `Dismiss`), to keep the product of states small.

## 3. Runs

| Run | Instance | What it shows |
|---|---|---|
| `detector` | 3 agents, 2 of them on one node, messages that agree, clash or are skewed | one chain per agent, no hole, node view = merged agent views; a scored decision covers every agent; node loss implies loss of all its agents; no evidence from the future |
| `http_pipe` | 1 agent restarted once, 3 messages of each object, oversized batches, heartbeats, 2 late requests, service restarts | HttpDelivery implements TelemetryPipe; stored batches of an agent come from one agent object |
| `http_retries` | 1 agent, 4 batches, runs of up to 3 cycles and direct calls, 2 late requests, clocks within the skew, oversized batches, no heartbeats or restarts | retries are refused only for a clock; a run that returns has delivered all that was queued, also what earlier runs left behind |
| `http_heartbeat` (violation) | heartbeat while a batch is queued | the batch's sequence is refused for ever |
| `offline` | 2 agents, one with a clock beyond the skew, writes that raise before, in and after a file | files agree with the service; OfflineDelivery implements TelemetryPipe |
| `offline_retry` (violation) | a refusal on file, then acceptance | the old refusal is returned for ever |
| `ranks` | all modes, 2 steps by count or timed with a minimum of one tick and a cap of 2, exceptions, an injected sleep | where the collectives do not depend on the ranks' clocks (`ClockIndependent`: runs by count, modes without a collective in their loop) they always match, completion is joint and a run without faults completes; in every case both ranks end and implement RankProcesses |
| `ranks_sparse` (violation) | sparse training, timed, no faults | the ranks leave their loops after different steps and the final agreement round is never reached |
| `lifecycle` | any number of runs one after the other, failing ranks, hanging or killed torchrun, failing sampler and writes, interrupts, deaths of the orchestrator | never two runs' workers at once; a completed manifest is earned, its telemetry final; every call ends |
| `lifecycle_evidence` (violation) | as `lifecycle`, no failing writes | an uninterrupted call can end without a manifest |
| `matrix` | 2 interchangeable sessions of any profiles, 2 slots of one family, 2 payloads measured twice, 12 sweeps (a clean one and one for each way not to be), 3 benign runs, 2 faults | a supported sweep is clean and responds; a session is calibrated once and collects only after its own supported sweep; no slot is filled twice; a gate rests on the session's own runs; a resume is refused only for a cause on record |
| `evaluation` | 10 slots (3 of each of 3 required families, one of another), the default gate and one that asks for one run of one family, all sample times of two GPUs in 0..6, 2 window lengths, 2 adversarial sessions, 3 holdout plans, 1 fault, torn manifests | pairing is maximum; a steadily sampled run is covered; splits and folds are sound; the holdout stays sealed; no matrix precedes an acceptance, whatever its gate; an evaluation whose gate passed fails only for a named cause |

Every property of a passing run has a mutant of the code in `PROJECT.json`: a
small change of a modelled operation under which TLC finds the property violated.

**Bounds.** `MaxClock` (server time), `MaxSequence` (messages of one agent
object), `MaxStarts` (restarts of an agent), `MaxSteps` (steps of a rank) are
bounds of the models only. A clock that can exceed `MaxClockSkew` by one tick
and `StaleAfter` by two reaches both sides of every comparison. Three messages
per agent are the smallest number that has a first, a successor and a successor
that follows a gap; the service relates a message to its predecessor only.
Agents do not share any state over HTTP except a node's views, which `detector`
covers with two agents of one node; the HTTP runs therefore use
one agent. Offline agents share the process, and there are two of them. Two
steps of a rank reach both kinds of every alternating step (`BarrierEvery`,
`InferenceEvery`, a synchronized and an unsynchronized sparse step); three are
used where the ranks may differ by two. `MaxOrphans` bounds the late requests in
the network at one time; two are the smallest number that can be out of order.
`MaxCycles` bounds the cycles of one `run`; with three cycles and four batches a run
of several cycles can find a batch that an earlier one left behind.
`RunLifecycle` has no bound: its state space is finite and `lifecycle` covers all
of it. In `matrix`, `MaxRuns` (3) leaves one run more than there are slots, so
that a slot can be filled again after a failure, and `MaxFaults` (2) allows a
call to be cut off and its resumption too, or the tree to be lost after a cut.
Two sessions suffice because a call compares what it finds with one session, its
own; the proofs do not depend on it. In `evaluation` the times 0..6 hold a
primary window (4), a shorter one (2) and a measured interval that exceeds the
primary window by two; one slot takes every pair of sets of sample times, the
others are sound or absent, because a record depends on its own run only. Three
runs of a family are what the default gate asks for; a control or the tenth slot,
whose family is not required, may be missing, so that families of no, one, two and
three runs occur. The second gate passes all of these corpora, those without a
control among them. `CHECK_DEADLOCK FALSE` is set where the
bounds or the end of a run let the system stop.

**Fairness.** `AgentRun`: a run that was called goes on (weak fairness of
`RunStep`): it is sequential code, its readings and sleeps end, and a request ends
by an answer or by `urlopen`'s timeout. Nobody is obliged to call `run` again.
The two violation runs of the transports assume more of the caller than the code
promises, in the code's favour, so that what they refute is refuted under any
weaker assumption too: `CallerPersists` (`http_heartbeat`) has `flush` called as
long as the queue is not empty, and requests that are sent again and again
handled and answered; `offline_retry` has `flush` called again and time pass. No
passing run uses these. Ranks: each process goes on,
time passes, the group timeout and torchrun's kill eventually happen
(`init_process_group(timeout=...)`, torchrun's monitor); no fault has to occur.
Lifecycle: the orchestrator's own steps go on and its timeouts expire; torchrun,
the ranks and the sampler may hang for ever. `BenignMatrix` and
`DetectorEvaluation` state no fairness: nothing promises that a call is repeated.

## 4. Findings

The violation runs are disagreements between code and documentation:

1. `docs/central-monitoring-design.md:26-27` promises that the retained queue
   makes transport failures retryable without dropping the batch. A heartbeat
   takes a sequence ahead of a queued batch and makes it stale
   (`http_heartbeat`). Two observations of the same kind have no run of their
   own: a retried batch keeps its `created_at_utc` and is refused as
   `clock_skew` at every retry once it is older than
   `maximum_clock_skew_seconds` (`http_retries` shows that a clock is the only
   reason left, and the run assumes clocks within the skew), and a request
   file whose write failed half way can be neither replaced nor parsed
   (`OfflineDelivery` has that state; every retry raises in it). The "bounded
   agent loop" of the same sentence does not retry what raised: `run` ends with
   the first exception of `send` (`agent.py:152-156`), and its caller must call
   it again (`AgentRun`).
2. `docs/central-monitoring-design.md:33-34` promises `already_accepted` for a
   retry of an accepted envelope; the offline transport returns the refusal it
   has on file (`offline_retry`).
3. `docs/adversarial-research.md:39-41` calls sparse schedules rank-independent
   with a forced final agreement round. The schedule is a function of the step,
   but each rank ends its loop by its own clock, so the last step and the final
   round differ; the ranks then call different collectives until the group's
   timeout (`ranks_sparse`). The same local decision is behind every timed mode
   with a collective in its loop.
4. The docstring of `run_experiment` (`orchestrator.py:315`) promises success or
   failure evidence. `launch_torchrun` is called outside of any `try`: when the
   wait after SIGKILL times out, stale workers exist or an event line is
   truncated, it raises, no manifest is written and the sampler thread goes on
   (`lifecycle_evidence`).

Further disagreements and oddities were met while modelling; the models have
them, and passing properties state their exact extent:

- A matrix cut off between `final.json` and its summary can never be resumed:
  `orchestrator.py:1268-1274` compares parsed lists with tuples, which are never
  equal, so every later call is refused (`WriteFinal`, `RefusalsHaveACause`), while
  `docs/KAGGLE_PROTOTYPE_RUNBOOK.md:116-121` relies on resumption. A torn
  manifest or summary is not skipped either: it makes every call of the profile
  raise (`orchestrator.py:1129-1132`, `1219-1221`).
- A resumed slot is filled by any matching run in the tree, of whatever corpus or
  session (`orchestrator.py:1213-1237`), but such a run is not eligible for the
  coverage of the resuming session (`GateRestsOnOwnEvidence`). A fresh run is
  accepted whatever its duration, a resumed one from thirty seconds on.
- `negative_calibration_mode` has no effect in `run_matrix`: the reference check
  (`orchestrator.py:1183-1193`) raises before line 1204 looks at it, against
  `docs/methodology.md:55-56`. A smoke sweep has one payload and is never
  supported, which its profile tolerates.
- `run_periodic_synchronization_study` (`orchestrator.py:986-1013`) always
  raises: its workloads share one strategy, plan ids are made of strategy and
  slot (line 864), and `corpus.py:134` requires them to be unique
  (`EvaluationIsRefusedForCause`; the study is `PeriodicStudy` in the model).
  `docs/KAGGLE_PROTOTYPE_RUNBOOK.md` (section 9) prescribes it.
- GPUs whose telemetry does not overlap yield a record with a reversed interval,
  whose validation raises for the whole extraction (`features/extraction.py:782`,
  `features/coverage.py:131-138`) instead of excluding the run
  (`EveryRunIsAccountedFor`).
- A restarted service takes the first message it hears with any sequence. If that
  is a late copy of an old request, the agent's sequence is set back and its next
  batches are a `sequence_gap` for ever (`central/server.py:209-226`): with
  `ServiceRestarts = TRUE`, `EveryRunDelivers` fails in this way.
- `evaluate_detector` takes the families of its gate from the caller
  (`evaluation/baselines.py:831`, `873-877`), who may name fewer than
  `PRIMARY_BENIGN_FAMILIES`, or none; `run_adversarial_matrix` accepts the saved
  result all the same (`orchestrator.py:809-817`), while
  `docs/current-results.md:87-89` has detector fitting stop "if any family is
  missing". What an acceptance still implies is `AcceptancePrecedesCollection`:
  a run of each of the three classes, and three of every family that was seen.
- An evaluation whose gate passed can still raise: a family with one or two runs
  that the gate did not ask three of, a class it did not ask for, a run without the
  shorter windows (`evaluation/baselines.py:963`), a holdout plan that takes a class
  from the frozen baseline, or a run manifest anywhere in the tree that was left
  half-written (`evaluation/baselines.py:713`), which fails every evaluation from
  then on (`EvaluationIsRefusedForCause`). `evaluate_detector` is given
  one session, so the holdout of whole sessions is open to the planners of the
  SDK only.
- `run_segmented_series` knows no holdout plan: its segments are collected
  whatever the plan seals (`HoldoutStaysSealed` is about matrices, fits and
  scores).

## 5. Proofs

Every theorem holds for all values of the constants that satisfy the named
assumptions of the modules (`...Assumption`), which the runs evaluate. The bounds
of the models (`MaxClock`, `MaxSequence`, ...) are constants as well, so the
theorems hold for each of them, however large.

| Module | Theorem | States |
|---|---|---|
| `CentralDetector_proofs` | `TypeCorrect`, `ChainCorrect`, `IntervalCorrect`, `ViewsCorrect` | `Spec => []` `TypeOK`, `TelemetryIsOneChain`, `AcceptedSequencesAreAnInterval`, `NodeViewAgreesWithAgents` |
| | `ImplementsIngestion` | `DetectorSpec => Spec` |
| | `DetectorChainCorrect`, `DetectorIntervalCorrect`, `DetectorViewsCorrect` | the three properties above, by the refinement |
| | `DetectorTypeCorrect`, `NodeLossCorrect`, `ScoredDecisionsCorrect`, `EvidenceCorrect` | `DetectorSpec => []` `DetectorTypeOK`, `NodeLossIsLossOfAllItsAgents`, `ScoredDecisionsCoverEveryAgent`, `NoEvidenceFromTheFuture` |
| `HttpDelivery_proofs` | `TypeCorrect`, `OneIncarnation` | `Spec => []` `TypeOK`, `OneIncarnationPerChain` |
| | `DeliveryIsPipe` | `Spec => ImplementsPipe` |
| | `RefusalsCorrect` | `Undisturbed` implies `Spec => []OnlyTheClockRefuses` |
| `OfflineDelivery_proofs` | `TypeCorrect`, `FilesAreFaithful` | `Spec => []` `TypeOK`, `FilesAgreeWithService` |
| | `DeliveryIsPipe` | `Spec => ImplementsPipe` |
| `RankWorkers_proofs` | `TypeCorrect`, `MatchCorrect`, `JointCorrect` | `Spec => []` `TypeOK`, `CollectivesMatch`, `CompletionIsJoint` |
| | `RanksAreProcesses` | `Spec => ImplementsProcesses` |
| `RunLifecycle_proofs` | `TypeCorrect`, `OneRunCorrect`, `EarnedCorrect`, `FinalCorrect` | `Spec => []` `TypeOK`, `OneRunAtATime`, `CompletedIsEarned`, `CompletedTelemetryIsFinal` |
| `BenignMatrix_proofs` | `MatrixTypeCorrect`, `SweepsCorrect`, `GateCorrect`, `SlotsCorrect`, `CleanSweepCorrect`, `EvidenceOfGateCorrect` | `Spec => []` `TypeOK`, `SweepsAreNotRepeated`, `CollectionIsGated`, `WorkIsNotRepeated`, `SupportedSweepIsClean`, `GateRestsOnOwnEvidence` |
| | `RefusalsCorrect` | `SweepsAsPlanned` implies `Spec => []RefusalsHaveACause` |
| | `ResponseCorrect` | `Cardinality(Payloads) <= 9` implies `Spec => []SupportedSweepResponds` |
| `DetectorEvaluation_proofs` | `TypeCorrect`, `PairingCorrect`, `AccountCorrect` | `Spec => []` `TypeOK`, `PairingIsMaximum`, `EveryRunIsAccountedFor` |
| | `SplitsCorrect`, `RefusalCorrect` | `Spec => []` `SplitsAreSound`, `EvaluationIsRefusedForCause` |
| | `HoldoutCorrect`, `AcceptanceCorrect` | `Spec => []` `HoldoutStaysSealed`, `AcceptancePrecedesCollection` |

Each safety theorem rests on an inductive invariant and has one step per action.
Few of the properties are inductive by themselves; what they need is this.

**Ingestion.** Accepted messages have distinct identifiers,
`last_sequence_by_agent` is the highest accepted sequence of the agent, every
entry of a sample list belongs to an accepted batch of that agent, and
`last_batch_by_agent` is the last entry of its list. With these, an accepted batch
extends the chain at its end, its sequence is the successor of the counter, and
its identifier is new.

**Detector.** Aggregation and decisions change nothing the service has, so a step
of theirs is a stutter of the service, and its theorems carry over. `DInv` adds
where the entries of the sample lists come from (`Origins`: a batch that was
received, with no sample dated beyond the allowed skew) and that a window that counts as
complete covers every agent (`CompleteWindowsAreCovered`); a decision keeps the
window it was made about.

**Agents and transports.** `NodeAgent_proofs` has what both transports share.
`AgentsAreSound`: an agent's batches are its own and different from each other, its
queue is the end of what it made and all made by the object that runs now, what was
acknowledged comes before the queue, and the next link of an empty queue is the
last batch of this object. `ServiceIsSound`: the service remembers the end of each
list, and has received what it remembers. `MayBeSent`: no batch on its way is
beyond the head of its agent's queue. An accepted batch is then the next one the
pipe may store, because its link says which batch was stored last, and a batch that
leaves the queue was received. Over HTTP the invariant adds that an agent waits for
the head of its queue, that a positive answer is to a received batch, and that late
requests may be sent; over files, that the result `flush` looks at next is one
to the head of the queue, and that the files agree with the service. Every step is
then a step of `TelemetryPipe` or leaves its variables alone. `TypeOK` of both
includes `ServiceTypeOK`, the types of the service's own variables, which each of
its operations keeps because only messages of their type are ever sent.

`Undisturbed` (no heartbeats, no restarts, no refusal of a message's own but the
handler's limit) is what the run `http_retries` assumes by its constants. Then a
batch's sequence is its place, two messages with one identifier are one message,
and what the service accepted of an agent is what the agent made first, at least to
the head of its queue (`CInv`). A request, retried or late, is therefore the next
batch or one that was accepted, and only a clock can refuse it.

**Ranks.** A rank's run is a line of places (main, handler entry, the
controller, each step, the exit), and `Course` the collectives called at each.
`Together` says that two ranks at the same place have the same collectives left,
and that if one is ahead the other has none left, there are none in between, and
the one ahead has passed none of its own. So two ranks that wait are at the same
place, and a rank that has passed the last barrier was met there by the other one,
which had left its loop as well. `Course` is a function of the place because
under `ClockIndependent` neither the number of places with a collective nor what is
called at the end depends on a clock. Two ranks are part of the model, as they
are of the code (`--nproc-per-node=2`). `RanksAreProcesses` uses the same
invariant: the ranks of a clock-independent run stand before the last barrier
together, so the step that meets it maps to both passing. A rank that passed it
alone left the other one in a collective nobody will call, from which only a
timeout or a kill leads out.

**Lifecycle.** The model is finite but the proof is not a repetition of its check:
it says why the properties hold. While a call waits for torchrun nothing of the
evidence is written (`FilesAreWrittenLast`); an exit status is written only after
the validation found both ranks complete and torchrun gone (`SuccessIsOfBoth`,
`ValidationIsFinal`), after which no process of the run takes a step that could
change what was found; the sampler was joined before its samples were written
(`CollectorIsJoined`, `LateIsAfterTheFile`); and a new launch is preceded by a scan
that finds nothing alive of earlier runs (`LaunchIsFresh`, `LaunchIsOver`).

**Matrix.** `MInv` says the same of the tree and of the archive it may be restored
from (`TreeSound`), and of what the call carries between its stages (`CallSound`):
a call may be cut off anywhere and go on with an older tree. `RInv` says
that each thing another call is refused for (`TreeExplained`) is matched by an entry
of `interrupted`. It needs a completed sweep to have one row for each planned
observation (`SweepsAsPlanned`), which `run_calibration_sweep` ensures by its loop.

**Pairing and extraction.** The alignment of two GPUs is a recursion over the
samples that are left, which go forward only, so a function that solves it is built
from the last samples backwards (`SolutionExists`). Each of its values is a matching
with a witness that none is larger (`IsGreatest`): a set of samples with so few
samples near them that any matching must leave some out. A step of the greedy
choice extends the witness (`SolutionIsGreatest`). For `EveryRunIsAccountedFor`, a
steadily sampled GPU has a sample in any two units of time, so its usable interval
loses at most a unit at either end, the first primary window holds two pairs, and
the window is found. `ExtractionAssumption` asks for a primary window of at least
four units; the code's is thirty seconds at a sampling interval of one.

**Evaluation.** `HInv`: no sealed run is in the tree, in a plan being collected or
in a frozen baseline, for the holdout that stands now. `EInv`: what rests on an
accepted evaluation was preceded by primary runs of all three classes, and three of
every family seen. The gate does not ensure this, since the caller chooses its
families and its minimum; the three-class split does, which demands every class and
refuses a stratum of fewer than three groups. `TornInv`: a manifest is torn only in
the benign sessions, in a session whose collection was cut off, or in the running
call's.
`FlattenSeq` of the community modules is a recursive function; that it exists and
yields a sequence is shown by a least counterexample. `SplitsAreSound` rests on
the ranks of groups in their order being a bijection (`RankIsOnto`), so every group
has one fold and every fold one group. `EvaluationIsRefusedForCause` needs the
converse, that a split which should exist does: the fractions leave each part one
run of a stratum of three or more (`CountsLeaveARun`), such counts can be assigned
(`AssignmentExists`), and the assignment is a valid split of the corpus once every
family is large and every class is seen (`CompleteIsValid`). Plan ids are unique by induction over the workloads
selected. The theorems assume that what is asked of the planners and found in
telemetry is finite (`AnalystAssumption`, `EvidenceAssumption`) and, as in the table
of `workloads.py`, that a family has one label and each of the three labels a
required family (`CatalogueAssumption`).

**Calibration.** `SupportedSweepResponds` compares medians with a threshold and
bounds a rank correlation. The value at a place of the order exists (`KthIs`), and
if four of five values are above the threshold, so is the median
(`MedianExceeds`). The sums of the correlation are folds in an order the
definition does not fix; `SumExists` and `TotalIs` show that the order does not
matter. The squares of n centred ranks add up to a third of n^3 - n (`RankSum`).
If the greatest payload did not respond more strongly than the least, only the
ranks between them could contribute to the correlation (`CentredFollows`), which
by the inequality of Cauchy and Schwarz is then less than 0.7
(`OutermostCount`). This counting shows where the statement ends: it fails from ten
payloads on (a response that rises but for its two ends, which are equal, has a
correlation of 0.705), so the theorem assumes at most nine. A standard matrix always
measures the five of `STANDARD_CALIBRATION_PAYLOAD_MIB` (`calibration.py:22`).

Every safety property a passing run checks is a theorem. Only model-checked, and out
of the prover's reach, is liveness (`EveryRunDelivers`, `EveryRunCompletes`,
`EveryRankEnds`, `EveryCallEnds`), and with it `ENABLED`; nor is anything proved of
what recursive definitions compute where the recursion cannot be turned into a
function that is built up step by step.

## 6. Plan

The modules were written in the order of what the program depends on most:
ingestion, agents and their transports, ranks, the lifecycle of a run, then the
matrix with its calibration, and what is made of its runs. What is left, in this
order:

1. The artifact store for two processes: concurrent exports to one target and an
   archive without its checksum, against an abstract create-only store.
2. Two orchestrators on one host, between the scan for stale workers and the
   launch.

## 7. Not modelled

- Field statistics, feature values, classifiers, metrics, thresholds and reports:
  floating-point arithmetic over finished files. Which runs they are computed from
  is in `FeatureExtraction` and `DetectorEvaluation`.
- Preflight, NVML readings, the command line, prototype archives, notebooks and
  tools: I/O and rendering.
- Schemas and workload tables: data; the constants of the runs follow them.
- The HTTP handler under a threaded server (`central/transport.py:89` leaves the
  class to its caller), and forged signatures.
- Calls with `resume=False`, and `run_segmented_experiment` as an operation of its
  own: `run_segmented_series` makes the same runs.
- An archive whose checksum was not written (`artifacts/storage.py:205`) and
  concurrent exporters (`artifacts/storage.py:168`, `200`).
- Pairing of the two GPUs' samples for the correlation feature, which goes by
  position after alignment (`features/extraction.py`).
- Two orchestrators that launch at once (`distributed/launcher.py:208`).
