----------------------------- MODULE RankWorkers -----------------------------
(***************************************************************************)
(* The two ranks of a run (distributed/worker.py), each in a process of    *)
(* its own with its own DurationController (duration.py).  A rank is the   *)
(* sequence of collectives it calls and the decisions between them: enter  *)
(* the handler of its mode, begin another step, leave, complete.           *)
(*                                                                         *)
(* NCCL and torchrun are external.  Two ranks that call the same           *)
(* collective pass it together.  When they call different ones the result  *)
(* is undefined: each may wait until the process group's timeout or pass   *)
(* alone with garbage.  When a rank fails torchrun kills the other.        *)
(***************************************************************************)
EXTENDS Integers, Sequences

CONSTANTS
  Modes,             \* the modes a run may have
  Minimums,          \* min_measured_seconds in ticks; 0 for a run by count
  Warmup,            \* warmup_seconds in ticks
  Iterations,        \* iterations, the count of a run without a minimum
  IterationCap,      \* iteration_cap; 0 for none
  MaxSteps,          \* bound: the steps a rank can make in the minimum time
  BurstCollectives,  \* collectives of a calibration or decoy burst
  BarrierEvery,      \* barrier_every
  InferenceEvery,    \* inference_every; 0 for none
  Faults             \* what may go wrong: a subset of FaultKinds

Ranks == {0, 1}
Other(r) == 1 - r

FaultKinds == {"exception", "inject_timeout"}

(* control_compute stands for all controls without a collective. *)
AllModes ==
  {"smoke", "idle", "calibration", "ddp_train", "sparse_sync_training",
   "inference_independent", "inference_single_gpu", "inference_synchronized",
   "synthetic_communication_decoy", "control_compute", "control_peer_copy"}

ASSUME RankAssumption ==
  /\ Modes \subseteq AllModes
  /\ Minimums \subseteq Nat
  /\ Warmup \in Nat /\ IterationCap \in Nat
  /\ Iterations \in Nat \ {0}
  /\ MaxSteps \in Nat \ {0} /\ Iterations <= MaxSteps
  /\ BurstCollectives \in Nat \ {0}
  /\ BarrierEvery \in Nat \ {0}
  /\ InferenceEvery \in Nat
  /\ Faults \subseteq FaultKinds

VARIABLES
  mode,       \* the mode of the run
  minimum,    \* its min_measured_seconds, or 0
  schedule,   \* the steps at which should_synchronize holds
  sleeper,    \* the ranks told to sleep before their handler (inject_timeout_rank)
  stage,      \* where each rank is
  todo,       \* the collectives a rank calls before its next decision
  steps,      \* iterations_completed, once todo is empty
  elapsed     \* time since the rank made its controller, up to what it needs

vars == <<mode, minimum, schedule, sleeper, stage, todo, steps, elapsed>>

runVars == <<mode, minimum, schedule, sleeper>>

-----------------------------------------------------------------------------

(* What a rank calls in main before its handler. *)
MainCollectives == <<"barrier", "participation">>

(* What its handler calls before the controller is made.                   *)
(* DistributedDataParallel broadcasts its parameters.                      *)
EntryCollectives ==
  CASE mode = "ddp_train"               -> <<"parameters", "barrier">>
    [] mode = "sparse_sync_training"    -> <<"average">>
    [] mode \in {"calibration", "idle"} -> <<"barrier">>
    [] OTHER                            -> <<>>

(* What the handlers call in their n-th step. *)
DdpTrainingStep(n) ==
  IF InferenceEvery # 0 /\ n % InferenceEvery = 0 THEN <<>>
  ELSE <<"gradients", "checksum", "checksum">>

SparseSyncStep(n) == IF n \in schedule THEN <<"average", "checksum">> ELSE <<>>

Burst == [i \in 1 .. BurstCollectives |-> "burst"]

InferenceStep(n) == IF (n - 1) % BarrierEvery = 0 THEN <<"barrier">> ELSE <<>>

PeerCopyStep == <<"barrier", "barrier">>

StepCollectives(n) ==
  CASE mode = "ddp_train"                     -> DdpTrainingStep(n)
    [] mode = "sparse_sync_training"          -> SparseSyncStep(n)
    [] mode = "calibration"                   -> Burst
    [] mode = "synthetic_communication_decoy" -> Burst
    [] mode = "inference_synchronized"        -> InferenceStep(n)
    [] mode = "control_peer_copy"             -> PeerCopyStep
    [] OTHER                                  -> <<>>

(* What they call after n steps.  Sparse training compares checksums and   *)
(* averages once more unless its last step did.                            *)
SparseSyncExit(n) ==
  <<"checksum">> \o IF n \in schedule THEN <<>> ELSE <<"average", "checksum">>

HandlerExit(n) ==
  CASE mode = "sparse_sync_training"                      -> SparseSyncExit(n)
    [] mode \in {"control_compute", "control_peer_copy"} -> <<"barrier">>
    [] OTHER                                             -> <<>>

(* Mutant: main's barrier is left out. *)
HandlerExitOnly(n) == HandlerExit(n)

(* The end of the handler, then main's barrier. *)
ExitCollectives(n) == HandlerExit(n) \o <<"barrier">>

SparseStrategies == {"periodic_local_sgd", "diloco_inspired", "randomized_synchronization"}

(* should_synchronize: every k-th step, or steps drawn with a seed that the *)
(* ranks share.                                                            *)
Schedules(strategy) ==
  IF strategy = "randomized_synchronization" THEN SUBSET (1 .. MaxSteps)
  ELSE {{n \in 1 .. MaxSteps : n % k = 0} : k \in 1 .. MaxSteps + 1}

Init ==
  /\ mode \in Modes
  /\ minimum \in Minimums
  /\ schedule \in IF mode = "sparse_sync_training"
                  THEN UNION {Schedules(strategy) : strategy \in SparseStrategies}
                  ELSE {{}}
  /\ sleeper \in {{}} \cup (IF "inject_timeout" \in Faults THEN {{r} : r \in Ranks} ELSE {})
  /\ stage = [r \in Ranks |-> "starting"]
  /\ todo = [r \in Ranks |-> MainCollectives]
  /\ steps = [r \in Ranks |-> 0]
  /\ elapsed = [r \in Ranks |-> 0]

-----------------------------------------------------------------------------

Ended(r)   == stage[r] \in {"completed", "failed", "timed_out", "killed"}
Waiting(r) == ~Ended(r) /\ todo[r] # <<>>
Idle(r)    == ~Ended(r) /\ todo[r] = <<>>

(* Both ranks call the same collective. *)
Meet ==
  /\ \A r \in Ranks : Waiting(r)
  /\ Head(todo[0]) = Head(todo[1])
  /\ todo' = [r \in Ranks |-> Tail(todo[r])]
  /\ UNCHANGED <<runVars, stage, steps, elapsed>>

Mismatched == (\A r \in Ranks : Waiting(r)) /\ Head(todo[0]) # Head(todo[1])

(* A rank passes a collective that the other did not call. *)
PassAlone(r) ==
  /\ Mismatched
  /\ todo' = [todo EXCEPT ![r] = Tail(@)]
  /\ UNCHANGED <<runVars, stage, steps, elapsed>>

(* The handler of the mode begins, after the sleep if there is one. *)
Enter(r) ==
  /\ stage[r] = "starting" /\ Idle(r)
  /\ r \notin sleeper
  /\ stage' = [stage EXCEPT ![r] = "entering"]
  /\ todo' = [todo EXCEPT ![r] = EntryCollectives]
  /\ UNCHANGED <<runVars, steps, elapsed>>

(* It makes its controller, or returns at once. *)
Measure(r) ==
  /\ stage[r] = "entering" /\ Idle(r)
  /\ mode # "smoke"
  /\ stage' = [stage EXCEPT ![r] = "measuring"]
  /\ UNCHANGED <<runVars, todo, steps, elapsed>>

ReturnAtOnce(r) ==
  /\ stage[r] = "entering" /\ Idle(r)
  /\ mode = "smoke"
  /\ stage' = [stage EXCEPT ![r] = "leaving"]
  /\ todo' = [todo EXCEPT ![r] = ExitCollectives(0)]
  /\ UNCHANGED <<runVars, steps, elapsed>>

Limit == Warmup + minimum

(* Mutants: one step too many, or the iterations are shared out between    *)
(* the ranks.                                                              *)
LoopEndsLate(r) ==
  IF minimum = 0 THEN steps[r] > Iterations
  ELSE elapsed[r] >= Limit /\ steps[r] > 0
LoopEndsByShare(r) ==
  IF minimum = 0 THEN steps[r] + r >= Iterations
  ELSE elapsed[r] >= Limit /\ steps[r] > 0

(* should_continue: the loop ends, by count or by the rank's own clock; or *)
(* it raises at the cap; or it goes on.                                    *)
LoopEnds(r) ==
  IF minimum = 0
  THEN steps[r] >= Iterations
  ELSE elapsed[r] >= Limit /\ steps[r] > 0

CapExceeded(r) ==
  minimum # 0 /\ IterationCap # 0 /\ steps[r] >= IterationCap /\ ~LoopEnds(r)

(* A loop of a timed run that has made MaxSteps steps takes longer for the *)
(* last one.                                                               *)
BeginStep(r) ==
  /\ stage[r] = "measuring" /\ Idle(r)
  /\ ~LoopEnds(r) /\ ~CapExceeded(r)
  /\ steps[r] < MaxSteps
  /\ steps' = [steps EXCEPT ![r] = @ + 1]
  /\ todo' = [todo EXCEPT ![r] = StepCollectives(steps[r] + 1)]
  /\ UNCHANGED <<runVars, stage, elapsed>>

Leave(r) ==
  /\ stage[r] = "measuring" /\ Idle(r)
  /\ LoopEnds(r)
  /\ stage' = [stage EXCEPT ![r] = "leaving"]
  /\ todo' = [todo EXCEPT ![r] = ExitCollectives(steps[r])]
  /\ UNCHANGED <<runVars, steps, elapsed>>

DurationUnmet(r) ==
  /\ stage[r] = "measuring" /\ Idle(r)
  /\ CapExceeded(r)
  /\ stage' = [stage EXCEPT ![r] = "failed"]
  /\ UNCHANGED <<runVars, todo, steps, elapsed>>

Complete(r) ==
  /\ stage[r] = "leaving" /\ Idle(r)
  /\ stage' = [stage EXCEPT ![r] = "completed"]
  /\ UNCHANGED <<runVars, todo, steps, elapsed>>

(* Any exception of a rank: out of memory, a correctness check, an         *)
(* injected crash.                                                         *)
Fail(r) ==
  /\ "exception" \in Faults
  /\ ~Ended(r)
  /\ stage' = [stage EXCEPT ![r] = "failed"]
  /\ UNCHANGED <<runVars, todo, steps, elapsed>>

(* Mutants: a rank whose peer ended waits for ever, or the timeout is       *)
(* shorter than a measurement.                                             *)
DesertedByMismatch(r) == Waiting(r) /\ Mismatched
DesertedWhileMeasuring(r) == Waiting(r) /\ stage[Other(r)] = "measuring"

(* The other rank will not come to the collective this one waits for. *)
Deserted(r) ==
  /\ Waiting(r)
  /\ \/ Mismatched
     \/ Ended(Other(r))
     \/ Other(r) \in sleeper /\ Idle(Other(r))

(* The process group's timeout fails the rank; "timed_out" sets it apart   *)
(* from a failure of its own.                                              *)
GroupTimeout(r) ==
  /\ Deserted(r)
  /\ stage' = [stage EXCEPT ![r] = "timed_out"]
  /\ UNCHANGED <<runVars, todo, steps, elapsed>>

(* Mutant: a rank is killed when the other one ends in any way. *)
KillAtAnyEnd(r) ==
  /\ Ended(Other(r)) /\ ~Ended(r)
  /\ stage' = [stage EXCEPT ![r] = "killed"]
  /\ UNCHANGED <<runVars, todo, steps, elapsed>>

(* torchrun kills the other rank of one that failed. *)
Kill(r) ==
  /\ stage[Other(r)] \in {"failed", "timed_out"}
  /\ ~Ended(r)
  /\ stage' = [stage EXCEPT ![r] = "killed"]
  /\ UNCHANGED <<runVars, todo, steps, elapsed>>

(* Time passes for every rank that measures. *)
Measuring(r) == stage[r] = "measuring" /\ elapsed[r] < Limit

Tick ==
  /\ \E r \in Ranks : Measuring(r)
  /\ elapsed' = [r \in Ranks |-> IF Measuring(r) THEN elapsed[r] + 1 ELSE elapsed[r]]
  /\ UNCHANGED <<runVars, stage, todo, steps>>

RankStep(r) ==
  Enter(r) \/ Measure(r) \/ ReturnAtOnce(r) \/ BeginStep(r) \/ Leave(r) \/ DurationUnmet(r) \/ Complete(r)

Next ==
  \/ Meet
  \/ \E r \in Ranks : RankStep(r) \/ PassAlone(r) \/ Fail(r) \/ GroupTimeout(r) \/ Kill(r)
  \/ Tick

Spec == Init /\ [][Next]_vars

(* Ranks, the timeout and torchrun go on; nothing has to fail. *)
Fairness ==
  /\ WF_vars(Meet) /\ WF_vars(Tick)
  /\ \A r \in Ranks : WF_vars(RankStep(r)) /\ WF_vars(GroupTimeout(r)) /\ WF_vars(Kill(r))

FairSpec == Spec /\ Fairness

-----------------------------------------------------------------------------

Collectives ==
  {"barrier", "participation", "parameters", "average", "gradients", "checksum", "burst"}

TypeOK ==
  /\ mode \in Modes /\ minimum \in Minimums
  /\ schedule \subseteq 1 .. MaxSteps
  /\ sleeper \subseteq Ranks
  /\ stage \in [Ranks -> {"starting", "entering", "measuring", "leaving",
                        "completed", "failed", "timed_out", "killed"}]
  /\ todo \in [Ranks -> Seq(Collectives)]
  /\ steps \in [Ranks -> 0 .. (IF minimum = 0 THEN Iterations ELSE MaxSteps)]
  /\ elapsed \in [Ranks -> 0 .. Limit]

(* The runs whose collectives do not depend on the ranks' clocks: those by *)
(* count, and the modes without a collective in their loop.                *)
ClockIndependent ==
  minimum = 0 \/ \A n \in 1 .. MaxSteps : StepCollectives(n) = <<>> /\ HandlerExit(n) = HandlerExit(0)

(* Two ranks that both wait in a collective wait in the same one, however  *)
(* far one is ahead of the other between collectives and whatever fails.   *)
CollectivesMatch == ClockIndependent => ~Mismatched

(* A rank that reports completion was joined by the other one after a full *)
(* measurement: no completion is ever written beside a rank that made      *)
(* fewer steps or measured less.                                           *)
Measured(r) ==
  \/ mode = "smoke"
  \/ IF minimum = 0 THEN steps[r] = Iterations
     ELSE elapsed[r] = Limit /\ steps[r] > 0

CompletionIsJoint ==
  ClockIndependent => \A r, s \in Ranks : stage[r] = "completed" => Measured(s)

(* Such a run completes at both ranks unless a rank fails or sleeps: no    *)
(* collective is left unmatched and no timeout strikes by itself.          *)
EveryRunCompletes ==
  ClockIndependent /\ sleeper = {} ~>
    \/ \A r \in Ranks : stage[r] = "completed"
    \/ \E r \in Ranks : stage[r] = "failed"

(* Whatever fails and however the ranks' clocks disagree, both ranks end:  *)
(* the group timeout and torchrun resolve every mismatch.                  *)
EveryRankEnds == <>(\A r \in Ranks : Ended(r))

(* The ranks are the processes that the launcher's life of a run is built  *)
(* on: whatever the mode, a rank reports completion only after main's last *)
(* barrier, which both pass together unless their clocks set them apart,   *)
(* and is killed only after the other one failed.                          *)
RankState(r) ==
  CASE stage[r] = "completed"                  -> "teardown"
    [] stage[r] \in {"failed", "timed_out"}    -> "failed"
    [] stage[r] = "killed"                     -> "killed"
    [] stage[r] = "leaving" /\ todo[r] = <<>>  -> "leaving"
    [] OTHER                                   -> "working"

Processes ==
  INSTANCE RankProcesses WITH joint <- ClockIndependent, rank <- [r \in Ranks |-> RankState(r)]

ImplementsProcesses == Processes!RanksSpec

(* "Sparse schedules are seed-deterministic and rank-independent. ...      *)
(* workers average parameter tensors at declared steps and force a final   *)
(* agreement round when necessary" (docs/adversarial-research.md): a       *)
(* sparse run in which nothing fails ends with both ranks in agreement.    *)
FinalAgreementIsReached ==
  mode = "sparse_sync_training" ~> \A r \in Ranks : stage[r] = "completed"

=============================================================================
