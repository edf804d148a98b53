------------------------- MODULE DetectorEvaluation -------------------------
(***************************************************************************)
(* What is made of a collected benign corpus: feature extraction           *)
(* (extract_feature_result), the evaluation of the detector                *)
(* (evaluate_detector), and the adversarial collections an accepted        *)
(* evaluation opens (run_adversarial_matrix, run_periodic_synchronization_ *)
(* study, run_segmented_series), with the holdout that stays sealed.       *)
(*                                                                         *)
(* The corpus is one session's, with the supported calibration that        *)
(* run_matrix demands.  The project declares one holdout plan, as the      *)
(* documentation has it, and gives it to every call.  Scores, metrics and  *)
(* models are left out: of a fit and of a score only the runs they use     *)
(* are kept.                                                               *)
(***************************************************************************)
EXTENDS FeatureExtraction, GroupedSplits, SequencesExt

CONSTANTS
  Slots,             \* the planned benign runs, 1 .. n
  PlanOf,            \* the group each belongs to
  EvidenceOf,        \* what may be found of each
  RequiredFamilies,  \* PRIMARY_BENIGN_FAMILIES
  Gates,             \* the families and the number of runs a caller may ask for
  AnalystGroups,     \* rows an analyst may give to the planners of the SDK
  Strategies,        \* the adversarial families
  Selections,        \* the sequences of workloads a matrix is called with
  PeriodicStudy,     \* the sequence that the synchronization study calls it with
  Series,            \* the workloads of the segmented series
  HoldoutPlans,      \* the plans the project may declare
  Sessions,          \* the sessions of adversarial collections
  Absent, Torn, Invalid,
  MaxFaults          \* bound: calls that end early

ASSUME EvaluationAssumption ==
  /\ IsFiniteSet(Slots) /\ Slots = 1 .. Cardinality(Slots) /\ 1 \in Slots
  /\ DOMAIN PlanOf = Slots
  /\ \A s \in Slots : PlanOf[s].session \notin Sessions
  /\ \A selection \in Selections \cup {PeriodicStudy} :
       /\ selection \in Seq(Range(selection))
       /\ \A i \in DOMAIN selection :
            selection[i].family \in Strategies /\ selection[i].segments \in Nat \ {0}
  /\ Series.family \in Strategies /\ Series.segments \in Nat \ {0}
  /\ \A gate \in Gates : gate.minimum \in Int
  /\ Absent \notin HoldoutPlans
  /\ {Absent, Torn} \cap {"benign", "adversarial", "saved"} = {} /\ Absent # Torn
  /\ Windows \cap {Absent, Invalid} = {}
  /\ MaxFaults \in Nat

(* A GPU is sampled finitely often, at whole times. *)
ASSUME EvidenceAssumption ==
  \A s \in Slots : \A e \in EvidenceOf[s] \ {Absent} :
    e \in EvidenceOver(Nat) /\ \A g \in GPUs : IsFiniteSet(e.samples[g])

(* What an analyst gives to the planners: finitely many runs and sessions. *)
ASSUME AnalystAssumption ==
  \A groups \in AnalystGroups :
    /\ IsFiniteSet(DOMAIN groups) /\ DOMAIN groups \subseteq Int
    /\ \A r \in DOMAIN groups : groups[r].session \in Int

(* The workload table (workloads.py): a family has one label, and each of  *)
(* the three labels has a required family.                                 *)
Labels == {"training", "inference", "control"}

ASSUME CatalogueAssumption ==
  /\ \A s \in Slots : PlanOf[s].label \in Labels
  /\ \A r, s \in Slots : PlanOf[r].family = PlanOf[s].family => PlanOf[r].label = PlanOf[s].label
  /\ \A l \in Labels : \E f \in RequiredFamilies : \A s \in Slots :
       PlanOf[s].family = f => PlanOf[s].label = l

VARIABLES
  extracted,    \* the planned run extracted last: its evidence and record
  coverage,     \* the windows each planned run yielded, Absent, or Invalid
  analysis,     \* what an analyst asked and was answered
  holdout,      \* the declared holdout plan
  tree,         \* the artifact tree
  call, stage,  \* the running call, and where it is
  evaluation,   \* the result that evaluate_detector is about to save
  refusal,      \* what the last call failed on after its first checks, if it did
  faults

vars == <<extracted, coverage, analysis, holdout, tree, call, stage, evaluation, refusal,
          faults>>

(* The sessions of the corpus. *)
BenignSessions == {PlanOf[s].session : s \in Slots}

(* A tree before anything is extracted.  Of the benign runs that were not  *)
(* accepted, one may have died while it wrote its manifest.                *)
EmptyTree(torn) ==
  [plans       |-> {},        \* the sessions with a plan manifest
   torn        |-> torn,      \* the sessions with a half-written run manifest
   runs        |-> {},        \* the adversarial runs
   extractions |-> {},        \* adversarial extractions
   newest      |-> Absent,    \* the newest extraction summary
   evaluation  |-> Absent]    \* the newest evaluation

Ends(cause) ==
  /\ stage' = "idle"
  /\ call' = Absent
  /\ evaluation' = Absent
  /\ refusal' = cause

Goes(next) == stage' = next /\ refusal' = Absent

(* A call raises or its process dies. *)
Cut ==
  /\ faults < MaxFaults
  /\ faults' = faults + 1
  /\ Ends(Absent)

-----------------------------------------------------------------------------
(* Extraction of the benign corpus *)

Init ==
  /\ extracted = Absent
  /\ coverage = [s \in Slots |-> Absent]
  /\ analysis = Absent
  /\ holdout = Absent
  /\ \E torn \in SUBSET BenignSessions : tree = EmptyTree(torn)
  /\ call = Absent
  /\ stage = "extracting"
  /\ evaluation = Absent
  /\ refusal = Absent
  /\ faults = 0

Extracted(e) ==
  [evidence |-> e, record |-> IF e = Absent THEN NotAccepted ELSE CoverageRecord(e)]

(* The planned runs are extracted one after the other. *)
ExtractRun ==
  LET slot == Min({s \in Slots : coverage[s] = Absent})
  IN  /\ stage = "extracting"
      /\ ~\A s \in Slots : coverage[s] # Absent
      /\ \E e \in EvidenceOf[slot] : extracted' = Extracted(e)
      /\ coverage' = [coverage EXCEPT ![slot] =
                        IF ValidRecord(extracted'.record) THEN extracted'.record.windows
                        ELSE Invalid]
      /\ UNCHANGED <<analysis, holdout, tree, call, stage, evaluation, refusal, faults>>

(* ExtractionResult validates every record when it is made. *)
ResultIsValid == \A s \in Slots : coverage[s] # Invalid

(* All records are validated before anything is written. *)
FinishExtraction ==
  /\ stage = "extracting"
  /\ \A s \in Slots : coverage[s] # Absent
  /\ IF ResultIsValid
     THEN stage' = "idle" /\ tree' = [tree EXCEPT !.newest = "benign"] /\ UNCHANGED refusal
     ELSE stage' = "raised" /\ refusal' = [how |-> "invalid record"] /\ UNCHANGED tree
  /\ extracted' = Absent
  /\ UNCHANGED <<coverage, analysis, holdout, call, evaluation, faults>>

-----------------------------------------------------------------------------
(* The planners of the SDK, which keep no state: they are asked before     *)
(* anything else here, as a bound.                                         *)

PrimaryModes == {"auto", "session_holdout", "stratified_whole_run"}

AllFamilies(groups) == Values(groups, DOMAIN groups, "family")

AskForSplit(groups, mode, value) ==
  \E a \in SplitPlans(groups, mode, value, AllFamilies(groups)) :
    analysis' = [kind |-> "split", groups |-> groups, mode |-> mode, value |-> value,
                 answer |-> a]

AskForFolds(groups) ==
  \E mode \in {"group_kfold", "leave_one_group_out"} : \E n \in 2 .. Cardinality(DOMAIN groups) :
    \E field \in {"run", "session"} :
      analysis' = [kind |-> "folds", groups |-> groups, field |-> field,
                   answer |-> CrossValidationFolds(groups, mode, n, field)]

Analyse ==
  /\ stage = "extracting"
  /\ analysis = Absent
  /\ \A s \in Slots : coverage[s] = Absent
  /\ \E groups \in AnalystGroups :
       \/ \E mode \in PrimaryModes : AskForSplit(groups, mode, Absent)
       \/ \E family \in AllFamilies(groups) : AskForSplit(groups, "family_holdout", family)
       \/ \E config \in Values(groups, DOMAIN groups, "config") :
            AskForSplit(groups, "configuration_holdout", config)
       \/ AskForFolds(groups)
  /\ stage' = "analysed"
  /\ UNCHANGED <<extracted, coverage, holdout, tree, call, evaluation, refusal, faults>>

Dismiss ==
  /\ stage = "analysed"
  /\ stage' = "extracting"
  /\ analysis' = Absent
  /\ UNCHANGED <<extracted, coverage, holdout, tree, call, evaluation, refusal, faults>>

-----------------------------------------------------------------------------
(* The holdout plan *)

(* [development, hardening: sets of families, final_family, final_sessions, *)
(* final_configs]                                                           *)
ValidHoldoutPlan(plan) ==
  /\ plan.development \cup plan.hardening \cup {plan.final_family} = Strategies
  /\ plan.development \cap plan.hardening = {}
  /\ plan.final_family \notin plan.development \cup plan.hardening
  /\ plan.final_sessions # {} /\ plan.final_configs # {}

(* Mutant: the configuration is not looked at. *)
IsFinalFamilyOrSession(plan, family, session, config) ==
  family = plan.final_family \/ session \in plan.final_sessions

IsFinalIdentity(plan, family, session, config) ==
  \/ family = plan.final_family
  \/ session \in plan.final_sessions
  \/ config \in plan.final_configs

RoundFor(plan, family, session, config, release) ==
  CASE IsFinalIdentity(plan, family, session, config) ->
         IF release THEN "final_test" ELSE "sealed_final_holdout"
    [] ~IsFinalIdentity(plan, family, session, config) /\ family \in plan.hardening ->
         "hardening"
    [] OTHER -> "development"

-----------------------------------------------------------------------------
(* Evaluation *)

PrimaryRuns == {s \in Slots : PrimaryWindow \in coverage[s]}

(* The primary runs of a family. *)
OfFamily(f) == {s \in PrimaryRuns : PlanOf[s].family = f}

(* require_primary_coverage: the caller names the families, maybe none, and *)
(* the number of runs.                                                     *)
CoverageGatePasses(gate) ==
  /\ gate.minimum >= 1
  /\ \A f \in gate.required : Cardinality(OfFamily(f)) >= gate.minimum

(* Controls are no part of the binary task. *)
BinaryRuns == {s \in PrimaryRuns : PlanOf[s].label \in {"training", "inference"}}

GroupsOf(runs) == [s \in runs |-> PlanOf[s]]

PrimarySplits ==
  SplitPlans(GroupsOf(BinaryRuns), "auto", Absent, AllFamilies(GroupsOf(BinaryRuns)))

(* The three-class diagnostic has a split of its own; with every family a  *)
(* stratum, large strata are all it takes.                                 *)
SecondarySplitExists ==
  LET groups == GroupsOf(PrimaryRuns)
  IN  /\ StrataAreLarge(groups, AllFamilies(groups))
      /\ Values(groups, PrimaryRuns, "label") = Labels

(* The diagnostic by window length uses the runs of the primary split that *)
(* have such windows; each part needs both classes.                        *)
WindowDiagnosticsPossible(split) ==
  \A w \in UNION {coverage[s] : s \in Slots} : \A part \in Splits :
    Values(PlanOf, {s \in In(split, part) : w \in coverage[s]}, "label")
      = {"training", "inference"}

(* The frozen baseline is fitted on the training runs that are not final.  *)
FrozenTrain(plan, split) ==
  {s \in In(split, "train") :
     ~IsFinalIdentity(plan, PlanOf[s].family, PlanOf[s].session, PlanOf[s].config)}

FrozenFitPossible(plan, split) ==
  Values(PlanOf, FrozenTrain(plan, split), "label") = {"training", "inference"}

RowFinal(plan, row) ==
  IsFinalIdentity(plan, row.workload.family, row.session, row.workload.config)

(* A family with a sealed row is sealed. *)
Scored(plan, rows, release) ==
  {row \in rows :
     release \/ \A other \in rows :
       other.workload.family = row.workload.family => ~RowFinal(plan, other)}

NothingFrozen == [fitted |-> {}, scored |-> {}]

(* Without rows nothing is fitted; without a plan every family is blocked. *)
HeldOutFamilies(plan, split, rows, release) ==
  IF rows = {} \/ plan = Absent THEN NothingFrozen
  ELSE [fitted |-> FrozenTrain(plan, split), scored |-> Scored(plan, rows, release)]

(* The rows of an adversarial extraction that the caller names, if any. *)
AdversarialRows(extraction) == IF extraction = Absent THEN {} ELSE extraction.rows

EvaluationRaises(cause) == Ends(cause) /\ UNCHANGED <<tree, holdout, faults>>

(* What load_extraction_result may find: the extraction that the caller     *)
(* names (the benign one), or else the last one written.  A summary refers *)
(* to a file of rows and one of records, which are written before it.      *)
LoadableExtractions == {"benign", tree.newest}

(* An adversarial extraction has no calibration reference.  At the end the  *)
(* manifests of all runs are read, of whatever session.                    *)
EvaluateDetector(loaded, gate, extraction, plan, release) ==
  LET rows   == AdversarialRows(extraction)
      splits == PrimarySplits
  IN  /\ stage = "idle"
      /\ IF \/ loaded # "benign"
            \/ ~CoverageGatePasses(gate)
         THEN EvaluationRaises(Absent)
         ELSE IF splits = {} \/ ~SecondarySplitExists
         THEN EvaluationRaises([how |-> "split", gate |-> gate])
         ELSE \E split \in splits :
           IF ~WindowDiagnosticsPossible(split)
           THEN EvaluationRaises([how |-> "window diagnostic"])
           ELSE IF rows # {} /\ plan # Absent /\ ~FrozenFitPossible(plan, split)
           THEN EvaluationRaises([how |-> "frozen baseline", plan |-> plan])
           ELSE IF tree.torn # {}
           THEN EvaluationRaises([how |-> "manifests"])
           ELSE /\ evaluation' = [split    |-> split,
                                  rows     |-> rows,
                                  released |-> release,
                                  frozen   |-> HeldOutFamilies(plan, split, rows, release)]
                /\ Goes("saving")
                /\ UNCHANGED <<call, tree, holdout, faults>>
      /\ UNCHANGED <<extracted, coverage, analysis>>

(* The result is written, and then the assignments of the split: a call    *)
(* that ends early may leave the result, half of it, or nothing.           *)
SaveEvaluation ==
  /\ stage = "saving"
  /\ \/ tree' = [tree EXCEPT !.evaluation = "saved"] /\ Ends(Absent) /\ UNCHANGED faults
     \/ /\ Cut
        /\ \E left \in {tree.evaluation, Torn, "saved"} : tree' = [tree EXCEPT !.evaluation = left]
  /\ UNCHANGED <<extracted, coverage, analysis, holdout>>

-----------------------------------------------------------------------------
(* Adversarial collections *)

(* One workload's planned runs; a segmented one has a run for each segment *)
(* unless it is sealed.                                                    *)
PlannedFor(workload, round) ==
  LET slots == IF round = "sealed_final_holdout" THEN 1 ELSE workload.segments
  IN  [i \in 1 .. slots |-> [workload |-> workload, slot |-> i - 1, round |-> round]]

(* Repetitions are left at one, the default. *)
MatrixPlan(plan, selection, session, release) ==
  FlattenSeq([i \in DOMAIN selection |->
    PlannedFor(selection[i],
               RoundFor(plan, selection[i].family, session, selection[i].config, release))])

(* plan_id is made of the strategy and the slot. *)
PlanId(planned) == <<planned.workload.family, planned.slot>>

PlanIdsAreUnique(plans) ==
  \A i, j \in DOMAIN plans : PlanId(plans[i]) = PlanId(plans[j]) => i = j

MatrixRaises(cause) == Ends(cause) /\ UNCHANGED <<tree, holdout, faults>>

(* The plan manifest is create-only; a call may end before or after the     *)
(* file exists.                                                            *)
WritePlan(kind, session, release, plans) ==
  \/ /\ call' = [kind |-> kind, session |-> session, release |-> release, plans |-> plans,
                 finalized |-> <<>>]
     /\ Goes("collecting")
     /\ tree' = [tree EXCEPT !.plans = @ \cup {session}]
     /\ UNCHANGED <<evaluation, faults>>
  \/ Cut /\ tree' = [tree EXCEPT !.plans = @ \cup {session}]
  \/ Cut /\ UNCHANGED tree

(* Mutant: an evaluation is not asked for. *)
AcceptanceNotTorn == tree.evaluation # Torn

(* The newest evaluation must be readable; only evaluations that passed    *)
(* their coverage gate are ever saved.                                     *)
AcceptanceOnFile == tree.evaluation = "saved"

RunAdversarialMatrix(session, approval, final_approval, release, selection, plan) ==
  LET plans == MatrixPlan(plan, selection, session, release)
  IN  /\ stage = "idle"
      /\ holdout \in {Absent, plan}
      /\ IF \/ ~approval
            \/ release /\ ~final_approval
            \/ ~ValidHoldoutPlan(plan)
            \/ ~AcceptanceOnFile
            \/ selection = <<>> \/ ~IsInjective(selection)
         THEN MatrixRaises(Absent)
         ELSE IF ~PlanIdsAreUnique(plans)
         THEN MatrixRaises([how |-> "plan ids", selection |-> selection])
         ELSE IF session \in tree.plans THEN MatrixRaises(Absent)
         ELSE WritePlan("matrix", session, release, plans) /\ holdout' = plan
      /\ UNCHANGED <<extracted, coverage, analysis>>

(* The study of the periods of local SGD: a matrix of one strategy. *)
RunPeriodicSynchronizationStudy(session, approval, plan) ==
  RunAdversarialMatrix(session, approval, FALSE, FALSE, PeriodicStudy, plan)

(* The segmented series needs an approval and a supported calibration, and *)
(* no holdout plan; its session is always a new one.                       *)
RunSegmentedSeries(session, approval) ==
  /\ stage = "idle"
  /\ session \notin tree.plans
  /\ IF ~approval THEN MatrixRaises(Absent)
     ELSE /\ WritePlan("series", session, FALSE, PlannedFor(Series, "none"))
          /\ UNCHANGED holdout
  /\ UNCHANGED <<extracted, coverage, analysis>>

IsSealed(planned) == planned.round = "sealed_final_holdout"

(* Mutant: the plan is gone through from its end. *)
NextPlannedFromEnd == call.plans[Len(call.plans) - Len(call.finalized)]

NextPlanned == call.plans[Len(call.finalized) + 1]

Finalize(run) == call' = [call EXCEPT !.finalized = Append(@, run)]

(* A sealed slot is passed over. *)
SkipSealed ==
  /\ stage = "collecting"
  /\ Len(call.finalized) < Len(call.plans)
  /\ IsSealed(NextPlanned)
  /\ Finalize(Absent)
  /\ UNCHANGED <<extracted, coverage, analysis, holdout, tree, stage, evaluation, refusal, faults>>

(* run_experiment makes a run that completes or fails, or it raises, maybe  *)
(* while it writes the manifest.                                           *)
MakeRun(kind) ==
  /\ stage = "collecting"
  /\ call.kind = kind
  /\ Len(call.finalized) < Len(call.plans)
  /\ ~IsSealed(NextPlanned)
  /\ \/ \E completed \in BOOLEAN :
          LET run == [workload |-> NextPlanned.workload, slot |-> NextPlanned.slot,
                      session |-> call.session, kind |-> kind, released |-> call.release]
          IN  /\ tree' = [tree EXCEPT !.runs = @ \cup {run}]
              /\ Finalize(IF completed THEN run ELSE Absent)
              /\ UNCHANGED <<stage, evaluation, refusal, faults>>
     \/ Cut /\ UNCHANGED tree
     \/ Cut /\ tree' = [tree EXCEPT !.torn = @ \cup {call.session}]
  /\ UNCHANGED <<extracted, coverage, analysis, holdout>>

MakeMatrixRun == MakeRun("matrix")
MakeSegment   == MakeRun("series")

(* The final manifest accepts the runs that completed. *)
Accepted == {call.finalized[i] : i \in DOMAIN call.finalized} \ {Absent}

(* A segment is shorter than the primary window. *)
LongEnough(run) == run.workload.segments = 1

(* The final manifest, the adversarial extraction and the summary: a call  *)
(* that ends early may leave the extraction.                               *)
Complete(kind) ==
  /\ stage = "collecting"
  /\ call.kind = kind
  /\ Len(call.finalized) = Len(call.plans)
  /\ \/ /\ \E rows \in SUBSET {run \in Accepted : LongEnough(run)} :
             tree' = [tree EXCEPT
                        !.extractions = @ \cup {[session |-> call.session, rows |-> rows]},
                        !.newest = "adversarial"]
        /\ (Ends(Absent) /\ UNCHANGED faults) \/ Cut
     \/ Cut /\ UNCHANGED tree
  /\ UNCHANGED <<extracted, coverage, analysis, holdout>>

CompleteMatrix == Complete("matrix")
CompleteSeries == Complete("series")

-----------------------------------------------------------------------------

Next ==
  \/ ExtractRun \/ FinishExtraction
  \/ Analyse \/ Dismiss
  \/ \E loaded \in LoadableExtractions, gate \in Gates, release \in BOOLEAN :
       \E extraction \in {Absent} \cup tree.extractions, plan \in {Absent, holdout} :
         EvaluateDetector(loaded, gate, extraction, plan, release)
  \/ SaveEvaluation
  \/ \E session \in Sessions, approval, final_approval, release \in BOOLEAN :
       \E selection \in Selections, plan \in HoldoutPlans :
         RunAdversarialMatrix(session, approval, final_approval, release, selection, plan)
  \/ \E session \in Sessions, approval \in BOOLEAN : RunSegmentedSeries(session, approval)
  \/ \E session \in Sessions, approval \in BOOLEAN, plan \in HoldoutPlans :
       RunPeriodicSynchronizationStudy(session, approval, plan)
  \/ SkipSealed
  \/ MakeMatrixRun \/ CompleteMatrix
  \/ MakeSegment \/ CompleteSeries

Spec == Init /\ [][Next]_vars

-----------------------------------------------------------------------------
(* Properties *)

Workloads ==
  (UNION {Range(selection) : selection \in Selections \cup {PeriodicStudy}}) \cup {Series}

Kinds == {"matrix", "series"}

Rounds == {"final_test", "sealed_final_holdout", "hardening", "development", "none"}

PlannedRuns == [workload : Workloads, slot : Nat, round : Rounds]

AdversarialRuns ==
  [workload : Workloads, slot : Nat, session : Sessions, kind : Kinds, released : BOOLEAN]

Trees ==
  [plans       : SUBSET Sessions,
   torn        : SUBSET (Sessions \cup BenignSessions),
   runs        : SUBSET AdversarialRuns,
   extractions : SUBSET [session : Sessions, rows : SUBSET AdversarialRuns],
   newest      : {Absent, "benign", "adversarial"},
   evaluation  : {Absent, Torn, "saved"}]

Calls ==
  [kind : Kinds, session : Sessions, release : BOOLEAN,
   plans : Seq(PlannedRuns), finalized : Seq(AdversarialRuns \cup {Absent})]

(* A call collects the runs it planned, in their order. *)
CollectsAsPlanned(c) ==
  /\ Len(c.finalized) <= Len(c.plans)
  /\ \A i \in DOMAIN c.finalized : c.finalized[i] # Absent =>
       /\ c.finalized[i].workload = c.plans[i].workload /\ c.finalized[i].slot = c.plans[i].slot
       /\ c.finalized[i].session = c.session /\ c.finalized[i].kind = c.kind

(* An evaluation splits the runs it uses, and fits and scores some of them. *)
IsEvaluation(e) ==
  /\ e.split \in [BinaryRuns -> Splits]
  /\ e.rows \subseteq AdversarialRuns /\ e.frozen.scored \subseteq e.rows
  /\ e.frozen.fitted \subseteq BinaryRuns

(* Every variable has its type: the windows of a run are among those       *)
(* requested, a call collects the runs it planned in their order, and an   *)
(* evaluation exists only until it is saved (the state the functions of    *)
(* the source keep on disk and on their stacks).                           *)
TypeOK ==
  /\ stage \in {"extracting", "analysed", "raised", "idle", "saving", "collecting"}
  /\ coverage \in [Slots -> (SUBSET Windows) \cup {Absent, Invalid}]
  /\ holdout \in HoldoutPlans \cup {Absent}
  /\ tree \in Trees
  /\ IF stage = "collecting" THEN call \in Calls /\ CollectsAsPlanned(call) ELSE call = Absent
  /\ IF stage = "saving" THEN IsEvaluation(evaluation) ELSE evaluation = Absent
  /\ faults \in 0 .. MaxFaults

(* align_gpu_samples is greedy, and pairs as many samples of the two GPUs   *)
(* as any pairing within the tolerance could: a window is not discarded    *)
(* because of the order in which samples were taken up.                    *)
PairingIsMaximum ==
  (extracted # Absent /\ extracted.evidence # Absent) =>
    LET samples == extracted.evidence.samples
        pairs   == AlignedPairs(samples[0], samples[1])
    IN  /\ IsMatching(pairs)
        /\ Cardinality(pairs) = MaximumMatching(samples[0], samples[1])

(* The extraction raises only if the telemetry of the two GPUs of some run  *)
(* does not overlap at all; and a completed run of this corpus, sampled    *)
(* steadily through a measured interval that exceeds the primary window by *)
(* two missed samples, is included with its primary window.                *)
EveryRunIsAccountedFor ==
  /\ stage = "raised" => \E s \in Slots : coverage[s] = Invalid
  /\ (extracted # Absent /\ extracted.evidence # Absent) =>
       LET e == extracted.evidence
       IN  /\ ~ValidRecord(extracted.record) => CommonEnd(e) < CommonStart(e)
           /\ (/\ e.manifest = "valid" /\ e.own_corpus /\ e.exit_status = "completed"
               /\ e.participation_valid /\ e.as_planned /\ e.telemetry = "valid"
               /\ e.measured # NoInterval
               /\ e.measured[2] - e.measured[1] >= PrimaryWindow + 2
               /\ SteadilySampled(e, 2)) =>
                 PrimaryWindow \in extracted.record.windows

(* A split of one mode is no leak: the parts of a primary split have every *)
(* class and family, session holdouts keep sessions whole, a diagnostic    *)
(* tests exactly the runs it holds out, and every run is tested in one     *)
(* fold with its whole group and trained on in all others.                 *)
SplitIsSound(mode, value, groups, a) ==
  CASE mode \in {"family_holdout", "configuration_holdout"} ->
         LET field == IF mode = "family_holdout" THEN "family" ELSE "config"
         IN  In(a, "test") = {r \in DOMAIN groups : groups[r][field] = value}
    [] OTHER ->
         /\ PartsAreComplete(groups, AllFamilies(groups), a)
         /\ mode = "session_holdout" =>
              \A q, r \in DOMAIN groups :
                groups[q].session = groups[r].session => a[q] = a[r]

FoldsAreSound(groups, field, folds) ==
  folds # <<>> =>
    /\ \A r \in DOMAIN groups :
         Cardinality({i \in DOMAIN folds : r \in folds[i].test}) = 1
    /\ \A i \in DOMAIN folds :
         /\ folds[i].test # {} /\ folds[i].train = DOMAIN groups \ folds[i].test
         /\ field # "run" =>
              Values(groups, folds[i].test, field)
                \cap Values(groups, folds[i].train, field) = {}

(* make_split_plan, assign_cross_validation_folds and the split that        *)
(* evaluate_detector fits on keep runs, groups and classes as their        *)
(* docstrings promise.                                                     *)
SplitsAreSound ==
  /\ analysis # Absent =>
       IF analysis.kind = "split"
       THEN SplitIsSound(analysis.mode, analysis.value, analysis.groups, analysis.answer)
       ELSE FoldsAreSound(analysis.groups, analysis.field, analysis.answer)
  /\ evaluation # Absent =>
       LET groups == GroupsOf(BinaryRuns)
       IN  PartsAreComplete(groups, AllFamilies(groups), evaluation.split)

(* Belonging to the final holdout: by family, by session or by configuration. *)
OfFinalHoldout(plan, workload, session) ==
  \/ workload.family = plan.final_family
  \/ workload.config \in plan.final_configs
  \/ session \in plan.final_sessions

(* Until it is released, no run of the final holdout is collected by the   *)
(* matrix, and none is scored by an evaluation; the frozen baseline never  *)
(* sees a run of it.                                                       *)
HoldoutStaysSealed ==
  /\ \A run \in tree.runs :
       (run.kind = "matrix" /\ OfFinalHoldout(holdout, run.workload, run.session)) => run.released
  /\ evaluation # Absent =>
       /\ \A run \in evaluation.frozen.scored :
            OfFinalHoldout(holdout, run.workload, run.session) => evaluation.released
       /\ \A s \in evaluation.frozen.fitted :
            /\ ~OfFinalHoldout(holdout, PlanOf[s], PlanOf[s].session)
            /\ evaluation.split[s] = "train"

(* run_adversarial_matrix collects nothing before a benign acceptance, and  *)
(* whatever families and however few runs the evaluation was told to ask   *)
(* for, an acceptance means that training, inference and control were each *)
(* seen, and every family that was seen has three runs with the primary    *)
(* window.                                                                 *)
AcceptancePrecedesCollection ==
  (\E run \in tree.runs : run.kind = "matrix") =>
    /\ Values(PlanOf, PrimaryRuns, "label") = Labels
    /\ \A s \in PrimaryRuns : Cardinality(OfFamily(PlanOf[s].family)) >= 3

(* A collection that was cut off: it has a plan and no extraction. *)
Unfinished(session) ==
  session \in tree.plans /\ \A x \in tree.extractions : x.session # session

(* A corpus that passes its gate fails later in evaluate_detector only for *)
(* a cause outside the gate: a family too small to be split that the gate  *)
(* did not require in three runs, a class without a run that the default   *)
(* families would have found, a primary run without the shorter windows, a *)
(* holdout plan that reaches into the benign runs, or a run that died over *)
(* its manifest, in the benign collection or in one that was cut off; and  *)
(* a matrix is refused for its plan ids only if two of its workloads share *)
(* a strategy.                                                             *)
EvaluationIsRefusedForCause ==
  refusal # Absent =>
    /\ refusal.how = "split" =>
         \/ \E f \in AllFamilies(PlanOf) :
              /\ Cardinality(OfFamily(f)) \in 1 .. 2
              /\ f \in refusal.gate.required => refusal.gate.minimum < 3
         \/ /\ \E l \in Labels : \A s \in PrimaryRuns : PlanOf[s].label # l
            /\ ~(RequiredFamilies \subseteq refusal.gate.required)
    /\ refusal.how = "window diagnostic" => \E s \in PrimaryRuns : coverage[s] # Windows
    /\ refusal.how = "frozen baseline" =>
         \E s \in Slots : OfFinalHoldout(refusal.plan, PlanOf[s], PlanOf[s].session)
    /\ refusal.how = "manifests" =>
         tree.torn \cap BenignSessions # {} \/ \E session \in Sessions : Unfinished(session)
    /\ refusal.how = "plan ids" =>
         \E i, j \in DOMAIN refusal.selection :
           i # j /\ refusal.selection[i].family = refusal.selection[j].family

=============================================================================
