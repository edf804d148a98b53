---------------------------- MODULE BenignMatrix ----------------------------
(***************************************************************************)
(* run_matrix and the calibration sweep it begins with (orchestrator.py),  *)
(* on one artifact tree that outlives the processes that write it.  A call *)
(* belongs to a context (experiment session and corpus), may be repeated   *)
(* to resume it, and may end anywhere: a run or a write raises, or the     *)
(* process dies, leaving the file it was writing incomplete.  The tree may *)
(* be exported, lost with its host and restored from the archive.          *)
(*                                                                         *)
(* All callers in the repository resume, so resume=False is left out.  Run *)
(* configurations come from one checkout, so the hashes of the same plan   *)
(* agree.  A write is one step.                                            *)
(***************************************************************************)
EXTENDS Calibration, Sequences

CONSTANTS
  Contexts,           \* the sessions that use the tree
  Slots,              \* the planned runs of a profile, 1 .. n
  FamilyOf,           \* the workload family of each slot
  RequiredFamilies,   \* PRIMARY_BENIGN_FAMILIES
  MinimumRuns,        \* feature-valid runs required of each of them
  Sweeps,             \* the sweeps a standard session may measure
  Absent, Torn,       \* a file that does not exist, or was being written
  NoRun, NoPrior,
  MaxRuns,            \* bound: benign runs made
  MaxFaults           \* bound: calls that end early, and lost hosts

ASSUME MatrixAssumption ==
  /\ IsFiniteSet(Slots) /\ 1 \in Slots /\ Slots = 1 .. Cardinality(Slots)
  /\ RequiredFamilies \subseteq {FamilyOf[s] : s \in Slots}
  /\ MinimumRuns \in Nat
  /\ Sweeps \subseteq [Observations -> Row]
  /\ MaxRuns \in Nat /\ MaxFaults \in Nat

VARIABLES
  profile,       \* the profile of each context: smoke or standard
  tree,          \* the artifact tree
  archive,       \* the last exported archive, or Absent
  call,          \* the call that is running: its context and prior reference
  stage,         \* where it is, or "idle"
  sweep,         \* the rows of the sweep being analysed, or Absent
  calibration,   \* the result that gates the call, or Absent
  finalized,     \* the accepted run of each slot so far
  included,      \* the slots with extracted features
  outcome,       \* how the last call ended
  run_count,     \* benign runs made by anyone
  faults,
  interrupted    \* history: where calls on this tree were cut off

vars == <<profile, tree, archive, call, stage, sweep, calibration, finalized, included,
          outcome, run_count, faults, interrupted>>

work == <<sweep, calibration, finalized, included>>

-----------------------------------------------------------------------------
(* The tree *)

EmptyTree ==
  [plans     |-> [c \in Contexts |-> Absent],
   started   |-> {},                              \* sweep markers
   results   |-> {},                              \* calibration results
   completed |-> [c \in Contexts |-> Absent],     \* sweep markers, naming a result
   runs      |-> {},                              \* manifests of benign runs
   torn_manifest |-> FALSE,
   finals    |-> [c \in Contexts |-> Absent],
   summaries |-> [c \in Contexts |-> Absent]]

(* A run is full when it completed, its ranks took part and its measured   *)
(* intervals overlap for thirty seconds; short when only the last fails.   *)
Quality == {"failed", "short", "full"}

(* A calibration result, a run, the accepted runs of a final manifest, and *)
(* a summary.                                                              *)
Statuses == {"supported", "partially_supported", "not_supported"}
Result == [id : Nat, context : Contexts, status : Statuses]
Run == [id : Nat, context : Contexts, slot : Slots, quality : Quality]
Accepted == [Slots -> Nat \cup {NoRun}]
Summary == [included : SUBSET Slots, gate : BOOLEAN, calibration : Result]

ASSUME ValuesAssumption ==
  /\ Absent # Torn
  /\ {Absent, Torn} \cap {"smoke", "standard"} = {}
  /\ {Absent, Torn} \cap Result = {}
  /\ {Absent, Torn} \cap Accepted = {}
  /\ {Absent, Torn} \cap Summary = {}
  /\ Absent \notin Contexts
  /\ NoRun \notin Nat

SameProfile(c) == {d \in Contexts : profile[d] = profile[c]}

(* The runs whose configuration names this slot of the plan. *)
Attempts(c, s) == {r \in tree.runs : r.context \in SameProfile(c) /\ r.slot = s}

(* Mutant: only the runs of the same session are looked at. *)
AcceptedMatchesOfSession(c, s) == {r \in Attempts(c, s) : r.context = c /\ r.quality = "full"}

AcceptedMatches(c, s) == {r \in Attempts(c, s) : r.quality = "full"}

-----------------------------------------------------------------------------
(* The ends of a call *)

NoCall == [context |-> Absent, prior |-> NoPrior, slot |-> 0]

Idling ==
  /\ call' = NoCall
  /\ stage' = "idle"
  /\ sweep' = Absent
  /\ calibration' = Absent
  /\ finalized' = [s \in Slots |-> NoRun]
  /\ included' = {}

Ends(how) ==
  /\ outcome' = [context |-> call.context, how |-> how]
  /\ Idling

(* The call raises because of what it finds; nothing is changed. *)
Refuse(reason) ==
  /\ Ends(reason)
  /\ UNCHANGED <<tree, interrupted, faults>>

(* What a cut at this stage leaves behind: a sweep that was not finished,  *)
(* a final manifest without a summary, or nothing of consequence.          *)
Traces(c) ==
  CASE stage \in {"sweeping", "result", "complete"} -> {<<c, "sweep">>}
    [] stage \in {"extract", "summary"}             -> {<<c, "after final">>}
    [] OTHER                                        -> {}

CutOff(traces) ==
  /\ faults < MaxFaults
  /\ faults' = faults + 1
  /\ interrupted' = interrupted \cup traces
  /\ Ends("cut off")

(* A step raises, or the process dies, and the tree stays as it is; or the *)
(* process dies and leaves the file it was writing torn.                   *)
Cut           == CutOff(Traces(call.context)) /\ UNCHANGED tree
CutTorn(torn) == CutOff(Traces(call.context) \cup {<<call.context, "torn">>}) /\ tree' = torn

Goes(next) ==
  /\ stage' = next
  /\ UNCHANGED <<call, outcome, faults, interrupted>>

(* A file is written, with what else the call then does; or the call is    *)
(* cut off before or within the write.                                     *)
Write(whole, torn, next, effect) ==
  \/ tree' = whole /\ Goes(next) /\ effect
  \/ Cut
  \/ CutTorn(torn)

Goto(next) == Goes(next) /\ UNCHANGED tree

-----------------------------------------------------------------------------
(* Plan *)

Init ==
  /\ profile \in [Contexts -> {"smoke", "standard"}]
  /\ tree = EmptyTree
  /\ archive = Absent
  /\ call = NoCall
  /\ stage = "idle"
  /\ sweep = Absent
  /\ calibration = Absent
  /\ finalized = [s \in Slots |-> NoRun]
  /\ included = {}
  /\ outcome = Absent
  /\ run_count = 0
  /\ faults = 0
  /\ interrupted = {}

(* A call, with or without a reference to an earlier calibration, returns  *)
(* the summary of a finished matrix; every summary of the profile is read. *)
RunMatrix(c, prior) ==
  /\ stage = "idle"
  /\ UNCHANGED <<profile, archive, run_count, faults, interrupted, tree>>
  /\ IF \E d \in SameProfile(c) : tree.summaries[d] = Torn
     THEN outcome' = [context |-> c, how |-> "unreadable"] /\ UNCHANGED <<call, stage, work>>
     ELSE IF tree.summaries[c] # Absent
     THEN outcome' = [context |-> c, how |-> "returned"] /\ UNCHANGED <<call, stage, work>>
     ELSE /\ call' = [context |-> c, prior |-> prior, slot |-> 1]
          /\ stage' = "plan"
          /\ outcome' = Absent
          /\ UNCHANGED work

(* Mutant: the plan on file is compared as parsed, lists against tuples. *)
PlanMatchesAsParsed(c) == FALSE

(* A plan on file is rebuilt before it is compared, and the same profile   *)
(* makes the same plan.                                                    *)
PlanMatches(c) == tree.plans[c] = profile[c]

Plan ==
  LET c == call.context
  IN  /\ stage = "plan"
      /\ CASE tree.plans[c] = Torn -> Refuse("unreadable")
           [] tree.plans[c] = Absent ->
                Write([tree EXCEPT !.plans[c] = profile[c]], [tree EXCEPT !.plans[c] = Torn],
                      "calibrate", UNCHANGED work)
           [] OTHER ->
                IF PlanMatches(c) THEN Goto("calibrate") /\ UNCHANGED work
                ELSE Refuse("plan mismatch")
      /\ UNCHANGED <<profile, archive, run_count>>

-----------------------------------------------------------------------------
(* The calibration sweep *)

(* A completed marker gives the result it names, without a sweep. *)
ReuseCalibration ==
  LET marker == tree.completed[call.context]
  IN  /\ stage = "calibrate"
      /\ marker # Absent
      /\ IF marker = Torn THEN Refuse("unreadable")
         ELSE /\ Goto("verify")
              /\ calibration' = marker
              /\ UNCHANGED <<sweep, finalized, included>>
      /\ UNCHANGED <<profile, archive, run_count>>

(* Mutant: a sweep that was interrupted does not count. *)
SweepEvidenceIfCompleted(c) ==
  \/ tree.completed[c] # Absent
  \/ call.prior = NoPrior /\ tree.started # {}

(* A sweep is never repeated in its session, and another session's sweep   *)
(* in the same tree needs a reference to it.                               *)
SweepEvidence(c) ==
  \/ c \in tree.started
  \/ call.prior = NoPrior /\ tree.started # {}

StartSweep ==
  LET c == call.context
      started == [tree EXCEPT !.started = @ \cup {c}]
  IN  /\ stage = "calibrate"
      /\ tree.completed[c] = Absent
      /\ IF SweepEvidence(c) THEN Refuse("sweep evidence")
         ELSE Write(started, started, "sweeping", UNCHANGED work)
      /\ UNCHANGED <<profile, archive, run_count>>

(* The runs of the sweep are made and analysed.  A smoke sweep has one     *)
(* payload, so its rows are not looked at here.                            *)
MeasureSweep ==
  /\ stage = "sweeping"
  /\ \E rows \in Sweeps : sweep' = rows
  /\ Goto("result")
  /\ UNCHANGED <<profile, archive, run_count, calibration, finalized, included>>

(* A run of the sweep raises, or the process dies while it runs and may    *)
(* leave its manifest torn.                                                *)
SweepIsCutOff ==
  /\ stage = "sweeping"
  /\ Cut \/ CutTorn([tree EXCEPT !.torn_manifest = TRUE])
  /\ UNCHANGED <<profile, archive, run_count>>

(* One payload has no rank correlation: a smoke sweep is not supported. *)
SweepStatus(c) == IF profile[c] = "smoke" THEN "not_supported" ELSE Status(sweep)

NewResult(c) ==
  [id |-> Cardinality(tree.results) + 1, context |-> c, status |-> SweepStatus(c)]

(* The result has a time in its name; nothing refers to a torn one. *)
WriteResult ==
  LET result == NewResult(call.context)
  IN  /\ stage = "result"
      /\ Write([tree EXCEPT !.results = @ \cup {result}], tree, "complete",
               calibration' = result /\ UNCHANGED <<sweep, finalized, included>>)
      /\ UNCHANGED <<profile, archive, run_count>>

(* The rows are as planned, the sweep has its marker and its result is the *)
(* file it refers to.                                                      *)
ValidStandardResult(c) ==
  RowsAsPlanned(sweep) /\ c \in tree.started /\ calibration \in tree.results

CompleteSweep ==
  LET c == call.context
  IN  /\ stage = "complete"
      /\ IF profile[c] = "standard" /\ ~ValidStandardResult(c) THEN Refuse("validation")
         ELSE
         Write([tree EXCEPT !.completed[c] = calibration], [tree EXCEPT !.completed[c] = Torn],
               "verify", sweep' = Absent /\ UNCHANGED <<calibration, finalized, included>>)
      /\ UNCHANGED <<profile, archive, run_count>>

-----------------------------------------------------------------------------
(* The gate *)

Relationship(c, result) == IF result.context = c THEN "current_session" ELSE "prior_session"

(* Mutant: a sweep with reservations is enough. *)
PassesGateWithReservations(c, result) ==
  /\ result \in tree.results
  /\ profile[c] = "smoke" \/ result.status \in {"supported", "partially_supported"}
  /\ Relationship(c, result) = "current_session"

(* verify_calibration_reference on the call's own calibration. *)
PassesGate(c, result) ==
  /\ result \in tree.results
  /\ profile[c] = "smoke" \/ result.status = "supported"
  /\ Relationship(c, result) = "current_session"

(* The same on the prior reference, which need not be supported. *)
PriorIsPrior(c, prior) ==
  prior = NoPrior \/ (prior \in tree.results /\ Relationship(c, prior) = "prior_session")

Verify ==
  /\ stage = "verify"
  /\ IF ~PassesGate(call.context, calibration) THEN Refuse("calibration")
     ELSE IF ~PriorIsPrior(call.context, call.prior) THEN Refuse("prior reference")
     ELSE Goto("slots") /\ UNCHANGED work
  /\ UNCHANGED <<profile, archive, run_count>>

-----------------------------------------------------------------------------
(* The planned runs *)

(* The loop goes on with the next slot, or leaves. *)
NextSlot ==
  /\ IF call.slot + 1 \in Slots
     THEN call' = [call EXCEPT !.slot = @ + 1] /\ UNCHANGED stage
     ELSE stage' = "final" /\ UNCHANGED call
  /\ UNCHANGED <<outcome, faults, interrupted>>

(* Every manifest in the tree is read for every slot. *)
SkipSlot ==
  LET matches == AcceptedMatches(call.context, call.slot)
  IN  /\ stage = "slots"
      /\ tree.torn_manifest \/ matches # {}
      /\ IF tree.torn_manifest THEN Refuse("unreadable")
         ELSE IF Cardinality(matches) > 1 THEN Refuse("duplicate runs")
         ELSE /\ NextSlot
              /\ \E r \in matches : finalized' = [finalized EXCEPT ![call.slot] = r.id]
              /\ UNCHANGED <<tree, sweep, calibration, included>>
      /\ UNCHANGED <<profile, archive, run_count>>

(* Mutant: a failed run leaves the slot without an entry. *)
AcceptedRunIfAny(run) == IF run.quality = "failed" THEN Absent ELSE run.id

(* A fresh run is accepted when it completed, whatever its duration. *)
AcceptedRunId(run) == IF run.quality = "failed" THEN NoRun ELSE run.id

FillSlot ==
  /\ stage = "slots"
  /\ ~tree.torn_manifest
  /\ AcceptedMatches(call.context, call.slot) = {}
  /\ run_count < MaxRuns
  /\ run_count' = run_count + 1
  /\ \E quality \in Quality :
       LET run == [id |-> run_count + 1, context |-> call.context, slot |-> call.slot,
                   quality |-> quality]
       IN  /\ tree' = [tree EXCEPT !.runs = @ \cup {run}]
           /\ finalized' = [finalized EXCEPT ![call.slot] = AcceptedRunId(run)]
  /\ NextSlot
  /\ UNCHANGED <<profile, archive, sweep, calibration, included>>

(* run_experiment raises, or the process dies during the run. *)
SlotIsCutOff ==
  /\ stage = "slots"
  /\ Cut \/ CutTorn([tree EXCEPT !.torn_manifest = TRUE])
  /\ UNCHANGED <<profile, archive, run_count>>

-----------------------------------------------------------------------------
(* The final manifest, the features and the summary *)

(* A final manifest on file holds lists where the new one holds tuples, so *)
(* the two never compare as equal.                                         *)
WriteFinal ==
  LET c == call.context
  IN  /\ stage = "final"
      /\ IF tree.finals[c] = Torn THEN Refuse("unreadable")
         ELSE IF tree.finals[c] # Absent THEN Refuse("final exists")
         ELSE Write([tree EXCEPT !.finals[c] = finalized], [tree EXCEPT !.finals[c] = Torn],
                    "extract", UNCHANGED work)
      /\ UNCHANGED <<profile, archive, run_count>>

(* Mutant: the corpus of a run is not compared. *)
EligibleOfAnyCorpus(c) ==
  {s \in Slots : \E r \in tree.runs : r.id = finalized[s] /\ r.quality = "full"}

(* The slots whose accepted run was made by this corpus and session and is *)
(* long enough.                                                            *)
Eligible(c) ==
  {s \in Slots : \E r \in tree.runs :
     r.id = finalized[s] /\ r.quality = "full" /\ r.context = c}

(* Telemetry may exclude any of them; a partial extraction is never read.  *)
Extract ==
  /\ stage = "extract"
  /\ \/ /\ Goto("summary")
        /\ \E slots \in SUBSET Eligible(call.context) : included' = slots
        /\ UNCHANGED <<sweep, calibration, finalized>>
     \/ Cut
  /\ UNCHANGED <<profile, archive, run_count>>

CoverageGate(slots) ==
  \A f \in RequiredFamilies : Cardinality({s \in slots : FamilyOf[s] = f}) >= MinimumRuns

WriteSummary ==
  LET c == call.context
      summary == [included |-> included, gate |-> CoverageGate(included),
                  calibration |-> calibration]
  IN  /\ stage = "summary"
      /\ \/ /\ tree' = [tree EXCEPT !.summaries[c] = summary]
            /\ Ends("returned")
            /\ UNCHANGED <<faults, interrupted>>
         \/ Cut
         \/ CutTorn([tree EXCEPT !.summaries[c] = Torn])
      /\ UNCHANGED <<profile, archive, run_count>>

-----------------------------------------------------------------------------
(* The archive *)

(* The archive is made between two calls. *)
Export ==
  /\ stage = "idle"
  /\ archive' = [tree |-> tree, interrupted |-> interrupted]
  /\ UNCHANGED <<profile, tree, call, stage, work, outcome, run_count, faults, interrupted>>

(* The host goes with its tree; the archive, if there is one, is restored  *)
(* and its digest checked.                                                 *)
HostLost ==
  /\ faults < MaxFaults
  /\ faults' = faults + 1
  /\ tree' = IF archive = Absent THEN EmptyTree ELSE archive.tree
  /\ interrupted' = IF archive = Absent THEN {} ELSE archive.interrupted
  /\ outcome' = Absent
  /\ Idling
  /\ UNCHANGED <<profile, archive, run_count>>

Next ==
  \/ \E c \in Contexts : \E prior \in {NoPrior} \cup tree.results : RunMatrix(c, prior)
  \/ Plan
  \/ ReuseCalibration \/ StartSweep \/ MeasureSweep \/ SweepIsCutOff
  \/ WriteResult \/ CompleteSweep
  \/ Verify
  \/ SkipSlot \/ FillSlot \/ SlotIsCutOff
  \/ WriteFinal \/ Extract \/ WriteSummary
  \/ Export \/ HostLost

Spec == Init /\ [][Next]_vars

-----------------------------------------------------------------------------

TypeOK ==
  /\ stage \in {"idle", "plan", "calibrate", "sweeping", "result", "complete", "verify",
                "slots", "final", "extract", "summary"}
  /\ call.context \in Contexts \cup {Absent}
  /\ call.prior \in Result \cup {NoPrior}
  /\ tree.results \subseteq Result
  /\ tree.runs \subseteq Run
  /\ calibration \in Result \cup {Absent}
  /\ finalized \in Accepted
  /\ included \subseteq Slots
  /\ \A c \in Contexts :
       /\ tree.completed[c] \in Result \cup {Absent, Torn}
       /\ tree.finals[c] \in {Absent, Torn} \/ tree.finals[c] \in Accepted
       /\ tree.summaries[c] \in {Absent, Torn} \/ tree.summaries[c] \in Summary

(* A sweep that is supported is clean: every one of its rows counts, none  *)
(* failed, none is short, late or without a reading.                       *)
SupportedSweepIsClean ==
  stage = "result" /\ Status(sweep) = "supported" =>
    \A o \in Observations :
      /\ sweep[o].pcie_supported /\ sweep[o].signal >= 0
      /\ sweep[o].participation_valid /\ sweep[o].exit_status = "completed"
      /\ sweep[o].long /\ sweep[o].timely

(* And it shows what the detector relies on: the largest payload has a     *)
(* stronger response than the smallest, and each one's median is above     *)
(* the threshold taken from the idle runs.  The first would not follow for *)
(* ten payloads or more, of which the others suffice for a correlation of  *)
(* 0.7; the standard sweep has five.                                       *)
SupportedSweepResponds ==
  stage = "result" /\ Status(sweep) = "supported" =>
    /\ \A p \in Payloads : 2 * Response(sweep)[p] > CaptureThreshold4(sweep)
    /\ \A p, q \in Payloads :
         (\A x \in Payloads : p <= x /\ x <= q) =>
           p = q \/ Response(sweep)[p] < Response(sweep)[q]

(* A session is calibrated at most once in a tree, however its calls end   *)
(* and whatever is restored: there are never two results to choose from,   *)
(* and a completed marker names the only one.                              *)
SweepsAreNotRepeated ==
  /\ \A x, y \in tree.results : x.context = y.context => x = y
  /\ \A c \in Contexts :
       tree.completed[c] \notin {Absent, Torn} =>
         tree.completed[c] \in tree.results /\ tree.completed[c].context = c

(* "Run a planned benign profile after a session-specific calibration      *)
(* gate" (orchestrator.py): every benign run of a standard session was     *)
(* made after its own sweep was completed and found to be supported, also  *)
(* when the sweep was made by an earlier call, before a crash or a restore. *)
CollectionIsGated ==
  \A r \in tree.runs : profile[r.context] = "standard" =>
    /\ tree.completed[r.context] \notin {Absent, Torn}
    /\ tree.completed[r.context].status = "supported"

(* A slot of the plan is filled once: whoever resumes, no second full run  *)
(* is made, so a resume never meets two runs to choose from.               *)
WorkIsNotRepeated ==
  \A x, y \in tree.runs :
    /\ profile[x.context] = profile[y.context] /\ x.slot = y.slot
    /\ x.quality = "full" /\ y.quality = "full"
    => x = y

(* A coverage gate that passed rests on this session's own evidence: full  *)
(* runs it made itself, one for each counted slot, as declared in its      *)
(* final manifest, after its own calibration; runs another session left in *)
(* the tree are reused for the slots but never counted.                    *)
GateRestsOnOwnEvidence ==
  \A c \in Contexts :
    tree.summaries[c] \notin {Absent, Torn} =>
      LET summary == tree.summaries[c]
      IN  /\ summary.calibration = tree.completed[c]
          /\ \A s \in summary.included :
               \E r \in tree.runs :
                 /\ r.context = c /\ r.slot = s /\ r.quality = "full"
                 /\ tree.finals[c] \notin {Absent, Torn} /\ tree.finals[c][s] = r.id
          /\ summary.gate => \A f \in RequiredFamilies :
               Cardinality({r \in tree.runs : /\ r.context = c
                                              /\ r.quality = "full"
                                              /\ FamilyOf[r.slot] = f}) >= MinimumRuns

(* Resuming is refused only for cause.  A call cut off in its sweep, or    *)
(* between its final manifest and its summary, or while writing a file,    *)
(* blocks later ones; a cut anywhere else never does.  Without such a cut  *)
(* a call ends with its summary, or because its session's calibration is   *)
(* not supported, or because of the reference to an earlier session that   *)
(* it was given or not.                                                    *)
RefusalsHaveACause ==
  outcome # Absent =>
    LET c == outcome.context
    IN  CASE outcome.how = "unreadable" -> \E d \in Contexts : <<d, "torn">> \in interrupted
          [] outcome.how = "sweep evidence" ->
               \/ \E trace \in {"sweep", "torn"} : <<c, trace>> \in interrupted
               \/ tree.started \ {c} # {}
          [] outcome.how = "final exists" -> <<c, "after final">> \in interrupted
          [] outcome.how = "calibration" ->
               profile[c] = "standard" /\ tree.completed[c].status # "supported"
          [] OTHER -> outcome.how \in {"returned", "cut off", "prior reference"}

=============================================================================
