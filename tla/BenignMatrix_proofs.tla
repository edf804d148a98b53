------------------------- MODULE BenignMatrix_proofs -------------------------
(***************************************************************************)
(* Proofs about BenignMatrix, for any number of sessions, slots, runs and  *)
(* faults and any sweeps.  What is true of the tree is stated of any tree  *)
(* t, because the archive holds one too: restoring it must not break what  *)
(* the calls rely on.  The second half is about the analysis of a sweep:   *)
(* sums, ranks and medians of any size, and what a supported sweep shows.  *)
(***************************************************************************)
EXTENDS BenignMatrix, WellFoundedInduction, FiniteSetTheorems, TLAPS

TreeType ==
  [plans         : [Contexts -> {"smoke", "standard", Absent, Torn}],
   started       : SUBSET Contexts,
   results       : SUBSET Result,
   completed     : [Contexts -> Result \cup {Absent, Torn}],
   runs          : SUBSET Run,
   torn_manifest : BOOLEAN,
   finals        : [Contexts -> Accepted \cup {Absent, Torn}],
   summaries     : [Contexts -> Summary \cup {Absent, Torn}]]

(* A result is its session's only one and has a started marker; a marker   *)
(* of completion names it.                                                 *)
ResultsAreSound(t) ==
  /\ IsFiniteSet(t.results)
  /\ \A x, y \in t.results : x.context = y.context => x = y
  /\ \A x \in t.results : x.context \in t.started
  /\ \A c \in Contexts :
       t.completed[c] \notin {Absent, Torn} =>
         t.completed[c] \in t.results /\ t.completed[c].context = c

Gated(t, p) ==
  \A r \in t.runs : p[r.context] = "standard" =>
    /\ t.completed[r.context] \notin {Absent, Torn}
    /\ t.completed[r.context].status = "supported"

(* Run ids are given out once, also across a restored archive. *)
RunsAreSound(t, p, n) ==
  /\ IsFiniteSet(t.runs)
  /\ \A r \in t.runs : r.id <= n
  /\ \A x, y \in t.runs : x.id = y.id => x = y
  /\ \A x, y \in t.runs :
       /\ p[x.context] = p[y.context] /\ x.slot = y.slot
       /\ x.quality = "full" /\ y.quality = "full"
       => x = y

(* What a summary counts are full runs of its own session. *)
SummaryIsSound(t, c) ==
  t.summaries[c] \notin {Absent, Torn} =>
    /\ t.summaries[c].calibration = t.completed[c]
    /\ \A s \in t.summaries[c].included :
         \E r \in t.runs :
           /\ r.context = c /\ r.slot = s /\ r.quality = "full"
           /\ t.finals[c] \notin {Absent, Torn} /\ t.finals[c][s] = r.id
    /\ t.summaries[c].gate = CoverageGate(t.summaries[c].included)

TreeSound(t, p, n) ==
  /\ t \in TreeType
  /\ ResultsAreSound(t)
  /\ Gated(t, p)
  /\ RunsAreSound(t, p, n)
  /\ \A c \in Contexts : SummaryIsSound(t, c)

Stages ==
  {"idle", "plan", "calibrate", "sweeping", "result", "complete", "verify",
   "slots", "final", "extract", "summary"}

CallType ==
  /\ profile \in [Contexts -> {"smoke", "standard"}]
  /\ run_count \in Nat
  /\ stage \in Stages
  /\ call \in [context : Contexts \cup {Absent}, prior : Result \cup {NoPrior},
               slot : Slots \cup {0}]
  /\ calibration \in Result \cup {Absent}
  /\ finalized \in Accepted
  /\ included \subseteq Slots

Sweeping  == {"sweeping", "result", "complete"}
Verified  == {"slots", "final", "extract", "summary"}

(* What a call has established by the time it is at a stage. *)
CallSound ==
  LET c == call.context
  IN  /\ stage # "idle" => c \in Contexts /\ call.slot \in Slots /\ tree.summaries[c] = Absent
      /\ stage \in Sweeping => c \in tree.started /\ tree.completed[c] = Absent
      /\ stage \in {"sweeping", "result"} => \A x \in tree.results : x.context # c
      /\ stage = "complete" => calibration \in tree.results /\ calibration.context = c
      /\ stage \in Verified \cup {"verify"} =>
           calibration \in Result /\ tree.completed[c] = calibration
      /\ stage \in Verified /\ profile[c] = "standard" => calibration.status = "supported"
      /\ \A s \in Slots : finalized[s] # NoRun =>
           \E r \in tree.runs : r.id = finalized[s] /\ r.slot = s
      /\ stage \in {"extract", "summary"} => tree.finals[c] = finalized
      /\ stage = "summary" => included \subseteq Eligible(c)

MInv ==
  /\ CallType
  /\ TreeSound(tree, profile, run_count)
  /\ archive # Absent => TreeSound(archive.tree, profile, run_count)
  /\ CallSound

-----------------------------------------------------------------------------
(* Trees that a step leaves behind *)

LEMMA EmptyTreeIsSound ==
  ASSUME NEW p, NEW n
  PROVE  TreeSound(EmptyTree, p, n)
  <1>1. EmptyTree \in TreeType
    BY DEF EmptyTree, TreeType
  <1>2. IsFiniteSet({})
    BY FS_EmptySet
  <1>3. QED
    BY <1>1, <1>2 DEF EmptyTree, TreeSound, ResultsAreSound, Gated, RunsAreSound, SummaryIsSound

(* A marker or a plan is written. *)
LEMMA PlanKeepsTree ==
  ASSUME NEW t, NEW p, NEW n, TreeSound(t, p, n), NEW c \in Contexts,
         NEW plan \in {"smoke", "standard", Torn}
  PROVE  TreeSound([t EXCEPT !.plans[c] = plan], p, n)
  <1> DEFINE u == [t EXCEPT !.plans[c] = plan]
  <1>1. t \in TreeType
    BY DEF TreeSound
  <1>2. /\ u \in TreeType
        /\ u.started = t.started /\ u.results = t.results /\ u.completed = t.completed
        /\ u.runs = t.runs /\ u.finals = t.finals /\ u.summaries = t.summaries
    BY <1>1 DEF TreeType
  <1>3. QED
    BY <1>2 DEF TreeSound, ResultsAreSound, Gated, RunsAreSound, SummaryIsSound

LEMMA StartKeepsTree ==
  ASSUME NEW t, NEW p, NEW n, TreeSound(t, p, n), NEW c \in Contexts
  PROVE  TreeSound([t EXCEPT !.started = @ \cup {c}], p, n)
  <1> DEFINE u == [t EXCEPT !.started = @ \cup {c}]
  <1>1. t \in TreeType
    BY DEF TreeSound
  <1>2. /\ u \in TreeType
        /\ u.started = t.started \cup {c} /\ u.results = t.results /\ u.completed = t.completed
        /\ u.runs = t.runs /\ u.finals = t.finals /\ u.summaries = t.summaries
    BY <1>1 DEF TreeType
  <1>3. QED
    BY <1>2 DEF TreeSound, ResultsAreSound, Gated, RunsAreSound, SummaryIsSound

LEMMA TornManifestKeepsTree ==
  ASSUME NEW t, NEW p, NEW n, TreeSound(t, p, n)
  PROVE  TreeSound([t EXCEPT !.torn_manifest = TRUE], p, n)
  <1> DEFINE u == [t EXCEPT !.torn_manifest = TRUE]
  <1>1. t \in TreeType
    BY DEF TreeSound
  <1>2. /\ u \in TreeType
        /\ u.started = t.started /\ u.results = t.results /\ u.completed = t.completed
        /\ u.runs = t.runs /\ u.finals = t.finals /\ u.summaries = t.summaries
    BY <1>1 DEF TreeType
  <1>3. QED
    BY <1>2 DEF TreeSound, ResultsAreSound, Gated, RunsAreSound, SummaryIsSound

(* The one result of a session that has a started marker. *)
LEMMA ResultKeepsTree ==
  ASSUME NEW t, NEW p, NEW n, TreeSound(t, p, n), NEW x \in Result, x.context \in t.started,
         \A y \in t.results : y.context # x.context
  PROVE  TreeSound([t EXCEPT !.results = @ \cup {x}], p, n)
  <1> DEFINE u == [t EXCEPT !.results = @ \cup {x}]
  <1>1. t \in TreeType
    BY DEF TreeSound
  <1>2. /\ u \in TreeType
        /\ u.started = t.started /\ u.results = t.results \cup {x}
        /\ u.completed = t.completed
        /\ u.runs = t.runs /\ u.finals = t.finals /\ u.summaries = t.summaries
    BY <1>1 DEF TreeType
  <1>3. ResultsAreSound(u)
    <2>1. IsFiniteSet(u.results)
      BY <1>2, FS_AddElement DEF TreeSound, ResultsAreSound
    <2>2. QED
      BY <1>2, <2>1 DEF TreeSound, ResultsAreSound
  <1>4. QED
    BY <1>2, <1>3 DEF TreeSound, Gated, RunsAreSound, SummaryIsSound

(* A marker of completion, or a torn one, where there was none. *)
LEMMA CompletedKeepsTree ==
  ASSUME NEW t, NEW p, NEW n, TreeSound(t, p, n), NEW c \in Contexts,
         t.completed[c] = Absent, t.summaries[c] = Absent,
         NEW x \in Result \cup {Torn},
         x # Torn => x \in t.results /\ x.context = c
  PROVE  TreeSound([t EXCEPT !.completed[c] = x], p, n)
  <1> DEFINE u == [t EXCEPT !.completed[c] = x]
  <1>1. t \in TreeType
    BY DEF TreeSound
  <1>2. /\ u \in TreeType
        /\ u.started = t.started /\ u.results = t.results
        /\ u.completed = [t.completed EXCEPT ![c] = x]
        /\ u.runs = t.runs /\ u.finals = t.finals /\ u.summaries = t.summaries
    BY <1>1 DEF TreeType
  <1>3. /\ u.completed[c] = x
        /\ \A d \in Contexts : d # c => u.completed[d] = t.completed[d]
    BY <1>1, <1>2 DEF TreeType
  <1>4. ResultsAreSound(u)
    BY <1>2, <1>3 DEF TreeSound, ResultsAreSound
  <1>5. Gated(u, p)
    BY <1>1, <1>2, <1>3 DEF TreeSound, Gated, TreeType, Run
  <1>6. \A d \in Contexts : SummaryIsSound(u, d)
    BY <1>2, <1>3 DEF TreeSound, SummaryIsSound
  <1>7. QED
    BY <1>2, <1>4, <1>5, <1>6 DEF TreeSound, RunsAreSound

LEMMA FinalKeepsTree ==
  ASSUME NEW t, NEW p, NEW n, TreeSound(t, p, n), NEW c \in Contexts, t.summaries[c] = Absent,
         NEW f \in Accepted \cup {Torn}
  PROVE  TreeSound([t EXCEPT !.finals[c] = f], p, n)
  <1> DEFINE u == [t EXCEPT !.finals[c] = f]
  <1>1. t \in TreeType
    BY DEF TreeSound
  <1>2. /\ u \in TreeType
        /\ u.started = t.started /\ u.results = t.results /\ u.completed = t.completed
        /\ u.finals = [t.finals EXCEPT ![c] = f]
        /\ u.runs = t.runs /\ u.summaries = t.summaries
    BY <1>1 DEF TreeType
  <1>3. \A d \in Contexts : d # c => u.finals[d] = t.finals[d]
    BY <1>1, <1>2 DEF TreeType
  <1>4. \A d \in Contexts : SummaryIsSound(u, d)
    BY <1>2, <1>3 DEF TreeSound, SummaryIsSound
  <1>5. QED
    BY <1>2, <1>4 DEF TreeSound, ResultsAreSound, Gated, RunsAreSound

LEMMA SummaryKeepsTree ==
  ASSUME NEW t, NEW p, NEW n, TreeSound(t, p, n), NEW c \in Contexts,
         NEW x \in Summary \cup {Torn},
         SummaryIsSound([t EXCEPT !.summaries[c] = x], c)
  PROVE  TreeSound([t EXCEPT !.summaries[c] = x], p, n)
  <1> DEFINE u == [t EXCEPT !.summaries[c] = x]
  <1>1. t \in TreeType
    BY DEF TreeSound
  <1>2. /\ u \in TreeType
        /\ u.started = t.started /\ u.results = t.results /\ u.completed = t.completed
        /\ u.summaries = [t.summaries EXCEPT ![c] = x]
        /\ u.runs = t.runs /\ u.finals = t.finals
    BY <1>1 DEF TreeType
  <1>3. \A d \in Contexts : d # c => u.summaries[d] = t.summaries[d]
    BY <1>1, <1>2 DEF TreeType
  <1>4. \A d \in Contexts : SummaryIsSound(u, d)
    BY <1>2, <1>3 DEF TreeSound, SummaryIsSound
  <1>5. QED
    BY <1>2, <1>4 DEF TreeSound, ResultsAreSound, Gated, RunsAreSound

(* A run with a fresh id, made once the gate is passed and no full run of  *)
(* its slot and profile is there.                                          *)
LEMMA RunKeepsTree ==
  ASSUME NEW t, NEW p, NEW n \in Nat, TreeSound(t, p, n), NEW x \in Run,
         x.id = n + 1,
         p[x.context] = "standard" =>
           /\ t.completed[x.context] \notin {Absent, Torn}
           /\ t.completed[x.context].status = "supported",
         \A r \in t.runs :
           ~(p[r.context] = p[x.context] /\ r.slot = x.slot /\ r.quality = "full")
  PROVE  TreeSound([t EXCEPT !.runs = @ \cup {x}], p, n + 1)
  <1> DEFINE u == [t EXCEPT !.runs = @ \cup {x}]
  <1>1. t \in TreeType
    BY DEF TreeSound
  <1>2. /\ u \in TreeType
        /\ u.started = t.started /\ u.results = t.results /\ u.completed = t.completed
        /\ u.runs = t.runs \cup {x} /\ u.finals = t.finals /\ u.summaries = t.summaries
    BY <1>1 DEF TreeType
  <1>3. \A r \in t.runs : r.id \in Nat /\ r.id <= n
    BY <1>1 DEF TreeType, Run, TreeSound, RunsAreSound
  <1>4. IsFiniteSet(u.runs)
    BY <1>2, FS_AddElement DEF TreeSound, RunsAreSound
  <1>5. /\ \A r \in u.runs : r.id <= n + 1
        /\ \A r, q \in u.runs : r.id = q.id => r = q
    BY <1>2, <1>3 DEF TreeSound, RunsAreSound
  <1>6. \A r, q \in u.runs :
          /\ p[r.context] = p[q.context] /\ r.slot = q.slot
          /\ r.quality = "full" /\ q.quality = "full"
          => r = q
    BY <1>2 DEF TreeSound, RunsAreSound
  <1>7. \A c \in Contexts : SummaryIsSound(u, c)
    BY <1>2 DEF TreeSound, SummaryIsSound
  <1>8. ResultsAreSound(u) /\ Gated(u, p)
    BY <1>2 DEF TreeSound, ResultsAreSound, Gated
  <1>9. QED
    BY <1>2, <1>4, <1>5, <1>6, <1>7, <1>8 DEF TreeSound, RunsAreSound

(* More runs do not disturb another tree, such as the archive's. *)
LEMMA TreeStays ==
  ASSUME NEW t, NEW p, NEW n \in Nat, TreeSound(t, p, n)
  PROVE  TreeSound(t, p, n + 1)
  <1>1. \A r \in t.runs : r.id \in Nat /\ r.id <= n
    BY DEF TreeSound, TreeType, Run, RunsAreSound
  <1>2. \A r \in t.runs : r.id <= n + 1
    BY <1>1
  <1>3. QED
    BY <1>2 DEF TreeSound, RunsAreSound

-----------------------------------------------------------------------------
(* Steps that end a call *)

LEMMA EndKeepsInv ==
  ASSUME MInv, Idling, UNCHANGED <<profile, archive, run_count>>,
         TreeSound(tree', profile, run_count)
  PROVE  MInv'
  <1>1. CallType'
    BY ValuesAssumption DEF MInv, CallType, Idling, NoCall, Accepted, Stages
  <1>2. CallSound'
    BY DEF Idling, CallSound, Sweeping, Verified
  <1>3. TreeSound(tree, profile, run_count)'
    OBVIOUS
  <1>4. (archive # Absent => TreeSound(archive.tree, profile, run_count))'
    BY DEF MInv
  <1>5. QED
    BY <1>1, <1>2, <1>3, <1>4 DEF MInv

LEMMA RefuseKeepsInv ==
  ASSUME MInv, NEW reason, Refuse(reason), UNCHANGED <<profile, archive, run_count>>
  PROVE  MInv'
  BY EndKeepsInv DEF Refuse, Ends, MInv

LEMMA CutKeepsInv ==
  ASSUME MInv, Cut, UNCHANGED <<profile, archive, run_count>>
  PROVE  MInv'
  BY EndKeepsInv DEF Cut, CutOff, Ends, MInv

LEMMA CutTornKeepsInv ==
  ASSUME MInv, NEW torn, CutTorn(torn), UNCHANGED <<profile, archive, run_count>>,
         TreeSound(torn, profile, run_count)
  PROVE  MInv'
  BY EndKeepsInv DEF CutTorn, CutOff, Ends, MInv

-----------------------------------------------------------------------------
(* The steps of a call *)

LEMMA StepRunMatrix ==
  ASSUME MInv, NEW c \in Contexts, NEW prior \in {NoPrior} \cup tree.results,
         RunMatrix(c, prior)
  PROVE  MInv'
  <1>0. /\ UNCHANGED <<profile, archive, run_count, tree>>
        /\ UNCHANGED work
        /\ stage = "idle"
    BY DEF RunMatrix
  <1>1. CASE UNCHANGED <<call, stage>>
    BY <1>0, <1>1 DEF MInv, CallType, CallSound, Sweeping, Verified, work
  <1>2. CASE /\ call' = [context |-> c, prior |-> prior, slot |-> 1]
             /\ stage' = "plan"
             /\ tree.summaries[c] = Absent
    <2>1. prior \in Result \cup {NoPrior}
      BY DEF MInv, TreeSound, TreeType
    <2>2. CallType'
      BY <1>0, <1>2, <2>1, MatrixAssumption DEF MInv, CallType, work, Stages
    <2>3. CallSound'
      BY <1>0, <1>2, MatrixAssumption DEF MInv, CallSound, Sweeping, Verified, work
    <2>4. QED
      BY <1>0, <2>2, <2>3 DEF MInv
  <1>3. QED
    BY <1>1, <1>2 DEF RunMatrix

LEMMA StepPlan ==
  ASSUME MInv, Plan
  PROVE  MInv'
  <1> DEFINE c == call.context
  <1>0. /\ UNCHANGED <<profile, archive, run_count>>
        /\ stage = "plan"
        /\ c \in Contexts
        /\ profile[c] \in {"smoke", "standard"}
        /\ TreeSound(tree, profile, run_count)
    BY DEF Plan, MInv, CallSound, CallType
  <1>1. ASSUME NEW reason, Refuse(reason) PROVE MInv'
    BY <1>0, <1>1, RefuseKeepsInv
  <1>2. ASSUME Goes("calibrate"), UNCHANGED work,
               tree' = tree \/ tree' = [tree EXCEPT !.plans[c] = profile[c]]
        PROVE  MInv'
    <2>1. TreeSound(tree', profile, run_count)
      <3>1. TreeSound([tree EXCEPT !.plans[c] = profile[c]], profile, run_count)
        BY <1>0, PlanKeepsTree
      <3>2. QED
        BY <1>0, <1>2, <3>1
    <2>2. tree \in TreeType
      BY <1>0 DEF TreeSound
    <2>3. tree'.summaries = tree.summaries /\ tree'.runs = tree.runs
      BY <1>2, <2>2 DEF TreeType
    <2>4. CallType'
      BY <1>0, <1>2 DEF MInv, CallType, Goes, work, Stages
    <2>5. CallSound'
      BY <1>0, <1>2, <2>3 DEF MInv, CallSound, Goes, work, Sweeping, Verified
    <2>6. QED
      BY <1>0, <2>1, <2>4, <2>5 DEF MInv
  <1>3. CASE Cut
    BY <1>0, <1>3, CutKeepsInv
  <1>4. CASE CutTorn([tree EXCEPT !.plans[c] = Torn])
    BY <1>0, <1>4, CutTornKeepsInv, PlanKeepsTree
  <1>5. QED
    BY <1>1, <1>2, <1>3, <1>4 DEF Plan, Write, Goto

LEMMA StepReuseCalibration ==
  ASSUME MInv, ReuseCalibration
  PROVE  MInv'
  <1> DEFINE c == call.context
  <1>0. /\ UNCHANGED <<profile, archive, run_count>>
        /\ stage = "calibrate"
        /\ c \in Contexts
        /\ TreeSound(tree, profile, run_count)
        /\ tree.completed[c] # Absent
    BY DEF ReuseCalibration, MInv, CallSound
  <1>1. CASE Refuse("unreadable")
    BY <1>0, <1>1, RefuseKeepsInv
  <1>2. CASE /\ tree.completed[c] # Torn
             /\ Goto("verify")
             /\ calibration' = tree.completed[c]
             /\ UNCHANGED <<sweep, finalized, included>>
    <2>1. tree.completed[c] \in Result
      BY <1>0, <1>2 DEF TreeSound, TreeType
    <2>2. CallType'
      BY <1>0, <1>2, <2>1 DEF MInv, CallType, Goto, Goes, Stages
    <2>3. CallSound'
      BY <1>0, <1>2, <2>1 DEF MInv, CallSound, Goto, Goes, Sweeping, Verified
    <2>4. QED
      BY <1>0, <1>2, <2>2, <2>3 DEF MInv, Goto
  <1>3. QED
    BY <1>1, <1>2 DEF ReuseCalibration

LEMMA StepStartSweep ==
  ASSUME MInv, StartSweep
  PROVE  MInv'
  <1> DEFINE c == call.context
             started == [tree EXCEPT !.started = @ \cup {c}]
  <1>0. /\ UNCHANGED <<profile, archive, run_count>>
        /\ stage = "calibrate"
        /\ c \in Contexts
        /\ TreeSound(tree, profile, run_count)
        /\ tree.completed[c] = Absent
    BY DEF StartSweep, MInv, CallSound
  <1>1. TreeSound(started, profile, run_count)
    BY <1>0, StartKeepsTree
  <1>2. CASE Refuse("sweep evidence")
    BY <1>0, <1>2, RefuseKeepsInv
  <1>3. CASE ~SweepEvidence(c) /\ tree' = started /\ Goes("sweeping") /\ UNCHANGED work
    <2>1. tree \in TreeType
      BY <1>0 DEF TreeSound
    <2>2. /\ tree'.started = tree.started \cup {c} /\ tree'.results = tree.results
          /\ tree'.completed = tree.completed
          /\ tree'.summaries = tree.summaries /\ tree'.runs = tree.runs
      BY <1>3, <2>1 DEF TreeType
    <2>3. \A x \in tree.results : x.context # c
      BY <1>0, <1>3 DEF SweepEvidence, TreeSound, ResultsAreSound
    <2>4. CallType'
      BY <1>0, <1>3 DEF MInv, CallType, Goes, work, Stages
    <2>5. CallSound'
      BY <1>0, <1>3, <2>2, <2>3 DEF MInv, CallSound, Goes, work, Sweeping, Verified
    <2>6. QED
      BY <1>0, <1>1, <1>3, <2>4, <2>5 DEF MInv
  <1>4. CASE Cut
    BY <1>0, <1>4, CutKeepsInv
  <1>5. CASE CutTorn(started)
    BY <1>0, <1>1, <1>5, CutTornKeepsInv
  <1>6. QED
    BY <1>2, <1>3, <1>4, <1>5 DEF StartSweep, Write

LEMMA StepMeasureSweep ==
  ASSUME MInv, MeasureSweep
  PROVE  MInv'
  <1>1. /\ UNCHANGED <<profile, archive, run_count, tree, call, calibration, finalized, included>>
        /\ stage = "sweeping" /\ stage' = "result"
    BY DEF MeasureSweep, Goto, Goes
  <1>2. CallType'
    BY <1>1 DEF MInv, CallType, Stages
  <1>3. CallSound'
    BY <1>1 DEF MInv, CallSound, Sweeping, Verified
  <1>4. QED
    BY <1>1, <1>2, <1>3 DEF MInv

LEMMA StepSweepIsCutOff ==
  ASSUME MInv, SweepIsCutOff \/ SlotIsCutOff
  PROVE  MInv'
  <1>1. TreeSound([tree EXCEPT !.torn_manifest = TRUE], profile, run_count)
    BY TornManifestKeepsTree DEF MInv
  <1>2. QED
    BY <1>1, CutKeepsInv, CutTornKeepsInv DEF SweepIsCutOff, SlotIsCutOff

LEMMA StatusType == \A rows : Status(rows) \in Statuses
  BY DEF Status, Statuses

LEMMA StepWriteResult ==
  ASSUME MInv, WriteResult
  PROVE  MInv'
  <1> DEFINE c == call.context
             result == NewResult(c)
             whole == [tree EXCEPT !.results = @ \cup {result}]
  <1>0. /\ UNCHANGED <<profile, archive, run_count>>
        /\ stage = "result"
        /\ c \in Contexts
        /\ TreeSound(tree, profile, run_count)
        /\ c \in tree.started /\ tree.completed[c] = Absent
        /\ \A x \in tree.results : x.context # c
    BY DEF WriteResult, MInv, CallSound, Sweeping
  <1>1. result \in Result /\ result.context = c
    <2>1. Cardinality(tree.results) \in Nat
      BY <1>0, FS_CardinalityType DEF TreeSound, ResultsAreSound
    <2>2. SweepStatus(c) \in Statuses
      BY StatusType DEF SweepStatus, Statuses
    <2>3. QED
      BY <1>0, <2>1, <2>2 DEF NewResult, Result
  <1>2. TreeSound(whole, profile, run_count)
    BY <1>0, <1>1, ResultKeepsTree
  <1>3. CASE /\ tree' = whole /\ Goes("complete")
             /\ calibration' = result /\ UNCHANGED <<sweep, finalized, included>>
    <2>1. tree \in TreeType
      BY <1>0 DEF TreeSound
    <2>2. /\ tree'.started = tree.started /\ tree'.results = tree.results \cup {result}
          /\ tree'.completed = tree.completed
          /\ tree'.summaries = tree.summaries /\ tree'.runs = tree.runs
      BY <1>3, <2>1 DEF TreeType
    <2>3. CallType'
      BY <1>0, <1>1, <1>3 DEF MInv, CallType, Goes, Stages
    <2>4. CallSound'
      BY <1>0, <1>1, <1>3, <2>2 DEF MInv, CallSound, Goes, Sweeping, Verified
    <2>5. QED
      BY <1>0, <1>2, <1>3, <2>3, <2>4 DEF MInv
  <1>4. CASE Cut
    BY <1>0, <1>4, CutKeepsInv
  <1>5. CASE CutTorn(tree)
    BY <1>0, <1>5, CutTornKeepsInv
  <1>6. QED
    BY <1>3, <1>4, <1>5 DEF WriteResult, Write

LEMMA StepCompleteSweep ==
  ASSUME MInv, CompleteSweep
  PROVE  MInv'
  <1> DEFINE c == call.context
             With(x) == [tree EXCEPT !.completed[c] = x]
  <1>0. /\ UNCHANGED <<profile, archive, run_count>>
        /\ stage = "complete"
        /\ c \in Contexts
        /\ TreeSound(tree, profile, run_count)
        /\ tree.completed[c] = Absent /\ tree.summaries[c] = Absent
        /\ calibration \in tree.results /\ calibration.context = c
    BY DEF CompleteSweep, MInv, CallSound, Sweeping
  <1>1. calibration \in Result
    BY <1>0 DEF TreeSound, TreeType
  <1>2. TreeSound(With(calibration), profile, run_count) /\ TreeSound(With(Torn), profile, run_count)
    BY <1>0, <1>1, CompletedKeepsTree
  <1>3. CASE Refuse("validation")
    BY <1>0, <1>3, RefuseKeepsInv
  <1>4. CASE /\ tree' = With(calibration) /\ Goes("verify")
             /\ UNCHANGED <<calibration, finalized, included>>
    <2>1. tree \in TreeType
      BY <1>0 DEF TreeSound
    <2>2. /\ tree'.completed = [tree.completed EXCEPT ![c] = calibration]
          /\ tree'.completed[c] = calibration
          /\ tree'.summaries = tree.summaries /\ tree'.runs = tree.runs
      BY <1>0, <1>4, <2>1 DEF TreeType
    <2>3. CallType'
      BY <1>0, <1>4 DEF MInv, CallType, Goes, Stages
    <2>4. CallSound'
      BY <1>0, <1>1, <1>4, <2>2 DEF MInv, CallSound, Goes, Sweeping, Verified
    <2>5. QED
      BY <1>0, <1>2, <1>4, <2>3, <2>4 DEF MInv
  <1>5. CASE Cut
    BY <1>0, <1>5, CutKeepsInv
  <1>6. CASE CutTorn(With(Torn))
    BY <1>0, <1>2, <1>6, CutTornKeepsInv
  <1>7. QED
    BY <1>3, <1>4, <1>5, <1>6 DEF CompleteSweep, Write

LEMMA StepVerify ==
  ASSUME MInv, Verify
  PROVE  MInv'
  <1>0. UNCHANGED <<profile, archive, run_count>> /\ stage = "verify"
    BY DEF Verify
  <1>1. ASSUME NEW reason, Refuse(reason) PROVE MInv'
    BY <1>0, <1>1, RefuseKeepsInv
  <1>2. CASE PassesGate(call.context, calibration) /\ Goto("slots") /\ UNCHANGED work
    <2>1. profile[call.context] \in {"smoke", "standard"}
      BY <1>0 DEF MInv, CallType, CallSound
    <2>2. CallType'
      BY <1>0, <1>2 DEF MInv, CallType, Goto, Goes, work, Stages
    <2>3. CallSound'
      BY <1>0, <1>2, <2>1 DEF MInv, CallSound, Goto, Goes, work, PassesGate, Sweeping, Verified
    <2>4. QED
      BY <1>0, <1>2, <2>2, <2>3 DEF MInv, Goto
  <1>3. QED
    BY <1>1, <1>2 DEF Verify

(* The loop over the slots goes on; what it found is kept. *)
LEMMA SlotKeepsCall ==
  ASSUME MInv, stage = "slots", NextSlot,
         UNCHANGED <<profile, calibration, included>>,
         run_count' \in Nat, tree' \in TreeType,
         tree.runs \subseteq tree'.runs,
         tree'.completed = tree.completed, tree'.summaries = tree.summaries,
         NEW id \in Nat \cup {NoRun},
         finalized' = [finalized EXCEPT ![call.slot] = id],
         id # NoRun => \E r \in tree'.runs : r.id = id /\ r.slot = call.slot
  PROVE  CallType' /\ CallSound'
  <1>1. call.context \in Contexts /\ call.slot \in Slots
    BY DEF MInv, CallSound
  <1>2. CallType'
    <2>1. stage' \in Stages
      BY DEF NextSlot, Stages
    <2>2. call' \in [context : Contexts \cup {Absent}, prior : Result \cup {NoPrior},
                     slot : Slots \cup {0}]
      BY DEF NextSlot, MInv, CallType
    <2>3. finalized' \in Accepted
      BY <1>1 DEF MInv, CallType, Accepted
    <2>4. QED
      BY <2>1, <2>2, <2>3 DEF MInv, CallType
  <1>3. CallSound'
    <2>1. /\ call'.context = call.context
          /\ call'.slot \in Slots
          /\ stage' \in {"slots", "final"}
      BY <1>1 DEF NextSlot, MInv, CallType
    <2>2. \A s \in Slots : finalized'[s] # NoRun =>
            \E r \in tree'.runs : r.id = finalized'[s] /\ r.slot = s
      BY <1>1 DEF MInv, CallType, CallSound, Accepted
    <2>3. QED
      BY <2>1, <2>2 DEF MInv, CallSound, Sweeping, Verified
  <1>4. QED
    BY <1>2, <1>3

LEMMA StepSkipSlot ==
  ASSUME MInv, SkipSlot
  PROVE  MInv'
  <1> DEFINE matches == AcceptedMatches(call.context, call.slot)
  <1>0. /\ UNCHANGED <<profile, archive, run_count>>
        /\ stage = "slots"
        /\ TreeSound(tree, profile, run_count) /\ tree \in TreeType
    BY DEF SkipSlot, MInv, TreeSound
  <1>1. ASSUME NEW reason, Refuse(reason) PROVE MInv'
    BY <1>0, <1>1, RefuseKeepsInv
  <1>2. ASSUME NextSlot,
               UNCHANGED <<tree, sweep, calibration, included>>,
               NEW r \in matches, finalized' = [finalized EXCEPT ![call.slot] = r.id]
        PROVE  MInv'
    <2>1. r \in tree.runs /\ r.slot = call.slot /\ r.id \in Nat
      BY <1>0, <1>2 DEF AcceptedMatches, Attempts, TreeType, Run
    <2>2. run_count \in Nat
      BY DEF MInv, CallType
    <2>3. CallType' /\ CallSound'
      BY <1>0, <1>2, <2>1, <2>2, SlotKeepsCall
    <2>4. QED
      BY <1>0, <1>2, <2>3 DEF MInv
  <1>3. QED
    BY <1>1, <1>2 DEF SkipSlot

LEMMA StepFillSlot ==
  ASSUME MInv, FillSlot
  PROVE  MInv'
  <1> DEFINE c == call.context
  <1>0. /\ UNCHANGED <<profile, archive, sweep, calibration, included>>
        /\ stage = "slots" /\ NextSlot
        /\ TreeSound(tree, profile, run_count) /\ tree \in TreeType
        /\ c \in Contexts /\ call.slot \in Slots
        /\ run_count \in Nat /\ run_count' = run_count + 1
    BY DEF FillSlot, MInv, TreeSound, CallSound, CallType
  <1>1. PICK quality \in Quality :
          LET run == [id |-> run_count + 1, context |-> c, slot |-> call.slot,
                      quality |-> quality]
          IN  /\ tree' = [tree EXCEPT !.runs = @ \cup {run}]
              /\ finalized' = [finalized EXCEPT ![call.slot] = AcceptedRunId(run)]
    BY DEF FillSlot
  <1> DEFINE run == [id |-> run_count + 1, context |-> c, slot |-> call.slot,
                     quality |-> quality]
  <1>2. run \in Run /\ run.id = run_count + 1 /\ run.context = c /\ run.slot = call.slot
    BY <1>0 DEF Run
  <1>3. profile[c] = "standard" =>
          tree.completed[c] \notin {Absent, Torn} /\ tree.completed[c].status = "supported"
    BY <1>0, ValuesAssumption DEF MInv, CallSound, Verified
  <1>4. \A r \in tree.runs :
          ~(profile[r.context] = profile[c] /\ r.slot = call.slot /\ r.quality = "full")
    BY <1>0 DEF FillSlot, AcceptedMatches, Attempts, SameProfile, TreeType, Run
  <1>5. TreeSound([tree EXCEPT !.runs = @ \cup {run}], profile, run_count + 1)
    BY <1>0, <1>2, <1>3, <1>4, RunKeepsTree
  <1>6. TreeSound(tree', profile, run_count')
    BY <1>0, <1>1, <1>5
  <1>7. archive # Absent => TreeSound(archive.tree, profile, run_count')
    BY <1>0, TreeStays DEF MInv
  <1>8. CallType' /\ CallSound'
    <2>1. /\ tree' \in TreeType
          /\ tree'.runs = tree.runs \cup {run}
          /\ tree'.completed = tree.completed /\ tree'.summaries = tree.summaries
      BY <1>0, <1>1, <1>6 DEF TreeSound, TreeType
    <2> DEFINE id == AcceptedRunId(run)
    <2>2. id \in Nat \cup {NoRun} /\ (id # NoRun => id = run.id)
      BY <1>0 DEF AcceptedRunId
    <2>3. finalized' = [finalized EXCEPT ![call.slot] = id]
      BY <1>1
    <2>4. id # NoRun => \E r \in tree'.runs : r.id = id /\ r.slot = call.slot
      BY <1>2, <2>1, <2>2
    <2>5. run_count' \in Nat /\ tree.runs \subseteq tree'.runs
      BY <1>0, <2>1
    <2> HIDE DEF id
    <2>6. QED
      BY <1>0, <2>1, <2>2, <2>3, <2>4, <2>5, SlotKeepsCall
  <1>9. QED
    BY <1>0, <1>6, <1>7, <1>8 DEF MInv

LEMMA StepWriteFinal ==
  ASSUME MInv, WriteFinal
  PROVE  MInv'
  <1> DEFINE c == call.context
             With(f) == [tree EXCEPT !.finals[c] = f]
  <1>0. /\ UNCHANGED <<profile, archive, run_count>>
        /\ stage = "final"
        /\ c \in Contexts
        /\ TreeSound(tree, profile, run_count)
        /\ tree.summaries[c] = Absent
        /\ finalized \in Accepted
    BY DEF WriteFinal, MInv, CallSound, CallType
  <1>1. TreeSound(With(finalized), profile, run_count) /\ TreeSound(With(Torn), profile, run_count)
    BY <1>0, FinalKeepsTree
  <1>2. ASSUME NEW reason, Refuse(reason) PROVE MInv'
    BY <1>0, <1>2, RefuseKeepsInv
  <1>3. CASE tree' = With(finalized) /\ Goes("extract") /\ UNCHANGED work
    <2>1. tree \in TreeType
      BY <1>0 DEF TreeSound
    <2>2. /\ tree'.finals[c] = finalized
          /\ tree'.completed = tree.completed
          /\ tree'.summaries = tree.summaries /\ tree'.runs = tree.runs
      BY <1>0, <1>3, <2>1 DEF TreeType
    <2>3. CallType'
      BY <1>0, <1>3 DEF MInv, CallType, Goes, work, Stages
    <2>4. CallSound'
      BY <1>0, <1>3, <2>2 DEF MInv, CallSound, Goes, work, Sweeping, Verified
    <2>5. QED
      BY <1>0, <1>1, <1>3, <2>3, <2>4 DEF MInv
  <1>4. CASE Cut
    BY <1>0, <1>4, CutKeepsInv
  <1>5. CASE CutTorn(With(Torn))
    BY <1>0, <1>1, <1>5, CutTornKeepsInv
  <1>6. QED
    BY <1>2, <1>3, <1>4, <1>5 DEF WriteFinal, Write

LEMMA StepExtract ==
  ASSUME MInv, Extract
  PROVE  MInv'
  <1>0. UNCHANGED <<profile, archive, run_count>> /\ stage = "extract"
    BY DEF Extract
  <1>1. CASE /\ Goto("summary")
             /\ \E slots \in SUBSET Eligible(call.context) : included' = slots
             /\ UNCHANGED <<sweep, calibration, finalized>>
    <2>1. included' \subseteq Eligible(call.context) /\ Eligible(call.context) \subseteq Slots
      BY <1>1 DEF Eligible
    <2>2. CallType'
      BY <1>0, <1>1, <2>1 DEF MInv, CallType, Goto, Goes, Stages
    <2>3. Eligible(call.context)' = Eligible(call.context)
      BY <1>1 DEF Eligible, Goto, Goes
    <2>4. included' \subseteq Eligible(call.context)'
      BY <2>1, <2>3
    <2>5. CallSound'
      BY <1>0, <1>1, <2>4 DEF MInv, CallSound, Goto, Goes, Sweeping, Verified
    <2>6. QED
      BY <1>0, <1>1, <2>2, <2>5 DEF MInv, Goto
  <1>2. CASE Cut
    BY <1>0, <1>2, CutKeepsInv
  <1>3. QED
    BY <1>1, <1>2 DEF Extract

(* A summary counts slots whose run is the session's own. *)
LEMMA StepWriteSummary ==
  ASSUME MInv, WriteSummary
  PROVE  MInv'
  <1> DEFINE c == call.context
             summary == [included |-> included, gate |-> CoverageGate(included),
                         calibration |-> calibration]
             With(x) == [tree EXCEPT !.summaries[c] = x]
  <1>0. /\ UNCHANGED <<profile, archive, run_count>>
        /\ stage = "summary"
        /\ c \in Contexts
        /\ TreeSound(tree, profile, run_count) /\ tree \in TreeType
        /\ calibration \in Result /\ tree.completed[c] = calibration
        /\ tree.finals[c] = finalized /\ finalized \in Accepted
        /\ included \subseteq Slots /\ included \subseteq Eligible(c)
    BY DEF WriteSummary, MInv, CallSound, CallType, TreeSound, Verified
  <1>1. summary \in Summary
    BY <1>0 DEF Summary, CoverageGate
  <1>2. \A x \in {summary, Torn} :
          /\ With(x).summaries[c] = x
          /\ With(x).runs = tree.runs
          /\ With(x).finals = tree.finals
          /\ With(x).completed = tree.completed
    BY <1>0 DEF TreeType
  <1>3. \A s \in included :
          \E r \in tree.runs :
            /\ r.context = c /\ r.slot = s /\ r.quality = "full"
            /\ tree.finals[c] \notin {Absent, Torn} /\ tree.finals[c][s] = r.id
    <2> TAKE s \in included
    <2>1. PICK r \in tree.runs : r.id = finalized[s] /\ r.quality = "full" /\ r.context = c
      BY <1>0 DEF Eligible
    <2>2. r.id \in Nat /\ s \in Slots
      BY <1>0 DEF TreeType, Run
    <2>3. PICK q \in tree.runs : q.id = finalized[s] /\ q.slot = s
      BY <2>1, <2>2, ValuesAssumption DEF MInv, CallSound
    <2>4. q = r
      BY <1>0, <2>1, <2>3 DEF TreeSound, RunsAreSound
    <2>5. QED
      BY <1>0, <2>1, <2>3, <2>4, ValuesAssumption
  <1>4. SummaryIsSound(With(summary), c)
    <2>1. /\ summary.calibration = calibration /\ summary.included = included
          /\ summary.gate = CoverageGate(included)
      OBVIOUS
    <2>2. With(summary).summaries[c] = summary
      BY <1>2
    <2>3. /\ With(summary).runs = tree.runs
          /\ With(summary).finals = tree.finals
          /\ With(summary).completed = tree.completed
      BY <1>2
    <2>4. QED
      BY <1>0, <1>3, <2>1, <2>2, <2>3 DEF SummaryIsSound
  <1>5. SummaryIsSound(With(Torn), c)
    BY <1>2 DEF SummaryIsSound
  <1>6. TreeSound(With(summary), profile, run_count) /\ TreeSound(With(Torn), profile, run_count)
    BY <1>0, <1>1, <1>4, <1>5, SummaryKeepsTree
  <1>7. CASE tree' = With(summary) /\ Ends("returned")
    BY <1>0, <1>6, <1>7, EndKeepsInv DEF Ends
  <1>8. CASE Cut
    BY <1>0, <1>8, CutKeepsInv
  <1>9. CASE CutTorn(With(Torn))
    BY <1>0, <1>6, <1>9, CutTornKeepsInv
  <1>10. QED
    BY <1>7, <1>8, <1>9 DEF WriteSummary

LEMMA StepArchive ==
  ASSUME MInv, Export \/ HostLost
  PROVE  MInv'
  <1>1. CASE Export
    <2>1. archive'.tree = tree
      BY <1>1 DEF Export
    <2>2. UNCHANGED <<profile, tree, call, stage, calibration, finalized, included, run_count>>
      BY <1>1 DEF Export, work
    <2>3. CallType' /\ CallSound'
      BY <2>2 DEF MInv, CallType, CallSound, Sweeping, Verified, Eligible
    <2>4. QED
      BY <2>1, <2>2, <2>3 DEF MInv
  <1>2. CASE HostLost
    <2>1. /\ Idling /\ UNCHANGED <<profile, archive, run_count>>
          /\ tree' = IF archive = Absent THEN EmptyTree ELSE archive.tree
      BY <1>2 DEF HostLost
    <2>2. TreeSound(tree', profile, run_count)
      BY <2>1, EmptyTreeIsSound DEF MInv
    <2>3. QED
      BY <2>1, <2>2, EndKeepsInv
  <1>3. QED
    BY <1>1, <1>2

-----------------------------------------------------------------------------
(* The theorems *)

LEMMA MInvInit == Init => MInv
  <1> SUFFICES ASSUME Init PROVE MInv
    OBVIOUS
  <1>1. CallType
    BY ValuesAssumption DEF Init, CallType, NoCall, Accepted, Stages
  <1>2. CallSound
    BY DEF Init, CallSound, Sweeping, Verified
  <1>3. QED
    BY <1>1, <1>2, EmptyTreeIsSound DEF Init, MInv

LEMMA MInvStep == MInv /\ [Next]_vars => MInv'
  <1> SUFFICES ASSUME MInv, [Next]_vars PROVE MInv'
    OBVIOUS
  <1>1. CASE UNCHANGED vars
    BY <1>1 DEF vars, work, MInv, CallType, CallSound, Eligible
  <1>2. CASE Next
    BY <1>2, StepRunMatrix, StepPlan, StepReuseCalibration, StepStartSweep, StepMeasureSweep,
       StepSweepIsCutOff, StepWriteResult, StepCompleteSweep, StepVerify, StepSkipSlot,
       StepFillSlot, StepWriteFinal, StepExtract, StepWriteSummary, StepArchive DEF Next
  <1>3. QED
    BY <1>1, <1>2

LEMMA MInvAlways == Spec => []MInv
  <1>1. QED
    BY MInvInit, MInvStep, PTL DEF Spec

(* The variables of the matrix have their types, and a tree only holds     *)
(* what its writers write.                                                 *)
THEOREM MatrixTypeCorrect == Spec => []TypeOK
  <1>1. MInv => TypeOK
    BY DEF MInv, CallType, TreeSound, TreeType, TypeOK, Stages
  <1>2. QED
    BY <1>1, MInvAlways, PTL

(* However calls end and whatever is restored, a session is calibrated at  *)
(* most once, and a completed marker names its only result.                *)
THEOREM SweepsCorrect == Spec => []SweepsAreNotRepeated
  <1>1. MInv => SweepsAreNotRepeated
    BY DEF MInv, TreeSound, ResultsAreSound, SweepsAreNotRepeated
  <1>2. QED
    BY <1>1, MInvAlways, PTL

(* Every benign run of a standard session was made after its own           *)
(* calibration was found to be supported.                                  *)
THEOREM GateCorrect == Spec => []CollectionIsGated
  <1>1. MInv => CollectionIsGated
    BY DEF MInv, TreeSound, Gated, CollectionIsGated
  <1>2. QED
    BY <1>1, MInvAlways, PTL

(* No slot of a profile's plan is ever filled by two full runs.            *)
THEOREM SlotsCorrect == Spec => []WorkIsNotRepeated
  <1>1. MInv => WorkIsNotRepeated
    BY DEF MInv, TreeSound, RunsAreSound, WorkIsNotRepeated
  <1>2. QED
    BY <1>1, MInvAlways, PTL

(* A supported sweep has no row that is unusable, whatever the payloads,   *)
(* the repetitions and the signals.                                        *)
THEOREM CleanSweepCorrect == Spec => []SupportedSweepIsClean
  <1>1. SupportedSweepIsClean
    BY DEF SupportedSweepIsClean, Status, Reservations, HasSignal, Usable
  <1>2. QED
    BY <1>1, PTL

(* Distinct slots have distinct runs, so at least as many runs were made   *)
(* by the session as a summary counts.                                     *)
CountedSlots(t, c, f) == {s \in t.summaries[c].included : FamilyOf[s] = f}

FullRuns(t, c, f) ==
  {r \in t.runs : r.context = c /\ r.quality = "full" /\ FamilyOf[r.slot] = f}

LEMMA CountedRunsExist ==
  ASSUME NEW t, NEW p, NEW n, TreeSound(t, p, n), NEW c \in Contexts, NEW f,
         t.summaries[c] \notin {Absent, Torn}
  PROVE  Cardinality(CountedSlots(t, c, f)) <= Cardinality(FullRuns(t, c, f))
  <1> DEFINE S == CountedSlots(t, c, f)
             T == FullRuns(t, c, f)
             g == [s \in S |-> CHOOSE r \in T : r.slot = s]
  <1>1. \A s \in S : \E r \in T : r.slot = s
    BY DEF TreeSound, SummaryIsSound, CountedSlots, FullRuns
  <1>2. \A s \in S : g[s] \in T /\ g[s].slot = s
    BY <1>1
  <1>3. g \in Injection(S, T)
    <2>1. g \in [S -> T]
      BY <1>2
    <2>2. \A x, y \in S : g[x] = g[y] => x = y
      BY <1>2
    <2> HIDE DEF g
    <2>3. QED
      BY <2>1, <2>2 DEF Injection, IsInjective
  <1>4. IsFiniteSet(T)
    BY FS_Subset DEF TreeSound, RunsAreSound, FullRuns
  <1>5. QED
    BY <1>3, <1>4, FS_Injection

(* A coverage gate that passed rests on full runs of its own session, as   *)
(* many as it demands of every family.                                     *)
THEOREM EvidenceOfGateCorrect == Spec => []GateRestsOnOwnEvidence
  <1>1. MInv => GateRestsOnOwnEvidence
    <2> SUFFICES ASSUME MInv, NEW c \in Contexts, tree.summaries[c] \notin {Absent, Torn}
                 PROVE  LET summary == tree.summaries[c]
                        IN  /\ summary.calibration = tree.completed[c]
                            /\ \A s \in summary.included :
                                 \E r \in tree.runs :
                                   /\ r.context = c /\ r.slot = s /\ r.quality = "full"
                                   /\ tree.finals[c] \notin {Absent, Torn}
                                   /\ tree.finals[c][s] = r.id
                            /\ summary.gate => \A f \in RequiredFamilies :
                                 Cardinality({r \in tree.runs : /\ r.context = c
                                                                /\ r.quality = "full"
                                                                /\ FamilyOf[r.slot] = f})
                                   >= MinimumRuns
      BY DEF GateRestsOnOwnEvidence
    <2>1. TreeSound(tree, profile, run_count) /\ tree \in TreeType
      BY DEF MInv, TreeSound
    <2>2. SummaryIsSound(tree, c)
      BY <2>1 DEF TreeSound
    <2>3. ASSUME tree.summaries[c].gate, NEW f \in RequiredFamilies
          PROVE  Cardinality({r \in tree.runs : /\ r.context = c
                                                /\ r.quality = "full"
                                                /\ FamilyOf[r.slot] = f}) >= MinimumRuns
      <3> DEFINE S == CountedSlots(tree, c, f)
                 T == FullRuns(tree, c, f)
      <3>1. Cardinality(S) >= MinimumRuns
        BY <2>2, <2>3 DEF SummaryIsSound, CoverageGate, CountedSlots
      <3>2. Cardinality(S) <= Cardinality(T)
        BY <2>1, CountedRunsExist
      <3>3. Cardinality(S) \in Nat /\ Cardinality(T) \in Nat
        <4>1. IsFiniteSet(T)
          BY <2>1, FS_Subset DEF TreeSound, RunsAreSound, FullRuns
        <4>2. IsFiniteSet(S)
          <5>1. tree.summaries[c].included \subseteq Slots
            BY <2>1 DEF TreeType, Summary
          <5>2. QED
            BY <5>1, FS_Subset, MatrixAssumption DEF CountedSlots
        <4>3. QED
          BY <4>1, <4>2, FS_CardinalityType
      <3>4. Cardinality(T) >= MinimumRuns
        BY <3>1, <3>2, <3>3, MatrixAssumption
      <3>5. QED
        BY <3>4 DEF FullRuns
    <2>4. QED
      BY <2>2, <2>3 DEF SummaryIsSound
  <1>2. QED
    BY <1>1, MInvAlways, PTL

-----------------------------------------------------------------------------
(* Why resuming is refused *)

(* What is torn, or begun and not ended, was cut off by a call that is on  *)
(* record or belongs to one that is running: a sweeper, or one that has    *)
(* written its final manifest.                                             *)
TreeExplained(t, p, cuts, sweepers, finishers) ==
  /\ \A c \in Contexts : t.plans[c] \in {Absent, Torn, p[c]}
  /\ \A c \in Contexts :
       Torn \in {t.plans[c], t.completed[c], t.finals[c], t.summaries[c]} => <<c, "torn">> \in cuts
  /\ t.torn_manifest => \E c \in Contexts : <<c, "torn">> \in cuts
  /\ \A c \in t.started :
       c \notin sweepers /\ t.completed[c] = Absent =>
         <<c, "sweep">> \in cuts \/ <<c, "torn">> \in cuts
  /\ \A c \in Contexts :
       c \notin finishers /\ t.finals[c] \notin {Absent, Torn} /\ t.summaries[c] = Absent =>
         <<c, "after final">> \in cuts

Sweepers  == IF stage \in Sweeping THEN {call.context} ELSE {}
Finishers == IF stage \in {"extract", "summary"} THEN {call.context} ELSE {}

(* The cases of RefusalsHaveACause. *)
CauseOf(c, how, t, p, cuts) ==
  \/ how = "unreadable" /\ \E d \in Contexts : <<d, "torn">> \in cuts
  \/ /\ how = "sweep evidence"
     /\ \/ \E trace \in {"sweep", "torn"} : <<c, trace>> \in cuts
        \/ t.started \ {c} # {}
  \/ how = "final exists" /\ <<c, "after final">> \in cuts
  \/ how = "calibration" /\ p[c] = "standard" /\ t.completed[c].status # "supported"
  \/ how \in {"returned", "cut off", "prior reference"}

RInv ==
  /\ TreeExplained(tree, profile, interrupted, Sweepers, Finishers)
  /\ archive # Absent => TreeExplained(archive.tree, profile, archive.interrupted, {}, {})
  /\ stage \in {"result", "complete"} => sweep \in Sweeps
  /\ stage # "idle" => outcome = Absent
  /\ outcome # Absent => CauseOf(outcome.context, outcome.how, tree, profile, interrupted)

(* The sweeps a session measures are the ones it planned. *)
SweepsAsPlanned == \A rows \in Sweeps : RowsAsPlanned(rows)

LEMMA TracesCover ==
  /\ stage \in Sweeping => <<call.context, "sweep">> \in Traces(call.context)
  /\ stage \in {"extract", "summary"} => <<call.context, "after final">> \in Traces(call.context)
  BY DEF Traces, Sweeping

(* A call that ends with a cause, on an explained tree. *)
LEMMA EndIsExplained ==
  ASSUME RInv, Idling, UNCHANGED <<profile, archive>>,
         NEW how, outcome' = [context |-> call.context, how |-> how],
         TreeExplained(tree', profile, interrupted', {}, {}),
         CauseOf(call.context, how, tree', profile, interrupted')
  PROVE  RInv'
  <1>1. Sweepers' = {} /\ Finishers' = {}
    BY DEF Idling, Sweepers, Finishers, Sweeping
  <1>2. CauseOf(outcome'.context, outcome'.how, tree', profile', interrupted')
    BY Zenon
  <1>3. QED
    BY <1>1, <1>2 DEF RInv, Idling

LEMMA RefusalIsExplained ==
  ASSUME RInv, UNCHANGED <<profile, archive>>, NEW how, Refuse(how),
         stage \notin Sweeping, stage \notin {"extract", "summary"},
         CauseOf(call.context, how, tree, profile, interrupted)
  PROVE  RInv'
  <1>1. TreeExplained(tree, profile, interrupted, {}, {})
    BY DEF RInv, Sweepers, Finishers
  <1>2. QED
    BY <1>1, EndIsExplained DEF Refuse, Ends

(* More cuts, and those of the running call. *)
LEMMA CutsExplain ==
  ASSUME NEW t, NEW cuts, TreeExplained(t, profile, cuts, Sweepers, Finishers),
         NEW more, Traces(call.context) \subseteq more
  PROVE  TreeExplained(t, profile, cuts \cup more, {}, {})
  <1>1. \A c \in Sweepers : <<c, "sweep">> \in more
    BY TracesCover DEF Sweepers
  <1>2. \A c \in Finishers : <<c, "after final">> \in more
    BY TracesCover DEF Finishers
  <1>3. QED
    BY <1>1, <1>2 DEF TreeExplained

LEMMA CutIsExplained ==
  ASSUME RInv, UNCHANGED <<profile, archive>>, Cut
  PROVE  RInv'
  <1>1. TreeExplained(tree', profile, interrupted', {}, {})
    BY CutsExplain DEF RInv, Cut, CutOff
  <1>2. CauseOf(call.context, "cut off", tree', profile, interrupted')
    BY DEF CauseOf
  <1>3. QED
    BY <1>1, <1>2, EndIsExplained DEF Cut, CutOff, Ends

LEMMA CutTornIsExplained ==
  ASSUME RInv, UNCHANGED <<profile, archive>>, NEW torn, CutTorn(torn),
         TreeExplained(torn, profile, interrupted \cup {<<call.context, "torn">>},
                       Sweepers, Finishers)
  PROVE  RInv'
  <1> DEFINE more == Traces(call.context) \cup {<<call.context, "torn">>}
  <1>1. TreeExplained(torn, profile, (interrupted \cup {<<call.context, "torn">>}) \cup more,
                      {}, {})
    BY CutsExplain
  <1>2. tree' = torn /\ interrupted' = interrupted \cup more
    BY DEF CutTorn, CutOff
  <1>3. (interrupted \cup {<<call.context, "torn">>}) \cup more = interrupted \cup more
    OBVIOUS
  <1>4. TreeExplained(tree', profile, interrupted', {}, {})
    BY <1>1, <1>2, <1>3
  <1>5. CauseOf(call.context, "cut off", tree', profile, interrupted')
    BY DEF CauseOf
  <1>6. QED
    BY <1>4, <1>5, EndIsExplained DEF CutTorn, CutOff, Ends

(* A call that goes on. *)
LEMMA GoingOnIsExplained ==
  ASSUME RInv, UNCHANGED <<profile, archive, outcome, interrupted>>,
         stage # "idle",
         stage' \in {"result", "complete"} => sweep' \in Sweeps,
         TreeExplained(tree', profile, interrupted, Sweepers', Finishers')
  PROVE  RInv'
  BY DEF RInv

LEMMA ExplainRunMatrix ==
  ASSUME MInv, RInv, NEW c \in Contexts, NEW prior \in {NoPrior} \cup tree.results,
         RunMatrix(c, prior)
  PROVE  RInv'
  <1>0. /\ UNCHANGED <<profile, archive, tree, interrupted, work>>
        /\ stage = "idle"
    BY DEF RunMatrix
  <1>1. CASE /\ \E d \in SameProfile(c) : tree.summaries[d] = Torn
             /\ outcome' = [context |-> c, how |-> "unreadable"]
             /\ UNCHANGED <<call, stage>>
    <2>1. \E d \in Contexts : <<d, "torn">> \in interrupted
      BY <1>1 DEF SameProfile, RInv, TreeExplained
    <2>2. outcome'.how = "unreadable"
      BY <1>1
    <2>3. CauseOf(outcome'.context, outcome'.how, tree', profile', interrupted')
      BY <1>0, <2>1, <2>2 DEF CauseOf
    <2>4. QED
      BY <1>0, <1>1, <2>3 DEF RInv, Sweepers, Finishers, work, Sweeping
  <1>2. CASE outcome' = [context |-> c, how |-> "returned"] /\ UNCHANGED <<call, stage>>
    <2>1. outcome'.how = "returned"
      BY <1>2
    <2>2. CauseOf(outcome'.context, outcome'.how, tree', profile', interrupted')
      BY <2>1 DEF CauseOf
    <2>3. QED
      BY <1>0, <1>2, <2>2 DEF RInv, Sweepers, Finishers, work, Sweeping
  <1>3. CASE stage' = "plan" /\ outcome' = Absent
    BY <1>0, <1>3 DEF RInv, Sweepers, Finishers, work, Sweeping
  <1>4. QED
    BY <1>0, <1>1, <1>2, <1>3 DEF RunMatrix

(* A plan that is written whole explains itself. *)
LEMMA PlanIsExplained ==
  ASSUME NEW t, NEW u, NEW p, NEW cuts, NEW c \in Contexts, p[c] # Torn,
         TreeExplained(t, p, cuts, {}, {}),
         \A d \in Contexts : u.plans[d] = IF d = c THEN p[c] ELSE t.plans[d],
         u.started = t.started, u.completed = t.completed,
         u.torn_manifest = t.torn_manifest,
         u.finals = t.finals, u.summaries = t.summaries
  PROVE  TreeExplained(u, p, cuts, {}, {})
  <1>1. \A d \in Contexts : u.plans[d] \in {Absent, Torn, p[d]}
    BY DEF TreeExplained
  <1>2. ASSUME NEW d \in Contexts,
               Torn \in {u.plans[d], u.completed[d], u.finals[d], u.summaries[d]}
        PROVE  <<d, "torn">> \in cuts
    <2>1. Torn \in {t.plans[d], t.completed[d], t.finals[d], t.summaries[d]}
      BY <1>2
    <2>2. QED
      BY <2>1 DEF TreeExplained
  <1>3. QED
    BY <1>1, <1>2 DEF TreeExplained

LEMMA ExplainPlan ==
  ASSUME MInv, RInv, Plan
  PROVE  RInv'
  <1> DEFINE c == call.context
             With(x) == [tree EXCEPT !.plans[c] = x]
  <1>0. /\ UNCHANGED <<profile, archive, run_count>>
        /\ stage = "plan"
        /\ c \in Contexts
        /\ tree \in TreeType
        /\ TreeExplained(tree, profile, interrupted, {}, {})
        /\ Sweepers = {} /\ Finishers = {}
    BY DEF Plan, MInv, CallSound, TreeSound, RInv, Sweepers, Finishers, Sweeping
  <1>1. \A x \in {profile[c], Torn} :
          /\ With(x).plans = [tree.plans EXCEPT ![c] = x]
          /\ With(x).started = tree.started /\ With(x).completed = tree.completed
          /\ With(x).torn_manifest = tree.torn_manifest
          /\ With(x).finals = tree.finals /\ With(x).summaries = tree.summaries
    BY <1>0 DEF TreeType
  <1>2. \A x \in {profile[c], Torn}, d \in Contexts :
          With(x).plans[d] = IF d = c THEN x ELSE tree.plans[d]
    BY <1>0, <1>1 DEF TreeType
  <1>3. TreeExplained(With(Torn), profile, interrupted \cup {<<c, "torn">>}, Sweepers, Finishers)
    BY <1>0, <1>1, <1>2 DEF TreeExplained
  <1>4. CASE tree.plans[c] = Torn /\ Refuse("unreadable")
    <2>1. CauseOf(c, "unreadable", tree, profile, interrupted)
      BY <1>0, <1>4 DEF CauseOf, TreeExplained
    <2>2. QED
      BY <1>0, <1>4, <2>1, RefusalIsExplained DEF Sweeping
  <1>5. CASE tree.plans[c] = Absent /\ tree' = With(profile[c]) /\ Goes("calibrate")
    <2>1. profile[c] # Torn
      BY <1>0, ValuesAssumption DEF MInv, CallType
    <2>2. Sweepers' = {} /\ Finishers' = {}
      BY <1>5 DEF Goes, Sweepers, Finishers, Sweeping
    <2> DEFINE u == With(profile[c])
    <2>a. /\ \A d \in Contexts : u.plans[d] = IF d = c THEN profile[c] ELSE tree.plans[d]
          /\ u.started = tree.started /\ u.completed = tree.completed
          /\ u.torn_manifest = tree.torn_manifest
          /\ u.finals = tree.finals /\ u.summaries = tree.summaries
      BY <1>1, <1>2
    <2> HIDE DEF u, c
    <2>3. TreeExplained(u, profile, interrupted, {}, {})
      BY <1>0, <2>1, <2>a, PlanIsExplained
    <2> USE DEF u, c
    <2>4. QED
      BY <1>0, <1>5, <2>2, <2>3, GoingOnIsExplained DEF Goes
  <1>6. CASE Goto("calibrate")
    BY <1>0, <1>6, GoingOnIsExplained DEF Goto, Goes, Sweepers, Finishers, Sweeping
  <1>7. CASE Cut
    BY <1>0, <1>7, CutIsExplained
  <1>8. CASE CutTorn(With(Torn))
    BY <1>0, <1>3, <1>8, CutTornIsExplained
  <1>9. tree.plans[c] \notin {Absent, Torn} => PlanMatches(c)
    BY <1>0 DEF TreeExplained, PlanMatches
  <1>10. QED
    BY <1>4, <1>5, <1>6, <1>7, <1>8, <1>9 DEF Plan, Write

LEMMA ExplainReuseCalibration ==
  ASSUME MInv, RInv, ReuseCalibration
  PROVE  RInv'
  <1> DEFINE c == call.context
  <1>0. /\ UNCHANGED <<profile, archive, run_count>>
        /\ stage = "calibrate"
        /\ c \in Contexts
        /\ TreeExplained(tree, profile, interrupted, {}, {})
    BY DEF ReuseCalibration, MInv, CallSound, RInv, Sweepers, Finishers, Sweeping
  <1>1. CASE tree.completed[c] = Torn /\ Refuse("unreadable")
    <2>1. CauseOf(c, "unreadable", tree, profile, interrupted)
      BY <1>0, <1>1 DEF CauseOf, TreeExplained
    <2>2. QED
      BY <1>0, <1>1, <2>1, RefusalIsExplained DEF Sweeping
  <1>2. CASE Goto("verify")
    BY <1>0, <1>2, GoingOnIsExplained DEF Goto, Goes, Sweepers, Finishers, Sweeping
  <1>3. QED
    BY <1>1, <1>2 DEF ReuseCalibration

LEMMA ExplainStartSweep ==
  ASSUME MInv, RInv, StartSweep
  PROVE  RInv'
  <1> DEFINE c == call.context
             started == [tree EXCEPT !.started = @ \cup {c}]
  <1>0. /\ UNCHANGED <<profile, archive, run_count>>
        /\ stage = "calibrate"
        /\ c \in Contexts
        /\ tree \in TreeType
        /\ tree.completed[c] = Absent
        /\ TreeExplained(tree, profile, interrupted, {}, {})
        /\ Sweepers = {} /\ Finishers = {}
    BY DEF StartSweep, MInv, CallSound, TreeSound, RInv, Sweepers, Finishers, Sweeping
  <1>1. /\ started.plans = tree.plans
        /\ started.started = tree.started \cup {c} /\ started.completed = tree.completed
        /\ started.torn_manifest = tree.torn_manifest
        /\ started.finals = tree.finals /\ started.summaries = tree.summaries
    BY <1>0 DEF TreeType
  <1>2. CASE SweepEvidence(c) /\ Refuse("sweep evidence")
    <2>1. CauseOf(c, "sweep evidence", tree, profile, interrupted)
      BY <1>0, <1>2 DEF SweepEvidence, CauseOf, TreeExplained
    <2>2. QED
      BY <1>0, <1>2, <2>1, RefusalIsExplained DEF Sweeping
  <1>3. CASE tree' = started /\ Goes("sweeping")
    <2>1. Sweepers' = {c} /\ Finishers' = {}
      BY <1>3 DEF Goes, Sweepers, Finishers, Sweeping
    <2>2. TreeExplained(started, profile, interrupted, {c}, {})
      BY <1>0, <1>1 DEF TreeExplained
    <2>3. QED
      BY <1>0, <1>3, <2>1, <2>2, GoingOnIsExplained DEF Goes
  <1>4. CASE Cut
    BY <1>0, <1>4, CutIsExplained
  <1>5. CASE CutTorn(started)
    <2>1. TreeExplained(started, profile, interrupted \cup {<<c, "torn">>}, Sweepers, Finishers)
      BY <1>0, <1>1 DEF TreeExplained
    <2>2. QED
      BY <1>0, <1>5, <2>1, CutTornIsExplained
  <1>6. QED
    BY <1>2, <1>3, <1>4, <1>5 DEF StartSweep, Write

LEMMA ExplainMeasureSweep ==
  ASSUME MInv, RInv, MeasureSweep
  PROVE  RInv'
  <1>1. /\ UNCHANGED <<profile, archive, outcome, interrupted, tree, call>>
        /\ stage = "sweeping" /\ stage' = "result" /\ sweep' \in Sweeps
    BY DEF MeasureSweep, Goto, Goes
  <1>2. Sweepers' = Sweepers /\ Finishers' = Finishers
    BY <1>1 DEF Sweepers, Finishers, Sweeping
  <1>3. QED
    BY <1>1, <1>2 DEF RInv

LEMMA ExplainCutOff ==
  ASSUME MInv, RInv, SweepIsCutOff \/ SlotIsCutOff
  PROVE  RInv'
  <1> DEFINE torn == [tree EXCEPT !.torn_manifest = TRUE]
             c == call.context
  <1>0. /\ UNCHANGED <<profile, archive>> /\ c \in Contexts /\ tree \in TreeType
    BY DEF SweepIsCutOff, SlotIsCutOff, MInv, CallSound, TreeSound
  <1>1. /\ torn.plans = tree.plans
        /\ torn.started = tree.started /\ torn.completed = tree.completed
        /\ torn.finals = tree.finals /\ torn.summaries = tree.summaries
    BY <1>0 DEF TreeType
  <1>2. TreeExplained(torn, profile, interrupted \cup {<<c, "torn">>}, Sweepers, Finishers)
    BY <1>0, <1>1 DEF RInv, TreeExplained
  <1>3. QED
    BY <1>0, <1>2, CutIsExplained, CutTornIsExplained DEF SweepIsCutOff, SlotIsCutOff

LEMMA ExplainWriteResult ==
  ASSUME MInv, RInv, WriteResult
  PROVE  RInv'
  <1> DEFINE c == call.context
             result == NewResult(c)
             whole == [tree EXCEPT !.results = @ \cup {result}]
  <1>0. /\ UNCHANGED <<profile, archive, run_count>>
        /\ stage = "result"
        /\ tree \in TreeType /\ sweep \in Sweeps
        /\ TreeExplained(tree, profile, interrupted, {c}, {})
        /\ Sweepers = {c} /\ Finishers = {}
    BY DEF WriteResult, MInv, TreeSound, RInv, Sweepers, Finishers, Sweeping
  <1>1. CASE tree' = whole /\ Goes("complete") /\ UNCHANGED sweep
    <2>1. /\ whole.plans = tree.plans /\ whole.torn_manifest = tree.torn_manifest
          /\ whole.started = tree.started /\ whole.completed = tree.completed
          /\ whole.finals = tree.finals /\ whole.summaries = tree.summaries
      BY <1>0 DEF TreeType
    <2>2. TreeExplained(whole, profile, interrupted, {c}, {})
      BY <1>0, <2>1 DEF TreeExplained
    <2>3. Sweepers' = {c} /\ Finishers' = {}
      BY <1>1 DEF Goes, Sweepers, Finishers, Sweeping
    <2>4. QED
      BY <1>0, <1>1, <2>2, <2>3, GoingOnIsExplained DEF Goes
  <1>2. CASE Cut
    BY <1>0, <1>2, CutIsExplained
  <1>3. CASE CutTorn(tree)
    <2>1. TreeExplained(tree, profile, interrupted \cup {<<c, "torn">>}, Sweepers, Finishers)
      BY <1>0 DEF TreeExplained
    <2>2. QED
      BY <1>0, <1>3, <2>1, CutTornIsExplained
  <1>4. QED
    BY <1>1, <1>2, <1>3 DEF WriteResult, Write

LEMMA ExplainCompleteSweep ==
  ASSUME MInv, RInv, SweepsAsPlanned, CompleteSweep
  PROVE  RInv'
  <1> DEFINE c == call.context
             With(x) == [tree EXCEPT !.completed[c] = x]
  <1>0. /\ UNCHANGED <<profile, archive, run_count>>
        /\ stage = "complete"
        /\ c \in Contexts /\ c \in tree.started
        /\ tree \in TreeType /\ sweep \in Sweeps
        /\ calibration \in tree.results
        /\ TreeExplained(tree, profile, interrupted, {c}, {})
        /\ Sweepers = {c} /\ Finishers = {}
    BY DEF CompleteSweep, MInv, CallSound, TreeSound, RInv, Sweepers, Finishers, Sweeping
  <1>1. calibration \in Result
    BY <1>0 DEF TreeType
  <1>2. \A x \in {calibration, Torn} :
          /\ With(x).completed = [tree.completed EXCEPT ![c] = x]
          /\ With(x).plans = tree.plans /\ With(x).torn_manifest = tree.torn_manifest
          /\ With(x).started = tree.started
          /\ With(x).finals = tree.finals /\ With(x).summaries = tree.summaries
    BY <1>0 DEF TreeType
  <1>3. \A x \in {calibration, Torn}, d \in Contexts :
          With(x).completed[d] = IF d = c THEN x ELSE tree.completed[d]
    BY <1>0, <1>2 DEF TreeType
  <1>4. calibration \notin {Absent, Torn}
    BY <1>1, ValuesAssumption
  <1>5. ValidStandardResult(c)
    BY <1>0 DEF SweepsAsPlanned, ValidStandardResult
  <1>6. CASE tree' = With(calibration) /\ Goes("verify")
    <2>1. TreeExplained(With(calibration), profile, interrupted, {}, {})
      BY <1>0, <1>2, <1>3, <1>4 DEF TreeExplained, TreeType
    <2>2. Sweepers' = {} /\ Finishers' = {}
      BY <1>6 DEF Goes, Sweepers, Finishers, Sweeping
    <2>3. QED
      BY <1>0, <1>6, <2>1, <2>2, GoingOnIsExplained DEF Goes
  <1>7. CASE Cut
    BY <1>0, <1>7, CutIsExplained
  <1>8. CASE CutTorn(With(Torn))
    <2>1. TreeExplained(With(Torn), profile, interrupted \cup {<<c, "torn">>},
                        Sweepers, Finishers)
      BY <1>0, <1>2, <1>3 DEF TreeExplained, TreeType
    <2>2. QED
      BY <1>0, <1>8, <2>1, CutTornIsExplained
  <1>9. QED
    BY <1>5, <1>6, <1>7, <1>8 DEF CompleteSweep, Write

LEMMA ExplainVerify ==
  ASSUME MInv, RInv, Verify
  PROVE  RInv'
  <1> DEFINE c == call.context
  <1>0. /\ UNCHANGED <<profile, archive, run_count>>
        /\ stage = "verify"
        /\ c \in Contexts
        /\ profile[c] \in {"smoke", "standard"}
        /\ calibration \in Result /\ tree.completed[c] = calibration
        /\ ResultsAreSound(tree)
        /\ TreeExplained(tree, profile, interrupted, {}, {})
    BY DEF Verify, MInv, CallType, CallSound, TreeSound, RInv, Sweepers, Finishers, Sweeping
  <1>1. CASE ~PassesGate(c, calibration) /\ Refuse("calibration")
    <2>1. calibration \in tree.results /\ calibration.context = c
      BY <1>0, ValuesAssumption DEF ResultsAreSound
    <2>2. profile[c] = "standard" /\ calibration.status # "supported"
      BY <1>0, <1>1, <2>1 DEF PassesGate, Relationship
    <2>3. CauseOf(c, "calibration", tree, profile, interrupted)
      BY <1>0, <2>2 DEF CauseOf
    <2>4. QED
      BY <1>0, <1>1, <2>3, RefusalIsExplained DEF Sweeping
  <1>2. CASE Refuse("prior reference")
    <2>1. CauseOf(c, "prior reference", tree, profile, interrupted)
      BY DEF CauseOf
    <2>2. QED
      BY <1>0, <1>2, <2>1, RefusalIsExplained DEF Sweeping
  <1>3. CASE Goto("slots")
    BY <1>0, <1>3, GoingOnIsExplained DEF Goto, Goes, Sweepers, Finishers, Sweeping
  <1>4. QED
    BY <1>1, <1>2, <1>3 DEF Verify

LEMMA NextSlotGoesOn ==
  ASSUME stage = "slots", NextSlot
  PROVE  /\ Sweepers' = {} /\ Finishers' = {}
         /\ stage' \in {"slots", "final"}
         /\ UNCHANGED <<outcome, interrupted>>
  BY DEF NextSlot, Sweepers, Finishers, Sweeping

(* A slot is never filled twice, so there are never two runs to choose     *)
(* from.                                                                   *)
LEMMA ExplainSkipSlot ==
  ASSUME MInv, RInv, SkipSlot
  PROVE  RInv'
  <1> DEFINE c == call.context
             matches == AcceptedMatches(c, call.slot)
  <1>0. /\ UNCHANGED <<profile, archive, run_count>>
        /\ stage = "slots"
        /\ c \in Contexts
        /\ tree \in TreeType /\ RunsAreSound(tree, profile, run_count)
        /\ TreeExplained(tree, profile, interrupted, {}, {})
    BY DEF SkipSlot, MInv, CallSound, TreeSound, RInv, Sweepers, Finishers, Sweeping
  <1>1. CASE tree.torn_manifest /\ Refuse("unreadable")
    <2>1. CauseOf(c, "unreadable", tree, profile, interrupted)
      BY <1>0, <1>1 DEF CauseOf, TreeExplained
    <2>2. QED
      BY <1>0, <1>1, <2>1, RefusalIsExplained DEF Sweeping
  <1>2. CASE matches # {} /\ Cardinality(matches) > 1
    <2>1. PICK r \in matches : TRUE
      BY <1>2
    <2>2. \A q \in matches : q = r
      BY <1>0, <2>1 DEF AcceptedMatches, Attempts, SameProfile, RunsAreSound, TreeType, Run
    <2>3. matches = {r}
      BY <2>1, <2>2
    <2>4. QED
      BY <1>2, <2>3, FS_Singleton
  <1>3. CASE NextSlot /\ UNCHANGED tree
    BY <1>0, <1>3, NextSlotGoesOn, GoingOnIsExplained
  <1>4. QED
    BY <1>1, <1>2, <1>3 DEF SkipSlot

LEMMA ExplainFillSlot ==
  ASSUME MInv, RInv, FillSlot
  PROVE  RInv'
  <1>0. /\ UNCHANGED <<profile, archive>>
        /\ stage = "slots" /\ NextSlot
        /\ tree \in TreeType
        /\ TreeExplained(tree, profile, interrupted, {}, {})
    BY DEF FillSlot, MInv, TreeSound, RInv, Sweepers, Finishers, Sweeping
  <1>1. PICK runs : tree' = [tree EXCEPT !.runs = runs]
    BY DEF FillSlot
  <1>2. /\ tree'.plans = tree.plans /\ tree'.torn_manifest = tree.torn_manifest
        /\ tree'.started = tree.started /\ tree'.completed = tree.completed
        /\ tree'.finals = tree.finals /\ tree'.summaries = tree.summaries
    BY <1>0, <1>1 DEF TreeType
  <1>3. TreeExplained(tree', profile, interrupted, {}, {})
    BY <1>0, <1>2 DEF TreeExplained
  <1>4. QED
    BY <1>0, <1>3, NextSlotGoesOn, GoingOnIsExplained

LEMMA ExplainWriteFinal ==
  ASSUME MInv, RInv, WriteFinal
  PROVE  RInv'
  <1> DEFINE c == call.context
             With(x) == [tree EXCEPT !.finals[c] = x]
  <1>0. /\ UNCHANGED <<profile, archive, run_count>>
        /\ stage = "final"
        /\ c \in Contexts
        /\ tree \in TreeType /\ finalized \in Accepted
        /\ tree.summaries[c] = Absent
        /\ TreeExplained(tree, profile, interrupted, {}, {})
        /\ Sweepers = {} /\ Finishers = {}
    BY DEF WriteFinal, MInv, CallType, CallSound, TreeSound, RInv, Sweepers, Finishers, Sweeping
  <1>1. \A x \in {finalized, Torn} :
          /\ With(x).finals = [tree.finals EXCEPT ![c] = x]
          /\ With(x).plans = tree.plans /\ With(x).torn_manifest = tree.torn_manifest
          /\ With(x).started = tree.started /\ With(x).completed = tree.completed
          /\ With(x).summaries = tree.summaries
    BY <1>0 DEF TreeType
  <1>2. \A x \in {finalized, Torn}, d \in Contexts :
          With(x).finals[d] = IF d = c THEN x ELSE tree.finals[d]
    BY <1>0, <1>1 DEF TreeType
  <1>3. finalized # Torn
    BY <1>0, ValuesAssumption
  <1>4. CASE tree.finals[c] = Torn /\ Refuse("unreadable")
    <2>1. CauseOf(c, "unreadable", tree, profile, interrupted)
      BY <1>0, <1>4 DEF CauseOf, TreeExplained
    <2>2. QED
      BY <1>0, <1>4, <2>1, RefusalIsExplained DEF Sweeping
  <1>5. CASE tree.finals[c] \notin {Absent, Torn} /\ Refuse("final exists")
    <2>1. CauseOf(c, "final exists", tree, profile, interrupted)
      BY <1>0, <1>5 DEF CauseOf, TreeExplained
    <2>2. QED
      BY <1>0, <1>5, <2>1, RefusalIsExplained DEF Sweeping
  <1>6. CASE tree' = With(finalized) /\ Goes("extract")
    <2>1. Sweepers' = {} /\ Finishers' = {c}
      BY <1>6 DEF Goes, Sweepers, Finishers, Sweeping
    <2>2. TreeExplained(With(finalized), profile, interrupted, {}, {c})
      <3> DEFINE u == With(finalized)
      <3>1. /\ u.plans = tree.plans /\ u.torn_manifest = tree.torn_manifest
            /\ u.started = tree.started /\ u.completed = tree.completed
            /\ u.summaries = tree.summaries
            /\ \A d \in Contexts : u.finals[d] = IF d = c THEN finalized ELSE tree.finals[d]
        BY <1>1, <1>2
      <3> HIDE DEF u
      <3>2. \A d \in Contexts :
              Torn \in {u.plans[d], u.completed[d], u.finals[d], u.summaries[d]} =>
                <<d, "torn">> \in interrupted
        BY <1>0, <1>3, <3>1 DEF TreeExplained
      <3>3. \A d \in Contexts :
              d \notin {c} /\ u.finals[d] \notin {Absent, Torn} /\ u.summaries[d] = Absent =>
                <<d, "after final">> \in interrupted
        BY <1>0, <3>1 DEF TreeExplained
      <3>4. TreeExplained(u, profile, interrupted, {}, {c})
        BY <1>0, <3>1, <3>2, <3>3 DEF TreeExplained
      <3>5. QED
        BY <3>4 DEF u
    <2>3. QED
      BY <1>0, <1>6, <2>1, <2>2, GoingOnIsExplained DEF Goes
  <1>7. CASE Cut
    BY <1>0, <1>7, CutIsExplained
  <1>8. CASE CutTorn(With(Torn))
    <2>1. TreeExplained(With(Torn), profile, interrupted \cup {<<c, "torn">>},
                        Sweepers, Finishers)
      BY <1>0, <1>1, <1>2 DEF TreeExplained
    <2>2. QED
      BY <1>0, <1>8, <2>1, CutTornIsExplained
  <1>9. QED
    BY <1>4, <1>5, <1>6, <1>7, <1>8 DEF WriteFinal, Write

LEMMA ExplainExtract ==
  ASSUME MInv, RInv, Extract
  PROVE  RInv'
  <1>0. UNCHANGED <<profile, archive>> /\ stage = "extract"
    BY DEF Extract
  <1>1. CASE Goto("summary")
    <2>1. Sweepers' = Sweepers /\ Finishers' = Finishers
      BY <1>0, <1>1 DEF Goto, Goes, Sweepers, Finishers, Sweeping
    <2>2. QED
      BY <1>0, <1>1, <2>1 DEF RInv, Goto, Goes
  <1>2. CASE Cut
    BY <1>0, <1>2, CutIsExplained
  <1>3. QED
    BY <1>1, <1>2 DEF Extract

LEMMA ExplainWriteSummary ==
  ASSUME MInv, RInv, WriteSummary
  PROVE  RInv'
  <1> DEFINE c == call.context
             summary == [included |-> included, gate |-> CoverageGate(included),
                         calibration |-> calibration]
             With(x) == [tree EXCEPT !.summaries[c] = x]
  <1>0. /\ UNCHANGED <<profile, archive, run_count>>
        /\ stage = "summary"
        /\ c \in Contexts
        /\ tree \in TreeType /\ summary \in Summary
        /\ TreeExplained(tree, profile, interrupted, {}, {c})
        /\ Sweepers = {} /\ Finishers = {c}
    BY DEF WriteSummary, MInv, CallType, CallSound, TreeSound, RInv, Sweepers, Finishers,
           Sweeping, Verified, Summary, CoverageGate
  <1>1. \A x \in {summary, Torn} :
          /\ With(x).summaries = [tree.summaries EXCEPT ![c] = x]
          /\ With(x).plans = tree.plans /\ With(x).torn_manifest = tree.torn_manifest
          /\ With(x).started = tree.started /\ With(x).completed = tree.completed
          /\ With(x).finals = tree.finals
    BY <1>0 DEF TreeType
  <1>2. \A x \in {summary, Torn}, d \in Contexts :
          With(x).summaries[d] = IF d = c THEN x ELSE tree.summaries[d]
    BY <1>0, <1>1 DEF TreeType
  <1>3. summary \notin {Absent, Torn}
    BY <1>0, ValuesAssumption
  <1>4. CASE tree' = With(summary) /\ Ends("returned") /\ UNCHANGED interrupted
    <2>1. TreeExplained(With(summary), profile, interrupted, {}, {})
      <3> HIDE DEF summary
      <3> DEFINE t == With(summary)
      <3>1. /\ t.plans = tree.plans /\ t.torn_manifest = tree.torn_manifest
            /\ t.started = tree.started /\ t.completed = tree.completed
            /\ t.finals = tree.finals
        BY <1>1
      <3>2. \A d \in Contexts :
              t.summaries[d] = IF d = c THEN summary ELSE tree.summaries[d]
        BY <1>2
      <3> HIDE DEF t
      <3>3. ASSUME NEW d \in Contexts,
                   Torn \in {t.plans[d], t.completed[d], t.finals[d], t.summaries[d]}
            PROVE  <<d, "torn">> \in interrupted
        <4>1. Torn \in {tree.plans[d], tree.completed[d], tree.finals[d], tree.summaries[d]}
          BY <1>3, <3>1, <3>2, <3>3
        <4>2. QED
          BY <1>0, <4>1 DEF TreeExplained
      <3>4. ASSUME NEW d \in Contexts, t.finals[d] \notin {Absent, Torn},
                   t.summaries[d] = Absent
            PROVE  <<d, "after final">> \in interrupted
        <4>1. d # c /\ tree.summaries[d] = Absent
          BY <1>3, <3>2, <3>4
        <4>2. QED
          BY <1>0, <3>1, <3>4, <4>1 DEF TreeExplained
      <3>5. QED
        BY <1>0, <3>1, <3>3, <3>4 DEF TreeExplained, t
    <2>2. CauseOf(c, "returned", tree', profile, interrupted')
      BY DEF CauseOf
    <2>3. QED
      BY <1>0, <1>4, <2>1, <2>2, EndIsExplained DEF Ends
  <1>5. CASE Cut
    BY <1>0, <1>5, CutIsExplained
  <1>6. CASE CutTorn(With(Torn))
    <2>1. TreeExplained(With(Torn), profile, interrupted \cup {<<c, "torn">>},
                        Sweepers, Finishers)
      BY <1>0, <1>1, <1>2, ValuesAssumption DEF TreeExplained
    <2>2. QED
      BY <1>0, <1>6, <2>1, CutTornIsExplained
  <1>7. QED
    BY <1>4, <1>5, <1>6 DEF WriteSummary

LEMMA EmptyTreeIsExplained ==
  ASSUME NEW p, NEW cuts
  PROVE  TreeExplained(EmptyTree, p, cuts, {}, {})
  BY ValuesAssumption DEF EmptyTree, TreeExplained

LEMMA ExplainArchive ==
  ASSUME MInv, RInv, Export \/ HostLost
  PROVE  RInv'
  <1>1. CASE Export
    <2>1. archive'.tree = tree /\ archive'.interrupted = interrupted
      BY <1>1 DEF Export
    <2>2. /\ UNCHANGED <<profile, tree, call, stage, sweep, outcome, interrupted>>
          /\ stage = "idle"
      BY <1>1 DEF Export, work
    <2>3. Sweepers = {} /\ Finishers = {} /\ Sweepers' = {} /\ Finishers' = {}
      BY <2>2 DEF Sweepers, Finishers, Sweeping
    <2>4. QED
      BY <2>1, <2>2, <2>3 DEF RInv
  <1>2. CASE HostLost
    <2>1. Sweepers' = {} /\ Finishers' = {}
      BY <1>2 DEF HostLost, Idling, Sweepers, Finishers, Sweeping
    <2>2. TreeExplained(tree', profile, interrupted', {}, {})
      BY <1>2, EmptyTreeIsExplained DEF HostLost, RInv
    <2>3. QED
      BY <1>2, <2>1, <2>2 DEF HostLost, Idling, RInv
  <1>3. QED
    BY <1>1, <1>2

LEMMA RInvInit == Init => RInv
  <1> SUFFICES ASSUME Init PROVE RInv
    OBVIOUS
  <1>1. Sweepers = {} /\ Finishers = {}
    BY DEF Init, Sweepers, Finishers, Sweeping
  <1>2. QED
    BY <1>1, EmptyTreeIsExplained DEF Init, RInv

LEMMA RInvStep ==
  ASSUME MInv, RInv, SweepsAsPlanned, [Next]_vars
  PROVE  RInv'
  <1>1. CASE UNCHANGED vars
    BY <1>1 DEF vars, work, RInv, Sweepers, Finishers
  <1>2. CASE Next
    BY <1>2, ExplainRunMatrix, ExplainPlan, ExplainReuseCalibration, ExplainStartSweep,
       ExplainMeasureSweep, ExplainCutOff, ExplainWriteResult, ExplainCompleteSweep,
       ExplainVerify, ExplainSkipSlot, ExplainFillSlot, ExplainWriteFinal, ExplainExtract,
       ExplainWriteSummary, ExplainArchive DEF Next
  <1>3. QED
    BY <1>1, <1>2

LEMMA CausesSuffice == RInv => RefusalsHaveACause
  <1> SUFFICES ASSUME RInv, outcome # Absent PROVE RefusalsHaveACause
    BY DEF RefusalsHaveACause
  <1> DEFINE c == outcome.context
  <1>1. CauseOf(c, outcome.how, tree, profile, interrupted)
    BY DEF RInv
  <1>2. CASE outcome.how = "unreadable"
    BY <1>1, <1>2 DEF CauseOf, RefusalsHaveACause
  <1>3. CASE outcome.how = "sweep evidence"
    BY <1>1, <1>3 DEF CauseOf, RefusalsHaveACause
  <1>4. CASE outcome.how = "final exists"
    BY <1>1, <1>4 DEF CauseOf, RefusalsHaveACause
  <1>5. CASE outcome.how = "calibration"
    BY <1>1, <1>5 DEF CauseOf, RefusalsHaveACause
  <1>6. CASE outcome.how \in {"returned", "cut off", "prior reference"}
    BY <1>6 DEF RefusalsHaveACause
  <1>7. QED
    BY <1>1, <1>2, <1>3, <1>4, <1>5, <1>6 DEF CauseOf

(* When sweeps measure what they planned, a call that is refused has the   *)
(* cause of its refusal on record: another call that was cut off, a        *)
(* calibration that is not supported, or the reference it was given.       *)
THEOREM RefusalsCorrect ==
  ASSUME SweepsAsPlanned
  PROVE  Spec => []RefusalsHaveACause
  <1>1. Init => RInv
    BY RInvInit
  <1>2. MInv /\ RInv /\ [Next]_vars => RInv'
    BY RInvStep
  <1>3. RInv => RefusalsHaveACause
    BY CausesSuffice
  <1>4. QED
    BY <1>1, <1>2, <1>3, MInvAlways, PTL DEF Spec

-----------------------------------------------------------------------------
(* Numbers *)

LessThan == {p \in Nat \X Nat : p[1] < p[2]}

LEMMA LeastNumber ==
  ASSUME NEW T, T \subseteq Nat, T # {}
  PROVE  \E x \in T : \A y \in T : x <= y
  <1>1. IsWellFoundedOn(LessThan, Nat)
    BY NatLessThanWellFounded DEF OpToRel, LessThan
  <1>2. PICK x \in T : \A y \in T : ~(<<y, x>> \in LessThan)
    BY <1>1, WFMin, Zenon
  <1>3. \A y \in T : ~(y < x)
    BY <1>2 DEF LessThan
  <1>4. QED
    BY <1>3

(* A finite set of integers has a greatest and a least element. *)
LEMMA Greatest ==
  ASSUME NEW S, S \subseteq Int, S # {}, IsFiniteSet(S)
  PROVE  \E x \in S : \A y \in S : y <= x
  <1> DEFINE T == {n \in Nat : \E R : /\ R \subseteq Int /\ R # {} /\ IsFiniteSet(R)
                                      /\ Cardinality(R) = n
                                      /\ ~\E x \in R : \A y \in R : y <= x}
  <1>1. ASSUME T # {} PROVE FALSE
    <2>1. T \subseteq Nat
      OBVIOUS
    <2>2. PICK n \in T : \A m \in T : n <= m
      <3> HIDE DEF T
      <3>1. QED
        BY <1>1, <2>1, LeastNumber
    <2>3. PICK R : /\ R \subseteq Int /\ R # {} /\ IsFiniteSet(R) /\ Cardinality(R) = n
                   /\ ~\E x \in R : \A y \in R : y <= x
      OBVIOUS
    <2>4. PICK z \in R : TRUE
      BY <2>3
    <2> DEFINE Q == R \ {z}
    <2>5. IsFiniteSet(Q) /\ Cardinality(Q) = n - 1
      BY <2>3, FS_RemoveElement
    <2>6. CASE Q = {}
      <3>1. R = {z}
        BY <2>6
      <3>2. QED
        BY <2>3, <3>1
    <2>7. CASE Q # {}
      <3>1. Cardinality(Q) \in Nat /\ n - 1 \notin T
        <4>1. Cardinality(Q) \in Nat
          BY <2>5, FS_CardinalityType
        <4>2. n \in Nat /\ ~(n <= n - 1)
          BY <2>1, <2>2
        <4> HIDE DEF T
        <4>3. QED
          BY <2>2, <4>1, <4>2
      <3>2. PICK x \in Q : \A y \in Q : y <= x
        BY <3>1, <2>3, <2>5, <2>7
      <3>3. CASE z <= x
        BY <2>3, <3>2, <3>3
      <3>4. CASE ~(z <= x)
        BY <2>3, <3>2, <3>4
      <3>5. QED
        BY <3>3, <3>4
    <2>8. QED
      BY <2>6, <2>7
  <1>2. Cardinality(S) \in Nat
    BY FS_CardinalityType
  <1>3. QED
    BY <1>1, <1>2

LEMMA Least ==
  ASSUME NEW S, S \subseteq Int, S # {}, IsFiniteSet(S)
  PROVE  \E x \in S : \A y \in S : x <= y
  <1> DEFINE R == {-x : x \in S}
  <1>0. IsFiniteSet(R)
    <2> DEFINE f == [x \in S |-> -x]
    <2>1. f \in Surjection(S, R)
      BY DEF Surjection
    <2>2. QED
      BY <2>1, FS_Surjection
  <1>1. R \subseteq Int /\ R # {} /\ IsFiniteSet(R)
    <2>1. \A x \in S : -x \in Int
      OBVIOUS
    <2>2. R # {}
      OBVIOUS
    <2>3. R \subseteq Int
      BY <2>1
    <2> HIDE DEF R
    <2>4. QED
      BY <1>0, <2>2, <2>3
  <1>2. PICK x \in R : \A y \in R : y <= x
    <2> HIDE DEF R
    <2>1. QED
      BY <1>1, Greatest
  <1>3. PICK z \in S : x = -z
    OBVIOUS
  <1>4. \A y \in S : -y \in R
    OBVIOUS
  <1>5. ASSUME NEW y \in S PROVE z <= y
    BY <1>2, <1>3, <1>4
  <1>6. QED
    BY <1>5

(* The number of elements before x. *)
Rank(S, x) == Cardinality({y \in S : y < x})

LEMMA RankIs ==
  ASSUME NEW S, IsFiniteSet(S), S \subseteq Int, NEW x \in S
  PROVE  Rank(S, x) \in Nat /\ Rank(S, x) < Cardinality(S) /\ Cardinality(S) \in Nat
  <1> DEFINE before == {y \in S : y < x}
  <1>1. IsFiniteSet(S \ {x}) /\ Cardinality(S \ {x}) = Cardinality(S) - 1
    BY FS_RemoveElement
  <1>2. before \subseteq S \ {x}
    OBVIOUS
  <1>3. /\ Rank(S, x) = Cardinality(before)
        /\ Cardinality(before) <= Cardinality(S \ {x}) /\ Cardinality(before) \in Nat
        /\ Cardinality(S) \in Nat
    <2> HIDE DEF before
    <2>1. /\ IsFiniteSet(before) /\ Cardinality(before) <= Cardinality(S \ {x})
      BY <1>1, <1>2, FS_Subset
    <2>2. Cardinality(before) \in Nat /\ Cardinality(S) \in Nat
      BY <2>1, FS_CardinalityType
    <2>3. QED
      BY <2>1, <2>2 DEF before, Rank
  <1>4. QED
    BY <1>1, <1>3

(* Every place in the ascending order of a finite set is taken. *)
LEMMA RankIsOnto ==
  ASSUME NEW S, IsFiniteSet(S), S \subseteq Int, NEW k \in Nat, k < Cardinality(S)
  PROVE  \E x \in S : Rank(S, x) = k
  <1> DEFINE T == {n \in Nat : \E R : /\ R \subseteq Int /\ IsFiniteSet(R)
                                      /\ Cardinality(R) = n /\ k < n
                                      /\ ~\E x \in R : Rank(R, x) = k}
  <1>1. ASSUME T # {} PROVE FALSE
    <2>1. T \subseteq Nat
      OBVIOUS
    <2>2. PICK n \in T : \A m \in T : n <= m
      <3> HIDE DEF T
      <3>1. QED
        BY <1>1, <2>1, LeastNumber
    <2>3. PICK R : /\ R \subseteq Int /\ IsFiniteSet(R) /\ Cardinality(R) = n /\ k < n
                   /\ ~\E x \in R : Rank(R, x) = k
      OBVIOUS
    <2>4. R # {}
      BY <2>3, FS_EmptySet
    <2>5. PICK z \in R : \A y \in R : y <= z
      BY <2>3, <2>4, Greatest
    <2> DEFINE Q == R \ {z}
    <2>6. IsFiniteSet(Q) /\ Cardinality(Q) = n - 1 /\ Q \subseteq Int
      BY <2>3, FS_RemoveElement
    <2>7. {y \in R : y < z} = Q
      <3>1. ASSUME NEW y \in R PROVE y < z <=> y # z
        BY <2>3, <2>5
      <3>2. QED
        BY <3>1
    <2>8. CASE k = n - 1
      <3>1. Rank(R, z) = n - 1
        BY <2>6, <2>7 DEF Rank
      <3>2. QED
        BY <2>3, <2>8, <3>1
    <2>9. CASE k # n - 1
      <3>1. n \in Nat /\ n - 1 \in Nat /\ k < n - 1 /\ n - 1 \notin T
        BY <2>2, <2>3, <2>9
      <3>2. PICK x \in Q : Rank(Q, x) = k
        BY <2>6, <3>1
      <3>3. {y \in R : y < x} = {y \in Q : y < x}
        BY <2>3, <2>5
      <3>4. Rank(R, x) = k
        BY <3>2, <3>3 DEF Rank
      <3>5. QED
        BY <2>3, <3>4
    <2>10. QED
      BY <2>8, <2>9
  <1>2. Cardinality(S) \in Nat
    BY FS_CardinalityType
  <1>3. QED
    BY <1>1, <1>2

-----------------------------------------------------------------------------
(* Sums over finite sets.  MapThenSumSet takes the elements in an order of *)
(* its own; IsSum is what it computes whatever the order.                  *)

(* F gives the sum of h over each subset of S. *)
IsSum(F, h, S) ==
  /\ F \in [SUBSET S -> Int]
  /\ F[{}] = 0
  /\ \A T \in SUBSET S : \A x \in T : F[T] = h[x] + F[T \ {x}]

LEMMA SumGoesOn ==
  ASSUME NEW S, NEW h \in [S -> Int], NEW a \in S, NEW F, IsSum(F, h, S \ {a})
  PROVE  \E G : IsSum(G, h, S)
  <1> DEFINE G == [T \in SUBSET S |-> (IF a \in T THEN h[a] ELSE 0) + F[T \ {a}]]
  <1>1. \A T \in SUBSET S : T \ {a} \in SUBSET (S \ {a})
    OBVIOUS
  <1>2. \A T \in SUBSET (S \ {a}) : F[T] \in Int
    BY DEF IsSum
  <1>3. G \in [SUBSET S -> Int]
    <2>1. ASSUME NEW T \in SUBSET S PROVE (IF a \in T THEN h[a] ELSE 0) + F[T \ {a}] \in Int
      <3>1. F[T \ {a}] \in Int
        BY <1>1, <1>2
      <3>2. QED
        BY <3>1
    <2>2. QED
      BY <2>1
  <1>4. G[{}] = 0
    <2>1. {} \ {a} = {} /\ F[{}] = 0
      BY DEF IsSum
    <2>2. QED
      BY <2>1
  <1>5. ASSUME NEW T \in SUBSET S, NEW x \in T PROVE G[T] = h[x] + G[T \ {x}]
    <2> DEFINE R == T \ {a}
               Q == (T \ {x}) \ {a}
    <2>1. T \ {x} \in SUBSET S /\ R \in SUBSET (S \ {a}) /\ Q \in SUBSET (S \ {a})
      OBVIOUS
    <2>2. /\ G[T] = (IF a \in T THEN h[a] ELSE 0) + F[R]
          /\ G[T \ {x}] = (IF a \in T \ {x} THEN h[a] ELSE 0) + F[Q]
      BY <2>1
    <2>3. CASE x = a
      <3>1. R = Q /\ a \in T /\ a \notin T \ {x}
        BY <2>3
      <3>2. F[Q] \in Int /\ h[a] \in Int
        BY <1>2, <2>1
      <3> HIDE DEF G, R, Q
      <3>3. QED
        BY <2>2, <2>3, <3>1, <3>2
    <2>4. CASE x # a
      <3>1. Q = R \ {x} /\ x \in R /\ (a \in T <=> a \in T \ {x})
        BY <2>4
      <3>2. F[R] = h[x] + F[Q]
        <4>1. \A P \in SUBSET (S \ {a}) : \A y \in P : F[P] = h[y] + F[P \ {y}]
          BY DEF IsSum
        <4> HIDE DEF R, Q
        <4>2. F[R] = h[x] + F[R \ {x}]
          BY <2>1, <3>1, <4>1
        <4>3. QED
          BY <3>1, <4>2
      <3>3. F[Q] \in Int /\ h[x] \in Int /\ h[a] \in Int
        BY <1>2, <2>1
      <3> HIDE DEF G, R, Q
      <3>4. QED
        BY <2>2, <3>1, <3>2, <3>3
    <2>5. QED
      BY <2>3, <2>4
  <1>6. IsSum(G, h, S)
    <2> HIDE DEF G
    <2>1. QED
      BY <1>3, <1>4, <1>5 DEF IsSum
  <1>7. QED
    BY <1>6

LEMMA SumExists ==
  ASSUME NEW S, IsFiniteSet(S), NEW h \in [S -> Int]
  PROVE  \E F : IsSum(F, h, S)
  <1> DEFINE T == {n \in Nat : \E R \in SUBSET S : /\ Cardinality(R) = n
                                                   /\ ~\E F : IsSum(F, [x \in R |-> h[x]], R)}
  <1>1. ASSUME T # {} PROVE FALSE
    <2>1. T \subseteq Nat
      OBVIOUS
    <2>2. PICK n \in T : \A m \in T : n <= m
      <3> HIDE DEF T
      <3>1. QED
        BY <1>1, <2>1, LeastNumber
    <2>3. PICK R \in SUBSET S : /\ Cardinality(R) = n
                                /\ ~\E F : IsSum(F, [x \in R |-> h[x]], R)
      OBVIOUS
    <2> DEFINE hR == [x \in R |-> h[x]]
    <2>4. IsFiniteSet(R) /\ hR \in [R -> Int]
      BY FS_Subset
    <2>5. R # {}
      <3>1. ASSUME R = {} PROVE FALSE
        <4> DEFINE F == [Q \in SUBSET R |-> 0]
        <4>1. F \in [SUBSET R -> Int] /\ F[{}] = 0 /\ \A Q \in SUBSET R : Q = {}
          BY <3>1
        <4>2. IsSum(F, hR, R)
          BY <4>1 DEF IsSum
        <4>3. QED
          BY <2>3, <4>2
      <3>2. QED
        BY <3>1
    <2>6. PICK a \in R : TRUE
      BY <2>5
    <2> DEFINE Q == R \ {a}
               hQ == [x \in Q |-> h[x]]
    <2>7. Cardinality(Q) = n - 1 /\ n - 1 \in Nat /\ Q \in SUBSET S
      <3>1. IsFiniteSet(Q) /\ Cardinality(Q) = n - 1
        BY <2>3, <2>4, <2>6, FS_RemoveElement
      <3>2. Cardinality(Q) \in Nat
        BY <3>1, FS_CardinalityType
      <3>3. QED
        BY <3>1, <3>2
    <2>8. PICK F : IsSum(F, hQ, Q)
      <3>1. n - 1 \notin T
        BY <2>2, <2>7
      <3>2. QED
        BY <2>7, <3>1
    <2>9. IsSum(F, hR, R \ {a})
      <3>1. \A x \in Q : hQ[x] = hR[x]
        OBVIOUS
      <3>2. \A P \in SUBSET Q : \A x \in P : F[P] = hR[x] + F[P \ {x}]
        <4> HIDE DEF hQ, hR
        <4>1. QED
          BY <2>8, <3>1 DEF IsSum
      <3> HIDE DEF hQ, hR
      <3>3. QED
        BY <2>8, <3>2 DEF IsSum
    <2>10. \E G : IsSum(G, hR, R)
      <3> HIDE DEF hQ, hR, Q
      <3>1. QED
        BY <2>4, <2>6, <2>9, SumGoesOn
    <2>11. QED
      BY <2>3, <2>10
  <1>2. Cardinality(S) \in Nat /\ [x \in S |-> h[x]] = h
    BY FS_CardinalityType
  <1>3. ASSUME ~\E F : IsSum(F, h, S) PROVE FALSE
    <2>1. Cardinality(S) \in T
      BY <1>2, <1>3
    <2>2. QED
      BY <1>1, <2>1
  <1>4. QED
    BY <1>3

(* The term of the three sums of a correlation, and the sum as it is       *)
(* computed.                                                               *)
Products(f, g, S) == [x \in S |-> Centred(f, x) * Centred(g, x)]

SumStep(f, g, S, F) ==
  [s \in SUBSET S |->
     IF s = {} THEN 0
     ELSE LET x == CHOOSE x \in s : TRUE
          IN  Centred(f, x) * Centred(g, x) + F[s \ {x}]]

Total(f, g, S) == (CHOOSE F : F = SumStep(f, g, S, F))[S]

LEMMA CorrelationIs ==
  ASSUME NEW f, NEW g
  PROVE  /\ Correlation(f, g).num = Total(f, g, DOMAIN f)
         /\ Correlation(f, g).square = Total(f, f, DOMAIN f) * Total(g, g, DOMAIN f)
  <1>1. SumOver(DOMAIN f, LAMBDA x : Centred(f, x) * Centred(g, x)) = Total(f, g, DOMAIN f)
    BY Zenon DEF SumOver, MapThenSumSet, MapThenFoldSet, Total, SumStep
  <1>2. SumOver(DOMAIN f, LAMBDA x : Centred(f, x) * Centred(f, x)) = Total(f, f, DOMAIN f)
    BY Zenon DEF SumOver, MapThenSumSet, MapThenFoldSet, Total, SumStep
  <1>3. SumOver(DOMAIN f, LAMBDA x : Centred(g, x) * Centred(g, x)) = Total(g, g, DOMAIN f)
    BY Zenon DEF SumOver, MapThenSumSet, MapThenFoldSet, Total, SumStep
  <1>4. QED
    BY <1>1, <1>2, <1>3, Zenon DEF Correlation

(* Whatever order the elements are taken in, the total is the sum. *)
LEMMA TotalIs ==
  ASSUME NEW f, NEW g, NEW S, IsFiniteSet(S), NEW F, IsSum(F, Products(f, g, S), S)
  PROVE  Total(f, g, S) = F[S]
  <1> DEFINE h == Products(f, g, S)
  <1>0. \A x \in S : h[x] = Centred(f, x) * Centred(g, x)
    BY DEF Products
  <1> HIDE DEF h
  <1>1. F = SumStep(f, g, S, F)
    <2>1. ASSUME NEW s \in SUBSET S PROVE F[s] = SumStep(f, g, S, F)[s]
      <3>1. CASE s = {}
        BY <3>1 DEF IsSum, SumStep
      <3>2. CASE s # {}
        <4> DEFINE x == CHOOSE x \in s : TRUE
        <4>1. x \in s
          BY <3>2
        <4>2. SumStep(f, g, S, F)[s] = Centred(f, x) * Centred(g, x) + F[s \ {x}]
          BY <3>2 DEF SumStep
        <4> HIDE DEF x
        <4>3. F[s] = h[x] + F[s \ {x}]
          BY <4>1 DEF IsSum, h
        <4>4. QED
          BY <1>0, <4>1, <4>2, <4>3
      <3>3. QED
        BY <3>1, <3>2
    <2>2. F \in [SUBSET S -> Int] /\ SumStep(f, g, S, F) = [s \in SUBSET S |-> SumStep(f, g, S, F)[s]]
      BY DEF IsSum, SumStep
    <2>3. F = [s \in SUBSET S |-> F[s]]
      BY <2>2
    <2>4. QED
      BY <2>1, <2>2, <2>3
  <1> DEFINE E == CHOOSE G : G = SumStep(f, g, S, G)
  <1>2. E = SumStep(f, g, S, E)
    BY <1>1
  <1> HIDE DEF E
  <1> DEFINE T == {n \in Nat : \E s \in SUBSET S : Cardinality(s) = n /\ E[s] # F[s]}
  <1>3. ASSUME T # {} PROVE FALSE
    <2>1. T \subseteq Nat
      OBVIOUS
    <2>2. PICK n \in T : \A m \in T : n <= m
      <3> HIDE DEF T
      <3>1. QED
        BY <1>3, <2>1, LeastNumber
    <2>3. PICK s \in SUBSET S : Cardinality(s) = n /\ E[s] # F[s]
      OBVIOUS
    <2>4. E[s] = SumStep(f, g, S, E)[s] /\ F[s] = SumStep(f, g, S, F)[s]
      BY <1>1, <1>2
    <2>5. CASE s = {}
      BY <2>3, <2>4, <2>5 DEF SumStep
    <2>6. CASE s # {}
      <3> DEFINE x == CHOOSE x \in s : TRUE
                 r == s \ {x}
      <3>1. x \in s
        BY <2>6
      <3>2. /\ SumStep(f, g, S, E)[s] = Centred(f, x) * Centred(g, x) + E[r]
            /\ SumStep(f, g, S, F)[s] = Centred(f, x) * Centred(g, x) + F[r]
        BY <2>6 DEF SumStep
      <3> HIDE DEF x
      <3>3. IsFiniteSet(s)
        BY FS_Subset
      <3>4. IsFiniteSet(r) /\ Cardinality(r) = n - 1
        BY <2>3, <3>1, <3>3, FS_RemoveElement
      <3>5. r \in SUBSET S /\ Cardinality(r) \in Nat /\ n \in Nat
        BY <3>4, FS_CardinalityType
      <3>6. n - 1 \notin T
        BY <2>2, <3>4, <3>5
      <3>7. E[r] = F[r]
        BY <3>4, <3>5, <3>6
      <3>8. QED
        BY <2>3, <2>4, <3>2, <3>7
    <2>7. QED
      BY <2>5, <2>6
  <1>4. Cardinality(S) \in Nat /\ S \in SUBSET S
    BY FS_CardinalityType
  <1>5. E[S] = F[S]
    <2>1. ASSUME E[S] # F[S] PROVE FALSE
      <3>1. Cardinality(S) \in T
        BY <1>4, <2>1
      <3>2. QED
        BY <1>3, <3>1
    <2>2. QED
      BY <2>1
  <1>6. QED
    BY <1>5 DEF E, Total

(* What is true of sums of squares and products: a sum of squares of       *)
(* integers is not negative.                                               *)
LEMMA SquareIdentity ==
  ASSUME NEW u \in Int, NEW v \in Int, NEW a \in Int, NEW c \in Int,
         NEW p \in Int, NEW q \in Int, NEW r \in Int,
         0 <= u * u * p - 2 * u * v * q + v * v * r
  PROVE  0 <= u * u * (a * a + p) - 2 * u * v * (a * c + q) + v * v * (c * c + r)
  <1>1. \A z \in Int : 0 <= z * z
    OBVIOUS
  <1>2. u * a - v * c \in Int
    OBVIOUS
  <1>3. 0 <= (u * a - v * c) * (u * a - v * c)
    BY <1>1, <1>2
  <1>4. u * u * (a * a + p) - 2 * u * v * (a * c + q) + v * v * (c * c + r)
        = (u * a - v * c) * (u * a - v * c) + (u * u * p - 2 * u * v * q + v * v * r)
    OBVIOUS
  <1>5. QED
    BY <1>3, <1>4

(* Over any subset T, with the sums P of a * a, Q of a * c and R of c * c. *)
LEMMA SquaresAreNotNegative ==
  ASSUME NEW S, IsFiniteSet(S), NEW a \in [S -> Int], NEW c \in [S -> Int],
         NEW P, IsSum(P, [x \in S |-> a[x] * a[x]], S),
         NEW Q, IsSum(Q, [x \in S |-> a[x] * c[x]], S),
         NEW R, IsSum(R, [x \in S |-> c[x] * c[x]], S),
         NEW T \in SUBSET S, NEW u \in Int, NEW v \in Int
  PROVE  0 <= u * u * P[T] - 2 * u * v * Q[T] + v * v * R[T]
  <1> DEFINE Positive(s) == 0 <= u * u * P[s] - 2 * u * v * Q[s] + v * v * R[s]
             B == {n \in Nat : \E s \in SUBSET S : Cardinality(s) = n /\ ~Positive(s)}
  <1>1. ASSUME B # {} PROVE FALSE
    <2>1. B \subseteq Nat
      OBVIOUS
    <2>2. PICK n \in B : \A m \in B : n <= m
      <3> HIDE DEF B
      <3>1. QED
        BY <1>1, <2>1, LeastNumber
    <2>3. PICK s \in SUBSET S : Cardinality(s) = n /\ ~Positive(s)
      OBVIOUS
    <2>4. CASE s = {}
      <3>1. P[{}] = 0 /\ Q[{}] = 0 /\ R[{}] = 0
        BY DEF IsSum
      <3>2. Positive(s)
        BY <2>4, <3>1
      <3>3. QED
        BY <2>3, <3>2
    <2>5. CASE s # {}
      <3>1. PICK x \in s : TRUE
        BY <2>5
      <3> DEFINE r == s \ {x}
      <3>2. IsFiniteSet(s)
        BY FS_Subset
      <3>3. IsFiniteSet(r) /\ Cardinality(r) = n - 1
        BY <2>3, <3>1, <3>2, FS_RemoveElement
      <3>4. r \in SUBSET S /\ Cardinality(r) \in Nat /\ n \in Nat
        BY <3>3, FS_CardinalityType
      <3>5. n - 1 \notin B
        BY <2>2, <3>3, <3>4
      <3>6. Positive(r)
        <4> HIDE DEF Positive
        <4>1. QED
          BY <3>3, <3>4, <3>5
      <3>7. /\ P[s] = a[x] * a[x] + P[r]
            /\ Q[s] = a[x] * c[x] + Q[r]
            /\ R[s] = c[x] * c[x] + R[r]
        BY <3>1 DEF IsSum
      <3>8. P[r] \in Int /\ Q[r] \in Int /\ R[r] \in Int /\ a[x] \in Int /\ c[x] \in Int
        BY <3>4 DEF IsSum
      <3> HIDE DEF r
      <3>9. /\ 0 <= u * u * (a[x] * a[x] + P[r]) - 2 * u * v * (a[x] * c[x] + Q[r])
                    + v * v * (c[x] * c[x] + R[r])
        BY <3>6, <3>8, SquareIdentity
      <3>10. Positive(s)
        BY <3>7, <3>9
      <3>11. QED
        BY <2>3, <3>10
    <2>6. QED
      BY <2>4, <2>5
  <1>2. IsFiniteSet(T)
    BY FS_Subset
  <1>3. Cardinality(T) \in Nat
    BY <1>2, FS_CardinalityType
  <1>4. QED
    <2>1. ASSUME ~Positive(T) PROVE FALSE
      <3>1. Cardinality(T) \in B
        BY <1>3, <2>1
      <3>2. QED
        BY <1>1, <3>1
    <2>2. QED
      BY <2>1

(* The inequality of Cauchy and Schwarz, from the squares. *)
LEMMA CauchySchwarz ==
  ASSUME NEW p \in Int, NEW q \in Int, NEW r \in Int,
         \A u, v \in Int : 0 <= u * u * p - 2 * u * v * q + v * v * r,
         0 <= q
  PROVE  0 <= p /\ 0 <= r /\ q * q <= p * r
  <1>1. 0 <= p
    <2>1. 0 <= 1 * 1 * p - 2 * 1 * 0 * q + 0 * 0 * r
      OBVIOUS
    <2>2. QED
      BY <2>1
  <1>2. 0 <= r
    <2>1. 0 <= 0 * 0 * p - 2 * 0 * 1 * q + 1 * 1 * r
      OBVIOUS
    <2>2. QED
      BY <2>1
  <1>3. CASE p > 0
    <2>1. 0 <= q * q * p - 2 * q * p * q + p * p * r
      OBVIOUS
    <2>2. q * q * p - 2 * q * p * q + p * p * r = p * (p * r - q * q)
      OBVIOUS
    <2>3. 0 <= p * (p * r - q * q)
      BY <2>1, <2>2
    <2>4. \A z \in Int : 0 <= p * z => 0 <= z
      BY <1>3
    <2>5. p * r - q * q \in Int
      OBVIOUS
    <2>6. 0 <= p * r - q * q
      BY <2>3, <2>4, <2>5
    <2>7. QED
      BY <1>1, <1>2, <2>6
  <1>4. CASE p = 0
    <2>1. 0 <= (r + 1) * (r + 1) * p - 2 * (r + 1) * 1 * q + 1 * 1 * r
      <3> DEFINE w == r + 1
      <3>1. w \in Int
        OBVIOUS
      <3> HIDE DEF w
      <3>2. 0 <= w * w * p - 2 * w * 1 * q + 1 * 1 * r
        <4>1. 1 \in Int
          OBVIOUS
        <4>2. QED
          BY <3>1, <4>1, Zenon
      <3>3. QED
        BY <3>2 DEF w
    <2>2. 2 * (r + 1) * q <= r
      BY <1>4, <2>1
    <2>3. q = 0
      <3>1. ASSUME q >= 1 PROVE FALSE
        <4>1. (r + 1) * q >= r + 1
          BY <1>2, <3>1
        <4>2. QED
          BY <1>2, <2>2, <4>1
      <3>2. QED
        BY <3>1
    <2>4. QED
      BY <1>1, <1>2, <1>4, <2>3
  <1>5. QED
    BY <1>1, <1>3, <1>4

(* Of up to nine ranks the two outermost make a third of the variance, and *)
(* more, so that a correlation of 0.7 cannot do without them.  Here m is   *)
(* the number of ranks less one, p, q, r the sums over the ranks between.  *)
LEMMA OutermostCount ==
  ASSUME NEW m \in 1 .. 8, NEW p \in Int, NEW q \in Int, NEW r \in Int,
         NEW sxx \in Int, NEW syy \in Int, NEW num \in Int,
         3 * sxx = (m + 1) * m * (m + 2),
         sxx = 2 * m * m + p,
         0 <= num, num <= q, 0 <= p, q * q <= p * r, 0 <= r, r <= syy,
         sxx * syy > 0
  PROVE  100 * num * num < 49 * (sxx * syy)
  <1>1. 100 * p < 49 * sxx /\ 0 < sxx
    <2>1. CASE m = 1
      BY <2>1
    <2>2. CASE m = 2
      BY <2>2
    <2>3. CASE m = 3
      BY <2>3
    <2>4. CASE m = 4
      BY <2>4
    <2>5. CASE m = 5
      BY <2>5
    <2>6. CASE m = 6
      BY <2>6
    <2>7. CASE m = 7
      BY <2>7
    <2>8. CASE m = 8
      BY <2>8
    <2>9. QED
      BY <2>1, <2>2, <2>3, <2>4, <2>5, <2>6, <2>7, <2>8
  <1>2. num * num <= q * q
    OBVIOUS
  <1>3. p * r <= p * syy
    OBVIOUS
  <1>4. 0 < syy
    BY <1>1
  <1>5. 100 * p * syy < 49 * sxx * syy
    <2> DEFINE d == 49 * sxx - 100 * p
    <2>1. d \in Int /\ d > 0
      BY <1>1
    <2>2. d * syy > 0
      <3> HIDE DEF d
      <3>1. QED
        BY <1>4, <2>1
    <2>3. d * syy = 49 * sxx * syy - 100 * p * syy
      OBVIOUS
    <2> HIDE DEF d
    <2>4. QED
      BY <2>2, <2>3
  <1>6. QED
    BY <1>2, <1>3, <1>5

-----------------------------------------------------------------------------
(* Ranks *)

LEMMA RankGrows ==
  ASSUME NEW S, IsFiniteSet(S), S \subseteq Int, NEW x \in S, NEW y \in S, x < y
  PROVE  Rank(S, x) < Rank(S, y)
  <1> DEFINE X == {z \in S : z < x}
             Y == {z \in S : z < y}
  <1>1. X \subseteq Y \ {x} /\ x \in Y /\ Y \subseteq S
    <2>1. ASSUME NEW z \in S, z < x PROVE z < y /\ z # x
      <3>1. z \in Int /\ x \in Int /\ y \in Int
        OBVIOUS
      <3>2. QED
        BY <2>1, <3>1
    <2>2. QED
      BY <2>1
  <1> HIDE DEF X, Y
  <1>2. IsFiniteSet(Y)
    BY <1>1, FS_Subset
  <1>3. IsFiniteSet(Y \ {x}) /\ Cardinality(Y \ {x}) = Cardinality(Y) - 1 /\ Cardinality(Y) \in Nat
    BY <1>1, <1>2, FS_RemoveElement, FS_CardinalityType
  <1>4. Cardinality(X) <= Cardinality(Y) - 1 /\ IsFiniteSet(X)
    BY <1>1, <1>3, FS_Subset
  <1>5. Cardinality(X) \in Nat
    BY <1>4, FS_CardinalityType
  <1>6. QED
    BY <1>3, <1>4, <1>5 DEF X, Y, Rank

(* The payloads have no ties, so their centred ranks are all different. *)
LEMMA CentredPayloads ==
  ASSUME NEW S, IsFiniteSet(S), S \subseteq Int, NEW x \in S
  PROVE  Centred([p \in S |-> p], x) = 2 * Rank(S, x) - (Cardinality(S) - 1)
  <1> DEFINE f == [p \in S |-> p]
  <1>1. {y \in DOMAIN f : f[y] < f[x]} = {y \in S : y < x}
    OBVIOUS
  <1>2. {y \in DOMAIN f : f[y] = f[x]} = {x}
    OBVIOUS
  <1>3. Cardinality({x}) = 1
    BY FS_Singleton
  <1>4. DOMAIN f = S
    OBVIOUS
  <1> HIDE DEF f
  <1>5. Rank2(f, x) = 2 * Rank(S, x) + 1 - 1
    BY <1>1, <1>2, <1>3 DEF Rank2, Rank
  <1>6. Rank(S, x) \in Nat /\ Cardinality(S) \in Nat
    BY RankIs
  <1>7. QED
    BY <1>4, <1>5, <1>6 DEF Centred, f

(* Ranks with ties are twice the mean of two counts, so a value that is not *)
(* above another has no higher rank.                                       *)
LEMMA Rank2Is ==
  ASSUME NEW f, IsFiniteSet(DOMAIN f), \A x \in DOMAIN f : f[x] \in Int, NEW x \in DOMAIN f
  PROVE  /\ Cardinality({y \in DOMAIN f : f[y] < f[x]}) \in Nat
         /\ Cardinality({y \in DOMAIN f : f[y] <= f[x]}) \in Nat
         /\ Rank2(f, x) = Cardinality({y \in DOMAIN f : f[y] < f[x]})
                          + Cardinality({y \in DOMAIN f : f[y] <= f[x]}) - 1
         /\ Rank2(f, x) \in Int
  <1> DEFINE less == {y \in DOMAIN f : f[y] < f[x]}
             same == {y \in DOMAIN f : f[y] <= f[x]}
             equal == {y \in DOMAIN f : f[y] = f[x]}
  <1>1. same = less \cup equal /\ less \cap equal = {}
    OBVIOUS
  <1>2. IsFiniteSet(less) /\ IsFiniteSet(equal) /\ IsFiniteSet(same)
    BY FS_Subset
  <1>3. Rank2(f, x) = 2 * Cardinality(less) + Cardinality(equal) - 1
    BY DEF Rank2
  <1> HIDE DEF less, same, equal
  <1>4. Cardinality(less \cup equal) = Cardinality(less) + Cardinality(equal) - Cardinality(less \cap equal)
    BY <1>2, FS_Union
  <1>5. Cardinality(less) \in Nat /\ Cardinality(equal) \in Nat /\ Cardinality(same) \in Nat
    BY <1>2, FS_CardinalityType
  <1>6. Cardinality(same) = Cardinality(less) + Cardinality(equal)
    BY <1>1, <1>4, <1>5, FS_EmptySet
  <1>7. /\ Cardinality(less) \in Nat /\ Cardinality(same) \in Nat
        /\ Rank2(f, x) = Cardinality(less) + Cardinality(same) - 1
        /\ Rank2(f, x) \in Int
    BY <1>3, <1>5, <1>6
  <1>8. QED
    BY <1>7 DEF less, same

LEMMA CentredIsInt ==
  ASSUME NEW f, IsFiniteSet(DOMAIN f), \A x \in DOMAIN f : f[x] \in Int, NEW x \in DOMAIN f
  PROVE  Centred(f, x) \in Int
  <1>1. Cardinality(DOMAIN f) \in Nat
    BY FS_CardinalityType
  <1>2. Rank2(f, x) \in Int
    BY Rank2Is
  <1>3. QED
    BY <1>1, <1>2 DEF Centred

LEMMA CentredFollows ==
  ASSUME NEW f, IsFiniteSet(DOMAIN f), \A x \in DOMAIN f : f[x] \in Int,
         NEW x \in DOMAIN f, NEW y \in DOMAIN f, f[x] <= f[y]
  PROVE  Centred(f, x) <= Centred(f, y)
  <1> DEFINE X1 == {z \in DOMAIN f : f[z] < f[x]}
             X2 == {z \in DOMAIN f : f[z] <= f[x]}
             Y1 == {z \in DOMAIN f : f[z] < f[y]}
             Y2 == {z \in DOMAIN f : f[z] <= f[y]}
  <1>1. X1 \subseteq Y1 /\ X2 \subseteq Y2
    <2>1. ASSUME NEW z \in DOMAIN f PROVE (f[z] < f[x] => f[z] < f[y]) /\ (f[z] <= f[x] => f[z] <= f[y])
      <3>1. f[z] \in Int /\ f[x] \in Int /\ f[y] \in Int
        OBVIOUS
      <3>2. QED
        BY <3>1
    <2>2. QED
      BY <2>1
  <1>2. IsFiniteSet(Y1) /\ IsFiniteSet(Y2)
    BY FS_Subset
  <1>3. /\ Rank2(f, x) = Cardinality(X1) + Cardinality(X2) - 1
        /\ Cardinality(X1) \in Nat /\ Cardinality(X2) \in Nat
    BY Rank2Is
  <1>4. /\ Rank2(f, y) = Cardinality(Y1) + Cardinality(Y2) - 1
        /\ Cardinality(Y1) \in Nat /\ Cardinality(Y2) \in Nat
    BY Rank2Is
  <1> HIDE DEF X1, X2, Y1, Y2
  <1>5. Cardinality(X1) <= Cardinality(Y1) /\ Cardinality(X2) <= Cardinality(Y2)
    BY <1>1, <1>2, FS_Subset
  <1>6. Cardinality(DOMAIN f) \in Nat
    BY FS_CardinalityType
  <1>7. QED
    BY <1>3, <1>4, <1>5, <1>6 DEF Centred

(* The sum of the squares of n centred ranks is a third of n^3 - n. *)
LEMMA RankSum ==
  ASSUME NEW S, IsFiniteSet(S), S \subseteq Int, NEW a \in [S -> Int],
         \A x \in S : a[x] = 2 * Rank(S, x) - (Cardinality(S) - 1),
         NEW F, IsSum(F, [x \in S |-> a[x] * a[x]], S), S # {}
  PROVE  LET m == Cardinality(S) - 1 IN 3 * F[S] = (m + 1) * m * (m + 2)
  <1> DEFINE m == Cardinality(S) - 1
             First(k) == {x \in S : Rank(S, x) < k}
             Holds(k) == 3 * F[First(k)] = 2 * k * (k - 1) * (2 * k - 1) - 6 * m * k * (k - 1)
                                           + 3 * k * m * m
             B == {k \in Nat : k <= Cardinality(S) /\ ~Holds(k)}
  <1>1. Cardinality(S) \in Nat /\ m \in Nat
    BY FS_CardinalityType, FS_EmptySet
  <1>2. \A x \in S : Rank(S, x) \in Nat /\ Rank(S, x) <= m
    <2>1. ASSUME NEW x \in S PROVE Rank(S, x) \in Nat /\ Rank(S, x) < Cardinality(S)
      BY RankIs
    <2>2. QED
      BY <1>1, <2>1
  <1>3. ASSUME B # {} PROVE FALSE
    <2>1. B \subseteq Nat
      OBVIOUS
    <2>2. PICK k \in B : \A j \in B : k <= j
      <3> HIDE DEF B
      <3>1. QED
        BY <1>3, <2>1, LeastNumber
    <2>3. k \in Nat /\ k <= Cardinality(S) /\ ~Holds(k)
      OBVIOUS
    <2>4. CASE k = 0
      <3>1. First(0) = {}
        <4>1. ASSUME NEW x \in S PROVE ~(Rank(S, x) < 0)
          BY <1>2
        <4>2. QED
          BY <4>1
      <3>2. F[First(0)] = 0
        BY <3>1 DEF IsSum
      <3> HIDE DEF First, m
      <3>3. Holds(0)
        BY <1>1, <3>2
      <3>4. QED
        BY <2>3, <2>4, <3>3
    <2>5. CASE k > 0
      <3> DEFINE j == k - 1
      <3>1. j \in Nat /\ j < Cardinality(S) /\ j \notin B /\ k = j + 1
        <4>1. j \in Nat /\ j < Cardinality(S) /\ ~(k <= j) /\ k = j + 1
          BY <1>1, <2>3, <2>5
        <4> HIDE DEF B
        <4>2. QED
          BY <2>2, <4>1
      <3>2. Holds(j)
        <4> HIDE DEF Holds
        <4>1. QED
          BY <1>1, <3>1
      <3>3. PICK x \in S : Rank(S, x) = j
        BY <3>1, RankIsOnto
      <3>4. First(k) \ {x} = First(j) /\ x \in First(k)
        <4>1. ASSUME NEW y \in S PROVE Rank(S, y) = j => y = x
          <5>1. x < y \/ y < x \/ x = y
            OBVIOUS
          <5>2. Rank(S, x) \in Nat /\ Rank(S, y) \in Nat
            BY <1>2
          <5>3. x < y => Rank(S, x) < Rank(S, y)
            BY RankGrows
          <5>4. y < x => Rank(S, y) < Rank(S, x)
            BY RankGrows
          <5>5. QED
            BY <3>3, <5>1, <5>2, <5>3, <5>4
        <4>2. ASSUME NEW y \in S PROVE (Rank(S, y) < k /\ y # x) <=> Rank(S, y) < j
          <5>1. Rank(S, y) \in Nat
            BY <1>2
          <5>2. QED
            BY <3>1, <3>3, <4>1, <5>1
        <4>3. Rank(S, x) < k
          BY <3>1, <3>3
        <4>4. QED
          BY <4>2, <4>3
      <3>5. First(k) \in SUBSET S /\ First(j) \in SUBSET S
        OBVIOUS
      <3> HIDE DEF First
      <3>6. F[First(k)] = a[x] * a[x] + F[First(j)] /\ F[First(j)] \in Int
        BY <3>4, <3>5 DEF IsSum
      <3>7. a[x] = 2 * j - m
        BY <3>3
      <3> HIDE DEF m, j
      <3>8. 3 * F[First(k)] = 3 * (2 * j - m) * (2 * j - m) + 3 * F[First(j)]
        BY <1>1, <3>1, <3>6, <3>7
      <3>9. 3 * (2 * j - m) * (2 * j - m)
            + (2 * j * (j - 1) * (2 * j - 1) - 6 * m * j * (j - 1) + 3 * j * m * m)
            = 2 * (j + 1) * j * (2 * j + 1) - 6 * m * (j + 1) * j + 3 * (j + 1) * m * m
        BY <1>1, <3>1
      <3>10. Holds(k)
        BY <1>1, <3>1, <3>2, <3>8, <3>9
      <3>11. QED
        BY <2>3, <3>10
    <2>6. QED
      BY <2>3, <2>4, <2>5
  <1>4. Holds(m + 1)
    <2>1. m + 1 \in Nat /\ m + 1 <= Cardinality(S) /\ m + 1 \notin B
      <3> HIDE DEF B
      <3>1. QED
        BY <1>1, <1>3
    <2> HIDE DEF Holds
    <2>2. QED
      BY <2>1
  <1>5. First(m + 1) = S
    <2>1. ASSUME NEW x \in S PROVE Rank(S, x) < m + 1
      BY <1>1, <1>2
    <2>2. QED
      BY <2>1
  <1> HIDE DEF m, First
  <1>6. 3 * F[S] = 2 * (m + 1) * m * (2 * m + 1) - 6 * m * (m + 1) * m + 3 * (m + 1) * m * m
    BY <1>1, <1>4, <1>5
  <1>7. 3 * F[S] = (m + 1) * m * (m + 2)
    BY <1>1, <1>6
  <1>8. QED
    BY <1>7 DEF m

-----------------------------------------------------------------------------
(* Order statistics *)

IsIntFunction(f) == IsFiniteSet(DOMAIN f) /\ \A x \in DOMAIN f : f[x] \in Int

(* Kth exists, and so the median is among the values or between two. *)
LEMMA KthIs ==
  ASSUME NEW f, IsIntFunction(f), NEW k \in Nat, 1 <= k, k <= Cardinality(DOMAIN f)
  PROVE  /\ Kth(f, k) \in Int
         /\ k <= Cardinality({x \in DOMAIN f : f[x] <= Kth(f, k)})
  <1> DEFINE D == DOMAIN f
             V == {f[x] : x \in D}
             Below(v) == {x \in D : f[x] < v}
             UpTo(v) == {x \in D : f[x] <= v}
             T == {v \in V : k <= Cardinality(UpTo(v))}
  <1>1. IsFiniteSet(D) /\ Cardinality(D) \in Nat /\ D # {}
    BY FS_CardinalityType, FS_EmptySet DEF IsIntFunction
  <1>2. V \subseteq Int /\ V # {}
    BY <1>1 DEF IsIntFunction
  <1>3. IsFiniteSet(V)
    <2> DEFINE h == [x \in D |-> f[x]]
    <2>1. h \in Surjection(D, V)
      BY DEF Surjection
    <2> HIDE DEF h, V
    <2>2. QED
      BY <1>1, <2>1, FS_Surjection
  <1>4. \A v : IsFiniteSet(Below(v)) /\ Cardinality(Below(v)) \in Nat /\ Cardinality(UpTo(v)) \in Nat
    <2>1. ASSUME NEW v PROVE IsFiniteSet(Below(v)) /\ IsFiniteSet(UpTo(v))
      BY <1>1, FS_Subset
    <2> HIDE DEF Below, UpTo
    <2>2. QED
      BY <2>1, FS_CardinalityType
  <1>5. PICK top \in V : \A u \in V : u <= top
    <2> HIDE DEF V
    <2>1. QED
      BY <1>2, <1>3, Greatest
  <1>6. UpTo(top) = D
    BY <1>5
  <1>7. top \in T
    BY <1>5, <1>6
  <1>8. PICK v \in T : \A u \in T : v <= u
    <2>1. T \subseteq V
      OBVIOUS
    <2> HIDE DEF T, V
    <2>2. T \subseteq Int /\ IsFiniteSet(T)
      BY <1>2, <1>3, <2>1, FS_Subset
    <2>3. QED
      BY <1>7, <2>2, Least
  <1>9. v \in V /\ v \in Int /\ k <= Cardinality(UpTo(v))
    <2>1. v \in V /\ k <= Cardinality(UpTo(v))
      BY <1>8
    <2>2. QED
      BY <1>2, <2>1
  <1>10. ASSUME k <= Cardinality(Below(v)) PROVE FALSE
    <2> DEFINE W == {u \in V : u < v}
    <2>1. PICK x \in D : f[x] < v
      <3>1. Below(v) # {}
        <4> HIDE DEF Below
        <4>1. QED
          BY <1>4, <1>10, FS_EmptySet
      <3>2. QED
        BY <3>1
    <2>2. W # {} /\ W \subseteq V
      BY <2>1
    <2>3. PICK u \in W : \A w \in W : w <= u
      <3> HIDE DEF W, V
      <3>1. W \subseteq Int /\ IsFiniteSet(W)
        BY <1>2, <1>3, <2>2, FS_Subset
      <3>2. QED
        BY <2>2, <3>1, Greatest
    <2>4. UpTo(u) = Below(v)
      <3>1. ASSUME NEW y \in D PROVE f[y] <= u <=> f[y] < v
        <4>1. f[y] \in Int /\ u \in Int /\ u < v
          BY <1>2, <2>3
        <4>2. f[y] < v => f[y] \in W
          OBVIOUS
        <4>3. f[y] < v => f[y] <= u
          BY <2>3, <4>2
        <4> HIDE DEF W, V
        <4>4. QED
          BY <1>9, <4>1, <4>3
      <3>2. QED
        BY <3>1
    <2>5. u \in T
      <3>1. u \in V
        BY <2>3
      <3> HIDE DEF V, UpTo, Below, W
      <3>2. QED
        BY <1>10, <2>4, <3>1
    <2>6. u \in Int /\ u < v
      BY <1>2, <2>3
    <2> HIDE DEF T, W, V
    <2>7. QED
      BY <1>8, <1>9, <2>5, <2>6
  <1>11. Cardinality(Below(v)) < k
    <2> HIDE DEF Below
    <2>1. QED
      BY <1>4, <1>10
  <1>12. /\ Kth(f, k) \in V
         /\ k <= Cardinality(UpTo(Kth(f, k)))
    <2>1. \E w \in V : Cardinality(Below(w)) < k /\ k <= Cardinality(UpTo(w))
      <3> HIDE DEF V, Below, UpTo
      <3>1. QED
        BY <1>9, <1>11
    <2>2. Kth(f, k) = CHOOSE w \in V : Cardinality(Below(w)) < k /\ k <= Cardinality(UpTo(w))
      BY DEF Kth
    <2> HIDE DEF V, Below, UpTo
    <2>3. QED
      BY <2>1, <2>2
  <1>13. QED
    BY <1>2, <1>12

LEMMA Median2Is ==
  ASSUME NEW f, IsIntFunction(f), DOMAIN f # {}
  PROVE  Median2(f) \in Int
  <1> DEFINE n == Cardinality(DOMAIN f)
  <1>1. n \in Nat /\ n >= 1
    BY FS_CardinalityType, FS_EmptySet DEF IsIntFunction
  <1>2. CASE n % 2 = 1
    <2>1. (n + 1) \div 2 \in Nat /\ 1 <= (n + 1) \div 2 /\ (n + 1) \div 2 <= n
      <3> HIDE DEF n
      <3>1. QED
        BY <1>1
    <2>2. Kth(f, (n + 1) \div 2) \in Int
      BY <2>1, KthIs
    <2>3. QED
      BY <1>2, <2>2 DEF Median2
  <1>3. CASE n % 2 # 1
    <2>1. /\ n \div 2 \in Nat /\ 1 <= n \div 2 /\ n \div 2 <= n
          /\ n \div 2 + 1 \in Nat /\ 1 <= n \div 2 + 1 /\ n \div 2 + 1 <= n
      <3> HIDE DEF n
      <3>1. QED
        BY <1>1, <1>3
    <2>2. Kth(f, n \div 2) \in Int /\ Kth(f, n \div 2 + 1) \in Int
      BY <2>1, KthIs
    <2>3. QED
      BY <1>3, <2>2 DEF Median2
  <1>4. QED
    BY <1>2, <1>3

LEMMA Mad4Is ==
  ASSUME NEW f, IsIntFunction(f), DOMAIN f # {}
  PROVE  Mad4(f) \in Int
  <1> DEFINE m == Median2(f)
             g == [x \in DOMAIN f |-> IF 2 * f[x] < m THEN m - 2 * f[x] ELSE 2 * f[x] - m]
  <1>1. m \in Int
    BY Median2Is
  <1>2. \A x \in DOMAIN f : g[x] \in Int
    <2> HIDE DEF m
    <2>1. QED
      BY <1>1 DEF IsIntFunction
  <1>3. IsIntFunction(g) /\ DOMAIN g # {}
    BY <1>2 DEF IsIntFunction
  <1> HIDE DEF g
  <1>4. Median2(g) \in Int
    BY <1>3, Median2Is
  <1>5. QED
    BY <1>4 DEF Mad4, g

(* If four of five values are above a threshold, the median is.  The       *)
(* values are compared fourfold, as captured readings are.                 *)
LEMMA KthExceeds ==
  ASSUME NEW f, IsIntFunction(f), NEW t \in Int, NEW k \in Nat, 1 <= k, k <= Cardinality(DOMAIN f),
         5 * Cardinality({x \in DOMAIN f : 4 * f[x] > t}) >= 4 * Cardinality(DOMAIN f),
         5 * k > Cardinality(DOMAIN f)
  PROVE  Kth(f, k) \in Int /\ 4 * Kth(f, k) > t
  <1> DEFINE v == Kth(f, k)
             D == DOMAIN f
             captured == {x \in D : 4 * f[x] > t}
             upto == {x \in D : f[x] <= v}
  <1>1. v \in Int /\ k <= Cardinality(upto)
    BY KthIs
  <1>2. ASSUME 4 * v <= t PROVE FALSE
    <2>1. captured \cap upto = {} /\ captured \cup upto \subseteq D
      <3>1. ASSUME NEW x \in D, 4 * f[x] > t, f[x] <= v PROVE FALSE
        <4>1. f[x] \in Int
          BY DEF IsIntFunction
        <4> HIDE DEF v
        <4>2. QED
          BY <1>1, <1>2, <3>1, <4>1
      <3>2. QED
        BY <3>1
    <2>2. IsFiniteSet(captured) /\ IsFiniteSet(upto) /\ IsFiniteSet(D)
      BY FS_Subset DEF IsIntFunction
    <2> HIDE DEF v, D, captured, upto
    <2>3. /\ Cardinality(captured \cup upto)
             = Cardinality(captured) + Cardinality(upto) - Cardinality(captured \cap upto)
          /\ IsFiniteSet(captured \cup upto)
      BY <2>2, FS_Union
    <2>4. Cardinality(captured \cup upto) <= Cardinality(D)
      BY <2>1, <2>2, FS_Subset
    <2>5. Cardinality(captured) \in Nat /\ Cardinality(upto) \in Nat /\ Cardinality(D) \in Nat
      BY <2>2, FS_CardinalityType
    <2>6. Cardinality(captured) + Cardinality(upto) <= Cardinality(D)
      <3>1. Cardinality(captured \cap upto) = 0
        BY <2>1, FS_EmptySet
      <3>2. QED
        BY <2>3, <2>4, <2>5, <3>1
    <2>7. 5 * Cardinality(captured) >= 4 * Cardinality(D) /\ 5 * k > Cardinality(D)
      BY DEF captured, D
    <2>8. QED
      BY <1>1, <2>5, <2>6, <2>7
  <1> HIDE DEF v
  <1>3. QED
    BY <1>1, <1>2 DEF v

LEMMA MedianExceeds ==
  ASSUME NEW f, IsIntFunction(f), DOMAIN f # {}, NEW t \in Int,
         5 * Cardinality({x \in DOMAIN f : 4 * f[x] > t}) >= 4 * Cardinality(DOMAIN f)
  PROVE  2 * Median2(f) > t
  <1> DEFINE n == Cardinality(DOMAIN f)
  <1>1. n \in Nat /\ n >= 1
    BY FS_CardinalityType, FS_EmptySet DEF IsIntFunction
  <1>2. CASE n % 2 = 1
    <2> DEFINE k == (n + 1) \div 2
    <2>1. k \in Nat /\ 1 <= k /\ k <= n /\ 5 * k > n
      <3> HIDE DEF n
      <3>1. QED
        BY <1>1
    <2> HIDE DEF k
    <2>2. Kth(f, k) \in Int /\ 4 * Kth(f, k) > t
      BY <2>1, KthExceeds
    <2>3. Median2(f) = 2 * Kth(f, k)
      BY <1>2 DEF Median2, k
    <2>4. QED
      BY <2>2, <2>3
  <1>3. CASE n % 2 # 1
    <2> DEFINE i == n \div 2
               j == n \div 2 + 1
    <2>1. /\ i \in Nat /\ 1 <= i /\ i <= n /\ 5 * i > n
          /\ j \in Nat /\ 1 <= j /\ j <= n /\ 5 * j > n
      <3> HIDE DEF n
      <3>1. QED
        BY <1>1, <1>3
    <2> HIDE DEF i, j
    <2>2. Kth(f, i) \in Int /\ 4 * Kth(f, i) > t /\ Kth(f, j) \in Int /\ 4 * Kth(f, j) > t
      BY <2>1, KthExceeds
    <2>3. Median2(f) = Kth(f, i) + Kth(f, j)
      BY <1>3 DEF Median2, i, j
    <2>4. QED
      BY <2>2, <2>3
  <1>4. QED
    BY <1>2, <1>3

(* A response that does not rise from the least to the greatest of at most *)
(* nine payloads has no rank correlation of 0.7 with them.                 *)
LEMMA MonotoneRises ==
  ASSUME NEW S, IsFiniteSet(S), S \subseteq Int, Cardinality(S) <= 9, NEW g \in [S -> Int],
         Correlation([x \in S |-> x], g).square > 0,
         Correlation([x \in S |-> x], g).num >= 0,
         100 * Correlation([x \in S |-> x], g).num * Correlation([x \in S |-> x], g).num
           >= 49 * Correlation([x \in S |-> x], g).square,
         NEW p \in S, NEW q \in S, p # q, \A x \in S : p <= x /\ x <= q
  PROVE  g[p] < g[q]
  <1> DEFINE f == [x \in S |-> x]
             a == [x \in S |-> Centred(f, x)]
             c == [x \in S |-> Centred(g, x)]
             N == Cardinality(S)
             m == N - 1
             mid == (S \ {q}) \ {p}
  <1>1. a \in [S -> Int]
    <2>1. DOMAIN f = S /\ \A x \in S : f[x] \in Int
      OBVIOUS
    <2> HIDE DEF f
    <2>2. \A x \in S : Centred(f, x) \in Int
      BY <2>1, CentredIsInt
    <2>3. QED
      BY <2>2
  <1>2. c \in [S -> Int]
    <2>1. DOMAIN g = S /\ \A x \in S : g[x] \in Int
      OBVIOUS
    <2>2. \A x \in S : Centred(g, x) \in Int
      BY <2>1, CentredIsInt
    <2>3. QED
      BY <2>2
  <1>3. N \in Nat /\ m \in Nat /\ m >= 1
    <2>1. IsFiniteSet(S \ {p}) /\ Cardinality(S \ {p}) = N - 1 /\ N \in Nat
      BY FS_RemoveElement, FS_CardinalityType
    <2>2. S \ {p} # {}
      OBVIOUS
    <2>3. N - 1 \in Nat /\ N - 1 # 0
      BY <2>1, <2>2, FS_EmptySet, FS_CardinalityType
    <2> HIDE DEF N
    <2>4. QED
      BY <2>1, <2>3
  <1>4. a[p] = -m
    <2>1. {y \in S : y < p} = {}
      <3>1. ASSUME NEW y \in S PROVE ~(y < p)
        <4>1. y \in Int /\ p \in Int /\ p <= y
          OBVIOUS
        <4>2. QED
          BY <4>1
      <3>2. QED
        BY <3>1
    <2>2. Rank(S, p) = 0
      BY <2>1, FS_EmptySet DEF Rank
    <2>3. Centred(f, p) = 2 * Rank(S, p) - (N - 1)
      BY CentredPayloads
    <2> HIDE DEF f, N
    <2>4. QED
      BY <1>3, <2>2, <2>3
  <1>5. a[q] = m
    <2>1. {y \in S : y < q} = S \ {q}
      <3>1. ASSUME NEW y \in S PROVE y < q <=> y # q
        <4>1. y \in Int /\ q \in Int /\ y <= q
          OBVIOUS
        <4>2. QED
          BY <4>1
      <3>2. QED
        BY <3>1
    <2>2. Rank(S, q) = N - 1
      BY <2>1, FS_RemoveElement DEF Rank
    <2>3. Centred(f, q) = 2 * Rank(S, q) - (N - 1)
      BY CentredPayloads
    <2> HIDE DEF f, N
    <2>4. QED
      BY <1>3, <2>2, <2>3
  <1> DEFINE aa == Products(f, f, S)
             ac == Products(f, g, S)
             cc == Products(g, g, S)
  <1>6. /\ aa = [x \in S |-> a[x] * a[x]]
        /\ ac = [x \in S |-> a[x] * c[x]]
        /\ cc = [x \in S |-> c[x] * c[x]]
        /\ aa \in [S -> Int] /\ ac \in [S -> Int] /\ cc \in [S -> Int]
    <2>1. \A x \in S : a[x] = Centred(f, x) /\ c[x] = Centred(g, x)
      OBVIOUS
    <2> HIDE DEF f, a, c
    <2>2. /\ \A x \in S : aa[x] = a[x] * a[x] /\ aa[x] \in Int
          /\ \A x \in S : ac[x] = a[x] * c[x] /\ ac[x] \in Int
          /\ \A x \in S : cc[x] = c[x] * c[x] /\ cc[x] \in Int
      BY <1>1, <1>2, <2>1 DEF Products
    <2>3. /\ aa = [x \in S |-> aa[x]] /\ ac = [x \in S |-> ac[x]] /\ cc = [x \in S |-> cc[x]]
      BY DEF Products
    <2> HIDE DEF aa, ac, cc
    <2>4. QED
      BY <2>2, <2>3
  <1>7. PICK P : IsSum(P, aa, S)
    <2> HIDE DEF aa
    <2>1. QED
      BY <1>6, SumExists
  <1>8. PICK Q : IsSum(Q, ac, S)
    <2> HIDE DEF ac
    <2>1. QED
      BY <1>6, SumExists
  <1>9. PICK R : IsSum(R, cc, S)
    <2> HIDE DEF cc
    <2>1. QED
      BY <1>6, SumExists
  <1>10. Total(f, f, S) = P[S] /\ Total(f, g, S) = Q[S] /\ Total(g, g, S) = R[S]
    <2> HIDE DEF f
    <2>1. QED
      BY <1>7, <1>8, <1>9, TotalIs
  <1>11. /\ Correlation(f, g).num = Q[S]
         /\ Correlation(f, g).square = P[S] * R[S]
    <2>1. DOMAIN f = S
      OBVIOUS
    <2> HIDE DEF f
    <2>2. QED
      BY <1>10, <2>1, CorrelationIs
  <1>12. /\ P[S] * R[S] > 0 /\ Q[S] >= 0
         /\ 100 * Q[S] * Q[S] >= 49 * (P[S] * R[S])
    BY <1>11
  <1> HIDE DEF f
  <1>13. /\ S \in SUBSET S /\ S \ {q} \in SUBSET S /\ mid \in SUBSET S
         /\ p \in S \ {q}
    OBVIOUS
  <1> HIDE DEF N, m, mid
  <1>14. P[mid] \in Int /\ Q[mid] \in Int /\ R[mid] \in Int
    BY <1>7, <1>8, <1>9, <1>13 DEF IsSum
  <1>15. P[S] = 2 * m * m + P[mid]
    <2>1. P[S] = aa[q] + P[S \ {q}] /\ P[S \ {q}] = aa[p] + P[mid]
      BY <1>7, <1>13 DEF IsSum, mid
    <2>2. aa[q] = m * m /\ aa[p] = (-m) * (-m)
      <3> HIDE DEF a, aa, ac, cc
      <3>1. aa[q] = a[q] * a[q] /\ aa[p] = a[p] * a[p]
        BY <1>6
      <3>2. QED
        BY <1>4, <1>5, <3>1
    <2>3. (-m) * (-m) = m * m /\ m * m \in Int /\ 2 * m * m = m * m + m * m
      BY <1>3
    <2> HIDE DEF a, c, aa, ac, cc
    <2> DEFINE k == m * m
    <2>4. k \in Int /\ aa[q] = k /\ aa[p] = k /\ 2 * m * m = k + k
      BY <2>2, <2>3
    <2> HIDE DEF k
    <2>5. QED
      BY <1>14, <2>1, <2>4
  <1>16. Q[S] = m * (c[q] - c[p]) + Q[mid]
    <2>1. Q[S] = ac[q] + Q[S \ {q}] /\ Q[S \ {q}] = ac[p] + Q[mid]
      BY <1>8, <1>13 DEF IsSum, mid
    <2>2. ac[q] = m * c[q] /\ ac[p] = (-m) * c[p] /\ c[q] \in Int /\ c[p] \in Int
      <3> HIDE DEF a, c, aa, ac, cc
      <3>1. ac[q] = a[q] * c[q] /\ ac[p] = a[p] * c[p]
        BY <1>6
      <3>2. QED
        BY <1>2, <1>4, <1>5, <3>1
    <2> HIDE DEF a, c, aa, ac, cc
    <2>3. m * c[q] \in Int /\ m * c[p] \in Int /\ (-m) * c[p] = -(m * c[p])
      BY <1>3, <2>2
    <2>4. m * (c[q] - c[p]) = m * c[q] - m * c[p]
      BY <1>3, <2>2
    <2> DEFINE i == m * c[q]
               j == m * c[p]
    <2>5. i \in Int /\ j \in Int /\ ac[q] = i /\ ac[p] = -j /\ m * (c[q] - c[p]) = i - j
      BY <2>2, <2>3, <2>4
    <2> HIDE DEF i, j
    <2>6. QED
      BY <1>14, <2>1, <2>5
  <1>17. R[mid] <= R[S] /\ R[S] \in Int
    <2>1. R[S] = cc[q] + R[S \ {q}] /\ R[S \ {q}] = cc[p] + R[mid]
      BY <1>9, <1>13 DEF IsSum, mid
    <2>2. cc[q] = c[q] * c[q] /\ cc[p] = c[p] * c[p] /\ c[q] \in Int /\ c[p] \in Int
      <3> HIDE DEF c, aa, ac, cc
      <3>1. QED
        BY <1>2, <1>6
    <2> HIDE DEF a, c, aa, ac, cc
    <2>3. \A z \in Int : z * z \in Int /\ 0 <= z * z
      OBVIOUS
    <2>4. cc[q] \in Int /\ 0 <= cc[q] /\ cc[p] \in Int /\ 0 <= cc[p]
      BY <2>2, <2>3
    <2>5. QED
      BY <1>14, <2>1, <2>4
  <1>18. 3 * P[S] = (m + 1) * m * (m + 2)
    <2>1. \A x \in S : a[x] = 2 * Rank(S, x) - (Cardinality(S) - 1)
      BY CentredPayloads DEF f
    <2>2. IsSum(P, [x \in S |-> a[x] * a[x]], S)
      <3> HIDE DEF a, aa, ac, cc
      <3>1. QED
        BY <1>6, <1>7
    <2>3. S # {}
      OBVIOUS
    <2> HIDE DEF a
    <2>4. 3 * P[S] = (Cardinality(S) - 1 + 1) * (Cardinality(S) - 1) * (Cardinality(S) - 1 + 2)
      BY <1>1, <2>1, <2>2, <2>3, RankSum
    <2>5. QED
      BY <2>4 DEF m, N
  <1>19. ASSUME g[q] <= g[p] PROVE FALSE
    <2>1. c[q] <= c[p]
      <3>1. DOMAIN g = S /\ \A x \in S : g[x] \in Int
        OBVIOUS
      <3>2. Centred(g, q) <= Centred(g, p)
        BY <1>19, <3>1, CentredFollows
      <3>3. QED
        BY <3>2
    <2>2. \A u, v \in Int : 0 <= u * u * P[mid] - 2 * u * v * Q[mid] + v * v * R[mid]
      <3> HIDE DEF a, c
      <3>1. QED
        <4>1. TAKE u, v \in Int
        <4>2. a \in [S -> Int] /\ c \in [S -> Int]
          BY <1>1, <1>2
        <4>3. IsSum(P, [x \in S |-> a[x] * a[x]], S)
          BY <1>6, <1>7
        <4>4. IsSum(Q, [x \in S |-> a[x] * c[x]], S)
          BY <1>6, <1>8
        <4>5. IsSum(R, [x \in S |-> c[x] * c[x]], S)
          BY <1>6, <1>9
        <4>6. mid \in SUBSET S
          BY <1>13
        <4>7. QED
          BY <4>2, <4>3, <4>4, <4>5, <4>6, SquaresAreNotNegative
    <2> HIDE DEF aa, ac, cc
    <2>3. c[q] \in Int /\ c[p] \in Int
      BY <1>2
    <2> HIDE DEF a, c
    <2>4. Q[S] <= Q[mid] /\ Q[S] \in Int
      <3> DEFINE d == c[p] - c[q]
      <3>1. d \in Int /\ d >= 0 /\ c[q] - c[p] = -d
        BY <2>1, <2>3
      <3> HIDE DEF d
      <3>2. m * d \in Int /\ m * d >= 0
        BY <1>3, <3>1
      <3>3. Q[S] = m * (-d) + Q[mid]
        BY <1>16, <3>1
      <3>4. m * (-d) = -(m * d)
        BY <1>3, <3>1
      <3>5. QED
        BY <1>14, <3>2, <3>3, <3>4
    <2>5. 0 <= P[mid] /\ 0 <= R[mid] /\ Q[mid] * Q[mid] <= P[mid] * R[mid]
      <3>1. 0 <= Q[mid]
        BY <1>12, <1>14, <2>4
      <3>2. QED
        BY <1>14, <2>2, <3>1, CauchySchwarz
    <2>6. m \in 1 .. 8 /\ P[S] \in Int
      BY <1>3, <1>14, <1>15 DEF m, N
    <2>7. 100 * Q[S] * Q[S] < 49 * (P[S] * R[S])
      <3>1. 0 <= Q[S] /\ P[S] * R[S] > 0
        BY <1>12, <2>4
      <3>2. /\ m \in 1 .. 8 /\ P[mid] \in Int /\ Q[mid] \in Int /\ R[mid] \in Int
            /\ P[S] \in Int /\ R[S] \in Int /\ Q[S] \in Int
        BY <1>14, <1>17, <2>4, <2>6
      <3> DEFINE sxx == P[S]
                 syy == R[S]
                 num == Q[S]
                 pp == P[mid]
                 qq == Q[mid]
                 rr == R[mid]
      <3>3. /\ m \in 1 .. 8 /\ pp \in Int /\ qq \in Int /\ rr \in Int
            /\ sxx \in Int /\ syy \in Int /\ num \in Int
        BY <3>2
      <3>4. /\ 3 * sxx = (m + 1) * m * (m + 2)
            /\ sxx = 2 * m * m + pp
            /\ 0 <= num /\ num <= qq /\ 0 <= pp /\ qq * qq <= pp * rr /\ 0 <= rr /\ rr <= syy
            /\ sxx * syy > 0
        BY <3>1, <1>15, <1>17, <1>18, <2>4, <2>5
      <3> HIDE DEF sxx, syy, num, pp, qq, rr
      <3>5. 100 * num * num < 49 * (sxx * syy)
        BY <3>3, <3>4, OutermostCount, Zenon
      <3>6. QED
        BY <3>5 DEF sxx, syy, num
    <2> DEFINE x == 100 * Q[S] * Q[S]
               y == 49 * (P[S] * R[S])
    <2>8. x \in Int /\ y \in Int /\ x >= y /\ x < y
      BY <1>12, <1>17, <2>4, <2>6, <2>7
    <2> HIDE DEF x, y
    <2>9. QED
      BY <2>8
  <1>20. g[p] \in Int /\ g[q] \in Int
    OBVIOUS
  <1>21. QED
    BY <1>19, <1>20

(* The signals of a payload that was reliably observed, and of the idle    *)
(* runs of a complete sweep.                                               *)
LEMMA SignalsAre ==
  ASSUME NEW rows \in [Observations -> Row], NEW p \in Payloads \cup {Idle},
         UsableCount(rows, p) >= Repetitions
  PROVE  IsIntFunction(Signals(rows, p)) /\ DOMAIN Signals(rows, p) # {}
  <1> DEFINE D == {i \in Reps : HasSignal(rows[<<p, i>>])}
  <1>1. Signals(rows, p) = [r \in D |-> rows[<<p, r>>].signal]
    BY Zenon DEF Signals
  <1>2. \A r \in D : rows[<<p, r>>].signal \in Int
    <2>1. \A r \in D : <<p, r>> \in Observations
      BY DEF Observations
    <2>2. QED
      BY <2>1 DEF Row
  <1>3. IsFiniteSet(Reps) /\ D \subseteq Reps
    <2>1. 1 \in Int /\ Repetitions \in Int
      BY CalibrationAssumption
    <2>2. IsFiniteSet(1 .. Repetitions)
      BY <2>1, FS_Interval
    <2>3. QED
      BY <2>2 DEF Reps
  <1>4. IsFiniteSet(D)
    BY <1>3, FS_Subset
  <1>5. D # {}
    <2>1. Cardinality(D) >= Repetitions
      BY <1>1 DEF UsableCount
    <2> HIDE DEF D
    <2>2. QED
      BY <2>1, CalibrationAssumption, FS_EmptySet
  <1> HIDE DEF D
  <1>6. DOMAIN Signals(rows, p) = D /\ \A r \in D : Signals(rows, p)[r] = rows[<<p, r>>].signal
    BY <1>1
  <1>7. QED
    BY <1>2, <1>4, <1>5, <1>6 DEF IsIntFunction

LEMMA SupportedResponds ==
  ASSUME NEW rows \in [Observations -> Row], Status(rows) = "supported",
         Cardinality(Payloads) <= 9
  PROVE  /\ \A p \in Payloads : 2 * Response(rows)[p] > CaptureThreshold4(rows)
         /\ \A p, q \in Payloads :
              (\A x \in Payloads : p <= x /\ x <= q) =>
                p = q \/ Response(rows)[p] < Response(rows)[q]
  <1>1. ~HardFalsification(rows) /\ ~Reservations(rows)
    BY DEF Status
  <1>2. /\ IdleComplete(rows) /\ Monotone(rows)
        /\ UsablePayloads(rows) = Payloads /\ ReliablePayloads(rows) = Payloads
    BY <1>1 DEF HardFalsification, AggregateGateFailed, Reservations
  <1>3. \A p \in Payloads : ReliablyObserved(rows, p)
    BY <1>2 DEF ReliablePayloads
  <1> DEFINE t == CaptureThreshold4(rows)
             g == Response(rows)
  <1>4. t \in Int
    <2> DEFINE idle == Signals(rows, Idle)
    <2>1. IsIntFunction(idle) /\ DOMAIN idle # {}
      BY <1>2, SignalsAre DEF IdleComplete
    <2> HIDE DEF idle
    <2>2. Median2(idle) \in Int /\ Mad4(idle) \in Int /\ Floor \in Int
      BY <2>1, Median2Is, Mad4Is, CalibrationAssumption
    <2>3. t = 2 * Median2(idle) + (IF 3 * Mad4(idle) > 4 * Floor THEN 3 * Mad4(idle) ELSE 4 * Floor)
      BY DEF CaptureThreshold4, idle
    <2> HIDE DEF t
    <2>4. QED
      BY <2>2, <2>3
  <1>5. ASSUME NEW p \in Payloads
        PROVE  /\ Median2(Signals(rows, p)) \in Int
               /\ 2 * Median2(Signals(rows, p)) > t
    <2> DEFINE values == Signals(rows, p)
    <2>1. /\ UsableCount(rows, p) >= Repetitions
          /\ 5 * Cardinality({r \in DOMAIN values : 4 * values[r] > t}) >= 4 * UsableCount(rows, p)
      BY <1>3 DEF ReliablyObserved
    <2>2. IsIntFunction(values) /\ DOMAIN values # {} /\ UsableCount(rows, p) = Cardinality(DOMAIN values)
      BY <2>1, SignalsAre DEF UsableCount
    <2> HIDE DEF values, t
    <2>3. Median2(values) \in Int /\ 2 * Median2(values) > t
      BY <1>4, <2>1, <2>2, Median2Is, MedianExceeds
    <2>4. QED
      BY <2>3 DEF values
  <1>6. g = [p \in Payloads |-> Median2(Signals(rows, p))]
    BY <1>2 DEF Response
  <1>7. g \in [Payloads -> Int] /\ \A p \in Payloads : 2 * g[p] > t
    <2> HIDE DEF g, t
    <2>1. QED
      BY <1>5, <1>6
  <1>8. IsFiniteSet(Payloads) /\ Payloads \subseteq Int
    BY CalibrationAssumption
  <1>9. /\ Correlation([x \in Payloads |-> x], g).square > 0
        /\ Correlation([x \in Payloads |-> x], g).num >= 0
        /\ 100 * Correlation([x \in Payloads |-> x], g).num * Correlation([x \in Payloads |-> x], g).num
             >= 49 * Correlation([x \in Payloads |-> x], g).square
    <2>1. LET k == Correlation([x \in Payloads |-> x], g)
          IN  k.square > 0 /\ k.num >= 0 /\ 100 * k.num * k.num >= 49 * k.square
      BY <1>2, Zenon DEF Monotone
    <2>2. QED
      BY <2>1
  <1> HIDE DEF g, t
  <1>10. ASSUME NEW p \in Payloads, NEW q \in Payloads,
                \A x \in Payloads : p <= x /\ x <= q, p # q
         PROVE  g[p] < g[q]
    BY <1>7, <1>8, <1>9, <1>10, MonotoneRises
  <1>11. QED
    BY <1>7, <1>10 DEF g, t

(* What is analysed is one of the sweeps. *)
SweepInv == stage = "result" => sweep \in Sweeps

LEMMA OnlyMeasureSweepMeasures ==
  ASSUME Next, ~MeasureSweep
  PROVE  stage' # "result"
  <1>1. ASSUME NEW c \in Contexts, NEW prior, RunMatrix(c, prior) PROVE stage' # "result"
    BY <1>1 DEF RunMatrix
  <1>2. CASE Plan
    BY <1>2 DEF Plan, Refuse, Ends, Idling, Write, Goto, Goes, Cut, CutTorn, CutOff
  <1>3. CASE ReuseCalibration \/ StartSweep
    BY <1>3 DEF ReuseCalibration, StartSweep, Refuse, Ends, Idling, Write, Goto, Goes, Cut,
                CutTorn, CutOff
  <1>4. CASE SweepIsCutOff \/ SlotIsCutOff
    BY <1>4 DEF SweepIsCutOff, SlotIsCutOff, Ends, Idling, Cut, CutTorn, CutOff
  <1>5. CASE WriteResult \/ CompleteSweep
    BY <1>5 DEF WriteResult, CompleteSweep, Refuse, Ends, Idling, Write, Goto, Goes, Cut,
                CutTorn, CutOff
  <1>6. CASE Verify
    BY <1>6 DEF Verify, Refuse, Ends, Idling, Goto, Goes
  <1>7. CASE SkipSlot \/ FillSlot
    BY <1>7 DEF SkipSlot, FillSlot, NextSlot, Refuse, Ends, Idling
  <1>8. CASE WriteFinal \/ Extract \/ WriteSummary
    BY <1>8 DEF WriteFinal, Extract, WriteSummary, Refuse, Ends, Idling, Write, Goto, Goes, Cut,
                CutTorn, CutOff
  <1>9. CASE Export \/ HostLost
    BY <1>9 DEF Export, HostLost, Idling
  <1>10. QED
    BY <1>1, <1>2, <1>3, <1>4, <1>5, <1>6, <1>7, <1>8, <1>9 DEF Next

LEMMA SweepInvStep == SweepInv /\ [Next]_vars => SweepInv'
  <1> SUFFICES ASSUME SweepInv, [Next]_vars PROVE SweepInv'
    OBVIOUS
  <1>1. CASE UNCHANGED vars
    BY <1>1 DEF vars, work, SweepInv
  <1>2. CASE MeasureSweep
    BY <1>2 DEF MeasureSweep, SweepInv
  <1>3. CASE Next /\ ~MeasureSweep
    BY <1>3, OnlyMeasureSweepMeasures DEF SweepInv
  <1>4. QED
    BY <1>1, <1>2, <1>3

(* A supported sweep of at most nine payloads responds: every median is    *)
(* above the capture threshold, and the greatest payload's is above the    *)
(* least one's, for all repetitions, floors and signals.                   *)
THEOREM ResponseCorrect ==
  ASSUME Cardinality(Payloads) <= 9
  PROVE  Spec => []SupportedSweepResponds
  <1>1. Init => SweepInv
    BY DEF Init, SweepInv
  <1>2. SweepInv => SupportedSweepResponds
    BY SupportedResponds, MatrixAssumption DEF SweepInv, SupportedSweepResponds
  <1>3. QED
    BY <1>1, <1>2, SweepInvStep, PTL DEF Spec

=============================================================================
