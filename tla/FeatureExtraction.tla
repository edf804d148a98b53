-------------------------- MODULE FeatureExtraction --------------------------
(***************************************************************************)
(* From the telemetry of one planned run to its coverage record            *)
(* (features/extraction.py, features/coverage.py): which runs are included, *)
(* which windows they yield, and how the samples of the two GPUs are paired. *)
(* What is computed within a window is left out.                           *)
(*                                                                         *)
(* Times are whole numbers of a unit that divides the lengths and the      *)
(* instants below; the nanosecond the code adds to make an end exclusive   *)
(* then makes no difference.                                               *)
(***************************************************************************)
EXTENDS Integers, FiniteSets, FiniteSetsExt

CONSTANTS
  Windows,         \* the requested window lengths
  PrimaryWindow,   \* the one the primary evaluation uses
  Tolerance,       \* between two samples of a pair
  Warmup,          \* excluded when no measured interval is known
  NoInterval

ASSUME ExtractionAssumption ==
  /\ Windows \subseteq Nat \ {0} /\ IsFiniteSet(Windows)
  /\ PrimaryWindow \in Windows /\ PrimaryWindow >= 4    \* 30 s: a fine enough unit
  /\ Tolerance \in Nat /\ Warmup \in Nat

GPUs == {0, 1}

(* What is found of an accepted run: its manifest and its telemetry, as    *)
(* the times at which each GPU was sampled.                                *)
EvidenceOver(times) ==
  [manifest            : {"missing", "invalid", "valid"},
   own_corpus          : BOOLEAN,
   exit_status         : {"completed", "failed", "timeout"},
   participation_valid : BOOLEAN,
   as_planned          : BOOLEAN,                     \* family and label
   telemetry           : {"missing", "unsupported", "invalid", "valid"},
   samples             : [GPUs -> SUBSET times],
   measured            : (times \X times) \cup {NoInterval}]

-----------------------------------------------------------------------------
(* Pairing *)

Distance(x, y) == IF x < y THEN y - x ELSE x - y

(* Mutant: of two samples too far apart, the right one is passed over. *)
PairsPassingRight(left, right) ==
  LET from[at \in Nat \X Nat] ==
        LET ls == {x \in left : x >= at[1]}
            rs == {y \in right : y >= at[2]}
        IN  IF ls = {} \/ rs = {} THEN {}
            ELSE IF Distance(Min(ls), Min(rs)) <= Tolerance
                 THEN {<<Min(ls), Min(rs)>>} \cup from[<<Min(ls) + 1, Min(rs) + 1>>]
                 ELSE from[<<at[1], Min(rs) + 1>>]
  IN  from[<<0, 0>>]

(* The first samples not yet used are paired if they are near enough; else *)
(* the earlier one is passed over.                                         *)
AlignedPairs(left, right) ==
  LET from[at \in Nat \X Nat] ==
        LET ls == {x \in left : x >= at[1]}
            rs == {y \in right : y >= at[2]}
        IN  IF ls = {} \/ rs = {} THEN {}
            ELSE IF Distance(Min(ls), Min(rs)) <= Tolerance
                 THEN {<<Min(ls), Min(rs)>>} \cup from[<<Min(ls) + 1, Min(rs) + 1>>]
            ELSE IF Min(ls) < Min(rs) THEN from[<<Min(ls) + 1, at[2]>>]
            ELSE from[<<at[1], Min(rs) + 1>>]
  IN  from[<<0, 0>>]

-----------------------------------------------------------------------------
(* Intervals and windows *)

BothSampled(e) == \A g \in GPUs : e.samples[g] # {}

CommonStart(e) == Max({Min(e.samples[g]) : g \in GPUs})
CommonEnd(e)   == Min({Max(e.samples[g]) : g \in GPUs})

(* Mutant: the warmup is excluded once more from the measured interval. *)
UsableStartWarm(e) ==
  IF e.measured = NoInterval THEN CommonStart(e) + Warmup
  ELSE Max({CommonStart(e), e.measured[1] + Warmup})

UsableStart(e) ==
  IF e.measured = NoInterval THEN CommonStart(e) + Warmup
  ELSE Max({CommonStart(e), e.measured[1]})

UsableEnd(e) ==
  IF e.measured = NoInterval THEN CommonEnd(e) ELSE Min({CommonEnd(e), e.measured[2]})

UsableDuration(e) == Max({0, UsableEnd(e) - UsableStart(e)})

(* Half a window, rounded down to the unit. *)
Stride(w) == Max({1, w \div 2})

WindowStarts(e, w) ==
  {s \in UsableStart(e) .. UsableEnd(e) - w : (s - UsableStart(e)) % Stride(w) = 0}

Within(times, from, to) == {t \in times : from <= t /\ t < to}

(* A window yields a row if both GPUs have two samples in it and two of    *)
(* them pair up.                                                           *)
YieldsRow(e, w, start) ==
  LET in == [g \in GPUs |-> Within(e.samples[g], start, start + w)]
  IN  /\ \A g \in GPUs : Cardinality(in[g]) >= 2
      /\ Cardinality(AlignedPairs(in[0], in[1])) >= 2

FeatureRows(e, w) == {s \in WindowStarts(e, w) : YieldsRow(e, w, s)}

UsablePairs(e) ==
  LET usable(g) == {t \in e.samples[g] : UsableStart(e) <= t /\ t <= UsableEnd(e)}
  IN  AlignedPairs(usable(0), usable(1))

-----------------------------------------------------------------------------
(* Why a planned run is excluded: the first of these reasons, or "none" *)

ManifestReason(e) ==
  IF e.manifest = "missing" THEN "incomplete_run"
  ELSE IF e.manifest = "invalid" THEN "invalid_manifest"
  ELSE IF ~e.own_corpus THEN "not_in_selected_corpus"
  ELSE IF e.exit_status # "completed" THEN "incomplete_run"
  ELSE IF ~e.participation_valid THEN "participation_invalid"
  ELSE IF ~e.as_planned THEN "invalid_manifest"
  ELSE "none"

TelemetryReason(e) ==
  IF e.telemetry = "missing" THEN "missing_telemetry"
  ELSE IF e.telemetry = "unsupported" THEN "unsupported_telemetry_schema"
  ELSE IF e.telemetry = "invalid" THEN "feature_error"
  ELSE IF ~BothSampled(e) THEN "missing_required_gpu"
  ELSE "none"

IntervalReason(e) ==
  IF CommonEnd(e) <= CommonStart(e) THEN "no_common_interval"
  ELSE IF UsableDuration(e) < Min(Windows) THEN "post_warmup_interval_too_short"
  ELSE IF Cardinality(UsablePairs(e)) < 2 THEN "insufficient_samples"
  ELSE IF \A w \in Windows : FeatureRows(e, w) = {} THEN "insufficient_samples"
  ELSE "none"

Reason(e) ==
  IF ManifestReason(e) # "none" THEN ManifestReason(e)
  ELSE IF TelemetryReason(e) # "none" THEN TelemetryReason(e)
  ELSE IntervalReason(e)

HasInterval(e) == ManifestReason(e) = "none" /\ TelemetryReason(e) = "none"

(* An excluded run has a reason, no windows, and the interval common to the *)
(* GPUs if it was found before the run was excluded.                       *)
ExcludedRecord(reason, interval) ==
  [reason |-> reason, windows |-> {}, interval |-> interval]

(* An included run is one with a row in some window. *)
IncludedRecord(e) ==
  [reason   |-> "none",
   windows  |-> {w \in Windows : FeatureRows(e, w) # {}},
   interval |-> <<CommonStart(e), CommonEnd(e)>>]

(* The coverage record of a run with evidence e. *)
CoverageRecord(e) ==
  IF Reason(e) = "none" THEN IncludedRecord(e)
  ELSE ExcludedRecord(Reason(e),
                      IF HasInterval(e) THEN <<CommonStart(e), CommonEnd(e)>> ELSE NoInterval)

(* A plan without an accepted run. *)
NotAccepted == ExcludedRecord("incomplete_run", NoInterval)

(* CoverageRecord.validate raises on an interval that ends before it       *)
(* begins, and with it the extraction of the whole corpus.                 *)
ValidRecord(record) ==
  record.interval = NoInterval \/ record.interval[1] <= record.interval[2]

-----------------------------------------------------------------------------
(* What is expected *)

(* The size of a maximum matching of left and right within the tolerance,  *)
(* by the deficiency form of Hall's theorem.                               *)
MaximumMatching(left, right) ==
  LET near(s) == {y \in right : \E x \in s : Distance(x, y) <= Tolerance}
  IN  Min({Cardinality(left) - (Cardinality(s) - Cardinality(near(s))) : s \in SUBSET left})

IsMatching(pairs) ==
  /\ \A p \in pairs : Distance(p[1], p[2]) <= Tolerance
  /\ \A p, q \in pairs : (p[1] = q[1]) = (p[2] = q[2])

(* In every stretch of the given length of the measured interval each GPU  *)
(* is sampled, and each of these samples has one of the other GPU near it. *)
SteadilySampled(e, period) ==
  \A g \in GPUs :
    /\ \A from \in e.measured[1] .. e.measured[2] - period + 1 :
         Within(e.samples[g], from, from + period) # {}
    /\ \A x \in Within(e.samples[g], e.measured[1], e.measured[2] + 1) :
         \E y \in e.samples[1 - g] : Distance(x, y) <= Tolerance

=============================================================================
