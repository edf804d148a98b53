----------------------------- MODULE Calibration -----------------------------
(***************************************************************************)
(* The verdict on a calibration sweep (calibration.py): analyze_calibration *)
(* as run_calibration_sweep calls it, that is without legacy compatibility, *)
(* with the threshold method median_plus_mad and as many sizes and         *)
(* repetitions required as are planned.                                    *)
(*                                                                         *)
(* A sweep maps each planned observation <<payload, repetition>> to the    *)
(* row measured for it; payload Idle stands for the idle baseline.  Signals *)
(* are whole numbers of a unit chosen so that the baseline floor is Floor   *)
(* units; medians are kept doubled and deviations fourfold, so that all    *)
(* comparisons are between integers.                                       *)
(***************************************************************************)
EXTENDS Integers, FiniteSets, FiniteSetsExt

CONSTANTS
  Payloads,      \* the payload sizes of the sweep
  Repetitions,   \* how often each is measured
  Floor          \* baseline_floor_bytes_per_s

ASSUME CalibrationAssumption ==
  /\ Payloads \subseteq Nat \ {0}
  /\ IsFiniteSet(Payloads)
  /\ Repetitions \in Nat \ {0}
  /\ Floor \in Nat

Idle == 0

Reps == 1 .. Repetitions

Observations == (Payloads \cup {Idle}) \X Reps

(* signal is -1 when no PCIe reading was usable. *)
Row ==
  [pcie_supported      : BOOLEAN,
   participation_valid : BOOLEAN,
   exit_status         : {"completed", "failed", "timeout"},
   long                : BOOLEAN,   \* the minimum measured duration is reached
   timely              : BOOLEAN,   \* the sampling interval is within tolerance
   quiet               : BOOLEAN,   \* no collective within its measured interval
   signal              : Int]

-----------------------------------------------------------------------------
(* Order statistics *)

(* The value at place k of the values of f in ascending order. *)
Kth(f, k) ==
  CHOOSE v \in {f[x] : x \in DOMAIN f} :
    /\ Cardinality({x \in DOMAIN f : f[x] < v}) < k
    /\ k <= Cardinality({x \in DOMAIN f : f[x] <= v})

(* Twice the median of the values of f. *)
Median2(f) ==
  LET n == Cardinality(DOMAIN f)
  IN  IF n % 2 = 1 THEN 2 * Kth(f, (n + 1) \div 2)
      ELSE Kth(f, n \div 2) + Kth(f, n \div 2 + 1)

(* Four times the median absolute deviation. *)
Mad4(f) ==
  LET m == Median2(f)
  IN  Median2([x \in DOMAIN f |-> IF 2 * f[x] < m THEN m - 2 * f[x] ELSE 2 * f[x] - m])

(* Twice the zero-based rank of x, ties averaged. *)
Rank2(f, x) ==
  2 * Cardinality({y \in DOMAIN f : f[y] < f[x]})
    + Cardinality({y \in DOMAIN f : f[y] = f[x]}) - 1

(* Pearson's correlation of two functions is num / sqrt(square). *)
Centred(f, x) == Rank2(f, x) - (Cardinality(DOMAIN f) - 1)

SumOver(S, term(_)) == MapThenSumSet(term, S)

Correlation(f, g) ==
  [num    |-> SumOver(DOMAIN f, LAMBDA x : Centred(f, x) * Centred(g, x)),
   square |-> SumOver(DOMAIN f, LAMBDA x : Centred(f, x) * Centred(f, x))
              * SumOver(DOMAIN f, LAMBDA x : Centred(g, x) * Centred(g, x))]

-----------------------------------------------------------------------------
(* The rows of a sweep *)

(* Mutant: a run that failed is used if its ranks took part. *)
UsableIfItTookPart(row) == row.participation_valid /\ row.long /\ row.timely

Usable(row) ==
  /\ row.participation_valid
  /\ row.exit_status = "completed"
  /\ row.long
  /\ row.timely

HasSignal(row) == row.pcie_supported /\ Usable(row) /\ row.signal >= 0

(* The usable signals of one payload, by repetition. *)
Signals(sweep, payload) ==
  [r \in {i \in Reps : HasSignal(sweep[payload, i])} |-> sweep[payload, r].signal]

UsableCount(sweep, payload) == Cardinality(DOMAIN Signals(sweep, payload))

IdleComplete(sweep) == UsableCount(sweep, Idle) >= Repetitions

(* Four times the capture threshold: the idle median and three deviations, *)
(* or the floor if that is more.                                           *)
CaptureThreshold4(sweep) ==
  LET idle  == Signals(sweep, Idle)
      delta == 3 * Mad4(idle)
  IN  2 * Median2(idle) + (IF delta > 4 * Floor THEN delta ELSE 4 * Floor)

(* Mutant: the threshold is reached, not exceeded, and only once. *)
ReliablyObservedOnce(sweep, payload) ==
  /\ UsableCount(sweep, payload) >= Repetitions
  /\ UsableCount(sweep, Idle) > 0
  /\ \E r \in Reps : 4 * Signals(sweep, payload)[r] >= CaptureThreshold4(sweep)

(* All repetitions are usable and at least 0.8 of them exceed the threshold. *)
ReliablyObserved(sweep, payload) ==
  LET values   == Signals(sweep, payload)
      captured == {r \in DOMAIN values : 4 * values[r] > CaptureThreshold4(sweep)}
  IN  /\ UsableCount(sweep, payload) >= Repetitions
      /\ UsableCount(sweep, Idle) > 0
      /\ 5 * Cardinality(captured) >= 4 * UsableCount(sweep, payload)

UsablePayloads(sweep) == {p \in Payloads : UsableCount(sweep, p) > 0}

ReliablePayloads(sweep) == {p \in Payloads : ReliablyObserved(sweep, p)}

(* Doubled medians of the usable payloads. *)
Response(sweep) == [p \in UsablePayloads(sweep) |-> Median2(Signals(sweep, p))]

(* Mutant: the sign of the correlation is lost. *)
MonotoneEitherWay(sweep) ==
  LET c == Correlation([p \in UsablePayloads(sweep) |-> p], Response(sweep))
  IN  /\ Cardinality(UsablePayloads(sweep)) >= 2
      /\ c.square > 0
      /\ 100 * c.num * c.num >= 49 * c.square

(* The rank correlation of payload and response is at least 0.7. *)
Monotone(sweep) ==
  LET c == Correlation([p \in UsablePayloads(sweep) |-> p], Response(sweep))
  IN  /\ Cardinality(UsablePayloads(sweep)) >= 2
      /\ c.square > 0
      /\ c.num >= 0
      /\ 100 * c.num * c.num >= 49 * c.square

(* The largest positive response is at least 1.2 times the smallest. *)
Dynamic(sweep) ==
  LET positive == {p \in UsablePayloads(sweep) : Response(sweep)[p] > 0}
  IN  /\ Cardinality(positive) >= 2
      /\ \E high, low \in positive :
           /\ \A p \in positive : Response(sweep)[p] <= Response(sweep)[high]
           /\ \A p \in positive : Response(sweep)[p] >= Response(sweep)[low]
           /\ 5 * Response(sweep)[high] >= 6 * Response(sweep)[low]

-----------------------------------------------------------------------------
(* The verdict *)

AggregateGateFailed(sweep) ==
  \/ UsablePayloads(sweep) # Payloads
  \/ ~Monotone(sweep)
  \/ ~Dynamic(sweep)
  \/ ReliablePayloads(sweep) = {}

HardFalsification(sweep) ==
  \/ \E o \in Observations : ~sweep[o].pcie_supported
  \/ ~IdleComplete(sweep)
  \/ AggregateGateFailed(sweep)

(* What is left to object to once nothing falsifies the sweep.  A row that *)
(* is short, late or without a valid run has no usable signal.             *)
Reservations(sweep) ==
  \/ \E o \in Observations : ~HasSignal(sweep[o])
  \/ ReliablePayloads(sweep) # Payloads

Status(sweep) ==
  IF HardFalsification(sweep) THEN "not_supported"
  ELSE IF Reservations(sweep) THEN "partially_supported"
  ELSE "supported"

(* result_state says why a sweep is not supported. *)
ResultState(sweep) ==
  IF Status(sweep) # "not_supported" THEN Status(sweep)
  ELSE IF \E o \in Observations :
            sweep[o].exit_status # "completed" \/ ~sweep[o].participation_valid THEN "failed"
  ELSE IF (\E o \in Observations : ~sweep[o].pcie_supported) /\ UsablePayloads(sweep) = {}
       THEN "not_supported"
  ELSE "inconclusive"

(* validate_standard_calibration_result on the rows: each payload and the  *)
(* idle baseline are measured in every repetition and nothing else is, and *)
(* an idle run that counts has no collective in its measured interval.     *)
(* Names and modes of the runs follow from the plan.                       *)
RowsAsPlanned(sweep) ==
  /\ DOMAIN sweep = Observations
  /\ \A r \in Reps :
       LET idle == sweep[Idle, r]
       IN  idle.exit_status = "completed" /\ idle.participation_valid => idle.quiet

ModernCaptureGatePassed(sweep) == Status(sweep) = "supported" /\ IdleComplete(sweep)

=============================================================================
