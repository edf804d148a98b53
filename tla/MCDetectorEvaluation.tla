------------------------ MODULE MCDetectorEvaluation ------------------------
EXTENDS DetectorEvaluation

(* Three runs of each required family, and one of a family that is not. *)
MCSlots == 1 .. 10

MCPlanOf ==
  [s \in MCSlots |->
     CASE s \in 1 .. 3 -> Group("benign", "training", "ddp", "c1")
       [] s \in 4 .. 6 -> Group("benign", "inference", "pipeline", "c2")
       [] s \in 7 .. 9 -> Group("benign", "control", "idle", "c3")
       [] s = 10       -> Group("benign", "inference", "peer", "c4")]

Times == 0 .. 6

Evidence(left, right, measured) ==
  [manifest |-> "valid", own_corpus |-> TRUE, exit_status |-> "completed",
   participation_valid |-> TRUE, as_planned |-> TRUE, telemetry |-> "valid",
   samples |-> 0 :> left @@ 1 :> right, measured |-> measured]

Both == Evidence(Times, Times, <<0, 6>>)

(* The default gate, and one that asks for a single run of one family: it  *)
(* passes every corpus here, those without a control among them.           *)
MCGates ==
  {[required |-> {"ddp", "pipeline", "idle"}, minimum |-> 3],
   [required |-> {"ddp"}, minimum |-> 1]}

(* Every pair of sample times, and every way to be excluded before the     *)
(* samples are looked at.                                                  *)
AnySamples ==
  {Evidence(l, r, <<0, 6>>) : l \in SUBSET Times, r \in SUBSET Times} \cup
  {Evidence(l, r, NoInterval) : l \in SUBSET Times, r \in {Times, Times \ {0}, {0, 3, 6}}}

Flawed ==
  {[Both EXCEPT !.manifest = m] : m \in {"missing", "invalid"}} \cup
  {[Both EXCEPT !.exit_status = x] : x \in {"failed", "timeout"}} \cup
  {[Both EXCEPT !.telemetry = t] : t \in {"missing", "unsupported", "invalid"}} \cup
  {[Both EXCEPT !.own_corpus = FALSE], [Both EXCEPT !.participation_valid = FALSE],
   [Both EXCEPT !.as_planned = FALSE], Absent}

MCEvidenceOf ==
  [s \in MCSlots |->
     CASE s = 1 -> AnySamples \cup Flawed
       [] s \in 7 .. 10 -> {Both, Absent}
       [] OTHER -> {Both}]

(* Six runs of two classes in up to three sessions. *)
MCAnalystGroups ==
  {[r \in 1 .. 6 |->
      Group(f[r], IF r % 2 = 0 THEN "inference" ELSE "training",
            IF r % 2 = 0 THEN "pipeline" ELSE "ddp", IF r < 4 THEN "c1" ELSE "c2")] :
     f \in {g \in [1 .. 6 -> 1 .. 3] : \A r \in 1 .. 5 : g[r] <= g[r + 1]}}

Workload(families, configs, segments) ==
  [family |-> families, config |-> configs, segments |-> segments]

Accumulation == Workload("accumulation", "a1", 1)
EverySecond  == Workload("periodic", "k2", 1)
EveryFourth  == Workload("periodic", "k4", 1)
Segmented    == Workload("segmented", "g1", 2)

MCStrategies == {"accumulation", "periodic", "segmented"}

(* A matrix over the strategies, and the study of one strategy's periods. *)
MCSelections == {<<Accumulation, Segmented>>, <<EverySecond, EverySecond>>}

MCPeriodicStudy == <<EverySecond, EveryFourth>>

HoldoutPlan(development, hardening, family, sessions, configs) ==
  [development |-> development, hardening |-> hardening, final_family |-> family,
   final_sessions |-> sessions, final_configs |-> configs]

MCHoldoutPlans ==
  {HoldoutPlan({"accumulation"}, {"segmented"}, "periodic", {"adv2"}, {"a1"}),
   HoldoutPlan({"periodic"}, {"segmented"}, "accumulation", {"benign"}, {"later"}),
   HoldoutPlan({"periodic"}, {}, "accumulation", {"later"}, {"later"})}

=============================================================================
