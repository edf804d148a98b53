---------------------------- MODULE GroupedSplits ----------------------------
(***************************************************************************)
(* Splits of complete runs (evaluation/splits.py).  The rows of a run are  *)
(* represented by its group: the session, the label, the family and the    *)
(* configuration they share.  A seeded shuffle is a choice among all       *)
(* orders, so an operator gives the set of what may be returned; the empty  *)
(* set stands for a ValueError.  Group names are numbers or strings, and   *)
(* groups that are sorted in the code are numbers here.                    *)
(***************************************************************************)
EXTENDS Integers, FiniteSets, FiniteSetsExt

CONSTANTS
  TestTenths, ValidationTenths    \* the fractions of a stratum, in tenths

ASSUME SplitAssumption ==
  /\ TestTenths \in 1 .. 9 /\ ValidationTenths \in 1 .. 9
  /\ TestTenths + ValidationTenths < 10

Splits == {"train", "validation", "test"}

(* RunGroup, without its run. *)
Group(session, label, family, config) ==
  [session |-> session, label |-> label, family |-> family, config |-> config]

Values(groups, runs, field) == {groups[r][field] : r \in runs}

In(assignments, split) == {r \in DOMAIN assignments : assignments[r] = split}

-----------------------------------------------------------------------------
(* Stratified whole runs *)

(* Round half to even of n tenths. *)
RoundTenths(n) ==
  IF n % 10 > 5 \/ (n % 10 = 5 /\ (n \div 10) % 2 = 1) THEN n \div 10 + 1 ELSE n \div 10

(* Mutant: the share is cut off, not rounded, and may be none. *)
ShareCutOff(n, tenths) == (n * tenths) \div 10

Share(n, tenths) == Max({1, RoundTenths(n * tenths)})

(* The loop takes from the validation runs, then from the test runs, until *)
(* a run is left for training.                                             *)
Excess(n) == Max({0, Share(n, TestTenths) + Share(n, ValidationTenths) - (n - 1)})

ValidationCount(n) == Max({1, Share(n, ValidationTenths) - Excess(n)})

TestCount(n) ==
  Share(n, TestTenths) - (Excess(n) - (Share(n, ValidationTenths) - ValidationCount(n)))

StratumOf(group, required) ==
  IF group.family \in required THEN <<"family", group.family>> ELSE <<"class", group.label>>

Strata(groups, required) == {StratumOf(groups[r], required) : r \in DOMAIN groups}

Stratum(groups, required, s) == {r \in DOMAIN groups : StratumOf(groups[r], required) = s}

StratumAssignments(runs) ==
  {a \in [runs -> Splits] :
     /\ Cardinality(In(a, "test")) = TestCount(Cardinality(runs))
     /\ Cardinality(In(a, "validation")) = ValidationCount(Cardinality(runs))}

(* Every stratum needs three runs. *)
StrataAreLarge(groups, required) ==
  \A s \in Strata(groups, required) : Cardinality(Stratum(groups, required, s)) >= 3

StratifiedAssignments(groups, required) ==
  IF ~StrataAreLarge(groups, required) THEN {}
  ELSE LET strata == Strata(groups, required)
           choice == [s \in strata |-> StratumAssignments(Stratum(groups, required, s))]
       IN  {[r \in DOMAIN groups |-> chosen[StratumOf(groups[r], required)][r]] :
              chosen \in {f \in [strata -> UNION {choice[s] : s \in strata}] :
                            \A s \in strata : f[s] \in choice[s]}}

-----------------------------------------------------------------------------
(* Whole sessions *)

BySession(groups, test, validation) ==
  [r \in DOMAIN groups |->
     CASE groups[r].session = test       -> "test"
       [] groups[r].session = validation -> "validation"
       [] OTHER                          -> "train"]

(* Each part has all classes and the required families. *)
PartsAreComplete(groups, required, a) ==
  \A split \in Splits :
    /\ Values(groups, In(a, split), "label") = Values(groups, DOMAIN groups, "label")
    /\ required \subseteq Values(groups, In(a, split), "family")

SessionAssignments(groups, required) ==
  LET sessions == Values(groups, DOMAIN groups, "session")
  IN  IF Cardinality(sessions) < 3 THEN {}
      ELSE {a \in {BySession(groups, p[1], p[2]) :
                     p \in {q \in sessions \X sessions : q[1] # q[2]}} :
              PartsAreComplete(groups, required, a)}

-----------------------------------------------------------------------------
(* Diagnostic holdouts *)

(* One run of each class with two or more of them is for validation.        *)
ValidationDraws(groups, runs) ==
  {v \in SUBSET runs :
     \A l \in Values(groups, runs, "label") :
       LET ofClass == {r \in runs : groups[r].label = l}
       IN  Cardinality(v \cap ofClass) = (IF Cardinality(ofClass) >= 2 THEN 1 ELSE 0)}

(* The held-out runs are the test. *)
DiagnosticHoldoutAssignments(groups, field, value) ==
  LET heldout == {r \in DOMAIN groups : groups[r][field] = value}
      rest    == DOMAIN groups \ heldout
  IN  IF heldout = {} \/ rest = {} THEN {}
      ELSE {[r \in DOMAIN groups |->
               CASE r \in heldout -> "test"
                 [] r \in draw    -> "validation"
                 [] OTHER          -> "train"] : draw \in ValidationDraws(groups, rest)}

-----------------------------------------------------------------------------
(* make_split_plan *)

PrimaryIsValid(groups, required, a) ==
  /\ \A split \in Splits : In(a, split) # {}
  /\ Cardinality(Values(groups, DOMAIN groups, "label")) >= 2
  /\ PartsAreComplete(groups, required, a)

DiagnosticIsValid(a) == In(a, "train") # {} /\ In(a, "test") # {}

SplitPlans(groups, mode, value, required) ==
  LET sessions   == SessionAssignments(groups, required)
      stratified == StratifiedAssignments(groups, required)
      primary    == CASE mode = "session_holdout"      -> sessions
                      [] mode = "stratified_whole_run" -> stratified
                      [] mode = "auto" -> IF sessions # {} THEN sessions ELSE stratified
                      [] OTHER -> {}
      field      == IF mode = "family_holdout" THEN "family" ELSE "config"
  IN  IF mode \in {"family_holdout", "configuration_holdout"}
      THEN {a \in DiagnosticHoldoutAssignments(groups, field, value) : DiagnosticIsValid(a)}
      ELSE {a \in primary : PrimaryIsValid(groups, required, a)}

-----------------------------------------------------------------------------
(* Cross-validation by complete groups *)

GroupOf(groups, field, r) == IF field = "run" THEN r ELSE groups[r][field]

GroupIds(groups, field) == {GroupOf(groups, field, r) : r \in DOMAIN groups}

(* Mutant: the groups of a fold are a block, and those left over are none's. *)
TestGroupsInBlocks(groups, mode, n, field, fold) ==
  {id \in GroupIds(groups, field) :
     LET place == Cardinality({x \in GroupIds(groups, field) : x < id})
     IN  place \div (Cardinality(GroupIds(groups, field)) \div n) = fold}

(* The groups in ascending order are dealt out to the folds. *)
TestGroups(groups, mode, n, field, fold) ==
  {id \in GroupIds(groups, field) :
     LET place == Cardinality({x \in GroupIds(groups, field) : x < id})
     IN  (IF mode = "leave_one_group_out" THEN place ELSE place % n) = fold}

FoldCount(groups, mode, n, field) ==
  IF mode = "leave_one_group_out" THEN Cardinality(GroupIds(groups, field)) ELSE n

(* The folds, or none if the number of groups does not allow them. *)
CrossValidationFolds(groups, mode, n, field) ==
  IF \/ Cardinality(GroupIds(groups, field)) < 2
     \/ mode = "group_kfold" /\ n \notin 2 .. Cardinality(GroupIds(groups, field))
  THEN <<>>
  ELSE [i \in 1 .. FoldCount(groups, mode, n, field) |->
          LET test == {r \in DOMAIN groups :
                         GroupOf(groups, field, r) \in TestGroups(groups, mode, n, field, i - 1)}
          IN  [test |-> test, train |-> DOMAIN groups \ test]]

=============================================================================
