-------------------------- MODULE RankWorkers_proofs --------------------------
(***************************************************************************)
(* The ranks of a run whose collectives do not depend on their clocks      *)
(* never wait in different collectives, and none completes unless the      *)
(* other made the full measurement: for every count, period, schedule and  *)
(* duration.                                                               *)
(*                                                                         *)
(* A rank's way through its run is a line of places, each with the         *)
(* collectives that are called there.  Ranks at the same place have the    *)
(* same collectives left; if one is ahead, the other has none left and     *)
(* there are none between them, so the one ahead has passed none yet.      *)
(***************************************************************************)
EXTENDS RankWorkers, TLAPS

Going(r) == ~Ended(r)

After == IF minimum = 0 THEN 3 + Iterations ELSE 3

Place(r) ==
  CASE stage[r] = "starting"  -> 0
    [] stage[r] = "entering"  -> 1
    [] stage[r] = "measuring" -> IF minimum = 0 THEN 2 + steps[r] ELSE 2
    [] OTHER                  -> After

(* What is called at each place. *)
Course ==
  [p \in 0 .. After |->
     IF p = 0 THEN MainCollectives
     ELSE IF p = 1 THEN EntryCollectives
     ELSE IF p = After THEN ExitCollectives(IF minimum = 0 THEN Iterations ELSE 0)
     ELSE IF p = 2 THEN <<>>
     ELSE StepCollectives(p - 2)]

Behind(course, p, t, q, u) ==
  p < q => t = <<>> /\ u = course[q] /\ \A k \in p + 1 .. q - 1 : course[k] = <<>>

Together(course, p, t, q, u) ==
  /\ Behind(course, p, t, q, u)
  /\ Behind(course, q, u, p, t)
  /\ p = q => t = u

RanksAreTogether ==
  \A r, s \in Ranks :
    r # s /\ Going(r) /\ Going(s) => Together(Course, Place(r), todo[r], Place(s), todo[s])

LeavingIsMeasured == \A r \in Ranks : stage[r] \in {"leaving", "completed"} => Measured(r)

PassedTheEnd(r) == stage[r] = "completed" \/ (stage[r] = "leaving" /\ todo[r] = <<>>)

EndIsJoint == \A r, s \in Ranks : PassedTheEnd(r) => Measured(s)

NotYetBegun == \A r \in Ranks : stage[r] \in {"starting", "entering"} => steps[r] = 0

IInv ==
  /\ TypeOK
  /\ NotYetBegun
  /\ LeavingIsMeasured
  /\ ClockIndependent => RanksAreTogether /\ EndIsJoint

-----------------------------------------------------------------------------
(* Places *)

LEMMA Numbers ==
  /\ Iterations \in Nat \ {0} /\ MaxSteps \in Nat \ {0} /\ Iterations <= MaxSteps
  /\ Warmup \in Nat /\ Minimums \subseteq Nat /\ IterationCap \in Nat
  BY RankAssumption

LEMMA TogetherIsSymmetric ==
  ASSUME NEW course, NEW p, NEW t, NEW q, NEW u, Together(course, p, t, q, u)
  PROVE  Together(course, q, u, p, t)
  BY DEF Together

LEMMA MoveKeeps ==
  ASSUME NEW course, NEW p \in Nat, NEW q \in Nat, NEW n \in Nat, NEW t, NEW u,
         Together(course, p, t, q, u), t = <<>>, p < n,
         \A k \in p + 1 .. n - 1 : course[k] = <<>>
  PROVE  Together(course, n, course[n], q, u)
  <1>1. CASE q < p
    <2>1. u = <<>> /\ course[p] = <<>> /\ \A k \in q + 1 .. p - 1 : course[k] = <<>>
      BY <1>1 DEF Together, Behind
    <2>2. \A k \in q + 1 .. n - 1 : k \in q + 1 .. p - 1 \/ k = p \/ k \in p + 1 .. n - 1
      OBVIOUS
    <2>3. QED
      BY <1>1, <2>1, <2>2 DEF Together, Behind
  <1>2. CASE q = p
    BY <1>2 DEF Together, Behind
  <1>3. CASE p < q /\ q < n
    <2>1. q \in p + 1 .. n - 1 /\ \A k \in q + 1 .. n - 1 : k \in p + 1 .. n - 1
      BY <1>3
    <2>2. u = course[q]
      BY <1>3 DEF Together, Behind
    <2>3. QED
      BY <1>3, <2>1, <2>2 DEF Together, Behind
  <1>4. CASE q = n
    BY <1>4 DEF Together, Behind
  <1>5. CASE n < q
    <2>1. /\ n \in p + 1 .. q - 1 /\ \A k \in n + 1 .. q - 1 : k \in p + 1 .. q - 1
          /\ p < q
      BY <1>5
    <2>2. u = course[q] /\ \A k \in p + 1 .. q - 1 : course[k] = <<>>
      BY <2>1 DEF Together, Behind
    <2>3. QED
      BY <1>5, <2>1, <2>2 DEF Together, Behind
  <1>6. QED
    BY <1>1, <1>2, <1>3, <1>4, <1>5

LEMMA Placed ==
  ASSUME TypeOK, NEW r \in Ranks
  PROVE  /\ Place(r) \in 0 .. After
         /\ After \in Nat /\ After >= 3
  <1>1. minimum \in Nat /\ After \in Nat /\ After >= 3
    BY Numbers DEF TypeOK, After
  <1>2. minimum = 0 => steps[r] \in 0 .. Iterations /\ After = 3 + Iterations
    BY DEF TypeOK, After
  <1>3. QED
    BY <1>1, <1>2, Numbers DEF Place

(* While the run's parameters stay, so does the course. *)
LEMMA CourseStays ==
  ASSUME UNCHANGED runVars
  PROVE  /\ Course' = Course /\ After' = After
         /\ ClockIndependent' = ClockIndependent
         /\ Limit' = Limit
  <1>1. mode' = mode /\ minimum' = minimum /\ schedule' = schedule
    BY DEF runVars
  <1>2. After' = After /\ Limit' = Limit
    BY <1>1 DEF After, Limit
  <1>3. EntryCollectives' = EntryCollectives
    BY <1>1 DEF EntryCollectives
  <1>4. \A n : StepCollectives(n)' = StepCollectives(n)
    BY <1>1 DEF StepCollectives, SparseSyncStep
  <1>5. \A n : HandlerExit(n)' = HandlerExit(n)
    BY <1>1 DEF HandlerExit, SparseSyncExit
  <1>6. \A n : ExitCollectives(n)' = ExitCollectives(n)
    BY <1>5 DEF ExitCollectives
  <1>7. Course' = Course
    BY <1>1, <1>2, <1>3, <1>4, <1>6 DEF Course
  <1>8. ClockIndependent' = ClockIndependent
    BY <1>1, <1>4, <1>5 DEF ClockIndependent
  <1>9. QED
    BY <1>2, <1>7, <1>8

-----------------------------------------------------------------------------
(* Types *)

LEMMA Tuples ==
  ASSUME NEW S, NEW a \in S, NEW b \in S, NEW c \in S
  PROVE  <<>> \in Seq(S) /\ <<a>> \in Seq(S) /\ <<a, b>> \in Seq(S) /\ <<a, b, c>> \in Seq(S)
  OBVIOUS

LEMMA Names ==
  /\ "barrier" \in Collectives /\ "parameters" \in Collectives /\ "average" \in Collectives
  /\ "gradients" \in Collectives /\ "checksum" \in Collectives
  BY DEF Collectives

LEMMA EntryType == EntryCollectives \in Seq(Collectives)
  <1>1. /\ <<"parameters", "barrier">> \in Seq(Collectives)
        /\ <<"average">> \in Seq(Collectives) /\ <<"barrier">> \in Seq(Collectives)
        /\ <<>> \in Seq(Collectives)
    BY Names, Tuples
  <1>2. QED
    BY <1>1 DEF EntryCollectives

LEMMA BurstType == Burst \in Seq(Collectives)
  <1>1. BurstCollectives \in Nat
    BY RankAssumption
  <1>2. Burst \in [1 .. BurstCollectives -> Collectives]
    BY DEF Burst, Collectives
  <1>3. QED
    BY <1>1, <1>2

LEMMA StepType ==
  ASSUME NEW n
  PROVE  StepCollectives(n) \in Seq(Collectives)
  <1>0. /\ <<"gradients", "checksum", "checksum">> \in Seq(Collectives)
        /\ <<"average", "checksum">> \in Seq(Collectives)
        /\ <<"barrier">> \in Seq(Collectives) /\ <<"barrier", "barrier">> \in Seq(Collectives)
        /\ <<>> \in Seq(Collectives)
    BY Names, Tuples
  <1>1. /\ DdpTrainingStep(n) \in Seq(Collectives)
        /\ SparseSyncStep(n) \in Seq(Collectives)
        /\ InferenceStep(n) \in Seq(Collectives)
        /\ PeerCopyStep \in Seq(Collectives)
        /\ <<>> \in Seq(Collectives)
    BY <1>0 DEF DdpTrainingStep, SparseSyncStep, InferenceStep, PeerCopyStep
  <1>2. QED
    BY <1>1, BurstType DEF StepCollectives

LEMMA ConcatenationType ==
  ASSUME NEW S, NEW s \in Seq(S), NEW e \in S
  PROVE  s \o <<e>> \in Seq(S) /\ s \o <<e>> # <<>>
  <1>1. s \o <<e>> \in Seq(S) /\ Len(s \o <<e>>) = Len(s) + 1 /\ Len(s) \in Nat
    OBVIOUS
  <1>2. QED
    BY <1>1

LEMMA ExitType ==
  ASSUME NEW n
  PROVE  ExitCollectives(n) \in Seq(Collectives) /\ ExitCollectives(n) # <<>>
  <1>1. SparseSyncExit(n) \in Seq(Collectives)
    <2>1. /\ <<"checksum">> \in Seq(Collectives) /\ <<"average", "checksum">> \in Seq(Collectives)
          /\ <<>> \in Seq(Collectives)
      BY Names, Tuples
    <2>2. (IF n \in schedule THEN <<>> ELSE <<"average", "checksum">>) \in Seq(Collectives)
      BY <2>1
    <2>3. QED
      BY <2>1, <2>2 DEF SparseSyncExit
  <1>2. <<"barrier">> \in Seq(Collectives) /\ <<>> \in Seq(Collectives)
    BY Names, Tuples
  <1>3. HandlerExit(n) \in Seq(Collectives)
    BY <1>1, <1>2 DEF HandlerExit
  <1>4. "barrier" \in Collectives
    BY DEF Collectives
  <1>5. QED
    BY <1>3, <1>4, ConcatenationType DEF ExitCollectives

LEMMA MainType == MainCollectives \in Seq(Collectives) /\ MainCollectives # <<>>
  BY DEF MainCollectives, Collectives

-----------------------------------------------------------------------------
(* Steps *)

Same(s) == stage'[s] = stage[s] /\ todo'[s] = todo[s] /\ steps'[s] = steps[s]

LEMMA SamePlace ==
  ASSUME UNCHANGED runVars, NEW s, Same(s)
  PROVE  Place(s)' = Place(s) /\ Going(s)' = Going(s)
  <1>1. After' = After /\ minimum' = minimum
    BY CourseStays DEF runVars
  <1>2. QED
    BY <1>1 DEF Same, Place, Going, Ended

(* A rank that has no collective left goes on to another place. *)
LEMMA Advance ==
  ASSUME IInv, ClockIndependent, TypeOK', UNCHANGED runVars,
         NEW r \in Ranks, Going(r), todo[r] = <<>>,
         \A s \in Ranks \ {r} : Same(s),
         NEW p, NEW n, p = Place(r), n = Place(r)', p < n,
         \A k \in p + 1 .. n - 1 : Course[k] = <<>>,
         todo'[r] = Course[n]
  PROVE  RanksAreTogether'
  <1>1. PICK course : course = Course
    OBVIOUS
  <1>2. course = Course'
    BY <1>1, CourseStays
  <1>3. p \in Nat /\ n \in Nat
    <2>1. p \in Nat
      BY Placed DEF IInv
    <2>2. n \in 0 .. After' /\ After' \in Nat
      <3>1. TypeOK => Place(r) \in 0 .. After /\ After \in Nat
        BY Placed
      <3>2. After' = After
        BY CourseStays
      <3>3. After \in Nat
        BY Placed DEF IInv
      <3>4. n \in 0 .. After
        <4>1. minimum' = minimum /\ minimum \in Nat
          BY Numbers DEF IInv, TypeOK, runVars
        <4>2. minimum = 0 => steps'[r] \in 0 .. Iterations
          BY <4>1 DEF TypeOK
        <4>3. QED
          BY <3>2, <4>1, <4>2, Numbers DEF Place, After
      <3>5. QED
        BY <3>2, <3>3, <3>4
    <2>3. QED
      BY <2>1, <2>2
  <1>4. ASSUME NEW s \in Ranks \ {r}, Going(s)
        PROVE  Together(course, n, todo'[r], Place(s)', todo'[s])
    <2>1. PICK q, u : q = Place(s) /\ u = todo[s]
      OBVIOUS
    <2>2. Together(course, p, todo[r], q, u)
      BY <1>1, <1>4, <2>1 DEF IInv, RanksAreTogether
    <2>3. q \in Nat
      BY <2>1, Placed DEF IInv
    <2>4. Together(course, n, course[n], q, u)
      BY <1>1, <1>3, <2>2, <2>3, MoveKeeps
    <2>5. Place(s)' = q /\ todo'[s] = u
      BY <2>1, SamePlace DEF Same
    <2>6. QED
      BY <1>1, <2>4, <2>5
  <1>5. ASSUME NEW s \in Ranks, NEW t \in Ranks, s # t, Going(s)', Going(t)'
        PROVE  Together(course, Place(s)', todo'[s], Place(t)', todo'[t])
    <2>1. CASE s = r
      <3>1. Going(t)
        BY <1>5, <2>1, SamePlace
      <3>2. QED
        BY <1>4, <1>5, <2>1, <3>1
    <2>2. CASE t = r
      <3>1. Going(s)
        BY <1>5, <2>2, SamePlace
      <3>2. Together(course, n, todo'[r], Place(s)', todo'[s])
        BY <1>4, <1>5, <2>2, <3>1
      <3>3. QED
        BY <2>2, <3>2, TogetherIsSymmetric
    <2>3. s = r \/ t = r
      BY <1>5 DEF Ranks
    <2>4. QED
      BY <2>1, <2>2, <2>3
  <1>6. QED
    BY <1>2, <1>5 DEF RanksAreTogether

LEMMA TypeStep ==
  ASSUME TypeOK, [Next]_vars
  PROVE  TypeOK'
  <1>0. Iterations \in Nat \ {0} /\ MaxSteps \in Nat \ {0} /\ minimum \in Nat /\ Limit \in Nat
    BY Numbers DEF TypeOK, Limit
  <1>1. \A t \in Seq(Collectives) : t # <<>> => Tail(t) \in Seq(Collectives)
    OBVIOUS
  <1>2. CASE UNCHANGED vars
    BY <1>2 DEF vars, TypeOK, Limit
  <1>3. CASE Meet
    BY <1>1, <1>3 DEF Meet, Waiting, TypeOK, runVars, Limit
  <1>4. ASSUME NEW r \in Ranks, PassAlone(r)
        PROVE  TypeOK'
    BY <1>1, <1>4 DEF PassAlone, Mismatched, Waiting, TypeOK, runVars, Limit
  <1>5. ASSUME NEW r \in Ranks, Enter(r)
        PROVE  TypeOK'
    BY <1>5, EntryType DEF Enter, TypeOK, runVars, Limit
  <1>6. ASSUME NEW r \in Ranks, Measure(r)
        PROVE  TypeOK'
    BY <1>6 DEF Measure, TypeOK, runVars, Limit
  <1>7. ASSUME NEW r \in Ranks, ReturnAtOnce(r)
        PROVE  TypeOK'
    BY <1>7, ExitType DEF ReturnAtOnce, TypeOK, runVars, Limit
  <1>8. ASSUME NEW r \in Ranks, BeginStep(r)
        PROVE  TypeOK'
    <2>1. steps[r] + 1 \in 0 .. (IF minimum = 0 THEN Iterations ELSE MaxSteps)
      BY <1>0, <1>8 DEF BeginStep, LoopEnds, TypeOK
    <2>2. StepCollectives(steps[r] + 1) \in Seq(Collectives)
      BY StepType
    <2>3. QED
      BY <1>8, <2>1, <2>2 DEF BeginStep, TypeOK, runVars, Limit
  <1>9. ASSUME NEW r \in Ranks, Leave(r)
        PROVE  TypeOK'
    BY <1>9, ExitType DEF Leave, TypeOK, runVars, Limit
  <1>10. ASSUME NEW r \in Ranks,
                DurationUnmet(r) \/ Complete(r) \/ Fail(r) \/ GroupTimeout(r) \/ Kill(r)
         PROVE  TypeOK'
    BY <1>10 DEF DurationUnmet, Complete, Fail, GroupTimeout, Kill, TypeOK, runVars, Limit
  <1>11. CASE Tick
    <2>1. \A r \in Ranks : Measuring(r) => elapsed[r] + 1 \in 0 .. Limit
      BY <1>0 DEF Measuring, TypeOK
    <2>2. elapsed' \in [Ranks -> 0 .. Limit]
      BY <1>11, <2>1 DEF Tick, TypeOK
    <2>3. QED
      BY <1>11, <2>2 DEF Tick, TypeOK, runVars, Limit
  <1>12. QED
    BY <1>2, <1>3, <1>4, <1>5, <1>6, <1>7, <1>8, <1>9, <1>10, <1>11 DEF Next, RankStep

(* What was measured stays measured. *)
LEMMA MeasuredIsFinal ==
  ASSUME IInv, [Next]_vars, NEW s \in Ranks, Measured(s)
  PROVE  Measured(s)'
  <1>0. TypeOK /\ minimum \in Nat /\ Limit \in Nat
    BY Numbers DEF IInv, TypeOK, Limit
  <1>1. UNCHANGED runVars /\ Limit' = Limit
    <2>1. UNCHANGED runVars
      BY DEF Next, vars, runVars, Meet, PassAlone, RankStep, Enter, Measure, ReturnAtOnce,
             BeginStep, Leave, DurationUnmet, Complete, Fail, GroupTimeout, Kill, Tick
    <2>2. QED
      BY <2>1, CourseStays
  <1>2. mode' = mode /\ minimum' = minimum
    BY <1>1 DEF runVars
  <1>3. CASE steps'[s] = steps[s] /\ elapsed'[s] = elapsed[s]
    BY <1>1, <1>2, <1>3 DEF Measured
  <1>4. ASSUME NEW r \in Ranks, BeginStep(r)
        PROVE  Measured(s)'
    <2>1. elapsed' = elapsed /\ steps' = [steps EXCEPT ![r] = @ + 1] /\ ~LoopEnds(r)
      BY <1>4 DEF BeginStep
    <2>2. CASE s = r
      <3>1. mode = "smoke"
        BY <1>0, <2>1, <2>2, Numbers DEF LoopEnds, Measured, TypeOK
      <3>2. QED
        BY <1>2, <3>1 DEF Measured
    <2>3. CASE s # r
      BY <1>0, <1>3, <2>1, <2>3 DEF TypeOK
    <2>4. QED
      BY <2>2, <2>3
  <1>5. CASE Tick
    <2>1. elapsed' = [r \in Ranks |-> IF Measuring(r) THEN elapsed[r] + 1 ELSE elapsed[r]]
            /\ steps' = steps
      BY <1>5 DEF Tick
    <2>2. CASE Measuring(s)
      <3>1. mode = "smoke" \/ minimum = 0
        BY <1>0, <2>2 DEF Measured, Measuring, TypeOK
      <3>2. QED
        BY <1>2, <2>1, <3>1 DEF Measured
    <2>3. CASE ~Measuring(s)
      BY <1>3, <2>1, <2>3
    <2>4. QED
      BY <2>2, <2>3
  <1>6. (\E r \in Ranks : BeginStep(r)) \/ Tick \/ UNCHANGED <<steps, elapsed>>
    BY DEF Next, vars, Meet, PassAlone, RankStep, Enter, Measure, ReturnAtOnce,
           Leave, DurationUnmet, Complete, Fail, GroupTimeout, Kill
  <1>7. QED
    BY <1>3, <1>4, <1>5, <1>6

(* Steps after which every rank that goes on is where it was. *)
LEMMA Quiet ==
  ASSUME IInv, ClockIndependent, UNCHANGED runVars,
         \A s \in Ranks :
           Going(s)' => Going(s) /\ Place(s)' = Place(s) /\ todo'[s] = todo[s]
  PROVE  RanksAreTogether'
  <1>1. PICK course : course = Course
    OBVIOUS
  <1>2. course = Course'
    BY <1>1, CourseStays
  <1>3. ASSUME NEW s \in Ranks, NEW t \in Ranks, s # t, Going(s)', Going(t)'
        PROVE  Together(course, Place(s)', todo'[s], Place(t)', todo'[t])
    <2>1. Together(course, Place(s), todo[s], Place(t), todo[t])
      BY <1>1, <1>3 DEF IInv, RanksAreTogether
    <2>2. QED
      BY <1>3, <2>1
  <1>4. QED
    BY <1>2, <1>3 DEF RanksAreTogether

LEMMA EndStays ==
  ASSUME IInv, [Next]_vars, ClockIndependent,
         \A s \in Ranks : PassedTheEnd(s)' => PassedTheEnd(s)
  PROVE  EndIsJoint'
  BY MeasuredIsFinal DEF IInv, EndIsJoint

-----------------------------------------------------------------------------
(* The ranks stay together *)

LEMMA CourseAt ==
  ASSUME TypeOK
  PROVE  /\ Course[1] = EntryCollectives /\ Course[2] = <<>>
         /\ Course[0] = MainCollectives
         /\ Course[After] = ExitCollectives(IF minimum = 0 THEN Iterations ELSE 0)
         /\ \A k \in 3 .. After - 1 : Course[k] = StepCollectives(k - 2)
  <1>1. After \in Nat /\ After >= 3
    BY Numbers DEF TypeOK, After
  <1>2. /\ 0 \in 0 .. After /\ 1 \in 0 .. After /\ 2 \in 0 .. After /\ After \in 0 .. After
        /\ \A k \in 3 .. After - 1 : k \in 0 .. After /\ k # 0 /\ k # 1 /\ k # 2 /\ k # After
        /\ After # 0 /\ After # 1 /\ After # 2
    BY <1>1
  <1>3. QED
    BY <1>2 DEF Course

(* Two ranks that wait are at the same place. *)
LEMMA WaitingTogether ==
  ASSUME IInv, ClockIndependent, \A r \in Ranks : Waiting(r)
  PROVE  Place(0) = Place(1) /\ todo[0] = todo[1]
  <1>1. PICK course, p, q : course = Course /\ p = Place(0) /\ q = Place(1)
    OBVIOUS
  <1>2. p \in Nat /\ q \in Nat
    BY <1>1, Placed DEF IInv, Ranks
  <1>3. Together(course, p, todo[0], q, todo[1])
    BY <1>1 DEF IInv, RanksAreTogether, Going, Waiting, Ranks
  <1>4. todo[0] # <<>> /\ todo[1] # <<>>
    BY DEF Waiting, Ranks
  <1>5. p = q
    BY <1>2, <1>3, <1>4 DEF Together, Behind
  <1>6. QED
    BY <1>1, <1>3, <1>5 DEF Together

LEMMA NoMismatch ==
  ASSUME IInv, ClockIndependent
  PROVE  ~Mismatched
  BY WaitingTogether DEF Mismatched

LEMMA EnterKeeps ==
  ASSUME IInv, ClockIndependent, TypeOK', NEW r \in Ranks, Enter(r)
  PROVE  RanksAreTogether'
  <1>1. UNCHANGED runVars /\ Going(r) /\ todo[r] = <<>> /\ (\A s \in Ranks \ {r} : Same(s))
    BY DEF Enter, Idle, Going, Same, IInv, TypeOK
  <1>2. Place(r) = 0 /\ Place(r)' = 1 /\ todo'[r] = EntryCollectives
    BY DEF Enter, IInv, TypeOK, Place
  <1>3. todo'[r] = Course[1]
    BY <1>2, CourseAt DEF IInv
  <1>4. PICK p, n : p = Place(r) /\ n = Place(r)'
    OBVIOUS
  <1>5. p < n /\ \A k \in p + 1 .. n - 1 : Course[k] = <<>>
    BY <1>2, <1>4
  <1>6. QED
    BY <1>1, <1>2, <1>3, <1>4, <1>5, Advance

LEMMA MeasureKeeps ==
  ASSUME IInv, ClockIndependent, TypeOK', NEW r \in Ranks, Measure(r)
  PROVE  RanksAreTogether'
  <1>1. UNCHANGED runVars /\ Going(r) /\ todo[r] = <<>> /\ (\A s \in Ranks \ {r} : Same(s))
    BY DEF Measure, Idle, Going, Same, IInv, TypeOK
  <1>2. steps'[r] = 0 /\ minimum' = minimum
    BY DEF Measure, IInv, NotYetBegun, runVars
  <1>3. Place(r) = 1 /\ Place(r)' = 2 /\ todo'[r] = <<>>
    BY <1>1, <1>2 DEF Measure, IInv, TypeOK, Place
  <1>4. todo'[r] = Course[2]
    BY <1>3, CourseAt DEF IInv
  <1>5. PICK p, n : p = Place(r) /\ n = Place(r)'
    OBVIOUS
  <1>6. p < n /\ \A k \in p + 1 .. n - 1 : Course[k] = <<>>
    BY <1>3, <1>5
  <1>7. QED
    BY <1>1, <1>3, <1>4, <1>5, <1>6, Advance

LEMMA ReturnKeeps ==
  ASSUME IInv, ClockIndependent, TypeOK', NEW r \in Ranks, ReturnAtOnce(r)
  PROVE  RanksAreTogether'
  <1>1. UNCHANGED runVars /\ Going(r) /\ todo[r] = <<>> /\ (\A s \in Ranks \ {r} : Same(s))
    BY DEF ReturnAtOnce, Idle, Going, Same, IInv, TypeOK
  <1>2. mode = "smoke" /\ todo'[r] = ExitCollectives(0)
    BY DEF ReturnAtOnce, IInv, TypeOK
  <1>3. After' = After
    BY <1>1, CourseStays
  <1>4. Place(r) = 1 /\ Place(r)' = After /\ After \in Nat /\ After >= 3
    BY <1>3, Placed DEF ReturnAtOnce, IInv, TypeOK, Place
  <1>5. \A n : HandlerExit(n) = <<>> /\ StepCollectives(n) = <<>>
    BY <1>2 DEF HandlerExit, StepCollectives
  <1>6. \A n : ExitCollectives(n) = ExitCollectives(0)
    BY <1>5 DEF ExitCollectives
  <1>7. todo'[r] = Course[After]
    BY <1>2, <1>6, CourseAt DEF IInv
  <1>8. \A k \in 2 .. After - 1 : Course[k] = <<>>
    <2>1. \A k \in 2 .. After - 1 : k = 2 \/ k \in 3 .. After - 1
      BY <1>4
    <2>2. QED
      BY <2>1, <1>5, CourseAt DEF IInv
  <1>9. PICK p, n : p = Place(r) /\ n = Place(r)'
    OBVIOUS
  <1>10. p < n /\ \A k \in p + 1 .. n - 1 : Course[k] = <<>>
    BY <1>4, <1>8, <1>9
  <1>11. todo'[r] = Course[n]
    BY <1>4, <1>7, <1>9
  <1>12. QED
    BY <1>1, <1>9, <1>10, <1>11, Advance

LEMMA BeginKeeps ==
  ASSUME IInv, ClockIndependent, TypeOK', NEW r \in Ranks, BeginStep(r)
  PROVE  RanksAreTogether'
  <1>1. UNCHANGED runVars /\ Going(r) /\ todo[r] = <<>> /\ (\A s \in Ranks \ {r} : Same(s))
    BY DEF BeginStep, Idle, Going, Same, IInv, TypeOK
  <1>2. /\ stage[r] = "measuring" /\ stage'[r] = "measuring" /\ minimum' = minimum
        /\ steps'[r] = steps[r] + 1 /\ todo'[r] = StepCollectives(steps[r] + 1)
    BY DEF BeginStep, IInv, TypeOK, runVars
  <1>3. steps[r] \in Nat /\ steps[r] + 1 \in 1 .. MaxSteps
    BY Numbers DEF BeginStep, IInv, TypeOK
  <1>4. CASE minimum = 0
    <2>1. steps[r] + 1 \in 1 .. Iterations
      BY <1>4, <1>3, Numbers DEF BeginStep, LoopEnds
    <2>2. Place(r) = 2 + steps[r] /\ Place(r)' = 3 + steps[r]
      BY <1>2, <1>3, <1>4 DEF Place
    <2>3. steps[r] + 3 \in 3 .. After - 1 /\ (steps[r] + 3) - 2 = steps[r] + 1
      BY <1>3, <1>4, <2>1, Numbers DEF After
    <2>4. Course[steps[r] + 3] = StepCollectives(steps[r] + 1)
      BY <2>3, CourseAt DEF IInv
    <2>5. PICK p, n : p = Place(r) /\ n = Place(r)'
      OBVIOUS
    <2>6. p < n /\ n = steps[r] + 3 /\ \A k \in p + 1 .. n - 1 : Course[k] = <<>>
      BY <1>3, <2>2, <2>5
    <2>7. todo'[r] = Course[n]
      BY <1>2, <2>4, <2>6
    <2>8. QED
      BY <1>1, <2>5, <2>6, <2>7, Advance
  <1>5. CASE minimum # 0
    <2>1. StepCollectives(steps[r] + 1) = <<>>
      BY <1>3, <1>5 DEF ClockIndependent
    <2>2. Place(r)' = Place(r) /\ todo'[r] = todo[r]
      BY <1>1, <1>2, <1>5, <2>1 DEF Place
    <2>3. QED
      BY <1>1, <2>2, SamePlace, Quiet DEF Same
  <1>6. QED
    BY <1>4, <1>5

LEMMA LeaveKeeps ==
  ASSUME IInv, ClockIndependent, TypeOK', NEW r \in Ranks, Leave(r)
  PROVE  RanksAreTogether'
  <1>1. UNCHANGED runVars /\ Going(r) /\ todo[r] = <<>> /\ (\A s \in Ranks \ {r} : Same(s))
    BY DEF Leave, Idle, Going, Same, IInv, TypeOK
  <1>2. /\ stage[r] = "measuring" /\ stage'[r] = "leaving" /\ LoopEnds(r)
        /\ todo'[r] = ExitCollectives(steps[r])
    BY DEF Leave, IInv, TypeOK
  <1>3. Place(r)' = After
    BY <1>1, <1>2, CourseStays DEF Place
  <1>4. Place(r) \in Nat /\ Place(r) = After - 1 /\ After \in Nat
    <2>1. After \in Nat /\ Place(r) \in Nat
      BY Placed DEF IInv
    <2>2. CASE minimum = 0
      <3>1. steps[r] \in 0 .. Iterations /\ Iterations \in Nat
        BY <2>2, Numbers DEF IInv, TypeOK
      <3>2. steps[r] >= Iterations
        BY <1>2, <2>2 DEF LoopEnds
      <3>3. Place(r) = 2 + steps[r] /\ After = 3 + Iterations
        BY <1>2, <2>2 DEF Place, After
      <3>4. QED
        BY <2>1, <3>1, <3>2, <3>3
    <2>3. CASE minimum # 0
      <3>1. Place(r) = 2 /\ After = 3
        BY <1>2, <2>3 DEF Place, After
      <3>2. QED
        BY <2>1, <3>1
    <2>4. QED
      BY <2>2, <2>3
  <1>5. ExitCollectives(steps[r]) = ExitCollectives(IF minimum = 0 THEN Iterations ELSE 0)
    <2>1. CASE minimum = 0
      BY <1>2, <2>1, Numbers DEF LoopEnds, IInv, TypeOK
    <2>2. CASE minimum # 0
      <3>1. steps[r] \in 1 .. MaxSteps
        BY <1>2, <2>2, Numbers DEF LoopEnds, IInv, TypeOK
      <3>2. HandlerExit(steps[r]) = HandlerExit(0)
        BY <2>2, <3>1 DEF ClockIndependent
      <3>3. QED
        BY <2>2, <3>2 DEF ExitCollectives
    <2>3. QED
      BY <2>1, <2>2
  <1>6. todo'[r] = Course[After]
    BY <1>2, <1>5, CourseAt DEF IInv
  <1>7. PICK p, n : p = Place(r) /\ n = Place(r)'
    OBVIOUS
  <1>8. p < n /\ \A k \in p + 1 .. n - 1 : Course[k] = <<>>
    BY <1>3, <1>4, <1>7
  <1>9. todo'[r] = Course[n]
    BY <1>3, <1>6, <1>7
  <1>10. QED
    BY <1>1, <1>7, <1>8, <1>9, Advance

LEMMA MeetKeeps ==
  ASSUME IInv, ClockIndependent, Meet
  PROVE  RanksAreTogether'
  <1>1. PICK course : course = Course
    OBVIOUS
  <1>2. UNCHANGED runVars /\ stage' = stage /\ steps' = steps
    BY DEF Meet
  <1>3. course = Course' /\ After' = After /\ minimum' = minimum
    BY <1>1, <1>2, CourseStays DEF runVars
  <1>4. \A r \in Ranks : Place(r)' = Place(r)
    BY <1>2, <1>3 DEF Place
  <1>5. todo'[0] = todo'[1] /\ Place(0) = Place(1)
    BY WaitingTogether DEF Meet, Ranks
  <1>6. \A r, s \in Ranks : todo'[r] = todo'[s] /\ Place(r)' = Place(s)'
    BY <1>4, <1>5 DEF Ranks
  <1>7. \A r \in Ranks : Place(r)' \in Nat
    BY <1>4, Placed DEF IInv
  <1>8. ASSUME NEW r \in Ranks, NEW s \in Ranks
        PROVE  Together(course, Place(r)', todo'[r], Place(s)', todo'[s])
    BY <1>6, <1>7 DEF Together, Behind
  <1>9. QED
    BY <1>3, <1>8 DEF RanksAreTogether

(* A rank that ends leaves the others where they are. *)
LEMMA EndingKeeps ==
  ASSUME IInv, ClockIndependent, NEW r \in Ranks,
         DurationUnmet(r) \/ Complete(r) \/ Fail(r) \/ GroupTimeout(r) \/ Kill(r)
  PROVE  RanksAreTogether'
  <1>1. UNCHANGED runVars /\ (\A s \in Ranks \ {r} : Same(s)) /\ ~Going(r)'
    BY DEF DurationUnmet, Complete, Fail, GroupTimeout, Kill, Same, Going, Ended, IInv, TypeOK
  <1>2. QED
    BY <1>1, SamePlace, Quiet DEF Same

LEMMA TogetherStep ==
  ASSUME IInv, ClockIndependent, TypeOK', [Next]_vars
  PROVE  RanksAreTogether'
  <1>1. CASE Tick \/ UNCHANGED vars
    <2>1. UNCHANGED runVars /\ \A s \in Ranks : Same(s)
      BY <1>1 DEF Tick, vars, runVars, Same
    <2>2. QED
      BY <2>1, SamePlace, Quiet DEF Same
  <1>2. ASSUME NEW r \in Ranks, PassAlone(r)
        PROVE  FALSE
    BY <1>2, NoMismatch DEF PassAlone
  <1>3. QED
    BY <1>1, <1>2, EnterKeeps, MeasureKeeps, ReturnKeeps, BeginKeeps, LeaveKeeps, MeetKeeps,
       EndingKeeps DEF Next, RankStep

-----------------------------------------------------------------------------
(* No rank ends alone *)

LEMMA JointStep ==
  ASSUME IInv, ClockIndependent, [Next]_vars
  PROVE  EndIsJoint'
  <1>0. TypeOK
    BY DEF IInv
  <1>1. CASE Meet
    <2>1. ASSUME NEW r \in Ranks, PassedTheEnd(r)', NEW s \in Ranks
          PROVE  Measured(s)
      <3>1. stage[r] = "leaving"
        BY <1>1, <2>1 DEF Meet, PassedTheEnd, Waiting, Ended
      <3>2. Place(r) = After /\ Place(s) = Place(r)
        BY <1>1, <2>1, <3>1, WaitingTogether DEF Meet, Place, Ranks
      <3>3. stage[s] \notin {"completed", "failed", "timed_out", "killed"}
        BY <1>1, <2>1 DEF Meet, Waiting, Ended
      <3>4. stage[s] = "leaving"
        BY <1>0, <2>1, <3>2, <3>3, Numbers DEF Place, After, TypeOK
      <3>5. QED
        BY <2>1, <3>4 DEF IInv, LeavingIsMeasured
    <2>2. QED
      BY <2>1, MeasuredIsFinal DEF EndIsJoint
  <1>2. ASSUME NEW r \in Ranks, Leave(r) \/ ReturnAtOnce(r)
        PROVE  \A s \in Ranks : PassedTheEnd(s)' => PassedTheEnd(s)
    <2>1. \A s \in Ranks \ {r} : stage'[s] = stage[s] /\ todo'[s] = todo[s]
      BY <1>0, <1>2 DEF Leave, ReturnAtOnce, TypeOK
    <2>2. stage'[r] = "leaving" /\ todo'[r] # <<>>
      BY <1>0, <1>2, ExitType DEF Leave, ReturnAtOnce, TypeOK
    <2>3. QED
      BY <2>1, <2>2 DEF PassedTheEnd
  <1>3. ASSUME NEW r \in Ranks,
               \/ Enter(r) \/ Measure(r) \/ BeginStep(r) \/ DurationUnmet(r) \/ Complete(r)
               \/ Fail(r) \/ GroupTimeout(r) \/ Kill(r)
        PROVE  \A s \in Ranks : PassedTheEnd(s)' => PassedTheEnd(s)
    <2>1. \A s \in Ranks \ {r} : stage'[s] = stage[s] /\ todo'[s] = todo[s]
      BY <1>0, <1>3 DEF Enter, Measure, BeginStep, DurationUnmet, Complete, Fail, GroupTimeout, Kill, TypeOK
    <2>2. PassedTheEnd(r)' => PassedTheEnd(r)
      BY <1>0, <1>3 DEF Enter, Measure, BeginStep, DurationUnmet, Complete, Fail, GroupTimeout, Kill,
                       TypeOK, PassedTheEnd, Idle
    <2>3. QED
      BY <2>1, <2>2 DEF PassedTheEnd
  <1>4. CASE Tick \/ UNCHANGED vars
    <2>1. \A s \in Ranks : PassedTheEnd(s)' => PassedTheEnd(s)
      BY <1>4 DEF Tick, vars, PassedTheEnd
    <2>2. QED
      BY <2>1, EndStays
  <1>5. ASSUME NEW r \in Ranks, PassAlone(r)
        PROVE  FALSE
    BY <1>5, NoMismatch DEF PassAlone
  <1>6. QED
    BY <1>1, <1>2, <1>3, <1>4, <1>5, EndStays DEF Next, RankStep

-----------------------------------------------------------------------------
(* The invariant *)

LEMMA BegunStep ==
  ASSUME IInv, [Next]_vars
  PROVE  NotYetBegun'
  <1>1. ASSUME NEW r \in Ranks, BeginStep(r)
        PROVE  NotYetBegun'
    BY <1>1 DEF BeginStep, NotYetBegun, IInv, TypeOK
  <1>2. ASSUME NEW r \in Ranks,
               \/ Enter(r) \/ Measure(r) \/ ReturnAtOnce(r) \/ Leave(r) \/ DurationUnmet(r)
               \/ Complete(r) \/ Fail(r) \/ GroupTimeout(r) \/ Kill(r) \/ PassAlone(r)
        PROVE  NotYetBegun'
    BY <1>2 DEF Enter, Measure, ReturnAtOnce, Leave, DurationUnmet, Complete, Fail, GroupTimeout,
                Kill, PassAlone, NotYetBegun, IInv, TypeOK
  <1>3. CASE Meet \/ Tick \/ UNCHANGED vars
    BY <1>3 DEF Meet, Tick, vars, NotYetBegun, IInv
  <1>4. QED
    BY <1>1, <1>2, <1>3 DEF Next, RankStep

LEMMA LeavingStep ==
  ASSUME IInv, [Next]_vars
  PROVE  LeavingIsMeasured'
  <1>0. TypeOK
    BY DEF IInv
  <1>1. ASSUME NEW s \in Ranks, stage[s] \in {"leaving", "completed"}
        PROVE  Measured(s)'
    BY <1>1, MeasuredIsFinal DEF IInv, LeavingIsMeasured
  <1>2. ASSUME NEW r \in Ranks, Leave(r)
        PROVE  LeavingIsMeasured'
    <2>1. \A s \in Ranks \ {r} : stage'[s] = stage[s]
      BY <1>0, <1>2 DEF Leave, TypeOK
    <2>2. Measured(r)
      <3>1. LoopEnds(r) /\ Limit \in Nat
        BY <1>0, <1>2, Numbers DEF Leave, TypeOK, Limit
      <3>2. CASE minimum = 0
        BY <1>0, <3>1, <3>2, Numbers DEF LoopEnds, Measured, TypeOK
      <3>3. CASE minimum # 0
        <4>1. elapsed[r] >= Limit /\ steps[r] > 0
          BY <3>1, <3>3 DEF LoopEnds
        <4>2. elapsed[r] \in 0 .. Limit
          BY <1>0 DEF TypeOK
        <4>3. elapsed[r] = Limit
          BY <3>1, <4>1, <4>2
        <4>4. QED
          BY <3>3, <4>1, <4>3 DEF Measured
      <3>4. QED
        BY <3>2, <3>3
    <2>3. QED
      BY <1>1, <2>1, <2>2, MeasuredIsFinal DEF LeavingIsMeasured
  <1>3. ASSUME NEW r \in Ranks, ReturnAtOnce(r)
        PROVE  LeavingIsMeasured'
    <2>1. \A s \in Ranks \ {r} : stage'[s] = stage[s]
      BY <1>0, <1>3 DEF ReturnAtOnce, TypeOK
    <2>2. Measured(r)
      BY <1>3 DEF ReturnAtOnce, Measured
    <2>3. QED
      BY <1>1, <2>1, <2>2, MeasuredIsFinal DEF LeavingIsMeasured
  <1>4. ASSUME \A s \in Ranks : stage'[s] \in {"leaving", "completed"}
                                => stage[s] \in {"leaving", "completed"}
        PROVE  LeavingIsMeasured'
    BY <1>1, <1>4 DEF LeavingIsMeasured
  <1>5. ASSUME NEW r \in Ranks,
               \/ Enter(r) \/ Measure(r) \/ BeginStep(r) \/ DurationUnmet(r) \/ Complete(r)
               \/ Fail(r) \/ GroupTimeout(r) \/ Kill(r) \/ PassAlone(r)
        PROVE  \A s \in Ranks : stage'[s] \in {"leaving", "completed"}
                                => stage[s] \in {"leaving", "completed"}
    BY <1>0, <1>5 DEF Enter, Measure, BeginStep, DurationUnmet, Complete, Fail, GroupTimeout, Kill,
                     PassAlone, TypeOK
  <1>6. CASE Meet \/ Tick \/ UNCHANGED vars
    BY <1>4, <1>6 DEF Meet, Tick, vars
  <1>7. QED
    BY <1>2, <1>3, <1>4, <1>5, <1>6 DEF Next, RankStep

LEMMA ParametersStay ==
  ASSUME [Next]_vars
  PROVE  UNCHANGED runVars
  BY DEF Next, vars, runVars, Meet, PassAlone, RankStep, Enter, Measure, ReturnAtOnce,
         BeginStep, Leave, DurationUnmet, Complete, Fail, GroupTimeout, Kill, Tick

LEMMA EveryStep ==
  IInv /\ [Next]_vars => IInv'
  <1> SUFFICES ASSUME IInv, [Next]_vars
               PROVE  IInv'
    OBVIOUS
  <1>1. TypeOK'
    BY TypeStep DEF IInv
  <1>2. ClockIndependent' = ClockIndependent
    BY ParametersStay, CourseStays
  <1>3. ClockIndependent => RanksAreTogether' /\ EndIsJoint'
    BY <1>1, TogetherStep, JointStep
  <1>4. NotYetBegun' /\ LeavingIsMeasured'
    BY BegunStep, LeavingStep
  <1>5. QED
    BY <1>1, <1>2, <1>3, <1>4 DEF IInv

LEMMA Begins ==
  Init => IInv
  <1> SUFFICES ASSUME Init
               PROVE  IInv
    OBVIOUS
  <1>1. schedule \subseteq 1 .. MaxSteps
    BY DEF Init, Schedules, SparseStrategies
  <1>2. minimum \in Nat /\ Limit \in Nat
    BY Numbers DEF Init, Limit
  <1>3. TypeOK
    <2>1. sleeper \subseteq Ranks
      BY DEF Init
    <2>2. todo \in [Ranks -> Seq(Collectives)]
      BY MainType DEF Init
    <2>3. steps \in [Ranks -> 0 .. (IF minimum = 0 THEN Iterations ELSE MaxSteps)]
      BY <1>2, Numbers DEF Init
    <2>4. elapsed \in [Ranks -> 0 .. Limit]
      BY <1>2 DEF Init
    <2>5. QED
      BY <1>1, <2>1, <2>2, <2>3, <2>4 DEF Init, TypeOK
  <1>4. NotYetBegun /\ LeavingIsMeasured /\ EndIsJoint
    BY DEF Init, NotYetBegun, LeavingIsMeasured, EndIsJoint, PassedTheEnd
  <1>5. \A r \in Ranks : Place(r) = 0 /\ todo[r] = MainCollectives
    BY DEF Init, Place
  <1>6. RanksAreTogether
    BY <1>5 DEF RanksAreTogether, Together, Behind
  <1>7. QED
    BY <1>3, <1>4, <1>6 DEF IInv

LEMMA Invariant ==
  Spec => []IInv
  BY Begins, EveryStep, PTL DEF Spec

(* The variables of worker.py's ranks keep their types: no rank makes more *)
(* iterations than its run asks for.                                       *)
THEOREM TypeCorrect ==
  Spec => []TypeOK
  <1>1. IInv => TypeOK
    BY DEF IInv
  <1>2. QED
    BY <1>1, Invariant, PTL

(* Two ranks that both wait in a collective wait in the same one, for every *)
(* schedule, count and duration, as long as the collectives of the run do  *)
(* not depend on the ranks' clocks.                                        *)
THEOREM MatchCorrect ==
  Spec => []CollectivesMatch
  <1>1. IInv => CollectivesMatch
    BY NoMismatch DEF CollectivesMatch
  <1>2. QED
    BY <1>1, Invariant, PTL

(* A rank that completes has met the other one after its full measurement. *)
THEOREM JointCorrect ==
  Spec => []CompletionIsJoint
  <1>1. IInv => CompletionIsJoint
    BY DEF IInv, CompletionIsJoint, EndIsJoint, PassedTheEnd
  <1>2. QED
    BY <1>1, Invariant, PTL

-----------------------------------------------------------------------------
(* The ranks as processes *)

LEMMA StatesOf ==
  ASSUME TypeOK, NEW r \in Ranks
  PROVE  /\ stage[r] \in {"starting", "entering", "measuring"} => RankState(r) = "working"
         /\ stage[r] = "leaving" =>
              RankState(r) = IF todo[r] = <<>> THEN "leaving" ELSE "working"
         /\ stage[r] = "completed" => RankState(r) = "teardown"
         /\ stage[r] \in {"failed", "timed_out"} => RankState(r) = "failed"
         /\ stage[r] = "killed" => RankState(r) = "killed"
         /\ ~Ended(r) => RankState(r) \in {"working", "leaving"}
         /\ Waiting(r) => RankState(r) = "working"
  BY DEF TypeOK, RankState, Ended, Waiting

(* What a step of one rank, which leaves the other where it is, is to the  *)
(* processes.                                                              *)
OnlyMoves(r, from, to) ==
  /\ RankState(r) = from /\ RankState(r)' = to
  /\ \A s \in Ranks \ {r} : RankState(s)' = RankState(s)

LEMMA MoveOfOne ==
  ASSUME NEW r \in Ranks, ClockIndependent' = ClockIndependent,
         \/ OnlyMoves(r, "leaving", "teardown")
         \/ OnlyMoves(r, "leaving", "failed") \/ OnlyMoves(r, "working", "failed")
         \/ /\ OnlyMoves(r, "leaving", "killed") \/ OnlyMoves(r, "working", "killed")
            /\ RankState(Other(r)) \in {"failed", "killed"}
  PROVE  Processes!RanksStep
  <1> DEFINE states == [s \in Ranks |-> RankState(s)]
  <1>0. Other(r) \in Ranks
    BY DEF Ranks, Other
  <1>1. ASSUME NEW from, NEW to, OnlyMoves(r, from, to)
        PROVE  states[r] = from /\ states' = [states EXCEPT ![r] = to]
    BY <1>1 DEF OnlyMoves
  <1>2. CASE OnlyMoves(r, "leaving", "teardown")
    BY <1>1, <1>2 DEF Processes!RanksStep, Processes!Completes, Processes!Ranks, Ranks
  <1>3. CASE OnlyMoves(r, "leaving", "failed") \/ OnlyMoves(r, "working", "failed")
    BY <1>1, <1>3 DEF Processes!RanksStep, Processes!Fails, Processes!Alive, Processes!Ranks, Ranks
  <1>4. CASE /\ OnlyMoves(r, "leaving", "killed") \/ OnlyMoves(r, "working", "killed")
             /\ RankState(Other(r)) \in {"failed", "killed"}
    <2>1. states[Other(r)] \in {"failed", "killed"}
      BY <1>0, <1>4
    <2>2. QED
      BY <1>1, <1>4, <2>1 DEF Processes!RanksStep, Processes!IsKilled, Processes!Alive,
         Processes!Broken, Processes!Other, Other, Processes!Ranks, Ranks
  <1>5. QED
    BY <1>2, <1>3, <1>4

(* Some ranks pass a collective: those that pass their last one have now   *)
(* left.                                                                   *)
LEMMA PassingKeeps ==
  ASSUME TypeOK, ClockIndependent' = ClockIndependent, \A r \in Ranks : Waiting(r),
         UNCHANGED stage, ClockIndependent => \A r, s \in Ranks : RankState(r)' = RankState(s)'
  PROVE  [Processes!RanksStep]_<<ClockIndependent, [r \in Ranks |-> RankState(r)]>>
  <1> DEFINE states == [s \in Ranks |-> RankState(s)]
             passed == {r \in Ranks : RankState(r)' = "leaving"}
  <1>1. \A r \in Ranks : RankState(r) = "working"
    BY StatesOf
  <1>2. \A r \in Ranks : RankState(r)' \in {"working", "leaving"}
    BY DEF RankState, Waiting, Ended, TypeOK
  <1>3. CASE passed = {}
    BY <1>1, <1>2, <1>3
  <1>4. CASE passed # {}
    <2>1. ClockIndependent => passed = Ranks
      BY <1>4
    <2>2. states' = [r \in Ranks |-> IF r \in passed THEN "leaving" ELSE "working"]
      BY <1>2
    <2>3. \A r \in Ranks : states[r] = "working"
      BY <1>1
    <2>4. passed \in (SUBSET Ranks) \ {{}}
      BY <1>4
    <2> HIDE DEF states, passed
    <2>5. QED
      BY <2>1, <2>2, <2>3, <2>4
         DEF Processes!RanksStep, Processes!PassFinalBarrier, Processes!Ranks, Ranks, states
  <1>5. QED
    BY <1>3, <1>4

LEMMA ProcessStep ==
  ASSUME IInv, [Next]_vars
  PROVE  [Processes!RanksStep]_<<ClockIndependent, [r \in Ranks |-> RankState(r)]>>
  <1>0. TypeOK /\ TypeOK' /\ ClockIndependent' = ClockIndependent
    BY TypeStep, ParametersStay, CourseStays DEF IInv
  <1>1. ASSUME \A s \in Ranks : RankState(s)' = RankState(s)
        PROVE  UNCHANGED <<ClockIndependent, [r \in Ranks |-> RankState(r)]>>
    BY <1>0, <1>1
  <1>2. ASSUME NEW r \in Ranks,
               Enter(r) \/ Measure(r) \/ ReturnAtOnce(r) \/ BeginStep(r) \/ Leave(r)
        PROVE  \A s \in Ranks : RankState(s)' = RankState(s)
    <2>1. \A s \in Ranks \ {r} : stage'[s] = stage[s] /\ todo'[s] = todo[s]
      BY <1>0, <1>2 DEF Enter, Measure, ReturnAtOnce, BeginStep, Leave, TypeOK
    <2>2. /\ stage[r] \in {"starting", "entering", "measuring"}
          /\ \/ stage'[r] \in {"entering", "measuring"}
             \/ stage'[r] = "leaving" /\ todo'[r] # <<>>
      BY <1>0, <1>2, ExitType DEF Enter, Measure, ReturnAtOnce, BeginStep, Leave, TypeOK
    <2>3. RankState(r)' = RankState(r)
      BY <2>2 DEF RankState
    <2>4. QED
      BY <2>1, <2>3 DEF RankState
  <1>3. ASSUME NEW r \in Ranks, Complete(r)
        PROVE  OnlyMoves(r, "leaving", "teardown")
    BY <1>0, <1>3 DEF Complete, Idle, OnlyMoves, RankState, TypeOK
  <1>4. ASSUME NEW r \in Ranks, DurationUnmet(r) \/ Fail(r) \/ GroupTimeout(r)
        PROVE  OnlyMoves(r, "leaving", "failed") \/ OnlyMoves(r, "working", "failed")
    <2>1. /\ ~Ended(r) /\ stage'[r] \in {"failed", "timed_out"} /\ todo' = todo
          /\ \A s \in Ranks \ {r} : stage'[s] = stage[s]
      BY <1>0, <1>4 DEF DurationUnmet, Fail, GroupTimeout, Deserted, Waiting, Idle, TypeOK
    <2>2. QED
      BY <1>0, <2>1, StatesOf DEF OnlyMoves, RankState
  <1>5. ASSUME NEW r \in Ranks, Kill(r)
        PROVE  /\ OnlyMoves(r, "leaving", "killed") \/ OnlyMoves(r, "working", "killed")
               /\ RankState(Other(r)) \in {"failed", "killed"}
    <2>1. /\ ~Ended(r) /\ stage'[r] = "killed" /\ todo' = todo
          /\ \A s \in Ranks \ {r} : stage'[s] = stage[s]
          /\ stage[Other(r)] \in {"failed", "timed_out"}
      BY <1>0, <1>5 DEF Kill, TypeOK
    <2>2. QED
      BY <1>0, <2>1, StatesOf DEF OnlyMoves, RankState
  <1>6. CASE Meet
    <2>1. \A r \in Ranks : Waiting(r)
      BY <1>6 DEF Meet
    <2>2. ASSUME ClockIndependent, NEW r \in Ranks, NEW s \in Ranks
          PROVE  RankState(r)' = RankState(s)'
      <3>1. todo'[r] = todo'[s] /\ Place(r) = Place(s) /\ stage' = stage
        BY <1>6, <2>2, WaitingTogether DEF Meet, Ranks
      <3>2. ASSUME NEW k \in Ranks
            PROVE  stage[k] = "leaving" <=> Place(k) = After
        <4>1. stage[k] \in {"starting", "entering", "measuring", "leaving"}
          BY <1>0, <2>1 DEF TypeOK, Waiting, Ended
        <4>2. stage[k] # "leaving" => Place(k) < After
          <5>1. minimum \in Nat /\ steps[k] \in 0 .. (IF minimum = 0 THEN Iterations ELSE MaxSteps)
            BY <1>0, Numbers DEF TypeOK
          <5>2. QED
            BY <4>1, <5>1, Numbers DEF Place, After
        <4>3. Place(k) \in Nat /\ After \in Nat
          BY <1>0, Placed
        <4>4. QED
          BY <4>1, <4>2, <4>3 DEF Place
      <3>3. QED
        BY <1>0, <2>1, <3>1, <3>2 DEF RankState, Waiting, Ended, TypeOK
    <2>3. QED
      BY <1>0, <1>6, <2>1, <2>2, PassingKeeps DEF Meet
  <1>7. ASSUME NEW r \in Ranks, PassAlone(r)
        PROVE  [Processes!RanksStep]_<<ClockIndependent, [s \in Ranks |-> RankState(s)]>>
    BY <1>0, <1>7, NoMismatch, PassingKeeps DEF PassAlone, Mismatched
  <1>8. CASE Tick \/ UNCHANGED vars
    BY <1>1, <1>8 DEF Tick, vars, RankState
  <1>9. QED
    BY <1>0, <1>1, <1>2, <1>3, <1>4, <1>5, <1>6, <1>7, <1>8, MoveOfOne DEF Next, RankStep

(* Whatever the mode, the counts and the clocks, the two ranks behave as    *)
(* the processes of RankProcesses, which the launcher's runs are built on. *)
THEOREM RanksAreProcesses ==
  Spec => ImplementsProcesses
  <1>1. Init => Processes!RanksBegin
    <2> SUFFICES ASSUME Init PROVE Processes!RanksBegin
      OBVIOUS
    <2>1. \A r \in Ranks : RankState(r) = "working"
      BY DEF Init, RankState
    <2>2. ClockIndependent \in BOOLEAN
      BY DEF ClockIndependent
    <2>3. QED
      BY <2>1, <2>2 DEF Processes!RanksBegin, Processes!Ranks, Ranks
  <1>2. IInv /\ [Next]_vars =>
          [Processes!RanksStep]_<<ClockIndependent, [r \in Ranks |-> RankState(r)]>>
    BY ProcessStep
  <1>3. QED
    BY <1>1, <1>2, Invariant, PTL DEF Spec, ImplementsProcesses, Processes!RanksSpec

=============================================================================
