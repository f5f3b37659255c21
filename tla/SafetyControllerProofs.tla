------------------------ MODULE SafetyControllerProofs ------------------------
(***************************************************************************)
(* Theorems about SafetyController, for every set of simulations, settings *)
(* and readings.                                                           *)
(*                                                                         *)
(* The latches are what keeps an alert from being repeated, so the         *)
(* argument is one equation: a level is latched exactly when the readings  *)
(* evaluated since its last alert do not allow another (Mirrors).  What    *)
(* the state says of the latches needs, besides, the simulations that have *)
(* cleared them and not yet evaluated.                                     *)
(***************************************************************************)
EXTENDS SafetyController, TLAPS

Mirrors ==
  /\ rearmed["warning"] = ~warningLatched
  /\ rearmed["critical"] = ~criticalLatched

(* TypeOK by the group of variables it speaks of. *)
WorldTyped == cfg \in Configs /\ reading \in Readings /\ clock \in Nat

LatchesTyped ==
  /\ state \in States
  /\ warningLatched \in BOOLEAN
  /\ criticalLatched \in BOOLEAN
  /\ shutdownLatched \in BOOLEAN
  /\ rearmed \in [Levels -> BOOLEAN]

PlanTyped ==
  /\ lastPlan \subseteq Commands
  /\ lastActionAt \in Nat \cup {Never}

ThreadsTyped ==
  /\ pc \in [Threads -> {"idle", "unlatch", "config", "tick"} \cup Levels]
  /\ cfgOf \in [Threads -> Configs \cup {NoConfig}]
  /\ sampleOf \in [Threads -> ReadingType]
  /\ sampledAt \in [Threads -> Nat \cup {Never}]
  /\ scenario \in [Threads -> Levels \cup {"none"}]
  /\ ThreadsReady

Typed == WorldTyped /\ LatchesTyped /\ PlanTyped /\ ThreadsTyped

LEMMA TypedIsTypeOK == Typed <=> TypeOK
BY DEF Typed, WorldTyped, LatchesTyped, PlanTyped, ThreadsTyped, TypeOK

(* What a saved configuration is known to satisfy. *)
LEMMA ConfigFields ==
  ASSUME NEW c \in Configs
  PROVE  /\ c.warning \in Percents
         /\ c.critical \in Percents
         /\ c.critical < c.warning
BY ConstantsAssumption DEF ConfigType

(* An evaluation is done by a thread that has its settings and its reading. *)
LEMMA EvaluatorFacts ==
  ASSUME Typed, NEW t \in Threads, pc[t] = "tick"
  PROVE  /\ cfgOf[t] \in Configs
         /\ sampledAt[t] \in Nat
         /\ sampleOf[t].percent \in Percents \cup {NoPercent}
         /\ sampleOf[t] \in ReadingType
BY DEF Typed, ThreadsTyped, ThreadsReady, ReadingType

-----------------------------------------------------------------------------
(* Type correctness. *)

LEMMA ReturnTyped ==
  ASSUME ThreadsTyped, NEW t \in Threads, Return(t)
  PROVE  ThreadsTyped'
<1>1. NoReading \in ReadingType
  BY DEF NoReading, ReadingType
<1> QED
  BY <1>1 DEF ThreadsTyped, ThreadsReady, Return, Goto

LEMMA AlertTyped ==
  ASSUME ThreadsTyped, LatchesTyped, NEW t \in Threads, NEW level \in Levels, Alert(t, level)
  PROVE  ThreadsTyped' /\ rearmed' \in [Levels -> BOOLEAN]
<1> DEFINE R == Recovers(cfgOf[t], sampleOf[t])
<1>1. ThreadsTyped'
  BY DEF ThreadsTyped, ThreadsReady, Alert, Goto, Levels
<1>2. rearmed' \in [Levels -> BOOLEAN]
  <2>1. rearmed' = [l \in Levels |->
          IF l = level \/ level = "critical" THEN FALSE ELSE rearmed[l] \/ l \in R]
    BY DEF Alert
  <2> HIDE DEF R
  <2> QED
    BY <2>1 DEF LatchesTyped
<1> QED
  BY <1>1, <1>2

LEMMA NoAlertTyped ==
  ASSUME ThreadsTyped, LatchesTyped, NEW t \in Threads, NoAlert(t)
  PROVE  ThreadsTyped' /\ rearmed' \in [Levels -> BOOLEAN]
<1> DEFINE R == Recovers(cfgOf[t], sampleOf[t])
<1>1. rearmed' = [l \in Levels |-> rearmed[l] \/ l \in R]
  BY DEF NoAlert
<1>2. Return(t)
  BY DEF NoAlert
<1> HIDE DEF R
<1>3. rearmed' \in [Levels -> BOOLEAN]
  BY <1>1 DEF LatchesTyped
<1> QED
  BY <1>2, <1>3, ReturnTyped

(* Clearing latches leaves Booleans, whichever are cleared. *)
LEMMA UnlatchTyped ==
  ASSUME LatchesTyped, NEW percent, NEW c
  PROVE  /\ UnlatchCritical(percent, c) => criticalLatched' \in BOOLEAN /\ shutdownLatched' \in BOOLEAN
         /\ UnlatchIfRecovered(percent, c) =>
              warningLatched' \in BOOLEAN /\ criticalLatched' \in BOOLEAN /\ shutdownLatched' \in BOOLEAN
<1> DEFINE W == Above(percent, c.warning)
           C == Above(percent, c.critical)
<1>1. UnlatchCritical(percent, c) =>
        criticalLatched' = (criticalLatched /\ ~C) /\ shutdownLatched' = (shutdownLatched /\ ~C)
  BY DEF UnlatchCritical
<1>2. UnlatchIfRecovered(percent, c) =>
        warningLatched' = (warningLatched /\ ~W) /\ UnlatchCritical(percent, c)
  BY DEF UnlatchIfRecovered
<1> HIDE DEF W, C
<1> QED
  BY <1>1, <1>2 DEF LatchesTyped

LEMMA TypedInit == Init => Typed
<1> SUFFICES ASSUME Init
             PROVE  Typed
  OBVIOUS
<1>1. NoReading \in ReadingType
  BY DEF NoReading, ReadingType
<1>2. WorldTyped
  BY DEF Init, WorldTyped
<1>3. LatchesTyped /\ PlanTyped
  BY DEF Init, LatchesTyped, PlanTyped, States
<1>4. ThreadsTyped
  BY <1>1 DEF Init, ThreadsTyped, ThreadsReady
<1> QED
  BY <1>2, <1>3, <1>4 DEF Typed

LEMMA TypedStep == Typed /\ [Next]_vars => Typed'
<1> SUFFICES ASSUME Typed, [Next]_vars
             PROVE  Typed'
  OBVIOUS
<1> USE DEF Typed
<1>1. CASE UNCHANGED vars
  BY <1>1 DEF vars, worldVars, latchVars, planVars, threadVars,
              WorldTyped, LatchesTyped, PlanTyped, ThreadsTyped, ThreadsReady
<1>2. CASE ReadingChanges \/ TimePasses \/ UpdateSettings
  BY <1>2 DEF ReadingChanges, TimePasses, UpdateSettings, latchVars, planVars, threadVars,
              WorldTyped, LatchesTyped, PlanTyped, ThreadsTyped, ThreadsReady
<1>3. CASE Poll
  <2>1. reading \in ReadingType
    BY ConstantsAssumption DEF WorldTyped
  <2>2. ThreadsTyped'
    BY <1>3, <2>1 DEF Poll, Goto, ThreadsTyped, ThreadsReady
  <2> QED
    BY <1>3, <2>2 DEF Poll, worldVars, latchVars, planVars, WorldTyped, LatchesTyped, PlanTyped
<1>4. ASSUME NEW t \in Simulators, Simulate(t)
      PROVE  Typed'
  <2>1. cfg \in Configs
    BY DEF WorldTyped
  <2>2. \A asked \in Levels : Simulated(cfg, asked) \in ReadingType
    BY <2>1, ConfigFields DEF Simulated, ReadingType
  <2>3. PICK asked \in Levels :
          /\ scenario' = [scenario EXCEPT ![t] = asked]
          /\ sampleOf' = [sampleOf EXCEPT ![t] = Simulated(cfg, asked)]
    BY <1>4 DEF Simulate
  <2>4. ThreadsTyped'
    BY <1>4, <2>2, <2>3 DEF Simulate, Goto, ThreadsTyped, ThreadsReady, Threads
  <2> QED
    BY <1>4, <2>4 DEF Simulate, worldVars, latchVars, planVars, WorldTyped, LatchesTyped, PlanTyped
<1>5. ASSUME NEW t \in Simulators, SimulateUnlatch(t)
      PROVE  Typed'
  <2>1. ThreadsTyped'
    BY <1>5 DEF SimulateUnlatch, Goto, ThreadsTyped, ThreadsReady, Threads
  <2>2. LatchesTyped'
    BY <1>5 DEF SimulateUnlatch, LatchesTyped
  <2> QED
    BY <1>5, <2>1, <2>2 DEF SimulateUnlatch, worldVars, planVars, WorldTyped, PlanTyped
<1>6. ASSUME NEW t \in Threads, TickConfig(t)
      PROVE  Typed'
  <2>1. ThreadsTyped'
    BY <1>6 DEF TickConfig, Goto, WorldTyped, ThreadsTyped, ThreadsReady
  <2> QED
    BY <1>6, <2>1 DEF TickConfig, worldVars, latchVars, planVars, WorldTyped, LatchesTyped, PlanTyped
<1>7. ASSUME NEW t \in Threads, EvaluateUnknown(t) \/ Emit(t)
      PROVE  Typed'
  <2>1. ThreadsTyped'
    BY <1>7, ReturnTyped DEF EvaluateUnknown, Emit
  <2> QED
    BY <1>7, <2>1 DEF EvaluateUnknown, Evaluate, Emit, worldVars, latchVars, planVars, States,
                      WorldTyped, LatchesTyped, PlanTyped
<1>8. ASSUME NEW t \in Threads, EvaluateAC(t)
      PROVE  Typed'
  <2>1. ThreadsTyped' /\ rearmed' \in [Levels -> BOOLEAN]
    BY <1>8, NoAlertTyped DEF EvaluateAC
  <2> QED
    BY <1>8, <2>1 DEF EvaluateAC, Evaluate, ResetLatches, worldVars, planVars, States,
                      WorldTyped, LatchesTyped, PlanTyped
<1>9. ASSUME NEW t \in Threads, EvaluateNotDischarging(t) \/ EvaluateNormal(t)
      PROVE  Typed'
  <2>1. ThreadsTyped' /\ rearmed' \in [Levels -> BOOLEAN]
    BY <1>9, NoAlertTyped DEF EvaluateNotDischarging, EvaluateNormal
  <2>2. warningLatched' \in BOOLEAN /\ criticalLatched' \in BOOLEAN /\ shutdownLatched' \in BOOLEAN
    BY <1>9, UnlatchTyped DEF EvaluateNotDischarging, EvaluateNormal, latchVars, LatchesTyped
  <2> QED
    BY <1>9, <2>1, <2>2 DEF EvaluateNotDischarging, EvaluateNormal, EvaluateOnBattery, Evaluate,
                            worldVars, planVars, States, WorldTyped, LatchesTyped, PlanTyped
<1>10. ASSUME NEW t \in Threads, EvaluateWarning(t)
       PROVE  Typed'
  <2>1. ThreadsTyped' /\ rearmed' \in [Levels -> BOOLEAN]
    BY <1>10, NoAlertTyped, AlertTyped DEF EvaluateWarning, Levels
  <2>2. criticalLatched' \in BOOLEAN /\ shutdownLatched' \in BOOLEAN
    BY <1>10, UnlatchTyped DEF EvaluateWarning
  <2> QED
    BY <1>10, <2>1, <2>2 DEF EvaluateWarning, EvaluateOnBattery, Evaluate,
                             worldVars, planVars, States, WorldTyped, LatchesTyped, PlanTyped
<1>11. ASSUME NEW t \in Threads, CriticalAlert(t)
       PROVE  Typed'
  <2>1. ThreadsTyped' /\ rearmed' \in [Levels -> BOOLEAN]
    BY <1>11, AlertTyped DEF CriticalAlert, Levels
  <2>2. sampledAt[t] \in Nat
    BY <1>11, EvaluatorFacts DEF CriticalAlert, EvaluateCritical, EvaluateOnBattery, Evaluate
  <2>3. IntendedPlan(cfgOf[t]) \subseteq Commands
    BY DEF IntendedPlan
  <2>4. shutdownLatched' \in BOOLEAN /\ PlanTyped'
    BY <1>11, <2>2, <2>3 DEF CriticalAlert, planVars, LatchesTyped, PlanTyped
  <2>5. state' \in States /\ warningLatched' \in BOOLEAN /\ criticalLatched' \in BOOLEAN
    BY <1>11 DEF CriticalAlert, EvaluateCritical, States
  <2>6. WorldTyped'
    BY <1>11 DEF CriticalAlert, EvaluateCritical, EvaluateOnBattery, Evaluate, worldVars, WorldTyped
  <2> QED
    BY <2>1, <2>4, <2>5, <2>6 DEF LatchesTyped
<1>12. ASSUME NEW t \in Threads, CriticalAgain(t)
       PROVE  Typed'
  <2>1. ThreadsTyped' /\ rearmed' \in [Levels -> BOOLEAN]
    BY <1>12, NoAlertTyped DEF CriticalAgain
  <2> QED
    BY <1>12, <2>1 DEF CriticalAgain, EvaluateCritical, EvaluateOnBattery, Evaluate, worldVars,
                       latchVars, planVars, States, WorldTyped, LatchesTyped, PlanTyped
<1> QED
  BY <1>1, <1>2, <1>3, <1>4, <1>5, <1>6, <1>7, <1>8, <1>9, <1>10, <1>11, <1>12 DEF Next, Tick

(* Every variable of the controller keeps a value of its kind. *)
THEOREM TypeCorrect == Spec => []TypeOK
<1>1. Typed => TypeOK
  BY TypedIsTypeOK
<1> QED
  BY TypedInit, TypedStep, <1>1, PTL DEF Spec

-----------------------------------------------------------------------------
(* The latches mirror the readings. *)

LEMMA NotAbove ==
  ASSUME NEW percent \in Percents \cup {NoPercent}, NEW threshold \in Percents, percent <= threshold
  PROVE  ~Above(percent, threshold)
BY DEF Above, Percents, NoPercent, RecoveryMargin

(* What an evaluation that raises nothing does to the history. *)
LEMMA RecoversOnBattery ==
  ASSUME Typed, NEW t \in Threads, EvaluateOnBattery(t),
         sampleOf[t].discharging \/ sampleOf[t].percent > cfgOf[t].warning
  PROVE  /\ "warning" \in Recovers(cfgOf[t], sampleOf[t]) <=> Above(sampleOf[t].percent, cfgOf[t].warning)
         /\ "critical" \in Recovers(cfgOf[t], sampleOf[t]) <=> Above(sampleOf[t].percent, cfgOf[t].critical)
BY DEF EvaluateOnBattery, OnBattery, Recovers, Above, Levels

LEMMA NoAlertHistory ==
  ASSUME NEW t \in Threads, NoAlert(t)
  PROVE  /\ rearmed'["warning"] = (rearmed["warning"] \/ "warning" \in Recovers(cfgOf[t], sampleOf[t]))
         /\ rearmed'["critical"] = (rearmed["critical"] \/ "critical" \in Recovers(cfgOf[t], sampleOf[t]))
<1> DEFINE R == Recovers(cfgOf[t], sampleOf[t])
<1>1. rearmed' = [l \in Levels |-> rearmed[l] \/ l \in R]
  BY DEF NoAlert
<1> HIDE DEF R
<1>2. "warning" \in Levels /\ "critical" \in Levels
  BY DEF Levels
<1>3. /\ rearmed'["warning"] = (rearmed["warning"] \/ "warning" \in R)
      /\ rearmed'["critical"] = (rearmed["critical"] \/ "critical" \in R)
  BY <1>1, <1>2, Zenon
<1> QED
  BY <1>3 DEF R

LEMMA UnlatchMirrors ==
  ASSUME Typed, Mirrors, NEW t \in Threads, EvaluateOnBattery(t), NoAlert(t),
         sampleOf[t].discharging \/ sampleOf[t].percent > cfgOf[t].warning,
         UnlatchIfRecovered(sampleOf[t].percent, cfgOf[t])
  PROVE  Mirrors'
<1> DEFINE W == Above(sampleOf[t].percent, cfgOf[t].warning)
           C == Above(sampleOf[t].percent, cfgOf[t].critical)
<1>1. warningLatched' = (warningLatched /\ ~W) /\ criticalLatched' = (criticalLatched /\ ~C)
  BY DEF UnlatchIfRecovered, UnlatchCritical
<1>2. rearmed'["warning"] = (rearmed["warning"] \/ W) /\ rearmed'["critical"] = (rearmed["critical"] \/ C)
  BY RecoversOnBattery, NoAlertHistory
<1> HIDE DEF W, C
<1> QED
  BY <1>1, <1>2 DEF Mirrors, Typed, LatchesTyped

LEMMA MirrorsStep == Typed /\ Mirrors /\ [Next]_vars => Mirrors'
<1> SUFFICES ASSUME Typed, Mirrors, [Next]_vars
             PROVE  Mirrors'
  OBVIOUS
<1>1. CASE UNCHANGED vars
  BY <1>1 DEF vars, latchVars, Mirrors
<1>2. CASE ReadingChanges \/ TimePasses \/ UpdateSettings \/ Poll
  BY <1>2 DEF ReadingChanges, TimePasses, UpdateSettings, Poll, latchVars, Mirrors
<1>3. ASSUME NEW t \in Simulators, Simulate(t)
      PROVE  Mirrors'
  BY <1>3 DEF Simulate, latchVars, Mirrors
<1>4. ASSUME NEW t \in Simulators, SimulateUnlatch(t)
      PROVE  Mirrors'
  <2>1. scenario[t] \in Levels
    BY <1>4 DEF SimulateUnlatch, Typed, ThreadsTyped, ThreadsReady, Threads
  <2> QED
    BY <1>4, <2>1 DEF SimulateUnlatch, Mirrors, Levels, Typed, LatchesTyped
<1>5. ASSUME NEW t \in Threads, TickConfig(t) \/ EvaluateUnknown(t) \/ Emit(t)
      PROVE  Mirrors'
  BY <1>5 DEF TickConfig, EvaluateUnknown, Emit, latchVars, Mirrors
<1>6. ASSUME NEW t \in Threads, EvaluateAC(t)
      PROVE  Mirrors'
  <2>1. "warning" \in Recovers(cfgOf[t], sampleOf[t]) /\ "critical" \in Recovers(cfgOf[t], sampleOf[t])
    BY <1>6 DEF EvaluateAC, Recovers, Levels
  <2> QED
    BY <1>6, <2>1, NoAlertHistory DEF EvaluateAC, ResetLatches, Mirrors
<1>7. ASSUME NEW t \in Threads, EvaluateNotDischarging(t)
      PROVE  Mirrors'
  <2>1. CASE sampleOf[t].percent > cfgOf[t].warning
    BY <1>7, <2>1, UnlatchMirrors DEF EvaluateNotDischarging
  <2>2. CASE ~(sampleOf[t].percent > cfgOf[t].warning)
    <3>1. Recovers(cfgOf[t], sampleOf[t]) = {}
      BY <1>7, <2>2 DEF EvaluateNotDischarging, EvaluateOnBattery, OnBattery, Recovers
    <3> QED
      BY <1>7, <2>2, <3>1, NoAlertHistory
         DEF EvaluateNotDischarging, latchVars, Mirrors, Typed, LatchesTyped
  <2> QED
    BY <2>1, <2>2
<1>8. ASSUME NEW t \in Threads, EvaluateNormal(t)
      PROVE  Mirrors'
  BY <1>8, UnlatchMirrors DEF EvaluateNormal
<1>9. ASSUME NEW t \in Threads, EvaluateWarning(t)
      PROVE  Mirrors'
  <2> DEFINE R == Recovers(cfgOf[t], sampleOf[t])
             C == Above(sampleOf[t].percent, cfgOf[t].critical)
  <2>1. /\ cfgOf[t].warning \in Percents
        /\ sampleOf[t].percent \in Percents \cup {NoPercent}
        /\ sampleOf[t].percent <= cfgOf[t].warning
    BY <1>9, EvaluatorFacts, ConfigFields DEF EvaluateWarning, EvaluateOnBattery, Evaluate
  <2>2. "warning" \notin R /\ ("critical" \in R <=> C)
    <3>1. ~Above(sampleOf[t].percent, cfgOf[t].warning)
      BY <2>1, NotAbove
    <3> QED
      BY <1>9, <3>1, RecoversOnBattery DEF EvaluateWarning
  <2>3. warningLatched' = TRUE /\ criticalLatched' = (criticalLatched /\ ~C)
    BY <1>9 DEF EvaluateWarning, UnlatchCritical
  <2>4. rearmed'["warning"] = FALSE /\ rearmed'["critical"] = (rearmed["critical"] \/ C)
    <3>1. CASE warningLatched
      BY <1>9, <2>2, <3>1, NoAlertHistory DEF EvaluateWarning, Mirrors, Typed, LatchesTyped
    <3>2. CASE ~warningLatched
      <4>1. rearmed' = [l \in Levels |-> IF l = "warning" \/ "warning" = "critical" THEN FALSE
                                         ELSE rearmed[l] \/ l \in R]
        BY <1>9, <3>2 DEF EvaluateWarning, Alert
      <4> HIDE DEF R, C
      <4>2. rearmed'["warning"] = FALSE
        BY <4>1 DEF Levels
      <4>3. rearmed'["critical"] = (rearmed["critical"] \/ "critical" \in R)
        BY <4>1, Zenon DEF Levels
      <4> QED
        BY <2>2, <4>2, <4>3
    <3> QED
      BY <3>1, <3>2
  <2> HIDE DEF C
  <2> QED
    BY <2>3, <2>4 DEF Mirrors, Typed, LatchesTyped
<1>10. ASSUME NEW t \in Threads, CriticalAlert(t)
       PROVE  Mirrors'
  BY <1>10 DEF CriticalAlert, Alert, Levels, Mirrors
<1>11. ASSUME NEW t \in Threads, CriticalAgain(t)
       PROVE  Mirrors'
  <2>1. /\ cfgOf[t].warning \in Percents
        /\ cfgOf[t].critical \in Percents
        /\ cfgOf[t].critical < cfgOf[t].warning
        /\ sampleOf[t].percent \in Percents \cup {NoPercent}
        /\ sampleOf[t].percent <= cfgOf[t].critical
    BY <1>11, EvaluatorFacts, ConfigFields
       DEF CriticalAgain, EvaluateCritical, EvaluateOnBattery, Evaluate
  <2>4. \A p \in Percents \cup {NoPercent}, low, high \in Percents :
          p <= low /\ low < high => p <= high
    BY DEF Percents, NoPercent
  <2>5. sampleOf[t].percent <= cfgOf[t].warning
    BY <2>1, <2>4
  <2>2. /\ ~Above(sampleOf[t].percent, cfgOf[t].warning)
        /\ ~Above(sampleOf[t].percent, cfgOf[t].critical)
    BY <2>1, <2>5, NotAbove
  <2>3. /\ "warning" \notin Recovers(cfgOf[t], sampleOf[t])
        /\ "critical" \notin Recovers(cfgOf[t], sampleOf[t])
    BY <1>11, <2>2, RecoversOnBattery DEF CriticalAgain, EvaluateCritical
  <2> QED
    BY <1>11, <2>3, NoAlertHistory DEF CriticalAgain, latchVars, Mirrors, Typed, LatchesTyped
<1> QED
  BY <1>1, <1>2, <1>3, <1>4, <1>5, <1>6, <1>7, <1>8, <1>9, <1>10, <1>11 DEF Next, Tick

-----------------------------------------------------------------------------
(* The state of the snapshot, and the plan, against the latches. *)

LEMMA AgreesStep == Typed /\ StateMatchesLatches /\ [Next]_vars => StateMatchesLatches'
<1> SUFFICES ASSUME Typed, StateMatchesLatches, [Next]_vars
             PROVE  StateMatchesLatches'
  OBVIOUS
<1> USE DEF StateMatchesLatches
<1>1. CASE UNCHANGED vars
  BY <1>1 DEF vars, latchVars, threadVars, Simulating
<1>2. CASE ReadingChanges \/ TimePasses \/ UpdateSettings
  BY <1>2 DEF ReadingChanges, TimePasses, UpdateSettings, latchVars, threadVars, Simulating
<1>3. CASE Poll
  <2>1. \A l \in Levels : Simulating(l) => Simulating(l)'
    BY <1>3, ConstantsAssumption DEF Poll, Goto, Simulating, Typed, ThreadsTyped, Threads
  <2> QED
    BY <1>3, <2>1 DEF Poll, latchVars, Levels
<1>4. ASSUME NEW t \in Simulators, Simulate(t)
      PROVE  StateMatchesLatches'
  <2>1. \A l \in Levels : Simulating(l) => Simulating(l)'
    BY <1>4 DEF Simulate, Goto, Simulating, Typed, ThreadsTyped, Threads
  <2> QED
    BY <1>4, <2>1 DEF Simulate, latchVars, Levels
<1>5. ASSUME NEW t \in Simulators, SimulateUnlatch(t)
      PROVE  StateMatchesLatches'
  <2>1. scenario[t] \in Levels
    BY <1>5 DEF SimulateUnlatch, Typed, ThreadsTyped, ThreadsReady, Threads
  <2>2. \A l \in Levels : Simulating(l) \/ scenario[t] = l => Simulating(l)'
    BY <1>5 DEF SimulateUnlatch, Goto, Simulating, Typed, ThreadsTyped, Threads
  <2> QED
    BY <1>5, <2>1, <2>2 DEF SimulateUnlatch, Levels
<1>6. ASSUME NEW t \in Threads, TickConfig(t)
      PROVE  StateMatchesLatches'
  <2>1. \A l \in Levels : Simulating(l) => Simulating(l)'
    BY <1>6 DEF TickConfig, Goto, Simulating, Typed, ThreadsTyped, Threads
  <2> QED
    BY <1>6, <2>1 DEF TickConfig, latchVars, Levels
<1>7. ASSUME NEW t \in Threads, Emit(t)
      PROVE  StateMatchesLatches'
  <2>1. \A l \in Levels : Simulating(l) => Simulating(l)'
    BY <1>7 DEF Emit, Return, Goto, Simulating, Typed, ThreadsTyped, Threads, Levels
  <2> QED
    BY <1>7, <2>1 DEF Emit, latchVars, Levels
<1>8. ASSUME NEW t \in Threads, EvaluateUnknown(t) \/ EvaluateNotDischarging(t) \/ EvaluateNormal(t)
      PROVE  StateMatchesLatches'
  BY <1>8 DEF EvaluateUnknown, EvaluateNotDischarging, EvaluateNormal
<1>9. ASSUME NEW t \in Threads, EvaluateAC(t)
      PROVE  StateMatchesLatches'
  BY <1>9 DEF EvaluateAC, ResetLatches
<1>10. ASSUME NEW t \in Threads, EvaluateWarning(t)
       PROVE  StateMatchesLatches'
  BY <1>10 DEF EvaluateWarning
<1>11. ASSUME NEW t \in Threads, CriticalAlert(t) \/ CriticalAgain(t)
       PROVE  StateMatchesLatches'
  BY <1>11 DEF CriticalAlert, CriticalAgain, EvaluateCritical, latchVars
<1> QED
  BY <1>1, <1>2, <1>3, <1>4, <1>5, <1>6, <1>7, <1>8, <1>9, <1>10, <1>11 DEF Next, Tick

LEMMA PlanStep == Typed /\ PlanNeedsAlert /\ [Next]_vars => PlanNeedsAlert'
<1> SUFFICES ASSUME Typed, PlanNeedsAlert, [Next]_vars
             PROVE  PlanNeedsAlert'
  OBVIOUS
<1> USE DEF PlanNeedsAlert
<1>1. CASE UNCHANGED vars
  BY <1>1 DEF vars, latchVars, planVars
<1>2. CASE ReadingChanges \/ TimePasses \/ UpdateSettings \/ Poll
  BY <1>2 DEF ReadingChanges, TimePasses, UpdateSettings, Poll, latchVars, planVars
<1>3. ASSUME NEW t \in Simulators, Simulate(t) \/ SimulateUnlatch(t)
      PROVE  PlanNeedsAlert'
  BY <1>3 DEF Simulate, SimulateUnlatch, latchVars, planVars
<1>4. ASSUME NEW t \in Threads, TickConfig(t) \/ EvaluateUnknown(t) \/ Emit(t) \/ CriticalAgain(t)
      PROVE  PlanNeedsAlert'
  BY <1>4 DEF TickConfig, EvaluateUnknown, Emit, CriticalAgain, latchVars, planVars
<1>5. ASSUME NEW t \in Threads, EvaluateAC(t)
      PROVE  PlanNeedsAlert'
  BY <1>5 DEF EvaluateAC, ResetLatches
<1>6. ASSUME NEW percent, NEW c, UnlatchCritical(percent, c), UNCHANGED planVars
      PROVE  PlanNeedsAlert'
  <2> DEFINE C == Above(percent, c.critical)
  <2>1. criticalLatched' = (criticalLatched /\ ~C) /\ shutdownLatched' = (shutdownLatched /\ ~C)
    BY <1>6 DEF UnlatchCritical
  <2> HIDE DEF C
  <2> QED
    BY <1>6, <2>1 DEF planVars, Typed, LatchesTyped
<1>7. ASSUME NEW t \in Threads, EvaluateNotDischarging(t) \/ EvaluateNormal(t) \/ EvaluateWarning(t)
      PROVE  PlanNeedsAlert'
  <2>1. UNCHANGED planVars
    BY <1>7 DEF EvaluateNotDischarging, EvaluateNormal, EvaluateWarning
  <2>2. UNCHANGED latchVars \/ UnlatchCritical(sampleOf[t].percent, cfgOf[t])
    BY <1>7 DEF EvaluateNotDischarging, EvaluateNormal, EvaluateWarning, UnlatchIfRecovered
  <2> QED
    BY <2>1, <2>2, <1>6 DEF latchVars, planVars
<1>8. ASSUME NEW t \in Threads, CriticalAlert(t)
      PROVE  PlanNeedsAlert'
  <2>1. sampledAt[t] # Never
    BY <1>8, EvaluatorFacts DEF CriticalAlert, EvaluateCritical, EvaluateOnBattery, Evaluate, Never
  <2>2. IntendedPlan(cfgOf[t]) # {}
    BY DEF IntendedPlan, Commands
  <2> QED
    BY <1>8, <2>1, <2>2 DEF CriticalAlert, planVars
<1> QED
  BY <1>1, <1>2, <1>3, <1>4, <1>5, <1>7, <1>8 DEF Next, Tick

-----------------------------------------------------------------------------
(* The inductive invariant, and what follows from it. *)

IInv == Typed /\ Mirrors /\ StateMatchesLatches /\ PlanNeedsAlert

LEMMA IInvInit == Init => IInv
<1>1. Init => Mirrors
  BY DEF Init, Mirrors, Levels
<1>2. Init => StateMatchesLatches /\ PlanNeedsAlert
  BY DEF Init, StateMatchesLatches, PlanNeedsAlert
<1> QED
  BY TypedInit, <1>1, <1>2 DEF IInv

LEMMA IInvHolds == Spec => []IInv
<1>1. IInv /\ [Next]_vars => IInv'
  BY TypedStep, MirrorsStep, AgreesStep, PlanStep DEF IInv
<1> QED
  BY IInvInit, <1>1, PTL DEF Spec

(* What the snapshot says agrees with the latches that silence alerts,      *)
(* whichever evaluations and simulations interleave.                        *)
THEOREM StateAgrees == Spec => []StateMatchesLatches
<1>1. IInv => StateMatchesLatches
  BY DEF IInv
<1> QED
  BY IInvHolds, <1>1, PTL

(* A shutdown is planned only under a critical alert that still stands.     *)
THEOREM PlanHasAlert == Spec => []PlanNeedsAlert
<1>1. IInv => PlanNeedsAlert
  BY DEF IInv
<1> QED
  BY IInvHolds, <1>1, PTL

(* A battery reported low has had its alert since the last recovery.        *)
THEOREM LowWasAlerted == Spec => []LowIsAlerted
<1>1. IInv => LowIsAlerted
  BY DEF IInv, Mirrors, StateMatchesLatches, LowIsAlerted
<1> QED
  BY IInvHolds, <1>1, PTL

AlertNow == \A t \in Threads :
              pc[t] = "tick" /\ pc'[t] \in Levels => rearmed[pc'[t]]

LEMMA AlertStep ==
  ASSUME IInv, [Next]_vars, NEW t \in Threads, pc[t] = "tick", pc'[t] \in Levels
  PROVE  rearmed[pc'[t]]
<1> USE DEF IInv, Typed, ThreadsTyped
<1>1. CASE UNCHANGED vars
  BY <1>1 DEF vars, threadVars, Levels
<1>2. CASE ReadingChanges \/ TimePasses \/ UpdateSettings
  BY <1>2 DEF ReadingChanges, TimePasses, UpdateSettings, threadVars, Levels
<1>3. CASE Poll
  BY <1>3 DEF Poll, Goto, Levels
<1>4. ASSUME NEW u \in Simulators, Simulate(u) \/ SimulateUnlatch(u)
      PROVE  FALSE
  BY <1>4 DEF Simulate, SimulateUnlatch, Goto, Levels
<1>5. ASSUME NEW u \in Threads, \/ TickConfig(u) \/ EvaluateUnknown(u) \/ EvaluateAC(u) \/ Emit(u)
                                \/ EvaluateNotDischarging(u) \/ EvaluateNormal(u) \/ CriticalAgain(u)
      PROVE  FALSE
  <2>1. pc' = [pc EXCEPT ![u] = "tick"] \/ pc' = [pc EXCEPT ![u] = "idle"]
    BY <1>5 DEF TickConfig, EvaluateUnknown, EvaluateAC, Emit, EvaluateNotDischarging,
                EvaluateNormal, CriticalAgain, NoAlert, Return, Goto
  <2> QED
    BY <2>1 DEF Levels
<1>6. ASSUME NEW u \in Threads, EvaluateWarning(u)
      PROVE  rearmed[pc'[t]]
  <2>1. CASE warningLatched
    BY <1>6, <2>1 DEF EvaluateWarning, NoAlert, Return, Goto, Levels
  <2>2. CASE ~warningLatched
    BY <1>6, <2>2 DEF EvaluateWarning, Alert, Goto, Levels, Mirrors
  <2> QED
    BY <2>1, <2>2
<1>7. ASSUME NEW u \in Threads, CriticalAlert(u)
      PROVE  rearmed[pc'[t]]
  BY <1>7 DEF CriticalAlert, Alert, Goto, Levels, Mirrors
<1> QED
  BY <1>1, <1>2, <1>3, <1>4, <1>5, <1>6, <1>7 DEF Next, Tick

(* No level is alerted twice without AC, a recovery by the margin or a      *)
(* simulation in between.                                                   *)
THEOREM AlertsOnce == Spec => OneAlertPerEpisode
<1>1. IInv /\ [Next]_vars => AlertNow
  BY AlertStep DEF AlertNow
<1> QED
  BY IInvHolds, <1>1, PTL DEF Spec, OneAlertPerEpisode, AlertNow
=============================================================================
