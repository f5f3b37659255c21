--------------------------- MODULE SafetyController ---------------------------
(***************************************************************************)
(* The battery safety controller (internal/safety/controller.go): three    *)
(* latches that turn readings into one alert for each crossing of a        *)
(* threshold, and into one intended plan for each critical battery.        *)
(*                                                                         *)
(* The poll goroutine (Poller) evaluates readings; requests that simulate  *)
(* an alert (Simulators) first clear latches, drop the lock, and then      *)
(* evaluate a made-up reading on the same controller.  Every evaluation    *)
(* reads the settings before it takes the lock and notifies after it.      *)
(*                                                                         *)
(* Nothing the controller decides runs on the host: a plan is recorded.    *)
(* The fields only the snapshot shows (reason, last sample, last event)    *)
(* are left out; an absent pack is a reading without a percentage.         *)
(***************************************************************************)
EXTENDS Integers

CONSTANTS
  Poller,      (* the poll goroutine                                       *)
  Simulators,  (* simulation requests that may be in flight together       *)
  Configs,     (* settings the operator may save                           *)
  Readings,    (* what the battery and the power watcher may report        *)
  NoConfig,    (* the settings of a thread that has read none              *)
  MaxClock     (* bound: the last instant of a behaviour                   *)

NoPercent == -1

Never == -1

RecoveryMargin == 2

Percents == 0 .. 100

(* ShutdownConfig.normalize keeps critical below warning. *)
ConfigType ==
  { c \in [ enabled: BOOLEAN, warning: Percents, critical: Percents, minimum: Percents,
            cooldown: Nat, requireACLoss: BOOLEAN, stopEnabled: BOOLEAN ] :
      c.critical < c.warning }

ReadingType ==
  [ percent: Percents \cup {NoPercent}, discharging: BOOLEAN,
    source: {"AC", "BATTERY", "UNKNOWN", "none"} ]

NoReading == [ percent |-> NoPercent, discharging |-> FALSE, source |-> "none" ]

ASSUME ConstantsAssumption ==
  /\ Poller \notin Simulators
  /\ Configs \subseteq ConfigType
  /\ NoConfig \notin Configs
  /\ Readings \subseteq ReadingType
  /\ MaxClock \in Nat

Threads == {Poller} \cup Simulators

Levels == {"warning", "critical"}

Commands == {"stop_docker", "sync", "poweroff"}

States == {"NORMAL", "WARNING", "CRITICAL", "SHUTDOWN_PENDING", "AC_CONNECTED", "UNKNOWN"}

VARIABLES
  cfg,             (* Server.cfg                                           *)
  reading,         (* what the sensors report now                          *)
  clock,           (* wall clock                                           *)
  state,           (* Controller.state                                     *)
  warningLatched,  (* Controller.warningLatched                            *)
  criticalLatched, (* Controller.criticalLatched                           *)
  shutdownLatched, (* Controller.shutdownLatched                           *)
  lastPlan,        (* Controller.lastPlan                                  *)
  lastActionAt,    (* Controller.lastActionAt                              *)
  pc,              (* where each thread is                                 *)
  cfgOf,           (* the settings each thread has read                    *)
  sampleOf,        (* the reading each thread evaluates                    *)
  sampledAt,       (* sample.Now of each thread                            *)
  scenario,        (* what each simulation asked for, "none" in a poll     *)
  rearmed          (* history: alerts the readings since the last allow    *)

worldVars == <<cfg, reading, clock>>
latchVars == <<warningLatched, criticalLatched, shutdownLatched>>
planVars == <<lastPlan, lastActionAt>>
threadVars == <<pc, cfgOf, sampleOf, sampledAt, scenario>>
vars == <<worldVars, state, latchVars, planVars, threadVars, rearmed>>

-----------------------------------------------------------------------------
(* Predicates of the code. *)

(* Mutant: the minimum itself is refused. *)
UsableAboveMinimum(c, s) == s.percent # NoPercent /\ s.percent > c.minimum

Usable(c, s) == s.percent # NoPercent /\ s.percent >= c.minimum

(* Without AC, the reading is taken to be of a host on battery. *)
OnBattery(c, s) ==
  /\ s.source \notin {"AC", "UNKNOWN"}
  /\ c.requireACLoss => s.source = "BATTERY"

(* Mutant: the margin is forgotten. *)
AboveLine(percent, threshold) == percent > threshold

Above(percent, threshold) == percent > threshold + RecoveryMargin

(* The latches of the critical level, and those of both levels.            *)
UnlatchCritical(percent, c) ==
  /\ criticalLatched' = (criticalLatched /\ ~Above(percent, c.critical))
  /\ shutdownLatched' = (shutdownLatched /\ ~Above(percent, c.critical))

(* Mutant: a recovered battery is not alerted for again. *)
UnlatchOnlyCritical(percent, c) ==
  /\ UNCHANGED warningLatched
  /\ UnlatchCritical(percent, c)

UnlatchIfRecovered(percent, c) ==
  /\ warningLatched' = (warningLatched /\ ~Above(percent, c.warning))
  /\ UnlatchCritical(percent, c)

ResetLatches ==
  /\ warningLatched' = FALSE
  /\ criticalLatched' = FALSE
  /\ shutdownLatched' = FALSE

(* Force: a simulation skips the cooldown. *)
CooldownElapsed(t) ==
  \/ scenario[t] # "none"
  \/ lastActionAt = Never
  \/ sampledAt[t] >= lastActionAt + cfgOf[t].cooldown

IntendedPlan(c) == IF c.stopEnabled THEN Commands ELSE Commands \ {"stop_docker"}

(* The reading a simulation makes up from the settings it has read.         *)
Simulated(c, asked) ==
  [ percent |-> IF asked = "warning" THEN c.warning ELSE c.critical,
    discharging |-> TRUE, source |-> "BATTERY" ]

Goto(t, label) == pc' = [pc EXCEPT ![t] = label]

Return(t) ==
  /\ Goto(t, "idle")
  /\ cfgOf' = [cfgOf EXCEPT ![t] = NoConfig]
  /\ sampleOf' = [sampleOf EXCEPT ![t] = NoReading]
  /\ sampledAt' = [sampledAt EXCEPT ![t] = Never]
  /\ scenario' = [scenario EXCEPT ![t] = "none"]

-----------------------------------------------------------------------------
Init ==
  /\ cfg \in Configs
  /\ reading \in Readings
  /\ clock = 0
  /\ state = "UNKNOWN"
  /\ warningLatched = FALSE
  /\ criticalLatched = FALSE
  /\ shutdownLatched = FALSE
  /\ lastPlan = {}
  /\ lastActionAt = Never
  /\ pc = [t \in Threads |-> "idle"]
  /\ cfgOf = [t \in Threads |-> NoConfig]
  /\ sampleOf = [t \in Threads |-> NoReading]
  /\ sampledAt = [t \in Threads |-> Never]
  /\ scenario = [t \in Threads |-> "none"]
  /\ rearmed = [l \in Levels |-> TRUE]

-----------------------------------------------------------------------------
(* The world. *)

ReadingChanges ==
  /\ reading' \in Readings \ {reading}
  /\ UNCHANGED <<cfg, clock, state, latchVars, planVars, threadVars, rearmed>>

TimePasses ==
  /\ clock < MaxClock
  /\ clock' = clock + 1
  /\ UNCHANGED <<cfg, reading, state, latchVars, planVars, threadVars, rearmed>>

UpdateSettings ==
  /\ cfg' \in Configs \ {cfg}
  /\ UNCHANGED <<reading, clock, state, latchVars, planVars, threadVars, rearmed>>

-----------------------------------------------------------------------------
(* A poll, and a simulation up to the reading it makes up. *)

Poll ==
  /\ pc[Poller] = "idle"
  /\ sampleOf' = [sampleOf EXCEPT ![Poller] = reading]
  /\ Goto(Poller, "config")
  /\ UNCHANGED <<cfgOf, sampledAt, scenario, worldVars, state, latchVars, planVars, rearmed>>

Simulate(t) ==
  /\ pc[t] = "idle"
  /\ \E asked \in Levels :
       /\ scenario' = [scenario EXCEPT ![t] = asked]
       /\ sampleOf' = [sampleOf EXCEPT ![t] = Simulated(cfg, asked)]
  /\ Goto(t, "unlatch")
  /\ UNCHANGED <<cfgOf, sampledAt, worldVars, state, latchVars, planVars, rearmed>>

(* The first of the two critical sections of a simulation. *)
SimulateUnlatch(t) ==
  LET cleared == IF scenario[t] = "warning" THEN {"warning"} ELSE Levels IN
  /\ pc[t] = "unlatch"
  /\ warningLatched' = FALSE
  /\ IF scenario[t] = "critical"
     THEN criticalLatched' = FALSE /\ shutdownLatched' = FALSE
     ELSE UNCHANGED <<criticalLatched, shutdownLatched>>
  /\ rearmed' = [l \in Levels |-> rearmed[l] \/ l \in cleared]
  /\ Goto(t, "config")
  /\ UNCHANGED <<cfgOf, sampleOf, sampledAt, scenario, worldVars, state, planVars>>

(* Tick stamps the reading and reads the settings before it locks. *)
TickConfig(t) ==
  /\ pc[t] = "config"
  /\ sampledAt' = [sampledAt EXCEPT ![t] = clock]
  /\ cfgOf' = [cfgOf EXCEPT ![t] = cfg]
  /\ Goto(t, "tick")
  /\ UNCHANGED <<sampleOf, scenario, worldVars, state, latchVars, planVars, rearmed>>

-----------------------------------------------------------------------------
(* evaluateLocked, one action for each of its arms. *)

(* History: the levels that reading s, evaluated under c, recovers from.    *)
Recovers(c, s) ==
  { l \in Levels :
      \/ s.source = "AC"
      \/ /\ OnBattery(c, s)
         /\ s.discharging \/ s.percent > c.warning
         /\ s.percent > (IF l = "warning" THEN c.warning ELSE c.critical) + RecoveryMargin }

Evaluate(t) ==
  /\ pc[t] = "tick"
  /\ UNCHANGED worldVars

NoAlert(t) ==
  /\ Return(t)
  /\ rearmed' = [l \in Levels |-> rearmed[l] \/ l \in Recovers(cfgOf[t], sampleOf[t])]

(* An alert leaves the lock with the thread.  A critical one stands for     *)
(* both levels.                                                             *)
Alert(t, level) ==
  /\ Goto(t, level)
  /\ rearmed' = [l \in Levels |->
       IF l = level \/ level = "critical" THEN FALSE
       ELSE rearmed[l] \/ l \in Recovers(cfgOf[t], sampleOf[t])]
  /\ UNCHANGED <<cfgOf, sampleOf, sampledAt, scenario>>

(* Nothing can be said: the latches stay as they are. *)
EvaluateUnknown(t) ==
  LET c == cfgOf[t]  s == sampleOf[t] IN
  /\ Evaluate(t)
  /\ ~Usable(c, s) \/ (s.source # "AC" /\ ~OnBattery(c, s))
  /\ state' = "UNKNOWN"
  /\ Return(t)
  /\ UNCHANGED <<latchVars, planVars, rearmed>>

EvaluateAC(t) ==
  /\ Evaluate(t)
  /\ Usable(cfgOf[t], sampleOf[t])
  /\ sampleOf[t].source = "AC"
  /\ state' = "AC_CONNECTED"
  /\ ResetLatches
  /\ NoAlert(t)
  /\ UNCHANGED planVars

(* A usable reading of a host on battery. *)
EvaluateOnBattery(t) ==
  /\ Evaluate(t)
  /\ Usable(cfgOf[t], sampleOf[t])
  /\ OnBattery(cfgOf[t], sampleOf[t])

EvaluateNotDischarging(t) ==
  LET c == cfgOf[t]  s == sampleOf[t] IN
  /\ EvaluateOnBattery(t)
  /\ ~s.discharging
  /\ state' = "NORMAL"
  /\ IF s.percent > c.warning THEN UnlatchIfRecovered(s.percent, c) ELSE UNCHANGED latchVars
  /\ NoAlert(t)
  /\ UNCHANGED planVars

EvaluateNormal(t) ==
  LET c == cfgOf[t]  s == sampleOf[t] IN
  /\ EvaluateOnBattery(t)
  /\ s.discharging
  /\ s.percent > c.warning
  /\ state' = "NORMAL"
  /\ UnlatchIfRecovered(s.percent, c)
  /\ NoAlert(t)
  /\ UNCHANGED planVars

EvaluateWarning(t) ==
  LET c == cfgOf[t]  s == sampleOf[t] IN
  /\ EvaluateOnBattery(t)
  /\ s.discharging
  /\ s.percent <= c.warning
  /\ s.percent > c.critical
  /\ state' = "WARNING"
  /\ warningLatched' = TRUE
  /\ UnlatchCritical(s.percent, c)
  /\ IF warningLatched THEN NoAlert(t) ELSE Alert(t, "warning")
  /\ UNCHANGED planVars

EvaluateCritical(t) ==
  LET c == cfgOf[t]  s == sampleOf[t] IN
  /\ EvaluateOnBattery(t)
  /\ s.discharging
  /\ s.percent <= c.critical
  /\ state' = IF c.enabled THEN "SHUTDOWN_PENDING" ELSE "CRITICAL"

(* The first critical reading since the latch was cleared. *)
CriticalAlert(t) ==
  /\ EvaluateCritical(t)
  /\ ~criticalLatched
  /\ criticalLatched' = TRUE
  /\ warningLatched' = TRUE
  /\ IF cfgOf[t].enabled /\ CooldownElapsed(t)
     THEN /\ shutdownLatched' = TRUE
          /\ lastPlan' = IntendedPlan(cfgOf[t])
          /\ lastActionAt' = sampledAt[t]
     ELSE UNCHANGED <<shutdownLatched, planVars>>
  /\ Alert(t, "critical")

CriticalAgain(t) ==
  /\ EvaluateCritical(t)
  /\ criticalLatched
  /\ NoAlert(t)
  /\ UNCHANGED <<latchVars, planVars>>

(* emit: the notifier is called without the lock, and its errors and panics *)
(* are logged.                                                              *)
Emit(t) ==
  /\ pc[t] \in Levels
  /\ Return(t)
  /\ UNCHANGED <<worldVars, state, latchVars, planVars, rearmed>>

-----------------------------------------------------------------------------
Tick(t) ==
  \/ TickConfig(t)
  \/ EvaluateUnknown(t)
  \/ EvaluateAC(t)
  \/ EvaluateNotDischarging(t)
  \/ EvaluateNormal(t)
  \/ EvaluateWarning(t)
  \/ CriticalAlert(t)
  \/ CriticalAgain(t)
  \/ Emit(t)

Next ==
  \/ ReadingChanges
  \/ TimePasses
  \/ UpdateSettings
  \/ Poll
  \/ \E t \in Simulators : Simulate(t) \/ SimulateUnlatch(t)
  \/ \E t \in Threads : Tick(t)

Spec == Init /\ [][Next]_vars

(* The poll goroutine is driven by a time.Ticker, and emit has a timeout.   *)
Fairness == WF_vars(Poll) /\ WF_vars(Tick(Poller))

FairSpec == Spec /\ Fairness

-----------------------------------------------------------------------------
(* Properties. *)

(* A thread about to evaluate holds settings and has stamped its reading,   *)
(* and a simulation about to clear latches knows which.                     *)
ThreadsReady ==
  \A t \in Threads :
    /\ pc[t] = "tick" => cfgOf[t] \in Configs /\ sampledAt[t] \in Nat
    /\ pc[t] = "unlatch" => scenario[t] \in Levels

(* Every variable holds a value of the kind the code gives it. *)
TypeOK ==
  /\ cfg \in Configs
  /\ reading \in Readings
  /\ clock \in Nat
  /\ state \in States
  /\ warningLatched \in BOOLEAN
  /\ criticalLatched \in BOOLEAN
  /\ shutdownLatched \in BOOLEAN
  /\ lastPlan \subseteq Commands
  /\ lastActionAt \in Nat \cup {Never}
  /\ pc \in [Threads -> {"idle", "unlatch", "config", "tick"} \cup Levels]
  /\ cfgOf \in [Threads -> Configs \cup {NoConfig}]
  /\ sampleOf \in [Threads -> ReadingType]
  /\ sampledAt \in [Threads -> Nat \cup {Never}]
  /\ scenario \in [Threads -> Levels \cup {"none"}]
  /\ rearmed \in [Levels -> BOOLEAN]
  /\ ThreadsReady

(* A simulation asking for level l has cleared latches and not yet ticked.  *)
Simulating(l) == \E t \in Simulators : pc[t] \in {"config", "tick"} /\ scenario[t] = l

(* What the snapshot says agrees with the latches that silence alerts: on   *)
(* AC none is set, and a low battery has been alerted for, even when a      *)
(* simulation, a poll and a change of settings are interleaved.             *)
StateMatchesLatches ==
  /\ state = "AC_CONNECTED" => ~warningLatched /\ ~criticalLatched /\ ~shutdownLatched
  /\ state = "WARNING" => warningLatched \/ Simulating("warning") \/ Simulating("critical")
  /\ state \in {"CRITICAL", "SHUTDOWN_PENDING"} => criticalLatched \/ Simulating("critical")

(* A planned shutdown belongs to a critical alert that still stands.        *)
PlanNeedsAlert ==
  shutdownLatched => criticalLatched /\ lastPlan # {} /\ lastActionAt # Never

(* TestDischargingBelowWarningEmitsOneWarning and its like, over every      *)
(* interleaving: a level is alerted again only after AC, a recovery by the  *)
(* margin, or a simulation.                                                 *)
OneAlertPerEpisode ==
  [][\A t \in Threads :
       pc[t] = "tick" /\ pc'[t] \in Levels => rearmed[pc'[t]]]_vars

(* And it is not passed over: a battery reported low has had its alert      *)
(* since the last reading that recovered.                                   *)
LowIsAlerted ==
  /\ state = "WARNING" => ~rearmed["warning"] \/ Simulating("warning") \/ Simulating("critical")
  /\ state \in {"CRITICAL", "SHUTDOWN_PENDING"} => ~rearmed["critical"] \/ Simulating("critical")

(* A host that stays on a critical battery is reported as such, down to the *)
(* last percent and whatever is simulated.                                  *)
CriticalNow ==
  \A c \in Configs :
    /\ reading.percent # NoPercent
    /\ reading.percent \in c.minimum .. c.critical
    /\ reading.discharging
    /\ reading.source = "BATTERY"

CriticalIsReported ==
  CriticalNow ~> (~CriticalNow \/ state \in {"CRITICAL", "SHUTDOWN_PENDING"})

-----------------------------------------------------------------------------
(* A claim of the documentation that the code does not keep. *)

(* README.md:433: "On critical, the process records an intended plan".      *)
(* Stated for polls that find shutdown enabled and the cooldown over.       *)
CriticalIsPlanned ==
  [][pc[Poller] = "tick" /\ pc'[Poller] # "tick" /\ state' = "SHUTDOWN_PENDING"
     => (CooldownElapsed(Poller) => shutdownLatched')]_vars
=============================================================================
