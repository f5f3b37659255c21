----------------------------- MODULE AutoDrain -----------------------------
(***************************************************************************)
(* The smart drain state machine of LapGuard                               *)
(* (internal/safety/auto_drain.go) together with what runs against it:     *)
(*                                                                         *)
(*   - the poll goroutine (Ticker), which reads the battery, reads the     *)
(*     settings, and only then takes the machine's lock;                   *)
(*   - the HTTP requests (Responders) that answer YES or NO, which also    *)
(*     read the settings before they take the lock;                        *)
(*   - the settings handlers, which replace the configuration under the    *)
(*     server's own lock and may reset the machine afterwards.             *)
(*                                                                         *)
(* One action is one critical section, or one call made outside the lock.  *)
(* Wall clock time is counted in abstract units.  A reading keeps what the *)
(* code tests: the percentage (or none), and whether the pack is           *)
(* discharging with no AC: the two are never tested apart.                 *)
(***************************************************************************)
EXTENDS Integers

CONSTANTS
  Ticker,        (* the poll goroutine                                     *)
  Responders,    (* requests that may be in flight at the same time        *)
  Configs,       (* settings the operator may save                         *)
  Readings,      (* what the battery and the power watcher may report      *)
  SendOutcomes,  (* what one attempt to deliver a warning may end in       *)
  NoConfig,      (* the settings of a thread that has read none            *)
  MaxPrompts,    (* bound: warnings sent in a behaviour                    *)
  MaxClock       (* bound: the last instant of a behaviour                 *)

NoPercent == -1

RecoveryMargin == 2

ConfigType ==
  [ enabled: BOOLEAN, threshold: Nat, timeout: Nat \ {0}, stopEnabled: BOOLEAN,
    dryRun: BOOLEAN, realEnabled: BOOLEAN, notifyOn: BOOLEAN,
    notifyDryRun: BOOLEAN, providerAllowed: BOOLEAN ]

ReadingType == [ percent: Nat \cup {NoPercent}, draining: BOOLEAN ]

(* The zero Sample: nothing has been read yet. *)
NoReading == [ percent |-> NoPercent, draining |-> FALSE ]

ASSUME ConstantsAssumption ==
  /\ Ticker \notin Responders
  /\ Configs \subseteq ConfigType
  /\ NoConfig \notin Configs
  /\ Readings \subseteq ReadingType
  /\ SendOutcomes \subseteq {"delivered", "panicked", "failed"}
  /\ MaxPrompts \in Nat
  /\ MaxClock \in Nat

Threads == {Ticker} \cup Responders

Prompts == 1 .. MaxPrompts

Idle == "AUTO_DRAIN_IDLE"
WarningSent == "AUTO_DRAIN_WARNING_SENT"
Awaiting == "AUTO_DRAIN_AWAITING_RESPONSE"
Executing == "AUTO_DRAIN_EXECUTING"
Aborted == "AUTO_DRAIN_ABORTED"
TimedOut == "AUTO_DRAIN_TIMEOUT"

States == {Idle, WarningSent, Awaiting, Executing, Aborted, TimedOut}

Commands == {"stop_docker", "sync", "poweroff"}

VARIABLES
  cfg,              (* Server.cfg, replaced as a whole by updateSettings   *)
  resetPending,     (* a PUT disabled auto-drain and has not yet Reset it  *)
  reading,          (* what the sensors report now                         *)
  clock,            (* wall clock                                          *)
  state,            (* AutoDrain.state                                     *)
  notified,         (* AutoDrain.notified                                  *)
  deadline,         (* AutoDrain.deadline                                  *)
  lastResponse,     (* AutoDrain.lastResponse                              *)
  lastSample,       (* AutoDrain.lastSample                                *)
  commandsExecuted, (* AutoDrain.commandsExecuted                          *)
  pc,               (* where each thread is                                *)
  cfgOf,            (* the settings each thread has read                   *)
  sampleOf,         (* the reading each thread works with                  *)
  sampledAt,        (* sample.Now of the poll in progress                  *)
  executor,         (* the executor each sequence runs on                  *)
  prompt,           (* history: warnings attempted so far                  *)
  receipt,          (* history: what became of each warning                *)
  answer,           (* history: the accepted answer to each prompt         *)
  promptOf,         (* history: the prompt whose answer a thread carries   *)
  runs,             (* history: sequences started for each prompt          *)
  host              (* history: commands the host really ran, per prompt   *)

serverVars == <<cfg, resetPending>>
worldVars == <<reading, clock>>
machineVars == <<state, notified, deadline, lastResponse, lastSample, commandsExecuted>>
threadVars == <<pc, cfgOf, sampleOf, sampledAt, executor, promptOf>>
historyVars == <<prompt, receipt, answer, runs, host>>
vars == <<serverVars, worldVars, machineVars, threadVars, historyVars>>

-----------------------------------------------------------------------------
(* Predicates of the code. *)

ManualActionsReady(c) == c.realEnabled /\ ~c.dryRun

(* No reason in startBlockReason applies. *)
MayStart(c, s) ==
  /\ c.enabled
  /\ c.stopEnabled
  /\ s.percent # NoPercent
  /\ s.draining
  /\ s.percent <= c.threshold
  /\ c.notifyOn
  /\ c.providerAllowed

(* No reason in executeBlockReason applies; notified is tested before it. *)
MayExecute(c, s) ==
  /\ c.enabled
  /\ c.stopEnabled
  /\ s.draining
  /\ s.percent # NoPercent
  /\ s.percent <= c.threshold

(* Mutant: no margin, and the threshold itself counts as recovered. *)
RecoveredAtThreshold(c, s) ==
  \/ ~s.draining
  \/ s.percent # NoPercent /\ s.percent >= c.threshold

Recovered(c, s) ==
  \/ ~s.draining
  \/ s.percent # NoPercent /\ s.percent > c.threshold + RecoveryMargin

(* Mutant: the error of Send is ignored. *)
SendErrorIgnored(outcome) == TRUE

(* What sendWarning returns nil for: only a failed delivery is an error. *)
CountsAsSent(outcome) == outcome # "failed"

(* Mutants: one unit early; a window that starts again at every poll. *)
ExpiredEarly == sampledAt + 1 >= deadline

ExpiredSliding == sampledAt >= sampledAt + cfgOf[Ticker].timeout

(* The reading of a poll is no longer Before the deadline. *)
Expired == sampledAt >= deadline

(* Mutant: Respond forgets to test the state. *)
PendingAnyState == notified

(* Respond accepts an answer. *)
Pending == state \in {WarningSent, Awaiting} /\ notified

(* Mutant: the reset leaves the warning flag behind. *)
ForgetAllButNotified ==
  /\ notified' = notified
  /\ deadline' = 0
  /\ lastResponse' = "none"
  /\ commandsExecuted' = FALSE

(* resetToIdle: everything the machine knows of the current prompt goes. *)
ForgetPrompt ==
  /\ notified' = FALSE
  /\ deadline' = 0
  /\ lastResponse' = "none"
  /\ commandsExecuted' = FALSE

ResetToIdle == state' = Idle /\ ForgetPrompt

(* Thread t returns: its locals are gone. *)
Return(t) ==
  /\ pc' = [pc EXCEPT ![t] = "idle"]
  /\ cfgOf' = [cfgOf EXCEPT ![t] = NoConfig]
  /\ sampleOf' = [sampleOf EXCEPT ![t] = NoReading]
  /\ executor' = [executor EXCEPT ![t] = "none"]
  /\ promptOf' = [promptOf EXCEPT ![t] = 0]
  /\ sampledAt' = IF t = Ticker THEN 0 ELSE sampledAt

Goto(t, label) == pc' = [pc EXCEPT ![t] = label]

(* The answer a is accepted for the current prompt by thread t. *)
Accept(t, a) ==
  /\ lastResponse' = a
  /\ answer' = [answer EXCEPT ![prompt] = IF @ = "none" THEN a ELSE "twice"]
  /\ promptOf' = [promptOf EXCEPT ![t] = prompt]

-----------------------------------------------------------------------------
Init ==
  /\ cfg \in Configs
  /\ resetPending = FALSE
  /\ reading \in Readings
  /\ clock = 0
  /\ state = Idle
  /\ notified = FALSE
  /\ deadline = 0
  /\ lastResponse = "none"
  /\ lastSample = NoReading
  /\ commandsExecuted = FALSE
  /\ pc = [t \in Threads |-> "idle"]
  /\ cfgOf = [t \in Threads |-> NoConfig]
  /\ sampleOf = [t \in Threads |-> NoReading]
  /\ sampledAt = 0
  /\ executor = [t \in Threads |-> "none"]
  /\ prompt = 0
  /\ receipt = [p \in Prompts |-> "none"]
  /\ answer = [p \in Prompts |-> "none"]
  /\ promptOf = [t \in Threads |-> 0]
  /\ runs = [p \in Prompts |-> 0]
  /\ host = {}

-----------------------------------------------------------------------------
(* The world: the sensors change, time passes. *)

ReadingChanges ==
  /\ reading' \in Readings \ {reading}
  /\ UNCHANGED <<clock, serverVars, machineVars, threadVars, historyVars>>

TimePasses ==
  /\ clock < MaxClock
  /\ clock' = clock + 1
  /\ UNCHANGED <<reading, serverVars, machineVars, threadVars, historyVars>>

(* The settings handlers: updateSettings swaps the whole configuration. *)

PutConfig ==
  /\ cfg' \in Configs \ {cfg}
  /\ UNCHANGED <<resetPending, worldVars, machineVars, threadVars, historyVars>>

(* Two configurations agree outside their auto_drain section. *)
SameElsewhere(c, d) ==
  /\ c.stopEnabled = d.stopEnabled
  /\ c.dryRun = d.dryRun
  /\ c.realEnabled = d.realEnabled
  /\ c.notifyOn = d.notifyOn
  /\ c.notifyDryRun = d.notifyDryRun

(* PUT /auto-drain/config touches the auto_drain section alone, and resets  *)
(* the machine in a second step when the saved settings disable it.         *)
PutAutoDrainConfig ==
  /\ ~resetPending
  /\ cfg' \in { c \in Configs : SameElsewhere(c, cfg) }
  /\ resetPending' = ~cfg'.enabled
  /\ UNCHANGED <<worldVars, machineVars, threadVars, historyVars>>

Reset ==
  /\ resetPending
  /\ resetPending' = FALSE
  /\ ResetToIdle
  /\ UNCHANGED <<cfg, lastSample, worldVars, threadVars, historyVars>>

-----------------------------------------------------------------------------
(* The poll goroutine. *)

(* Poll: the reading, and the time it is stamped with. *)
Poll ==
  /\ pc[Ticker] = "idle"
  /\ sampleOf' = [sampleOf EXCEPT ![Ticker] = reading]
  /\ sampledAt' = clock
  /\ Goto(Ticker, "config")
  /\ UNCHANGED <<cfgOf, executor, promptOf, serverVars, worldVars, machineVars, historyVars>>

(* Tick reads the settings before it takes the lock. *)
TickConfig ==
  /\ pc[Ticker] = "config"
  /\ cfgOf' = [cfgOf EXCEPT ![Ticker] = cfg]
  /\ Goto(Ticker, "tick")
  /\ UNCHANGED <<sampleOf, sampledAt, executor, promptOf, serverVars, worldVars,
                 machineVars, historyVars>>

(* The state the switch of Tick sees: a recovered battery has rearmed it. *)
Rearms(s) ==
  /\ state \in {Aborted, TimedOut, Executing}
  /\ Recovered(cfgOf[Ticker], s)

TickState(s) == IF Rearms(s) THEN Idle ELSE state

(* What every critical section of Tick starts with. *)
TickLocked ==
  /\ pc[Ticker] = "tick"
  /\ lastSample' = sampleOf[Ticker]
  /\ UNCHANGED <<serverVars, worldVars>>

TickDisabled ==
  /\ TickLocked
  /\ ~cfgOf[Ticker].enabled
  /\ ResetToIdle
  /\ Return(Ticker)
  /\ UNCHANGED historyVars

(* Nothing to decide: idle and blocked, still waiting, or already answered. *)
TickQuiet ==
  LET s == sampleOf[Ticker]
      c == cfgOf[Ticker] IN
  /\ TickLocked
  /\ c.enabled
  /\ \/ TickState(s) = Idle /\ ~MayStart(c, s)
     \/ state \in {WarningSent, Awaiting} /\ s.draining /\ notified /\ ~Expired
     \/ TickState(s) \in {Executing, Aborted, TimedOut}
  /\ IF Rearms(s) THEN ResetToIdle
     ELSE /\ state' = IF state = WarningSent THEN Awaiting ELSE state
          /\ UNCHANGED <<notified, deadline, lastResponse, commandsExecuted>>
  /\ Return(Ticker)
  /\ UNCHANGED historyVars

(* The warning is announced, and the lock dropped for the time it takes. *)
TickWarn ==
  LET s == sampleOf[Ticker] IN
  /\ TickLocked
  /\ TickState(s) = Idle
  /\ MayStart(cfgOf[Ticker], s)
  /\ prompt < MaxPrompts
  /\ prompt' = prompt + 1
  /\ state' = WarningSent
  /\ IF Rearms(s) THEN ForgetPrompt
     ELSE UNCHANGED <<notified, deadline, lastResponse, commandsExecuted>>
  /\ Goto(Ticker, "send")
  /\ UNCHANGED <<cfgOf, sampleOf, sampledAt, executor, promptOf, receipt, answer, runs, host>>

(* The wait ends because AC is back, or because nothing was delivered. *)
TickWithdraw ==
  /\ TickLocked
  /\ cfgOf[Ticker].enabled
  /\ state \in {WarningSent, Awaiting}
  /\ ~sampleOf[Ticker].draining \/ ~notified
  /\ ResetToIdle
  /\ Return(Ticker)
  /\ UNCHANGED historyVars

(* Nobody answered in time: the poll goroutine goes on to execute. *)
TickTimeout ==
  /\ TickLocked
  /\ cfgOf[Ticker].enabled
  /\ state \in {WarningSent, Awaiting}
  /\ sampleOf[Ticker].draining
  /\ notified
  /\ Expired
  /\ state' = TimedOut
  /\ Accept(Ticker, "timeout")
  /\ Goto(Ticker, "execute")
  /\ UNCHANGED <<notified, deadline, commandsExecuted, cfgOf, sampleOf, sampledAt, executor,
                 prompt, receipt, runs, host>>

(* Service.Send, called without the lock, reads the notification settings   *)
(* as they are by now.  A dry run delivers nothing and returns nil, and so  *)
(* does sendWarning when the notifier panics.                               *)
SendWarning ==
  /\ pc[Ticker] = "send"
  /\ \E outcome \in IF ~cfg.notifyOn THEN {"failed"}
                    ELSE IF cfg.notifyDryRun THEN {"dry_run"}
                    ELSE SendOutcomes :
       /\ receipt' = [receipt EXCEPT ![prompt] = outcome]
       /\ Goto(Ticker, IF CountsAsSent(outcome) THEN "accepted" ELSE "refused")
  /\ UNCHANGED <<cfgOf, sampleOf, sampledAt, executor, promptOf, serverVars, worldVars,
                 machineVars, prompt, answer, runs, host>>

Deadline == sampledAt + cfgOf[Ticker].timeout

(* Back under the lock: whatever happened meanwhile, the wait begins. *)
WarningAccepted ==
  /\ pc[Ticker] = "accepted"
  /\ notified' = TRUE
  /\ deadline' = Deadline
  /\ state' = Awaiting
  /\ Return(Ticker)
  /\ UNCHANGED <<lastResponse, lastSample, commandsExecuted, serverVars, worldVars, historyVars>>

WarningRefused ==
  /\ pc[Ticker] = "refused"
  /\ ResetToIdle
  /\ Return(Ticker)
  /\ UNCHANGED <<lastSample, serverVars, worldVars, historyVars>>

-----------------------------------------------------------------------------
(* A request that answers the prompt. *)

RespondConfig(t) ==
  /\ pc[t] = "idle"
  /\ cfgOf' = [cfgOf EXCEPT ![t] = cfg]
  /\ Goto(t, "respond")
  /\ UNCHANGED <<sampleOf, sampledAt, executor, promptOf, serverVars, worldVars,
                 machineVars, historyVars>>

(* ErrNoPendingAutoDrain; a warning still being sent is dropped. *)
RespondNothingPending(t) ==
  /\ pc[t] = "respond"
  /\ ~Pending
  /\ IF state \in {WarningSent, Awaiting} THEN ResetToIdle
     ELSE UNCHANGED <<state, notified, deadline, lastResponse, commandsExecuted>>
  /\ Return(t)
  /\ UNCHANGED <<lastSample, serverVars, worldVars, historyVars>>

RespondNo(t) ==
  /\ pc[t] = "respond"
  /\ Pending
  /\ state' = Aborted
  /\ lastResponse' = "no"
  /\ answer' = [answer EXCEPT ![prompt] = IF @ = "none" THEN "no" ELSE "twice"]
  /\ Return(t)
  /\ UNCHANGED <<notified, deadline, lastSample, commandsExecuted, serverVars, worldVars,
                 prompt, receipt, runs, host>>

(* YES works with the last reading a tick saw. *)
RespondYes(t) ==
  /\ pc[t] = "respond"
  /\ Pending
  /\ state' = Executing
  /\ sampleOf' = [sampleOf EXCEPT ![t] = lastSample]
  /\ Accept(t, "yes")
  /\ Goto(t, "execute")
  /\ UNCHANGED <<notified, deadline, lastSample, commandsExecuted, cfgOf, sampledAt, executor,
                 serverVars, worldVars, prompt, receipt, runs, host>>

-----------------------------------------------------------------------------
(* execute, for the poll goroutine after a timeout and for a request after  *)
(* a YES.                                                                   *)

(* The machine was reset between the answer and this lock. *)
ExecuteRefused(t) ==
  /\ pc[t] = "execute"
  /\ ~notified
  /\ commandsExecuted' = FALSE
  /\ Return(t)
  /\ UNCHANGED <<state, notified, deadline, lastResponse, lastSample, serverVars, worldVars,
                 historyVars>>

ExecuteBlocked(t) ==
  /\ pc[t] = "execute"
  /\ notified
  /\ ~MayExecute(cfgOf[t], sampleOf[t])
  /\ state' = IF t = Ticker THEN TimedOut ELSE Executing
  /\ commandsExecuted' = FALSE
  /\ Return(t)
  /\ UNCHANGED <<notified, deadline, lastResponse, lastSample, serverVars, worldVars, historyVars>>

(* Mutant: only the settings of this moment are asked. *)
PickExecutorFresh(t) == IF ManualActionsReady(cfg) THEN "real" ELSE "recording"

(* pickExecutor: the real one needs both the settings read at the start and *)
(* those of this moment.                                                    *)
PickExecutor(t) ==
  IF ManualActionsReady(cfgOf[t]) /\ ManualActionsReady(cfg) THEN "real" ELSE "recording"

ExecuteStart(t) ==
  /\ pc[t] = "execute"
  /\ notified
  /\ MayExecute(cfgOf[t], sampleOf[t])
  /\ state' = IF t = Ticker THEN TimedOut ELSE Executing
  /\ executor' = [executor EXCEPT ![t] = PickExecutor(t)]
  /\ runs' = [runs EXCEPT ![promptOf[t]] = @ + 1]
  /\ Goto(t, "stop_docker")
  /\ UNCHANGED <<notified, deadline, lastResponse, lastSample, commandsExecuted, cfgOf, sampleOf,
                 sampledAt, promptOf, serverVars, worldVars, prompt, receipt, answer, host>>

(* drainSyncPowerOff, without the lock. *)
After(command) ==
  IF command = "stop_docker" THEN "sync"
  ELSE IF command = "sync" THEN "poweroff" ELSE "done"

RunCommand(t) ==
  /\ pc[t] \in Commands
  /\ host' = IF executor[t] = "real" THEN host \cup {<<promptOf[t], pc[t]>>} ELSE host
  /\ Goto(t, After(pc[t]))
  /\ UNCHANGED <<cfgOf, sampleOf, sampledAt, executor, promptOf, serverVars, worldVars,
                 machineVars, prompt, receipt, answer, runs>>

(* A host command fails, times out, or is cancelled with its request. *)
CommandFails(t) ==
  /\ pc[t] \in Commands
  /\ executor[t] = "real"
  /\ Goto(t, "failed")
  /\ UNCHANGED <<cfgOf, sampleOf, sampledAt, executor, promptOf, serverVars, worldVars,
                 machineVars, historyVars>>

(* The outcome is recorded in whatever state the machine is by now. *)
Finish(t) ==
  /\ pc[t] \in {"done", "failed"}
  /\ commandsExecuted' = (pc[t] = "done" /\ ManualActionsReady(cfgOf[t]))
  /\ Return(t)
  /\ UNCHANGED <<state, notified, deadline, lastResponse, lastSample, serverVars, worldVars,
                 historyVars>>

-----------------------------------------------------------------------------
Execute(t) ==
  \/ ExecuteRefused(t)
  \/ ExecuteBlocked(t)
  \/ ExecuteStart(t)
  \/ RunCommand(t)
  \/ CommandFails(t)
  \/ Finish(t)

Tick ==
  \/ Poll
  \/ TickConfig
  \/ TickDisabled
  \/ TickQuiet
  \/ TickWarn
  \/ TickWithdraw
  \/ TickTimeout
  \/ SendWarning
  \/ WarningAccepted
  \/ WarningRefused

Respond(t) ==
  \/ RespondConfig(t)
  \/ RespondNothingPending(t)
  \/ RespondNo(t)
  \/ RespondYes(t)

Next ==
  \/ ReadingChanges
  \/ TimePasses
  \/ PutConfig
  \/ PutAutoDrainConfig
  \/ Reset
  \/ Tick
  \/ \E t \in Responders : Respond(t)
  \/ \E t \in Threads : Execute(t)

Spec == Init /\ [][Next]_vars

(* The poll goroutine is driven by a time.Ticker, a call it makes outside   *)
(* the lock ends (8 s, or the command's timeout), and the clock runs.       *)
Fairness ==
  /\ WF_vars(TimePasses)
  /\ WF_vars(Tick)
  /\ WF_vars(Execute(Ticker))

FairSpec == Spec /\ Fairness

-----------------------------------------------------------------------------
(* Properties. *)

Sending == pc[Ticker] \in {"send", "accepted", "refused"}

Running == {"stop_docker", "sync", "poweroff", "done", "failed"}

Labels == {"idle", "config", "tick", "send", "accepted", "refused", "respond", "execute"}
            \cup Running

(* Every variable holds a value of the kind the code gives it. *)
TypeOK ==
  /\ cfg \in Configs
  /\ resetPending \in BOOLEAN
  /\ reading \in Readings
  /\ clock \in Nat
  /\ state \in States
  /\ notified \in BOOLEAN
  /\ deadline \in Nat
  /\ lastResponse \in {"none", "yes", "no", "timeout"}
  /\ lastSample \in Readings \cup {NoReading}
  /\ commandsExecuted \in BOOLEAN
  /\ pc \in [Threads -> Labels]
  /\ cfgOf \in [Threads -> Configs \cup {NoConfig}]
  /\ sampleOf \in [Threads -> Readings \cup {NoReading}]
  /\ sampledAt \in Nat
  /\ executor \in [Threads -> {"none", "recording", "real"}]
  /\ prompt \in 0 .. MaxPrompts
  /\ receipt \in [Prompts -> {"none", "delivered", "dry_run", "panicked", "failed"}]
  /\ answer \in [Prompts -> {"none", "yes", "no", "timeout", "twice"}]
  /\ promptOf \in [Threads -> 0 .. MaxPrompts]
  /\ runs \in [Prompts -> Nat]
  /\ host \subseteq ((0 .. MaxPrompts) \X Commands)

(* The warning flag and the state agree in every critical section: only a   *)
(* prompt that was accepted by the notifier can be waited for, answered or  *)
(* executed, and nothing but a reset clears it (notified guards execute).   *)
NotifiedIffPrompted ==
  notified <=> state \in {Awaiting, Executing, Aborted, TimedOut}

(* While the warning is being sent the lock is free, and Tick will set the  *)
(* state to AWAITING whatever it finds: nobody may have answered by then.   *)
NothingAnsweredWhileSending ==
  /\ Sending => state \in {Idle, WarningSent}
  /\ state = WarningSent => Sending

(* YES, NO and the timeout race for a prompt under one lock: one of them    *)
(* wins, and the drain sequence is started at most once for it.             *)
ExactlyOnce ==
  \A p \in Prompts : answer[p] # "twice" /\ runs[p] <= 1

(* README.md:65, settings.go:77: a sequence starts only for a prompt that   *)
(* was answered YES or timed out, and whose warning was delivered.  Send    *)
(* returns nil in two other cases, a panic of the notifier and a dry run of *)
(* the notifications, and then this fails: see NeverWithoutNotification.    *)
RunNeedsConsent ==
  \A p \in Prompts : runs[p] > 0 => answer[p] \in {"yes", "timeout"} /\ receipt[p] = "delivered"

(* drainSyncPowerOff: the host is powered off for a prompt only once its    *)
(* containers are stopped and its disks synced, even when a command fails   *)
(* or two sequences overlap.                                                *)
PowerOffLast ==
  \A p \in Prompts :
    <<p, "poweroff">> \in host => {<<p, "stop_docker">>, <<p, "sync">>} \subseteq host

(* A sequence that powered the host off is never reported as recorded only: *)
(* commands_executed is computed from the settings read before the lock,    *)
(* the executor from the settings of a later moment as well, and prompts,   *)
(* resets and other sequences come between the commands and the report.     *)
(* The converse fails: see CommandsExecutedIsReal.                          *)
HostRunIsReported ==
  [][\A t \in Threads :
       pc[t] = "done" /\ pc'[t] = "idle" /\ <<promptOf[t], "poweroff">> \in host
         => commandsExecuted']_vars

(* A NO stands until a reset or a recovered battery rearms the machine, and *)
(* a tick that rearms it never warns on the same reading.  The only other   *)
(* way out is a YES to an earlier prompt, executed after a reset.           *)
NoStands ==
  [][state = Aborted /\ state' \notin {Aborted, Idle}
       => \E t \in Responders : pc[t] = "execute" /\ promptOf[t] # prompt]_vars

(* The response window of an open prompt never moves, whatever is saved     *)
(* meanwhile, and the timeout is not taken before its end.                  *)
WindowHonoured ==
  [][state = Awaiting => /\ state' = Awaiting => deadline' = deadline
                         /\ state' = TimedOut => clock >= deadline]_vars

(* A warning is delivered or given up, and a wait ends in an answer, a      *)
(* timeout, a withdrawal or a reset: no prompt hangs.  Waits that end after *)
(* the last instant of the model are left aside.                            *)
PromptSettles ==
  /\ state = WarningSent ~> state # WarningSent
  /\ (state = Awaiting /\ deadline < MaxClock) ~> state # Awaiting

-----------------------------------------------------------------------------
(* Claims of the documentation that the code does not keep. *)

(* auto_drain.go:63: "It never executes host commands unless a notification *)
(* was delivered"; README.md:65 and settings.go:77 say the same.            *)
NeverWithoutNotification ==
  \A p \in Prompts : (\E c \in Commands : <<p, c>> \in host) => receipt[p] = "delivered"

(* auto_drain_test.go:104: dry-run or real-off must not set the flag.       *)
CommandsExecutedIsReal ==
  [][\A t \in Threads :
       pc[t] = "done" /\ pc'[t] = "idle" /\ commandsExecuted' => executor[t] = "real"]_vars

(* README.md:65, auto_drain_test.go:136: NO continues on battery, and       *)
(* nothing executes after it.                                               *)
NoKeepsHostUp ==
  [][state = Aborted => \A p \in Prompts : <<p, "poweroff">> \in host' => <<p, "poweroff">> \in host]_vars

-----------------------------------------------------------------------------
(* The machine implements the consent protocol of DrainConsent.            *)

VerdictOn(p) ==
  IF answer[p] = "no" THEN "declined"
  ELSE IF answer[p] # "none" THEN "granted"
  ELSE IF p > prompt THEN "unasked"
  ELSE IF p = prompt /\ Sending THEN "asking"
  ELSE IF p = prompt /\ state = Awaiting THEN "open"
  ELSE "withdrawn"

verdictOf == [p \in Prompts |-> VerdictOn(p)]

drainedOf == {p \in Prompts : runs[p] > 0}

Consent == INSTANCE DrainConsent WITH verdict <- verdictOf, drained <- drainedOf

(* Every behaviour of the machine, seen as verdicts on prompts and drains,  *)
(* is one the consent protocol allows.                                      *)
ImplementsConsent == Consent!Spec
=============================================================================
