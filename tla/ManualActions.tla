----------------------------- MODULE ManualActions -----------------------------
(***************************************************************************)
(* The manual host actions (internal/api/actions.go): POST requests that   *)
(* stop the containers, or stop them, sync and power off.                  *)
(*                                                                         *)
(* A request reads the settings, the mains and the battery one after the   *)
(* other, takes the time, and only then asks the guard, which lets one     *)
(* sequence run at a time and refuses others for a cooldown.  The executor *)
(* is picked from the settings as they are by then.  What comes before the *)
(* gates (JSON, confirmation, the form of the key) changes nothing and is  *)
(* left out; so are the audit log and the texts of the answers.  The host  *)
(* commands are external.                                                  *)
(***************************************************************************)
EXTENDS Integers

CONSTANTS
  Requests,  (* POST requests that may be handled together                 *)
  Keys,      (* hashes of idempotency keys                                 *)
  NoKey,     (* "", a request without one                                  *)
  Configs,   (* settings the operator may save                             *)
  NoConfig,  (* the settings of a request that has read none               *)
  Readings,  (* what the power watcher and the battery may report          *)
  MaxClock   (* bound: the last instant of a behaviour                     *)

(* ActionsConfig.normalize leaves no cooldown below a second. *)
ConfigType ==
  [ realEnabled : BOOLEAN, dryRun : BOOLEAN, stopEnabled : BOOLEAN, cooldown : Nat \ {0} ]

ReadingType == [ source : {"AC", "BATTERY", "UNKNOWN"}, discharging : BOOLEAN ]

ASSUME ConstantsAssumption ==
  /\ NoKey \notin Keys
  /\ Configs \subseteq ConfigType
  /\ NoConfig \notin Configs
  /\ Readings \subseteq ReadingType
  /\ MaxClock \in Nat

Never == -1

AnyKey == Keys \cup {NoKey}

Kinds == {"POWER_OFF", "STOP_DOCKER"}

Commands == {"stop_docker", "sync", "poweroff"}

VARIABLES
  cfg,         (* Server.cfg                                               *)
  reading,     (* what the sensors report                                  *)
  clock,
  inflight,    (* actionGuard.inflight                                     *)
  last,        (* actionGuard.last                                         *)
  lastKey,     (* actionGuard.lastKey                                      *)
  pendingKey,  (* actionGuard.pendingKey                                   *)
  pc,          (* where each request is                                    *)
  kindOf,      (* the action it asks for                                   *)
  keyOf,       (* its key                                                  *)
  cfgOf,       (* the settings it has read                                 *)
  sourceOf,    (* the mains it has read                                    *)
  startedAt,   (* the time it has taken                                    *)
  executor,    (* the executor it has picked                               *)
  done,        (* the commands it has run                                  *)
  ran,         (* whether it has run its sequence to the end               *)
  ranAt,       (* history: when the sequence that succeeded last began     *)
  ranKey,      (* history: the key it had                                  *)
  held         (* history: what has held while a request read the gates    *)

worldVars == <<cfg, reading, clock>>
guardVars == <<inflight, last, lastKey, pendingKey>>
localVars == <<kindOf, keyOf, cfgOf, sourceOf, startedAt, executor>>
requestVars == <<pc, localVars, done, ran>>
ranVars == <<ranAt, ranKey>>
historyVars == <<ranVars, held>>
vars == <<worldVars, guardVars, requestVars, historyVars>>

-----------------------------------------------------------------------------
(* Mutant: the last success is forgotten when a request fails.              *)
ForgetOnFailure(r) ==
  /\ inflight' = FALSE
  /\ pendingKey' = NoKey
  /\ last' = IF ran[r] THEN startedAt[r] ELSE Never
  /\ lastKey' = IF ran[r] THEN pendingKey ELSE NoKey

(* Mutant: the guard is given back only by a success.                       *)
EndIfRan(r) ==
  IF ran[r]
  THEN inflight' = FALSE /\ pendingKey' = NoKey /\ last' = startedAt[r] /\ lastKey' = pendingKey
  ELSE UNCHANGED guardVars

(* Mutant: a run that fails leaves its key.                                 *)
EndKeepsKey(r) ==
  /\ inflight' = FALSE
  /\ pendingKey' = NoKey
  /\ lastKey' = pendingKey
  /\ last' = IF ran[r] THEN startedAt[r] ELSE last

(* actionGuard.end: a failed run leaves neither a cooldown nor a key.       *)
End(r) ==
  /\ inflight' = FALSE
  /\ pendingKey' = NoKey
  /\ IF ran[r] THEN last' = startedAt[r] /\ lastKey' = pendingKey
     ELSE UNCHANGED <<last, lastKey>>

ManualActionsReady(c) == c.realEnabled /\ ~c.dryRun

(* Mutant: dry run and real_enabled are left to the choice of the executor. *)
SensorGate(r) == sourceOf[r] # "BATTERY" \/ ~reading.discharging

(* safetyGate, when the battery has been read. *)
SafetyGate(r) ==
  \/ ~ManualActionsReady(cfgOf[r])
  \/ sourceOf[r] # "BATTERY"
  \/ ~reading.discharging

InCooldown(r) == last # Never /\ startedAt[r] < last + cfgOf[r].cooldown

(* Whether a request that is refused is told it is a duplicate. *)
Duplicate(r) == keyOf[r] # NoKey /\ keyOf[r] = (IF inflight THEN pendingKey ELSE lastKey)

(* The commands a request has still to run. *)
Plan(r) ==
  IF kindOf[r] = "STOP_DOCKER" THEN {"stop_docker"} \ done[r]
  ELSE (IF cfgOf[r].stopEnabled THEN Commands ELSE Commands \ {"stop_docker"}) \ done[r]

Rank == [stop_docker |-> 1, sync |-> 2, poweroff |-> 3]

NextCommand(r) == CHOOSE c \in Plan(r) : \A d \in Plan(r) : Rank[c] <= Rank[d]

Goto(r, label) == pc' = [pc EXCEPT ![r] = label]

(* The request is over; its client has an answer. *)
Respond(r) ==
  /\ Goto(r, "idle")
  /\ kindOf' = [kindOf EXCEPT ![r] = "none"]
  /\ keyOf' = [keyOf EXCEPT ![r] = NoKey]
  /\ cfgOf' = [cfgOf EXCEPT ![r] = NoConfig]
  /\ sourceOf' = [sourceOf EXCEPT ![r] = "none"]
  /\ startedAt' = [startedAt EXCEPT ![r] = Never]
  /\ executor' = [executor EXCEPT ![r] = "none"]
  /\ done' = [done EXCEPT ![r] = {}]
  /\ ran' = [ran EXCEPT ![r] = FALSE]
  /\ held' = [held EXCEPT ![r] = {}]

Holding(r) == pc[r] \in {"pick", "run", "end"}

(* History: what the gates ask for, of the settings and the sensors.        *)
Conditions(c, now) ==
  (IF ManualActionsReady(c) THEN {"ready"} ELSE {}) \cup
  (IF now.source = "BATTERY" THEN {"battery"} ELSE {}) \cup
  (IF now.discharging THEN {"discharging"} ELSE {})

-----------------------------------------------------------------------------
Init ==
  /\ cfg \in Configs
  /\ reading \in Readings
  /\ clock = 0
  /\ inflight = FALSE
  /\ last = Never
  /\ lastKey = NoKey
  /\ pendingKey = NoKey
  /\ pc = [r \in Requests |-> "idle"]
  /\ kindOf = [r \in Requests |-> "none"]
  /\ keyOf = [r \in Requests |-> NoKey]
  /\ cfgOf = [r \in Requests |-> NoConfig]
  /\ sourceOf = [r \in Requests |-> "none"]
  /\ startedAt = [r \in Requests |-> Never]
  /\ executor = [r \in Requests |-> "none"]
  /\ done = [r \in Requests |-> {}]
  /\ ran = [r \in Requests |-> FALSE]
  /\ ranAt = Never
  /\ ranKey = NoKey
  /\ held = [r \in Requests |-> {}]

(* The operator saves other settings, or the host changes.                  *)
WorldChanges ==
  /\ \/ cfg' \in Configs /\ reading' = reading
     \/ cfg' = cfg /\ reading' \in Readings
  /\ <<cfg, reading>>' # <<cfg, reading>>
  /\ held' = [r \in Requests |->
       IF pc[r] \in {"source", "gate"} THEN held[r] \cup Conditions(cfg', reading') ELSE held[r]]
  /\ UNCHANGED <<clock, guardVars, requestVars, ranVars>>

TimePasses ==
  /\ clock < MaxClock
  /\ clock' = clock + 1
  /\ UNCHANGED <<cfg, reading, guardVars, requestVars, historyVars>>

-----------------------------------------------------------------------------
(* runManualAction. *)

Receive(r) ==
  /\ pc[r] = "idle"
  /\ \E kind \in Kinds, key \in AnyKey :
       /\ kindOf' = [kindOf EXCEPT ![r] = kind]
       /\ keyOf' = [keyOf EXCEPT ![r] = key]
  /\ cfgOf' = [cfgOf EXCEPT ![r] = cfg]
  /\ held' = [held EXCEPT ![r] = Conditions(cfg, reading)]
  /\ Goto(r, "source")
  /\ UNCHANGED <<worldVars, guardVars, sourceOf, startedAt, executor, done, ran, ranVars>>

ReadSource(r) ==
  /\ pc[r] = "source"
  /\ sourceOf' = [sourceOf EXCEPT ![r] = reading.source]
  /\ Goto(r, "gate")
  /\ UNCHANGED <<worldVars, guardVars, kindOf, keyOf, cfgOf, startedAt, executor, done, ran, historyVars>>

Blocked(r) ==
  /\ pc[r] = "gate"
  /\ SafetyGate(r)
  /\ Respond(r)
  /\ UNCHANGED <<worldVars, guardVars, ranVars>>

(* The time is taken between the gates and the guard. *)
TakeTime(r) ==
  /\ pc[r] = "gate"
  /\ ~SafetyGate(r)
  /\ startedAt' = [startedAt EXCEPT ![r] = clock]
  /\ Goto(r, "begin")
  /\ UNCHANGED <<worldVars, guardVars, kindOf, keyOf, cfgOf, sourceOf, executor, done, ran, historyVars>>

BeginRefused(r) ==
  /\ pc[r] = "begin"
  /\ inflight \/ InCooldown(r)
  /\ Respond(r)
  /\ UNCHANGED <<worldVars, guardVars, ranVars>>

(* Mutant: the guard looks at the cooldown only. *)
BeginBeside(r) ==
  /\ pc[r] = "begin"
  /\ ~InCooldown(r)
  /\ inflight' = TRUE
  /\ pendingKey' = keyOf[r]
  /\ Goto(r, "pick")
  /\ UNCHANGED <<worldVars, last, lastKey, localVars, done, ran, historyVars>>

Begin(r) ==
  /\ pc[r] = "begin"
  /\ ~inflight
  /\ ~InCooldown(r)
  /\ inflight' = TRUE
  /\ pendingKey' = keyOf[r]
  /\ Goto(r, "pick")
  /\ UNCHANGED <<worldVars, last, lastKey, localVars, done, ran, historyVars>>

(* manualExecutor, from the settings of the server. *)
PickExecutor(r) ==
  /\ pc[r] = "pick"
  /\ executor' = [executor EXCEPT ![r] = IF ManualActionsReady(cfg) THEN "real" ELSE "recording"]
  /\ Goto(r, "run")
  /\ UNCHANGED <<worldVars, guardVars, kindOf, keyOf, cfgOf, sourceOf, startedAt, done, ran, historyVars>>

RunCommand(r) ==
  /\ pc[r] = "run"
  /\ Plan(r) # {}
  /\ done' = [done EXCEPT ![r] = @ \cup {NextCommand(r)}]
  /\ UNCHANGED <<worldVars, guardVars, pc, localVars, ran, historyVars>>

(* A command fails, or the timeout or the client ends the context.          *)
CommandFails(r) ==
  /\ pc[r] = "run"
  /\ executor[r] = "real"
  /\ Plan(r) # {}
  /\ Goto(r, "end")
  /\ UNCHANGED <<worldVars, guardVars, localVars, done, ran, historyVars>>

Succeed(r) ==
  /\ pc[r] = "run"
  /\ Plan(r) = {}
  /\ ran' = [ran EXCEPT ![r] = TRUE]
  /\ Goto(r, "end")
  /\ UNCHANGED <<worldVars, guardVars, localVars, done, historyVars>>

(* The deferred end of the guard comes after the response is written.       *)
Finish(r) ==
  /\ pc[r] = "end"
  /\ End(r)
  /\ IF ran[r] THEN ranAt' = startedAt[r] /\ ranKey' = keyOf[r] ELSE UNCHANGED ranVars
  /\ Respond(r)
  /\ UNCHANGED worldVars

Handle(r) ==
  \/ ReadSource(r)
  \/ Blocked(r)
  \/ TakeTime(r)
  \/ BeginRefused(r)
  \/ Begin(r)
  \/ PickExecutor(r)
  \/ RunCommand(r)
  \/ CommandFails(r)
  \/ Succeed(r)
  \/ Finish(r)

Next ==
  \/ WorldChanges
  \/ TimePasses
  \/ \E r \in Requests : Receive(r) \/ Handle(r)

Spec == Init /\ [][Next]_vars

(* A handler is a goroutine of its own, and its commands have a timeout.    *)
Fairness == \A r \in Requests : WF_vars(Handle(r))

FairSpec == Spec /\ Fairness

-----------------------------------------------------------------------------
(* Properties. *)

(* Every variable holds a value of the kind the code gives it, and a        *)
(* request past a read holds what it has read.                              *)
TypeOK ==
  /\ cfg \in Configs
  /\ reading \in Readings
  /\ clock \in Nat
  /\ inflight \in BOOLEAN
  /\ last \in Nat \cup {Never}
  /\ lastKey \in AnyKey
  /\ pendingKey \in AnyKey
  /\ pc \in [Requests -> {"idle", "source", "gate", "begin", "pick", "run", "end"}]
  /\ kindOf \in [Requests -> Kinds \cup {"none"}]
  /\ keyOf \in [Requests -> AnyKey]
  /\ cfgOf \in [Requests -> Configs \cup {NoConfig}]
  /\ sourceOf \in [Requests -> {"AC", "BATTERY", "UNKNOWN", "none"}]
  /\ startedAt \in [Requests -> Nat \cup {Never}]
  /\ executor \in [Requests -> {"real", "recording", "none"}]
  /\ done \in [Requests -> SUBSET Commands]
  /\ ran \in [Requests -> BOOLEAN]
  /\ ranAt \in Nat \cup {Never}
  /\ ranKey \in AnyKey
  /\ held \in [Requests -> SUBSET {"ready", "battery", "discharging"}]
  /\ \A r \in Requests :
       /\ pc[r] = "idle" <=> cfgOf[r] = NoConfig
       /\ pc[r] \in {"begin", "pick", "run", "end"} <=> startedAt[r] # Never
       /\ pc[r] \in {"run", "end"} <=> executor[r] # "none"

(* The guard is taken exactly while one request is between its begin and    *)
(* its end, and remembers the key of that one.                              *)
OneAtATime ==
  /\ inflight <=> \E r \in Requests : Holding(r)
  /\ \A r, q \in Requests : Holding(r) /\ Holding(q) => r = q
  /\ \A r \in Requests : Holding(r) => pendingKey = keyOf[r]

(* Whatever the order in which requests take the time and the guard, and    *)
(* whatever is saved meanwhile: a sequence succeeds only if it began a       *)
(* cooldown after the last success, with the same key or another.           *)
SuccessesApart ==
  [][\A r \in Requests : ran[r] /\ pc'[r] = "idle" =>
       ranAt = Never \/ startedAt[r] >= ranAt + cfgOf[r].cooldown]_vars

(* A request is turned away as a duplicate only if a sequence with its key  *)
(* is running, or has succeeded within the cooldown: after a failure the    *)
(* same key may be tried again.                                             *)
DuplicateHasRun ==
  [][\A r \in Requests : pc[r] = "begin" /\ pc'[r] = "idle" /\ Duplicate(r) =>
       \/ \E q \in Requests : Holding(q) /\ keyOf[q] = keyOf[r]
       \/ ranKey = keyOf[r] /\ ranAt # Never /\ startedAt[r] < ranAt + cfgOf[r].cooldown]_vars

(* The gates are read one by one before the guard: a host command runs only *)
(* for a request during whose reads real actions were ready, the mains were *)
(* known to be off and the battery discharged, if not all at once.          *)
GatesHonoured ==
  [][\A r \in Requests : done'[r] \ done[r] # {} /\ executor[r] = "real" =>
       held[r] = {"ready", "battery", "discharging"}]_vars

(* A sequence that ends, well or not, gives the guard back.                 *)
GuardIsReleased == inflight ~> ~inflight
=============================================================================
