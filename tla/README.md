# LapGuard in TLA+

LapGuard watches the battery of a laptop used as a server, warns its owner, and,
if told to, stops the containers, syncs the disks and powers the host off. This
directory models the parts of the daemon whose correctness depends on the order
of events: which goroutine or request takes a lock first, what is read before
the lock and used after it, what happens between two steps of a handler, what
fails half way.

## The system

| Component | Source | State | Operations | What makes it correct |
|---|---|---|---|---|
| Smart drain | `internal/safety/auto_drain.go` | state, notified flag, deadline, last answer and last reading, under `mu` | `Tick` (poll goroutine), `Respond` (requests), `Reset` (settings), `execute` | no drain without a warning and a consent, one drain per prompt, NO stands, the window is kept, no prompt hangs |
| Safety controller | `internal/safety/controller.go` | state, three latches, last plan and its time | `Tick`, `Simulate` | one alert for each crossing, no plan on AC or below the cooldown |
| Power watcher | `internal/power` | committed and pending source, times | `Tick` | only stable changes become transitions, transitions chain |
| Notifications | `internal/notify` | last time per event type | `Send`, `HandlePower` | rate limit, bounded retries, dry run delivers nothing |
| Manual actions | `internal/api/actions.go`, `internal/actions` | busy flag, last kind, time and key hash | `begin`, `end`, the two POST handlers | one action at a time, cooldown, no duplicate key |
| Settings | `internal/config`, `internal/api/config.go` | `Server.cfg`, the file | start, PUT and POST handlers, `Save`, CLI, edits by hand | the file always starts the daemon, what is served is valid and saved, what was acknowledged comes back, a patch changes what it names |
| Authentication | `internal/config/auth.go`, `internal/auth`, `internal/api/protect.go` | token hash, in memory and in the file | generate, rotate, disable, verify, the gate of the requests | every token in force was shown to someone, no change without it, a rotated token is dead |
| Event and audit store | `internal/storage` | rows of two tables | `Insert`, `List`, prune | the tables are bounded, recent rows survive, ids and listings tell the order |
| Battery readings | `internal/battery` | the provider chosen at the start | sysfs reads, estimates | an estimate is the arithmetic of what was read, what is missing is said, a synthetic battery stands in only for no battery |
| Charge thresholds | `internal/thresholds` | the two sysfs files | `Set` | a `Set` that succeeds has set both limits |
| Discovery | `internal/discovery` | cached report | refresh | the primary battery and the threshold method |
| Tailscale, CLI, dashboard | `internal/tailscale`, `cmd`, `web` | none | print, show | presentation |

How they interact. `main` starts three goroutines, each with a ticker: the power
watcher, the safety controller and the smart drain. The two controllers read the
battery provider and the watcher's last snapshot (`safetyRead`), and the server's
configuration (`currentConfig`) through callbacks, always before they take their
own lock. The watcher stores a transition and then sends a notification from its
own goroutine; the controllers send theirs after dropping the lock. HTTP handlers
run concurrently with all of this: they replace `Server.cfg` as a whole under the
server's lock (`updateSettings`), reset the smart drain in a second step, answer
its prompts, simulate alerts, and run manual actions behind `actionGuard`. Every
host command goes through `manualExecutor`, which reads the settings once more.

What is hard: settings read before a lock and used after it; the lock dropped
while a warning is sent and while commands run; several requests answering the
same prompt; resets in the middle of a sequence; deliveries that fail, time out
or are only simulated; commands that fail half way; two processes writing one file,
and power that goes away while it is replaced; statements of concurrent calls in
one table; files that change while they are read one by one.

## Modules

| Module | Models |
|---|---|
| `AutoDrain` | the smart drain state machine with its poll goroutine, the requests that answer it, the settings handlers and the sequence of host commands |
| `DrainConsent` | what the smart drain promises, without threads or locks: prompts that are asked, opened, granted, declined or withdrawn, and drains of granted prompts |
| `AutoDrainProofs` | theorems about `AutoDrain` |
| `SafetyController` | the alert latches and the intended plan, with the poll goroutine and the simulations that share them |
| `PowerWatcher` | the scan of the mains adapters, the debounce and the event hook |
| `Notifier` | `Send` under concurrent callers: settings, limiter, retries, deadlines, a provider that fails |
| `ManualActions` | the POST requests for host actions: gates, guard, idempotency keys, executor |
| `Settings` | the configuration as a value: defaults, validation, patches, secrets, tokens, what the file keeps and what flags override |
| `SettingsStore` | the file, the daemon that starts from it and saves to it, its requests, `lapguard auth` beside it, crashes |
| `EventStore` | one table of the event log, its inserts, prunes and listings |
| `Battery` | power, health, runtime and its label, missing fields, the choice of a battery and of a threshold method, as operators |
| `BatteryReadings` | the choice of the provider, a snapshot read file by file, the writes of the charge limits |
| `MC...` | the instances for TLC (`PowerWatcher` needs none) |
| `SafetyControllerProofs`, `PowerWatcherProofs`, `NotifierProofs`, `ManualActionsProofs`, `SettingsStoreProofs`, `EventStoreProofs`, `BatteryReadingsProofs` | theorems about them |

### AutoDrain

The variables are the fields of the Go struct under `mu` (`state`, `notified`,
`deadline`, `lastResponse`, `lastSample`, `commandsExecuted`), the configuration
of the server, the reading of the sensors, the clock, and for each thread its
place in the code (`pc`) and the locals it carries from one critical section to
the next (`cfgOf`, `sampleOf`, `sampledAt`, `executor`). One action is one
critical section, or one call made without the lock: `Poll`, `TickConfig`, then
one of `TickDisabled`, `TickQuiet`, `TickWarn`, `TickWithdraw` and `TickTimeout`;
`SendWarning` and, back under the lock, `WarningAccepted` or `WarningRefused`;
`RespondConfig`, then `RespondNothingPending`, `RespondNo` or `RespondYes`;
`ExecuteRefused`, `ExecuteBlocked` or `ExecuteStart`, and `RunCommand`,
`CommandFails`, `Finish` for the sequence. `prompt`, `receipt`, `answer`,
`promptOf`, `runs` and `host` are history: they record what the code does for
each prompt and guard nothing but the bound on the number of prompts.

Abstractions. A reading keeps the percentage (or none) and whether the pack is
discharging with no AC, which the code never tests apart. The settings keep the
nine fields the machine tests. A failed battery read is a poll that does not
happen. At most one request to disable the feature is between its save and its
`Reset`. Reasons, messages and the snapshot are left out.

### SafetyController

The variables are the fields of `Controller` under `mu` that decide anything:
`state`, the latches `warnActive`, `critActive` and `shutdownActive` (which of
them stands), `lastActionAt` and the plan. `Poll` and `Simulate` start the two
kinds of evaluation; `TickConfig` reads settings and sensors before the lock;
each arm of `evaluateLocked` is an action (`EvaluateUnknown`, `EvaluateAC`,
`EvaluateNotDischarging`, `EvaluateNormal`, `EvaluateWarning`,
`EvaluateCritical`, the last in its two cases); `Emit` is the notification after
the lock. `SimulateUnlatch` is the first of the two critical sections of a
simulation, which reads the settings once more. The reason, the last sample and
the last event only serve the snapshot and are left out.

### PowerWatcher

A tick is `StartScan`, one `ReadAdapter` per adapter that was listed (they may
change in between), one arm of `evaluateLocked` (`Baseline`, `Same`, `FirstSight`,
`StillPending`, `Transit`) and, for a transition, `OnEvent`. The variables are the
fields of `Watcher`; the instants `pendingSince` and `lastOffAC` are kept as ages,
in poll intervals. `sameFor`, `outage` and `fromStart` are history of what the
polls saw, whatever the watcher made of it: an outage begins with the first poll
off AC and is over when AC has been seen for the debounce time. A scan takes no
time and polls are one unit apart; a hook that runs long only makes them rarer.

### Notifier

A sender is a call of `Send`: `Send` reads the settings, `RateLimited` or
`Allow` asks the limiter (one critical section), then `Begin`, one of
`Accepted`, `Refused` and `Unanswered`, and `TryAgain` for each attempt, until
one succeeds, none is left or the context ends (`Expire`). `allowedFor` is
`Limiter.last` as ages. A provider that answers too late or whose answer is lost
may still have received the message (`Unanswered`): `copies` and `reachedFor`
record what it received, `offFor` for how long the settings have allowed nothing.
The timeout of one HTTP request is one of the ways an attempt may fail. That a
call does not outlive its context is what `context.WithTimeout` gives; the unit
of time hides the scheduling of the goroutine. Clocks only go forward.

### ManualActions

The guard (`inflight`, `last`, `lastKey`, `pendingKey`) is shared; what a request
has read is its own (`cfgOf`, `sourceOf`, `startedAt`, `executor`). A request goes
through `Receive`, `ReadSource`, `Blocked` or `TakeTime` (the battery is read with
the gate), `BeginRefused` or `Begin`, `PickExecutor`, the commands, and `Finish`,
the deferred `end` of the guard. `WorldChanges` saves settings or moves the
sensors between any two of them. `Duplicate` tells the two texts of a refusal
apart. Confirmation, the form of a key, the audit log and the read-only status
and preview are left out. A failed command is one that returned an error; it may
be the timeout or a client that went away.

### Settings and SettingsStore

`Settings` is the configuration as a record of sections. `Tidy` and `Valid` are
the two halves of `normalize` (what it fills in, what it refuses), `Override` and
`Merge` are the patches, `WithoutEchoes` drops the empty or redacted secrets of a
patch, `Applied` and `Accepts` are a whole PUT, `Persisted` and `Loaded` the way
out to the file and back in, `OverlayFlags` the command line. A token is a number,
its hash another; addresses, chats and paths are members of small sets.

`SettingsStore` has the file (`disk`: as readers see it, as it was before the last
rename, whether its data is on the disk), the save each process is in (`stage`,
`saving`), and the daemon from `Load` through the token (`MintToken`,
`MintingDone`) and the first run (`FirstRun`) to `Listen`. A request is `Request`
(let through with the settings of that moment), or `RequestDisable` and
`RequireAuth`, which read them twice; then `Update` under the lock, a save, and
`Publish` or `PersistFails`. The save replaces the file in one step
(`ReplaceFile`) after steps only it can see; the chmod after the rename may fail
when it is too late. `Command`, `CommandDone` and `CommandFails` are `lapguard
auth`, a process with its own copy. `KillDaemon`, `KillCommand` and `PowerLoss`
come at any step; a power loss may undo the last rename, since the directory is
not synced. `EditFile` is an editor, taken as atomic. Origin checks, JSON errors,
timestamps and options that are only copied are left out.

### EventStore

A call of `Insert` or `InsertAudit` is `Stamp`, `Insert`, `Prune` (the cutoff),
`DeleteOld` and `DeleteSurplus`; statements of several calls interleave, because
each is a transaction of its own on the one connection. `Fail` ends a call at any
statement (the context of a request is cancelled when its client goes away),
`Restart` ends them all. Instants are half seconds, enough to tell the order of
RFC3339Nano texts from that of times: `"05Z"` sorts after `"05.5Z"`. The tables
do not touch each other, so that one of them is modelled. `stored`, `latest` and
`abandoned` are history.

### Battery and BatteryReadings

`Battery` has no state: each operator is a function of `compute.go`,
`provider.go` or discovery over the files of a directory. Quantities are integers,
with energies in watt-seconds so that the factor 3600 is part of the unit; what
floating point adds in rounding is left out, and the label of an estimate is
computed on whole seconds, as in the code. Numbers that do not parse are left out,
files that cannot be read are not.

`BatteryReadings` runs the start of the daemon (`Open`, then `Refresh`) and
snapshots one after the other: the directory is resolved, `present` is read, the
files are listed and read one by one (`ReadField`), and `Enrich` answers. `Change`
replaces a directory between any two of these steps. `SetBegin`, `WriteStart` and
`WriteEnd` are one caller of `Controller.Set`, which the daemon builds and does
not call; the driver's refusal of limits in the wrong order (`Accepts`) is what
the comment in `setSysfs` says of drivers. Discovery is one step.

## Runs

| Run | Question | Bounds |
|---|---|---|
| `drain_race` | do two requests, the poll goroutine and a disabling settings request keep the prompt protocol, and implement `DrainConsent`? | 2 requests, 2 prompts, on and off, low battery or AC, 2 instants |
| `drain_settings` | does a sequence need a delivered warning and a consent, and is a run on the host reported, whatever is saved, read or lost between two steps; is the window kept when it is edited while open; does every prompt end? | 1 request, 1 prompt, 3 settings (armed; dry run with a longer window; off and muted), 3 readings, deliveries that succeed or fail, 3 instants |
| `drain_unnotified` | do host commands need a notification that was delivered (`README.md`)? No | 1 request, 1 prompt, notifications real or rehearsed, a notifier that may panic |
| `drain_no_overruled` | does a NO keep the host up (`README.md`)? No | 2 requests, 2 prompts |
| `safety` | is each crossing alerted once and none passed over, is a lasting critical battery reported? | 1 simulation, two sets of thresholds, 6 readings, 2 instants |
| `power` | does every event follow a stable debounce time, does a reported outage stay within what the polls saw of it, does the watcher commit what lasts? | 2 adapters, debounce of 2 polls, outages of 6 polls |
| `notify` | one delivery of a kind at a time, a cooldown apart, none long after switching off, honest results, every call returns? | 2 senders, 2 kinds (one exempt), 4 settings, 2 attempts, cooldown 2, call 1 |
| `manual` | one sequence at a time, a cooldown apart, only through the gates, duplicates told apart, the guard always given back? | 2 requests, 1 key or none, 3 settings, 2 readings, 2 instants |
| `settings` | does the file always start the daemon, is what is served valid and saved, does what was acknowledged come back, do patches keep to what they name, are secrets and tokens kept, are changes authorised? | 2 clients (one remote) with 5 bodies, 1 command line, 2 edits, 2 tokens, every fault, 4 starts, saves, commands and edits together |
| `settings_rotation` | is a rotated token dead after a restart (`docs/security.md`)? No | the same |
| `store` | is the table bounded, is no recent row lost, do ids and listings tell the order? | 2 calls, 2 types, 3 rows, a table of 2, age of 1 s, 2 s of clock |
| `battery` | are runtime, label and health the arithmetic of what was read, is what is missing said, does a successful `Set` set? | 1 directory, 1 change, about 100 packs on both sides of every change of a label, 7 calls of `Set` |

Two requests are enough for a double YES, a YES against a NO, and a request caught
between two prompts; two prompts are enough for an answer to one to meet the
other. The clock is bounded because only its order with the deadline counts. Two
thresholds and readings on both sides of each, of the recovery margin and of the
minimum, reach every arm of the controller. Ages are cut at the largest one
compared, which loses nothing. Two requests for host actions with cooldowns of 1
and 2 units over two instants reach the guard in both orders, inside and after a
cooldown, and with a cooldown edited in between; two adapters are enough for a
scan that sees neither online while the charger moves. Two senders meet at every
place of a call; a cooldown longer than a call is all the limiter relies on. Four
events of the settings are enough for a start, a request, a command and a restart,
or two requests that were admitted before either is served. Two inserts beside
each other and three rows meet a table of two at its limit. One change of a
directory falls between any two files of a snapshot, and a snapshot remembers
nothing of the one before.

Settings are checked without the deadlock test, because the daemon may stay down:
nothing in the program starts it again. Type invariants and the invariants that
are proved below (`NothingAnsweredWhileSending`, `PowerOffLast`,
`StateMatchesLatches`, `PlanNeedsAlert`) are not among the runs any more.

What the `No` rows show. `drain_unnotified`: a panic of the notifier is recovered
into a nil error, and a dry run of the notifications returns nil, so that
`README.md:65`, `auto_drain.go:63` and `settings.go:77` do not hold. The run
`drain_settings` checks what is left of them, with a notifier that delivers or
reports a failure. `drain_no_overruled`: the sequence of an accepted YES is never
recalled. `settings_rotation`: the running daemon saves its whole configuration,
with the hash it read at its start, over the one `lapguard auth rotate` wrote.

Other statements of the documents that the code does not keep, stated in the
modules and not part of the runs: `AutoDrain!CommandsExecutedIsReal` (a dry run
saved before `pickExecutor` leaves `commands_executed` true for a recorded
sequence, `auto_drain_test.go:104`; the run checks the converse),
`BatteryReadings!MockOnlyWithoutBattery` (`Probe` asks `BAT0` alone when it exists,
so that an empty slot beside a pack in `BAT1` makes the daemon take the synthetic
battery, `factory.go:17` and `README.md:189`),
`SafetyController!CriticalIsPlanned` (a critical battery met during the cooldown
is not planned for when it is over, `README.md:433`) and
`PowerWatcher!DurationIsOutage` (an adapter that becomes unreadable during an
outage restarts its duration, `notify.go:195`; the run bounds the report from
above only). Met on the way and not stated: a
pack without `power_now` whose driver reports an unsigned current has a positive
`power_w` while it discharges, against `compute.go:36`; and `setSysfs`, which
writes the start limit first, cannot raise a window above its present end when
the driver compares the two.

Fairness (`FairSpec`) is assumed of the clock, of the poll goroutine and of the
sequence it may run: a `time.Ticker` drives the first, and every call it makes
outside the lock has a timeout (8 s for the warning, the command's own for the
sequence). Nothing is assumed of the requests or of the sensors. For the
controller, of its polls and their steps, for the same reason. For the watcher,
of its steps, and strongly of time, which passes between polls but not during
one: a poll always ends. For the notifier, of the steps of a call, because every
wait in it has a deadline. For manual actions, of each handler, a goroutine whose
commands have a timeout.

## Proofs

Of the forty properties of the passing runs, thirty-five are also theorems
(`RunNeedsConsent` under a hypothesis, see below): they hold for all constants,
any number of steps, requests, packs or faults, where a run shows them for its own
instance. Hardly any of the invariants is inductive alone; each `...Proofs` module
says which facts close the circle, and TLC checked those before the proof.

`AutoDrainProofs`. That a prompt is answered once rests on an open prompt having
no answer, which rests on nobody answering while the lock is free for the warning,
which rests on the notified flag agreeing with the state. `IInv` joins these:
`Typed` (`TypeOK`, and threads past their first read hold settings), `Prompting`
(flag, state and the place of the poll goroutine), `Answers` (what is known of the
answer and the receipt of each prompt), `Carriers` (who carries which answer from
`Respond` to `execute`), `CommandsOK` (which commands have run) and `OnHost` (what
ran on the host belongs to a started sequence whose settings allowed it). The
groups are proved one after the other, each using those before it. The action
properties (`NoStands`, `WindowHonoured`, `HostRunIsReported`) are facts about one
step from `IInv`; the last rests on no two threads carrying the same prompt.
`ConsentBeforeRun` has a hypothesis, `NotifierIsPlain`: the notifier does not
panic and no settings rehearse it. Then a receipt that is neither missing nor a
failure is a delivery (`PlainReceipts`), and it is needed, as `drain_unnotified`
shows. Another fact about one step is the refinement: under the map from answers,
runs and the place of the current prompt to verdicts and drains, a step of the
machine is a step of `DrainConsent` or leaves it alone (`ConsentIsKept`). `IInv`
is needed where a critical section answers (the prompt must be open in the
abstract), where a tick or a `Reset` withdraws, and for a drain that starts after
the next prompt was put.

`SafetyControllerProofs`: a latch mirrors the state it was set with, as an
equation between `state` and the latches that every arm keeps (`StateAgrees`);
plans follow it (`PlanHasAlert`), a level that was passed has been alerted
(`LowWasAlerted`), and an alert of a latched level needs a step that clears it
(`AlertsOnce`).

`PowerWatcherProofs`: the age of the pending source is at most the age of the
polls in a row that saw it, and a transition waits for the debounce
(`EventsAreStable`). `Stamped` says of the instant off AC that the watcher recorded
that it came at least a debounce after the first poll off AC, or that this poll was
the first of all, since a commit off AC waited for polls of that same outage
(`PollInOutage`); the poll that reports it finds the outage still open
(`DurationIsBounded`).

`NotifierProofs`: `Slots` says that a call delivering a limited kind took its
slot no longer ago than it began. A call is shorter than the cooldown, so a second
one finds the slot taken (`DeliveriesApart`). `Spacing` adds that the last message
came at most a call after its slot, hence the next is a cooldown less a call away
(`MessagesApart`). `Quiet` says that settings a call has read were in force when
it began (`QuietWhenOff`). What a call returns agrees with what the provider
received (`AnswersAreHonest`), which is inductive with the place of the call.

`ManualActionsProofs`: the guard is taken exactly while one request is between
`begin` and `end` (`GuardIsExclusive`). What it remembers is the last success
(`GuardRemembers`), and nobody succeeds while another holds it, so that a cooldown
found over at `begin` is still over at `end` (`CooldownOver`); this is what
`CooldownKept` and `DuplicatesHaveRun` need. What a request has read of settings
and sensors held at some instant of its reads (`ReadsWereSo`, `GatesPassed`), which
gives `GatesAreHonoured` although the world changes between any two of them.

`SettingsStoreProofs` first reasons about configurations as values: `normalize` is
idempotent (`TidyTwice`), what it accepts stays accepted, a configuration comes
back from its file as it was (`ReadBack`), a merge keeps every field and secret
that the patch does not name (`MergedField`, `WantedNames`, `WantedSecrets`). The
invariant is about copies: whatever is served, being saved or on the disk, now or
before the last rename, is whole, valid and completed (`CopiesAreGood`,
`FilesAreGood`) and has a token somebody knows (`TokensKnown`). What was
acknowledged is the file (`AckedOnDisk`), the request holding the lock is the one
whose configuration is being saved (`LockIsSaving`), and an admitted request held
the token in force (`RequestsAreAdmitted`). That no file is ever torn rests on the
data being synced before the rename (`disk.synced`, `FileIsStartable`). An
acknowledged change comes back at the next start unless a power loss undid the
last rename, which is all it can undo, or something else replaced the file
(`AcknowledgedSurvive`). The other theorems are `ServedCoherently`,
`TokensAreRead`, `SavedFirst`, `UnnamedAreKept`, `SecretsAreKept`,
`RemoteChangesAreAuthorised`.

`EventStoreProofs`: the sequence counts the rows stored, each of which got the
count as its id (`Counted`), so no id comes twice (`IdsAreFresh`). `Cutting` says
that what is in the table was stored and that every cutoff lies `MaxAge` before a
time the clock has shown. The rows above an id inject into the rows stored after
it (`NewerWereStored`, by the theorems on finite sets), which makes a row that a
prune takes away either old or followed by `MaxEvents` others
(`RecentRowsSurvive`). The rows a prune keeps inject into `0 .. MaxEvents - 1` by
the number of rows above each (`NewestAreFew`); what else is in the table was put
there by a call under way or cut off since (`TableIsBounded`). A listing is given
without a sort: its i-th row has i - 1 rows before it in the order of the query. In
a finite set with a strict total order the number of rows before a row takes each
value below the size once (`RanksAreExact`, a matter of injections between sets of
one size), so that the listing is complete and sorted (`ListingIsSorted`); that ids
and the texts of timestamps are such orders gives `ListingsAreNewest`.

`BatteryReadingsProofs`: the arithmetic of `compute.go` is right for all integers a
pack may hold (`EnrichedIsHonest`), the directory that `Probe` or `resolve` takes
exists (`Least`, the first name of those found), and an answer is the
arithmetic of what one snapshot read (`Answered`), hence `EstimatesAreHonest` and
`HealthIsHonest`. Every tracked file that a snapshot has passed is missing,
complained of, or has given its value, as long as the pack stays where it is
(`ReadSoFar`, `NoGapIsHidden`); a `Set` on its second write has its first in force
(`Planned`, `SetHasSet`).

Assumptions. They are the named ASSUMEs of the modules, which TLC evaluates on
every instance, and each is a fact of the code or a type:

- `ConstantsAssumption`, `StoreAssumption`, `ReadingsAssumption`: the poll
  goroutine is not a request, outages are counted beyond the debounce, settings
  and readings are of their types, critical is below warning (which `normalize`
  makes so), bounds are natural numbers, a call of the notifier is shorter than
  its cooldown (12 s against 5 minutes in the code), names are not the mark for no
  name.
- `BodiesAssumption`: a request names only sections of `settingsRequest`.
  `FlagsAssumption`: a command line that does not parse never starts the daemon.
  `EditsAssumption`: nobody writes the hash of a token by hand; an edit may
  otherwise be anything, valid or not.
- `EmptyAssumption`: the empty and the redacted string are no address and no chat,
  which the code's validation refuses.
- `PacksAssumption`: a file that parses holds an integer (`readIntField`), and the
  marks for a missing, an unreadable and an unread file are not integers. It says
  nothing of the sign or the size of a value.

What stays with TLC. The five liveness properties (`PromptSettles`,
`CriticalIsReported`, `StableIsCommitted`, `SendReturns`, `GuardIsReleased`): the
prover cannot reason about ENABLED, hence not about fairness. The three documented
statements that the code does not keep are refuted by TLC on their instances.

## Plan

Done: the nine components with their runs, and the theorems above. Next:

1. The documented statements that hold under a condition (a NO keeps the host up
   unless an earlier YES is on its way, a rotated token is dead unless the daemon
   saves afterwards), stated with the condition and proved.
2. Manual actions beside the smart drain, which does not take the guard.
3. Controller and notifier composed, for alerts that are lost between them.

## Not modelled

The tailscale check and the dashboard keep no state that the others depend on;
HTTP routing only moves data, and the deadline of the server
(`main.go:186`, shorter than a long power-off sequence) cuts an answer, not the
sequence. `WatchLevels` is not started by the daemon. Of discovery, kernel
modules, tools, the ThinkPad platform files and the compatibility report only
describe the machine. A temporary file left by a crash is never read. The text of
audit rows and what is done to keep secrets out of it is a matter of strings.
Clocks go back in `EventStore` only: a limiter, a deadline or a debounce whose
clock is set back waits until it has caught up.
