----------------------------- MODULE PowerWatcher -----------------------------
(***************************************************************************)
(* The mains watcher (internal/power): one goroutine scans the adapters,   *)
(* classifies what it found, and hands a transition to the event hook once *)
(* a new source has been seen in every poll for the debounce time.         *)
(*                                                                         *)
(* A scan reads the adapters one after the other, so what it finds need    *)
(* not have been true at any instant.  The hook runs on the same goroutine: *)
(* nothing is polled while an event is stored and a notification sent.     *)
(*                                                                         *)
(* Instants are kept as ages, counted up to the largest one that is ever   *)
(* compared, in units of the poll interval; a scan takes no time.          *)
(***************************************************************************)
EXTENDS Integers

CONSTANTS
  NumAdapters, (* mains adapters the host may have, in directory order      *)
  Debounce,    (* Watcher.debounce                                          *)
  MaxAge       (* bound: an outage is counted up to here                    *)

ASSUME ConstantsAssumption ==
  /\ NumAdapters \in Nat \ {0}
  /\ Debounce \in Nat \ {0}
  /\ MaxAge \in Nat /\ Debounce <= MaxAge

Adapters == 1 .. NumAdapters

(* What the online file of an adapter says; "absent" has no directory.      *)
Contents == {"1", "0", "malformed", "absent"}

Sources == {"AC", "BATTERY", "UNKNOWN"}

(* The age of the zero time. *)
NoAge == -1

VARIABLES
  online,     (* sysfs                                                      *)
  pc,         (* where the goroutine is: between polls, in a scan, in OnEvent *)
  toRead,     (* listed adapters the scan has not read yet                  *)
  found,      (* what the scan has read                                     *)
  baselined,  (* Watcher.baselined                                          *)
  committed,  (* Watcher.committed                                          *)
  pending,    (* Watcher.pending                                            *)
  pendingFor, (* age of Watcher.pendingSince                                *)
  lastSnap,   (* Watcher.lastSnap.Source                                    *)
  offACFor,   (* age of Watcher.lastOffAC                                   *)
  event,      (* the transition OnEvent is handling                         *)
  sameFor,    (* history: age of the first of the polls in a row that saw lastSnap *)
  outage,     (* history: age of the first poll to find the host off AC     *)
  fromStart   (* history: that poll was the first of all                    *)

scanVars == <<toRead, found>>
watcherVars == <<baselined, committed, pending, pendingFor, lastSnap, offACFor>>
historyVars == <<sameFor, outage, fromStart>>
vars == <<online, pc, scanVars, watcherVars, event, historyVars>>

NoEvent == [ from |-> "none", to |-> "none", duration |-> NoAge ]

-----------------------------------------------------------------------------
(* Classify, over what a scan found. *)
Classify(read) ==
  IF \E a \in Adapters : read[a] = "1" THEN "AC"
  ELSE IF \E a \in Adapters : read[a] = "0" /\ \A b \in Adapters : read[b] # "malformed"
       THEN "BATTERY"
       ELSE "UNKNOWN"

Seen == Classify(found)

(* Mutant: the time starts again with every poll. *)
PendingAgain(src) == src # committed

NewlyPending(src) == pending # src

(* Mutant: only the first loss of AC is stamped. *)
StampOnce(src) == offACFor' = IF src # "AC" /\ offACFor = NoAge THEN 0 ELSE offACFor

StampOffAC(src) == offACFor' = IF src # "AC" THEN 0 ELSE offACFor

(* Mutant: what was pending stays so. *)
KeepPending == UNCHANGED <<pending, pendingFor>>

ClearPending == pending' = "none" /\ pendingFor' = 0

(* The ages that time adds to. *)
Older(age, bound) == IF age = NoAge \/ age >= bound THEN age ELSE age + 1

-----------------------------------------------------------------------------
Init ==
  /\ online \in [Adapters -> Contents]
  /\ pc = "idle"
  /\ toRead = {}
  /\ found = [a \in Adapters |-> "absent"]
  /\ baselined = FALSE
  /\ committed = "none"
  /\ pending = "none"
  /\ pendingFor = 0
  /\ lastSnap = "none"
  /\ offACFor = NoAge
  /\ event = NoEvent
  /\ sameFor = 0
  /\ outage = NoAge
  /\ fromStart = FALSE

(* An adapter is plugged, unplugged, or misread by its driver. *)
AdapterChanges ==
  /\ \E a \in Adapters, c \in Contents : online' = [online EXCEPT ![a] = c]
  /\ UNCHANGED <<pc, scanVars, watcherVars, event, historyVars>>

TimePasses ==
  /\ pc # "scan"
  /\ pendingFor' = Older(pendingFor, Debounce)
  /\ sameFor' = Older(sameFor, Debounce)
  /\ offACFor' = Older(offACFor, MaxAge)
  /\ outage' = Older(outage, MaxAge)
  /\ UNCHANGED <<online, pc, scanVars, baselined, committed, pending, lastSnap, event,
                 fromStart>>

(* The directory is listed, then the files of each entry are read. *)
StartScan ==
  /\ pc = "idle"
  /\ pc' = "scan"
  /\ toRead' = { a \in Adapters : online[a] # "absent" }
  /\ found' = [a \in Adapters |-> "absent"]
  /\ UNCHANGED <<online, watcherVars, event, historyVars>>

ReadAdapter ==
  /\ pc = "scan"
  /\ \E a \in toRead :
       /\ \A b \in toRead : a <= b
       /\ toRead' = toRead \ {a}
       /\ found' = [found EXCEPT ![a] = online[a]]
  /\ UNCHANGED <<online, pc, watcherVars, event, historyVars>>

-----------------------------------------------------------------------------
(* evaluateLocked, one action for each of its outcomes. *)

(* An outage is over for an observer of the polls, as the README has it,    *)
(* when AC has been seen for the debounce time.                             *)
ACIsBack == Seen = "AC" /\ lastSnap = "AC" /\ sameFor >= Debounce

(* A poll that leaves source committed; the last three are history.  They   *)
(* follow what the polls saw, and ignore what the watcher made of it.       *)
Evaluate(source) ==
  /\ pc = "scan"
  /\ toRead = {}
  /\ lastSnap' = Seen
  /\ committed' = source
  /\ UNCHANGED <<online, scanVars>>
  /\ sameFor' = IF lastSnap = Seen THEN sameFor ELSE 0
  /\ outage' = IF Seen = "AC" THEN IF ACIsBack THEN NoAge ELSE outage
               ELSE IF outage = NoAge THEN 0 ELSE outage
  /\ fromStart' = (outage' # NoAge /\ (fromStart \/ lastSnap = "none"))

Quiet == pc' = "idle" /\ UNCHANGED event

Baseline ==
  /\ Evaluate(Seen)
  /\ ~baselined
  /\ baselined' = TRUE
  /\ StampOffAC(Seen)
  /\ Quiet
  /\ UNCHANGED <<pending, pendingFor>>

Same ==
  /\ Evaluate(committed)
  /\ baselined
  /\ Seen = committed
  /\ ClearPending
  /\ Quiet
  /\ UNCHANGED <<baselined, offACFor>>

FirstSight ==
  /\ Evaluate(committed)
  /\ baselined
  /\ Seen # committed
  /\ NewlyPending(Seen)
  /\ pending' = Seen
  /\ pendingFor' = 0
  /\ Quiet
  /\ UNCHANGED <<baselined, offACFor>>

StillPending ==
  /\ Evaluate(committed)
  /\ baselined
  /\ Seen # committed
  /\ ~NewlyPending(Seen)
  /\ pendingFor < Debounce
  /\ Quiet
  /\ UNCHANGED <<baselined, pending, pendingFor, offACFor>>

Transit ==
  /\ Evaluate(Seen)
  /\ baselined
  /\ Seen # committed
  /\ ~NewlyPending(Seen)
  /\ pendingFor >= Debounce
  /\ event' = [ from |-> committed, to |-> Seen,
                duration |-> IF Seen = "AC" THEN offACFor ELSE NoAge ]
  /\ StampOffAC(Seen)
  /\ ClearPending
  /\ pc' = "event"
  /\ UNCHANGED baselined

(* The hook stores the event and sends a notification, and logs what fails. *)
OnEvent ==
  /\ pc = "event"
  /\ pc' = "idle"
  /\ event' = NoEvent
  /\ UNCHANGED <<online, scanVars, watcherVars, historyVars>>

Tick ==
  \/ StartScan
  \/ ReadAdapter
  \/ Baseline
  \/ Same
  \/ FirstSight
  \/ StillPending
  \/ Transit
  \/ OnEvent

Next == AdapterChanges \/ TimePasses \/ Tick

Spec == Init /\ [][Next]_vars

(* A time.Ticker drives the goroutine, and the hook has a timeout.  Scans    *)
(* interrupt the passing of time in the model only: hence strong fairness.  *)
Fairness == WF_vars(Tick) /\ SF_vars(TimePasses)

FairSpec == Spec /\ Fairness

-----------------------------------------------------------------------------
(* Properties. *)

(* Every variable holds a value of the kind the code gives it, and a source *)
(* is pending only while it differs from the committed one.                 *)
TypeOK ==
  /\ online \in [Adapters -> Contents]
  /\ pc \in {"idle", "scan", "event"}
  /\ toRead \subseteq Adapters
  /\ found \in [Adapters -> Contents]
  /\ baselined \in BOOLEAN
  /\ committed \in Sources \cup {"none"}
  /\ baselined <=> committed # "none"
  /\ pending \in (Sources \ {committed}) \cup {"none"}
  /\ pendingFor \in 0 .. Debounce
  /\ lastSnap \in Sources \cup {"none"}
  /\ offACFor \in 0 .. MaxAge \cup {NoAge}
  /\ event \in [ from : Sources \cup {"none"}, to : Sources \cup {"none"},
                 duration : 0 .. MaxAge \cup {NoAge} ]
  /\ sameFor \in 0 .. Debounce
  /\ outage \in 0 .. MaxAge \cup {NoAge}
  /\ fromStart \in BOOLEAN

(* README.md:428: "A new AC state must stay stable for 10 seconds": an      *)
(* event is raised only for a source that every poll of the debounce time   *)
(* has seen, so neither a flap nor a torn scan raises one.                  *)
StableForDebounce ==
  [][baselined /\ committed' # committed =>
       sameFor' >= Debounce /\ lastSnap = committed' /\ lastSnap' = committed']_vars

(* The outage a reconnection reports (duration_ms) against what the polls   *)
(* saw, whatever flaps and changes of the source came between.  outage is   *)
(* the time since the first poll off AC, up to the poll that reports, when  *)
(* AC has been back for the debounce time.  The report leaves out at least  *)
(* as much, so that it does not exceed the time without AC; only when the   *)
(* daemon was started without AC is that debounce time reported as outage   *)
(* too.  The report may be much too short: see DurationIsOutage.            *)
DurationWithinOutage ==
  [][event' # event /\ event'.to = "AC" =>
       /\ outage # NoAge
       /\ event'.duration >= 0
       /\ \/ outage = MaxAge
          \/ event'.duration + (IF fromStart THEN 0 ELSE Debounce) <= outage]_vars

(* Once the adapters stop changing, what they say is committed.             *)
StableIsCommitted ==
  <>[][FALSE]_online => <>[](committed = Classify(online))

-----------------------------------------------------------------------------
(* A claim of the program that it does not keep. *)

(* notify.go:195, the text of the notification: "AC power restored after    *)
(* %s."  An adapter that becomes unreadable, or readable again, during an   *)
(* outage makes it begin anew.                                              *)
DurationIsOutage ==
  [][event' # event /\ event'.to = "AC" => outage <= event'.duration + 2 * Debounce]_vars
=============================================================================
